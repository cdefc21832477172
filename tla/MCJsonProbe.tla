---------------------------- MODULE MCJsonProbe ----------------------------
EXTENDS JsonProbe

Str(s) == [t |-> "str", s |-> s]
True == [t |-> "bool", s |-> <<"true">>]
Null == [t |-> "null"]
IntDoc(s) == [t |-> "int", s |-> s]
FloatDoc(s) == [t |-> "float", s |-> s]
Arr(s) == [t |-> "arr", elems |-> s]
Obj(s) == [t |-> "obj", members |-> s]

\* Strings with everything in them that the extractor must not take for syntax.
Texts == {Str(<<>>), Str(<<"a", "q", "}">>), Str(<<"[", "bs", ",">>)}
Words == Texts \cup {True, Null}
Numbers == {IntDoc(<<"1", "2">>), FloatDoc(<<"1", ".", "2">>)}

Members(S) == [key : {"a", "0"}, val : S]

Flat(S) ==
    {Arr(<<>>), Obj(<<>>)} \cup {Arr(<<x>>) : x \in S}
      \cup {Arr(<<x, y>>) : x, y \in S}
      \cup {Obj(<<m>>) : m \in Members(S)}
      \cup {Obj(<<m, n>>) : m, n \in Members(S)}

Pick(S) == {Arr(<<x, True>>) : x \in S} \cup {Obj(<<[key |-> "a", val |-> x]>>) : x \in S}

Nested(S) ==
    {Obj(<<[key |-> "b", val |-> x], [key |-> "a", val |-> y]>>) : x, y \in Pick(S)}
      \cup {Arr(<<x, y>>) : x, y \in Pick(S)}

Docs(S) == S \cup Flat(S) \cup Nested(S)

AllDocs == Docs(Words \cup Numbers)
AllPaths == {<<>>, <<"a">>, <<"b">>, <<"0">>, <<"1">>, <<"a", "0">>, <<"a", "a">>,
             <<"1", "a">>, <<"0", "1">>}
=============================================================================
