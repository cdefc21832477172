------------------------------ MODULE MCSpell ------------------------------
(***************************************************************************)
(* The language on small programs: every operator of the grammar nested in *)
(* every other one, in both languages, and a few programs for each builtin *)
(* and each limit.                                                         *)
(***************************************************************************)
EXTENDS Spell

ConstInt(n) == Const(Int_(n))
Name(x) == Node("Name", x, <<>>, <<>>)
Text1(s) == Const(Str_(s))
BinOp(op, a, b) == Node("BinOp", op, <<>>, <<a, b>>)
BoolOp(op, es) == Node("BoolOp", op, <<>>, es)
Cmp(ops, es) == Node("Compare", "", ops, es)
Unary(op, a) == Node("UnaryOp", op, <<>>, <<a>>)
If(c, a, b) == Node("IfExp", "", <<>>, <<c, a, b>>)
Subscript(a, i) == Node("Subscript", "", <<>>, <<a, i>>)
ListOf(es) == Node("List", "", <<>>, es)
Call(f, es) == Node("Call", f, <<>>, es)
Method(a, f, b) == Node("Method", f, <<>>, <<a, b>>)

x == Name("x")
one == ConstInt(1)
three == ConstInt(3)

\* Every way to put e next to an operand or under an operator.
Around(e) ==
    {BinOp(op, e, x) : op \in {"+", "-", "*", "/", "%"}}
    \cup {BinOp(op, three, e) : op \in {"-", "*", "/", "%"}}
    \cup {BoolOp("and", <<e, x>>), BoolOp("and", <<x, e, one>>), BoolOp("or", <<e, x>>), BoolOp("or", <<x, e>>)}
    \cup {Cmp(<<"<">>, <<e, three>>), Cmp(<<"==">>, <<x, e>>)}
    \cup {Unary("not", e), Unary("-", e), If(e, x, one), If(x, e, one), If(x, one, e)}
    \cup {Subscript(e, one), Subscript(x, e), ListOf(<<e, x>>), Call("max", <<x, e>>)}

\* What one language has and the other has not, and the same in the other one.
Chains(e) == {Cmp(<<"<", "<=">>, <<x, e, three>>), Cmp(<<">", "!=">>, <<e, one, x>>),
              Cmp(<<"in">>, <<e, ListOf(<<x, one>>)>>), Cmp(<<"not in", "==">>, <<x, ListOf(<<e>>), one>>)}
Methods(e) == {Method(e, "contains", x), Method(ListOf(<<x, one>>), "contains", e), Method(x, "push", e)}
Signs(e) == {Unary("+", e), Unary("~", e), Cmp(<<"is">>, <<e, x>>)}
ForeignWords(e) == {[BoolOp("and", <<e, x>>) EXCEPT !.v = Foreign], [BoolOp("or", <<x, e>>) EXCEPT !.v = Foreign],
                    [Unary("not", e) EXCEPT !.v = Foreign]}
Commas(e) == {[ListOf(<<x, e>>) EXCEPT !.v = TrailingComma], [Call("max", <<x, e>>) EXCEPT !.v = TrailingComma]}

Extras(e) == Chains(e) \cup Methods(e) \cup Signs(e) \cup ForeignWords(e) \cup Commas(e)

Leaves == {x, ConstInt(0), ConstInt(16), Unary("-", one)}
Depth1 == Leaves \cup Around(x) \cup Extras(x)
Depth2 == UNION {Around(e) \cup Extras(e) : e \in Depth1}

Program1(lang, e) == [lang |-> lang, lets |-> <<>>, ret |-> e, semi |-> FALSE]

\* Two bindings, the second of the same name as the first or of another.
Binding(n, e) == [name |-> n, e |-> e]
LetPrograms ==
    {[lang |-> "Rust", lets |-> <<Binding("a", e), Binding(n, BinOp("+", Name("a"), one))>>,
      ret |-> BinOp("*", Name("a"), Name("b")), semi |-> FALSE] : e \in {x, one, Name("a")}, n \in {"a", "b"}}

GrammarSources ==
    {Program1(lang, e) : lang \in {"Python", "Rust"}, e \in Depth2}
    \cup {[Program1(lang, e) EXCEPT !.semi = TRUE] : lang \in {"Python", "Rust"}, e \in Depth1}
    \cup LetPrograms

----------------------------------------------------------------------------
(* Programs for the builtins and the limits *)

UrlA == <<"a">>
Doc == <<"d", "o", "c">>
Path == <<"p">>
s2 == Text1(<<"a", "U+00E6">>)
xs == Name("xs")
half == Const(Float_(<<1, 2>>))
Arguments == {x, ConstInt(9), Unary("-", ConstInt(15)), half, Const(Bool_(TRUE)), s2, Text1(<<"7">>), xs, ListOf(<<half, one>>), Text1(UrlA)}

BuiltinCalls ==
    {Call(f, <<e>>) : f \in OneArgument \cup OneList \cup {"min", "max", "print", "fetch", "index"}, e \in Arguments}
    \cup {Call(f, <<e, one>>) : f \in {"index", "min", "max", "print", "sum"}, e \in Arguments}
    \cup {Call("before", <<xs, e, one>>) : e \in Arguments}
    \cup {Call(f, <<e, Text1(Path)>>) : f \in {"json_get", "fetch_json"}, e \in {Text1(UrlA), Text1(Doc), x}}
    \cup {Call("json_get", <<Call("fetch", <<Text1(UrlA)>>), Text1(Path)>>), Call("flash", <<>>), Call("eval", <<x>>),
          Call("led", <<Text1(<<" ", "R", "e", "d">>)>>), Call("led", <<Text1(Off)>>)}

\* Programs with several effects and several values built on the way.
Busy ==
    {BinOp("+", Call("show", <<s2>>), Call("show", <<e>>)) : e \in Arguments}
    \cup {If(Call("led", <<one>>), ListOf(<<Call("flash", <<>>), Call("show", <<e>>)>>), one) : e \in Arguments}
    \cup {Call("len", <<Call("str", <<ListOf(<<e, xs, BinOp("+", s2, e)>>)>>)>>) : e \in Arguments}
    \cup {Call("reverse", <<ListOf(<<e, e, one, e>>)>>) : e \in Arguments}
    \cup {BinOp(op, a, b) : op \in {"+", "/", "%"}, a, b \in Arguments}
    \cup {Cmp(<<op>>, <<a, b>>) : op \in {"<", ">="}, a, b \in Arguments}
    \cup {BinOp(op, Unary("-", ConstInt(15)), b) : op \in {"+", "-", "*"}, b \in {one, Unary("-", one), ConstInt(9)}}
    \cup {BinOp(op, BinOp("-", Unary("-", ConstInt(15)), one), Unary("-", one)) : op \in {"/", "%", "*"}}

BusySources == {Program1("Python", e) : e \in BuiltinCalls \cup Busy}

MCSources == GrammarSources \cup BusySources
AllCaps == {"net", "display", "actuator"}
Limit(st, by, d, caps) == [steps |-> st, bytes |-> by, deadline |-> d, caps |-> caps]
MCNever == 999

\* Generous limits, each limit tight, and a host without capabilities.
MCLimits == {Limit(40, 40, MCNever, AllCaps), Limit(3, 40, MCNever, {"net", "display"}),
             Limit(40, 6, MCNever, AllCaps), Limit(40, 40, 2, {"display"}), Limit(5, 40, 4, {})}

MCEnv == [n \in {"x", "xs"} |-> IF n = "x" THEN Int_(2) ELSE List_(<<Int_(1), Int_(2), Int_(1)>>)]
MCSites == [u \in {UrlA} |-> Doc]
MCJson == [k \in {<<Doc, Path>>} |-> Int_(4)]
============================================================================
