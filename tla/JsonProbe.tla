----------------------------- MODULE JsonProbe -----------------------------
(***************************************************************************)
(* fetch_json(url, path): the path-directed JSON extractor                 *)
(* (crates/pyspell-core/src/json.rs) applied after every received block to *)
(* what has come so far (json_probe in eval.rs, fetch_extract in the       *)
(* device's net.rs).                                                       *)
(*                                                                         *)
(* A document is a sequence of bytes, each named by a string; "q" is the   *)
(* double quote and "bs" the backslash.  Positions count from 1 and 0      *)
(* stands for an error (a DslError).  An escape is a backslash and one     *)
(* more byte (\uXXXX is left out), and the number a token stands for is    *)
(* the token itself.                                                       *)
(***************************************************************************)
EXTENDS Naturals, Sequences

CONSTANTS
    Bodies,         \* the documents servers send, as trees
    Paths,          \* the paths programs ask for
    Blocks,         \* how many bytes a read may return
    MAX_BUFFER      \* the most bytes fetch_extract collects

ASSUME ProbeAssumption == Blocks \subseteq Nat \ {0} /\ MAX_BUFFER \in Nat

WhiteSpace == {"ws"}
Delimiters == {",", "}", "]"} \cup WhiteSpace
DigitBytes == {"0", "1", "2"}

\* usize::from_str of a path component
Index == [c \in DigitBytes |-> CASE c = "0" -> 0 [] c = "1" -> 1 [] c = "2" -> 2]

Nothing == [ok |-> FALSE]
Ok(v) == [ok |-> TRUE, val |-> v]

At(b, p) == IF p \in 1 .. Len(b) THEN b[p] ELSE "end"

\* The first position from p on whose byte is in S, or the end.
FirstIn(b, p, S) ==
    CHOOSE q \in p .. Len(b) + 1 :
      /\ q > Len(b) \/ b[q] \in S
      /\ \A r \in p .. q - 1 : b[r] \notin S

\* fn skip_ws
SkipWs(b, p) ==
    CHOOSE q \in p .. (IF p > Len(b) THEN p ELSE Len(b) + 1) :
      /\ At(b, q) \notin WhiteSpace
      /\ \A r \in p .. q - 1 : b[r] \in WhiteSpace

SkipStringNoEscape(b, p) ==
    IF FirstIn(b, p + 1, {"q"}) > Len(b) THEN 0 ELSE FirstIn(b, p + 1, {"q"}) + 1

\* fn skip_string_raw: past the closing quote
SkipStringRaw(b, p) ==
    LET f[q \in 1 .. Len(b) + 2] ==
          CASE q > Len(b)   -> 0
            [] At(b, q) = "bs" -> f[q + 2]
            [] At(b, q) = "q"  -> q + 1
            [] OTHER        -> f[q + 1]
    IN  f[p + 1]

\* fn parse_string: the text between the quotes, escapes resolved
ParseString(b, p) ==
    LET Escaped == {"q", "bs"}
        f[q \in 1 .. Len(b) + 2, out \in Seq(STRING)] ==
          CASE q > Len(b)      -> Nothing
            [] At(b, q) = "q"  -> Ok(out)
            [] At(b, q) = "bs" -> IF At(b, q + 1) \in Escaped
                                  THEN f[q + 2, Append(out, b[q + 1])] ELSE Nothing
            [] OTHER           -> f[q + 1, Append(out, b[q])]
    IN  f[p + 1, <<>>]

SkipContainerFlat(b, p) ==
    IF FirstIn(b, p, {"}", "]"}) > Len(b) THEN 0 ELSE FirstIn(b, p, {"}", "]"}) + 1

\* The end of the container that starts at p: brackets counted, strings skipped.
SkipContainer(b, p) ==
    LET f[q \in 0 .. Len(b) + 1, depth \in 0 .. Len(b)] ==
          CASE q = 0 \/ q > Len(b)    -> 0
            [] At(b, q) = "q"         -> f[SkipStringRaw(b, q), depth]
            [] At(b, q) \in {"{", "["} -> f[q + 1, depth + 1]
            [] At(b, q) \in {"}", "]"} -> IF depth = 1 THEN q + 1 ELSE f[q + 1, depth - 1]
            [] OTHER                  -> f[q + 1, depth]
    IN  f[p, 0]

\* fn skip_value
SkipValue(b, p) ==
    LET s == SkipWs(b, p)
    IN  CASE At(b, s) \in {"{", "["} -> SkipContainer(b, s)
          [] At(b, s) = "q"          -> SkipStringRaw(b, s)
          [] At(b, s) = "end"        -> 0
          [] OTHER                   -> FirstIn(b, s, Delimiters)

\* fn enter_object, one round of its loop per member
RECURSIVE EnterMember(_, _, _)
EnterMember(b, p, key) ==
    LET s     == SkipWs(b, p)
        k     == ParseString(b, s)
        colon == SkipWs(b, SkipStringRaw(b, s))
        value == SkipWs(b, colon + 1)
        after == SkipWs(b, SkipValue(b, value))
    IN  CASE At(b, s) # "q" \/ ~k.ok              -> 0
          [] At(b, colon) # ":"                   -> 0
          [] k.val = <<key>>                      -> value
          [] SkipValue(b, value) = 0              -> 0
          [] At(b, after) = ","                   -> EnterMember(b, after + 1, key)
          [] OTHER                                -> 0

\* fn enter_array, one round of its loop per element
RECURSIVE EnterElement(_, _, _)
EnterElement(b, p, i) ==
    LET s     == SkipWs(b, p)
        after == SkipWs(b, SkipValue(b, s))
    IN  CASE At(b, s) \in {"end", "]"}            -> 0
          [] i = 0                                -> s
          [] SkipValue(b, s) = 0                  -> 0
          [] At(b, after) = ","                   -> EnterElement(b, after + 1, i - 1)
          [] OTHER                                -> 0

\* fn enter
Enter(b, p, comp) ==
    CASE At(b, p) = "{" -> EnterMember(b, p + 1, comp)
      [] At(b, p) = "[" -> IF comp \in DigitBytes THEN EnterElement(b, p + 1, Index[comp]) ELSE 0
      [] OTHER          -> 0

\* str::parse::<i64>, str::parse::<f64>
IsInt(tok) == tok # <<>> /\ \A i \in DOMAIN tok : tok[i] \in DigitBytes

IsFloat(tok) ==
    /\ \E i \in DOMAIN tok : tok[i] \in DigitBytes
    /\ \E i \in DOMAIN tok : tok[i] = "."
    /\ \A i, j \in DOMAIN tok : tok[i] = "." /\ tok[j] = "." => i = j
    /\ \A i \in DOMAIN tok : tok[i] \in DigitBytes \cup {"."}

\* fn parse_scalar
ParseScalar(b, p) ==
    LET tok == SubSeq(b, p, FirstIn(b, p, Delimiters) - 1)
    IN  CASE At(b, p) = "q"                     ->
               IF ParseString(b, p).ok THEN Ok([t |-> "str", s |-> ParseString(b, p).val])
               ELSE Nothing
          [] At(b, p) = "t"                     -> Ok([t |-> "bool", s |-> <<"true">>])
          [] At(b, p) = "f"                     -> Ok([t |-> "bool", s |-> <<"false">>])
          [] At(b, p) \in {"end", "n", "{", "["} -> Nothing
          [] OTHER                              ->
               IF IsFloat(tok) THEN Ok([t |-> "float", s |-> tok])
               ELSE IF IsInt(tok) THEN Ok([t |-> "int", s |-> tok]) ELSE Nothing

\* fn get
RECURSIVE GetFrom(_, _, _)
GetFrom(b, p, path) ==
    CASE p = 0       -> Nothing
      [] path = <<>> -> ParseScalar(b, p)
      [] OTHER       -> LET e == Enter(b, p, Head(path))
                        IN  GetFrom(b, IF e = 0 THEN 0 ELSE SkipWs(b, e), Tail(path))

Get(b, path) == GetFrom(b, SkipWs(b, 1), path)

-----------------------------------------------------------------------------
(* What a document means: the tree it was written from.                     *)

RECURSIVE Meaning(_, _)
Meaning(tree, way) ==
    CASE way = <<>> /\ tree.t \in {"str", "bool", "int", "float"} -> Ok(tree)
      [] way # <<>> /\ tree.t = "obj" ->
           LET I == {i \in DOMAIN tree.members : tree.members[i].key = Head(way)}
           IN  IF I = {} THEN Nothing
               ELSE Meaning(tree.members[CHOOSE i \in I : \A j \in I : i <= j].val,
                            Tail(way))
      [] way # <<>> /\ tree.t = "arr" ->
           IF Head(way) \in DigitBytes /\ Index[Head(way)] < Len(tree.elems)
           THEN Meaning(tree.elems[Index[Head(way)] + 1], Tail(way)) ELSE Nothing
      [] OTHER -> Nothing

Quoted(s) ==
    LET f[i \in 0 .. Len(s)] ==
          IF i = 0 THEN <<"q">>
          ELSE f[i - 1] \o (IF s[i] \in {"q", "bs"} THEN <<"bs", s[i]>> ELSE <<s[i]>>)
    IN  Append(f[Len(s)], "q")

\* The text of a document, with white space after every comma and colon.
RECURSIVE Text(_)
Text(tree) ==
    LET Joined(item(_), n) ==
          LET f[i \in 0 .. n] ==
                IF i = 0 THEN <<>>
                ELSE f[i - 1] \o (IF i > 1 THEN <<",", "ws">> ELSE <<>>) \o item(i)
          IN  f[n]
        Element(i) == Text(tree.elems[i])
        Member(i)  == Quoted(<<tree.members[i].key>>) \o <<":", "ws">>
                        \o Text(tree.members[i].val)
    IN  CASE tree.t = "str"            -> Quoted(tree.s)
          [] tree.t \in {"int", "float"} -> tree.s
          [] tree.t = "bool"           -> IF tree.s = <<"true">> THEN <<"t", "r", "u", "e">>
                                          ELSE <<"f", "a", "l", "s", "e">>
          [] tree.t = "null"           -> <<"n", "u", "l", "l">>
          [] tree.t = "arr"            -> <<"[">> \o Joined(Element, Len(tree.elems)) \o <<"]">>
          [] tree.t = "obj"            -> <<"{">> \o Joined(Member, Len(tree.members)) \o <<"}">>

-----------------------------------------------------------------------------
(* fetch_json *)

VARIABLES
    doc,        \* the document the server sends
    path,       \* the path asked for
    acc,        \* fetch_extract: the bytes received
    result      \* what fetch_extract returns; "none" while it runs

probeVars == <<doc, path, acc, result>>

Running == [t |-> "running"]
Found(v) == [t |-> "found", val |-> v]
NotFound(why) == [t |-> "error", why |-> why]

ProbeInit ==
    /\ doc \in Bodies /\ path \in Paths
    /\ acc = <<>> /\ result = Running

\* fn json_probe
JsonProbe(b) == Get(b, path)

\* One call of fetch_extract's on_chunk.
Receive(n) ==
    LET body == Text(doc)
        got  == acc \o SubSeq(body, Len(acc) + 1,
                              IF Len(acc) + n < Len(body) THEN Len(acc) + n ELSE Len(body))
    IN  /\ result = Running
        /\ acc # body
        /\ acc' = got
        /\ result' = IF JsonProbe(got).ok THEN Found(JsonProbe(got).val)
                     ELSE IF Len(got) > MAX_BUFFER THEN NotFound("buffer cap")
                     ELSE Running
        /\ UNCHANGED <<doc, path>>

\* The stream ends: with the body, or at any time with an error of the read or a
\* connection closed early, which stream() takes for the end.
End ==
    /\ result = Running
    /\ result' = NotFound("not in response")
    /\ UNCHANGED <<doc, path, acc>>

ProbeNext == End \/ \E n \in Blocks : Receive(n)

ProbeSpec == ProbeInit /\ [][ProbeNext]_probeVars

-----------------------------------------------------------------------------
(* Properties *)

\* json::get against what the document means: on a whole document the
\* extractor finds the scalar at the path, and nothing where there is none.
GetIsMeaning == acc = <<>> => Get(Text(doc), path) = Meaning(doc, path)

IsNumber(v) == v.t \in {"int", "float"}

\* Where the document has a string or a word, that very value is returned, where
\* it has a number, the beginning of that number (parse_scalar takes the end of
\* a block for the end of a number, see ScalarIsWhole), and where it has nothing,
\* nothing, whatever the blocks are cut into.
FoundIsPrefix ==
    result.t = "found" =>
      LET there == Meaning(doc, path)
      IN  /\ there.ok
          /\ \/ result.val = there.val
             \/ /\ IsNumber(result.val) /\ IsNumber(there.val)
                /\ result.val.s = SubSeq(there.val.s, 1, Len(result.val.s))

\* An answer that nothing is at the path is right too, if the whole document
\* was received.  (A stream that breaks off gets the same answer.)
NotFoundIsRight ==
    result = NotFound("not in response") /\ acc = Text(doc) => ~Meaning(doc, path).ok

\* Whatever fetch_extract answers, at whatever block boundary, is about the value
\* at the path and no other: brackets, quotes and keys cut by a block never make
\* it find something else, or miss what has all arrived.
FetchFinds == FoundIsPrefix /\ NotFoundIsRight

\* fetch_json is to "extract just the scalar at the JSON path" (ir.rs): what is
\* found is what the document has there, whole.
ScalarIsWhole == result.t = "found" => Ok(result.val) = Meaning(doc, path)
=============================================================================
