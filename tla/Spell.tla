------------------------------- MODULE Spell -------------------------------
(***************************************************************************)
(* A program from its source to its result.  The source is compiled on the *)
(* host (and shipped as IR) or parsed on the device, and the IR runs in    *)
(* the blocking or in the cooperative evaluator, under limits.             *)
(***************************************************************************)
EXTENDS SpellParse

CONSTANTS
    Sources,    \* [lang, lets, ret, semi]: programs as syntax trees; ends the text in `;'?
    AllLimits   \* [steps, bytes, deadline, caps]: limits a request may come with

VARIABLES
    src,        \* the program
    lim,        \* its limits
    shipped,    \* what the host's front end makes of it
    device,     \* what the device's parser makes of it
    sync,       \* its outcome in eval.rs
    async       \* its outcome in eval_async.rs

spellVars == <<src, lim, shipped, device, sync, async>>

None == <<>>

----------------------------------------------------------------------------
(* The text of a syntax tree, as tokens: parentheses only where the        *)
(* grammar of Python or of Rust asks for them.                             *)

Prec(e, lang) ==
    CASE e.k = "IfExp"   -> 0
      [] e.k = "BoolOp"  -> IF e.op = "or" THEN 1 ELSE 2
      [] e.k = "UnaryOp" -> IF e.op = "not" /\ lang = "Python" THEN 3 ELSE 7
      [] e.k = "Compare" -> 4
      [] e.k = "BinOp"   -> IF e.op \in {"+", "-"} THEN 5 ELSE 6
      [] e.k \in {"Subscript", "Method"} -> 8
      [] OTHER           -> 9

Separated(texts, sep) ==
    FlattenSeq([i \in DOMAIN texts |-> (IF i > 1 THEN <<sep>> ELSE <<>>) \o texts[i]])

RECURSIVE TextOf(_, _, _), BareText(_, _)

\* e where the grammar takes an expression of precedence min or more
TextOf(e, lang, min) ==
    IF Prec(e, lang) < min THEN <<P("(")>> \o BareText(e, lang) \o <<P(")")>> ELSE BareText(e, lang)

\* An operator that is spelled as in the other language.
Foreign == <<"foreign">>
OtherLang(lang) == IF lang = "Python" THEN "Rust" ELSE "Python"
Spelling(op, lang) ==
    IF lang = "Python" THEN op
    ELSE CASE op = "and" -> "&&" [] op = "or" -> "||" [] op = "not" -> "!" [] OTHER -> op

\* A list or call whose last item is followed by a comma.
TrailingComma == <<",">>

BareText(e, lang) ==
    LET p == Prec(e, lang)
        t(i, min) == TextOf(e.a[i], lang, min)
        all(min) == [i \in DOMAIN e.a |-> t(i, min)]
        word == P(Spelling(e.op, IF e.v = Foreign THEN OtherLang(lang) ELSE lang))
        items == Separated(all(0), P(",")) \o (IF e.v = TrailingComma THEN <<P(",")>> ELSE <<>>)
        cmp(op) == IF op = "not in" THEN <<P("not"), P("in")>> ELSE <<P(op)>>
    IN
    CASE e.k = "Const"     -> <<e.v>>
      [] e.k = "Name"      -> <<<<"ident", e.op>>>>
      [] e.k = "BinOp"     -> t(1, p) \o <<word>> \o t(2, p + 1)
      [] e.k = "UnaryOp"   -> <<word>> \o t(1, p)
      [] e.k = "BoolOp"    -> Separated(all(p + 1), word)
      [] e.k = "Compare"   -> t(1, 5) \o FlattenSeq([i \in DOMAIN e.v |-> cmp(e.v[i]) \o t(i + 1, 5)])
      [] e.k = "IfExp" /\ lang = "Python" -> t(2, 1) \o <<P("if")>> \o t(1, 1) \o <<P("else")>> \o t(3, 0)
      [] e.k = "IfExp"     -> <<P("if")>> \o t(1, 1) \o <<P("{")>> \o t(2, 0) \o <<P("}"), P("else")>>
                                \o (IF e.a[3].k = "IfExp" THEN t(3, 0) ELSE <<P("{")>> \o t(3, 0) \o <<P("}")>>)
      [] e.k = "Subscript" -> t(1, 8) \o <<P("[")>> \o t(2, 0) \o <<P("]")>>
      [] e.k = "List"      -> <<P("[")>> \o items \o <<P("]")>>
      [] e.k = "Call"      -> <<<<"ident", e.op>>, P("(")>> \o items \o <<P(")")>>
      [] e.k = "Method"    -> t(1, 8) \o <<P("."), <<"ident", e.op>>, P("(")>> \o t(2, 0) \o <<P(")")>>
      [] OTHER             -> <<P("lambda")>>

TokensOf(s) ==
    FlattenSeq([i \in DOMAIN s.lets |->
        <<P("let"), <<"ident", s.lets[i].name>>, P("=")>> \o TextOf(s.lets[i].e, s.lang, 0) \o <<P(";")>>])
    \o TextOf(s.ret, s.lang, 0) \o (IF s.semi THEN <<P(";")>> ELSE <<>>)

RECURSIVE NodesOf(_)
NodesOf(e) == {e} \cup UNION {NodesOf(e.a[i]) : i \in DOMAIN e.a}
SourceNodes == NodesOf(src.ret) \cup UNION {NodesOf(src.lets[i].e) : i \in DOMAIN src.lets}

\* What belongs to the other language: its operators, Python's `in', `is' and
\* chained comparisons.
OfOtherLanguage(e, lang) ==
    \/ e.v = Foreign
    \/ e.k = "Compare" /\ lang = "Rust" /\ (Len(e.v) > 1 \/ e.v[1] \in {"in", "not in", "is"})

\* Does the grammar of the language have the source?  (rustpython-parser and syn;
\* compile_rust refuses a text that ends in `;' itself.)
Grammatical == ~src.semi /\ \A e \in SourceNodes : ~OfOtherLanguage(e, src.lang)

----------------------------------------------------------------------------
(* The steps *)

SpellInit ==
    /\ src \in Sources /\ lim \in AllLimits
    /\ shipped = None /\ device = None /\ sync = None /\ async = None

CompileOnHost ==
    /\ shipped = None
    /\ shipped' = IF ~Grammatical THEN Rejected
                  ELSE IF src.lang = "Python" THEN CompilePython(src) ELSE CompileRust(src)
    /\ UNCHANGED <<src, lim, device, sync, async>>

ParseOnDevice ==
    /\ device = None
    /\ device' = Parse(TokensOf(src), src.lang)
    /\ UNCHANGED <<src, lim, shipped, sync, async>>

\* What runs: the program the host ships, or, when the host refuses it, the device's own.
Program == IF shipped.ok THEN shipped ELSE device

Runnable == shipped # None /\ device # None /\ Program.ok

RunBlocking ==
    /\ Runnable /\ sync = None
    /\ sync' = RunWith(Program, lim)
    /\ UNCHANGED <<src, lim, shipped, device, async>>

RunCooperative ==
    /\ Runnable /\ async = None
    /\ async' = RunAsync(Program, lim)
    /\ UNCHANGED <<src, lim, shipped, device, sync>>

SpellNext == CompileOnHost \/ ParseOnDevice \/ RunBlocking \/ RunCooperative

SpellSpec == SpellInit /\ [][SpellNext]_spellVars

----------------------------------------------------------------------------
(* Properties *)

\* Where the device's parser and the host part ways: a `!' that is an operand of an
\* operator binds as loosely as Python's `not', or is refused; a unary plus and a call
\* with a trailing comma are refused; .contains in Python, what only the other
\* language has, and a `;' at the end are accepted although the host refuses them.
DialectGap ==
    \/ src.semi
    \/ \E e \in SourceNodes :
         \/ /\ src.lang = "Rust"
            /\ e.k \in {"Compare", "BinOp"} \/ (e.k = "UnaryOp" /\ e.op = "-")
            /\ \E i \in DOMAIN e.a : e.a[i].k = "UnaryOp" /\ e.a[i].op = "not"
         \/ e.k = "UnaryOp" /\ e.op = "+" /\ src.lang = "Python"
         \/ e.k = "Call" /\ e.v = TrailingComma
         \/ e.k = "Method" /\ src.lang = "Python"
         \/ OfOtherLanguage(e, src.lang)

Compiled == shipped # None /\ device # None

\* parse.rs, on itself: "It accepts the same whitelisted subset both front-ends do, in
\* either Python or Rust surface syntax".
FrontEndsAgree == Compiled => shipped = device

\* The gaps are the only ones: whatever operators are nested in whatever way, the parser
\* on the device and the front end on the host accept the same programs and make the same
\* IR of them where there is no gap, and nowhere else.
OnlyGapsDiffer ==
    Compiled /\ (shipped.ok \/ device.ok) => (shipped = device <=> ~DialectGap)

\* The cooperative evaluator computes what the blocking one does, with the same effects
\* in the same number of steps, unless the program meets what only eval.rs has: a memory
\* limit or the LED (eval_async.rs: "Identical language semantics").
EvaluatorsAgree ==
    sync # None /\ async # None /\ sync.v # Err("MemoryLimit") /\ "actuator" \notin lim.caps =>
      async.v = sync.v /\ async.f.fx = sync.f.fx /\ async.f.steps = sync.f.steps

Unlimited == [lim EXCEPT !.steps = 1000, !.bytes = 1000, !.deadline = Never]
LimitErrors == {Err("Budget"), Err("MemoryLimit"), Err("Timeout")}
CutShort(o, free) ==
    IF o.v \in LimitErrors THEN IsPrefix(o.f.fx, free.f.fx)
    ELSE o.v = free.v /\ o.f.fx = free.f.fx

\* Limits cut a run short and do nothing else: under them a program either returns what
\* it returns without them, with the same effects, or stops with the error of a limit,
\* having shown and lit no more than a beginning of it.
LimitsOnlyCut == sync # None => CutShort(sync, RunWith(Program, Unlimited))

\* A run goes on for less than one check interval after its deadline, and never takes
\* more steps than its budget, in either evaluator.
RunsEnd ==
    \A o \in {sync, async} \ {None} :
      /\ o.f.steps <= lim.steps
      /\ lim.deadline # Never => o.f.steps < lim.deadline + Interval

\* A string or list that a run returns fits the memory limit of the request, unless it is
\* a constant of the program or a value of the host (charge_value charges every value the
\* program builds).
Given(v) == v \in {e.v : e \in {x \in SourceNodes : x.k = "Const"}} \cup {Env[x] : x \in DOMAIN Env}
ResultFits ==
    sync # None /\ sync.v[1] \in {"Str", "List"} /\ ~Given(sync.v) =>
      lim.bytes >= IF sync.v[1] = "Str" THEN ByteLen(sync.v[2]) ELSE Len(sync.v[2]) * SizeOfValue

\* What limits do to a run: no more than to end it, in time and within its memory.
LimitsHold == LimitsOnlyCut /\ RunsEnd /\ ResultFits

----------------------------------------------------------------------------
(* The meaning of an arithmetic program: the integer or truth value of its *)
(* source, None where it has none (a division by zero, a value out of the  *)
(* integers' range, IntMin / -1 and IntMin % -1, which panic, a comparison *)
(* of integers that a float does not hold).                                *)

InRange(n) == IF n \in IntMin .. -IntMin - 1 THEN Int_(n) ELSE None
Truth(v) == v = Bool_(TRUE) \/ (v # None /\ v[1] = "Int" /\ v[2] # 0)
Exact(v) == v # None /\ v[1] = "Int" /\ Magnitude(v[2]) <= 2 ^ Mantissa

Holds(op, x, y) ==
    CASE op = "==" -> x = y [] op = "!=" -> x # y [] op = "<" -> x < y
      [] op = "<=" -> x <= y [] op = ">" -> x > y [] op = ">=" -> x >= y

RECURSIVE ValueOf(_), AllTrue(_)

\* the conjunction of meanings, evaluated from the left
AllTrue(ms) ==
    CASE ms = <<>> -> Bool_(TRUE)
      [] Head(ms) = None -> None
      [] Truth(Head(ms)) -> AllTrue(Tail(ms))
      [] OTHER -> Bool_(FALSE)

ValueOf(e) ==
    LET m == [i \in DOMAIN e.a |-> ValueOf(e.a[i])]
        x == m[1][2]
        y == m[2][2]
        negated(v) == IF v = None THEN None ELSE Bool_(~Truth(v))
        pair(i) == IF e.v[i] \in {"in", "not in"} \/ ~Exact(m[i]) \/ ~Exact(m[i + 1]) THEN None
                   ELSE Bool_(Holds(e.v[i], m[i][2], m[i + 1][2]))
    IN
    CASE e.k = "Const" /\ e.v[1] \in {"Int", "Bool"} -> e.v
      [] e.k = "Name" /\ e.op \in DOMAIN Env /\ Env[e.op][1] = "Int" -> Env[e.op]
      [] e.k = "BinOp" ->
           IF m[1] = None \/ m[2] = None THEN None
           ELSE IF m[1][1] # "Int" \/ m[2][1] # "Int" THEN None
           ELSE (CASE e.op = "+" -> InRange(x + y)
                  [] e.op = "-" -> InRange(x - y)
                  [] e.op = "*" -> InRange(x * y)
                  [] y = 0 \/ (y = -1 /\ InRange(-x) = None) -> None
                  [] e.op = "/" -> InRange(CHOOSE q \in -Magnitude(x) .. Magnitude(x) :
                                     Magnitude(x - y * q) < Magnitude(y) /\ (x - y * q) * x >= 0)
                  [] e.op = "%" -> Int_(CHOOSE r \in -Magnitude(y) .. Magnitude(y) :
                                     Magnitude(r) < Magnitude(y) /\ r * x >= 0 /\ (x - r) % Magnitude(y) = 0
                                     /\ Magnitude(r) <= Magnitude(x)))
      [] e.k = "UnaryOp" /\ e.op = "not" -> negated(m[1])
      [] e.k = "UnaryOp" /\ e.op = "-" /\ m[1] # None ->
           IF m[1][1] = "Int" THEN InRange(-x) ELSE None
      [] e.k = "BoolOp" /\ e.op = "and" -> AllTrue(m)
      [] e.k = "BoolOp" -> negated(AllTrue([i \in DOMAIN m |-> negated(m[i])]))
      [] e.k = "Compare" -> AllTrue([i \in DOMAIN e.v |-> pair(i)])
      [] e.k = "IfExp" -> IF m[1] = None THEN None ELSE IF Truth(m[1]) THEN m[2] ELSE m[3]
      [] OTHER -> None

\* An arithmetic program returns the value of its source: precedence, chains of
\* comparisons, short circuits and the truncating division survive parsing, lowering and
\* evaluation, and nothing wraps or rounds while every value fits.
ReturnsMeaning ==
    /\ sync # None /\ sync.v \notin LimitErrors /\ src.lets = <<>> /\ ~DialectGap
    /\ ValueOf(src.ret) # None
    => sync.v = ValueOf(src.ret)
============================================================================
