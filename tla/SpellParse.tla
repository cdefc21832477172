---------------------------- MODULE SpellParse -----------------------------
(***************************************************************************)
(* Source to IR, twice: the recursive-descent parser that runs on the      *)
(* device (crates/pyspell-core/src/parse.rs) and the host's front ends     *)
(* (crates/pyspell-lang/src), which lower the syntax trees of              *)
(* rustpython-parser and syn.                                              *)
(*                                                                         *)
(* A token is <<"int", n>>, <<"ident", name>>, ..., or P(s) for a keyword  *)
(* or an operator: a program is given as the tokens its text has, so what  *)
(* the lexer makes of the characters is left out.  A syntax tree is a node *)
(* [k, op, v, a] as the IR's are.                                          *)
(***************************************************************************)
EXTENDS SpellEval

P(s) == <<"p", s>>

\* fn builtin_from of parse.rs; `contains` is reached through `in` and .contains() only
BuiltinNames ==
    {"len", "abs", "min", "max", "sum", "any", "all", "round", "int", "float", "bool", "index",
     "before", "first", "last", "str", "json_get", "fetch", "fetch_json", "show", "print", "led",
     "flash", "upper", "lower", "reverse"}

Bad == Node("Bad", "", <<>>, <<>>)

ContainsCall(list, x) == Node("Call", "contains", <<>>, <<list, x>>)
Not(e) == Node("Unary", "not", <<>>, <<e>>)

LeftFold(op, es) == FoldLeft(LAMBDA acc, e : Node("Bool", op, <<>>, <<acc, e>>), Head(es), Tail(es))

\* fn resolve: the slot of the latest binding of a name, else a name of the host
Resolve(name, locals) ==
    LET slots == {i \in DOMAIN locals : locals[i] = name}
    IN  IF slots = {} THEN Node("Var", name, <<>>, <<>>)
        ELSE Node("Local", "", <<Max(slots) - 1>>, <<>>)

----------------------------------------------------------------------------
(* parse.rs.  The parser's state: tokens t, position i, language, names    *)
(* bound so far, the expression just parsed, and whether all is well.      *)

Peek(s) == IF s.i <= Len(s.t) THEN s.t[s.i] ELSE <<"end", "">>
Sees(s, words) == s.ok /\ Peek(s)[1] = "p" /\ Peek(s)[2] \in words
Advance(s) == [s EXCEPT !.i = @ + 1]
Fail(s) == [s EXCEPT !.ok = FALSE]
Yield(s, e) == [s EXCEPT !.e = e]
\* fn expect
Expect(s, word) == IF Sees(s, {word}) THEN Advance(s) ELSE Fail(s)

\* The rules call each other through Rule, below.
RECURSIVE Rule(_, _), OrRest(_), AndRest(_), CmpRest(_, _, _), AddRest(_), MulRest(_),
          PostfixRest(_), Items(_, _, _), Lets(_)

\* fn conditional
Conditional(s) ==
    LET e == Rule("or", s)
        test == Rule("or", Advance(e))
        orelse == Rule("conditional", Expect(test, "else"))
    IN  IF s.lang = "Python" /\ Sees(e, {"if"})
        THEN Yield(orelse, Node("If", "", <<>>, <<test.e, e.e, orelse.e>>)) ELSE e

\* fn or_expr, fn and_expr
OrRest(s) ==
    LET r == Rule("and", Advance(s))
    IN  IF Sees(s, {"or", "||"}) THEN OrRest(Yield(r, Node("Bool", "or", <<>>, <<s.e, r.e>>))) ELSE s
OrExpr(s) == OrRest(Rule("and", s))
AndRest(s) ==
    LET r == Rule("not", Advance(s))
    IN  IF Sees(s, {"and", "&&"}) THEN AndRest(Yield(r, Node("Bool", "and", <<>>, <<s.e, r.e>>))) ELSE s
AndExpr(s) == AndRest(Rule("not", s))

NotTight(s) ==
    IF Sees(s, {"not", "!"})
    THEN LET r == Rule("unary", Advance(s)) IN Yield(r, Not(r.e))
    ELSE Rule("cmp", s)

\* fn not_expr: `!` binds as loosely as `not`
NotExpr(s) ==
    IF Sees(s, {"not", "!"})
    THEN LET r == Rule("not", Advance(s)) IN Yield(r, Not(r.e))
    ELSE Rule("cmp", s)

\* the end of fn cmp_expr: a chain is the conjunction of its pairs
ChainFromFirst(ops, es) ==
    LeftFold("and", [i \in DOMAIN ops |-> Node("Cmp", ops[i], <<>>, <<es[1], es[i + 1]>>)])
Chain(ops, es) ==
    LeftFold("and", [i \in DOMAIN ops |->
      CASE ops[i] = "in"     -> ContainsCall(es[i + 1], es[i])
        [] ops[i] = "not in" -> Not(ContainsCall(es[i + 1], es[i]))
        [] OTHER             -> Node("Cmp", ops[i], <<>>, <<es[i], es[i + 1]>>)])

\* fn cmp_expr
CmpRest(s, ops, es) ==
    LET notIn == Sees(s, {"not"}) /\ Sees(Advance(s), {"in"})
        op == IF notIn THEN "not in" ELSE Peek(s)[2]
        r == Rule("add", Advance(IF notIn THEN Advance(s) ELSE s))
    IN  IF notIn \/ Sees(s, {"==", "!=", "<", "<=", ">", ">=", "in"})
        THEN CmpRest(r, Append(ops, op), Append(es, r.e))
        ELSE IF s.ok /\ ops # <<>> THEN Yield(s, Chain(ops, es)) ELSE s
CmpExpr(s) == LET first == Rule("add", s) IN CmpRest(first, <<>>, <<first.e>>)

\* fn add_expr, fn mul_expr
AddRest(s) ==
    LET r == Rule("mul", Advance(s))
    IN  IF Sees(s, {"+", "-"}) THEN AddRest(Yield(r, Node("Bin", Peek(s)[2], <<>>, <<s.e, r.e>>))) ELSE s
AddExpr(s) == AddRest(Rule("mul", s))
MulRest(s) ==
    LET r == Rule("unary", Advance(s))
    IN  IF Sees(s, {"*", "/", "%"}) THEN MulRest(Yield(r, Node("Bin", Peek(s)[2], <<>>, <<s.e, r.e>>))) ELSE s
MulExpr(s) == MulRest(Rule("unary", s))

\* fn unary
UnaryExpr(s) ==
    IF Sees(s, {"-"})
    THEN LET r == Rule("unary", Advance(s)) IN Yield(r, Node("Unary", "neg", <<>>, <<r.e>>))
    ELSE Rule("postfix", s)

\* fn postfix
PostfixRest(s) ==
    LET idx == Rule("conditional", Advance(s))
        call == IF Peek(Advance(s)) = <<"ident", "contains">>
                THEN Rule("conditional", Expect(Advance(Advance(s)), "(")) ELSE Fail(s)
    IN  CASE Sees(s, {"["}) ->
               PostfixRest(Yield(Expect(idx, "]"), Node("Index", "", <<>>, <<s.e, idx.e>>)))
          [] Sees(s, {"."}) -> PostfixRest(Yield(Expect(call, ")"), ContainsCall(s.e, call.e)))
          [] OTHER -> s
Postfix(s) == PostfixRest(Rule("primary", s))

\* the items of a list or the arguments of a call; a list may end in a comma
Items(s, close, es) ==
    IF ~s.ok \/ (Sees(s, {close}) /\ (es = <<>> \/ close = "]")) THEN Yield(Expect(s, close), es)
    ELSE LET r == Rule("conditional", s)
         IN  IF Sees(r, {","}) THEN Items(Advance(r), close, Append(es, r.e))
             ELSE Yield(Expect(r, close), Append(es, r.e))

\* fn primary
Primary(s) ==
    LET tok == Peek(s)
        n == Advance(s)
        inner == Rule("conditional", n)
        list == Items(n, "]", <<>>)
        args == Items(Advance(n), ")", <<>>)
    IN
    CASE ~s.ok -> s
      [] tok[1] \in {"Int", "Float", "Bool", "Str"} -> Yield(n, Const(tok))
      [] tok = P("(") -> Expect(inner, ")")
      [] tok = P("[") -> Yield(list, Node("List", "", <<>>, list.e))
      [] tok = P("if") /\ s.lang = "Rust" -> Rule("if", n)
      [] tok[1] = "ident" /\ Sees(n, {"("}) ->
           IF tok[2] \in BuiltinNames THEN Yield(args, Node("Call", tok[2], <<>>, args.e)) ELSE Fail(args)
      [] tok[1] = "ident" -> Yield(n, Resolve(tok[2], s.locals))
      [] OTHER -> Fail(s)

\* fn rust_if
RustIf(s) ==
    LET cond == Rule("or", s)
        then == Rule("conditional", Expect(cond, "{"))
        mid == Expect(Expect(then, "}"), "else")
        els == IF Sees(mid, {"if"}) THEN Rule("if", Advance(mid))
               ELSE Expect(Rule("conditional", Expect(mid, "{")), "}")
    IN  Yield(els, Node("If", "", <<>>, <<cond.e, then.e, els.e>>))

\* the rule of that name, at s
Rule(name, s) ==
    CASE name = "conditional" -> Conditional(s)
      [] name = "or"      -> OrExpr(s)
      [] name = "and"     -> AndExpr(s)
      [] name = "not"     -> NotExpr(s)
      [] name = "cmp"     -> CmpExpr(s)
      [] name = "add"     -> AddExpr(s)
      [] name = "mul"     -> MulExpr(s)
      [] name = "unary"   -> UnaryExpr(s)
      [] name = "postfix" -> Postfix(s)
      [] name = "primary" -> Primary(s)
      [] name = "if"      -> RustIf(s)

\* the `let`s of fn program: a name is bound after its expression is parsed
Lets(s) ==
    LET name == Peek(Advance(s))
        e == Rule("conditional", Expect(Advance(Advance(s)), "="))
        bound == [Expect(e, ";") EXCEPT !.locals = Append(@, name[2]),
                                        !.body = Append(@, [slot |-> Len(s.locals), expr |-> e.e])]
    IN  IF s.lang = "Rust" /\ Sees(s, {"let"})
        THEN IF name[1] = "ident" THEN Lets(bound) ELSE Fail(s)
        ELSE s

Rejected == [ok |-> FALSE]

\* the numbers in fn lex: a literal beyond the integers is an error
Lexes(tokens) == \A i \in DOMAIN tokens : tokens[i][1] = "Int" => tokens[i][2] < -IntMin

\* fn parse and fn program: a trailing `;` is tolerated
Parse(tokens, lang) ==
    LET start == [t |-> tokens, i |-> 1, lang |-> lang, locals |-> <<>>, body |-> <<>>, e |-> Bad, ok |-> TRUE]
        r == Rule("conditional", Lets(start))
        done == IF Sees(r, {";"}) THEN Advance(r) ELSE r
    IN  IF Lexes(tokens) /\ done.ok /\ done.i = Len(tokens) + 1
        THEN [ok |-> TRUE, body |-> done.body, ret |-> done.e, n_locals |-> Len(done.locals)]
        ELSE Rejected

----------------------------------------------------------------------------
(* py_frontend.rs and rust_frontend.rs: fn lower on the syntax tree.  A    *)
(* BoolOp has two or more values, a Compare one or more operators.         *)

\* fn builtin_from of lower.rs
LowerNames ==
    {"len", "abs", "min", "max", "sum", "any", "all", "round", "int", "float", "bool", "index",
     "before", "first", "last", "str", "json_get", "fetch", "fetch_json", "show", "print", "led",
     "flash", "upper", "lower", "reverse"}

\* fn resolve_name: the map holds the slot of the latest binding
ResolveName(name, locals) ==
    IF \E i \in DOMAIN locals : locals[i] = name
    THEN Node("Local", "", <<SelectLastInSeq(locals, LAMBDA n : n = name) - 1>>, <<>>)
    ELSE Node("Var", name, <<>>, <<>>)

\* fn lower_const, fn lower_lit
LowerConst(v) == IF v[1] = "Int" /\ v[2] >= -IntMin THEN Bad ELSE Const(v)

\* fn one_cmp
OneCmp(op, lhs, rhs) ==
    CASE op \in {"in", "not in"} ->
           LET c == ContainsCall(rhs, lhs) IN IF op = "in" THEN c ELSE Not(c)
      [] op = "is" -> Bad
      [] OTHER     -> Node("Cmp", op, <<>>, <<lhs, rhs>>)

\* fn lower_compare, on lowered operands
LowerCompare(ops, es) ==
    LET terms == [i \in DOMAIN ops |-> OneCmp(ops[i], es[i], es[i + 1])]
    IN  IF Bad \in ToSet(terms) THEN Bad ELSE LeftFold("and", terms)

RECURSIVE LowerPy(_, _), LowerRust(_, _)

LowerPy(e, locals) ==
    LET a == [i \in DOMAIN e.a |-> LowerPy(e.a[i], locals)]
        bad == \E i \in DOMAIN a : a[i].k = "Bad"
    IN
    CASE bad -> Bad
      [] e.k = "Const"     -> LowerConst(e.v)
      [] e.k = "Name"      -> ResolveName(e.op, locals)
      [] e.k = "BinOp"     -> Node("Bin", e.op, <<>>, a)
      [] e.k = "UnaryOp"   -> (CASE e.op = "not" -> Not(a[1])
                                [] e.op = "-"   -> Node("Unary", "neg", <<>>, a)
                                [] e.op = "+"   -> a[1]
                                [] OTHER        -> Bad)
      [] e.k = "BoolOp"    -> LeftFold(e.op, a)
      [] e.k = "Compare"   -> LowerCompare(e.v, a)
      [] e.k = "IfExp"     -> Node("If", "", <<>>, a)
      [] e.k = "Subscript" -> Node("Index", "", <<>>, a)
      [] e.k = "List"      -> Node("List", "", <<>>, a)
      [] e.k = "Call" /\ e.op \in LowerNames -> Node("Call", e.op, <<>>, a)
      [] OTHER -> Bad

LowerRust(e, locals) ==
    LET a == [i \in DOMAIN e.a |-> LowerRust(e.a[i], locals)]
        bad == \E i \in DOMAIN a : a[i].k = "Bad"
    IN
    CASE bad -> Bad
      [] e.k = "Const"     -> LowerConst(e.v)
      [] e.k = "UnaryOp"   -> (CASE e.op = "not" -> Not(a[1])
                                [] e.op = "-"   -> Node("Unary", "neg", <<>>, a)
                                [] OTHER        -> Bad)
      [] e.k = "BinOp"     -> Node("Bin", e.op, <<>>, a)
      [] e.k = "BoolOp"    -> LeftFold(e.op, a)
      [] e.k = "Compare"   -> Node("Cmp", e.v[1], <<>>, a)
      [] e.k = "Name"      -> ResolveName(e.op, locals)
      [] e.k = "Subscript" -> Node("Index", "", <<>>, a)
      [] e.k = "List"      -> Node("List", "", <<>>, a)
      [] e.k = "IfExp"     -> Node("If", "", <<>>, a)
      [] e.k = "Call" /\ e.op \in LowerNames -> Node("Call", e.op, <<>>, a)
      [] e.k = "Method" /\ e.op = "contains" /\ Len(a) = 2 -> ContainsCall(a[1], a[2])
      [] OTHER -> Bad

\* fn compile_python; fn compile_rust with its bindings
CompilePython(src) ==
    LET ret == LowerPy(src.ret, <<>>)
    IN  IF ret.k = "Bad" THEN Rejected ELSE [ok |-> TRUE, body |-> <<>>, ret |-> ret, n_locals |-> 0]

CompileRust(src) ==
    LET n == Len(src.lets)
        names(k) == [i \in 1 .. k |-> src.lets[i].name]
        body == [i \in 1 .. n |-> [slot |-> i - 1, expr |-> LowerRust(src.lets[i].e, names(i - 1))]]
        ret == LowerRust(src.ret, names(n))
    IN  IF ret.k = "Bad" \/ \E i \in 1 .. n : body[i].expr.k = "Bad" THEN Rejected
        ELSE [ok |-> TRUE, body |-> body, ret |-> ret, n_locals |-> n]
============================================================================
