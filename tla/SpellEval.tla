----------------------------- MODULE SpellEval -----------------------------
(***************************************************************************)
(* The two tree-walk evaluators of crates/pyspell-core: eval.rs (blocking) *)
(* and eval_async.rs (cooperative).  They share the value helpers and the  *)
(* builtins (SpellValues) and each have their own recursion, step budget   *)
(* and deadline; only eval.rs has a memory budget and the LED.             *)
(*                                                                         *)
(* An expression of the IR is a node [k, op, v, a]: its kind, operator or  *)
(* name, constant or slot, and children.  Evaluating one in frame f yields *)
(* [v, f]: the value or error, and the frame after it.  The clock is the   *)
(* count of steps: the deadline has passed from step lim.deadline on.      *)
(***************************************************************************)
EXTENDS SpellValues

CONSTANTS
    Env,        \* the host's names: [name -> value]
    Sites,      \* the bodies of the reachable urls: [url -> text]
    Interval,   \* DEADLINE_CHECK_INTERVAL
    Never       \* no deadline

ASSUME EvalAssumption == Interval \in Nat \ {0} /\ Never \in Nat

Node(k, op, v, a) == [k |-> k, op |-> op, v |-> v, a |-> a]
Const(v) == Node("Const", "", v, <<>>)

\* struct Frame, with the steps taken and the effects so far
NewFrame(n, lim) ==
    [budget |-> lim.steps, mem |-> lim.bytes, since |-> 0, locals |-> [i \in 1 .. n |-> Int_(0)],
     lim |-> lim, steps |-> 0, fx |-> <<>>]

Result(v, f) == [v |-> v, f |-> f]
AndThen(r, K(_, _)) == IF IsErr(r.v) THEN r ELSE K(r.v, r.f)

\* the head of fn eval: the step budget and the periodic look at the clock
Tick(f) ==
    LET timed == f.lim.deadline # Never
        look == timed /\ f.since + 1 >= Interval
        g == [f EXCEPT !.budget = @ - 1, !.steps = @ + 1,
                       !.since = IF look THEN 0 ELSE IF timed THEN @ + 1 ELSE @]
    IN  CASE f.budget = 0 -> Result(Err("Budget"), f)
          [] look /\ g.steps >= f.lim.deadline -> Result(Err("Timeout"), g)
          [] OTHER -> Result(Bool_(TRUE), g)

\* A charge that forgets lists.
ChargeTextOnly(v, f) ==
    IF v[1] = "Str" /\ f.mem < ByteLen(v[2]) THEN Result(Err("MemoryLimit"), f) ELSE Result(v, f)

\* fn charge_value and fn charge
ChargeValue(v, f) ==
    LET bytes == CASE v[1] = "Str"  -> ByteLen(v[2])
                   [] v[1] = "List" -> Len(v[2]) * SizeOfValue
                   [] OTHER         -> 0
    IN  IF f.mem < bytes THEN Result(Err("MemoryLimit"), f)
        ELSE Result(v, [f EXCEPT !.mem = @ - bytes])

\* Builtin::Fetch and Builtin::FetchJson, the same in both evaluators but for
\* the await: the default fetch_extract probes the whole body once
FetchBuiltin(b, vals, caps) ==
    CASE Len(vals) \notin Arity(b) -> Err("Arity")
      [] \E i \in DOMAIN vals : vals[i][1] # "Str" -> TypeErr
      [] "net" \notin caps \/ vals[1][2] \notin DOMAIN Sites -> Err("Net")
      [] b = "fetch" -> Str_(Sites[vals[1][2]])
      [] <<Sites[vals[1][2]], vals[2][2]>> \in DOMAIN Json -> Json[<<Sites[vals[1][2]], vals[2][2]>>]
      [] OTHER -> Err("Net")

\* fn call_builtin, on evaluated arguments
CallBuiltin(b, vals, f) ==
    IF b \in {"fetch", "fetch_json"} THEN Result(FetchBuiltin(b, vals, f.lim.caps), f)
    ELSE LET r == ApplyBuiltin(b, vals, f.lim.caps)
         IN  Result(r[1], [f EXCEPT !.fx = @ \o r[2]])

EnvGet(name) == IF name \in DOMAIN Env THEN Env[name] ELSE Err("UnknownName")

RECURSIVE Eval(_, _), EvalList(_, _, _)

\* the operands of a node, from left to right
EvalList(es, f, vs) ==
    IF es = <<>> THEN Result(List_(vs), f)
    ELSE AndThen(Eval(Head(es), f), LAMBDA v, g : EvalList(Tail(es), g, Append(vs, v)))

\* fn eval
Eval(e, f) == AndThen(Tick(f), LAMBDA unused, g :
    CASE e.k = "Const" -> Result(e.v, g)
      [] e.k = "Local" -> Result(g.locals[e.v[1] + 1], g)
      [] e.k = "Var"   -> Result(EnvGet(e.op), g)
      [] e.k = "Bool"  ->
           AndThen(Eval(e.a[1], g), LAMBDA l, h :
             IF AsBool(l) = (e.op = "or") THEN Result(Bool_(AsBool(l)), h)
             ELSE AndThen(Eval(e.a[2], h), LAMBDA r, i : Result(Bool_(AsBool(r)), i)))
      [] e.k = "If"    -> AndThen(Eval(e.a[1], g), LAMBDA c, h : Eval(e.a[IF AsBool(c) THEN 2 ELSE 3], h))
      [] OTHER         -> AndThen(EvalList(e.a, g, <<>>), LAMBDA l, h :
           LET vs == l[2]
               Charged(r) == AndThen(r, ChargeValue)
           IN  CASE e.k = "Bin"   -> Charged(Result(NumBinop(e.op, vs[1], vs[2]), h))
                 [] e.k = "Cmp"   -> Result(Compare(e.op, vs[1], vs[2]), h)
                 [] e.k = "Unary" -> Result(IF e.op = "neg" THEN Negate(vs[1])
                                            ELSE Bool_(~AsBool(vs[1])), h)
                 [] e.k = "Index" -> Result(IndexValue(vs[1], vs[2]), h)
                 [] e.k = "Call"  -> Charged(CallBuiltin(e.op, vs, h))
                 [] e.k = "List"  -> Charged(Result(l, h))))

\* fn run_with: the bindings in order, then the result
RunWith(program, lim) ==
    LET bind(r, b) == AndThen(r, LAMBDA unused, f :
                        AndThen(Eval(b.expr, f), LAMBDA v, g :
                          Result(v, [g EXCEPT !.locals[b.slot + 1] = v])))
        start == Result(Int_(0), NewFrame(program.n_locals, lim))
    IN  AndThen(FoldLeft(bind, start, program.body), LAMBDA unused, f : Eval(program.ret, f))

----------------------------------------------------------------------------
(* eval_async.rs *)

\* As fn tick, without the reset of the count.
TickAsyncNoReset(f) ==
    LET g == [f EXCEPT !.budget = @ - 1, !.steps = @ + 1, !.since = @ + 1]
    IN  CASE f.budget = 0 -> Result(Err("Budget"), f)
          [] g.since >= Interval /\ g.steps >= f.lim.deadline -> Result(Err("Timeout"), g)
          [] OTHER -> Result(Bool_(TRUE), g)

\* fn tick
TickAsync(f) ==
    LET timed == f.lim.deadline # Never
        sc == f.since + 1
        g == [f EXCEPT !.budget = @ - 1, !.steps = @ + 1]
    IN  CASE f.budget = 0 -> Result(Err("Budget"), f)
          [] timed /\ sc >= Interval ->
               Result(IF g.steps >= f.lim.deadline THEN Err("Timeout") ELSE Bool_(TRUE),
                      [g EXCEPT !.since = 0])
          [] timed -> Result(Bool_(TRUE), [g EXCEPT !.since = sc])
          [] OTHER -> Result(Bool_(TRUE), g)

\* fn call_builtin_async, on evaluated arguments: no actuator
CallBuiltinAsync(b, vals, f) ==
    IF b \in {"fetch", "fetch_json"} THEN Result(FetchBuiltin(b, vals, f.lim.caps), f)
    ELSE LET r == ApplyBuiltin(b, vals, f.lim.caps \ {"actuator"})
         IN  Result(r[1], [f EXCEPT !.fx = @ \o r[2]])

RECURSIVE EvalAsync(_, _), EvalListAsync(_, _, _)

EvalListAsync(es, f, vs) ==
    IF es = <<>> THEN Result(List_(vs), f)
    ELSE AndThen(EvalAsync(Head(es), f), LAMBDA v, g : EvalListAsync(Tail(es), g, Append(vs, v)))

\* fn eval_async
EvalAsync(e, f) == AndThen(TickAsync(f), LAMBDA unused, g :
    CASE e.k = "Const" -> Result(e.v, g)
      [] e.k = "Local" -> Result(g.locals[e.v[1] + 1], g)
      [] e.k = "Var"   -> Result(EnvGet(e.op), g)
      [] e.k = "Bool"  ->
           AndThen(EvalAsync(e.a[1], g), LAMBDA l, h :
             IF AsBool(l) = (e.op = "or") THEN Result(Bool_(AsBool(l)), h)
             ELSE AndThen(EvalAsync(e.a[2], h), LAMBDA r, i : Result(Bool_(AsBool(r)), i)))
      [] e.k = "If"    ->
           AndThen(EvalAsync(e.a[1], g), LAMBDA c, h : EvalAsync(e.a[IF AsBool(c) THEN 2 ELSE 3], h))
      [] OTHER         -> AndThen(EvalListAsync(e.a, g, <<>>), LAMBDA l, h :
           LET vs == l[2]
           IN  CASE e.k = "Bin"   -> Result(NumBinop(e.op, vs[1], vs[2]), h)
                 [] e.k = "Cmp"   -> Result(Compare(e.op, vs[1], vs[2]), h)
                 [] e.k = "Unary" -> Result(IF e.op = "neg" THEN Negate(vs[1])
                                            ELSE Bool_(~AsBool(vs[1])), h)
                 [] e.k = "Index" -> Result(IndexValue(vs[1], vs[2]), h)
                 [] e.k = "Call"  -> CallBuiltinAsync(e.op, vs, h)
                 [] e.k = "List"  -> Result(l, h)))

\* fn run_async
RunAsync(program, lim) ==
    LET bind(r, b) == AndThen(r, LAMBDA unused, f :
                        AndThen(EvalAsync(b.expr, f), LAMBDA v, g :
                          Result(v, [g EXCEPT !.locals[b.slot + 1] = v])))
        start == Result(Int_(0), NewFrame(program.n_locals, lim))
    IN  AndThen(FoldLeft(bind, start, program.body), LAMBDA unused, f : EvalAsync(program.ret, f))
============================================================================
