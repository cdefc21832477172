---------------------------- MODULE SpellValues ----------------------------
(***************************************************************************)
(* Values of the language and the builtins (crates/pyspell-core/src/       *)
(* eval.rs, value.rs).  A value is <<tag, content>>; an error is the value *)
(* <<"Err", kind>>.                                                        *)
(*                                                                         *)
(* Integers are two's complement of Width bits (64 in the code), with the  *)
(* overflow behaviour of the release build.  A float is a ratio <<n, d>>   *)
(* with the infinities <<1, 0>>, <<-1, 0>> and NaN <<0, 0>>: its           *)
(* arithmetic is exact, and what is kept of its finite precision is the    *)
(* rounding of an integer of more than Mantissa bits (53 in the code); the *)
(* sign of zero is not kept.  A string is a sequence of characters.        *)
(***************************************************************************)
EXTENDS Integers, SequencesExt

CONSTANTS
    Width,          \* bits of an integer
    Mantissa,       \* bits of an integer that a float keeps
    SizeOfValue,    \* size_of::<Value>()
    Json            \* json::get where it succeeds: [<<text, path>> -> value]

ASSUME WidthAssumption == {Width, Mantissa, SizeOfValue} \subseteq Nat \ {0}

Int_(n) == <<"Int", n>>
Float_(q) == <<"Float", q>>
Bool_(b) == <<"Bool", b>>
Str_(s) == <<"Str", s>>
List_(l) == <<"List", l>>
Err(kind) == <<"Err", kind>>
TypeErr == Err("Type")
IsErr(v) == v[1] = "Err"

\* The first error among vs, else K of their contents
Checked(vs, K(_)) ==
    IF \E i \in DOMAIN vs : IsErr(vs[i])
    THEN vs[CHOOSE i \in DOMAIN vs : IsErr(vs[i]) /\ \A j \in 1 .. i - 1 : ~IsErr(vs[j])]
    ELSE K([i \in DOMAIN vs |-> vs[i][2]])

----------------------------------------------------------------------------
(* Integers *)

IntMin == -(2 ^ (Width - 1))
Wrap(n) == ((n - IntMin) % 2 ^ Width) + IntMin
Sign(n) == IF n < 0 THEN -1 ELSE 1
Magnitude(n) == n * Sign(n)
TruncDiv(x, y) == Sign(x) * Sign(y) * (Magnitude(x) \div Magnitude(y))
TruncRem(x, y) == x - y * TruncDiv(x, y)

\* Integers that are a float exactly; `as f64` rounds the others to even.
Unit(n) == 2 ^ (CHOOSE k \in 0 .. Width : /\ Magnitude(n) < 2 ^ (Mantissa + k)
                                          /\ k = 0 \/ Magnitude(n) >= 2 ^ (Mantissa + k - 1))
Rounded(n) ==
    LET u == Unit(n)
        q == Magnitude(n) \div u
        r == Magnitude(n) % u
    IN  Sign(n) * u * (IF 2 * r > u \/ (2 * r = u /\ q % 2 = 1) THEN q + 1 ELSE q)

----------------------------------------------------------------------------
(* Floats *)

NaN == <<0, 0>>

Gcd(m, n) == CHOOSE d \in 1 .. m + n : /\ m % d = 0 /\ n % d = 0
                                       /\ \A e \in d + 1 .. m + n : m % e # 0 \/ n % e # 0
Ratio(n, d) ==
    IF d = 0 THEN <<IF n = 0 THEN 0 ELSE Sign(n), 0>>
    ELSE LET g == Gcd(Magnitude(n), d) IN <<Sign(n) * (Magnitude(n) \div g), d \div g>>

FNeg(x) == <<-x[1], x[2]>>
FAdd(x, y) == IF x = y /\ x[2] = 0 THEN x ELSE Ratio(x[1] * y[2] + y[1] * x[2], x[2] * y[2])
FMul(x, y) == Ratio(x[1] * y[1], x[2] * y[2])
FDiv(x, y) == Ratio(x[1] * y[2] * Sign(y[1]), x[2] * Magnitude(y[1]))
Trunc(x) == TruncDiv(x[1], x[2])
FRem(x, y) ==
    CASE x[2] = 0 \/ y[1] = 0 -> NaN
      [] y[2] = 0             -> x
      [] OTHER                -> FAdd(x, FNeg(FMul(y, <<Trunc(FDiv(x, y)), 1>>)))
FEq(x, y) == x = y /\ x # NaN
FLt(x, y) ==
    /\ x # NaN /\ y # NaN
    /\ IF x[2] = 0 /\ y[2] = 0 THEN x[1] < y[1] ELSE x[1] * y[2] < y[1] * x[2]

\* `as i64`: truncates, saturates, and makes NaN zero
AsI64(x) ==
    CASE x = NaN             -> 0
      [] x[2] = 0 \/ Trunc(x) \notin IntMin .. -IntMin - 1
                             -> IF x[1] < 0 THEN IntMin ELSE -IntMin - 1
      [] OTHER               -> Trunc(x)

----------------------------------------------------------------------------
(* Strings *)

LowerCase == <<"a","b","c","d","e","f","g","h","i","j","k","l","m",
               "n","o","p","q","r","s","t","u","v","w","x","y","z">>
UpperCase == <<"A","B","C","D","E","F","G","H","I","J","K","L","M",
               "N","O","P","Q","R","S","T","U","V","W","X","Y","Z">>
DigitChars == <<"0","1","2","3","4","5","6","7","8","9">>
Wide == {"U+00E6"}                  \* a letter of two bytes, without a capital here
CharOrder == <<" ", ",", "-", ".">> \o DigitChars \o UpperCase \o <<"[", "]">>
             \o LowerCase \o SetToSeq(Wide)

IndexFirst(seq, x) == SelectInSeq(seq, LAMBDA y : y = x)

ToUpper(s) == [i \in DOMAIN s |-> IF s[i] \in ToSet(LowerCase)
                                  THEN UpperCase[IndexFirst(LowerCase, s[i])] ELSE s[i]]
ToLower(s) == [i \in DOMAIN s |-> IF s[i] \in ToSet(UpperCase)
                                  THEN LowerCase[IndexFirst(UpperCase, s[i])] ELSE s[i]]
ByteLen(s) == Len(s) + Cardinality({i \in DOMAIN s : s[i] \in Wide})
Trim(s) ==
    LET ink == {i \in DOMAIN s : s[i] # " "}
    IN  IF ink = {} THEN <<>> ELSE SubSeq(s, Min(ink), Max(ink))
StrLt(s, t) ==
    \/ IsStrictPrefix(s, t)
    \/ \E i \in DOMAIN s \cap DOMAIN t :
         /\ SubSeq(s, 1, i - 1) = SubSeq(t, 1, i - 1)
         /\ IndexFirst(CharOrder, s[i]) < IndexFirst(CharOrder, t[i])

RECURSIVE Digits(_), Decimals(_, _, _), ToStr(_)

Digits(n) == IF n < 10 THEN <<DigitChars[n + 1]>> ELSE Digits(n \div 10) \o <<DigitChars[(n % 10) + 1]>>

\* at most k decimals of r / d, which is less than one
Decimals(r, d, k) ==
    IF r = 0 \/ k = 0 THEN <<>>
    ELSE Digits((10 * r) \div d) \o Decimals((10 * r) % d, d, k - 1)
IntText(n) == (IF n < 0 THEN <<"-">> ELSE <<>>) \o Digits(Magnitude(n))

\* fn to_str; Display of an f64 prints a whole one without a point
ToStr(v) ==
    CASE v[1] = "Int"   -> IntText(v[2])
      [] v[1] = "Bool"  -> IF v[2] THEN <<"t","r","u","e">> ELSE <<"f","a","l","s","e">>
      [] v[1] = "Str"   -> v[2]
      [] v[1] = "List"  ->
           <<"[">> \o FlattenSeq([i \in DOMAIN v[2] |->
                         (IF i > 1 THEN <<",", " ">> ELSE <<>>) \o ToStr(v[2][i])]) \o <<"]">>
      [] v = Float_(NaN) -> <<"N","a","N">>
      [] OTHER ->
           LET n == v[2][1]  d == v[2][2]
           IN  (IF n < 0 THEN <<"-">> ELSE <<>>) \o
               (CASE d = 0 -> <<"i","n","f">>
                  [] d = 1 -> Digits(Magnitude(n))
                  [] OTHER -> Digits(Magnitude(n) \div d) \o <<".">>
                                \o Decimals(Magnitude(n) % d, d, 3))

\* f64::from_str on the texts of integers (the other spellings of a number are left out)
ParsedNumber(s) == {n \in IntMin .. -IntMin - 1 : IntText(n) = s}

----------------------------------------------------------------------------
(* Value helpers *)

\* fn as_bool
AsBool(v) ==
    CASE v[1] = "Bool"  -> v[2]
      [] v[1] = "Int"   -> v[2] # 0
      [] v[1] = "Float" -> v[2] # <<0, 1>>
      [] OTHER          -> v[2] # <<>>

\* fn as_f64
AsF64(v) ==
    CASE v[1] = "Int"   -> Float_(<<Rounded(v[2]), 1>>)
      [] v[1] = "Float" -> v
      [] v[1] = "Bool"  -> Float_(<<IF v[2] THEN 1 ELSE 0, 1>>)
      [] v[1] = "Str" /\ ParsedNumber(Trim(v[2])) # {}
                        -> Float_(<<Rounded(CHOOSE n \in ParsedNumber(Trim(v[2])) : TRUE), 1>>)
      [] OTHER          -> TypeErr

\* fn num_binop; i64::MIN / -1 and i64::MIN % -1 panic in every build
NumBinop(op, a, b) ==
    IF op = "+" /\ "Str" \in {a[1], b[1]} THEN Str_(ToStr(a) \o ToStr(b))
    ELSE IF a[1] = "Int" /\ b[1] = "Int"
         THEN LET x == a[2]  y == b[2]
              IN  CASE op = "+" -> Int_(Wrap(x + y))
                    [] op = "-" -> Int_(Wrap(x - y))
                    [] op = "*" -> Int_(Wrap(x * y))
                    [] y = 0    -> TypeErr
                    [] x = IntMin /\ y = -1 -> Err("Panic")
                    [] op = "/" -> Int_(TruncDiv(x, y))
                    [] op = "%" -> Int_(TruncRem(x, y))
         ELSE Checked(<<AsF64(a), AsF64(b)>>, LAMBDA q :
                Float_(CASE op = "+" -> FAdd(q[1], q[2])
                         [] op = "-" -> FAdd(q[1], FNeg(q[2]))
                         [] op = "*" -> FMul(q[1], q[2])
                         [] op = "/" -> FDiv(q[1], q[2])
                         [] op = "%" -> FRem(q[1], q[2])))

Ordered(op, lt, eq, gt) ==
    CASE op = "==" -> eq [] op = "<" -> lt [] op = "<=" -> lt \/ eq
      [] op = "!=" -> ~eq [] op = ">" -> gt [] op = ">=" -> gt \/ eq

\* As fn compare, with the magnitudes of two integers.
CompareMagnitudes(op, a, b) ==
    IF a[1] = "Int" /\ b[1] = "Int"
    THEN Bool_(Ordered(op, Magnitude(a[2]) < Magnitude(b[2]), a = b, Magnitude(a[2]) > Magnitude(b[2])))
    ELSE TypeErr

\* fn compare
Compare(op, a, b) ==
    IF a[1] = "Bool" /\ b[1] = "Bool"
    THEN IF op \in {"==", "!="} THEN Bool_((op = "==") = (a[2] = b[2])) ELSE TypeErr
    ELSE IF a[1] = "Str" /\ b[1] = "Str"
         THEN Bool_(Ordered(op, StrLt(a[2], b[2]), a[2] = b[2], StrLt(b[2], a[2])))
         ELSE Checked(<<AsF64(a), AsF64(b)>>, LAMBDA q :
                Bool_(Ordered(op, FLt(q[1], q[2]), FEq(q[1], q[2]), FLt(q[2], q[1]))))

\* fn index, with Python's negative indices
IndexValue(list, idx) ==
    LET n == Len(list[2])
        real == IF idx[2] < 0 THEN n + idx[2] ELSE idx[2]
    IN  IF list[1] # "List" \/ idx[1] # "Int" THEN TypeErr
        ELSE IF real < 0 \/ real >= n THEN TypeErr ELSE list[2][real + 1]

Negate(v) ==
    CASE v[1] = "Int"   -> Int_(Wrap(-v[2]))
      [] v[1] = "Float" -> Float_(FNeg(v[2]))
      [] OTHER          -> TypeErr

----------------------------------------------------------------------------
(* Builtins.  The result of one is <<value, effects>>: what it returns and *)
(* what it made the display or the LED do.                                 *)

Red == <<"r","e","d">>
Off == <<"o","f","f">>
\* fn color_rgb, with two of its colours
ColorRgb(s) ==
    CASE ToLower(Trim(s)) = Red -> <<255, 0, 0>>
      [] ToLower(Trim(s)) = Off -> <<0, 0, 0>>
      [] OTHER -> <<>>

\* fn round_half_away
RoundHalfAway(x) ==
    LET up(y) == AsI64(FAdd(y, <<1, 2>>))
    IN  IF FLt(x, <<0, 1>>) \/ x = NaN THEN <<-Rounded(up(FNeg(x))), 1>> ELSE <<Rounded(up(x)), 1>>

\* fn position_of: 0 when absent
PositionOf(items, needle) ==
    LET hits == {i \in DOMAIN items : ~IsErr(AsF64(items[i])) /\ FEq(AsF64(items[i])[2], needle)}
    IN  IF hits = {} THEN 0 ELSE Min(hits)

\* fn reduce_minmax: the first of the items that no other beats
ReduceMinmax(b, vals) ==
    LET items == IF Len(vals) = 1 THEN vals[1][2] ELSE vals
        beats(v, w) == FLt(AsF64(IF b = "min" THEN v ELSE w)[2], AsF64(IF b = "min" THEN w ELSE v)[2])
    IN  CASE vals = <<>> -> Err("Arity")
          [] Len(vals) = 1 /\ (vals[1][1] # "List" \/ items = <<>>) -> TypeErr
          [] \E i \in DOMAIN items : IsErr(AsF64(items[i])) -> TypeErr
          [] OTHER -> FoldLeft(LAMBDA best, v : IF beats(v, best) THEN v ELSE best, items[1], items)

\* Builtin::Sum: integers and floats are added apart
SumOf(items) ==
    LET add(acc, v) == CASE IsErr(acc)       -> acc
                         [] v[1] = "Int"     -> <<"Acc", Wrap(acc[2] + v[2]), acc[3], acc[4]>>
                         [] v[1] = "Float"   -> <<"Acc", acc[2], FAdd(acc[3], v[2]), TRUE>>
                         [] OTHER            -> TypeErr
        total == FoldLeft(add, <<"Acc", 0, <<0, 1>>, FALSE>>, items)
    IN  CASE IsErr(total) -> total
          [] total[4]     -> Float_(FAdd(total[3], <<Rounded(total[2]), 1>>))
          [] OTHER        -> Int_(total[2])

OneArgument == {"len", "abs", "round", "int", "float", "bool", "str", "show", "led",
                "upper", "lower", "reverse"}
OneList == {"sum", "any", "all", "first", "last"}
Arity(b) ==
    CASE b \in OneArgument \cup OneList -> {1}
      [] b \in {"contains", "index", "json_get", "fetch_json"} -> {2}
      [] b = "before" -> {3}
      [] b = "flash"  -> {0}
      [] b = "fetch"  -> {1}
      [] OTHER        -> Nat              \* min, max and print look for themselves

\* The builtins without an effect, on a right number of arguments
PureBuiltin(b, vals) ==
    LET v == vals[1]
        items == v[2]
        number(K(_)) == Checked(<<AsF64(v)>>, LAMBDA q : K(q[1]))
    IN
    CASE b = "len"   -> IF v[1] \in {"List", "Str"} THEN Int_(Len(v[2])) ELSE TypeErr
      [] b = "abs"   -> (CASE v[1] = "Int"  -> Int_(Wrap(Magnitude(v[2])))
                          [] v[1] = "Float" -> Float_(IF FLt(v[2], <<0, 1>>) THEN FNeg(v[2]) ELSE v[2])
                          [] OTHER          -> TypeErr)
      [] b = "round" -> number(LAMBDA q : Int_(AsI64(RoundHalfAway(q))))
      [] b = "int"   -> number(LAMBDA q : Int_(AsI64(q)))
      [] b = "float" -> number(LAMBDA q : Float_(q))
      [] b = "bool"  -> Bool_(AsBool(v))
      [] b \in {"min", "max"} -> ReduceMinmax(b, vals)
      [] b \in OneList /\ v[1] # "List" -> TypeErr
      [] b = "sum"   -> SumOf(items)
      [] b = "any"   -> Bool_(\E i \in DOMAIN items : AsBool(items[i]))
      [] b = "all"   -> Bool_(\A i \in DOMAIN items : AsBool(items[i]))
      [] b = "first" -> IF items = <<>> THEN Int_(-1) ELSE Head(items)
      [] b = "last"  -> IF items = <<>> THEN Int_(-1) ELSE Last(items)
      [] b \in {"contains", "index", "before"} ->
           IF v[1] # "List" THEN TypeErr
           ELSE Checked([i \in 1 .. Len(vals) - 1 |-> AsF64(vals[i + 1])], LAMBDA q :
                  LET at(i) == PositionOf(items, q[i])
                  IN  CASE b = "contains" -> Bool_(at(1) # 0)
                        [] b = "index"    -> Int_(at(1) - 1)
                        [] b = "before"   -> Bool_(at(1) # 0 /\ at(2) # 0 /\ at(1) < at(2)))
      [] b = "str"   -> Str_(ToStr(v))
      [] b = "json_get" ->
           IF v[1] = "Str" /\ vals[2][1] = "Str" /\ <<items, vals[2][2]>> \in DOMAIN Json
           THEN Json[<<items, vals[2][2]>>] ELSE TypeErr
      [] b = "print" ->
           IF Len(vals) = 1 THEN v
           ELSE Str_(FlattenSeq([i \in DOMAIN vals |->
                       (IF i > 1 THEN <<" ">> ELSE <<>>) \o ToStr(vals[i])]))
      [] b = "upper" -> IF v[1] = "Str" THEN Str_(ToUpper(items)) ELSE TypeErr
      [] b = "lower" -> IF v[1] = "Str" THEN Str_(ToLower(items)) ELSE TypeErr
      [] b = "reverse" -> IF v[1] \in {"Str", "List"} THEN <<v[1], Reverse(items)>> ELSE TypeErr

\* fn apply_builtin: all builtins but fetch and fetch_json; caps are the
\* capabilities the host has installed
ApplyBuiltin(b, vals, caps) ==
    LET v == vals[1]
        rgb == IF v[1] = "Str" THEN ColorRgb(v[2]) ELSE <<>>
        lit == IF v[1] = "Str" THEN rgb # <<0, 0, 0>> ELSE AsBool(v)
    IN
    CASE Len(vals) \notin Arity(b) -> <<Err("Arity"), <<>>>>
      [] b = "show" -> IF "display" \in caps THEN <<v, <<<<"show", ToStr(v)>>>>>>
                       ELSE <<Err("Display"), <<>>>>
      [] b \in {"led", "flash"} /\ "actuator" \notin caps -> <<Err("Display"), <<>>>>
      [] b = "led" /\ v[1] = "Str" /\ rgb = <<>> -> <<TypeErr, <<>>>>
      [] b = "led" -> <<v, <<<<"led", lit, IF lit THEN rgb ELSE <<>>>>>>>>
      [] b = "flash" -> <<Bool_(TRUE), <<<<"flash">>>>>>
      [] OTHER -> <<PureBuiltin(b, vals), <<>>>>
============================================================================
