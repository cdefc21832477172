--------------------------- MODULE ServicesProofs ---------------------------
(***************************************************************************)
(* Proofs about the optional services of the firmware, for every number of *)
(* peers and users, every bound and every set of circumstances.            *)
(*                                                                         *)
(* Bridge: the boot guard keeps its promise (BootGuard), a reply carries   *)
(* the bytes its range names (RangeHonoured), and the frames lwIP refers   *)
(* to are alive and none of them leaks (BuffersLive).                      *)
(* Reflector: nothing goes round at once (NotJustReinjected).              *)
(* Proxy: what a user receives is the response to its own request          *)
(* (AnswersOwner).                                                         *)
(***************************************************************************)
EXTENDS Bridge, Reflector, Proxy, SequenceFacts, FiniteSetTheorems, TLAPS

LEMMA MinOfTwo ==
    ASSUME NEW a \in Nat, NEW b \in Nat
    PROVE  Min({a, b}) = IF a <= b THEN a ELSE b
<1> DEFINE m == IF a <= b THEN a ELSE b
<1>1. m \in {a, b} /\ \A y \in {a, b} : m <= y
  OBVIOUS
<1>2. \A x \in {a, b} : (\A y \in {a, b} : x <= y) => x = m
  OBVIOUS
<1> QED
  BY <1>1, <1>2 DEF Min

-----------------------------------------------------------------------------
(* The boot guard *)

\* A boot that is tried and has not run for 30 s.
Trying == phase = "create" \/ timer

\* The counter in flash has seen every boot that failed, except where an error of
\* the flash lost its value, which was at most MAX_TRIES; and without such an
\* error it has counted nothing else.
GuardCounts(trying) ==
    /\ tries \in 0 .. MAX_TRIES /\ failed \in Nat /\ nvsErrors \in Nat
    /\ failed + trying <= MAX_TRIES * nvsErrors + tries
    /\ nvsErrors = 0 => tries <= failed + trying

GuardInv ==
    /\ timer \in BOOLEAN /\ (timer => phase = "running")
    /\ GuardCounts(IF Trying THEN 1 ELSE 0)

LEMMA GuardInit == Init => GuardInv
<1> SUFFICES ASSUME Init
             PROVE  GuardInv
  OBVIOUS
<1>1. /\ phase = "boot" /\ tries = 0 /\ timer = FALSE /\ failed = 0 /\ nvsErrors = 0
  BY DEF Init, Start
<1>2. MAX_TRIES \in Nat
  BY BridgeAssumption
<1>3. MAX_TRIES * nvsErrors = 0
  BY <1>1, <1>2
<1>4. GuardCounts(0)
  BY <1>1, <1>2, <1>3 DEF GuardCounts
<1> QED
  BY <1>1, <1>4 DEF GuardInv, Trying

\* What BootGuard says of one step.
GuardStep ==
    /\ failed' <= MAX_TRIES * (1 + nvsErrors')
    /\ phase = "boot" /\ phase' = "running" => failed >= MAX_TRIES \/ nvsErrors' > 0

\* The counters after a step of the guard, as numbers: lost is what errors of the
\* flash may have cost, before and after.
LEMMA GuardArithmetic ==
    ASSUME GuardCounts(0) \/ GuardCounts(1),
           UNCHANGED nvsErrors \/ nvsErrors' = nvsErrors + 1
    PROVE  \E lost, lost2 \in Nat :
              /\ lost = MAX_TRIES * nvsErrors /\ lost2 = MAX_TRIES * nvsErrors'
              /\ lost2 = IF nvsErrors' = nvsErrors THEN lost ELSE lost + MAX_TRIES
              /\ MAX_TRIES * (1 + nvsErrors') = lost2 + MAX_TRIES
<1>m. MAX_TRIES \in Nat /\ nvsErrors \in Nat
  BY BridgeAssumption DEF GuardCounts
<1>1. CASE UNCHANGED nvsErrors
  <2>1. MAX_TRIES * nvsErrors \in Nat
    BY <1>m
  <2>2. MAX_TRIES * (1 + nvsErrors) = MAX_TRIES * nvsErrors + MAX_TRIES
    BY <1>m
  <2> QED
    BY <1>1, <2>1, <2>2
<1>2. CASE nvsErrors' = nvsErrors + 1
  <2>1. MAX_TRIES * nvsErrors \in Nat /\ MAX_TRIES * nvsErrors + MAX_TRIES \in Nat
    BY <1>m
  <2>2. MAX_TRIES * (nvsErrors + 1) = MAX_TRIES * nvsErrors + MAX_TRIES
    BY <1>m
  <2>3. MAX_TRIES * (1 + (nvsErrors + 1)) = MAX_TRIES * nvsErrors + MAX_TRIES + MAX_TRIES
    BY <1>m
  <2>4. nvsErrors' # nvsErrors
    BY <1>2, <1>m
  <2> QED
    BY <1>2, <2>1, <2>2, <2>3, <2>4
<1> QED
  BY <1>1, <1>2

\* A boot is tried, ends before it has run for 30 s, has run so long, or the
\* bridge is left out.
LEMMA CountsKeep ==
    ASSUME NEW x \in {0, 1}, NEW y \in {0, 1}, GuardCounts(x),
           \/ UNCHANGED <<tries, failed, nvsErrors>> /\ y = x
           \/ x = 0 /\ y = 1 /\ UNCHANGED failed /\
                 \/ tries < MAX_TRIES /\ tries' = tries + 1 /\ UNCHANGED nvsErrors
                 \/ (tries' = 1 \/ tries' = tries) /\ nvsErrors' = nvsErrors + 1
           \/ x = 1 /\ y = 0 /\ failed' = failed + 1 /\ UNCHANGED <<tries, nvsErrors>>
           \/ y = 0 /\ failed' = 0 /\
                 \/ tries' = 0 /\ UNCHANGED nvsErrors
                 \/ UNCHANGED tries /\ nvsErrors' = nvsErrors + 1
           \/ y = 0 /\ x = 0 /\ UNCHANGED <<tries, failed>> /\ nvsErrors' = nvsErrors + 1
    PROVE  GuardCounts(y)' /\ failed' <= MAX_TRIES * (1 + nvsErrors')
<1>1. MAX_TRIES \in Nat /\ MAX_TRIES > 0 /\ nvsErrors \in Nat
  <2>1. MAX_TRIES \in Nat /\ MAX_TRIES > 0
    BY BridgeAssumption
  <2>2. nvsErrors \in Nat
    BY Zenon DEF GuardCounts
  <2> QED
    BY <2>1, <2>2
<1>2. UNCHANGED nvsErrors \/ nvsErrors' = nvsErrors + 1
  OBVIOUS
<1>3. PICK lost, lost2 \in Nat :
           /\ lost = MAX_TRIES * nvsErrors /\ lost2 = MAX_TRIES * nvsErrors'
           /\ lost2 = IF nvsErrors' = nvsErrors THEN lost ELSE lost + MAX_TRIES
           /\ MAX_TRIES * (1 + nvsErrors') = lost2 + MAX_TRIES
  BY <1>2, GuardArithmetic
<1>4. nvsErrors' # nvsErrors => nvsErrors' = nvsErrors + 1 /\ nvsErrors' \in Nat /\ nvsErrors' # 0
  BY <1>1, <1>2
<1>5. /\ tries \in 0 .. MAX_TRIES /\ failed \in Nat
      /\ failed + x <= lost + tries /\ (nvsErrors = 0 => tries <= failed + x)
  BY <1>3 DEF GuardCounts
<1>6. /\ tries' \in 0 .. MAX_TRIES /\ failed' \in Nat /\ nvsErrors' \in Nat
      /\ failed' + y <= lost2 + tries' /\ (nvsErrors' = 0 => tries' <= failed' + y)
  <2>1. lost2 = IF nvsErrors' = nvsErrors THEN lost ELSE lost + MAX_TRIES
    BY <1>3
  <2> QED
    BY <1>1, <1>2, <1>4, <1>5, <2>1
<1>7. failed' <= lost2 + MAX_TRIES
  <2>1. \A f, t, l, m, z \in Nat : f + z <= l + t /\ t <= m => f <= l + m
    OBVIOUS
  <2>2. tries' \in Nat /\ tries' <= MAX_TRIES /\ y \in Nat
    BY <1>1, <1>6
  <2> QED
    BY <1>1, <1>6, <2>1, <2>2
<1> QED
  BY <1>3, <1>6, <1>7 DEF GuardCounts

LEMMA GuardKeeps == GuardInv /\ [Next]_vars => GuardInv' /\ GuardStep
<1> SUFFICES ASSUME GuardInv, [Next]_vars
             PROVE  GuardInv' /\ GuardStep
  OBVIOUS
<1>m. /\ MAX_TRIES \in Nat /\ MAX_TRIES > 0
      /\ tries \in 0 .. MAX_TRIES /\ failed \in Nat /\ nvsErrors \in Nat
  BY BridgeAssumption DEF GuardInv, GuardCounts
<1>1. CASE UNCHANGED <<phase, tries, timer, failed, nvsErrors>>
  <2>1. Trying' <=> Trying
    BY <1>1 DEF Trying
  <2>2. GuardCounts(IF Trying THEN 1 ELSE 0)
    BY DEF GuardInv
  <2>3. GuardCounts(IF Trying THEN 1 ELSE 0)' /\ failed' <= MAX_TRIES * (1 + nvsErrors')
    BY <1>1, <2>2, <2>1, CountsKeep
  <2> QED
    BY <1>1, <2>1, <2>3 DEF GuardInv, GuardStep
<1>2. CASE Skip
  <2>1. /\ phase = "boot" /\ phase' = "running" /\ UNCHANGED timer /\ ~timer /\ ~Trying /\ ~Trying'
    BY <1>2 DEF Skip, GuardInv, Trying
  <2>2. \/ tries >= MAX_TRIES /\ tries' = 0 /\ UNCHANGED nvsErrors /\ failed' = 0
        \/ nvsErrors' = nvsErrors + 1 /\ UNCHANGED tries /\ failed' \in {0, failed}
    BY <1>2 DEF Skip, NvsWrite, NvsError, Disabled
  <2>3. GuardCounts(0)
    BY <2>1 DEF GuardInv
  <2>4. GuardCounts(0)' /\ failed' <= MAX_TRIES * (1 + nvsErrors')
    BY <2>2, <2>3, CountsKeep
  <2>5. failed >= MAX_TRIES \/ nvsErrors' > 0
    <3>1. CASE tries >= MAX_TRIES /\ UNCHANGED nvsErrors
      BY <1>m, <2>3, <3>1 DEF GuardCounts
    <3>2. CASE nvsErrors' = nvsErrors + 1
      BY <1>m, <3>2
    <3> QED
      BY <2>2, <3>1, <3>2
  <2> QED
    BY <2>1, <2>4, <2>5 DEF GuardInv, GuardStep
<1>3. CASE Attempt
  <2>1. /\ phase = "boot" /\ phase' = "create" /\ UNCHANGED <<timer, failed>> /\ ~timer
        /\ ~Trying /\ Trying'
    BY <1>3 DEF Attempt, GuardInv, Trying
  <2>2. \/ tries < MAX_TRIES /\ tries' = tries + 1 /\ UNCHANGED nvsErrors
        \/ nvsErrors' = nvsErrors + 1 /\ (tries' = 1 \/ tries' = tries)
    <3>1. CASE ~Disabled(tries) /\ NvsWrite(Bumped(tries))
      BY <1>m, <3>1 DEF NvsWrite, NvsError, Disabled, Bumped
    <3>2. CASE NvsError /\ tries' \in {Bumped(0), tries}
      BY <3>2 DEF NvsError, Bumped
    <3> QED
      BY <1>3, <3>1, <3>2 DEF Attempt
  <2>3. GuardCounts(0)
    BY <2>1 DEF GuardInv
  <2>4. GuardCounts(1)' /\ failed' <= MAX_TRIES * (1 + nvsErrors')
    BY <2>1, <2>2, <2>3, CountsKeep
  <2> QED
    BY <2>1, <2>4 DEF GuardInv, GuardStep
<1>4. CASE Create
  <2>1. /\ phase = "create" /\ phase' = "running" /\ timer' = TRUE /\ Trying /\ Trying'
        /\ UNCHANGED <<tries, failed, nvsErrors>>
    BY <1>4 DEF Create, Trying
  <2>2. GuardCounts(1)
    BY <2>1 DEF GuardInv
  <2>3. GuardCounts(1)' /\ failed' <= MAX_TRIES * (1 + nvsErrors')
    BY <2>1, <2>2, CountsKeep
  <2> QED
    BY <2>1, <2>3 DEF GuardInv, GuardStep
<1>5. CASE Stable
  <2>1. /\ timer /\ phase = "running" /\ UNCHANGED phase /\ timer' = FALSE /\ failed' = 0
        /\ Trying /\ ~Trying'
    BY <1>5 DEF Stable, GuardInv, Trying
  <2>2. \/ tries' = 0 /\ UNCHANGED nvsErrors
        \/ UNCHANGED tries /\ nvsErrors' = nvsErrors + 1
    BY <1>5 DEF Stable, NvsWrite, NvsError, Cleared
  <2>3. GuardCounts(1)
    BY <2>1 DEF GuardInv
  <2>4. GuardCounts(0)' /\ failed' <= MAX_TRIES * (1 + nvsErrors')
    BY <2>1, <2>2, <2>3, CountsKeep
  <2> QED
    BY <2>1, <2>4 DEF GuardInv, GuardStep
<1>6. CASE Reset
  <2>1. phase' = "boot" /\ timer' = FALSE /\ ~Trying' /\ UNCHANGED <<tries, nvsErrors>>
    BY <1>6 DEF Reset, Trying
  <2>2. GuardCounts(IF Trying THEN 1 ELSE 0)
    BY DEF GuardInv
  <2>3. failed' = IF Trying THEN failed + 1 ELSE failed
    <3>1. MAX_TRIES * (1 + nvsErrors) = MAX_TRIES * nvsErrors + MAX_TRIES
      BY <1>m
    <3>2. failed <= MAX_TRIES * nvsErrors + tries
      <4>1. MAX_TRIES * nvsErrors \in Nat
        BY <1>m
      <4> QED
        BY <1>m, <2>2, <4>1 DEF GuardCounts
    <3>3. failed <= MAX_TRIES * (1 + nvsErrors)
      <4>1. MAX_TRIES * nvsErrors \in Nat
        BY <1>m
      <4> QED
        BY <1>m, <3>1, <3>2, <4>1
    <3> QED
      BY <1>6, <3>3 DEF Reset, Trying
  <2>4. GuardCounts(0)' /\ failed' <= MAX_TRIES * (1 + nvsErrors')
    <3>1. CASE Trying
      <4>1. GuardCounts(1)
        BY <2>2, <3>1
      <4> QED
        BY <2>1, <2>3, <3>1, <4>1, CountsKeep
    <3>2. CASE ~Trying
      <4>1. GuardCounts(0)
        BY <2>2, <3>2
      <4> QED
        BY <2>1, <2>3, <3>2, <4>1, CountsKeep
    <3> QED
      BY <3>1, <3>2
  <2> QED
    BY <2>1, <2>4 DEF GuardInv, GuardStep
<1>7. CASE UNCHANGED vars
  BY <1>1, <1>7 DEF vars, bootVars
<1>8. CASE Inject \/ DrainTx \/ Tcpip \/ TakeJob \/ Read \/ GiveUp
  BY <1>1, <1>8 DEF Inject, DrainTx, Tcpip, TakeJob, Read, GiveUp, bootVars
<1>9. CASE \E p \in Peers : Receive(p) \/ Accept(p) \/ Handshake(p) \/ Request(p)
                             \/ ClientReceive(p) \/ Lose(p)
  BY <1>1, <1>9 DEF Receive, Accept, Handshake, Request, ClientReceive, Lose, bootVars
<1> QED
  BY <1>2, <1>3, <1>4, <1>5, <1>6, <1>7, <1>8, <1>9 DEF Next, Boot, Panic, PowerCut

\* bring_up_guarded: however create() panics, the power goes and the flash fails,
\* the bridge is not tried more than MAX_TRIES times in a row, and it is left out
\* only when it has to be.
THEOREM GuardHolds == BridgeSpec => BootGuard
<1>1. GuardInv /\ [Next]_vars => [GuardStep]_vars
  BY GuardKeeps
<1>2. GuardInv /\ [Next]_vars => GuardInv'
  BY GuardKeeps
<1> QED
  BY <1>1, <1>2, GuardInit, PTL DEF BridgeSpec, BootGuard, GuardStep

-----------------------------------------------------------------------------
(* Ranges *)

\* The reply for an interval of what is asked for.
LEMMA IntervalReply ==
    ASSUME NEW total \in Nat, NEW first \in Nat, NEW len \in Nat, first + len <= total
    PROVE  LET bytes == {i \in 0 .. total - 1 : first <= i /\ i < first + len}
           IN  /\ bytes = first .. first + len - 1 /\ Cardinality(bytes) = len
               /\ bytes = {} <=> len = 0
<1> DEFINE bytes == {i \in 0 .. total - 1 : first <= i /\ i < first + len}
<1>1. bytes = first .. first + len - 1
  OBVIOUS
<1>2. Cardinality(first .. first + len - 1) = len
  <2>1. first \in Int /\ first + len - 1 \in Int
    OBVIOUS
  <2>2. Cardinality(first .. first + len - 1) =
           IF first > first + len - 1 THEN 0 ELSE (first + len - 1) - first + 1
    BY <2>1, FS_Interval
  <2> QED
    BY <2>2
<1>3. first .. first + len - 1 = {} <=> len = 0
  OBVIOUS
<1> QED
  BY <1>1, <1>2, <1>3

\* What parse_range finds, and that it is what the header names.
LEMMA RangeFacts ==
    ASSUME NEW r \in RangeHeader, NEW total \in Nat
    PROVE  LET range == ParseRange(r, total)
           IN  \/ range = Whole /\ r.kind = "none" /\ Named(r, total) = 0 .. total - 1
               \/ range = Unsatisfiable /\ r.kind # "none" /\ Named(r, total) = {}
               \/ /\ r.kind # "none"
                  /\ \E first, last \in Nat :
                        /\ range = Part206(first, last) /\ first <= last /\ last < total
                        /\ Named(r, total) = first .. last
<1> DEFINE range == ParseRange(r, total)
<1>1. CASE r.kind = "none"
  <2>1. Parses(r)
    BY <1>1 DEF Parses
  <2>2. Named(r, total) = 0 .. total - 1
    BY <1>1, <2>1 DEF Named
  <2> QED
    BY <1>1, <2>2 DEF ParseRange
<1>2. CASE r.kind # "none" /\ ~Parses(r)
  <2>1. Named(r, total) = {}
    BY <1>2 DEF Named
  <2> QED
    BY <1>2, <2>1 DEF ParseRange
<1>3. CASE r.kind # "none" /\ total = 0
  <2>1. 0 .. total - 1 = {}
    BY <1>3
  <2>2. Named(r, total) = {}
    BY <2>1 DEF Named
  <2> QED
    BY <1>3, <2>2 DEF ParseRange
<1>4. CASE r.kind = "from" /\ Parses(r) /\ total > 0
  <2>1. r.a \in Nat
    BY <1>4 DEF RangeHeader
  <2>2. Named(r, total) = {i \in 0 .. total - 1 : i >= r.a}
    BY <1>4 DEF Named
  <2>3. CASE r.a >= total
    <3>1. range = Unsatisfiable
      BY <1>4, <2>3 DEF ParseRange
    <3> QED
      BY <1>4, <2>1, <2>2, <2>3, <3>1
  <2>4. CASE ~(r.a >= total)
    <3>1. range = Part206(r.a, total - 1)
      BY <1>4, <2>4 DEF ParseRange
    <3>2. Named(r, total) = r.a .. total - 1 /\ total - 1 \in Nat /\ r.a <= total - 1 /\ total - 1 < total
      BY <2>1, <2>2, <2>4
    <3> QED
      BY <1>4, <2>1, <3>1, <3>2
  <2> QED
    BY <2>3, <2>4
<1>5. CASE r.kind = "both" /\ Parses(r) /\ total > 0
  <2>1. r.a \in Nat /\ r.b \in Nat
    BY <1>5 DEF RangeHeader
  <2>2. Named(r, total) = {i \in 0 .. total - 1 : i >= r.a /\ i <= r.b}
    BY <1>5 DEF Named
  <2>3. CASE r.a >= total \/ r.a > r.b
    <3>1. range = Unsatisfiable
      BY <1>5, <2>3 DEF ParseRange
    <3> QED
      BY <1>5, <2>1, <2>2, <2>3, <3>1
  <2>4. CASE ~(r.a >= total \/ r.a > r.b)
    <3>1. range = Part206(r.a, LastByte(r.b, total))
      BY <1>5, <2>4 DEF ParseRange
    <3>2. LastByte(r.b, total) = IF r.b <= total - 1 THEN r.b ELSE total - 1
      <4>1. total - 1 \in Nat
        BY <1>5
      <4> QED
        BY <2>1, <4>1, MinOfTwo DEF LastByte
    <3>3. PICK last \in Nat : last = LastByte(r.b, total) /\ last = IF r.b <= total - 1 THEN r.b ELSE total - 1
      BY <1>5, <2>1, <3>2
    <3>4. Named(r, total) = r.a .. last /\ r.a <= last /\ last < total
      BY <1>5, <2>1, <2>2, <2>4, <3>3
    <3> QED
      BY <1>5, <2>1, <3>1, <3>3, <3>4
  <2> QED
    BY <2>3, <2>4
<1>6. CASE r.kind = "suffix" /\ Parses(r) /\ total > 0
  <2>1. r.n \in Nat
    BY <1>6 DEF RangeHeader
  <2>2. Named(r, total) = {i \in 0 .. total - 1 : total - i <= r.n}
    BY <1>6 DEF Named
  <2>3. CASE r.n = 0
    <3>1. range = Unsatisfiable
      BY <1>6, <2>3 DEF ParseRange
    <3> QED
      BY <1>6, <2>1, <2>2, <2>3, <3>1
  <2>4. CASE r.n # 0
    <3>1. range = Part206(total - Min({r.n, total}), total - 1)
      BY <1>6, <2>4 DEF ParseRange
    <3>2. Min({r.n, total}) = IF r.n <= total THEN r.n ELSE total
      BY <2>1, MinOfTwo
    <3>3. PICK first \in Nat : /\ first = total - Min({r.n, total})
                               /\ first = IF r.n <= total THEN total - r.n ELSE 0
      BY <1>6, <2>1, <3>2
    <3>4. Named(r, total) = first .. total - 1 /\ total - 1 \in Nat /\ first <= total - 1 /\ total - 1 < total
      <4>1. PICK n \in Nat : n = r.n
        BY <2>1
      <4>2. first = (IF n <= total THEN total - n ELSE 0) /\ n # 0
        BY <2>4, <3>3, <4>1
      <4>3. {i \in 0 .. total - 1 : total - i <= n} = first .. total - 1
        BY <1>6, <4>2
      <4> QED
        BY <1>6, <2>2, <4>1, <4>2, <4>3
    <3> QED
      BY <1>6, <3>1, <3>3, <3>4
  <2> QED
    BY <2>3, <2>4
<1>7. r.kind \in {"none", "bad", "from", "both", "suffix"} /\ (r.kind = "bad" => ~Parses(r))
  BY DEF RangeHeader, Parses
<1> QED
  BY <1>1, <1>2, <1>3, <1>4, <1>5, <1>6, <1>7

\* stream_reply: exactly the bytes that are named, the length that is announced,
\* and 416 for nothing at all.
LEMMA ReplyFacts ==
    ASSUME NEW r \in RangeHeader, NEW total \in Nat
    PROVE  LET reply2 == StreamReply(r, total)
           IN  /\ reply2.bytes = Named(r, total) /\ reply2.length = Cardinality(reply2.bytes)
               /\ (reply2.status = "416") = (reply2.bytes = {} /\ r.kind # "none")
<1> DEFINE range == ParseRange(r, total)
           base == IF range.kind = "206" THEN range.first ELSE 0
           len == IF range.kind = "206" THEN range.last - range.first + 1
                  ELSE IF range.kind = "200" THEN total ELSE 0
           bytes == {i \in 0 .. total - 1 : base <= i /\ i < base + len}
           answer == StreamReply(r, total)
<1>1. answer = [status |-> range.kind, length |-> len, bytes |-> bytes]
  BY DEF StreamReply
<1> HIDE DEF answer
<1>2. answer.status = range.kind /\ answer.length = len /\ answer.bytes = bytes
  BY <1>1
<1>3. CASE range = Whole /\ r.kind = "none" /\ Named(r, total) = 0 .. total - 1
  <2>1. range.kind = "200" /\ base = 0 /\ len = total
    BY <1>3 DEF Whole
  <2> HIDE DEF base, len, range
  <2>2. bytes = 0 .. total - 1 /\ Cardinality(bytes) = total
    BY <2>1, IntervalReply
  <2> QED
    BY <1>2, <1>3, <2>1, <2>2 DEF answer
<1>4. CASE range = Unsatisfiable /\ r.kind # "none" /\ Named(r, total) = {}
  <2>1. range.kind = "416" /\ base = 0 /\ len = 0
    BY <1>4 DEF Unsatisfiable
  <2> HIDE DEF base, len, range
  <2>2. bytes = {} /\ Cardinality(bytes) = 0
    BY <2>1, IntervalReply
  <2> QED
    BY <1>2, <1>4, <2>1, <2>2 DEF answer
<1>5. ASSUME r.kind # "none", NEW first \in Nat, NEW last \in Nat,
             range = Part206(first, last), first <= last, last < total,
             Named(r, total) = first .. last
      PROVE  /\ answer.bytes = Named(r, total) /\ answer.length = Cardinality(answer.bytes)
             /\ (answer.status = "416") = (answer.bytes = {} /\ r.kind # "none")
  <2>1. range.kind = "206" /\ range.first = first /\ range.last = last
    BY <1>5 DEF Part206
  <2>2. base = first /\ len = last - first + 1
    BY <2>1
  <2> HIDE DEF base, len, range
  <2>3. len \in Nat /\ len # 0 /\ base + len <= total /\ base + len - 1 = last
    BY <1>5, <2>2
  <2>4. bytes = first .. last /\ Cardinality(bytes) = len /\ bytes # {}
    BY <2>2, <2>3, IntervalReply
  <2> QED
    BY <1>2, <1>5, <2>1, <2>4
<1> QED
  BY <1>3, <1>4, <1>5, RangeFacts DEF answer

\* The reply that was written last is the one to this request.
ReplyInv ==
    /\ case \in Circumstance
    /\ reply # None => reply = StreamReply(case.range, case.total)

LEMMA ReplyStep == ReplyInv /\ [Next]_vars => ReplyInv'
<1> SUFFICES ASSUME ReplyInv, [Next]_vars
             PROVE  ReplyInv'
  OBVIOUS
<1>1. case' \in Circumstance /\ case'.range = case.range /\ case'.total = case.total
  <2>1. case \in Circumstance
    BY DEF ReplyInv
  <2>2. \A n \in Nat, R \in SUBSET Peers :
          \A d \in {[case EXCEPT !.nvs = n], [case EXCEPT !.cuts = n], [case EXCEPT !.losses = n],
                   [case EXCEPT !.renew = R]} :
             d \in Circumstance /\ d.range = case.range /\ d.total = case.total
    BY <2>1 DEF Circumstance
  <2>3. \A n \in Nat : n > 0 => n - 1 \in Nat
    OBVIOUS
  <2>4. /\ case.nvs \in Nat /\ case.cuts \in Nat /\ case.losses \in Nat
        /\ \A p : case.renew \ {p} \in SUBSET Peers
    BY <2>1 DEF Circumstance
  <2>5. CASE UNCHANGED case
    BY <2>1, <2>5
  <2>6. CASE case.nvs > 0 /\ case' = [case EXCEPT !.nvs = @ - 1]
    BY <2>2, <2>3, <2>4, <2>6
  <2>7. CASE case.cuts > 0 /\ case' = [case EXCEPT !.cuts = @ - 1]
    BY <2>2, <2>3, <2>4, <2>7
  <2>8. CASE case.losses > 0 /\ case' = [case EXCEPT !.losses = @ - 1]
    BY <2>2, <2>3, <2>4, <2>8
  <2>9. CASE \E p \in Peers : case' = [case EXCEPT !.renew = @ \ {p}]
    <3>1. PICK R \in SUBSET Peers : case' = [case EXCEPT !.renew = R]
      BY <2>4, <2>9
    <3> QED
      BY <2>2, <2>4, <3>1
  <2> HIDE <2>2, <2>3, <2>4
  <2>10. CASE Boot \/ Stable \/ PowerCut
    <3>1. CASE NvsError
      BY <2>6, <3>1 DEF NvsError
    <3>2. CASE \E v : NvsWrite(v)
      BY <2>5, <3>1, <3>2 DEF NvsWrite
    <3>3. CASE Create \/ Panic \/ PowerCut
      BY <2>5, <2>7, <3>3 DEF Create, Panic, PowerCut
    <3> QED
      BY <2>10, <3>1, <3>2, <3>3 DEF Boot, Skip, Attempt, Stable
  <2>11. CASE Inject \/ DrainTx \/ Tcpip \/ TakeJob \/ Read \/ GiveUp \/ UNCHANGED vars
    BY <2>5, <2>8, <2>11 DEF Inject, DrainTx, Tcpip, TakeJob, Read, GiveUp, vars
  <2>12. CASE \E p \in Peers : Receive(p) \/ Accept(p) \/ Handshake(p) \/ Request(p)
                                \/ ClientReceive(p) \/ Lose(p)
    BY <2>5, <2>8, <2>9, <2>12 DEF Receive, Accept, Handshake, Request, ClientReceive, Lose
  <2> QED
    BY <2>10, <2>11, <2>12 DEF Next
<1>2. \/ UNCHANGED reply \/ reply' = None \/ reply' = StreamReply(case.range, case.total)
  <2>1. CASE Read \/ GiveUp
    BY <2>1 DEF Read, GiveUp, CloseAfter
  <2>2. CASE Boot \/ Stable \/ PowerCut
    BY <2>2 DEF Boot, Skip, Attempt, Create, Panic, Stable, PowerCut, Reset, srvVars
  <2>3. CASE Inject \/ DrainTx \/ Tcpip \/ TakeJob \/ UNCHANGED vars
    BY <2>3 DEF Inject, DrainTx, Tcpip, TakeJob, srvVars, vars
  <2>4. CASE \E p \in Peers : Receive(p) \/ Accept(p) \/ Handshake(p) \/ Request(p)
                               \/ ClientReceive(p) \/ Lose(p)
    BY <2>4 DEF Receive, Accept, Handshake, Request, ClientReceive, Lose, srvVars
  <2> QED
    BY <2>1, <2>2, <2>3, <2>4 DEF Next
<1> QED
  BY <1>1, <1>2 DEF ReplyInv

\* What local_server.rs writes is what the Range header asks for, for every header
\* and every length.
THEOREM RepliesHonourRanges == BridgeSpec => []RangeHonoured
<1>1. Init => ReplyInv
  <2> SUFFICES ASSUME Init
               PROVE  ReplyInv
    OBVIOUS
  <2>1. case \in Circumstance /\ reply = None
    BY BridgeAssumption DEF Init, Start
  <2> QED
    BY <2>1 DEF ReplyInv
<1>2. ReplyInv => RangeHonoured
  BY ReplyFacts DEF ReplyInv, RangeHonoured, Circumstance
<1> QED
  BY <1>1, <1>2, ReplyStep, PTL DEF BridgeSpec

-----------------------------------------------------------------------------
(* The frames lwIP refers to *)

Text == {"syn", "ack", "head", "body", "synack", "rst", "resp", "reply"}
FrameType == [kind : {"ip", "arp"}, peer : Peers, body : Text]
MailType == [ptr : Ptrs, frame : FrameType]
HeldType == [ptr : Ptrs, frame : FrameType, step : {1, 2}]
ConnType == [st : {"none", "synrcvd", "est", "accepted"}, rcvd : Nat, pbufs : Seq(Ptrs)]
UpType == [tun : 0 .. TunMax, body : Text]

\* A connection that is not open has no data.
ConnOk(c) == c \in ConnType /\ (c.st \in {"none", "synrcvd"} => c.pbufs = <<>>)

HeldOk(h) == h = <<>> \/ \E f \in HeldType : h = <<f>>

\* Addresses in a mailbox, of the unread data of each peer, and of a frame that is
\* in RX_BUFS and not with lwIP yet.
MailPtrs(b) == {b[i].ptr : i \in 1 .. Len(b)}
Unread(cs) == [p \in Peers |-> {cs[p].pbufs[i] : i \in 1 .. Len(cs[p].pbufs)}]
InHand(h) == IF h # <<>> /\ h[1].step = 2 THEN {h[1].ptr} ELSE {}

MailOnce(b) == \A i, j \in 1 .. Len(b) : b[i].ptr = b[j].ptr => i = j
Once(s) == \A i, j \in 1 .. Len(s) : s[i] = s[j] => i = j

\* RX_BUFS is what is in the mailbox, unread or in hand, and these are apart.
Apart(M, U, bufs, H) ==
    /\ \A p \in Peers : M \cap U[p] = {} /\ H \cap U[p] = {}
    /\ \A p, q \in Peers : p # q => U[p] \cap U[q] = {}
    /\ H \cap M = {}
    /\ \A x : x \in bufs <=> x \in M \/ x \in H \/ \E p \in Peers : x \in U[p]

\* lwIP in state l, with unread data U, and RX_BUFS, with the held frame h.
Sound(l, U, bufs, h) ==
    /\ l = [mbox |-> l.mbox, arp |-> l.arp, waiting |-> l.waiting]
    /\ l.mbox \in Seq(MailType) /\ MailOnce(l.mbox)
    /\ Apart(MailPtrs(l.mbox), U, bufs, InHand(h)) /\ bufs \subseteq Ptrs
    /\ h # <<>> /\ h[1].step = 1 => h[1].ptr \notin bufs

ConnsOk(cs) ==
    /\ cs = [p \in Peers |-> cs[p]]
    /\ \A p \in Peers : ConnOk(cs[p]) /\ Once(cs[p].pbufs)

BufMem == HeldOk(held) /\ Sound(lwip, Unread(conns), rxbufs, held) /\ ConnsOk(conns)

BufTypes ==
    /\ queue \in Seq(Peers) /\ (worker = NoWorker \/ worker \in [peer : Peers, got : Nat])
    /\ up \in [Peers -> Seq(UpType)]
    /\ client \in [Peers -> [st : {"idle", "done", "syn", "open", "est"}, tun : 0 .. TunMax]]

\* A frame arrives in the mailbox, and one is taken from it.
LEMMA MailFacts ==
    ASSUME NEW b \in Seq(MailType), MailOnce(b)
    PROVE  /\ \A m \in MailType : m.ptr \notin MailPtrs(b) =>
                 /\ Append(b, m) \in Seq(MailType) /\ MailOnce(Append(b, m))
                 /\ MailPtrs(Append(b, m)) = MailPtrs(b) \cup {m.ptr}
           /\ b # <<>> =>
                 /\ Head(b) \in MailType /\ Head(b).ptr \in MailPtrs(b)
                 /\ Tail(b) \in Seq(MailType) /\ MailOnce(Tail(b))
                 /\ MailPtrs(Tail(b)) = MailPtrs(b) \ {Head(b).ptr}
<1>1. ASSUME NEW m \in MailType, m.ptr \notin MailPtrs(b)
      PROVE  /\ Append(b, m) \in Seq(MailType) /\ MailOnce(Append(b, m))
             /\ MailPtrs(Append(b, m)) = MailPtrs(b) \cup {m.ptr}
  <2> DEFINE c == Append(b, m)
  <2>1. /\ c \in Seq(MailType) /\ Len(c) = Len(b) + 1 /\ Len(b) \in Nat
        /\ \A i \in 1 .. Len(b) : c[i] = b[i]
        /\ c[Len(b) + 1] = m
    BY AppendFacts
  <2> HIDE DEF c
  <2>2. \A i \in 1 .. Len(c) :
           (i \in 1 .. Len(b) /\ c[i] = b[i]) \/ (i = Len(b) + 1 /\ c[i] = m)
    BY <2>1
  <2>3. MailOnce(c)
    BY <1>1, <2>2 DEF MailOnce, MailPtrs
  <2>4. MailPtrs(c) = MailPtrs(b) \cup {m.ptr}
    <3>1. \A i \in 1 .. Len(b) : i \in 1 .. Len(c)
      BY <2>1
    <3>2. Len(b) + 1 \in 1 .. Len(c)
      BY <2>1
    <3> QED
      BY <2>1, <2>2, <3>1, <3>2 DEF MailPtrs
  <2> QED
    BY <2>1, <2>3, <2>4 DEF c
<1>2. ASSUME b # <<>>
      PROVE  /\ Head(b) \in MailType /\ Head(b).ptr \in MailPtrs(b)
             /\ Tail(b) \in Seq(MailType) /\ MailOnce(Tail(b))
             /\ MailPtrs(Tail(b)) = MailPtrs(b) \ {Head(b).ptr}
  <2> DEFINE c == Tail(b)
  <2>1. /\ Len(b) \in Nat /\ 1 <= Len(b) /\ Head(b) = b[1] /\ b[1] \in MailType
        /\ c \in Seq(MailType) /\ Len(c) = Len(b) - 1
        /\ \A i \in 1 .. Len(b) - 1 : c[i] = b[i + 1]
    BY <1>2, TailFacts
  <2> HIDE DEF c
  <2>2. 1 \in 1 .. Len(b) /\ Head(b).ptr \in MailPtrs(b)
    BY <2>1 DEF MailPtrs
  <2>3. \A i \in 1 .. Len(c) : i + 1 \in 1 .. Len(b) /\ i + 1 # 1 /\ c[i] = b[i + 1]
    BY <2>1
  <2>4. MailOnce(c)
    <3> SUFFICES ASSUME NEW i \in 1 .. Len(c), NEW j \in 1 .. Len(c), c[i].ptr = c[j].ptr
                 PROVE  i = j
      BY DEF MailOnce
    <3>1. i + 1 = j + 1
      BY <2>3 DEF MailOnce
    <3> QED
      BY <3>1
  <2>5. MailPtrs(c) \subseteq MailPtrs(b) \ {Head(b).ptr}
    BY <2>1, <2>2, <2>3 DEF MailPtrs, MailOnce
  <2>6. \A k \in 1 .. Len(b) : k = 1 \/ (k - 1 \in 1 .. Len(c) /\ c[k - 1] = b[k])
    <3> TAKE k \in 1 .. Len(b)
    <3>1. k # 1 => k - 1 \in 1 .. Len(c) /\ k - 1 \in 1 .. Len(b) - 1 /\ (k - 1) + 1 = k
      BY <2>1
    <3> QED
      BY <2>1, <3>1
  <2>7. MailPtrs(b) \ {Head(b).ptr} \subseteq MailPtrs(c)
    BY <2>1, <2>6 DEF MailPtrs
  <2> QED
    BY <2>1, <2>2, <2>4, <2>5, <2>7 DEF c
<1> QED
  BY <1>1, <1>2

\* Data is added to what is not read yet, and the first of it is read.
LEMMA UnreadFacts ==
    ASSUME NEW b \in Seq(Ptrs), Once(b)
    PROVE  /\ \A x \in Ptrs : x \notin {b[i] : i \in 1 .. Len(b)} =>
                 /\ Append(b, x) \in Seq(Ptrs) /\ Once(Append(b, x))
                 /\ {Append(b, x)[i] : i \in 1 .. Len(Append(b, x))}
                       = {b[i] : i \in 1 .. Len(b)} \cup {x}
           /\ b # <<>> =>
                 /\ Head(b) \in {b[i] : i \in 1 .. Len(b)}
                 /\ Tail(b) \in Seq(Ptrs) /\ Once(Tail(b))
                 /\ {Tail(b)[i] : i \in 1 .. Len(Tail(b))}
                       = {b[i] : i \in 1 .. Len(b)} \ {Head(b)}
<1>1. ASSUME NEW x \in Ptrs, x \notin {b[i] : i \in 1 .. Len(b)}
      PROVE  /\ Append(b, x) \in Seq(Ptrs) /\ Once(Append(b, x))
             /\ {Append(b, x)[i] : i \in 1 .. Len(Append(b, x))}
                   = {b[i] : i \in 1 .. Len(b)} \cup {x}
  <2> DEFINE c == Append(b, x)
  <2>1. /\ c \in Seq(Ptrs) /\ Len(c) = Len(b) + 1 /\ Len(b) \in Nat
        /\ \A i \in 1 .. Len(b) : c[i] = b[i]
        /\ c[Len(b) + 1] = x
    BY AppendFacts
  <2> HIDE DEF c
  <2>2. \A i \in 1 .. Len(c) :
           (i \in 1 .. Len(b) /\ c[i] = b[i]) \/ (i = Len(b) + 1 /\ c[i] = x)
    BY <2>1
  <2>3. Once(c)
    BY <1>1, <2>2 DEF Once
  <2>4. \A i \in 1 .. Len(b) : i \in 1 .. Len(c)
    BY <2>1
  <2>5. Len(b) + 1 \in 1 .. Len(c)
    BY <2>1
  <2>6. {c[i] : i \in 1 .. Len(c)} = {b[i] : i \in 1 .. Len(b)} \cup {x}
    BY <2>1, <2>2, <2>4, <2>5
  <2> QED
    BY <2>1, <2>3, <2>6 DEF c
<1>2. ASSUME b # <<>>
      PROVE  /\ Head(b) \in {b[i] : i \in 1 .. Len(b)}
             /\ Tail(b) \in Seq(Ptrs) /\ Once(Tail(b))
             /\ {Tail(b)[i] : i \in 1 .. Len(Tail(b))}
                   = {b[i] : i \in 1 .. Len(b)} \ {Head(b)}
  <2> DEFINE c == Tail(b)
  <2>1. /\ Len(b) \in Nat /\ 1 <= Len(b) /\ Head(b) = b[1]
        /\ c \in Seq(Ptrs) /\ Len(c) = Len(b) - 1
        /\ \A i \in 1 .. Len(b) - 1 : c[i] = b[i + 1]
    BY <1>2, TailFacts
  <2> HIDE DEF c
  <2>2. 1 \in 1 .. Len(b)
    BY <2>1
  <2>3. \A i \in 1 .. Len(c) : i + 1 \in 1 .. Len(b) /\ i + 1 # 1 /\ c[i] = b[i + 1]
    BY <2>1
  <2>4. Once(c)
    <3> SUFFICES ASSUME NEW i \in 1 .. Len(c), NEW j \in 1 .. Len(c), c[i] = c[j]
                 PROVE  i = j
      BY DEF Once
    <3>1. i + 1 = j + 1
      BY <2>3 DEF Once
    <3> QED
      BY <3>1
  <2>5. {c[i] : i \in 1 .. Len(c)} \subseteq {b[i] : i \in 1 .. Len(b)} \ {Head(b)}
    BY <2>1, <2>2, <2>3 DEF Once
  <2>6. \A k \in 1 .. Len(b) : k = 1 \/ (k - 1 \in 1 .. Len(c) /\ c[k - 1] = b[k])
    <3> TAKE k \in 1 .. Len(b)
    <3>1. k # 1 => k - 1 \in 1 .. Len(c) /\ k - 1 \in 1 .. Len(b) - 1 /\ (k - 1) + 1 = k
      BY <2>1
    <3> QED
      BY <2>1, <3>1
  <2>7. {b[i] : i \in 1 .. Len(b)} \ {Head(b)} \subseteq {c[i] : i \in 1 .. Len(c)}
    BY <2>1, <2>6
  <2> QED
    BY <2>1, <2>2, <2>4, <2>5, <2>7 DEF c
<1> QED
  BY <1>1, <1>2

\* A new frame is where no other one is.
LEMMA AllocFacts ==
    ASSUME Spare # {}
    PROVE  /\ Alloc \in Ptrs /\ Alloc \notin rxbufs
           /\ \A h \in HeldType : held = <<h>> => Alloc # h.ptr
<1>1. Spare \subseteq Nat
  BY BridgeAssumption DEF Spare
<1>2. Alloc \in Spare
  BY <1>1, LeastElement DEF Alloc, Min
<1>3. ASSUME NEW h \in HeldType, held = <<h>>
      PROVE  Alloc # h.ptr
  <2>1. h \in ToSet(held)
    BY <1>3 DEF ToSet
  <2> QED
    BY <1>2, <2>1 DEF Spare
<1> QED
  BY <1>2, <1>3 DEF Spare

\* TcpInput keeps the frame it is given or does not.
LEMMA TcpInputFacts ==
    ASSUME NEW c, ConnOk(c), NEW ptr \in Ptrs, NEW body \in Text
    PROVE  LET n == TcpInput(c, ptr, body).conn
           IN  /\ n = [st |-> n.st, rcvd |-> n.rcvd, pbufs |-> n.pbufs]
               /\ n.st \in {"none", "synrcvd", "est", "accepted"} /\ n.rcvd \in Nat
               /\ n.pbufs = c.pbufs \/ n.pbufs = Append(c.pbufs, ptr)
               /\ n.st \in {"none", "synrcvd"} => n.pbufs = <<>>
<1> DEFINE n == TcpInput(c, ptr, body).conn
           old == [st |-> c.st, rcvd |-> c.rcvd, pbufs |-> c.pbufs]
<1>1. c = old /\ c.st \in {"none", "synrcvd", "est", "accepted"} /\ c.rcvd \in Nat /\ c.pbufs \in Seq(Ptrs)
  BY DEF ConnOk, ConnType
<1>2. c.st \in {"none", "synrcvd"} => c.pbufs = <<>>
  BY DEF ConnOk
<1>3. CASE body = "syn" /\ c.st \in {"none", "synrcvd"}
  <2>1. n = [c EXCEPT !.st = "synrcvd"]
    BY <1>3 DEF TcpInput
  <2>2. n = [st |-> "synrcvd", rcvd |-> c.rcvd, pbufs |-> c.pbufs]
    BY <1>1, <2>1
  <2> QED
    BY <1>1, <1>2, <1>3, <2>2
<1>4. CASE body \in {"ack", "head"} /\ c.st = "synrcvd"
  <2>1. n = IF body = "ack" THEN [c EXCEPT !.st = "est"] ELSE [st |-> "est", rcvd |-> 1, pbufs |-> <<ptr>>]
    BY <1>4 DEF TcpInput
  <2>2. CASE body = "ack"
    <3>1. n = [st |-> "est", rcvd |-> c.rcvd, pbufs |-> c.pbufs]
      BY <1>1, <2>1, <2>2
    <3> QED
      BY <1>1, <3>1
  <2>3. CASE body # "ack"
    <3>1. n = [st |-> "est", rcvd |-> 1, pbufs |-> <<ptr>>]
      BY <2>1, <2>3
    <3>2. c.pbufs = <<>>
      BY <1>2, <1>4
    <3>3. Append(<<>>, ptr) = <<ptr>>
      OBVIOUS
    <3> QED
      BY <3>1, <3>2, <3>3
  <2> QED
    BY <2>2, <2>3
<1>5. CASE body \in {"head", "body"} /\ c.st \in {"est", "accepted"} /\ c.rcvd = Part(body) - 1
  <2>1. n = [c EXCEPT !.rcvd = Part(body), !.pbufs = Append(@, ptr)]
    BY <1>5 DEF TcpInput
  <2>2. n = [st |-> c.st, rcvd |-> Part(body), pbufs |-> Append(c.pbufs, ptr)]
    BY <1>1, <2>1
  <2>3. Part(body) \in Nat
    BY DEF Part
  <2> QED
    BY <1>1, <1>5, <2>2, <2>3
<1>6. CASE n = c
  BY <1>1, <1>2, <1>6
<1>7. \/ n = c \/ (body = "syn" /\ c.st \in {"none", "synrcvd"})
      \/ (body \in {"ack", "head"} /\ c.st = "synrcvd")
      \/ (body \in {"head", "body"} /\ c.st \in {"est", "accepted"} /\ c.rcvd = Part(body) - 1)
  BY DEF TcpInput
<1> QED
  BY <1>3, <1>4, <1>5, <1>6, <1>7

\* What becomes of a frame: it is taken out of RX_BUFS when it leaves the mailbox,
LEMMA FreeFromMail ==
    ASSUME NEW M, NEW U, NEW B, NEW H, Apart(M, U, B, H), NEW x \in M
    PROVE  Apart(M \ {x}, U, B \ {x}, H)
  BY DEF Apart

\* it becomes unread data,
LEMMA KeepUnread ==
    ASSUME NEW M, NEW U, NEW B, NEW H, Apart(M, U, B, H), NEW x \in M,
           NEW p \in Peers, NEW V,
           V[p] = U[p] \cup {x}, \A q \in Peers : q # p => V[q] = U[q]
    PROVE  Apart(M \ {x}, V, B, H)
<1>1. \A q \in Peers : (M \ {x}) \cap V[q] = {} /\ H \cap V[q] = {} /\ H \cap (M \ {x}) = {}
  BY DEF Apart
<1>2. ASSUME NEW q \in Peers, NEW r \in Peers, q # r
      PROVE  V[q] \cap V[r] = {}
  <2>1. x \notin U[q] /\ x \notin U[r] /\ U[q] \cap U[r] = {}
    BY <1>2 DEF Apart
  <2>2. (q # p => V[q] = U[q]) /\ (r # p => V[r] = U[r])
    OBVIOUS
  <2> QED
    BY <1>2, <2>1, <2>2
<1>3. \A y : (\E q \in Peers : y \in V[q]) <=> y = x \/ \E q \in Peers : y \in U[q]
  OBVIOUS
<1> QED
  BY <1>1, <1>2, <1>3 DEF Apart

\* some of the unread data is freed,
LEMMA FreeUnread ==
    ASSUME NEW M, NEW U, NEW B, NEW H, Apart(M, U, B, H), NEW S,
           NEW p \in Peers, NEW V, S \subseteq U[p],
           V[p] = U[p] \ S, \A q \in Peers : q # p => V[q] = U[q]
    PROVE  Apart(M, V, B \ S, H)
<1>1. \A q \in Peers : V[q] \subseteq U[q]
  OBVIOUS
<1>2. \A q \in Peers : V[q] = U[q] \ S
  BY DEF Apart
<1> QED
  BY <1>1, <1>2 DEF Apart

\* or a new one is in the mailbox at once, as an ARP reply is.
LEMMA NewMail ==
    ASSUME NEW M, NEW U, NEW B, NEW H, Apart(M, U, B, H), NEW x, x \notin B
    PROVE  Apart(M \cup {x}, U, B \cup {x}, H) /\ x \notin M /\ x \notin H
  BY DEF Apart

\* esp_inject: keep the frame, then hand it to lwIP or free it.
LEMMA InjectFacts ==
    ASSUME NEW M, NEW U, NEW B, NEW x
    PROVE  /\ Apart(M, U, B, {}) /\ x \notin B => Apart(M, U, B \cup {x}, {x})
           /\ Apart(M, U, B, {x}) => /\ Apart(M \cup {x}, U, B, {}) /\ x \notin M
                                     /\ Apart(M, U, B \ {x}, {})
  BY DEF Apart

\* lwIP sends packets: what it refers to stays sound, with the ARP reply or not.
LEMMA OutputKeeps ==
    ASSUME HeldOk(held), NEW l, NEW U, NEW bufs, Sound(l, U, bufs, held), bufs \subseteq rxbufs,
           NEW p \in Peers, NEW bodies, Output(l, bufs, p, bodies)
    PROVE  Sound(lwip', U, rxbufs', held)
<1> DEFINE w == [l.waiting EXCEPT ![p] = Last(bodies)]
<1>0. l = [mbox |-> l.mbox, arp |-> l.arp, waiting |-> l.waiting]
  BY DEF Sound
<1>1. CASE lwip' = l /\ rxbufs' = bufs
  BY <1>1
<1>2. CASE /\ lwip' = [l EXCEPT !.waiting[p] = Last(bodies), !.mbox = @]
           /\ rxbufs' = bufs
  <2>1. lwip' = [mbox |-> l.mbox, arp |-> l.arp, waiting |-> w]
    BY <1>0, <1>2
  <2>2. /\ lwip'.mbox = l.mbox
        /\ lwip' = [mbox |-> lwip'.mbox, arp |-> lwip'.arp, waiting |-> lwip'.waiting]
    BY <2>1
  <2> QED
    BY <1>2, <2>2 DEF Sound
<1>3. CASE /\ Spare # {}
           /\ lwip' = [l EXCEPT !.waiting[p] = Last(bodies),
                                !.mbox = Append(@, [ptr |-> Alloc, frame |-> Frame("arp", p, "reply")])]
           /\ rxbufs' = bufs \cup {Alloc}
  <2> DEFINE m == [ptr |-> Alloc, frame |-> Frame("arp", p, "reply")]
             b == Append(l.mbox, m)
  <2>1. /\ Alloc \in Ptrs /\ Alloc \notin rxbufs
        /\ \A h \in HeldType : held = <<h>> => Alloc # h.ptr
    BY <1>3, AllocFacts
  <2>2. m \in MailType /\ m.ptr = Alloc
    BY <2>1 DEF MailType, FrameType, Frame, Text
  <2>3. lwip' = [mbox |-> b, arp |-> l.arp, waiting |-> w]
    BY <1>0, <1>3
  <2>4. /\ lwip'.mbox = b
        /\ lwip' = [mbox |-> lwip'.mbox, arp |-> lwip'.arp, waiting |-> lwip'.waiting]
    BY <2>3
  <2>5. /\ l.mbox \in Seq(MailType) /\ MailOnce(l.mbox) /\ bufs \subseteq Ptrs
        /\ Apart(MailPtrs(l.mbox), U, bufs, InHand(held))
        /\ held # <<>> /\ held[1].step = 1 => held[1].ptr \notin bufs
    BY DEF Sound
  <2>6. Alloc \notin bufs
    BY <2>1
  <2> HIDE DEF m
  <2>7. /\ Apart(MailPtrs(l.mbox) \cup {Alloc}, U, bufs \cup {Alloc}, InHand(held))
        /\ Alloc \notin MailPtrs(l.mbox)
    BY <2>5, <2>6, NewMail
  <2>8. /\ b \in Seq(MailType) /\ MailOnce(b)
        /\ MailPtrs(b) = MailPtrs(l.mbox) \cup {Alloc}
    BY <2>2, <2>5, <2>7, MailFacts
  <2>9. held # <<>> /\ held[1].step = 1 => held[1].ptr \notin bufs \cup {Alloc}
    <3>1. ASSUME held # <<>>
          PROVE  \E h \in HeldType : held = <<h>> /\ held[1] = h
      BY <3>1 DEF HeldOk
    <3> QED
      BY <2>1, <2>5, <3>1
  <2> HIDE DEF b
  <2>10. rxbufs' = bufs \cup {Alloc} /\ bufs \cup {Alloc} \subseteq Ptrs
    BY <1>3, <2>1, <2>5
  <2> QED
    BY <2>4, <2>7, <2>8, <2>9, <2>10 DEF Sound
<1> QED
  BY <1>1, <1>2, <1>3 DEF Output

\* The connection of one peer changes.
Changed(cs, ds, p, c) == ds = [cs EXCEPT ![p] = c]
LEMMA ConnChange ==
    ASSUME NEW cs, ConnsOk(cs), NEW p \in Peers, NEW c, ConnOk(c), Once(c.pbufs),
           NEW ds, Changed(cs, ds, p, c)
    PROVE  /\ ConnsOk(ds)
           /\ Unread(ds)[p] = {c.pbufs[i] : i \in 1 .. Len(c.pbufs)}
           /\ \A q \in Peers : q # p => Unread(ds)[q] = Unread(cs)[q]
<1>1. ds = [q \in Peers |-> IF q = p THEN c ELSE cs[q]]
  BY DEF ConnsOk, Changed
<1>2. ds[p] = c /\ \A q \in Peers : q # p => ds[q] = cs[q]
  BY <1>1
<1>3. ds = [q \in Peers |-> ds[q]]
  BY <1>1
<1>4. ConnsOk(ds)
  BY <1>2, <1>3 DEF ConnsOk
<1>5. /\ Unread(ds)[p] = {c.pbufs[i] : i \in 1 .. Len(c.pbufs)}
      /\ \A q \in Peers : q # p => Unread(ds)[q] = Unread(cs)[q]
  BY <1>2 DEF Unread
<1> QED
  BY <1>4, <1>5

LEMMA ReceiveKeeps ==
    ASSUME BufMem, BufTypes, NEW p \in Peers, Receive(p)
    PROVE  BufMem'
<1>1. UNCHANGED <<lwip, conns, rxbufs>> /\ held = <<>> /\ Spare # {}
  BY DEF Receive, lwipVars
<1>2. CASE held' = <<>>
  BY <1>1, <1>2 DEF BufMem
<1>3. CASE held' = <<[ptr |-> Alloc, frame |-> Frame("ip", p, Head(up[p]).body), step |-> 1]>>
  <2> DEFINE h == [ptr |-> Alloc, frame |-> Frame("ip", p, Head(up[p]).body), step |-> 1]
  <2>1. Alloc \in Ptrs /\ Alloc \notin rxbufs
    BY <1>1, AllocFacts
  <2>2. Head(up[p]) \in UpType
    <3>1. up[p] \in Seq(UpType) /\ up[p] # <<>>
      BY DEF BufTypes, Receive
    <3> QED
      BY <3>1, TailFacts
  <2>3. h \in HeldType /\ h.step = 1 /\ h.ptr = Alloc
    BY <2>1, <2>2 DEF HeldType, FrameType, Frame, UpType
  <2> HIDE DEF h
  <2>4. held' = <<h>>
    BY <1>3 DEF h
  <2>5. HeldOk(<<h>>) /\ InHand(<<h>>) = {} /\ InHand(<<>>) = {}
    BY <2>3 DEF HeldOk, InHand
  <2>6. Sound(lwip, Unread(conns), rxbufs, <<>>)
    BY <1>1 DEF BufMem
  <2>7. Sound(lwip, Unread(conns), rxbufs, <<h>>)
    BY <2>1, <2>3, <2>5, <2>6 DEF Sound
  <2> QED
    BY <1>1, <2>4, <2>5, <2>7 DEF BufMem
<1> QED
  BY <1>1, <1>2, <1>3 DEF Receive

LEMMA InjectKeeps ==
    ASSUME BufMem, Inject
    PROVE  BufMem'
<1>1. PICK h \in HeldType : held = <<h>>
  BY DEF BufMem, HeldOk, Inject
<1>2. /\ h.step \in {1, 2} /\ h.ptr \in Ptrs /\ h.frame \in FrameType
      /\ h = [ptr |-> h.ptr, frame |-> h.frame, step |-> h.step]
  BY DEF HeldType
<1>3. Head(held) = h /\ held[1] = h /\ held # <<>>
  BY <1>1
<1>4. UNCHANGED conns
  BY DEF Inject
<1>5. /\ lwip = [mbox |-> lwip.mbox, arp |-> lwip.arp, waiting |-> lwip.waiting]
      /\ lwip.mbox \in Seq(MailType) /\ MailOnce(lwip.mbox) /\ rxbufs \subseteq Ptrs
      /\ Apart(MailPtrs(lwip.mbox), Unread(conns), rxbufs, InHand(held))
      /\ h.step = 1 => h.ptr \notin rxbufs
  BY <1>3 DEF BufMem, Sound
<1>6. CASE h.step = 1
  <2> DEFINE g == [h EXCEPT !.step = 2]
  <2>1. held' = <<g>> /\ rxbufs' = rxbufs \cup {h.ptr} /\ UNCHANGED lwip
    BY <1>3, <1>6 DEF Inject, EspInject
  <2>2. g = [ptr |-> h.ptr, frame |-> h.frame, step |-> 2]
    BY <1>2
  <2>3. g \in HeldType /\ g.step = 2 /\ g.ptr = h.ptr
    BY <1>2, <2>2 DEF HeldType
  <2> HIDE DEF g
  <2>4. HeldOk(<<g>>) /\ InHand(<<g>>) = {h.ptr} /\ InHand(held) = {}
    BY <1>1, <1>6, <2>3 DEF HeldOk, InHand
  <2>5. Apart(MailPtrs(lwip.mbox), Unread(conns), rxbufs \cup {h.ptr}, InHand(<<g>>))
    <3>1. Apart(MailPtrs(lwip.mbox), Unread(conns), rxbufs, {}) /\ h.ptr \notin rxbufs
      BY <1>5, <1>6, <2>4
    <3>2. Apart(MailPtrs(lwip.mbox), Unread(conns), rxbufs \cup {h.ptr}, {h.ptr})
      BY <3>1, InjectFacts, Zenon
    <3> QED
      BY <2>4, <3>2
  <2>6. rxbufs \cup {h.ptr} \subseteq Ptrs
    BY <1>2, <1>5
  <2>7. Sound(lwip, Unread(conns), rxbufs \cup {h.ptr}, <<g>>)
    <3>1. <<g>>[1].step # 1
      BY <2>3
    <3> QED
      BY <1>5, <2>5, <2>6, <3>1 DEF Sound
  <2> QED
    BY <1>4, <2>1, <2>4, <2>7 DEF BufMem
<1>7. CASE h.step = 2
  <2>1. held' = <<>> /\ InHand(held) = {h.ptr} /\ InHand(<<>>) = {} /\ HeldOk(<<>>)
    BY <1>3, <1>7 DEF Inject, InHand, HeldOk
  <2>2. /\ Apart(MailPtrs(lwip.mbox) \cup {h.ptr}, Unread(conns), rxbufs, {})
        /\ Apart(MailPtrs(lwip.mbox), Unread(conns), rxbufs \ {h.ptr}, {})
        /\ h.ptr \notin MailPtrs(lwip.mbox)
    <3>1. Apart(MailPtrs(lwip.mbox), Unread(conns), rxbufs, {h.ptr})
      BY <1>5, <2>1
    <3> QED
      BY <3>1, InjectFacts, Zenon
  <2>3. CASE UNCHANGED lwip /\ rxbufs' = rxbufs \ {h.ptr}
    <3>1. Sound(lwip, Unread(conns), rxbufs \ {h.ptr}, <<>>)
      BY <1>5, <2>1, <2>2 DEF Sound
    <3> QED
      BY <1>4, <2>1, <2>3, <3>1 DEF BufMem
  <2>4. CASE /\ lwip' = [lwip EXCEPT !.mbox = Append(@, [ptr |-> h.ptr, frame |-> h.frame])]
             /\ UNCHANGED rxbufs
    <3> DEFINE m == [ptr |-> h.ptr, frame |-> h.frame]
               b == Append(lwip.mbox, m)
    <3>1. lwip' = [mbox |-> b, arp |-> lwip.arp, waiting |-> lwip.waiting]
      BY <1>5, <2>4
    <3>2. /\ lwip' = [mbox |-> lwip'.mbox, arp |-> lwip'.arp, waiting |-> lwip'.waiting]
          /\ lwip'.mbox = b
      BY <3>1
    <3>3. m \in MailType /\ m.ptr = h.ptr
      BY <1>2 DEF MailType
    <3> HIDE DEF m
    <3>4. /\ b \in Seq(MailType) /\ MailOnce(b)
          /\ MailPtrs(b) = MailPtrs(lwip.mbox) \cup {h.ptr}
      BY <1>5, <2>2, <3>3, MailFacts
    <3> HIDE DEF b
    <3>5. Sound(lwip', Unread(conns), rxbufs, <<>>)
      BY <1>5, <2>1, <2>2, <3>2, <3>4 DEF Sound
    <3> QED
      BY <1>4, <2>1, <2>4, <3>5 DEF BufMem
  <2> QED
    BY <1>3, <1>7, <2>3, <2>4 DEF Inject, EspInject
<1> QED
  BY <1>2, <1>6, <1>7

LEMMA TcpipKeeps ==
    ASSUME BufMem, Tcpip
    PROVE  BufMem'
<1> DEFINE m == Head(lwip.mbox)
           x == m.ptr
           p == m.frame.peer
           l == [lwip EXCEPT !.mbox = Tail(@)]
           M == MailPtrs(lwip.mbox)
           U == Unread(conns)
           H == InHand(held)
<1>1. UNCHANGED held /\ HeldOk(held) /\ ConnsOk(conns)
  BY DEF Tcpip, dpVars, BufMem
<1>2. /\ lwip = [mbox |-> lwip.mbox, arp |-> lwip.arp, waiting |-> lwip.waiting]
      /\ lwip.mbox \in Seq(MailType) /\ MailOnce(lwip.mbox) /\ lwip.mbox # <<>>
      /\ Apart(M, U, rxbufs, H) /\ rxbufs \subseteq Ptrs
      /\ held # <<>> /\ held[1].step = 1 => held[1].ptr \notin rxbufs
  BY DEF BufMem, Sound, Tcpip
<1>3. /\ m \in MailType /\ x \in M
      /\ Tail(lwip.mbox) \in Seq(MailType) /\ MailOnce(Tail(lwip.mbox))
      /\ MailPtrs(Tail(lwip.mbox)) = M \ {x}
  BY <1>2, MailFacts
<1>4. /\ x \in Ptrs /\ p \in Peers /\ m.frame.body \in Text
  BY <1>3 DEF MailType, FrameType
<1>5. l = [mbox |-> Tail(lwip.mbox), arp |-> lwip.arp, waiting |-> lwip.waiting]
  <2>1. \A r, t : r = [mbox |-> r.mbox, arp |-> r.arp, waiting |-> r.waiting] =>
              [r EXCEPT !.mbox = t] = [mbox |-> t, arp |-> r.arp, waiting |-> r.waiting]
    OBVIOUS
  <2> QED
    BY <1>2, <2>1
<1>6. l.mbox = Tail(lwip.mbox) /\ l = [mbox |-> l.mbox, arp |-> l.arp, waiting |-> l.waiting]
  BY <1>5
<1> HIDE DEF m, x, p, M, U, H
<1>7. Apart(M \ {x}, U, rxbufs \ {x}, H)
  BY <1>2, <1>3, FreeFromMail, Zenon
<1>8. CASE /\ lwip' = [l EXCEPT !.arp = @ \cup {p}, !.waiting[p] = "none"]
           /\ rxbufs' = rxbufs \ {x} /\ UNCHANGED conns
  <2> DEFINE w == [l.waiting EXCEPT ![p] = "none"]
  <2>1. lwip' = [mbox |-> l.mbox, arp |-> l.arp \cup {p}, waiting |-> w]
    BY <1>6, <1>8
  <2>2. /\ lwip'.mbox = l.mbox
        /\ lwip' = [mbox |-> lwip'.mbox, arp |-> lwip'.arp, waiting |-> lwip'.waiting]
    BY <2>1
  <2> HIDE DEF l
  <2>3. Sound(lwip', U, rxbufs \ {x}, held)
    BY <1>2, <1>3, <1>6, <1>7, <2>2 DEF Sound, H
  <2> QED
    BY <1>1, <1>8, <2>3 DEF BufMem, U
<1>9. CASE LET r == TcpInput(conns[p], x, m.frame.body)
               kept == x \in ToSet(r.conn.pbufs)
           IN /\ conns' = [conns EXCEPT ![p] = r.conn]
              /\ Output(l, IF kept THEN rxbufs ELSE rxbufs \ {x}, p, r.out)
  <2> DEFINE r == TcpInput(conns[p], x, m.frame.body)
             c == conns[p]
             n == r.conn
             kept == x \in ToSet(n.pbufs)
             V == Unread(conns')
             B == IF kept THEN rxbufs ELSE rxbufs \ {x}
  <2>1. /\ conns' = [conns EXCEPT ![p] = n]
        /\ Output(l, B, p, r.out)
    BY <1>9
  <2>2. ConnOk(c) /\ Once(c.pbufs) /\ c.pbufs \in Seq(Ptrs) /\ U[p] = {c.pbufs[i] : i \in 1 .. Len(c.pbufs)}
    BY <1>1, <1>4 DEF ConnsOk, ConnOk, ConnType, Unread, U
  <2>3. x \notin U[p]
    BY <1>2, <1>3, <1>4 DEF Apart
  <2>4. /\ n = [st |-> n.st, rcvd |-> n.rcvd, pbufs |-> n.pbufs]
        /\ n.st \in {"none", "synrcvd", "est", "accepted"} /\ n.rcvd \in Nat
        /\ n.pbufs = c.pbufs \/ n.pbufs = Append(c.pbufs, x)
        /\ n.st \in {"none", "synrcvd"} => n.pbufs = <<>>
    BY <1>4, <2>2, TcpInputFacts
  <2> HIDE DEF r, c, n, V, l
  <2>5. /\ n.pbufs \in Seq(Ptrs) /\ Once(n.pbufs)
        /\ \/ kept /\ {n.pbufs[i] : i \in 1 .. Len(n.pbufs)} = U[p] \cup {x}
           \/ ~kept /\ {n.pbufs[i] : i \in 1 .. Len(n.pbufs)} = U[p]
    <3>1. ASSUME n.pbufs \in Seq(Ptrs)
          PROVE  kept = (x \in {n.pbufs[i] : i \in 1 .. Len(n.pbufs)})
      <4>1. DOMAIN n.pbufs = 1 .. Len(n.pbufs)
        BY <3>1, LenProperties
      <4> QED
        BY <4>1 DEF ToSet
    <3>2. CASE n.pbufs = c.pbufs
      BY <2>2, <2>3, <3>1, <3>2
    <3>3. CASE n.pbufs = Append(c.pbufs, x)
      <4>1. /\ Append(c.pbufs, x) \in Seq(Ptrs) /\ Once(Append(c.pbufs, x))
            /\ {Append(c.pbufs, x)[i] : i \in 1 .. Len(Append(c.pbufs, x))}
                  = {c.pbufs[i] : i \in 1 .. Len(c.pbufs)} \cup {x}
        BY <1>4, <2>2, <2>3, UnreadFacts
      <4> QED
        BY <2>2, <3>1, <3>3, <4>1
    <3> QED
      BY <2>4, <3>2, <3>3
  <2>6. ConnOk(n)
    BY <2>4, <2>5 DEF ConnOk, ConnType
  <2>7. /\ ConnsOk(conns')
        /\ V[p] = {n.pbufs[i] : i \in 1 .. Len(n.pbufs)}
        /\ \A q \in Peers : q # p => V[q] = U[q]
    <3>1. Changed(conns, conns', p, n)
      BY <2>1 DEF Changed
    <3>2. /\ ConnsOk(conns')
          /\ Unread(conns')[p] = {n.pbufs[i] : i \in 1 .. Len(n.pbufs)}
          /\ \A q \in Peers : q # p => Unread(conns')[q] = Unread(conns)[q]
      BY <1>1, <1>4, <2>5, <2>6, <3>1, ConnChange
    <3> QED
      BY <3>2 DEF V, U
  <2> HIDE DEF kept
  <2>8. Apart(M \ {x}, V, B, H)
    <3>1. CASE kept
      <4>1. V[p] = U[p] \cup {x} /\ B = rxbufs
        BY <2>5, <2>7, <3>1
      <4> HIDE DEF B
      <4>2. Apart(M \ {x}, V, rxbufs, H)
        BY <1>2, <1>3, <1>4, <2>7, <4>1, KeepUnread
      <4> QED
        BY <4>1, <4>2
    <3>2. CASE ~kept
      <4>1. B = rxbufs \ {x} /\ \A q \in Peers : V[q] = U[q]
        BY <2>5, <2>7, <3>2
      <4> QED
        BY <1>7, <4>1 DEF Apart
    <3> QED
      BY <3>1, <3>2
  <2>9. B \subseteq rxbufs
    OBVIOUS
  <2> HIDE DEF B
  <2>10. Sound(l, V, B, held)
    BY <1>2, <1>3, <1>6, <2>8, <2>9 DEF Sound, H
  <2>11. Sound(lwip', V, rxbufs', held)
    BY <1>1, <1>4, <2>1, <2>9, <2>10, OutputKeeps
  <2> QED
    BY <1>1, <2>7, <2>11 DEF BufMem, V
<1> QED
  BY <1>8, <1>9 DEF Tcpip, m, x, p

LEMMA AcceptKeeps ==
    ASSUME BufMem, NEW p \in Peers, Accept(p)
    PROVE  BufMem'
<1> DEFINE c == conns[p]
           n == [c EXCEPT !.st = "accepted"]
<1>1. UNCHANGED <<held, lwip, rxbufs>> /\ ConnsOk(conns)
  BY DEF Accept, dpVars, BufMem
<1>2. c = [st |-> c.st, rcvd |-> c.rcvd, pbufs |-> c.pbufs] /\ ConnOk(c) /\ Once(c.pbufs)
  BY <1>1 DEF ConnsOk, ConnOk, ConnType
<1>3. n = [st |-> "accepted", rcvd |-> c.rcvd, pbufs |-> c.pbufs]
  BY <1>2
<1>4. conns' = [conns EXCEPT ![p] = n]
  BY DEF Accept
<1>5. ConnOk(n) /\ n.pbufs = c.pbufs
  BY <1>2, <1>3 DEF ConnOk, ConnType
<1> HIDE DEF n
<1>6. /\ ConnsOk(conns')
      /\ Unread(conns')[p] = {c.pbufs[i] : i \in 1 .. Len(c.pbufs)}
      /\ \A q \in Peers : q # p => Unread(conns')[q] = Unread(conns)[q]
  <2>1. Once(n.pbufs)
    BY <1>2, <1>5
  <2>2. /\ ConnsOk(conns')
        /\ Unread(conns')[p] = {n.pbufs[i] : i \in 1 .. Len(n.pbufs)}
        /\ \A q \in Peers : q # p => Unread(conns')[q] = Unread(conns)[q]
    <3>1. Changed(conns, conns', p, n)
      BY <1>4 DEF Changed
    <3> QED
      BY <1>1, <1>5, <2>1, <3>1, ConnChange
  <2> QED
    BY <1>5, <2>2
<1>7. \A q \in Peers : Unread(conns')[q] = Unread(conns)[q]
  <2>1. Unread(conns)[p] = {c.pbufs[i] : i \in 1 .. Len(c.pbufs)}
    BY DEF Unread
  <2> QED
    BY <1>6, <2>1
<1>8. Unread(conns') = Unread(conns)
  BY <1>7 DEF Unread
<1> QED
  BY <1>1, <1>6, <1>8 DEF BufMem

\* The server closes a connection: what was not read of it is freed.
LEMMA CloseKeeps ==
    ASSUME BufMem, worker.peer \in Peers, UNCHANGED held, NEW bodies, NEW bufs,
           bufs \subseteq rxbufs, rxbufs \ bufs \subseteq Unread(conns)[worker.peer],
           CloseAfter(bodies, bufs)
    PROVE  BufMem'
<1> DEFINE p == worker.peer
           U == Unread(conns)
           V == Unread(conns')
           M == MailPtrs(lwip.mbox)
           H == InHand(held)
           B == bufs \ ToSet(conns[p].pbufs)
<1>1. /\ Output(lwip, B, p, Append(bodies, "rst"))
      /\ conns' = [conns EXCEPT ![p] = NoConn]
  BY DEF CloseAfter
<1>2. HeldOk(held) /\ ConnsOk(conns)
  BY DEF BufMem
<1>3. /\ lwip = [mbox |-> lwip.mbox, arp |-> lwip.arp, waiting |-> lwip.waiting]
      /\ lwip.mbox \in Seq(MailType) /\ MailOnce(lwip.mbox)
      /\ Apart(M, U, rxbufs, H) /\ rxbufs \subseteq Ptrs
      /\ held # <<>> /\ held[1].step = 1 => held[1].ptr \notin rxbufs
  BY DEF BufMem, Sound
<1>4. B = rxbufs \ U[p]
  <2>1. conns[p].pbufs \in Seq(Ptrs)
    BY <1>2 DEF ConnsOk, ConnOk, ConnType
  <2>2. DOMAIN conns[p].pbufs = 1 .. Len(conns[p].pbufs)
    BY <2>1, LenProperties
  <2>3. ToSet(conns[p].pbufs) = U[p]
    BY <2>2 DEF ToSet, Unread
  <2> QED
    BY <2>3
<1>5. /\ ConnsOk(conns') /\ V[p] = {}
      /\ \A q \in Peers : q # p => V[q] = U[q]
  <2> DEFINE c == NoConn
  <2>1. c.pbufs = <<>> /\ ConnOk(c) /\ Once(c.pbufs)
    <3>1. <<>> \in Seq(Ptrs)
      OBVIOUS
    <3>2. c.pbufs = <<>> /\ c \in ConnType
      BY <3>1 DEF NoConn, ConnType
    <3> QED
      BY <3>2 DEF ConnOk, Once
  <2>2. Changed(conns, conns', p, c)
    BY <1>1 DEF Changed
  <2> HIDE DEF c
  <2>3. /\ ConnsOk(conns')
        /\ Unread(conns')[p] = {c.pbufs[i] : i \in 1 .. Len(c.pbufs)}
        /\ \A q \in Peers : q # p => Unread(conns')[q] = Unread(conns)[q]
    BY <1>2, <2>1, <2>2, ConnChange
  <2>4. {c.pbufs[i] : i \in 1 .. Len(c.pbufs)} = {}
    BY <2>1
  <2> QED
    BY <2>3, <2>4
<1> HIDE DEF p, U, V, M, H, B
<1>6. Apart(M, V, B, H)
  <2> DEFINE S == U[p]
  <2>1. V[p] = U[p] \ S /\ S \subseteq U[p] /\ p \in Peers
    BY <1>5 DEF p
  <2> HIDE DEF S
  <2>2. Apart(M, V, rxbufs \ S, H)
    BY <1>3, <1>5, <2>1, FreeUnread
  <2> QED
    BY <1>4, <2>2 DEF S
<1>7. B \subseteq rxbufs
  BY <1>4
<1>8. Sound(lwip, V, B, held)
  BY <1>3, <1>6, <1>7 DEF Sound, M, H
<1>9. Sound(lwip', V, rxbufs', held)
  <2>1. p \in Peers
    BY DEF p
  <2> QED
    BY <1>1, <1>2, <1>7, <1>8, <2>1, OutputKeeps
<1> QED
  BY <1>2, <1>5, <1>9 DEF BufMem, V

LEMMA ReadKeeps ==
    ASSUME BufMem, BufTypes, Read
    PROVE  BufMem'
<1> DEFINE p == worker.peer
           c == conns[p]
           rest == rxbufs \ {Head(c.pbufs)}
           U == Unread(conns)
           V == Unread(conns')
<1>1. /\ p \in Peers /\ UNCHANGED held /\ c.pbufs # <<>>
      /\ HeldOk(held) /\ ConnsOk(conns)
  BY DEF BufTypes, Read, BufMem, dpVars
<1>2. /\ c = [st |-> c.st, rcvd |-> c.rcvd, pbufs |-> c.pbufs]
      /\ ConnOk(c) /\ Once(c.pbufs) /\ c.pbufs \in Seq(Ptrs)
      /\ U[p] = {c.pbufs[i] : i \in 1 .. Len(c.pbufs)}
  BY <1>1 DEF ConnsOk, ConnOk, ConnType, Unread
<1>3. /\ Head(c.pbufs) \in U[p] /\ Tail(c.pbufs) \in Seq(Ptrs) /\ Once(Tail(c.pbufs))
      /\ {Tail(c.pbufs)[i] : i \in 1 .. Len(Tail(c.pbufs))} = U[p] \ {Head(c.pbufs)}
  BY <1>1, <1>2, UnreadFacts
<1>4. CASE CloseAfter(<<"resp">>, rest)
  BY <1>1, <1>3, <1>4, CloseKeeps
<1>5. CASE /\ conns' = [conns EXCEPT ![p].pbufs = Tail(@)]
           /\ rxbufs' = rest /\ UNCHANGED lwip
  <2> DEFINE t == Tail(c.pbufs)
             n == [st |-> c.st, rcvd |-> c.rcvd, pbufs |-> t]
  <2>1. n = [c EXCEPT !.pbufs = t]
    <3>1. \A r, u : r = [st |-> r.st, rcvd |-> r.rcvd, pbufs |-> r.pbufs] =>
                [st |-> r.st, rcvd |-> r.rcvd, pbufs |-> u] = [r EXCEPT !.pbufs = u]
      OBVIOUS
    <3> QED
      BY <1>2, <3>1
  <2>2. n.pbufs = t /\ n.st = c.st /\ n.rcvd = c.rcvd
    OBVIOUS
  <2>3. ConnOk(n) /\ Once(n.pbufs)
    <3>1. n \in ConnType
      BY <1>2, <1>3 DEF ConnOk, ConnType
    <3>2. c.st \notin {"none", "synrcvd"}
      BY <1>1, <1>2 DEF ConnOk
    <3> QED
      BY <1>3, <2>2, <3>1, <3>2 DEF ConnOk
  <2>4. Changed(conns, conns', p, n)
    <3>1. conns' = [conns EXCEPT ![p] = [c EXCEPT !.pbufs = t]]
      BY <1>5
    <3> QED
      BY <2>1, <3>1 DEF Changed
  <2> HIDE DEF n
  <2>5. /\ ConnsOk(conns')
        /\ V[p] = {n.pbufs[i] : i \in 1 .. Len(n.pbufs)}
        /\ \A q \in Peers : q # p => V[q] = U[q]
    BY <1>1, <2>3, <2>4, ConnChange
  <2>6. V[p] = U[p] \ {Head(c.pbufs)} /\ {Head(c.pbufs)} \subseteq U[p]
    BY <1>3, <2>2, <2>5
  <2>7. Sound(lwip, U, rxbufs, held)
    BY DEF BufMem
  <2> HIDE DEF U, V, c, p
  <2>8. Apart(MailPtrs(lwip.mbox), V, rest, InHand(held))
    BY <1>1, <2>5, <2>6, <2>7, FreeUnread DEF Sound
  <2>9. Sound(lwip, V, rest, held)
    BY <2>7, <2>8 DEF Sound
  <2> QED
    BY <1>1, <1>5, <2>5, <2>9 DEF BufMem, V
<1> QED
  BY <1>4, <1>5 DEF Read

LEMMA GiveUpKeeps ==
    ASSUME BufMem, BufTypes, GiveUp
    PROVE  BufMem'
<1>1. worker.peer \in Peers /\ UNCHANGED held
  BY DEF BufTypes, GiveUp, ReadTimeout, dpVars
<1>2. PICK bodies : CloseAfter(bodies, rxbufs)
  BY DEF GiveUp
<1> QED
  BY <1>1, <1>2, CloseKeeps

\* Nothing lwIP had survives a reset, nor does any frame.
LEMMA EmptyMem ==
    ASSUME NEW c, c = [p \in Peers |-> NoConn]
    PROVE  HeldOk(<<>>) /\ Sound(NoLwip, Unread(c), {}, <<>>) /\ ConnsOk(c)
<1>1. <<>> \in Seq(Ptrs) /\ <<>> \in Seq(MailType)
  OBVIOUS
<1>2. NoConn.pbufs = <<>> /\ NoConn \in ConnType
  BY <1>1 DEF NoConn, ConnType
<1>3. ConnsOk(c)
  BY <1>2 DEF ConnsOk, ConnOk, Once
<1>4. \A p \in Peers : Unread(c)[p] = {}
  BY <1>2 DEF Unread
<1>5. /\ NoLwip = [mbox |-> <<>>, arp |-> NoLwip.arp, waiting |-> NoLwip.waiting]
      /\ NoLwip.mbox = <<>>
  BY DEF NoLwip
<1>6. MailPtrs(<<>>) = {} /\ MailOnce(<<>>) /\ InHand(<<>>) = {} /\ HeldOk(<<>>)
  BY DEF MailPtrs, MailOnce, InHand, HeldOk
<1>7. Apart({}, Unread(c), {}, {})
  BY <1>4 DEF Apart
<1> QED
  BY <1>1, <1>3, <1>5, <1>6, <1>7 DEF Sound

LEMMA MemStep == BufMem /\ BufTypes /\ [Next]_vars => BufMem'
<1> SUFFICES ASSUME BufMem, BufTypes, [Next]_vars
             PROVE  BufMem'
  OBVIOUS
<1>1. CASE UNCHANGED <<held, lwip, rxbufs, conns>>
  BY <1>1 DEF BufMem
<1>2. CASE Reset
  <2>1. /\ held' = <<>> /\ rxbufs' = {} /\ lwip' = NoLwip
        /\ conns' = [p \in Peers |-> NoConn]
    BY <1>2 DEF Reset
  <2>2. /\ HeldOk(held') /\ Sound(lwip', Unread(conns'), rxbufs', held')
        /\ ConnsOk(conns')
    BY <2>1, EmptyMem
  <2> QED
    BY <2>2 DEF BufMem
<1>3. CASE Boot \/ Stable \/ PowerCut
  BY <1>1, <1>2, <1>3 DEF Boot, Skip, Attempt, Create, Panic, Stable, PowerCut, dpVars, lwipVars
<1>4. CASE DrainTx \/ TakeJob \/ UNCHANGED vars
  BY <1>1, <1>4 DEF DrainTx, TakeJob, vars, dpVars, lwipVars
<1>5. CASE Inject \/ Tcpip \/ Read \/ GiveUp
  BY <1>5, InjectKeeps, TcpipKeeps, ReadKeeps, GiveUpKeeps
<1>6. CASE \E p \in Peers : Receive(p) \/ Accept(p)
  BY <1>6, ReceiveKeeps, AcceptKeeps
<1>7. CASE \E p \in Peers : Handshake(p) \/ Request(p) \/ ClientReceive(p) \/ Lose(p)
  BY <1>1, <1>7 DEF Handshake, Request, ClientReceive, Lose, dpVars, lwipVars
<1> QED
  BY <1>3, <1>4, <1>5, <1>6, <1>7 DEF Next

\* What the peers have under way, and the work of the server, keep their types.
LEMMA SendsFacts ==
    ASSUME BufTypes, NEW p \in Peers, NEW bodies \in Seq(Text), Sends(p, bodies)
    PROVE  up' \in [Peers -> Seq(UpType)]
<1> DEFINE new == [i \in DOMAIN bodies |-> [tun |-> client[p].tun, body |-> bodies[i]]]
<1>1. client[p].tun \in 0 .. TunMax /\ up[p] \in Seq(UpType)
  BY DEF BufTypes
<1>2. Len(bodies) \in Nat /\ DOMAIN bodies = 1 .. Len(bodies) /\ \A i \in 1 .. Len(bodies) : bodies[i] \in Text
  BY LenProperties
<1>3. new \in [1 .. Len(bodies) -> UpType]
  BY <1>1, <1>2 DEF UpType
<1> HIDE DEF new
<1>4. new \in Seq(UpType)
  BY <1>2, <1>3, SeqDef
<1>5. up[p] \o new \in Seq(UpType)
  BY <1>1, <1>4, ConcatFacts
<1>6. up' = [up EXCEPT ![p] = up[p] \o new]
  BY DEF Sends, new
<1> QED
  BY <1>5, <1>6 DEF BufTypes

LEMMA TypesStep == BufTypes /\ [Next]_vars => BufTypes'
<1> SUFFICES ASSUME BufTypes, [Next]_vars
             PROVE  BufTypes'
  OBVIOUS
<1> DEFINE ClientSt == {"idle", "done", "syn", "open", "est"}
<1>1. up' \in [Peers -> Seq(UpType)]
  <2>1. CASE UNCHANGED up
    BY <2>1 DEF BufTypes
  <2>2. CASE \E p \in Peers : up[p] # <<>> /\ up' = [up EXCEPT ![p] = Tail(@)]
    <3>1. PICK p \in Peers : up[p] # <<>> /\ up' = [up EXCEPT ![p] = Tail(up[p])]
      BY <2>2
    <3>2. Tail(up[p]) \in Seq(UpType)
      BY <3>1, TailFacts DEF BufTypes
    <3> QED
      BY <3>1, <3>2 DEF BufTypes
  <2>3. CASE \E p \in Peers, bodies \in Seq(Text) : Sends(p, bodies)
    BY <2>3, SendsFacts
  <2>4. <<"syn">> \in Seq(Text) /\ <<"ack">> \in Seq(Text) /\ <<"head", "body">> \in Seq(Text)
    BY DEF Text
  <2>5. CASE \E p \in Peers : Request(p) \/ ClientReceive(p)
    BY <2>1, <2>3, <2>4, <2>5 DEF Request, ClientReceive
  <2>6. CASE \E p \in Peers : Receive(p) \/ Accept(p) \/ Handshake(p) \/ Lose(p)
    BY <2>1, <2>2, <2>6 DEF Receive, Accept, Handshake, Lose, netVars
  <2>7. CASE Boot \/ Stable \/ PowerCut
    BY <2>1, <2>7 DEF Boot, Skip, Attempt, Create, Panic, Stable, PowerCut, Reset, netVars
  <2>8. CASE Inject \/ DrainTx \/ Tcpip \/ TakeJob \/ Read \/ GiveUp \/ UNCHANGED vars
    BY <2>1, <2>8 DEF Inject, DrainTx, Tcpip, TakeJob, Read, GiveUp, vars, netVars
  <2> QED
    BY <2>5, <2>6, <2>7, <2>8 DEF Next
<1>2. client' \in [Peers -> [st : ClientSt, tun : 0 .. TunMax]]
  <2>1. CASE UNCHANGED client
    BY <2>1 DEF BufTypes
  <2>2. CASE \E p \in Peers, s \in ClientSt : client' = [client EXCEPT ![p].st = s]
    <3>1. PICK p \in Peers, s \in ClientSt : client' = [client EXCEPT ![p].st = s]
      BY <2>2
    <3> DEFINE c == [client[p] EXCEPT !.st = s]
    <3>2. c \in [st : ClientSt, tun : 0 .. TunMax]
      BY <3>1 DEF BufTypes
    <3>3. client' = [client EXCEPT ![p] = c]
      BY <3>1
    <3> HIDE DEF c
    <3> QED
      BY <3>2, <3>3 DEF BufTypes
  <2>3. CASE \E p \in Peers : NewTunnel(p)
    <3>1. PICK p \in Peers : NewTunnel(p)
      BY <2>3
    <3> DEFINE used == {routes[p], client[p].tun} \cup {m.tun : m \in ToSet(up[p] \o down[p])}
               t == Min(1 .. TunMax \ used)
    <3>2. 1 .. TunMax \ used # {} /\ client' = [client EXCEPT ![p].tun = t]
      BY <3>1 DEF NewTunnel
    <3> HIDE DEF used
    <3>3. 1 .. TunMax \ used \subseteq Nat
      OBVIOUS
    <3>4. t \in 1 .. TunMax \ used
      BY <3>2, <3>3, LeastElement DEF Min
    <3> HIDE DEF t
    <3>5. t \in 0 .. TunMax
      BY <3>4
    <3> QED
      BY <3>2, <3>5 DEF BufTypes
  <2>4. CASE \E p \in Peers : Request(p) \/ ClientReceive(p)
    BY <2>1, <2>2, <2>4 DEF Request, ClientReceive
  <2>5. CASE \E p \in Peers : Receive(p) \/ Accept(p) \/ Handshake(p) \/ Lose(p)
    BY <2>1, <2>3, <2>5 DEF Receive, Accept, Handshake, Lose, netVars
  <2>6. CASE Boot \/ Stable \/ PowerCut
    BY <2>1, <2>6 DEF Boot, Skip, Attempt, Create, Panic, Stable, PowerCut, Reset, netVars
  <2>7. CASE Inject \/ DrainTx \/ Tcpip \/ TakeJob \/ Read \/ GiveUp \/ UNCHANGED vars
    BY <2>1, <2>7 DEF Inject, DrainTx, Tcpip, TakeJob, Read, GiveUp, vars, netVars
  <2> QED
    BY <2>4, <2>5, <2>6, <2>7 DEF Next
<1>3. queue' \in Seq(Peers) /\ (worker' = NoWorker \/ worker' \in [peer : Peers, got : Nat])
  <2>1. queue \in Seq(Peers) /\ (worker = NoWorker \/ worker \in [peer : Peers, got : Nat])
    BY DEF BufTypes
  <2>2. CASE UNCHANGED <<queue, worker>>
    BY <2>1, <2>2
  <2>3. CASE queue' = <<>> /\ worker' = NoWorker
    <3>1. <<>> \in Seq(Peers)
      OBVIOUS
    <3> QED
      BY <2>3, <3>1
  <2>4. CASE \E p \in Peers : Accept(p)
    BY <2>1, <2>4, AppendFacts DEF Accept
  <2>5. CASE TakeJob
    <3>1. Head(queue) \in Peers /\ Tail(queue) \in Seq(Peers)
      BY <2>1, <2>5, TailFacts DEF TakeJob
    <3> QED
      BY <2>5, <3>1 DEF TakeJob
  <2>6. CASE Read \/ GiveUp
    <3>1. worker # NoWorker /\ UNCHANGED queue
      BY <2>6 DEF Read, GiveUp, ReadTimeout
    <3>2. \/ worker' = NoWorker \/ worker' = [worker EXCEPT !.got = @ + 1]
      BY <2>6 DEF Read, GiveUp, CloseAfter
    <3> QED
      BY <2>1, <3>1, <3>2
  <2>7. CASE Boot \/ Stable \/ PowerCut
    BY <2>2, <2>3, <2>7 DEF Boot, Skip, Attempt, Create, Panic, Stable, PowerCut, Reset, srvVars
  <2>8. CASE Inject \/ DrainTx \/ Tcpip \/ UNCHANGED vars
    BY <2>2, <2>8 DEF Inject, DrainTx, Tcpip, vars, srvVars
  <2>9. CASE \E p \in Peers : Receive(p) \/ Handshake(p) \/ Request(p) \/ ClientReceive(p) \/ Lose(p)
    BY <2>2, <2>9 DEF Receive, Handshake, Request, ClientReceive, Lose, srvVars
  <2> QED
    BY <2>4, <2>5, <2>6, <2>7, <2>8, <2>9 DEF Next
<1> QED
  BY <1>1, <1>2, <1>3 DEF BufTypes

\* The references are the frames in the mailbox and those that are not read yet.
LEMMA LiveFromMem == BufMem => BuffersLive
<1> SUFFICES ASSUME BufMem
             PROVE  BuffersLive
  OBVIOUS
<1> DEFINE b == lwip.mbox
           c(p) == conns[p].pbufs
           M == MailPtrs(b)
           U == Unread(conns)
<1>1. /\ b \in Seq(MailType) /\ MailOnce(b)
      /\ Apart(M, U, rxbufs, InHand(held))
  BY DEF BufMem, Sound
<1>2. \A p \in Peers : c(p) \in Seq(Ptrs) /\ Once(c(p)) /\ U[p] = {c(p)[i] : i \in 1 .. Len(c(p))}
  BY DEF BufMem, ConnsOk, ConnOk, ConnType, Unread
<1>3. DOMAIN b = 1 .. Len(b) /\ \A p \in Peers : DOMAIN c(p) = 1 .. Len(c(p))
  BY <1>1, <1>2, LenProperties
<1>4. None \notin Peers
  BY BridgeAssumption
<1> DEFINE InMail(r) == \E i \in 1 .. Len(b) : r = <<None, i>> /\ Referenced[r] = b[i].ptr
           InData(r) == \E p \in Peers : \E i \in 1 .. Len(c(p)) :
                           r = <<p, i>> /\ Referenced[r] = c(p)[i]
<1>5. DOMAIN Referenced = References
  BY DEF Referenced
<1>6. \A r \in References : InMail(r) \/ InData(r)
  <2> SUFFICES ASSUME NEW r \in References
               PROVE  InMail(r) \/ InData(r)
    OBVIOUS
  <2>1. Referenced[r] = IF r[1] = None THEN b[r[2]].ptr ELSE conns[r[1]].pbufs[r[2]]
    BY DEF Referenced
  <2>2. \/ \E i \in 1 .. Len(b) : r = <<None, i>>
        \/ \E p \in Peers : \E i \in 1 .. Len(c(p)) : r = <<p, i>>
    BY <1>3 DEF References
  <2>3. CASE \E i \in 1 .. Len(b) : r = <<None, i>>
    BY <2>1, <2>3
  <2>4. CASE \E p \in Peers : \E i \in 1 .. Len(c(p)) : r = <<p, i>>
    <3>1. PICK p \in Peers : \E i \in 1 .. Len(c(p)) : r = <<p, i>>
      BY <2>4
    <3>2. PICK i \in 1 .. Len(c(p)) : r = <<p, i>>
      BY <3>1
    <3>3. r[1] = p /\ r[2] = i /\ p # None
      BY <1>4, <3>2
    <3>4. Referenced[r] = c(p)[i]
      BY <2>1, <3>3
    <3> QED
      BY <3>2, <3>4
  <2> QED
    BY <2>2, <2>3, <2>4
<1>7. \A i \in 1 .. Len(b) : <<None, i>> \in References /\ Referenced[<<None, i>>] = b[i].ptr
  BY <1>3 DEF References, Referenced
<1>8. \A p \in Peers : \A i \in 1 .. Len(c(p)) :
         <<p, i>> \in References /\ Referenced[<<p, i>>] = c(p)[i]
  BY <1>3, <1>4 DEF References, Referenced
<1>9. Range(Referenced) = {x \in rxbufs : x \in M \/ \E p \in Peers : x \in U[p]}
  <2>1. ASSUME NEW r \in References
        PROVE  Referenced[r] \in M \/ \E p \in Peers : Referenced[r] \in U[p]
    BY <1>2, <1>6 DEF MailPtrs
  <2>2. ASSUME NEW x \in M
        PROVE  \E r \in References : Referenced[r] = x
    BY <1>7 DEF MailPtrs
  <2>3. ASSUME NEW p \in Peers, NEW x \in U[p]
        PROVE  \E r \in References : Referenced[r] = x
    <3>1. PICK i \in 1 .. Len(c(p)) : c(p)[i] = x
      BY <1>2
    <3> QED
      BY <1>8, <3>1
  <2>4. \A x : x \in M \/ (\E p \in Peers : x \in U[p]) => x \in rxbufs
    BY <1>1 DEF Apart
  <2>5. Range(Referenced) = {Referenced[r] : r \in References}
    BY <1>5 DEF Range
  <2> HIDE DEF M, U
  <2> QED
    BY <2>1, <2>3, <2>2, <2>4, <2>5
<1>10. IsInjective(Referenced)
  <2>1. ASSUME NEW r \in References, NEW s \in References, Referenced[r] = Referenced[s]
        PROVE  r = s
    <3>1. ASSUME NEW i \in 1 .. Len(b), NEW j \in 1 .. Len(b), b[i].ptr = b[j].ptr
          PROVE  i = j
      BY <1>1, <3>1 DEF MailOnce
    <3>2. ASSUME NEW p \in Peers, NEW i \in 1 .. Len(c(p)), NEW j \in 1 .. Len(c(p)),
                 c(p)[i] = c(p)[j]
          PROVE  i = j
      BY <1>2, <3>2 DEF Once
    <3>3. ASSUME NEW p \in Peers, NEW q \in Peers, NEW i \in 1 .. Len(c(p)), NEW j \in 1 .. Len(c(q)),
                 c(p)[i] = c(q)[j]
          PROVE  p = q
      <4>1. c(p)[i] \in U[p] /\ c(q)[j] \in U[q]
        BY <1>2
      <4> HIDE DEF c, U
      <4> QED
        BY <1>1, <3>3, <4>1 DEF Apart
    <3>4. ASSUME NEW p \in Peers, NEW i \in 1 .. Len(c(p)), NEW j \in 1 .. Len(b),
                 c(p)[i] = b[j].ptr
          PROVE  FALSE
      <4>1. c(p)[i] \in U[p] /\ b[j].ptr \in M
        BY <1>2 DEF MailPtrs
      <4> HIDE DEF c, U, M
      <4> QED
        BY <1>1, <3>4, <4>1 DEF Apart
    <3>5. CASE InMail(r) /\ InMail(s)
      BY <2>1, <3>1, <3>5
    <3>6. CASE InData(r) /\ InData(s)
      <4>1. PICK p \in Peers, q \in Peers :
                   /\ \E i \in 1 .. Len(c(p)) : r = <<p, i>> /\ Referenced[r] = c(p)[i]
                   /\ \E j \in 1 .. Len(c(q)) : s = <<q, j>> /\ Referenced[s] = c(q)[j]
        BY <3>6
      <4>2. p = q
        BY <2>1, <3>3, <4>1
      <4> QED
        BY <2>1, <3>2, <4>1, <4>2
    <3>7. CASE (InMail(r) /\ InData(s)) \/ (InData(r) /\ InMail(s))
      BY <2>1, <3>4, <3>7
    <3> QED
      BY <1>6, <3>5, <3>6, <3>7
  <2> QED
    BY <1>5, <2>1 DEF IsInjective
<1>11. \A x \in rxbufs : x \in M \/ (\E p \in Peers : x \in U[p]) \/ x \in {f.ptr : f \in ToSet(held)}
  <2>1. InHand(held) \subseteq {f.ptr : f \in ToSet(held)}
    <3>1. CASE held = <<>>
      BY <3>1 DEF InHand
    <3>2. CASE \E h : held = <<h>>
      BY <3>2 DEF InHand, ToSet
    <3> QED
      BY <3>1, <3>2 DEF BufMem, HeldOk
  <2> QED
    BY <1>1, <2>1 DEF Apart
<1> QED
  BY <1>9, <1>10, <1>11 DEF BuffersLive

\* lwip_bridge.rs never frees a frame lwIP still refers to, and never keeps one
\* that nothing refers to.
THEOREM BuffersStayLive == BridgeSpec => []BuffersLive
<1>1. Init => BufMem /\ BufTypes
  <2> SUFFICES ASSUME Init
               PROVE  BufMem /\ BufTypes
    OBVIOUS
  <2>1. /\ held = <<>> /\ rxbufs = {} /\ lwip = NoLwip /\ conns = [p \in Peers |-> NoConn]
        /\ queue = <<>> /\ worker = NoWorker /\ up = [p \in Peers |-> <<>>]
        /\ \E c : client = [p \in Peers |->
                              [st |-> IF p \in c.users \cup c.idlers THEN "idle" ELSE "done", tun |-> 0]]
    BY DEF Init, Start
  <2>2. /\ HeldOk(held) /\ Sound(lwip, Unread(conns), rxbufs, held)
        /\ ConnsOk(conns)
    BY <2>1, EmptyMem
  <2>3. <<>> \in Seq(Peers) /\ <<>> \in Seq(UpType) /\ 0 \in 0 .. TunMax
    BY BridgeAssumption
  <2>4. BufTypes
    BY <2>1, <2>3 DEF BufTypes
  <2> QED
    BY <2>2, <2>4 DEF BufMem
<1> QED
  BY <1>1, MemStep, TypesStep, LiveFromMem, PTL DEF BridgeSpec

-----------------------------------------------------------------------------
(* The proxy: what a user receives *)

\* A sequence of whatever it is made of.
Items(s) == {s[i] : i \in 1 .. Len(s)}
IsList(s) == s \in Seq(Items(s))

LEMMA ListIntro ==
    ASSUME NEW n \in Nat, NEW s, s = [i \in 1 .. n |-> s[i]]
    PROVE  IsList(s) /\ Len(s) = n
<1> DEFINE T == {s[i] : i \in 1 .. n}
<1>1. s \in [1 .. n -> T]
  OBVIOUS
<1> HIDE DEF T
<1>2. s \in Seq(T)
  BY <1>1, SeqDef
<1>3. Len(s) = n
  BY <1>1, <1>2, LenProperties
<1> QED
  BY <1>2, <1>3 DEF T, IsList, Items

LEMMA ListFacts ==
    ASSUME NEW s, IsList(s)
    PROVE  /\ Len(s) \in Nat /\ s = [i \in 1 .. Len(s) |-> s[i]] /\ DOMAIN s = 1 .. Len(s)
           /\ s # <<>> => Head(s) \in Items(s) /\ IsList(Tail(s)) /\ Items(Tail(s)) \subseteq Items(s)
<1> DEFINE T == Items(s)
<1>1. s \in Seq(T)
  BY DEF IsList
<1> HIDE DEF T
<1>2. Len(s) \in Nat /\ s \in [1 .. Len(s) -> T]
  BY <1>1, LenProperties
<1>3. ASSUME s # <<>>
      PROVE  Head(s) \in Items(s) /\ IsList(Tail(s)) /\ Items(Tail(s)) \subseteq Items(s)
  <2> DEFINE t == Tail(s)
  <2>1. /\ 1 <= Len(s) /\ Head(s) = s[1] /\ t \in Seq(T) /\ Len(t) = Len(s) - 1
        /\ \A i \in 1 .. Len(s) - 1 : t[i] = s[i + 1]
    BY <1>1, <1>3, TailFacts
  <2> HIDE DEF t
  <2>2. Len(t) \in Nat /\ t = [i \in 1 .. Len(t) |-> t[i]]
    BY <2>1, LenProperties
  <2>3. IsList(t)
    BY <2>2, ListIntro
  <2>4. 1 \in 1 .. Len(s) /\ \A i \in 1 .. Len(t) : i + 1 \in 1 .. Len(s) /\ t[i] = s[i + 1]
    BY <1>2, <2>1
  <2> QED
    BY <2>1, <2>3, <2>4 DEF t, Items
<1> QED
  BY <1>2, <1>3

LEMMA ListConcat ==
    ASSUME NEW s, NEW r, IsList(s), IsList(r)
    PROVE  /\ IsList(s \o r) /\ Items(s \o r) \subseteq Items(s) \cup Items(r)
<1> DEFINE T == Items(s) \cup Items(r)
           t == s \o r
<1>1. s \in Seq(T) /\ r \in Seq(T)
  <2>1. /\ s \in [1 .. Len(s) -> Items(s)] /\ Len(s) \in Nat
        /\ r \in [1 .. Len(r) -> Items(r)] /\ Len(r) \in Nat
    BY LenProperties DEF IsList
  <2>2. s \in [1 .. Len(s) -> T] /\ r \in [1 .. Len(r) -> T]
    BY <2>1
  <2> HIDE DEF T
  <2> QED
    BY <2>1, <2>2, SeqDef
<1> HIDE DEF T
<1>2. t \in Seq(T)
  BY <1>1, ConcatFacts
<1> HIDE DEF t
<1>3. Len(t) \in Nat /\ t \in [1 .. Len(t) -> T]
  BY <1>2, LenProperties
<1>4. t = [i \in 1 .. Len(t) |-> t[i]]
  BY <1>3
<1>5. IsList(t)
  BY <1>3, <1>4, ListIntro
<1>6. Items(t) \subseteq T
  BY <1>3 DEF Items
<1> QED
  BY <1>5, <1>6 DEF t, T

LEMMA ListAppend ==
    ASSUME NEW s, NEW e, IsList(s)
    PROVE  /\ IsList(Append(s, e)) /\ Items(Append(s, e)) \subseteq Items(s) \cup {e}
           /\ Len(s) \in Nat /\ Len(Append(s, e)) = Len(s) + 1
           /\ \A i \in 1 .. Len(s) : Append(s, e)[i] = s[i]
           /\ Append(s, e)[Len(s) + 1] = e
<1> DEFINE T == Items(s) \cup {e}
           t == Append(s, e)
<1>1. s \in Seq(T)
  <2>1. s \in [1 .. Len(s) -> Items(s)] /\ Len(s) \in Nat
    BY LenProperties DEF IsList
  <2>2. s \in [1 .. Len(s) -> T]
    BY <2>1
  <2> HIDE DEF T
  <2> QED
    BY <2>1, <2>2, SeqDef
<1>2. e \in T
  OBVIOUS
<1> HIDE DEF T
<1>3. /\ t \in Seq(T) /\ Len(s) \in Nat /\ Len(t) = Len(s) + 1
      /\ \A i \in 1 .. Len(s) : t[i] = s[i]
      /\ t[Len(s) + 1] = e
  BY <1>1, <1>2, AppendFacts
<1> HIDE DEF t
<1>4. Len(t) \in Nat /\ t \in [1 .. Len(t) -> T]
  BY <1>3, LenProperties
<1>5. t = [i \in 1 .. Len(t) |-> t[i]]
  BY <1>4
<1>6. IsList(t)
  BY <1>4, <1>5, ListIntro
<1>7. Items(t) \subseteq T
  BY <1>4 DEF Items
<1> QED
  BY <1>3, <1>6, <1>7 DEF t, T

Byte == [fetch : Nat, byte : Nat]

\* Fetch f of a was made for port p and connection c of u.
Made(a, f, u, p, c) ==
    f \in 1 .. Len(a) /\ a[f].user = u /\ a[f].port = p /\ a[f].conn = c

\* s are the bytes of fetch f after the first k.
Carries(s, f, k) == s = [j \in 1 .. Len(s) |-> [fetch |-> f, byte |-> k + j]]

\* What is on its way to u is of a fetch made for u, at its place in the stream.
MsgOk(a, u, m) ==
    /\ m.bytes \in Seq(Byte) /\ m.seq \in Nat
    /\ "syn" \in m.flags => m.seq = 0 /\ m.bytes = <<>>
    /\ m.bytes # <<>> => \E f, k \in Nat : /\ Made(a, f, u, m.port, m.conn)
                                           /\ m.seq = k + 1 /\ Carries(m.bytes, f, k)

DownOk(a, d) ==
    /\ d = [u \in Users |-> d[u]]
    /\ \A u \in Users : IsList(d[u]) /\ \A m \in Items(d[u]) : MsgOk(a, u, m)

\* What u has got is of one fetch for its connection, and rcv is what comes next.
UserOk(a, u, c) ==
    /\ c = [st |-> c.st, port |-> c.port, conn |-> c.conn, rcv |-> c.rcv, acked |-> c.acked, got |-> c.got]
    /\ c.got \in Seq(Byte)
    /\ c.st = "syn" => c.got = <<>>
    /\ c.st = "est" => c.rcv = Len(c.got) + 1
    /\ c.got # <<>> => \E f \in Nat : Made(a, f, u, c.port, c.conn) /\ Carries(c.got, f, 0)

UsersOk(a, us) == us = [u \in Users |-> us[u]] /\ \A u \in Users : UserOk(a, u, us[u])

\* One fetch at most for a connection, among the n so far.
AskedOk(a, n) ==
    /\ IsList(a) /\ n \in Nat
    /\ \A i \in 1 .. Len(a) : a[i].conn \in 0 .. n
    /\ \A i \in 1 .. Len(a) :
          a[i] = [conn |-> a[i].conn, user |-> a[i].user, port |-> a[i].port, len |-> a[i].len]
    /\ \A i, j \in 1 .. Len(a) : a[i].conn = a[j].conn => i = j

\* The connection c of the proxy and its fetch l: none before the request, and
\* while one goes on it is the last one and nothing has been sent but the SYN.
PxRecord(active, u, port, rcv, conn, snd, fetched) ==
    [active |-> active, user |-> u, port |-> port, rcv |-> rcv, conn |-> conn,
     snd |-> snd, fetched |-> fetched]
PxConn(u, port, rcv, conn, snd, fetched) == PxRecord(TRUE, u, port, rcv, conn, snd, fetched)
PxOk(c, l, a, n) ==
    /\ l = [at |-> l.at, len |-> l.len] /\ l.len \in Nat
    /\ \/ c = NoPx
       \/ /\ c = PxConn(c.user, c.port, c.rcv, c.conn, c.snd, c.fetched)
          /\ c.user \in Users /\ c.conn \in 0 .. n /\ c.snd \in Nat /\ c.fetched \in BOOLEAN
          /\ ~c.fetched => c.snd = 1 /\ \A i \in 1 .. Len(a) : a[i].conn # c.conn
    /\ l # NoFetch => /\ c.active /\ c.fetched /\ c.snd = 1
                      /\ Made(a, Len(a), c.user, c.port, c.conn)

ProxyInv ==
    /\ AskedOk(asked, syns) /\ PxOk(px, lan, asked, syns)
    /\ UsersOk(asked, user) /\ DownOk(asked, pdown)

\* What was said of a fetch holds when others are added or it gets its length.
Grows(a, b) ==
    \A f, u, p, c : Made(a, f, u, p, c) => Made(b, f, u, p, c)

LEMMA GrowthKeeps ==
    ASSUME NEW a, NEW b, Grows(a, b)
    PROVE  /\ \A us : UsersOk(a, us) => UsersOk(b, us)
           /\ \A d : DownOk(a, d) => DownOk(b, d)
<1>1. \A u, c : UserOk(a, u, c) => UserOk(b, u, c)
  BY DEF UserOk, Grows
<1>2. \A u, m : MsgOk(a, u, m) => MsgOk(b, u, m)
  BY DEF MsgOk, Grows
<1> QED
  BY <1>1, <1>2 DEF UsersOk, DownOk

LEMMA DownConcat ==
    ASSUME NEW a, NEW d, DownOk(a, d), NEW u \in Users, NEW t, IsList(t),
           \A m \in Items(t) : MsgOk(a, u, m),
           NEW e, e = [d EXCEPT ![u] = d[u] \o t]
    PROVE  DownOk(a, e)
<1>1. IsList(d[u]) /\ \A m \in Items(d[u]) : MsgOk(a, u, m)
  BY DEF DownOk
<1>2. IsList(d[u] \o t) /\ Items(d[u] \o t) \subseteq Items(d[u]) \cup Items(t)
  BY <1>1, ListConcat
<1>3. \A m \in Items(d[u] \o t) : MsgOk(a, u, m)
  BY <1>1, <1>2
<1>4. e = [v \in Users |-> IF v = u THEN d[u] \o t ELSE d[v]]
  BY DEF DownOk
<1>5. e[u] = d[u] \o t /\ \A v \in Users : v # u => e[v] = d[v]
  BY <1>4
<1>6. e = [v \in Users |-> e[v]]
  BY <1>4
<1> QED
  BY <1>2, <1>3, <1>5, <1>6 DEF DownOk

LEMMA DownAppend ==
    ASSUME NEW a, NEW d, DownOk(a, d), NEW u \in Users, NEW x, MsgOk(a, u, x),
           NEW e, e = [d EXCEPT ![u] = Append(d[u], x)]
    PROVE  DownOk(a, e)
<1>1. IsList(d[u]) /\ \A m \in Items(d[u]) : MsgOk(a, u, m)
  BY DEF DownOk
<1>2. IsList(Append(d[u], x)) /\ Items(Append(d[u], x)) \subseteq Items(d[u]) \cup {x}
  BY <1>1, ListAppend
<1>3. \A m \in Items(Append(d[u], x)) : MsgOk(a, u, m)
  BY <1>1, <1>2
<1>4. e = [v \in Users |-> IF v = u THEN Append(d[u], x) ELSE d[v]]
  BY DEF DownOk
<1>5. e[u] = Append(d[u], x) /\ \A v \in Users : v # u => e[v] = d[v]
  BY <1>4
<1>6. e = [v \in Users |-> e[v]]
  BY <1>4
<1> QED
  BY <1>2, <1>3, <1>5, <1>6 DEF DownOk

LEMMA DownTake ==
    ASSUME NEW a, NEW d, DownOk(a, d), NEW u \in Users, d[u] # <<>>,
           NEW e, e = [d EXCEPT ![u] = Tail(d[u])]
    PROVE  DownOk(a, e) /\ MsgOk(a, u, Head(d[u]))
<1>1. IsList(d[u]) /\ \A m \in Items(d[u]) : MsgOk(a, u, m)
  BY DEF DownOk
<1>2. Head(d[u]) \in Items(d[u]) /\ IsList(Tail(d[u])) /\ Items(Tail(d[u])) \subseteq Items(d[u])
  BY <1>1, ListFacts
<1>3. \A m \in Items(Tail(d[u])) : MsgOk(a, u, m)
  BY <1>1, <1>2
<1>4. e = [v \in Users |-> IF v = u THEN Tail(d[u]) ELSE d[v]]
  BY DEF DownOk
<1>5. e[u] = Tail(d[u]) /\ \A v \in Users : v # u => e[v] = d[v]
  BY <1>4
<1>6. e = [v \in Users |-> e[v]]
  BY <1>4
<1> QED
  BY <1>1, <1>2, <1>3, <1>5, <1>6 DEF DownOk

\* The connection of one user changes.
LEMMA UserChange ==
    ASSUME NEW a, NEW us, UsersOk(a, us), NEW u \in Users, NEW c, UserOk(a, u, c),
           NEW e, e = [us EXCEPT ![u] = c]
    PROVE  UsersOk(a, e)
<1>1. e = [v \in Users |-> IF v = u THEN c ELSE us[v]]
  BY DEF UsersOk
<1>2. e[u] = c /\ \A v \in Users : v # u => e[v] = us[v]
  BY <1>1
<1>3. e = [v \in Users |-> e[v]]
  BY <1>1
<1> QED
  BY <1>2, <1>3 DEF UsersOk

LEMMA CarriesConcat ==
    ASSUME NEW s \in Seq(Byte), NEW r \in Seq(Byte), NEW f, Carries(s, f, 0), Carries(r, f, Len(s))
    PROVE  Carries(s \o r, f, 0)
<1> DEFINE t == s \o r
<1>1. /\ t \in Seq(Byte) /\ Len(t) = Len(s) + Len(r) /\ Len(s) \in Nat /\ Len(r) \in Nat
      /\ \A i \in 1 .. Len(s) : t[i] = s[i]
      /\ \A i \in Len(s) + 1 .. Len(s) + Len(r) : t[i] = r[i - Len(s)]
  BY ConcatFacts
<1>2. t = [i \in 1 .. Len(t) |-> t[i]]
  BY <1>1, LenProperties
<1> HIDE DEF t
<1>3. \A i \in 1 .. Len(s) : s[i] = [fetch |-> f, byte |-> 0 + i]
  BY DEF Carries
<1>4. \A i \in 1 .. Len(r) : r[i] = [fetch |-> f, byte |-> Len(s) + i]
  BY DEF Carries
<1>5. ASSUME NEW i \in 1 .. Len(t)
      PROVE  t[i] = [fetch |-> f, byte |-> 0 + i]
  <2>1. CASE i \in 1 .. Len(s)
    BY <1>1, <1>3, <2>1
  <2>2. CASE i \notin 1 .. Len(s)
    <3>1. i \in Len(s) + 1 .. Len(s) + Len(r) /\ i - Len(s) \in 1 .. Len(r) /\ Len(s) + (i - Len(s)) = 0 + i
      BY <1>1, <2>2
    <3> QED
      BY <1>1, <1>4, <3>1
  <2> QED
    BY <2>1, <2>2
<1>6. Carries(t, f, 0)
  BY <1>2, <1>5 DEF Carries
<1> QED
  BY <1>6 DEF t

\* A segment that is accepted continues what the user has got.
LEMMA SegmentFits ==
    ASSUME AskedOk(asked, syns), NEW u \in Users, NEW c, UserOk(asked, u, c), c.st = "est",
           NEW m, MsgOk(asked, u, m), m.port = c.port, m.conn = c.conn, m.seq = c.rcv
    PROVE  /\ c.got \o m.bytes \in Seq(Byte) /\ c.rcv + Len(m.bytes) = Len(c.got \o m.bytes) + 1
           /\ c.got \o m.bytes # <<>> =>
                 \E f \in Nat : /\ Made(asked, f, u, c.port, c.conn)
                                /\ Carries(c.got \o m.bytes, f, 0)
<1> DEFINE g == c.got
           b == m.bytes
           t == g \o b
<1>1. g \in Seq(Byte) /\ b \in Seq(Byte)
  BY DEF UserOk, MsgOk
<1>2. t \in Seq(Byte) /\ Len(t) = Len(g) + Len(b) /\ Len(g) \in Nat /\ Len(b) \in Nat
  BY <1>1, ConcatFacts
<1>3. c.rcv = Len(g) + 1
  BY DEF UserOk
<1>4. c.rcv + Len(b) = Len(t) + 1
  <2>1. \A x, y \in Nat : (x + 1) + y = (x + y) + 1
    OBVIOUS
  <2> QED
    BY <1>2, <1>3, <2>1
<1>5. CASE b = <<>>
  <2>1. t = g
    BY <1>1, <1>5, ConcatEmptySeq
  <2> QED
    BY <1>2, <1>4, <2>1 DEF UserOk
<1>6. CASE b # <<>>
  <2>1. PICK f \in Nat, k \in Nat : Made(asked, f, u, c.port, c.conn) /\ m.seq = k + 1 /\ Carries(b, f, k)
    BY <1>6 DEF MsgOk
  <2>2. k = Len(g)
    BY <1>2, <1>3, <2>1
  <2>3. CASE g = <<>>
    <3>1. t = b /\ k = 0
      BY <1>1, <2>2, <2>3, ConcatEmptySeq
    <3> QED
      BY <1>2, <1>4, <2>1, <3>1
  <2>4. CASE g # <<>>
    <3>1. PICK h \in Nat : Made(asked, h, u, c.port, c.conn) /\ Carries(g, h, 0)
      BY <2>4 DEF UserOk
    <3>2. h = f
      BY <2>1, <3>1 DEF Made, AskedOk
    <3>3. Carries(t, f, 0)
      BY <1>1, <2>1, <2>2, <3>1, <3>2, CarriesConcat
    <3> QED
      BY <1>2, <1>4, <2>1, <3>3
  <2> QED
    BY <2>3, <2>4
<1> QED
  BY <1>5, <1>6

\* The fields of a connection change one after the other.
UserConn(st, port, conn, rcv, acked, got) ==
    [st |-> st, port |-> port, conn |-> conn, rcv |-> rcv, acked |-> acked, got |-> got]
With(r, field, v) == [r EXCEPT ![field] = v]

LEMMA WithFacts ==
    ASSUME NEW st, NEW port, NEW conn, NEW rcv, NEW acked, NEW got, NEW v
    PROVE  LET c == UserConn(st, port, conn, rcv, acked, got)
           IN  /\ With(c, "st", v) = UserConn(v, port, conn, rcv, acked, got)
               /\ With(c, "conn", v) = UserConn(st, port, v, rcv, acked, got)
               /\ With(c, "rcv", v) = UserConn(st, port, conn, v, acked, got)
               /\ With(c, "acked", v) = UserConn(st, port, conn, rcv, v, got)
               /\ With(c, "got", v) = UserConn(st, port, conn, rcv, acked, v)
<1> DEFINE c == UserConn(st, port, conn, rcv, acked, got)
<1>1. With(c, "st", v) = UserConn(v, port, conn, rcv, acked, got)
  BY DEF UserConn, With
<1>2. With(c, "conn", v) = UserConn(st, port, v, rcv, acked, got)
  BY DEF UserConn, With
<1>3. With(c, "rcv", v) = UserConn(st, port, conn, v, acked, got)
  BY DEF UserConn, With
<1>4. With(c, "acked", v) = UserConn(st, port, conn, rcv, v, got)
  BY DEF UserConn, With
<1>5. With(c, "got", v) = UserConn(st, port, conn, rcv, acked, v)
  BY DEF UserConn, With
<1> QED
  BY <1>1, <1>2, <1>3, <1>4, <1>5

LEMMA UserReceiveKeeps ==
    ASSUME ProxyInv, NEW u \in Users, UserReceive(u)
    PROVE  ProxyInv'
<1> DEFINE m == Head(pdown[u])
           c == user[u]
           acked == Max({c.acked, m.ack})
<1>1. UNCHANGED <<px, lan, asked, syns>> /\ pdown[u] # <<>> /\ pdown' = [pdown EXCEPT ![u] = Tail(pdown[u])]
  BY DEF UserReceive
<1>2. /\ AskedOk(asked, syns) /\ PxOk(px, lan, asked, syns)
      /\ UsersOk(asked, user) /\ DownOk(asked, pdown) /\ UserOk(asked, u, c)
  BY DEF ProxyInv, UsersOk
<1>3. DownOk(asked, pdown') /\ MsgOk(asked, u, m)
  BY <1>1, <1>2, DownTake
<1>4. c = [st |-> c.st, port |-> c.port, conn |-> c.conn, rcv |-> c.rcv, acked |-> c.acked, got |-> c.got]
  BY <1>2 DEF UserOk
<1>5. \E n : UserOk(asked, u, n) /\ (user' = user \/ user' = [user EXCEPT ![u] = n])
  <2>1. CASE user' = user
    BY <1>2, <2>1
  <2>2. CASE /\ c.st = "syn" /\ "syn" \in m.flags
             /\ user' = [user EXCEPT ![u] = [c EXCEPT !.st = "est", !.conn = m.conn, !.rcv = m.seq + 1, !.acked = m.ack]]
    <3> DEFINE n == [st |-> "est", port |-> c.port, conn |-> m.conn, rcv |-> m.seq + 1, acked |-> m.ack, got |-> c.got]
    <3>1. [c EXCEPT !.st = "est", !.conn = m.conn, !.rcv = m.seq + 1, !.acked = m.ack] = n
      <4>1. c = UserConn(c.st, c.port, c.conn, c.rcv, c.acked, c.got)
        BY <1>4 DEF UserConn
      <4>2. [c EXCEPT !.st = "est", !.conn = m.conn, !.rcv = m.seq + 1, !.acked = m.ack]
               = UserConn("est", c.port, m.conn, m.seq + 1, m.ack, c.got)
        <5>1. With(With(With(With(c, "st", "est"), "conn", m.conn), "rcv", m.seq + 1), "acked", m.ack)
                 = UserConn("est", c.port, m.conn, m.seq + 1, m.ack, c.got)
          BY <4>1, WithFacts
        <5> QED
          BY <5>1 DEF With
      <4> QED
        BY <4>2 DEF UserConn
    <3>2. c.got = <<>> /\ m.seq = 0
      BY <1>2, <1>3, <2>2 DEF UserOk, MsgOk
    <3>3. <<>> \in Seq(Byte) /\ Len(<<>>) = 0
      OBVIOUS
    <3>4. n.st = "est" /\ n.rcv = 0 + 1 /\ n.got = <<>>
      BY <3>2
    <3>5. n = [st |-> n.st, port |-> n.port, conn |-> n.conn, rcv |-> n.rcv, acked |-> n.acked, got |-> n.got]
      OBVIOUS
    <3>6. user' = [user EXCEPT ![u] = n]
      BY <2>2, <3>1
    <3> HIDE DEF n
    <3>7. UserOk(asked, u, n)
      BY <3>3, <3>4, <3>5 DEF UserOk
    <3> QED
      BY <3>6, <3>7
  <2>3. CASE user' = [user EXCEPT ![u].acked = acked]
    <3> DEFINE n == [st |-> c.st, port |-> c.port, conn |-> c.conn, rcv |-> c.rcv, acked |-> acked, got |-> c.got]
    <3> HIDE DEF acked
    <3>1. [c EXCEPT !.acked = acked] = n
      BY <1>4
    <3>2. user' = [user EXCEPT ![u] = n]
      BY <2>3, <3>1
    <3>3. UserOk(asked, u, n)
      BY <1>2 DEF UserOk
    <3> QED
      BY <3>2, <3>3
  <2>4. CASE /\ c.st = "est" /\ m.port = c.port /\ m.conn = c.conn /\ m.seq = c.rcv
             /\ user' = [user EXCEPT ![u] =
                            [c EXCEPT !.acked = acked, !.got = @ \o m.bytes, !.rcv = @ + Len(m.bytes),
                                      !.st = IF "fin" \in m.flags THEN "done" ELSE @]]
    <3> DEFINE st == IF "fin" \in m.flags THEN "done" ELSE c.st
               t == c.got \o m.bytes
               next == c.rcv + Len(m.bytes)
               n == [st |-> st, port |-> c.port, conn |-> c.conn, rcv |-> next, acked |-> acked, got |-> t]
    <3>1. /\ t \in Seq(Byte) /\ next = Len(t) + 1
          /\ t # <<>> => \E f \in Nat : Made(asked, f, u, c.port, c.conn) /\ Carries(t, f, 0)
      BY <1>2, <1>3, <2>4, SegmentFits
    <3>2. st \in {"est", "done"}
      BY <2>4
    <3> HIDE DEF acked
    <3>3. user' = [user EXCEPT ![u] = [c EXCEPT !.acked = acked, !.got = t, !.rcv = next, !.st = st]]
      BY <2>4
    <3> HIDE DEF st, t, next
    <3>4. [c EXCEPT !.acked = acked, !.got = t, !.rcv = next, !.st = st] = n
      <4>1. c = UserConn(c.st, c.port, c.conn, c.rcv, c.acked, c.got)
        BY <1>4 DEF UserConn
      <4>2. [c EXCEPT !.acked = acked, !.got = t, !.rcv = next, !.st = st]
               = UserConn(st, c.port, c.conn, next, acked, t)
        <5>1. With(With(With(With(c, "acked", acked), "got", t), "rcv", next), "st", st)
                 = UserConn(st, c.port, c.conn, next, acked, t)
          BY <4>1, WithFacts
        <5> QED
          BY <5>1 DEF With
      <4> QED
        BY <4>2 DEF UserConn
    <3>5. user' = [user EXCEPT ![u] = n]
      BY <3>3, <3>4
    <3>6. UserOk(asked, u, n)
      BY <3>1, <3>2 DEF UserOk
    <3> QED
      BY <3>5, <3>6
  <2> QED
    BY <2>1, <2>2, <2>3, <2>4 DEF UserReceive
<1>6. UsersOk(asked, user')
  BY <1>2, <1>5, UserChange
<1> QED
  BY <1>1, <1>2, <1>3, <1>6 DEF ProxyInv

\* The fields of the connection of the proxy.
LEMMA PxWith ==
    ASSUME NEW active, NEW u, NEW port, NEW rcv, NEW conn, NEW snd, NEW fetched, NEW v
    PROVE  LET c == PxRecord(active, u, port, rcv, conn, snd, fetched)
           IN  /\ With(c, "rcv", v) = PxRecord(active, u, port, v, conn, snd, fetched)
               /\ With(c, "snd", v) = PxRecord(active, u, port, rcv, conn, v, fetched)
               /\ With(c, "fetched", v) = PxRecord(active, u, port, rcv, conn, snd, v)
<1> DEFINE c == PxRecord(active, u, port, rcv, conn, snd, fetched)
<1>1. With(c, "rcv", v) = PxRecord(active, u, port, v, conn, snd, fetched)
  BY DEF PxRecord, With
<1>2. With(c, "snd", v) = PxRecord(active, u, port, rcv, conn, v, fetched)
  BY DEF PxRecord, With
<1>3. With(c, "fetched", v) = PxRecord(active, u, port, rcv, conn, snd, v)
  BY DEF PxRecord, With
<1> QED
  BY <1>1, <1>2, <1>3

LEMMA PxFields ==
    ASSUME NEW u, NEW port, NEW rcv, NEW conn, NEW snd, NEW fetched
    PROVE  LET c == PxConn(u, port, rcv, conn, snd, fetched)
           IN  /\ c.active /\ c.user = u /\ c.port = port /\ c.rcv = rcv /\ c.conn = conn
               /\ c.snd = snd /\ c.fetched = fetched
               /\ \A v : /\ With(c, "rcv", v) = PxConn(u, port, v, conn, snd, fetched)
                         /\ With(c, "snd", v) = PxConn(u, port, rcv, conn, v, fetched)
                         /\ With(c, "fetched", v) = PxConn(u, port, rcv, conn, snd, v)
<1> DEFINE c == PxConn(u, port, rcv, conn, snd, fetched)
<1>1. /\ c.active /\ c.user = u /\ c.port = port /\ c.rcv = rcv /\ c.conn = conn
      /\ c.snd = snd /\ c.fetched = fetched
  BY DEF PxConn, PxRecord
<1>2. \A v : /\ With(c, "rcv", v) = PxConn(u, port, v, conn, snd, fetched)
             /\ With(c, "snd", v) = PxConn(u, port, rcv, conn, v, fetched)
             /\ With(c, "fetched", v) = PxConn(u, port, rcv, conn, snd, v)
  <2>1. PICK active : active = TRUE
    OBVIOUS
  <2>2. \A r, n, s, f : PxConn(u, port, r, n, s, f) = PxRecord(active, u, port, r, n, s, f)
    BY <2>1, Zenon DEF PxConn
  <2> QED
    BY <2>2, PxWith
<1> QED
  BY <1>1, <1>2

\* A part of a response.
LEMMA PartOfResponse ==
    ASSUME NEW len \in Nat, NEW f \in Nat, NEW i \in Nat, NEW end \in Nat, end <= len,
           NEW resp, resp = [j \in 1 .. len |-> [fetch |-> f, byte |-> j]]
    PROVE  SubSeq(resp, i + 1, end) \in Seq(Byte) /\ Carries(SubSeq(resp, i + 1, end), f, i)
<1> DEFINE b == SubSeq(resp, i + 1, end)
           n == IF i + 1 <= end THEN end - i ELSE 0
<1>1. resp \in [1 .. len -> Byte]
  BY DEF Byte
<1>2. resp \in Seq(Byte) /\ Len(resp) = len
  <2>1. resp \in Seq(Byte)
    BY <1>1, SeqDef
  <2> QED
    BY <1>1, <2>1, LenProperties
<1>3. n \in Nat
  OBVIOUS
<1>4. b = [j \in 1 .. n |-> resp[i + j]]
  <2>1. b = [j \in 1 .. end - (i + 1) + 1 |-> resp[(i + 1) + j - 1]]
    BY <1>2
  <2>2. 1 .. end - (i + 1) + 1 = 1 .. n
    OBVIOUS
  <2>3. \A j \in 1 .. n : (i + 1) + j - 1 = i + j
    OBVIOUS
  <2> HIDE DEF b, n
  <2> QED
    BY <2>1, <2>2, <2>3
<1>5. \A j \in 1 .. n : i + j \in 1 .. len
  OBVIOUS
<1> HIDE DEF b, n
<1>6. b = [j \in 1 .. n |-> [fetch |-> f, byte |-> i + j]]
  BY <1>4, <1>5
<1>7. b = [j \in 1 .. n |-> b[j]]
  BY <1>6
<1>8. Len(b) = n
  BY <1>3, <1>7, ListIntro
<1>9. b \in [1 .. n -> Byte]
  BY <1>6 DEF Byte
<1>10. b \in Seq(Byte)
  BY <1>3, <1>9, SeqDef
<1>11. Carries(b, f, i)
  BY <1>6, <1>8 DEF Carries
<1> QED
  BY <1>10, <1>11 DEF b

\* The segments of the response of the last fetch.
LEMMA SegmentsOk ==
    ASSUME NEW a, NEW u, NEW c, c = PxConn(c.user, c.port, c.rcv, c.conn, c.snd, c.fetched), c.snd = 1,
           NEW f \in Nat, Made(a, f, u, c.port, c.conn),
           NEW len \in Nat, NEW resp, resp = [j \in 1 .. len |-> [fetch |-> f, byte |-> j]]
    PROVE  /\ IsList(ResponseSegments(c, resp))
           /\ \A m \in Items(ResponseSegments(c, resp)) : MsgOk(a, u, m)
<1> DEFINE s == ResponseSegments(c, resp)
<1>1. <<>> \in Seq(Byte)
  OBVIOUS
<1>2. CASE resp = <<>>
  <2> DEFINE m == ProxySegment(c, {"fin", "ack"}, <<>>)
  <2>1. s = <<m>>
    BY <1>2 DEF ResponseSegments, EmptyResponse
  <2>2. m.bytes = <<>> /\ m.seq = 1 /\ m.flags = {"fin", "ack"}
    BY DEF ProxySegment
  <2>3. "syn" \notin m.flags
    BY <2>2
  <2> HIDE DEF m
  <2>4. MsgOk(a, u, m)
    BY <1>1, <2>2, <2>3 DEF MsgOk
  <2>5. <<m>> = [i \in 1 .. 1 |-> <<m>>[i]]
    OBVIOUS
  <2>6. IsList(<<m>>) /\ Len(<<m>>) = 1
    BY <2>5, ListIntro
  <2>7. \A x \in Items(<<m>>) : x = m
    BY <2>6 DEF Items
  <2> QED
    BY <2>1, <2>4, <2>6, <2>7
<1>3. CASE resp # <<>>
  <2> DEFINE n == (Len(resp) + PROXY_MSS - 1) \div PROXY_MSS
             at(k) == (k - 1) * PROXY_MSS
             end(k) == Min({at(k) + PROXY_MSS, Len(resp)})
             flags(k) == IF end(k) = Len(resp) THEN {"psh", "ack", "fin"} ELSE {"psh", "ack"}
             part(k) == ProxySegment([c EXCEPT !.snd = @ + at(k)], flags(k), SubSeq(resp, at(k) + 1, end(k)))
  <2>1. Len(resp) = len
    <3>1. resp = [j \in 1 .. len |-> resp[j]]
      OBVIOUS
    <3> QED
      BY <3>1, ListIntro
  <2>2. PROXY_MSS \in Nat /\ PROXY_MSS > 0
    BY ProxyAssumption
  <2>3. n \in Nat
    <3>1. \A x, y \in Nat : y > 0 => (x + y - 1) \div y \in Nat
      OBVIOUS
    <3> QED
      BY <2>1, <2>2, <3>1
  <2>4. s = [k \in 1 .. n |-> part(k)]
    BY <1>3 DEF ResponseSegments
  <2>5. ASSUME NEW k \in 1 .. n
        PROVE  MsgOk(a, u, part(k))
    <3> DEFINE i == at(k)
               e == end(k)
               b == SubSeq(resp, i + 1, e)
               m == part(k)
    <3>1. i \in Nat
      <4>1. k - 1 \in Nat
        BY <2>3
      <4>2. \A x, y \in Nat : x * y \in Nat
        OBVIOUS
      <4> QED
        BY <2>2, <4>1, <4>2
    <3>2. e \in Nat /\ e <= len
      <4> HIDE DEF i
      <4>1. e = Min({i + PROXY_MSS, len})
        BY <2>1 DEF i
      <4>2. i + PROXY_MSS \in Nat
        BY <2>2, <3>1
      <4> QED
        BY <4>1, <4>2, MinOfTwo
    <3>3. [c EXCEPT !.snd = @ + i] = PxConn(c.user, c.port, c.rcv, c.conn, 1 + i, c.fetched)
      <4> HIDE DEF i
      <4>1. With(c, "snd", 1 + i) = PxConn(c.user, c.port, c.rcv, c.conn, 1 + i, c.fetched)
        BY PxFields
      <4> QED
        BY <4>1 DEF With
    <3>4. /\ m.bytes = b /\ m.seq = 1 + i /\ m.port = c.port /\ m.conn = c.conn
          /\ m.flags = flags(k)
      <4> HIDE DEF i, b, flags
      <4>1. m = ProxySegment(PxConn(c.user, c.port, c.rcv, c.conn, 1 + i, c.fetched), flags(k), b)
        BY <3>3 DEF i, b
      <4> HIDE DEF m
      <4> QED
        BY <4>1, PxFields DEF ProxySegment
    <3>5. "syn" \notin flags(k)
      OBVIOUS
    <3> HIDE DEF i, e, b, m, flags, end, at
    <3>6. b \in Seq(Byte) /\ Carries(b, f, i)
      BY <3>1, <3>2, PartOfResponse DEF b
    <3>7. m.seq \in Nat /\ m.seq = i + 1
      BY <3>1, <3>4
    <3>8. MsgOk(a, u, m)
      BY <3>1, <3>4, <3>5, <3>6, <3>7 DEF MsgOk
    <3> QED
      BY <3>8 DEF m
  <2> HIDE DEF n, part
  <2>6. s = [k \in 1 .. n |-> s[k]]
    BY <2>4
  <2> HIDE DEF s
  <2>7. IsList(s) /\ Len(s) = n
    BY <2>3, <2>6, ListIntro
  <2>8. \A m \in Items(s) : MsgOk(a, u, m)
    BY <2>4, <2>5, <2>7 DEF Items
  <2> QED
    BY <2>7, <2>8 DEF s
<1> QED
  BY <1>2, <1>3

\* A segment without data, which is no SYN or is the first one.
LEMMA BareSegment ==
    ASSUME NEW a, NEW u, NEW c, NEW flags, c.snd \in Nat, "syn" \in flags => c.snd = 0
    PROVE  MsgOk(a, u, ProxySegment(c, flags, <<>>))
<1> DEFINE m == ProxySegment(c, flags, <<>>)
<1>1. m.bytes = <<>> /\ m.seq = c.snd /\ m.flags = flags
  BY DEF ProxySegment
<1>2. <<>> \in Seq(Byte)
  OBVIOUS
<1> HIDE DEF m
<1>3. MsgOk(a, u, m)
  BY <1>1, <1>2 DEF MsgOk
<1> QED
  BY <1>3 DEF m

\* No fetch goes on.
Idle == ProxyInv /\ lan = NoFetch /\ UNCHANGED user

LEMMA OnSynKeeps ==
    ASSUME Idle, NEW u \in Users, NEW m, OnSyn(u, m)
    PROVE  ProxyInv'
<1>0. PICK no : no = FALSE
  OBVIOUS
<1> DEFINE n == syns + 1
           c == [active |-> TRUE, user |-> u, port |-> m.port, rcv |-> m.seq + 1,
                 conn |-> n, snd |-> 0, fetched |-> FALSE]
           k == PxConn(u, m.port, m.seq + 1, n, 0 + 1, no)
<1>1. /\ AskedOk(asked, syns) /\ PxOk(px, lan, asked, syns)
      /\ UsersOk(asked, user) /\ DownOk(asked, pdown) /\ lan = NoFetch
      /\ UNCHANGED <<user, lan, asked>> /\ syns' = n
  BY DEF ProxyInv, Idle, OnSyn
<1>2. /\ px' = [c EXCEPT !.snd = 0 + 1]
      /\ pdown' = [pdown EXCEPT ![u] = Append(pdown[u], ProxySegment(c, {"syn", "ack"}, <<>>))]
  BY DEF OnSyn, FreshNumbers
<1>3. syns \in Nat /\ n \in Nat
  BY <1>1 DEF AskedOk
<1> HIDE DEF n
<1>4. c = PxConn(u, m.port, m.seq + 1, n, 0, no) /\ c.snd = 0
  BY <1>0 DEF PxConn, PxRecord
<1> HIDE DEF c
<1>5. px' = k
  <2>1. With(c, "snd", 0 + 1) = k
    BY <1>4, PxFields
  <2> QED
    BY <1>2, <2>1 DEF With
<1>6. DownOk(asked, pdown')
  <2>1. MsgOk(asked, u, ProxySegment(c, {"syn", "ack"}, <<>>))
    <3>1. c.snd \in Nat
      BY <1>4
    <3> QED
      BY <1>4, <3>1, BareSegment
  <2> QED
    BY <1>1, <1>2, <2>1, DownAppend
<1>7. AskedOk(asked, n)
  <2>1. \A i \in 1 .. Len(asked) : asked[i].conn \in 0 .. n
    BY <1>1, <1>3 DEF AskedOk, n
  <2> QED
    BY <1>1, <1>3, <2>1 DEF AskedOk
<1>8. PxOk(k, lan, asked, n)
  <2>1. /\ k.user = u /\ k.port = m.port /\ k.rcv = m.seq + 1 /\ k.conn = n /\ k.snd = 0 + 1
        /\ k.fetched = no
    BY PxFields
  <2>2. k = PxConn(k.user, k.port, k.rcv, k.conn, k.snd, k.fetched)
    BY <2>1
  <2>3. \A i \in 1 .. Len(asked) : asked[i].conn # n
    BY <1>1, <1>3 DEF AskedOk, n
  <2> HIDE DEF k
  <2>4. k.user \in Users /\ k.conn \in 0 .. n /\ k.snd \in Nat /\ k.fetched \in BOOLEAN /\ k.snd = 1
    <3>1. n \in 0 .. n /\ 0 + 1 = 1 /\ 1 \in Nat
      BY <1>3
    <3>2. k.fetched \in BOOLEAN
      BY <1>0, <2>1
    <3>3. k.user \in Users /\ k.conn \in 0 .. n /\ k.snd = 1
      BY <2>1, <3>1
    <3> QED
      BY <3>1, <3>2, <3>3
  <2> QED
    BY <1>0, <1>1, <2>1, <2>2, <2>3, <2>4 DEF PxOk
<1> QED
  BY <1>1, <1>5, <1>6, <1>7, <1>8 DEF ProxyInv

LEMMA OnResetKeeps ==
    ASSUME Idle, NEW u \in Users, NEW m, OnReset(u, m) \/ NotForUs(u, m)
    PROVE  ProxyInv'
  BY DEF Idle, ProxyInv, OnReset, NotForUs, PxOk

LEMMA OnFinKeeps ==
    ASSUME Idle, NEW u \in Users, NEW m, OnFin(u, m)
    PROVE  ProxyInv'
<1> DEFINE c == [px EXCEPT !.rcv = m.seq + 1]
<1>1. /\ AskedOk(asked, syns) /\ PxOk(px, lan, asked, syns)
      /\ UsersOk(asked, user) /\ DownOk(asked, pdown) /\ lan = NoFetch
      /\ UNCHANGED <<user, lan, asked, syns>> /\ px' = NoPx
      /\ pdown' = [pdown EXCEPT ![u] = Append(pdown[u], ProxySegment(c, {"ack"}, <<>>))]
  BY DEF Idle, ProxyInv, OnFin
<1>2. px = PxConn(px.user, px.port, px.rcv, px.conn, px.snd, px.fetched) /\ px.snd \in Nat
  <2>1. px # NoPx
    BY DEF OnFin, Mine, NoPx
  <2> QED
    BY <1>1, <2>1 DEF PxOk
<1>3. c.snd \in Nat
  <2>1. With(px, "rcv", m.seq + 1) = PxConn(px.user, px.port, m.seq + 1, px.conn, px.snd, px.fetched)
    BY <1>2, PxFields
  <2>2. c = PxConn(px.user, px.port, m.seq + 1, px.conn, px.snd, px.fetched)
    BY <2>1 DEF With
  <2> HIDE DEF c
  <2>3. c.snd = px.snd
    BY <2>2, PxFields
  <2> QED
    BY <1>2, <2>3
<1> HIDE DEF c
<1>4. MsgOk(asked, u, ProxySegment(c, {"ack"}, <<>>))
  BY <1>3, BareSegment
<1>5. DownOk(asked, pdown')
  BY <1>1, <1>4, DownAppend
<1>6. PxOk(NoPx, lan, asked, syns)
  BY <1>1 DEF PxOk
<1> QED
  BY <1>1, <1>5, <1>6 DEF ProxyInv

LEMMA OnRequestKeeps ==
    ASSUME Idle, NEW u \in Users, NEW m, OnRequest(u, m)
    PROVE  ProxyInv'
<1>0. PICK yes : yes = TRUE
  OBVIOUS
<1> DEFINE e == [conn |-> px.conn, user |-> u, port |-> px.port, len |-> 0]
           l == [at |-> "connect", len |-> 0]
           k == PxConn(px.user, px.port, m.seq + m.len, px.conn, px.snd, yes)
<1>1. /\ AskedOk(asked, syns) /\ PxOk(px, lan, asked, syns)
      /\ UsersOk(asked, user) /\ DownOk(asked, pdown) /\ lan = NoFetch
      /\ UNCHANGED <<user, syns, pdown>>
      /\ px' = [px EXCEPT !.rcv = m.seq + m.len, !.fetched = yes]
      /\ lan' = l /\ asked' = Append(asked, e)
  BY <1>0 DEF Idle, ProxyInv, OnRequest
<1>2. /\ px = PxConn(px.user, px.port, px.rcv, px.conn, px.snd, px.fetched) /\ px.user = u
      /\ px.user \in Users /\ px.conn \in 0 .. syns /\ px.snd = 1
      /\ \A i \in 1 .. Len(asked) : asked[i].conn # px.conn
  <2>1. px # NoPx /\ px.user = u /\ ~px.fetched
    BY DEF OnRequest, Mine, FirstPayload, NoPx
  <2> QED
    BY <1>1, <2>1 DEF PxOk
<1>3. px' = k
  <2>1. With(px, "rcv", m.seq + m.len) = PxConn(px.user, px.port, m.seq + m.len, px.conn, px.snd, px.fetched)
    BY <1>2, PxFields
  <2>2. With(With(px, "rcv", m.seq + m.len), "fetched", yes) = k
    BY <2>1, PxFields
  <2> QED
    BY <1>1, <2>2 DEF With
<1>4. /\ IsList(asked') /\ Len(asked) \in Nat /\ Len(asked') = Len(asked) + 1
      /\ \A i \in 1 .. Len(asked) : asked'[i] = asked[i]
      /\ asked'[Len(asked) + 1] = e
  BY <1>1, ListAppend DEF AskedOk
<1>5. /\ e.conn = px.conn /\ e.user = u /\ e.port = px.port
      /\ e = [conn |-> e.conn, user |-> e.user, port |-> e.port, len |-> e.len]
  OBVIOUS
<1> HIDE DEF e
<1>6. \A i \in 1 .. Len(asked') :
         (i \in 1 .. Len(asked) /\ asked'[i] = asked[i]) \/ (i = Len(asked) + 1 /\ asked'[i] = e)
  BY <1>4
<1>7. AskedOk(asked', syns)
  <2>1. \A i \in 1 .. Len(asked') :
           /\ asked'[i].conn \in 0 .. syns
           /\ asked'[i] = [conn |-> asked'[i].conn, user |-> asked'[i].user, port |-> asked'[i].port,
                           len |-> asked'[i].len]
    BY <1>1, <1>2, <1>5, <1>6 DEF AskedOk
  <2>2. \A i, j \in 1 .. Len(asked') : asked'[i].conn = asked'[j].conn => i = j
    BY <1>1, <1>2, <1>5, <1>6 DEF AskedOk
  <2> QED
    BY <1>1, <1>4, <2>1, <2>2 DEF AskedOk
<1>8. Made(asked', Len(asked'), u, px.port, px.conn)
  <2>1. Len(asked') \in 1 .. Len(asked')
    BY <1>4
  <2> QED
    BY <1>4, <1>5, <2>1 DEF Made
<1>9. PxOk(k, l, asked', syns)
  <2>1. /\ k.active /\ k.user = px.user /\ k.port = px.port /\ k.rcv = m.seq + m.len /\ k.conn = px.conn
        /\ k.snd = px.snd /\ k.fetched = yes
    BY PxFields
  <2>2. k = PxConn(k.user, k.port, k.rcv, k.conn, k.snd, k.fetched)
    BY <2>1
  <2> HIDE DEF k
  <2>3. l = [at |-> l.at, len |-> l.len] /\ l.len \in Nat
    OBVIOUS
  <2> HIDE DEF l
  <2>4. k.user \in Users /\ k.conn \in 0 .. syns /\ k.snd \in Nat /\ k.fetched \in BOOLEAN /\ k.snd = 1
    BY <1>0, <1>2, <2>1
  <2>5. Made(asked', Len(asked'), k.user, k.port, k.conn)
    BY <1>2, <1>8, <2>1
  <2> QED
    BY <1>0, <2>1, <2>3, <2>2, <2>4, <2>5 DEF PxOk
<1>10. Grows(asked, asked')
  BY <1>4 DEF Grows, Made
<1>11. UsersOk(asked', user) /\ DownOk(asked', pdown)
  BY <1>1, <1>10, GrowthKeeps
<1> QED
  BY <1>1, <1>3, <1>7, <1>9, <1>11 DEF ProxyInv

\* The sends of a burst that do not fail.
LEMMA KeptOk ==
    ASSUME NEW burst, IsList(burst), NEW kept \in Kept(burst)
    PROVE  IsList(kept) /\ Items(kept) \subseteq Items(burst)
<1> DEFINE m == Len(burst)
<1>1. PICK n \in 0 .. m : \E pick \in Increasing(n, m) :
         kept = [i \in 1 .. n |-> burst[pick[i]]]
  BY DEF Kept
<1>2. PICK pick \in [1 .. n -> 1 .. m] : kept = [i \in 1 .. n |-> burst[pick[i]]]
  BY <1>1 DEF Increasing
<1>3. n \in Nat /\ kept = [i \in 1 .. n |-> kept[i]]
  BY <1>2
<1>4. IsList(kept) /\ Len(kept) = n
  BY <1>3, ListIntro
<1>5. \A i \in 1 .. n : pick[i] \in 1 .. m /\ kept[i] = burst[pick[i]]
  BY <1>2
<1> QED
  BY <1>4, <1>5 DEF Items

LEMMA ReturnKeeps ==
    ASSUME ProxyInv, lan # NoFetch, NEW len \in Nat, Return(len), UNCHANGED <<syns, user>>
    PROVE  ProxyInv'
<1> DEFINE f == Len(asked)
           u == px.user
           resp == [i \in 1 .. len |-> [fetch |-> f, byte |-> i]]
           s == ResponseSegments(px, resp)
           k == PxConn(px.user, px.port, px.rcv, px.conn, px.snd + len + 1, px.fetched)
           r == [conn |-> asked[f].conn, user |-> asked[f].user, port |-> asked[f].port, len |-> len]
<1>1. /\ AskedOk(asked, syns) /\ PxOk(px, lan, asked, syns)
      /\ UsersOk(asked, user) /\ DownOk(asked, pdown)
  BY DEF ProxyInv
<1>2. /\ lan' = NoFetch /\ asked' = [asked EXCEPT ![f].len = len]
      /\ px' = [px EXCEPT !.snd = px.snd + len + 1]
  BY DEF Return
<1>15. PICK kept \in Kept(Replies(resp)) : pdown' = [pdown EXCEPT ![u] = pdown[u] \o kept]
  BY DEF Return
<1>3. /\ px = PxConn(px.user, px.port, px.rcv, px.conn, px.snd, px.fetched)
      /\ u \in Users /\ px.conn \in 0 .. syns /\ px.snd = 1 /\ px.fetched
      /\ Made(asked, f, u, px.port, px.conn)
  <2>1. px # NoPx
    BY <1>1 DEF PxOk, NoPx
  <2> QED
    BY <1>1, <2>1 DEF PxOk
<1>4. f \in Nat /\ f \in 1 .. f /\ asked = [i \in 1 .. f |-> asked[i]]
  BY <1>1, <1>3, ListFacts DEF AskedOk, Made
<1>5. px' = k
  <2>1. With(px, "snd", px.snd + len + 1) = k
    <3>1. px = PxConn(px.user, px.port, px.rcv, px.conn, px.snd, px.fetched)
      BY <1>3
    <3> QED
      BY <3>1, PxFields
  <2> QED
    BY <1>2, <2>1 DEF With
<1>6. IsList(s) /\ \A m \in Items(s) : MsgOk(asked, u, m)
  <2> HIDE DEF f, u
  <2>1. resp = [i \in 1 .. len |-> [fetch |-> f, byte |-> i]]
    OBVIOUS
  <2> HIDE DEF resp
  <2> QED
    BY <1>3, <1>4, <2>1, SegmentsOk
<1>7. DownOk(asked, pdown')
  <2> DEFINE x == ProxySegment(px, {"ack"}, <<>>)
  <2>1. MsgOk(asked, u, x)
    BY <1>3, BareSegment
  <2>2. Replies(resp) = <<x>> \o s
    BY DEF Replies
  <2> HIDE DEF s, u, x, resp
  <2>3. IsList(<<x>>) /\ Items(<<x>>) = {x}
    <3>1. <<x>> = [i \in 1 .. 1 |-> <<x>>[i]]
      OBVIOUS
    <3>2. IsList(<<x>>) /\ Len(<<x>>) = 1
      BY <3>1, ListIntro
    <3> QED
      BY <3>2 DEF Items
  <2>4. IsList(Replies(resp)) /\ Items(Replies(resp)) \subseteq Items(<<x>>) \cup Items(s)
    BY <1>6, <2>2, <2>3, ListConcat
  <2>5. IsList(kept) /\ Items(kept) \subseteq Items(Replies(resp))
    BY <1>15, <2>4, KeptOk
  <2>6. \A m \in Items(kept) : MsgOk(asked, u, m)
    BY <1>6, <2>1, <2>3, <2>4, <2>5
  <2> QED
    BY <1>1, <1>3, <1>15, <2>5, <2>6, DownConcat
<1>8. /\ IsList(asked') /\ Len(asked') = f /\ asked'[f] = r
      /\ \A i \in 1 .. f : i # f => asked'[i] = asked[i]
  <2> HIDE DEF f
  <2>1. asked[f] = [conn |-> asked[f].conn, user |-> asked[f].user, port |-> asked[f].port, len |-> asked[f].len]
    BY <1>1, <1>3 DEF AskedOk, Made
  <2>2. [asked[f] EXCEPT !.len = len] = r
    BY <2>1
  <2>3. asked' = [asked EXCEPT ![f] = [asked[f] EXCEPT !.len = len]]
    BY <1>2
  <2> HIDE DEF r
  <2>4. asked' = [i \in 1 .. f |-> IF i = f THEN r ELSE asked[i]]
    BY <1>4, <2>2, <2>3
  <2>5. asked' = [i \in 1 .. f |-> asked'[i]]
    BY <2>4
  <2>6. IsList(asked') /\ Len(asked') = f
    BY <1>4, <2>5, ListIntro
  <2> QED
    BY <1>4, <2>4, <2>6
<1>9. r.conn = asked[f].conn /\ r.user = asked[f].user /\ r.port = asked[f].port
  OBVIOUS
<1>10. \A i \in 1 .. f : /\ asked'[i].conn = asked[i].conn /\ asked'[i].user = asked[i].user
                         /\ asked'[i].port = asked[i].port
  <2> HIDE DEF f, r
  <2> QED
    BY <1>8, <1>9
<1>11. AskedOk(asked', syns)
  <2>1. r = [conn |-> r.conn, user |-> r.user, port |-> r.port, len |-> r.len]
    OBVIOUS
  <2> HIDE DEF r
  <2>2. \A i \in 1 .. f : asked'[i] = [conn |-> asked'[i].conn, user |-> asked'[i].user,
                                      port |-> asked'[i].port, len |-> asked'[i].len]
    BY <1>1, <1>8, <2>1 DEF AskedOk
  <2> QED
    BY <1>1, <1>8, <1>10, <2>2 DEF AskedOk
<1>12. Grows(asked, asked')
  BY <1>8, <1>10 DEF Grows, Made
<1>13. UsersOk(asked', user) /\ DownOk(asked', pdown')
  BY <1>1, <1>7, <1>12, GrowthKeeps
<1>14. PxOk(k, NoFetch, asked', syns)
  <2>1. /\ k.user = px.user /\ k.port = px.port /\ k.rcv = px.rcv /\ k.conn = px.conn
        /\ k.snd = px.snd + len + 1 /\ k.fetched = px.fetched
    BY PxFields
  <2>2. k = PxConn(k.user, k.port, k.rcv, k.conn, k.snd, k.fetched)
    BY <2>1
  <2> HIDE DEF k
  <2>3. k.snd \in Nat
    BY <1>3, <2>1
  <2>4. k.user \in Users /\ k.conn \in 0 .. syns /\ k.fetched \in BOOLEAN /\ k.fetched
    BY <1>1, <1>3, <2>1 DEF PxOk
  <2>5. NoFetch = [at |-> NoFetch.at, len |-> NoFetch.len] /\ NoFetch.len \in Nat
    BY DEF NoFetch
  <2> QED
    BY <2>2, <2>3, <2>4, <2>5 DEF PxOk
<1> QED
  BY <1>2, <1>5, <1>11, <1>13, <1>14 DEF ProxyInv

LEMMA HandleKeeps ==
    ASSUME ProxyInv, NEW u \in Users, Handle(u)
    PROVE  ProxyInv'
<1>1. Idle
  BY DEF Idle, Handle
<1>2. PICK m : OnSyn(u, m) \/ OnReset(u, m) \/ OnRequest(u, m) \/ OnFin(u, m) \/ NotForUs(u, m)
  BY DEF Handle
<1> QED
  BY <1>1, <1>2, OnSynKeeps, OnResetKeeps, OnRequestKeeps, OnFinKeeps

LEMMA LanKeeps ==
    ASSUME ProxyInv, LanConnect \/ LanRead
    PROVE  ProxyInv'
<1>1. UNCHANGED <<syns, user>> /\ lan # NoFetch
  BY DEF LanConnect, LanRead, NoFetch
<1>2. lan = [at |-> lan.at, len |-> lan.len] /\ lan.len \in Nat
  BY DEF ProxyInv, PxOk
<1>3. ASSUME NEW at \in {"connect", "read"}, NEW len \in Nat, lan' = [at |-> at, len |-> len],
             UNCHANGED <<px, asked, pdown>>
      PROVE  ProxyInv'
  <2>1. /\ lan' = [at |-> lan'.at, len |-> lan'.len] /\ lan'.len \in Nat
    BY <1>3
  <2>2. PxOk(px, lan', asked, syns)
    BY <1>1, <2>1 DEF ProxyInv, PxOk
  <2> QED
    BY <1>1, <1>3, <2>2 DEF ProxyInv
<1>4. CASE \E len \in Nat : Return(len)
  BY <1>1, <1>4, ReturnKeeps
<1>5. CASE LanConnect
  <2>1. CASE lan' = [lan EXCEPT !.at = "read"] /\ UNCHANGED <<px, asked, pdown>>
    <3>1. lan' = [at |-> "read", len |-> lan.len]
      BY <1>2, <2>1
    <3> QED
      BY <1>2, <1>3, <2>1, <3>1
  <2>2. CASE Return(0)
    BY <1>4, <2>2
  <2> QED
    BY <1>5, <2>1, <2>2 DEF LanConnect
<1>6. CASE LanRead
  <2> DEFINE len == IF lan.len > FETCH_CAP THEN FETCH_CAP ELSE lan.len + 1
  <2>1. len \in Nat /\ lan.len \in Nat
    BY <1>2, ProxyAssumption
  <2>2. CASE Return(len) \/ Return(lan.len)
    BY <1>4, <2>1, <2>2
  <2>3. CASE lan' = [lan EXCEPT !.len = len] /\ UNCHANGED <<px, asked, pdown>>
    <3>1. lan.at = "read"
      BY <1>6 DEF LanRead
    <3> HIDE DEF len
    <3>2. lan' = [at |-> "read", len |-> len]
      BY <1>2, <2>3, <3>1
    <3> QED
      BY <1>3, <2>1, <2>3, <3>2
  <2> QED
    BY <1>6, <2>2, <2>3 DEF LanRead
<1> QED
  BY <1>5, <1>6

\* What the users do, and the network.
LEMMA UserKeeps ==
    ASSUME ProxyInv, NEW u \in Users,
           Open(u) \/ UserResend(u) \/ UserAbort(u) \/ LosePacket(u) \/ RepeatPacket(u)
    PROVE  ProxyInv'
<1> DEFINE c == user[u]
<1>1. UNCHANGED <<px, syns, lan, asked>>
  BY DEF Open, UserResend, UserAbort, LosePacket, RepeatPacket
<1>2. /\ AskedOk(asked, syns) /\ PxOk(px, lan, asked, syns)
      /\ UsersOk(asked, user) /\ DownOk(asked, pdown) /\ UserOk(asked, u, c)
  BY DEF ProxyInv, UsersOk
<1>3. DownOk(asked, pdown')
  <2>1. CASE UNCHANGED pdown
    BY <1>2, <2>1
  <2>2. CASE pdown[u] # <<>> /\ pdown' = [pdown EXCEPT ![u] = Tail(pdown[u])]
    BY <1>2, <2>2, DownTake
  <2> QED
    BY <2>1, <2>2 DEF Open, UserResend, UserAbort, LosePacket, RepeatPacket
<1>4. UsersOk(asked, user')
  <2>1. CASE UNCHANGED user
    BY <1>2, <2>1
  <2>2. CASE Open(u)
    <3> DEFINE n == [NoUser EXCEPT !.st = "syn", !.port = c.port + 1]
               k == UserConn("syn", c.port + 1, 0, 0, 0, <<>>)
    <3>1. NoUser = UserConn("closed", 0, 0, 0, 0, <<>>)
      BY DEF NoUser, UserConn
    <3>2. With(With(NoUser, "st", "syn"), "port", c.port + 1) = k
      <4>1. With(NoUser, "st", "syn") = UserConn("syn", 0, 0, 0, 0, <<>>)
        BY <3>1, WithFacts
      <4>2. With(UserConn("syn", 0, 0, 0, 0, <<>>), "port", c.port + 1) = k
        BY DEF UserConn, With
      <4> QED
        BY <4>1, <4>2
    <3>3. n = k
      BY <3>2 DEF With
    <3>4. user' = [user EXCEPT ![u] = k]
      BY <2>2, <3>3 DEF Open
    <3>5. k.st = "syn" /\ k.got = <<>>
      BY DEF UserConn
    <3>6. k = [st |-> k.st, port |-> k.port, conn |-> k.conn, rcv |-> k.rcv, acked |-> k.acked, got |-> k.got]
      BY DEF UserConn
    <3>7. <<>> \in Seq(Byte)
      OBVIOUS
    <3> HIDE DEF k
    <3>8. UserOk(asked, u, k)
      BY <3>5, <3>6, <3>7 DEF UserOk
    <3> QED
      BY <1>2, <3>4, <3>8, UserChange
  <2>3. CASE UserAbort(u)
    <3> DEFINE k == UserConn("closed", c.port, c.conn, c.rcv, c.acked, c.got)
    <3>1. c = UserConn(c.st, c.port, c.conn, c.rcv, c.acked, c.got)
      BY <1>2 DEF UserOk, UserConn
    <3>2. With(c, "st", "closed") = k
      BY <3>1, WithFacts
    <3>3. user' = [user EXCEPT ![u] = [c EXCEPT !.st = "closed"]]
      BY <2>3 DEF UserAbort
    <3>4. user' = [user EXCEPT ![u] = k]
      BY <3>2, <3>3 DEF With
    <3>5. k.st = "closed" /\ k.port = c.port /\ k.conn = c.conn /\ k.got = c.got
      BY DEF UserConn
    <3>6. k = [st |-> k.st, port |-> k.port, conn |-> k.conn, rcv |-> k.rcv, acked |-> k.acked, got |-> k.got]
      BY DEF UserConn
    <3> HIDE DEF k, c
    <3>7. UserOk(asked, u, k)
      BY <1>2, <3>5, <3>6 DEF UserOk
    <3> QED
      BY <1>2, <3>4, <3>7, UserChange
  <2> QED
    BY <2>1, <2>2, <2>3 DEF UserResend, LosePacket, RepeatPacket
<1> QED
  BY <1>1, <1>2, <1>3, <1>4 DEF ProxyInv

\* Whatever is lost, repeated, reordered or given up: what proxy.rs sends to a
\* user is the response to that user's own request on that very connection, and
\* a connection makes one request.
THEOREM AnswersReachOwner == ProxySpec => []AnswersOwner
<1>1. ProxyInit => ProxyInv
  <2> SUFFICES ASSUME ProxyInit
               PROVE  ProxyInv
    OBVIOUS
  <2>1. /\ px = NoPx /\ syns = 0 /\ lan = NoFetch /\ asked = <<>>
        /\ user = [u \in Users |-> NoUser] /\ pdown = [u \in Users |-> <<>>]
    BY DEF ProxyInit, ProxyStart
  <2>3. IsList(<<>>) /\ Len(<<>>) = 0 /\ <<>> \in Seq(Byte) /\ 1 .. 0 = {}
    <3>1. Len(<<>>) = 0 /\ <<>> \in Seq(Byte) /\ 1 .. 0 = {} /\ <<>> \in Seq(Items(<<>>))
      OBVIOUS
    <3> QED
      BY <3>1 DEF IsList
  <2>4. AskedOk(<<>>, 0)
    BY <2>3 DEF AskedOk
  <2>5. PxOk(NoPx, NoFetch, <<>>, 0)
    BY DEF PxOk, NoFetch
  <2>6. /\ NoUser.st = "closed" /\ NoUser.got = <<>>
        /\ NoUser = [st |-> NoUser.st, port |-> NoUser.port, conn |-> NoUser.conn, rcv |-> NoUser.rcv,
                     acked |-> NoUser.acked, got |-> NoUser.got]
    BY DEF NoUser
  <2>7. \A u \in Users : UserOk(<<>>, u, NoUser)
    BY <2>3, <2>6 DEF UserOk
  <2>8. UsersOk(<<>>, [u \in Users |-> NoUser])
    BY <2>7 DEF UsersOk
  <2>9. DownOk(<<>>, [u \in Users |-> <<>>])
    BY <2>3 DEF DownOk, Items
  <2> QED
    BY <2>1, <2>4, <2>5, <2>8, <2>9 DEF ProxyInv
<1>2. ProxyInv /\ [ProxyNext]_proxyVars => ProxyInv'
  <2> SUFFICES ASSUME ProxyInv, [ProxyNext]_proxyVars
               PROVE  ProxyInv'
    OBVIOUS
  <2>1. CASE UNCHANGED proxyVars
    BY <2>1 DEF ProxyInv, proxyVars
  <2>2. CASE LanConnect \/ LanRead
    BY <2>2, LanKeeps
  <2>3. CASE \E u \in Users : Handle(u) \/ UserReceive(u)
    BY <2>3, HandleKeeps, UserReceiveKeeps
  <2>4. CASE \E u \in Users : Open(u) \/ UserResend(u) \/ UserAbort(u) \/ LosePacket(u) \/ RepeatPacket(u)
    BY <2>4, UserKeeps
  <2> QED
    BY <2>1, <2>2, <2>3, <2>4 DEF ProxyNext
<1>3. ProxyInv => AnswersOwner
  <2> SUFFICES ASSUME ProxyInv
               PROVE  AnswersOwner
    OBVIOUS
  <2>1. AskedOk(asked, syns) /\ UsersOk(asked, user)
    BY DEF ProxyInv
  <2>2. \A i, j \in DOMAIN asked : asked[i].conn = asked[j].conn => i = j
    <3>1. DOMAIN asked = 1 .. Len(asked)
      BY <2>1, ListFacts DEF AskedOk
    <3> QED
      BY <2>1, <3>1 DEF AskedOk
  <2>3. ASSUME NEW u \in Users, user[u].got # <<>>
        PROVE  LET f == user[u].got[1].fetch
               IN /\ user[u].got = [i \in DOMAIN user[u].got |-> [fetch |-> f, byte |-> i]]
                  /\ asked[f].user = u /\ asked[f].port = user[u].port
    <3> DEFINE g == user[u].got
    <3>1. UserOk(asked, u, user[u])
      BY <2>1 DEF UsersOk
    <3>2. PICK h \in Nat : Made(asked, h, u, user[u].port, user[u].conn) /\ Carries(g, h, 0)
      BY <2>3, <3>1 DEF UserOk
    <3>3. g \in Seq(Byte) /\ g # <<>>
      BY <2>3, <3>1 DEF UserOk
    <3> HIDE DEF g
    <3>4. DOMAIN g = 1 .. Len(g) /\ Len(g) \in Nat /\ 1 \in 1 .. Len(g)
      BY <3>3, LenProperties, EmptySeq
    <3>5. \A i \in 1 .. Len(g) : 0 + i = i
      BY <3>4
    <3>6. g = [i \in 1 .. Len(g) |-> [fetch |-> h, byte |-> i]]
      BY <3>2, <3>5 DEF Carries
    <3>7. g[1] = [fetch |-> h, byte |-> 1]
      BY <3>4, <3>6
    <3>8. g[1].fetch = h
      BY <3>7
    <3> QED
      BY <3>2, <3>4, <3>6, <3>8 DEF Made, g
  <2> QED
    BY <2>2, <2>3 DEF AnswersOwner
<1> QED
  BY <1>1, <1>2, <1>3, PTL DEF ProxySpec

-----------------------------------------------------------------------------
(* The reflector: nothing goes round at once *)

Packet == [payload : AllPayloads, self : BOOLEAN]
Ages == [AllPayloads -> 0 .. DEDUP_MAX]

\* A payload on top of which fewer than DEDUP_MAX hashes have been remembered
\* is in the list, with no more than those behind it.
Remembered(q, ages) ==
    \A v \in AllPayloads :
        ages[v] < DEDUP_MAX =>
            \E i \in 1 .. Len(q) : q[i] = v /\ Len(q) - i <= ages[v]

SinceInv ==
    /\ {fwd, link, reinject, seen} \subseteq [Lans -> Seq(AllPayloads)]
    /\ sock \in [Lans -> Seq(Packet)] /\ since \in [Lans -> Ages]
    /\ \A r \in Lans : Remembered(seen[r], since[r])

\* What the socket of a dongle gets of one multicast.
LEMMA OnLanType ==
    ASSUME NEW r, NEW v \in AllPayloads, NEW self \in BOOLEAN
    PROVE  OnLan(r, v, self) \in Seq(Packet)
<1> DEFINE o == [payload |-> v, self |-> FALSE]
           c == [payload |-> v, self |-> self]
<1>1. [o EXCEPT !.self = self] = c /\ o \in Packet /\ c \in Packet
  BY DEF Packet
<1>2. OnLan(r, v, self) = <<c>> \o IF r \in Repeaters THEN <<o>> ELSE <<>>
  BY <1>1 DEF OnLan
<1> HIDE DEF o, c
<1>3. <<c>> \in Seq(Packet) /\ <<o>> \in Seq(Packet) /\ <<>> \in Seq(Packet)
  BY <1>1
<1>4. (IF r \in Repeaters THEN <<o>> ELSE <<>>) \in Seq(Packet)
  BY <1>3
<1> QED
  BY <1>2, <1>3, <1>4, ConcatFacts

\* remember(): every payload but the new one is one place further from the end.
LEMMA RememberKeeps ==
    ASSUME NEW q \in Seq(AllPayloads), NEW h \in AllPayloads, NEW ages \in Ages,
           Remembered(q, ages)
    PROVE  /\ Remember(q, h) \in Seq(AllPayloads) /\ Aged(ages) \in Ages
           /\ Remembered(Remember(q, h), Aged(ages))
           /\ [Aged(ages) EXCEPT ![h] = 0] \in Ages
           /\ Remembered(Remember(q, h), [Aged(ages) EXCEPT ![h] = 0])
<1> DEFINE p == IF Len(q) >= DEDUP_MAX THEN Tail(q) ELSE q
           a == Append(p, h)
           g == Aged(ages)
<1>0. DEDUP_MAX \in Nat /\ DEDUP_MAX > 0 /\ Len(q) \in Nat
  BY ReflectorAssumption, LenProperties
<1>1. /\ p \in Seq(AllPayloads) /\ Len(p) \in Nat
      /\ \/ Len(q) >= DEDUP_MAX /\ Len(p) = Len(q) - 1
            /\ \A i \in 1 .. Len(p) : p[i] = q[i + 1]
         \/ Len(q) < DEDUP_MAX /\ p = q
  <2>1. CASE Len(q) >= DEDUP_MAX
    <3>1. q # <<>>
      BY <1>0, <2>1
    <3> QED
      BY <1>0, <2>1, <3>1, TailFacts
  <2>2. CASE Len(q) < DEDUP_MAX
    BY <1>0, <2>2
  <2> QED
    BY <1>0, <2>1, <2>2
<1>2. Remember(q, h) = a
  BY DEF Remember
<1> HIDE DEF p
<1>3. /\ a \in Seq(AllPayloads) /\ Len(a) = Len(p) + 1 /\ a[Len(p) + 1] = h
      /\ \A i \in 1 .. Len(p) : a[i] = p[i]
  BY <1>1, AppendFacts
<1> HIDE DEF a
<1>4. /\ g \in Ages
      /\ \A v \in AllPayloads : /\ ages[v] \in 0 .. DEDUP_MAX
                                /\ g[v] < DEDUP_MAX => ages[v] < DEDUP_MAX /\ g[v] = ages[v] + 1
  BY <1>0 DEF Aged, Ages
<1> HIDE DEF g
<1>5. Remembered(a, g)
  <2> SUFFICES ASSUME NEW v \in AllPayloads, g[v] < DEDUP_MAX
               PROVE  \E i \in 1 .. Len(a) : a[i] = v /\ Len(a) - i <= g[v]
    BY DEF Remembered
  <2>1. ages[v] \in Nat /\ ages[v] + 1 < DEDUP_MAX /\ g[v] = ages[v] + 1
    BY <1>0, <1>4
  <2>2. PICK i \in 1 .. Len(q) : q[i] = v /\ Len(q) - i <= ages[v]
    BY <1>0, <2>1 DEF Remembered
  <2>3. CASE Len(q) >= DEDUP_MAX /\ Len(p) = Len(q) - 1 /\ \A j \in 1 .. Len(p) : p[j] = q[j + 1]
    <3>1. i - 1 \in 1 .. Len(p) /\ (i - 1) + 1 = i
      BY <1>0, <1>1, <2>1, <2>2, <2>3
    <3>2. a[i - 1] = v
      BY <1>3, <2>2, <2>3, <3>1
    <3>3. i - 1 \in 1 .. Len(a) /\ Len(a) - (i - 1) <= g[v]
      BY <1>0, <1>1, <1>3, <2>1, <2>2, <2>3, <3>1
    <3> QED
      BY <3>2, <3>3
  <2>4. CASE p = q
    BY <1>0, <1>3, <2>1, <2>2, <2>4
  <2> QED
    BY <1>1, <2>3, <2>4
<1>6. /\ [g EXCEPT ![h] = 0] \in Ages /\ [g EXCEPT ![h] = 0][h] = 0
      /\ \A v \in AllPayloads : v # h => [g EXCEPT ![h] = 0][v] = g[v]
  BY <1>0, <1>4 DEF Ages
<1>7. Remembered(a, [g EXCEPT ![h] = 0])
  <2> SUFFICES ASSUME NEW v \in AllPayloads, [g EXCEPT ![h] = 0][v] < DEDUP_MAX
               PROVE  \E i \in 1 .. Len(a) : a[i] = v /\ Len(a) - i <= [g EXCEPT ![h] = 0][v]
    BY DEF Remembered
  <2>1. CASE v = h
    BY <1>1, <1>3, <1>6, <2>1
  <2>2. CASE v # h
    BY <1>5, <1>6, <2>2 DEF Remembered
  <2> QED
    BY <2>1, <2>2
<1> QED
  BY <1>2, <1>3, <1>4, <1>5, <1>6, <1>7 DEF g

\* The dongle multicasts a payload of its partner.
LEMMA ReinjectKeeps ==
    ASSUME SinceInv, NEW r \in Lans, Reinject(r)
    PROVE  SinceInv'
<1> DEFINE v == Head(reinject[r])
<1>1. /\ reinject[r] # <<>> /\ reinject' = [reinject EXCEPT ![r] = Tail(@)]
      /\ seen' = [seen EXCEPT ![r] = Remember(@, v)]
      /\ sock' = [sock EXCEPT ![r] = @ \o OnLan(r, v, TRUE)]
      /\ since' = [since EXCEPT ![r] = [Aged(@) EXCEPT ![v] = 0]]
      /\ UNCHANGED <<fwd, link>>
  BY DEF Reinject, ReinjectRemembers
<1>2. /\ {fwd, link, reinject, seen} \subseteq [Lans -> Seq(AllPayloads)]
      /\ sock \in [Lans -> Seq(Packet)] /\ since \in [Lans -> Ages]
      /\ Remembered(seen[r], since[r])
  BY DEF SinceInv
<1>3. v \in AllPayloads /\ Tail(reinject[r]) \in Seq(AllPayloads)
  BY <1>1, <1>2, TailFacts
<1> HIDE DEF v
<1>4. sock[r] \o OnLan(r, v, TRUE) \in Seq(Packet)
  BY <1>2, <1>3, OnLanType, ConcatFacts
<1>5. /\ Remember(seen[r], v) \in Seq(AllPayloads) /\ [Aged(since[r]) EXCEPT ![v] = 0] \in Ages
      /\ Remembered(Remember(seen[r], v), [Aged(since[r]) EXCEPT ![v] = 0])
  BY <1>2, <1>3, RememberKeeps
<1>6. /\ {fwd, link, reinject, seen}' \subseteq [Lans -> Seq(AllPayloads)]
      /\ sock' \in [Lans -> Seq(Packet)] /\ since' \in [Lans -> Ages]
  <2>1. /\ reinject' \in [Lans -> Seq(AllPayloads)] /\ seen' \in [Lans -> Seq(AllPayloads)]
        /\ fwd' = fwd /\ link' = link
    BY <1>1, <1>2, <1>3, <1>5
  <2>2. sock' \in [Lans -> Seq(Packet)]
    BY <1>1, <1>2, <1>4
  <2>3. since' \in [Lans -> Ages]
    BY <1>1, <1>2, <1>5
  <2> QED
    BY <1>2, <2>1, <2>2, <2>3
<1>7. /\ seen'[r] = Remember(seen[r], v) /\ since'[r] = [Aged(since[r]) EXCEPT ![v] = 0]
      /\ \A l \in Lans : l # r => seen'[l] = seen[l] /\ since'[l] = since[l]
  BY <1>1, <1>2
<1>8. \A l \in Lans : Remembered(seen'[l], since'[l])
  BY <1>5, <1>7 DEF SinceInv
<1> QED
  BY <1>6, <1>8 DEF SinceInv, Remembered

\* The dongle takes a packet from its socket: one that it hands on is not in the
\* list.
LEMMA CaptureKeeps ==
    ASSUME SinceInv, NEW r \in Lans, Capture(r)
    PROVE  /\ SinceInv'
           /\ \/ UNCHANGED fwd
              \/ \E v \in AllPayloads : /\ fwd' = [fwd EXCEPT ![r] = Append(@, v)]
                                        /\ since[r][v] = DEDUP_MAX
<1> DEFINE m == Head(sock[r])
<1>1. /\ sock[r] # <<>> /\ sock' = [sock EXCEPT ![r] = Tail(@)] /\ UNCHANGED <<reinject, link>>
      /\ \/ /\ m.payload \notin ToSet(seen[r])
            /\ seen' = [seen EXCEPT ![r] = Remember(@, m.payload)]
            /\ fwd' = [fwd EXCEPT ![r] = Append(@, m.payload)]
            /\ since' = [since EXCEPT ![r] = Aged(@)]
         \/ UNCHANGED <<seen, fwd, since>>
  BY DEF Capture, Forwards
<1>2. /\ {fwd, link, reinject, seen} \subseteq [Lans -> Seq(AllPayloads)]
      /\ sock \in [Lans -> Seq(Packet)] /\ since \in [Lans -> Ages]
      /\ Remembered(seen[r], since[r])
  BY DEF SinceInv
<1>3. m.payload \in AllPayloads /\ sock' \in [Lans -> Seq(Packet)]
  <2>1. m \in Packet /\ Tail(sock[r]) \in Seq(Packet)
    BY <1>1, <1>2, TailFacts
  <2> QED
    BY <1>1, <1>2, <2>1 DEF Packet
<1> DEFINE v == m.payload
<1> HIDE DEF m
<1>4. CASE UNCHANGED <<seen, fwd, since>>
  BY <1>1, <1>2, <1>3, <1>4 DEF SinceInv, Remembered
<1>5. CASE /\ v \notin ToSet(seen[r])
           /\ seen' = [seen EXCEPT ![r] = Remember(@, v)]
           /\ fwd' = [fwd EXCEPT ![r] = Append(@, v)]
           /\ since' = [since EXCEPT ![r] = Aged(@)]
  <2>1. v \in AllPayloads
    BY <1>3
  <2> HIDE DEF v
  <2>2. /\ Remember(seen[r], v) \in Seq(AllPayloads) /\ Aged(since[r]) \in Ages
        /\ Remembered(Remember(seen[r], v), Aged(since[r]))
    BY <1>2, <2>1, RememberKeeps
  <2>3. Append(fwd[r], v) \in Seq(AllPayloads)
    BY <1>2, <2>1, AppendFacts
  <2>4. {fwd, link, reinject, seen}' \subseteq [Lans -> Seq(AllPayloads)] /\ since' \in [Lans -> Ages]
    BY <1>1, <1>2, <1>5, <2>2, <2>3
  <2>5. /\ seen'[r] = Remember(seen[r], v) /\ since'[r] = Aged(since[r])
        /\ \A l \in Lans : l # r => seen'[l] = seen[l] /\ since'[l] = since[l]
    BY <1>2, <1>5
  <2>6. \A l \in Lans : Remembered(seen'[l], since'[l])
    BY <2>2, <2>5 DEF SinceInv
  <2>7. since[r][v] = DEDUP_MAX
    <3>1. since[r][v] \in 0 .. DEDUP_MAX /\ DEDUP_MAX \in Nat
      BY <1>2, <2>1, ReflectorAssumption DEF Ages
    <3>2. \A i \in 1 .. Len(seen[r]) : seen[r][i] # v
      <4>1. DOMAIN seen[r] = 1 .. Len(seen[r])
        BY <1>2, LenProperties
      <4> QED
        BY <1>5, <4>1 DEF ToSet
    <3>3. ~(since[r][v] < DEDUP_MAX)
      BY <1>2, <2>1, <3>2 DEF Remembered
    <3> QED
      BY <3>1, <3>3
  <2> QED
    BY <1>3, <1>5, <2>1, <2>4, <2>6, <2>7 DEF SinceInv, Remembered
<1> QED
  BY <1>1, <1>4, <1>5

\* A host sends, or a payload goes on its way to the other dongle.
LEMMA CarryKeeps ==
    ASSUME SinceInv, NEW r \in Lans,
           (\E v \in AllPayloads : HostSends(r, v)) \/ Pair(r) \/ MdnsDrain(r) \/ FromPartner(r)
    PROVE  SinceInv' /\ (UNCHANGED fwd \/ (fwd' = [fwd EXCEPT ![r] = Tail(@)] /\ fwd[r] # <<>>))
<1>1. /\ {fwd, link, reinject, seen} \subseteq [Lans -> Seq(AllPayloads)]
      /\ sock \in [Lans -> Seq(Packet)] /\ since \in [Lans -> Ages]
  BY DEF SinceInv
<1>2. CASE \E v \in AllPayloads : HostSends(r, v)
  <2>1. PICK v \in AllPayloads : HostSends(r, v)
    BY <1>2
  <2>2. sock[r] \o OnLan(r, v, FALSE) \in Seq(Packet)
    BY <1>1, OnLanType, ConcatFacts
  <2>3. /\ sock' = [sock EXCEPT ![r] = @ \o OnLan(r, v, FALSE)]
        /\ UNCHANGED <<seen, fwd, reinject, link, since>>
    BY <2>1 DEF HostSends
  <2> QED
    BY <1>1, <2>2, <2>3 DEF SinceInv, Remembered
<1>3. CASE Pair(r)
  BY <1>3 DEF Pair, SinceInv, Remembered
<1>4. CASE MdnsDrain(r)
  <2>1. Head(fwd[r]) \in AllPayloads /\ Tail(fwd[r]) \in Seq(AllPayloads)
    BY <1>1, <1>4, TailFacts DEF MdnsDrain
  <2>2. Append(link[r], Head(fwd[r])) \in Seq(AllPayloads)
    BY <1>1, <2>1, AppendFacts
  <2>3. fwd' \in [Lans -> Seq(AllPayloads)] /\ link' \in [Lans -> Seq(AllPayloads)]
    BY <1>1, <1>4, <2>1, <2>2 DEF MdnsDrain
  <2> QED
    BY <1>1, <1>4, <2>3 DEF MdnsDrain, SinceInv, Remembered
<1>5. CASE FromPartner(r)
  <2>1. Head(link[r]) \in AllPayloads /\ Tail(link[r]) \in Seq(AllPayloads)
    BY <1>1, <1>5, TailFacts DEF FromPartner
  <2>2. \A l \in Lans : Append(reinject[l], Head(link[r])) \in Seq(AllPayloads)
    BY <1>1, <2>1, AppendFacts
  <2>3. link' \in [Lans -> Seq(AllPayloads)] /\ reinject' \in [Lans -> Seq(AllPayloads)]
    BY <1>1, <1>5, <2>1, <2>2 DEF FromPartner
  <2> QED
    BY <1>1, <1>5, <2>3 DEF FromPartner, SinceInv, Remembered
<1> QED
  BY <1>2, <1>3, <1>4, <1>5

\* "Never forward a packet we just re-injected" (run in src/mdns.rs), for every
\* length of the list of hashes and also when it forgets: whatever is repeated
\* on the LAN, a dongle hands on what it has injected only after DEDUP_MAX
\* hashes have been remembered on top of it.
THEOREM NothingJustReinjected == ReflectorSpec => NotJustReinjected
<1>1. MdnsInit => SinceInv
  <2> SUFFICES ASSUME MdnsInit
               PROVE  SinceInv
    OBVIOUS
  <2>1. /\ seen = [r \in Lans |-> <<>>] /\ sock = seen /\ fwd = seen
        /\ reinject = seen /\ link = seen
        /\ since = [r \in Lans |-> [v \in AllPayloads |-> DEDUP_MAX]]
    BY DEF MdnsInit, MdnsStart
  <2>2. <<>> \in Seq(AllPayloads) /\ <<>> \in Seq(Packet) /\ DEDUP_MAX \in 0 .. DEDUP_MAX
    BY ReflectorAssumption
  <2>3. since \in [Lans -> Ages]
    BY <2>1, <2>2 DEF Ages
  <2>4. \A r \in Lans : Remembered(seen[r], since[r])
    BY <2>1, ReflectorAssumption DEF Remembered
  <2> QED
    BY <2>1, <2>2, <2>3, <2>4 DEF SinceInv
<1>2. SinceInv /\ [MdnsNext]_mdnsVars
        => /\ SinceInv'
           /\ [\A r \in Lans : \A v \in AllPayloads :
                 fwd'[r] = Append(fwd[r], v) => since[r][v] = DEDUP_MAX]_mdnsVars
  <2> SUFFICES ASSUME SinceInv, [MdnsNext]_mdnsVars
               PROVE  /\ SinceInv'
                      /\ \A r \in Lans : \A v \in AllPayloads :
                           fwd'[r] = Append(fwd[r], v) => since[r][v] = DEDUP_MAX
    OBVIOUS
  <2>1. fwd \in [Lans -> Seq(AllPayloads)]
    BY DEF SinceInv
  <2>2. \A r \in Lans : \A v \in AllPayloads :
          /\ Len(fwd[r]) \in Nat /\ Len(Append(fwd[r], v)) = Len(fwd[r]) + 1
          /\ Append(fwd[r], v)[Len(fwd[r]) + 1] = v
          /\ fwd[r] # <<>> => Len(Tail(fwd[r])) = Len(fwd[r]) - 1
    BY <2>1, AppendFacts, TailFacts
  <2>3. CASE UNCHANGED mdnsVars
    BY <2>2, <2>3 DEF mdnsVars, SinceInv, Remembered
  <2>4. ASSUME NEW l \in Lans,
               \/ \E v \in AllPayloads : HostSends(l, v)
               \/ Pair(l) \/ Reinject(l) \/ MdnsDrain(l) \/ FromPartner(l)
        PROVE  /\ SinceInv'
               /\ \A r \in Lans : \A v \in AllPayloads : fwd'[r] # Append(fwd[r], v)
    <3>1. SinceInv' /\ (UNCHANGED fwd \/ (fwd' = [fwd EXCEPT ![l] = Tail(@)] /\ fwd[l] # <<>>))
      BY <2>4, CarryKeeps, ReinjectKeeps DEF Reinject
    <3>2. CASE UNCHANGED fwd
      BY <2>2, <3>1, <3>2
    <3>3. CASE fwd' = [fwd EXCEPT ![l] = Tail(@)] /\ fwd[l] # <<>>
      <4>1. \A r \in Lans : fwd'[r] = IF r = l THEN Tail(fwd[l]) ELSE fwd[r]
        BY <2>1, <3>3
      <4> QED
        BY <2>2, <3>1, <3>3, <4>1
    <3> QED
      BY <3>1, <3>2, <3>3
  <2>5. ASSUME NEW l \in Lans, Capture(l)
        PROVE  /\ SinceInv'
               /\ \A r \in Lans : \A v \in AllPayloads :
                    fwd'[r] = Append(fwd[r], v) => since[r][v] = DEDUP_MAX
    <3>1. CASE UNCHANGED fwd
      BY <2>2, <2>5, <3>1, CaptureKeeps
    <3>2. CASE ~UNCHANGED fwd
      <4>1. PICK w \in AllPayloads : /\ fwd' = [fwd EXCEPT ![l] = Append(@, w)]
                                     /\ since[l][w] = DEDUP_MAX
        BY <2>5, <3>2, CaptureKeeps
      <4>2. \A r \in Lans : fwd'[r] = IF r = l THEN Append(fwd[l], w) ELSE fwd[r]
        BY <2>1, <4>1
      <4> SUFFICES ASSUME NEW r \in Lans, NEW v \in AllPayloads, fwd'[r] = Append(fwd[r], v)
                   PROVE  since[r][v] = DEDUP_MAX
        BY <2>5, CaptureKeeps
      <4>3. r = l
        BY <2>2, <4>2
      <4>4. v = w
        <5>1. Append(fwd[l], v) = Append(fwd[l], w)
          BY <4>2, <4>3
        <5> QED
          BY <2>2, <5>1
      <4> QED
        BY <4>1, <4>3, <4>4
    <3> QED
      BY <3>1, <3>2
  <2> QED
    BY <2>3, <2>4, <2>5 DEF MdnsNext, MdnsThread
<1> QED
  BY <1>1, <1>2, PTL DEF ReflectorSpec, NotJustReinjected
=============================================================================
