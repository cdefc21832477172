-------------------------- MODULE SerialLinkProofs --------------------------
(***************************************************************************)
(* Proofs about SerialLink, for every MAX_LINE and every set of sessions:  *)
(* one timeout of the host leaves at most one stale reply behind, also     *)
(* when the device resets (LagBounded).                                    *)
(*                                                                         *)
(* Why it holds.  Everything that is still to come, a byte of a request on *)
(* its way up or in the device's line, or a reply on its way down, is of a *)
(* request that lags behind the current one by no more than there were     *)
(* timeouts (AllPending).  The replies under way, and the lines the device *)
(* has yet to answer, come in the order of their requests and no request   *)
(* comes twice (LinesOrdered, RepliesOrdered, RepliesFirst).  So taking a  *)
(* reply moves the host one request on and what is left is at least one    *)
(* request later.  That no request is answered twice needs that the device *)
(* never overflows: a byte it reads stands further on in its line than the *)
(* number of bytes collected (Flows).                                      *)
(***************************************************************************)
EXTENDS SerialLink, SequenceFacts, FiniteSetTheorems, TLAPS

Byte == [t : {"byte"}, req : Nat, pos : Nat, len : Nat]
Token == [t : {"OK", "ERR", "rest"}, req : Nat] \cup {[t |-> "text"], NL}
Entry == [asked : Nat, kind : {"value", "error", "timeout"}, of : Nat]

IsMark(x) == x.t \in {"OK", "ERR"}

LinkType ==
    /\ up \in Seq(Byte \cup {NL}) /\ down \in Seq(Token) /\ line \in Seq(Byte)
    /\ host \in [reading : BOOLEAN, line : Seq(Token)]
    /\ got \in Seq(Entry)

\* Lines come whole to their end, and of a line the device has not read to its
\* end there is more to come than it has collected.
Flows ==
    /\ up = <<>> => line = <<>>
    /\ up # <<>> => up[Len(up)] = NL
    /\ \A i \in 1 .. Len(up) : up[i] # NL => up[i].pos \in 1 .. MAX_LINE
    /\ up # <<>> /\ up[1] # NL => up[1].pos > Len(line)
    /\ \A i, j \in 1 .. Len(up) :
          j = i + 1 /\ up[i] # NL /\ up[j] # NL => up[i].pos < up[j].pos

\* A byte of a later line is of a later request.
LinesOrdered ==
    /\ \A i, h, j \in 1 .. Len(up) :
          i < h /\ h < j /\ up[i] # NL /\ up[h] = NL /\ up[j] # NL
             => up[i].req < up[j].req
    /\ \A h, j \in 1 .. Len(up) :
          line # <<>> /\ h < j /\ up[h] = NL /\ up[j] # NL
             => line[Len(line)].req < up[j].req

\* Replies come in the order of their requests, before those to the lines that
\* the device has not answered.
RepliesOrdered ==
    /\ \A i, j \in 1 .. Len(down) :
          i < j /\ IsMark(down[i]) /\ IsMark(down[j]) => down[i].req < down[j].req
    /\ \A i \in 1 .. Len(host.line), j \in 1 .. Len(down) :
          IsMark(host.line[i]) /\ IsMark(down[j]) => host.line[i].req < down[j].req

\* A reply that the host has not taken is before what the device has not answered.
Before(r) ==
    /\ \A j \in 1 .. Len(up) : up[j] # NL => r < up[j].req
    /\ line # <<>> => r < line[Len(line)].req

RepliesFirst ==
    /\ \A i \in 1 .. Len(down) : IsMark(down[i]) => Before(down[i].req)
    /\ \A i \in 1 .. Len(host.line) : IsMark(host.line[i]) => Before(host.line[i].req)

Timeouts(g, n) == Cardinality({j \in 1 .. n : g[j].kind = "timeout"})

\* A request that is behind by no more than there were timeouts.
Pending(r) ==
    /\ Len(got) < r + Timeouts(got, Len(got))
    /\ r <= Len(got) + 1
    /\ ~host.reading => r <= Len(got)

AllPending ==
    /\ \A i \in 1 .. Len(up) : up[i] # NL => Pending(up[i].req)
    /\ line # <<>> => Pending(line[Len(line)].req)
    /\ \A i \in 1 .. Len(down) : IsMark(down[i]) => Pending(down[i].req)
    /\ \A i \in 1 .. Len(host.line) : IsMark(host.line[i]) => Pending(host.line[i].req)

Returned ==
    \A i \in 1 .. Len(got) :
      got[i].of # 0 => /\ got[i].asked = i /\ got[i].of <= i
                       /\ i - got[i].of <= Timeouts(got, i - 1)

FitInv ==
    LinkType /\ Flows /\ LinesOrdered /\ RepliesOrdered /\ RepliesFirst
    /\ AllPending /\ Returned

LinkInv == session \in Sessions /\ (RequestsFit => FitInv)

-----------------------------------------------------------------------------
(* Counting timeouts *)

LEMMA TimeoutsType ==
    ASSUME NEW g, NEW n \in Nat
    PROVE  Timeouts(g, n) \in Nat
<1>1. IsFiniteSet(1 .. n)
  BY FS_Interval
<1>2. IsFiniteSet({j \in 1 .. n : g[j].kind = "timeout"})
  BY <1>1, FS_Subset
<1> QED
  BY <1>2, FS_CardinalityType DEF Timeouts

LEMMA TimeoutsSame ==
    ASSUME NEW g, NEW h, NEW n \in Nat, \A j \in 1 .. n : g[j] = h[j]
    PROVE  Timeouts(g, n) = Timeouts(h, n)
<1>1. {j \in 1 .. n : g[j].kind = "timeout"} = {j \in 1 .. n : h[j].kind = "timeout"}
  OBVIOUS
<1> QED
  BY <1>1 DEF Timeouts

LEMMA TimeoutsStep ==
    ASSUME NEW g, NEW n \in Nat
    PROVE  Timeouts(g, n + 1)
             = Timeouts(g, n) + (IF g[n + 1].kind = "timeout" THEN 1 ELSE 0)
<1> DEFINE T == {j \in 1 .. n : g[j].kind = "timeout"}
<1>0. /\ Timeouts(g, n) = Cardinality(T)
      /\ Timeouts(g, n + 1) = Cardinality({j \in 1 .. n + 1 : g[j].kind = "timeout"})
  BY DEF Timeouts
<1>1. IsFiniteSet(1 .. n)
  BY FS_Interval
<1>2. IsFiniteSet(T) /\ n + 1 \notin T
  BY <1>1, FS_Subset
<1>3. Cardinality(T) \in Nat
  BY <1>2, FS_CardinalityType
<1>4. CASE g[n + 1].kind = "timeout"
  <2>1. {j \in 1 .. n + 1 : g[j].kind = "timeout"} = T \cup {n + 1}
    BY <1>4
  <2>2. Cardinality(T \cup {n + 1}) = Cardinality(T) + 1
    BY <1>2, FS_AddElement
  <2> HIDE DEF T
  <2> QED
    BY <1>0, <1>4, <2>1, <2>2, Zenon
<1>5. CASE g[n + 1].kind # "timeout"
  <2>1. {j \in 1 .. n + 1 : g[j].kind = "timeout"} = T
    BY <1>5
  <2> HIDE DEF T
  <2> QED
    BY <1>0, <1>3, <1>5, <2>1, SMT
<1> QED
  BY <1>4, <1>5

-----------------------------------------------------------------------------
(* The inductive invariant *)

LEMMA Elements ==
    ASSUME LinkType
    PROVE  /\ Len(up) \in Nat /\ Len(down) \in Nat /\ Len(line) \in Nat
           /\ Len(host.line) \in Nat /\ Len(got) \in Nat
           /\ Timeouts(got, Len(got)) \in Nat
           /\ \A i \in 1 .. Len(up) :
                 up[i] # NL => up[i] \in Byte /\ up[i].req \in Nat /\ up[i].pos \in Nat
           /\ line # <<>> => line[Len(line)].req \in Nat /\ Len(line) # 0
           /\ \A i \in 1 .. Len(down) : IsMark(down[i]) => down[i].req \in Nat
           /\ \A i \in 1 .. Len(host.line) :
                 IsMark(host.line[i]) => host.line[i].req \in Nat
<1>1. /\ Len(up) \in Nat /\ Len(down) \in Nat /\ Len(line) \in Nat
      /\ Len(host.line) \in Nat /\ Len(got) \in Nat
  BY LenProperties DEF LinkType
<1>2. Timeouts(got, Len(got)) \in Nat
  BY <1>1, TimeoutsType
<1>3. \A i \in 1 .. Len(up) : up[i] \in Byte \cup {NL}
  BY ElementOfSeq DEF LinkType
<1>4. line # <<>> => line[Len(line)] \in Byte /\ Len(line) # 0
  BY <1>1, EmptySeq, ElementOfSeq DEF LinkType
<1>5. \A x \in Token : IsMark(x) => x.req \in Nat
  BY DEF Token, IsMark, NL
<1>6. \A i \in 1 .. Len(down) : down[i] \in Token
  BY ElementOfSeq DEF LinkType
<1>7. host.line \in Seq(Token)
  BY DEF LinkType
<1>8. \A i \in 1 .. Len(host.line) : host.line[i] \in Token
  BY <1>7, ElementOfSeq
<1> QED
  BY <1>1, <1>2, <1>3, <1>4, <1>5, <1>6, <1>8 DEF Byte

\* The device collects a byte; it has room for it.
LEMMA ByteKeeps ==
    ASSUME FitInv, RequestsFit, LinkAssumption, DeviceByte
    PROVE  FitInv'
<1> USE DEF FitInv
<1>1. /\ up # <<>> /\ Head(up) # NL /\ up' = Tail(up)
      /\ host' = host /\ got' = got /\ session' = session
  BY DEF DeviceByte
<1>2. /\ Len(up) \in Nat /\ 1 <= Len(up) /\ Head(up) = up[1]
      /\ up' \in Seq(Byte \cup {NL}) /\ Len(up') = Len(up) - 1
      /\ \A i \in 1 .. Len(up) - 1 : up'[i] = up[i + 1]
  BY <1>1, TailFacts DEF LinkType
<1>3. up[1] \in Byte /\ up[1].pos \in Nat /\ up[1].pos <= MAX_LINE /\ up[1].pos > Len(line)
  BY <1>1, <1>2, Elements, LinkAssumption DEF Flows
<1>4. line' = Append(line, up[1]) /\ down' = down
  BY <1>1, <1>2, <1>3, Elements, LinkAssumption DEF DeviceByte, Fits
<1>5. /\ line' \in Seq(Byte) /\ Len(line') = Len(line) + 1 /\ Len(line) \in Nat
      /\ line' # <<>> /\ line'[Len(line')] = up[1]
  BY <1>3, <1>4, AppendFacts DEF LinkType
<1>6. LinkType'
  BY <1>1, <1>2, <1>4, <1>5 DEF LinkType
<1>7. Len(up) # 1
  BY <1>1, <1>2 DEF Flows
<1>8. up' # <<>> /\ up'[Len(up')] = up[Len(up)]
  BY <1>2, <1>7, EmptySeq
<1>9. Flows'
  <2>1. ASSUME up'[1] # NL
        PROVE  up'[1].pos > Len(line')
    <3>1. /\ 1 \in 1 .. Len(up) /\ 2 \in 1 .. Len(up) /\ 2 = 1 + 1
          /\ up'[1] = up[2] /\ up[1] # NL /\ up[2] # NL
      BY <1>1, <1>2, <1>7, <2>1
    <3>2. up[1].pos < up[2].pos
      BY <3>1, Zenon DEF Flows
    <3>3. up[2].pos \in Nat
      BY <3>1, Elements
    <3> QED
      BY <1>3, <1>5, <3>1, <3>2, <3>3
  <2>2. ASSUME NEW i \in 1 .. Len(up'), NEW j \in 1 .. Len(up'),
               j = i + 1, up'[i] # NL, up'[j] # NL
        PROVE  up'[i].pos < up'[j].pos
    <3>1. /\ i + 1 \in 1 .. Len(up) /\ j + 1 \in 1 .. Len(up) /\ j + 1 = (i + 1) + 1
          /\ up'[i] = up[i + 1] /\ up'[j] = up[j + 1]
      BY <1>2, <2>2
    <3> QED
      BY <2>2, <3>1, Zenon DEF Flows
  <2>3. \A i \in 1 .. Len(up') : up'[i] # NL => up'[i].pos \in 1 .. MAX_LINE
    BY <1>2 DEF Flows
  <2> QED
    BY <1>1, <1>8, <2>1, <2>2, <2>3 DEF Flows
<1>10. LinesOrdered'
  BY <1>1, <1>2, <1>5 DEF LinesOrdered
<1>11. RepliesOrdered'
  BY <1>1, <1>4 DEF RepliesOrdered
<1>12. \A r : Before(r) => Before(r)'
  BY <1>1, <1>2, <1>5 DEF Before
<1>13. RepliesFirst'
  BY <1>1, <1>4, <1>12 DEF RepliesFirst
<1>14. \A r : Pending(r)' = Pending(r)
  BY <1>1 DEF Pending
<1>15. AllPending'
  <2>1. \A i \in 1 .. Len(up') : up'[i] # NL => Pending(up'[i].req)
    <3>1. \A i \in 1 .. Len(up') : i + 1 \in 1 .. Len(up) /\ up'[i] = up[i + 1]
      BY <1>2
    <3> QED
      BY <3>1 DEF AllPending
  <2>2. Pending(line'[Len(line')].req)
    BY <1>1, <1>2, <1>5 DEF AllPending
  <2> QED
    BY <1>1, <1>4, <1>14, <2>1, <2>2 DEF AllPending
<1> QED
  BY <1>1, <1>6, <1>9, <1>10, <1>11, <1>13, <1>15 DEF Returned

\* The device answers the line it has collected, or skips an empty one.
LEMMA LineEndKeeps ==
    ASSUME FitInv, RequestsFit, LinkAssumption, DeviceLineEnd
    PROVE  FitInv'
<1> USE DEF FitInv
<1>1. /\ up # <<>> /\ Head(up) = NL /\ up' = Tail(up) /\ line' = <<>>
      /\ host' = host /\ got' = got /\ session' = session
  BY DEF DeviceLineEnd
<1>2. /\ Len(up) \in Nat /\ 1 <= Len(up) /\ up[1] = NL
      /\ up' \in Seq(Byte \cup {NL}) /\ Len(up') = Len(up) - 1
      /\ \A i \in 1 .. Len(up) - 1 : up'[i] = up[i + 1]
  BY <1>1, TailFacts DEF LinkType
<1>3. line' \in Seq(Byte) /\ Len(line') = 0
  BY <1>1, EmptySeq
<1>4. up' # <<>> => up'[Len(up')] = up[Len(up)]
  <2>1. up' # <<>> => Len(up') \in Nat \ {0}
    BY <1>2, EmptySeq
  <2> QED
    BY <1>2, <2>1
<1>5. Flows'
  <2>1. up' # <<>> /\ up'[1] # NL => up'[1].pos > Len(line')
    <3>1. up' # <<>> => Len(up') \in Nat \ {0}
      BY <1>2, EmptySeq
    <3>2. up' # <<>> /\ up'[1] # NL => up'[1].pos \in 1 .. MAX_LINE
      BY <1>2, <3>1 DEF Flows
    <3> QED
      BY <1>3, <3>2, LinkAssumption
  <2>2. ASSUME NEW i \in 1 .. Len(up'), NEW j \in 1 .. Len(up'),
               j = i + 1, up'[i] # NL, up'[j] # NL
        PROVE  up'[i].pos < up'[j].pos
    <3>1. /\ i + 1 \in 1 .. Len(up) /\ j + 1 \in 1 .. Len(up) /\ j + 1 = (i + 1) + 1
          /\ up'[i] = up[i + 1] /\ up'[j] = up[j + 1]
      BY <1>2, <2>2
    <3> QED
      BY <2>2, <3>1, Zenon DEF Flows
  <2>3. \A i \in 1 .. Len(up') : up'[i] # NL => up'[i].pos \in 1 .. MAX_LINE
    BY <1>2 DEF Flows
  <2> QED
    BY <1>1, <1>4, <2>1, <2>2, <2>3 DEF Flows
<1>6. LinesOrdered'
  BY <1>1, <1>2 DEF LinesOrdered
<1>7. \A r : Before(r) => Before(r)'
  BY <1>1, <1>2 DEF Before
<1>8. \A r : Pending(r)' = Pending(r)
  BY <1>1 DEF Pending
<1>9. CASE line = <<>>
  <2>1. down' = down
    BY <1>9 DEF DeviceLineEnd
  <2>2. LinkType' /\ RepliesOrdered'
    BY <1>1, <1>2, <1>3, <2>1 DEF LinkType, RepliesOrdered
  <2>3. RepliesFirst' /\ AllPending'
    BY <1>1, <1>2, <1>7, <1>8, <2>1 DEF RepliesFirst, AllPending
  <2> QED
    BY <1>1, <1>5, <1>6, <2>2, <2>3 DEF Returned
<1>10. CASE line # <<>>
  <2> DEFINE r == line[Len(line)].req
  <2>1. PICK p \in {"OK", "ERR"} : down' = down \o Reply(p, r)
    BY <1>10 DEF DeviceLineEnd, HandleLine
  <2>2. r \in Nat
    BY <1>10, Elements
  <2>3. /\ Reply(p, r) \in Seq(Token) /\ Len(Reply(p, r)) = 3
        /\ Reply(p, r)[1].req = r /\ ~IsMark(Reply(p, r)[2]) /\ ~IsMark(Reply(p, r)[3])
    BY <2>2 DEF Reply, Token, IsMark, NL
  <2> HIDE DEF r
  <2>4. /\ down' \in Seq(Token) /\ Len(down') = Len(down) + 3 /\ Len(down) \in Nat
        /\ \A i \in 1 .. Len(down) : down'[i] = down[i]
        /\ \A i \in Len(down) + 1 .. Len(down) + 3 :
              down'[i] = Reply(p, r)[i - Len(down)]
    <3>1. down \in Seq(Token)
      BY DEF LinkType
    <3>2. PICK q : q = Reply(p, r)
      OBVIOUS
    <3>3. q \in Seq(Token) /\ Len(q) = 3 /\ down' = down \o q
      BY <2>1, <2>3, <3>2
    <3>4. /\ down \o q \in Seq(Token) /\ Len(down \o q) = Len(down) + Len(q)
          /\ Len(down) \in Nat
          /\ \A i \in 1 .. Len(down) : (down \o q)[i] = down[i]
          /\ \A i \in Len(down) + 1 .. Len(down) + Len(q) :
                (down \o q)[i] = q[i - Len(down)]
      <4>1. down \in Seq(Token) /\ q \in Seq(Token)
        BY <3>1, <3>3
      <4> QED
        BY <4>1, ConcatFacts
    <3> QED
      BY <3>2, <3>3, <3>4
  <2>5. \A i \in 1 .. Len(down') :
          IsMark(down'[i]) =>
             \/ i \in 1 .. Len(down) /\ down'[i] = down[i]
             \/ i = Len(down) + 1 /\ down'[i].req = r
    <3> TAKE i \in 1 .. Len(down')
    <3>1. i \in 1 .. Len(down) \/ i = Len(down) + 1 \/ i = Len(down) + 2 \/ i = Len(down) + 3
      BY <2>4
    <3>2. CASE i \in 1 .. Len(down)
      BY <2>4, <3>2
    <3>3. CASE i = Len(down) + 1
      BY <2>3, <2>4, <3>3
    <3>4. CASE i = Len(down) + 2
      BY <2>3, <2>4, <3>4
    <3>5. CASE i = Len(down) + 3
      BY <2>3, <2>4, <3>5
    <3> QED
      BY <3>1, <3>2, <3>3, <3>4, <3>5
  <2>6. LinkType'
    BY <1>1, <1>2, <1>3, <2>4 DEF LinkType
  <2>7. /\ \A i \in 1 .. Len(down) : IsMark(down[i]) => down[i].req < r
        /\ \A i \in 1 .. Len(host.line) : IsMark(host.line[i]) => host.line[i].req < r
    BY <1>10 DEF RepliesFirst, Before, r
  <2>8. RepliesOrdered'
    <3>1. ASSUME NEW i \in 1 .. Len(down'), NEW j \in 1 .. Len(down'),
                 i < j, IsMark(down'[i]), IsMark(down'[j])
          PROVE  down'[i].req < down'[j].req
      <4>1. i \in 1 .. Len(down) /\ down'[i] = down[i]
        BY <2>4, <2>5, <3>1
      <4>2. CASE j \in 1 .. Len(down) /\ down'[j] = down[j]
        BY <3>1, <4>1, <4>2, Zenon DEF RepliesOrdered
      <4>3. CASE j = Len(down) + 1 /\ down'[j].req = r
        BY <2>7, <3>1, <4>1, <4>3, Zenon
      <4> QED
        BY <2>5, <3>1, <4>2, <4>3, Zenon
    <3>2. ASSUME NEW i \in 1 .. Len(host.line), NEW j \in 1 .. Len(down'),
                 IsMark(host.line[i]), IsMark(down'[j])
          PROVE  host.line[i].req < down'[j].req
      <4>2. CASE j \in 1 .. Len(down) /\ down'[j] = down[j]
        BY <3>2, <4>2, Zenon DEF RepliesOrdered
      <4>3. CASE j = Len(down) + 1 /\ down'[j].req = r
        BY <2>7, <3>2, <4>3, Zenon
      <4> QED
        BY <2>5, <3>2, <4>2, <4>3, Zenon
    <3> QED
      BY <1>1, <3>1, <3>2 DEF RepliesOrdered
  <2>9. \A j \in 1 .. Len(up') : up'[j] # NL => r < up'[j].req
    BY <1>2, <1>10 DEF LinesOrdered, r
  <2>10. RepliesFirst'
    BY <1>1, <1>7, <2>4, <2>5, <2>9 DEF RepliesFirst, Before
  <2>11. Pending(r)
    BY <1>10 DEF AllPending, r
  <2>12. AllPending'
    <3>1. \A i \in 1 .. Len(down') : IsMark(down'[i]) => Pending(down'[i].req)
      BY <2>5, <2>11, Zenon DEF AllPending
    <3>2. \A i \in 1 .. Len(up') : up'[i] # NL => Pending(up'[i].req)
      BY <1>2 DEF AllPending
    <3> QED
      BY <1>1, <1>8, <3>1, <3>2 DEF AllPending
  <2> QED
    BY <1>1, <1>5, <1>6, <2>6, <2>8, <2>10, <2>12 DEF Returned
<1> QED
  BY <1>9, <1>10

\* What is lost in a reset leaves the rest in order.
LEMMA ResetKeeps ==
    ASSUME FitInv, RequestsFit, LinkAssumption, DeviceReset
    PROVE  FitInv'
<1> USE DEF FitInv
<1>1. /\ line' = <<>> /\ host' = host /\ got' = got /\ session' = session
  BY DEF DeviceReset
<1>2. line' \in Seq(Byte) /\ Len(line') = 0
  BY <1>1, EmptySeq
<1>3. PICK k \in 0 .. Len(up) : up' = SubSeq(up, k + 1, Len(up))
  BY DEF DeviceReset
<1>4. PICK n \in 0 .. Len(down) : down' = SubSeq(down, 1, n) \o ReadyLine
  BY DEF DeviceReset
<1>5. Len(up) \in Nat /\ Len(down) \in Nat
  BY Elements
<1>6. /\ up' \in Seq(Byte \cup {NL}) /\ Len(up') = Len(up) - k
      /\ \A i \in 1 .. Len(up) - k : up'[i] = up[i + k]
  <2>1. up \in Seq(Byte \cup {NL})
    BY DEF LinkType
  <2> QED
    BY <1>3, <2>1, SuffixFacts
<1>7. /\ down' \in Seq(Token) /\ Len(down') = n + 2
      /\ \A i \in 1 .. n : down'[i] = down[i]
      /\ \A i \in 1 .. Len(down') : IsMark(down'[i]) => i \in 1 .. n
  <2> DEFINE d == SubSeq(down, 1, n)
  <2>1. down \in Seq(Token)
    BY DEF LinkType
  <2>2. d \in Seq(Token) /\ Len(d) = n /\ \A i \in 1 .. n : d[i] = down[i]
    BY <2>1, PrefixFacts
  <2>3. /\ ReadyLine \in Seq(Token) /\ Len(ReadyLine) = 2
        /\ ~IsMark(ReadyLine[1]) /\ ~IsMark(ReadyLine[2])
    BY DEF ReadyLine, Token, IsMark, NL
  <2> HIDE DEF d
  <2>4. /\ d \o ReadyLine \in Seq(Token) /\ Len(d \o ReadyLine) = Len(d) + Len(ReadyLine)
        /\ \A i \in 1 .. Len(d) : (d \o ReadyLine)[i] = d[i]
        /\ \A i \in Len(d) + 1 .. Len(d) + Len(ReadyLine) :
              (d \o ReadyLine)[i] = ReadyLine[i - Len(d)]
    <3>1. d \in Seq(Token) /\ ReadyLine \in Seq(Token)
      BY <2>2, <2>3
    <3> QED
      BY <3>1, ConcatFacts
  <2>5. down' = d \o ReadyLine
    BY <1>4 DEF d
  <2>6. /\ down' \in Seq(Token) /\ Len(down') = n + 2
        /\ \A i \in 1 .. n : down'[i] = down[i]
        /\ down'[n + 1] = ReadyLine[1] /\ down'[n + 2] = ReadyLine[2]
    <3>1. n \in Nat /\ Len(d) = n /\ Len(ReadyLine) = 2
      BY <1>5, <2>2, <2>3
    <3> DEFINE e == d \o ReadyLine
    <3>2. e \in Seq(Token) /\ Len(e) = n + 2 /\ \A i \in 1 .. n : e[i] = down[i]
      BY <2>2, <2>4, <3>1
    <3>3. \A i \in n + 1 .. n + 2 : e[i] = ReadyLine[i - n]
      BY <2>4, <3>1
    <3> HIDE DEF e
    <3>4. n + 1 \in n + 1 .. n + 2 /\ n + 2 \in n + 1 .. n + 2
          /\ (n + 1) - n = 1 /\ (n + 2) - n = 2
      BY <3>1
    <3>5. e[n + 1] = ReadyLine[1] /\ e[n + 2] = ReadyLine[2]
      BY <3>3, <3>4
    <3>6. down' = e
      BY <2>5 DEF e
    <3> QED
      BY <3>2, <3>5, <3>6
  <2>7. \A i \in 1 .. n + 2 : i \in 1 .. n \/ i = n + 1 \/ i = n + 2
    BY <1>5
  <2> QED
    BY <2>3, <2>6, <2>7
<1>8. \A i \in 1 .. Len(up') : i + k \in 1 .. Len(up) /\ up'[i] = up[i + k]
  BY <1>5, <1>6
<1>9. \A i \in 1 .. n : i \in 1 .. Len(down)
  BY <1>5
<1>10. LinkType'
  BY <1>1, <1>2, <1>6, <1>7 DEF LinkType
<1>11. up' # <<>> => Len(up') \in Nat \ {0}
  BY <1>6, EmptySeq
<1>12. Flows'
  <2>1. up' # <<>> => up'[Len(up')] = NL
    <3>1. up' # <<>> => up'[Len(up')] = up[Len(up)] /\ up # <<>>
      BY <1>5, <1>6, <1>11, EmptySeq
    <3> QED
      BY <3>1 DEF Flows
  <2>2. \A i \in 1 .. Len(up') : up'[i] # NL => up'[i].pos \in 1 .. MAX_LINE
    BY <1>8 DEF Flows
  <2>3. up' # <<>> /\ up'[1] # NL => up'[1].pos > Len(line')
    <3>1. up' # <<>> /\ up'[1] # NL => up'[1].pos \in 1 .. MAX_LINE
      BY <1>11, <2>2
    <3> QED
      BY <1>2, <3>1, LinkAssumption
  <2>4. ASSUME NEW i \in 1 .. Len(up'), NEW j \in 1 .. Len(up'),
               j = i + 1, up'[i] # NL, up'[j] # NL
        PROVE  up'[i].pos < up'[j].pos
    <3>1. /\ i + k \in 1 .. Len(up) /\ j + k \in 1 .. Len(up) /\ j + k = (i + k) + 1
          /\ up'[i] = up[i + k] /\ up'[j] = up[j + k]
      BY <1>8, <2>4
    <3> QED
      BY <2>4, <3>1, Zenon DEF Flows
  <2> QED
    BY <1>1, <2>1, <2>2, <2>3, <2>4 DEF Flows
<1>13. LinesOrdered'
  <2>1. ASSUME NEW i \in 1 .. Len(up'), NEW h \in 1 .. Len(up'), NEW j \in 1 .. Len(up'),
               i < h, h < j, up'[i] # NL, up'[h] = NL, up'[j] # NL
        PROVE  up'[i].req < up'[j].req
    <3>1. i + k < h + k /\ h + k < j + k
      BY <1>8, <2>1
    <3> QED
      BY <1>8, <2>1, <3>1, Zenon DEF LinesOrdered
  <2> QED
    BY <1>1, <2>1 DEF LinesOrdered
<1>14. RepliesOrdered'
  BY <1>1, <1>7, <1>9 DEF RepliesOrdered
<1>15. \A r : Before(r) => Before(r)'
  BY <1>1, <1>8 DEF Before
<1>16. RepliesFirst'
  BY <1>1, <1>7, <1>9, <1>15 DEF RepliesFirst
<1>17. \A r : Pending(r)' = Pending(r)
  BY <1>1 DEF Pending
<1>18. AllPending'
  BY <1>1, <1>7, <1>8, <1>9, <1>17 DEF AllPending
<1> QED
  BY <1>1, <1>10, <1>12, <1>13, <1>14, <1>16, <1>18 DEF Returned

\* The next request is later than all that is on its way.
LEMMA PushKeeps ==
    ASSUME FitInv, RequestsFit, LinkAssumption, session \in Sessions,
           NEW n \in session.lengths, Push(n)
    PROVE  FitInv'
<1> USE DEF FitInv
<1> DEFINE k == Len(got) + 1
           q == RequestLine(k, n)
<1>1. /\ ~host.reading /\ up' = up \o q /\ host' = [reading |-> TRUE, line |-> <<>>]
      /\ down' = down /\ line' = line /\ got' = got /\ session' = session
  BY DEF Push, Asked
<1>2. n \in Nat \ {0} /\ n <= MAX_LINE
  BY LinkAssumption DEF RequestsFit, Session
<1>3. k \in Nat /\ Len(up) \in Nat
  BY Elements
<1>4. /\ q \in Seq(Byte \cup {NL}) /\ Len(q) = n + 1 /\ q[n + 1] = NL
      /\ \A i \in 1 .. n : q[i] # NL /\ q[i].req = k /\ q[i].pos = i
  <2> DEFINE b == [i \in 1 .. n |-> [t |-> "byte", req |-> k, pos |-> i, len |-> n]]
  <2>0. q = Append(b, NL)
    BY DEF RequestLine
  <2>1. \A i \in 1 .. n :
          /\ b[i] = [t |-> "byte", req |-> k, pos |-> i, len |-> n]
          /\ b[i] \in Byte /\ b[i] # NL /\ b[i].req = k /\ b[i].pos = i
    BY <1>2, <1>3 DEF Byte, NL
  <2>2. b \in [1 .. n -> Byte \cup {NL}]
    BY <2>1
  <2>3. b \in Seq(Byte \cup {NL}) /\ Len(b) = n
    <3>1. b \in Seq(Byte \cup {NL})
      BY <1>2, <2>2, SeqDef
    <3>2. DOMAIN b = 1 .. Len(b) /\ Len(b) \in Nat
      BY <3>1, LenProperties
    <3> QED
      BY <1>2, <3>1, <3>2
  <2> HIDE DEF b, q
  <2>4. /\ q \in Seq(Byte \cup {NL}) /\ Len(q) = n + 1 /\ q[n + 1] = NL
        /\ \A i \in 1 .. n : q[i] = b[i]
    <3>1. NL \in Byte \cup {NL}
      OBVIOUS
    <3> QED
      BY <2>0, <2>3, <3>1, AppendFacts
  <2> QED
    BY <2>1, <2>4
<1> HIDE DEF q
<1>5. /\ up' \in Seq(Byte \cup {NL}) /\ Len(up') = Len(up) + n + 1
      /\ \A i \in 1 .. Len(up) : up'[i] = up[i]
      /\ \A i \in Len(up) + 1 .. Len(up) + n + 1 : up'[i] = q[i - Len(up)]
  <2>1. up \in Seq(Byte \cup {NL}) /\ q \in Seq(Byte \cup {NL})
    BY <1>4 DEF LinkType
  <2>2. /\ up \o q \in Seq(Byte \cup {NL}) /\ Len(up \o q) = Len(up) + Len(q)
        /\ \A i \in 1 .. Len(up) : (up \o q)[i] = up[i]
        /\ \A i \in Len(up) + 1 .. Len(up) + Len(q) : (up \o q)[i] = q[i - Len(up)]
    BY <2>1, ConcatFacts
  <2> QED
    BY <1>1, <1>2, <1>3, <1>4, <2>2
<1>6. \A i \in 1 .. Len(up') :
         \/ i \in 1 .. Len(up) /\ up'[i] = up[i]
         \/ /\ i > Len(up) /\ i < Len(up') /\ up'[i] # NL
            /\ up'[i].req = k /\ up'[i].pos = i - Len(up) /\ up'[i].pos \in 1 .. n
         \/ i > Len(up) /\ i = Len(up') /\ up'[i] = NL
  <2> TAKE i \in 1 .. Len(up')
  <2>1. CASE i <= Len(up)
    BY <1>3, <1>5, <2>1
  <2>2. CASE i > Len(up) /\ i < Len(up')
    <3>1. i - Len(up) \in 1 .. n /\ i \in Len(up) + 1 .. Len(up) + n + 1
      BY <1>2, <1>3, <1>5, <2>2
    <3>2. up'[i] = q[i - Len(up)]
      BY <1>5, <3>1
    <3> QED
      BY <1>4, <2>2, <3>1, <3>2
  <2>3. CASE i = Len(up')
    <3>1. i - Len(up) = n + 1 /\ up'[i] = q[i - Len(up)] /\ i > Len(up)
      BY <1>2, <1>3, <1>5, <2>3
    <3> QED
      BY <1>4, <2>3, <3>1
  <2> QED
    BY <1>2, <1>3, <1>5, <2>1, <2>2, <2>3
<1>7. LinkType'
  BY <1>1, <1>5, EmptySeq DEF LinkType
<1>8. Len(up') \in Nat \ {0}
  BY <1>2, <1>3, <1>5
<1>9. Flows'
  <2>1. up' # <<>> /\ up'[Len(up')] = NL
    BY <1>3, <1>6, <1>8, <1>5, <1>2, EmptySeq
  <2>2. \A i \in 1 .. Len(up') : up'[i] # NL => up'[i].pos \in 1 .. MAX_LINE
    <3>1. \A x \in 1 .. n : x \in 1 .. MAX_LINE
      BY <1>2, LinkAssumption
    <3> QED
      BY <1>6, <3>1, Zenon DEF Flows
  <2>3. up'[1] # NL => up'[1].pos > Len(line')
    <3>1. CASE up = <<>>
      <4>1. Len(up) = 0 /\ Len(line) = 0
        BY <3>1, EmptySeq DEF Flows
      <4> QED
        BY <1>1, <1>2, <1>5, <1>6, <4>1
    <3>2. CASE up # <<>>
      <4>1. 1 \in 1 .. Len(up)
        BY <1>3, <3>2, EmptySeq DEF LinkType
      <4> QED
        BY <1>1, <1>5, <3>2, <4>1 DEF Flows
    <3> QED
      BY <3>1, <3>2
  <2>4. ASSUME NEW i \in 1 .. Len(up'), NEW j \in 1 .. Len(up'),
               j = i + 1, up'[i] # NL, up'[j] # NL
        PROVE  up'[i].pos < up'[j].pos
    <3>1. CASE j \in 1 .. Len(up)
      <4>1. i \in 1 .. Len(up)
        BY <1>3, <2>4, <3>1
      <4> QED
        BY <1>5, <2>4, <3>1, <4>1, Zenon DEF Flows
    <3>2. CASE j \notin 1 .. Len(up) /\ i \in 1 .. Len(up)
      <4>1. i = Len(up) /\ up[i] = up'[i] /\ up # <<>>
        BY <1>3, <1>5, <2>4, <3>2, EmptySeq
      <4> QED
        BY <2>4, <4>1 DEF Flows
    <3>3. CASE j \notin 1 .. Len(up) /\ i \notin 1 .. Len(up)
      <4>1. up'[i].pos = i - Len(up) /\ up'[j].pos = j - Len(up)
        BY <1>6, <2>4, <3>3
      <4> QED
        BY <1>3, <2>4, <4>1
    <3> QED
      BY <3>1, <3>2, <3>3
  <2> QED
    BY <2>1, <2>2, <2>3, <2>4 DEF Flows
<1>10. \A r : Pending(r) => r <= Len(got)
  BY <1>1 DEF Pending
<1>11. /\ \A i \in 1 .. Len(up) : up[i] # NL => up[i].req < k
       /\ line # <<>> => line[Len(line)].req < k
       /\ \A i \in 1 .. Len(down) : IsMark(down[i]) => down[i].req < k
  BY <1>10, Elements DEF AllPending
<1>12. LinesOrdered'
  <2>1. ASSUME NEW h \in 1 .. Len(up'), NEW j \in 1 .. Len(up'),
               h < j, up'[h] = NL, up'[j] # NL
        PROVE  \/ up'[j].req = k
               \/ h \in 1 .. Len(up) /\ j \in 1 .. Len(up) /\ up'[j] = up[j] /\ up'[h] = up[h]
    BY <1>3, <1>6, <1>5, <2>1
  <2>2. ASSUME NEW i \in 1 .. Len(up'), NEW h \in 1 .. Len(up'), NEW j \in 1 .. Len(up'),
               i < h, h < j, up'[i] # NL, up'[h] = NL, up'[j] # NL
        PROVE  up'[i].req < up'[j].req
    <3>1. i \in 1 .. Len(up) /\ up'[i] = up[i]
      BY <1>3, <1>6, <2>2
    <3>2. CASE up'[j].req = k
      BY <1>11, <2>2, <3>1, <3>2, Zenon
    <3>3. CASE h \in 1 .. Len(up) /\ j \in 1 .. Len(up) /\ up'[j] = up[j] /\ up'[h] = up[h]
      BY <2>2, <3>1, <3>3, Zenon DEF LinesOrdered
    <3> QED
      BY <2>1, <2>2, <3>2, <3>3, Zenon
  <2>3. ASSUME NEW h \in 1 .. Len(up'), NEW j \in 1 .. Len(up'),
               line # <<>>, h < j, up'[h] = NL, up'[j] # NL
        PROVE  line[Len(line)].req < up'[j].req
    <3>2. CASE up'[j].req = k
      BY <1>11, <2>3, <3>2, Zenon
    <3>3. CASE h \in 1 .. Len(up) /\ j \in 1 .. Len(up) /\ up'[j] = up[j] /\ up'[h] = up[h]
      BY <2>3, <3>3, Zenon DEF LinesOrdered
    <3> QED
      BY <2>1, <2>3, <3>2, <3>3, Zenon
  <2> QED
    BY <1>1, <2>2, <2>3 DEF LinesOrdered
<1>13. host'.line = <<>> /\ Len(host'.line) = 0 /\ host'.reading
  BY <1>1, EmptySeq
<1>14. RepliesOrdered'
  BY <1>1, <1>13 DEF RepliesOrdered
<1>15. RepliesFirst'
  <2>1. ASSUME NEW i \in 1 .. Len(down), IsMark(down[i])
        PROVE  Before(down[i].req)'
    <3>1. Before(down[i].req) /\ down[i].req < k
      BY <1>11, <2>1 DEF RepliesFirst
    <3>2. \A j \in 1 .. Len(up') : up'[j] # NL => down[i].req < up'[j].req
      BY <1>6, <3>1, Zenon DEF Before
    <3> QED
      BY <1>1, <3>1, <3>2 DEF Before
  <2> QED
    BY <1>1, <1>13, <2>1 DEF RepliesFirst
<1> DEFINE OnTime(r) == /\ Len(got') < r + Timeouts(got', Len(got'))
                        /\ r <= Len(got') + 1
                        /\ ~host'.reading => r <= Len(got')
<1>16. \A r \in Nat : Pending(r) \/ r = k => OnTime(r)
  <2> TAKE r \in Nat
  <2>1. Len(got) \in Nat /\ Timeouts(got, Len(got)) \in Nat
    BY Elements
  <2> QED
    BY <1>1, <1>13, <2>1 DEF Pending
<1>17. AllPending'
  <2> HIDE DEF OnTime
  <2>1. \A i \in 1 .. Len(up') : up'[i] # NL => OnTime(up'[i].req)
    <3>1. \A i \in 1 .. Len(up) : up[i] # NL => up[i].req \in Nat
      BY Elements
    <3> QED
      BY <1>3, <1>6, <1>16, <3>1, Zenon DEF AllPending
  <2>2. line # <<>> => OnTime(line[Len(line)].req)
    BY <1>16, Elements DEF AllPending
  <2>3. \A i \in 1 .. Len(down) : IsMark(down[i]) => OnTime(down[i].req)
    BY <1>16, Elements DEF AllPending
  <2>4. \A i \in 1 .. Len(host'.line) : IsMark(host'.line[i]) => OnTime(host'.line[i].req)
    BY <1>13
  <2>5. /\ line' # <<>> => OnTime(line'[Len(line')].req)
        /\ \A i \in 1 .. Len(down') : IsMark(down'[i]) => OnTime(down'[i].req)
    BY <1>1, <2>2, <2>3
  <2> QED
    BY <2>1, <2>4, <2>5, Zenon DEF AllPending, Pending, OnTime, IsMark
<1> QED
  BY <1>1, <1>7, <1>9, <1>12, <1>14, <1>15, <1>17 DEF Returned

\* push_program returns: what it returns is no further behind than the timeouts
\* before it explain.
LEMMA ReturnFacts ==
    ASSUME LinkType, Returned, NEW e \in Entry,
           e.of # 0 => e.asked = Len(got) + 1 /\ Pending(e.of),
           got' = Append(got, e)
    PROVE  /\ got' \in Seq(Entry) /\ Len(got') = Len(got) + 1
           /\ Timeouts(got', Len(got'))
                = Timeouts(got, Len(got)) + (IF e.kind = "timeout" THEN 1 ELSE 0)
           /\ Returned'
<1>1. /\ got' \in Seq(Entry) /\ Len(got') = Len(got) + 1 /\ Len(got) \in Nat
      /\ \A i \in 1 .. Len(got) : got'[i] = got[i]
      /\ got'[Len(got) + 1] = e
  BY AppendFacts DEF LinkType
<1>2. Timeouts(got', Len(got) + 1)
        = Timeouts(got', Len(got)) + (IF e.kind = "timeout" THEN 1 ELSE 0)
  BY <1>1, TimeoutsStep
<1>3. \A n \in 0 .. Len(got) : Timeouts(got', n) = Timeouts(got, n)
  <2> TAKE n \in 0 .. Len(got)
  <2>1. n \in Nat /\ \A j \in 1 .. n : got'[j] = got[j]
    BY <1>1
  <2> QED
    BY <2>1, TimeoutsSame
<1>4. Returned'
  <2>1. ASSUME NEW i \in 1 .. Len(got'), got'[i].of # 0
        PROVE  /\ got'[i].asked = i /\ got'[i].of <= i
               /\ i - got'[i].of <= Timeouts(got', i - 1)
    <3>1. CASE i \in 1 .. Len(got)
      <4>1. got'[i] = got[i] /\ Timeouts(got', i - 1) = Timeouts(got, i - 1)
        BY <1>1, <1>3, <3>1
      <4> QED
        BY <2>1, <3>1, <4>1 DEF Returned
    <3>2. CASE i = Len(got) + 1
      <4>1. got'[i] = e /\ i - 1 = Len(got) /\ Timeouts(got', i - 1) = Timeouts(got, Len(got))
        BY <1>1, <1>3, <3>2
      <4>2. Timeouts(got, Len(got)) \in Nat /\ e.of \in Nat
        BY <1>1, TimeoutsType DEF Entry
      <4> QED
        BY <1>1, <2>1, <3>2, <4>1, <4>2 DEF Pending
    <3> QED
      BY <1>1, <3>1, <3>2
  <2> QED
    BY <2>1 DEF Returned
<1> QED
  BY <1>1, <1>2, <1>3, <1>4

\* A timeout lets every pending request lag by one more.
LEMMA TimeoutKeeps ==
    ASSUME FitInv, RequestsFit, LinkAssumption, HostTimeout
    PROVE  FitInv'
<1> USE DEF FitInv
<1> DEFINE e == [asked |-> Len(got) + 1, kind |-> "timeout", of |-> 0]
<1>1. /\ got' = Append(got, e) /\ host' = [reading |-> FALSE, line |-> <<>>]
      /\ up' = up /\ down' = down /\ line' = line /\ session' = session
  BY DEF HostTimeout, Return, Asked
<1>2. e \in Entry /\ e.of = 0 /\ e.kind = "timeout"
  BY Elements DEF Entry
<1> HIDE DEF e
<1>3. /\ got' \in Seq(Entry) /\ Len(got') = Len(got) + 1
      /\ Timeouts(got', Len(got')) = Timeouts(got, Len(got)) + 1
      /\ Returned'
  BY <1>1, <1>2, ReturnFacts
<1>4. host'.line = <<>> /\ Len(host'.line) = 0 /\ ~host'.reading
  BY <1>1, EmptySeq
<1>5. LinkType'
  BY <1>1, <1>3, EmptySeq DEF LinkType
<1>6. Flows' /\ LinesOrdered'
  BY <1>1 DEF Flows, LinesOrdered
<1>7. RepliesOrdered'
  BY <1>1, <1>4 DEF RepliesOrdered
<1>8. RepliesFirst'
  BY <1>1, <1>4 DEF RepliesFirst, Before
<1> DEFINE OnTime(r) == /\ Len(got') < r + Timeouts(got', Len(got'))
                        /\ r <= Len(got') + 1
                        /\ ~host'.reading => r <= Len(got')
<1>9. \A r \in Nat : Pending(r) => OnTime(r)
  <2> TAKE r \in Nat
  <2>1. Len(got) \in Nat /\ Timeouts(got, Len(got)) \in Nat
    BY Elements
  <2> QED
    BY <1>3, <2>1 DEF Pending
<1>10. AllPending'
  <2> HIDE DEF OnTime
  <2>1. /\ \A i \in 1 .. Len(up) : up[i] # NL => OnTime(up[i].req)
        /\ line # <<>> => OnTime(line[Len(line)].req)
        /\ \A i \in 1 .. Len(down) : IsMark(down[i]) => OnTime(down[i].req)
    BY <1>9, Elements DEF AllPending
  <2>2. \A i \in 1 .. Len(host'.line) : IsMark(host'.line[i]) => OnTime(host'.line[i].req)
    BY <1>4
  <2>3. /\ \A i \in 1 .. Len(up') : up'[i] # NL => OnTime(up'[i].req)
        /\ line' # <<>> => OnTime(line'[Len(line')].req)
        /\ \A i \in 1 .. Len(down') : IsMark(down'[i]) => OnTime(down'[i].req)
    BY <1>1, <2>1
  <2> QED
    BY <2>2, <2>3, Zenon DEF AllPending, Pending, OnTime, IsMark
<1> QED
  BY <1>3, <1>5, <1>6, <1>7, <1>8, <1>10

\* The host reads on, skips a line, or takes a reply: those left are later.
LEMMA ReadKeeps ==
    ASSUME FitInv, RequestsFit, LinkAssumption, HostRead
    PROVE  FitInv'
<1> USE DEF FitInv
<1>1. /\ host.reading /\ down # <<>> /\ down' = Tail(down)
      /\ up' = up /\ line' = line /\ session' = session
  BY DEF HostRead
<1>2. /\ Len(down) \in Nat /\ 1 <= Len(down) /\ Head(down) = down[1] /\ down[1] \in Token
      /\ down' \in Seq(Token) /\ Len(down') = Len(down) - 1
      /\ \A i \in 1 .. Len(down) - 1 : down'[i] = down[i + 1]
  BY <1>1, TailFacts DEF LinkType
<1>3. \A i \in 1 .. Len(down') :
        i + 1 \in 1 .. Len(down) /\ 1 < i + 1 /\ down'[i] = down[i + 1]
  BY <1>2
<1>4. /\ host.reading \in BOOLEAN /\ host.line \in Seq(Token)
      /\ host = [reading |-> host.reading, line |-> host.line]
  BY DEF LinkType
<1>5. Flows' /\ LinesOrdered'
  BY <1>1 DEF Flows, LinesOrdered
<1>6. ASSUME NEW i \in 1 .. Len(down'), NEW j \in 1 .. Len(down'),
             i < j, IsMark(down'[i]), IsMark(down'[j])
      PROVE  down'[i].req < down'[j].req
  <2>1. i + 1 < j + 1
    BY <1>3, <1>6
  <2> QED
    BY <1>3, <1>6, <2>1, Zenon DEF RepliesOrdered
<1>7. \A i \in 1 .. Len(down') :
        IsMark(down'[i]) => Before(down'[i].req) /\ Pending(down'[i].req)
  BY <1>3, Zenon DEF RepliesFirst, AllPending
<1>8. \A r : Before(r)' = Before(r)
  BY <1>1 DEF Before
<1>9. CASE Head(down) # NL
  <2>1. host' = [host EXCEPT !.line = Append(host.line, down[1])] /\ got' = got
    BY <1>2, <1>9 DEF HostRead
  <2>2. /\ host'.line \in Seq(Token) /\ Len(host'.line) = Len(host.line) + 1
        /\ Len(host.line) \in Nat /\ host'.reading = host.reading
        /\ \A i \in 1 .. Len(host.line) : host'.line[i] = host.line[i]
        /\ host'.line[Len(host.line) + 1] = down[1]
    <3>1. host'.line = Append(host.line, down[1]) /\ host'.reading = host.reading
      BY <1>4, <2>1
    <3> QED
      BY <1>2, <1>4, <3>1, AppendFacts
  <2>3. host' \in [reading : BOOLEAN, line : Seq(Token)]
    BY <1>4, <2>1, <2>2
  <2>4. LinkType'
    BY <1>1, <1>2, <2>1, <2>3 DEF LinkType
  <2>5. \A i \in 1 .. Len(host'.line) :
          \/ i \in 1 .. Len(host.line) /\ host'.line[i] = host.line[i]
          \/ host'.line[i] = down[1]
    BY <2>2
  <2>6. RepliesOrdered'
    <3>1. ASSUME NEW i \in 1 .. Len(host'.line), NEW j \in 1 .. Len(down'),
                 IsMark(host'.line[i]), IsMark(down'[j])
          PROVE  host'.line[i].req < down'[j].req
      <4>1. 1 \in 1 .. Len(down)
        BY <1>2
      <4> QED
        BY <1>3, <2>5, <3>1, <4>1, Zenon DEF RepliesOrdered
    <3> QED
      BY <1>6, <3>1 DEF RepliesOrdered
  <2>7. \A i \in 1 .. Len(host'.line) :
          IsMark(host'.line[i]) => Before(host'.line[i].req) /\ Pending(host'.line[i].req)
    <3>1. 1 \in 1 .. Len(down)
      BY <1>2
    <3> QED
      BY <2>5, <3>1, Zenon DEF RepliesFirst, AllPending
  <2>8. \A r : Pending(r)' = Pending(r)
    BY <2>1, <2>2 DEF Pending
  <2>9. RepliesFirst' /\ AllPending'
    BY <1>1, <1>7, <1>8, <2>7, <2>8 DEF RepliesFirst, AllPending
  <2> QED
    BY <1>5, <2>1, <2>4, <2>6, <2>9 DEF Returned
<1>10. CASE Head(down) = NL /\ ~(host.line # <<>> /\ IsReply(host.line))
  <2>1. host' = [host EXCEPT !.line = <<>>] /\ got' = got
    BY <1>10 DEF HostRead
  <2>2. host'.line = <<>> /\ Len(host'.line) = 0 /\ host'.reading = host.reading
    BY <1>4, <2>1, EmptySeq
  <2>3. LinkType'
    BY <1>1, <1>2, <1>4, <2>1, EmptySeq DEF LinkType
  <2>4. RepliesOrdered'
    BY <1>6, <2>2 DEF RepliesOrdered
  <2>5. \A r : Pending(r)' = Pending(r)
    BY <2>1, <2>2 DEF Pending
  <2>6. RepliesFirst' /\ AllPending'
    BY <1>1, <1>7, <1>8, <2>2, <2>5 DEF RepliesFirst, AllPending
  <2> QED
    BY <1>5, <2>1, <2>3, <2>4, <2>6 DEF Returned
<1>11. CASE Head(down) = NL /\ host.line # <<>> /\ IsReply(host.line)
  <2> DEFINE e == Parsed(host.line)
             r0 == host.line[1].req
  <2>1. got' = Append(got, e) /\ host' = [reading |-> FALSE, line |-> <<>>]
    BY <1>11 DEF HostRead, Return
  <2>2. 1 \in 1 .. Len(host.line) /\ IsMark(host.line[1])
    BY <1>4, <1>11, EmptySeq DEF IsReply, IsMark
  <2>3. r0 \in Nat /\ Pending(r0)
    BY <2>2, Elements DEF AllPending
  <2>4. /\ e \in Entry /\ e.of = r0 /\ e.kind # "timeout"
        /\ e.asked = Len(got) + 1
    BY <2>2, <2>3, Elements DEF Parsed, Entry, Asked, IsMark
  <2> HIDE DEF e, r0
  <2>5. /\ got' \in Seq(Entry) /\ Len(got') = Len(got) + 1 /\ Returned'
        /\ Timeouts(got', Len(got')) = Timeouts(got, Len(got))
    <3>1. /\ got' \in Seq(Entry) /\ Len(got') = Len(got) + 1 /\ Returned'
          /\ Timeouts(got', Len(got'))
               = Timeouts(got, Len(got)) + (IF e.kind = "timeout" THEN 1 ELSE 0)
      BY <2>1, <2>3, <2>4, ReturnFacts
    <3>2. Timeouts(got, Len(got)) \in Nat
      BY Elements
    <3> QED
      BY <2>4, <3>1, <3>2
  <2>6. host'.line = <<>> /\ Len(host'.line) = 0 /\ ~host'.reading
    BY <2>1, EmptySeq
  <2>7. LinkType'
    BY <1>1, <1>2, <2>1, <2>5, EmptySeq DEF LinkType
  <2>8. RepliesOrdered'
    BY <1>6, <2>6 DEF RepliesOrdered
  <2>9. RepliesFirst'
    BY <1>7, <1>8, <2>6 DEF RepliesFirst
  <2>10. /\ \A i \in 1 .. Len(up) : up[i] # NL => r0 < up[i].req
         /\ line # <<>> => r0 < line[Len(line)].req
         /\ \A i \in 1 .. Len(down) : IsMark(down[i]) => r0 < down[i].req
    BY <2>2 DEF RepliesFirst, Before, RepliesOrdered, r0
  <2> DEFINE OnTime(r) == /\ Len(got') < r + Timeouts(got', Len(got'))
                          /\ r <= Len(got') + 1
                          /\ ~host'.reading => r <= Len(got')
  <2>11. \A r \in Nat : Pending(r) /\ r0 < r => OnTime(r)
    <3> TAKE r \in Nat
    <3>1. Len(got) \in Nat /\ Timeouts(got, Len(got)) \in Nat
      BY Elements
    <3> QED
      BY <2>3, <2>5, <3>1 DEF Pending
  <2>12. AllPending'
    <3> HIDE DEF OnTime
    <3>1. /\ \A i \in 1 .. Len(up) : up[i] # NL => OnTime(up[i].req)
          /\ line # <<>> => OnTime(line[Len(line)].req)
          /\ \A i \in 1 .. Len(down) : IsMark(down[i]) => OnTime(down[i].req)
      BY <2>10, <2>11, Elements DEF AllPending
    <3>2. \A i \in 1 .. Len(host'.line) : IsMark(host'.line[i]) => OnTime(host'.line[i].req)
      BY <2>6
    <3>3. /\ \A i \in 1 .. Len(up') : up'[i] # NL => OnTime(up'[i].req)
          /\ line' # <<>> => OnTime(line'[Len(line')].req)
          /\ \A i \in 1 .. Len(down') : IsMark(down'[i]) => OnTime(down'[i].req)
      BY <1>1, <1>3, <3>1
    <3> QED
      BY <3>2, <3>3, Zenon DEF AllPending, Pending, OnTime, IsMark
  <2> QED
    BY <1>5, <2>5, <2>7, <2>8, <2>9, <2>12
<1> QED
  BY <1>9, <1>10, <1>11

LEMMA InitFits ==
    ASSUME LinkAssumption, Init
    PROVE  LinkInv
<1>1. /\ up = <<>> /\ line = <<>> /\ got = <<>> /\ down = ReadyLine
      /\ host = [reading |-> FALSE, line |-> <<>>] /\ session \in Sessions
  BY DEF Init
<1>2. Len(up) = 0 /\ Len(line) = 0 /\ Len(got) = 0 /\ Len(host.line) = 0
  BY <1>1, EmptySeq
<1>3. ReadyLine \in Seq(Token) /\ \A i \in 1 .. Len(ReadyLine) : ~IsMark(ReadyLine[i])
  BY DEF ReadyLine, Token, IsMark, NL
<1>4. LinkType
  BY <1>1, <1>3, EmptySeq DEF LinkType
<1>5. Flows /\ LinesOrdered /\ Returned
  BY <1>1, <1>2 DEF Flows, LinesOrdered, Returned
<1>6. RepliesOrdered /\ RepliesFirst /\ AllPending
  BY <1>1, <1>2, <1>3 DEF RepliesOrdered, RepliesFirst, AllPending
<1> QED
  BY <1>1, <1>4, <1>5, <1>6 DEF LinkInv, FitInv

LEMMA LinkInvInductive ==
    ASSUME LinkAssumption, LinkInv, [Next]_linkVars
    PROVE  LinkInv'
<1>1. session' = session
  BY DEF Next, Device, DeviceLineEnd, DeviceByte, DeviceReset, Push, HostRead,
         HostTimeout, linkVars
<1>2. RequestsFit' = RequestsFit
  BY <1>1 DEF RequestsFit
<1>3. ASSUME RequestsFit
      PROVE  FitInv'
  <2>1. FitInv /\ session \in Sessions
    BY <1>3 DEF LinkInv
  <2>2. CASE DeviceLineEnd
    BY <1>3, <2>1, <2>2, LineEndKeeps
  <2>3. CASE DeviceByte
    BY <1>3, <2>1, <2>3, ByteKeeps
  <2>4. CASE DeviceReset
    BY <1>3, <2>1, <2>4, ResetKeeps
  <2>5. CASE \E n \in session.lengths : Push(n)
    BY <1>3, <2>1, <2>5, PushKeeps
  <2>6. CASE HostRead
    BY <1>3, <2>1, <2>6, ReadKeeps
  <2>7. CASE HostTimeout
    BY <1>3, <2>1, <2>7, TimeoutKeeps
  <2>8. CASE UNCHANGED linkVars
    BY <2>1, <2>8 DEF linkVars, FitInv, LinkType, Flows, LinesOrdered, RepliesOrdered,
       RepliesFirst, Before, AllPending, Pending, Returned
  <2> QED
    BY <2>2, <2>3, <2>4, <2>5, <2>6, <2>7, <2>8 DEF Next, Device
<1> QED
  BY <1>1, <1>2, <1>3 DEF LinkInv

LEMMA LinkInvImplies ==
    ASSUME LinkInv
    PROVE  LagBounded
<1> SUFFICES ASSUME NEW i \in DOMAIN got, RequestsFit, got[i].of # 0
             PROVE  /\ got[i].of <= got[i].asked
                    /\ got[i].asked - got[i].of
                         <= Cardinality({j \in 1 .. i - 1 : got[j].kind = "timeout"})
  BY DEF LagBounded
<1>1. i \in 1 .. Len(got)
  BY LenProperties DEF LinkInv, FitInv, LinkType
<1> QED
  BY <1>1 DEF LinkInv, FitInv, Returned, Timeouts

\* A reply that push_program returns is to the request it pushed last or to an
\* earlier one, and to no earlier one than the timeouts so far explain, whatever
\* the device's buffer, the number of requests, the point at which a reset cuts
\* the streams and the number of resets, if no request exceeds the buffer.
THEOREM LateRepliesAreBounded == Spec => []LagBounded
<1>1. Init => LinkInv
  BY LinkAssumption, InitFits
<1>2. LinkInv /\ [Next]_linkVars => LinkInv'
  BY LinkAssumption, LinkInvInductive
<1>3. LinkInv => LagBounded
  BY LinkInvImplies
<1> QED
  BY <1>1, <1>2, <1>3, PTL DEF Spec
=============================================================================
