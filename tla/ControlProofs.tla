---------------------------- MODULE ControlProofs ----------------------------
(***************************************************************************)
(* Proofs about Control: what a call reads and returns is the server's     *)
(* answer, whatever way it is cut, and no read waits for a server that     *)
(* waits for the client.                                                   *)
(*                                                                         *)
(* The inductive invariant ControlInv says that the bytes of a connection  *)
(* are one stream on the wire, W, and one plaintext, F.  Conn.rx and the   *)
(* network hold W from the place the client has read up to; the records in *)
(* W from there on hold F, in order and under consecutive counters; H2.rx  *)
(* and what the server has not sealed hold the rest of F.  The frames of F *)
(* that are not read yet carry the rest of the answer, and the windows are *)
(* what the server may still send.  The streams are witnesses: each step   *)
(* of the server extends them, and a step of the client moves the places.  *)
(*                                                                         *)
(* In order: rows and the scan for the address; networks and the packet    *)
(* filter; the invariant; frames; the steps of the server; the steps of    *)
(* the client up to the request; the reading of the answer; connections    *)
(* that open; the theorems.                                                *)
(***************************************************************************)
EXTENDS Control, SequenceFacts

-----------------------------------------------------------------------------
\* Rows: sequences whose elements are given by their place.

\* A sequence of n elements, whatever they are.
Row(s, n) == n \in Nat /\ s \in Seq({s[i] : i \in DOMAIN s}) /\ Len(s) = n

\* The length, the domain and the elements of a row.
LEMMA RowFacts ==
    ASSUME NEW s, NEW n, Row(s, n)
    PROVE  n \in Nat /\ Len(s) = n /\ DOMAIN s = 1 .. n /\ s = [i \in 1 .. n |-> s[i]]
  BY LenProperties DEF Row

\* A function on 1 .. n is a row of n elements.
LEMMA RowByElements ==
    ASSUME NEW n \in Nat, NEW s, s = [i \in 1 .. n |-> s[i]]
    PROVE  Row(s, n)
<1>1. s \in Seq({s[i] : i \in 1 .. n})
  BY IsASeq
<1>2. Len(s) \in Nat /\ DOMAIN s = 1 .. Len(s) /\ DOMAIN s = 1 .. n
  BY <1>1, LenProperties
<1> QED
  BY <1>1, <1>2 DEF Row

\* A sequence is a row of its length.
LEMMA SeqIsRow ==
    ASSUME NEW S, NEW s \in Seq(S)
    PROVE  Row(s, Len(s))
<1>1. Len(s) \in Nat /\ s = [i \in 1 .. Len(s) |-> s[i]]
  BY LenProperties
<1> QED
  BY <1>1, RowByElements

\* Two rows with the same elements are the same.
LEMMA RowsEqual ==
    ASSUME NEW s, NEW u, NEW n, Row(s, n), Row(u, n), \A i \in 1 .. n : s[i] = u[i]
    PROVE  s = u
  BY RowFacts

\* The only row of no element is the empty sequence.
LEMMA EmptyRow == Row(<<>>, 0) /\ \A s : Row(s, 0) => s = <<>>
<1>1. <<>> = [i \in 1 .. 0 |-> <<>>[i]]
  OBVIOUS
<1>2. Row(<<>>, 0)
  BY <1>1, RowByElements
<1> QED
  BY <1>2, RowsEqual

\* w is s and then u; w is s from a + 1 to b.
Joined(w, s, m, u, n) ==
    /\ Row(w, m + n)
    /\ \A i \in 1 .. m : w[i] = s[i]
    /\ \A i \in m + 1 .. m + n : w[i] = u[i - m]
Sliced(w, s, a, b) ==
    /\ Row(w, b - a)
    /\ \A i \in 1 .. b - a : w[i] = s[a + i]

\* Two rows, one after the other, make a row of both.
LEMMA RowConcat ==
    ASSUME NEW s, NEW u, NEW m, NEW n, Row(s, m), Row(u, n)
    PROVE  Joined(s \o u, s, m, u, n)
<1> DEFINE S == {s[i] : i \in DOMAIN s} \cup {u[i] : i \in DOMAIN u}
<1>1. s \in Seq(S) /\ u \in Seq(S) /\ Len(s) = m /\ Len(u) = n
  BY SeqMonotonic DEF Row
<1> HIDE DEF S
<1>2. /\ s \o u \in Seq(S) /\ Len(s \o u) = m + n
      /\ m \in Nat /\ n \in Nat
      /\ \A i \in 1 .. m : (s \o u)[i] = s[i]
      /\ \A i \in m + 1 .. m + n : (s \o u)[i] = u[i - m]
  BY <1>1, ConcatFacts
<1>3. Row(s \o u, m + n)
  BY <1>2, SeqIsRow
<1> QED
  BY <1>2, <1>3 DEF Joined

\* SubSeq gives a slice of a row,
LEMMA RowSlice ==
    ASSUME NEW s, NEW n, Row(s, n), NEW a \in 0 .. n, NEW b \in a .. n
    PROVE  Sliced(SubSeq(s, a + 1, b), s, a, b)
<1> DEFINE S == {s[i] : i \in DOMAIN s}
           u == SubSeq(s, a + 1, b)
<1>1. s \in Seq(S) /\ n \in Nat /\ DOMAIN s = 1 .. n
  BY RowFacts DEF Row
<1>2. \A i \in a + 1 .. b : s[i] \in S
  BY <1>1
<1> HIDE DEF S
<1>3. /\ u \in Seq(S)
      /\ Len(u) = IF a + 1 <= b THEN b - (a + 1) + 1 ELSE 0
      /\ \A i \in 1 .. b - (a + 1) + 1 : u[i] = s[(a + 1) + i - 1]
  BY <1>1, <1>2, SubSeqProperties
<1>4. Row(u, Len(u))
  BY <1>3, SeqIsRow
<1>5. Len(u) = b - a
  BY <1>1, <1>3
<1>6. ASSUME NEW i \in 1 .. b - a
      PROVE  u[i] = s[a + i]
  BY <1>1, <1>3
<1> QED
  BY <1>4, <1>5, <1>6 DEF Sliced

\* Drop what is left of it,
LEMMA RowDrop ==
    ASSUME NEW s, NEW n, Row(s, n), NEW k \in 0 .. n
    PROVE  Sliced(Drop(s, k), s, k, n)
<1>1. n \in k .. n
  BY RowFacts
<1>2. Drop(s, k) = SubSeq(s, k + 1, n)
  BY RowFacts, Zenon DEF Drop
<1> QED
  BY <1>1, <1>2, RowSlice, Zenon

\* and a SubSeq from its start what was taken.
LEMMA RowTake ==
    ASSUME NEW s, NEW n, Row(s, n), NEW k \in 0 .. n
    PROVE  Sliced(SubSeq(s, 1, k), s, 0, k)
<1>1. 0 \in 0 .. n /\ k \in 0 .. n /\ 0 + 1 = 1
  BY RowFacts
<1>2. Sliced(SubSeq(s, 0 + 1, k), s, 0, k)
  BY <1>1, RowSlice, Zenon
<1> QED
  BY <1>1, <1>2

\* A sequence of one element.
LEMMA RowSingle ==
    ASSUME NEW x
    PROVE  Row(<<x>>, 1) /\ <<x>>[1] = x
<1>1. <<x>> = [i \in 1 .. 1 |-> <<x>>[i]] /\ <<x>>[1] = x
  OBVIOUS
<1> QED
  BY <1>1, RowByElements

\* The least of a set of numbers.
LEMMA MinFacts ==
    ASSUME NEW S, S \subseteq Nat, S # {}
    PROVE  Min(S) \in S /\ \A y \in S : Min(S) =< y
<1>1. \E x \in S : \A y \in S : x =< y
  BY LeastElement
<1> QED
  BY <1>1 DEF Min

\* The least element of a set is its Min.
LEMMA MinIs ==
    ASSUME NEW S, S \subseteq Nat, NEW x \in S, \A y \in S : x =< y
    PROVE  Min(S) = x
<1>1. Min(S) \in S /\ Min(S) =< x
  BY MinFacts
<1>2. x =< Min(S) /\ x \in Nat /\ Min(S) \in Nat
  BY <1>1
<1> QED
  BY <1>1, <1>2

\* The texts of the answers, byte by byte.
EarlyText == <<B("open")>> \o AddressField

\* The atoms of the text of the node's address.
LEMMA TextFacts ==
    /\ Row(OwnText, 4) /\ OwnText # <<>>
    /\ OwnText[1] = B("100.") /\ OwnText[2] = B("x") /\ OwnText[3] = B("y") /\ OwnText[4] = B("z")
    /\ Digits = {B("100."), B("x"), B("y"), B("z")}
<1>1. OwnText = [i \in 1 .. 4 |-> OwnText[i]]
  BY DEF OwnText
<1>2. Row(OwnText, 4)
  BY <1>1, RowByElements
<1>3. OwnText[1] = B("100.") /\ OwnText[2] = B("x") /\ OwnText[3] = B("y") /\ OwnText[4] = B("z")
  BY DEF OwnText
<1>4. Digits = {B("100."), B("x"), B("y"), B("z")}
  <2>1. DOMAIN OwnText = 1 .. 4
    BY DEF OwnText
  <2> QED
    BY <1>3, <2>1 DEF Digits, Range
<1>5. OwnText # <<>>
  BY DEF OwnText
<1> QED
  BY <1>2, <1>3, <1>4, <1>5

\* The atoms of the address field, of the JSON of an early payload and of a
\* map.
LEMMA FieldFacts ==
    /\ Row(AddressField, 6)
    /\ AddressField[1] = Quote /\ AddressField[6] = B("slash")
    /\ \A i \in 2 .. 5 : AddressField[i] = OwnText[i - 1]
    /\ Row(EarlyText, 7)
    /\ EarlyText[1] = B("open") /\ \A i \in 2 .. 7 : EarlyText[i] = AddressField[i - 1]
    /\ Row(MapBody, 8)
    /\ MapBody[8] = B("close") /\ \A i \in 1 .. 7 : MapBody[i] = EarlyText[i]
<1>1. /\ Row(<<Quote>>, 1) /\ <<Quote>>[1] = Quote
      /\ Row(<<B("slash")>>, 1) /\ <<B("slash")>>[1] = B("slash")
      /\ Row(<<B("open")>>, 1) /\ <<B("open")>>[1] = B("open")
      /\ Row(<<B("close")>>, 1) /\ <<B("close")>>[1] = B("close")
  BY RowSingle, Zenon
<1>2. PICK one : one = [x \in {Quote, B("slash"), B("open"), B("close")} |-> <<x>>]
  OBVIOUS
<1> DEFINE quote == one[Quote]
           slash == one[B("slash")]
           open == one[B("open")]
           close == one[B("close")]
<1>3. /\ quote = <<Quote>> /\ slash = <<B("slash")>>
      /\ open = <<B("open")>> /\ close = <<B("close")>>
  BY <1>2
<1>4. /\ Row(quote, 1) /\ quote[1] = Quote
      /\ Row(slash, 1) /\ slash[1] = B("slash")
      /\ Row(open, 1) /\ open[1] = B("open")
      /\ Row(close, 1) /\ close[1] = B("close")
  BY <1>1, <1>3
<1>5. /\ AddressField = (quote \o OwnText) \o slash
      /\ EarlyText = open \o AddressField /\ MapBody = EarlyText \o close
  BY <1>3 DEF AddressField, EarlyText, MapBody
<1> HIDE DEF quote, slash, open, close
<1>6. Row(OwnText, 4)
  BY TextFacts
<1>7. PICK v : v = quote \o OwnText
  OBVIOUS
<1>8. /\ Joined(v, quote, 1, OwnText, 4)
      /\ Joined(AddressField, v, 5, slash, 1)
      /\ Joined(EarlyText, open, 1, AddressField, 6)
      /\ Joined(MapBody, EarlyText, 7, close, 1)
  <2>1. Joined(v, quote, 1, OwnText, 4)
    BY <1>4, <1>6, <1>7, RowConcat, Zenon
  <2>2. Row(v, 5)
    BY <2>1 DEF Joined
  <2>3. AddressField = v \o slash
    BY <1>5, <1>7, Zenon
  <2>4. Joined(AddressField, v, 5, slash, 1)
    BY <1>4, <2>2, <2>3, RowConcat, Zenon
  <2>5. Row(AddressField, 6)
    BY <2>4 DEF Joined
  <2>6. Joined(EarlyText, open, 1, AddressField, 6)
    BY <1>4, <1>5, <2>5, RowConcat, Zenon
  <2>7. Row(EarlyText, 7)
    BY <2>6 DEF Joined
  <2>8. Joined(MapBody, EarlyText, 7, close, 1)
    BY <1>4, <1>5, <2>7, RowConcat, Zenon
  <2> QED
    BY <2>1, <2>4, <2>6, <2>8
<1> HIDE <1>5, <1>7
<1>9. Row(v, 5) /\ v[1] = Quote /\ \A i \in 2 .. 5 : v[i] = OwnText[i - 1]
  BY <1>4, <1>8 DEF Joined
<1>10. /\ Row(AddressField, 6) /\ AddressField[6] = B("slash")
       /\ \A i \in 1 .. 5 : AddressField[i] = v[i]
  BY <1>4, <1>8 DEF Joined
<1>11. /\ Row(EarlyText, 7) /\ EarlyText[1] = B("open")
       /\ \A i \in 2 .. 7 : EarlyText[i] = AddressField[i - 1]
  BY <1>4, <1>8 DEF Joined
<1>12. /\ Row(MapBody, 8) /\ MapBody[8] = B("close")
       /\ \A i \in 1 .. 7 : MapBody[i] = EarlyText[i]
  BY <1>4, <1>8 DEF Joined
<1>13. AddressField[1] = Quote /\ \A i \in 2 .. 5 : AddressField[i] = OwnText[i - 1]
  BY <1>9, <1>10
<1> QED
  BY <1>10, <1>11, <1>12, <1>13

-----------------------------------------------------------------------------
\* The scan for the address.

\* The n bytes raw are a part of an answer whose quote is, or would be, at
\* place q.
Part(raw, n, q) ==
    /\ Row(raw, n) /\ q \in Int
    /\ \A k \in 1 .. n : raw[k] = Quote <=> k = q
    /\ \A k \in 1 .. n : raw[k] = B("slash") <=> k = q + 5
    /\ \A k \in 1 .. n : k \in q + 1 .. q + 4 => raw[k] = OwnText[k - q]

\* Where PatternAt finds the pattern in a part of a map whose quote is at q.
LEMMA PatternFacts ==
    ASSUME NEW raw, NEW n, NEW q, Part(raw, n, q)
    PROVE  PatternAt(raw) = IF q >= 1 /\ q + 1 =< n THEN q ELSE 0
<1> DEFINE at == {k \in 1 .. n - 1 : raw[k] = Quote /\ raw[k + 1] = B("100.")}
<1>1. n \in Nat /\ q \in Int /\ Len(raw) = n
  BY RowFacts DEF Part
<1>2. PatternAt(raw) = IF at = {} THEN 0 ELSE Min(at)
  BY <1>1, Zenon DEF PatternAt
<1>3. CASE q >= 1 /\ q + 1 =< n
  <2>1. q \in 1 .. n - 1 /\ q + 1 \in 1 .. n /\ q + 1 \in q + 1 .. q + 4 /\ (q + 1) - q = 1
    BY <1>1, <1>3
  <2>2. raw[q] = Quote /\ raw[q + 1] = B("100.")
    <3>1. q \in 1 .. n /\ raw[q] = Quote
      BY <1>1, <2>1 DEF Part
    <3>2. raw[q + 1] = OwnText[1]
      <4>1. \A k \in 1 .. n : k \in q + 1 .. q + 4 => raw[k] = OwnText[k - q]
        BY DEF Part
      <4> QED
        BY <2>1, <4>1
    <3> QED
      BY <3>1, <3>2, TextFacts
  <2>3. \A k \in at : k = q
    BY <1>1 DEF Part
  <2>4. q \in at /\ at \subseteq Nat /\ \A y \in at : q =< y
    BY <2>1, <2>2, <2>3
  <2>5. Min(at) = q /\ at # {}
    BY <2>4, MinIs
  <2> QED
    BY <1>2, <1>3, <2>5
<1>4. CASE ~(q >= 1 /\ q + 1 =< n)
  <2>1. \A k \in 1 .. n - 1 : raw[k] # Quote
    BY <1>1, <1>4 DEF Part
  <2>2. at = {}
    BY <2>1
  <2> QED
    BY <1>2, <1>4, <2>2
<1> QED
  BY <1>3, <1>4

\* scan_tailscale_ip takes what there is of the address, from its quote on,
\* when that is more than "100.".
LEMMA ScanFacts ==
    ASSUME NEW raw, NEW n, NEW q, Part(raw, n, q)
    PROVE  /\ q >= 1 /\ q + 4 =< n => ScanTailscaleIp(raw) = OwnText
           /\ q < 1 \/ n =< q + 1 => ScanTailscaleIp(raw) = NoIp
           /\ q >= 1 /\ q + 2 =< n => ScanTailscaleIp(raw) # NoIp
<1> DEFINE at == PatternAt(raw)
           stop == {k \in at + 1 .. n : raw[k] \in {Quote, B("slash")}}
           end == IF stop = {} THEN n ELSE Min(stop) - 1
           text == SubSeq(raw, at + 1, end)
<1>1. n \in Nat /\ q \in Int /\ DOMAIN raw = 1 .. n /\ Len(raw) = n
  BY RowFacts DEF Part
<1>2. ScanTailscaleIp(raw) = IF at # 0 /\ Range(text) \subseteq Digits /\ Len(text) >= 2 THEN text ELSE NoIp
  BY <1>1, Zenon DEF ScanTailscaleIp, NoIp
<1>3. CASE ~(q >= 1 /\ q + 1 =< n)
  <2>1. at = 0
    BY <1>3, PatternFacts
  <2>2. ScanTailscaleIp(raw) = NoIp
    BY <1>2, <2>1
  <2> QED
    BY <1>1, <1>3, <2>2
<1>4. CASE q >= 1 /\ q + 1 =< n
  <2>1. at = q
    BY <1>4, PatternFacts
  <2>2. \/ q + 5 =< n /\ end = q + 4
        \/ n < q + 5 /\ end = n
    <3>1. CASE q + 5 =< n
      <4>1. stop \subseteq Nat /\ q + 5 \in stop /\ \A y \in stop : q + 5 =< y
        BY <1>1, <1>4, <2>1, <3>1 DEF Part
      <4>2. Min(stop) = q + 5 /\ stop # {}
        BY <4>1, MinIs
      <4>3. end = Min(stop) - 1
        BY <4>2
      <4> HIDE DEF stop, end
      <4> QED
        BY <1>1, <3>1, <4>2, <4>3
    <3>2. CASE n < q + 5
      <4>0. \A k \in q + 1 .. n : k \in 1 .. n /\ k # q /\ k # q + 5
        BY <1>1, <1>4, <3>2
      <4>1. stop = {}
        BY <2>1, <4>0 DEF Part
      <4> QED
        BY <3>2, <4>1
    <3> QED
      BY <1>1, <3>1, <3>2
  <2> HIDE DEF at, stop, end
  <2>3. q \in 0 .. n /\ end \in q .. n /\ end - q \in 1 .. 4
    BY <1>1, <1>4, <2>2
  <2>4. Row(raw, n)
    BY DEF Part
  <2>5. Sliced(text, raw, q, end)
    BY <2>1, <2>3, <2>4, RowSlice, Zenon
  <2> HIDE DEF text
  <2>6. Row(text, end - q) /\ \A i \in 1 .. end - q : text[i] = OwnText[i]
    <3>1. ASSUME NEW i \in 1 .. end - q
          PROVE  text[i] = OwnText[i]
      <4>1. q + i \in q + 1 .. q + 4 /\ q + i \in 1 .. n /\ (q + i) - q = i
        BY <1>1, <2>3
      <4>2. raw[q + i] = OwnText[i]
        BY <4>1 DEF Part
      <4> QED
        BY <2>5, <4>2 DEF Sliced
    <3> QED
      BY <2>5, <3>1 DEF Sliced
  <2>7. Range(text) \subseteq Digits
    <3>1. DOMAIN text = 1 .. end - q
      BY <2>6, RowFacts, Zenon
    <3>2. \A i \in 1 .. end - q : OwnText[i] \in Digits
      <4> TAKE i \in 1 .. end - q
      <4>1. i = 1 \/ i = 2 \/ i = 3 \/ i = 4
        BY <2>3
      <4> QED
        BY <4>1, TextFacts
    <3> QED
      BY <2>6, <3>1, <3>2 DEF Range
  <2>8. at # 0
    BY <1>1, <1>4, <2>1
  <2>9. Len(text) = end - q
    BY <2>6, RowFacts, Zenon
  <2>10. end - q >= 2 => ScanTailscaleIp(raw) = text
    BY <1>2, <2>7, <2>8, <2>9, Zenon
  <2>11. ~(end - q >= 2) => ScanTailscaleIp(raw) = NoIp
    BY <1>2, <2>9, Zenon
  <2>12. text # NoIp
    <3>1. end - q # 0
      BY <2>3
    <3>2. Len(NoIp) = 0
      BY DEF NoIp
    <3> QED
      BY <2>9, <3>1, <3>2, Zenon
  <2>13. q + 4 =< n => text = OwnText
    <3>1. HAVE q + 4 =< n
    <3>2. end - q = 4
      BY <1>1, <2>2, <3>1
    <3> QED
      BY <2>6, <3>2, TextFacts, RowsEqual, Zenon
  <2>14. q + 4 =< n => end - q >= 2
    BY <1>1, <1>4, <2>2
  <2>15. n =< q + 1 => ~(end - q >= 2)
    BY <1>1, <1>4, <2>2
  <2>16. q + 2 =< n => end - q >= 2
    BY <1>1, <1>4, <2>2
  <2>17. ~(q < 1)
    BY <1>1, <1>4
  <2> QED
    BY <2>10, <2>11, <2>12, <2>13, <2>14, <2>15, <2>16, <2>17
<1> QED
  BY <1>3, <1>4

\* A text without a quote has no address.
LEMMA NoQuoteNoIp ==
    ASSUME NEW raw, NEW n, Row(raw, n), \A k \in 1 .. n : raw[k] # Quote
    PROVE  ScanTailscaleIp(raw) = NoIp
<1>1. Len(raw) = n /\ n \in Nat
  BY RowFacts
<1>2. {k \in 1 .. Len(raw) - 1 : raw[k] = Quote /\ raw[k + 1] = B("100.")} = {}
  BY <1>1
<1>3. PatternAt(raw) = 0
  BY <1>2, Zenon DEF PatternAt
<1> QED
  BY <1>3 DEF ScanTailscaleIp, NoIp

-----------------------------------------------------------------------------
\* Powers of two and quotients.

\* 2^k is a positive number.
LEMMA PowerFacts ==
    ASSUME NEW k \in 0 .. AddrBits
    PROVE  2^k \in Nat /\ 2^k > 0
<1> DEFINE Bad == {i \in 0 .. AddrBits : ~(2^i \in Nat /\ 2^i > 0)}
<1>1. AddrBits \in Nat
  BY NetmapAssumption
<1>2. SUFFICES ASSUME k \in Bad PROVE FALSE
  OBVIOUS
<1>3. Bad # {} /\ Bad \subseteq Nat
  BY <1>1, <1>2
<1>4. PICK i \in Bad : \A j \in Bad : i =< j
  BY <1>3, LeastElement, Zenon
<1>5. i # 0
  <2>1. SUFFICES ASSUME i = 0 PROVE FALSE
    OBVIOUS
  <2>2. 2^0 = 1
    BY PowersOfTwo
  <2>3. 2^i = 1
    BY <2>1, <2>2
  <2>4. ~(2^i \in Nat /\ 2^i > 0)
    BY <1>4
  <2> QED
    BY <2>3, <2>4
<1>6. i - 1 \in 0 .. AddrBits - 1 /\ i - 1 \in 0 .. AddrBits /\ i - 1 \notin Bad /\ (i - 1) + 1 = i
  <2>1. i \in 0 .. AddrBits
    BY <1>4
  <2>2. ~(i =< i - 1) /\ i - 1 \in 0 .. AddrBits - 1 /\ i - 1 \in 0 .. AddrBits /\ (i - 1) + 1 = i
    BY <1>1, <1>5, <2>1
  <2> QED
    BY <1>4, <2>2
<1>7. 2^(i - 1) \in Nat /\ 2^(i - 1) > 0
  BY <1>6
<1>8. 2^((i - 1) + 1) = 2 * 2^(i - 1)
  BY <1>6, PowersOfTwo
<1>9. 2^i = 2 * 2^(i - 1)
  BY <1>6, <1>8
<1>10. ~(2^i \in Nat /\ 2^i > 0)
  BY <1>4
<1>11. PICK u, v : u = 2^i /\ v = 2^(i - 1)
  OBVIOUS
<1>12. v \in Nat /\ v > 0 /\ u = 2 * v /\ ~(u \in Nat /\ u > 0)
  BY <1>7, <1>9, <1>10, <1>11
<1> QED
  BY <1>12

\* The quotient and the remainder, and that there is only one of each.
LEMMA Quotient ==
    ASSUME NEW x \in Nat, NEW d \in Nat, d > 0
    PROVE  /\ x \div d \in Nat /\ x % d \in Nat /\ x % d < d /\ x = d * (x \div d) + (x % d)
  OBVIOUS

\* A number has one quotient and one remainder.
LEMMA OneQuotient ==
    ASSUME NEW d \in Nat, d > 0, NEW p \in Nat, NEW q \in Nat, NEW r \in Nat, NEW s \in Nat, r < d, s < d,
           d * p + r = d * q + s
    PROVE  p = q
<1>1. ASSUME NEW a \in Nat, NEW b \in Nat, a < b
      PROVE  d * a + d =< d * b
  <2>1. PICK z \in Nat : b = a + 1 + z
    <3>1. b - a - 1 \in Nat /\ b = a + 1 + (b - a - 1)
      BY <1>1
    <3> QED
      BY <3>1
  <2>2. d * b = d * a + d + d * z
    BY <2>1
  <2>3. d * z \in Nat /\ d * a \in Nat
    OBVIOUS
  <2> QED
    BY <2>2, <2>3
<1>2. PICK u, v : u = d * p /\ v = d * q
  OBVIOUS
<1>3. u \in Nat /\ v \in Nat
  BY <1>2
<1>4. p < q => u + d =< v
  BY <1>1, <1>2
<1>5. q < p => v + d =< u
  BY <1>1, <1>2
<1>6. u + r = v + s
  BY <1>2
<1>7. ~(p < q) /\ ~(q < p)
  BY <1>3, <1>4, <1>5, <1>6
<1> QED
  BY <1>7

\* Halving a quotient doubles the divisor.
LEMMA HalfQuotient ==
    ASSUME NEW x \in Nat, NEW d \in Nat, d > 0
    PROVE  x \div (2 * d) = (x \div d) \div 2
<1>1. PICK q, r : q = x \div d /\ r = x % d
  OBVIOUS
<1>2. q \in Nat /\ r \in Nat /\ r < d /\ x = d * q + r
  BY <1>1, Quotient
<1>3. PICK h, b : h = q \div 2 /\ b = q % 2
  OBVIOUS
<1>4. h \in Nat /\ b \in {0, 1} /\ q = 2 * h + b
  BY <1>2, <1>3
<1>5. PICK p, s : p = x \div (2 * d) /\ s = x % (2 * d)
  OBVIOUS
<1>6. 2 * d \in Nat /\ 2 * d > 0
  OBVIOUS
<1>7. p \in Nat /\ s \in Nat /\ s < 2 * d /\ x = (2 * d) * p + s
  BY <1>5, <1>6, Quotient
<1>8. d * b + r \in Nat /\ d * b + r < 2 * d
  <2>1. CASE b = 0
    BY <1>2, <2>1
  <2>2. CASE b = 1
    BY <1>2, <2>2
  <2> QED
    BY <1>4, <2>1, <2>2
<1>9. d * q = (2 * d) * h + d * b
  BY <1>2, <1>4
<1>10. x = (2 * d) * h + (d * b + r)
  <2>1. PICK u, v, w : u = d * q /\ v = (2 * d) * h /\ w = d * b
    OBVIOUS
  <2>2. u \in Nat /\ v \in Nat /\ w \in Nat
    BY <1>2, <1>4, <2>1
  <2>3. u = v + w /\ x = u + r
    BY <1>2, <1>9, <2>1
  <2>4. x = v + (w + r)
    BY <1>2, <2>2, <2>3
  <2> QED
    BY <2>1, <2>4
<1>11. PICK k, z : k = 2 * d /\ z = d * b + r
  OBVIOUS
<1>12. k \in Nat /\ k > 0 /\ z \in Nat /\ z < k /\ s < k /\ k * p + s = k * h + z
  BY <1>6, <1>7, <1>8, <1>10, <1>11
<1>13. p = h
  BY <1>4, <1>7, <1>12, OneQuotient
<1> QED
  BY <1>1, <1>3, <1>5, <1>13

-----------------------------------------------------------------------------
\* Networks are sets of addresses with the same bits.

\* The bits of x and y from k on are the same.
SameFrom(x, y, k) == x \div 2^k = y \div 2^k
SameBit(x, y, k) == (x \div 2^k) % 2 = (y \div 2^k) % 2

\* Two addresses agree from a bit on when they agree on it and on what is
\* above it.
LEMMA OneBit ==
    ASSUME NEW x \in Nat, NEW y \in Nat, NEW k \in 0 .. AddrBits - 1
    PROVE  SameFrom(x, y, k) <=> SameFrom(x, y, k + 1) /\ SameBit(x, y, k)
<1>1. AddrBits \in Nat /\ k \in 0 .. AddrBits /\ k \in Nat
  BY NetmapAssumption
<1>2. PICK d, d2 : d = 2^k /\ d2 = 2^(k + 1)
  OBVIOUS
<1>3. d \in Nat /\ d > 0
  BY <1>1, <1>2, PowerFacts
<1>4. d2 = 2 * d
  BY <1>2, PowersOfTwo
<1>5. PICK p, q : p = x \div d /\ q = y \div d
  OBVIOUS
<1>6. p \in Nat /\ q \in Nat
  BY <1>3, <1>5, Quotient
<1>7. x \div d2 = p \div 2 /\ y \div d2 = q \div 2
  BY <1>3, <1>4, <1>5, HalfQuotient
<1>8. p = q <=> p \div 2 = q \div 2 /\ p % 2 = q % 2
  BY <1>6
<1>9. /\ SameFrom(x, y, k) <=> p = q
      /\ SameFrom(x, y, k + 1) <=> p \div 2 = q \div 2
      /\ SameBit(x, y, k) <=> p % 2 = q % 2
  BY <1>2, <1>5, <1>7 DEF SameFrom, SameBit
<1> QED
  BY <1>8, <1>9

\* An address has no bit beyond AddrBits.
LEMMA AllBits ==
    ASSUME NEW x \in Addrs
    PROVE  x \in Nat /\ x \div 2^AddrBits = 0
<1>1. AddrBits \in Nat /\ AddrBits \in 0 .. AddrBits
  BY NetmapAssumption
<1>2. PICK d : d = 2^AddrBits
  OBVIOUS
<1>3. d \in Nat /\ d > 0
  BY <1>1, <1>2, PowerFacts
<1>4. x \in Nat /\ x < d
  BY <1>2, <1>3 DEF Addrs
<1>5. x \div d \in Nat /\ x % d \in Nat /\ x % d < d /\ x = d * (x \div d) + (x % d)
  BY <1>3, <1>4, Quotient
<1>6. 0 \in Nat /\ d * 0 + x = x
  BY <1>3, <1>4
<1>7. PICK q, r : q = x \div d /\ r = x % d
  OBVIOUS
<1>8. q \in Nat /\ r \in Nat /\ r < d /\ d * q + r = d * 0 + x
  BY <1>5, <1>6, <1>7
<1>9. q = 0
  BY <1>3, <1>4, <1>6, <1>8, OneQuotient
<1> QED
  BY <1>2, <1>4, <1>7, <1>9

\* Two addresses are in the same network of 2^j addresses exactly when their
\* bits from j on are the same.
LEMMA NetBits ==
    ASSUME NEW x \in Addrs, NEW y \in Addrs, NEW j \in 0 .. AddrBits
    PROVE  SameFrom(x, y, j) <=> \A k \in j .. AddrBits - 1 : SameBit(x, y, k)
<1>1. AddrBits \in Nat /\ j \in Nat /\ j =< AddrBits
  BY NetmapAssumption
<1>2. x \in Nat /\ y \in Nat /\ SameFrom(x, y, AddrBits)
  BY AllBits DEF SameFrom
<1>3. ASSUME NEW k \in 0 .. AddrBits - 1
      PROVE  SameFrom(x, y, k) <=> SameFrom(x, y, k + 1) /\ SameBit(x, y, k)
  BY <1>2, OneBit
<1>4. ASSUME SameFrom(x, y, j)
      PROVE  \A k \in j .. AddrBits - 1 : SameBit(x, y, k)
  <2> DEFINE Bad == {k \in j .. AddrBits : ~SameFrom(x, y, k)}
  <2>1. Bad = {}
    <3>1. SUFFICES ASSUME Bad # {} PROVE FALSE
      OBVIOUS
    <3>2. Bad \subseteq Nat
      BY <1>1
    <3>3. PICK i \in Bad : \A k \in Bad : i =< k
      BY <3>1, <3>2, LeastElement, Zenon
    <3>4. i \in j .. AddrBits /\ ~SameFrom(x, y, i)
      BY <3>3
    <3>5. i # j
      BY <1>4, <3>4
    <3>6. i - 1 \in j .. AddrBits /\ i - 1 \in 0 .. AddrBits - 1 /\ ~(i =< i - 1) /\ (i - 1) + 1 = i
      BY <1>1, <3>4, <3>5
    <3>7. SameFrom(x, y, i - 1)
      BY <3>3, <3>6
    <3>8. SameFrom(x, y, (i - 1) + 1)
      BY <1>3, <3>6, <3>7
    <3> QED
      BY <3>4, <3>6, <3>8
  <2>2. TAKE k \in j .. AddrBits - 1
  <2>3. k \in j .. AddrBits /\ k \in 0 .. AddrBits - 1
    BY <1>1
  <2>4. SameFrom(x, y, k)
    BY <2>1, <2>3
  <2> QED
    BY <1>3, <2>3, <2>4
<1>5. ASSUME \A k \in j .. AddrBits - 1 : SameBit(x, y, k)
      PROVE  SameFrom(x, y, j)
  <2> DEFINE Bad == {i \in 0 .. AddrBits - j : ~SameFrom(x, y, AddrBits - i)}
  <2>1. Bad = {}
    <3>1. SUFFICES ASSUME Bad # {} PROVE FALSE
      OBVIOUS
    <3>2. Bad \subseteq Nat
      BY <1>1
    <3>3. PICK i \in Bad : \A k \in Bad : i =< k
      BY <3>1, <3>2, LeastElement, Zenon
    <3>4. i \in 0 .. AddrBits - j /\ ~SameFrom(x, y, AddrBits - i)
      BY <3>3
    <3>5. i # 0
      <4>1. SUFFICES ASSUME i = 0 PROVE FALSE
        OBVIOUS
      <4>2. AddrBits - i = AddrBits
        BY <1>1, <4>1
      <4> QED
        BY <1>2, <3>4, <4>2
    <3>6. /\ i - 1 \in 0 .. AddrBits - j /\ ~(i =< i - 1) /\ AddrBits - (i - 1) = (AddrBits - i) + 1
          /\ AddrBits - i \in 0 .. AddrBits - 1 /\ AddrBits - i \in j .. AddrBits - 1
      BY <1>1, <3>4, <3>5
    <3>7. SameFrom(x, y, AddrBits - (i - 1))
      BY <3>3, <3>6
    <3>8. SameFrom(x, y, (AddrBits - i) + 1) /\ SameBit(x, y, AddrBits - i)
      BY <1>5, <3>6, <3>7
    <3> QED
      BY <1>3, <3>4, <3>6, <3>8
  <2>2. AddrBits - j \in 0 .. AddrBits - j /\ AddrBits - (AddrBits - j) = j
    BY <1>1
  <2>3. SameFrom(x, y, AddrBits - (AddrBits - j))
    BY <2>1, <2>2
  <2> QED
    BY <2>2, <2>3
<1> QED
  BY <1>4, <1>5

-----------------------------------------------------------------------------
\* The packet filter.

\* The network of a host, a block or the star holds the addresses it denotes.
LEMMA HostNet ==
    ASSUME NEW a \in Addrs, NEW ip \in Addrs
    PROVE  SameNet(<<a, AddrBits>>, ip) <=> ip = a
<1>1. AddrBits \in Nat /\ AddrBits - AddrBits = 0 /\ a \in Nat /\ ip \in Nat
  BY NetmapAssumption, AllBits
<1>2. 2^(AddrBits - AddrBits) = 1
  <2>1. 2^0 = 1
    BY PowersOfTwo
  <2> QED
    BY <1>1, <2>1
<1>3. SameNet(<<a, AddrBits>>, ip) <=> ip \div 1 = a \div 1
  <2>1. <<a, AddrBits>>[1] = a /\ <<a, AddrBits>>[2] = AddrBits
    OBVIOUS
  <2> QED
    BY <1>2, <2>1 DEF SameNet
<1>4. ip \div 1 = ip /\ a \div 1 = a
  BY <1>1
<1> QED
  BY <1>3, <1>4

\* The network 0.0.0.0/0 that stands for the star holds every address.
LEMMA StarNet ==
    ASSUME NEW ip \in Addrs
    PROVE  SameNet(<<0, 0>>, ip)
<1>1. AddrBits \in Nat /\ AddrBits - 0 = AddrBits
  BY NetmapAssumption
<1>2. ip \div 2^AddrBits = 0
  BY AllBits
<1>3. 0 \div 2^AddrBits = 0
  <2>1. 0 \in Addrs
    <3>1. 2^AddrBits \in Nat /\ 2^AddrBits > 0
      <4>1. AddrBits \in 0 .. AddrBits
        BY <1>1
      <4> QED
        BY <4>1, PowerFacts
    <3> QED
      BY <3>1 DEF Addrs
  <2> QED
    BY <2>1, AllBits
<1>4. SameNet(<<0, 0>>, ip) <=> ip \div 2^(AddrBits - 0) = 0 \div 2^(AddrBits - 0)
  <2>1. <<0, 0>>[1] = 0 /\ <<0, 0>>[2] = 0
    OBVIOUS
  <2> QED
    BY <2>1 DEF SameNet
<1>5. 2^(AddrBits - 0) = 2^AddrBits
  BY <1>1
<1> QED
  BY <1>2, <1>3, <1>4, <1>5

\* The network of a block holds the addresses with the first n bits of its
\* own, whatever the bits it was written with below them.
LEMMA BlockNet ==
    ASSUME NEW a \in Addrs, NEW n \in Nat, NEW ip \in Addrs, NEW b, b = IF n < AddrBits THEN n ELSE AddrBits
    PROVE  SameNet(<<a, b>>, ip) <=>
              \A k \in 0 .. AddrBits - 1 : k >= AddrBits - n => (ip \div 2^k) % 2 = (a \div 2^k) % 2
<1>1. AddrBits \in Nat
  BY NetmapAssumption
<1>2. PICK j : j = AddrBits - b
  OBVIOUS
<1>3. j \in 0 .. AddrBits /\ \A k \in 0 .. AddrBits - 1 : k >= AddrBits - n <=> k \in j .. AddrBits - 1
  BY <1>1, <1>2
<1>4. SameNet(<<a, b>>, ip) <=> SameFrom(ip, a, j)
  <2>1. <<a, b>>[1] = a /\ <<a, b>>[2] = b
    OBVIOUS
  <2> QED
    BY <1>2, <2>1 DEF SameNet, SameFrom
<1>5. SameFrom(ip, a, j) <=> \A k \in j .. AddrBits - 1 : SameBit(ip, a, k)
  BY <1>3, NetBits
<1>6. j .. AddrBits - 1 \subseteq 0 .. AddrBits - 1
  BY <1>1, <1>3
<1> HIDE <1>2
<1>7. (\A k \in j .. AddrBits - 1 : SameBit(ip, a, k)) <=>
         \A k \in 0 .. AddrBits - 1 : k >= AddrBits - n => SameBit(ip, a, k)
  BY <1>3, <1>6
<1>8. \A k : SameBit(ip, a, k) <=> (ip \div 2^k) % 2 = (a \div 2^k) % 2
  BY DEF SameBit
<1> QED
  BY <1>4, <1>5, <1>7, <1>8, Zenon

\* A pattern of the netmap, parsed, matches the addresses it denotes.
LEMMA PatternMeans ==
    ASSUME NEW p \in Patterns, NEW ip \in Addrs
    PROVE  /\ p = Star \/ CidrMatch(ParseCidr(p), ip) <=> ip \in Denotes(p)
           /\ (\E c \in IF p = Star THEN {<<0, 0>>} ELSE ParseCidr(p) : SameNet(c, ip)) <=> ip \in Denotes(p)
<1>1. p.form \in {"star", "host", "block", "other"} /\ p.ip \in Addrs /\ p.bits \in Nat
      /\ (p.form = "star" => p = Star)
  BY DEF Patterns
<1>2. Star.form = "star"
  BY DEF Star
<1>3. CASE p.form = "star"
  <2>1. p = Star /\ Denotes(p) = Addrs
    BY <1>1, <1>3 DEF Denotes
  <2>2. SameNet(<<0, 0>>, ip)
    BY StarNet
  <2> QED
    BY <2>1, <2>2
<1>4. CASE p.form = "host"
  <2>1. p # Star /\ ParseCidr(p) = {<<p.ip, AddrBits>>} /\ Denotes(p) = {p.ip}
    BY <1>2, <1>4 DEF ParseCidr, Denotes
  <2>2. SameNet(<<p.ip, AddrBits>>, ip) <=> ip = p.ip
    BY <1>1, HostNet
  <2> QED
    BY <2>1, <2>2 DEF CidrMatch
<1>5. CASE p.form = "block"
  <2>1. PICK b : b = IF p.bits < AddrBits THEN p.bits ELSE AddrBits
    OBVIOUS
  <2>2. p # Star /\ ParseCidr(p) = {<<p.ip, b>>}
    BY <1>2, <1>5, <2>1 DEF ParseCidr
  <2>3. ip \in Denotes(p) <=>
           \A k \in 0 .. AddrBits - 1 : k >= AddrBits - p.bits => (ip \div 2^k) % 2 = (p.ip \div 2^k) % 2
    BY <1>5 DEF Denotes
  <2>4. SameNet(<<p.ip, b>>, ip) <=> ip \in Denotes(p)
    BY <1>1, <2>1, <2>3, BlockNet
  <2> QED
    BY <2>2, <2>4 DEF CidrMatch
<1>6. CASE p.form = "other"
  <2>1. p # Star /\ ParseCidr(p) = {} /\ Denotes(p) = {}
    BY <1>2, <1>6 DEF ParseCidr, Denotes
  <2> QED
    BY <2>1 DEF CidrMatch
<1> QED
  BY <1>1, <1>3, <1>4, <1>5, <1>6

\* The filter made of the packet filter of a netmap lets a source through
\* exactly when the packet filter does.
LEMMA FilterMeans ==
    ASSUME NEW acl, acl.present \in BOOLEAN,
           \A r \in Range(acl.rules) : r.src \subseteq Patterns /\ r.dst \subseteq Patterns,
           NEW src \in Addrs
    PROVE  SrcAllowed(AllowedSrcs(acl, OwnText), src) <=> AclAllows(acl, src)
<1>1. ParseIp(OwnText) = {Own}
  BY DEF ParseIp
<1>2. CASE ~acl.present
  <2>1. AllowedSrcs(acl, OwnText) = NoFilter
    BY <1>2 DEF AllowedSrcs
  <2>2. ~NoFilter.present
    BY DEF NoFilter
  <2> QED
    BY <1>2, <2>1, <2>2 DEF SrcAllowed, AclAllows
<1>3. CASE acl.present
  <2> DEFINE Covers(r) == \E d \in r.dst : d = Star \/ CidrMatch(ParseCidr(d), Own)
             Sources(r) == UNION {IF s = Star THEN {<<0, 0>>} ELSE ParseCidr(s) : s \in r.src}
             Nets == UNION {Sources(r) : r \in {q \in Range(acl.rules) : Covers(q)}}
  <2>1. AllowedSrcs(acl, OwnText) = Filter(Nets)
    <3>1. PICK o : o = CHOOSE a \in ParseIp(OwnText) : TRUE
      OBVIOUS
    <3>2. ParseIp(OwnText) # {} /\ o = Own
      BY <1>1, <3>1
    <3>3. AllowedSrcs(acl, OwnText) =
             Filter(UNION {Sources(r) : r \in
                {q \in Range(acl.rules) : \E d \in q.dst : d = Star \/ CidrMatch(ParseCidr(d), o)}})
      BY <1>3, <3>1, <3>2, Zenon DEF AllowedSrcs
    <3> QED
      BY <3>2, <3>3
  <2>2. Filter(Nets).present /\ Filter(Nets).cidrs = Nets
    BY DEF Filter
  <2>3. SrcAllowed(AllowedSrcs(acl, OwnText), src) <=> \E c \in Nets : SameNet(c, src)
    BY <2>1, <2>2 DEF SrcAllowed, CidrMatch
  <2>4. ASSUME NEW r \in Range(acl.rules)
        PROVE  /\ Covers(r) <=> \E d \in r.dst : Own \in Denotes(d)
               /\ (\E c \in Sources(r) : SameNet(c, src)) <=> \E s \in r.src : src \in Denotes(s)
    <3>1. r.src \subseteq Patterns /\ r.dst \subseteq Patterns /\ Own \in Addrs
      BY NetmapAssumption
    <3>2. Covers(r) <=> \E d \in r.dst : Own \in Denotes(d)
      BY <3>1, PatternMeans
    <3>3. (\E c \in Sources(r) : SameNet(c, src)) <=>
             \E s \in r.src : \E c \in IF s = Star THEN {<<0, 0>>} ELSE ParseCidr(s) : SameNet(c, src)
      OBVIOUS
    <3> QED
      BY <3>1, <3>2, <3>3, PatternMeans
  <2>5. (\E c \in Nets : SameNet(c, src)) <=>
           \E r \in Range(acl.rules) : Covers(r) /\ \E c \in Sources(r) : SameNet(c, src)
    OBVIOUS
  <2>6. AclAllows(acl, src) <=>
           \E r \in Range(acl.rules) :
              (\E d \in r.dst : Own \in Denotes(d)) /\ (\E s \in r.src : src \in Denotes(s))
    BY <1>3 DEF AclAllows
  <2> HIDE DEF Covers, Sources, Nets
  <2> QED
    BY <2>3, <2>4, <2>5, <2>6
<1> QED
  BY <1>2, <1>3

-----------------------------------------------------------------------------
\* The invariant.

\* The answer of the call, as the server sends it: the stream and its header
\* block, the bytes with their length prefix, and the places where the end of
\* a DATA frame is recorded in split.
Whole == Answer(op, cl.call, srv.held)
Skip == IF srv.held.prefixed THEN Prefix ELSE 0
Size == Skip + IF AsksMap(op, cl.call) THEN 8 ELSE 3
Sent == PrefixBytes(srv.held) \o Whole
TheAnswer ==
    [sid |-> Sid, block |-> srv.held.block, sent |-> Sent, size |-> Size, skip |-> Skip,
     cuts |-> IF AsksMap(op, cl.call) THEN Skip + 2 .. Skip + 5 ELSE {}, split |-> srv.split]

-----------------------------------------------------------------------------
\* W is the wire and F the plaintext of the connection, byte by byte, with
\* what was read and what was not sent yet.  The frames of the wire start at
\* the positions c + 1 to e whose tag is "c1"; where one starts, off is the
\* number of plaintext bytes before it and non the record counter.
BaseAt(W, k, e, off, non, F, t) ==
    LET n == W[k + 1][2]
    IN  /\ n \in Nat /\ k + 1 + n =< e
        /\ k + 1 + n < e => W[k + 2 + n][1] = "c1"
        /\ off[k + 2 + n] =< t
        /\ IF W[k][2] = "record"
           THEN /\ off[k + 2 + n] = off[k] + n
                /\ non[k + 2 + n] = (non[k] + 1) % Nonces
                /\ \A i \in k + 2 .. k + 1 + n : W[i] = <<"x", non[k], F[off[k] + (i - (k + 1))]>>
           ELSE off[k + 2 + n] = off[k] /\ non[k + 2 + n] = non[k]

BaseRow(W, c, e, off, non, F, t) ==
    /\ c < e => W[c + 1][1] = "c1"
    /\ \A k \in c + 1 .. e : W[k][1] = "c1" => BaseAt(W, k, e, off, non, F, t)

\* Conn.rx and the network hold the wire from h + 1 on, H2.rx and what the
\* server has not sealed yet the plaintext from r + 1 on.
Link(W, F, off, non, h, m, c, e, r, t) ==
    /\ h \in Nat /\ m \in Nat /\ c \in Nat /\ e \in Nat /\ r \in Nat /\ t \in Nat
    /\ off \in [Nat -> Nat] /\ non \in [Nat -> Nat]
    /\ h =< c /\ c =< e
    /\ Sliced(rxc, W, h, m) /\ Sliced(net, W, m, e)
    /\ off[c + 1] =< t
    /\ Sliced(rxh, F, r, off[c + 1]) /\ Sliced(srv.pend, F, off[e + 1], t)
    /\ non[c + 1] = nonce /\ non[e + 1] = srv.sealed
    /\ BaseRow(W, c, e, off, non, F, t)

-----------------------------------------------------------------------------
\* The frames of the plaintext start where the tag is "h1"; where one starts,
\* pos is the number of body bytes and ack that of the SETTINGS before it.
ExtraTypes == {"settings", "ping", "goaway"}
IsHead(F, k) == F[k][1] = "h1"
IsExtra(F, k) == F[k][3] \in ExtraTypes
IsEnd(F, k) == IsHead(F, k) /\ ~IsExtra(F, k) /\ F[k + 1][2]

ExtraFrame(F, k) ==
    IsExtra(F, k) /\ F[k][2] = 0 /\ F[k + 1] = <<"h2", FALSE, 0>>

HeadersFrame(F, k, pos, a) ==
    /\ F[k][3] = "headers"
    /\ \/ /\ F[k][2] = Len(a.block) /\ F[k + 1] = <<"h2", FALSE, a.sid>>
          /\ Sliced(a.block, F, k + 1, k + 1 + F[k][2])
       \/ F[k][2] = 0 /\ F[k + 1] = <<"h2", TRUE, a.sid>> /\ pos[k] = a.size

DataFrame(F, k, pos, a) ==
    LET n == F[k][2]
        flag == F[k + 1][2]
    IN  /\ F[k][3] = "data"
        /\ flag \in BOOLEAN /\ F[k + 1] = <<"h2", flag, a.sid>>
        /\ pos[k] + n =< a.size
        /\ flag => pos[k] + n = a.size
        /\ ~flag => n > 0
        /\ \A i \in k + 2 .. k + 1 + n : F[i] = a.sent[pos[k] + (i - (k + 1))]
        /\ "prefix" \notin a.split => ~(pos[k] = 0 /\ n \in 1 .. a.skip)
        /\ "address" \notin a.split => pos[k] + n \notin a.cuts

FrameAt(F, k, t, pos, ack, a) ==
    LET n == F[k][2]
    IN  /\ n \in Nat /\ k + 1 + n =< t
        /\ k + 1 + n < t => IsHead(F, k + 2 + n)
        /\ \A i \in k + 1 .. k + 1 + n : ~IsHead(F, i)
        /\ pos[k + 2 + n] = IF F[k][3] = "data" THEN pos[k] + n ELSE pos[k]
        /\ ack[k + 2 + n] = IF F[k][3] = "settings" THEN ack[k] + 1 ELSE ack[k]
        /\ pos[k + 2 + n] =< pos[t + 1]
        /\ \/ ExtraFrame(F, k)
           \/ HeadersFrame(F, k, pos, a)
           \/ DataFrame(F, k, pos, a)

FrameRow(F, r, t, pos, ack, a) ==
    /\ pos \in [Nat -> Nat] /\ ack \in [Nat -> Nat]
    /\ \A k \in r + 1 .. t : IsHead(F, k) => FrameAt(F, k, t, pos, ack, a)

OnlyExtras(F, r, t) == \A k \in r + 1 .. t : IsHead(F, k) => IsExtra(F, k)
NoEnd(F, r, t) == \A k \in r + 1 .. t : ~IsEnd(F, k)
EndIsLast(F, r, t) == \A k \in r + 1 .. t : IsEnd(F, k) => OnlyExtras(F, k, t)
Aligned(F, r, t) == r < t => IsHead(F, r + 1)

-----------------------------------------------------------------------------
\* The start of the connection: the early payload, if there is one, and the
\* server's SETTINGS.
SettingsAt(F, k, t) == k =< t /\ IsHead(F, k) /\ F[k][3] = "settings"
EarlyAt(F, k, ack) ==
    /\ ack[k + 9] = ack[k]
    /\ F[k] = <<"e1">> /\ F[k + 1] = <<"e2", 7>>
    /\ \A i \in k + 2 .. k + 8 : F[i] = EarlyText[i - (k + 1)]
Start(F, r, t, ack) ==
    SettingsAt(F, r + 1, t) \/ (EarlyAt(F, r + 1, ack) /\ SettingsAt(F, r + 10, t))
Greeted(W, c, e, F, r, t, ack) ==
    c < e /\ (W[c + 1][2] = "response" => Start(F, r, t, ack) /\ srv.unacked = ack[t + 1] - ack[r + 1])

Before == {"upgrade", "handshake", "early", "settings", "post"}
Reading == {"read", "hold"}
Stages == Before \cup Reading \cup Ended

\* How far the connection is at each stage of the call.
StageInv(W, F, ack, h, c, e, r, t) ==
    /\ cl.stage = "upgrade" =>
          \/ W[h + 1] = <<"u1", 101>> /\ W[h + 2] = UpgradeEnd /\ c = h + 2 /\ Greeted(W, c, e, F, r, t, ack)
          \/ W[h + 1] # <<"u1", 101>> /\ (e - h > HeadMax \/ \E k \in h + 1 .. e : W[k] = UpgradeEnd)
    /\ cl.stage = "handshake" => Greeted(W, c, e, F, r, t, ack)
    /\ cl.stage \in {"upgrade", "handshake"} => nonce = 0
    /\ cl.stage # "upgrade" => h = c
    /\ cl.stage = "early" => Start(F, r, t, ack)
    /\ cl.stage = "settings" => SettingsAt(F, r + 1, t)
    /\ cl.stage \in Reading \cup {"post"} => Aligned(F, r, t)
    /\ cl.stage \in Before => OnlyExtras(F, r, t)

\* What the server still has to say, and the credit it has for it.
CreditInv(F, r, t, pos, ack) ==
    /\ cl.stage \notin {"upgrade", "handshake"} => srv.unacked = ack[t + 1] - ack[r + 1]
    /\ cl.stage \in Before => srv.cwin = ConnWindow
    /\ cl.stage \in Before \ {"post"} => srv.phase = "idle"
    /\ cl.stage = "post" => srv.phase \in {"idle", "over"}
    /\ cl.stage \in Reading =>
          /\ srv.phase \in {"headers", "data", "end", "over"}
          /\ pos[r + 1] =< pos[t + 1]
          /\ pos[t + 1] =< Size /\ Sliced(srv.todo, Sent, pos[t + 1], Size)
          /\ srv.phase \in {"end", "over"} => pos[t + 1] = Size
          /\ srv.swin = StreamWindow - (pos[t + 1] - pos[r + 1])
          /\ srv.cwin = ConnWindow - (pos[t + 1] - pos[r + 1])
          /\ srv.phase # "over" => NoEnd(F, r, t)
          /\ EndIsLast(F, r, t)
          /\ srv.phase = "over" /\ Reader # "data" => \E k \in r + 1 .. t : IsEnd(F, k)
          /\ srv.style = "open" => Reader = "data"

\* What the call has made of the first b bytes of the answer.
ReadInv(b) ==
    /\ cl.stage \in Before =>
          cl.ip \in {NoIp, OwnText} /\ (Reader = "chunks" => cl.body = <<>> /\ ~cl.stripped)
    /\ cl.stage = "hold" => Reader = "data"
    /\ cl.stage \in Reading =>
          /\ Reader = "json" => cl.ip \in {NoIp, OwnText} /\ Sliced(cl.body, Sent, 0, b)
          /\ Reader = "chunks" =>
                /\ IF cl.stripped THEN b > Skip /\ Sliced(cl.body, Sent, Skip, b)
                   ELSE b = 0 /\ cl.body = <<>>
                /\ "address" \in srv.split \/ cl.ip = OwnText \/ (cl.ip = NoIp /\ b =< Skip + 1)
          /\ Reader = "data" =>
                /\ "address" \in srv.split \/ cl.ip \in {NoIp, OwnText}
                /\ op = "session" /\ cl.ip = NoIp =>
                      b =< Skip + 3 /\ \E s \in 0 .. Skip + 1 : s =< b /\ Sliced(cl.body, Sent, s, b)

Pipe(W, F, off, non, pos, ack, h, m, c, e, r, t) ==
    /\ Link(W, F, off, non, h, m, c, e, r, t)
    /\ FrameRow(F, r, t, pos, ack, TheAnswer)
    /\ StageInv(W, F, ack, h, c, e, r, t)
    /\ CreditInv(F, r, t, pos, ack)
    /\ ReadInv(pos[r + 1])

-----------------------------------------------------------------------------
ClientFields == {"stage", "call", "status", "body", "ip", "stripped", "chunks", "auth", "netmap", "peers", "allowed"}
ServerFields == {"held", "phase", "todo", "style", "pend", "sealed", "swin", "cwin", "unacked", "extras", "split"}

\* What a call returns, whatever the connection does.
CallInv ==
    /\ DOMAIN cl = ClientFields /\ DOMAIN srv = ServerFields
    /\ cl.stage \in Stages /\ cl.call \in {1, 2}
    /\ cl.call = 2 => op \in {"session", "register_once"} /\ cl.stage \in Reading \cup {"post"} \cup Ended
    /\ srv.held = NoHoldings \/ \E k \in 1 .. cl.call : srv.held \in Holdings(op, k)
    /\ cl.stage \in Reading \cup {"done"} => srv.held \in Holdings(op, cl.call)
    /\ cl.ip \in {NoIp, OwnText} \/ (Reader # "json" /\ "address" \in srv.split)
    /\ cl.status # 0 => \E k \in DOMAIN srv.held.block : srv.held.block[k][3] = cl.status
    /\ cl.stage = "done" =>
          /\ cl.call = 1 => cl.body = Whole
          /\ AsksMap(op, 1) /\ op # "update_endpoints" /\ "address" \notin srv.split => cl.ip = OwnText
          /\ op = "fetch_peers" => \E x \in Netmaps : cl.netmap = {x} /\ cl.allowed = AllowedSrcs(x.acl, cl.ip)
    /\ cl.stage = "failed" /\ Reader = "chunks" /\ "prefix" \notin srv.split => IsPrefix(cl.body, Whole)
    /\ NoStall

ControlInv ==
    /\ CallInv
    /\ cl.stage \notin Ended =>
          \E W, F, off, non, pos, ack, h, m, c, e, r, t :
             Pipe(W, F, off, non, pos, ack, h, m, c, e, r, t)

-----------------------------------------------------------------------------
\* Frames and slices.

\* A sequence of two elements.
LEMMA RowPair ==
    ASSUME NEW x, NEW y
    PROVE  Row(<<x, y>>, 2) /\ <<x, y>>[1] = x /\ <<x, y>>[2] = y
<1>1. <<x, y>> = [i \in 1 .. 2 |-> <<x, y>>[i]] /\ <<x, y>>[1] = x /\ <<x, y>>[2] = y
  OBVIOUS
<1> QED
  BY <1>1, RowByElements

\* A header of two atoms and a payload of n.
Headed(f, x, y, p, n) ==
    /\ Row(f, 2 + n) /\ f[1] = x /\ f[2] = y
    /\ \A i \in 3 .. 2 + n : f[i] = p[i - 2]

\* A header of two atoms joined with a payload,
LEMMA HeadedFacts ==
    ASSUME NEW f, NEW x, NEW y, NEW z, NEW p, NEW n, n \in Nat,
           Joined(f, z, 2, p, n), z[1] = x, z[2] = y
    PROVE  Headed(f, x, y, p, n)
  BY DEF Joined, Headed

\* as the frames on the wire have it,
LEMMA FrameBytes ==
    ASSUME NEW x, NEW y, NEW p, NEW n, Row(p, n)
    PROVE  Headed(<<x, y>> \o p, x, y, p, n)
<1>1. Row(<<x, y>>, 2) /\ <<x, y>>[1] = x /\ <<x, y>>[2] = y
  BY RowPair
<1>2. Joined(<<x, y>> \o p, <<x, y>>, 2, p, n)
  BY <1>1, RowConcat, Zenon
<1>3. n \in Nat
  BY RowFacts
<1> QED
  BY <1>1, <1>2, <1>3, HeadedFacts, Zenon

\* the controlbase frames,
LEMMA BaseFrameFacts ==
    ASSUME NEW typ, NEW p, NEW n, Row(p, n)
    PROVE  Headed(BaseFrame(typ, p), <<"c1", typ>>, <<"c2", n>>, p, n)
<1>1. Len(p) = n
  BY RowFacts, Zenon
<1>2. BaseFrame(typ, p) = << <<"c1", typ>>, <<"c2", n>> >> \o p
  BY <1>1, Zenon DEF BaseFrame
<1> QED
  BY <1>2, FrameBytes, Zenon

\* the frames of HTTP/2
LEMMA H2FrameFacts ==
    ASSUME NEW typ, NEW flag, NEW sid, NEW p, NEW n, Row(p, n)
    PROVE  Headed(H2Frame(typ, flag, sid, p), <<"h1", n, typ>>, <<"h2", flag, sid>>, p, n)
<1>1. Len(p) = n
  BY RowFacts, Zenon
<1>2. H2Frame(typ, flag, sid, p) = << <<"h1", n, typ>>, <<"h2", flag, sid>> >> \o p
  BY <1>1, Zenon DEF H2Frame
<1> QED
  BY <1>2, FrameBytes, Zenon

\* The ciphertext of n plaintext bytes.
Cipher(x, no, p, n) == Row(x, n) /\ \A i \in 1 .. n : x[i] = <<"x", no, p[i]>>

\* and the records, whose payload is the ciphertext of seal_record.
LEMMA RecordFacts ==
    ASSUME NEW no, NEW p, NEW n, Row(p, n)
    PROVE  \E x : Cipher(x, no, p, n) /\ Headed(Record(no, p), <<"c1", "record">>, <<"c2", n>>, x, n)
<1> DEFINE x == [k \in 1 .. n |-> <<"x", no, p[k]>>]
<1>1. DOMAIN p = 1 .. n /\ n \in Nat
  BY RowFacts
<1>2. Record(no, p) = BaseFrame("record", x)
  BY <1>1, Zenon DEF Record
<1>3. \A k \in 1 .. n : x[k] = <<"x", no, p[k]>>
  OBVIOUS
<1>4. x = [k \in 1 .. n |-> x[k]]
  OBVIOUS
<1> HIDE DEF x
<1>5. Row(x, n)
  BY <1>1, <1>4, RowByElements
<1>6. Headed(BaseFrame("record", x), <<"c1", "record">>, <<"c2", n>>, x, n)
  BY <1>5, BaseFrameFacts, Zenon
<1>7. Cipher(x, no, p, n)
  BY <1>3, <1>5 DEF Cipher
<1> QED
  BY <1>2, <1>6, <1>7, Zenon

-----------------------------------------------------------------------------
\* A stream that goes on with a frame.
Grown(F2, F, t, frame, n) ==
    /\ Row(frame, n)
    /\ \A i \in Nat : i =< t => F2[i] = F[i]
    /\ \A i \in t + 1 .. t + n : F2[i] = frame[i - t]

\* The plaintext of the connection grows by a frame the server sends.
LEMMA GrownExists ==
    ASSUME NEW F, NEW t \in Nat, NEW frame, NEW n, Row(frame, n)
    PROVE  \E F2 : Grown(F2, F, t, frame, n)
<1> DEFINE F2 == [i \in Nat |-> IF i =< t THEN F[i] ELSE frame[i - t]]
<1>1. n \in Nat
  BY RowFacts
<1>2. Grown(F2, F, t, frame, n)
  BY <1>1 DEF Grown
<1> QED
  BY <1>2

\* What holds a part of a stream up to its end holds the frame too.
LEMMA SlicedGrows ==
    ASSUME NEW F, NEW F2, NEW a, NEW t, NEW frame, NEW n, NEW w, NEW l, NEW v, a \in Nat, t \in Nat,
           Grown(F2, F, t, frame, n), Sliced(w, F, a, t), l = t - a, Joined(v, w, l, frame, n)
    PROVE  Sliced(w, F2, a, t) /\ Sliced(v, F2, a, t + n)
<1>1. n \in Nat /\ t - a \in Nat /\ Row(frame, n) /\ Row(w, t - a)
  BY RowFacts DEF Grown, Sliced
<1>2. \A i \in 1 .. t - a : a + i \in Nat /\ a + i =< t /\ w[i] = F[a + i] /\ w[i] = F2[a + i]
  BY <1>1 DEF Grown, Sliced
<1>3. ASSUME NEW i \in 1 .. (t + n) - a
      PROVE  v[i] = F2[a + i]
  <2>1. CASE i =< t - a
    BY <1>1, <1>2, <2>1 DEF Joined
  <2>2. CASE ~(i =< t - a)
    <3>1. i \in (t - a) + 1 .. (t - a) + n /\ a + i \in t + 1 .. t + n /\ (a + i) - t = i - (t - a)
      BY <1>1, <2>2
    <3>2. v[i] = frame[i - (t - a)] /\ F2[a + i] = frame[(a + i) - t]
      BY <3>1 DEF Joined, Grown
    <3> QED
      BY <3>1, <3>2
  <2> QED
    BY <2>1, <2>2
<1>4. Row(v, (t + n) - a)
  <2>1. (t + n) - a = (t - a) + n
    BY <1>1
  <2> QED
    BY <2>1 DEF Joined
<1> QED
  BY <1>1, <1>2, <1>3, <1>4 DEF Sliced

\* Parts of a part.
LEMMA SlicedTake ==
    ASSUME NEW F, NEW a, NEW b, NEW w, NEW k, Sliced(w, F, a, b), k \in 0 .. b - a, a \in Nat, b \in Nat
    PROVE  Sliced(SubSeq(w, 1, k), F, a, a + k)
<1>1. Row(w, b - a)
  BY DEF Sliced
<1>2. Sliced(SubSeq(w, 1, k), w, 0, k)
  BY <1>1, RowTake, Zenon
<1>3. PICK v : v = SubSeq(w, 1, k)
  OBVIOUS
<1>4. Sliced(v, w, 0, k)
  BY <1>2, <1>3
<1>5. Sliced(v, F, a, a + k)
  BY <1>4 DEF Sliced
<1> QED
  BY <1>3, <1>5

\* What was read is dropped from the front of a slice,
LEMMA SlicedDrop ==
    ASSUME NEW F, NEW a, NEW b, NEW w, NEW k, Sliced(w, F, a, b), k \in 0 .. b - a, a \in Nat, b \in Nat
    PROVE  Sliced(Drop(w, k), F, a + k, b)
<1>1. Row(w, b - a)
  BY DEF Sliced
<1>2. Sliced(Drop(w, k), w, k, b - a)
  BY <1>1, RowDrop, Zenon
<1>3. PICK v : v = Drop(w, k)
  OBVIOUS
<1>4. Sliced(v, w, k, b - a)
  BY <1>2, <1>3
<1>5. Sliced(v, F, a + k, b)
  <2>1. \A i \in 1 .. (b - a) - k : k + i \in 1 .. b - a /\ a + (k + i) = (a + k) + i
    OBVIOUS
  <2>2. (b - a) - k = b - (a + k)
    OBVIOUS
  <2> QED
    BY <1>4, <2>1, <2>2 DEF Sliced
<1> QED
  BY <1>3, <1>5

\* and what comes next is joined to its end.
LEMMA SlicedJoin ==
    ASSUME NEW F, NEW a, NEW b, NEW d, NEW w, NEW u, a \in Nat, b \in Nat, d \in Nat,
           Sliced(w, F, a, b), Sliced(u, F, b, d)
    PROVE  Sliced(w \o u, F, a, d)
<1>1. Row(u, d - b) /\ Row(w, b - a) /\ d - b \in Nat /\ b - a \in Nat
  BY RowFacts DEF Sliced
<1>3. Joined(w \o u, w, b - a, u, d - b)
  BY <1>1, RowConcat, Zenon
<1>4. PICK v : v = w \o u
  OBVIOUS
<1>5. Joined(v, w, b - a, u, d - b)
  BY <1>3, <1>4
<1>6. ASSUME NEW i \in 1 .. d - a
      PROVE  v[i] = F[a + i]
  <2>1. CASE i =< b - a
    BY <1>1, <1>5, <2>1 DEF Joined, Sliced
  <2>2. CASE ~(i =< b - a)
    <3>1. i \in (b - a) + 1 .. (b - a) + (d - b) /\ i - (b - a) \in 1 .. d - b /\ b + (i - (b - a)) = a + i
      BY <1>1, <2>2
    <3>2. v[i] = u[i - (b - a)] /\ u[i - (b - a)] = F[b + (i - (b - a))]
      BY <1>5, <3>1 DEF Joined, Sliced
    <3> QED
      BY <3>1, <3>2
  <2> QED
    BY <2>1, <2>2
<1>7. Row(v, d - a)
  <2>1. d - a = (b - a) + (d - b)
    BY <1>1
  <2> QED
    BY <1>5, <2>1 DEF Joined
<1> QED
  BY <1>4, <1>6, <1>7 DEF Sliced

\* Two parts of the same places are the same.
LEMMA SlicedEqual ==
    ASSUME NEW F, NEW a, NEW b, NEW w, NEW u, Sliced(w, F, a, b), Sliced(u, F, a, b)
    PROVE  w = u
<1>1. Row(w, b - a) /\ Row(u, b - a) /\ \A i \in 1 .. b - a : w[i] = u[i]
  BY DEF Sliced
<1> QED
  BY <1>1, RowsEqual, Zenon

\* F2 is F up to t; no frame starts between a and b.
Agree(F2, F, t) == \A i \in Nat : i =< t => F2[i] = F[i]
NoStart(F, a, b, tag) == \A i \in a .. b : F[i][1] # tag

\* The wire grows by a frame with a payload that holds no header.
LEMMA BaseGrows ==
    ASSUME NEW W, NEW W2, NEW F, NEW F2, NEW c \in Nat, NEW e \in Nat, NEW t \in Nat, NEW t2 \in Nat, NEW n \in Nat,
           NEW off \in [Nat -> Nat], NEW off2 \in [Nat -> Nat], NEW non \in [Nat -> Nat], NEW non2 \in [Nat -> Nat],
           c =< e, t =< t2,
           BaseRow(W, c, e, off, non, F, t),
           Agree(W2, W, e), Agree(F2, F, t), Agree(off2, off, e + 1), Agree(non2, non, e + 1),
           W2[e + 1][1] = "c1",
           NoStart(W2, e + 2, e + 2 + n, "c1"),
           BaseAt(W2, e + 1, e + 2 + n, off2, non2, F2, t2)
    PROVE  BaseRow(W2, c, e + 2 + n, off2, non2, F2, t2)
<1>1. W2[c + 1][1] = "c1"
  <2>1. CASE c < e
    <3>1. c + 1 \in Nat /\ c + 1 =< e
      BY <2>1
    <3>2. W[c + 1][1] = "c1"
      BY <2>1 DEF BaseRow
    <3> QED
      BY <3>1, <3>2 DEF Agree
  <2>2. CASE c = e
    BY <2>2
  <2> QED
    BY <2>1, <2>2
<1>2. ASSUME NEW k \in c + 1 .. e, W2[k][1] = "c1"
      PROVE  BaseAt(W2, k, e + 2 + n, off2, non2, F2, t2)
  <2>1. k \in Nat /\ k =< e /\ W[k][1] = "c1"
    BY <1>2 DEF Agree
  <2>2. BaseAt(W, k, e, off, non, F, t)
    BY <2>1 DEF BaseRow
  <2> DEFINE p == W[k + 1][2]
  <2>3. /\ p \in Nat /\ k + 1 + p =< e
        /\ k + 1 + p < e => W[k + 2 + p][1] = "c1"
        /\ off[k + 2 + p] =< t
        /\ W[k][2] = "record" =>
              /\ off[k + 2 + p] = off[k] + p
              /\ non[k + 2 + p] = (non[k] + 1) % Nonces
              /\ \A i \in k + 2 .. k + 1 + p : W[i] = <<"x", non[k], F[off[k] + (i - (k + 1))]>>
        /\ W[k][2] # "record" => off[k + 2 + p] = off[k] /\ non[k + 2 + p] = non[k]
    BY <2>2 DEF BaseAt
  <2> HIDE DEF p
  <2>4. /\ k + 1 \in Nat /\ k + 1 =< e /\ k + 2 + p \in Nat /\ k + 2 + p =< e + 1
        /\ W2[k] = W[k] /\ W2[k + 1] = W[k + 1]
        /\ off2[k] = off[k] /\ non2[k] = non[k]
        /\ off2[k + 2 + p] = off[k + 2 + p] /\ non2[k + 2 + p] = non[k + 2 + p]
        /\ off[k] \in Nat /\ off[k + 2 + p] \in Nat
    <3>1. k + 1 \in Nat /\ k + 1 =< e /\ k + 2 + p \in Nat /\ k + 2 + p =< e + 1
      BY <2>1, <2>3
    <3> QED
      BY <2>1, <3>1 DEF Agree
  <2>5. W2[k + 2 + p][1] = "c1"
    <3>1. CASE k + 1 + p < e
      <4>1. k + 2 + p =< e
        BY <2>3, <3>1
      <4>2. W2[k + 2 + p] = W[k + 2 + p]
        BY <2>4, <4>1 DEF Agree
      <4> QED
        BY <2>3, <3>1, <4>2
    <3>2. CASE k + 1 + p = e
      <4>1. k + 2 + p = e + 1
        BY <2>3, <3>2
      <4> QED
        BY <4>1
    <3> QED
      BY <2>3, <3>1, <3>2
  <2>6. ASSUME W[k][2] = "record", NEW i \in k + 2 .. k + 1 + p
        PROVE  W2[i] = <<"x", non2[k], F2[off2[k] + (i - (k + 1))]>>
    <3>1. i \in Nat /\ i =< e /\ off[k] + (i - (k + 1)) \in Nat /\ off[k] + (i - (k + 1)) =< t
      BY <2>1, <2>3, <2>4, <2>6
    <3>2. W[i] = <<"x", non[k], F[off[k] + (i - (k + 1))]>>
      BY <2>3, <2>6
    <3>3. W2[i] = W[i] /\ F2[off[k] + (i - (k + 1))] = F[off[k] + (i - (k + 1))]
      BY <3>1 DEF Agree
    <3> QED
      BY <2>4, <3>2, <3>3
  <2>7. W2[k + 1][2] = p
    BY <2>4 DEF p
  <2>8. k + 1 + p =< e + 2 + n /\ off2[k + 2 + p] =< t2
    BY <2>1, <2>3, <2>4
  <2> QED
    BY <2>3, <2>4, <2>5, <2>6, <2>7, <2>8 DEF BaseAt
<1>3. ASSUME NEW k \in c + 1 .. e + 2 + n, W2[k][1] = "c1"
      PROVE  k \in c + 1 .. e \/ k = e + 1
  BY <1>3 DEF NoStart
<1> QED
  BY <1>1, <1>2, <1>3 DEF BaseRow

\* The payload p of a frame of type typ, sent with o0 plaintext bytes and the
\* record counter no0 before it and o and no after it.
Carried(typ, p, n, o0, no0, o, no, F) ==
    IF typ = "record"
    THEN /\ o = o0 + n /\ no = (no0 + 1) % Nonces
         /\ \A i \in 1 .. n : p[i] = <<"x", no0, F[o0 + i]>>
    ELSE o = o0 /\ no = no0 /\ \A i \in 1 .. n : p[i][1] # "c1"

\* The server sends a controlbase frame of n atoms.
LEMMA LinkAppend ==
    ASSUME NEW W, NEW F, NEW off, NEW non, NEW h, NEW m, NEW c, NEW e, NEW r, NEW t,
           Link(W, F, off, non, h, m, c, e, r, t),
           NEW F2, NEW t2 \in Nat, t =< t2, Agree(F2, F, t),
           NEW typ, NEW n \in Nat, NEW p, NEW x, Headed(x, <<"c1", typ>>, <<"c2", n>>, p, n),
           NEW o \in Nat, NEW no \in Nat, o =< t2,
           Carried(typ, p, n, off[e + 1], srv.sealed, o, no, F2),
           rxc' = rxc, rxh' = rxh, nonce' = nonce, Joined(net', net, e - m, x, 2 + n),
           Sliced(srv'.pend, F2, o, t2), srv'.sealed = no
    PROVE  \E W2, off2, non2 :
              /\ Link(W2, F2, off2, non2, h, m, c, e + 2 + n, r, t2)'
              /\ Agree(W2, W, e)
<1>1. /\ h \in Nat /\ m \in Nat /\ c \in Nat /\ e \in Nat /\ r \in Nat /\ t \in Nat
      /\ off \in [Nat -> Nat] /\ non \in [Nat -> Nat]
      /\ h =< c /\ c =< e
      /\ Sliced(rxc, W, h, m) /\ Sliced(net, W, m, e)
      /\ off[c + 1] =< t /\ Sliced(rxh, F, r, off[c + 1])
      /\ non[c + 1] = nonce /\ non[e + 1] = srv.sealed
      /\ BaseRow(W, c, e, off, non, F, t)
  BY DEF Link
<1>2. Row(x, 2 + n)
  BY DEF Headed
<1>3. PICK W2 : Grown(W2, W, e, x, 2 + n)
  BY <1>1, <1>2, GrownExists, Zenon
<1>100. PICK off2 : off2 = [i \in Nat |-> IF i = e + 3 + n THEN o ELSE off[i]]
  OBVIOUS
<1>101. PICK non2 : non2 = [i \in Nat |-> IF i = e + 3 + n THEN no ELSE non[i]]
  OBVIOUS
<1>4. off2 \in [Nat -> Nat] /\ off2[e + 3 + n] = o /\ \A i \in Nat : i # e + 3 + n => off2[i] = off[i]
  BY <1>1, <1>100
<1>5. non2 \in [Nat -> Nat] /\ non2[e + 3 + n] = no /\ \A i \in Nat : i # e + 3 + n => non2[i] = non[i]
  BY <1>1, <1>101
<1> HIDE <1>100, <1>101
<1>6. Agree(W2, W, e) /\ Agree(off2, off, e + 1) /\ Agree(non2, non, e + 1)
  BY <1>1, <1>3, <1>4, <1>5 DEF Agree, Grown
<1>7. /\ W2[e + 1] = <<"c1", typ>> /\ W2[e + 2] = <<"c2", n>>
      /\ \A i \in e + 3 .. e + 2 + n : W2[i] = p[i - (e + 2)]
  <2>1. W2[e + 1] = x[1] /\ W2[e + 2] = x[2]
    <3>1. /\ e + 1 \in e + 1 .. e + (2 + n) /\ (e + 1) - e = 1
          /\ e + 2 \in e + 1 .. e + (2 + n) /\ (e + 2) - e = 2
      BY <1>1
    <3> QED
      BY <1>3, <3>1 DEF Grown
  <2>2. ASSUME NEW i \in e + 3 .. e + 2 + n
        PROVE  W2[i] = p[i - (e + 2)]
    <3>1. i \in e + 1 .. e + (2 + n) /\ i - e \in 3 .. 2 + n /\ (i - e) - 2 = i - (e + 2)
      BY <1>1
    <3>2. W2[i] = x[i - e] /\ x[i - e] = p[(i - e) - 2]
      BY <1>3, <3>1 DEF Grown, Headed
    <3> QED
      BY <3>1, <3>2
  <2> QED
    BY <2>1, <2>2 DEF Headed
<1>8. W2[e + 1][1] = "c1" /\ W2[e + 1][2] = typ /\ W2[e + 2][2] = n /\ W2[e + 2][1] = "c2"
  BY <1>7
<1>9. NoStart(W2, e + 2, e + 2 + n, "c1")
  <2> SUFFICES ASSUME NEW i \in e + 2 .. e + 2 + n
               PROVE  W2[i][1] # "c1"
    BY DEF NoStart
  <2>1. CASE i = e + 2
    BY <1>8, <2>1
  <2>2. CASE i # e + 2
    <3>1. i \in e + 3 .. e + 2 + n /\ i - (e + 2) \in 1 .. n
      BY <1>1, <2>2
    <3>2. p[i - (e + 2)][1] # "c1"
      BY <3>1 DEF Carried
    <3> QED
      BY <1>7, <3>1, <3>2
  <2> QED
    BY <2>1, <2>2
<1>10. BaseAt(W2, e + 1, e + 2 + n, off2, non2, F2, t2)
  <2>1. /\ (e + 1) + 1 = e + 2 /\ (e + 1) + 1 + n = e + 2 + n /\ (e + 1) + 2 + n = e + 3 + n
        /\ e + 1 # e + 3 + n /\ e + 1 \in Nat
    BY <1>1
  <2>2. off2[e + 1] = off[e + 1] /\ non2[e + 1] = srv.sealed
    BY <1>1, <1>4, <1>5, <2>1
  <2>3. /\ off2[e + 3 + n] = o /\ non2[e + 3 + n] = no
    BY <1>4, <1>5
  <2>4. typ = "record" => \A i \in (e + 1) + 2 .. (e + 1) + 1 + n :
                             W2[i] = <<"x", non2[e + 1], F2[off2[e + 1] + (i - ((e + 1) + 1))]>>
    <3>1. HAVE typ = "record"
    <3> TAKE i \in (e + 1) + 2 .. (e + 1) + 1 + n
    <3>2. i \in e + 3 .. e + 2 + n /\ i - (e + 2) \in 1 .. n /\ i - ((e + 1) + 1) = i - (e + 2)
      BY <1>1
    <3>3. W2[i] = p[i - (e + 2)] /\ p[i - (e + 2)] = <<"x", srv.sealed, F2[off[e + 1] + (i - (e + 2))]>>
      BY <1>7, <3>1, <3>2 DEF Carried
    <3> QED
      BY <2>2, <3>2, <3>3
  <2>5. /\ typ = "record" => o = off[e + 1] + n /\ no = (srv.sealed + 1) % Nonces
        /\ typ # "record" => o = off[e + 1] /\ no = srv.sealed
    BY DEF Carried
  <2>6. W2[(e + 1) + 1][2] = n /\ W2[e + 1][2] = typ
    BY <1>8, <2>1
  <2>7. /\ off2[(e + 1) + 2 + n] = o /\ non2[(e + 1) + 2 + n] = no /\ o =< t2
        /\ n \in Nat /\ (e + 1) + 1 + n =< e + 2 + n /\ ~((e + 1) + 1 + n < e + 2 + n)
    BY <1>1, <2>1, <2>3
  <2> HIDE <1>7
  <2> QED
    BY <2>2, <2>4, <2>5, <2>6, <2>7 DEF BaseAt
<1>11. BaseRow(W2, c, e + 2 + n, off2, non2, F2, t2)
  BY <1>1, <1>4, <1>5, <1>6, <1>8, <1>9, <1>10, BaseGrows
<1>12. Sliced(rxc, W2, h, m)
  <2>1. m =< e
    BY <1>1, RowFacts DEF Sliced
  <2>2. \A i \in 1 .. m - h : h + i \in Nat /\ h + i =< e
    BY <1>1, <2>1
  <2> QED
    BY <1>1, <1>6, <2>2 DEF Sliced, Agree
<1>13. Sliced(net', W2, m, e + (2 + n))
  <2>1. m \in Nat /\ e \in Nat /\ Sliced(net, W, m, e)
    BY <1>1
  <2>2. PICK l : l = e - m
    OBVIOUS
  <2>3. Joined(net', net, l, x, 2 + n)
    BY <2>2
  <2> QED
    BY <1>3, <2>1, <2>2, <2>3, SlicedGrows
<1>14. Sliced(net', W2, m, e + 2 + n)
  <2>1. e + (2 + n) = e + 2 + n
    BY <1>1
  <2> QED
    BY <1>13, <2>1
<1>15. off2[c + 1] = off[c + 1] /\ non2[c + 1] = non[c + 1] /\ off2[e + 2 + n + 1] = o /\ non2[e + 2 + n + 1] = no
  <2>1. c + 1 # e + 3 + n /\ c + 1 \in Nat /\ e + 2 + n + 1 = e + 3 + n
    BY <1>1
  <2> QED
    BY <1>4, <1>5, <2>1
<1>16. Sliced(rxh, F2, r, off[c + 1])
  <2>1. off[c + 1] \in Nat
    BY <1>1
  <2>2. \A i \in 1 .. off[c + 1] - r : r + i \in Nat /\ r + i =< t
    BY <1>1, <2>1
  <2> QED
    BY <1>1, <2>2 DEF Sliced, Agree
<1>17. Link(W2, F2, off2, non2, h, m, c, e + 2 + n, r, t2)'
  <2>1. e + 2 + n \in Nat /\ c =< e + 2 + n /\ off2[c + 1] =< t2
    BY <1>1, <1>15
  <2>2. Sliced(rxc', W2, h, m) /\ Sliced(rxh', F2, r, off2[c + 1]) /\ nonce' = nonce
        /\ Sliced(srv'.pend, F2, off2[e + 2 + n + 1], t2) /\ srv'.sealed = non2[e + 2 + n + 1]
    BY <1>12, <1>15, <1>16
  <2> QED
    <3>1. /\ (h \in Nat /\ m \in Nat /\ c \in Nat /\ e + 2 + n \in Nat /\ r \in Nat /\ t2 \in Nat)
          /\ off2 \in [Nat -> Nat] /\ non2 \in [Nat -> Nat]
          /\ h =< c /\ c =< e + 2 + n /\ off2[c + 1] =< t2
      BY <1>1, <1>4, <1>5, <2>1
    <3>2. non2[c + 1] = nonce' /\ non2[e + 2 + n + 1] = srv'.sealed
      BY <1>1, <1>15
    <3> QED
      BY <1>11, <1>14, <2>2, <3>1, <3>2 DEF Link
<1> QED
  BY <1>6, <1>17

\* How much of n bytes a record takes.
LEMMA CutFacts ==
    ASSUME NEW frame, NEW n, NEW plain, NEW l, NEW k, Row(frame, n), Row(plain, l), l >= n,
           k \in (IF frame = <<>> THEN {Len(plain)} ELSE {1, Len(plain) - 1, Len(plain)})
    PROVE  k \in 0 .. l
<1>1. n \in Nat /\ l \in Nat /\ Len(plain) = l
  BY RowFacts
<1>2. n = 0 => frame = <<>>
  BY EmptyRow, Zenon
<1> QED
  BY <1>1, <1>2

\* The server's record after a frame: s, but for what is sealed.
Sealed(s) == \E x, no : srv' = [s EXCEPT !.pend = x, !.sealed = no]

\* The server seals a part of what waits and of a frame.
LEMMA LinkSend ==
    ASSUME NEW W, NEW F, NEW off, NEW non, NEW h, NEW m, NEW c, NEW e, NEW r, NEW t, NEW F2, NEW frame, NEW n, NEW s,
           Link(W, F, off, non, h, m, c, e, r, t), Grown(F2, F, t, frame, n),
           Send(frame, s), DOMAIN s = ServerFields, s.sealed = srv.sealed
    PROVE  /\ Sealed(s)
           /\ \E W2, off2, non2, e2 :
                 Link(W2, F2, off2, non2, h, m, c, e2, r, t + n)' /\ Agree(W2, W, e) /\ e =< e2
<1>1. /\ m \in Nat /\ e \in Nat /\ t \in Nat
      /\ off \in [Nat -> Nat] /\ non \in [Nat -> Nat]
      /\ Sliced(net, W, m, e) /\ Sliced(srv.pend, F, off[e + 1], t)
      /\ non[e + 1] = srv.sealed
  BY DEF Link
<1>2. PICK o : o = off[e + 1]
  OBVIOUS
<1>3. o \in Nat /\ srv.sealed \in Nat /\ Sliced(srv.pend, F, o, t)
  BY <1>1, <1>2
<1>4. PICK plain : plain = srv.pend \o frame
  OBVIOUS
<1>5. PICK k \in (IF frame = <<>> THEN {Len(plain)} ELSE {1, Len(plain) - 1, Len(plain)}) :
         /\ net' = net \o Record(srv.sealed, SubSeq(plain, 1, k))
         /\ srv' = [s EXCEPT !.pend = Drop(plain, k), !.sealed = (@ + 1) % Nonces]
  BY <1>4, Zenon DEF Send
<1>6. rxc' = rxc /\ rxh' = rxh /\ nonce' = nonce
  BY DEF Send
<1>7. PICK l : l = t - o
  OBVIOUS
<1>8. l \in Nat /\ n \in Nat /\ Row(frame, n) /\ Row(srv.pend, l)
  BY <1>3, <1>7, RowFacts DEF Sliced, Grown
<1>9. Joined(plain, srv.pend, l, frame, n)
  BY <1>4, <1>8, RowConcat, Zenon
<1> HIDE <1>4
<1>10. Sliced(plain, F2, o, t + n)
  BY <1>1, <1>3, <1>7, <1>9, SlicedGrows
<1>11. k \in 0 .. l + n
  <2>1. Row(plain, l + n) /\ l + n >= n
    BY <1>8, <1>9 DEF Joined
  <2> QED
    BY <1>5, <1>8, <2>1, CutFacts, Zenon
<1>12. k \in Nat /\ k \in 0 .. (t + n) - o /\ t + n \in Nat /\ o + k \in Nat /\ o + k =< t + n /\ t =< t + n
  BY <1>1, <1>3, <1>7, <1>8, <1>11
<1>13. PICK u : u = SubSeq(plain, 1, k)
  OBVIOUS
<1>14. Sliced(u, F2, o, o + k)
  BY <1>3, <1>10, <1>12, <1>13, SlicedTake, Zenon
<1>15. Row(u, k) /\ \A i \in 1 .. k : u[i] = F2[o + i]
  <2>1. (o + k) - o = k
    BY <1>3, <1>12
  <2> QED
    BY <1>14, <2>1 DEF Sliced
<1>16. PICK x : x = Record(srv.sealed, u)
  OBVIOUS
<1>17. PICK p : Cipher(p, srv.sealed, u, k) /\ Headed(x, <<"c1", "record">>, <<"c2", k>>, p, k)
  BY <1>15, <1>16, RecordFacts, Zenon
<1>18. PICK no : no = (srv.sealed + 1) % Nonces
  OBVIOUS
<1>19. no \in Nat
  BY <1>3, <1>18, ControlAssumption
<1>20. Carried("record", p, k, off[e + 1], srv.sealed, o + k, no, F2)
  BY <1>2, <1>15, <1>17, <1>18 DEF Carried, Cipher
<1>21. Joined(net', net, e - m, x, 2 + k)
  <2>1. Row(net, e - m) /\ Row(x, 2 + k)
    BY <1>1, <1>17 DEF Sliced, Headed
  <2>2. net' = net \o x
    BY <1>5, <1>13, <1>16, Zenon
  <2> QED
    BY <2>1, <2>2, RowConcat, Zenon
<1>22. PICK left : left = Drop(plain, k)
  OBVIOUS
<1>23. Sliced(left, F2, o + k, t + n)
  BY <1>3, <1>10, <1>12, <1>22, SlicedDrop, Zenon
<1>24. srv' = [s EXCEPT !.pend = left, !.sealed = no]
  BY <1>5, <1>18, <1>22
<1> HIDE <1>5, <1>13, <1>16, <1>18, <1>22
<1>25. Sliced(srv'.pend, F2, o + k, t + n) /\ srv'.sealed = no
  BY <1>23, <1>24 DEF ServerFields
<1>26. Agree(F2, F, t)
  BY DEF Agree, Grown
<1>27. PICK W2, off2, non2 :
          /\ Link(W2, F2, off2, non2, h, m, c, e + 2 + k, r, t + n)'
          /\ Agree(W2, W, e)
  BY <1>6, <1>12, <1>17, <1>19, <1>20, <1>21, <1>25, <1>26, LinkAppend
<1>28. e =< e + 2 + k
  BY <1>1, <1>12
<1>29. Sealed(s)
  BY <1>24, Zenon DEF Sealed
<1> QED
  BY <1>27, <1>28, <1>29, Zenon

\* An error frame between two records.
LEMMA LinkError ==
    ASSUME NEW W, NEW F, NEW off, NEW non, NEW h, NEW m, NEW c, NEW e, NEW r, NEW t,
           Link(W, F, off, non, h, m, c, e, r, t), SendError, DOMAIN srv = ServerFields
    PROVE  \E W2, off2, non2, e2 :
              /\ Link(W2, F, off2, non2, h, m, c, e2, r, t)'
              /\ Agree(W2, W, e) /\ e =< e2
<1>1. /\ m \in Nat /\ e \in Nat /\ t \in Nat
      /\ off \in [Nat -> Nat] /\ non \in [Nat -> Nat]
      /\ Sliced(net, W, m, e) /\ Sliced(srv.pend, F, off[e + 1], t)
      /\ non[e + 1] = srv.sealed
  BY DEF Link
<1>2. PICK o, no : o = off[e + 1] /\ no = srv.sealed
  OBVIOUS
<1>3. o \in Nat /\ no \in Nat /\ Sliced(srv.pend, F, o, t) /\ o =< t
  <2>1. o \in Nat /\ no \in Nat /\ Sliced(srv.pend, F, o, t)
    BY <1>1, <1>2
  <2>2. t - o \in Nat
    BY <2>1, RowFacts DEF Sliced
  <2> QED
    BY <1>1, <2>1, <2>2
<1>4. PICK p : p = <<B("text")>>
  OBVIOUS
<1>5. Row(p, 1) /\ p[1] = B("text")
  BY <1>4, RowSingle
<1>6. PICK x : x = BaseFrame("error", p)
  OBVIOUS
<1>7. Headed(x, <<"c1", "error">>, <<"c2", 1>>, p, 1)
  BY <1>5, <1>6, BaseFrameFacts, Zenon
<1>8. Joined(net', net, e - m, x, 2 + 1)
  <2>1. Row(net, e - m) /\ Row(x, 2 + 1)
    BY <1>1, <1>7 DEF Sliced, Headed
  <2>2. net' = net \o x
    BY <1>4, <1>6, Zenon DEF SendError
  <2> QED
    BY <2>1, <2>2, RowConcat, Zenon
<1>9. rxc' = rxc /\ rxh' = rxh /\ nonce' = nonce /\ srv' = [srv EXCEPT !.extras = @ + 1]
  BY DEF SendError
<1> HIDE <1>4, <1>6
<1>10. Sliced(srv'.pend, F, o, t) /\ srv'.sealed = no
  BY <1>2, <1>3, <1>9 DEF ServerFields
<1>11. Carried("error", p, 1, off[e + 1], srv.sealed, o, no, F)
  <2>1. \A i \in 1 .. 1 : p[i][1] # "c1"
    BY <1>5 DEF B
  <2> QED
    BY <1>2, <2>1 DEF Carried
<1>12. Agree(F, F, t) /\ t =< t /\ 1 \in Nat
  BY <1>1 DEF Agree
<1>13. PICK W2, off2, non2 : Link(W2, F, off2, non2, h, m, c, e + 2 + 1, r, t)' /\ Agree(W2, W, e)
  BY <1>1, <1>3, <1>7, <1>8, <1>9, <1>10, <1>11, <1>12, LinkAppend
<1>14. e =< e + 2 + 1
  BY <1>1
<1> QED
  BY <1>13, <1>14, Zenon

\* A read of the socket.
LEMMA LinkFill ==
    ASSUME NEW W, NEW F, NEW off, NEW non, NEW h, NEW m, NEW c, NEW e, NEW r, NEW t, NEW n,
           Link(W, F, off, non, h, m, c, e, r, t), n \in 1 .. Len(net), Fill(n)
    PROVE  \E m2 : Link(W, F, off, non, h, m2, c, e, r, t)'
<1>1. h \in Nat /\ m \in Nat /\ e \in Nat /\ Sliced(net, W, m, e) /\ Sliced(rxc, W, h, m)
  BY DEF Link
<1>2. Len(net) = e - m
  BY <1>1, RowFacts DEF Sliced
<1>3. n \in 0 .. e - m /\ m + n \in Nat /\ m + n =< e
  BY <1>1, <1>2
<1>4. Sliced(SubSeq(net, 1, n), W, m, m + n) /\ Sliced(Drop(net, n), W, m + n, e)
  BY <1>1, <1>3, SlicedTake, SlicedDrop, Zenon
<1>5. Sliced(rxc \o SubSeq(net, 1, n), W, h, m + n)
  BY <1>1, <1>3, <1>4, SlicedJoin, Zenon
<1>6. Sliced(rxc', W, h, m + n) /\ Sliced(net', W, m + n, e)
  BY <1>4, <1>5, Zenon DEF Fill
<1>7. rxh' = rxh /\ nonce' = nonce /\ srv' = srv
  BY DEF Fill
<1>8. Link(W, F, off, non, h, m + n, c, e, r, t)'
  BY <1>3, <1>6, <1>7 DEF Link
<1> QED
  BY <1>8

-----------------------------------------------------------------------------
\* The frame at the head of Conn.rx.
LEMMA BaseHead ==
    ASSUME NEW W, NEW F, NEW off, NEW non, NEW m, NEW c, NEW e, NEW r, NEW t,
           Link(W, F, off, non, c, m, c, e, r, t), BaseReady
    PROVE  \E n \in Nat :
              /\ n = W[c + 2][2] /\ c < e /\ c + 2 + n =< m /\ m =< e
              /\ rxc[2][2] = n /\ BaseType = W[c + 1][2]
              /\ BaseAt(W, c + 1, e, off, non, F, t)
              /\ BaseRow(W, c + 2 + n, e, off, non, F, t)
              /\ Sliced(BasePayload, W, c + 2, c + 2 + n)
              /\ Sliced(AfterBase, W, c + 2 + n, m)
<1>1. /\ m \in Nat /\ c \in Nat /\ e \in Nat /\ Sliced(rxc, W, c, m) /\ Sliced(net, W, m, e)
      /\ BaseRow(W, c, e, off, non, F, t)
  BY DEF Link
<1>2. Row(rxc, m - c) /\ Len(rxc) = m - c /\ m =< e
  BY <1>1, RowFacts DEF Sliced
<1>3. c + 2 =< m /\ m - c >= 2 + rxc[2][2]
  BY <1>1, <1>2 DEF BaseReady
<1>4. rxc[1] = W[c + 1] /\ rxc[2] = W[c + 2]
  <2>1. 1 \in 1 .. m - c /\ 2 \in 1 .. m - c
    BY <1>1, <1>3
  <2> QED
    BY <1>1, <2>1 DEF Sliced
<1>5. c < e /\ W[c + 1][1] = "c1" /\ c + 1 \in c + 1 .. e
  BY <1>1, <1>2, <1>3 DEF BaseRow
<1>6. BaseAt(W, c + 1, e, off, non, F, t)
  BY <1>1, <1>5 DEF BaseRow
<1>7. (c + 1) + 1 = c + 2 /\ \A i \in Nat : (c + 1) + 2 + i = (c + 2 + i) + 1 /\ (c + 1) + 1 + i = c + 2 + i
  BY <1>1
<1>8. PICK n : n = W[c + 2][2]
  OBVIOUS
<1>9. n \in Nat /\ c + 2 + n =< e /\ (c + 2 + n < e => W[(c + 2 + n) + 1][1] = "c1")
  BY <1>6, <1>7, <1>8 DEF BaseAt
<1>10. rxc[2][2] = n /\ c + 2 + n =< m
  BY <1>1, <1>3, <1>4, <1>8, <1>9
<1>11. BaseRow(W, c + 2 + n, e, off, non, F, t)
  <2>1. \A k \in c + 2 + n + 1 .. e : k \in c + 1 .. e
    BY <1>1, <1>9
  <2> QED
    BY <1>1, <1>9, <2>1 DEF BaseRow
<1>12. Sliced(BasePayload, W, c + 2, c + 2 + n)
  <2>1. Sliced(SubSeq(rxc, 1 + 2, 2 + n), rxc, 2, 2 + n)
    <3>1. 2 \in 0 .. m - c /\ 2 + n \in 2 .. m - c /\ 2 + 1 = 1 + 2
      BY <1>1, <1>9, <1>10
    <3>2. Sliced(SubSeq(rxc, 2 + 1, 2 + n), rxc, 2, 2 + n)
      BY <1>2, <3>1, RowSlice, Zenon
    <3> QED
      BY <3>2
  <2>2. PICK w : w = BasePayload
    OBVIOUS
  <2>3. Sliced(w, rxc, 2, 2 + n)
    <3>1. 1 + 2 = 3
      OBVIOUS
    <3> QED
      BY <1>10, <2>1, <2>2, <3>1, Zenon DEF BasePayload
  <2>4. Sliced(w, W, c + 2, c + 2 + n)
    <3>1. (2 + n) - 2 = n /\ (c + 2 + n) - (c + 2) = n
      BY <1>1, <1>9
    <3>2. \A i \in 1 .. n : 2 + i \in 1 .. m - c /\ c + (2 + i) = (c + 2) + i
      BY <1>1, <1>9, <1>10
    <3> QED
      BY <1>1, <2>3, <3>1, <3>2 DEF Sliced
  <2> QED
    BY <2>2, <2>4
<1>13. Sliced(AfterBase, W, c + 2 + n, m)
  <2>1. 2 + n \in 0 .. m - c /\ c + (2 + n) = c + 2 + n
    BY <1>1, <1>9, <1>10
  <2>2. Sliced(Drop(rxc, 2 + n), W, c + (2 + n), m)
    BY <1>1, <2>1, SlicedDrop, Zenon
  <2> QED
    BY <1>10, <2>1, <2>2, Zenon DEF AfterBase
<1>14. BaseType = W[c + 1][2]
  BY <1>4 DEF BaseType
<1> QED
  BY <1>2, <1>5, <1>6, <1>8, <1>9, <1>10, <1>11, <1>12, <1>13, <1>14

\* The frame at the head of Conn.rx is taken.
LEMMA LinkHandshake ==
    ASSUME NEW W, NEW F, NEW off, NEW non, NEW m, NEW c, NEW e, NEW r, NEW t,
           Link(W, F, off, non, c, m, c, e, r, t), Handshake, BaseType = "response", nonce = 0
    PROVE  \E c2 : Link(W, F, off, non, c2, m, c2, e, r, t)'
<1>1. /\ m \in Nat /\ c \in Nat /\ e \in Nat /\ r \in Nat /\ t \in Nat
      /\ off \in [Nat -> Nat] /\ non \in [Nat -> Nat]
      /\ Sliced(net, W, m, e) /\ Sliced(rxh, F, r, off[c + 1]) /\ off[c + 1] =< t
      /\ Sliced(srv.pend, F, off[e + 1], t)
      /\ non[c + 1] = nonce /\ non[e + 1] = srv.sealed
  BY DEF Link
<1>2. BaseReady /\ rxc' = AfterBase /\ nonce' = 0 /\ net' = net /\ rxh' = rxh /\ srv' = srv
  BY DEF Handshake
<1>3. PICK n \in Nat :
         /\ n = W[c + 2][2] /\ c + 2 + n =< m /\ m =< e /\ BaseType = W[c + 1][2]
         /\ BaseAt(W, c + 1, e, off, non, F, t)
         /\ BaseRow(W, c + 2 + n, e, off, non, F, t)
         /\ Sliced(AfterBase, W, c + 2 + n, m)
  BY <1>2, BaseHead, Zenon
<1>4. off[c + 2 + n + 1] = off[c + 1] /\ non[c + 2 + n + 1] = non[c + 1]
  <2>1. (c + 1) + 1 = c + 2 /\ (c + 1) + 2 + n = c + 2 + n + 1
    BY <1>1
  <2> QED
    BY <1>3, <2>1 DEF BaseAt
<1>5. c + 2 + n \in Nat /\ c + 2 + n =< e
  BY <1>1, <1>3
<1>6. Sliced(rxc', W, c + 2 + n, m) /\ Sliced(rxh', F, r, off[c + 2 + n + 1]) /\ off[c + 2 + n + 1] =< t
  BY <1>1, <1>2, <1>3, <1>4
<1>7. non[c + 2 + n + 1] = nonce' /\ non[e + 1] = srv'.sealed /\ Sliced(srv'.pend, F, off[e + 1], t) /\ Sliced(net', W, m, e)
  BY <1>1, <1>2, <1>4
<1>8. Link(W, F, off, non, c + 2 + n, m, c + 2 + n, e, r, t)'
  BY <1>1, <1>3, <1>5, <1>6, <1>7 DEF Link
<1> QED
  BY <1>8

\* A record always opens.
LEMMA LinkPull ==
    ASSUME NEW W, NEW F, NEW off, NEW non, NEW m, NEW c, NEW e, NEW r, NEW t,
           Link(W, F, off, non, c, m, c, e, r, t), Pull, BaseType = "record"
    PROVE  /\ cl' = cl /\ srv' = srv /\ op' = op
           /\ \E c2 : Link(W, F, off, non, c2, m, c2, e, r, t)'
<1>1. /\ m \in Nat /\ c \in Nat /\ e \in Nat /\ r \in Nat /\ t \in Nat
      /\ off \in [Nat -> Nat] /\ non \in [Nat -> Nat]
      /\ Sliced(net, W, m, e) /\ Sliced(rxh, F, r, off[c + 1]) /\ off[c + 1] =< t
      /\ Sliced(srv.pend, F, off[e + 1], t)
      /\ non[c + 1] = nonce /\ non[e + 1] = srv.sealed
  BY DEF Link
<1>2. BaseReady /\ rxc' = AfterBase /\ nonce' = (nonce + 1) % Nonces /\ net' = net /\ srv' = srv /\ op' = op
  BY DEF Pull
<1>3. PICK n \in Nat :
         /\ n = W[c + 2][2] /\ c + 2 + n =< m /\ m =< e /\ BaseType = W[c + 1][2]
         /\ BaseAt(W, c + 1, e, off, non, F, t)
         /\ BaseRow(W, c + 2 + n, e, off, non, F, t)
         /\ Sliced(BasePayload, W, c + 2, c + 2 + n)
         /\ Sliced(AfterBase, W, c + 2 + n, m)
  BY <1>2, BaseHead, Zenon
<1>4. PICK o : o = off[c + 1]
  OBVIOUS
<1>5. /\ o \in Nat /\ off[c + 2 + n + 1] = o + n /\ non[c + 2 + n + 1] = (nonce + 1) % Nonces
      /\ o + n =< t
      /\ \A i \in c + 3 .. c + 2 + n : W[i] = <<"x", nonce, F[o + (i - (c + 2))]>>
  <2>1. (c + 1) + 1 = c + 2 /\ (c + 1) + 2 + n = c + 2 + n + 1 /\ (c + 1) + 2 = c + 3 /\ (c + 1) + 1 + n = c + 2 + n
    BY <1>1
  <2> QED
    BY <1>1, <1>3, <1>4, <2>1 DEF BaseAt
<1>6. PICK p : p = BasePayload
  OBVIOUS
<1>7. Row(p, n) /\ \A i \in 1 .. n : p[i] = <<"x", nonce, F[o + i]>>
  <2>1. Row(p, n)
    <3>1. (c + 2 + n) - (c + 2) = n
      BY <1>1
    <3> QED
      BY <1>3, <1>6, <3>1 DEF Sliced
  <2>2. ASSUME NEW i \in 1 .. n
        PROVE  p[i] = <<"x", nonce, F[o + i]>>
    <3>1. (c + 2) + i \in c + 3 .. c + 2 + n /\ ((c + 2) + i) - (c + 2) = i /\ i \in 1 .. (c + 2 + n) - (c + 2)
      BY <1>1
    <3>2. p[i] = W[(c + 2) + i]
      BY <1>3, <1>6, <3>1 DEF Sliced
    <3> QED
      BY <1>5, <3>1, <3>2
  <2> QED
    BY <2>1, <2>2
<1>8. DOMAIN p = 1 .. n
  BY <1>7, RowFacts, Zenon
<1>9. \A k \in DOMAIN p : p[k][2] = nonce
  BY <1>7, <1>8
<1>10. cl' = cl /\ rxh' = rxh \o [k \in DOMAIN p |-> p[k][3]]
  BY <1>3, <1>6, <1>9, Zenon DEF Pull
<1>11. PICK u : u = [k \in DOMAIN p |-> p[k][3]]
  OBVIOUS
<1>12. u = [k \in 1 .. n |-> u[k]] /\ \A k \in 1 .. n : u[k] = F[o + k]
  BY <1>7, <1>8, <1>11
<1>13. Row(u, n)
  BY <1>12, RowByElements, Zenon
<1>14. Sliced(u, F, o, o + n)
  <2>1. (o + n) - o = n
    BY <1>5
  <2> QED
    BY <1>12, <1>13, <2>1 DEF Sliced
<1>15. Sliced(rxh \o u, F, r, o + n)
  <2>1. o + n \in Nat /\ Sliced(rxh, F, r, o)
    BY <1>1, <1>4, <1>5
  <2> QED
    BY <1>1, <1>5, <1>14, <2>1, SlicedJoin, Zenon
<1>16. Sliced(rxh', F, r, o + n)
  BY <1>10, <1>11, <1>15, Zenon
<1> HIDE <1>10, <1>11
<1>17. c + 2 + n \in Nat /\ c + 2 + n =< e
  BY <1>1, <1>3
<1>18. Sliced(rxc', W, c + 2 + n, m) /\ Sliced(rxh', F, r, off[c + 2 + n + 1]) /\ off[c + 2 + n + 1] =< t
  BY <1>2, <1>3, <1>5, <1>16
<1>19. non[c + 2 + n + 1] = nonce' /\ non[e + 1] = srv'.sealed /\ Sliced(srv'.pend, F, off[e + 1], t) /\ Sliced(net', W, m, e)
  BY <1>1, <1>2, <1>5
<1>20. Link(W, F, off, non, c + 2 + n, m, c + 2 + n, e, r, t)'
  BY <1>1, <1>3, <1>17, <1>18, <1>19 DEF Link
<1> QED
  BY <1>2, <1>10, <1>20

\* A part of the plaintext is taken.
LEMMA LinkRead ==
    ASSUME NEW W, NEW F, NEW off, NEW non, NEW h, NEW m, NEW c, NEW e, NEW r, NEW t, NEW k,
           Link(W, F, off, non, h, m, c, e, r, t), k \in Nat, r + k =< off[c + 1],
           rxh' = Drop(rxh, k), net' = net, rxc' = rxc, nonce' = nonce,
           srv'.pend = srv.pend, srv'.sealed = srv.sealed
    PROVE  Link(W, F, off, non, h, m, c, e, r + k, t)'
<1>1. r \in Nat /\ off \in [Nat -> Nat] /\ c \in Nat /\ Sliced(rxh, F, r, off[c + 1])
  BY DEF Link
<1>2. off[c + 1] \in Nat /\ r + k \in Nat /\ k \in 0 .. off[c + 1] - r
  BY <1>1
<1>3. Sliced(Drop(rxh, k), F, r + k, off[c + 1])
  BY <1>1, <1>2, SlicedDrop, Zenon
<1> QED
  BY <1>2, <1>3 DEF Link

\* The same answer, of which more DATA frames may end at odd places.
SameAnswer(a2, a) ==
    /\ a2.sid = a.sid /\ a2.block = a.block /\ a2.sent = a.sent /\ a2.size = a.size
    /\ a2.skip = a.skip /\ a2.cuts = a.cuts /\ a.split \subseteq a2.split

\* A frame stays one while the stream grows.
LEMMA FrameKept ==
    ASSUME NEW F, NEW F2, NEW k, NEW t, NEW t2, NEW pos, NEW pos2, NEW ack, NEW ack2, NEW a, NEW a2,
           k \in Nat, t \in Nat, t2 \in Nat, t =< t2, IsHead(F2, t + 1) \/ t2 = t,
           Agree(F2, F, t), SameAnswer(a2, a),
           pos \in [Nat -> Nat], pos2 \in [Nat -> Nat],
           Agree(pos2, pos, t + 1), Agree(ack2, ack, t + 1), pos2[t + 1] =< pos2[t2 + 1],
           FrameAt(F, k, t, pos, ack, a)
    PROVE  FrameAt(F2, k, t2, pos2, ack2, a2)
<1>1. PICK n : n = F[k][2]
  OBVIOUS
<1>2. /\ n \in Nat /\ k + 1 + n =< t
      /\ k + 1 + n < t => IsHead(F, k + 2 + n)
      /\ \A i \in k + 1 .. k + 1 + n : ~IsHead(F, i)
      /\ pos[k + 2 + n] = IF F[k][3] = "data" THEN pos[k] + n ELSE pos[k]
      /\ ack[k + 2 + n] = IF F[k][3] = "settings" THEN ack[k] + 1 ELSE ack[k]
      /\ pos[k + 2 + n] =< pos[t + 1]
      /\ ExtraFrame(F, k) \/ HeadersFrame(F, k, pos, a) \/ DataFrame(F, k, pos, a)
  BY <1>1 DEF FrameAt
<1>3. /\ \A i \in k .. k + 1 + n : F2[i] = F[i]
      /\ k \in k .. k + 1 + n /\ k + 1 \in k .. k + 1 + n
      /\ pos2[k] = pos[k] /\ pos2[k + 2 + n] = pos[k + 2 + n] /\ pos2[t + 1] = pos[t + 1]
      /\ ack2[k] = ack[k] /\ ack2[k + 2 + n] = ack[k + 2 + n]
  BY <1>2 DEF Agree
<1>4. F2[k] = F[k] /\ F2[k + 1] = F[k + 1]
  BY <1>3
<1>5. /\ pos2[k] \in Nat /\ pos2[k + 2 + n] \in Nat /\ pos2[t + 1] \in Nat /\ pos2[t2 + 1] \in Nat
      /\ pos2[k + 2 + n] =< pos2[t2 + 1]
  <2>1. /\ k + 2 + n \in Nat /\ t + 1 \in Nat /\ t2 + 1 \in Nat
    BY <1>2
  <2>2. /\ pos2[k] \in Nat /\ pos2[k + 2 + n] \in Nat /\ pos2[t + 1] \in Nat /\ pos2[t2 + 1] \in Nat
    BY <2>1
  <2> QED
    BY <1>2, <1>3, <2>2
<1>6. k + 1 + n < t2 => IsHead(F2, k + 2 + n)
  <2>1. CASE k + 1 + n < t
    <3>1. k + 2 + n \in Nat /\ k + 2 + n =< t
      BY <1>2, <2>1
    <3> QED
      BY <1>2, <2>1, <3>1 DEF IsHead, Agree
  <2>2. CASE k + 1 + n = t
    <3>1. k + 2 + n = t + 1
      BY <1>2, <2>2
    <3> QED
      BY <2>2, <3>1
  <2> QED
    BY <1>2, <2>1, <2>2
<1>7. \A i \in k + 1 .. k + 1 + n : ~IsHead(F2, i)
  BY <1>2, <1>3 DEF IsHead
<1>8. ExtraFrame(F, k) => ExtraFrame(F2, k)
  BY <1>4 DEF ExtraFrame, IsExtra
<1>9. HeadersFrame(F, k, pos, a) => HeadersFrame(F2, k, pos2, a2)
  <2>1. Sliced(a.block, F, k + 1, k + 1 + n) => Sliced(a.block, F2, k + 1, k + 1 + n)
    <3>1. (k + 1 + n) - (k + 1) = n /\ \A i \in 1 .. n : (k + 1) + i \in k .. k + 1 + n
      BY <1>2
    <3> QED
      BY <1>3, <3>1 DEF Sliced
  <2> QED
    BY <1>1, <1>3, <1>4, <2>1 DEF HeadersFrame, SameAnswer
<1>10. DataFrame(F, k, pos, a) => DataFrame(F2, k, pos2, a2)
  <2>1. HAVE DataFrame(F, k, pos, a)
  <2>2. PICK flag : flag = F[k + 1][2]
    OBVIOUS
  <2>3. /\ F[k][3] = "data"
        /\ flag \in BOOLEAN /\ F[k + 1] = <<"h2", flag, a.sid>>
        /\ pos[k] + n =< a.size
        /\ (flag => pos[k] + n = a.size) /\ (~flag => n > 0)
        /\ "prefix" \notin a.split => ~(pos[k] = 0 /\ n \in 1 .. a.skip)
        /\ "address" \notin a.split => pos[k] + n \notin a.cuts
    BY <1>1, <2>1, <2>2 DEF DataFrame
  <2>4. \A i \in k + 2 .. k + 1 + n : F[i] = a.sent[pos[k] + (i - (k + 1))]
    BY <1>1, <2>1 DEF DataFrame
  <2>5. \A i \in k + 2 .. k + 1 + n : F2[i] = a2.sent[pos2[k] + (i - (k + 1))]
    <3>1. \A i \in k + 2 .. k + 1 + n : i \in k .. k + 1 + n
      BY <1>2
    <3> QED
      BY <1>3, <2>4, <3>1 DEF SameAnswer
  <2>6. F2[k][2] = n /\ F2[k + 1][2] = flag
    BY <1>1, <1>4, <2>2
  <2>7. /\ F2[k][3] = "data"
        /\ flag \in BOOLEAN /\ F2[k + 1] = <<"h2", flag, a2.sid>>
        /\ pos2[k] + n =< a2.size
        /\ (flag => pos2[k] + n = a2.size) /\ (~flag => n > 0)
    BY <1>3, <1>4, <2>3 DEF SameAnswer
  <2>8. /\ "prefix" \notin a2.split => ~(pos2[k] = 0 /\ n \in 1 .. a2.skip)
        /\ "address" \notin a2.split => pos2[k] + n \notin a2.cuts
    BY <1>3, <2>3 DEF SameAnswer
  <2> HIDE <2>3, <2>4
  <2> QED
    BY <2>5, <2>6, <2>7, <2>8 DEF DataFrame
<1>11. F2[k][2] = n /\ F2[k][3] = F[k][3] /\ k + 1 + n =< t2
  BY <1>1, <1>2, <1>4
<1> QED
  BY <1>2, <1>3, <1>5, <1>6, <1>7, <1>8, <1>9, <1>10, <1>11 DEF FrameAt

\* The plaintext grows by a frame.
LEMMA FrameGrows ==
    ASSUME NEW F, NEW F2, NEW r, NEW t, NEW n, NEW pos, NEW pos2, NEW ack, NEW ack2, NEW a, NEW a2,
           r \in Nat, t \in Nat, n \in Nat,
           FrameRow(F, r, t, pos, ack, a), Agree(F2, F, t), SameAnswer(a2, a),
           pos2 \in [Nat -> Nat], ack2 \in [Nat -> Nat],
           Agree(pos2, pos, t + 1), Agree(ack2, ack, t + 1), pos2[t + 1] =< pos2[t + 2 + n + 1],
           IsHead(F2, t + 1), F2[t + 1][2] = n,
           FrameAt(F2, t + 1, t + 2 + n, pos2, ack2, a2)
    PROVE  FrameRow(F2, r, t + 2 + n, pos2, ack2, a2)
<1>1. pos \in [Nat -> Nat] /\ \A k \in r + 1 .. t : IsHead(F, k) => FrameAt(F, k, t, pos, ack, a)
  BY DEF FrameRow
<1>2. ASSUME NEW k \in r + 1 .. t + 2 + n, IsHead(F2, k)
      PROVE  FrameAt(F2, k, t + 2 + n, pos2, ack2, a2)
  <2>1. CASE k =< t
    <3>1. k \in Nat /\ k \in r + 1 .. t /\ t + 2 + n \in Nat /\ t =< t + 2 + n
      BY <2>1
    <3>2. IsHead(F, k)
      BY <1>2, <3>1 DEF IsHead, Agree
    <3>3. FrameAt(F, k, t, pos, ack, a)
      BY <1>1, <3>1, <3>2
    <3> QED
      BY <1>1, <2>1, <3>1, <3>3, FrameKept
  <2>2. CASE k = t + 1
    BY <2>2
  <2>3. CASE k > t + 1
    <3>1. k \in (t + 1) + 1 .. (t + 1) + 1 + n
      BY <2>3
    <3>2. \A i \in (t + 1) + 1 .. (t + 1) + 1 + n : ~IsHead(F2, i)
      BY DEF FrameAt
    <3> QED
      BY <1>2, <3>1, <3>2
  <2> QED
    BY <2>1, <2>2, <2>3
<1> QED
  BY <1>2 DEF FrameRow

-----------------------------------------------------------------------------
\* Reading a frame.

\* Less of the plaintext is left.
LEMMA RowShrinks ==
    ASSUME NEW F, NEW r, NEW r2, NEW t, NEW pos, NEW ack, NEW a, r \in Nat, r2 \in Nat, r =< r2
    PROVE  /\ FrameRow(F, r, t, pos, ack, a) => FrameRow(F, r2, t, pos, ack, a)
           /\ OnlyExtras(F, r, t) => OnlyExtras(F, r2, t)
           /\ NoEnd(F, r, t) => NoEnd(F, r2, t)
           /\ EndIsLast(F, r, t) => EndIsLast(F, r2, t)
<1>1. \A k \in r2 + 1 .. t : k \in r + 1 .. t
  OBVIOUS
<1> QED
  BY <1>1 DEF FrameRow, OnlyExtras, NoEnd, EndIsLast

\* A frame that was read.
Took(F, r, n, t, pos, ack, a) ==
    /\ n \in Nat /\ r < t /\ r + 2 + n =< t
    /\ F[r + 1][2] = n /\ IsHead(F, r + 1) /\ FrameAt(F, r + 1, t, pos, ack, a)
    /\ FrameRow(F, r + 2 + n, t, pos, ack, a) /\ Aligned(F, r + 2 + n, t)

\* The first frame of the plaintext, once it has been read.
LEMMA TookFacts ==
    ASSUME NEW F, NEW r, NEW t, NEW pos, NEW ack, NEW a, r \in Nat, t \in Nat, r < t,
           FrameRow(F, r, t, pos, ack, a), IsHead(F, r + 1)
    PROVE  \E n \in Nat : Took(F, r, n, t, pos, ack, a)
<1>1. FrameAt(F, r + 1, t, pos, ack, a)
  BY DEF FrameRow
<1>2. PICK n : n = F[r + 1][2]
  OBVIOUS
<1>3. (r + 1) + 1 = r + 2
  OBVIOUS
<1>4. n \in Nat /\ r + 2 + n =< t /\ (r + 2 + n < t => IsHead(F, (r + 2 + n) + 1))
  <2>1. /\ n \in Nat /\ (r + 1) + 1 + n =< t
        /\ (r + 1) + 1 + n < t => IsHead(F, (r + 1) + 2 + n)
    BY <1>1, <1>2 DEF FrameAt
  <2>2. (r + 1) + 1 + n = r + 2 + n /\ (r + 1) + 2 + n = (r + 2 + n) + 1
    BY <2>1
  <2> QED
    BY <2>1, <2>2
<1>5. FrameRow(F, r + 2 + n, t, pos, ack, a)
  <2>1. r + 2 + n \in Nat /\ r =< r + 2 + n
    BY <1>4
  <2> QED
    BY <2>1, RowShrinks
<1> QED
  BY <1>1, <1>2, <1>4, <1>5 DEF Took, Aligned

\* The counters after a frame that was read.
LEMMA TookCounts ==
    ASSUME NEW F, NEW r, NEW n, NEW t, NEW pos, NEW ack, NEW a, r \in Nat, t \in Nat,
           Took(F, r, n, t, pos, ack, a), pos \in [Nat -> Nat], ack \in [Nat -> Nat]
    PROVE  /\ n \in Nat /\ r + 2 + n \in Nat /\ r + 2 + n + 1 \in Nat
           /\ pos[r + 2 + n + 1] = IF F[r + 1][3] = "data" THEN pos[r + 1] + n ELSE pos[r + 1]
           /\ ack[r + 2 + n + 1] = IF F[r + 1][3] = "settings" THEN ack[r + 1] + 1 ELSE ack[r + 1]
           /\ pos[r + 2 + n + 1] =< pos[t + 1]
           /\ pos[r + 1] \in Nat /\ pos[t + 1] \in Nat /\ ack[r + 1] \in Nat /\ ack[t + 1] \in Nat
<1>1. n \in Nat /\ (r + 1) + 2 + n = r + 2 + n + 1 /\ F[r + 1][2] = n /\ FrameAt(F, r + 1, t, pos, ack, a)
  BY DEF Took
<1>2. /\ pos[(r + 1) + 2 + n] = IF F[r + 1][3] = "data" THEN pos[r + 1] + n ELSE pos[r + 1]
      /\ ack[(r + 1) + 2 + n] = IF F[r + 1][3] = "settings" THEN ack[r + 1] + 1 ELSE ack[r + 1]
      /\ pos[(r + 1) + 2 + n] =< pos[t + 1]
  BY <1>1 DEF FrameAt
<1> QED
  BY <1>1, <1>2

\* What it was: its flag and stream, and what they say.
TookExtra(F, r, n) == IsExtra(F, r + 1) /\ n = 0 /\ F[r + 2] = <<"h2", FALSE, 0>>
TookBlock(F, r, n, a) ==
    F[r + 1][3] = "headers" /\ F[r + 2] = <<"h2", FALSE, a.sid>> /\ Sliced(a.block, F, r + 2, r + 2 + n)
TookTrailers(F, r, n, pos, a) ==
    F[r + 1][3] = "headers" /\ n = 0 /\ F[r + 2] = <<"h2", TRUE, a.sid>> /\ pos[r + 1] = a.size
TookBytes(F, r, n, pos, a, flag) ==
    /\ F[r + 1][3] = "data" /\ F[r + 2] = <<"h2", flag, a.sid>>
    /\ pos[r + 1] + n =< a.size
    /\ flag => pos[r + 1] + n = a.size
    /\ ~flag => n > 0
    /\ "prefix" \notin a.split => ~(pos[r + 1] = 0 /\ n \in 1 .. a.skip)
    /\ "address" \notin a.split => pos[r + 1] + n \notin a.cuts

\* That frame is one without a meaning for the call, the header block, the
\* end of the stream or a piece of the answer.
LEMMA TookKinds ==
    ASSUME NEW F, NEW r, NEW n, NEW t, NEW pos, NEW ack, NEW a, r \in Nat, t \in Nat,
           Took(F, r, n, t, pos, ack, a)
    PROVE  \/ TookExtra(F, r, n) \/ TookBlock(F, r, n, a) \/ TookTrailers(F, r, n, pos, a)
           \/ \E flag \in BOOLEAN : TookBytes(F, r, n, pos, a, flag)
<1>1. n \in Nat /\ (r + 1) + 1 = r + 2 /\ (r + 1) + 1 + n = r + 2 + n /\ F[r + 1][2] = n /\ FrameAt(F, r + 1, t, pos, ack, a)
  BY DEF Took
<1>2. ExtraFrame(F, r + 1) \/ HeadersFrame(F, r + 1, pos, a) \/ DataFrame(F, r + 1, pos, a)
  BY <1>1 DEF FrameAt
<1>3. CASE ExtraFrame(F, r + 1)
  BY <1>1, <1>3 DEF ExtraFrame, TookExtra
<1>4. CASE HeadersFrame(F, r + 1, pos, a)
  <2>1. F[r + 1][3] = "headers"
    BY <1>4 DEF HeadersFrame
  <2>2. CASE /\ F[r + 1][2] = Len(a.block) /\ F[(r + 1) + 1] = <<"h2", FALSE, a.sid>>
             /\ Sliced(a.block, F, (r + 1) + 1, (r + 1) + 1 + F[r + 1][2])
    <3>1. TookBlock(F, r, n, a)
      BY <1>1, <2>1, <2>2 DEF TookBlock
    <3> QED
      BY <3>1
  <2>3. CASE F[r + 1][2] = 0 /\ F[(r + 1) + 1] = <<"h2", TRUE, a.sid>> /\ pos[r + 1] = a.size
    <3>1. TookTrailers(F, r, n, pos, a)
      BY <1>1, <2>1, <2>3 DEF TookTrailers
    <3> QED
      BY <3>1
  <2> QED
    BY <1>4, <2>2, <2>3, Zenon DEF HeadersFrame
<1>5. CASE DataFrame(F, r + 1, pos, a)
  <2>1. PICK flag : flag = F[r + 2][2]
    OBVIOUS
  <2>2. flag \in BOOLEAN /\ TookBytes(F, r, n, pos, a, flag)
    BY <1>1, <1>5, <2>1 DEF DataFrame, TookBytes
  <2> QED
    BY <2>2
<1> QED
  BY <1>2, <1>3, <1>4, <1>5

\* The payload of a DATA frame.
LEMMA TookData ==
    ASSUME NEW F, NEW r, NEW n, NEW t, NEW pos, NEW ack, NEW a, NEW w, r \in Nat, t \in Nat,
           Took(F, r, n, t, pos, ack, a), F[r + 1][3] = "data", pos[r + 1] \in Nat,
           Sliced(w, F, r + 2, r + 2 + n)
    PROVE  Sliced(w, a.sent, pos[r + 1], pos[r + 1] + n)
<1>1. n \in Nat /\ F[r + 1][2] = n /\ FrameAt(F, r + 1, t, pos, ack, a)
  BY DEF Took
<1>2. DataFrame(F, r + 1, pos, a)
  BY <1>1 DEF FrameAt, ExtraFrame, IsExtra, ExtraTypes, HeadersFrame
<1>3. \A i \in r + 3 .. r + 2 + n : F[i] = a.sent[pos[r + 1] + (i - (r + 2))]
  <2>1. (r + 1) + 2 = r + 3 /\ (r + 1) + 1 + n = r + 2 + n /\ (r + 1) + 1 = r + 2
    BY <1>1
  <2> QED
    BY <1>1, <1>2, <2>1 DEF DataFrame
<1>4. (r + 2 + n) - (r + 2) = n /\ (pos[r + 1] + n) - pos[r + 1] = n
  BY <1>1
<1>5. ASSUME NEW i \in 1 .. n
      PROVE  w[i] = a.sent[pos[r + 1] + i]
  <2>1. (r + 2) + i \in r + 3 .. r + 2 + n /\ ((r + 2) + i) - (r + 2) = i /\ i \in 1 .. (r + 2 + n) - (r + 2)
    BY <1>1
  <2>2. w[i] = F[(r + 2) + i]
    BY <2>1 DEF Sliced
  <2> QED
    BY <1>3, <2>1, <2>2
<1>6. Row(w, n)
  BY <1>4 DEF Sliced
<1> QED
  BY <1>4, <1>5, <1>6 DEF Sliced

\* What is left after a frame, of the frames with END_STREAM.
LEMMA TookEnds ==
    ASSUME NEW F, NEW r, NEW n, NEW t, NEW pos, NEW ack, NEW a, r \in Nat, t \in Nat,
           Took(F, r, n, t, pos, ack, a)
    PROVE  /\ OnlyExtras(F, r, t) => OnlyExtras(F, r + 2 + n, t) /\ IsExtra(F, r + 1)
           /\ NoEnd(F, r, t) => NoEnd(F, r + 2 + n, t) /\ ~IsEnd(F, r + 1)
           /\ EndIsLast(F, r, t) => EndIsLast(F, r + 2 + n, t)
           /\ EndIsLast(F, r, t) /\ IsEnd(F, r + 1) => OnlyExtras(F, r + 2 + n, t)
           /\ ~IsEnd(F, r + 1) /\ (\E k \in r + 1 .. t : IsEnd(F, k))
                 => \E k \in r + 2 + n + 1 .. t : IsEnd(F, k)
<1>1. n \in Nat /\ r + 2 + n \in Nat /\ r =< r + 2 + n /\ r + 1 \in r + 1 .. t /\ IsHead(F, r + 1)
  BY DEF Took
<1>2. \A k \in r + 2 .. r + 2 + n : ~IsHead(F, k)
  <2>1. (r + 1) + 1 = r + 2 /\ F[r + 1][2] = n /\ FrameAt(F, r + 1, t, pos, ack, a)
    BY DEF Took
  <2> QED
    BY <2>1 DEF FrameAt
<1>3. ASSUME ~IsEnd(F, r + 1), NEW k \in r + 1 .. t, IsEnd(F, k)
      PROVE  k \in r + 2 + n + 1 .. t
  <2>1. k # r + 1 /\ ~(k \in r + 2 .. r + 2 + n)
    BY <1>2, <1>3 DEF IsEnd
  <2> QED
    BY <1>1, <2>1
<1>4. ASSUME EndIsLast(F, r, t), IsEnd(F, r + 1)
      PROVE  OnlyExtras(F, r + 2 + n, t)
  <2>1. OnlyExtras(F, r + 1, t)
    BY <1>1, <1>4 DEF EndIsLast
  <2>2. r + 1 \in Nat /\ r + 1 =< r + 2 + n
    BY <1>1
  <2> QED
    BY <1>1, <2>1, <2>2, RowShrinks
<1>5. /\ OnlyExtras(F, r, t) => OnlyExtras(F, r + 2 + n, t)
      /\ NoEnd(F, r, t) => NoEnd(F, r + 2 + n, t)
      /\ EndIsLast(F, r, t) => EndIsLast(F, r + 2 + n, t)
  BY <1>1, RowShrinks
<1>6. (OnlyExtras(F, r, t) => IsExtra(F, r + 1)) /\ (NoEnd(F, r, t) => ~IsEnd(F, r + 1))
  BY <1>1 DEF OnlyExtras, NoEnd
<1> QED
  BY <1>3, <1>4, <1>5, <1>6

\* The frame that the client reads is the one at the head of the plaintext.
LEMMA FrameHead ==
    ASSUME NEW W, NEW F, NEW off, NEW non, NEW h, NEW m, NEW c, NEW e, NEW r, NEW t, NEW pos, NEW ack, NEW a,
           Link(W, F, off, non, h, m, c, e, r, t), FrameRow(F, r, t, pos, ack, a), Aligned(F, r, t),
           PlainReady, cl.stage # "early"
    PROVE  \E n \in Nat :
              /\ Took(F, r, n, t, pos, ack, a) /\ r + 2 + n =< off[c + 1]
              /\ ReadFrame.len = 2 + n /\ ReadFrame.typ = F[r + 1][3]
              /\ ReadFrame.flag = F[r + 2][2] /\ ReadFrame.sid = F[r + 2][3]
              /\ Sliced(ReadFrame.payload, F, r + 2, r + 2 + n)
<1>1. /\ r \in Nat /\ c \in Nat /\ t \in Nat /\ off \in [Nat -> Nat]
      /\ Sliced(rxh, F, r, off[c + 1]) /\ off[c + 1] =< t
  BY DEF Link
<1>2. PICK o : o = off[c + 1]
  OBVIOUS
<1>3. o \in Nat /\ Sliced(rxh, F, r, o) /\ o =< t /\ Row(rxh, o - r) /\ Len(rxh) = o - r
  <2>1. o \in Nat /\ Sliced(rxh, F, r, o) /\ o =< t
    BY <1>1, <1>2
  <2>2. Row(rxh, o - r)
    BY <2>1 DEF Sliced
  <2> QED
    BY <2>1, <2>2, RowFacts, Zenon
<1>4. r + 2 =< o /\ o - r >= 2 + rxh[1][2]
  BY <1>1, <1>3 DEF PlainReady
<1>5. rxh[1] = F[r + 1] /\ rxh[2] = F[r + 2]
  <2>1. 1 \in 1 .. o - r /\ 2 \in 1 .. o - r
    BY <1>1, <1>3, <1>4
  <2> QED
    BY <1>3, <2>1 DEF Sliced
<1>6. r < t /\ IsHead(F, r + 1)
  <2>1. r < t
    BY <1>1, <1>3, <1>4
  <2> QED
    BY <2>1 DEF Aligned
<1>7. PICK n \in Nat : Took(F, r, n, t, pos, ack, a)
  BY <1>1, <1>6, TookFacts
<1>8. rxh[1][2] = n /\ r + 2 + n =< o
  BY <1>1, <1>3, <1>4, <1>5, <1>7 DEF Took
<1>9. /\ ReadFrame.len = 2 + n /\ ReadFrame.typ = F[r + 1][3]
      /\ ReadFrame.flag = F[r + 2][2] /\ ReadFrame.sid = F[r + 2][3]
      /\ ReadFrame.payload = SubSeq(rxh, 3, 2 + n)
  BY <1>5, <1>8 DEF ReadFrame
<1>10. Sliced(ReadFrame.payload, F, r + 2, r + 2 + n)
  <2>1. 2 \in 0 .. o - r /\ 2 + n \in 2 .. o - r /\ 2 + 1 = 3
    BY <1>1, <1>3, <1>8
  <2>2. Sliced(SubSeq(rxh, 2 + 1, 2 + n), rxh, 2, 2 + n)
    BY <1>3, <2>1, RowSlice, Zenon
  <2>3. PICK w : w = ReadFrame.payload
    OBVIOUS
  <2>4. Sliced(w, rxh, 2, 2 + n)
    BY <1>9, <2>1, <2>2, <2>3, Zenon
  <2>5. Sliced(w, F, r + 2, r + 2 + n)
    <3>1. (2 + n) - 2 = n /\ (r + 2 + n) - (r + 2) = n
      BY <1>1
    <3>2. \A i \in 1 .. n : 2 + i \in 1 .. o - r /\ r + (2 + i) = (r + 2) + i
      BY <1>1, <1>3, <1>8
    <3> QED
      BY <1>3, <2>4, <3>1, <3>2 DEF Sliced
  <2> QED
    BY <2>3, <2>5
<1> HIDE <1>9
<1>11. /\ ReadFrame.len = 2 + n /\ ReadFrame.typ = F[r + 1][3]
       /\ ReadFrame.flag = F[r + 2][2] /\ ReadFrame.sid = F[r + 2][3]
  BY <1>9
<1> QED
  BY <1>2, <1>7, <1>8, <1>10, <1>11

\* A frame taken from H2.rx moves the place the client has read up to.
LEMMA FrameTaken ==
    ASSUME NEW W, NEW F, NEW off, NEW non, NEW h, NEW m, NEW c, NEW e, NEW r, NEW t, NEW n,
           Link(W, F, off, non, h, m, c, e, r, t), n \in Nat, r + 2 + n =< off[c + 1], ReadFrame.len = 2 + n,
           rxh' = Drop(rxh, ReadFrame.len), net' = net, rxc' = rxc, nonce' = nonce,
           srv'.pend = srv.pend, srv'.sealed = srv.sealed
    PROVE  Link(W, F, off, non, h, m, c, e, r + 2 + n, t)'
<1>1. r \in Nat /\ r + (2 + n) = r + 2 + n /\ 2 + n \in Nat
  BY DEF Link
<1>2. Link(W, F, off, non, h, m, c, e, r + (2 + n), t)'
  BY <1>1, LinkRead
<1> QED
  BY <1>1, <1>2

-----------------------------------------------------------------------------
\* No atom of a header block is the start of a frame.
LEMMA BlockFacts ==
    ASSUME NEW b, b \in Blocks
    PROVE  \E n \in Nat : Row(b, n) /\ \A i \in 1 .. n : b[i][1] = "s"
<1>1. ASSUME NEW x, b = <<x>>, x[1] = "s"
      PROVE  \E n \in Nat : Row(b, n) /\ \A i \in 1 .. n : b[i][1] = "s"
  <2>1. Row(b, 1) /\ b[1] = x
    BY <1>1, RowSingle
  <2> HIDE <1>1
  <2>2. \A i \in 1 .. 1 : b[i][1] = "s"
    BY <1>1, <2>1
  <2> QED
    BY <2>1, <2>2
<1>2. ASSUME NEW x, NEW y, b = <<x, y>>, x[1] = "s", y[1] = "s"
      PROVE  \E n \in Nat : Row(b, n) /\ \A i \in 1 .. n : b[i][1] = "s"
  <2>1. Row(b, 2) /\ b[1] = x /\ b[2] = y
    BY <1>2, RowPair
  <2>2. \A i \in 1 .. 2 : b[i][1] = "s"
    <3> TAKE i \in 1 .. 2
    <3>1. i = 1 \/ i = 2
      OBVIOUS
    <3> QED
      BY <1>2, <2>1, <3>1
  <2> QED
    BY <2>1, <2>2
<1>3. CASE b = << <<"s", "index200", 200>> >>
  BY <1>1, <1>3
<1>4. CASE b = << <<"s", "index", 404>> >>
  BY <1>1, <1>4
<1>5. CASE b = << <<"s", "index", 404>>, <<"s", "literal", 404>> >>
  BY <1>2, <1>5
<1>6. CASE b = << <<"s", "other", 403>>, <<"s", "literal", 403>> >>
  BY <1>2, <1>6
<1> QED
  BY <1>3, <1>4, <1>5, <1>6 DEF Blocks

\* What the server may hold for a call.
LEMMA HoldingFacts ==
    ASSUME NEW o, NEW k, NEW held, held \in Holdings(o, k)
    PROVE  /\ held.prefixed \in BOOLEAN /\ held.block \in Blocks
           /\ held.prefixed => AsksMap(o, k)
<1>1. (CHOOSE b \in Blocks : TRUE) \in Blocks
  <2>1. <<<<"s", "index200", 200>>>> \in Blocks
    BY DEF Blocks
  <2> QED
    BY <2>1, Zenon
<1>2. /\ held.prefixed \in IF AsksMap(o, k) /\ o # "update_endpoints" THEN BOOLEAN ELSE {FALSE}
      /\ held.block \in IF o = "update_endpoints" THEN Blocks ELSE {CHOOSE b \in Blocks : TRUE}
  BY Zenon DEF Holdings
<1>3. held.block \in Blocks
  BY <1>1, <1>2
<1>4. held.prefixed \in BOOLEAN
  BY <1>2
<1>5. held.prefixed => AsksMap(o, k)
  BY <1>2
<1> QED
  BY <1>3, <1>4, <1>5

-----------------------------------------------------------------------------
\* The answers.

\* The atoms of a map,
LEMMA MapBodyFacts ==
    /\ Row(MapBody, 8) /\ MapBody[1] = B("open") /\ MapBody[2] = Quote /\ MapBody[7] = B("slash")
    /\ MapBody[8] = B("close")
    /\ \A i \in 3 .. 6 : MapBody[i] = OwnText[i - 2]
<1>1. MapBody[1] = EarlyText[1] /\ MapBody[2] = EarlyText[2] /\ MapBody[7] = EarlyText[7]
  BY FieldFacts
<1>2. EarlyText[2] = AddressField[1] /\ EarlyText[7] = AddressField[6]
  BY FieldFacts
<1>3. ASSUME NEW i \in 3 .. 6
      PROVE  MapBody[i] = OwnText[i - 2]
  <2>1. i \in 1 .. 7 /\ i \in 2 .. 7 /\ i - 1 \in 2 .. 5 /\ (i - 1) - 1 = i - 2
    OBVIOUS
  <2>2. MapBody[i] = EarlyText[i] /\ EarlyText[i] = AddressField[i - 1] /\ AddressField[i - 1] = OwnText[(i - 1) - 1]
    BY <2>1, FieldFacts
  <2> QED
    BY <2>1, <2>2
<1> QED
  BY <1>1, <1>2, <1>3, FieldFacts

\* of the answer to a registration
LEMMA RegisterBodyFacts ==
    ASSUME NEW auth
    PROVE  /\ Row(RegisterBody(auth), 3)
           /\ RegisterBody(auth)[1] = B("open") /\ RegisterBody(auth)[3] = B("close")
           /\ RegisterBody(auth)[2][1] = "b"
<1>1. PICK w : w = RegisterBody(auth)
  OBVIOUS
<1>2. /\ w = [i \in 1 .. 3 |-> w[i]] /\ w[1] = B("open") /\ w[3] = B("close") /\ w[2][1] = "b"
  BY <1>1 DEF RegisterBody, B
<1>3. Row(w, 3)
  BY <1>2, RowByElements
<1> QED
  BY <1>1, <1>2, <1>3

\* The bytes of a MapResponse, and those of any answer.
LEMMA WholeFacts ==
    \E l \in Nat :
       /\ Size = Skip + l /\ l = (IF AsksMap(op, cl.call) THEN 8 ELSE 3)
       /\ Row(Whole, l) /\ Whole[1] = B("open") /\ Whole[l] = B("close")
       /\ \A i \in 1 .. l : Whole[i][1] = "b"
       /\ AsksMap(op, cl.call) => Whole = MapBody
<1>1. CASE AsksMap(op, cl.call)
  <2>1. Whole = MapBody /\ Size = Skip + 8
    BY <1>1 DEF Whole, Answer, Size
  <2>2. \A i \in 1 .. 8 : MapBody[i][1] = "b"
    <3> TAKE i \in 1 .. 8
    <3>1. i = 1 \/ i = 2 \/ i = 7 \/ i = 8 \/ i \in 3 .. 6
      OBVIOUS
    <3>2. CASE i \in 3 .. 6
      <4>1. MapBody[i] = OwnText[i - 2] /\ (i - 2 = 1 \/ i - 2 = 2 \/ i - 2 = 3 \/ i - 2 = 4)
        BY <3>2, MapBodyFacts
      <4> QED
        BY <4>1, TextFacts DEF B
    <3> QED
      BY <3>1, <3>2, MapBodyFacts DEF B, Quote
  <2> QED
    BY <1>1, <2>1, <2>2, MapBodyFacts
<1>2. CASE ~AsksMap(op, cl.call)
  <2>1. Whole = RegisterBody(srv.held.auth) /\ Size = Skip + 3
    BY <1>2 DEF Whole, Answer, Size
  <2>2. PICK w : w = RegisterBody(srv.held.auth)
    OBVIOUS
  <2>3. Row(w, 3) /\ w[1] = B("open") /\ w[3] = B("close") /\ w[2][1] = "b"
    BY <2>2, RegisterBodyFacts
  <2>4. \A i \in 1 .. 3 : w[i][1] = "b"
    <3> TAKE i \in 1 .. 3
    <3>1. i = 1 \/ i = 2 \/ i = 3
      OBVIOUS
    <3> QED
      BY <2>3, <3>1 DEF B
  <2> QED
    BY <1>2, <2>1, <2>2, <2>3, <2>4
<1> QED
  BY <1>1, <1>2

\* and of the length prefix.
LEMMA PrefixRow ==
    ASSUME srv.held.prefixed \in BOOLEAN
    PROVE  /\ Skip \in Nat /\ Row(PrefixBytes(srv.held), Skip)
           /\ srv.held.prefixed => Skip = Prefix /\ Prefix >= 1
           /\ ~srv.held.prefixed => Skip = 0
           /\ \A i \in 1 .. Skip : PrefixBytes(srv.held)[i] = B("len")
<1>1. Prefix \in Nat /\ Prefix >= 1
  BY ControlAssumption
<1>2. CASE srv.held.prefixed
  <2>1. PICK w : w = PrefixBytes(srv.held)
    OBVIOUS
  <2>2. w = [k \in 1 .. Prefix |-> B("len")] /\ Skip = Prefix
    BY <1>2, <2>1 DEF PrefixBytes, Skip
  <2>3. w = [k \in 1 .. Prefix |-> w[k]] /\ \A k \in 1 .. Prefix : w[k] = B("len")
    BY <2>2
  <2>4. Row(w, Prefix)
    BY <1>1, <2>3, RowByElements
  <2> HIDE <2>2
  <2> QED
    BY <1>1, <1>2, <2>1, <2>2, <2>3, <2>4
<1>3. CASE ~srv.held.prefixed
  <2>1. PrefixBytes(srv.held) = <<>> /\ Skip = 0
    BY <1>3 DEF PrefixBytes, Skip
  <2> QED
    BY <1>3, <2>1, EmptyRow
<1> QED
  BY <1>2, <1>3

\* The answer the server sends is its length prefix and a body from the
\* opening to the closing brace.
LEMMA SentFacts ==
    ASSUME srv.held.prefixed \in BOOLEAN
    PROVE  /\ Skip \in Nat /\ Size \in Nat /\ Skip < Size
           /\ Row(Sent, Size) /\ Row(Whole, Size - Skip)
           /\ \A i \in 1 .. Skip : Sent[i] = B("len")
           /\ \A i \in Skip + 1 .. Size : Sent[i] = Whole[i - Skip]
           /\ Sent[Skip + 1] = B("open") /\ Sent[Size] = B("close")
           /\ \A i \in 1 .. Size : Sent[i][1] = "b"
<1>1. PICK l \in Nat :
       /\ Size = Skip + l /\ l = (IF AsksMap(op, cl.call) THEN 8 ELSE 3)
       /\ Row(Whole, l) /\ Whole[1] = B("open") /\ Whole[l] = B("close")
       /\ \A i \in 1 .. l : Whole[i][1] = "b"
  BY WholeFacts
<1>2. l >= 1
  BY <1>1
<1>3. /\ Skip \in Nat /\ Row(PrefixBytes(srv.held), Skip)
      /\ \A i \in 1 .. Skip : PrefixBytes(srv.held)[i] = B("len")
  BY PrefixRow
<1>4. PICK pre : pre = PrefixBytes(srv.held)
  OBVIOUS
<1>5. PICK k : k = Skip
  OBVIOUS
<1>6. k \in Nat /\ Row(pre, k) /\ \A i \in 1 .. k : pre[i] = B("len")
  BY <1>3, <1>4, <1>5
<1>7. PICK whole : whole = Whole
  OBVIOUS
<1>8. PICK all : all = Sent
  OBVIOUS
<1>9. Row(whole, l)
  BY <1>1, <1>7
<1>10. Joined(all, pre, k, whole, l)
  <2>1. all = pre \o whole
    BY <1>4, <1>7, <1>8, Zenon DEF Sent
  <2> QED
    BY <1>6, <1>9, <2>1, RowConcat, Zenon
<1>11. /\ Row(all, k + l) /\ \A i \in 1 .. k : all[i] = B("len")
       /\ \A i \in k + 1 .. k + l : all[i] = whole[i - k]
  BY <1>6, <1>10 DEF Joined
<1>12. /\ all[k + 1] = B("open") /\ all[k + l] = B("close")
  <2>1. k + 1 \in k + 1 .. k + l /\ k + l \in k + 1 .. k + l /\ (k + 1) - k = 1 /\ (k + l) - k = l
    BY <1>2, <1>6
  <2>2. all[k + 1] = whole[(k + 1) - k] /\ all[k + l] = whole[(k + l) - k]
    BY <1>11, <2>1
  <2> QED
    BY <1>1, <1>7, <2>1, <2>2
<1>13. \A i \in 1 .. k + l : all[i][1] = "b"
  <2> TAKE i \in 1 .. k + l
  <2>1. CASE i =< k
    BY <1>6, <1>11, <2>1 DEF B
  <2>2. CASE i > k
    <3>1. i \in k + 1 .. k + l /\ i - k \in 1 .. l
      BY <1>6, <2>2
    <3> QED
      BY <1>1, <1>7, <1>11, <3>1
  <2> QED
    BY <1>6, <2>1, <2>2
<1>14. (k + l) - k = l /\ k < k + l /\ k + l \in Nat
  BY <1>2, <1>6
<1> QED
  BY <1>1, <1>5, <1>6, <1>7, <1>8, <1>9, <1>11, <1>12, <1>13, <1>14

\* Every part of a MapResponse is one in the sense of Part.
LEMMA PartOfSent ==
    ASSUME NEW w, NEW s, NEW b, srv.held.prefixed \in BOOLEAN, AsksMap(op, cl.call),
           s \in Nat, b \in Nat, s =< b, b =< Size, Sliced(w, Sent, s, b)
    PROVE  Part(w, b - s, (Skip + 2) - s)
<1>1. PICK k, all : k = Skip /\ all = Sent
  OBVIOUS
<1>2. /\ k \in Nat /\ Size = k + 8
      /\ \A i \in 1 .. k : all[i] = B("len")
      /\ \A i \in k + 1 .. k + 8 : all[i] = MapBody[i - k]
  <2>1. Size = Skip + 8 /\ Whole = MapBody
    BY WholeFacts
  <2> QED
    BY <1>1, <2>1, SentFacts
<1>3. Row(w, b - s) /\ b - s \in Nat /\ \A i \in 1 .. b - s : w[i] = all[s + i]
  BY <1>1 DEF Sliced
<1>4. ASSUME NEW j \in 1 .. k + 8
      PROVE  /\ all[j] = Quote <=> j = k + 2
             /\ all[j] = B("slash") <=> j = k + 7
             /\ j \in k + 3 .. k + 6 => all[j] = OwnText[j - (k + 2)]
  <2>1. CASE j =< k
    <3>1. all[j] = B("len")
      BY <1>2, <2>1
    <3> QED
      BY <1>2, <2>1, <3>1 DEF Quote, B
  <2>2. CASE j \in k + 3 .. k + 6
    <3>1. all[j] = MapBody[j - k] /\ j - k \in 3 .. 6 /\ (j - k) - 2 = j - (k + 2)
      BY <1>2, <2>2
    <3>2. all[j] = OwnText[j - (k + 2)]
      BY <3>1, MapBodyFacts
    <3>3. j - (k + 2) = 1 \/ j - (k + 2) = 2 \/ j - (k + 2) = 3 \/ j - (k + 2) = 4
      BY <1>2, <2>2
    <3>4. all[j] # Quote /\ all[j] # B("slash")
      BY <3>2, <3>3, TextFacts DEF Quote, B
    <3> QED
      BY <1>2, <2>2, <3>2, <3>4
  <2>3. CASE j = k + 1
    <3>1. all[j] = MapBody[1]
      BY <1>2, <2>3
    <3> QED
      BY <1>2, <2>3, <3>1, MapBodyFacts DEF Quote, B
  <2>4. CASE j = k + 2
    <3>1. all[j] = MapBody[2]
      BY <1>2, <2>4
    <3> QED
      BY <1>2, <2>4, <3>1, MapBodyFacts DEF Quote, B
  <2>5. CASE j = k + 7
    <3>1. all[j] = MapBody[7]
      BY <1>2, <2>5
    <3> QED
      BY <1>2, <2>5, <3>1, MapBodyFacts DEF Quote, B
  <2>6. CASE j = k + 8
    <3>1. all[j] = MapBody[8]
      BY <1>2, <2>6
    <3> QED
      BY <1>2, <2>6, <3>1, MapBodyFacts DEF Quote, B
  <2>7. j =< k \/ j \in k + 3 .. k + 6 \/ j = k + 1 \/ j = k + 2 \/ j = k + 7 \/ j = k + 8
    BY <1>2
  <2> QED
    BY <2>7, <2>6, <2>5, <2>4, <2>1, <2>2, <2>3
<1>5. ASSUME NEW i \in 1 .. b - s
      PROVE  /\ w[i] = Quote <=> i = (k + 2) - s
             /\ w[i] = B("slash") <=> i = ((k + 2) - s) + 5
             /\ i \in ((k + 2) - s) + 1 .. ((k + 2) - s) + 4 => w[i] = OwnText[i - ((k + 2) - s)]
  <2>1. s + i \in 1 .. k + 8 /\ w[i] = all[s + i] /\ (s + i) - (k + 2) = i - ((k + 2) - s)
    BY <1>2, <1>3
  <2>2. /\ all[s + i] = Quote <=> s + i = k + 2
        /\ all[s + i] = B("slash") <=> s + i = k + 7
        /\ s + i \in k + 3 .. k + 6 => all[s + i] = OwnText[(s + i) - (k + 2)]
    BY <1>4, <2>1
  <2>3. /\ s + i = k + 2 <=> i = (k + 2) - s
        /\ s + i = k + 7 <=> i = ((k + 2) - s) + 5
        /\ s + i \in k + 3 .. k + 6 <=> i \in ((k + 2) - s) + 1 .. ((k + 2) - s) + 4
    BY <1>2, <1>3
  <2> QED
    BY <2>1, <2>2, <2>3
<1>6. (k + 2) - s \in Int
  BY <1>2
<1> QED
  BY <1>1, <1>3, <1>5, <1>6 DEF Part

\* A slice from the start of a row is a prefix of it.
LEMMA SlicedIsPrefix ==
    ASSUME NEW w, NEW u, NEW n, NEW b, Row(u, n), b \in Nat, b =< n, Sliced(w, u, 0, b)
    PROVE  IsPrefix(w, u)
<1>1. b - 0 = b /\ b \in 0 .. n /\ b \in 0 .. b - 0 /\ 0 + b = b /\ 0 \in Nat /\ n \in Nat
  BY RowFacts
<1>2. Row(w, b) /\ Len(w) = b /\ Len(u) = n
  BY <1>1, RowFacts DEF Sliced
<1>3. Sliced(SubSeq(w, 1, b), u, 0, b)
  <2>1. Sliced(SubSeq(w, 1, b), u, 0, 0 + b)
    BY <1>1, SlicedTake
  <2> QED
    BY <1>1, <2>1
<1>4. Sliced(SubSeq(u, 1, b), u, 0, b)
  BY <1>1, RowTake
<1>5. SubSeq(w, 1, b) = SubSeq(u, 1, b)
  BY <1>3, <1>4, SlicedEqual, Zenon
<1> QED
  BY <1>2, <1>5 DEF IsPrefix

\* A part of what the server sends from the end of its length prefix on.
LEMMA AfterPrefix ==
    ASSUME NEW w, NEW b, srv.held.prefixed \in BOOLEAN, b \in Nat, Skip =< b, b =< Size, Sliced(w, Sent, Skip, b)
    PROVE  IsPrefix(w, Whole) /\ (b = Size => w = Whole) /\ (b > Skip => w # <<>> /\ w[1] = B("open"))
<1>1. PICK k, n, all, whole : k = Skip /\ n = Size - Skip /\ all = Sent /\ whole = Whole
  OBVIOUS
<1>2. /\ k \in Nat /\ n \in Nat /\ Size = k + n /\ Row(whole, n) /\ all[k + 1] = B("open")
      /\ \A i \in k + 1 .. k + n : all[i] = whole[i - k]
  <2>1. /\ Skip \in Nat /\ Size \in Nat /\ Skip < Size /\ Row(Whole, Size - Skip)
        /\ \A i \in Skip + 1 .. Size : Sent[i] = Whole[i - Skip]
        /\ Sent[Skip + 1] = B("open")
    BY SentFacts
  <2> QED
    BY <1>1, <2>1
<1>3. Row(w, b - k) /\ b - k \in Nat /\ b - k =< n /\ \A i \in 1 .. b - k : w[i] = all[k + i]
  BY <1>1, <1>2 DEF Sliced
<1>4. \A i \in 1 .. b - k : w[i] = whole[i]
  <2> TAKE i \in 1 .. b - k
  <2>1. k + i \in k + 1 .. k + n /\ (k + i) - k = i
    BY <1>2, <1>3
  <2> QED
    BY <1>2, <1>3, <2>1
<1>5. Sliced(w, whole, 0, b - k)
  <2>1. (b - k) - 0 = b - k /\ \A i \in 1 .. b - k : 0 + i = i
    BY <1>3
  <2> QED
    BY <1>3, <1>4, <2>1 DEF Sliced
<1>6. IsPrefix(w, whole)
  BY <1>2, <1>3, <1>5, SlicedIsPrefix
<1>7. b = Size => w = whole
  <2>1. HAVE b = Size
  <2>2. b - k = n
    BY <1>2, <2>1
  <2> QED
    BY <1>2, <1>3, <1>4, <2>2, RowsEqual, Zenon
<1>8. b > k => w # <<>> /\ w[1] = B("open")
  <2>1. HAVE b > k
  <2>2. 1 \in 1 .. b - k /\ b - k # 0
    BY <1>2, <1>3, <2>1
  <2>3. Len(w) = b - k
    BY <1>3, RowFacts, Zenon
  <2>4. w # <<>>
    <3>1. Len(<<>>) = 0
      OBVIOUS
    <3> QED
      BY <2>2, <2>3, <3>1, Zenon
  <2> QED
    BY <1>2, <1>3, <2>2, <2>4
<1> QED
  BY <1>1, <1>6, <1>7, <1>8

\* strip_wire_prefix on what came first.
LEMMA StripFacts ==
    ASSUME NEW w, NEW b, srv.held.prefixed \in BOOLEAN, b \in Nat, b >= 1, b =< Size, Sliced(w, Sent, 0, b)
    PROVE  /\ b > Skip => Sliced(StripWirePrefix(w), Sent, Skip, b)
           /\ b =< Skip => StripWirePrefix(w) = w /\ w[1] # B("open") /\ w # <<>>
<1>1. PICK k, all : k = Skip /\ all = Sent
  OBVIOUS
<1>2. /\ k \in Nat /\ all[k + 1] = B("open") /\ \A i \in 1 .. k : all[i] = B("len")
  <2>1. /\ Skip \in Nat /\ Sent[Skip + 1] = B("open") /\ \A i \in 1 .. Skip : Sent[i] = B("len")
    BY SentFacts
  <2> QED
    BY <1>1, <2>1
<1>3. srv.held.prefixed => k = Prefix /\ Prefix >= 1
  BY <1>1, PrefixRow
<1>4. ~srv.held.prefixed => k = 0
  BY <1>1, PrefixRow
<1>5. Row(w, b) /\ Len(w) = b /\ \A i \in 1 .. b : w[i] = all[i]
  <2>1. Row(w, b - 0) /\ \A i \in 1 .. b - 0 : w[i] = all[0 + i]
    BY <1>1 DEF Sliced
  <2>2. b - 0 = b /\ \A i \in 1 .. b : 0 + i = i
    OBVIOUS
  <2>3. Row(w, b)
    BY <2>1, <2>2
  <2> QED
    BY <2>1, <2>2, <2>3, RowFacts
<1>6. B("len") # B("open")
  BY DEF B
<1>7. CASE srv.held.prefixed
  <2>1. w[1] # B("open")
    <3>1. 1 \in 1 .. b /\ 1 \in 1 .. k
      BY <1>3, <1>7
    <3> QED
      BY <1>2, <1>5, <1>6, <3>1
  <2>2. CASE b > k
    <3>1. k + 1 \in 1 .. b /\ k \in 0 .. b - 0 /\ 0 + k = k /\ 0 \in Nat
      BY <1>2, <2>2
    <3>2. HasPrefix(w)
      BY <1>2, <1>3, <1>5, <1>7, <2>1, <2>2, <3>1 DEF HasPrefix
    <3>3. StripWirePrefix(w) = Drop(w, k)
      BY <1>3, <1>7, <3>2, Zenon DEF StripWirePrefix
    <3>4. Sliced(Drop(w, k), all, 0 + k, b)
      <4>1. Sliced(w, all, 0, b)
        BY <1>1
      <4> QED
        BY <3>1, <4>1, SlicedDrop
    <3>5. Sliced(StripWirePrefix(w), all, k, b)
      BY <3>1, <3>3, <3>4
    <3> QED
      BY <1>1, <1>2, <2>2, <3>5
  <2>3. CASE b =< k
    <3>1. ~HasPrefix(w)
      BY <1>2, <1>3, <1>5, <1>7, <2>3 DEF HasPrefix
    <3>2. StripWirePrefix(w) = w
      BY <3>1, Zenon DEF StripWirePrefix
    <3>3. w # <<>>
      <4>1. Len(<<>>) = 0
        OBVIOUS
      <4> QED
        BY <1>5, <4>1
    <3> QED
      BY <1>1, <1>2, <2>1, <2>3, <3>2, <3>3
  <2> QED
    BY <1>2, <2>2, <2>3
<1>8. CASE ~srv.held.prefixed
  <2>1. w[1] = B("open")
    <3>1. 1 \in 1 .. b /\ k + 1 = 1
      BY <1>4, <1>8
    <3> QED
      BY <1>2, <1>5, <3>1
  <2>2. StripWirePrefix(w) = w
    BY <2>1, Zenon DEF StripWirePrefix, HasPrefix
  <2>3. k = 0
    BY <1>4, <1>8
  <2> QED
    BY <1>1, <2>2, <2>3
<1> QED
  BY <1>7, <1>8

\* scan_tailscale_ip on a part of a MapResponse.
LEMMA ScanPart ==
    ASSUME NEW w, NEW s, NEW b, srv.held.prefixed \in BOOLEAN, AsksMap(op, cl.call),
           s \in Nat, b \in Nat, s =< b, b =< Size, Sliced(w, Sent, s, b)
    PROVE  /\ s =< Skip + 1 /\ b >= Skip + 6 => ScanTailscaleIp(w) = OwnText
           /\ s >= Skip + 2 \/ b =< Skip + 3 => ScanTailscaleIp(w) = NoIp
           /\ s =< Skip + 1 /\ b >= Skip + 4 => ScanTailscaleIp(w) # NoIp
<1>1. PICK q, n : q = (Skip + 2) - s /\ n = b - s
  OBVIOUS
<1>2. Part(w, n, q)
  BY <1>1, PartOfSent
<1>3. Skip \in Nat
  BY SentFacts
<1>4. /\ q >= 1 /\ q + 4 =< n => ScanTailscaleIp(w) = OwnText
      /\ q < 1 \/ n =< q + 1 => ScanTailscaleIp(w) = NoIp
      /\ q >= 1 /\ q + 2 =< n => ScanTailscaleIp(w) # NoIp
  BY <1>2, ScanFacts
<1> QED
  BY <1>1, <1>3, <1>4

\* scan_tailscale_ip on the early payload.
LEMMA ScanEarly ==
    ASSUME NEW w, Row(w, 7), \A i \in 1 .. 7 : w[i] = EarlyText[i]
    PROVE  ScanTailscaleIp(w) = OwnText
<1>1. w = EarlyText
  BY FieldFacts, RowsEqual
<1>2. ASSUME NEW k \in 1 .. 7
      PROVE  /\ w[k] = Quote <=> k = 2
             /\ w[k] = B("slash") <=> k = 7
             /\ k \in 3 .. 6 => w[k] = OwnText[k - 2]
  <2>1. w[k] = MapBody[k]
    BY <1>1, FieldFacts
  <2>2. CASE k \in 3 .. 6
    <3>1. w[k] = OwnText[k - 2] /\ (k - 2 = 1 \/ k - 2 = 2 \/ k - 2 = 3 \/ k - 2 = 4)
      BY <2>1, <2>2, MapBodyFacts
    <3>2. w[k] # Quote /\ w[k] # B("slash")
      BY <3>1, TextFacts DEF Quote, B
    <3> QED
      BY <2>2, <3>1, <3>2
  <2>3. CASE k = 1
    BY <2>1, <2>3, MapBodyFacts DEF Quote, B
  <2>4. CASE k = 2
    BY <2>1, <2>4, MapBodyFacts DEF Quote, B
  <2>5. CASE k = 7
    BY <2>1, <2>5, MapBodyFacts DEF Quote, B
  <2> QED
    BY <2>2, <2>3, <2>4, <2>5
<1>3. Part(w, 7, 2)
  <2>1. 2 + 1 = 3 /\ 2 + 4 = 6 /\ 2 + 5 = 7
    OBVIOUS
  <2> QED
    BY <1>2, <2>1 DEF Part
<1>4. 2 >= 1 /\ 2 + 4 =< 7
  OBVIOUS
<1> QED
  BY <1>3, <1>4, ScanFacts

-----------------------------------------------------------------------------
\* The server adds a frame.

\* A frame that the server may send next, with b bytes of the body sent.
Kind(typ, flag, sid, p, n, b, a) ==
    \/ typ \in ExtraTypes /\ n = 0 /\ flag = FALSE /\ sid = 0
    \/ typ = "headers" /\ sid = a.sid /\ flag = FALSE /\ p = a.block
    \/ typ = "headers" /\ sid = a.sid /\ flag = TRUE /\ n = 0 /\ b = a.size
    \/ /\ typ = "data" /\ sid = a.sid /\ flag \in BOOLEAN
       /\ Sliced(p, a.sent, b, b + n) /\ b + n =< a.size
       /\ flag => b + n = a.size
       /\ ~flag => n > 0
       /\ "prefix" \notin a.split => ~(b = 0 /\ n \in 1 .. a.skip)
       /\ "address" \notin a.split => b + n \notin a.cuts

\* The stream F2 has the header x, y and the payload p after t.
Framed(F2, t, x, y, p, n) ==
    /\ F2[t + 1] = x /\ F2[t + 2] = y
    /\ \A i \in t + 3 .. t + 2 + n : F2[i] = p[i - (t + 2)]

\* The frame that was added to the plaintext, atom by atom.
LEMMA NewFrame ==
    ASSUME NEW F, NEW F2, NEW t, NEW n, NEW frame, NEW x, NEW y, NEW p, t \in Nat, n \in Nat,
           Grown(F2, F, t, frame, 2 + n), Headed(frame, x, y, p, n)
    PROVE  Framed(F2, t, x, y, p, n)
<1>1. F2[t + 1] = frame[1] /\ F2[t + 2] = frame[2]
  <2>1. /\ t + 1 \in t + 1 .. t + (2 + n) /\ (t + 1) - t = 1
        /\ t + 2 \in t + 1 .. t + (2 + n) /\ (t + 2) - t = 2
    OBVIOUS
  <2> QED
    BY <2>1 DEF Grown
<1>2. ASSUME NEW i \in t + 3 .. t + 2 + n
      PROVE  F2[i] = p[i - (t + 2)]
  <2>1. i \in t + 1 .. t + (2 + n) /\ i - t \in 3 .. 2 + n /\ (i - t) - 2 = i - (t + 2)
    OBVIOUS
  <2>2. F2[i] = frame[i - t] /\ frame[i - t] = p[(i - t) - 2]
    BY <2>1 DEF Grown, Headed
  <2> QED
    BY <2>1, <2>2
<1> QED
  BY <1>1, <1>2 DEF Headed, Framed

\* It is a frame of the kind the server had to send.
LEMMA NewFrameAt ==
    ASSUME NEW F2, NEW t, NEW n, NEW typ, NEW flag, NEW sid, NEW p, NEW pos2, NEW ack2, NEW a, NEW b,
           t \in Nat, n \in Nat, Row(p, n), NoStart(p, 1, n, "h1"),
           F2[t + 1] = <<"h1", n, typ>>, F2[t + 2] = <<"h2", flag, sid>>,
           \A i \in t + 3 .. t + 2 + n : F2[i] = p[i - (t + 2)],
           Kind(typ, flag, sid, p, n, b, a), pos2[t + 1] = b, pos2[t + 2 + n + 1] \in Nat, b \in Nat,
           pos2[t + 2 + n + 1] = (IF typ = "data" THEN b + n ELSE b),
           ack2[t + 2 + n + 1] = (IF typ = "settings" THEN ack2[t + 1] + 1 ELSE ack2[t + 1])
    PROVE  FrameAt(F2, t + 1, t + 2 + n, pos2, ack2, a)
<1>1. F2[t + 1][1] = "h1" /\ F2[t + 1][2] = n /\ F2[t + 1][3] = typ
  OBVIOUS
<1>2. /\ (t + 1) + 1 = t + 2 /\ (t + 1) + 1 + n = t + 2 + n /\ (t + 1) + 2 + n = t + 2 + n + 1 /\ (t + 1) + 2 = t + 3
  OBVIOUS
<1>3. ASSUME NEW i \in t + 2 .. t + 2 + n
      PROVE  ~IsHead(F2, i)
  <2>1. CASE i = t + 2
    BY <2>1 DEF IsHead
  <2>2. CASE i # t + 2
    <3>1. i \in t + 3 .. t + 2 + n /\ i - (t + 2) \in 1 .. n
      BY <2>2
    <3>2. F2[i] = p[i - (t + 2)]
      BY <3>1
    <3> QED
      BY <3>1, <3>2 DEF IsHead, NoStart
  <2> QED
    BY <2>1, <2>2
<1>4. ExtraFrame(F2, t + 1) \/ HeadersFrame(F2, t + 1, pos2, a) \/ DataFrame(F2, t + 1, pos2, a)
  <2>1. CASE typ \in ExtraTypes /\ n = 0 /\ flag = FALSE /\ sid = 0
    <3>1. ExtraFrame(F2, t + 1)
      BY <1>1, <1>2, <2>1 DEF ExtraFrame, IsExtra
    <3> QED
      BY <3>1
  <2>2. CASE typ = "headers" /\ sid = a.sid /\ flag = FALSE /\ p = a.block
    <3>1. Sliced(p, F2, t + 2, t + 2 + n)
      <4>1. (t + 2 + n) - (t + 2) = n
        OBVIOUS
      <4>2. ASSUME NEW j \in 1 .. n
            PROVE  p[j] = F2[(t + 2) + j]
        <5>1. (t + 2) + j \in t + 3 .. t + 2 + n /\ ((t + 2) + j) - (t + 2) = j
          OBVIOUS
        <5> QED
          BY <5>1
      <4> QED
        BY <4>1, <4>2 DEF Sliced
    <3>2. Len(p) = n
      BY RowFacts, Zenon
    <3>3. HeadersFrame(F2, t + 1, pos2, a)
      BY <1>1, <1>2, <2>2, <3>1, <3>2 DEF HeadersFrame
    <3> QED
      BY <3>3
  <2>3. CASE typ = "headers" /\ sid = a.sid /\ flag = TRUE /\ n = 0 /\ b = a.size
    <3>1. HeadersFrame(F2, t + 1, pos2, a)
      BY <1>1, <1>2, <2>3 DEF HeadersFrame
    <3> QED
      BY <3>1
  <2>4. CASE /\ typ = "data" /\ sid = a.sid /\ flag \in BOOLEAN
             /\ Sliced(p, a.sent, b, b + n) /\ b + n =< a.size
             /\ flag => b + n = a.size
             /\ ~flag => n > 0
             /\ "prefix" \notin a.split => ~(b = 0 /\ n \in 1 .. a.skip)
             /\ "address" \notin a.split => b + n \notin a.cuts
    <3>1. \A i \in t + 3 .. t + 2 + n : F2[i] = a.sent[b + (i - (t + 2))]
      <4> TAKE i \in t + 3 .. t + 2 + n
      <4>1. i - (t + 2) \in 1 .. (b + n) - b
        OBVIOUS
      <4>2. p[i - (t + 2)] = a.sent[b + (i - (t + 2))]
        BY <2>4, <4>1 DEF Sliced
      <4> QED
        BY <4>2
    <3>2. F2[t + 2][2] = flag
      OBVIOUS
    <3>3. \A i \in (t + 1) + 2 .. (t + 1) + 1 + n : F2[i] = a.sent[pos2[t + 1] + (i - ((t + 1) + 1))]
      BY <1>2, <3>1
    <3>4. DataFrame(F2, t + 1, pos2, a)
      BY <1>1, <1>2, <2>4, <3>2, <3>3 DEF DataFrame
    <3> QED
      BY <3>4
  <2> QED
    BY <2>4, <2>1, <2>2, <2>3 DEF Kind
<1>5. /\ n \in Nat /\ (t + 1) + 1 + n =< t + 2 + n /\ ~((t + 1) + 1 + n < t + 2 + n)
      /\ \A i \in (t + 1) + 1 .. (t + 1) + 1 + n : ~IsHead(F2, i)
  BY <1>2, <1>3
<1>6. /\ pos2[(t + 1) + 2 + n] = (IF F2[t + 1][3] = "data" THEN pos2[t + 1] + n ELSE pos2[t + 1])
      /\ ack2[(t + 1) + 2 + n] = (IF F2[t + 1][3] = "settings" THEN ack2[t + 1] + 1 ELSE ack2[t + 1])
      /\ pos2[(t + 1) + 2 + n] =< pos2[(t + 2 + n) + 1]
  BY <1>1, <1>2
<1> QED
  BY <1>1, <1>4, <1>5, <1>6 DEF FrameAt

\* The ends of streams in a stream of frames that grows.
LEMMA EndsGrow ==
    ASSUME NEW F, NEW F2, NEW r, NEW t, NEW n, r \in Nat, t \in Nat, n \in Nat, r =< t, Agree(F2, F, t),
           \A i \in t + 2 .. t + 2 + n : ~IsHead(F2, i),
           \A k \in r + 1 .. t : IsHead(F, k) => k + 1 =< t
    PROVE  /\ IsExtra(F2, t + 1) /\ OnlyExtras(F, r, t) => OnlyExtras(F2, r, t + 2 + n)
           /\ ~IsEnd(F2, t + 1) /\ NoEnd(F, r, t) => NoEnd(F2, r, t + 2 + n)
           /\ IsExtra(F2, t + 1) /\ EndIsLast(F, r, t) => EndIsLast(F2, r, t + 2 + n)
           /\ NoEnd(F, r, t) => EndIsLast(F2, r, t + 2 + n)
           /\ (\E k \in r + 1 .. t : IsEnd(F, k)) => \E k \in r + 1 .. t + 2 + n : IsEnd(F2, k)
<1>1. ASSUME NEW k \in r + 1 .. t
      PROVE  /\ k \in r + 1 .. t + 2 + n /\ F2[k] = F[k] /\ (IsHead(F2, k) <=> IsHead(F, k))
             /\ (IsExtra(F2, k) <=> IsExtra(F, k)) /\ (IsEnd(F2, k) <=> IsEnd(F, k))
  <2>1. k \in Nat /\ k =< t /\ F2[k] = F[k]
    BY DEF Agree
  <2>2. IsHead(F, k) => F2[k + 1] = F[k + 1]
    BY <2>1 DEF Agree
  <2> QED
    BY <2>1, <2>2 DEF IsHead, IsExtra, IsEnd
<1>2. ASSUME NEW k \in r + 1 .. t + 2 + n, IsHead(F2, k)
      PROVE  k \in r + 1 .. t \/ k = t + 1
  <2>1. ~(k \in t + 2 .. t + 2 + n)
    BY <1>2
  <2> QED
    BY <2>1
<1>3. ASSUME NEW k \in r + 1 .. t + 2 + n, IsEnd(F2, k)
      PROVE  k \in r + 1 .. t \/ k = t + 1
  BY <1>2, <1>3 DEF IsEnd
<1>4. IsExtra(F2, t + 1) => ~IsEnd(F2, t + 1)
  BY DEF IsEnd
<1>5. IsExtra(F2, t + 1) /\ OnlyExtras(F, r, t) => OnlyExtras(F2, r, t + 2 + n)
  BY <1>1, <1>2 DEF OnlyExtras
<1>6. ~IsEnd(F2, t + 1) /\ NoEnd(F, r, t) => NoEnd(F2, r, t + 2 + n)
  BY <1>1, <1>3 DEF NoEnd
<1>7. IsExtra(F2, t + 1) /\ EndIsLast(F, r, t) => EndIsLast(F2, r, t + 2 + n)
  <2> SUFFICES ASSUME IsExtra(F2, t + 1), EndIsLast(F, r, t), NEW k \in r + 1 .. t + 2 + n, IsEnd(F2, k),
                      NEW j \in k + 1 .. t + 2 + n, IsHead(F2, j)
               PROVE  IsExtra(F2, j)
    BY DEF EndIsLast, OnlyExtras
  <2>1. k \in r + 1 .. t /\ IsEnd(F, k)
    BY <1>1, <1>3, <1>4
  <2>2. j \in r + 1 .. t + 2 + n
    OBVIOUS
  <2>3. CASE j = t + 1
    BY <2>3
  <2>4. CASE j \in r + 1 .. t
    <3>1. j \in k + 1 .. t /\ IsHead(F, j)
      BY <1>1, <2>4
    <3>2. IsExtra(F, j)
      BY <2>1, <3>1 DEF EndIsLast, OnlyExtras
    <3> QED
      BY <1>1, <2>4, <3>2
  <2> QED
    BY <1>2, <2>2, <2>3, <2>4
<1>8. NoEnd(F, r, t) => EndIsLast(F2, r, t + 2 + n)
  <2> SUFFICES ASSUME NoEnd(F, r, t), NEW k \in r + 1 .. t + 2 + n, IsEnd(F2, k),
                      NEW j \in k + 1 .. t + 2 + n, IsHead(F2, j)
               PROVE  IsExtra(F2, j)
    BY DEF EndIsLast, OnlyExtras
  <2>1. k = t + 1
    BY <1>1, <1>3 DEF NoEnd
  <2>2. j \in r + 1 .. t + 2 + n /\ j # t + 1 /\ ~(j \in r + 1 .. t)
    BY <2>1
  <2> QED
    BY <1>2, <2>2
<1>9. (\E k \in r + 1 .. t : IsEnd(F, k)) => \E k \in r + 1 .. t + 2 + n : IsEnd(F2, k)
  BY <1>1
<1> QED
  BY <1>5, <1>6, <1>7, <1>8, <1>9

\* The start of the connection while more is sent.
LEMMA StartKept ==
    ASSUME NEW F, NEW F2, NEW r, NEW t, NEW t2, NEW ack, NEW ack2, r \in Nat, t \in Nat, t2 \in Nat, t =< t2,
           Agree(F2, F, t), Agree(ack2, ack, t + 1)
    PROVE  /\ SettingsAt(F, r + 1, t) => SettingsAt(F2, r + 1, t2)
           /\ Start(F, r, t, ack) => Start(F2, r, t2, ack2)
<1>1. ASSUME NEW k \in Nat, SettingsAt(F, k, t)
      PROVE  SettingsAt(F2, k, t2)
  BY <1>1 DEF SettingsAt, IsHead, Agree
<1>2. ASSUME EarlyAt(F, r + 1, ack), SettingsAt(F, r + 10, t)
      PROVE  EarlyAt(F2, r + 1, ack2)
  <2>1. r + 10 =< t
    BY <1>2 DEF SettingsAt
  <2>2. \A i \in r + 1 .. r + 9 : F2[i] = F[i]
    BY <2>1 DEF Agree
  <2>3. (r + 1) + 1 = r + 2 /\ (r + 1) + 2 = r + 3 /\ (r + 1) + 8 = r + 9 /\ (r + 1) + 9 = r + 10
    OBVIOUS
  <2>4. F2[r + 1] = F[r + 1] /\ F2[r + 2] = F[r + 2] /\ \A i \in r + 3 .. r + 9 : F2[i] = F[i]
    BY <2>2
  <2>5. ack2[r + 10] = ack[r + 10] /\ ack2[r + 1] = ack[r + 1]
    BY <2>1 DEF Agree
  <2> QED
    BY <1>2, <2>3, <2>4, <2>5 DEF EarlyAt
<1>3. r + 1 \in Nat /\ r + 10 \in Nat
  OBVIOUS
<1> QED
  BY <1>1, <1>2, <1>3 DEF Start

\* What the server sends after its greeting leaves the greeting as it was.
LEMMA GreetedKept ==
    ASSUME NEW W, NEW W2, NEW F, NEW F2, NEW c, NEW e, NEW e2, NEW r, NEW t, NEW t2, NEW ack, NEW ack2,
           c \in Nat, e \in Nat, e2 \in Nat, r \in Nat, t \in Nat, t2 \in Nat, e =< e2, r =< t, t =< t2,
           Agree(W2, W, e), Agree(F2, F, t), Agree(ack2, ack, t + 1),
           ack \in [Nat -> Nat], ack2 \in [Nat -> Nat],
           srv.unacked \in Int => srv'.unacked = srv.unacked + (ack2[t2 + 1] - ack[t + 1]),
           Greeted(W, c, e, F, r, t, ack)
    PROVE  Greeted(W2, c, e2, F2, r, t2, ack2)'
<1>1. c < e /\ c < e2 /\ W2[c + 1] = W[c + 1]
  BY DEF Greeted, Agree
<1>2. ack2[r + 1] = ack[r + 1] /\ ack[r + 1] \in Nat /\ ack[t + 1] \in Nat /\ ack2[t2 + 1] \in Nat
  BY DEF Agree
<1>3. ASSUME W2[c + 1][2] = "response"
      PROVE  Start(F2, r, t2, ack2) /\ srv'.unacked = ack2[t2 + 1] - ack2[r + 1]
  <2>1. Start(F, r, t, ack) /\ srv.unacked = ack[t + 1] - ack[r + 1]
    BY <1>1, <1>3 DEF Greeted
  <2> QED
    BY <1>2, <2>1, StartKept
<1> QED
  BY <1>1, <1>3 DEF Greeted

\* What holds of a stage still does when the server has sent more.
LEMMA StageKept ==
    ASSUME NEW W, NEW W2, NEW F, NEW F2, NEW h, NEW c, NEW e, NEW e2, NEW r, NEW t, NEW t2, NEW ack, NEW ack2,
           h \in Nat, c \in Nat, e \in Nat, e2 \in Nat, r \in Nat, t \in Nat, t2 \in Nat,
           c =< e, e =< e2, r =< t, t =< t2,
           Agree(W2, W, e), Agree(F2, F, t), Agree(ack2, ack, t + 1),
           ack \in [Nat -> Nat], ack2 \in [Nat -> Nat],
           t2 = t \/ IsHead(F2, t + 1), cl.stage \in Before => OnlyExtras(F2, r, t2),
           cl' = cl, nonce' = nonce,
           srv.unacked \in Int => srv'.unacked = srv.unacked + (ack2[t2 + 1] - ack[t + 1]),
           StageInv(W, F, ack, h, c, e, r, t)
    PROVE  StageInv(W2, F2, ack2, h, c, e2, r, t2)'
<1>1. Greeted(W, c, e, F, r, t, ack) => Greeted(W2, c, e2, F2, r, t2, ack2)'
  BY GreetedKept
<1>2. ASSUME cl.stage = "upgrade"
      PROVE  \/ W2[h + 1] = <<"u1", 101>> /\ W2[h + 2] = UpgradeEnd /\ c = h + 2 /\ Greeted(W2, c, e2, F2, r, t2, ack2)'
             \/ W2[h + 1] # <<"u1", 101>> /\ (e2 - h > HeadMax \/ \E k \in h + 1 .. e2 : W2[k] = UpgradeEnd)
  <2>1. CASE W[h + 1] = <<"u1", 101>> /\ W[h + 2] = UpgradeEnd /\ c = h + 2 /\ Greeted(W, c, e, F, r, t, ack)
    BY <1>1, <2>1 DEF Agree
  <2>2. CASE W[h + 1] # <<"u1", 101>> /\ e - h > HeadMax
    <3>1. HeadMax \in Nat /\ HeadMax >= 1
      BY ControlAssumption
    <3> QED
      BY <2>2, <3>1 DEF Agree
  <2>3. CASE W[h + 1] # <<"u1", 101>> /\ \E k \in h + 1 .. e : W[k] = UpgradeEnd
    <3>1. PICK k \in h + 1 .. e : W[k] = UpgradeEnd
      BY <2>3
    <3>2. k \in Nat /\ k =< e /\ k \in h + 1 .. e2 /\ h + 1 =< e
      OBVIOUS
    <3> QED
      BY <2>3, <3>1, <3>2 DEF Agree
  <2> QED
    BY <1>2, <2>1, <2>2, <2>3 DEF StageInv
<1>3. cl.stage \in Reading \cup {"post"} => Aligned(F2, r, t2)
  <2> SUFFICES ASSUME Aligned(F, r, t)
               PROVE  Aligned(F2, r, t2)
    BY DEF StageInv
  <2>1. CASE r < t
    BY <2>1 DEF Aligned, IsHead, Agree
  <2>2. CASE r = t
    BY <2>2 DEF Aligned
  <2> QED
    BY <2>1, <2>2
<1>4. cl.stage = "early" => Start(F2, r, t2, ack2)
  BY StartKept DEF StageInv
<1>5. cl.stage = "settings" => SettingsAt(F2, r + 1, t2)
  BY StartKept DEF StageInv
<1>6. cl.stage = "handshake" => Greeted(W2, c, e2, F2, r, t2, ack2)'
  BY <1>1 DEF StageInv
<1>7. /\ cl.stage \in {"upgrade", "handshake"} => nonce' = 0
      /\ cl.stage # "upgrade" => h = c
  BY DEF StageInv
<1> QED
  BY <1>2, <1>3, <1>4, <1>5, <1>6, <1>7 DEF StageInv

\* The plaintext with a frame more.
Flowed(F2, F, r, t, n, pos2, pos, ack2, ack, a2, typ, flag) ==
    /\ FrameRow(F2, r, t + 2 + n, pos2, ack2, a2)
    /\ Agree(F2, F, t) /\ Agree(pos2, pos, t + 1) /\ Agree(ack2, ack, t + 1)
    /\ IsHead(F2, t + 1) /\ F2[t + 1][3] = typ /\ F2[t + 2][2] = flag
    /\ pos2[t + 2 + n + 1] = (IF typ = "data" THEN pos[t + 1] + n ELSE pos[t + 1])
    /\ ack2[t + 2 + n + 1] = (IF typ = "settings" THEN ack[t + 1] + 1 ELSE ack[t + 1])
    /\ typ \in ExtraTypes /\ OnlyExtras(F, r, t) => OnlyExtras(F2, r, t + 2 + n)
    /\ typ \in ExtraTypes \/ flag = FALSE => (NoEnd(F, r, t) => NoEnd(F2, r, t + 2 + n))
    /\ typ \in ExtraTypes /\ EndIsLast(F, r, t) => EndIsLast(F2, r, t + 2 + n)
    /\ NoEnd(F, r, t) => EndIsLast(F2, r, t + 2 + n)
    /\ (\E k \in r + 1 .. t : IsEnd(F, k)) => \E k \in r + 1 .. t + 2 + n : IsEnd(F2, k)
    /\ typ \notin ExtraTypes /\ flag = TRUE => \E k \in r + 1 .. t + 2 + n : IsEnd(F2, k)

\* The frames of the plaintext and the one the server adds are frames of the
\* answer.
LEMMA FlowGrows ==
    ASSUME NEW F, NEW r, NEW t, NEW pos, NEW ack, NEW a, NEW a2, NEW typ, NEW flag, NEW sid, NEW p, NEW n, NEW frame,
           r \in Nat, t \in Nat, n \in Nat, r =< t,
           FrameRow(F, r, t, pos, ack, a), SameAnswer(a2, a),
           Row(p, n), NoStart(p, 1, n, "h1"), Headed(frame, <<"h1", n, typ>>, <<"h2", flag, sid>>, p, n),
           Kind(typ, flag, sid, p, n, pos[t + 1], a2)
    PROVE  \E F2, pos2, ack2 :
              Grown(F2, F, t, frame, 2 + n) /\ Flowed(F2, F, r, t, n, pos2, pos, ack2, ack, a2, typ, flag)
<1>1. /\ pos \in [Nat -> Nat] /\ ack \in [Nat -> Nat]
      /\ \A k \in r + 1 .. t : IsHead(F, k) => k + 1 =< t
  <2>1. ASSUME NEW k \in r + 1 .. t, IsHead(F, k)
        PROVE  k + 1 =< t
    <3>1. FrameAt(F, k, t, pos, ack, a)
      BY <2>1 DEF FrameRow
    <3>2. F[k][2] \in Nat /\ k + 1 + F[k][2] =< t /\ k \in Nat
      BY <3>1 DEF FrameAt
    <3> QED
      BY <3>2
  <2> QED
    BY <2>1 DEF FrameRow
<1>2. PICK F2 : Grown(F2, F, t, frame, 2 + n)
  <2>1. Row(frame, 2 + n)
    BY DEF Headed
  <2> QED
    BY <2>1, GrownExists, Zenon
<1>3. PICK b : b = pos[t + 1]
  OBVIOUS
<1>4. b \in Nat /\ ack[t + 1] \in Nat
  BY <1>1, <1>3
<1>5. PICK b2, d2 : b2 = (IF typ = "data" THEN b + n ELSE b)
                    /\ d2 = (IF typ = "settings" THEN ack[t + 1] + 1 ELSE ack[t + 1])
  OBVIOUS
<1>6. b2 \in Nat /\ d2 \in Nat /\ b =< b2
  BY <1>4, <1>5
<1>100. PICK pos2 : pos2 = [i \in Nat |-> IF i = t + 3 + n THEN b2 ELSE pos[i]]
  OBVIOUS
<1>101. PICK ack2 : ack2 = [i \in Nat |-> IF i = t + 3 + n THEN d2 ELSE ack[i]]
  OBVIOUS
<1>7. /\ pos2 \in [Nat -> Nat] /\ pos2[t + 2 + n + 1] = b2 /\ Agree(pos2, pos, t + 1)
      /\ ack2 \in [Nat -> Nat] /\ ack2[t + 2 + n + 1] = d2 /\ Agree(ack2, ack, t + 1)
  BY <1>1, <1>6, <1>100, <1>101 DEF Agree
<1> HIDE <1>100, <1>101
<1>8. pos2[t + 1] = b /\ ack2[t + 1] = ack[t + 1]
  BY <1>3, <1>7 DEF Agree
<1>9. /\ F2[t + 1] = <<"h1", n, typ>> /\ F2[t + 2] = <<"h2", flag, sid>>
      /\ \A i \in t + 3 .. t + 2 + n : F2[i] = p[i - (t + 2)]
  <2>1. PICK x, y : x = <<"h1", n, typ>> /\ y = <<"h2", flag, sid>>
    OBVIOUS
  <2>2. Headed(frame, x, y, p, n)
    BY <2>1, Zenon
  <2> HIDE <2>1
  <2>3. Framed(F2, t, x, y, p, n)
    BY <1>2, <2>2, NewFrame, Zenon
  <2> QED
    BY <2>1, <2>3, Zenon DEF Framed
<1>10. Agree(F2, F, t)
  BY <1>2 DEF Grown, Agree
<1>11. FrameAt(F2, t + 1, t + 2 + n, pos2, ack2, a2)
  <2>1. Kind(typ, flag, sid, p, n, b, a2)
    BY <1>3, Zenon
  <2> QED
    BY <1>4, <1>5, <1>6, <1>7, <1>8, <1>9, <2>1, NewFrameAt
<1>12. IsHead(F2, t + 1) /\ F2[t + 1][2] = n /\ F2[t + 1][3] = typ /\ F2[t + 2][2] = flag
  BY <1>9 DEF IsHead
<1>13. FrameRow(F2, r, t + 2 + n, pos2, ack2, a2)
  <2>1. pos2[t + 1] =< pos2[t + 2 + n + 1]
    BY <1>6, <1>7, <1>8
  <2> QED
    BY <1>7, <1>10, <1>11, <1>12, <2>1, FrameGrows
<1>14. \A i \in t + 2 .. t + 2 + n : ~IsHead(F2, i)
  <2>1. (t + 1) + 1 = t + 2 /\ (t + 1) + 1 + n = t + 2 + n
    OBVIOUS
  <2>2. \A i \in (t + 1) + 1 .. (t + 1) + 1 + n : ~IsHead(F2, i)
    BY <1>12, <1>11 DEF FrameAt
  <2> QED
    BY <2>1, <2>2
<1>15. /\ IsExtra(F2, t + 1) /\ OnlyExtras(F, r, t) => OnlyExtras(F2, r, t + 2 + n)
       /\ ~IsEnd(F2, t + 1) /\ NoEnd(F, r, t) => NoEnd(F2, r, t + 2 + n)
       /\ IsExtra(F2, t + 1) /\ EndIsLast(F, r, t) => EndIsLast(F2, r, t + 2 + n)
       /\ NoEnd(F, r, t) => EndIsLast(F2, r, t + 2 + n)
       /\ (\E k \in r + 1 .. t : IsEnd(F, k)) => \E k \in r + 1 .. t + 2 + n : IsEnd(F2, k)
  BY <1>1, <1>10, <1>14, EndsGrow
<1>16. /\ IsExtra(F2, t + 1) <=> typ \in ExtraTypes
       /\ IsEnd(F2, t + 1) <=> typ \notin ExtraTypes /\ flag
  <2>1. (t + 1) + 1 = t + 2
    OBVIOUS
  <2> QED
    BY <1>12, <2>1, Zenon DEF IsExtra, IsEnd
<1>17. t + 1 \in r + 1 .. t + 2 + n
  OBVIOUS
<1>18. typ \in ExtraTypes \/ flag = FALSE => ~IsEnd(F2, t + 1)
  BY <1>16, Zenon
<1>19. typ \notin ExtraTypes /\ flag = TRUE => IsEnd(F2, t + 1)
  BY <1>16, Zenon
<1>20. Flowed(F2, F, r, t, n, pos2, pos, ack2, ack, a2, typ, flag)
  <2>1. /\ typ \in ExtraTypes /\ OnlyExtras(F, r, t) => OnlyExtras(F2, r, t + 2 + n)
        /\ typ \in ExtraTypes \/ flag = FALSE => (NoEnd(F, r, t) => NoEnd(F2, r, t + 2 + n))
        /\ typ \in ExtraTypes /\ EndIsLast(F, r, t) => EndIsLast(F2, r, t + 2 + n)
        /\ NoEnd(F, r, t) => EndIsLast(F2, r, t + 2 + n)
        /\ (\E k \in r + 1 .. t : IsEnd(F, k)) => \E k \in r + 1 .. t + 2 + n : IsEnd(F2, k)
        /\ typ \notin ExtraTypes /\ flag = TRUE => \E k \in r + 1 .. t + 2 + n : IsEnd(F2, k)
    BY <1>15, <1>16, <1>17, <1>18, <1>19, Zenon
  <2>2. /\ pos2[t + 2 + n + 1] = (IF typ = "data" THEN pos[t + 1] + n ELSE pos[t + 1])
        /\ ack2[t + 2 + n + 1] = (IF typ = "settings" THEN ack[t + 1] + 1 ELSE ack[t + 1])
    BY <1>3, <1>5, <1>7
  <2> QED
    BY <1>7, <1>10, <1>12, <1>13, <2>1, <2>2, Zenon DEF Flowed
<1> QED
  BY <1>2, <1>20

\* A step of the server leaves the call as it is; only places where DATA
\* frames end are added to split.
LEMMA SameCall ==
    ASSUME cl'.call = cl.call, op' = op, srv'.held = srv.held, srv.split \subseteq srv'.split
    PROVE  /\ Whole' = Whole /\ Skip' = Skip /\ Size' = Size /\ Sent' = Sent /\ Reader' = Reader
           /\ SameAnswer(TheAnswer', TheAnswer)
           /\ srv'.split = srv.split => TheAnswer' = TheAnswer
<1>1. Whole' = Whole
  BY DEF Whole
<1>2. Skip' = Skip
  BY DEF Skip
<1>3. Size' = Size
  BY <1>2 DEF Size
<1>4. Sent' = Sent
  BY <1>1 DEF Sent
<1>5. Reader' = Reader
  BY DEF Reader
<1>6. Sid' = Sid
  BY DEF Sid
<1>7. SameAnswer(TheAnswer', TheAnswer)
  BY <1>2, <1>3, <1>4, <1>6 DEF SameAnswer, TheAnswer
<1>8. srv'.split = srv.split => TheAnswer' = TheAnswer
  BY <1>2, <1>3, <1>4, <1>6 DEF TheAnswer
<1> QED
  BY <1>1, <1>2, <1>3, <1>4, <1>5, <1>7, <1>8

\* A step of the server changes nothing of what the call has read,
LEMMA ReadKept ==
    ASSUME cl' = cl, op' = op, srv'.held = srv.held, srv.split \subseteq srv'.split, NEW b, ReadInv(b)
    PROVE  ReadInv(b)'
<1>1. Skip' = Skip /\ Sent' = Sent /\ Reader' = Reader
  BY SameCall
<1>2. "address" \in srv.split => "address" \in srv'.split
  OBVIOUS
<1> QED
  BY <1>1, <1>2 DEF ReadInv

\* nor of what it returns.
LEMMA CallKept ==
    ASSUME cl' = cl, op' = op, srv'.held = srv.held, srv.split \subseteq srv'.split, DOMAIN srv' = ServerFields,
           CallInv, cl.stage # "timeout", cl.stage # "failed"
    PROVE  CallInv'
<1>1. Whole' = Whole /\ Reader' = Reader
  BY SameCall
<1>2. "address" \in srv.split => "address" \in srv'.split
  OBVIOUS
<1>3. NoStall'
  BY DEF NoStall
<1>4. DOMAIN cl' = ClientFields /\ DOMAIN srv' = ServerFields /\ cl'.stage \in Stages /\ cl'.call \in {1, 2}
  BY DEF CallInv
<1>5. cl'.call = 2 => op' \in {"session", "register_once"} /\ cl'.stage \in Reading \cup {"post"} \cup Ended
  BY DEF CallInv
<1>6. srv'.held = NoHoldings \/ \E k \in 1 .. cl'.call : srv'.held \in Holdings(op', k)
  BY DEF CallInv
<1>7. cl'.stage \in Reading \cup {"done"} => srv'.held \in Holdings(op', cl'.call)
  BY DEF CallInv
<1>8. cl'.ip \in {NoIp, OwnText} \/ (Reader' # "json" /\ "address" \in srv'.split)
  BY <1>1, <1>2 DEF CallInv
<1>9. cl'.status # 0 => \E k \in DOMAIN srv'.held.block : srv'.held.block[k][3] = cl'.status
  BY DEF CallInv
<1>10. cl'.stage = "done" =>
          /\ cl'.call = 1 => cl'.body = Whole'
          /\ AsksMap(op', 1) /\ op' # "update_endpoints" /\ "address" \notin srv'.split => cl'.ip = OwnText
          /\ op' = "fetch_peers" => \E x \in Netmaps : cl'.netmap = {x} /\ cl'.allowed = AllowedSrcs(x.acl, cl'.ip)
  BY <1>1, <1>2 DEF CallInv
<1>11. cl'.stage # "failed"
  OBVIOUS
<1> QED
  BY <1>3, <1>4, <1>5, <1>6, <1>7, <1>8, <1>9, <1>10, <1>11, Zenon DEF CallInv

\* What a step of the server that seals something, or an error frame, keeps.
Quiet(W2, off2, non2, c, e2, F2, h, m, r, t2) ==
    /\ Link(W2, F2, off2, non2, h, m, c, e2, r, t2)'
    /\ op' = op /\ cl' = cl /\ nonce' = nonce
    /\ srv'.held = srv.held /\ srv.split \subseteq srv'.split /\ DOMAIN srv' = ServerFields

\* The places the client and the server have reached are in order.
LEMMA LinkOrder ==
    ASSUME NEW W, NEW F, NEW off, NEW non, NEW h, NEW m, NEW c, NEW e, NEW r, NEW t,
           Link(W, F, off, non, h, m, c, e, r, t)
    PROVE  /\ h \in Nat /\ m \in Nat /\ c \in Nat /\ e \in Nat /\ r \in Nat /\ t \in Nat
           /\ h =< c /\ c =< e /\ r =< t /\ r =< off[c + 1] /\ off[c + 1] =< t /\ off[c + 1] \in Nat
<1>1. /\ h \in Nat /\ m \in Nat /\ c \in Nat /\ e \in Nat /\ r \in Nat /\ t \in Nat
      /\ h =< c /\ c =< e /\ off[c + 1] \in Nat /\ off[c + 1] =< t
      /\ Sliced(rxh, F, r, off[c + 1])
  BY DEF Link
<1>2. off[c + 1] - r \in Nat
  BY <1>1 DEF Sliced, Row
<1> QED
  BY <1>1, <1>2

\* The plaintext is the same: what was sent was sealed, or is an error.
LEMMA PipeQuiet ==
    ASSUME NEW W, NEW F, NEW off, NEW non, NEW pos, NEW ack, NEW h, NEW m, NEW c, NEW e, NEW r, NEW t,
           NEW W2, NEW off2, NEW non2, NEW e2,
           Pipe(W, F, off, non, pos, ack, h, m, c, e, r, t),
           Quiet(W2, off2, non2, c, e2, F, h, m, r, t), Agree(W2, W, e), e =< e2,
           srv'.unacked = srv.unacked, srv'.split = srv.split, CreditInv(F, r, t, pos, ack)'
    PROVE  Pipe(W2, F, off2, non2, pos, ack, h, m, c, e2, r, t)'
<1>1. /\ h \in Nat /\ m \in Nat /\ c \in Nat /\ e \in Nat /\ r \in Nat /\ t \in Nat
      /\ h =< c /\ c =< e /\ r =< t
  BY LinkOrder DEF Pipe
<1>2. e2 \in Nat /\ Link(W2, F, off2, non2, h, m, c, e2, r, t)'
  BY DEF Quiet, Link
<1>3. op' = op /\ cl' = cl /\ nonce' = nonce /\ srv'.held = srv.held /\ srv.split \subseteq srv'.split
  BY DEF Quiet
<1>4. TheAnswer' = TheAnswer
  BY <1>3, SameCall
<1>5. pos \in [Nat -> Nat] /\ ack \in [Nat -> Nat]
  BY DEF Pipe, FrameRow
<1>6. FrameRow(F, r, t, pos, ack, TheAnswer)'
  <2>1. FrameRow(F, r, t, pos, ack, TheAnswer)
    BY DEF Pipe
  <2>2. PICK a : a = TheAnswer
    OBVIOUS
  <2>3. FrameRow(F, r, t, pos, ack, a) /\ TheAnswer' = a
    BY <1>4, <2>1, <2>2
  <2> QED
    BY <2>3
<1>7. ReadInv(pos[r + 1])'
  <2>1. PICK b : b = pos[r + 1]
    OBVIOUS
  <2>2. ReadInv(b)
    BY <2>1 DEF Pipe
  <2>3. ReadInv(b)'
    BY <1>3, <2>2, ReadKept
  <2> QED
    BY <2>1, <2>3
<1>8. StageInv(W2, F, ack, h, c, e2, r, t)'
  <2>1. StageInv(W, F, ack, h, c, e, r, t) /\ (cl.stage \in Before => OnlyExtras(F, r, t))
    BY DEF Pipe, StageInv
  <2>2. Agree(F, F, t) /\ Agree(ack, ack, t + 1)
    BY DEF Agree
  <2>3. srv.unacked \in Int => srv'.unacked = srv.unacked + (ack[t + 1] - ack[t + 1])
    BY <1>1, <1>5
  <2> QED
    BY <1>1, <1>2, <1>3, <1>5, <2>1, <2>2, <2>3, StageKept
<1> QED
  BY <1>2, <1>6, <1>7, <1>8 DEF Pipe

\* The server sends a frame.
LEMMA PipeFlow ==
    ASSUME NEW W, NEW F, NEW off, NEW non, NEW pos, NEW ack, NEW h, NEW m, NEW c, NEW e, NEW r, NEW t,
           NEW W2, NEW F2, NEW off2, NEW non2, NEW pos2, NEW ack2, NEW e2, NEW n, NEW typ, NEW flag,
           Pipe(W, F, off, non, pos, ack, h, m, c, e, r, t), n \in Nat,
           Quiet(W2, off2, non2, c, e2, F2, h, m, r, t + 2 + n), Agree(W2, W, e), e =< e2,
           Flowed(F2, F, r, t, n, pos2, pos, ack2, ack, TheAnswer', typ, flag),
           cl.stage \in Before => typ \in ExtraTypes,
           srv.unacked \in Int => srv'.unacked = srv.unacked + (IF typ = "settings" THEN 1 ELSE 0),
           CreditInv(F2, r, t + 2 + n, pos2, ack2)'
    PROVE  Pipe(W2, F2, off2, non2, pos2, ack2, h, m, c, e2, r, t + 2 + n)'
<1>1. /\ h \in Nat /\ m \in Nat /\ c \in Nat /\ e \in Nat /\ r \in Nat /\ t \in Nat
      /\ h =< c /\ c =< e /\ r =< t /\ t + 2 + n \in Nat /\ t =< t + 2 + n
  <2>1. /\ h \in Nat /\ m \in Nat /\ c \in Nat /\ e \in Nat /\ r \in Nat /\ t \in Nat
        /\ h =< c /\ c =< e /\ r =< t
    BY LinkOrder DEF Pipe
  <2> QED
    BY <2>1
<1>2. e2 \in Nat /\ Link(W2, F2, off2, non2, h, m, c, e2, r, t + 2 + n)'
  BY DEF Quiet, Link
<1>3. op' = op /\ cl' = cl /\ nonce' = nonce /\ srv'.held = srv.held /\ srv.split \subseteq srv'.split
  BY DEF Quiet
<1>4. pos \in [Nat -> Nat] /\ ack \in [Nat -> Nat]
  BY DEF Pipe, FrameRow
<1>5. /\ FrameRow(F2, r, t + 2 + n, pos2, ack2, TheAnswer')
      /\ Agree(F2, F, t) /\ Agree(pos2, pos, t + 1) /\ Agree(ack2, ack, t + 1)
      /\ IsHead(F2, t + 1)
      /\ ack2[t + 2 + n + 1] = (IF typ = "settings" THEN ack[t + 1] + 1 ELSE ack[t + 1])
      /\ typ \in ExtraTypes /\ OnlyExtras(F, r, t) => OnlyExtras(F2, r, t + 2 + n)
  BY Zenon DEF Flowed
<1>6. ack2 \in [Nat -> Nat]
  BY <1>5 DEF FrameRow
<1>7. ReadInv(pos2[r + 1])'
  <2>1. PICK b : b = pos[r + 1]
    OBVIOUS
  <2>2. ReadInv(b)
    BY <2>1 DEF Pipe
  <2>3. ReadInv(b)'
    BY <1>3, <2>2, ReadKept
  <2>4. pos2[r + 1] = b
    BY <1>1, <1>5, <2>1 DEF Agree
  <2> QED
    BY <2>3, <2>4
<1>8. StageInv(W2, F2, ack2, h, c, e2, r, t + 2 + n)'
  <2>1. StageInv(W, F, ack, h, c, e, r, t) /\ (cl.stage \in Before => OnlyExtras(F, r, t))
    BY DEF Pipe, StageInv
  <2>2. cl.stage \in Before => OnlyExtras(F2, r, t + 2 + n)
    BY <1>5, <2>1
  <2>3. srv.unacked \in Int => srv'.unacked = srv.unacked + (ack2[t + 2 + n + 1] - ack[t + 1])
    <3>1. ack[t + 1] \in Nat
      BY <1>1, <1>4
    <3> QED
      BY <1>5, <3>1
  <2> QED
    BY <1>1, <1>2, <1>3, <1>4, <1>5, <1>6, <2>1, <2>2, <2>3, StageKept
<1> QED
  BY <1>2, <1>5, <1>7, <1>8 DEF Pipe

\* Sealing a record changes no field of the server but pend and sealed.
LEMMA SealedFacts ==
    ASSUME NEW s, DOMAIN s = ServerFields, Sealed(s)
    PROVE  /\ DOMAIN srv' = ServerFields
           /\ srv'.held = s.held /\ srv'.phase = s.phase /\ srv'.todo = s.todo /\ srv'.style = s.style
           /\ srv'.swin = s.swin /\ srv'.cwin = s.cwin /\ srv'.unacked = s.unacked
           /\ srv'.extras = s.extras /\ srv'.split = s.split
  BY DEF Sealed, ServerFields

\* The server sends the frame typ, flag, sid, p.
LEMMA SendFlow ==
    ASSUME NEW W, NEW F, NEW off, NEW non, NEW pos, NEW ack, NEW h, NEW m, NEW c, NEW e, NEW r, NEW t,
           NEW typ, NEW flag, NEW sid, NEW p, NEW n, NEW s, NEW a2,
           Pipe(W, F, off, non, pos, ack, h, m, c, e, r, t),
           Send(H2Frame(typ, flag, sid, p), s), Row(p, n), NoStart(p, 1, n, "h1"),
           DOMAIN s = ServerFields, s.sealed = srv.sealed, s.held = srv.held, srv.split \subseteq s.split,
           SameAnswer(a2, TheAnswer), a2.split = s.split, Kind(typ, flag, sid, p, n, pos[t + 1], a2)
    PROVE  /\ Sealed(s)
           /\ \E W2, F2, off2, non2, pos2, ack2, e2 :
                 /\ Quiet(W2, off2, non2, c, e2, F2, h, m, r, t + 2 + n) /\ Agree(W2, W, e) /\ e =< e2
                 /\ Flowed(F2, F, r, t, n, pos2, pos, ack2, ack, TheAnswer', typ, flag)
<1>1. Link(W, F, off, non, h, m, c, e, r, t) /\ FrameRow(F, r, t, pos, ack, TheAnswer)
  BY DEF Pipe
<1>2. r \in Nat /\ t \in Nat /\ n \in Nat /\ r =< t
  <2>1. r \in Nat /\ t \in Nat /\ r =< t
    BY <1>1, LinkOrder
  <2> QED
    BY <2>1 DEF Row
<1>3. PICK frame : frame = H2Frame(typ, flag, sid, p)
  OBVIOUS
<1>4. Headed(frame, <<"h1", n, typ>>, <<"h2", flag, sid>>, p, n)
  BY <1>3, H2FrameFacts, Zenon
<1>5. Send(frame, s)
  BY <1>3, Zenon
<1> HIDE <1>3
<1>6. op' = op /\ cl' = cl /\ nonce' = nonce
  BY <1>5 DEF Send
<1>7. ASSUME NEW F2, Grown(F2, F, t, frame, 2 + n)
      PROVE  /\ Sealed(s)
             /\ \E W2, off2, non2, e2 :
                  /\ Link(W2, F2, off2, non2, h, m, c, e2, r, t + 2 + n)'
                  /\ Agree(W2, W, e) /\ e =< e2
  <2>1. /\ Sealed(s)
        /\ \E W2, off2, non2, e2 :
              Link(W2, F2, off2, non2, h, m, c, e2, r, t + (2 + n))' /\ Agree(W2, W, e) /\ e =< e2
    BY <1>1, <1>5, <1>7, LinkSend
  <2>2. PICK k : k = t + (2 + n)
    OBVIOUS
  <2>3. k = t + 2 + n
    BY <1>2, <2>2
  <2>4. PICK W2, off2, non2, e2 :
              Link(W2, F2, off2, non2, h, m, c, e2, r, k)' /\ Agree(W2, W, e) /\ e =< e2
    BY <2>1, <2>2, Zenon
  <2>5. Link(W2, F2, off2, non2, h, m, c, e2, r, t + 2 + n)'
    BY <2>3, <2>4
  <2> QED
    BY <2>1, <2>4, <2>5, Zenon
<1>8. \E F2 : Grown(F2, F, t, frame, 2 + n)
  <2>1. Row(frame, 2 + n)
    BY <1>4 DEF Headed
  <2> QED
    BY <1>2, <2>1, GrownExists, Zenon
<1>9. Sealed(s)
  BY <1>7, <1>8, Zenon
<1>10. srv'.held = srv.held /\ srv'.split = s.split /\ srv.split \subseteq srv'.split /\ DOMAIN srv' = ServerFields
  BY <1>9, SealedFacts
<1>11. PICK a : a = TheAnswer'
  OBVIOUS
<1>12. /\ SameAnswer(a, TheAnswer)
       /\ a.sid = a2.sid /\ a.block = a2.block /\ a.sent = a2.sent /\ a.size = a2.size
       /\ a.skip = a2.skip /\ a.cuts = a2.cuts /\ a.split = a2.split
  <2>1. SameAnswer(a, TheAnswer)
    BY <1>6, <1>10, <1>11, SameCall
  <2>2. a.split = s.split
    BY <1>10, <1>11 DEF TheAnswer
  <2> QED
    BY <2>1, <2>2 DEF SameAnswer
<1>13. Kind(typ, flag, sid, p, n, pos[t + 1], a)
  <2>1. PICK b : b = pos[t + 1]
    OBVIOUS
  <2>2. Kind(typ, flag, sid, p, n, b, a2)
    BY <2>1
  <2>3. Kind(typ, flag, sid, p, n, b, a)
    BY <1>12, <2>2, Zenon DEF Kind
  <2> QED
    BY <2>1, <2>3
<1>14. PICK F2, pos2, ack2 :
              Grown(F2, F, t, frame, 2 + n) /\ Flowed(F2, F, r, t, n, pos2, pos, ack2, ack, a, typ, flag)
  <2>1. PICK a1 : a1 = TheAnswer
    OBVIOUS
  <2>2. FrameRow(F, r, t, pos, ack, a1) /\ SameAnswer(a, a1)
    BY <1>1, <1>12, <2>1
  <2> QED
    BY <1>2, <1>4, <1>13, <2>2, FlowGrows
<1>15. PICK W2, off2, non2, e2 :
                  /\ Link(W2, F2, off2, non2, h, m, c, e2, r, t + 2 + n)'
                  /\ Agree(W2, W, e) /\ e =< e2
  BY <1>7, <1>14, Zenon
<1>16. Quiet(W2, off2, non2, c, e2, F2, h, m, r, t + 2 + n)
  BY <1>6, <1>10, <1>15 DEF Quiet
<1>17. Flowed(F2, F, r, t, n, pos2, pos, ack2, ack, TheAnswer', typ, flag)
  BY <1>11, <1>14
<1> QED
  BY <1>9, <1>15, <1>16, <1>17, Zenon

-----------------------------------------------------------------------------
\* The steps of the server.

\* The stages at which the client waits in a read.
LEMMA WaitingFacts ==
    ASSUME Waiting
    PROVE  /\ cl.stage \in {"upgrade", "handshake", "early", "settings", "read", "hold"}
           /\ cl.stage \notin Ended /\ cl.stage # "post"
           /\ cl.stage \in Reading \/ (cl.stage \in Before /\ cl.stage \in Before \ {"post"})
  BY DEF Waiting, InH2, Ended, Reading, Before

\* The credit does not depend on what is sealed.
LEMMA CreditSame ==
    ASSUME NEW F, NEW r, NEW t, NEW pos, NEW ack, CreditInv(F, r, t, pos, ack),
           cl' = cl, op' = op, srv'.held = srv.held, srv.split \subseteq srv'.split,
           srv'.phase = srv.phase, srv'.todo = srv.todo, srv'.style = srv.style,
           srv'.swin = srv.swin, srv'.cwin = srv.cwin, srv'.unacked = srv.unacked
    PROVE  CreditInv(F, r, t, pos, ack)'
<1>1. Size' = Size /\ Sent' = Sent /\ Reader' = Reader
  BY SameCall
<1> QED
  BY <1>1 DEF CreditInv

\* A step of the server that keeps the connection keeps the invariant.
LEMMA ServerStep ==
    ASSUME CallInv, Waiting, NEW W2, NEW F2, NEW off2, NEW non2, NEW pos2, NEW ack2, NEW h, NEW m, NEW c, NEW e2,
           NEW r, NEW t2, Quiet(W2, off2, non2, c, e2, F2, h, m, r, t2),
           Pipe(W2, F2, off2, non2, pos2, ack2, h, m, c, e2, r, t2)'
    PROVE  ControlInv'
<1>1. CallInv'
  <2>1. cl.stage # "timeout" /\ cl.stage # "failed"
    BY WaitingFacts
  <2> QED
    BY <2>1, CallKept DEF Quiet
<1> QED
  BY <1>1 DEF ControlInv

\* The server seals what it held back.
LEMMA FlushKeeps ==
    ASSUME ControlInv, Flush
    PROVE  ControlInv'
<1>1. CallInv /\ Waiting /\ Send(<<>>, srv) /\ DOMAIN srv = ServerFields
  BY DEF ControlInv, CallInv, Flush, Send
<1>2. PICK W, F, off, non, pos, ack, h, m, c, e, r, t : Pipe(W, F, off, non, pos, ack, h, m, c, e, r, t)
  BY <1>1, WaitingFacts DEF ControlInv
<1>3. Link(W, F, off, non, h, m, c, e, r, t) /\ CreditInv(F, r, t, pos, ack)
  BY <1>2 DEF Pipe
<1>4. t \in Nat
  BY <1>3 DEF Link
<1>5. Grown(F, F, t, <<>>, 0)
  BY <1>4, EmptyRow DEF Grown
<1>6. /\ Sealed(srv)
      /\ \E W2, off2, non2, e2 :
            Link(W2, F, off2, non2, h, m, c, e2, r, t + 0)' /\ Agree(W2, W, e) /\ e =< e2
  BY <1>1, <1>3, <1>5, LinkSend
<1>7. PICK W2, off2, non2, e2 :
            Link(W2, F, off2, non2, h, m, c, e2, r, t)' /\ Agree(W2, W, e) /\ e =< e2
  <2>1. t + 0 = t
    BY <1>4
  <2> QED
    BY <1>6, <2>1
<1>8. /\ DOMAIN srv' = ServerFields
      /\ srv'.held = srv.held /\ srv'.phase = srv.phase /\ srv'.todo = srv.todo /\ srv'.style = srv.style
      /\ srv'.swin = srv.swin /\ srv'.cwin = srv.cwin /\ srv'.unacked = srv.unacked
      /\ srv'.split = srv.split
  BY <1>1, <1>6, SealedFacts
<1>9. op' = op /\ cl' = cl /\ nonce' = nonce
  BY <1>1 DEF Send
<1>10. Quiet(W2, off2, non2, c, e2, F, h, m, r, t)
  BY <1>7, <1>8, <1>9 DEF Quiet
<1>11. CreditInv(F, r, t, pos, ack)'
  BY <1>3, <1>8, <1>9, CreditSame
<1>12. Pipe(W2, F, off2, non2, pos, ack, h, m, c, e2, r, t)'
  BY <1>2, <1>7, <1>8, <1>10, <1>11, PipeQuiet
<1> QED
  BY <1>1, <1>10, <1>12, ServerStep

\* A controlbase error frame between two records.
LEMMA SendErrorKeeps ==
    ASSUME ControlInv, SendError
    PROVE  ControlInv'
<1>1. CallInv /\ Waiting /\ DOMAIN srv = ServerFields
  BY DEF ControlInv, CallInv, SendError
<1>2. PICK W, F, off, non, pos, ack, h, m, c, e, r, t : Pipe(W, F, off, non, pos, ack, h, m, c, e, r, t)
  BY <1>1, WaitingFacts DEF ControlInv
<1>3. Link(W, F, off, non, h, m, c, e, r, t) /\ CreditInv(F, r, t, pos, ack)
  BY <1>2 DEF Pipe
<1>4. PICK W2, off2, non2, e2 :
            Link(W2, F, off2, non2, h, m, c, e2, r, t)' /\ Agree(W2, W, e) /\ e =< e2
  BY <1>1, <1>3, LinkError
<1>5. /\ DOMAIN srv' = ServerFields
      /\ srv'.held = srv.held /\ srv'.phase = srv.phase /\ srv'.todo = srv.todo /\ srv'.style = srv.style
      /\ srv'.swin = srv.swin /\ srv'.cwin = srv.cwin /\ srv'.unacked = srv.unacked
      /\ srv'.split = srv.split
  BY <1>1 DEF SendError, ServerFields
<1>6. op' = op /\ cl' = cl /\ nonce' = nonce
  BY DEF SendError
<1>7. Quiet(W2, off2, non2, c, e2, F, h, m, r, t)
  BY <1>4, <1>5, <1>6 DEF Quiet
<1>8. CreditInv(F, r, t, pos, ack)'
  BY <1>3, <1>5, <1>6, CreditSame
<1>9. Pipe(W2, F, off2, non2, pos, ack, h, m, c, e2, r, t)'
  BY <1>2, <1>4, <1>5, <1>7, <1>8, PipeQuiet
<1> QED
  BY <1>1, <1>7, <1>9, ServerStep

\* An answer to which one more place of split is added.
LEMMA AnswerGrows ==
    ASSUME NEW S, srv.split \subseteq S
    PROVE  \E a2 : /\ SameAnswer(a2, TheAnswer) /\ a2.split = S
                   /\ a2.sid = Sid /\ a2.block = srv.held.block /\ a2.sent = Sent /\ a2.size = Size
                   /\ a2.skip = Skip
                   /\ a2.cuts = (IF AsksMap(op, cl.call) THEN Skip + 2 .. Skip + 5 ELSE {})
<1> DEFINE a2 == [TheAnswer EXCEPT !.split = S]
<1>1. /\ a2.split = S
      /\ a2.sid = Sid /\ a2.block = srv.held.block /\ a2.sent = Sent /\ a2.size = Size
      /\ a2.skip = Skip
      /\ a2.cuts = (IF AsksMap(op, cl.call) THEN Skip + 2 .. Skip + 5 ELSE {})
  BY DEF TheAnswer
<1>2. SameAnswer(a2, TheAnswer)
  BY DEF TheAnswer, SameAnswer
<1> HIDE DEF a2
<1> QED
  BY <1>1, <1>2

\* An empty payload holds no start of a frame.
LEMMA NothingStarts == ASSUME NEW tag PROVE Row(<<>>, 0) /\ NoStart(<<>>, 1, 0, tag)
  BY EmptyRow DEF NoStart

\* SETTINGS, PING and GOAWAY.
LEMMA SendExtraKeeps ==
    ASSUME ControlInv, NEW typ, typ \in ExtraTypes, SendExtra(typ)
    PROVE  ControlInv'
<1>1. PICK s : s = [srv EXCEPT !.extras = @ + 1, !.unacked = IF typ = "settings" THEN @ + 1 ELSE @]
  OBVIOUS
<1>2. CallInv /\ DOMAIN srv = ServerFields /\ Send(H2Frame(typ, FALSE, 0, <<>>), s)
  BY <1>1 DEF ControlInv, CallInv, SendExtra
<1>3. Waiting
  BY <1>2 DEF Send
<1>4. PICK W, F, off, non, pos, ack, h, m, c, e, r, t : Pipe(W, F, off, non, pos, ack, h, m, c, e, r, t)
  BY <1>2, <1>3, WaitingFacts DEF ControlInv
<1>5. /\ DOMAIN s = ServerFields /\ s.sealed = srv.sealed /\ s.held = srv.held /\ s.split = srv.split
      /\ s.phase = srv.phase /\ s.todo = srv.todo /\ s.style = srv.style
      /\ s.swin = srv.swin /\ s.cwin = srv.cwin
      /\ s.unacked = (IF typ = "settings" THEN srv.unacked + 1 ELSE srv.unacked)
  BY <1>1, <1>2 DEF ServerFields
<1> HIDE <1>1
<1>6. PICK a2 : SameAnswer(a2, TheAnswer) /\ a2.split = s.split
  <2>1. srv.split \subseteq s.split
    BY <1>5
  <2> QED
    BY <2>1, AnswerGrows, Zenon
<1>30. PICK n, p, sid, flag : n = 0 /\ p = <<>> /\ sid = 0 /\ flag = FALSE
  OBVIOUS
<1>31. n \in Nat /\ flag = FALSE
  BY <1>30
<1>7. Kind(typ, flag, sid, p, n, pos[t + 1], a2)
  BY <1>30, Zenon DEF Kind
<1>8. Row(p, n) /\ NoStart(p, 1, n, "h1")
  BY <1>30, NothingStarts, Zenon
<1>32. Send(H2Frame(typ, flag, sid, p), s)
  BY <1>2, <1>30, Zenon
<1> HIDE <1>30
<1>33. srv.split \subseteq s.split
  BY <1>5
<1>9. /\ Sealed(s)
      /\ \E W2, F2, off2, non2, pos2, ack2, e2 :
            /\ Quiet(W2, off2, non2, c, e2, F2, h, m, r, t + 2 + n) /\ Agree(W2, W, e) /\ e =< e2
            /\ Flowed(F2, F, r, t, n, pos2, pos, ack2, ack, TheAnswer', typ, flag)
  BY <1>4, <1>5, <1>6, <1>7, <1>8, <1>32, <1>33, SendFlow
<1>10. PICK W2, F2, off2, non2, pos2, ack2, e2 :
            /\ Quiet(W2, off2, non2, c, e2, F2, h, m, r, t + 2 + n) /\ Agree(W2, W, e) /\ e =< e2
            /\ Flowed(F2, F, r, t, n, pos2, pos, ack2, ack, TheAnswer', typ, flag)
  BY <1>9, Zenon
<1>11. /\ srv'.held = srv.held /\ srv'.split = srv.split
       /\ srv'.phase = srv.phase /\ srv'.todo = srv.todo /\ srv'.style = srv.style
       /\ srv'.swin = srv.swin /\ srv'.cwin = srv.cwin
       /\ srv'.unacked = (IF typ = "settings" THEN srv.unacked + 1 ELSE srv.unacked)
  BY <1>5, <1>9, SealedFacts
<1>12. op' = op /\ cl' = cl
  BY <1>10 DEF Quiet
<1>13. Size' = Size /\ Sent' = Sent /\ Reader' = Reader
  BY <1>11, <1>12, SameCall
<1>14. /\ r \in Nat /\ t \in Nat /\ r =< t /\ pos \in [Nat -> Nat] /\ ack \in [Nat -> Nat]
       /\ CreditInv(F, r, t, pos, ack)
  BY <1>4, LinkOrder DEF Pipe, FrameRow
<1>15. /\ pos2[r + 1] = pos[r + 1] /\ ack2[r + 1] = ack[r + 1] /\ pos2[t + 2 + n + 1] = pos[t + 1]
       /\ ack2[t + 2 + n + 1] = (IF typ = "settings" THEN ack[t + 1] + 1 ELSE ack[t + 1])
       /\ NoEnd(F, r, t) => NoEnd(F2, r, t + 2 + n)
       /\ EndIsLast(F, r, t) => EndIsLast(F2, r, t + 2 + n)
       /\ (\E k \in r + 1 .. t : IsEnd(F, k)) => \E k \in r + 1 .. t + 2 + n : IsEnd(F2, k)
  <2>1. Agree(pos2, pos, t + 1) /\ Agree(ack2, ack, t + 1) /\ typ # "data"
    BY <1>10 DEF Flowed, ExtraTypes
  <2>2. pos2[r + 1] = pos[r + 1] /\ ack2[r + 1] = ack[r + 1]
    BY <1>14, <2>1 DEF Agree
  <2> QED
    BY <1>10, <1>31, <2>1, <2>2, Zenon DEF Flowed
<1>16. CreditInv(F2, r, t + 2 + n, pos2, ack2)'
  <2>1. cl.stage \notin {"upgrade", "handshake"} => srv'.unacked = ack2[t + 2 + n + 1] - ack2[r + 1]
    <3>1. ack[t + 1] \in Nat /\ ack[r + 1] \in Nat
      BY <1>14
    <3> QED
      BY <1>11, <1>14, <1>15, <3>1 DEF CreditInv
  <2>2. cl.stage \in Reading /\ srv.phase = "over" /\ Reader # "data" =>
           \E k \in r + 1 .. t + 2 + n : IsEnd(F2, k)
    BY <1>14, <1>15, Zenon DEF CreditInv
  <2>3. cl.stage \in Reading =>
          /\ srv.phase \in {"headers", "data", "end", "over"}
          /\ pos2[r + 1] =< pos2[t + 2 + n + 1]
          /\ pos2[t + 2 + n + 1] =< Size /\ Sliced(srv.todo, Sent, pos2[t + 2 + n + 1], Size)
          /\ srv.phase \in {"end", "over"} => pos2[t + 2 + n + 1] = Size
          /\ srv.swin = StreamWindow - (pos2[t + 2 + n + 1] - pos2[r + 1])
          /\ srv.cwin = ConnWindow - (pos2[t + 2 + n + 1] - pos2[r + 1])
          /\ srv.phase # "over" => NoEnd(F2, r, t + 2 + n)
          /\ EndIsLast(F2, r, t + 2 + n)
          /\ srv.style = "open" => Reader = "data"
    BY <1>14, <1>15 DEF CreditInv
  <2>4. /\ cl.stage \in Before => srv.cwin = ConnWindow
        /\ cl.stage \in Before \ {"post"} => srv.phase = "idle"
        /\ cl.stage = "post" => srv.phase \in {"idle", "over"}
    BY <1>14 DEF CreditInv
  <2> QED
    BY <1>11, <1>12, <1>13, <2>1, <2>2, <2>3, <2>4 DEF CreditInv
<1>17. Pipe(W2, F2, off2, non2, pos2, ack2, h, m, c, e2, r, t + 2 + n)'
  <2>1. srv.unacked \in Int => srv'.unacked = srv.unacked + (IF typ = "settings" THEN 1 ELSE 0)
    BY <1>11
  <2> QED
    BY <1>4, <1>10, <1>16, <1>31, <2>1, PipeFlow
<1> QED
  BY <1>2, <1>3, <1>10, <1>17, ServerStep

\* The phases of an answer belong to a call that reads it.
LEMMA PhaseFacts ==
    ASSUME Waiting, NEW F, NEW r, NEW t, NEW pos, NEW ack, CreditInv(F, r, t, pos, ack),
           srv.phase \in {"headers", "data", "end"}
    PROVE  cl.stage \in Reading /\ cl.stage \notin Before
  BY WaitingFacts DEF CreditInv, Before, Reading

\* The header block of the answer.
LEMMA SendHeadersKeeps ==
    ASSUME ControlInv, SendHeaders
    PROVE  ControlInv'
<1>1. PICK s : s = [srv EXCEPT !.phase = "data"]
  OBVIOUS
<1>2. CallInv /\ DOMAIN srv = ServerFields /\ Send(H2Frame("headers", FALSE, Sid, srv.held.block), s) /\ srv.phase = "headers"
  BY <1>1 DEF ControlInv, CallInv, SendHeaders
<1>3. Waiting
  BY <1>2 DEF Send
<1>4. PICK W, F, off, non, pos, ack, h, m, c, e, r, t : Pipe(W, F, off, non, pos, ack, h, m, c, e, r, t)
  BY <1>2, <1>3, WaitingFacts DEF ControlInv
<1>5. /\ DOMAIN s = ServerFields /\ s.sealed = srv.sealed /\ s.held = srv.held /\ s.split = srv.split
      /\ s.phase = "data" /\ s.todo = srv.todo /\ s.style = srv.style
      /\ s.swin = srv.swin /\ s.cwin = srv.cwin /\ s.unacked = srv.unacked
  BY <1>1, <1>2 DEF ServerFields
<1> HIDE <1>1
<1>14. /\ r \in Nat /\ t \in Nat /\ r =< t /\ pos \in [Nat -> Nat] /\ ack \in [Nat -> Nat]
       /\ CreditInv(F, r, t, pos, ack)
  BY <1>4, LinkOrder DEF Pipe, FrameRow
<1>20. cl.stage \in Reading /\ cl.stage \notin Before
  BY <1>2, <1>3, <1>14, PhaseFacts
<1>6. PICK a2 : SameAnswer(a2, TheAnswer) /\ a2.split = s.split /\ a2.sid = Sid /\ a2.block = srv.held.block
  <2>1. srv.split \subseteq s.split
    BY <1>5
  <2> QED
    BY <2>1, AnswerGrows
<1>30. PICK p, sid, flag : p = srv.held.block /\ sid = Sid /\ flag = FALSE
  OBVIOUS
<1>34. PICK n \in Nat : Row(p, n) /\ NoStart(p, 1, n, "h1")
  <2>1. srv.held \in Holdings(op, cl.call)
    BY <1>2, <1>20 DEF CallInv
  <2>2. p \in Blocks
    BY <1>30, <2>1, HoldingFacts
  <2>3. PICK n \in Nat : Row(p, n) /\ \A i \in 1 .. n : p[i][1] = "s"
    BY <2>2, BlockFacts
  <2> QED
    BY <2>3 DEF NoStart
<1>31. n \in Nat /\ flag = FALSE
  BY <1>30
<1>7. Kind("headers", flag, sid, p, n, pos[t + 1], a2)
  BY <1>6, <1>30, Zenon DEF Kind
<1>32. Send(H2Frame("headers", flag, sid, p), s)
  BY <1>2, <1>30, Zenon
<1> HIDE <1>30
<1>33. srv.split \subseteq s.split
  BY <1>5
<1>9. /\ Sealed(s)
      /\ \E W2, F2, off2, non2, pos2, ack2, e2 :
            /\ Quiet(W2, off2, non2, c, e2, F2, h, m, r, t + 2 + n) /\ Agree(W2, W, e) /\ e =< e2
            /\ Flowed(F2, F, r, t, n, pos2, pos, ack2, ack, TheAnswer', "headers", flag)
  BY <1>4, <1>5, <1>6, <1>7, <1>34, <1>32, <1>33, SendFlow
<1>10. PICK W2, F2, off2, non2, pos2, ack2, e2 :
            /\ Quiet(W2, off2, non2, c, e2, F2, h, m, r, t + 2 + n) /\ Agree(W2, W, e) /\ e =< e2
            /\ Flowed(F2, F, r, t, n, pos2, pos, ack2, ack, TheAnswer', "headers", flag)
  BY <1>9, Zenon
<1>11. /\ srv'.held = srv.held /\ srv'.split = srv.split
       /\ srv'.phase = "data" /\ srv'.todo = srv.todo /\ srv'.style = srv.style
       /\ srv'.swin = srv.swin /\ srv'.cwin = srv.cwin /\ srv'.unacked = srv.unacked
  BY <1>5, <1>9, SealedFacts
<1>12. op' = op /\ cl' = cl
  BY <1>10 DEF Quiet
<1>13. Size' = Size /\ Sent' = Sent /\ Reader' = Reader
  BY <1>11, <1>12, SameCall
<1>21. NoEnd(F, r, t)
  BY <1>2, <1>14, <1>20 DEF CreditInv
<1>15. /\ pos2[r + 1] = pos[r + 1] /\ ack2[r + 1] = ack[r + 1] /\ pos2[t + 2 + n + 1] = pos[t + 1]
       /\ ack2[t + 2 + n + 1] = ack[t + 1]
       /\ NoEnd(F2, r, t + 2 + n)
       /\ EndIsLast(F2, r, t + 2 + n)
  <2>1. Agree(pos2, pos, t + 1) /\ Agree(ack2, ack, t + 1)
    BY <1>10 DEF Flowed
  <2>2. pos2[r + 1] = pos[r + 1] /\ ack2[r + 1] = ack[r + 1]
    BY <1>14, <2>1 DEF Agree
  <2>3. pos2[t + 2 + n + 1] = pos[t + 1] /\ ack2[t + 2 + n + 1] = ack[t + 1]
    BY <1>10 DEF Flowed
  <2> QED
    BY <1>10, <1>21, <1>31, <2>2, <2>3, Zenon DEF Flowed
<1>16. CreditInv(F2, r, t + 2 + n, pos2, ack2)'
  <2>1. srv.unacked = ack2[t + 2 + n + 1] - ack2[r + 1]
    BY <1>14, <1>15, <1>20 DEF CreditInv, Reading
  <2>3. /\ pos2[r + 1] =< pos2[t + 2 + n + 1]
        /\ pos2[t + 2 + n + 1] =< Size /\ Sliced(srv.todo, Sent, pos2[t + 2 + n + 1], Size)
        /\ srv.swin = StreamWindow - (pos2[t + 2 + n + 1] - pos2[r + 1])
        /\ srv.cwin = ConnWindow - (pos2[t + 2 + n + 1] - pos2[r + 1])
        /\ srv.style = "open" => Reader = "data"
    BY <1>14, <1>15, <1>20 DEF CreditInv
  <2>4. cl.stage \notin Before /\ cl.stage # "post"
    BY <1>20 DEF Reading, Before
  <2> QED
    BY <1>11, <1>12, <1>13, <1>15, <2>1, <2>3, <2>4 DEF CreditInv
<1>17. Pipe(W2, F2, off2, non2, pos2, ack2, h, m, c, e2, r, t + 2 + n)'
  <2>1. srv.unacked \in Int => srv'.unacked = srv.unacked + (IF "headers" = "settings" THEN 1 ELSE 0)
    BY <1>11
  <2> QED
    BY <1>4, <1>10, <1>16, <1>20, <1>31, <2>1, PipeFlow
<1> QED
  BY <1>2, <1>3, <1>10, <1>17, ServerStep

\* The end of the stream in a frame of its own.
LEMMA SendEndKeeps ==
    ASSUME ControlInv, SendEnd
    PROVE  ControlInv'
<1>1. PICK s : s = [srv EXCEPT !.phase = "over"]
  OBVIOUS
<1>22. PICK typ : typ = (IF srv.style = "empty" THEN "data" ELSE "headers")
  OBVIOUS
<1>23. typ \in {"data", "headers"} /\ typ \notin ExtraTypes /\ typ # "settings"
  BY <1>22 DEF ExtraTypes
<1>2. CallInv /\ DOMAIN srv = ServerFields /\ Send(H2Frame(typ, TRUE, Sid, <<>>), s) /\ srv.phase = "end"
  BY <1>1, <1>22 DEF ControlInv, CallInv, SendEnd
<1>3. Waiting
  BY <1>2 DEF Send
<1>4. PICK W, F, off, non, pos, ack, h, m, c, e, r, t : Pipe(W, F, off, non, pos, ack, h, m, c, e, r, t)
  BY <1>2, <1>3, WaitingFacts DEF ControlInv
<1>5. /\ DOMAIN s = ServerFields /\ s.sealed = srv.sealed /\ s.held = srv.held /\ s.split = srv.split
      /\ s.phase = "over" /\ s.todo = srv.todo /\ s.style = srv.style
      /\ s.swin = srv.swin /\ s.cwin = srv.cwin /\ s.unacked = srv.unacked
  BY <1>1, <1>2 DEF ServerFields
<1> HIDE <1>1
<1>14. /\ r \in Nat /\ t \in Nat /\ r =< t /\ pos \in [Nat -> Nat] /\ ack \in [Nat -> Nat]
       /\ CreditInv(F, r, t, pos, ack)
  BY <1>4, LinkOrder DEF Pipe, FrameRow
<1>20. cl.stage \in Reading /\ cl.stage \notin Before
  BY <1>2, <1>3, <1>14, PhaseFacts
<1>6. PICK a2 : SameAnswer(a2, TheAnswer) /\ a2.split = s.split /\ a2.sid = Sid /\ a2.sent = Sent /\ a2.size = Size
                /\ a2.skip = Skip
                /\ a2.cuts = (IF AsksMap(op, cl.call) THEN Skip + 2 .. Skip + 5 ELSE {})
  <2>1. srv.split \subseteq s.split
    BY <1>5
  <2> QED
    BY <2>1, AnswerGrows
<1>24. pos[t + 1] = Size
  BY <1>2, <1>14, <1>20 DEF CreditInv
<1>25. /\ srv.held.prefixed \in BOOLEAN
       /\ Size \in Nat /\ Skip \in Nat /\ Skip < Size
       /\ AsksMap(op, cl.call) => Size = Skip + 8
  <2>1. srv.held \in Holdings(op, cl.call)
    BY <1>2, <1>20 DEF CallInv
  <2>2. srv.held.prefixed \in BOOLEAN
    BY <2>1, HoldingFacts
  <2> QED
    BY <2>2, SentFacts DEF Size
<1>30. PICK n, p, sid, flag : n = 0 /\ p = <<>> /\ sid = Sid /\ flag = TRUE
  OBVIOUS
<1>34. Row(p, n) /\ NoStart(p, 1, n, "h1")
  BY <1>30, NothingStarts, Zenon
<1>31. n \in Nat /\ flag = TRUE
  BY <1>30
<1>7. Kind(typ, flag, sid, p, n, pos[t + 1], a2)
  <2>1. CASE typ = "headers"
    BY <1>6, <1>24, <1>30, <2>1, Zenon DEF Kind
  <2>2. CASE typ = "data"
    <3>1. PICK b : b = Size
      OBVIOUS
    <3>2. b + n = b /\ (b + n) - b = 0 /\ b + n =< b /\ n = 0 /\ b \in Nat
      BY <1>25, <1>30, <3>1
    <3>3. Sliced(p, a2.sent, b, b + n)
      BY <1>30, <1>34, <3>2 DEF Sliced
    <3>4. b + n =< a2.size /\ b + n = a2.size
      BY <1>6, <3>1, <3>2
    <3>5. ~(b = 0 /\ n \in 1 .. a2.skip) /\ b + n \notin a2.cuts
      BY <1>6, <1>25, <3>1, <3>2
    <3>6. Kind(typ, flag, sid, p, n, b, a2)
      BY <1>6, <1>30, <2>2, <3>3, <3>4, <3>5, Zenon DEF Kind
    <3> QED
      BY <1>24, <3>1, <3>6
  <2> QED
    BY <1>23, <2>1, <2>2
<1>32. Send(H2Frame(typ, flag, sid, p), s)
  BY <1>2, <1>30, Zenon
<1>33. srv.split \subseteq s.split
  BY <1>5
<1> HIDE <1>22, <1>30
<1>9. /\ Sealed(s)
      /\ \E W2, F2, off2, non2, pos2, ack2, e2 :
            /\ Quiet(W2, off2, non2, c, e2, F2, h, m, r, t + 2 + n) /\ Agree(W2, W, e) /\ e =< e2
            /\ Flowed(F2, F, r, t, n, pos2, pos, ack2, ack, TheAnswer', typ, flag)
  BY <1>4, <1>5, <1>6, <1>7, <1>34, <1>32, <1>33, SendFlow
<1>10. PICK W2, F2, off2, non2, pos2, ack2, e2 :
            /\ Quiet(W2, off2, non2, c, e2, F2, h, m, r, t + 2 + n) /\ Agree(W2, W, e) /\ e =< e2
            /\ Flowed(F2, F, r, t, n, pos2, pos, ack2, ack, TheAnswer', typ, flag)
  BY <1>9, Zenon
<1>11. /\ srv'.held = srv.held /\ srv'.split = srv.split
       /\ srv'.phase = "over" /\ srv'.todo = srv.todo /\ srv'.style = srv.style
       /\ srv'.swin = srv.swin /\ srv'.cwin = srv.cwin /\ srv'.unacked = srv.unacked
  BY <1>5, <1>9, SealedFacts
<1>12. op' = op /\ cl' = cl
  BY <1>10 DEF Quiet
<1>13. Size' = Size /\ Sent' = Sent /\ Reader' = Reader
  BY <1>11, <1>12, SameCall
<1>21. NoEnd(F, r, t)
  BY <1>2, <1>14, <1>20 DEF CreditInv
<1>15. /\ pos2[r + 1] = pos[r + 1] /\ ack2[r + 1] = ack[r + 1] /\ pos2[t + 2 + n + 1] = pos[t + 1]
       /\ ack2[t + 2 + n + 1] = ack[t + 1]
       /\ \E k \in r + 1 .. t + 2 + n : IsEnd(F2, k)
       /\ EndIsLast(F2, r, t + 2 + n)
  <2>1. Agree(pos2, pos, t + 1) /\ Agree(ack2, ack, t + 1)
    BY <1>10 DEF Flowed
  <2>2. pos2[r + 1] = pos[r + 1] /\ ack2[r + 1] = ack[r + 1]
    BY <1>14, <2>1 DEF Agree
  <2>3. pos2[t + 2 + n + 1] = pos[t + 1] /\ ack2[t + 2 + n + 1] = ack[t + 1]
    <3>1. PICK b : b = pos[t + 1]
      OBVIOUS
    <3>2. b \in Nat /\ n = 0 /\ b + n = b
      BY <1>14, <1>30, <3>1
    <3>3. pos2[t + 2 + n + 1] = (IF typ = "data" THEN b + n ELSE b)
      BY <1>10, <3>1 DEF Flowed
    <3>4. ack2[t + 2 + n + 1] = ack[t + 1]
      BY <1>10, <1>23 DEF Flowed
    <3> QED
      BY <3>1, <3>2, <3>3, <3>4
  <2> QED
    BY <1>10, <1>21, <1>23, <1>31, <2>2, <2>3, Zenon DEF Flowed
<1>16. CreditInv(F2, r, t + 2 + n, pos2, ack2)'
  <2>1. srv.unacked = ack2[t + 2 + n + 1] - ack2[r + 1]
    BY <1>14, <1>15, <1>20 DEF CreditInv, Reading
  <2>3. /\ pos2[r + 1] =< pos2[t + 2 + n + 1]
        /\ pos2[t + 2 + n + 1] = Size /\ pos2[t + 2 + n + 1] =< Size /\ Sliced(srv.todo, Sent, pos2[t + 2 + n + 1], Size)
        /\ srv.swin = StreamWindow - (pos2[t + 2 + n + 1] - pos2[r + 1])
        /\ srv.cwin = ConnWindow - (pos2[t + 2 + n + 1] - pos2[r + 1])
        /\ srv.style = "open" => Reader = "data"
    BY <1>14, <1>15, <1>20, <1>24, <1>25 DEF CreditInv
  <2>4. cl.stage \notin Before /\ cl.stage # "post"
    BY <1>20 DEF Reading, Before
  <2> QED
    BY <1>11, <1>12, <1>13, <1>15, <2>1, <2>3, <2>4, Zenon DEF CreditInv
<1>17. Pipe(W2, F2, off2, non2, pos2, ack2, h, m, c, e2, r, t + 2 + n)'
  <2>1. srv.unacked \in Int => srv'.unacked = srv.unacked + (IF typ = "settings" THEN 1 ELSE 0)
    BY <1>11, <1>23
  <2> QED
    BY <1>4, <1>10, <1>16, <1>20, <1>31, <2>1, PipeFlow
<1> QED
  BY <1>2, <1>3, <1>10, <1>17, ServerStep

\* A DATA frame is no longer than what is left of the answer.
LEMMA MinOfFour ==
    ASSUME NEW a \in Int, NEW b \in Int, NEW c \in Int, NEW d \in Int
    PROVE  Min({a, b, c, d}) =< a /\ Min({a, b, c, d}) \in Int
<1>1. \E x \in {a, b, c, d} : \A y \in {a, b, c, d} : x =< y
  <2>1. CASE a =< b /\ a =< c /\ a =< d
    BY <2>1
  <2>2. CASE b =< a /\ b =< c /\ b =< d
    BY <2>2
  <2>3. CASE c =< a /\ c =< b /\ c =< d
    BY <2>3
  <2>4. CASE d =< a /\ d =< b /\ d =< c
    BY <2>4
  <2> QED
    BY <2>1, <2>2, <2>3, <2>4
<1>2. Min({a, b, c, d}) \in {a, b, c, d} /\ \A y \in {a, b, c, d} : Min({a, b, c, d}) =< y
  BY <1>1 DEF Min
<1> QED
  BY <1>2

\* What is left of the address where the answer is cut inside it.
LEMMA CutInAddress ==
    ASSUME NEW w, NEW q, srv.held.prefixed \in BOOLEAN, AsksMap(op, cl.call),
           q \in Skip + 2 .. Skip + 5, Sliced(w, Sent, q, Size)
    PROVE  \E k \in 1 .. 4 : IsPrefix(SubSeq(AddressField, k + 1, 6), w)
<1>1. PICK k0, all : k0 = Skip /\ all = Sent
  OBVIOUS
<1>2. /\ k0 \in Nat /\ Size = k0 + 8 /\ Size - k0 = 8
      /\ \A i \in k0 + 1 .. k0 + 8 : all[i] = MapBody[i - k0]
  <2>1. /\ Skip \in Nat /\ \A i \in Skip + 1 .. Size : Sent[i] = Whole[i - Skip]
    BY SentFacts
  <2>2. Whole = MapBody
    BY WholeFacts
  <2>3. Size = Skip + 8
    BY DEF Size
  <2> QED
    BY <1>1, <2>1, <2>2, <2>3
<1>3. PICK k : k = q - (k0 + 1)
  OBVIOUS
<1>4. k \in 1 .. 4 /\ q = k0 + 1 + k /\ (k0 + 8) - q = 7 - k /\ 7 - k = 1 + (6 - k) /\ 7 - k \in Nat /\ 6 - k \in Nat
  BY <1>1, <1>2, <1>3
<1>5. Row(w, 7 - k) /\ \A i \in 1 .. 7 - k : w[i] = all[q + i]
  BY <1>1, <1>2, <1>4 DEF Sliced
<1>6. PICK v : v = SubSeq(AddressField, k + 1, 6)
  OBVIOUS
<1>7. Sliced(v, AddressField, k, 6)
  <2>1. k \in 0 .. 6 /\ 6 \in k .. 6
    BY <1>4
  <2> QED
    BY <1>6, <2>1, FieldFacts, RowSlice
<1>8. ASSUME NEW i \in 1 .. 6 - k
      PROVE  v[i] = w[i]
  <2>1. i \in 1 .. 7 - k /\ q + i \in k0 + 1 .. k0 + 8 /\ (q + i) - k0 = (k + i) + 1
        /\ (k + i) + 1 \in 2 .. 7 /\ ((k + i) + 1) - 1 = k + i
    BY <1>2, <1>4
  <2>2. w[i] = MapBody[(k + i) + 1]
    BY <1>2, <1>5, <2>1
  <2>3. MapBody[(k + i) + 1] = EarlyText[(k + i) + 1]
    BY <2>1, FieldFacts
  <2>4. EarlyText[(k + i) + 1] = AddressField[k + i]
    BY <2>1, FieldFacts
  <2>5. v[i] = AddressField[k + i]
    BY <1>7 DEF Sliced
  <2> QED
    BY <2>2, <2>3, <2>4, <2>5
<1>9. Sliced(v, w, 0, 6 - k)
  <2>1. (6 - k) - 0 = 6 - k
    BY <1>4
  <2>2. \A i \in 1 .. 6 - k : 0 + i = i
    BY <1>4
  <2>3. Row(v, 6 - k)
    BY <1>7 DEF Sliced
  <2> QED
    BY <1>8, <2>1, <2>2, <2>3 DEF Sliced
<1>10. IsPrefix(v, w)
  <2>1. 6 - k =< 7 - k
    BY <1>4
  <2> QED
    BY <1>4, <1>5, <1>9, <2>1, SlicedIsPrefix
<1> QED
  BY <1>4, <1>6, <1>10

\* A DATA frame: the next bytes of the answer, within both windows.
LEMMA SendDataKeeps ==
    ASSUME ControlInv, NEW n, n \in 1 .. MaxFrame, SendData(n)
    PROVE  ControlInv'
<1>40. n \in Nat /\ n >= 1 /\ MaxFrame \in Nat
  BY ControlAssumption
<1>41. PICK last, inAddress, inPrefix, typ, flag :
         /\ last = (n = Len(srv.todo))
         /\ inAddress = (\E k \in 1 .. 4 : IsPrefix(SubSeq(AddressField, k + 1, 6), Drop(srv.todo, n)))
         /\ inPrefix = (srv.todo[1] = B("len") /\ n =< Prefix)
         /\ typ = "data"
         /\ flag = (last /\ srv.style = "data")
  OBVIOUS
<1>42. PICK left, p, sp, ph, sid :
         /\ left = Drop(srv.todo, n) /\ p = SubSeq(srv.todo, 1, n)
         /\ sp = (srv.split \cup (IF inAddress THEN {"address"} ELSE {}) \cup (IF inPrefix THEN {"prefix"} ELSE {}))
         /\ ph = (IF ~last THEN "data" ELSE IF srv.style \in {"data", "open"} THEN "over" ELSE "end")
         /\ sid = Sid
  OBVIOUS
<1>1. PICK s : s = [srv EXCEPT !.todo = left, !.swin = @ - n, !.cwin = @ - n, !.split = sp, !.phase = ph]
  OBVIOUS
<1>2. /\ CallInv /\ DOMAIN srv = ServerFields /\ srv.phase = "data"
      /\ n \in 1 .. Min({Len(srv.todo), MaxFrame, srv.swin, srv.cwin})
  BY DEF ControlInv, CallInv, SendData
<1>32. Send(H2Frame(typ, flag, sid, p), s)
  BY <1>1, <1>41, <1>42, Zenon DEF SendData
<1>3. Waiting
  BY <1>32 DEF Send
<1>4. PICK W, F, off, non, pos, ack, h, m, c, e, r, t : Pipe(W, F, off, non, pos, ack, h, m, c, e, r, t)
  BY <1>2, <1>3, WaitingFacts DEF ControlInv
<1>5. /\ DOMAIN s = ServerFields /\ s.sealed = srv.sealed /\ s.held = srv.held /\ s.split = sp
      /\ s.phase = ph /\ s.todo = left /\ s.style = srv.style
      /\ s.swin = srv.swin - n /\ s.cwin = srv.cwin - n /\ s.unacked = srv.unacked
  BY <1>1, <1>2 DEF ServerFields
<1> HIDE <1>1
<1>14. /\ r \in Nat /\ t \in Nat /\ r =< t /\ pos \in [Nat -> Nat] /\ ack \in [Nat -> Nat]
       /\ CreditInv(F, r, t, pos, ack)
  BY <1>4, LinkOrder DEF Pipe, FrameRow
<1>20. cl.stage \in Reading /\ cl.stage \notin Before
  BY <1>2, <1>3, <1>14, PhaseFacts
<1>43. flag \in BOOLEAN /\ (last \/ ~last)
  BY <1>41
<1>44. srv.split \subseteq sp /\ (inAddress => "address" \in sp) /\ (inPrefix => "prefix" \in sp)
  BY <1>42
<1>6. PICK a2 : /\ SameAnswer(a2, TheAnswer) /\ a2.split = s.split /\ a2.sid = Sid /\ a2.sent = Sent /\ a2.size = Size
                /\ a2.skip = Skip
                /\ a2.cuts = (IF AsksMap(op, cl.call) THEN Skip + 2 .. Skip + 5 ELSE {})
  <2>1. srv.split \subseteq s.split
    BY <1>5, <1>44
  <2> QED
    BY <2>1, AnswerGrows
<1>25. /\ srv.held.prefixed \in BOOLEAN
       /\ Size \in Nat /\ Skip \in Nat /\ Skip < Size
       /\ Row(Sent, Size)
       /\ \A i \in 1 .. Skip : Sent[i] = B("len")
       /\ \A i \in 1 .. Size : Sent[i][1] = "b"
       /\ Skip >= 1 => Skip = Prefix
  <2>1. srv.held \in Holdings(op, cl.call)
    BY <1>2, <1>20 DEF CallInv
  <2>2. srv.held.prefixed \in BOOLEAN
    BY <2>1, HoldingFacts
  <2> QED
    BY <2>2, SentFacts DEF Skip
<1>45. PICK b : b = pos[t + 1]
  OBVIOUS
<1>46. /\ b \in Nat /\ pos[r + 1] \in Nat /\ pos[r + 1] =< b /\ b =< Size /\ Sliced(srv.todo, Sent, b, Size)
       /\ srv.swin = StreamWindow - (b - pos[r + 1]) /\ srv.cwin = ConnWindow - (b - pos[r + 1])
       /\ NoEnd(F, r, t)
       /\ srv.style = "open" => Reader = "data"
       /\ srv.unacked = ack[t + 1] - ack[r + 1]
  <2>1. b \in Nat /\ pos[r + 1] \in Nat
    BY <1>14, <1>45
  <2>2. /\ pos[r + 1] =< b /\ b =< Size /\ Sliced(srv.todo, Sent, b, Size)
        /\ srv.swin = StreamWindow - (b - pos[r + 1]) /\ srv.cwin = ConnWindow - (b - pos[r + 1])
    BY <1>14, <1>20, <1>45 DEF CreditInv
  <2>3. NoEnd(F, r, t) /\ (srv.style = "open" => Reader = "data")
    BY <1>2, <1>14, <1>20 DEF CreditInv
  <2>4. srv.unacked = ack[t + 1] - ack[r + 1]
    BY <1>14, <1>20 DEF CreditInv, Reading
  <2> QED
    BY <2>1, <2>2, <2>3, <2>4
<1>47. Len(srv.todo) = Size - b /\ n =< Size - b /\ b + n =< Size /\ n \in 0 .. Size - b /\ b + n \in Nat
  <2>1. Len(srv.todo) = Size - b
    BY <1>46, RowFacts DEF Sliced
  <2>2. srv.swin \in Int /\ srv.cwin \in Int /\ Size - b \in Int
    BY <1>25, <1>46, ControlAssumption
  <2>3. Min({Size - b, MaxFrame, srv.swin, srv.cwin}) =< Size - b /\ Min({Size - b, MaxFrame, srv.swin, srv.cwin}) \in Int
    BY <1>40, <2>2, MinOfFour
  <2>4. n =< Size - b
    BY <1>2, <1>25, <1>40, <1>46, <2>1, <2>3
  <2> QED
    BY <1>25, <1>40, <1>46, <2>1, <2>4
<1>48. Sliced(p, Sent, b, b + n) /\ Sliced(left, Sent, b + n, Size)
  BY <1>25, <1>42, <1>46, <1>47, SlicedTake, SlicedDrop, Zenon
<1>49. last <=> b + n = Size
  <2>1. last = (n = Size - b)
    BY <1>41, <1>47
  <2>2. (n = Size - b) <=> b + n = Size
    BY <1>25, <1>40, <1>46
  <2> QED
    BY <2>1, <2>2
<1>34. Row(p, n) /\ NoStart(p, 1, n, "h1")
  <2>1. (b + n) - b = n
    BY <1>40, <1>46
  <2>2. Row(p, n) /\ \A i \in 1 .. n : p[i] = Sent[b + i]
    BY <1>48, <2>1 DEF Sliced
  <2>3. ASSUME NEW i \in 1 .. n
        PROVE  p[i][1] = "b"
    <3>1. b + i \in 1 .. Size
      BY <1>25, <1>40, <1>46, <1>47
    <3> QED
      BY <1>25, <2>2, <3>1
  <2> QED
    BY <2>2, <2>3 DEF NoStart
<1>50. "prefix" \notin sp => ~(b = 0 /\ n \in 1 .. Skip)
  <2> SUFFICES ASSUME b = 0, n \in 1 .. Skip
               PROVE  inPrefix
    BY <1>44
  <2>1. srv.todo[1] = Sent[1]
    <3>1. 1 \in 1 .. Size - b /\ b + 1 = 1
      BY <1>25
    <3> QED
      BY <1>46, <3>1 DEF Sliced
  <2>2. Sent[1] = B("len") /\ n =< Prefix
    BY <1>25
  <2> QED
    BY <1>41, <2>1, <2>2
<1>51. "address" \notin sp => b + n \notin a2.cuts
  <2> SUFFICES ASSUME AsksMap(op, cl.call), b + n \in Skip + 2 .. Skip + 5
               PROVE  inAddress
    BY <1>6, <1>44
  <2>1. \E k \in 1 .. 4 : IsPrefix(SubSeq(AddressField, k + 1, 6), left)
    BY <1>25, <1>48, CutInAddress
  <2> QED
    BY <1>41, <1>42, <2>1, Zenon
<1>7. Kind(typ, flag, sid, p, n, pos[t + 1], a2)
  <2>1. Sliced(p, a2.sent, b, b + n) /\ b + n =< a2.size
    BY <1>6, <1>47, <1>48
  <2>2. flag => b + n = a2.size
    BY <1>6, <1>41, <1>49
  <2>3. n > 0
    BY <1>40
  <2>4. /\ "prefix" \notin a2.split => ~(b = 0 /\ n \in 1 .. a2.skip)
        /\ "address" \notin a2.split => b + n \notin a2.cuts
    BY <1>5, <1>6, <1>50, <1>51
  <2>5. typ = "data" /\ sid = a2.sid
    BY <1>6, <1>41, <1>42
  <2>6. Kind(typ, flag, sid, p, n, b, a2)
    BY <1>43, <2>4, <2>5, <2>1, <2>2, <2>3, Zenon DEF Kind
  <2> QED
    BY <1>45, <2>6
<1>33. srv.split \subseteq s.split
  BY <1>5, <1>44
<1>23. typ = "data" /\ typ \notin ExtraTypes /\ typ # "settings"
  BY <1>41 DEF ExtraTypes
<1>52. /\ ph # "over" => flag = FALSE
       /\ ph = "over" /\ Reader # "data" => flag = TRUE
       /\ ph \in {"data", "end", "over"}
       /\ ph # "data" => b + n = Size
  <2>1. flag = TRUE \/ flag = FALSE
    BY <1>43
  <2>2. last /\ srv.style = "data" <=> flag = TRUE
    BY <1>41
  <2>3. last \/ ~last
    BY <1>43
  <2> QED
    BY <1>42, <1>46, <1>49, <2>1, <2>2, <2>3
<1> HIDE <1>41, <1>42
<1>9. /\ Sealed(s)
      /\ \E W2, F2, off2, non2, pos2, ack2, e2 :
            /\ Quiet(W2, off2, non2, c, e2, F2, h, m, r, t + 2 + n) /\ Agree(W2, W, e) /\ e =< e2
            /\ Flowed(F2, F, r, t, n, pos2, pos, ack2, ack, TheAnswer', typ, flag)
  BY <1>4, <1>5, <1>6, <1>7, <1>34, <1>32, <1>33, SendFlow
<1>10. PICK W2, F2, off2, non2, pos2, ack2, e2 :
            /\ Quiet(W2, off2, non2, c, e2, F2, h, m, r, t + 2 + n) /\ Agree(W2, W, e) /\ e =< e2
            /\ Flowed(F2, F, r, t, n, pos2, pos, ack2, ack, TheAnswer', typ, flag)
  BY <1>9, Zenon
<1>11. /\ srv'.held = srv.held /\ srv'.split = sp
       /\ srv'.phase = ph /\ srv'.todo = left /\ srv'.style = srv.style
       /\ srv'.swin = srv.swin - n /\ srv'.cwin = srv.cwin - n /\ srv'.unacked = srv.unacked
  BY <1>5, <1>9, SealedFacts
<1>12. op' = op /\ cl' = cl
  BY <1>10 DEF Quiet
<1>13. Size' = Size /\ Sent' = Sent /\ Reader' = Reader
  <2>1. srv'.held = srv.held /\ srv.split \subseteq srv'.split
    BY <1>11, <1>44
  <2> QED
    BY <1>12, <2>1, SameCall
<1>15. /\ pos2[r + 1] = pos[r + 1] /\ ack2[r + 1] = ack[r + 1] /\ pos2[t + 2 + n + 1] = b + n
       /\ ack2[t + 2 + n + 1] = ack[t + 1]
       /\ EndIsLast(F2, r, t + 2 + n)
       /\ flag = FALSE => NoEnd(F2, r, t + 2 + n)
       /\ flag = TRUE => \E k \in r + 1 .. t + 2 + n : IsEnd(F2, k)
  <2>1. Agree(pos2, pos, t + 1) /\ Agree(ack2, ack, t + 1)
    BY <1>10 DEF Flowed
  <2>2. pos2[r + 1] = pos[r + 1] /\ ack2[r + 1] = ack[r + 1]
    BY <1>14, <2>1 DEF Agree
  <2>3. pos2[t + 2 + n + 1] = b + n /\ ack2[t + 2 + n + 1] = ack[t + 1]
    BY <1>10, <1>23, <1>45 DEF Flowed
  <2>4. /\ EndIsLast(F2, r, t + 2 + n)
        /\ flag = FALSE => NoEnd(F2, r, t + 2 + n)
        /\ flag = TRUE => \E k \in r + 1 .. t + 2 + n : IsEnd(F2, k)
    BY <1>10, <1>23, <1>46, Zenon DEF Flowed
  <2> QED
    BY <2>2, <2>3, <2>4
<1>16. CreditInv(F2, r, t + 2 + n, pos2, ack2)'
  <2>1. srv.unacked = ack2[t + 2 + n + 1] - ack2[r + 1]
    BY <1>15, <1>46
  <2>2. /\ pos[r + 1] =< b + n
        /\ b + n =< Size /\ Sliced(left, Sent, b + n, Size)
        /\ srv.swin - n = StreamWindow - ((b + n) - pos[r + 1])
        /\ srv.cwin - n = ConnWindow - ((b + n) - pos[r + 1])
    <3>1. StreamWindow \in Nat /\ ConnWindow \in Nat
      BY ControlAssumption
    <3>2. /\ pos[r + 1] =< b + n
          /\ srv.swin - n = StreamWindow - ((b + n) - pos[r + 1])
          /\ srv.cwin - n = ConnWindow - ((b + n) - pos[r + 1])
      BY <1>40, <1>46, <3>1
    <3> QED
      BY <1>47, <1>48, <3>2
  <2>3. /\ pos2[r + 1] =< pos2[t + 2 + n + 1]
        /\ pos2[t + 2 + n + 1] =< Size /\ Sliced(left, Sent, pos2[t + 2 + n + 1], Size)
        /\ srv.swin - n = StreamWindow - (pos2[t + 2 + n + 1] - pos2[r + 1])
        /\ srv.cwin - n = ConnWindow - (pos2[t + 2 + n + 1] - pos2[r + 1])
    BY <1>15, <2>2
  <2>4. cl.stage \notin Before /\ cl.stage # "post"
    BY <1>20 DEF Reading, Before
  <2>5. /\ ph \in {"headers", "data", "end", "over"}
        /\ ph \in {"end", "over"} => pos2[t + 2 + n + 1] = Size
        /\ ph # "over" => NoEnd(F2, r, t + 2 + n)
        /\ ph = "over" /\ Reader # "data" => \E k \in r + 1 .. t + 2 + n : IsEnd(F2, k)
        /\ srv.style = "open" => Reader = "data"
    <3>1. ph \in {"end", "over"} => pos2[t + 2 + n + 1] = Size
      BY <1>15, <1>52
    <3>2. ph \in {"headers", "data", "end", "over"}
      BY <1>52
    <3> QED
      BY <1>15, <1>46, <1>52, <3>1, <3>2, Zenon
  <2> QED
    BY <1>11, <1>12, <1>13, <1>15, <2>1, <2>3, <2>4, <2>5, Zenon DEF CreditInv
<1>17. Pipe(W2, F2, off2, non2, pos2, ack2, h, m, c, e2, r, t + 2 + n)'
  <2>1. srv.unacked \in Int => srv'.unacked = srv.unacked + (IF typ = "settings" THEN 1 ELSE 0)
    BY <1>11, <1>23
  <2> QED
    BY <1>4, <1>10, <1>16, <1>20, <1>40, <2>1, PipeFlow
<1> QED
  BY <1>2, <1>3, <1>10, <1>17, ServerStep

-----------------------------------------------------------------------------
\* The socket, and the ends of a call.

\* The call, the server and the plaintext are the same.
LEMMA PipeSame ==
    ASSUME NEW W, NEW F, NEW off, NEW non, NEW pos, NEW ack, NEW h, NEW m, NEW c, NEW e, NEW r, NEW t,
           NEW h2, NEW m2, NEW c2,
           Pipe(W, F, off, non, pos, ack, h, m, c, e, r, t),
           Link(W, F, off, non, h2, m2, c2, e, r, t)',
           op' = op, cl' = cl, srv' = srv,
           (nonce' = nonce /\ h2 = h /\ c2 = c) \/ (InH2 /\ h2 = c2)
    PROVE  Pipe(W, F, off, non, pos, ack, h2, m2, c2, e, r, t)'
<1>1. TheAnswer' = TheAnswer
  BY SameCall
<1>2. FrameRow(F, r, t, pos, ack, TheAnswer)'
  <2>1. FrameRow(F, r, t, pos, ack, TheAnswer)
    BY DEF Pipe
  <2>2. PICK a : a = TheAnswer
    OBVIOUS
  <2>3. FrameRow(F, r, t, pos, ack, a) /\ TheAnswer' = a
    BY <1>1, <2>1, <2>2
  <2> QED
    BY <2>3
<1>3. CreditInv(F, r, t, pos, ack)'
  BY CreditSame DEF Pipe
<1>4. ReadInv(pos[r + 1])'
  <2>1. PICK b : b = pos[r + 1]
    OBVIOUS
  <2>2. ReadInv(b)
    BY <2>1 DEF Pipe
  <2>3. ReadInv(b)'
    BY <2>2, ReadKept
  <2> QED
    BY <2>1, <2>3
<1>5. StageInv(W, F, ack, h2, c2, e, r, t)'
  <2>1. StageInv(W, F, ack, h, c, e, r, t)
    BY DEF Pipe
  <2>2. CASE nonce' = nonce /\ h2 = h /\ c2 = c
    <3>1. Greeted(W, c, e, F, r, t, ack) => Greeted(W, c, e, F, r, t, ack)'
      BY DEF Greeted
    <3> QED
      BY <2>1, <2>2, <3>1 DEF StageInv
  <2>3. CASE InH2 /\ h2 = c2
    <3>1. cl.stage \notin {"upgrade", "handshake"}
      BY <2>3 DEF InH2
    <3> QED
      BY <2>1, <2>3, <3>1 DEF StageInv
  <2> QED
    BY <2>2, <2>3
<1> QED
  BY <1>2, <1>3, <1>4, <1>5 DEF Pipe

\* A read of the socket, however much it brings.
LEMMA FillKeeps ==
    ASSUME ControlInv, NEW n, n \in 1 .. Len(net), Fill(n)
    PROVE  ControlInv'
<1>1. CallInv /\ Waiting /\ op' = op /\ cl' = cl /\ srv' = srv /\ nonce' = nonce
  BY DEF ControlInv, Fill
<1>2. PICK W, F, off, non, pos, ack, h, m, c, e, r, t : Pipe(W, F, off, non, pos, ack, h, m, c, e, r, t)
  BY <1>1, WaitingFacts DEF ControlInv
<1>3. PICK m2 : Link(W, F, off, non, h, m2, c, e, r, t)'
  BY <1>2, LinkFill DEF Pipe
<1>4. Pipe(W, F, off, non, pos, ack, h, m2, c, e, r, t)'
  BY <1>1, <1>2, <1>3, PipeSame
<1>5. CallInv'
  <2>1. cl.stage # "timeout" /\ cl.stage # "failed" /\ DOMAIN srv' = ServerFields
    BY <1>1, WaitingFacts DEF CallInv
  <2> QED
    BY <1>1, <2>1, CallKept
<1> QED
  BY <1>4, <1>5 DEF ControlInv

\* A record always opens.
LEMMA PullStep ==
    ASSUME ControlInv, Pull, BaseType = "record"
    PROVE  ControlInv'
<1>1. CallInv /\ InH2
  BY DEF ControlInv, Pull
<1>2. cl.stage \notin Ended /\ cl.stage # "upgrade"
  BY <1>1 DEF InH2, Ended
<1>3. PICK W, F, off, non, pos, ack, h, m, c, e, r, t : Pipe(W, F, off, non, pos, ack, h, m, c, e, r, t)
  BY <1>2 DEF ControlInv
<1>4. h = c
  BY <1>2, <1>3 DEF Pipe, StageInv
<1>5. Link(W, F, off, non, c, m, c, e, r, t)
  BY <1>3, <1>4 DEF Pipe
<1>6. cl' = cl /\ srv' = srv /\ op' = op
  BY <1>5, LinkPull
<1>7. PICK c2 : Link(W, F, off, non, c2, m, c2, e, r, t)'
  BY <1>5, LinkPull
<1>8. Pipe(W, F, off, non, pos, ack, c2, m, c2, e, r, t)'
  BY <1>1, <1>3, <1>6, <1>7, PipeSame
<1>9. CallInv'
  <2>1. cl.stage # "timeout" /\ cl.stage # "failed" /\ DOMAIN srv' = ServerFields
    BY <1>1, <1>2, <1>6 DEF CallInv, Ended
  <2> QED
    BY <1>1, <1>6, <2>1, CallKept
<1> QED
  BY <1>8, <1>9 DEF ControlInv

\* Nothing is a prefix of every answer.
LEMMA EmptyIsPrefix == IsPrefix(<<>>, Whole)
<1>1. PICK l \in Nat : Row(Whole, l)
  BY WholeFacts
<1>2. Sliced(<<>>, Whole, 0, 0)
  BY EmptyRow DEF Sliced
<1>3. 0 \in Nat /\ 0 =< l
  OBVIOUS
<1> QED
  BY <1>1, <1>2, <1>3, SlicedIsPrefix

\* What the parser has been given when the call fails.
LEMMA ChunksSoFar ==
    ASSUME ControlInv, cl.stage \notin Ended, Reader = "chunks"
    PROVE  IsPrefix(cl.body, Whole)
<1>1. CallInv /\ cl.stage \in Before \cup Reading
  BY DEF ControlInv, CallInv, Stages
<1>2. PICK W, F, off, non, pos, ack, h, m, c, e, r, t : Pipe(W, F, off, non, pos, ack, h, m, c, e, r, t)
  BY DEF ControlInv
<1>3. PICK b : b = pos[r + 1]
  OBVIOUS
<1>4. ReadInv(b) /\ CreditInv(F, r, t, pos, ack)
  BY <1>2, <1>3 DEF Pipe
<1>5. CASE cl.body = <<>>
  BY <1>5, EmptyIsPrefix
<1>6. CASE cl.body # <<>>
  <2>1. cl.stage \in Reading /\ cl.stripped /\ b > Skip /\ Sliced(cl.body, Sent, Skip, b)
    BY <1>1, <1>4, <1>6 DEF ReadInv
  <2>2. b \in Nat /\ b =< Size
    <3>1. pos \in [Nat -> Nat] /\ r \in Nat /\ t \in Nat
      BY <1>2, LinkOrder DEF Pipe, FrameRow
    <3>2. pos[r + 1] =< pos[t + 1] /\ pos[t + 1] =< Size
      BY <1>4, <2>1 DEF CreditInv
    <3>3. srv.held \in Holdings(op, cl.call)
      BY <1>1, <2>1 DEF CallInv
    <3>4. srv.held.prefixed \in BOOLEAN
      BY <3>3, HoldingFacts
    <3>5. Size \in Nat
      BY <3>4, SentFacts
    <3> QED
      BY <1>3, <3>1, <3>2, <3>5
  <2>3. srv.held.prefixed \in BOOLEAN
    <3>1. srv.held \in Holdings(op, cl.call)
      BY <1>1, <2>1 DEF CallInv
    <3> QED
      BY <3>1, HoldingFacts
  <2>4. Skip =< b
    <3>1. Skip \in Nat
      BY <2>3, PrefixRow
    <3> QED
      BY <2>1, <2>2, <3>1
  <2> QED
    BY AfterPrefix, <2>4, <2>1, <2>2, <2>3
<1> QED
  BY <1>5, <1>6

\* A failed call.
LEMMA FailKeeps ==
    ASSUME ControlInv, cl.stage \notin Ended, cl.stage # "post", NEW how, how \in {"failed", "timeout"}, Fails(how),
           op' = op, srv'.held = srv.held, srv'.split = srv.split, DOMAIN srv' = ServerFields,
           how = "timeout" => srv'.phase = "over" /\ Reader = "data" /\ srv'.unacked = 0
    PROVE  ControlInv'
<1>1. CallInv
  BY DEF ControlInv
<1>2. PICK st : cl' = [cl EXCEPT !.stage = st] /\ st = (IF op = "register_once" /\ cl.call = 2 THEN "done" ELSE how)
  BY DEF Fails
<1>3. /\ DOMAIN cl' = ClientFields /\ cl'.stage = st /\ cl'.call = cl.call /\ cl'.body = cl.body /\ cl'.ip = cl.ip
      /\ cl'.status = cl.status /\ cl'.stripped = cl.stripped /\ cl'.netmap = cl.netmap /\ cl'.allowed = cl.allowed
  BY <1>1, <1>2 DEF CallInv, ClientFields
<1>4. Reader' = Reader /\ Whole' = Whole
  BY <1>3 DEF Reader, Whole
<1>5. cl.stage \in Before \cup Reading /\ (cl.call = 2 => cl.stage \in Reading)
  BY <1>1 DEF CallInv, Stages, Before, Reading, Ended
<1>6. st \in Ended /\ st \in {"done", "failed", "timeout"}
  BY <1>2 DEF Ended
<1>7. /\ cl'.stage \in Stages /\ cl'.call \in {1, 2}
      /\ cl'.call = 2 => op' \in {"session", "register_once"} /\ cl'.stage \in Reading \cup {"post"} \cup Ended
      /\ srv'.held = NoHoldings \/ \E k \in 1 .. cl'.call : srv'.held \in Holdings(op', k)
  BY <1>1, <1>3, <1>6 DEF CallInv, Stages
<1>8. cl'.stage \in Reading \cup {"done"} => srv'.held \in Holdings(op', cl'.call)
  <2>1. ASSUME st = "done"
        PROVE  srv.held \in Holdings(op, cl.call)
    <3>1. cl.call = 2
      BY <1>2, <2>1
    <3> QED
      BY <1>1, <1>5, <3>1 DEF CallInv
  <2>2. st \notin Reading
    BY <1>6 DEF Reading
  <2> QED
    BY <1>3, <2>1, <2>2
<1>9. cl'.ip \in {NoIp, OwnText} \/ (Reader' # "json" /\ "address" \in srv'.split)
  BY <1>1, <1>3, <1>4 DEF CallInv
<1>10. cl'.status # 0 => \E k \in DOMAIN srv'.held.block : srv'.held.block[k][3] = cl'.status
  BY <1>1, <1>3 DEF CallInv
<1>11. cl'.stage = "done" =>
          /\ cl'.call = 1 => cl'.body = Whole'
          /\ AsksMap(op', 1) /\ op' # "update_endpoints" /\ "address" \notin srv'.split => cl'.ip = OwnText
          /\ op' = "fetch_peers" => \E x \in Netmaps : cl'.netmap = {x} /\ cl'.allowed = AllowedSrcs(x.acl, cl'.ip)
  <2> SUFFICES ASSUME st = "done"
               PROVE  cl.call # 1 /\ ~AsksMap(op, 1) /\ op # "fetch_peers"
    BY <1>3
  <2>1. op = "register_once" /\ cl.call = 2
    BY <1>2
  <2> QED
    BY <2>1 DEF AsksMap
<1>12. cl'.stage = "failed" /\ Reader' = "chunks" /\ "prefix" \notin srv'.split => IsPrefix(cl'.body, Whole')
  BY <1>3, <1>4, ChunksSoFar
<1>13. NoStall'
  BY <1>2, <1>3, <1>4 DEF NoStall
<1>14. CallInv'
  BY <1>3, <1>7, <1>8, <1>9, <1>10, <1>11, <1>12, <1>13, Zenon DEF CallInv
<1>15. cl'.stage \in Ended
  BY <1>3, <1>6
<1> QED
  BY <1>14, <1>15 DEF ControlInv

\* The connection breaks.
LEMMA ClosedKeeps ==
    ASSUME ControlInv, Closed
    PROVE  ControlInv'
<1>1. Waiting /\ Fails("failed") /\ op' = op /\ srv' = [srv EXCEPT !.extras = @ + 1] /\ DOMAIN srv = ServerFields
  BY DEF Closed, ControlInv, CallInv
<1>2. srv'.held = srv.held /\ srv'.split = srv.split /\ DOMAIN srv' = ServerFields
  BY <1>1 DEF ServerFields
<1>3. cl.stage \notin Ended /\ cl.stage # "post"
  BY <1>1, WaitingFacts
<1> QED
  BY <1>1, <1>2, <1>3, FailKeeps

\* pull: a record opens with the counter the server sealed it with, whatever
\* the records before it were.
LEMMA PullKeeps ==
    ASSUME ControlInv, Pull
    PROVE  ControlInv'
<1>1. CASE BaseType = "record"
  BY <1>1, PullStep
<1>2. CASE BaseType # "record"
  <2>1. InH2 /\ Fails("failed") /\ op' = op /\ srv' = srv /\ DOMAIN srv = ServerFields
    BY <1>2 DEF Pull, ControlInv, CallInv
  <2>2. cl.stage \notin Ended /\ cl.stage # "post"
    BY <2>1 DEF InH2, Ended
  <2> QED
    BY <2>1, <2>2, FailKeeps
<1> QED
  BY <1>1, <1>2

\* All that was sent is not enough: it holds no whole frame.
LEMMA DrainedWire ==
    ASSUME NEW W, NEW F, NEW off, NEW non, NEW m, NEW c, NEW e, NEW r, NEW t,
           Link(W, F, off, non, c, m, c, e, r, t), ~Enough(Len(net)), cl.stage # "upgrade"
    PROVE  c = e
<1>1. /\ m \in Nat /\ c \in Nat /\ e \in Nat /\ c =< e /\ Sliced(rxc, W, c, m) /\ Sliced(net, W, m, e)
      /\ BaseRow(W, c, e, off, non, F, t)
  BY DEF Link
<1>2. PICK l : l = Len(net)
  OBVIOUS
<1>3. l = e - m /\ l \in Nat /\ m + l = e /\ l \in 0 .. e - m
  <2>1. Row(net, e - m)
    BY <1>1 DEF Sliced
  <2>2. l = e - m /\ l \in Nat
    BY <1>2, <2>1, RowFacts
  <2> QED
    BY <1>1, <2>2
<1>4. PICK rx : rx = rxc \o SubSeq(net, 1, l)
  OBVIOUS
<1>5. Sliced(rx, W, c, e)
  <2>1. PICK u : u = SubSeq(net, 1, l)
    OBVIOUS
  <2>2. Sliced(u, W, m, m + l)
    BY <1>1, <1>3, <2>1, SlicedTake, Zenon
  <2>3. Sliced(u, W, m, e)
    BY <1>3, <2>2
  <2>4. Sliced(rxc \o u, W, c, e)
    BY <1>1, <2>3, SlicedJoin, Zenon
  <2> QED
    BY <1>4, <2>1, <2>4, Zenon
<1>6. ~(Len(rx) >= 2 /\ Len(rx) >= 2 + rx[2][2])
  BY <1>2, <1>4, Zenon DEF Enough
<1> HIDE <1>4
<1> SUFFICES ASSUME c < e
             PROVE  FALSE
  BY <1>1
<1>7. BaseAt(W, c + 1, e, off, non, F, t)
  <2>1. c + 1 \in c + 1 .. e
    BY <1>1
  <2> QED
    BY <1>1, <2>1 DEF BaseRow
<1>8. PICK n : n = W[c + 2][2]
  OBVIOUS
<1>9. n \in Nat /\ c + 2 + n =< e
  <2>1. (c + 1) + 1 = c + 2
    BY <1>1
  <2> QED
    BY <1>1, <1>7, <1>8, <2>1 DEF BaseAt
<1>10. Row(rx, e - c) /\ Len(rx) = e - c
  BY <1>5, RowFacts DEF Sliced
<1>11. 2 \in 1 .. e - c /\ e - c >= 2 + n
  BY <1>1, <1>9
<1>12. rx[2][2] = n
  BY <1>5, <1>8, <1>11 DEF Sliced
<1> QED
  BY <1>6, <1>10, <1>11, <1>12

\* The upgrade never waits for more than the server has sent.
LEMMA UpgradeAnswered ==
    ASSUME NEW W, NEW F, NEW off, NEW non, NEW pos, NEW ack, NEW h, NEW m, NEW c, NEW e, NEW r, NEW t,
           Pipe(W, F, off, non, pos, ack, h, m, c, e, r, t), Waiting, ~Enough(Len(net)), cl.stage = "upgrade"
    PROVE  FALSE
<1>1. /\ h \in Nat /\ m \in Nat /\ e \in Nat /\ c \in Nat /\ Sliced(rxc, W, h, m) /\ Sliced(net, W, m, e)
  BY DEF Pipe, Link
<1>2. HeadEnds = {} /\ Len(rxc) =< HeadMax
  BY DEF Waiting, InH2
<1>3. Row(net, e - m) /\ Row(rxc, m - h)
  BY <1>1 DEF Sliced
<1>4. Len(net) = e - m /\ e - m \in Nat /\ Len(rxc) = m - h /\ DOMAIN rxc = 1 .. m - h
  BY <1>3, RowFacts
<1>5. e = m
  BY <1>1, <1>4 DEF Enough
<1>6. ASSUME NEW k \in h + 1 .. e
      PROVE  W[k] # UpgradeEnd
  <2>1. k - h \in 1 .. m - h /\ h + (k - h) = k
    BY <1>1, <1>5
  <2>2. rxc[k - h] = W[k]
    BY <1>1, <2>1 DEF Sliced
  <2> QED
    BY <1>2, <1>4, <2>1, <2>2 DEF HeadEnds
<1>7. HeadMax \in Nat
  BY ControlAssumption
<1>8. CASE W[h + 2] = UpgradeEnd /\ c = h + 2 /\ c < e
  <2>1. h + 2 \in h + 1 .. e
    BY <1>1, <1>8
  <2> QED
    BY <1>6, <1>8, <2>1
<1>9. CASE e - h > HeadMax
  BY <1>2, <1>4, <1>5, <1>7, <1>9
<1>10. CASE \E k \in h + 1 .. e : W[k] = UpgradeEnd
  BY <1>6, <1>10
<1> QED
  BY <1>8, <1>9, <1>10 DEF Pipe, StageInv, Greeted

\* With everything read and nothing kept back, a whole frame is there or
\* nothing is left of the plaintext.
LEMMA DrainedPlain ==
    ASSUME NEW W, NEW F, NEW off, NEW non, NEW pos, NEW ack, NEW h, NEW m, NEW e, NEW r, NEW t, NEW a,
           Link(W, F, off, non, h, m, e, e, r, t), FrameRow(F, r, t, pos, ack, a),
           srv.pend = <<>>, ~PlainReady
    PROVE  /\ cl.stage # "early" /\ Aligned(F, r, t) => r = t
           /\ cl.stage = "early" => ~Start(F, r, t, ack)
           /\ ~(cl.stage = "settings" /\ SettingsAt(F, r + 1, t))
<1>1. /\ e \in Nat /\ r \in Nat /\ t \in Nat /\ off \in [Nat -> Nat]
      /\ Sliced(rxh, F, r, off[e + 1]) /\ Sliced(srv.pend, F, off[e + 1], t)
  BY DEF Link
<1>2. off[e + 1] = t
  <2>1. PICK o, w : o = off[e + 1] /\ w = srv.pend
    OBVIOUS
  <2>2. o \in Nat
    BY <1>1, <2>1
  <2>3. Row(w, t - o) /\ w = <<>>
    BY <1>1, <2>1 DEF Sliced
  <2>4. t - o \in Nat /\ Len(w) = t - o
    BY <2>3, RowFacts
  <2>5. Row(<<>>, 0)
    BY EmptyRow
  <2>6. Len(w) = 0
    BY <2>3, <2>5, RowFacts
  <2> QED
    BY <1>1, <2>1, <2>2, <2>4, <2>6
<1>3. Row(rxh, t - r) /\ \A i \in 1 .. t - r : rxh[i] = F[r + i]
  BY <1>1, <1>2 DEF Sliced
<1>4. Len(rxh) = t - r /\ t - r \in Nat
  BY <1>3, RowFacts
\* A frame that starts the plaintext is all there.
<1>5. ASSUME r < t, IsHead(F, r + 1)
      PROVE  FALSE
  <2>1. PICK n \in Nat : Took(F, r, n, t, pos, ack, a)
    BY <1>1, <1>5, TookFacts
  <2>2. n \in Nat /\ r + 2 + n =< t /\ F[r + 1][2] = n /\ F[r + 1][1] = "h1"
    BY <2>1 DEF Took, IsHead
  <2>3. 1 \in 1 .. t - r /\ t - r >= 2 + n /\ t - r >= 2
    <3>1. r \in Nat /\ t \in Nat /\ n \in Nat /\ r + 2 + n =< t
      BY <1>1, <2>2
    <3> QED
      BY <3>1
  <2>4. rxh[1] = F[r + 1]
    BY <1>3, <2>3
  <2>5. Len(rxh) >= 2 /\ Len(rxh) >= 2 + rxh[1][2] /\ ~IsEarly
    BY <1>4, <2>2, <2>3, <2>4 DEF IsEarly
  <2> QED
    BY <2>5 DEF PlainReady
<1>6. ASSUME cl.stage = "early", EarlyAt(F, r + 1, ack), SettingsAt(F, r + 10, t)
      PROVE  FALSE
  <2>1. r + 10 =< t /\ F[r + 1] = <<"e1">> /\ F[r + 2] = <<"e2", 7>>
    <3>1. (r + 1) + 1 = r + 2
      BY <1>1
    <3> QED
      BY <1>6, <3>1 DEF EarlyAt, SettingsAt
  <2>2. 1 \in 1 .. t - r /\ 2 \in 1 .. t - r /\ t - r >= 9
    BY <1>1, <2>1
  <2>3. rxh[1] = <<"e1">> /\ rxh[2] = <<"e2", 7>>
    BY <1>3, <2>1, <2>2
  <2>4. rxh[1][1] = "e1" /\ rxh[2][2] = 7
    BY <2>3
  <2>5. Len(rxh) >= 2 /\ Len(rxh) >= 2 + rxh[2][2] /\ IsEarly
    BY <1>4, <2>2, <2>4 DEF IsEarly
  <2> QED
    BY <1>6, <2>5 DEF PlainReady
<1>7. SettingsAt(F, r + 1, t) => r < t /\ IsHead(F, r + 1)
  BY <1>1 DEF SettingsAt
<1>8. Aligned(F, r, t) /\ r # t => FALSE
  BY <1>1, <1>4, <1>5 DEF Aligned
<1> QED
  BY <1>5, <1>6, <1>7, <1>8 DEF Start

\* When a read times out only the long poll waits, with everything said.
LEMMA TimeoutIsEnd ==
    ASSUME ControlInv, Timeout
    PROVE  srv.phase = "over" /\ Reader = "data" /\ srv.unacked = 0
<1>1. /\ CallInv /\ Waiting /\ ~Enough(Len(net)) /\ srv.pend = <<>>
      /\ \/ srv.phase \in {"idle", "over"}
         \/ srv.phase = "data" /\ (srv.swin = 0 \/ srv.cwin = 0)
  BY DEF ControlInv, Timeout
<1>2. PICK W, F, off, non, pos, ack, h, m, c, e, r, t : Pipe(W, F, off, non, pos, ack, h, m, c, e, r, t)
  BY <1>1, WaitingFacts DEF ControlInv
<1>3. cl.stage # "upgrade"
  BY <1>1, <1>2, UpgradeAnswered
<1>4. Link(W, F, off, non, c, m, c, e, r, t) /\ StageInv(W, F, ack, h, c, e, r, t)
  BY <1>2, <1>3 DEF Pipe, StageInv
<1>5. c = e
  BY <1>1, <1>3, <1>4, DrainedWire
<1>6. cl.stage # "handshake"
  <2>1. e \in Nat
    BY <1>4 DEF Link
  <2> QED
    BY <1>4, <1>5, <2>1 DEF StageInv, Greeted
<1>7. ~PlainReady
  BY <1>1, <1>3, <1>6 DEF Waiting
<1>8. /\ cl.stage # "early" /\ Aligned(F, r, t) => r = t
      /\ cl.stage = "early" => ~Start(F, r, t, ack)
      /\ ~(cl.stage = "settings" /\ SettingsAt(F, r + 1, t))
  <2>1. PICK a : a = TheAnswer
    OBVIOUS
  <2>2. FrameRow(F, r, t, pos, ack, a) /\ Link(W, F, off, non, e, m, e, e, r, t)
    BY <1>2, <1>4, <1>5, <2>1 DEF Pipe
  <2> QED
    BY <1>1, <1>7, <2>2, DrainedPlain
<1>9. cl.stage \in Reading /\ r = t
  <2>1. cl.stage # "early" /\ cl.stage # "settings"
    BY <1>4, <1>8 DEF StageInv
  <2>2. cl.stage \in Reading
    BY <1>1, <1>3, <1>6, <2>1, WaitingFacts DEF Reading
  <2> QED
    BY <1>4, <1>8, <2>1, <2>2 DEF StageInv
<1>10. /\ r \in Nat /\ pos \in [Nat -> Nat] /\ ack \in [Nat -> Nat] /\ CreditInv(F, r, r, pos, ack)
  BY <1>2, <1>9, LinkOrder DEF Pipe, FrameRow
<1>11. pos[r + 1] \in Nat /\ ack[r + 1] \in Nat
  BY <1>10
<1>12. srv.unacked = 0
  BY <1>9, <1>10, <1>11 DEF CreditInv, Reading
<1>13. srv.swin # 0 /\ srv.cwin # 0
  <2>1. /\ StreamWindow \in Nat /\ StreamWindow # 0 /\ ConnWindow \in Nat /\ ConnWindow # 0
    BY ControlAssumption
  <2>2. /\ srv.swin = StreamWindow - (pos[r + 1] - pos[r + 1])
        /\ srv.cwin = ConnWindow - (pos[r + 1] - pos[r + 1])
    BY <1>9, <1>10 DEF CreditInv
  <2> QED
    BY <1>11, <2>1, <2>2
<1>14. srv.phase = "over"
  BY <1>1, <1>9, <1>10, <1>13 DEF CreditInv
<1>15. ~\E k \in r + 1 .. r : IsEnd(F, k)
  BY <1>10
<1>16. Reader = "data"
  BY <1>9, <1>10, <1>14, <1>15, Zenon DEF CreditInv
<1> QED
  BY <1>12, <1>14, <1>16

\* A read times out only when the server has nothing left to say: the credit
\* that was returned lets it send the whole answer.
LEMMA TimeoutKeeps ==
    ASSUME ControlInv, Timeout
    PROVE  ControlInv'
<1>1. Waiting /\ Fails("timeout") /\ op' = op /\ srv' = srv /\ DOMAIN srv = ServerFields
  BY DEF Timeout, ControlInv, CallInv
<1>2. cl.stage \notin Ended /\ cl.stage # "post"
  BY <1>1, WaitingFacts
<1>3. srv'.phase = "over" /\ Reader = "data" /\ srv'.unacked = 0
  BY <1>1, TimeoutIsEnd
<1> QED
  BY <1>1, <1>2, <1>3, FailKeeps

\* A step of a call that goes on.
LEMMA CallGoesOn ==
    ASSUME CallInv, op' = op, DOMAIN cl' = ClientFields, DOMAIN srv' = ServerFields,
           cl'.call = cl.call, cl'.stage \in Before \cup Reading, cl.call = 2 => cl'.stage \in Reading \cup {"post"},
           srv'.held = srv.held, srv'.split = srv.split,
           cl'.stage \in Reading => srv.held \in Holdings(op, cl.call),
           cl'.ip \in {NoIp, OwnText} \/ (Reader # "json" /\ "address" \in srv.split),
           cl'.status # 0 => \E k \in DOMAIN srv.held.block : srv.held.block[k][3] = cl'.status
    PROVE  CallInv'
<1>1. Reader' = Reader
  BY SameCall
<1>2. /\ cl'.stage \in Stages /\ cl'.call \in {1, 2}
      /\ cl'.stage # "done" /\ cl'.stage # "failed" /\ cl'.stage # "timeout"
      /\ cl'.stage \in Reading \cup {"done"} => cl'.stage \in Reading
  BY DEF CallInv, Stages, Before, Reading
<1>3. /\ cl'.call = 2 => op' \in {"session", "register_once"} /\ cl'.stage \in Reading \cup {"post"} \cup Ended
      /\ srv'.held = NoHoldings \/ \E k \in 1 .. cl'.call : srv'.held \in Holdings(op', k)
      /\ cl'.stage \in Reading \cup {"done"} => srv'.held \in Holdings(op', cl'.call)
  BY <1>2 DEF CallInv
<1>4. /\ cl'.ip \in {NoIp, OwnText} \/ (Reader' # "json" /\ "address" \in srv'.split)
      /\ cl'.status # 0 => \E k \in DOMAIN srv'.held.block : srv'.held.block[k][3] = cl'.status
  BY <1>1
<1>5. NoStall'
  BY <1>2 DEF NoStall
<1> QED
  BY <1>2, <1>3, <1>4, <1>5, Zenon DEF CallInv

\* The stages up to the request of a call.
LEMMA BeforeFacts ==
    ASSUME ControlInv, cl.stage \in Before
    PROVE  /\ CallInv /\ DOMAIN cl = ClientFields /\ DOMAIN srv = ServerFields
           /\ cl.stage \notin Ended /\ cl.stage \notin Reading
           /\ cl.ip \in {NoIp, OwnText}
           /\ Reader = "chunks" => cl.body = <<>> /\ ~cl.stripped
           /\ cl.stage # "post" => cl.call # 2
<1>1. CallInv /\ cl.stage \notin Ended /\ cl.stage \notin Reading
  BY DEF ControlInv, Before, Ended, Reading
<1>2. PICK W, F, off, non, pos, ack, h, m, c, e, r, t : Pipe(W, F, off, non, pos, ack, h, m, c, e, r, t)
  BY <1>1 DEF ControlInv
<1>3. PICK b : b = pos[r + 1]
  OBVIOUS
<1>4. ReadInv(b)
  BY <1>2, <1>3 DEF Pipe
<1>5. cl.stage # "post" => cl.call # 2
  BY <1>1 DEF CallInv, Before, Reading, Ended
<1> QED
  BY <1>1, <1>4, <1>5 DEF ReadInv, CallInv

\* A step to another of these stages.
LEMMA BeforeGoesOn ==
    ASSUME ControlInv, cl.stage \in Before, op' = op,
           NEW st, st \in Before, NEW ip, ip \in {NoIp, OwnText}, cl' = [cl EXCEPT !.stage = st, !.ip = ip],
           cl.stage # "post" \/ st = "post",
           DOMAIN srv' = ServerFields, srv'.held = srv.held, srv'.split = srv.split
    PROVE  /\ CallInv' /\ TheAnswer' = TheAnswer /\ cl'.stage = st
           /\ \A b : ReadInv(b)'
<1>1. CallInv /\ DOMAIN cl = ClientFields
  BY BeforeFacts
<1>2. /\ DOMAIN cl' = ClientFields /\ cl'.stage = st /\ cl'.ip = ip /\ cl'.call = cl.call /\ cl'.status = cl.status
      /\ cl'.body = cl.body /\ cl'.stripped = cl.stripped
  BY <1>1 DEF ClientFields
<1>3. cl'.stage \in Before /\ cl'.stage \notin Reading /\ cl'.stage # "hold"
  BY <1>2 DEF Before, Reading
<1>4. TheAnswer' = TheAnswer /\ Reader' = Reader
  BY <1>2, SameCall
<1>5. CallInv'
  <2>1. cl.call = 2 => cl'.stage \in Reading \cup {"post"}
    BY <1>2, BeforeFacts
  <2>2. cl'.status # 0 => \E k \in DOMAIN srv.held.block : srv.held.block[k][3] = cl'.status
    BY <1>1, <1>2 DEF CallInv
  <2> QED
    BY <1>1, <1>2, <1>3, <2>1, <2>2, CallGoesOn
<1>6. ASSUME NEW b
      PROVE  ReadInv(b)'
  BY <1>2, <1>3, <1>4, BeforeFacts DEF ReadInv
<1> QED
  BY <1>2, <1>4, <1>5, <1>6

-----------------------------------------------------------------------------
\* The stages before the request.

\* The frames of an answer that did not change.
LEMMA RowSame ==
    ASSUME NEW F, NEW r, NEW t, NEW pos, NEW ack, FrameRow(F, r, t, pos, ack, TheAnswer), TheAnswer' = TheAnswer
    PROVE  FrameRow(F, r, t, pos, ack, TheAnswer)'
<1>1. PICK a : a = TheAnswer
  OBVIOUS
<1>2. FrameRow(F, r, t, pos, ack, a) /\ TheAnswer' = a
  BY <1>1
<1> QED
  BY <1>2

\* The credit before the request of a call.
LEMMA CreditBefore ==
    ASSUME NEW F, NEW r, NEW t, NEW pos, NEW ack,
           cl'.stage \in Before, srv'.cwin = ConnWindow,
           cl'.stage # "post" => srv'.phase = "idle", srv'.phase \in {"idle", "over"},
           cl'.stage \notin {"upgrade", "handshake"} => srv'.unacked = ack[t + 1] - ack[r + 1]
    PROVE  CreditInv(F, r, t, pos, ack)'
<1>1. cl'.stage \notin Reading
  BY DEF Before, Reading
<1> QED
  BY <1>1 DEF CreditInv

\* connect_and_upgrade keeps the bytes behind the header.
LEMMA UpgradeKeeps ==
    ASSUME ControlInv, Upgrade
    PROVE  ControlInv'
<1>1. /\ cl.stage = "upgrade" /\ ~Waiting /\ op' = op /\ net' = net /\ rxh' = rxh /\ nonce' = nonce /\ srv' = srv
      /\ cl.stage \notin Ended /\ cl.stage \in Before /\ cl.stage # "post"
  BY DEF Upgrade, Before, Ended
<1>2. CallInv /\ DOMAIN srv = ServerFields /\ DOMAIN cl = ClientFields /\ cl.ip \in {NoIp, OwnText}
  BY <1>1, BeforeFacts
<1>3. CASE ~(HeadEnds # {} /\ rxc[1] = <<"u1", 101>>)
  <2>1. Fails("failed")
    BY <1>3, Zenon DEF Upgrade
  <2> QED
    BY <1>1, <1>2, <2>1, FailKeeps
<1>4. CASE HeadEnds # {} /\ rxc[1] = <<"u1", 101>>
  <2>1. rxc' = Drop(rxc, Min(HeadEnds)) /\ cl' = [cl EXCEPT !.stage = "handshake"]
    BY <1>4, Zenon DEF Upgrade
  <2>2. PICK W, F, off, non, pos, ack, h, m, c, e, r, t : Pipe(W, F, off, non, pos, ack, h, m, c, e, r, t)
    BY <1>1 DEF ControlInv
  <2>3. /\ Link(W, F, off, non, h, m, c, e, r, t) /\ FrameRow(F, r, t, pos, ack, TheAnswer)
        /\ StageInv(W, F, ack, h, c, e, r, t) /\ CreditInv(F, r, t, pos, ack)
    BY <2>2 DEF Pipe
  <2>4. h \in Nat /\ m \in Nat /\ c \in Nat /\ e \in Nat /\ Sliced(rxc, W, h, m) /\ Sliced(net, W, m, e)
    BY <2>3 DEF Link
  <2>5. Row(rxc, m - h) /\ \A i \in 1 .. m - h : rxc[i] = W[h + i]
    BY <2>4 DEF Sliced
  <2>6. DOMAIN rxc = 1 .. m - h
    BY <2>5, RowFacts
  <2>7. HeadEnds \subseteq 1 .. m - h /\ HeadEnds \subseteq Nat
    BY <2>6 DEF HeadEnds
  <2>8. 1 \in 1 .. m - h
    <3>1. HeadEnds # {}
      BY <1>4
    <3>2. PICK y : y \in HeadEnds
      BY <3>1
    <3>3. y \in 1 .. m - h
      BY <2>7, <3>2
    <3> QED
      BY <2>4, <3>3
  <2>9. W[h + 1] = <<"u1", 101>>
    BY <1>4, <2>5, <2>8
  <2>10. W[h + 2] = UpgradeEnd /\ c = h + 2 /\ Greeted(W, c, e, F, r, t, ack)
    BY <1>1, <2>3, <2>9 DEF StageInv
  <2>11. 1 \notin HeadEnds
    <3>1. <<"u1", 101>> # <<"u2">>
      <4>1. <<"u1", 101>>[1] # <<"u2">>[1]
        OBVIOUS
      <4> QED
        BY <4>1
    <3> QED
      BY <1>4, <3>1 DEF HeadEnds, UpgradeEnd
  <2>12. \A y \in HeadEnds : 2 =< y
    BY <2>7, <2>11
  <2>13. 2 \in 1 .. m - h
    <3>1. HeadEnds # {}
      BY <1>4
    <3>2. PICK y : y \in HeadEnds
      BY <3>1
    <3>3. y \in 1 .. m - h /\ 2 =< y
      BY <2>7, <2>12, <3>2
    <3> QED
      BY <2>4, <3>3
  <2>14. 2 \in HeadEnds
    BY <2>5, <2>6, <2>10, <2>13 DEF HeadEnds
  <2>15. Min(HeadEnds) = 2
    BY <2>7, <2>12, <2>14, MinIs
  <2>16. Sliced(rxc', W, c, m)
    <3>1. 2 \in 0 .. m - h
      BY <2>13
    <3>2. Sliced(Drop(rxc, 2), W, h + 2, m)
      BY <2>4, <3>1, SlicedDrop, Zenon
    <3> QED
      BY <2>1, <2>10, <2>15, <3>2
  <2>17. Link(W, F, off, non, c, m, c, e, r, t)'
    BY <1>1, <2>3, <2>16 DEF Link
  <2>18. cl' = [cl EXCEPT !.stage = "handshake", !.ip = cl.ip]
    BY <1>2, <2>1 DEF ClientFields
  <2>19. CallInv' /\ TheAnswer' = TheAnswer /\ cl'.stage = "handshake" /\ ReadInv(pos[r + 1])'
    <3>1. "handshake" \in Before
      BY DEF Before
    <3>2. CallInv' /\ TheAnswer' = TheAnswer /\ cl'.stage = "handshake" /\ \A b : ReadInv(b)'
      BY <1>1, <1>2, <2>18, <3>1, BeforeGoesOn
    <3> QED
      BY <3>2
  <2>20. FrameRow(F, r, t, pos, ack, TheAnswer)'
    BY <2>3, <2>19, RowSame
  <2>21. CreditInv(F, r, t, pos, ack)'
    <3>1. srv'.cwin = ConnWindow /\ srv'.phase = "idle"
      BY <1>1, <2>3 DEF CreditInv
    <3>2. cl'.stage \in Before
      BY <2>19 DEF Before
    <3> QED
      BY <2>19, <3>1, <3>2, CreditBefore
  <2>22. StageInv(W, F, ack, c, c, e, r, t)'
    <3>1. Greeted(W, c, e, F, r, t, ack)'
      BY <1>1, <2>10 DEF Greeted
    <3>2. OnlyExtras(F, r, t) /\ nonce' = 0
      BY <1>1, <2>3 DEF StageInv
    <3> QED
      BY <2>19, <3>1, <3>2 DEF StageInv, Reading
  <2>23. Pipe(W, F, off, non, pos, ack, c, m, c, e, r, t)'
    BY <2>17, <2>19, <2>20, <2>21, <2>22 DEF Pipe
  <2> QED
    BY <2>19, <2>23 DEF ControlInv
<1> QED
  BY <1>3, <1>4

\* The Noise response, or another frame in its place.
LEMMA HandshakeKeeps ==
    ASSUME ControlInv, Handshake
    PROVE  ControlInv'
<1>1. /\ cl.stage = "handshake" /\ BaseReady /\ op' = op /\ net' = net /\ rxh' = rxh /\ srv' = srv
      /\ cl.stage \notin Ended /\ cl.stage \in Before /\ cl.stage # "post"
  BY DEF Handshake, Before, Ended
<1>2. CallInv /\ DOMAIN srv = ServerFields /\ DOMAIN cl = ClientFields /\ cl.ip \in {NoIp, OwnText}
  BY <1>1, BeforeFacts
<1>3. CASE BaseType # "response"
  <2>1. Fails("failed")
    BY <1>3 DEF Handshake
  <2> QED
    BY <1>1, <1>2, <2>1, FailKeeps
<1>4. CASE BaseType = "response"
  <2>1. cl' = [cl EXCEPT !.stage = "early"]
    BY <1>4 DEF Handshake
  <2>2. PICK W, F, off, non, pos, ack, h, m, c, e, r, t : Pipe(W, F, off, non, pos, ack, h, m, c, e, r, t)
    BY <1>1 DEF ControlInv
  <2>3. /\ h = c /\ nonce = 0
    BY <1>1, <2>2 DEF Pipe, StageInv
  <2>4. /\ Link(W, F, off, non, c, m, c, e, r, t) /\ FrameRow(F, r, t, pos, ack, TheAnswer)
        /\ StageInv(W, F, ack, c, c, e, r, t) /\ CreditInv(F, r, t, pos, ack)
    BY <2>2, <2>3 DEF Pipe
  <2>5. PICK c2 : Link(W, F, off, non, c2, m, c2, e, r, t)'
    BY <1>4, <2>3, <2>4, LinkHandshake
  <2>6. W[c + 1][2] = "response"
    BY <1>1, <1>4, <2>4, BaseHead
  <2>7. Start(F, r, t, ack) /\ srv.unacked = ack[t + 1] - ack[r + 1] /\ OnlyExtras(F, r, t)
    BY <1>1, <2>4, <2>6 DEF StageInv, Greeted
  <2>18. cl' = [cl EXCEPT !.stage = "early", !.ip = cl.ip]
    BY <1>2, <2>1 DEF ClientFields
  <2>19. CallInv' /\ TheAnswer' = TheAnswer /\ cl'.stage = "early" /\ ReadInv(pos[r + 1])'
    <3>1. "early" \in Before
      BY DEF Before
    <3>2. CallInv' /\ TheAnswer' = TheAnswer /\ cl'.stage = "early" /\ \A b : ReadInv(b)'
      BY <1>1, <1>2, <2>18, <3>1, BeforeGoesOn
    <3> QED
      BY <3>2
  <2>20. FrameRow(F, r, t, pos, ack, TheAnswer)'
    BY <2>4, <2>19, RowSame
  <2>21. CreditInv(F, r, t, pos, ack)'
    <3>1. srv'.cwin = ConnWindow /\ srv'.phase = "idle" /\ srv'.unacked = ack[t + 1] - ack[r + 1]
      BY <1>1, <2>4, <2>7 DEF CreditInv
    <3>2. cl'.stage \in Before
      BY <2>19 DEF Before
    <3> QED
      BY <2>19, <3>1, <3>2, CreditBefore
  <2>22. StageInv(W, F, ack, c2, c2, e, r, t)'
    BY <2>7, <2>19 DEF StageInv, Reading
  <2>23. Pipe(W, F, off, non, pos, ack, c2, m, c2, e, r, t)'
    BY <2>5, <2>19, <2>20, <2>21, <2>22 DEF Pipe
  <2> QED
    BY <2>19, <2>23 DEF ControlInv
<1> QED
  BY <1>3, <1>4

\* What the client finds first in the plaintext: the early payload or the
\* SETTINGS of the server.
LEMMA EarlyRead ==
    ASSUME NEW W, NEW F, NEW off, NEW non, NEW h, NEW m, NEW c, NEW e, NEW r, NEW t, NEW ack,
           Link(W, F, off, non, h, m, c, e, r, t), Start(F, r, t, ack), cl.stage = "early", PlainReady
    PROVE  \/ ~IsEarly /\ SettingsAt(F, r + 1, t)
           \/ /\ IsEarly /\ SettingsAt(F, r + 10, t) /\ ack[r + 10] = ack[r + 1]
              /\ 2 + rxh[2][2] = 9 /\ r + 9 =< off[c + 1]
              /\ Row(EarlyJson, 7) /\ \A i \in 1 .. 7 : EarlyJson[i] = EarlyText[i]
<1>1. r \in Nat /\ off[c + 1] \in Nat /\ r =< off[c + 1] /\ off[c + 1] =< t /\ t \in Nat
  BY LinkOrder
<1>2. PICK l : l = off[c + 1]
  OBVIOUS
<1>3. Sliced(rxh, F, r, l)
  BY <1>2 DEF Link
<1>4. Row(rxh, l - r) /\ \A i \in 1 .. l - r : rxh[i] = F[r + i]
  BY <1>3 DEF Sliced
<1>5. Len(rxh) = l - r
  BY <1>4, RowFacts
<1>6. l - r >= 2 /\ (IsEarly => l - r >= 2 + rxh[2][2])
  BY <1>5 DEF PlainReady
<1>7. l \in Nat /\ r =< l /\ l =< t
  BY <1>1, <1>2
<1>8. rxh[1] = F[r + 1] /\ rxh[2] = F[r + 2]
  <2>1. 1 \in 1 .. l - r /\ 2 \in 1 .. l - r
    BY <1>1, <1>6, <1>7
  <2> QED
    BY <1>4, <2>1
<1>9. CASE SettingsAt(F, r + 1, t)
  <2>1. F[r + 1][1] = "h1"
    BY <1>9 DEF SettingsAt, IsHead
  <2>2. rxh[1][1] = "h1"
    BY <1>8, <2>1
  <2>3. ~IsEarly
    BY <2>2 DEF IsEarly
  <2> QED
    BY <1>9, <2>3
<1>10. CASE EarlyAt(F, r + 1, ack) /\ SettingsAt(F, r + 10, t)
  <2>1. /\ ack[r + 1 + 9] = ack[r + 1] /\ F[r + 1] = <<"e1">> /\ F[r + 1 + 1] = <<"e2", 7>>
        /\ \A i \in r + 1 + 2 .. r + 1 + 8 : F[i] = EarlyText[i - (r + 1 + 1)]
    BY <1>10 DEF EarlyAt
  <2>2. r + 1 + 1 = r + 2 /\ r + 1 + 2 = r + 3 /\ r + 1 + 8 = r + 9 /\ r + 1 + 9 = r + 10
    BY <1>1
  <2>3. rxh[1] = <<"e1">> /\ rxh[2] = <<"e2", 7>>
    BY <1>8, <2>1, <2>2
  <2>4. rxh[1][1] = "e1" /\ rxh[2][2] = 7
    BY <2>3
  <2>5. IsEarly
    BY <2>4 DEF IsEarly
  <2>6. 2 + rxh[2][2] = 9
    BY <2>4
  <2>7. l - r >= 9
    BY <1>6, <2>5, <2>6
  <2>8. Sliced(SubSeq(rxh, 3, 9), rxh, 2, 9)
    <3>1. 2 \in 0 .. l - r /\ 9 \in 2 .. l - r
      BY <1>1, <1>7, <2>7
    <3>2. Sliced(SubSeq(rxh, 2 + 1, 9), rxh, 2, 9)
      BY <1>4, <3>1, RowSlice
    <3> QED
      BY <3>2
  <2>9. EarlyJson = SubSeq(rxh, 3, 9)
    BY <2>6 DEF EarlyJson
  <2>10. Row(EarlyJson, 7) /\ \A i \in 1 .. 7 : EarlyJson[i] = rxh[2 + i]
    BY <2>8, <2>9 DEF Sliced
  <2>11. \A i \in 1 .. 7 : EarlyJson[i] = EarlyText[i]
    <3>1. SUFFICES ASSUME NEW i \in 1 .. 7 PROVE EarlyJson[i] = EarlyText[i]
      OBVIOUS
    <3>2. 2 + i \in 1 .. l - r /\ r + (2 + i) \in r + 1 + 2 .. r + 1 + 8 /\ (r + (2 + i)) - (r + 1 + 1) = i
      BY <1>1, <1>7, <2>7
    <3>3. rxh[2 + i] = F[r + (2 + i)]
      BY <1>4, <3>2
    <3>4. F[r + (2 + i)] = EarlyText[(r + (2 + i)) - (r + 1 + 1)]
      BY <2>1, <3>2
    <3> QED
      BY <2>10, <3>2, <3>3, <3>4
  <2>12. r + 9 =< off[c + 1]
    BY <1>1, <1>2, <2>7
  <2> QED
    BY <1>10, <2>1, <2>2, <2>5, <2>6, <2>10, <2>11, <2>12
<1> QED
  BY <1>9, <1>10 DEF Start

\* consume_early_payload.
LEMMA ConsumeEarlyKeeps ==
    ASSUME ControlInv, ConsumeEarly
    PROVE  ControlInv'
<1>1. /\ cl.stage = "early" /\ PlainReady /\ op' = op /\ net' = net /\ rxc' = rxc /\ nonce' = nonce /\ srv' = srv
      /\ cl.stage \notin Ended /\ cl.stage \in Before /\ cl.stage # "post"
      /\ rxh' = (IF IsEarly THEN Drop(rxh, 2 + rxh[2][2]) ELSE rxh)
  BY DEF ConsumeEarly, Before, Ended
<1>2. CallInv /\ DOMAIN srv = ServerFields /\ DOMAIN cl = ClientFields /\ cl.ip \in {NoIp, OwnText}
  BY <1>1, BeforeFacts
<1>3. PICK W, F, off, non, pos, ack, h, m, c, e, r, t : Pipe(W, F, off, non, pos, ack, h, m, c, e, r, t)
  BY <1>1 DEF ControlInv
<1>4. /\ Link(W, F, off, non, h, m, c, e, r, t) /\ FrameRow(F, r, t, pos, ack, TheAnswer)
      /\ StageInv(W, F, ack, h, c, e, r, t) /\ CreditInv(F, r, t, pos, ack)
  BY <1>3 DEF Pipe
<1>5. Start(F, r, t, ack) /\ OnlyExtras(F, r, t) /\ h = c
  BY <1>1, <1>4 DEF StageInv
<1>6. r \in Nat /\ t \in Nat
  BY <1>4, LinkOrder
<1>7. \/ ~IsEarly /\ SettingsAt(F, r + 1, t)
      \/ /\ IsEarly /\ SettingsAt(F, r + 10, t) /\ ack[r + 10] = ack[r + 1]
         /\ 2 + rxh[2][2] = 9 /\ r + 9 =< off[c + 1]
         /\ Row(EarlyJson, 7) /\ \A i \in 1 .. 7 : EarlyJson[i] = EarlyText[i]
  BY <1>1, <1>4, <1>5, EarlyRead
<1>8. \E r2 \in Nat : /\ r =< r2 /\ SettingsAt(F, r2 + 1, t) /\ ack[r2 + 1] = ack[r + 1]
                      /\ Link(W, F, off, non, h, m, c, e, r2, t)'
  <2>1. CASE ~IsEarly /\ SettingsAt(F, r + 1, t)
    <3>1. rxh' = rxh
      BY <1>1, <2>1
    <3>2. Link(W, F, off, non, h, m, c, e, r, t)'
      BY <1>1, <1>4, <3>1 DEF Link
    <3> QED
      BY <1>6, <2>1, <3>2
  <2>2. CASE IsEarly /\ SettingsAt(F, r + 10, t) /\ ack[r + 10] = ack[r + 1] /\ 2 + rxh[2][2] = 9 /\ r + 9 =< off[c + 1]
    <3>1. rxh' = Drop(rxh, 9)
      BY <1>1, <2>2
    <3>2. PICK k : k = 9
      OBVIOUS
    <3>3. rxh' = Drop(rxh, k) /\ k \in Nat /\ r + k =< off[c + 1] /\ r + 9 = r + k /\ r + 10 = r + k + 1
      BY <1>6, <2>2, <3>1, <3>2
    <3> HIDE <3>2
    <3>4. Link(W, F, off, non, h, m, c, e, r + k, t)'
      BY <1>1, <1>4, <3>3, LinkRead
    <3>5. r + k \in Nat /\ r =< r + k
      BY <1>6, <3>3
    <3> QED
      BY <2>2, <3>3, <3>4, <3>5
  <2> QED
    BY <1>7, <2>1, <2>2
<1>9. PICK r2 \in Nat : /\ r =< r2 /\ SettingsAt(F, r2 + 1, t) /\ ack[r2 + 1] = ack[r + 1]
                        /\ Link(W, F, off, non, h, m, c, e, r2, t)'
  BY <1>8
<1>10. \E ip \in {NoIp, OwnText} : cl' = [cl EXCEPT !.stage = "settings", !.ip = ip]
  <2>1. PICK ip : ip = IF IsEarly /\ op \in {"session", "register_once"} THEN ScanTailscaleIp(EarlyJson) ELSE cl.ip
    OBVIOUS
  <2>2. cl' = [cl EXCEPT !.stage = "settings", !.ip = ip]
    BY <2>1 DEF ConsumeEarly
  <2>3. IsEarly => ScanTailscaleIp(EarlyJson) = OwnText
    BY <1>7, ScanEarly
  <2>4. ip \in {NoIp, OwnText}
    BY <1>2, <2>1, <2>3
  <2> QED
    BY <2>2, <2>4
<1>11. CallInv' /\ TheAnswer' = TheAnswer /\ cl'.stage = "settings" /\ ReadInv(pos[r2 + 1])'
  <2>1. "settings" \in Before
    BY DEF Before
  <2>2. CallInv' /\ TheAnswer' = TheAnswer /\ cl'.stage = "settings" /\ \A b : ReadInv(b)'
    BY <1>1, <1>2, <1>10, <2>1, BeforeGoesOn
  <2> QED
    BY <2>2
<1>12. FrameRow(F, r2, t, pos, ack, TheAnswer)'
  <2>1. FrameRow(F, r2, t, pos, ack, TheAnswer)
    BY <1>4, <1>6, <1>9, RowShrinks
  <2> QED
    BY <1>11, <2>1, RowSame
<1>13. CreditInv(F, r2, t, pos, ack)'
  <2>1. srv'.cwin = ConnWindow /\ srv'.phase = "idle" /\ srv'.unacked = ack[t + 1] - ack[r2 + 1]
    BY <1>1, <1>4, <1>9 DEF CreditInv
  <2>2. cl'.stage \in Before
    BY <1>11 DEF Before
  <2> QED
    BY <1>11, <2>1, <2>2, CreditBefore
<1>14. StageInv(W, F, ack, c, c, e, r2, t)'
  <2>1. OnlyExtras(F, r2, t)
    BY <1>5, <1>6, <1>9, RowShrinks
  <2> QED
    BY <1>9, <1>11, <2>1 DEF StageInv, Reading
<1>15. Pipe(W, F, off, non, pos, ack, c, m, c, e, r2, t)'
  BY <1>5, <1>9, <1>11, <1>12, <1>13, <1>14 DEF Pipe
<1> QED
  BY <1>11, <1>15 DEF ControlInv

\* What acknowledging a frame leaves of the server.
LEMMA AckedFacts ==
    ASSUME NEW f, DOMAIN srv = ServerFields, srv' = Acked(f)
    PROVE  /\ DOMAIN srv' = ServerFields
           /\ srv'.held = srv.held /\ srv'.phase = srv.phase /\ srv'.todo = srv.todo /\ srv'.style = srv.style
           /\ srv'.pend = srv.pend /\ srv'.sealed = srv.sealed /\ srv'.split = srv.split
           /\ srv'.swin = srv.swin /\ srv'.cwin = srv.cwin
           /\ srv'.unacked = srv.unacked - (IF f.typ = "settings" /\ ~f.flag THEN 1 ELSE 0)
               \/ srv'.unacked = srv.unacked
           /\ f.typ = "settings" /\ ~f.flag => srv'.unacked = srv.unacked - 1
           /\ ~(f.typ = "settings" /\ ~f.flag) => srv'.unacked = srv.unacked
<1>1. CASE f.typ = "settings" /\ ~f.flag
  <2>1. srv' = [srv EXCEPT !.unacked = @ - 1]
    BY <1>1 DEF Acked
  <2> QED
    BY <1>1, <2>1 DEF ServerFields
<1>2. CASE ~(f.typ = "settings" /\ ~f.flag)
  <2>1. srv' = srv
    BY <1>2 DEF Acked
  <2> QED
    BY <1>2, <2>1
<1> QED
  BY <1>1, <1>2

\* H2::start, up to the SETTINGS of the server.
LEMMA StartSettingsKeeps ==
    ASSUME ControlInv, StartSettings
    PROVE  ControlInv'
<1>1. /\ cl.stage = "settings" /\ PlainReady /\ op' = op /\ net' = net /\ rxc' = rxc /\ nonce' = nonce
      /\ cl.stage \notin Ended /\ cl.stage \in Before /\ cl.stage # "post" /\ cl.stage # "early"
      /\ rxh' = Drop(rxh, ReadFrame.len) /\ srv' = Acked(ReadFrame)
  BY DEF StartSettings, Before, Ended
<1>2. CallInv /\ DOMAIN srv = ServerFields /\ DOMAIN cl = ClientFields /\ cl.ip \in {NoIp, OwnText}
  BY <1>1, BeforeFacts
<1>3. PICK W, F, off, non, pos, ack, h, m, c, e, r, t : Pipe(W, F, off, non, pos, ack, h, m, c, e, r, t)
  BY <1>1 DEF ControlInv
<1>4. /\ Link(W, F, off, non, h, m, c, e, r, t) /\ FrameRow(F, r, t, pos, ack, TheAnswer)
      /\ StageInv(W, F, ack, h, c, e, r, t) /\ CreditInv(F, r, t, pos, ack)
  BY <1>3 DEF Pipe
<1>5. SettingsAt(F, r + 1, t) /\ OnlyExtras(F, r, t) /\ h = c
  BY <1>1, <1>4 DEF StageInv
<1>6. r \in Nat /\ t \in Nat
  BY <1>4, LinkOrder
<1>7. Aligned(F, r, t) /\ F[r + 1][3] = "settings"
  BY <1>5 DEF SettingsAt, Aligned
<1>8. PICK n \in Nat :
         /\ Took(F, r, n, t, pos, ack, TheAnswer) /\ r + 2 + n =< off[c + 1]
         /\ ReadFrame.len = 2 + n /\ ReadFrame.typ = F[r + 1][3]
         /\ ReadFrame.flag = F[r + 2][2] /\ ReadFrame.sid = F[r + 2][3]
  BY <1>1, <1>4, <1>7, FrameHead
<1>9. PICK a : a = TheAnswer
  OBVIOUS
<1>10. Took(F, r, n, t, pos, ack, a)
  BY <1>8, <1>9
<1>11. ReadFrame.typ = "settings"
  BY <1>7, <1>8
<1>12. ReadFrame.flag = FALSE
  <2>1. IsExtra(F, r + 1)
    BY <1>5, <1>6, <1>10, TookEnds
  <2>2. F[r + 1][3] = "settings" /\ "settings" # "headers" /\ "settings" # "data"
    BY <1>7
  <2>3. TookExtra(F, r, n)
    <3>1. ~TookBlock(F, r, n, a)
      BY <2>2 DEF TookBlock
    <3>2. ~TookTrailers(F, r, n, pos, a)
      BY <2>2 DEF TookTrailers
    <3>3. ~\E flag \in BOOLEAN : TookBytes(F, r, n, pos, a, flag)
      BY <2>2 DEF TookBytes
    <3> QED
      BY <1>6, <1>10, <3>1, <3>2, <3>3, TookKinds
  <2>4. F[r + 2] = <<"h2", FALSE, 0>>
    BY <2>3 DEF TookExtra
  <2>5. F[r + 2][2] = FALSE
    BY <2>4
  <2> QED
    BY <1>8, <2>5
<1>13. /\ DOMAIN srv' = ServerFields
       /\ srv'.held = srv.held /\ srv'.phase = srv.phase /\ srv'.pend = srv.pend /\ srv'.sealed = srv.sealed
       /\ srv'.split = srv.split /\ srv'.cwin = srv.cwin /\ srv'.unacked = srv.unacked - 1
  BY <1>1, <1>2, <1>11, <1>12, AckedFacts
<1>14. Link(W, F, off, non, h, m, c, e, r + 2 + n, t)'
  BY <1>1, <1>4, <1>8, <1>13, FrameTaken
<1>15. cl' = [cl EXCEPT !.stage = "post", !.ip = cl.ip]
  <2>1. cl' = [cl EXCEPT !.stage = "post"]
    BY <1>11 DEF StartSettings
  <2> QED
    BY <1>2, <2>1 DEF ClientFields
<1>16. CallInv' /\ TheAnswer' = TheAnswer /\ cl'.stage = "post" /\ ReadInv(pos[r + 2 + n + 1])'
  <2>1. "post" \in Before
    BY DEF Before
  <2>2. CallInv' /\ TheAnswer' = TheAnswer /\ cl'.stage = "post" /\ \A b : ReadInv(b)'
    BY <1>1, <1>2, <1>13, <1>15, <2>1, BeforeGoesOn
  <2> QED
    BY <2>2
<1>17. FrameRow(F, r + 2 + n, t, pos, ack, TheAnswer)'
  <2>1. FrameRow(F, r + 2 + n, t, pos, ack, TheAnswer)
    BY <1>8 DEF Took
  <2> QED
    BY <1>16, <2>1, RowSame
<1>18. CreditInv(F, r + 2 + n, t, pos, ack)'
  <2>1. pos \in [Nat -> Nat] /\ ack \in [Nat -> Nat]
    BY <1>4 DEF FrameRow
  <2>2. ack[r + 2 + n + 1] = ack[r + 1] + 1 /\ ack[r + 1] \in Nat /\ ack[t + 1] \in Nat
    BY <1>6, <1>7, <1>10, <2>1, TookCounts
  <2>3. srv.cwin = ConnWindow /\ srv.phase = "idle" /\ srv.unacked = ack[t + 1] - ack[r + 1]
    BY <1>1, <1>4 DEF CreditInv
  <2>4. srv'.cwin = ConnWindow /\ srv'.phase = "idle" /\ srv'.unacked = ack[t + 1] - ack[r + 2 + n + 1]
    BY <1>13, <2>2, <2>3
  <2>5. cl'.stage \in Before
    BY <1>16 DEF Before
  <2> QED
    BY <1>16, <2>4, <2>5, CreditBefore
<1>19. StageInv(W, F, ack, c, c, e, r + 2 + n, t)'
  <2>1. OnlyExtras(F, r + 2 + n, t)
    BY <1>5, <1>6, <1>10, TookEnds
  <2>2. Aligned(F, r + 2 + n, t)
    BY <1>8 DEF Took
  <2> QED
    BY <1>16, <2>1, <2>2 DEF StageInv, Reading
<1>20. Pipe(W, F, off, non, pos, ack, c, m, c, e, r + 2 + n, t)'
  BY <1>5, <1>14, <1>16, <1>17, <1>18, <1>19 DEF Pipe
<1> QED
  BY <1>16, <1>20 DEF ControlInv

\* The answer at the next state.
LEMMA SentIsRow == srv.held.prefixed \in BOOLEAN => (Row(Sent, Size) /\ Skip \in Nat /\ Size \in Nat)
  BY SentFacts

\* The same after the step.
LEMMA SentIsRowNext == (srv.held.prefixed \in BOOLEAN)' => (Row(Sent, Size) /\ Skip \in Nat /\ Size \in Nat)'
  BY SentIsRow, PTL

\* Frames without a meaning for the call count for no byte of any answer.
LEMMA ExtrasOnly ==
    ASSUME NEW F, NEW r, NEW t, NEW pos, NEW ack, NEW a, NEW a2, NEW z, r \in Nat, t \in Nat,
           FrameRow(F, r, t, pos, ack, a), OnlyExtras(F, r, t), z = [i \in Nat |-> 0]
    PROVE  FrameRow(F, r, t, z, ack, a2) /\ NoEnd(F, r, t) /\ EndIsLast(F, r, t)
<1>1. z \in [Nat -> Nat] /\ \A i \in Nat : z[i] = 0
  OBVIOUS
<1>2. NoEnd(F, r, t)
  BY DEF OnlyExtras, NoEnd, IsEnd
<1>3. EndIsLast(F, r, t)
  BY <1>2 DEF NoEnd, EndIsLast
<1>4. ASSUME NEW k \in r + 1 .. t, IsHead(F, k)
      PROVE  FrameAt(F, k, t, z, ack, a2)
  <2>1. FrameAt(F, k, t, pos, ack, a) /\ IsExtra(F, k) /\ k \in Nat
    BY <1>4 DEF FrameRow, OnlyExtras
  <2>2. F[k][3] # "data" /\ F[k][3] # "headers"
    BY <2>1 DEF IsExtra, ExtraTypes
  <2>3. ExtraFrame(F, k)
    BY <2>1, <2>2 DEF FrameAt, HeadersFrame, DataFrame
  <2>4. F[k][2] \in Nat /\ k + 2 + F[k][2] \in Nat
    BY <2>1 DEF FrameAt
  <2>5. z[k + 2 + F[k][2]] = 0 /\ z[k] = 0 /\ z[t + 1] = 0
    BY <1>1, <2>1, <2>4
  <2> QED
    BY <2>1, <2>2, <2>3, <2>5 DEF FrameAt
<1> QED
  BY <1>1, <1>2, <1>3, <1>4 DEF FrameRow

\* Before a request nothing of its answer has come.
LEMMA ReadsNothing ==
    ASSUME cl.stage = "read", cl.body = <<>>, cl.ip \in {NoIp, OwnText}, srv.split = {},
           Reader = "chunks" => ~cl.stripped, srv.held.prefixed \in BOOLEAN
    PROVE  ReadInv(0)
<1>1. Skip \in Nat
  BY SentFacts
<1>2. PICK w : w = Sent
  OBVIOUS
<1>3. Sliced(<<>>, w, 0, 0)
  BY EmptyRow DEF Sliced
<1>4. Sliced(cl.body, Sent, 0, 0)
  BY <1>2, <1>3
<1>5. cl.stage \notin Before /\ cl.stage # "hold"
  BY DEF Before
<1>6. 0 \in 0 .. Skip + 1 /\ 0 =< Skip + 1 /\ 0 =< Skip + 3
  BY <1>1
<1>7. Reader = "data" /\ op = "session" /\ cl.ip = NoIp =>
         0 =< Skip + 3 /\ \E s \in 0 .. Skip + 1 : s =< 0 /\ Sliced(cl.body, Sent, s, 0)
  BY <1>4, <1>6
<1>8. Reader = "chunks" => "address" \in srv.split \/ cl.ip = OwnText \/ (cl.ip = NoIp /\ 0 =< Skip + 1)
  BY <1>6
<1> QED
  BY <1>4, <1>5, <1>7, <1>8 DEF ReadInv

\* The same after the step.
LEMMA ReadsNothingNext ==
    (/\ cl.stage = "read" /\ cl.body = <<>> /\ cl.ip \in {NoIp, OwnText} /\ srv.split = {}
     /\ Reader = "chunks" => ~cl.stripped
     /\ srv.held.prefixed \in BOOLEAN)' => ReadInv(0)'
<1>1. (/\ cl.stage = "read" /\ cl.body = <<>> /\ cl.ip \in {NoIp, OwnText} /\ srv.split = {}
       /\ Reader = "chunks" => ~cl.stripped
       /\ srv.held.prefixed \in BOOLEAN) => ReadInv(0)
  BY ReadsNothing
<1> QED
  BY <1>1, PTL

\* post_json and post_stream: a fresh stream, with its window and nothing
\* read.
LEMMA PostKeeps ==
    ASSUME ControlInv, NEW style, NEW held, style \in Styles, held \in Holdings(op, cl.call), Post(style, held)
    PROVE  ControlInv'
<1>1. /\ cl.stage = "post" /\ op' = op /\ net' = net /\ rxc' = rxc /\ rxh' = rxh /\ nonce' = nonce
      /\ cl.stage \notin Ended /\ cl.stage \in Before
      /\ style = "open" => Reader = "data"
      /\ cl' = [cl EXCEPT !.stage = "read", !.body = <<>>, !.status = 0]
      /\ srv' = [srv EXCEPT !.phase = "headers", !.style = style, !.held = held,
                            !.swin = StreamWindow, !.split = {},
                            !.todo = PrefixBytes(held) \o Answer(op, cl.call, held)]
  BY DEF Post, Before, Ended, wire
<1>2. CallInv /\ DOMAIN srv = ServerFields /\ DOMAIN cl = ClientFields /\ cl.ip \in {NoIp, OwnText}
      /\ (Reader = "chunks" => ~cl.stripped)
  BY <1>1, BeforeFacts
<1>3. /\ cl'.stage = "read" /\ cl'.body = <<>> /\ cl'.status = 0 /\ DOMAIN cl' = ClientFields
      /\ cl'.call = cl.call /\ cl'.ip = cl.ip /\ cl'.stripped = cl.stripped
  BY <1>1, <1>2 DEF ClientFields
<1>4. /\ DOMAIN srv' = ServerFields /\ srv'.phase = "headers" /\ srv'.style = style /\ srv'.held = held
      /\ srv'.swin = StreamWindow /\ srv'.split = {} /\ srv'.todo = PrefixBytes(held) \o Answer(op, cl.call, held)
      /\ srv'.pend = srv.pend /\ srv'.sealed = srv.sealed /\ srv'.cwin = srv.cwin /\ srv'.unacked = srv.unacked
  BY <1>1, <1>2 DEF ServerFields
<1>5. Reader' = Reader
  BY <1>1, <1>3 DEF Reader
<1>6. srv'.todo = Sent'
  BY <1>1, <1>3, <1>4 DEF Sent, Whole
<1>7. srv'.held.prefixed \in BOOLEAN
  BY <1>4, HoldingFacts
<1>8. Row(Sent, Size)' /\ Skip' \in Nat /\ Size' \in Nat
  BY <1>7, SentIsRowNext
<1>9. PICK W, F, off, non, pos, ack, h, m, c, e, r, t : Pipe(W, F, off, non, pos, ack, h, m, c, e, r, t)
  BY <1>1 DEF ControlInv
<1>10. /\ Link(W, F, off, non, h, m, c, e, r, t) /\ FrameRow(F, r, t, pos, ack, TheAnswer)
       /\ StageInv(W, F, ack, h, c, e, r, t) /\ CreditInv(F, r, t, pos, ack)
  BY <1>9 DEF Pipe
<1>11. r \in Nat /\ t \in Nat
  BY <1>10, LinkOrder
<1>12. Aligned(F, r, t) /\ OnlyExtras(F, r, t) /\ h = c
  BY <1>1, <1>10 DEF StageInv
<1>13. PICK z : z = [i \in Nat |-> 0]
  OBVIOUS
<1>14. z[r + 1] = 0 /\ z[t + 1] = 0
  BY <1>11, <1>13
<1>15. FrameRow(F, r, t, z, ack, TheAnswer)' /\ NoEnd(F, r, t) /\ EndIsLast(F, r, t)
  <2>1. PICK a2 : a2 = TheAnswer'
    OBVIOUS
  <2>2. FrameRow(F, r, t, z, ack, a2) /\ NoEnd(F, r, t) /\ EndIsLast(F, r, t)
    BY <1>10, <1>11, <1>12, <1>13, ExtrasOnly
  <2> QED
    BY <2>1, <2>2
<1> HIDE <1>13
<1>16. Link(W, F, off, non, h, m, c, e, r, t)'
  BY <1>1, <1>4, <1>10 DEF Link
<1>17. ReadInv(0)'
  <2>1. cl'.stage = "read" /\ cl'.body = <<>> /\ cl'.ip \in {NoIp, OwnText} /\ srv'.split = {}
    BY <1>2, <1>3, <1>4
  <2>2. Reader' = "chunks" => ~cl'.stripped
    BY <1>2, <1>3, <1>5
  <2> QED
    BY <1>7, <2>1, <2>2, ReadsNothingNext
<1>18. ReadInv(z[r + 1])'
  BY <1>14, <1>17
<1>19. StageInv(W, F, ack, h, c, e, r, t)'
  BY <1>1, <1>3, <1>10, <1>12 DEF StageInv, Before
<1>20. CreditInv(F, r, t, z, ack)'
  <2>1. srv'.cwin = ConnWindow /\ srv'.unacked = ack[t + 1] - ack[r + 1]
    BY <1>1, <1>4, <1>10 DEF CreditInv
  <2>2. StreamWindow \in Nat /\ ConnWindow \in Nat
    BY ControlAssumption
  <2>3. srv'.swin = StreamWindow - (z[t + 1] - z[r + 1]) /\ srv'.cwin = ConnWindow - (z[t + 1] - z[r + 1])
    BY <1>4, <1>14, <2>1, <2>2
  <2>4. Sliced(srv'.todo, Sent', z[t + 1], Size')
    <3>1. PICK w : w = Sent'
      OBVIOUS
    <3>2. Row(w, Size')
      BY <1>8, <3>1
    <3>3. Sliced(w, w, 0, Size')
      BY <1>8, <3>2 DEF Sliced
    <3> QED
      BY <1>6, <1>14, <3>1, <3>3
  <2>5. z[r + 1] =< z[t + 1] /\ z[t + 1] =< Size'
    BY <1>8, <1>14
  <2>6. cl'.stage \notin Before /\ cl'.stage \notin {"upgrade", "handshake"} /\ cl'.stage \in Reading /\ cl'.stage # "post"
    BY <1>3 DEF Before, Reading
  <2>7. srv'.phase \in {"headers", "data", "end", "over"} /\ srv'.phase # "over" /\ srv'.phase # "end"
    BY <1>4
  <2>8. srv'.style = "open" => Reader' = "data"
    BY <1>1, <1>4, <1>5
  <2> QED
    BY <1>15, <2>1, <2>3, <2>4, <2>5, <2>6, <2>7, <2>8 DEF CreditInv
<1>21. Pipe(W, F, off, non, z, ack, h, m, c, e, r, t)'
  BY <1>15, <1>16, <1>18, <1>19, <1>20 DEF Pipe
<1>22. CallInv'
  <2>1. cl.call \in {1, 2} /\ (cl.call = 2 => op \in {"session", "register_once"})
    BY <1>2 DEF CallInv
  <2>2. cl'.stage \in Reading /\ cl'.stage \in Stages /\ cl'.stage # "done" /\ cl'.stage # "failed" /\ cl'.stage # "timeout"
    BY <1>3 DEF Reading, Stages
  <2>3. srv'.held \in Holdings(op', cl'.call) /\ cl'.call \in 1 .. cl'.call
    BY <1>1, <1>3, <1>4, <2>1
  <2>4. cl'.ip \in {NoIp, OwnText} /\ cl'.status = 0
    BY <1>2, <1>3
  <2> QED
    BY <1>1, <1>3, <1>4, <2>1, <2>2, <2>3, <2>4 DEF CallInv, NoStall
<1> QED
  BY <1>21, <1>22 DEF ControlInv

-----------------------------------------------------------------------------
\* Reading the answer.

\* What a frame brings to a call that has b bytes of its answer, and b2 with it.
CameExtra(f, b, b2) ==
    f.typ \in ExtraTypes /\ f.flag = FALSE /\ f.sid = 0 /\ f.payload = <<>> /\ b2 = b
CameBlock(f, b, b2) ==
    f.typ = "headers" /\ f.flag = FALSE /\ f.sid = Sid /\ f.payload = srv.held.block /\ b2 = b
CameTrailers(f, b, b2) ==
    f.typ = "headers" /\ f.flag = TRUE /\ f.sid = Sid /\ f.payload = <<>> /\ b2 = b /\ b = Size
CameBytes(f, b, b2) ==
    /\ f.typ = "data" /\ f.flag \in BOOLEAN /\ f.sid = Sid
    /\ b =< b2 /\ Sliced(f.payload, Sent, b, b2)
    /\ f.flag = TRUE => b2 = Size
    /\ f.flag = FALSE => b < b2
    /\ "prefix" \notin srv.split => ~(b = 0 /\ b2 \in 1 .. Skip)
    /\ "address" \notin srv.split /\ AsksMap(op, cl.call) => b2 \notin Skip + 2 .. Skip + 5
Came(f, b, b2) ==
    /\ b \in Nat /\ b2 \in Nat /\ b2 =< Size
    /\ CameExtra(f, b, b2) \/ CameBlock(f, b, b2) \/ CameTrailers(f, b, b2) \/ CameBytes(f, b, b2)

\* The fields of the answer.
LEMMA AnswerIs ==
    \E a : /\ a = TheAnswer /\ a.sid = Sid /\ a.block = srv.held.block /\ a.sent = Sent /\ a.size = Size
           /\ a.skip = Skip /\ a.split = srv.split
           /\ a.cuts = (IF AsksMap(op, cl.call) THEN Skip + 2 .. Skip + 5 ELSE {})
<1>1. /\ TheAnswer.sid = Sid /\ TheAnswer.block = srv.held.block /\ TheAnswer.sent = Sent /\ TheAnswer.size = Size
      /\ TheAnswer.skip = Skip /\ TheAnswer.split = srv.split
      /\ TheAnswer.cuts = (IF AsksMap(op, cl.call) THEN Skip + 2 .. Skip + 5 ELSE {})
  BY DEF TheAnswer
<1> QED
  BY <1>1

\* What a frame of the plaintext brings to the call.
LEMMA ComesFacts ==
    ASSUME NEW F, NEW r, NEW n, NEW t, NEW pos, NEW ack, NEW f, r \in Nat, t \in Nat,
           Took(F, r, n, t, pos, ack, TheAnswer), FrameRow(F, r, t, pos, ack, TheAnswer), pos[t + 1] =< Size,
           Size \in Nat, srv.held.prefixed \in BOOLEAN,
           f.typ = F[r + 1][3], f.flag = F[r + 2][2], f.sid = F[r + 2][3], Sliced(f.payload, F, r + 2, r + 2 + n)
    PROVE  Came(f, pos[r + 1], pos[r + 2 + n + 1])
<1>1. PICK a : /\ a = TheAnswer /\ a.sid = Sid /\ a.block = srv.held.block /\ a.sent = Sent /\ a.size = Size
               /\ a.skip = Skip /\ a.split = srv.split
               /\ a.cuts = (IF AsksMap(op, cl.call) THEN Skip + 2 .. Skip + 5 ELSE {})
  BY AnswerIs
<1>2. Took(F, r, n, t, pos, ack, a) /\ FrameRow(F, r, t, pos, ack, a)
  BY <1>1
<1>3. pos \in [Nat -> Nat] /\ ack \in [Nat -> Nat]
  BY <1>2 DEF FrameRow
<1>4. /\ n \in Nat /\ r + 2 + n \in Nat /\ r + 2 + n + 1 \in Nat
      /\ pos[r + 2 + n + 1] = IF F[r + 1][3] = "data" THEN pos[r + 1] + n ELSE pos[r + 1]
      /\ pos[r + 2 + n + 1] =< pos[t + 1]
      /\ pos[r + 1] \in Nat /\ pos[t + 1] \in Nat
  BY <1>2, <1>3, TookCounts
<1>5. pos[r + 2 + n + 1] \in Nat /\ pos[r + 2 + n + 1] =< Size
  BY <1>3, <1>4
<1>6. PICK b, b2 : b = pos[r + 1] /\ b2 = pos[r + 2 + n + 1]
  OBVIOUS
<1>7. b \in Nat /\ b2 \in Nat /\ b2 =< Size
  BY <1>4, <1>5, <1>6
<1>8. b2 = IF f.typ = "data" THEN b + n ELSE b
  BY <1>4, <1>6
<1>9. n = 0 => f.payload = <<>>
  <2>1. Row(f.payload, (r + 2 + n) - (r + 2))
    BY DEF Sliced
  <2>2. n = 0 => (r + 2 + n) - (r + 2) = 0
    BY <1>4
  <2>3. n = 0 => Row(f.payload, 0)
    BY <2>1, <2>2
  <2> QED
    BY <2>3, EmptyRow
<1>10. CASE TookExtra(F, r, n)
  <2>1. f.typ \in ExtraTypes /\ n = 0 /\ F[r + 2] = <<"h2", FALSE, 0>>
    BY <1>10 DEF TookExtra, IsExtra
  <2>2. f.flag = FALSE /\ f.sid = 0
    <3>1. F[r + 2][2] = FALSE /\ F[r + 2][3] = 0
      BY <2>1
    <3> QED
      BY <3>1
  <2>3. f.typ # "data"
    BY <2>1 DEF ExtraTypes
  <2>4. CameExtra(f, b, b2)
    BY <1>8, <1>9, <2>1, <2>2, <2>3 DEF CameExtra
  <2> QED
    BY <1>6, <1>7, <2>4 DEF Came
<1>11. CASE TookBlock(F, r, n, a)
  <2>1. f.typ = "headers" /\ F[r + 2] = <<"h2", FALSE, a.sid>> /\ Sliced(a.block, F, r + 2, r + 2 + n)
    BY <1>11 DEF TookBlock
  <2>2. f.flag = FALSE /\ f.sid = Sid
    <3>1. F[r + 2][2] = FALSE /\ F[r + 2][3] = a.sid
      BY <2>1
    <3> QED
      BY <1>1, <3>1
  <2>3. f.payload = srv.held.block
    BY <1>1, <2>1, SlicedEqual, Zenon
  <2>4. CameBlock(f, b, b2)
    BY <1>8, <2>1, <2>2, <2>3 DEF CameBlock
  <2> QED
    BY <1>6, <1>7, <2>4 DEF Came
<1>12. CASE TookTrailers(F, r, n, pos, a)
  <2>1. f.typ = "headers" /\ n = 0 /\ F[r + 2] = <<"h2", TRUE, a.sid>> /\ b = Size
    BY <1>1, <1>6, <1>12 DEF TookTrailers
  <2>2. f.flag = TRUE /\ f.sid = Sid
    <3>1. F[r + 2][2] = TRUE /\ F[r + 2][3] = a.sid
      BY <2>1
    <3> QED
      BY <1>1, <3>1
  <2>3. CameTrailers(f, b, b2)
    BY <1>8, <1>9, <2>1, <2>2 DEF CameTrailers
  <2> QED
    BY <1>6, <1>7, <2>3 DEF Came
<1>13. CASE \E flag \in BOOLEAN : TookBytes(F, r, n, pos, a, flag)
  <2>1. PICK flag \in BOOLEAN : TookBytes(F, r, n, pos, a, flag)
    BY <1>13
  <2>2. /\ F[r + 1][3] = "data" /\ F[r + 2] = <<"h2", flag, a.sid>>
        /\ flag => b + n = Size
        /\ ~flag => n > 0
        /\ "prefix" \notin srv.split => ~(b = 0 /\ n \in 1 .. Skip)
        /\ "address" \notin srv.split => b + n \notin a.cuts
    BY <1>1, <1>6, <2>1 DEF TookBytes
  <2>3. f.typ = "data" /\ b2 = b + n
    BY <1>8, <2>2
  <2>4. f.flag = flag /\ f.sid = Sid
    <3>1. F[r + 2][2] = flag /\ F[r + 2][3] = a.sid
      BY <2>2
    <3> QED
      BY <1>1, <3>1
  <2>5. Sliced(f.payload, Sent, b, b2)
    <3>1. Sliced(f.payload, a.sent, pos[r + 1], pos[r + 1] + n)
      BY <1>2, <1>4, <2>2, TookData
    <3> QED
      BY <1>1, <1>6, <2>3, <3>1
  <2>6. b =< b2 /\ (f.flag = TRUE => b2 = Size) /\ (f.flag = FALSE => b < b2) /\ f.flag \in BOOLEAN
    BY <1>4, <1>7, <2>2, <2>3, <2>4
  <2>7. "prefix" \notin srv.split => ~(b = 0 /\ b2 \in 1 .. Skip)
    BY <1>4, <1>7, <2>2, <2>3
  <2>8. "address" \notin srv.split /\ AsksMap(op, cl.call) => b2 \notin Skip + 2 .. Skip + 5
    BY <1>1, <2>2, <2>3
  <2>9. CameBytes(f, b, b2)
    BY <2>3, <2>4, <2>5, <2>6, <2>7, <2>8 DEF CameBytes
  <2> QED
    BY <1>6, <1>7, <2>9 DEF Came
<1> QED
  BY <1>2, <1>10, <1>11, <1>12, <1>13, TookKinds

\* The flow control and the SETTINGS a frame leaves.
Took1(f) == IF f.typ = "data" THEN WindowUpdate(Len(f.payload)) ELSE Acked(f)

ServerTaken(d, u) ==
    /\ DOMAIN srv' = ServerFields
    /\ srv'.held = srv.held /\ srv'.phase = srv.phase /\ srv'.todo = srv.todo /\ srv'.style = srv.style
    /\ srv'.pend = srv.pend /\ srv'.sealed = srv.sealed /\ srv'.split = srv.split
    /\ srv'.swin = srv.swin + d /\ srv'.cwin = srv.cwin + d /\ srv'.unacked = srv.unacked - u

\* The window updates and the acknowledgement the client sends for it.
LEMMA ServerTook ==
    ASSUME NEW f, NEW b, NEW b2, NEW i, NEW j, Came(f, b, b2), DOMAIN srv = ServerFields, srv' = Took1(f),
           srv.swin \in Int, srv.cwin \in Int, srv.unacked \in Int, i \in Nat, j \in Nat,
           j = IF f.typ = "settings" THEN i + 1 ELSE i
    PROVE  ServerTaken(b2 - b, j - i)
<1>1. b \in Nat /\ b2 \in Nat
  BY DEF Came
<1>2. CASE f.typ = "data"
  <2>1. b =< b2 /\ Sliced(f.payload, Sent, b, b2)
    <3>1. CameBytes(f, b, b2)
      BY <1>2 DEF Came, CameExtra, CameBlock, CameTrailers, ExtraTypes
    <3> QED
      BY <3>1 DEF CameBytes
  <2>2. Row(f.payload, b2 - b)
    BY <2>1 DEF Sliced
  <2>3. Len(f.payload) = b2 - b
    BY <2>2, RowFacts
  <2>4. PICK k : k = b2 - b
    OBVIOUS
  <2>5. srv' = [srv EXCEPT !.swin = @ + k, !.cwin = @ + k]
    BY <1>2, <2>3, <2>4 DEF Took1, WindowUpdate
  <2>6. /\ DOMAIN srv' = ServerFields
        /\ srv'.held = srv.held /\ srv'.phase = srv.phase /\ srv'.todo = srv.todo /\ srv'.style = srv.style
        /\ srv'.pend = srv.pend /\ srv'.sealed = srv.sealed /\ srv'.split = srv.split
        /\ srv'.swin = srv.swin + k /\ srv'.cwin = srv.cwin + k /\ srv'.unacked = srv.unacked
    BY <2>5 DEF ServerFields
  <2>7. srv.unacked = srv.unacked - (j - i)
    BY <1>2
  <2> QED
    BY <2>4, <2>6, <2>7 DEF ServerTaken
<1>3. CASE f.typ # "data"
  <2>1. srv' = Acked(f)
    BY <1>3 DEF Took1
  <2>2. b2 = b /\ (f.typ = "settings" => f.flag = FALSE)
    BY <1>3 DEF Came, CameExtra, CameBlock, CameTrailers, CameBytes
  <2>3. /\ DOMAIN srv' = ServerFields
        /\ srv'.held = srv.held /\ srv'.phase = srv.phase /\ srv'.todo = srv.todo /\ srv'.style = srv.style
        /\ srv'.pend = srv.pend /\ srv'.sealed = srv.sealed /\ srv'.split = srv.split
        /\ srv'.swin = srv.swin /\ srv'.cwin = srv.cwin
    BY <2>1, AckedFacts
  <2>4. srv'.unacked = srv.unacked - (j - i)
    <3>1. CASE f.typ = "settings"
      <4>1. srv'.unacked = srv.unacked - 1
        BY <2>1, <2>2, <3>1, AckedFacts
      <4> QED
        BY <3>1, <4>1
    <3>2. CASE f.typ # "settings"
      <4>1. srv'.unacked = srv.unacked
        BY <2>1, <3>2, AckedFacts
      <4> QED
        BY <3>2, <4>1
    <3> QED
      BY <3>1, <3>2
  <2>5. srv.swin = srv.swin + (b2 - b) /\ srv.cwin = srv.cwin + (b2 - b)
    BY <1>1, <2>2
  <2> QED
    BY <2>3, <2>4, <2>5 DEF ServerTaken
<1> QED
  BY <1>2, <1>3

Ends(f) == f.typ \in {"headers", "data"} /\ f.flag = TRUE
ServerKept ==
    /\ DOMAIN srv' = ServerFields
    /\ srv'.held = srv.held /\ srv'.phase = srv.phase /\ srv'.split = srv.split
ReadsOn(b) ==
    /\ cl'.stage \in Reading /\ cl'.call = cl.call
    /\ Reader = "data" \/ ~Ends(ReadFrame)
    /\ CallInv' /\ ReadInv(b)'
AsksAgain == cl'.stage = "post" /\ Ends(ReadFrame) /\ CallInv' /\ ReadInv(0)'

\* The frame that is read in the middle of a call comes from the answer,
LEMMA FrameComes ==
    ASSUME ControlInv, cl.stage \in Reading, PlainReady
    PROVE  \E b, b2 : Came(ReadFrame, b, b2)
<1>1. CallInv /\ cl.stage \notin Ended /\ cl.stage # "early" /\ cl.stage # "upgrade"
  BY DEF ControlInv, CallInv, Reading, Ended
<1>2. srv.held.prefixed \in BOOLEAN
  <2>1. srv.held \in Holdings(op, cl.call)
    BY <1>1 DEF CallInv
  <2> QED
    BY <2>1, HoldingFacts
<1>3. PICK W, F, off, non, pos, ack, h, m, c, e, r, t : Pipe(W, F, off, non, pos, ack, h, m, c, e, r, t)
  BY <1>1 DEF ControlInv
<1>4. /\ Link(W, F, off, non, h, m, c, e, r, t) /\ FrameRow(F, r, t, pos, ack, TheAnswer)
      /\ StageInv(W, F, ack, h, c, e, r, t) /\ CreditInv(F, r, t, pos, ack)
  BY <1>3 DEF Pipe
<1>5. r \in Nat /\ t \in Nat /\ Size \in Nat
  BY <1>2, <1>4, LinkOrder, SentFacts
<1>6. Aligned(F, r, t) /\ pos[t + 1] =< Size
  BY <1>4 DEF StageInv, CreditInv
<1>7. PICK n \in Nat :
         /\ Took(F, r, n, t, pos, ack, TheAnswer)
         /\ ReadFrame.typ = F[r + 1][3]
         /\ ReadFrame.flag = F[r + 2][2] /\ ReadFrame.sid = F[r + 2][3]
         /\ Sliced(ReadFrame.payload, F, r + 2, r + 2 + n)
  BY <1>1, <1>4, <1>6, FrameHead
<1>8. Came(ReadFrame, pos[r + 1], pos[r + 2 + n + 1])
  BY <1>2, <1>4, <1>5, <1>6, <1>7, ComesFacts
<1> QED
  BY <1>8

\* and a step that takes it keeps the invariant when the call goes on as it
\* should.
LEMMA ReadStep ==
    ASSUME ControlInv, cl.stage \in Reading, PlainReady,
           op' = op, net' = net, rxc' = rxc, nonce' = nonce, rxh' = Drop(rxh, ReadFrame.len), srv' = Took1(ReadFrame)
    PROVE  \E b, b2 :
              /\ Came(ReadFrame, b, b2) /\ ReadInv(b) /\ ServerKept
              /\ Ends(ReadFrame) => srv.phase = "over"
              /\ ReadsOn(b2) => ControlInv'
              /\ AsksAgain => ControlInv'
<1>1. CallInv /\ DOMAIN srv = ServerFields /\ cl.stage \notin Ended /\ cl.stage # "early" /\ cl.stage # "post"
      /\ cl.stage \notin {"upgrade", "handshake"} /\ cl.stage # "upgrade"
  BY DEF ControlInv, CallInv, Reading, Ended
<1>2. srv.held.prefixed \in BOOLEAN
  <2>1. srv.held \in Holdings(op, cl.call)
    BY <1>1 DEF CallInv
  <2> QED
    BY <2>1, HoldingFacts
<1>3. PICK W, F, off, non, pos, ack, h, m, c, e, r, t : Pipe(W, F, off, non, pos, ack, h, m, c, e, r, t)
  BY <1>1 DEF ControlInv
<1>4. /\ Link(W, F, off, non, h, m, c, e, r, t) /\ FrameRow(F, r, t, pos, ack, TheAnswer)
      /\ StageInv(W, F, ack, h, c, e, r, t) /\ CreditInv(F, r, t, pos, ack) /\ ReadInv(pos[r + 1])
  BY <1>3 DEF Pipe
<1>5. r \in Nat /\ t \in Nat
  BY <1>4, LinkOrder
<1>6. Aligned(F, r, t) /\ h = c
  BY <1>1, <1>4 DEF StageInv
<1>7. PICK n \in Nat :
         /\ Took(F, r, n, t, pos, ack, TheAnswer) /\ r + 2 + n =< off[c + 1]
         /\ ReadFrame.len = 2 + n /\ ReadFrame.typ = F[r + 1][3]
         /\ ReadFrame.flag = F[r + 2][2] /\ ReadFrame.sid = F[r + 2][3]
         /\ Sliced(ReadFrame.payload, F, r + 2, r + 2 + n)
  BY <1>1, <1>4, <1>6, FrameHead
<1>8. PICK f : f = ReadFrame
  OBVIOUS
<1>9. /\ f.typ = F[r + 1][3] /\ f.flag = F[r + 2][2] /\ f.sid = F[r + 2][3]
      /\ Sliced(f.payload, F, r + 2, r + 2 + n)
  BY <1>7, <1>8
<1>10. PICK a : a = TheAnswer
  OBVIOUS
<1>11. Took(F, r, n, t, pos, ack, a) /\ FrameRow(F, r, t, pos, ack, a)
  BY <1>4, <1>7, <1>10
<1>12. pos \in [Nat -> Nat] /\ ack \in [Nat -> Nat]
  BY <1>11 DEF FrameRow
<1>13. PICK r2 : r2 = r + 2 + n
  OBVIOUS
<1>14. /\ r2 \in Nat /\ r2 + 1 \in Nat /\ r =< r2
       /\ ack[r2 + 1] = (IF F[r + 1][3] = "settings" THEN ack[r + 1] + 1 ELSE ack[r + 1])
       /\ pos[r2 + 1] =< pos[t + 1]
       /\ pos[r + 1] \in Nat /\ pos[t + 1] \in Nat /\ ack[r + 1] \in Nat /\ ack[t + 1] \in Nat
  BY <1>5, <1>11, <1>12, <1>13, TookCounts
<1>15. pos[r2 + 1] \in Nat /\ ack[r2 + 1] \in Nat
  BY <1>12, <1>14
<1>16. /\ srv.unacked = ack[t + 1] - ack[r + 1]
       /\ srv.phase \in {"headers", "data", "end", "over"}
       /\ pos[t + 1] =< Size /\ Sliced(srv.todo, Sent, pos[t + 1], Size)
       /\ srv.phase \in {"end", "over"} => pos[t + 1] = Size
       /\ srv.swin = StreamWindow - (pos[t + 1] - pos[r + 1])
       /\ srv.cwin = ConnWindow - (pos[t + 1] - pos[r + 1])
       /\ srv.phase # "over" => NoEnd(F, r, t)
       /\ EndIsLast(F, r, t)
       /\ srv.phase = "over" /\ Reader # "data" => \E k \in r + 1 .. t : IsEnd(F, k)
       /\ srv.style = "open" => Reader = "data"
  BY <1>1, <1>4 DEF CreditInv
<1>17. StreamWindow \in Nat /\ ConnWindow \in Nat
  BY ControlAssumption
<1>18. srv.swin \in Int /\ srv.cwin \in Int /\ srv.unacked \in Int
  BY <1>14, <1>16, <1>17
<1>19. Size \in Nat
  BY <1>2, SentFacts
<1>20. PICK b, b2 : b = pos[r + 1] /\ b2 = pos[r2 + 1]
  OBVIOUS
<1>21. Came(f, b, b2)
  <2>1. Came(f, pos[r + 1], pos[r + 2 + n + 1])
    BY <1>2, <1>4, <1>5, <1>7, <1>9, <1>16, <1>19, ComesFacts
  <2> QED
    BY <1>13, <1>20, <2>1
<1>22. PICK i, j : i = ack[r + 1] /\ j = ack[r2 + 1]
  OBVIOUS
<1>23. i \in Nat /\ j \in Nat /\ j = (IF f.typ = "settings" THEN i + 1 ELSE i)
  BY <1>9, <1>14, <1>15, <1>22
<1>24. srv' = Took1(f)
  BY <1>8
<1>25. /\ DOMAIN srv' = ServerFields
       /\ srv'.held = srv.held /\ srv'.phase = srv.phase /\ srv'.todo = srv.todo /\ srv'.style = srv.style
       /\ srv'.pend = srv.pend /\ srv'.sealed = srv.sealed /\ srv'.split = srv.split
       /\ srv'.swin = srv.swin + (b2 - b) /\ srv'.cwin = srv.cwin + (b2 - b)
       /\ srv'.unacked = srv.unacked - (j - i)
  <2>1. ServerTaken(b2 - b, j - i)
    BY <1>1, <1>18, <1>21, <1>23, <1>24, ServerTook
  <2> QED
    BY <2>1 DEF ServerTaken
<1>26. Link(W, F, off, non, h, m, c, e, r2, t)'
  <2>1. Link(W, F, off, non, h, m, c, e, r + 2 + n, t)'
    BY <1>4, <1>7, <1>25, FrameTaken
  <2> QED
    BY <1>13, <2>1
<1>27. FrameRow(F, r2, t, pos, ack, a) /\ Aligned(F, r2, t)
  BY <1>11, <1>13 DEF Took
<1>28. srv'.unacked = ack[t + 1] - ack[r2 + 1]
  BY <1>14, <1>15, <1>16, <1>22, <1>25
<1>29. /\ srv'.swin = StreamWindow - (pos[t + 1] - pos[r2 + 1])
       /\ srv'.cwin = ConnWindow - (pos[t + 1] - pos[r2 + 1])
  BY <1>14, <1>15, <1>16, <1>17, <1>20, <1>25
<1>30. Ends(f) => IsEnd(F, r + 1)
  <2>1. IsHead(F, r + 1)
    BY <1>11 DEF Took
  <2>2. Ends(f) => F[r + 2][2] = TRUE /\ ~IsExtra(F, r + 1)
    BY <1>9 DEF Ends, IsExtra, ExtraTypes
  <2>3. r + 1 + 1 = r + 2
    BY <1>5
  <2> QED
    BY <2>1, <2>2, <2>3 DEF IsEnd
<1>31. ~Ends(f) => ~IsEnd(F, r + 1)
  <2>1. SUFFICES ASSUME IsEnd(F, r + 1) PROVE Ends(f)
    OBVIOUS
  <2>2. r + 1 + 1 = r + 2
    BY <1>5
  <2>3. f.typ \notin ExtraTypes /\ f.flag
    BY <1>9, <2>1, <2>2 DEF IsEnd, IsExtra
  <2>4. f.flag = TRUE
    BY <1>21, <2>3 DEF Came, CameExtra, CameBlock, CameTrailers, CameBytes
  <2>5. f.typ \in {"headers", "data"}
    BY <1>21, <2>3 DEF Came, CameExtra, CameBlock, CameTrailers, CameBytes
  <2> QED
    BY <2>4, <2>5 DEF Ends
<1>32. Ends(f) => srv.phase = "over" /\ OnlyExtras(F, r2, t)
  <2>1. NoEnd(F, r, t) => ~IsEnd(F, r + 1)
    BY <1>5, <1>11, TookEnds
  <2>2. EndIsLast(F, r, t) /\ IsEnd(F, r + 1) => OnlyExtras(F, r2, t)
    BY <1>5, <1>11, <1>13, TookEnds
  <2> QED
    BY <1>16, <1>30, <2>1, <2>2
<1>33. ReadsOn(b2) => ControlInv'
  <2>1. SUFFICES ASSUME ReadsOn(b2) PROVE ControlInv'
    OBVIOUS
  <2>2. cl'.stage \in Reading /\ cl'.call = cl.call /\ (Reader = "data" \/ ~Ends(f)) /\ CallInv' /\ ReadInv(b2)'
    BY <1>8, <2>1 DEF ReadsOn
  <2>3. Size' = Size /\ Sent' = Sent /\ Reader' = Reader /\ TheAnswer' = TheAnswer
    BY <1>25, <2>2, SameCall
  <2>4. FrameRow(F, r2, t, pos, ack, TheAnswer)'
    <3>1. FrameRow(F, r2, t, pos, ack, TheAnswer)
      BY <1>10, <1>27
    <3> QED
      BY <2>3, <3>1, RowSame
  <2>5. cl'.stage \notin Before /\ cl'.stage \notin {"upgrade", "handshake"} /\ cl'.stage # "upgrade" /\ cl'.stage # "post"
        /\ cl'.stage # "early" /\ cl'.stage # "settings" /\ cl'.stage # "handshake"
    BY <2>2 DEF Reading, Before
  <2>6. srv'.phase # "over" => NoEnd(F, r2, t)
    <3>1. NoEnd(F, r, t) => NoEnd(F, r2, t)
      BY <1>5, <1>14, RowShrinks
    <3> QED
      BY <1>16, <1>25, <3>1
  <2>7. EndIsLast(F, r2, t)
    BY <1>5, <1>14, <1>16, RowShrinks
  <2>8. srv'.phase = "over" /\ Reader # "data" => \E k \in r2 + 1 .. t : IsEnd(F, k)
    <3>1. ~IsEnd(F, r + 1) /\ (\E k \in r + 1 .. t : IsEnd(F, k)) => \E k \in r2 + 1 .. t : IsEnd(F, k)
      BY <1>5, <1>11, <1>13, TookEnds
    <3> QED
      BY <1>16, <1>25, <1>31, <2>2, <3>1
  <2>9. CreditInv(F, r2, t, pos, ack)'
    <3>1. Sliced(srv'.todo, Sent', pos[t + 1], Size') /\ pos[t + 1] =< Size'
      BY <1>16, <1>25, <2>3
    <3>2. srv'.phase \in {"headers", "data", "end", "over"} /\ (srv'.phase \in {"end", "over"} => pos[t + 1] = Size')
      BY <1>16, <1>25, <2>3
    <3>3. srv'.style = "open" => Reader' = "data"
      BY <1>16, <1>25, <2>3
    <3>4. srv'.phase = "over" /\ Reader' # "data" => \E k \in r2 + 1 .. t : IsEnd(F, k)
      BY <2>3, <2>8
    <3> QED
      BY <1>14, <1>28, <1>29, <2>2, <2>5, <2>6, <2>7, <3>1, <3>2, <3>3, <3>4, Zenon DEF CreditInv
  <2>10. StageInv(W, F, ack, h, c, e, r2, t)'
    BY <1>6, <1>27, <2>5 DEF StageInv
  <2>11. ReadInv(pos[r2 + 1])'
    BY <1>20, <2>2
  <2>12. Pipe(W, F, off, non, pos, ack, h, m, c, e, r2, t)'
    BY <1>26, <2>4, <2>9, <2>10, <2>11 DEF Pipe
  <2> QED
    BY <2>2, <2>12 DEF ControlInv
<1>34. AsksAgain => ControlInv'
  <2>1. SUFFICES ASSUME AsksAgain PROVE ControlInv'
    OBVIOUS
  <2>2. cl'.stage = "post" /\ Ends(f) /\ CallInv' /\ ReadInv(0)'
    BY <1>8, <2>1 DEF AsksAgain
  <2>3. srv.phase = "over" /\ OnlyExtras(F, r2, t)
    BY <1>32, <2>2
  <2>4. PICK z : z = [k \in Nat |-> 0]
    OBVIOUS
  <2>5. FrameRow(F, r2, t, z, ack, TheAnswer)'
    <3>1. PICK a2 : a2 = TheAnswer'
      OBVIOUS
    <3>2. FrameRow(F, r2, t, z, ack, a2)
      BY <1>5, <1>14, <1>27, <2>3, <2>4, ExtrasOnly
    <3> QED
      BY <3>1, <3>2
  <2>6. ReadInv(z[r2 + 1])'
    <3>1. z[r2 + 1] = 0
      BY <1>14, <2>4
    <3> QED
      BY <2>2, <3>1
  <2>7. StageInv(W, F, ack, h, c, e, r2, t)'
    BY <1>6, <1>27, <2>2, <2>3 DEF StageInv, Reading
  <2>8. pos[r2 + 1] = pos[t + 1]
    <3>1. b2 = Size
      BY <1>21, <2>2 DEF Came, CameExtra, CameBlock, CameTrailers, CameBytes, Ends, ExtraTypes
    <3> QED
      BY <1>14, <1>15, <1>16, <1>19, <1>20, <3>1
  <2>9. srv'.cwin = ConnWindow
    BY <1>14, <1>17, <1>29, <2>8
  <2>10. CreditInv(F, r2, t, z, ack)'
    <3>1. cl'.stage \in Before /\ cl'.stage \notin {"upgrade", "handshake"}
      BY <2>2 DEF Before
    <3>2. srv'.phase \in {"idle", "over"}
      BY <1>25, <2>3
    <3> QED
      BY <1>28, <2>2, <2>9, <3>1, <3>2, CreditBefore
  <2>11. Pipe(W, F, off, non, z, ack, h, m, c, e, r2, t)'
    BY <1>26, <2>5, <2>6, <2>7, <2>10 DEF Pipe
  <2> QED
    BY <2>2, <2>11 DEF ControlInv
<1>35. ServerKept
  BY <1>25 DEF ServerKept
<1>36. Ends(f) => srv.phase = "over"
  BY <1>32
<1> QED
  BY <1>4, <1>8, <1>20, <1>21, <1>33, <1>34, <1>35, <1>36

\* decode_status returns a status of the block, or none.
LEMMA StatusFacts ==
    ASSUME NEW x, NEW n, Row(x, n)
    PROVE  DecodeStatus(x) = 0 \/ \E k \in DOMAIN x : x[k][3] = DecodeStatus(x)
<1> DEFINE known == {k \in DOMAIN x : x[k][2] # "other"}
           readable == {k \in known : 1 .. k \subseteq known}
           found == {k \in readable : x[k][2] \in {"index200", "literal"}}
<1>1. DecodeStatus(x) = IF found = {} THEN 0 ELSE x[Min(found)][3]
  BY DEF DecodeStatus
<1>2. found \subseteq DOMAIN x
  OBVIOUS
<1> HIDE DEF found
<1>3. found \subseteq Nat
  BY <1>2, RowFacts
<1>4. CASE found # {}
  <2>1. Min(found) \in found
    BY <1>3, <1>4, MinFacts
  <2> QED
    BY <1>1, <1>2, <1>4, <2>1
<1> QED
  BY <1>1, <1>4

\* Which calls read their answer to its end, or by chunks.
LEMMA ReaderFacts ==
    ASSUME cl.call \in {1, 2}, cl.call = 2 => op \in {"session", "register_once"}
    PROVE  /\ Reader = "chunks" <=> op = "fetch_peers"
           /\ Reader = "data" <=> op = "stream_map" \/ (op = "session" /\ cl.call = 2)
           /\ Reader = "json" <=> op \notin {"fetch_peers", "stream_map"} /\ ~(op = "session" /\ cl.call = 2)
<1>1. CASE op = "fetch_peers"
  <2>1. Requests(op) = <<"chunks">> /\ cl.call = 1
    BY <1>1 DEF Requests
  <2>2. Reader = "chunks"
    BY <2>1 DEF Reader
  <2> QED
    BY <1>1, <2>2
<1>2. CASE op = "stream_map"
  <2>1. Requests(op) = <<"data">> /\ cl.call = 1
    BY <1>2 DEF Requests
  <2>2. Reader = "data"
    BY <2>1 DEF Reader
  <2> QED
    BY <1>2, <2>2
<1>3. CASE op = "session"
  <2>1. Requests(op) = <<"json", "data">>
    BY <1>3 DEF Requests
  <2>2. Reader = IF cl.call = 2 THEN "data" ELSE "json"
    BY <2>1 DEF Reader
  <2> QED
    BY <1>3, <2>2
<1>4. CASE op = "register_once"
  <2>1. Requests(op) = <<"json", "json">>
    BY <1>4 DEF Requests
  <2>2. Reader = "json"
    BY <2>1 DEF Reader
  <2> QED
    BY <1>4, <2>2
<1>5. CASE op \notin {"fetch_peers", "stream_map", "session", "register_once"}
  <2>1. Requests(op) = <<"json">> /\ cl.call = 1
    BY <1>5 DEF Requests
  <2>2. Reader = "json"
    BY <2>1 DEF Reader
  <2> QED
    BY <1>5, <2>2
<1> QED
  BY <1>1, <1>2, <1>3, <1>4, <1>5

\* The same after the step.
LEMMA ReaderNext ==
    (cl.call \in {1, 2} /\ (cl.call = 2 => op \in {"session", "register_once"}))' =>
      (/\ Reader = "chunks" <=> op = "fetch_peers"
       /\ Reader = "data" <=> op = "stream_map" \/ (op = "session" /\ cl.call = 2)
       /\ Reader = "json" <=> op \notin {"fetch_peers", "stream_map"} /\ ~(op = "session" /\ cl.call = 2))'
<1>1. (cl.call \in {1, 2} /\ (cl.call = 2 => op \in {"session", "register_once"})) =>
      (/\ Reader = "chunks" <=> op = "fetch_peers"
       /\ Reader = "data" <=> op = "stream_map" \/ (op = "session" /\ cl.call = 2)
       /\ Reader = "json" <=> op \notin {"fetch_peers", "stream_map"} /\ ~(op = "session" /\ cl.call = 2))
  BY ReaderFacts
<1> QED
  BY <1>1, PTL

\* The address in a whole answer.
LEMMA ScanWhole ==
    ASSUME srv.held.prefixed \in BOOLEAN
    PROVE  ScanTailscaleIp(Whole) = IF AsksMap(op, cl.call) THEN OwnText ELSE NoIp
<1>1. Skip \in Nat /\ Size \in Nat
  BY SentFacts
<1>2. CASE AsksMap(op, cl.call)
  <2>1. Size = Skip + 8
    BY <1>2 DEF Size
  <2>2. Row(Whole, Size - Skip) /\ \A i \in Skip + 1 .. Size : Sent[i] = Whole[i - Skip]
    BY SentFacts
  <2>3. ASSUME NEW i \in 1 .. Size - Skip
        PROVE  Whole[i] = Sent[Skip + i]
    <3>1. Skip + i \in Skip + 1 .. Size /\ (Skip + i) - Skip = i
      BY <1>1
    <3> QED
      BY <2>2, <3>1
  <2>4. Sliced(Whole, Sent, Skip, Size)
    BY <2>2, <2>3 DEF Sliced
  <2>5. Skip =< Size /\ Size =< Size /\ Skip =< Skip + 1 /\ Size >= Skip + 6
    BY <1>1, <2>1
  <2> QED
    BY <1>1, <1>2, <2>4, <2>5, ScanPart
<1>3. CASE ~AsksMap(op, cl.call)
  <2>1. Whole = RegisterBody(srv.held.auth)
    BY <1>3 DEF Whole, Answer
  <2>2. Row(Whole, 3)
    BY <2>1, RegisterBodyFacts
  <2>3. /\ Whole[1] = B("open") /\ Whole[3] = B("close")
        /\ Whole[2] = B(IF srv.held.auth THEN "auth" ELSE "noauth")
    BY <2>1 DEF RegisterBody
  <2>4. B("open") # Quote /\ B("close") # Quote /\ B("auth") # Quote /\ B("noauth") # Quote
    <3>1. B("open")[2] = "open" /\ B("close")[2] = "close" /\ B("auth")[2] = "auth" /\ B("noauth")[2] = "noauth"
          /\ Quote[2] = "quote"
      BY DEF B, Quote
    <3> QED
      BY <3>1
  <2>5. \A k \in 1 .. 3 : Whole[k] # Quote
    <3>1. Whole[1] # Quote /\ Whole[2] # Quote /\ Whole[3] # Quote
      BY <2>3, <2>4
    <3> QED
      BY <3>1
  <2> QED
    BY <1>3, <2>2, <2>5, NoQuoteNoIp
<1> QED
  BY <1>2, <1>3

\* A call that has read its whole answer.
LEMMA AnsweredKeeps ==
    ASSUME CallInv, cl.stage = "read", Reader = "json", op' = op, ServerKept,
           NEW c, DOMAIN c = ClientFields, c.call = cl.call, c.ip = cl.ip, cl.ip \in {NoIp, OwnText},
           c.status # 0 => \E k \in DOMAIN srv.held.block : srv.held.block[k][3] = c.status,
           cl' = Answered(c, Whole)
    PROVE  CallInv' /\ (cl'.stage \in Ended \/ (cl'.stage = "post" /\ ReadInv(0)'))
<1>1. cl.call \in {1, 2} /\ (cl.call = 2 => op \in {"session", "register_once"})
  BY DEF CallInv
<1>2. op \notin {"fetch_peers", "stream_map"} /\ ~(op = "session" /\ cl.call = 2)
  BY <1>1, ReaderFacts
<1>3. cl.stage \in Reading /\ srv.held \in Holdings(op, cl.call)
  BY DEF CallInv, Reading
<1>4. srv.held.prefixed \in BOOLEAN
  BY <1>3, HoldingFacts
<1>5. /\ DOMAIN srv' = ServerFields
      /\ srv'.held = srv.held /\ srv'.phase = srv.phase /\ srv'.split = srv.split
  BY DEF ServerKept
<1>6. srv.held = NoHoldings \/ \E k \in 1 .. cl.call : srv.held \in Holdings(op, k)
  BY DEF CallInv
<1>7. ASSUME cl'.stage = "done", DOMAIN cl' = ClientFields, cl'.call = cl.call, cl'.ip \in {NoIp, OwnText}, cl'.status = c.status,
             cl.call = 1 => cl'.body = Whole,
             AsksMap(op, 1) /\ op # "update_endpoints" => cl'.ip = OwnText
      PROVE  CallInv' /\ (cl'.stage \in Ended \/ (cl'.stage = "post" /\ ReadInv(0)'))
  <2>1. Whole' = Whole
    BY <1>5, <1>7, SameCall
  <2>2. cl'.stage \in Ended /\ cl'.stage \in Stages /\ cl'.stage \notin Reading
    BY <1>7 DEF Ended, Stages, Reading
  <2> QED
    BY <1>1, <1>2, <1>3, <1>5, <1>6, <1>7, <2>1, <2>2 DEF CallInv, NoStall
<1>8. ASSUME cl'.stage = "post", DOMAIN cl' = ClientFields, cl'.call = 2, cl'.ip \in {NoIp, OwnText}, cl'.status = c.status,
             op \in {"session", "register_once"}, cl.call = 1
      PROVE  CallInv' /\ (cl'.stage \in Ended \/ (cl'.stage = "post" /\ ReadInv(0)'))
  <2>1. cl'.stage \in Stages /\ cl'.stage \notin Reading /\ cl'.stage \in Before
    BY <1>8 DEF Stages, Before, Reading
  <2>2. CallInv'
    <3>1. srv'.held \in Holdings(op', 1) /\ 1 \in 1 .. cl'.call
      BY <1>3, <1>5, <1>8
    <3>2. cl'.call = 2 => op' \in {"session", "register_once"}
      BY <1>8
    <3> QED
      BY <1>5, <1>8, <2>1, <3>1, <3>2 DEF CallInv, NoStall
  <2>3. Reader' # "chunks"
    <3>1. op' # "fetch_peers"
      BY <1>8
    <3>2. (Reader = "chunks" <=> op = "fetch_peers")'
      BY <1>8, ReaderNext
    <3> QED
      BY <3>1, <3>2
  <2>4. ReadInv(0)'
    BY <1>8, <2>1, <2>3 DEF ReadInv
  <2> QED
    BY <1>8, <2>2, <2>4
<1>9. CASE op = "register"
  <2>1. cl' = [c EXCEPT !.stage = "done", !.body = Whole, !.auth = Authorized(Whole)]
    BY <1>9 DEF Answered
  <2>2. cl'.stage = "done" /\ DOMAIN cl' = ClientFields /\ cl'.call = cl.call /\ cl'.ip = c.ip /\ cl'.status = c.status
        /\ cl'.body = Whole
    BY <2>1 DEF ClientFields
  <2>3. ~AsksMap(op, 1)
    BY <1>9 DEF AsksMap
  <2> QED
    BY <1>7, <2>2, <2>3
<1>10. CASE op = "session"
  <2>1. cl' = [c EXCEPT !.stage = "post", !.call = 2, !.auth = Authorized(Whole)]
    BY <1>10 DEF Answered
  <2>2. cl'.stage = "post" /\ DOMAIN cl' = ClientFields /\ cl'.call = 2 /\ cl'.ip = c.ip /\ cl'.status = c.status
    BY <2>1 DEF ClientFields
  <2> QED
    BY <1>1, <1>2, <1>8, <1>10, <2>2
<1>11. CASE op = "register_once" /\ cl.call = 1
  <2>1. PICK au : au = Authorized(Whole)
    OBVIOUS
  <2>2. PICK q : q = (au /\ c.ip = NoIp)
    OBVIOUS
  <2>3. cl' = [c EXCEPT !.auth = au, !.stage = IF q THEN "post" ELSE "done", !.call = IF q THEN 2 ELSE 1, !.body = Whole]
    BY <1>11, <2>1, <2>2 DEF Answered
  <2>4. ~AsksMap(op, 1)
    BY <1>11 DEF AsksMap
  <2>5. DOMAIN cl' = ClientFields /\ cl'.ip = c.ip /\ cl'.status = c.status /\ cl'.body = Whole
        /\ cl'.stage = (IF q THEN "post" ELSE "done") /\ cl'.call = (IF q THEN 2 ELSE 1)
    BY <2>3 DEF ClientFields
  <2>6. CASE q
    BY <1>8, <1>11, <2>5, <2>6
  <2>7. CASE ~q
    BY <1>7, <1>11, <2>4, <2>5, <2>7
  <2> QED
    BY <2>6, <2>7
<1>12. CASE op = "update_endpoints"
  <2>1. cl' = [c EXCEPT !.stage = "done", !.body = Whole]
    BY <1>12 DEF Answered
  <2>2. cl'.stage = "done" /\ DOMAIN cl' = ClientFields /\ cl'.call = cl.call /\ cl'.ip = c.ip /\ cl'.status = c.status
        /\ cl'.body = Whole
    BY <2>1 DEF ClientFields
  <2> QED
    BY <1>7, <1>12, <2>2
<1>13. CASE op \notin {"register", "session", "update_endpoints"} /\ ~(op = "register_once" /\ cl.call = 1)
  <2>1. PICK ip : ip = ScanTailscaleIp(Whole)
    OBVIOUS
  <2>2. cl' = [c EXCEPT !.stage = "done", !.body = Whole, !.ip = ip]
    BY <1>13, <2>1 DEF Answered
  <2>3. cl'.stage = "done" /\ DOMAIN cl' = ClientFields /\ cl'.call = cl.call /\ cl'.ip = ip /\ cl'.status = c.status
        /\ cl'.body = Whole
    BY <2>2 DEF ClientFields
  <2>4. ip = IF AsksMap(op, cl.call) THEN OwnText ELSE NoIp
    BY <1>4, <2>1, ScanWhole
  <2>5. AsksMap(op, 1) => AsksMap(op, cl.call)
    BY DEF AsksMap
  <2> QED
    BY <1>7, <2>3, <2>4, <2>5
<1> QED
  BY <1>9, <1>10, <1>11, <1>12, <1>13

\* read_response: the bytes of the answer in their order, up to the frame
\* that ends the stream.
LEMMA ReadResponseKeeps ==
    ASSUME ControlInv, ReadResponse
    PROVE  ControlInv'
<1>1. /\ cl.stage = "read" /\ Reader = "json" /\ PlainReady /\ op' = op /\ net' = net /\ rxc' = rxc /\ nonce' = nonce
      /\ rxh' = Drop(rxh, ReadFrame.len) /\ cl.stage \in Reading /\ cl.stage \notin Ended /\ cl.stage # "post"
      /\ cl.stage \notin Before /\ cl.stage # "hold"
  BY DEF ReadResponse, Reading, Ended, Before
<1>2. CallInv /\ DOMAIN srv = ServerFields /\ DOMAIN cl = ClientFields /\ srv.held \in Holdings(op, cl.call)
      /\ cl.call \in {1, 2} /\ (cl.call = 2 => op \in {"session", "register_once"})
      /\ (cl.status # 0 => \E k \in DOMAIN srv.held.block : srv.held.block[k][3] = cl.status)
  BY <1>1 DEF ControlInv, CallInv
<1>3. srv.held.prefixed \in BOOLEAN /\ srv.held.block \in Blocks
  BY <1>2, HoldingFacts
<1>4. PICK f : f = ReadFrame
  OBVIOUS
<1>5. PICK body : body = IF f.typ = "data" THEN cl.body \o f.payload ELSE cl.body
  OBVIOUS
<1>6. PICK status : status = IF f.typ = "headers" /\ DecodeStatus(f.payload) # 0 THEN DecodeStatus(f.payload) ELSE cl.status
  OBVIOUS
<1>7. PICK next : next = [cl EXCEPT !.body = body, !.status = status]
  OBVIOUS
<1>8. /\ CASE ~Mine(f)          -> UNCHANGED cl
           [] f.typ = "goaway"  -> Fails("failed")
           [] f.typ \in {"headers", "data"} /\ f.flag ->
                  cl' = Answered(next, StripWirePrefix(body))
           [] OTHER             -> cl' = next
      /\ srv' = IF Mine(f) /\ f.typ = "data" THEN WindowUpdate(Len(f.payload)) ELSE Acked(f)
  BY <1>4, <1>5, <1>6, <1>7 DEF ReadResponse
<1>9. Sid \in Nat
  BY <1>2 DEF Sid
<1>10. Mine(f) => srv' = Took1(f)
  BY <1>8 DEF Took1
<1>11. \A b, b2 : Came(f, b, b2) => Mine(f)
  BY DEF Came, CameExtra, CameBlock, CameTrailers, CameBytes, Mine
<1>12. Mine(f)
  <2>1. \E b, b2 : Came(ReadFrame, b, b2)
    BY <1>1, FrameComes
  <2> QED
    BY <1>4, <1>11, <2>1
<1>13. PICK b, b2 :
          /\ Came(f, b, b2) /\ ReadInv(b) /\ ServerKept
          /\ ReadsOn(b2) => ControlInv'
          /\ AsksAgain => ControlInv'
  <2>1. srv' = Took1(ReadFrame)
    BY <1>4, <1>10, <1>12
  <2> QED
    BY <1>1, <1>4, <2>1, ReadStep
<1>14. /\ DOMAIN srv' = ServerFields
       /\ srv'.held = srv.held /\ srv'.phase = srv.phase /\ srv'.split = srv.split
  BY <1>13 DEF ServerKept
<1>15. cl.ip \in {NoIp, OwnText} /\ Sliced(cl.body, Sent, 0, b)
  BY <1>1, <1>13 DEF ReadInv
<1>16. b \in Nat /\ b2 \in Nat /\ b2 =< Size
  BY <1>13 DEF Came
<1>17. Sliced(body, Sent, 0, b2)
  <2>1. CASE f.typ = "data"
    <3>1. CameBytes(f, b, b2)
      BY <1>13, <2>1 DEF Came, CameExtra, CameBlock, CameTrailers, ExtraTypes
    <3>2. Sliced(f.payload, Sent, b, b2)
      BY <3>1 DEF CameBytes
    <3>3. body = cl.body \o f.payload
      BY <1>5, <2>1
    <3>4. PICK z : z = 0
      OBVIOUS
    <3>5. z \in Nat /\ Sliced(cl.body, Sent, z, b)
      BY <1>15, <3>4
    <3>6. Sliced(body, Sent, z, b2)
      BY <1>16, <3>2, <3>3, <3>5, SlicedJoin
    <3> QED
      BY <3>4, <3>6
  <2>2. CASE f.typ # "data"
    <3>1. b2 = b
      BY <1>13, <2>2 DEF Came, CameExtra, CameBlock, CameTrailers, CameBytes
    <3> QED
      BY <1>5, <1>15, <2>2, <3>1
  <2> QED
    BY <2>1, <2>2
<1>18. status # 0 => \E k \in DOMAIN srv.held.block : srv.held.block[k][3] = status
  <2>1. CASE f.typ = "headers" /\ DecodeStatus(f.payload) # 0
    <3>1. status = DecodeStatus(f.payload)
      BY <1>6, <2>1
    <3>2. f.payload = srv.held.block \/ f.payload = <<>>
      BY <1>13, <2>1 DEF Came, CameExtra, CameBlock, CameTrailers, CameBytes, ExtraTypes
    <3>3. CASE f.payload = srv.held.block
      <4>1. PICK n : Row(srv.held.block, n)
        BY <1>3, BlockFacts
      <4>2. \E k \in DOMAIN srv.held.block : srv.held.block[k][3] = DecodeStatus(srv.held.block)
        BY <2>1, <3>3, <4>1, StatusFacts
      <4> QED
        BY <3>1, <3>3, <4>2
    <3>4. CASE f.payload = <<>>
      <4>1. Row(<<>>, 0)
        BY EmptyRow
      <4>2. \E k \in DOMAIN <<>> : <<>>[k][3] = DecodeStatus(<<>>)
        BY <2>1, <3>4, <4>1, StatusFacts
      <4> QED
        BY <4>2
    <3> QED
      BY <3>2, <3>3, <3>4
  <2>2. CASE ~(f.typ = "headers" /\ DecodeStatus(f.payload) # 0)
    BY <1>2, <1>6, <2>2
  <2> QED
    BY <2>1, <2>2
<1>19. /\ DOMAIN next = ClientFields /\ next.call = cl.call /\ next.ip = cl.ip /\ next.status = status
       /\ next.body = body /\ next.stage = cl.stage
  BY <1>2, <1>7 DEF ClientFields
<1>20. CASE f.typ = "goaway"
  <2>1. Fails("failed")
    BY <1>8, <1>12, <1>20
  <2> QED
    BY <1>1, <1>14, <2>1, FailKeeps
<1>21. CASE Ends(f)
  <2>1. f.typ \in {"headers", "data"} /\ f.flag = TRUE /\ f.typ # "goaway"
    BY <1>21 DEF Ends
  <2>2. cl' = Answered(next, StripWirePrefix(body))
    BY <1>8, <1>12, <2>1
  <2>3. b2 = Size
    BY <1>13, <2>1 DEF Came, CameExtra, CameBlock, CameTrailers, CameBytes, ExtraTypes
  <2>4. StripWirePrefix(body) = Whole
    <3>1. Skip \in Nat /\ Size \in Nat /\ Skip < Size
      BY <1>3, SentFacts
    <3>2. Sliced(StripWirePrefix(body), Sent, Skip, b2)
      <4>1. b2 >= 1 /\ b2 > Skip
        BY <2>3, <3>1
      <4> QED
        BY <1>3, <1>16, <1>17, <4>1, StripFacts
    <3>3. Skip =< b2
      BY <2>3, <3>1
    <3> QED
      BY <1>3, <1>16, <2>3, <3>2, <3>3, AfterPrefix
  <2>5. CallInv' /\ (cl'.stage \in Ended \/ (cl'.stage = "post" /\ ReadInv(0)'))
    <3>1. cl' = Answered(next, Whole)
      BY <2>2, <2>4
    <3>2. next.status # 0 => \E k \in DOMAIN srv.held.block : srv.held.block[k][3] = next.status
      BY <1>18, <1>19
    <3> QED
      BY <1>1, <1>2, <1>13, <1>15, <1>19, <3>1, <3>2, AnsweredKeeps
  <2>6. CASE cl'.stage \in Ended
    BY <2>5, <2>6 DEF ControlInv
  <2>7. CASE cl'.stage = "post" /\ ReadInv(0)'
    BY <1>4, <1>13, <1>21, <2>5, <2>7 DEF AsksAgain
  <2> QED
    BY <2>5, <2>6, <2>7
<1>22. CASE f.typ # "goaway" /\ ~Ends(f)
  <2>1. ~(f.typ \in {"headers", "data"} /\ f.flag)
    <3>1. f.flag \in BOOLEAN
      BY <1>13 DEF Came, CameExtra, CameBlock, CameTrailers, CameBytes
    <3> QED
      BY <1>22, <3>1 DEF Ends
  <2>2. cl' = next
    BY <1>8, <1>12, <1>22, <2>1
  <2>3. cl'.stage = "read" /\ cl'.call = cl.call /\ cl'.ip = cl.ip /\ cl'.body = body /\ cl'.status = status
        /\ DOMAIN cl' = ClientFields
    BY <1>1, <1>19, <2>2
  <2>4. cl'.stage \in Reading /\ cl'.stage \notin Before /\ cl'.stage # "hold"
    BY <2>3 DEF Reading, Before
  <2>5. CallInv'
    BY <1>1, <1>2, <1>14, <1>15, <1>18, <2>3, <2>4, CallGoesOn
  <2>6. Sent' = Sent /\ Reader' = Reader
    BY <1>1, <1>14, <2>3, SameCall
  <2>7. ReadInv(b2)'
    BY <1>1, <1>15, <1>17, <2>3, <2>4, <2>6 DEF ReadInv
  <2>8. ReadsOn(b2)
    BY <1>4, <1>22, <2>3, <2>4, <2>5, <2>7 DEF ReadsOn
  <2> QED
    BY <1>13, <2>8
<1> QED
  BY <1>20, <1>21, <1>22

\* fetch_peers fails, with what it has read so far.
LEMMA ChunksFail ==
    ASSUME CallInv, cl.stage \in Reading, op = "fetch_peers", op' = op, ServerKept,
           DOMAIN cl' = ClientFields, cl'.stage = "failed", cl'.call = cl.call, cl'.status = cl.status,
           cl'.ip \in {NoIp, OwnText} \/ "address" \in srv.split,
           "prefix" \notin srv.split => IsPrefix(cl'.body, Whole)
    PROVE  ControlInv'
<1>1. /\ DOMAIN srv' = ServerFields
      /\ srv'.held = srv.held /\ srv'.phase = srv.phase /\ srv'.split = srv.split
  BY DEF ServerKept
<1>2. cl.call \in {1, 2} /\ (cl.call = 2 => op \in {"session", "register_once"})
  BY DEF CallInv
<1>3. cl.call = 1
  BY <1>2
<1>4. Whole' = Whole /\ Reader' = Reader
  BY <1>1, SameCall
<1>5. Reader # "json"
  BY <1>2, ReaderFacts
<1>6. cl'.stage \in Stages /\ cl'.stage \in Ended /\ cl'.stage \notin Reading
  BY DEF Stages, Ended, Reading
<1>7. srv.held = NoHoldings \/ \E k \in 1 .. cl.call : srv.held \in Holdings(op, k)
  BY DEF CallInv
<1>8. cl.status # 0 => \E k \in DOMAIN srv.held.block : srv.held.block[k][3] = cl.status
  BY DEF CallInv
<1>9. CallInv'
  BY <1>1, <1>3, <1>4, <1>5, <1>6, <1>7, <1>8 DEF CallInv, NoStall
<1> QED
  BY <1>6, <1>9 DEF ControlInv

\* fetch_peers has the whole answer.
LEMMA ParsedKeeps ==
    ASSUME CallInv, cl.stage \in Reading, op = "fetch_peers", op' = op, ServerKept,
           NEW c, DOMAIN c = ClientFields, c.call = cl.call, c.status = cl.status,
           c.ip = OwnText \/ "address" \in srv.split, Sliced(c.body, Sent, Skip, Size),
           NEW m \in Netmaps, cl' = Parsed(c, m)
    PROVE  ControlInv'
<1>1. /\ DOMAIN srv' = ServerFields
      /\ srv'.held = srv.held /\ srv'.phase = srv.phase /\ srv'.split = srv.split
  BY DEF ServerKept
<1>2. cl.call \in {1, 2} /\ (cl.call = 2 => op \in {"session", "register_once"})
      /\ srv.held \in Holdings(op, cl.call)
  BY DEF CallInv
<1>3. cl.call = 1 /\ srv.held.prefixed \in BOOLEAN
  BY <1>2, HoldingFacts
<1>4. Skip \in Nat /\ Size \in Nat /\ Skip =< Size /\ Size =< Size
  BY <1>3, SentFacts
<1>5. c.body = Whole /\ IsPrefix(c.body, Whole)
  BY <1>3, <1>4, AfterPrefix
<1>6. CASE cl' = [c EXCEPT !.stage = "failed"]
  <2>1. DOMAIN cl' = ClientFields /\ cl'.stage = "failed" /\ cl'.call = cl.call /\ cl'.status = cl.status
        /\ cl'.ip = c.ip /\ cl'.body = c.body
    BY <1>6 DEF ClientFields
  <2> QED
    BY <1>5, <2>1, ChunksFail
<1>7. CASE cl' = [c EXCEPT !.stage = "done", !.netmap = {m},
                           !.allowed = AllowedSrcs(m.acl, c.ip),
                           !.peers = ParsePeers(m.peers)]
  <2>1. PICK al, pe : al = AllowedSrcs(m.acl, c.ip) /\ pe = ParsePeers(m.peers)
    OBVIOUS
  <2>2. cl' = [c EXCEPT !.stage = "done", !.netmap = {m}, !.allowed = al, !.peers = pe]
    BY <1>7, <2>1
  <2>3. DOMAIN cl' = ClientFields /\ cl'.stage = "done" /\ cl'.call = cl.call /\ cl'.status = cl.status
        /\ cl'.ip = c.ip /\ cl'.body = c.body /\ cl'.netmap = {m} /\ cl'.allowed = al
    BY <2>2 DEF ClientFields
  <2>4. cl'.allowed = AllowedSrcs(m.acl, cl'.ip)
    BY <2>1, <2>3
  <2>5. Whole' = Whole /\ Reader' = Reader
    BY <1>1, <2>3, SameCall
  <2>6. Reader # "json"
    BY <1>2, ReaderFacts
  <2>7. cl'.stage \in Stages /\ cl'.stage \in Ended /\ cl'.stage \notin Reading
    BY <2>3 DEF Stages, Ended, Reading
  <2>8. srv.held = NoHoldings \/ \E k \in 1 .. cl.call : srv.held \in Holdings(op, k)
    BY DEF CallInv
  <2>9. cl.status # 0 => \E k \in DOMAIN srv.held.block : srv.held.block[k][3] = cl.status
    BY DEF CallInv
  <2>10. \E x \in Netmaps : cl'.netmap = {x} /\ cl'.allowed = AllowedSrcs(x.acl, cl'.ip)
    BY <2>3, <2>4
  <2>11. cl'.body = Whole'
    BY <1>5, <2>3, <2>5
  <2>12. cl'.ip \in {NoIp, OwnText} \/ (Reader' # "json" /\ "address" \in srv'.split)
    BY <1>1, <2>3, <2>5, <2>6
  <2>13. "address" \notin srv'.split => cl'.ip = OwnText
    BY <1>1, <2>3
  <2>14. CallInv'
    BY <1>1, <1>2, <1>3, <2>3, <2>7, <2>8, <2>9, <2>10, <2>11, <2>12, <2>13 DEF CallInv, NoStall
  <2> QED
    BY <2>7, <2>14 DEF ControlInv
<1> QED
  BY <1>6, <1>7 DEF Parsed

\* The address in a chunk, unless a DATA frame ends in its text.
LEMMA ChunkAddress ==
    ASSUME NEW w, NEW b, NEW b2, b \in Nat, b2 \in Nat, b =< b2, b2 =< Size, Sliced(w, Sent, b, b2),
           srv.held.prefixed \in BOOLEAN, AsksMap(op, cl.call), b2 \notin Skip + 2 .. Skip + 5, b =< Skip + 1
    PROVE  ScanTailscaleIp(w) = OwnText \/ (ScanTailscaleIp(w) = NoIp /\ b2 =< Skip + 1)
<1>1. Skip \in Nat
  BY SentFacts
<1>2. b2 >= Skip + 6 \/ (b2 =< Skip + 3 /\ b2 =< Skip + 1)
  BY <1>1
<1>3. CASE b2 >= Skip + 6
  BY <1>3, ScanPart
<1>4. CASE b2 =< Skip + 3 /\ b2 =< Skip + 1
  BY <1>4, ScanPart
<1> QED
  BY <1>2, <1>3, <1>4

\* read_response_chunk and H2Body::read under the JSON parser.
LEMMA ReadChunkKeeps ==
    ASSUME ControlInv, NEW m \in Netmaps, ReadChunk(m)
    PROVE  ControlInv'
<1>1. /\ cl.stage = "read" /\ Reader = "chunks" /\ PlainReady /\ op' = op /\ net' = net /\ rxc' = rxc /\ nonce' = nonce
      /\ rxh' = Drop(rxh, ReadFrame.len) /\ cl.stage \in Reading /\ cl.stage \notin Ended /\ cl.stage # "post"
      /\ cl.stage \notin Before /\ cl.stage # "hold" /\ Reader # "json" /\ Reader # "data"
  BY DEF ReadChunk, Reading, Ended, Before
<1>2. CallInv /\ DOMAIN srv = ServerFields /\ DOMAIN cl = ClientFields /\ srv.held \in Holdings(op, cl.call)
      /\ cl.call \in {1, 2} /\ (cl.call = 2 => op \in {"session", "register_once"})
      /\ (cl.status # 0 => \E k \in DOMAIN srv.held.block : srv.held.block[k][3] = cl.status)
      /\ (cl.ip \in {NoIp, OwnText} \/ "address" \in srv.split)
  BY <1>1 DEF ControlInv, CallInv
<1>3. srv.held.prefixed \in BOOLEAN /\ op = "fetch_peers" /\ AsksMap(op, cl.call)
  BY <1>1, <1>2, HoldingFacts, ReaderFacts DEF AsksMap
<1>4. PICK f : f = ReadFrame
  OBVIOUS
<1>5. PICK chunk : chunk = IF cl.stripped THEN f.payload ELSE StripWirePrefix(f.payload)
  OBVIOUS
<1>6. PICK ip : ip = IF cl.ip = NoIp THEN ScanTailscaleIp(f.payload) ELSE cl.ip
  OBVIOUS
<1>7. PICK next : next = [cl EXCEPT !.body = @ \o chunk, !.stripped = TRUE, !.ip = ip]
  OBVIOUS
<1>8. /\ CASE ~Mine(f)         -> UNCHANGED cl
           [] f.typ = "goaway" -> Fails("failed")
           [] f.typ = "data" /\ f.payload # <<>> ->
                  cl' = IF next.body[1] # B("open") THEN [next EXCEPT !.stage = "failed"]
                        ELSE IF f.flag THEN Parsed(next, m) ELSE next
           [] f.typ \in {"headers", "data"} /\ f.payload = <<>> /\ f.flag -> cl' = Parsed(cl, m)
           [] OTHER            -> UNCHANGED cl
      /\ srv' = IF Mine(f) /\ f.typ = "data" THEN WindowUpdate(Len(f.payload)) ELSE Acked(f)
  BY <1>4, <1>5, <1>6, <1>7 DEF ReadChunk
<1>9. Sid \in Nat
  BY <1>2 DEF Sid
<1>10. Mine(f) => srv' = Took1(f)
  BY <1>8 DEF Took1
<1>11. \A b, b2 : Came(f, b, b2) => Mine(f)
  BY DEF Came, CameExtra, CameBlock, CameTrailers, CameBytes, Mine
<1>12. Mine(f)
  <2>1. \E b, b2 : Came(ReadFrame, b, b2)
    BY <1>1, FrameComes
  <2> QED
    BY <1>4, <1>11, <2>1
<1>13. PICK b, b2 :
          /\ Came(f, b, b2) /\ ReadInv(b) /\ ServerKept
          /\ ReadsOn(b2) => ControlInv'
  <2>1. srv' = Took1(ReadFrame)
    BY <1>4, <1>10, <1>12
  <2> QED
    BY <1>1, <1>4, <2>1, ReadStep
<1>14. /\ DOMAIN srv' = ServerFields
       /\ srv'.held = srv.held /\ srv'.phase = srv.phase /\ srv'.split = srv.split
  BY <1>13 DEF ServerKept
<1>15. /\ IF cl.stripped THEN b > Skip /\ Sliced(cl.body, Sent, Skip, b) ELSE b = 0 /\ cl.body = <<>>
       /\ "address" \in srv.split \/ cl.ip = OwnText \/ (cl.ip = NoIp /\ b =< Skip + 1)
  BY <1>1, <1>13 DEF ReadInv
<1>16. b \in Nat /\ b2 \in Nat /\ b2 =< Size /\ b =< b2 /\ f.flag \in BOOLEAN
  <2>1. b \in Nat /\ b2 \in Nat /\ b2 =< Size
    BY <1>13 DEF Came
  <2>2. b2 = b \/ b =< b2
    BY <1>13 DEF Came, CameExtra, CameBlock, CameTrailers, CameBytes
  <2>3. f.flag \in BOOLEAN
    BY <1>13 DEF Came, CameExtra, CameBlock, CameTrailers, CameBytes
  <2> QED
    BY <2>1, <2>2, <2>3
<1>17. Skip \in Nat /\ Size \in Nat /\ Skip < Size
  BY <1>3, SentFacts
<1>18. OwnText # NoIp
  BY TextFacts DEF NoIp
<1>19. CASE f.typ = "goaway"
  <2>1. Fails("failed")
    BY <1>8, <1>12, <1>19
  <2> QED
    BY <1>1, <1>14, <2>1, FailKeeps
<1>20. CASE f.typ = "data" /\ f.payload # <<>>
  <2>1. CameBytes(f, b, b2)
    BY <1>13, <1>20 DEF Came, CameExtra, CameBlock, CameTrailers, ExtraTypes
  <2>2. /\ b =< b2 /\ Sliced(f.payload, Sent, b, b2)
        /\ f.flag = TRUE => b2 = Size
        /\ "prefix" \notin srv.split => ~(b = 0 /\ b2 \in 1 .. Skip)
        /\ "address" \notin srv.split => b2 \notin Skip + 2 .. Skip + 5
    BY <1>3, <2>1 DEF CameBytes
  <2>3. b < b2
    <3>1. SUFFICES ASSUME b = b2 PROVE FALSE
      BY <1>16
    <3>2. Row(f.payload, b2 - b) /\ b2 - b = 0
      BY <1>16, <2>2, <3>1 DEF Sliced
    <3>3. Row(f.payload, 0)
      BY <3>2
    <3> QED
      BY <1>20, <3>3, EmptyRow
  <2>4. cl' = IF next.body[1] # B("open") THEN [next EXCEPT !.stage = "failed"]
              ELSE IF f.flag THEN Parsed(next, m) ELSE next
    BY <1>8, <1>12, <1>20
  <2>5. /\ DOMAIN next = ClientFields /\ next.call = cl.call /\ next.ip = ip /\ next.status = cl.status
        /\ next.body = cl.body \o chunk /\ next.stage = cl.stage /\ next.stripped = TRUE
    BY <1>2, <1>7 DEF ClientFields
  <2>6. \/ b2 > Skip /\ Sliced(next.body, Sent, Skip, b2)
        \/ b2 =< Skip /\ next.body[1] # B("open") /\ "prefix" \in srv.split
    <3>1. CASE cl.stripped
      <4>1. b > Skip /\ Sliced(cl.body, Sent, Skip, b) /\ chunk = f.payload
        BY <1>5, <1>15, <3>1
      <4>2. Sliced(cl.body \o chunk, Sent, Skip, b2)
        BY <1>16, <1>17, <2>2, <4>1, SlicedJoin
      <4>3. Sliced(next.body, Sent, Skip, b2)
        BY <2>5, <4>2
      <4>4. b > Skip
        BY <4>1
      <4>5. b2 > Skip
        BY <1>16, <1>17, <2>3, <4>4
      <4> QED
        BY <4>3, <4>5
    <3>2. CASE ~cl.stripped
      <4>1. b = 0 /\ cl.body = <<>> /\ chunk = StripWirePrefix(f.payload)
        BY <1>5, <1>15, <3>2
      <4>9. b = 0
        BY <4>1
      <4>2. Sliced(f.payload, Sent, 0, b2) /\ b2 >= 1
        <5>1. Sliced(f.payload, Sent, b, b2)
          BY <2>2
        <5>2. Sliced(f.payload, Sent, 0, b2)
          BY <4>9, <5>1
        <5>3. b2 >= 1
          BY <1>16, <2>3, <4>9
        <5> QED
          BY <5>2, <5>3
      <4>3. /\ b2 > Skip => Sliced(chunk, Sent, Skip, b2)
            /\ b2 =< Skip => chunk = f.payload
        BY <1>3, <1>16, <4>1, <4>2, StripFacts
      <4>4. CASE b2 > Skip
        <5>1. PICK w : w = Sent
          OBVIOUS
        <5>2. Sliced(cl.body, w, Skip, Skip)
          BY <1>17, <4>1, EmptyRow DEF Sliced
        <5>3. Sliced(cl.body \o chunk, w, Skip, b2)
          BY <1>16, <1>17, <4>3, <4>4, <5>1, <5>2, SlicedJoin
        <5> QED
          BY <2>5, <4>4, <5>1, <5>3
      <4>5. CASE b2 =< Skip
        <5>1. PICK w, z : w = Sent /\ z = 0
          OBVIOUS
        <5>2. Sliced(cl.body, w, z, z) /\ z \in Nat
          BY <4>1, <5>1, EmptyRow DEF Sliced
        <5>3. Sliced(chunk, w, z, b2)
          BY <4>2, <4>3, <4>5, <5>1
        <5>4. Sliced(cl.body \o chunk, w, z, b2)
          BY <1>16, <5>2, <5>3, SlicedJoin
        <5>5. Sliced(next.body, Sent, 0, b2)
          BY <2>5, <5>1, <5>4
        <5>6. next.body[1] # B("open")
          BY <1>3, <1>16, <4>2, <4>5, <5>5, StripFacts
        <5>7. b2 \in 1 .. Skip
          BY <1>16, <1>17, <4>2, <4>5
        <5> QED
          BY <2>2, <4>1, <4>5, <5>6, <5>7
      <4> QED
        BY <1>16, <1>17, <4>4, <4>5
    <3> QED
      BY <3>1, <3>2
  <2>7. "address" \in srv.split \/ ip = OwnText \/ (ip = NoIp /\ b2 =< Skip + 1)
    <3>1. SUFFICES ASSUME "address" \notin srv.split PROVE ip = OwnText \/ (ip = NoIp /\ b2 =< Skip + 1)
      OBVIOUS
    <3>2. CASE cl.ip = OwnText
      BY <1>6, <1>18, <3>2
    <3>3. CASE cl.ip = NoIp /\ b =< Skip + 1
      <4>1. ip = ScanTailscaleIp(f.payload)
        BY <1>6, <3>3
      <4>2. b2 \notin Skip + 2 .. Skip + 5
        BY <2>2, <3>1
      <4> QED
        BY <1>3, <1>16, <2>2, <3>3, <4>1, <4>2, ChunkAddress
    <3> QED
      BY <1>15, <3>1, <3>2, <3>3
  <2>8. ip \in {NoIp, OwnText} \/ "address" \in srv.split
    BY <2>7
  <2>9. b2 > Skip => IsPrefix(next.body, Whole) /\ next.body[1] = B("open")
    <3>1. SUFFICES ASSUME b2 > Skip PROVE IsPrefix(next.body, Whole) /\ next.body[1] = B("open")
      OBVIOUS
    <3>2. Sliced(next.body, Sent, Skip, b2) /\ Skip =< b2
      BY <1>16, <1>17, <2>6, <3>1
    <3> QED
      BY <1>3, <1>16, <3>1, <3>2, AfterPrefix
  <2>10. CASE next.body[1] # B("open")
    <3>1. cl' = [next EXCEPT !.stage = "failed"]
      BY <2>4, <2>10
    <3>2. DOMAIN cl' = ClientFields /\ cl'.stage = "failed" /\ cl'.call = cl.call /\ cl'.status = cl.status
          /\ cl'.ip = ip
      BY <2>5, <3>1 DEF ClientFields
    <3>3. "prefix" \in srv.split
      BY <2>6, <2>9, <2>10
    <3> QED
      BY <1>1, <1>2, <1>3, <1>13, <2>8, <3>2, <3>3, ChunksFail
  <2>11. CASE next.body[1] = B("open") /\ f.flag
    <3>1. cl' = Parsed(next, m)
      BY <2>4, <2>11
    <3>2. b2 = Size
      BY <1>16, <2>2, <2>11
    <3>3. Sliced(next.body, Sent, Skip, Size)
      BY <2>6, <2>11, <3>2
    <3>4. next.ip = OwnText \/ "address" \in srv.split
      <4>1. Size = Skip + 8
        BY <1>3 DEF Size
      <4>2. ~(b2 =< Skip + 1)
        BY <1>17, <3>2, <4>1
      <4> QED
        BY <2>5, <2>7, <4>2
    <3> QED
      BY <1>1, <1>2, <1>3, <1>13, <2>5, <3>1, <3>3, <3>4, ParsedKeeps
  <2>12. CASE next.body[1] = B("open") /\ ~f.flag
    <3>1. cl' = next
      BY <2>4, <2>12
    <3>2. b2 > Skip /\ Sliced(next.body, Sent, Skip, b2)
      BY <2>6, <2>12
    <3>3. cl'.stage = "read" /\ cl'.call = cl.call /\ cl'.ip = ip /\ cl'.body = next.body /\ cl'.status = cl.status
          /\ DOMAIN cl' = ClientFields /\ cl'.stripped
      BY <1>1, <2>5, <3>1
    <3>4. cl'.stage \in Reading /\ cl'.stage \notin Before /\ cl'.stage # "hold"
      BY <3>3 DEF Reading, Before
    <3>5. CallInv'
      BY <1>1, <1>2, <1>14, <2>8, <3>3, <3>4, CallGoesOn
    <3>6. Sent' = Sent /\ Reader' = Reader /\ Skip' = Skip
      BY <1>1, <1>14, <3>3, SameCall
    <3>7. ReadInv(b2)'
      BY <1>1, <1>14, <2>7, <3>2, <3>3, <3>4, <3>6 DEF ReadInv
    <3>8. ~Ends(f)
      BY <2>12 DEF Ends
    <3>9. ReadsOn(b2)
      BY <1>4, <3>3, <3>4, <3>5, <3>7, <3>8 DEF ReadsOn
    <3> QED
      BY <1>13, <3>9
  <2> QED
    BY <2>10, <2>11, <2>12
<1>21. CASE f.typ \in {"headers", "data"} /\ f.payload = <<>> /\ f.flag
  <2>1. cl' = Parsed(cl, m)
    BY <1>8, <1>12, <1>21
  <2>2. b2 = Size /\ b = b2
    <3>1. CASE f.typ = "headers"
      BY <1>13, <1>21, <3>1 DEF Came, CameExtra, CameBlock, CameTrailers, CameBytes, ExtraTypes
    <3>2. CASE f.typ = "data"
      <4>1. CameBytes(f, b, b2)
        BY <1>13, <3>2 DEF Came, CameExtra, CameBlock, CameTrailers, ExtraTypes
      <4>2. b2 = Size /\ Row(<<>>, b2 - b)
        BY <1>16, <1>21, <4>1 DEF CameBytes, Sliced
      <4>3. b2 - b = 0
        BY <4>2, EmptyRow, RowFacts
      <4> QED
        BY <1>16, <4>2, <4>3
    <3> QED
      BY <1>21, <3>1, <3>2
  <2>3. Sliced(cl.body, Sent, Skip, Size)
    BY <1>15, <1>17, <2>2
  <2>4. cl.ip = OwnText \/ "address" \in srv.split
    <3>1. Size = Skip + 8
      BY <1>3 DEF Size
    <3>2. ~(b =< Skip + 1)
      BY <1>17, <2>2, <3>1
    <3> QED
      BY <1>15, <3>2
  <2> QED
    BY <1>1, <1>2, <1>3, <1>13, <2>1, <2>3, <2>4, ParsedKeeps
<1>22. CASE f.typ # "goaway" /\ ~(f.typ = "data" /\ f.payload # <<>>)
            /\ ~(f.typ \in {"headers", "data"} /\ f.payload = <<>> /\ f.flag)
  <2>1. cl' = cl
    BY <1>8, <1>12, <1>22
  <2>2. b2 = b
    <3>1. CASE f.typ = "data"
      <4>1. CameBytes(f, b, b2)
        BY <1>13, <3>1 DEF Came, CameExtra, CameBlock, CameTrailers, ExtraTypes
      <4>2. Row(<<>>, b2 - b)
        BY <1>22, <3>1, <4>1 DEF CameBytes, Sliced
      <4>3. b2 - b = 0
        BY <4>2, EmptyRow, RowFacts
      <4> QED
        BY <1>16, <4>3
    <3>2. CASE f.typ # "data"
      BY <1>13, <3>2 DEF Came, CameExtra, CameBlock, CameTrailers, CameBytes
    <3> QED
      BY <3>1, <3>2
  <2>3. ~Ends(f)
    <3>1. SUFFICES ASSUME Ends(f) PROVE FALSE
      OBVIOUS
    <3>2. f.typ \in {"headers", "data"} /\ f.flag = TRUE
      BY <3>1 DEF Ends
    <3>3. f.typ = "headers" /\ f.payload # <<>>
      BY <1>22, <3>2
    <3> QED
      BY <1>13, <3>2, <3>3 DEF Came, CameExtra, CameBlock, CameTrailers, CameBytes, ExtraTypes
  <2>4. CallInv'
    BY <1>1, <1>2, <1>14, <2>1, CallKept DEF Ended
  <2>5. ReadInv(b2)'
    BY <1>1, <1>13, <1>14, <2>1, <2>2, ReadKept
  <2>6. ReadsOn(b2)
    BY <1>1, <1>4, <2>1, <2>3, <2>4, <2>5 DEF ReadsOn
  <2> QED
    BY <1>13, <2>6
<1> QED
  BY <1>19, <1>20, <1>21, <1>22

\* What the scan of a long poll's chunk finds.
LEMMA PollAddress ==
    ASSUME NEW w, NEW b, NEW b2, b \in Nat, b2 \in Nat, b =< b2, b2 =< Size, Sliced(w, Sent, b, b2),
           srv.held.prefixed \in BOOLEAN, AsksMap(op, cl.call), b2 \notin Skip + 2 .. Skip + 5
    PROVE  ScanTailscaleIp(w) \in {NoIp, OwnText}
<1>1. Skip \in Nat
  BY SentFacts
<1>2. b >= Skip + 2 \/ (b =< Skip + 1 /\ b2 >= Skip + 6) \/ b2 =< Skip + 3
  BY <1>1
<1>3. CASE b >= Skip + 2 \/ b2 =< Skip + 3
  <2>1. ScanTailscaleIp(w) = NoIp
    BY <1>3, ScanPart
  <2> QED
    BY <2>1
<1>4. CASE b =< Skip + 1 /\ b2 >= Skip + 6
  <2>1. ScanTailscaleIp(w) = OwnText
    BY <1>4, ScanPart
  <2> QED
    BY <2>1
<1> QED
  BY <1>2, <1>3, <1>4

\* The scan buffer of the session, when no address has been found in it.
SessionHolds(body, b) ==
    b =< Skip + 3 /\ \E s \in 0 .. Skip + 1 : s =< b /\ Sliced(body, Sent, s, b)

\* A chunk added to the scan buffer of run_control_session: the address is
\* found in it once all of it has come, and until then its start survives a
\* cut.
LEMMA BufferKept ==
    ASSUME NEW body, NEW w, NEW b, NEW b2, b \in Nat, b2 \in Nat, b =< b2, b2 =< Size, AccKeep >= 2,
           SessionHolds(body, b), Sliced(w, Sent, b, b2),
           srv.held.prefixed \in BOOLEAN, AsksMap(op, cl.call)
    PROVE  LET acc == body \o w
               cut == IF Len(acc) > AccMax THEN Drop(acc, Len(acc) - AccKeep) ELSE acc
           IN  /\ b2 \notin Skip + 2 .. Skip + 5 => ScanTailscaleIp(acc) \in {NoIp, OwnText}
               /\ ScanTailscaleIp(acc) = NoIp => SessionHolds(cut, b2)
<1>1. Skip \in Nat
  BY SentFacts
<1>2. PICK s \in 0 .. Skip + 1 : s =< b /\ Sliced(body, Sent, s, b)
  BY DEF SessionHolds
<1>3. PICK acc : acc = body \o w
  OBVIOUS
<1>4. s \in Nat /\ s =< b2 /\ s =< Skip + 1
  BY <1>1, <1>2
<1>5. Sliced(acc, Sent, s, b2)
  BY <1>2, <1>3, <1>4, SlicedJoin
<1> HIDE <1>3
<1>6. b2 \notin Skip + 2 .. Skip + 5 => ScanTailscaleIp(acc) \in {NoIp, OwnText}
  BY <1>4, <1>5, PollAddress
<1>7. b2 >= Skip + 4 => ScanTailscaleIp(acc) # NoIp
  BY <1>4, <1>5, ScanPart
<1>8. PICK n : n = Len(acc)
  OBVIOUS
<1>9. n = b2 - s
  <2>1. Row(acc, b2 - s)
    BY <1>5 DEF Sliced
  <2> QED
    BY <1>8, <2>1, RowFacts
<1>10. AccMax \in Nat /\ AccKeep \in Nat /\ AccKeep =< AccMax
  BY ControlAssumption
<1>11. ASSUME b2 =< Skip + 3
       PROVE  SessionHolds(IF n > AccMax THEN Drop(acc, n - AccKeep) ELSE acc, b2)
  <2>1. CASE n > AccMax
    <3>1. PICK k : k = n - AccKeep
      OBVIOUS
    <3>2. k \in 0 .. b2 - s /\ s + k = b2 - AccKeep
      BY <1>4, <1>9, <1>10, <2>1, <3>1
    <3>3. Sliced(Drop(acc, k), Sent, s + k, b2)
      BY <1>4, <1>5, <3>2, SlicedDrop
    <3>4. s + k \in 0 .. Skip + 1 /\ s + k =< b2
      BY <1>1, <1>4, <1>10, <1>11, <3>2
    <3>5. SessionHolds(Drop(acc, k), b2)
      BY <1>11, <3>3, <3>4 DEF SessionHolds
    <3> QED
      BY <2>1, <3>1, <3>5
  <2>2. CASE ~(n > AccMax)
    <3>1. SessionHolds(acc, b2)
      BY <1>2, <1>4, <1>5, <1>11 DEF SessionHolds
    <3> QED
      BY <2>2, <3>1
  <2> QED
    BY <2>1, <2>2
<1>12. b2 =< Skip + 3 \/ b2 >= Skip + 4
  BY <1>1
<1>13. ScanTailscaleIp(acc) = NoIp => SessionHolds(IF n > AccMax THEN Drop(acc, n - AccKeep) ELSE acc, b2)
  BY <1>7, <1>11, <1>12
<1> QED
  BY <1>3, <1>6, <1>8, <1>13

\* What a long poll has of its answer.
PollInv(b) ==
    /\ "address" \in srv.split \/ cl.ip \in {NoIp, OwnText}
    /\ op = "session" /\ cl.ip = NoIp => SessionHolds(cl.body, b)
PollInvNext(b) ==
    /\ "address" \in srv.split \/ cl'.ip \in {NoIp, OwnText}
    /\ op = "session" /\ cl'.ip = NoIp => SessionHolds(cl'.body, b)

\* The long poll on a chunk.
LEMMA ChunkKeeps ==
    ASSUME NEW w, NEW b, NEW b2, b \in Nat, b2 \in Nat, b =< b2, b2 =< Size, AccKeep >= 2,
           PollInv(b), Sliced(w, Sent, b, b2), cl.stage \in Reading, DOMAIN cl = ClientFields,
           op \in {"session", "stream_map"},
           "address" \notin srv.split => b2 \notin Skip + 2 .. Skip + 5,
           srv.held.prefixed \in BOOLEAN, AsksMap(op, cl.call), cl' = Chunk(cl, w)
    PROVE  /\ PollInvNext(b2)
           /\ DOMAIN cl' = ClientFields /\ cl'.stage \in Reading /\ cl'.call = cl.call /\ cl'.status = cl.status
<1>1. CASE op = "stream_map"
  <2>1. op # "session"
    BY <1>1
  <2>2. CASE cl.stage = "hold"
    <3>1. cl' = cl
      BY <2>1, <2>2 DEF Chunk
    <3> QED
      BY <2>1, <3>1 DEF PollInv, PollInvNext
  <2>3. CASE cl.stage # "hold"
    <3>1. PICK ip, st, ch : /\ ip = ScanTailscaleIp(w) /\ ch = cl.chunks + 1
                            /\ st = IF ScanTailscaleIp(w) # NoIp \/ cl.chunks + 1 = ScanTries THEN "hold" ELSE "read"
      OBVIOUS
    <3>2. cl' = [cl EXCEPT !.chunks = ch, !.ip = ip, !.stage = st]
      BY <2>1, <2>3, <3>1 DEF Chunk, MapChunk
    <3>3. DOMAIN cl' = ClientFields /\ cl'.stage = st /\ cl'.call = cl.call /\ cl'.status = cl.status /\ cl'.ip = ip
      BY <3>2 DEF ClientFields
    <3>4. "address" \in srv.split \/ ip \in {NoIp, OwnText}
      BY <3>1, PollAddress
    <3>5. st \in Reading
      BY <3>1 DEF Reading
    <3> QED
      BY <2>1, <3>3, <3>4, <3>5 DEF PollInvNext
  <2> QED
    BY <2>2, <2>3
<1>2. CASE op = "session"
  <2>1. cl' = SessionChunk(cl, w)
    BY <1>2 DEF Chunk
  <2>2. CASE cl.ip # NoIp
    <3>1. cl' = cl
      BY <2>1, <2>2 DEF SessionChunk
    <3> QED
      BY <2>2, <3>1 DEF PollInv, PollInvNext
  <2>3. CASE cl.ip = NoIp
    <3>1. SessionHolds(cl.body, b)
      BY <1>2, <2>3 DEF PollInv
    <3>2. PICK acc : acc = cl.body \o w
      OBVIOUS
    <3>3. PICK cut : cut = IF Len(acc) > AccMax THEN Drop(acc, Len(acc) - AccKeep) ELSE acc
      OBVIOUS
    <3>4. /\ b2 \notin Skip + 2 .. Skip + 5 => ScanTailscaleIp(acc) \in {NoIp, OwnText}
          /\ ScanTailscaleIp(acc) = NoIp => SessionHolds(cut, b2)
      BY <3>1, <3>2, <3>3, BufferKept
    <3>5. PICK ip : ip = ScanTailscaleIp(acc)
      OBVIOUS
    <3>6. CASE ip # NoIp
      <4>1. cl' = [cl EXCEPT !.ip = ip, !.body = <<>>]
        BY <2>1, <2>3, <3>2, <3>5, <3>6 DEF SessionChunk
      <4>2. DOMAIN cl' = ClientFields /\ cl'.stage = cl.stage /\ cl'.call = cl.call /\ cl'.status = cl.status
            /\ cl'.ip = ip
        BY <4>1 DEF ClientFields
      <4>3. "address" \in srv.split \/ cl'.ip \in {NoIp, OwnText}
        BY <3>4, <3>5, <4>2
      <4> QED
        BY <3>6, <4>2, <4>3 DEF PollInvNext
    <3>7. CASE ip = NoIp
      <4>1. cl' = [cl EXCEPT !.body = cut]
        BY <2>1, <2>3, <3>2, <3>3, <3>5, <3>7 DEF SessionChunk
      <4>2. DOMAIN cl' = ClientFields /\ cl'.stage = cl.stage /\ cl'.call = cl.call /\ cl'.status = cl.status
            /\ cl'.ip = cl.ip /\ cl'.body = cut
        BY <4>1 DEF ClientFields
      <4>3. SessionHolds(cut, b2)
        BY <3>4, <3>5, <3>7
      <4> QED
        BY <2>3, <4>2, <4>3 DEF PollInvNext
    <3> QED
      BY <3>6, <3>7
  <2> QED
    BY <2>2, <2>3
<1> QED
  BY <1>1, <1>2

\* read_data.
LEMMA ReadDataKeeps ==
    ASSUME ControlInv, ReadData, AccKeep >= 2
    PROVE  ControlInv'
<1>1. /\ Reader = "data" /\ PlainReady /\ op' = op /\ net' = net /\ rxc' = rxc /\ nonce' = nonce
      /\ rxh' = Drop(rxh, ReadFrame.len) /\ cl.stage \in Reading /\ cl.stage \notin Ended /\ cl.stage # "post"
      /\ cl.stage \notin Before /\ Reader # "json" /\ Reader # "chunks"
      /\ cl.stage # "timeout" /\ cl.stage # "failed"
  BY DEF ReadData, Reading, Ended, Before
<1>2. CallInv /\ DOMAIN srv = ServerFields /\ DOMAIN cl = ClientFields /\ srv.held \in Holdings(op, cl.call)
      /\ cl.call \in {1, 2} /\ (cl.call = 2 => op \in {"session", "register_once"})
      /\ (cl.status # 0 => \E k \in DOMAIN srv.held.block : srv.held.block[k][3] = cl.status)
      /\ (cl.ip \in {NoIp, OwnText} \/ "address" \in srv.split)
  BY <1>1 DEF ControlInv, CallInv
<1>3. op = "stream_map" \/ (op = "session" /\ cl.call = 2)
  BY <1>1, <1>2, ReaderFacts
<1>4. srv.held.prefixed \in BOOLEAN /\ AsksMap(op, cl.call)
  BY <1>2, <1>3, HoldingFacts DEF AsksMap
<1>5. PICK f : f = ReadFrame
  OBVIOUS
<1>6. /\ CASE f.typ = "data" /\ f.sid = Sid /\ f.payload # <<>> -> cl' = Chunk(cl, f.payload)
           [] f.typ = "data" /\ f.sid = Sid /\ f.payload = <<>> /\ f.flag -> Fails("failed")
           [] f.typ = "headers" /\ f.flag                       -> Fails("failed")
           [] f.typ = "goaway"                                  -> Fails("failed")
           [] OTHER                                             -> UNCHANGED cl
      /\ srv' = IF f.typ = "data" /\ f.sid = Sid THEN WindowUpdate(Len(f.payload)) ELSE Acked(f)
  BY <1>5 DEF ReadData
<1>7. \A b, b2 : Came(f, b, b2) => (f.typ = "data" => f.sid = Sid)
  BY DEF Came, CameExtra, CameBlock, CameTrailers, CameBytes, ExtraTypes
<1>8. f.typ = "data" => f.sid = Sid
  <2>1. \E b, b2 : Came(ReadFrame, b, b2)
    BY <1>1, FrameComes
  <2> QED
    BY <1>5, <1>7, <2>1
<1>9. PICK b, b2 :
          /\ Came(f, b, b2) /\ ReadInv(b) /\ ServerKept
          /\ ReadsOn(b2) => ControlInv'
  <2>1. srv' = Took1(ReadFrame)
    BY <1>5, <1>6, <1>8 DEF Took1
  <2> QED
    BY <1>1, <1>5, <2>1, ReadStep
<1>10. /\ DOMAIN srv' = ServerFields
       /\ srv'.held = srv.held /\ srv'.phase = srv.phase /\ srv'.split = srv.split
  BY <1>9 DEF ServerKept
<1>11. PollInv(b)
  BY <1>1, <1>9 DEF ReadInv, PollInv, SessionHolds
<1>12. b \in Nat /\ b2 \in Nat /\ b2 =< Size /\ b =< b2 /\ f.flag \in BOOLEAN
  <2>1. b \in Nat /\ b2 \in Nat /\ b2 =< Size
    BY <1>9 DEF Came
  <2>2. b2 = b \/ b =< b2
    BY <1>9 DEF Came, CameExtra, CameBlock, CameTrailers, CameBytes
  <2>3. f.flag \in BOOLEAN
    BY <1>9 DEF Came, CameExtra, CameBlock, CameTrailers, CameBytes
  <2> QED
    BY <2>1, <2>2, <2>3
<1>13. ASSUME PollInvNext(b2), DOMAIN cl' = ClientFields, cl'.stage \in Reading, cl'.call = cl.call, cl'.status = cl.status
       PROVE  ControlInv'
  <2>1. cl'.ip \in {NoIp, OwnText} \/ (Reader # "json" /\ "address" \in srv.split)
    BY <1>1, <1>13 DEF PollInvNext
  <2>2. CallInv'
    BY <1>1, <1>2, <1>10, <1>13, <2>1, CallGoesOn
  <2>3. Sent' = Sent /\ Reader' = Reader /\ Skip' = Skip
    BY <1>1, <1>10, <1>13, SameCall
  <2>4. cl'.stage \notin Before
    BY <1>13 DEF Reading, Before
  <2>5. ReadInv(b2)'
    BY <1>1, <1>10, <1>13, <2>3, <2>4 DEF ReadInv, PollInvNext, SessionHolds
  <2>6. ReadsOn(b2)
    BY <1>1, <1>13, <2>2, <2>5 DEF ReadsOn
  <2> QED
    BY <1>9, <2>6
<1>14. CASE f.typ = "data" /\ f.payload # <<>>
  <2>1. CameBytes(f, b, b2)
    BY <1>9, <1>14 DEF Came, CameExtra, CameBlock, CameTrailers, ExtraTypes
  <2>2. Sliced(f.payload, Sent, b, b2) /\ ("address" \notin srv.split => b2 \notin Skip + 2 .. Skip + 5)
    BY <1>4, <2>1 DEF CameBytes
  <2>3. cl' = Chunk(cl, f.payload)
    BY <1>6, <1>8, <1>14
  <2>4. op \in {"session", "stream_map"}
    BY <1>3
  <2>5. /\ PollInvNext(b2)
        /\ DOMAIN cl' = ClientFields /\ cl'.stage \in Reading /\ cl'.call = cl.call /\ cl'.status = cl.status
    BY <1>1, <1>2, <1>4, <1>11, <1>12, <2>2, <2>3, <2>4, ChunkKeeps
  <2> QED
    BY <1>13, <2>5
<1>15. CASE Fails("failed")
  BY <1>1, <1>10, <1>15, FailKeeps
<1>16. CASE ~(f.typ = "data" /\ f.payload # <<>>) /\ ~Fails("failed")
  <2>1. cl' = cl
    BY <1>6, <1>8, <1>16
  <2>2. f.typ = "data" => f.payload = <<>>
    BY <1>16
  <2>3. b2 = b
    <3>1. CASE f.typ = "data"
      <4>1. CameBytes(f, b, b2)
        BY <1>9, <3>1 DEF Came, CameExtra, CameBlock, CameTrailers, ExtraTypes
      <4>2. Row(<<>>, b2 - b)
        BY <2>2, <3>1, <4>1 DEF CameBytes, Sliced
      <4>3. b2 - b = 0
        BY <4>2, EmptyRow, RowFacts
      <4> QED
        BY <1>12, <4>3
    <3>2. CASE f.typ # "data"
      BY <1>9, <3>2 DEF Came, CameExtra, CameBlock, CameTrailers, CameBytes
    <3> QED
      BY <3>1, <3>2
  <2>4. PollInvNext(b2)
    BY <1>11, <2>1, <2>3 DEF PollInv, PollInvNext
  <2> QED
    BY <1>1, <1>2, <1>13, <2>1, <2>4
<1> QED
  BY <1>14, <1>15, <1>16

-----------------------------------------------------------------------------
\* New connections.

\* The wire of a new connection: what precedes the Noise message, and that
\* message.
Opened(w, c, typ) ==
    /\ Row(w, c + 3) /\ c \in Nat
    /\ w[c + 1] = <<"c1", typ>> /\ w[c + 2] = <<"c2", 1>> /\ w[c + 3][1] = "b"

Spoken(w, up, typ, y) == w = up \o BaseFrame(typ, <<B(y)>>)

\* The atoms of that wire,
LEMMA OpenedFacts ==
    ASSUME NEW w, NEW up, NEW c, NEW typ, NEW y, Row(up, c), Spoken(w, up, typ, y)
    PROVE  Opened(w, c, typ) /\ \A i \in 1 .. c : w[i] = up[i]
<1>1. c \in Nat
  BY RowFacts
<1>2. PICK p, n : p = <<B(y)>> /\ n = 1
  OBVIOUS
<1>3. Row(p, n) /\ p[1] = B(y)
  BY <1>2, RowSingle, Zenon
<1>4. B(y)[1] = "b"
  BY DEF B
<1>5. PICK x : x = BaseFrame(typ, p)
  OBVIOUS
<1>6. Headed(x, <<"c1", typ>>, <<"c2", n>>, p, n)
  BY <1>3, <1>5, BaseFrameFacts, Zenon
<1>7. w = up \o x
  BY <1>2, <1>5 DEF Spoken
<1>9. n = 1
  BY <1>2
<1>10. Row(x, 2 + n) /\ x[1] = <<"c1", typ>> /\ x[2] = <<"c2", n>> /\ \A i \in 3 .. 2 + n : x[i] = p[i - 2]
  BY <1>6 DEF Headed
<1>11. Joined(w, up, c, x, 2 + n)
  <2>1. Joined(up \o x, up, c, x, 2 + n)
    BY <1>10, RowConcat, Zenon
  <2> QED
    BY <1>7, <2>1
<1> HIDE <1>2, <1>5, <1>7
<1>12. x[3] = B(y)
  <2>1. 3 \in 3 .. 2 + n /\ 3 - 2 = 1
    BY <1>9
  <2> QED
    BY <1>3, <1>10, <2>1
<1>13. /\ Row(w, c + (2 + n))
       /\ \A i \in 1 .. c : w[i] = up[i]
       /\ \A i \in c + 1 .. c + (2 + n) : w[i] = x[i - c]
  BY <1>11 DEF Joined
<1>14. c + (2 + n) = c + 3
  BY <1>1, <1>9
<1>15. w[c + 1] = x[1] /\ w[c + 2] = x[2] /\ w[c + 3] = x[3]
  <2>1. c + 1 \in c + 1 .. c + (2 + n) /\ c + 2 \in c + 1 .. c + (2 + n) /\ c + 3 \in c + 1 .. c + (2 + n)
        /\ (c + 1) - c = 1 /\ (c + 2) - c = 2 /\ (c + 3) - c = 3
    BY <1>1, <1>14
  <2> QED
    BY <1>13, <2>1
<1>16. <<"c2", n>> = <<"c2", 1>>
  BY <1>9
<1>17. Opened(w, c, typ)
  BY <1>1, <1>4, <1>10, <1>12, <1>13, <1>14, <1>15, <1>16 DEF Opened
<1> QED
  BY <1>13, <1>17

\* and that it holds one frame, which is not a record.
LEMMA OpenedRow ==
    ASSUME NEW w, NEW c, NEW typ, NEW z, NEW F, NEW t, Opened(w, c, typ), typ # "record", z = [k \in Nat |-> 0], t \in Nat
    PROVE  BaseRow(w, c, c + 3, z, z, F, t)
<1>1. c \in Nat /\ w[c + 1] = <<"c1", typ>> /\ w[c + 2] = <<"c2", 1>> /\ w[c + 3][1] = "b"
  BY DEF Opened
<1>2. w[c + 1][1] = "c1" /\ w[c + 1][2] = typ /\ w[c + 2][1] = "c2" /\ w[c + 2][2] = 1
  BY <1>1
<1>3. ASSUME NEW k \in c + 1 .. c + 3, w[k][1] = "c1"
      PROVE  BaseAt(w, k, c + 3, z, z, F, t)
  <2>1. k = c + 1
    <3>1. k = c + 1 \/ k = c + 2 \/ k = c + 3
      BY <1>1, <1>3
    <3> QED
      BY <1>1, <1>2, <1>3, <3>1
  <2>2. k + 1 = c + 2 /\ k + 1 + 1 = c + 3 /\ k \in Nat /\ k + 2 + 1 \in Nat
    BY <1>1, <2>1
  <2>3. w[k][2] = typ /\ w[k + 1][2] = 1
    BY <1>2, <2>1, <2>2
  <2>4. z[k] = 0 /\ z[k + 2 + 1] = 0
    BY <2>2
  <2> QED
    BY <1>1, <2>2, <2>3, <2>4 DEF BaseAt
<1> QED
  BY <1>2, <1>3 DEF BaseRow

\* Its plaintext: the early payload, if there is one, and the SETTINGS at s.
Promised(F, t, s) ==
    /\ Row(F, t) /\ s \in {1, 10} /\ t = s + 1
    /\ F[s] = <<"h1", 0, "settings">> /\ F[s + 1] = <<"h2", FALSE, 0>>
    /\ s = 10 => F[1] = <<"e1">> /\ F[2] = <<"e2", 7>> /\ \A i \in 3 .. 9 : F[i] = EarlyText[i - 2]

\* What the server has to say first.
LEMMA PromisedFacts ==
    ASSUME NEW early \in BOOLEAN
    PROVE  \E t, s : Promised(NewServer(early, "ok").pend, t, s)
<1>1. PICK p, n, flag, sid : p = <<>> /\ n = 0 /\ flag = FALSE /\ sid = 0
  OBVIOUS
<1>2. Row(p, n)
  BY <1>1, EmptyRow
<1>3. PICK x : x = H2Frame("settings", flag, sid, p)
  OBVIOUS
<1>4. x = H2Frame("settings", FALSE, 0, <<>>)
  BY <1>1, <1>3
<1>5. n = 0 /\ flag = FALSE /\ sid = 0
  BY <1>1
<1> HIDE <1>1
<1>6. Headed(x, <<"h1", n, "settings">>, <<"h2", flag, sid>>, p, n)
  BY <1>2, <1>3, H2FrameFacts, Zenon
<1>7. Row(x, 2) /\ x[1] = <<"h1", 0, "settings">> /\ x[2] = <<"h2", FALSE, 0>>
  <2>1. Row(x, 2 + n) /\ x[1] = <<"h1", n, "settings">> /\ x[2] = <<"h2", flag, sid>>
    BY <1>6 DEF Headed
  <2>2. 2 + n = 2
    BY <1>5
  <2>3. Row(x, 2)
    BY <2>1, <2>2
  <2> QED
    BY <1>5, <2>1, <2>3
<1>8. NewServer(early, "ok").pend = (IF early THEN EarlyPayload(EarlyText) ELSE <<>>) \o x
  BY <1>4 DEF NewServer, EarlyText
<1> HIDE <1>3
<1>9. CASE ~early
  <2>1. PICK w, q, l : w = <<>> \o x /\ q = <<>> /\ l = 0
    OBVIOUS
  <2>2. Joined(w, q, l, x, 2) /\ l = 0
    BY <1>7, <2>1, EmptyRow, RowConcat
  <2>3. NewServer(early, "ok").pend = w
    BY <1>8, <1>9, <2>1
  <2> HIDE <2>1
  <2>4. Row(w, l + 2) /\ \A i \in l + 1 .. l + 2 : w[i] = x[i - l]
    BY <2>2 DEF Joined
  <2>5. Row(w, 2) /\ w[1] = x[1] /\ w[2] = x[2]
    <3>1. l + 2 = 2 /\ 1 \in l + 1 .. l + 2 /\ 2 \in l + 1 .. l + 2 /\ 1 - l = 1 /\ 2 - l = 2
      BY <2>2
    <3> QED
      BY <2>4, <3>1
  <2>6. PICK s : s = 1
    OBVIOUS
  <2>7. s + 1 = 2 /\ s # 10 /\ s \in {1, 10}
    BY <2>6
  <2>8. Promised(w, s + 1, s)
    BY <1>7, <2>5, <2>6, <2>7 DEF Promised
  <2> QED
    BY <2>3, <2>8
<1>10. CASE early
  <2>1. Row(EarlyText, 7) /\ Len(EarlyText) = 7
    <3>1. Row(EarlyText, 7)
      BY FieldFacts, Zenon
    <3>2. Len(EarlyText) = 7
      BY <3>1, RowFacts, Zenon
    <3> QED
      BY <3>1, <3>2
  <2>2. PICK q : q = EarlyPayload(EarlyText)
    OBVIOUS
  <2>3. q = <<<<"e1">>, <<"e2", 7>>>> \o EarlyText
    BY <2>1, <2>2 DEF EarlyPayload
  <2>4. Headed(q, <<"e1">>, <<"e2", 7>>, EarlyText, 7)
    <3>1. PICK xx, yy, pp : xx = <<"e1">> /\ yy = <<"e2", 7>> /\ pp = EarlyText
      OBVIOUS
    <3>2. Headed(<<xx, yy>> \o pp, xx, yy, pp, 7)
      BY <2>1, <3>1, FrameBytes, Zenon
    <3> QED
      BY <2>3, <3>1, <3>2
  <2>5. q[1] = <<"e1">> /\ q[2] = <<"e2", 7>> /\ Row(q, 9) /\ \A i \in 3 .. 9 : q[i] = EarlyText[i - 2]
    <3>1. Row(q, 2 + 7) /\ \A i \in 3 .. 2 + 7 : q[i] = EarlyText[i - 2]
      BY <2>4 DEF Headed
    <3>2. 2 + 7 = 9
      OBVIOUS
    <3>3. Row(q, 9) /\ \A i \in 3 .. 9 : q[i] = EarlyText[i - 2]
      BY <3>1, <3>2
    <3>4. q[1] = <<"e1">> /\ q[2] = <<"e2", 7>>
      BY <2>4 DEF Headed
    <3> QED
      BY <3>3, <3>4
  <2>6. PICK w : w = q \o x
    OBVIOUS
  <2>7. NewServer(early, "ok").pend = w
    BY <1>8, <1>10, <2>2, <2>6
  <2>8. Joined(w, q, 9, x, 2)
    BY <1>7, <2>5, <2>6, RowConcat, Zenon
  <2> HIDE <2>2, <2>3, <2>6
  <2>9. Row(w, 9 + 2) /\ (\A i \in 1 .. 9 : w[i] = q[i]) /\ \A i \in 9 + 1 .. 9 + 2 : w[i] = x[i - 9]
    BY <2>8 DEF Joined
  <2>10. Row(w, 11) /\ w[10] = x[1] /\ w[11] = x[2] /\ w[1] = q[1] /\ w[2] = q[2]
    <3>1. 9 + 2 = 11 /\ 10 \in 9 + 1 .. 9 + 2 /\ 11 \in 9 + 1 .. 9 + 2 /\ 10 - 9 = 1 /\ 11 - 9 = 2
          /\ 1 \in 1 .. 9 /\ 2 \in 1 .. 9
      OBVIOUS
    <3> QED
      BY <2>9, <3>1
  <2>11. \A i \in 3 .. 9 : w[i] = EarlyText[i - 2]
    <3>1. \A i \in 3 .. 9 : i \in 1 .. 9
      OBVIOUS
    <3> QED
      BY <2>5, <2>9, <3>1
  <2>12. PICK s : s = 10
    OBVIOUS
  <2>13. s + 1 = 11 /\ s \in {1, 10}
    BY <2>12
  <2>14. Promised(w, s + 1, s)
    BY <1>7, <2>5, <2>10, <2>11, <2>12, <2>13 DEF Promised
  <2> QED
    BY <2>7, <2>14
<1> QED
  BY <1>9, <1>10

\* It is well formed, and holds one SETTINGS.
LEMMA PromisedRow ==
    ASSUME NEW F, NEW t, NEW s, NEW z, NEW ack, NEW a, Promised(F, t, s),
           z = [k \in Nat |-> 0], ack = [k \in Nat |-> IF k > s THEN 1 ELSE 0]
    PROVE  /\ FrameRow(F, 0, t, z, ack, a) /\ OnlyExtras(F, 0, t) /\ Start(F, 0, t, ack)
           /\ ack[t + 1] - ack[1] = 1
<1>1. /\ s \in {1, 10} /\ t = s + 1 /\ F[s] = <<"h1", 0, "settings">> /\ F[s + 1] = <<"h2", FALSE, 0>>
      /\ s = 10 => F[1] = <<"e1">> /\ F[2] = <<"e2", 7>> /\ \A i \in 3 .. 9 : F[i] = EarlyText[i - 2]
  BY DEF Promised
<1>2. s \in Nat /\ s >= 1 /\ t \in Nat
  BY <1>1
<1>3. F[s][1] = "h1" /\ F[s][2] = 0 /\ F[s][3] = "settings" /\ F[s + 1][1] = "h2"
  BY <1>1
<1>4. \A i \in 1 .. 7 : EarlyText[i][1] = "b"
  <2>1. SUFFICES ASSUME NEW i \in 1 .. 7 PROVE EarlyText[i][1] = "b"
    OBVIOUS
  <2>2. /\ EarlyText[1] = B("open") /\ \A j \in 2 .. 7 : EarlyText[j] = AddressField[j - 1]
        /\ AddressField[1] = Quote /\ AddressField[6] = B("slash")
        /\ \A j \in 2 .. 5 : AddressField[j] = OwnText[j - 1]
    BY FieldFacts
  <2>3. OwnText[1] = B("100.") /\ OwnText[2] = B("x") /\ OwnText[3] = B("y") /\ OwnText[4] = B("z")
    BY TextFacts
  <2>4. EarlyText[2] = Quote /\ EarlyText[3] = B("100.") /\ EarlyText[4] = B("x") /\ EarlyText[5] = B("y")
        /\ EarlyText[6] = B("z") /\ EarlyText[7] = B("slash")
    <3>1. 2 - 1 = 1 /\ 3 - 1 = 2 /\ 4 - 1 = 3 /\ 5 - 1 = 4 /\ 6 - 1 = 5 /\ 7 - 1 = 6
      OBVIOUS
    <3>2. EarlyText[2] = AddressField[1] /\ EarlyText[3] = AddressField[2] /\ EarlyText[4] = AddressField[3]
          /\ EarlyText[5] = AddressField[4] /\ EarlyText[6] = AddressField[5] /\ EarlyText[7] = AddressField[6]
      BY <2>2, <3>1
    <3>3. AddressField[2] = OwnText[1] /\ AddressField[3] = OwnText[2] /\ AddressField[4] = OwnText[3]
          /\ AddressField[5] = OwnText[4]
      BY <2>2, <3>1
    <3> QED
      BY <2>2, <2>3, <3>2, <3>3
  <2>5. \A y : B(y)[1] = "b"
    BY DEF B
  <2>6. Quote[1] = "b"
    BY <2>5 DEF Quote
  <2>7. i = 1 \/ i = 2 \/ i = 3 \/ i = 4 \/ i = 5 \/ i = 6 \/ i = 7
    OBVIOUS
  <2> QED
    BY <2>2, <2>4, <2>5, <2>6, <2>7
<1>5. \A k \in 1 .. t : IsHead(F, k) => k = s
  <2>1. SUFFICES ASSUME NEW k \in 1 .. t, IsHead(F, k), k # s PROVE FALSE
    OBVIOUS
  <2>2. F[k][1] = "h1"
    BY <2>1 DEF IsHead
  <2>3. k # s + 1
    BY <1>3, <2>2
  <2>4. s = 10 /\ k \in 1 .. 9
    BY <1>1, <2>1, <2>3
  <2>5. k = 1 \/ k = 2 \/ k \in 3 .. 9
    BY <2>4
  <2>6. k # 1 /\ k # 2
    <3>1. F[1][1] = "e1" /\ F[2][1] = "e2"
      BY <1>1, <2>4
    <3> QED
      BY <2>2, <3>1
  <2>7. F[k] = EarlyText[k - 2] /\ k - 2 \in 1 .. 7
    BY <1>1, <2>4, <2>5, <2>6
  <2> QED
    BY <1>4, <2>2, <2>7
<1>6. z \in [Nat -> Nat] /\ \A k \in Nat : z[k] = 0
  OBVIOUS
<1>7. ack \in [Nat -> Nat] /\ \A k \in Nat : ack[k] = IF k > s THEN 1 ELSE 0
  OBVIOUS
<1>8. IsExtra(F, s) /\ IsHead(F, s)
  BY <1>3 DEF IsExtra, ExtraTypes, IsHead
<1>9. FrameAt(F, s, t, z, ack, a)
  <2>1. ExtraFrame(F, s)
    BY <1>1, <1>3, <1>8 DEF ExtraFrame
  <2>2. F[s][2] = 0 /\ F[s][3] = "settings" /\ s + 1 + 0 = t /\ s + 2 + 0 = t + 1
    BY <1>1, <1>2, <1>3
  <2>3. z[s + 2 + 0] = z[s] /\ z[s + 2 + 0] =< z[t + 1]
    BY <1>2, <1>6
  <2>4. ack[s + 2 + 0] = ack[s] + 1
    BY <1>2, <1>7
  <2>5. \A i \in s + 1 .. s + 1 + 0 : ~IsHead(F, i)
    <3>1. ~IsHead(F, s + 1)
      BY <1>3 DEF IsHead
    <3>2. \A i \in s + 1 .. s + 1 + 0 : i = s + 1
      BY <1>2
    <3> QED
      BY <3>1, <3>2
  <2>6. ~(s + 1 + 0 < t) /\ s + 1 + 0 =< t /\ 0 \in Nat
    BY <1>2, <2>2
  <2> QED
    BY <2>5, <2>6, <2>1, <2>2, <2>3, <2>4 DEF FrameAt
<1>10. FrameRow(F, 0, t, z, ack, a) /\ OnlyExtras(F, 0, t)
  <2>1. \A k \in 0 + 1 .. t : IsHead(F, k) => k = s
    BY <1>5
  <2> QED
    BY <1>6, <1>7, <1>8, <1>9, <2>1 DEF FrameRow, OnlyExtras
<1>11. SettingsAt(F, s, t)
  BY <1>1, <1>2, <1>3, <1>8 DEF SettingsAt
<1>12. Start(F, 0, t, ack)
  <2>1. CASE s = 1
    <3>1. SettingsAt(F, 0 + 1, t)
      BY <1>11, <2>1
    <3> QED
      BY <3>1 DEF Start
  <2>2. CASE s = 10
    <3>1. SettingsAt(F, 0 + 10, t)
      BY <1>11, <2>2
    <3>2. ack[0 + 1 + 9] = ack[0 + 1]
      <4>1. 0 + 1 + 9 = 10 /\ 0 + 1 = 1 /\ ~(10 > s) /\ ~(1 > s) /\ 10 \in Nat /\ 1 \in Nat
        BY <2>2
      <4> QED
        BY <1>7, <4>1
    <3>3. F[0 + 1] = <<"e1">> /\ F[0 + 1 + 1] = <<"e2", 7>>
      <4>1. 0 + 1 = 1 /\ 0 + 1 + 1 = 2
        OBVIOUS
      <4> QED
        BY <1>1, <2>2, <4>1
    <3>4. \A i \in 0 + 1 + 2 .. 0 + 1 + 8 : F[i] = EarlyText[i - (0 + 1 + 1)]
      <4>1. 0 + 1 + 2 = 3 /\ 0 + 1 + 8 = 9 /\ 0 + 1 + 1 = 2
        OBVIOUS
      <4> QED
        BY <1>1, <2>2, <4>1
    <3>5. EarlyAt(F, 0 + 1, ack)
      BY <3>2, <3>3, <3>4 DEF EarlyAt
    <3> QED
      BY <3>1, <3>5 DEF Start
  <2> QED
    BY <1>1, <2>1, <2>2
<1>13. ack[t + 1] - ack[1] = 1
  <2>1. t + 1 \in Nat /\ t + 1 > s /\ ~(1 > s)
    BY <1>1, <1>2
  <2> QED
    BY <1>7, <2>1
<1> QED
  BY <1>10, <1>12, <1>13

\* A connection that has just been opened.
Hello ==
    /\ \E g \in Greetings(op), early \in BOOLEAN :
          net = GreetingBytes(op, g) /\ srv = NewServer(early, g)
    /\ rxc = <<>> /\ rxh = <<>> /\ nonce = 0
    /\ cl = Fresh(IF op = "register_once" THEN "handshake" ELSE "upgrade")

\* The client and the server on a new connection.
LEMMA HelloFacts ==
    ASSUME Hello
    PROVE  /\ CallInv /\ ReadInv(0)
           /\ cl.stage = (IF op = "register_once" THEN "handshake" ELSE "upgrade")
           /\ srv.sealed = 0 /\ srv.cwin = ConnWindow /\ srv.phase = "idle" /\ srv.unacked = 1
<1>1. PICK g, early : srv = NewServer(early, g)
  BY DEF Hello
<1>2. /\ DOMAIN srv = ServerFields /\ srv.held = NoHoldings /\ srv.phase = "idle" /\ srv.sealed = 0
      /\ srv.cwin = ConnWindow /\ srv.unacked = 1
  BY <1>1 DEF NewServer, ServerFields
<1>3. PICK st : st = IF op = "register_once" THEN "handshake" ELSE "upgrade"
  OBVIOUS
<1>4. cl = Fresh(st)
  BY <1>3 DEF Hello
<1>5. /\ DOMAIN cl = ClientFields /\ cl.stage = st /\ cl.call = 1 /\ cl.status = 0 /\ cl.body = <<>> /\ cl.ip = NoIp
      /\ cl.stripped = FALSE
  BY <1>4 DEF Fresh, ClientFields
<1>6. /\ st \in Before /\ st \notin Reading /\ st \in Stages /\ st \notin Ended
      /\ st # "done" /\ st # "failed" /\ st # "timeout" /\ st # "hold"
  BY <1>3 DEF Before, Reading, Stages, Ended
<1>7. CallInv
  BY <1>2, <1>5, <1>6 DEF CallInv, NoStall
<1>8. ReadInv(0)
  BY <1>5, <1>6 DEF ReadInv
<1> QED
  BY <1>2, <1>3, <1>5, <1>7, <1>8

\* A new connection with a well-formed greeting satisfies the invariant.
LEMMA HelloPipe ==
    ASSUME Hello, NEW c \in Nat, NEW e \in Nat, NEW t \in Nat, c =< e, NEW z, z = [k \in Nat |-> 0], NEW ack,
           Row(net, e), Row(srv.pend, t), BaseRow(net, c, e, z, z, srv.pend, t),
           FrameRow(srv.pend, 0, t, z, ack, TheAnswer), OnlyExtras(srv.pend, 0, t),
           cl.stage = "upgrade" =>
              \/ net[1] = <<"u1", 101>> /\ net[2] = UpgradeEnd /\ c = 2 /\ Greeted(net, c, e, srv.pend, 0, t, ack)
              \/ net[1] # <<"u1", 101>> /\ (e > HeadMax \/ \E k \in 1 .. e : net[k] = UpgradeEnd),
           cl.stage = "handshake" => c = 0 /\ Greeted(net, c, e, srv.pend, 0, t, ack)
    PROVE  ControlInv
<1>1. /\ CallInv /\ ReadInv(0)
      /\ cl.stage = (IF op = "register_once" THEN "handshake" ELSE "upgrade")
      /\ srv.sealed = 0 /\ srv.cwin = ConnWindow /\ srv.phase = "idle"
  BY HelloFacts
<1>2. z \in [Nat -> Nat] /\ \A k \in Nat : z[k] = 0
  OBVIOUS
<1>3. rxc = <<>> /\ rxh = <<>> /\ nonce = 0
  BY DEF Hello
<1>4. \A w, n : Row(w, n) /\ n \in Nat => Sliced(w, w, 0, n)
  BY DEF Sliced
<1>5. \A w : Sliced(<<>>, w, 0, 0)
  BY EmptyRow DEF Sliced
<1>6. z[c + 1] = 0 /\ z[e + 1] = 0 /\ z[0 + 1] = 0
  BY <1>2
<1>7. Sliced(rxc, net, 0, 0) /\ Sliced(rxh, srv.pend, 0, z[c + 1])
  BY <1>3, <1>5, <1>6
<1>8. Sliced(net, net, 0, e) /\ Sliced(srv.pend, srv.pend, z[e + 1], t)
  BY <1>4, <1>6
<1>9. Link(net, srv.pend, z, z, 0, 0, c, e, 0, t)
  <2>1. z[c + 1] =< t /\ 0 =< c
    BY <1>6
  <2>2. z[c + 1] = nonce /\ z[e + 1] = srv.sealed
    BY <1>1, <1>3, <1>6
  <2> QED
    BY <1>2, <1>7, <1>8, <2>1, <2>2 DEF Link
<1>10. /\ cl.stage \in {"upgrade", "handshake"} /\ cl.stage \in Before /\ cl.stage # "post" /\ cl.stage \notin Reading
       /\ cl.stage # "early" /\ cl.stage # "settings" /\ cl.stage \notin Reading \cup {"post"} /\ cl.stage \notin Ended
  BY <1>1 DEF Before, Reading, Ended
<1>11. CreditInv(srv.pend, 0, t, z, ack)
  BY <1>1, <1>10 DEF CreditInv
<1>12. StageInv(net, srv.pend, ack, 0, c, e, 0, t)
  <2>1. net[0 + 1] = net[1] /\ net[0 + 2] = net[2] /\ 0 + 2 = 2 /\ e - 0 = e /\ 0 + 1 = 1
    OBVIOUS
  <2> QED
    BY <1>3, <1>10, <2>1 DEF StageInv
<1>13. ReadInv(z[0 + 1])
  BY <1>1, <1>6
<1>14. Pipe(net, srv.pend, z, z, z, ack, 0, 0, c, e, 0, t)
  BY <1>9, <1>11, <1>12, <1>13 DEF Pipe
<1> QED
  BY <1>1, <1>14 DEF ControlInv

\* The two atoms of the upgrade response.
LEMMA ResponseFacts ==
    ASSUME NEW code
    PROVE  Row(Response(code), 2) /\ Response(code)[1] = <<"u1", code>> /\ Response(code)[2] = UpgradeEnd
  BY RowPair DEF Response

\* Nothing is said before the Noise message is there.
LEMMA SilentRow ==
    ASSUME NEW F, NEW z, NEW a, z = [k \in Nat |-> 0]
    PROVE  FrameRow(F, 0, 0, z, z, a) /\ OnlyExtras(F, 0, 0)
  BY DEF FrameRow, OnlyExtras

\* A new connection satisfies the invariant, whichever way the server greets.
LEMMA HelloKeeps ==
    ASSUME Hello
    PROVE  ControlInv
<1>1. PICK g \in Greetings(op), early \in BOOLEAN : net = GreetingBytes(op, g) /\ srv = NewServer(early, g)
  BY DEF Hello
<1>2. /\ cl.stage = (IF op = "register_once" THEN "handshake" ELSE "upgrade")
      /\ srv.unacked = 1
  BY HelloFacts
<1>3. PICK z : z = [k \in Nat |-> 0]
  OBVIOUS
<1>4. PICK up, c : /\ up = (IF op = "register_once" THEN <<>> ELSE Response(101))
                   /\ c = (IF op = "register_once" THEN 0 ELSE 2)
  OBVIOUS
<1>5. Row(up, c) /\ c \in Nat
  <2>1. CASE op = "register_once"
    <3>1. up = <<>> /\ c = 0
      BY <1>4, <2>1
    <3> QED
      BY <3>1, EmptyRow
  <2>2. CASE op # "register_once"
    <3>1. up = Response(101) /\ c = 2
      BY <1>4, <2>2
    <3> QED
      BY <3>1, ResponseFacts
  <2> QED
    BY <2>1, <2>2
<1>6. op # "register_once" => c = 2 /\ up[1] = <<"u1", 101>> /\ up[2] = UpgradeEnd
  BY <1>4, ResponseFacts
<1>7. op = "register_once" => c = 0
  BY <1>4
<1>8. HeadMax \in Nat
  BY ControlAssumption
<1>9. ASSUME NEW typ, typ # "record", NEW y, Spoken(net, up, typ, y), NEW t \in Nat, NEW ack,
             Row(srv.pend, t), FrameRow(srv.pend, 0, t, z, ack, TheAnswer), OnlyExtras(srv.pend, 0, t),
             typ = "response" => Start(srv.pend, 0, t, ack) /\ ack[t + 1] - ack[1] = 1
      PROVE  ControlInv
  <2>1. Opened(net, c, typ) /\ \A i \in 1 .. c : net[i] = up[i]
    BY <1>5, <1>9, OpenedFacts
  <2>2. BaseRow(net, c, c + 3, z, z, srv.pend, t)
    BY <1>3, <1>9, <2>1, OpenedRow
  <2>3. Row(net, c + 3) /\ net[c + 1] = <<"c1", typ>>
    BY <2>1 DEF Opened
  <2>4. Greeted(net, c, c + 3, srv.pend, 0, t, ack)
    <3>1. net[c + 1][2] = typ
      BY <2>3
    <3>2. c < c + 3 /\ ack[0 + 1] = ack[1]
      BY <1>5
    <3> QED
      BY <1>2, <1>9, <3>1, <3>2 DEF Greeted
  <2>5. op # "register_once" => net[1] = <<"u1", 101>> /\ net[2] = UpgradeEnd /\ c = 2
    <3>1. SUFFICES ASSUME op # "register_once" PROVE net[1] = <<"u1", 101>> /\ net[2] = UpgradeEnd /\ c = 2
      OBVIOUS
    <3>2. c = 2 /\ 1 \in 1 .. c /\ 2 \in 1 .. c
      BY <1>6, <3>1
    <3> QED
      BY <1>6, <2>1, <3>1, <3>2
  <2>6. cl.stage = "upgrade" => net[1] = <<"u1", 101>> /\ net[2] = UpgradeEnd /\ c = 2
    BY <1>2, <2>5
  <2>7. cl.stage = "handshake" => c = 0
    BY <1>2, <1>7
  <2>8. c + 3 \in Nat /\ c =< c + 3
    BY <1>5
  <2> QED
    BY <1>3, <1>5, <1>9, <2>2, <2>3, <2>4, <2>6, <2>7, <2>8, HelloPipe
<1>10. CASE g = "ok"
  <2>1. Spoken(net, up, "response", "noise")
    BY <1>1, <1>4, <1>10 DEF GreetingBytes, Spoken
  <2>2. PICK t, s : Promised(srv.pend, t, s)
    BY <1>1, <1>10, PromisedFacts
  <2>3. PICK ack : ack = [k \in Nat |-> IF k > s THEN 1 ELSE 0]
    OBVIOUS
  <2>4. /\ FrameRow(srv.pend, 0, t, z, ack, TheAnswer) /\ OnlyExtras(srv.pend, 0, t) /\ Start(srv.pend, 0, t, ack)
        /\ ack[t + 1] - ack[1] = 1
    <3>1. PICK a, F : a = TheAnswer /\ F = srv.pend
      OBVIOUS
    <3>2. /\ FrameRow(F, 0, t, z, ack, a) /\ OnlyExtras(F, 0, t) /\ Start(F, 0, t, ack)
          /\ ack[t + 1] - ack[1] = 1
      BY <1>3, <2>2, <2>3, <3>1, PromisedRow
    <3> QED
      BY <3>1, <3>2
  <2>5. Row(srv.pend, t) /\ t \in Nat
    BY <2>2 DEF Promised
  <2> HIDE <1>3, <2>3
  <2>6. "response" # "record"
    OBVIOUS
  <2> QED
    BY <1>9, <2>1, <2>4, <2>5, <2>6
<1>11. CASE g = "error"
  <2>1. Spoken(net, up, "error", "text")
    BY <1>1, <1>4, <1>11 DEF GreetingBytes, Spoken
  <2>2. srv.pend = <<>>
    BY <1>1, <1>11 DEF NewServer
  <2>3. Row(srv.pend, 0)
    BY <2>2, EmptyRow
  <2>4. FrameRow(srv.pend, 0, 0, z, z, TheAnswer) /\ OnlyExtras(srv.pend, 0, 0)
    BY <1>3, SilentRow
  <2>5. "error" # "record" /\ "error" # "response"
    OBVIOUS
  <2> QED
    BY <1>9, <2>1, <2>3, <2>4, <2>5
<1>12. ASSUME g # "ok", g # "error", NEW e \in Nat, Row(net, e), net[1] # <<"u1", 101>>,
              e > HeadMax \/ \E k \in 1 .. e : net[k] = UpgradeEnd, op # "register_once"
       PROVE  ControlInv
  <2>1. srv.pend = <<>>
    BY <1>1, <1>12 DEF NewServer
  <2>2. Row(srv.pend, 0)
    BY <2>1, EmptyRow
  <2>3. FrameRow(srv.pend, 0, 0, z, z, TheAnswer) /\ OnlyExtras(srv.pend, 0, 0)
    BY <1>3, SilentRow
  <2>4. BaseRow(net, e, e, z, z, srv.pend, 0)
    BY DEF BaseRow
  <2>5. cl.stage = "upgrade" /\ e =< e
    BY <1>2, <1>12
  <2> QED
    BY <1>3, <1>12, <2>2, <2>3, <2>4, <2>5, HelloPipe
<1>13. CASE g = "refused"
  <2>1. net = Response(403)
    BY <1>1, <1>13 DEF GreetingBytes
  <2>2. Row(net, 2) /\ net[1] = <<"u1", 403>> /\ net[2] = UpgradeEnd
    BY <2>1, ResponseFacts
  <2>3. op # "register_once"
    BY <1>1, <1>13 DEF Greetings
  <2>4. net[1] # <<"u1", 101>>
    <3>1. net[1][2] = 403 /\ <<"u1", 101>>[2] = 101
      BY <2>2
    <3> QED
      BY <3>1
  <2>5. 2 \in 1 .. 2 /\ 2 \in Nat
    OBVIOUS
  <2> QED
    BY <1>12, <1>13, <2>2, <2>3, <2>4, <2>5
<1>14. CASE g = "big"
  <2>1. net = [k \in 1 .. HeadMax + 1 |-> <<"u1", 0>>]
    BY <1>1, <1>14 DEF GreetingBytes
  <2>2. HeadMax + 1 \in Nat /\ HeadMax + 1 > HeadMax /\ 1 \in 1 .. HeadMax + 1
    BY <1>8
  <2>3. net = [k \in 1 .. HeadMax + 1 |-> net[k]] /\ net[1] = <<"u1", 0>>
    BY <2>1, <2>2
  <2>4. Row(net, HeadMax + 1)
    BY <2>2, <2>3, RowByElements
  <2>5. net[1] # <<"u1", 101>>
    <3>1. net[1][2] = 0 /\ <<"u1", 101>>[2] = 101
      BY <2>3
    <3> QED
      BY <3>1
  <2>6. op # "register_once"
    BY <1>1, <1>14 DEF Greetings
  <2> QED
    BY <1>12, <1>14, <2>2, <2>4, <2>5, <2>6
<1> QED
  BY <1>1, <1>10, <1>11, <1>13, <1>14 DEF Greetings

-----------------------------------------------------------------------------
\* Every step.

\* The same after the step that opens it.
LEMMA HelloNext == (Hello)' => (ControlInv)'
<1>1. Hello => ControlInv
  BY HelloKeeps
<1> QED
  BY <1>1, PTL

\* A new connection starts with nothing held, read or counted.
LEMMA ReturnKeeps ==
    ASSUME Return
    PROVE  ControlInv'
<1>1. PICK early \in BOOLEAN, g \in Greetings(NextOp) : Connect(NextOp, early, g)
  BY DEF Return
<1>2. Hello'
  BY <1>1 DEF Connect, Hello
<1> QED
  BY <1>2, HelloNext

\* A step that changes nothing keeps the invariant.
LEMMA StutterKeeps ==
    ASSUME ControlInv, UNCHANGED vars
    PROVE  ControlInv'
<1>1. op' = op /\ net' = net /\ rxc' = rxc /\ rxh' = rxh /\ nonce' = nonce /\ cl' = cl /\ srv' = srv
  BY DEF vars
<1>2. CallInv
  BY DEF ControlInv
<1>3. Whole' = Whole /\ Reader' = Reader
  BY <1>1, SameCall
<1>4. CallInv'
  BY <1>1, <1>2, <1>3 DEF CallInv, NoStall, NoHoldings
<1>5. CASE cl.stage \in Ended
  BY <1>1, <1>4, <1>5 DEF ControlInv
<1>6. CASE cl.stage \notin Ended
  <2>1. PICK W, F, off, non, pos, ack, h, m, c, e, r, t : Pipe(W, F, off, non, pos, ack, h, m, c, e, r, t)
    BY <1>6 DEF ControlInv
  <2>2. Link(W, F, off, non, h, m, c, e, r, t)'
    BY <1>1, <2>1 DEF Pipe, Link
  <2>3. Pipe(W, F, off, non, pos, ack, h, m, c, e, r, t)'
    BY <1>1, <2>1, <2>2, PipeSame
  <2> QED
    BY <1>4, <2>3 DEF ControlInv
<1> QED
  BY <1>5, <1>6

\* The steps of the server,
LEMMA ServerKeeps ==
    ASSUME ControlInv, Server
    PROVE  ControlInv'
<1>1. CASE Flush
  BY <1>1, FlushKeeps
<1>2. CASE SendHeaders
  BY <1>2, SendHeadersKeeps
<1>3. CASE SendEnd
  BY <1>3, SendEndKeeps
<1>4. CASE SendError
  BY <1>4, SendErrorKeeps
<1>5. CASE \E n \in 1 .. MaxFrame : SendData(n)
  BY <1>5, SendDataKeeps
<1>6. CASE \E typ \in {"settings", "ping", "goaway"} : SendExtra(typ)
  BY <1>6, SendExtraKeeps DEF ExtraTypes
<1> QED
  BY <1>1, <1>2, <1>3, <1>4, <1>5, <1>6 DEF Server

\* of the client,
LEMMA ClientKeeps ==
    ASSUME ControlInv, Client
    PROVE  ControlInv'
<1>1. CASE \E n \in 1 .. Len(net) : Fill(n)
  BY <1>1, FillKeeps
<1>2. CASE Upgrade
  BY <1>2, UpgradeKeeps
<1>3. CASE Handshake
  BY <1>3, HandshakeKeeps
<1>4. CASE Pull
  BY <1>4, PullKeeps
<1>5. CASE ConsumeEarly
  BY <1>5, ConsumeEarlyKeeps
<1>6. CASE StartSettings
  BY <1>6, StartSettingsKeeps
<1>7. CASE \E style \in Styles, held \in Holdings(op, cl.call) : Post(style, held)
  BY <1>7, PostKeeps
<1>8. CASE ReadResponse
  BY <1>8, ReadResponseKeeps
<1>9. CASE ReadData
  <2>1. AccKeep >= 2
    BY ControlAssumption
  <2> QED
    BY <1>9, <2>1, ReadDataKeeps
<1>10. CASE \E m \in Netmaps : ReadChunk(m)
  BY <1>10, ReadChunkKeeps
<1>11. CASE Return
  BY <1>11, ReturnKeeps
<1> QED
  BY <1>1, <1>2, <1>3, <1>4, <1>5, <1>6, <1>7, <1>8, <1>9, <1>10, <1>11 DEF Client

\* and every step keep the invariant.
LEMMA StepKeeps ==
    ASSUME ControlInv, [Next]_vars
    PROVE  ControlInv'
<1>1. CASE Client
  BY <1>1, ClientKeeps
<1>2. CASE Server
  BY <1>2, ServerKeeps
<1>3. CASE Timeout
  BY <1>3, TimeoutKeeps
<1>4. CASE Closed
  BY <1>4, ClosedKeeps
<1>5. CASE UNCHANGED vars
  BY <1>5, StutterKeeps
<1> QED
  BY <1>1, <1>2, <1>3, <1>4, <1>5 DEF Next

\* The program starts with a new connection.
LEMMA InitHello ==
    ASSUME Init
    PROVE  Hello
  BY DEF Init, Hello

-----------------------------------------------------------------------------
\* What follows from the invariant.

\* The bytes of the answer read so far.
LEMMA ReadSoFar ==
    ASSUME ControlInv, cl.stage \in Reading
    PROVE  /\ srv.held.prefixed \in BOOLEAN
           /\ \E b \in Nat : b =< Size /\ ReadInv(b)
<1>1. cl.stage \notin Ended
  BY DEF Reading, Ended
<1>2. PICK W, F, off, non, pos, ack, h, m, c, e, r, t : Pipe(W, F, off, non, pos, ack, h, m, c, e, r, t)
  BY <1>1 DEF ControlInv
<1>3. srv.held \in Holdings(op, cl.call)
  BY DEF ControlInv, CallInv
<1>4. srv.held.prefixed \in BOOLEAN
  BY <1>3, HoldingFacts
<1>5. ReadInv(pos[r + 1]) /\ CreditInv(F, r, t, pos, ack)
  BY <1>2 DEF Pipe
<1>6. pos \in [Nat -> Nat] /\ r \in Nat /\ t \in Nat
  BY <1>2, LinkOrder DEF Pipe, FrameRow
<1>7. pos[r + 1] =< pos[t + 1] /\ pos[t + 1] =< Size /\ Size \in Nat
  BY <1>4, <1>5, SentFacts DEF CreditInv
<1>8. pos[r + 1] \in Nat /\ pos[r + 1] =< Size
  BY <1>6, <1>7
<1> QED
  BY <1>4, <1>5, <1>8

\* The invariant gives BodyIsResponse:
LEMMA InvBody ==
    ASSUME ControlInv
    PROVE  BodyIsResponse
<1>1. CallInv
  BY DEF ControlInv
<1>2. cl.stage = "read" /\ Reader = "json" => IsPrefix(cl.body, Sent)
  <2>1. SUFFICES ASSUME cl.stage = "read", Reader = "json" PROVE IsPrefix(cl.body, Sent)
    OBVIOUS
  <2>2. cl.stage \in Reading
    BY <2>1 DEF Reading
  <2>3. PICK b \in Nat : b =< Size /\ ReadInv(b)
    BY <2>2, ReadSoFar
  <2>4. Sliced(cl.body, Sent, 0, b)
    BY <2>1, <2>2, <2>3 DEF ReadInv
  <2>5. Row(Sent, Size)
    BY <2>2, ReadSoFar, SentFacts
  <2> QED
    BY <2>3, <2>4, <2>5, SlicedIsPrefix
<1>3. cl.stage = "read" /\ Reader = "chunks" => IsPrefix(cl.body, Whole)
  BY ChunksSoFar DEF Ended
<1>4. /\ cl.stage = "done" /\ cl.call = 1 => cl.body = Whole
      /\ cl.stage = "failed" /\ Reader = "chunks" /\ "prefix" \notin srv.split => IsPrefix(cl.body, Whole)
      /\ cl.status # 0 => \E k \in DOMAIN srv.held.block : srv.held.block[k][3] = cl.status
  BY <1>1 DEF CallInv
<1> QED
  BY <1>2, <1>3, <1>4, Zenon DEF BodyIsResponse, Sent, Whole

\* Nothing is left of four buffers that hold nothing together.
LEMMA AllEmpty ==
    ASSUME NEW p, NEW i, NEW q, NEW j, NEW u, NEW k, NEW v, NEW l, Row(p, i), Row(q, j), Row(u, k), Row(v, l),
           p \o q \o u \o v = <<>>
    PROVE  i = 0 /\ j = 0 /\ k = 0 /\ l = 0
<1>1. i \in Nat /\ j \in Nat /\ k \in Nat /\ l \in Nat
  BY RowFacts
<1>2. Row(p \o q, i + j)
  BY RowConcat DEF Joined
<1>3. Row(p \o q \o u, i + j + k)
  BY <1>2, RowConcat DEF Joined
<1>4. Row(p \o q \o u \o v, i + j + k + l)
  BY <1>3, RowConcat DEF Joined
<1>5. Row(<<>>, i + j + k + l)
  BY <1>4, Zenon
<1>6. Len(<<>>) = i + j + k + l
  BY <1>5, RowFacts
<1>7. Len(<<>>) = 0
  OBVIOUS
<1> QED
  BY <1>1, <1>6, <1>7

\* A session that has read the whole netmap knows its address.
LEMMA SessionAddress ==
    ASSUME ControlInv, op = "session", Reader = "data", cl.stage = "read", srv.phase = "over",
           srv.pend \o net \o rxc \o rxh = <<>>
    PROVE  cl.ip # NoIp
<1>1. CallInv /\ cl.stage \notin Ended /\ cl.stage \in Reading /\ cl.stage # "upgrade"
  BY DEF ControlInv, Ended, Reading
<1>2. PICK W, F, off, non, pos, ack, h, m, c, e, r, t : Pipe(W, F, off, non, pos, ack, h, m, c, e, r, t)
  BY <1>1 DEF ControlInv
<1>3. Link(W, F, off, non, h, m, c, e, r, t) /\ FrameRow(F, r, t, pos, ack, TheAnswer)
      /\ StageInv(W, F, ack, h, c, e, r, t) /\ CreditInv(F, r, t, pos, ack) /\ ReadInv(pos[r + 1])
  BY <1>2 DEF Pipe
<1>4. Row(rxc, m - h) /\ Row(net, e - m) /\ Row(rxh, off[c + 1] - r) /\ Row(srv.pend, t - off[e + 1])
  BY <1>3 DEF Link, Sliced
<1>5. t - off[e + 1] = 0 /\ e - m = 0 /\ m - h = 0 /\ off[c + 1] - r = 0
  BY <1>4, AllEmpty
<1>6. h \in Nat /\ m \in Nat /\ c \in Nat /\ e \in Nat /\ r \in Nat /\ t \in Nat /\ off \in [Nat -> Nat]
  BY <1>3 DEF Link
<1>7. h = c
  BY <1>1, <1>3 DEF StageInv
<1>8. r = t
  <2>1. c = e
    BY <1>5, <1>6, <1>7
  <2>2. off[c + 1] = off[e + 1] /\ off[c + 1] \in Nat
    BY <1>6, <2>1
  <2> QED
    BY <1>5, <1>6, <2>2
<1>9. pos[t + 1] = Size
  BY <1>1, <1>3 DEF CreditInv
<1>10. cl.call = 2
  <2>1. cl.call \in {1, 2} /\ (cl.call = 2 => op \in {"session", "register_once"})
    BY <1>1 DEF CallInv
  <2> QED
    BY <2>1, ReaderFacts
<1>11. Skip \in Nat
  <2>1. srv.held.prefixed \in BOOLEAN
    BY <1>1, ReadSoFar
  <2> QED
    BY <2>1, SentFacts
<1>12. Size = Skip + 8
  BY <1>10 DEF Size, AsksMap
<1>13. pos[r + 1] = Skip + 8
  BY <1>8, <1>9, <1>12
<1>14. ~(pos[r + 1] =< Skip + 3)
  BY <1>11, <1>13
<1> QED
  BY <1>1, <1>3, <1>14 DEF ReadInv

\* AddressIsOwn:
LEMMA InvAddress ==
    ASSUME ControlInv
    PROVE  AddressIsOwn
<1>1. /\ cl.ip \in {NoIp, OwnText} \/ (Reader # "json" /\ "address" \in srv.split)
      /\ cl.stage = "done" /\ AsksMap(op, 1) /\ op # "update_endpoints" /\ "address" \notin srv.split
            => cl.ip = OwnText
  BY DEF ControlInv, CallInv
<1>2. op = "session" /\ Reader = "data" /\ cl.stage = "read" /\ srv.phase = "over"
          /\ srv.pend \o net \o rxc \o rxh = <<>> => cl.ip # NoIp
  BY SessionAddress
<1> QED
  BY <1>1, <1>2, Zenon DEF AddressIsOwn

\* FilterIsAcl: the filter of fetch_peers was made of the netmap's rules and
\* the node's own address.
LEMMA InvFilter ==
    ASSUME ControlInv
    PROVE  FilterIsAcl
<1>1. SUFFICES ASSUME cl.stage = "done", op = "fetch_peers", "address" \notin srv.split, NEW src \in Addrs,
                      NEW m \in cl.netmap
               PROVE  SrcAllowed(cl.allowed, src) <=> AclAllows(m.acl, src)
  BY DEF FilterIsAcl
<1>2. AsksMap(op, 1) /\ op # "update_endpoints"
  BY <1>1 DEF AsksMap
<1>3. cl.ip = OwnText
  BY <1>1, <1>2 DEF ControlInv, CallInv
<1>4. PICK x \in Netmaps : cl.netmap = {x} /\ cl.allowed = AllowedSrcs(x.acl, cl.ip)
  BY <1>1 DEF ControlInv, CallInv
<1>5. m = x /\ cl.allowed = AllowedSrcs(m.acl, OwnText)
  BY <1>1, <1>3, <1>4
<1>6. m.acl.present \in BOOLEAN /\ \A r \in Range(m.acl.rules) : r.src \subseteq Patterns /\ r.dst \subseteq Patterns
  BY <1>4, <1>5, ControlAssumption
<1>7. PICK a : a = m.acl
  OBVIOUS
<1>8. SrcAllowed(AllowedSrcs(a, OwnText), src) <=> AclAllows(a, src)
  BY <1>1, <1>6, <1>7, FilterMeans
<1> QED
  BY <1>5, <1>7, <1>8

\* In every reachable state the bytes in the buffers, in the network and at
\* the server are one well-formed connection, and the call has read what it
\* says: ControlInv is an invariant.
THEOREM Connections == Spec => []ControlInv
<1>1. Init => ControlInv
  BY InitHello, HelloKeeps
<1>2. ControlInv /\ [Next]_vars => ControlInv'
  BY StepKeeps
<1> QED
  BY <1>1, <1>2, PTL DEF Spec

\* However the server cuts its answer into frames, records and segments, a
\* call reads a prefix of it and returns it whole (read_response,
\* H2Body::read).
THEOREM BodiesAreResponses == Spec => []BodyIsResponse
<1>1. ControlInv => BodyIsResponse
  BY InvBody
<1> QED
  BY <1>1, Connections, PTL

\* The address a call takes is the node's own unless a DATA frame ends inside
\* its text, and a call that has read its answer has it, however often the
\* scan buffer of run_control_session was cut.
THEOREM AddressesAreOwn == Spec => []AddressIsOwn
<1>1. ControlInv => AddressIsOwn
  BY InvAddress
<1> QED
  BY <1>1, Connections, PTL

\* The filter that fetch_peers hands to the data plane lets a source through
\* exactly when a rule of the netmap that covers the node names it.
THEOREM FiltersAreAcls == Spec => []FilterIsAcl
<1>1. ControlInv => FilterIsAcl
  BY InvFilter
<1> QED
  BY <1>1, Connections, PTL

\* When a read times out the server has said everything, only a long poll is
\* waiting and every SETTINGS has been answered: flow control never leaves
\* both sides waiting (window_update, pull).
THEOREM NothingStalls == Spec => []NoStall
<1>1. ControlInv => NoStall
  BY DEF ControlInv, CallInv
<1> QED
  BY <1>1, Connections, PTL
=============================================================================
