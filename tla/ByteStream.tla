----------------------------- MODULE ByteStream ------------------------------
(***************************************************************************)
(* What a reader of an HTTP response is promised, whatever carries it: the *)
(* bytes of the response arrive in order, the end is reported only after   *)
(* the last byte, and a transfer that is cut off is not reported as ended. *)
(***************************************************************************)
EXTENDS Naturals

VARIABLES
    length,             \* of the response, fixed in advance
    got,                \* bytes of the response the reader has
    status              \* "reading", "ended" or "cut"

streamVars == <<length, got, status>>

StreamInit == length \in Nat \ {0} /\ got = 0 /\ status = "reading"

\* Bytes and the end may be reported together.
Arrive ==
    /\ status = "reading"
    /\ got' \in got .. length
    /\ status' \in {"reading"} \cup (IF got' = length THEN {"ended"} ELSE {})
    /\ UNCHANGED length

Cut == status = "reading" /\ status' = "cut" /\ UNCHANGED <<length, got>>

StreamNext == Arrive \/ Cut

StreamSpec == StreamInit /\ [][StreamNext]_streamVars
=============================================================================
