----------------------------- MODULE SerialLink -----------------------------
(***************************************************************************)
(* "Push code live": the REPL of the command line tool                     *)
(* (crates/pyspell-cli/src/main.rs, repl, push_program, read_reply_line)   *)
(* and the evaluator firmware (firmware/esp32s3/src/main.rs, main,         *)
(* handle_line) over a USB serial line, in both directions a FIFO of       *)
(* bytes.                                                                  *)
(*                                                                         *)
(* A byte of a request says which request it is of and where it stands in  *)
(* it; a reply is cut into its prefix ("OK " or "ERR ") and the rest, so   *)
(* that a timeout or a reset can fall into the middle of it.  What a       *)
(* program computes is left out: the reply to request k is "the reply to   *)
(* k".  The host writes before it reads and the device reads without a     *)
(* timeout, so the only races are between the device's replies and the     *)
(* host's read timeout, and with a reset of the device.                    *)
(***************************************************************************)
EXTENDS Naturals, Sequences, FiniteSets

CONSTANTS
    MAX_LINE,       \* the longest request line the device collects
    MaxRequests,    \* bound: requests typed
    Sessions        \* the sessions to consider

\* A session: the lengths its requests have, bounds on requests and on resets
\* of the device, and whether the device always answers within the timeout.
Session == [lengths : SUBSET (Nat \ {0}), requests : 0 .. MaxRequests,
            resets : Nat, prompt : BOOLEAN]

ASSUME LinkAssumption ==
    /\ MAX_LINE \in Nat \ {0} /\ MaxRequests \in Nat
    /\ Sessions \subseteq Session

VARIABLES
    up,         \* host -> device
    down,       \* device -> host
    line,       \* main: the request line collected so far
    host,       \* the REPL: is it in read_reply_line, and with which line
    got,        \* what push_program returned, request by request
    session,    \* the session
    resets      \* resets so far

linkVars == <<up, down, line, host, got, session, resets>>

NL == [t |-> "nl"]

Requests == 1 .. MaxRequests

\* hex_encode of to_bytes(program), and the line end
RequestLine(k, n) ==
    Append([i \in 1 .. n |-> [t |-> "byte", req |-> k, pos |-> i, len |-> n]], NL)

\* fn reply_ok, fn reply_err
Reply(prefix, k) == <<[t |-> prefix, req |-> k], [t |-> "rest", req |-> k], NL>>

\* "READY pyspell-esp32" and the boot log
ReadyLine == <<[t |-> "text"], NL>>

Init ==
    /\ up = <<>> /\ down = ReadyLine /\ line = <<>>
    /\ host = [reading |-> FALSE, line |-> <<>>]
    /\ got = <<>> /\ session \in Sessions /\ resets = 0

-----------------------------------------------------------------------------
(* The device: the loop of main *)

\* The line is one whole request.
Complete(l) ==
    /\ l # <<>>
    /\ Len(l) = l[1].len
    /\ \A i \in DOMAIN l : l[i].req = l[1].req /\ l[i].pos = i

\* fn handle_line: a whole request is decoded and evaluated, with or without
\* success; of another line it is left open whether it happens to decode.
HandleLine(l) == {Reply(p, l[Len(l)].req) : p \in {"OK", "ERR"}}

DeviceLineEndKeeps ==
    /\ up # <<>> /\ Head(up) = NL
    /\ IF line = <<>>
       THEN UNCHANGED down
       ELSE \E r \in HandleLine(line) : down' = down \o r
    /\ up' = Tail(up)
    /\ UNCHANGED <<line, host, got, session, resets>>

DeviceLineEnd ==
    /\ up # <<>> /\ Head(up) = NL
    /\ IF line = <<>>
       THEN UNCHANGED down
       ELSE \E r \in HandleLine(line) : down' = down \o r
    /\ line' = <<>>
    /\ up' = Tail(up)
    /\ UNCHANGED <<host, got, session, resets>>

\* line.len() < MAX_LINE
Fits(l) == Len(l) < MAX_LINE

\* "Overflow: drop the runaway line and report."
DeviceByte ==
    /\ up # <<>> /\ Head(up) # NL
    /\ IF Fits(line)
       THEN line' = Append(line, Head(up)) /\ UNCHANGED down
       ELSE line' = <<>> /\ down' = down \o Reply("ERR", Head(up).req)
    /\ up' = Tail(up)
    /\ UNCHANGED <<host, got, session, resets>>

\* The device restarts: what it had read and some of what is in the buffers is
\* lost, and it says READY again.
DeviceReset ==
    /\ resets < session.resets
    /\ resets' = resets + 1
    /\ line' = <<>>
    /\ \E i \in 0 .. Len(up) : up' = SubSeq(up, i + 1, Len(up))
    /\ \E j \in 0 .. Len(down) : down' = SubSeq(down, 1, j) \o ReadyLine
    /\ UNCHANGED <<host, got, session>>

-----------------------------------------------------------------------------
(* The host *)

Asked == Len(got) + 1

\* repl, fn push_program up to read_reply_line
Push(n) ==
    /\ ~host.reading /\ Asked <= session.requests
    /\ up' = up \o RequestLine(Asked, n)
    /\ host' = [reading |-> TRUE, line |-> <<>>]
    /\ UNCHANGED <<down, line, got, session, resets>>

\* push_program returns, and the prompt comes back.
Return(outcome) ==
    /\ got' = Append(got, outcome)
    /\ host' = [reading |-> FALSE, line |-> <<>>]

IsReplyAnyLine(l) == TRUE

\* s.starts_with("OK ") || s.starts_with("ERR ")
IsReply(l) == l[1].t \in {"OK", "ERR"}

\* The reply parsed; a line cut short by a reset is malformed.
Parsed(l) ==
    [asked |-> Asked,
     kind  |-> IF /\ Len(l) = 2 /\ l[1].t = "OK"
                  /\ l[2] = [t |-> "rest", req |-> l[1].req]
               THEN "value" ELSE "error",
     of    |-> IF l[1].t = "text" THEN 0 ELSE l[1].req]

\* fn read_reply_line, one read
HostRead ==
    /\ host.reading /\ down # <<>>
    /\ down' = Tail(down)
    /\ IF Head(down) # NL
       THEN host' = [host EXCEPT !.line = Append(@, Head(down))] /\ UNCHANGED got
       ELSE IF host.line # <<>> /\ IsReply(host.line)
       THEN Return(Parsed(host.line))
       ELSE host' = [host EXCEPT !.line = <<>>] /\ UNCHANGED got
    /\ UNCHANGED <<up, line, session, resets>>

\* Nothing has come for 5 seconds.
HostTimeout ==
    /\ host.reading /\ down = <<>>
    /\ session.prompt => up = <<>>
    /\ Return([asked |-> Asked, kind |-> "timeout", of |-> 0])
    /\ UNCHANGED <<up, down, line, session, resets>>

-----------------------------------------------------------------------------
Device == DeviceLineEnd \/ DeviceByte

Next ==
    \/ Device \/ DeviceReset
    \/ \E n \in session.lengths : Push(n)
    \/ HostRead \/ HostTimeout

Spec == Init /\ [][Next]_linkVars

\* The device's loop runs, and read() returns what is there or times out.
LinkFairness == WF_linkVars(Device) /\ WF_linkVars(HostRead \/ HostTimeout)

FairSpec == Spec /\ LinkFairness

-----------------------------------------------------------------------------
(* Properties *)

\* No request of the session is longer than the device's buffer.
RequestsFit == \A n \in session.lengths : n <= MAX_LINE

\* Timeouts shift the replies, a late one is taken for the next request; but
\* one timeout leaves at most one stale reply behind, also when the device
\* resets, as long as no request exceeds MAX_LINE.
LagBounded ==
    \A i \in DOMAIN got :
      RequestsFit /\ got[i].of # 0 =>
        /\ got[i].of <= got[i].asked
        /\ got[i].asked - got[i].of
             <= Cardinality({j \in 1 .. i - 1 : got[j].kind = "timeout"})

\* The prompt always comes back: neither a lost request nor a reply cut short by
\* a reset leaves read_reply_line waiting for ever.
HostReturns == host.reading ~> ~host.reading

\* Every pushed program gets its own answer, in spite of READY and log lines,
\* if the device answers in time, does not reset and the requests fit.
RequestAnswered ==
    session.prompt /\ session.resets = 0 /\ RequestsFit =>
      \A k \in Requests :
        (host.reading /\ Asked = k) ~>
           (Len(got) >= k /\ got[k].kind # "timeout" /\ got[k].of = k)

\* What the host gets out of the link in the end: its prompt back in any case, and
\* the reply to each program where nothing goes wrong.
LinkServes == HostReturns /\ RequestAnswered
=============================================================================
