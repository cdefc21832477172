----------------------------- MODULE DerpStream -----------------------------
(***************************************************************************)
(* The byte stream between a DERP relay and a node, and how the node takes *)
(* frames from it: Derp::read_frame* of the dongle (src/derp.rs), over TLS *)
(* records, and DerpConn::read_frame of the browser node                   *)
(* (tailscale-wasm/src/lib.rs), over WebSocket messages.                   *)
(*                                                                         *)
(* A frame is a header and len pieces of payload.  The relay cuts what it  *)
(* sends into records wherever it likes.  A stream is the units the node   *)
(* has not read: the first `arrived' of them have arrived, in records that *)
(* end at the positions `ends', and of those the first `opened' are what   *)
(* is left of the record opened last.                                      *)
(***************************************************************************)
EXTENDS Naturals, Sequences, SequencesExt

CONSTANT MAX_FRAME      \* the longest payload a node accepts

ASSUME DerpStreamAssumption == MAX_FRAME \in Nat \ {0}

\* write_frame: the header, then the payload.
Units(f) == [i \in 1 .. f.len + 1 |-> [part |-> i - 1, frame |-> f]]

NoStream == [units |-> <<>>, arrived |-> 0, ends |-> {}, opened |-> 0, eof |-> FALSE]

First(s) == s.units[1].frame

\* read_frame: "DERP frame too large"
TooLarge(s) == s.arrived > 0 /\ First(s).len > MAX_FRAME

\* read_exact has all it waits for: the header and the payload it announces.
Ready(s) ==
    /\ s.arrived > 0 /\ ~TooLarge(s)
    /\ s.arrived > First(s).len

\* read_frame_timeout looks at what TLS has opened already, which poll does
\* not see, before it polls the socket; a closed socket is readable.
BufferedOnlyPolled(s) == s.arrived > s.opened \/ s.eof
Readable(s) == s.opened > 0 \/ s.arrived > s.opened \/ s.eof

\* The end of the last record that must be opened to read k units.
OpenedTo(s, k) ==
    IF k <= s.opened THEN s.opened
    ELSE CHOOSE e \in s.ends : e >= k /\ \A x \in s.ends : x >= k => e <= x

\* The node has read k units, with the records opened up to position e.
Rest(s, k, e) ==
    [s EXCEPT !.units = SubSeq(@, k + 1, Len(@)), !.arrived = @ - k,
              !.opened = e - k, !.ends = {x - k : x \in {y \in @ : y > k}}]

\* read_exact: k units from the record at hand and as many others as it takes.
TakeWholeRecords(s, k) == Rest(s, OpenedTo(s, k), OpenedTo(s, k))
Take(s, k) == Rest(s, k, OpenedTo(s, k))

TakeFrame(s) == Take(s, First(s).len + 1)

\* The relay writes a frame; n units of what it wrote arrive as one record; it
\* closes the connection.
Write(s, f) == [s EXCEPT !.units = @ \o Units(f)]
Arrive(s, n) == [s EXCEPT !.arrived = @ + n, !.ends = @ \cup {s.arrived + n}]
Closed(s) == [s EXCEPT !.units = SubSeq(@, 1, s.arrived), !.eof = TRUE]

\* What is not read yet begins with the header of a frame.
Aligned(s) == s.units # <<>> => s.units[1].part = 0
=============================================================================
