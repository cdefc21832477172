----------------------------- MODULE Reflector ------------------------------
(***************************************************************************)
(* Two dongles with feature mdns-forward, one per LAN: the reflector       *)
(* thread (run in src/mdns.rs) and the part of the data plane that carries *)
(* its payloads through the tunnel (mdns_drain and handle_decrypted in     *)
(* src/dataplane.rs).                                                      *)
(*                                                                         *)
(* A LAN and its dongle have the same name.  A LAN in Repeaters has a      *)
(* device that repeats every multicast under its own address.  The hash of *)
(* a payload is the payload.                                               *)
(***************************************************************************)
EXTENDS Naturals, Sequences, SequencesExt

CONSTANTS
    Lans, Repeaters,
    Payloads,       \* of each LAN
    DEDUP_MAX,
    Sendings        \* bound: how often the hosts send each payload

ASSUME ReflectorAssumption ==
    /\ Repeaters \subseteq Lans /\ DOMAIN Payloads = Lans
    /\ {DEDUP_MAX, Sendings} \subseteq Nat \ {0}

VARIABLES
    left,       \* hosts: how often each payload will still be sent
    paired,     \* dongles that have a tunnel of their partner
    seen,       \* mdns: hashes, oldest first
    sock,       \* mdns: packets its socket has received
    fwd,        \* channel of captured payloads to the data plane
    reinject,   \* channel of payloads of the partner to the reflector
    link,       \* payloads under way to the partner
    due,        \* payloads sent first while both tunnels were up (history)
    heard,      \* payloads of the partner that the LAN has heard (history)
    since       \* hashes remembered since a payload was re-injected, counted
                \* up to DEDUP_MAX (history)

mdnsVars == <<left, paired, seen, sock, fwd, reinject, link, due, heard, since>>

AllPayloads == UNION {Payloads[l] : l \in Lans}
Partner(r) == CHOOSE l \in Lans : l # r

\* build_mdns_link: both channels are empty.
MdnsStart(sendings, ps) ==
    /\ left = [l \in Lans |-> [v \in Payloads[l] |-> sendings]]
    /\ paired = ps
    /\ seen = [r \in Lans |-> <<>>] /\ sock = seen /\ fwd = seen
    /\ reinject = seen /\ link = seen
    /\ due = [l \in Lans |-> {}] /\ heard = due
    /\ since = [r \in Lans |-> [v \in AllPayloads |-> DEDUP_MAX]]

MdnsInit == MdnsStart(Sendings, {})

\* What the socket of dongle r gets when somebody on its LAN multicasts v.
OnLan(r, v, self) ==
    LET other == [payload |-> v, self |-> FALSE]
    IN <<[other EXCEPT !.self = self]>> \o IF r \in Repeaters THEN <<other>> ELSE <<>>

HostSends(l, v) ==
    /\ v \in Payloads[l] /\ left[l][v] > 0
    /\ left' = [left EXCEPT ![l][v] = @ - 1]
    /\ sock' = [sock EXCEPT ![l] = @ \o OnLan(l, v, FALSE)]
    /\ due' = IF left[l][v] = Sendings /\ paired = Lans
              THEN [due EXCEPT ![l] = @ \cup {v}] ELSE due
    /\ UNCHANGED <<paired, seen, fwd, reinject, link, heard, since>>

\* The tunnel to the partner comes up (module Dataplane).
Pair(r) ==
    /\ r \notin paired /\ paired' = paired \cup {r}
    /\ UNCHANGED <<left, seen, sock, fwd, reinject, link, due, heard, since>>

-----------------------------------------------------------------------------
\* remember()
Remember(q, h) == Append(IF Len(q) >= DEDUP_MAX THEN Tail(q) ELSE q, h)

\* One more hash was remembered.
Aged(ages) == [v \in AllPayloads |-> IF ages[v] < DEDUP_MAX THEN ages[v] + 1 ELSE DEDUP_MAX]

\* "so we don't re-forward our own injection"
ReinjectRemembers(q, v) == Remember(q, v)

Reinject(r) ==
    /\ reinject[r] # <<>>
    /\ LET v == Head(reinject[r])
       IN /\ reinject' = [reinject EXCEPT ![r] = Tail(@)]
          /\ seen' = [seen EXCEPT ![r] = ReinjectRemembers(@, v)]
          /\ sock' = [sock EXCEPT ![r] = @ \o OnLan(r, v, TRUE)]
          /\ heard' = [heard EXCEPT ![r] = @ \cup {v}]
          /\ since' = [since EXCEPT ![r] = [Aged(@) EXCEPT ![v] = 0]]
    /\ UNCHANGED <<left, paired, fwd, link, due>>

\* Whether a captured packet is handed on: not one of the dongle itself, and
\* not one whose hash is remembered.
RememberedBefore(r, m) == ~m.self /\ m.payload \notin ToSet(Remember(seen[r], m.payload))
Forwards(r, m) == ~m.self /\ m.payload \notin ToSet(seen[r])

Capture(r) ==
    /\ sock[r] # <<>>
    /\ sock' = [sock EXCEPT ![r] = Tail(@)]
    /\ LET m == Head(sock[r])
       IN IF Forwards(r, m)
          THEN /\ seen' = [seen EXCEPT ![r] = Remember(@, m.payload)]
               /\ fwd' = [fwd EXCEPT ![r] = Append(@, m.payload)]
               /\ since' = [since EXCEPT ![r] = Aged(@)]
          ELSE UNCHANGED <<seen, fwd, since>>
    /\ UNCHANGED <<left, paired, reinject, link, due, heard>>

\* Without a tunnel of the partner the payload is dropped.
MdnsDrain(r) ==
    /\ fwd[r] # <<>>
    /\ fwd' = [fwd EXCEPT ![r] = Tail(@)]
    /\ link' = IF r \in paired THEN [link EXCEPT ![r] = Append(@, Head(fwd[r]))] ELSE link
    /\ UNCHANGED <<left, paired, seen, sock, reinject, due, heard, since>>

\* handle_decrypted at the partner: a packet of its partner to FWD_PORT.
FromPartner(r) ==
    /\ link[r] # <<>>
    /\ link' = [link EXCEPT ![r] = Tail(@)]
    /\ reinject' = IF Partner(r) \in paired
                   THEN [reinject EXCEPT ![Partner(r)] = Append(@, Head(link[r]))] ELSE reinject
    /\ UNCHANGED <<left, paired, seen, sock, fwd, due, heard, since>>

-----------------------------------------------------------------------------
MdnsThread(r) == Reinject(r) \/ Capture(r)

MdnsNext ==
    \E r \in Lans :
        \/ \E v \in AllPayloads : HostSends(r, v)
        \/ Pair(r) \/ MdnsThread(r) \/ MdnsDrain(r) \/ FromPartner(r)

ReflectorSpec == MdnsInit /\ [][MdnsNext]_mdnsVars

\* The loop of the reflector serves both its sources.
MdnsFairness ==
    \A r \in Lans :
        WF_mdnsVars(Reinject(r)) /\ WF_mdnsVars(Capture(r))
        /\ WF_mdnsVars(MdnsDrain(r)) /\ WF_mdnsVars(FromPartner(r))

-----------------------------------------------------------------------------
\* "Never forward a packet we just re-injected": what a dongle sends to its
\* partner comes from a host of its own LAN, also where a device repeats what
\* it has re-injected.
NoEcho ==
    \A r \in Lans : ToSet(fwd[r]) \cup ToSet(link[r]) \subseteq Payloads[r]

\* The same for every list of hashes, also one that forgets: a dongle hands on
\* what it has re-injected only after DEDUP_MAX other hashes have come on top of
\* it, whoever repeats it and however often.
NotJustReinjected ==
    [][\A r \in Lans : \A v \in AllPayloads :
         fwd'[r] = Append(fwd[r], v) => since[r][v] = DEDUP_MAX]_mdnsVars

\* What a host sends for the first time while the tunnel is up is heard on the
\* other LAN.
Reflected ==
    \A r \in Lans : \A v \in Payloads[r] :
        (v \in due[r]) ~> (v \in heard[Partner(r)])

\* The promise of the reflector: each LAN hears the other, and nothing goes round.
Reflects == []NoEcho /\ NotJustReinjected /\ Reflected
=============================================================================
