-------------------------------- MODULE Netmap --------------------------------
(***************************************************************************)
(* What the firmware takes out of a MapResponse: its own address, the      *)
(* peers it can reach and the sources the packet filter lets through       *)
(* (control/mod.rs and core/src/peers.rs, core/src/node.rs).               *)
(*                                                                         *)
(* A byte of the response is an atom <<"b", name>>.  The address string    *)
(* is cut into five: the quote, "100.", two pieces and the last digit      *)
(* group, so that every way a DATA frame can end inside it is there:       *)
(* with one piece the text passes the length test but is no address, with  *)
(* two it is another address.  Addresses have AddrBits bits instead of 32. *)
(***************************************************************************)
EXTENDS Integers, Sequences, FiniteSets, SequencesExt

CONSTANTS
    AddrBits,       \* bits of an address (32)
    Own,            \* the node's own address
    Truncated       \* what its text says with the last digits missing

Addrs == 0 .. 2^AddrBits - 1

ASSUME NetmapAssumption ==
    /\ AddrBits \in Nat \ {0}
    /\ Own \in Addrs /\ Truncated \in Addrs /\ Own # Truncated

\* What the powers of two are, for the proofs: the prover has no definition of ^.
ASSUME PowersOfTwo == 2^0 = 1 /\ \A k \in 0 .. AddrBits - 1 : 2^(k + 1) = 2 * 2^k

B(x) == <<"b", x>>
Quote == B("quote")
OwnText == <<B("100."), B("x"), B("y"), B("z")>>
Digits == Range(OwnText)
AddressField == <<Quote>> \o OwnText \o <<B("slash")>>

-----------------------------------------------------------------------------
\* The first place of the pattern "100. in raw, 0 when it is not there.
PatternAt(raw) ==
    LET at == {k \in 1 .. Len(raw) - 1 : raw[k] = Quote /\ raw[k + 1] = B("100.")}
    IN  IF at = {} THEN 0 ELSE Min(at)

\* scan_tailscale_ip: the text from the quote to the next slash, quote or the
\* end of raw, taken when it is long enough and all digits and dots; <<>> is
\* None.
ScanTailscaleIp(raw) ==
    LET at == PatternAt(raw)
        stop == {k \in at + 1 .. Len(raw) : raw[k] \in {Quote, B("slash")}}
        end == IF stop = {} THEN Len(raw) ELSE Min(stop) - 1
        text == SubSeq(raw, at + 1, end)
    IN  IF at # 0 /\ Range(text) \subseteq Digits /\ Len(text) >= 2 THEN text ELSE <<>>

\* Ipv4Addr::from_str on a text of the scan: a set of at most one address.
ParseIp(text) ==
    IF text = OwnText THEN {Own}
    ELSE IF text = Front(OwnText) THEN {Truncated} ELSE {}

-----------------------------------------------------------------------------
\* An address pattern of the netmap: "*", "a.b.c.d", "a.b.c.d/bits" or
\* something that is not IPv4.
Star == [form |-> "star", ip |-> 0, bits |-> 0]
Host(a) == [form |-> "host", ip |-> a, bits |-> 0]
Block(a, n) == [form |-> "block", ip |-> a, bits |-> n]
Other == [form |-> "other", ip |-> 0, bits |-> 0]
Patterns ==
    {p \in [form : {"star", "host", "block", "other"}, ip : Addrs, bits : Nat] : p.form = "star" => p = Star}

\* parse_cidr: Option<Cidr> as a set of at most one network and mask length.
ParseCidr(p) ==
    CASE p.form = "host"  -> {<<p.ip, AddrBits>>}
      [] p.form = "block" -> {<<p.ip, IF p.bits < AddrBits THEN p.bits ELSE AddrBits>>}
      [] OTHER            -> {}

\* ip & mask == net & mask
SameNetUnmasked(c, ip) ==
    LET size == 2^(AddrBits - c[2]) IN (ip \div size) * size = c[1]
SameNet(c, ip) ==
    LET size == 2^(AddrBits - c[2]) IN ip \div size = c[1] \div size

\* cidr_match, cidr_contains
CidrMatch(cidrs, ip) == \E c \in cidrs : SameNet(c, ip)

\* The packet filter of a netmap: Option<Vec<FilterRule>>.
NoAcl == [present |-> FALSE, rules |-> <<>>]
Acl(rules) == [present |-> TRUE, rules |-> rules]

\* allowed_srcs: None lets every source through.
NoFilter == [present |-> FALSE, cidrs |-> {}]
Filter(cidrs) == [present |-> TRUE, cidrs |-> cidrs]

\* parse_allowed_srcs, and the same rules in fetch_peers: the sources of every
\* rule whose destinations cover us.
AllowedSrcs(acl, ipText) ==
    IF ~acl.present \/ ParseIp(ipText) = {} THEN NoFilter
    ELSE LET ours == CHOOSE a \in ParseIp(ipText) : TRUE
             CoversUs(r) == \E d \in r.dst : d = Star \/ CidrMatch(ParseCidr(d), ours)
             Sources(r) == UNION {IF s = Star THEN {<<0, 0>>} ELSE ParseCidr(s) : s \in r.src}
         IN  Filter(UNION {Sources(r) : r \in {q \in Range(acl.rules) : CoversUs(q)}})

\* src_allowed
SrcAllowed(allowed, src) == allowed.present => CidrMatch(allowed.cidrs, src)

\* parse_peers, and the same loop in fetch_peers: the peers with both keys,
\* with the first of their addresses that starts with 100.
ParsePeers(list) ==
    LET usable == SelectSeq(list, LAMBDA p : p.key /\ p.disco)
        First100(as) == SelectSeq(as, LAMBDA a : a.v4)
    IN  [k \in 1 .. Len(usable) |->
            [name |-> usable[k].name,
             ip |-> IF First100(usable[k].addresses) = <<>> THEN <<>>
                    ELSE <<First100(usable[k].addresses)[1].ip>>]]

-----------------------------------------------------------------------------
\* What the patterns mean, as sets of addresses.
Denotes(p) ==
    CASE p.form = "star"  -> Addrs
      [] p.form = "host"  -> {p.ip}
      [] p.form = "block" -> {a \in Addrs : \A k \in 0 .. AddrBits - 1 :
              k >= AddrBits - p.bits => (a \div 2^k) % 2 = (p.ip \div 2^k) % 2}
      [] OTHER            -> {}

\* What a packet filter means for packets sent to us.
AclAllows(acl, src) ==
    \/ ~acl.present
    \/ \E r \in Range(acl.rules) :
          /\ \E d \in r.dst : Own \in Denotes(d)
          /\ \E s \in r.src : src \in Denotes(s)
=============================================================================
