# A TLA+ model of pyspell

pyspell is a small, bounded expression language (a Python or Rust front end, a
typed IR, a budgeted evaluator) and the devices that run it: an ESP32 evaluator
behind a serial line, and a dongle that joins a Tailscale network by itself and
serves pages, a language model and pyspell programs from inside a WireGuard
tunnel. The dongle implements its own network: the control client over HTTP/2
and Noise, disco probing, the WireGuard handshakes, a relay client, and a TCP
server, client and proxy on top of decrypted IP packets. This project models
the language from its source text to its result, and the network parts with
their state machines, timers and unreliable messages.

Everything here is checked by TLC (`tlc -config <run>.cfg <module>`) or proved
by TLAPS (`tlapm <module>` for each module whose name ends in `Proofs`, and
`SequenceFacts`). `PROJECT.json` lists the components,
the runs, for every definition the source lines it models, for every property
a mutation of the model that breaks it, the hazards of the code, the findings
and the theorems.

In this file `D` stands for `demo/esp32-tailscale-pyspell`.

## 1. Inventory

| Component | Source | State it keeps | Operations | Talks to |
|---|---|---|---|---|
| In-tunnel HTTP server | `D/core/src/tcp.rs` | one `Conn`: peer, sequence numbers, window, `RespState`, RTO, ages | `process` (SYN, RST, ACK, data, FIN), `pump`, `tick` | data plane, DERP client and browser node call it; responses come from the router |
| Data plane | `D/src/dataplane.rs`, `D/core/src/{wg,disco,transport}.rs` | pending handshakes by node, tunnels by our index, endpoint strikes, routes | loop of `run_periodic` and one `recv_from`; PING/PONG, initiation, response, transport | UDP socket; TcpServer, TcpClient, proxy, mDNS, lwIP bridge |
| Outbound HTTP client | `D/core/src/outbound.rs` | `TcpClient`: numbers, established, done, response | `open`, `on_inner` | data plane |
| Serial link | `crates/pyspell-cli/src/main.rs`, `firmware/esp32s3/src/main.rs` | host: the pending read; device: the line collected | `repl`, `push_program`, `read_reply_line`; `main`, `handle_line` | USB serial line |
| `fetch_json` | `crates/pyspell-core/src/json.rs`, `json_probe` in `eval.rs`, `fetch_extract` in `D/src/net.rs` | the bytes received so far | `get`, probe after every block | HTTP client |
| Evaluator | `crates/pyspell-core/src/{eval,eval_async}.rs` | step and memory budget, deadline check counter | `eval`, `charge`, builtins | capabilities (fetch, send, actuators) |
| Parser, front ends | `crates/pyspell-core/src/parse.rs`, `crates/pyspell-lang` | cursor | tokenise, parse, lower | evaluator through the IR and the wire format |
| DERP relay client | `D/src/derp.rs` | up to four relayed peers (LRU), upgraded peers | `serve`: frames, reconnect, idle tick | TcpServer, data plane |
| lwIP bridge, boot guard | `D/src/lwip_bridge.rs` | bounded TX queue, frames lent to lwIP, boot counter in flash | netif input/output, `bring_up_guarded` | data plane, tcpip thread |
| Control client | `D/src/control/mod.rs`, `D/core/src/{h2,noise,peers,node}.rs` | HTTP/2 connection, netmap, allowed sources | register, map stream, filter | control server; data plane targets |
| Local HTTP server | `D/src/local_server.rs` | queue of connections, workers | accept, serve, byte ranges | pages (`pyspell_web.rs`) |
| mDNS reflector | `D/src/mdns.rs` | 64 recent digests | forward both ways | data plane, LAN |
| TCP proxy | `D/src/proxy.rs` | one connection | SYN, request, FIN, blocking LAN fetch | data plane |
| Fetch gates | `D/esp32-mpe-fetch`, `D/src/model_host.rs` | permits, heap floor | acquire, wait, cancel | evaluator |
| Browser node | `crates/tailscale-wasm` | a list of tunnels, one TcpServer for all | register, frames, timer task | control server, DERP over WebSocket, TcpServer |
| TinyLLM | `crates/tinyllm` | KV cache, tokenizer tables | forward, encode, decode | model host |
| Start-up, drivers, pages, scripts | the rest of `D/src`, `web/`, `train/`, `mcp/` | | | |

What is hard here, and hardly reached by the repository's unit tests (which
call one function with one packet):

* **unreliable delivery**: everything in the tunnel rides on UDP, so segments,
  initiations and responses are lost, repeated and late, and each handler
  decides by itself whether a packet is still meant for the present state;
* **timers against answers**: retransmission and watchdog in `tick`, handshake
  retries, the probe strikes, the five-second read of the REPL;
* **a single slot**: one TCP connection, one pending handshake per peer, eight
  tunnels, four relayed peers, a 64-entry queue, one 8 KiB line;
* **wrap-around**: sequence numbers are `u32` compared as `i32`;
* **restart**: a device that reboots forgets its tunnels, its peers do not, and
  the board may reset in the middle of a serial line;
* **cutting a stream anywhere**: the JSON probe, the netmap scan and HTTP/2
  read blocks whose boundaries mean nothing.

What makes each modelled component correct:

* *server*: bytes leave at the sequence number of their offset, inside the
  window; the reader sees each response byte once and in order, and the end
  only at the end; a response is freed only when delivered; a connection is
  released in the end;
* *data plane*: a receiver index names one handshake and an address one tunnel;
  both ends of a tunnel that carries traffic have the same keys; a slot of a pending handshake is freed;
  nodes end with tunnels that fit and follow a peer that moves;
* *outbound client*: what it returns is a prefix of the page, the whole page on
  an orderly path;
* *serial link*: a reply is never further off than there were timeouts, the
  buffer is bounded, the prompt comes back;
* *fetch_json*: what it returns is what the document says at the path, and that
  nothing is there only if so (or if the stream broke off);
* *language*: the host's front ends and the device's parser make the same
  program of a text, outside gaps that can be named; both evaluators give it the same result, limits only cut a
  run short, and an arithmetic program means what its source says;
* *control client*: however an answer is cut into frames, records and segments,
  it is read whole; the address taken is the node's own and the filter lets
  through whom the netmap allows; no call waits for a server that waits;
* *relay*: frames stay aligned, a packet for a peer is under that peer's key, a
  segment belongs to the connection of its receiver, every user is answered;
* *bridge*: no frame is freed while lwIP refers to it, none leaks; a bad boot
  does not repeat for ever; every peer is answered and every range honoured;
* *reflector and proxy*: nothing is reflected back or lost silently at first
  sight; a client gets one response to its own request, whole if the send buffer
  takes it, and the loop resumes.

The hazards behind these, each at its line and with the properties that watch
it, are in `PROJECT.json`.

## 2. Modules

```
SeqNum        u32 ring of 2*SeqHalf values, wrapping_add/sub, seq_lt
 `- TcpServer                 the server alone, any environment
     |- TcpServerProofs       theorems
     |- TcpTransfer           + conforming clients + network;  refines ByteStream
     |   |- MCTcpTransfer     the environments
     |   |- MCTcp             MCTcpTransfer and MCOutboundFetch side by side
     |   `- TcpTransferProofs theorems, on top of TcpServerProofs; also those
     |                        about OutboundFetch
     `- OutboundFetch         + the repository's own TcpClient
         `- MCOutboundFetch   the paths
ByteStream    what a reader is promised (abstract specification)
Dataplane     nodes that all run the data plane, UDP network, roaming, reboots
 |- MCDataplane               the worlds
 `- DataplaneProofs           theorems
SerialLink    REPL, serial line and firmware
 |- MCSerialLink              the sessions
 `- SerialLinkProofs          theorems
JsonProbe     json::get and the streaming probe
 `- MCJsonProbe               the documents and the paths
SpellValues   values, operators and builtins of the language
 `- SpellEval                 the blocking and the cooperative evaluator
     `- SpellParse            the device's parser and the host's front ends
         `- Spell             a program from source to result
             `- MCSpell       the programs and the limits
                 `- MCPrograms  MCSpell, MCJsonProbe, MCSerialLink side by side
Netmap        what is taken out of a netmap: address, peers, filter
 `- Control                   upgrade, Noise records, HTTP/2, calls, main loop
     |- MCControl             the netmaps
     `- ControlProofs         theorems
DerpStream    frames out of records or messages
 `- Relay                     peers that reach the dongle or the browser node
     |- MCRelay               the cases
     `- RelayProofs           theorems
Bridge        lwIP bridge, boot guard, routes, HTTP server
Reflector     two mDNS reflectors
Proxy         the TCP proxy
 |- MCServices                one build of the firmware each
 `- ServicesProofs            theorems about Bridge, Reflector and Proxy
SequenceFacts lemmas about sequences that several of the proofs cite
```

What the surroundings of a component may do (who takes part, how many faults of
which kind, whether everything is fast for the timers) is a record that `Init`
chooses out of a constant set: `Envs` for TcpTransfer, `Worlds` for Dataplane,
`Paths` for OutboundFetch, `Sessions` for SerialLink, `Cases` for Relay,
`Circumstances` for Bridge, `ProxyCases` for Proxy. The MC modules list them,
so that one run covers several kinds of trouble without the product of all of
them, and a property that needs good surroundings says so in its premise.

`MCTcp`, `MCPrograms` and `MCServices` put components that share no state side by
side: the first state decides which of them runs, the others stay still, and the
fairness of each is stated for the behaviours that have it.

### TcpServer

`conn` is `struct Conn`. The fields `last_send_ms` and `opened_ms` are used only
as `now_ms - field`; the model keeps that difference (`sendAge`, `openAge`) and
`Elapse` advances it. A response is its number and its length; its bytes are
offsets. `process()` is the disjunction `Process(m)` of its branches
(`RecvSyn`, `RecvIgnored`, `RecvRst`, `RecvData`, `RecvFin`, `RecvAck`) with the
ACK field handled by `AckField`. `tick()` is `Tick` (`TickWatchdog`,
`TickGiveUp`, `TickRetransmit`). `pump()` hands out one segment at a time, so it
is modelled that way (`PumpSegment`, `PumpDone`): the variable `pump` says that
a handler is inside the loop, and no other server action runs until it has left.
It leaves it in `PumpDone` or, when a read of the body fails, in `PumpFails`: the
readers of files in flash give all they are asked for or nothing. (The segment
in which the headers end is sent with what it has of them if its read fails;
the model does not tell it from a whole one.)

`Spec` puts the server in any environment: any segment of `ClientSegment` may
arrive at any moment and the network drops what it likes.

### TcpTransfer and ByteStream

TcpTransfer adds conforming clients (external code: a browser or curl, which
opens, sends one request, reads into a bounded buffer, acknowledges with its
free space as window, closes) and a network that delivers in any order and, up
to the bounds of the environment, loses and repeats. `env.timely` says that
network, loop and application are fast compared with the timers; without it an
RTO or the watchdog may fire at any moment.

ByteStream is what the client's application is promised: it reads the bytes of
one response of a fixed length in order, is told the end only after the last,
and never after the transfer was cut. `Reader(c)` maps each client to it and
`DeliversByteStream` is the refinement, per client.

A repeated SYN makes the server start over with another number while the client
may count from the first one, which it got with an earlier SYN-ACK: from then on
the two ends are of two connections. `IssApart` says that two values of
`rand_u32` are further apart than a connection is long, and `FreshIss` that a
new one is neither the number of the server's connection nor the one its client
counts from (`Base`). The code relies on both and checks neither: without them
bytes of one connection pass for bytes of the other.

### OutboundFetch

The other side of the same protocol, as the repository writes it: `TcpClient`
sends a SYN and a request and never retransmits, does not look at RST, and
takes a FIN from any segment. It is composed with TcpServer as the peer dongle.
`FetchIssApart` says what both ends rely on without a check: two initial sequence
numbers (two values of `rand_u32`) lie further apart than a response is long.
Without it a late segment of the connection before a repeated SYN passes for
one of the present connection, and the page is mixed.

### Dataplane

Each node runs `run()`: `Periodic` (handshake retries, probes with strikes,
keepalives), then `Recv` or `RecvTimeout`, then the tick. Cryptography is ideal:
an index identifies the handshake it was drawn for, the pair (ours, theirs)
stands for the keys, and a packet decrypts iff both ends hold the same pair. The
network is a set of datagrams, lost and repeated up to bounds; a node may change
its address (`Move`) and reboot. A node can have an address on each of several paths
(its LAN, a NAT), a `Target` has endpoints on any of them, and the DERP thread
may hand over more at run time (`Offers`), out of its list or of a
CALL_ME_MAYBE; all of them are probed, and each may answer. A response may be
damaged on its way, which costs the pending handshake it names. `world.timely` as
above. `handle_decrypted` is
modelled up to the point where the inner packet is accepted (roaming included);
what it does with the inner packet is the other modules' business.

### SerialLink

Two FIFOs of bytes. The device collects a line up to `MAX_LINE`, handles it at
the newline and answers with a prefix and a rest; it may reset at any byte. The
host writes a request, reads until a line that starts with `OK ` or `ERR `, and
may time out with a partial line in hand. The rest of the reply text is left
out: the reply to request k is "the reply to k".

### JsonProbe

The extractor on byte sequences (`SkipString`, `ParseString`, `SkipContainer`,
`SkipValue`, `Enter`, `ParseScalar`, `Get`), the probe after every block, and a
reference: a document is a tree, `Text` writes it, `Meaning` says what is at a
path. The stream may end at any time (`End`): with the document, or with a read
error or a closed connection, which the loop of `stream` takes for the end, so
that the answer "field not found" is the same. The operators are RECURSIVE, so this module is for TLC only. Left out:
`\uXXXX` and the value of a number token (the token stands for it).

### SpellValues, SpellEval, SpellParse, Spell

A program is a syntax tree; `Spell` writes it down as tokens (with the brackets
its operators need, and on request with the operators of the other language or a
trailing comma), has the host lower it and the device parse it, and runs the
result in either evaluator under limits. `SpellParse` has the recursive descent
of `parse.rs`, level by level, and the lowering of `py_frontend.rs`,
`rust_frontend.rs` and `lower.rs`, which start from the syntax tree that
rustpython-parser and syn (external) make. `SpellEval` has both tree walks with
their own order of charging, short circuits and deadline checks. `SpellValues`
has the operators and builtins on integers of `Width` bits with wrap-around and
on floats as ratios; of a float's precision only the rounding of integers of
more than `Mantissa` bits is kept. The reference in `Spell` is the arithmetic
meaning of the source tree. RECURSIVE operators: for TLC only. Left out: the
lexing of characters, the depth of the native stack, more than 65535 slots.

### Netmap, Control

The layers as the code nests them: bytes of TCP, of which the upgrade reads up
to the end of its header (`HttpUpgrade`), controlbase records with a nonce,
HTTP/2 frames, and on top the calls `register`, `fetch_map`, `fetch_peers`,
`update_endpoints`, the map session and the browser's registration, in the order
in which `main` makes them, with its retries. The server (external) cuts
everything anywhere and stops when a flow-control window is used up. `Netmap`
has the search for the own address in single DATA frames, the selection of
peers and the packet filter. The sync and the async code are the same line by
line; the map names the sync one where both exist.

### DerpStream, Relay

`DerpStream` is the byte stream from the relay as one record: the units (header
and payload parts) of all frames written and not read, how many of them have
arrived, where records end, how much the reader has opened and whether the
connection is closed. Record boundaries mean nothing; the reader holds the
rest of the last record. `Relay` puts `serve`
of the dongle, or the browser node, behind it: upgrade, server key, the peer
table with its least-recently-used eviction, disco with CallMeMaybe, handshakes,
data, the tick of the TcpServers when idle, reconnects. Of the TcpServer, which
has a module of its own, only whose response is outstanding is kept; `GiveUp` is the
pass of its `tick` that ends a connection with a reset. What ends one early on
the client's side, a reset or a FIN, counts as the acknowledgement of everything.

### Bridge

One thread each for the guard, the data plane, lwIP, the acceptor and the worker.
`esp_inject` is two steps (keep the frame, hand it over), between which lwIP's
thread runs; lwIP (external) is a mailbox, an ARP table and a small TCP.
Addresses of frames come out of `Ptrs` and are those RX_BUFS does not hold, as
those of an allocator are.
`bring_up_guarded` is `Skip` or `Attempt`, `Create` or `Panic`, and `Stable` 30 s
later; a panic or a power cut loses everything but the counter in flash, whose
accesses may fail. `Receive`, `DrainTx` are the data plane's half. The worker
reads a request of two parts, times out, writes `StreamReply` and closes with a
reset. A reply is one packet: one that lwIP still holds unsent when the reset
discards it is a loss like any other (`losses` of the case). `USIZE_MAX` is the
largest position that `parse::<usize>` takes (32 bits on the device).

### Reflector, Proxy

`Reflector` has two dongles with one LAN each, of which one has a device that
repeats every multicast. `Proxy` has the one `TcpProxy` all tunnels share; the
action `OnRequest` starts the fetch from the LAN, and no packet is handled until
`LanConnect` or `LanRead` returns. The response is sent as one burst: of its
segments the first `room` of the case get out, of the others any may be dropped
(`Kept`), since `send_to` fails when the buffer is full and the loop goes on.
`Reflector` has a history variable, `since`: how many hashes a dongle has
remembered since it re-injected a payload.

## 3. Runs

### Passing

| Run | Checks | What it shows |
|---|---|---|
| `transfer` | TypeOK, SendOrder, CwndBound, EmissionOK, StreamIntegrity, FreedOnlyWhenDelivered, DeliversByteStream; ResponseIsPrefix | the server and its clients, in six environments: a repeated segment; a client that resends its SYN (which draws a second ISS), request or FIN, with a loss, or with a buffer larger than `CWND`; a client that aborts; two clients that take the connection from each other; a failing read of the body. And `TcpClient` against the server over a path that reorders, with a loss or a duplicate |
| `live` | ConnReleased, TransferCompletes; FetchCompletes | a connection is released whatever is lost or repeated and whatever read fails; without faults, and fast for the timers, every transfer completes; on an ordered path `TcpClient` gets the whole page |
| `dp_safety` | TunnelsDistinct (TypeOK, IndexNamesOne, OnePerAddress), KeysAgree | two nodes that both probe and initiate; one, with a move, a reboot and a repeated datagram; a peer that is only offered at run time, with a damaged response; a peer with two endpoints, known or offered one by one, which may move |
| `dp_live` | SlotFreed, Connects, RoamingFollowed | a pending handshake ends; two losses (or a damaged response) and a failing `send_to` do not prevent tunnels that fit, over one endpoint or two; a peer that moves twice, or on two paths, is found in the end, however late datagrams are |
| `programs` | OnlyGapsDiffer, EvaluatorsAgree, LimitsHold (LimitsOnlyCut, RunsEnd, ResultFits), ReturnsMeaning; GetIsMeaning, FetchFinds (FoundIsPrefix, NotFoundIsRight); LagBounded, LinkServes (HostReturns, RequestAnswered) | every operator nested in every other, in both languages and mixed, and programs for each builtin and each limit: host and device compile alike exactly the programs outside the named gaps, both evaluators agree, limits only cut, and arithmetic means what the source says. `json::get` is the meaning of the document; however it is cut, and wherever the stream breaks off, what `fetch_json` finds is there. On the serial line a prompt device, a late one that resets, and requests that do not fit |
| `control` | BodyIsResponse, AddressIsOwn, FilterIsAcl, NoStall | every call against a server that cuts its answers anywhere and observes flow control; deadlock is checked |
| `relay` | StreamAligned, RightPeer (KeyMatchesPeer, SegmentForOwner), KnownPeersProbed, RequestServed, Resent | the dongle and the browser node behind a relay that cuts, loses and closes, with more peers than the table holds, and connections that are given up |
| `services` | BuffersLive, RangeHonoured, BootGuard, Answered; Reflects (NoEcho, NotJustReinjected, Reflected); AnswersOwner, ProxyServes (with LoopResumes) | three builds of the firmware: the bridge through panics, power cuts, flash errors, losses, renewed tunnels and silent connections; two reflectors; the proxy under losses, repeats and two users, with a send buffer that takes the burst or does not |

### Findings

Four runs are expected to fail: the property is what a comment of the code says,
and TLC's trace is what the code does.

| Run, property | The comment | What happens |
|---|---|---|
| `dp_usable`, TunnelUsable | `dataplane.rs:512` "keepalives keep those paths alive" | two dongles that initiate at the same moment each keep a tunnel the other has dropped, and neither probes again |
| `json_cut`, ScalarIsWhole | `ir.rs:84` "extract just the scalar at the JSON path" | `parse_scalar` (`json.rs:234`) takes the end of the bytes received so far for the end of a number, so a block that ends inside a number makes `fetch_json` return its first digits |
| `lang_gap`, FrontEndsAgree | `parse.rs:6` "It accepts the same whitelisted subset both front-ends do" | on the device `!` binds as loosely as `not`, and more (below) |
| `proxy_burst`, StreamsBack | `proxy.rs:3` "streams the response back"; `dataplane.rs:982` on "the old blast shim", which "fired the whole response at once, overflowing the UDP send buffer" | the proxy still does that: segments of a long response are dropped when the buffer is full, and nothing sends them again |

What does hold beside each: KeysAgree, and Connects when one of the two probes;
FoundIsPrefix, with everything but numbers returned whole; OnlyGapsDiffer; and
ProxyServes for bursts that fit the buffer.

The gaps between device and host are named in `DialectGap`, and OnlyGapsDiffer
says that among the programs of the run they are all: whenever a program falls
into one the two sides differ, and otherwise they do not.

* `!` as the operand of another operator: Rust's `!a == b` is read as `!(a == b)`,
  and `a == !b` and `-!a` are rejected by the device.
* The operators of the other language: the device takes `and`, `or` and `not` in
  Rust, `&&`, `||` and `!` in Python, and `in` and chained comparisons in
  Rust; the host refuses them. The other way round `.contains()` in Python.
* Python's unary `+` and the trailing comma of a call are refused by the device;
  a trailing `;` is accepted by the device alone.

Programs are tokens here, so differences of the lexers are not part of this: the
device takes `true` and `True`, `'a'` and `"a"` in either language, reads `//` as
a division (a comment in Rust), has its own forms of numbers, and takes as
keywords words that one of the languages has as names. Nor is a Rust `if` that
begins an operand without parentheses, which syn takes for a statement where a
block begins with it.

Other divergences, visible in the models and without a run of their own. In the
server, the data plane, the clients and the serial link:

* `net.rs:94` "field not found in response": the same answer is given when the
  body was cut short by a read error (149, `n <= 0`); NotFoundIsRight is about
  bodies that were received whole.
* `tcp.rs:279` "so a zero-window peer gets a probe": `tick` returns before that
  when nothing is outstanding; a lost window update leaves the transfer standing
  until the watchdog (ConnReleased).
* `outbound.rs:48` "enough for one HTTP request/response": a FIN that overtakes
  data ends the fetch with a truncated page (ResponseIsPrefix).
* `pyspell-cli/src/main.rs:264` "read back the device's reply value": a reply
  that comes after the timeout is taken for the next program's (LagBounded).
* `tcp.rs:374` "route it (once)": the guard is `resp.is_none()`, and a fully
  acknowledged response is freed, so a request repeated after that is routed
  again. StreamIntegrity shows that the reader does not get the second answer.
* `tcp.rs:208` "client's last advertised receive window": an older ACK that comes
  late re-opens a window the client has used up. Again the stream stays intact.
* `tcp.rs:10` "a retransmit just re-reads the same offsets": after a repeated
  SYN the client's ACKs are out of range, and a rewind goes back to the SYN
  itself; EmissionOK has this as its second case.
* `tcp.rs:179` "made no progress for this long": the age is counted from the
  SYN, so a slow transfer is cut although it progresses.
* `tcp.rs:458`: a read of the body that fails ends the loop of `pump`. If
  something is outstanding `tick` tries again; if not, only the watchdog is left.
* `dataplane.rs:6` "one per peer": tunnels are one per address. A peer with two
  endpoints answers the probes on both; the PONG that comes after the first
  handshake is over starts another one (722), and `insert_tunnel` (798) keeps
  both tunnels. OnePerAddress holds as long as the owner of the address has not
  moved there.
* `dataplane.rs:492`: PENDING_TIMEOUT_TICKS counts packets as well as timeouts, so
  an initiation can be resent while its response is on its way.
* `dataplane.rs:25` "so responses keep matching": each copy of an initiation is
  answered with new keys and replaces the responder's tunnel, and the first
  response may complete a tunnel that is gone.
* `dataplane.rs:708` "under the tunnel cap": the responder does not look at it.
* `firmware/esp32s3/src/main.rs:60` "drop the runaway line and report": the end
  of the line is handled as a request; LagBounded is about requests that fit.

In the language:

* `i64::MIN / -1` and `% -1` panic, where the other operators wrap; integers are
  compared as `f64`; the text given to `show()` is not charged.
* `eval_async.rs` "Identical language semantics": it has neither memory budget
  nor LED.

In the control client:

* `peers.rs:81` promises no filter only when there is none: an own address cut by
  the end of a DATA frame yields no address, hence a filter that admits everyone,
  or a shortened address that passes for the own one. The peers are fetched
  once; if that fails no filter is set at all.
* A length prefix cut by the first DATA frame reaches the JSON parser; a DATA
  frame with payload and END_STREAM loses the end; END_STREAM of any stream ends
  the read; PING and RST_STREAM are ignored, DATA of other streams is not
  credited to the connection; statuses other than 200 that are Huffman-coded
  decode to 0.

In the relay clients:

* In the browser node one TcpServer is shared, `active` is set by packets of any
  peer and not adjusted when `tuns.remove(0)` shifts the list: what is re-sent
  for one peer's connection may go to another peer ("re-send any unacked segments
  of the active connection"). SegmentForOwner is about the dongle.
* A peer's new handshake replaces its TcpServer as well, so a response under way
  ends silently. The browser node does not reconnect; its timer task lives on.
  More users than `MAX_PEERS` can displace each other for ever.

In the bridge, the reflector and the proxy:

* `local_server.rs:94` "The response is written+flushed before close, so the RST
  loses no data": the reset drops what lwIP would have retransmitted, so a lost
  segment is lost; Answered holds because the peer asks again.
* A request whose body is cut by the 3 s timeout is served as if it were whole.
* When the guard leaves the bridge out, or `create` fails, inner packets are
  still given to it, so direct peers get no answer (hence the premise of
  Answered). Two power cuts within 30 s of a boot leave the bridge out once. The
  counter is cleared also after a failed `create`, and flash errors are ignored.
* A malformed range, or one with a position that does not fit `usize`, is
  answered with 416; RangeHonoured says so.
* `mdns.rs` remembers hashes without a time: a repeat of the same query, also
  after a packet was lost or while the tunnel was down, is suppressed until 64
  others have passed, and the partner's hosts cannot send it either. Reflected
  is about first packets. The list holds 64 hashes: once as many others came on
  top, a re-injected payload that is repeated goes back to the LAN it came from
  (NotJustReinjected is what holds).
* The proxy forwards whichever segment of a request arrives first, and only that
  one; it retransmits nothing, does not look at the receiver's window, and a SYN
  of anyone ends the connection it has (ProxyServes is about a user that is
  alone, and whose window takes the response). The acknowledgement of the request
  is sent after the fetch from the LAN, so clients send the request again
  meanwhile.

### Bounds, and why they are enough

* *The ring* has 16 values (`SeqHalf = 8`) and the server starts at 14, so every
  transfer wraps; a second ISS is 4 (6 in `live`), about half a ring away
  (`IssApart`). A repeated SYN waits as long as both numbers are in use
  (`FreshIss`). The proofs hold for every ring and any number of ISSs.
* *Window and segment size*: `MSS = 1` and `CWND = 2` or `3` give responses of
  several segments and several windows; the client's buffer is as
  large as or larger than `CWND`, so both limits of the send window matter. Responses of
  one byte (data and FIN in one segment) up to four.
* *Timers* of 1 to 4 units with 1 or 2 attempts: the last attempt, the
  watchdog and the retransmission are all reached, and when `timely` is false
  they race with every message.
* *Faults*: one repeated and one lost segment, or one failing read of the body, in
  any place; `dp_live` has two losses and a failing send, so that a retry is lost
  as well.
* *Data plane*: two nodes, one or two endpoints of each, up to two offered at run
  time, `MAX_TUNNELS` 2, one retry, two strikes, up to six indexes in use at the
  same time. A new index is one nothing refers to any
  more, as a 32-bit random one is.
* *Serial link*: `MAX_LINE = 2` stands for 8192; the lengths lie below, at and
  above it, and at three times its value; up to four requests.
* *JSON*: documents of up to two levels over strings that contain quotes,
  backslashes, braces and commas, words and numbers; ten paths, ones that lead
  nowhere included; blocks of 1 and 3 bytes, so every cut occurs; a cap of 20
  bytes that some documents exceed.

* *Language*: integers of 5 bits and mantissas of 3, so overflow, `MIN / -1` and
  the rounding of a comparison occur; every operator above and below every other;
  a deadline check every 3 steps instead of 256. Expressions of two levels: a gap
  is a matter of an operator and its operand.
* *Control*: addresses of 3 bits, two atoms per header, a stream window of 5 and
  a connection window of 6 bytes, smaller than an answer, so that every call
  depends on window updates; one extra frame of another kind; two attempts.
* *Relay*: three peers, tables of two, one loss, one close, one other frame, one
  connection given up; four
  keys per peer, of which no two in use are the same.
* *Bridge*: two peers; a transmit queue of 3 (64 in the code), which two replies
  overflow; with 2, an unlucky order could drop one peer's reply for ever. Up to
  five power cuts and two flash errors pass `MAX_TRIES = 2` more than once. Bodies
  of 0 and 2 bytes with all ranges around them, and positions up to one more than
  `USIZE_MAX`. `Ptrs` and `TunMax` bound the
  addresses of frames and the numbers of tunnels in use at a time; the actions
  that take a new one are guarded by them. Acknowledgements, closing clients
  and the expiry of ARP entries are left out.
* *Reflector*: one payload per LAN, sent twice, and a list of 2. *Proxy*:
  responses of up to 5 bytes in segments of 2 (a cap of 4, passed by one byte),
  which make a burst of up to four packets; the send buffer has room for four or
  for three; one loss and two repeats in any order, or two users with requests
  of two segments.

The runs other than `control` say `CHECK_DEADLOCK FALSE` because they end when
the bounded budget of clients, requests or faults is used up.

### Fairness

* *TcpTransfer*: `pump` runs to its end, the loop ticks and time passes (the
  data-plane loop calls `tick` each time round, and `recv_from` has a timeout),
  the network delivers what it does not lose, and a client's TCP and application
  go on. All weak: each stays enabled until it is taken.
* *Dataplane*: each node's loop goes round (weak). The two seconds between
  probes pass again and again, and of the packets a peer sends through a tunnel
  again and again some are received (strong, because the other half of the loop
  disables both each time round). Nothing is assumed about handshake packets:
  in a timely world the loop takes what is there before it times out.
* *OutboundFetch*: the same as TcpTransfer; the client starts. In the run `live`
  both are conjoined, each with its actions only: a behaviour has clients or the
  fetch, and what the other one's fairness asks for is never enabled in it.
* *SerialLink*: the device's loop runs, and a read returns or times out.
* *Relay*: the reader, the timers and the relay go on (weak); of a peer that
  again and again may begin a handshake, some handshake happens (strong: its
  timer is not stopped by what happens in between). A peer is ticked when the
  node is idle, as the 100 ms read timeout says.
* *Bridge*: threads run and timeouts fire (weak). Strong: a peer's handshake
  timer as above; `Receive` of each peer, because the socket is a queue and the
  loop takes one packet each time round; `DrainTx`, which the loop calls after
  each packet. Power cuts, losses and flash errors have no fairness.
* *Reflector, Proxy*: the loops serve their sources, reads time out. Nothing is
  assumed about what the LAN host sends.

## 4. Proofs

Every theorem is about a specification without fairness and holds for all values
of the constants that satisfy the named assumptions of the module; those only
give the constants their types, except where a section below says more. Each
is an invariant, or a property of steps, of a specification TLC runs, so the
run shows on a small instance what the theorem states in general. The services
run moves one of its components at a time, each as its own specification
(`BridgeSpec`, `ProxySpec`) does.

### TcpServerProofs

`TcpServerProofs.tla` proves, for every ring size, window, segment size,
response length and timer value that satisfy `SeqHalfAssumption` and
`TcpAssumption`, and in **any** environment (any segment may arrive, any may be
dropped):

| Theorem | States |
|---|---|
| `TypeCorrect` | `Spec => []TypeOK` |
| `SendOrderHolds` | `Spec => []SendOrder`: `snd_una` never passes `snd_nxt`, counted from the ISS |
| `CwndBoundHolds` | `Spec => []CwndBound`: no more than `CWND` and the FIN and SYN are outstanding |
| `EmissionHolds` | `Spec => EmissionOK`: a data segment lies inside the response and inside the window granted beyond `snd_una`, and is numbered by its offset (or by the SYN, when a rewind reached it) |

The inductive invariant is `IInv == TypeOK /\ SendInv`. `SendOrder` alone is not
inductive: `seq_lt` is a comparison on a ring, and what it admits lies between
`snd_una` and `snd_nxt` only if all three are on the same half of the ring, seen
from the ISS. `SendInv` adds that: the numbers in use stay on the near half;
the distance between them is at most `CWND + 2`; only an active connection has
a response or is inside `pump`; and a response has a length out of `Totals`,
which is what keeps `snd_nxt` on the near half. The argument:

1. on the near half of the ring `seq_lt` is exact (`AckWindow`), the distance
   of two numbers is the difference of their offsets (`Distance`), and
   `acked_bytes` and `sent_bytes` are offsets cut at the length
   (`StreamBytesValue`);
2. so an accepted ACK keeps the order (`AckFieldInv`, `AcceptedAck`), and one
   segment of `pump` moves `snd_nxt` by its payload and at most to the edge
   (`PumpStep`, `PumpEmits`);
3. one lemma for each handler (`SynInv`, `CloseInv`, `DataInv`, `AckInv`,
   `FinInv`, `PumpInv`, `ResetInv`, `RetransmitInv`, `ElapseInv`), combined in
   `NextIInv` and `Invariance`.

The assumption that a response and its SYN and FIN are shorter than half the
ring (2 GiB in the code, with responses of at most a few MiB) is what the
argument rests on; the code does not check it.

The last section of the module is about one response of a fixed length `L`, in any
environment, for the two modules below. `SpentInv(L)` says what a connection has
sent: nothing but its SYN before it is asked; at most `L + 2` numbers; and when a
request is routed a second time, all of the first response was acknowledged, so
that the second has nothing left to send.

### TcpTransferProofs

The server with any number of clients, for every ring, window, segment size,
response length and timer value, and any loss, repetition, order, client
retransmission, abort, failing read and repeated SYN:

| Theorem | States |
|---|---|
| `StreamIntegrityHolds` | `TransferSpec => []StreamIntegrity` |
| `FreedOnlyWhenDeliveredHolds` | `TransferSpec => FreedOnlyWhenDelivered` |
| `DeliversByteStreamHolds` | `TransferSpec => DeliversByteStream`: each client sees an implementation of ByteStream |
| `ServerRefined` | `TransferSpec => Spec`: what TcpServerProofs shows of the server in any environment holds among its clients |

The assumptions are those of TcpServer, `TransferAssumption` (types) and
`IssApart`. The first thought, that both ends count from the same number, is not
an invariant, and neither is that payload sits after the number of its
connection: a rewind to an unacknowledged SYN sends the first bytes in the
place of the SYN, one too early. The invariant (`TransferInv`: some `L` with
`LengthInv(L)`) therefore speaks of two cases.

* *The ends agree* (`conn.iss = Base`): every request acknowledges the SYN with
  the flag it carries, so a rewind never reaches it (`AckMatch`); until the first
  request is routed the client has read nothing (`Untouched`); once the FIN is out
  it sits at `L + 2`.
* *They do not*: the server never takes an ACK, since what the client
  acknowledges lies outside the server's connection (`ForeignAck`); so
  `snd_una` stays on the SYN and the response is never freed by an ACK.

A segment under way holds bytes of the first response after some initial number,
or in the place of the SYN of a connection the client does not count from
(`Placed`). A client that accepts a byte has it from the connection it counts
from: `Accepts` shows that by `IssApart` no other number fits. From that follows
what it takes (`ReceiveOK`), which gives StreamIntegrity and the steps of
ByteStream (`ReaderStep`). A response is freed by an ACK of all of it
(`FreedByAck`), and an ACK number never exceeds what its client has taken
(`AckOK`). Before the proof the invariant was checked by TLC on the environments
of the transfer run.

The last part of the module is about OutboundFetch, where the repository's own
`TcpClient` is the client:

| Theorem | States |
|---|---|
| `FetchedIsPrefix` | `FetchSpec => []ResponseIsPrefix`: no byte twice, none skipped |

for every ring, window, segment size, page length and timer value, and any loss,
repetition and order. It assumes `FetchIssApart` (initial numbers further apart than the
page is long, see above) and one client and one page. The invariant uses
`IInv` of TcpServerProofs and argues about segments instead of the present
connection: a segment with payload, however late, holds bytes of the first
response at the place that its sequence number gives them, counted from some
initial number (`InPlace`, `FetchSegmentsInv`); the client's `rcv_nxt` counts from
some initial number too (`ClientInv`), and where a number counts from two of
them `FetchIssApart` makes them one (`SamePlace`). `SpentInv` of TcpServerProofs is
why only the first response counts.

### DataplaneProofs

For any number of nodes, indexes, tunnels, retries and strikes, with every mix of
lost, repeated, damaged and late datagrams, endpoints, moves and reboots:

| Theorem | States |
|---|---|
| `Meanings` | `Spec => []IInv` |
| `TunnelsStayDistinct` | `Spec => []TunnelsDistinct`: types; an index names one slot or tunnel of a node; one tunnel per address as long as its owner has not moved there |
| `EndsAgree` | `Spec => []KeysAgree`: both ends of a tunnel mean the same handshake |

Each property compares two places that mention an index. They agree because of
something the state does not contain: what the index was drawn for. `IInv` puts
it back as an assignment `M` of meanings (the attempt of n to reach p, or the
answer of n to an attempt of p) that exists with every slot, tunnel and datagram
under way agreeing with it (`Agreed`). A fresh index is one that nothing refers
to, so its meaning may be changed (`FreshMeaning`), and a late datagram, though
its tunnel is gone, still means what it meant. Addresses are
the other half (`PerAddress`): `insert_tunnel` replaces the tunnel at an address,
and the address of a tunnel follows the packets that decrypt (roaming), so two
could meet at one. They do not as long as the owner has had one address on that
path: a tunnel stays on the path of its handshake, and there it has been at that
address from the start. Nothing is said about the number of endpoints, and a
node can hold one tunnel for each. The lemmas follow `Periodic`, which is cut into its retries and its
probes, and `Recv`, one for each type of datagram.

### SerialLinkProofs

| Theorem | States |
|---|---|
| `LateRepliesAreBounded` | `LinkSpec => []LagBounded`: as long as requests fit `MAX_LINE`, a reply is taken at most as many requests late as timed out before |

for every `MAX_LINE` and every set of sessions, with resets of the device at any
byte. The invariant (`FitInv`) says that everything still to come, a byte of a
request or a reply, lags by no more than the timeouts so far (`AllPending`), and
that replies and unanswered lines come in the order of their requests with no
request twice (`LinesOrdered`, `RepliesOrdered`, `RepliesFirst`), so that
taking a reply moves what is left on by one. That no request is answered twice
needs that the device never overflows in the middle of a line that fits, also
when it starts there after a reset (`Flows`).

### ControlProofs

| Theorem | States |
|---|---|
| `Connections` | `Spec => []ControlInv` |
| `BodiesAreResponses` | `Spec => []BodyIsResponse`: a call reads a prefix of the server's answer, and returns it whole |
| `AddressesAreOwn` | `Spec => []AddressIsOwn`: the address it takes is the node's own, from whatever chunk |
| `FiltersAreAcls` | `Spec => []FilterIsAcl`: the data plane's filter admits whom the netmap admits |
| `NothingStalls` | `Spec => []NoStall`: a read times out only when the server has said everything |

for every way to cut an answer into DATA frames, records and segments, any
windows, prefix length, scan buffer and record counter modulus, extra frames and
errors at any time, and every netmap whose patterns are in `Patterns`.
`ControlAssumption` says beside the types that what a cut leaves of the scan
buffer has room for the start of an address (`AccKeep >= 2` atoms; 4096 bytes in
the code). `PowersOfTwo` gives the prover what `2^k` is.

The state holds four pieces of one stream: what lies in the network, in `Conn.rx`
and in `H2.rx`, and what the server has not sealed. `ControlInv` says that they
are pieces of a wire `W` and of a plaintext `F` that exist (`Pipe`):

* `Link`: Conn.rx and the network hold `W` from a place on. The frames of `W` from
  there on are well formed, and its records hold `F` in order and under
  consecutive counters (`BaseRow`). H2.rx holds `F` from the place the client has
  read up to, and the rest of `F` is what the records and the server still hold.
  So a record that comes up opens: the client's counter is the server's.
* `FrameRow`: the frames of `F` that are not read yet are extras, the header block,
  the end of the stream, or DATA that continues the answer at `pos`; where one ends
  inside the prefix or the address, `split` says so.
* `StageInv` and `CreditInv`: what a stage of the call expects next is what comes
  next, and the windows are the credit less what is under way. That is where NoStall
  comes from: when nothing is under way both windows are whole, and so the server
  is not the one that waits.
* `ReadInv`: what the call has made of the bytes before `pos`: `body` is a slice of
  the answer, behind its prefix under the parser; and the scan buffer of the session
  still holds the start of the address as long as it is not all there.

A step of the server extends the witnesses (`FlowGrows`, `Quiet`), a step of the
client moves the places (`PipeSame`, `FrameTaken`, `ReadStep`); each action has its
lemma (`...Keeps`), and a new connection starts from fresh witnesses
(`HelloKeeps`). The four properties follow from the invariant. For the filter,
`NetBits` shows that two addresses have the same quotient by a power of two exactly
when their upper bits are the same, so that a parsed pattern matches what it
denotes (`PatternMeans`), and `FilterMeans` compares the two filters rule by rule.

### RelayProofs

For any number of peers, any table sizes and any cases, over cuts, losses,
evictions, reconnects and closed connections:

| Theorem | States |
|---|---|
| `RelayInvariant` | `Spec => []RelayInv` |
| `FramesStayAligned` | `Spec => []StreamAligned`: each wait for a frame begins at a header |
| `PacketsReachTheirPeer` | `Spec => []RightPeer`: a packet is under a key of its receiver and, of the dongle, of its connection |
| `HeardPeersAreProbed` | `Spec => []KnownPeersProbed`: every peer of the map that was heard was handed to the data plane |

`RelayInv` says that the stream is a row of frames, of which the last is whole
unless the connection is closed (`Framed`), and that keys stay with their peers:
in the frames of the stream, in the table of the dongle, in the tunnels of the
browser node and in the packets under way. Alignment is needed for the keys and
the other way round: the node takes a frame out of the row, and what it then does
depends on the frame's source. `ProbedInv` adds to KnownPeersProbed that a peer
in `upgraded` is one whose endpoints were handed over, or is not in the map;
clearing the set loses nothing because `targets` stays.

### ServicesProofs

| Theorem | States |
|---|---|
| `GuardHolds` | `BridgeSpec => BootGuard`: a bound on failed boots in a row, and no boot is left out early |
| `RepliesHonourRanges` | `BridgeSpec => []RangeHonoured`: the reply is what the range names, for every range and length |
| `BuffersStayLive` | `BridgeSpec => []BuffersLive`: what lwIP refers to is alive, and nothing leaks |
| `AnswersReachOwner` | `ProxySpec => []AnswersOwner`: a user receives the response to its own request |
| `NothingJustReinjected` | `ReflectorSpec => NotJustReinjected`: what a dongle has re-injected it hands on only after DEDUP_MAX other hashes |

* *Guard*: `failed + trying <= MAX_TRIES * nvsErrors + tries`, and equality in the
  other direction without flash errors (`GuardCounts`): an error costs at most
  the `MAX_TRIES` boots the counter knew of. `trying` is the boot that has been
  counted in flash and not yet failed.
* *Ranges*: the reply is computed from the header (`ReplyInv`), and `ReplyFacts`
  compares, kind of range by kind of range, the interval the code makes with the
  set of bytes the header names, an empty body included.
* *Buffers*: the addresses in the mailbox, those of unread data of each
  connection and the one in the injecting thread's hand are apart, each occurs
  once, and together they are RX_BUFS (`Apart`). The frame in hand is in
  RX_BUFS from its first step to its second, in which lwIP takes it or the thread
  frees it. One lemma for each thread.
* *Proxy*: every segment under way to a user carries bytes of a fetch made for
  that user, port and connection, at the place of its sequence number
  (`DownOk`), what the user has are the first bytes of such a fetch and `rcv` is
  the number that follows (`UserOk`), and a connection has one fetch
  (`AskedOk`, `PxOk`). Segments of an earlier connection of the same port do no
  harm because the user's connection number is not theirs.
* *Reflector*: for every length of the list, any payloads and any repeaters. `since`
  counts what was remembered after a re-injection. As long as it is below
  DEDUP_MAX the hash is still in the list, at most that far from its end
  (`Remembered`): `remember` appends one and drops the oldest only when the list is
  full (`ReinjectKeeps`, `CaptureKeeps`). A packet is handed on only if its hash
  is not in the list, so `since` has run out. That nothing echoes at all (NoEcho)
  needs more than the code gives: it holds in the run because its list has room
  for all payloads.

### Only model-checked

* All liveness: ConnReleased, TransferCompletes, SlotFreed, Connects,
  RoamingFollowed, FetchCompletes, LinkServes, RequestServed, Resent, Answered,
  Reflected, ProxyServes. Temporal reasoning with fairness is beyond the provers
  used.
* NoEcho, see above.
* GetIsMeaning and FetchFinds of JsonProbe and all of Spell: recursion over
  documents and programs, by induction over data.

## 5. Not modelled

* *Text and formats*: HTTP headers and pages, IP and TCP checksums, the wire
  format of disco and WireGuard, MagicDNS names, log lines. No property here
  depends on them.
* *Cryptography*: ideal in Dataplane. Key derivation, AEAD and replay windows
  are left to the crates and their tests.
* *Numeric kernels* of TinyLLM: floating point.
* *Drivers, display, pages, training scripts, the MCP server, generated
  bindings*: wiring around external tools.
* In the data plane: the birthday spray, the STUN refresh and the dual-core
  receive path; `confirmed`, which is written and never read. That the number of
  tunnels is not bounded (`dataplane.rs:760`) is a hazard without a property.
* In the local server: the pool of several workers on port 8080, clients that
  close first, and the pages.
* *Fetch gates* of the lean firmware: permits and the wait for heap, whose
  outcome depends on allocation sizes of other tasks.
* In the control client: the branch that stops polling for an auth key, and the
  reuse of one connection by calls of two tasks.
* In the clients: `outbound` has no timer, so a fetch whose SYN or request is
  lost does not end; FetchCompletes is claimed for paths without loss.

## 6. Plan

What is left, in this order:

1. **Dual-core data plane**: the receive path that drops the lock between lookup
   and use, as an extension of Dataplane.
2. **Fetch gates**: permits at their limit, cancellation, and the wait for heap.
3. **TinyLLM**: merge order of the tokenizer, positions of the KV cache, the
   header parser; its arithmetic stays outside.
