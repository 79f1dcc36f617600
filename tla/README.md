# lowping in TLA+

lowping carries the UDP and TCP traffic of games through *bridges*: a client
program captures or accepts local traffic, wraps every datagram in an encrypted
frame, and sends it over UDP to a bridge, which unwraps it, sends it on to the
game server and returns the answers the same way.  This directory models the
parts of the program whose correctness depends on the order of events, checks
them with TLC, and proves the most important results with TLAPS.

Paths below are relative to the repository's `crates/` directory.

## 1. Inventory

| Part | Source | State it keeps | Operations |
|---|---|---|---|
| Bridge relay | `gr-bridge/src/server.rs`, `session.rs` | session table, one mutex and counter per session, channel of answers | receive loop (a task per packet), `accept_new_session`, `forward_data`, `drain_dest`, `downstream_sender`, `idle_reaper` |
| Tunnel frames, handshake | `gr-protocol/src/lib.rs`, `handshake.rs` | none | encode, encrypt, decrypt, derive a key |
| License tokens | `gr-protocol/src/license.rs` | none | sign, verify against a clock |
| FEC | `gr-protocol/src/fec.rs` | none | encode and reconstruct blocks; called by nobody yet |
| Client UDP rules | `gr-client/src/forwarder.rs` | session per local source, counter per session | `run_udp_rule`: listener, responders, reaper |
| Client TCP rules | `gr-client/src/forwarder.rs` | counter and two tasks per connection | `run_tcp_rule`: listener; `handle_tcp_local`: the copier, `recv_task` |
| Router | `gr-client/src/router.rs` | measurements, cache of decisions, list of recent decisions | `record_client_to_bridge`, `pick` |
| Smart listeners | `gr-client/src/smart.rs` | session per source port and bridge | `start_smart`, `run_bridge_listener`, `SmartResolver` |
| Packet capture | `gr-capture/src/windivert_backend.rs` | flow table, running flag, thread | `start`, `stop`, `process_packet`, `reap_flows`, `flow_origin` |
| Fixed capture rules | `gr-capture/src/lib.rs`, `forwarder.rs` | none | `install_capture`, `FixedResolver::resolve` |
| AWS regions | `gr-common/src/aws_regions.rs` | sorted prefixes | `load_bundled`, `region_for` |
| Backend | `gr-backend/src/` | next user id, configuration read at its start | `signup`, `issue_user_id`, bridge directory |
| Dashboard, CLI, deployment | `gr-client/src/tui.rs`, `gr-cli`, `deploy/` | none that matters here | show snapshots; TODO lines; restart the bridge |

### How they interact

* Client and bridge exchange UDP datagrams only: SYN frames (token and
  destination), data frames in both directions.  There is no acknowledgement,
  no answer to a SYN and no end of session.
* In the bridge, every packet is a tokio task; tasks share the session table
  (a read-write lock), one async mutex per session, and an unbounded channel
  from all drain tasks to a single sender.
* In the client, a rule's listener handles datagrams one at a time; responder
  tasks and a reaper share the session table with it.
* In smart routing, the capture *thread* asks the router about every packet,
  rewrites it to a listener's port and leaves a flow entry under the game's
  source port; the listener *task* reads that entry when it opens a tunnel.

### What is hard

Accepts that overlap across the await of `open_dest`; a session object that is
replaced, reaped or forgotten by a restart while tasks hold it; answers that are
looked up by key long after they were read; a mutex held across a write that may
never end; reapers that judge under one lock and remove under another; frames
lost, duplicated, reordered; flow entries that are overwritten or reaped while a
listener has the datagram in its queue; routes that expire in mid-flow; the
order of start-up; tokens judged by another host's clock than the one that stamped
them; a stream cut into datagrams that nobody puts in order, whose two directions are
two tasks; starts, stops and failures of the capture around one flag; a search that
gives up after 32 entries.  `PROJECT.json` lists these hazards at their lines, with the
property that guards against each, or a note.

### What makes each part correct

* **Bridge**: what reaches a destination comes from the client that opened the
  session (`Confinement`); answers go back to that client, once, in order
  (`ReturnPath`, `DownstreamInOrder`); a key meets a number again only through a SYN
  accepted twice (`NumberedOnce`); the table exceeds its limit only by accepts that
  overlapped (`LimitUpToOverlap`); the mutex belongs to the one task that writes
  (`OneWriter`); tasks end, answers leave, idle sessions go.
* **Client UDP rule**: a destination gets datagrams of one local source, a source
  gets answers of its own destinations, a frame number names one datagram.
* **Client TCP rule**: a destination gets the bytes of one connection, under numbers
  that are their places in the stream; a program hears its own destinations only, in
  order if the network keeps it; its two tasks end together.
* **Capture**: loops do not pile up, the flag is not left set in peace, a stop ends
  every loop, a tunnel's own datagrams are not captured.
* **AWS regions**: no region is made up, and the most specific prefix is missed only
  because of the limits of the search.
* **Router**: a route never outlives the interval; a bridge is used only when it
  was worth it.
* **Smart routing**: a game whose tunnelled traffic has one destination reaches and
  sees exactly what it should, whatever other games do (`ServedExactly`); every
  datagram goes the way that is right for its own address, by measurements no older
  than the interval (`RoutesJustified`).
* **End to end**: both kinds of rule, with the network and the bridge behind them, are
  one service: a connection keeps its two ends, what the destination is given was said
  at the one, what the program hears was answered at the other (`ServiceSpec`).
* **Licenses**: a token is accepted in its time and only then, up to the drift of the
  two clocks; ids of one run of the backend are distinct; a drained bridge leaves the
  directories in force.

## 2. Modules

| Module | Models | Lines of code it stands for |
|---|---|---|
| `Bridge` | the bridge process | `server.rs` 27-279, `session.rs` 15-45 |
| `RelayService` | what a bridge promises, with no table, task, lock or channel | (abstract) |
| `EndToEnd` | what client and bridge together promise a local program | (abstract) |
| `ClientUdp` | a UDP rule of the client | `forwarder.rs` 220-259, 338-480 |
| `Tunnel` | `ClientUdp`, a network and a `RelayService` composed | (composition) |
| `ClientTcp` | a TCP rule of the client | `forwarder.rs` 220-333 |
| `Stream` | `ClientTcp`, a network and a `RelayService` composed | (composition) |
| `Router` | the route picker | `router.rs` 34-217 |
| `SmartPath` | capture, flow table, router and listeners composed | `smart.rs` 83-282, `windivert_backend.rs` 46-113, 172-176, 262-274, 334-407 |
| `Capture` | start, stop and loops of the capture, its filter, fixed rules | `windivert_backend.rs` 70-300, `gr-capture/src/lib.rs` 65-90, `forwarder.rs` 34-63, 162-217 |
| `Regions` | the AWS region table | `aws_regions.rs` 35-142 |
| `Licensing` | backend, tokens and the bridge that judges them | `state.rs` 46-81, `routes.rs` 54-93, `directory.rs` 18-40, `license.rs` 31-112, both `main.rs` |
| `MCBridge`, `MCTunnel`, `MCStream`, `MCRouter`, `MCSmartPath`, `MCCapture`, `MCRegions`, `MCLicensing` | instances for TLC | |
| `BridgeProofs`, `TunnelProofs`, `StreamProofs`, `RouterProofs`, `SmartPathProofs`, `CaptureProofs`, `RegionsProofs`, `LicensingProofs` | theorems about the module each is named after | |

Definitions named `X_Y` next to a definition `X` (preceded by a comment that
starts with "Variant") are plausible mistakes in `X`; no specification uses them.
Replacing `X` by one makes the property that `PROJECT.json` names for it fail,
which shows what that property is sensitive to.

### Bridge

A session object is named by the task (`Handlers`) whose SYN created it, so
`session.rs`'s `Arc<Session>` is an element of `Handlers` and outlives its table
entry as the code's does.  `sessions` is the table, `held` the session mutexes
with the task that has each, `queue` the channel, `sender` the sender's item,
`reaper` the list of keys the reaper collected under its read lock.  A task's
program counter distinguishes exactly the points where the code can be
interleaved with others: around `open_dest(...).await`, between the table lookup
and the session's mutex, while the write to the destination is pending.  What
happens between two such points is one action.  Frames are records of the
session key (client address and connection id), the key they were sealed with
and a number: an opened frame is one whose key is the session's, which is what
the AEAD cipher guarantees.  A token is one of the verdicts of `verify`.

`Restart` is the service manager's: the process forgets everything, frames
already sent and clients do not.

`FreshKeys` assumes of the clients what `open_tunnel` does (`forwarder.rs:221`): a key pair is made for
every SYN, so that a key names one SYN.  The network may repeat that SYN, which gives
two session objects with one key and a counter each; `NumberedOnce` says that this is
the only way in which a key and a number come to seal two frames.

Left out: payload bytes and the cut at `MAX_PAYLOAD_LEN`, wrapping of the 64-bit
counter, and IPv6.

### RelayService

Connections, opened by an admissible SYN; frames of their client given to their
destination in any order, any number of times, or never; answers returned at
most once, in order, to the same client.  It does *not* promise that a frame is
forwarded once, nor that a connection survives.  `Relay!Spec` with the mapping
in `Bridge` is the property `RelayRefinement`; `Tunnel` uses the abstraction in
place of the bridge.

### EndToEnd

Local programs and destinations joined by connections, and nothing in between: no frame,
key, number, session, task or table.  A connection gets a program when it is made and
keeps it.  A destination is given messages of the program at the other end, any of those
said, late, again or never; the program hears answers its destinations have given, and an
*ordered* service hands it those of one destination in the order given, each once.  The
service does not promise that a message arrives, nor that it arrives once.

`ServiceSpec` in `Tunnel` and in `Stream` is this specification under a mapping.  The
abstract state is computed from what crossed the ends: the program of a connection is the
owner of the key its opening SYN was sealed under (`Party`), the message in a frame is the
one that was sealed under its key and number (`Message`), what a destination was given is
the bridge's `forwarded` with each frame replaced by its message (`Given`), and what was
heard is `delivered` (`Handed`) or the writers' `heard` (`HeardBy`).  A UDP rule is never
ordered; a TCP rule is if the network is (`orderly`).  Five kinds of step show: a program
sends, the bridge opens a connection, gives its destination a message, the destination
answers, an answer is handed to a program.  Every other step of listeners, copiers,
reapers, responders and the wire is a stutter.

`UpIntegrity`, `DownIntegrity` and `HeardOwn` state parts of the service in the words of
one module.  The runs check the service, which takes them in; section 4 proves them, and
the proofs of the refinement build on the same invariants.

### ClientUdp and Tunnel

A tunnel is a socket of its own with a random connection id and a fresh key, so
its number stands for both the session key and the AEAD key.  The listener's
steps are `ReadLocal` (receive and look up, no await between), `OpenTunnel` or
`OpenFails`, `ForwardLocal` or `ForwardTooLong`.  The reaper's two locks are two
actions, and so is its end: where `Instant` starts with the machine,
`Instant::now() - idle` (`forwarder.rs:375`) panics until the machine has been up for
`udp_idle_secs`, and the first tick of `interval` is immediate.  `warm` says that the
expression has a value (it may from the start, as on platforms with a signed clock),
`reaping` that the task lives; nothing restarts it (`ReaperPanics`).  Frames on the wire form a set that only grows, and a step takes any of
them or none: loss, duplication and reordering.

### ClientTcp and Stream

Each accepted connection has a copier (`handle_tcp_local`: reads a chunk, seals it,
sends it) and a writer (`recv_task`: receives a frame, opens it, writes it).  A chunk
is named by its place in what the program said, and `sealed` remembers which chunk
of which connection every frame carries; the number and the place are equal because
the SYN has number 0.  The early returns are separate actions, since they leave
different things behind: a local end of file (`LocalEnds`) aborts the writer, a
failed send (`SendFails`) returns before the abort, a writer that fails
(`WriterFails`) does not tell the copier.  `AbortTakes` is the runtime's: a task is
dropped at an await, in the middle of a write if need be.

Upstream, a step takes any frame sent or none.  Even a network that keeps the order
does not help there, because the bridge handles each packet in a task of its own.
Downstream there is one sender in the bridge and one task per connection, so order
depends on the network alone: `orderly` picks, once, a network that keeps it or one
that does not.  A half-closed connection gets no more answers: that is what the
code does (`LocalEnds`), and no property asks for better.

### Capture

`Start` is the atomic swap of the flag; `Spawn` and `StartFails` what the caller then
does, so that a stop or another call may come between.  The loop's turn looks at the
flag and reaps (`LoopTurn`, `ReapPanics`), then waits for a datagram
(`ReceiveOther`, `Divert`).  A datagram is its destination and the number of times it
was rewritten: a listener that gets one sends one to its bridge, which passes the
filter like any other.  WinDivert -- which datagrams a handle gets, and that
re-injected ones do not come back -- is external.  In smart mode the filter names the
bridges' addresses; in fixed mode it does not, and `CaptureAssumption` says what the
user's rules must then avoid.  So `NoCaptureLoop` checks the filter; of
fixed rules it shows only what follows if nobody captures a bridge's address, which
`install_capture` does not enforce.

### Regions

The sorted, deduplicated vector is the set of its entries and the order `Before`.
The bisection is any result `binary_search_by_key` may give, the walk the entries not
more than `Walk` places before it.  The reference is the list itself: `Owners` are
the prefixes an address shares its first bits with.

### Router and SmartPath

Round trips are whole milliseconds and `f64::INFINITY` a number above every sum.
The cache, the measurements and the list of recent decisions are behind a lock each,
so a `pick` of one of the `Callers` is up to four steps: the look at the cache
(`PickCached` or `PickMisses`), the choice under the lock of the measurements
(`PickDecides`), the write to the cache (`PickWrites`) and the write to the list, after
which it returns (`PickLogs`).  `decided_at` is read somewhere between the second and
the third, `DecisionLog.at` in the fourth.  Measurements, ticks, other picks and the
dashboard's reads come between any two.  `asked` and `by` in a decision are history: when
the pick that made it began, and whose it is.  Time is a tick counter that only the
cache looks at.  The margin is a constant: `Router::new` uses 2.0 and does not read
`margin_ms` of the configuration (`smart.rs:57-60`).

In `SmartPath` the callers are the capture loops.  A loop takes a datagram (`Takes`),
goes through a pick for it (`Asks`, `Answered`) and lets it go the way of the answer
(`PassThrough`, `Redirect`); listeners, other datagrams' answers, ticks and the start-up
go on meanwhile.  `SharedRouter` tells the two ways of starting smart routing apart: with
the dashboard (`main.rs`) the estimates go to the resolver's router; without it
(`run_smart_mode`) they go to another one.  The capture already runs when estimates are
recorded and listeners bind, as in both functions; what is sent to a port nobody has
bound yet is lost (`Redirect`), so `QueuesDrain` speaks of bound listeners only.

Receiving a datagram, looking up its session and reading `flow_origin` is one
action: the capture thread only appends to the socket's queue, so doing it all at
the moment of the flow lookup has the same effect.  An answer's way from the
responder through the capture thread is one action for the same reason: an
answer may come at any time.  How WinDivert matches filters and re-injects
packets is external and taken as the code assumes it.

### Licensing

A sign-up is two actions, because handlers run concurrently: `TakeId` (or
`IdsExhausted`, the panic of `checked_add`), then `Issue`, which reads the clock.
Backend and bridge have a clock each, whose distance the environment keeps within
`MaxDrift`; no clock is set back.  Tokens and directories, once handed out, live as
long as their readers like, so they are sets that only grow.  Both processes read
their configuration when they start (`BackendStarts`, `BridgeStarts`), with whatever
the operator has written by then, the key included.  `Show` is the part of
`accept_new_session` that judges the token; `Bridge` models the rest.

## 3. Runs

Bounds name what they bound: `MaxTasks` packets handled by the bridge,
`MaxReplies` answers a destination gives, `QueueCap` answers in the channel,
`MaxRestarts`, `MaxTunnels`, `MaxSpoken` datagrams per local source,
`MaxRelays`, `MaxForwarded`, `MaxAnswers`, `MaxNow` ticks, `MaxHeld` sets of
measurements, `MaxSends` captured datagrams, `MaxClock` ticks of each clock,
`MaxShown` tokens judged, `MaxLists` directories, `MaxStarts` starts, `MaxConns` local
connections, `MaxChunks` chunks read from each, `MaxHeard` frames written to each,
`MaxLoops` starts of the capture, `MaxStops` stops.

| Run | Shows | Bounds, and why they are enough |
|---|---|---|
| `bridge_sessions` | types, confinement and mutual exclusion while a session is replaced, reaped, used late and lost by a restart | 3 tasks: two SYNs of one client with different keys, and data; one restart.  The shortest bad sequences need an opener, a replacement and a late frame |
| `bridge_returns` | answers return to their client, once, in order; a number used twice only after a repeated SYN; the table's limit; the refinement of `RelayService` | 2 tasks, 2 answers each, two clients, a table for one: two objects of one key, or two overlapping accepts |
| `bridge_live` | tasks end, answers leave, idle sessions go | one client, 3 tasks: an opener and two tasks that compete for the mutex with the sender |
| `bridge_stalled_answers` | **violated**: one stalled TCP destination stops the answers of every session | |
| `tunnel_ends` | end-to-end integrity in both directions, distinct numbers, the service of `EndToEnd`, reaping unless the reaper has panicked | 2 sources, 2 tunnels (so that one is opened again after reaping), 2 datagrams each |
| `tcp_stream` | streams are not mixed in either direction, numbers are places, order downstream, the service of `EndToEnd`, both tasks end | 2 connections, 2 chunks each, 2 answers: the least for a mix-up, a swap and a repetition; one connection of the bridge, which either program may have opened |
| `router_pick` | bounded staleness, worth of a bridge, agreement of cache and list, while picks overlap | 2 threads, 2 bridges, an address in a region and one in none, a tick, an interval of one tick and a list of two entries: two picks overlap in every order, a decision is used and expires, the list is pushed full.  The threads are symmetric |
| `smart_ports` | a port with one tunnelled destination is served exactly, routes are right for their own address and fresh, queues drain | 2 ports, 2 destinations whose regions have different direct round trips (one unknown), so that one address's answer is wrong for the other; 2 bridges, the nearer one recorded last so that routes change; an interval of one tick, so that a decision is used and expires; 2 datagrams, so that an entry is overwritten, a port has one or two destinations, or two ports have one each; one capture loop (`router_pick` has two) |
| `capture_life` | starts and stops overlap, the driver fails, the reaper panics; datagrams through the filter and the rules | 3 starts around 2 stops, so that two old loops meet a new one; 2 datagrams; overlapping ranges behind a tcp rule, a range on the bridge's own host, smart mode |
| `regions_lookup` | no region is made up, the most specific is found unless the limits are met | every list of up to 3 prefixes of 3 bits and every address; a walk of 2 entries is the 32 of the code in proportion: it is exceeded by the third |
| `license_window` | tokens in their time, distinct ids, draining | 3 sign-ups for 2 ids, a ttl of 3 (or 2) ticks and a drift of 1, so that a token has a first, a middle and a last tick; 2 starts of each process. One token judged and one directory at a time, which no property relates to another. Sign-ups are symmetric |
| `smart_no_direct` | **violated**: without the dashboard every destination goes direct | |

`CHECK_DEADLOCK FALSE` is set where the bounds exhaust the environment's moves (no
packet left to arrive); the system then rests.

### Fairness

* Bridge (`LiveSpec`): weak fairness of every packet task, the sender and the
  reaper: tokio schedules every ready task, its mutex is first come first
  served, and `open_dest` is under a timeout.  A write to a destination ends
  because the destination reads; `StallSpec` drops that for TCP destinations,
  which owe nothing.  Clients, the network, restarts and idle time have none.
* Client (`FairSpec` of `Tunnel`): the listener and the reaper.  `open_tunnel`
  sends one datagram and waits for no answer, so it ends.  The reaper's task is
  scheduled as long as it exists: its panic is one of the steps fairness may bring about,
  and `IdleReaped` promises nothing afterwards.  Once the machine has been up for
  `udp_idle_secs` the panic is behind it, and idle sessions do leave.
* TCP rule (`FairSpec` of `Stream`): the runtime gets round to an aborted task, no more.
  A write to a program that does not read may hang for ever.
* Capture (`FairSpec` of `Capture`): threads are scheduled, and the machine goes on
  sending and receiving datagrams.  The last is needed: a loop looks at the flag only
  between two datagrams, so that on a machine without traffic a stop is never noticed.
  `StopEnds` presupposes that traffic and says nothing of a machine without.
* Smart listeners (`FairSpec` of `SmartPath`): each listener, on the same ground.
  The game, the capture thread and the clock owe nothing.

### Differences between documentation and code

The two violated runs above are listed under `findings` with the sentence each
contradicts.  Others were met while modelling and are not kept as runs, because a
weaker property that does hold covers them or because a property would only
restate one line:

* `gr-protocol/src/lib.rs:30-31` and `:125` "a sender never reuses a (cid, seq) pair": a
  SYN that arrives twice makes two session objects for one key, each counting from 0
  (`server.rs:142`), so the bridge seals answers of both under the same numbers.
  `bridge_returns` reaches this; `NumberedOnce` says that nothing else does it: not a
  reconnect, a reaping, a restart, or a late answer sealed by another object.
* `forwarder.rs:375`: on a machine that was started less than `udp_idle_secs` before and
  whose clock starts with it, the reaper panics and no session of the rule is dropped
  any more, against `udp_idle_secs`'s purpose (`ReaperPanics`).
* `forwarder.rs:442` "listener-side reaper handles real cleanup": it takes the session
  out of the table; the responder, which holds the socket, runs for ever.
* `windivert_backend.rs:169-171` "discover where the game *meant* to send each datagram,
  and tunnel it to the right place" and `gr-capture/src/lib.rs:18-19` "rewrite source
  back": sessions are keyed by source port (`smart.rs:201`) and there is one flow entry
  per port, so a game that reaches several tunnelled destinations from one port has all
  of its datagrams sent to the first, and sees all answers as from the last.
  `ServedExactly` is therefore about ports with one tunnelled destination; what others
  may do is only that every destination involved is one the port was tunnelled to.
* `smart.rs:57-60` has a margin in the configuration; `Router::new` does not read it.
* `gr-capture/src/lib.rs:110`: `start` does not return once the threads run, but once
  they are spawned; that the driver did not open is only logged, the flag stays set,
  and every later start returns `Ok` (`CapturesUntilStopped` excludes failures).
* `aws_regions.rs:100` "Pick the most-specific (longest mask)" and `:103`: the walk stops
  after 32 entries and the bisection at any of several entries with one first address.
  In the bundled `data/aws-ranges.json` this matters: 2,102,842 addresses of listed
  prefixes (44.220.25.128 is one) get no region, and the router sends them direct; the
  first addresses of 15.193.0.0, 99.77.128.0 and 64.252.64.0 get the shorter prefix's.
* A tcp rule with `capture = true` has a capture rule that never matches, because the
  filter asks for udp; all ports of a captured range go to the rule's one destination
  port.
* `windivert_backend.rs:77` "so we don't capture our own tunnel traffic": only smart mode
  hands the bridges over; fixed rules rely on the user (`CaptureAssumption`).
* `config.rs:24` "Refuse new SYNs above this": overlapping accepts exceed it
  (`LimitUpToOverlap` bounds by how much).
* `gr-protocol/src/lib.rs:88` "receiver dedups by (cid, seq)": it does not;
  `RelayService` therefore allows repetition.
* `config.rs:27` "drop sessions with no traffic" and `forwarder.rs:14`: both reapers
  also drop a session touched between their two locks; the bridge's counts only
  traffic towards the destination; and a session whose mutex is taken by a
  stalled write is never dropped.
* `gr-capture/src/lib.rs:67` "Called for each new outbound flow": it is called for
  every packet, so a flow changes its way when the cached decision expires.
* `gr-capture/src/lib.rs:18` "rewrite source back": an answer that arrives after the
  flow entry was reaped keeps the listener's address.
* `state.rs:51` of the backend "Monotonically increasing ... Persisted to disk
  separately": the counter starts at 1 with every process (its own comment at line 71
  says so), so ids are distinct within a run only (`UsersDistinct`).
* `state.rs:16` of the backend "re-reads on SIGHUP": it reads at its start only.
* `router.rs:16` "hysteresis margin ... to avoid flapping": the margin is added
  whatever the current route is, so it shifts the threshold and damps nothing.

## 4. Proofs

`BridgeProofs` proves, for every number of tasks and answers and every set of
clients, keys and frames, that every behaviour of `Bridge` satisfies the safety
properties its runs check, and that it implements `RelayService`.  The only
assumptions are those named in `Bridge` (`BridgeAssumption`: bounds are naturals,
`None` is no frame, no key and no task; `FreshKeys`: a key names one SYN).

The properties are not inductive.  `IInv` strengthens them:

* `TaskInv`: what a task at each program point has found out (its frame opened
  under the session's key; its session is open; it is the mutex's holder);
* `OriginInv`, `TableKeyed`: a session object was created by an admissible SYN
  and stands in the table under that SYN's key only;
* `QueueInv`, `SenderInv`, `OnItsWay`: an answer is at one place at a time -- in
  the channel, with the sender, or sent -- and the answers of a destination stand
  in the order read;
* `CounterInv`: every frame sent through a session carries a number not above its
  counter, and `SeqNamesFrame`: a session object seals one frame under a number.  With
  `FreshKeys`, two frames of one key and number come from two objects of one SYN, which
  is `NumberedOnce`.

Each action has a step of its own in the proof that `IInv` is preserved, and under
it one step for each conjunct the action disturbs.  `LimitUpToOverlap` has its own
invariant (`LimitInv`), proved on top of `IInv`: it counts the accepts that passed
the test and have not inserted yet, with the library's facts on finite sets.  The
refinement maps a connection to the session object of the same name; every step of
`Bridge` is one step of `RelayService` or a stutter, and a restart is a stutter.

`LicensingProofs` proves the five properties of `license_window` for any number of
sign-ups, any configurations, limit, ttl and drift (`LicensingAssumption`).  Its
`IInv` adds that the clocks are near each other, who holds which number
(`NumbersTaken`, `NumbersUsed`), and that what a directory names was enabled when it
was signed or later (`ListsDated`, `EnabledDated`); `VerifyNear` carries a verdict
from one clock to the other.

`RouterProofs` proves the properties of `router_pick` for any callers, bridges,
addresses, round-trip times, margin, interval and capacity of the list
(`RouterAssumption`).  `RouterIInv` adds that the measurements in force are among those
held at some time (`PingsHeld`), that every cached decision is what `Decide` gives for
measurements held between the start of its pick and its stamp (`CacheMade`), and the
same of the decisions that picks have in hand (`PicksMade`).  Cache and list agree
because of `ListInv`: the entry of the cached decision is followed by entries of other
threads only, each at most once and none of them about to write again (`Behind`).  A
thread that wrote to the cache before the decision in force and to the list after it can
do so once; to do it again it would have to write to the cache, and then the decision
in force is its own.  That a best bridge exists at all is a lemma (`BestExists`): a set
of naturals that is not empty has a least element.

`SmartPathProofs` proves `ServedExactly` and `RoutesJustified` for any ports,
destinations, bridges and capture loops.  `PathInv` follows a destination through the
places that hold one: the flow entry (`FlowsOwn`), the tunnel session (`SessionsOwn`),
the socket of a listener (`QueueOwn`), the datagram it is working on (`HandlingOwn`), what
was delivered and seen (`DeliveredOwn`, `SeenOwn`): each is a destination that datagrams
of its port were rewritten for.  If there is only one, every place holds the right one.
Nothing is needed about the router's answers, so this does not depend on seeding or on
the order of start-up.  `RoutesJustified` does need them: `RoutesInv` says that a cached
decision (`CacheDirect`) and the decision a pick has in hand (`PicksDirect`) were made
for the direct round trip of their own address, which holds because `DirectTo` depends
on the address alone and only `process_packet` asks, and that an answer is right for the
datagram its loop has in hand (`AnswersRight`).  `RouterMoves` shows that every step of
`SmartPath` is a step of `RouterNext` or leaves the router alone, and `RouterKeeps` then
carries `RouterIInv` over; `RouterIsUsedAsSpecified` is the theorem behind it, so that
what `RouterProofs` proves of any use of the router holds of this one.

`TunnelProofs` proves `FramesDistinct`, `UpIntegrity` and `DownIntegrity` for any local
sources, tunnels, connections and answers.  Its `IInv` says at each hop whose the
thing there is: a sealed datagram is its tunnel owner's and its number is behind the
counter (`SealedOwn`), a data frame on the wire carries one (`WireOwn`), what a
connection was given and opened by was sent under its session key (`ForwardedOwn`,
`OpenedSent`), an answer carries the key of its connection (`ReturnedOwn`) and a
responder passes it to the tunnel's owner (`DeliveredOwn`).  The bridge enters only as
`RelayService`, which `BridgeProofs` shows `Bridge` implements.

`TunnelIsService` proves that `Tunnel` implements `EndToEnd`.  The abstract state is
computed through `CHOOSE`, so the proof first shows that it is what it should be: `IInv`
makes the datagram a frame carries unique, hence a frame keeps its message while `sealed`
grows (`MessageKept`), a connection its program (`PartyKept`, `PartyIsOwner`) and what was
given its history (`GivenKept`).  Then each action is one step of `EndToEnd` or a
stutter: only `BridgeForwards` appends to what was given (`AppendLast`), only `Respond`
adds to what was heard.

`StreamProofs` proves the four safety properties of `tcp_stream` for any connections,
chunks and answers.  `UpInv` follows a chunk from `sealed` to the frame on the wire and
to what a destination was given; `DownInv` says for each connection that what was
heard, what its task holds and what is on the way are answers under its own key
(`DownKeyed`), and that on an orderly network the three together stand in the order in
which they were given (`OrderedAt`).  That one frame at a time is in the writer's hands
needs `WriterLater`: there is no writer before the tunnel is open.

`StreamIsService` proves that `Stream` implements `EndToEnd`.  It needs an invariant of its
own, `NumbersGiven`: a frame's number is that of a chunk read and an answer on its way is
one that was given (`NumbersHold`).  With the key of a connection as its program and a
frame's number as its message (`EndsKnown`), the mapped state has no `CHOOSE` left in it.
The step that matters is `Write` (`WriteIsHear`): on an orderly network what is written is
later than everything the program has heard of that destination, by `OrderedAt`.

`CaptureProofs` proves the safety properties of `capture_life` for any configuration that
meets `CaptureAssumption` and any number of starts and stops.  Loops are counted with
the library's facts on finite sets; `NoCaptureLoop` rests on every rewritten datagram
going to a listener, and every datagram of a tunnel to a bridge, neither of which is
captured.

`RegionsProofs` proves `Sound` and `ExactUnlessCrowded` for any list, width and walk.  `RegionsAssumption` says of
the width and the walk that they are numbers and of the lists that they are finite, that
a prefix has one region, and, since the prover knows nothing of exponents, that the
powers of two up to the width are positive.  That a longest mask exists is a lemma
(`LongestMask`), and `SharesPrefix` and `SpansOwned` are the arithmetic of one entry: an
address lies between its ends exactly if it shares the prefix's first bits.  For `Sound`
this is all.  `ExactUnlessCrowded` also has to say where the search is: unless several
entries start at the address, the entry the bisection finds and those before it are the
ones that start at or before the address (`FoundIsLast`); the walk back from there reaches
every entry that fewer than `Walk` of them follow (`WalkReaches`, by counting finite
sets); the most specific prefix is one of those unless the address is crowded.  Here the
finiteness of the list and the one region per prefix are needed.

`PROJECT.json` lists the theorems.  TLC evaluated `IInv` on the instances above
before the proof was attempted.

Only model-checked: everything about liveness (fairness and ENABLED are out of the
prover's reach): `IdleReaped`, `QueuesDrain`, `EndsTogether`, `StopEnds` and the temporal
properties of `bridge_live`.  Every safety property of the runs is proved.

## 5. Not modelled

* Byte layouts, nonces and ciphers of the frames: a frame is what it opens to.
* `fec.rs`: nothing calls it yet, so there is no system behaviour to state about it.
* The dashboard, which draws snapshots, and the command line tool, all of whose commands
  are TODO lines.
* The HTTP layer of the backend, configuration parsing, installation scripts, packet
  parsing and checksums; the diagnostic examples of `gr-capture`.

## 6. What could come next

1. A bridge that restarts under a client that does not notice (`forwarder.rs:407`): the
   code promises nothing here, so a property has to wait for a behaviour to state it of.
2. The layout of frames (`encode`, `decode` with their length checks), if the format
   grows variants that could be confused.
3. `fec.rs`, once the tunnel uses it: how blocks, loss and reordering combine.
