-------------------------------- MODULE Bridge --------------------------------
(***************************************************************************)
(* The relay process of gr-bridge (server.rs, session.rs).                 *)
(*                                                                         *)
(* Four kinds of tokio task share one session table:                       *)
(*   - run() receives datagrams and spawns one handle_packet task for      *)
(*     each; a task is one member of Handlers and handles one frame;       *)
(*   - drain_dest, one per session, reads what the destination answers;    *)
(*   - downstream_sender, a single task, seals the answers for the client; *)
(*   - idle_reaper, a single task, drops the sessions without traffic.     *)
(*                                                                         *)
(* A session object is created by the handler of its SYN, so the handler's *)
(* name is also the name of the object: sessions[k] is the object the      *)
(* table holds under k, and an object that was replaced or removed lives   *)
(* on for as long as a task has a reference to it, as an Arc does.         *)
(*                                                                         *)
(* The network may lose, duplicate and reorder datagrams: Receive takes    *)
(* any frame of ClientFrames, at any time, any number of times.            *)
(***************************************************************************)
EXTENDS Naturals, Sequences, FiniteSets

CONSTANTS
    MaxTasks,       \* bound: datagrams received, hence handle_packet tasks spawned
    SessionKeys,    \* (client address, connection id) pairs
    AeadKeys,       \* session keys an X25519 exchange can produce
    ClientFrames,   \* frames the clients put on the network
    MaxSessions,    \* config.max_sessions
    AllowAnyScope,  \* config.allow_any_scope
    MaxReplies,     \* bound: reads a drain task makes from one destination
    QueueCap,       \* bound: length of the downstream channel (unbounded in the code)
    MaxRestarts,    \* bound: restarts of the process by its service manager
    None

\* handle_packet tasks, in the order in which run() spawns them.
Handlers == 1 .. MaxTasks

\* What LicenseToken::verify and the scope test can say of a SYN's token.
TokenKinds == {"valid", "unscoped", "bad"}

\* A SYN carries the client's public key (hence the aead key both ends derive),
\* the sealed token and the destination's transport.
SynFrame == [kind : {"syn"}, skey : SessionKeys, aead : AeadKeys,
             token : TokenKinds, proto : {"tcp", "udp"}]

\* A data frame; aead is the key it was sealed with, seq names its payload.
DataFrame == [kind : {"data"}, skey : SessionKeys, aead : AeadKeys, seq : Nat]

Frame == SynFrame \cup DataFrame

ASSUME BridgeAssumption ==
    /\ MaxTasks \in Nat
    /\ None \notin Handlers
    /\ None \notin Frame
    /\ ClientFrames \subseteq Frame
    /\ MaxSessions \in Nat
    /\ MaxReplies \in Nat
    /\ QueueCap \in Nat
    /\ MaxRestarts \in Nat
    /\ AllowAnyScope \in BOOLEAN

\* A client makes a key pair for every SYN it composes: a key names one SYN, which the
\* network may repeat.
ASSUME FreshKeys ==
    \A f, g \in ClientFrames :
        f.kind = "syn" /\ g.kind = "syn" /\ f.skey = g.skey /\ f.aead = g.aead => f = g

VARIABLES
    pc,        \* where each handle_packet task stands
    pkt,       \* the frame a task handles
    on,        \* the session object a data handler has looked up
    sessions,  \* BridgeState.sessions: key -> session object
    origin,    \* session object -> the SYN it was created from
    tx,        \* Session.tx_sequence
    idle,      \* Session.last_active is further back than idle_timeout_secs
    holder,    \* the task that holds the session's mutex
    drain,     \* the session's drain_dest task
    queue,     \* the downstream channel
    sender,    \* downstream_sender: the answer it has in hand and its session
    reaper,    \* idle_reaper: the keys it collected in to_drop
    written,   \* history: frames whose payload was written to the destination
    heard,     \* history: number of reads each drain task made
    downWire,  \* frames the bridge sent to clients
    peak,      \* history: most accepts ever under way at one time
    restarts   \* restarts so far

taskVars    == <<pc, pkt, on>>
sessionVars == <<origin, tx, idle, holder>>
returnVars  == <<queue, sender, downWire>>
historyVars == <<written, heard, peak>>
vars == <<pc, pkt, on, sessions, origin, tx, idle, holder, drain, queue, sender,
          reaper, written, heard, downWire, peak, restarts>>

\* One read of a destination: the n-th answer of session object from, queued
\* under the key its drain task was spawned with.
DownstreamPacket == [skey : SessionKeys, from : Handlers, n : Nat]

\* A frame to a client: sealed by session object via with number seq.
DownFrame == [skey : SessionKeys, aead : AeadKeys, seq : Nat,
              from : Handlers, n : Nat, via : Handlers]

Jobs == {"unborn", "received", "connecting", "locking", "writing", "done"}

Init ==
    /\ pc = [h \in Handlers |-> "unborn"]
    /\ pkt = [h \in Handlers |-> None]
    /\ on = [h \in Handlers |-> None]
    /\ sessions = [k \in SessionKeys |-> None]
    /\ origin = [h \in Handlers |-> None]
    /\ tx = [h \in Handlers |-> 0]
    /\ idle = [h \in Handlers |-> FALSE]
    /\ holder = [h \in Handlers |-> None]
    /\ drain = [h \in Handlers |-> "none"]
    /\ queue = <<>>
    /\ sender = None
    /\ reaper = {}
    /\ written = [h \in Handlers |-> <<>>]
    /\ heard = [h \in Handlers |-> 0]
    /\ downWire = {}
    /\ peak = 0
    /\ restarts = 0

-----------------------------------------------------------------------------
Occupied   == {k \in SessionKeys : sessions[k] # None}
Connecting == {h \in Handlers : pc[h] = "connecting"}

\* The session object is the one the table holds under its key.
Open(s) == origin[s] # None /\ sessions[origin[s].skey] = s

Finish(h) ==
    /\ pc' = [pc EXCEPT ![h] = "done"]
    /\ pkt' = [pkt EXCEPT ![h] = None]
    /\ on' = [on EXCEPT ![h] = None]

-----------------------------------------------------------------------------
(* handle_packet *)

\* run(): a datagram arrives and a task is spawned for it.
Receive(h, f) ==
    /\ pc[h] = "unborn"
    /\ \A earlier \in 1 .. h - 1 : pc[earlier] # "unborn"
    /\ pc' = [pc EXCEPT ![h] = "received"]
    /\ pkt' = [pkt EXCEPT ![h] = f]
    /\ UNCHANGED <<on, sessions, sessionVars, drain, returnVars, reaper,
                   historyVars, restarts>>

\* Variant: the limit is passed by one.
TableHasRoom_OffByOne == Cardinality(Occupied) <= MaxSessions

TableHasRoom == Cardinality(Occupied) < MaxSessions

Admissible(f) ==
    f.token = "valid" \/ (f.token = "unscoped" /\ AllowAnyScope)

\* accept_new_session up to the await of open_dest: the limit is tested, the
\* token verified, and no lock is held while the destination is opened.
AcceptSyn(h) ==
    /\ pc[h] = "received"
    /\ pkt[h].kind = "syn"
    /\ TableHasRoom
    /\ Admissible(pkt[h])
    /\ pc' = [pc EXCEPT ![h] = "connecting"]
    /\ peak' = LET now == Cardinality(Connecting) + 1
               IN  IF now > peak THEN now ELSE peak
    /\ UNCHANGED <<pkt, on, sessions, sessionVars, drain, returnVars, reaper,
                   written, heard, restarts>>

RefuseSyn(h) ==
    /\ pc[h] = "received"
    /\ pkt[h].kind = "syn"
    /\ ~(TableHasRoom /\ Admissible(pkt[h]))
    /\ Finish(h)
    /\ UNCHANGED <<sessions, sessionVars, drain, returnVars, reaper,
                   historyVars, restarts>>

\* open_dest returned: the object is created, inserted under its key (whatever
\* the table held there is dropped from it) and its drain task spawned.
ConnectOk(h) ==
    /\ pc[h] = "connecting"
    /\ origin' = [origin EXCEPT ![h] = pkt[h]]
    /\ tx' = [tx EXCEPT ![h] = 0]
    /\ idle' = [idle EXCEPT ![h] = FALSE]
    /\ sessions' = [sessions EXCEPT ![pkt[h].skey] = h]
    /\ drain' = [drain EXCEPT ![h] = "running"]
    /\ Finish(h)
    /\ UNCHANGED <<holder, returnVars, reaper, historyVars, restarts>>

\* open_dest failed or timed out.
ConnectFails(h) ==
    /\ pc[h] = "connecting"
    /\ Finish(h)
    /\ UNCHANGED <<sessions, sessionVars, drain, returnVars, reaper,
                   historyVars, restarts>>

\* forward_data: the session is looked up and its Arc cloned.
FindSession(h) ==
    /\ pc[h] = "received"
    /\ pkt[h].kind = "data"
    /\ sessions[pkt[h].skey] # None
    /\ on' = [on EXCEPT ![h] = sessions[pkt[h].skey]]
    /\ pc' = [pc EXCEPT ![h] = "locking"]
    /\ UNCHANGED <<pkt, sessions, sessionVars, drain, returnVars, reaper,
                   historyVars, restarts>>

\* forward_data: "no session for ...".
DropUnknown(h) ==
    /\ pc[h] = "received"
    /\ pkt[h].kind = "data"
    /\ sessions[pkt[h].skey] = None
    /\ Finish(h)
    /\ UNCHANGED <<sessions, sessionVars, drain, returnVars, reaper,
                   historyVars, restarts>>

\* Variant: a frame is forwarded without being authenticated.
Opens_AnyKey(f, s) == TRUE

\* decrypt_frame succeeds: the frame was sealed with the session's key.
Opens(f, s) == f.aead = origin[s].aead

\* The mutex is free, the frame opens, last_active is refreshed; the guard is
\* kept across the write to the destination.
LockSession(h) ==
    /\ pc[h] = "locking"
    /\ holder[on[h]] = None
    /\ Opens(pkt[h], on[h])
    /\ holder' = [holder EXCEPT ![on[h]] = h]
    /\ idle' = [idle EXCEPT ![on[h]] = FALSE]
    /\ pc' = [pc EXCEPT ![h] = "writing"]
    /\ UNCHANGED <<pkt, on, sessions, origin, tx, drain, returnVars, reaper,
                   historyVars, restarts>>

\* The mutex is taken and released again: the frame does not open.
RejectFrame(h) ==
    /\ pc[h] = "locking"
    /\ holder[on[h]] = None
    /\ ~Opens(pkt[h], on[h])
    /\ Finish(h)
    /\ UNCHANGED <<sessions, sessionVars, drain, returnVars, reaper,
                   historyVars, restarts>>

WriteDest(h) ==
    /\ pc[h] = "writing"
    /\ written' = [written EXCEPT ![on[h]] = Append(@, pkt[h])]
    /\ holder' = [holder EXCEPT ![on[h]] = None]
    /\ Finish(h)
    /\ UNCHANGED <<sessions, origin, tx, idle, drain, returnVars, reaper,
                   heard, peak, restarts>>

\* Variant: the error path of the write leaves the mutex taken.
WriteFails_KeepsLock(h) ==
    /\ pc[h] = "writing"
    /\ Finish(h)
    /\ UNCHANGED <<sessions, sessionVars, drain, returnVars, reaper,
                   historyVars, restarts>>

\* The destination refuses the write; the session stays in the table.
WriteFails(h) ==
    /\ pc[h] = "writing"
    /\ holder' = [holder EXCEPT ![on[h]] = None]
    /\ Finish(h)
    /\ UNCHANGED <<sessions, origin, tx, idle, drain, returnVars, reaper,
                   historyVars, restarts>>

-----------------------------------------------------------------------------
(* drain_dest *)

\* A read returns data, which is queued under the key the task was given.
\* Reading does not touch the session: it may be gone from the table.
DestReplies(s) ==
    /\ drain[s] = "running"
    /\ heard[s] < MaxReplies
    /\ Len(queue) < QueueCap
    /\ heard' = [heard EXCEPT ![s] = @ + 1]
    /\ queue' = Append(queue, [skey |-> origin[s].skey, from |-> s, n |-> heard[s] + 1])
    /\ UNCHANGED <<taskVars, sessions, sessionVars, drain, sender, downWire,
                   reaper, written, peak, restarts>>

\* End of stream or a read error: the task returns, the session stays.
DrainEnds(s) ==
    /\ drain[s] = "running"
    /\ drain' = [drain EXCEPT ![s] = "ended"]
    /\ UNCHANGED <<taskVars, sessions, sessionVars, returnVars, reaper,
                   historyVars, restarts>>

-----------------------------------------------------------------------------
(* downstream_sender *)

\* Variant: the result of the lookup is used without a test.
SenderTakes_NoTest ==
    /\ sender = None
    /\ queue # <<>>
    /\ queue' = Tail(queue)
    /\ sender' = [item |-> Head(queue), sess |-> sessions[Head(queue).skey]]
    /\ UNCHANGED <<taskVars, sessions, sessionVars, drain, downWire, reaper,
                   historyVars, restarts>>

\* Variant: an answer without a session is tried again instead of dropped.
SenderTakes_Retries ==
    /\ sender = None
    /\ queue # <<>>
    /\ sessions[Head(queue).skey] # None
    /\ queue' = Tail(queue)
    /\ sender' = [item |-> Head(queue), sess |-> sessions[Head(queue).skey]]
    /\ UNCHANGED <<taskVars, sessions, sessionVars, drain, downWire, reaper,
                   historyVars, restarts>>

\* Variant: the newest answer first.
SenderTakes_Newest ==
    /\ sender = None
    /\ queue # <<>>
    /\ queue' = SubSeq(queue, 1, Len(queue) - 1)
    /\ LET i == queue[Len(queue)]
           s == sessions[i.skey]
       IN  sender' = IF s = None THEN None ELSE [item |-> i, sess |-> s]
    /\ UNCHANGED <<taskVars, sessions, sessionVars, drain, downWire, reaper,
                   historyVars, restarts>>

\* Variant: the answer stays at the head of the channel.
SenderTakes_Peeks ==
    /\ sender = None
    /\ queue # <<>>
    /\ LET s == sessions[Head(queue).skey]
       IN  sender' = IF s = None THEN None ELSE [item |-> Head(queue), sess |-> s]
    /\ UNCHANGED <<taskVars, sessions, sessionVars, drain, queue, downWire, reaper,
                   historyVars, restarts>>

\* Variant: the session is looked up by connection id alone.
SenderTakes_AnyClient ==
    /\ sender = None
    /\ queue # <<>>
    /\ queue' = Tail(queue)
    /\ \E k \in SessionKeys :
          sender' = IF sessions[k] = None THEN None
                    ELSE [item |-> Head(queue), sess |-> sessions[k]]
    /\ UNCHANGED <<taskVars, sessions, sessionVars, drain, downWire, reaper,
                   historyVars, restarts>>

\* recv() and the lookup of the key; without a session the answer is dropped.
SenderTakes ==
    /\ sender = None
    /\ queue # <<>>
    /\ queue' = Tail(queue)
    /\ LET s == sessions[Head(queue).skey]
       IN  sender' = IF s = None THEN None ELSE [item |-> Head(queue), sess |-> s]
    /\ UNCHANGED <<taskVars, sessions, sessionVars, drain, downWire, reaper,
                   historyVars, restarts>>

\* Variant: the counter of the session is not advanced.
SenderSeals_SameSeq ==
    /\ sender # None
    /\ LET s == sender.sess
           i == sender.item
       IN  /\ holder[s] = None
           /\ downWire' = downWire \cup
                {[skey |-> i.skey, aead |-> origin[s].aead, seq |-> tx[s] + 1,
                  from |-> i.from, n |-> i.n, via |-> s]}
    /\ sender' = None
    /\ UNCHANGED <<taskVars, sessions, sessionVars, drain, queue, reaper,
                   historyVars, restarts>>

\* With the session's mutex (no await while it is held): number, seal, send.
SenderSeals ==
    /\ sender # None
    /\ LET s == sender.sess
           i == sender.item
       IN  /\ holder[s] = None
           /\ tx' = [tx EXCEPT ![s] = @ + 1]
           /\ downWire' = downWire \cup
                {[skey |-> i.skey, aead |-> origin[s].aead, seq |-> tx[s] + 1,
                  from |-> i.from, n |-> i.n, via |-> s]}
    /\ sender' = None
    /\ UNCHANGED <<taskVars, sessions, origin, idle, holder, drain, queue, reaper,
                   historyVars, restarts>>

-----------------------------------------------------------------------------
(* idle_reaper *)

\* Time passes without a data frame for the session.
GoIdle(s) ==
    /\ Open(s)
    /\ ~idle[s]
    /\ idle' = [idle EXCEPT ![s] = TRUE]
    /\ UNCHANGED <<taskVars, sessions, origin, tx, holder, drain, returnVars,
                   reaper, historyVars, restarts>>

\* Variant: only the sessions whose destination has closed are dropped.
Doomed_EndedOnly == {k \in Occupied : idle[sessions[k]] /\ drain[sessions[k]] = "ended"}

Doomed == {k \in Occupied : idle[sessions[k]] /\ holder[sessions[k]] = None}

\* A tick: under the read lock, the keys of the sessions that are not locked
\* (try_lock) and were last active before the cutoff.
ReapCollect ==
    /\ reaper = {}
    /\ Doomed # {}
    /\ reaper' = Doomed
    /\ UNCHANGED <<taskVars, sessions, sessionVars, drain, returnVars,
                   historyVars, restarts>>

\* Under the write lock, taken later: what the table now holds under the keys.
ReapRemove ==
    /\ reaper # {}
    /\ sessions' = [k \in SessionKeys |-> IF k \in reaper THEN None ELSE sessions[k]]
    /\ reaper' = {}
    /\ UNCHANGED <<taskVars, sessionVars, drain, returnVars, historyVars, restarts>>

-----------------------------------------------------------------------------
\* The process dies and its service manager starts it again: every task, lock
\* and table entry is gone; what was written or sent stays written or sent.
Restart ==
    /\ restarts < MaxRestarts
    /\ restarts' = restarts + 1
    /\ pc' = [h \in Handlers |-> IF pc[h] = "unborn" THEN "unborn" ELSE "done"]
    /\ pkt' = [h \in Handlers |-> None]
    /\ on' = [h \in Handlers |-> None]
    /\ sessions' = [k \in SessionKeys |-> None]
    /\ holder' = [h \in Handlers |-> None]
    /\ drain' = [h \in Handlers |-> IF drain[h] = "running" THEN "ended" ELSE drain[h]]
    /\ queue' = <<>>
    /\ sender' = None
    /\ reaper' = {}
    /\ UNCHANGED <<origin, tx, idle, historyVars, downWire>>

\* The steps of a task that do not write to a destination.
Step(h) ==
    \/ AcceptSyn(h) \/ RefuseSyn(h) \/ ConnectOk(h) \/ ConnectFails(h)
    \/ FindSession(h) \/ DropUnknown(h) \/ LockSession(h) \/ RejectFrame(h)

Write(h) == WriteDest(h) \/ WriteFails(h)

Handle(h) == Step(h) \/ Write(h)

Drain(s) == DestReplies(s) \/ DrainEnds(s)

Sender == SenderTakes \/ SenderSeals

Reaper == ReapCollect \/ ReapRemove

Next ==
    \/ \E h \in Handlers, f \in ClientFrames : Receive(h, f)
    \/ \E h \in Handlers : Handle(h) \/ Drain(h) \/ GoIdle(h)
    \/ Sender
    \/ Reaper
    \/ Restart

Spec == Init /\ [][Next]_vars

\* The runtime schedules every task; open_dest ends (TCP by its timeout); the
\* interval of the reaper ticks.  Reads of the destinations, the passing of time,
\* arrivals and restarts are the environment's.  Weak fairness is enough for the
\* session's mutex, which is FIFO in tokio: a finite set of tasks ask for it.
BridgeFairness ==
    /\ \A h \in Handlers : WF_vars(Step(h))
    /\ WF_vars(Sender)
    /\ WF_vars(Reaper)

\* Every destination goes on reading: no write blocks for ever.
DestinationsRead == \A h \in Handlers : WF_vars(Write(h))

\* Only UDP destinations cannot block a write: a TCP peer may stop reading.
WriteUdp(h) == pc[h] = "writing" /\ origin[on[h]].proto = "udp" /\ Write(h)

TcpMayStall == \A h \in Handlers : WF_vars(WriteUdp(h))

LiveSpec  == Spec /\ BridgeFairness /\ DestinationsRead
StallSpec == Spec /\ BridgeFairness /\ TcpMayStall

-----------------------------------------------------------------------------
(* Safety *)

TypeOK ==
    /\ pc \in [Handlers -> Jobs]
    /\ pkt \in [Handlers -> Frame \cup {None}]
    /\ on \in [Handlers -> Handlers \cup {None}]
    /\ sessions \in [SessionKeys -> Handlers \cup {None}]
    /\ origin \in [Handlers -> SynFrame \cup {None}]
    /\ tx \in [Handlers -> Nat]
    /\ idle \in [Handlers -> BOOLEAN]
    /\ holder \in [Handlers -> Handlers \cup {None}]
    /\ drain \in [Handlers -> {"none", "running", "ended"}]
    /\ queue \in Seq(DownstreamPacket)
    /\ sender \in [item : DownstreamPacket, sess : Handlers] \cup {None}
    /\ reaper \subseteq SessionKeys
    /\ written \in [Handlers -> Seq(DataFrame)]
    /\ heard \in [Handlers -> Nat]
    /\ downWire \subseteq DownFrame
    /\ peak \in Nat
    /\ restarts \in Nat

\* What reaches a destination was sent by the client that opened the session:
\* every payload written comes from a frame of the session's client address and
\* connection id, sealed with the key agreed in its SYN, across replacements of
\* the table entry, reaping and restarts.
Confinement ==
    \A s \in Handlers : \A i \in DOMAIN written[s] :
        /\ origin[s] # None
        /\ written[s][i] \in ClientFrames
        /\ written[s][i].skey = origin[s].skey
        /\ written[s][i].aead = origin[s].aead

\* What reaches a client comes from a destination that this client asked for: an
\* answer keeps its client through the shared channel and the lookup by key,
\* and it is one the destination gave.
ReturnPath ==
    \A w \in downWire :
        /\ origin[w.from] # None /\ origin[w.via] # None
        /\ origin[w.from].skey = w.skey
        /\ origin[w.via].skey = w.skey
        /\ w.aead = origin[w.via].aead
        /\ w.n \in 1 .. heard[w.from]

\* gr-protocol numbers the frames of a sender so that a key meets a number once.
\* What the bridge keeps of that: one key seals two frames under one number only if
\* the SYN that agreed the key was accepted twice, each time by a session object that
\* counts from 0, and then at most one frame for each object; not by replacement with
\* a new key, reaping, restarts or late answers that another object seals.
NumberedOnce ==
    \A v, w \in downWire :
        v.skey = w.skey /\ v.aead = w.aead /\ v.seq = w.seq /\ v # w =>
            v.via # w.via /\ origin[v.via] = origin[w.via]

\* The single channel and the single sender keep the order of the reads: the
\* answers of one destination leave with increasing numbers while one session
\* object seals them, and none leaves twice.
DownstreamInOrder ==
    \A v, w \in downWire :
        /\ v.from = w.from /\ v.n = w.n => v = w
        /\ v.from = w.from /\ v.via = w.via /\ v.n < w.n => v.seq < w.seq

\* One task at a time writes to a destination, and a mutex is held by exactly
\* the task that is writing: no exit path of forward_data leaves it taken.
OneWriter ==
    \A s, h \in Handlers :
        (holder[s] = h) <=> (pc[h] = "writing" /\ on[h] = s)

\* max_sessions is tested before the await of open_dest and not again at the
\* insert.  The excess is bounded by the overlap: the table exceeds the limit
\* by at most the largest number of accepts ever under way together, less one.
LimitUpToOverlap ==
    peak # 0 => Cardinality(Occupied) + Cardinality(Connecting) < MaxSessions + peak

\* The table holds a session object under the key of the SYN it comes from.
TableKeyed ==
    \A k \in Occupied : origin[sessions[k]] # None /\ origin[sessions[k]].skey = k

-----------------------------------------------------------------------------
(* The inductive invariant: what the properties above rest on *)

\* A task's frame came from the network and suits the place the task is at; a
\* session object exists only once the task that creates it has ended.
TaskInv ==
    \A h \in Handlers :
        /\ pc[h] # "done" => origin[h] = None
        /\ pc[h] \notin {"unborn", "done"} => pkt[h] \in ClientFrames
        /\ pc[h] = "connecting" => pkt[h].kind = "syn" /\ Admissible(pkt[h])
        /\ pc[h] \in {"locking", "writing"} =>
              /\ pkt[h].kind = "data"
              /\ on[h] \in Handlers
              /\ origin[on[h]] # None
              /\ origin[on[h]].skey = pkt[h].skey
        /\ pc[h] = "writing" => Opens(pkt[h], on[h])

OriginInv ==
    \A s \in Handlers :
        /\ origin[s] # None =>
              origin[s] \in ClientFrames /\ origin[s].kind = "syn" /\ Admissible(origin[s])
        /\ drain[s] # "none" => origin[s] # None
        /\ heard[s] # 0 => origin[s] # None

\* Answers on their way: a is one that the destination of a.from gave to the
\* client of a.skey, and it is later than every answer of a.from already sent.
OnItsWay(a) ==
    /\ origin[a.from] # None
    /\ origin[a.from].skey = a.skey
    /\ a.n \in 1 .. heard[a.from]
    /\ \A w \in downWire : w.from = a.from => w.n < a.n

QueueInv ==
    /\ \A i \in 1 .. Len(queue) : OnItsWay(queue[i])
    /\ \A i, j \in 1 .. Len(queue) :
          i < j /\ queue[i].from = queue[j].from => queue[i].n < queue[j].n

SenderInv ==
    sender # None =>
        /\ OnItsWay(sender.item)
        /\ origin[sender.sess] # None
        /\ origin[sender.sess].skey = sender.item.skey
        /\ \A i \in 1 .. Len(queue) :
              queue[i].from = sender.item.from => sender.item.n < queue[i].n

\* A session object seals one frame under a number.
SeqNamesFrame ==
    \A v, w \in downWire : v.via = w.via /\ v.seq = w.seq => v = w

\* The counter of a session object is the last number it sealed with.
CounterInv == \A w \in downWire : w.seq <= tx[w.via]

IInv ==
    /\ TypeOK /\ TaskInv /\ OneWriter /\ TableKeyed /\ OriginInv
    /\ Confinement /\ QueueInv /\ SenderInv /\ CounterInv
    /\ ReturnPath /\ SeqNamesFrame /\ DownstreamInOrder

\* Why LimitUpToOverlap is inductive: an accept that passes the test is counted
\* in peak together with the accepts already under way.
LimitInv ==
    /\ IsFiniteSet(Occupied)
    /\ Cardinality(Connecting) <= peak
    /\ LimitUpToOverlap

-----------------------------------------------------------------------------
(* Refinement *)

Relay == INSTANCE RelayService WITH
    Relays     <- Handlers,
    Admitted   <- {f \in ClientFrames : f.kind = "syn" /\ Admissible(f)},
    DataFrames <- {f \in ClientFrames : f.kind = "data"},
    opened     <- origin,
    forwarded  <- written,
    answers    <- heard,
    returned   <- downWire

\* The tasks, the table, the mutexes and the channel, with their replacements,
\* reaping and restarts, implement the relay: each step of the process is a
\* step of RelayService or changes nothing a client or destination can see.
RelayRefinement == Relay!Spec

-----------------------------------------------------------------------------
(* Liveness *)

\* Every datagram's task ends: nothing keeps a task waiting for ever for the
\* destination or for the session's mutex.
TasksEnd == \A h \in Handlers : (pc[h] # "unborn") ~> (pc[h] = "done")

Pending(s) ==
    \/ \E i \in DOMAIN queue : queue[i].from = s
    \/ sender # None /\ sender.item.from = s

\* An answer queued for a client leaves the channel: sealed and sent, or
\* dropped; no session can hold up the answers of another one.
AnswersLeave == \A s \in Handlers : Pending(s) ~> ~Pending(s)

\* A session without traffic leaves the table (or sees traffic again).
IdleReaped == \A s \in Handlers : (Open(s) /\ idle[s]) ~> ~(Open(s) /\ idle[s])

-----------------------------------------------------------------------------
(* What the documentation says and the code does not do *)

\* session.rs: the read half is moved into the drain task "so the two paths don't
\* contend on a single mutex".  The answers of a destination that never blocks a
\* write then leave, whatever the destinations of other sessions do.
UnblockedAnswersLeave ==
    \A s \in Handlers :
        (Pending(s) /\ origin[s].proto = "udp") ~> ~Pending(s)

===============================================================================
