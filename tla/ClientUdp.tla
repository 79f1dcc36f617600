------------------------------- MODULE ClientUdp -------------------------------
(***************************************************************************)
(* A UDP rule of the client (gr-client forwarder.rs, run_udp_rule).        *)
(*                                                                         *)
(* One task reads datagrams of local programs and handles them one after   *)
(* the other; a responder task per tunnel carries the answers back; a      *)
(* reaper drops idle sessions.  A tunnel is a socket, a connection id and  *)
(* a key pair of its own, so the number of the tunnel stands for the       *)
(* session key (client address and connection id) and for the aead key.    *)
(***************************************************************************)
EXTENDS Naturals, FiniteSets

CONSTANTS
    Locals,      \* local sources (ip, port)
    MaxTunnels,  \* bound: tunnels opened
    MaxSpoken,   \* bound: datagrams read from each local source
    None

\* Tunnels in the order in which they are opened.
Tunnels == 1 .. MaxTunnels

ASSUME ClientAssumption ==
    /\ MaxTunnels \in Nat
    /\ MaxSpoken \in Nat
    /\ None \notin Locals
    /\ None \notin Tunnels

VARIABLES
    spoken,    \* history: datagrams read from each local source
    loop,      \* the datagram the listener handles and the session it found
    table,     \* sessions: local source -> tunnel
    owner,     \* tunnel -> the local source its responder answers
    seq,       \* UdpSession.tx_sequence
    idle,      \* last_active is further back than udp_idle_secs
    responder, \* the responder task of each tunnel
    warm,      \* Instant::now() - udp_idle_secs does not underflow
    reaping,   \* the reaper task runs
    reaper,    \* the local sources the reaper collected
    upWire,    \* frames sent to the bridge
    sealed,    \* history: which datagram each data frame carries
    delivered  \* history: answers handed to local sources

reaperVars == <<warm, reaping, reaper>>
clientVars == <<spoken, loop, table, owner, seq, idle, responder, reaperVars, upWire,
                sealed, delivered>>

SynFrame  == [kind : {"syn"}, skey : Tunnels, aead : Tunnels]
DataFrame == [kind : {"data"}, skey : Tunnels, aead : Tunnels, seq : Nat]

ClientInit ==
    /\ spoken = [l \in Locals |-> 0]
    /\ loop = None
    /\ table = [l \in Locals |-> None]
    /\ owner = [t \in Tunnels |-> None]
    /\ seq = [t \in Tunnels |-> 0]
    /\ idle = [t \in Tunnels |-> FALSE]
    /\ responder = [t \in Tunnels |-> "none"]
    /\ warm \in BOOLEAN
    /\ reaping = TRUE
    /\ reaper = {}
    /\ upWire = {}
    /\ sealed = {}
    /\ delivered = {}

-----------------------------------------------------------------------------
(* The listener *)

\* Variant: sessions are looked up by address without port.
ReadLocal_ByAddress(l) ==
    /\ loop = None
    /\ spoken[l] < MaxSpoken
    /\ spoken' = [spoken EXCEPT ![l] = @ + 1]
    /\ \E k \in Locals : loop' = [src |-> l, n |-> spoken[l] + 1, tun |-> table[k]]
    /\ UNCHANGED <<table, owner, seq, idle, responder, reaperVars, upWire, sealed, delivered>>

\* recv_from and the lookup of the source, with no await between them.
ReadLocal(l) ==
    /\ loop = None
    /\ spoken[l] < MaxSpoken
    /\ spoken' = [spoken EXCEPT ![l] = @ + 1]
    /\ loop' = [src |-> l, n |-> spoken[l] + 1, tun |-> table[l]]
    /\ UNCHANGED <<table, owner, seq, idle, responder, reaperVars, upWire, sealed, delivered>>

\* No session: open_tunnel sends a SYN, the session is inserted and its
\* responder spawned.  Only the reaper runs beside this, and it has no entry to
\* drop for the source.
OpenTunnel(t) ==
    /\ loop # None
    /\ loop.tun = None
    /\ owner[t] = None
    /\ \A u \in 1 .. t - 1 : owner[u] # None
    /\ upWire' = upWire \cup {[kind |-> "syn", skey |-> t, aead |-> t]}
    /\ owner' = [owner EXCEPT ![t] = loop.src]
    /\ table' = [table EXCEPT ![loop.src] = t]
    /\ responder' = [responder EXCEPT ![t] = "running"]
    /\ loop' = [loop EXCEPT !.tun = t]
    /\ UNCHANGED <<spoken, seq, idle, reaperVars, sealed, delivered>>

\* Variant: the datagram is sent on although there is no tunnel for it.
OpenFails_SendsOn ==
    /\ loop # None
    /\ loop.tun = None
    /\ upWire' = upWire \cup {[kind |-> "data", skey |-> None, aead |-> None, seq |-> 1]}
    /\ loop' = None
    /\ UNCHANGED <<spoken, table, owner, seq, idle, responder, reaperVars, sealed, delivered>>

\* open_tunnel failed: the datagram is dropped.
OpenFails ==
    /\ loop # None
    /\ loop.tun = None
    /\ loop' = None
    /\ UNCHANGED <<spoken, table, owner, seq, idle, responder, reaperVars, upWire, sealed,
                   delivered>>

\* Variant: the number is read and stored back only after a successful send.
ForwardLocal_LateCount ==
    /\ loop # None
    /\ loop.tun # None
    /\ LET t == loop.tun
       IN  /\ idle' = [idle EXCEPT ![t] = FALSE]
           /\ seq' \in {seq, [seq EXCEPT ![t] = @ + 1]}
           /\ upWire' = upWire \cup
                {[kind |-> "data", skey |-> t, aead |-> t, seq |-> seq[t] + 1]}
           /\ sealed' = sealed \cup
                {[tun |-> t, seq |-> seq[t] + 1, src |-> loop.src, n |-> loop.n]}
    /\ loop' = None
    /\ UNCHANGED <<spoken, table, owner, responder, reaperVars, delivered>>

\* touch, fetch_add, encrypt_frame, send.
ForwardLocal ==
    /\ loop # None
    /\ loop.tun # None
    /\ LET t == loop.tun
       IN  /\ idle' = [idle EXCEPT ![t] = FALSE]
           /\ seq' = [seq EXCEPT ![t] = @ + 1]
           /\ upWire' = upWire \cup
                {[kind |-> "data", skey |-> t, aead |-> t, seq |-> seq[t] + 1]}
           /\ sealed' = sealed \cup
                {[tun |-> t, seq |-> seq[t] + 1, src |-> loop.src, n |-> loop.n]}
    /\ loop' = None
    /\ UNCHANGED <<spoken, table, owner, responder, reaperVars, delivered>>

\* The datagram is longer than MAX_PAYLOAD_LEN: its number is used up, no frame.
ForwardTooLong ==
    /\ loop # None
    /\ loop.tun # None
    /\ idle' = [idle EXCEPT ![loop.tun] = FALSE]
    /\ seq' = [seq EXCEPT ![loop.tun] = @ + 1]
    /\ loop' = None
    /\ UNCHANGED <<spoken, table, owner, responder, reaperVars, upWire, sealed, delivered>>

-----------------------------------------------------------------------------
(* The responders *)

\* Variant: answers go to the source whose datagram came last.
Respond_ToLast(t, w) ==
    /\ responder[t] = "running"
    /\ w.skey = t
    /\ w.aead = t
    /\ loop # None
    /\ delivered' = delivered \cup {[to |-> loop.src, by |-> t, frame |-> w]}
    /\ idle' = [idle EXCEPT ![t] = FALSE]
    /\ UNCHANGED <<spoken, loop, table, owner, seq, responder, reaperVars, upWire, sealed>>

\* A frame w arrives at the tunnel's socket and opens under its key: its payload
\* goes to the source the responder was spawned for, and the session is touched.
Respond(t, w) ==
    /\ responder[t] = "running"
    /\ w.skey = t
    /\ w.aead = t
    /\ delivered' = delivered \cup {[to |-> owner[t], by |-> t, frame |-> w]}
    /\ idle' = [idle EXCEPT ![t] = FALSE]
    /\ UNCHANGED <<spoken, loop, table, owner, seq, responder, reaperVars, upWire, sealed>>

\* A receive error on the tunnel's socket, or the local send failed: the task
\* returns; the session stays in the table.
ResponderFails(t) ==
    /\ responder[t] = "running"
    /\ responder' = [responder EXCEPT ![t] = "ended"]
    /\ UNCHANGED <<spoken, loop, table, owner, seq, idle, reaperVars, upWire, sealed, delivered>>

-----------------------------------------------------------------------------
(* The reaper, every 15 seconds *)

InTable(t) == owner[t] # None /\ table[owner[t]] = t

\* Where the clock starts with the machine, the machine has been up for udp_idle_secs.
WarmsUp ==
    /\ ~warm
    /\ warm' = TRUE
    /\ UNCHANGED <<spoken, loop, table, owner, seq, idle, responder, reaping, reaper, upWire,
                   sealed, delivered>>

\* Time passes without traffic in either direction.
GoIdle(t) ==
    /\ warm
    /\ InTable(t)
    /\ ~idle[t]
    /\ idle' = [idle EXCEPT ![t] = TRUE]
    /\ UNCHANGED <<spoken, loop, table, owner, seq, responder, reaperVars, upWire, sealed,
                   delivered>>

Expired == {l \in Locals : table[l] # None /\ idle[table[l]]}

\* The cutoff is before the start of the clock: the task panics, and nothing is
\* reaped any more.  The first tick is immediate.
ReaperPanics ==
    /\ reaping
    /\ ~warm
    /\ reaping' = FALSE
    /\ UNCHANGED <<spoken, loop, table, owner, seq, idle, responder, warm, reaper, upWire,
                   sealed, delivered>>

\* A tick; under the read lock.
ReapCollect ==
    /\ reaping
    /\ warm
    /\ reaper = {}
    /\ Expired # {}
    /\ reaper' = Expired
    /\ UNCHANGED <<spoken, loop, table, owner, seq, idle, responder, warm, reaping, upWire,
                   sealed, delivered>>

\* Variant: the entries are collected and never removed.
ReapRemove_Nothing ==
    /\ reaper # {}
    /\ reaper' = {}
    /\ UNCHANGED <<spoken, loop, table, owner, seq, idle, responder, warm, reaping, upWire,
                   sealed, delivered>>

\* Under the write lock, taken later, without another look at last_active.
ReapRemove ==
    /\ reaper # {}
    /\ table' = [l \in Locals |-> IF l \in reaper THEN None ELSE table[l]]
    /\ reaper' = {}
    /\ UNCHANGED <<spoken, loop, owner, seq, idle, responder, warm, reaping, upWire, sealed,
                   delivered>>

Listener ==
    \/ \E t \in Tunnels : OpenTunnel(t)
    \/ OpenFails \/ ForwardLocal \/ ForwardTooLong

Reaper == ReaperPanics \/ ReapCollect \/ ReapRemove

\* Every step but the responders', which take frames from the network.
ClientNext ==
    \/ \E l \in Locals : ReadLocal(l)
    \/ Listener
    \/ \E t \in Tunnels : ResponderFails(t) \/ GoIdle(t)
    \/ WarmsUp
    \/ Reaper
===============================================================================
