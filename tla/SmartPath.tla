------------------------------- MODULE SmartPath -------------------------------
(***************************************************************************)
(* Smart routing end to end (gr-client smart.rs, gr-capture                *)
(* windivert_backend.rs): a capture loop asks the router about every       *)
(* outbound datagram of a game and rewrites it to a bridge's listener,     *)
(* leaving a flow entry under the game's source port; the listener tunnels *)
(* it to the destination it finds there; answers come back through the     *)
(* listener and are rewritten to look like the destination's.  The capture *)
(* loops are the threads that call pick, each for one packet at a time.    *)
(***************************************************************************)
EXTENDS Router

CONSTANTS
    Ports,        \* source ports of games
    Dests,        \* destinations (ip, port)
    IpOf,         \* destination -> address
    DirectRtt,    \* direct_rtt_ms: region -> round trip or None
    Seeds,        \* estimated client to bridge round trips
    SharedRouter, \* the router that is seeded is the resolver's (--tui)
    MaxSends      \* bound: datagrams games send

ASSUME SmartAssumption ==
    /\ IpOf \in [Dests -> Ips]
    /\ \A d \in Dests : RegionOf[IpOf[d]] # None =>
          DirectRtt[RegionOf[IpOf[d]]] \in DirectRtts \cup {None}
    /\ Seeds \in [Bridges -> Rtts]
    /\ SharedRouter \in BOOLEAN
    /\ MaxSends \in Nat
    /\ None \notin Dests

VARIABLES
    seeded,    \* bridges the start-up has recorded an estimate for
    bound,     \* bridges whose listener has its socket
    flows,     \* port -> flow entry or None
    hand,      \* capture loop -> the datagram it asks the router about, or None
    flowIdle,  \* ports whose entry is older than flow_idle
    queue,     \* datagrams in the socket of each listener
    handling,  \* the datagram each listener is working on
    sessions,  \* bridge -> port -> destination of the tunnel or None
    sent,      \* history: number of datagrams sent
    routed,    \* history: the way of each datagram, and the router's answer
    delivered, \* history: datagrams that left for a destination
    seen       \* history: answers a game received

captureVars == <<flows, flowIdle, hand>>
listenVars == <<queue, handling, sessions>>
historyVars == <<sent, routed, delivered, seen>>
vars == <<routerVars, seeded, bound, captureVars, listenVars, historyVars>>

Init ==
    /\ RouterInit
    /\ seeded = 0
    /\ bound = {}
    /\ flows = [p \in Ports |-> None]
    /\ flowIdle = {}
    /\ hand = [c \in Callers |-> None]
    /\ queue = [b \in Bridges |-> <<>>]
    /\ handling = [b \in Bridges |-> None]
    /\ sessions = [b \in Bridges |-> [p \in Ports |-> None]]
    /\ sent = 0
    /\ routed = {}
    /\ delivered = {}
    /\ seen = {}

-----------------------------------------------------------------------------
(* Start-up: the capture runs already *)

\* Estimates are recorded in the router the caller made (--tui), or in the one
\* start_smart makes for itself, which no resolver reads.
Seed ==
    /\ seeded < NumBridges
    /\ seeded' = seeded + 1
    /\ IF SharedRouter THEN Record(seeded + 1, Seeds[seeded + 1]) ELSE UNCHANGED routerVars
    /\ UNCHANGED <<bound, captureVars, listenVars, historyVars>>

\* The listener's task has started and bound its socket.
Listen(b) ==
    /\ seeded = NumBridges
    /\ b \notin bound
    /\ bound' = bound \cup {b}
    /\ UNCHANGED <<routerVars, seeded, captureVars, listenVars, historyVars>>

-----------------------------------------------------------------------------
(* The capture thread *)

\* SmartResolver: an unknown region or one without an estimate counts as infinite.
DirectTo(d) ==
    IF RegionOf[IpOf[d]] = None \/ DirectRtt[RegionOf[IpOf[d]]] = None
    THEN Infinity
    ELSE DirectRtt[RegionOf[IpOf[d]]]

\* divert.recv returns a datagram of a game; process_packet asks the resolver.
Takes(c, p, d) ==
    /\ hand[c] = None
    /\ sent < MaxSends
    /\ sent' = sent + 1
    /\ hand' = [hand EXCEPT ![c] = [port |-> p, dest |-> d, answer |-> None]]
    /\ UNCHANGED <<routerVars, seeded, bound, flows, flowIdle, listenVars,
                   routed, delivered, seen>>

Asking(c) == hand[c] # None /\ hand[c].answer = None

\* resolve calls pick with the direct round trip of the datagram's destination.
Asks(c) ==
    /\ Asking(c)
    /\ \/ PickMisses(c, IpOf[hand[c].dest], DirectTo(hand[c].dest))
       \/ PickDecides(c)
       \/ PickWrites(c)
    /\ UNCHANGED <<seeded, bound, captureVars, listenVars, historyVars>>

\* pick returns.
Answered(c) ==
    /\ Asking(c)
    /\ PickCached(c, IpOf[hand[c].dest]) \/ PickLogs(c)
    /\ hand' = [hand EXCEPT ![c].answer = last']
    /\ UNCHANGED <<seeded, bound, flows, flowIdle, listenVars, historyVars>>

\* The datagram goes the way the answer says, and the loop is free for the next packet.
Leaves(c, route) ==
    /\ hand[c] # None /\ hand[c].answer # None
    /\ hand[c].answer.decision.route = route
    /\ hand' = [hand EXCEPT ![c] = None]
    /\ routed' = routed \cup {[port |-> hand[c].port, dest |-> hand[c].dest,
                             route |-> route, answer |-> hand[c].answer]}

\* Passthrough: the datagram takes its own way.
PassThrough(c) ==
    /\ Leaves(c, Direct)
    /\ delivered' = delivered \cup
        {[port |-> hand[c].port, via |-> Direct, meant |-> hand[c].dest, to |-> hand[c].dest]}
    /\ UNCHANGED <<routerVars, seeded, bound, flows, flowIdle, listenVars, sent, seen>>

\* Rewritten to the listener of bridge b, lost if nothing listens there yet.
Redirect(c, b) ==
    /\ Leaves(c, b)
    /\ LET p == hand[c].port
           d == hand[c].dest
       IN  /\ flows' = [flows EXCEPT ![p] = [orig |-> d, target |-> b]]
           /\ flowIdle' = flowIdle \ {p}
           /\ queue' = IF b \in bound
                       THEN [queue EXCEPT ![b] = Append(@, [port |-> p, meant |-> d])] ELSE queue
    /\ UNCHANGED <<routerVars, seeded, bound, handling, sessions, sent, delivered, seen>>

\* An answer of the tunnel of port p, sent on by the responder and captured: it
\* gets the destination of the flow entry of p for a source, and is passed on as
\* it is, from the listener, if there is no entry.
Inbound(c, b, p) ==
    /\ hand[c] = None
    /\ sessions[b][p] # None
    /\ seen' = seen \cup
        {[port |-> p, truly |-> sessions[b][p],
          looks |-> IF flows[p] = None THEN b ELSE flows[p].orig]}
    /\ flowIdle' = flowIdle \ {p}
    /\ UNCHANGED <<routerVars, seeded, bound, flows, hand, listenVars, sent, routed, delivered>>

\* flow_idle passes without a packet of the port in either direction.
FlowGoesIdle(p) ==
    /\ flows[p] # None
    /\ p \notin flowIdle
    /\ flowIdle' = flowIdle \cup {p}
    /\ UNCHANGED <<routerVars, seeded, bound, flows, hand, listenVars, historyVars>>

\* Variant: the entries go and their idle marks stay.
ReapFlows_KeepsMarks(c) ==
    /\ hand[c] = None
    /\ flowIdle # {}
    /\ flows' = [p \in Ports |-> IF p \in flowIdle THEN None ELSE flows[p]]
    /\ UNCHANGED <<routerVars, seeded, bound, flowIdle, hand, listenVars, historyVars>>

\* At the head of a turn of the loop.
ReapFlows(c) ==
    /\ hand[c] = None
    /\ flowIdle # {}
    /\ flows' = [p \in Ports |-> IF p \in flowIdle THEN None ELSE flows[p]]
    /\ flowIdle' = {}
    /\ UNCHANGED <<routerVars, seeded, bound, hand, listenVars, historyVars>>

-----------------------------------------------------------------------------
(* The listener of a bridge *)

\* flow_origin
FlowOrigin(p) == IF flows[p] = None THEN None ELSE flows[p].orig

\* Variant: the sessions of a listener are keyed by address alone, the same for all games.
SessionOf_AnyPort(b, p) ==
    IF \A q \in Ports : sessions[b][q] = None THEN None
    ELSE sessions[b][CHOOSE q \in Ports : sessions[b][q] # None]

\* The lookup by source port: the destination of the tunnel that is open for it.
SessionOf(b, p) == sessions[b][p]

\* Variant: the listener waits until there is an entry for the port.
Receive_Waits(b) ==
    /\ b \in bound
    /\ handling[b] = None
    /\ queue[b] # <<>>
    /\ LET x == Head(queue[b])
           open == SessionOf(b, x.port) # None
           dest == IF open THEN SessionOf(b, x.port) ELSE FlowOrigin(x.port)
       IN  /\ dest # None
           /\ handling' = [handling EXCEPT ![b] =
                 [port |-> x.port, meant |-> x.meant, dest |-> dest, open |-> open]]
    /\ queue' = [queue EXCEPT ![b] = Tail(@)]
    /\ UNCHANGED <<routerVars, seeded, bound, captureVars, sessions, historyVars>>

\* recv_from, the lookup by source port and flow_origin, with no await between
\* them; without a session and without an entry the datagram is dropped.
Receive(b) ==
    /\ b \in bound
    /\ handling[b] = None
    /\ queue[b] # <<>>
    /\ queue' = [queue EXCEPT ![b] = Tail(@)]
    /\ LET x == Head(queue[b])
           open == SessionOf(b, x.port) # None
           dest == IF open THEN SessionOf(b, x.port) ELSE FlowOrigin(x.port)
       IN  handling' = [handling EXCEPT ![b] =
               IF dest = None THEN None
               ELSE [port |-> x.port, meant |-> x.meant, dest |-> dest, open |-> open]]
    /\ UNCHANGED <<routerVars, seeded, bound, captureVars, sessions, historyVars>>

\* open_tunnel succeeds; the session is inserted and its responder spawned.
OpenTunnel(b) ==
    /\ handling[b] # None
    /\ ~handling[b].open
    /\ sessions' = [sessions EXCEPT ![b][handling[b].port] = handling[b].dest]
    /\ handling' = [handling EXCEPT ![b].open = TRUE]
    /\ UNCHANGED <<routerVars, seeded, bound, captureVars, queue, historyVars>>

OpenFails(b) ==
    /\ handling[b] # None
    /\ ~handling[b].open
    /\ handling' = [handling EXCEPT ![b] = None]
    /\ UNCHANGED <<routerVars, seeded, bound, captureVars, queue, sessions, historyVars>>

Forward(b) ==
    /\ handling[b] # None
    /\ handling[b].open
    /\ delivered' = delivered \cup
        {[port |-> handling[b].port, via |-> b, meant |-> handling[b].meant,
          to |-> handling[b].dest]}
    /\ handling' = [handling EXCEPT ![b] = None]
    /\ UNCHANGED <<routerVars, seeded, bound, captureVars, queue, sessions, sent, routed, seen>>

\* Too long for a frame, or the send failed.
ForwardFails(b) ==
    /\ handling[b] # None
    /\ handling[b].open
    /\ handling' = [handling EXCEPT ![b] = None]
    /\ UNCHANGED <<routerVars, seeded, bound, captureVars, queue, sessions, historyVars>>

Listener(b) ==
    Receive(b) \/ OpenTunnel(b) \/ OpenFails(b) \/ Forward(b) \/ ForwardFails(b)

Next ==
    \/ Seed
    \/ Tick /\ UNCHANGED <<seeded, bound, captureVars, listenVars, historyVars>>
    \/ \E c \in Callers :
        \/ \E p \in Ports :
            (\E d \in Dests : Takes(c, p, d)) \/ (\E b \in Bridges : Inbound(c, b, p))
        \/ Asks(c) \/ Answered(c) \/ PassThrough(c)
        \/ \E b \in Bridges : Redirect(c, b)
        \/ ReapFlows(c)
    \/ \E p \in Ports : FlowGoesIdle(p)
    \/ \E b \in Bridges : Listen(b) \/ Listener(b)

Spec == Init /\ [][Next]_vars

\* The listeners' tasks are scheduled and open_tunnel comes to an end (it sends
\* one datagram and waits for no answer).
FairSpec == Spec /\ \A b \in Bridges : WF_vars(Listener(b))

-----------------------------------------------------------------------------
(* Properties *)

Delivery == [port : Ports, via : Routes, meant : Dests, to : Dests]

TypeOK ==
    /\ seeded \in 0 .. NumBridges
    /\ bound \subseteq Bridges
    /\ flows \in [Ports -> [orig : Dests, target : Bridges] \cup {None}]
    /\ flowIdle \subseteq {p \in Ports : flows[p] # None}
    /\ hand \in [Callers -> [port : Ports, dest : Dests, answer : Answer \cup {None}] \cup {None}]
    /\ queue \in [Bridges -> Seq([port : Ports, meant : Dests])]
    /\ handling \in [Bridges -> [port : Ports, meant : Dests, dest : Dests, open : BOOLEAN]
                                \cup {None}]
    /\ sessions \in [Bridges -> [Ports -> Dests \cup {None}]]
    /\ sent \in 0 .. MaxSends
    /\ routed \subseteq [port : Ports, dest : Dests, route : Routes, answer : Answer]
    /\ delivered \subseteq Delivery
    /\ seen \subseteq [port : Ports, truly : Dests, looks : Dests \cup Bridges]

\* The destinations of the datagrams of port p that were rewritten to a listener.
Tunnelled(p) == {x.dest : x \in {y \in routed : y.port = p /\ y.route # Direct}}

\* A game whose tunnelled traffic has one destination is served exactly, whatever else
\* it sends that passes through and whatever the other games do: each datagram reaches
\* the destination it was meant for, and an answer looks like it came from the one it
\* did come from (or from the listener, once the entry is reaped), across routes that
\* change, entries that are overwritten or reaped, and tunnels opened or not.
ServedExactly ==
    \A p \in Ports : (\A d, e \in Tunnelled(p) : d = e) =>
        /\ \A x \in delivered : x.port = p => x.to = x.meant
        /\ \A x \in seen : x.port = p => x.looks \in {x.truly} \cup Bridges

\* Every datagram went the way that is right for its own destination: the router's
\* choice for this address and its direct round trip, by measurements in force
\* during the pick that decided, which was its own or one less than reroute_interval
\* ago; whatever other ports and destinations had cached, and whatever was measured,
\* or waited for, between the steps of the pick.
RoutesJustified ==
    \A x \in routed :
        /\ \E h \in held :
              /\ h.at \in x.answer.decision.asked .. x.answer.decision.at
              /\ x.route = Decide(IpOf[x.dest], DirectTo(x.dest), h.pings)
        /\ Current(x.answer)

\* Everything a listener was sent is taken off its socket.
QueuesDrain == \A b \in Bridges : queue[b] # <<>> ~> queue[b] = <<>>

\* smart.rs: without direct round trips "the router always picks a bridge", here
\* for addresses whose region the bridges publish, after start-up.
BridgeWithoutDirect ==
    [][/\ bound = Bridges
       /\ last' # last
       /\ last'.decision.direct = Infinity
       /\ RegionOf[last'.ip] # None
       => last'.decision.route # Direct]_vars
===============================================================================
