-------------------------------- MODULE Tunnel --------------------------------
(***************************************************************************)
(* End to end: local programs, a UDP rule of the client, the network and a *)
(* bridge.  The bridge is what it promises to be, RelayService, which      *)
(* Bridge implements; the network loses, duplicates and reorders frames in *)
(* both directions (a frame sent stays available, and need not be taken).  *)
(***************************************************************************)
EXTENDS ClientUdp, Sequences

CONSTANTS
    MaxRelays,     \* bound: connections the bridge opens
    MaxForwarded,  \* bound: frames forwarded on one connection
    MaxAnswers     \* bound: answers of one destination

Relays == 1 .. MaxRelays

ASSUME TunnelAssumption ==
    /\ MaxRelays \in Nat
    /\ None \notin Relays
    /\ None \notin SynFrame

VARIABLES opened, forwarded, answers, returned

Bridge == INSTANCE RelayService WITH Admitted <- SynFrame, DataFrames <- DataFrame

bridgeVars == <<opened, forwarded, answers, returned>>
vars == <<clientVars, bridgeVars>>

Init == ClientInit /\ Bridge!Init

ClientStep == ClientNext /\ UNCHANGED bridgeVars

\* A frame of the bridge reaches the tunnel's socket.
Answered(t) ==
    /\ \E w \in returned : Respond(t, w)
    /\ UNCHANGED bridgeVars

BridgeOpens(r) ==
    /\ \A q \in 1 .. r - 1 : opened[q] # None
    /\ \E f \in upWire : f.kind = "syn" /\ Bridge!OpenRelay(r, f)
    /\ UNCHANGED clientVars

BridgeForwards(r) ==
    /\ Len(forwarded[r]) < MaxForwarded
    /\ \E f \in upWire : f.kind = "data" /\ Bridge!Forward(r, f)
    /\ UNCHANGED clientVars

DestAnswers(r) ==
    /\ answers[r] < MaxAnswers
    /\ Bridge!Answer(r)
    /\ UNCHANGED clientVars

\* The number an answer leaves under is the carrier's next one.
BridgeReturns(r, v) ==
    /\ opened[r] # None
    /\ opened[v] # None
    /\ \E n \in 1 .. answers[r] :
          returned' = returned \cup
            {[skey |-> opened[v].skey, aead |-> opened[v].aead, from |-> r, n |-> n, via |-> v,
              seq |-> Cardinality({x \in returned : x.via = v}) + 1]}
    /\ Bridge!Return(r, v)
    /\ UNCHANGED clientVars

Next ==
    \/ ClientStep
    \/ \E t \in Tunnels : Answered(t)
    \/ \E r \in Relays :
          \/ BridgeOpens(r) \/ BridgeForwards(r) \/ DestAnswers(r)
          \/ \E v \in Relays : BridgeReturns(r, v)

Spec == Init /\ [][Next]_vars

\* The client's own tasks are scheduled; its local programs, the network, the
\* bridge and the clock owe nothing.
FairSpec ==
    /\ Spec
    /\ WF_vars(Listener /\ UNCHANGED bridgeVars)
    /\ WF_vars(Reaper /\ UNCHANGED bridgeVars)

-----------------------------------------------------------------------------
(* Properties *)

TypeOK ==
    /\ spoken \in [Locals -> 0 .. MaxSpoken]
    /\ loop \in [src : Locals, n : Nat, tun : Tunnels \cup {None}] \cup {None}
    /\ table \in [Locals -> Tunnels \cup {None}]
    /\ owner \in [Tunnels -> Locals \cup {None}]
    /\ seq \in [Tunnels -> Nat]
    /\ idle \in [Tunnels -> BOOLEAN]
    /\ responder \in [Tunnels -> {"none", "running", "ended"}]
    /\ warm \in BOOLEAN /\ reaping \in BOOLEAN
    /\ reaper \subseteq Locals
    /\ upWire \subseteq SynFrame \cup DataFrame
    /\ sealed \subseteq [tun : Tunnels, seq : Nat, src : Locals, n : Nat]
    /\ \A d \in delivered : d.to \in Locals /\ d.by \in Tunnels /\ d.frame \in returned
    /\ opened \in [Relays -> SynFrame \cup {None}]
    /\ forwarded \in [Relays -> Seq(DataFrame)]
    /\ answers \in [Relays -> Nat]

\* The datagrams a data frame of the wire may carry.
Carried(f) == {d \in sealed : d.tun = f.skey /\ d.seq = f.seq}

\* Upstream: what a destination connection is given are datagrams that one and
\* the same local source sent, the one whose datagram opened the tunnel, across
\* reaping, tunnels opened again and connections opened twice.
UpIntegrity ==
    \A r \in Relays : \A i \in DOMAIN forwarded[r] :
        \E d \in Carried(forwarded[r][i]) :
            /\ d.src = owner[opened[r].skey]
            /\ d.n \in 1 .. spoken[d.src]

\* Upstream: a (tunnel, number) names one datagram, so the bridge can tell two
\* datagrams apart however frames are duplicated or reordered.
FramesDistinct ==
    \A d, e \in sealed : d.tun = e.tun /\ d.seq = e.seq => d = e

\* Downstream: a local source is handed only answers of destinations that were
\* opened on its own behalf, even through a session that was reaped meanwhile.
DownIntegrity ==
    \A d \in delivered :
        /\ opened[d.frame.from] # None
        /\ owner[opened[d.frame.from].skey] = d.to
        /\ d.frame.n \in 1 .. answers[d.frame.from]

\* All of it at once: to local sources and destinations, the client, the network and
\* the bridge are the service EndToEnd.  The one end of a connection is the source
\* that opened its tunnel, and messages are the datagrams that frames carry.  There is
\* no promise about the order of answers.
Party(r) == IF opened[r] = None THEN None ELSE owner[opened[r].skey]

Message(f) == LET d == CHOOSE d \in Carried(f) : TRUE IN [by |-> d.src, n |-> d.n]

Given(r) == [i \in 1 .. Len(forwarded[r]) |-> Message(forwarded[r][i])]

Handed == {[to |-> d.to, from |-> d.frame.from, n |-> d.frame.n] : d \in delivered}

Service == INSTANCE EndToEnd WITH
    Clients <- Locals,
    said <- spoken,
    party <- [r \in Relays |-> Party(r)],
    given <- [r \in Relays |-> Given(r)],
    heard <- Handed,
    ordered <- FALSE

ServiceSpec == Service!Spec

\* A session without traffic leaves the table (or sees traffic again), unless the
\* reaper ended at a tick it had before the machine was up for udp_idle_secs: only then
\* can it end, and then for good.
IdleReaped ==
    \A t \in Tunnels : (InTable(t) /\ idle[t] /\ reaping) ~> ~(InTable(t) /\ idle[t])
===============================================================================
