-------------------------------- MODULE Capture --------------------------------
(***************************************************************************)
(* The life of the packet capture (gr-capture windivert_backend.rs): start *)
(* and stop, called by any thread, the capture loops they leave behind,    *)
(* and the way of an outbound datagram through the filter, the resolver    *)
(* and a rule's listener, whose tunnel sends a datagram of its own.        *)
(*                                                                         *)
(* What a loop does to the flow table is in SmartPath.  WinDivert is taken *)
(* as its interface says: while a handle is open, outbound datagrams that  *)
(* match its filter go to the loop, and those it sends on do not return.   *)
(***************************************************************************)
EXTENDS Naturals, FiniteSets, Sequences

CONSTANTS
    Ips, Ports,
    Setups,   \* configurations: [smart |-> BOOLEAN, rules |-> a sequence of rules]
    MaxLoops, \* bound: calls of start that get past the flag
    MaxStops, \* bound: calls of stop
    MaxSends, \* bound: datagrams games send
    None

Loops == 1 .. MaxLoops
Address == [ip : Ips, port : Ports]

Rule == [protocol : {"tcp", "udp", "other"}, capture : BOOLEAN, dest : Address,
         capture_dst_ip : Ips \cup {None}, lo : Ports \cup {None}, hi : Ports \cup {None},
         listen : Address, bridge : Address]

VARIABLES
    setup,   \* the configuration
    running, \* the flag start and stop share with the loops
    loop,    \* the thread of each start that got past the flag
    warm,    \* the machine has been up for longer than flow_idle
    stops,   \* history: calls of stop
    failed,  \* history: a start, an opening of the driver or a loop failed
    sent,    \* history: number of datagrams games sent
    packets  \* outbound datagrams: where to, rewritten how often

vars == <<setup, running, loop, warm, stops, failed, sent, packets>>

-----------------------------------------------------------------------------
(* install_capture, FixedResolver and build_filter *)

\* The capture rule made of a rule; the upper port defaults to the lower one.
Covers(r, a) ==
    LET ip == IF r.capture_dst_ip = None THEN r.dest.ip ELSE r.capture_dst_ip
        lo == IF r.lo = None THEN r.dest.port ELSE r.lo
        hi == IF r.hi = None THEN lo ELSE r.hi
    IN  a.ip = ip /\ lo <= a.port /\ a.port <= hi

\* In smart mode every bridge has a listener; otherwise the rules that say so.
CaptureRules(s) ==
    {i \in DOMAIN s.rules :
        s.smart \/ (s.rules[i].capture /\ s.rules[i].protocol \in {"tcp", "udp"})}

\* The filter: any datagram but those to an address of a listener, or (smart mode
\* only) of a bridge, whatever the port.
Excluded(s) ==
    {s.rules[i].listen.ip : i \in CaptureRules(s)}
        \cup (IF s.smart THEN {s.rules[i].bridge.ip : i \in DOMAIN s.rules} ELSE {})

\* Variant: bridges are captured like any other address.
Filtered_Bridges(a) == a.ip \notin {setup.rules[i].listen.ip : i \in CaptureRules(setup)}

Filtered(a) == a.ip \notin Excluded(setup)

Matching(s, a) ==
    {i \in CaptureRules(s) : s.rules[i].protocol = "udp" /\ Covers(s.rules[i], a)}

\* The rules a datagram may be redirected by, 0 for none: the first that matches;
\* in smart mode the router decides.
Resolve(a) ==
    IF setup.smart THEN {0} \cup DOMAIN setup.rules
    ELSE IF Matching(setup, a) = {} THEN {0}
    ELSE {i \in Matching(setup, a) : \A j \in Matching(setup, a) : i <= j}

\* No rule captures the datagrams of a tunnel: nothing in the fixed mode excludes them.
ASSUME CaptureAssumption ==
    /\ MaxLoops \in Nat /\ MaxStops \in Nat /\ MaxSends \in Nat
    /\ Ports \subseteq Nat
    /\ None \notin Ips \cup Ports
    /\ \A s \in Setups :
          /\ s.smart \in BOOLEAN
          /\ s.rules \in Seq(Rule)
          /\ CaptureRules(s) # {}
          /\ ~s.smart => \A j \in DOMAIN s.rules : Matching(s, s.rules[j].bridge) = {}

-----------------------------------------------------------------------------
(* start and stop *)

Init ==
    /\ setup \in Setups
    /\ running = FALSE
    /\ loop = [k \in Loops |-> "none"]
    /\ warm \in BOOLEAN
    /\ stops = 0
    /\ failed = FALSE
    /\ sent = 0
    /\ packets = {}

\* Variant: the flag was tested earlier, and another start may have set it since.
Start_TestThenSet(k) ==
    /\ loop[k] = "none"
    /\ running' = TRUE
    /\ loop' = [loop EXCEPT ![k] = "starting"]
    /\ UNCHANGED <<setup, warm, stops, failed, sent, packets>>

\* The swap finds the capture stopped: this call builds the filter.
Start(k) ==
    /\ ~running
    /\ loop[k] = "none"
    /\ running' = TRUE
    /\ loop' = [loop EXCEPT ![k] = "starting"]
    /\ UNCHANGED <<setup, warm, stops, failed, sent, packets>>

\* The swap finds it running: Ok, whatever became of the loop.
StartAgain ==
    /\ running
    /\ UNCHANGED vars

Spawn(k) ==
    /\ loop[k] = "starting"
    /\ loop' = [loop EXCEPT ![k] = "opening"]
    /\ UNCHANGED <<setup, running, warm, stops, failed, sent, packets>>

\* No filter or no thread; the flag stays set.
StartFails(k) ==
    /\ loop[k] = "starting"
    /\ loop' = [loop EXCEPT ![k] = "ended"]
    /\ failed' = TRUE
    /\ UNCHANGED <<setup, running, warm, stops, sent, packets>>

Stop ==
    /\ stops < MaxStops
    /\ running' = FALSE
    /\ stops' = stops + 1
    /\ UNCHANGED <<setup, loop, warm, failed, sent, packets>>

-----------------------------------------------------------------------------
(* run_capture_loop *)

Opens(k) ==
    /\ loop[k] = "opening"
    /\ loop' = [loop EXCEPT ![k] = "head"]
    /\ UNCHANGED <<setup, running, warm, stops, failed, sent, packets>>

\* The error is logged; the flag stays set.
OpenFails(k) ==
    /\ loop[k] = "opening"
    /\ loop' = [loop EXCEPT ![k] = "ended"]
    /\ failed' = TRUE
    /\ UNCHANGED <<setup, running, warm, stops, sent, packets>>

\* Variant: the flag is looked at by the first turn only.
LoopTurn_NoLook(k) ==
    /\ loop[k] = "head"
    /\ loop' = [loop EXCEPT ![k] = "receiving"]
    /\ UNCHANGED <<setup, running, warm, stops, failed, sent, packets>>

\* The head of the loop, with a reaping that works if it is due.
LoopTurn(k) ==
    /\ loop[k] = "head"
    /\ loop' = [loop EXCEPT ![k] = IF running THEN "receiving" ELSE "ended"]
    /\ UNCHANGED <<setup, running, warm, stops, failed, sent, packets>>

\* reap_flows subtracts flow_idle from a clock that started with the machine: the
\* thread panics, and the flag stays set.
ReapPanics(k) ==
    /\ loop[k] = "head"
    /\ running
    /\ ~warm
    /\ loop' = [loop EXCEPT ![k] = "ended"]
    /\ failed' = TRUE
    /\ UNCHANGED <<setup, running, warm, stops, sent, packets>>

\* Variant: a receive error ends the loop.
ReceiveOther_Breaks(k) ==
    /\ loop[k] = "receiving"
    /\ loop' = [loop EXCEPT ![k] = "ended"]
    /\ UNCHANGED <<setup, running, warm, stops, failed, sent, packets>>

\* A receive error, an answer, or a datagram of no interest: back to the head.
ReceiveOther(k) ==
    /\ loop[k] = "receiving"
    /\ loop' = [loop EXCEPT ![k] = "head"]
    /\ UNCHANGED <<setup, running, warm, stops, failed, sent, packets>>

\* Variant: the listener's port is taken for the captured one.
Divert_RulePort(k, p) ==
    /\ loop[k] = "receiving"
    /\ Filtered(p.to)
    /\ \E i \in Resolve(p.to) :
          packets' = (packets \ {p}) \cup
            (IF i = 0 THEN {}
             ELSE {[to |-> [setup.rules[i].listen EXCEPT !.port = setup.rules[i].lo],
                    rewritten |-> p.rewritten + 1]})
    /\ loop' = [loop EXCEPT ![k] = "head"]
    /\ UNCHANGED <<setup, running, warm, stops, failed, sent>>

\* A datagram the resolver is asked about: sent on as it is, or to a listener.
Divert(k, p) ==
    /\ loop[k] = "receiving"
    /\ Filtered(p.to)
    /\ \E i \in Resolve(p.to) :
          packets' = (packets \ {p}) \cup
            (IF i = 0 THEN {}
             ELSE {[to |-> setup.rules[i].listen, rewritten |-> p.rewritten + 1]})
    /\ loop' = [loop EXCEPT ![k] = "head"]
    /\ UNCHANGED <<setup, running, warm, stops, failed, sent>>

HandleOpen == \E k \in Loops : loop[k] \in {"head", "receiving"}

\* The UDP rules whose listener has this address (smart mode: one per bridge).
ListenersAt(a) ==
    {i \in DOMAIN setup.rules :
        setup.rules[i].protocol = "udp" /\ setup.rules[i].listen = a}

\* A datagram nobody diverts: a rule's listener tunnels it to the bridge, any
\* other address is its destination.
Arrive(p) ==
    /\ ~HandleOpen \/ ~Filtered(p.to)
    /\ packets' = (packets \ {p}) \cup
          {[p EXCEPT !.to = setup.rules[i].bridge] : i \in ListenersAt(p.to)}
    /\ UNCHANGED <<setup, running, loop, warm, stops, failed, sent>>

-----------------------------------------------------------------------------
(* The environment *)

GameSends(a) ==
    /\ sent < MaxSends
    /\ sent' = sent + 1
    /\ packets' = packets \cup {[to |-> a, rewritten |-> 0]}
    /\ UNCHANGED <<setup, running, loop, warm, stops, failed>>

UptimePasses ==
    /\ ~warm
    /\ warm' = TRUE
    /\ UNCHANGED <<setup, running, loop, stops, failed, sent, packets>>

LoopStep(k) ==
    \/ Opens(k) \/ OpenFails(k)
    \/ LoopTurn(k) \/ ReapPanics(k)
    \/ ReceiveOther(k) \/ \E p \in packets : Divert(k, p)

Next ==
    \/ StartAgain \/ Stop \/ UptimePasses
    \/ \E k \in Loops : Start(k) \/ Spawn(k) \/ StartFails(k) \/ LoopStep(k)
    \/ \E p \in packets : Arrive(p)
    \/ \E a \in Address : GameSends(a)

Spec == Init /\ [][Next]_vars

\* Threads are scheduled, a call of start returns, and the machine goes on sending
\* and receiving datagrams, so that a loop that waits for one gets it.
FairSpec ==
    /\ Spec
    /\ \A k \in Loops : WF_vars(Spawn(k) \/ StartFails(k)) /\ WF_vars(LoopStep(k))

-----------------------------------------------------------------------------
(* Properties *)

LoopStates == {"none", "starting", "opening", "head", "receiving", "ended"}

TypeOK ==
    /\ setup \in Setups
    /\ running \in BOOLEAN
    /\ loop \in [Loops -> LoopStates]
    /\ warm \in BOOLEAN
    /\ stops \in 0 .. MaxStops
    /\ failed \in BOOLEAN
    /\ sent \in 0 .. MaxSends
    /\ packets \subseteq [to : Address, rewritten : Nat]

Live == {k \in Loops : loop[k] \notin {"none", "ended"}}

\* Concurrent calls of start leave one loop; only a stop, followed by a start before
\* the old loop has looked at the flag again, adds one.
LoopsUpToStops == Cardinality(Live) <= stops + (IF running THEN 1 ELSE 0)

\* As long as the flag is set somebody captures, or is about to, unless a failure
\* was logged: the flag that makes start a no-op is not left behind by a loop that
\* ended in peace.
CapturesUntilStopped == running /\ ~failed => Live # {}

\* What a tunnel sends to its bridge is not captured and tunnelled again.
NoCaptureLoop == \A p \in packets : p.rewritten <= 1

\* After a stop every loop comes to an end, unless the capture is started again.
StopEnds == ~running ~> (running \/ Live = {})
===============================================================================
