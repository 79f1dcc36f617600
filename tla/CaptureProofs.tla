----------------------------- MODULE CaptureProofs -----------------------------
(***************************************************************************)
(* For any configuration and any number of starts, stops and datagrams:    *)
(* loops do not pile up, the flag is not left behind without a failure,    *)
(* and the datagrams of a tunnel are not captured again.                   *)
(***************************************************************************)
EXTENDS Capture, FiniteSetTheorems, TLAPS

\* A datagram that was rewritten is on its way to a listener or to a bridge.
RewrittenGoes ==
    \A p \in packets :
        \/ p.rewritten = 0
        \/ /\ p.rewritten = 1
           /\ \/ \E i \in CaptureRules(setup) : p.to = setup.rules[i].listen
              \/ \E i \in DOMAIN setup.rules : p.to = setup.rules[i].bridge

IInv == TypeOK /\ LoopsUpToStops /\ CapturesUntilStopped /\ RewrittenGoes

-----------------------------------------------------------------------------

\* What is known of a configuration.
LEMMA SetupType ==
    ASSUME NEW s \in Setups
    PROVE  /\ s.smart \in BOOLEAN
           /\ CaptureRules(s) \subseteq DOMAIN s.rules
           /\ \A i \in DOMAIN s.rules :
                 s.rules[i].listen \in Address /\ s.rules[i].bridge \in Address
           /\ ~s.smart => \A i \in DOMAIN s.rules : Matching(s, s.rules[i].bridge) = {}
<1>1. s.rules \in Seq(Rule)
  BY CaptureAssumption
<1>2. \A i \in DOMAIN s.rules : s.rules[i] \in Rule
  BY <1>1
<1> QED
  BY <1>2, CaptureAssumption DEF Rule, CaptureRules

\* A redirection is by a rule that is captured by.
LEMMA ResolveCaptures ==
    ASSUME setup \in Setups, NEW a
    PROVE  Resolve(a) \subseteq {0} \cup CaptureRules(setup)
BY SetupType DEF Resolve, Matching, CaptureRules

\* No datagram to a listener or a bridge is redirected.
LEMMA NotRedirected ==
    ASSUME setup \in Setups, NEW a, Filtered(a), NEW j \in Resolve(a), j # 0
    PROVE  /\ \A i \in CaptureRules(setup) : a # setup.rules[i].listen
           /\ \A i \in DOMAIN setup.rules : a # setup.rules[i].bridge
<1>1. \A i \in CaptureRules(setup) : a # setup.rules[i].listen
  BY DEF Filtered, Excluded
<1>2. CASE setup.smart
  BY <1>1, <1>2 DEF Filtered, Excluded
<1>3. CASE ~setup.smart
  <2>1. Matching(setup, a) # {}
    BY <1>3 DEF Resolve
  <2>2. \A i \in DOMAIN setup.rules : Matching(setup, setup.rules[i].bridge) = {}
    BY <1>3, SetupType
  <2> QED
    BY <1>1, <2>1, <2>2
<1> QED
  BY <1>2, <1>3

\* Live loops are finitely many.
LEMMA LiveFinite ==
    IsFiniteSet(Live) /\ Cardinality(Live) \in Nat
<1>1. IsFiniteSet(Loops)
  BY CaptureAssumption, FS_Interval DEF Loops
<1>2. Live \in SUBSET Loops
  BY DEF Live
<1>3. IsFiniteSet(Live)
  BY <1>1, <1>2, FS_Subset
<1> QED
  BY <1>3, FS_CardinalityType

-----------------------------------------------------------------------------

LEMMA InitIInv == Init => IInv
<1> SUFFICES ASSUME Init PROVE IInv
  OBVIOUS
<1> USE DEF Init
<1>1. TypeOK
  <2>1. 0 \in 0 .. MaxStops /\ 0 \in 0 .. MaxSends
    BY CaptureAssumption
  <2>2. loop \in [Loops -> LoopStates]
    BY DEF LoopStates
  <2> QED
    BY <2>1, <2>2 DEF TypeOK
<1>2. Live = {}
  BY DEF Live
<1>3. LoopsUpToStops
  BY <1>2, FS_EmptySet DEF LoopsUpToStops
<1> QED
  BY <1>1, <1>3 DEF IInv, CapturesUntilStopped, RewrittenGoes

\* A thread that ends, or goes on, adds no live loop.
LEMMA ThreadMoves ==
    ASSUME TypeOK, NEW k \in Loops, NEW at \in LoopStates \ {"none"}, loop[k] \notin {"none", "ended"},
           loop' = [loop EXCEPT ![k] = at]
    PROVE  /\ loop' \in [Loops -> LoopStates]
           /\ Cardinality(Live') <= Cardinality(Live)
           /\ Cardinality(Live') \in Nat
           /\ at # "ended" => k \in Live'
<1>1. loop' \in [Loops -> LoopStates] /\ (at # "ended" => k \in Live')
  BY DEF TypeOK, Live
<1>2. Live' \in SUBSET Live
  BY DEF TypeOK, Live
<1>3. IsFiniteSet(Live') /\ Cardinality(Live') <= Cardinality(Live)
  BY <1>2, LiveFinite, FS_Subset
<1> QED
  BY <1>1, <1>3, FS_CardinalityType

LEMMA NextIInv == IInv /\ [Next]_vars => IInv'
<1> SUFFICES ASSUME IInv, [Next]_vars PROVE IInv'
  OBVIOUS
<1> USE DEF IInv
<1>c. Cardinality(Live) \in Nat /\ stops \in Nat
  BY LiveFinite, CaptureAssumption DEF TypeOK
<1>1. CASE UNCHANGED vars
  BY <1>1 DEF vars, TypeOK, LoopsUpToStops, CapturesUntilStopped, RewrittenGoes, Live
<1>2. CASE Stop
  <2>1. Live' = Live /\ running' = FALSE /\ stops' = stops + 1 /\ stops < MaxStops
        /\ UNCHANGED <<setup, loop, warm, failed, sent, packets>>
    BY <1>2 DEF Stop, Live
  <2>2. stops' \in 0 .. MaxStops
    BY <1>c, <2>1, CaptureAssumption
  <2>3. LoopsUpToStops'
    BY <1>c, <2>1 DEF LoopsUpToStops
  <2>4. TypeOK'
    BY <2>1, <2>2 DEF TypeOK
  <2> QED
    BY <2>1, <2>3, <2>4 DEF CapturesUntilStopped, RewrittenGoes
<1>3. CASE UptimePasses
  BY <1>3 DEF UptimePasses, TypeOK, LoopsUpToStops, CapturesUntilStopped, RewrittenGoes, Live
<1>4. ASSUME NEW k \in Loops, Start(k) PROVE IInv'
  <2>1. Live' = Live \cup {k} /\ k \notin Live
    BY <1>4 DEF Start, Live, TypeOK
  <2>2. Cardinality(Live') = Cardinality(Live) + 1
    BY <2>1, LiveFinite, FS_AddElement
  <2> QED
    BY <1>4, <1>c, <2>1, <2>2
    DEF Start, TypeOK, LoopStates, LoopsUpToStops, CapturesUntilStopped, RewrittenGoes
<1>5. ASSUME NEW k \in Loops, Spawn(k) \/ Opens(k) \/ ReceiveOther(k) PROVE IInv'
  <2>1. PICK at \in LoopStates \ {"none", "ended"} :
            loop[k] \notin {"none", "ended"} /\ loop' = [loop EXCEPT ![k] = at]
    BY <1>5 DEF Spawn, Opens, ReceiveOther, LoopStates
  <2>2. Cardinality(Live') <= Cardinality(Live) /\ Cardinality(Live') \in Nat /\ k \in Live'
        /\ loop' \in [Loops -> LoopStates]
    BY <2>1, ThreadMoves
  <2>3. UNCHANGED <<setup, running, warm, stops, failed, sent, packets>>
    BY <1>5 DEF Spawn, Opens, ReceiveOther
  <2> QED
    BY <1>c, <2>2, <2>3 DEF TypeOK, LoopsUpToStops, CapturesUntilStopped, RewrittenGoes
<1>6. ASSUME NEW k \in Loops, StartFails(k) \/ OpenFails(k) \/ ReapPanics(k) PROVE IInv'
  <2>1. loop[k] \notin {"none", "ended"} /\ loop' = [loop EXCEPT ![k] = "ended"]
    BY <1>6 DEF StartFails, OpenFails, ReapPanics
  <2>2. Cardinality(Live') <= Cardinality(Live) /\ Cardinality(Live') \in Nat
        /\ loop' \in [Loops -> LoopStates]
    BY <2>1, ThreadMoves DEF LoopStates
  <2>3. failed' = TRUE /\ UNCHANGED <<setup, running, warm, stops, sent, packets>>
    BY <1>6 DEF StartFails, OpenFails, ReapPanics
  <2> QED
    BY <1>c, <2>2, <2>3 DEF TypeOK, LoopsUpToStops, CapturesUntilStopped, RewrittenGoes
<1>7. ASSUME NEW k \in Loops, LoopTurn(k) PROVE IInv'
  <2>1. PICK at \in LoopStates \ {"none"} :
            loop[k] \notin {"none", "ended"} /\ loop' = [loop EXCEPT ![k] = at]
            /\ (running => at # "ended")
    <3> DEFINE at == IF running THEN "receiving" ELSE "ended"
    <3>1. at \in LoopStates \ {"none"} /\ (running => at # "ended")
      BY DEF LoopStates
    <3>2. loop[k] = "head" /\ loop' = [loop EXCEPT ![k] = at]
      BY <1>7 DEF LoopTurn
    <3> HIDE DEF at
    <3> QED
      BY <3>1, <3>2
  <2>2. Cardinality(Live') <= Cardinality(Live) /\ Cardinality(Live') \in Nat
        /\ loop' \in [Loops -> LoopStates] /\ (running => k \in Live')
    BY <2>1, ThreadMoves
  <2>3. UNCHANGED <<setup, running, warm, stops, failed, sent, packets>>
    BY <1>7 DEF LoopTurn
  <2>4. LoopsUpToStops'
    BY <1>c, <2>2, <2>3 DEF LoopsUpToStops
  <2>5. CapturesUntilStopped'
    BY <2>2, <2>3 DEF CapturesUntilStopped
  <2> QED
    BY <2>2, <2>3, <2>4, <2>5 DEF TypeOK, RewrittenGoes
<1>8. ASSUME NEW k \in Loops, NEW p \in packets, Divert(k, p) PROVE IInv'
  <2>1. loop[k] \notin {"none", "ended"} /\ loop' = [loop EXCEPT ![k] = "head"]
    BY <1>8 DEF Divert
  <2>2. Cardinality(Live') <= Cardinality(Live) /\ Cardinality(Live') \in Nat /\ k \in Live'
        /\ loop' \in [Loops -> LoopStates]
    BY <2>1, ThreadMoves DEF LoopStates
  <2>3. UNCHANGED <<setup, running, warm, stops, failed, sent>>
    BY <1>8 DEF Divert
  <2>4. PICK i \in Resolve(p.to) :
            packets' = (packets \ {p}) \cup
              (IF i = 0 THEN {}
               ELSE {[to |-> setup.rules[i].listen, rewritten |-> p.rewritten + 1]})
    BY <1>8 DEF Divert
  <2>5. setup \in Setups /\ packets \subseteq [to : Address, rewritten : Nat]
    BY DEF TypeOK
  <2>6. packets' \subseteq [to : Address, rewritten : Nat] /\ RewrittenGoes'
    <3>1. CASE i = 0
      BY <2>3, <2>4, <2>5, <3>1 DEF RewrittenGoes, CaptureRules
    <3>2. CASE i # 0
      <4>1. i \in CaptureRules(setup) /\ setup.rules[i].listen \in Address
        BY <2>5, <3>2, ResolveCaptures, SetupType
      <4>2. p.rewritten = 0
        <5>1. Filtered(p.to)
          BY <1>8 DEF Divert
        <5> QED
          BY <2>5, <3>2, <5>1, NotRedirected DEF RewrittenGoes
      <4> QED
        BY <2>3, <2>4, <2>5, <3>2, <4>1, <4>2 DEF RewrittenGoes, CaptureRules
    <3> QED
      BY <3>1, <3>2
  <2> QED
    BY <1>c, <2>2, <2>3, <2>6 DEF TypeOK, LoopsUpToStops, CapturesUntilStopped
<1>9. ASSUME NEW p \in packets, Arrive(p) PROVE IInv'
  <2>1. UNCHANGED <<setup, running, loop, warm, stops, failed, sent>>
        /\ packets' = (packets \ {p}) \cup
              {[p EXCEPT !.to = setup.rules[i].bridge] : i \in ListenersAt(p.to)}
    BY <1>9 DEF Arrive
  <2>2. packets' \subseteq [to : Address, rewritten : Nat]
    BY <2>1, SetupType DEF TypeOK, ListenersAt
  <2>3. \A i \in ListenersAt(p.to) :
            /\ i \in DOMAIN setup.rules
            /\ [p EXCEPT !.to = setup.rules[i].bridge].to = setup.rules[i].bridge
            /\ [p EXCEPT !.to = setup.rules[i].bridge].rewritten = p.rewritten
    BY DEF TypeOK, ListenersAt
  <2>4. RewrittenGoes'
    <3> SUFFICES ASSUME NEW q \in packets'
                 PROVE  \/ q.rewritten = 0
                        \/ /\ q.rewritten = 1
                           /\ \/ \E i \in CaptureRules(setup) : q.to = setup.rules[i].listen
                              \/ \E i \in DOMAIN setup.rules : q.to = setup.rules[i].bridge
      BY <2>1 DEF RewrittenGoes, CaptureRules
    <3>1. CASE q \in packets
      BY <3>1 DEF RewrittenGoes
    <3>2. ASSUME NEW i \in ListenersAt(p.to), q = [p EXCEPT !.to = setup.rules[i].bridge]
          PROVE  /\ i \in DOMAIN setup.rules /\ q.to = setup.rules[i].bridge
                 /\ q.rewritten \in {0, 1}
      BY <2>3, <3>2 DEF RewrittenGoes
    <3> QED
      BY <2>1, <3>1, <3>2
  <2> QED
    BY <2>1, <2>2, <2>4 DEF TypeOK, LoopsUpToStops, CapturesUntilStopped, Live
<1>10. ASSUME NEW a \in Address, GameSends(a) PROVE IInv'
  BY <1>10, CaptureAssumption
  DEF GameSends, TypeOK, LoopsUpToStops, CapturesUntilStopped, RewrittenGoes, Live, CaptureRules
<1>11. CASE StartAgain
  BY <1>1, <1>11 DEF StartAgain
<1>12. ASSUME NEW k \in Loops, LoopStep(k) PROVE IInv'
  BY <1>5, <1>6, <1>7, <1>8, <1>12 DEF LoopStep
<1> QED
  BY <1>1, <1>2, <1>3, <1>4, <1>5, <1>6, <1>9, <1>10, <1>11, <1>12 DEF Next

\* Every reachable state of start, stop and the capture loops satisfies the
\* strengthened invariant.
THEOREM CaptureInvariant == Spec => []IInv
BY InitIInv, NextIInv, PTL DEF Spec

-----------------------------------------------------------------------------

\* Every variable keeps its type, over any starts, stops and failures.
THEOREM TypesHold == Spec => []TypeOK
BY CaptureInvariant, PTL DEF IInv

\* Starts that overlap leave one loop; each stop allows one more.
THEOREM LoopsUpToStopsHolds == Spec => []LoopsUpToStops
BY CaptureInvariant, PTL DEF IInv

\* A set flag without a failure means that a loop runs or is about to.
THEOREM CapturesUntilStoppedHolds == Spec => []CapturesUntilStopped
BY CaptureInvariant, PTL DEF IInv

\* What a tunnel sends passes the filter, or the resolver, as it is.
THEOREM NoCaptureLoopHolds == Spec => []NoCaptureLoop
<1>1. IInv => NoCaptureLoop
  BY DEF IInv, RewrittenGoes, NoCaptureLoop
<1> QED
  BY <1>1, CaptureInvariant, PTL
===============================================================================
