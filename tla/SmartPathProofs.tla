---------------------------- MODULE SmartPathProofs ----------------------------
(***************************************************************************)
(* For any games, destinations, bridges and capture loops: a port with one *)
(* tunnelled destination is served exactly, whatever the router answers;   *)
(* and every datagram goes the way that is right for its own address, by   *)
(* measurements that are not older than the interval.                      *)
(***************************************************************************)
EXTENDS SmartPath, RouterProofs

\* A flow entry, a tunnel, a datagram in a listener's socket and the one it is working
\* on are of destinations to which datagrams of their port were rewritten.
FlowsOwn == \A p \in Ports : flows[p] # None => flows[p].orig \in Tunnelled(p)

SessionsOwn ==
    \A b \in Bridges, p \in Ports : sessions[b][p] # None => sessions[b][p] \in Tunnelled(p)

QueueOwn ==
    \A b \in Bridges : \A i \in 1 .. Len(queue[b]) :
        queue[b][i].meant \in Tunnelled(queue[b][i].port)

HandlingOwn ==
    \A b \in Bridges : handling[b] # None =>
        {handling[b].dest, handling[b].meant} \subseteq Tunnelled(handling[b].port)

\* So is what was delivered, unless it was passed through, and what answers look like.
DeliveredOwn ==
    \A x \in delivered : x.to = x.meant \/ {x.to, x.meant} \subseteq Tunnelled(x.port)

SeenOwn ==
    \A x \in seen : x.truly \in Tunnelled(x.port) /\ x.looks \in Tunnelled(x.port) \cup Bridges

PathInv ==
    /\ TypeOK
    /\ FlowsOwn /\ SessionsOwn /\ QueueOwn /\ HandlingOwn
    /\ DeliveredOwn /\ SeenOwn

Way == [port : Ports, dest : Dests, route : Routes, answer : Answer]

LEMMA TunnelledOf ==
    \A p, d : d \in Tunnelled(p) <=>
                 \E x \in routed : x.port = p /\ x.route # Direct /\ x.dest = d
BY DEF Tunnelled

LEMMA TunnelledGrows ==
    ASSUME routed \subseteq routed'
    PROVE  \A p : Tunnelled(p) \subseteq Tunnelled(p)'
BY DEF Tunnelled

LEMMA InitPathInv == Init => PathInv
<1> SUFFICES ASSUME Init PROVE PathInv  OBVIOUS
<1> USE DEF Init
<1>1. TypeOK
  BY SmartAssumption, RouterAssumption DEF TypeOK
<1>2. FlowsOwn /\ SessionsOwn /\ HandlingOwn /\ DeliveredOwn /\ SeenOwn
  BY SmartAssumption DEF FlowsOwn, SessionsOwn, HandlingOwn, DeliveredOwn, SeenOwn
<1>3. QueueOwn
  BY DEF QueueOwn
<1> QED  BY <1>1, <1>2, <1>3 DEF PathInv

\* Nothing on the datagrams' way changes but the datagram in hand and the history of
\* those that left.
LEMMA WayKeeps ==
    ASSUME PathInv, routed \subseteq routed',
           UNCHANGED <<flows, queue, handling, sessions, delivered, seen>>
    PROVE  FlowsOwn' /\ SessionsOwn' /\ QueueOwn' /\ HandlingOwn' /\ DeliveredOwn' /\ SeenOwn'
<1> USE TunnelledGrows DEF PathInv
<1>1. FlowsOwn'  BY DEF FlowsOwn
<1>2. SessionsOwn'  BY DEF SessionsOwn
<1>3. QueueOwn'  BY DEF QueueOwn
<1>4. HandlingOwn'  BY DEF HandlingOwn
<1>5. DeliveredOwn'  BY DEF DeliveredOwn
<1>6. SeenOwn'  BY DEF SeenOwn
<1> QED  BY <1>1, <1>2, <1>3, <1>4, <1>5, <1>6

LEMMA StartStep ==
    ASSUME PathInv, seeded' \in 0 .. NumBridges, bound' \subseteq Bridges,
           UNCHANGED <<captureVars, listenVars, historyVars>>
    PROVE  PathInv'
<1> USE DEF captureVars, listenVars, historyVars
<1>1. TypeOK'
  BY DEF PathInv, TypeOK
<1> QED  BY <1>1, WayKeeps DEF PathInv

LEMMA TakesStep ==
    ASSUME PathInv, NEW c \in Callers, NEW p \in Ports, NEW d \in Dests, Takes(c, p, d)
    PROVE  PathInv'
<1> USE DEF Takes, listenVars
<1>1. TypeOK'
  <2>1. hand' \in [Callers -> [port : Ports, dest : Dests, answer : Answer \cup {None}] \cup {None}]
    BY DEF PathInv, TypeOK
  <2>2. sent' \in 0 .. MaxSends
    BY SmartAssumption DEF PathInv, TypeOK
  <2> QED  BY <2>1, <2>2 DEF PathInv, TypeOK
<1> QED  BY <1>1, WayKeeps DEF PathInv

LEMMA AnsweredStep ==
    ASSUME PathInv, RouterTypeOK, NEW c \in Callers, Answered(c)
    PROVE  PathInv'
<1> USE DEF Answered, listenVars, historyVars
<1>1. last' \in Answer
  <2>1. IpOf[hand[c].dest] \in Ips
    BY SmartAssumption DEF Asking, PathInv, TypeOK
  <2> QED  BY <2>1, AnswerGiven
<1>2. TypeOK'
  <2>1. hand' \in [Callers -> [port : Ports, dest : Dests, answer : Answer \cup {None}] \cup {None}]
    <3> DEFINE new == [hand[c] EXCEPT !.answer = last']
    <3>1. hand[c] \in [port : Ports, dest : Dests, answer : Answer \cup {None}]
      BY DEF Asking, PathInv, TypeOK
    <3>2. new \in [port : Ports, dest : Dests, answer : Answer \cup {None}]
      BY <1>1, <3>1
    <3>3. hand' = [hand EXCEPT ![c] = new]
      OBVIOUS
    <3> HIDE DEF new
    <3> QED  BY <3>2, <3>3 DEF PathInv, TypeOK
  <2> QED  BY <2>1 DEF PathInv, TypeOK
<1> QED  BY <1>2, WayKeeps DEF PathInv

\* A datagram leaves: its way is recorded, and the loop is free.
LEMMA LeavesKeeps ==
    ASSUME PathInv, NEW c \in Callers, NEW route \in Routes, Leaves(c, route)
    PROVE  /\ hand' \in [Callers -> [port : Ports, dest : Dests, answer : Answer \cup {None}] \cup {None}]
           /\ routed' \subseteq Way /\ routed \subseteq routed'
           /\ \E p \in Ports, d \in Dests :
                 /\ p = hand[c].port /\ d = hand[c].dest
                 /\ route # Direct => d \in Tunnelled(p)'
<1> USE DEF Leaves
<1>1. hand[c] \in [port : Ports, dest : Dests, answer : Answer]
  BY DEF PathInv, TypeOK
<1>2. hand' \in [Callers -> [port : Ports, dest : Dests, answer : Answer \cup {None}] \cup {None}]
  BY DEF PathInv, TypeOK
<1>3. PICK p \in Ports, d \in Dests : p = hand[c].port /\ d = hand[c].dest
  BY <1>1
<1>4. PICK x : x = [port |-> p, dest |-> d, route |-> route, answer |-> hand[c].answer]
  OBVIOUS
<1>5. x \in Way /\ x.port = p /\ x.dest = d /\ x.route = route /\ routed' = routed \cup {x}
  BY <1>1, <1>3, <1>4 DEF Way
<1>6. routed' \subseteq Way /\ routed \subseteq routed'
  BY <1>5 DEF PathInv, TypeOK, Way
<1>7. route # Direct => d \in Tunnelled(p)'
  BY <1>5 DEF Tunnelled
<1> QED  BY <1>2, <1>3, <1>6, <1>7

LEMMA PassThroughStep ==
    ASSUME PathInv, NEW c \in Callers, PassThrough(c)
    PROVE  PathInv'
<1> USE DEF PassThrough, listenVars
<1>1. /\ hand' \in [Callers -> [port : Ports, dest : Dests, answer : Answer \cup {None}] \cup {None}]
      /\ routed' \subseteq Way /\ routed \subseteq routed'
  BY LeavesKeeps DEF Routes
<1>2. PICK new : /\ new \in Delivery /\ new.to = new.meant
                /\ delivered' = delivered \cup {new}
  BY DEF Leaves, PathInv, TypeOK, Delivery, Routes
<1>3. TypeOK'
  BY <1>1, <1>2 DEF PathInv, TypeOK, Way
<1>4. FlowsOwn' /\ SessionsOwn' /\ QueueOwn' /\ HandlingOwn' /\ SeenOwn'
  <2> USE <1>1, TunnelledGrows DEF PathInv
  <2>1. FlowsOwn'  BY DEF FlowsOwn
  <2>2. SessionsOwn'  BY DEF SessionsOwn
  <2>3. QueueOwn'  BY DEF QueueOwn
  <2>4. HandlingOwn'  BY DEF HandlingOwn
  <2>5. SeenOwn'  BY DEF SeenOwn
  <2> QED  BY <2>1, <2>2, <2>3, <2>4, <2>5
<1>5. DeliveredOwn'
  BY <1>1, <1>2, TunnelledGrows DEF PathInv, DeliveredOwn
<1> QED  BY <1>3, <1>4, <1>5 DEF PathInv

LEMMA RedirectStep ==
    ASSUME PathInv, NEW c \in Callers, NEW b \in Bridges, Redirect(c, b)
    PROVE  PathInv'
<1> USE DEF Redirect
<1>1. /\ hand' \in [Callers -> [port : Ports, dest : Dests, answer : Answer \cup {None}] \cup {None}]
      /\ routed' \subseteq Way /\ routed \subseteq routed'
  BY LeavesKeeps DEF Routes
<1>2. PICK p \in Ports, d \in Dests : /\ p = hand[c].port /\ d = hand[c].dest
                                    /\ d \in Tunnelled(p)'
  BY LeavesKeeps, RouterAssumption DEF Routes
<1>3. PICK entry, x : entry = [orig |-> d, target |-> b] /\ x = [port |-> p, meant |-> d]
  OBVIOUS
<1>4. /\ entry \in [orig : Dests, target : Bridges] /\ entry.orig = d
      /\ x \in [port : Ports, meant : Dests] /\ x.port = p /\ x.meant = d
      /\ flows' = [flows EXCEPT ![p] = entry]
      /\ flowIdle' = flowIdle \ {p}
      /\ queue' = [queue EXCEPT ![b] = Append(@, x)] \/ queue' = queue
  BY <1>2, <1>3
<1>5. \A q \in Ports : flows'[q] = IF q = p THEN entry ELSE flows[q]
  BY <1>4 DEF PathInv, TypeOK
<1>6. /\ Append(queue[b], x) \in Seq([port : Ports, meant : Dests])
      /\ Len(Append(queue[b], x)) = Len(queue[b]) + 1
      /\ Len(queue[b]) \in Nat
      /\ \A k \in 1 .. Len(queue[b]) + 1 :
            Append(queue[b], x)[k] = IF k = Len(queue[b]) + 1 THEN x ELSE queue[b][k]
  <2>1. \A S : \A s \in Seq(S), e \in S :
           /\ Append(s, e) \in Seq(S) /\ Len(Append(s, e)) = Len(s) + 1 /\ Len(s) \in Nat
           /\ \A k \in 1 .. Len(s) + 1 : Append(s, e)[k] = IF k = Len(s) + 1 THEN e ELSE s[k]
    OBVIOUS
  <2>2. queue[b] \in Seq([port : Ports, meant : Dests])
    BY DEF PathInv, TypeOK
  <2> QED  BY <1>4, <2>1, <2>2
<1>7. TypeOK'
  <2>1. flows' \in [Ports -> [orig : Dests, target : Bridges] \cup {None}]
    <3>1. flows \in [Ports -> [orig : Dests, target : Bridges] \cup {None}]
      BY DEF PathInv, TypeOK
    <3> HIDE DEF Redirect
    <3> QED  BY <1>4, <3>1
  <2>2. flowIdle' \subseteq {q \in Ports : flows'[q] # None}
    <3>1. flowIdle \subseteq {q \in Ports : flows[q] # None}
      BY DEF PathInv, TypeOK
    <3> QED  BY <1>4, <1>5, <3>1
  <2>3. queue' \in [Bridges -> Seq([port : Ports, meant : Dests])]
    BY <1>4, <1>6 DEF PathInv, TypeOK
  <2> QED  BY <1>1, <2>1, <2>2, <2>3 DEF PathInv, TypeOK, Way
<1>8. FlowsOwn'
  BY <1>1, <1>2, <1>4, <1>5, TunnelledGrows DEF PathInv, FlowsOwn
<1>9. QueueOwn'
  <2> SUFFICES ASSUME NEW y \in Bridges, NEW i \in 1 .. Len(queue'[y]),
                      NEW q, q = queue'[y][i].port
               PROVE  queue'[y][i].meant \in Tunnelled(q)'
    BY DEF QueueOwn
  <2>1. CASE queue'[y] = queue[y]
    BY <1>1, <2>1, TunnelledGrows DEF PathInv, QueueOwn
  <2>2. CASE queue'[y] # queue[y]
    <3>1. y = b /\ queue'[y] = Append(queue[b], x)
      BY <1>4, <2>2 DEF PathInv, TypeOK
    <3>2. i \in 1 .. Len(queue[b]) + 1 /\ queue'[y][i] = IF i = Len(queue[b]) + 1 THEN x ELSE queue[b][i]
      BY <1>6, <3>1
    <3>3. CASE i = Len(queue[b]) + 1
      BY <1>2, <1>4, <3>2, <3>3
    <3>4. CASE i # Len(queue[b]) + 1
      <4>1. i \in 1 .. Len(queue[b]) /\ queue'[y][i] = queue[b][i]
        BY <1>6, <3>2, <3>4
      <4> QED  BY <1>1, <4>1, TunnelledGrows DEF PathInv, QueueOwn
    <3> QED  BY <3>3, <3>4
  <2> QED  BY <2>1, <2>2
<1>10. SessionsOwn' /\ HandlingOwn' /\ DeliveredOwn' /\ SeenOwn'
  <2> USE <1>1, TunnelledGrows DEF PathInv
  <2>1. SessionsOwn'  BY DEF SessionsOwn
  <2>2. HandlingOwn'  BY DEF HandlingOwn
  <2>3. DeliveredOwn'  BY DEF DeliveredOwn
  <2>4. SeenOwn'  BY DEF SeenOwn
  <2> QED  BY <2>1, <2>2, <2>3, <2>4
<1> QED  BY <1>7, <1>8, <1>9, <1>10 DEF PathInv

\* Where the history of the datagrams that left is as it was.
LEMMA SameTunnelled ==
    ASSUME routed' = routed
    PROVE  \A p : Tunnelled(p)' = Tunnelled(p)
BY DEF Tunnelled

LEMMA InboundStep ==
    ASSUME PathInv, NEW c \in Callers, NEW b \in Bridges, NEW p \in Ports, Inbound(c, b, p)
    PROVE  PathInv'
<1> USE DEF Inbound, listenVars
<1>1. PICK new : new = [port |-> p, truly |-> sessions[b][p],
                        looks |-> IF flows[p] = None THEN b ELSE flows[p].orig]
  OBVIOUS
<1>2. /\ seen' = seen \cup {new} /\ new.port = p
      /\ new \in [port : Ports, truly : Dests, looks : Dests \cup Bridges]
      /\ new.truly \in Tunnelled(p) /\ new.looks \in Tunnelled(p) \cup Bridges
  BY <1>1 DEF PathInv, TypeOK, SessionsOwn, FlowsOwn
<1>3. TypeOK'
  BY <1>2 DEF PathInv, TypeOK
<1>4. SeenOwn'
  BY <1>2, SameTunnelled DEF PathInv, SeenOwn
<1> QED  BY <1>3, <1>4, SameTunnelled DEF PathInv, FlowsOwn, SessionsOwn, QueueOwn, HandlingOwn,
              DeliveredOwn

\* Entries grow old and are reaped.
LEMMA ReapStep ==
    ASSUME PathInv, (\E c \in Callers : ReapFlows(c)) \/ \E p \in Ports : FlowGoesIdle(p)
    PROVE  PathInv'
<1>1. /\ UNCHANGED <<seeded, bound, hand, listenVars, historyVars>>
      /\ \A p \in Ports : flows'[p] = None \/ flows'[p] = flows[p]
      /\ flows' \in [Ports -> [orig : Dests, target : Bridges] \cup {None}]
      /\ flowIdle' \subseteq {p \in Ports : flows'[p] # None}
  BY DEF ReapFlows, FlowGoesIdle, PathInv, TypeOK
<1> USE DEF listenVars, historyVars
<1>2. TypeOK'
  BY <1>1 DEF PathInv, TypeOK
<1>3. FlowsOwn'
  BY <1>1, SameTunnelled DEF PathInv, FlowsOwn
<1> QED  BY <1>1, <1>2, <1>3, SameTunnelled DEF PathInv, SessionsOwn, QueueOwn, HandlingOwn,
              DeliveredOwn, SeenOwn

LEMMA ReceiveStep ==
    ASSUME PathInv, NEW b \in Bridges, Receive(b)
    PROVE  PathInv'
<1> USE DEF Receive, captureVars, historyVars
<1>1. PICK x : x = Head(queue[b])
  OBVIOUS
<1>2. PICK p : p = x.port
  OBVIOUS
<1> DEFINE open == SessionOf(b, p) # None
           dest == IF open THEN SessionOf(b, p) ELSE FlowOrigin(p)
<1>3. PICK new : new = IF dest = None THEN None
                       ELSE [port |-> p, meant |-> x.meant, dest |-> dest, open |-> open]
  OBVIOUS
<1>4. /\ handling' = [handling EXCEPT ![b] = new]
      /\ queue' = [queue EXCEPT ![b] = Tail(queue[b])]
  BY <1>1, <1>2, <1>3
<1>5. /\ Tail(queue[b]) \in Seq([port : Ports, meant : Dests])
      /\ Len(Tail(queue[b])) \in Nat
      /\ \A k \in 1 .. Len(Tail(queue[b])) :
            k + 1 \in 1 .. Len(queue[b]) /\ Tail(queue[b])[k] = queue[b][k + 1]
      /\ x \in [port : Ports, meant : Dests] /\ x = queue[b][1] /\ 1 \in 1 .. Len(queue[b])
  <2>1. \A S : \A s \in Seq(S) : s # <<>> =>
           /\ Tail(s) \in Seq(S) /\ Len(Tail(s)) \in Nat /\ Head(s) \in S /\ Head(s) = s[1]
           /\ 1 \in 1 .. Len(s)
           /\ \A k \in 1 .. Len(Tail(s)) : k + 1 \in 1 .. Len(s) /\ Tail(s)[k] = s[k + 1]
    OBVIOUS
  <2>2. queue[b] \in Seq([port : Ports, meant : Dests])
    BY DEF PathInv, TypeOK
  <2> QED  BY <1>1, <2>1, <2>2
<1>6. p \in Ports /\ x.meant \in Dests /\ x.meant \in Tunnelled(p)
  <2>1. p \in Ports /\ x.meant \in Dests
    BY <1>2, <1>5
  <2>2. queue[b][1].meant \in Tunnelled(queue[b][1].port)
    BY <1>5 DEF PathInv, QueueOwn
  <2> QED  BY <1>2, <1>5, <2>1, <2>2
<1>7. dest # None => dest \in Dests /\ dest \in Tunnelled(p)
  BY <1>6 DEF PathInv, TypeOK, FlowsOwn, SessionsOwn, SessionOf, FlowOrigin
<1>8. new # None =>
        /\ new \in [port : Ports, meant : Dests, dest : Dests, open : BOOLEAN]
        /\ new.port = p /\ {new.dest, new.meant} \subseteq Tunnelled(p)
  <2>1. CASE dest = None
    BY <1>3, <2>1
  <2>2. CASE dest # None
    BY <1>3, <1>6, <1>7, <2>2
  <2> QED  BY <2>1, <2>2
<1> HIDE DEF open, dest
<1>9. TypeOK'
  <2>1. queue' \in [Bridges -> Seq([port : Ports, meant : Dests])]
    BY <1>4, <1>5 DEF PathInv, TypeOK
  <2>2. handling' \in [Bridges -> [port : Ports, meant : Dests, dest : Dests, open : BOOLEAN]
                                  \cup {None}]
    BY <1>4, <1>8 DEF PathInv, TypeOK
  <2> QED  BY <2>1, <2>2 DEF PathInv, TypeOK
<1>10. HandlingOwn'
  <2> SUFFICES ASSUME NEW y \in Bridges, handling'[y] # None,
                      NEW q, q = handling'[y].port
               PROVE  {handling'[y].dest, handling'[y].meant} \subseteq Tunnelled(q)'
    BY DEF HandlingOwn
  <2>1. handling'[y] = IF y = b THEN new ELSE handling[y]
    BY <1>4 DEF PathInv, TypeOK
  <2> QED  BY <1>8, <2>1, SameTunnelled DEF PathInv, HandlingOwn
<1>11. QueueOwn'
  <2> SUFFICES ASSUME NEW y \in Bridges, NEW i \in 1 .. Len(queue'[y]),
                      NEW q, q = queue'[y][i].port
               PROVE  queue'[y][i].meant \in Tunnelled(q)'
    BY DEF QueueOwn
  <2>1. queue'[y] = IF y = b THEN Tail(queue[b]) ELSE queue[y]
    BY <1>4 DEF PathInv, TypeOK
  <2>2. \E j \in 1 .. Len(queue[y]) : queue'[y][i] = queue[y][j]
    BY <1>5, <2>1
  <2> QED  BY <2>2, SameTunnelled DEF PathInv, QueueOwn
<1> QED  BY <1>9, <1>10, <1>11, SameTunnelled DEF PathInv, FlowsOwn, SessionsOwn, DeliveredOwn, SeenOwn

LEMMA OpenTunnelStep ==
    ASSUME PathInv, NEW b \in Bridges, OpenTunnel(b)
    PROVE  PathInv'
<1> USE DEF OpenTunnel, captureVars, historyVars
<1>1. PICK q : q = handling[b].port
  OBVIOUS
<1>2. /\ handling[b] \in [port : Ports, meant : Dests, dest : Dests, open : BOOLEAN]
      /\ {handling[b].dest, handling[b].meant} \subseteq Tunnelled(q)
  BY <1>1 DEF PathInv, TypeOK, HandlingOwn
<1>3. \A y \in Bridges, p \in Ports :
         sessions'[y][p] = IF y = b /\ p = q THEN handling[b].dest ELSE sessions[y][p]
  BY <1>1, <1>2 DEF PathInv, TypeOK
<1>4. /\ handling'[b] = [handling[b] EXCEPT !.open = TRUE]
      /\ \A y \in Bridges : y # b => handling'[y] = handling[y]
  BY DEF PathInv, TypeOK
<1>5. TypeOK'
  <2>1. sessions' \in [Bridges -> [Ports -> Dests \cup {None}]]
    BY <1>2 DEF PathInv, TypeOK
  <2>2. handling' \in [Bridges -> [port : Ports, meant : Dests, dest : Dests, open : BOOLEAN]
                                  \cup {None}]
    BY <1>2 DEF PathInv, TypeOK
  <2> QED  BY <2>1, <2>2 DEF PathInv, TypeOK
<1>6. SessionsOwn'
  BY <1>2, <1>3, SameTunnelled DEF PathInv, SessionsOwn
<1>7. HandlingOwn'
  <2> SUFFICES ASSUME NEW y \in Bridges, handling'[y] # None,
                      NEW p, p = handling'[y].port
               PROVE  {handling'[y].dest, handling'[y].meant} \subseteq Tunnelled(p)'
    BY DEF HandlingOwn
  <2>1. CASE y = b
    <3>1. p = q /\ handling'[y].dest = handling[b].dest /\ handling'[y].meant = handling[b].meant
      BY <1>1, <1>2, <1>4, <2>1
    <3> QED  BY <1>2, <3>1, SameTunnelled
  <2>2. CASE y # b
    <3>1. handling'[y] = handling[y]
      BY <1>4, <2>2
    <3> QED  BY <3>1, SameTunnelled DEF PathInv, HandlingOwn
  <2> QED  BY <2>1, <2>2
<1> QED  BY <1>5, <1>6, <1>7, SameTunnelled DEF PathInv, FlowsOwn, QueueOwn, DeliveredOwn, SeenOwn

\* The listener is done with its datagram: delivered, too long, or without a tunnel.
LEMMA DoneStep ==
    ASSUME PathInv, NEW b \in Bridges, OpenFails(b) \/ Forward(b) \/ ForwardFails(b)
    PROVE  PathInv'
<1>1. /\ handling' = [handling EXCEPT ![b] = None]
      /\ UNCHANGED <<seeded, bound, captureVars, queue, sessions, sent, routed, seen>>
  BY DEF OpenFails, Forward, ForwardFails, historyVars
<1> USE DEF captureVars
<1>2. \A x \in delivered' :
         x \in Delivery /\ (x.to = x.meant \/ {x.to, x.meant} \subseteq Tunnelled(x.port))
  <2>1. CASE Forward(b)
    <3>1. PICK new : new = [port |-> handling[b].port, via |-> b, meant |-> handling[b].meant,
                            to |-> handling[b].dest]
      OBVIOUS
    <3>2. delivered' = delivered \cup {new}
      BY <2>1, <3>1 DEF Forward
    <3>3. handling[b] \in [port : Ports, meant : Dests, dest : Dests, open : BOOLEAN]
      BY <2>1 DEF Forward, PathInv, TypeOK
    <3>4. new \in Delivery /\ {new.to, new.meant} \subseteq Tunnelled(new.port)
      BY <2>1, <3>1, <3>3 DEF Forward, PathInv, HandlingOwn, Delivery, Routes
    <3> QED  BY <3>2, <3>4 DEF PathInv, TypeOK, DeliveredOwn
  <2>2. CASE OpenFails(b) \/ ForwardFails(b)
    BY <2>2 DEF OpenFails, ForwardFails, historyVars, PathInv, TypeOK, DeliveredOwn
  <2> QED  BY <2>1, <2>2
<1>3. TypeOK'
  BY <1>1, <1>2 DEF PathInv, TypeOK
<1>4. HandlingOwn'
  BY <1>1, SameTunnelled DEF PathInv, TypeOK, HandlingOwn
<1>5. DeliveredOwn'
  BY <1>1, <1>2, SameTunnelled DEF DeliveredOwn
<1> QED  BY <1>1, <1>3, <1>4, <1>5, SameTunnelled DEF PathInv, FlowsOwn, SessionsOwn, QueueOwn, SeenOwn

--------------------------------------------------------------------------------
(* What the router answers *)

\* DirectTo, as a function of the address.
DirectOf(ip) ==
    IF RegionOf[ip] = None \/ DirectRtt[RegionOf[ip]] = None
    THEN Infinity
    ELSE DirectRtt[RegionOf[ip]]

\* A cached decision was made for the direct round trip of its own address: the
\* capture loops are the only threads that ask, and they pass no other's.
CacheDirect == \A ip \in Ips : cache[ip] # None => cache[ip].direct = DirectOf(ip)

\* So is the decision a pick makes, for the datagram its loop has in hand.
PicksDirect ==
    \A c \in Callers : picking[c] # None =>
        /\ Asking(c)
        /\ picking[c].ip = IpOf[hand[c].dest]
        /\ DirectOf(picking[c].ip) = IF picking[c].stage = "written"
                                     THEN picking[c].decision.direct ELSE picking[c].direct

\* The answer is right for a datagram to d.
RightOf(d, answer) ==
    /\ \E h \in held :
          /\ h.at \in answer.decision.asked .. answer.decision.at
          /\ answer.decision.route = Decide(IpOf[d], DirectTo(d), h.pings)
    /\ Current(answer)

AnswersRight ==
    \A c \in Callers : hand[c] # None /\ hand[c].answer # None =>
        RightOf(hand[c].dest, hand[c].answer)

RoutesInv == CacheDirect /\ PicksDirect /\ AnswersRight /\ RoutesJustified

LEMMA DirectOfDest ==
    ASSUME NEW d \in Dests
    PROVE  IpOf[d] \in Ips /\ DirectTo(d) = DirectOf(IpOf[d]) /\ DirectTo(d) \in DirectRtts
BY SmartAssumption, RouterAssumption DEF DirectTo, DirectOf

\* What is right stays right, by measurements that are still held.
LEMMA RightKeeps ==
    ASSUME held \subseteq held', NEW d, NEW answer, RightOf(d, answer)
    PROVE  RightOf(d, answer)'
BY DEF RightOf, Current

LEMMA RoutesKeep ==
    ASSUME RoutesJustified, held \subseteq held', routed' = routed
    PROVE  RoutesJustified'
BY DEF RoutesJustified, Current

\* Neither picks nor datagrams in hand change.
LEMMA QuietStep ==
    ASSUME RoutesInv, held \subseteq held', UNCHANGED <<cache, picking, hand, routed>>
    PROVE  RoutesInv'
<1>1. CacheDirect' /\ PicksDirect'
  BY DEF RoutesInv, CacheDirect, PicksDirect, Asking
<1>2. AnswersRight'
  BY RightKeeps DEF RoutesInv, AnswersRight
<1> QED  BY <1>1, <1>2, RoutesKeep DEF RoutesInv

\* A loop takes a datagram: it was not in a pick.
LEMMA TakesRoutes ==
    ASSUME RoutesInv, TypeOK, NEW c \in Callers, NEW p \in Ports, NEW d \in Dests, Takes(c, p, d)
    PROVE  RoutesInv'
<1> USE DEF Takes, routerVars
<1>1. \A x \in Callers : x # c => hand'[x] = hand[x]
  BY DEF TypeOK
<1>2. hand'[c].answer = None
  BY DEF TypeOK
<1>3. picking[c] = None
  BY DEF RoutesInv, PicksDirect, Asking
<1>4. CacheDirect' /\ PicksDirect'
  BY <1>1, <1>3 DEF RoutesInv, CacheDirect, PicksDirect, Asking
<1>5. AnswersRight'
  BY <1>1, <1>2, RightKeeps DEF RoutesInv, AnswersRight
<1> QED  BY <1>4, <1>5, RoutesKeep DEF RoutesInv

LEMMA AsksRoutes ==
    ASSUME RoutesInv, TypeOK, RouterTypeOK, NEW c \in Callers, Asks(c)
    PROVE  RoutesInv'
<1> USE DEF Asks, captureVars, historyVars
<1>1. PICK ip \in Ips : ip = IpOf[hand[c].dest] /\ DirectTo(hand[c].dest) = DirectOf(ip)
  BY DirectOfDest DEF Asking, TypeOK
<1>2. /\ held' = held
      /\ AnswersRight' /\ RoutesJustified'
  <2>1. held' = held /\ hand' = hand /\ routed' = routed
    BY DEF PickMisses, PickDecides, PickWrites
  <2>2. AnswersRight'
    BY <2>1, RightKeeps DEF RoutesInv, AnswersRight
  <2> QED  BY <2>1, <2>2, RoutesKeep DEF RoutesInv
<1>3. ASSUME NEW q, picking' = [picking EXCEPT ![c] = q], q.ip = ip,
             DirectOf(ip) = IF q.stage = "written" THEN q.decision.direct ELSE q.direct
      PROVE  PicksDirect'
  <2>1. \A x \in Callers : picking'[x] = IF x = c THEN q ELSE picking[x]
    BY <1>3 DEF RouterTypeOK
  <2> QED  BY <1>1, <1>3, <2>1 DEF RoutesInv, PicksDirect, Asking
<1>4. CASE PickMisses(c, ip, DirectOf(ip))
  <2>1. PICK q : q = [stage |-> "missed", ip |-> ip, direct |-> DirectOf(ip), asked |-> now]
    OBVIOUS
  <2>2. picking' = [picking EXCEPT ![c] = q] /\ q.ip = ip /\ q.stage # "written"
        /\ q.direct = DirectOf(ip)
    BY <1>4, <2>1 DEF PickMisses
  <2>3. CacheDirect'
    BY <1>4 DEF PickMisses, RoutesInv, CacheDirect
  <2> QED  BY <1>2, <1>3, <2>2, <2>3 DEF RoutesInv
<1>5. CASE PickDecides(c)
  <2>1. PICK o : o = picking[c]
    OBVIOUS
  <2>2. o.ip = ip /\ o.direct = DirectOf(ip)
    BY <1>1, <1>5, <2>1 DEF PickDecides, RoutesInv, PicksDirect
  <2>3. PICK q : q = [stage |-> "decided", ip |-> o.ip, direct |-> o.direct, asked |-> o.asked,
                      read |-> now, route |-> Decide(o.ip, o.direct, pings),
                      via |-> ViaTotal(o.ip, pings)]
    OBVIOUS
  <2>4. picking' = [picking EXCEPT ![c] = q] /\ q.ip = ip /\ q.stage # "written"
        /\ q.direct = DirectOf(ip)
    BY <1>5, <2>1, <2>2, <2>3 DEF PickDecides
  <2>5. CacheDirect'
    BY <1>5 DEF PickDecides, RoutesInv, CacheDirect
  <2> QED  BY <1>2, <1>3, <2>4, <2>5 DEF RoutesInv
<1>6. CASE PickWrites(c)
  <2>1. PICK o : o = picking[c]
    OBVIOUS
  <2>2. o.ip = ip /\ o.direct = DirectOf(ip)
    BY <1>1, <1>6, <2>1 DEF PickWrites, RoutesInv, PicksDirect
  <2>3. PICK at \in picking[c].read .. now :
          /\ cache' = [cache EXCEPT ![o.ip] =
                [route |-> o.route, at |-> at, direct |-> o.direct, via |-> o.via,
                 by |-> c, asked |-> o.asked]]
          /\ picking' = [picking EXCEPT ![c] =
                [stage |-> "written", ip |-> o.ip, decision |->
                   [route |-> o.route, at |-> at, direct |-> o.direct, via |-> o.via,
                    by |-> c, asked |-> o.asked]]]
    BY <1>6, <2>1 DEF PickWrites
  <2>4. PICK e : e = [route |-> o.route, at |-> at, direct |-> o.direct, via |-> o.via,
                      by |-> c, asked |-> o.asked]
    OBVIOUS
  <2>5. PICK q : q = [stage |-> "written", ip |-> ip, decision |-> e]
    OBVIOUS
  <2>6. cache' = [cache EXCEPT ![ip] = e] /\ e.direct = DirectOf(ip)
    BY <2>2, <2>3, <2>4
  <2>7. picking' = [picking EXCEPT ![c] = q] /\ q.ip = ip /\ q.stage = "written"
        /\ q.decision.direct = DirectOf(ip)
    BY <2>2, <2>3, <2>4, <2>5, <2>6
  <2>8. CacheDirect'
    BY <2>6 DEF RouterTypeOK, RoutesInv, CacheDirect
  <2>9. PicksDirect'
    BY <1>3, <2>7
  <2> QED  BY <1>2, <2>8, <2>9 DEF RoutesInv
<1> QED  BY <1>1, <1>4, <1>5, <1>6

\* pick returns: the answer is right for the datagram in hand (see StaleBounded).
LEMMA AnsweredRoutes ==
    ASSUME RoutesInv, TypeOK, RouterTypeOK, StaleBounded', NEW c \in Callers, Answered(c)
    PROVE  RoutesInv'
<1> USE DEF Answered, historyVars
<1>1. PICK d \in Dests : d = hand[c].dest
  BY DEF Asking, TypeOK
<1>2. PICK ip \in Ips : ip = IpOf[d] /\ DirectTo(d) = DirectOf(ip)
  BY DirectOfDest
<1>3. PICK answer : answer = last'
  OBVIOUS
<1>4. answer \in Answer /\ answer.ip = ip /\ answer.decision.direct = DirectOf(ip)
  <2>1. CASE PickCached(c, ip)
    BY <1>3, <2>1, AnswerGiven DEF RoutesInv, CacheDirect
  <2>2. CASE PickLogs(c)
    <3>1. picking[c] # None /\ picking[c].stage = "written"
      BY <2>2 DEF PickLogs
    <3> QED  BY <1>1, <1>2, <1>3, <2>2, <3>1, AnswerGiven DEF RoutesInv, PicksDirect
  <2> QED  BY <1>1, <1>2, <2>1, <2>2
<1>5. /\ held' = held /\ cache' = cache /\ routed' = routed
      /\ \A x \in Callers : picking'[x] = None \/ (x # c /\ picking'[x] = picking[x])
  <2>1. CASE PickCached(c, ip)
    BY <2>1 DEF PickCached
  <2>2. CASE PickLogs(c)
    BY <2>2 DEF PickLogs, RouterTypeOK
  <2> QED  BY <1>1, <1>2, <2>1, <2>2
<1>6. \A x \in Callers : hand'[x] = IF x = c THEN [hand[c] EXCEPT !.answer = answer] ELSE hand[x]
  BY <1>3 DEF TypeOK
<1>7. hand'[c].dest = d /\ hand'[c].answer = answer
  BY <1>1, <1>6 DEF Asking, TypeOK
<1>8. RightOf(d, answer)'
  <2>1. answer # None
    BY <1>4, RouterAssumption
  <2>2. DecidedOn(answer.ip, answer.decision)' /\ Current(answer)
    BY <1>3, <2>1 DEF StaleBounded, DecidedOn, Current
  <2> QED  BY <1>2, <1>4, <1>5, <2>2 DEF DecidedOn, Current, RightOf
<1>9. AnswersRight'
  <2> SUFFICES ASSUME NEW x \in Callers, hand'[x] # None, hand'[x].answer # None,
                      NEW dd, dd = hand'[x].dest, NEW aa, aa = hand'[x].answer
               PROVE  RightOf(dd, aa)'
    BY DEF AnswersRight
  <2>1. CASE x = c
    BY <1>7, <1>8, <2>1
  <2>2. CASE x # c
    BY <1>5, <1>6, <2>2, RightKeeps DEF RoutesInv, AnswersRight
  <2> QED  BY <2>1, <2>2
<1>10. CacheDirect'
  BY <1>5 DEF RoutesInv, CacheDirect
<1>11. PicksDirect'
  BY <1>5, <1>6 DEF RoutesInv, PicksDirect, Asking
<1> QED  BY <1>5, <1>9, <1>10, <1>11, RoutesKeep DEF RoutesInv

\* A datagram leaves the way the answer in hand says.
LEMMA LeavesRoutes ==
    ASSUME RoutesInv, TypeOK, NEW c \in Callers, NEW route, Leaves(c, route), UNCHANGED routerVars
    PROVE  RoutesInv'
<1> USE DEF Leaves, routerVars
<1>1. PICK x : x = [port |-> hand[c].port, dest |-> hand[c].dest, route |-> route,
                    answer |-> hand[c].answer]
  OBVIOUS
<1>2. /\ routed' = routed \cup {x} /\ x.dest = hand[c].dest /\ x.answer = hand[c].answer
      /\ x.answer.decision.route = x.route
  BY <1>1
<1>3. RightOf(x.dest, x.answer)
  BY <1>2 DEF RoutesInv, AnswersRight
<1>4. RoutesJustified'
  BY <1>2, <1>3 DEF RoutesInv, RoutesJustified, RightOf, Current
<1>5. \A y \in Callers : hand'[y] = IF y = c THEN None ELSE hand[y]
  BY DEF TypeOK
<1>6. AnswersRight'
  BY <1>5, RightKeeps DEF RoutesInv, AnswersRight
<1>7. picking[c] = None
  BY DEF RoutesInv, PicksDirect, Asking
<1>8. CacheDirect' /\ PicksDirect'
  BY <1>5, <1>7 DEF RoutesInv, CacheDirect, PicksDirect, Asking
<1> QED  BY <1>4, <1>6, <1>8 DEF RoutesInv

--------------------------------------------------------------------------------
\* The games, the capture loops and the listeners use the router as its own
\* specification says callers may.
LEMMA RouterMoves ==
    ASSUME TypeOK, RouterTypeOK, [Next]_vars
    PROVE  [RouterNext]_routerVars /\ held \subseteq held'
<1>1. RouterNext => held \subseteq held'
  BY DEF RouterNext, Record, Tick, PickCached, PickMisses, PickDecides, PickWrites, PickLogs
<1>2. CASE UNCHANGED routerVars
  BY <1>2 DEF routerVars
<1>3. CASE Seed
  <2>1. seeded + 1 \in Bridges
    BY <1>3, RouterAssumption DEF Seed, TypeOK, Bridges
  <2>2. Seeds[seeded + 1] \in Rtts
    BY <2>1, SmartAssumption
  <2> QED  BY <1>1, <1>2, <1>3, <2>1, <2>2 DEF Seed, RouterNext
<1>4. CASE Tick
  BY <1>1, <1>4 DEF RouterNext
<1>5. ASSUME NEW c \in Callers, Asks(c) \/ Answered(c) PROVE RouterNext
  <2>1. IpOf[hand[c].dest] \in Ips /\ DirectTo(hand[c].dest) \in DirectRtts
    BY <1>5, DirectOfDest DEF Asks, Answered, Asking, TypeOK
  <2> QED  BY <1>5, <2>1 DEF Asks, Answered, RouterNext
<1>6. CASE \/ \E c \in Callers :
              \/ \E p \in Ports :
                  (\E d \in Dests : Takes(c, p, d)) \/ (\E b \in Bridges : Inbound(c, b, p))
              \/ PassThrough(c) \/ (\E b \in Bridges : Redirect(c, b)) \/ ReapFlows(c)
           \/ \E p \in Ports : FlowGoesIdle(p)
           \/ \E b \in Bridges : Listen(b) \/ Listener(b)
           \/ UNCHANGED vars
  <2>1. UNCHANGED routerVars
    BY <1>6 DEF Takes, Inbound, PassThrough, Redirect, ReapFlows, FlowGoesIdle, Listen, Listener,
                Receive, OpenTunnel, OpenFails, Forward, ForwardFails, vars
  <2> QED  BY <1>2, <2>1
<1> QED  BY <1>1, <1>3, <1>4, <1>5, <1>6 DEF Next

LEMMA PathKeeps ==
    ASSUME PathInv, RouterTypeOK, [Next]_vars
    PROVE  PathInv'
<1>1. CASE Seed
  <2>1. seeded' \in 0 .. NumBridges
    BY <1>1, RouterAssumption DEF Seed, PathInv, TypeOK
  <2> QED  BY <1>1, <2>1, StartStep DEF Seed, PathInv, TypeOK
<1>2. CASE Tick /\ UNCHANGED <<seeded, bound, captureVars, listenVars, historyVars>>
  BY <1>2, StartStep DEF PathInv, TypeOK
<1>3. CASE (\E b \in Bridges : Listen(b)) \/ (\E c \in Callers : Asks(c)) \/ UNCHANGED vars
  BY <1>3, StartStep DEF Listen, Asks, vars, PathInv, TypeOK
<1>4. CASE \E b \in Bridges : Listener(b)
  BY <1>4, ReceiveStep, OpenTunnelStep, DoneStep DEF Listener
<1> QED  BY <1>1, <1>2, <1>3, <1>4, ReapStep, TakesStep, AnsweredStep, PassThroughStep,
            RedirectStep, InboundStep DEF Next

LEMMA RoutesKeeps ==
    ASSUME RoutesInv, TypeOK, RouterIInv, [Next]_vars
    PROVE  RoutesInv'
<1> RouterTypeOK
  BY DEF RouterIInv
<1>1. held \subseteq held' /\ StaleBounded'
  BY RouterMoves, RouterKeeps DEF RouterIInv
<1>2. CASE \/ Seed
           \/ Tick /\ UNCHANGED <<seeded, bound, captureVars, listenVars, historyVars>>
           \/ \E c \in Callers :
                ReapFlows(c) \/ \E p \in Ports, b \in Bridges : Inbound(c, b, p)
           \/ \E p \in Ports : FlowGoesIdle(p)
           \/ \E b \in Bridges : Listen(b) \/ Listener(b)
           \/ UNCHANGED vars
  <2>1. UNCHANGED <<cache, picking, hand, routed>>
    BY <1>2 DEF Seed, Record, Tick, ReapFlows, Inbound, FlowGoesIdle, Listen, Listener, Receive,
                OpenTunnel, OpenFails, Forward, ForwardFails, vars, routerVars, captureVars,
                historyVars
  <2> QED  BY <1>1, <2>1, QuietStep
<1>3. CASE \E c \in Callers : PassThrough(c) \/ \E b \in Bridges : Redirect(c, b)
  BY <1>3, LeavesRoutes DEF PassThrough, Redirect
<1> QED  BY <1>1, <1>2, <1>3, TakesRoutes, AsksRoutes, AnsweredRoutes DEF Next

IInv == RouterIInv /\ PathInv /\ RoutesInv

\* Every reachable state of capture, router and listeners satisfies the strengthened
\* invariant.
THEOREM InvariantHolds == Spec => []IInv
<1>1. Init => IInv
  <2>1. Init => RoutesInv
    BY DEF Init, RouterInit, RoutesInv, CacheDirect, PicksDirect, AnswersRight, RoutesJustified
  <2>2. Init => RouterIInv
    BY RouterInitIInv DEF Init
  <2> QED  BY <2>1, <2>2, InitPathInv DEF IInv
<1>2. IInv /\ [Next]_vars => IInv'
  <2> SUFFICES ASSUME IInv, [Next]_vars PROVE IInv'  OBVIOUS
  <2>1. RouterIInv /\ PathInv /\ RoutesInv /\ TypeOK /\ RouterTypeOK
    BY DEF IInv, PathInv, RouterIInv
  <2>2. RouterIInv'
    BY <2>1, RouterMoves, RouterKeeps
  <2> QED  BY <2>1, <2>2, PathKeeps, RoutesKeeps DEF IInv
<1> QED  BY <1>1, <1>2, PTL DEF Spec

--------------------------------------------------------------------------------
\* Every variable keeps its type (see TypeOK).
THEOREM TypesHold == Spec => []TypeOK
<1>1. IInv => TypeOK  BY DEF IInv, PathInv
<1> QED  BY <1>1, InvariantHolds, PTL

\* A game with one tunnelled destination is served exactly, whatever it passes through
\* and whatever the other games do (run_bridge_listener, process_packet; see
\* ServedExactly).
THEOREM ServedExactlyHolds == Spec => []ServedExactly
<1>1. IInv => ServedExactly
  <2> SUFFICES ASSUME IInv, NEW p \in Ports, \A d, e \in Tunnelled(p) : d = e
               PROVE  /\ \A x \in delivered : x.port = p => x.to = x.meant
                      /\ \A x \in seen : x.port = p => x.looks \in {x.truly} \cup Bridges
    BY DEF ServedExactly
  <2>1. \A x \in delivered : x.port = p => x.to = x.meant
    BY DEF IInv, PathInv, DeliveredOwn
  <2>2. \A x \in seen : x.port = p => x.looks \in {x.truly} \cup Bridges
    BY DEF IInv, PathInv, SeenOwn
  <2> QED  BY <2>1, <2>2
<1> QED  BY <1>1, InvariantHolds, PTL

\* Every datagram went the way that is right for its own address, by measurements in
\* force during a pick that is its own or less than reroute_interval old (pick,
\* process_packet; see RoutesJustified).
THEOREM RoutesJustifiedHolds == Spec => []RoutesJustified
<1>1. IInv => RoutesJustified  BY DEF IInv, RoutesInv
<1> QED  BY <1>1, InvariantHolds, PTL

\* The games, the capture loops and the listeners use the router as its own
\* specification says callers may (start_smart, process_packet), so what is proved of
\* the router alone holds of it here.
THEOREM RouterIsUsedAsSpecified == Spec => RouterSpec
<1>1. Init => RouterInit
  BY DEF Init
<1>2. IInv /\ [Next]_vars => [RouterNext]_routerVars
  BY RouterMoves DEF IInv, PathInv, RouterIInv
<1> QED  BY <1>1, <1>2, InvariantHolds, PTL DEF Spec, RouterSpec

================================================================================
