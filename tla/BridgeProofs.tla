----------------------------- MODULE BridgeProofs -----------------------------
(***************************************************************************)
(* Theorems about the bridge, for every set of clients, keys and frames    *)
(* and every value of the bounds.  The argument: IInv of Bridge holds      *)
(* initially and is preserved by every action; each part of it is proved   *)
(* by a lemma of its own below, over the actions that can disturb it.      *)
(***************************************************************************)
EXTENDS Bridge, FiniteSetTheorems, TLAPS

-----------------------------------------------------------------------------
(* Types *)

LEMMA ConnectingFinite ==
    IsFiniteSet(Connecting) /\ Cardinality(Connecting) \in Nat
<1>1. IsFiniteSet(Handlers)
  BY BridgeAssumption, FS_Interval DEF Handlers
<1>2. Connecting \subseteq Handlers
  BY DEF Connecting
<1> QED
  BY <1>1, <1>2, FS_Subset, FS_CardinalityType

\* A frame whose kind is known belongs to the frames of that kind.
LEMMA KindOfFrame ==
    ASSUME NEW f \in Frame
    PROVE  /\ f.kind = "syn" => f \in SynFrame
           /\ f.kind = "data" => f \in DataFrame
           /\ f.skey \in SessionKeys
BY DEF Frame, SynFrame, DataFrame

LEMMA TypeInitial == Init => TypeOK
BY BridgeAssumption DEF Init, TypeOK, Jobs

\* The steps of a handle_packet task keep the types.
LEMMA TypeHandle ==
    ASSUME TypeOK, TaskInv, NEW h \in Handlers, Handle(h)
    PROVE  TypeOK'
<1> USE DEF TypeOK, taskVars, sessionVars, returnVars, historyVars, Finish
<1>0. ClientFrames \subseteq Frame /\ None \notin Frame
  BY BridgeAssumption
<1>1. CASE AcceptSyn(h)
  BY <1>1, ConnectingFinite DEF AcceptSyn, Jobs
<1>2. CASE RefuseSyn(h)
  BY <1>2 DEF RefuseSyn, Jobs
<1>3. CASE ConnectOk(h)
  <2>1. pkt[h] \in SynFrame /\ pkt[h].skey \in SessionKeys
    BY <1>0, <1>3, KindOfFrame DEF ConnectOk, TaskInv
  <2> QED
    BY <1>3, <2>1 DEF ConnectOk, Jobs
<1>4. CASE ConnectFails(h)
  BY <1>4 DEF ConnectFails, Jobs
<1>5. CASE FindSession(h)
  <2>1. pkt[h].skey \in SessionKeys
    BY <1>0, <1>5, KindOfFrame DEF FindSession, TaskInv
  <2> QED
    BY <1>5, <2>1 DEF FindSession, Jobs
<1>6. CASE DropUnknown(h)
  BY <1>6 DEF DropUnknown, Jobs
<1>7. CASE LockSession(h)
  BY <1>7 DEF LockSession, Jobs
<1>8. CASE RejectFrame(h)
  BY <1>8 DEF RejectFrame, Jobs
<1>9. CASE WriteDest(h)
  <2>1. pkt[h] \in DataFrame /\ on[h] \in Handlers
    BY <1>0, <1>9, KindOfFrame DEF WriteDest, TaskInv
  <2> QED
    BY <1>9, <2>1 DEF WriteDest, Jobs
<1>10. CASE WriteFails(h)
  BY <1>10 DEF WriteFails, Jobs
<1> QED
  BY <1>1, <1>2, <1>3, <1>4, <1>5, <1>6, <1>7, <1>8, <1>9, <1>10
     DEF Handle, Step, Write

\* The steps of the drain tasks, of the sender and of the reaper keep the types.
LEMMA TypeService ==
    ASSUME TypeOK, OriginInv, SenderInv,
           (\E s \in Handlers : Drain(s)) \/ Sender \/ Reaper
    PROVE  TypeOK'
<1> USE DEF TypeOK, taskVars, sessionVars, returnVars, historyVars
<1>1. ASSUME NEW s \in Handlers, DestReplies(s)
      PROVE  TypeOK'
  <2>1. origin[s] \in SynFrame
    BY <1>1 DEF DestReplies, OriginInv
  <2>2. [skey |-> origin[s].skey, from |-> s, n |-> heard[s] + 1] \in DownstreamPacket
    BY <2>1 DEF SynFrame, DownstreamPacket
  <2> QED
    BY <1>1, <2>2 DEF DestReplies
<1>2. ASSUME NEW s \in Handlers, DrainEnds(s)
      PROVE  TypeOK'
  BY <1>2 DEF DrainEnds
<1>3. CASE SenderTakes
  <2>1. Head(queue) \in DownstreamPacket /\ Tail(queue) \in Seq(DownstreamPacket)
    BY <1>3 DEF SenderTakes
  <2>2. sessions[Head(queue).skey] \in Handlers \cup {None}
    BY <2>1 DEF DownstreamPacket
  <2> QED
    BY <1>3, <2>1, <2>2 DEF SenderTakes
<1>4. CASE SenderSeals
  <2> DEFINE i == sender.item
             v == sender.sess
             w == [skey |-> i.skey, aead |-> origin[v].aead, seq |-> tx[v] + 1,
                   from |-> i.from, n |-> i.n, via |-> v]
  <2>1. i \in DownstreamPacket /\ v \in Handlers /\ origin[v] \in SynFrame
    BY <1>4 DEF SenderSeals, SenderInv
  <2>2. w \in DownFrame
    BY <2>1 DEF DownstreamPacket, DownFrame, SynFrame
  <2>3. downWire' = downWire \cup {w} /\ tx' = [tx EXCEPT ![v] = @ + 1]
    BY <1>4 DEF SenderSeals
  <2> QED
    BY <1>4, <2>1, <2>2, <2>3 DEF SenderSeals
<1>5. CASE ReapCollect
  BY <1>5 DEF ReapCollect, Doomed, Occupied
<1>6. CASE ReapRemove
  BY <1>6 DEF ReapRemove
<1> QED
  BY <1>1, <1>2, <1>3, <1>4, <1>5, <1>6 DEF Drain, Sender, Reaper

LEMMA TypeNext ==
    ASSUME IInv, [Next]_vars
    PROVE  TypeOK'
<1> USE DEF IInv
<1>1. ASSUME NEW h \in Handlers, NEW f \in ClientFrames, Receive(h, f)
      PROVE  TypeOK'
  BY <1>1, BridgeAssumption
     DEF TypeOK, Receive, Jobs, sessionVars, returnVars, historyVars
<1>2. ASSUME NEW h \in Handlers, GoIdle(h)
      PROVE  TypeOK'
  BY <1>2 DEF TypeOK, GoIdle, taskVars, returnVars, historyVars
<1>3. CASE Restart
  BY <1>3, BridgeAssumption DEF TypeOK, Restart, Jobs, historyVars
<1>4. CASE UNCHANGED vars
  BY <1>4 DEF TypeOK, vars
<1> QED
  BY <1>1, <1>2, <1>3, <1>4, TypeHandle, TypeService DEF Next

-----------------------------------------------------------------------------
(* What each kind of step leaves alone *)

LEMMA HandleFootprint ==
    ASSUME NEW h \in Handlers, Handle(h)
    PROVE  /\ UNCHANGED <<queue, sender, downWire, heard, reaper, restarts>>
           /\ ConnectOk(h) \/ UNCHANGED <<origin, tx, sessions, drain>>
           /\ WriteDest(h) \/ UNCHANGED written
           /\ LockSession(h) \/ WriteDest(h) \/ WriteFails(h) \/ UNCHANGED holder
BY DEF Handle, Step, Write, AcceptSyn, RefuseSyn, ConnectOk, ConnectFails, FindSession,
       DropUnknown, LockSession, RejectFrame, WriteDest, WriteFails,
       sessionVars, returnVars, historyVars

LEMMA ServiceFootprint ==
    ASSUME \/ \E s \in Handlers : Drain(s) \/ GoIdle(s)
           \/ Sender
           \/ Reaper
    PROVE  /\ UNCHANGED <<pc, pkt, on, origin, holder, written, peak>>
           /\ ReapRemove \/ UNCHANGED sessions
           /\ (\E s \in Handlers : DrainEnds(s)) \/ UNCHANGED drain
           /\ (\E s \in Handlers : DestReplies(s)) \/ UNCHANGED heard
           /\ SenderSeals \/ UNCHANGED <<tx, downWire>>
BY DEF Drain, GoIdle, Sender, Reaper, DestReplies, DrainEnds, SenderTakes, SenderSeals,
       ReapCollect, ReapRemove, taskVars, sessionVars, returnVars, historyVars

LEMMA ReceiveFootprint ==
    ASSUME NEW h \in Handlers, NEW f \in ClientFrames, Receive(h, f)
    PROVE  UNCHANGED <<on, sessions, origin, tx, idle, holder, drain, queue, sender,
                       downWire, reaper, written, heard, peak, restarts>>
BY DEF Receive, sessionVars, returnVars, historyVars

\* A session object, once created, keeps its SYN, and its history only grows.
LEMMA OriginStable ==
    ASSUME IInv, [Next]_vars, NEW s \in Handlers
    PROVE  /\ origin[s] # None => origin'[s] = origin[s]
           /\ heard[s] \in Nat /\ heard'[s] \in Nat /\ heard[s] <= heard'[s]
<1> USE DEF IInv, TypeOK
<1>0. heard[s] \in Nat
  OBVIOUS
<1>1. ASSUME NEW h \in Handlers, Handle(h)
      PROVE  /\ heard' = heard
             /\ origin[s] # None => origin'[s] = origin[s]
  BY <1>1, HandleFootprint DEF ConnectOk, TaskInv
<1>2. ASSUME NEW h \in Handlers, DestReplies(h)
      PROVE  /\ origin' = origin
             /\ heard'[s] \in Nat /\ heard[s] <= heard'[s]
  BY <1>0, <1>2 DEF DestReplies, sessionVars
<1>3. ASSUME (\E h \in Handlers : Drain(h) \/ GoIdle(h)) \/ Sender \/ Reaper,
             ~(\E h \in Handlers : DestReplies(h))
      PROVE  origin' = origin /\ heard' = heard
  BY <1>3, ServiceFootprint
<1>4. CASE Restart
  BY <1>0, <1>4 DEF Restart, historyVars
<1>5. CASE UNCHANGED vars
  BY <1>0, <1>5 DEF vars
<1>6. ASSUME NEW h \in Handlers, NEW f \in ClientFrames, Receive(h, f)
      PROVE  origin' = origin /\ heard' = heard
  BY <1>6, ReceiveFootprint
<1> QED
  BY <1>0, <1>1, <1>2, <1>3, <1>4, <1>5, <1>6 DEF Next, Drain

-----------------------------------------------------------------------------
(* Tasks, mutexes and the table *)

LEMMA TaskNext ==
    ASSUME IInv, [Next]_vars
    PROVE  TaskInv'
<1> USE DEF IInv, TypeOK, TaskInv, Admissible, Opens
<1>0. ClientFrames \subseteq Frame /\ None \notin Frame /\ None \notin Handlers
  BY BridgeAssumption DEF Handlers
<1>1. ASSUME NEW h \in Handlers, NEW f \in ClientFrames, Receive(h, f)
      PROVE  TaskInv'
  BY <1>1 DEF Receive, sessionVars
<1>2. ASSUME NEW h \in Handlers, Handle(h)
      PROVE  TaskInv'
  <2> USE DEF Finish, sessionVars
  <2>1. CASE AcceptSyn(h)
    BY <2>1 DEF AcceptSyn
  <2>2. CASE RefuseSyn(h)
    BY <2>2 DEF RefuseSyn
  <2>3. CASE ConnectOk(h)
    <3>1. \A g \in Handlers : origin[g] # None => g # h
      BY <2>3 DEF ConnectOk
    <3> QED
      BY <2>3, <3>1 DEF ConnectOk
  <2>4. CASE ConnectFails(h)
    BY <2>4 DEF ConnectFails
  <2>5. CASE FindSession(h)
    <3>0. pkt[h] \in ClientFrames
      BY <2>5 DEF FindSession
    <3>1. sessions[pkt[h].skey] \in Handlers /\ pkt[h].skey \in SessionKeys
      <4>1. pkt[h].skey \in SessionKeys
        BY <1>0, <3>0, KindOfFrame
      <4> QED
        BY <2>5, <4>1 DEF FindSession
    <3>2. origin[sessions[pkt[h].skey]] # None
          /\ origin[sessions[pkt[h].skey]].skey = pkt[h].skey
      BY <2>5, <3>1 DEF FindSession, TableKeyed, Occupied
    <3> QED
      BY <2>5, <3>1, <3>2 DEF FindSession
  <2>6. CASE DropUnknown(h)
    BY <2>6 DEF DropUnknown
  <2>7. CASE LockSession(h)
    BY <2>7 DEF LockSession
  <2>8. CASE RejectFrame(h)
    BY <2>8 DEF RejectFrame
  <2>9. CASE WriteDest(h)
    BY <2>9 DEF WriteDest
  <2>10. CASE WriteFails(h)
    BY <2>10 DEF WriteFails
  <2> QED
    BY <1>2, <2>1, <2>2, <2>3, <2>4, <2>5, <2>6, <2>7, <2>8, <2>9, <2>10
       DEF Handle, Step, Write
<1>3. CASE (\E h \in Handlers : Drain(h) \/ GoIdle(h)) \/ Sender \/ Reaper
  BY <1>3, ServiceFootprint
<1>4. CASE Restart
  BY <1>4 DEF Restart
<1>5. CASE UNCHANGED vars
  BY <1>5 DEF vars
<1> QED
  BY <1>1, <1>2, <1>3, <1>4, <1>5 DEF Next

LEMMA OneWriterNext ==
    ASSUME IInv, [Next]_vars
    PROVE  OneWriter'
<1> USE DEF IInv, TypeOK, OneWriter
<1>0. None \notin Handlers
  BY BridgeAssumption DEF Handlers
<1>1. ASSUME NEW h \in Handlers, NEW f \in ClientFrames, Receive(h, f)
      PROVE  OneWriter'
  BY <1>1 DEF Receive, sessionVars
<1>2. ASSUME NEW h \in Handlers, Handle(h)
      PROVE  OneWriter'
  <2> USE DEF Finish, sessionVars
  <2>1. CASE AcceptSyn(h)
    BY <2>1 DEF AcceptSyn
  <2>2. ASSUME pc[h] # "writing", Finish(h), UNCHANGED holder
        PROVE  OneWriter'
    BY <2>2
  <2>3. CASE FindSession(h)
    BY <2>3 DEF FindSession
  <2>4. CASE LockSession(h)
    <3>1. on[h] \in Handlers
      BY <2>4 DEF LockSession, TaskInv
    <3> QED
      BY <1>0, <2>4, <3>1 DEF LockSession
  <2>5. ASSUME pc[h] = "writing", Finish(h), holder' = [holder EXCEPT ![on[h]] = None]
        PROVE  OneWriter'
    <3>1. on[h] \in Handlers /\ holder[on[h]] = h
      BY <2>5 DEF TaskInv
    <3>2. \A g \in Handlers : pc'[g] = "writing" => g # h /\ on'[g] = on[g] /\ pc[g] = "writing"
      BY <2>5
    <3>3. \A g \in Handlers : g # h => pc'[g] = pc[g] /\ on'[g] = on[g]
      BY <2>5
    <3>4. \A s \in Handlers : holder'[s] = IF s = on[h] THEN None ELSE holder[s]
      BY <2>5
    <3> HIDE DEF Finish
    <3> QED
      BY <1>0, <3>1, <3>2, <3>3, <3>4
  <2> QED
    BY <1>2, <2>1, <2>2, <2>3, <2>4, <2>5
       DEF Handle, Step, Write, RefuseSyn, ConnectOk, ConnectFails, DropUnknown,
           RejectFrame, WriteDest, WriteFails
<1>3. CASE (\E h \in Handlers : Drain(h) \/ GoIdle(h)) \/ Sender \/ Reaper
  BY <1>3, ServiceFootprint
<1>4. CASE Restart
  BY <1>0, <1>4 DEF Restart
<1>5. CASE UNCHANGED vars
  BY <1>5 DEF vars
<1> QED
  BY <1>1, <1>2, <1>3, <1>4, <1>5 DEF Next

LEMMA TableNext ==
    ASSUME IInv, [Next]_vars
    PROVE  TableKeyed'
<1> USE DEF IInv, TypeOK, TableKeyed, Occupied
<1>0. ClientFrames \subseteq Frame /\ None \notin Frame
  BY BridgeAssumption
<1>1. ASSUME NEW h \in Handlers, ConnectOk(h)
      PROVE  TableKeyed'
  <2>1. origin[h] = None /\ pkt[h] \in Frame
    BY <1>0, <1>1 DEF ConnectOk, TaskInv
  <2>2. ASSUME NEW k \in SessionKeys, sessions'[k] # None
        PROVE  origin'[sessions'[k]] # None /\ origin'[sessions'[k]].skey = k
    <3>1. CASE k = pkt[h].skey
      BY <1>0, <1>1, <2>1, <3>1 DEF ConnectOk
    <3>2. CASE k # pkt[h].skey
      BY <1>1, <2>1, <2>2, <3>2 DEF ConnectOk
    <3> QED
      BY <3>1, <3>2
  <2> QED
    BY <2>2
<1>2. ASSUME NEW h \in Handlers, Handle(h), ~ConnectOk(h)
      PROVE  TableKeyed'
  BY <1>2, HandleFootprint
<1>3. ASSUME ReapRemove
      PROVE  TableKeyed'
  BY <1>3 DEF ReapRemove, sessionVars
<1>4. ASSUME (\E h \in Handlers : Drain(h) \/ GoIdle(h)) \/ Sender \/ Reaper, ~ReapRemove
      PROVE  TableKeyed'
  BY <1>4, ServiceFootprint
<1>5. CASE Restart
  BY <1>5 DEF Restart
<1>6. CASE UNCHANGED vars
  BY <1>6 DEF vars
<1>7. ASSUME NEW h \in Handlers, NEW f \in ClientFrames, Receive(h, f)
      PROVE  TableKeyed'
  BY <1>7, ReceiveFootprint
<1> QED
  BY <1>1, <1>2, <1>3, <1>4, <1>5, <1>6, <1>7 DEF Next

LEMMA OriginNext ==
    ASSUME IInv, [Next]_vars
    PROVE  OriginInv'
<1> USE DEF IInv, TypeOK, OriginInv, Admissible
<1>0. None \notin ClientFrames
  BY BridgeAssumption
<1>1. ASSUME NEW h \in Handlers, ConnectOk(h)
      PROVE  OriginInv'
  BY <1>0, <1>1 DEF ConnectOk, TaskInv, historyVars
<1>2. ASSUME NEW h \in Handlers, Handle(h), ~ConnectOk(h)
      PROVE  OriginInv'
  BY <1>2, HandleFootprint
<1>3. ASSUME NEW s \in Handlers, DestReplies(s)
      PROVE  OriginInv'
  BY <1>3 DEF DestReplies, sessionVars
<1>4. ASSUME NEW s \in Handlers, DrainEnds(s)
      PROVE  OriginInv'
  BY <1>4 DEF DrainEnds, sessionVars, historyVars
<1>5. ASSUME (\E s \in Handlers : Drain(s) \/ GoIdle(s)) \/ Sender \/ Reaper,
             UNCHANGED <<drain, heard>>
      PROVE  OriginInv'
  BY <1>5, ServiceFootprint
<1>6. CASE Restart
  BY <1>6 DEF Restart, historyVars
<1>7. CASE UNCHANGED vars
  BY <1>7 DEF vars
<1>8. ASSUME NEW h \in Handlers, NEW f \in ClientFrames, Receive(h, f)
      PROVE  OriginInv'
  BY <1>8, ReceiveFootprint
<1> QED
  BY <1>1, <1>2, <1>3, <1>4, <1>5, <1>6, <1>7, <1>8, ServiceFootprint DEF Next, Drain

LEMMA ConfinementNext ==
    ASSUME IInv, [Next]_vars
    PROVE  Confinement'
<1> USE DEF IInv, TypeOK
<1>1. ASSUME UNCHANGED written
      PROVE  Confinement'
  BY <1>1, OriginStable DEF Confinement
<1>2. ASSUME NEW h \in Handlers, WriteDest(h)
      PROVE  Confinement'
  <2> DEFINE s == on[h]
             f == pkt[h]
  <2>1. s \in Handlers /\ f \in ClientFrames /\ origin[s] # None
        /\ f.skey = origin[s].skey /\ f.aead = origin[s].aead
    BY <1>2 DEF WriteDest, TaskInv, Opens
  <2>2. origin' = origin
        /\ written' = [written EXCEPT ![s] = Append(written[s], f)]
    BY <1>2 DEF WriteDest
  <2>3. ASSUME NEW r \in Handlers, NEW i \in DOMAIN written'[r]
        PROVE  /\ origin[r] # None
               /\ written'[r][i] \in ClientFrames
               /\ written'[r][i].skey = origin[r].skey
               /\ written'[r][i].aead = origin[r].aead
    <3>1. CASE r # s
      BY <2>2, <2>3, <3>1 DEF Confinement
    <3>2. CASE r = s
      <4>1. written[s] \in Seq(DataFrame)
        BY <2>1
      <4>2. written'[s] = Append(written[s], f)
        BY <2>1, <2>2
      <4>3. \/ i \in DOMAIN written[s] /\ written'[s][i] = written[s][i]
            \/ written'[s][i] = f
        BY <2>3, <3>2, <4>1, <4>2
      <4> QED
        BY <2>1, <3>2, <4>3 DEF Confinement
    <3> QED
      BY <3>1, <3>2
  <2> QED
    BY <2>2, <2>3 DEF Confinement
<1>3. UNCHANGED written \/ \E h \in Handlers : WriteDest(h)
  <2>1. Restart \/ UNCHANGED vars => UNCHANGED written
    BY DEF Restart, vars, historyVars
  <2> QED
    BY <2>1, HandleFootprint, ServiceFootprint, ReceiveFootprint DEF Next
<1> QED
  BY <1>1, <1>2, <1>3

-----------------------------------------------------------------------------
(* The way back: channel, sender, frames sent *)

\* The answers on their way and what has been sent change in four steps only.
LEMMA ReturnFootprint ==
    ASSUME [Next]_vars
    PROVE  \/ \E s \in Handlers : DestReplies(s)
           \/ SenderTakes
           \/ SenderSeals
           \/ Restart
           \/ UNCHANGED <<queue, sender, downWire>>
<1>1. ASSUME NEW s \in Handlers, DrainEnds(s) \/ GoIdle(s)
      PROVE  UNCHANGED <<queue, sender, downWire>>
  BY <1>1 DEF DrainEnds, GoIdle, returnVars
<1>2. Reaper \/ UNCHANGED vars => UNCHANGED <<queue, sender, downWire>>
  BY DEF Reaper, ReapCollect, ReapRemove, returnVars, vars
<1> QED
  BY <1>1, <1>2, HandleFootprint, ReceiveFootprint DEF Next, Drain, Sender

\* An answer stays on its way while nothing is sent.
LEMMA OnItsWayStable ==
    ASSUME IInv, [Next]_vars, UNCHANGED downWire
    PROVE  \A a \in DownstreamPacket : OnItsWay(a) => OnItsWay(a)'
<1> SUFFICES ASSUME NEW a \in DownstreamPacket, OnItsWay(a)
             PROVE  OnItsWay(a)'
  OBVIOUS
<1>1. a.from \in Handlers /\ a.n \in Nat
  BY DEF DownstreamPacket
<1>2. origin'[a.from] = origin[a.from]
      /\ heard[a.from] \in Nat /\ heard'[a.from] \in Nat /\ heard[a.from] <= heard'[a.from]
  BY <1>1, OriginStable DEF OnItsWay
<1> QED
  BY <1>1, <1>2 DEF OnItsWay

LEMMA QueueNext ==
    ASSUME IInv, [Next]_vars
    PROVE  QueueInv'
<1>0. /\ queue \in Seq(DownstreamPacket)
      /\ origin \in [Handlers -> SynFrame \cup {None}]
      /\ heard \in [Handlers -> Nat]
      /\ downWire \subseteq DownFrame
      /\ QueueInv /\ OriginInv /\ ReturnPath /\ SenderInv
  BY DEF IInv, TypeOK
<1>1. ASSUME NEW s \in Handlers, DestReplies(s)
      PROVE  QueueInv'
  <2>1. origin[s] \in SynFrame /\ heard[s] \in Nat
    BY <1>0, <1>1 DEF DestReplies, OriginInv
  <2>2. PICK a \in DownstreamPacket :
           a = [skey |-> origin[s].skey, from |-> s, n |-> heard[s] + 1]
    <3>1. [skey |-> origin[s].skey, from |-> s, n |-> heard[s] + 1] \in DownstreamPacket
      BY <2>1 DEF DownstreamPacket, SynFrame
    <3> QED
      BY <3>1
  <2>3. queue' = Append(queue, a) /\ heard' = [heard EXCEPT ![s] = heard[s] + 1]
        /\ UNCHANGED <<origin, downWire>>
    BY <1>1, <2>2 DEF DestReplies, sessionVars
  <2>4. \A w \in downWire : w.from = s => w.n < a.n
    BY <1>0, <2>1, <2>2 DEF ReturnPath, DownFrame
  <2>5. OnItsWay(a)'
    <3>1. origin[s] # None
      BY <1>0, <1>1 DEF DestReplies, OriginInv
    <3> QED
      BY <1>0, <2>1, <2>2, <2>3, <2>4, <3>1 DEF OnItsWay
  <2>6. \A i \in 1 .. Len(queue) : queue[i].from = s => queue[i].n < a.n
    <3> TAKE i \in 1 .. Len(queue)
    <3>1. queue[i] \in DownstreamPacket /\ OnItsWay(queue[i])
      BY <1>0 DEF QueueInv
    <3>2. queue[i].from = s => queue[i].n \in 1 .. heard[s]
      BY <3>1 DEF OnItsWay
    <3>3. a.n = heard[s] + 1
      BY <2>2
    <3> QED
      BY <2>1, <3>2, <3>3
  <2>7. /\ Len(queue') = Len(queue) + 1
        /\ Len(queue) \in Nat
        /\ queue'[Len(queue) + 1] = a
        /\ \A i \in 1 .. Len(queue) : queue'[i] = queue[i] /\ queue[i] \in DownstreamPacket
    BY <1>0, <2>2, <2>3
  <2>8. ASSUME NEW i \in 1 .. Len(queue')
        PROVE  OnItsWay(queue[i])'
    <3>1. CASE i = Len(queue) + 1
      BY <2>5, <2>7, <3>1 DEF OnItsWay
    <3>2. CASE i \in 1 .. Len(queue)
      <4>1. OnItsWay(queue[i]) /\ queue'[i] = queue[i] /\ queue[i] \in DownstreamPacket
        BY <1>0, <2>7, <3>2 DEF QueueInv
      <4> QED
        BY <2>3, <4>1, OnItsWayStable DEF OnItsWay
    <3> QED
      BY <2>7, <2>8, <3>1, <3>2
  <2>9. ASSUME NEW i \in 1 .. Len(queue'), NEW j \in 1 .. Len(queue'),
               i < j, queue'[i].from = queue'[j].from
        PROVE  queue'[i].n < queue'[j].n
    <3>1. i \in 1 .. Len(queue)
      BY <2>7, <2>9
    <3>2. CASE j \in 1 .. Len(queue)
      BY <1>0, <2>7, <2>9, <3>1, <3>2 DEF QueueInv
    <3>3. CASE j = Len(queue) + 1
      <4>1. queue'[j] = a /\ a.from = s /\ queue'[i] = queue[i]
        BY <2>2, <2>7, <3>1, <3>3
      <4> QED
        BY <2>6, <2>9, <3>1, <4>1
    <3>4. j \in 1 .. Len(queue) \/ j = Len(queue) + 1
      BY <2>7
    <3> QED
      BY <3>2, <3>3, <3>4
  <2> QED
    BY <2>8, <2>9 DEF QueueInv
<1>2. CASE SenderTakes
  <2>1. /\ Len(queue) \in Nat /\ Len(queue) # 0
        /\ Len(queue') = Len(queue) - 1
        /\ \A i \in 1 .. Len(queue') :
              i + 1 \in 1 .. Len(queue) /\ queue'[i] = queue[i + 1]
              /\ queue[i + 1] \in DownstreamPacket
    BY <1>0, <1>2 DEF SenderTakes
  <2>2. UNCHANGED downWire
    BY <1>2 DEF SenderTakes
  <2>3. ASSUME NEW i \in 1 .. Len(queue')
        PROVE  OnItsWay(queue[i])'
    <3>1. OnItsWay(queue[i + 1]) /\ queue'[i] = queue[i + 1]
          /\ queue[i + 1] \in DownstreamPacket
      BY <1>0, <2>1 DEF QueueInv
    <3> QED
      BY <2>2, <3>1, OnItsWayStable DEF OnItsWay
  <2>4. ASSUME NEW i \in 1 .. Len(queue'), NEW j \in 1 .. Len(queue'),
               i < j, queue'[i].from = queue'[j].from
        PROVE  queue'[i].n < queue'[j].n
    <3>1. i + 1 < j + 1
      BY <2>1, <2>4
    <3> QED
      BY <1>0, <2>1, <2>4, <3>1 DEF QueueInv
  <2> QED
    BY <2>3, <2>4 DEF QueueInv
<1>3. CASE SenderSeals
  <2>1. queue' = queue /\ heard' = heard /\ origin' = origin
    BY <1>3 DEF SenderSeals, historyVars
  <2>2. \A w \in downWire' : w \in downWire \/ (w.from = sender.item.from /\ w.n = sender.item.n)
    BY <1>3 DEF SenderSeals
  <2>3. ASSUME NEW i \in 1 .. Len(queue)
        PROVE  OnItsWay(queue[i])'
    <3>1. queue[i].from = sender.item.from => sender.item.n < queue[i].n
      BY <1>0, <1>3 DEF SenderSeals, SenderInv
    <3>2. OnItsWay(queue[i])
      BY <1>0 DEF QueueInv
    <3> QED
      BY <2>1, <2>2, <3>1, <3>2 DEF OnItsWay
  <2> QED
    BY <1>0, <2>1, <2>3 DEF QueueInv
<1>4. CASE Restart
  <2>1. Len(queue') = 0
    BY <1>4 DEF Restart
  <2> QED
    BY <1>0, <2>1 DEF QueueInv
<1>5. ASSUME UNCHANGED <<queue, sender, downWire>>
      PROVE  QueueInv'
  <2>1. ASSUME NEW i \in 1 .. Len(queue)
        PROVE  OnItsWay(queue[i])'
    <3>1. queue[i] \in DownstreamPacket /\ OnItsWay(queue[i])
      BY <1>0 DEF QueueInv
    <3> QED
      BY <1>5, <3>1, OnItsWayStable DEF OnItsWay
  <2> QED
    BY <1>0, <1>5, <2>1 DEF QueueInv
<1> QED
  BY <1>1, <1>2, <1>3, <1>4, <1>5, ReturnFootprint

LEMMA SenderNext ==
    ASSUME IInv, [Next]_vars
    PROVE  SenderInv'
<1>0. /\ queue \in Seq(DownstreamPacket)
      /\ sender \in [item : DownstreamPacket, sess : Handlers] \cup {None}
      /\ sessions \in [SessionKeys -> Handlers \cup {None}]
      /\ QueueInv /\ SenderInv /\ TableKeyed
  BY DEF IInv, TypeOK
<1>1. ASSUME NEW s \in Handlers, DestReplies(s), sender # None
      PROVE  SenderInv'
  <2>0. PICK i : i = sender.item
    OBVIOUS
  <2>1. sender' = sender /\ UNCHANGED <<origin, downWire>>
    BY <1>1 DEF DestReplies, sessionVars
  <2>2. OnItsWay(i)'
    <3>1. OnItsWay(i) /\ i \in DownstreamPacket
      BY <1>0, <1>1, <2>0 DEF SenderInv
    <3> QED
      BY <2>1, <3>1, OnItsWayStable
  <2>3. i.from = s => i.n < heard[s] + 1
    <3>1. i.from = s => i.n \in 1 .. heard[s]
      BY <1>0, <1>1, <2>0 DEF SenderInv, OnItsWay
    <3>2. heard[s] \in Nat
      BY DEF IInv, TypeOK
    <3> QED
      BY <3>1, <3>2
  <2>4. \A j \in 1 .. Len(queue') : queue'[j].from = i.from => i.n < queue'[j].n
    <3>1. queue' = Append(queue, [skey |-> origin[s].skey, from |-> s, n |-> heard[s] + 1])
      BY <1>1 DEF DestReplies
    <3>2. \A j \in 1 .. Len(queue') :
             \/ j \in 1 .. Len(queue) /\ queue'[j] = queue[j]
             \/ queue'[j] = [skey |-> origin[s].skey, from |-> s, n |-> heard[s] + 1]
      BY <1>0, <3>1
    <3>3. \A j \in 1 .. Len(queue) : queue[j].from = i.from => i.n < queue[j].n
      BY <1>0, <1>1, <2>0 DEF SenderInv
    <3> QED
      BY <2>3, <3>2, <3>3
  <2> QED
    BY <1>0, <1>1, <2>0, <2>1, <2>2, <2>4 DEF SenderInv, OnItsWay
<1>2. CASE SenderTakes
  <2>1. /\ Len(queue) \in Nat /\ 1 \in 1 .. Len(queue)
        /\ Head(queue) = queue[1] /\ Head(queue) \in DownstreamPacket
        /\ \A j \in 1 .. Len(queue') : j + 1 \in 1 .. Len(queue) /\ 1 < j + 1
                                      /\ queue'[j] = queue[j + 1]
    BY <1>0, <1>2 DEF SenderTakes
  <2>2. PICK i \in DownstreamPacket : i = Head(queue)
    BY <2>1
  <2>3. OnItsWay(i)'
    <3>1. OnItsWay(i)
      BY <1>0, <2>1, <2>2 DEF QueueInv
    <3> QED
      BY <1>2, <3>1, OnItsWayStable DEF SenderTakes
  <2>4. \A j \in 1 .. Len(queue') : queue'[j].from = i.from => i.n < queue'[j].n
    BY <1>0, <2>1, <2>2 DEF QueueInv
  <2>5. CASE sessions[i.skey] = None
    BY <1>2, <2>2, <2>5 DEF SenderTakes, SenderInv
  <2>6. CASE sessions[i.skey] # None
    <3>1. sender' = [item |-> i, sess |-> sessions[i.skey]] /\ origin' = origin
      BY <1>2, <2>2, <2>6 DEF SenderTakes, sessionVars
    <3>2. origin[sessions[i.skey]] # None /\ origin[sessions[i.skey]].skey = i.skey
      BY <1>0, <2>2, <2>6 DEF TableKeyed, Occupied, DownstreamPacket
    <3>3. sender'.item = i /\ sender'.sess = sessions[i.skey]
      BY <3>1
    <3> QED
      BY <2>3, <2>4, <3>1, <3>2, <3>3 DEF SenderInv, OnItsWay
  <2> QED
    BY <2>5, <2>6
<1>3. CASE SenderSeals \/ Restart
  BY <1>3 DEF SenderSeals, Restart, SenderInv
<1>4. ASSUME UNCHANGED <<queue, sender, downWire>>, sender # None
      PROVE  SenderInv'
  <2>0. PICK i : i = sender.item
    OBVIOUS
  <2>1. i \in DownstreamPacket /\ sender.sess \in Handlers /\ OnItsWay(i)
    BY <1>0, <1>4, <2>0 DEF SenderInv
  <2>2. OnItsWay(i)'
    BY <1>4, <2>1, OnItsWayStable
  <2>3. origin'[sender.sess] = origin[sender.sess]
    BY <1>0, <1>4, <2>1, OriginStable DEF SenderInv
  <2> QED
    BY <1>0, <1>4, <2>0, <2>2, <2>3 DEF SenderInv, OnItsWay
<1>5. ASSUME sender = None, sender' = sender
      PROVE  SenderInv'
  BY <1>5 DEF SenderInv
<1>6. \A s \in Handlers : DestReplies(s) => sender' = sender
  BY DEF DestReplies
<1> QED
  BY <1>1, <1>2, <1>3, <1>4, <1>5, <1>6, ReturnFootprint

\* What a step may add to the frames sent: the answer the sender has in hand,
\* numbered past everything its session object sealed before.
LEMMA SealedFrame ==
    ASSUME IInv, SenderSeals
    PROVE  \E w \in DownFrame :
              /\ downWire' = downWire \cup {w}
              /\ OnItsWay([skey |-> w.skey, from |-> w.from, n |-> w.n])
              /\ origin[w.via] # None
              /\ origin[w.via].skey = w.skey
              /\ w.aead = origin[w.via].aead
              /\ w.seq = tx[w.via] + 1
              /\ tx' = [tx EXCEPT ![w.via] = w.seq]
<1> DEFINE i == sender.item
           v == sender.sess
           w == [skey |-> i.skey, aead |-> origin[v].aead, seq |-> tx[v] + 1,
                 from |-> i.from, n |-> i.n, via |-> v]
<1>1. /\ i \in DownstreamPacket /\ v \in Handlers /\ origin[v] \in SynFrame
      /\ origin[v] # None /\ origin[v].skey = i.skey /\ OnItsWay(i) /\ tx[v] \in Nat
  BY DEF IInv, TypeOK, SenderSeals, SenderInv
<1>2. w \in DownFrame
  BY <1>1 DEF DownstreamPacket, DownFrame, SynFrame
<1>3. downWire' = downWire \cup {w} /\ tx' = [tx EXCEPT ![v] = w.seq]
  BY DEF SenderSeals
<1>4. OnItsWay([skey |-> w.skey, from |-> w.from, n |-> w.n])
  BY <1>1 DEF OnItsWay
<1> QED
  BY <1>1, <1>2, <1>3, <1>4

LEMMA SentNext ==
    ASSUME IInv, [Next]_vars
    PROVE  CounterInv' /\ ReturnPath' /\ SeqNamesFrame' /\ DownstreamInOrder'
<1>0. /\ downWire \subseteq DownFrame /\ tx \in [Handlers -> Nat]
      /\ CounterInv /\ ReturnPath /\ SeqNamesFrame /\ DownstreamInOrder
  BY DEF IInv, TypeOK
<1>1. \A w \in downWire : w.from \in Handlers /\ w.via \in Handlers
                          /\ w.n \in Nat /\ w.seq \in Nat
  BY <1>0 DEF DownFrame
<1>2. CASE SenderSeals
  <2>1. PICK w \in DownFrame :
              /\ downWire' = downWire \cup {w}
              /\ OnItsWay([skey |-> w.skey, from |-> w.from, n |-> w.n])
              /\ origin[w.via] # None
              /\ origin[w.via].skey = w.skey
              /\ w.aead = origin[w.via].aead
              /\ w.seq = tx[w.via] + 1
              /\ tx' = [tx EXCEPT ![w.via] = w.seq]
    BY <1>2, SealedFrame
  <2>2. w.from \in Handlers /\ w.via \in Handlers /\ w.n \in Nat /\ w.seq \in Nat
    BY DEF DownFrame
  <2>3. /\ origin[w.from] # None /\ origin[w.from].skey = w.skey
        /\ w.n \in 1 .. heard[w.from]
        /\ \A x \in downWire : x.from = w.from => x.n < w.n
    BY <2>1 DEF OnItsWay
  <2>4. \A x \in downWire : x.via = w.via => x.seq < w.seq
    BY <1>0, <1>1, <2>1, <2>2 DEF CounterInv
  <2>5. origin' = origin /\ heard' = heard
    BY <1>2 DEF SenderSeals, historyVars
  <2>6. CounterInv'
    BY <1>0, <1>1, <2>1, <2>2, <2>4 DEF CounterInv
  <2>7. ReturnPath'
    BY <1>0, <2>1, <2>3, <2>5 DEF ReturnPath
  <2>8. SeqNamesFrame'
    BY <1>0, <1>1, <2>1, <2>2, <2>4 DEF SeqNamesFrame
  <2>9. DownstreamInOrder'
    BY <1>0, <1>1, <2>1, <2>2, <2>3, <2>4 DEF DownstreamInOrder
  <2> QED
    BY <2>6, <2>7, <2>8, <2>9
<1>3. CASE UNCHANGED <<tx, downWire>>
  <2>1. \A w \in downWire :
           /\ origin[w.from] # None => origin'[w.from] = origin[w.from]
           /\ origin[w.via] # None => origin'[w.via] = origin[w.via]
           /\ heard[w.from] \in Nat /\ heard'[w.from] \in Nat /\ heard[w.from] <= heard'[w.from]
    BY <1>1, OriginStable
  <2>2. ReturnPath'
    BY <1>0, <1>1, <1>3, <2>1 DEF ReturnPath
  <2> QED
    BY <1>0, <1>3, <2>2 DEF CounterInv, SeqNamesFrame, DownstreamInOrder
<1>4. ASSUME NEW h \in Handlers, ConnectOk(h)
      PROVE  CounterInv' /\ ReturnPath' /\ SeqNamesFrame' /\ DownstreamInOrder'
  <2>1. origin[h] = None /\ downWire' = downWire /\ tx' = [tx EXCEPT ![h] = 0]
        /\ origin' = [origin EXCEPT ![h] = pkt[h]] /\ heard' = heard
    BY <1>4 DEF ConnectOk, IInv, TaskInv, returnVars, historyVars
  <2>2. \A w \in downWire : w.via # h /\ w.from # h
    BY <1>0, <2>1 DEF ReturnPath
  <2>3. \A w \in downWire :
           tx'[w.via] = tx[w.via] /\ origin'[w.via] = origin[w.via]
           /\ origin'[w.from] = origin[w.from]
    BY <1>0, <1>1, <2>1, <2>2 DEF IInv, TypeOK
  <2> QED
    BY <1>0, <2>1, <2>3 DEF CounterInv, ReturnPath, SeqNamesFrame, DownstreamInOrder
<1>5. SenderSeals \/ UNCHANGED <<tx, downWire>> \/ \E h \in Handlers : ConnectOk(h)
  <2>1. Restart \/ UNCHANGED vars => UNCHANGED <<tx, downWire>>
    BY DEF Restart, vars
  <2> QED
    BY <2>1, HandleFootprint, ServiceFootprint, ReceiveFootprint DEF Next
<1> QED
  BY <1>2, <1>3, <1>4, <1>5

-----------------------------------------------------------------------------
(* The theorems *)

LEMMA InvInitial == Init => IInv
<1> SUFFICES ASSUME Init PROVE IInv
  OBVIOUS
<1>1. TypeOK
  BY TypeInitial
<1>2. Len(queue) = 0 /\ \A s \in Handlers : DOMAIN written[s] = {}
  BY DEF Init
<1>3. None \notin Handlers
  BY BridgeAssumption DEF Handlers
<1> QED
  BY <1>1, <1>2, <1>3
     DEF Init, IInv, TaskInv, OneWriter, TableKeyed, Occupied, OriginInv, Confinement,
         QueueInv, SenderInv, CounterInv, ReturnPath, SeqNamesFrame, DownstreamInOrder

LEMMA InvNext == IInv /\ [Next]_vars => IInv'
BY TypeNext, TaskNext, OneWriterNext, TableNext, OriginNext, ConfinementNext, QueueNext,
   SenderNext, SentNext DEF IInv

\* The inductive invariant holds of every reachable state of the bridge.
THEOREM BridgeInvariant == Spec => []IInv
BY InvInitial, InvNext, PTL DEF Spec

\* Every variable of the bridge keeps its type.
THEOREM TypeCorrect == Spec => []TypeOK
BY BridgeInvariant, PTL DEF IInv

\* forward_data writes to a destination only what the client that opened the
\* session sealed for it, whatever is replaced, reaped or restarted meanwhile.
THEOREM Confined == Spec => []Confinement
BY BridgeInvariant, PTL DEF IInv

\* The session mutex serialises the writers of a destination and no exit path of
\* forward_data leaves it taken.
THEOREM WritersExclude == Spec => []OneWriter
BY BridgeInvariant, PTL DEF IInv

\* Every frame downstream_sender emits carries an answer to the client that
\* asked for it.
THEOREM AnswersReturn == Spec => []ReturnPath
BY BridgeInvariant, PTL DEF IInv

\* A key seals two frames under one number only through two session objects made
\* from the same SYN (accept_new_session, downstream_sender; see NumberedOnce).
THEOREM NumberedOnceHolds == Spec => []NumberedOnce
<1>1. IInv => NumberedOnce
  <2> SUFFICES ASSUME IInv, NEW v \in downWire, NEW w \in downWire,
                      v.skey = w.skey, v.aead = w.aead, v.seq = w.seq, v # w
               PROVE  v.via # w.via /\ origin[v.via] = origin[w.via]
    BY DEF NumberedOnce
  <2>1. v.via # w.via
    BY DEF IInv, SeqNamesFrame
  <2>2. /\ origin[v.via].skey = v.skey /\ origin[v.via].aead = v.aead
        /\ origin[w.via].skey = w.skey /\ origin[w.via].aead = w.aead
        /\ origin[v.via] # None /\ origin[w.via] # None
    BY DEF IInv, ReturnPath
  <2>3. v.via \in Handlers /\ w.via \in Handlers
    BY DEF IInv, TypeOK, DownFrame
  <2>4. /\ origin[v.via] \in ClientFrames /\ origin[v.via].kind = "syn"
        /\ origin[w.via] \in ClientFrames /\ origin[w.via].kind = "syn"
    BY <2>2, <2>3 DEF IInv, OriginInv
  <2> QED  BY <2>1, <2>2, <2>4, FreshKeys
<1> QED  BY <1>1, BridgeInvariant, PTL

\* The answers of one destination leave once each and in the order in which
\* drain_dest read them.
THEOREM AnswersInOrder == Spec => []DownstreamInOrder
BY BridgeInvariant, PTL DEF IInv

-----------------------------------------------------------------------------
(* The session limit *)

LEMMA AcceptBounded ==
    ASSUME TypeOK, LimitInv, NEW h \in Handlers, AcceptSyn(h)
    PROVE  LimitInv'
<1>1. /\ IsFiniteSet(Connecting) /\ Cardinality(Connecting) \in Nat
      /\ IsFiniteSet(Occupied) /\ Cardinality(Occupied) \in Nat
      /\ peak \in Nat /\ MaxSessions \in Nat
  BY ConnectingFinite, BridgeAssumption, FS_CardinalityType DEF LimitInv, TypeOK
<1>2. Connecting' = Connecting \cup {h} /\ h \notin Connecting
  BY DEF AcceptSyn, Connecting, TypeOK
<1>3. Cardinality(Connecting') = Cardinality(Connecting) + 1
  BY <1>1, <1>2, FS_AddElement
<1>4. Occupied' = Occupied
  BY DEF AcceptSyn, Occupied
<1>5. Cardinality(Connecting) + 1 <= peak' /\ peak' \in Nat
      /\ Cardinality(Occupied) < MaxSessions
  BY <1>1 DEF AcceptSyn, TableHasRoom
<1> QED
  BY <1>1, <1>3, <1>4, <1>5 DEF LimitInv, LimitUpToOverlap

LEMMA ConnectBounded ==
    ASSUME TypeOK, LimitInv, NEW h \in Handlers, ConnectOk(h)
    PROVE  LimitInv'
<1>1. /\ IsFiniteSet(Connecting) /\ Cardinality(Connecting) \in Nat
      /\ IsFiniteSet(Occupied) /\ Cardinality(Occupied) \in Nat
      /\ peak \in Nat /\ MaxSessions \in Nat
  BY ConnectingFinite, BridgeAssumption, FS_CardinalityType DEF LimitInv, TypeOK
<1>2. Connecting' = Connecting \ {h} /\ h \in Connecting
  BY DEF ConnectOk, Finish, Connecting, TypeOK
<1>3. Cardinality(Connecting') = Cardinality(Connecting) - 1
  BY <1>1, <1>2, FS_RemoveElement
<1>4. PICK k : Occupied' \subseteq Occupied \cup {k}
  BY DEF ConnectOk, Occupied, TypeOK
<1>5. /\ IsFiniteSet(Occupied \cup {k})
      /\ Cardinality(Occupied \cup {k}) <= Cardinality(Occupied) + 1
      /\ Cardinality(Occupied \cup {k}) \in Nat
  <2>1. IsFiniteSet(Occupied \cup {k}) /\ Cardinality(Occupied \cup {k}) \in Nat
    BY <1>1, FS_AddElement, FS_CardinalityType
  <2>2. CASE k \in Occupied
    BY <1>1, <2>1, <2>2, FS_AddElement
  <2>3. CASE k \notin Occupied
    BY <1>1, <2>1, <2>3, FS_AddElement
  <2> QED
    BY <2>1, <2>2, <2>3
<1>6. /\ IsFiniteSet(Occupied')
      /\ Cardinality(Occupied') \in Nat
      /\ Cardinality(Occupied') <= Cardinality(Occupied) + 1
  <2>1. IsFiniteSet(Occupied') /\ Cardinality(Occupied') <= Cardinality(Occupied \cup {k})
    BY <1>4, <1>5, FS_Subset
  <2>2. Cardinality(Occupied') \in Nat
    BY <2>1, FS_CardinalityType
  <2> QED
    BY <1>1, <1>5, <2>1, <2>2
<1>7. peak' = peak
  BY DEF ConnectOk, historyVars
<1>8. peak # 0
  <2>1. Cardinality(Connecting') \in Nat
    BY ConnectingFinite, <1>1, <1>2, FS_RemoveElement, FS_CardinalityType
  <2> QED
    BY <1>1, <1>3, <2>1 DEF LimitInv
<1> QED
  BY <1>1, <1>3, <1>6, <1>7, <1>8 DEF LimitInv, LimitUpToOverlap

\* A step that starts no accept and opens no session keeps the bound.
LEMMA ShrinkBounded ==
    ASSUME LimitInv, TypeOK, peak' = peak,
           Connecting' \subseteq Connecting, Occupied' \subseteq Occupied
    PROVE  LimitInv'
<1>1. /\ IsFiniteSet(Connecting) /\ Cardinality(Connecting) \in Nat
      /\ IsFiniteSet(Occupied) /\ Cardinality(Occupied) \in Nat
      /\ peak \in Nat /\ MaxSessions \in Nat
  BY ConnectingFinite, BridgeAssumption, FS_CardinalityType DEF LimitInv, TypeOK
<1>2. /\ IsFiniteSet(Connecting') /\ Cardinality(Connecting') <= Cardinality(Connecting)
      /\ IsFiniteSet(Occupied') /\ Cardinality(Occupied') <= Cardinality(Occupied)
  BY <1>1, FS_Subset
<1>3. Cardinality(Connecting') \in Nat /\ Cardinality(Occupied') \in Nat
  BY <1>2, FS_CardinalityType
<1> QED
  BY <1>1, <1>2, <1>3 DEF LimitInv, LimitUpToOverlap

LEMMA LimitNext == IInv /\ LimitInv /\ [Next]_vars => LimitInv'
<1> SUFFICES ASSUME IInv, LimitInv, [Next]_vars PROVE LimitInv'
  OBVIOUS
<1>0. TypeOK
  BY DEF IInv
<1>1. ASSUME NEW h \in Handlers, Handle(h), ~AcceptSyn(h), ~ConnectOk(h)
      PROVE  LimitInv'
  <2>1. peak' = peak /\ sessions' = sessions
        /\ \A g \in Handlers : pc'[g] = "connecting" => pc[g] = "connecting"
    BY <1>0, <1>1 DEF TypeOK, Handle, Step, Write, RefuseSyn, ConnectFails, FindSession,
       DropUnknown, LockSession, RejectFrame, WriteDest, WriteFails, Finish,
       sessionVars, returnVars, historyVars
  <2>2. Connecting' \subseteq Connecting /\ Occupied' \subseteq Occupied
    BY <2>1 DEF Connecting, Occupied
  <2> QED
    BY <1>0, <2>1, <2>2, ShrinkBounded
<1>2. ASSUME NEW h \in Handlers, NEW f \in ClientFrames, Receive(h, f)
      PROVE  LimitInv'
  <2>1. Connecting' \subseteq Connecting /\ Occupied' \subseteq Occupied /\ peak' = peak
    BY <1>0, <1>2 DEF TypeOK, Receive, Connecting, Occupied, historyVars
  <2> QED
    BY <1>0, <2>1, ShrinkBounded
<1>3. CASE (\E h \in Handlers : Drain(h) \/ GoIdle(h)) \/ Sender \/ Reaper
  <2>1. pc' = pc /\ peak' = peak
    BY <1>3, ServiceFootprint
  <2>2. ReapRemove \/ sessions' = sessions
    BY <1>3, ServiceFootprint
  <2>3. Occupied' \subseteq Occupied
    BY <2>2 DEF ReapRemove, Occupied
  <2>4. Connecting' \subseteq Connecting
    BY <2>1 DEF Connecting
  <2> QED
    BY <1>0, <2>1, <2>3, <2>4, ShrinkBounded
<1>4. CASE Restart \/ UNCHANGED vars
  <2>1. Connecting' \subseteq Connecting /\ Occupied' \subseteq Occupied /\ peak' = peak
    BY <1>4 DEF Restart, vars, Connecting, Occupied, historyVars
  <2> QED
    BY <1>0, <2>1, ShrinkBounded
<1> QED
  BY <1>0, <1>1, <1>2, <1>3, <1>4, AcceptBounded, ConnectBounded DEF Next

\* accept_new_session tests max_sessions before it awaits the destination: the
\* table never exceeds the limit by as many sessions as accepts overlapped.
THEOREM LimitOverrun == Spec => []LimitUpToOverlap
<1>1. Init => LimitInv
  <2> SUFFICES ASSUME Init PROVE LimitInv
    OBVIOUS
  <2>1. Connecting = {} /\ Occupied = {} /\ peak = 0
    BY DEF Init, Connecting, Occupied
  <2> QED
    BY <2>1, FS_EmptySet DEF LimitInv, LimitUpToOverlap
<1>2. LimitInv => LimitUpToOverlap
  BY DEF LimitInv
<1> QED
  BY <1>1, <1>2, LimitNext, BridgeInvariant, PTL DEF Spec

-----------------------------------------------------------------------------
(* The bridge implements RelayService *)

\* The four steps of the bridge that a client or a destination can see are steps
\* of the relay; every other one leaves the relay's state alone.
LEMMA RelayStep == IInv /\ [Next]_vars => [Relay!Next]_(Relay!vars)
<1> SUFFICES ASSUME IInv, [Next]_vars PROVE Relay!Next \/ UNCHANGED Relay!vars
  OBVIOUS
<1>1. ASSUME NEW h \in Handlers, ConnectOk(h)
      PROVE  \E f \in ClientFrames :
                f.kind = "syn" /\ Admissible(f) /\ Relay!OpenRelay(h, f)
  <2>1. origin[h] = None /\ pkt[h] \in ClientFrames /\ pkt[h].kind = "syn"
        /\ Admissible(pkt[h])
    BY <1>1 DEF IInv, TaskInv, ConnectOk
  <2>2. Relay!OpenRelay(h, pkt[h])
    BY <1>1, <2>1 DEF Relay!OpenRelay, ConnectOk, returnVars, historyVars
  <2> QED
    BY <2>1, <2>2
<1>2. ASSUME NEW h \in Handlers, WriteDest(h)
      PROVE  \E r \in Handlers, f \in ClientFrames :
                f.kind = "data" /\ Relay!Forward(r, f)
  <2>1. /\ on[h] \in Handlers /\ pkt[h] \in ClientFrames /\ pkt[h].kind = "data"
        /\ origin[on[h]] # None
        /\ pkt[h].skey = origin[on[h]].skey /\ pkt[h].aead = origin[on[h]].aead
    BY <1>2 DEF IInv, TaskInv, WriteDest, Opens
  <2>2. Relay!Forward(on[h], pkt[h])
    BY <1>2, <2>1 DEF Relay!Forward, WriteDest, returnVars
  <2> QED
    BY <2>1, <2>2
<1>3. ASSUME NEW s \in Handlers, DestReplies(s)
      PROVE  Relay!Answer(s)
  <2>1. origin[s] # None
    BY <1>3 DEF IInv, OriginInv, DestReplies
  <2> QED
    BY <1>3, <2>1 DEF Relay!Answer, DestReplies, sessionVars
<1>4. ASSUME SenderSeals
      PROVE  \E r, v \in Handlers : Relay!Return(r, v)
  <2>1. PICK w \in DownFrame :
              /\ downWire' = downWire \cup {w}
              /\ OnItsWay([skey |-> w.skey, from |-> w.from, n |-> w.n])
              /\ origin[w.via] # None
              /\ origin[w.via].skey = w.skey
              /\ w.aead = origin[w.via].aead
              /\ w.seq = tx[w.via] + 1
              /\ tx' = [tx EXCEPT ![w.via] = w.seq]
    BY <1>4, SealedFrame
  <2>2. w.from \in Handlers /\ w.via \in Handlers /\ w.seq \in Nat
    BY DEF DownFrame
  <2>3. /\ origin[w.from] # None /\ origin[w.from].skey = w.skey
        /\ w.n \in 1 .. heard[w.from]
        /\ \A x \in downWire : x.from = w.from => x.n < w.n
    BY <2>1 DEF OnItsWay
  <2>4. \A x \in downWire : x.via = w.via => x.seq < w.seq
    <3>1. \A x \in downWire : x.seq \in Nat /\ x.via \in Handlers
      BY DEF IInv, TypeOK, DownFrame
    <3>2. tx[w.via] \in Nat
      BY <2>2 DEF IInv, TypeOK
    <3> QED
      BY <2>1, <3>1, <3>2 DEF IInv, CounterInv
  <2>5. UNCHANGED <<origin, written, heard>>
    BY <1>4 DEF SenderSeals, historyVars
  <2>6. Relay!Return(w.from, w.via)
    BY <2>1, <2>3, <2>4, <2>5 DEF Relay!Return
  <2> QED
    BY <2>2, <2>6
<1>5. \/ \E h \in Handlers : ConnectOk(h) \/ WriteDest(h)
      \/ \E s \in Handlers : DestReplies(s)
      \/ SenderSeals
      \/ UNCHANGED Relay!vars
  <2>1. Restart \/ UNCHANGED vars => UNCHANGED <<origin, written, heard, downWire>>
    BY DEF Restart, vars, historyVars
  <2> QED
    BY <2>1, HandleFootprint, ServiceFootprint, ReceiveFootprint DEF Next, Relay!vars
<1> QED
  BY <1>1, <1>2, <1>3, <1>4, <1>5 DEF Relay!Next

\* Tasks, table, mutexes and channel, with replacement, reaping and restarts,
\* implement the relay that RelayService describes.
THEOREM BridgeImplementsRelay == Spec => RelayRefinement
<1>1. Init => Relay!Init
  BY DEF Init, Relay!Init
<1> QED
  BY <1>1, RelayStep, BridgeInvariant, PTL DEF Spec, RelayRefinement, Relay!Spec

===============================================================================
