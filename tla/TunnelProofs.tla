----------------------------- MODULE TunnelProofs -----------------------------
(***************************************************************************)
(* For any local sources, tunnels and connections, over a network that     *)
(* loses, duplicates and reorders: what a local source says and hears end  *)
(* to end is its own, and the whole is the service that EndToEnd describes.*)
(***************************************************************************)
EXTENDS Tunnel, TLAPS

\* A data frame's datagram came from the source that owns the tunnel, and its
\* number has been given out.
SealedOwn ==
    \A d \in sealed :
        /\ d.src = owner[d.tun]
        /\ d.seq <= seq[d.tun]
        /\ d.n \in 1 .. spoken[d.src]

\* Every data frame on the wire carries a datagram; every SYN is of a tunnel.
WireOwn ==
    \A f \in upWire :
        /\ f.kind = "syn" => owner[f.skey] # None
        /\ f.kind = "data" => Carried(f) # {}

\* The listener sends a source's datagram through a tunnel of that source.
LoopOwn ==
    loop # None =>
        /\ loop.n \in 1 .. spoken[loop.src]
        /\ loop.tun # None => owner[loop.tun] = loop.src

TableOwn == \A l \in Locals : table[l] # None => owner[table[l]] = l

RunningOwned == \A t \in Tunnels : responder[t] = "running" => owner[t] # None

\* A connection is opened by a SYN that was sent, and given frames that were.
OpenedSent ==
    \A r \in Relays : opened[r] # None => opened[r] \in upWire /\ opened[r].kind = "syn"

ForwardedOwn ==
    \A r \in Relays : \A i \in DOMAIN forwarded[r] :
        /\ opened[r] # None
        /\ forwarded[r][i] \in upWire
        /\ forwarded[r][i].kind = "data"
        /\ forwarded[r][i].skey = opened[r].skey

\* An answer travels under the session key of the connection it is from.
ReturnedOwn ==
    \A w \in returned :
        /\ w.from \in Relays
        /\ opened[w.from] # None
        /\ w.skey = opened[w.from].skey
        /\ w.n \in 1 .. answers[w.from]

DeliveredOwn ==
    \A d \in delivered : d.to = owner[d.by] /\ d.frame.skey = d.by

ClientInv == SealedOwn /\ FramesDistinct /\ WireOwn /\ LoopOwn /\ TableOwn /\ RunningOwned

BridgeInv == OpenedSent /\ ForwardedOwn /\ ReturnedOwn

IInv == TypeOK /\ ClientInv /\ BridgeInv /\ DeliveredOwn

-----------------------------------------------------------------------------

LEMMA InitIInv == Init => IInv
  BY ClientAssumption, TunnelAssumption
  DEF Init, ClientInit, Bridge!Init, IInv, TypeOK, ClientInv, BridgeInv, DeliveredOwn,
      SealedOwn, FramesDistinct, WireOwn, LoopOwn, TableOwn, RunningOwned, OpenedSent,
      ForwardedOwn, ReturnedOwn, Tunnels, Relays

\* What the bridge holds stays true when the client only adds: frames to the wire,
\* owners to tunnels.
LEMMA BridgeInvKept ==
    ASSUME IInv, UNCHANGED bridgeVars, upWire \subseteq upWire'
    PROVE  BridgeInv'
  BY DEF IInv, BridgeInv, OpenedSent, ForwardedOwn, ReturnedOwn, bridgeVars

LEMMA ReadLocalStep ==
    ASSUME IInv, NEW l \in Locals, ReadLocal(l), UNCHANGED bridgeVars
    PROVE  IInv'
  <1> USE DEF ReadLocal, reaperVars
  <1>1. TypeOK'
    BY ClientAssumption DEF IInv, TypeOK, bridgeVars, Tunnels
  <1>2. SealedOwn'
    <2>1. \A k \in Locals : spoken[k] \in Nat /\ spoken'[k] \in Nat /\ spoken[k] <= spoken'[k]
      BY ClientAssumption DEF IInv, TypeOK
    <2> QED BY <2>1 DEF IInv, TypeOK, ClientInv, SealedOwn
  <1>3. LoopOwn'
    BY ClientAssumption DEF IInv, TypeOK, ClientInv, TableOwn, LoopOwn
  <1>4. FramesDistinct' /\ WireOwn' /\ TableOwn' /\ RunningOwned' /\ DeliveredOwn'
    BY DEF IInv, ClientInv, FramesDistinct, WireOwn, Carried, TableOwn, RunningOwned, DeliveredOwn
  <1> QED BY <1>1, <1>2, <1>3, <1>4, BridgeInvKept DEF IInv, ClientInv

LEMMA OpenTunnelStep ==
    ASSUME IInv, NEW t \in Tunnels, OpenTunnel(t), UNCHANGED bridgeVars
    PROVE  IInv'
  <1> USE DEF OpenTunnel, reaperVars
  <1> DEFINE syn == [kind |-> "syn", skey |-> t, aead |-> t]
  <1>1. /\ syn \in SynFrame /\ upWire' = upWire \cup {syn}
        /\ loop \in [src : Locals, n : Nat, tun : Tunnels \cup {None}]
        /\ loop' = [loop EXCEPT !.tun = t]
    BY DEF SynFrame, IInv, TypeOK
  <1>2. /\ owner'[t] = loop.src /\ loop.src \in Locals /\ loop.src # None
        /\ \A u \in Tunnels : u # t => owner'[u] = owner[u]
        /\ \A u \in Tunnels : owner[u] # None => owner'[u] = owner[u]
    BY <1>1, ClientAssumption DEF IInv, TypeOK
  <1>3. TypeOK'
    BY <1>1 DEF IInv, TypeOK, bridgeVars
  <1>4. SealedOwn' /\ FramesDistinct'
    BY <1>2, ClientAssumption DEF IInv, TypeOK, ClientInv, SealedOwn, FramesDistinct
  <1>5. WireOwn'
    <2>1. \A f \in upWire : Carried(f)' = Carried(f)
      BY DEF Carried
    <2>2. \A f \in upWire : f.kind = "syn" => f.skey \in Tunnels
      BY DEF IInv, TypeOK, SynFrame, DataFrame
    <2> QED BY <1>1, <1>2, <2>1, <2>2 DEF IInv, ClientInv, WireOwn
  <1>6. LoopOwn' /\ TableOwn' /\ RunningOwned'
    BY <1>1, <1>2, ClientAssumption
    DEF IInv, TypeOK, ClientInv, LoopOwn, TableOwn, RunningOwned
  <1>7. DeliveredOwn'
    BY <1>2, ClientAssumption DEF IInv, TypeOK, DeliveredOwn
  <1> QED BY <1>1, <1>3, <1>4, <1>5, <1>6, <1>7, BridgeInvKept DEF IInv, ClientInv

\* A datagram is sealed under a number not given out before.
LEMMA ForwardLocalStep ==
    ASSUME IInv, ForwardLocal, UNCHANGED bridgeVars
    PROVE  IInv'
  <1>1. /\ loop # None /\ loop.tun # None /\ loop' = None
        /\ UNCHANGED <<spoken, table, owner, responder, reaperVars, delivered>>
    BY DEF ForwardLocal
  <1>2. PICK t \in Tunnels :
           /\ t = loop.tun /\ seq[t] \in Nat /\ loop.src \in Locals /\ loop.n \in Nat
           /\ owner[t] = loop.src /\ loop.n \in 1 .. spoken[loop.src]
           /\ seq' = [seq EXCEPT ![t] = @ + 1]
           /\ idle' = [idle EXCEPT ![t] = FALSE]
    BY <1>1 DEF IInv, TypeOK, ClientInv, LoopOwn, ForwardLocal
  <1>3. PICK f \in DataFrame, d \in [tun : Tunnels, seq : Nat, src : Locals, n : Nat] :
           /\ f.kind = "data" /\ f.skey = t /\ f.seq = seq[t] + 1
           /\ d.tun = t /\ d.seq = seq[t] + 1 /\ d.src = loop.src /\ d.n = loop.n
           /\ upWire' = upWire \cup {f} /\ sealed' = sealed \cup {d}
    <2>1. /\ [kind |-> "data", skey |-> t, aead |-> t, seq |-> seq[t] + 1] \in DataFrame
          /\ [tun |-> t, seq |-> seq[t] + 1, src |-> loop.src, n |-> loop.n]
                \in [tun : Tunnels, seq : Nat, src : Locals, n : Nat]
      BY <1>2 DEF DataFrame
    <2> QED BY <2>1, <1>2 DEF ForwardLocal
  <1>4. TypeOK'
    BY <1>1, <1>2, <1>3 DEF IInv, TypeOK, bridgeVars, reaperVars
  <1>5. SealedOwn'
    <2> SUFFICES ASSUME NEW e \in sealed'
                 PROVE  /\ e.src = owner[e.tun] /\ e.seq <= seq'[e.tun]
                        /\ e.n \in 1 .. spoken[e.src]
      BY <1>1 DEF SealedOwn
    <2>1. CASE e = d
      BY <2>1, <1>1, <1>2, <1>3 DEF IInv, TypeOK
    <2>2. CASE e \in sealed
      BY <2>2, <1>1, <1>2 DEF IInv, TypeOK, ClientInv, SealedOwn
    <2> QED BY <2>1, <2>2, <1>3
  <1>6. FramesDistinct'
    <2>1. \A e \in sealed : ~(e.tun = d.tun /\ e.seq = d.seq)
      BY <1>2, <1>3 DEF IInv, TypeOK, ClientInv, SealedOwn
    <2> QED BY <2>1, <1>3 DEF IInv, ClientInv, FramesDistinct
  <1>7. WireOwn'
    <2>1. d \in Carried(f)'
      BY <1>3 DEF Carried
    <2>2. \A g \in upWire : Carried(g) \subseteq Carried(g)'
      BY <1>3 DEF Carried
    <2> QED BY <2>1, <2>2, <1>1, <1>3 DEF IInv, ClientInv, WireOwn
  <1>8. LoopOwn' /\ TableOwn' /\ RunningOwned' /\ DeliveredOwn'
    BY <1>1 DEF IInv, ClientInv, LoopOwn, TableOwn, RunningOwned, DeliveredOwn
  <1> QED BY <1>3, <1>4, <1>5, <1>6, <1>7, <1>8, BridgeInvKept DEF IInv, ClientInv

LEMMA ForwardTooLongStep ==
    ASSUME IInv, ForwardTooLong, UNCHANGED bridgeVars
    PROVE  IInv'
  <1> USE DEF ForwardTooLong, reaperVars
  <1>1. loop.tun \in Tunnels
    BY DEF IInv, TypeOK
  <1>2. TypeOK'
    BY <1>1 DEF IInv, TypeOK, bridgeVars
  <1>3. SealedOwn'
    <2>1. \A u \in Tunnels : seq[u] \in Nat /\ seq'[u] \in Nat /\ seq[u] <= seq'[u]
      BY <1>1 DEF IInv, TypeOK
    <2> QED BY <2>1 DEF IInv, TypeOK, ClientInv, SealedOwn
  <1>4. FramesDistinct' /\ WireOwn' /\ LoopOwn' /\ TableOwn' /\ RunningOwned' /\ DeliveredOwn'
    BY DEF IInv, ClientInv, FramesDistinct, WireOwn, Carried, LoopOwn, TableOwn, RunningOwned,
           DeliveredOwn
  <1> QED BY <1>2, <1>3, <1>4, BridgeInvKept DEF IInv, ClientInv

\* A dropped datagram, the clock, the reaper and a failing responder touch nothing
\* that says whose a tunnel is.
LEMMA OtherClientSteps ==
    ASSUME IInv, UNCHANGED bridgeVars,
           \/ OpenFails
           \/ \E t \in Tunnels : ResponderFails(t) \/ GoIdle(t)
           \/ WarmsUp \/ Reaper
    PROVE  IInv'
  <1>1. /\ UNCHANGED <<spoken, owner, seq, upWire, sealed, delivered>>
        /\ loop' \in {loop, None}
        /\ \A l \in Locals : table'[l] \in {table[l], None}
        /\ \A t \in Tunnels : responder'[t] \in {responder[t], "ended"}
    BY DEF IInv, TypeOK, OpenFails, ResponderFails, GoIdle, WarmsUp, Reaper, ReaperPanics,
           ReapCollect, ReapRemove
  <1>2. TypeOK'
    <2>1. CASE OpenFails
      BY <2>1 DEF IInv, TypeOK, OpenFails, bridgeVars, reaperVars
    <2>2. CASE \E t \in Tunnels : ResponderFails(t) \/ GoIdle(t)
      BY <2>2 DEF IInv, TypeOK, ResponderFails, GoIdle, bridgeVars, reaperVars
    <2>3. CASE WarmsUp \/ Reaper
      BY <2>3 DEF IInv, TypeOK, WarmsUp, Reaper, ReaperPanics, ReapCollect, ReapRemove, Expired,
                  bridgeVars
    <2> QED BY <2>1, <2>2, <2>3
  <1>3. ClientInv' /\ DeliveredOwn'
    BY <1>1 DEF IInv, TypeOK, ClientInv, SealedOwn, FramesDistinct, WireOwn, Carried, LoopOwn,
                TableOwn, RunningOwned, DeliveredOwn
  <1> QED BY <1>1, <1>2, <1>3, BridgeInvKept DEF IInv

LEMMA AnsweredStep ==
    ASSUME IInv, NEW t \in Tunnels, Answered(t)
    PROVE  IInv'
  <1>1. PICK w \in returned : Respond(t, w)
    BY DEF Answered
  <1>2. UNCHANGED bridgeVars
    BY DEF Answered
  <1> USE <1>1, <1>2 DEF Respond, reaperVars
  <1>3. owner[t] \in Locals
    BY DEF IInv, TypeOK, ClientInv, RunningOwned
  <1>4. TypeOK'
    BY <1>3 DEF IInv, TypeOK, bridgeVars
  <1>5. ClientInv'
    BY DEF IInv, ClientInv, SealedOwn, FramesDistinct, WireOwn, Carried, LoopOwn, TableOwn,
           RunningOwned
  <1>6. DeliveredOwn'
    BY DEF IInv, DeliveredOwn
  <1> QED BY <1>4, <1>5, <1>6, BridgeInvKept DEF IInv

-----------------------------------------------------------------------------

LEMMA ClientInvKept ==
    ASSUME IInv, UNCHANGED clientVars
    PROVE  ClientInv' /\ DeliveredOwn'
  BY DEF IInv, ClientInv, SealedOwn, FramesDistinct, WireOwn, Carried, LoopOwn, TableOwn,
         RunningOwned, DeliveredOwn, clientVars

LEMMA BridgeOpensStep ==
    ASSUME IInv, NEW r \in Relays, BridgeOpens(r)
    PROVE  IInv'
  <1>1. PICK f \in upWire : f.kind = "syn" /\ Bridge!OpenRelay(r, f)
    BY DEF BridgeOpens
  <1>2. UNCHANGED clientVars
    BY DEF BridgeOpens
  <1> USE <1>1, <1>2 DEF Bridge!OpenRelay
  <1>3. f \in SynFrame
    BY DEF IInv, TypeOK, SynFrame, DataFrame
  <1>4. TypeOK'
    BY <1>3 DEF IInv, TypeOK, clientVars, reaperVars
  <1>5. \A q \in Relays : q # r => opened'[q] = opened[q]
    BY DEF IInv, TypeOK
  <1>6. OpenedSent'
    BY <1>5 DEF IInv, TypeOK, BridgeInv, OpenedSent, clientVars
  <1>7. ForwardedOwn' /\ ReturnedOwn'
    BY <1>5 DEF IInv, TypeOK, BridgeInv, ForwardedOwn, ReturnedOwn, clientVars
  <1> QED BY <1>4, <1>6, <1>7, ClientInvKept DEF IInv, BridgeInv

LEMMA BridgeForwardsStep ==
    ASSUME IInv, NEW r \in Relays, BridgeForwards(r)
    PROVE  IInv'
  <1>1. PICK f \in upWire : f.kind = "data" /\ Bridge!Forward(r, f)
    BY DEF BridgeForwards
  <1>2. UNCHANGED clientVars
    BY DEF BridgeForwards
  <1>3. f \in DataFrame
    BY <1>1 DEF IInv, TypeOK, SynFrame, DataFrame
  <1>4. /\ forwarded[r] \in Seq(DataFrame)
        /\ forwarded' = [forwarded EXCEPT ![r] = Append(forwarded[r], f)]
        /\ UNCHANGED <<opened, answers, returned>>
        /\ opened[r] # None /\ f.skey = opened[r].skey
    BY <1>1 DEF IInv, TypeOK, Bridge!Forward
  <1>5. TypeOK'
    <2>1. Append(forwarded[r], f) \in Seq(DataFrame)
      BY <1>3, <1>4
    <2> QED BY <1>2, <1>4, <2>1 DEF IInv, TypeOK, clientVars, reaperVars
  <1>6. ForwardedOwn'
    <2> SUFFICES ASSUME NEW q \in Relays, NEW i \in DOMAIN forwarded'[q]
                 PROVE  /\ opened[q] # None /\ forwarded'[q][i] \in upWire
                        /\ forwarded'[q][i].kind = "data"
                        /\ forwarded'[q][i].skey = opened[q].skey
      BY <1>2, <1>4 DEF ForwardedOwn, clientVars
    <2>1. CASE q # r
      BY <2>1, <1>4 DEF IInv, TypeOK, BridgeInv, ForwardedOwn
    <2>2. CASE q = r
      <3>1. /\ forwarded'[q] = Append(forwarded[r], f)
            /\ i \in 1 .. Len(forwarded[r]) + 1
        BY <2>2, <1>3, <1>4 DEF IInv, TypeOK
      <3>2. CASE i = Len(forwarded[r]) + 1
        BY <3>1, <3>2, <2>2, <1>1, <1>3, <1>4
      <3>3. CASE i \in 1 .. Len(forwarded[r])
        <4>1. forwarded'[q][i] = forwarded[r][i] /\ i \in DOMAIN forwarded[r]
          BY <3>1, <3>3, <1>3, <1>4
        <4> QED BY <4>1, <2>2 DEF IInv, BridgeInv, ForwardedOwn
      <3> QED BY <3>1, <3>2, <3>3, <1>4
    <2> QED BY <2>1, <2>2
  <1>7. OpenedSent' /\ ReturnedOwn'
    BY <1>2, <1>4 DEF IInv, BridgeInv, OpenedSent, ReturnedOwn, clientVars
  <1> QED BY <1>2, <1>5, <1>6, <1>7, ClientInvKept DEF IInv, BridgeInv

LEMMA DestAnswersStep ==
    ASSUME IInv, NEW r \in Relays, DestAnswers(r)
    PROVE  IInv'
  <1> USE DEF DestAnswers, Bridge!Answer
  <1>1. TypeOK'
    BY DEF IInv, TypeOK, clientVars, reaperVars
  <1>2. \A q \in Relays : answers[q] \in Nat /\ answers'[q] \in Nat /\ answers[q] <= answers'[q]
    BY DEF IInv, TypeOK
  <1>3. ReturnedOwn'
    BY <1>2 DEF IInv, BridgeInv, ReturnedOwn
  <1>4. OpenedSent' /\ ForwardedOwn'
    BY DEF IInv, BridgeInv, OpenedSent, ForwardedOwn, clientVars
  <1> QED BY <1>1, <1>3, <1>4, ClientInvKept DEF IInv, BridgeInv

LEMMA BridgeReturnsStep ==
    ASSUME IInv, NEW r \in Relays, NEW v \in Relays, BridgeReturns(r, v)
    PROVE  IInv'
  <1>1. /\ UNCHANGED <<clientVars, opened, forwarded, answers>>
        /\ opened[r] # None /\ opened[r].skey = opened[v].skey
    BY DEF BridgeReturns, Bridge!Return
  <1>2. PICK w : /\ returned' = returned \cup {w}
                 /\ w.from = r /\ w.skey = opened[v].skey /\ w.n \in 1 .. answers[r]
    BY DEF BridgeReturns, Bridge!Return
  <1>3. TypeOK'
    BY <1>1, <1>2 DEF IInv, TypeOK, clientVars, reaperVars
  <1>4. ReturnedOwn'
    BY <1>1, <1>2 DEF IInv, BridgeInv, ReturnedOwn
  <1>5. OpenedSent' /\ ForwardedOwn'
    BY <1>1 DEF IInv, BridgeInv, OpenedSent, ForwardedOwn, clientVars
  <1> QED BY <1>1, <1>3, <1>4, <1>5, ClientInvKept DEF IInv, BridgeInv

-----------------------------------------------------------------------------

\* Whose a tunnel, a connection, a frame and an answer are, at all times: from a
\* datagram read by the client to the answer handed back (run_udp_rule, open_tunnel,
\* the responder and the bridge behind them).
THEOREM InvariantHolds == Spec => []IInv
  <1>1. IInv /\ [Next]_vars => IInv'
    <2> SUFFICES ASSUME IInv, [Next]_vars PROVE IInv'
      OBVIOUS
    <2>1. CASE ClientStep
      BY <2>1, ReadLocalStep, OpenTunnelStep, ForwardLocalStep, ForwardTooLongStep,
         OtherClientSteps
      DEF ClientStep, ClientNext, Listener
    <2>2. CASE \E t \in Tunnels : Answered(t)
      BY <2>2, AnsweredStep
    <2>3. CASE \E r \in Relays :
                  \/ BridgeOpens(r) \/ BridgeForwards(r) \/ DestAnswers(r)
                  \/ \E v \in Relays : BridgeReturns(r, v)
      BY <2>3, BridgeOpensStep, BridgeForwardsStep, DestAnswersStep, BridgeReturnsStep
    <2>4. CASE UNCHANGED vars
      <3>1. TypeOK' /\ BridgeInv'
        BY <2>4 DEF IInv, TypeOK, BridgeInv, OpenedSent, ForwardedOwn, ReturnedOwn, vars,
                    clientVars, reaperVars, bridgeVars
      <3> QED BY <2>4, <3>1, ClientInvKept DEF vars, IInv
    <2> QED BY <2>1, <2>2, <2>3, <2>4 DEF Next
  <1> QED BY <1>1, InitIInv, PTL DEF Spec

\* The client's tasks and the bridge behind them never leave the types of TypeOK.
THEOREM TypesHold == Spec => []TypeOK
  BY InvariantHolds, PTL DEF IInv

\* The counter of a session (tx_sequence, fetch_add) never gives two datagrams of a
\* tunnel one number, for any number of tunnels opened and reaped.
THEOREM FramesDistinctHolds == Spec => []FramesDistinct
  <1>1. IInv => FramesDistinct
    BY DEF IInv, ClientInv
  <1> QED BY <1>1, InvariantHolds, PTL

\* A destination is given only what the local source that opened its tunnel said,
\* over any network: run_udp_rule looks a session up by source and open_tunnel
\* gives it a socket and keys of its own.
THEOREM UpIntegrityHolds == Spec => []UpIntegrity
  <1>1. IInv => UpIntegrity
    <2> SUFFICES ASSUME IInv, NEW r \in Relays, NEW i \in DOMAIN forwarded[r]
                 PROVE  \E d \in Carried(forwarded[r][i]) :
                            d.src = owner[opened[r].skey] /\ d.n \in 1 .. spoken[d.src]
      BY DEF UpIntegrity
    <2>1. PICK d \in Carried(forwarded[r][i]) : TRUE
      BY DEF IInv, ClientInv, WireOwn, BridgeInv, ForwardedOwn
    <2>2. d \in sealed /\ d.tun = opened[r].skey
      BY <2>1 DEF Carried, IInv, BridgeInv, ForwardedOwn
    <2> QED BY <2>1, <2>2 DEF IInv, ClientInv, SealedOwn
  <1> QED BY <1>1, InvariantHolds, PTL

\* A local source hears only answers of destinations opened on its behalf: a
\* responder keeps the source it was spawned for, whatever the reaper does.
THEOREM DownIntegrityHolds == Spec => []DownIntegrity
  <1>1. IInv => DownIntegrity
    BY DEF IInv, TypeOK, DeliveredOwn, BridgeInv, ReturnedOwn, DownIntegrity
  <1> QED BY <1>1, InvariantHolds, PTL

-----------------------------------------------------------------------------
(* The whole is the service EndToEnd.  What a connection's end and a frame's *)
(* message are, no step changes: owners stay, and sealed only grows.         *)

Grows ==
    /\ sealed \subseteq sealed'
    /\ \A t \in Tunnels : owner[t] # None => owner'[t] = owner[t]

LEMMA StepsGrow ==
    ASSUME IInv, [Next]_vars
    PROVE  Grows
<1>1. \A t \in Tunnels : OpenTunnel(t) => Grows
  BY DEF IInv, TypeOK, OpenTunnel, Grows
<1>2. CASE UNCHANGED <<sealed, owner>>
  BY <1>2 DEF Grows
<1>3. ForwardLocal => Grows
  BY DEF ForwardLocal, Grows
<1> QED
  BY <1>1, <1>2, <1>3
  DEF Next, ClientStep, ClientNext, Listener, Reaper, ReadLocal, OpenFails, ForwardTooLong,
      ResponderFails, GoIdle, WarmsUp, ReaperPanics, ReapCollect, ReapRemove, Answered, Respond,
      BridgeOpens, BridgeForwards, DestAnswers, BridgeReturns, vars, clientVars

LEMMA PartyIsOwner ==
    ASSUME IInv, NEW r \in Relays, opened[r] # None
    PROVE  Party(r) = owner[opened[r].skey] /\ opened[r].skey \in Tunnels /\ Party(r) \in Locals
<1>1. opened[r].skey \in Tunnels
  BY DEF IInv, TypeOK, SynFrame
<1>2. owner[opened[r].skey] # None
  BY DEF IInv, ClientInv, WireOwn, BridgeInv, OpenedSent
<1> QED
  BY <1>1, <1>2 DEF Party, IInv, TypeOK

LEMMA PartyKept ==
    ASSUME IInv, Grows, NEW r \in Relays, opened'[r] = opened[r]
    PROVE  Party(r)' = Party(r)
<1>1. CASE opened[r] = None
  BY <1>1 DEF Party
<1>2. CASE opened[r] # None
  BY <1>2, PartyIsOwner, ClientAssumption DEF Party, Grows
<1> QED
  BY <1>1, <1>2

\* A frame's message, once it is on the wire, is what the frame was sealed with.
LEMMA MessageKept ==
    ASSUME IInv, IInv', Grows, NEW f \in upWire, f.kind = "data"
    PROVE  Message(f)' = Message(f)
<1>1. Carried(f) # {} /\ Carried(f) \subseteq Carried(f)'
  BY DEF Grows, Carried, IInv, ClientInv, WireOwn
<1>2. \A d, e \in Carried(f)' : d = e
  BY DEF Carried, IInv, ClientInv, FramesDistinct
<1>3. Carried(f)' = Carried(f)
  BY <1>1, <1>2
<1> QED
  BY <1>3 DEF Message

LEMMA GivenKept ==
    ASSUME IInv, IInv', Grows, NEW r \in Relays, forwarded'[r] = forwarded[r]
    PROVE  Given(r)' = Given(r)
<1>1. \A i \in 1 .. Len(forwarded[r]) : Message(forwarded[r][i])' = Message(forwarded[r][i])
  <2> SUFFICES ASSUME NEW i \in 1 .. Len(forwarded[r])
               PROVE  Message(forwarded[r][i])' = Message(forwarded[r][i])
    OBVIOUS
  <2>1. i \in DOMAIN forwarded[r]
    BY DEF IInv, TypeOK
  <2>2. forwarded[r][i] \in upWire /\ forwarded[r][i].kind = "data"
    BY <2>1 DEF IInv, BridgeInv, ForwardedOwn
  <2>3. forwarded'[r][i] = forwarded[r][i]
    OBVIOUS
  <2> HIDE DEF Message
  <2> QED
    BY <2>2, <2>3, MessageKept
<1> QED
  BY <1>1 DEF Given

LEMMA AppendLast ==
    ASSUME NEW k \in Nat, NEW g, g = [i \in 1 .. k + 1 |-> g[i]]
    PROVE  g = Append([i \in 1 .. k |-> g[i]], g[k + 1])
<1> DEFINE T == {g[i] : i \in 1 .. k + 1}
           h == [i \in 1 .. k |-> g[i]]
<1>1. h \in Seq(T) /\ Len(h) = k /\ g[k + 1] \in T
  <2>1. h \in [1 .. k -> T] /\ k + 1 \in 1 .. k + 1
    OBVIOUS
  <2> HIDE DEF h
  <2>2. h \in Seq(T)
    BY <2>1
  <2>3. DOMAIN h = 1 .. k /\ Len(h) = k
    BY <2>1, <2>2
  <2> QED
    BY <2>1, <2>2, <2>3
<1>2. DOMAIN Append(h, g[k + 1]) = 1 .. k + 1
  BY <1>1
<1> QED
  BY <1>1, <1>2

LEMMA MappedKept ==
    ASSUME IInv, IInv', Grows, UNCHANGED <<opened, forwarded>>
    PROVE  /\ [r \in Relays |-> Party(r)]' = [r \in Relays |-> Party(r)]
           /\ [r \in Relays |-> Given(r)]' = [r \in Relays |-> Given(r)]
<1>1. \A r \in Relays : Party(r)' = Party(r)
  BY PartyKept
<1>2. \A r \in Relays : Given(r)' = Given(r)
  BY GivenKept
<1> QED
  BY <1>1, <1>2

LEMMA InitMapped == Init => Service!Init
<1> SUFFICES ASSUME Init PROVE Service!Init
  OBVIOUS
<1> USE DEF Init, ClientInit, Bridge!Init
<1>1. \A r \in Relays : Party(r) = None
  BY DEF Party
<1>2. \A r \in Relays : Given(r) = <<>>
  BY DEF Given
<1>3. Handed = {}
  BY DEF Handed
<1> QED
  BY <1>1, <1>2, <1>3 DEF Service!Init

\* The listener reads a datagram: its source has said one more thing.
LEMMA ReadLocalIsSay ==
    ASSUME IInv, IInv', Grows, NEW l \in Locals, ReadLocal(l), UNCHANGED bridgeVars
    PROVE  Service!Say(l)
<1>1. UNCHANGED <<opened, forwarded, answers, delivered>>
  BY DEF ReadLocal, bridgeVars
<1>2. Handed' = Handed
  BY <1>1 DEF Handed
<1> QED
  BY <1>1, <1>2, MappedKept DEF ReadLocal, Service!Say

\* What the client does for itself is not seen.
LEMMA ClientStutters ==
    ASSUME IInv, IInv', Grows, UNCHANGED <<spoken, opened, forwarded, answers, delivered>>
    PROVE  UNCHANGED Service!vars
<1>1. Handed' = Handed
  BY DEF Handed
<1> QED
  BY <1>1, MappedKept DEF Service!vars

LEMMA BridgeOpensIsConnect ==
    ASSUME IInv, IInv', Grows, NEW r \in Relays, BridgeOpens(r)
    PROVE  \E l \in Locals : Service!Connect(r, l)
<1>1. /\ opened[r] = None /\ opened'[r] # None
      /\ \A q \in Relays : q # r => opened'[q] = opened[q]
      /\ UNCHANGED <<spoken, forwarded, answers, delivered>>
  BY TunnelAssumption DEF BridgeOpens, Bridge!OpenRelay, clientVars, IInv, TypeOK, SynFrame,
                          DataFrame
<1>2. Party(r) = None /\ Party(r)' \in Locals
  <2>1. Party(r)' = owner'[opened'[r].skey] /\ opened'[r].skey \in Tunnels
    BY <1>1 DEF Party, IInv, TypeOK, SynFrame
  <2>2. owner'[opened'[r].skey] # None
    BY <1>1 DEF IInv, ClientInv, WireOwn, BridgeInv, OpenedSent
  <2> QED
    BY <1>1, <2>1, <2>2 DEF Party, IInv, TypeOK
<1>3. \A q \in Relays : q # r => Party(q)' = Party(q)
  BY <1>1, PartyKept
<1>4. [q \in Relays |-> Party(q)]' = [[q \in Relays |-> Party(q)] EXCEPT ![r] = Party(r)']
  BY <1>3
<1>5. [q \in Relays |-> Given(q)]' = [q \in Relays |-> Given(q)]
  BY <1>1, GivenKept
<1>6. Handed' = Handed
  BY <1>1 DEF Handed
<1> QED
  BY <1>1, <1>2, <1>4, <1>5, <1>6 DEF Service!Connect

LEMMA DestAnswersIsAnswer ==
    ASSUME IInv, IInv', Grows, NEW r \in Relays, DestAnswers(r)
    PROVE  Service!Answer(r)
<1>1. /\ opened[r] # None /\ answers' = [answers EXCEPT ![r] = @ + 1]
      /\ UNCHANGED <<spoken, opened, forwarded, delivered>>
  BY DEF DestAnswers, Bridge!Answer, clientVars
<1>2. Party(r) # None
  BY <1>1, PartyIsOwner, ClientAssumption
<1>3. Handed' = Handed
  BY <1>1 DEF Handed
<1> QED
  BY <1>1, <1>2, <1>3, MappedKept DEF Service!Answer

\* A responder's answer is of a connection opened for the source it was spawned for.
LEMMA AnsweredIsHear ==
    ASSUME IInv, IInv', Grows, NEW t \in Tunnels, Answered(t)
    PROVE  \E r \in Relays : /\ Party(r) # None
                            /\ \E n \in 1 .. answers[r] : Service!Hear(r, n)
<1>1. PICK w \in returned : Respond(t, w)
  BY DEF Answered
<1>2. /\ w.skey = t /\ delivered' = delivered \cup {[to |-> owner[t], by |-> t, frame |-> w]}
      /\ UNCHANGED <<spoken, opened, forwarded, answers>>
  BY <1>1 DEF Respond, Answered, bridgeVars
<1>3. /\ w.from \in Relays /\ opened[w.from] # None /\ opened[w.from].skey = t
      /\ w.n \in 1 .. answers[w.from]
  BY <1>2 DEF IInv, BridgeInv, ReturnedOwn
<1>4. Party(w.from) = owner[t] /\ Party(w.from) # None
  BY <1>3, PartyIsOwner, ClientAssumption
<1>5. Handed' = Handed \cup {[to |-> Party(w.from), from |-> w.from, n |-> w.n]}
  <2> DEFINE d == [to |-> owner[t], by |-> t, frame |-> w]
             view(x) == [to |-> x.to, from |-> x.frame.from, n |-> x.frame.n]
  <2>1. view(d) = [to |-> Party(w.from), from |-> w.from, n |-> w.n]
    BY <1>4
  <2>2. Handed = {view(x) : x \in delivered}
    BY DEF Handed
  <2>3. Handed' = {view(x) : x \in delivered'}
    BY DEF Handed
  <2>4. delivered' = delivered \cup {d}
    BY <1>2
  <2> HIDE DEF view, d
  <2> QED
    BY <2>1, <2>2, <2>3, <2>4
<1>6. Service!Hear(w.from, w.n)
  <2>1. [r \in Relays |-> Party(r)][w.from] = Party(w.from)
    BY <1>3
  <2> QED
    BY <1>2, <1>5, <2>1, MappedKept DEF Service!Hear
<1> QED
  BY <1>3, <1>4, <1>6

\* The frame forwarded carries a datagram of the connection's own source.
LEMMA BridgeForwardsIsGive ==
    ASSUME IInv, IInv', Grows, NEW r \in Relays, BridgeForwards(r)
    PROVE  /\ Party(r) # None
           /\ \E n \in 1 .. spoken[Party(r)] : Service!Give(r, n)
<1>1. PICK f \in upWire : f.kind = "data" /\ Bridge!Forward(r, f)
  BY DEF BridgeForwards
<1>2. /\ forwarded[r] \in Seq(DataFrame) /\ f \in DataFrame
      /\ forwarded' = [forwarded EXCEPT ![r] = Append(forwarded[r], f)]
      /\ opened[r] # None /\ f.skey = opened[r].skey
      /\ UNCHANGED <<spoken, opened, answers, delivered>>
  BY <1>1 DEF IInv, TypeOK, SynFrame, DataFrame, Bridge!Forward, BridgeForwards, clientVars
<1>3. Party(r) = owner[f.skey] /\ Party(r) # None
  BY <1>2, PartyIsOwner, ClientAssumption
<1>4. PICK d \in Carried(f) : Message(f) = [by |-> d.src, n |-> d.n]
  BY <1>1 DEF IInv, ClientInv, WireOwn, Message
<1>5. d.src = Party(r) /\ d.n \in 1 .. spoken[Party(r)]
  BY <1>3 DEF Carried, IInv, ClientInv, SealedOwn
<1>6. Given(r)' = Append(Given(r), Message(f))
  <2> DEFINE G == Given(r)'
  <2>1. PICK k \in Nat :
           /\ k = Len(forwarded[r]) /\ Len(forwarded'[r]) = k + 1 /\ forwarded'[r][k + 1] = f
           /\ \A i \in 1 .. k : forwarded'[r][i] = forwarded[r][i]
           /\ \A i \in 1 .. k : forwarded[r][i] \in upWire /\ forwarded[r][i].kind = "data"
    <3>1. forwarded'[r] = Append(forwarded[r], f)
      BY <1>2 DEF IInv, TypeOK
    <3>2. \A i \in DOMAIN forwarded[r] :
              forwarded[r][i] \in upWire /\ forwarded[r][i].kind = "data"
      BY DEF IInv, BridgeInv, ForwardedOwn
    <3> QED
      BY <1>2, <3>1, <3>2
  <2>2. G = [i \in 1 .. k + 1 |-> Message(forwarded[r][i])']
    BY <2>1 DEF Given
  <2>3. ASSUME NEW i \in 1 .. k
        PROVE  Message(forwarded[r][i])' = Message(forwarded[r][i])
    <3> HIDE DEF Message
    <3> QED
      BY <2>1, <2>3, MessageKept
  <2>4. G[k + 1] = Message(f)
    <3>1. ASSUME NEW i, i = k + 1
          PROVE  Message(forwarded[r][i])' = Message(f)'
      BY <2>1, <3>1
    <3>2. ASSUME NEW i, i = k + 1
          PROVE  G[i] = Message(forwarded[r][i])'
      BY <2>2, <3>2
    <3> HIDE DEF Message, G
    <3> QED
      BY <1>1, <3>1, <3>2, MessageKept
  <2>5. Given(r) = [i \in 1 .. k |-> G[i]]
    BY <2>1, <2>2, <2>3 DEF Given
  <2>6. \A i \in 1 .. k + 1 : i \in 1 .. k \/ i = k + 1
    BY <2>1
  <2> HIDE DEF G
  <2> QED
    BY <2>1, <2>2, <2>4, <2>5, AppendLast DEF G
<1>7. \A q \in Relays : q # r => Given(q)' = Given(q)
  BY <1>2, GivenKept DEF IInv, TypeOK
<1>8. [q \in Relays |-> Given(q)]' =
         [[q \in Relays |-> Given(q)] EXCEPT ![r] = Append(@, [by |-> Party(r), n |-> d.n])]
  BY <1>4, <1>5, <1>6, <1>7
<1>9. [q \in Relays |-> Party(q)]' = [q \in Relays |-> Party(q)]
  BY <1>2, PartyKept
<1>10. Handed' = Handed
  BY <1>2 DEF Handed
<1>11. Service!Give(r, d.n)
  BY <1>2, <1>8, <1>9, <1>10 DEF Service!Give
<1> QED
  BY <1>3, <1>5, <1>11

LEMMA ServiceStep == IInv /\ IInv' /\ [Next]_vars => [Service!Next]_(Service!vars)
<1> SUFFICES ASSUME IInv, IInv', [Next]_vars
             PROVE  Service!Next \/ UNCHANGED Service!vars
  OBVIOUS
<1>1. Grows
  BY StepsGrow
<1>2. CASE ClientStep
  <2>1. UNCHANGED bridgeVars
    BY <1>2 DEF ClientStep
  <2>2. ASSUME NEW l \in Locals, ReadLocal(l)
        PROVE  Service!Next
    BY <1>1, <2>1, <2>2, ReadLocalIsSay DEF Service!Next
  <2>3. CASE UNCHANGED <<spoken, delivered>>
    BY <1>1, <2>1, <2>3, ClientStutters DEF bridgeVars
  <2> QED
    BY <1>2, <2>2, <2>3
    DEF ClientStep, ClientNext, Listener, Reaper, OpenTunnel, OpenFails, ForwardLocal,
        ForwardTooLong, ResponderFails, GoIdle, WarmsUp, ReaperPanics, ReapCollect, ReapRemove
<1>3. ASSUME NEW t \in Tunnels, Answered(t)
      PROVE  Service!Next
  <2>1. PICK r \in Relays : Party(r) # None /\ \E n \in 1 .. answers[r] : Service!Hear(r, n)
    BY <1>1, <1>3, AnsweredIsHear
  <2> QED
    BY <2>1 DEF Service!Next
<1>4. ASSUME NEW r \in Relays, BridgeOpens(r)
      PROVE  Service!Next
  BY <1>1, <1>4, BridgeOpensIsConnect DEF Service!Next
<1>5. ASSUME NEW r \in Relays, BridgeForwards(r)
      PROVE  Service!Next
  <2>1. Party(r) # None /\ \E n \in 1 .. spoken[Party(r)] : Service!Give(r, n)
    BY <1>1, <1>5, BridgeForwardsIsGive
  <2> QED
    BY <2>1 DEF Service!Next
<1>6. ASSUME NEW r \in Relays, DestAnswers(r)
      PROVE  Service!Next
  BY <1>1, <1>6, DestAnswersIsAnswer DEF Service!Next
<1>7. ASSUME NEW r \in Relays, NEW v \in Relays, BridgeReturns(r, v)
      PROVE  UNCHANGED Service!vars
  <2>1. UNCHANGED <<spoken, opened, forwarded, answers, delivered>>
    BY <1>7 DEF BridgeReturns, Bridge!Return, clientVars
  <2> QED
    BY <1>1, <2>1, ClientStutters
<1>8. CASE UNCHANGED vars
  BY <1>1, <1>8, ClientStutters DEF vars, clientVars, bridgeVars
<1> QED
  BY <1>2, <1>3, <1>4, <1>5, <1>6, <1>7, <1>8 DEF Next

\* Client, network and bridge together are the service EndToEnd: sockets, keys,
\* sessions, reaping, loss and duplication never show in what a local source or a destination
\* is given (run_udp_rule and, through RelayService, the bridge).
THEOREM TunnelIsService == Spec => ServiceSpec
BY InitMapped, ServiceStep, InvariantHolds, PTL DEF Spec, ServiceSpec, Service!Spec
===============================================================================
