----------------------------- MODULE StreamProofs -----------------------------
(***************************************************************************)
(* For any connections, chunks and answers: the bytes of two programs are  *)
(* not mixed in either direction, the number of a frame is the place of    *)
(* its chunk, an orderly network is enough for answers in order, and the   *)
(* whole is the service that EndToEnd describes.                           *)
(***************************************************************************)
EXTENDS Stream, TLAPS

CountsAgree == \A c \in Conns : tx_sequence[c] = read[c]

\* A frame is sealed under its connection's key, numbered by the place of its chunk.
SealedOwn == \A s \in sealed : s.conn = s.key /\ s.chunk = s.seq

\* Every frame on the wire was sealed.
WireSealed ==
    \A f \in upWire :
        /\ f.kind = "syn" => Under(f, 0) # {}
        /\ f.kind = "data" => Under(f, f.seq) # {}

\* A connection is opened by a SYN that was sent, and given frames that were.
OpenedSent ==
    \A r \in Relays : opened[r] # None => opened[r] \in upWire /\ opened[r].kind = "syn"

ForwardedSent ==
    \A r \in Relays : \A i \in DOMAIN forwarded[r] :
        /\ opened[r] # None
        /\ forwarded[r][i] \in upWire
        /\ forwarded[r][i].kind = "data"
        /\ forwarded[r][i].skey = opened[r].skey

\* An answer travels under the session key of the connection it is from.
ReturnedKeyed ==
    \A w \in returned :
        w.from \in Relays /\ opened[w.from] # None /\ w.skey = opened[w.from].skey

\* A frame is at, or in the hands of, or with the program of, the connection whose
\* key it has.
DownKeyed ==
    \A c \in Conns :
        /\ \A i \in DOMAIN wire[c] : wire[c][i].skey = c
        /\ writer[c] = "writing" => holding[c].skey = c
        /\ \A i \in DOMAIN heard[c] : heard[c][i].skey = c

Earlier(x, y) == x.from = y.from => x.n < y.n

\* What was heard, what is held and what is on the way stand in the order given.
OrderedAt(c) ==
    /\ \A i, j \in DOMAIN heard[c] : i < j => Earlier(heard[c][i], heard[c][j])
    /\ \A i, j \in DOMAIN wire[c] : i < j => Earlier(wire[c][i], wire[c][j])
    /\ \A i \in DOMAIN heard[c], j \in DOMAIN wire[c] : Earlier(heard[c][i], wire[c][j])
    /\ writer[c] = "writing" =>
          /\ \A i \in DOMAIN heard[c] : Earlier(heard[c][i], holding[c])
          /\ \A j \in DOMAIN wire[c] : Earlier(holding[c], wire[c][j])

DownOrdered == orderly => \A c \in Conns : OrderedAt(c)

UpInv == CountsAgree /\ SealedOwn /\ WireSealed /\ OpenedSent /\ ForwardedSent

DownInv == ReturnedKeyed /\ DownKeyed /\ DownOrdered

\* recv_task is spawned with the tunnel.
WriterLater == \A c \in Conns : copier[c] \in {"none", "opening"} => writer[c] = "none"

IInv == TypeOK /\ UpInv /\ DownInv /\ WriterLater

-----------------------------------------------------------------------------
(* What a step leaves alone, it leaves true *)

upVars == <<tx_sequence, read, upWire, sealed, opened, forwarded>>
downVars == <<opened, returned, wire, writer, holding, heard, orderly>>

LEMMA UpInvKept ==
    ASSUME UpInv, UNCHANGED upVars
    PROVE  UpInv'
BY DEF upVars, UpInv, CountsAgree, SealedOwn, WireSealed, Under, OpenedSent, ForwardedSent

LEMMA DownInvKept ==
    ASSUME DownInv, UNCHANGED downVars
    PROVE  DownInv'
BY DEF downVars, DownInv, ReturnedKeyed, DownKeyed, DownOrdered, OrderedAt

LEMMA InitIInv == Init => IInv
<1> SUFFICES ASSUME Init PROVE IInv
  OBVIOUS
<1> USE DEF Init, ClientInit, Bridge!Init
<1>1. 0 \in 0 .. MaxChunks
  BY ClientAssumption
<1>2. TypeOK
  BY <1>1 DEF TypeOK
<1>3. UpInv /\ DownInv /\ WriterLater
  BY DEF WriterLater, UpInv, CountsAgree, SealedOwn, WireSealed, OpenedSent, ForwardedSent,
         DownInv, ReturnedKeyed, DownKeyed, DownOrdered, OrderedAt, Conns, Keys
<1> QED
  BY <1>2, <1>3 DEF IInv

-----------------------------------------------------------------------------
(* Steps of the client *)

LEMMA QuietSteps ==
    ASSUME IInv, UNCHANGED <<bridgeVars, orderly, wire>>,
           AcceptFails \/ \E c \in Conns : Accept(c) \/ OpenFails(c) \/ LocalEnds(c)
    PROVE  IInv'
<1>1. UNCHANGED upVars /\ UNCHANGED downVars
  BY DEF AcceptFails, Accept, OpenFails, LocalEnds, bridgeVars, upVars, downVars
<1>2. TypeOK'
  BY DEF AcceptFails, Accept, OpenFails, LocalEnds, bridgeVars, IInv, TypeOK
<1>3. WriterLater'
  BY DEF AcceptFails, Accept, OpenFails, LocalEnds, IInv, TypeOK, WriterLater
<1> QED
  BY <1>1, <1>2, <1>3, UpInvKept, DownInvKept DEF IInv

\* A record and a frame are added under a number not used before.
LEMMA SealStep ==
    ASSUME IInv, UNCHANGED <<opened, forwarded>>, NEW c \in Conns, NEW f \in SynFrame \cup DataFrame,
           NEW n \in Nat, f.skey = c, f.kind = "syn" => n = 0, f.kind = "data" => n = f.seq,
           upWire' = upWire \cup {f},
           sealed' = sealed \cup {[key |-> c, seq |-> n, conn |-> c, chunk |-> n]},
           CountsAgree'
    PROVE  UpInv'
<1> DEFINE s == [key |-> c, seq |-> n, conn |-> c, chunk |-> n]
<1>1. SealedOwn'
  BY DEF IInv, UpInv, SealedOwn
<1>2. s \in Under(f, n)' /\ \A g, m : Under(g, m) \subseteq Under(g, m)'
  BY DEF Under
<1>3. WireSealed'
  <2> SUFFICES ASSUME NEW g \in upWire'
               PROVE  /\ g.kind = "syn" => Under(g, 0)' # {}
                      /\ g.kind = "data" => Under(g, g.seq)' # {}
    BY DEF WireSealed, Under
  <2>1. CASE g = f
    BY <1>2, <2>1
  <2>2. CASE g \in upWire
    BY <1>2, <2>2 DEF IInv, UpInv, WireSealed
  <2> QED
    BY <2>1, <2>2
<1>4. OpenedSent' /\ ForwardedSent'
  BY DEF IInv, UpInv, OpenedSent, ForwardedSent
<1> QED
  BY <1>1, <1>3, <1>4 DEF UpInv

LEMMA OpenTunnelStep ==
    ASSUME IInv, UNCHANGED <<bridgeVars, orderly, wire>>, NEW c \in Conns, OpenTunnel(c)
    PROVE  IInv'
<1> USE DEF OpenTunnel, KeyOf, Keys
<1> DEFINE f == [kind |-> "syn", skey |-> c, aead |-> c]
           s == [key |-> c, seq |-> 0, conn |-> c, chunk |-> 0]
<1>1. f \in SynFrame /\ s \in [key : Keys, seq : Nat, conn : Conns, chunk : Nat]
  BY DEF SynFrame
<1>2. upWire' = upWire \cup {f} /\ sealed' = sealed \cup {s}
  OBVIOUS
<1>3. /\ copier' \in [Conns -> {"none", "opening", "reading", "failed", "ended"}]
      /\ writer' \in [Conns -> {"none", "running", "writing", "ended"}]
  BY DEF IInv, TypeOK
<1>5. UpInv'
  <2>1. CountsAgree'
    BY DEF IInv, UpInv, CountsAgree
  <2>2. f.skey = c /\ f.kind = "syn" /\ f.kind # "data"
    OBVIOUS
  <2>3. UNCHANGED <<opened, forwarded>>
    BY DEF bridgeVars
  <2> HIDE DEF f, OpenTunnel
  <2> QED
    BY <1>1, <1>2, <2>1, <2>2, <2>3, SealStep
<1>6. DownInv'
  <2>1. \A d \in Conns : writer'[d] = "writing" => writer[d] = "writing"
    BY DEF IInv, TypeOK
  <2>2. UNCHANGED <<opened, returned, wire, holding, heard, orderly>>
    BY DEF bridgeVars
  <2> HIDE DEF OpenTunnel
  <2> QED
    BY <2>1, <2>2 DEF IInv, DownInv, ReturnedKeyed, DownKeyed, DownOrdered, OrderedAt
<1>7. \A d \in Conns : holding'[d] \in (IF writer'[d] = "writing" THEN returned' ELSE {None})
  <2>1. \A d \in Conns : d # c => writer'[d] = writer[d]
    BY DEF IInv, TypeOK
  <2>2. writer'[c] = "running" /\ holding[c] = None
    BY DEF IInv, TypeOK, WriterLater
  <2> QED
    BY <2>1, <2>2 DEF IInv, TypeOK, bridgeVars
<1>8. TypeOK'
  BY <1>1, <1>2, <1>3, <1>7 DEF IInv, TypeOK, bridgeVars
<1>9. WriterLater'
  BY DEF IInv, TypeOK, WriterLater
<1> QED
  BY <1>5, <1>6, <1>8, <1>9 DEF IInv

LEMMA ReadChunkStep ==
    ASSUME IInv, UNCHANGED <<bridgeVars, orderly, wire>>, NEW c \in Conns, ReadChunk(c)
    PROVE  IInv'
<1> USE DEF ReadChunk, NextChunk, KeyOf, Keys
<1> DEFINE n == tx_sequence[c] + 1
           f == [kind |-> "data", skey |-> c, aead |-> c, seq |-> n]
           s == [key |-> c, seq |-> n, conn |-> c, chunk |-> n]
<1>1. n = read[c] + 1 /\ n \in Nat
  BY DEF IInv, TypeOK, UpInv, CountsAgree
<1>2. f \in DataFrame /\ s \in [key : Keys, seq : Nat, conn : Conns, chunk : Nat]
  BY <1>1 DEF DataFrame
<1>3. upWire' = upWire \cup {f} /\ sealed' = sealed \cup {s}
  BY <1>1
<1>4. UpInv'
  <2>1. CountsAgree'
    BY DEF IInv, TypeOK, UpInv, CountsAgree
  <2>2. f.skey = c /\ f.kind # "syn" /\ f.kind = "data" /\ n = f.seq
    OBVIOUS
  <2>3. UNCHANGED <<opened, forwarded>>
    BY DEF bridgeVars
  <2> HIDE DEF f, n, ReadChunk
  <2> QED
    BY <1>1, <1>2, <1>3, <2>1, <2>2, <2>3, SealStep
<1>5. UNCHANGED downVars
  BY DEF downVars, bridgeVars
<1>6. TypeOK'
  <2>1. read'[c] \in 0 .. MaxChunks
    BY <1>1, ClientAssumption DEF IInv, TypeOK
  <2> QED
    BY <1>2, <1>3, <2>1 DEF IInv, TypeOK, bridgeVars
<1>7. WriterLater'
  BY DEF IInv, WriterLater
<1> QED
  BY <1>4, <1>5, <1>6, <1>7, DownInvKept DEF IInv

LEMMA SendFailsStep ==
    ASSUME IInv, UNCHANGED <<bridgeVars, orderly, wire>>, NEW c \in Conns, SendFails(c)
    PROVE  IInv'
<1> USE DEF SendFails, NextChunk
<1>1. UpInv'
  BY DEF IInv, TypeOK, bridgeVars, UpInv, CountsAgree, SealedOwn, WireSealed, Under, OpenedSent,
         ForwardedSent
<1>2. UNCHANGED downVars
  BY DEF downVars, bridgeVars
<1>3. TypeOK'
  <2>1. read'[c] \in 0 .. MaxChunks
    BY ClientAssumption DEF IInv, TypeOK
  <2> QED
    BY <2>1 DEF IInv, TypeOK, bridgeVars
<1>4. WriterLater'
  BY DEF IInv, TypeOK, WriterLater
<1> QED
  BY <1>1, <1>2, <1>3, <1>4, DownInvKept DEF IInv

LEMMA WriteStep ==
    ASSUME IInv, UNCHANGED <<bridgeVars, orderly, wire>>, NEW c \in Conns, Write(c)
    PROVE  IInv'
<1> USE DEF Write
<1>1. /\ holding[c] \in returned /\ heard[c] \in Seq(returned)
      /\ heard' = [heard EXCEPT ![c] = Append(heard[c], holding[c])]
      /\ \A d \in Conns : d # c => writer'[d] = writer[d] /\ holding'[d] = holding[d]
      /\ writer'[c] = "running" /\ holding'[c] = None
      /\ UNCHANGED <<wire, returned, opened, orderly>>
  BY DEF IInv, TypeOK, bridgeVars
<1>2. TypeOK'
  <2>1. \A d \in Conns : heard'[d] \in Seq(returned)
    BY <1>1 DEF IInv, TypeOK
  <2> QED
    BY <1>1, <2>1 DEF IInv, TypeOK, bridgeVars
<1>3. UNCHANGED upVars
  BY DEF upVars, bridgeVars
<1>4. DownInv'
  <2> HIDE DEF Write
  <2>1. /\ \A d \in Conns : d # c => heard'[d] = heard[d]
        /\ DOMAIN heard'[c] = DOMAIN heard[c] \cup {Len(heard[c]) + 1}
        /\ \A i \in DOMAIN heard[c] : heard'[c][i] = heard[c][i] /\ i < Len(heard[c]) + 1
        /\ heard'[c][Len(heard[c]) + 1] = holding[c]
    <3> DEFINE h == heard[c]
               H == Append(h, holding[c])
    <3>1. heard'[c] = H /\ \A d \in Conns : d # c => heard'[d] = heard[d]
      BY <1>1 DEF IInv, TypeOK
    <3> HIDE DEF h
    <3>2. h \in Seq(returned) /\ holding[c] \in returned
      BY <1>1 DEF h
    <3>3. /\ DOMAIN H = DOMAIN h \cup {Len(h) + 1}
          /\ \A i \in DOMAIN h : H[i] = h[i] /\ i < Len(h) + 1
          /\ H[Len(h) + 1] = holding[c]
      BY <3>2
    <3> QED
      BY <3>1, <3>3 DEF h
  <2>2. DownKeyed'
    <3>1. writer[c] = "writing" /\ holding[c].skey = c
      BY DEF Write, IInv, DownInv, DownKeyed
    <3> SUFFICES ASSUME NEW d \in Conns
                 PROVE  /\ \A i \in DOMAIN wire'[d] : wire'[d][i].skey = d
                        /\ writer'[d] = "writing" => holding'[d].skey = d
                        /\ \A i \in DOMAIN heard'[d] : heard'[d][i].skey = d
      BY DEF DownKeyed
    <3>2. CASE d # c
      BY <1>1, <2>1, <3>2 DEF IInv, DownInv, DownKeyed
    <3>3. CASE d = c
      BY <1>1, <2>1, <3>1, <3>3 DEF IInv, DownInv, DownKeyed
    <3> QED
      BY <3>2, <3>3
  <2>3. ReturnedKeyed'
    BY <1>1 DEF IInv, DownInv, ReturnedKeyed
  <2>4. DownOrdered'
    <3> SUFFICES ASSUME orderly, NEW d \in Conns
                 PROVE  OrderedAt(d)'
      BY <1>1 DEF DownOrdered
    <3>1. OrderedAt(d) /\ OrderedAt(c) /\ writer[c] = "writing"
      BY DEF Write, IInv, DownInv, DownOrdered
    <3>2. CASE d # c
      BY <1>1, <2>1, <3>1, <3>2 DEF OrderedAt
    <3>3. CASE d = c
      <4>1. heard[c] \in Seq(returned) /\ Len(heard[c]) \in Nat
            /\ DOMAIN heard[c] = 1 .. Len(heard[c])
        BY <1>1
      <4>2. \A i, j \in DOMAIN heard'[c] : i < j => Earlier(heard'[c][i], heard'[c][j])
        BY <2>1, <3>1, <4>1 DEF OrderedAt
      <4> QED
        BY <1>1, <2>1, <3>1, <3>3, <4>2 DEF OrderedAt
    <3> QED
      BY <3>2, <3>3
  <2> QED
    BY <2>2, <2>3, <2>4 DEF DownInv
<1>5. WriterLater'
  BY DEF IInv, TypeOK, WriterLater
<1> QED
  BY <1>2, <1>3, <1>4, <1>5, UpInvKept DEF IInv

LEMMA WriterEndsStep ==
    ASSUME IInv, UNCHANGED <<bridgeVars, orderly, wire>>, NEW c \in Conns,
           WriterFails(c) \/ AbortTakes(c)
    PROVE  IInv'
<1>1. /\ writer[c] \in {"running", "writing"}
      /\ writer' = [writer EXCEPT ![c] = "ended"] /\ holding' = [holding EXCEPT ![c] = None]
      /\ UNCHANGED <<listening, copier, aborted, tx_sequence, read, upWire, sealed, heard>>
      /\ UNCHANGED <<opened, forwarded, answers, returned, orderly, wire>>
  BY DEF WriterFails, AbortTakes, WriterEnds, bridgeVars
<1>2. /\ \A d \in Conns : d # c => writer'[d] = writer[d] /\ holding'[d] = holding[d]
      /\ writer'[c] = "ended" /\ holding'[c] = None
  BY <1>1 DEF IInv, TypeOK
<1>3. TypeOK'
  BY <1>1, <1>2 DEF IInv, TypeOK
<1>4. DownInv'
  BY <1>1, <1>2 DEF IInv, DownInv, ReturnedKeyed, DownKeyed, DownOrdered, OrderedAt
<1>5. WriterLater'
  BY <1>1, <1>2 DEF IInv, WriterLater
<1>6. UNCHANGED upVars
  BY <1>1 DEF upVars
<1> QED
  BY <1>3, <1>4, <1>5, <1>6, UpInvKept DEF IInv

-----------------------------------------------------------------------------
(* A frame at the socket *)

LEMMA ArrivesStep ==
    ASSUME IInv, NEW c \in Conns, Arrives(c)
    PROVE  IInv'
<1> DEFINE q == wire[c]
<1>1. PICK w : /\ TakeFrame(c, w)
               /\ \/ orderly /\ w = Head(q) /\ wire' = [wire EXCEPT ![c] = Tail(q)]
                  \/ ~orderly /\ (\E i \in DOMAIN q : w = q[i]) /\ UNCHANGED wire
  BY DEF Arrives, KeyOf
<1>2. q \in Seq(returned) /\ q # <<>> /\ UNCHANGED <<bridgeVars, orderly>>
  BY DEF Arrives, KeyOf, IInv, TypeOK, Keys
<1>3. /\ UNCHANGED <<listening, copier, aborted, tx_sequence, read, upWire, sealed, heard>>
      /\ UNCHANGED <<opened, forwarded, answers, returned, orderly>>
      /\ writer[c] = "running"
      /\ \A d \in Conns : d # c => /\ writer'[d] = writer[d] /\ holding'[d] = holding[d]
                                   /\ wire'[d] = wire[d]
      /\ writer'[c] = "writing" /\ holding'[c] = w /\ w.skey = c
  BY <1>1, <1>2 DEF TakeFrame, KeyOf, bridgeVars, IInv, TypeOK, Keys
<1>4. /\ Len(q) \in Nat \ {0} /\ DOMAIN q = 1 .. Len(q)
      /\ Head(q) = q[1] /\ \A i \in DOMAIN q : q[i] \in returned
      /\ Tail(q) \in Seq(returned)
      /\ \A i \in DOMAIN Tail(q) : i + 1 \in DOMAIN q /\ i + 1 > 1 /\ Tail(q)[i] = q[i + 1]
      /\ DOMAIN Tail(q) \subseteq Nat
  <2> HIDE DEF q
  <2> QED
    BY <1>2
<1>5. w \in returned /\ wire' \in [Keys -> Seq(returned)]
  <2>1. wire \in [Keys -> Seq(returned)]
    BY DEF IInv, TypeOK
  <2> HIDE DEF q
  <2>2. 1 \in DOMAIN q
    BY <1>4
  <2>3. w \in returned
    BY <1>1, <1>4, <2>2
  <2>4. wire' \in {wire, [wire EXCEPT ![c] = Tail(q)]}
    BY <1>1
  <2> QED
    BY <1>4, <2>1, <2>3, <2>4
<1>6. TypeOK'
  <2>1. /\ writer' = [writer EXCEPT ![c] = "writing"]
        /\ holding' = [holding EXCEPT ![c] = w]
    BY <1>1 DEF TakeFrame
  <2> QED
    BY <1>3, <1>5, <2>1 DEF IInv, TypeOK
<1>7. wire'[c] \in {q, Tail(q)} /\ (orderly => wire'[c] = Tail(q) /\ w = q[1])
  <2>1. c \in DOMAIN wire
    BY DEF IInv, TypeOK, Keys
  <2>2. Head(q) = q[1]
    BY <1>4
  <2> HIDE DEF q
  <2>3. CASE orderly
    BY <1>1, <2>1, <2>2, <2>3
  <2>4. CASE ~orderly
    BY <1>1, <2>4 DEF q
  <2> QED
    BY <2>3, <2>4
<1>8. DownKeyed'
  <2>1. \A i \in DOMAIN wire'[c] : wire'[c][i].skey = c
    <3>1. \A i \in DOMAIN q : q[i].skey = c
      BY DEF IInv, DownInv, DownKeyed
    <3> HIDE DEF q
    <3>2. CASE wire'[c] = q
      BY <3>1, <3>2
    <3>3. CASE wire'[c] = Tail(q)
      BY <1>4, <3>1, <3>3
    <3> QED
      BY <1>7, <3>2, <3>3
  <2> HIDE DEF q
  <2>2. ASSUME NEW d \in Conns
        PROVE  /\ \A i \in DOMAIN wire'[d] : wire'[d][i].skey = d
               /\ writer'[d] = "writing" => holding'[d].skey = d
               /\ \A i \in DOMAIN heard'[d] : heard'[d][i].skey = d
    BY <2>1, <1>3 DEF IInv, DownInv, DownKeyed
  <2> QED
    BY <2>2 DEF DownKeyed
<1>9. DownOrdered'
  <2> SUFFICES ASSUME orderly, NEW d \in Conns
               PROVE  OrderedAt(d)'
    BY <1>3 DEF DownOrdered
  <2>1. OrderedAt(d) /\ OrderedAt(c)
    BY DEF IInv, DownInv, DownOrdered
  <2>2. CASE d # c
    BY <1>3, <2>1, <2>2 DEF OrderedAt
  <2>3. CASE d = c
    <3> DEFINE t == Tail(q)
    <3>1. /\ wire'[c] = t /\ holding'[c] = q[1] /\ heard'[c] = heard[c]
          /\ 1 \in DOMAIN q
      BY <1>3, <1>4, <1>7
    <3>2. \A i, j \in DOMAIN t : i < j => Earlier(t[i], t[j])
      <4> SUFFICES ASSUME NEW i \in DOMAIN t, NEW j \in DOMAIN t, i < j
                   PROVE  Earlier(t[i], t[j])
        OBVIOUS
      <4>1. /\ i + 1 \in DOMAIN q /\ j + 1 \in DOMAIN q /\ i + 1 < j + 1
            /\ t[i] = q[i + 1] /\ t[j] = q[j + 1]
        BY <1>4
      <4> QED
        BY <2>1, <4>1 DEF OrderedAt
    <3>3. \A j \in DOMAIN t : Earlier(q[1], t[j])
      BY <1>4, <2>1, <3>1 DEF OrderedAt
    <3>4. \A i \in DOMAIN heard[c] :
              Earlier(heard[c][i], q[1]) /\ \A j \in DOMAIN t : Earlier(heard[c][i], t[j])
      BY <1>4, <2>1, <3>1 DEF OrderedAt
    <3>5. \A i, j \in DOMAIN heard[c] : i < j => Earlier(heard[c][i], heard[c][j])
      BY <2>1 DEF OrderedAt
    <3> HIDE DEF t, q
    <3> QED
      BY <2>3, <3>1, <3>2, <3>3, <3>4, <3>5 DEF OrderedAt
  <2> QED
    BY <2>2, <2>3
<1>10. ReturnedKeyed' /\ WriterLater'
  BY <1>3 DEF IInv, DownInv, ReturnedKeyed, WriterLater
<1>11. UNCHANGED upVars
  BY <1>3 DEF upVars
<1> QED
  BY <1>6, <1>8, <1>9, <1>10, <1>11, UpInvKept DEF IInv, DownInv

-----------------------------------------------------------------------------
(* Steps of the bridge *)

LEMMA BridgeOpensStep ==
    ASSUME IInv, NEW r \in Relays, BridgeOpens(r)
    PROVE  IInv'
<1>1. PICK f \in upWire : f.kind = "syn" /\ Bridge!OpenRelay(r, f)
  BY DEF BridgeOpens
<1>2. UNCHANGED <<clientVars, orderly, wire>>
  BY DEF BridgeOpens
<1> USE <1>1, <1>2 DEF Bridge!OpenRelay, clientVars
<1>3. f \in SynFrame
  BY DEF IInv, TypeOK, SynFrame, DataFrame
<1>4. TypeOK'
  BY <1>3 DEF IInv, TypeOK
<1>5. /\ opened[r] = None /\ opened'[r] = f
      /\ \A q \in Relays : q # r => opened'[q] = opened[q]
  BY DEF IInv, TypeOK
<1>6. UpInv'
  BY <1>5 DEF IInv, UpInv, CountsAgree, SealedOwn, WireSealed, Under, OpenedSent, ForwardedSent
<1>7. DownInv'
  BY <1>5 DEF IInv, DownInv, ReturnedKeyed, DownKeyed, DownOrdered, OrderedAt
<1> QED
  BY <1>4, <1>6, <1>7 DEF IInv, WriterLater

LEMMA BridgeForwardsStep ==
    ASSUME IInv, NEW r \in Relays, BridgeForwards(r)
    PROVE  IInv'
<1>1. PICK f \in upWire : f.kind = "data" /\ Bridge!Forward(r, f)
  BY DEF BridgeForwards
<1>2. UNCHANGED <<clientVars, orderly, wire>>
  BY DEF BridgeForwards
<1>3. f \in DataFrame
  BY <1>1 DEF IInv, TypeOK, SynFrame, DataFrame
<1>4. /\ forwarded[r] \in Seq(DataFrame)
      /\ forwarded' = [forwarded EXCEPT ![r] = Append(forwarded[r], f)]
      /\ UNCHANGED <<opened, answers, returned>>
      /\ opened[r] # None /\ f.skey = opened[r].skey
  BY <1>1 DEF IInv, TypeOK, Bridge!Forward
<1>5. TypeOK'
  <2>1. Append(forwarded[r], f) \in Seq(DataFrame)
    BY <1>3, <1>4
  <2> QED
    BY <1>2, <1>4, <2>1 DEF IInv, TypeOK, clientVars
<1>6. ForwardedSent'
  <2> SUFFICES ASSUME NEW q \in Relays, NEW i \in DOMAIN forwarded'[q]
               PROVE  /\ opened[q] # None /\ forwarded'[q][i] \in upWire
                      /\ forwarded'[q][i].kind = "data"
                      /\ forwarded'[q][i].skey = opened[q].skey
    BY <1>2, <1>4 DEF ForwardedSent, clientVars
  <2>1. CASE q # r
    BY <2>1, <1>4 DEF IInv, TypeOK, UpInv, ForwardedSent
  <2>2. CASE q = r
    <3>1. /\ forwarded'[q] = Append(forwarded[r], f)
          /\ i \in 1 .. Len(forwarded[r]) + 1
      BY <2>2, <1>3, <1>4 DEF IInv, TypeOK
    <3>2. CASE i = Len(forwarded[r]) + 1
      BY <3>1, <3>2, <2>2, <1>1, <1>3, <1>4
    <3>3. CASE i \in 1 .. Len(forwarded[r])
      <4>1. forwarded'[q][i] = forwarded[r][i] /\ i \in DOMAIN forwarded[r]
        BY <3>1, <3>3, <1>3, <1>4
      <4> QED
        BY <4>1, <2>2 DEF IInv, UpInv, ForwardedSent
    <3> QED
      BY <3>1, <3>2, <3>3, <1>4
  <2> QED
    BY <2>1, <2>2
<1>7. CountsAgree' /\ SealedOwn' /\ WireSealed' /\ OpenedSent'
  BY <1>2, <1>4 DEF IInv, UpInv, CountsAgree, SealedOwn, WireSealed, Under, OpenedSent, clientVars
<1>8. UNCHANGED downVars
  BY <1>2, <1>4 DEF downVars, clientVars
<1> QED
  BY <1>2, <1>5, <1>6, <1>7, <1>8, DownInvKept DEF IInv, UpInv, WriterLater, clientVars

LEMMA DestAnswersStep ==
    ASSUME IInv, NEW r \in Relays, DestAnswers(r)
    PROVE  IInv'
<1> USE DEF DestAnswers, Bridge!Answer, clientVars
<1>1. TypeOK'
  BY DEF IInv, TypeOK
<1>2. UNCHANGED upVars /\ UNCHANGED downVars
  BY DEF upVars, downVars
<1> QED
  BY <1>1, <1>2, UpInvKept, DownInvKept DEF IInv, WriterLater

LEMMA BridgeReturnsStep ==
    ASSUME IInv, NEW r \in Relays, NEW v \in Relays, BridgeReturns(r, v)
    PROVE  IInv'
<1>1. /\ UNCHANGED <<clientVars, opened, forwarded, answers, orderly>>
      /\ opened[r] # None /\ opened[v] # None /\ opened[r].skey = opened[v].skey
  BY DEF BridgeReturns, Bridge!Return
<1>2. PICK w : /\ returned' = returned \cup {w}
               /\ w.skey = opened[v].skey
               /\ wire' \in {wire, [wire EXCEPT ![w.skey] = Append(@, w)]}
  BY DEF BridgeReturns
<1>3. PICK u \in returned' : /\ u.from = r /\ u.n \in 1 .. answers[r]
                             /\ \A x \in returned : x.from = r => x.n < u.n
  BY DEF BridgeReturns, Bridge!Return
<1>4. u = w
  <2>1. ~(u.n < u.n)
    BY <1>3 DEF IInv, TypeOK
  <2> QED
    BY <1>2, <1>3, <2>1
<1> DEFINE k == w.skey
<1>5. k \in Keys /\ k \in Conns /\ k = opened[r].skey /\ w \in returned'
  BY <1>1, <1>2 DEF IInv, TypeOK, SynFrame, Keys
<1>6. \A x \in returned : Earlier(x, w)
  BY <1>3, <1>4 DEF Earlier
<1>7. wire \in [Keys -> Seq(returned)] /\ wire \in [Keys -> Seq(returned')]
  <2>1. Seq(returned) \subseteq Seq(returned')
    BY <1>2
  <2> QED
    BY <2>1 DEF IInv, TypeOK
<1>8. wire' \in [Keys -> Seq(returned')]
  <2>1. Append(wire[k], w) \in Seq(returned')
    BY <1>5, <1>7
  <2> HIDE DEF k
  <2> QED
    BY <1>2, <1>5, <1>7, <2>1 DEF k
<1>9. TypeOK'
  <2>1. heard \in [Conns -> Seq(returned')]
    <3>1. Seq(returned) \subseteq Seq(returned')
      BY <1>2
    <3> QED
      BY <3>1 DEF IInv, TypeOK
  <2>2. /\ holding \in [Conns -> returned' \cup {None}]
        /\ \A c \in Conns : holding[c] \in (IF writer[c] = "writing" THEN returned' ELSE {None})
    BY <1>2 DEF IInv, TypeOK
  <2> QED
    BY <1>1, <1>8, <2>1, <2>2 DEF IInv, TypeOK, clientVars
<1>10. CASE wire' = wire
  <2>1. DownInv'
    BY <1>1, <1>2, <1>3, <1>4, <1>5, <1>10
    DEF clientVars, IInv, DownInv, ReturnedKeyed, DownKeyed, DownOrdered, OrderedAt
  <2> QED
    BY <1>1, <1>9, <2>1, UpInvKept DEF IInv, WriterLater, clientVars, upVars
<1>11. CASE wire' = [wire EXCEPT ![k] = Append(wire[k], w)]
  <2> DEFINE q == wire[k]
             p == Append(q, w)
  <2>1. wire'[k] = p /\ \A d \in Conns : d # k => wire'[d] = wire[d]
    BY <1>5, <1>7, <1>11 DEF Keys
  <2>2. /\ DOMAIN q \subseteq Nat /\ Len(q) \in Nat
        /\ DOMAIN p = DOMAIN q \cup {Len(q) + 1}
        /\ \A i \in DOMAIN q : p[i] = q[i] /\ q[i] \in returned /\ i < Len(q) + 1
        /\ p[Len(q) + 1] = w
    <3>1. q \in Seq(returned) /\ w \in returned'
      BY <1>5, <1>7
    <3> HIDE DEF q
    <3> QED
      BY <3>1, <1>2
  <2>3. UNCHANGED <<heard, holding, writer, orderly>>
    BY <1>1 DEF clientVars
  <2>4. ReturnedKeyed'
    BY <1>1, <1>2, <1>3, <1>4, <1>5 DEF IInv, DownInv, ReturnedKeyed
  <2>5. DownKeyed'
    <3>1. \A i \in DOMAIN q : q[i].skey = k
      BY <1>5 DEF IInv, DownInv, DownKeyed
    <3> HIDE DEF q, p
    <3>2. \A i \in DOMAIN p : p[i].skey = k
      BY <2>2, <3>1
    <3>3. ASSUME NEW d \in Conns
          PROVE  /\ \A i \in DOMAIN wire'[d] : wire'[d][i].skey = d
                 /\ writer'[d] = "writing" => holding'[d].skey = d
                 /\ \A i \in DOMAIN heard'[d] : heard'[d][i].skey = d
      BY <2>1, <2>3, <3>2 DEF IInv, DownInv, DownKeyed
    <3> QED
      BY <3>3 DEF DownKeyed
  <2>6. DownOrdered'
    <3> SUFFICES ASSUME orderly, NEW d \in Conns
                 PROVE  OrderedAt(d)'
      BY <2>3 DEF DownOrdered
    <3>1. OrderedAt(d) /\ OrderedAt(k)
      BY <1>5 DEF IInv, DownInv, DownOrdered
    <3>2. CASE d # k
      BY <2>1, <2>3, <3>1, <3>2 DEF OrderedAt
    <3>3. CASE d = k
      <4>1. \A i \in DOMAIN heard[k] : heard[k][i] \in returned
        BY <1>5 DEF IInv, TypeOK
      <4>2. writer[k] = "writing" => holding[k] \in returned
        BY <1>5 DEF IInv, TypeOK
      <4>3. /\ \A i, j \in DOMAIN q : i < j => Earlier(q[i], q[j])
            /\ \A i \in DOMAIN heard[k], j \in DOMAIN q : Earlier(heard[k][i], q[j])
            /\ writer[k] = "writing" => \A j \in DOMAIN q : Earlier(holding[k], q[j])
        BY <3>1 DEF OrderedAt
      <4> HIDE DEF q, p, k
      <4>4. \A i, j \in DOMAIN p : i < j => Earlier(p[i], p[j])
        BY <1>6, <2>2, <4>3
      <4>5. \A i \in DOMAIN heard[k], j \in DOMAIN p : Earlier(heard[k][i], p[j])
        BY <1>6, <2>2, <4>1, <4>3
      <4>6. writer[k] = "writing" => \A j \in DOMAIN p : Earlier(holding[k], p[j])
        BY <1>6, <2>2, <4>2, <4>3
      <4> QED
        BY <2>1, <2>3, <3>1, <3>3, <4>4, <4>5, <4>6 DEF OrderedAt
    <3> QED
      BY <3>2, <3>3
  <2> QED
    BY <1>1, <1>9, <2>4, <2>5, <2>6, UpInvKept DEF IInv, DownInv, WriterLater, clientVars, upVars
<1> QED
  BY <1>2, <1>10, <1>11

-----------------------------------------------------------------------------

\* Whose every frame is, and in what order answers stand on their way to a program,
\* at all times (run_tcp_rule, handle_tcp_local and the bridge behind them).
THEOREM InvariantHolds == Spec => []IInv
<1>1. IInv /\ [Next]_vars => IInv'
  <2> SUFFICES ASSUME IInv, [Next]_vars PROVE IInv'
    OBVIOUS
  <2>1. CASE ClientStep
    <3>1. UNCHANGED <<bridgeVars, orderly, wire>>
      BY <2>1 DEF ClientStep
    <3>2. CASE AcceptFails
      BY <3>1, <3>2, QuietSteps
    <3>3. CASE \E c \in Conns : ConnStep(c)
      BY <3>1, <3>3, QuietSteps, OpenTunnelStep, ReadChunkStep, SendFailsStep, WriteStep,
         WriterEndsStep
      DEF ConnStep
    <3> QED
      BY <2>1, <3>2, <3>3 DEF ClientStep, ClientNext
  <2>2. CASE \E c \in Conns : Arrives(c)
    BY <2>2, ArrivesStep
  <2>3. CASE \E r \in Relays :
                \/ BridgeOpens(r) \/ BridgeForwards(r) \/ DestAnswers(r)
                \/ \E v \in Relays : BridgeReturns(r, v)
    BY <2>3, BridgeOpensStep, BridgeForwardsStep, DestAnswersStep, BridgeReturnsStep
  <2>4. CASE UNCHANGED vars
    <3>1. TypeOK' /\ WriterLater'
      BY <2>4 DEF IInv, TypeOK, WriterLater, vars, clientVars, bridgeVars
    <3>2. UNCHANGED upVars /\ UNCHANGED downVars
      BY <2>4 DEF vars, clientVars, bridgeVars, upVars, downVars
    <3> QED
      BY <3>1, <3>2, UpInvKept, DownInvKept DEF IInv
  <2> QED
    BY <2>1, <2>2, <2>3, <2>4 DEF Next
<1> QED
  BY <1>1, InitIInv, PTL DEF Spec

\* The tasks of a TCP rule never leave the types of TypeOK, however many
\* connections a program opens and drops.
THEOREM TypesHold == Spec => []TypeOK
BY InvariantHolds, PTL DEF IInv

\* What a destination is given was said on the one connection that opened it, and
\* the number of a frame is the place of its chunk: open_tunnel gives each
\* connection keys of its own and handle_tcp_local counts from the SYN on.
THEOREM OneStreamHolds == Spec => []OneStream
<1>1. IInv => OneStream
  <2> SUFFICES ASSUME IInv, NEW r \in Relays, forwarded[r] # <<>>
               PROVE  \E c \in Conns :
                        /\ \A s \in Under(opened[r], 0) : s.conn = c
                        /\ \A i \in DOMAIN forwarded[r] :
                              LET f == forwarded[r][i]
                              IN  Under(f, f.seq) =
                                  {[key |-> f.skey, seq |-> f.seq, conn |-> c, chunk |-> f.seq]}
    BY DEF OneStream
  <2> DEFINE c == opened[r].skey
  <2>1. opened[r] # None
    <3>1. forwarded[r] \in Seq(DataFrame) /\ forwarded[r] # <<>>
      BY DEF IInv, TypeOK
    <3>2. 1 \in DOMAIN forwarded[r]
      BY <3>1
    <3> QED
      BY <3>2 DEF IInv, UpInv, ForwardedSent
  <2>2. c \in Conns
    BY <2>1 DEF IInv, TypeOK, SynFrame, Keys
  <2>3. \A s \in Under(opened[r], 0) : s.conn = c
    BY DEF Under, IInv, UpInv, SealedOwn
  <2>4. ASSUME NEW i \in DOMAIN forwarded[r]
        PROVE  Under(forwarded[r][i], forwarded[r][i].seq) =
               {[key |-> forwarded[r][i].skey, seq |-> forwarded[r][i].seq, conn |-> c,
                 chunk |-> forwarded[r][i].seq]}
    <3> DEFINE f == forwarded[r][i]
               rec == [key |-> f.skey, seq |-> f.seq, conn |-> c, chunk |-> f.seq]
    <3>1. f.skey = c /\ Under(f, f.seq) # {}
      BY <2>4 DEF IInv, UpInv, ForwardedSent, WireSealed
    <3>2. ASSUME NEW s \in Under(f, f.seq)
          PROVE  s = rec
      <4>1. /\ s \in [key : Keys, seq : Nat, conn : Conns, chunk : Nat]
            /\ s.key = f.skey /\ s.seq = f.seq /\ s.conn = s.key /\ s.chunk = s.seq
        BY <3>2 DEF Under, IInv, TypeOK, UpInv, SealedOwn
      <4>2. s = [key |-> s.key, seq |-> s.seq, conn |-> s.conn, chunk |-> s.chunk]
        BY <4>1
      <4> QED
        BY <3>1, <4>1, <4>2
    <3> HIDE DEF rec, f
    <3>3. Under(f, f.seq) = {rec}
      BY <3>1, <3>2
    <3> QED
      BY <3>3 DEF rec, f
  <2> QED
    BY <2>2, <2>3, <2>4
<1> QED
  BY <1>1, InvariantHolds, PTL

\* A program hears only destinations its own SYN opened: recv_task opens a frame
\* with the key of its connection and of no other.
THEOREM HeardOwnHolds == Spec => []HeardOwn
<1>1. IInv => HeardOwn
  <2> SUFFICES ASSUME IInv, NEW c \in Conns, NEW i \in DOMAIN heard[c]
               PROVE  /\ Under(opened[heard[c][i].from], 0) # {}
                      /\ \A s \in Under(opened[heard[c][i].from], 0) : s.conn = c
    BY DEF HeardOwn
  <2> DEFINE w == heard[c][i]
  <2>1. w \in returned /\ w.skey = c
    BY DEF IInv, TypeOK, DownInv, DownKeyed
  <2>2. w.from \in Relays /\ opened[w.from] # None /\ opened[w.from].skey = c
    BY <2>1 DEF IInv, DownInv, ReturnedKeyed
  <2>3. Under(opened[w.from], 0) # {}
    BY <2>2 DEF IInv, UpInv, OpenedSent, WireSealed
  <2>4. \A s \in Under(opened[w.from], 0) : s.conn = c
    BY <2>2 DEF Under, IInv, UpInv, SealedOwn
  <2> QED
    BY <2>3, <2>4
<1> QED
  BY <1>1, InvariantHolds, PTL

\* On a network that keeps the order, a program hears the answers of a destination
\* in the order given, each once: recv_task holds one frame at a time and writes it
\* before it takes the next.
THEOREM HeardInOrderHolds == Spec => []HeardInOrder
<1>1. IInv => HeardInOrder
  BY DEF IInv, DownInv, DownOrdered, OrderedAt, Earlier, HeardInOrder
<1> QED
  BY <1>1, InvariantHolds, PTL

-----------------------------------------------------------------------------
(* The whole is the service EndToEnd *)

\* Numbers are those of chunks that were read and of answers that were given.
NumbersGiven ==
    /\ \A s \in sealed : s.chunk <= read[s.conn]
    /\ \A f \in upWire : f.kind = "data" => f.seq # 0
    /\ \A w \in returned : w.n \in 1 .. answers[w.from]

LEMMA NumbersStep ==
    ASSUME IInv, NumbersGiven, [Next]_vars
    PROVE  NumbersGiven'
<1>1. CASE UNCHANGED <<read, sealed, upWire, returned, answers>>
  BY <1>1 DEF NumbersGiven
<1>2. ASSUME NEW c \in Conns, OpenTunnel(c), UNCHANGED bridgeVars
      PROVE  NumbersGiven'
  <2>1. read[c] \in Nat
    BY ClientAssumption DEF IInv, TypeOK
  <2> QED
    BY <1>2, <2>1 DEF OpenTunnel, NumbersGiven, bridgeVars
<1>3. ASSUME NEW c \in Conns, NextChunk(c)
      PROVE  /\ \A d \in Conns : read[d] \in Nat /\ read'[d] \in Nat /\ read[d] <= read'[d]
             /\ read'[c] = tx_sequence[c] + 1 /\ read'[c] = read[c] + 1
  BY <1>3, ClientAssumption DEF NextChunk, IInv, TypeOK, UpInv, CountsAgree
<1>4. ASSUME NEW c \in Conns, ReadChunk(c), UNCHANGED bridgeVars
      PROVE  NumbersGiven'
  <2>1. NextChunk(c)
    BY <1>4 DEF ReadChunk
  <2>2. \A s \in sealed' : s.chunk <= read'[s.conn]
    <3> DEFINE t == [key |-> KeyOf(c), seq |-> tx_sequence[c] + 1, conn |-> c,
                     chunk |-> read[c] + 1]
    <3>1. \A s \in sealed : s.chunk \in Nat /\ s.conn \in Conns /\ s.chunk <= read[s.conn]
      BY DEF IInv, TypeOK, NumbersGiven
    <3>2. t.chunk <= read'[t.conn]
      BY <1>3, <2>1
    <3>3. sealed' = sealed \cup {t}
      BY <1>4 DEF ReadChunk
    <3>4. \A s \in sealed : s.chunk <= read'[s.conn]
      BY <1>3, <2>1, <3>1
    <3> HIDE DEF t
    <3> QED
      BY <3>2, <3>3, <3>4
  <2>3. \A f \in upWire' : f.kind = "data" => f.seq # 0
    BY <1>3, <1>4, <2>1 DEF ReadChunk, NumbersGiven, IInv, TypeOK
  <2> QED
    BY <1>4, <2>2, <2>3 DEF ReadChunk, NumbersGiven, bridgeVars
<1>5. ASSUME NEW c \in Conns, SendFails(c), UNCHANGED bridgeVars
      PROVE  NumbersGiven'
  <2>1. NextChunk(c)
    BY <1>5 DEF SendFails
  <2>2. \A s \in sealed : s.chunk \in Nat /\ s.conn \in Conns /\ s.chunk <= read[s.conn]
    BY DEF IInv, TypeOK, NumbersGiven
  <2>3. \A s \in sealed : s.chunk <= read'[s.conn]
    BY <1>3, <2>1, <2>2
  <2> QED
    BY <1>5, <2>3 DEF SendFails, NumbersGiven, bridgeVars
<1>6. ASSUME NEW r \in Relays, DestAnswers(r)
      PROVE  NumbersGiven'
  <2>1. \A q \in Relays : answers[q] \in Nat /\ answers'[q] \in Nat /\ answers[q] <= answers'[q]
    BY <1>6 DEF DestAnswers, Bridge!Answer, IInv, TypeOK
  <2>2. \A w \in returned : w.from \in Relays
    BY DEF IInv, DownInv, ReturnedKeyed
  <2> QED
    BY <1>6, <2>1, <2>2 DEF DestAnswers, Bridge!Answer, NumbersGiven, clientVars
<1>7. ASSUME NEW r \in Relays, NEW v \in Relays, BridgeReturns(r, v)
      PROVE  NumbersGiven'
  <2>1. PICK w : returned' = returned \cup {w} /\ w.from = r /\ w.n \in 1 .. answers[r]
    BY <1>7 DEF BridgeReturns
  <2>2. UNCHANGED <<clientVars, answers>>
    BY <1>7 DEF BridgeReturns, Bridge!Return
  <2> QED
    BY <2>1, <2>2 DEF NumbersGiven, clientVars
<1>8. CASE ClientStep
  <2>1. UNCHANGED bridgeVars
    BY <1>8 DEF ClientStep
  <2> QED
    BY <1>1, <1>2, <1>4, <1>5, <1>8, <2>1
    DEF ClientStep, ClientNext, ConnStep, AcceptFails, Accept, OpenFails, LocalEnds, Write,
        WriterFails, AbortTakes, WriterEnds, bridgeVars
<1>9. ASSUME NEW c \in Conns, Arrives(c)
      PROVE  NumbersGiven'
  <2>1. UNCHANGED <<read, sealed, upWire, returned, answers>>
    BY <1>9 DEF Arrives, TakeFrame, bridgeVars
  <2> QED
    BY <1>1, <2>1
<1>10. ASSUME NEW r \in Relays, BridgeOpens(r) \/ BridgeForwards(r)
       PROVE  NumbersGiven'
  <2>1. UNCHANGED <<read, sealed, upWire, returned, answers>>
    BY <1>10 DEF BridgeOpens, BridgeForwards, Bridge!OpenRelay, Bridge!Forward, clientVars
  <2> QED
    BY <1>1, <2>1
<1> QED
  BY <1>1, <1>6, <1>7, <1>8, <1>9, <1>10 DEF Next, vars, clientVars, bridgeVars

\* The number handle_tcp_local gives a frame is that of a chunk it has read, and an
\* answer on the wire is one the destination has given.
THEOREM NumbersHold == Spec => []NumbersGiven
<1>1. Init => NumbersGiven
  BY DEF Init, ClientInit, Bridge!Init, NumbersGiven
<1> QED
  BY <1>1, NumbersStep, InvariantHolds, PTL DEF Spec

\* The end of a connection is the key of its SYN, and a frame's message its number.
EndsKnown ==
    /\ \A r \in Relays : Party(r) = IF opened[r] = None THEN None ELSE opened[r].skey
    /\ \A r \in Relays : Given(r) =
          [i \in 1 .. Len(forwarded[r]) |->
              [by |-> forwarded[r][i].skey, n |-> forwarded[r][i].seq]]

LEMMA EndsAreKnown == IInv => EndsKnown
<1> SUFFICES ASSUME IInv PROVE EndsKnown
  OBVIOUS
<1>1. ASSUME NEW f, NEW n, Under(f, n) # {}
      PROVE  SealedAs(f, n).conn = f.skey /\ SealedAs(f, n).chunk = n
  <2>1. SealedAs(f, n) \in Under(f, n)
    BY <1>1 DEF SealedAs
  <2> QED
    BY <2>1 DEF Under, IInv, UpInv, SealedOwn
<1>2. ASSUME NEW r \in Relays
      PROVE  Party(r) = IF opened[r] = None THEN None ELSE opened[r].skey
  <2>1. opened[r] # None => Under(opened[r], 0) # {}
    BY DEF IInv, UpInv, OpenedSent, WireSealed
  <2> QED
    BY <1>1, <2>1 DEF Party
<1>3. ASSUME NEW r \in Relays, NEW i \in 1 .. Len(forwarded[r])
      PROVE  Message(forwarded[r][i]) = [by |-> forwarded[r][i].skey, n |-> forwarded[r][i].seq]
  <2>1. i \in DOMAIN forwarded[r]
    BY DEF IInv, TypeOK
  <2>2. Under(forwarded[r][i], forwarded[r][i].seq) # {}
    BY <2>1 DEF IInv, UpInv, ForwardedSent, WireSealed
  <2> QED
    BY <1>1, <2>2 DEF Message
<1> HIDE DEF Message
<1> QED
  BY <1>2, <1>3 DEF EndsKnown, Given

LEMMA AppendMapped ==
    ASSUME NEW S, NEW T, NEW q \in Seq(S), NEW e \in S, NEW h \in [S -> T]
    PROVE  [i \in 1 .. Len(Append(q, e)) |-> h[Append(q, e)[i]]] =
           Append([i \in 1 .. Len(q) |-> h[q[i]]], h[e])
<1> DEFINE m == [i \in 1 .. Len(q) |-> h[q[i]]]
           a == Append(q, e)
<1>1. /\ Len(q) \in Nat /\ Len(a) = Len(q) + 1 /\ a[Len(q) + 1] = e
      /\ \A i \in 1 .. Len(q) : a[i] = q[i] /\ q[i] \in S
  OBVIOUS
<1>2. m \in Seq(T) /\ Len(m) = Len(q)
  <2>1. m \in [1 .. Len(q) -> T]
    BY <1>1
  <2> HIDE DEF m
  <2>2. m \in Seq(T)
    BY <1>1, <2>1
  <2> QED
    BY <1>1, <2>1, <2>2
<1>3. /\ DOMAIN Append(m, h[e]) = 1 .. Len(q) + 1 /\ Append(m, h[e])[Len(q) + 1] = h[e]
      /\ \A i \in 1 .. Len(q) : Append(m, h[e])[i] = m[i]
  <2> HIDE DEF m
  <2> QED
    BY <1>1, <1>2
<1> QED
  BY <1>1, <1>3

MappedInv == IInv /\ NumbersGiven /\ EndsKnown

LEMMA PartyIsKey ==
    ASSUME MappedInv, NEW r \in Relays, opened[r] # None
    PROVE  Party(r) = opened[r].skey /\ Party(r) \in Conns /\ Party(r) # None
BY ClientAssumption DEF MappedInv, EndsKnown, IInv, TypeOK, SynFrame, Keys

LEMMA MappedKept ==
    ASSUME MappedInv, MappedInv'
    PROVE  /\ UNCHANGED opened =>
                [r \in Relays |-> Party(r)]' = [r \in Relays |-> Party(r)]
           /\ UNCHANGED forwarded =>
                [r \in Relays |-> Given(r)]' = [r \in Relays |-> Given(r)]
           /\ UNCHANGED heard =>
                (UNION {HeardBy(c) : c \in Conns})' = UNION {HeardBy(c) : c \in Conns}
BY DEF MappedInv, EndsKnown, HeardBy

LEMMA InitMapped == Init => Service!Init
<1> SUFFICES ASSUME Init PROVE Service!Init
  OBVIOUS
<1> USE DEF Init, ClientInit, Bridge!Init
<1>1. \A r \in Relays : Party(r) = None
  BY DEF Party
<1>2. \A r \in Relays : Given(r) = <<>>
  BY DEF Given
<1>3. UNION {HeardBy(c) : c \in Conns} = {}
  BY DEF HeardBy
<1> QED
  BY <1>1, <1>2, <1>3 DEF Service!Init

\* The copier reads a chunk, whether its frame is sent or not.
LEMMA NextChunkIsSay ==
    ASSUME MappedInv, MappedInv', NEW c \in Conns, NextChunk(c),
           UNCHANGED <<opened, forwarded, answers, heard, orderly>>
    PROVE  Service!Say(c)
BY MappedKept DEF NextChunk, Service!Say

\* What the tasks do among themselves is not seen.
LEMMA OthersStutter ==
    ASSUME MappedInv, MappedInv',
           UNCHANGED <<read, opened, forwarded, answers, heard, orderly>>
    PROVE  UNCHANGED Service!vars
BY MappedKept DEF Service!vars

LEMMA BridgeOpensIsConnect ==
    ASSUME MappedInv, MappedInv', NEW r \in Relays, BridgeOpens(r)
    PROVE  \E c \in Conns : Service!Connect(r, c)
<1>1. PICK f \in upWire : f.kind = "syn" /\ Bridge!OpenRelay(r, f)
  BY DEF BridgeOpens
<1>2. /\ opened[r] = None /\ opened' = [opened EXCEPT ![r] = f]
      /\ UNCHANGED <<read, forwarded, answers, heard, orderly>>
  BY <1>1 DEF BridgeOpens, Bridge!OpenRelay, clientVars
<1>3. f \in SynFrame /\ f # None /\ opened'[r] = f
  BY <1>1, <1>2, ClientAssumption DEF MappedInv, IInv, TypeOK, SynFrame, DataFrame
<1>4. Party(r) = None /\ Party(r)' = f.skey /\ f.skey \in Conns
  BY <1>2, <1>3 DEF MappedInv, EndsKnown, SynFrame, Keys
<1>5. \A q \in Relays : q # r => Party(q)' = Party(q)
  BY <1>2 DEF MappedInv, EndsKnown, IInv, TypeOK
<1>6. [q \in Relays |-> Party(q)]' = [[q \in Relays |-> Party(q)] EXCEPT ![r] = f.skey]
  BY <1>4, <1>5
<1>7. Service!Connect(r, f.skey)
  BY <1>2, <1>4, <1>6, MappedKept DEF Service!Connect
<1> QED
  BY <1>4, <1>7

LEMMA DestAnswersIsAnswer ==
    ASSUME MappedInv, MappedInv', NEW r \in Relays, DestAnswers(r)
    PROVE  Service!Answer(r)
<1>1. /\ opened[r] # None /\ answers' = [answers EXCEPT ![r] = @ + 1]
      /\ UNCHANGED <<read, opened, forwarded, heard, orderly>>
  BY DEF DestAnswers, Bridge!Answer, clientVars
<1> QED
  BY <1>1, PartyIsKey, MappedKept DEF Service!Answer

\* The frame forwarded carries a chunk of the connection's own program.
LEMMA BridgeForwardsIsGive ==
    ASSUME MappedInv, MappedInv', NEW r \in Relays, BridgeForwards(r)
    PROVE  /\ Party(r) # None
           /\ \E n \in 1 .. read[Party(r)] : Service!Give(r, n)
<1>1. PICK f \in upWire : f.kind = "data" /\ Bridge!Forward(r, f)
  BY DEF BridgeForwards
<1>2. /\ forwarded[r] \in Seq(DataFrame) /\ f \in DataFrame
      /\ forwarded' = [forwarded EXCEPT ![r] = Append(forwarded[r], f)]
      /\ opened[r] # None /\ f.skey = opened[r].skey
      /\ UNCHANGED <<read, opened, answers, heard, orderly>>
  BY <1>1 DEF MappedInv, IInv, TypeOK, SynFrame, DataFrame, Bridge!Forward, BridgeForwards,
              clientVars
<1>3. Party(r) = f.skey /\ Party(r) \in Conns /\ Party(r) # None
  BY <1>2, PartyIsKey
<1>4. f.seq \in 1 .. read[f.skey]
  <2>1. PICK s \in sealed : s.key = f.skey /\ s.seq = f.seq
    BY <1>1 DEF MappedInv, IInv, UpInv, WireSealed, Under
  <2>2. s.conn = f.skey /\ s.chunk = f.seq /\ s.chunk <= read[s.conn] /\ f.seq # 0
    BY <1>1, <2>1 DEF MappedInv, NumbersGiven, IInv, UpInv, SealedOwn
  <2>3. f.seq \in Nat /\ read[f.skey] \in Nat
    <3>1. f.skey \in Conns /\ f.seq \in Nat
      BY <1>2, <1>3 DEF DataFrame
    <3>2. read \in [Conns -> 0 .. MaxChunks]
      BY DEF MappedInv, IInv, TypeOK
    <3> QED
      BY <3>1, <3>2, ClientAssumption
  <2> QED
    BY <2>2, <2>3
<1>5. Given(r)' = Append(Given(r), [by |-> Party(r), n |-> f.seq])
  <2> DEFINE T == {[by |-> g.skey, n |-> g.seq] : g \in DataFrame}
             msg == [g \in DataFrame |-> [by |-> g.skey, n |-> g.seq]]
             F == forwarded[r]
  <2>1. msg \in [DataFrame -> T] /\ msg[f] = [by |-> Party(r), n |-> f.seq]
    BY <1>2, <1>3
  <2>2. F \in Seq(DataFrame) /\ f \in DataFrame /\ forwarded'[r] = Append(F, f)
    BY <1>2 DEF MappedInv, IInv, TypeOK
  <2>3. /\ \A i \in 1 .. Len(F) : F[i] \in DataFrame
        /\ \A i \in 1 .. Len(Append(F, f)) : Append(F, f)[i] \in DataFrame
    <3> HIDE DEF F
    <3> QED
      BY <2>2
  <2>4. Given(r) = [i \in 1 .. Len(F) |-> msg[F[i]]]
    BY <2>3 DEF MappedInv, EndsKnown
  <2>5. Given(r)' = [i \in 1 .. Len(Append(F, f)) |-> msg[Append(F, f)[i]]]
    <3>1. Given(r)' = [i \in 1 .. Len(forwarded'[r]) |->
                          [by |-> forwarded'[r][i].skey, n |-> forwarded'[r][i].seq]]
      BY DEF MappedInv, EndsKnown
    <3> HIDE DEF F
    <3> QED
      BY <2>2, <2>3, <3>1
  <2> HIDE DEF msg, F, T
  <2> QED
    BY <2>1, <2>2, <2>4, <2>5, AppendMapped
<1>6. ASSUME NEW q \in Relays, q # r
      PROVE  Given(q)' = Given(q)
  <2>1. forwarded'[q] = forwarded[q]
    BY <1>2, <1>6 DEF MappedInv, IInv, TypeOK
  <2>2. Given(q) = [i \in 1 .. Len(forwarded[q]) |->
                       [by |-> forwarded[q][i].skey, n |-> forwarded[q][i].seq]]
    BY DEF MappedInv, EndsKnown
  <2>3. Given(q)' = [i \in 1 .. Len(forwarded'[q]) |->
                        [by |-> forwarded'[q][i].skey, n |-> forwarded'[q][i].seq]]
    BY DEF MappedInv, EndsKnown
  <2> QED
    BY <2>1, <2>2, <2>3
<1>7. [q \in Relays |-> Given(q)]' =
         [[q \in Relays |-> Given(q)] EXCEPT ![r] = Append(@, [by |-> Party(r), n |-> f.seq])]
  BY <1>5, <1>6
<1>8. Service!Give(r, f.seq)
  BY <1>2, <1>7, MappedKept DEF Service!Give
<1> QED
  BY <1>3, <1>4, <1>8

\* What is written is an answer of a destination that the program's own SYN opened,
\* and on an orderly network later than all it has heard of that destination.
LEMMA WriteIsHear ==
    ASSUME MappedInv, MappedInv', NEW c \in Conns, Write(c),
           UNCHANGED <<bridgeVars, orderly>>
    PROVE  \E r \in Relays : /\ Party(r) # None
                            /\ \E n \in 1 .. answers[r] : Service!Hear(r, n)
<1> DEFINE w == holding[c]
           Heard == UNION {HeardBy(d) : d \in Conns}
           new == [to |-> c, from |-> w.from, n |-> w.n]
<1>1. /\ writer[c] = "writing" /\ w \in returned /\ w.skey = c
      /\ heard[c] \in Seq(returned) /\ heard' = [heard EXCEPT ![c] = Append(heard[c], w)]
      /\ UNCHANGED <<read, opened, forwarded, answers, orderly>>
  BY DEF Write, bridgeVars, MappedInv, IInv, TypeOK, DownInv, DownKeyed
<1>2. /\ w.from \in Relays /\ opened[w.from] # None /\ opened[w.from].skey = c
      /\ w.n \in 1 .. answers[w.from]
  BY <1>1 DEF MappedInv, NumbersGiven, IInv, DownInv, ReturnedKeyed
<1>3. Party(w.from) = c /\ Party(w.from) # None
  BY <1>2, PartyIsKey
<1>4. Heard' = Heard \cup {new}
  <2>1. \A d \in Conns : d # c => HeardBy(d)' = HeardBy(d)
    <3>1. \A d \in Conns : d # c => heard'[d] = heard[d]
      BY <1>1 DEF MappedInv, IInv, TypeOK
    <3> QED
      BY <3>1 DEF HeardBy
  <2>2. HeardBy(c)' = HeardBy(c) \cup {new}
    <3> DEFINE h == heard[c]
               H == Append(h, w)
               view(x) == [to |-> c, from |-> x.from, n |-> x.n]
    <3>1. heard'[c] = H /\ h \in Seq(returned) /\ w \in returned
      BY <1>1 DEF MappedInv, IInv, TypeOK
    <3>2. HeardBy(c) = {view(h[i]) : i \in DOMAIN h}
      BY DEF HeardBy
    <3>3. HeardBy(c)' = {view(H[i]) : i \in DOMAIN H}
      BY <3>1 DEF HeardBy
    <3> HIDE DEF h
    <3>4. /\ DOMAIN H = DOMAIN h \cup {Len(h) + 1} /\ H[Len(h) + 1] = w
          /\ \A i \in DOMAIN h : H[i] = h[i]
      BY <3>1
    <3>5. new = view(w)
      OBVIOUS
    <3> HIDE DEF view, H, new
    <3> QED
      BY <3>2, <3>3, <3>4, <3>5
  <2> HIDE DEF new
  <2> QED
    BY <2>1, <2>2
<1>5. ASSUME orderly, NEW x \in Heard, x.from = w.from
      PROVE  x.n < w.n
  <2>1. PICK d \in Conns : x \in HeardBy(d)
    BY <1>5
  <2>2. PICK i \in DOMAIN heard[d] : x.from = heard[d][i].from /\ x.n = heard[d][i].n
    BY <2>1 DEF HeardBy
  <2>3. heard[d][i] \in returned /\ heard[d][i].skey = d
    BY DEF MappedInv, IInv, TypeOK, DownInv, DownKeyed
  <2>4. d = c
    BY <1>2, <1>5, <2>2, <2>3 DEF MappedInv, IInv, DownInv, ReturnedKeyed
  <2>5. Earlier(heard[c][i], w)
    BY <1>1, <1>5, <2>4 DEF MappedInv, IInv, DownInv, DownOrdered, OrderedAt
  <2> QED
    BY <1>5, <2>2, <2>4, <2>5 DEF Earlier
<1>6. Service!Hear(w.from, w.n)
  <2>1. [r \in Relays |-> Party(r)][w.from] = c
    BY <1>2, <1>3
  <2> HIDE DEF w
  <2> QED
    BY <1>1, <1>4, <1>5, <2>1, MappedKept DEF Service!Hear, w
<1> QED
  BY <1>2, <1>3, <1>6

LEMMA ServiceStep == MappedInv /\ MappedInv' /\ [Next]_vars => [Service!Next]_(Service!vars)
<1> SUFFICES ASSUME MappedInv, MappedInv', [Next]_vars
             PROVE  Service!Next \/ UNCHANGED Service!vars
  OBVIOUS
<1>1. CASE ClientStep
  <2>1. UNCHANGED <<bridgeVars, opened, forwarded, answers, orderly>>
    BY <1>1 DEF ClientStep, bridgeVars
  <2>2. CASE UNCHANGED <<read, heard>>
    BY <2>1, <2>2, OthersStutter
  <2>3. ASSUME NEW c \in Conns, ReadChunk(c) \/ SendFails(c)
        PROVE  Service!Next
    <3>1. NextChunk(c) /\ UNCHANGED heard
      BY <2>3 DEF ReadChunk, SendFails
    <3> QED
      BY <2>1, <3>1, NextChunkIsSay DEF Service!Next
  <2>4. ASSUME NEW c \in Conns, Write(c)
        PROVE  Service!Next
    <3>1. PICK r \in Relays : Party(r) # None /\ \E n \in 1 .. answers[r] : Service!Hear(r, n)
      BY <2>1, <2>4, WriteIsHear
    <3> QED
      BY <3>1 DEF Service!Next
  <2> QED
    BY <1>1, <2>2, <2>3, <2>4
    DEF ClientStep, ClientNext, ConnStep, AcceptFails, Accept, OpenTunnel, OpenFails,
        LocalEnds, WriterFails, AbortTakes, WriterEnds
<1>2. ASSUME NEW c \in Conns, Arrives(c)
      PROVE  UNCHANGED Service!vars
  <2>1. UNCHANGED <<read, opened, forwarded, answers, heard, orderly>>
    BY <1>2 DEF Arrives, TakeFrame, bridgeVars
  <2> QED
    BY <2>1, OthersStutter
<1>3. ASSUME NEW r \in Relays, BridgeOpens(r)
      PROVE  Service!Next
  BY <1>3, BridgeOpensIsConnect DEF Service!Next
<1>4. ASSUME NEW r \in Relays, BridgeForwards(r)
      PROVE  Service!Next
  <2>1. Party(r) # None /\ \E n \in 1 .. read[Party(r)] : Service!Give(r, n)
    BY <1>4, BridgeForwardsIsGive
  <2> QED
    BY <2>1 DEF Service!Next
<1>5. ASSUME NEW r \in Relays, DestAnswers(r)
      PROVE  Service!Next
  BY <1>5, DestAnswersIsAnswer DEF Service!Next
<1>6. ASSUME NEW r \in Relays, NEW v \in Relays, BridgeReturns(r, v)
      PROVE  UNCHANGED Service!vars
  <2>1. UNCHANGED <<read, opened, forwarded, answers, heard, orderly>>
    BY <1>6 DEF BridgeReturns, Bridge!Return, clientVars
  <2> QED
    BY <2>1, OthersStutter
<1>7. CASE UNCHANGED vars
  BY <1>7, OthersStutter DEF vars, clientVars, bridgeVars
<1> QED
  BY <1>1, <1>2, <1>3, <1>4, <1>5, <1>6, <1>7 DEF Next

\* Client, network and bridge together are the service EndToEnd, ordered if the
\* network is: two tasks for each connection, early returns, aborts and failed sends
\* never show in whose bytes a destination is given or in what a program hears
\* (run_tcp_rule, handle_tcp_local and, through RelayService, the bridge).
THEOREM StreamIsService == Spec => ServiceSpec
<1>1. IInv /\ NumbersGiven => MappedInv
  BY EndsAreKnown DEF MappedInv
<1>2. Spec => []MappedInv
  BY <1>1, InvariantHolds, NumbersHold, PTL
<1> QED
  BY <1>2, InitMapped, ServiceStep, PTL DEF Spec, ServiceSpec, Service!Spec
===============================================================================
