-------------------------------- MODULE Stream --------------------------------
(***************************************************************************)
(* End to end for TCP: local programs, a TCP rule of the client, a network *)
(* that loses frames, and a bridge that is what RelayService promises.     *)
(* Upstream, frames arrive in any order and any number of times.           *)
(* Downstream, the network either keeps the order or does what it likes.   *)
(***************************************************************************)
EXTENDS ClientTcp, FiniteSets

CONSTANTS
    MaxRelays,    \* bound: connections the bridge opens
    MaxForwarded, \* bound: frames forwarded on one connection
    MaxAnswers    \* bound: answers of one destination

Relays == 1 .. MaxRelays

VARIABLES
    opened, forwarded, answers, returned,
    orderly, \* the network towards the client keeps the order of frames
    wire     \* frames on their way to each socket

Bridge == INSTANCE RelayService WITH Admitted <- SynFrame, DataFrames <- DataFrame

bridgeVars == <<opened, forwarded, answers, returned>>
vars == <<clientVars, bridgeVars, orderly, wire>>

Init ==
    /\ ClientInit
    /\ Bridge!Init
    /\ orderly \in BOOLEAN
    /\ wire = [k \in Keys |-> <<>>]

-----------------------------------------------------------------------------

ClientStep == ClientNext /\ UNCHANGED <<bridgeVars, orderly, wire>>

\* Variant: a task per frame, so that writes overtake one another.
Arrives_Overtaking(c) ==
    /\ \E i \in DOMAIN wire[KeyOf(c)] : TakeFrame(c, wire[KeyOf(c)][i])
    /\ UNCHANGED <<bridgeVars, orderly, wire>>

\* Variant: whatever arrives at the host, for one connection or another.
Arrives_Unkeyed(c) ==
    /\ writer[c] = "running"
    /\ \E k \in Keys : wire[k] # <<>> /\ holding' = [holding EXCEPT ![c] = Head(wire[k])]
    /\ writer' = [writer EXCEPT ![c] = "writing"]
    /\ UNCHANGED <<listening, copier, aborted, tx_sequence, read, upWire, sealed, heard>>
    /\ UNCHANGED <<bridgeVars, orderly, wire>>

\* The next frame at the socket of c; without order, any frame, which may come again.
Arrives(c) ==
    /\ wire[KeyOf(c)] # <<>>
    /\ IF orderly
       THEN /\ TakeFrame(c, Head(wire[KeyOf(c)]))
            /\ wire' = [wire EXCEPT ![KeyOf(c)] = Tail(@)]
       ELSE /\ \E i \in DOMAIN wire[KeyOf(c)] : TakeFrame(c, wire[KeyOf(c)][i])
            /\ UNCHANGED wire
    /\ UNCHANGED <<bridgeVars, orderly>>

BridgeOpens(r) ==
    /\ \A q \in 1 .. r - 1 : opened[q] # None
    /\ \E f \in upWire : f.kind = "syn" /\ Bridge!OpenRelay(r, f)
    /\ UNCHANGED <<clientVars, orderly, wire>>

BridgeForwards(r) ==
    /\ Len(forwarded[r]) < MaxForwarded
    /\ \E f \in upWire : f.kind = "data" /\ Bridge!Forward(r, f)
    /\ UNCHANGED <<clientVars, orderly, wire>>

DestAnswers(r) ==
    /\ answers[r] < MaxAnswers
    /\ Bridge!Answer(r)
    /\ UNCHANGED <<clientVars, orderly, wire>>

\* The number an answer leaves under is the carrier's next one.  The network may
\* lose the frame.
BridgeReturns(r, v) ==
    /\ opened[r] # None
    /\ opened[v] # None
    /\ \E n \in 1 .. answers[r] :
          LET w == [skey |-> opened[v].skey, aead |-> opened[v].aead, from |-> r, n |-> n,
                    via |-> v, seq |-> Cardinality({x \in returned : x.via = v}) + 1]
          IN  /\ returned' = returned \cup {w}
              /\ wire' \in {wire, [wire EXCEPT ![w.skey] = Append(@, w)]}
    /\ Bridge!Return(r, v)
    /\ UNCHANGED <<clientVars, orderly>>

Next ==
    \/ ClientStep
    \/ \E c \in Conns : Arrives(c)
    \/ \E r \in Relays :
          \/ BridgeOpens(r) \/ BridgeForwards(r) \/ DestAnswers(r)
          \/ \E v \in Relays : BridgeReturns(r, v)

Spec == Init /\ [][Next]_vars

\* The runtime gets round to an aborted task.  Programs, the network and the bridge
\* owe nothing, nor does a write to a program that does not read.
FairSpec == Spec /\ \A c \in Conns : WF_vars(AbortTakes(c) /\ UNCHANGED <<bridgeVars, orderly, wire>>)

-----------------------------------------------------------------------------
(* Properties *)

TypeOK ==
    /\ listening \in BOOLEAN
    /\ copier \in [Conns -> {"none", "opening", "reading", "failed", "ended"}]
    /\ writer \in [Conns -> {"none", "running", "writing", "ended"}]
    /\ aborted \in [Conns -> BOOLEAN]
    /\ tx_sequence \in [Conns -> Nat]
    /\ read \in [Conns -> 0 .. MaxChunks]
    /\ upWire \subseteq SynFrame \cup DataFrame
    /\ sealed \subseteq [key : Keys, seq : Nat, conn : Conns, chunk : Nat]
    /\ holding \in [Conns -> returned \cup {None}]
    /\ \A c \in Conns : holding[c] \in (IF writer[c] = "writing" THEN returned ELSE {None})
    /\ heard \in [Conns -> Seq(returned)]
    /\ opened \in [Relays -> SynFrame \cup {None}]
    /\ forwarded \in [Relays -> Seq(DataFrame)]
    /\ answers \in [Relays -> Nat]
    /\ orderly \in BOOLEAN
    /\ wire \in [Keys -> Seq(returned)]

\* What was sealed under the key of a frame and with its number.
Under(f, n) == {s \in sealed : s.key = f.skey /\ s.seq = n}

\* Upstream: all that a destination is given was said on the one connection whose
\* SYN opened it, and the number of a frame is the place of its chunk in what was
\* said: a destination cannot be given two programs' bytes, and a receiver that put
\* frames in the order of their numbers would have the stream.
OneStream ==
    \A r \in Relays : forwarded[r] # <<>> =>
        \E c \in Conns :
            /\ \A s \in Under(opened[r], 0) : s.conn = c
            /\ \A i \in DOMAIN forwarded[r] :
                  LET f == forwarded[r][i]
                  IN  Under(f, f.seq) = {[key |-> f.skey, seq |-> f.seq, conn |-> c, chunk |-> f.seq]}

\* Downstream: a program hears only answers of destinations its own SYN opened.
HeardOwn ==
    \A c \in Conns : \A i \in DOMAIN heard[c] :
        LET opener == Under(opened[heard[c][i].from], 0)
        IN  opener # {} /\ \A s \in opener : s.conn = c

\* If the network keeps the order, a program hears the answers of a destination in
\* the order in which they were given, each once, though it may miss some.
HeardInOrder ==
    orderly =>
        \A c \in Conns : \A i, j \in DOMAIN heard[c] :
            i < j /\ heard[c][i].from = heard[c][j].from => heard[c][i].n < heard[c][j].n

\* All of it at once: to local programs and destinations, the client, the network and
\* the bridge are the service EndToEnd.  The one end of a connection is the program
\* whose SYN opened it, and messages are the chunks that frames carry.  The service
\* keeps the order of answers if the network does.
SealedAs(f, n) == CHOOSE s \in Under(f, n) : TRUE

Party(r) == IF opened[r] = None THEN None ELSE SealedAs(opened[r], 0).conn

Message(f) == [by |-> SealedAs(f, f.seq).conn, n |-> SealedAs(f, f.seq).chunk]

Given(r) == [i \in 1 .. Len(forwarded[r]) |-> Message(forwarded[r][i])]

HeardBy(c) == {[to |-> c, from |-> heard[c][i].from, n |-> heard[c][i].n] : i \in DOMAIN heard[c]}

Service == INSTANCE EndToEnd WITH
    Clients <- Conns,
    said <- read,
    party <- [r \in Relays |-> Party(r)],
    given <- [r \in Relays |-> Given(r)],
    heard <- UNION {HeardBy(c) : c \in Conns},
    ordered <- orderly

ServiceSpec == Service!Spec

\* The two directions of a connection end together once the program has ended its
\* own, unless a send failed first.
EndsTogether ==
    \A c \in Conns : (copier[c] = "ended") ~> (writer[c] \in {"none", "ended"})
===============================================================================
