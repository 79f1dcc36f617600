----------------------------- MODULE RelayService -----------------------------
(***************************************************************************)
(* What a bridge promises, with no table, task, lock or channel.           *)
(*                                                                         *)
(* A relayed connection is opened by an admissible SYN.  Frames of the     *)
(* client that opened it reach its destination, in any order, any number   *)
(* of times or never.  Answers of the destination reach the same client,   *)
(* each at most once and in the order in which they were given; they are   *)
(* numbered upwards by whichever connection of the client carries them.    *)
(***************************************************************************)
EXTENDS Naturals, Sequences

CONSTANTS
    Relays,     \* names of connections
    Admitted,   \* SYN frames a bridge admits
    DataFrames, \* data frames clients send
    None

VARIABLES
    opened,    \* connection -> the SYN that opened it
    forwarded, \* connection -> frames its destination was given
    answers,   \* connection -> number of answers its destination gave
    returned   \* frames sent to clients

vars == <<opened, forwarded, answers, returned>>

Init ==
    /\ opened = [r \in Relays |-> None]
    /\ forwarded = [r \in Relays |-> <<>>]
    /\ answers = [r \in Relays |-> 0]
    /\ returned = {}

OpenRelay(r, f) ==
    /\ opened[r] = None
    /\ opened' = [opened EXCEPT ![r] = f]
    /\ UNCHANGED <<forwarded, answers, returned>>

Forward(r, f) ==
    /\ opened[r] # None
    /\ f.skey = opened[r].skey
    /\ f.aead = opened[r].aead
    /\ forwarded' = [forwarded EXCEPT ![r] = Append(@, f)]
    /\ UNCHANGED <<opened, answers, returned>>

Answer(r) ==
    /\ opened[r] # None
    /\ answers' = [answers EXCEPT ![r] = @ + 1]
    /\ UNCHANGED <<opened, forwarded, returned>>

\* An answer of r, later than those of r already returned, carried by a
\* connection v of the same client under a number v has not reached yet.
Return(r, v) ==
    /\ opened[r] # None /\ opened[v] # None
    /\ opened[r].skey = opened[v].skey
    /\ \E w \in returned' :
          /\ w.from = r /\ w.via = v
          /\ w.skey = opened[v].skey /\ w.aead = opened[v].aead
          /\ w.n \in 1 .. answers[r]
          /\ \A x \in returned : x.from = r => x.n < w.n
          /\ \A x \in returned : x.via = v => x.seq < w.seq
          /\ returned' = returned \cup {w}
    /\ UNCHANGED <<opened, forwarded, answers>>

Next ==
    \E r \in Relays :
        \/ \E f \in Admitted : OpenRelay(r, f)
        \/ \E f \in DataFrames : Forward(r, f)
        \/ Answer(r)
        \/ \E v \in Relays : Return(r, v)

Spec == Init /\ [][Next]_vars
===============================================================================
