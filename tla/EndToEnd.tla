------------------------------ MODULE EndToEnd ------------------------------
(***************************************************************************)
(* What client and bridge together promise a local program, with no frame, *)
(* key, session, tunnel, task or table.                                    *)
(*                                                                         *)
(* A connection has two ends, a local program and a destination, and keeps *)
(* them.  What its destination is given, the program at its other end has  *)
(* said, and what a program hears, a destination at the other end of one   *)
(* of its connections has answered.  Anything may be lost; upstream        *)
(* anything may come late or again.  A service that is ordered lets a      *)
(* program hear the answers of a destination in the order given, each once.*)
(***************************************************************************)
EXTENDS Naturals, Sequences

CONSTANTS
    Clients, \* local programs
    Relays,  \* names of connections
    None

VARIABLES
    said,    \* local program -> number of messages it has sent
    party,   \* connection -> the local program at its one end
    given,   \* connection -> messages its destination was given, each with its author
    answers, \* connection -> number of answers its destination gave
    heard,   \* answers handed to local programs
    ordered  \* the service keeps the order of answers

vars == <<said, party, given, answers, heard, ordered>>

Init ==
    /\ said = [c \in Clients |-> 0]
    /\ party = [r \in Relays |-> None]
    /\ given = [r \in Relays |-> <<>>]
    /\ answers = [r \in Relays |-> 0]
    /\ heard = {}
    /\ ordered \in BOOLEAN

Say(c) ==
    /\ said' = [said EXCEPT ![c] = @ + 1]
    /\ UNCHANGED <<party, given, answers, heard, ordered>>

Connect(r, c) ==
    /\ party[r] = None
    /\ party' = [party EXCEPT ![r] = c]
    /\ UNCHANGED <<said, given, answers, heard, ordered>>

\* The destination is given the n-th message of the program at the other end.
Give(r, n) ==
    /\ given' = [given EXCEPT ![r] = Append(@, [by |-> party[r], n |-> n])]
    /\ UNCHANGED <<said, party, answers, heard, ordered>>

Answer(r) ==
    /\ party[r] # None
    /\ answers' = [answers EXCEPT ![r] = @ + 1]
    /\ UNCHANGED <<said, party, given, heard, ordered>>

\* The program hears the n-th answer of the destination at the other end.
Hear(r, n) ==
    /\ ordered => \A x \in heard : x.from = r => x.n < n
    /\ heard' = heard \cup {[to |-> party[r], from |-> r, n |-> n]}
    /\ UNCHANGED <<said, party, given, answers, ordered>>

Next ==
    \/ \E c \in Clients : Say(c)
    \/ \E r \in Relays :
          \/ \E c \in Clients : Connect(r, c)
          \/ Answer(r)
          \/ party[r] # None /\ \E n \in 1 .. said[party[r]] : Give(r, n)
          \/ party[r] # None /\ \E n \in 1 .. answers[r] : Hear(r, n)

Spec == Init /\ [][Next]_vars
===============================================================================
