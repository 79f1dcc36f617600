------------------------------- MODULE MCRouter -------------------------------
(* Small instances of Router for TLC. *)
EXTENDS Router, TLC

CONSTANTS c1, c2, ipEast, ipElse, east

Region == [ip \in Ips |-> IF ip = ipEast THEN east ELSE None]

\* Bridge 1 is nearer to the region than bridge 2.
Published == <<[r \in {east} |-> 1], [r \in {east} |-> 3]>>

\* The callers are alike.
Alike == Permutations(Callers)
===============================================================================
