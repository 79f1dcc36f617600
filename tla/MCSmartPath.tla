------------------------------ MODULE MCSmartPath ------------------------------
(* Small instances of SmartPath for TLC. *)
EXTENDS SmartPath

CONSTANTS loop, p1, p2, d1, d2, ipEast, ipWest, east, west

Region == [ip \in Ips |-> IF ip = ipEast THEN east ELSE west]

\* The destinations are in different regions.
Address == [d \in Dests |-> IF d = d1 THEN ipEast ELSE ipWest]

\* A bridge recorded later is nearer to both regions, so that the routes change
\* while estimates come in.
Published == [b \in Bridges |-> [r \in {east, west} |->
                IF r = east THEN 1 + 2 * (NumBridges - b) ELSE NumBridges + 1 - b]]

\* East is nearer directly than through the first of two bridges, and farther than
\* through the second one; nothing is known of the way to west.
EastOnly == [r \in {east, west} |-> IF r = east THEN 5 ELSE None]

NoDirect == [r \in {east, west} |-> None]
Estimates == [b \in Bridges |-> 1]
===============================================================================
