------------------------------ MODULE MCRegions ------------------------------
(* Small instances of Regions for TLC. *)
EXTENDS Regions

CONSTANTS east, west

\* Every prefix once, in the region that its shape gives it, and one whose address
\* has host bits set.
RegionAt(net, mask) == IF (net + mask) % 2 = 0 THEN east ELSE west

Prefixes ==
    {[ip |-> n, mask |-> m, region |-> RegionAt(n, m)] :
        <<n, m>> \in {x \in Addresses \X (0 .. Width + 1) :
                        x[2] > Width \/ Network(x[1], x[2]) = x[1]}}
        \cup {[ip |-> 5, mask |-> 1, region |-> RegionAt(4, 1)]}

UpToThree ==
    {{p, q, r} : <<p, q, r>> \in
        {x \in Prefixes \X Prefixes \X Prefixes : Compiled({x[1], x[2], x[3]}) # {}}}
===============================================================================
