------------------------------ MODULE MCLicensing ------------------------------
(* Small instances of Licensing for TLC. *)
EXTENDS Licensing, TLC

CONSTANTS key1, key2, dal, fra

\* The operator drains a bridge, changes the key and shortens the ttl at once.
Written ==
    {[key |-> key1, ttl |-> 3, enabled |-> {dal, fra}],
     [key |-> key2, ttl |-> 2, enabled |-> {fra}]}

\* Requests differ in nothing but their number.
Alike == Permutations(Signups)
================================================================================
