------------------------------- MODULE Regions -------------------------------
(***************************************************************************)
(* The AWS region of an address (gr-common aws_regions.rs): a list of      *)
(* prefixes bundled with the build, compiled into a sorted table, searched *)
(* by bisection and then backwards for at most Walk entries.               *)
(*                                                                         *)
(* The sorted vector without duplicates is the set of its entries together *)
(* with the order Before: in the bundled list a prefix has one region, so  *)
(* no two entries are equal in that order.                                 *)
(***************************************************************************)
EXTENDS Naturals, FiniteSets

CONSTANTS
    Width,       \* bits of an address (32)
    Walk,        \* entries looked at, from the one found backwards (32)
    RegionNames,
    Snapshots,   \* the lists a build may bundle: sets of [ip, mask, region]
    None

Addresses == 0 .. 2^Width - 1

\* parse_cidr: the address with its host bits cleared.
Network(ip, mask) == (ip \div 2^(Width - mask)) * 2^(Width - mask)

\* load_bundled: what parse_cidr refuses is skipped, equal entries are kept once.
Compiled(list) ==
    {[network |-> Network(p.ip, p.mask), mask |-> p.mask, region |-> p.region] :
        p \in {q \in list : q.mask <= Width}}

ASSUME RegionsAssumption ==
    /\ Width \in Nat
    /\ Walk \in Nat \ {0}
    /\ \A k \in 0 .. Width : 2^k \in Nat \ {0}
    /\ None \notin RegionNames
    /\ \A list \in Snapshots :
          /\ IsFiniteSet(list)
          /\ list \subseteq [ip : Addresses, mask : Nat, region : RegionNames]
          /\ Compiled(list) # {}
          /\ \A p, q \in Compiled(list) : p.network = q.network /\ p.mask = q.mask => p = q

VARIABLES
    snapshot, \* the list bundled
    table,    \* AwsLookup.prefixes
    answer    \* the address asked last and the region returned

vars == <<snapshot, table, answer>>

-----------------------------------------------------------------------------

\* Sorted by first address, shorter masks first.
Before(p, q) == p.network < q.network \/ (p.network = q.network /\ p.mask < q.mask)

UpTo(p) == {q \in table : q = p \/ Before(q, p)}

\* Variant: the entry at the insertion point, not the one before it.
Found_InsertionPoint(ip) ==
    LET hits == {p \in table : p.network = ip}
        later == {p \in table : p.network > ip}
    IN  IF hits # {} THEN hits
        ELSE {p \in table : IF later = {} THEN table = UpTo(p)
                            ELSE p \in later /\ \A q \in later : q \notin UpTo(p) \ {p}}

\* The bisection: any entry that starts at the address; otherwise the last one
\* that starts before it, or the first of all.
Found(ip) ==
    LET hits == {p \in table : p.network = ip}
        earlier == {p \in table : p.network < ip}
    IN  IF hits # {} THEN hits
        ELSE IF earlier # {} THEN {p \in earlier : earlier \subseteq UpTo(p)}
        ELSE {p \in table : UpTo(p) = {p}}

\* The last address of a prefix; the sum saturates.
LastOf(p) ==
    LET end == p.network + (2^(Width - p.mask) - 1)
    IN  IF end \in Addresses THEN end ELSE 2^Width - 1

\* The entries the walk looks at when it starts from p.
Walked(p) == {q \in UpTo(p) : Cardinality(UpTo(p) \ UpTo(q)) < Walk}

\* Variant: the last address of a prefix counts as the next one's.
Matching_Open(p, ip) == {q \in Walked(p) : q.network <= ip /\ ip <= LastOf(q) + 1}

Matching(p, ip) == {q \in Walked(p) : q.network <= ip /\ ip <= LastOf(q)}

\* The longest mask wins.
BestOf(matching) ==
    IF matching = {} THEN None
    ELSE (CHOOSE q \in matching : \A r \in matching : r.mask <= q.mask).region

-----------------------------------------------------------------------------

Init ==
    /\ snapshot \in Snapshots
    /\ table = Compiled(snapshot)
    /\ answer = None

RegionFor(ip) ==
    /\ \E p \in Found(ip) : answer' = [ip |-> ip, region |-> BestOf(Matching(p, ip))]
    /\ UNCHANGED <<snapshot, table>>

Next == \E ip \in Addresses : RegionFor(ip)

Spec == Init /\ [][Next]_vars

-----------------------------------------------------------------------------
(* Properties, against the list itself *)

\* The prefixes of the list an address lies in: those it shares the first bits with.
Owners(ip) ==
    {p \in snapshot : p.mask <= Width /\ Network(ip, p.mask) = Network(p.ip, p.mask)}

MostSpecificOwners(ip) == {p \in Owners(ip) : \A q \in Owners(ip) : q.mask <= p.mask}

\* Nothing is made up: a region returned is that of a prefix the address lies in,
\* wherever the bisection landed and however far the walk went.
Sound ==
    answer # None /\ answer.region # None =>
        \E p \in Owners(answer.ip) : p.region = answer.region

IsMostSpecific(a) ==
    IF Owners(a.ip) = {} THEN a.region = None
    ELSE a.region \in {p.region : p \in MostSpecificOwners(a.ip)}

\* More prefixes start between the one that owns an address and the address than
\* the walk covers, or several start at the address itself.
Crowded(ip) ==
    LET starts == {q \in Compiled(snapshot) : q.network <= ip}
    IN  \/ Cardinality({q \in starts : q.network = ip}) > 1
        \/ \E p \in Compiled(MostSpecificOwners(ip)) :
              Cardinality({q \in starts : Before(p, q)}) >= Walk

\* The limits of the walk and of the bisection are the only reasons to miss the
\* most specific prefix.  The bundled list has many crowded addresses.
ExactUnlessCrowded ==
    answer # None /\ ~Crowded(answer.ip) => IsMostSpecific(answer)
===============================================================================
