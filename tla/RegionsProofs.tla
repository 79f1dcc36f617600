----------------------------- MODULE RegionsProofs -----------------------------
(***************************************************************************)
(* For any list, width and walk: no region is made up, and the most        *)
(* specific prefix is missed only because of the limits of the search.     *)
(* The first is about one entry and one address (SharesPrefix): where the  *)
(* bisection lands and how far the walk goes does not matter.  The second  *)
(* is about which entries the walk covers (WalkReaches).                   *)
(***************************************************************************)
EXTENDS Regions, TLAPS, WellFoundedInduction, FiniteSetTheorems

LEMMA PowerPositive ==
    ASSUME NEW k \in 0 .. Width
    PROVE  2^k \in Nat \ {0}
BY RegionsAssumption

\* A block of d numbers that starts at a multiple of d is that of one quotient.
LEMMA SameQuotient ==
    ASSUME NEW a \in Nat, NEW b \in Nat, NEW d \in Nat \ {0},
           (a \div d) * d <= b, b <= (a \div d) * d + (d - 1)
    PROVE  b \div d = a \div d
<1>1. a \div d \in Nat /\ b \div d \in Nat
  BY SMT
<1>2. (b \div d) * d <= b /\ b < (b \div d + 1) * d
  BY SMT
<1>3. (b \div d) * d < (a \div d + 1) * d /\ (a \div d) * d < (b \div d + 1) * d
  BY <1>1, <1>2, SMT
<1>4. b \div d < a \div d + 1 /\ a \div d < b \div d + 1
  BY <1>1, <1>3, SMT
<1> QED
  BY <1>1, <1>4

\* Some mask is the longest: that of the fewest numbers left up to Width.
LEMMA LongestMask ==
    ASSUME NEW S, S # {}, \A p \in S : p.mask \in 0 .. Width
    PROVE  \E p \in S : \A q \in S : q.mask <= p.mask
<1> DEFINE Left(p) == (p.mask + 1) .. Width
           T == {Left(p) : p \in S}
           All == 1 .. Width
           R == StrictSubsetOrdering(All)
<1>1. Width \in Nat
  BY RegionsAssumption
<1>2. T \subseteq SUBSET All /\ T # {}
  BY <1>1
<1>3. IsFiniteSet(All)
  BY <1>1, FS_Interval
<1>4. T \subseteq FiniteSubsetsOf(All)
  BY <1>2, <1>3, FS_FiniteSubsetsOfFinite
<1>5. PICK x \in T : \A y \in T : ~(<<y, x>> \in R)
  <2>1. IsWellFoundedOn(R, FiniteSubsetsOf(All))
    BY FS_StrictSubsetOrderingWellFounded
  <2> HIDE DEF T, R, All
  <2> QED
    BY <1>2, <1>4, <2>1, WFMin
<1>6. PICK p \in S : x = Left(p)
  BY <1>5
<1>7. ASSUME NEW q \in S PROVE q.mask <= p.mask
  <2> SUFFICES ASSUME q.mask > p.mask PROVE FALSE
    BY <1>1
  <2>1. p.mask \in 0 .. Width /\ q.mask \in 0 .. Width
    OBVIOUS
  <2>2. Left(q) \in T /\ Left(q) \in SUBSET All /\ Left(p) \in SUBSET All
    BY <1>2
  <2>3. Left(q) \subseteq Left(p) /\ q.mask \in Left(p) /\ q.mask \notin Left(q)
    BY <1>1, <2>1
  <2>4. <<Left(q), Left(p)>> \in R
    <3> HIDE DEF Left, All
    <3> QED
      BY <2>2, <2>3 DEF StrictSubsetOrdering
  <2> QED
    BY <1>5, <1>6, <2>2, <2>4
<1> QED
  BY <1>7

\* An address between the ends of an entry has the first bits of the prefix that
\* the entry was compiled from.
LEMMA SharesPrefix ==
    ASSUME NEW ip \in Addresses, NEW p, p.ip \in Addresses, p.mask \in 0 .. Width,
           NEW q, q.mask = p.mask, q.network = Network(p.ip, p.mask),
           q.network <= ip, ip <= LastOf(q)
    PROVE  Network(ip, p.mask) = Network(p.ip, p.mask)
<1> DEFINE d == 2^(Width - p.mask)
<1>1. Width \in Nat /\ Width - p.mask \in 0 .. Width /\ Width \in 0 .. Width
  BY RegionsAssumption
<1>2. d \in Nat \ {0} /\ 2^Width \in Nat \ {0}
  BY <1>1, PowerPositive
<1>3. ip \in Nat /\ p.ip \in Nat /\ ip <= 2^Width - 1
  BY <1>2 DEF Addresses
<1>4. q.network = (p.ip \div d) * d
  BY DEF Network
<1> HIDE DEF d
<1>5. q.network \in Nat
  BY <1>2, <1>3, <1>4, SMT
<1>6. ip <= q.network + (d - 1)
  BY <1>2, <1>3, <1>5 DEF LastOf, Addresses, d
<1>7. ip \div d = p.ip \div d
  BY <1>2, <1>3, <1>4, <1>6, SameQuotient
<1> QED
  BY <1>7 DEF Network, d

\* Conversely, the entry compiled from a prefix spans the addresses that share its
\* first bits.
LEMMA SpansOwned ==
    ASSUME NEW ip \in Addresses, NEW p, p.ip \in Addresses, p.mask \in 0 .. Width,
           Network(ip, p.mask) = Network(p.ip, p.mask),
           NEW q, q.mask = p.mask, q.network = Network(p.ip, p.mask)
    PROVE  q.network <= ip /\ ip <= LastOf(q)
<1> DEFINE d == 2^(Width - p.mask)
<1>1. Width \in Nat /\ Width - p.mask \in 0 .. Width /\ Width \in 0 .. Width
  BY RegionsAssumption
<1>2. d \in Nat \ {0} /\ 2^Width \in Nat \ {0}
  BY <1>1, PowerPositive
<1>3. ip \in Nat /\ ip <= 2^Width - 1
  BY <1>2 DEF Addresses
<1>4. q.network = (ip \div d) * d
  BY DEF Network
<1> HIDE DEF d
<1>5. q.network \in Nat /\ q.network <= ip /\ ip <= q.network + (d - 1)
  BY <1>2, <1>3, <1>4, SMT
<1>6. ip <= LastOf(q)
  BY <1>2, <1>3, <1>5 DEF LastOf, d
<1> QED
  BY <1>5, <1>6

-----------------------------------------------------------------------------
(* The table *)

Bundled == snapshot \in Snapshots /\ table = Compiled(snapshot)

LEMMA EntryOf ==
    ASSUME Bundled, NEW q \in table
    PROVE  /\ q.network \in Nat /\ q.mask \in 0 .. Width
           /\ \E o \in snapshot :
                 /\ o.mask \in 0 .. Width /\ o.ip \in Addresses
                 /\ q.network = Network(o.ip, o.mask) /\ q.mask = o.mask /\ q.region = o.region
<1>1. PICK o \in snapshot :
         /\ o.mask <= Width /\ o.mask \in Nat /\ o.ip \in Addresses
         /\ q = [network |-> Network(o.ip, o.mask), mask |-> o.mask, region |-> o.region]
  BY RegionsAssumption DEF Bundled, Compiled
<1>2. o.mask \in 0 .. Width /\ Width - o.mask \in 0 .. Width /\ Width \in 0 .. Width
  BY <1>1, RegionsAssumption
<1> DEFINE d == 2^(Width - o.mask)
<1>3. d \in Nat \ {0} /\ 2^Width \in Nat \ {0}
  BY <1>2, PowerPositive
<1>4. q.network = (o.ip \div d) * d /\ o.ip \in Nat
  BY <1>1, <1>3 DEF Network, Addresses
<1> HIDE DEF d
<1>5. q.network \in Nat
  BY <1>3, <1>4, SMT
<1> QED
  BY <1>1, <1>2, <1>5

LEMMA TableFinite ==
    ASSUME Bundled
    PROVE  IsFiniteSet(table)
<1> DEFINE S == {q \in snapshot : q.mask <= Width}
           entry(p) == [network |-> Network(p.ip, p.mask), mask |-> p.mask, region |-> p.region]
           f == [p \in S |-> entry(p)]
<1>1. IsFiniteSet(S)
  <2>1. IsFiniteSet(snapshot) /\ S \in SUBSET snapshot
    BY RegionsAssumption DEF Bundled
  <2> HIDE DEF S
  <2> QED
    BY <2>1, FS_Subset
<1>2. table = {entry(p) : p \in S}
  BY DEF Bundled, Compiled
<1>3. f \in Surjection(S, table)
  BY <1>2 DEF Surjection
<1> HIDE DEF f, S
<1> QED
  BY <1>1, <1>3, FS_Surjection

\* What the walk matches was compiled from a prefix that the address lies in.
LEMMA MatchingOwned ==
    ASSUME Bundled, NEW ip \in Addresses, NEW p, NEW q \in Matching(p, ip)
    PROVE  /\ q.mask \in 0 .. Width
           /\ \E o \in Owners(ip) : o.mask = q.mask /\ o.region = q.region
<1>1. q \in table /\ q.network <= ip /\ ip <= LastOf(q)
  BY DEF Matching, Walked, UpTo
<1>2. PICK o \in snapshot :
         /\ o.mask \in 0 .. Width /\ o.ip \in Addresses
         /\ q.network = Network(o.ip, o.mask) /\ q.mask = o.mask /\ q.region = o.region
  BY <1>1, EntryOf
<1>3. Network(ip, o.mask) = Network(o.ip, o.mask)
  BY <1>1, <1>2, SharesPrefix
<1>4. o \in Owners(ip)
  BY <1>2, <1>3, RegionsAssumption DEF Owners
<1> QED
  BY <1>2, <1>4

LEMMA BestIsLongest ==
    ASSUME NEW S, S # {}, \A q \in S : q.mask \in 0 .. Width
    PROVE  \E q \in S : BestOf(S) = q.region /\ \A r \in S : r.mask <= q.mask
BY LongestMask DEF BestOf

LEMMA OwnersTyped ==
    ASSUME Bundled, NEW ip, NEW o \in Owners(ip)
    PROVE  o \in snapshot /\ o.mask \in 0 .. Width /\ o.ip \in Addresses
BY RegionsAssumption DEF Bundled, Owners

-----------------------------------------------------------------------------
(* Where the bisection lands and what the walk covers *)

Starts(ip) == {q \in table : q.network <= ip}

\* Unless several entries start at the address, those up to the one found are those
\* that start at or before it.
LEMMA FoundIsLast ==
    ASSUME Bundled, NEW ip \in Nat, Starts(ip) # {}, NEW p \in Found(ip),
           ~(Cardinality({q \in Starts(ip) : q.network = ip}) > 1)
    PROVE  UpTo(p) = Starts(ip)
<1> DEFINE hits == {q \in table : q.network = ip}
           earlier == {q \in table : q.network < ip}
<1>1. \A q \in table : q.network \in Nat /\ q.mask \in 0 .. Width
  BY EntryOf
<1>2. Starts(ip) = hits \cup earlier
  BY <1>1 DEF Starts
<1>3. CASE hits # {}
  <2>1. p \in hits
    BY <1>3 DEF Found
  <2>2. hits = {q \in Starts(ip) : q.network = ip} /\ hits \in SUBSET table
    BY <1>1 DEF Starts
  <2> HIDE DEF hits
  <2>3. IsFiniteSet(hits) /\ ~(Cardinality(hits) > 1)
    BY <2>2, TableFinite, FS_Subset
  <2>4. Cardinality(hits) \in Nat /\ Cardinality(hits) # 0
    BY <1>3, <2>3, FS_CardinalityType, FS_EmptySet
  <2>5. Cardinality(hits) = 1
    BY <2>3, <2>4
  <2>6. hits = {p}
    BY <2>1, <2>3, <2>5, FS_Singleton
  <2>7. p \in table /\ p.network = ip /\ \A q \in table : q.network = ip => q = p
    BY <2>1, <2>6 DEF hits
  <2> QED
    BY <1>1, <2>7 DEF UpTo, Before, Starts
<1>4. CASE hits = {}
  <2>1. earlier = Starts(ip) /\ earlier # {}
    BY <1>2, <1>4
  <2>2. p \in earlier /\ earlier \subseteq UpTo(p)
    BY <1>4, <2>1 DEF Found
  <2>3. \A q \in UpTo(p) : q \in table /\ q.network <= p.network
    BY <1>1, <2>2 DEF UpTo, Before
  <2>4. p.network < ip
    BY <2>2
  <2>5. UpTo(p) \subseteq earlier
    BY <1>1, <2>2, <2>3, <2>4
  <2> QED
    BY <2>1, <2>2, <2>5
<1> QED
  BY <1>3, <1>4

\* From the last entry that starts at or before the address, the walk reaches every
\* one that fewer than Walk of the others follow.
LEMMA WalkReaches ==
    ASSUME Bundled, NEW ip \in Nat, NEW p, UpTo(p) = Starts(ip), NEW m \in Starts(ip),
           ~(Cardinality({q \in Starts(ip) : Before(m, q)}) >= Walk)
    PROVE  m \in Walked(p)
<1> DEFINE between == {q \in Starts(ip) : Before(m, q)}
<1>1. \A q \in table : q.network \in Nat /\ q.mask \in 0 .. Width /\ q.mask \in Nat
  BY EntryOf
<1>2. \A q \in table : q.network = m.network /\ q.mask = m.mask => q = m
  BY RegionsAssumption DEF Bundled, Starts
<1>3. UpTo(p) \ UpTo(m) = between
  <2>1. m \in table
    BY DEF Starts
  <2>2. \A q \in table : Before(m, q) <=> ~(q = m \/ Before(q, m))
    BY <1>1, <1>2, <2>1 DEF Before
  <2> QED
    BY <2>2 DEF UpTo, Starts
<1>4. between \in SUBSET table
  BY DEF Starts
<1> HIDE DEF between
<1>5. Cardinality(between) \in Nat
  BY <1>4, TableFinite, FS_Subset, FS_CardinalityType
<1>6. Cardinality(between) < Walk
  BY <1>5, RegionsAssumption DEF between
<1> QED
  BY <1>3, <1>6 DEF Walked

-----------------------------------------------------------------------------

IInv == Bundled /\ Sound /\ ExactUnlessCrowded

\* The answer is the region of some prefix that the address lies in.
LEMMA AnswerOwned ==
    ASSUME Bundled, NEW ip \in Addresses, NEW p, BestOf(Matching(p, ip)) # None
    PROVE  \E o \in Owners(ip) : o.region = BestOf(Matching(p, ip))
<1>1. Matching(p, ip) # {}
  BY DEF BestOf
<1>2. PICK q \in Matching(p, ip) : BestOf(Matching(p, ip)) = q.region
  BY <1>1, MatchingOwned, BestIsLongest
<1> QED
  BY <1>2, MatchingOwned

\* If the address is not crowded, it is that of one of the most specific.
LEMMA AnswerExact ==
    ASSUME Bundled, NEW ip \in Addresses, NEW p \in Found(ip), ~Crowded(ip)
    PROVE  IsMostSpecific([ip |-> ip, region |-> BestOf(Matching(p, ip))])
<1>1. ip \in Nat
  <2>1. Width \in 0 .. Width
    BY RegionsAssumption
  <2>2. 2^Width \in Nat
    BY <2>1, PowerPositive
  <2> QED
    BY <2>2 DEF Addresses
<1>2. CASE Owners(ip) = {}
  <2>1. Matching(p, ip) = {}
    BY <1>2, MatchingOwned
  <2> QED
    BY <1>2, <2>1 DEF IsMostSpecific, BestOf
<1>3. CASE Owners(ip) # {}
  <2>1. PICK o \in Owners(ip) : \A u \in Owners(ip) : u.mask <= o.mask
    BY <1>3, OwnersTyped, LongestMask
  <2>2. /\ o \in MostSpecificOwners(ip) /\ o \in snapshot
        /\ o.mask \in 0 .. Width /\ o.ip \in Addresses
    BY <2>1, OwnersTyped DEF MostSpecificOwners
  <2> DEFINE m == [network |-> Network(o.ip, o.mask), mask |-> o.mask, region |-> o.region]
  <2>3. o.mask <= Width
    BY <2>2, RegionsAssumption
  <2>4. m \in table /\ m \in Compiled(MostSpecificOwners(ip))
    BY <2>2, <2>3 DEF Bundled, Compiled
  <2>5. m.network = Network(o.ip, o.mask) /\ m.mask = o.mask
    OBVIOUS
  <2>6. Network(ip, o.mask) = Network(o.ip, o.mask)
    BY DEF Owners
  <2> HIDE DEF m
  <2>7. m.network <= ip /\ ip <= LastOf(m)
    BY <2>2, <2>5, <2>6, SpansOwned
  <2>8. m \in Starts(ip) /\ Starts(ip) = {q \in Compiled(snapshot) : q.network <= ip}
    BY <2>4, <2>7 DEF Starts, Bundled
  <2>9. /\ ~(Cardinality({q \in Starts(ip) : q.network = ip}) > 1)
        /\ ~(Cardinality({q \in Starts(ip) : Before(m, q)}) >= Walk)
    BY <2>4, <2>8 DEF Crowded
  <2>10. UpTo(p) = Starts(ip)
    BY <1>1, <2>8, <2>9, FoundIsLast
  <2>11. m \in Matching(p, ip)
    BY <1>1, <2>7, <2>8, <2>9, <2>10, WalkReaches DEF Matching
  <2>12. PICK q \in Matching(p, ip) :
            BestOf(Matching(p, ip)) = q.region /\ \A r \in Matching(p, ip) : r.mask <= q.mask
    BY <2>11, MatchingOwned, BestIsLongest
  <2>13. PICK u \in Owners(ip) : u.mask = q.mask /\ u.region = q.region
    BY MatchingOwned
  <2>14. o.mask <= u.mask /\ u.mask \in 0 .. Width
    BY <2>5, <2>11, <2>12, <2>13, OwnersTyped
  <2>15. u \in MostSpecificOwners(ip)
    <3> SUFFICES ASSUME NEW v \in Owners(ip) PROVE v.mask <= u.mask
      BY DEF MostSpecificOwners
    <3>1. v.mask <= o.mask /\ v.mask \in 0 .. Width
      BY <2>1, OwnersTyped
    <3> QED
      BY <2>2, <2>14, <3>1, RegionsAssumption
  <2> QED
    BY <1>3, <2>12, <2>13, <2>15 DEF IsMostSpecific
<1> QED
  BY <1>2, <1>3

LEMMA RegionForStep ==
    ASSUME IInv, NEW ip \in Addresses, RegionFor(ip)
    PROVE  IInv'
<1>1. PICK p \in Found(ip) : answer' = [ip |-> ip, region |-> BestOf(Matching(p, ip))]
  BY DEF RegionFor
<1>2. UNCHANGED <<snapshot, table>> /\ Bundled
  BY DEF RegionFor, IInv
<1>3. Sound'
  BY <1>1, <1>2, AnswerOwned DEF Sound, Owners
<1>4. ExactUnlessCrowded'
  <2>1. /\ Crowded(ip)' <=> Crowded(ip)
        /\ IsMostSpecific(answer)' <=> IsMostSpecific(answer')
    BY <1>2 DEF Crowded, IsMostSpecific, MostSpecificOwners, Owners, Compiled
  <2>2. answer'.ip = ip
    BY <1>1
  <2>3. ~Crowded(ip) => IsMostSpecific(answer')
    BY <1>1, <1>2, AnswerExact
  <2> QED
    BY <1>1, <1>2, <2>1, <2>2, <2>3 DEF ExactUnlessCrowded, Crowded, MostSpecificOwners, Owners, Compiled
<1> QED
  BY <1>2, <1>3, <1>4 DEF IInv, Bundled

\* Every answer region_for gives, from any bundled list, satisfies both promises; the
\* table stays the one compiled from the list.
THEOREM InvariantHolds == Spec => []IInv
<1>1. Init => IInv
  BY DEF Init, IInv, Bundled, Sound, ExactUnlessCrowded
<1>2. IInv /\ [Next]_vars => IInv'
  <2> SUFFICES ASSUME IInv, [Next]_vars PROVE IInv'
    OBVIOUS
  <2>1. CASE Next
    BY <2>1, RegionForStep DEF Next
  <2>2. CASE UNCHANGED vars
    BY <2>2 DEF vars, IInv, Bundled, Sound, ExactUnlessCrowded, Crowded, IsMostSpecific,
                MostSpecificOwners, Owners, Compiled
  <2> QED
    BY <2>1, <2>2
<1> QED
  BY <1>1, <1>2, PTL DEF Spec

\* A region that is returned is that of a prefix in the list that the address lies
\* in (AwsLookup::region_for), so that the router never takes a destination outside
\* AWS for one inside, or one region for another it shares no prefix with.
THEOREM SoundHolds == Spec => []Sound
BY InvariantHolds, PTL DEF IInv

\* The walk of 32 entries and the bisection's choice among entries of one first
\* address are the only reasons for region_for to miss the most specific prefix: any
\* other address gets its region, for every list and every width.
THEOREM ExactUnlessCrowdedHolds == Spec => []ExactUnlessCrowded
BY InvariantHolds, PTL DEF IInv
===============================================================================
