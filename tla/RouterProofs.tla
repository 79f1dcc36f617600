------------------------------ MODULE RouterProofs ------------------------------
(***************************************************************************)
(* For any threads, bridges, addresses, measurements, margin and interval, *)
(* and however the picks of the threads overlap: a route never outlives    *)
(* the interval, a bridge in the cache was worth it, and the list of       *)
(* decisions agrees with the cache up to the picks that overlap.           *)
(***************************************************************************)
EXTENDS Router, FiniteSetTheorems, WellFoundedInduction, TLAPS

\* The measurements in force are among those held.
PingsHeld == [at |-> now, pings |-> pings] \in held

\* The decision was made on measurements in force from tick first to tick latest.
MadeBetween(ip, direct, route, via, first, latest) ==
    \E h \in held :
        /\ h.at \in first .. latest
        /\ route = Decide(ip, direct, h.pings)
        /\ via = ViaTotal(ip, h.pings)

Made(ip, d) ==
    /\ d.at <= now
    /\ MadeBetween(ip, d.direct, d.route, d.via, d.asked, d.at)

CacheMade == \A ip \in Ips : cache[ip] # None => Made(ip, cache[ip])

Stands(c, stage) == picking[c] # None /\ picking[c].stage = stage

\* What a pick under way has in hand.
PicksMade ==
    \A c \in Callers :
        /\ Stands(c, "missed") => picking[c].asked <= now
        /\ Stands(c, "decided") =>
              /\ picking[c].asked <= picking[c].read /\ picking[c].read <= now
              /\ MadeBetween(picking[c].ip, picking[c].direct, picking[c].route,
                             picking[c].via, picking[c].read, picking[c].read)
        /\ Stands(c, "written") =>
              /\ picking[c].decision.by = c
              /\ Made(picking[c].ip, picking[c].decision)

\* Between its two writes for the address.
Logging(c, ip) == Stands(c, "written") /\ picking[c].ip = ip

Thread(j) == recent[j].decision.by

\* The entries after the one of the cached decision are later, and those of the
\* address are of distinct other threads that are past their write to the list.
Behind(ip, i) ==
    /\ EntryOf(ip, i)
    /\ ~Logging(cache[ip].by, ip)
    /\ \A j \in After(i) : recent[j].at >= cache[ip].at
    /\ \A j \in After(i) : recent[j].ip = ip =>
          Thread(j) # cache[ip].by /\ ~Logging(Thread(j), ip)
    /\ \A j, k \in After(i) :
          recent[j].ip = ip /\ recent[k].ip = ip /\ Thread(j) = Thread(k) => j = k

ListInv ==
    \A ip \in Ips : cache[ip] # None =>
        LogPending(ip) \/ \E i \in 0 .. Len(recent) : Behind(ip, i)

RouterIInv ==
    /\ RouterTypeOK
    /\ PingsHeld
    /\ CacheMade
    /\ PicksMade
    /\ StaleBounded
    /\ ListInv

Measurements == [Bridges -> Rtts \cup {None}]

\* A set of natural numbers that is not empty has a least element.
LEMMA LeastNumber ==
    ASSUME NEW T, T \subseteq Nat, T # {}
    PROVE  \E m \in T : \A t \in T : m <= t
<1> DEFINE Less == {ss \in Nat \X Nat : ss[1] < ss[2]}
<1>1. IsWellFoundedOn(Less, Nat)
  BY NatLessThanWellFounded DEF OpToRel
<1>2. \A x, y \in Nat : x < y => <<x, y>> \in Less
  OBVIOUS
<1> HIDE DEF Less
<1>3. PICK m \in T : \A t \in T : ~ (<<t, m>> \in Less)
  BY <1>1, WFMin
<1>4. ASSUME NEW t \in T PROVE m <= t
  <2>1. t \in Nat /\ m \in Nat  OBVIOUS
  <2>2. ~ (t < m)  BY <1>2, <1>3, <2>1
  <2> QED  BY <2>1, <2>2
<1> QED  BY <1>4

\* The total of a candidate is a number.
LEMMA TotalNat ==
    ASSUME NEW ip \in Ips, NEW p \in Measurements, NEW b \in Candidates(ip, p)
    PROVE  b \in Bridges /\ Total(b, ip, p) \in Nat
<1>1. b \in Bridges /\ p[b] # None /\ RegionOf[ip] # None /\ RegionRtt[b][RegionOf[ip]] # None
  BY DEF Candidates
<1>2. p[b] \in Nat
  <2> p[b] \in Rtts \cup {None}  BY <1>1 DEF Measurements
  <2> QED  BY <1>1, RouterAssumption
<1>3. RegionRtt[b][RegionOf[ip]] \in Nat
  BY <1>1, RouterAssumption
<1> QED  BY <1>1, <1>2, <1>3 DEF Total

\* A set of pairs of numbers given by two functions on bridges has a least element;
\* here: among candidates there is one that no other beats.
LEMMA BestExists ==
    ASSUME NEW ip \in Ips, NEW p \in Measurements, Candidates(ip, p) # {}
    PROVE  /\ BestBridge(ip, p) \in Candidates(ip, p)
           /\ \A c \in Candidates(ip, p) : Total(BestBridge(ip, p), ip, p) <= Total(c, ip, p)
<1> DEFINE C == Candidates(ip, p)
           Totals == {Total(b, ip, p) : b \in C}
<1>1. PICK m \in Totals : \A t \in Totals : m <= t
  <2>1. Totals \subseteq Nat /\ Totals # {}  BY TotalNat
  <2> HIDE DEF Totals
  <2> QED  BY <2>1, LeastNumber
<1> DEFINE Nearest == {b \in C : Total(b, ip, p) = m}
<1>2. PICK n \in Nearest : \A b \in Nearest : n <= b
  <2>1. Nearest \subseteq Nat /\ Nearest # {}
    BY TotalNat DEF Bridges
  <2> HIDE DEF Nearest
  <2> QED  BY <2>1, LeastNumber
<1> DEFINE Unbeaten(b) == \A c \in C : \/ Total(b, ip, p) < Total(c, ip, p)
                                       \/ Total(b, ip, p) = Total(c, ip, p) /\ b <= c
<1>3. n \in C /\ Unbeaten(n)
  <2>1. n \in C /\ Total(n, ip, p) = m
    OBVIOUS
  <2>2. ASSUME NEW c \in C
        PROVE  Total(n, ip, p) < Total(c, ip, p) \/ (Total(n, ip, p) = Total(c, ip, p) /\ n <= c)
    <3>1. m <= Total(c, ip, p)  BY <1>1
    <3>2. Total(c, ip, p) \in Nat /\ m \in Nat  BY TotalNat, <2>1
    <3>3. Total(c, ip, p) = m => n <= c  BY <1>2
    <3> HIDE DEF C, Nearest, Totals
    <3> QED  BY <2>1, <3>1, <3>2, <3>3
  <2> QED  BY <2>1, <2>2
<1>4. BestBridge(ip, p) = CHOOSE b \in C : Unbeaten(b)
  BY DEF BestBridge
<1>5. BestBridge(ip, p) \in C /\ Unbeaten(BestBridge(ip, p))
  <2> HIDE DEF C, Unbeaten
  <2> QED  BY <1>3, <1>4
<1>6. \A c \in C : Total(BestBridge(ip, p), ip, p) <= Total(c, ip, p)
  BY <1>5, TotalNat
<1> QED  BY <1>5, <1>6

\* What pick decides is a route, and the total it records a number.
LEMMA DecideType ==
    ASSUME NEW ip \in Ips, NEW p \in Measurements, NEW direct \in DirectRtts
    PROVE  Decide(ip, direct, p) \in Routes /\ ViaTotal(ip, p) \in Nat
BY BestExists, TotalNat, RouterAssumption DEF Decide, ViaTotal, Routes

--------------------------------------------------------------------------------
\* What a pick holds at each stage.
LEMMA PickTypes ==
    ASSUME RouterTypeOK, NEW c \in Callers
    PROVE  /\ Stands(c, "missed") =>
                 picking[c] \in [stage : {"missed"}, ip : Ips, direct : DirectRtts, asked : 0 .. MaxNow]
           /\ Stands(c, "decided") =>
                 picking[c] \in [stage : {"decided"}, ip : Ips, direct : DirectRtts,
                                 asked : 0 .. MaxNow, read : 0 .. MaxNow, route : Routes, via : Nat]
           /\ Stands(c, "written") =>
                 picking[c] \in [stage : {"written"}, ip : Ips, decision : Decisions]
<1>1. picking[c] \in Picks \cup {None}
  BY DEF RouterTypeOK
<1> QED  BY <1>1 DEF Stands, Picks

LEMMA NoneApart ==
    /\ None \notin Decisions /\ None \notin Picks /\ None \notin Nat
    /\ MaxNow \in Nat /\ RecentCap \in Nat \ {0}
BY RouterAssumption

\* The pick that has yet to log is one.
LEMMA PendingIsPick ==
    ASSUME RouterTypeOK, NEW ip \in Ips, NEW d \in Decisions
    PROVE  [stage |-> "written", ip |-> ip, decision |-> d] # None
<1>1. [stage |-> "written", ip |-> ip, decision |-> d] \in Picks
  BY DEF Picks
<1> QED  BY <1>1, NoneApart

--------------------------------------------------------------------------------
LEMMA RouterInitIInv == RouterInit => RouterIInv
<1> SUFFICES ASSUME RouterInit PROVE RouterIInv  OBVIOUS
<1> USE DEF RouterInit
<1>1. RouterTypeOK
  BY RouterAssumption DEF RouterTypeOK
<1>2. PingsHeld /\ CacheMade /\ PicksMade /\ StaleBounded /\ ListInv
  BY DEF PingsHeld, CacheMade, PicksMade, Stands, StaleBounded, ListInv
<1> QED  BY <1>1, <1>2 DEF RouterIInv

LEMMA ListKeeps ==
    ASSUME ListInv, UNCHANGED <<cache, recent, picking>>
    PROVE  ListInv'
<1> SUFFICES ASSUME NEW ip \in Ips, cache[ip] # None
             PROVE  LogPending(ip)' \/ \E i \in 0 .. Len(recent) : Behind(ip, i)'
  BY DEF ListInv
<1>1. LogPending(ip) => LogPending(ip)'
  BY DEF LogPending
<1>2. \A i \in 0 .. Len(recent) : Behind(ip, i) => Behind(ip, i)'
  BY DEF Behind, EntryOf, After, Logging, Stands, Thread
<1> QED  BY <1>1, <1>2 DEF ListInv

\* What was decided stays decided, by measurements that are still held.
LEMMA MadeKeeps ==
    ASSUME held \subseteq held', now \in Nat, now' \in Nat, now <= now',
           NEW ip, NEW d \in Decisions, Made(ip, d)
    PROVE  Made(ip, d)'
<1>1. d.at \in Nat
  BY NoneApart DEF Decisions
<1> QED  BY <1>1 DEF Made, MadeBetween

LEMMA HeldGrows ==
    ASSUME RouterIInv, held \subseteq held', now' \in 0 .. MaxNow, now <= now',
           UNCHANGED <<cache, recent, picking, last>>
    PROVE  CacheMade' /\ PicksMade' /\ StaleBounded' /\ ListInv'
<1>1. now \in Nat /\ now' \in Nat
  BY DEF RouterIInv, RouterTypeOK
<1>2. CacheMade'
  <2> SUFFICES ASSUME NEW ip \in Ips, cache[ip] # None PROVE Made(ip, cache[ip])'
    BY DEF CacheMade
  <2>1. cache[ip] \in Decisions /\ Made(ip, cache[ip])
    BY DEF RouterIInv, RouterTypeOK, CacheMade
  <2> QED  BY <1>1, <2>1, MadeKeeps
<1>3. PicksMade'
  <2> SUFFICES ASSUME NEW c \in Callers
               PROVE  /\ Stands(c, "missed") => picking[c].asked <= now'
                      /\ Stands(c, "decided") =>
                            /\ picking[c].asked <= picking[c].read /\ picking[c].read <= now'
                            /\ MadeBetween(picking[c].ip, picking[c].direct, picking[c].route,
                                           picking[c].via, picking[c].read, picking[c].read)'
                      /\ Stands(c, "written") =>
                            /\ picking[c].decision.by = c
                            /\ Made(picking[c].ip, picking[c].decision)'
    BY DEF PicksMade, Stands
  <2> USE PickTypes DEF RouterIInv, PicksMade
  <2>1. Stands(c, "missed") => picking[c].asked <= now'
    BY <1>1, NoneApart
  <2>2. Stands(c, "decided") => picking[c].asked <= picking[c].read /\ picking[c].read <= now'
    BY <1>1, NoneApart
  <2>3. Stands(c, "decided") =>
          MadeBetween(picking[c].ip, picking[c].direct, picking[c].route,
                      picking[c].via, picking[c].read, picking[c].read)'
    BY DEF MadeBetween
  <2>4. Stands(c, "written") =>
          picking[c].decision.by = c /\ Made(picking[c].ip, picking[c].decision)'
    BY <1>1, MadeKeeps
  <2> QED  BY <2>1, <2>2, <2>3, <2>4
<1>4. StaleBounded'
  BY DEF RouterIInv, StaleBounded, DecidedOn, Current
<1>5. ListInv'
  BY ListKeeps DEF RouterIInv
<1> QED  BY <1>2, <1>3, <1>4, <1>5

LEMMA RecordStep ==
    ASSUME RouterIInv, NEW b \in Bridges, NEW rtt \in Rtts, Record(b, rtt)
    PROVE  RouterIInv'
<1> USE DEF Record
<1>1. RouterTypeOK'
  <2> pings' \in [Bridges -> Rtts \cup {None}]  BY DEF RouterIInv, RouterTypeOK
  <2> QED  BY DEF RouterIInv, RouterTypeOK
<1>2. PingsHeld'
  BY DEF PingsHeld
<1>3. now' \in 0 .. MaxNow /\ now <= now'
  BY NoneApart DEF RouterIInv, RouterTypeOK
<1> QED  BY <1>1, <1>2, <1>3, HeldGrows DEF RouterIInv

LEMMA TickStep ==
    ASSUME RouterIInv, Tick
    PROVE  RouterIInv'
<1> USE DEF Tick
<1>1. now' \in 0 .. MaxNow /\ now <= now'
  BY NoneApart DEF RouterIInv, RouterTypeOK
<1>2. RouterTypeOK'
  BY <1>1 DEF RouterIInv, RouterTypeOK
<1>3. PingsHeld'
  BY DEF PingsHeld
<1> QED  BY <1>1, <1>2, <1>3, HeldGrows DEF RouterIInv

--------------------------------------------------------------------------------
LEMMA PickCachedStep ==
    ASSUME RouterIInv, NEW c \in Callers, NEW ip \in Ips, PickCached(c, ip)
    PROVE  RouterIInv'
<1> USE DEF PickCached
<1>1. cache[ip] \in Decisions /\ now - cache[ip].at < Interval /\ Made(ip, cache[ip])
  BY DEF Fresh, RouterIInv, RouterTypeOK, CacheMade
<1>2. last' = [by |-> c, ip |-> ip, asked |-> now, at |-> now, decision |-> cache[ip]]
  BY DEF Answers
<1>3. RouterTypeOK'
  BY <1>1, <1>2 DEF RouterIInv, RouterTypeOK, Answer
<1>4. PingsHeld' /\ CacheMade' /\ PicksMade' /\ ListInv'
  BY ListKeeps DEF RouterIInv, PingsHeld, CacheMade, PicksMade, Made, MadeBetween, Stands
<1>5. StaleBounded'
  BY <1>1, <1>2 DEF StaleBounded, DecidedOn, Current, Made, MadeBetween
<1> QED  BY <1>3, <1>4, <1>5 DEF RouterIInv

\* A pick that is not yet between its two writes moves on: the list stays as it was.
LEMMA BeforeWrites ==
    ASSUME RouterIInv, NEW c \in Callers, NEW p \in Picks, p.stage # "written",
           ~Stands(c, "written"), picking' = [picking EXCEPT ![c] = p],
           UNCHANGED <<pings, cache, recent, now, held, last>>
    PROVE  RouterTypeOK' /\ PingsHeld' /\ CacheMade' /\ StaleBounded' /\ ListInv'
<1>1. RouterTypeOK'
  BY DEF RouterIInv, RouterTypeOK
<1>2. PingsHeld' /\ CacheMade' /\ StaleBounded'
  BY DEF RouterIInv, PingsHeld, CacheMade, Made, MadeBetween, StaleBounded, DecidedOn, Current
<1>3. ASSUME NEW x, NEW ip PROVE Logging(x, ip)' => Logging(x, ip)
  <2>1. CASE x = c
    BY <2>1 DEF RouterIInv, RouterTypeOK, Logging, Stands
  <2>2. CASE x # c
    BY <2>2 DEF RouterIInv, RouterTypeOK, Logging, Stands
  <2> QED  BY <2>1, <2>2
<1>4. ASSUME NEW ip \in Ips, cache[ip] # None, LogPending(ip) PROVE LogPending(ip)'
  <2>1. PICK x \in Callers : picking[x] = [stage |-> "written", ip |-> ip, decision |-> cache[ip]]
    BY <1>4 DEF LogPending
  <2>2. picking[x] # None
    <3> cache[ip] \in Decisions \cup {None}  BY DEF RouterIInv, RouterTypeOK
    <3> [stage |-> "written", ip |-> ip, decision |-> cache[ip]] # None
      BY <1>4, PendingIsPick DEF RouterIInv
    <3> QED  BY <2>1
  <2>3. x # c
    BY <2>1, <2>2 DEF Stands
  <2> QED  BY <2>1, <2>3 DEF RouterIInv, RouterTypeOK, LogPending
<1>5. ListInv'
  <2> SUFFICES ASSUME NEW ip \in Ips, cache[ip] # None
               PROVE  LogPending(ip)' \/ \E i \in 0 .. Len(recent) : Behind(ip, i)'
    BY DEF ListInv
  <2>1. CASE LogPending(ip)
    BY <1>4, <2>1
  <2>2. ASSUME NEW i \in 0 .. Len(recent), Behind(ip, i) PROVE Behind(ip, i)'
    BY <1>3, <2>2 DEF Behind, EntryOf, After, Thread
  <2> QED  BY <2>1, <2>2 DEF RouterIInv, ListInv
<1> QED  BY <1>1, <1>2, <1>5


LEMMA PickMissesStep ==
    ASSUME RouterIInv, NEW c \in Callers, NEW ip \in Ips, NEW direct \in DirectRtts,
           PickMisses(c, ip, direct)
    PROVE  RouterIInv'
<1> DEFINE p == [stage |-> "missed", ip |-> ip, direct |-> direct, asked |-> now]
<1>1. /\ picking[c] = None
      /\ picking' = [picking EXCEPT ![c] = p]
      /\ UNCHANGED <<pings, cache, recent, now, held, last>>
  BY DEF PickMisses
<1>2. p \in Picks /\ p.stage = "missed" /\ p.asked = now
  BY DEF RouterIInv, RouterTypeOK, Picks
<1> HIDE DEF p
<1>3. RouterTypeOK' /\ PingsHeld' /\ CacheMade' /\ StaleBounded' /\ ListInv'
  BY <1>1, <1>2, BeforeWrites DEF Stands
<1>4. ASSUME NEW x \in Callers PROVE picking'[x] = IF x = c THEN p ELSE picking[x]
  BY <1>1 DEF RouterIInv, RouterTypeOK
<1>5. PicksMade'
  <2>1. now <= now
    BY DEF RouterIInv, RouterTypeOK
  <2> QED  BY <1>1, <1>2, <1>4, <2>1 DEF RouterIInv, PicksMade, Stands, Made, MadeBetween
<1> QED  BY <1>3, <1>5 DEF RouterIInv

LEMMA PickDecidesStep ==
    ASSUME RouterIInv, NEW c \in Callers, PickDecides(c)
    PROVE  RouterIInv'
<1> DEFINE o == picking[c]
           p == [stage |-> "decided", ip |-> o.ip, direct |-> o.direct, asked |-> o.asked,
                 read |-> now, route |-> Decide(o.ip, o.direct, pings),
                 via |-> ViaTotal(o.ip, pings)]
<1>1. /\ Stands(c, "missed")
      /\ picking' = [picking EXCEPT ![c] = p]
      /\ UNCHANGED <<pings, cache, recent, now, held, last>>
  BY DEF PickDecides, Stands
<1>2. /\ o \in [stage : {"missed"}, ip : Ips, direct : DirectRtts, asked : 0 .. MaxNow]
      /\ o.asked <= now /\ o.stage = "missed"
  BY <1>1, PickTypes DEF RouterIInv, PicksMade
<1> DEFINE route == Decide(o.ip, o.direct, pings)
           via == ViaTotal(o.ip, pings)
<1>3. pings \in Measurements /\ now \in 0 .. MaxNow /\ [at |-> now, pings |-> pings] \in held
  BY DEF RouterIInv, RouterTypeOK, Measurements, PingsHeld
<1>4. route \in Routes /\ via \in Nat
  BY <1>2, <1>3, DecideType
<1>5. MadeBetween(o.ip, o.direct, route, via, now, now)
  <2>1. now \in now .. now
    BY <1>3, NoneApart
  <2> QED  BY <1>3, <2>1 DEF MadeBetween
<1> HIDE DEF route, via
<1>6. /\ p \in Picks
      /\ p.stage = "decided" /\ p.ip = o.ip /\ p.direct = o.direct /\ p.asked = o.asked
      /\ p.read = now /\ p.route = route /\ p.via = via
  BY <1>2, <1>3, <1>4 DEF Picks, route, via
<1> HIDE DEF p
<1>7. RouterTypeOK' /\ PingsHeld' /\ CacheMade' /\ StaleBounded' /\ ListInv'
  BY <1>1, <1>2, <1>6, BeforeWrites DEF Stands
<1>8. ASSUME NEW x \in Callers PROVE picking'[x] = IF x = c THEN p ELSE picking[x]
  BY <1>1 DEF RouterIInv, RouterTypeOK
<1>9. PicksMade'
  <2> SUFFICES ASSUME NEW x \in Callers
               PROVE  (/\ Stands(x, "missed") => picking[x].asked <= now
                       /\ Stands(x, "decided") =>
                             /\ picking[x].asked <= picking[x].read /\ picking[x].read <= now
                             /\ MadeBetween(picking[x].ip, picking[x].direct, picking[x].route,
                                            picking[x].via, picking[x].read, picking[x].read)
                       /\ Stands(x, "written") =>
                             /\ picking[x].decision.by = x
                             /\ Made(picking[x].ip, picking[x].decision))'
    BY DEF PicksMade
  <2>1. CASE x = c
    <3>1. picking'[c] = p /\ held' = held /\ now' = now
      BY <1>1, <1>8
    <3>2. now <= now
      BY <1>3, NoneApart
    <3> QED  BY <1>2, <1>5, <1>6, <2>1, <3>1, <3>2 DEF Stands, MadeBetween
  <2>2. CASE x # c
    BY <1>1, <1>8, <2>2 DEF RouterIInv, PicksMade, Stands, Made, MadeBetween
  <2> QED  BY <2>1, <2>2
<1> QED  BY <1>7, <1>9 DEF RouterIInv

\* The decision is in the cache, and its entry is to come.
LEMMA PickWritesStep ==
    ASSUME RouterIInv, NEW c \in Callers, PickWrites(c)
    PROVE  RouterIInv'
<1>1. PICK at \in picking[c].read .. now :
        LET p == picking[c]
            d == [route |-> p.route, at |-> at, direct |-> p.direct, via |-> p.via,
                  by |-> c, asked |-> p.asked]
        IN  /\ cache' = [cache EXCEPT ![p.ip] = d]
            /\ picking' = [picking EXCEPT ![c] =
                  [stage |-> "written", ip |-> p.ip, decision |-> d]]
  BY DEF PickWrites
<1> DEFINE o == picking[c]
           ip == o.ip
           d == [route |-> o.route, at |-> at, direct |-> o.direct, via |-> o.via,
                 by |-> c, asked |-> o.asked]
           p == [stage |-> "written", ip |-> ip, decision |-> d]
<1>2. /\ Stands(c, "decided")
      /\ cache' = [cache EXCEPT ![ip] = d]
      /\ picking' = [picking EXCEPT ![c] = p]
      /\ UNCHANGED <<pings, recent, now, held, last>>
  BY <1>1 DEF PickWrites, Stands
<1>3. /\ o \in [stage : {"decided"}, ip : Ips, direct : DirectRtts, asked : 0 .. MaxNow,
                read : 0 .. MaxNow, route : Routes, via : Nat]
      /\ o.asked <= o.read /\ o.read <= now /\ o.stage = "decided"
      /\ MadeBetween(ip, o.direct, o.route, o.via, o.read, o.read)
  BY <1>2, PickTypes DEF RouterIInv, PicksMade
<1>4. now \in 0 .. MaxNow /\ at \in 0 .. MaxNow /\ o.asked <= at /\ o.read <= at /\ at <= now
  BY <1>3, NoneApart DEF RouterIInv, RouterTypeOK
<1>5. d \in Decisions /\ d.at = at /\ d.asked = o.asked /\ d.by = c
  BY <1>3, <1>4 DEF Decisions
<1>6. Made(ip, d)
  <2>1. MadeBetween(ip, o.direct, o.route, o.via, o.asked, at)
    <3>1. \A x : x \in o.read .. o.read => x \in o.asked .. at
      BY <1>3, <1>4, NoneApart
    <3> QED  BY <1>3, <3>1 DEF MadeBetween
  <2> QED  BY <1>4, <2>1 DEF Made
<1>7. /\ p \in Picks /\ p # None
      /\ p.stage = "written" /\ p.ip = ip /\ p.decision = d
  BY <1>3, <1>5, NoneApart DEF Picks
<1>8. p = [stage |-> "written", ip |-> ip, decision |-> d] /\ ip \in Ips /\ d # None
  BY <1>3, <1>5, NoneApart
<1> HIDE DEF p, d, ip
<1>9. /\ \A x \in Callers : picking'[x] = IF x = c THEN p ELSE picking[x]
      /\ \A x \in Ips : cache'[x] = IF x = ip THEN d ELSE cache[x]
  BY <1>2, <1>8 DEF RouterIInv, RouterTypeOK
<1>10. RouterTypeOK'
  BY <1>2, <1>5, <1>7, <1>8 DEF RouterIInv, RouterTypeOK
<1>11. \A x, y : Made(x, y)' <=> Made(x, y)
  BY <1>2 DEF Made, MadeBetween
<1>12. PingsHeld' /\ StaleBounded'
  BY <1>2 DEF RouterIInv, PingsHeld, StaleBounded, DecidedOn, Current
<1>13. CacheMade'
  BY <1>6, <1>9, <1>11 DEF RouterIInv, CacheMade
<1>14. PicksMade'
  <2> SUFFICES ASSUME NEW x \in Callers
               PROVE  (/\ Stands(x, "missed") => picking[x].asked <= now
                       /\ Stands(x, "decided") =>
                             /\ picking[x].asked <= picking[x].read /\ picking[x].read <= now
                             /\ MadeBetween(picking[x].ip, picking[x].direct, picking[x].route,
                                            picking[x].via, picking[x].read, picking[x].read)
                       /\ Stands(x, "written") =>
                             /\ picking[x].decision.by = x
                             /\ Made(picking[x].ip, picking[x].decision))'
    BY DEF PicksMade
  <2>1. CASE x = c
    <3>1. picking'[x] = p
      BY <1>9, <2>1
    <3>2. PICK q : q = p
      OBVIOUS
    <3>3. q.stage = "written" /\ q.decision.by = c /\ Made(q.ip, q.decision)
      BY <1>5, <1>6, <1>7, <3>2
    <3>4. Made(q.ip, q.decision)'
      BY <1>11, <3>3
    <3>5. picking'[x] = q
      BY <3>1, <3>2
    <3> QED  BY <2>1, <3>3, <3>4, <3>5 DEF Stands
  <2>2. CASE x # c
    <3>1. picking'[x] = picking[x]
      BY <1>9, <2>2
    <3> QED  BY <1>2, <3>1 DEF RouterIInv, PicksMade, Stands, Made, MadeBetween
  <2> QED  BY <2>1, <2>2
<1>15. ListInv'
  <2> SUFFICES ASSUME NEW x \in Ips, cache'[x] # None
               PROVE  LogPending(x)' \/ \E i \in 0 .. Len(recent) : Behind(x, i)'
    BY <1>2 DEF ListInv
  <2>1. CASE x = ip
    BY <1>8, <1>9, <2>1 DEF LogPending
  <2>2. CASE x # ip
    <3>1. cache'[x] = cache[x]
      BY <1>9, <2>2
    <3>2. ASSUME LogPending(x) PROVE LogPending(x)'
      <4>1. PICK y \in Callers : picking[y] = [stage |-> "written", ip |-> x, decision |-> cache[x]]
        BY <3>2 DEF LogPending
      <4>2. y # c
        BY <1>3, <4>1
      <4> QED  BY <1>9, <3>1, <4>1, <4>2 DEF LogPending
    <3>3. ASSUME NEW y PROVE Logging(y, x)' => Logging(y, x)
      <4>1. CASE y = c
        BY <1>7, <1>9, <2>2, <4>1 DEF Logging, Stands
      <4>2. CASE y # c
        BY <1>2, <4>2 DEF RouterIInv, RouterTypeOK, Logging, Stands
      <4> QED  BY <4>1, <4>2
    <3>4. ASSUME NEW i \in 0 .. Len(recent), Behind(x, i) PROVE Behind(x, i)'
      BY <1>2, <3>1, <3>3, <3>4 DEF Behind, EntryOf, After, Thread
    <3> QED  BY <3>1, <3>2, <3>4 DEF RouterIInv, ListInv
  <2> QED  BY <2>1, <2>2
<1> QED  BY <1>10, <1>12, <1>13, <1>14, <1>15 DEF RouterIInv

\* The list after an entry is added: the entries move down by one if it was full.
LEMMA LoggedEntries ==
    ASSUME RouterTypeOK, NEW e \in Entries, recent' = Logged(e)
    PROVE  /\ recent' \in Seq(Entries) /\ Len(recent') <= RecentCap /\ Len(recent') \in Nat \ {0}
           /\ recent'[Len(recent')] = e
           /\ \E s \in 0 .. 1 :
                 /\ s = 1 => Len(recent') = RecentCap
                 /\ Len(recent') = Len(recent) - s + 1
                 /\ \A i \in 1 .. Len(recent') - 1 : i + s \in 1 .. Len(recent) /\ recent'[i] = recent[i + s]
<1> DEFINE kept == IF Len(recent) >= RecentCap THEN Tail(recent) ELSE recent
<1>1. /\ recent \in Seq(Entries) /\ Len(recent) \in Nat
      /\ Len(recent) <= RecentCap /\ RecentCap \in Nat \ {0}
  BY RouterAssumption DEF RouterTypeOK
<1>2. /\ kept \in Seq(Entries)
      /\ Len(kept) < RecentCap /\ Len(kept) \in Nat
      /\ \E s \in 0 .. 1 : /\ s = 1 => Len(kept) + 1 = RecentCap
                           /\ Len(kept) = Len(recent) - s
                           /\ \A i \in 1 .. Len(kept) : kept[i] = recent[i + s]
  <2>1. CASE Len(recent) >= RecentCap
    <3>1. recent # <<>>  BY <1>1, <2>1
    <3>2. kept = Tail(recent)  BY <2>1
    <3>3. /\ kept \in Seq(Entries) /\ Len(kept) = Len(recent) - 1
          /\ \A i \in 1 .. Len(kept) : kept[i] = recent[i + 1]
      BY <1>1, <3>1, <3>2
    <3>4. Len(recent) = RecentCap
      BY <1>1, <2>1
    <3> HIDE DEF kept
    <3>5. Len(kept) < RecentCap /\ Len(kept) \in Nat /\ Len(kept) + 1 = RecentCap
      BY <1>1, <3>3, <3>4
    <3> QED  BY <3>3, <3>5
  <2>2. CASE ~(Len(recent) >= RecentCap)
    <3>1. kept = recent  BY <2>2
    <3>2. /\ Len(kept) = Len(recent) - 0
          /\ \A i \in 1 .. Len(kept) : kept[i] = recent[i + 0]
      BY <1>1, <3>1
    <3> QED  BY <1>1, <2>2, <3>1, <3>2
  <2> QED  BY <2>1, <2>2
<1>3. recent' = Append(kept, e)
  BY DEF Logged
<1> HIDE DEF kept
<1>4. /\ recent' \in Seq(Entries) /\ Len(recent') = Len(kept) + 1
      /\ recent'[Len(kept) + 1] = e
      /\ \A i \in 1 .. Len(kept) : recent'[i] = kept[i]
  BY <1>2, <1>3
<1>5. PICK s \in 0 .. 1 : /\ s = 1 => Len(kept) + 1 = RecentCap
                         /\ Len(kept) = Len(recent) - s
                         /\ \A i \in 1 .. Len(kept) : kept[i] = recent[i + s]
  BY <1>2
<1>6. \A i \in 1 .. Len(recent') - 1 : i + s \in 1 .. Len(recent) /\ recent'[i] = recent[i + s]
  <2>1. TAKE i \in 1 .. Len(recent') - 1
  <2>2. Len(recent') - 1 = Len(kept) /\ Len(kept) \in Nat
    BY <1>2, <1>4
  <2>3. i \in 1 .. Len(kept)
    BY <2>2
  <2>4. recent'[i] = recent[i + s]
    BY <1>4, <1>5, <2>3
  <2>5. i + s \in 1 .. Len(recent)
    BY <1>1, <1>5, <2>2, <2>3
  <2> QED  BY <2>4, <2>5
<1> QED  BY <1>1, <1>2, <1>4, <1>5, <1>6

\* The entry is in the list, and pick returns.
LEMMA PickLogsStep ==
    ASSUME RouterIInv, NEW c \in Callers, PickLogs(c)
    PROVE  RouterIInv'
<1>1. /\ Stands(c, "written")
      /\ picking[c] \in [stage : {"written"}, ip : Ips, decision : Decisions]
      /\ picking[c].decision.by = c
      /\ Made(picking[c].ip, picking[c].decision)
  BY PickTypes DEF PickLogs, Stands, RouterIInv, PicksMade
<1>2. PICK ip \in Ips, d \in Decisions : picking[c].ip = ip /\ picking[c].decision = d
  BY <1>1
<1>3. PICK e : e = [ip |-> ip, at |-> now, decision |-> d]
  OBVIOUS
<1>4. /\ recent' = Logged(e)
      /\ last' = [by |-> c, ip |-> ip, asked |-> d.asked, at |-> now, decision |-> d]
      /\ picking' = [picking EXCEPT ![c] = None]
      /\ UNCHANGED <<pings, cache, now, held>>
  BY <1>2, <1>3 DEF PickLogs, Answers
<1>5. now \in 0 .. MaxNow /\ e \in Entries /\ e.ip = ip /\ e.at = now /\ e.decision = d /\ d.by = c
  BY <1>1, <1>2, <1>3 DEF RouterIInv, RouterTypeOK, Entries
<1>6. /\ recent' \in Seq(Entries) /\ Len(recent') <= RecentCap /\ Len(recent') \in Nat \ {0}
      /\ recent'[Len(recent')] = e
  BY <1>4, <1>5, LoggedEntries DEF RouterIInv
<1>7. PICK s \in 0 .. 1 :
         /\ s = 1 => Len(recent') = RecentCap
         /\ Len(recent') = Len(recent) - s + 1
         /\ \A i \in 1 .. Len(recent') - 1 : i + s \in 1 .. Len(recent) /\ recent'[i] = recent[i + s]
  BY <1>4, <1>5, LoggedEntries DEF RouterIInv
<1>8. \A x \in Callers : picking'[x] = IF x = c THEN None ELSE picking[x]
  BY <1>4 DEF RouterIInv, RouterTypeOK
<1>9. RouterTypeOK'
  <2>1. last' \in [by : Callers, ip : Ips, asked : 0 .. MaxNow, at : 0 .. MaxNow, decision : Decisions]
    BY <1>4, <1>5 DEF Decisions
  <2> QED  BY <1>4, <1>6, <2>1 DEF RouterIInv, RouterTypeOK, Answer
<1>10. PingsHeld' /\ CacheMade' /\ PicksMade'
  BY <1>4, <1>8 DEF RouterIInv, PingsHeld, CacheMade, PicksMade, Stands, Made, MadeBetween
<1>11. StaleBounded'
  <2>1. Made(ip, d)
    BY <1>1, <1>2
  <2> QED  BY <1>4, <1>5, <2>1 DEF StaleBounded, DecidedOn, Current, Made, MadeBetween
<1> DEFINE StillLogs(y, x) ==
             picking'[y] # None /\ picking'[y].stage = "written" /\ picking'[y].ip = x
<1>12. ASSUME NEW y, NEW x PROVE StillLogs(y, x) => y # c /\ Logging(y, x)
  <2>1. CASE y = c
    BY <1>8, <2>1
  <2>2. CASE y # c
    BY <1>4, <2>2 DEF RouterIInv, RouterTypeOK, Logging, Stands
  <2> QED  BY <2>1, <2>2
<1> HIDE DEF StillLogs
<1>13. Logging(c, ip)
  BY <1>1, <1>2 DEF Logging
<1>14. ASSUME NEW x \in Ips, NEW i \in 0 .. Len(recent), cache[x] # None, Behind(x, i)
       PROVE  \E k \in 0 .. Len(recent') : Behind(x, k)'
  <2>1. /\ Len(recent) \in Nat /\ cache[x] \in Decisions /\ cache[x].at \in Nat
        /\ cache[x].at <= now /\ RecentCap \in Nat
    BY <1>14, NoneApart DEF RouterIInv, RouterTypeOK, CacheMade, Made, Decisions
  <2>2. i = 0 => s = 1
    BY <1>6, <1>7, <1>14, <2>1 DEF Behind, EntryOf
  <2> DEFINE n == Len(recent)
             m == Len(recent')
  <2>3. PICK k \in 0 .. m : k = IF i = 0 THEN 0 ELSE i - s
    <3>1. (IF i = 0 THEN 0 ELSE i - s) \in 0 .. m
      BY <1>6, <1>7, <2>1
    <3> HIDE DEF m
    <3> QED  BY <3>1
  <2>4. ASSUME NEW j \in k + 1 .. m, j # m
        PROVE  j + s \in i + 1 .. n /\ recent'[j] = recent[j + s]
    <3>1. j \in 1 .. m - 1
      BY <1>6, <2>3, <2>4
    <3>2. j + s > i
      BY <1>6, <2>2, <2>3, <2>4
    <3> QED  BY <1>7, <2>1, <3>1, <3>2
  <2>5. EntryOf(x, k)'
    <3>1. CASE k = 0
      BY <1>6, <1>7, <2>2, <2>3, <3>1 DEF EntryOf
    <3>2. CASE k # 0
      <4>1. i # 0 /\ k \in 1 .. m - 1 /\ k + s = i
        BY <1>6, <1>7, <2>1, <2>3, <3>2
      <4>2. recent'[k] = recent[i]
        BY <1>7, <4>1
      <4> QED  BY <1>4, <1>14, <3>2, <4>1, <4>2 DEF Behind, EntryOf
    <3> QED  BY <3>1, <3>2
  <2>6. ~StillLogs(cache[x].by, x)
    BY <1>12, <1>14 DEF Behind
  <2>7. ASSUME NEW j \in k + 1 .. m
        PROVE  /\ recent'[j].at >= cache[x].at
               /\ recent'[j].ip = x =>
                     /\ recent'[j].decision.by # cache[x].by
                     /\ ~StillLogs(recent'[j].decision.by, x)
    <3>1. CASE j = m
      <4>1. recent'[j] = e
        BY <1>6, <3>1
      <4>2. e.ip = x => c # cache[x].by
        BY <1>5, <1>13, <1>14 DEF Behind
      <4>3. e.at >= cache[x].at
        BY <1>5, <2>1, NoneApart
      <4> QED  BY <1>5, <1>12, <4>1, <4>2, <4>3
    <3>2. CASE j # m
      <4>1. j + s \in After(i) /\ recent'[j] = recent[j + s]
        BY <2>4, <3>2 DEF After
      <4> QED  BY <1>12, <1>14, <4>1 DEF Behind, Thread
    <3> QED  BY <3>1, <3>2
  <2>8. ASSUME NEW j \in k + 1 .. m, NEW l \in k + 1 .. m, recent'[j].ip = x, recent'[l].ip = x,
               recent'[j].decision.by = recent'[l].decision.by
        PROVE  j = l
    <3>1. ASSUME NEW a \in k + 1 .. m, a # m, recent'[a].ip = x, e.ip = x PROVE recent'[a].decision.by # c
      <4>1. a + s \in After(i) /\ recent'[a] = recent[a + s]
        BY <2>4, <3>1 DEF After
      <4>2. ~Logging(recent[a + s].decision.by, x)
        BY <1>14, <3>1, <4>1 DEF Behind, Thread
      <4> QED  BY <1>5, <1>13, <3>1, <4>1, <4>2
    <3>2. CASE j = m \/ l = m
      BY <1>5, <1>6, <2>8, <3>1, <3>2
    <3>3. CASE j # m /\ l # m
      <4>1. /\ j + s \in After(i) /\ recent'[j] = recent[j + s]
            /\ l + s \in After(i) /\ recent'[l] = recent[l + s]
        BY <2>4, <3>3 DEF After
      <4>2. j + s = l + s
        BY <1>14, <2>8, <4>1 DEF Behind, Thread
      <4> QED  BY <1>6, <2>3, <4>2
    <3> QED  BY <3>2, <3>3
  <2>9. Behind(x, k)'
    BY <1>4, <2>5, <2>6, <2>7, <2>8 DEF Behind, After, Thread, Logging, Stands, StillLogs
  <2> QED  BY <2>9
<1>15. ListInv'
  <2> SUFFICES ASSUME NEW x \in Ips, cache[x] # None
               PROVE  LogPending(x)' \/ \E k \in 0 .. Len(recent') : Behind(x, k)'
    BY <1>4 DEF ListInv
  <2>1. CASE LogPending(x)
    <3>1. PICK y \in Callers : picking[y] = [stage |-> "written", ip |-> x, decision |-> cache[x]]
      BY <2>1 DEF LogPending
    <3>2. CASE y = c
      <4>1. x = ip /\ cache[x] = d
        BY <1>2, <3>1, <3>2
      <4>2. PICK n \in 0 .. Len(recent') : n = Len(recent') /\ n # 0
        BY <1>6
      <4>3. EntryOf(x, n)'
        BY <1>4, <1>5, <1>6, <4>1, <4>2 DEF EntryOf
      <4>4. ~StillLogs(cache[x].by, x)
        BY <1>5, <1>12, <4>1
      <4>5. After(n)' = {}
        BY <1>6, <4>2 DEF After
      <4>6. Behind(x, n)'
        BY <1>4, <4>3, <4>4, <4>5 DEF Behind, Logging, Stands, StillLogs
      <4> QED  BY <4>6
    <3>3. CASE y # c
      BY <1>4, <1>8, <3>1, <3>3 DEF LogPending
    <3> QED  BY <3>2, <3>3
  <2>2. CASE \E i \in 0 .. Len(recent) : Behind(x, i)
    BY <1>14, <2>2
  <2> QED  BY <2>1, <2>2 DEF RouterIInv, ListInv
<1> QED  BY <1>9, <1>10, <1>11, <1>15 DEF RouterIInv

\* The answer of a pick: the decision that was cached, or the one it has made.
LEMMA AnswerGiven ==
    ASSUME RouterTypeOK, NEW c \in Callers
    PROVE  /\ \A ip \in Ips : PickCached(c, ip) =>
                 last' \in Answer /\ last'.ip = ip /\ last'.decision = cache[ip] /\ cache[ip] # None
           /\ PickLogs(c) =>
                 last' \in Answer /\ last'.ip = picking[c].ip /\ last'.decision = picking[c].decision
<1>1. now \in 0 .. MaxNow
  BY DEF RouterTypeOK
<1>2. ASSUME NEW ip \in Ips, PickCached(c, ip)
      PROVE  last' \in Answer /\ last'.ip = ip /\ last'.decision = cache[ip] /\ cache[ip] # None
  <2>1. cache[ip] # None /\ cache[ip] \in Decisions
    BY <1>2 DEF PickCached, Fresh, RouterTypeOK
  <2> QED  BY <1>1, <1>2, <2>1 DEF PickCached, Answers, Answer
<1>3. ASSUME PickLogs(c)
      PROVE  last' \in Answer /\ last'.ip = picking[c].ip /\ last'.decision = picking[c].decision
  <2>1. picking[c] \in [stage : {"written"}, ip : Ips, decision : Decisions]
    BY <1>3, PickTypes DEF PickLogs, Stands
  <2> QED  BY <1>1, <1>3, <2>1 DEF PickLogs, Answers, Answer, Decisions
<1> QED  BY <1>2, <1>3

LEMMA StutterStep ==
    ASSUME RouterIInv, UNCHANGED routerVars
    PROVE  RouterIInv'
BY ListKeeps DEF routerVars, RouterIInv, RouterTypeOK, PingsHeld, CacheMade, PicksMade, Stands,
                 Made, MadeBetween, StaleBounded, DecidedOn, Current

LEMMA RouterKeeps ==
    ASSUME RouterIInv, [RouterNext]_routerVars
    PROVE  RouterIInv'
BY RecordStep, TickStep, PickCachedStep, PickMissesStep, PickDecidesStep, PickWritesStep,
   PickLogsStep, StutterStep DEF RouterNext

\* Every reachable state of the route picker satisfies the strengthened invariant.
THEOREM RouterInvariantHolds == RouterSpec => []RouterIInv
<1>1. RouterInit => RouterIInv
  BY RouterInitIInv
<1>2. RouterIInv /\ [RouterNext]_routerVars => RouterIInv'
  BY RouterKeeps
<1> QED  BY <1>1, <1>2, PTL DEF RouterSpec

--------------------------------------------------------------------------------
\* Every variable keeps its type (see RouterTypeOK).
THEOREM RouterTypesHold == RouterSpec => []RouterTypeOK
<1>1. RouterIInv => RouterTypeOK  BY DEF RouterIInv
<1> QED  BY <1>1, RouterInvariantHolds, PTL

\* No route pick returns is older than reroute_interval, however picks overlap (see
\* StaleBounded).
THEOREM StaleBoundedHolds == RouterSpec => []StaleBounded
<1>1. RouterIInv => StaleBounded  BY DEF RouterIInv
<1> QED  BY <1>1, RouterInvariantHolds, PTL

\* A bridge in the cache beat the direct path by the margin, and every other bridge,
\* when it was chosen (pick; see BridgeWorthIt).
THEOREM BridgeWorthItHolds == RouterSpec => []BridgeWorthIt
<1>1. RouterIInv => BridgeWorthIt
  <2> SUFFICES ASSUME RouterIInv, NEW ip \in Ips, cache[ip] # None, cache[ip].route # Direct
               PROVE  /\ cache[ip].via + MarginMs < cache[ip].direct
                      /\ \E h \in held :
                            /\ h.at \in cache[ip].asked .. cache[ip].at
                            /\ cache[ip].route \in Candidates(ip, h.pings)
                            /\ \A b \in Candidates(ip, h.pings) :
                                  cache[ip].via <= Total(b, ip, h.pings)
                            /\ cache[ip].via = Total(cache[ip].route, ip, h.pings)
    BY DEF BridgeWorthIt
  <2>1. PICK h \in held : /\ h.at \in cache[ip].asked .. cache[ip].at
                          /\ cache[ip].route = Decide(ip, cache[ip].direct, h.pings)
                          /\ cache[ip].via = ViaTotal(ip, h.pings)
    BY DEF RouterIInv, CacheMade, Made, MadeBetween
  <2>2. h.pings \in Measurements
    BY DEF RouterIInv, RouterTypeOK, Measurements
  <2>3. /\ Candidates(ip, h.pings) # {}
        /\ ViaTotal(ip, h.pings) + MarginMs < cache[ip].direct
        /\ cache[ip].route = BestBridge(ip, h.pings)
    BY <2>1 DEF Decide
  <2>4. ViaTotal(ip, h.pings) = Total(BestBridge(ip, h.pings), ip, h.pings)
    BY <2>3 DEF ViaTotal
  <2> QED  BY <2>1, <2>2, <2>3, <2>4, BestExists
<1> QED  BY <1>1, RouterInvariantHolds, PTL

\* Entries of distinct threads other than one: there are fewer than threads.
LEMMA FewerThanCallers ==
    ASSUME RouterIInv, NEW ip \in Ips, cache[ip] # None, NEW i \in 0 .. Len(recent), Behind(ip, i)
    PROVE  Cardinality({j \in After(i) : recent[j].ip = ip}) < Cardinality(Callers)
<1> DEFINE E == {j \in After(i) : recent[j].ip = ip}
           others == Callers \ {cache[ip].by}
           f == [j \in E |-> Thread(j)]
<1>1. cache[ip].by \in Callers
  BY DEF RouterIInv, RouterTypeOK, Decisions
<1>2. ASSUME NEW j \in E PROVE Thread(j) \in others
  <2>1. recent \in Seq(Entries) /\ Len(recent) \in Nat
    BY DEF RouterIInv, RouterTypeOK
  <2>2. j \in 1 .. Len(recent) /\ recent[j].ip = ip
    BY <2>1 DEF After
  <2>3. recent[j] \in Entries
    BY <2>1, <2>2
  <2>4. Thread(j) \in Callers
    BY <2>3 DEF Thread, Entries, Decisions
  <2>5. Thread(j) # cache[ip].by
    BY <2>2 DEF Behind
  <2> QED  BY <2>4, <2>5
<1>3. f \in Injection(E, others)
  <2>1. \A j, k \in E : Thread(j) = Thread(k) => j = k
    BY DEF Behind
  <2> HIDE DEF others, E
  <2>2. f \in [E -> others] /\ \A j \in E : f[j] = Thread(j)
    BY <1>2
  <2> HIDE DEF f
  <2> QED  BY <2>1, <2>2 DEF Injection, IsInjective
<1>4. /\ IsFiniteSet(others) /\ Cardinality(Callers) \in Nat
      /\ Cardinality(others) = Cardinality(Callers) - 1
  BY <1>1, RouterAssumption, FS_RemoveElement, FS_CardinalityType
<1>5. Cardinality(E) <= Cardinality(others) /\ IsFiniteSet(E)
  <2> HIDE DEF E, others, f
  <2> QED  BY <1>3, <1>4, FS_Injection
<1>6. Cardinality(E) \in Nat
  BY <1>5, FS_CardinalityType
<1> QED  BY <1>4, <1>5, <1>6

\* The list the dashboard shows agrees with the decisions in use, although the two are
\* written under different locks and picks overlap (see RecentTellsCache).
THEOREM RecentTellsCacheHolds == RouterSpec => []RecentTellsCache
<1>1. RouterIInv => RecentTellsCache
  <2> SUFFICES ASSUME RouterIInv, NEW ip \in Ips, cache[ip] # None, ~LogPending(ip)
               PROVE  \E i \in 0 .. Len(recent) :
                         /\ EntryOf(ip, i)
                         /\ \A j \in After(i) : recent[j].at >= cache[ip].at
                         /\ Cardinality({j \in After(i) : recent[j].ip = ip}) < Cardinality(Callers)
    BY DEF RecentTellsCache
  <2>1. PICK i \in 0 .. Len(recent) : Behind(ip, i)
    BY DEF RouterIInv, ListInv
  <2> QED  BY <2>1, FewerThanCallers DEF Behind
<1> QED  BY <1>1, RouterInvariantHolds, PTL

================================================================================
