--------------------------------- MODULE Router --------------------------------
(***************************************************************************)
(* The route picker of the client (gr-client router.rs): measured round    *)
(* trips, the region table, a cache of decisions per address that is       *)
(* evaluated again after reroute_interval, and a list of recent decisions  *)
(* for the dashboard.  Each is behind a lock of its own, so a pick that    *)
(* finds no fresh decision takes several steps, with measurements, time    *)
(* and the picks of other threads between them.  Round trips are whole     *)
(* milliseconds; f64::INFINITY is a number above every sum.                *)
(***************************************************************************)
EXTENDS Integers, Sequences, FiniteSets

CONSTANTS
    Callers,    \* threads that call pick
    NumBridges, \* bridges, by index
    Ips,        \* destination addresses
    RegionOf,   \* address -> AWS region or None
    RegionRtt,  \* bridge -> region -> published round trip or None
    Rtts,       \* client to bridge round trips that may be measured
    DirectRtts,    \* direct round trips callers pass, Infinity included
    Infinity,
    MarginMs,   \* margin_ms
    Interval,   \* reroute_interval, in ticks
    RecentCap,  \* recent_capacity
    MaxNow,     \* bound: ticks of the clock
    MaxHeld,    \* bound: measurements are recorded while fewer sets of them were held
    Direct,     \* Route::Direct
    None

Bridges == 1 .. NumBridges

\* Route: an index into bridges, or the direct path.
Routes == Bridges \cup {Direct}

\* Decision; by and asked are history: the caller, and when its pick began.
Decisions == [route : Routes, at : 0 .. MaxNow, direct : DirectRtts, via : Nat,
              by : Callers, asked : 0 .. MaxNow]

\* DecisionLog; its decision's stamp is an earlier reading of the clock than at.
Entries == [ip : Ips, at : 0 .. MaxNow, decision : Decisions]

\* An answer of pick to its caller, and the decision it came from.
Answer == [by : Callers, ip : Ips, asked : 0 .. MaxNow, at : 0 .. MaxNow, decision : Decisions]

\* A pick that is not answered from the cache stands after its look at the cache,
\* after its look at the measurements (taken at read), or after the write to the cache.
Picks ==
    [stage : {"missed"}, ip : Ips, direct : DirectRtts, asked : 0 .. MaxNow]
    \cup [stage : {"decided"}, ip : Ips, direct : DirectRtts, asked : 0 .. MaxNow,
          read : 0 .. MaxNow, route : Routes, via : Nat]
    \cup [stage : {"written"}, ip : Ips, decision : Decisions]

ASSUME RouterAssumption ==
    /\ NumBridges \in Nat /\ Interval \in Nat /\ MaxNow \in Nat /\ MaxHeld \in Nat /\ MarginMs \in Nat
    /\ RecentCap \in Nat \ {0}
    /\ IsFiniteSet(Callers)
    /\ Rtts \subseteq Nat /\ DirectRtts \subseteq Nat /\ Infinity \in DirectRtts
    /\ None \notin Nat /\ None \notin Ips /\ Direct \notin Bridges
    /\ None \notin Decisions /\ None \notin Picks /\ None \notin Answer
    /\ \A b \in Bridges, ip \in Ips :
          RegionOf[ip] # None => RegionRtt[b][RegionOf[ip]] \in Nat \cup {None}

VARIABLES
    pings,  \* client_to_bridge_ms: bridge -> round trip or None
    cache,  \* address -> decision or None
    recent, \* the last decisions, oldest first
    picking, \* caller -> the pick it is in, or None
    now,
    held,   \* history: the measurements held at each tick
    last    \* history: the last answer of pick and the decision it came from

routerVars == <<pings, cache, recent, picking, now, held, last>>

RouterInit ==
    /\ pings = [b \in Bridges |-> None]
    /\ cache = [ip \in Ips |-> None]
    /\ recent = <<>>
    /\ picking = [c \in Callers |-> None]
    /\ now = 0
    /\ held = {[at |-> 0, pings |-> pings]}
    /\ last = None

\* record_client_to_bridge
Record(b, rtt) ==
    /\ Cardinality(held) < MaxHeld
    /\ pings' = [pings EXCEPT ![b] = rtt]
    /\ held' = held \cup {[at |-> now, pings |-> pings']}
    /\ UNCHANGED <<cache, recent, picking, now, last>>

Tick ==
    /\ now < MaxNow
    /\ now' = now + 1
    /\ held' = held \cup {[at |-> now', pings |-> pings]}
    /\ UNCHANGED <<pings, cache, recent, picking, last>>

-----------------------------------------------------------------------------
(* pick *)

\* Bridges with a measurement and a published round trip to the address's region.
Candidates(ip, p) ==
    {b \in Bridges :
        /\ p[b] # None
        /\ RegionOf[ip] # None
        /\ RegionRtt[b][RegionOf[ip]] # None}

Total(b, ip, p) == p[b] + RegionRtt[b][RegionOf[ip]]

\* The first bridge of the list that no other one beats.
BestBridge(ip, p) ==
    CHOOSE b \in Candidates(ip, p) : \A c \in Candidates(ip, p) :
        \/ Total(b, ip, p) < Total(c, ip, p)
        \/ Total(b, ip, p) = Total(c, ip, p) /\ b <= c

ViaTotal(ip, p) ==
    IF Candidates(ip, p) = {} THEN Infinity ELSE Total(BestBridge(ip, p), ip, p)

\* Variant: the margin is left out.
Decide_NoMargin(ip, direct, p) ==
    IF Candidates(ip, p) # {} /\ ViaTotal(ip, p) < direct
    THEN BestBridge(ip, p) ELSE Direct

Decide(ip, direct, p) ==
    IF Candidates(ip, p) # {} /\ ViaTotal(ip, p) + MarginMs < direct
    THEN BestBridge(ip, p) ELSE Direct

\* Variant: a cached decision is used one tick too long.
Fresh_TickLate(ip) == cache[ip] # None /\ now - cache[ip].at <= Interval

\* decided_at.elapsed() < reroute_interval
Fresh(ip) == cache[ip] # None /\ now - cache[ip].at < Interval

\* Variant: a full log drops the new entry in place of the oldest.
Logged_DropsNew(e) ==
    IF Len(recent) >= RecentCap THEN recent ELSE Append(recent, e)

\* Variant: the log is never trimmed.
Logged_Grows(e) == Append(recent, e)

\* The ring of recent decisions.
Logged(e) ==
    Append(IF Len(recent) >= RecentCap THEN Tail(recent) ELSE recent, e)

Answers(c, ip, asked, decision) ==
    last' = [by |-> c, ip |-> ip, asked |-> asked, at |-> now, decision |-> decision]

\* Variant: the cache is not keyed by address.
PickCached_AnyAddress(c, ip) ==
    /\ picking[c] = None
    /\ \E other \in Ips : Fresh(other) /\ Answers(c, ip, now, cache[other])
    /\ UNCHANGED <<pings, cache, recent, picking, now, held>>

\* Under the cache's read lock: the decision is fresh, and is the answer whatever
\* direct round trip the caller passes.
PickCached(c, ip) ==
    /\ picking[c] = None
    /\ Fresh(ip)
    /\ Answers(c, ip, now, cache[ip])
    /\ UNCHANGED <<pings, cache, recent, picking, now, held>>

\* There is no decision, or it is too old; the read lock is released.
PickMisses(c, ip, direct) ==
    /\ picking[c] = None
    /\ ~Fresh(ip)
    /\ picking' = [picking EXCEPT ![c] =
          [stage |-> "missed", ip |-> ip, direct |-> direct, asked |-> now]]
    /\ UNCHANGED <<pings, cache, recent, now, held, last>>

\* Under the read lock of the measurements: the best bridge is found.
PickDecides(c) ==
    /\ picking[c] # None /\ picking[c].stage = "missed"
    /\ LET p == picking[c]
       IN  picking' = [picking EXCEPT ![c] =
              [stage |-> "decided", ip |-> p.ip, direct |-> p.direct, asked |-> p.asked,
               read |-> now, route |-> Decide(p.ip, p.direct, pings),
               via |-> ViaTotal(p.ip, pings)]]
    /\ UNCHANGED <<pings, cache, recent, now, held, last>>

\* Under the write lock of the cache: the decision replaces what is there.  Its
\* stamp was taken between the look at the measurements and the write.
PickWrites(c) ==
    /\ picking[c] # None /\ picking[c].stage = "decided"
    /\ \E at \in picking[c].read .. now :
          LET p == picking[c]
              d == [route |-> p.route, at |-> at, direct |-> p.direct, via |-> p.via,
                    by |-> c, asked |-> p.asked]
          IN  /\ cache' = [cache EXCEPT ![p.ip] = d]
              /\ picking' = [picking EXCEPT ![c] =
                    [stage |-> "written", ip |-> p.ip, decision |-> d]]
    /\ UNCHANGED <<pings, recent, now, held, last>>

\* Under the write lock of the list: the entry, with a stamp of its own; pick returns.
PickLogs(c) ==
    /\ picking[c] # None /\ picking[c].stage = "written"
    /\ LET p == picking[c]
       IN  /\ recent' = Logged([ip |-> p.ip, at |-> now, decision |-> p.decision])
           /\ Answers(c, p.ip, p.decision.asked, p.decision)
    /\ picking' = [picking EXCEPT ![c] = None]
    /\ UNCHANGED <<pings, cache, now, held>>

RouterNext ==
    \/ \E b \in Bridges, rtt \in Rtts : Record(b, rtt)
    \/ Tick
    \/ \E c \in Callers :
        \/ \E ip \in Ips :
            PickCached(c, ip) \/ \E direct \in DirectRtts : PickMisses(c, ip, direct)
        \/ PickDecides(c) \/ PickWrites(c) \/ PickLogs(c)

RouterSpec == RouterInit /\ [][RouterNext]_routerVars

-----------------------------------------------------------------------------
(* Properties *)

RouterTypeOK ==
    /\ pings \in [Bridges -> Rtts \cup {None}]
    /\ cache \in [Ips -> Decisions \cup {None}]
    /\ recent \in Seq(Entries)
    /\ Len(recent) <= RecentCap
    /\ picking \in [Callers -> Picks \cup {None}]
    /\ now \in 0 .. MaxNow
    /\ held \subseteq [at : 0 .. MaxNow, pings : [Bridges -> Rtts \cup {None}]]
    /\ last \in Answer \cup {None}

\* The decision is the right one for measurements in force while its pick ran.
DecidedOn(ip, d) ==
    \E h \in held :
        /\ h.at \in d.asked .. d.at
        /\ d.route = Decide(ip, d.direct, h.pings)

\* An answer's decision is its own pick's, or was made less than the interval ago.
Current(answer) ==
    \/ answer.decision.by = answer.by /\ answer.decision.asked = answer.asked
    \/ answer.at - answer.decision.at < Interval

\* Whatever picks overlap and however long they take, pick answers with the best
\* route by measurements that were in force during one pick for this address: its
\* own, or one whose decision is younger than reroute_interval.
StaleBounded == last # None => DecidedOn(last.ip, last.decision) /\ Current(last)

\* A route in the cache is never worse than the direct path by the measurements it
\* was decided on: a bridge there beat the direct round trip by more than the
\* margin, and no bridge measured at the time was better.
BridgeWorthIt ==
    \A ip \in Ips : cache[ip] # None /\ cache[ip].route # Direct =>
        /\ cache[ip].via + MarginMs < cache[ip].direct
        /\ \E h \in held :
              /\ h.at \in cache[ip].asked .. cache[ip].at
              /\ cache[ip].route \in Candidates(ip, h.pings)
              /\ \A b \in Candidates(ip, h.pings) :
                    cache[ip].via <= Total(b, ip, h.pings)
              /\ cache[ip].via = Total(cache[ip].route, ip, h.pings)

\* The pick that put the cached decision of ip there has yet to log it.
LogPending(ip) ==
    \E c \in Callers : picking[c] = [stage |-> "written", ip |-> ip, decision |-> cache[ip]]

\* The cached decision of ip is the i-th entry; the 0-th is one the full list has lost.
EntryOf(ip, i) ==
    IF i = 0 THEN Len(recent) = RecentCap
    ELSE recent[i].ip = ip /\ recent[i].decision = cache[ip]

After(i) == i + 1 .. Len(recent)

\* The dashboard's list agrees with the routes in use, up to picks that overlap.
\* Cache and list are written under different locks: the decision in the cache is
\* yet to be logged by its pick, or it is in the list, or it was pushed out by as
\* many later entries as the list has; and what is listed after it for the address
\* is at most one entry of each other thread, so with one thread the newest entry
\* of an address is the decision in use.
RecentTellsCache ==
    \A ip \in Ips : cache[ip] # None =>
        \/ LogPending(ip)
        \/ \E i \in 0 .. Len(recent) :
              /\ EntryOf(ip, i)
              /\ \A j \in After(i) : recent[j].at >= cache[ip].at
              /\ Cardinality({j \in After(i) : recent[j].ip = ip}) < Cardinality(Callers)
===============================================================================
