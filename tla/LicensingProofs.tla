---------------------------- MODULE LicensingProofs ----------------------------
(***************************************************************************)
(* For any number of sign-ups, any configurations and any drift: tokens    *)
(* are accepted in their time and refused for a cause, ids of one run are  *)
(* distinct, and a drained bridge leaves the directories in time.          *)
(***************************************************************************)
EXTENDS Licensing, TLAPS

\* The environment's promise about the two clocks.
ClocksNear == Near(backendClock, bridgeClock)

\* Numbers taken in this run are below the counter, and no two requests hold the same.
NumbersTaken ==
    /\ \A r \in Signups : pc[r] = "numbered" => userId[r] < nextUserId
    /\ \A r, q \in Signups :
          pc[r] = "numbered" /\ pc[q] = "numbered" /\ userId[r] = userId[q] => r = q

\* A number on a token of this run was taken and is in no request's hands any more.
NumbersUsed ==
    \A t \in tokens :
        /\ t.run <= start
        /\ t.run = start =>
              /\ t.user < nextUserId
              /\ \A r \in Signups : pc[r] = "numbered" => userId[r] # t.user

\* What a directory names was enabled when it was signed or later.
ListsDated ==
    \A d \in lists : \A b \in d.bridges : d.expires <= lastListed[b] + DirTtl

\* A bridge the running backend has enabled was enabled just now.
EnabledDated ==
    \A b \in config.enabled : lastListed[b] = backendClock

IInv ==
    /\ TypeOK
    /\ ClocksNear
    /\ AcceptedInTime
    /\ RefusedForCause
    /\ NumbersTaken
    /\ NumbersUsed
    /\ UsersDistinct
    /\ ListsDated
    /\ EnabledDated

\* What is known of a configuration.
LEMMA ConfigType ==
    ASSUME NEW c \in Configs
    PROVE  c.key \in Keys /\ c.ttl \in Nat /\ c.enabled \subseteq BridgeIds
BY LicensingAssumption DEF BridgeIds

\* The verdict of verify, for a clock near the backend's: an accepted token has
\* expired less than the drift ago, and a token in the middle of its life is accepted.
LEMMA VerifyNear ==
    ASSUME NEW t \in Tokens, NEW key, NEW at \in Nat, NEW real \in Nat, Near(real, at)
    PROVE  /\ Verify(t, key, at) \in Verdicts
           /\ Verify(t, key, at) = "ok" => t.key = key /\ real < t.expires + MaxDrift
           /\ t.key = key /\ t.issued + MaxDrift <= real /\ real + MaxDrift < t.expires
                 => Verify(t, key, at) = "ok"
<1> t.issued \in Nat /\ t.expires \in Nat /\ MaxDrift \in Nat
  BY LicensingAssumption DEF Tokens
<1> QED  BY SMT DEF Verify, Verdicts, Near

LEMMA InitIInv == Init => IInv
<1> SUFFICES ASSUME Init PROVE IInv  OBVIOUS
<1> USE DEF Init
<1>1. TypeOK  BY LicensingAssumption DEF TypeOK
<1>2. ClocksNear  BY LicensingAssumption DEF ClocksNear, Near
<1>3. AcceptedInTime /\ RefusedForCause  BY DEF AcceptedInTime, RefusedForCause
<1>4. NumbersTaken /\ NumbersUsed /\ UsersDistinct /\ ListsDated
  BY DEF NumbersTaken, NumbersUsed, UsersDistinct, ListsDated
<1>5. EnabledDated
  BY ConfigType DEF EnabledDated
<1> QED  BY <1>1, <1>2, <1>3, <1>4, <1>5 DEF IInv

--------------------------------------------------------------------------------
(* One lemma per action; each action disturbs a few conjuncts only.        *)

LEMMA TakeIdStep ==
    ASSUME IInv, NEW r \in Signups, TakeId(r)
    PROVE  IInv'
<1> USE DEF TakeId, clocks, handedOut, bridge
<1> /\ nextUserId \in Nat /\ IdLimit \in Nat /\ userId \in [Signups -> 0 .. IdLimit]
    /\ pc \in [Signups -> {"new", "numbered", "answered", "lost"}]
  BY LicensingAssumption DEF IInv, TypeOK
<1>1. TypeOK'
  BY LicensingAssumption DEF IInv, TypeOK
<1>2. ClocksNear' /\ AcceptedInTime' /\ RefusedForCause' /\ UsersDistinct'
  BY DEF IInv, ClocksNear, AcceptedInTime, RefusedForCause, UsersDistinct
<1>5. ListsDated' /\ EnabledDated'
  BY DEF IInv, ListsDated, EnabledDated
<1>3. NumbersTaken'
  <2>1. \A q \in Signups : pc'[q] = "numbered" => userId'[q] < nextUserId'
    BY DEF IInv, NumbersTaken
  <2>2. \A q, p \in Signups :
           pc'[q] = "numbered" /\ pc'[p] = "numbered" /\ userId'[q] = userId'[p] => q = p
    BY DEF IInv, NumbersTaken
  <2> QED  BY <2>1, <2>2 DEF NumbersTaken
<1>4. NumbersUsed'
  <2> SUFFICES ASSUME NEW t \in tokens
               PROVE  /\ t.run <= start
                      /\ t.run = start =>
                            /\ t.user < nextUserId'
                            /\ \A q \in Signups : pc'[q] = "numbered" => userId'[q] # t.user
    BY DEF NumbersUsed
  <2> t.user \in Nat  BY DEF IInv, TypeOK, Tokens
  <2> QED  BY DEF IInv, NumbersUsed
<1> QED  BY <1>1, <1>2, <1>3, <1>4, <1>5 DEF IInv

LEMMA IdsExhaustedStep ==
    ASSUME IInv, NEW r \in Signups, IdsExhausted(r)
    PROVE  IInv'
<1> USE DEF IdsExhausted, clocks, handedOut, bridge
<1>1. TypeOK'
  BY DEF IInv, TypeOK
<1>2. ClocksNear' /\ AcceptedInTime' /\ RefusedForCause' /\ UsersDistinct'
  BY DEF IInv, ClocksNear, AcceptedInTime, RefusedForCause, UsersDistinct
<1>4. ListsDated' /\ EnabledDated'
  BY DEF IInv, ListsDated, EnabledDated
<1>3. NumbersTaken' /\ NumbersUsed'
  BY DEF IInv, TypeOK, NumbersTaken, NumbersUsed
<1> QED  BY <1>1, <1>2, <1>3, <1>4 DEF IInv

LEMMA IssueStep ==
    ASSUME IInv, NEW r \in Signups, Issue(r)
    PROVE  IInv'
<1> USE DEF Issue, clocks, bridge
<1> DEFINE new == [user |-> userId[r], issued |-> backendClock,
                   expires |-> backendClock + config.ttl, key |-> config.key, run |-> start]
<1> new \in Tokens
  BY ConfigType, LicensingAssumption DEF IInv, TypeOK, Tokens
<1> tokens' = tokens \cup {new}
  OBVIOUS
<1>1. TypeOK'
  <2> tokens' \subseteq Tokens /\ tokens \subseteq tokens'  BY DEF IInv, TypeOK
  <2> shown' \subseteq [token : tokens', at : 0 .. backendClock', by : Keys, verdict : Verdicts]
    BY DEF IInv, TypeOK
  <2> HIDE DEF new
  <2> QED  BY DEF IInv, TypeOK
<1>2. ClocksNear' /\ AcceptedInTime' /\ RefusedForCause'
  BY DEF IInv, ClocksNear, AcceptedInTime, RefusedForCause
<1>6. ListsDated' /\ EnabledDated'
  BY DEF IInv, ListsDated, EnabledDated
<1>3. NumbersTaken'
  BY DEF IInv, TypeOK, NumbersTaken
<1>4. NumbersUsed'
  <2>1. ASSUME NEW t \in tokens
        PROVE  /\ t.run <= start
               /\ t.run = start =>
                     /\ t.user < nextUserId
                     /\ \A q \in Signups : pc'[q] = "numbered" => userId[q] # t.user
    BY DEF IInv, TypeOK, NumbersUsed
  <2>2. /\ new.run <= start /\ new.user < nextUserId
        /\ \A q \in Signups : pc'[q] = "numbered" => userId[q] # new.user
    BY LicensingAssumption DEF IInv, TypeOK, NumbersTaken
  <2> HIDE DEF new
  <2> QED  BY <2>1, <2>2 DEF NumbersUsed
<1>5. UsersDistinct'
  <2>1. \A t \in tokens : t.run = new.run => t.user # new.user
    BY DEF IInv, NumbersUsed
  <2> HIDE DEF new
  <2> QED  BY <2>1 DEF IInv, UsersDistinct
<1> QED  BY <1>1, <1>2, <1>3, <1>4, <1>5, <1>6 DEF IInv

LEMMA ListBridgesStep ==
    ASSUME IInv, ListBridges
    PROVE  IInv'
<1> USE DEF ListBridges, Enabled, clocks, signup, bridge
<1> DEFINE new == [bridges |-> config.enabled, expires |-> backendClock + DirTtl,
                   key |-> config.key]
<1> config \in Configs /\ backendClock \in Nat /\ DirTtl \in Nat
  BY LicensingAssumption DEF IInv, TypeOK
<1> lists' = lists \cup {new}
  OBVIOUS
<1>1. TypeOK'
  <2> new \in [bridges : SUBSET BridgeIds, expires : Nat, key : Keys]
    BY ConfigType
  <2> HIDE DEF new
  <2> QED  BY DEF IInv, TypeOK
<1>2. ClocksNear' /\ AcceptedInTime' /\ RefusedForCause' /\ UsersDistinct'
  BY DEF IInv, ClocksNear, AcceptedInTime, RefusedForCause, UsersDistinct
<1>3. NumbersTaken' /\ NumbersUsed'
  BY DEF IInv, NumbersTaken, NumbersUsed
<1>4. ListsDated'
  <2>1. \A b \in new.bridges : new.expires <= lastListed[b] + DirTtl
    BY DEF IInv, EnabledDated
  <2> HIDE DEF new
  <2> QED  BY <2>1 DEF IInv, ListsDated
<1>5. EnabledDated'
  BY DEF IInv, EnabledDated
<1> QED  BY <1>1, <1>2, <1>3, <1>4, <1>5 DEF IInv

LEMMA BackendStartsStep ==
    ASSUME IInv, BackendStarts
    PROVE  IInv'
<1> USE DEF BackendStarts, clocks, handedOut, bridge
<1> /\ backendClock \in Nat /\ start \in Nat /\ DirTtl \in Nat
    /\ lastListed \in [BridgeIds -> 0 .. backendClock]
    /\ config' \in Configs
  BY LicensingAssumption DEF IInv, TypeOK
<1>1. TypeOK'
  <2>1. pc' \in [Signups -> {"new", "numbered", "answered", "lost"}]
    BY DEF IInv, TypeOK
  <2>2. lastListed' \in [BridgeIds -> 0 .. backendClock]
    OBVIOUS
  <2> QED  BY <2>1, <2>2, LicensingAssumption DEF IInv, TypeOK
<1>2. ClocksNear' /\ AcceptedInTime' /\ RefusedForCause' /\ UsersDistinct'
  BY DEF IInv, ClocksNear, AcceptedInTime, RefusedForCause, UsersDistinct
<1>3. \A r \in Signups : pc'[r] # "numbered"
  OBVIOUS
<1>4. NumbersTaken'
  BY <1>3 DEF NumbersTaken
<1>5. NumbersUsed'
  <2> \A t \in tokens : t.run \in Nat  BY DEF IInv, TypeOK, Tokens
  <2> QED  BY <1>3 DEF IInv, NumbersUsed
<1>6. ListsDated'
  <2> SUFFICES ASSUME NEW d \in lists, NEW b \in d.bridges
               PROVE  d.expires <= lastListed'[b] + DirTtl
    BY DEF ListsDated
  <2>1. b \in BridgeIds /\ d.expires \in Nat
    BY DEF IInv, TypeOK
  <2>2. lastListed[b] \in Nat /\ lastListed'[b] \in Nat /\ lastListed[b] <= lastListed'[b]
    BY <2>1
  <2>3. d.expires <= lastListed[b] + DirTtl
    BY DEF IInv, ListsDated
  <2> QED  BY <2>1, <2>2, <2>3
<1>7. EnabledDated'
  BY ConfigType DEF EnabledDated
<1> QED  BY <1>1, <1>2, <1>4, <1>5, <1>6, <1>7 DEF IInv

LEMMA BridgeStartsStep ==
    ASSUME IInv, BridgeStarts
    PROVE  IInv'
<1> USE DEF BridgeStarts, clocks, signup, handedOut
<1>1. TypeOK'
  BY LicensingAssumption DEF IInv, TypeOK
<1>2. ClocksNear' /\ AcceptedInTime' /\ RefusedForCause' /\ UsersDistinct'
  BY DEF IInv, ClocksNear, AcceptedInTime, RefusedForCause, UsersDistinct
<1>3. NumbersTaken' /\ NumbersUsed' /\ ListsDated' /\ EnabledDated'
  BY DEF IInv, NumbersTaken, NumbersUsed, ListsDated, EnabledDated
<1> QED  BY <1>1, <1>2, <1>3 DEF IInv

LEMMA ShowStep ==
    ASSUME IInv, NEW t \in tokens, Show(t)
    PROVE  IInv'
<1> USE DEF Show, clocks, signup, handedOut
<1> DEFINE new == [token |-> t, at |-> backendClock, by |-> bridgeKey,
                   verdict |-> Verify(t, bridgeKey, bridgeClock)]
<1> shown' = shown \cup {new}
  OBVIOUS
<1> t \in Tokens /\ backendClock \in Nat /\ bridgeClock \in Nat /\ bridgeKey \in Keys
  BY DEF IInv, TypeOK
<1>1. /\ new.verdict \in Verdicts
      /\ new.verdict = "ok" => t.key = new.by /\ new.at < t.expires + MaxDrift
      /\ t.key = new.by /\ t.issued + MaxDrift <= new.at /\ new.at + MaxDrift < t.expires
            => new.verdict = "ok"
  BY VerifyNear DEF IInv, ClocksNear
<1>2. TypeOK'
  <2> new \in [token : tokens, at : 0 .. backendClock, by : Keys, verdict : Verdicts]
    BY <1>1
  <2> HIDE DEF new
  <2> QED  BY DEF IInv, TypeOK
<1>3. AcceptedInTime' /\ RefusedForCause'
  <2> new.token = t
    OBVIOUS
  <2> HIDE DEF new
  <2>1. AcceptedInTime'  BY <1>1 DEF IInv, AcceptedInTime
  <2>2. RefusedForCause'  BY <1>1 DEF IInv, RefusedForCause
  <2> QED  BY <2>1, <2>2
<1>4. ClocksNear' /\ UsersDistinct' /\ NumbersTaken' /\ NumbersUsed' /\ ListsDated' /\ EnabledDated'
  BY DEF IInv, ClocksNear, UsersDistinct, NumbersTaken, NumbersUsed, ListsDated, EnabledDated
<1> QED  BY <1>2, <1>3, <1>4 DEF IInv

LEMMA BackendTicksStep ==
    ASSUME IInv, BackendTicks
    PROVE  IInv'
<1> USE DEF BackendTicks, signup, handedOut, bridge
<1> /\ backendClock \in Nat /\ MaxClock \in Nat /\ DirTtl \in Nat
    /\ lastListed \in [BridgeIds -> 0 .. backendClock] /\ config \in Configs
  BY LicensingAssumption DEF IInv, TypeOK
<1>1. TypeOK'
  <2>1. lastListed' \in [BridgeIds -> 0 .. backendClock']
    OBVIOUS
  <2>2. shown' \subseteq [token : tokens', at : 0 .. backendClock', by : Keys, verdict : Verdicts]
    BY DEF IInv, TypeOK
  <2>3. backendClock' \in 0 .. MaxClock
    OBVIOUS
  <2> QED  BY <2>1, <2>2, <2>3 DEF IInv, TypeOK
<1>2. ClocksNear' /\ AcceptedInTime' /\ RefusedForCause' /\ UsersDistinct'
  BY DEF IInv, ClocksNear, AcceptedInTime, RefusedForCause, UsersDistinct
<1>3. NumbersTaken' /\ NumbersUsed'
  BY DEF IInv, NumbersTaken, NumbersUsed
<1>4. ListsDated'
  <2> SUFFICES ASSUME NEW d \in lists, NEW b \in d.bridges
               PROVE  d.expires <= lastListed'[b] + DirTtl
    BY DEF ListsDated
  <2>1. b \in BridgeIds /\ d.expires \in Nat
    BY DEF IInv, TypeOK
  <2>2. lastListed[b] \in Nat /\ lastListed'[b] \in Nat /\ lastListed[b] <= lastListed'[b]
    BY <2>1
  <2>3. d.expires <= lastListed[b] + DirTtl
    BY DEF IInv, ListsDated
  <2> QED  BY <2>1, <2>2, <2>3
<1>5. EnabledDated'
  BY ConfigType DEF EnabledDated
<1> QED  BY <1>1, <1>2, <1>3, <1>4, <1>5 DEF IInv

LEMMA BridgeTicksStep ==
    ASSUME IInv, BridgeTicks
    PROVE  IInv'
<1> USE DEF BridgeTicks, signup, handedOut, bridge
<1>1. TypeOK'
  BY LicensingAssumption DEF IInv, TypeOK
<1>2. ClocksNear' /\ AcceptedInTime' /\ RefusedForCause' /\ UsersDistinct'
  BY DEF IInv, ClocksNear, AcceptedInTime, RefusedForCause, UsersDistinct
<1>3. NumbersTaken' /\ NumbersUsed' /\ ListsDated' /\ EnabledDated'
  BY DEF IInv, NumbersTaken, NumbersUsed, ListsDated, EnabledDated
<1> QED  BY <1>1, <1>2, <1>3 DEF IInv

LEMMA StutterStep == IInv /\ UNCHANGED vars => IInv'
BY DEF vars, clocks, signup, handedOut, bridge, IInv, TypeOK, ClocksNear, AcceptedInTime,
       RefusedForCause, UsersDistinct, NumbersTaken, NumbersUsed, ListsDated, EnabledDated

\* Every reachable state of a run of the backend, the bridge and their clients
\* satisfies the strengthened invariant.
THEOREM InvariantHolds == Spec => []IInv
<1>1. Init => IInv
  BY InitIInv
<1>2. IInv /\ [Next]_vars => IInv'
  BY TakeIdStep, IdsExhaustedStep, IssueStep, ListBridgesStep, BackendStartsStep,
     BridgeStartsStep, ShowStep, BackendTicksStep, BridgeTicksStep, StutterStep DEF Next
<1> QED  BY <1>1, <1>2, PTL DEF Spec

--------------------------------------------------------------------------------
\* Every variable keeps its type (see TypeOK).
THEOREM TypesHold == Spec => []TypeOK
<1>1. IInv => TypeOK  BY DEF IInv
<1> QED  BY <1>1, InvariantHolds, PTL

\* An accepted token (LicenseToken::verify) was signed under the bridge's key and
\* expired less than the drift of the clocks ago, if at all.
THEOREM AcceptedInTimeHolds == Spec => []AcceptedInTime
<1>1. IInv => AcceptedInTime  BY DEF IInv
<1> QED  BY <1>1, InvariantHolds, PTL

\* A token in the middle of its life is accepted (LicenseToken::verify).
THEOREM RefusedForCauseHolds == Spec => []RefusedForCause
<1>1. IInv => RefusedForCause  BY DEF IInv
<1> QED  BY <1>1, InvariantHolds, PTL

\* Tokens of one run of the backend name different users (issue_user_id).
THEOREM UsersDistinctHolds == Spec => []UsersDistinct
<1>1. IInv => UsersDistinct  BY DEF IInv
<1> QED  BY <1>1, InvariantHolds, PTL

\* A directory in force names no bridge drained DirTtl ago or earlier (bridges).
THEOREM DrainTakesEffectHolds == Spec => []DrainTakesEffect
<1>1. IInv => DrainTakesEffect
  <2> SUFFICES ASSUME IInv, NEW d \in lists, backendClock < d.expires, NEW b \in d.bridges
               PROVE  backendClock - lastListed[b] < DirTtl
    BY DEF DrainTakesEffect
  <2>1. b \in BridgeIds /\ d.expires \in Nat /\ backendClock \in Nat
    BY DEF IInv, TypeOK
  <2>2. lastListed[b] \in Nat  BY <2>1 DEF IInv, TypeOK
  <2>3. d.expires <= lastListed[b] + DirTtl  BY DEF IInv, ListsDated
  <2> QED  BY <2>1, <2>2, <2>3, LicensingAssumption
<1> QED  BY <1>1, InvariantHolds, PTL

================================================================================
