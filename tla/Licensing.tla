------------------------------- MODULE Licensing -------------------------------
(***************************************************************************)
(* The life of a license token (gr-backend state.rs, routes.rs,            *)
(* directory.rs; gr-protocol license.rs): the backend numbers and stamps   *)
(* it by its own clock, a client keeps it in its configuration and shows   *)
(* it in every SYN, and a bridge judges it by another clock without asking *)
(* the backend.  Beside it, the signed list of bridges.  Configurations    *)
(* are read when a process starts.                                         *)
(***************************************************************************)
EXTENDS Integers, FiniteSets

CONSTANTS
    Signups,  \* sign-up requests
    Configs,  \* what the operator may have written: [key, ttl, enabled]
    Keys,     \* the backend's keys that bridges may have in their configuration
    DirTtl,   \* directory_ttl_secs
    IdLimit,  \* u32::MAX
    MaxDrift, \* assumption on the environment: how far two clocks are apart
    MaxClock, \* bound: where the clocks stop
    MaxShown, \* bound: SYNs that reach the bridge
    MaxLists, \* bound: directories asked for
    MaxStarts \* bound: starts of the backend and of the bridge

ASSUME LicensingAssumption ==
    /\ DirTtl \in Nat /\ IdLimit \in Nat \ {0} /\ MaxDrift \in Nat /\ MaxClock \in Nat
    /\ MaxShown \in Nat /\ MaxLists \in Nat /\ MaxStarts \in Nat \ {0}
    /\ \A c \in Configs : c.key \in Keys /\ c.ttl \in Nat

VARIABLES
    backendClock, bridgeClock,
    config,     \* AppState: what the running backend has read
    nextUserId, \* AppState
    start,      \* history: which start of the backend is running
    pc,         \* sign-up request -> "new", "numbered", "answered", "lost"
    userId,     \* sign-up request -> the number it took
    tokens,     \* tokens handed out; clients keep them for ever
    lists,      \* directories handed out
    bridgeKey,  \* the backend's public key in the running bridge
    bridgeStarts,
    shown,      \* history: tokens that were shown to the bridge, and its verdict
    lastListed  \* history: bridge id -> backendClock when it was last enabled

clocks == <<backendClock, bridgeClock>>
signup == <<nextUserId, pc, userId>>
handedOut == <<tokens, lists>>
bridge == <<bridgeKey, bridgeStarts, shown>>

vars == <<clocks, config, start, signup, handedOut, bridge, lastListed>>

BridgeIds == UNION {c.enabled : c \in Configs}

\* LicensePayload with the key that signed it; run says which start issued it.
Tokens == [user : Nat, issued : Nat, expires : Nat, key : Keys, run : Nat]
Verdicts == {"ok", "bad_signature", "not_yet_valid", "expired"}

Init ==
    /\ backendClock = 0 /\ bridgeClock = 0
    /\ config \in Configs
    /\ nextUserId = 1
    /\ start = 1
    /\ pc = [r \in Signups |-> "new"]
    /\ userId = [r \in Signups |-> 0]
    /\ tokens = {} /\ lists = {} /\ shown = {}
    /\ bridgeKey \in Keys
    /\ bridgeStarts = 1
    /\ lastListed = [b \in BridgeIds |-> 0]

--------------------------------------------------------------------------------
\* Variant of TakeId: stays at the last number.
TakeId_Saturates(r) ==
    /\ pc[r] = "new"
    /\ userId' = [userId EXCEPT ![r] = nextUserId]
    /\ nextUserId' = IF nextUserId + 1 < IdLimit THEN nextUserId + 1 ELSE nextUserId
    /\ pc' = [pc EXCEPT ![r] = "numbered"]
    /\ UNCHANGED <<clocks, config, start, handedOut, bridge, lastListed>>

\* Variant of TakeId: counts on past the limit.
TakeId_Unchecked(r) ==
    /\ pc[r] = "new"
    /\ userId' = [userId EXCEPT ![r] = nextUserId]
    /\ nextUserId' = nextUserId + 1
    /\ pc' = [pc EXCEPT ![r] = "numbered"]
    /\ UNCHANGED <<clocks, config, start, handedOut, bridge, lastListed>>

\* issue_user_id: number and increment under its mutex.
TakeId(r) ==
    /\ pc[r] = "new"
    /\ nextUserId < IdLimit
    /\ userId' = [userId EXCEPT ![r] = nextUserId]
    /\ nextUserId' = nextUserId + 1
    /\ pc' = [pc EXCEPT ![r] = "numbered"]
    /\ UNCHANGED <<clocks, config, start, handedOut, bridge, lastListed>>

\* issue_user_id at the limit: checked_add panics before anything is stored.  The
\* request is lost and so is every later one.
IdsExhausted(r) ==
    /\ pc[r] = "new"
    /\ nextUserId = IdLimit
    /\ pc' = [pc EXCEPT ![r] = "lost"]
    /\ UNCHANGED <<clocks, config, nextUserId, start, userId, handedOut, bridge, lastListed>>

\* signup, after the number was taken: read the clock, sign, answer.
Issue(r) ==
    /\ pc[r] = "numbered"
    /\ pc' = [pc EXCEPT ![r] = "answered"]
    /\ tokens' = tokens \cup
          {[user |-> userId[r], issued |-> backendClock,
            expires |-> backendClock + config.ttl, key |-> config.key, run |-> start]}
    /\ UNCHANGED <<clocks, config, nextUserId, start, userId, lists, bridge, lastListed>>

\* Variant of Enabled: the filter on enabled is dropped.
Enabled_All(c) == BridgeIds

\* The directory's filter.
Enabled(c) == c.enabled

\* bridges: the enabled bridges, signed, with the time at which to ask again.
ListBridges ==
    /\ Cardinality(lists) < MaxLists
    /\ lists' = lists \cup
          {[bridges |-> Enabled(config), expires |-> backendClock + DirTtl, key |-> config.key]}
    /\ UNCHANGED <<clocks, config, start, signup, tokens, bridge, lastListed>>

\* The backend starts again, with what the operator wrote meanwhile.  Requests in
\* progress are lost, ids start at 1, tokens and directories handed out live on.
BackendStarts ==
    /\ start < MaxStarts
    /\ start' = start + 1
    /\ config' \in Configs
    /\ nextUserId' = 1
    /\ pc' = [r \in Signups |-> IF pc[r] = "numbered" THEN "lost" ELSE pc[r]]
    /\ lastListed' = [b \in BridgeIds |->
                        IF b \in config'.enabled THEN backendClock ELSE lastListed[b]]
    /\ UNCHANGED <<clocks, userId, handedOut, bridge>>

BridgeStarts ==
    /\ bridgeStarts < MaxStarts
    /\ bridgeStarts' = bridgeStarts + 1
    /\ bridgeKey' \in Keys
    /\ UNCHANGED <<clocks, config, start, signup, handedOut, shown, lastListed>>

--------------------------------------------------------------------------------
\* Variants of Verify: valid through its last second; not valid in its first.
Verify_LastSecond(t, key, at) ==
    IF t.key # key THEN "bad_signature"
    ELSE IF at < t.issued THEN "not_yet_valid"
    ELSE IF at > t.expires THEN "expired"
    ELSE "ok"

Verify_NotAtOnce(t, key, at) ==
    IF t.key # key THEN "bad_signature"
    ELSE IF at <= t.issued THEN "not_yet_valid"
    ELSE IF at >= t.expires THEN "expired"
    ELSE "ok"

\* LicenseToken::verify
Verify(t, key, at) ==
    IF t.key # key THEN "bad_signature"
    ELSE IF at < t.issued THEN "not_yet_valid"
    ELSE IF at >= t.expires THEN "expired"
    ELSE "ok"

\* A client's SYN with its token reaches accept_new_session (see Bridge).
Show(t) ==
    /\ Cardinality(shown) < MaxShown
    /\ shown' = shown \cup
          {[token |-> t, at |-> backendClock, by |-> bridgeKey,
            verdict |-> Verify(t, bridgeKey, bridgeClock)]}
    /\ UNCHANGED <<clocks, config, start, signup, handedOut, bridgeKey, bridgeStarts, lastListed>>

Near(a, b) == a - b <= MaxDrift /\ b - a <= MaxDrift

\* The hosts' clocks are kept together by their operators.
BackendTicks ==
    /\ backendClock < MaxClock
    /\ Near(backendClock + 1, bridgeClock)
    /\ backendClock' = backendClock + 1
    /\ lastListed' = [b \in BridgeIds |->
                        IF b \in config.enabled THEN backendClock' ELSE lastListed[b]]
    /\ UNCHANGED <<bridgeClock, config, start, signup, handedOut, bridge>>

BridgeTicks ==
    /\ bridgeClock < MaxClock
    /\ Near(backendClock, bridgeClock + 1)
    /\ bridgeClock' = bridgeClock + 1
    /\ UNCHANGED <<backendClock, config, start, signup, handedOut, bridge, lastListed>>

Next ==
    \/ \E r \in Signups : TakeId(r) \/ IdsExhausted(r) \/ Issue(r)
    \/ ListBridges
    \/ BackendStarts
    \/ BridgeStarts
    \/ \E t \in tokens : Show(t)
    \/ BackendTicks
    \/ BridgeTicks

Spec == Init /\ [][Next]_vars
--------------------------------------------------------------------------------
\* Types; what was handed out is stamped no later than the backend's clock.
TypeOK ==
    /\ backendClock \in 0 .. MaxClock /\ bridgeClock \in 0 .. MaxClock
    /\ config \in Configs /\ bridgeKey \in Keys
    /\ nextUserId \in 1 .. IdLimit
    /\ start \in 1 .. MaxStarts /\ bridgeStarts \in 1 .. MaxStarts
    /\ pc \in [Signups -> {"new", "numbered", "answered", "lost"}]
    /\ userId \in [Signups -> 0 .. IdLimit]
    /\ tokens \subseteq Tokens
    /\ lists \subseteq [bridges : SUBSET BridgeIds, expires : Nat, key : Keys]
    /\ shown \subseteq [token : tokens, at : 0 .. backendClock, by : Keys, verdict : Verdicts]
    /\ lastListed \in [BridgeIds -> 0 .. backendClock]

\* The bridge needs no answer of the backend to keep a token to its time
\* (LicenseToken::verify by another clock): one it accepts was signed with the key
\* of its configuration, and by the backend's clock it had expired less than
\* MaxDrift ago.
AcceptedInTime ==
    \A s \in shown : s.verdict = "ok" =>
        /\ s.token.key = s.by
        /\ s.at < s.token.expires + MaxDrift

\* Nor does the bridge turn away a client without a cause: a token under its key is
\* accepted from MaxDrift after it was issued until MaxDrift before it expires,
\* whatever was restarted in between.
RefusedForCause ==
    \A s \in shown :
        /\ s.token.key = s.by
        /\ s.token.issued + MaxDrift <= s.at
        /\ s.at + MaxDrift < s.token.expires
        => s.verdict = "ok"

\* Concurrent sign-ups, and the counter at its limit (issue_user_id): the tokens of
\* one run of the backend carry different user ids.
UsersDistinct ==
    \A t, u \in tokens : t.run = u.run /\ t.user = u.user => t = u

\* Draining a bridge takes effect (GET /v1/bridges): a directory that has not
\* expired names only bridges that were enabled less than DirTtl ago, whatever
\* configurations came and went since it was signed.
DrainTakesEffect ==
    \A d \in lists : backendClock < d.expires =>
        \A b \in d.bridges : backendClock - lastListed[b] < DirTtl
================================================================================
