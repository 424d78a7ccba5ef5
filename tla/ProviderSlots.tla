---------------------------- MODULE ProviderSlots ----------------------------
(* The places of a provider (internal/limit/sessions.go, dataplane/provider_concurrency.go
   and the scripts check-and-track-session and release-provider-session): a sorted set of
   the attempts in flight, each with the time it was admitted, and a hash that says who may
   still give a place back.  A script is one step.  Nobody renews a place: one that is
   older than the TTL is swept out by the next attempt that comes to this provider. *)
EXTENDS Integers, FiniteSets, Functions

CONSTANTS
  Vendors,     \* providers
  Callers,     \* requests; one is a session of its own
  SlotLimit,   \* LimitConcurrentSessions by provider, 0 is no limit
  Tracking,    \* attempts are counted for display even where there is no limit
  SlotTTL,     \* in ticks of the clock
  LastSlotTick \* bound on the clock

ASSUME SlotAssumption ==
  /\ SlotLimit \in [Vendors -> Nat] /\ Tracking \in BOOLEAN
  /\ SlotTTL \in Nat \ {0} /\ LastSlotTick \in Nat

VARIABLES
  places,      \* provider:{id}:active_sessions, member -> score
  refs,        \* provider:{id}:active_session_refs
  slotTime

slotVars == <<places, refs, slotTime>>

\* A member is the session and a token that nobody else has.
NewMember(v, c) ==
  <<c, CHOOSE n \in 0 .. Cardinality(DOMAIN places[v]) : <<c, n>> \notin DOMAIN places[v]>>

SlotInit ==
  /\ places = [v \in Vendors |-> <<>>] /\ refs = [v \in Vendors |-> {}]
  /\ slotTime = 0

Lapsed(v) == {m \in DOMAIN places[v] : places[v][m] <= slotTime - SlotTTL}
Swept(v) == Restrict(places[v], DOMAIN places[v] \ Lapsed(v))

Watched(v) == SlotLimit[v] > 0 \/ Tracking   \* else Redis is not asked
Full(v) == SlotLimit[v] > 0 /\ Cardinality(DOMAIN Swept(v)) >= SlotLimit[v]

\* The script: sweep, count, and take a place unless there is none.
CheckAndTrack(v, m) ==
  /\ places' = [places EXCEPT ![v] = IF Full(v) THEN Swept(v)
                                     ELSE [x \in DOMAIN Swept(v) \union {m} |->
                                             IF x = m THEN slotTime ELSE places[v][x]]]
  /\ refs' = [refs EXCEPT ![v] = (@ \ Lapsed(v)) \union (IF Full(v) THEN {} ELSE {m})]

\* The other script: only who has a reference gives a place back, and only once.
ReleasePlace(v, m) ==
  IF m \in refs[v]
  THEN /\ refs' = [refs EXCEPT ![v] = @ \ {m}]
       /\ places' = [places EXCEPT ![v] = Restrict(@, DOMAIN @ \ {m})]
  ELSE UNCHANGED <<places, refs>>

\* An administrator ends a session at this provider: its members are listed, and taken out
\* in a second call, which does not know of those that came in between.
ClearProviderIndex(v, listed) ==
  /\ listed # {}
  /\ places' = [places EXCEPT ![v] = Restrict(@, DOMAIN @ \ listed)]
  /\ refs' = [refs EXCEPT ![v] = @ \ listed]
  /\ UNCHANGED slotTime

SlotTick ==
  /\ slotTime < LastSlotTick
  /\ slotTime' = slotTime + 1
  /\ UNCHANGED <<places, refs>>
===============================================================================
