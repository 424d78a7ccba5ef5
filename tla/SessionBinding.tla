--------------------------- MODULE SessionBinding ---------------------------
(* The provider a session is bound to (internal/session/binding.go and the scripts
   of internal/ratelimit/lua): a hash per session and API key, fenced by a
   generation, and two mirrors of the session alone that say which key owns it and
   where it is bound. A script runs in one step. Requests read the binding before
   routing and write it back when their row is final, through the queue of terminal
   writes; administrators end sessions, all of them or those bound to a provider.
   A generation is a number nobody remembers. Cooldown keys, the touch and
   the indexes of active sessions are left out; nothing is evicted. *)
EXTENDS Naturals, FiniteSets

CONSTANTS
    Turns,                      \* the requests of the session
    Admins,                     \* who ends it
    ApiKeys, Destinations,      \* keys that send the same session id; providers
    KeyOf,                      \* the key of a request
    NoOne,
    BindingTTL, TerminationTTL, \* the two TTLs the scripts are given, in ticks
    MaxBindingTime              \* bound on the clock

ASSUME BindingAssumption ==
  /\ KeyOf \in [Turns -> ApiKeys] /\ IsFiniteSet(Turns) /\ IsFiniteSet(ApiKeys)
  /\ NoOne \notin ApiKeys \cup Destinations
  /\ {BindingTTL, TerminationTTL} \subseteq Nat \ {0} /\ MaxBindingTime \in Nat

VARIABLES
    bindingClock,
    canonical,      \* the hash of each key: generation, provider, when it expires
    owner,          \* mirror session:{id}:key: the key and when it expires
    provider,       \* mirror session:{id}:provider
    turn,           \* the requests: where each is, and the facts it read
    admin,          \* the terminations: where each is, its scope, what it read
    overtaken       \* history: requests whose binding was changed or lost since they read it

bindingVars == <<bindingClock, canonical, owner, provider, turn, admin, overtaken>>

Missing == [gen |-> 0, to |-> NoOne, end |-> 0]
NoMirror == [is |-> NoOne, end |-> 0]
Facts(k) == [gen |-> canonical[k].gen, to |-> canonical[k].to]

\* What every script asks of the hash and its mirrors before it trusts them.
Consistent(k) ==
  /\ canonical[k] # Missing
  /\ owner.is = k /\ provider.is = canonical[k].to

Remembered == {canonical[k].gen : k \in ApiKeys} \cup {turn[r].gen : r \in Turns}
Fresh == CHOOSE g \in 1..(Cardinality(ApiKeys) + Cardinality(Turns) + 1) : g \notin Remembered

\* The three keys are written together and live equally long.
StoreBinding(k, gen, to, ttl) ==
  LET end == bindingClock + ttl
  IN /\ canonical' = [canonical EXCEPT ![k] = [gen |-> gen, to |-> to, end |-> end]]
     /\ owner' = [is |-> k, end |-> end]
     /\ provider' = IF to = NoOne THEN NoMirror ELSE [is |-> to, end |-> end]

Reading(k) == {r \in Turns : turn[r].at = "serving" /\ KeyOf[r] = k}
Rebind(k, to, ttl) == StoreBinding(k, Fresh, to, ttl) /\ overtaken' = overtaken \cup Reading(k)
NoChange == UNCHANGED <<canonical, owner, provider, overtaken>>

BindingInit ==
  /\ bindingClock = 0 /\ canonical = [k \in ApiKeys |-> Missing]
  /\ owner = NoMirror /\ provider = NoMirror /\ overtaken = {}
  /\ turn = [r \in Turns |-> [at |-> "new", gen |-> 0, to |-> NoOne]]
  /\ admin \in [Admins -> [at : {"new"}, scope : SUBSET Destinations, key : {NoOne}, to : {NoOne}]]

-----------------------------------------------------------------------------
\* read-or-reconcile: keep the binding alive, or make one of what the mirrors say.
Reconciles(k) ==
  \/ Consistent(k)
  \/ /\ canonical[k] = Missing /\ owner.is \in {NoOne, k}
     /\ provider.is # NoOne => owner.is = k

ReadOrReconcile(k, ttl) ==
  /\ IF canonical[k] # Missing THEN StoreBinding(k, canonical[k].gen, canonical[k].to, ttl)
                               ELSE StoreBinding(k, Fresh, provider.is, ttl)
  /\ UNCHANGED overtaken

\* readBindingFacts; on a conflict the request goes on without a binding.
ReadBindingFacts(r) ==
  LET k == KeyOf[r]
  IN /\ turn[r].at = "new"
     /\ IF Reconciles(k)
        THEN /\ ReadOrReconcile(k, BindingTTL)
             /\ turn' = [turn EXCEPT ![r] = [at |-> "serving", gen |-> canonical'[k].gen,
                                                   to |-> canonical'[k].to]]
        ELSE /\ turn' = [turn EXCEPT ![r].at = "ended"]
             /\ NoChange
     /\ UNCHANGED <<bindingClock, admin>>

Ended(r) ==
  /\ turn' = [turn EXCEPT ![r] = [at |-> "ended", gen |-> 0, to |-> NoOne]]
  /\ UNCHANGED <<bindingClock, admin>>

CompareAndSetUnfenced(r, p) ==      \* whatever the generation
  /\ turn[r].at = "serving" /\ Ended(r)
  /\ IF Consistent(KeyOf[r]) THEN Rebind(KeyOf[r], p, BindingTTL) ELSE NoChange

\* The row is final and p served it.
CompareAndSet(r, p) ==
  /\ turn[r].at = "serving" /\ Ended(r)
  /\ IF Consistent(KeyOf[r]) /\ canonical[KeyOf[r]].gen = turn[r].gen
     THEN Rebind(KeyOf[r], p, BindingTTL) ELSE NoChange

\* p does not know the model: the binding goes if it is to p. Also an end without either.
ClearBinding(r, p) ==
  /\ turn[r].at = "serving" /\ Ended(r)
  /\ IF /\ Consistent(KeyOf[r]) /\ canonical[KeyOf[r]].gen = turn[r].gen
        /\ canonical[KeyOf[r]].to = p
     THEN Rebind(KeyOf[r], NoOne, BindingTTL) ELSE NoChange

-----------------------------------------------------------------------------
\* TerminateSession: the owner of the session; then its binding; then the fenced end.
LookupOwner(a) ==
  /\ admin[a].at = "new"
  /\ admin' = [admin EXCEPT ![a].at = IF owner.is = NoOne THEN "ended" ELSE "found",
                            ![a].key = owner.is]
  /\ UNCHANGED <<bindingClock, turn>> /\ NoChange

InspectBinding(a) ==
  LET k == admin[a].key
  IN /\ admin[a].at = "found"
     /\ IF Reconciles(k)
        THEN /\ ReadOrReconcile(k, TerminationTTL)
             /\ admin' = [admin EXCEPT
                  ![a].at = IF admin[a].scope = {} \/ canonical'[k].to \in admin[a].scope
                            THEN "ending" ELSE "ended",
                  ![a].to = canonical'[k].to]
        ELSE admin' = [admin EXCEPT ![a].at = "ended"] /\ NoChange
     /\ UNCHANGED <<bindingClock, turn>>

\* The script: with a scope, the provider must still be the one that was read.
Terminate(a) ==
  LET k == admin[a].key
  IN /\ admin[a].at = "ending"
     /\ admin' = [admin EXCEPT ![a].at = "ended"]
     /\ IF Consistent(k) /\ (admin[a].scope = {} \/ canonical[k].to = admin[a].to)
        THEN Rebind(k, NoOne, TerminationTTL) ELSE NoChange
     /\ UNCHANGED <<bindingClock, turn>>

\* Time passes; keys whose life has ended are gone.
BindingTick ==
  /\ bindingClock < MaxBindingTime
  /\ bindingClock' = bindingClock + 1
  /\ LET Live(key) == key.end > bindingClock'
     IN /\ canonical' = [k \in ApiKeys |-> IF Live(canonical[k]) THEN canonical[k] ELSE Missing]
        /\ owner' = IF Live(owner) THEN owner ELSE NoMirror
        /\ provider' = IF Live(provider) THEN provider ELSE NoMirror
        /\ overtaken' = overtaken \cup
             UNION {Reading(k) : k \in {q \in ApiKeys : ~Live(canonical[q])}}
  /\ UNCHANGED <<turn, admin>>

BindingNext ==
  \/ \E r \in Turns :
       \/ ReadBindingFacts(r)
       \/ \E p \in Destinations : CompareAndSet(r, p) \/ ClearBinding(r, p)
  \/ \E a \in Admins : LookupOwner(a) \/ InspectBinding(a) \/ Terminate(a)
  \/ BindingTick

BindingSpec == BindingInit /\ [][BindingNext]_bindingVars

-----------------------------------------------------------------------------
\* The hash of a session exists exactly for the key its mirror names, and the mirrors
\* say what it says: whatever the scripts of requests, of terminations and of a second
\* key with the same session id do, and whenever the keys expire, a request of the
\* owner never meets mirror_missing, mirror_conflict or an orphan.
MirrorsAgree ==
  /\ \A k \in ApiKeys : canonical[k] # Missing <=> owner.is = k
  /\ owner.is # NoOne => Consistent(owner.is)

\* Nobody acts on what he read too long ago: a request whose binding was rebound,
\* cleared, ended or lost since it read it leaves every key as it is, so a session that
\* was ended is not bound again by a request from before; and an end of the sessions of
\* some providers never ends one that has meanwhile moved to another.
StaleFactsStayOut ==
  [][/\ \A r \in overtaken : turn[r].at = "serving" /\ turn'[r].at = "ended" => NoChange
     /\ \A a \in Admins :
          admin[a].at = "ending" /\ admin'[a].at = "ended" /\ admin[a].scope # {} =>
            NoChange \/ canonical[admin[a].key].to \in admin[a].scope]_bindingVars

\* What the scripts promise of the three keys and of those who use them.
BindingHolds == []MirrorsAgree /\ StaleFactsStayOut

=============================================================================
