------------------------------- MODULE CostLease -------------------------------
(* The lease of one subject and one window of limits: a slice of the budget that is
   left, cut from the sum in the ledger and kept in Redis, so that a request is judged
   without the database (src/go/internal/limit/lease_service.go, lease_lua.go).  The
   processes refresh it with a single flight each; the requests are charged to it after
   their cost is in the ledger.  Terms are a limit and a reset of the costs; requests
   that read them before and after a change are under way together.  The window does
   not slide: a cost that is in the sum stays in it. *)
EXTENDS Integers

CONSTANTS
  Requests, Processes, Terms,
  FirstTerms,     \* the terms in force at first
  Limit,          \* the limit of each terms
  Portion,        \* limit * percent, or capUSD where that is less
  TTL,            \* ttlSeconds of a lease
  MaxCost,        \* bound: the cost of a request
  MaxTime,        \* bound: the clock
  Nothing

Flights == [at : Nat, read : BOOLEAN, seen : Nat, owed : Int]

ASSUME LeaseAssumption ==
  /\ FirstTerms \in Terms
  /\ Limit \in [Terms -> Nat \ {0}] /\ Portion \in [Terms -> Nat]
  /\ \A t \in Terms : Portion[t] <= Limit[t]
  /\ TTL \in Nat \ {0} /\ MaxCost \in Nat \ {0} /\ MaxTime \in Nat
  /\ Nothing \notin Nat \cup Terms \cup Flights

VARIABLES
  now,        \* the clock
  used,       \* the sum in the ledger under each terms, Nothing until it is in force
  outside,    \* the requests begun before the reset of each terms: not in its sum
  slice,      \* the lease in Redis, or Nothing
  flights,    \* per process and terms: the refresh under way, or Nothing
  request,    \* per request: where it is, and what it was judged on
  charged,    \* the settlement markers
  owing,      \* history: what is in the ledger and on its way to the lease
  stray,      \* history: what requests outside each terms cost since its reset
  spentAt     \* history: when the ledger reached the limit of each terms, or Nothing

costVars == <<used, outside, stray, spentAt>>
leaseVars == <<now, costVars, slice, flights, request, charged, owing>>

InForce == {t \in Terms : used[t] # Nothing}

\* CalculateLeaseSlice.
CutFrom(t, seen) ==
  IF seen >= Limit[t] THEN 0
  ELSE IF Limit[t] - seen < Portion[t] THEN Limit[t] - seen ELSE Portion[t]

Place(place) == [at |-> place, terms |-> FirstTerms, process |-> Nothing, cost |-> 0,
              leased |-> FALSE, since |-> 0, counted |-> 0]

LeaseInit ==
  /\ now = 0 /\ owing = 0 /\ charged = {} /\ slice = Nothing
  /\ used = [t \in Terms |-> IF t = FirstTerms THEN 0 ELSE Nothing]
  /\ flights = [p \in Processes |-> [t \in Terms |-> Nothing]]
  /\ request = [r \in Requests |-> Place("new")]
  /\ outside = [t \in Terms |-> {}] /\ stray = [t \in Terms |-> 0]
  /\ spentAt = [t \in Terms |-> Nothing]

-----------------------------------------------------------------------------
(* A request is judged *)

\* CheckCostLimitWithLease on a lease: nothing is deducted.
Judged(t, since, lease) ==
  [Place(IF lease.left > 0 THEN "admitted" ELSE "refused") EXCEPT
     !.leased = TRUE, !.terms = t, !.since = since, !.counted = lease.owed - owing]

UsableAnyTerms(t) == slice # Nothing /\ now < slice.at + TTL

\* IsLeaseExpired, and the facts the slice was cut from: limit and reset.
Usable(t) == slice # Nothing /\ now < slice.at + TTL /\ slice.terms = t

GetCostLease(r, t) ==
  /\ request[r].at = "new" /\ t \in InForce /\ Usable(t)
  /\ request' = [request EXCEPT ![r] = Judged(t, now, slice)]
  /\ UNCHANGED <<now, slice, flights, charged, owing, costVars>>

(* refreshSingleFlight, also when Redis does not answer: the request joins the refresh
   of its process for its terms, or begins it.  since is when that refresh began. *)
JoinRefresh(r, p, t) ==
  /\ request[r].at = "new" /\ t \in InForce
  /\ flights' = [flights EXCEPT ![p][t] =
       IF @ = Nothing THEN [at |-> now, read |-> FALSE, seen |-> 0, owed |-> 0] ELSE @]
  /\ request' = [request EXCEPT ![r] = [@ EXCEPT !.at = "waiting", !.terms = t, !.process = p,
                                                 !.since = flights'[p][t].at]]
  /\ UNCHANGED <<now, slice, charged, owing, costVars>>

Waiting(r, p, t) == request[r].at = "waiting" /\ request[r].process = p /\ request[r].terms = t

-----------------------------------------------------------------------------
(* refreshCostLease *)

QueryDBUsage(p, t) ==
  /\ flights[p][t] # Nothing /\ ~flights[p][t].read
  /\ flights' = [flights EXCEPT ![p][t] =
       [@ EXCEPT !.read = TRUE, !.seen = used[t], !.owed = owing]]
  /\ UNCHANGED <<now, slice, request, charged, owing, costVars>>

LeaseOfNow(t, cut) ==   \* the time of the snapshot is taken when it is written
  [terms |-> t, at |-> now, seen |-> cut.seen, owed |-> cut.owed, charges |-> 0,
   left |-> CutFrom(t, cut.seen)]

Lease(t, cut) ==
  [terms |-> t, at |-> cut.at, seen |-> cut.seen, owed |-> cut.owed, charges |-> 0,
   left |-> CutFrom(t, cut.seen)]

\* SETEX overwrites whatever is there; if it fails, the lease is used all the same.
WriteLease(p, t) ==
  /\ flights[p][t] # Nothing /\ flights[p][t].read
  /\ LET lease == Lease(t, flights[p][t]) IN
       /\ slice' \in {lease, slice}
       /\ request' = [r \in Requests |->
            IF Waiting(r, p, t) THEN Judged(t, request[r].since, lease) ELSE request[r]]
  /\ flights' = [flights EXCEPT ![p][t] = Nothing]
  /\ UNCHANGED <<now, charged, owing, costVars>>

\* Without a lease the request is judged on the ledger as it is, or let pass.
RefreshFails(p, t) ==
  /\ flights[p][t] # Nothing /\ ~flights[p][t].read
  /\ flights' = [flights EXCEPT ![p][t] = Nothing]
  /\ request' = [r \in Requests |->
       IF Waiting(r, p, t) THEN [request[r] EXCEPT !.at = "fallback"] ELSE request[r]]
  /\ UNCHANGED <<now, slice, charged, owing, costVars>>

Fallback(r) ==
  /\ request[r].at = "fallback"
  /\ \E verdict \in {"admitted"} \cup IF used[request[r].terms] >= Limit[request[r].terms]
                                      THEN {"ended"} ELSE {} :
       request' = [request EXCEPT ![r] = Place(verdict)]
  /\ UNCHANGED <<now, slice, flights, charged, owing, costVars>>

-----------------------------------------------------------------------------
(* A request is charged *)

\* The cost is committed; only a slice the request was judged on is settled.
CommitCost(r) ==
  /\ request[r].at = "admitted"
  /\ \E c \in 1..MaxCost :
       /\ used' = [t \in Terms |->
            IF t \in InForce /\ r \notin outside[t] THEN used[t] + c ELSE used[t]]
       /\ stray' = [t \in Terms |-> IF r \in outside[t] THEN stray[t] + c ELSE stray[t]]
       /\ owing' = IF request[r].leased THEN owing + c ELSE owing
       /\ request' = [request EXCEPT ![r] = IF @.leased THEN [Place("owed") EXCEPT !.cost = c]
                                                        ELSE Place("ended")]
  /\ spentAt' = [t \in Terms |->
       IF t \in InForce /\ spentAt[t] = Nothing /\ used'[t] >= Limit[t] THEN now ELSE spentAt[t]]
  /\ UNCHANGED <<now, outside, slice, flights, charged>>

Deducted(c) == [slice EXCEPT !.left = IF @ < c THEN 0 ELSE @ - c, !.charges = @ + c]

\* settleLeaseBudgetsLua: once per marker, for the settlement may be repeated.
SettleLease(r) ==
  /\ request[r].at = "owed"
  /\ IF r \in charged THEN UNCHANGED <<slice, owing>>
     ELSE /\ slice' = IF slice = Nothing THEN Nothing ELSE Deducted(request[r].cost)
          /\ owing' = owing - request[r].cost
  /\ charged' = charged \cup {r}
  /\ UNCHANGED <<now, flights, request, costVars>>

(* SettleLeases returns, and nobody will ask for the marker: it was charged, or it was
   not (fail_open), and then the ledger keeps a cost the slice does not know of. *)
SettleReturns(r) ==
  /\ request[r].at = "owed"
  /\ request' = [request EXCEPT ![r] = Place("ended")]
  /\ owing' = IF r \in charged THEN owing ELSE owing - request[r].cost
  /\ charged' = charged \ {r}
  /\ UNCHANGED <<now, slice, flights, costVars>>

-----------------------------------------------------------------------------
(* The rest *)

\* Redis drops the lease, at its time to live or before.
DropLease ==
  /\ slice # Nothing /\ slice' = Nothing
  /\ UNCHANGED <<now, flights, request, charged, owing, costVars>>

(* The limit changes, or the costs are reset: the sum then leaves out every row created
   before, whenever its cost comes.  Other requests still have the old terms. *)
NewTerms(t) ==
  /\ t \notin InForce
  /\ \E reset \in BOOLEAN :
       /\ used' = [used EXCEPT ![t] = IF reset THEN 0 ELSE used[FirstTerms]]
       /\ outside' = [outside EXCEPT ![t] =
            IF reset THEN {r \in Requests : request[r].at # "new"} ELSE {}]
  /\ spentAt' = [spentAt EXCEPT ![t] = IF used'[t] >= Limit[t] THEN now ELSE Nothing]
  /\ UNCHANGED <<now, slice, flights, request, charged, owing, stray>>

Tick ==
  /\ now < MaxTime /\ now' = now + 1
  /\ UNCHANGED <<slice, flights, request, charged, owing, costVars>>

LeaseNext ==
  \/ \E r \in Requests :
       \/ \E t \in Terms : GetCostLease(r, t) \/ \E p \in Processes : JoinRefresh(r, p, t)
       \/ Fallback(r) \/ CommitCost(r) \/ SettleLease(r) \/ SettleReturns(r)
  \/ \E p \in Processes, t \in Terms :
       QueryDBUsage(p, t) \/ WriteLease(p, t) \/ RefreshFails(p, t)
  \/ \E t \in Terms : NewTerms(t)
  \/ DropLease \/ Tick

LeaseSpec == LeaseInit /\ [][LeaseNext]_leaseVars

-----------------------------------------------------------------------------
(* Properties *)

Leases == [terms : Terms, at : Nat, seen : Nat, owed : Int, charges : Nat, left : Nat]
LeaseTypeOK ==
  /\ now \in Nat /\ owing \in Int /\ charged \subseteq Requests
  /\ used \in [Terms -> Nat \cup {Nothing}] /\ spentAt \in [Terms -> Nat \cup {Nothing}]
  /\ outside \in [Terms -> SUBSET Requests] /\ stray \in [Terms -> Nat]
  /\ slice \in Leases \cup {Nothing}
  /\ flights \in [Processes -> [Terms -> Flights \cup {Nothing}]]
  /\ request \in [Requests ->
       [at : {"new", "waiting", "fallback", "admitted", "refused", "owed", "ended"},
        terms : Terms, process : Processes \cup {Nothing}, cost : Nat, leased : BOOLEAN,
        since : Nat, counted : Int]]

\* A limit that has been spent for the life of a lease is felt by every process: no
\* slice, however late it was written or however many settlements missed it, admits a
\* request that asks later, unless it joins a refresh that began earlier.
SpentIsRefused ==
  \A r \in Requests :
    request[r].at = "admitted" /\ request[r].leased =>
      LET t == request[r].terms IN spentAt[t] = Nothing \/ request[r].since < spentAt[t] + TTL

\* A request is refused on a slice only for at least a portion of spending that reached
\* the lease: under its own terms, or by requests begun before the reset.  What was on
\* its way when the slice was cut counts a second time (the ledger it was cut from had
\* it), what still is does not.  Nothing counts more often, whatever is repeated and
\* whichever terms wrote the lease last.
RefusalIsEarned ==
  \A r \in Requests :
    request[r].at = "refused" =>
      LET t == request[r].terms IN used[t] + request[r].counted + stray[t] >= Portion[t]

\* What is left of a slice never exceeds the limit less the ledger it was cut from,
\* less what it was charged: a cost that did not fit is not forgotten.
SliceNeverWider ==
  slice # Nothing =>
    \/ slice.left = 0
    \/ slice.left <= Limit[slice.terms] - slice.seen - slice.charges
=============================================================================
