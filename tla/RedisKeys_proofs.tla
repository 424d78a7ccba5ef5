-------------------------- MODULE RedisKeys_proofs --------------------------
(* What is kept in Redis under keys that age: the lease of a budget, the job of a user
   reset and the binding of a session, for any processes, requests, rows and terms, with no
   bound on the clock. *)
EXTENDS CostLease, UserReset, SessionBinding, FiniteSetTheorems, TLAPS

-----------------------------------------------------------------------------
(* CostLease: what a slice is cut from, whom it admits and whom it refuses. *)

(* The inductive invariant.  What is judged on a slice was cut from a sum read earlier,
   so the invariant follows a cut from the query on: through the flight, the slice in
   Redis and the verdicts founded on it. *)

\* A cut holds no more than the ledger, and was made before the limit was spent
\* unless the ledger it read had it spent.
CutOK(t, cut) ==
  /\ t \in InForce /\ cut.seen <= used[t] /\ cut.at <= now
  /\ spentAt[t] # Nothing /\ cut.seen < Limit[t] => cut.at <= spentAt[t]

LeftOver(portion, charges) == IF portion > charges THEN portion - charges ELSE 0

\* What a slice was charged was on its way at the cut or reached the ledger after it,
\* and is no longer on its way.
SliceOK ==
  slice # Nothing =>
    LET t == slice.terms IN
    /\ CutOK(t, slice)
    /\ slice.left = LeftOver(CutFrom(t, slice.seen), slice.charges)
    /\ slice.charges + owing <= slice.owed + (used[t] - slice.seen) + stray[t]

FlightOK ==
  \A p \in Processes, t \in Terms :
    flights[p][t] # Nothing =>
      /\ t \in InForce /\ flights[p][t].at <= now
      /\ flights[p][t].read =>
           /\ CutOK(t, flights[p][t])
           /\ owing <= flights[p][t].owed + (used[t] - flights[p][t].seen) + stray[t]

RequestOK ==
  \A r \in Requests :
    /\ request[r].at = "waiting" =>
         /\ request[r].process \in Processes
         /\ flights[request[r].process][request[r].terms] # Nothing
         /\ request[r].since = flights[request[r].process][request[r].terms].at
    /\ request[r].leased =>
         /\ request[r].at \in {"admitted", "refused"}
         /\ request[r].terms \in InForce /\ request[r].since <= now
    /\ request[r].at = "refused" => request[r].leased
    /\ request[r].at = "owed" => request[r].cost > 0

\* spentAt tells when the ledger reached the limit.
SpentOK ==
  \A t \in InForce : spentAt[t] # Nothing <=> used[t] >= Limit[t]

LeaseInv ==
  /\ LeaseTypeOK /\ SliceOK /\ FlightOK /\ RequestOK /\ SpentOK
  /\ SpentIsRefused /\ RefusalIsEarned

-----------------------------------------------------------------------------
(* Facts about slices *)

LEMMA NothingElse ==
  /\ \A n \in Nat : n # Nothing
  /\ \A t \in Terms : t # Nothing
  /\ \A f \in Flights : f # Nothing
  BY LeaseAssumption

LEMMA ConstantsNat ==
  ASSUME NEW t \in Terms
  PROVE  Limit[t] \in Nat /\ Limit[t] > 0 /\ Portion[t] \in Nat /\ Portion[t] <= Limit[t]
  BY LeaseAssumption

\* A slice is nothing when the limit is spent, and never more than a portion of it or
\* than what the limit leaves.
LEMMA CutBounds ==
  ASSUME NEW t \in Terms, NEW seen \in Nat
  PROVE  /\ CutFrom(t, seen) \in Nat
         /\ CutFrom(t, seen) > 0 => seen < Limit[t] /\ CutFrom(t, seen) <= Limit[t] - seen
         /\ CutFrom(t, seen) >= Portion[t] \/ CutFrom(t, seen) + seen >= Limit[t]
  BY ConstantsNat DEF CutFrom

\* What is left of a slice after another charge.
LEMMA RestAfter ==
  ASSUME NEW portion \in Nat, NEW charges \in Nat, NEW c \in Nat, c > 0
  PROVE  LeftOver(portion, charges + c)
           = IF LeftOver(portion, charges) < c THEN 0 ELSE LeftOver(portion, charges) - c
  BY DEF LeftOver

LEMMA InForceNat ==
  ASSUME LeaseTypeOK, NEW t \in InForce
  PROVE  t \in Terms /\ used[t] \in Nat
  BY DEF LeaseTypeOK, InForce

LEMMA PlaceType ==
  ASSUME NEW at
  PROVE  /\ Place(at).at = at /\ Place(at).terms = FirstTerms /\ Place(at).process = Nothing
         /\ Place(at).cost = 0 /\ Place(at).leased = FALSE /\ Place(at).since = 0
         /\ Place(at).counted = 0
  BY DEF Place

States == {"new", "waiting", "fallback", "admitted", "refused", "owed", "ended"}
RequestType ==
  [at : States, terms : Terms, process : Processes \cup {Nothing}, cost : Nat, leased : BOOLEAN,
   since : Nat, counted : Int]

LEMMA PlaceIsRequest == ASSUME NEW at \in States PROVE Place(at) \in RequestType
  BY LeaseAssumption DEF Place, RequestType

LEMMA LeaseIsLease ==
  ASSUME NEW t \in Terms, NEW cut \in Flights
  PROVE  Lease(t, cut) \in Leases
  BY CutBounds DEF Lease, Leases, Flights

LEMMA JudgedIsRequest ==
  ASSUME LeaseTypeOK, NEW t \in Terms, NEW since \in Nat, NEW lease \in Leases
  PROVE  Judged(t, since, lease) \in RequestType
  <1>1. lease.owed - owing \in Int
    BY DEF LeaseTypeOK, Leases
  <1>2. Place("admitted") \in RequestType /\ Place("refused") \in RequestType
    BY PlaceIsRequest DEF States
  <1> QED
    BY <1>1, <1>2 DEF Judged, RequestType

-----------------------------------------------------------------------------
(* Type correctness *)

LEMMA InitType == LeaseInit => LeaseTypeOK
  <1> SUFFICES ASSUME LeaseInit PROVE LeaseTypeOK
    OBVIOUS
  <1> USE LeaseAssumption DEF LeaseInit
  <1>1. request \in [Requests -> RequestType]
    BY PlaceIsRequest DEF States
  <1>2. /\ now \in Nat /\ owing \in Int /\ charged \subseteq Requests
        /\ slice \in Leases \cup {Nothing}
    OBVIOUS
  <1>3. used \in [Terms -> Nat \cup {Nothing}] /\ spentAt \in [Terms -> Nat \cup {Nothing}]
    OBVIOUS
  <1>4. outside \in [Terms -> SUBSET Requests] /\ stray \in [Terms -> Nat]
    OBVIOUS
  <1>5. flights \in [Processes -> [Terms -> Flights \cup {Nothing}]]
    OBVIOUS
  <1> QED
    BY <1>1, <1>2, <1>3, <1>4, <1>5 DEF LeaseTypeOK, RequestType, States

\* A refresh is for terms in force, so there is a sum for it to read.
FlightsInForce == \A p \in Processes, t \in Terms : flights[p][t] # Nothing => t \in InForce

LEMMA StepType == LeaseTypeOK /\ FlightsInForce /\ [LeaseNext]_leaseVars => LeaseTypeOK'
  <1> SUFFICES ASSUME LeaseTypeOK, FlightsInForce, [LeaseNext]_leaseVars PROVE LeaseTypeOK'
    OBVIOUS
  <1> USE LeaseAssumption
  <1>typed. request \in [Requests -> RequestType]
    BY DEF LeaseTypeOK, RequestType, States
  <1>1. ASSUME NEW r \in Requests, NEW t \in Terms, GetCostLease(r, t) PROVE LeaseTypeOK'
    <2>1. now \in Nat /\ slice \in Leases
      BY <1>1 DEF GetCostLease, Usable, LeaseTypeOK
    <2>2. request' \in [Requests -> RequestType]
      BY <1>1, <1>typed, <2>1, JudgedIsRequest DEF GetCostLease
    <2> QED
      BY <1>1, <2>2 DEF GetCostLease, LeaseTypeOK, costVars, RequestType, States
  <1>2. ASSUME NEW r \in Requests, NEW p \in Processes, NEW t \in Terms, JoinRefresh(r, p, t)
        PROVE  LeaseTypeOK'
    <2>1. [at |-> now, read |-> FALSE, seen |-> 0, owed |-> 0] \in Flights
      BY DEF Flights, LeaseTypeOK
    <2>2. flights' \in [Processes -> [Terms -> Flights \cup {Nothing}]]
      BY <1>2, <2>1 DEF JoinRefresh, LeaseTypeOK
    <2>3. flights'[p][t] \in Flights
      BY <1>2, <2>1 DEF JoinRefresh, LeaseTypeOK
    <2>4. flights'[p][t].at \in Nat
      BY <2>3 DEF Flights
    <2> DEFINE joined == [request[r] EXCEPT !.at = "waiting", !.terms = t, !.process = p,
                                            !.since = flights'[p][t].at]
    <2>5. joined \in RequestType
      BY <1>typed, <2>4 DEF RequestType, States
    <2>6. request' = [request EXCEPT ![r] = joined]
      BY <1>2 DEF JoinRefresh
    <2> HIDE DEF joined
    <2>7. request' \in [Requests -> RequestType]
      BY <1>typed, <2>5, <2>6
    <2> QED
      BY <1>2, <2>2, <2>7 DEF JoinRefresh, LeaseTypeOK, costVars, RequestType, States
  <1>3. ASSUME NEW p \in Processes, NEW t \in Terms, QueryDBUsage(p, t) PROVE LeaseTypeOK'
    <2>1. flights[p][t] \in Flights
      BY <1>3 DEF QueryDBUsage, LeaseTypeOK
    <2>2. used[t] \in Nat
      BY <1>3, InForceNat DEF QueryDBUsage, FlightsInForce
    <2>3. [flights[p][t] EXCEPT !.read = TRUE, !.seen = used[t], !.owed = owing] \in Flights
      BY <2>1, <2>2 DEF Flights, LeaseTypeOK
    <2>4. flights' \in [Processes -> [Terms -> Flights \cup {Nothing}]]
      BY <1>3, <2>3 DEF QueryDBUsage, LeaseTypeOK
    <2> QED
      BY <1>3, <2>4 DEF QueryDBUsage, LeaseTypeOK, costVars
  <1>4. ASSUME NEW p \in Processes, NEW t \in Terms, WriteLease(p, t) PROVE LeaseTypeOK'
    <2>1. flights[p][t] \in Flights
      BY <1>4 DEF WriteLease, LeaseTypeOK
    <2> DEFINE lease == Lease(t, flights[p][t])
    <2>2. lease \in Leases
      BY <2>1, LeaseIsLease
    <2> HIDE DEF lease
    <2>3. \A r \in Requests : Judged(t, request[r].since, lease) \in RequestType
      BY <2>2, <1>typed, JudgedIsRequest DEF RequestType
    <2>4. request' \in [Requests -> RequestType]
      BY <1>4, <1>typed, <2>3 DEF WriteLease, lease
    <2>5. slice' \in Leases \cup {Nothing}
      BY <1>4, <2>2 DEF WriteLease, lease, LeaseTypeOK
    <2>6. flights' \in [Processes -> [Terms -> Flights \cup {Nothing}]]
      BY <1>4 DEF WriteLease, LeaseTypeOK
    <2> QED
      BY <1>4, <2>4, <2>5, <2>6 DEF WriteLease, LeaseTypeOK, costVars, RequestType, States
  <1>5. ASSUME NEW p \in Processes, NEW t \in Terms, RefreshFails(p, t) PROVE LeaseTypeOK'
    <2>1. request' \in [Requests -> RequestType]
      BY <1>5, <1>typed DEF RefreshFails, RequestType, States
    <2>2. flights' \in [Processes -> [Terms -> Flights \cup {Nothing}]]
      BY <1>5 DEF RefreshFails, LeaseTypeOK
    <2> QED
      BY <1>5, <2>1, <2>2 DEF RefreshFails, LeaseTypeOK, costVars, RequestType, States
  <1>6. ASSUME NEW r \in Requests, Fallback(r) PROVE LeaseTypeOK'
    <2>1. request' \in [Requests -> RequestType]
      BY <1>6, <1>typed, PlaceIsRequest DEF Fallback, States
    <2> QED
      BY <1>6, <2>1 DEF Fallback, LeaseTypeOK, costVars, RequestType, States
  <1>7. ASSUME NEW r \in Requests, CommitCost(r) PROVE LeaseTypeOK'
    <2>1. PICK c \in 1..MaxCost :
            /\ used' = [t \in Terms |->
                 IF t \in InForce /\ r \notin outside[t] THEN used[t] + c ELSE used[t]]
            /\ stray' = [t \in Terms |-> IF r \in outside[t] THEN stray[t] + c ELSE stray[t]]
            /\ owing' = IF request[r].leased THEN owing + c ELSE owing
            /\ request' = [request EXCEPT ![r] = IF @.leased THEN [Place("owed") EXCEPT !.cost = c]
                                                             ELSE Place("ended")]
      BY <1>7 DEF CommitCost
    <2>2. c \in Nat
      OBVIOUS
    <2>3. \A t \in InForce : used[t] \in Nat
      BY InForceNat
    <2>4. used' \in [Terms -> Nat \cup {Nothing}]
      BY <2>1, <2>2, <2>3 DEF LeaseTypeOK
    <2>5. stray' \in [Terms -> Nat] /\ owing' \in Int
      BY <2>1, <2>2 DEF LeaseTypeOK
    <2>6. Place("owed") \in RequestType /\ Place("ended") \in RequestType
      BY PlaceIsRequest DEF States
    <2>7. [Place("owed") EXCEPT !.cost = c] \in RequestType
      BY <2>2, <2>6 DEF RequestType
    <2>8. request' \in [Requests -> RequestType]
      BY <1>typed, <2>1, <2>6, <2>7
    <2>9. spentAt' \in [Terms -> Nat \cup {Nothing}]
      BY <1>7 DEF CommitCost, LeaseTypeOK
    <2> QED
      BY <1>7, <2>4, <2>5, <2>8, <2>9 DEF CommitCost, LeaseTypeOK, RequestType, States
  <1>8. ASSUME NEW r \in Requests, SettleLease(r) PROVE LeaseTypeOK'
    <2>1. request[r].cost \in Nat
      BY <1>typed DEF RequestType
    <2>2. ASSUME slice # Nothing PROVE Deducted(request[r].cost) \in Leases
      <3>1. slice \in Leases
        BY <2>2 DEF LeaseTypeOK
      <3>2. slice.left \in Nat /\ slice.charges + request[r].cost \in Nat
        BY <2>1, <3>1 DEF Leases
      <3>3. (IF slice.left < request[r].cost THEN 0 ELSE slice.left - request[r].cost) \in Nat
        BY <2>1, <3>2
      <3> QED
        BY <3>1, <3>2, <3>3 DEF Deducted, Leases
    <2>3. slice' \in Leases \cup {Nothing} /\ owing' \in Int
      BY <1>8, <2>1, <2>2 DEF SettleLease, LeaseTypeOK
    <2>4. charged' \subseteq Requests
      BY <1>8 DEF SettleLease, LeaseTypeOK
    <2> QED
      BY <1>8, <2>3, <2>4 DEF SettleLease, LeaseTypeOK, costVars
  <1>9. ASSUME NEW r \in Requests, SettleReturns(r) PROVE LeaseTypeOK'
    <2>1. request' \in [Requests -> RequestType]
      BY <1>9, <1>typed, PlaceIsRequest DEF SettleReturns, States
    <2>2. owing' \in Int
      BY <1>9, <1>typed DEF SettleReturns, LeaseTypeOK, RequestType
    <2>3. charged' \subseteq Requests
      BY <1>9 DEF SettleReturns, LeaseTypeOK
    <2> QED
      BY <1>9, <2>1, <2>2, <2>3 DEF SettleReturns, LeaseTypeOK, costVars, RequestType, States
  <1>10. ASSUME DropLease PROVE LeaseTypeOK'
    BY <1>10 DEF DropLease, LeaseTypeOK, costVars
  <1>11. ASSUME NEW t \in Terms, NewTerms(t) PROVE LeaseTypeOK'
    <2>1. used' \in [Terms -> Nat \cup {Nothing}]
      BY <1>11 DEF NewTerms, LeaseTypeOK
    <2>2. outside' \in [Terms -> SUBSET Requests]
      BY <1>11 DEF NewTerms, LeaseTypeOK
    <2>3. spentAt' \in [Terms -> Nat \cup {Nothing}]
      BY <1>11 DEF NewTerms, LeaseTypeOK
    <2> QED
      BY <1>11, <2>1, <2>2, <2>3 DEF NewTerms, LeaseTypeOK
  <1>12. ASSUME Tick PROVE LeaseTypeOK'
    BY <1>12 DEF Tick, LeaseTypeOK, costVars
  <1>13. ASSUME UNCHANGED leaseVars PROVE LeaseTypeOK'
    BY <1>13 DEF leaseVars, costVars, LeaseTypeOK
  <1> QED
    BY <1>1, <1>2, <1>3, <1>4, <1>5, <1>6, <1>7, <1>8, <1>9, <1>10, <1>11, <1>12, <1>13
    DEF LeaseNext

-----------------------------------------------------------------------------
(* How the ledger moves *)

\* Sums and clock only grow, what is on its way never grows by more than the ledger, and
\* a limit that is spent was spent when it is noted.
Grows ==
  /\ now <= now'
  /\ \A t \in InForce :
       /\ used'[t] # Nothing /\ used[t] <= used'[t] /\ stray[t] <= stray'[t]
       /\ owing' - owing <= (used'[t] - used[t]) + (stray'[t] - stray[t])
       /\ spentAt'[t] = spentAt[t] \/ (spentAt[t] = Nothing /\ spentAt'[t] = now)

LEMMA InvForce == LeaseInv => FlightsInForce
  BY DEF LeaseInv, FlightOK, FlightsInForce

LEMMA NothingSpent ==
  ASSUME LeaseTypeOK, LeaseTypeOK', UNCHANGED <<now, costVars>>, owing' <= owing
  PROVE  Grows
  <1>1. \A t \in InForce : used[t] \in Nat /\ stray[t] \in Nat
    BY InForceNat DEF LeaseTypeOK, InForce
  <1>2. now \in Nat /\ owing \in Int /\ owing' \in Int
    BY DEF LeaseTypeOK
  <1>3. now' = now /\ used' = used /\ stray' = stray /\ spentAt' = spentAt
    BY DEF costVars
  <1>4. owing' - owing <= 0
    <2>1. \A a, b \in Int : a <= b => a - b <= 0
      OBVIOUS
    <2> QED
      BY <1>2, <2>1
  <1>5. ASSUME NEW t \in InForce
        PROVE  owing' - owing <= (used'[t] - used[t]) + (stray'[t] - stray[t])
    <2>1. used'[t] = used[t] /\ stray'[t] = stray[t]
      BY <1>3
    <2>2. used'[t] - used[t] = 0 /\ stray'[t] - stray[t] = 0
      BY <1>1, <2>1
    <2> QED
      BY <1>4, <2>2
  <1> QED
    BY <1>1, <1>2, <1>3, <1>5 DEF Grows, InForce

LEMMA SpentStays == ASSUME SpentOK, UNCHANGED costVars PROVE SpentOK'
  BY DEF SpentOK, InForce, costVars

LEMMA CommitGrows ==
  ASSUME LeaseInv, LeaseTypeOK', NEW r \in Requests, CommitCost(r)
  PROVE  Grows /\ SpentOK' /\ InForce' = InForce
  <1> USE DEF LeaseInv
  <1>1. PICK c \in 1..MaxCost :
          /\ used' = [t \in Terms |->
               IF t \in InForce /\ r \notin outside[t] THEN used[t] + c ELSE used[t]]
          /\ stray' = [t \in Terms |-> IF r \in outside[t] THEN stray[t] + c ELSE stray[t]]
          /\ owing' = IF request[r].leased THEN owing + c ELSE owing
    BY DEF CommitCost
  <1>2. c \in Nat /\ c > 0 /\ now \in Nat /\ now' = now /\ owing \in Int
    BY DEF CommitCost, LeaseTypeOK
  <1>3. \A t \in InForce : t \in Terms /\ used[t] \in Nat /\ stray[t] \in Nat
    BY InForceNat DEF LeaseTypeOK
  <1>4. \A t \in InForce : used'[t] \in Nat
    BY <1>1, <1>2, <1>3
  <1>5. InForce' = InForce
    <2>1. \A t \in Terms : t \notin InForce => used'[t] = used[t]
      BY <1>1
    <2> QED
      BY <1>4, <2>1, NothingElse DEF InForce
  <1>6. \A t \in InForce :
          /\ used[t] <= used'[t] /\ stray[t] <= stray'[t]
          /\ owing' - owing <= (used'[t] - used[t]) + (stray'[t] - stray[t])
    BY <1>1, <1>2, <1>3
  <1>7. \A t \in InForce :
          spentAt'[t] = IF spentAt[t] = Nothing /\ used'[t] >= Limit[t] THEN now ELSE spentAt[t]
    BY <1>3 DEF CommitCost
  <1>8. Grows
    BY <1>2, <1>4, <1>6, <1>7, NothingElse DEF Grows
  <1>9. SpentOK'
    <2> SUFFICES ASSUME NEW t \in InForce PROVE spentAt'[t] # Nothing <=> used'[t] >= Limit[t]
      BY <1>5 DEF SpentOK
    <2>1. spentAt[t] # Nothing <=> used[t] >= Limit[t]
      BY DEF SpentOK
    <2>2. now # Nothing
      BY <1>2, NothingElse
    <2>3. used[t] <= used'[t] /\ used[t] \in Nat /\ used'[t] \in Nat /\ Limit[t] \in Nat
      BY <1>3, <1>4, <1>6, ConstantsNat
    <2>4. CASE used[t] >= Limit[t]
      BY <1>7, <2>1, <2>3, <2>4
    <2>5. CASE ~(used[t] >= Limit[t])
      <3>1. spentAt[t] = Nothing
        BY <2>1, <2>5
      <3> QED
        BY <1>7, <2>2, <3>1
    <2> QED
      BY <2>4, <2>5
  <1> QED
    BY <1>5, <1>8, <1>9

LEMMA TermsGrow ==
  ASSUME LeaseInv, LeaseTypeOK', NEW n \in Terms, NewTerms(n)
  PROVE  Grows /\ SpentOK'
  <1> USE DEF LeaseInv
  <1>1. n \notin InForce /\ \A t \in Terms \ {n} : used'[t] = used[t] /\ spentAt'[t] = spentAt[t]
    BY DEF NewTerms, LeaseTypeOK
  <1>2. spentAt'[n] = IF used'[n] >= Limit[n] THEN now ELSE Nothing
    BY DEF NewTerms, LeaseTypeOK
  <1>3. now' = now /\ owing' = owing /\ stray' = stray
    BY DEF NewTerms
  <1>4. now \in Nat /\ owing \in Int
    BY DEF LeaseTypeOK
  <1>5. \A t \in InForce : t \in Terms \ {n} /\ used[t] \in Nat /\ stray[t] \in Nat
    BY <1>1, InForceNat DEF LeaseTypeOK
  <1>6. Grows
    BY <1>1, <1>3, <1>4, <1>5, NothingElse DEF Grows
  <1>7. SpentOK'
    <2> SUFFICES ASSUME NEW t \in Terms, used'[t] # Nothing
                 PROVE  spentAt'[t] # Nothing <=> used'[t] >= Limit[t]
      BY DEF SpentOK, InForce
    <2>1. CASE t = n
      BY <1>2, <1>4, <2>1, NothingElse
    <2>2. CASE t # n
      BY <1>1, <2>2 DEF SpentOK, InForce
    <2> QED
      BY <2>1, <2>2
  <1> QED
    BY <1>6, <1>7

LEMMA StepGrows ==
  ASSUME LeaseInv, LeaseTypeOK', [LeaseNext]_leaseVars
  PROVE  Grows /\ SpentOK'
  <1> USE DEF LeaseInv
  <1>0. owing \in Int /\ now \in Nat
    BY DEF LeaseTypeOK
  <1>1. ASSUME NEW r \in Requests, CommitCost(r) PROVE Grows /\ SpentOK'
    BY <1>1, CommitGrows
  <1>2. ASSUME NEW t \in Terms, NewTerms(t) PROVE Grows /\ SpentOK'
    BY <1>2, TermsGrow
  <1>3. ASSUME NEW r \in Requests, SettleLease(r) \/ SettleReturns(r) PROVE Grows /\ SpentOK'
    <2>1. request[r].cost \in Nat
      BY DEF LeaseTypeOK
    <2>2. owing' <= owing
      BY <1>0, <1>3, <2>1 DEF SettleLease, SettleReturns
    <2>3. UNCHANGED <<now, costVars>>
      BY <1>3 DEF SettleLease, SettleReturns
    <2> QED
      BY <2>2, <2>3, NothingSpent, SpentStays DEF costVars
  <1>4. ASSUME UNCHANGED <<now, costVars, owing>> PROVE Grows /\ SpentOK'
    <2>1. owing' <= owing
      BY <1>0, <1>4
    <2> QED
      BY <1>4, <2>1, NothingSpent, SpentStays
  <1>5. ASSUME Tick PROVE Grows /\ SpentOK'
    <2>1. \A t \in InForce : used[t] \in Nat /\ stray[t] \in Nat
      BY InForceNat DEF LeaseTypeOK, InForce
    <2>2. now <= now' /\ owing' = owing /\ UNCHANGED costVars
      BY <1>0, <1>5 DEF Tick
    <2>3. Grows
      BY <1>0, <2>1, <2>2 DEF Grows, costVars, InForce
    <2> QED
      BY <2>2, <2>3, SpentStays
  <1>6. ASSUME NEW r \in Requests,
               \/ Fallback(r)
               \/ \E t \in Terms : GetCostLease(r, t) \/ \E p \in Processes : JoinRefresh(r, p, t)
        PROVE  UNCHANGED <<now, costVars, owing>>
    BY <1>6 DEF Fallback, GetCostLease, JoinRefresh
  <1>7. ASSUME NEW p \in Processes, NEW t \in Terms,
               QueryDBUsage(p, t) \/ WriteLease(p, t) \/ RefreshFails(p, t)
        PROVE  UNCHANGED <<now, costVars, owing>>
    BY <1>7 DEF QueryDBUsage, WriteLease, RefreshFails
  <1>8. ASSUME DropLease \/ UNCHANGED leaseVars PROVE UNCHANGED <<now, costVars, owing>>
    BY <1>8 DEF DropLease, leaseVars
  <1> QED
    BY <1>1, <1>2, <1>3, <1>4, <1>5, <1>6, <1>7, <1>8 DEF LeaseNext

-----------------------------------------------------------------------------
(* A cut survives every step, and so do the verdicts *)

LEMMA CutGrows ==
  ASSUME LeaseInv, LeaseTypeOK', Grows, NEW t \in InForce
  PROVE  /\ t \in InForce'
         /\ \A seen, at \in Nat :
              /\ seen <= used[t] /\ at <= now
              /\ spentAt[t] # Nothing /\ seen < Limit[t] => at <= spentAt[t]
              => /\ seen <= used'[t] /\ at <= now'
                 /\ spentAt'[t] # Nothing /\ seen < Limit[t] => at <= spentAt'[t]
         /\ \A a \in Int : owing + a <= used[t] + stray[t] => owing' + a <= used'[t] + stray'[t]
  <1> USE DEF LeaseInv
  <1>1. t \in Terms /\ used[t] \in Nat /\ stray[t] \in Nat /\ now \in Nat /\ owing \in Int
    BY InForceNat DEF LeaseTypeOK
  <1>2. t \in InForce' /\ used'[t] \in Nat /\ stray'[t] \in Nat /\ now' \in Nat /\ owing' \in Int
    BY <1>1 DEF LeaseTypeOK, Grows, InForce
  <1>3. /\ used[t] <= used'[t] /\ now <= now' /\ stray[t] <= stray'[t]
        /\ owing' - owing <= (used'[t] - used[t]) + (stray'[t] - stray[t])
        /\ spentAt'[t] = spentAt[t] \/ (spentAt[t] = Nothing /\ spentAt'[t] = now)
    BY DEF Grows
  <1>4. \A a \in Int : owing + a <= used[t] + stray[t] => owing' + a <= used'[t] + stray'[t]
    BY <1>1, <1>2, <1>3
  <1>5. \A seen, at \in Nat : seen <= used[t] /\ at <= now => seen <= used'[t] /\ at <= now'
    BY <1>1, <1>2, <1>3
  <1>6. \A seen, at \in Nat :
          /\ at <= now
          /\ spentAt[t] # Nothing /\ seen < Limit[t] => at <= spentAt[t]
          => (spentAt'[t] # Nothing /\ seen < Limit[t] => at <= spentAt'[t])
    BY <1>3
  <1> QED
    BY <1>2, <1>4, <1>5, <1>6

LEMMA SliceStays ==
  ASSUME LeaseInv, LeaseTypeOK', Grows, slice' \in {slice, Nothing}
  PROVE  SliceOK'
  <1> SUFFICES ASSUME slice # Nothing, slice' = slice PROVE SliceOK'
    BY DEF SliceOK
  <1> DEFINE t == slice.terms
  <1>1. slice \in Leases /\ t \in InForce /\ CutOK(t, slice)
    BY DEF LeaseInv, LeaseTypeOK, SliceOK, CutOK
  <1>2. /\ slice.seen \in Nat /\ slice.at \in Nat /\ slice.charges \in Nat
        /\ slice.owed \in Int
    BY <1>1 DEF Leases
  <1>3. t \in Terms /\ used[t] \in Nat /\ stray[t] \in Nat /\ owing \in Int
    BY <1>1, InForceNat DEF LeaseInv, LeaseTypeOK
  <1>4. used'[t] \in Nat /\ stray'[t] \in Nat /\ owing' \in Int
    BY <1>1, <1>3 DEF Grows, LeaseTypeOK
  <1>5. t \in InForce' /\ slice.seen <= used'[t] /\ slice.at <= now'
        /\ (spentAt'[t] # Nothing /\ slice.seen < Limit[t] => slice.at <= spentAt'[t])
    BY <1>1, <1>2, CutGrows DEF CutOK
  <1>6. slice.charges + owing' <= slice.owed + (used'[t] - slice.seen) + stray'[t]
    <2> DEFINE a == slice.charges - slice.owed + slice.seen
    <2>1. a \in Int
      BY <1>2
    <2>2. slice.charges + owing <= slice.owed + (used[t] - slice.seen) + stray[t]
      BY DEF LeaseInv, SliceOK
    <2>3. owing + a <= used[t] + stray[t]
      BY <1>2, <1>3, <2>2
    <2>4. owing' + a <= used'[t] + stray'[t]
      BY <1>1, <2>1, <2>3, CutGrows
    <2> QED
      BY <1>2, <1>4, <2>4
  <1>7. slice.left = LeftOver(CutFrom(t, slice.seen), slice.charges)
    BY DEF LeaseInv, SliceOK
  <1> QED
    BY <1>5, <1>6, <1>7 DEF SliceOK, CutOK, LeftOver, CutFrom

\* The flights that a step leaves as they are.
LEMMA FlightStays ==
  ASSUME LeaseInv, LeaseTypeOK', Grows, NEW p \in Processes, NEW t \in Terms,
         flights[p][t] # Nothing
  PROVE  /\ t \in InForce' /\ flights[p][t].at <= now'
         /\ flights[p][t].read =>
              /\ flights[p][t].seen <= used'[t]
              /\ spentAt'[t] # Nothing /\ flights[p][t].seen < Limit[t]
                   => flights[p][t].at <= spentAt'[t]
              /\ owing' <= flights[p][t].owed + (used'[t] - flights[p][t].seen) + stray'[t]
  <1> DEFINE f == flights[p][t]
  <1>1. f \in Flights /\ t \in InForce /\ f.at <= now
    BY DEF LeaseInv, LeaseTypeOK, FlightOK
  <1>2. f.at \in Nat /\ f.seen \in Nat /\ f.owed \in Int
    BY <1>1 DEF Flights
  <1>3. used[t] \in Nat /\ stray[t] \in Nat /\ owing \in Int /\ now \in Nat
    BY <1>1, InForceNat DEF LeaseInv, LeaseTypeOK
  <1>4. used'[t] \in Nat /\ stray'[t] \in Nat /\ owing' \in Int /\ now' \in Nat
    BY <1>1, <1>3 DEF Grows, LeaseTypeOK
  <1>5. t \in InForce' /\ f.at <= now'
    BY <1>1, <1>2, <1>3, <1>4, CutGrows DEF Grows
  <1>6. ASSUME f.read
        PROVE  /\ f.seen <= used'[t]
               /\ spentAt'[t] # Nothing /\ f.seen < Limit[t] => f.at <= spentAt'[t]
               /\ owing' <= f.owed + (used'[t] - f.seen) + stray'[t]
    <2>1. CutOK(t, f) /\ owing <= f.owed + (used[t] - f.seen) + stray[t]
      BY <1>1, <1>6 DEF LeaseInv, FlightOK
    <2>2. /\ f.seen <= used'[t]
          /\ spentAt'[t] # Nothing /\ f.seen < Limit[t] => f.at <= spentAt'[t]
      BY <1>1, <1>2, <2>1, CutGrows DEF CutOK
    <2> DEFINE a == f.seen - f.owed
    <2>3. a \in Int
      BY <1>2
    <2>4. owing + a <= used[t] + stray[t]
      BY <1>2, <1>3, <2>1
    <2>5. owing' + a <= used'[t] + stray'[t]
      BY <1>1, <2>3, <2>4, CutGrows
    <2>6. owing' <= f.owed + (used'[t] - f.seen) + stray'[t]
      BY <1>2, <1>4, <2>5
    <2> QED
      BY <2>2, <2>6
  <1> QED
    BY <1>5, <1>6

\* The verdict on a slice whose cut is sound, given before the slice expired.
LEMMA JudgedSoundly ==
  ASSUME LeaseInv, NEW t \in Terms, NEW since \in Nat, since <= now, NEW lease \in Leases,
         CutOK(t, lease), lease.left = LeftOver(CutFrom(t, lease.seen), lease.charges),
         lease.charges + owing <= lease.owed + (used[t] - lease.seen) + stray[t],
         since < lease.at + TTL
  PROVE  LET q == Judged(t, since, lease) IN
         /\ q.at \in {"admitted", "refused"} /\ q.leased /\ q.terms = t /\ q.since = since
         /\ q.at = "admitted" => spentAt[t] = Nothing \/ since < spentAt[t] + TTL
         /\ q.at = "refused" => used[t] + q.counted + stray[t] >= Portion[t]
  <1> DEFINE q == Judged(t, since, lease)
  <1>1. /\ q.at = (IF lease.left > 0 THEN "admitted" ELSE "refused")
        /\ q.leased = TRUE /\ q.terms = t /\ q.since = since /\ q.counted = lease.owed - owing
    BY DEF Judged, Place
  <1>2. /\ lease.seen \in Nat /\ lease.at \in Nat /\ lease.charges \in Nat
        /\ lease.owed \in Int /\ lease.left \in Nat
    BY DEF Leases
  <1>3. used[t] \in Nat /\ stray[t] \in Nat /\ owing \in Int /\ t \in InForce
    BY InForceNat DEF LeaseInv, LeaseTypeOK, CutOK
  <1>4. TTL \in Nat /\ (spentAt[t] # Nothing => spentAt[t] \in Nat)
    BY LeaseAssumption DEF LeaseInv, LeaseTypeOK
  <1>5. CutFrom(t, lease.seen) \in Nat
    BY <1>2, CutBounds
  <1>6. ASSUME lease.left > 0 PROVE spentAt[t] = Nothing \/ since < spentAt[t] + TTL
    <2>1. CutFrom(t, lease.seen) > 0
      BY <1>2, <1>5, <1>6 DEF LeftOver
    <2>2. lease.seen < Limit[t]
      BY <1>2, <2>1, CutBounds
    <2>3. spentAt[t] # Nothing => lease.at <= spentAt[t]
      BY <2>2 DEF CutOK
    <2> QED
      BY <1>2, <1>4, <2>3
  <1>7. ASSUME ~(lease.left > 0) PROVE used[t] + (lease.owed - owing) + stray[t] >= Portion[t]
    <2>1. CutFrom(t, lease.seen) <= lease.charges
      BY <1>2, <1>5, <1>7 DEF LeftOver
    <2>2. lease.charges >= Portion[t] \/ lease.charges + lease.seen >= Limit[t]
      BY <1>2, <1>5, <2>1, CutBounds, ConstantsNat
    <2>3. lease.charges + lease.seen >= Portion[t]
      BY <1>2, <2>2, ConstantsNat
    <2>4. used[t] + (lease.owed - owing) + stray[t] >= lease.charges + lease.seen
      BY <1>2, <1>3
    <2> QED
      BY <1>2, <1>3, <2>3, <2>4, ConstantsNat
  <1> QED
    BY <1>1, <1>6, <1>7

Verdict(r) ==
  LET q == request[r]  t == q.terms IN
  /\ q.leased => q.at \in {"admitted", "refused"} /\ t \in InForce /\ q.since <= now
  /\ q.at = "refused" => q.leased
  /\ q.at = "owed" => q.cost > 0
  /\ q.at = "admitted" /\ q.leased => spentAt[t] = Nothing \/ q.since < spentAt[t] + TTL
  /\ q.at = "refused" => used[t] + q.counted + stray[t] >= Portion[t]

LEMMA VerdictNow == ASSUME LeaseInv, NEW r \in Requests PROVE Verdict(r)
  BY DEF LeaseInv, RequestOK, SpentIsRefused, RefusalIsEarned, Verdict

LEMMA VerdictStays ==
  ASSUME LeaseInv, LeaseTypeOK', Grows, NEW r \in Requests, request'[r] = request[r]
  PROVE  Verdict(r)'
  <1> DEFINE q == request[r]
             t == q.terms
  <1>1. q \in RequestType
    BY DEF LeaseInv, LeaseTypeOK, RequestType, States
  <1>2. t \in Terms /\ q.since \in Nat /\ q.counted \in Int
    BY <1>1 DEF RequestType
  <1>3. Verdict(r)
    BY VerdictNow
  <1>4. CASE ~q.leased
    <2>1. q.at # "refused" /\ (q.at = "owed" => q.cost > 0)
      BY <1>3, <1>4 DEF Verdict
    <2> QED
      BY <1>4, <2>1 DEF Verdict
  <1>5. CASE q.leased
    <2>1. t \in InForce /\ q.since <= now
      BY <1>3, <1>5 DEF Verdict
    <2>2. used[t] \in Nat /\ stray[t] \in Nat /\ now \in Nat
      BY <2>1, InForceNat DEF LeaseInv, LeaseTypeOK
    <2>3. t \in InForce' /\ used'[t] \in Nat /\ stray'[t] \in Nat /\ now' \in Nat
      BY <2>1, <1>2 DEF Grows, InForce, LeaseTypeOK
    <2>4. /\ now <= now' /\ used[t] <= used'[t] /\ stray[t] <= stray'[t]
          /\ spentAt'[t] = spentAt[t] \/ (spentAt[t] = Nothing /\ spentAt'[t] = now)
      BY <2>1 DEF Grows
    <2>5. q.since <= now'
      BY <1>2, <2>1, <2>2, <2>3, <2>4
    <2>6. q.at = "admitted" => spentAt'[t] = Nothing \/ q.since < spentAt'[t] + TTL
      BY <1>2, <1>3, <1>5, <2>1, <2>2, <2>4, LeaseAssumption DEF Verdict
    <2>7. q.at = "refused" => used'[t] + q.counted + stray'[t] >= Portion[t]
      BY <1>2, <1>3, <2>2, <2>3, <2>4, ConstantsNat DEF Verdict
    <2>8. q.at = "owed" => q.cost > 0
      BY <1>3 DEF Verdict
    <2>9. q.at \in {"admitted", "refused"}
      BY <1>3, <1>5 DEF Verdict
    <2> HIDE DEF q
    <2> QED
      BY <1>5, <2>3, <2>5, <2>6, <2>7, <2>8, <2>9 DEF Verdict, q
  <1> QED
    BY <1>4, <1>5

-----------------------------------------------------------------------------
(* The steps *)

\* A cut that a flight has read, and the lease made of it.
LEMMA FreshLease ==
  ASSUME LeaseInv, NEW p \in Processes, NEW t \in Terms,
         flights[p][t] # Nothing, flights[p][t].read
  PROVE  LET lease == Lease(t, flights[p][t]) IN
         /\ lease \in Leases /\ lease.terms = t /\ lease.at = flights[p][t].at
         /\ CutOK(t, lease)
         /\ lease.left = LeftOver(CutFrom(t, lease.seen), lease.charges)
         /\ lease.charges + owing <= lease.owed + (used[t] - lease.seen) + stray[t]
  <1> DEFINE f == flights[p][t]
             lease == Lease(t, f)
  <1>1. f \in Flights /\ CutOK(t, f) /\ owing <= f.owed + (used[t] - f.seen) + stray[t]
    BY DEF LeaseInv, LeaseTypeOK, FlightOK
  <1>2. lease \in Leases
    BY <1>1, LeaseIsLease
  <1>3. /\ lease.terms = t /\ lease.at = f.at /\ lease.seen = f.seen /\ lease.owed = f.owed
        /\ lease.charges = 0 /\ lease.left = CutFrom(t, f.seen)
    BY DEF Lease
  <1>4. CutFrom(t, f.seen) \in Nat
    BY <1>1, CutBounds DEF Flights
  <1>5. lease.left = LeftOver(CutFrom(t, lease.seen), lease.charges)
    BY <1>3, <1>4 DEF LeftOver
  <1>6. CutOK(t, lease)
    BY <1>1, <1>3 DEF CutOK
  <1>7. owing \in Int
    BY DEF LeaseInv, LeaseTypeOK
  <1>8. lease.charges + owing <= lease.owed + (used[t] - lease.seen) + stray[t]
    BY <1>1, <1>3, <1>7
  <1> QED
    BY <1>2, <1>3, <1>5, <1>6, <1>8

LEMMA SliceStep ==
  ASSUME LeaseInv, LeaseTypeOK', Grows, [LeaseNext]_leaseVars
  PROVE  SliceOK'
  <1>1. ASSUME slice' \in {slice, Nothing} PROVE SliceOK'
    BY <1>1, SliceStays
  <1>2. ASSUME NEW p \in Processes, NEW t \in Terms, WriteLease(p, t) PROVE SliceOK'
    <2>1. CASE slice' = slice
      BY <1>1, <2>1
    <2>2. CASE slice' = Lease(t, flights[p][t])
      <3> DEFINE lease == Lease(t, flights[p][t])
      <3>1. flights[p][t] # Nothing /\ flights[p][t].read /\ UNCHANGED <<now, owing, costVars>>
        BY <1>2 DEF WriteLease
      <3>2. /\ lease \in Leases /\ lease.terms = t
            /\ CutOK(t, lease)
            /\ lease.left = LeftOver(CutFrom(t, lease.seen), lease.charges)
            /\ lease.charges + owing <= lease.owed + (used[t] - lease.seen) + stray[t]
        BY <3>1, FreshLease
      <3> HIDE DEF lease
      <3>3. slice' = lease
        BY <2>2 DEF lease
      <3> QED
        BY <3>1, <3>2, <3>3 DEF SliceOK, CutOK, costVars, InForce, CutFrom, LeftOver
    <2> QED
      BY <1>2, <2>1, <2>2 DEF WriteLease
  <1>3. ASSUME NEW r \in Requests, SettleLease(r) PROVE SliceOK'
    <2>1. CASE slice' \in {slice, Nothing}
      BY <1>1, <2>1
    <2>2. CASE slice # Nothing /\ slice' = Deducted(request[r].cost) /\ owing' = owing - request[r].cost
      <3> DEFINE c == request[r].cost
                 t == slice.terms
                 portion == CutFrom(t, slice.seen)
      <3>1. c \in Nat /\ c > 0
        BY <1>3 DEF LeaseInv, LeaseTypeOK, RequestOK, SettleLease
      <3>2. /\ slice \in Leases /\ CutOK(t, slice)
            /\ slice.left = LeftOver(portion, slice.charges)
            /\ slice.charges + owing <= slice.owed + (used[t] - slice.seen) + stray[t]
        BY <2>2 DEF LeaseInv, LeaseTypeOK, SliceOK
      <3>3. /\ slice'.terms = t /\ slice'.seen = slice.seen /\ slice'.at = slice.at
            /\ slice'.owed = slice.owed /\ slice'.charges = slice.charges + c
            /\ slice'.left = IF slice.left < c THEN 0 ELSE slice.left - c
        BY <2>2, <3>2 DEF Deducted, Leases
      <3>4. slice.charges \in Nat /\ slice.seen \in Nat /\ t \in Terms /\ owing \in Int
        BY <3>2 DEF Leases, LeaseInv, LeaseTypeOK
      <3>5. portion \in Nat
        BY <3>4, CutBounds
      <3> HIDE DEF portion
      <3>6. slice'.left = LeftOver(portion, slice.charges + c)
        BY <3>1, <3>2, <3>3, <3>4, <3>5, RestAfter
      <3>7. slice'.charges + owing' = slice.charges + owing
        BY <2>2, <3>1, <3>3, <3>4
      <3>8. UNCHANGED <<now, costVars>>
        BY <1>3 DEF SettleLease
      <3> QED
        BY <3>2, <3>3, <3>6, <3>7, <3>8 DEF SliceOK, CutOK, costVars, InForce, CutFrom, LeftOver, portion
    <2> QED
      BY <1>3, <2>1, <2>2 DEF SettleLease
  <1>4. ASSUME NEW r \in Requests,
               \/ Fallback(r) \/ CommitCost(r) \/ SettleReturns(r)
               \/ \E t \in Terms : GetCostLease(r, t) \/ \E p \in Processes : JoinRefresh(r, p, t)
        PROVE  slice' = slice
    BY <1>4 DEF Fallback, CommitCost, SettleReturns, GetCostLease, JoinRefresh
  <1>5. ASSUME NEW p \in Processes, NEW t \in Terms, QueryDBUsage(p, t) \/ RefreshFails(p, t)
        PROVE  slice' = slice
    BY <1>5 DEF QueryDBUsage, RefreshFails
  <1>6. ASSUME \/ DropLease \/ Tick \/ UNCHANGED leaseVars \/ \E t \in Terms : NewTerms(t)
        PROVE  slice' \in {slice, Nothing}
    BY <1>6 DEF DropLease, Tick, NewTerms, leaseVars
  <1> QED
    BY <1>1, <1>2, <1>3, <1>4, <1>5, <1>6 DEF LeaseNext

\* A flight that is new, has read, or is as it was.
LEMMA FlightStep ==
  ASSUME LeaseInv, LeaseTypeOK', Grows, [LeaseNext]_leaseVars
  PROVE  FlightOK'
  <1> DEFINE Sound(p, t) ==
        flights[p][t] # Nothing =>
          /\ t \in InForce /\ flights[p][t].at <= now
          /\ flights[p][t].read =>
               /\ CutOK(t, flights[p][t])
               /\ owing <= flights[p][t].owed + (used[t] - flights[p][t].seen) + stray[t]
  <1> SUFFICES ASSUME NEW p \in Processes, NEW t \in Terms PROVE Sound(p, t)'
    BY DEF FlightOK
  <1>0. now \in Nat /\ flights \in [Processes -> [Terms -> Flights \cup {Nothing}]]
    BY DEF LeaseInv, LeaseTypeOK
  <1>1. ASSUME flights'[p][t] \in {flights[p][t], Nothing} PROVE Sound(p, t)'
    <2> SUFFICES ASSUME flights[p][t] # Nothing, flights'[p][t] = flights[p][t] PROVE Sound(p, t)'
      BY <1>1
    <2> QED
      BY FlightStays DEF CutOK
  <1>2. ASSUME NEW r \in Requests, NEW q \in Processes, NEW s \in Terms, JoinRefresh(r, q, s)
        PROVE  Sound(p, t)'
    <2>1. CASE flights'[p][t] = flights[p][t]
      BY <1>1, <2>1
    <2>2. CASE flights'[p][t] # flights[p][t]
      <3>1. p = q /\ t = s /\ flights'[p][t] = [at |-> now, read |-> FALSE, seen |-> 0, owed |-> 0]
        BY <1>0, <1>2, <2>2 DEF JoinRefresh
      <3>2. t \in InForce /\ now' = now /\ UNCHANGED costVars
        BY <1>2, <3>1 DEF JoinRefresh
      <3> QED
        BY <1>0, <3>1, <3>2 DEF InForce, costVars
    <2> QED
      BY <2>1, <2>2
  <1>3. ASSUME NEW q \in Processes, NEW s \in Terms, QueryDBUsage(q, s) PROVE Sound(p, t)'
    <2>1. CASE p # q \/ t # s
      BY <1>0, <1>1, <1>3, <2>1 DEF QueryDBUsage
    <2>2. CASE p = q /\ t = s
      <3> DEFINE f == flights[p][t]
      <3>1. f \in Flights /\ t \in InForce /\ f.at <= now
        BY <1>3, <2>2 DEF QueryDBUsage, LeaseInv, LeaseTypeOK, FlightOK
      <3>2. flights'[p][t] = [f EXCEPT !.read = TRUE, !.seen = used[t], !.owed = owing]
        BY <1>0, <1>3, <2>2 DEF QueryDBUsage
      <3>3. /\ flights'[p][t].at = f.at /\ flights'[p][t].seen = used[t]
            /\ flights'[p][t].owed = owing
        BY <3>1, <3>2 DEF Flights
      <3>4. UNCHANGED <<now, owing, costVars>>
        BY <1>3 DEF QueryDBUsage
      <3>5. used[t] \in Nat /\ owing \in Int /\ stray[t] \in Nat
        BY <3>1, InForceNat DEF LeaseInv, LeaseTypeOK
      <3>6. spentAt[t] # Nothing => ~(used[t] < Limit[t])
        BY <3>1, <3>5, ConstantsNat DEF LeaseInv, SpentOK
      <3>7. owing <= owing + (used[t] - used[t]) + stray[t]
        BY <3>5
      <3>8. used[t] <= used[t]
        BY <3>5
      <3> HIDE DEF f
      <3> QED
        BY <3>1, <3>3, <3>4, <3>6, <3>7, <3>8 DEF CutOK, InForce, costVars
    <2> QED
      BY <2>1, <2>2
  <1>4. ASSUME NEW q \in Processes, NEW s \in Terms, WriteLease(q, s) \/ RefreshFails(q, s)
        PROVE  Sound(p, t)'
    <2>1. flights'[p][t] \in {flights[p][t], Nothing}
      BY <1>0, <1>4 DEF WriteLease, RefreshFails
    <2> QED
      BY <1>1, <2>1
  <1>5. ASSUME NEW r \in Requests,
               \/ Fallback(r) \/ CommitCost(r) \/ SettleReturns(r) \/ SettleLease(r)
               \/ \E s \in Terms : GetCostLease(r, s)
        PROVE  flights' = flights
    BY <1>5 DEF Fallback, CommitCost, SettleReturns, SettleLease, GetCostLease
  <1>6. ASSUME \/ DropLease \/ Tick \/ UNCHANGED leaseVars \/ \E s \in Terms : NewTerms(s)
        PROVE  flights' = flights
    BY <1>6 DEF DropLease, Tick, NewTerms, leaseVars
  <1> HIDE DEF Sound
  <1> QED
    BY <1>1, <1>2, <1>3, <1>4, <1>5, <1>6 DEF LeaseNext

\* A request that is placed anew, without a slice to answer for.
LEMMA PlacedAnew ==
  ASSUME NEW r \in Requests, ~request'[r].leased, request'[r].at \notin {"refused", "owed"}
  PROVE  Verdict(r)'
  BY DEF Verdict

LEMMA VerdictStep ==
  ASSUME LeaseInv, LeaseTypeOK', Grows, [LeaseNext]_leaseVars, NEW r \in Requests
  PROVE  Verdict(r)'
  <1>0. request \in [Requests -> RequestType]
    BY DEF LeaseInv, LeaseTypeOK, RequestType, States
  <1>1. ASSUME request'[r] = request[r] PROVE Verdict(r)'
    BY <1>1, VerdictStays
  <1>2. ASSUME request[r].at \in {"new", "waiting"}, ~request[r].leased,
               request'[r].leased = request[r].leased,
               request'[r].at \in {"waiting", "fallback"}
        PROVE  Verdict(r)'
    BY <1>2, PlacedAnew
  <1>3. ASSUME NEW t \in Terms, GetCostLease(r, t) PROVE Verdict(r)'
    <2>1. /\ slice # Nothing /\ now < slice.at + TTL /\ slice.terms = t
          /\ UNCHANGED <<now, costVars>>
          /\ request'[r] = Judged(t, now, slice)
      BY <1>0, <1>3 DEF GetCostLease, Usable
    <2>2. /\ slice \in Leases /\ CutOK(t, slice) /\ now \in Nat /\ now <= now
          /\ slice.left = LeftOver(CutFrom(t, slice.seen), slice.charges)
          /\ slice.charges + owing <= slice.owed + (used[t] - slice.seen) + stray[t]
      BY <2>1 DEF LeaseInv, LeaseTypeOK, SliceOK
    <2> DEFINE q == Judged(t, now, slice)
    <2>3. /\ q.at \in {"admitted", "refused"} /\ q.leased /\ q.terms = t /\ q.since = now
          /\ q.at = "admitted" => spentAt[t] = Nothing \/ now < spentAt[t] + TTL
          /\ q.at = "refused" => used[t] + q.counted + stray[t] >= Portion[t]
      BY <2>1, <2>2, JudgedSoundly
    <2> HIDE DEF q
    <2>4. request'[r] = q
      BY <2>1 DEF q
    <2> QED
      BY <2>1, <2>2, <2>3, <2>4 DEF Verdict, CutOK, InForce, costVars
  <1>4. ASSUME NEW p \in Processes, NEW t \in Terms, WriteLease(p, t) PROVE Verdict(r)'
    <2>1. CASE ~Waiting(r, p, t)
      <3>1. request'[r] = request[r]
        BY <1>4, <2>1 DEF WriteLease
      <3> QED
        BY <3>1, <1>1
    <2>2. CASE Waiting(r, p, t)
      <3> DEFINE lease == Lease(t, flights[p][t])
                 since == request[r].since
                 q == Judged(t, since, lease)
      <3>1. flights[p][t] # Nothing /\ flights[p][t].read /\ UNCHANGED <<now, costVars>>
        BY <1>4 DEF WriteLease
      <3>2. /\ lease \in Leases /\ lease.terms = t /\ lease.at = flights[p][t].at
            /\ CutOK(t, lease)
            /\ lease.left = LeftOver(CutFrom(t, lease.seen), lease.charges)
            /\ lease.charges + owing <= lease.owed + (used[t] - lease.seen) + stray[t]
        BY <3>1, FreshLease
      <3>3. since = flights[p][t].at
        BY <2>2 DEF LeaseInv, RequestOK, Waiting
      <3>4. flights[p][t].at \in Nat /\ flights[p][t].at <= now
        BY <3>1 DEF LeaseInv, LeaseTypeOK, FlightOK, Flights
      <3>5. since \in Nat /\ since <= now /\ since < lease.at + TTL
        BY <3>2, <3>3, <3>4, LeaseAssumption
      <3>6. request'[r] = q
        BY <1>4, <2>2 DEF WriteLease
      <3> HIDE DEF lease, since
      <3>7. /\ q.at \in {"admitted", "refused"} /\ q.leased /\ q.terms = t /\ q.since = since
            /\ q.at = "admitted" => spentAt[t] = Nothing \/ since < spentAt[t] + TTL
            /\ q.at = "refused" => used[t] + q.counted + stray[t] >= Portion[t]
        BY <3>2, <3>5, JudgedSoundly
      <3> HIDE DEF q
      <3> QED
        BY <3>1, <3>2, <3>5, <3>6, <3>7 DEF Verdict, CutOK, InForce, costVars
    <2> QED
      BY <2>1, <2>2
  <1>5. ASSUME NEW s \in Requests, NEW p \in Processes, NEW t \in Terms, JoinRefresh(s, p, t)
        PROVE  Verdict(r)'
    <2>1. CASE r # s
      BY <1>0, <1>1, <1>5, <2>1 DEF JoinRefresh
    <2>2. CASE r = s /\ ~request[r].leased
      <3>1. request'[r].at = "waiting" /\ request'[r].leased = request[r].leased
        BY <1>0, <1>5, <2>2 DEF JoinRefresh, RequestType
      <3> QED
        BY <1>2, <1>5, <2>2, <3>1 DEF JoinRefresh
    <2>3. CASE r = s /\ request[r].leased
      <3>1. request[r].at = "new" /\ request[r].at \in {"admitted", "refused"}
        BY <1>5, <2>3 DEF JoinRefresh, LeaseInv, RequestOK
      <3> QED
        BY <3>1
    <2> QED
      BY <2>1, <2>2, <2>3
  <1>6. ASSUME NEW p \in Processes, NEW t \in Terms, RefreshFails(p, t) PROVE Verdict(r)'
    <2>1. CASE ~Waiting(r, p, t)
      BY <1>1, <1>6, <2>1 DEF RefreshFails
    <2>2. CASE Waiting(r, p, t)
      <3>1. request[r].at = "waiting" /\ ~request[r].leased
        BY <2>2 DEF Waiting, LeaseInv, RequestOK
      <3>2. request'[r] = [request[r] EXCEPT !.at = "fallback"]
        BY <1>6, <2>2 DEF RefreshFails
      <3>3. request'[r].at = "fallback" /\ request'[r].leased = request[r].leased
        BY <1>0, <3>2 DEF RequestType
      <3> QED
        BY <1>2, <3>1, <3>3
    <2> QED
      BY <2>1, <2>2
  <1>7. ASSUME NEW s \in Requests, Fallback(s) \/ SettleReturns(s) PROVE Verdict(r)'
    <2>1. CASE s = r
      <3>1. \E verdict \in {"admitted", "ended"} : request' = [request EXCEPT ![r] = Place(verdict)]
        BY <1>7, <2>1 DEF Fallback, SettleReturns
      <3>2. \E verdict \in {"admitted", "ended"} : request'[r] = Place(verdict)
        BY <1>0, <3>1
      <3> QED
        BY <3>2, PlacedAnew, PlaceType
    <2>2. CASE s # r
      BY <1>0, <1>1, <1>7, <2>2 DEF Fallback, SettleReturns
    <2> QED
      BY <2>1, <2>2
  <1>8. ASSUME NEW s \in Requests, CommitCost(s) PROVE Verdict(r)'
    <2>1. PICK c \in 1..MaxCost :
            request' = [request EXCEPT ![s] = IF @.leased THEN [Place("owed") EXCEPT !.cost = c]
                                                          ELSE Place("ended")]
      BY <1>8 DEF CommitCost
    <2>2. c \in Nat /\ c > 0
      OBVIOUS
    <2>3. CASE r # s
      BY <1>0, <1>1, <2>1, <2>3
    <2>4. CASE r = s
      <3>1. request'[r] \in {[Place("owed") EXCEPT !.cost = c], Place("ended")}
        BY <1>0, <2>1, <2>4
      <3> QED
        BY <2>2, <3>1 DEF Verdict, Place
    <2> QED
      BY <2>3, <2>4
  <1>9. ASSUME NEW s \in Requests, SettleLease(s) PROVE Verdict(r)'
    BY <1>1, <1>9 DEF SettleLease
  <1>10. ASSUME \/ DropLease \/ Tick \/ UNCHANGED leaseVars
                \/ \E t \in Terms : NewTerms(t)
                \/ \E p \in Processes, t \in Terms : QueryDBUsage(p, t)
         PROVE  Verdict(r)'
    BY <1>1, <1>10 DEF DropLease, Tick, NewTerms, QueryDBUsage, leaseVars
  <1>11. ASSUME NEW s \in Requests, NEW t \in Terms, GetCostLease(s, t), s # r PROVE Verdict(r)'
    BY <1>0, <1>1, <1>11 DEF GetCostLease
  <1> QED
    BY <1>3, <1>4, <1>5, <1>6, <1>7, <1>8, <1>9, <1>10, <1>11 DEF LeaseNext

\* A request that waits has a refresh to wait for: it is the one that it joined.
LEMMA WaitingStep ==
  ASSUME LeaseInv, LeaseTypeOK', [LeaseNext]_leaseVars,
         NEW r \in Requests, request'[r].at = "waiting"
  PROVE  /\ request'[r].process \in Processes
         /\ flights'[request'[r].process][request'[r].terms] # Nothing
         /\ request'[r].since = flights'[request'[r].process][request'[r].terms].at
  <1> DEFINE Joined ==
        /\ request[r].process \in Processes
        /\ flights[request[r].process][request[r].terms] # Nothing
        /\ request[r].since = flights[request[r].process][request[r].terms].at
  <1> SUFFICES Joined'
    OBVIOUS
  <1>0. /\ request \in [Requests -> RequestType] /\ request[r].terms \in Terms
        /\ flights \in [Processes -> [Terms -> Flights \cup {Nothing}]]
        /\ request[r].at = "waiting" => Joined
    BY DEF LeaseInv, LeaseTypeOK, RequestType, States, RequestOK
  <1>1. ASSUME request'[r] = request[r],
               request[r].at = "waiting" =>
                 flights'[request[r].process][request[r].terms]
                   = flights[request[r].process][request[r].terms]
        PROVE  Joined'
    BY <1>0, <1>1
  <1>2. ASSUME NEW s \in Requests, NEW p \in Processes, NEW t \in Terms, JoinRefresh(s, p, t)
        PROVE  Joined'
    <2>1. CASE r = s
      <3>1. /\ request'[r].process = p /\ request'[r].terms = t
            /\ request'[r].since = flights'[p][t].at
        BY <1>0, <1>2, <2>1 DEF JoinRefresh, RequestType
      <3>2. flights'[p][t] # Nothing
        <4>1. [at |-> now, read |-> FALSE, seen |-> 0, owed |-> 0] \in Flights
          BY DEF LeaseInv, LeaseTypeOK, Flights
        <4> QED
          BY <1>0, <1>2, <4>1, NothingElse DEF JoinRefresh
      <3> QED
        BY <3>1, <3>2
    <2>2. CASE r # s
      <3>1. request'[r] = request[r]
        BY <1>0, <1>2, <2>2 DEF JoinRefresh
      <3>2. \A q \in Processes, u \in Terms :
              flights[q][u] # Nothing => flights'[q][u] = flights[q][u]
        BY <1>0, <1>2 DEF JoinRefresh
      <3> QED
        BY <1>0, <3>1, <3>2
    <2> QED
      BY <2>1, <2>2
  <1>3. ASSUME NEW p \in Processes, NEW t \in Terms, QueryDBUsage(p, t) PROVE Joined'
    <2>1. request' = request
      BY <1>3 DEF QueryDBUsage
    <2>2. flights[p][t] \in Flights
      BY <1>0, <1>3 DEF QueryDBUsage
    <2>3. used[t] \in Nat /\ owing \in Int
      <3>1. t \in InForce
        BY <1>3 DEF LeaseInv, FlightOK, QueryDBUsage
      <3> QED
        BY <3>1, InForceNat DEF LeaseInv, LeaseTypeOK
    <2> DEFINE f == [flights[p][t] EXCEPT !.read = TRUE, !.seen = used[t], !.owed = owing]
    <2>4. f \in Flights /\ f.at = flights[p][t].at
      BY <2>2, <2>3 DEF Flights
    <2>5. flights' = [flights EXCEPT ![p][t] = f]
      BY <1>3 DEF QueryDBUsage
    <2> HIDE DEF f
    <2>6. \A q \in Processes, u \in Terms :
            flights[q][u] # Nothing =>
              flights'[q][u] # Nothing /\ flights'[q][u].at = flights[q][u].at
      BY <1>0, <2>4, <2>5, NothingElse
    <2> QED
      BY <1>0, <2>1, <2>6
  <1>4. ASSUME NEW p \in Processes, NEW t \in Terms, WriteLease(p, t) \/ RefreshFails(p, t)
        PROVE  Joined'
    <2>1. ~Waiting(r, p, t)
      <3>1. Judged(t, request[r].since, Lease(t, flights[p][t])).at # "waiting"
        BY DEF Judged, Place
      <3>2. [request[r] EXCEPT !.at = "fallback"].at # "waiting"
        BY <1>0 DEF RequestType
      <3> QED
        BY <1>4, <3>1, <3>2 DEF WriteLease, RefreshFails
    <2>2. request'[r] = request[r]
      BY <1>4, <2>1 DEF WriteLease, RefreshFails
    <2>3. \A q \in Processes, u \in Terms : q # p \/ u # t => flights'[q][u] = flights[q][u]
      BY <1>0, <1>4 DEF WriteLease, RefreshFails
    <2> QED
      BY <1>0, <2>1, <2>2, <2>3 DEF Waiting
  <1>5. ASSUME NEW s \in Requests, NEW t \in Terms, GetCostLease(s, t) PROVE Joined'
    BY <1>0, <1>1, <1>5 DEF GetCostLease, Judged, Place
  <1>6. ASSUME NEW s \in Requests, Fallback(s) \/ SettleReturns(s) PROVE Joined'
    <2>1. CASE s = r
      <3>1. \E verdict \in {"admitted", "ended"} : request' = [request EXCEPT ![r] = Place(verdict)]
        BY <1>6, <2>1 DEF Fallback, SettleReturns
      <3>2. \E verdict \in {"admitted", "ended"} : request'[r] = Place(verdict)
        BY <1>0, <3>1
      <3> QED
        BY <3>2, PlaceType
    <2>2. CASE s # r
      BY <1>0, <1>1, <1>6, <2>2 DEF Fallback, SettleReturns
    <2> QED
      BY <2>1, <2>2
  <1>7. ASSUME NEW s \in Requests, CommitCost(s) PROVE Joined'
    BY <1>0, <1>1, <1>7 DEF CommitCost, Place
  <1>8. ASSUME \/ \E s \in Requests : SettleLease(s)
               \/ DropLease \/ Tick \/ UNCHANGED leaseVars
               \/ \E t \in Terms : NewTerms(t)
        PROVE  Joined'
    BY <1>1, <1>8 DEF SettleLease, DropLease, Tick, NewTerms, leaseVars
  <1> HIDE DEF Joined
  <1> QED
    BY <1>2, <1>3, <1>4, <1>5, <1>6, <1>7, <1>8 DEF LeaseNext

-----------------------------------------------------------------------------
(* Theorems *)

LEMMA InitInv == LeaseInit => LeaseInv
  <1> SUFFICES ASSUME LeaseInit PROVE LeaseInv
    OBVIOUS
  <1>1. LeaseTypeOK
    BY InitType
  <1>2. \A r \in Requests : request[r].at = "new" /\ ~request[r].leased
    BY PlaceType DEF LeaseInit
  <1>3. \A p \in Processes, t \in Terms : flights[p][t] = Nothing
    BY DEF LeaseInit
  <1>4. SpentOK
    <2>1. \A t \in InForce : used[t] = 0 /\ spentAt[t] = Nothing /\ t \in Terms
      BY DEF LeaseInit, InForce
    <2> QED
      BY <2>1, ConstantsNat DEF SpentOK
  <1>5. SliceOK
    BY DEF LeaseInit, SliceOK
  <1> QED
    BY <1>1, <1>2, <1>3, <1>4, <1>5
    DEF LeaseInv, FlightOK, RequestOK, SpentIsRefused, RefusalIsEarned

LEMMA StepInv == LeaseInv /\ [LeaseNext]_leaseVars => LeaseInv'
  <1> SUFFICES ASSUME LeaseInv, [LeaseNext]_leaseVars PROVE LeaseInv'
    OBVIOUS
  <1>1. LeaseTypeOK'
    BY StepType, InvForce DEF LeaseInv
  <1>2. Grows /\ SpentOK'
    BY <1>1, StepGrows
  <1>3. SliceOK' /\ FlightOK'
    BY <1>1, <1>2, SliceStep, FlightStep
  <1>4. \A r \in Requests : Verdict(r)'
    BY <1>1, <1>2, VerdictStep
  <1>5. RequestOK' /\ SpentIsRefused' /\ RefusalIsEarned'
    BY <1>1, <1>4, WaitingStep DEF RequestOK, SpentIsRefused, RefusalIsEarned, Verdict
  <1> QED
    BY <1>1, <1>2, <1>3, <1>5 DEF LeaseInv

\* The invariant that the rest follows from, in every state the leases reach.
THEOREM LeaseInvariant == LeaseSpec => []LeaseInv
  BY InitInv, StepInv, PTL DEF LeaseSpec

\* The slice in Redis, the refreshes and the verdicts have their types.
THEOREM LeaseTyped == LeaseSpec => []LeaseTypeOK
  <1>1. LeaseInv => LeaseTypeOK
    BY DEF LeaseInv
  <1> QED
    BY <1>1, LeaseInvariant, PTL

\* Once the ledger has reached a limit for the life of a lease, no request that asks
\* later is admitted on a slice: whatever refreshes were under way, however often the
\* slice was lost, and whichever settlements never came (IsLeaseExpired, WriteLease).
THEOREM SpentIsAlwaysRefused == LeaseSpec => []SpentIsRefused
  <1>1. LeaseInv => SpentIsRefused
    BY DEF LeaseInv
  <1> QED
    BY <1>1, LeaseInvariant, PTL

\* Nobody is refused on a slice for less than a portion of spending that was charged,
\* however often a settlement is repeated (settleLeaseBudgetsLua and its marker).
THEOREM RefusalIsAlwaysEarned == LeaseSpec => []RefusalIsEarned
  <1>1. LeaseInv => RefusalIsEarned
    BY DEF LeaseInv
  <1> QED
    BY <1>1, LeaseInvariant, PTL

\* A slice is never wider than the limit less the ledger it was cut from and less what
\* was charged to it (CalculateLeaseSlice, settleLeaseBudgetsLua).
THEOREM SliceIsNeverWider == LeaseSpec => []SliceNeverWider
  <1>1. ASSUME LeaseInv PROVE SliceNeverWider
    <2> SUFFICES ASSUME slice # Nothing, slice.left # 0
                 PROVE  slice.left <= Limit[slice.terms] - slice.seen - slice.charges
      BY DEF SliceNeverWider
    <2> DEFINE t == slice.terms
               cut == CutFrom(t, slice.seen)
    <2>1. slice \in Leases /\ slice.left = LeftOver(cut, slice.charges)
      BY <1>1 DEF LeaseInv, LeaseTypeOK, SliceOK
    <2>2. t \in Terms /\ slice.seen \in Nat /\ slice.charges \in Nat
      BY <2>1 DEF Leases
    <2>3. cut \in Nat /\ (cut > 0 => cut <= Limit[t] - slice.seen) /\ Limit[t] \in Nat
      BY <2>2, CutBounds, ConstantsNat
    <2> HIDE DEF cut
    <2> QED
      BY <2>1, <2>2, <2>3 DEF LeftOver
  <1> QED
    BY <1>1, LeaseInvariant, PTL

-----------------------------------------------------------------------------
(* UserReset: a job keeps its cut, its rows go before their marker, and its member stays in
   the queue until its record says it has ended. *)

PosterStates == {"new", "claim", "orphan", "look", "evict", "join", "prepare", "save", "push",
                 "answered", "error"}
WorkerStates == {"standby", "idle", "found", "leased", "start", "delete", "report", "last",
                 "check", "finish", "complete", "failed", "requeue", "drop", "remove", "release"}
PosterType == [at : PosterStates, job : Posters \cup {Absent}, cut : Times, again : BOOLEAN]
WorkerType == [at : WorkerStates, job : Posters \cup {Absent}, attempts : Nat, cut : Times,
               stage : {1, 2}]

RowTypes ==
  /\ clock \in Nat /\ created \in [Rows -> Times] /\ rowLocks \in SUBSET Rows
  /\ table \in [message_request : SUBSET Rows, usage_ledger : SUBSET Rows]
  /\ costResetAt \in Times /\ lastReset \in Nat
JobTypes ==
  /\ record \in [Posters -> RecordType \cup {Absent}] /\ cutoff \in [Posters -> Times]
  /\ active \in Posters \cup {Absent} /\ pending \in SUBSET [job : Posters, attempts : Nat]
  /\ newer \in [Posters -> SUBSET Rows]
ActorTypes == poster \in [Posters -> PosterType] /\ worker \in [Instances -> WorkerType]
ResetTypeOK == RowTypes /\ JobTypes /\ ActorTypes

Kept == table.message_request \cup table.usage_ledger    \* the rows of either table
OlderGone(rows, cut) == \A r \in rows : created[r] > cut

\* Whatever has a time has it from the clock; a row that is being written to is there; and
\* the marker is only gone when what it kept out is.
RowsOK ==
  /\ \A r \in Rows : created[r] # Absent => created[r] <= clock
  /\ \A r \in Kept : created[r] # Absent
  /\ rowLocks \subseteq table.message_request
  /\ \A j \in Posters : cutoff[j] # Absent => cutoff[j] <= clock
  /\ lastReset <= clock /\ costResetAt \in {Absent, lastReset}
  /\ costResetAt = Absent => OlderGone(Kept, lastReset)

\* The record holds the cut that the first preparation fixed.
Saved(j) ==
  record[j] # Absent /\ cutoff[j] # Absent /\ record[j].cut = cutoff[j]

\* Nobody has heard of a job that has not claimed the user.
Unheard(j) ==
  /\ active # j /\ \A m \in pending : m.job # j
  /\ \A p \in Posters : poster[p].job # j
  /\ \A w \in Instances : worker[w].job # j

Unclaimed == {"new", "claim", "orphan", "look", "evict", "join"}
PosterOK(p) ==
  LET j == poster[p].job IN
  /\ poster[p].at \in Unclaimed => Unheard(p)
  /\ poster[p].at \in {"orphan", "look", "evict", "join", "prepare", "save", "push", "answered"} =>
       j \in Posters /\ record[j] # Absent
  /\ poster[p].at = "claim" => record[p] # Absent
  /\ poster[p].at \in {"new", "claim"} => poster[p].cut = Absent
  /\ poster[p].at \in {"join", "prepare"} /\ poster[p].cut # Absent =>
       Saved(j) /\ poster[p].cut = cutoff[j]
  /\ poster[p].at = "save" => cutoff[j] # Absent /\ poster[p].cut = cutoff[j]
  /\ poster[p].at \in {"push", "answered"} => Saved(j)

\* A job that has ended stays so, unless somebody overwrites its end.
HasEnded(j) == ~IsActive(record[j]) \/ j \in excused
Waits(j) == \E m \in pending : m.job = j
WaitsAgain(j, n) == \E m \in pending : m.job = j /\ m.attempts > n

Executing == {"delete", "report", "last", "check", "finish", "complete", "failed"}
WorkerOK(w) ==
  LET j == worker[w].job  cut == worker[w].cut IN
  /\ worker[w].at \notin {"standby", "idle"} => j \in Posters /\ Saved(j)
  /\ worker[w].at \in Executing \cup {"start"} => cut = cutoff[j]
  /\ worker[w].at \in {"standby", "idle", "found", "leased", "start"} => worker[w].stage = 1
  /\ worker[w].at \in Executing /\ worker[w].stage = 2 => OlderGone(table.message_request, cut)
  /\ worker[w].at \in {"finish", "complete"} =>
       worker[w].stage = 2 /\ OlderGone(table.usage_ledger, cut)
  /\ worker[w].at \in {"remove", "release"} => HasEnded(j)
  /\ worker[w].at = "drop" => HasEnded(j) \/ WaitsAgain(j, worker[w].attempts)

\* What a record says, what a POST was told, and what it may still lose.
JobOK(j) ==
  /\ active = j => record[j] # Absent
  /\ Waits(j) => Saved(j)
  /\ record[j] # Absent /\ record[j].cut # Absent => Saved(j)
  /\ record[j] # Absent /\ record[j].status = "completed" =>
       Saved(j) /\ OlderGone(Kept, cutoff[j])
  /\ \A r \in newer[j] : cutoff[j] # Absent /\ (created[r] # Absent => created[r] > cutoff[j])
  /\ Answered(j) => HasEnded(j) \/ Waits(j)

ResetInv ==
  /\ ResetTypeOK /\ RowsOK
  /\ \A p \in Posters : PosterOK(p)
  /\ \A w \in Instances : WorkerOK(w)
  /\ \A j \in Posters : JobOK(j)

-----------------------------------------------------------------------------
LEMMA NoSuchJob ==
  /\ Absent \notin Posters /\ Absent \notin Nat /\ Absent \notin RecordType
  /\ BatchSize \in Nat /\ Times = Nat \cup {Absent}
BY ResetAssumption DEF Times

\* What a command writes is a record.
LEMMA ARecord ==
  ASSUME NEW status \in {"queued", "running", "completed", "failed"}, NEW cut \in Times
  PROVE  /\ Record(status, cut) \in RecordType /\ Record(status, cut) # Absent
         /\ Record(status, cut).status = status /\ Record(status, cut).cut = cut
<1>1. Record(status, cut) \in RecordType
  BY DEF Record, RecordType
<1> QED BY <1>1, NoSuchJob DEF Record

LEMMA ResetStarts == ResetInit => ResetInv
<1> SUFFICES ASSUME ResetInit PROVE ResetInv
  OBVIOUS
<1> USE DEF ResetInit
<1>1. ResetTypeOK
  <2>1. RowTypes
    BY NoSuchJob DEF RowTypes
  <2>2. JobTypes
    BY NoSuchJob DEF JobTypes
  <2>3. NewPost \in PosterType /\ Standby \in WorkerType
    BY NoSuchJob DEF NewPost, Standby, PosterType, WorkerType, PosterStates, WorkerStates, Times
  <2>4. ActorTypes
    BY <2>3 DEF ActorTypes
  <2> QED BY <2>1, <2>2, <2>4 DEF ResetTypeOK
<1>2. RowsOK
  BY NoSuchJob DEF RowsOK, Kept, OlderGone
<1>3. \A p \in Posters : PosterOK(p)
  BY NoSuchJob DEF PosterOK, Unheard, NewPost, Standby
<1>4. \A w \in Instances : WorkerOK(w)
  BY DEF WorkerOK, Standby, Executing
<1>5. \A j \in Posters : JobOK(j)
  BY NoSuchJob DEF JobOK, Waits, Answered, NewPost
<1> QED BY <1>1, <1>2, <1>3, <1>4, <1>5 DEF ResetInv

-----------------------------------------------------------------------------
(* The data plane: rows come and are settled, the limits are reset, a session ends. *)

DataStep ==
  \/ \E r \in Rows : InsertRow(r) \/ UpdateRow(r) \/ CommitRow(r)
  \/ ResetAdminUserCostMarkers \/ SessionLost

LEMMA DataTypes == ASSUME ResetInv, DataStep PROVE ResetTypeOK'
<1> USE DEF ResetInv, ResetTypeOK, RowTypes, JobTypes, ActorTypes
<1>1. ASSUME NEW r \in Rows, InsertRow(r) PROVE ResetTypeOK'
  BY <1>1 DEF InsertRow, jobVars, Times
<1>2. ASSUME NEW r \in Rows, UpdateRow(r) PROVE ResetTypeOK'
  BY <1>2 DEF UpdateRow, jobVars
<1>3. ASSUME NEW r \in Rows, CommitRow(r) PROVE ResetTypeOK'
  BY <1>3 DEF CommitRow, jobVars
<1>4. ASSUME ResetAdminUserCostMarkers PROVE ResetTypeOK'
  BY <1>4 DEF ResetAdminUserCostMarkers, jobVars, Times
<1>5. ASSUME SessionLost PROVE ResetTypeOK'
  BY <1>5 DEF SessionLost, jobVars, rowVars
<1> QED BY <1>1, <1>2, <1>3, <1>4, <1>5 DEF DataStep

\* Rows that come are younger than every cut there is, and the ledger gets no others.
LEMMA DataRows ==
  ASSUME ResetInv, DataStep
  PROVE  /\ RowsOK'
         /\ \A cut \in Nat : cut <= clock =>
              /\ OlderGone(table.message_request, cut) => OlderGone(table.message_request, cut)'
              /\ OlderGone(Kept, cut) => OlderGone(Kept, cut)'
              /\ OlderGone(table.message_request, cut) /\ OlderGone(table.usage_ledger, cut) =>
                   OlderGone(table.usage_ledger, cut)'
         /\ \A r \in Rows : created[r] # Absent => created'[r] = created[r]
         /\ \A r \in Rows : created[r] = Absent /\ created'[r] # Absent => created'[r] > clock
         /\ clock' >= clock
<1> USE NoSuchJob DEF ResetInv, ResetTypeOK, RowTypes, JobTypes, RowsOK, OlderGone, Kept
<1>1. ASSUME NEW r \in Rows, InsertRow(r)
      PROVE /\ clock' = clock + 1 /\ created[r] = Absent
            /\ created'[r] = clock + 1 /\ \A s \in Rows : s # r => created'[s] = created[s]
            /\ table'.message_request = table.message_request \cup {r}
            /\ table'.usage_ledger = table.usage_ledger
            /\ UNCHANGED <<rowLocks, costResetAt, lastReset, cutoff>>
  BY <1>1 DEF InsertRow, jobVars
<1>2. ASSUME NEW r \in Rows, UpdateRow(r)
      PROVE /\ UNCHANGED <<clock, created, table, costResetAt, lastReset, cutoff>>
            /\ rowLocks' = rowLocks \cup {r} /\ r \in table.message_request
  BY <1>2 DEF UpdateRow, jobVars
<1>3. ASSUME NEW r \in Rows, CommitRow(r)
      PROVE /\ UNCHANGED <<clock, created, costResetAt, lastReset, cutoff>>
            /\ rowLocks' \subseteq rowLocks /\ r \in table.message_request
            /\ table'.message_request = table.message_request
            /\ table.usage_ledger \subseteq table'.usage_ledger
            /\ table'.usage_ledger \subseteq table.usage_ledger \cup {r}
  BY <1>3 DEF CommitRow, jobVars
<1>4. ASSUME ResetAdminUserCostMarkers
      PROVE /\ UNCHANGED <<created, table, rowLocks, cutoff>>
            /\ clock' = clock + 1 /\ costResetAt' = clock + 1 /\ lastReset' = clock + 1
  BY <1>4 DEF ResetAdminUserCostMarkers, jobVars
<1>5. ASSUME SessionLost PROVE UNCHANGED <<clock, rowVars, cutoff>>
  BY <1>5 DEF SessionLost, jobVars
<1>6. CASE \E r \in Rows : InsertRow(r)
  <2>1. PICK r \in Rows : InsertRow(r)
    BY <1>6
  <2> QED BY <2>1, <1>1
<1>7. CASE \E r \in Rows : UpdateRow(r)
  BY <1>7, <1>2
<1>8. CASE \E r \in Rows : CommitRow(r)
  BY <1>8, <1>3
<1>9. CASE ResetAdminUserCostMarkers
  BY <1>9, <1>4
<1>10. CASE SessionLost
  BY <1>10, <1>5 DEF rowVars
<1> QED BY <1>6, <1>7, <1>8, <1>9, <1>10 DEF DataStep

LEMMA DataKeeps == ASSUME ResetInv, DataStep PROVE ResetInv'
<1>1. UNCHANGED <<record, cutoff, active, pending, newer, excused, worker, poster>>
  BY DEF DataStep, InsertRow, UpdateRow, CommitRow, ResetAdminUserCostMarkers, SessionLost, jobVars
<1>2. /\ \A j \in Posters : cutoff[j] # Absent => cutoff[j] \in Nat /\ cutoff[j] <= clock
      /\ created \in [Rows -> Times] /\ newer \in [Posters -> SUBSET Rows] /\ clock \in Nat
  BY NoSuchJob DEF ResetInv, ResetTypeOK, RowTypes, JobTypes, RowsOK
<1>3. \A p \in Posters : PosterOK(p)'
  BY <1>1 DEF ResetInv, PosterOK, Saved, Unheard
<1>4. ASSUME NEW w \in Instances PROVE WorkerOK(w)'
  <2>1. WorkerOK(w)
    BY DEF ResetInv
  <2> QED BY <2>1, <1>1, <1>2, DataRows DEF WorkerOK, Saved, HasEnded, WaitsAgain, Executing
<1>5. ASSUME NEW j \in Posters PROVE JobOK(j)'
  <2>1. JobOK(j)
    BY DEF ResetInv
  <2>2. \A r \in newer[j] : cutoff[j] # Absent /\ (created'[r] # Absent => created'[r] > cutoff[j])
    <3>1. ASSUME NEW r \in newer[j] PROVE cutoff[j] # Absent /\ (created'[r] # Absent => created'[r] > cutoff[j])
      <4>1. r \in Rows /\ cutoff[j] # Absent /\ (created[r] # Absent => created[r] > cutoff[j])
        BY <2>1, <1>2 DEF JobOK
      <4>2. cutoff[j] \in Nat /\ cutoff[j] <= clock /\ clock \in Nat
        BY <4>1, <1>2
      <4>3. created'[r] \in Times
        BY <4>1, DataTypes DEF ResetTypeOK, RowTypes
      <4>4. CASE created[r] # Absent
        BY <4>1, <4>4, DataRows
      <4>5. CASE created[r] = Absent /\ created'[r] # Absent
        <5>1. created'[r] > clock /\ created'[r] \in Nat
          BY <4>1, <4>3, <4>5, DataRows, NoSuchJob
        <5> QED BY <5>1, <4>1, <4>2
      <4> QED BY <4>1, <4>4, <4>5
    <3> QED BY <3>1
  <2> QED BY <2>1, <2>2, <1>1, <1>2, DataRows DEF JobOK, Saved, HasEnded, Waits, Answered
<1> QED BY <1>3, <1>4, <1>5, DataTypes, DataRows DEF ResetInv

-----------------------------------------------------------------------------
(* A POST.  What it may change is told by PostEffect; that the others, the jobs and the
   rows stand what it changes is told once. *)

Uncreated == {r \in Rows : created[r] = Absent}

PostEffect(p) ==
  LET k == poster[p].job IN
  /\ UNCHANGED <<rowVars, worker>>
  /\ clock' \in {clock, clock + 1} /\ excused \subseteq excused'
  /\ \A q \in Posters \ {p} : poster'[q] = poster[q]
  /\ \A j \in Posters :
       \/ record'[j] = record[j]
       \/ /\ j = p /\ Unheard(p)
          /\ record'[j] # Absent => record'[j].cut = Absent /\ record'[j].status = "queued"
       \/ /\ record'[j] # Absent /\ record'[j].status = "queued"
          /\ cutoff[j] # Absent /\ record'[j].cut = cutoff[j]
          /\ ~Unheard(j) /\ (HasEnded(j) => j \in excused')
  /\ \A j \in Posters :
       cutoff'[j] = cutoff[j] \/ (cutoff[j] = Absent /\ cutoff'[j] = clock + 1 /\ clock' = clock + 1)
  /\ active' \in {active, Absent} \/ (active' = p /\ record'[p] # Absent)
  /\ pending \subseteq pending' /\ \A m \in pending' : m \in pending \/ (m.job = k /\ Saved(k))
  /\ \A j \in Posters : newer'[j] = newer[j] \/ (Saved(j) /\ newer'[j] = Uncreated)
  /\ poster'[p].job \in {poster[p].job, Absent, active, p}
  /\ poster[p].at # "answered"
  /\ poster'[p].at = "answered" => (\E m \in pending' : m.job = poster'[p].job)

LEMMA PostTypes == ASSUME ResetInv, NEW p \in Posters, Post(p) PROVE ResetTypeOK'
<1> USE DEF ResetInv, ResetTypeOK, JobTypes, ActorTypes
<1>1. RowTypes'
  <2>1. clock' \in Nat
    BY DEF Post, WriteQueued, ClaimActive, DeleteOwn, LookAtExisting, Evict, JoinExisting,
      EnsurePrepared, SavePrepared, PushJob, PostFails, RowTypes
  <2>2. UNCHANGED rowVars
    BY DEF Post, WriteQueued, ClaimActive, DeleteOwn, LookAtExisting, Evict, JoinExisting,
      EnsurePrepared, SavePrepared, PushJob, PostFails, PosterOnly
  <2> QED BY <2>1, <2>2 DEF RowTypes, rowVars
<1>2. worker' \in [Instances -> WorkerType]
  BY DEF Post, WriteQueued, ClaimActive, DeleteOwn, LookAtExisting, Evict, JoinExisting,
    EnsurePrepared, SavePrepared, PushJob, PostFails, PosterOnly
<1>3. /\ poster[p] \in PosterType /\ poster[p].job \in Posters \cup {Absent}
      /\ poster[p].cut \in Times /\ clock \in Nat /\ clock + 1 \in Times /\ Absent \in Times
      /\ active \in Posters \cup {Absent}
  BY NoSuchJob DEF PosterType, RowTypes
<1>4. /\ NewPost \in PosterType
      /\ \A at \in PosterStates : [NewPost EXCEPT !.at = at] \in PosterType
      /\ [NewPost EXCEPT !.again = TRUE] \in PosterType
  BY NoSuchJob DEF PosterType, PosterStates, NewPost, Times
<1>5. \A at \in PosterStates, job \in Posters \cup {Absent}, cut \in Times :
        /\ [poster[p] EXCEPT !.at = at] \in PosterType
        /\ [poster[p] EXCEPT !.at = at, !.job = job] \in PosterType
        /\ [poster[p] EXCEPT !.at = at, !.cut = cut] \in PosterType
  BY <1>3 DEF PosterType
<1>6. PosterOK(p)
  OBVIOUS
<1>7. poster' \in [Posters -> PosterType]
  <2>1. CASE WriteQueued(p)
    BY <2>1, <1>5 DEF PosterStates, WriteQueued, GoOn
  <2>2. CASE ClaimActive(p)
    <3>1. p \in Posters /\ "prepare" \in PosterStates /\ "orphan" \in PosterStates
      BY DEF PosterStates
    <3>2. poster' = [poster EXCEPT ![p] = poster'[p]]
      BY <2>2 DEF ClaimActive
    <3>3. poster'[p] \in PosterType
      BY <2>2, <3>1, <1>3 DEF ClaimActive, PosterType
    <3> QED BY <3>2, <3>3
  <2>3. CASE DeleteOwn(p)
    BY <2>3, <1>5 DEF PosterStates, DeleteOwn, GoOn
  <2>4. CASE LookAtExisting(p)
    <3>1. IsActive(record[poster[p].job]) => record[poster[p].job].cut \in Times
      BY <2>4, <1>6 DEF LookAtExisting, PosterOK, IsActive, RecordType
    <3>2. poster' = [poster EXCEPT ![p] = poster'[p]] /\ poster'[p] \in PosterType
      BY <2>4, <1>5, <3>1 DEF PosterStates, LookAtExisting
    <3> QED BY <3>2
  <2>5. CASE Evict(p)
    <3>1. poster' = [poster EXCEPT ![p] = poster'[p]] /\ poster'[p] \in PosterType
      BY <2>5, <1>4 DEF PosterStates, Evict
    <3> QED BY <3>1
  <2>6. CASE JoinExisting(p)
    BY <2>6, <1>3, <1>5 DEF PosterStates, JoinExisting, GoOn, Answer
  <2>7. CASE EnsurePrepared(p)
    <3>1. poster[p].cut = Absent => Prepared(poster[p].job) \in Times
      BY <2>7, <1>3, <1>6 DEF EnsurePrepared, Prepared, PosterOK
    <3> QED BY <2>7, <1>5, <3>1 DEF PosterStates, EnsurePrepared, GoOn
  <2>8. CASE SavePrepared(p)
    BY <2>8, <1>5 DEF PosterStates, SavePrepared, GoOn
  <2>9. CASE PushJob(p)
    BY <2>9, <1>3, <1>5 DEF PosterStates, PushJob, Answer
  <2>10. CASE PostFails(p)
    BY <2>10, <1>4 DEF PosterStates, PostFails
  <2> QED BY <2>1, <2>2, <2>3, <2>4, <2>5, <2>6, <2>7, <2>8, <2>9, <2>10 DEF Post
<1>8. record' \in [Posters -> RecordType \cup {Absent}]
  <2>1. CASE WriteQueued(p)
    BY <2>1, <1>3, ARecord DEF WriteQueued, WriteRecord
  <2>2. CASE DeleteOwn(p)
    BY <2>2 DEF DeleteOwn
  <2>3. CASE SavePrepared(p)
    BY <2>3, <1>3, <1>6, ARecord DEF SavePrepared, WriteRecord, PosterOK
  <2> QED BY <2>1, <2>2, <2>3 DEF Post, ClaimActive, LookAtExisting, Evict, JoinExisting,
      EnsurePrepared, PushJob, PostFails, jobVars
<1>9. cutoff' \in [Posters -> Times]
  <2>1. CASE EnsurePrepared(p)
    BY <2>1, <1>3, <1>6 DEF EnsurePrepared, Prepared, PosterOK
  <2> QED BY <2>1 DEF Post, WriteQueued, ClaimActive, DeleteOwn, LookAtExisting, Evict,
      JoinExisting, SavePrepared, PushJob, PostFails, jobVars
<1>10. active' \in Posters \cup {Absent}
  BY DEF Post, WriteQueued, ClaimActive, DeleteOwn, LookAtExisting, Evict, JoinExisting,
    EnsurePrepared, SavePrepared, PushJob, PostFails, jobVars
<1>11. pending' \in SUBSET [job : Posters, attempts : Nat]
  <2>1. CASE PushJob(p)
    BY <2>1, <1>6 DEF PushJob, Queued, PosterOK
  <2> QED BY <2>1 DEF Post, WriteQueued, ClaimActive, DeleteOwn, LookAtExisting, Evict,
      JoinExisting, EnsurePrepared, SavePrepared, PostFails, jobVars
<1>12. newer' \in [Posters -> SUBSET Rows]
  <2>1. CASE Answer(p)
    BY <2>1 DEF Answer
  <2> QED BY <2>1 DEF Post, WriteQueued, ClaimActive, DeleteOwn, LookAtExisting, Evict,
      JoinExisting, EnsurePrepared, SavePrepared, PushJob, PostFails, jobVars
<1> QED BY <1>1, <1>2, <1>7, <1>8, <1>9, <1>10, <1>11, <1>12

\* Each command writes what the cut, the claim and the queue allow.
LEMMA PostDoes == ASSUME ResetInv, NEW p \in Posters, Post(p) PROVE PostEffect(p)
<1> USE NoSuchJob DEF PosterOnly, Fine, Fault, jobVars
<1>1. PosterOK(p) /\ poster \in [Posters -> PosterType] /\ clock \in Nat
  BY DEF ResetInv, ResetTypeOK, ActorTypes, RowTypes
<1>2. /\ record \in [Posters -> RecordType \cup {Absent}] /\ cutoff \in [Posters -> Times]
      /\ newer \in [Posters -> SUBSET Rows] /\ \A m \in pending : Saved(m.job)
  BY DEF ResetInv, ResetTypeOK, JobTypes, JobOK, Waits
<1>3. poster[p].job \in Posters => ~Unheard(poster[p].job)
  BY DEF Unheard
<1>0. poster[p].at # "answered"
  BY DEF Post, WriteQueued, ClaimActive, DeleteOwn, LookAtExisting, Evict, JoinExisting,
    EnsurePrepared, SavePrepared, PushJob, PostFails
<1>4. CASE WriteQueued(p)
  <2>1. Unheard(p)
    BY <1>1, <1>4 DEF WriteQueued, PosterOK, Unclaimed
  <2>2. /\ record'[p].cut = Absent /\ record'[p].status = "queued"
        /\ \A j \in Posters \ {p} : record'[j] = record[j]
    BY <1>2, <1>4 DEF WriteQueued, WriteRecord, Record
  <2>3. poster'[p].job = poster[p].job /\ poster'[p].at = "claim"
    BY <1>1, <1>4 DEF WriteQueued, GoOn, PosterType
  <2> QED BY <1>0, <2>1, <2>2, <2>3, <1>1, <1>4 DEF WriteQueued, WriteRecord, GoOn, PostEffect
<1>5. CASE ClaimActive(p)
  <2>1. record[p] # Absent
    BY <1>1, <1>5 DEF ClaimActive, PosterOK
  <2>2. /\ poster'[p].job \in {active, p} /\ poster'[p].at \in {"prepare", "orphan"}
        /\ active' \in {active, p} /\ \A q \in Posters \ {p} : poster'[q] = poster[q]
    BY <1>1, <1>5 DEF ClaimActive, PosterType
  <2> QED BY <1>0, <2>1, <2>2, <1>5 DEF ClaimActive, PostEffect
<1>6. CASE DeleteOwn(p)
  <2>1. Unheard(p)
    BY <1>1, <1>6 DEF DeleteOwn, PosterOK, Unclaimed
  <2>2. \A j \in Posters : record'[j] = record[j] \/ (j = p /\ record'[j] = Absent)
    BY <1>2, <1>6 DEF DeleteOwn
  <2>3. poster'[p].job = poster[p].job /\ poster'[p].at = "look"
    BY <1>1, <1>6 DEF DeleteOwn, GoOn, PosterType
  <2> QED BY <1>0, <2>1, <2>2, <2>3, <1>6 DEF DeleteOwn, GoOn, PostEffect
<1>7. CASE LookAtExisting(p)
  <2>1. /\ poster'[p].job = poster[p].job /\ poster'[p].at \in {"join", "evict"}
        /\ \A q \in Posters \ {p} : poster'[q] = poster[q]
    BY <1>1, <1>7 DEF LookAtExisting, PosterType
  <2> QED BY <1>0, <2>1, <1>7 DEF LookAtExisting, PostEffect
<1>8. CASE Evict(p)
  <2>1. /\ poster'[p].job = Absent /\ poster'[p].at \in {"error", "new"}
        /\ \A q \in Posters \ {p} : poster'[q] = poster[q]
    BY <1>1, <1>8 DEF Evict, NewPost
  <2> QED BY <1>0, <2>1, <1>8 DEF Evict, PostEffect
<1>9. CASE JoinExisting(p)
  <2>1. /\ poster'[p].job = poster[p].job
        /\ \A q \in Posters \ {p} : poster'[q] = poster[q]
    BY <1>1, <1>9 DEF JoinExisting, Answer, GoOn, PosterType
  <2>2. poster[p].job \in Posters
    BY <1>1, <1>9 DEF JoinExisting, PosterOK
  <2>3. CASE Waits(poster[p].job)
    <3>1. Saved(poster[p].job) /\ Waits(poster[p].job)'
      BY <2>1, <2>3, <1>2, <1>9 DEF JoinExisting, Waits
    <3>2. \A j \in Posters : newer'[j] = newer[j] \/ (j = poster[p].job /\ newer'[j] = Uncreated)
      BY <2>2, <2>3, <1>2, <1>9 DEF JoinExisting, Waits, Answer, Uncreated
    <3>3. (\E m \in pending' : m.job = poster'[p].job)
      BY <2>1, <2>3, <1>9 DEF JoinExisting, Waits
    <3> QED BY <1>0, <2>1, <3>1, <3>2, <3>3, <1>9 DEF JoinExisting, PostEffect
  <2>4. CASE ~Waits(poster[p].job)
    <3>1. poster'[p].at = "prepare" /\ newer' = newer
      BY <2>4, <1>1, <1>9 DEF JoinExisting, Waits, GoOn, PosterType
    <3> QED BY <1>0, <2>1, <3>1, <1>9 DEF JoinExisting, PostEffect
  <2> QED BY <2>3, <2>4
<1>10. CASE EnsurePrepared(p)
  <2>1. /\ poster'[p].job = poster[p].job /\ poster'[p].at \in {"push", "save"}
        /\ \A q \in Posters \ {p} : poster'[q] = poster[q]
    BY <1>1, <1>10 DEF EnsurePrepared, GoOn, PosterType
  <2>2. /\ clock' \in {clock, clock + 1}
        /\ \A j \in Posters :
             cutoff'[j] = cutoff[j] \/ (cutoff[j] = Absent /\ cutoff'[j] = clock + 1 /\ clock' = clock + 1)
    <3>1. CASE poster[p].cut # Absent
      BY <3>1, <1>10 DEF EnsurePrepared
    <3>2. CASE poster[p].cut = Absent
      <4>1. poster[p].job \in Posters /\ cutoff[poster[p].job] \in Times
        BY <1>1, <1>2, <1>10 DEF EnsurePrepared, PosterOK
      <4>2. cutoff[poster[p].job] # Absent => cutoff[poster[p].job] <= clock
        BY <4>1 DEF ResetInv, RowsOK
      <4>3. CASE cutoff[poster[p].job] # Absent
        BY <4>1, <4>2, <4>3, <3>2, <1>2, <1>1, <1>10 DEF EnsurePrepared, Prepared
      <4>4. CASE cutoff[poster[p].job] = Absent
        BY <4>1, <4>4, <3>2, <1>2, <1>1, <1>10 DEF EnsurePrepared, Prepared
      <4> QED BY <4>3, <4>4
    <3> QED BY <3>1, <3>2
  <2> QED BY <1>0, <2>1, <2>2, <1>10 DEF EnsurePrepared, PostEffect
<1>11. CASE SavePrepared(p)
  <2> DEFINE k == poster[p].job
  <2>1. k \in Posters /\ record[k] # Absent /\ cutoff[k] # Absent /\ poster[p].cut = cutoff[k]
    BY <1>1, <1>11 DEF SavePrepared, PosterOK
  <2>2. /\ record'[k] # Absent /\ record'[k].status = "queued" /\ record'[k].cut = cutoff[k]
        /\ \A j \in Posters \ {k} : record'[j] = record[j]
        /\ excused \subseteq excused' /\ (HasEnded(k) => k \in excused')
    <3>1. cutoff[k] \in Times
      BY <2>1, <1>2
    <3>2. /\ Record("queued", cutoff[k]) # Absent /\ Record("queued", cutoff[k]).status = "queued"
          /\ Record("queued", cutoff[k]).cut = cutoff[k]
      BY <3>1, ARecord
    <3> QED BY <2>1, <3>2, <1>2, <1>11 DEF SavePrepared, WriteRecord, HasEnded
  <2>3. poster'[p].job = k /\ poster'[p].at = "push" /\ \A q \in Posters \ {p} : poster'[q] = poster[q]
    BY <1>1, <1>11 DEF SavePrepared, GoOn, PosterType
  <2> QED BY <1>0, <2>1, <2>2, <2>3, <1>3, <1>1, <1>11 DEF SavePrepared, PostEffect
<1>12. CASE PushJob(p)
  <2>1. /\ poster'[p].job = poster[p].job
        /\ \A q \in Posters \ {p} : poster'[q] = poster[q]
    BY <1>1, <1>12 DEF PushJob, Answer, PosterType
  <2>2. poster[p].job \in Posters /\ Saved(poster[p].job)
    BY <1>1, <1>12 DEF PushJob, PosterOK
  <2>3. (\E m \in pending' : m.job = poster'[p].job)
    <3>1. Queued(poster[p].job, 0) \in pending' /\ Queued(poster[p].job, 0).job = poster[p].job
      BY <1>12 DEF PushJob, Queued
    <3> QED BY <2>1, <3>1
  <2>4. \A j \in Posters : newer'[j] = newer[j] \/ (j = poster[p].job /\ newer'[j] = Uncreated)
    BY <2>2, <1>2, <1>12 DEF PushJob, Answer, Uncreated
  <2>5. pending \subseteq pending' /\ \A m \in pending' : m \in pending \/ m.job = poster[p].job
    BY <1>12 DEF PushJob, Queued
  <2> QED BY <1>0, <2>1, <2>2, <2>3, <2>4, <2>5, <1>12 DEF PushJob, PostEffect
<1>13. CASE PostFails(p)
  <2>1. /\ poster'[p].job = Absent /\ poster'[p].at = "error"
        /\ \A q \in Posters \ {p} : poster'[q] = poster[q]
    BY <1>1, <1>13 DEF PostFails, NewPost
  <2> QED BY <1>0, <2>1, <1>13 DEF PostFails, PostEffect
<1> QED BY <1>4, <1>5, <1>6, <1>7, <1>8, <1>9, <1>10, <1>11, <1>12, <1>13 DEF Post

\* What is saved, was heard of or has ended stays so.
LEMMA PostStays ==
  ASSUME ResetInv, NEW p \in Posters, PostEffect(p)
  PROVE  /\ \A j \in Posters : cutoff[j] # Absent => cutoff'[j] = cutoff[j]
         /\ \A j \in Posters : ~Unheard(j) =>
              /\ record[j] # Absent => record'[j] # Absent
              /\ Saved(j) => Saved(j)'
              /\ record[j] # Absent /\ HasEnded(j) => HasEnded(j)'
         /\ \A j \in Posters \ {p} : Unheard(j) => Unheard(j)'
<1>1. \A j \in Posters : cutoff[j] # Absent => cutoff'[j] = cutoff[j]
  BY DEF PostEffect
<1>2. ASSUME NEW j \in Posters, ~Unheard(j)
      PROVE  /\ record[j] # Absent => record'[j] # Absent
             /\ Saved(j) => Saved(j)'
             /\ record[j] # Absent /\ HasEnded(j) => HasEnded(j)'
  <2>1. CASE record'[j] = record[j]
    BY <2>1, <1>1 DEF PostEffect, Saved, HasEnded
  <2>2. CASE record'[j] # record[j]
    <3>1. /\ record'[j] # Absent /\ cutoff[j] # Absent /\ record'[j].cut = cutoff[j]
          /\ HasEnded(j) => j \in excused'
      BY <2>2, <1>2 DEF PostEffect
    <3> QED BY <3>1, <1>1 DEF Saved, HasEnded
  <2> QED BY <2>1, <2>2
<1>3. ASSUME NEW j \in Posters \ {p}, Unheard(j) PROVE Unheard(j)'
  <2>1. poster[p].job # j /\ active # j /\ Absent # j
    BY <1>3, NoSuchJob DEF Unheard
  <2>2. active' # j /\ \A m \in pending' : m.job # j
    BY <2>1, <1>3 DEF PostEffect, Unheard
  <2>3. ASSUME NEW q \in Posters PROVE poster'[q].job # j
    BY <2>1, <1>3 DEF PostEffect, Unheard
  <2>4. \A w \in Instances : worker'[w].job # j
    BY <1>3 DEF PostEffect, Unheard
  <2> QED BY <2>2, <2>3, <2>4 DEF Unheard
<1> QED BY <1>1, <1>2, <1>3

LEMMA PostOthers ==
  ASSUME ResetInv, NEW p \in Posters, PostEffect(p), ResetTypeOK'
  PROVE  /\ RowsOK'
         /\ \A q \in Posters \ {p} : PosterOK(q)'
         /\ \A w \in Instances : WorkerOK(w)'
         /\ \A j \in Posters : JobOK(j)'
<1>1. /\ clock \in Nat /\ created \in [Rows -> Times] /\ lastReset \in Nat /\ clock' >= clock
      /\ cutoff \in [Posters -> Times] /\ newer \in [Posters -> SUBSET Rows]
  BY DEF ResetInv, ResetTypeOK, RowTypes, JobTypes, PostEffect
<1>6. clock' \in Nat
  BY DEF ResetTypeOK, RowTypes
<1>2. RowsOK'
  <2>1. UNCHANGED <<created, table, rowLocks, costResetAt, lastReset>>
    BY DEF PostEffect, rowVars
  <2>2. \A j \in Posters : cutoff'[j] # Absent => cutoff'[j] <= clock'
    BY <1>1, NoSuchJob DEF ResetInv, RowsOK, PostEffect, Times
  <2>3. \A r \in Rows : created'[r] # Absent => created'[r] <= clock'
    BY <2>1, <1>1, NoSuchJob DEF ResetInv, RowsOK, PostEffect, Times
  <2>4. lastReset' <= clock'
    <3>1. lastReset <= clock
      BY DEF ResetInv, RowsOK
    <3> QED BY <3>1, <2>1, <1>1, <1>6
  <2> QED BY <2>1, <2>2, <2>3, <2>4 DEF ResetInv, RowsOK, OlderGone, Kept
<1>3. ASSUME NEW q \in Posters \ {p} PROVE PosterOK(q)'
  <2>1. PosterOK(q) /\ poster'[q] = poster[q]
    BY DEF ResetInv, PostEffect
  <2>2. poster[q].job \in Posters => ~Unheard(poster[q].job)
    BY DEF Unheard
  <2>3. poster[q].at = "claim" => record'[q] # Absent
    <3>1. poster[q].at = "claim" => record[q] # Absent /\ Unheard(q)
      BY <2>1 DEF PosterOK, Unclaimed
    <3> QED BY <3>1 DEF PostEffect
  <2>4. poster[q].at \in Unclaimed => Unheard(q)'
    BY <2>1, PostStays DEF PosterOK
  <2> QED BY <2>1, <2>2, <2>3, <2>4, PostStays DEF PosterOK, Saved
<1>4. ASSUME NEW w \in Instances PROVE WorkerOK(w)'
  <2>1. WorkerOK(w) /\ worker'[w] = worker[w] /\ UNCHANGED <<created, table>> /\ pending \subseteq pending'
    BY DEF ResetInv, PostEffect, rowVars
  <2>2. worker[w].job \in Posters => ~Unheard(worker[w].job)
    BY DEF Unheard
  <2>3. worker[w].at \notin {"standby", "idle"} =>
          /\ Saved(worker[w].job)' /\ cutoff'[worker[w].job] = cutoff[worker[w].job]
          /\ HasEnded(worker[w].job) => HasEnded(worker[w].job)'
    BY <2>1, <2>2, PostStays DEF WorkerOK, Saved
  <2> QED BY <2>1, <2>3 DEF WorkerOK, OlderGone, WaitsAgain, Executing
<1>5. ASSUME NEW j \in Posters PROVE JobOK(j)'
  <2>1. JobOK(j) /\ UNCHANGED <<created, table>>
    BY DEF ResetInv, PostEffect, rowVars
  <2>2. active' = j => record'[j] # Absent
    <3>1. active = j => ~Unheard(j)
      BY DEF Unheard
    <3> QED BY <3>1, <2>1, NoSuchJob, PostStays DEF PostEffect, JobOK
  <2>3. Waits(j)' => Saved(j)'
    <3>1. ASSUME NEW m \in pending', m.job = j PROVE Saved(j) /\ ~Unheard(j)
      BY <3>1, <2>1 DEF PostEffect, JobOK, Waits, Unheard
    <3> QED BY <3>1, PostStays DEF Waits
  <2>4. record'[j] # Absent /\ record'[j].cut # Absent => Saved(j)'
    BY <2>1, PostStays DEF PostEffect, JobOK, Saved
  <2>5. record'[j] # Absent /\ record'[j].status = "completed" => Saved(j)' /\ OlderGone(Kept, cutoff[j])'
    <3>1. record'[j] # Absent /\ record'[j].status = "completed" => record'[j] = record[j]
      BY DEF PostEffect
    <3> QED BY <3>1, <2>1, PostStays DEF JobOK, Saved, OlderGone, Kept
  <2>6. \A r \in newer'[j] : cutoff'[j] # Absent /\ (created'[r] # Absent => created'[r] > cutoff'[j])
    <3>1. CASE newer'[j] = newer[j]
      BY <3>1, <2>1, PostStays DEF JobOK
    <3>2. CASE newer'[j] # newer[j]
      BY <3>2, <2>1, PostStays DEF PostEffect, Saved, Uncreated
    <3> QED BY <3>1, <3>2
  <2>7. Answered(j)' => HasEnded(j)' \/ Waits(j)'
    <3>1. Waits(j) => Waits(j)'
      BY DEF PostEffect, Waits
    <3>2. ASSUME NEW q \in Posters, poster'[q].at = "answered", poster'[q].job = j
          PROVE Answered(j) \/ Waits(j)'
      <4>1. CASE q = p
        BY <4>1, <3>2 DEF PostEffect, Answered, Waits
      <4>2. CASE q # p
        BY <4>2, <3>2 DEF PostEffect, Answered
      <4> QED BY <4>1, <4>2
    <3>3. Answered(j) => ~Unheard(j) /\ record[j] # Absent
      BY DEF Answered, Unheard, ResetInv, PosterOK
    <3> QED BY <3>1, <3>2, <3>3, <2>1, PostStays DEF Answered, JobOK
  <2> QED BY <2>2, <2>3, <2>4, <2>5, <2>6, <2>7 DEF JobOK
<1> QED BY <1>2, <1>3, <1>4, <1>5

\* The POST itself, step by step.
LEMMA PostActor ==
  ASSUME ResetInv, NEW p \in Posters, Post(p), PostEffect(p), ResetTypeOK' PROVE PosterOK(p)'
<1> USE NoSuchJob DEF PosterOnly, Fine, Fault, jobVars
<1>1. PosterOK(p) /\ poster \in [Posters -> PosterType] /\ clock \in Nat
  BY DEF ResetInv, ResetTypeOK, ActorTypes, RowTypes
<1>2. /\ record \in [Posters -> RecordType \cup {Absent}] /\ cutoff \in [Posters -> Times]
      /\ active \in Posters \cup {Absent}
      /\ \A j \in Posters : active = j => record[j] # Absent
      /\ \A j \in Posters : record[j] # Absent /\ record[j].cut # Absent => Saved(j)
  BY DEF ResetInv, ResetTypeOK, JobTypes, JobOK
<1>3. /\ poster[p].job \in Posters => ~Unheard(poster[p].job)
      /\ active \in Posters => ~Unheard(active)
  BY DEF Unheard
<1>4. CASE WriteQueued(p)
  <2>1. Unheard(p)
    BY <1>1, <1>4 DEF WriteQueued, PosterOK, Unclaimed
  <2>2. poster'[p].job = poster[p].job /\ poster'[p].at = "claim" /\ poster'[p].cut = poster[p].cut
    BY <1>1, <1>4 DEF WriteQueued, GoOn, PosterType
  <2>3. Unheard(p)'
    BY <2>1, <2>2, <1>4 DEF WriteQueued, GoOn, Unheard, rowVars
  <2>4. record'[p] # Absent
    BY <1>2, <1>4, ARecord DEF WriteQueued, WriteRecord, Times
  <2>5. poster'[p].cut = Absent
    BY <2>2, <1>1, <1>4 DEF WriteQueued, PosterOK
  <2> QED BY <2>2, <2>3, <2>4, <2>5 DEF PosterOK
<1>5. CASE ClaimActive(p)
  <2>1. record[p] # Absent /\ Unheard(p)
    BY <1>1, <1>5 DEF ClaimActive, PosterOK, Unclaimed
  <2>2. CASE active = Absent
    <3>1. /\ poster'[p].at = "prepare" /\ poster'[p].job = p /\ poster'[p].cut = poster[p].cut
      BY <2>2, <1>1, <1>5 DEF ClaimActive, PosterType
    <3>2. poster[p].cut = Absent
      BY <1>1, <1>5 DEF ClaimActive, PosterOK
    <3> QED BY <3>1, <3>2, <2>1, <1>5 DEF ClaimActive, PosterOK, Unclaimed
  <2>3. CASE active # Absent
    <3>1. /\ poster'[p].at = "orphan" /\ poster'[p].job = active /\ active' = active
          /\ \A q \in Posters \ {p} : poster'[q] = poster[q]
      BY <2>3, <1>1, <1>5 DEF ClaimActive, PosterType
    <3>2. Unheard(p)'
      BY <3>1, <2>1, <1>5 DEF ClaimActive, Unheard
    <3> QED BY <3>1, <3>2, <2>1, <2>3, <1>2, <1>5 DEF ClaimActive, PosterOK, Unclaimed
  <2> QED BY <2>2, <2>3
<1>6. CASE DeleteOwn(p)
  <2>1. Unheard(p) /\ poster[p].job \in Posters /\ record[poster[p].job] # Absent
    BY <1>1, <1>6 DEF DeleteOwn, PosterOK, Unclaimed
  <2>2. poster'[p].job = poster[p].job /\ poster'[p].at = "look"
    BY <1>1, <1>6 DEF DeleteOwn, GoOn, PosterType
  <2>3. Unheard(p)'
    BY <2>1, <2>2, <1>6 DEF DeleteOwn, GoOn, Unheard
  <2> QED BY <2>1, <2>2, <2>3, <1>3, PostStays DEF PosterOK
<1>7. CASE LookAtExisting(p)
  <2> DEFINE k == poster[p].job
  <2>1. Unheard(p) /\ k \in Posters /\ record[k] # Absent
    BY <1>1, <1>7 DEF LookAtExisting, PosterOK, Unclaimed
  <2>2. /\ poster'[p].job = k /\ poster'[p].at \in {"join", "evict"}
        /\ poster'[p].at = "join" => poster'[p].cut = record[k].cut
        /\ \A q \in Posters \ {p} : poster'[q] = poster[q]
    BY <1>1, <1>7 DEF LookAtExisting, PosterType
  <2>3. Unheard(p)'
    BY <2>1, <2>2, <1>7 DEF LookAtExisting, Unheard
  <2>4. record' = record /\ cutoff' = cutoff
    BY <1>7 DEF LookAtExisting
  <2>5. poster'[p].at = "join" /\ poster'[p].cut # Absent =>
          record'[k] # Absent /\ cutoff'[k] # Absent /\ record'[k].cut = cutoff'[k] /\ poster'[p].cut = cutoff'[k]
    BY <2>1, <2>2, <2>4, <1>2 DEF Saved
  <2> HIDE DEF k
  <2> QED BY <2>1, <2>2, <2>3, <2>4, <2>5 DEF PosterOK, Saved
<1>8. CASE Evict(p)
  <2>1. Unheard(p)
    BY <1>1, <1>8 DEF Evict, PosterOK, Unclaimed
  <2>2. /\ poster'[p].job = Absent /\ poster'[p].at \in {"error", "new"}
        /\ \A q \in Posters \ {p} : poster'[q] = poster[q]
    BY <1>1, <1>8 DEF Evict, NewPost
  <2>4. poster'[p].cut = Absent
    BY <1>1, <1>8 DEF Evict, NewPost
  <2>3. Unheard(p)'
    BY <2>1, <2>2, <1>8 DEF Evict, Unheard
  <2> QED BY <2>2, <2>3, <2>4 DEF PosterOK
<1>9. CASE JoinExisting(p)
  <2> DEFINE k == poster[p].job
  <2>1. /\ k \in Posters /\ record[k] # Absent
        /\ poster[p].cut # Absent => Saved(k) /\ poster[p].cut = cutoff[k]
    BY <1>1, <1>9 DEF JoinExisting, PosterOK
  <2>2. poster'[p].job = k /\ record' = record /\ cutoff' = cutoff
    BY <1>1, <1>9 DEF JoinExisting, Answer, GoOn, PosterType
  <2>3. CASE Waits(k)
    <3>1. poster'[p].at = "answered"
      BY <2>3, <1>1, <1>9 DEF JoinExisting, Waits, Answer, PosterType
    <3>2. Saved(k)
      BY <2>1, <2>3 DEF ResetInv, JobOK
    <3> HIDE DEF k
    <3> QED BY <3>1, <3>2, <2>1, <2>2 DEF PosterOK, Saved, Unclaimed
  <2>4. CASE ~Waits(k)
    <3>1. poster'[p].at = "prepare" /\ poster'[p].cut = poster[p].cut
      BY <2>4, <1>1, <1>9 DEF JoinExisting, Waits, GoOn, PosterType
    <3> HIDE DEF k
    <3> QED BY <3>1, <2>1, <2>2 DEF PosterOK, Saved, Unclaimed
  <2> QED BY <2>3, <2>4
<1>10. CASE EnsurePrepared(p)
  <2> DEFINE k == poster[p].job
  <2>1. /\ k \in Posters /\ record[k] # Absent
        /\ poster[p].cut # Absent => Saved(k) /\ poster[p].cut = cutoff[k]
    BY <1>1, <1>10 DEF EnsurePrepared, PosterOK
  <2>2. poster'[p].job = k /\ record' = record
    BY <1>1, <1>10 DEF EnsurePrepared, GoOn, PosterType
  <2>3. CASE poster[p].cut # Absent
    <3>1. poster'[p].at = "push" /\ poster'[p].cut = poster[p].cut /\ cutoff' = cutoff
      BY <2>3, <1>1, <1>10 DEF EnsurePrepared, GoOn, PosterType
    <3> HIDE DEF k
    <3> QED BY <3>1, <2>1, <2>2, <2>3 DEF PosterOK, Saved, Unclaimed
  <2>4. CASE poster[p].cut = Absent
    <3>1. poster'[p].at = "save" /\ poster'[p].cut = Prepared(k) /\ cutoff' = [cutoff EXCEPT ![k] = Prepared(k)]
      BY <2>4, <1>1, <1>10 DEF EnsurePrepared, PosterType
    <3>2. Prepared(k) # Absent
      BY <2>1, <1>1, <1>2 DEF Prepared
    <3> HIDE DEF k
    <3> QED BY <3>1, <3>2, <2>1, <2>2, <1>2 DEF PosterOK, Unclaimed
  <2> QED BY <2>3, <2>4
<1>11. CASE SavePrepared(p)
  <2> DEFINE k == poster[p].job
  <2>1. k \in Posters /\ record[k] # Absent /\ cutoff[k] # Absent /\ poster[p].cut = cutoff[k]
    BY <1>1, <1>11 DEF SavePrepared, PosterOK
  <2>2. /\ Record("queued", cutoff[k]) # Absent /\ Record("queued", cutoff[k]).cut = cutoff[k]
    BY <2>1, <1>2, ARecord
  <2>3. record'[k] # Absent /\ cutoff'[k] # Absent /\ record'[k].cut = cutoff'[k]
    BY <2>1, <2>2, <1>2, <1>11 DEF SavePrepared, WriteRecord, Saved
  <2>4. poster'[p].job = k /\ poster'[p].at = "push" /\ poster'[p].cut = cutoff'[k]
    BY <2>1, <1>1, <1>11 DEF SavePrepared, GoOn, PosterType
  <2> HIDE DEF k
  <2> QED BY <2>1, <2>3, <2>4 DEF PosterOK, Saved, Unclaimed
<1>12. CASE PushJob(p)
  <2> DEFINE k == poster[p].job
  <2>1. k \in Posters /\ Saved(k)
    BY <1>1, <1>12 DEF PushJob, PosterOK
  <2>2. poster'[p].job = k /\ poster'[p].at = "answered" /\ record' = record /\ cutoff' = cutoff
    BY <1>1, <1>12 DEF PushJob, Answer, PosterType
  <2> HIDE DEF k
  <2> QED BY <2>1, <2>2 DEF PosterOK, Saved, Unclaimed
<1>13. CASE PostFails(p)
  <2>1. poster'[p].at = "error"
    BY <1>1, <1>13 DEF PostFails, NewPost
  <2> QED BY <2>1 DEF PosterOK, Unclaimed
<1> QED BY <1>4, <1>5, <1>6, <1>7, <1>8, <1>9, <1>10, <1>11, <1>12, <1>13 DEF Post

LEMMA PostKeeps == ASSUME ResetInv, NEW p \in Posters, Post(p) PROVE ResetInv'
<1>1. PostEffect(p) /\ ResetTypeOK'
  BY PostDoes, PostTypes
<1>2. \A q \in Posters : PosterOK(q)'
  BY <1>1, PostOthers, PostActor
<1> QED BY <1>1, <1>2, PostOthers DEF ResetInv

-----------------------------------------------------------------------------
(* The leader.  It deletes, writes the record with the cut it has, and gives the member of
   the queue up only for a later one or for a job that has ended. *)

WorkEffect(w) ==
  LET k == worker[w].job IN
  /\ UNCHANGED <<clock, created, lastReset, poster, newer, cutoff>>
  /\ excused \subseteq excused'
  /\ \A v \in Instances \ {w} : worker'[v] = worker[v]
  /\ worker'[w].job \in {k, Absent} \/ Waits(worker'[w].job)
  /\ \A j \in Posters :
       \/ record'[j] = record[j]
       \/ /\ j = k /\ Saved(j) /\ record'[j] # Absent /\ record'[j].cut = cutoff[j]
          /\ HasEnded(j) /\ IsActive(record'[j]) => j \in excused'
          /\ record'[j].status = "completed" => OlderGone(Kept, cutoff[j])
  /\ active' \in {active, Absent}
  /\ \A m \in pending' : m \in pending \/ m.job = k
  /\ \A m \in pending \ pending' : HasEnded(m.job)' \/ WaitsAgain(m.job, m.attempts)'
  /\ \A m \in pending' \ pending : Saved(m.job)
  /\ rowLocks' = rowLocks /\ rowLocks \subseteq table'.message_request
  /\ table'.message_request \subseteq table.message_request
  /\ table'.usage_ledger \subseteq table.usage_ledger
  /\ \/ costResetAt' = costResetAt
     \/ costResetAt' = Absent /\ (costResetAt = Absent \/ OlderGone(Kept, costResetAt))

LEMMA WorkTypes == ASSUME ResetInv, NEW w \in Instances, Consume(w) PROVE ResetTypeOK'
<1> USE DEF ResetInv, ResetTypeOK, JobTypes, ActorTypes
<1>1. /\ worker[w] \in WorkerType /\ worker[w].job \in Posters \cup {Absent}
      /\ worker[w].cut \in Times /\ worker[w].attempts \in Nat /\ WorkerOK(w)
  BY DEF WorkerType
<1>2. Standby \in WorkerType /\ [Standby EXCEPT !.at = "idle"] \in WorkerType
  BY NoSuchJob DEF WorkerType, WorkerStates, Standby, Times
<1>3. \A at \in WorkerStates : [worker[w] EXCEPT !.at = at] \in WorkerType
  BY <1>1 DEF WorkerType
<1>4. RowTypes'
  <2>1. UNCHANGED <<clock, created, rowLocks, lastReset>>
    BY DEF Consume, AcquireLeader, Crash, FindDue, LeaseJob, ReadStatus, SetRunning, DeleteBatch,
      Report, RemainingRows, FinishReset, SetCompleted, FinishFailed, Requeue, DropMember,
      RemoveMember, ReleaseActive, Consumer, WorkerOnly
  <2>2. table' \in [message_request : SUBSET Rows, usage_ledger : SUBSET Rows]
    <3>1. CASE DeleteBatch(w)
      <4>1. Table(w) \in {"message_request", "usage_ledger"}
        BY <1>1 DEF Table, Order, WorkerType
      <4> QED BY <4>1, <3>1 DEF DeleteBatch, RowTypes
    <3> QED BY <3>1 DEF Consume, AcquireLeader, Crash, FindDue, LeaseJob, ReadStatus,
          SetRunning, Report, RemainingRows, FinishReset, SetCompleted, FinishFailed, Requeue,
          DropMember, RemoveMember, ReleaseActive, KeepRows, RowTypes
  <2>3. costResetAt' \in Times
    <3>1. CASE FinishReset(w)
      BY <3>1, NoSuchJob DEF FinishReset, ClearedMarker, RowTypes, Times
    <3> QED BY <3>1 DEF Consume, AcquireLeader, Crash, FindDue, LeaseJob, ReadStatus,
          SetRunning, Report, RemainingRows, DeleteBatch, SetCompleted, FinishFailed, Requeue,
          DropMember, RemoveMember, ReleaseActive, KeepRows, RowTypes
  <2> QED BY <2>1, <2>2, <2>3 DEF RowTypes
<1>5. /\ poster' \in [Posters -> PosterType] /\ cutoff' \in [Posters -> Times]
      /\ newer' \in [Posters -> SUBSET Rows] /\ active' \in Posters \cup {Absent}
  BY DEF Consume, AcquireLeader, Crash, FindDue, LeaseJob, ReadStatus, SetRunning, DeleteBatch,
    Report, RemainingRows, FinishReset, SetCompleted, FinishFailed, Requeue, DropMember,
    RemoveMember, ReleaseActive, Consumer, WorkerOnly, KeepJobs
<1>6. pending' \in SUBSET [job : Posters, attempts : Nat]
  <2>1. worker[w].at \notin {"standby", "idle"} => worker[w].job \in Posters
    BY <1>1 DEF WorkerOK
  <2>2. CASE LeaseJob(w)
    BY <2>1, <2>2, <1>1 DEF LeaseJob, Queued, Member
  <2>3. CASE Requeue(w)
    BY <2>1, <2>3, <1>1 DEF Requeue, Queued
  <2>4. CASE DropMember(w) \/ RemoveMember(w)
    BY <2>4 DEF DropMember, RemoveMember, RemoveOwn
  <2> QED BY <2>2, <2>3, <2>4 DEF Consume, AcquireLeader, Crash, FindDue, ReadStatus,
      SetRunning, DeleteBatch, Report, RemainingRows, FinishReset, SetCompleted, FinishFailed,
      ReleaseActive, KeepJobs
<1>7. record' \in [Posters -> RecordType \cup {Absent}]
  <2>1. \A status \in {"queued", "running", "completed", "failed"} :
          Record(status, worker[w].cut) \in RecordType
    BY <1>1, ARecord
  <2> QED BY <2>1 DEF Consume, AcquireLeader, Crash, FindDue, LeaseJob, ReadStatus,
      SetRunning, DeleteBatch, Report, RemainingRows, FinishReset, SetCompleted, FinishFailed,
      Requeue, DropMember, RemoveMember, ReleaseActive, KeepJobs, WriteRecord
<1>8. worker' \in [Instances -> WorkerType]
  <2>1. worker' = [worker EXCEPT ![w] = worker'[w]]
    BY DEF Consume, AcquireLeader, Crash, FindDue, LeaseJob, ReadStatus, SetRunning, DeleteBatch,
      Report, RemainingRows, FinishReset, SetCompleted, FinishFailed, Requeue, DropMember,
      RemoveMember, ReleaseActive, Step, Rest
  <2>2. worker'[w] \in WorkerType
    <3>1. CASE AcquireLeader(w)
      BY <3>1, <1>2 DEF AcquireLeader, Rest
    <3>2. CASE Crash(w)
      BY <3>2, <1>2 DEF Crash
    <3>3. CASE FindDue(w)
      <4>1. PICK m \in pending :
              worker' = [worker EXCEPT ![w].at = "found", ![w].job = m.job, ![w].attempts = m.attempts]
        BY <3>3 DEF FindDue
      <4>2. m.job \in Posters /\ m.attempts \in Nat
        OBVIOUS
      <4>3. worker'[w] = [worker[w] EXCEPT !.at = "found", !.job = m.job, !.attempts = m.attempts]
        BY <4>1
      <4> QED BY <4>2, <4>3, <1>1 DEF WorkerType, WorkerStates
    <3>4. CASE LeaseJob(w) \/ SetRunning(w)
      BY <3>4, <1>2, <1>3 DEF LeaseJob, SetRunning, Rest, Step, WorkerStates
    <3>5. CASE ReadStatus(w)
      <4>1. CASE Rest(w)
        BY <4>1, <1>2 DEF Rest
      <4>2. CASE IsActive(record[worker[w].job])
        <5>1. worker[w].job \in Posters /\ record[worker[w].job].cut \in Times
          BY <4>2, <3>5, <1>1 DEF ReadStatus, WorkerOK, IsActive, RecordType
        <5>2. CASE worker'[w] = [worker[w] EXCEPT !.at = "start", !.cut = record[worker[w].job].cut]
          BY <5>1, <5>2, <1>1 DEF WorkerType, WorkerStates
        <5> QED BY <4>2, <3>5, <5>2, <1>2 DEF ReadStatus, Rest
      <4>3. CASE ~IsActive(record[worker[w].job])
        BY <4>3, <3>5, <1>1, <1>2 DEF ReadStatus, WorkerType, WorkerStates, Rest
      <4> QED BY <4>1, <4>2, <4>3
    <3>6. CASE DeleteBatch(w) \/ Report(w) \/ FinishReset(w)
      BY <3>6, <1>2, <1>3 DEF DeleteBatch, Report, FinishReset, Step, WorkerStates
    <3>7. CASE RemainingRows(w)
      BY <3>7, <1>1 DEF RemainingRows, WorkerType, WorkerStates, Step
    <3>8. CASE SetCompleted(w) \/ FinishFailed(w) \/ Requeue(w)
      BY <3>8, <1>2, <1>3 DEF SetCompleted, FinishFailed, Requeue, Rest, Step, WorkerStates
    <3>9. CASE DropMember(w) \/ RemoveMember(w) \/ ReleaseActive(w)
      BY <3>9, <1>2, <1>3 DEF DropMember, RemoveMember, ReleaseActive, Rest, Step, WorkerStates
    <3> QED BY <3>1, <3>2, <3>3, <3>4, <3>5, <3>6, <3>7, <3>8, <3>9 DEF Consume
  <2> QED BY <2>1, <2>2
<1> QED BY <1>4, <1>5, <1>6, <1>7, <1>8

\* A command that writes the record.
LEMMA Rewrites ==
  ASSUME ResetInv, NEW w \in Instances, worker[w].at \in Executing \cup {"start"},
         NEW status \in {"queued", "running", "completed", "failed"},
         WriteRecord(worker[w].job, status, worker[w].cut),
         status = "completed" => OlderGone(Kept, worker[w].cut)
  PROVE  /\ excused \subseteq excused'
         /\ \A j \in Posters :
              \/ record'[j] = record[j]
              \/ /\ j = worker[w].job /\ Saved(j) /\ record'[j] # Absent /\ record'[j].cut = cutoff[j]
                 /\ HasEnded(j) /\ IsActive(record'[j]) => j \in excused'
                 /\ record'[j].status = "completed" => OlderGone(Kept, cutoff[j])
         /\ status = "failed" \/ status = "completed" => ~IsActive(record'[worker[w].job])
<1> DEFINE k == worker[w].job
<1>1. k \in Posters /\ Saved(k) /\ worker[w].cut = cutoff[k]
  BY DEF ResetInv, WorkerOK, Executing
<1>2. cutoff[k] \in Times /\ record \in [Posters -> RecordType \cup {Absent}]
  BY <1>1 DEF ResetInv, ResetTypeOK, JobTypes
<1>3. /\ Record(status, cutoff[k]) # Absent /\ Record(status, cutoff[k]).status = status
      /\ Record(status, cutoff[k]).cut = cutoff[k]
  BY <1>2, ARecord
<1>4. record'[k] = Record(status, cutoff[k]) /\ \A j \in Posters \ {k} : record'[j] = record[j]
  BY <1>1, <1>2 DEF WriteRecord
<1>5. excused \subseteq excused' /\ (HasEnded(k) /\ status \in {"queued", "running"} => k \in excused')
  BY <1>1 DEF WriteRecord, HasEnded, Saved
<1> HIDE DEF k
<1>6. IsActive(record'[k]) => status \in {"queued", "running"}
  BY <1>3, <1>4 DEF IsActive
<1>7. worker[w].job = k
  BY DEF k
<1> QED BY <1>1, <1>3, <1>4, <1>5, <1>6, <1>7

LEMMA WorkDoes == ASSUME ResetInv, NEW w \in Instances, Consume(w) PROVE WorkEffect(w)
<1> DEFINE k == worker[w].job
<1>1. WorkerOK(w) /\ worker \in [Instances -> WorkerType]
  BY DEF ResetInv, ResetTypeOK, ActorTypes
<1>2. rowLocks \subseteq table.message_request
  BY DEF ResetInv, RowsOK
<1>3. UNCHANGED <<clock, created, lastReset, poster, newer, cutoff, rowLocks>>
  BY DEF Consume, AcquireLeader, Crash, FindDue, LeaseJob, ReadStatus, SetRunning, DeleteBatch,
    Report, RemainingRows, FinishReset, SetCompleted, FinishFailed, Requeue, DropMember,
    RemoveMember, ReleaseActive, Consumer, WorkerOnly, KeepJobs
<1>4. \A v \in Instances \ {w} : worker'[v] = worker[v]
  BY <1>1 DEF Consume, AcquireLeader, Crash, FindDue, LeaseJob, ReadStatus, SetRunning, DeleteBatch,
    Report, RemainingRows, FinishReset, SetCompleted, FinishFailed, Requeue, DropMember,
    RemoveMember, ReleaseActive, Step, Rest
<1>5. worker'[w].job \in {k, Absent} \/ Waits(worker'[w].job)
  <2>1. CASE AcquireLeader(w) \/ Crash(w)
    BY <2>1, <1>1 DEF AcquireLeader, Crash, Rest, Standby
  <2>2. CASE FindDue(w)
    <3>1. PICK m \in pending :
            worker' = [worker EXCEPT ![w].at = "found", ![w].job = m.job, ![w].attempts = m.attempts]
      BY <2>2 DEF FindDue
    <3>2. worker'[w] = [worker[w] EXCEPT !.at = "found", !.job = m.job, !.attempts = m.attempts]
      BY <3>1, <1>1
    <3> QED BY <3>2, <1>1 DEF Waits, WorkerType
  <2>3. CASE LeaseJob(w) \/ SetRunning(w) \/ SetCompleted(w) \/ FinishFailed(w) \/ Requeue(w)
    BY <2>3, <1>1 DEF LeaseJob, SetRunning, SetCompleted, FinishFailed, Requeue, Rest, Step,
      Standby, WorkerType
  <2>4. CASE ReadStatus(w)
    <3>1. CASE Rest(w)
      BY <3>1, <1>1 DEF Rest, Standby
    <3>2. CASE worker' = [worker EXCEPT ![w] = [@ EXCEPT !.at = "start", !.cut = record[k].cut]]
      BY <3>2, <1>1 DEF WorkerType
    <3>3. CASE worker' = [worker EXCEPT ![w] = [@ EXCEPT !.at = "drop"]]
      BY <3>3, <1>1 DEF WorkerType
    <3> QED BY <2>4, <3>1, <3>2, <3>3 DEF ReadStatus
  <2>7. CASE RemainingRows(w)
    BY <2>7, <1>1 DEF RemainingRows, Step, WorkerType
  <2>5. CASE DeleteBatch(w) \/ Report(w) \/ FinishReset(w)
    BY <2>5, <1>1 DEF DeleteBatch, Report, FinishReset, Step, WorkerType
  <2>6. CASE DropMember(w) \/ RemoveMember(w) \/ ReleaseActive(w)
    BY <2>6, <1>1 DEF DropMember, RemoveMember, ReleaseActive, Rest, Step, Standby, WorkerType
  <2> QED BY <2>1, <2>2, <2>3, <2>4, <2>5, <2>6, <2>7 DEF Consume
<1>6. /\ excused \subseteq excused'
      /\ \A j \in Posters :
           \/ record'[j] = record[j]
           \/ /\ j = k /\ Saved(j) /\ record'[j] # Absent /\ record'[j].cut = cutoff[j]
              /\ HasEnded(j) /\ IsActive(record'[j]) => j \in excused'
              /\ record'[j].status = "completed" => OlderGone(Kept, cutoff[j])
  <2>1. CASE UNCHANGED record /\ excused \subseteq excused'
    BY <2>1
  <2>2. CASE SetRunning(w)
    <3>1. CASE WriteRecord(k, "running", worker[w].cut)
      BY <3>1, <2>2, Rewrites DEF SetRunning
    <3> QED BY <3>1, <2>1, <2>2 DEF SetRunning
  <2>3. CASE Report(w)
    <3>1. CASE WriteRecord(k, "running", worker[w].cut)
      BY <3>1, <2>3, Rewrites DEF Report, Executing
    <3> QED BY <3>1, <2>1, <2>3 DEF Report
  <2>4. CASE SetCompleted(w)
    <3>1. CASE WriteRecord(k, "completed", worker[w].cut)
      <4>1. OlderGone(Kept, worker[w].cut) /\ worker[w].at \in Executing
        BY <2>4, <1>1 DEF SetCompleted, WorkerOK, Executing, OlderGone, Kept
      <4> QED BY <4>1, <3>1, Rewrites
    <3> QED BY <3>1, <2>1, <2>4 DEF SetCompleted
  <2>5. CASE FinishFailed(w)
    <3>1. worker[w].at \in Executing
      BY <2>5 DEF FinishFailed, Executing
    <3>2. \/ WriteRecord(k, "failed", worker[w].cut) \/ WriteRecord(k, "queued", worker[w].cut)
          \/ UNCHANGED record /\ excused \subseteq excused'
      BY <2>5 DEF FinishFailed
    <3> QED BY <3>1, <3>2, <2>1, Rewrites
  <2> HIDE DEF k
  <2> QED BY <2>1, <2>2, <2>3, <2>4, <2>5 DEF Consume, AcquireLeader, Crash, FindDue, LeaseJob,
        ReadStatus, DeleteBatch, RemainingRows, FinishReset, Requeue, DropMember, RemoveMember,
        ReleaseActive, KeepJobs
<1>7. active' \in {active, Absent}
  BY DEF Consume, AcquireLeader, Crash, FindDue, LeaseJob, ReadStatus, SetRunning, DeleteBatch,
    Report, RemainingRows, FinishReset, SetCompleted, FinishFailed, Requeue, DropMember,
    RemoveMember, ReleaseActive, KeepJobs
<1>8. /\ \A m \in pending' : m \in pending \/ m.job = k
      /\ \A m \in pending \ pending' : HasEnded(m.job)' \/ WaitsAgain(m.job, m.attempts)'
      /\ \A m \in pending' \ pending : Saved(m.job)
  <2>1. CASE UNCHANGED pending
    BY <2>1
  <2>2. worker[w].at \notin {"standby", "idle"} => Saved(k)
    BY <1>1 DEF WorkerOK
  <2>3. CASE LeaseJob(w) \/ Requeue(w)
    <3>1. PICK m : pending' \subseteq pending \cup {m} /\ pending \subseteq pending' /\ m.job = k
      BY <2>3 DEF LeaseJob, Requeue, Queued, Member
    <3> QED BY <3>1, <2>2, <2>3 DEF LeaseJob, Requeue
  <2>4. CASE DropMember(w) \/ RemoveMember(w)
    <3>1. /\ pending' \subseteq pending /\ pending \ {Member(w)} \subseteq pending'
          /\ record' = record /\ excused' = excused
      BY <2>4 DEF DropMember, RemoveMember, RemoveOwn
    <3>2. Member(w).job = k /\ Member(w).attempts = worker[w].attempts /\ worker[w].attempts \in Nat
      BY <1>1 DEF Member, Queued, WorkerType
    <3>3. HasEnded(k) \/ WaitsAgain(k, worker[w].attempts)
      BY <2>4, <1>1 DEF DropMember, RemoveMember, WorkerOK
    <3>4. ASSUME NEW m \in pending, m.job = k, m.attempts > worker[w].attempts PROVE m \in pending'
      BY <3>1, <3>2, <3>4
    <3>5. ASSUME NEW m \in pending \ pending' PROVE HasEnded(m.job)' \/ WaitsAgain(m.job, m.attempts)'
      <4>1. m = Member(w)
        BY <3>1
      <4> QED BY <4>1, <3>1, <3>2, <3>3, <3>4 DEF HasEnded, WaitsAgain
    <3> QED BY <3>1, <3>5
  <2> QED BY <2>1, <2>3, <2>4 DEF Consume, AcquireLeader, Crash, FindDue, ReadStatus, SetRunning,
        DeleteBatch, Report, RemainingRows, FinishReset, SetCompleted, FinishFailed, ReleaseActive,
        KeepJobs
<1>9. /\ rowLocks \subseteq table'.message_request
      /\ table'.message_request \subseteq table.message_request
      /\ table'.usage_ledger \subseteq table.usage_ledger
  <2>1. CASE UNCHANGED table
    BY <2>1, <1>2
  <2>2. CASE DeleteBatch(w) /\ ~UNCHANGED table
    <3>1. Table(w) \in {"message_request", "usage_ledger"}
      BY <1>1 DEF Table, Order, WorkerType
    <3>2. PICK batch \in SUBSET (Doomed(w) \ rowLocks) : table' = [table EXCEPT ![Table(w)] = @ \ batch]
      BY <2>2 DEF DeleteBatch
    <3>3. table \in [message_request : SUBSET Rows, usage_ledger : SUBSET Rows]
      BY DEF ResetInv, ResetTypeOK, RowTypes
    <3>4. CASE Table(w) = "message_request"
      BY <3>2, <3>3, <3>4, <1>2
    <3>5. CASE Table(w) = "usage_ledger"
      BY <3>2, <3>3, <3>5, <1>2
    <3> QED BY <3>1, <3>4, <3>5
  <2> QED BY <2>1, <2>2 DEF Consume, AcquireLeader, Crash, FindDue, LeaseJob, ReadStatus, SetRunning,
        Report, RemainingRows, FinishReset, SetCompleted, FinishFailed, Requeue, DropMember,
        RemoveMember, ReleaseActive, KeepRows
<1>10. \/ costResetAt' = costResetAt
       \/ costResetAt' = Absent /\ (costResetAt = Absent \/ OlderGone(Kept, costResetAt))
  <2>1. CASE FinishReset(w)
    <3>1. OlderGone(Kept, worker[w].cut) /\ worker[w].cut \in Nat
      BY <2>1, <1>1, NoSuchJob DEF FinishReset, WorkerOK, Executing, OlderGone, Kept, Saved, WorkerType
    <3>2. costResetAt # Absent /\ costResetAt <= worker[w].cut => OlderGone(Kept, costResetAt)
      <4>1. \A r \in Kept : created[r] \in Nat
        BY NoSuchJob DEF ResetInv, ResetTypeOK, RowTypes, RowsOK, Kept
      <4>2. costResetAt \in Times
        BY DEF ResetInv, ResetTypeOK, RowTypes
      <4> QED BY <4>1, <4>2, <3>1, NoSuchJob DEF OlderGone
    <3> QED BY <2>1, <3>2 DEF FinishReset, ClearedMarker
  <2> QED BY <2>1 DEF Consume, AcquireLeader, Crash, FindDue, LeaseJob, ReadStatus, SetRunning,
        DeleteBatch, Report, RemainingRows, SetCompleted, FinishFailed, Requeue, DropMember,
        RemoveMember, ReleaseActive, KeepRows
<1> QED BY <1>3, <1>4, <1>5, <1>6, <1>7, <1>8, <1>9, <1>10, <1>2 DEF WorkEffect

LEMMA WorkStays ==
  ASSUME ResetInv, NEW w \in Instances, WorkEffect(w), ResetTypeOK'
  PROVE  /\ \A j \in Posters :
              /\ record[j] # Absent => record'[j] # Absent
              /\ Saved(j) => Saved(j)'
              /\ record[j] # Absent /\ HasEnded(j) => HasEnded(j)'
              /\ Unheard(j) => Unheard(j)' /\ record'[j] = record[j]
         /\ \A j \in Posters, n \in Nat : WaitsAgain(j, n) => HasEnded(j)' \/ WaitsAgain(j, n)'
         /\ \A j \in Posters : Waits(j) => HasEnded(j)' \/ Waits(j)'
<1>1. ASSUME NEW j \in Posters
      PROVE  /\ record[j] # Absent => record'[j] # Absent
             /\ Saved(j) => Saved(j)'
             /\ record[j] # Absent /\ HasEnded(j) => HasEnded(j)'
  BY DEF WorkEffect, Saved, HasEnded
<1>2. ASSUME NEW j \in Posters, Unheard(j) PROVE Unheard(j)' /\ record'[j] = record[j]
  <2>1. worker[w].job # j /\ ~Waits(j) /\ j # Absent
    BY <1>2, NoSuchJob DEF Unheard, Waits
  <2>2. record'[j] = record[j] /\ active' # j
    BY <2>1, <1>2 DEF WorkEffect, Unheard
  <2>3. \A m \in pending' : m.job # j
    BY <2>1, <1>2 DEF WorkEffect, Unheard
  <2>4. worker'[w].job # j
    BY <2>1 DEF WorkEffect
  <2>5. \A v \in Instances : worker'[v].job # j
    BY <2>4, <1>2 DEF WorkEffect, Unheard
  <2> QED BY <2>2, <2>3, <2>5, <1>2 DEF WorkEffect, Unheard
<1>3. \A m \in pending \cup pending' : m.attempts \in Nat
  BY DEF ResetInv, ResetTypeOK, JobTypes
<1>4. \A j \in Posters, n \in Nat : WaitsAgain(j, n) => HasEnded(j)' \/ WaitsAgain(j, n)'
  <2>1. ASSUME NEW j \in Posters, NEW n \in Nat, WaitsAgain(j, n) PROVE HasEnded(j)' \/ WaitsAgain(j, n)'
    <3>1. PICK m \in pending : m.job = j /\ m.attempts > n
      BY <2>1 DEF WaitsAgain
    <3>2. CASE m \in pending'
      BY <3>1, <3>2 DEF WaitsAgain
    <3>3. CASE m \notin pending' /\ ~HasEnded(j)'
      <4>1. PICK l \in pending' : l.job = j /\ l.attempts > m.attempts
        BY <3>1, <3>3 DEF WorkEffect, WaitsAgain
      <4>2. l.attempts \in Nat /\ m.attempts \in Nat
        BY <1>3
      <4> QED BY <4>1, <4>2, <3>1 DEF WaitsAgain
    <3> QED BY <3>2, <3>3
  <2> QED BY <2>1
<1>5. \A j \in Posters : Waits(j) => HasEnded(j)' \/ Waits(j)'
  <2>1. ASSUME NEW j \in Posters, NEW m \in pending, m.job = j PROVE HasEnded(j)' \/ Waits(j)'
    BY <2>1 DEF WorkEffect, Waits, WaitsAgain
  <2> QED BY <2>1 DEF Waits
<1> QED BY <1>1, <1>2, <1>4, <1>5

LEMMA WorkOthers ==
  ASSUME ResetInv, NEW w \in Instances, WorkEffect(w), ResetTypeOK'
  PROVE  /\ RowsOK'
         /\ \A p \in Posters : PosterOK(p)'
         /\ \A v \in Instances \ {w} : WorkerOK(v)'
         /\ \A j \in Posters : JobOK(j)'
<1>1. /\ UNCHANGED <<clock, created, lastReset, poster, newer, cutoff>>
      /\ table'.message_request \subseteq table.message_request
      /\ table'.usage_ledger \subseteq table.usage_ledger
  BY DEF WorkEffect
<1>2. RowsOK'
  <2>1. lastReset \in Nat /\ created \in [Rows -> Times] /\ table \in [message_request : SUBSET Rows, usage_ledger : SUBSET Rows]
    BY DEF ResetInv, ResetTypeOK, RowTypes
  <2>2. /\ \A r \in Rows : created'[r] # Absent => created'[r] <= clock'
        /\ \A r \in Kept' : created'[r] # Absent
        /\ rowLocks' \subseteq table'.message_request
        /\ \A j \in Posters : cutoff'[j] # Absent => cutoff'[j] <= clock'
        /\ lastReset' <= clock'
    BY <1>1 DEF ResetInv, RowsOK, WorkEffect, Kept
  <2>3. costResetAt' \in {Absent, lastReset'}
    BY <1>1 DEF ResetInv, RowsOK, WorkEffect
  <2>4. costResetAt' = Absent => OlderGone(Kept, lastReset)
    BY NoSuchJob DEF ResetInv, RowsOK, WorkEffect
  <2>5. costResetAt' = Absent => OlderGone(Kept, lastReset)'
    BY <2>4, <1>1 DEF OlderGone, Kept
  <2> QED BY <2>2, <2>3, <2>5 DEF RowsOK
<1>3. ASSUME NEW p \in Posters PROVE PosterOK(p)'
  <2>1. PosterOK(p) /\ UNCHANGED <<poster, cutoff>>
    BY DEF ResetInv, WorkEffect
  <2>2. poster[p].at \in Unclaimed => Unheard(p)' /\ record'[p] = record[p]
    BY <2>1, WorkStays DEF PosterOK
  <2> QED BY <2>1, <2>2, WorkStays DEF PosterOK, Saved, Unclaimed
<1>4. ASSUME NEW v \in Instances \ {w} PROVE WorkerOK(v)'
  <2>1. WorkerOK(v) /\ worker'[v] = worker[v] /\ worker[v].attempts \in Nat
    BY DEF ResetInv, WorkEffect, ResetTypeOK, ActorTypes, WorkerType
  <2>2. worker[v].at \notin {"standby", "idle"} =>
          /\ worker[v].job \in Posters /\ Saved(worker[v].job)'
          /\ HasEnded(worker[v].job) => HasEnded(worker[v].job)'
          /\ WaitsAgain(worker[v].job, worker[v].attempts) =>
               HasEnded(worker[v].job)' \/ WaitsAgain(worker[v].job, worker[v].attempts)'
    BY <2>1, WorkStays DEF WorkerOK, Saved
  <2>3. worker[v].at \in {"remove", "release"} => HasEnded(worker[v].job)'
    BY <2>1, <2>2 DEF WorkerOK
  <2>4. worker[v].at = "drop" =>
          HasEnded(worker[v].job)' \/ WaitsAgain(worker[v].job, worker[v].attempts)'
    BY <2>1, <2>2 DEF WorkerOK
  <2> QED BY <2>1, <2>2, <2>3, <2>4, <1>1 DEF WorkerOK, OlderGone, Executing
<1>5. ASSUME NEW j \in Posters PROVE JobOK(j)'
  <2>1. JobOK(j)
    BY DEF ResetInv
  <2>2. active' = j => record'[j] # Absent
    BY <2>1, NoSuchJob, WorkStays DEF WorkEffect, JobOK
  <2>3. Waits(j)' => Saved(j)'
    <3>1. ASSUME NEW m \in pending', m.job = j PROVE Saved(j)
      BY <3>1, <2>1 DEF WorkEffect, JobOK, Waits
    <3> QED BY <3>1, WorkStays DEF Waits
  <2>4. record'[j] # Absent /\ record'[j].cut # Absent => Saved(j)'
    BY <2>1, WorkStays DEF WorkEffect, JobOK, Saved
  <2>5. record'[j] # Absent /\ record'[j].status = "completed" => Saved(j)' /\ OlderGone(Kept, cutoff[j])
    BY <2>1, WorkStays DEF WorkEffect, JobOK, Saved
  <2>6. record'[j] # Absent /\ record'[j].status = "completed" => Saved(j)' /\ OlderGone(Kept, cutoff[j])'
    BY <2>5, <1>1 DEF OlderGone, Kept
  <2>7. \A r \in newer'[j] : cutoff'[j] # Absent /\ (created'[r] # Absent => created'[r] > cutoff'[j])
    BY <2>1, <1>1 DEF JobOK
  <2>8. Answered(j)' => HasEnded(j)' \/ Waits(j)'
    <3>1. Answered(j)' = Answered(j)
      BY <1>1 DEF Answered
    <3>2. Answered(j) => record[j] # Absent
      BY DEF Answered, ResetInv, PosterOK
    <3> QED BY <3>1, <3>2, <2>1, WorkStays DEF JobOK
  <2> QED BY <2>2, <2>3, <2>4, <2>6, <2>7, <2>8 DEF JobOK
<1> QED BY <1>2, <1>3, <1>4, <1>5

\* The consumer itself, step by step.
LEMMA WorkActor ==
  ASSUME ResetInv, NEW w \in Instances, Consume(w), WorkEffect(w), ResetTypeOK' PROVE WorkerOK(w)'
<1> DEFINE k == worker[w].job  cut == worker[w].cut
           Going(at) == /\ worker'[w].at = at /\ worker'[w].job = k /\ worker'[w].cut = cut
                        /\ worker'[w].stage = worker[w].stage /\ worker'[w].attempts = worker[w].attempts
<1>1. WorkerOK(w) /\ worker \in [Instances -> WorkerType] /\ worker[w].stage \in {1, 2}
  BY DEF ResetInv, ResetTypeOK, ActorTypes, WorkerType
<1>2. /\ \A at : Step(w, at) => Going(at)
      /\ Rest(w) => worker'[w].at = "idle" /\ worker'[w].stage = 1
  BY <1>1 DEF Step, Rest, Standby, WorkerType
<1>3. CASE worker'[w].at \in {"standby", "idle"} /\ worker'[w].stage = 1
  BY <1>3 DEF WorkerOK, Executing
<1>4. worker[w].at \notin {"standby", "idle"} =>
        /\ k \in Posters /\ Saved(k)
        /\ record'[k] # Absent /\ cutoff'[k] = cutoff[k] /\ cutoff[k] # Absent /\ record'[k].cut = cutoff[k]
  <2>1. worker[w].at \notin {"standby", "idle"} => k \in Posters /\ Saved(k) /\ Saved(k)
    BY <1>1 DEF WorkerOK
  <2>2. \A j \in Posters : Saved(j) => record'[j] # Absent /\ cutoff'[j] # Absent /\ record'[j].cut = cutoff'[j]
    BY WorkStays DEF Saved
  <2> QED BY <2>1, <2>2 DEF WorkEffect, Saved
<1>5. /\ created' = created
      /\ OlderGone(table.message_request, cut) => \A r \in table'.message_request : created'[r] > cut
      /\ OlderGone(table.usage_ledger, cut) => \A r \in table'.usage_ledger : created'[r] > cut
  BY DEF WorkEffect, OlderGone
<1>6. worker[w].at \in Executing \cup {"start"} => cut = cutoff[k]
  BY <1>1 DEF WorkerOK
<1>7. worker[w].at \in Executing /\ worker[w].stage = 2 => OlderGone(table.message_request, cut)
  BY <1>1 DEF WorkerOK
<1>8. CASE FindDue(w)
  <2>1. PICK m \in pending :
          worker' = [worker EXCEPT ![w].at = "found", ![w].job = m.job, ![w].attempts = m.attempts]
    BY <1>8 DEF FindDue
  <2>2. worker'[w] = [worker[w] EXCEPT !.at = "found", !.job = m.job, !.attempts = m.attempts]
    BY <2>1, <1>1
  <2>3. worker'[w].at = "found" /\ worker'[w].job = m.job /\ worker'[w].stage = 1
    BY <2>2, <1>1, <1>8 DEF FindDue, WorkerOK, WorkerType
  <2>4. m.job \in Posters /\ Saved(m.job)
    BY DEF ResetInv, ResetTypeOK, JobTypes, JobOK, Waits
  <2>5. /\ record'[m.job] # Absent /\ cutoff'[m.job] # Absent /\ record'[m.job].cut = cutoff'[m.job]
    BY <2>4, WorkStays DEF Saved
  <2> QED BY <2>3, <2>4, <2>5 DEF WorkerOK, Executing, Saved
<1>9. CASE LeaseJob(w)
  <2>1. CASE Step(w, "leased")
    <3>1. Going("leased") /\ worker[w].stage = 1 /\ worker[w].at = "found"
      BY <2>1, <1>1, <1>2, <1>9 DEF LeaseJob, WorkerOK
    <3> HIDE DEF k, cut
    <3> QED BY <3>1, <1>4 DEF WorkerOK, Executing, Saved
  <2> QED BY <2>1, <1>2, <1>3, <1>9 DEF LeaseJob
<1>10. CASE ReadStatus(w)
  <2>1. worker[w].at = "leased" /\ worker[w].stage = 1 /\ Saved(k) /\ record' = record /\ excused' = excused
    BY <1>1, <1>10 DEF ReadStatus, WorkerOK, KeepJobs
  <2>2. CASE IsActive(record[k]) /\ worker' = [worker EXCEPT ![w] = [@ EXCEPT !.at = "start", !.cut = record[k].cut]]
    <3>1. /\ worker'[w].at = "start" /\ worker'[w].job = k /\ worker'[w].cut = record[k].cut
          /\ worker'[w].stage = 1
      BY <2>1, <2>2, <1>1 DEF WorkerType
    <3>2. record[k].cut = cutoff[k]
      BY <2>1 DEF Saved
    <3> HIDE DEF k
    <3> QED BY <3>1, <3>2, <2>1, <1>4 DEF WorkerOK, Executing, Saved
  <2>3. CASE ~IsActive(record[k]) /\ worker' = [worker EXCEPT ![w] = [@ EXCEPT !.at = "drop"]]
    <3>1. worker'[w].at = "drop" /\ worker'[w].job = k
      BY <2>1, <2>3, <1>1 DEF WorkerType
    <3> HIDE DEF k
    <3> QED BY <3>1, <2>1, <2>3, <1>4 DEF WorkerOK, Executing, Saved, HasEnded
  <2> QED BY <2>2, <2>3, <1>2, <1>3, <1>10 DEF ReadStatus
<1>11. CASE SetRunning(w)
  <2>1. CASE Step(w, "delete")
    <3>1. Going("delete") /\ worker[w].stage = 1 /\ worker[w].at = "start"
      BY <2>1, <1>1, <1>2, <1>11 DEF SetRunning, WorkerOK
    <3> HIDE DEF k, cut
    <3> QED BY <3>1, <1>4, <1>6 DEF WorkerOK, Executing, Saved
  <2> QED BY <2>1, <1>2, <1>3, <1>11 DEF SetRunning
<1>12. ASSUME NEW at \in {"delete", "report", "last", "check", "failed"}, worker[w].at \in Executing,
              Step(w, at)
       PROVE  WorkerOK(w)'
  <2>1. Going(at)
    BY <1>2, <1>12
  <2>2. worker[w].at \notin {"standby", "idle"}
    BY <1>12 DEF Executing
  <2> HIDE DEF k, cut
  <2> QED BY <2>1, <2>2, <1>1, <1>4, <1>5, <1>6, <1>7, <1>12 DEF WorkerOK, Executing, Saved, OlderGone
<1>13. CASE DeleteBatch(w)
  <2>1. \E at \in {"report", "last", "check", "failed"} : Step(w, at)
    BY <1>13 DEF DeleteBatch
  <2>2. worker[w].at \in Executing
    BY <1>13 DEF DeleteBatch, Executing
  <2> QED BY <2>1, <2>2, <1>12
<1>14. CASE Report(w)
  <2>1. \E at \in {"delete", "check", "failed"} : Step(w, at)
    BY <1>14 DEF Report
  <2>2. worker[w].at \in Executing
    BY <1>14 DEF Report, Executing
  <2> QED BY <2>1, <2>2, <1>12
<1>15. CASE RemainingRows(w)
  <2>1. worker[w].at = "check" /\ worker[w].at \in Executing /\ UNCHANGED table
    BY <1>15 DEF RemainingRows, Executing, KeepRows
  <2>2. cut \in Nat /\ \A r \in Kept : created[r] \in Nat
    <3>1. cutoff[k] \in Times /\ cutoff[k] # Absent
      BY <2>1, <1>4 DEF ResetInv, ResetTypeOK, JobTypes
    <3>2. cut \in Nat
      BY <3>1, <2>1, <1>6, NoSuchJob
    <3>3. \A r \in Kept : created[r] \in Nat
      BY NoSuchJob DEF ResetInv, ResetTypeOK, RowTypes, RowsOK, Kept
    <3> QED BY <3>2, <3>3
  <2>3. CASE Step(w, "failed")
    BY <2>1, <2>3, <1>12
  <2>4. CASE Doomed(w) = {} /\ worker[w].stage = 1
             /\ worker' = [worker EXCEPT ![w].at = "delete", ![w].stage = 2]
    <3>1. /\ worker'[w].at = "delete" /\ worker'[w].job = k /\ worker'[w].cut = cut
          /\ worker'[w].stage = 2
      BY <2>4, <1>1 DEF WorkerType
    <3>2. OlderGone(table.message_request, cut)
      <4>1. \A r \in table.message_request : ~(created[r] <= cut)
        BY <2>4 DEF Doomed, Table, Order
      <4> QED BY <4>1, <2>2 DEF OlderGone, Kept
    <3> HIDE DEF k, cut
    <3> QED BY <3>1, <3>2, <2>1, <1>4, <1>5, <1>6 DEF WorkerOK, Executing, Saved, OlderGone
  <2>5. CASE Doomed(w) = {} /\ worker[w].stage = 2 /\ Step(w, "finish")
    <3>1. Going("finish")
      BY <2>5, <1>2
    <3>2. OlderGone(table.usage_ledger, cut)
      <4>1. \A r \in table.usage_ledger : ~(created[r] <= cut)
        BY <2>5 DEF Doomed, Table, Order
      <4> QED BY <4>1, <2>2 DEF OlderGone, Kept
    <3> HIDE DEF k, cut
    <3> QED BY <3>1, <3>2, <2>1, <2>5, <1>4, <1>5, <1>6, <1>7 DEF WorkerOK, Executing, Saved, OlderGone
  <2> QED BY <2>3, <2>4, <2>5, <1>1, <1>15 DEF RemainingRows
<1>16. CASE FinishReset(w)
  <2>1. worker[w].at = "finish" /\ worker[w].at \in Executing
    BY <1>16 DEF FinishReset, Executing
  <2>2. worker[w].stage = 2 /\ OlderGone(table.usage_ledger, cut)
    BY <2>1, <1>1 DEF WorkerOK
  <2>3. CASE Step(w, "failed")
    BY <2>1, <2>3, <1>12
  <2>4. CASE Step(w, "complete")
    <3>1. Going("complete")
      BY <2>4, <1>2
    <3> HIDE DEF k, cut
    <3> QED BY <3>1, <2>1, <2>2, <1>4, <1>5, <1>6, <1>7 DEF WorkerOK, Executing, Saved, OlderGone
  <2> QED BY <2>3, <2>4, <1>16 DEF FinishReset
<1>17. CASE SetCompleted(w)
  <2>1. CASE WriteRecord(k, "completed", cut) /\ Step(w, "remove")
    <3>1. Going("remove") /\ worker[w].at = "complete" /\ worker[w].at \in Executing
      BY <2>1, <1>2, <1>17 DEF SetCompleted, Executing
    <3>2. OlderGone(Kept, cut)
      BY <3>1, <1>1 DEF WorkerOK, Executing, OlderGone, Kept
    <3>3. ~IsActive(record'[k])
      BY <3>1, <3>2, <2>1, Rewrites
    <3> HIDE DEF k, cut
    <3> QED BY <3>1, <3>3, <1>4 DEF WorkerOK, Executing, Saved, HasEnded
  <2> QED BY <2>1, <1>2, <1>3, <1>17 DEF SetCompleted
<1>18. CASE FinishFailed(w)
  <2>1. worker[w].at = "failed" /\ worker[w].at \in Executing
    BY <1>18 DEF FinishFailed, Executing
  <2>2. CASE Step(w, "requeue")
    <3>1. Going("requeue")
      BY <2>2, <1>2
    <3> HIDE DEF k, cut
    <3> QED BY <3>1, <2>1, <1>4 DEF WorkerOK, Executing, Saved
  <2>3. CASE Step(w, "remove") /\ (WriteRecord(k, "failed", cut) \/ excused' = excused \cup {k})
    <3>1. Going("remove")
      BY <2>3, <1>2
    <3>2. ~IsActive(record'[k]) \/ k \in excused'
      BY <2>1, <2>3, Rewrites
    <3> HIDE DEF k, cut
    <3> QED BY <3>1, <3>2, <2>1, <1>4 DEF WorkerOK, Executing, Saved, HasEnded
  <2> QED BY <2>2, <2>3, <1>18 DEF FinishFailed
<1>19. CASE Requeue(w)
  <2>1. CASE Step(w, "drop") /\ pending' = pending \cup {Queued(k, worker[w].attempts + 1)}
    <3>1. Going("drop") /\ worker[w].at = "requeue"
      BY <2>1, <1>2, <1>19 DEF Requeue
    <3>2. worker[w].attempts \in Nat
      BY <1>1 DEF WorkerType
    <3>3. \E m \in pending' : m.job = k /\ m.attempts > worker[w].attempts
      <4>1. /\ Queued(k, worker[w].attempts + 1) \in pending'
            /\ Queued(k, worker[w].attempts + 1).job = k
            /\ Queued(k, worker[w].attempts + 1).attempts > worker[w].attempts
        BY <2>1, <3>2 DEF Queued
      <4> QED BY <4>1
    <3> HIDE DEF k, cut
    <3> QED BY <3>1, <3>3, <1>4 DEF WorkerOK, Executing, Saved, WaitsAgain
  <2> QED BY <2>1, <1>2, <1>3, <1>19 DEF Requeue
<1>20. CASE RemoveMember(w)
  <2>1. Going("release") /\ worker[w].at = "remove" /\ record' = record /\ excused' = excused
    BY <1>2, <1>20 DEF RemoveMember
  <2>2. HasEnded(k)
    BY <2>1, <1>1 DEF WorkerOK
  <2> HIDE DEF k, cut
  <2> QED BY <2>1, <2>2, <1>4 DEF WorkerOK, Executing, Saved, HasEnded
<1>21. CASE AcquireLeader(w) \/ DropMember(w) \/ ReleaseActive(w)
  BY <1>2, <1>3, <1>21 DEF AcquireLeader, DropMember, ReleaseActive
<1>22. CASE Crash(w)
  BY <1>1, <1>3, <1>22 DEF Crash, Standby
<1> QED BY <1>8, <1>9, <1>10, <1>11, <1>13, <1>14, <1>15, <1>16, <1>17, <1>18, <1>19, <1>20,
      <1>21, <1>22 DEF Consume

LEMMA WorkKeeps == ASSUME ResetInv, NEW w \in Instances, Consume(w) PROVE ResetInv'
<1>1. WorkEffect(w) /\ ResetTypeOK'
  BY WorkDoes, WorkTypes
<1>2. \A v \in Instances : WorkerOK(v)'
  BY <1>1, WorkOthers, WorkActor
<1> QED BY <1>1, <1>2, WorkOthers DEF ResetInv

-----------------------------------------------------------------------------
LEMMA ResetKeeps == ResetInv /\ [ResetNext]_resetVars => ResetInv'
<1>1. ASSUME ResetInv, UNCHANGED resetVars PROVE ResetInv'
  BY <1>1 DEF resetVars, rowVars, jobVars, ResetInv, ResetTypeOK, RowTypes, JobTypes, ActorTypes,
    RowsOK, Kept, OlderGone, PosterOK, Saved, Unheard, WorkerOK, HasEnded, WaitsAgain, JobOK, Waits,
    Answered
<1>2. ResetInv /\ ResetNext => ResetInv'
  BY DataKeeps, PostKeeps, WorkKeeps DEF ResetNext, DataStep
<1> QED BY <1>1, <1>2

LEMMA ResetHolds == ResetSpec => []ResetInv
BY ResetStarts, ResetKeeps, PTL DEF ResetSpec

LEMMA FinalFollows == ResetInv => ResetIsFinal
<1> SUFFICES ASSUME ResetInv PROVE ResetIsFinal
  OBVIOUS
<1>1. CompletedIsEmpty
  BY DEF CompletedIsEmpty, ResetInv, JobOK, Saved, OlderGone, Kept
<1>2. OldStaysOut
  <2>1. ASSUME NEW r \in table.usage_ledger, created[r] <= lastReset
        PROVE  costResetAt # Absent /\ created[r] <= costResetAt
    <3>1. created[r] \in Nat /\ lastReset \in Nat
      BY NoSuchJob DEF ResetInv, ResetTypeOK, RowTypes, RowsOK, Kept
    <3>2. costResetAt = Absent => created[r] > lastReset
      BY DEF ResetInv, RowsOK, OlderGone, Kept
    <3> QED BY <2>1, <3>1, <3>2 DEF ResetInv, RowsOK
  <2> QED BY <2>1 DEF OldStaysOut
<1>3. NotForgotten
  BY DEF NotForgotten, ResetInv, JobOK, HasEnded, Waits
<1> QED BY <1>1, <1>2, <1>3 DEF ResetIsFinal

\* A completed reset has left no row as old as its cut, a row that was once left out of the
\* limits never counts again, and an accepted job stays in the queue until it has ended:
\* with any number of POSTs, processes, rows, batches, attempts, crashes and failed
\* commands.
THEOREM ResetsAreFinal == ResetSpec => []ResetIsFinal
BY ResetHolds, FinalFollows, PTL

\* No attempt, by whichever process, deletes a row that came after the POST was answered.
THEOREM NewerStays == ResetSpec => NothingNewer
<1> DEFINE Deletes(w, t) == table'[t] # table[t] /\ worker'[w] # worker[w] =>
                             (table[t] \ table'[t]) \cap newer[worker[w].job] = {}
           Spares == \A w \in Instances, t \in {"message_request", "usage_ledger"} : Deletes(w, t)
<1>1. ResetInv /\ [ResetNext]_resetVars => Spares
  <2> SUFFICES ASSUME ResetInv, [ResetNext]_resetVars,
                      NEW w \in Instances, NEW t \in {"message_request", "usage_ledger"},
                      table'[t] # table[t], worker'[w] # worker[w]
               PROVE  (table[t] \ table'[t]) \cap newer[worker[w].job] = {}
    OBVIOUS
  <2>1. DeleteBatch(w) /\ ~UNCHANGED table
    <3>1. \E v \in Instances : Consume(v)
      BY DEF ResetNext, resetVars, rowVars, InsertRow, UpdateRow, CommitRow,
        ResetAdminUserCostMarkers, SessionLost, Post, WriteQueued, ClaimActive, DeleteOwn,
        LookAtExisting, Evict, JoinExisting, EnsurePrepared, SavePrepared, PushJob, PostFails,
        PosterOnly
    <3>2. PICK v \in Instances : Consume(v)
      BY <3>1
    <3>3. v = w
      BY <3>2, WorkDoes DEF WorkEffect
    <3> QED BY <3>2, <3>3 DEF Consume, AcquireLeader, Crash, FindDue, LeaseJob, ReadStatus, SetRunning,
          Report, RemainingRows, FinishReset, SetCompleted, FinishFailed, Requeue, DropMember,
          RemoveMember, ReleaseActive, KeepRows
  <2>2. PICK batch \in SUBSET (Doomed(w) \ rowLocks) : table' = [table EXCEPT ![Table(w)] = @ \ batch]
    BY <2>1 DEF DeleteBatch
  <2>3. /\ worker[w].job \in Posters /\ worker[w].cut = cutoff[worker[w].job]
        /\ Saved(worker[w].job)
    BY <2>1 DEF ResetInv, WorkerOK, Executing, DeleteBatch
  <2>4. \A r \in batch : created[r] \in Nat /\ created[r] <= cutoff[worker[w].job] /\ cutoff[worker[w].job] \in Nat
    <3>1. Table(w) \in {"message_request", "usage_ledger"}
      BY DEF Table, Order, ResetInv, ResetTypeOK, ActorTypes, WorkerType
    <3>2. Doomed(w) \subseteq Kept
      BY <3>1 DEF Doomed, Kept
    <3>3. \A r \in Kept : created[r] \in Nat
      BY NoSuchJob DEF ResetInv, ResetTypeOK, RowTypes, RowsOK, Kept
    <3>4. cutoff[worker[w].job] \in Nat
      BY <2>3, NoSuchJob DEF ResetInv, ResetTypeOK, JobTypes, Saved
    <3> QED BY <3>2, <3>3, <3>4, <2>3 DEF Doomed
  <2>5. \A r \in newer[worker[w].job] : created[r] # Absent => created[r] > cutoff[worker[w].job]
    BY <2>3 DEF ResetInv, JobOK
  <2>6. table[t] \ table'[t] \subseteq batch
    <3>1. table \in [message_request : SUBSET Rows, usage_ledger : SUBSET Rows]
      BY DEF ResetInv, ResetTypeOK, RowTypes
    <3> QED BY <3>1, <2>2
  <2> QED BY <2>4, <2>5, <2>6, NoSuchJob
<1>2. ResetInv /\ [ResetNext]_resetVars => [Spares]_resetVars
  BY <1>1
<1> QED BY <1>2, ResetHolds, PTL DEF ResetSpec, NothingNewer

-----------------------------------------------------------------------------
(* SessionBinding: the three keys agree and live equally long, and a generation that a
   request has read is never given twice. *)

HashType == [gen : Nat, to : Destinations \cup {NoOne}, end : Nat]
BindingTypeOK ==
  /\ bindingClock \in Nat
  /\ canonical \in [ApiKeys -> HashType]
  /\ owner \in [is : ApiKeys \cup {NoOne}, end : Nat]
  /\ provider \in [is : Destinations \cup {NoOne}, end : Nat]
  /\ turn \in [Turns -> [at : {"new", "serving", "ended"}, gen : Nat, to : Destinations \cup {NoOne}]]
  /\ admin \in [Admins -> [at : {"new", "found", "ending", "ended"}, scope : SUBSET Destinations,
                           key : ApiKeys \cup {NoOne}, to : Destinations \cup {NoOne}]]

\* The mirrors are those of the one hash there is, and die with it.
MirrorsOK ==
  /\ \A k \in ApiKeys : canonical[k] # Missing => owner = [is |-> k, end |-> canonical[k].end]
  /\ \A k \in ApiKeys : owner.is = k => canonical[k] # Missing /\ provider.is = canonical[k].to
  /\ provider.is # NoOne => owner.is # NoOne /\ provider.end = owner.end
  /\ owner.is # NoOne => owner.end > bindingClock

\* Who was overtaken holds a generation that is not the current one.
Overtaken ==
  \A r \in overtaken : r \in Turns /\ turn[r].at # "new"
    /\ (turn[r].at = "serving" =>
          canonical[KeyOf[r]] = Missing \/ canonical[KeyOf[r]].gen # turn[r].gen)

EndsOK ==
  \A a \in Admins :
    /\ admin[a].at \in {"found", "ending"} => admin[a].key \in ApiKeys
    /\ admin[a].at = "ending" /\ admin[a].scope # {} => admin[a].to \in admin[a].scope

BindingInv == BindingTypeOK /\ MirrorsOK /\ Overtaken /\ EndsOK

LEMMA BindingFacts ==
  /\ KeyOf \in [Turns -> ApiKeys] /\ NoOne \notin ApiKeys /\ NoOne \notin Destinations
  /\ BindingTTL \in Nat \ {0} /\ TerminationTTL \in Nat \ {0}
BY BindingAssumption

\* There is always a generation that nobody remembers: fewer are remembered than there are
\* to choose from.
LEMMA FreshIsNew == ASSUME BindingTypeOK PROVE Fresh \in Nat /\ Fresh \notin Remembered
<1> DEFINE Gens == {canonical[k].gen : k \in ApiKeys}   Reads == {turn[r].gen : r \in Turns}
           n == Cardinality(ApiKeys) + Cardinality(Turns) + 1
           g == [k \in ApiKeys |-> canonical[k].gen]   t == [r \in Turns |-> turn[r].gen]
<1>1. IsFiniteSet(ApiKeys) /\ IsFiniteSet(Turns)
  BY BindingAssumption
<1>2. Cardinality(ApiKeys) \in Nat /\ Cardinality(Turns) \in Nat
  BY <1>1, FS_CardinalityType
<1>3. IsFiniteSet(Gens) /\ Cardinality(Gens) <= Cardinality(ApiKeys)
  <2>1. g \in Surjection(ApiKeys, Gens)
    BY DEF Surjection
  <2> QED BY <2>1, <1>1, FS_Surjection
<1>4. IsFiniteSet(Reads) /\ Cardinality(Reads) <= Cardinality(Turns)
  <2>1. t \in Surjection(Turns, Reads)
    BY DEF Surjection
  <2> QED BY <2>1, <1>1, FS_Surjection
<1>5. IsFiniteSet(Remembered) /\ Cardinality(Remembered) < n
  <2>1. Remembered = Gens \cup Reads
    BY DEF Remembered
  <2>2. Cardinality(Gens) \in Nat /\ Cardinality(Reads) \in Nat /\ Cardinality(Gens \cap Reads) \in Nat
    <3>1. IsFiniteSet(Gens \cap Reads)
      BY <1>3, FS_Subset
    <3> QED BY <3>1, <1>3, <1>4, FS_CardinalityType
  <2> HIDE DEF Gens, Reads
  <2>3. IsFiniteSet(Gens \cup Reads)
        /\ Cardinality(Gens \cup Reads) = Cardinality(Gens) + Cardinality(Reads) - Cardinality(Gens \cap Reads)
    BY <1>3, <1>4, FS_Union
  <2> QED BY <2>1, <2>2, <2>3, <1>2, <1>3, <1>4
<1>6. n \in Nat /\ IsFiniteSet(1..n) /\ Cardinality(1..n) = n
  <2>1. n \in Nat /\ n \in Int /\ n >= 1
    BY <1>2
  <2> HIDE DEF n
  <2> QED BY <2>1, FS_Interval
<1>7. \E h \in 1..n : h \notin Remembered
  <2>1. CASE 1..n \subseteq Remembered
    <3>1. Cardinality(1..n) <= Cardinality(Remembered)
      BY <2>1, <1>5, FS_Subset
    <3>2. Cardinality(Remembered) \in Nat
      BY <1>5, FS_CardinalityType
    <3> HIDE DEF n
    <3> QED BY <3>1, <3>2, <1>5, <1>6
  <2> QED BY <2>1
<1> QED BY <1>7, <1>2 DEF Fresh

LEMMA BindingStarts == BindingInit => BindingInv
<1> SUFFICES ASSUME BindingInit PROVE BindingInv
  OBVIOUS
<1> USE BindingFacts DEF BindingInit
<1>1. BindingTypeOK
  BY DEF BindingTypeOK, HashType, Missing, NoMirror
<1>2. MirrorsOK /\ Overtaken /\ EndsOK
  BY DEF MirrorsOK, Overtaken, EndsOK, NoMirror, Missing
<1> QED BY <1>1, <1>2 DEF BindingInv

\* The keys are written together: for a hash that is its mirrors' or that nobody has.
LEMMA Stored ==
  ASSUME BindingInv, NEW k \in ApiKeys, NEW gen \in Nat, NEW to \in Destinations \cup {NoOne},
         NEW ttl \in Nat \ {0}, StoreBinding(k, gen, to, ttl), UNCHANGED bindingClock,
         Consistent(k) \/ Reconciles(k)
  PROVE  /\ canonical' \in [ApiKeys -> HashType]
         /\ owner' \in [is : ApiKeys \cup {NoOne}, end : Nat]
         /\ provider' \in [is : Destinations \cup {NoOne}, end : Nat]
         /\ MirrorsOK'
         /\ canonical'[k].gen = gen /\ canonical'[k].to = to
         /\ \A q \in ApiKeys \ {k} : canonical'[q] = canonical[q] /\ canonical[q] = Missing
<1> USE BindingFacts
<1> DEFINE new == [gen |-> gen, to |-> to, end |-> bindingClock + ttl]
<1>1. bindingClock \in Nat /\ canonical \in [ApiKeys -> HashType]
  BY DEF BindingInv, BindingTypeOK
<1>2. new \in HashType /\ new # Missing
  BY <1>1 DEF HashType, Missing
<1>3. canonical'[k] = new /\ \A q \in ApiKeys \ {k} : canonical'[q] = canonical[q]
  BY <1>1 DEF StoreBinding
<1>4. \A q \in ApiKeys \ {k} : canonical[q] = Missing
  <2>1. CASE owner.is = k
    BY <2>1 DEF BindingInv, MirrorsOK
  <2>2. CASE owner.is = NoOne
    BY <2>2 DEF BindingInv, MirrorsOK
  <2> QED BY <2>1, <2>2 DEF Reconciles, Consistent
<1>5. /\ owner' = [is |-> k, end |-> bindingClock + ttl]
      /\ provider' = IF to = NoOne THEN NoMirror ELSE [is |-> to, end |-> bindingClock + ttl]
  BY DEF StoreBinding
<1>6. canonical' \in [ApiKeys -> HashType]
  BY <1>1, <1>2 DEF StoreBinding
<1>7. MirrorsOK'
  <2>1. canonical'[k].to = to /\ canonical'[k].end = bindingClock + ttl /\ canonical'[k] # Missing
    BY <1>2, <1>3
  <2> HIDE DEF new
  <2> QED BY <2>1, <1>1, <1>3, <1>4, <1>5 DEF MirrorsOK, NoMirror
<1> QED BY <1>1, <1>3, <1>4, <1>5, <1>6, <1>7 DEF NoMirror

\* A binding is only made anew for its owner; who had read the old one is overtaken.
LEMMA Rebound ==
  ASSUME BindingInv, NEW k \in ApiKeys, NEW to \in Destinations \cup {NoOne}, NEW ttl \in Nat \ {0},
         Consistent(k), Rebind(k, to, ttl), UNCHANGED bindingClock
  PROVE  /\ canonical' \in [ApiKeys -> HashType]
         /\ owner' \in [is : ApiKeys \cup {NoOne}, end : Nat]
         /\ provider' \in [is : Destinations \cup {NoOne}, end : Nat]
         /\ MirrorsOK'
         /\ overtaken' = overtaken \cup Reading(k)
         /\ \A q \in ApiKeys : canonical'[q] = Missing \/ canonical'[q].gen \notin {turn[r].gen : r \in Turns}
<1>1. Fresh \in Nat /\ Fresh \notin Remembered
  BY FreshIsNew DEF BindingInv
<1>2. StoreBinding(k, Fresh, to, ttl) /\ overtaken' = overtaken \cup Reading(k)
  BY DEF Rebind
<1>3. /\ canonical' \in [ApiKeys -> HashType]
      /\ owner' \in [is : ApiKeys \cup {NoOne}, end : Nat]
      /\ provider' \in [is : Destinations \cup {NoOne}, end : Nat]
      /\ MirrorsOK' /\ canonical'[k].gen = Fresh
      /\ \A q \in ApiKeys \ {k} : canonical'[q] = Missing
  BY <1>1, <1>2, Stored
<1> QED BY <1>1, <1>2, <1>3 DEF Remembered

LEMMA Reread ==
  ASSUME BindingInv, NEW k \in ApiKeys, NEW ttl \in Nat \ {0}, Reconciles(k), ReadOrReconcile(k, ttl),
         UNCHANGED bindingClock
  PROVE  /\ canonical' \in [ApiKeys -> HashType]
         /\ owner' \in [is : ApiKeys \cup {NoOne}, end : Nat]
         /\ provider' \in [is : Destinations \cup {NoOne}, end : Nat]
         /\ MirrorsOK' /\ overtaken' = overtaken
         /\ \A q \in ApiKeys :
              \/ canonical'[q] = Missing
              \/ canonical[q] # Missing /\ canonical'[q].gen = canonical[q].gen
              \/ canonical'[q].gen \notin {turn[r].gen : r \in Turns}
<1>1. Fresh \in Nat /\ Fresh \notin Remembered
  BY FreshIsNew DEF BindingInv
<1>2. canonical[k].gen \in Nat /\ canonical[k].to \in Destinations \cup {NoOne} /\ provider.is \in Destinations \cup {NoOne}
  BY DEF BindingInv, BindingTypeOK, HashType
<1>3. CASE canonical[k] # Missing
  <2>1. StoreBinding(k, canonical[k].gen, canonical[k].to, ttl) /\ overtaken' = overtaken
    BY <1>3 DEF ReadOrReconcile
  <2> QED BY <2>1, <1>2, <1>3, Stored
<1>4. CASE canonical[k] = Missing
  <2>1. StoreBinding(k, Fresh, provider.is, ttl) /\ overtaken' = overtaken
    BY <1>4 DEF ReadOrReconcile
  <2> QED BY <2>1, <1>1, <1>2, <1>4, Stored DEF Remembered
<1> QED BY <1>3, <1>4

-----------------------------------------------------------------------------
\* What a step may do to the one who takes it, and to the keys.
LEMMA TurnKeeps ==
  ASSUME BindingInv, NEW r \in Turns,
         ReadBindingFacts(r) \/ \E p \in Destinations : CompareAndSet(r, p) \/ ClearBinding(r, p)
  PROVE  BindingInv'
<1> USE BindingFacts DEF BindingInv
<1> DEFINE k == KeyOf[r]
<1>1. k \in ApiKeys /\ UNCHANGED <<bindingClock, admin>>
  BY DEF ReadBindingFacts, CompareAndSet, ClearBinding, Ended
<1>2. EndsOK'
  BY <1>1 DEF EndsOK
<1>3. turn \in [Turns -> [at : {"new", "serving", "ended"}, gen : Nat, to : Destinations \cup {NoOne}]]
  BY DEF BindingTypeOK
<1>4. CASE ReadBindingFacts(r)
  <2>1. CASE Reconciles(k) /\ ReadOrReconcile(k, BindingTTL)
    <3>1. /\ canonical' \in [ApiKeys -> HashType]
          /\ owner' \in [is : ApiKeys \cup {NoOne}, end : Nat]
          /\ provider' \in [is : Destinations \cup {NoOne}, end : Nat]
          /\ MirrorsOK' /\ overtaken' = overtaken
          /\ \A q \in ApiKeys :
               \/ canonical'[q] = Missing
               \/ canonical[q] # Missing /\ canonical'[q].gen = canonical[q].gen
               \/ canonical'[q].gen \notin {turn[s].gen : s \in Turns}
      BY <2>1, <1>1, Reread
    <3>2. turn' = [turn EXCEPT ![r] = [at |-> "serving", gen |-> canonical'[k].gen, to |-> canonical'[k].to]]
      BY <2>1, <1>4 DEF ReadBindingFacts
    <3>3. canonical'[k].gen \in Nat /\ canonical'[k].to \in Destinations \cup {NoOne}
      BY <3>1, <1>1 DEF HashType
    <3>4. BindingTypeOK'
      BY <3>1, <3>2, <3>3, <1>1, <1>3 DEF BindingTypeOK
    <3>5. Overtaken'
      <4>1. ASSUME NEW s \in overtaken
            PROVE  /\ s \in Turns /\ turn'[s].at # "new"
                   /\ turn'[s].at = "serving" =>
                        canonical'[KeyOf[s]] = Missing \/ canonical'[KeyOf[s]].gen # turn'[s].gen
        <5>1. s # r /\ s \in Turns /\ turn[s].at # "new" /\ turn'[s] = turn[s] /\ KeyOf[s] \in ApiKeys
          BY <3>2, <1>3, <1>4 DEF ReadBindingFacts, Overtaken
        <5> QED BY <5>1, <3>1 DEF Overtaken
      <4> QED BY <4>1, <3>1 DEF Overtaken
    <3> QED BY <3>1, <3>4, <3>5, <1>2
  <2>2. CASE NoChange /\ turn' = [turn EXCEPT ![r].at = "ended"]
    <3>1. BindingTypeOK'
      BY <2>2, <1>1 DEF BindingTypeOK, NoChange
    <3>2. MirrorsOK'
      BY <2>2, <1>1 DEF MirrorsOK, NoChange, Missing
    <3>3. Overtaken'
      BY <2>2, <1>3 DEF Overtaken, NoChange
    <3> QED BY <3>1, <3>2, <3>3, <1>2
  <2> QED BY <2>1, <2>2, <1>4 DEF ReadBindingFacts
<1>5. ASSUME turn[r].at = "serving", Ended(r),
             NoChange \/ \E to \in Destinations \cup {NoOne} : Consistent(k) /\ Rebind(k, to, BindingTTL)
      PROVE  BindingInv'
  <2>1. turn' = [turn EXCEPT ![r] = [at |-> "ended", gen |-> 0, to |-> NoOne]]
    BY <1>5 DEF Ended
  <2>2. turn' \in [Turns -> [at : {"new", "serving", "ended"}, gen : Nat, to : Destinations \cup {NoOne}]]
    BY <2>1, <1>3
  <2>3. CASE NoChange
    <3>1. BindingTypeOK'
      BY <2>2, <2>3, <1>1 DEF BindingTypeOK, NoChange
    <3>2. MirrorsOK'
      BY <2>3, <1>1 DEF MirrorsOK, NoChange, Missing
    <3>3. Overtaken'
      BY <2>1, <2>3, <1>3 DEF Overtaken, NoChange
    <3> QED BY <3>1, <3>2, <3>3, <1>2
  <2>4. CASE \E to \in Destinations \cup {NoOne} : Consistent(k) /\ Rebind(k, to, BindingTTL)
    <3>1. /\ canonical' \in [ApiKeys -> HashType]
          /\ owner' \in [is : ApiKeys \cup {NoOne}, end : Nat]
          /\ provider' \in [is : Destinations \cup {NoOne}, end : Nat]
          /\ MirrorsOK' /\ overtaken' = overtaken \cup Reading(k)
          /\ \A q \in ApiKeys : canonical'[q] = Missing \/ canonical'[q].gen \notin {turn[s].gen : s \in Turns}
      BY <2>4, <1>1, Rebound
    <3>2. BindingTypeOK'
      BY <3>1, <2>2, <1>1 DEF BindingTypeOK
    <3>3. Overtaken'
      <4>1. ASSUME NEW s \in overtaken'
            PROVE  /\ s \in Turns /\ turn'[s].at # "new"
                   /\ turn'[s].at = "serving" =>
                        canonical'[KeyOf[s]] = Missing \/ canonical'[KeyOf[s]].gen # turn'[s].gen
        <5>1. s \in Turns /\ turn[s].at # "new" /\ KeyOf[s] \in ApiKeys
          BY <3>1 DEF Overtaken, Reading
        <5>2. turn'[s].at = "serving" => turn'[s] = turn[s]
          BY <5>1, <2>1, <1>3
        <5>3. turn'[s].at # "new"
          BY <5>1, <2>1, <1>3
        <5> QED BY <5>1, <5>2, <5>3, <3>1
      <4> QED BY <4>1 DEF Overtaken
    <3> QED BY <3>1, <3>2, <3>3, <1>2
  <2> QED BY <2>3, <2>4, <1>5
<1>6. CASE \E p \in Destinations : CompareAndSet(r, p) \/ ClearBinding(r, p)
  BY <1>5, <1>6 DEF CompareAndSet, ClearBinding
<1> QED BY <1>4, <1>6

LEMMA AdminKeeps ==
  ASSUME BindingInv, NEW a \in Admins, LookupOwner(a) \/ InspectBinding(a) \/ Terminate(a)
  PROVE  BindingInv'
<1> USE BindingFacts DEF BindingInv
<1> DEFINE k == admin[a].key
<1>1. UNCHANGED <<bindingClock, turn>>
  BY DEF LookupOwner, InspectBinding, Terminate
<1>2. /\ admin \in [Admins -> [at : {"new", "found", "ending", "ended"}, scope : SUBSET Destinations,
                               key : ApiKeys \cup {NoOne}, to : Destinations \cup {NoOne}]]
      /\ admin[a] \in [at : {"new", "found", "ending", "ended"}, scope : SUBSET Destinations,
                       key : ApiKeys \cup {NoOne}, to : Destinations \cup {NoOne}]
      /\ owner.is \in ApiKeys \cup {NoOne}
  BY DEF BindingTypeOK
<1>3. ASSUME NoChange PROVE MirrorsOK' /\ Overtaken'
  <2>1. UNCHANGED <<canonical, owner, provider, overtaken, turn, bindingClock>>
    BY <1>1, <1>3 DEF NoChange
  <2> QED BY <2>1 DEF MirrorsOK, Overtaken, Missing
<1>4. CASE LookupOwner(a)
  <2>1. admin' \in [Admins -> [at : {"new", "found", "ending", "ended"}, scope : SUBSET Destinations,
                               key : ApiKeys \cup {NoOne}, to : Destinations \cup {NoOne}]]
    BY <1>2, <1>4 DEF LookupOwner
  <2>2. BindingTypeOK'
    BY <2>1, <1>1, <1>4 DEF LookupOwner, BindingTypeOK, NoChange
  <2>3. EndsOK'
    BY <1>2, <1>4 DEF LookupOwner, EndsOK
  <2> QED BY <2>2, <2>3, <1>3, <1>4 DEF LookupOwner
<1>5. CASE InspectBinding(a)
  <2>1. k \in ApiKeys
    BY <1>5 DEF InspectBinding, EndsOK
  <2>2. CASE Reconciles(k) /\ ReadOrReconcile(k, TerminationTTL)
    <3>1. /\ canonical' \in [ApiKeys -> HashType]
          /\ owner' \in [is : ApiKeys \cup {NoOne}, end : Nat]
          /\ provider' \in [is : Destinations \cup {NoOne}, end : Nat]
          /\ MirrorsOK' /\ overtaken' = overtaken
          /\ \A q \in ApiKeys :
               \/ canonical'[q] = Missing
               \/ canonical[q] # Missing /\ canonical'[q].gen = canonical[q].gen
               \/ canonical'[q].gen \notin {turn[s].gen : s \in Turns}
      BY <2>1, <2>2, <1>1, Reread
    <3>2. canonical'[k].to \in Destinations \cup {NoOne}
      BY <2>1, <3>1 DEF HashType
    <3>3. admin' = [admin EXCEPT
            ![a].at = IF admin[a].scope = {} \/ canonical'[k].to \in admin[a].scope THEN "ending" ELSE "ended",
            ![a].to = canonical'[k].to]
      BY <2>2, <1>5 DEF InspectBinding
    <3>4. /\ admin'[a].key = k /\ admin'[a].scope = admin[a].scope /\ admin'[a].to = canonical'[k].to
          /\ admin'[a].at \in {"ending", "ended"}
          /\ admin'[a].at = "ending" => admin[a].scope = {} \/ canonical'[k].to \in admin[a].scope
          /\ \A b \in Admins \ {a} : admin'[b] = admin[b]
      BY <3>3, <1>2
    <3>5. admin' \in [Admins -> [at : {"new", "found", "ending", "ended"}, scope : SUBSET Destinations,
                               key : ApiKeys \cup {NoOne}, to : Destinations \cup {NoOne}]]
      <4>1. admin'[a] = [at |-> admin'[a].at, scope |-> admin[a].scope, key |-> k, to |-> canonical'[k].to]
        BY <3>3, <1>2
      <4>2. admin' = [admin EXCEPT ![a] = admin'[a]]
        BY <3>3, <1>2
      <4> QED BY <4>1, <4>2, <3>2, <3>4, <1>2
    <3>6. EndsOK'
      BY <3>4, <2>1 DEF EndsOK
    <3>7. Overtaken'
      <4>1. ASSUME NEW s \in overtaken
            PROVE  /\ s \in Turns /\ turn'[s].at # "new"
                   /\ turn'[s].at = "serving" =>
                        canonical'[KeyOf[s]] = Missing \/ canonical'[KeyOf[s]].gen # turn'[s].gen
        <5>1. s \in Turns /\ turn[s].at # "new" /\ turn'[s] = turn[s] /\ KeyOf[s] \in ApiKeys
          BY <1>1 DEF Overtaken
        <5> QED BY <5>1, <3>1 DEF Overtaken
      <4> QED BY <4>1, <3>1 DEF Overtaken
    <3>8. BindingTypeOK'
      BY <3>1, <3>5, <1>1 DEF BindingTypeOK
    <3> QED BY <3>1, <3>6, <3>7, <3>8
  <2>3. CASE NoChange /\ admin' = [admin EXCEPT ![a].at = "ended"]
    <3>1. admin' \in [Admins -> [at : {"new", "found", "ending", "ended"}, scope : SUBSET Destinations,
                               key : ApiKeys \cup {NoOne}, to : Destinations \cup {NoOne}]]
      BY <2>3, <1>2
    <3>2. BindingTypeOK' /\ EndsOK'
      BY <2>3, <3>1, <1>1, <1>2 DEF BindingTypeOK, NoChange, EndsOK
    <3> QED BY <2>3, <3>2, <1>3
  <2> QED BY <2>2, <2>3, <1>5 DEF InspectBinding
<1>6. CASE Terminate(a)
  <2>1. k \in ApiKeys
    BY <1>6 DEF Terminate, EndsOK
  <2>2. /\ admin' \in [Admins -> [at : {"new", "found", "ending", "ended"}, scope : SUBSET Destinations,
                                 key : ApiKeys \cup {NoOne}, to : Destinations \cup {NoOne}]]
        /\ EndsOK'
    BY <1>2, <1>6 DEF Terminate, EndsOK
  <2>3. CASE NoChange
    <3>1. BindingTypeOK'
      BY <2>2, <2>3, <1>1 DEF BindingTypeOK, NoChange
    <3> QED BY <3>1, <2>2, <2>3, <1>3
  <2>4. CASE Consistent(k) /\ Rebind(k, NoOne, TerminationTTL)
    <3>1. /\ canonical' \in [ApiKeys -> HashType]
          /\ owner' \in [is : ApiKeys \cup {NoOne}, end : Nat]
          /\ provider' \in [is : Destinations \cup {NoOne}, end : Nat]
          /\ MirrorsOK' /\ overtaken' = overtaken \cup Reading(k)
          /\ \A q \in ApiKeys : canonical'[q] = Missing \/ canonical'[q].gen \notin {turn[s].gen : s \in Turns}
      BY <2>1, <2>4, <1>1, Rebound
    <3>2. BindingTypeOK'
      BY <3>1, <2>2, <1>1 DEF BindingTypeOK
    <3>3. Overtaken'
      BY <3>1, <1>1 DEF Overtaken, Reading
    <3> QED BY <3>1, <3>2, <3>3, <2>2
  <2> QED BY <2>3, <2>4, <1>6 DEF Terminate
<1> QED BY <1>4, <1>5, <1>6

\* The three keys expire in one tick, and with them what anybody has read.
LEMMA TickKeeps == ASSUME BindingInv, BindingTick PROVE BindingInv'
<1> USE BindingFacts DEF BindingInv
<1>1. /\ bindingClock \in Nat /\ bindingClock' = bindingClock + 1 /\ UNCHANGED <<turn, admin>>
      /\ canonical \in [ApiKeys -> HashType]
  BY DEF BindingTick, BindingTypeOK
<1>2. /\ \A k \in ApiKeys :
           canonical'[k] = IF canonical[k].end > bindingClock' THEN canonical[k] ELSE Missing
      /\ owner' = IF owner.end > bindingClock' THEN owner ELSE NoMirror
      /\ provider' = IF provider.end > bindingClock' THEN provider ELSE NoMirror
      /\ overtaken' = overtaken \cup
           UNION {Reading(k) : k \in {q \in ApiKeys : ~(canonical[q].end > bindingClock')}}
  BY DEF BindingTick
<1>3. canonical' \in [ApiKeys -> HashType]
  <2>1. Missing \in HashType
    BY DEF Missing, HashType
  <2> QED BY <2>1, <1>1 DEF BindingTick
<1>4. BindingTypeOK'
  BY <1>1, <1>2, <1>3 DEF BindingTypeOK, NoMirror
<1>5. MirrorsOK'
  <2>1. \A k \in ApiKeys : canonical[k] # Missing => owner.is = k /\ owner.end = canonical[k].end
    BY DEF MirrorsOK
  <2>2. ASSUME NEW k \in ApiKeys, canonical'[k] # Missing
        PROVE  owner' = [is |-> k, end |-> canonical'[k].end]
    <3>1. canonical[k] # Missing /\ canonical'[k] = canonical[k] /\ canonical[k].end > bindingClock'
      BY <2>2, <1>2
    <3> QED BY <3>1, <2>1, <1>2 DEF MirrorsOK
  <2>3. ASSUME NEW k \in ApiKeys, owner'.is = k
        PROVE  canonical'[k] # Missing /\ provider'.is = canonical'[k].to
    <3>1. owner' = owner /\ owner.is = k /\ owner.end > bindingClock'
      BY <2>3, <1>2 DEF NoMirror
    <3>2. canonical[k] # Missing /\ provider.is = canonical[k].to
      BY <3>1 DEF MirrorsOK
    <3>3. canonical'[k] = canonical[k]
      BY <3>1, <3>2, <2>1, <1>2
    <3>4. provider'.is = provider.is
      BY <3>1, <1>2 DEF MirrorsOK, NoMirror
    <3> QED BY <3>2, <3>3, <3>4
  <2>4. provider'.is # NoOne => owner'.is # NoOne /\ provider'.end = owner'.end
    BY <1>2 DEF MirrorsOK, NoMirror
  <2>5. owner'.is # NoOne => owner'.end > bindingClock'
    BY <1>2 DEF NoMirror
  <2> QED BY <2>2, <2>3, <2>4, <2>5 DEF MirrorsOK
<1>6. Overtaken'
  <2>1. ASSUME NEW s \in overtaken'
        PROVE  /\ s \in Turns /\ turn'[s].at # "new"
               /\ turn'[s].at = "serving" =>
                    canonical'[KeyOf[s]] = Missing \/ canonical'[KeyOf[s]].gen # turn'[s].gen
    <3>1. CASE s \in overtaken
      BY <3>1, <1>1, <1>2 DEF Overtaken
    <3>2. CASE s \notin overtaken
      <4>1. PICK k \in ApiKeys : ~(canonical[k].end > bindingClock') /\ s \in Reading(k)
        BY <3>2, <1>2
      <4> QED BY <4>1, <1>1, <1>2 DEF Reading
    <3> QED BY <3>1, <3>2
  <2> QED BY <2>1 DEF Overtaken
<1>7. EndsOK'
  BY <1>1 DEF EndsOK
<1> QED BY <1>4, <1>5, <1>6, <1>7

LEMMA BindingKeeps == BindingInv /\ [BindingNext]_bindingVars => BindingInv'
<1>1. ASSUME BindingInv, UNCHANGED bindingVars PROVE BindingInv'
  BY <1>1 DEF bindingVars, BindingInv, BindingTypeOK, MirrorsOK, Overtaken, EndsOK, Missing
<1>2. BindingInv /\ BindingNext => BindingInv'
  BY TurnKeeps, AdminKeeps, TickKeeps DEF BindingNext
<1> QED BY <1>1, <1>2

\* What a step of a request or of a termination does that acts on old facts.
LEMMA StaleIsKept ==
  ASSUME BindingInv, [BindingNext]_bindingVars
  PROVE  /\ \A r \in overtaken : turn[r].at = "serving" /\ turn'[r].at = "ended" => NoChange
         /\ \A a \in Admins :
              admin[a].at = "ending" /\ admin'[a].at = "ended" /\ admin[a].scope # {} =>
                NoChange \/ canonical[admin[a].key].to \in admin[a].scope
<1> USE BindingFacts
<1>1. ASSUME NEW r \in overtaken, turn[r].at = "serving", turn'[r].at = "ended" PROVE NoChange
  <2>1. r \in Turns /\ (canonical[KeyOf[r]] = Missing \/ canonical[KeyOf[r]].gen # turn[r].gen)
    BY <1>1 DEF BindingInv, Overtaken
  <2>2. \E s \in Turns : ReadBindingFacts(s) \/ \E p \in Destinations : CompareAndSet(s, p) \/ ClearBinding(s, p)
    BY <1>1 DEF BindingNext, bindingVars, LookupOwner, InspectBinding, Terminate, BindingTick
  <2>3. \E p \in Destinations : CompareAndSet(r, p) \/ ClearBinding(r, p)
    BY <2>1, <2>2, <1>1 DEF ReadBindingFacts, CompareAndSet, ClearBinding, Ended, BindingInv, BindingTypeOK
  <2> QED BY <2>1, <2>3 DEF CompareAndSet, ClearBinding, Consistent
<1>2. ASSUME NEW a \in Admins, admin[a].at = "ending", admin'[a].at = "ended", admin[a].scope # {}
      PROVE  NoChange \/ canonical[admin[a].key].to \in admin[a].scope
  <2>1. admin[a].to \in admin[a].scope
    BY <1>2 DEF BindingInv, EndsOK
  <2>2. \E b \in Admins : LookupOwner(b) \/ InspectBinding(b) \/ Terminate(b)
    BY <1>2 DEF BindingNext, bindingVars, ReadBindingFacts, CompareAndSet, ClearBinding, Ended, BindingTick
  <2>3. Terminate(a)
    BY <2>2, <1>2 DEF LookupOwner, InspectBinding, Terminate, BindingInv, BindingTypeOK
  <2> QED BY <2>1, <2>3, <1>2 DEF Terminate
<1> QED BY <1>1, <1>2

\* The hash of a session and the mirrors agree, and nobody acts on a binding that changed
\* since he read it: with any number of requests, keys, providers and administrators.
THEOREM BindingAlwaysHolds == BindingSpec => BindingHolds
<1>1. BindingInv => MirrorsAgree
  BY BindingFacts DEF BindingInv, BindingTypeOK, MirrorsOK, MirrorsAgree, Consistent
<1>2. BindingSpec => []BindingInv
  BY BindingStarts, BindingKeeps, PTL DEF BindingSpec
<1> DEFINE Fresher ==
      /\ \A r \in overtaken : turn[r].at = "serving" /\ turn'[r].at = "ended" => NoChange
      /\ \A a \in Admins :
           admin[a].at = "ending" /\ admin'[a].at = "ended" /\ admin[a].scope # {} =>
             NoChange \/ canonical[admin[a].key].to \in admin[a].scope
<1>3. BindingInv /\ [BindingNext]_bindingVars => [Fresher]_bindingVars
  BY StaleIsKept
<1> QED BY <1>1, <1>2, <1>3, PTL DEF BindingSpec, BindingHolds, StaleFactsStayOut

=============================================================================
