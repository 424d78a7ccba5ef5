----------------------------- MODULE RowSettlement -----------------------------
(* The writers of one row of message_request and what they add to it: the settlements
   of the request (src/go/internal/terminal/settle.go), the losers of its streaming
   race, each billed by a goroutine of its own (src/go/internal/dataplane/hedge.go), and
   the patrol that closes rows nobody settled (src/go/internal/patrol/patrol.go).  Every
   statement is atomic in the database (src/go/internal/store/message.go).  A statement
   its caller gave up on may still take effect, at once or much later, and the process
   may die between two statements. *)
EXTENDS Integers, FiniteSets

CONSTANTS
  Settlements,    \* the calls of settleNow for this row
  Losers,         \* the attempts billed as losers: provider and attempt number
  CostOf,         \* the cost a settlement carries, None if it bills nothing
  LoserCost,
  Total,          \* Total[S]: the sum of the costs of the losers in S
  MaxAttempts,    \* attempts of every write
  Patrol,         \* the patrol, as a writer of the terminal state
  None

ASSUME LedgerConstants ==
  /\ MaxAttempts \in Nat \ {0} /\ IsFiniteSet(Losers)
  /\ LoserCost \in [Losers -> Nat \ {0}]
  /\ CostOf \in [Settlements -> Nat \cup {None}]
  /\ Total \in [SUBSET Losers -> Nat] /\ Total[{}] = 0
  /\ \A S \in SUBSET Losers : \A l \in Losers \ S : Total[S \cup {l}] = Total[S] + LoserCost[l]
  /\ Patrol \notin Settlements /\ None \notin Settlements \cup Losers \cup {Patrol} \cup Nat
  /\ Settlements \cap Losers = {}

VARIABLES
  finalBy,     \* whose terminal state the row has: status_code is NULL while None
  cost,        \* cost_usd, NULL is None
  losers,      \* hedge_losers
  leased,      \* the markers of the settled leases
  deducted,    \* what the settled leases were charged
  notified,    \* the settlements that announced the row
  place,       \* where each settlement and each loser's billing is
  tries,       \* the attempts its current write has failed
  result,      \* what a settlement returned
  patrol,      \* the round of the patrol has listed the row, or not
  limbo        \* the statements given up: what they write and for whom

rowVars == <<finalBy, cost, losers>>
leaseVars == <<leased, deducted>>
vars == <<rowVars, leaseVars, notified, place, tries, result, patrol, limbo>>

Init ==
  /\ finalBy = None /\ cost = None /\ losers = {}
  /\ leased = {} /\ deducted = 0 /\ notified = {}
  /\ place = [a \in Settlements \cup Losers |-> IF a \in Settlements THEN "terminal" ELSE "bill"]
  /\ tries = [a \in Settlements \cup Losers |-> 0]
  /\ result = [s \in Settlements |-> "none"]
  /\ patrol = "idle" /\ limbo = {}

Spent == IF cost = None THEN 0 ELSE cost

-----------------------------------------------------------------------------
(* The statements *)

OverwriteDetails(who) ==   \* without the predicate on status_code
  finalBy' = who

\* UpdateDetailsIfUnfinalized: WHERE status_code IS NULL.
UpdateDetails(who) ==
  finalBy' = IF finalBy = None THEN who ELSE finalBy

\* UpdateWinnerCost overwrites: the winner and every loser already in the row.
UpdateWinnerCost(s) ==
  cost' = CostOf[s] + Total[losers] /\ UNCHANGED losers

AddUnguarded(l) ==   \* without the predicate on hedge_losers
  cost' = Spent + LoserCost[l] /\ losers' = losers \cup {l}

\* AddHedgeLoserCost adds, once for each loser.
AddHedgeLoserCost(l) ==
  IF l \in losers THEN UNCHANGED <<cost, losers>>
  ELSE cost' = Spent + LoserCost[l] /\ losers' = losers \cup {l}

Goto(a, next) == place' = [place EXCEPT ![a] = next] /\ tries' = [tries EXCEPT ![a] = 0]
Conclude(s, value) == Goto(s, "ended") /\ result' = [result EXCEPT ![s] = value]

\* The statement failed, or its reply was lost: try again.
Retry(a) ==
  /\ tries[a] + 1 < MaxAttempts
  /\ tries' = [tries EXCEPT ![a] = @ + 1]
  /\ UNCHANGED place

GiveUp(write, who) == limbo' = limbo \cup {<<write, who>>}

\* A statement given up takes effect, for all its caller knows more than once.
LateEffect(write, who) ==
  /\ <<write, who>> \in limbo
  /\ \/ write = "terminal" /\ UpdateDetails(who) /\ UNCHANGED <<cost, losers>>
     \/ write = "cost" /\ UpdateWinnerCost(who) /\ UNCHANGED finalBy
     \/ write = "bill" /\ AddHedgeLoserCost(who) /\ UNCHANGED finalBy
  /\ UNCHANGED <<leaseVars, notified, place, tries, result, patrol, limbo>>

-----------------------------------------------------------------------------
(* settleNowInner *)

SettleTerminal(s) ==
  /\ place[s] = "terminal" /\ UpdateDetails(s)
  /\ IF finalBy # None THEN Conclude(s, "notSettled")
     ELSE Goto(s, IF CostOf[s] = None THEN "announce" ELSE "cost") /\ UNCHANGED result
  /\ UNCHANGED <<cost, losers, leaseVars, notified, patrol, limbo>>

\* The last attempt failed, or the context ended while the next one was awaited.
TerminalFails(s) ==
  /\ place[s] = "terminal" /\ GiveUp("terminal", s)
  /\ (Retry(s) /\ UNCHANGED result) \/ Conclude(s, "failed")
  /\ UNCHANGED <<rowVars, leaseVars, notified, patrol>>

LeaseFirst(s) ==   \* the leases are charged before the ledger
  /\ place[s] = "cost"
  /\ leased' = leased \cup {s} /\ deducted' = deducted + CostOf[s]
  /\ Goto(s, "late")
  /\ UNCHANGED <<rowVars, notified, result, patrol, limbo>>

SettleCost(s) ==
  /\ place[s] = "cost" /\ UpdateWinnerCost(s)
  /\ Goto(s, "lease")
  /\ UNCHANGED <<finalBy, leaseVars, notified, result, patrol, limbo>>

\* ErrCostWriteFailed: nothing after the cost is released.
CostFails(s) ==
  /\ place[s] = "cost" /\ GiveUp("cost", s)
  /\ (Retry(s) /\ UNCHANGED result) \/ Conclude(s, "gap")
  /\ UNCHANGED <<rowVars, leaseVars, notified, patrol>>

\* The settlement script charges once for each marker; a failure only leaves a trace.
SettleLease(a, amount) ==
  \/ /\ leased' = leased \cup {a}
     /\ deducted' = IF a \in leased THEN deducted ELSE deducted + amount
  \/ UNCHANGED leaseVars

SettleLeases(s) ==
  /\ place[s] = "lease" /\ SettleLease(s, CostOf[s])
  /\ Goto(s, "announce")
  /\ UNCHANGED <<rowVars, notified, result, patrol, limbo>>

\* notifyNewRow and recordRollup.
Announce(s) ==
  /\ place[s] = "announce"
  /\ notified' = notified \cup {s}
  /\ Conclude(s, "row")
  /\ UNCHANGED <<rowVars, leaseVars, patrol, limbo>>

-----------------------------------------------------------------------------
(* BillLoser *)

BillLoser(l) ==
  /\ place[l] = "bill" /\ AddHedgeLoserCost(l)
  /\ Goto(l, "lease")
  /\ UNCHANGED <<finalBy, leaseVars, notified, result, patrol, limbo>>

BillFails(l) ==
  /\ place[l] = "bill" /\ GiveUp("bill", l)
  /\ Retry(l) \/ Goto(l, "ended")
  /\ UNCHANGED <<rowVars, leaseVars, notified, result, patrol>>

SettleLoserLease(l) ==
  /\ place[l] = "lease" /\ SettleLease(l, LoserCost[l])
  /\ Goto(l, "ended")
  /\ UNCHANGED <<rowVars, notified, result, patrol, limbo>>

-----------------------------------------------------------------------------
(* The patrol: a round lists the row once it is old enough, and repairs it later *)

ListUnsettled ==
  /\ patrol = "idle" /\ finalBy = None
  /\ patrol' = "listed"
  /\ UNCHANGED <<rowVars, leaseVars, notified, place, tries, result, limbo>>

RepairUnsettled ==
  /\ patrol = "listed" /\ UpdateDetails(Patrol)
  /\ patrol' = "idle"
  /\ UNCHANGED <<cost, losers, leaseVars, notified, place, tries, result, limbo>>

FailForGood ==   \* the row is never listed again
  /\ patrol = "listed"
  /\ patrol' = "skipped"
  /\ UNCHANGED <<rowVars, leaseVars, notified, place, tries, result, limbo>>

\* A row that cannot be repaired now is left to the next round.
RepairFails ==
  /\ patrol = "listed" /\ GiveUp("terminal", Patrol)
  /\ patrol' = "idle"
  /\ UNCHANGED <<rowVars, leaseVars, notified, place, tries, result>>

\* The process dies with every goroutine; the one started next has a patrol again.
Crash ==
  /\ \E a \in DOMAIN place : place[a] \notin {"ended", "dead"}
  /\ place' = [a \in DOMAIN place |-> IF place[a] = "ended" THEN "ended" ELSE "dead"]
  /\ patrol' = "idle"
  /\ UNCHANGED <<rowVars, leaseVars, notified, tries, result, limbo>>

SettlementStep(s) ==
  \/ SettleTerminal(s) \/ TerminalFails(s) \/ SettleCost(s) \/ CostFails(s)
  \/ SettleLeases(s) \/ Announce(s)
LoserStep(l) == BillLoser(l) \/ BillFails(l) \/ SettleLoserLease(l)
PatrolStep == ListUnsettled \/ RepairUnsettled \/ RepairFails

Next ==
  \/ \E s \in Settlements : SettlementStep(s)
  \/ \E l \in Losers : LoserStep(l)
  \/ PatrolStep \/ Crash
  \/ \E given \in limbo : LateEffect(given[1], given[2])

Spec == Init /\ [][Next]_vars

\* The patrol runs in rounds for as long as there is a process, and the database does
\* not fail every one of them.
PatrolFairness == WF_vars(ListUnsettled) /\ SF_vars(RepairUnsettled)

FairSpec == Spec /\ PatrolFairness

\* Where those two steps are possible: what PatrolFairness promises begins there.
PatrolCanAct ==
  /\ patrol = "idle" /\ finalBy = None => ENABLED <<ListUnsettled>>_vars
  /\ patrol = "listed" => ENABLED <<RepairUnsettled>>_vars

-----------------------------------------------------------------------------
(* Properties *)

Places == {"terminal", "cost", "late", "lease", "announce", "bill", "ended", "dead"}

TypeOK ==
  /\ finalBy \in Settlements \cup {Patrol, None}
  /\ cost \in Nat \cup {None} /\ losers \subseteq Losers
  /\ leased \subseteq Settlements \cup Losers /\ deducted \in Nat
  /\ notified \subseteq Settlements
  /\ place \in [Settlements \cup Losers -> Places]
  /\ tries \in [Settlements \cup Losers -> 0..(MaxAttempts - 1)]
  /\ result \in [Settlements -> {"none", "row", "notSettled", "failed", "gap"}]
  /\ patrol \in {"idle", "listed", "skipped"}
  /\ limbo \subseteq ({"terminal"} \X (Settlements \cup {Patrol}))
               \cup ({"cost"} \X Settlements) \cup ({"bill"} \X Losers)

\* The cost of s is in the ledger as far as s knows.
Paid(s) == place[s] \in {"lease", "announce"} \/ result[s] = "row"

\* Whatever the order of the winner's overwrite and the losers' additions, and however
\* often each is repeated after a lost reply, cost_usd is the sum of what the row lists:
\* each loser once, and the winner's cost once if it was written.
LedgerExact ==
  /\ cost = None => losers = {}
  /\ cost # None =>
       \/ cost = Total[losers]
       \/ finalBy \in Settlements /\ CostOf[finalBy] # None
          /\ cost = CostOf[finalBy] + Total[losers]
  /\ \A s \in Settlements :
       Paid(s) /\ CostOf[s] # None => cost = CostOf[s] + Total[losers]

\* The leases are never charged for more than the ledger holds: a slice charged too
\* much does not come back when the lease is refreshed.
LeasesBehindLedger == deducted <= Spent

\* Only the settlement whose terminal state the row has announces it and pays for it,
\* also when the patrol or a second settlement closed the row first.
EffectsOwned ==
  \A s \in Settlements : s \in notified \/ s \in leased \/ Paid(s) => finalBy = s

\* A row is not left open for ever, even if the process died before its settlement.
EveryRowCloses == <>(finalBy # None)

(* What a comment says, and the code does not do: see README. *)

\* store/patrol.go: where the cost was never written, it is empty, and the scan for
\* cost gaps lists the row.
GapsAreListed ==
  \A s \in Settlements :
    finalBy = s /\ CostOf[s] # None /\ place[s] \in {"ended", "dead"} =>
      cost = None \/ cost = CostOf[s] + Total[losers]
=============================================================================
