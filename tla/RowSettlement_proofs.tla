-------------------------- MODULE RowSettlement_proofs --------------------------
(* The ledger of one row for any settlements, any billed losers and any costs: what
   cost_usd holds, who owns the side effects, and what the leases were charged. *)
EXTENDS RowSettlement, FiniteSetTheorems, WellFoundedInduction, TLAPS

(* The inductive invariant.  LedgerExact alone is not inductive: the winner's overwrite
   may come late, so whoever can still write the cost must own the row, and the charge
   of the leases is compared with the ledger through the parts it is the sum of. *)

\* Whatever a settlement did or may still do after its terminal state won, the row is its.
OwnsRow ==
  \A s \in Settlements :
    \/ place[s] \in {"cost", "lease", "announce"} \/ result[s] \in {"row", "gap"}
    \/ s \in notified \/ s \in leased \/ <<"cost", s>> \in limbo
    => finalBy = s

\* Only a settlement that carries a cost writes one or settles a lease.
CarriesCost ==
  \A s \in Settlements :
    place[s] \in {"cost", "lease"} \/ s \in leased \/ <<"cost", s>> \in limbo => CostOf[s] # None

\* A lease is settled after the cost it stands for reached the row, and the row keeps it.
LeasedIsPaid ==
  /\ \A s \in Settlements : s \in leased => cost = CostOf[s] + Total[losers]
  /\ \A l \in Losers : place[l] = "lease" \/ l \in leased => l \in losers

WinnerCharge == IF finalBy \in Settlements /\ finalBy \in leased THEN CostOf[finalBy] ELSE 0

\* The charge is the sum of the leases settled so far.
ChargeExact == deducted = WinnerCharge + Total[leased \cap Losers]

LedgerInv == TypeOK /\ LedgerExact /\ OwnsRow /\ CarriesCost /\ LeasedIsPaid /\ ChargeExact

-----------------------------------------------------------------------------
(* Facts about sums and places *)

LEMMA TotalNat == ASSUME NEW S \in SUBSET Losers PROVE Total[S] \in Nat
  BY LedgerConstants

LEMMA CostNat ==
  ASSUME NEW s \in Settlements, CostOf[s] # None
  PROVE  CostOf[s] \in Nat /\ CostOf[s] + 0 = CostOf[s]
  BY LedgerConstants

LEMMA NumberIsNotNone == ASSUME NEW n \in Nat PROVE n # None
  BY LedgerConstants

\* An induction over numbers, in the form the provers can use: a set of numbers has a least one.
LEMMA LeastNumber ==
  ASSUME NEW W \in SUBSET Nat, W # {}
  PROVE  \E n \in W : \A m \in W : n <= m
  <1>1. PICK n \in W : \A m \in W : ~(<<m, n>> \in OpToRel(<, Nat))
    BY NatLessThanWellFounded, WFMin, Zenon
  <1>2. \A m \in W : ~(m < n)
    BY <1>1, Zenon DEF OpToRel
  <1> QED BY <1>2

\* More losers cost more: were it otherwise, two sets that differ least would be one loser
\* closer already.
LEMMA TotalGrows == \A S, T \in SUBSET Losers : S \subseteq T => Total[S] <= Total[T]
  <1> DEFINE Missing(S, T) == S \subseteq T /\ ~(Total[S] <= Total[T])
             W == {n \in Nat : \E S, T \in SUBSET Losers :
                                 Missing(S, T) /\ Cardinality(T \ S) = n}
  <1> SUFFICES ASSUME NEW S0 \in SUBSET Losers, NEW T0 \in SUBSET Losers, Missing(S0, T0)
               PROVE  FALSE
    OBVIOUS
  <1>1. \A S \in SUBSET Losers : IsFiniteSet(S) /\ Cardinality(S) \in Nat
    BY LedgerConstants, FS_Subset, FS_CardinalityType
  <1>2. W # {} /\ W \in SUBSET Nat
    <2>1. Cardinality(T0 \ S0) \in Nat  BY <1>1
    <2> QED BY <2>1
  <1>3. PICK n \in W : \A m \in W : n <= m
    <2> HIDE DEF W
    <2> QED BY <1>2, LeastNumber
  <1>4. PICK S \in SUBSET Losers, T \in SUBSET Losers : Missing(S, T) /\ Cardinality(T \ S) = n
    BY <1>3
  <1>5. PICK l \in T : l \notin S
    <2>1. Total[S] \in Nat  BY LedgerConstants
    <2>2. S # T  BY <1>4, <2>1
    <2> QED BY <1>4, <2>2
  <1> DEFINE U == T \ {l}
  <1>6. U \in SUBSET Losers /\ l \in Losers \ U /\ S \subseteq U /\ T = U \cup {l}
    BY <1>4, <1>5
  <1>7. Total[T] = Total[U] + LoserCost[l] /\ Total[U] \in Nat /\ LoserCost[l] \in Nat /\ Total[S] \in Nat
    BY <1>6, LedgerConstants
  <1>8. Missing(S, U)
    BY <1>4, <1>6, <1>7
  <1>9. Cardinality(U \ S) = n - 1
    <2>1. U \ S = (T \ S) \ {l} /\ l \in T \ S /\ IsFiniteSet(T \ S)  BY <1>1, <1>5
    <2>2. Cardinality((T \ S) \ {l}) = Cardinality(T \ S) - 1  BY <2>1, FS_RemoveElement
    <2> QED BY <2>1, <2>2, <1>4
  <1>10. Cardinality(U \ S) \in Nat  BY <1>1
  <1>11. n - 1 \in W
    <2>1. n - 1 \in Nat  BY <1>9, <1>10
    <2> QED BY <2>1, <1>6, <1>8, <1>9
  <1>12. n \in Nat  OBVIOUS
  <1> HIDE DEF W
  <1> QED BY <1>3, <1>11, <1>12

LEMMA InitLedger == Init => LedgerInv
  <1> SUFFICES ASSUME Init PROVE LedgerInv
    OBVIOUS
  <1> USE LedgerConstants DEF Init
  <1>1. TypeOK
    <2>1. place \in [Settlements \cup Losers -> Places]  BY DEF Places
    <2>2. tries \in [Settlements \cup Losers -> 0..(MaxAttempts - 1)]  OBVIOUS
    <2>3. result \in [Settlements -> {"none", "row", "notSettled", "failed", "gap"}]  OBVIOUS
    <2>4. cost \in Nat \cup {None} /\ deducted \in Nat  OBVIOUS
    <2>5. /\ finalBy \in Settlements \cup {Patrol, None} /\ losers \subseteq Losers
          /\ leased \subseteq Settlements \cup Losers /\ notified \subseteq Settlements
          /\ patrol \in {"idle", "listed", "skipped"}
      OBVIOUS
    <2>6. limbo \subseteq ({"terminal"} \X (Settlements \cup {Patrol}))
               \cup ({"cost"} \X Settlements) \cup ({"bill"} \X Losers)
      OBVIOUS
    <2> QED BY <2>1, <2>2, <2>3, <2>4, <2>5, <2>6 DEF TypeOK
  <1>2. LedgerExact  BY DEF LedgerExact, Paid
  <1>3. OwnsRow /\ CarriesCost /\ LeasedIsPaid  BY DEF OwnsRow, CarriesCost, LeasedIsPaid
  <1>4. ChargeExact
    <2>1. leased \cap Losers = {}  OBVIOUS
    <2> QED BY <2>1 DEF ChargeExact, WinnerCharge
  <1> QED BY <1>1, <1>2, <1>3, <1>4 DEF LedgerInv

-----------------------------------------------------------------------------
(* Types: with CarriesCost, for a cost is added only where there is one. *)

LEMMA MoveType ==
  ASSUME TypeOK, NEW a \in Settlements \cup Losers, NEW next \in Places, Goto(a, next)
  PROVE  /\ place' \in [Settlements \cup Losers -> Places]
         /\ tries' \in [Settlements \cup Losers -> 0..(MaxAttempts - 1)]
  BY LedgerConstants DEF Goto, TypeOK

LEMMA RetryType ==
  ASSUME TypeOK, NEW a \in Settlements \cup Losers, Retry(a)
  PROVE  /\ place' \in [Settlements \cup Losers -> Places]
         /\ tries' \in [Settlements \cup Losers -> 0..(MaxAttempts - 1)]
  BY LedgerConstants DEF Retry, TypeOK

LEMMA ConcludeType ==
  ASSUME TypeOK, NEW s \in Settlements,
         NEW value \in {"row", "notSettled", "failed", "gap"}, Conclude(s, value)
  PROVE  /\ place' \in [Settlements \cup Losers -> Places]
         /\ tries' \in [Settlements \cup Losers -> 0..(MaxAttempts - 1)]
         /\ result' \in [Settlements -> {"none", "row", "notSettled", "failed", "gap"}]
  BY MoveType DEF Conclude, Places, TypeOK

\* A cost written is a number, whoever writes it.
LEMMA CostTypes ==
  ASSUME TypeOK
  PROVE  /\ \A s \in Settlements : CostOf[s] # None /\ UpdateWinnerCost(s) => cost' \in Nat
         /\ \A l \in Losers : AddHedgeLoserCost(l) =>
              cost' \in Nat \cup {None} /\ losers' \subseteq Losers
  BY LedgerConstants DEF UpdateWinnerCost, AddHedgeLoserCost, Spent, TypeOK

LEMMA DetailsType ==
  ASSUME TypeOK, NEW who \in Settlements \cup {Patrol}, UpdateDetails(who)
  PROVE  finalBy' \in Settlements \cup {Patrol, None}
  BY DEF UpdateDetails, TypeOK

LEMMA LeaseType ==
  ASSUME TypeOK, NEW a \in Settlements \cup Losers, NEW amount \in Nat, SettleLease(a, amount)
  PROVE  leased' \subseteq Settlements \cup Losers /\ deducted' \in Nat
  BY DEF SettleLease, leaseVars, TypeOK

LEMMA NextTypes == TypeOK /\ CarriesCost /\ [Next]_vars => TypeOK'
  <1> SUFFICES ASSUME TypeOK, CarriesCost, [Next]_vars PROVE TypeOK'
    OBVIOUS
  <1>1. ASSUME NEW s \in Settlements, SettleTerminal(s) PROVE TypeOK'
    <2>1. finalBy' \in Settlements \cup {Patrol, None}
      BY <1>1, DetailsType DEF SettleTerminal
    <2>2. CASE finalBy # None
      BY <1>1, <2>1, <2>2, ConcludeType DEF SettleTerminal, leaseVars, TypeOK
    <2>3. CASE finalBy = None
      BY <1>1, <2>1, <2>3, MoveType DEF SettleTerminal, leaseVars, TypeOK, Places
    <2> QED BY <2>2, <2>3
  <1>2. ASSUME NEW s \in Settlements, TerminalFails(s) PROVE TypeOK'
    <2>1. CASE Retry(s) /\ UNCHANGED result
      BY <1>2, <2>1, RetryType DEF TerminalFails, GiveUp, rowVars, leaseVars, TypeOK
    <2>2. CASE Conclude(s, "failed")
      BY <1>2, <2>2, ConcludeType DEF TerminalFails, GiveUp, rowVars, leaseVars, TypeOK
    <2> QED BY <1>2, <2>1, <2>2 DEF TerminalFails
  <1>3. ASSUME NEW s \in Settlements, SettleCost(s) PROVE TypeOK'
    <2>1. CostOf[s] # None  BY <1>3 DEF SettleCost, CarriesCost
    <2>2. cost' \in Nat  BY <1>3, <2>1, CostTypes DEF SettleCost
    <2>3. losers' = losers  BY <1>3 DEF SettleCost, UpdateWinnerCost
    <2> QED BY <1>3, <2>2, <2>3, MoveType DEF SettleCost, leaseVars, TypeOK, Places
  <1>4. ASSUME NEW s \in Settlements, CostFails(s) PROVE TypeOK'
    <2>1. CASE Retry(s) /\ UNCHANGED result
      BY <1>4, <2>1, RetryType DEF CostFails, GiveUp, rowVars, leaseVars, TypeOK
    <2>2. CASE Conclude(s, "gap")
      BY <1>4, <2>2, ConcludeType DEF CostFails, GiveUp, rowVars, leaseVars, TypeOK
    <2> QED BY <1>4, <2>1, <2>2 DEF CostFails
  <1>5. ASSUME NEW s \in Settlements, SettleLeases(s) PROVE TypeOK'
    <2>1. CostOf[s] \in Nat  BY <1>5, CostNat DEF SettleLeases, CarriesCost
    <2>2. leased' \subseteq Settlements \cup Losers /\ deducted' \in Nat
      BY <1>5, <2>1, LeaseType DEF SettleLeases
    <2> QED BY <1>5, <2>2, MoveType DEF SettleLeases, rowVars, TypeOK, Places
  <1>6. ASSUME NEW s \in Settlements, Announce(s) PROVE TypeOK'
    BY <1>6, ConcludeType DEF Announce, rowVars, leaseVars, TypeOK
  <1>7. ASSUME NEW l \in Losers, BillLoser(l) PROVE TypeOK'
    BY <1>7, CostTypes, MoveType DEF BillLoser, leaseVars, TypeOK, Places
  <1>8. ASSUME NEW l \in Losers, BillFails(l) PROVE TypeOK'
    <2>1. CASE Retry(l)
      BY <1>8, <2>1, RetryType DEF BillFails, GiveUp, rowVars, leaseVars, TypeOK
    <2>2. CASE Goto(l, "ended")
      BY <1>8, <2>2, MoveType DEF BillFails, GiveUp, rowVars, leaseVars, TypeOK, Places
    <2> QED BY <1>8, <2>1, <2>2 DEF BillFails
  <1>9. ASSUME NEW l \in Losers, SettleLoserLease(l) PROVE TypeOK'
    <2>1. LoserCost[l] \in Nat  BY LedgerConstants
    <2>2. leased' \subseteq Settlements \cup Losers /\ deducted' \in Nat
      BY <1>9, <2>1, LeaseType DEF SettleLoserLease
    <2> QED BY <1>9, <2>2, MoveType DEF SettleLoserLease, rowVars, TypeOK, Places
  <1>10. CASE PatrolStep
    <2>1. CASE ListUnsettled  BY <2>1 DEF ListUnsettled, rowVars, leaseVars, TypeOK
    <2>2. CASE RepairUnsettled
      BY <2>2, DetailsType DEF RepairUnsettled, leaseVars, TypeOK
    <2>3. CASE RepairFails  BY <2>3 DEF RepairFails, GiveUp, rowVars, leaseVars, TypeOK
    <2> QED BY <1>10, <2>1, <2>2, <2>3 DEF PatrolStep
  <1>11. CASE Crash
    <2>1. place' \in [Settlements \cup Losers -> Places]
      BY <1>11 DEF Crash, TypeOK, Places
    <2> QED BY <1>11, <2>1 DEF Crash, rowVars, leaseVars, TypeOK
  <1>12. ASSUME NEW given \in limbo, LateEffect(given[1], given[2]) PROVE TypeOK'
    <2> DEFINE who == given[2]
    <2>1. CASE given[1] = "terminal"
      <3>1. who \in Settlements \cup {Patrol}  BY <2>1 DEF TypeOK
      <3>2. UpdateDetails(who) /\ UNCHANGED <<cost, losers>>  BY <1>12, <2>1 DEF LateEffect
      <3>3. finalBy' \in Settlements \cup {Patrol, None}  BY <3>1, <3>2, DetailsType
      <3> QED BY <1>12, <3>2, <3>3 DEF LateEffect, leaseVars, TypeOK
    <2>2. CASE given[1] = "cost"
      <3>1. who \in Settlements /\ <<"cost", who>> \in limbo  BY <2>2 DEF TypeOK
      <3>2. UpdateWinnerCost(who) /\ UNCHANGED finalBy  BY <1>12, <2>2 DEF LateEffect
      <3>3. cost' \in Nat /\ losers' = losers
        BY <3>1, <3>2, CostTypes DEF CarriesCost, UpdateWinnerCost
      <3> QED BY <1>12, <3>2, <3>3 DEF LateEffect, leaseVars, TypeOK
    <2>3. CASE given[1] = "bill"
      <3>1. who \in Losers  BY <2>3 DEF TypeOK
      <3>2. AddHedgeLoserCost(who) /\ UNCHANGED finalBy  BY <1>12, <2>3 DEF LateEffect
      <3> QED BY <1>12, <3>1, <3>2, CostTypes DEF LateEffect, leaseVars, TypeOK
    <2> QED BY <1>12, <2>1, <2>2, <2>3 DEF LateEffect
  <1>13. CASE UNCHANGED vars  BY <1>13 DEF vars, rowVars, leaseVars, TypeOK
  <1> QED BY <1>1, <1>2, <1>3, <1>4, <1>5, <1>6, <1>7, <1>8, <1>9, <1>10, <1>11, <1>12, <1>13
        DEF Next, SettlementStep, LoserStep

-----------------------------------------------------------------------------
(* Who owns the row *)

\* The terminal state is written once: every statement that sets it asks for NULL.
LEMMA FinalStays ==
  ASSUME TypeOK, [Next]_vars, finalBy # None
  PROVE  finalBy' = finalBy
  <1> USE DEF UpdateDetails, rowVars
  <1>1. ASSUME NEW s \in Settlements, SettlementStep(s) PROVE finalBy' = finalBy
    BY <1>1 DEF SettlementStep, SettleTerminal, TerminalFails, SettleCost, CostFails,
                SettleLeases, Announce
  <1>2. ASSUME NEW l \in Losers, LoserStep(l) PROVE finalBy' = finalBy
    BY <1>2 DEF LoserStep, BillLoser, BillFails, SettleLoserLease
  <1>3. CASE PatrolStep
    BY <1>3 DEF PatrolStep, ListUnsettled, RepairUnsettled, RepairFails
  <1>4. CASE Crash  BY <1>4 DEF Crash
  <1>5. ASSUME NEW given \in limbo, LateEffect(given[1], given[2]) PROVE finalBy' = finalBy
    BY <1>5 DEF LateEffect
  <1>6. CASE UNCHANGED vars  BY <1>6 DEF vars
  <1> QED BY <1>1, <1>2, <1>3, <1>4, <1>5, <1>6 DEF Next

Holds(s) == \/ place[s] \in {"cost", "lease", "announce"} \/ result[s] \in {"row", "gap"}
            \/ s \in notified \/ s \in leased \/ <<"cost", s>> \in limbo
Bills(s) == place[s] \in {"cost", "lease"} \/ s \in leased \/ <<"cost", s>> \in limbo

\* Owning a row begins with winning its terminal state, and billing with owning.
LEMMA OwnershipBegins ==
  ASSUME TypeOK, CarriesCost, [Next]_vars, NEW s \in Settlements
  PROVE  /\ Holds(s)' => Holds(s) \/ (SettleTerminal(s) /\ finalBy = None)
         /\ Bills(s)' => CostOf[s] # None
  <1> USE DEF Holds, Bills, CarriesCost, TypeOK
  <1>0. s \notin Losers  BY LedgerConstants
  <1>1. ASSUME NEW t \in Settlements, SettleTerminal(t) PROVE
          /\ Holds(s)' => Holds(s) \/ (SettleTerminal(s) /\ finalBy = None)
          /\ Bills(s)' => CostOf[s] # None
    <2>1. CASE finalBy # None
      BY <1>1, <2>1 DEF SettleTerminal, Conclude, Goto, leaseVars
    <2>2. CASE finalBy = None
      BY <1>1, <2>2 DEF SettleTerminal, Goto, leaseVars
    <2> QED BY <2>1, <2>2
  <1>2. ASSUME NEW t \in Settlements, TerminalFails(t) PROVE
          (Holds(s)' => Holds(s)) /\ (Bills(s)' => CostOf[s] # None)
    BY <1>2 DEF TerminalFails, GiveUp, Retry, Conclude, Goto, leaseVars
  <1>3. ASSUME NEW t \in Settlements, SettleCost(t) PROVE
          (Holds(s)' => Holds(s)) /\ (Bills(s)' => CostOf[s] # None)
    BY <1>3 DEF SettleCost, Goto, leaseVars
  <1>4. ASSUME NEW t \in Settlements, CostFails(t) PROVE
          (Holds(s)' => Holds(s)) /\ (Bills(s)' => CostOf[s] # None)
    BY <1>4 DEF CostFails, GiveUp, Retry, Conclude, Goto, leaseVars
  <1>5. ASSUME NEW t \in Settlements, SettleLeases(t) PROVE
          (Holds(s)' => Holds(s)) /\ (Bills(s)' => CostOf[s] # None)
    BY <1>5 DEF SettleLeases, SettleLease, Goto, leaseVars
  <1>6. ASSUME NEW t \in Settlements, Announce(t) PROVE
          (Holds(s)' => Holds(s)) /\ (Bills(s)' => CostOf[s] # None)
    BY <1>6 DEF Announce, Conclude, Goto, leaseVars
  <1>7. ASSUME NEW l \in Losers, LoserStep(l) PROVE
          (Holds(s)' => Holds(s)) /\ (Bills(s)' => CostOf[s] # None)
    <2>1. CASE BillLoser(l)  BY <1>0, <2>1 DEF BillLoser, Goto, leaseVars
    <2>2. CASE BillFails(l)  BY <1>0, <2>2 DEF BillFails, GiveUp, Retry, Goto, leaseVars
    <2>3. CASE SettleLoserLease(l)
      BY <1>0, <2>3 DEF SettleLoserLease, SettleLease, Goto, leaseVars
    <2> QED BY <1>7, <2>1, <2>2, <2>3 DEF LoserStep
  <1>8. CASE PatrolStep
    BY <1>8 DEF PatrolStep, ListUnsettled, RepairUnsettled, RepairFails, GiveUp, leaseVars
  <1>9. CASE Crash  BY <1>9 DEF Crash, leaseVars
  <1>10. ASSUME NEW given \in limbo, LateEffect(given[1], given[2]) PROVE
          (Holds(s)' => Holds(s)) /\ (Bills(s)' => CostOf[s] # None)
    BY <1>10 DEF LateEffect, leaseVars
  <1>11. CASE UNCHANGED vars  BY <1>11 DEF vars, leaseVars
  <1> QED BY <1>1, <1>2, <1>3, <1>4, <1>5, <1>6, <1>7, <1>8, <1>9, <1>10, <1>11
        DEF Next, SettlementStep

LEMMA NextOwns == TypeOK /\ OwnsRow /\ CarriesCost /\ [Next]_vars => OwnsRow' /\ CarriesCost'
  <1> SUFFICES ASSUME TypeOK, OwnsRow, CarriesCost, [Next]_vars PROVE OwnsRow' /\ CarriesCost'
    OBVIOUS
  <1>1. ASSUME NEW s \in Settlements, Holds(s)' PROVE finalBy' = s
    <2>1. CASE Holds(s)
      <3>1. finalBy = s  BY <2>1 DEF OwnsRow, Holds
      <3> QED BY <3>1, FinalStays, LedgerConstants
    <2>2. CASE SettleTerminal(s) /\ finalBy = None
      BY <2>2 DEF SettleTerminal, UpdateDetails
    <2> QED BY <1>1, <2>1, <2>2, OwnershipBegins
  <1>2. OwnsRow'  BY <1>1 DEF OwnsRow, Holds
  <1>3. CarriesCost'  BY OwnershipBegins DEF CarriesCost, Bills
  <1> QED BY <1>2, <1>3

-----------------------------------------------------------------------------
(* What each kind of statement does to the ledger *)

LedgerFacts == LedgerExact /\ LeasedIsPaid /\ ChargeExact

\* Nobody begins to rely on a cost, except those named: settlement s, loser l.
NoNewClaim(s, l) ==
  /\ \A t \in Settlements : (Paid(t) /\ CostOf[t] # None)' => Paid(t) \/ t = s
  /\ \A k \in Losers : place'[k] = "lease" => place[k] = "lease" \/ k = l

\* A step that writes neither cost nor leases; the terminal state may be won.
LEMMA QuietStep ==
  ASSUME TypeOK, TypeOK', OwnsRow, LedgerFacts, NoNewClaim(None, None),
         UNCHANGED <<cost, losers, leaseVars>>,
         finalBy # None => finalBy' = finalBy
  PROVE  LedgerFacts'
  <1> USE DEF leaseVars
  <1>1. LedgerExact'
    <2>1. \A t \in Settlements : Paid(t)' /\ CostOf[t] # None => Paid(t)
      BY LedgerConstants DEF NoNewClaim
    <2> QED BY <2>1, LedgerConstants DEF LedgerFacts, LedgerExact
  <1>2. LeasedIsPaid'  BY LedgerConstants DEF LedgerFacts, LeasedIsPaid, NoNewClaim
  <1>3. WinnerCharge' = WinnerCharge
    <2>1. CASE finalBy # None  BY <2>1 DEF WinnerCharge
    <2>2. CASE finalBy = None
      <3>1. finalBy \notin Settlements  BY <2>2, LedgerConstants
      <3>2. ~(finalBy' \in Settlements /\ finalBy' \in leased')  BY <3>1 DEF OwnsRow
      <3> QED BY <3>1, <3>2 DEF WinnerCharge
    <2> QED BY <2>1, <2>2
  <1>4. ChargeExact'  BY <1>3 DEF LedgerFacts, ChargeExact
  <1> QED BY <1>1, <1>2, <1>4 DEF LedgerFacts

\* The winner's overwrite: the cost and every loser the row lists.
LEMMA WinnerWrites ==
  ASSUME TypeOK, TypeOK', OwnsRow, LedgerFacts, NEW s \in Settlements,
         finalBy = s, CostOf[s] # None, UpdateWinnerCost(s), UNCHANGED <<finalBy, leaseVars>>,
         NoNewClaim(s, None)
  PROVE  LedgerFacts'
  <1> USE DEF leaseVars, UpdateWinnerCost
  <1>1. LedgerExact'
    <2>1. cost' \in Nat /\ cost' # None
      BY LedgerConstants, CostNat, TotalNat DEF TypeOK
    <2>2. \A t \in Settlements : (Paid(t) /\ CostOf[t] # None)' => t = s
      BY DEF NoNewClaim, OwnsRow, Paid
    <2> QED BY <2>1, <2>2 DEF LedgerExact
  <1>2. LeasedIsPaid'
    <2>1. \A t \in Settlements : t \in leased => t = s  BY DEF OwnsRow
    <2> QED BY <2>1, LedgerConstants DEF LedgerFacts, LeasedIsPaid, NoNewClaim
  <1>3. ChargeExact'  BY DEF LedgerFacts, ChargeExact, WinnerCharge
  <1> QED BY <1>1, <1>2, <1>3 DEF LedgerFacts

\* A loser's addition, made once however often the statement runs.
LEMMA LoserAdds ==
  ASSUME TypeOK, TypeOK', OwnsRow, CarriesCost, LedgerFacts, NEW l \in Losers,
         AddHedgeLoserCost(l), UNCHANGED <<finalBy, leaseVars>>, NoNewClaim(None, l)
  PROVE  LedgerFacts'
  <1> USE DEF leaseVars
  <1>n. \A t \in Settlements : (Paid(t) /\ CostOf[t] # None)' => Paid(t) /\ CostOf[t] # None
    BY LedgerConstants DEF NoNewClaim
  <1>1. CASE l \in losers
    BY <1>1, <1>n DEF AddHedgeLoserCost, LedgerFacts, LedgerExact, LeasedIsPaid, ChargeExact,
                   WinnerCharge, NoNewClaim
  <1>2. CASE l \notin losers
    <2>1. cost' = Spent + LoserCost[l] /\ losers' = losers \cup {l}
      BY <1>2 DEF AddHedgeLoserCost
    <2>2. /\ Total[losers'] = Total[losers] + LoserCost[l]
          /\ Total[losers] \in Nat /\ LoserCost[l] \in Nat
      BY <1>2, <2>1, LedgerConstants DEF TypeOK
    <2>3. cost = None => losers = {} /\ Spent = Total[losers]
      BY LedgerConstants DEF LedgerFacts, LedgerExact, Spent
    <2>4. cost # None => Spent = cost  BY DEF Spent
    <2>5. cost' \in Nat /\ cost' # None
      BY <2>1, <2>2, LedgerConstants DEF Spent, TypeOK
    <2>6. \A t \in Settlements : CostOf[t] # None =>
             /\ CostOf[t] \in Nat
             /\ cost = CostOf[t] + Total[losers] => cost' = CostOf[t] + Total[losers']
      <3> SUFFICES ASSUME NEW t \in Settlements, CostOf[t] # None,
                          cost = CostOf[t] + Total[losers]
                   PROVE  cost' = CostOf[t] + Total[losers']
        BY CostNat
      <3>1. CostOf[t] \in Nat  BY CostNat
      <3>2. cost # None  BY <3>1, <2>2, NumberIsNotNone
      <3> QED BY <2>1, <2>2, <2>4, <3>1, <3>2
    <2>7. LedgerExact'
      <3>1. \/ cost' = Total[losers']
            \/ /\ finalBy \in Settlements /\ CostOf[finalBy] # None
               /\ cost' = CostOf[finalBy] + Total[losers']
        BY <2>1, <2>2, <2>3, <2>4, <2>6 DEF LedgerFacts, LedgerExact
      <3>2. \A t \in Settlements : (Paid(t) /\ CostOf[t] # None)' => cost' = CostOf[t] + Total[losers']
        BY <1>n, <2>6 DEF LedgerFacts, LedgerExact
      <3> QED BY <2>5, <3>1, <3>2 DEF LedgerExact
    <2>8. LeasedIsPaid'
      BY <2>1, <2>6 DEF LedgerFacts, LeasedIsPaid, NoNewClaim, CarriesCost
    <2>9. ChargeExact'  BY DEF LedgerFacts, ChargeExact, WinnerCharge
    <2> QED BY <2>7, <2>8, <2>9 DEF LedgerFacts
  <1> QED BY <1>1, <1>2

\* A lease is settled, for a cost that is in the row.
LEMMA LeaseSettled ==
  ASSUME TypeOK, OwnsRow, CarriesCost, LedgerFacts, NEW a \in Settlements \cup Losers, NEW amount,
         a \in Settlements => /\ finalBy = a /\ CostOf[a] # None /\ amount = CostOf[a]
                              /\ cost = CostOf[a] + Total[losers],
         a \in Losers => a \in losers /\ amount = LoserCost[a],
         SettleLease(a, amount), UNCHANGED rowVars, NoNewClaim(None, None)
  PROVE  LedgerFacts'
  <1> USE DEF rowVars
  <1>1. LedgerExact'
    <2>1. \A t \in Settlements : Paid(t)' /\ CostOf[t] # None => Paid(t)
      BY LedgerConstants DEF NoNewClaim
    <2> QED BY <2>1 DEF LedgerFacts, LedgerExact
  <1>2. leased' \subseteq leased \cup {a}  BY DEF SettleLease, leaseVars
  <1>3. LeasedIsPaid'  BY <1>2, LedgerConstants DEF LedgerFacts, LeasedIsPaid, NoNewClaim
  <1>4. ChargeExact'
    <2>1. CASE leased' = leased /\ deducted' = deducted
      BY <2>1 DEF LedgerFacts, ChargeExact, WinnerCharge
    <2>2. CASE a \notin leased /\ leased' = leased \cup {a} /\ deducted' = deducted + amount
      <3>1. CASE a \in Settlements
        <4>1. leased' \cap Losers = leased \cap Losers  BY <2>2, <3>1, LedgerConstants
        <4>2. WinnerCharge = 0 /\ WinnerCharge' = CostOf[a]
          BY <2>2, <3>1 DEF WinnerCharge
        <4>3. amount = CostOf[a] /\ CostOf[a] \in Nat  BY <3>1, CostNat
        <4>4. Total[leased \cap Losers] \in Nat  BY TotalNat
        <4>5. deducted = 0 + Total[leased \cap Losers]
          BY <4>2 DEF LedgerFacts, ChargeExact
        <4>6. deducted' = WinnerCharge' + Total[leased' \cap Losers]
          <5>1. Total[leased' \cap Losers] = Total[leased \cap Losers]  BY <4>1
          <5>2. deducted' = CostOf[a] + Total[leased \cap Losers]
            BY <2>2, <4>3, <4>4, <4>5
          <5> QED BY <4>2, <5>1, <5>2
        <4> QED BY <4>6 DEF ChargeExact
      <3>2. CASE a \in Losers
        <4>1. leased' \cap Losers = (leased \cap Losers) \cup {a}  BY <2>2, <3>2
        <4>2. WinnerCharge' = WinnerCharge  BY <2>2, <3>2, LedgerConstants DEF WinnerCharge
        <4>3. /\ Total[leased' \cap Losers] = Total[leased \cap Losers] + LoserCost[a]
              /\ Total[leased \cap Losers] \in Nat /\ LoserCost[a] \in Nat
          BY <2>2, <3>2, <4>1, LedgerConstants
        <4>4. WinnerCharge \in Nat  BY CostNat DEF WinnerCharge, CarriesCost
        <4> QED BY <2>2, <3>2, <4>2, <4>3, <4>4 DEF LedgerFacts, ChargeExact
      <3> QED BY <3>1, <3>2
    <2> QED BY <2>1, <2>2 DEF SettleLease, leaseVars
  <1> QED BY <1>1, <1>3, <1>4 DEF LedgerFacts

-----------------------------------------------------------------------------
(* One step *)

LEMMA NextLedger ==
  ASSUME LedgerInv, [Next]_vars
  PROVE  LedgerFacts'
  <1> USE DEF LedgerInv, Paid, NoNewClaim, TypeOK
  <1>t. TypeOK' /\ LedgerFacts  BY NextTypes DEF LedgerFacts
  <1>d. /\ \A s \in Settlements : s \notin Losers
        /\ None \notin Settlements
    BY LedgerConstants
  <1>f. finalBy # None => finalBy' = finalBy  BY FinalStays
  <1>1. ASSUME NEW s \in Settlements, SettleTerminal(s) PROVE LedgerFacts'
    <2>1. CASE finalBy # None
      <3>1. NoNewClaim(None, None) /\ UNCHANGED <<cost, losers, leaseVars>>
        BY <1>1, <1>d, <2>1 DEF SettleTerminal, Conclude, Goto
      <3> QED BY <1>t, <1>f, <3>1, QuietStep
    <2>2. CASE finalBy = None
      <3>1. NoNewClaim(None, None)
        BY <1>1, <1>d, <2>2 DEF SettleTerminal, Goto
      <3>2. UNCHANGED <<cost, losers, leaseVars>>
        BY <1>1, <2>2 DEF SettleTerminal
      <3> QED BY <1>t, <1>f, <3>1, <3>2, QuietStep
    <2> QED BY <2>1, <2>2
  <1>2. ASSUME NEW s \in Settlements, TerminalFails(s) \/ CostFails(s) PROVE LedgerFacts'
    <2>1. NoNewClaim(None, None)
      BY <1>2, <1>d DEF TerminalFails, CostFails, Retry, Conclude, Goto
    <2>2. UNCHANGED <<cost, losers, leaseVars>>
      BY <1>2 DEF TerminalFails, CostFails, rowVars
    <2> QED BY <1>t, <1>f, <2>1, <2>2, QuietStep
  <1>3. ASSUME NEW s \in Settlements, SettleCost(s) PROVE LedgerFacts'
    <2>1. NoNewClaim(s, None)  BY <1>3, <1>d DEF SettleCost, Goto
    <2>2. finalBy = s /\ CostOf[s] # None  BY <1>3 DEF SettleCost, OwnsRow, CarriesCost
    <2>3. UpdateWinnerCost(s) /\ UNCHANGED <<finalBy, leaseVars>>  BY <1>3 DEF SettleCost, leaseVars
    <2> QED BY <1>t, <2>1, <2>2, <2>3, WinnerWrites
  <1>4. ASSUME NEW s \in Settlements, SettleLeases(s) PROVE LedgerFacts'
    <2>1. NoNewClaim(None, None)  BY <1>4, <1>d DEF SettleLeases, Goto
    <2>2. finalBy = s /\ CostOf[s] # None  BY <1>4 DEF SettleLeases, OwnsRow, CarriesCost
    <2>3. cost = CostOf[s] + Total[losers]  BY <1>4, <2>2 DEF SettleLeases, LedgerExact
    <2>4. SettleLease(s, CostOf[s]) /\ UNCHANGED rowVars  BY <1>4 DEF SettleLeases, rowVars
    <2> QED BY <1>t, <1>d, <2>1, <2>2, <2>3, <2>4, LeaseSettled
  <1>5. ASSUME NEW s \in Settlements, Announce(s) PROVE LedgerFacts'
    <2>1. NoNewClaim(None, None)  BY <1>5, <1>d DEF Announce, Conclude, Goto
    <2>2. UNCHANGED <<cost, losers, leaseVars>>  BY <1>5 DEF Announce, rowVars
    <2> QED BY <1>t, <1>f, <2>1, <2>2, QuietStep
  <1>6. ASSUME NEW l \in Losers, BillLoser(l) PROVE LedgerFacts'
    <2>1. NoNewClaim(None, l)  BY <1>6, <1>d DEF BillLoser, Goto
    <2>2. AddHedgeLoserCost(l) /\ UNCHANGED <<finalBy, leaseVars>>  BY <1>6 DEF BillLoser
    <2> QED BY <1>t, <2>1, <2>2, LoserAdds
  <1>7. ASSUME NEW l \in Losers, BillFails(l) PROVE LedgerFacts'
    <2>1. NoNewClaim(None, None)  BY <1>7, <1>d DEF BillFails, Retry, Goto
    <2>2. UNCHANGED <<cost, losers, leaseVars>>  BY <1>7 DEF BillFails, rowVars
    <2> QED BY <1>t, <1>f, <2>1, <2>2, QuietStep
  <1>8. ASSUME NEW l \in Losers, SettleLoserLease(l) PROVE LedgerFacts'
    <2>1. NoNewClaim(None, None)  BY <1>8, <1>d DEF SettleLoserLease, Goto
    <2>2. l \in losers /\ l \notin Settlements
      BY <1>8, <1>d DEF SettleLoserLease, LeasedIsPaid
    <2>3. SettleLease(l, LoserCost[l]) /\ UNCHANGED rowVars
      BY <1>8 DEF SettleLoserLease, rowVars
    <2> QED BY <1>t, <2>1, <2>2, <2>3, LeaseSettled
  <1>9. CASE PatrolStep \/ Crash
    <2>1. NoNewClaim(None, None) /\ UNCHANGED <<cost, losers, leaseVars>>
      BY <1>9, <1>d DEF PatrolStep, ListUnsettled, RepairUnsettled, RepairFails, Crash, rowVars
    <2> QED BY <1>t, <1>f, <2>1, QuietStep
  <1>10. ASSUME NEW given \in limbo, LateEffect(given[1], given[2]) PROVE LedgerFacts'
    <2> DEFINE who == given[2]
    <2>0. /\ \A s : NoNewClaim(s, s)
          /\ NoNewClaim(None, who) /\ NoNewClaim(who, None) /\ NoNewClaim(None, None)
      BY <1>10 DEF LateEffect
    <2>1. CASE given[1] = "terminal"
      <3>1. UNCHANGED <<cost, losers, leaseVars>>  BY <1>10, <2>1 DEF LateEffect
      <3> QED BY <1>t, <1>f, <2>0, <3>1, QuietStep
    <2>2. CASE given[1] = "cost"
      <3>1. who \in Settlements /\ <<"cost", who>> \in limbo  BY <2>2
      <3>2. finalBy = who /\ CostOf[who] # None  BY <3>1 DEF OwnsRow, CarriesCost
      <3>3. UpdateWinnerCost(who) /\ UNCHANGED <<finalBy, leaseVars>>
        BY <1>10, <2>2 DEF LateEffect
      <3> QED BY <1>t, <2>0, <3>1, <3>2, <3>3, WinnerWrites
    <2>3. CASE given[1] = "bill"
      <3>1. who \in Losers  BY <2>3
      <3>2. AddHedgeLoserCost(who) /\ UNCHANGED <<finalBy, leaseVars>>
        BY <1>10, <2>3 DEF LateEffect
      <3> QED BY <1>t, <2>0, <3>1, <3>2, LoserAdds
    <2> QED BY <1>10, <2>1, <2>2, <2>3 DEF LateEffect
  <1>11. CASE UNCHANGED vars
    <2>1. NoNewClaim(None, None) /\ UNCHANGED <<cost, losers, leaseVars>>
      BY <1>11 DEF vars, rowVars
    <2> QED BY <1>t, <1>f, <2>1, QuietStep
  <1> QED BY <1>1, <1>2, <1>3, <1>4, <1>5, <1>6, <1>7, <1>8, <1>9, <1>10, <1>11
        DEF Next, SettlementStep, LoserStep

LEMMA NextInv == LedgerInv /\ [Next]_vars => LedgerInv'
  BY NextTypes, NextOwns, NextLedger DEF LedgerInv, LedgerFacts

-----------------------------------------------------------------------------
(* The theorems *)

\* No variable of the row or of its writers leaves its type.
THEOREM TypeCorrect == Spec => []TypeOK
  <1>1. LedgerInv => TypeOK  BY DEF LedgerInv
  <1> QED BY <1>1, InitLedger, NextInv, PTL DEF Spec

\* store/message.go: cost_usd is the sum of what the row lists, in every order of the
\* winner's overwrite and the losers' additions, with any number of repetitions.
THEOREM LedgerIsExact == Spec => []LedgerExact
  <1>1. LedgerInv => LedgerExact  BY DEF LedgerInv
  <1> QED BY <1>1, InitLedger, NextInv, PTL DEF Spec

\* terminal/settle.go: only the settlement that won the terminal state announces the
\* row, pays for it and settles its leases.
THEOREM EffectsAreOwned == Spec => []EffectsOwned
  <1>1. LedgerInv => EffectsOwned
    BY DEF LedgerInv, OwnsRow, EffectsOwned, Paid
  <1> QED BY <1>1, InitLedger, NextInv, PTL DEF Spec

\* limit/lease_settle.go: what the leases were charged is never more than the ledger
\* holds.
THEOREM LeasesStayBehind == Spec => []LeasesBehindLedger
  <1>1. LedgerInv => LeasesBehindLedger
    <2> SUFFICES ASSUME LedgerInv PROVE deducted <= Spent
      BY DEF LeasesBehindLedger
    <2> USE DEF LedgerInv
    <2>1. leased \cap Losers \subseteq losers /\ losers \in SUBSET Losers
      BY DEF LeasedIsPaid, TypeOK
    <2>2. /\ Total[leased \cap Losers] <= Total[losers]
          /\ Total[leased \cap Losers] \in Nat /\ Total[losers] \in Nat
      BY <2>1, TotalGrows, TotalNat
    <2>3. CASE finalBy \in Settlements /\ finalBy \in leased
      <3>1. CostOf[finalBy] \in Nat  BY <2>3, CostNat DEF CarriesCost
      <3>2. cost = CostOf[finalBy] + Total[losers]  BY <2>3 DEF LeasedIsPaid
      <3>3. Spent = cost  BY <2>2, <3>1, <3>2, NumberIsNotNone DEF Spent
      <3>4. deducted = CostOf[finalBy] + Total[leased \cap Losers]
        BY <2>3 DEF ChargeExact, WinnerCharge
      <3> QED BY <2>2, <3>1, <3>2, <3>3, <3>4
    <2>4. CASE ~(finalBy \in Settlements /\ finalBy \in leased)
      <3>1. deducted = 0 + Total[leased \cap Losers]  BY <2>4 DEF ChargeExact, WinnerCharge
      <3>2. CASE cost = None
        <4>1. losers = {}  BY <3>2 DEF LedgerExact
        <4>2. Total[losers] = 0 /\ Spent = 0  BY <3>2, <4>1, LedgerConstants DEF Spent
        <4> QED BY <2>2, <3>1, <4>2
      <3>3. CASE cost # None
        <4>1. Spent = cost  BY <3>3 DEF Spent
        <4>2. CASE cost = Total[losers]  BY <2>2, <3>1, <4>1, <4>2
        <4>3. CASE /\ finalBy \in Settlements /\ CostOf[finalBy] # None
                   /\ cost = CostOf[finalBy] + Total[losers]
          <5>1. CostOf[finalBy] \in Nat  BY <4>3, CostNat
          <5> QED BY <2>2, <3>1, <4>1, <4>3, <5>1
        <4> QED BY <3>3, <4>2, <4>3 DEF LedgerExact
      <3> QED BY <3>2, <3>3
    <2> QED BY <2>3, <2>4
  <1> QED BY <1>1, InitLedger, NextInv, PTL DEF Spec

-----------------------------------------------------------------------------
(* Liveness *)

\* While the row is open a round lists it, and repairs it, fails, or is cut short by a crash.
LEMMA RoundsOfThePatrol ==
  ASSUME patrol \in {"idle", "listed"}, [Next]_vars
  PROVE  patrol' \in {"idle", "listed"}
  <1>1. ASSUME NEW s \in Settlements, SettlementStep(s) PROVE UNCHANGED patrol
    BY <1>1 DEF SettlementStep, SettleTerminal, TerminalFails, SettleCost, CostFails,
                SettleLeases, Announce
  <1>2. ASSUME NEW l \in Losers, LoserStep(l) PROVE UNCHANGED patrol
    BY <1>2 DEF LoserStep, BillLoser, BillFails, SettleLoserLease
  <1>3. PatrolStep \/ Crash => patrol' \in {"idle", "listed"}
    BY DEF PatrolStep, ListUnsettled, RepairUnsettled, RepairFails, Crash
  <1>4. ASSUME NEW given \in limbo, LateEffect(given[1], given[2]) PROVE UNCHANGED patrol
    BY <1>4 DEF LateEffect
  <1>5. UNCHANGED vars => UNCHANGED patrol
    BY DEF vars
  <1> QED BY <1>1, <1>2, <1>3, <1>4, <1>5 DEF Next

\* patrol/patrol.go: however its settlements fail or die, the row is closed in the end.  A
\* round that fails is followed by another, and the process started after a crash has a
\* patrol again, so that the row is listed again and again until a repair succeeds.
THEOREM RowsClose == FairSpec /\ []PatrolCanAct => EveryRowCloses
  <1> DEFINE Open == finalBy = None
             Idle == patrol = "idle"
             Listed == patrol = "listed"
  <1>1. Init => Idle \/ Listed
    BY DEF Init
  <1>2. (Idle \/ Listed) /\ [Next]_vars => (Idle \/ Listed)'
    BY RoundsOfThePatrol
  <1>3. <<ListUnsettled>>_vars => Listed'
    BY DEF ListUnsettled
  <1>4. <<RepairUnsettled>>_vars => ~Open'
    BY LedgerConstants DEF RepairUnsettled, UpdateDetails
  <1>5. ~Open <=> finalBy # None
    OBVIOUS
  <1>6. /\ Idle /\ Open => ENABLED <<ListUnsettled>>_vars
        /\ Listed => ENABLED <<RepairUnsettled>>_vars
        <=> PatrolCanAct
    BY DEF PatrolCanAct
  <1> HIDE DEF Open, Idle, Listed
  <1> QED BY <1>1, <1>2, <1>3, <1>4, <1>5, <1>6, PTL
          DEF FairSpec, Spec, PatrolFairness, EveryRowCloses
=============================================================================
