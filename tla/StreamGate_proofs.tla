--------------------------- MODULE StreamGate_proofs ---------------------------
(* The line before the budget of the gates is kept, for any number of users, any limit
   and any sizes; a gate with its stream is one user of that budget; and its client gets
   the bytes of the source in order. *)
EXTENDS StreamGate, SequenceTheorems, TLAPS

Once(s) == \A i, j \in 1..Len(s) : s[i] = s[j] => i = j

LEMMA SetOfAppend ==
  ASSUME NEW S, NEW s \in Seq(S), NEW e \in S
  PROVE  /\ Append(s, e) \in Seq(S)
         /\ ToSet(Append(s, e)) = ToSet(s) \cup {e}
         /\ Once(s) /\ e \notin ToSet(s) => Once(Append(s, e))
  <1>1. /\ Append(s, e) \in Seq(S)
        /\ Len(Append(s, e)) = Len(s) + 1
        /\ \A i \in 1..Len(s) : Append(s, e)[i] = s[i]
        /\ Append(s, e)[Len(s) + 1] = e
    BY AppendProperties
  <1>2. Len(s) \in Nat /\ DOMAIN s = 1..Len(s) /\ DOMAIN Append(s, e) = 1..(Len(s) + 1)
    BY <1>1, LenProperties
  <1> QED BY <1>1, <1>2 DEF ToSet, Once

LEMMA SetOfTail ==
  ASSUME NEW S, NEW s \in Seq(S), s # <<>>, Once(s)
  PROVE  /\ Head(s) \in S /\ Head(s) \in ToSet(s)
         /\ Tail(s) \in Seq(S)
         /\ ToSet(Tail(s)) = ToSet(s) \ {Head(s)}
         /\ Once(Tail(s))
  <1>1. /\ Head(s) \in S /\ Tail(s) \in Seq(S)
        /\ Head(s) = s[1]
        /\ Len(Tail(s)) = Len(s) - 1
        /\ \A i \in 1..Len(Tail(s)) : Tail(s)[i] = s[i + 1]
    BY HeadTailProperties
  <1>2. Len(s) \in Nat \ {0} /\ DOMAIN s = 1..Len(s) /\ DOMAIN Tail(s) = 1..(Len(s) - 1)
    BY <1>1, LenProperties, EmptySeq
  <1>3. ToSet(Tail(s)) \subseteq ToSet(s) \ {Head(s)}
    BY <1>1, <1>2 DEF ToSet, Once
  <1>4. ASSUME NEW e \in ToSet(s) \ {Head(s)} PROVE e \in ToSet(Tail(s))
    <2>1. PICK i \in 1..Len(s) : e = s[i]  BY <1>2 DEF ToSet
    <2>2. i - 1 \in 1..(Len(s) - 1) /\ Tail(s)[i - 1] = s[i]  BY <1>1, <1>2, <1>4, <2>1
    <2> QED BY <1>2, <2>1, <2>2 DEF ToSet
  <1>5. Once(Tail(s))  BY <1>1, <1>2 DEF Once
  <1>6. Head(s) \in ToSet(s)  BY <1>1, <1>2 DEF ToSet
  <1> QED BY <1>1, <1>3, <1>4, <1>5, <1>6

LEMMA SetOfRemoveAt ==
  ASSUME NEW S, NEW s \in Seq(S), NEW i \in 1..Len(s), Once(s)
  PROVE  /\ RemoveAt(s, i) \in Seq(S)
         /\ ToSet(RemoveAt(s, i)) = ToSet(s) \ {s[i]}
         /\ Once(RemoveAt(s, i))
  <1> DEFINE before == SubSeq(s, 1, i - 1)
             after == SubSeq(s, i + 1, Len(s))
             r == RemoveAt(s, i)
  <1>0. Len(s) \in Nat /\ DOMAIN s = 1..Len(s)  BY LenProperties
  <1>1. /\ before \in Seq(S) /\ Len(before) = i - 1
        /\ \A j \in 1..(i - 1) : before[j] = s[j]
    BY <1>0, SubSeqProperties
  <1>2. /\ after \in Seq(S) /\ Len(after) = Len(s) - i
        /\ \A j \in 1..(Len(s) - i) : after[j] = s[i + j]
    <2>1. i + 1 \in 1..(Len(s) + 1) /\ Len(s) \in ((i + 1) - 1)..Len(s)  BY <1>0
    <2>2. /\ after \in Seq(S)
          /\ Len(after) = IF i + 1 <= Len(s) THEN Len(s) - (i + 1) + 1 ELSE 0
          /\ \A j \in 1..Len(s) - (i + 1) + 1 : after[j] = s[(i + 1) + j - 1]
      BY <1>0, <2>1, SubSeqProperties
    <2> QED BY <1>0, <2>2
  <1> HIDE DEF before, after
  <1>3. /\ before \o after \in Seq(S)
        /\ Len(before \o after) = Len(before) + Len(after)
        /\ \A j \in 1..Len(before) + Len(after) :
             (before \o after)[j] = IF j <= Len(before) THEN before[j]
                                                       ELSE after[j - Len(before)]
    BY <1>1, <1>2, ConcatProperties
  <1>4. r = before \o after  BY DEF RemoveAt, before, after
  <1>5. /\ r \in Seq(S)
        /\ Len(r) = Len(s) - 1 /\ DOMAIN r = 1..(Len(s) - 1)
        /\ \A j \in 1..(Len(s) - 1) : r[j] = IF j < i THEN s[j] ELSE s[j + 1]
    <2>0. Len(before) + Len(after) = Len(s) - 1  BY <1>0, <1>1, <1>2
    <2>1. r \in Seq(S) /\ Len(r) = Len(s) - 1  BY <2>0, <1>3, <1>4
    <2>2. DOMAIN r = 1..Len(r)  BY <2>1, LenProperties
    <2>3. ASSUME NEW j \in 1..(Len(s) - 1)
          PROVE  r[j] = IF j < i THEN s[j] ELSE s[j + 1]
      <3>1. r[j] = IF j <= i - 1 THEN before[j] ELSE after[j - (i - 1)]
        BY <1>0, <1>1, <1>2, <1>3, <1>4
      <3>2. CASE j < i  BY <1>0, <1>1, <3>1, <3>2
      <3>3. CASE j >= i
        <4>1. j - (i - 1) \in 1..(Len(s) - i) /\ i + (j - (i - 1)) = j + 1  BY <1>0, <3>3
        <4> QED BY <1>0, <1>2, <3>1, <3>3, <4>1
      <3> QED BY <1>0, <3>2, <3>3
    <2> QED BY <2>1, <2>2, <2>3
  <1> HIDE DEF r
  <1>6. ToSet(r) \subseteq ToSet(s) \ {s[i]}
    BY <1>0, <1>5 DEF ToSet, Once
  <1>7. ASSUME NEW e \in ToSet(s) \ {s[i]} PROVE e \in ToSet(r)
    <2>1. PICK j \in 1..Len(s) : e = s[j]  BY <1>0 DEF ToSet
    <2>2. j # i  BY <1>7, <2>1
    <2>3. CASE j < i  BY <1>0, <1>5, <2>1, <2>3 DEF ToSet
    <2>4. CASE j > i
      <3>1. j - 1 \in 1..(Len(s) - 1) /\ r[j - 1] = s[j]  BY <1>0, <1>5, <2>4
      <3> QED BY <1>5, <2>1, <3>1 DEF ToSet
    <2> QED BY <1>0, <2>2, <2>3, <2>4
  <1>8. Once(r)  BY <1>0, <1>5 DEF Once
  <1> QED BY <1>5, <1>6, <1>7, <1>8 DEF r

-------------------------------------------------------------------------------
(* The invariant: beside LineIsKept, nobody is in the line twice, so that a round of the
   drain takes a gate out of it for good, and types. *)
LineInv == BudgetTypeOK /\ Once(line) /\ LineIsKept

LEMMA LineInit == BudgetInit => LineInv
  <1> SUFFICES ASSUME BudgetInit PROVE LineInv
    OBVIOUS
  <1> USE BudgetAssumption DEF BudgetInit
  <1>1. BudgetTypeOK  BY DEF BudgetTypeOK
  <1>2. line = <<>> /\ Len(line) = 0 /\ DOMAIN line = {}  OBVIOUS
  <1>3. Once(line) /\ ToSet(line) = {}  BY <1>2 DEF Once, ToSet
  <1>4. ~HeadFits  BY DEF HeadFits
  <1>5. granted = {} /\ \A g \in Gates : ~Waiting(g)  BY DEF Waiting
  <1> QED BY <1>1, <1>3, <1>4, <1>5 DEF LineInv, LineIsKept

LEMMA ReserveKeeps ==
  ASSUME LineInv, NEW g \in Gates, NEW n \in 1..Limit, ReserveAtOnce(g, n) \/ Enqueue(g, n)
  PROVE  LineInv'
  <1> USE BudgetAssumption DEF LineInv, BudgetTypeOK
  <1>1. CASE ReserveAtOnce(g, n)
    <2> USE <1>1 DEF ReserveAtOnce, FitsAtOnce
    <2>1. BudgetTypeOK'  OBVIOUS
    <2>2. Once(line)'  BY DEF Once
    <2>3. ~HeadFits'  BY DEF HeadFits
    <2>4. ToSet(line)' = ToSet(line)  BY DEF ToSet
    <2>5. {h \in Gates : Waiting(h)}' = {h \in Gates : Waiting(h)}  BY DEF Waiting
    <2>6. reserved' <= Limit  OBVIOUS
    <2> QED BY <2>1, <2>2, <2>3, <2>4, <2>5, <2>6 DEF LineIsKept
  <1>2. CASE Enqueue(g, n)
    <2> USE <1>2 DEF Enqueue
    <2>1. BudgetTypeOK'  BY AppendProperties
    <2>2. g \notin ToSet(line)  BY DEF LineIsKept, Waiting
    <2>a. Once(Append(line, g)) /\ ToSet(Append(line, g)) = ToSet(line) \cup {g}
      BY <2>2, SetOfAppend
    <2>b. line' = Append(line, g)  OBVIOUS
    <2>3. Once(line)' /\ ToSet(line)' = ToSet(line) \cup {g}
      <3>1. (ToSet(line))' = ToSet(line') /\ (Once(line))' = Once(line')  BY DEF Once, ToSet
      <3> QED BY <2>a, <2>b, <3>1
    <2>4. ~Unlocked'  BY DEF Unlocked
    <2>5. {h \in Gates : Waiting(h)}' = {h \in Gates : Waiting(h)} \cup {g}  BY DEF Waiting
    <2>6. ToSet(line)' \cap granted' = {}  BY <2>3, <1>2 DEF LineIsKept, Waiting
    <2> QED BY <2>1, <2>3, <2>4, <2>5, <2>6 DEF LineIsKept
  <1> QED BY <1>1, <1>2

LEMMA DrainKeeps ==
  ASSUME LineInv, Drain
  PROVE  LineInv'
  <1> USE BudgetAssumption DEF LineInv, BudgetTypeOK
  <1>1. CASE Grant
    <2> DEFINE g == Head(line)
    <2>0. ~Unlocked /\ line # <<>> /\ reserved + need[g] <= Limit  BY <1>1 DEF Grant, HeadFits
    <2>1. /\ g \in Gates /\ g \in ToSet(line)
          /\ Tail(line) \in Seq(Gates)
          /\ ToSet(Tail(line)) = ToSet(line) \ {g}
          /\ Once(Tail(line))
      BY <2>0, SetOfTail
    <2> HIDE DEF g
    <2>2. /\ reserved' = reserved + need[g]
          /\ held' = [held EXCEPT ![g] = need[g]]
          /\ granted' = granted \cup {g}
          /\ line' = Tail(line)
          /\ UNCHANGED <<need, stage, holder>>
      BY <1>1 DEF Grant, g
    <2>3. BudgetTypeOK'  BY <2>1, <2>2
    <2>4. Once(line)' /\ ToSet(line)' = ToSet(line) \ {g}
      <3>1. line' = Tail(line)  BY <2>2
      <3>2. (ToSet(line))' = ToSet(Tail(line)) /\ (Once(line))' = Once(Tail(line))
        BY <3>1 DEF Once, ToSet
      <3> QED BY <2>1, <3>2
    <2>5. ~Unlocked'  BY <2>0, <2>2 DEF Unlocked
    <2>6. {h \in Gates : Waiting(h)}' = {h \in Gates : Waiting(h)}  BY <2>2 DEF Waiting
    <2>7. reserved' <= Limit  BY <2>0, <2>2 DEF g
    <2>8. /\ ToSet(line)' \cap granted' = {}
          /\ ToSet(line)' \cup granted' = ToSet(line) \cup granted
      BY <2>1, <2>2, <2>4 DEF LineIsKept
    <2> QED BY <2>3, <2>4, <2>5, <2>6, <2>7, <2>8 DEF LineIsKept
  <1>2. CASE DrainEnds
    <2> USE <1>2 DEF DrainEnds
    <2>1. BudgetTypeOK'  OBVIOUS
    <2>2. Once(line)' /\ ToSet(line)' = ToSet(line)  BY DEF Once, ToSet
    <2>3. ~HeadFits'  BY DEF HeadFits
    <2>4. {h \in Gates : Waiting(h)}' = {h \in Gates : Waiting(h)}  BY DEF Waiting
    <2> QED BY <2>1, <2>2, <2>3, <2>4 DEF LineIsKept
  <1> QED BY <1>1, <1>2 DEF Drain

LEMMA ReturnKeeps ==
  ASSUME LineInv, NEW g \in Gates, ReturnLease(g), ~Waiting(g)
  PROVE  LineInv'
  <1> USE BudgetAssumption DEF LineInv, BudgetTypeOK, ReturnLease
  <1>0. held[g] \in 0..Limit /\ 0 \in 0..Limit  OBVIOUS
  <1>1. BudgetTypeOK'
    <2>1. reserved' \in Int  BY <1>0
    <2>2. held' \in [Gates -> 0..Limit]  BY <1>0
    <2>3. stage' \in [Gates -> {"out", "select", "leaving", "orphan", "holding", "kept"}]  OBVIOUS
    <2> QED BY <2>1, <2>2, <2>3
  <1>2. Once(line)' /\ ToSet(line)' = ToSet(line)  BY DEF Once, ToSet
  <1>3. ~Unlocked'  BY DEF Unlocked
  <1>4. {h \in Gates : Waiting(h)}' = {h \in Gates : Waiting(h)}  BY DEF Waiting
  <1>5. reserved' <= Limit  BY DEF LineIsKept
  <1> QED BY <1>1, <1>2, <1>3, <1>4, <1>5 DEF LineIsKept

LEMMA ShrinkKeeps ==
  ASSUME LineInv, NEW g \in Gates, NEW n \in 0..Limit, ShrinkTo(g, n)
  PROVE  LineInv'
  <1> USE BudgetAssumption DEF LineInv, BudgetTypeOK, ShrinkTo
  <1>0. held[g] \in 0..Limit  OBVIOUS
  <1>1. BudgetTypeOK'
    <2>1. CASE n < held[g]
      <3>1. reserved' \in Int  BY <1>0, <2>1
      <3>2. held' \in [Gates -> 0..Limit]  BY <2>1
      <3>3. holder' \in Gates \cup {NoGate}  BY <2>1
      <3> QED BY <3>1, <3>2, <3>3
    <2>2. CASE ~(n < held[g])  BY <2>2
    <2> QED BY <2>1, <2>2
  <1>2. Once(line)' /\ ToSet(line)' = ToSet(line)  BY DEF Once, ToSet
  <1>3. Unlocked' => ~HeadFits'  BY DEF Unlocked, HeadFits, LineIsKept
  <1>4. {h \in Gates : Waiting(h)}' = {h \in Gates : Waiting(h)}  BY DEF Waiting
  <1>5. reserved' <= Limit  BY DEF LineIsKept
  <1> QED BY <1>1, <1>2, <1>3, <1>4, <1>5 DEF LineIsKept

LEMMA WaitsKeep ==
  ASSUME LineInv, NEW g \in Gates, Waits(g)
  PROVE  LineInv'
  <1> USE BudgetAssumption DEF LineInv, BudgetTypeOK
  <1>1. CASE Receive(g) \/ TakeOrphan(g)
    <2>1. UNCHANGED <<reserved, line, need, held, holder>> /\ granted' = granted \ {g}
      BY <1>1 DEF Receive, TakeOrphan
    <2>2. BudgetTypeOK'  BY <1>1 DEF Receive, TakeOrphan
    <2>3. Once(line)' /\ ToSet(line)' = ToSet(line) /\ HeadFits' = HeadFits /\ Unlocked' = Unlocked
      BY <2>1 DEF Once, ToSet, HeadFits, Unlocked
    <2>4. {h \in Gates : Waiting(h)}' = {h \in Gates : Waiting(h)} \ {g}
      BY <1>1 DEF Receive, TakeOrphan, Waiting
    <2>5. g \notin ToSet(line)  BY <1>1 DEF Receive, TakeOrphan, LineIsKept
    <2> QED BY <2>1, <2>2, <2>3, <2>4, <2>5 DEF LineIsKept
  <1>2. CASE GiveUp(g)
    <2> USE <1>2 DEF GiveUp
    <2>1. BudgetTypeOK'  OBVIOUS
    <2>2. Once(line)' /\ ToSet(line)' = ToSet(line) /\ HeadFits' = HeadFits /\ Unlocked' = Unlocked
      BY DEF Once, ToSet, HeadFits, Unlocked
    <2>3. {h \in Gates : Waiting(h)}' = {h \in Gates : Waiting(h)}  BY DEF Waiting
    <2> QED BY <2>1, <2>2, <2>3 DEF LineIsKept
  <1>3. CASE Withdraw(g)
    <2>1. PICK i \in 1..Len(line) : line[i] = g /\ line' = RemoveAt(line, i)
      BY <1>3 DEF Withdraw
    <2>2. /\ line' \in Seq(Gates) /\ Once(line)'
          /\ ToSet(line)' = ToSet(line) \ {g}
      <3>1. /\ RemoveAt(line, i) \in Seq(Gates) /\ Once(RemoveAt(line, i))
            /\ ToSet(RemoveAt(line, i)) = ToSet(line) \ {g}
        BY <2>1, SetOfRemoveAt
      <3>2. (ToSet(line))' = ToSet(line') /\ (Once(line))' = Once(line')  BY DEF Once, ToSet
      <3> QED BY <2>1, <3>1, <3>2
    <2>3. BudgetTypeOK'  BY <1>3, <2>2 DEF Withdraw
    <2>4. ~Unlocked'  BY <1>3 DEF Withdraw, Unlocked
    <2>5. {h \in Gates : Waiting(h)}' = {h \in Gates : Waiting(h)} \ {g}
      BY <1>3 DEF Withdraw, Waiting
    <2>6. g \in ToSet(line)  BY <2>1, LenProperties DEF ToSet
    <2>7. g \notin granted /\ UNCHANGED <<granted, reserved>>
      BY <1>3, <2>6 DEF LineIsKept, Withdraw
    <2>8. ToSet(line) \cap granted = {} /\ ToSet(line) \cup granted = {h \in Gates : Waiting(h)}
      BY DEF LineIsKept
    <2>9. /\ ToSet(line)' \cap granted' = {}
          /\ ToSet(line)' \cup granted' = {h \in Gates : Waiting(h)}'
      BY <2>2, <2>5, <2>7, <2>8
    <2>10. reserved' <= Limit  BY <2>7 DEF LineIsKept
    <2> QED BY <2>2, <2>3, <2>4, <2>9, <2>10 DEF LineIsKept
  <1>4. CASE ReturnOrphan(g)
    <2>1. ReturnLease(g) /\ ~Waiting(g)  BY <1>4 DEF ReturnOrphan, Waiting
    <2>2. LineInv  OBVIOUS
    <2> HIDE DEF LineInv
    <2> QED BY <2>1, <2>2, ReturnKeeps
  <1> QED BY <1>1, <1>2, <1>3, <1>4 DEF Waits

LEMMA KeepKeeps ==
  ASSUME LineInv, NEW g \in Gates, Keep(g)
  PROVE  LineInv'
  <1> USE BudgetAssumption DEF LineInv, BudgetTypeOK, Keep
  <1>1. BudgetTypeOK'  OBVIOUS
  <1>2. Once(line)' /\ ToSet(line)' = ToSet(line) /\ HeadFits' = HeadFits /\ Unlocked' = Unlocked
    BY DEF Once, ToSet, HeadFits, Unlocked
  <1>3. {h \in Gates : Waiting(h)}' = {h \in Gates : Waiting(h)}  BY DEF Waiting
  <1> QED BY <1>1, <1>2, <1>3 DEF LineIsKept

LEMMA LineStep == LineInv /\ [BudgetNext]_budgetVars => LineInv'
  <1> SUFFICES ASSUME LineInv, [BudgetNext]_budgetVars PROVE LineInv'
    OBVIOUS
  <1>1. CASE Drain  BY <1>1, DrainKeeps
  <1>2. ASSUME NEW g \in Gates, Reserve(g) PROVE LineInv'
    BY <1>2, ReserveKeeps, BudgetAssumption DEF Reserve
  <1>3. ASSUME NEW g \in Gates, Waits(g) PROVE LineInv'  BY <1>3, WaitsKeep
  <1>4. ASSUME NEW g \in Gates, Shrink(g) PROVE LineInv'
    BY <1>4, ShrinkKeeps DEF Shrink
  <1>5. ASSUME NEW g \in Gates, Release(g) PROVE LineInv'
    BY <1>5, ReturnKeeps DEF Release, Waiting
  <1>6. ASSUME NEW g \in Gates, Keep(g) PROVE LineInv'
    BY <1>6, KeepKeeps
  <1>7. CASE UNCHANGED budgetVars
    <2> USE <1>7 DEF budgetVars
    <2>1. BudgetTypeOK'  BY DEF LineInv, BudgetTypeOK
    <2>2. /\ Once(line)' = Once(line) /\ ToSet(line)' = ToSet(line)
          /\ HeadFits' = HeadFits /\ Unlocked' = Unlocked
      BY DEF Once, ToSet, HeadFits, Unlocked
    <2>3. {h \in Gates : Waiting(h)}' = {h \in Gates : Waiting(h)}  BY DEF Waiting
    <2> QED BY <2>1, <2>2, <2>3 DEF LineInv, LineIsKept
  <1> QED BY <1>1, <1>2, <1>3, <1>4, <1>5, <1>6, <1>7 DEF BudgetNext

\* The line before the budget is kept, whatever the users do with their leases.
THEOREM LineKept == BudgetSpec => []LineIsKept
  <1>1. LineInv => LineIsKept  BY DEF LineInv
  <1> QED BY <1>1, LineInit, LineStep, PTL DEF BudgetSpec

-------------------------------------------------------------------------------
(* A gate is one user of the budget: every step of StreamGate is a step of PrefixBudget or
   leaves the budget alone.  All that must be known of the gate is that what it keeps is a
   sequence, for its length is what the lease shrinks to. *)
KeepsChunks == kept \in Seq(Int) /\ taken \in Int

LEMMA KeptStep == KeepsChunks /\ [GateNext]_streamVars => KeepsChunks'
  <1> SUFFICES ASSUME KeepsChunks, [GateNext]_streamVars PROVE KeepsChunks'
    OBVIOUS
  <1> USE DEF KeepsChunks
  <1>0. Append(kept, taken) \in Seq(Int) /\ <<>> \in Seq(Int)  BY AppendProperties, EmptySeq
  <1>1. CASE ReserveWorstCase  BY <1>1 DEF ReserveWorstCase, readVars
  <1>2. CASE GateStep
    <2>1. CASE Reserved  BY <2>1 DEF Reserved, readVars
    <2>2. CASE Decide  BY <1>0, <2>2 DEF Decide, GateFail, readVars
    <2>3. CASE Take  BY <2>3 DEF Take
    <2>4. CASE TimerFires  BY <1>0, <2>4 DEF TimerFires, GateFail, readVars
    <2>5. CASE TakeChunk
      <3>1. taken' = taken /\ TakeFrame(flight, Append(kept, taken))  BY <2>5 DEF TakeChunk
      <3>2. kept' = <<>> \/ kept' = Append(kept, taken)
        BY <3>1 DEF TakeFrame, TakeContent, CommitOrOverflow, KeepReading, GateFail
      <3> QED BY <1>0, <3>1, <3>2
    <2>6. CASE TakeEnd  BY <1>0, <2>6 DEF TakeEnd, GateFail
    <2> QED BY <1>2, <2>1, <2>2, <2>3, <2>4, <2>5, <2>6 DEF GateStep
  <1>3. CASE LeaseStep
    BY <1>3 DEF LeaseStep, HandOver, GateReturns, PrefixDone, RunIsOver, readVars
  <1>4. CASE ReadReturns  BY <1>4 DEF ReadReturns
  <1>5. CASE ContextEnds  BY <1>0, <1>5 DEF ContextEnds, GateFail, readVars
  <1>6. CASE Tick  BY <1>6 DEF Tick, readVars
  <1>7. CASE ReadPrefix  BY <1>7, HeadTailProperties DEF ReadPrefix, readVars
  <1>8. CASE ReadOn  BY <1>8 DEF ReadOn
  <1>9. CASE EndStream \/ CloseStream  BY <1>0, <1>9 DEF EndStream, CloseStream, readVars
  <1>10. CASE UNCHANGED gateVars  BY <1>10 DEF gateVars, readVars
  <1> QED BY <1>1, <1>2, <1>3, <1>4, <1>5, <1>6, <1>7, <1>8, <1>9, <1>10
          DEF GateNext, streamVars

LEMMA GateUsesBudget ==
  LineInv /\ KeepsChunks /\ [GateNext]_streamVars => [BudgetNext]_budgetVars
  <1> SUFFICES ASSUME LineInv, KeepsChunks, [GateNext]_streamVars
               PROVE  [BudgetNext]_budgetVars
    OBVIOUS
  <1> USE GateAssumption
  <1>1. CASE ReserveWorstCase  BY <1>1 DEF ReserveWorstCase, Reserve, BudgetNext
  <1>2. CASE GateStep
    BY <1>2 DEF GateStep, Reserved, Decide, Take, TimerFires, TakeChunk, TakeEnd, budgetVars
  <1>3. CASE LeaseStep
    <2>1. CASE HandOver
      <3>1. Len(kept) \in Nat  BY LenProperties DEF KeepsChunks
      <3>2. ShrinkTo(Reader, Len(kept))  BY <2>1 DEF HandOver
      <3>3. CASE Len(kept) < held[Reader]
        <4>1. held[Reader] \in 0..Limit  BY DEF LineInv, BudgetTypeOK
        <4>2. Limit \in Nat  BY BudgetAssumption
        <4>3. Len(kept) \in 0..Limit  BY <3>1, <3>3, <4>1, <4>2
        <4> QED BY <3>2, <3>3, <4>3 DEF Shrink, BudgetNext
      <3>4. CASE ~(Len(kept) < held[Reader])  BY <3>2, <3>4 DEF ShrinkTo, budgetVars
      <3> QED BY <3>3, <3>4
    <2>2. CASE GateReturns \/ PrefixDone
      BY <2>2 DEF GateReturns, PrefixDone, BudgetNext
    <2> QED BY <1>3, <2>1, <2>2 DEF LeaseStep
  <1>4. CASE ReadReturns \/ ContextEnds \/ Tick \/ ReadPrefix \/ ReadOn
    BY <1>4 DEF ReadReturns, ContextEnds, Tick, ReadPrefix, ReadOn, budgetVars
  <1>5. CASE EndStream \/ CloseStream
    BY <1>5 DEF EndStream, CloseStream, BudgetNext, budgetVars
  <1>6. CASE Drain \/ \E g \in Gates : Waits(g)  BY <1>6 DEF BudgetNext
  <1>7. CASE \E g \in Gates \ {Reader} : OtherGate(g)  BY <1>7 DEF OtherGate, BudgetNext
  <1>8. CASE UNCHANGED streamVars  BY <1>8 DEF streamVars
  <1> QED BY <1>1, <1>2, <1>3, <1>4, <1>5, <1>6, <1>7, <1>8 DEF GateNext

\* The gate and the stream after it use the budget as any other caller does: they implement
\* PrefixBudget, and the line is kept beside them.
THEOREM GateImplementsUser == GateSpec => BudgetSpec /\ []LineIsKept
  <1>1. GateInit => BudgetInit /\ LineInv /\ KeepsChunks
    BY LineInit, EmptySeq DEF GateInit, KeepsChunks
  <1>2. LineInv /\ KeepsChunks /\ [GateNext]_streamVars => (LineInv /\ KeepsChunks)'
    BY LineStep, KeptStep, GateUsesBudget
  <1>3. LineInv => LineIsKept  BY DEF LineInv
  <1> QED BY <1>1, <1>2, <1>3, GateUsesBudget, PTL DEF GateSpec, BudgetSpec

-------------------------------------------------------------------------------
(* The bytes.  What the client got, what is kept for it and what a read has brought for   *)
(* somebody who still waits are the source in order; beside that, a read under way after  *)
(* the verdict was handed over, and nothing is kept once the prefix has been read.        *)

UpTo(n) == [i \in 1..n |-> i]
Brought == flight \in Chunks /\ (gate \in {"top", "read"} \/ handed = TRUE)
Decided == {"committing", "committed", "streaming", "ended"}

InOrder ==
  IF Brought THEN (client \o kept) \o <<taken>> = UpTo(taken) ELSE client \o kept = UpTo(taken)

ByteInv ==
  /\ kept \in Seq(Int) /\ client \in Seq(Int) /\ taken \in Nat
  /\ gate \in {"idle", "reserving"} =>
       taken = 0 /\ flight = "none" /\ kept = <<>> /\ client = <<>>
  /\ gate \in {"top", "read"} \cup Decided => InOrder
  /\ gate \in Decided /\ flight # "none" => handed = TRUE
  /\ gate \in {"streaming", "ended"} => kept = <<>>

LEMMA UpToMore ==
  ASSUME NEW n \in Nat, NEW s \in Seq(Int), s = UpTo(n)
  PROVE  s \o <<n + 1>> = UpTo(n + 1) /\ Append(s, n + 1) = UpTo(n + 1)
<1>1. /\ Append(s, n + 1) \in Seq(Int) /\ Len(Append(s, n + 1)) = Len(s) + 1
      /\ \A i \in 1..Len(s) : Append(s, n + 1)[i] = s[i]
      /\ Append(s, n + 1)[Len(s) + 1] = n + 1
  BY AppendProperties
<1>2. Len(s) = n /\ \A i \in 1..n : s[i] = i
  BY DEF UpTo
<1> DEFINE t == Append(s, n + 1)
<1>3. t = [i \in 1..(n + 1) |-> t[i]]
  BY <1>1, <1>2, LenProperties
<1>4. \A i \in 1..(n + 1) : t[i] = i
  BY <1>1, <1>2
<1>5. t = UpTo(n + 1)
  BY <1>3, <1>4 DEF UpTo
<1>6. s \o <<n + 1>> = Append(s, n + 1)
  OBVIOUS
<1> QED BY <1>5, <1>6

LEMMA OneFurther ==
  ASSUME NEW c \in Seq(Int), NEW k \in Seq(Int), NEW x \in Int
  PROVE  c \o Append(k, x) = (c \o k) \o <<x>>
<1>1. Append(k, x) = k \o <<x>> /\ <<x>> \in Seq(Int)
  OBVIOUS
<1> QED BY <1>1, ConcatAssociative

LEMMA HeadOver ==
  ASSUME NEW c \in Seq(Int), NEW k \in Seq(Int), k # <<>>
  PROVE  Append(c, Head(k)) \o Tail(k) = c \o k
<1>1. Head(k) \in Int /\ Tail(k) \in Seq(Int) /\ k = <<Head(k)>> \o Tail(k) /\ <<Head(k)>> \in Seq(Int)
  BY HeadTailProperties
<1>2. Append(c, Head(k)) = c \o <<Head(k)>>
  BY <1>1
<1>3. (c \o <<Head(k)>>) \o Tail(k) = c \o (<<Head(k)>> \o Tail(k))
  BY <1>1, ConcatAssociative
<1> QED BY <1>1, <1>2, <1>3

LEMMA NothingMore == ASSUME NEW c \in Seq(Int) PROVE c \o <<>> = c
  BY ConcatEmptySeq

LEMMA FlightKinds == /\ "none" \notin Chunks /\ "reading" \notin Chunks
                     /\ \A x \in Ends : x \notin Chunks
  BY DEF Chunks, Frames, Ends

\* A step that moves no byte.
LEMMA NoByteMoves ==
  ASSUME ByteInv, UNCHANGED <<taken, kept, client>>, Brought' <=> Brought,
         gate' \in {"idle", "reserving"} => gate \in {"idle", "reserving"} /\ flight' = flight,
         gate' \in {"top", "read"} \cup Decided => gate \in {"top", "read"} \cup Decided,
         gate' \in Decided /\ flight' # "none" => handed' = TRUE,
         gate' \in {"streaming", "ended"} => kept = <<>>
  PROVE  ByteInv'
<1>1. InOrder => InOrder'
  BY DEF InOrder
<1>2. kept' \in Seq(Int) /\ client' \in Seq(Int) /\ taken' \in Nat
  BY DEF ByteInv
<1> QED BY <1>1, <1>2 DEF ByteInv

\* A gate that failed, or a stream that was closed, owes nothing.
LEMMA NothingOwed ==
  ASSUME ByteInv, gate' \in {"failing", "failed", "closed"}, UNCHANGED <<taken, client>>,
         kept' \in {kept, <<>>}
  PROVE  ByteInv'
<1>1. kept' \in Seq(Int)
  BY EmptySeq DEF ByteInv
<1> QED BY <1>1 DEF ByteInv, Decided

LEMMA GateStepBytes ==
  ASSUME ByteInv, GateStep
  PROVE  ByteInv'
<1> USE FlightKinds DEF readVars, resultVars, ladderVars
<1>1. CASE Reserved
  <2>0. UNCHANGED <<taken, flight, kept, client, handed>> /\ gate = "reserving"
    BY <1>1 DEF Reserved
  <2>1. CASE gate' = "top"
    <3>1. taken = 0 /\ flight = "none" /\ kept = <<>> /\ client = <<>>
      BY <2>0 DEF ByteInv
    <3>2. ~Brought'
      BY <2>0, <3>1 DEF Brought
    <3>3. <<>> \o <<>> = <<>> /\ UpTo(0) = <<>>
      BY DEF UpTo
    <3>4. InOrder'
      BY <2>0, <3>1, <3>2, <3>3 DEF InOrder
    <3> QED BY <2>0, <2>1, <3>4 DEF ByteInv, Decided
  <2>2. CASE gate' = "failed"
    BY <2>0, <2>2, NothingOwed
  <2> QED BY <1>1, <2>1, <2>2 DEF Reserved
<1>2. CASE Decide
  <2>1. gate = "top" /\ UNCHANGED <<taken, flight>>
    BY <1>2 DEF Decide
  <2>2. CASE GateFail
    BY <2>1, <2>2, NothingOwed DEF GateFail
  <2>3. CASE GateCommit(FALSE) /\ UNCHANGED kept
    <3>1. /\ gate' = "committing" /\ UNCHANGED <<client, kept>>
          /\ flight' # "none" => handed' = TRUE
      BY <2>3 DEF GateCommit
    <3>2. Brought' <=> Brought
      BY <2>1, <3>1 DEF Brought
    <3> QED BY <2>1, <3>1, <3>2, NoByteMoves DEF Decided
  <2> QED BY <1>2, <2>2, <2>3 DEF Decide
<1>3. CASE Take
  <2>1. /\ gate = "top" /\ gate' = "read" /\ UNCHANGED <<taken, kept, client, handed>>
        /\ flight' = PendingRead
    BY <1>3 DEF Take
  <2>2. Brought' <=> Brought
    BY <2>1 DEF Brought, PendingRead
  <2> QED BY <2>1, <2>2, NoByteMoves DEF Decided
<1>4. CASE TimerFires
  <2>1. gate = "read" /\ UNCHANGED <<taken, flight>>
    BY <1>4 DEF TimerFires
  <2>2. CASE GateFail
    BY <2>1, <2>2, NothingOwed DEF GateFail
  <2>3. CASE gate' = "top" /\ UNCHANGED <<kept, done, handed, client>>
    <3>1. Brought' <=> Brought
      BY <2>1, <2>3 DEF Brought
    <3> QED BY <2>1, <2>3, <3>1, NoByteMoves DEF Decided
  <2> QED BY <1>4, <2>2, <2>3 DEF TimerFires
<1>5. CASE TakeChunk
  <2>1. gate = "read" /\ flight \in Chunks /\ flight' = "none" /\ taken' = taken
    BY <1>5 DEF TakeChunk
  <2>2. TakeFrame(flight, Append(kept, taken))
    BY <1>5 DEF TakeChunk
  <2>3. \/ GateFail
        \/ kept' = Append(kept, taken) /\ (GateCommit(FALSE) \/ (gate' = "top" /\ UNCHANGED <<done, handed, client>>))
    <3>1. CASE flight = "content"
      <4>1. TakeContent(Append(kept, taken))
        BY <2>2, <3>1 DEF TakeFrame
      <4>2. CASE rate = 0
        BY <4>1, <4>2 DEF TakeContent, CommitOrOverflow
      <4>3. CASE rate # 0
        BY <4>1, <4>3 DEF TakeContent, KeepReading
      <4> QED BY <4>2, <4>3
    <3>2. CASE flight # "content"
      BY <2>2, <3>2 DEF TakeFrame, CommitOrOverflow, KeepReading
    <3> QED BY <3>1, <3>2
  <2>4. CASE GateFail
    BY <2>1, <2>4, NothingOwed DEF GateFail
  <2>5. CASE kept' = Append(kept, taken) /\ (GateCommit(FALSE) \/ (gate' = "top" /\ UNCHANGED <<done, handed, client>>))
    <3>1. client' = client /\ gate' \in {"committing", "top"}
      BY <2>5 DEF GateCommit
    <3>2. ~Brought' /\ Brought
      BY <2>1 DEF Brought
    <3>3. client \in Seq(Int) /\ kept \in Seq(Int) /\ taken \in Int /\ taken \in Nat
      BY DEF ByteInv
    <3>4. (client \o kept) \o <<taken>> = UpTo(taken)
      BY <2>1, <3>2 DEF ByteInv, InOrder, Decided
    <3>5. client \o Append(kept, taken) = UpTo(taken)
      BY <3>3, <3>4, OneFurther
    <3>6. InOrder'
      BY <2>1, <2>5, <3>1, <3>2, <3>5 DEF InOrder
    <3>7. kept' \in Seq(Int)
      BY <2>5, <3>3, AppendProperties
    <3> QED BY <2>1, <3>1, <3>3, <3>6, <3>7 DEF ByteInv, Decided
  <2> QED BY <2>3, <2>4, <2>5
<1>6. CASE TakeEnd
  <2>1. gate = "read" /\ flight \in Ends /\ flight' = "none" /\ taken' = taken
    BY <1>6 DEF TakeEnd
  <2>2. CASE GateFail
    BY <2>1, <2>2, NothingOwed DEF GateFail
  <2>3. CASE GateCommit(TRUE) /\ UNCHANGED kept
    <3>1. gate' = "committing" /\ UNCHANGED <<client, kept>>
      BY <2>3 DEF GateCommit
    <3>2. ~Brought' /\ ~Brought
      BY <2>1 DEF Brought
    <3> QED BY <2>1, <3>1, <3>2, NoByteMoves DEF Decided
  <2> QED BY <1>6, <2>2, <2>3 DEF TakeEnd
<1> QED BY <1>1, <1>2, <1>3, <1>4, <1>5, <1>6 DEF GateStep

LEMMA StreamStepBytes ==
  ASSUME ByteInv, LeaseStep \/ ReadPrefix \/ ReadOn \/ EndStream \/ CloseStream
  PROVE  ByteInv'
<1> USE FlightKinds DEF readVars, resultVars, ladderVars, RunIsOver
<1>0. client \in Seq(Int) /\ kept \in Seq(Int) /\ taken \in Nat /\ taken \in Int
  BY DEF ByteInv
<1>1. CASE HandOver
  <2>1. /\ gate = "committing" /\ gate' = "committed"
        /\ UNCHANGED <<taken, flight, kept, client, handed>>
    BY <1>1 DEF HandOver
  <2>2. Brought' <=> Brought
    BY <2>1 DEF Brought
  <2>3. flight' # "none" => handed' = TRUE
    BY <2>1 DEF ByteInv, Decided
  <2> QED BY <2>1, <2>2, <2>3, NoByteMoves DEF Decided
<1>2. CASE GateReturns
  BY <1>2, NothingOwed DEF GateReturns
<1>3. CASE PrefixDone
  <2>1. /\ gate = "committed" /\ kept = <<>> /\ gate' = "streaming"
        /\ UNCHANGED <<taken, flight, kept, client, handed>>
    BY <1>3 DEF PrefixDone
  <2>2. Brought' <=> Brought
    BY <2>1 DEF Brought
  <2>3. flight' # "none" => handed' = TRUE
    BY <2>1 DEF ByteInv, Decided
  <2> QED BY <2>1, <2>2, <2>3, NoByteMoves DEF Decided
<1>4. CASE ReadPrefix
  <2>1. /\ gate = "committed" /\ gate' = "committed" /\ kept # <<>>
        /\ client' = Append(client, Head(kept)) /\ kept' = Tail(kept)
        /\ UNCHANGED <<taken, flight, handed>>
    BY <1>4 DEF ReadPrefix
  <2>2. Head(kept) \in Int /\ Tail(kept) \in Seq(Int)
    BY <1>0, <2>1, HeadTailProperties
  <2>3. client' \in Seq(Int)
    BY <1>0, <2>1, <2>2, AppendProperties
  <2>4. client' \o kept' = client \o kept
    BY <1>0, <2>1, HeadOver
  <2>5. InOrder /\ (flight # "none" => handed = TRUE)
    BY <2>1 DEF ByteInv, Decided
  <2>6. Brought' <=> Brought
    BY <2>1 DEF Brought
  <2>7. InOrder'
    BY <2>1, <2>4, <2>5, <2>6 DEF InOrder
  <2> QED BY <1>0, <2>1, <2>2, <2>3, <2>5, <2>7 DEF ByteInv, Decided
<1>5. CASE ReadOn
  <2>1. gate = "streaming" /\ UNCHANGED <<kept, handed, done>> /\ kept = <<>> /\ InOrder
    BY <1>5 DEF ReadOn, ByteInv, Decided
  <2>2. flight # "none" => handed = TRUE
    BY <2>1 DEF ByteInv, Decided
  <2>3. client \o kept = client
    BY <1>0, <2>1, NothingMore
  <2>4. CASE done /\ gate' = "ended" /\ UNCHANGED <<taken, flight, client>>
    <3>1. Brought' <=> Brought
      BY <2>1, <2>4 DEF Brought
    <3> QED BY <2>1, <2>2, <2>4, <3>1, NoByteMoves DEF Decided
  <2>5. CASE /\ ~done /\ handed /\ flight \in Chunks \cup Ends /\ flight' = "none" /\ UNCHANGED taken
             /\ IF flight \in Ends THEN gate' = "ended" /\ UNCHANGED client
                                   ELSE client' = Append(client, taken) /\ UNCHANGED gate
    <3>0. ~Brought' /\ flight' = "none"
      BY <2>5 DEF Brought
    <3>1. CASE flight \in Ends
      <4>1. ~Brought /\ gate' = "ended" /\ UNCHANGED client
        BY <2>5, <3>1 DEF Brought
      <4> QED BY <2>1, <2>5, <3>0, <4>1, NoByteMoves DEF Decided
    <3>2. CASE flight \notin Ends
      <4>1. Brought /\ client' = Append(client, taken) /\ gate' = "streaming"
        <5>1. flight # "none" /\ flight \in Chunks
          BY <2>5, <3>2
        <5> QED BY <2>1, <2>2, <2>5, <3>2, <5>1 DEF Brought
      <4>2. client \o <<taken>> = UpTo(taken)
        BY <2>1, <2>3, <4>1 DEF InOrder
      <4>3. client' \in Seq(Int) /\ client' = UpTo(taken)
        BY <1>0, <4>1, <4>2, AppendProperties
      <4>4. client' \o <<>> = client'
        BY <4>3, NothingMore
      <4>5. InOrder'
        BY <2>1, <2>5, <3>0, <4>3, <4>4 DEF InOrder
      <4> QED BY <1>0, <2>1, <2>5, <3>0, <4>1, <4>3, <4>5 DEF ByteInv, Decided
    <3> QED BY <3>1, <3>2
  <2>6. CASE /\ ~done /\ ~(handed /\ flight # "none") /\ UNCHANGED flight
             /\ \/ taken < MaxChunks /\ taken' = taken + 1
                   /\ client' = Append(client, taken') /\ UNCHANGED gate
                \/ gate' = "ended" /\ UNCHANGED <<taken, client>>
    <3>1. flight = "none" /\ flight' = "none"
      BY <2>2, <2>6
    <3>2. ~Brought /\ ~Brought'
      BY <3>1 DEF Brought
    <3>3. CASE taken' = taken + 1 /\ client' = Append(client, taken') /\ UNCHANGED gate
      <4>1. client = UpTo(taken)
        BY <2>1, <2>3, <3>2 DEF InOrder
      <4>2. client' \in Seq(Int) /\ client' = UpTo(taken')
        <5>1. client' = Append(client, taken + 1) /\ Append(client, taken + 1) \in Seq(Int)
          BY <1>0, <3>3, AppendProperties
        <5>2. Append(client, taken + 1) = UpTo(taken + 1)
          BY <1>0, <4>1, UpToMore
        <5> QED BY <3>3, <5>1, <5>2
      <4>3. client' \o <<>> = client'
        BY <4>2, NothingMore
      <4>4. InOrder'
        BY <2>1, <3>2, <4>2, <4>3 DEF InOrder
      <4> QED BY <1>0, <2>1, <3>1, <3>3, <4>2, <4>4 DEF ByteInv, Decided
    <3>4. CASE gate' = "ended" /\ UNCHANGED <<taken, client>>
      BY <2>1, <3>1, <3>2, <3>4, NoByteMoves DEF Decided
    <3> QED BY <2>6, <3>3, <3>4
  <2> QED BY <1>5, <2>4, <2>5, <2>6 DEF ReadOn
<1>6. CASE EndStream \/ CloseStream
  BY <1>6, NothingOwed DEF EndStream, CloseStream
<1> QED BY <1>1, <1>2, <1>3, <1>4, <1>5, <1>6 DEF LeaseStep

LEMMA ByteStep == ByteInv /\ [GateNext]_streamVars => ByteInv'
<1> SUFFICES ASSUME ByteInv, [GateNext]_streamVars PROVE ByteInv'
  OBVIOUS
<1> USE FlightKinds DEF readVars, resultVars, ladderVars
<1>0. client \in Seq(Int) /\ kept \in Seq(Int) /\ taken \in Nat /\ taken \in Int
  BY DEF ByteInv
<1>1. CASE ReserveWorstCase
  <2>1. gate = "idle" /\ gate' = "reserving" /\ UNCHANGED <<taken, flight, kept, client, handed>>
    BY <1>1 DEF ReserveWorstCase
  <2> QED BY <2>1 DEF ByteInv, Decided
<1>2. CASE ReadReturns
  <2>1. flight = "reading" /\ UNCHANGED <<gate, kept, client, handed, done>>
    BY <1>2 DEF ReadReturns
  <2>2. ~Brought /\ (gate \in Decided => handed = TRUE) /\ gate \notin {"idle", "reserving"}
    BY <2>1 DEF Brought, ByteInv
  <2>3. CASE taken' = taken + 1 /\ flight' \in Chunks
    <3>1. CASE gate \in {"top", "read"} \cup Decided
      <4>1. Brought'
        BY <2>1, <2>2, <2>3, <3>1 DEF Brought
      <4>2. client \o kept = UpTo(taken) /\ client \o kept \in Seq(Int)
        BY <1>0, <2>2, <3>1, ConcatProperties DEF ByteInv, InOrder
      <4>3. (client \o kept) \o <<taken + 1>> = UpTo(taken + 1)
        BY <1>0, <4>2, UpToMore
      <4>4. InOrder'
        BY <2>1, <2>3, <4>1, <4>3 DEF InOrder
      <4> QED BY <1>0, <2>1, <2>2, <2>3, <4>4 DEF ByteInv
    <3>2. CASE gate \notin {"top", "read"} \cup Decided
      BY <1>0, <2>1, <2>2, <2>3, <3>2 DEF ByteInv, Decided
    <3> QED BY <3>1, <3>2
  <2>4. CASE UNCHANGED taken /\ flight' \in Ends
    <3>1. ~Brought'
      BY <2>4 DEF Brought
    <3> QED BY <2>1, <2>2, <2>4, <3>1, NoByteMoves DEF ByteInv
  <2> QED BY <1>2, <2>3, <2>4 DEF ReadReturns
<1>3. CASE ContextEnds
  BY <1>3, NothingOwed DEF ContextEnds, GateFail
<1>4. CASE Tick
  <2>1. UNCHANGED <<gate, taken, flight, kept, client, handed>>
    BY <1>4 DEF Tick
  <2> QED BY <2>1 DEF ByteInv, InOrder, Brought
<1>5. CASE UNCHANGED gateVars
  <2>1. UNCHANGED <<gate, taken, flight, kept, client, handed>>
    BY <1>5 DEF gateVars
  <2> QED BY <2>1 DEF ByteInv, InOrder, Brought
<1>6. CASE UNCHANGED streamVars
  BY <1>5, <1>6 DEF streamVars
<1>7. CASE GateStep
  BY <1>7, GateStepBytes
<1>8. CASE LeaseStep \/ ReadPrefix \/ ReadOn \/ EndStream \/ CloseStream
  BY <1>8, StreamStepBytes
<1> QED BY <1>1, <1>2, <1>3, <1>4, <1>5, <1>6, <1>7, <1>8 DEF GateNext

\* The client gets the bytes of the source in order, whatever the gate and its ladder decide
\* while a read is under way (pendingRead, Result.Continuation), for any budget and any source.
THEOREM BytesAreKept == GateSpec => []BytesKept
<1>1. GateInit => ByteInv
  <2>1. <<>> \in Seq(Int) /\ 0 \in Nat
    BY EmptySeq
  <2> QED BY <2>1 DEF GateInit, ByteInv, Decided
<1>2. ByteInv => BytesKept
  <2> SUFFICES ASSUME ByteInv, gate \in {"top", "read", "committing", "committed", "streaming", "ended"}
               PROVE  InHand = [i \in 1..taken |-> i]
    BY DEF BytesKept
  <2>1. InOrder /\ client \in Seq(Int) /\ kept \in Seq(Int)
    BY DEF ByteInv, Decided
  <2>2. client \o kept \in Seq(Int)
    BY <2>1, ConcatProperties
  <2>3. CASE Brought
    <3>1. InHand = (client \o kept) \o <<taken>>
      BY <2>3 DEF InHand, Brought
    <3> QED BY <2>1, <2>3, <3>1 DEF InOrder, UpTo
  <2>4. CASE ~Brought
    <3>1. InHand = (client \o kept) \o <<>>
      BY <2>4 DEF InHand, Brought
    <3>2. InHand = client \o kept
      BY <2>2, <3>1, NothingMore
    <3> QED BY <2>1, <2>4, <3>2 DEF InOrder, UpTo
  <2> QED BY <2>3, <2>4
<1> QED BY <1>1, <1>2, ByteStep, PTL DEF GateSpec
===============================================================================
