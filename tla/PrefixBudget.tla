----------------------------- MODULE PrefixBudget -----------------------------
(* The budget that all gates of a process share for the bytes they hold back
   (gate/budget.go): a gate reserves its worst case before it reads, shrinks the lease
   to what it really keeps and returns it; whoever does not fit waits in a line.

   A gate is one caller of the budget.  holder is the gate inside b.mu, or NoGate: the drain
   of the line is the one operation with a loop in that critical section, and each of its
   rounds is a step here.  Reservations above the limit are refused at once and are left
   out.  The limit is read again for every decision but comes from the environment of the
   process, so that it is a constant. *)
EXTENDS Integers, Sequences, SequencesExt

CONSTANTS Gates, Limit, Demands, NoGate

ASSUME BudgetAssumption ==
  /\ Limit \in Nat \ {0}
  /\ Demands \subseteq 1..Limit
  /\ NoGate \notin Gates

VARIABLES
  reserved,  \* bytes of all leases that are not returned
  line,      \* the gates that wait, first come first
  granted,   \* gates whose lease is in the channel they wait on
  need,      \* the bytes a gate asked for
  held,      \* the bytes of a gate's lease
  stage,     \* where a gate is
  holder         \* the gate inside b.mu

budgetVars == <<reserved, line, granted, need, held, stage, holder>>

BudgetInit ==
  /\ reserved = 0
  /\ line = <<>>
  /\ granted = {}
  /\ need = [g \in Gates |-> 0]
  /\ held = [g \in Gates |-> 0]
  /\ stage = [g \in Gates |-> "out"]
  /\ holder = NoGate

Unlocked == holder = NoGate

\* Reserve: at once when nobody waits and it fits, otherwise at the end of the line.
\* (Mutated: whoever fits goes ahead of the line.)
FitsAtOnceBarging(n) == reserved + n <= Limit
FitsAtOnce(n) == line = <<>> /\ reserved + n <= Limit

ReserveAtOnce(g, n) ==
  /\ stage[g] = "out" /\ Unlocked /\ FitsAtOnce(n)
  /\ reserved' = reserved + n
  /\ need' = [need EXCEPT ![g] = n]
  /\ held' = [held EXCEPT ![g] = n]
  /\ stage' = [stage EXCEPT ![g] = "holding"]
  /\ UNCHANGED <<line, granted, holder>>

Enqueue(g, n) ==
  /\ stage[g] = "out" /\ Unlocked /\ ~FitsAtOnce(n)
  /\ line' = Append(line, g)
  /\ need' = [need EXCEPT ![g] = n]
  /\ stage' = [stage EXCEPT ![g] = "select"]
  /\ holder' = g
  /\ UNCHANGED <<reserved, granted, held>>

\* drainWaitersLocked: one round for each waiter that fits, and out of the critical
\* section at the first that does not.
HeadFits == line # <<>> /\ reserved + need[Head(line)] <= Limit

Grant ==
  /\ ~Unlocked /\ HeadFits
  /\ LET g == Head(line) IN
     /\ reserved' = reserved + need[g]
     /\ held' = [held EXCEPT ![g] = need[g]]
     /\ granted' = granted \cup {g}
  /\ line' = Tail(line)
  /\ UNCHANGED <<need, stage, holder>>

DrainEnds ==
  /\ ~Unlocked /\ ~HeadFits
  /\ holder' = NoGate
  /\ UNCHANGED <<reserved, line, granted, need, held, stage>>

Drain == Grant \/ DrainEnds

\* The two arms of the select: the lease arrives, or the context ends.
Receive(g) ==
  /\ stage[g] = "select" /\ holder # g /\ g \in granted
  /\ granted' = granted \ {g}
  /\ stage' = [stage EXCEPT ![g] = "holding"]
  /\ UNCHANGED <<reserved, line, need, held, holder>>

GiveUp(g) ==
  /\ stage[g] = "select" /\ holder # g
  /\ stage' = [stage EXCEPT ![g] = "leaving"]
  /\ UNCHANGED <<reserved, line, granted, need, held, holder>>

\* A waiter that leaves makes room for those behind it.
\* (Mutated: it leaves without a drain.)
WithdrawQuietly(g) ==
  /\ stage[g] = "leaving" /\ Unlocked
  /\ \E i \in 1..Len(line) : line[i] = g /\ line' = RemoveAt(line, i)
  /\ stage' = [stage EXCEPT ![g] = "out"]
  /\ UNCHANGED <<reserved, granted, need, held, holder>>
Withdraw(g) ==
  /\ stage[g] = "leaving" /\ Unlocked
  /\ \E i \in 1..Len(line) : line[i] = g /\ line' = RemoveAt(line, i)
  /\ stage' = [stage EXCEPT ![g] = "out"]
  /\ holder' = g
  /\ UNCHANGED <<reserved, granted, need, held>>

\* The lease was granted before the waiter could leave the line: it is taken from the
\* channel and returned after the critical section.
TakeOrphan(g) ==
  /\ stage[g] = "leaving" /\ Unlocked /\ g \notin ToSet(line)
  /\ granted' = granted \ {g}
  /\ stage' = [stage EXCEPT ![g] = "orphan"]
  /\ UNCHANGED <<reserved, line, need, held, holder>>

ReturnLease(g) ==
  /\ Unlocked
  /\ reserved' = reserved - held[g]
  /\ held' = [held EXCEPT ![g] = 0]
  /\ stage' = [stage EXCEPT ![g] = "out"]
  /\ holder' = g
  /\ UNCHANGED <<line, granted, need>>

ReturnOrphan(g) == stage[g] = "orphan" /\ ReturnLease(g)

Release(g) == stage[g] = "holding" /\ ReturnLease(g)

ShrinkTo(g, n) ==
  /\ stage[g] = "holding" /\ Unlocked
  /\ IF n < held[g]
     THEN /\ reserved' = reserved - (held[g] - n)
          /\ held' = [held EXCEPT ![g] = n]
          /\ holder' = g
     ELSE UNCHANGED <<reserved, held, holder>>
  /\ UNCHANGED <<line, granted, need, stage>>

\* Nobody returns the lease any more: what the gate held back is neither read nor given up.
Keep(g) ==
  /\ stage[g] = "holding"
  /\ stage' = [stage EXCEPT ![g] = "kept"]
  /\ UNCHANGED <<reserved, line, granted, need, held, holder>>

Reserve(g) == \E n \in Demands : ReserveAtOnce(g, n) \/ Enqueue(g, n)
Shrink(g) == \E n \in 0..Limit : n < held[g] /\ ShrinkTo(g, n)

\* What a gate does inside Reserve, whatever it does with its lease.
Waits(g) == Receive(g) \/ GiveUp(g) \/ Withdraw(g) \/ TakeOrphan(g) \/ ReturnOrphan(g)

BudgetNext ==
  \/ Drain
  \/ \E g \in Gates : Reserve(g) \/ Waits(g) \/ Shrink(g) \/ Release(g) \/ Keep(g)

BudgetSpec == BudgetInit /\ [][BudgetNext]_budgetVars

-------------------------------------------------------------------------------
(* Properties *)

BudgetTypeOK ==
  /\ reserved \in Int
  /\ line \in Seq(Gates)
  /\ granted \in SUBSET Gates
  /\ need \in [Gates -> 0..Limit]
  /\ held \in [Gates -> 0..Limit]
  /\ stage \in [Gates -> {"out", "select", "leaving", "orphan", "holding", "kept"}]
  /\ holder \in Gates \cup {NoGate}

\* A gate inside Reserve that is not served yet.
Waiting(g) == stage[g] \in {"select", "leaving"}

\* The line is kept.  Outside b.mu the first of the line does not fit: whatever returns
\* bytes, and whoever leaves the line, lets in those it makes room for (Reserve, a
\* cancelled Reserve, ShrinkTo and Release all drain).  A gate that waits is in the line
\* or has its lease in its channel, never neither and never both, also while it is being
\* cancelled; and the leases stay below the limit.
LineIsKept ==
  /\ Unlocked => ~HeadFits
  /\ ToSet(line) \cap granted = {}
  /\ ToSet(line) \cup granted = {g \in Gates : Waiting(g)}
  /\ reserved <= Limit

\* The bytes nobody returns.
Lost == SumFunctionOnSet(held, {g \in Gates : stage[g] = "kept"})

\* A gate that waits for the budget is served, or gives up, unless what others keep for good
\* leaves no room for the first of the line: leases that are returned are returned once and
\* whole, a lease granted to a cancelled waiter is not lost, a lease that is kept costs its own
\* bytes and no more, and small reservations do not overtake a large one for ever.
HeadIsShutOut == line # <<>> /\ Lost + need[Head(line)] > Limit
WaitersAreServed ==
  \A g \in Gates : stage[g] = "select" ~> (stage[g] # "select" \/ HeadIsShutOut)
===============================================================================
