---------------------------- MODULE SettlementLine ----------------------------
(* What the write queue promises of the settlements it accepts, without the worker, its
   batches, the locks or the exit: one line.  Whoever joins it is decided in the order of
   joining and once; first the terminal state, then the effects, and only then are those who
   wait for it told and it leaves.  A settlement that was turned away is decided by its
   caller aside of the line.  WriteQueue (internal/terminal/batch.go) implements it, with
   the line in two pieces, the hand of the worker and a channel. *)
EXTENDS Naturals, Sequences

CONSTANTS Entries, RowOf, None

VARIABLES
  line,     \* the settlements that joined and have not left, oldest first
  fate,     \* what the write of each returned
  effects,  \* whose after-commit effects are out
  told,     \* whose waiters were told
  final     \* the rows with a terminal state

lineVars == <<line, fate, effects, told, final>>

LineInit ==
  /\ line = <<>> /\ fate = [e \in Entries |-> None]
  /\ effects = {} /\ told = {} /\ final = {}

Standing(e) == \E i \in 1 .. Len(line) : line[i] = e
Committed(e) == fate[e] \in {"row", "gap"}

JoinLine(e) ==
  /\ fate[e] = None /\ ~Standing(e)
  /\ line' = Append(line, e)
  /\ UNCHANGED <<fate, effects, told, final>>

\* A row is won once; after any answer but an error it is closed, after an error it may be.
Decide(e, result) ==
  /\ fate[e] = None /\ fate' = [fate EXCEPT ![e] = result]
  /\ result \in {"row", "gap"} => RowOf[e] \notin final
  /\ final' \in {final, final \cup {RowOf[e]}}
  /\ result # "failed" => RowOf[e] \in final'

Fates == {"row", "gap", "notSettled", "failed"}

DecideFirst ==
  /\ line # <<>> /\ \E result \in Fates : Decide(Head(line), result)
  /\ UNCHANGED <<line, effects, told>>

DecideAside(e) ==
  /\ ~Standing(e) /\ \E result \in Fates : Decide(e, result)
  /\ effects' = IF fate'[e] \in {"row", "gap"} THEN effects \cup {e} ELSE effects
  /\ UNCHANGED <<line, told>>

ReleaseFirst ==
  /\ line # <<>> /\ Committed(Head(line)) /\ Head(line) \notin told
  /\ effects' = effects \cup {Head(line)}
  /\ UNCHANGED <<line, fate, told, final>>

TellFirst ==
  /\ line # <<>> /\ fate[Head(line)] # None
  /\ Committed(Head(line)) => Head(line) \in effects
  /\ told' = told \cup {Head(line)}
  /\ UNCHANGED <<line, fate, effects, final>>

LeaveLine ==
  /\ line # <<>> /\ Head(line) \in told
  /\ line' = Tail(line)
  /\ UNCHANGED <<fate, effects, told, final>>

LineNext ==
  \/ \E e \in Entries : JoinLine(e) \/ DecideAside(e)
  \/ DecideFirst \/ ReleaseFirst \/ TellFirst \/ LeaveLine

LineSpec == LineInit /\ [][LineNext]_lineVars
===============================================================================
