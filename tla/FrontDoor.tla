------------------------------- MODULE FrontDoor -------------------------------
(* The admission gate of the process (src/go/internal/egress/admission.go and the
   middleware and Drain of frontdoor.go).  Handlers enter and leave under one mutex;
   the shutdown sequence closes the gate once and sleeps on a condition variable
   until the last handler has left or its own deadline has passed.  A condition
   variable has no deadline, so a watcher goroutine turns the deadline into a
   broadcast.  Every action is one critical section of the mutex. *)
EXTENDS Integers, FiniteSets

CONSTANT Requests      \* the requests that reach the gate

ASSUME RequestsFinite == IsFiniteSet(Requests)

VARIABLES
  count,      \* admission.count
  draining,   \* admission.draining
  where,      \* where each request is
  waiter,     \* the goroutine inside waitEmpty
  expired,    \* the context of Drain is done
  watcher     \* the goroutine that waits for that context

gateVars == <<count, draining, where>>
waitVars == <<waiter, expired, watcher>>
doorVars == <<gateVars, waitVars>>

Inside == {r \in Requests : where[r] = "inside"}

DoorInit ==
  /\ count = 0 /\ draining = FALSE /\ where = [r \in Requests |-> "outside"]
  /\ waiter = "idle" /\ expired = FALSE /\ watcher = "idle"

\* cond.Broadcast: whoever sleeps checks its condition again.
Wake(w) == IF w = "asleep" THEN "check" ELSE w

-----------------------------------------------------------------------------
(* Handlers *)

EnterAlways(r) ==   \* the gate is read by nobody
  /\ where[r] = "outside"
  /\ count' = count + 1 /\ where' = [where EXCEPT ![r] = "inside"]
  /\ UNCHANGED <<draining, waitVars>>

\* tryEnter: a closed gate answers 503, an open one counts the request.
TryEnter(r) ==
  /\ where[r] = "outside"
  /\ IF draining
     THEN where' = [where EXCEPT ![r] = "refused"] /\ UNCHANGED count
     ELSE where' = [where EXCEPT ![r] = "inside"] /\ count' = count + 1
  /\ UNCHANGED <<draining, waitVars>>

\* leave, deferred by the middleware, so it runs however the handler ends.
Leave(r) ==
  /\ where[r] = "inside"
  /\ where' = [where EXCEPT ![r] = "left"]
  /\ count' = IF count > 0 THEN count - 1 ELSE count
  /\ waiter' = IF count' = 0 THEN Wake(waiter) ELSE waiter
  /\ UNCHANGED <<draining, expired, watcher>>

-----------------------------------------------------------------------------
(* Drain *)

\* beginDrain, then waitEmpty starts its watcher.
BeginDrain ==
  /\ waiter = "idle"
  /\ draining' = TRUE
  /\ waiter' = "check" /\ watcher' = "armed"
  /\ UNCHANGED <<count, where, expired>>

CheckBlind ==   \* sleeps without looking at the context
  /\ waiter = "check"
  /\ waiter' = IF count > 0 THEN "asleep" ELSE "empty"
  /\ UNCHANGED <<gateVars, expired, watcher>>

\* One turn of the loop of waitEmpty, and what it returns.
CheckEmpty ==
  /\ waiter = "check"
  /\ waiter' = IF expired THEN "timeout" ELSE IF count > 0 THEN "asleep" ELSE "empty"
  /\ UNCHANGED <<gateVars, expired, watcher>>

\* The deadline of Drain passes.
Expire ==
  /\ waiter # "idle" /\ ~expired
  /\ expired' = TRUE
  /\ UNCHANGED <<gateVars, waiter, watcher>>

\* The watcher broadcasts for the context; it ends unheard once Drain returned.
WatchContext ==
  /\ watcher = "armed"
  /\ expired \/ waiter \in {"empty", "timeout"}
  /\ watcher' = "ended"
  /\ waiter' = Wake(waiter)
  /\ UNCHANGED <<gateVars, expired>>

DoorNext ==
  \/ \E r \in Requests : TryEnter(r) \/ Leave(r)
  \/ BeginDrain \/ CheckEmpty \/ Expire \/ WatchContext

DoorSpec == DoorInit /\ [][DoorNext]_doorVars

-----------------------------------------------------------------------------
(* Properties *)

DoorTypeOK ==
  /\ count \in Nat /\ draining \in BOOLEAN /\ expired \in BOOLEAN
  /\ where \in [Requests -> {"outside", "inside", "left", "refused"}]
  /\ waiter \in {"idle", "check", "asleep", "empty", "timeout"}
  /\ watcher \in {"idle", "armed", "ended"}

\* The counter is exactly the number of handlers inside.
CountExact == count = Cardinality(Inside)

\* The gate is shut before anybody waits for the house to empty.
ShutBeforeWaiting == waiter # "idle" => draining

\* When Drain reports success no handler is inside, and because the gate stays shut
\* none ever will be again: the caller may close the connection pools.
DrainedMeansEmpty == waiter = "empty" => Inside = {}

\* A waiter asleep in a house that is empty was not told by the last handler.
NoLostWakeup == waiter = "asleep" => Inside # {}
=============================================================================
