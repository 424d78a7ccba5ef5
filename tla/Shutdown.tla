------------------------------- MODULE Shutdown -------------------------------
(* The exit of the process (src/go/cmd/cchd/boot.go drainAndShutdown): the front door
   is drained, the tracker of streams that outlive their handler is awaited
   (src/go/internal/dataplane/stream.go), the write queue is flushed and stopped, and
   only then the connection pools close.  The module composes the front door with the
   write queue: every settlement belongs to one request, which delivers it inside its
   handler or, for a stream, from a goroutine that may live longer than the handler. *)
EXTENDS WriteQueue, FrontDoor

\* Every settlement is named by its request.
ASSUME OneGate == Requests = Entries

VARIABLES
  tracked,      \* settlementTracker: streams begun and not yet finished
  barrier,      \* streams whose handler stopped waiting for the settlement
  tracker,      \* WaitSettlements: idle, waiting, empty or timeout
  poolsClosed   \* closeAll has run

exitVars == <<tracked, barrier, tracker, poolsClosed>>
allVars == <<vars, doorVars, exitVars>>

InitAll ==
  /\ Init /\ DoorInit
  /\ tracked = {} /\ barrier = {} /\ tracker = "idle" /\ poolsClosed = FALSE

Delivered(e) == caller[e] \in {"accepted", "returned"}
Awaited(e) == await[e] \in {"nil", "failed", "timeout"}

-----------------------------------------------------------------------------
(* Requests *)

Arrive(e) == TryEnter(e) /\ UNCHANGED <<vars, exitVars>>

\* pumpStream registers the stream before its first byte goes out.
Begin(e) ==
  /\ where[e] = "inside" /\ e \in Streams \ tracked /\ caller[e] = "new"
  /\ tracked' = tracked \cup {e}
  /\ UNCHANGED <<vars, doorVars, barrier, tracker, poolsClosed>>

\* A stream settles while it is tracked, anything else inside its handler.  Writes to
\* closed pools fail.
MaySettle(e) == IF e \in Streams THEN e \in tracked ELSE where[e] = "inside"
Settle(e) ==
  /\ MaySettle(e)
  /\ Enqueue(e) \/ (SyncWrite(e) /\ (poolsClosed => outcome'[e] = "failed"))
  /\ UNCHANGED <<doorVars, exitVars>>

FinishEarly(e) ==   \* the stream ended: its settlement is only on the way
  /\ e \in tracked
  /\ tracked' = tracked \ {e} /\ barrier' = barrier \cup {e}
  /\ UNCHANGED <<vars, doorVars, tracker, poolsClosed>>

\* The goroutine of begin: after the settlement of the stream it awaits the row, at
\* most settleBarrierTimeout, and then takes the stream off the tracker.
Finish(e) ==
  /\ e \in tracked /\ Delivered(e) /\ Awaited(e)
  /\ tracked' = tracked \ {e} /\ barrier' = barrier \cup {e}
  /\ UNCHANGED <<vars, doorVars, tracker, poolsClosed>>

\* The handler of a stream waits for that at most settleBarrierTimeout as well.
GiveUp(e) ==
  /\ e \in tracked \ barrier /\ where[e] = "inside"
  /\ barrier' = barrier \cup {e}
  /\ UNCHANGED <<vars, doorVars, tracked, tracker, poolsClosed>>

Return(e) ==
  /\ IF e \in Streams THEN e \in barrier ELSE Delivered(e)
  /\ Leave(e)
  /\ UNCHANGED <<vars, exitVars>>

-----------------------------------------------------------------------------
(* The exit sequence *)

Signal == BeginDrain /\ UNCHANGED <<vars, exitVars>>
Draining == (CheckEmpty \/ Expire \/ WatchContext) /\ UNCHANGED <<vars, exitVars>>

WaitAtOnce ==   \* the tracker is asked before the house is empty
  /\ waiter # "idle" /\ tracker = "idle"
  /\ tracker' = "waiting"
  /\ UNCHANGED <<vars, doorVars, tracked, barrier, poolsClosed>>

\* waitSettlements, with a deadline of its own, whatever Drain returned.
WaitSettlements ==
  /\ waiter \in {"empty", "timeout"} /\ tracker = "idle"
  /\ tracker' = "waiting"
  /\ UNCHANGED <<vars, doorVars, tracked, barrier, poolsClosed>>

SettlementsWaited ==
  /\ tracker = "waiting"
  /\ tracker' \in (IF tracked = {} THEN {"empty", "timeout"} ELSE {"timeout"})
  /\ UNCHANGED <<vars, doorVars, tracked, barrier, poolsClosed>>

\* flushSettlements: Flush, and Stop whatever Flush returned.
FlushAndStop ==
  /\ tracker \in {"empty", "timeout"} /\ waiter \in {"empty", "timeout"}
  /\ Shutdown
  /\ UNCHANGED <<doorVars, exitVars>>

\* closeAll, after the jobs stopped.
ClosePools ==
  /\ flush = "joined" /\ ~poolsClosed
  /\ poolsClosed' = TRUE
  /\ UNCHANGED <<vars, doorVars, tracked, barrier, tracker>>

QueueWorker == Worker /\ UNCHANGED <<doorVars, exitVars>>
StreamWaits == Awaiter /\ UNCHANGED <<doorVars, exitVars>>

NextAll ==
  \/ \E e \in Entries : \/ Arrive(e) \/ Begin(e) \/ Settle(e)
                        \/ Finish(e) \/ GiveUp(e) \/ Return(e)
  \/ QueueWorker \/ StreamWaits
  \/ Signal \/ Draining \/ WaitSettlements \/ SettlementsWaited \/ FlushAndStop \/ ClosePools

\* The exit sequence goes on by itself; it relies on no deadline but those of Drain and
\* of waitSettlements, and no request has to end.
FlushGoesOn ==
  /\ tracker \in {"empty", "timeout"} /\ waiter \in {"empty", "timeout"}
  /\ CallFlush \/ FlushStep
  /\ UNCHANGED <<doorVars, exitVars>>
Exit == Draining \/ WaitSettlements \/ SettlementsWaited \/ FlushGoesOn \/ ClosePools

SpecAll == InitAll /\ [][NextAll]_allVars

-----------------------------------------------------------------------------
(* Properties *)

Admitted == {e \in Entries : where[e] \in {"inside", "left"}}

\* drainAndShutdown returns nil.
CleanExit == /\ poolsClosed
             /\ waiter = "empty" /\ tracker = "empty" /\ flushResult = "ok"

\* A process that reports a clean exit has taken no request with it: each request it
\* admitted has settled, and its row is final unless its own synchronous write failed.
\* And however the exit goes, the pools close when no goroutine of the queue can still
\* write.
CleanExitLosesNothing ==
  /\ CleanExit => \A e \in Admitted :
       RowOf[e] \in final \/ (caller[e] = "returned" /\ Failed(e))
  /\ poolsClosed => worker = "exited" /\ channel = <<>> /\ batch = <<>>

\* What the exit sequence needs for its next step, as WorkerCanGoOn says it of the worker: the
\* mutex is free, and the deadline of Drain, but not that of Flush, comes.
DrainCanGoOn == waiter = "check" \/ (waiter = "asleep" /\ (expired => watcher = "armed"))
FlushCanGoOn ==
  CASE flush = "wait"    -> flushIdle \in closedIdle
    [] flush = "joining" -> worker = "exited"
    [] OTHER             -> ~poolsClosed
ExitCanGoOn == IF waiter \in {"empty", "timeout"} THEN tracker \in {"idle", "waiting"} \/ FlushCanGoOn
               ELSE DrainCanGoOn

\* Once the signal came, the exit sequence or the worker it waits for can always go on,
\* even if every handler and every stream hangs.
ExitNeverStuck ==
  /\ draining /\ ~poolsClosed => WorkerCanGoOn \/ ExitCanGoOn
  /\ (WorkerCanGoOn => ENABLED QueueWorker) /\ (ExitCanGoOn => ENABLED Exit)

\* The exit sequence neither sleeps through the last handler's leaving nor stops.
NobodyWaitsInVain == NoLostWakeup /\ ExitNeverStuck
=============================================================================
