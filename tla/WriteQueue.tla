------------------------------ MODULE WriteQueue ------------------------------
(* The asynchronous write queue of terminal rows (src/go/internal/terminal/batch.go).
   Request goroutines deliver settlements, one worker goroutine batches and writes
   them, stream goroutines wait for their own row, and the shutdown sequence flushes
   and then stops the queue before the connection pools close.  One mutex guards the
   registers of the queue, and closing channels releases whoever waits. *)
EXTENDS Naturals, Sequences, FiniteSets, SequencesExt

CONSTANTS
  Entries,         \* the settlements delivered, each by a goroutine of its own
  Rows,            \* the rows of message_request they finish
  RowOf,           \* the row of every settlement
  Streams,         \* the settlements of streams, whose goroutine waits for the row
  Capacity,        \* MaxPending
  BatchSize,
  TombstoneLimit,  \* finishedTombstoneLimit
  WriteFaults,     \* what the database may do wrong: "failed", "lost", "gap"
  None

ASSUME QueueConstants ==
  /\ RowOf \in [Entries -> Rows] /\ IsFiniteSet(Entries) /\ Streams \subseteq Entries
  /\ Capacity \in Nat \ {0} /\ BatchSize \in Nat \ {0} /\ TombstoneLimit \in Nat \ {0}
  /\ WriteFaults \subseteq {"failed", "lost", "gap"}
  /\ None \notin Entries \cup {"row", "notSettled", "failed", "gap"}

VARIABLES
  caller,          \* what became of each delivery: new, accepted, sync, returned
  channel,         \* the buffered channel of entries
  nudge,           \* a token lies in the nudge channel
  stopped, stop,   \* the flag under mu, and whether the stop channel is closed
  pending,         \* entries accepted and not yet unregistered
  idle,            \* the number of the current idle channel: a new one per 0 -> 1
  closedIdle,      \* the idle channels closed so far
  inflight,        \* per row, the entry registered last
  finished,        \* the rows with a tombstone, oldest first (finishedOrder)
  forgotten,       \* history: the rows whose tombstone gave way to a newer one
  worker,          \* where the worker is
  leaving,         \* it took the stop branch of its select
  batch,           \* the entries in its hand
  done,            \* the entries whose done channel is closed
  outcome,         \* what the write of an entry returned
  failures,        \* pendingFailures
  final,           \* the rows that have a terminal state in the database
  effects,         \* the entries whose after-commit effects were released
  await,           \* what AwaitSettlement of each entry's row returned so far
  awaited,         \* the entry whose done channel it waits on
  flush,           \* where the shutdown sequence is
  flushIdle,       \* the idle channel it waits on
  flushResult,
  covered          \* the entries accepted before it called Flush

tombVars == <<finished, forgotten>>
regVars == <<channel, stopped, pending, idle, closedIdle, inflight, tombVars>>
workVars == <<worker, leaving, batch, done>>
dbVars == <<outcome, failures, final, effects>>
awaitVars == <<await, awaited>>
flushVars == <<flush, flushIdle, flushResult, covered>>
vars == <<caller, nudge, stop, regVars, workVars, dbVars, awaitVars, flushVars>>

Init ==
  /\ caller = [e \in Entries |-> "new"]
  /\ channel = <<>> /\ nudge = FALSE /\ stopped = FALSE /\ stop = FALSE
  /\ pending = 0 /\ idle = 0 /\ closedIdle = {0}
  /\ inflight = [r \in Rows |-> None] /\ finished = <<>> /\ forgotten = {}
  /\ worker = "select" /\ leaving = FALSE /\ batch = <<>> /\ done = {}
  /\ outcome = [e \in Entries |-> None] /\ failures = 0 /\ final = {} /\ effects = {}
  /\ await = [e \in Entries |-> "none"] /\ awaited = [e \in Entries |-> None]
  /\ flush = "serving" /\ flushIdle = 0 /\ flushResult = "none" /\ covered = {}

Failed(e) == outcome[e] \in {"failed", "gap"}

-----------------------------------------------------------------------------
(* Delivery *)

\* addPendingLocked.
AddPending(e) ==
  /\ idle' = IF pending = 0 THEN idle + 1 ELSE idle
  /\ pending' = pending + 1
  /\ inflight' = [inflight EXCEPT ![RowOf[e]] = e]

\* enqueue: refused entries go back to the caller, who writes them itself.
Enqueue(e) ==
  /\ caller[e] = "new"
  /\ IF stopped \/ Len(channel) >= Capacity
     THEN caller' = [caller EXCEPT ![e] = "sync"] /\ UNCHANGED <<channel, pending, idle, inflight>>
     ELSE /\ AddPending(e)
          /\ channel' = Append(channel, e)
          /\ caller' = [caller EXCEPT ![e] = "accepted"]
  /\ UNCHANGED <<nudge, stop, stopped, closedIdle, tombVars, workVars, dbVars, awaitVars, flushVars>>

\* What settleNow may return for a row and what it leaves in the database: the row
\* won, the row already final, an error before it, or an error on the cost after it.
Results == {"row", "notSettled"} \cup (IF "gap" \in WriteFaults THEN {"gap"} ELSE {})
             \cup (IF WriteFaults \cap {"failed", "lost"} = {} THEN {} ELSE {"failed"})

\* After a lost reply the row is final although settleNow reports a failure, or finds
\* on its next attempt that somebody, itself, has closed the row.
WriteRow(e, result) ==
  LET with == final \cup {RowOf[e]}
      lost == "lost" \in WriteFaults
  IN  /\ result \in {"row", "gap"} => RowOf[e] \notin final
      /\ result = "notSettled" => RowOf[e] \in final \/ lost
      /\ final' \in (IF result # "failed" THEN {with} ELSE IF lost THEN {final, with} ELSE {final})
      /\ outcome' = [outcome EXCEPT ![e] = result]

\* Result.Committed of each outcome: a cost error comes after the commit.
Committed(result) == result \in {"row", "gap"}

\* The synchronous path of settle and SettleContext, for a refused entry.
SyncWrite(e) ==
  /\ caller[e] = "sync"
  /\ \E result \in Results :
       /\ WriteRow(e, result)
       /\ effects' = IF Committed(result) THEN effects \cup {e} ELSE effects
  /\ caller' = [caller EXCEPT ![e] = "returned"]
  /\ UNCHANGED <<nudge, stop, regVars, workVars, failures, awaitVars, flushVars>>

-----------------------------------------------------------------------------
(* The worker *)

\* run: one entry, and a full batch is written.
Receive ==
  /\ worker = "select" /\ channel # <<>>
  /\ batch' = Append(batch, Head(channel)) /\ channel' = Tail(channel)
  /\ worker' = IF Len(batch) + 1 >= BatchSize THEN "drain" ELSE "select"
  /\ UNCHANGED <<caller, nudge, stop, stopped, pending, idle, closedIdle, inflight, tombVars,
                 leaving, done, dbVars, awaitVars, flushVars>>

\* The flush interval passes; with nothing collected it changes nothing.
Tick ==
  /\ worker = "select" /\ (batch # <<>> \/ channel # <<>>)
  /\ worker' = "drain"
  /\ UNCHANGED <<caller, nudge, stop, regVars, leaving, batch, done, dbVars, awaitVars, flushVars>>

TakeNudge ==
  /\ worker = "select" /\ nudge
  /\ nudge' = FALSE /\ worker' = "drain"
  /\ UNCHANGED <<caller, stop, regVars, leaving, batch, done, dbVars, awaitVars, flushVars>>

TakeStop ==
  /\ worker = "select" /\ stop
  /\ leaving' = TRUE /\ worker' = "drain"
  /\ UNCHANGED <<caller, nudge, stop, regVars, batch, done, dbVars, awaitVars, flushVars>>

\* Where the worker goes with nothing left in its hand.
Resume == IF leaving THEN "exited" ELSE "select"

\* drainInto takes one entry at a time, without mu, until the channel is empty.
Drain ==
  /\ worker = "drain"
  /\ IF channel # <<>>
     THEN /\ batch' = Append(batch, Head(channel)) /\ channel' = Tail(channel)
          /\ UNCHANGED worker
     ELSE /\ worker' = IF batch # <<>> THEN "write" ELSE Resume
          /\ UNCHANGED <<batch, channel>>
  /\ UNCHANGED <<caller, nudge, stop, stopped, pending, idle, closedIdle, inflight, tombVars,
                 leaving, done, dbVars, awaitVars, flushVars>>

\* process: the write itself.
Write ==
  /\ worker = "write"
  /\ \E result \in Results : WriteRow(Head(batch), result)
  /\ worker' = "account"
  /\ UNCHANGED <<caller, nudge, stop, regVars, leaving, batch, done, failures, effects,
                 awaitVars, flushVars>>

AccountAndWake ==   \* those who wait are told before the effects are out
  /\ worker = "account"
  /\ failures' = IF Failed(Head(batch)) THEN failures + 1 ELSE failures
  /\ worker' = "wake"
  /\ UNCHANGED <<caller, nudge, stop, regVars, leaving, batch, done, outcome, final, effects,
                 awaitVars, flushVars>>

\* process: a failure is counted before the entry leaves the queue.
Account ==
  /\ worker = "account"
  /\ failures' = IF Failed(Head(batch)) THEN failures + 1 ELSE failures
  /\ worker' = "effects"
  /\ UNCHANGED <<caller, nudge, stop, regVars, leaving, batch, done, outcome, final, effects,
                 awaitVars, flushVars>>

\* process: afterCommit.
ReleaseEffects ==
  /\ worker = "effects"
  /\ effects' = IF Committed(outcome[Head(batch)]) THEN effects \cup {Head(batch)} ELSE effects
  /\ worker' = "wake"
  /\ UNCHANGED <<caller, nudge, stop, regVars, leaving, batch, done, outcome, failures, final,
                 awaitVars, flushVars>>

\* finishEntry before it has mu: whoever waits for this entry may go on.
WakeWaiters ==
  /\ worker = "wake"
  /\ done' = done \cup {Head(batch)}
  /\ worker' = "unregister"
  /\ UNCHANGED <<caller, nudge, stop, regVars, leaving, batch, dbVars, awaitVars, flushVars>>

\* rememberFailureLocked: a row keeps its place, and the oldest one is forgotten.
RememberFailure(r) ==
  LET all == IF r \in ToSet(finished) THEN finished ELSE Append(finished, r)
  IN  IF Len(all) > TombstoneLimit
      THEN finished' = Tail(all) /\ forgotten' = forgotten \cup {Head(all)}
      ELSE finished' = all /\ UNCHANGED forgotten

UnregisterForgetting ==   \* no tombstone: a late waiter cannot learn of the failure
  /\ worker = "unregister"
  /\ inflight' = [inflight EXCEPT ![RowOf[Head(batch)]] = None]
  /\ UNCHANGED tombVars
  /\ pending' = pending - 1
  /\ closedIdle' = IF pending' = 0 THEN closedIdle \cup {idle} ELSE closedIdle
  /\ batch' = Tail(batch) /\ worker' = IF Len(batch) > 1 THEN "write" ELSE Resume
  /\ UNCHANGED <<caller, nudge, stop, channel, stopped, idle, leaving, done, dbVars, awaitVars, flushVars>>

UnregisterQuietly ==   \* the idle channel is never closed again
  /\ worker = "unregister"
  /\ pending' = pending - 1
  /\ batch' = Tail(batch) /\ worker' = IF Len(batch) > 1 THEN "write" ELSE Resume
  /\ UNCHANGED <<caller, nudge, stop, channel, stopped, idle, closedIdle, inflight, tombVars,
                 leaving, done, dbVars, awaitVars, flushVars>>

\* finishEntry under mu.
Unregister ==
  /\ worker = "unregister"
  /\ LET e == Head(batch)
         mine == inflight[RowOf[e]] = e
     IN  /\ inflight' = IF mine THEN [inflight EXCEPT ![RowOf[e]] = None] ELSE inflight
         /\ IF mine /\ Failed(e) THEN RememberFailure(RowOf[e]) ELSE UNCHANGED tombVars
  /\ pending' = pending - 1
  /\ closedIdle' = IF pending' = 0 THEN closedIdle \cup {idle} ELSE closedIdle
  /\ batch' = Tail(batch)
  /\ worker' = IF Len(batch) > 1 THEN "write" ELSE Resume
  /\ UNCHANGED <<caller, nudge, stop, channel, stopped, idle, leaving, done, dbVars, awaitVars, flushVars>>

-----------------------------------------------------------------------------
(* AwaitSettlement, called by the stream of an entry once it was delivered *)

\* The registration, or without one the tombstone, decides.
AwaitLookup(e) ==
  /\ caller[e] \in {"accepted", "returned"} /\ await[e] = "none"
  /\ LET r == RowOf[e] IN
       IF inflight[r] # None
       THEN /\ awaited' = [awaited EXCEPT ![e] = inflight[r]]
            /\ await' = [await EXCEPT ![e] = "waiting"]
       ELSE /\ await' = [await EXCEPT ![e] = IF r \in ToSet(finished) THEN "failed" ELSE "nil"]
            /\ UNCHANGED awaited
  /\ UNCHANGED <<caller, nudge, stop, regVars, workVars, dbVars, flushVars>>

AwaitReturn(e) ==
  /\ await[e] = "waiting"
  /\ \/ /\ awaited[e] \in done
        /\ await' = [await EXCEPT ![e] = IF Failed(awaited[e]) THEN "failed" ELSE "nil"]
     \/ await' = [await EXCEPT ![e] = "timeout"]
  /\ UNCHANGED <<caller, nudge, stop, awaited, regVars, workVars, dbVars, flushVars>>

-----------------------------------------------------------------------------
(* Flush and then Stop, by the shutdown sequence *)

CallFlush ==
  /\ flush = "serving"
  /\ flush' = "read" /\ covered' = {e \in Entries : caller[e] = "accepted"}
  /\ UNCHANGED <<caller, nudge, stop, flushIdle, flushResult, regVars, workVars, dbVars, awaitVars>>

\* pending and the idle channel are read under mu.
FlushRead ==
  /\ flush = "read"
  /\ flushIdle' = idle
  /\ flush' = IF pending = 0 THEN "collect" ELSE "nudge"
  /\ UNCHANGED <<caller, nudge, stop, flushResult, covered, regVars, workVars, dbVars, awaitVars>>

FlushNudge ==
  /\ flush = "nudge"
  /\ nudge' = TRUE /\ flush' = "wait"
  /\ UNCHANGED <<caller, stop, flushIdle, flushResult, covered, regVars, workVars, dbVars, awaitVars>>

\* The idle channel was closed: look again, for more may have been delivered since.
FlushWait ==
  /\ flush = "wait" /\ flushIdle \in closedIdle
  /\ flush' = "read"
  /\ UNCHANGED <<caller, nudge, stop, flushIdle, flushResult, covered, regVars, workVars, dbVars, awaitVars>>

FlushTimeout ==
  /\ flush = "wait"
  /\ flush' = "flushed" /\ flushResult' = "timeout"
  /\ UNCHANGED <<caller, nudge, stop, flushIdle, covered, regVars, workVars, dbVars, awaitVars>>

\* The queue was empty: the failures counted so far are read and cleared.
FlushCollect ==
  /\ flush = "collect"
  /\ flush' = "flushed" /\ flushResult' = IF failures > 0 THEN "failed" ELSE "ok"
  /\ failures' = 0
  /\ UNCHANGED <<caller, nudge, stop, flushIdle, covered, regVars, workVars, outcome, final,
                 effects, awaitVars>>

\* Stop: first the flag under mu, then the channel, then the worker is joined.
StopAccepting ==
  /\ flush = "flushed"
  /\ stopped' = TRUE /\ flush' = "closing"
  /\ UNCHANGED <<caller, nudge, stop, flushIdle, flushResult, covered, channel, pending, idle,
                 closedIdle, inflight, tombVars, workVars, dbVars, awaitVars>>

CloseStop ==
  /\ flush = "closing"
  /\ stop' = TRUE /\ flush' = "joining"
  /\ UNCHANGED <<caller, nudge, flushIdle, flushResult, covered, regVars, workVars, dbVars, awaitVars>>

Join ==
  /\ flush = "joining" /\ worker = "exited"
  /\ flush' = "joined"
  /\ UNCHANGED <<caller, nudge, stop, flushIdle, flushResult, covered, regVars, workVars, dbVars, awaitVars>>

-----------------------------------------------------------------------------
Deliver == \E e \in Entries : Enqueue(e) \/ SyncWrite(e)
Awaiter == \E e \in Streams : AwaitLookup(e) \/ AwaitReturn(e)
Worker == \/ Receive \/ Tick \/ TakeNudge \/ TakeStop \/ Drain
          \/ Write \/ Account \/ ReleaseEffects \/ WakeWaiters \/ Unregister
FlushStep == \/ FlushRead \/ FlushNudge \/ FlushWait \/ FlushCollect
             \/ StopAccepting \/ CloseStop \/ Join
Shutdown == CallFlush \/ FlushTimeout \/ FlushStep

Next == Deliver \/ Awaiter \/ Worker \/ Shutdown

\* The worker runs, a call of Flush or Stop goes on when it can; when the process is
\* told to end, and whether a flush times out, is nobody's duty.
Fairness ==
  /\ WF_vars(Worker)
  /\ WF_vars(FlushStep)

Spec == Init /\ [][Next]_vars
FairSpec == Spec /\ Fairness

\* Where the worker, and a call of Flush or Stop, have what their next step needs: what
\* Fairness promises begins there.
WorkerCanGoOn ==
  IF worker = "select" THEN batch # <<>> \/ channel # <<>> \/ nudge \/ stop ELSE worker # "exited"

CallCanGoOn ==
  \/ flush \in {"read", "nudge", "collect", "flushed", "closing"}
  \/ flush = "wait" /\ flushIdle \in closedIdle
  \/ flush = "joining" /\ worker = "exited"

QueueCanAct ==
  /\ WorkerCanGoOn => ENABLED <<Worker>>_vars
  /\ CallCanGoOn => ENABLED <<FlushStep>>_vars

-----------------------------------------------------------------------------
(* Properties *)

TypeOK ==
  /\ caller \in [Entries -> {"new", "accepted", "sync", "returned"}]
  /\ channel \in Seq(Entries) /\ Len(channel) <= Capacity
  /\ batch \in Seq(Entries)
  /\ nudge \in BOOLEAN /\ stopped \in BOOLEAN /\ stop \in BOOLEAN /\ leaving \in BOOLEAN
  /\ pending \in Nat /\ idle \in Nat /\ closedIdle \subseteq Nat /\ failures \in Nat
  /\ inflight \in [Rows -> Entries \cup {None}]
  /\ finished \in Seq(Rows) /\ Len(finished) <= TombstoneLimit /\ forgotten \subseteq Rows
  /\ worker \in {"select", "drain", "write", "account", "effects", "wake", "unregister", "exited"}
  /\ done \subseteq Entries /\ effects \subseteq Entries /\ final \subseteq Rows
  /\ outcome \in [Entries -> {None, "row", "notSettled", "failed", "gap"}]
  /\ await \in [Entries -> {"none", "waiting", "nil", "failed", "timeout"}]
  /\ awaited \in [Entries -> Entries \cup {None}]
  /\ flush \in {"serving", "read", "nudge", "wait", "collect", "flushed", "closing",
                "joining", "joined"}
  /\ flushIdle \in Nat /\ flushResult \in {"none", "ok", "failed", "timeout"}
  /\ covered \subseteq Entries

\* batch.go enqueue: no entry is registered and then left behind by a worker that has
\* gone.  Once Stop returned, whatever was accepted has been written or has failed.
NothingStranded ==
  flush = "joined" => \A e \in Entries :
    caller[e] = "accepted" => outcome[e] # None /\ e \in done

\* Flush returns nil only if every settlement accepted before the call is in the
\* database: none is still queued and no failure of one was swallowed.
FlushTellsTheTruth ==
  flushResult = "ok" => \A e \in covered : e \in done /\ ~Failed(e)

\* AwaitSettlement returns nil for a delivery that was queued only if its row has a
\* terminal state, also when the caller looks after the entry has left the queue, unless so
\* many other rows failed since that its tombstone is gone.
AwaitTellsTheTruth ==
  \A e \in Entries :
    caller[e] = "accepted" /\ await[e] = "nil" => RowOf[e] \in final \cup forgotten

\* Side effects that others see come after the commit, from its one winner.
EffectsFromTheWinner ==
  /\ \A e \in effects : RowOf[e] \in final
  /\ \A e1, e2 \in effects : RowOf[e1] = RowOf[e2] => e1 = e2

\* What Stop, Flush and AwaitSettlement say when they return is true, and nobody announces
\* what is not.
QueueKeepsItsWord ==
  NothingStranded /\ FlushTellsTheTruth /\ AwaitTellsTheTruth /\ EffectsFromTheWinner

\* Every accepted settlement reaches the database or fails, with nobody flushing.
AcceptedIsWritten == \A e \in Entries : caller[e] = "accepted" ~> e \in done

\* Flush and Stop always return, however requests keep delivering meanwhile.
ShutdownReturns == flush = "read" ~> flush = "joined"

\* The worker leaves nobody behind, neither a settlement nor the process that exits.
QueueGoesOn == AcceptedIsWritten /\ ShutdownReturns

\* What the queue holds, oldest first: the worker's hand and the channel.
Line == batch \o channel

Promised == INSTANCE SettlementLine WITH line <- Line, fate <- outcome, told <- done

\* batch.go process: the queue is one line (SettlementLine), in two pieces that the worker
\* moves about.  No entry overtakes another, is written twice or joins after its caller
\* wrote it; terminal state, effects and the release of the waiters keep their order.
QueueIsALine == Promised!LineSpec
=============================================================================
