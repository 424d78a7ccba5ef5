------------------------------ MODULE StreamGate ------------------------------
(* The gate of a streamed response (gate/gate.go and gate/progress.go) and what becomes of
   the bytes it held back (forward/stream.go).  Reader reserves its worst case of the
   shared budget, reads the source and decides at the first content, or, with the ladder
   of rates, at a checkpoint after it.  Checkpoints and timeouts wake the gate while a
   read of the source is under way: there is one such read at a time, in a goroutine of
   its own, and it survives the wake-up, and the commit too.

   A chunk is its number in the source, has the size one and completes one frame or
   none ("part"); the frame is chosen when the read returns, and the frame that the parser
   still holds when the end of the source is read.  "error" stands for an error frame and a malformed one, and
   "complete" for the terminal frames of Responses that count as an answer.  Echoed
   requests, which stretch the byte limit, are left out.  Clocks count ticks and stop
   where they no longer matter; timers may fire late. *)
EXTENDS PrefixBudget

CONSTANTS
  Reader,       \* the gate modelled here; the others use the budget at will
  Cap,          \* PrebufferByteCap
  EventCap,     \* PrebufferEventCap
  WorstCase,    \* what a gate reserves, several times Cap
  ContentBytes, \* the payload of a content frame
  IdleTimeout,
  Probes,       \* the values of ProbeAfterFirstByte, 0 is off
  Rates,        \* the values of PrecommitRate, 0 is off
  Stages,       \* the checkpoints of the ladder
  MaxChunks

ASSUME GateAssumption ==
  /\ Reader \in Gates
  /\ {Cap, EventCap, ContentBytes, IdleTimeout, MaxChunks} \subseteq Nat \ {0}
  /\ WorstCase \in Demands
  /\ Probes \cup Rates \subseteq Nat
  /\ Stages \in Seq([elapsed : Nat \ {0}, multiplier : Nat \ {0}])

VARIABLES
  gate,        \* where Run and the stream after it are
  probe, rate, \* the options of this gate
  taken,       \* chunks that were read from the source
  flight,      \* the read under way: none, reading, or what it brought
  kept,        \* the chunks held back
  frames, payload,
  rung,        \* the next checkpoint of the ladder
  sinceFirst,  \* ticks since the first byte, or Never
  sinceStart,  \* ticks since the first content, or Never
  timer,       \* what ends the wait for the read, and when
  done,        \* ReaderDone
  handed,      \* the read under way was handed over (Continuation)
  client       \* the chunks the client got

readVars == <<taken, flight>>
clockVars == <<sinceFirst, sinceStart>>
ladderVars == <<payload, rung>>
resultVars == <<done, handed, client>>
gateVars == <<gate, probe, rate, readVars, kept, frames, ladderVars, clockVars, timer, resultVars>>
streamVars == <<budgetVars, gateVars>>

Never == -1
NoTimer == [left |-> Never, why |-> "none"]
Frames == {"neutral", "content", "terminal", "complete", "error"}
Chunks == Frames \cup {"part"}
Ends == {"eof", "broken"}
Horizon == Stages[Len(Stages)].elapsed + 1

GateInit ==
  /\ BudgetInit
  /\ gate = "idle"
  /\ probe \in Probes /\ rate \in Rates
  /\ taken = 0 /\ flight = "none"
  /\ kept = <<>> /\ frames = 0 /\ payload = 0 /\ rung = 1
  /\ sinceFirst = Never /\ sinceStart = Never
  /\ timer = NoTimer
  /\ done = FALSE /\ handed = FALSE /\ client = <<>>

Begun == sinceStart # Never
Exceeds(chunks) == Len(chunks) > Cap

-------------------------------------------------------------------------------
(* The verdict *)

GateFail ==
  /\ gate' = "failing"
  /\ kept' = <<>>
  /\ UNCHANGED resultVars

\* The read under way goes to the caller with the chunks held back.
\* (Mutated: it is left behind.)
CommitAlone(readerDone) ==
  /\ gate' = "committing"
  /\ done' = readerDone
  /\ UNCHANGED <<handed, client>>
GateCommit(readerDone) ==
  /\ gate' = "committing"
  /\ done' = readerDone
  /\ handed' = (~readerDone /\ flight' # "none")
  /\ UNCHANGED client

CommitOrOverflow(chunks) ==
  IF Exceeds(chunks) THEN GateFail ELSE GateCommit(FALSE) /\ kept' = chunks

\* Ladder.Evaluate: at a checkpoint the rate decides, and the last one is the last.
Evaluate(bytes, since) ==
  IF since = Never THEN "continue"
  ELSE IF rung > Len(Stages) THEN "slow"
  ELSE IF since < Stages[rung].elapsed THEN "continue"
  ELSE IF bytes > rate * Stages[rung].multiplier * since THEN "commit"
  ELSE IF rung = Len(Stages) THEN "slow" ELSE "next"

\* The decision of the top of the loop, which does not wait for a chunk.
\* (Mutated: the rate is only looked at when a chunk arrives.)
NoDecision == "continue"
TopDecision == Evaluate(payload, sinceStart)

-------------------------------------------------------------------------------
(* Run *)

ReserveWorstCase ==
  /\ gate = "idle"
  /\ ReserveAtOnce(Reader, WorstCase) \/ Enqueue(Reader, WorstCase)
  /\ gate' = "reserving"
  /\ UNCHANGED <<probe, rate, readVars, kept, frames, ladderVars, clockVars, timer, resultVars>>

Reserved ==
  /\ gate = "reserving"
  /\ \/ stage[Reader] = "holding" /\ gate' = "top"
     \/ stage[Reader] = "out" /\ gate' = "failed"
  /\ UNCHANGED <<budgetVars, probe, rate, readVars, kept, frames, ladderVars, clockVars, timer,
                 resultVars>>

\* The top of the loop: the ladder decides, or the gate waits for the read under way, at
\* most until the nearest of the idle timeout, the probe and the next checkpoint.
IdleTimer == [left |-> IdleTimeout, why |-> "idle"]
ProbeTimer == [left |-> IF probe > sinceFirst THEN probe - sinceFirst ELSE 0, why |-> "probe"]
ReadTimer ==
  IF probe = 0 \/ sinceFirst = Never \/ IdleTimeout < ProbeTimer.left
  THEN IdleTimer ELSE ProbeTimer
LadderTimer(next) ==
  [left |-> IF Stages[next].elapsed > sinceStart THEN Stages[next].elapsed - sinceStart ELSE 0,
   why |-> "ladder"]
Nearest(next) ==
  IF Begun /\ next <= Len(Stages) /\ LadderTimer(next).left < ReadTimer.left
  THEN LadderTimer(next) ELSE ReadTimer

\* pendingRead.take: one read at a time.
PendingRead == IF flight = "none" THEN "reading" ELSE flight

Decide ==
  /\ gate = "top" /\ TopDecision \in {"commit", "slow"}
  /\ UNCHANGED <<budgetVars, probe, rate, readVars, frames, ladderVars, clockVars, timer>>
  /\ IF TopDecision = "commit" THEN GateCommit(FALSE) /\ UNCHANGED kept ELSE GateFail

Take ==
  /\ gate = "top" /\ TopDecision \in {"continue", "next"}
  /\ rung' = IF TopDecision = "next" THEN rung + 1 ELSE rung
  /\ timer' = Nearest(rung')
  /\ flight' = PendingRead
  /\ gate' = "read"
  /\ UNCHANGED <<budgetVars, probe, rate, taken, kept, frames, payload, clockVars, resultVars>>

\* The goroutine of the read under way.
ReadReturns ==
  /\ flight = "reading"
  /\ \/ taken < MaxChunks /\ taken' = taken + 1 /\ flight' \in Chunks
     \/ UNCHANGED taken /\ flight' \in Ends
  /\ UNCHANGED <<budgetVars, gate, probe, rate, kept, frames, ladderVars, clockVars, timer,
                 resultVars>>

TimerFires ==
  /\ gate = "read" /\ timer.left = 0
  /\ timer' = NoTimer
  /\ UNCHANGED <<budgetVars, probe, rate, readVars, frames, ladderVars, clockVars>>
  /\ IF timer.why = "ladder" THEN gate' = "top" /\ UNCHANGED <<kept, resultVars>> ELSE GateFail

ContextEnds ==
  /\ gate = "read"
  /\ timer' = NoTimer
  /\ UNCHANGED <<budgetVars, probe, rate, readVars, frames, ladderVars, clockVars>>
  /\ GateFail

KeepReading(chunks) == gate' = "top" /\ kept' = chunks /\ UNCHANGED resultVars

\* The first content, or the first content with the ladder on, starts the clock.
TakeContent(chunks) ==
  IF rate = 0
  THEN UNCHANGED <<ladderVars, sinceStart>> /\ CommitOrOverflow(chunks)
  ELSE LET since == IF Begun THEN sinceStart ELSE 0
           verdict == Evaluate(payload + ContentBytes, since)
       IN /\ sinceStart' = since
          /\ payload' = payload + ContentBytes
          /\ rung' = IF ~Exceeds(chunks) /\ verdict = "next" THEN rung + 1 ELSE rung
          /\ \/ /\ Exceeds(chunks) \/ verdict = "commit"
                /\ GateCommit(FALSE) /\ kept' = chunks
             \/ ~Exceeds(chunks) /\ verdict = "slow" /\ GateFail
             \/ ~Exceeds(chunks) /\ verdict \in {"next", "continue"} /\ KeepReading(chunks)

TakeFrame(frame, chunks) ==
  \/ frame = "content" /\ TakeContent(chunks)
  \/ /\ frame # "content"
     /\ UNCHANGED <<ladderVars, sinceStart>>
     /\ \/ frame = "error" /\ GateFail
        \/ frame = "terminal" /\ ~Begun /\ GateFail
        \/ frame = "complete" /\ CommitOrOverflow(chunks)
        \/ frame = "terminal" /\ Begun /\ CommitOrOverflow(chunks)
        \/ /\ frame \in {"neutral", "part"}
           /\ IF Exceeds(chunks) \/ (frame = "neutral" /\ frames' > EventCap)
              THEN GateFail ELSE KeepReading(chunks)

TakeChunk ==
  /\ gate = "read" /\ flight \in Chunks
  /\ flight' = "none"
  /\ timer' = NoTimer
  /\ sinceFirst' = IF sinceFirst = Never THEN 0 ELSE sinceFirst
  /\ frames' = IF flight = "part" THEN frames ELSE frames + 1
  /\ TakeFrame(flight, Append(kept, taken))
  /\ UNCHANGED <<budgetVars, probe, rate, taken>>

\* The end of the source: the frame the parser still holds, if any, is the last.
TakeEnd ==
  /\ gate = "read" /\ flight \in Ends
  /\ flight' = "none"
  /\ timer' = NoTimer
  /\ \E last \in Frames \cup {"nothing"} :
       IF \/ flight = "broken"
          \/ last = "error"
          \/ last = "neutral" /\ frames + 1 > EventCap
          \/ last \notin {"content", "complete"} /\ ~Begun
       THEN GateFail
       ELSE GateCommit(TRUE) /\ UNCHANGED kept
  /\ UNCHANGED <<budgetVars, probe, rate, taken, frames, ladderVars, clockVars>>

\* The lease shrinks to what is kept when the gate commits, and is returned when it fails.
\* The locals of Run are gone.
RunIsOver ==
  /\ frames' = 0 /\ payload' = 0 /\ rung' = 1
  /\ sinceFirst' = Never /\ sinceStart' = Never
  /\ UNCHANGED <<probe, rate, readVars, kept, timer, resultVars>>

HandOver ==
  /\ gate = "committing" /\ ShrinkTo(Reader, Len(kept))
  /\ gate' = "committed"
  /\ RunIsOver

GateReturns ==
  /\ gate = "failing" /\ Release(Reader)
  /\ gate' = "failed"
  /\ RunIsOver

Up(n, most) == IF n = Never \/ n = most THEN n ELSE n + 1

Tick ==
  /\ gate \in {"top", "read"}
  /\ sinceFirst' = Up(sinceFirst, probe)
  /\ sinceStart' = Up(sinceStart, Horizon)
  /\ timer' = [timer EXCEPT !.left = IF @ > 0 THEN @ - 1 ELSE @]
  /\ UNCHANGED <<budgetVars, gate, probe, rate, readVars, kept, frames, ladderVars, resultVars>>

-------------------------------------------------------------------------------
(* The stream that was handed over: first what was kept, then the read under way, then the
   source. *)

ReadPrefix ==
  /\ gate = "committed" /\ kept # <<>>
  /\ client' = Append(client, Head(kept))
  /\ kept' = Tail(kept)
  /\ UNCHANGED <<budgetVars, gate, probe, rate, readVars, frames, ladderVars, clockVars, timer,
                 done, handed>>

PrefixDone ==
  /\ gate = "committed" /\ kept = <<>> /\ Release(Reader)
  /\ gate' = "streaming"
  /\ UNCHANGED <<probe, rate, readVars, kept, frames, ladderVars, clockVars, timer, resultVars>>

ReadOn ==
  /\ gate = "streaming"
  /\ UNCHANGED <<budgetVars, probe, rate, kept, frames, ladderVars, clockVars, timer, done,
                 handed>>
  /\ \/ done /\ gate' = "ended" /\ UNCHANGED <<taken, flight, client>>
     \/ /\ ~done /\ handed /\ flight \in Chunks \cup Ends
        /\ flight' = "none"
        /\ UNCHANGED taken
        /\ IF flight \in Ends THEN gate' = "ended" /\ UNCHANGED client
                             ELSE client' = Append(client, taken) /\ UNCHANGED gate
     \/ /\ ~done /\ ~(handed /\ flight # "none")
        /\ UNCHANGED flight
        /\ \/ /\ taken < MaxChunks /\ taken' = taken + 1
              /\ client' = Append(client, taken') /\ UNCHANGED gate
           \/ gate' = "ended" /\ UNCHANGED <<taken, client>>

\* The stream ends with the prefix unread, or after it: the client left (ClientCancel), or
\* the pump failed.  awaitTerminal returns what is left of the lease.
EndStream ==
  /\ gate' = "closed"
  /\ kept' = <<>>
  /\ UNCHANGED <<probe, rate, readVars, frames, ladderVars, clockVars, timer, resultVars>>
  /\ \/ gate = "committed" /\ Release(Reader)
     \/ gate = "streaming" /\ UNCHANGED budgetVars

\* Stream.Close alone, after a panic of the handler: closed is set, so that ClientCancel
\* returns at once, the pump does not end and nobody returns the lease.  The same for a stream that
\* no handler ever took over, and for a client that neither reads nor leaves.
CloseStream ==
  /\ gate = "committed" /\ Keep(Reader)
  /\ gate' = "closed"
  /\ kept' = <<>>
  /\ UNCHANGED <<probe, rate, readVars, frames, ladderVars, clockVars, timer, resultVars>>

GateStep == Reserved \/ Decide \/ Take \/ TimerFires \/ TakeChunk \/ TakeEnd
LeaseStep == HandOver \/ GateReturns \/ PrefixDone

OtherGate(g) == Reserve(g) \/ Shrink(g) \/ Release(g) \/ Keep(g)

GateNext ==
  \/ ReserveWorstCase \/ GateStep \/ LeaseStep \/ ReadReturns \/ ContextEnds \/ Tick
  \/ ReadPrefix \/ ReadOn \/ EndStream \/ CloseStream
  \/ /\ \/ Drain
        \/ \E g \in Gates : Waits(g)
        \/ \E g \in Gates \ {Reader} : OtherGate(g)
     /\ UNCHANGED gateVars
GateSpec == GateInit /\ [][GateNext]_streamVars

-------------------------------------------------------------------------------
(* Properties *)

\* The source in order: what the client got, what is kept for it, and what the read under
\* way brought, when somebody still waits for it.
InHand ==
  client \o kept
    \o (IF flight \in Chunks /\ (gate \in {"top", "read"} \/ handed)
        THEN <<taken>> ELSE <<>>)

\* The client gets the bytes of the source, all of them and in order, whenever the gate
\* woke up while a read was under way and whatever that read brought after the gate had
\* committed (pendingRead, Result.Continuation, Stream.readPrefix).
BytesKept ==
  gate \in {"top", "read", "committing", "committed", "streaming", "ended"} =>
    InHand = [i \in 1..taken |-> i]

\* Once there was content the gate decides, also when the source then goes silent: the
\* checkpoints do not wait for a chunk, and their wake-ups end.
ContentIsDecided == Begun ~> gate \notin {"top", "read"}
===============================================================================
