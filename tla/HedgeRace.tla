------------------------------ MODULE HedgeRace ------------------------------
(***************************************************************************)
(* The streaming race of internal/forward/hedge.go: one call of            *)
(* ForwardStreamHedge, the goroutines it starts (one runAttempt for each   *)
(* launched provider), the timer goroutines that ask for another provider  *)
(* when the first byte is late, and the goroutine that waits for the       *)
(* result.  One action is one critical section of race.mu, or one step     *)
(* between two of them.  A provider is launched at most once, so the       *)
(* provider also names its attempt.                                        *)
(***************************************************************************)
EXTENDS Integers, Sequences, FiniteSets

CONSTANTS
  Providers,        \* the candidates Select can return
  First,            \* the candidate ForwardStreamHedge is called with
  MaxInFlight,      \* cfg.MaxInFlight
  Billable,         \* billable(): losers are drained and billed
  Faults,           \* the ways in which this environment can fail
  ClientMayCancel,  \* the request context may be cancelled
  None

FaultKinds == {"stateful", "provider", "system", "terminal", "dialTimeout", "select"}

ASSUME HedgeAssumption ==
  /\ First \in Providers
  /\ MaxInFlight \in Nat \ {0}
  /\ Billable \in BOOLEAN
  /\ Faults \subseteq FaultKinds
  /\ ClientMayCancel \in BOOLEAN
  /\ None \notin Providers

VARIABLES
  launched, active, winner, settled, noMore, lastFailure, stateful, \* hedgeRace
  launching, pending,       \* hedgeRace.launching, launchPending
  attempts,                 \* keys of hedgeRace.attempts
  outcomes, recorded,       \* the chain, by attempt; attempt.outcomeRecorded
  late,                     \* history: who failed at its upstream after the verdict
  cancelled,                \* attempts whose cancel() was called
  resultCh, mu,             \* channel of capacity 1; who holds mu while it waits to send
  pc,                       \* runAttempt, by provider
  lpc, lex, lnext,          \* launchAlternative: place, excluded, candidate
  ctxDone, mpc, out         \* the caller: context, place, result

raceVars   == <<launched, active, winner, settled, noMore, lastFailure, stateful>>
chainVars  == <<outcomes, recorded, late>>
windowVars == <<launching, pending, lpc, lex, lnext>>
chanVars   == <<resultCh, mu>>
mainVars   == <<ctxDone, mpc, out>>
vars == <<raceVars, chainVars, windowVars, chanVars, mainVars, attempts, cancelled, pc>>

\* A request to launch comes from a failed attempt or from an attempt's timer.
Launchers == {"attempt", "timer"} \X Providers
Reasons == {"launched", "failed", "aborted", "winner", "success",
            "loser_cancelled", "loser_billed"}
Free == mu = None
OpenUntilWon == winner = None  \* forgets settled
Open == winner = None /\ ~settled
Admits == Open /\ active < MaxInFlight
AttemptOf(p) == <<"attempt", p>>
TimerOf(p) == <<"timer", p>>
NoChain == [p \in Providers |-> <<>>]
Result(kind, who, chain) == [kind |-> kind, who |-> who, chain |-> chain]

Init ==
  /\ launched = {First} /\ active = 1
  /\ winner = None /\ settled = FALSE /\ noMore = FALSE
  /\ lastFailure = "none" /\ stateful = FALSE
  /\ launching = FALSE /\ pending = FALSE
  /\ attempts = {} /\ cancelled = {}
  /\ outcomes = NoChain /\ recorded = {} /\ late = {}
  /\ resultCh = <<>> /\ mu = None
  /\ pc = [p \in Providers |-> IF p = First THEN "launched" ELSE "idle"]
  /\ lpc = [l \in Launchers |-> "idle"]
  /\ lex = [l \in Launchers |-> {}]
  /\ lnext = [l \in Launchers |-> None]
  /\ ctxDone = FALSE /\ mpc = "wait" /\ out = Result("none", None, NoChain)

-----------------------------------------------------------------------------
(* Helpers that run with mu held. *)

Append1(chain, p, reason) == [chain EXCEPT ![p] = Append(@, reason)]

LoserReason == IF Billable THEN "loser_billed" ELSE "loser_cancelled"

LosersAndWinner(p) == IF Billable THEN {} ELSE attempts  \* the winner too
LosersToCancel(p) == IF Billable THEN {} ELSE attempts \ {p}

\* Forgets the unlock after the send.
SendAndKeep(p, result) == resultCh' = Append(resultCh, result) /\ mu' = p

\* A send with mu held: with the buffer full the sender waits and keeps mu.
SendLocked(p, result) ==
  IF Len(resultCh) < 1
  THEN resultCh' = Append(resultCh, result) /\ mu' = None
  ELSE resultCh' = resultCh /\ mu' = p

\* Forgets outcomeRecorded.
MarkAll(p) ==
  /\ outcomes' = [q \in Providers |-> IF q \in attempts \ {p} THEN Append(outcomes[q], LoserReason)
                                                             ELSE outcomes[q]]
  /\ recorded' = recorded \cup attempts

\* markLoserOutcomeLocked for every other attempt that is registered.
MarkLosers(p) ==
  LET losers == (attempts \ {p}) \ recorded IN
  /\ outcomes' = [q \in Providers |-> IF q \in losers THEN Append(outcomes[q], LoserReason)
                                                      ELSE outcomes[q]]
  /\ recorded' = recorded \cup losers

\* The first chain entry of the attempt decides; only a placeholder is rewritten.
CorrectPlaceholder(p, kind) ==
  IF kind = "provider" /\ outcomes[p] # <<>> /\ Head(outcomes[p]) = "loser_cancelled"
  THEN [outcomes EXCEPT ![p] = <<"failed">> \o Tail(@)]
  ELSE outcomes

\* The result of a race that ran out of candidates.
ExhaustedResult ==
  CASE lastFailure # "none" -> Result("failed", None, outcomes)
    [] lastFailure = "none" /\ stateful -> Result("stateful", None, outcomes)
    [] OTHER -> Result("nil", None, NoChain)

MaybeFinish(newActive) ==
  IF Open /\ newActive <= 0 /\ noMore
  THEN settled' = TRUE /\ resultCh' = Append(resultCh, ExhaustedResult)
  ELSE UNCHANGED <<settled, resultCh>>

-----------------------------------------------------------------------------
(* runAttempt *)

Register(p) ==
  /\ pc[p] = "launched" /\ Free
  /\ attempts' = attempts \cup {p}
  /\ pc' = [pc EXCEPT ![p] = "planning"]
  /\ UNCHANGED <<raceVars, chainVars, windowVars, chanVars, mainVars, cancelled>>

\* BuildPlan succeeds and the first-byte timer is armed.
Dispatch(p) ==
  /\ pc[p] = "planning"
  /\ pc' = [pc EXCEPT ![p] = "flying"]
  /\ lpc' = [lpc EXCEPT ![TimerOf(p)] = "armed"]
  /\ UNCHANGED <<raceVars, chainVars, chanVars, mainVars, attempts, cancelled,
                 launching, pending, lex, lnext>>

\* skipUnservableStateful: the candidate cannot carry a stateful field.
SkipStateful(p) ==
  /\ "stateful" \in Faults /\ pc[p] = "planning" /\ Free
  /\ recorded' = recorded \cup {p}
  /\ active' = active - 1
  /\ pc' = [pc EXCEPT ![p] = "done"]
  /\ IF winner # None
     THEN UNCHANGED <<stateful, lpc>>
     ELSE /\ stateful' = TRUE
          /\ lpc' = [lpc EXCEPT ![AttemptOf(p)] = "enter"]
  /\ UNCHANGED <<launched, winner, settled, noMore, lastFailure, outcomes, late, chanVars,
                 mainVars, attempts, cancelled, launching, pending, lex, lnext>>

\* The categories a failure of this attempt can have now: its context or the
\* dial's is cancelled, or the upstream, the transport or this process fails.
FailureKinds(p) ==
  (Faults \cap (IF pc[p] = "planning" THEN {"system"} ELSE {"provider", "system", "terminal"}))
    \cup (IF pc[p] = "flying" /\ (p \in cancelled \/ ctxDone \/ "dialTimeout" \in Faults)
          THEN {"abort"} ELSE {})

FailureReason(kind) == IF kind = "abort" THEN "aborted" ELSE "failed"

\* finishAttemptFailed when a winner is committed: account for it, nothing else.
FailLate(p, kind) ==
  /\ winner # None
  /\ active' = active - 1
  /\ IF p \in recorded
     THEN outcomes' = CorrectPlaceholder(p, kind) /\ UNCHANGED recorded
     ELSE /\ outcomes' = Append1(outcomes, p, IF kind = "abort" THEN "loser_cancelled" ELSE "failed")
          /\ recorded' = recorded \cup {p}
  /\ late' = IF kind = "provider" THEN late \cup {p} ELSE late
  /\ pc' = [pc EXCEPT ![p] = "done"]
  /\ UNCHANGED <<launched, winner, settled, noMore, lastFailure, stateful, windowVars,
                 chanVars, mainVars, attempts, cancelled>>

\* finishAttemptFailed for a category that ends the whole race.
FailRace(p, kind) ==
  /\ winner = None /\ kind \in {"abort", "terminal"}
  /\ settled' = TRUE /\ lastFailure' = kind
  /\ recorded' = recorded \cup {p}
  /\ outcomes' = Append1(outcomes, p, FailureReason(kind))
  /\ cancelled' = cancelled \cup attempts
  /\ SendLocked(p, Result(kind, p, NoChain))
  /\ pc' = [pc EXCEPT ![p] = IF Len(resultCh) < 1 THEN "done" ELSE "sending"]
  /\ UNCHANGED <<launched, active, winner, noMore, stateful, late, windowVars, mainVars, attempts>>

\* finishAttemptFailed for any other category: make room and ask for a successor.
FailOver(p, kind) ==
  /\ winner = None /\ kind \notin {"abort", "terminal"}
  /\ lastFailure' = kind
  /\ recorded' = recorded \cup {p}
  /\ outcomes' = Append1(outcomes, p, FailureReason(kind))
  /\ active' = active - 1
  /\ pc' = [pc EXCEPT ![p] = "done"]
  /\ lpc' = [lpc EXCEPT ![AttemptOf(p)] = "enter"]
  /\ UNCHANGED <<launched, winner, settled, noMore, stateful, late, launching, pending, lex,
                 lnext, chanVars, mainVars, attempts, cancelled>>

Fail(p) ==
  /\ pc[p] \in {"planning", "flying"} /\ Free
  /\ \E kind \in FailureKinds(p) : FailLate(p, kind) \/ FailRace(p, kind) \/ FailOver(p, kind)

\* The blocked send of FailRace goes through and mu is released.
FinishSend(p) ==
  /\ pc[p] = "sending" /\ Len(resultCh) < 1
  /\ resultCh' = Append(resultCh, Result(lastFailure, p, NoChain))
  /\ mu' = None
  /\ pc' = [pc EXCEPT ![p] = "done"]
  /\ UNCHANGED <<raceVars, chainVars, windowVars, mainVars, attempts, cancelled>>

\* reportContent: the first attempt with valid content wins, any other loses.
ReportContent(p) ==
  /\ pc[p] = "flying" /\ Free
  /\ IF Open
     THEN /\ winner' = p
          /\ MarkLosers(p)
          /\ cancelled' = cancelled \cup LosersToCancel(p)
          /\ pc' = [pc EXCEPT ![p] = "commit"]
     ELSE /\ pc' = [pc EXCEPT ![p] = "loser"]
          /\ UNCHANGED <<winner, outcomes, recorded, cancelled>>
  /\ UNCHANGED <<launched, active, settled, noMore, lastFailure, stateful, late, windowVars,
                 chanVars, mainVars, attempts>>

\* The winner's own chain entry, in a critical section of its own.
AppendWinner(p) ==
  /\ pc[p] = "commit" /\ Free
  /\ outcomes' = Append1(outcomes, p, IF Cardinality(launched) > 1 THEN "winner" ELSE "success")
  /\ pc' = [pc EXCEPT ![p] = "deliver"]
  /\ UNCHANGED <<raceVars, recorded, late, windowVars, chanVars, mainVars, attempts, cancelled>>

\* The stream goes to the caller; mu is not held during this send.
Deliver(p) ==
  /\ pc[p] = "deliver" /\ Free /\ Len(resultCh) < 1
  /\ resultCh' = Append(resultCh, Result("stream", p, NoChain))
  /\ pc' = [pc EXCEPT ![p] = "won"]
  /\ UNCHANGED <<raceVars, chainVars, windowVars, mu, mainVars, attempts, cancelled>>

\* A loser closes or drains its body, then records its outcome if nobody did.
RecordLoser(p) ==
  /\ pc[p] = "loser" /\ Free
  /\ outcomes' = IF p \in recorded THEN outcomes ELSE Append1(outcomes, p, LoserReason)
  /\ recorded' = recorded \cup {p}
  /\ pc' = [pc EXCEPT ![p] = "lost"]
  /\ UNCHANGED <<raceVars, late, windowVars, chanVars, mainVars, attempts, cancelled>>

\* decrement() at the end of a winner or of a loser.
Decrement(p) ==
  /\ pc[p] \in {"won", "lost"} /\ Free
  /\ active' = active - 1
  /\ MaybeFinish(active - 1)
  /\ pc' = [pc EXCEPT ![p] = "done"]
  /\ UNCHANGED <<launched, winner, noMore, lastFailure, stateful, chainVars, windowVars, mu,
                 mainVars, attempts, cancelled>>

-----------------------------------------------------------------------------
(* triggerThreshold and launchAlternative *)

Goto(l, place) == lpc' = [lpc EXCEPT ![l] = place]

\* The first byte of p is late.  A stopped timer is one that never gets here.
TriggerThreshold(p) ==
  LET l == TimerOf(p) IN
  /\ lpc[l] = "armed" /\ Free
  /\ IF Admits
     THEN Goto(l, "enter") /\ lex' = [lex EXCEPT ![l] = launched]
     ELSE Goto(l, "idle") /\ UNCHANGED lex
  /\ UNCHANGED <<raceVars, chainVars, chanVars, mainVars, attempts, cancelled, pc,
                 launching, pending, lnext>>

\* Drops the request of a launcher that finds the window taken.
EnterOrGiveUp(l) ==
  /\ lpc[l] = "enter" /\ Free
  /\ IF ~Open \/ noMore \/ launching
     THEN Goto(l, "idle") /\ UNCHANGED <<launching, lex>>
     ELSE /\ launching' = TRUE
          /\ lex' = [lex EXCEPT ![l] = IF @ = {} THEN launched ELSE @]
          /\ Goto(l, "select")
  /\ UNCHANGED <<raceVars, chainVars, chanVars, mainVars, attempts, cancelled, pc, lnext, pending>>

\* launchAlternativeOnce: one launcher at a time, a second one leaves a request.
EnterWindow(l) ==
  /\ lpc[l] = "enter" /\ Free
  /\ IF ~Open \/ noMore
     THEN Goto(l, "idle") /\ UNCHANGED <<launching, pending, lex>>
     ELSE IF launching
     THEN Goto(l, "idle") /\ pending' = TRUE /\ UNCHANGED <<launching, lex>>
     ELSE /\ launching' = TRUE
          /\ lex' = [lex EXCEPT ![l] = IF @ = {} THEN launched ELSE @]
          /\ Goto(l, "select") /\ UNCHANGED pending
  /\ UNCHANGED <<raceVars, chainVars, chanVars, mainVars, attempts, cancelled, pc, lnext>>

\* Select returns a candidate outside the exclusion list, nothing, or an error.
SelectNone(l) ==
  /\ lpc[l] = "select" /\ Free
  /\ noMore' = TRUE
  /\ Goto(l, "exhaust")
  /\ UNCHANGED <<launched, active, winner, settled, lastFailure, stateful, chainVars, chanVars,
                 mainVars, attempts, cancelled, pc, launching, pending, lex, lnext>>

SelectError(l) ==
  /\ "select" \in Faults /\ lpc[l] = "select" /\ Free
  /\ noMore' = TRUE
  /\ lastFailure' = IF lastFailure = "none" THEN "select" ELSE lastFailure
  /\ Goto(l, "exhaust")
  /\ UNCHANGED <<launched, active, winner, settled, stateful, chainVars, chanVars,
                 mainVars, attempts, cancelled, pc, launching, pending, lex, lnext>>

SelectSome(l) ==
  /\ lpc[l] = "select" /\ Free
  /\ \E q \in Providers \ lex[l] :
       IF ~Open THEN Goto(l, "leave") /\ UNCHANGED <<lex, lnext>>
       ELSE IF q \in launched
       THEN lex' = [lex EXCEPT ![l] = @ \cup {q}] /\ UNCHANGED <<lpc, lnext>>
       ELSE lnext' = [lnext EXCEPT ![l] = q] /\ Goto(l, "launch") /\ UNCHANGED lex
  /\ UNCHANGED <<raceVars, chainVars, chanVars, mainVars, attempts, cancelled, pc,
                 launching, pending>>

\* The check at the top of the loop finds the race decided: no selection.
SkipSelect(l) ==
  /\ lpc[l] = "select" /\ Free /\ ~Open
  /\ Goto(l, "leave")
  /\ UNCHANGED <<raceVars, chainVars, chanVars, mainVars, attempts, cancelled, pc,
                 launching, pending, lex, lnext>>

FinishIfExhausted(l) ==
  /\ lpc[l] = "exhaust" /\ Free
  /\ MaybeFinish(active)
  /\ Goto(l, "leave")
  /\ UNCHANGED <<launched, active, winner, noMore, lastFailure, stateful, chainVars, mu,
                 mainVars, attempts, cancelled, pc, launching, pending, lex, lnext>>

LaunchAttempt(l) ==
  LET q == lnext[l] IN
  /\ lpc[l] = "launch" /\ Free
  /\ IF Admits
     THEN /\ launched' = launched \cup {q}
          /\ active' = active + 1
          /\ outcomes' = Append1(outcomes, q, "launched")
          /\ pc' = [pc EXCEPT ![q] = "launched"]
     ELSE UNCHANGED <<launched, active, outcomes, pc>>
  /\ lnext' = [lnext EXCEPT ![l] = None]
  /\ Goto(l, "leave")
  /\ UNCHANGED <<winner, settled, noMore, lastFailure, stateful, recorded, late, chanVars,
                 mainVars, attempts, cancelled, launching, pending, lex>>

\* The deferred release of the window; a request left meanwhile is served now.
LeaveWindow(l) ==
  /\ lpc[l] = "leave" /\ Free
  /\ launching' = FALSE /\ pending' = FALSE
  /\ Goto(l, IF pending THEN "enter" ELSE "idle")
  /\ lex' = [lex EXCEPT ![l] = {}]
  /\ UNCHANGED <<raceVars, chainVars, chanVars, mainVars, attempts, cancelled, pc, lnext>>

-----------------------------------------------------------------------------
(* The caller: the select of ForwardStreamHedge and its finish closure *)

ClientCancel ==
  /\ ClientMayCancel /\ ~ctxDone
  /\ ctxDone' = TRUE
  /\ UNCHANGED <<raceVars, chainVars, windowVars, chanVars, attempts, cancelled, pc, mpc, out>>

MainReceive ==
  /\ mpc = "wait" /\ resultCh # <<>>
  /\ out' = Head(resultCh) /\ resultCh' = Tail(resultCh)
  /\ mpc' = IF Head(resultCh).kind \in {"abort", "terminal"} THEN "explain" ELSE "clear"
  /\ UNCHANGED <<raceVars, chainVars, windowVars, mu, attempts, cancelled, pc, ctxDone>>

MainAbort ==
  /\ mpc = "wait" /\ ctxDone /\ resultCh = <<>>
  /\ out' = Result("abort", None, NoChain)
  /\ mpc' = "explain"
  /\ UNCHANGED <<raceVars, chainVars, windowVars, chanVars, attempts, cancelled, pc, ctxDone>>

\* A bare error gets the chain collected so far (exhaustedResultLocked).
MainExplain ==
  /\ mpc = "explain" /\ Free
  /\ out' = [out EXCEPT !.chain = outcomes]
  /\ mpc' = "clear"
  /\ UNCHANGED <<raceVars, chainVars, windowVars, chanVars, attempts, cancelled, pc, ctxDone>>

\* The table of attempts is dropped and the call returns.
MainReturn ==
  /\ mpc = "clear" /\ Free
  /\ attempts' = {}
  /\ mpc' = "returned"
  /\ UNCHANGED <<raceVars, chainVars, windowVars, chanVars, cancelled, pc, ctxDone, out>>

-----------------------------------------------------------------------------
AttemptStep(p) ==
  \/ Register(p) \/ Dispatch(p) \/ SkipStateful(p) \/ Fail(p) \/ FinishSend(p)
  \/ ReportContent(p) \/ AppendWinner(p) \/ Deliver(p) \/ RecordLoser(p) \/ Decrement(p)

LauncherStep(l) ==
  \/ EnterWindow(l) \/ SelectNone(l) \/ SelectError(l) \/ SelectSome(l) \/ SkipSelect(l)
  \/ FinishIfExhausted(l) \/ LaunchAttempt(l) \/ LeaveWindow(l)

MainStep == MainReceive \/ MainAbort \/ MainExplain \/ MainReturn

Next ==
  \/ \E p \in Providers : AttemptStep(p) \/ TriggerThreshold(p)
  \/ \E l \in Launchers : LauncherStep(l)
  \/ ClientCancel \/ MainStep

Spec == Init /\ [][Next]_vars

\* The scheduler runs every goroutine; dial, gate and drain timeouts end every
\* wait for the upstream.  Timers and clients owe nothing.
AttemptRuns(p) == WF_vars(AttemptStep(p))
LauncherRuns(l) == WF_vars(LauncherStep(l))
CallerRuns == WF_vars(MainStep)

Fairness ==
  /\ \A p \in Providers : AttemptRuns(p)
  /\ \A l \in Launchers : LauncherRuns(l)
  /\ CallerRuns

FairSpec == Spec /\ Fairness

\* Where an attempt and the caller have something to do, and wait neither for mu nor for room
\* in the channel: what AttemptRuns and CallerRuns promise begins there.
AttemptCanGoOn(p) ==
  /\ pc[p] \notin {"idle", "done"}
  /\ pc[p] \in {"planning", "sending"} \/ Free
  /\ pc[p] \in {"sending", "deliver"} => resultCh = <<>>

CallerCanGoOn ==
  IF mpc = "wait" THEN resultCh # <<>> ELSE mpc # "returned" /\ Free

AttemptCanAct(p) == AttemptCanGoOn(p) => ENABLED <<AttemptStep(p)>>_vars
CallerCanAct == CallerCanGoOn => ENABLED <<MainStep>>_vars
RaceCanAct == (\A p \in Providers : AttemptCanAct(p)) /\ CallerCanAct

-----------------------------------------------------------------------------
(* Properties *)

Places == {"idle", "launched", "planning", "flying", "sending", "commit", "deliver",
           "won", "loser", "lost", "done"}
LauncherPlaces == {"idle", "armed", "enter", "select", "exhaust", "launch", "leave"}
Chains == [Providers -> Seq(Reasons)]
FailureNames == {"none", "provider", "system", "terminal", "abort", "select"}
Results == [kind : {"stream", "failed", "stateful", "nil"} \cup FailureNames,
            who : Providers \cup {None}, chain : Chains]

RaceTypes ==
  /\ launched \subseteq Providers /\ active \in Int
  /\ winner \in Providers \cup {None}
  /\ settled \in BOOLEAN /\ noMore \in BOOLEAN /\ stateful \in BOOLEAN
  /\ lastFailure \in FailureNames
  /\ attempts \subseteq Providers /\ recorded \subseteq Providers
  /\ cancelled \subseteq Providers /\ late \subseteq Providers
  /\ outcomes \in Chains /\ pc \in [Providers -> Places]

WindowTypes ==
  /\ launching \in BOOLEAN /\ pending \in BOOLEAN
  /\ lpc \in [Launchers -> LauncherPlaces]
  /\ lex \in [Launchers -> SUBSET Providers]
  /\ lnext \in [Launchers -> Providers \cup {None}]
  /\ \A l \in Launchers : lpc[l] = "launch" => lnext[l] # None

CallerTypes ==
  /\ resultCh \in Seq(Results) /\ mu \in Providers \cup {None}
  /\ ctxDone \in BOOLEAN /\ mpc \in {"wait", "explain", "clear", "returned"}
  /\ out \in Results

\* Every variable stays in its range, and a launcher inside the window has the
\* candidate it is about to launch.
TypeOK == RaceTypes /\ WindowTypes /\ CallerTypes

Given == IF winner # None THEN "won" ELSE IF settled THEN "lost" ELSE "open"
Told == IF mpc = "wait" THEN "nothing" ELSE IF out.kind = "stream" THEN "stream"
        ELSE IF out.kind = "abort" /\ out.who = None THEN "abort" ELSE "failure"

Race == INSTANCE Verdict WITH
  Candidates <- Providers, Nobody <- None,
  verdict <- Given, victor <- winner, left <- ctxDone,
  answer <- Told, source <- IF out.kind = "stream" THEN out.who ELSE None

\* The race gives one verdict and never takes it back, however winning, failing, running
\* out and settling interleave, and the caller is answered once, by what was decided.
OneAnswer == Race!VerdictSpec

\* A race is won or lost, never both, however the verdicts of reportContent,
\* finishAttemptFailed and maybeFinishLocked interleave; and the only stream
\* that reaches the caller is the winner's.
OneVerdict ==
  /\ ~(winner # None /\ settled)
  /\ \A i \in 1..Len(resultCh) : resultCh[i].kind = "stream" => resultCh[i].who = winner
  /\ out.kind = "stream" => out.who = winner

\* The race itself never cuts the stream it hands over: the context of the
\* winner is not among the cancelled ones (detachWinnerContext).
WinnerNotCancelled == winner \notin cancelled

InFlight == {p \in Providers :
               pc[p] \in {"launched", "planning", "flying", "commit", "deliver", "won", "loser", "lost"}}

\* active never undercounts the running attempts and MaxInFlight bounds it,
\* although the check in triggerThreshold and the launch are far apart.
ConcurrencyBound == Cardinality(InFlight) <= active /\ active <= MaxInFlight

\* At most one conclusion for each attempt in provider_chain, whoever of the winner,
\* the attempt itself and the loser's drain records it first; and the failure that the
\* first attempt observed at its upstream is that conclusion, even when the verdict
\* already marked the attempt as a cancelled loser.
OneConclusion ==
  /\ \A p \in Providers :
       Cardinality({i \in 1..Len(outcomes[p]) : outcomes[p][i] # "launched"}) <= 1
  /\ First \in late /\ ~Billable =>
       \E i \in 1..Len(outcomes[First]) : outcomes[First][i] = "failed"

InWindow(l) == lpc[l] \in {"select", "exhaust", "launch", "leave"}

\* The hand-over in launchAlternative loses no request: an undecided race with
\* nothing in flight and candidates left has somebody about to select.
NotStranded ==
  Open /\ active = 0 /\ ~noMore => \E l \in Launchers : InWindow(l) \/ lpc[l] = "enter"

\* The window hands the slots out: never more than there are, and never to nobody.
LaunchWindowWorks == ConcurrencyBound /\ NotStranded

\* When the race is given up because the candidates ran out, it names a reason, and
\* the chain in the result is complete: nothing is recorded after the caller settled
\* it.  The result with neither a stream nor an error is never sent.
ExhaustedChainComplete ==
  mpc # "wait" /\ out.kind \notin {"stream", "abort", "terminal"} =>
    out.kind # "nil" /\ out.chain = outcomes

\* What the provider_chain says of the attempts is complete, and said once.
ChainTellsAll == OneConclusion /\ ExhaustedChainComplete

\* A winner whose caller has returned without its stream is one whose client left:
\* exhaustion, a failure that ends the race and a late result never orphan a stream,
\* which nobody would close.
OrphansOnlyOfClients ==
  mpc = "returned" /\ winner # None /\ out.kind # "stream" => ctxDone

\* A decided race reaches its caller and leaves no goroutine behind, unless the client
\* goes away (what happens then is CancelReturns), as long as two attempts at most are in
\* flight: with three the last one to fail can find the channel full and its reader gone.
AttemptsEnd ==
  (winner # None \/ settled) ~>
    (ctxDone \/ (mpc = "returned" /\ \A p \in Providers : pc[p] \in {"idle", "done"}))

(* What comments say, and the code does not do: see README. *)

\* hedge.go: a failed attempt starts a successor or, with none left, ends the race.
RaceReturns == <>(mpc = "returned")

\* errors.go: a race that ends as the client's abort is one whose client went away.
AbortMeansClient == out.kind = "abort" => ctxDone

\* The caller returns when its client goes away.
CancelReturns == ctxDone ~> mpc = "returned"
=============================================================================
