--------------------------- MODULE Response_proofs ---------------------------
(***************************************************************************)
(* Where a response comes from.  The streaming race (HedgeRace), for any   *)
(* set of candidates, any MaxInFlight and any faults: types, the unique    *)
(* verdict and the winner's context, the window that hands the slots out,  *)
(* the chain, and what the caller is told.  The replay of an earlier       *)
(* response (Replay), for any requests, length, queue and faults.          *)
(***************************************************************************)
EXTENDS HedgeRace, Replay, SequenceTheorems, FiniteSetTheorems, TLAPS

\* Appending a known reason, or correcting a placeholder, keeps a chain a chain.
LEMMA Append1Type ==
  ASSUME NEW chain \in Chains, NEW p \in Providers, NEW r \in Reasons
  PROVE  Append1(chain, p, r) \in Chains
  BY DEF Append1, Chains

LEMMA CorrectType ==
  ASSUME outcomes \in Chains, NEW p \in Providers, NEW kind
  PROVE  CorrectPlaceholder(p, kind) \in Chains
<1>1. outcomes[p] \in Seq(Reasons)
  BY DEF Chains
<1>2. outcomes[p] # <<>> => Tail(outcomes[p]) \in Seq(Reasons)
  BY <1>1
<1>3. <<"failed">> \in Seq(Reasons)
  BY DEF Reasons
<1>4. outcomes[p] # <<>> => <<"failed">> \o Tail(outcomes[p]) \in Seq(Reasons)
  BY <1>2, <1>3
<1> QED
  BY <1>4 DEF CorrectPlaceholder, Chains

LEMMA LoserReasonType == LoserReason \in Reasons
  BY DEF LoserReason, Reasons

LEMMA MarkLosersType ==
  ASSUME RaceTypes, NEW p \in Providers, MarkLosers(p)
  PROVE  outcomes' \in Chains /\ recorded' \subseteq Providers
<1> DEFINE losers == (attempts \ {p}) \ recorded
<1>1. \A q \in Providers : Append(outcomes[q], LoserReason) \in Seq(Reasons)
  BY LoserReasonType DEF RaceTypes, Chains
<1>2. outcomes' = [q \in Providers |-> IF q \in losers THEN Append(outcomes[q], LoserReason)
                                                       ELSE outcomes[q]]
  BY DEF MarkLosers
<1>3. outcomes' \in Chains
  BY <1>1, <1>2 DEF RaceTypes, Chains
<1> QED
  BY <1>3 DEF MarkLosers, RaceTypes

\* Results are well formed, the one of an exhausted race included.
LEMMA ResultType ==
  ASSUME NEW kind \in {"stream", "failed", "stateful", "nil"} \cup FailureNames,
         NEW who \in Providers \cup {None}, NEW chain \in Chains
  PROVE  Result(kind, who, chain) \in Results
  BY DEF Result, Results

LEMMA NoChainType == NoChain \in Chains
  BY DEF NoChain, Chains

LEMMA ExhaustedType ==
  ASSUME outcomes \in Chains
  PROVE  ExhaustedResult \in Results
<1>1. /\ Result("failed", None, outcomes) \in Results
      /\ Result("stateful", None, outcomes) \in Results
      /\ Result("nil", None, NoChain) \in Results
  BY ResultType, NoChainType
<1>2. \/ lastFailure # "none"
      \/ lastFailure = "none" /\ stateful
      \/ ~(lastFailure # "none") /\ ~(lastFailure = "none" /\ stateful)
  OBVIOUS
<1> QED
  BY <1>1, <1>2 DEF ExhaustedResult

LEMMA MaybeFinishType ==
  ASSUME TypeOK, NEW n \in Int, MaybeFinish(n)
  PROVE  settled' \in BOOLEAN /\ resultCh' \in Seq(Results)
<1>1. ExhaustedResult \in Results
  BY ExhaustedType DEF TypeOK, RaceTypes
<1>2. Append(resultCh, ExhaustedResult) \in Seq(Results)
  BY <1>1 DEF TypeOK, CallerTypes
<1> QED
  BY <1>2 DEF MaybeFinish, TypeOK, RaceTypes, CallerTypes

LEMMA SendLockedType ==
  ASSUME CallerTypes, NEW p \in Providers, NEW r \in Results, SendLocked(p, r)
  PROVE  resultCh' \in Seq(Results) /\ mu' \in Providers \cup {None}
  BY DEF SendLocked, CallerTypes

LEMMA TypeInit == Init => TypeOK
<1> SUFFICES ASSUME Init PROVE TypeOK
  OBVIOUS
<1>1. RaceTypes
  <2>1. pc \in [Providers -> Places]
    BY DEF Init, Places
  <2>2. lastFailure \in FailureNames
    BY DEF Init, FailureNames
  <2>3. outcomes \in Chains
    BY NoChainType DEF Init
  <2>4. launched \subseteq Providers /\ winner \in Providers \cup {None}
    BY HedgeAssumption DEF Init
  <2>5. settled \in BOOLEAN /\ noMore \in BOOLEAN /\ stateful \in BOOLEAN
    BY Zenon DEF Init
  <2>7. active \in Int
    BY DEF Init
  <2>6. /\ attempts \subseteq Providers /\ recorded \subseteq Providers
        /\ cancelled \subseteq Providers /\ late \subseteq Providers
    BY DEF Init
  <2> QED BY <2>1, <2>2, <2>3, <2>4, <2>5, <2>6, <2>7 DEF RaceTypes
<1>2. WindowTypes
  BY DEF Init, WindowTypes, LauncherPlaces
<1>3. CallerTypes
  <2>1. Result("none", None, NoChain) \in Results
    BY ResultType, NoChainType DEF FailureNames
  <2>2. out \in Results
    BY <2>1 DEF Init
  <2>3. resultCh \in Seq(Results) /\ mu \in Providers \cup {None}
    BY DEF Init
  <2>4. ctxDone \in BOOLEAN /\ mpc \in {"wait", "explain", "clear", "returned"}
    BY DEF Init
  <2> QED BY <2>2, <2>3, <2>4 DEF CallerTypes
<1> QED
  BY <1>1, <1>2, <1>3 DEF TypeOK

\* A step of one attempt keeps the types.
LEMMA AttemptType ==
  ASSUME TypeOK, NEW p \in Providers, AttemptStep(p)
  PROVE  TypeOK'
<1> USE DEF raceVars, chainVars, windowVars, chanVars, mainVars, TypeOK
<1>1. CASE Register(p)
  BY <1>1 DEF Register, RaceTypes, WindowTypes, CallerTypes, Places
<1>2. CASE Dispatch(p)
  <2>1. RaceTypes'
    BY <1>2 DEF Dispatch, RaceTypes, Places
  <2>2. WindowTypes'
    BY <1>2 DEF Dispatch, WindowTypes, LauncherPlaces
  <2> QED BY <1>2, <2>1, <2>2 DEF Dispatch, CallerTypes
<1>3. CASE SkipStateful(p)
  <2>1. stateful' \in BOOLEAN
    BY <1>3 DEF SkipStateful, RaceTypes
  <2>3. RaceTypes'
    BY <1>3, <2>1 DEF SkipStateful, RaceTypes, Places
  <2>2. WindowTypes'
    BY <1>3 DEF SkipStateful, WindowTypes, LauncherPlaces
  <2> QED BY <1>3, <2>3, <2>2 DEF SkipStateful, CallerTypes
<1>4. CASE Fail(p)
  <2>1. PICK kind \in FailureKinds(p) : FailLate(p, kind) \/ FailRace(p, kind) \/ FailOver(p, kind)
    BY <1>4 DEF Fail
  <2>2. kind \in FailureNames
    BY DEF FailureKinds, FailureNames
  <2>3. CASE FailLate(p, kind)
    <3>1. outcomes' \in Chains
      <4>1. CorrectPlaceholder(p, kind) \in Chains
        BY CorrectType DEF RaceTypes
      <4>2. Append1(outcomes, p, IF kind = "abort" THEN "loser_cancelled" ELSE "failed") \in Chains
        BY Append1Type DEF RaceTypes, Reasons
      <4> QED BY <4>1, <4>2, <2>3 DEF FailLate
    <3> QED BY <3>1, <2>3 DEF FailLate, RaceTypes, WindowTypes, CallerTypes, Places
  <2>4. CASE FailRace(p, kind)
    <3>1. outcomes' \in Chains
      BY <2>4, Append1Type DEF FailRace, FailureReason, RaceTypes, Reasons
    <3>2. resultCh' \in Seq(Results) /\ mu' \in Providers \cup {None}
      BY <2>2, <2>4, ResultType, NoChainType, SendLockedType DEF FailRace
    <3> QED BY <3>1, <3>2, <2>2, <2>4 DEF FailRace, RaceTypes, WindowTypes, CallerTypes, Places
  <2>5. CASE FailOver(p, kind)
    <3>1. outcomes' \in Chains
      BY <2>5, Append1Type DEF FailOver, FailureReason, RaceTypes, Reasons
    <3>2. RaceTypes'
      BY <3>1, <2>2, <2>5 DEF FailOver, RaceTypes, Places
    <3>3. WindowTypes'
      BY <2>5 DEF FailOver, WindowTypes, LauncherPlaces
    <3> QED BY <3>2, <3>3, <2>5 DEF FailOver, CallerTypes
  <2> QED BY <2>1, <2>3, <2>4, <2>5
<1>5. CASE FinishSend(p)
  <2>1. Result(lastFailure, p, NoChain) \in Results
    BY ResultType, NoChainType DEF RaceTypes
  <2>2. CallerTypes'
    BY <1>5, <2>1 DEF FinishSend, CallerTypes
  <2> QED BY <1>5, <2>2 DEF FinishSend, RaceTypes, WindowTypes, Places
<1>6. CASE ReportContent(p)
  <2>1. outcomes' \in Chains /\ recorded' \subseteq Providers
    BY <1>6, MarkLosersType DEF ReportContent, RaceTypes
  <2> QED BY <1>6, <2>1 DEF ReportContent, LosersToCancel, RaceTypes, WindowTypes, CallerTypes, Places
<1>7. CASE AppendWinner(p)
  <2>1. outcomes' \in Chains
    BY <1>7, Append1Type DEF AppendWinner, RaceTypes, Reasons
  <2> QED BY <1>7, <2>1 DEF AppendWinner, RaceTypes, WindowTypes, CallerTypes, Places
<1>8. CASE Deliver(p)
  <2>1. resultCh' \in Seq(Results)
    BY <1>8, ResultType, NoChainType DEF Deliver, CallerTypes
  <2> QED BY <1>8, <2>1 DEF Deliver, RaceTypes, WindowTypes, CallerTypes, Places
<1>9. CASE RecordLoser(p)
  <2>1. outcomes' \in Chains
    BY <1>9, Append1Type, LoserReasonType DEF RecordLoser, RaceTypes
  <2> QED BY <1>9, <2>1 DEF RecordLoser, RaceTypes, WindowTypes, CallerTypes, Places
<1>10. CASE Decrement(p)
  <2>1. settled' \in BOOLEAN /\ resultCh' \in Seq(Results)
    BY <1>10, MaybeFinishType DEF Decrement, RaceTypes
  <2> QED BY <1>10, <2>1 DEF Decrement, RaceTypes, WindowTypes, CallerTypes, Places
<1> QED
  BY <1>1, <1>2, <1>3, <1>4, <1>5, <1>6, <1>7, <1>8, <1>9, <1>10 DEF AttemptStep

\* A step of one launcher keeps the types.
LEMMA LauncherType ==
  ASSUME TypeOK, NEW l \in Launchers, LauncherStep(l)
  PROVE  TypeOK'
<1> USE DEF raceVars, chainVars, windowVars, chanVars, mainVars, TypeOK, Goto
<1>1. CASE EnterWindow(l)
  <2>1. WindowTypes'
    BY <1>1, HedgeAssumption DEF EnterWindow, RaceTypes, WindowTypes, LauncherPlaces
  <2> QED BY <1>1, <2>1 DEF EnterWindow, RaceTypes, CallerTypes
<1>2. CASE SelectNone(l)
  BY <1>2 DEF SelectNone, RaceTypes, WindowTypes, CallerTypes, LauncherPlaces
<1>3. CASE SelectError(l)
  BY <1>3 DEF SelectError, RaceTypes, WindowTypes, CallerTypes, LauncherPlaces, FailureNames
<1>4. CASE SelectSome(l)
  <2>1. PICK q \in Providers \ lex[l] :
          IF ~Open THEN Goto(l, "leave") /\ UNCHANGED <<lex, lnext>>
          ELSE IF q \in launched
          THEN lex' = [lex EXCEPT ![l] = @ \cup {q}] /\ UNCHANGED <<lpc, lnext>>
          ELSE lnext' = [lnext EXCEPT ![l] = q] /\ Goto(l, "launch") /\ UNCHANGED lex
    BY <1>4 DEF SelectSome
  <2>2. WindowTypes'
    <3>1. CASE ~Open
      BY <1>4, <2>1, <3>1 DEF SelectSome, WindowTypes, LauncherPlaces
    <3>2. CASE Open /\ q \in launched
      BY <1>4, <2>1, <3>2 DEF SelectSome, WindowTypes, LauncherPlaces
    <3>3. CASE Open /\ q \notin launched
      BY <1>4, <2>1, <3>3, HedgeAssumption DEF SelectSome, WindowTypes, LauncherPlaces
    <3> QED BY <3>1, <3>2, <3>3
  <2> QED BY <1>4, <2>2 DEF SelectSome, RaceTypes, CallerTypes
<1>5. CASE SkipSelect(l)
  BY <1>5 DEF SkipSelect, RaceTypes, WindowTypes, CallerTypes, LauncherPlaces
<1>6. CASE FinishIfExhausted(l)
  <2>1. settled' \in BOOLEAN /\ resultCh' \in Seq(Results)
    BY <1>6, MaybeFinishType DEF FinishIfExhausted, RaceTypes
  <2> QED BY <1>6, <2>1 DEF FinishIfExhausted, RaceTypes, WindowTypes, CallerTypes, LauncherPlaces
<1>7. CASE LaunchAttempt(l)
  <2>1. lnext[l] \in Providers
    BY <1>7 DEF LaunchAttempt, WindowTypes
  <2>2. Append1(outcomes, lnext[l], "launched") \in Chains
    BY <2>1, Append1Type DEF RaceTypes, Reasons
  <2>3. RaceTypes'
    BY <1>7, <2>1, <2>2 DEF LaunchAttempt, RaceTypes, Places
  <2>4. WindowTypes'
    BY <1>7 DEF LaunchAttempt, WindowTypes, LauncherPlaces
  <2> QED BY <1>7, <2>3, <2>4 DEF LaunchAttempt, CallerTypes
<1>8. CASE LeaveWindow(l)
  BY <1>8 DEF LeaveWindow, RaceTypes, WindowTypes, CallerTypes, LauncherPlaces
<1> QED
  BY <1>1, <1>2, <1>3, <1>4, <1>5, <1>6, <1>7, <1>8 DEF LauncherStep

\* A step of the caller, its client or a timer keeps the types.
LEMMA CallerType ==
  ASSUME TypeOK, MainStep \/ ClientCancel \/ \E p \in Providers : TriggerThreshold(p)
  PROVE  TypeOK'
<1> USE DEF raceVars, chainVars, windowVars, chanVars, mainVars, TypeOK
<1>1. CASE MainReceive
  <2>1. Head(resultCh) \in Results /\ Tail(resultCh) \in Seq(Results)
    BY <1>1 DEF MainReceive, CallerTypes
  <2> QED BY <1>1, <2>1 DEF MainReceive, RaceTypes, WindowTypes, CallerTypes
<1>2. CASE MainAbort
  BY <1>2, ResultType, NoChainType DEF MainAbort, RaceTypes, WindowTypes, CallerTypes, FailureNames
<1>3. CASE MainExplain
  <2>1. out' \in Results
    BY <1>3 DEF MainExplain, RaceTypes, CallerTypes, Results
  <2> QED BY <1>3, <2>1 DEF MainExplain, RaceTypes, WindowTypes, CallerTypes
<1>4. CASE MainReturn
  BY <1>4 DEF MainReturn, RaceTypes, WindowTypes, CallerTypes
<1>5. CASE ClientCancel
  BY <1>5 DEF ClientCancel, RaceTypes, WindowTypes, CallerTypes
<1>6. ASSUME NEW p \in Providers, TriggerThreshold(p) PROVE TypeOK'
  <2>1. WindowTypes'
    BY <1>6 DEF TriggerThreshold, Goto, RaceTypes, WindowTypes, LauncherPlaces
  <2> QED BY <1>6, <2>1 DEF TriggerThreshold, RaceTypes, CallerTypes
<1> QED
  BY <1>1, <1>2, <1>3, <1>4, <1>5, <1>6 DEF MainStep

\* Type correctness for every instance of the race.
THEOREM TypeCorrect == Spec => []TypeOK
<1>1. TypeOK /\ [Next]_vars => TypeOK'
  <2>1. TypeOK /\ Next => TypeOK'
    BY AttemptType, LauncherType, CallerType DEF Next
  <2>2. TypeOK /\ UNCHANGED vars => TypeOK'
    BY DEF TypeOK, RaceTypes, WindowTypes, CallerTypes, vars, raceVars, chainVars, windowVars,
           chanVars, mainVars
  <2> QED BY <2>1, <2>2
<1> QED BY TypeInit, <1>1, PTL DEF Spec

-----------------------------------------------------------------------------
(* The verdict.  OneVerdict and WinnerNotCancelled are not inductive alone:  *)
(* a delivered stream must be known to come from an attempt that committed,  *)
(* and the winner to be chosen while nothing has been cancelled.             *)

WinnersStream == \A i \in 1..Len(resultCh) :
             resultCh[i].kind = "stream" => winner # None /\ resultCh[i].who = winner
Committed == \A p \in Providers : pc[p] \in {"commit", "deliver"} => winner = p

VerdictInv ==
  /\ TypeOK
  /\ ~(winner # None /\ settled)
  /\ Open => cancelled = {}
  /\ winner \notin cancelled
  /\ Committed
  /\ WinnersStream
  /\ out.kind = "stream" => winner # None /\ out.who = winner

\* A stream is appended only by the winner.
LEMMA AppendStream ==
  ASSUME WinnersStream, resultCh \in Seq(Results), NEW r \in Results,
         r.kind = "stream" => winner # None /\ r.who = winner,
         resultCh' = Append(resultCh, r), UNCHANGED winner
  PROVE  WinnersStream'
<1> SUFFICES ASSUME NEW i \in 1..Len(resultCh'), resultCh'[i].kind = "stream"
             PROVE  winner' # None /\ resultCh'[i].who = winner'
  BY DEF WinnersStream
<1>1. CASE i \in 1..Len(resultCh)
  <2>1. resultCh'[i] = resultCh[i]
    BY <1>1
  <2> QED BY <1>1, <2>1 DEF WinnersStream
<1>2. CASE i = Len(resultCh) + 1
  BY <1>2
<1> QED BY <1>1, <1>2

LEMMA ExhaustedIsNoStream == ExhaustedResult.kind # "stream"
<1>1. \/ lastFailure # "none"
      \/ lastFailure = "none" /\ stateful
      \/ ~(lastFailure # "none") /\ ~(lastFailure = "none" /\ stateful)
  OBVIOUS
<1> QED BY <1>1 DEF ExhaustedResult, Result

LEMMA FinishKeepsVerdict ==
  ASSUME VerdictInv, NEW n \in Int, MaybeFinish(n), UNCHANGED <<winner, cancelled>>
  PROVE  /\ ~(winner' # None /\ settled')
         /\ Open' => cancelled' = {}
         /\ WinnersStream'
<1>1. ExhaustedResult \in Results /\ ExhaustedResult.kind # "stream"
  BY ExhaustedType, ExhaustedIsNoStream DEF VerdictInv, TypeOK, RaceTypes
<1>2. CASE Open /\ n <= 0 /\ noMore
  <2>1. settled' = TRUE /\ resultCh' = Append(resultCh, ExhaustedResult)
    BY <1>2 DEF MaybeFinish
  <2>2. WinnersStream'
    BY <1>1, <2>1, AppendStream DEF VerdictInv, TypeOK, CallerTypes
  <2> QED BY <1>2, <2>1, <2>2 DEF Open
<1>3. CASE ~(Open /\ n <= 0 /\ noMore)
  BY <1>3 DEF MaybeFinish, VerdictInv, Open, WinnersStream
<1> QED BY <1>2, <1>3

LEMMA AttemptVerdict ==
  ASSUME VerdictInv, NEW p \in Providers, AttemptStep(p)
  PROVE  VerdictInv'
<1> USE DEF raceVars, chainVars, windowVars, chanVars, mainVars
<1>0. TypeOK /\ TypeOK'
  BY AttemptType DEF VerdictInv
<1>1. CASE Register(p)
  BY <1>0, <1>1 DEF Register, VerdictInv, Open, Committed, WinnersStream, TypeOK, RaceTypes
<1>2. CASE Dispatch(p)
  BY <1>0, <1>2 DEF Dispatch, VerdictInv, Open, Committed, WinnersStream, TypeOK, RaceTypes
<1>3. CASE SkipStateful(p)
  BY <1>0, <1>3 DEF SkipStateful, VerdictInv, Open, Committed, WinnersStream, TypeOK, RaceTypes
<1>4. CASE Fail(p)
  <2>1. PICK kind \in FailureKinds(p) : FailLate(p, kind) \/ FailRace(p, kind) \/ FailOver(p, kind)
    BY <1>4 DEF Fail
  <2>2. pc[p] \notin {"commit", "deliver"}
    BY <1>4 DEF Fail
  <2>3. CASE FailLate(p, kind)
    BY <1>0, <2>2, <2>3 DEF FailLate, VerdictInv, Open, Committed, WinnersStream, TypeOK, RaceTypes
  <2>4. CASE FailRace(p, kind)
    <3>1. winner = None /\ winner' = None /\ settled' = TRUE /\ UNCHANGED mainVars
      BY <2>4 DEF FailRace
    <3>2. cancelled' \subseteq Providers
      BY <1>0 DEF TypeOK, RaceTypes
    <3>3. Committed'
      BY <1>0, <2>2, <2>4, <3>1 DEF FailRace, VerdictInv, Committed, TypeOK, RaceTypes
    <3>4. WinnersStream'
      <4>1. kind \in {"abort", "terminal"} /\ SendLocked(p, Result(kind, p, NoChain))
        BY <2>4 DEF FailRace
      <4>2. Result(kind, p, NoChain) \in Results /\ Result(kind, p, NoChain).kind # "stream"
        BY <4>1, ResultType, NoChainType DEF FailureNames, Result
      <4>3. CASE Len(resultCh) < 1
        BY <1>0, <3>1, <4>1, <4>2, <4>3, AppendStream
        DEF SendLocked, VerdictInv, TypeOK, CallerTypes
      <4>4. CASE ~(Len(resultCh) < 1)
        BY <3>1, <4>1, <4>4 DEF SendLocked, VerdictInv, WinnersStream
      <4> QED BY <4>3, <4>4
    <3> QED BY <1>0, <3>1, <3>2, <3>3, <3>4, HedgeAssumption DEF VerdictInv, Open
  <2>5. CASE FailOver(p, kind)
    BY <1>0, <2>2, <2>5 DEF FailOver, VerdictInv, Open, Committed, WinnersStream, TypeOK, RaceTypes
  <2> QED BY <2>1, <2>3, <2>4, <2>5
<1>5. CASE FinishSend(p)
  <2>1. PICK r \in Results : resultCh' = Append(resultCh, r) /\ r.kind \in FailureNames
    BY <1>0, <1>5, ResultType, NoChainType DEF FinishSend, TypeOK, RaceTypes, Result
  <2>2. r.kind # "stream"
    BY <2>1 DEF FailureNames
  <2>3. WinnersStream'
    BY <1>0, <1>5, <2>1, <2>2, AppendStream DEF FinishSend, VerdictInv, TypeOK, CallerTypes
  <2> QED BY <1>0, <1>5, <2>3 DEF FinishSend, VerdictInv, Open, Committed, TypeOK, RaceTypes
<1>6. CASE ReportContent(p)
  <2>1. CASE Open
    <3>1. winner = None /\ ~settled /\ cancelled = {} /\ winner' = p /\ UNCHANGED <<settled, resultCh, out>>
      BY <1>6, <2>1 DEF ReportContent, VerdictInv, Open
    <3>2. p \notin cancelled'
      BY <1>6, <2>1, <3>1 DEF ReportContent, LosersToCancel
    <3>3. Committed'
      BY <1>0, <1>6, <2>1, <3>1, HedgeAssumption
      DEF ReportContent, VerdictInv, Committed, TypeOK, RaceTypes
    <3>4. WinnersStream'
      BY <3>1 DEF VerdictInv, WinnersStream
    <3> QED BY <1>0, <3>1, <3>2, <3>3, <3>4, HedgeAssumption DEF VerdictInv, Open
  <2>2. CASE ~Open
    BY <1>0, <1>6, <2>2 DEF ReportContent, VerdictInv, Open, Committed, WinnersStream, TypeOK, RaceTypes
  <2> QED BY <2>1, <2>2
<1>7. CASE AppendWinner(p)
  BY <1>0, <1>7 DEF AppendWinner, VerdictInv, Open, Committed, WinnersStream, TypeOK, RaceTypes
<1>8. CASE Deliver(p)
  <2>1. winner = p /\ p # None
    BY <1>8, HedgeAssumption DEF Deliver, VerdictInv, Committed
  <2>2. Result("stream", p, NoChain) \in Results /\ Result("stream", p, NoChain).who = p
    BY ResultType, NoChainType DEF Result
  <2>3. WinnersStream'
    BY <1>0, <1>8, <2>1, <2>2, AppendStream DEF Deliver, VerdictInv, TypeOK, CallerTypes
  <2> QED BY <1>0, <1>8, <2>3 DEF Deliver, VerdictInv, Open, Committed, TypeOK, RaceTypes
<1>9. CASE RecordLoser(p)
  BY <1>0, <1>9 DEF RecordLoser, VerdictInv, Open, Committed, WinnersStream, TypeOK, RaceTypes
<1>10. CASE Decrement(p)
  <2>1. /\ ~(winner' # None /\ settled')
        /\ Open' => cancelled' = {}
        /\ WinnersStream'
    BY <1>0, <1>10, FinishKeepsVerdict DEF Decrement, TypeOK, RaceTypes
  <2> QED BY <1>0, <1>10, <2>1 DEF Decrement, VerdictInv, Committed, TypeOK, RaceTypes
<1> QED
  BY <1>1, <1>2, <1>3, <1>4, <1>5, <1>6, <1>7, <1>8, <1>9, <1>10 DEF AttemptStep

LEMMA LauncherVerdict ==
  ASSUME VerdictInv, NEW l \in Launchers, LauncherStep(l)
  PROVE  VerdictInv'
<1> USE DEF raceVars, chainVars, windowVars, chanVars, mainVars
<1>0. TypeOK /\ TypeOK'
  BY LauncherType DEF VerdictInv
<1>1. CASE EnterWindow(l) \/ SelectNone(l) \/ SelectError(l) \/ SelectSome(l) \/ SkipSelect(l) \/ LeaveWindow(l)
  <2>1. UNCHANGED <<winner, settled, cancelled, pc, resultCh, out>>
    BY <1>1 DEF EnterWindow, SelectNone, SelectError, SelectSome, SkipSelect, LeaveWindow
  <2> QED BY <1>0, <2>1 DEF VerdictInv, Open, Committed, WinnersStream
<1>2. CASE FinishIfExhausted(l)
  <2>1. /\ ~(winner' # None /\ settled')
        /\ Open' => cancelled' = {}
        /\ WinnersStream'
    BY <1>0, <1>2, FinishKeepsVerdict DEF FinishIfExhausted, TypeOK, RaceTypes
  <2> QED BY <1>0, <1>2, <2>1 DEF FinishIfExhausted, VerdictInv, Committed
<1>3. CASE LaunchAttempt(l)
  <2>1. UNCHANGED <<winner, settled, cancelled, resultCh, out>>
    BY <1>3 DEF LaunchAttempt
  <2>2. Committed'
    BY <1>0, <1>3 DEF LaunchAttempt, VerdictInv, Committed, TypeOK, RaceTypes
  <2> QED BY <1>0, <2>1, <2>2 DEF VerdictInv, Open, WinnersStream
<1> QED
  BY <1>1, <1>2, <1>3 DEF LauncherStep

LEMMA CallerVerdict ==
  ASSUME VerdictInv, MainStep \/ ClientCancel \/ \E p \in Providers : TriggerThreshold(p)
  PROVE  VerdictInv'
<1> USE DEF raceVars, chainVars, windowVars, chanVars, mainVars
<1>0. TypeOK /\ TypeOK'
  BY CallerType DEF VerdictInv
<1>1. CASE MainReceive
  <2>1. WinnersStream'
    <3>1. \A i \in 1..Len(Tail(resultCh)) : i + 1 \in 1..Len(resultCh) /\ Tail(resultCh)[i] = resultCh[i + 1]
      BY <1>0, <1>1 DEF MainReceive, TypeOK, CallerTypes
    <3> QED BY <1>1, <3>1 DEF MainReceive, VerdictInv, WinnersStream
  <2>2. out'.kind = "stream" => winner # None /\ out'.who = winner
    <3>1. 1 \in 1..Len(resultCh) /\ Head(resultCh) = resultCh[1]
      BY <1>0, <1>1 DEF MainReceive, TypeOK, CallerTypes
    <3> QED BY <1>1, <3>1 DEF MainReceive, VerdictInv, WinnersStream
  <2> QED BY <1>0, <1>1, <2>1, <2>2 DEF MainReceive, VerdictInv, Open, Committed
<1>2. CASE MainAbort
  BY <1>0, <1>2 DEF MainAbort, VerdictInv, Open, Committed, WinnersStream, Result
<1>3. CASE MainExplain
  <2>1. out'.kind = out.kind /\ out'.who = out.who
    BY <1>0, <1>3 DEF MainExplain, TypeOK, CallerTypes, Results
  <2> QED BY <1>0, <1>3, <2>1 DEF MainExplain, VerdictInv, Open, Committed, WinnersStream
<1>4. CASE MainReturn
  BY <1>0, <1>4 DEF MainReturn, VerdictInv, Open, Committed, WinnersStream
<1>5. CASE ClientCancel
  BY <1>0, <1>5 DEF ClientCancel, VerdictInv, Open, Committed, WinnersStream
<1>6. ASSUME NEW p \in Providers, TriggerThreshold(p) PROVE VerdictInv'
  BY <1>0, <1>6 DEF TriggerThreshold, VerdictInv, Open, Committed, WinnersStream
<1> QED
  BY <1>1, <1>2, <1>3, <1>4, <1>5, <1>6 DEF MainStep

LEMMA VerdictInvariant == Spec => []VerdictInv
<1>1. Init => VerdictInv
  <2> SUFFICES ASSUME Init PROVE VerdictInv
    OBVIOUS
  <2>1. TypeOK
    BY TypeInit
  <2>2. Committed
    BY DEF Init, Committed
  <2>3. WinnersStream
    BY DEF Init, WinnersStream
  <2>4. out.kind # "stream"
    BY DEF Init, Result
  <2> QED BY <2>1, <2>2, <2>3, <2>4 DEF Init, VerdictInv
<1>2. VerdictInv /\ [Next]_vars => VerdictInv'
  <2>1. VerdictInv /\ Next => VerdictInv'
    BY AttemptVerdict, LauncherVerdict, CallerVerdict DEF Next
  <2>2. VerdictInv /\ UNCHANGED vars => VerdictInv'
    BY DEF VerdictInv, Open, Committed, WinnersStream, TypeOK, RaceTypes, WindowTypes, CallerTypes,
           vars, raceVars, chainVars, windowVars, chanVars, mainVars
  <2> QED BY <2>1, <2>2
<1> QED BY <1>1, <1>2, PTL DEF Spec

\* A race is won or lost, never both, and the caller's stream is the winner's,
\* for any number of candidates and slots.
THEOREM VerdictUnique == Spec => []OneVerdict
<1>1. VerdictInv => OneVerdict
  BY DEF VerdictInv, WinnersStream, OneVerdict
<1> QED BY VerdictInvariant, <1>1, PTL

\* The race never cancels the context of the stream it hands over.
THEOREM WinnerSurvives == Spec => []WinnerNotCancelled
<1>1. VerdictInv => WinnerNotCancelled
  BY DEF VerdictInv, WinnerNotCancelled
<1> QED BY VerdictInvariant, <1>1, PTL


-----------------------------------------------------------------------------
(* The launch window.  The slots: whoever is in flight was launched, was     *)
(* counted before it started and is counted until it has left.               *)

Flying == {"launched", "planning", "flying", "commit", "deliver", "won", "loser", "lost"}
Judged == {"commit", "deliver", "won", "loser", "lost", "sending"}

SlotInv ==
  /\ IsFiniteSet(launched) /\ First \in launched
  /\ attempts \subseteq launched /\ recorded \subseteq launched
  /\ \A p \in Providers : pc[p] = "idle" <=> p \notin launched
  /\ \A p \in Providers : pc[p] \in Judged => ~Open
  /\ Cardinality(InFlight) <= active /\ active <= MaxInFlight

LEMMA InFlightIs == InFlight = {p \in Providers : pc[p] \in Flying}
  BY DEF InFlight, Flying
LEMMA InFlightBecomes == InFlight' = {p \in Providers : pc'[p] \in Flying}
  BY DEF InFlight, Flying

LEMMA InFlightFinite ==
  ASSUME TypeOK, SlotInv
  PROVE  IsFiniteSet(InFlight) /\ Cardinality(InFlight) \in Nat /\ active \in Int
<1>1. InFlight \subseteq launched
  BY InFlightIs DEF SlotInv, Flying, TypeOK, RaceTypes
<1> QED BY <1>1, FS_Subset, FS_CardinalityType DEF SlotInv, TypeOK, RaceTypes

\* Nobody enters the air.
LEMMA NobodyNew ==
  ASSUME TypeOK, SlotInv, InFlight' \subseteq InFlight, active' = active
  PROVE  Cardinality(InFlight') <= active' /\ active' <= MaxInFlight
<1>1. Cardinality(InFlight') <= Cardinality(InFlight) /\ Cardinality(InFlight') \in Nat
  BY InFlightFinite, FS_Subset, FS_CardinalityType
<1>2. active \in Int /\ MaxInFlight \in Nat /\ Cardinality(InFlight) \in Nat
  BY InFlightFinite, HedgeAssumption
<1> QED BY <1>1, <1>2 DEF SlotInv

\* One attempt leaves the air and gives its slot back.
LEMMA OneLands ==
  ASSUME TypeOK, SlotInv, NEW p \in InFlight, InFlight' = InFlight \ {p}, active' = active - 1
  PROVE  Cardinality(InFlight') <= active' /\ active' <= MaxInFlight
<1>1. Cardinality(InFlight') = Cardinality(InFlight) - 1
  BY InFlightFinite, FS_RemoveElement
<1>2. active \in Int /\ MaxInFlight \in Nat /\ Cardinality(InFlight) \in Nat
  BY InFlightFinite, HedgeAssumption
<1> QED BY <1>1, <1>2 DEF SlotInv

\* One attempt takes a slot that was free.
LEMMA OneMore ==
  ASSUME TypeOK, SlotInv, NEW p, InFlight' = InFlight \cup {p}, active' = active + 1,
         active < MaxInFlight
  PROVE  Cardinality(InFlight') <= active' /\ active' <= MaxInFlight
<1>1. Cardinality(InFlight') <= Cardinality(InFlight) + 1 /\ Cardinality(InFlight') \in Nat
  <2>1. CASE p \in InFlight
    <3>1. InFlight' = InFlight
      BY <2>1
    <3> QED BY <3>1, InFlightFinite
  <2>2. CASE p \notin InFlight
    BY <2>2, InFlightFinite, FS_AddElement
  <2> QED BY <2>1, <2>2
<1>2. active \in Int /\ MaxInFlight \in Nat /\ Cardinality(InFlight) \in Nat
  BY InFlightFinite, HedgeAssumption
<1> QED BY <1>1, <1>2 DEF SlotInv

\* The steps that move no attempt and no slot.
LEMMA SlotFrame ==
  ASSUME SlotInv, UNCHANGED <<launched, recorded, active, pc>>,
         attempts' \subseteq attempts, Open' => Open
  PROVE  SlotInv'
<1>1. InFlight' = InFlight
  BY InFlightIs, InFlightBecomes
<1> QED BY <1>1 DEF SlotInv

LEMMA AttemptSlots ==
  ASSUME TypeOK, SlotInv, NEW p \in Providers, AttemptStep(p)
  PROVE  SlotInv'
<1> USE DEF raceVars, chainVars, windowVars, chanVars, mainVars
<1>0. TypeOK'
  BY AttemptType
<1>a. pc \in [Providers -> Places] /\ attempts \subseteq launched /\ recorded \subseteq launched
  BY DEF TypeOK, RaceTypes, SlotInv
<1>1. CASE Register(p)
  <2>1. pc' = [pc EXCEPT ![p] = "planning"] /\ pc[p] = "launched" /\ p \in launched
    BY <1>1 DEF Register, SlotInv
  <2>2. InFlight' = InFlight
    BY <1>a, <2>1, InFlightIs, InFlightBecomes DEF Flying
  <2>3. Cardinality(InFlight') <= active' /\ active' <= MaxInFlight
    BY <1>1, <2>2, NobodyNew DEF Register
  <2> QED BY <1>a, <1>1, <2>1, <2>3 DEF Register, SlotInv, Open, Judged
<1>2. CASE Dispatch(p)
  <2>1. pc' = [pc EXCEPT ![p] = "flying"] /\ pc[p] = "planning" /\ p \in launched
    BY <1>2 DEF Dispatch, SlotInv
  <2>2. InFlight' = InFlight
    BY <1>a, <2>1, InFlightIs, InFlightBecomes DEF Flying
  <2>3. Cardinality(InFlight') <= active' /\ active' <= MaxInFlight
    BY <1>2, <2>2, NobodyNew DEF Dispatch
  <2> QED BY <1>a, <1>2, <2>1, <2>3 DEF Dispatch, SlotInv, Open, Judged
<1>3. CASE SkipStateful(p)
  <2>1. pc' = [pc EXCEPT ![p] = "done"] /\ pc[p] = "planning" /\ p \in launched
    BY <1>3 DEF SkipStateful, SlotInv
  <2>2. InFlight' = InFlight \ {p} /\ p \in InFlight
    BY <1>a, <2>1, InFlightIs, InFlightBecomes DEF Flying
  <2>3. Cardinality(InFlight') <= active' /\ active' <= MaxInFlight
    BY <1>3, <2>2, OneLands DEF SkipStateful
  <2> QED BY <1>a, <1>3, <2>1, <2>3 DEF SkipStateful, SlotInv, Open, Judged
<1>4. CASE Fail(p)
  <2>1. PICK kind \in FailureKinds(p) : FailLate(p, kind) \/ FailRace(p, kind) \/ FailOver(p, kind)
    BY <1>4 DEF Fail
  <2>2. pc[p] \in {"planning", "flying"} /\ p \in launched
    BY <1>4 DEF Fail, SlotInv
  <2>3. CASE FailLate(p, kind) \/ FailOver(p, kind)
    <3>1. /\ pc' = [pc EXCEPT ![p] = "done"] /\ active' = active - 1
          /\ UNCHANGED <<launched, attempts, winner, settled>>
      BY <2>3 DEF FailLate, FailOver
    <3>2. InFlight' = InFlight \ {p} /\ p \in InFlight
      BY <1>a, <2>2, <3>1, InFlightIs, InFlightBecomes DEF Flying
    <3>3. Cardinality(InFlight') <= active' /\ active' <= MaxInFlight
      BY <3>1, <3>2, OneLands
    <3>4. recorded' \subseteq launched
      BY <1>a, <2>2, <2>3 DEF FailLate, FailOver
    <3> QED BY <1>a, <2>2, <3>1, <3>3, <3>4 DEF SlotInv, Open, Judged
  <2>4. CASE FailRace(p, kind)
    <3>1. /\ pc' = [pc EXCEPT ![p] = IF Len(resultCh) < 1 THEN "done" ELSE "sending"]
          /\ recorded' = recorded \cup {p} /\ settled' = TRUE
          /\ UNCHANGED <<launched, attempts, active>>
      BY <2>4 DEF FailRace
    <3>2. InFlight' \subseteq InFlight
      BY <1>a, <2>2, <3>1, InFlightIs, InFlightBecomes DEF Flying
    <3>3. Cardinality(InFlight') <= active' /\ active' <= MaxInFlight
      BY <3>1, <3>2, NobodyNew
    <3> QED BY <1>a, <2>2, <3>1, <3>3 DEF SlotInv, Open, Judged
  <2> QED BY <2>1, <2>3, <2>4
<1>5. CASE FinishSend(p)
  <2>1. pc' = [pc EXCEPT ![p] = "done"] /\ pc[p] = "sending" /\ p \in launched
    BY <1>5 DEF FinishSend, SlotInv
  <2>2. InFlight' = InFlight
    BY <1>a, <2>1, InFlightIs, InFlightBecomes DEF Flying
  <2>3. Cardinality(InFlight') <= active' /\ active' <= MaxInFlight
    BY <1>5, <2>2, NobodyNew DEF FinishSend
  <2> QED BY <1>a, <1>5, <2>1, <2>3 DEF FinishSend, SlotInv, Open, Judged
<1>6. CASE ReportContent(p)
  <2>1. /\ pc' \in {[pc EXCEPT ![p] = "commit"], [pc EXCEPT ![p] = "loser"]}
        /\ pc[p] = "flying" /\ p \in launched
    BY <1>6 DEF ReportContent, SlotInv
  <2>2. InFlight' = InFlight
    BY <1>a, <2>1, InFlightIs, InFlightBecomes DEF Flying
  <2>3. Cardinality(InFlight') <= active' /\ active' <= MaxInFlight
    BY <1>6, <2>2, NobodyNew DEF ReportContent
  <2>4. ~Open' /\ recorded' \subseteq launched
    BY <1>6, <1>a, HedgeAssumption DEF ReportContent, Open, MarkLosers
  <2> QED BY <1>a, <1>6, <2>1, <2>3, <2>4 DEF ReportContent, SlotInv, Judged
<1>7. CASE AppendWinner(p)
  <2>1. pc' = [pc EXCEPT ![p] = "deliver"] /\ pc[p] = "commit" /\ p \in launched
    BY <1>7 DEF AppendWinner, SlotInv
  <2>2. InFlight' = InFlight
    BY <1>a, <2>1, InFlightIs, InFlightBecomes DEF Flying
  <2>3. Cardinality(InFlight') <= active' /\ active' <= MaxInFlight
    BY <1>7, <2>2, NobodyNew DEF AppendWinner
  <2> QED BY <1>a, <1>7, <2>1, <2>3 DEF AppendWinner, SlotInv, Open, Judged
<1>8. CASE Deliver(p)
  <2>1. pc' = [pc EXCEPT ![p] = "won"] /\ pc[p] = "deliver" /\ p \in launched
    BY <1>8 DEF Deliver, SlotInv
  <2>2. InFlight' = InFlight
    BY <1>a, <2>1, InFlightIs, InFlightBecomes DEF Flying
  <2>3. Cardinality(InFlight') <= active' /\ active' <= MaxInFlight
    BY <1>8, <2>2, NobodyNew DEF Deliver
  <2> QED BY <1>a, <1>8, <2>1, <2>3 DEF Deliver, SlotInv, Open, Judged
<1>9. CASE RecordLoser(p)
  <2>1. pc' = [pc EXCEPT ![p] = "lost"] /\ pc[p] = "loser" /\ p \in launched
    BY <1>9 DEF RecordLoser, SlotInv
  <2>2. InFlight' = InFlight
    BY <1>a, <2>1, InFlightIs, InFlightBecomes DEF Flying
  <2>3. Cardinality(InFlight') <= active' /\ active' <= MaxInFlight
    BY <1>9, <2>2, NobodyNew DEF RecordLoser
  <2> QED BY <1>a, <1>9, <2>1, <2>3 DEF RecordLoser, SlotInv, Open, Judged
<1>10. CASE Decrement(p)
  <2>1. pc' = [pc EXCEPT ![p] = "done"] /\ pc[p] \in {"won", "lost"} /\ p \in launched
    BY <1>10 DEF Decrement, SlotInv
  <2>2. InFlight' = InFlight \ {p} /\ p \in InFlight
    BY <1>a, <2>1, InFlightIs, InFlightBecomes DEF Flying
  <2>3. Cardinality(InFlight') <= active' /\ active' <= MaxInFlight
    BY <1>10, <2>2, OneLands DEF Decrement
  <2>4. Open' => Open
    BY <1>10 DEF Decrement, MaybeFinish, Open
  <2> QED BY <1>a, <1>10, <2>1, <2>3, <2>4 DEF Decrement, SlotInv, Judged
<1> QED
  BY <1>1, <1>2, <1>3, <1>4, <1>5, <1>6, <1>7, <1>8, <1>9, <1>10 DEF AttemptStep

LEMMA OtherSlots ==
  ASSUME TypeOK, SlotInv,
         (\E l \in Launchers : LauncherStep(l)) \/ MainStep \/ ClientCancel
           \/ \E p \in Providers : TriggerThreshold(p)
  PROVE  SlotInv'
<1> USE DEF raceVars, chainVars, windowVars, chanVars, mainVars
<1>1. ASSUME NEW l \in Launchers, LauncherStep(l) PROVE SlotInv'
  <2>1. CASE EnterWindow(l) \/ SelectNone(l) \/ SelectError(l) \/ SelectSome(l) \/ SkipSelect(l)
               \/ LeaveWindow(l)
    <3>1. UNCHANGED <<launched, recorded, active, pc, attempts, winner, settled>>
      BY <2>1 DEF EnterWindow, SelectNone, SelectError, SelectSome, SkipSelect, LeaveWindow
    <3> QED BY <3>1, SlotFrame DEF Open
  <2>2. CASE FinishIfExhausted(l)
    <3>1. UNCHANGED <<launched, recorded, active, pc, attempts, winner>> /\ (settled => settled')
      BY <2>2 DEF FinishIfExhausted, MaybeFinish
    <3> QED BY <3>1, SlotFrame DEF Open
  <2>3. CASE LaunchAttempt(l)
    <3>1. CASE Admits
      <4> DEFINE q == lnext[l]
      <4>0. q \in Providers
        BY <2>3 DEF LaunchAttempt, TypeOK, WindowTypes
      <4>1. /\ launched' = launched \cup {q} /\ active' = active + 1 /\ active < MaxInFlight
            /\ pc' = [pc EXCEPT ![q] = "launched"]
            /\ UNCHANGED <<attempts, recorded, winner, settled>>
        BY <2>3, <3>1 DEF LaunchAttempt, Admits
      <4>2. pc \in [Providers -> Places]
        BY DEF TypeOK, RaceTypes
      <4> HIDE DEF q
      <4>3. InFlight' = InFlight \cup {q}
        BY <4>0, <4>1, <4>2, InFlightIs, InFlightBecomes DEF Flying
      <4>4. Cardinality(InFlight') <= active' /\ active' <= MaxInFlight
        BY <4>1, <4>3, OneMore
      <4>5. IsFiniteSet(launched')
        BY <4>1, FS_AddElement DEF SlotInv
      <4> QED BY <4>0, <4>1, <4>2, <4>4, <4>5 DEF SlotInv, Open, Judged
    <3>2. CASE ~Admits
      BY <2>3, <3>2, SlotFrame DEF LaunchAttempt, Open
    <3> QED BY <3>1, <3>2
  <2> QED BY <1>1, <2>1, <2>2, <2>3 DEF LauncherStep
<1>2. CASE MainStep \/ ClientCancel
  <2>1. UNCHANGED <<launched, recorded, active, pc, winner, settled>> /\ attempts' \subseteq attempts
    BY <1>2 DEF MainStep, MainReceive, MainAbort, MainExplain, MainReturn, ClientCancel
  <2> QED BY <2>1, SlotFrame DEF Open
<1>3. ASSUME NEW p \in Providers, TriggerThreshold(p) PROVE SlotInv'
  <2>1. UNCHANGED <<launched, recorded, active, pc, attempts, winner, settled>>
    BY <1>3 DEF TriggerThreshold
  <2> QED BY <2>1, SlotFrame DEF Open
<1> QED BY <1>1, <1>2, <1>3

LEMMA SlotInvariant == Spec => []SlotInv
<1>1. Init => SlotInv
  <2> SUFFICES ASSUME Init PROVE SlotInv
    OBVIOUS
  <2>1. InFlight = {First}
    BY HedgeAssumption, InFlightIs DEF Init, Flying
  <2>2. IsFiniteSet({First}) /\ Cardinality({First}) = 1
    BY FS_Singleton
  <2>3. \A p \in Providers : pc[p] = (IF p = First THEN "launched" ELSE "idle")
    BY DEF Init
  <2> QED BY <2>1, <2>2, <2>3, HedgeAssumption DEF Init, SlotInv, Judged
<1>2. TypeOK /\ SlotInv /\ [Next]_vars => SlotInv'
  <2>1. TypeOK /\ SlotInv /\ Next => SlotInv'
    BY AttemptSlots, OtherSlots DEF Next
  <2>2. SlotInv /\ UNCHANGED vars => SlotInv'
    BY SlotFrame DEF vars, raceVars, chainVars, Open
  <2> QED BY <2>1, <2>2
<1> QED BY <1>1, <1>2, TypeCorrect, PTL DEF Spec

-----------------------------------------------------------------------------
(* The window of launchAlternative: one launcher at a time, and while the    *)
(* race is open and nobody flies there is one that will select.              *)

Serving == {"enter", "select", "launch"}
Inside == {"select", "exhaust", "launch", "leave"}

AnotherOneComes ==
  Open /\ active = 0 /\ ~noMore =>
    \/ \E l \in Launchers : lpc[l] \in Serving
    \/ pending /\ \E l \in Launchers : lpc[l] = "leave"

OneLauncher ==
  /\ \A l, m \in Launchers : lpc[l] \in Inside /\ lpc[m] \in Inside => l = m
  /\ launching <=> \E l \in Launchers : lpc[l] \in Inside

LauncherKnows ==
  \A l \in Launchers : /\ lpc[l] = "launch" => lnext[l] \notin launched
                       /\ lpc[l] = "exhaust" => noMore

\* An attempt asks once it has failed, its timer once it has been armed.
Asks ==
  \A p \in Providers :
    /\ lpc[AttemptOf(p)] # "idle" => pc[p] = "done"
    /\ lpc[TimerOf(p)] # "idle" => pc[p] \notin {"idle", "launched", "planning"}

WindowInv == AnotherOneComes /\ OneLauncher /\ LauncherKnows /\ Asks

LEMMA LauncherNames ==
  ASSUME NEW p \in Providers, NEW q \in Providers
  PROVE  /\ AttemptOf(p) \in Launchers /\ TimerOf(p) \in Launchers
         /\ AttemptOf(p) = AttemptOf(q) => p = q
         /\ TimerOf(p) = TimerOf(q) => p = q
         /\ AttemptOf(p) # TimerOf(q)
  BY DEF AttemptOf, TimerOf, Launchers

LEMMA ActiveIsNat == TypeOK /\ SlotInv => active \in Nat
  BY InFlightFinite DEF SlotInv

\* One launcher outside the window goes to a place outside it.
LEMMA OutsideMove ==
  ASSUME TypeOK, OneLauncher, LauncherKnows, NEW l \in Launchers, NEW place \in LauncherPlaces,
         lpc[l] \notin Inside, place \notin Inside, lpc' = [lpc EXCEPT ![l] = place],
         UNCHANGED <<launching, lnext, launched, noMore>>
  PROVE  OneLauncher' /\ LauncherKnows'
<1>1. lpc \in [Launchers -> LauncherPlaces]
  BY DEF TypeOK, WindowTypes
<1>2. \A m \in Launchers : lpc'[m] = IF m = l THEN place ELSE lpc[m]
  BY <1>1
<1>3. \A m \in Launchers : lpc'[m] \in Inside <=> lpc[m] \in Inside
  BY <1>2
<1>4. OneLauncher'
  BY <1>3 DEF OneLauncher
<1>5. LauncherKnows'
  BY <1>2 DEF LauncherKnows, Inside
<1> QED BY <1>4, <1>5

\* The launcher in the window goes to another place in it.
LEMMA InsideMove ==
  ASSUME TypeOK, OneLauncher, NEW l \in Launchers, NEW place \in Inside,
         lpc[l] \in Inside, lpc' = [lpc EXCEPT ![l] = place], UNCHANGED launching
  PROVE  OneLauncher'
<1>1. lpc \in [Launchers -> LauncherPlaces]
  BY DEF TypeOK, WindowTypes
<1>2. \A m \in Launchers : lpc'[m] = IF m = l THEN place ELSE lpc[m]
  BY <1>1
<1>3. \A m \in Launchers : lpc'[m] \in Inside <=> lpc[m] \in Inside
  BY <1>2
<1> QED BY <1>3 DEF OneLauncher

\* The steps that leave the window alone.
LEMMA WindowFrame ==
  ASSUME WindowInv, UNCHANGED <<lpc, lnext, launching, pending, launched>>,
         noMore => noMore', Open' /\ active' = 0 /\ ~noMore' => Open /\ active = 0,
         \A p \in Providers : /\ pc[p] = "done" => pc'[p] = "done"
                              /\ pc'[p] \in {"idle", "launched", "planning"} =>
                                   pc[p] \in {"idle", "launched", "planning"}
  PROVE  WindowInv'
<1>1. AnotherOneComes'
  BY DEF WindowInv, AnotherOneComes, Open
<1>2. OneLauncher' /\ LauncherKnows' /\ Asks'
  BY DEF WindowInv, OneLauncher, LauncherKnows, Asks
<1> QED BY <1>1, <1>2 DEF WindowInv

\* A failed attempt asks for a successor.
LEMMA AttemptAsks ==
  ASSUME TypeOK, WindowInv, NEW p \in Providers, pc[p] \in {"planning", "flying"},
         pc' = [pc EXCEPT ![p] = "done"], lpc' = [lpc EXCEPT ![AttemptOf(p)] = "enter"],
         UNCHANGED <<launching, pending, lnext, launched, noMore>>
  PROVE  WindowInv'
<1> DEFINE l == AttemptOf(p)
<1>1. l \in Launchers /\ \A q \in Providers : (AttemptOf(q) = l <=> q = p) /\ TimerOf(q) # l
  BY LauncherNames
<1>2. lpc[l] = "idle"
  BY DEF WindowInv, Asks
<1>3. lpc \in [Launchers -> LauncherPlaces] /\ pc \in [Providers -> Places]
  BY DEF TypeOK, WindowTypes, RaceTypes
<1>4. \A q \in Providers : AttemptOf(q) \in Launchers /\ TimerOf(q) \in Launchers
  BY LauncherNames
<1>5. lpc' = [lpc EXCEPT ![l] = "enter"]
  OBVIOUS
<1> HIDE DEF l
<1>6. OneLauncher' /\ LauncherKnows'
  BY <1>1, <1>2, <1>5, OutsideMove DEF WindowInv, Inside, LauncherPlaces
<1>7. AnotherOneComes'
  <2>1. lpc'[l] \in Serving
    BY <1>1, <1>3, <1>5 DEF Serving
  <2> QED BY <1>1, <2>1 DEF AnotherOneComes
<1>8. Asks'
  <2>1. ASSUME NEW q \in Providers
        PROVE  /\ lpc'[AttemptOf(q)] # "idle" => pc'[q] = "done"
               /\ lpc'[TimerOf(q)] # "idle" => pc'[q] \notin {"idle", "launched", "planning"}
    <3>1. CASE q = p
      BY <3>1, <1>3
    <3>2. CASE q # p
      <4>1. lpc'[AttemptOf(q)] = lpc[AttemptOf(q)] /\ lpc'[TimerOf(q)] = lpc[TimerOf(q)] /\ pc'[q] = pc[q]
        BY <3>2, <1>1, <1>3, <1>4, <1>5
      <4> QED BY <4>1 DEF WindowInv, Asks
    <3> QED BY <3>1, <3>2
  <2> QED BY <2>1 DEF Asks
<1> QED BY <1>6, <1>7, <1>8 DEF WindowInv

LEMMA AttemptWindow ==
  ASSUME TypeOK, SlotInv, WindowInv, NEW p \in Providers, AttemptStep(p)
  PROVE  WindowInv'
<1> USE DEF raceVars, chainVars, windowVars, chanVars, mainVars
<1>a. pc \in [Providers -> Places] /\ active \in Nat
  BY ActiveIsNat DEF TypeOK, RaceTypes
<1>1. CASE Register(p)
  BY <1>1, <1>a, WindowFrame DEF Register, Open
<1>2. CASE Dispatch(p)
  <2> DEFINE l == TimerOf(p)
  <2>1. l \in Launchers /\ \A q \in Providers : (TimerOf(q) = l <=> q = p) /\ AttemptOf(q) # l
    BY LauncherNames
  <2>2. lpc[l] = "idle"
    BY <1>2 DEF Dispatch, WindowInv, Asks
  <2>3. lpc \in [Launchers -> LauncherPlaces]
    BY DEF TypeOK, WindowTypes
  <2>4. \A q \in Providers : AttemptOf(q) \in Launchers /\ TimerOf(q) \in Launchers
    BY LauncherNames
  <2>5. /\ lpc' = [lpc EXCEPT ![l] = "armed"] /\ pc' = [pc EXCEPT ![p] = "flying"]
        /\ UNCHANGED <<launching, pending, lnext, launched, noMore, winner, settled, active>>
    BY <1>2 DEF Dispatch
  <2> HIDE DEF l
  <2>6. OneLauncher' /\ LauncherKnows'
    BY <2>1, <2>2, <2>5, OutsideMove DEF WindowInv, Inside, LauncherPlaces
  <2>7. AnotherOneComes'
    <3>1. \A m \in Launchers : (lpc[m] \in Serving \/ lpc[m] = "leave") => lpc'[m] = lpc[m]
      BY <2>2, <2>3, <2>5 DEF Serving
    <3> QED BY <3>1, <2>5 DEF WindowInv, AnotherOneComes, Open
  <2>8. Asks'
    <3>1. ASSUME NEW q \in Providers
          PROVE  /\ lpc'[AttemptOf(q)] # "idle" => pc'[q] = "done"
                 /\ lpc'[TimerOf(q)] # "idle" => pc'[q] \notin {"idle", "launched", "planning"}
      <4>1. lpc'[AttemptOf(q)] = lpc[AttemptOf(q)] /\ (q # p => lpc'[TimerOf(q)] = lpc[TimerOf(q)])
        BY <2>1, <2>3, <2>4, <2>5
      <4>2. pc[p] = "planning" /\ pc'[p] = "flying" /\ (q # p => pc'[q] = pc[q])
        BY <1>2, <1>a, <2>5 DEF Dispatch
      <4> QED BY <4>1, <4>2 DEF WindowInv, Asks
    <3> QED BY <3>1 DEF Asks
  <2> QED BY <2>6, <2>7, <2>8 DEF WindowInv
<1>3. CASE SkipStateful(p)
  <2>1. CASE winner # None
    BY <1>3, <2>1, <1>a, WindowFrame DEF SkipStateful, Open
  <2>2. CASE winner = None
    BY <1>3, <2>2, AttemptAsks DEF SkipStateful
  <2> QED BY <2>1, <2>2
<1>4. CASE Fail(p)
  <2>1. PICK kind \in FailureKinds(p) : FailLate(p, kind) \/ FailRace(p, kind) \/ FailOver(p, kind)
    BY <1>4 DEF Fail
  <2>2. pc[p] \in {"planning", "flying"}
    BY <1>4 DEF Fail
  <2>3. CASE FailLate(p, kind)
    BY <2>2, <2>3, <1>a, WindowFrame DEF FailLate, Open
  <2>4. CASE FailRace(p, kind)
    BY <2>2, <2>4, <1>a, WindowFrame DEF FailRace, Open
  <2>5. CASE FailOver(p, kind)
    BY <2>2, <2>5, AttemptAsks DEF FailOver
  <2> QED BY <2>1, <2>3, <2>4, <2>5
<1>5. CASE FinishSend(p)
  BY <1>5, <1>a, WindowFrame DEF FinishSend, Open
<1>6. CASE ReportContent(p)
  <2>1. ~Open'
    BY <1>6, HedgeAssumption DEF ReportContent, Open
  <2>2. /\ pc' \in {[pc EXCEPT ![p] = "commit"], [pc EXCEPT ![p] = "loser"]} /\ pc[p] = "flying"
        /\ UNCHANGED <<lpc, lnext, launching, pending, launched, noMore>>
    BY <1>6 DEF ReportContent
  <2> QED BY <2>1, <2>2, <1>a, WindowFrame
<1>7. CASE AppendWinner(p)
  BY <1>7, <1>a, WindowFrame DEF AppendWinner, Open
<1>8. CASE Deliver(p)
  BY <1>8, <1>a, WindowFrame DEF Deliver, Open
<1>9. CASE RecordLoser(p)
  BY <1>9, <1>a, WindowFrame DEF RecordLoser, Open
<1>10. CASE Decrement(p)
  <2>1. ~Open
    BY <1>10 DEF Decrement, SlotInv, Judged
  <2>2. /\ pc' = [pc EXCEPT ![p] = "done"] /\ pc[p] \in {"won", "lost"} /\ ~Open'
        /\ UNCHANGED <<lpc, lnext, launching, pending, launched, noMore>>
    BY <1>10, <2>1 DEF Decrement, MaybeFinish, Open
  <2> QED BY <2>2, <1>a, WindowFrame
<1> QED
  BY <1>1, <1>2, <1>3, <1>4, <1>5, <1>6, <1>7, <1>8, <1>9, <1>10 DEF AttemptStep

\* A step of a launcher says nothing of other launchers, and of attempts only that one starts.
LEMMA LauncherAsks ==
  ASSUME TypeOK, Asks, NEW l \in Launchers, NEW place \in LauncherPlaces, lpc[l] # "idle",
         lpc' = [lpc EXCEPT ![l] = place], UNCHANGED pc
  PROVE  Asks'
<1>1. \A m \in Launchers : lpc'[m] # "idle" => lpc[m] # "idle"
  BY DEF TypeOK, WindowTypes
<1> QED BY <1>1, LauncherNames DEF Asks

LEMMA LauncherWindow ==
  ASSUME TypeOK, SlotInv, WindowInv, NEW l \in Launchers, LauncherStep(l)
  PROVE  WindowInv'
<1> USE DEF raceVars, chainVars, windowVars, chanVars, mainVars, Goto
<1>a. /\ pc \in [Providers -> Places] /\ active \in Nat /\ MaxInFlight \in Nat \ {0}
      /\ lpc \in [Launchers -> LauncherPlaces]
  BY ActiveIsNat, HedgeAssumption DEF TypeOK, RaceTypes, WindowTypes
<1>b. \A place \in LauncherPlaces :
        lpc' = [lpc EXCEPT ![l] = place] =>
          \A m \in Launchers : lpc'[m] = IF m = l THEN place ELSE lpc[m]
  BY <1>a
<1>c. OneLauncher /\ LauncherKnows /\ Asks /\ AnotherOneComes
  BY DEF WindowInv
<1>d. {"idle", "armed", "enter", "select", "exhaust", "launch", "leave"} \subseteq LauncherPlaces
  BY DEF LauncherPlaces
<1>1. CASE EnterWindow(l)
  <2>0. lpc[l] = "enter" /\ UNCHANGED <<lnext, launched, noMore, active, winner, settled, pc>>
    BY <1>1 DEF EnterWindow
  <2>1. CASE ~Open \/ noMore
    <3>1. lpc' = [lpc EXCEPT ![l] = "idle"] /\ UNCHANGED <<launching, pending>>
      BY <1>1, <2>1 DEF EnterWindow
    <3>2. OneLauncher' /\ LauncherKnows'
      BY <1>c, <1>d, <2>0, <3>1, OutsideMove DEF Inside
    <3>3. Asks'
      BY <1>c, <1>d, <2>0, <3>1, LauncherAsks
    <3>4. AnotherOneComes'
      BY <2>0, <2>1 DEF AnotherOneComes, Open
    <3> QED BY <3>2, <3>3, <3>4 DEF WindowInv
  <2>2. CASE Open /\ ~noMore /\ launching
    <3>1. lpc' = [lpc EXCEPT ![l] = "idle"] /\ pending' = TRUE /\ UNCHANGED launching
      BY <1>1, <2>2 DEF EnterWindow
    <3>2. OneLauncher' /\ LauncherKnows'
      BY <1>c, <1>d, <2>0, <3>1, OutsideMove DEF Inside
    <3>3. Asks'
      BY <1>c, <1>d, <2>0, <3>1, LauncherAsks
    <3>4. AnotherOneComes'
      <4>1. PICK m \in Launchers : lpc[m] \in Inside
        BY <1>c, <2>2 DEF OneLauncher
      <4>2. lpc[m] # "exhaust" /\ m # l
        BY <1>c, <2>0, <2>2, <4>1 DEF LauncherKnows, Inside
      <4>3. lpc'[m] = lpc[m] /\ lpc'[m] \in {"select", "launch", "leave"}
        BY <1>b, <1>d, <3>1, <4>1, <4>2 DEF Inside
      <4> QED BY <3>1, <4>3 DEF AnotherOneComes, Serving
    <3> QED BY <3>2, <3>3, <3>4 DEF WindowInv
  <2>3. CASE Open /\ ~noMore /\ ~launching
    <3>1. lpc' = [lpc EXCEPT ![l] = "select"] /\ launching' = TRUE
      BY <1>1, <2>3 DEF EnterWindow
    <3>2. \A m \in Launchers : lpc'[m] = IF m = l THEN "select" ELSE lpc[m]
      BY <1>b, <1>d, <3>1
    <3>3. \A m \in Launchers : lpc[m] \notin Inside
      BY <1>c, <2>3 DEF OneLauncher
    <3>4. OneLauncher'
      BY <3>1, <3>2, <3>3 DEF OneLauncher, Inside
    <3>5. LauncherKnows'
      BY <1>c, <2>0, <3>2 DEF LauncherKnows
    <3>6. Asks'
      BY <1>c, <1>d, <2>0, <3>1, LauncherAsks
    <3>7. AnotherOneComes'
      BY <3>2 DEF AnotherOneComes, Serving
    <3> QED BY <3>4, <3>5, <3>6, <3>7 DEF WindowInv
  <2> QED BY <2>1, <2>2, <2>3 DEF TypeOK, WindowTypes, RaceTypes
<1>2. CASE SelectNone(l) \/ SelectError(l)
  <2>1. /\ lpc[l] = "select" /\ lpc' = [lpc EXCEPT ![l] = "exhaust"] /\ noMore' = TRUE
        /\ UNCHANGED <<launching, lnext, launched, pc>>
    BY <1>2 DEF SelectNone, SelectError
  <2>2. \A m \in Launchers : lpc'[m] = IF m = l THEN "exhaust" ELSE lpc[m]
    BY <1>b, <1>d, <2>1
  <2>3. OneLauncher'
    BY <1>c, <2>1, InsideMove DEF Inside
  <2>4. LauncherKnows'
    BY <1>c, <2>1, <2>2 DEF LauncherKnows
  <2>5. Asks'
    BY <1>c, <1>d, <2>1, LauncherAsks
  <2>6. AnotherOneComes'
    BY <2>1 DEF AnotherOneComes
  <2> QED BY <2>3, <2>4, <2>5, <2>6 DEF WindowInv
<1>3. CASE SelectSome(l)
  <2>0. /\ lpc[l] = "select"
        /\ UNCHANGED <<launching, pending, launched, noMore, active, winner, settled, pc>>
    BY <1>3 DEF SelectSome
  <2>1. PICK q \in Providers \ lex[l] :
          IF ~Open THEN Goto(l, "leave") /\ UNCHANGED <<lex, lnext>>
          ELSE IF q \in launched
          THEN lex' = [lex EXCEPT ![l] = @ \cup {q}] /\ UNCHANGED <<lpc, lnext>>
          ELSE lnext' = [lnext EXCEPT ![l] = q] /\ Goto(l, "launch") /\ UNCHANGED lex
    BY <1>3 DEF SelectSome
  <2>2. CASE ~Open
    <3>1. lpc' = [lpc EXCEPT ![l] = "leave"] /\ UNCHANGED lnext
      BY <2>1, <2>2
    <3>2. \A m \in Launchers : lpc'[m] = IF m = l THEN "leave" ELSE lpc[m]
      BY <1>b, <1>d, <3>1
    <3>3. OneLauncher'
      BY <1>c, <2>0, <3>1, InsideMove DEF Inside
    <3>4. LauncherKnows'
      BY <1>c, <2>0, <3>1, <3>2 DEF LauncherKnows
    <3>5. Asks'
      BY <1>c, <1>d, <2>0, <3>1, LauncherAsks
    <3>6. AnotherOneComes'
      BY <2>0, <2>2 DEF AnotherOneComes, Open
    <3> QED BY <3>3, <3>4, <3>5, <3>6 DEF WindowInv
  <2>3. CASE Open /\ q \in launched
    BY <2>0, <2>1, <2>3, WindowFrame DEF Open
  <2>4. CASE Open /\ q \notin launched
    <3>1. lpc' = [lpc EXCEPT ![l] = "launch"] /\ lnext' = [lnext EXCEPT ![l] = q]
      BY <2>1, <2>4
    <3>2. \A m \in Launchers : lpc'[m] = IF m = l THEN "launch" ELSE lpc[m]
      BY <1>b, <1>d, <3>1
    <3>3. OneLauncher'
      BY <1>c, <2>0, <3>1, InsideMove DEF Inside
    <3>4. LauncherKnows'
      <4>1. \A m \in Launchers : lnext'[m] = IF m = l THEN q ELSE lnext[m]
        BY <3>1 DEF TypeOK, WindowTypes
      <4> QED BY <1>c, <2>0, <2>4, <3>2, <4>1 DEF LauncherKnows
    <3>5. Asks'
      BY <1>c, <1>d, <2>0, <3>1, LauncherAsks
    <3>6. AnotherOneComes'
      BY <3>2 DEF AnotherOneComes, Serving
    <3> QED BY <3>3, <3>4, <3>5, <3>6 DEF WindowInv
  <2> QED BY <2>2, <2>3, <2>4
<1>4. CASE SkipSelect(l) \/ FinishIfExhausted(l)
  <2>1. /\ lpc[l] \in Inside /\ lpc' = [lpc EXCEPT ![l] = "leave"]
        /\ UNCHANGED <<launching, lnext, launched, noMore, pc>>
    BY <1>4 DEF SkipSelect, FinishIfExhausted, Inside
  <2>2. \A m \in Launchers : lpc'[m] = IF m = l THEN "leave" ELSE lpc[m]
    BY <1>b, <1>d, <2>1
  <2>3. OneLauncher'
    BY <1>c, <2>1, InsideMove DEF Inside
  <2>4. LauncherKnows'
    BY <1>c, <2>1, <2>2 DEF LauncherKnows
  <2>5. Asks'
    BY <1>c, <1>d, <2>1, LauncherAsks DEF Inside
  <2>6. AnotherOneComes'
    <3>1. CASE SkipSelect(l)
      BY <3>1 DEF SkipSelect, AnotherOneComes, Open
    <3>2. CASE FinishIfExhausted(l)
      BY <1>c, <3>2 DEF FinishIfExhausted, LauncherKnows, AnotherOneComes
    <3> QED BY <1>4, <3>1, <3>2
  <2> QED BY <2>3, <2>4, <2>5, <2>6 DEF WindowInv
<1>5. CASE LaunchAttempt(l)
  <2> DEFINE q == lnext[l]
  <2>1. /\ lpc[l] = "launch" /\ lpc' = [lpc EXCEPT ![l] = "leave"]
        /\ lnext' = [lnext EXCEPT ![l] = None]
        /\ UNCHANGED <<launching, pending, noMore, winner, settled>>
    BY <1>5 DEF LaunchAttempt
  <2>2. \A m \in Launchers : lpc'[m] = IF m = l THEN "leave" ELSE lpc[m]
    BY <1>b, <1>d, <2>1
  <2>3. OneLauncher'
    BY <1>c, <2>1, InsideMove DEF Inside
  <2>4. LauncherKnows'
    <3>1. \A m \in Launchers : lpc[m] = "launch" => m = l
      BY <1>c, <2>1 DEF OneLauncher, Inside
    <3> QED BY <1>c, <2>1, <2>2, <3>1 DEF LauncherKnows
  <2>5. q \in Providers /\ q \notin launched
    BY <1>c, <2>1 DEF LauncherKnows, TypeOK, WindowTypes
  <2>6. \A r \in Providers : pc'[r] # pc[r] => r = q /\ pc[q] = "idle"
    BY <1>5, <1>a, <2>5 DEF LaunchAttempt, SlotInv
  <2>7. Asks'
    <3>1. \A m \in Launchers : lpc'[m] # "idle" => lpc[m] # "idle"
      BY <2>1, <2>2
    <3>2. \A r \in Providers : pc[r] = "done" => pc'[r] = "done"
      BY <2>6
    <3>3. \A r \in Providers : pc[r] \notin {"idle", "launched", "planning"} =>
                                 pc'[r] \notin {"idle", "launched", "planning"}
      BY <2>6
    <3> QED BY <1>c, <3>1, <3>2, <3>3, LauncherNames DEF Asks
  <2>8. AnotherOneComes'
    <3>1. CASE Admits
      <4>1. active' = active + 1
        BY <1>5, <3>1 DEF LaunchAttempt
      <4> QED BY <1>a, <4>1 DEF AnotherOneComes
    <3>2. CASE ~Admits
      <4>1. UNCHANGED active /\ (~Open' \/ ~(active < MaxInFlight))
        BY <1>5, <2>1, <3>2 DEF LaunchAttempt, Admits, Open
      <4> QED BY <1>a, <4>1 DEF AnotherOneComes
    <3> QED BY <3>1, <3>2
  <2> QED BY <2>3, <2>4, <2>7, <2>8 DEF WindowInv
<1>6. CASE LeaveWindow(l)
  <2>1. /\ lpc[l] = "leave" /\ lpc' = [lpc EXCEPT ![l] = IF pending THEN "enter" ELSE "idle"]
        /\ launching' = FALSE /\ pending' = FALSE
        /\ UNCHANGED <<lnext, launched, noMore, active, winner, settled, pc>>
    BY <1>6 DEF LeaveWindow
  <2>2. \A m \in Launchers : lpc'[m] = IF m = l THEN (IF pending THEN "enter" ELSE "idle") ELSE lpc[m]
    BY <1>a, <2>1
  <2>3. \A m \in Launchers : m # l => lpc[m] \notin Inside
    BY <1>c, <2>1 DEF OneLauncher, Inside
  <2>4. OneLauncher'
    BY <2>1, <2>2, <2>3 DEF OneLauncher, Inside
  <2>5. LauncherKnows'
    BY <1>c, <2>1, <2>2 DEF LauncherKnows
  <2>6. Asks'
    BY <1>c, <1>d, <2>1, LauncherAsks
  <2>7. AnotherOneComes'
    BY <1>c, <2>1, <2>2 DEF AnotherOneComes, Serving, Open
  <2> QED BY <2>4, <2>5, <2>6, <2>7 DEF WindowInv
<1> QED
  BY <1>1, <1>2, <1>3, <1>4, <1>5, <1>6 DEF LauncherStep

LEMMA OtherWindow ==
  ASSUME TypeOK, WindowInv, MainStep \/ ClientCancel \/ \E p \in Providers : TriggerThreshold(p)
  PROVE  WindowInv'
<1> USE DEF raceVars, chainVars, windowVars, chanVars, mainVars
<1>1. CASE MainStep \/ ClientCancel
  <2>1. UNCHANGED <<lpc, lnext, launching, pending, launched, noMore, winner, settled, active, pc>>
    BY <1>1 DEF MainStep, MainReceive, MainAbort, MainExplain, MainReturn, ClientCancel
  <2> QED BY <2>1, WindowFrame DEF Open
<1>2. ASSUME NEW p \in Providers, TriggerThreshold(p) PROVE WindowInv'
  <2> DEFINE l == TimerOf(p)
  <2>1. l \in Launchers
    BY LauncherNames
  <2>2. PICK place \in {"enter", "idle"} : lpc' = [lpc EXCEPT ![l] = place]
    BY <1>2 DEF TriggerThreshold, Goto
  <2>3. /\ lpc[l] = "armed"
        /\ UNCHANGED <<lnext, launching, pending, launched, noMore, winner, settled, active, pc>>
    BY <1>2 DEF TriggerThreshold
  <2> HIDE DEF l
  <2>4. place \in LauncherPlaces /\ place \notin Inside /\ lpc[l] \notin Inside
    BY <2>3 DEF LauncherPlaces, Inside
  <2>5. OneLauncher' /\ LauncherKnows'
    BY <2>1, <2>2, <2>3, <2>4, OutsideMove DEF WindowInv
  <2>6. Asks'
    BY <2>1, <2>2, <2>3, <2>4, LauncherAsks DEF WindowInv
  <2>7. AnotherOneComes'
    <3>1. \A m \in Launchers : lpc[m] # "armed" => lpc'[m] = lpc[m]
      BY <2>1, <2>2, <2>3 DEF TypeOK, WindowTypes
    <3> QED BY <2>3, <3>1 DEF WindowInv, AnotherOneComes, Serving, Open
  <2> QED BY <2>5, <2>6, <2>7 DEF WindowInv
<1> QED BY <1>1, <1>2

LEMMA WindowInvariant == Spec => []WindowInv
<1>1. Init => WindowInv
  <2> SUFFICES ASSUME Init PROVE WindowInv
    OBVIOUS
  <2>1. \A l \in Launchers : lpc[l] = "idle"
    BY DEF Init
  <2>2. active = 1 /\ launching = FALSE
    BY DEF Init
  <2> QED BY <2>1, <2>2, LauncherNames
      DEF WindowInv, AnotherOneComes, OneLauncher, LauncherKnows, Asks, Inside
<1>2. TypeOK /\ SlotInv /\ WindowInv /\ [Next]_vars => WindowInv'
  <2>1. TypeOK /\ SlotInv /\ WindowInv /\ Next => WindowInv'
    BY AttemptWindow, LauncherWindow, OtherWindow DEF Next
  <2>2. WindowInv /\ UNCHANGED vars => WindowInv'
    BY WindowFrame DEF vars, raceVars, windowVars, Open
  <2> QED BY <2>1, <2>2
<1> QED BY <1>1, <1>2, TypeCorrect, SlotInvariant, PTL DEF Spec

\* The slots are handed out within the limit whatever the time between asking and launching,
\* and an open race with nobody in flight has a launcher about to select (launchAlternative),
\* for any candidates and limit.
THEOREM LaunchWindowHolds == Spec => []LaunchWindowWorks
<1>1. SlotInv /\ WindowInv => LaunchWindowWorks
  BY DEF SlotInv, WindowInv, AnotherOneComes, LaunchWindowWorks, ConcurrencyBound, NotStranded,
         InWindow, Serving
<1> QED BY <1>1, SlotInvariant, WindowInvariant, PTL

-----------------------------------------------------------------------------
(* The chain of providers: "launched" for every candidate but the first, and *)
(* at most one conclusion after it.                                          *)

Conclusions == Reasons \ {"launched"}
Start(p) == IF p = First THEN <<>> ELSE <<"launched">>
Concluded(p, e) == Append(Start(p), e)

ChainOf(p) ==
  /\ p \notin launched => outcomes[p] = <<>>
  /\ p \in launched => outcomes[p] = Start(p) \/ \E e \in Conclusions : outcomes[p] = Concluded(p, e)
  /\ p \in launched /\ p \notin recorded /\ pc[p] \notin {"deliver", "won", "done"} =>
       outcomes[p] = Start(p)
  /\ p \in recorded /\ pc[p] \in {"planning", "flying", "loser"} =>
       outcomes[p] = Concluded(p, LoserReason)

RecordOf(p) ==
  /\ pc[p] \in {"idle", "launched"} => p \notin attempts /\ p \notin recorded
  /\ winner = None => (p \in recorded <=> pc[p] \in {"done", "sending", "lost"})
  /\ pc[p] = "commit" => p \notin recorded
  /\ pc[p] \in {"commit", "deliver", "won"} => winner # None
  /\ p \in late => pc[p] = "done" /\ p \in recorded

LateFirst == First \in late /\ ~Billable => outcomes[First] = <<"failed">>

ChainInv == LateFirst /\ \A p \in Providers : ChainOf(p) /\ RecordOf(p)

LEMMA AfterLaunched ==
  ASSUME NEW e \in Reasons
  PROVE  Append(<<"launched">>, e) = <<"launched", e>>
<1> DEFINE s == Append(<<"launched">>, e)
<1>1. <<"launched">> \in Seq(Reasons) /\ Len(<<"launched">>) = 1 /\ <<"launched">>[1] = "launched"
  BY DEF Reasons
<1>2. s \in Seq(Reasons) /\ Len(s) = 2 /\ s[1] = "launched" /\ s[2] = e
  BY <1>1, AppendProperties
<1>3. /\ <<"launched", e>> \in Seq(Reasons) /\ Len(<<"launched", e>>) = 2
      /\ <<"launched", e>>[1] = "launched" /\ <<"launched", e>>[2] = e
  BY DEF Reasons
<1> HIDE DEF s
<1>4. \A i \in 1..2 : s[i] = <<"launched", e>>[i]
  <2> TAKE i \in 1..2
  <2>1. i = 1 \/ i = 2
    OBVIOUS
  <2> QED BY <2>1, <1>2, <1>3
<1>5. s = <<"launched", e>>
  BY <1>2, <1>3, <1>4, SeqEqual
<1> QED BY <1>5 DEF s

LEMMA StartIs ==
  ASSUME NEW p
  PROVE  /\ Start(p) \in Seq(Reasons)
         /\ p = First => Start(p) = <<>> /\ \A e \in Reasons : Concluded(p, e) = <<e>>
         /\ p # First => Start(p) = <<"launched">>
         /\ p # First => \A e \in Reasons : Concluded(p, e) = <<"launched", e>>
<1>1. <<>> \in Seq(Reasons) /\ <<"launched">> \in Seq(Reasons)
  BY DEF Reasons
<1>2. CASE p = First
  BY <1>1, <1>2 DEF Start, Concluded
<1>3. CASE p # First
  <2>1. Start(p) = <<"launched">>
    BY <1>3 DEF Start
  <2>2. \A e \in Reasons : Append(<<"launched">>, e) = <<"launched", e>>
    BY AfterLaunched
  <2> QED BY <1>1, <1>3, <2>1, <2>2 DEF Concluded
<1> QED BY <1>2, <1>3

LEMMA LoserConcludes == LoserReason \in Conclusions
  BY DEF LoserReason, Conclusions, Reasons

\* What one step of p says of the others.
LEMMA OtherChains ==
  ASSUME ChainInv, NEW p \in Providers, UNCHANGED <<launched, winner>>,
         attempts' \subseteq attempts,
         \A q \in Providers \ {p} :
           /\ outcomes'[q] = outcomes[q] /\ pc'[q] = pc[q]
           /\ q \in recorded' <=> q \in recorded
           /\ q \in late' <=> q \in late,
         ChainOf(p)', RecordOf(p)', LateFirst'
  PROVE  ChainInv'
<1>1. ASSUME NEW q \in Providers PROVE ChainOf(q)' /\ RecordOf(q)'
  <2>1. CASE q = p
    BY <2>1
  <2>2. CASE q # p
    <3>1. ChainOf(q) /\ RecordOf(q)
      BY DEF ChainInv
    <3>2. ChainOf(q)'
      BY <2>2, <3>1 DEF ChainOf, Start, Concluded, LoserReason
    <3>3. RecordOf(q)'
      BY <2>2, <3>1 DEF RecordOf
    <3> QED BY <3>2, <3>3
  <2> QED BY <2>1, <2>2
<1> QED BY <1>1 DEF ChainInv

\* The steps that write nothing in the chain.
QuietMoves == {<<"launched", "planning">>, <<"planning", "flying">>, <<"flying", "loser">>,
               <<"sending", "done">>, <<"deliver", "won">>, <<"won", "done">>, <<"lost", "done">>}

LEMMA QuietChain ==
  ASSUME TypeOK, ChainInv, NEW p \in Providers,
         UNCHANGED <<outcomes, recorded, late, launched, winner>>,
         \E move \in QuietMoves : pc[p] = move[1] /\ pc' = [pc EXCEPT ![p] = move[2]],
         attempts' \subseteq attempts \cup {p}
  PROVE  ChainInv'
<1>1. PICK move \in QuietMoves : pc[p] = move[1] /\ pc' = [pc EXCEPT ![p] = move[2]]
  OBVIOUS
<1>2. \A q \in Providers : pc'[q] = IF q = p THEN move[2] ELSE pc[q]
  BY <1>1 DEF TypeOK, RaceTypes
<1>3. ASSUME NEW q \in Providers PROVE ChainOf(q)' /\ RecordOf(q)'
  <2>1. ChainOf(q) /\ RecordOf(q)
    BY DEF ChainInv
  <2>2. RecordOf(q)'
    <3>1. CASE q = p
      BY <1>1, <1>2, <2>1, <3>1 DEF RecordOf, QuietMoves
    <3>2. CASE q # p
      BY <1>2, <2>1, <3>2 DEF RecordOf
    <3> QED BY <3>1, <3>2
  <2>3. ChainOf(q)'
    <3>1. CASE q = p
      <4>1. pc[q] \in {"launched", "planning", "flying", "sending", "deliver", "won", "lost"}
        BY <1>1, <3>1 DEF QuietMoves
      <4>2. /\ pc'[q] \in {"planning", "flying", "loser"} =>
                 pc[q] = "launched" \/ pc[q] \in {"planning", "flying"}
            /\ pc'[q] \notin {"deliver", "won", "done"} => pc[q] \notin {"deliver", "won", "done"}
        BY <1>1, <1>2, <3>1 DEF QuietMoves
      <4> QED BY <2>1, <4>1, <4>2 DEF ChainOf, RecordOf, Start, Concluded, LoserReason
    <3>2. CASE q # p
      BY <1>2, <2>1, <3>2 DEF ChainOf, Start, Concluded, LoserReason
    <3> QED BY <3>1, <3>2
  <2> QED BY <2>2, <2>3
<1>4. LateFirst'
  BY DEF ChainInv, LateFirst
<1> QED BY <1>3, <1>4 DEF ChainInv

\* The steps of others.
LEMMA StillChain ==
  ASSUME ChainInv, UNCHANGED <<outcomes, recorded, late, launched, winner, pc>>,
         attempts' \subseteq attempts
  PROVE  ChainInv'
<1>1. ASSUME NEW q \in Providers PROVE ChainOf(q)' /\ RecordOf(q)'
  <2>1. ChainOf(q) /\ RecordOf(q)
    BY DEF ChainInv
  <2> QED BY <2>1 DEF ChainOf, RecordOf, Start, Concluded, LoserReason
<1>2. LateFirst'
  BY DEF ChainInv, LateFirst
<1> QED BY <1>1, <1>2 DEF ChainInv

\* An attempt that nobody recorded yet concludes for itself and is recorded.
LEMMA OwnConclusion ==
  ASSUME TypeOK, ChainInv, NEW p \in Providers, p \in launched, p \notin recorded,
         pc[p] \in {"planning", "flying", "loser"}, NEW e \in Conclusions,
         NEW place \in {"done", "sending", "lost"},
         pc' = [pc EXCEPT ![p] = place], outcomes' = Append1(outcomes, p, e),
         recorded' = recorded \cup {p}, UNCHANGED <<launched, winner, attempts>>,
         late' = late \/ (late' = late \cup {p} /\ place = "done" /\ e = "failed")
  PROVE  ChainInv'
<1>1. outcomes \in Chains /\ pc \in [Providers -> Places]
  BY DEF TypeOK, RaceTypes
<1>2. ChainOf(p) /\ RecordOf(p) /\ outcomes[p] = Start(p)
  BY DEF ChainInv, ChainOf
<1>3. outcomes'[p] = Concluded(p, e) /\ pc'[p] = place
  BY <1>1, <1>2 DEF Append1, Concluded, Chains
<1>4. \A q \in Providers \ {p} : outcomes'[q] = outcomes[q] /\ pc'[q] = pc[q]
  BY <1>1 DEF Append1, Chains
<1>5. RecordOf(p)'
  BY <1>2, <1>3 DEF RecordOf
<1>6. ChainOf(p)'
  BY <1>2, <1>3 DEF ChainOf, Start, Concluded
<1>7. LateFirst'
  <2> SUFFICES ASSUME First \in late', ~Billable PROVE outcomes'[First] = <<"failed">>
    BY DEF LateFirst
  <2>1. CASE First = p
    <3>1. p \notin late
      BY <1>2 DEF RecordOf
    <3>2. e = "failed" /\ e \in Reasons
      BY <2>1, <3>1 DEF Reasons
    <3> QED BY <1>3, <2>1, <3>2, StartIs
  <2>2. CASE First # p
    BY <1>4, <2>2, HedgeAssumption DEF ChainInv, LateFirst
  <2> QED BY <2>1, <2>2
<1> QED BY <1>4, <1>5, <1>6, <1>7, OtherChains

LEMMA AttemptChain ==
  ASSUME TypeOK, SlotInv, VerdictInv, ChainInv, NEW p \in Providers, AttemptStep(p)
  PROVE  ChainInv'
<1> USE DEF raceVars, chainVars, windowVars, chanVars, mainVars
<1>a. pc \in [Providers -> Places] /\ outcomes \in Chains
  BY DEF TypeOK, RaceTypes
<1>b. ChainOf(p) /\ RecordOf(p) /\ LateFirst
  BY DEF ChainInv
<1>c. pc[p] # "idle" => p \in launched
  BY DEF SlotInv
<1>d. {"failed", "aborted", "winner", "success", "loser_cancelled", "loser_billed"} \subseteq Conclusions
  BY DEF Conclusions, Reasons
<1>1. CASE Register(p)
  <2>1. pc[p] = "launched" /\ pc' = [pc EXCEPT ![p] = "planning"]
    BY <1>1 DEF Register
  <2> QED BY <1>1, <2>1, QuietChain DEF Register, QuietMoves
<1>2. CASE Dispatch(p)
  <2>1. pc[p] = "planning" /\ pc' = [pc EXCEPT ![p] = "flying"]
    BY <1>2 DEF Dispatch
  <2> QED BY <1>2, <2>1, QuietChain DEF Dispatch, QuietMoves
<1>3. CASE SkipStateful(p)
  <2>1. /\ pc[p] = "planning" /\ pc' = [pc EXCEPT ![p] = "done"] /\ recorded' = recorded \cup {p}
        /\ UNCHANGED <<launched, winner, outcomes, late, attempts>>
    BY <1>3 DEF SkipStateful
  <2>2. \A q \in Providers : pc'[q] = IF q = p THEN "done" ELSE pc[q]
    BY <1>a, <2>1
  <2>3. RecordOf(p)'
    BY <1>b, <2>1, <2>2 DEF RecordOf
  <2>4. ChainOf(p)'
    BY <1>b, <1>c, <2>1, <2>2 DEF ChainOf, Start, Concluded
  <2>5. LateFirst'
    BY <1>b, <2>1 DEF LateFirst
  <2> QED BY <2>1, <2>2, <2>3, <2>4, <2>5, OtherChains
<1>4. CASE Fail(p)
  <2>1. PICK kind \in FailureKinds(p) : FailLate(p, kind) \/ FailRace(p, kind) \/ FailOver(p, kind)
    BY <1>4 DEF Fail
  <2>2. pc[p] \in {"planning", "flying"} /\ p \in launched
    BY <1>4, <1>c DEF Fail
  <2>3. CASE FailLate(p, kind)
    <3>1. CASE p \notin recorded
      <4>1. PICK e \in {"loser_cancelled", "failed"} :
              /\ outcomes' = Append1(outcomes, p, e)
              /\ kind = "provider" => e = "failed"
        BY <2>3, <3>1 DEF FailLate
      <4>2. /\ recorded' = recorded \cup {p} /\ pc' = [pc EXCEPT ![p] = "done"]
            /\ late' = late \/ (late' = late \cup {p} /\ kind = "provider")
            /\ UNCHANGED <<launched, winner, attempts>>
        BY <2>3, <3>1 DEF FailLate
      <4> QED BY <1>d, <2>2, <3>1, <4>1, <4>2, OwnConclusion
    <3>2. CASE p \in recorded
      <4>1. /\ outcomes' = CorrectPlaceholder(p, kind) /\ UNCHANGED <<recorded, launched, winner, attempts>>
            /\ pc' = [pc EXCEPT ![p] = "done"] /\ winner # None
            /\ late' = IF kind = "provider" THEN late \cup {p} ELSE late
        BY <2>3, <3>2 DEF FailLate
      <4>2. outcomes[p] = Concluded(p, LoserReason) /\ p \notin late
        BY <1>b, <2>2, <3>2 DEF ChainOf, RecordOf
      <4>3. \A q \in Providers \ {p} : outcomes'[q] = outcomes[q] /\ pc'[q] = pc[q]
        BY <1>a, <4>1 DEF CorrectPlaceholder, Chains
      <4>4. pc'[p] = "done"
        BY <1>a, <4>1
      <4>5. LoserReason \in Reasons /\ LoserReason \in Conclusions
        BY LoserConcludes DEF Conclusions
      <4>6. outcomes'[p] = outcomes[p] \/ (p = First /\ outcomes'[p] = <<"failed">>)
        <5>1. CASE p = First
          <6>1. outcomes[p] = <<LoserReason>>
            BY <4>2, <4>5, <5>1, StartIs
          <6>2. <<"failed">> \o Tail(outcomes[p]) = <<"failed">>
            BY <6>1, <4>5, <1>a DEF Chains, Reasons
          <6> QED BY <1>a, <4>1, <5>1, <6>2 DEF CorrectPlaceholder, Chains
        <5>2. CASE p # First
          <6>1. outcomes[p] = <<"launched", LoserReason>>
            BY <4>2, <4>5, <5>2, StartIs
          <6>2. Head(outcomes[p]) # "loser_cancelled"
            BY <6>1
          <6> QED BY <4>1, <6>2 DEF CorrectPlaceholder
        <5> QED BY <5>1, <5>2
      <4>7. RecordOf(p)'
        BY <1>b, <3>2, <4>1, <4>4 DEF RecordOf
      <4>8. ChainOf(p)'
        <5>1. p = First => Concluded(p, "failed") = <<"failed">>
          BY StartIs DEF Reasons
        <5>2. outcomes'[p] = Concluded(p, LoserReason) \/ outcomes'[p] = Concluded(p, "failed")
          BY <4>2, <4>6, <5>1
        <5>3. \E e \in Conclusions : outcomes'[p] = Concluded(p, e)
          BY <1>d, <4>5, <5>2
        <5> QED BY <2>2, <3>2, <4>1, <4>4, <5>3 DEF ChainOf, Start, Concluded
      <4>9. LateFirst'
        <5> SUFFICES ASSUME First \in late', ~Billable PROVE outcomes'[First] = <<"failed">>
          BY DEF LateFirst
        <5>1. CASE First = p
          <6>1. kind = "provider"
            BY <4>1, <4>2, <5>1
          <6>2. outcomes[p] = <<"loser_cancelled">>
            BY <4>2, <4>5, <5>1, StartIs DEF LoserReason
          <6>3. <<"failed">> \o Tail(outcomes[p]) = <<"failed">> /\ Head(outcomes[p]) = "loser_cancelled"
                /\ outcomes[p] # <<>>
            BY <6>2
          <6> QED BY <1>a, <4>1, <5>1, <6>1, <6>3 DEF CorrectPlaceholder, Chains
        <5>2. CASE First # p
          BY <1>b, <4>1, <4>3, <5>2, HedgeAssumption DEF LateFirst
        <5> QED BY <5>1, <5>2
      <4> QED BY <4>1, <4>3, <4>7, <4>8, <4>9, OtherChains
    <3> QED BY <3>1, <3>2
  <2>4. CASE FailRace(p, kind) \/ FailOver(p, kind)
    <3>1. PICK place \in {"done", "sending"} : pc' = [pc EXCEPT ![p] = place]
      BY <2>4 DEF FailRace, FailOver
    <3>2. /\ winner = None /\ recorded' = recorded \cup {p}
          /\ outcomes' = Append1(outcomes, p, FailureReason(kind))
          /\ UNCHANGED <<launched, winner, attempts, late>>
      BY <2>4 DEF FailRace, FailOver
    <3>3. p \notin recorded /\ FailureReason(kind) \in Conclusions
      BY <1>b, <1>d, <2>2, <3>2 DEF RecordOf, FailureReason
    <3> QED BY <2>2, <3>1, <3>2, <3>3, OwnConclusion
  <2> QED BY <2>1, <2>3, <2>4
<1>5. CASE FinishSend(p)
  <2>1. pc[p] = "sending" /\ pc' = [pc EXCEPT ![p] = "done"]
    BY <1>5 DEF FinishSend
  <2> QED BY <1>5, <2>1, QuietChain DEF FinishSend, QuietMoves
<1>6. CASE ReportContent(p)
  <2>1. CASE Open
    <3> DEFINE losers == (attempts \ {p}) \ recorded
    <3>1. /\ winner = None /\ winner' = p /\ pc[p] = "flying" /\ pc' = [pc EXCEPT ![p] = "commit"]
          /\ outcomes' = [q \in Providers |-> IF q \in losers THEN Append(outcomes[q], LoserReason)
                                                              ELSE outcomes[q]]
          /\ recorded' = recorded \cup losers
          /\ UNCHANGED <<launched, attempts, late>> /\ p # None
      BY <1>6, <2>1, HedgeAssumption DEF ReportContent, MarkLosers, Open
    <3>2. losers \subseteq launched /\ losers \cap recorded = {} /\ p \notin losers /\ losers \subseteq Providers
      BY DEF SlotInv, TypeOK, RaceTypes
    <3>m. \A q \in losers : q \in attempts
      OBVIOUS
    <3>n. recorded \cap losers = {}
      OBVIOUS
    <3> HIDE DEF losers
    <3>3. \A q \in Providers : pc'[q] = IF q = p THEN "commit" ELSE pc[q]
      BY <1>a, <3>1
    <3>4. ASSUME NEW q \in Providers PROVE ChainOf(q)' /\ RecordOf(q)'
      <4>1. ChainOf(q) /\ RecordOf(q)
        BY DEF ChainInv
      <4>2. CASE q \in losers
        <5>1. q # p /\ q \in launched /\ q \notin recorded /\ q \in recorded' /\ pc'[q] = pc[q]
          BY <3>1, <3>2, <3>3, <4>2
        <5>2. pc[q] \notin {"done", "sending", "lost", "commit", "deliver", "won", "idle", "launched"}
          BY <3>1, <3>m, <4>1, <4>2, <5>1 DEF RecordOf
        <5>3. outcomes[q] = Start(q)
          BY <4>1, <5>1, <5>2 DEF ChainOf
        <5>4. outcomes'[q] = Concluded(q, LoserReason)
          BY <3>1, <4>2, <5>3 DEF Concluded
        <5>5. ChainOf(q)'
          BY <3>1, <5>1, <5>2, <5>4, LoserConcludes DEF ChainOf, Start, Concluded, LoserReason
        <5>6. RecordOf(q)'
          BY <3>1, <4>1, <5>1, <5>2 DEF RecordOf
        <5> QED BY <5>5, <5>6
      <4>3. CASE q \notin losers
        <5>1. outcomes'[q] = outcomes[q] /\ (q \in recorded' <=> q \in recorded)
          BY <3>1, <4>3
        <5>2. CASE q = p
          <6>1. p \notin recorded /\ p \in launched /\ outcomes[p] = Start(p) /\ p \notin late
            BY <1>b, <1>c, <3>1 DEF RecordOf, ChainOf
          <6>2. pc'[q] = "commit"
            BY <3>3, <5>2
          <6> QED BY <3>1, <5>1, <5>2, <6>1, <6>2 DEF ChainOf, RecordOf, Start, Concluded
        <5>3. CASE q # p
          <6>1. pc'[q] = pc[q]
            BY <3>3, <5>3
          <6>2. ChainOf(q)'
            BY <3>1, <4>1, <5>1, <6>1 DEF ChainOf, Start, Concluded, LoserReason
          <6>3. RecordOf(q)'
            BY <3>1, <4>1, <5>1, <6>1 DEF RecordOf
          <6> QED BY <6>2, <6>3
        <5> QED BY <5>2, <5>3
      <4> QED BY <4>2, <4>3
    <3>5. LateFirst'
      <4>1. First \in late => First \notin losers
        <5>1. First \in late => First \in recorded
          BY HedgeAssumption DEF ChainInv, RecordOf
        <5> QED BY <5>1, <3>n
      <4> QED BY <1>b, <3>1, <4>1, HedgeAssumption DEF LateFirst
    <3> QED BY <3>4, <3>5 DEF ChainInv
  <2>2. CASE ~Open
    <3>1. pc[p] = "flying" /\ pc' = [pc EXCEPT ![p] = "loser"]
      BY <1>6, <2>2 DEF ReportContent
    <3> QED BY <1>6, <2>2, <3>1, QuietChain DEF ReportContent, QuietMoves
  <2> QED BY <2>1, <2>2
<1>7. CASE AppendWinner(p)
  <2> DEFINE e == IF Cardinality(launched) > 1 THEN "winner" ELSE "success"
  <2>1. /\ pc[p] = "commit" /\ pc' = [pc EXCEPT ![p] = "deliver"]
        /\ outcomes' = Append1(outcomes, p, e)
        /\ UNCHANGED <<launched, winner, recorded, attempts, late>>
    BY <1>7 DEF AppendWinner
  <2>2. e \in Conclusions
    BY <1>d
  <2> HIDE DEF e
  <2>3. p \notin recorded /\ p \in launched /\ outcomes[p] = Start(p) /\ winner # None
    BY <1>b, <1>c, <2>1 DEF RecordOf, ChainOf
  <2>4. outcomes'[p] = Concluded(p, e) /\ pc'[p] = "deliver"
    BY <1>a, <2>1, <2>3 DEF Append1, Concluded, Chains
  <2>5. \A q \in Providers \ {p} : outcomes'[q] = outcomes[q] /\ pc'[q] = pc[q]
    BY <1>a, <2>1 DEF Append1, Chains
  <2>6. RecordOf(p)'
    BY <1>b, <2>1, <2>3, <2>4 DEF RecordOf
  <2>7. ChainOf(p)'
    BY <2>1, <2>2, <2>3, <2>4 DEF ChainOf, Start, Concluded
  <2>8. LateFirst'
    <3>1. p \notin late
      BY <1>b, <2>1 DEF RecordOf
    <3> QED BY <1>b, <2>1, <2>5, <3>1, HedgeAssumption DEF LateFirst
  <2> QED BY <2>1, <2>5, <2>6, <2>7, <2>8, OtherChains
<1>8. CASE Deliver(p)
  <2>1. pc[p] = "deliver" /\ pc' = [pc EXCEPT ![p] = "won"]
    BY <1>8 DEF Deliver
  <2> QED BY <1>8, <2>1, QuietChain DEF Deliver, QuietMoves
<1>9. CASE RecordLoser(p)
  <2>1. /\ pc[p] = "loser" /\ pc' = [pc EXCEPT ![p] = "lost"]
        /\ recorded' = recorded \cup {p} /\ p \in launched
        /\ outcomes' = IF p \in recorded THEN outcomes ELSE Append1(outcomes, p, LoserReason)
        /\ UNCHANGED <<launched, winner, attempts, late>>
    BY <1>9, <1>c DEF RecordLoser
  <2>2. CASE p \notin recorded
    BY <2>1, <2>2, LoserConcludes, OwnConclusion
  <2>3. CASE p \in recorded
    <3>1. \A q \in Providers : pc'[q] = IF q = p THEN "lost" ELSE pc[q]
      BY <1>a, <2>1
    <3>2. recorded' = recorded /\ outcomes' = outcomes
      BY <2>1, <2>3
    <3>3. RecordOf(p)'
      BY <1>b, <2>1, <2>3, <3>1, <3>2 DEF RecordOf
    <3>4. ChainOf(p)'
      BY <1>b, <2>1, <2>3, <3>1, <3>2 DEF ChainOf, Start, Concluded
    <3>5. LateFirst'
      BY <1>b, <2>1, <3>2 DEF LateFirst
    <3> QED BY <2>1, <3>1, <3>2, <3>3, <3>4, <3>5, OtherChains
  <2> QED BY <2>2, <2>3
<1>10. CASE Decrement(p)
  <2>1. pc[p] \in {"won", "lost"} /\ pc' = [pc EXCEPT ![p] = "done"]
    BY <1>10 DEF Decrement
  <2> QED BY <1>10, <2>1, QuietChain DEF Decrement, QuietMoves
<1> QED
  BY <1>1, <1>2, <1>3, <1>4, <1>5, <1>6, <1>7, <1>8, <1>9, <1>10 DEF AttemptStep

LEMMA OtherStepsChain ==
  ASSUME TypeOK, SlotInv, WindowInv, ChainInv,
         (\E l \in Launchers : LauncherStep(l)) \/ MainStep \/ ClientCancel
           \/ \E p \in Providers : TriggerThreshold(p)
  PROVE  ChainInv'
<1> USE DEF raceVars, chainVars, windowVars, chanVars, mainVars
<1>1. ASSUME NEW l \in Launchers, LauncherStep(l) PROVE ChainInv'
  <2>1. CASE EnterWindow(l) \/ SelectNone(l) \/ SelectError(l) \/ SelectSome(l) \/ SkipSelect(l)
               \/ LeaveWindow(l) \/ FinishIfExhausted(l)
    <3>1. UNCHANGED <<outcomes, recorded, late, launched, winner, pc, attempts>>
      BY <2>1 DEF EnterWindow, SelectNone, SelectError, SelectSome, SkipSelect, LeaveWindow, FinishIfExhausted
    <3> QED BY <3>1, StillChain
  <2>2. CASE LaunchAttempt(l)
    <3>1. CASE ~Admits
      BY <2>2, <3>1, StillChain DEF LaunchAttempt
    <3>2. CASE Admits
      <4>0. PICK q \in Providers : q = lnext[l]
        BY <2>2 DEF LaunchAttempt, TypeOK, WindowTypes
      <4>1. q \in Providers /\ q \notin launched /\ pc[q] = "idle" /\ q # First
        BY <2>2, <4>0 DEF LaunchAttempt, TypeOK, WindowTypes, WindowInv, LauncherKnows, SlotInv
      <4>2. /\ launched' = launched \cup {q} /\ outcomes' = Append1(outcomes, q, "launched")
            /\ pc' = [pc EXCEPT ![q] = "launched"]
            /\ UNCHANGED <<recorded, late, winner, attempts>>
        BY <2>2, <3>2, <4>0 DEF LaunchAttempt
      <4>3. outcomes[q] = <<>> /\ RecordOf(q)
        BY <4>1 DEF ChainInv, ChainOf
      <4>4. outcomes \in Chains /\ pc \in [Providers -> Places]
        BY DEF TypeOK, RaceTypes
      <4>5. outcomes'[q] = <<"launched">> /\ pc'[q] = "launched"
        BY <4>1, <4>2, <4>3, <4>4 DEF Append1, Chains
      <4>6. \A r \in Providers \ {q} : outcomes'[r] = outcomes[r] /\ pc'[r] = pc[r]
        BY <4>2, <4>4 DEF Append1, Chains
      <4>7. ASSUME NEW r \in Providers PROVE ChainOf(r)' /\ RecordOf(r)'
        <5>1. CASE r = q
          <6>1. Start(q) = <<"launched">> /\ q \in launched'
            BY <4>1, <4>2 DEF Start
          <6>2. ChainOf(q)'
            BY <4>3, <4>5, <6>1 DEF ChainOf, Start, Concluded
          <6>3. RecordOf(q)'
            BY <4>1, <4>2, <4>3, <4>5 DEF RecordOf
          <6> QED BY <5>1, <6>2, <6>3
        <5>2. CASE r # q
          <6>1. ChainOf(r) /\ RecordOf(r)
            BY DEF ChainInv
          <6>2. outcomes'[r] = outcomes[r] /\ pc'[r] = pc[r] /\ (r \in launched' <=> r \in launched)
            BY <4>2, <4>6, <5>2
          <6>3. ChainOf(r)'
            BY <4>2, <6>1, <6>2 DEF ChainOf, Start, Concluded, LoserReason
          <6>4. RecordOf(r)'
            BY <4>2, <6>1, <6>2 DEF RecordOf
          <6> QED BY <6>3, <6>4
        <5> QED BY <5>1, <5>2
      <4>8. LateFirst'
        BY <4>1, <4>2, <4>6, HedgeAssumption DEF ChainInv, LateFirst
      <4> QED BY <4>7, <4>8 DEF ChainInv
    <3> QED BY <3>1, <3>2
  <2> QED BY <1>1, <2>1, <2>2 DEF LauncherStep
<1>2. CASE MainStep \/ ClientCancel
  <2>1. UNCHANGED <<outcomes, recorded, late, launched, winner, pc>> /\ attempts' \subseteq attempts
    BY <1>2 DEF MainStep, MainReceive, MainAbort, MainExplain, MainReturn, ClientCancel
  <2> QED BY <2>1, StillChain
<1>3. ASSUME NEW p \in Providers, TriggerThreshold(p) PROVE ChainInv'
  <2>1. UNCHANGED <<outcomes, recorded, late, launched, winner, pc, attempts>>
    BY <1>3 DEF TriggerThreshold
  <2> QED BY <2>1, StillChain
<1> QED BY <1>1, <1>2, <1>3

LEMMA ChainInvariant == Spec => []ChainInv
<1>1. Init => ChainInv
  <2> SUFFICES ASSUME Init PROVE ChainInv
    OBVIOUS
  <2>1. ASSUME NEW p \in Providers PROVE ChainOf(p) /\ RecordOf(p)
    <3>1. /\ outcomes[p] = <<>> /\ p \notin recorded /\ p \notin late /\ p \notin attempts
          /\ pc[p] = (IF p = First THEN "launched" ELSE "idle") /\ launched = {First}
      BY DEF Init, NoChain
    <3>2. ChainOf(p)
      BY <3>1 DEF ChainOf, Start
    <3>3. RecordOf(p)
      BY <3>1 DEF RecordOf
    <3> QED BY <3>2, <3>3
  <2> QED BY <2>1 DEF Init, ChainInv, LateFirst
<1>2. VerdictInv /\ SlotInv /\ WindowInv /\ ChainInv /\ [Next]_vars => ChainInv'
  <2>1. VerdictInv /\ SlotInv /\ WindowInv /\ ChainInv /\ Next => ChainInv'
    BY AttemptChain, OtherStepsChain DEF Next, VerdictInv
  <2>2. ChainInv /\ UNCHANGED vars => ChainInv'
    BY StillChain DEF vars, raceVars, chainVars
  <2> QED BY <2>1, <2>2
<1> QED BY <1>1, <1>2, VerdictInvariant, SlotInvariant, WindowInvariant, PTL DEF Spec

\* One conclusion for each attempt, whoever records it first, and the first candidate's own
\* failure in place of the placeholder.
LEMMA ChainIsToldOnce == ChainInv /\ SlotInv => OneConclusion
<1> SUFFICES ASSUME ChainInv, SlotInv PROVE OneConclusion
  OBVIOUS
<1>1. ASSUME NEW p \in Providers
      PROVE  Cardinality({i \in 1..Len(outcomes[p]) : outcomes[p][i] # "launched"}) <= 1
  <2> DEFINE said == {i \in 1..Len(outcomes[p]) : outcomes[p][i] # "launched"}
  <2>1. ChainOf(p)
    BY DEF ChainInv
  <2>2. \/ outcomes[p] = <<>> \/ outcomes[p] = <<"launched">>
        \/ \E e \in Conclusions : outcomes[p] = <<e>> \/ outcomes[p] = <<"launched", e>>
    <3>1. Conclusions \subseteq Reasons
      BY DEF Conclusions
    <3> QED BY <2>1, <3>1, StartIs DEF ChainOf
  <2>3. said = {} \/ said = {1} \/ said = {2}
    <3>1. CASE outcomes[p] = <<>>
      BY <3>1
    <3>2. CASE outcomes[p] = <<"launched">>
      BY <3>2
    <3>3. CASE \E e \in Conclusions : outcomes[p] = <<e>> \/ outcomes[p] = <<"launched", e>>
      <4>1. PICK e \in Conclusions : outcomes[p] = <<e>> \/ outcomes[p] = <<"launched", e>>
        BY <3>3
      <4>2. e # "launched"
        BY DEF Conclusions
      <4>3. CASE outcomes[p] = <<e>>
        <5>1. said = {1}
          BY <4>2, <4>3
        <5> QED BY <5>1
      <4>4. CASE outcomes[p] = <<"launched", e>>
        <5>1. Len(outcomes[p]) = 2 /\ outcomes[p][1] = "launched" /\ outcomes[p][2] = e
          BY <4>4
        <5>2. said = {2}
          BY <4>2, <5>1
        <5> QED BY <5>2
      <4> QED BY <4>1, <4>3, <4>4
    <3> QED BY <2>2, <3>1, <3>2, <3>3
  <2> HIDE DEF said
  <2>4. Cardinality({}) = 0 /\ Cardinality({1}) = 1 /\ Cardinality({2}) = 1
    BY FS_EmptySet, FS_Singleton
  <2>5. Cardinality(said) \in {0, 1}
    BY <2>3, <2>4
  <2>6. Cardinality(said) <= 1
    BY <2>5
  <2> QED BY <2>6 DEF said
<1>2. ASSUME First \in late, ~Billable
      PROVE  \E i \in 1..Len(outcomes[First]) : outcomes[First][i] = "failed"
  <2>1. outcomes[First] = <<"failed">>
    BY <1>2 DEF ChainInv, LateFirst
  <2> QED BY <2>1
<1> QED BY <1>1, <1>2 DEF OneConclusion

-----------------------------------------------------------------------------
(* What the caller is told: each result fits the verdict, and a race that ran *)
(* out of candidates has nobody left who could still add to the chain.        *)

Fits(r, over, aloft, chain) ==
  \/ r.kind = "stream"
  \/ r.kind \in {"abort", "terminal"} /\ over = TRUE
  \/ r.kind \in {"failed", "stateful"} /\ over = TRUE /\ aloft = {} /\ r.chain = chain

SenderWaits(p) ==
  pc[p] = "sending" => mu = p /\ lastFailure \in {"abort", "terminal"} /\ settled = TRUE

\* The first candidate leaves an open race only by a failure that has been noted.
ReasonKnown ==
  Open /\ pc[First] \notin {"launched", "planning", "flying"} =>
    lastFailure # "none" \/ stateful = TRUE

ChannelFits == \A i \in 1..Len(resultCh) : Fits(resultCh[i], settled, InFlight, outcomes)

CallerTold ==
  /\ mpc # "wait" => \/ Fits(out, settled, InFlight, outcomes)
                     \/ ctxDone = TRUE /\ out.kind = "abort"
  /\ mpc = "explain" => out.kind \in {"abort", "terminal"}

ResultInv ==
  /\ \A p \in Providers : SenderWaits(p)
  /\ ReasonKnown /\ ChannelFits /\ CallerTold

\* What fits goes on fitting: once the race is settled and empty nobody writes the chain.
Kept == /\ settled = TRUE => settled' = TRUE
        /\ settled = TRUE /\ InFlight = {} => InFlight' = {} /\ outcomes' = outcomes

LEMMA StillFits ==
  ASSUME Kept
  PROVE  \A r : Fits(r, settled, InFlight, outcomes) => Fits(r, settled', InFlight', outcomes')
  BY DEF Fits, Kept

LEMMA CallerStill ==
  ASSUME Kept, UNCHANGED <<mpc, out, ctxDone>>, CallerTold
  PROVE  CallerTold'
  BY StillFits DEF CallerTold

LEMMA ChannelStill ==
  ASSUME Kept, UNCHANGED resultCh, ChannelFits
  PROVE  ChannelFits'
  BY StillFits DEF ChannelFits

LEMMA ChannelMore ==
  ASSUME Kept, resultCh \in Seq(Results), NEW r \in Results, resultCh' = Append(resultCh, r),
         Fits(r, settled', InFlight', outcomes'), ChannelFits
  PROVE  ChannelFits'
<1>1. Len(resultCh') = Len(resultCh) + 1 /\ Len(resultCh) \in Nat
  OBVIOUS
<1> SUFFICES ASSUME NEW i \in 1..(Len(resultCh) + 1)
             PROVE  Fits(resultCh'[i], settled', InFlight', outcomes')
  BY <1>1 DEF ChannelFits
<1>2. CASE i = Len(resultCh) + 1
  <2>1. resultCh'[i] = r
    BY <1>2
  <2> QED BY <2>1
<1>3. CASE i # Len(resultCh) + 1
  <2>1. i \in 1..Len(resultCh) /\ resultCh'[i] = resultCh[i]
    BY <1>3
  <2> QED BY <2>1, StillFits DEF ChannelFits
<1> QED BY <1>2, <1>3

\* A race that ran out of candidates has a reason, and nobody in the air.
LEMMA ExhaustedFits ==
  ASSUME TypeOK, SlotInv, ResultInv, Open, active <= 0
  PROVE  /\ ExhaustedResult \in Results /\ InFlight = {}
         /\ ExhaustedResult.kind \in {"failed", "stateful"} /\ ExhaustedResult.chain = outcomes
<1>1. IsFiniteSet(InFlight) /\ Cardinality(InFlight) = 0
  BY InFlightFinite DEF SlotInv
<1>2. InFlight = {}
  BY <1>1, FS_EmptySet
<1>3. pc[First] \notin Flying
  BY <1>2, InFlightIs, HedgeAssumption
<1>4. lastFailure # "none" \/ stateful = TRUE
  BY <1>3 DEF ResultInv, ReasonKnown, Flying
<1>5. ExhaustedResult \in Results
  BY ExhaustedType DEF TypeOK, RaceTypes
<1>6. CASE lastFailure # "none"
  <2>1. ExhaustedResult = Result("failed", None, outcomes)
    BY <1>6 DEF ExhaustedResult
  <2> QED BY <1>2, <1>5, <2>1 DEF Result
<1>7. CASE lastFailure = "none"
  <2>1. ExhaustedResult = Result("stateful", None, outcomes)
    BY <1>4, <1>7 DEF ExhaustedResult
  <2> QED BY <1>2, <1>5, <2>1 DEF Result
<1> QED BY <1>6, <1>7

LEMMA FinishFits ==
  ASSUME TypeOK, SlotInv, ResultInv, NEW n \in Int, MaybeFinish(n), Open => n = active,
         UNCHANGED outcomes, InFlight' \subseteq InFlight
  PROVE  Kept /\ ChannelFits'
<1>1. Kept
  BY DEF Kept, MaybeFinish
<1>2. CASE Open /\ n <= 0 /\ noMore
  <2>1. settled' = TRUE /\ resultCh' = Append(resultCh, ExhaustedResult)
    BY <1>2 DEF MaybeFinish
  <2>2. /\ ExhaustedResult \in Results /\ InFlight = {}
        /\ ExhaustedResult.kind \in {"failed", "stateful"} /\ ExhaustedResult.chain = outcomes
    BY <1>2, ExhaustedFits
  <2>3. Fits(ExhaustedResult, settled', InFlight', outcomes')
    BY <2>1, <2>2 DEF Fits
  <2> QED BY <1>1, <2>1, <2>2, <2>3, ChannelMore DEF ResultInv, TypeOK, CallerTypes
<1>3. CASE ~(Open /\ n <= 0 /\ noMore)
  <2>1. UNCHANGED resultCh
    BY <1>3 DEF MaybeFinish
  <2> QED BY <1>1, <2>1, ChannelStill DEF ResultInv
<1> QED BY <1>2, <1>3

\* A step of an attempt in the air that is not the end of the race.
LEMMA FlyingStep ==
  ASSUME TypeOK, SlotInv, ResultInv, NEW p \in Providers, p \in InFlight,
         UNCHANGED <<settled, mu, resultCh, mainVars>>,
         \A q \in Providers \ {p} : pc'[q] = pc[q],
         pc'[p] # "sending",
         \A q \in Providers : pc[q] = "sending" => UNCHANGED lastFailure,
         ReasonKnown'
  PROVE  ResultInv'
<1>1. Kept
  BY DEF Kept
<1>2. ChannelFits' /\ CallerTold'
  BY <1>1, ChannelStill, CallerStill DEF ResultInv, mainVars
<1>3. \A q \in Providers : SenderWaits(q)'
  BY DEF ResultInv, SenderWaits
<1> QED BY <1>2, <1>3 DEF ResultInv

LEMMA NoSender == ResultInv /\ Free => \A q \in Providers : pc[q] # "sending"
  BY HedgeAssumption DEF ResultInv, SenderWaits, Free

LEMMA AttemptResult ==
  ASSUME TypeOK, SlotInv, VerdictInv, ResultInv, NEW p \in Providers, AttemptStep(p)
  PROVE  ResultInv'
<1> USE DEF raceVars, chainVars, windowVars, chanVars
<1>a. /\ pc \in [Providers -> Places] /\ First \in Providers /\ None \notin Providers
      /\ resultCh \in Seq(Results)
  BY HedgeAssumption DEF TypeOK, RaceTypes, CallerTypes
<1>b. pc[p] \in Flying <=> p \in InFlight
  BY InFlightIs
<1>c. pc[p] \in Judged => ~Open
  BY DEF SlotInv
<1>d. \A place : pc' = [pc EXCEPT ![p] = place] =>
        pc'[p] = place /\ \A q \in Providers \ {p} : pc'[q] = pc[q]
  BY <1>a
<1>e. ReasonKnown /\ ChannelFits /\ CallerTold /\ \A q \in Providers : SenderWaits(q)
  BY DEF ResultInv
<1>1. CASE Register(p)
  <2>1. /\ pc[p] = "launched" /\ pc' = [pc EXCEPT ![p] = "planning"]
        /\ UNCHANGED <<settled, winner, lastFailure, stateful, mu, resultCh, mainVars>>
    BY <1>1 DEF Register
  <2>2. ReasonKnown'
    BY <1>a, <1>d, <1>e, <2>1 DEF ReasonKnown, Open
  <2> QED BY <1>b, <1>d, <2>1, <2>2, FlyingStep DEF Flying
<1>2. CASE Dispatch(p)
  <2>1. /\ pc[p] = "planning" /\ pc' = [pc EXCEPT ![p] = "flying"]
        /\ UNCHANGED <<settled, winner, lastFailure, stateful, mu, resultCh, mainVars>>
    BY <1>2 DEF Dispatch
  <2>2. ReasonKnown'
    BY <1>a, <1>d, <1>e, <2>1 DEF ReasonKnown, Open
  <2> QED BY <1>b, <1>d, <2>1, <2>2, FlyingStep DEF Flying
<1>3. CASE SkipStateful(p)
  <2>1. /\ pc[p] = "planning" /\ pc' = [pc EXCEPT ![p] = "done"]
        /\ UNCHANGED <<settled, winner, lastFailure, mu, resultCh, mainVars>>
        /\ winner = None => stateful' = TRUE
    BY <1>3 DEF SkipStateful
  <2>2. ReasonKnown'
    BY <2>1 DEF ReasonKnown, Open
  <2> QED BY <1>b, <1>d, <2>1, <2>2, FlyingStep DEF Flying
<1>4. CASE Fail(p)
  <2>1. PICK kind \in FailureKinds(p) : FailLate(p, kind) \/ FailRace(p, kind) \/ FailOver(p, kind)
    BY <1>4 DEF Fail
  <2>2. pc[p] \in {"planning", "flying"} /\ Free /\ \A q \in Providers : pc[q] # "sending"
    BY <1>4, NoSender DEF Fail
  <2>3. p \in InFlight
    BY <1>b, <2>2 DEF Flying
  <2>4. kind # "none"
    BY DEF FailureKinds
  <2>5. CASE FailLate(p, kind)
    <3>1. /\ pc' = [pc EXCEPT ![p] = "done"] /\ winner' # None
          /\ UNCHANGED <<settled, winner, lastFailure, mu, resultCh, mainVars>>
      BY <2>5 DEF FailLate
    <3>2. ReasonKnown'
      BY <3>1 DEF ReasonKnown, Open
    <3>3. pc'[p] = "done" /\ \A q \in Providers \ {p} : pc'[q] = pc[q]
      BY <1>d, <3>1
    <3> QED BY <2>3, <3>1, <3>2, <3>3, FlyingStep
  <2>6. CASE FailOver(p, kind)
    <3>1. /\ pc' = [pc EXCEPT ![p] = "done"] /\ lastFailure' = kind
          /\ UNCHANGED <<settled, mu, resultCh, mainVars>>
      BY <2>6 DEF FailOver
    <3>2. ReasonKnown'
      BY <2>4, <3>1 DEF ReasonKnown
    <3> QED BY <1>d, <2>2, <2>3, <3>1, <3>2, FlyingStep
  <2>7. CASE FailRace(p, kind)
    <3> DEFINE r == Result(kind, p, NoChain)
    <3>1. /\ kind \in {"abort", "terminal"} /\ settled' = TRUE /\ lastFailure' = kind
          /\ SendLocked(p, r) /\ UNCHANGED mainVars
          /\ pc' = [pc EXCEPT ![p] = IF Len(resultCh) < 1 THEN "done" ELSE "sending"]
      BY <2>7 DEF FailRace
    <3>2. Kept
      BY <2>3, <3>1 DEF Kept
    <3>3. r \in Results /\ Fits(r, settled', InFlight', outcomes')
      BY <3>1, ResultType, NoChainType DEF FailureNames, Fits, Result
    <3>4. CallerTold'
      BY <1>e, <3>1, <3>2, CallerStill DEF mainVars
    <3>5. ReasonKnown'
      BY <3>1 DEF ReasonKnown, Open
    <3> HIDE DEF r
    <3>6. CASE Len(resultCh) < 1
      <4>1. resultCh' = Append(resultCh, r) /\ pc'[p] = "done"
        BY <1>d, <3>1, <3>6 DEF SendLocked
      <4>2. ChannelFits'
        BY <1>a, <1>e, <3>2, <3>3, <4>1, ChannelMore
      <4>3. \A q \in Providers : SenderWaits(q)'
        BY <1>d, <2>2, <3>1, <4>1 DEF SenderWaits
      <4> QED BY <3>4, <3>5, <4>2, <4>3 DEF ResultInv
    <3>7. CASE ~(Len(resultCh) < 1)
      <4>1. resultCh' = resultCh /\ mu' = p /\ pc'[p] = "sending"
        BY <1>d, <3>1, <3>7 DEF SendLocked
      <4>2. ChannelFits'
        BY <1>e, <3>2, <4>1, ChannelStill
      <4>3. \A q \in Providers : SenderWaits(q)'
        BY <1>d, <2>2, <3>1, <4>1 DEF SenderWaits
      <4> QED BY <3>4, <3>5, <4>2, <4>3 DEF ResultInv
    <3> QED BY <3>6, <3>7
  <2> QED BY <2>1, <2>5, <2>6, <2>7
<1>5. CASE FinishSend(p)
  <2> DEFINE r == Result(lastFailure, p, NoChain)
  <2>1. /\ pc[p] = "sending" /\ pc' = [pc EXCEPT ![p] = "done"] /\ resultCh' = Append(resultCh, r)
        /\ UNCHANGED <<settled, winner, outcomes, lastFailure, mainVars>>
    BY <1>5 DEF FinishSend
  <2>2. mu = p /\ lastFailure \in {"abort", "terminal"} /\ settled = TRUE
    BY <1>e, <2>1 DEF SenderWaits
  <2>3. InFlight' = InFlight
    BY <1>a, <2>1, InFlightIs, InFlightBecomes DEF Flying
  <2>4. Kept
    BY <2>1, <2>3 DEF Kept
  <2>5. r \in Results /\ Fits(r, settled', InFlight', outcomes')
    BY <2>1, <2>2, ResultType, NoChainType DEF FailureNames, Fits, Result
  <2> HIDE DEF r
  <2>6. ChannelFits' /\ CallerTold'
    BY <1>a, <1>e, <2>1, <2>4, <2>5, ChannelMore, CallerStill DEF mainVars
  <2>7. \A q \in Providers : SenderWaits(q)'
    BY <1>d, <1>e, <2>1, <2>2 DEF SenderWaits
  <2>8. ReasonKnown'
    BY <2>1, <2>2 DEF ReasonKnown, Open
  <2> QED BY <2>6, <2>7, <2>8 DEF ResultInv
<1>6. CASE ReportContent(p)
  <2>1. /\ pc[p] = "flying" /\ pc' \in {[pc EXCEPT ![p] = "commit"], [pc EXCEPT ![p] = "loser"]}
        /\ ~Open' /\ UNCHANGED <<settled, lastFailure, mu, resultCh, mainVars>>
    BY <1>6, <1>a DEF ReportContent, Open
  <2>2. ReasonKnown'
    BY <2>1 DEF ReasonKnown
  <2> QED BY <1>b, <1>d, <2>1, <2>2, FlyingStep DEF Flying
<1>7. CASE AppendWinner(p)
  <2>1. /\ pc[p] = "commit" /\ pc' = [pc EXCEPT ![p] = "deliver"]
        /\ UNCHANGED <<settled, winner, lastFailure, stateful, mu, resultCh, mainVars>>
    BY <1>7 DEF AppendWinner
  <2>2. ReasonKnown'
    BY <1>c, <2>1 DEF ReasonKnown, Open, Judged
  <2> QED BY <1>b, <1>d, <2>1, <2>2, FlyingStep DEF Flying
<1>8. CASE Deliver(p)
  <2> DEFINE r == Result("stream", p, NoChain)
  <2>1. /\ pc[p] = "deliver" /\ pc' = [pc EXCEPT ![p] = "won"] /\ resultCh' = Append(resultCh, r)
        /\ UNCHANGED <<settled, winner, lastFailure, stateful, outcomes, mu, mainVars>>
    BY <1>8 DEF Deliver
  <2>2. p \in InFlight
    BY <1>b, <2>1 DEF Flying
  <2>3. Kept
    BY <2>1, <2>2 DEF Kept
  <2>4. r \in Results /\ Fits(r, settled', InFlight', outcomes')
    BY ResultType, NoChainType DEF Fits, Result
  <2> HIDE DEF r
  <2>5. ChannelFits' /\ CallerTold'
    BY <1>a, <1>e, <2>1, <2>3, <2>4, ChannelMore, CallerStill DEF mainVars
  <2>6. \A q \in Providers : SenderWaits(q)'
    BY <1>d, <1>e, <2>1 DEF SenderWaits
  <2>7. ReasonKnown'
    BY <1>c, <2>1 DEF ReasonKnown, Open, Judged
  <2> QED BY <2>5, <2>6, <2>7 DEF ResultInv
<1>9. CASE RecordLoser(p)
  <2>1. /\ pc[p] = "loser" /\ pc' = [pc EXCEPT ![p] = "lost"]
        /\ UNCHANGED <<settled, winner, lastFailure, stateful, mu, resultCh, mainVars>>
    BY <1>9 DEF RecordLoser
  <2>2. ReasonKnown'
    BY <1>c, <2>1 DEF ReasonKnown, Open, Judged
  <2> QED BY <1>b, <1>d, <2>1, <2>2, FlyingStep DEF Flying
<1>10. CASE Decrement(p)
  <2>1. /\ pc[p] \in {"won", "lost"} /\ pc' = [pc EXCEPT ![p] = "done"]
        /\ MaybeFinish(active - 1) /\ ~Open
        /\ UNCHANGED <<winner, outcomes, lastFailure, stateful, mu, mainVars>>
    BY <1>10, <1>c DEF Decrement, Judged
  <2>2. InFlight' \subseteq InFlight
    BY <1>a, <2>1, InFlightIs, InFlightBecomes DEF Flying
  <2>3. active - 1 \in Int
    BY DEF TypeOK, RaceTypes
  <2>4. Kept /\ ChannelFits'
    BY <2>1, <2>2, <2>3, FinishFits
  <2>5. ~Open' /\ settled' = settled
    BY <2>1 DEF MaybeFinish, Open
  <2>6. \A q \in Providers : SenderWaits(q)'
    BY <1>d, <1>e, <2>1, <2>5 DEF SenderWaits
  <2>7. CallerTold' /\ ReasonKnown'
    BY <1>e, <2>1, <2>4, <2>5, CallerStill DEF ReasonKnown, mainVars
  <2> QED BY <2>4, <2>6, <2>7 DEF ResultInv
<1> QED
  BY <1>1, <1>2, <1>3, <1>4, <1>5, <1>6, <1>7, <1>8, <1>9, <1>10 DEF AttemptStep

LEMMA LauncherResult ==
  ASSUME TypeOK, SlotInv, WindowInv, ResultInv, NEW l \in Launchers, LauncherStep(l)
  PROVE  ResultInv'
<1> USE DEF raceVars, chainVars, windowVars, chanVars
<1>e. ReasonKnown /\ ChannelFits /\ CallerTold /\ \A q \in Providers : SenderWaits(q)
  BY DEF ResultInv
<1>1. CASE EnterWindow(l) \/ SelectNone(l) \/ SelectError(l) \/ SelectSome(l) \/ SkipSelect(l)
             \/ LeaveWindow(l)
  <2>1. UNCHANGED <<pc, winner, settled, stateful, outcomes, mu, resultCh, mainVars>>
    BY <1>1 DEF EnterWindow, SelectNone, SelectError, SelectSome, SkipSelect, LeaveWindow
  <2>2. \/ lastFailure' = lastFailure
        \/ (\A q \in Providers : pc[q] # "sending") /\ lastFailure' # "none"
    <3>1. CASE SelectError(l)
      BY <3>1, NoSender DEF SelectError
    <3> QED BY <1>1, <3>1 DEF EnterWindow, SelectNone, SelectSome, SkipSelect, LeaveWindow
  <2>3. InFlight' = InFlight
    BY <2>1, InFlightIs, InFlightBecomes
  <2>4. ChannelFits' /\ CallerTold'
    BY <1>e, <2>1, <2>3, ChannelStill, CallerStill DEF Kept, mainVars
  <2>5. ReasonKnown'
    BY <1>e, <2>1, <2>2 DEF ReasonKnown, Open
  <2>6. \A q \in Providers : SenderWaits(q)'
    BY <1>e, <2>1, <2>2 DEF SenderWaits
  <2> QED BY <2>4, <2>5, <2>6 DEF ResultInv
<1>2. CASE FinishIfExhausted(l)
  <2>1. MaybeFinish(active) /\ UNCHANGED <<pc, winner, stateful, outcomes, lastFailure, mu, mainVars>>
    BY <1>2 DEF FinishIfExhausted
  <2>2. InFlight' = InFlight
    BY <2>1, InFlightIs, InFlightBecomes
  <2>3. Kept /\ ChannelFits'
    BY <2>1, <2>2, FinishFits DEF TypeOK, RaceTypes
  <2>4. CallerTold'
    BY <1>e, <2>1, <2>3, CallerStill DEF mainVars
  <2>5. settled = TRUE => settled' = TRUE
    BY <2>3 DEF Kept
  <2>6. ReasonKnown' /\ \A q \in Providers : SenderWaits(q)'
    BY <1>e, <2>1, <2>5 DEF ReasonKnown, SenderWaits, Open, MaybeFinish
  <2> QED BY <2>3, <2>4, <2>6 DEF ResultInv
<1>3. CASE LaunchAttempt(l)
  <2>1. UNCHANGED <<winner, settled, stateful, lastFailure, mu, resultCh, mainVars>>
    BY <1>3 DEF LaunchAttempt
  <2>2. \/ Admits /\ \E q \in Providers : pc' = [pc EXCEPT ![q] = "launched"]
        \/ UNCHANGED <<pc, outcomes>>
    BY <1>3 DEF LaunchAttempt, TypeOK, WindowTypes
  <2>3. \A q \in Providers : pc'[q] = pc[q] \/ pc'[q] = "launched"
    BY <2>2 DEF TypeOK, RaceTypes
  <2>4. Kept
    <3>1. CASE Admits
      BY <2>1, <3>1 DEF Kept, Admits, Open
    <3>2. CASE UNCHANGED <<pc, outcomes>>
      BY <2>1, <3>2, InFlightIs, InFlightBecomes DEF Kept
    <3> QED BY <2>2, <3>1, <3>2
  <2>5. ChannelFits' /\ CallerTold'
    BY <1>e, <2>1, <2>4, ChannelStill, CallerStill DEF mainVars
  <2>6. ReasonKnown'
    BY <1>e, <2>1, <2>3, HedgeAssumption DEF ReasonKnown, Open
  <2>7. \A q \in Providers : SenderWaits(q)'
    BY <1>e, <2>1, <2>3 DEF SenderWaits
  <2> QED BY <2>5, <2>6, <2>7 DEF ResultInv
<1> QED
  BY <1>1, <1>2, <1>3 DEF LauncherStep

LEMMA CallerResult ==
  ASSUME TypeOK, ResultInv, MainStep \/ ClientCancel \/ \E p \in Providers : TriggerThreshold(p)
  PROVE  ResultInv'
<1> USE DEF raceVars, chainVars, windowVars, chanVars, mainVars
<1>e. ReasonKnown /\ ChannelFits /\ CallerTold /\ \A q \in Providers : SenderWaits(q)
  BY DEF ResultInv
<1>0. UNCHANGED <<pc, winner, settled, stateful, lastFailure, outcomes, mu>>
  BY DEF MainStep, MainReceive, MainAbort, MainExplain, MainReturn, ClientCancel, TriggerThreshold
<1>1. InFlight' = InFlight
  BY <1>0, InFlightIs, InFlightBecomes
<1>2. Kept /\ ReasonKnown' /\ \A q \in Providers : SenderWaits(q)'
  BY <1>0, <1>1, <1>e DEF Kept, ReasonKnown, SenderWaits, Open
<1>3. CASE MainReceive
  <2>1. /\ resultCh # <<>> /\ resultCh' = Tail(resultCh) /\ out' = Head(resultCh)
        /\ mpc' = IF Head(resultCh).kind \in {"abort", "terminal"} THEN "explain" ELSE "clear"
    BY <1>3 DEF MainReceive
  <2>2. /\ Head(resultCh) = resultCh[1] /\ 1 \in 1..Len(resultCh)
        /\ \A i \in 1..Len(Tail(resultCh)) : i + 1 \in 1..Len(resultCh) /\ Tail(resultCh)[i] = resultCh[i + 1]
    BY <2>1 DEF TypeOK, CallerTypes
  <2>3. ChannelFits'
    BY <1>0, <1>1, <1>e, <2>1, <2>2 DEF ChannelFits
  <2>4. Fits(out', settled, InFlight, outcomes)
    BY <1>e, <2>1, <2>2 DEF ChannelFits
  <2>5. CallerTold'
    BY <1>0, <1>1, <2>1, <2>4 DEF CallerTold
  <2> QED BY <1>2, <2>3, <2>5 DEF ResultInv
<1>4. CASE ~MainReceive
  <2>1. UNCHANGED resultCh
    BY <1>4 DEF MainStep, MainAbort, MainExplain, MainReturn, ClientCancel, TriggerThreshold
  <2>2. ChannelFits'
    BY <1>2, <1>e, <2>1, ChannelStill
  <2>3. CallerTold'
    <3>1. CASE MainAbort
      BY <3>1, <1>0 DEF MainAbort, CallerTold, Result
    <3>2. CASE MainExplain
      <4>1. out'.kind = out.kind /\ out.kind \in {"abort", "terminal"} /\ mpc' = "clear"
        BY <3>2, <1>e DEF MainExplain, CallerTold, TypeOK, CallerTypes, Results
      <4>2. mpc # "wait" /\ ctxDone' = ctxDone
        BY <3>2 DEF MainExplain
      <4> QED BY <1>0, <1>1, <1>e, <4>1, <4>2 DEF CallerTold, Fits
    <3>3. CASE MainReturn
      <4>1. mpc = "clear" /\ mpc' = "returned" /\ UNCHANGED <<out, ctxDone>>
        BY <3>3 DEF MainReturn
      <4> QED BY <1>0, <1>1, <1>e, <4>1 DEF CallerTold
    <3>4. CASE ClientCancel
      BY <1>0, <1>1, <1>e, <3>4 DEF ClientCancel, CallerTold
    <3>5. ASSUME NEW p \in Providers, TriggerThreshold(p) PROVE CallerTold'
      <4>1. UNCHANGED <<mpc, out, ctxDone>>
        BY <3>5 DEF TriggerThreshold
      <4> QED BY <1>2, <1>e, <4>1, CallerStill
    <3> QED BY <1>4, <3>1, <3>2, <3>3, <3>4, <3>5 DEF MainStep
  <2> QED BY <1>2, <2>2, <2>3 DEF ResultInv
<1> QED BY <1>3, <1>4

LEMMA ResultInvariant == Spec => []ResultInv
<1>1. Init => ResultInv
  <2> SUFFICES ASSUME Init PROVE ResultInv
    OBVIOUS
  <2>1. \A p \in Providers : pc[p] = IF p = First THEN "launched" ELSE "idle"
    BY DEF Init
  <2>2. resultCh = <<>> /\ mpc = "wait"
    BY DEF Init
  <2> QED BY <2>1, <2>2, HedgeAssumption
      DEF ResultInv, SenderWaits, ReasonKnown, ChannelFits, CallerTold
<1>2. VerdictInv /\ SlotInv /\ WindowInv /\ ResultInv /\ [Next]_vars => ResultInv'
  <2>1. VerdictInv /\ SlotInv /\ WindowInv /\ ResultInv /\ Next => ResultInv'
    BY AttemptResult, LauncherResult, CallerResult DEF Next, VerdictInv
  <2>2. ResultInv /\ UNCHANGED vars => ResultInv'
    <3> SUFFICES ASSUME ResultInv, UNCHANGED vars PROVE ResultInv'
      OBVIOUS
    <3>1. InFlight' = InFlight
      BY InFlightIs, InFlightBecomes DEF vars
    <3>2. Kept
      BY <3>1 DEF Kept, vars, raceVars, chainVars
    <3>3. ChannelFits' /\ CallerTold'
      BY <3>2, ChannelStill, CallerStill DEF ResultInv, vars, chanVars, mainVars
    <3> QED BY <3>3 DEF ResultInv, SenderWaits, ReasonKnown, Open, vars, raceVars, chanVars
  <2> QED BY <2>1, <2>2
<1> QED BY <1>1, <1>2, VerdictInvariant, SlotInvariant, WindowInvariant, PTL DEF Spec

\* The chain tells of every attempt once (appendOutcomeLocked, correctLosingPlaceholder), and
\* the result of a race without candidates has a reason and the whole chain.
THEOREM ChainTellsEverything == Spec => []ChainTellsAll
<1>1. ResultInv => ExhaustedChainComplete
  BY DEF ResultInv, CallerTold, Fits, ExhaustedChainComplete
<1> QED BY <1>1, ChainIsToldOnce, ChainInvariant, SlotInvariant, ResultInvariant, PTL DEF ChainTellsAll

\* Only a client that left leaves a winner without a reader, for any race.
THEOREM OrphansAreOfClients == Spec => []OrphansOnlyOfClients
<1>1. ResultInv /\ VerdictInv => OrphansOnlyOfClients
  BY DEF ResultInv, VerdictInv, CallerTold, Fits, OrphansOnlyOfClients
<1> QED BY <1>1, VerdictInvariant, ResultInvariant, PTL

-----------------------------------------------------------------------------
(* The race implements a single verdict and a single answer: each of its steps gives the *)
(* verdict, tells it, or does neither.                                                   *)

\* An abort in the channel is some attempt's; only a client that left has one of its own.
AbortsNamed == \A i \in 1..Len(resultCh) : resultCh[i].kind = "abort" => resultCh[i].who # None
AnswerInv == AbortsNamed /\ (mpc = "wait" => out.kind # "stream")

LEMMA AppendNamed ==
  ASSUME AnswerInv, resultCh \in Seq(Results), NEW r \in Results,
         r.kind = "abort" => r.who # None,
         resultCh' = Append(resultCh, r), UNCHANGED <<mpc, out>>
  PROVE  AnswerInv'
<1>1. ASSUME NEW i \in 1..Len(resultCh'), resultCh'[i].kind = "abort" PROVE resultCh'[i].who # None
  <2>1. CASE i \in 1..Len(resultCh)
    <3>1. resultCh'[i] = resultCh[i]
      BY <2>1
    <3> QED BY <1>1, <2>1, <3>1 DEF AnswerInv, AbortsNamed
  <2>2. CASE i = Len(resultCh) + 1
    BY <1>1, <2>2
  <2> QED BY <2>1, <2>2
<1> QED BY <1>1 DEF AnswerInv, AbortsNamed

LEMMA SameAnswers ==
  ASSUME AnswerInv, UNCHANGED <<resultCh, mpc, out>>
  PROVE  AnswerInv'
  BY DEF AnswerInv, AbortsNamed

LEMMA FinishNames ==
  ASSUME TypeOK, AnswerInv, NEW n \in Int, MaybeFinish(n), UNCHANGED <<mpc, out>>
  PROVE  AnswerInv'
<1>1. ExhaustedResult \in Results
  BY ExhaustedType DEF TypeOK, RaceTypes
<1>2. ExhaustedResult.kind # "abort"
  <2>1. \/ lastFailure # "none"
        \/ lastFailure = "none" /\ stateful
        \/ ~(lastFailure # "none") /\ ~(lastFailure = "none" /\ stateful)
    OBVIOUS
  <2> QED BY <2>1 DEF ExhaustedResult, Result
<1>3. CASE Open /\ n <= 0 /\ noMore
  BY <1>1, <1>2, <1>3, AppendNamed DEF MaybeFinish, TypeOK, CallerTypes
<1>4. CASE ~(Open /\ n <= 0 /\ noMore)
  BY <1>4, SameAnswers DEF MaybeFinish
<1> QED BY <1>3, <1>4

LEMMA AnswerStep == TypeOK /\ AnswerInv /\ [Next]_vars => AnswerInv'
<1> SUFFICES ASSUME TypeOK, AnswerInv, [Next]_vars PROVE AnswerInv'
  OBVIOUS
<1> USE DEF raceVars, chainVars, windowVars, chanVars, mainVars
<1>t. resultCh \in Seq(Results) /\ active \in Int /\ active - 1 \in Int
  BY DEF TypeOK, CallerTypes, RaceTypes
<1>1. ASSUME NEW p \in Providers, Register(p) \/ Dispatch(p) \/ SkipStateful(p) \/ ReportContent(p)
               \/ AppendWinner(p) \/ RecordLoser(p) \/ TriggerThreshold(p)
      PROVE  AnswerInv'
  <2>1. UNCHANGED <<resultCh, mpc, out>>
    BY <1>1 DEF Register, Dispatch, SkipStateful, ReportContent, AppendWinner, RecordLoser,
       TriggerThreshold
  <2> QED BY <2>1, SameAnswers
<1>2. ASSUME NEW p \in Providers, Fail(p) PROVE AnswerInv'
  <2>1. PICK kind \in FailureKinds(p) : FailLate(p, kind) \/ FailRace(p, kind) \/ FailOver(p, kind)
    BY <1>2 DEF Fail
  <2>2. CASE FailLate(p, kind) \/ FailOver(p, kind)
    <3>1. UNCHANGED <<resultCh, mpc, out>>
      BY <2>2 DEF FailLate, FailOver
    <3> QED BY <3>1, SameAnswers
  <2>3. CASE FailRace(p, kind)
    <3>1. /\ kind \in {"abort", "terminal"} /\ SendLocked(p, Result(kind, p, NoChain))
          /\ UNCHANGED <<mpc, out>>
      BY <2>3 DEF FailRace
    <3>2. /\ Result(kind, p, NoChain) \in Results
          /\ Result(kind, p, NoChain).kind = "abort" => Result(kind, p, NoChain).who # None
      BY <3>1, ResultType, NoChainType, HedgeAssumption DEF FailureNames, Result
    <3>3. CASE Len(resultCh) < 1
      BY <1>t, <3>1, <3>2, <3>3, AppendNamed DEF SendLocked
    <3>4. CASE ~(Len(resultCh) < 1)
      BY <3>1, <3>4, SameAnswers DEF SendLocked
    <3> QED BY <3>3, <3>4
  <2> QED BY <2>1, <2>2, <2>3
<1>3. ASSUME NEW p \in Providers, FinishSend(p) PROVE AnswerInv'
  <2>1. /\ Result(lastFailure, p, NoChain) \in Results
        /\ Result(lastFailure, p, NoChain).who # None
    BY ResultType, NoChainType, HedgeAssumption DEF TypeOK, RaceTypes, FailureNames, Result
  <2>2. resultCh' = Append(resultCh, Result(lastFailure, p, NoChain)) /\ UNCHANGED <<mpc, out>>
    BY <1>3 DEF FinishSend
  <2> QED BY <1>t, <2>1, <2>2, AppendNamed
<1>4. ASSUME NEW p \in Providers, Deliver(p) PROVE AnswerInv'
  <2>1. /\ Result("stream", p, NoChain) \in Results
        /\ Result("stream", p, NoChain).who # None
    BY ResultType, NoChainType, HedgeAssumption DEF Result
  <2>2. resultCh' = Append(resultCh, Result("stream", p, NoChain)) /\ UNCHANGED <<mpc, out>>
    BY <1>4 DEF Deliver
  <2> QED BY <1>t, <2>1, <2>2, AppendNamed
<1>5. ASSUME NEW p \in Providers, Decrement(p) PROVE AnswerInv'
  <2>1. MaybeFinish(active - 1) /\ UNCHANGED <<mpc, out>>
    BY <1>5 DEF Decrement
  <2> QED BY <1>t, <2>1, FinishNames
<1>6. ASSUME NEW l \in Launchers, LauncherStep(l) PROVE AnswerInv'
  <2>1. CASE FinishIfExhausted(l)
    <3>1. MaybeFinish(active) /\ UNCHANGED <<mpc, out>>
      BY <2>1 DEF FinishIfExhausted
    <3> QED BY <1>t, <3>1, FinishNames
  <2>2. CASE ~FinishIfExhausted(l)
    <3>1. UNCHANGED <<resultCh, mpc, out>>
      BY <1>6, <2>2 DEF LauncherStep, EnterWindow, SelectNone, SelectError, SelectSome, SkipSelect,
         LaunchAttempt, LeaveWindow
    <3> QED BY <3>1, SameAnswers
  <2> QED BY <2>1, <2>2
<1>7. CASE MainReceive
  <2>1. \A i \in 1..Len(Tail(resultCh)) : i + 1 \in 1..Len(resultCh) /\ Tail(resultCh)[i] = resultCh[i + 1]
    BY <1>t, <1>7 DEF MainReceive
  <2>2. mpc' # "wait" /\ resultCh' = Tail(resultCh)
    BY <1>7 DEF MainReceive
  <2> QED BY <2>1, <2>2 DEF AnswerInv, AbortsNamed
<1>8. CASE MainAbort \/ MainExplain \/ MainReturn \/ ClientCancel
  <2>1. resultCh' = resultCh
    BY <1>8 DEF MainAbort, MainExplain, MainReturn, ClientCancel
  <2>2. mpc' # "wait" \/ UNCHANGED <<mpc, out>>
    BY <1>8 DEF MainAbort, MainExplain, MainReturn, ClientCancel
  <2> QED BY <2>1, <2>2 DEF AnswerInv, AbortsNamed
<1>9. CASE UNCHANGED vars
  BY <1>9, SameAnswers DEF vars
<1> QED BY <1>1, <1>2, <1>3, <1>4, <1>5, <1>6, <1>7, <1>8, <1>9 DEF Next, AttemptStep, MainStep

\* What gives no verdict and tells nobody is no step of the abstract race.
LEMMA NothingSaid ==
  ASSUME UNCHANGED <<winner, settled, mpc, out, ctxDone>>
  PROVE  UNCHANGED Race!verdictVars
  BY DEF Race!verdictVars, Given, Told

LEMMA GivenUp ==
  ASSUME ~(winner # None /\ settled), winner' = None, settled \in BOOLEAN, settled' = TRUE,
         UNCHANGED <<winner, mpc, out, ctxDone>>
  PROVE  [Race!VerdictNext]_Race!verdictVars
<1>1. CASE settled
  <2>1. settled' = settled
    BY <1>1
  <2> QED BY <2>1, NothingSaid
<1>2. CASE ~settled
  <2>1. Given = "open" /\ Given' = "lost" /\ Told' = Told
    BY <1>2 DEF Given, Told
  <2>2. Race!Lose
    BY <2>1 DEF Race!Lose
  <2> QED BY <2>2 DEF Race!VerdictNext
<1> QED BY <1>1, <1>2

LEMMA FinishIsAVerdict ==
  ASSUME VerdictInv, NEW n \in Int, MaybeFinish(n), UNCHANGED <<winner, mpc, out, ctxDone>>
  PROVE  [Race!VerdictNext]_Race!verdictVars
<1>1. CASE Open /\ n <= 0 /\ noMore
  <2>1. settled' = TRUE /\ winner' = None /\ settled \in BOOLEAN
    BY <1>1 DEF MaybeFinish, Open, VerdictInv, TypeOK, RaceTypes
  <2> QED BY <2>1, GivenUp DEF VerdictInv
<1>2. CASE ~(Open /\ n <= 0 /\ noMore)
  BY <1>2, NothingSaid DEF MaybeFinish
<1> QED BY <1>1, <1>2

LEMMA AttemptIsAVerdict ==
  ASSUME VerdictInv, NEW p \in Providers, AttemptStep(p)
  PROVE  [Race!VerdictNext]_Race!verdictVars
<1> USE DEF raceVars, chainVars, windowVars, chanVars, mainVars
<1>t. active - 1 \in Int /\ settled \in BOOLEAN
  BY DEF VerdictInv, TypeOK, RaceTypes
<1>1. CASE Register(p) \/ Dispatch(p) \/ SkipStateful(p) \/ FinishSend(p) \/ AppendWinner(p)
           \/ Deliver(p) \/ RecordLoser(p)
  <2>1. UNCHANGED <<winner, settled, mpc, out, ctxDone>>
    BY <1>1 DEF Register, Dispatch, SkipStateful, FinishSend, AppendWinner, Deliver, RecordLoser
  <2> QED BY <2>1, NothingSaid
<1>2. CASE Fail(p)
  <2>1. PICK kind \in FailureKinds(p) : FailLate(p, kind) \/ FailRace(p, kind) \/ FailOver(p, kind)
    BY <1>2 DEF Fail
  <2>2. CASE FailLate(p, kind) \/ FailOver(p, kind)
    <3>1. UNCHANGED <<winner, settled, mpc, out, ctxDone>>
      BY <2>2 DEF FailLate, FailOver
    <3> QED BY <3>1, NothingSaid
  <2>3. CASE FailRace(p, kind)
    <3>1. winner = None /\ winner' = winner /\ settled' = TRUE /\ UNCHANGED <<mpc, out, ctxDone>>
      BY <2>3 DEF FailRace
    <3> QED BY <1>t, <3>1, GivenUp
  <2> QED BY <2>1, <2>2, <2>3
<1>3. CASE ReportContent(p)
  <2>1. CASE Open
    <3>1. /\ winner = None /\ settled = FALSE /\ winner' = p /\ p # None
          /\ UNCHANGED <<settled, mpc, out, ctxDone>>
      BY <1>3, <1>t, <2>1, HedgeAssumption DEF ReportContent, Open
    <3>2. Given = "open" /\ Given' = "won" /\ Told' = Told
      BY <3>1 DEF Given, Told
    <3>3. Race!Win(p)
      BY <3>1, <3>2 DEF Race!Win
    <3> QED BY <3>3 DEF Race!VerdictNext
  <2>2. CASE ~Open
    BY <1>3, <2>2, NothingSaid DEF ReportContent
  <2> QED BY <2>1, <2>2
<1>4. CASE Decrement(p)
  BY <1>4, <1>t, FinishIsAVerdict DEF Decrement
<1> QED BY <1>1, <1>2, <1>3, <1>4 DEF AttemptStep

LEMMA CallerIsAnAnswer ==
  ASSUME VerdictInv, ResultInv, AnswerInv, MainStep \/ ClientCancel
  PROVE  [Race!VerdictNext]_Race!verdictVars
<1> USE DEF raceVars, chainVars, windowVars, chanVars, mainVars
<1>1. CASE MainReceive
  <2> DEFINE r == resultCh[1]
  <2>1. 1 \in 1..Len(resultCh) /\ Head(resultCh) = r
    BY <1>1 DEF MainReceive, VerdictInv, TypeOK, CallerTypes
  <2>2. /\ mpc = "wait" /\ mpc' # "wait" /\ out' = r
        /\ UNCHANGED <<winner, settled, ctxDone>>
    BY <1>1, <2>1 DEF MainReceive
  <2>3. Told = "nothing" /\ Given' = Given /\ out.kind # "stream"
    BY <2>2 DEF Told, Given, AnswerInv
  <2>4. CASE r.kind = "stream"
    <3>1. winner # None /\ r.who = winner
      BY <2>1, <2>4 DEF VerdictInv, WinnersStream
    <3>2. Given = "won" /\ Told' = "stream"
      BY <2>2, <2>4, <3>1 DEF Given, Told
    <3>3. Race!TellStream
      BY <2>2, <2>3, <2>4, <3>1, <3>2 DEF Race!TellStream
    <3> QED BY <3>3 DEF Race!VerdictNext
  <2>5. CASE r.kind # "stream"
    <3>1. settled = TRUE
      BY <2>1, <2>5 DEF ResultInv, ChannelFits, Fits
    <3>2. Given = "lost"
      BY <3>1 DEF VerdictInv, Given
    <3>3. Told' = "failure"
      BY <2>1, <2>2, <2>5 DEF Told, AnswerInv, AbortsNamed
    <3>4. Race!TellFailure
      BY <2>2, <2>3, <2>5, <3>2, <3>3 DEF Race!TellFailure
    <3> QED BY <3>4 DEF Race!VerdictNext
  <2> QED BY <2>4, <2>5
<1>2. CASE MainAbort
  <2>1. /\ mpc = "wait" /\ mpc' = "explain" /\ ctxDone = TRUE
        /\ out'.kind = "abort" /\ out'.who = None /\ out.kind # "stream"
        /\ UNCHANGED <<winner, settled, ctxDone>>
    BY <1>2 DEF MainAbort, Result, AnswerInv, VerdictInv, TypeOK, CallerTypes
  <2>2. Told = "nothing" /\ Told' = "abort" /\ Given' = Given
    BY <2>1 DEF Told, Given
  <2>3. Race!TellAbort
    BY <2>1, <2>2 DEF Race!TellAbort
  <2> QED BY <2>3 DEF Race!VerdictNext
<1>3. CASE MainExplain
  <2>1. out'.kind = out.kind /\ out'.who = out.who
    BY <1>3 DEF MainExplain, VerdictInv, TypeOK, CallerTypes, Results
  <2>2. mpc # "wait" /\ mpc' # "wait" /\ UNCHANGED <<winner, settled, ctxDone>>
    BY <1>3 DEF MainExplain
  <2> QED BY <2>1, <2>2 DEF Race!verdictVars, Given, Told
<1>4. CASE MainReturn
  <2>1. mpc # "wait" /\ mpc' # "wait" /\ UNCHANGED <<winner, settled, ctxDone, out>>
    BY <1>4 DEF MainReturn
  <2> QED BY <2>1 DEF Race!verdictVars, Given, Told
<1>5. CASE ClientCancel
  <2>1. ctxDone = FALSE /\ ctxDone' = TRUE /\ UNCHANGED <<winner, settled, mpc, out>>
    BY <1>5 DEF ClientCancel, VerdictInv, TypeOK, CallerTypes
  <2>2. Race!ClientLeaves
    BY <2>1 DEF Race!ClientLeaves, Given, Told
  <2> QED BY <2>2 DEF Race!VerdictNext
<1> QED BY <1>1, <1>2, <1>3, <1>4, <1>5 DEF MainStep

LEMMA StepIsAVerdict ==
  ASSUME VerdictInv, ResultInv, AnswerInv, [Next]_vars
  PROVE  [Race!VerdictNext]_Race!verdictVars
<1> USE DEF raceVars, chainVars, windowVars, chanVars, mainVars
<1>1. ASSUME NEW p \in Providers, TriggerThreshold(p) PROVE [Race!VerdictNext]_Race!verdictVars
  BY <1>1, NothingSaid DEF TriggerThreshold
<1>2. ASSUME NEW l \in Launchers, LauncherStep(l) PROVE [Race!VerdictNext]_Race!verdictVars
  <2>1. CASE FinishIfExhausted(l)
    BY <2>1, FinishIsAVerdict DEF FinishIfExhausted, VerdictInv, TypeOK, RaceTypes
  <2>2. CASE ~FinishIfExhausted(l)
    <3>1. UNCHANGED <<winner, settled, mpc, out, ctxDone>>
      BY <1>2, <2>2 DEF LauncherStep, EnterWindow, SelectNone, SelectError, SelectSome, SkipSelect,
         LaunchAttempt, LeaveWindow
    <3> QED BY <3>1, NothingSaid
  <2> QED BY <2>1, <2>2
<1>3. CASE UNCHANGED vars
  BY <1>3, NothingSaid DEF vars
<1> QED BY <1>1, <1>2, <1>3, AttemptIsAVerdict, CallerIsAnAnswer DEF Next

\* hedge.go: whatever attempts, launchers and the caller do, the race decides once, the caller
\* is told once, what was decided, and hears of an abort of its own only if its client left.
THEOREM RaceImplementsVerdict == Spec => OneAnswer
<1>1. Init => Race!VerdictInit /\ AnswerInv
  <2> SUFFICES ASSUME Init PROVE Race!VerdictInit /\ AnswerInv
    OBVIOUS
  <2>1. out.kind = "none" /\ mpc = "wait" /\ resultCh = <<>> /\ winner = None /\ settled = FALSE
        /\ ctxDone = FALSE
    BY DEF Init, Result
  <2>2. Given = "open" /\ Told = "nothing"
    BY <2>1 DEF Given, Told
  <2> QED BY <2>1, <2>2 DEF Race!VerdictInit, AnswerInv, AbortsNamed
<1>2. VerdictInv /\ AnswerInv /\ [Next]_vars => AnswerInv'
  BY AnswerStep DEF VerdictInv
<1>3. VerdictInv /\ ResultInv /\ AnswerInv /\ [Next]_vars => [Race!VerdictNext]_Race!verdictVars
  BY StepIsAVerdict
<1> QED BY <1>1, <1>2, <1>3, VerdictInvariant, ResultInvariant, PTL DEF Spec, OneAnswer, Race!VerdictSpec

-----------------------------------------------------------------------------
(* A decided race comes to an end.  Who is busy and what was sent fits into   *)
(* the slots; so, with two of them, whoever keeps mu while it waits for room  *)
(* in the channel has a caller that will make it.                             *)

Busy == {p \in Providers : pc[p] \notin {"idle", "done"}}
Sent == Len(resultCh) + (IF mpc = "wait" THEN 0 ELSE 1)
Decided == winner # None \/ settled

RoomOK ==
  winner = None /\ ~ctxDone =>
    Cardinality(Busy) + Sent <= active \/ (Busy = {} /\ Sent <= 1)

\* A decision is on its way to the caller, or with it.
ToldOK ==
  /\ Len(resultCh) <= 1
  /\ Open => resultCh = <<>> /\ (mpc = "wait" \/ ctxDone)
  /\ settled => mpc # "wait" \/ resultCh # <<>>
  /\ winner # None => \/ pc[winner] \in {"commit", "deliver"} /\ resultCh = <<>>
                      \/ pc[winner] \in {"won", "done"} /\ (mpc # "wait" \/ resultCh # <<>>)
  /\ mu # None => pc[mu] = "sending"

EndsInv == VerdictInv /\ SlotInv /\ ResultInv /\ RoomOK /\ ToldOK

LEMMA BusyIsFinite ==
  ASSUME TypeOK, SlotInv
  PROVE  /\ IsFiniteSet(Busy) /\ Cardinality(Busy) \in Nat
         /\ Len(resultCh) \in Nat /\ Sent \in Nat /\ active \in Nat
<1>1. Busy \subseteq launched
  BY DEF Busy, SlotInv
<1>2. Len(resultCh) \in Nat
  BY DEF TypeOK, CallerTypes
<1> QED BY <1>1, <1>2, ActiveIsNat, FS_Subset, FS_CardinalityType DEF SlotInv, Sent

\* Nobody comes, and each one that goes leaves its slot to one result, or gives it back.
LEMMA RoomKept ==
  ASSUME TypeOK, SlotInv, RoomOK, winner' = None => winner = None, ~ctxDone' => ~ctxDone,
         \/ Busy' = Busy /\ Sent' = Sent /\ active' = active
         \/ \E p \in Busy : /\ Busy' = Busy \ {p}
                            /\ \/ Sent' = Sent + 1 /\ active' = active
                               \/ Sent' = Sent /\ active' = active - 1
  PROVE  RoomOK'
<1> SUFFICES ASSUME winner' = None, ~ctxDone'
             PROVE  Cardinality(Busy') + Sent' <= active' \/ (Busy' = {} /\ Sent' <= 1)
  BY DEF RoomOK
<1>1. Cardinality(Busy) + Sent <= active \/ (Busy = {} /\ Sent <= 1)
  BY DEF RoomOK
<1>2. /\ IsFiniteSet(Busy) /\ Cardinality(Busy) \in Nat /\ Sent \in Nat /\ active \in Nat
  BY BusyIsFinite
<1>3. CASE Busy' = Busy /\ Sent' = Sent /\ active' = active
  BY <1>1, <1>3
<1>4. ASSUME NEW p \in Busy, Busy' = Busy \ {p},
             \/ Sent' = Sent + 1 /\ active' = active
             \/ Sent' = Sent /\ active' = active - 1
      PROVE  Cardinality(Busy') + Sent' <= active'
  <2>1. Cardinality(Busy') = Cardinality(Busy) - 1
    BY <1>2, <1>4, FS_RemoveElement
  <2>2. Cardinality(Busy) + Sent <= active
    BY <1>1, <1>4
  <2> QED BY <1>2, <1>4, <2>1, <2>2
<1> QED BY <1>3, <1>4

\* An attempt that is neither the winner nor the sender moves; the results stay.
LEMMA ToldStill ==
  ASSUME ToldOK, UNCHANGED <<winner, settled, resultCh, mu, ctxDone, mpc>>, NEW p,
         pc[p] \in {"launched", "planning", "flying", "loser", "lost"},
         \A q \in Providers \ {p} : pc'[q] = pc[q],
         winner \in Providers \cup {None}, mu \in Providers \cup {None}
  PROVE  ToldOK'
<1>1. winner # None => pc'[winner] = pc[winner]
  BY DEF ToldOK
<1>2. mu # None => pc'[mu] = pc[mu]
  BY DEF ToldOK
<1> QED BY <1>1, <1>2 DEF ToldOK, Open

LEMMA AttemptEnds ==
  ASSUME EndsInv, NEW p \in Providers, AttemptStep(p)
  PROVE  RoomOK' /\ ToldOK'
<1> USE DEF EndsInv, raceVars, chainVars, windowVars, chanVars, mainVars
<1>t. /\ TypeOK /\ pc \in [Providers -> Places] /\ resultCh \in Seq(Results) /\ None \notin Providers
      /\ winner \in Providers \cup {None} /\ mu \in Providers \cup {None}
  BY HedgeAssumption DEF VerdictInv, TypeOK, RaceTypes, CallerTypes
<1>b. /\ pc[p] \notin {"idle", "done"} => p \in Busy
      /\ \A place \in Places : pc' = [pc EXCEPT ![p] = place] =>
           /\ \A q \in Providers \ {p} : pc'[q] = pc[q]
           /\ pc'[p] = place
           /\ place = "done" => Busy' = Busy \ {p}
           /\ place \notin {"idle", "done"} /\ p \in Busy => Busy' = Busy
  BY <1>t DEF Busy
<1>s. ASSUME UNCHANGED <<resultCh, mpc>> PROVE Sent' = Sent
  BY <1>s DEF Sent
<1>a. ASSUME NEW r, resultCh = <<>>, resultCh' = Append(resultCh, r), UNCHANGED mpc
      PROVE  Sent' = Sent + 1 /\ Len(resultCh') = 1 /\ resultCh' # <<>>
  <2>1. resultCh' = <<r>>
    BY <1>a
  <2>2. Len(resultCh') = 1 /\ Len(resultCh) = 0 /\ resultCh' # <<>>
    BY <1>a, <2>1
  <2> QED BY <1>a, <2>2 DEF Sent
<1>e. Len(resultCh) < 1 => resultCh = <<>>
  BY <1>t
<1>1. CASE Register(p) \/ Dispatch(p) \/ RecordLoser(p)
  <2>1. PICK place \in {"planning", "flying", "lost"} :
          /\ pc' = [pc EXCEPT ![p] = place] /\ pc[p] \in {"launched", "planning", "loser"}
          /\ UNCHANGED <<winner, settled, resultCh, mu, ctxDone, mpc, active>>
    BY <1>1 DEF Register, Dispatch, RecordLoser
  <2>2. place \in Places
    BY DEF Places
  <2>3. Busy' = Busy /\ Sent' = Sent
    BY <1>b, <1>s, <2>1, <2>2
  <2>4. ToldOK'
    BY <1>t, <1>b, <2>1, <2>2, ToldStill
  <2> QED BY <1>t, <2>1, <2>3, <2>4, RoomKept
<1>2. CASE SkipStateful(p) \/ \E kind : FailOver(p, kind) /\ Fail(p)
  <2>1. /\ pc' = [pc EXCEPT ![p] = "done"] /\ pc[p] \in {"planning", "flying"}
        /\ active' = active - 1
        /\ UNCHANGED <<winner, settled, resultCh, mu, ctxDone, mpc>>
    BY <1>2 DEF SkipStateful, FailOver, Fail
  <2>2. p \in Busy /\ Busy' = Busy \ {p} /\ Sent' = Sent
    BY <1>b, <1>s, <2>1 DEF Places
  <2>3. ToldOK'
    BY <1>t, <1>b, <2>1, ToldStill DEF Places
  <2> QED BY <1>t, <2>1, <2>2, <2>3, RoomKept
<1>3. ASSUME NEW kind, FailLate(p, kind), Fail(p) PROVE RoomOK' /\ ToldOK'
  <2>1. /\ pc' = [pc EXCEPT ![p] = "done"] /\ pc[p] \in {"planning", "flying"}
        /\ winner # None /\ UNCHANGED <<winner, settled, resultCh, mu, ctxDone, mpc>>
    BY <1>3 DEF FailLate, Fail
  <2>2. ToldOK'
    BY <1>t, <1>b, <2>1, ToldStill DEF Places
  <2> QED BY <2>1, <2>2 DEF RoomOK
<1>4. ASSUME NEW kind, FailRace(p, kind), Fail(p) PROVE RoomOK' /\ ToldOK'
  <2>1. /\ winner = None /\ settled' = TRUE /\ pc[p] \in {"planning", "flying"} /\ mu = None
        /\ SendLocked(p, Result(kind, p, NoChain))
        /\ pc' = [pc EXCEPT ![p] = IF Len(resultCh) < 1 THEN "done" ELSE "sending"]
        /\ UNCHANGED <<active, winner, ctxDone, mpc>>
    BY <1>4 DEF FailRace, Fail, Free
  <2>2. CASE Len(resultCh) < 1
    <3>1. /\ resultCh' = Append(resultCh, Result(kind, p, NoChain)) /\ mu' = None
          /\ pc' = [pc EXCEPT ![p] = "done"]
      BY <2>1, <2>2 DEF SendLocked
    <3>2. Sent' = Sent + 1 /\ Len(resultCh') = 1 /\ resultCh' # <<>>
      BY <1>a, <1>e, <2>1, <2>2, <3>1
    <3>3. p \in Busy /\ Busy' = Busy \ {p}
      BY <1>b, <2>1, <3>1 DEF Places
    <3>4. ToldOK'
      BY <2>1, <3>1, <3>2 DEF ToldOK, Open
    <3> QED BY <1>t, <2>1, <3>2, <3>3, <3>4, RoomKept
  <2>3. CASE ~(Len(resultCh) < 1)
    <3>1. resultCh' = resultCh /\ mu' = p /\ pc' = [pc EXCEPT ![p] = "sending"]
      BY <2>1, <2>3 DEF SendLocked
    <3>2. Busy' = Busy /\ Sent' = Sent /\ pc'[p] = "sending"
      BY <1>b, <1>s, <2>1, <3>1 DEF Places
    <3>3. resultCh # <<>>
      BY <2>3
    <3>4. ToldOK'
      BY <2>1, <3>1, <3>2, <3>3 DEF ToldOK, Open
    <3> QED BY <1>t, <2>1, <3>2, <3>4, RoomKept
  <2> QED BY <2>2, <2>3
<1>5. CASE FinishSend(p)
  <2>1. /\ pc[p] = "sending" /\ resultCh = <<>> /\ mu' = None
        /\ resultCh' = Append(resultCh, Result(lastFailure, p, NoChain))
        /\ pc' = [pc EXCEPT ![p] = "done"]
        /\ UNCHANGED <<active, winner, settled, ctxDone, mpc>>
    BY <1>e, <1>5 DEF FinishSend
  <2>2. settled = TRUE /\ winner = None
    BY <2>1 DEF ResultInv, SenderWaits, VerdictInv
  <2>3. Sent' = Sent + 1 /\ Len(resultCh') = 1 /\ resultCh' # <<>>
    BY <1>a, <2>1
  <2>4. p \in Busy /\ Busy' = Busy \ {p}
    BY <1>b, <2>1 DEF Places
  <2>5. ToldOK'
    BY <2>1, <2>2, <2>3 DEF ToldOK, Open
  <2> QED BY <1>t, <2>1, <2>2, <2>3, <2>4, <2>5, RoomKept
<1>6. CASE ReportContent(p)
  <2>0. pc[p] = "flying" /\ mu = None /\ UNCHANGED <<settled, resultCh, mu, ctxDone, mpc, active>>
    BY <1>6 DEF ReportContent, Free
  <2>1. CASE Open
    <3>1. winner' = p /\ pc' = [pc EXCEPT ![p] = "commit"]
      BY <1>6, <2>1 DEF ReportContent
    <3>2. resultCh = <<>> /\ ~settled /\ pc'[p] = "commit"
      BY <1>b, <2>1, <3>1 DEF ToldOK, Open, Places
    <3> QED BY <1>t, <2>0, <3>1, <3>2 DEF ToldOK, RoomOK, Open
  <2>2. CASE ~Open
    <3>1. UNCHANGED winner /\ pc' = [pc EXCEPT ![p] = "loser"]
      BY <1>6, <2>2 DEF ReportContent
    <3>2. Busy' = Busy /\ Sent' = Sent
      BY <1>b, <1>s, <2>0, <3>1 DEF Places
    <3>3. ToldOK'
      BY <1>t, <1>b, <2>0, <3>1, ToldStill DEF Places
    <3> QED BY <1>t, <2>0, <3>1, <3>2, <3>3, RoomKept
  <2> QED BY <2>1, <2>2
<1>7. CASE AppendWinner(p) \/ Deliver(p)
  <2>1. /\ pc[p] \in {"commit", "deliver"} /\ mu = None
        /\ UNCHANGED <<winner, settled, mu, ctxDone, mpc>>
    BY <1>7 DEF AppendWinner, Deliver, Free
  <2>2. winner = p /\ ~settled /\ resultCh = <<>>
    BY <1>t, <2>1 DEF VerdictInv, Committed, ToldOK
  <2>3. \/ pc' = [pc EXCEPT ![p] = "deliver"] /\ UNCHANGED resultCh
        \/ pc' = [pc EXCEPT ![p] = "won"] /\ resultCh' = Append(resultCh, Result("stream", p, NoChain))
    BY <1>7 DEF AppendWinner, Deliver
  <2>4. \/ pc'[p] = "deliver" /\ resultCh' = <<>>
        \/ pc'[p] = "won" /\ resultCh' # <<>> /\ Len(resultCh') = 1
    BY <1>a, <1>b, <2>1, <2>2, <2>3 DEF Places
  <2>5. Len(resultCh') <= 1
    <3>1. Len(<<>>) = 0
      OBVIOUS
    <3>2. CASE resultCh' = <<>>
      BY <3>1, <3>2
    <3>3. CASE Len(resultCh') = 1
      BY <3>3
    <3> QED BY <2>4, <3>2, <3>3
  <2>6. RoomOK'
    BY <1>t, <2>1, <2>2 DEF RoomOK
  <2>7. ToldOK'
    BY <1>t, <2>1, <2>2, <2>4, <2>5 DEF ToldOK, Open
  <2> QED BY <2>6, <2>7
<1>8. CASE Decrement(p)
  <2>1. /\ pc[p] \in {"won", "lost"} /\ mu = None /\ active' = active - 1
        /\ pc' = [pc EXCEPT ![p] = "done"] /\ UNCHANGED <<winner, mu, ctxDone, mpc>>
    BY <1>8 DEF Decrement, Free
  <2>2. ~Open
    BY <2>1 DEF SlotInv, Judged
  <2>3. UNCHANGED <<settled, resultCh>>
    BY <1>8, <2>2 DEF Decrement, MaybeFinish
  <2>4. p \in Busy /\ Busy' = Busy \ {p} /\ Sent' = Sent
    BY <1>b, <1>s, <2>1, <2>3 DEF Places
  <2>5. ToldOK'
    <3>1. winner # None => pc'[winner] = IF winner = p THEN "done" ELSE pc[winner]
      BY <1>t, <1>b, <2>1 DEF Places
    <3>2. winner = p => pc[winner] \in {"won", "done"} /\ (mpc # "wait" \/ resultCh # <<>>)
      BY <1>t, <2>1 DEF ToldOK
    <3> QED BY <2>1, <2>2, <2>3, <3>1, <3>2 DEF ToldOK, Open
  <2> QED BY <1>t, <2>1, <2>4, <2>5, RoomKept
<1>9. CASE Fail(p)
  BY <1>2, <1>3, <1>4, <1>9 DEF Fail
<1> QED BY <1>1, <1>2, <1>5, <1>6, <1>7, <1>8, <1>9 DEF AttemptStep

LEMMA OthersEnd ==
  ASSUME EndsInv,
         (\E l \in Launchers : LauncherStep(l)) \/ MainStep \/ ClientCancel
           \/ (\E p \in Providers : TriggerThreshold(p)) \/ UNCHANGED vars
  PROVE  RoomOK' /\ ToldOK'
<1> USE DEF EndsInv, raceVars, chainVars, windowVars, chanVars, mainVars
<1>t. /\ TypeOK /\ pc \in [Providers -> Places] /\ resultCh \in Seq(Results) /\ None \notin Providers
      /\ winner \in Providers \cup {None}
  BY HedgeAssumption DEF VerdictInv, TypeOK, RaceTypes, CallerTypes
<1>f. ASSUME UNCHANGED <<winner, settled, active, resultCh, mu, pc, mpc>>, ctxDone => ctxDone'
      PROVE  RoomOK' /\ ToldOK'
  <2>1. Busy' = Busy /\ Sent' = Sent
    BY <1>f DEF Busy, Sent
  <2> QED BY <1>t, <1>f, <2>1, RoomKept DEF ToldOK, Open
<1>1. ASSUME NEW l \in Launchers, LauncherStep(l) PROVE RoomOK' /\ ToldOK'
  <2>1. CASE EnterWindow(l) \/ SelectNone(l) \/ SelectError(l) \/ SelectSome(l) \/ SkipSelect(l)
               \/ LeaveWindow(l)
    <3>1. UNCHANGED <<winner, settled, active, resultCh, mu, pc, mpc, ctxDone>>
      BY <2>1 DEF EnterWindow, SelectNone, SelectError, SelectSome, SkipSelect, LeaveWindow
    <3> QED BY <1>f, <3>1
  <2>2. CASE FinishIfExhausted(l)
    <3>1. UNCHANGED <<winner, active, mu, pc, mpc, ctxDone>> /\ MaybeFinish(active)
      BY <2>2 DEF FinishIfExhausted
    <3>2. CASE Open /\ active <= 0 /\ noMore
      <4>1. settled' = TRUE /\ resultCh' = Append(resultCh, ExhaustedResult) /\ resultCh = <<>>
        BY <3>1, <3>2 DEF MaybeFinish, ToldOK
      <4>2. Len(resultCh') = 1 /\ Len(resultCh) = 0 /\ resultCh' # <<>>
        <5>1. resultCh' = <<ExhaustedResult>>
          BY <4>1
        <5> QED BY <4>1, <5>1
      <4>3. Busy = {}
        <5>1. InFlight = {}
          BY <1>t, <3>2, ExhaustedFits
        <5>2. \A p \in Providers : pc[p] \notin Judged
          BY <3>2 DEF SlotInv
        <5> QED BY <1>t, <5>1, <5>2, InFlightIs DEF Busy, Flying, Judged, Places
      <4>4. Busy' = {}
        BY <3>1, <4>3 DEF Busy
      <4>5. ~ctxDone' => Sent' = 1
        BY <3>1, <3>2, <4>2 DEF ToldOK, Sent
      <4> QED BY <3>1, <3>2, <4>1, <4>2, <4>4, <4>5 DEF RoomOK, ToldOK, Open
    <3>3. CASE ~(Open /\ active <= 0 /\ noMore)
      BY <1>f, <3>1, <3>3 DEF MaybeFinish
    <3> QED BY <3>2, <3>3
  <2>3. CASE LaunchAttempt(l)
    <3>1. CASE Admits
      <4> DEFINE q == lnext[l]
      <4>0. q \in Providers
        BY <1>t, <2>3 DEF LaunchAttempt, TypeOK, WindowTypes
      <4>1. /\ active' = active + 1 /\ pc' = [pc EXCEPT ![q] = "launched"] /\ mu = None /\ Open
            /\ UNCHANGED <<winner, settled, resultCh, mu, mpc, ctxDone>>
        BY <2>3, <3>1 DEF LaunchAttempt, Admits, Free
      <4> HIDE DEF q
      <4>2. Busy' = Busy \cup {q} /\ Sent' = Sent
        BY <1>t, <4>0, <4>1 DEF Busy, Sent, Places
      <4>3. ToldOK'
        BY <4>1 DEF ToldOK, Open
      <4>4. /\ IsFiniteSet(Busy) /\ Cardinality(Busy) \in Nat /\ Sent \in Nat /\ active \in Nat
        BY <1>t, BusyIsFinite
      <4>5. Cardinality(Busy') <= Cardinality(Busy) + 1 /\ Cardinality(Busy') \in Nat
        <5>1. CASE q \in Busy
          <6>1. Busy' = Busy
            BY <4>2, <5>1
          <6> QED BY <4>4, <6>1
        <5>2. CASE q \notin Busy
          <6>1. Cardinality(Busy \cup {q}) = Cardinality(Busy) + 1
            BY <4>4, <5>2, FS_AddElement
          <6>2. Cardinality(Busy') = Cardinality(Busy) + 1
            BY <4>2, <6>1
          <6> QED BY <4>4, <6>2
        <5> QED BY <5>1, <5>2
      <4>6. ~ctxDone => Sent = 0 /\ (Busy = {} => Cardinality(Busy) = 0)
        <5>1. ~ctxDone => mpc = "wait" /\ resultCh = <<>>
          BY <4>1 DEF ToldOK
        <5> QED BY <5>1, FS_EmptySet DEF Sent
      <4>7. ~ctxDone' => Cardinality(Busy') + Sent' <= active'
        <5>1. ~ctxDone' => Cardinality(Busy) <= active
          BY <4>1, <4>4, <4>6 DEF RoomOK, Open
        <5> QED BY <4>1, <4>2, <4>4, <4>5, <4>6, <5>1
      <4> QED BY <4>3, <4>7 DEF RoomOK
    <3>2. CASE ~Admits
      BY <1>f, <2>3, <3>2 DEF LaunchAttempt
    <3> QED BY <3>1, <3>2
  <2> QED BY <1>1, <2>1, <2>2, <2>3 DEF LauncherStep
<1>2. CASE MainReceive
  <2>1. /\ mpc = "wait" /\ mpc' # "wait" /\ resultCh # <<>> /\ resultCh' = Tail(resultCh)
        /\ UNCHANGED <<winner, settled, active, mu, pc, ctxDone>>
    BY <1>2 DEF MainReceive
  <2>2. Len(resultCh) = 1 /\ Len(resultCh') = 0
    <3>1. Len(resultCh) \in Nat /\ Len(resultCh) # 0 /\ Len(resultCh') = Len(resultCh) - 1
      BY <1>t, <2>1
    <3> QED BY <3>1 DEF ToldOK
  <2>3. Busy' = Busy /\ Sent' = Sent
    BY <2>1, <2>2 DEF Busy, Sent
  <2>4. ~Open /\ (winner # None => pc[winner] \in {"won", "done"}) /\ (mu # None => pc[mu] = "sending")
    BY <2>1 DEF ToldOK
  <2>5. ToldOK'
    <3>1. Len(resultCh') <= 1
      BY <2>2
    <3> QED BY <2>1, <2>4, <3>1 DEF ToldOK, Open
  <2> QED BY <1>t, <2>1, <2>3, <2>5, RoomKept
<1>3. CASE MainAbort
  <2>1. /\ ctxDone /\ ctxDone' /\ mpc' # "wait"
        /\ UNCHANGED <<winner, settled, active, resultCh, mu, pc>>
    BY <1>3 DEF MainAbort
  <2> QED BY <2>1 DEF RoomOK, ToldOK, Open
<1>4. CASE MainExplain \/ MainReturn
  <2>1. /\ mpc # "wait" /\ mpc' # "wait"
        /\ UNCHANGED <<winner, settled, active, resultCh, mu, pc, ctxDone>>
    BY <1>4 DEF MainExplain, MainReturn
  <2>2. Busy' = Busy /\ Sent' = Sent
    BY <2>1 DEF Busy, Sent
  <2> QED BY <1>t, <2>1, <2>2, RoomKept DEF ToldOK, Open
<1>5. CASE ClientCancel \/ UNCHANGED vars
  BY <1>f, <1>5 DEF ClientCancel, vars
<1>6. ASSUME NEW p \in Providers, TriggerThreshold(p) PROVE RoomOK' /\ ToldOK'
  BY <1>f, <1>6 DEF TriggerThreshold
<1> QED BY <1>1, <1>2, <1>3, <1>4, <1>5, <1>6 DEF MainStep

LEMMA EndsInvariant == Spec => []EndsInv
<1>1. Init => RoomOK /\ ToldOK
  <2> SUFFICES ASSUME Init PROVE RoomOK /\ ToldOK
    OBVIOUS
  <2>1. Busy = {First}
    BY HedgeAssumption DEF Init, Busy
  <2>2. Cardinality({First}) = 1
    BY FS_Singleton
  <2>3. resultCh = <<>> /\ Len(resultCh) = 0 /\ mpc = "wait" /\ active = 1 /\ mu = None
        /\ winner = None /\ settled = FALSE
    BY DEF Init
  <2>4. Sent = 0
    BY <2>3 DEF Sent
  <2> QED BY <2>1, <2>2, <2>3, <2>4 DEF RoomOK, ToldOK, Open
<1>2. EndsInv /\ [Next]_vars => RoomOK' /\ ToldOK'
  BY AttemptEnds, OthersEnd DEF Next
<1> QED BY <1>1, <1>2, VerdictInvariant, SlotInvariant, ResultInvariant, PTL DEF Spec, EndsInv

\* What an attempt and the caller still have before them, in steps of a decided race.
AttemptRank(place) ==
  CASE place = "launched" -> 6
    [] place = "planning" -> 5
    [] place = "flying" -> 4
    [] place = "commit" -> 3
    [] place \in {"deliver", "loser"} -> 2
    [] place \in {"won", "lost", "sending"} -> 1
    [] OTHER -> 0

CallerRank(place) ==
  CASE place = "wait" -> 3
    [] place = "explain" -> 2
    [] place = "clear" -> 1
    [] OTHER -> 0

Before(p, q) == AttemptRank(pc[p]) + (IF q = p THEN 0 ELSE AttemptRank(pc[q])) + CallerRank(mpc)

AllOver == ctxDone \/ (mpc = "returned" /\ Busy = {})

\* Decided, with p and q the only ones that are busy, and fewer than n steps before them.
Below(p, q, n) == Decided /\ Busy \subseteq {p, q} /\ Before(p, q) < n

LEMMA BeforeIsNat == ASSUME NEW p, NEW q PROVE Before(p, q) \in 0..15
<1>1. \A place : AttemptRank(place) \in 0..6 /\ CallerRank(place) \in 0..3
  BY DEF AttemptRank, CallerRank
<1>2. /\ AttemptRank(pc[p]) \in 0..6 /\ AttemptRank(pc[q]) \in 0..6 /\ CallerRank(mpc) \in 0..3
  BY <1>1
<1> QED BY <1>2 DEF Before

\* With two slots, two attempts at most are busy once the race is decided.
LEMMA TwoAreBusy ==
  ASSUME EndsInv, MaxInFlight <= 2, Decided, ~ctxDone
  PROVE  \E p, q \in Providers : Busy \subseteq {p, q}
<1>1. /\ IsFiniteSet(Busy) /\ Cardinality(Busy) \in Nat /\ Sent \in Nat /\ active \in Nat
  BY BusyIsFinite DEF EndsInv, VerdictInv
<1>2. active <= 2
  BY <1>1, HedgeAssumption DEF EndsInv, SlotInv
<1>3. Busy = {} \/ Cardinality(Busy) <= 2
  <2>1. CASE winner = None
    BY <1>1, <1>2, <2>1 DEF EndsInv, RoomOK
  <2>2. CASE winner # None
    <3>1. \A p \in Providers : pc[p] # "sending" /\ pc[p] \in Places
      BY <2>2 DEF EndsInv, VerdictInv, ResultInv, SenderWaits, TypeOK, RaceTypes
    <3>2. Busy = InFlight
      BY <3>1 DEF Busy, InFlight, Places
    <3> QED BY <1>1, <1>2, <3>2 DEF EndsInv, SlotInv
  <2> QED BY <2>1, <2>2
<1>4. CASE Busy = {}
  BY <1>4, HedgeAssumption
<1>5. ASSUME NEW p \in Busy, Cardinality(Busy) <= 2
      PROVE  \E q \in Providers : Busy \subseteq {p, q}
  <2>1. IsFiniteSet(Busy \ {p}) /\ Cardinality(Busy \ {p}) = Cardinality(Busy) - 1
    BY <1>1, FS_RemoveElement
  <2>2. CASE Busy \ {p} = {}
    BY <2>2 DEF Busy
  <2>3. ASSUME NEW q \in Busy \ {p} PROVE Busy \subseteq {p, q}
    <3>1. /\ IsFiniteSet((Busy \ {p}) \ {q})
          /\ Cardinality((Busy \ {p}) \ {q}) = Cardinality(Busy \ {p}) - 1
      BY <2>1, FS_RemoveElement
    <3>2. Cardinality((Busy \ {p}) \ {q}) \in Nat
      BY <3>1, FS_CardinalityType
    <3>3. Cardinality((Busy \ {p}) \ {q}) = 0
      BY <1>1, <1>5, <2>1, <3>1, <3>2
    <3> QED BY <3>1, <3>3, FS_EmptySet
  <2> QED BY <2>2, <2>3 DEF Busy
<1> QED BY <1>3, <1>4, <1>5 DEF Busy

\* As long as it is not over, somebody waits neither for mu nor for room in the channel:
\* who keeps mu over a full channel leaves room for one result only, so the caller waits.
LEMMA SomebodyGoesOn ==
  ASSUME EndsInv, MaxInFlight <= 2, Decided, ~AllOver
  PROVE  (\E p \in Busy : AttemptCanGoOn(p)) \/ CallerCanGoOn
<1>t. /\ mu \in Providers \cup {None} /\ winner \in Providers \cup {None} /\ resultCh \in Seq(Results)
      /\ \A p \in Providers : pc[p] = "sending" => mu = p /\ settled
  BY DEF EndsInv, VerdictInv, TypeOK, RaceTypes, CallerTypes, ResultInv, SenderWaits
<1>1. CASE mu # None
  <2>1. mu \in Busy /\ pc[mu] = "sending" /\ winner = None
    BY <1>t, <1>1 DEF EndsInv, ToldOK, Busy, VerdictInv
  <2>2. /\ IsFiniteSet(Busy) /\ Cardinality(Busy) \in Nat /\ Sent \in Nat /\ active \in Nat
        /\ active <= 2
    BY BusyIsFinite, HedgeAssumption DEF EndsInv, VerdictInv, SlotInv
  <2>3. Cardinality(Busy) # 0
    BY <2>1, <2>2, FS_EmptySet
  <2>4. Sent <= 1
    BY <2>1, <2>2, <2>3 DEF EndsInv, RoomOK, AllOver
  <2>5. CASE resultCh = <<>>
    BY <2>1, <2>5 DEF AttemptCanGoOn
  <2>6. CASE resultCh # <<>>
    <3>1. Len(resultCh) \in Nat /\ Len(resultCh) # 0
      BY <1>t, <2>6
    <3>2. mpc = "wait"
      BY <2>4, <3>1 DEF Sent
    <3> QED BY <2>6, <3>2 DEF CallerCanGoOn
  <2> QED BY <2>5, <2>6
<1>2. ASSUME mu = None, NEW p \in Busy PROVE AttemptCanGoOn(p)
  <2>1. p \in Providers /\ pc[p] \notin {"idle", "done", "sending"}
    BY <1>t, <1>2, HedgeAssumption DEF Busy
  <2>2. pc[p] = "deliver" => resultCh = <<>>
    BY <2>1, HedgeAssumption DEF EndsInv, VerdictInv, Committed, ToldOK
  <2> QED BY <1>2, <2>1, <2>2 DEF AttemptCanGoOn, Free
<1>3. CASE mu = None /\ Busy = {}
  <2>1. mpc = "wait" => resultCh # <<>>
    <3>1. winner # None => pc[winner] \in {"idle", "done"}
      BY <1>t, <1>3 DEF Busy
    <3> QED BY <3>1 DEF Decided, EndsInv, ToldOK
  <2> QED BY <1>3, <2>1 DEF CallerCanGoOn, AllOver, Free
<1> QED BY <1>1, <1>2, <1>3

\* A step of an attempt of a decided race brings that attempt nearer to its end.
LEMMA AttemptComesNearer ==
  ASSUME EndsInv, Decided, NEW a \in Providers, AttemptStep(a)
  PROVE  /\ a \in Busy /\ Decided' /\ UNCHANGED <<mpc, ctxDone>>
         /\ \E place \in Places : /\ pc' = [pc EXCEPT ![a] = place]
                                  /\ AttemptRank(place) < AttemptRank(pc[a])
<1> USE DEF raceVars, chainVars, windowVars, chanVars, mainVars
<1>t. ~Open
  BY DEF Decided, Open
<1>m. UNCHANGED <<mpc, ctxDone>>
  BY DEF AttemptStep, Register, Dispatch, SkipStateful, Fail, FailLate, FailRace, FailOver, FinishSend,
         ReportContent, AppendWinner, Deliver, RecordLoser, Decrement
<1>d. Decided'
  BY <1>t DEF AttemptStep, Register, Dispatch, SkipStateful, Fail, FailLate, FailRace, FailOver,
         FinishSend, ReportContent, AppendWinner, Deliver, RecordLoser, Decrement, MaybeFinish, Decided
<1>p. \E place \in Places :
        /\ pc' = [pc EXCEPT ![a] = place]
        /\ \/ pc[a] = "launched" /\ place = "planning"
           \/ pc[a] = "planning" /\ place = "flying"
           \/ pc[a] \in {"planning", "flying"} /\ place \in {"done", "sending"}
           \/ pc[a] = "sending" /\ place = "done"
           \/ pc[a] = "flying" /\ place = "loser"
           \/ pc[a] = "commit" /\ place = "deliver"
           \/ pc[a] = "deliver" /\ place = "won"
           \/ pc[a] = "loser" /\ place = "lost"
           \/ pc[a] \in {"won", "lost"} /\ place = "done"
  <2>1. CASE Register(a) \/ Dispatch(a) \/ SkipStateful(a) \/ FinishSend(a)
    BY <2>1 DEF Register, Dispatch, SkipStateful, FinishSend, Places
  <2>2. CASE Fail(a)
    <3>1. PICK kind : FailLate(a, kind) \/ FailRace(a, kind) \/ FailOver(a, kind)
      BY <2>2 DEF Fail
    <3>2. pc[a] \in {"planning", "flying"}
      BY <2>2 DEF Fail
    <3>3. pc' = [pc EXCEPT ![a] = "done"] \/ pc' = [pc EXCEPT ![a] = "sending"]
      BY <3>1 DEF FailLate, FailRace, FailOver
    <3> QED BY <3>2, <3>3 DEF Places
  <2>3. CASE ReportContent(a) \/ AppendWinner(a) \/ Deliver(a)
    BY <1>t, <2>3 DEF ReportContent, AppendWinner, Deliver, Places
  <2>4. CASE RecordLoser(a) \/ Decrement(a)
    BY <2>4 DEF RecordLoser, Decrement, Places
  <2> QED BY <2>1, <2>2, <2>3, <2>4 DEF AttemptStep
<1>1. PICK place \in Places :
        /\ pc' = [pc EXCEPT ![a] = place]
        /\ \/ pc[a] = "launched" /\ place = "planning"
           \/ pc[a] = "planning" /\ place = "flying"
           \/ pc[a] \in {"planning", "flying"} /\ place \in {"done", "sending"}
           \/ pc[a] = "sending" /\ place = "done"
           \/ pc[a] = "flying" /\ place = "loser"
           \/ pc[a] = "commit" /\ place = "deliver"
           \/ pc[a] = "deliver" /\ place = "won"
           \/ pc[a] = "loser" /\ place = "lost"
           \/ pc[a] \in {"won", "lost"} /\ place = "done"
  BY <1>p
<1>2. AttemptRank(place) < AttemptRank(pc[a])
  BY <1>1 DEF AttemptRank
<1>3. a \in Busy
  BY <1>1 DEF Busy
<1> QED BY <1>m, <1>d, <1>1, <1>2, <1>3

\* So does a step of the caller, and no other step moves either of them, mu or the channel.
LEMMA NobodyElseMoves ==
  ASSUME EndsInv, Decided,
         (\E l \in Launchers : LauncherStep(l)) \/ ClientCancel
           \/ (\E p \in Providers : TriggerThreshold(p)) \/ UNCHANGED vars
  PROVE  Decided' /\ UNCHANGED <<pc, mpc, mu, resultCh>>
<1> USE DEF raceVars, chainVars, windowVars, chanVars, mainVars
<1>t. ~Open
  BY DEF Decided, Open
<1>1. ASSUME NEW l \in Launchers, LauncherStep(l)
      PROVE  Decided' /\ UNCHANGED <<pc, mpc, mu, resultCh>>
  <2>1. CASE FinishIfExhausted(l) \/ LaunchAttempt(l)
    BY <1>t, <2>1 DEF FinishIfExhausted, MaybeFinish, LaunchAttempt, Admits, Decided
  <2>2. CASE ~(FinishIfExhausted(l) \/ LaunchAttempt(l))
    <3>1. UNCHANGED <<winner, settled, pc, mpc, mu, resultCh>>
      BY <1>1, <2>2 DEF LauncherStep, EnterWindow, SelectNone, SelectError, SelectSome, SkipSelect,
                        LeaveWindow
    <3> QED BY <3>1 DEF Decided
  <2> QED BY <2>1, <2>2
<1>2. CASE ~(\E l \in Launchers : LauncherStep(l))
  <2>1. UNCHANGED <<winner, settled, pc, mpc, mu, resultCh>>
    BY <1>2 DEF ClientCancel, TriggerThreshold, vars
  <2> QED BY <2>1 DEF Decided
<1> QED BY <1>1, <1>2

LEMMA CallerComesNearer ==
  ASSUME Decided, MainStep
  PROVE  Decided' /\ UNCHANGED pc /\ CallerRank(mpc') < CallerRank(mpc)
<1> USE DEF raceVars, chainVars, windowVars, chanVars, mainVars
<1>1. /\ UNCHANGED <<winner, settled, pc>>
      /\ \/ mpc = "wait" /\ mpc' \in {"explain", "clear"}
         \/ mpc = "explain" /\ mpc' = "clear"
         \/ mpc = "clear" /\ mpc' = "returned"
  BY DEF MainStep, MainReceive, MainAbort, MainExplain, MainReturn
<1> QED BY <1>1 DEF Decided, CallerRank

\* The steps before the two of them and the caller become fewer with every step of one of them.
LEMMA ComesNearer ==
  ASSUME EndsInv, NEW p \in Providers, NEW q \in Providers, Decided, Busy \subseteq {p, q}, [Next]_vars
  PROVE  /\ Decided' /\ Busy' \subseteq {p, q}
         /\ Before(p, q)' < Before(p, q) \/ UNCHANGED <<pc, mpc, mu, resultCh>>
         /\ (\E a \in Providers : AttemptStep(a)) \/ MainStep => Before(p, q)' < Before(p, q)
<1>t. pc \in [Providers -> Places]
  BY DEF EndsInv, VerdictInv, TypeOK, RaceTypes
<1>r. /\ \A place : AttemptRank(place) \in 0..6 /\ CallerRank(place) \in 0..3
  BY DEF AttemptRank, CallerRank
<1>1. ASSUME NEW a \in Providers, AttemptStep(a)
      PROVE  Decided' /\ Busy' \subseteq {p, q} /\ Before(p, q)' < Before(p, q)
  <2>1. PICK place \in Places : /\ pc' = [pc EXCEPT ![a] = place]
                                /\ AttemptRank(place) < AttemptRank(pc[a])
    BY <1>1, AttemptComesNearer
  <2>2. a \in Busy /\ Decided' /\ mpc' = mpc
    BY <1>1, AttemptComesNearer
  <2>3. Busy' \subseteq Busy
    BY <1>t, <2>1, <2>2 DEF Busy
  <2>4. \A b \in Providers : pc'[b] = IF b = a THEN place ELSE pc[b]
    BY <1>t, <2>1
  <2>5. a = p \/ a = q
    BY <2>2
  <2> DEFINE rp == AttemptRank(pc[p])   rp1 == AttemptRank(pc'[p])
             rq == AttemptRank(pc[q])   rq1 == AttemptRank(pc'[q])
             rc == CallerRank(mpc)
  <2>6. /\ rp \in 0..6 /\ rp1 \in 0..6 /\ rq \in 0..6 /\ rq1 \in 0..6 /\ rc \in 0..3
        /\ rp1 <= rp /\ rq1 <= rq /\ (a = p => rp1 < rp) /\ (a = q => rq1 < rq)
        /\ (p = q => rp = rq /\ rp1 = rq1)
    BY <1>r, <2>1, <2>4
  <2>7. /\ Before(p, q) = rp + (IF q = p THEN 0 ELSE rq) + rc
        /\ Before(p, q)' = rp1 + (IF q = p THEN 0 ELSE rq1) + rc
    BY <2>2 DEF Before
  <2> HIDE DEF rp, rp1, rq, rq1, rc
  <2>8. Before(p, q)' < Before(p, q)
    BY <2>5, <2>6, <2>7
  <2> QED BY <2>2, <2>3, <2>8
<1>2. CASE MainStep
  <2>1. Decided' /\ pc' = pc /\ CallerRank(mpc') < CallerRank(mpc)
    BY <1>2, CallerComesNearer
  <2> DEFINE rest == AttemptRank(pc[p]) + (IF q = p THEN 0 ELSE AttemptRank(pc[q]))
             rc == CallerRank(mpc)   rc1 == CallerRank(mpc')
  <2>2. rest \in Nat /\ rc \in 0..3 /\ rc1 \in 0..3 /\ rc1 < rc
    <3>1. AttemptRank(pc[p]) \in 0..6 /\ AttemptRank(pc[q]) \in 0..6
      BY <1>r
    <3> QED BY <1>r, <2>1, <3>1
  <2>3. Before(p, q) = rest + rc /\ Before(p, q)' = rest + rc1
    BY <2>1 DEF Before
  <2> HIDE DEF rest, rc, rc1
  <2>4. Before(p, q)' < Before(p, q) /\ Busy' = Busy
    BY <2>1, <2>2, <2>3 DEF Busy
  <2> QED BY <2>1, <2>4
<1>3. CASE (\E l \in Launchers : LauncherStep(l)) \/ ClientCancel
             \/ (\E a \in Providers : TriggerThreshold(a)) \/ UNCHANGED vars
  <2>1. Decided' /\ UNCHANGED <<pc, mpc, mu, resultCh>>
    BY <1>3, NobodyElseMoves
  <2>2. Busy' = Busy
    BY <2>1 DEF Busy
  <2>3. ASSUME (\E a \in Providers : AttemptStep(a)) \/ MainStep
        PROVE  Before(p, q)' < Before(p, q)
    BY <1>1, <1>2, <2>3
  <2> QED BY <2>1, <2>2, <2>3
<1> QED BY <1>1, <1>2, <1>3 DEF Next

Shrinks(p, q, m, n) == Below(p, q, m) ~> AllOver \/ Below(p, q, n)

\* p and q have fewer than m = n + 1 steps before them: then fewer than n, or it is over.
LEMMA OneStepFewer ==
  ASSUME MaxInFlight <= 2, NEW p \in Providers, NEW q \in Providers, NEW n \in Nat, NEW m,
         m = n + 1
  PROVE  [][Next]_vars /\ []EndsInv /\ []RaceCanAct /\ AttemptRuns(p) /\ AttemptRuns(q) /\ CallerRuns
           => Shrinks(p, q, m, n)
<1> DEFINE b == Below(p, q, m)
           lo == Below(p, q, n)
           over == AllOver
           canP == p \in Busy /\ AttemptCanGoOn(p)
           canQ == q \in Busy /\ AttemptCanGoOn(q)
           canC == CallerCanGoOn
           stay == UNCHANGED <<pc, mpc, mu, resultCh>>
<1>n. Before(p, q) \in Nat /\ Before(p, q)' \in Nat
  <2>1. Before(p, q) \in Nat
    BY BeforeIsNat
  <2>2. \A place : AttemptRank(place) \in 0..6 /\ CallerRank(place) \in 0..3
    BY DEF AttemptRank, CallerRank
  <2>3. /\ AttemptRank(pc'[p]) \in 0..6 /\ AttemptRank(pc'[q]) \in 0..6 /\ CallerRank(mpc') \in 0..3
    BY <2>2
  <2> QED BY <2>1, <2>3 DEF Before
<1>1. EndsInv /\ b /\ [Next]_vars => b' /\ (lo' \/ stay)
  <2> SUFFICES ASSUME EndsInv, b, [Next]_vars PROVE b' /\ (lo' \/ stay)
    OBVIOUS
  <2>1. Decided /\ Busy \subseteq {p, q} /\ Before(p, q) < n + 1
    BY DEF Below
  <2>2. /\ Decided' /\ Busy' \subseteq {p, q}
        /\ Before(p, q)' < Before(p, q) \/ UNCHANGED <<pc, mpc, mu, resultCh>>
    BY <2>1, ComesNearer
  <2>3. CASE Before(p, q)' < Before(p, q)
    <3>1. Before(p, q)' < n /\ Before(p, q)' < n + 1
      BY <1>n, <2>1, <2>3
    <3> QED BY <2>2, <3>1 DEF Below
  <2>4. CASE UNCHANGED <<pc, mpc, mu, resultCh>>
    <3>1. Before(p, q)' = Before(p, q)
      BY <2>4 DEF Before
    <3> QED BY <2>1, <2>2, <2>4, <3>1 DEF Below
  <2> QED BY <2>2, <2>3, <2>4
<1>2. /\ EndsInv /\ b /\ <<AttemptStep(p)>>_vars => lo'
      /\ EndsInv /\ b /\ <<AttemptStep(q)>>_vars => lo'
      /\ EndsInv /\ b /\ <<MainStep>>_vars => lo'
  <2> SUFFICES ASSUME EndsInv, b, AttemptStep(p) \/ AttemptStep(q) \/ MainStep PROVE lo'
    OBVIOUS
  <2>1. Decided /\ Busy \subseteq {p, q} /\ Before(p, q) < n + 1
    BY DEF Below
  <2>2. Next
    BY DEF Next
  <2>3. Decided' /\ Busy' \subseteq {p, q} /\ Before(p, q)' < Before(p, q)
    BY <2>1, <2>2, ComesNearer
  <2>4. Before(p, q)' < n
    BY <1>n, <2>1, <2>3
  <2> QED BY <2>3, <2>4 DEF Below
<1>3. stay => (canP => canP') /\ (canQ => canQ') /\ (canC => canC')
  BY DEF Busy, AttemptCanGoOn, CallerCanGoOn, Free
<1>4. EndsInv /\ b /\ ~over => canP \/ canQ \/ canC
  <2> SUFFICES ASSUME EndsInv, b, ~over PROVE canP \/ canQ \/ canC
    OBVIOUS
  <2>1. Decided /\ Busy \subseteq {p, q}
    BY DEF Below
  <2> QED BY <2>1, SomebodyGoesOn
<1>5. RaceCanAct => /\ canP => ENABLED <<AttemptStep(p)>>_vars
                    /\ canQ => ENABLED <<AttemptStep(q)>>_vars
                    /\ canC => ENABLED <<MainStep>>_vars
  <2>1. RaceCanAct => AttemptCanAct(p) /\ AttemptCanAct(q) /\ CallerCanAct
    BY DEF RaceCanAct
  <2>2. AttemptCanAct(p) => (canP => ENABLED <<AttemptStep(p)>>_vars)
    BY DEF AttemptCanAct
  <2>3. AttemptCanAct(q) => (canQ => ENABLED <<AttemptStep(q)>>_vars)
    BY DEF AttemptCanAct
  <2>4. CallerCanAct => (canC => ENABLED <<MainStep>>_vars)
    BY DEF CallerCanAct
  <2> QED BY <2>1, <2>2, <2>3, <2>4
<1>6. /\ Below(p, q, m) <=> b
      /\ Below(p, q, n) <=> lo
      /\ AllOver <=> over
  OBVIOUS
<1> HIDE DEF b, lo, over, canP, canQ, canC, stay
<1> QED BY <1>1, <1>2, <1>3, <1>4, <1>5, <1>6, PTL DEF AttemptRuns, CallerRuns, Shrinks

\* Fifteen steps are the most there can be.
LEMMA TheTwoEnd ==
  ASSUME MaxInFlight <= 2, NEW p \in Providers, NEW q \in Providers
  PROVE  [][Next]_vars /\ []EndsInv /\ []RaceCanAct /\ AttemptRuns(p) /\ AttemptRuns(q) /\ CallerRuns
           => (Decided /\ Busy \subseteq {p, q} => <>AllOver)
<1> DEFINE Run == [][Next]_vars /\ []EndsInv /\ []RaceCanAct /\ AttemptRuns(p) /\ AttemptRuns(q)
                    /\ CallerRuns
           Two == Decided /\ Busy \subseteq {p, q}
<1>0. (Two => Below(p, q, 16)) /\ ~Below(p, q, 0)
  BY BeforeIsNat DEF Below
<1>1. Run => Shrinks(p, q, 1, 0)
  BY OneStepFewer
<1>2. Run => Shrinks(p, q, 2, 1)
  BY OneStepFewer
<1>3. Run => Shrinks(p, q, 3, 2)
  BY OneStepFewer
<1>4. Run => Shrinks(p, q, 4, 3)
  BY OneStepFewer
<1>5. Run => Shrinks(p, q, 5, 4)
  BY OneStepFewer
<1>6. Run => Shrinks(p, q, 6, 5)
  BY OneStepFewer
<1>7. Run => Shrinks(p, q, 7, 6)
  BY OneStepFewer
<1>8. Run => Shrinks(p, q, 8, 7)
  BY OneStepFewer
<1>9. Run => Shrinks(p, q, 9, 8)
  BY OneStepFewer
<1>10. Run => Shrinks(p, q, 10, 9)
  BY OneStepFewer
<1>11. Run => Shrinks(p, q, 11, 10)
  BY OneStepFewer
<1>12. Run => Shrinks(p, q, 12, 11)
  BY OneStepFewer
<1>13. Run => Shrinks(p, q, 13, 12)
  BY OneStepFewer
<1>14. Run => Shrinks(p, q, 14, 13)
  BY OneStepFewer
<1>15. Run => Shrinks(p, q, 15, 14)
  BY OneStepFewer
<1>16. Run => Shrinks(p, q, 16, 15)
  BY OneStepFewer
<1>17. Two <=> Decided /\ Busy \subseteq {p, q}
  OBVIOUS
<1> HIDE DEF Two
<1> QED BY <1>0, <1>1, <1>2, <1>3, <1>4, <1>5, <1>6, <1>7, <1>8, <1>9, <1>10, <1>11, <1>12, <1>13, <1>14, <1>15, <1>16, <1>17, PTL DEF Shrinks

\* Whoever the two are: the scheduler runs each of them.
LEMMA WhoeverTheyAre ==
  ASSUME MaxInFlight <= 2
  PROVE  [][Next]_vars /\ []EndsInv /\ []RaceCanAct /\ Fairness
           => ((\E p, q \in Providers : Busy \subseteq {p, q}) /\ Decided => <>AllOver)
<1> SUFFICES ASSUME [][Next]_vars, []EndsInv, []RaceCanAct, Fairness, Decided,
                    NEW p \in Providers, NEW q \in Providers, Busy \subseteq {p, q}
             PROVE  <>AllOver
  OBVIOUS
<1>1. AttemptRuns(p) /\ AttemptRuns(q) /\ CallerRuns
  BY DEF Fairness
<1> QED BY <1>1, TheTwoEnd

\* hedge.go: a decided race reaches its caller and leaves no attempt behind, unless the client
\* goes away, when two attempts at most are in flight (legacyHedgeMaxInFlight's default) and the
\* scheduler runs whoever can act (RaceCanAct says where that is; fairness, which looks at the
\* whole future, is stated of every moment).  With three in flight the last failure may find the
\* channel full and its reader gone.
THEOREM DecidedRacesEnd ==
  ASSUME MaxInFlight <= 2
  PROVE  Spec /\ []Fairness /\ []RaceCanAct => AttemptsEnd
<1> DEFINE Pair == \E p, q \in Providers : Busy \subseteq {p, q}
           Ended == winner # None \/ settled
           Gone == ctxDone
           Rest == ctxDone \/ (mpc = "returned" /\ \A p \in Providers : pc[p] \in {"idle", "done"})
<1>1. EndsInv => (Ended /\ ~Gone => Pair)
  BY TwoAreBusy DEF Decided
<1>2. [][Next]_vars /\ []EndsInv /\ []RaceCanAct /\ Fairness => (Pair /\ Ended => <>AllOver)
  BY WhoeverTheyAre DEF Decided
<1>3. AllOver => Rest
  BY DEF AllOver, Busy
<1>4. Gone => Rest
  OBVIOUS
<1>5. /\ Ended <=> winner # None \/ settled
      /\ Rest <=> ctxDone \/ (mpc = "returned" /\ \A p \in Providers : pc[p] \in {"idle", "done"})
  OBVIOUS
<1> HIDE DEF Pair, Ended, Gone, Rest
<1> QED BY <1>1, <1>2, <1>3, <1>4, <1>5, EndsInvariant, PTL DEF Spec, AttemptsEnd

-----------------------------------------------------------------------------
(* Replay: the list goes as far as its owner knows to have written, chunk by chunk, and has
   as many entries as the owner was told: more than chunks, where a batch came again. *)

Chunks == Requests \X Nat
Run(s, r, k) == s \in Seq(Chunks) /\ \A i \in 1..Len(s) : s[i] = <<r, k + i>>
IsTale(s, r) == s \in Seq(Chunks) /\ Stammers(s, r) /\ (r \in again \/ Run(s, r, 0))
Whole(s) == \E o \in Requests : Tells(s, o)
SameStart(s, t) == Len(s) <= Len(t) /\ \A i \in 1..Len(s) : s[i] = t[i]

LEMMA EmptyRun == \A r, k : Run(<<>>, r, k)
BY DEF Run

LEMMA RunAppend ==
  ASSUME NEW s, NEW r \in Requests, NEW k \in Nat, Run(s, r, k)
  PROVE  LET t == Append(s, <<r, k + Len(s) + 1>>) IN Run(t, r, k) /\ Len(t) = Len(s) + 1
<1>1. s \in Seq(Chunks) /\ Len(s) \in Nat
  BY DEF Run
<1>2. <<r, k + Len(s) + 1>> \in Chunks
  BY <1>1 DEF Chunks
<1> DEFINE c == <<r, k + Len(s) + 1>>
<1>3. /\ Append(s, c) \in Seq(Chunks) /\ Len(Append(s, c)) = Len(s) + 1
      /\ \A i \in 1..Len(s) : Append(s, c)[i] = s[i]
      /\ Append(s, c)[Len(s) + 1] = c
  BY <1>1, <1>2, AppendProperties
<1>4. ASSUME NEW i \in 1..(Len(s) + 1) PROVE Append(s, c)[i] = <<r, k + i>>
  <2>1. CASE i = Len(s) + 1
    BY <2>1, <1>1, <1>3
  <2>2. CASE i \in 1..Len(s)
    BY <2>2, <1>3 DEF Run
  <2> QED BY <2>1, <2>2, <1>1
<1> QED BY <1>3, <1>4 DEF Run

LEMMA RunConcat ==
  ASSUME NEW s, NEW t, NEW r \in Requests, NEW k \in Nat, Run(s, r, k), Run(t, r, k + Len(s))
  PROVE  Run(s \o t, r, k) /\ Len(s \o t) = Len(s) + Len(t)
<1>1. s \in Seq(Chunks) /\ t \in Seq(Chunks) /\ Len(s) \in Nat /\ Len(t) \in Nat
  BY DEF Run
<1>2. /\ s \o t \in Seq(Chunks) /\ Len(s \o t) = Len(s) + Len(t)
      /\ \A i \in 1..(Len(s) + Len(t)) : (s \o t)[i] = IF i <= Len(s) THEN s[i] ELSE t[i - Len(s)]
  BY <1>1, ConcatProperties
<1>3. ASSUME NEW i \in 1..(Len(s) + Len(t)) PROVE (s \o t)[i] = <<r, k + i>>
  <2>1. CASE i <= Len(s)
    BY <2>1, <1>1, <1>2 DEF Run
  <2>2. CASE ~(i <= Len(s))
    <3>1. i - Len(s) \in 1..Len(t) /\ k + Len(s) + (i - Len(s)) = k + i
      BY <2>2, <1>1
    <3> QED BY <3>1, <2>2, <1>1, <1>2 DEF Run
  <2> QED BY <2>1, <2>2
<1> QED BY <1>2, <1>3 DEF Run

LEMMA RunWhole ==
  ASSUME NEW s, NEW r \in Requests, Run(s, r, 0), Len(s) = Length
  PROVE  s = WholeOf(r)
<1>1. s \in Seq(Chunks)
  BY DEF Run
<1>2. s = [i \in 1..Length |-> s[i]]
  BY <1>1
<1>3. \A i \in 1..Length : s[i] = <<r, i>>
  BY DEF Run
<1> QED BY <1>2, <1>3 DEF WholeOf

LEMMA RunUpto == ASSUME NEW s, NEW r \in Requests, Run(s, r, 0) PROVE Upto(s) = Len(s)
<1>1. s \in Seq(Chunks) /\ Len(s) \in Nat
  BY DEF Run
<1>2. s # <<>> => Len(s) \in 1..Len(s) /\ s[Len(s)] = <<r, 0 + Len(s)>>
  BY <1>1 DEF Run
<1> QED BY <1>1, <1>2 DEF Upto

LEMMA EmptyTale == \A r : IsTale(<<>>, r) /\ Upto(<<>>) = 0
BY EmptyRun DEF IsTale, Stammers, Upto

\* A batch behind a list that goes as far as the batch begins, or further.
LEMMA StammerOn ==
  ASSUME NEW s \in Seq(Chunks), NEW b, NEW r \in Requests, NEW k \in Nat,
         Stammers(s, r), Run(b, r, k), k <= Upto(s)
  PROVE  /\ s \o b \in Seq(Chunks) /\ Stammers(s \o b, r) /\ Len(s \o b) = Len(s) + Len(b)
         /\ b # <<>> => Upto(s \o b) = k + Len(b)
         /\ b = <<>> => s \o b = s
<1>1. b \in Seq(Chunks) /\ Len(s) \in Nat /\ Len(b) \in Nat
  BY DEF Run
<1>2. /\ s \o b \in Seq(Chunks) /\ Len(s \o b) = Len(s) + Len(b)
      /\ \A i \in 1..(Len(s) + Len(b)) : (s \o b)[i] = IF i <= Len(s) THEN s[i] ELSE b[i - Len(s)]
  BY <1>1, ConcatProperties
<1> DEFINE t == s \o b
<1>3. \A i \in 1..Len(b) : t[Len(s) + i] = <<r, k + i>>
  BY <1>1, <1>2 DEF Run
<1>4. Len(s) > 0 => t[Len(s)] = s[Len(s)] /\ Upto(s) = s[Len(s)][2]
  BY <1>1, <1>2 DEF Upto
<1>5. ASSUME NEW i \in 1..(Len(s) + Len(b))
      PROVE  \E n \in 1..(IF i = 1 THEN 1 ELSE t[i - 1][2] + 1) : t[i] = <<r, n>>
  <2>1. CASE i <= Len(s)
    <3>1. i \in 1..Len(s) /\ t[i] = s[i] /\ (i # 1 => t[i - 1] = s[i - 1])
      BY <2>1, <1>1, <1>2
    <3>2. \E n \in 1..(IF i = 1 THEN 1 ELSE s[i - 1][2] + 1) : s[i] = <<r, n>>
      BY <3>1 DEF Stammers
    <3> HIDE DEF t
    <3> QED BY <3>1, <3>2
  <2>2. CASE i = Len(s) + 1
    <3>1. t[i] = <<r, k + 1>>
      BY <2>2, <1>1, <1>3
    <3>2. CASE Len(s) = 0
      <4>1. k = 0 /\ i = 1
        BY <2>2, <3>2, <1>1 DEF Upto
      <4> QED BY <3>1, <4>1
    <3>3. CASE Len(s) > 0
      <4>1. i # 1 /\ i - 1 = Len(s) /\ t[i - 1][2] = Upto(s)
        BY <2>2, <3>3, <1>1, <1>4
      <4>2. Upto(s) \in Nat
        <5>1. s[Len(s)] \in Chunks
          BY <3>3, <1>1
        <5> QED BY <5>1, <3>3, <1>4 DEF Chunks
      <4>3. k + 1 \in 1..(t[i - 1][2] + 1)
        BY <4>1, <4>2
      <4> HIDE DEF t
      <4> QED BY <3>1, <4>1, <4>3
    <3> QED BY <3>2, <3>3, <1>1
  <2>3. CASE i > Len(s) + 1
    <3>1. i - Len(s) \in 1..Len(b) /\ i - 1 - Len(s) \in 1..Len(b)
          /\ Len(s) + (i - Len(s)) = i /\ Len(s) + (i - 1 - Len(s)) = i - 1
      BY <2>3, <1>1
    <3>2. t[i] = <<r, k + (i - Len(s))>> /\ t[i - 1] = <<r, k + (i - 1 - Len(s))>>
      BY <3>1, <1>3
    <3> HIDE DEF t
    <3>3. t[i - 1][2] = k + (i - 1 - Len(s)) /\ i # 1
      BY <3>2, <2>3, <1>1
    <3>4. k + (i - Len(s)) \in 1..(t[i - 1][2] + 1)
      BY <3>1, <3>3, <1>1
    <3> QED BY <3>2, <3>3, <3>4
  <2> QED BY <2>1, <2>2, <2>3, <1>1
<1>6. Stammers(t, r)
  <2> HIDE DEF t
  <2> QED BY <1>2, <1>5 DEF Stammers, t
<1>7. b # <<>> => Upto(t) = k + Len(b)
  <2>1. SUFFICES ASSUME b # <<>> PROVE Upto(t) = k + Len(b)
    OBVIOUS
  <2>2. Len(b) > 0 /\ Len(t) = Len(s) + Len(b) /\ t # <<>>
    BY <2>1, <1>1, <1>2
  <2>3. t[Len(s) + Len(b)] = <<r, k + Len(b)>>
    BY <2>2, <1>1, <1>3
  <2> HIDE DEF t
  <2> QED BY <2>2, <2>3 DEF Upto
<1>8. b = <<>> => t = s
  BY <1>1
<1> QED BY <1>2, <1>6, <1>7, <1>8

\* What a call to WriteOwned leaves in the list, however often it was executed.
Repeated(s, b, n) == s \o b \o (IF n > 1 THEN b ELSE <<>>) \o (IF n > 2 THEN b ELSE <<>>)

LEMMA PushedList ==
  ASSUME NEW s \in Seq(Chunks), NEW b \in Seq(Chunks), NEW r \in Requests, NEW n \in 1..3,
         Stammers(s, r), Upto(s) \in Nat, Run(b, r, Upto(s))
  PROVE  /\ Repeated(s, b, n) \in Seq(Chunks) /\ Stammers(Repeated(s, b, n), r)
         /\ Len(Repeated(s, b, n)) >= Len(s) + Len(b)
         /\ Upto(Repeated(s, b, n)) = Upto(s) + Len(b)
         /\ n = 1 \/ b = <<>> => Repeated(s, b, n) = s \o b
<1>0. PICK k \in Nat : k = Upto(s) /\ Run(b, r, k)
  OBVIOUS
<1> DEFINE t1 == s \o b
           t2 == t1 \o (IF n > 1 THEN b ELSE <<>>)
           t3 == t2 \o (IF n > 2 THEN b ELSE <<>>)
<1>1. Run(<<>>, r, k) /\ Len(b) \in Nat /\ Len(s) \in Nat /\ (b = <<>> <=> Len(b) = 0)
  BY <1>0, EmptyRun DEF Run
<1>2. /\ t1 \in Seq(Chunks) /\ Stammers(t1, r) /\ Len(t1) = Len(s) + Len(b)
      /\ Upto(t1) = k + Len(b)
  <2>1. /\ t1 \in Seq(Chunks) /\ Stammers(t1, r) /\ Len(t1) = Len(s) + Len(b)
        /\ b # <<>> => Upto(t1) = k + Len(b)
        /\ b = <<>> => t1 = s
    <3>1. k <= Upto(s)
      BY <1>0
    <3> QED BY <1>0, <3>1, StammerOn
  <2> HIDE DEF t1
  <2> QED BY <2>1, <1>0, <1>1
<1> HIDE DEF t1
<1>3. /\ t2 \in Seq(Chunks) /\ Stammers(t2, r) /\ Len(t2) >= Len(s) + Len(b)
      /\ Upto(t2) = k + Len(b) /\ (n = 1 \/ b = <<>> => t2 = t1)
  <2> DEFINE c == IF n > 1 THEN b ELSE <<>>
  <2>1. Run(c, r, k) /\ k <= Upto(t1)
    BY <1>0, <1>1, <1>2
  <2>2. /\ n = 1 \/ b = <<>> => c = <<>>
        /\ c # <<>> => Len(c) = Len(b)
        /\ Len(c) \in Nat
    BY <1>1
  <2> HIDE DEF c
  <2>3. /\ t1 \o c \in Seq(Chunks) /\ Stammers(t1 \o c, r) /\ Len(t1 \o c) = Len(t1) + Len(c)
        /\ c # <<>> => Upto(t1 \o c) = k + Len(c)
        /\ c = <<>> => t1 \o c = t1
    BY <1>0, <2>1, <1>2, StammerOn
  <2>4. t2 = t1 \o c
    BY DEF c
  <2>5. Len(t1) \in Nat
    BY <1>2
  <2> HIDE DEF t2
  <2>6. CASE c = <<>>
    BY <1>1, <1>2, <2>3, <2>4, <2>6
  <2>7. CASE c # <<>>
    <3>1. Len(c) = Len(b) /\ n # 1 /\ b # <<>>
      BY <2>2, <2>7
    <3>2. t2 \in Seq(Chunks) /\ Stammers(t2, r) /\ Upto(t2) = k + Len(b)
          /\ Len(t2) = Len(t1) + Len(b)
      BY <2>3, <2>4, <2>7, <3>1
    <3> QED BY <1>1, <1>2, <3>1, <3>2, <2>5
  <2> QED BY <2>6, <2>7
<1> HIDE DEF t2
<1>4. /\ t3 \in Seq(Chunks) /\ Stammers(t3, r) /\ Len(t3) >= Len(s) + Len(b)
      /\ Upto(t3) = k + Len(b) /\ (n = 1 \/ b = <<>> => t3 = t2)
  <2> DEFINE c == IF n > 2 THEN b ELSE <<>>
  <2>1. Run(c, r, k) /\ k <= Upto(t2)
    BY <1>0, <1>1, <1>3
  <2>2. /\ n = 1 \/ b = <<>> => c = <<>>
        /\ c # <<>> => Len(c) = Len(b)
        /\ Len(c) \in Nat
    BY <1>1
  <2> HIDE DEF c
  <2>3. /\ t2 \o c \in Seq(Chunks) /\ Stammers(t2 \o c, r) /\ Len(t2 \o c) = Len(t2) + Len(c)
        /\ c # <<>> => Upto(t2 \o c) = k + Len(c)
        /\ c = <<>> => t2 \o c = t2
    BY <1>0, <2>1, <1>3, StammerOn
  <2>4. t3 = t2 \o c
    BY DEF c
  <2>5. Len(t2) \in Nat
    BY <1>3
  <2> HIDE DEF t3
  <2>6. CASE c = <<>>
    BY <1>1, <1>3, <2>3, <2>4, <2>6
  <2>7. CASE c # <<>>
    <3>1. Len(c) = Len(b) /\ n # 1 /\ b # <<>>
      BY <2>2, <2>7
    <3>2. t3 \in Seq(Chunks) /\ Stammers(t3, r) /\ Upto(t3) = k + Len(b)
          /\ Len(t3) = Len(t2) + Len(b)
      BY <2>3, <2>4, <2>7, <3>1
    <3> QED BY <1>1, <1>3, <3>1, <3>2, <2>5
  <2> QED BY <2>6, <2>7
<1>5. t3 = Repeated(s, b, n)
  BY DEF t1, t2, Repeated
<1> HIDE DEF t3
<1> QED BY <1>0, <1>3, <1>4, <1>5 DEF t1

LEMMA ToldWhole ==
  ASSUME NEW s, NEW r \in Requests, IsTale(s, r), Upto(s) = Length
  PROVE  Tells(s, r)
<1>1. CASE r \in again
  BY <1>1 DEF IsTale, Tells
<1>2. CASE Run(s, r, 0)
  <2>1. s \in Seq(Chunks) /\ Len(s) \in Nat /\ Length \in Nat /\ Length > 0
    BY ReplayAssumption DEF IsTale
  <2>2. s # <<>> /\ s[Len(s)] = <<r, Len(s)>>
    BY <1>2, <2>1 DEF Upto, Run
  <2>3. Len(s) = Length
    BY <2>1, <2>2 DEF Upto
  <2> QED BY <1>2, <2>3, RunWhole DEF IsTale, Tells
<1> QED BY <1>1, <1>2 DEF IsTale

\* A prefix of the list is a tale too, and the whole list when it is as long.
LEMMA PrefixTold ==
  ASSUME NEW s, NEW t, NEW r \in Requests, IsTale(t, r), s \in Seq(Chunks), SameStart(s, t)
  PROVE  IsTale(s, r) /\ (Len(s) = Len(t) => s = t)
<1>1. Len(s) \in Nat /\ t \in Seq(Chunks) /\ Len(t) \in Nat
  BY DEF IsTale
<1>2. \A i \in 1..Len(s) : i \in 1..Len(t) /\ s[i] = t[i] /\ (i # 1 => s[i - 1] = t[i - 1])
  BY <1>1 DEF SameStart
<1>3. Stammers(s, r)
  <2>1. SUFFICES ASSUME NEW i \in 1..Len(s)
                 PROVE  \E n \in 1..(IF i = 1 THEN 1 ELSE s[i - 1][2] + 1) : s[i] = <<r, n>>
    BY DEF Stammers
  <2>2. \E n \in 1..(IF i = 1 THEN 1 ELSE t[i - 1][2] + 1) : t[i] = <<r, n>>
    BY <1>2 DEF IsTale, Stammers
  <2> QED BY <1>2, <2>2
<1>4. Run(t, r, 0) => Run(s, r, 0)
  BY <1>2 DEF Run
<1>5. Len(s) = Len(t) => s = t
  BY <1>1, <1>2
<1> QED BY <1>3, <1>4, <1>5 DEF IsTale

\* One more of what the list holds.
LEMMA ReadOn ==
  ASSUME NEW s \in Seq(Chunks), NEW t \in Seq(Chunks), SameStart(s, t), Len(s) < Len(t)
  PROVE  LET q == Append(s, t[Len(s) + 1]) IN
         q \in Seq(Chunks) /\ SameStart(q, t) /\ Len(q) = Len(s) + 1
<1> DEFINE q == Append(s, t[Len(s) + 1])
<1>1. Len(s) \in Nat /\ Len(t) \in Nat /\ t[Len(s) + 1] \in Chunks
  OBVIOUS
<1>2. /\ q \in Seq(Chunks) /\ Len(q) = Len(s) + 1 /\ q[Len(s) + 1] = t[Len(s) + 1]
      /\ \A i \in 1..Len(s) : q[i] = s[i]
  BY <1>1, AppendProperties
<1> HIDE DEF q
<1>3. \A i \in 1..Len(q) : q[i] = t[i]
  BY <1>1, <1>2 DEF SameStart
<1> QED BY <1>1, <1>2, <1>3 DEF SameStart, q

-----------------------------------------------------------------------------
(* The inductive invariant *)

AttachPlaces == {"new", "plain", "serving", "claim", "find", "release", "prepare", "claimed", "own",
           "served"}
MetaType == [status : {"none", "owning", "completed", "aborted"}, gen : Requests \cup {NoOne},
             count : Nat]
Handlers == {"stream", "enqueue", "await", "left"}
Finals == {"tail", "read", "complete", "abort", "discard"}
Writers == {"idle", "wrote", "clean", "exited"} \cup Finals
Jobs == {"boot", "flush", "final"}
ReplyType == [outcome : {"none", "ok", "lost", "unavailable"}, count : Nat]
SpoolType ==
  [handler : Handlers, writer : Writers, ops : Seq(Jobs), made : Nat, pending : Seq(Chunks),
   tail : Seq(Chunks), count : Nat, payload : Seq(Chunks), opened : BOOLEAN, off : BOOLEAN,
   expired : BOOLEAN, cleanup : {"no", "delete", "keep"}, released : BOOLEAN,
   reply : ReplyType]

StoreTypes ==
  /\ owner \in Requests \cup {NoOne} /\ meta \in MetaType /\ list \in Seq(Chunks)
  /\ durable \in [state : {"none", "live", "expired"}, payload : Seq(Chunks)] /\ faults \in Nat
  /\ again \subseteq Requests
AttachTypes ==
  /\ at \in [Requests -> AttachPlaces] /\ seen \in [Requests -> MetaType]
  /\ parts \in [Requests -> Seq(Chunks)] /\ claimed \in [Requests -> BOOLEAN]
ReplayTypeOK == StoreTypes /\ AttachTypes /\ spool \in [Requests -> SpoolType]

\* What is completed is in the list, as far as it is still there, and its owner is through.
MetaOK ==
  meta.status = "completed" =>
    /\ meta.gen \in Requests /\ at[meta.gen] = "own" /\ owner # meta.gen
    /\ list = <<>> \/ (Tells(list, meta.gen) /\ Len(list) = meta.count)

DurableOK == durable.state # "none" => Whole(durable.payload)

\* A request holds the key from its claim on, and has read nothing but one generation.
AttachOK(r) ==
  /\ at[r] # "own" => spool[r] = NoSpool
  /\ owner = r => at[r] \notin {"new", "serving", "claim"}
  /\ at[r] = "claimed" /\ owner = r => list = <<>>
  /\ at[r] \in {"new", "claim", "find", "prepare", "claimed"} => parts[r] = <<>>
  /\ at[r] = "serving" =>
       /\ seen[r].gen \in Requests /\ at[seen[r].gen] = "own" /\ owner # seen[r].gen
       /\ meta.gen = seen[r].gen =>
            meta = seen[r] /\ meta.status = "completed" /\ (list = <<>> \/ SameStart(parts[r], list))
  /\ at[r] = "release" => parts[r] = <<>> \/ Whole(parts[r])
  /\ at[r] = "served" => Whole(parts[r])

\* How many entries the list has, as far as the writer can know, and which chunk is the last.
Known(s) == IF s.reply.outcome = "ok" THEN s.reply.count ELSE s.count
WrittenTo(s) == IF s.writer \in Finals THEN Length ELSE s.made - Len(s.pending) - Len(s.tail)
InDoubt(s) == s.reply.outcome \in {"lost", "unavailable"}
HasFinal(ops) == \E i \in 1..Len(ops) : ops[i] = "final"

\* The spool goes on with the response, and its writer knows how far it is.
Believes(s) == ~s.off /\ ~InDoubt(s) /\ s.writer \notin {"exited", "abort", "discard"}

\* What was made is then written, pending or in the tail, in this order.
Accounted(r, s) ==
  Believes(s) =>
    /\ WrittenTo(s) \in Nat /\ WrittenTo(s) <= Known(s)
    /\ s.handler = "stream" => s.tail = <<>> /\ Run(s.pending, r, WrittenTo(s))
    /\ s.handler # "stream" /\ s.writer \notin Finals =>
         Run(s.tail, r, WrittenTo(s)) /\ s.made = Length

Ordered(s) ==
  /\ s.reply.outcome = "none" <=> s.writer \notin {"wrote", "tail"}
  /\ s.cleanup # "no" \/ s.writer = "clean" => s.off
  /\ s.off \/ s.handler # "stream" => s.pending = <<>>
  /\ s.writer \in Finals => s.handler \in {"await", "left"} /\ ~s.off
  /\ HasFinal(s.ops) => s.handler \in {"await", "left"}
  /\ s.writer = "exited" => s.handler = "left"

ReadBack(s) ==
  /\ s.writer \notin {"read", "complete", "abort", "discard"} => s.payload = <<>>
  /\ s.writer = "complete" => Len(s.payload) = s.count

Shape(r, s) == s \in SpoolType /\ Accounted(r, s) /\ Ordered(s) /\ ReadBack(s)

\* As long as the key is its own, the list is what the writer believes it to be.
Agrees(r) ==
  at[r] = "own" /\ owner = r =>
    /\ IsTale(list, r)
    /\ Believes(spool[r]) => Len(list) = Known(spool[r]) /\ Upto(list) = WrittenTo(spool[r])

\* What it has read back is the beginning of that, also when the key is lost meanwhile.
HasRead(r, s) ==
  s.writer \in {"read", "complete"} =>
    /\ IsTale(s.payload, r) /\ (Len(s.payload) = s.count => Upto(s.payload) = Length)
    /\ owner = r => SameStart(s.payload, list)

\* The row is there, and a row that is served is its own.
Durable(r) ==
  spool[r].writer = "complete" =>
    durable.state # "none" /\ (durable.state = "live" => durable.payload = spool[r].payload)

RequestOK(r) ==
  AttachOK(r) /\ Shape(r, spool[r]) /\ Agrees(r) /\ HasRead(r, spool[r]) /\ Durable(r)

ReplayInv == ReplayTypeOK /\ MetaOK /\ DurableOK /\ \A r \in Requests : RequestOK(r)

-----------------------------------------------------------------------------
(* What a call to Redis does *)

\* A step of one request touches what it holds, or takes the key when it is free.
Mine(r) ==
  \/ UNCHANGED <<owner, meta, list>>
  \/ /\ owner = r /\ owner' \in {r, NoOne}
     /\ UNCHANGED <<meta, list>> \/ meta'.gen \in {r, NoOne}
  \/ owner = NoOne /\ owner' = r /\ at[r] # "own" /\ UNCHANGED <<meta, list>>

\* A request that owns the response stays where it is, and what came twice has come twice.
OwnStays == again \subseteq again' /\ \A o \in Requests : at[o] = "own" => at'[o] = "own"

\* Whoever persists leaves a row that is served alone, and revives none that has expired.
RowStep ==
  \/ UNCHANGED durable
  \/ durable.state = "none"
  \/ durable.state = "expired" /\ durable'.state = "expired"

LEMMA CallsGo ==
  ASSUME NEW s, NEW c \in Calls \cup CallsOf(s)
  PROVE  c.times \in 0..3 /\ (c.heard => c.times > 0)
<1>1. Calls \subseteq {[times |-> 1, heard |-> TRUE]}
                     \cup {d \in [times : 0..(MaxRetries + 1), heard : BOOLEAN] : d.heard => d.times > 0}
  BY Zenon DEF Calls
<1>2. CallsOf(s) \subseteq Calls \cup {[times |-> 0, heard |-> FALSE]}
  BY Zenon DEF CallsOf
<1>3. CASE c \in {[times |-> 1, heard |-> TRUE], [times |-> 0, heard |-> FALSE]}
  BY <1>3
<1>4. CASE c \in {d \in [times : 0..(MaxRetries + 1), heard : BOOLEAN] : d.heard => d.times > 0}
  BY <1>4, StoreAssumption
<1> QED BY <1>1, <1>2, <1>3, <1>4

LEMMA FencedEffect ==
  ASSUME NEW r \in Requests, NEW c, NEW o \in {r, NoOne}, NEW m, NEW l, Fenced(r, c, o, m, l),
         m.gen \in {r, NoOne} \/ (m = meta /\ l = list)
  PROVE  /\ Mine(r) /\ UNCHANGED <<durable, again>>
         /\ \/ owner = r /\ owner' = o /\ meta' = m /\ list' = l
            \/ UNCHANGED <<owner, meta, list>>
BY DEF Fenced, Mine

LEMMA FencedTypes ==
  ASSUME StoreTypes, NEW r \in Requests, NEW c, NEW o \in {r, NoOne}, NEW m \in MetaType,
         NEW l \in Seq(Chunks), Fenced(r, c, o, m, l)
  PROVE  StoreTypes'
BY DEF StoreTypes, Fenced, Charge

\* What stays true while others go on.
LEMMA MetaStays ==
  ASSUME MetaOK, NEW r \in Requests, Mine(r), UNCHANGED <<meta, list>>, OwnStays
  PROVE  MetaOK'
<1>1. owner' = owner \/ owner' = NoOne \/ (owner' = r /\ (owner = r \/ at[r] # "own"))
  BY DEF Mine
<1> QED BY <1>1, StoreAssumption DEF MetaOK, OwnStays, Tells

LEMMA DurableStays ==
  ASSUME DurableOK, UNCHANGED durable, OwnStays
  PROVE  DurableOK'
BY DEF DurableOK, OwnStays, Tells, Whole

\* A request that is not served from the keys that a step of another one changes.
LEMMA AttachStays ==
  ASSUME ReplayInv, NEW r \in Requests, NEW o \in Requests, o # r, Mine(o), OwnStays,
         at'[r] = at[r], seen'[r] = seen[r], parts'[r] = parts[r], spool'[r] = spool[r]
  PROVE  AttachOK(r)'
<1>1. owner' = r => owner = r /\ UNCHANGED <<meta, list>>
  BY StoreAssumption DEF Mine
<1>2. AttachOK(r)
  BY DEF ReplayInv, RequestOK
<1>3. ASSUME at[r] = "serving"
      PROVE  /\ seen[r].gen \in Requests /\ at'[seen[r].gen] = "own" /\ owner' # seen[r].gen
             /\ meta'.gen = seen[r].gen =>
                  /\ meta' = seen[r] /\ meta'.status = "completed"
                  /\ list' = <<>> \/ SameStart(parts[r], list')
  <2>1. /\ seen[r].gen \in Requests /\ at[seen[r].gen] = "own" /\ owner # seen[r].gen
        /\ meta.gen = seen[r].gen =>
             meta = seen[r] /\ meta.status = "completed" /\ (list = <<>> \/ SameStart(parts[r], list))
    BY <1>2, <1>3 DEF AttachOK
  <2>2. at'[seen[r].gen] = "own" /\ seen[r].gen # NoOne
    BY <2>1, StoreAssumption DEF OwnStays
  <2>3. owner' # seen[r].gen
    BY <2>1, <2>2 DEF Mine
  <2>4. UNCHANGED <<meta, list>> \/ meta'.gen # seen[r].gen
    BY <2>1, <2>2 DEF Mine
  <2> QED BY <2>1, <2>2, <2>3, <2>4
<1>4. Whole(parts[r]) => Whole(parts[r])'
  BY DEF OwnStays, Whole, Tells
<1> QED BY <1>1, <1>2, <1>3, <1>4 DEF AttachOK

LEMMA OthersStay ==
  ASSUME ReplayInv, NEW r \in Requests, NEW o \in Requests, o # r, Mine(o), RowStep, OwnStays,
         at'[r] = at[r], seen'[r] = seen[r], parts'[r] = parts[r], spool'[r] = spool[r]
  PROVE  RequestOK(r)'
<1>1. owner' = r => owner = r /\ UNCHANGED <<meta, list>>
  BY StoreAssumption DEF Mine
<1>2. RequestOK(r)
  BY DEF ReplayInv
<1>3. AttachOK(r)'
  BY AttachStays
<1>4. Shape(r, spool[r])'
  BY <1>2 DEF RequestOK
<1>5. Agrees(r)' /\ HasRead(r, spool[r])'
  BY <1>1, <1>2 DEF RequestOK, Agrees, HasRead, IsTale, OwnStays
<1>6. Durable(r)'
  BY <1>2 DEF RequestOK, Durable, RowStep
<1> QED BY <1>3, <1>4, <1>5, <1>6 DEF RequestOK

-----------------------------------------------------------------------------
(* Steps of the spool that leave Redis alone *)

\* What a spool that goes on knows, it knew before.
Follows(s, t) == Believes(t) => Believes(s) /\ Known(t) = Known(s) /\ WrittenTo(t) = WrittenTo(s)

LEMMA LocalStep ==
  ASSUME ReplayInv, NEW r \in Requests, NEW t, at[r] = "own", Set(r, t),
         UNCHANGED <<owner, meta, list, durable, again>>, faults' \in Nat, Shape(r, t),
         Follows(spool[r], t), HasRead(r, t),
         t.writer = "complete" => spool[r].writer = "complete" /\ t.payload = spool[r].payload
  PROVE  ReplayInv'
<1>1. UNCHANGED <<owner, meta, list, durable, again, at, seen, parts, claimed>>
  BY DEF Set, attachVars
<1>2. spool' = [spool EXCEPT ![r] = t] /\ spool \in [Requests -> SpoolType] /\ t \in SpoolType
  BY DEF Set, ReplayInv, ReplayTypeOK, Shape
<1>3. spool'[r] = t /\ \A o \in Requests \ {r} : spool'[o] = spool[o]
  BY <1>2
<1>4. ReplayTypeOK'
  BY <1>1, <1>2 DEF ReplayInv, ReplayTypeOK, StoreTypes, AttachTypes
<1>5. MetaOK' /\ DurableOK' /\ OwnStays /\ Mine(r)
  <2>1. OwnStays /\ Mine(r)
    BY <1>1 DEF OwnStays, Mine
  <2> QED BY <1>1, <2>1, MetaStays, DurableStays DEF ReplayInv
<1>6. ASSUME NEW o \in Requests PROVE RequestOK(o)'
  <2>1. CASE o = r
    <3>1. RequestOK(r)
      BY DEF ReplayInv
    <3>2. AttachOK(r)'
      BY <3>1, <1>1 DEF RequestOK, AttachOK
    <3>3. Shape(r, spool[r])'
      BY <1>3
    <3>4. Agrees(r)' /\ HasRead(r, spool[r])'
      BY <3>1, <1>1, <1>3 DEF RequestOK, Agrees, Follows, HasRead, IsTale
    <3>5. Durable(r)'
      BY <3>1, <1>1, <1>3 DEF RequestOK, Durable
    <3> QED BY <2>1, <3>2, <3>3, <3>4, <3>5 DEF RequestOK
  <2>2. CASE o # r
    BY <2>2, <1>1, <1>3, <1>5, OthersStay DEF RowStep
  <2> QED BY <2>1, <2>2
<1> QED BY <1>4, <1>5, <1>6 DEF ReplayInv

\* A writer that has not read, or reads no more than before.
LEMMA ReadsNothing == \A r, s : s.writer \notin {"read", "complete"} => HasRead(r, s)
BY DEF HasRead

LEMMA WakeOps ==
  ASSUME NEW ops \in Seq(Jobs)
  PROVE  Wake(ops) \in Seq(Jobs) /\ (HasFinal(Wake(ops)) => HasFinal(ops))
<1>1. "flush" \in Jobs /\ Len(ops) \in Nat
  BY DEF Jobs
<1>2. /\ Append(ops, "flush") \in Seq(Jobs) /\ Len(Append(ops, "flush")) = Len(ops) + 1
      /\ \A i \in 1..Len(ops) : Append(ops, "flush")[i] = ops[i]
      /\ Append(ops, "flush")[Len(ops) + 1] = "flush"
  BY <1>1, AppendProperties
<1>3. HasFinal(Append(ops, "flush")) => HasFinal(ops)
  <2>1. SUFFICES ASSUME NEW i \in 1..(Len(ops) + 1), Append(ops, "flush")[i] = "final"
                 PROVE  HasFinal(ops)
    BY <1>2 DEF HasFinal
  <2>2. i # Len(ops) + 1
    BY <2>1, <1>2
  <2>3. i \in 1..Len(ops)
    BY <2>2, <1>1
  <2> QED BY <2>1, <2>3, <1>2 DEF HasFinal
<1> QED BY <1>2, <1>3 DEF Wake

LEMMA TailOps ==
  ASSUME NEW ops \in Seq(Jobs), ops # <<>>
  PROVE  Tail(ops) \in Seq(Jobs) /\ (HasFinal(Tail(ops)) => HasFinal(ops))
<1>1. /\ Tail(ops) \in Seq(Jobs) /\ Len(Tail(ops)) = Len(ops) - 1
      /\ \A i \in 1..Len(Tail(ops)) : Tail(ops)[i] = ops[i + 1]
  BY HeadTailProperties
<1>2. \A i \in 1..Len(Tail(ops)) : i + 1 \in 1..Len(ops)
  BY <1>1
<1> QED BY <1>1, <1>2 DEF HasFinal

\* A spool that gives up asks for its cleanup and drops what it has.
LEMMA TeardownShape ==
  ASSUME NEW r \in Requests, NEW s, Shape(r, s), s.writer \notin Finals,
         NEW how \in {"delete", "keep"}
  PROVE  LET t == Teardown(s, how) IN
         /\ Shape(r, t) /\ t.off /\ t.writer = s.writer /\ t.reply = s.reply
<1> DEFINE u == [s EXCEPT !.off = TRUE, !.pending = <<>>]
           t == Teardown(s, how)
<1>1. s \in SpoolType /\ s.ops \in Seq(Jobs)
  BY DEF Shape, SpoolType
<1>2. Wake(s.ops) \in Seq(Jobs) /\ (HasFinal(Wake(s.ops)) => HasFinal(s.ops))
  BY <1>1, WakeOps
<1>3. CASE s.off
  BY <1>3 DEF Teardown
<1>4. CASE ~s.off
  <2> DEFINE v == [u EXCEPT !.cleanup = how, !.ops = Wake(@)]
  <2>a. <<>> \in Seq(Chunks)
    OBVIOUS
  <2>b. u \in SpoolType
    BY <1>1, <2>a DEF SpoolType
  <2>1. /\ u.off /\ u.pending = <<>> /\ u.writer = s.writer
        /\ u.reply = s.reply /\ u.handler = s.handler /\ u.ops = s.ops /\ u.payload = s.payload
        /\ u.cleanup = s.cleanup
    BY <1>1 DEF SpoolType
  <2>c. v \in SpoolType
    BY <2>b, <2>1, <1>2 DEF SpoolType
  <2>d. /\ v.off /\ v.pending = <<>> /\ v.writer = s.writer
        /\ v.reply = s.reply /\ v.handler = s.handler /\ v.payload = s.payload
        /\ v.ops = Wake(s.ops)
    BY <2>b, <2>1 DEF SpoolType
  <2>2. t = u \/ t = v
    BY <1>4 DEF Teardown, RequestCleanup
  <2>3. /\ t \in SpoolType /\ t.off /\ t.pending = <<>> /\ t.writer = s.writer
        /\ t.reply = s.reply /\ t.handler = s.handler /\ t.payload = s.payload
        /\ (HasFinal(t.ops) => HasFinal(s.ops))
    BY <2>1, <2>2, <2>b, <2>c, <2>d, <1>2
  <2>4. Accounted(r, t)
    BY <2>3 DEF Accounted, Believes
  <2>5. Ordered(t)
    BY <2>3 DEF Shape, Ordered
  <2>6. ReadBack(t)
    <3> HIDE DEF t
    <3> QED BY <2>3 DEF Shape, ReadBack, Finals
  <2> QED BY <2>3, <2>4, <2>5, <2>6 DEF Shape
<1> QED BY <1>3, <1>4

\* The writer is done with a job, and what it was told of it is in the spool.
LEMMA AfterJobShape ==
  ASSUME NEW r \in Requests, NEW s, Shape(r, s), s.writer \in {"idle", "wrote"},
         s.off \/ (s.count = Known(s) /\ ~InDoubt(s))
  PROVE  LET t == AfterJob(s) IN
         /\ Shape(r, t) /\ Follows(s, t) /\ t.writer \in {"clean", "idle"}
<1> DEFINE t == AfterJob(s)
<1>1. /\ t \in SpoolType /\ t.reply = NoReply /\ t.writer \in {"clean", "idle"}
      /\ t.off = s.off /\ t.cleanup = s.cleanup /\ t.pending = s.pending /\ t.tail = s.tail
      /\ t.handler = s.handler /\ t.ops = s.ops /\ t.payload = s.payload /\ t.count = s.count
      /\ t.made = s.made /\ (t.writer = "clean" => s.cleanup # "no")
  BY DEF Shape, AfterJob, SpoolType, Writers, ReplyType, NoReply
<1>2. Known(t) = t.count /\ ~InDoubt(t)
  BY <1>1 DEF Known, InDoubt, NoReply
<1>a. WrittenTo(t) = WrittenTo(s) /\ t.writer \notin Finals /\ s.writer \notin Finals
  BY <1>1 DEF WrittenTo, Finals
<1> HIDE DEF t
<1>3. Follows(s, t)
  BY <1>1, <1>2, <1>a DEF Follows, Believes
<1>4. Accounted(r, t)
  BY <1>1, <1>2, <1>3, <1>a DEF Shape, Accounted, Follows
<1>5. Ordered(t)
  BY <1>1 DEF Shape, Ordered, Finals, NoReply
<1>6. ReadBack(t)
  BY <1>1 DEF Shape, ReadBack
<1> QED BY <1>1, <1>3, <1>4, <1>5, <1>6 DEF Shape, t

\* A spool before its first job, and one that is not there.
LEMMA NewSpoolShape == \A r : Shape(r, NewSpool)
<1>1. /\ NewSpool.handler = "stream" /\ NewSpool.writer = "idle" /\ NewSpool.ops = <<"boot">>
      /\ NewSpool.made = 0 /\ NewSpool.count = 0 /\ NewSpool.tail = <<>>
      /\ NewSpool.pending = <<>> /\ NewSpool.payload = <<>> /\ NewSpool.reply = NoReply
      /\ NewSpool.cleanup = "no" /\ ~NewSpool.off
  BY DEF NewSpool
<1>2. <<"boot">> \in Seq(Jobs) /\ <<>> \in Seq(Chunks) /\ NoReply \in ReplyType
  BY DEF Jobs, NoReply, ReplyType
<1>3. NewSpool \in SpoolType
  BY <1>2 DEF NewSpool, SpoolType, Handlers, Writers
<1>4. ~HasFinal(<<"boot">>)
  BY DEF HasFinal
<1>5. \A r : Run(<<>>, r, 0)
  BY EmptyRun
<1>6. WrittenTo(NewSpool) = 0 /\ Known(NewSpool) = 0
  BY <1>1 DEF WrittenTo, Known, Finals, NoReply
<1> QED BY <1>1, <1>3, <1>4, <1>5, <1>6 DEF Shape, Accounted, Ordered, ReadBack, Finals, NoReply

LEMMA NoSpoolShape == \A r : Shape(r, NoSpool)
<1>1. /\ NoSpool.handler = "left" /\ NoSpool.writer = "exited" /\ NoSpool.ops = <<>>
      /\ NoSpool.pending = <<>> /\ NoSpool.payload = <<>> /\ NoSpool.reply = NoReply
      /\ NoSpool.cleanup = "no"
  BY DEF NoSpool, NewSpool
<1>2. NoSpool \in SpoolType
  <2>1. <<>> \in Seq(Jobs) /\ NewSpool \in SpoolType
    BY NewSpoolShape DEF Shape
  <2> QED BY <2>1 DEF NoSpool, SpoolType, Handlers, Writers
<1>3. ~HasFinal(<<>>)
  BY DEF HasFinal
<1> QED BY <1>1, <1>2, <1>3 DEF Shape, Accounted, Believes, Ordered, ReadBack, Finals, NoReply

LEMMA ReleasedShape ==
  ASSUME NEW r \in Requests, NEW s, Shape(r, s)
  PROVE  LET t == Released(s) IN Shape(r, t) /\ t.off /\ t.writer = "exited"
<1> DEFINE t == Released(s)
<1>1. /\ t.off /\ t.writer = "exited" /\ t.handler = "left" /\ t.ops = <<>>
      /\ t.pending = <<>> /\ t.payload = <<>> /\ t.reply = NoReply
  BY DEF Released, NoSpool, NewSpool
<1>3. t \in SpoolType
  <2>1. NoSpool \in SpoolType
    BY NoSpoolShape DEF Shape
  <2>2. s.cleanup \in {"no", "delete", "keep"}
    BY DEF Shape, SpoolType
  <2> QED BY <2>1, <2>2 DEF Released, SpoolType
<1>2. ~HasFinal(t.ops)
  BY <1>1 DEF HasFinal
<1> QED BY <1>1, <1>2, <1>3 DEF Shape, Accounted, Believes, Ordered, ReadBack, Finals, NoReply

-----------------------------------------------------------------------------
(* The handler *)

LEMMA Untouched == UNCHANGED storeVars /\ ReplayInv =>
  UNCHANGED <<owner, meta, list, durable, again>> /\ faults' \in Nat
BY DEF storeVars, ReplayInv, ReplayTypeOK, StoreTypes

LEMMA SpoolFacts ==
  ASSUME ReplayInv, NEW r \in Requests
  PROVE  /\ Shape(r, spool[r]) /\ spool[r] \in SpoolType /\ spool[r].writer \in Writers
         /\ (spool[r].writer # "exited" \/ spool[r].handler # "left" => at[r] = "own")
<1>1. Shape(r, spool[r]) /\ spool[r] \in SpoolType /\ (at[r] # "own" => spool[r] = NoSpool)
  BY DEF ReplayInv, RequestOK, Shape, AttachOK
<1>2. NoSpool.writer = "exited" /\ NoSpool.handler = "left"
  BY DEF NoSpool, NewSpool
<1> QED BY <1>1, <1>2 DEF SpoolType

LEMMA ObserveStep == ASSUME ReplayInv, NEW r \in Requests, Observe(r) PROVE ReplayInv'
<1> DEFINE s == spool[r]
           t == [s EXCEPT !.made = @ + 1, !.pending = Append(@, <<r, s.made + 1>>)]
           u == [t EXCEPT !.ops = Wake(@)]
           v == Teardown(s, "delete")
<1>1. at[r] = "own" /\ s.handler = "stream" /\ ~s.off /\ UNCHANGED storeVars
  BY DEF Observe, Streams
<1>2. Shape(r, s) /\ s \in SpoolType /\ s.pending \in Seq(Chunks) /\ s.made \in Nat /\ s.ops \in Seq(Jobs)
  BY SpoolFacts DEF SpoolType
<1>3. s.writer \notin Finals
  BY <1>1, <1>2 DEF Shape, Ordered
<1>4. <<r, s.made + 1>> \in Chunks
  BY <1>2 DEF Chunks
<1>5. Append(s.pending, <<r, s.made + 1>>) \in Seq(Chunks)
  BY <1>2, <1>4, AppendProperties
<1>6. t \in SpoolType
  <2>1. \A n \in Nat, p \in Seq(Chunks) : [s EXCEPT !.made = n, !.pending = p] \in SpoolType
    BY <1>2 DEF SpoolType
  <2>2. t = [s EXCEPT !.made = s.made + 1, !.pending = Append(s.pending, <<r, s.made + 1>>)]
    OBVIOUS
  <2>3. s.made + 1 \in Nat
    BY <1>2
  <2> HIDE DEF t
  <2> QED BY <2>1, <2>2, <2>3, <1>5, Zenon
<1>7. /\ t.off = s.off /\ t.reply = s.reply /\ t.writer = s.writer /\ t.handler = s.handler
      /\ t.tail = s.tail /\ t.count = s.count /\ t.ops = s.ops /\ t.cleanup = s.cleanup
      /\ t.payload = s.payload /\ t.made = s.made + 1
      /\ t.pending = Append(s.pending, <<r, s.made + 1>>)
  BY <1>2 DEF SpoolType
<1>8. Known(t) = Known(s) /\ (Believes(t) <=> Believes(s))
  BY <1>7 DEF Known, Believes, InDoubt
<1> HIDE DEF t
<1>a. WrittenTo(t) = WrittenTo(s)
  <2>1. Len(t.pending) = Len(s.pending) + 1 /\ Len(s.pending) \in Nat /\ Len(s.tail) \in Nat
    BY <1>2, <1>4, <1>7 DEF SpoolType
  <2>2. \A a, b, c \in Nat : (a + 1) - (b + 1) - c = a - b - c
    OBVIOUS
  <2>3. WrittenTo(t) = t.made - Len(t.pending) - Len(t.tail)
    BY <1>3, <1>7 DEF WrittenTo
  <2>4. WrittenTo(s) = s.made - Len(s.pending) - Len(s.tail)
    BY <1>3 DEF WrittenTo
  <2>5. t.made - Len(t.pending) - Len(t.tail) = (s.made + 1) - (Len(s.pending) + 1) - Len(s.tail)
    BY <2>1, <1>7
  <2> QED BY <2>1, <2>2, <2>3, <2>4, <2>5, <1>2
<1>9. Accounted(r, t)
  <2>1. SUFFICES ASSUME Believes(s)
                 PROVE  /\ WrittenTo(s) \in Nat /\ WrittenTo(s) <= Known(s) /\ t.tail = <<>>
                        /\ Run(t.pending, r, WrittenTo(s))
    BY <1>1, <1>7, <1>8, <1>a DEF Accounted
  <2>2. /\ WrittenTo(s) \in Nat /\ WrittenTo(s) <= Known(s) /\ s.tail = <<>> /\ Run(s.pending, r, WrittenTo(s))
    BY <1>1, <1>2, <2>1 DEF Shape, Accounted
  <2>3. s.made = WrittenTo(s) + Len(s.pending) /\ Len(s.pending) \in Nat
    <3>1. Len(s.pending) \in Nat /\ Len(s.tail) = 0
      BY <1>2, <2>2
    <3> QED BY <1>2, <1>3, <3>1 DEF WrittenTo
  <2>4. LET p == Append(s.pending, <<r, WrittenTo(s) + Len(s.pending) + 1>>)
        IN  Run(p, r, WrittenTo(s)) /\ Len(p) = Len(s.pending) + 1
    BY <2>2, RunAppend
  <2>5. t.pending = Append(s.pending, <<r, WrittenTo(s) + Len(s.pending) + 1>>)
    BY <2>3, <1>7
  <2> QED BY <2>2, <2>4, <2>5, <1>7
<1>10. Shape(r, t)
  BY <1>1, <1>2, <1>6, <1>7, <1>9 DEF Shape, Ordered, ReadBack
<1>11. Shape(r, u) /\ Follows(s, u) /\ u.writer = s.writer
  <2>1. Wake(s.ops) \in Seq(Jobs) /\ (HasFinal(Wake(s.ops)) => HasFinal(s.ops))
    BY <1>2, WakeOps
  <2>2. u \in SpoolType
    BY <1>6, <1>7, <2>1 DEF SpoolType
  <2>3. /\ u.off = t.off /\ u.reply = t.reply /\ u.writer = t.writer /\ u.handler = t.handler
        /\ u.tail = t.tail /\ u.count = t.count /\ u.ops = Wake(s.ops) /\ u.cleanup = t.cleanup
        /\ u.payload = t.payload /\ u.made = t.made /\ u.pending = t.pending
    BY <1>6, <1>7 DEF SpoolType
  <2> HIDE DEF u
  <2>4. Known(u) = Known(t) /\ (Believes(u) <=> Believes(t)) /\ WrittenTo(u) = WrittenTo(t)
    BY <2>3 DEF Known, Believes, InDoubt, WrittenTo
  <2>5. Accounted(r, u)
    BY <2>3, <2>4, <1>9 DEF Accounted
  <2> QED BY <2>1, <2>2, <2>3, <2>4, <2>5, <1>7, <1>8, <1>a, <1>10 DEF Shape, Ordered, ReadBack, Follows, u
<1>12. Shape(r, v) /\ v.off /\ v.writer = s.writer
  BY <1>2, <1>3, TeardownShape
<1>13. Follows(s, t) /\ Follows(s, v)
  BY <1>8, <1>a, <1>12 DEF Follows, Believes
<1>b. \A x \in {t, u, v} : HasRead(r, x) /\ x.writer # "complete"
  BY <1>3, <1>7, <1>11, <1>12, ReadsNothing DEF Finals
<1>14. Set(r, t) \/ Set(r, u) \/ Set(r, v)
  BY DEF Observe, t
<1>15. UNCHANGED <<owner, meta, list, durable, again>> /\ faults' \in Nat
  BY <1>1, Untouched
<1>16. CASE Set(r, t)
  BY <1>1, <1>10, <1>13, <1>b, <1>15, <1>16, LocalStep
<1>17. CASE Set(r, u)
  BY <1>1, <1>11, <1>b, <1>15, <1>17, LocalStep
<1>18. CASE Set(r, v)
  BY <1>1, <1>12, <1>13, <1>b, <1>15, <1>18, LocalStep
<1> QED BY <1>14, <1>16, <1>17, <1>18

LEMMA EndWellStep == ASSUME ReplayInv, NEW r \in Requests, EndWell(r) PROVE ReplayInv'
<1> DEFINE s == spool[r]
           t == [s EXCEPT !.tail = s.pending, !.pending = <<>>, !.handler = "enqueue"]
<1>1. at[r] = "own" /\ s.handler = "stream" /\ ~s.off /\ s.made = Length /\ Set(r, t)
      /\ UNCHANGED storeVars
  BY DEF EndWell, Streams
<1>2. Shape(r, s) /\ s \in SpoolType /\ s.pending \in Seq(Chunks)
  BY SpoolFacts DEF SpoolType
<1>3. s.writer \notin Finals /\ ~HasFinal(s.ops) /\ s.writer # "exited"
  BY <1>1, <1>2 DEF Shape, Ordered
<1>4. t \in SpoolType
  <2>1. <<>> \in Seq(Chunks) /\ "enqueue" \in Handlers
    BY DEF Handlers
  <2> QED BY <1>2, <2>1 DEF SpoolType
<1>5. /\ t.off = s.off /\ t.reply = s.reply /\ t.writer = s.writer /\ t.handler = "enqueue"
      /\ t.tail = s.pending /\ t.count = s.count /\ t.ops = s.ops /\ t.cleanup = s.cleanup
      /\ t.payload = s.payload /\ t.pending = <<>> /\ t.made = s.made
  BY <1>2 DEF SpoolType
<1>6. Known(t) = Known(s) /\ (Believes(t) <=> Believes(s))
  BY <1>5 DEF Known, Believes, InDoubt
<1>a. Believes(s) => WrittenTo(t) = WrittenTo(s) /\ s.tail = <<>>
  <2>1. Believes(s) => s.tail = <<>>
    BY <1>1, <1>2 DEF Shape, Accounted
  <2>2. Len(s.pending) \in Nat /\ s.made \in Nat
    BY <1>2 DEF SpoolType
  <2> HIDE DEF t
  <2> QED BY <2>1, <2>2, <1>3, <1>5 DEF WrittenTo
<1>7. Accounted(r, t)
  <2> HIDE DEF t
  <2> QED BY <1>1, <1>2, <1>3, <1>5, <1>6, <1>a DEF Shape, Accounted
<1>8. Shape(r, t)
  BY <1>2, <1>3, <1>4, <1>5, <1>7 DEF Shape, Ordered, ReadBack
<1>9. Follows(s, t)
  BY <1>6, <1>a DEF Follows
<1>10. UNCHANGED <<owner, meta, list, durable, again>> /\ faults' \in Nat
  BY <1>1, Untouched
<1>11. HasRead(r, t) /\ t.writer # "complete"
  BY <1>3, <1>5, ReadsNothing DEF Finals
<1> QED BY <1>1, <1>8, <1>9, <1>10, <1>11, LocalStep

LEMMA EndBadlyStep == ASSUME ReplayInv, NEW r \in Requests, EndBadly(r) PROVE ReplayInv'
<1> DEFINE s == spool[r]
           u == [s EXCEPT !.handler = "left"]
           v == Teardown(s, "delete")
           t == Teardown(u, "delete")
<1>1. at[r] = "own" /\ s.handler = "stream" /\ ~s.off /\ Set(r, t) /\ UNCHANGED storeVars
  BY DEF EndBadly, Streams
<1>2. Shape(r, s) /\ s \in SpoolType
  BY SpoolFacts
<1>3. s.writer \notin Finals
  BY <1>1, <1>2 DEF Shape, Ordered
<1>4. Shape(r, v) /\ v.off /\ v.writer = s.writer /\ v \in SpoolType
  BY <1>2, <1>3, TeardownShape DEF Shape
<1>5. t = [v EXCEPT !.handler = "left"]
  BY <1>1, <1>2 DEF Teardown, RequestCleanup, SpoolType
<1> HIDE DEF v, t
<1>6. /\ t \in SpoolType /\ t.off /\ t.reply = v.reply /\ t.writer = v.writer
      /\ t.handler = "left" /\ t.ops = v.ops /\ t.cleanup = v.cleanup
      /\ t.payload = v.payload /\ t.pending = v.pending
  BY <1>4, <1>5 DEF SpoolType, Handlers
<1>7. Shape(r, t)
  <2>1. Accounted(r, t) /\ ReadBack(t)
    BY <1>3, <1>4, <1>6 DEF Shape, Accounted, Believes, ReadBack, Finals
  <2>2. Ordered(t)
    BY <1>3, <1>4, <1>6 DEF Shape, Ordered
  <2> QED BY <2>1, <2>2, <1>6 DEF Shape
<1>8. Follows(s, t)
  BY <1>6 DEF Follows, Believes
<1>9. UNCHANGED <<owner, meta, list, durable, again>> /\ faults' \in Nat
  BY <1>1, Untouched
<1>10. HasRead(r, t) /\ t.writer # "complete"
  BY <1>3, <1>4, <1>6, ReadsNothing DEF Finals
<1> QED BY <1>1, <1>7, <1>8, <1>9, <1>10, LocalStep

\* What the handler waits for changes nothing of what the spool holds.
LEMMA WaitStep ==
  ASSUME ReplayInv, NEW r \in Requests, EnqueueFinal(r) \/ CompleteTimeout(r)
  PROVE  ReplayInv'
<1> DEFINE s == spool[r]
<1>1. PICK t : /\ Set(r, t) /\ s.handler \in {"enqueue", "await"} /\ UNCHANGED storeVars
               /\ \/ t = [s EXCEPT !.ops = Append(@, "final"), !.handler = "await"]
                  \/ t = [s EXCEPT !.handler = "left", !.expired = @ \/ s.handler = "await"]
  BY DEF EnqueueFinal, CompleteTimeout
<1>2. Shape(r, s) /\ s \in SpoolType /\ at[r] = "own" /\ s.ops \in Seq(Jobs)
  BY <1>1, SpoolFacts DEF SpoolType
<1>3. Append(s.ops, "final") \in Seq(Jobs)
  BY <1>2, AppendProperties DEF Jobs
<1>4. t \in SpoolType /\ t.handler \in {"await", "left"}
  BY <1>1, <1>2, <1>3 DEF SpoolType, Handlers
<1>5. /\ t.off = s.off /\ t.reply = s.reply /\ t.writer = s.writer
      /\ t.tail = s.tail /\ t.count = s.count /\ t.cleanup = s.cleanup
      /\ t.payload = s.payload /\ t.pending = s.pending /\ t.made = s.made
  BY <1>1, <1>2 DEF SpoolType
<1>6. Known(t) = Known(s) /\ (Believes(t) <=> Believes(s)) /\ WrittenTo(t) = WrittenTo(s)
  BY <1>5 DEF Known, Believes, InDoubt, WrittenTo
<1>7. Accounted(r, t)
  BY <1>1, <1>2, <1>4, <1>5, <1>6 DEF Shape, Accounted
<1>8. s.writer # "exited"
  BY <1>1, <1>2 DEF Shape, Ordered
<1>9. Shape(r, t)
  BY <1>1, <1>2, <1>4, <1>5, <1>7, <1>8 DEF Shape, Ordered, ReadBack
<1>10. Follows(s, t)
  BY <1>6 DEF Follows
<1>11. UNCHANGED <<owner, meta, list, durable, again>> /\ faults' \in Nat
  BY <1>1, Untouched
<1>12. HasRead(r, t)
  BY <1>5 DEF ReplayInv, RequestOK, HasRead
<1> QED BY <1>1, <1>2, <1>5, <1>9, <1>10, <1>11, <1>12, LocalStep

-----------------------------------------------------------------------------
(* The writer *)

LEMMA TakenShape ==
  ASSUME NEW r \in Requests, NEW s, Shape(r, s), s.ops # <<>>
  PROVE  LET t == Taken(s) IN
         /\ Shape(r, t) /\ Follows(s, t) /\ t.writer = s.writer /\ t.off = s.off
         /\ t.reply = s.reply /\ t.handler = s.handler /\ t.tail = s.tail
         /\ t.count = s.count /\ t.pending = s.pending /\ t.made = s.made
<1> DEFINE t == Taken(s)
<1>1. s \in SpoolType /\ s.ops \in Seq(Jobs)
  BY DEF Shape, SpoolType
<1>2. Tail(s.ops) \in Seq(Jobs) /\ (HasFinal(Tail(s.ops)) => HasFinal(s.ops))
  BY <1>1, TailOps
<1>3. t \in SpoolType
  BY <1>1, <1>2 DEF Taken, SpoolType
<1>4. /\ t.off = s.off /\ t.reply = s.reply /\ t.writer = s.writer /\ t.handler = s.handler
      /\ t.tail = s.tail /\ t.count = s.count /\ t.ops = Tail(s.ops) /\ t.cleanup = s.cleanup
      /\ t.payload = s.payload /\ t.made = s.made /\ t.pending = s.pending
  BY <1>1 DEF Taken, SpoolType
<1> HIDE DEF t
<1>5. Known(t) = Known(s) /\ (Believes(t) <=> Believes(s)) /\ WrittenTo(t) = WrittenTo(s)
  BY <1>4 DEF Known, Believes, InDoubt, WrittenTo
<1>6. Accounted(r, t)
  BY <1>4, <1>5 DEF Shape, Accounted
<1>7. Ordered(t)
  BY <1>2, <1>4 DEF Shape, Ordered
<1>8. ReadBack(t)
  BY <1>4 DEF Shape, ReadBack
<1> QED BY <1>3, <1>4, <1>5, <1>6, <1>7, <1>8 DEF Shape, Follows, t

LEMMA HeadIsFinal ==
  ASSUME NEW ops \in Seq(Jobs), ops # <<>>, Head(ops) = "final" PROVE HasFinal(ops)
<1>1. Len(ops) \in Nat /\ Len(ops) > 0 /\ ops[1] = "final"
  OBVIOUS
<1> QED BY <1>1 DEF HasFinal

Answers(n) == {y \in ReplyType : y.outcome \in {"lost", "unavailable"}
                                 \/ (y.outcome = "ok" /\ y.count >= n)}
Answered(s, place, y) == [s EXCEPT !.writer = place, !.reply = y]

\* A batch goes to the end of the list, once or more often, or the writer does not know.
LEMMA BatchStep ==
  ASSUME ReplayInv, NEW r \in Requests, NEW s \in SpoolType, NEW batch,
         NEW place \in {"wrote", "tail"}, at[r] = "own", Believes(spool[r]),
         s.count = Known(spool[r]), Run(batch, r, WrittenTo(spool[r])), WriteBatch(r, s, batch, place),
         \A y \in Answers(s.count + Len(batch)) :
           LET t == Answered(s, place, y) IN
           Shape(r, t) /\ (Believes(t) => WrittenTo(t) = WrittenTo(spool[r]) + Len(batch))
  PROVE  ReplayInv'
<1>1. PICK c \in Calls \cup CallsOf(s) :
        /\ WriteOwned(r, c, Meta("owning", r, s.count + Len(batch)), batch)
        /\ Set(r, Answered(s, place, Reply(r, c)))
  BY DEF WriteBatch, Answered
<1>2. c.times \in 0..3 /\ (c.heard => c.times > 0)
  BY CallsGo
<1> DEFINE m == Meta("owning", r, s.count + Len(batch))
           y == Reply(r, c)
           t == Answered(s, place, y)
           k == WrittenTo(spool[r])
<1>3. /\ list \in Seq(Chunks) /\ batch \in Seq(Chunks) /\ s.count \in Nat /\ Len(batch) \in Nat
      /\ StoreTypes
  <2>1. StoreTypes /\ list \in Seq(Chunks)
    BY DEF ReplayInv, ReplayTypeOK, StoreTypes
  <2>2. batch \in Seq(Chunks) /\ s.count \in Nat
    BY DEF Run, SpoolType
  <2> QED BY <2>1, <2>2
<1>4. k \in Nat /\ k <= s.count
  BY DEF ReplayInv, RequestOK, Shape, Accounted
<1>5. m \in MetaType /\ m.gen = r /\ m.status = "owning"
  BY <1>3 DEF Meta, MetaType
<1> HIDE DEF m, k
<1>6. /\ IF c.times > 0 /\ owner = r
         THEN owner' = r /\ meta' = m /\ list' = Pushed(batch, c.times)
         ELSE UNCHANGED <<owner, meta, list>>
      /\ again' = IF c.times > 1 /\ owner = r /\ batch # <<>> THEN again \cup {r} ELSE again
      /\ faults' \in Nat /\ UNCHANGED durable
  BY <1>1, <1>3 DEF WriteOwned, Charge, StoreTypes, m
<1>7. ASSUME owner = r, c.times > 0
      PROVE  /\ list' \in Seq(Chunks) /\ IsTale(list, r)' /\ Len(list') >= s.count + Len(batch)
             /\ Upto(list') = k + Len(batch) /\ Len(list') \in Nat
  <2>1. IsTale(list, r) /\ Len(list) = s.count /\ Upto(list) = k
    BY <1>7 DEF ReplayInv, RequestOK, Agrees, k
  <2>2. /\ list' \in Seq(Chunks) /\ Stammers(list', r) /\ Len(list') >= s.count + Len(batch)
        /\ Upto(list') = k + Len(batch)
        /\ c.times = 1 \/ batch = <<>> => list' = list \o batch
    <3>1. list' = Repeated(list, batch, c.times)
      BY <1>6, <1>7 DEF Pushed, Repeated
    <3>2. c.times \in 1..3 /\ Run(batch, r, k) /\ Stammers(list, r)
      BY <1>2, <1>7, <2>1 DEF IsTale, k
    <3> DEFINE n == c.times
    <3>3. n \in 1..3 /\ list \in Seq(Chunks) /\ batch \in Seq(Chunks) /\ Stammers(list, r)
      BY <1>3, <3>2
    <3>a. Upto(list) \in Nat /\ Run(batch, r, Upto(list))
      BY <1>4, <2>1, <3>2
    <3> HIDE DEF n
    <3>4. /\ Repeated(list, batch, n) \in Seq(Chunks) /\ Stammers(Repeated(list, batch, n), r)
          /\ Len(Repeated(list, batch, n)) >= Len(list) + Len(batch)
          /\ Upto(Repeated(list, batch, n)) = Upto(list) + Len(batch)
          /\ n = 1 \/ batch = <<>> => Repeated(list, batch, n) = list \o batch
      BY <3>3, <3>a, PushedList
    <3> QED BY <2>1, <3>1, <3>4 DEF n
  <2>3. r \in again' \/ Run(list', r, 0)
    <3>1. SUFFICES ASSUME r \notin again' PROVE Run(list', r, 0)
      OBVIOUS
    <3>2. list' = list \o batch /\ r \notin again
      BY <1>2, <1>6, <1>7, <2>2, <3>1
    <3>3. Run(list, r, 0) /\ k = 0 + Len(list)
      BY <1>3, <1>4, <2>1, <3>2, RunUpto DEF IsTale
    <3>4. Run(batch, r, 0 + Len(list))
      BY <3>3 DEF k
    <3> QED BY <3>2, <3>3, <3>4, RunConcat
  <2> QED BY <2>2, <2>3 DEF IsTale
<1>8. Mine(r) /\ OwnStays /\ UNCHANGED <<at, seen, parts, claimed>>
  <2>1. UNCHANGED <<at, seen, parts, claimed>>
    BY <1>1 DEF Set, attachVars
  <2> QED BY <1>5, <1>6, <2>1 DEF Mine, OwnStays
<1>9. StoreTypes'
  <2>1. owner' \in Requests \cup {NoOne} /\ meta' \in MetaType /\ again' \subseteq Requests
    BY <1>3, <1>5, <1>6 DEF StoreTypes
  <2>2. list' \in Seq(Chunks)
    BY <1>3, <1>6, <1>7
  <2> QED BY <1>3, <1>6, <2>1, <2>2 DEF StoreTypes
<1>10. t \in SpoolType /\ t.reply = y /\ t.writer = place /\ y \in Answers(s.count + Len(batch))
       /\ MetaOK' /\ (owner' = r => IsTale(list, r)' /\ (Believes(t) => owner = r /\ c.times > 0
                                                                     /\ Known(t) = Len(list')))
  <2>a. ASSUME y \in Answers(s.count + Len(batch))
        PROVE  t \in SpoolType /\ t.reply = y /\ t.writer = place
    BY <2>a DEF Answers, Answered, SpoolType, Writers, Finals
  <2>1. CASE owner = r /\ c.times > 0
    <3>1. y = IF c.heard THEN [outcome |-> "ok", count |-> Len(list')]
                         ELSE [outcome |-> "unavailable", count |-> 0]
      BY <2>1 DEF Reply
    <3>2. y \in Answers(s.count + Len(batch))
      BY <1>7, <2>1, <3>1 DEF Answers, ReplyType
    <3>3. MetaOK'
      BY <1>5, <1>6, <2>1 DEF MetaOK
    <3>4. t \in SpoolType /\ t.reply = y /\ t.writer = place
      BY <2>a, <3>2
    <3> HIDE DEF t, y
    <3>5. Believes(t) => Known(t) = Len(list')
      BY <3>1, <3>4 DEF Believes, InDoubt, Known
    <3> QED BY <1>7, <2>1, <3>2, <3>3, <3>4, <3>5
  <2>2. CASE ~(owner = r /\ c.times > 0)
    <3>1. UNCHANGED <<owner, meta, list, again>>
      BY <1>2, <1>6, <2>2
    <3>2. y.outcome \in {"lost", "unavailable"} /\ y \in ReplyType
      BY <1>2, <2>2 DEF Reply, ReplyType
    <3>3. y \in Answers(s.count + Len(batch))
      BY <3>2 DEF Answers
    <3>4. MetaOK'
      BY <1>8, <3>1, MetaStays DEF ReplayInv
    <3>5. owner' = r => IsTale(list, r)'
      BY <3>1 DEF ReplayInv, RequestOK, Agrees, IsTale
    <3>6. t \in SpoolType /\ t.reply = y /\ t.writer = place
      BY <2>a, <3>3
    <3> HIDE DEF t, y
    <3>7. ~Believes(t)
      BY <3>2, <3>6 DEF Believes, InDoubt
    <3> QED BY <3>3, <3>4, <3>5, <3>6, <3>7
  <2> QED BY <2>1, <2>2
<1>11. Set(r, t) /\ Shape(r, t) /\ (Believes(t) => WrittenTo(t) = k + Len(batch))
  BY <1>1, <1>10 DEF k
<1> HIDE DEF t, y
<1>12. spool' = [spool EXCEPT ![r] = t] /\ t \in SpoolType /\ spool \in [Requests -> SpoolType]
  BY <1>10, <1>11 DEF Set, ReplayInv, ReplayTypeOK
<1>13. spool'[r] = t /\ \A o \in Requests \ {r} : spool'[o] = spool[o]
  BY <1>12
<1>14. ReplayTypeOK' /\ DurableOK'
  <2>1. ReplayTypeOK'
    BY <1>8, <1>9, <1>12 DEF ReplayInv, ReplayTypeOK, AttachTypes
  <2> QED BY <1>6, <1>8, <2>1, DurableStays DEF ReplayInv
<1>15. ASSUME NEW o \in Requests PROVE RequestOK(o)'
  <2>1. CASE o = r
    <3>1. AttachOK(r)'
      BY <1>8 DEF AttachOK
    <3>2. Shape(r, spool[r])'
      BY <1>11, <1>13
    <3>3. Agrees(r)'
      BY <1>7, <1>10, <1>11, <1>13 DEF Agrees
    <3>4. Durable(r)' /\ HasRead(r, spool[r])'
      BY <1>10, <1>13 DEF Durable, HasRead
    <3> QED BY <2>1, <3>1, <3>2, <3>3, <3>4 DEF RequestOK
  <2>2. CASE o # r
    BY <2>2, <1>6, <1>8, <1>13, OthersStay DEF RowStep
  <2> QED BY <2>1, <2>2
<1> QED BY <1>10, <1>14, <1>15 DEF ReplayInv

\* The writer gives the key up, and the response with it.
LEMMA GiveUpStep ==
  ASSUME ReplayInv, NEW r \in Requests, NEW c, NEW m \in MetaType, NEW l \in Seq(Chunks),
         NEW t, at[r] = "own", Fenced(r, c, NoOne, m, l), Set(r, t), Shape(r, t),
         ~Believes(t), t.writer \notin {"read", "complete"},
         m.gen \in {r, NoOne} \/ (m = meta /\ l = list),
         owner = r /\ m.status = "completed" =>
           \/ m = meta /\ l = list
           \/ m.gen = r /\ Tells(l, r) /\ Len(l) = m.count
  PROVE  ReplayInv'
<1>1. StoreTypes' /\ Mine(r) /\ UNCHANGED <<durable, again>>
  BY FencedEffect, FencedTypes DEF ReplayInv, ReplayTypeOK
<1>2. \/ owner = r /\ owner' = NoOne /\ meta' = m /\ list' = l
      \/ UNCHANGED <<owner, meta, list>>
  BY FencedEffect
<1>3. UNCHANGED <<at, seen, parts, claimed>> /\ spool' = [spool EXCEPT ![r] = t]
      /\ t \in SpoolType /\ spool \in [Requests -> SpoolType]
  BY DEF Set, attachVars, Shape, ReplayInv, ReplayTypeOK
<1>4. spool'[r] = t /\ \A o \in Requests \ {r} : spool'[o] = spool[o]
  BY <1>3
<1>5. ReplayTypeOK' /\ DurableOK' /\ OwnStays
  <2>1. ReplayTypeOK' /\ OwnStays
    BY <1>1, <1>3 DEF ReplayInv, ReplayTypeOK, AttachTypes, OwnStays
  <2> QED BY <1>1, <2>1, DurableStays DEF ReplayInv
<1>6. MetaOK'
  <2>1. CASE owner = r /\ owner' = NoOne /\ meta' = m /\ list' = l /\ ~(m = meta /\ l = list)
    BY <1>1, <1>3, <2>1, StoreAssumption DEF MetaOK, Tells
  <2>2. CASE UNCHANGED <<meta, list>>
    BY <1>1, <1>5, <2>2, MetaStays DEF ReplayInv
  <2> QED BY <1>2, <2>1, <2>2
<1>7. owner' = r => UNCHANGED <<owner, meta, list>>
  BY <1>2, StoreAssumption
<1>8. ASSUME NEW o \in Requests PROVE RequestOK(o)'
  <2>1. CASE o = r
    <3>1. RequestOK(r)
      BY DEF ReplayInv
    <3>2. AttachOK(r)'
      BY <1>3 DEF AttachOK
    <3>3. Shape(r, spool[r])'
      BY <1>4
    <3>4. Agrees(r)'
      BY <1>1, <1>3, <1>4, <1>7, <3>1 DEF RequestOK, Agrees, IsTale
    <3>5. Durable(r)' /\ HasRead(r, spool[r])'
      BY <1>4 DEF Durable, HasRead
    <3> QED BY <2>1, <3>2, <3>3, <3>4, <3>5 DEF RequestOK
  <2>2. CASE o # r
    BY <2>2, <1>1, <1>3, <1>4, <1>5, OthersStay DEF RowStep
  <2> QED BY <2>1, <2>2
<1> QED BY <1>5, <1>6, <1>8 DEF ReplayInv

\* The writer between two jobs: nothing is on its way.
LEMMA IdleFacts ==
  ASSUME ReplayInv, NEW r \in Requests, WriterIdle(r)
  PROVE  LET s == spool[r] IN
         /\ Shape(r, s) /\ s \in SpoolType /\ at[r] = "own" /\ s.writer = "idle"
         /\ s.count = Known(s) /\ ~InDoubt(s) /\ (~s.off => Believes(s))
         /\ s.ops \in Seq(Jobs) /\ s.pending \in Seq(Chunks)
<1>1. Shape(r, spool[r]) /\ spool[r] \in SpoolType /\ at[r] = "own" /\ spool[r].writer = "idle"
  BY SpoolFacts DEF WriterIdle
<1>2. spool[r].reply.outcome = "none"
  BY <1>1 DEF Shape, Ordered
<1> QED BY <1>1, <1>2 DEF Known, InDoubt, Believes, SpoolType

\* A job that needs no call, and one that starts with a spool like the present one.
LEMMA JobDone ==
  ASSUME ReplayInv, NEW r \in Requests, NEW s, WriterIdle(r), Shape(r, s),
         s.writer = "idle", s.off \/ (s.count = Known(s) /\ ~InDoubt(s)), Follows(spool[r], s),
         UNCHANGED <<owner, meta, list, durable, again>>, faults' \in Nat, Set(r, AfterJob(s))
  PROVE  ReplayInv'
<1>1. Shape(r, AfterJob(s)) /\ Follows(s, AfterJob(s)) /\ AfterJob(s).writer \in {"clean", "idle"}
  BY AfterJobShape
<1>2. Follows(spool[r], AfterJob(s)) /\ HasRead(r, AfterJob(s))
  BY <1>1, ReadsNothing DEF Follows
<1>3. at[r] = "own"
  BY DEF WriterIdle
<1> HIDE DEF AfterJob
<1> QED BY <1>1, <1>2, <1>3, LocalStep

LEMMA JobTaken ==
  ASSUME ReplayInv, NEW r \in Requests, WriterIdle(r), NEW s,
         s = spool[r] \/ (spool[r].ops # <<>> /\ s = Taken(spool[r]))
  PROVE  /\ Shape(r, s) /\ s \in SpoolType /\ s.writer = "idle" /\ Follows(spool[r], s)
         /\ s.count = Known(s) /\ s.count = Known(spool[r]) /\ ~InDoubt(s)
         /\ (~s.off => Believes(s) /\ Believes(spool[r]))
         /\ s.off = spool[r].off /\ s.pending = spool[r].pending /\ s.tail = spool[r].tail
         /\ s.handler = spool[r].handler /\ WrittenTo(s) = WrittenTo(spool[r])
<1>1. LET u == spool[r] IN
      /\ Shape(r, u) /\ u \in SpoolType /\ u.writer = "idle" /\ u.count = Known(u)
      /\ ~InDoubt(u) /\ (~u.off => Believes(u))
  BY IdleFacts
<1>2. CASE s = spool[r]
  BY <1>1, <1>2 DEF Follows
<1>3. CASE spool[r].ops # <<>> /\ s = Taken(spool[r])
  <2>1. /\ Shape(r, s) /\ Follows(spool[r], s) /\ s.writer = "idle" /\ s.off = spool[r].off
        /\ s.reply = spool[r].reply /\ s.handler = spool[r].handler /\ s.tail = spool[r].tail
        /\ s.count = spool[r].count /\ s.pending = spool[r].pending /\ s.made = spool[r].made
    BY <1>1, <1>3, TakenShape
  <2>2. Known(s) = Known(spool[r]) /\ ~InDoubt(s) /\ (Believes(s) <=> Believes(spool[r]))
        /\ WrittenTo(s) = WrittenTo(spool[r])
    BY <1>1, <2>1 DEF Known, InDoubt, Believes, WrittenTo
  <2> QED BY <1>1, <2>1, <2>2 DEF Shape
<1> QED BY <1>2, <1>3

LEMMA BootstrapStep ==
  ASSUME ReplayInv, NEW r \in Requests, Bootstrap(r) PROVE ReplayInv'
<1> DEFINE s == Taken(spool[r])
<1>1. WriterIdle(r) /\ spool[r].ops # <<>>
  BY DEF Bootstrap, Next1
<1>2. /\ Shape(r, s) /\ s \in SpoolType /\ s.writer = "idle" /\ Follows(spool[r], s)
      /\ s.count = Known(s) /\ s.count = Known(spool[r]) /\ ~InDoubt(s)
      /\ (~s.off => Believes(s) /\ Believes(spool[r])) /\ WrittenTo(s) = WrittenTo(spool[r])
  BY <1>1, JobTaken
<1>3. at[r] = "own" /\ s.count \in Nat
  BY <1>1, <1>2 DEF WriterIdle, SpoolType
<1> HIDE DEF s
<1>4. CASE s.off \/ s.opened
  <2>1. Set(r, AfterJob(s)) /\ UNCHANGED storeVars
    BY <1>4 DEF Bootstrap, s
  <2>2. UNCHANGED <<owner, meta, list, durable, again>> /\ faults' \in Nat
    BY <2>1, Untouched
  <2> QED BY <1>1, <1>2, <2>1, <2>2, JobDone
<1>5. CASE ~(s.off \/ s.opened)
  <2>1. WriteBatch(r, s, <<>>, "wrote")
    BY <1>5 DEF Bootstrap, s
  <2>2. Run(<<>>, r, WrittenTo(spool[r]))
    BY EmptyRun
  <2>a. WrittenTo(s) \in Nat /\ WrittenTo(s) <= s.count
    BY <1>2, <1>5 DEF Shape, Accounted
  <2>3. ASSUME NEW y \in Answers(s.count + Len(<<>>))
        PROVE  LET t == Answered(s, "wrote", y) IN
               Shape(r, t) /\ (Believes(t) => WrittenTo(t) = WrittenTo(spool[r]) + Len(<<>>))
    <3> DEFINE t == Answered(s, "wrote", y)
    <3>1. /\ y \in ReplyType /\ y.outcome \in {"ok", "lost", "unavailable"}
          /\ (y.outcome = "ok" => y.count \in Nat /\ y.count >= s.count)
      BY <1>3 DEF Answers, ReplyType
    <3>2. /\ t \in SpoolType /\ t.writer = "wrote" /\ t.reply = y /\ t.off = s.off
          /\ t.handler = s.handler /\ t.tail = s.tail /\ t.count = s.count /\ t.ops = s.ops
          /\ t.cleanup = s.cleanup /\ t.payload = s.payload /\ t.made = s.made
          /\ t.pending = s.pending
      BY <1>2, <3>1 DEF Answered, SpoolType, Writers
    <3> HIDE DEF t
    <3>3. ~InDoubt(t) => Known(t) \in Nat /\ Known(t) >= s.count
      BY <3>1, <3>2 DEF Known, InDoubt
    <3>a. WrittenTo(t) = WrittenTo(s) /\ WrittenTo(spool[r]) + Len(<<>>) = WrittenTo(s)
      BY <1>2, <2>a, <3>2 DEF WrittenTo, Finals
    <3>b. s.writer \notin Finals /\ t.writer \notin Finals
      BY <1>2, <3>2 DEF Finals
    <3>4. Accounted(r, t)
      BY <1>2, <1>3, <1>5, <2>a, <3>2, <3>3, <3>a, <3>b DEF Shape, Accounted, Believes
    <3>5. Ordered(t)
      BY <1>2, <3>1, <3>2 DEF Shape, Ordered, Finals
    <3>6. ReadBack(t)
      BY <1>2, <3>2 DEF Shape, ReadBack
    <3> QED BY <3>2, <3>4, <3>5, <3>6, <3>a DEF Shape, t
  <2> QED BY <1>2, <1>3, <1>5, <2>1, <2>2, <2>3, BatchStep
<1> QED BY <1>4, <1>5

LEMMA MaybeFlushStep ==
  ASSUME ReplayInv, NEW r \in Requests, MaybeFlush(r) PROVE ReplayInv'
<1>1. WriterIdle(r)
  BY DEF MaybeFlush
<1>2. PICK s : /\ s = spool[r] \/ (spool[r].ops # <<>> /\ s = Taken(spool[r]))
               /\ IF s.pending = <<>> THEN Set(r, AfterJob(s)) /\ UNCHANGED storeVars
                  ELSE \/ WriteBatch(r, [s EXCEPT !.pending = <<>>], s.pending, "wrote")
                       \/ Set(r, AfterJob(Teardown(s, "delete"))) /\ UNCHANGED storeVars
  BY DEF MaybeFlush, Next1
<1>3. /\ Shape(r, s) /\ s \in SpoolType /\ s.writer = "idle" /\ Follows(spool[r], s)
      /\ s.count = Known(s) /\ s.count = Known(spool[r]) /\ ~InDoubt(s)
      /\ (~s.off => Believes(s) /\ Believes(spool[r])) /\ WrittenTo(s) = WrittenTo(spool[r])
  BY <1>1, <1>2, JobTaken
<1>4. at[r] = "own" /\ s.count \in Nat
  BY <1>1, <1>3 DEF WriterIdle, SpoolType
<1>5. CASE Set(r, AfterJob(s)) /\ UNCHANGED storeVars
  <2>1. UNCHANGED <<owner, meta, list, durable, again>> /\ faults' \in Nat
    BY <1>5, Untouched
  <2> QED BY <1>1, <1>3, <1>5, <2>1, JobDone
<1>6. CASE Set(r, AfterJob(Teardown(s, "delete"))) /\ UNCHANGED storeVars
  <2> DEFINE t == Teardown(s, "delete")
  <2>1. UNCHANGED <<owner, meta, list, durable, again>> /\ faults' \in Nat
    BY <1>6, Untouched
  <2>2. Shape(r, t) /\ t.off /\ t.writer = s.writer
    BY <1>3, TeardownShape DEF Finals
  <2>3. Follows(spool[r], t)
    BY <2>2 DEF Follows, Believes
  <2> HIDE DEF t
  <2> QED BY <1>1, <1>3, <1>6, <2>1, <2>2, <2>3, JobDone DEF t
<1>7. CASE s.pending # <<>> /\ WriteBatch(r, [s EXCEPT !.pending = <<>>], s.pending, "wrote")
  <2> DEFINE u == [s EXCEPT !.pending = <<>>]
             n == s.count + Len(s.pending)
  <2>1. ~s.off /\ s.handler = "stream"
    BY <1>3, <1>7 DEF Shape, Ordered
  <2>2. Believes(s) /\ Believes(spool[r])
    BY <1>3, <2>1
  <2>3. /\ s.tail = <<>> /\ Run(s.pending, r, WrittenTo(s)) /\ WrittenTo(s) \in Nat /\ WrittenTo(s) <= s.count
        /\ Len(s.pending) \in Nat
    BY <1>3, <2>1, <2>2 DEF Shape, Accounted, Run
  <2>a. s.made - 0 - 0 = WrittenTo(s) + Len(s.pending)
    <3>1. Len(s.tail) = 0 /\ s.writer \notin Finals /\ s.made \in Nat
      BY <1>3, <2>3 DEF Finals, SpoolType
    <3> QED BY <2>3, <3>1 DEF WrittenTo
  <2>4. u \in SpoolType
    <3>1. <<>> \in Seq(Chunks)
      OBVIOUS
    <3> QED BY <1>3, <3>1 DEF SpoolType
  <2>5. /\ u.writer = s.writer /\ u.off = s.off
        /\ u.handler = s.handler /\ u.tail = s.tail /\ u.count = s.count /\ u.ops = s.ops
        /\ u.cleanup = s.cleanup /\ u.payload = s.payload /\ u.made = s.made
        /\ u.pending = <<>>
    BY <1>3 DEF SpoolType
  <2> HIDE DEF u
  <2>6. ASSUME NEW y \in Answers(n)
        PROVE  LET t == Answered(u, "wrote", y) IN
               Shape(r, t) /\ (Believes(t) => WrittenTo(t) = WrittenTo(spool[r]) + Len(s.pending))
    <3> DEFINE t == Answered(u, "wrote", y)
    <3>1. /\ y \in ReplyType /\ y.outcome \in {"ok", "lost", "unavailable"}
          /\ (y.outcome = "ok" => y.count \in Nat /\ y.count >= n)
      BY <2>6 DEF Answers, ReplyType
    <3>2. /\ t \in SpoolType /\ t.writer = "wrote" /\ t.reply = y /\ t.off = s.off
          /\ t.handler = s.handler /\ t.tail = s.tail /\ t.count = s.count /\ t.ops = s.ops
          /\ t.cleanup = s.cleanup /\ t.payload = s.payload /\ t.made = s.made
          /\ t.pending = <<>>
      BY <2>4, <2>5, <3>1 DEF Answered, SpoolType, Writers
    <3> HIDE DEF t
    <3>3. ~InDoubt(t) => Known(t) \in Nat /\ Known(t) >= n
      BY <3>1, <3>2 DEF Known, InDoubt
    <3>a. WrittenTo(t) = WrittenTo(s) + Len(s.pending)
      <4>1. Len(t.tail) = 0 /\ Len(t.pending) = 0 /\ t.writer \notin Finals
        BY <2>3, <3>2 DEF Finals
      <4> QED BY <2>a, <3>2, <4>1 DEF WrittenTo
    <3>4. Accounted(r, t)
      <4>1. Run(<<>>, r, WrittenTo(t))
        BY EmptyRun
      <4>2. WrittenTo(t) \in Nat /\ WrittenTo(t) <= n
        BY <1>4, <2>3, <3>a
      <4>3. ~InDoubt(t) => WrittenTo(t) <= Known(t)
        BY <1>4, <2>3, <3>3, <4>2
      <4> QED BY <2>1, <2>3, <3>2, <4>1, <4>2, <4>3 DEF Accounted, Believes
    <3>5. Ordered(t)
      BY <1>3, <2>1, <3>1, <3>2 DEF Shape, Ordered, Finals
    <3>6. ReadBack(t)
      BY <1>3, <3>2 DEF Shape, ReadBack
    <3> QED BY <1>3, <3>2, <3>4, <3>5, <3>6, <3>a DEF Shape, t
  <2>7. WriteBatch(r, u, s.pending, "wrote")
    BY <1>7 DEF u
  <2> QED BY <1>3, <1>4, <2>2, <2>3, <2>4, <2>5, <2>6, <2>7, BatchStep
<1> QED BY <1>2, <1>5, <1>6, <1>7

LEMMA WroteStep == ASSUME ReplayInv, NEW r \in Requests, Wrote(r) PROVE ReplayInv'
<1> DEFINE s == spool[r]
           u == [s EXCEPT !.count = s.reply.count, !.opened = TRUE]
<1>1. Shape(r, s) /\ s \in SpoolType /\ at[r] = "own" /\ s.writer = "wrote" /\ UNCHANGED storeVars
  BY SpoolFacts DEF Wrote
<1>2. s.reply.outcome \in {"ok", "lost", "unavailable"} /\ s.reply.count \in Nat
  BY <1>1 DEF Shape, Ordered, SpoolType, ReplyType
<1>3. UNCHANGED <<owner, meta, list, durable, again>> /\ faults' \in Nat
  BY <1>1, Untouched
<1>4. PICK t : /\ Set(r, AfterJob(t))
               /\ \/ s.off /\ t = s
                  \/ ~s.off /\ s.reply.outcome = "ok" /\ t = u
                  \/ t \in {Teardown(s, "keep"), Teardown(s, "delete")}
  BY <1>2 DEF Wrote
<1>5. /\ Shape(r, t) /\ t.writer = "wrote" /\ Follows(s, t)
      /\ t.off \/ (t.count = Known(t) /\ ~InDoubt(t))
  <2>1. CASE s.off /\ t = s
    BY <1>1, <2>1 DEF Follows
  <2>2. CASE ~s.off /\ s.reply.outcome = "ok" /\ t = u
    <3>1. /\ u \in SpoolType /\ u.writer = s.writer /\ u.off = s.off /\ u.reply = s.reply
          /\ u.handler = s.handler /\ u.tail = s.tail /\ u.count = s.reply.count
          /\ u.ops = s.ops /\ u.cleanup = s.cleanup /\ u.payload = s.payload
          /\ u.made = s.made /\ u.pending = s.pending
      BY <1>1, <1>2 DEF SpoolType
    <3> HIDE DEF u
    <3>2. /\ Known(u) = Known(s) /\ Known(u) = u.count /\ ~InDoubt(u)
          /\ (Believes(u) <=> Believes(s)) /\ WrittenTo(u) = WrittenTo(s)
      BY <2>2, <3>1 DEF Known, InDoubt, Believes, WrittenTo
    <3>3. Accounted(r, u) /\ Ordered(u) /\ ReadBack(u)
      BY <1>1, <3>1, <3>2 DEF Shape, Accounted, Ordered, ReadBack
    <3> QED BY <1>1, <2>2, <3>1, <3>2, <3>3 DEF Shape, Follows
  <2>3. ASSUME NEW how \in {"keep", "delete"}, t = Teardown(s, how)
        PROVE  Shape(r, t) /\ t.writer = "wrote" /\ Follows(s, t) /\ t.off
    BY <1>1, <2>3, TeardownShape DEF Finals, Follows, Believes
  <2> QED BY <1>4, <2>1, <2>2, <2>3
<1>6. Shape(r, AfterJob(t)) /\ Follows(t, AfterJob(t)) /\ AfterJob(t).writer \in {"clean", "idle"}
  BY <1>5, AfterJobShape
<1>7. Follows(s, AfterJob(t)) /\ HasRead(r, AfterJob(t))
  BY <1>5, <1>6, ReadsNothing DEF Follows
<1> HIDE DEF AfterJob
<1> QED BY <1>1, <1>3, <1>4, <1>6, <1>7, LocalStep

LEMMA HeartbeatStep == ASSUME ReplayInv, NEW r \in Requests, Heartbeat(r) PROVE ReplayInv'
<1> DEFINE s == spool[r]
           t == Teardown(s, "keep")
<1>1. WriterIdle(r)
  BY DEF Heartbeat
<1>2. /\ Shape(r, s) /\ s \in SpoolType /\ at[r] = "own" /\ s.writer = "idle"
  BY <1>1, IdleFacts
<1>3. PICK c \in Calls : Look(c) /\ (Set(r, s) \/ Set(r, AfterJob(t)))
  BY DEF Heartbeat
<1>4. UNCHANGED <<owner, meta, list, durable, again>> /\ faults' \in Nat
  BY <1>3 DEF Look, Charge, ReplayInv, ReplayTypeOK, StoreTypes
<1>5. CASE Set(r, s)
  BY <1>2, <1>4, <1>5, ReadsNothing, LocalStep DEF Follows
<1>6. CASE Set(r, AfterJob(t))
  <2>1. Shape(r, t) /\ t.off /\ t.writer = "idle"
    BY <1>2, TeardownShape DEF Finals
  <2>2. Follows(s, t)
    BY <2>1 DEF Follows, Believes
  <2> HIDE DEF t
  <2> QED BY <1>1, <1>4, <1>6, <2>1, <2>2, JobDone
<1> QED BY <1>3, <1>5, <1>6

\* The spool is given up with what it holds.
LEMMA ReleaseStep ==
  ASSUME ReplayInv, NEW r \in Requests, NEW s, at[r] = "own", Shape(r, s), Set(r, Released(s)),
         UNCHANGED <<owner, meta, list, durable, again>>, faults' \in Nat
  PROVE  ReplayInv'
<1>1. Shape(r, Released(s)) /\ Released(s).off /\ Released(s).writer = "exited"
  BY ReleasedShape
<1>2. Follows(spool[r], Released(s)) /\ HasRead(r, Released(s))
  BY <1>1, ReadsNothing DEF Follows, Believes
<1> QED BY <1>1, <1>2, LocalStep

\* Before the first page: nothing is read back, and there is something to read.
LEMMA NothingRead ==
  ASSUME ReplayInv, NEW r \in Requests, NEW t, t.payload = <<>>, t.count \in Nat,
         t.count >= Length
  PROVE  HasRead(r, t)
<1>1. IsTale(<<>>, r) /\ Len(<<>>) = 0 /\ Len(<<>>) # t.count
  BY EmptyTale, ReplayAssumption
<1>2. SameStart(<<>>, list)
  BY DEF SameStart, ReplayInv, ReplayTypeOK, StoreTypes
<1> QED BY <1>1, <1>2 DEF HasRead

LEMMA FinalizeStep ==
  ASSUME ReplayInv, NEW r \in Requests, Finalize(r) PROVE ReplayInv'
<1> DEFINE s == Taken(spool[r])
           t == [s EXCEPT !.writer = "read"]
<1>1. WriterIdle(r) /\ spool[r].ops # <<>> /\ Head(spool[r].ops) = "final"
  BY DEF Finalize, Next1
<1>2. /\ Shape(r, s) /\ s \in SpoolType /\ s.writer = "idle" /\ Follows(spool[r], s)
      /\ s.count = Known(s) /\ s.count = Known(spool[r]) /\ ~InDoubt(s)
      /\ (~s.off => Believes(s) /\ Believes(spool[r])) /\ s.handler = spool[r].handler
      /\ WrittenTo(s) = WrittenTo(spool[r])
  BY <1>1, JobTaken
<1>3. at[r] = "own" /\ s.count \in Nat
  BY <1>1, <1>2 DEF WriterIdle, SpoolType
<1>4. s.handler \in {"await", "left"}
  <2>1. Shape(r, spool[r]) /\ spool[r].ops \in Seq(Jobs)
    BY SpoolFacts DEF SpoolType
  <2>2. HasFinal(spool[r].ops)
    BY <1>1, <2>1, HeadIsFinal
  <2> QED BY <1>2, <2>1, <2>2 DEF Shape, Ordered
<1>5. ~s.off => /\ Run(s.tail, r, WrittenTo(s)) /\ WrittenTo(s) \in Nat /\ WrittenTo(s) <= s.count
                /\ WrittenTo(s) + Len(s.tail) = Length /\ Len(s.tail) \in Nat
  <2>1. SUFFICES ASSUME ~s.off
                 PROVE  /\ Run(s.tail, r, WrittenTo(s)) /\ WrittenTo(s) \in Nat /\ WrittenTo(s) <= s.count
                        /\ WrittenTo(s) + Len(s.tail) = Length /\ Len(s.tail) \in Nat
    OBVIOUS
  <2>2. s.handler # "stream" /\ s.writer \notin Finals
    BY <1>2, <1>4 DEF Finals
  <2>3. /\ Run(s.tail, r, WrittenTo(s)) /\ s.made = Length /\ WrittenTo(s) \in Nat /\ WrittenTo(s) <= s.count
        /\ s.pending = <<>> /\ Len(s.tail) \in Nat
    BY <1>2, <2>1, <2>2 DEF Shape, Accounted, Ordered, Run
  <2>4. WrittenTo(s) = Length - 0 - Len(s.tail)
    <3>1. Len(s.pending) = 0
      BY <2>3
    <3> QED BY <2>2, <2>3, <3>1 DEF WrittenTo
  <2> QED BY <2>3, <2>4, ReplayAssumption
<1>6. \/ s.off /\ Set(r, Released(s)) /\ UNCHANGED storeVars
      \/ ~s.off /\ s.tail = <<>> /\ Set(r, t) /\ UNCHANGED storeVars
      \/ ~s.off /\ s.tail # <<>> /\ WriteBatch(r, s, s.tail, "tail")
  BY Zenon DEF Finalize
<1> HIDE DEF s
<1>7. CASE s.off /\ Set(r, Released(s)) /\ UNCHANGED storeVars
  <2>1. UNCHANGED <<owner, meta, list, durable, again>> /\ faults' \in Nat
    BY <1>7, Untouched
  <2> QED BY <1>2, <1>3, <1>7, <2>1, ReleaseStep
<1>8. CASE ~s.off /\ s.tail = <<>> /\ Set(r, t) /\ UNCHANGED storeVars
  <2>1. UNCHANGED <<owner, meta, list, durable, again>> /\ faults' \in Nat
    BY <1>8, Untouched
  <2>2. /\ t \in SpoolType /\ t.writer = "read" /\ t.reply = s.reply /\ t.off = s.off
        /\ t.handler = s.handler /\ t.tail = s.tail /\ t.count = s.count /\ t.ops = s.ops
        /\ t.cleanup = s.cleanup /\ t.payload = s.payload /\ t.made = s.made
        /\ t.pending = s.pending
    BY <1>2 DEF SpoolType, Writers, Finals
  <2> HIDE DEF t
  <2>3. /\ Known(t) = Known(s) /\ Known(t) = t.count /\ t.count \in Nat /\ t.count >= Length
        /\ WrittenTo(t) = Length /\ WrittenTo(t) = WrittenTo(s)
    <3>1. Len(s.tail) = 0 /\ Known(t) = Known(s) /\ WrittenTo(t) = Length
      BY <1>2, <1>8, <2>2 DEF Known, WrittenTo, Finals
    <3>2. WrittenTo(s) = Length /\ s.count >= Length
      BY <1>3, <1>5, <1>8, <3>1
    <3>3. Known(t) = t.count /\ t.count = s.count
      BY <1>2, <2>2, <3>1
    <3> QED BY <1>3, <3>1, <3>2, <3>3
  <2>4. Accounted(r, t)
    BY <1>4, <2>2, <2>3, ReplayAssumption DEF Accounted, Finals
  <2>5. Ordered(t)
    BY <1>2, <1>4, <1>8, <2>2 DEF Shape, Ordered, Finals
  <2>6. ReadBack(t) /\ t.payload = <<>>
    BY <1>2, <2>2 DEF Shape, ReadBack
  <2>7. Follows(spool[r], t) /\ HasRead(r, t)
    BY <1>2, <1>8, <2>3, <2>6, NothingRead DEF Follows
  <2> QED BY <1>3, <1>8, <2>1, <2>2, <2>4, <2>5, <2>6, <2>7, LocalStep DEF Shape
<1>9. CASE ~s.off /\ s.tail # <<>> /\ WriteBatch(r, s, s.tail, "tail")
  <2> DEFINE n == s.count + Len(s.tail)
  <2>1. ASSUME NEW y \in Answers(n)
        PROVE  LET v == Answered(s, "tail", y) IN
               Shape(r, v) /\ (Believes(v) => WrittenTo(v) = WrittenTo(spool[r]) + Len(s.tail))
    <3> DEFINE v == Answered(s, "tail", y)
    <3>1. /\ y \in ReplyType /\ y.outcome \in {"ok", "lost", "unavailable"}
          /\ (y.outcome = "ok" => y.count \in Nat /\ y.count >= Length)
      <4>1. /\ y \in ReplyType /\ y.outcome \in {"ok", "lost", "unavailable"}
            /\ (y.outcome = "ok" => y.count \in Nat /\ y.count >= n)
        BY <2>1 DEF Answers, ReplyType
      <4>2. n \in Nat /\ n >= Length
        BY <1>3, <1>5, <1>9
      <4> HIDE DEF n
      <4> QED BY <4>1, <4>2, ReplayAssumption
    <3>2. /\ v \in SpoolType /\ v.writer = "tail" /\ v.reply = y /\ v.off = s.off
          /\ v.handler = s.handler /\ v.tail = s.tail /\ v.count = s.count /\ v.ops = s.ops
          /\ v.cleanup = s.cleanup /\ v.payload = s.payload /\ v.made = s.made
          /\ v.pending = s.pending
      BY <1>2, <3>1 DEF Answered, SpoolType, Writers, Finals
    <3> HIDE DEF v
    <3>3. (~InDoubt(v) => Known(v) \in Nat /\ Known(v) >= Length) /\ WrittenTo(v) = Length
      BY <3>1, <3>2 DEF Known, InDoubt, WrittenTo, Finals
    <3>4. Accounted(r, v)
      BY <1>4, <3>2, <3>3, ReplayAssumption DEF Accounted, Believes, Finals
    <3>a. WrittenTo(v) = WrittenTo(spool[r]) + Len(s.tail)
      BY <1>2, <1>5, <1>9, <3>3
    <3>5. Ordered(v)
      BY <1>2, <1>4, <1>9, <3>1, <3>2 DEF Shape, Ordered, Finals
    <3>6. ReadBack(v)
      BY <1>2, <3>2 DEF Shape, ReadBack
    <3> QED BY <3>2, <3>4, <3>5, <3>6, <3>a DEF Shape, v
  <2>2. Believes(spool[r])
    BY <1>2, <1>9
  <2>3. Run(s.tail, r, WrittenTo(spool[r]))
    BY <1>2, <1>5, <1>9
  <2> QED BY <1>2, <1>3, <1>9, <2>1, <2>2, <2>3, BatchStep
<1> QED BY <1>6, <1>7, <1>8, <1>9

LEMMA TailWrittenStep == ASSUME ReplayInv, NEW r \in Requests, TailWritten(r) PROVE ReplayInv'
<1> DEFINE s == spool[r]
           t == [s EXCEPT !.count = s.reply.count, !.writer = "read", !.reply = NoReply]
<1>1. /\ Shape(r, s) /\ s \in SpoolType /\ at[r] = "own" /\ s.writer = "tail"
      /\ UNCHANGED storeVars
  BY SpoolFacts DEF TailWritten
<1>2. UNCHANGED <<owner, meta, list, durable, again>> /\ faults' \in Nat
  BY <1>1, Untouched
<1>3. Set(r, Released(s)) \/ (s.reply.outcome = "ok" /\ Set(r, t))
  BY Zenon DEF TailWritten
<1>4. CASE Set(r, Released(s))
  BY <1>1, <1>2, <1>4, ReleaseStep
<1>5. CASE s.reply.outcome = "ok" /\ Set(r, t)
  <2>1. s.reply.count \in Nat /\ NoReply \in ReplyType /\ NoReply.outcome = "none"
    BY <1>1 DEF SpoolType, ReplyType, NoReply
  <2>2. /\ t \in SpoolType /\ t.writer = "read" /\ t.reply = NoReply /\ t.off = s.off
        /\ t.handler = s.handler /\ t.tail = s.tail /\ t.count = s.reply.count
        /\ t.ops = s.ops /\ t.cleanup = s.cleanup /\ t.payload = s.payload
        /\ t.made = s.made /\ t.pending = s.pending
    BY <1>1, <2>1 DEF SpoolType, Writers, Finals
  <2> HIDE DEF t
  <2>3. ~s.off /\ s.handler \in {"await", "left"}
    BY <1>1 DEF Shape, Ordered, Finals
  <2>4. /\ Believes(s) /\ Known(s) = s.reply.count /\ WrittenTo(s) = Length
        /\ s.reply.count >= Length
    <3>1. Believes(s) /\ Known(s) = s.reply.count /\ WrittenTo(s) = Length
      BY <1>1, <1>5, <2>3 DEF Believes, InDoubt, Known, WrittenTo, Finals
    <3>2. WrittenTo(s) <= Known(s)
      BY <1>1, <3>1 DEF Shape, Accounted
    <3> QED BY <2>1, <3>1, <3>2, ReplayAssumption
  <2>5. Known(t) = s.reply.count /\ WrittenTo(t) = Length
    BY <2>1, <2>2, <2>4 DEF Known, WrittenTo, Finals
  <2>6. Accounted(r, t)
    BY <2>1, <2>2, <2>3, <2>4, <2>5, ReplayAssumption DEF Accounted, Finals
  <2>7. Ordered(t)
    BY <1>1, <2>1, <2>2, <2>3 DEF Shape, Ordered, Finals
  <2>8. ReadBack(t) /\ t.payload = <<>>
    BY <1>1, <2>2 DEF Shape, ReadBack
  <2>9. Follows(s, t) /\ HasRead(r, t)
    BY <2>1, <2>2, <2>4, <2>5, <2>8, NothingRead DEF Follows
  <2> QED BY <1>1, <1>2, <1>5, <2>2, <2>6, <2>7, <2>8, <2>9, LocalStep DEF Shape
<1> QED BY <1>3, <1>4, <1>5

\* The stages behind the last write: what is read back is what was told.
LEMMA FinalFacts ==
  ASSUME ReplayInv, NEW r \in Requests, spool[r].writer \in {"read", "complete"}
  PROVE  LET s == spool[r] IN
         /\ Shape(r, s) /\ s \in SpoolType /\ at[r] = "own" /\ ~s.off
         /\ s.handler \in {"await", "left"} /\ Believes(s) /\ s.reply.outcome = "none"
         /\ Known(s) = s.count /\ WrittenTo(s) = Length /\ s.count \in Nat /\ s.count >= Length
         /\ IsTale(s.payload, r) /\ (Len(s.payload) = s.count => Upto(s.payload) = Length)
         /\ owner = r => SameStart(s.payload, list) /\ IsTale(list, r) /\ Len(list) = s.count
                         /\ Upto(list) = Length
<1> DEFINE s == spool[r]
<1>1. Shape(r, s) /\ s \in SpoolType /\ at[r] = "own"
  BY SpoolFacts
<1>2. ~s.off /\ s.handler \in {"await", "left"} /\ s.reply.outcome = "none"
  BY <1>1 DEF Shape, Ordered, Finals
<1>3. Believes(s) /\ Known(s) = s.count /\ WrittenTo(s) = Length
  BY <1>2 DEF Believes, InDoubt, Known, WrittenTo, Finals
<1>4. s.count \in Nat /\ s.count >= Length
  BY <1>1, <1>3, ReplayAssumption DEF Shape, Accounted, SpoolType
<1>5. HasRead(r, s) /\ Agrees(r)
  BY DEF ReplayInv, RequestOK
<1> QED BY <1>1, <1>2, <1>3, <1>4, <1>5 DEF HasRead, Agrees

\* A stage in which nothing is promised any more.
LEMMA GivenUpShape ==
  ASSUME NEW r \in Requests, NEW s, Shape(r, s), s.writer \in {"read", "complete"},
         NEW w \in {"abort", "discard"}
  PROVE  LET t == [s EXCEPT !.writer = w] IN Shape(r, t) /\ ~Believes(t) /\ t.writer = w
<1> DEFINE t == [s EXCEPT !.writer = w]
<1>1. s \in SpoolType
  BY DEF Shape
<1>2. /\ t \in SpoolType /\ t.writer = w /\ t.reply = s.reply /\ t.off = s.off
      /\ t.handler = s.handler /\ t.ops = s.ops /\ t.cleanup = s.cleanup
      /\ t.pending = s.pending
  BY <1>1 DEF SpoolType, Writers, Finals
<1> HIDE DEF t
<1>3. ~Believes(t) /\ Accounted(r, t)
  BY <1>2 DEF Believes, Accounted
<1>4. Ordered(t)
  BY <1>2 DEF Shape, Ordered, Finals
<1>5. ReadBack(t)
  BY <1>2 DEF ReadBack
<1> QED BY <1>2, <1>3, <1>4, <1>5 DEF Shape, t

LEMMA ReadPageStep == ASSUME ReplayInv, NEW r \in Requests, ReadPage(r) PROVE ReplayInv'
<1> DEFINE s == spool[r]
           k == Len(s.payload)
           q == Append(s.payload, list[k + 1])
           t == [s EXCEPT !.payload = q]
           v == [s EXCEPT !.writer = "abort"]
<1>1. s.writer = "read" /\ k < s.count
  BY DEF ReadPage
<1>2. /\ Shape(r, s) /\ s \in SpoolType /\ at[r] = "own" /\ ~s.off
      /\ s.handler \in {"await", "left"} /\ Believes(s) /\ s.reply.outcome = "none"
      /\ Known(s) = s.count /\ WrittenTo(s) = Length /\ s.count \in Nat /\ s.count >= Length
      /\ IsTale(s.payload, r)
      /\ owner = r => SameStart(s.payload, list) /\ IsTale(list, r) /\ Len(list) = s.count
                      /\ Upto(list) = Length
  BY <1>1, FinalFacts
<1>3. PICK c : Look(c) /\ (Set(r, v) \/ (owner = r /\ k < Len(list) /\ Set(r, t)))
  BY DEF ReadPage, Held
<1>4. UNCHANGED <<owner, meta, list, durable, again>> /\ faults' \in Nat
  BY <1>3 DEF Look, Charge, ReplayInv, ReplayTypeOK, StoreTypes
<1>5. CASE Set(r, v)
  <2>1. Shape(r, v) /\ ~Believes(v) /\ v.writer = "abort"
    BY <1>1, <1>2, GivenUpShape
  <2>2. Follows(s, v) /\ HasRead(r, v)
    BY <2>1, ReadsNothing DEF Follows
  <2> HIDE DEF v
  <2> QED BY <1>2, <1>4, <1>5, <2>1, <2>2, LocalStep
<1>6. CASE owner = r /\ k < Len(list) /\ Set(r, t)
  <2>1. IsTale(list, r) /\ Len(list) = s.count /\ Upto(list) = Length /\ SameStart(s.payload, list)
    BY <1>2, <1>6
  <2>2. s.payload \in Seq(Chunks) /\ list \in Seq(Chunks) /\ k \in Nat
    BY <1>2, <2>1 DEF IsTale
  <2>3. q \in Seq(Chunks) /\ SameStart(q, list)
    BY <1>6, <2>1, <2>2, ReadOn
  <2> HIDE DEF q
  <2>4. IsTale(q, r) /\ (Len(q) = s.count => Upto(q) = Length)
    BY <2>1, <2>3, PrefixTold
  <2>5. /\ t \in SpoolType /\ t.writer = "read" /\ t.reply = s.reply /\ t.off = s.off
        /\ t.handler = s.handler /\ t.tail = s.tail /\ t.count = s.count /\ t.ops = s.ops
        /\ t.cleanup = s.cleanup /\ t.payload = q /\ t.made = s.made
        /\ t.pending = s.pending
    BY <1>1, <1>2, <2>3 DEF SpoolType
  <2> HIDE DEF t
  <2>6. Known(t) = s.count /\ WrittenTo(t) = Length /\ ~InDoubt(t)
    BY <1>2, <2>5 DEF Known, InDoubt, WrittenTo, Finals
  <2>7. Shape(r, t)
    <3>1. Accounted(r, t)
      BY <1>2, <2>5, <2>6, ReplayAssumption DEF Accounted, Finals
    <3>2. Ordered(t) /\ ReadBack(t)
      BY <1>1, <1>2, <2>5 DEF Shape, Ordered, ReadBack
    <3> QED BY <2>5, <3>1, <3>2 DEF Shape
  <2>8. Follows(s, t) /\ HasRead(r, t)
    BY <1>2, <2>3, <2>4, <2>5, <2>6 DEF Follows, HasRead
  <2> QED BY <1>2, <1>4, <1>6, <2>5, <2>7, <2>8, LocalStep
<1> QED BY <1>3, <1>5, <1>6

LEMMA PersistStep == ASSUME ReplayInv, NEW r \in Requests, Persist(r) PROVE ReplayInv'
<1> DEFINE s == spool[r]
           t(w) == [s EXCEPT !.writer = w]
<1>1. /\ s.writer = "read" /\ Len(s.payload) = s.count
      /\ UNCHANGED <<owner, meta, list, again, faults>>
  BY DEF Persist
<1>2. /\ Shape(r, s) /\ s \in SpoolType /\ at[r] = "own" /\ ~s.off
      /\ s.handler \in {"await", "left"} /\ Believes(s) /\ s.reply.outcome = "none"
      /\ Known(s) = s.count /\ WrittenTo(s) = Length /\ s.count \in Nat /\ s.count >= Length
      /\ IsTale(s.payload, r) /\ Upto(s.payload) = Length
      /\ owner = r => SameStart(s.payload, list)
  BY <1>1, FinalFacts
<1>3. Tells(s.payload, r) /\ s.payload \in Seq(Chunks)
  BY <1>2, ToldWhole DEF IsTale
<1>a. Mine(r) /\ OwnStays
  <2>1. UNCHANGED at
    BY DEF Persist, Set, attachVars
  <2> QED BY <1>1, <2>1 DEF Mine, OwnStays
<1>4. PICK w \in {"abort", "discard", "complete"} :
        /\ Set(r, t(w))
        /\ \/ w = "abort" /\ UNCHANGED durable
           \/ PersistCompleted(s.payload) /\ (w = "complete" => ~Conflicts(s.payload))
  BY DEF Persist
<1>5. durable.state \in {"none", "live", "expired"} /\ durable.payload \in Seq(Chunks)
      /\ durable \in [state : {"none", "live", "expired"}, payload : Seq(Chunks)]
  BY DEF ReplayInv, ReplayTypeOK, StoreTypes
<1>6. /\ durable' \in [state : {"none", "live", "expired"}, payload : Seq(Chunks)]
      /\ RowStep /\ DurableOK'
      /\ (w = "complete" => durable'.state # "none"
                            /\ (durable'.state = "live" => durable'.payload = s.payload))
  <2>a. ASSUME durable'.payload = s.payload PROVE DurableOK'
    BY <1>1, <1>3, <2>a DEF DurableOK, Whole, Tells
  <2>1. CASE w = "abort" /\ UNCHANGED durable
    BY <2>1, <1>5, <1>a, DurableStays DEF RowStep, ReplayInv
  <2>2. CASE /\ PersistCompleted(s.payload) /\ (w = "complete" => ~Conflicts(s.payload))
             /\ durable.state = "none"
    <3>1. durable' = [state |-> "live", payload |-> s.payload]
      BY <2>2 DEF PersistCompleted
    <3> QED BY <3>1, <2>2, <2>a, <1>3 DEF RowStep
  <2>3. CASE /\ PersistCompleted(s.payload) /\ (w = "complete" => ~Conflicts(s.payload))
             /\ durable.state = "expired"
    <3>1. durable' = [durable EXCEPT !.payload = s.payload]
      BY <2>3 DEF PersistCompleted
    <3>2. durable'.state = "expired" /\ durable'.payload = s.payload
      BY <3>1, <1>5, <2>3
    <3>3. durable' \in [state : {"none", "live", "expired"}, payload : Seq(Chunks)]
      BY <3>1, <1>3, <1>5
    <3> QED BY <3>2, <3>3, <2>3, <2>a DEF RowStep
  <2>4. CASE /\ PersistCompleted(s.payload) /\ (w = "complete" => ~Conflicts(s.payload))
             /\ durable.state = "live"
    <3>1. durable' = durable
      BY <2>4 DEF PersistCompleted
    <3> QED BY <3>1, <2>4, <1>5, <1>a, DurableStays DEF RowStep, ReplayInv, Conflicts
  <2> QED BY <1>4, <1>5, <2>1, <2>2, <2>3, <2>4
<1>7. Shape(r, t(w)) /\ t(w).writer = w /\ Follows(s, t(w)) /\ t(w).payload = s.payload
      /\ t(w).count = s.count
  <2>1. CASE w \in {"abort", "discard"}
    <3>1. Shape(r, t(w)) /\ ~Believes(t(w)) /\ t(w).writer = w
      BY <1>1, <1>2, <2>1, GivenUpShape
    <3>2. t(w).payload = s.payload /\ t(w).count = s.count
      BY <1>2 DEF SpoolType
    <3> QED BY <3>1, <3>2 DEF Follows
  <2>2. CASE w = "complete"
    <3> DEFINE u == t("complete")
    <3>1. /\ u \in SpoolType /\ u.writer = "complete" /\ u.reply = s.reply /\ u.off = s.off
          /\ u.handler = s.handler /\ u.tail = s.tail /\ u.count = s.count /\ u.ops = s.ops
          /\ u.cleanup = s.cleanup /\ u.payload = s.payload /\ u.made = s.made
          /\ u.pending = s.pending
      BY <1>2 DEF SpoolType, Writers, Finals
    <3> HIDE DEF u
    <3>2. Known(u) = Known(s) /\ WrittenTo(u) = Length
      BY <1>2, <3>1 DEF Known, WrittenTo, Finals
    <3>3. Accounted(r, u)
      BY <1>2, <3>1, <3>2, ReplayAssumption DEF Accounted, Finals
    <3>4. Ordered(u)
      BY <1>1, <1>2, <3>1 DEF Shape, Ordered, Finals
    <3>5. ReadBack(u)
      BY <1>1, <3>1 DEF ReadBack
    <3>6. Shape(r, u) /\ Follows(s, u)
      BY <1>2, <3>1, <3>2, <3>3, <3>4, <3>5 DEF Shape, Follows
    <3> QED BY <2>2, <3>1, <3>6 DEF u
  <2> QED BY <2>1, <2>2
<1> DEFINE u == t(w)
<1>8. /\ Set(r, u) /\ Shape(r, u) /\ u.writer = w /\ Follows(s, u) /\ u.payload = s.payload
      /\ u.count = s.count
  BY <1>4, <1>7
<1> HIDE DEF u, t
<1>9. UNCHANGED <<at, seen, parts, claimed>> /\ spool' = [spool EXCEPT ![r] = u]
      /\ u \in SpoolType /\ spool \in [Requests -> SpoolType]
  BY <1>8 DEF Set, attachVars, Shape, ReplayInv, ReplayTypeOK
<1>10. spool'[r] = u /\ \A o \in Requests \ {r} : spool'[o] = spool[o]
  BY <1>9
<1>11. ReplayTypeOK' /\ MetaOK'
  <2>1. ReplayTypeOK'
    BY <1>1, <1>6, <1>9 DEF ReplayInv, ReplayTypeOK, StoreTypes, AttachTypes
  <2> QED BY <1>1, <1>a, <2>1, MetaStays DEF ReplayInv
<1>12. ASSUME NEW o \in Requests PROVE RequestOK(o)'
  <2>1. CASE o = r
    <3>1. RequestOK(r)
      BY DEF ReplayInv
    <3>2. AttachOK(r)'
      BY <1>2, <1>9 DEF AttachOK
    <3>3. Shape(r, spool[r])'
      BY <1>8, <1>10
    <3>4. Agrees(r)'
      BY <1>1, <1>8, <1>9, <1>10, <3>1 DEF RequestOK, Agrees, Follows, IsTale
    <3>5. Durable(r)' /\ HasRead(r, spool[r])'
      BY <1>1, <1>2, <1>6, <1>8, <1>10 DEF Durable, HasRead, IsTale
    <3> QED BY <2>1, <3>2, <3>3, <3>4, <3>5 DEF RequestOK
  <2>2. CASE o # r
    BY <2>2, <1>a, <1>6, <1>9, <1>10, OthersStay
  <2> QED BY <2>1, <2>2
<1> QED BY <1>6, <1>11, <1>12 DEF ReplayInv

\* While the key is its own, the list is what the owner has read back.
LEMMA ReadTheList ==
  ASSUME ReplayInv, NEW r \in Requests, spool[r].writer = "complete", owner = r
  PROVE  list = spool[r].payload /\ Tells(list, r) /\ Len(list) = spool[r].count
<1> DEFINE s == spool[r]
<1>1. /\ s \in SpoolType /\ IsTale(list, r) /\ Len(list) = s.count /\ Upto(list) = Length
      /\ SameStart(s.payload, list)
  BY FinalFacts
<1>2. Len(s.payload) = s.count /\ s.payload \in Seq(Chunks)
  BY <1>1 DEF ReplayInv, RequestOK, Shape, ReadBack, SpoolType
<1> HIDE DEF s
<1>3. list = s.payload
  BY <1>1, <1>2, PrefixTold
<1> QED BY <1>1, <1>3, ToldWhole DEF s

LEMMA CompleteStep == ASSUME ReplayInv, NEW r \in Requests, Complete(r) PROVE ReplayInv'
<1> DEFINE s == spool[r]
           m == Meta("completed", r, s.count)
           v == [s EXCEPT !.writer = "abort"]
<1>1. s.writer = "complete"
  BY DEF Complete
<1>2. /\ Shape(r, s) /\ s \in SpoolType /\ at[r] = "own" /\ s.count \in Nat
  BY <1>1, FinalFacts
<1>3. PICK c, t : /\ Fenced(r, c, NoOne, m, list) /\ Set(r, t) /\ t \in {Released(s), v}
  BY DEF Complete, CompleteOwned
<1>4. m \in MetaType /\ m.gen = r /\ m.count = s.count /\ list \in Seq(Chunks)
  BY <1>2 DEF Meta, MetaType, ReplayInv, ReplayTypeOK, StoreTypes
<1>5. Shape(r, t) /\ ~Believes(t) /\ t.writer \notin {"read", "complete"}
  <2>1. CASE t = Released(s)
    BY <1>2, <2>1, ReleasedShape DEF Believes
  <2>2. CASE t = v
    BY <1>1, <1>2, <2>2, GivenUpShape
  <2> QED BY <1>3, <2>1, <2>2
<1>6. owner = r => Tells(list, r) /\ Len(list) = m.count
  BY <1>1, <1>4, ReadTheList
<1> HIDE DEF m
<1> QED BY <1>2, <1>3, <1>4, <1>5, <1>6, GiveUpStep

LEMMA GivenUpDocs ==
  ASSUME NEW r \in Requests
  PROVE  /\ Meta("aborted", r, 0) \in MetaType /\ Meta("aborted", r, 0).status = "aborted"
         /\ Meta("aborted", r, 0).gen = r /\ NoMeta.gen = NoOne
         /\ NoMeta \in MetaType /\ NoMeta.status = "none" /\ <<>> \in Seq(Chunks)
BY DEF Meta, NoMeta, MetaType

LEMMA AbandonStep == ASSUME ReplayInv, NEW r \in Requests, Abandon(r) PROVE ReplayInv'
<1> DEFINE s == spool[r]
<1>1. Shape(r, s) /\ at[r] = "own" /\ Set(r, Released(s))
  BY SpoolFacts DEF Abandon
<1>2. PICK c : \/ Fenced(r, c, NoOne, Meta("aborted", r, 0), <<>>)
               \/ Fenced(r, c, NoOne, NoMeta, <<>>)
  BY DEF Abandon, AbortOwned, DiscardOwned
<1>3. Shape(r, Released(s)) /\ ~Believes(Released(s)) /\ Released(s).writer = "exited"
  BY <1>1, ReleasedShape DEF Believes
<1> QED BY <1>1, <1>2, <1>3, GivenUpDocs, GiveUpStep

LEMMA MaybeCleanupStep == ASSUME ReplayInv, NEW r \in Requests, MaybeCleanup(r) PROVE ReplayInv'
<1> DEFINE s == spool[r]
           v == [s EXCEPT !.cleanup = "keep"]
<1>1. Shape(r, s) /\ s \in SpoolType /\ at[r] = "own" /\ s.writer = "clean"
  BY SpoolFacts DEF MaybeCleanup
<1>2. PICK c, t : /\ Set(r, t) /\ t \in {Released(s), v}
                  /\ \/ Fenced(r, c, NoOne, Meta("aborted", r, 0), <<>>)
                     \/ Fenced(r, c, NoOne, meta, list)
  BY DEF MaybeCleanup, AbortOwned, ReleaseOwner
<1>3. Shape(r, t) /\ ~Believes(t) /\ t.writer \notin {"read", "complete"}
  <2>1. CASE t = Released(s)
    BY <1>1, <2>1, ReleasedShape DEF Believes
  <2>2. CASE t = v
    <3>1. /\ v \in SpoolType /\ v.writer = s.writer /\ v.reply = s.reply /\ v.off = s.off
          /\ v.handler = s.handler /\ v.ops = s.ops /\ v.payload = s.payload
          /\ v.pending = s.pending
      BY <1>1 DEF SpoolType
    <3>2. s.off
      BY <1>1 DEF Shape, Ordered
    <3> HIDE DEF v
    <3>3. ~Believes(v) /\ Accounted(r, v)
      BY <3>1, <3>2 DEF Believes, Accounted
    <3>4. Ordered(v) /\ ReadBack(v)
      BY <1>1, <3>1, <3>2 DEF Shape, Ordered, ReadBack
    <3> QED BY <1>1, <2>2, <3>1, <3>3, <3>4 DEF Shape
  <2> QED BY <1>2, <2>1, <2>2
<1>4. meta \in MetaType /\ list \in Seq(Chunks)
  BY DEF ReplayInv, ReplayTypeOK, StoreTypes
<1> QED BY <1>1, <1>2, <1>3, <1>4, GivenUpDocs, GiveUpStep

-----------------------------------------------------------------------------
(* Attaching *)

LEMMA NotOwning ==
  ASSUME ReplayInv, NEW r \in Requests, at'[r] # "own", AttachOK(r)', spool' = spool
  PROVE  RequestOK(r)'
<1>1. spool'[r] = NoSpool /\ Shape(r, spool'[r])
  BY NoSpoolShape DEF AttachOK
<1>2. Shape(r, spool[r])'
  BY <1>1
<1>3. Durable(r)' /\ HasRead(r, spool[r])'
  BY <1>1 DEF Durable, HasRead, NoSpool, NewSpool
<1>4. Agrees(r)'
  BY DEF Agrees
<1> QED BY <1>2, <1>3, <1>4 DEF RequestOK

LEMMA AttachingStep ==
  ASSUME ReplayInv, NEW r \in Requests, NEW place \in AttachPlaces \ {"own"},
         at[r] # "own", at' = [at EXCEPT ![r] = place],
         \A o \in Requests \ {r} : seen'[o] = seen[o] /\ parts'[o] = parts[o],
         spool' = spool, AttachTypes', StoreTypes', Mine(r), UNCHANGED <<durable, again>>,
         UNCHANGED <<meta, list>> \/ meta' = NoMeta, AttachOK(r)'
  PROVE  ReplayInv'
<1>1. at \in [Requests -> AttachPlaces] /\ spool \in [Requests -> SpoolType]
  BY DEF ReplayInv, ReplayTypeOK, AttachTypes
<1>2. at'[r] = place /\ \A o \in Requests \ {r} : at'[o] = at[o]
  BY <1>1
<1>3. ReplayTypeOK' /\ OwnStays
  BY <1>1, <1>2 DEF ReplayTypeOK, OwnStays
<1>4. MetaOK' /\ DurableOK'
  <2>1. NoMeta.status = "none"
    BY DEF NoMeta, Meta
  <2>2. meta' = NoMeta => MetaOK'
    BY <2>1 DEF MetaOK
  <2> QED BY <1>3, <2>2, MetaStays, DurableStays DEF ReplayInv
<1>5. ASSUME NEW o \in Requests PROVE RequestOK(o)'
  <2>1. CASE o = r
    BY <1>2, <2>1, NotOwning
  <2>2. CASE o # r
    BY <1>2, <1>3, <2>2, OthersStay DEF RowStep
  <2> QED BY <2>1, <2>2
<1> QED BY <1>3, <1>4, <1>5 DEF ReplayInv

LEMMA AttachFacts ==
  ASSUME ReplayInv, NEW r \in Requests
  PROVE  /\ AttachOK(r) /\ AttachTypes /\ StoreTypes /\ MetaOK /\ DurableOK
         /\ at \in [Requests -> AttachPlaces] /\ seen \in [Requests -> MetaType]
         /\ parts \in [Requests -> Seq(Chunks)] /\ claimed \in [Requests -> BOOLEAN]
         /\ parts[r] \in Seq(Chunks)
BY DEF ReplayInv, ReplayTypeOK, AttachTypes, RequestOK

LEMMA LookFacts ==
  ASSUME ReplayInv, NEW r \in Requests, NEW c, Look(c)
  PROVE  /\ UNCHANGED <<owner, meta, list, durable, again>> /\ StoreTypes' /\ Mine(r)
BY DEF Look, Charge, ReplayInv, ReplayTypeOK, StoreTypes, Mine

LEMMA GetMetaStep == ASSUME ReplayInv, NEW r \in Requests, GetMeta(r) PROVE ReplayInv'
<1>1. at[r] = "new" /\ UNCHANGED <<parts, claimed, spool>>
  BY DEF GetMeta
<1>2. PICK c : /\ Look(c)
               /\ \/ MoveTo(r, "plain") /\ UNCHANGED seen
                  \/ /\ seen' = [seen EXCEPT ![r] = meta]
                     /\ \/ MoveTo(r, "claim")
                        \/ meta.status = "completed" /\ MoveTo(r, "serving")
                        \/ MoveTo(r, "plain")
  BY DEF GetMeta
<1>3. UNCHANGED <<owner, meta, list, durable, again>> /\ StoreTypes' /\ Mine(r)
  BY <1>2, LookFacts
<1>4. PICK place : /\ place \in {"plain", "claim", "serving"} /\ at' = [at EXCEPT ![r] = place]
                   /\ place = "serving" => meta.status = "completed" /\ seen' = [seen EXCEPT ![r] = meta]
  BY <1>2 DEF MoveTo
<1>5. /\ AttachOK(r) /\ AttachTypes /\ StoreTypes /\ MetaOK
      /\ at \in [Requests -> AttachPlaces] /\ seen \in [Requests -> MetaType]
  BY AttachFacts
<1>6. AttachTypes' /\ at'[r] = place
  BY <1>1, <1>2, <1>4, <1>5 DEF AttachTypes, StoreTypes, AttachPlaces
<1>7. parts'[r] = <<>> /\ owner' # r /\ spool'[r] = NoSpool
  BY <1>1, <1>3, <1>5 DEF AttachOK
<1>8. AttachOK(r)'
  <2>1. place = "serving" => /\ seen'[r].gen \in Requests /\ at'[seen'[r].gen] = "own"
                             /\ owner' # seen'[r].gen /\ meta' = seen'[r]
                             /\ meta'.status = "completed" /\ SameStart(parts'[r], list')
    <3>1. SameStart(<<>>, list)
      BY <1>5 DEF SameStart, StoreTypes
    <3>2. seen' = [seen EXCEPT ![r] = meta] => seen'[r] = meta
      BY <1>5
    <3>3. meta.status = "completed" => meta.gen \in Requests /\ at[meta.gen] = "own" /\ owner # meta.gen
      BY <1>5 DEF MetaOK
    <3>4. meta.status = "completed" => at'[meta.gen] = "own"
      BY <1>1, <1>4, <1>5, <3>3
    <3> QED BY <1>3, <1>4, <1>7, <3>1, <3>2, <3>3, <3>4
  <2> QED BY <1>4, <1>6, <1>7, <2>1 DEF AttachOK
<1>9. \A o \in Requests \ {r} : seen'[o] = seen[o] /\ parts'[o] = parts[o]
  BY <1>1, <1>2, <1>5
<1>10. place \in AttachPlaces \ {"own"}
  BY <1>4 DEF AttachPlaces
<1> QED BY <1>1, <1>3, <1>4, <1>6, <1>8, <1>9, <1>10, AttachingStep

LEMMA ServePageStep == ASSUME ReplayInv, NEW r \in Requests, ServePage(r) PROVE ReplayInv'
<1> DEFINE k == Len(parts[r])
           q == Append(parts[r], list[k + 1])
<1>1. at[r] = "serving" /\ UNCHANGED <<seen, claimed, spool>>
  BY DEF ServePage
<1>2. PICK c : /\ Look(c)
               /\ \/ /\ meta.gen = seen[r].gen /\ k < Len(list)
                     /\ parts' = [parts EXCEPT ![r] = q]
                     /\ IF Len(parts'[r]) = seen[r].count THEN MoveTo(r, "served") ELSE UNCHANGED at
                  \/ parts' = [parts EXCEPT ![r] = <<>>] /\ MoveTo(r, "claim")
  BY DEF ServePage
<1>3. UNCHANGED <<owner, meta, list, durable, again>> /\ StoreTypes' /\ Mine(r)
  BY <1>2, LookFacts
<1>4. /\ AttachOK(r) /\ AttachTypes /\ StoreTypes /\ MetaOK
      /\ at \in [Requests -> AttachPlaces] /\ seen \in [Requests -> MetaType]
      /\ parts \in [Requests -> Seq(Chunks)]
  BY AttachFacts
<1> DEFINE g == seen[r].gen
<1>5. /\ g \in Requests /\ at[g] = "own" /\ owner # g /\ owner # r /\ spool[r] = NoSpool
      /\ g # r
      /\ meta.gen = g => meta = seen[r] /\ meta.status = "completed"
                          /\ (list = <<>> \/ SameStart(parts[r], list))
  BY <1>1, <1>4 DEF AttachOK
<1>6. CASE parts' = [parts EXCEPT ![r] = <<>>] /\ MoveTo(r, "claim")
  <2>1. parts'[r] = <<>> /\ at' = [at EXCEPT ![r] = "claim"] /\ at'[r] = "claim"
    BY <1>4, <1>6 DEF MoveTo
  <2>2. AttachTypes'
    BY <1>1, <1>4, <1>6, <2>1 DEF AttachTypes, AttachPlaces
  <2>3. AttachOK(r)'
    BY <1>1, <1>3, <1>5, <2>1 DEF AttachOK
  <2>4. \A o \in Requests \ {r} : seen'[o] = seen[o] /\ parts'[o] = parts[o]
    BY <1>1, <1>4, <1>6
  <2>5. "claim" \in AttachPlaces \ {"own"}
    BY DEF AttachPlaces
  <2> QED BY <1>1, <1>3, <2>1, <2>2, <2>3, <2>4, <2>5, AttachingStep
<1>7. CASE /\ meta.gen = g /\ k < Len(list) /\ parts' = [parts EXCEPT ![r] = q]
           /\ IF Len(parts'[r]) = seen[r].count THEN MoveTo(r, "served") ELSE UNCHANGED at
  <2>1. /\ list \in Seq(Chunks) /\ parts[r] \in Seq(Chunks) /\ k \in Nat
        /\ SameStart(parts[r], list)
    <3>1. list \in Seq(Chunks) /\ parts[r] \in Seq(Chunks)
      BY <1>4 DEF StoreTypes
    <3>2. list # <<>>
      BY <1>7, <3>1
    <3> QED BY <1>5, <1>7, <3>1, <3>2
  <2>2. q \in Seq(Chunks) /\ SameStart(q, list) /\ Len(q) \in Nat
    BY <1>7, <2>1, ReadOn
  <2>3. Tells(list, g) /\ Len(list) = seen[r].count
    <3>1. list # <<>>
      BY <1>7, <2>1
    <3> QED BY <1>4, <1>5, <1>7, <3>1 DEF MetaOK
  <2>4. Len(q) = seen[r].count => Tells(q, g)
    <3>1. SUFFICES ASSUME Len(q) = seen[r].count PROVE Tells(q, g)
      OBVIOUS
    <3>2. Len(q) = Len(list) /\ \A i \in 1..Len(q) : q[i] = list[i]
      BY <2>3, <3>1, <2>2 DEF SameStart
    <3> HIDE DEF q
    <3>3. q = list
      BY <2>1, <2>2, <3>2
    <3> QED BY <2>3, <3>3
  <2>5. parts'[r] = q /\ \A o \in Requests \ {r} : parts'[o] = parts[o]
    BY <1>4, <1>7, <2>2
  <2> HIDE DEF q
  <2>6. PICK place : /\ place \in {"served", "serving"} /\ at' = [at EXCEPT ![r] = place]
                     /\ (place = "served" => Len(q) = seen[r].count)
    <3>1. CASE Len(q) = seen[r].count
      BY <1>7, <2>5, <3>1 DEF MoveTo
    <3>2. CASE Len(q) # seen[r].count
      <4>1. UNCHANGED at
        BY <1>7, <2>5, <3>2
      <4>2. at = [at EXCEPT ![r] = "serving"]
        BY <1>1, <1>4
      <4> QED BY <4>1, <4>2
    <3> QED BY <3>1, <3>2
  <2>7. at'[r] = place /\ place \in AttachPlaces \ {"own"} /\ at'[g] = "own"
    BY <1>4, <1>5, <2>6 DEF AttachPlaces
  <2>8. AttachTypes'
    BY <1>1, <1>4, <1>7, <2>2, <2>6, <2>7 DEF AttachTypes
  <2>9. AttachOK(r)'
    <3>1. CASE place = "served"
      <4>1. Whole(parts[r])'
        BY <1>3, <1>5, <2>4, <2>5, <2>6, <3>1 DEF Whole, Tells
      <4> QED BY <1>1, <1>3, <1>5, <2>7, <3>1, <4>1 DEF AttachOK
    <3>2. CASE place = "serving"
      BY <1>1, <1>3, <1>5, <1>7, <2>2, <2>5, <2>7, <3>2 DEF AttachOK
    <3> QED BY <2>6, <3>1, <3>2
  <2> QED BY <1>1, <1>3, <2>5, <2>6, <2>7, <2>8, <2>9, AttachingStep
<1> QED BY <1>2, <1>6, <1>7

LEMMA ClaimStep == ASSUME ReplayInv, NEW r \in Requests, Claim(r) PROVE ReplayInv'
<1>1. /\ at[r] = "claim" /\ UNCHANGED <<parts, spool>> /\ seen' = [seen EXCEPT ![r] = NoMeta]
  BY DEF Claim
<1>2. PICK c, place : /\ TryClaimOwner(r, c) /\ at' = [at EXCEPT ![r] = place]
                      /\ claimed' = [claimed EXCEPT ![r] = Claimed(c)]
                      /\ place \in {"plain", "find"}
  BY DEF Claim, MoveTo
<1>3. /\ AttachOK(r) /\ AttachTypes /\ StoreTypes /\ MetaOK
      /\ at \in [Requests -> AttachPlaces] /\ seen \in [Requests -> MetaType]
      /\ parts \in [Requests -> Seq(Chunks)] /\ claimed \in [Requests -> BOOLEAN]
  BY AttachFacts
<1>4. /\ UNCHANGED <<meta, list, durable, again>> /\ faults' \in Nat
      /\ (owner' = owner \/ (owner = NoOne /\ owner' = r))
  BY <1>2, <1>3 DEF TryClaimOwner, Charge, StoreTypes
<1>5. StoreTypes' /\ Mine(r)
  BY <1>1, <1>3, <1>4 DEF StoreTypes, Mine
<1>6. NoMeta \in MetaType /\ Claimed(c) \in BOOLEAN
  <2>1. NoMeta \in MetaType
    BY GivenUpDocs
  <2>2. Claimed(c) \in BOOLEAN
    BY Zenon DEF Claimed
  <2> QED BY <2>1, <2>2
<1>7. at'[r] = place /\ place \in AttachPlaces \ {"own"} /\ parts'[r] = <<>> /\ spool'[r] = NoSpool
  BY <1>1, <1>2, <1>3 DEF AttachPlaces, AttachOK
<1>8. AttachTypes'
  BY <1>1, <1>2, <1>3, <1>6, <1>7 DEF AttachTypes
<1>9. AttachOK(r)'
  BY <1>2, <1>7 DEF AttachOK
<1>10. \A o \in Requests \ {r} : seen'[o] = seen[o] /\ parts'[o] = parts[o]
  BY <1>1, <1>3
<1> QED BY <1>1, <1>2, <1>4, <1>5, <1>7, <1>8, <1>9, <1>10, AttachingStep

LEMMA FindCompletedStep == ASSUME ReplayInv, NEW r \in Requests, FindCompleted(r) PROVE ReplayInv'
<1>1. at[r] = "find" /\ UNCHANGED <<seen, claimed, spool, storeVars>>
  BY DEF FindCompleted
<1>2. /\ AttachOK(r) /\ AttachTypes /\ StoreTypes /\ MetaOK /\ DurableOK
      /\ at \in [Requests -> AttachPlaces] /\ seen \in [Requests -> MetaType]
      /\ parts \in [Requests -> Seq(Chunks)]
  BY AttachFacts
<1>3. UNCHANGED <<owner, meta, list, durable, again>> /\ StoreTypes' /\ Mine(r)
  BY <1>1, <1>2 DEF storeVars, StoreTypes, Mine
<1>4. PICK place, payload :
        /\ at' = [at EXCEPT ![r] = place] /\ parts' = [parts EXCEPT ![r] = payload]
        /\ payload \in Seq(Chunks)
        /\ \/ place \in {"prepare", "plain"} /\ payload = <<>>
           \/ place = "release" /\ (payload = <<>> \/ Whole(payload))
           \/ place = "served" /\ Whole(payload)
  <2>1. parts[r] = <<>> /\ parts = [parts EXCEPT ![r] = <<>>]
    BY <1>1, <1>2 DEF AttachOK
  <2>2. (durable.state = "live" => Whole(durable.payload)) /\ durable.payload \in Seq(Chunks)
        /\ <<>> \in Seq(Chunks)
    BY <1>2 DEF DurableOK, StoreTypes
  <2>3. CASE durable.state # "live" /\ UNCHANGED parts
             /\ MoveTo(r, IF claimed[r] THEN "prepare" ELSE "plain")
    BY <2>1, <2>2, <2>3 DEF MoveTo
  <2>4. ASSUME NEW q, LeaveWith(r, q), q = <<>> \/ Whole(q)
        PROVE  \E place \in {"release", "plain", "served"} :
                 /\ at' = [at EXCEPT ![r] = place] /\ parts' = [parts EXCEPT ![r] = q]
                 /\ place = "plain" => q = <<>>
                 /\ place = "served" => Whole(q)
    BY <2>4 DEF LeaveWith, MoveTo
  <2>5. (durable.state # "live" /\ UNCHANGED parts
             /\ MoveTo(r, IF claimed[r] THEN "prepare" ELSE "plain"))
        \/ \E q \in Seq(Chunks) : LeaveWith(r, q) /\ (q = <<>> \/ Whole(q))
    BY <2>2 DEF FindCompleted
  <2> QED BY <2>3, <2>4, <2>5
<1>6. at'[r] = place /\ place \in AttachPlaces \ {"own"} /\ parts'[r] = payload
      /\ spool'[r] = NoSpool
  BY <1>1, <1>2, <1>4 DEF AttachPlaces, AttachOK
<1>7. AttachTypes'
  BY <1>1, <1>2, <1>4, <1>6 DEF AttachTypes
<1>8. AttachOK(r)'
  BY <1>3, <1>4, <1>6 DEF AttachOK, Whole, Tells
<1>9. \A o \in Requests \ {r} : seen'[o] = seen[o] /\ parts'[o] = parts[o]
  BY <1>1, <1>2, <1>4
<1> QED BY <1>1, <1>3, <1>4, <1>6, <1>7, <1>8, <1>9, AttachingStep

LEMMA ReleaseKeyStep == ASSUME ReplayInv, NEW r \in Requests, Release(r) PROVE ReplayInv'
<1>1. /\ at[r] = "release" /\ UNCHANGED <<seen, parts, spool>>
      /\ claimed' = [claimed EXCEPT ![r] = FALSE]
  BY DEF Release
<1>2. PICK c, place : /\ Fenced(r, c, NoOne, meta, list) /\ at' = [at EXCEPT ![r] = place]
                      /\ place = IF parts[r] = <<>> THEN "plain" ELSE "served"
  BY DEF Release, ReleaseOwner, MoveTo
<1>3. /\ AttachOK(r) /\ AttachTypes /\ StoreTypes /\ MetaOK
      /\ at \in [Requests -> AttachPlaces] /\ claimed \in [Requests -> BOOLEAN]
  BY AttachFacts
<1>4. StoreTypes' /\ Mine(r) /\ UNCHANGED <<meta, list, durable, again>>
  <2>1. meta \in MetaType /\ list \in Seq(Chunks)
    BY <1>3 DEF StoreTypes
  <2>2. StoreTypes' /\ Mine(r)
    BY <1>2, <1>3, <2>1, FencedTypes, FencedEffect
  <2> QED BY <1>2, <2>2 DEF Fenced
<1>6. at'[r] = place /\ place \in AttachPlaces \ {"own"} /\ parts'[r] = parts[r] /\ spool'[r] = NoSpool
  BY <1>1, <1>2, <1>3 DEF AttachPlaces, AttachOK
<1>7. AttachTypes'
  BY <1>1, <1>2, <1>3, <1>6 DEF AttachTypes
<1>8. place = "served" => Whole(parts[r])
  BY <1>1, <1>2, <1>3 DEF AttachOK
<1>9. AttachOK(r)'
  BY <1>2, <1>4, <1>6, <1>8 DEF AttachOK, Whole, Tells
<1> QED BY <1>1, <1>2, <1>4, <1>6, <1>7, <1>9, AttachingStep

LEMMA PrepareStep ==
  ASSUME ReplayInv, NEW r \in Requests, Prepare(r) PROVE ReplayInv'
<1>1. at[r] = "prepare" /\ UNCHANGED <<seen, parts, claimed, spool>>
  BY DEF Prepare
<1>2. PICK c \in Calls, place \in AttachPlaces :
        /\ Fenced(r, c, r, NoMeta, <<>>) /\ at' = [at EXCEPT ![r] = place]
        /\ place = IF Held(r, c) THEN "claimed" ELSE "plain"
  BY DEF Prepare, PrepareOwned, MoveTo, AttachPlaces
<1>3. /\ AttachOK(r) /\ AttachTypes /\ StoreTypes /\ MetaOK
      /\ at \in [Requests -> AttachPlaces]
  BY AttachFacts
<1>4. /\ StoreTypes' /\ Mine(r) /\ UNCHANGED <<durable, again>>
      /\ \/ owner = r /\ owner' = r /\ meta' = NoMeta /\ list' = <<>>
         \/ UNCHANGED <<owner, meta, list>>
  BY <1>2, <1>3, GivenUpDocs, FencedTypes, FencedEffect
<1>5. UNCHANGED <<meta, list>> \/ meta' = NoMeta
  BY <1>4
<1>6. place = "claimed" => list' = <<>>
  <2>1. SUFFICES ASSUME c.heard, owner = r PROVE list' = <<>>
    BY <1>2 DEF Held
  <2>2. c.times > 0
    BY <2>1, CallsGo
  <2> QED BY <1>2, <2>1, <2>2 DEF Fenced
<1>7. at'[r] = place /\ place \in AttachPlaces \ {"own"} /\ parts'[r] = <<>> /\ spool'[r] = NoSpool
  BY <1>1, <1>2, <1>3 DEF AttachPlaces, AttachOK
<1>8. AttachTypes'
  BY <1>1, <1>2, <1>3, <1>7 DEF AttachTypes
<1>9. AttachOK(r)'
  BY <1>2, <1>6, <1>7 DEF AttachOK
<1> QED BY <1>1, <1>2, <1>4, <1>5, <1>7, <1>8, <1>9, AttachingStep

LEMMA StartSpoolStep == ASSUME ReplayInv, NEW r \in Requests, StartSpool(r) PROVE ReplayInv'
<1>1. at[r] = "claimed" /\ UNCHANGED <<seen, parts, claimed, storeVars>>
  BY DEF StartSpool
<1>2. /\ AttachOK(r) /\ AttachTypes /\ StoreTypes /\ MetaOK /\ at \in [Requests -> AttachPlaces]
      /\ spool \in [Requests -> SpoolType]
  BY AttachFacts DEF ReplayInv, ReplayTypeOK
<1>3. UNCHANGED <<owner, meta, list, durable, again>> /\ StoreTypes' /\ Mine(r)
  BY <1>1, <1>2 DEF storeVars, StoreTypes, Mine
<1>4. CASE \E place \in {"release", "plain"} : MoveTo(r, place) /\ UNCHANGED spool
  <2>1. PICK place \in {"release", "plain"} : at' = [at EXCEPT ![r] = place] /\ UNCHANGED spool
    BY <1>4 DEF MoveTo
  <2>2. at'[r] = place /\ place \in AttachPlaces \ {"own"} /\ parts'[r] = <<>> /\ spool'[r] = NoSpool
    BY <1>1, <1>2, <2>1 DEF AttachPlaces, AttachOK
  <2>3. AttachTypes'
    BY <1>1, <1>2, <2>1, <2>2 DEF AttachTypes
  <2>4. AttachOK(r)'
    BY <2>2 DEF AttachOK
  <2> QED BY <1>1, <1>3, <2>1, <2>2, <2>3, <2>4, AttachingStep
<1>5. CASE MoveTo(r, "own") /\ spool' = [spool EXCEPT ![r] = NewSpool]
  <2>1. Shape(r, NewSpool) /\ NewSpool \in SpoolType
    BY NewSpoolShape DEF Shape
  <2>2. at' = [at EXCEPT ![r] = "own"] /\ "own" \in AttachPlaces
    BY <1>5 DEF MoveTo, AttachPlaces
  <2>3. at'[r] = "own" /\ spool'[r] = NewSpool
        /\ \A o \in Requests \ {r} : at'[o] = at[o] /\ spool'[o] = spool[o]
    BY <1>2, <1>5, <2>1, <2>2
  <2>4. ReplayTypeOK' /\ OwnStays
    BY <1>1, <1>2, <1>3, <1>5, <2>1, <2>2, <2>3 DEF ReplayTypeOK, AttachTypes, OwnStays
  <2>a. MetaOK' /\ DurableOK'
    BY <1>3, <2>4, MetaStays, DurableStays DEF ReplayInv
  <2>5. ASSUME NEW o \in Requests PROVE RequestOK(o)'
    <3>1. CASE o = r
      <4>1. AttachOK(r)'
        BY <2>3 DEF AttachOK
      <4>2. Shape(r, spool[r])'
        BY <2>1, <2>3
      <4>3. Agrees(r)'
        <5>1. owner = r => list = <<>>
          BY <1>1, <1>2 DEF AttachOK
        <5>2. Known(NewSpool) = 0 /\ WrittenTo(NewSpool) = 0
          BY DEF Known, WrittenTo, NewSpool, NoReply, Finals
        <5>3. IsTale(<<>>, r) /\ Upto(<<>>) = 0 /\ Len(<<>>) = 0
          BY EmptyTale
        <5> QED BY <1>3, <2>3, <5>1, <5>2, <5>3 DEF Agrees, IsTale
      <4>4. Durable(r)' /\ HasRead(r, spool[r])'
        BY <2>3 DEF Durable, HasRead, NewSpool
      <4> QED BY <3>1, <4>1, <4>2, <4>3, <4>4 DEF RequestOK
    <3>2. CASE o # r
      BY <1>1, <1>3, <2>3, <2>4, <3>2, OthersStay DEF RowStep
    <3> QED BY <3>1, <3>2
  <2> QED BY <2>4, <2>a, <2>5 DEF ReplayInv
<1> QED BY <1>4, <1>5 DEF StartSpool

-----------------------------------------------------------------------------
(* Time, and the theorems *)

LEMMA ElapseStep == ASSUME ReplayInv, Elapse PROVE ReplayInv'
<1>1. UNCHANGED <<at, seen, parts, claimed, spool, again, faults>>
  BY DEF Elapse, attachVars, LeaseLapses, HotKeysExpire, RowExpires, CleanupExpired
<1>2. /\ StoreTypes /\ AttachTypes /\ spool \in [Requests -> SpoolType] /\ MetaOK /\ DurableOK
  BY DEF ReplayInv, ReplayTypeOK
<1>3. \A r \in Requests : owner' = r => UNCHANGED <<owner, meta, list>>
  BY StoreAssumption DEF Elapse, LeaseLapses, HotKeysExpire, RowExpires, CleanupExpired
<1>4. StoreTypes' /\ MetaOK' /\ DurableOK'
  <2>1. CASE LeaseLapses
    BY <1>1, <2>1, <1>2, StoreAssumption
    DEF LeaseLapses, StoreTypes, MetaOK, DurableOK, Whole, Tells
  <2>2. CASE HotKeysExpire
    <3>1. UNCHANGED <<owner, durable, again, faults>>
      BY <2>2 DEF HotKeysExpire
    <3>2. CASE meta' = NoMeta /\ UNCHANGED list
      <4>1. NoMeta \in MetaType /\ NoMeta.status = "none" /\ NoMeta.gen = NoOne
        BY DEF NoMeta, Meta, MetaType
      <4> QED BY <3>1, <3>2, <1>2, <4>1 DEF StoreTypes, MetaOK, DurableOK, Whole, Tells
    <3>3. CASE list' = <<>> /\ UNCHANGED meta
      BY <1>1, <3>1, <3>3, <1>2 DEF StoreTypes, MetaOK, DurableOK, Whole, Tells
    <3> QED BY <2>2, <3>2, <3>3 DEF HotKeysExpire
  <2>3. CASE RowExpires
    BY <1>1, <2>3, <1>2 DEF RowExpires, StoreTypes, MetaOK, DurableOK, Whole, Tells
  <2>4. CASE CleanupExpired
    BY <1>1, <2>4, <1>2 DEF CleanupExpired, StoreTypes, MetaOK, DurableOK, Whole, Tells
  <2> QED BY <2>1, <2>2, <2>3, <2>4 DEF Elapse
<1>5. ASSUME NEW r \in Requests PROVE RequestOK(r)'
  <2>1. RequestOK(r)
    BY DEF ReplayInv
  <2>2. AttachOK(r)'
    <3>1. (Whole(parts[r]))' <=> Whole(parts[r])
      BY <1>1 DEF Whole, Tells
    <3>2. \A o \in Requests : owner' = o => owner = o
      BY <1>3
    <3>3. at'[r] = "serving" /\ meta'.gen = seen'[r].gen =>
            meta' = meta /\ (list' = list \/ list' = <<>>)
      BY <1>1, <2>1, StoreAssumption
      DEF RequestOK, AttachOK, Elapse, LeaseLapses, HotKeysExpire, RowExpires, CleanupExpired,
          NoMeta, Meta
    <3> QED BY <1>1, <1>3, <2>1, <3>1, <3>2, <3>3 DEF RequestOK, AttachOK
  <2>3. Shape(r, spool[r])'
    BY <1>1, <2>1 DEF RequestOK
  <2>4. Agrees(r)'
    BY <1>1, <1>3, <2>1 DEF RequestOK, Agrees, IsTale
  <2>5. Durable(r)'
    <3>1. spool[r].writer = "complete" => UNCHANGED durable
      BY DEF Elapse, Completing, LeaseLapses, HotKeysExpire
    <3> QED BY <1>1, <2>1, <3>1 DEF RequestOK, Durable
  <2>6. HasRead(r, spool[r])'
    BY <1>1, <1>3, <2>1 DEF RequestOK, HasRead, IsTale
  <2> QED BY <2>2, <2>3, <2>4, <2>5, <2>6 DEF RequestOK
<1> QED BY <1>1, <1>2, <1>4, <1>5 DEF ReplayInv, ReplayTypeOK, AttachTypes

LEMMA ReplayInit_Inv == ReplayInit => ReplayInv
<1> SUFFICES ASSUME ReplayInit PROVE ReplayInv
  OBVIOUS
<1>1. NoSpool \in SpoolType /\ \A r : Shape(r, NoSpool)
  BY NoSpoolShape DEF Shape
<1>2. ReplayTypeOK
  <2>1. NoMeta \in MetaType /\ <<>> \in Seq(Chunks) /\ 0 \in Nat
    BY DEF NoMeta, Meta, MetaType
  <2>2. StoreTypes
    BY <2>1 DEF ReplayInit, StoreInit, StoreTypes
  <2>3. AttachTypes /\ spool \in [Requests -> SpoolType]
    BY <1>1, <2>1 DEF ReplayInit, AttachTypes, AttachPlaces
  <2> QED BY <2>2, <2>3 DEF ReplayTypeOK
<1>3. MetaOK /\ DurableOK
  BY DEF ReplayInit, StoreInit, MetaOK, DurableOK, NoMeta, Meta
<1>4. ASSUME NEW r \in Requests PROVE RequestOK(r)
  <2>1. at[r] = "new" /\ spool[r] = NoSpool /\ parts[r] = <<>> /\ owner = NoOne /\ r # NoOne
    BY StoreAssumption DEF ReplayInit, StoreInit
  <2>2. AttachOK(r) /\ Agrees(r)
    BY <2>1 DEF AttachOK, Agrees
  <2>3. Durable(r) /\ HasRead(r, spool[r])
    BY <2>1 DEF Durable, HasRead, NoSpool, NewSpool
  <2> QED BY <1>1, <2>1, <2>2, <2>3 DEF RequestOK
<1> QED BY <1>2, <1>3, <1>4 DEF ReplayInv

LEMMA ReplayStep_Inv == ASSUME ReplayInv, [ReplayNext]_replayVars PROVE ReplayInv'
<1>1. CASE UNCHANGED replayVars
  <2>1. UNCHANGED <<owner, meta, list, durable, again, faults, at, seen, parts, claimed, spool>>
    BY <1>1 DEF replayVars, storeVars, attachVars
  <2>2. ReplayTypeOK' /\ MetaOK' /\ DurableOK'
    BY <2>1 DEF ReplayInv, ReplayTypeOK, StoreTypes, AttachTypes, MetaOK, DurableOK, Whole, Tells
  <2>3. ASSUME NEW r \in Requests PROVE RequestOK(r)'
    BY <2>1
    DEF ReplayInv, RequestOK, AttachOK, Agrees, HasRead, Durable, Whole, Tells, IsTale
  <2> QED BY <2>2, <2>3 DEF ReplayInv
<1>2. ASSUME NEW r \in Requests, AttachStep(r) PROVE ReplayInv'
  BY <1>2, GetMetaStep, ServePageStep, ClaimStep, FindCompletedStep, ReleaseKeyStep,
     PrepareStep, StartSpoolStep DEF AttachStep
<1>3. ASSUME NEW r \in Requests, HandlerStep(r) PROVE ReplayInv'
  BY <1>3, ObserveStep, EndWellStep, EndBadlyStep, WaitStep DEF HandlerStep
<1>4. ASSUME NEW r \in Requests, WriterJob(r) PROVE ReplayInv'
  BY <1>4, BootstrapStep, MaybeFlushStep, WroteStep, FinalizeStep, TailWrittenStep,
     ReadPageStep, PersistStep, CompleteStep, AbandonStep, MaybeCleanupStep DEF WriterJob
<1>5. ASSUME NEW r \in Requests, Heartbeat(r) PROVE ReplayInv'
  BY <1>5, HeartbeatStep
<1> QED BY <1>1, <1>2, <1>3, <1>4, <1>5, ElapseStep DEF ReplayNext

\* Nothing but the last call of an owner sets the state completed.
LEMMA OnlyOwnersComplete ==
  ASSUME ReplayNext, meta'.status = "completed", meta' # meta
  PROVE  \E r \in Requests :
           Complete(r) /\ owner = r /\ list' = list
           /\ meta' = Meta("completed", r, spool[r].count)
<1>1. ~Elapse
  BY DEF Elapse, LeaseLapses, HotKeysExpire, RowExpires, CleanupExpired, NoMeta, Meta
<1>2. ASSUME NEW r, AttachStep(r) PROVE FALSE
  <2>1. CASE GetMeta(r) \/ ServePage(r)
    BY <2>1 DEF GetMeta, ServePage, Look
  <2>2. CASE Claim(r)
    BY <2>2 DEF Claim, TryClaimOwner
  <2>3. CASE FindCompleted(r) \/ StartSpool(r)
    BY <2>3 DEF FindCompleted, StartSpool, storeVars
  <2>4. CASE Release(r)
    BY <2>4 DEF Release, ReleaseOwner, Fenced
  <2>5. CASE Prepare(r)
    BY <2>5 DEF Prepare, PrepareOwned, Fenced, NoMeta, Meta
  <2> QED BY <1>2, <2>1, <2>2, <2>3, <2>4, <2>5 DEF AttachStep
<1>3. ASSUME NEW r, HandlerStep(r) PROVE FALSE
  BY <1>3 DEF HandlerStep, Observe, EndWell, EndBadly, EnqueueFinal, CompleteTimeout, storeVars
<1>4. ASSUME NEW r, Heartbeat(r) PROVE FALSE
  BY <1>4 DEF Heartbeat, Look
<1>5. ASSUME NEW r, NEW s, NEW batch, NEW place, WriteBatch(r, s, batch, place) PROVE FALSE
  BY <1>5 DEF WriteBatch, WriteOwned, Meta
<1>6. ASSUME NEW r \in Requests, WriterJob(r) PROVE Complete(r)
  <2>1. CASE Bootstrap(r)
    BY <1>5, <2>1 DEF Bootstrap, storeVars
  <2>2. CASE MaybeFlush(r)
    BY <1>5, <2>2 DEF MaybeFlush, storeVars
  <2>3. CASE Finalize(r)
    BY <1>5, <2>3, Zenon DEF Finalize, storeVars
  <2>4. CASE Wrote(r) \/ TailWritten(r)
    BY <2>4 DEF Wrote, TailWritten, storeVars
  <2>5. CASE ReadPage(r) \/ Persist(r)
    BY <2>5 DEF ReadPage, Look, Persist
  <2>6. CASE Abandon(r)
    BY <2>6 DEF Abandon, AbortOwned, DiscardOwned, Fenced, NoMeta, Meta
  <2>7. CASE MaybeCleanup(r)
    BY <2>7 DEF MaybeCleanup, AbortOwned, ReleaseOwner, Fenced, Meta
  <2> QED BY <1>6, <2>1, <2>2, <2>3, <2>4, <2>5, <2>6, <2>7 DEF WriterJob
<1>7. PICK r \in Requests : Complete(r)
  BY <1>1, <1>2, <1>3, <1>4, <1>6 DEF ReplayNext
<1> QED BY <1>7 DEF Complete, CompleteOwned, Fenced

\* The list, the spools and the row go on together as the invariant above says.
THEOREM ReplayHolds == ReplaySpec => []ReplayInv
<1>1. ReplayInv /\ [ReplayNext]_replayVars => ReplayInv'
  BY ReplayStep_Inv
<1> QED BY <1>1, ReplayInit_Inv, PTL DEF ReplaySpec

\* Whoever is answered from the store gets the complete response of one request, in order,
\* and nothing else is kept in PostgreSQL; chunks stand in it twice only where a script was
\* executed more than once.  So it is for any requests in any processes, any length and
\* queue, leases that lapse at any moment, owners that die, replies that are lost and calls
\* that the client sends up to three times (ReplaysAreWhole).
THEOREM ReplayedIsWhole == ReplaySpec => []ReplaysAreWhole
<1>1. ReplayInv => ReplaysAreWhole
  BY DEF ReplayInv, RequestOK, AttachOK, DurableOK, Whole, ReplaysAreWhole
<1> QED BY <1>1, ReplayHolds, PTL

\* The state completed appears only with the row behind it (spool.go: "PG 不 durable 绝不置
\* completed"), over a list that tells the response and has the length that meta says, also
\* when the client sent scripts again; a row that is served holds that list.
THEOREM CompletedHasItsRow == ReplaySpec => CompletedIsDurable
<1>1. ReplayInv /\ [ReplayNext]_replayVars =>
        [meta'.status = "completed" /\ meta' # meta =>
           /\ durable.state # "none"
           /\ Tells(list', meta'.gen) /\ meta'.count = Len(list')
           /\ durable.state = "live" => durable.payload = list']_replayVars
  <2> SUFFICES ASSUME ReplayInv, ReplayNext, meta'.status = "completed", meta' # meta
               PROVE  /\ durable.state # "none"
                      /\ Tells(list', meta'.gen) /\ meta'.count = Len(list')
                      /\ durable.state = "live" => durable.payload = list'
    OBVIOUS
  <2>1. PICK r \in Requests : /\ Complete(r) /\ owner = r /\ list' = list
                              /\ meta' = Meta("completed", r, spool[r].count)
    BY OnlyOwnersComplete
  <2>2. spool[r].writer = "complete" /\ meta'.gen = r /\ meta'.count = spool[r].count
    BY <2>1 DEF Complete, Meta
  <2>3. list = spool[r].payload /\ Tells(list, r) /\ Len(list) = spool[r].count
    BY <2>1, <2>2, ReadTheList
  <2>4. durable.state # "none" /\ (durable.state = "live" => durable.payload = list)
    BY <2>2, <2>3 DEF ReplayInv, RequestOK, Durable
  <2> QED BY <2>1, <2>2, <2>3, <2>4
<1> QED BY <1>1, ReplayHolds, PTL DEF ReplaySpec, CompletedIsDurable
====
