------------------------------ MODULE MCStreaming ------------------------------
(* What must come to an end before a streamed response flows: the race of attempts, the
   line before the budget of the gates, and a gate that reads (beside one other user of
   that budget).  A behaviour is about one of the three, chosen at the start. *)
EXTENDS HedgeRace, StreamGate, TLC

CONSTANTS a, b, g1, g2, g3

VARIABLE part

Rungs == <<[elapsed |-> 1, multiplier |-> 2], [elapsed |-> 2, multiplier |-> 1],
           [elapsed |-> 3, multiplier |-> 1]>>

streamingVars == <<part, vars, streamVars>>

\* The options of the gate matter in one part only; a probe comes with the ladder there.
StreamingInit ==
  /\ part \in {"race", "budget", "gate"} /\ Init /\ GateInit
  /\ probe # 0 => rate # 0
  /\ part # "gate" => probe = 0 /\ rate = 0

\* Beside the gate one other user asks for a little.
OneSmallUser == stage'[g3] = "out" /\ need'[g2] <= 1

RaceDoes(A) == part = "race" /\ A /\ UNCHANGED <<part, streamVars>>
BudgetDoes(A) == part = "budget" /\ A /\ UNCHANGED <<part, vars, gateVars>>
GateDoes(A) == part = "gate" /\ A /\ UNCHANGED <<part, vars>>
EitherDoes(A) == part \in {"budget", "gate"} /\ A /\ UNCHANGED <<part, vars, gateVars>>

StreamingNext ==
  \/ RaceDoes(Next)
  \/ BudgetDoes(BudgetNext)
  \/ GateDoes(GateNext /\ OneSmallUser)

\* The scheduler runs every goroutine of the race (HedgeRace.Fairness).
RaceFairness ==
  /\ \A p \in Providers : WF_streamingVars(RaceDoes(AttemptStep(p)))
  /\ \A l \in Launchers : WF_streamingVars(RaceDoes(LauncherStep(l)))
  /\ WF_streamingVars(RaceDoes(MainStep))

\* Each user of the budget runs on, and b.mu goes to whoever waits for it.  A user that does
\* not keep its lease for good returns it: Keep may happen to any of them, and to the gate as
\* CloseStream.  The gate runs on, time passes, and a prefix that is not kept for good is read;
\* the source owes nothing, for the idle timeout ends a read that brings nothing.
UserStep(g) == Receive(g) \/ Withdraw(g) \/ TakeOrphan(g) \/ ReturnOrphan(g)

StreamFairness ==
  /\ WF_streamingVars(EitherDoes(Drain))
  /\ \A g \in Gates :
       SF_streamingVars(\/ EitherDoes(UserStep(g))
                        \/ BudgetDoes(Release(g))
                        \/ g # Reader /\ GateDoes(Release(g) /\ UNCHANGED gateVars)
                        \/ g = Reader /\ GateDoes(GateStep \/ LeaseStep \/ ReadPrefix))
  /\ WF_streamingVars(GateDoes(Tick))

StreamingSpec ==
  /\ StreamingInit
  /\ [][StreamingNext]_streamingVars
  /\ RaceFairness /\ StreamFairness
===============================================================================
