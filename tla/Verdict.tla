-------------------------------- MODULE Verdict --------------------------------
(* What a race of attempts promises its caller, without saying how: one verdict, given once,
   and one answer that follows from it.  A caller whose client has left may be told of that
   at any time and of nothing else.  ForwardStreamHedge (internal/forward/hedge.go)
   implements it, with the verdict spread over hedgeRace.winner and hedgeRace.settled and
   the answer on its way through a channel (module HedgeRace). *)
CONSTANTS Candidates, Nobody

VARIABLES
  verdict,   \* open, won or lost
  victor,    \* who won
  answer,    \* what the caller was told: nothing, stream, failure or abort
  source,    \* whose stream that is
  left       \* the client has left

verdictVars == <<verdict, victor, answer, source, left>>

VerdictInit ==
  /\ verdict = "open" /\ victor = Nobody /\ left = FALSE
  /\ answer = "nothing" /\ source = Nobody

Win(p) ==
  /\ verdict = "open" /\ verdict' = "won" /\ victor' = p
  /\ UNCHANGED <<answer, source, left>>

Lose ==
  /\ verdict = "open" /\ verdict' = "lost"
  /\ UNCHANGED <<victor, answer, source, left>>

ClientLeaves ==
  /\ ~left /\ left' = TRUE
  /\ UNCHANGED <<verdict, victor, answer, source>>

TellStream ==
  /\ answer = "nothing" /\ verdict = "won"
  /\ answer' = "stream" /\ source' = victor
  /\ UNCHANGED <<verdict, victor, left>>

TellFailure ==
  /\ answer = "nothing" /\ verdict = "lost" /\ answer' = "failure"
  /\ UNCHANGED <<verdict, victor, source, left>>

TellAbort ==
  /\ answer = "nothing" /\ left /\ answer' = "abort"
  /\ UNCHANGED <<verdict, victor, source, left>>

VerdictNext ==
  \/ \E p \in Candidates : Win(p)
  \/ Lose \/ ClientLeaves \/ TellStream \/ TellFailure \/ TellAbort

VerdictSpec == VerdictInit /\ [][VerdictNext]_verdictVars
================================================================================
