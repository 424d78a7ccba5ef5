------------------------------ MODULE MCResponse ------------------------------
(* Where the response of a request comes from: a race of upstream attempts, attempts at one
   provider after the other, or an earlier response that was kept for replay.  These share no
   state, so that a behaviour is about one of them, chosen at the start. *)
EXTENDS HedgeRace, Replay, SerialAttempts, TLC

CONSTANTS a, b, c, q1, q2, c1, c2

VARIABLE part

OneAtFirst == [v \in Vendors |-> IF v = a THEN 1 ELSE 0]
TwoTries == [v \in Vendors |-> IF v = a THEN 2 ELSE 1]

\* A caller that is there to take the place at the first provider, and to give it back.
OnlyInTheWay(caller) ==
  LET next == call'[caller] IN
  /\ next.vendor \in {NoVendor, a} /\ next.banned = {} /\ ~next.gone
  /\ next.last \in {"none", "system", "saturated"}
  /\ next.told \in {"none", "served", "system", "saturated"}

\* "calls": one call does everything, with another in its way.  "places": two take the one
\* place in turn, while time passes and Redis fails.
Staged ==
  /\ OnlyInTheWay(c2)
  /\ part = "calls" => slotTime' = 0 /\ slips' = 0
  /\ part = "places" => OnlyInTheWay(c1)

\* The providers are alike but for the first: which of them comes next does not matter.
InOrder ==
  /\ \A l \in Launchers : lnext'[l] = c => b \in launched
  /\ call'[c1].vendor = c => b \in call'[c1].banned

\* A call to Redis goes wrong, or a deadline passes, not both.  The hot keys, which a spool
\* renews with its lease and which live for longer, expire when no spool is left.
OneMishap ==
  /\ faults' # 0 => \A r \in Requests : ~spool'[r].expired
  /\ HotKeysExpire => \A r \in Requests : at[r] # "own" \/ spool[r].released

ResponseInit ==
  /\ part \in {"race", "calls", "places", "replay"}
  /\ Init /\ ReplayInit /\ SerialInit

ResponseNext ==
  /\ \/ part = "race" /\ Next /\ UNCHANGED <<replayVars, serialVars>>
     \/ part = "replay" /\ ReplayNext /\ OneMishap /\ UNCHANGED <<vars, serialVars>>
     \/ /\ part \in {"calls", "places"} /\ SerialNext /\ Staged
        /\ UNCHANGED <<vars, replayVars>>
  /\ InOrder
  /\ UNCHANGED part

ResponseVars == <<part, vars, replayVars, serialVars>>

ResponseSpec == ResponseInit /\ [][ResponseNext]_ResponseVars

\* The requests for one replay id are alike.
AnyRequest == Permutations(Requests)

\* One part alone.
ReplayOnly == ResponseInit /\ part = "replay" /\ [][ResponseNext]_ResponseVars /\ ReplayFairness
CallsOnly == ResponseInit /\ part \in {"calls", "places"} /\ [][ResponseNext]_ResponseVars
===============================================================================
