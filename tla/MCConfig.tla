------------------------------- MODULE MCConfig -------------------------------
(* What is kept beside the database.  A behaviour is about one of six things, chosen at
   the start: the two tables of AuthStore, a ValueCache that is invalidated at will,
   a ValueCache behind the bus with its connection that breaks (one asker, for what
   is asked there is whether the cell is repaired), the lease of a budget, the jobs
   that reset the statistics of a user, or the binding of a session. *)
EXTENDS AuthStore, ConfigSync, CostLease, UserReset, SessionBinding, TLC

CONSTANTS r1, r2, i1, a1, a2, g1, g2, MaxGuard, q1, q2, q3, p1, p2, k1, k2, t1, t2

VARIABLE part

Own == [g \in Regs |-> g]     \* each registration has a channel of its own

Limits == (k1 :> 2) @@ (k2 :> 3)
Portions == (k1 :> 1) @@ (k2 :> 2)

\* Two requests with one key and a third with another, which sends the same session id.
SessionKey == (q1 :> k1) @@ (q2 :> k1) @@ (q3 :> k2)

ConfigVars == <<part, authVars, syncVars, leaseVars, resetVars, bindingVars>>

OthersAsk == [a \in Askers \ {a1} |-> ask[a]]

\* The requests are alike, and so are the processes: which asks first does not matter.
\* A third request asks only where the terms do not change.
InOrder ==
  /\ request'[q3].at # "new" => request'[q2].at # "new"
  /\ request'[q2].at # "new" => request'[q1].at # "new"
  /\ request'[q1].process # p2
  /\ request'[q3].at = "new" \/ used'[k2] = Nothing

\* POSTs, instances and rows are alike.  One thing at a time is there twice, or there at
\* all: a second POST, a second consumer, a second row, a reset of the limits.
OneTwist ==
  /\ poster'[q2].at # "new" => poster'[q1].at # "new"
  /\ worker[p1].at = "standby" => worker[p2].at # "standby" \/ worker'[p2].at = "standby"
  /\ created'[t2] # Absent => created'[t1] # Absent
  /\ LET twists == <<poster'[q2].at # "new", worker'[p2].at # "standby",
                     created'[t2] # Absent, lastReset' # 0>>
     IN \A i, j \in DOMAIN twists : twists[i] /\ twists[j] => i = j

ConfigInit ==
  /\ part \in {"auth", "value", "sync", "lease", "reset", "binding"}
  /\ AuthInit /\ SyncInit /\ LeaseInit /\ ResetInit /\ BindingInit
  /\ part # "binding" => \A a \in Admins : admin[a].scope = {}

ConfigNext ==
  /\ \/ part = "auth" /\ AuthNext /\ UNCHANGED <<syncVars, leaseVars, resetVars, bindingVars>>
     \/ /\ part = "value" /\ guard < MaxGuard /\ ValueNext
        /\ UNCHANGED <<authVars, busVars, unpublished, leaseVars, resetVars, bindingVars>>
     \/ /\ part = "sync" /\ SyncNext
        /\ UNCHANGED <<authVars, OthersAsk, leaseVars, resetVars, bindingVars>>
     \/ /\ part = "lease" /\ LeaseNext /\ InOrder
        /\ UNCHANGED <<authVars, syncVars, resetVars, bindingVars>>
     \/ /\ part = "reset" /\ ResetNext /\ OneTwist
        /\ UNCHANGED <<authVars, syncVars, leaseVars, bindingVars>>
     \/ /\ part = "binding" /\ BindingNext
        /\ UNCHANGED <<authVars, syncVars, leaseVars, resetVars>>
  /\ UNCHANGED part

ConfigSpec == ConfigInit /\ [][ConfigNext]_ConfigVars /\ SyncFairness

\* One part alone.
AuthOnly == ConfigInit /\ part = "auth" /\ [][ConfigNext]_ConfigVars
BusOnly == ConfigInit /\ part = "sync" /\ [][ConfigNext]_ConfigVars /\ SyncFairness
===============================================================================
