----------------------------- MODULE ProbeLease -----------------------------
(* The lease of a probe (internal/route/probe_lease.go): while a slow provider is
   in quarantine, one request at a time, over all instances, is still sent to it.
   The request that took the key renews it every third of its TTL as long as it
   lives, whatever the renewals answer, and deletes it when its context ends. The
   instances' tickers and Redis share one clock of such thirds; a renewal that is
   due is attempted before time goes on. *)
EXTENDS Naturals

CONSTANTS
    Probes,         \* the requests that find the lease free
    Nobody,
    LeaseTTL,       \* in renewal intervals: 3 in the code
    MaxProbeTime    \* bound on the clock

ASSUME ProbeAssumption ==
  /\ LeaseTTL \in Nat /\ LeaseTTL >= 3
  /\ MaxProbeTime \in Nat /\ Nobody \notin Probes

VARIABLES
    probeClock,
    lease,          \* the key: its holder and when it expires
    probe           \* the requests: where each is, its next renewal, the renewals
                    \* in a row that did not extend the lease

probeVars == <<probeClock, lease, probe>>

Free == [holder |-> Nobody, end |-> 0]
Taken(p) == [holder |-> p, end |-> probeClock + LeaseTTL]
Probing == {p \in Probes : probe[p].at = "probing"}
At(p, step) == probe' = [probe EXCEPT ![p].at = step]
Awaits(p, misses) ==    \* the next renewal
  probe' = [probe EXCEPT ![p] = [at |-> "probing", due |-> probeClock + 1, misses |-> misses]]

ProbeInit ==
  /\ probeClock = 0 /\ lease = Free
  /\ probe = [p \in Probes |-> [at |-> "selecting", due |-> 0, misses |-> 0]]

\* SET NX PX: the grant, and the goroutine that keeps the lease.
AcquireSlowProbe(p) ==
  /\ probe[p].at = "selecting" /\ lease = Free
  /\ lease' = Taken(p)
  /\ \/ Awaits(p, 0)
     \/ At(p, "gone")               \* the reply is lost: nobody keeps or releases it
  /\ UNCHANGED probeClock

\* The ticker: compare and renew. A lease that was lost is not taken again.
Renew(p) ==
  /\ probe[p].at = "probing" /\ probe[p].due = probeClock
  /\ \/ lease.holder = p /\ lease' = Taken(p) /\ Awaits(p, 0)
     \* it fails, or the script answers 0, which nobody looks at
     \/ UNCHANGED lease /\ Awaits(p, probe[p].misses + 1)
  /\ UNCHANGED probeClock

\* The request's context ends, with its response or with its client.
EndRequest(p) ==
  /\ probe[p].at = "probing"
  /\ At(p, "releasing")
  /\ UNCHANGED <<probeClock, lease>>

ReleaseAny(p) ==        \* whoever holds the key
  /\ probe[p].at = "releasing"
  /\ lease' = Free
  /\ At(p, "gone")
  /\ UNCHANGED probeClock

\* releaseSlowProbe: compare and delete, once, within three seconds.
ReleaseSlowProbe(p) ==
  /\ probe[p].at = "releasing"
  /\ \/ lease' = IF lease.holder = p THEN Free ELSE lease
     \/ UNCHANGED lease
  /\ At(p, "gone")
  /\ UNCHANGED probeClock

\* The instance dies with the request.
CrashProbe(p) ==
  /\ probe[p].at \in {"probing", "releasing"}
  /\ At(p, "gone")
  /\ UNCHANGED <<probeClock, lease>>

\* A key at its end may be gone before or after the renewal that is due then.
Lapse ==
  /\ lease # Free /\ lease.end = probeClock
  /\ lease' = Free
  /\ UNCHANGED <<probeClock, probe>>

ProbeTick ==
  /\ probeClock < MaxProbeTime
  /\ \A p \in Probing : probe[p].due > probeClock
  /\ lease # Free => lease.end > probeClock
  /\ probeClock' = probeClock + 1
  /\ UNCHANGED <<lease, probe>>

ProbeNext ==
  \/ \E p \in Probes :
       \/ AcquireSlowProbe(p) \/ Renew(p) \/ EndRequest(p)
       \/ ReleaseSlowProbe(p) \/ CrashProbe(p)
  \/ Lapse \/ ProbeTick

ProbeSpec == ProbeInit /\ [][ProbeNext]_probeVars

-----------------------------------------------------------------------------
\* A request that is on its way to a provider in quarantine holds the lease, so that
\* no second one is, unless two renewals in a row have failed: no release, renewal or
\* expiry of an earlier holder touches it, after lost replies and crashes as well.
ProbeHoldsLease ==
  \A p \in Probing : lease.holder = p \/ probe[p].misses > 1

\* What the comment on slowProbeLeaseRenewEvery says: two renewals in a row may fail.
TwoMissesAreBorne ==
  \A p \in Probing : lease.holder = p \/ probe[p].misses > 2

=============================================================================
