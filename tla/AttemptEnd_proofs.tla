--------------------------- MODULE AttemptEnd_proofs ---------------------------
(* What follows the end of an attempt: who is blamed for the end of a stream
   (ResponsePump), what the hash of a circuit says of the outcomes recorded on it
   (CircuitBreaker), that a probe holds its lease (ProbeLease), and what the window of slow
   samples keeps and what routing sees of it (SlowRate).  For any writers, recorders,
   requests, thresholds, windows and clocks. *)
EXTENDS CircuitBreaker, ResponsePump, SlowRate, ProbeLease, FiniteSetTheorems, TLAPS

-----------------------------------------------------------------------------
(* The lease of the probe. *)

ProbeTypeOK ==
  /\ probeClock \in Nat
  /\ lease \in [holder : Probes \cup {Nobody}, end : Nat]
  /\ probe \in [Probes -> [at : {"selecting", "probing", "releasing", "gone"},
                           due : Nat, misses : Nat]]

\* The next renewal is due now or one interval from now, and the lease ends as many
\* intervals before a whole TTL from then as renewals were missed.
RenewalsInStep ==
  \A p \in Probing :
    /\ probeClock <= probe[p].due /\ probe[p].due <= probeClock + 1
    /\ lease.holder = p => lease.end = probe[p].due + LeaseTTL - 1 - probe[p].misses

ProbeInv == ProbeTypeOK /\ RenewalsInStep /\ ProbeHoldsLease

LEMMA ProbeInvStarts == ProbeInit => ProbeInv
  BY ProbeAssumption
  DEF ProbeInit, ProbeInv, ProbeTypeOK, RenewalsInStep, ProbeHoldsLease, Probing, Free

\* One step for each action.
LEMMA ProbeInvSteps == ProbeInv /\ [ProbeNext]_probeVars => ProbeInv'
<1> SUFFICES ASSUME ProbeInv, [ProbeNext]_probeVars PROVE ProbeInv'
  OBVIOUS
<1> USE ProbeAssumption DEF ProbeInv, ProbeTypeOK, RenewalsInStep, ProbeHoldsLease, Probing, Free,
                           Taken, At
<1>1. ASSUME NEW p \in Probes, AcquireSlowProbe(p) PROVE ProbeInv'
  <2>1. /\ probe[p].at = "selecting" /\ lease = Free /\ probeClock' = probeClock
        /\ lease' = [holder |-> p, end |-> probeClock + LeaseTTL]
    BY <1>1 DEF AcquireSlowProbe
  <2>2. ASSUME NEW q \in Probes, q # p
        PROVE  /\ probe'[q] = probe[q]
               /\ probe[q].at = "probing" => probe[q].misses > 1
    BY <1>1, <2>1, <2>2 DEF AcquireSlowProbe, Awaits
  <2>3. CASE Awaits(p, 0)
    <3>1. probe'[p] = [at |-> "probing", due |-> probeClock + 1, misses |-> 0]
      BY <2>3 DEF Awaits
    <3>2. ProbeTypeOK'
      BY <2>1, <2>3 DEF Awaits
    <3>3. RenewalsInStep'
      <4> SUFFICES ASSUME NEW q \in Probes, probe'[q].at = "probing"
                   PROVE  /\ probeClock' <= probe'[q].due /\ probe'[q].due <= probeClock' + 1
                          /\ lease'.holder = q =>
                               lease'.end = probe'[q].due + LeaseTTL - 1 - probe'[q].misses
        OBVIOUS
      <4>1. CASE q = p
        BY <2>1, <3>1, <4>1
      <4>2. CASE q # p
        BY <2>1, <2>2, <4>2
      <4>3. QED
        BY <4>1, <4>2
    <3>4. ProbeHoldsLease'
      BY <2>1, <2>2, <3>1
    <3>5. QED
      BY <3>2, <3>3, <3>4
  <2>4. CASE At(p, "gone")
    <3>1. probe'[p].at = "gone"
      BY <2>4
    <3>2. ProbeTypeOK'
      BY <2>1, <2>4
    <3>3. RenewalsInStep'
      BY <2>1, <2>2, <3>1
    <3>4. ProbeHoldsLease'
      BY <2>1, <2>2, <3>1
    <3>5. QED
      BY <3>2, <3>3, <3>4
  <2>5. QED
    BY <1>1, <2>3, <2>4 DEF AcquireSlowProbe
<1>2. ASSUME NEW p \in Probes, Renew(p) PROVE ProbeInv'
  <2>1. probe[p].at = "probing" /\ probe[p].due = probeClock /\ probeClock' = probeClock
    BY <1>2 DEF Renew
  <2>2. ASSUME NEW n \in Nat, Awaits(p, n)
        PROVE  /\ probe'[p] = [at |-> "probing", due |-> probeClock + 1, misses |-> n]
               /\ \A q \in Probes \ {p} : probe'[q] = probe[q]
               /\ probe' \in [Probes -> [at : {"selecting", "probing", "releasing", "gone"},
                                         due : Nat, misses : Nat]]
    BY <2>2 DEF Awaits
  <2>3. CASE lease.holder = p /\ lease' = Taken(p) /\ Awaits(p, 0)
    <3>1. /\ probe'[p] = [at |-> "probing", due |-> probeClock + 1, misses |-> 0]
          /\ \A q \in Probes \ {p} : probe'[q] = probe[q]
          /\ probe' \in [Probes -> [at : {"selecting", "probing", "releasing", "gone"},
                                    due : Nat, misses : Nat]]
      BY <2>2, <2>3
    <3>2. /\ lease' = [holder |-> p, end |-> probeClock + LeaseTTL]
          /\ lease.holder = p /\ p # Nobody
      BY <2>3
    <3>3. ProbeTypeOK'
      BY <2>1, <3>1, <3>2
    <3>4. RenewalsInStep'
      <4> SUFFICES ASSUME NEW q \in Probes, probe'[q].at = "probing"
                   PROVE  /\ probeClock' <= probe'[q].due /\ probe'[q].due <= probeClock' + 1
                          /\ lease'.holder = q =>
                               lease'.end = probe'[q].due + LeaseTTL - 1 - probe'[q].misses
        OBVIOUS
      <4>1. CASE q = p
        <5>1. /\ probe'[q].due = probeClock + 1 /\ probe'[q].misses = 0
              /\ lease'.end = probeClock + LeaseTTL
          BY <3>1, <3>2, <4>1
        <5>2. probeClock \in Nat /\ LeaseTTL \in Nat /\ probeClock' = probeClock
          BY <2>1
        <5>3. probeClock + LeaseTTL = probeClock + 1 + LeaseTTL - 1 - 0
          BY <5>2
        <5>4. QED
          BY <5>1, <5>2, <5>3
      <4>2. CASE q # p
        BY <2>1, <3>1, <3>2, <4>2
      <4>3. QED
        BY <4>1, <4>2
    <3>5. ProbeHoldsLease'
      BY <2>1, <3>1, <3>2
    <3>6. QED
      BY <3>3, <3>4, <3>5
  <2>4. CASE UNCHANGED lease /\ Awaits(p, probe[p].misses + 1)
    <3>1. probe[p].misses + 1 \in Nat
      OBVIOUS
    <3>2. /\ probe'[p] = [at |-> "probing", due |-> probeClock + 1, misses |-> probe[p].misses + 1]
          /\ \A q \in Probes \ {p} : probe'[q] = probe[q]
      BY <2>2, <2>4, <3>1
    <3>3. ProbeTypeOK'
      BY <2>1, <2>2, <2>4, <3>1
    <3>4. RenewalsInStep'
      BY <2>1, <2>4, <3>2
    <3>5. ProbeHoldsLease'
      BY <2>1, <2>4, <3>2
    <3>6. QED
      BY <3>3, <3>4, <3>5
  <2>5. QED
    BY <1>2, <2>3, <2>4 DEF Renew
<1>3. ASSUME NEW p \in Probes, EndRequest(p) PROVE ProbeInv'
  BY <1>3 DEF EndRequest
<1>4. ASSUME NEW p \in Probes, ReleaseSlowProbe(p) PROVE ProbeInv'
  BY <1>4 DEF ReleaseSlowProbe
<1>5. ASSUME NEW p \in Probes, CrashProbe(p) PROVE ProbeInv'
  BY <1>5 DEF CrashProbe
<1>6. CASE Lapse
  BY <1>6 DEF Lapse
<1>7. CASE ProbeTick
  BY <1>7 DEF ProbeTick
<1>8. CASE UNCHANGED probeVars
  BY <1>8 DEF probeVars
<1>9. QED
  BY <1>1, <1>2, <1>3, <1>4, <1>5, <1>6, <1>7, <1>8 DEF ProbeNext

\* A request on its way to a provider in quarantine holds the lease, unless two renewals
\* in a row have failed, for any requests and any TTL of at least three intervals
\* (keepSlowProbeAlive, releaseSlowProbe).
THEOREM ProbesHoldTheLease == ProbeSpec => []ProbeHoldsLease
<1>1. ProbeInv => ProbeHoldsLease
  BY DEF ProbeInv
<1>2. QED
  BY <1>1, ProbeInvStarts, ProbeInvSteps, PTL DEF ProbeSpec

-----------------------------------------------------------------------------
(* The samples and the mark. *)

RecorderType == [at : Phases, id : Members \cup {"none"}, time : Nat,
                 streak : Nat, samples : Nat, dirty : BOOLEAN]

SlowTypeOK ==
  /\ slowClock \in Nat /\ windowEnd \in Nat /\ marked \in Nat
  /\ window \in [DOMAIN window -> Nat] /\ IsFiniteSet(DOMAIN window)
  /\ cleanRun \in [n : Nat, end : Nat]
  /\ recorder \in [Recorders -> RecorderType]
  /\ begun \in Nat /\ cleanSince \in Nat /\ unmarked \in BOOLEAN

\* Nothing is dated later than now, and the window outlives its samples.
PastOnly ==
  /\ \A r \in Recorders : recorder[r].time <= slowClock
  /\ \A m \in DOMAIN window :
       window[m] <= slowClock /\ window[m] + 2 * SlowWindow <= windowEnd

\* The count in a row counts clean samples since the last slow one, and whoever may
\* delete the window began from a count that lifts the penalty and still holds.
RecoveryEarned ==
  /\ cleanRun.n <= cleanSince \/ RecoveryRequests <= cleanSince
  /\ \A r \in Recorders :
       /\ recorder[r].at = "watch" => recorder[r].streak >= RecoveryRequests
       /\ recorder[r].at = "exec" /\ ~recorder[r].dirty => cleanSince >= RecoveryRequests

\* The write that reached the trigger is followed by a mark that outlives the samples.
MarkFollows ==
  Cardinality(DOMAIN window) >= TriggerCount =>
    \/ unmarked
    \/ \E r \in Recorders : recorder[r].at = "mark"
    \/ marked # 0 /\ \A m \in DOMAIN window : window[m] + 2 * SlowWindow <= marked
    \/ \A m \in DOMAIN window : window[m] + 2 * SlowWindow <= slowClock

SlowInv == SlowTypeOK /\ PastOnly /\ RecoveryEarned /\ MarkFollows

LEMMA EmptyWindow ==
  /\ DOMAIN <<>> = {} /\ <<>> \in [DOMAIN <<>> -> Nat]
  /\ IsFiniteSet(DOMAIN <<>>) /\ Cardinality(DOMAIN <<>>) = 0
<1>1. DOMAIN <<>> = {}
  OBVIOUS
<1>2. <<>> \in [DOMAIN <<>> -> Nat]
  BY <1>1
<1>3. QED
  BY <1>1, <1>2, FS_EmptySet

\* What a slow sample does to the window: it adds at most itself, and removes only
\* what was a whole window older.
LEMMA SampledWindow ==
  ASSUME SlowTypeOK, NEW r \in Recorders
  PROVE  /\ Sampled(r) \in [DOMAIN Sampled(r) -> Nat] /\ IsFiniteSet(DOMAIN Sampled(r))
         /\ \A m \in DOMAIN Sampled(r) :
              \/ Sampled(r)[m] = recorder[r].time
              \/ m \in DOMAIN window /\ Sampled(r)[m] = window[m]
         /\ \A m \in DOMAIN window \ DOMAIN Sampled(r) :
              window[m] + SlowWindow <= recorder[r].time
<1> DEFINE t == recorder[r].time
           id == recorder[r].id
           with == [m \in DOMAIN window \cup {id} |-> IF m = id THEN t ELSE window[m]]
           kept == {m \in DOMAIN window \cup {id} : with[m] + SlowWindow > t}
<1>1. t \in Nat /\ SlowWindow \in Nat \ {0}
  BY SlowAssumption DEF SlowTypeOK, RecorderType
<1>2. DOMAIN with = DOMAIN window \cup {id}
  OBVIOUS
<1>3. Sampled(r) = [m \in kept |-> with[m]]
  BY <1>2 DEF Sampled
<1>4. DOMAIN Sampled(r) = kept /\ \A m \in kept : Sampled(r)[m] = with[m]
  BY <1>3
<1>5. \A m \in DOMAIN window \cup {id} : with[m] \in Nat
  BY <1>1 DEF SlowTypeOK
<1>6. Sampled(r) \in [DOMAIN Sampled(r) -> Nat]
  <2>1. [m \in kept |-> with[m]] \in [kept -> Nat]
    BY <1>5
  <2>2. QED
    BY <1>3, <1>4, <2>1
<1>7. IsFiniteSet(kept)
  <2>1. IsFiniteSet(DOMAIN window \cup {id})
    BY FS_AddElement DEF SlowTypeOK
  <2>2. QED
    BY <2>1, FS_Subset
<1>8. \A m \in DOMAIN Sampled(r) :
       \/ Sampled(r)[m] = t
       \/ m \in DOMAIN window /\ Sampled(r)[m] = window[m]
  BY <1>4
<1>9. ASSUME NEW m \in DOMAIN window, m \notin kept
      PROVE  window[m] + SlowWindow <= t
  <2>1. ~(with[m] + SlowWindow > t) /\ with[m] \in Nat
    BY <1>5, <1>9
  <2>2. m # id
    BY <1>1, <2>1
  <2>3. with[m] = window[m] /\ window[m] \in Nat
    BY <2>1, <2>2
  <2>4. QED
    BY <1>1, <2>1, <2>3
<1>10. QED
  BY <1>4, <1>6, <1>7, <1>8, <1>9

\* r goes on as to, and whoever is between WATCH and EXEC is told of a write.
LEMMA Moved ==
  ASSUME SlowTypeOK, NEW r \in Recorders, NEW to \in RecorderType, Moves(r, to)
  PROVE  /\ recorder' \in [Recorders -> RecorderType]
         /\ recorder'[r] = to
         /\ \A o \in Recorders \ {r} :
              /\ recorder'[o].at = recorder[o].at /\ recorder'[o].time = recorder[o].time
              /\ recorder'[o].streak = recorder[o].streak
              /\ recorder'[o].at = "exec" => recorder'[o].dirty
  BY DEF SlowTypeOK, RecorderType, Moves

\* The same for a step that writes no key.
LEMMA Stepped ==
  ASSUME SlowTypeOK, NEW r \in Recorders, NEW to \in RecorderType,
         recorder' = [recorder EXCEPT ![r] = to]
  PROVE  /\ recorder' \in [Recorders -> RecorderType]
         /\ recorder'[r] = to
         /\ \A o \in Recorders \ {r} : recorder'[o] = recorder[o]
  BY DEF SlowTypeOK, RecorderType

LEMMA RestIsOne == Rest \in RecorderType
  BY DEF Rest, RecorderType, Phases

LEMMA SlowInvStarts == SlowInit => SlowInv
<1> SUFFICES ASSUME SlowInit PROVE SlowInv
  OBVIOUS
<1>1. SlowTypeOK
  BY EmptyWindow, RestIsOne DEF SlowInit, SlowTypeOK, RecorderType, NoStreak
<1>2. PastOnly
  BY EmptyWindow DEF SlowInit, PastOnly, Rest
<1>3. RecoveryEarned
  BY DEF SlowInit, RecoveryEarned, NoStreak, Rest
<1>4. MarkFollows
  BY EmptyWindow DEF SlowInit, MarkFollows
<1>5. QED
  BY <1>1, <1>2, <1>3, <1>4 DEF SlowInv

\* A sample begins: no key is touched.
LEMMA BeginSteps ==
  ASSUME SlowInv, NEW r \in Recorders, BeginSlow(r) \/ BeginClean(r)
  PROVE  SlowInv'
<1> USE SlowAssumption DEF SlowInv
<1>1. PICK to \in RecorderType :
        /\ recorder' = [recorder EXCEPT ![r] = to]
        /\ to.at \in {"slow", "clean"} /\ to.time <= slowClock
  <2>1. CASE BeginSlow(r)
    <3>1. PICK m \in Members :
            recorder' = [recorder EXCEPT ![r] = [@ EXCEPT !.at = "slow", !.id = m, !.time = slowClock]]
      BY <2>1 DEF BeginSlow
    <3> DEFINE to == [recorder[r] EXCEPT !.at = "slow", !.id = m, !.time = slowClock]
    <3>2. to \in RecorderType /\ to.at = "slow" /\ to.time = slowClock
      BY DEF SlowTypeOK, RecorderType, Phases
    <3>3. recorder' = [recorder EXCEPT ![r] = to]
      BY <3>1
    <3>4. to.at \in {"slow", "clean"} /\ to.time <= slowClock
      BY <3>2 DEF SlowTypeOK
    <3> HIDE DEF to
    <3>5. QED
      BY <3>2, <3>3, <3>4
  <2>2. CASE BeginClean(r)
    <3> DEFINE to == [recorder[r] EXCEPT !.at = "clean"]
    <3>1. to \in RecorderType /\ to.at = "clean" /\ to.time = recorder[r].time
      BY DEF SlowTypeOK, RecorderType, Phases
    <3>2. recorder' = [recorder EXCEPT ![r] = to]
      BY <2>2 DEF BeginClean
    <3>3. QED
      BY <3>1, <3>2 DEF PastOnly
  <2>3. QED
    BY <2>1, <2>2
<1>2. /\ recorder' \in [Recorders -> RecorderType]
      /\ recorder'[r] = to
      /\ \A o \in Recorders \ {r} : recorder'[o] = recorder[o]
  BY <1>1, Stepped
<1>3. /\ UNCHANGED <<slowClock, window, windowEnd, marked, cleanRun, cleanSince, unmarked>>
      /\ recorder[r].at = "idle" /\ begun' = begun + 1
  BY DEF BeginSlow, BeginClean, Begins
<1>4. SlowTypeOK'
  BY <1>2, <1>3 DEF SlowTypeOK, RecorderType
<1>5. PastOnly'
  BY <1>1, <1>2, <1>3 DEF PastOnly
<1>6. RecoveryEarned'
  BY <1>1, <1>2, <1>3 DEF RecoveryEarned
<1>7. MarkFollows'
  BY <1>1, <1>2, <1>3 DEF MarkFollows
<1>8. QED
  BY <1>4, <1>5, <1>6, <1>7

\* A slow sample is written.
LEMMA SlowWriteSteps ==
  ASSUME SlowInv, NEW r \in Recorders, SlowWrite(r)
  PROVE  SlowInv'
<1> USE SlowAssumption DEF SlowInv
<1> DEFINE reached == Cardinality(DOMAIN Sampled(r)) >= TriggerCount
<1>1. /\ window' = Sampled(r) /\ windowEnd' = slowClock + 2 * SlowWindow
      /\ cleanRun' = NoStreak /\ cleanSince' = 0
      /\ slowClock' = slowClock /\ marked' = marked /\ begun' = begun
  BY DEF SlowWrite, KeyEnd
<1>2. PICK to \in RecorderType :
        /\ Moves(r, to) /\ to.at \in {"mark", "idle"} /\ to.time = 0
        /\ unmarked' \in BOOLEAN
        /\ reached => to.at = "mark" \/ unmarked'
  <2>1. CASE Moves(r, [Rest EXCEPT !.at = IF reached THEN "mark" ELSE "idle"]) /\ UNCHANGED unmarked
    <3> DEFINE to == [Rest EXCEPT !.at = IF reached THEN "mark" ELSE "idle"]
    <3>1. to \in RecorderType /\ to.time = 0 /\ to.at = IF reached THEN "mark" ELSE "idle"
      BY RestIsOne DEF Rest, RecorderType, Phases
    <3>2. QED
      BY <2>1, <3>1 DEF SlowTypeOK
  <2>2. CASE Moves(r, Rest) /\ unmarked' = (unmarked \/ reached)
    <3>1. Rest.at = "idle" /\ Rest.time = 0
      BY DEF Rest
    <3>2. QED
      BY <2>2, <3>1, RestIsOne DEF SlowTypeOK
  <2>3. QED
    BY <2>1, <2>2 DEF SlowWrite
<1>3. /\ recorder' \in [Recorders -> RecorderType]
      /\ recorder'[r] = to
      /\ \A o \in Recorders \ {r} :
           /\ recorder'[o].at = recorder[o].at /\ recorder'[o].time = recorder[o].time
           /\ recorder'[o].streak = recorder[o].streak
           /\ recorder'[o].at = "exec" => recorder'[o].dirty
  BY <1>2, Moved
<1>4. /\ window' \in [DOMAIN window' -> Nat] /\ IsFiniteSet(DOMAIN window')
      /\ \A m \in DOMAIN window' : window'[m] <= slowClock
  BY <1>1, SampledWindow DEF PastOnly
<1>5. SlowTypeOK'
  BY <1>1, <1>2, <1>3, <1>4 DEF SlowTypeOK, RecorderType, NoStreak
<1>6. PastOnly'
  <2>1. \A m \in DOMAIN window' : window'[m] + 2 * SlowWindow <= windowEnd'
    BY <1>1, <1>4 DEF SlowTypeOK
  <2>2. \A o \in Recorders : recorder'[o].time <= slowClock'
    BY <1>1, <1>2, <1>3 DEF SlowTypeOK, PastOnly
  <2>3. QED
    BY <1>1, <1>4, <2>1, <2>2 DEF PastOnly
<1>7. RecoveryEarned'
  <2>1. cleanRun'.n <= cleanSince'
    BY <1>1 DEF NoStreak
  <2>2. \A o \in Recorders :
          /\ recorder'[o].at = "watch" => recorder'[o].streak >= RecoveryRequests
          /\ ~(recorder'[o].at = "exec" /\ ~recorder'[o].dirty)
    BY <1>2, <1>3 DEF RecoveryEarned
  <2>3. QED
    BY <2>1, <2>2 DEF RecoveryEarned
<1>8. MarkFollows'
  BY <1>1, <1>2, <1>3 DEF MarkFollows
<1>9. QED
  BY <1>5, <1>6, <1>7, <1>8

\* Routing's mark is written.
LEMMA MarkSteps ==
  ASSUME SlowInv, NEW r \in Recorders, Mark(r)
  PROVE  SlowInv'
<1> USE SlowAssumption DEF SlowInv
<1>1. /\ marked' = slowClock + 2 * SlowWindow /\ Moves(r, Rest)
      /\ UNCHANGED <<slowClock, window, windowEnd, cleanRun, begun, cleanSince, unmarked>>
  BY DEF Mark, KeyEnd
<1>2. /\ recorder' \in [Recorders -> RecorderType]
      /\ recorder'[r] = Rest
      /\ \A o \in Recorders \ {r} :
           /\ recorder'[o].at = recorder[o].at /\ recorder'[o].time = recorder[o].time
           /\ recorder'[o].streak = recorder[o].streak
           /\ recorder'[o].at = "exec" => recorder'[o].dirty
  BY <1>1, Moved, RestIsOne
<1>3. Rest.at = "idle" /\ Rest.time = 0
  BY DEF Rest
<1>4. SlowTypeOK'
  BY <1>1, <1>2 DEF SlowTypeOK
<1>5. PastOnly'
  BY <1>1, <1>2, <1>3 DEF PastOnly, SlowTypeOK
<1>6. RecoveryEarned'
  BY <1>1, <1>2, <1>3 DEF RecoveryEarned
<1>7. MarkFollows'
  <2>1. marked' \in Nat /\ marked' # 0
    BY <1>1 DEF SlowTypeOK
  <2>2. \A m \in DOMAIN window' : window'[m] + 2 * SlowWindow <= marked'
    BY <1>1 DEF SlowTypeOK, PastOnly
  <2>3. QED
    BY <2>1, <2>2 DEF MarkFollows
<1>8. QED
  BY <1>4, <1>5, <1>6, <1>7

\* A clean sample is counted.
LEMMA CleanWriteSteps ==
  ASSUME SlowInv, NEW r \in Recorders, CleanWrite(r)
  PROVE  SlowInv'
<1> USE SlowAssumption DEF SlowInv
<1>1. /\ cleanRun' = [n |-> cleanRun.n + 1, end |-> slowClock + 2 * SlowWindow]
      /\ cleanSince' = IF cleanSince < RecoveryRequests THEN cleanSince + 1 ELSE cleanSince
      /\ UNCHANGED <<slowClock, window, windowEnd, marked, begun, unmarked>>
      /\ recorder[r].at = "clean"
  BY DEF CleanWrite, KeyEnd
<1>2. PICK at \in {"watch", "idle"} :
        /\ at = "watch" => cleanRun'.n >= RecoveryRequests
        /\ Moves(r, [Rest EXCEPT !.at = at, !.streak = cleanRun'.n,
                                 !.samples = Cardinality(DOMAIN window)])
  BY DEF CleanWrite
<1> DEFINE to == [Rest EXCEPT !.at = at, !.streak = cleanRun'.n,
                              !.samples = Cardinality(DOMAIN window)]
<1>3. /\ to \in RecorderType /\ to.at = at /\ to.streak = cleanRun'.n /\ to.time = 0
  <2>1. Cardinality(DOMAIN window) \in Nat
    BY FS_CardinalityType DEF SlowTypeOK
  <2>2. cleanRun'.n \in Nat
    BY <1>1 DEF SlowTypeOK
  <2>3. QED
    BY <1>2, <2>1, <2>2, RestIsOne DEF Rest, RecorderType, Phases
<1>4. Moves(r, to)
  BY <1>2
<1> HIDE DEF to
<1>5. /\ recorder' \in [Recorders -> RecorderType]
      /\ recorder'[r] = to
      /\ \A o \in Recorders \ {r} :
           /\ recorder'[o].at = recorder[o].at /\ recorder'[o].time = recorder[o].time
           /\ recorder'[o].streak = recorder[o].streak
           /\ recorder'[o].at = "exec" => recorder'[o].dirty
  BY <1>3, <1>4, Moved
<1>6. cleanSince' \in Nat /\ cleanSince <= cleanSince'
  BY <1>1 DEF SlowTypeOK
<1>7. SlowTypeOK'
  BY <1>1, <1>5, <1>6 DEF SlowTypeOK
<1>8. PastOnly'
  BY <1>1, <1>3, <1>5 DEF PastOnly, SlowTypeOK
<1>9. RecoveryEarned'
  <2>1. cleanRun'.n <= cleanSince' \/ RecoveryRequests <= cleanSince'
    BY <1>1 DEF RecoveryEarned, SlowTypeOK
  <2>2. \A o \in Recorders :
          /\ recorder'[o].at = "watch" => recorder'[o].streak >= RecoveryRequests
          /\ ~(recorder'[o].at = "exec" /\ ~recorder'[o].dirty)
    BY <1>2, <1>3, <1>5 DEF RecoveryEarned
  <2>3. QED
    BY <2>1, <2>2 DEF RecoveryEarned
<1>10. MarkFollows'
  BY <1>1, <1>5 DEF MarkFollows
<1>11. QED
  BY <1>7, <1>8, <1>9, <1>10

\* The recovery looks at what it watches.
LEMMA WatchSteps ==
  ASSUME SlowInv, NEW r \in Recorders, Watch(r)
  PROVE  SlowInv'
<1> USE SlowAssumption DEF SlowInv
<1>1. /\ UNCHANGED <<slowClock, window, windowEnd, marked, cleanRun, begun, cleanSince, unmarked>>
      /\ recorder[r].at = "watch"
  BY DEF Watch
<1>2. PICK to \in RecorderType :
        /\ recorder' = [recorder EXCEPT ![r] = to]
        /\ to.at \in {"exec", "idle"} /\ to.time <= slowClock
        /\ to.at = "exec" => RecoveryRequests <= cleanSince
  <2>1. CASE recorder' = [recorder EXCEPT ![r].at = "exec"] /\ cleanRun.n = recorder[r].streak
    <3> DEFINE to == [recorder[r] EXCEPT !.at = "exec"]
    <3>1. to \in RecorderType /\ to.at = "exec" /\ to.time = recorder[r].time
      BY DEF SlowTypeOK, RecorderType, Phases
    <3>2. recorder' = [recorder EXCEPT ![r] = to]
      BY <2>1
    <3>3. RecoveryRequests <= cleanSince
      BY <1>1, <2>1 DEF RecoveryEarned, SlowTypeOK, RecorderType
    <3>4. to.time <= slowClock
      BY <3>1 DEF PastOnly
    <3> HIDE DEF to
    <3>5. QED
      BY <3>1, <3>2, <3>3, <3>4
  <2>2. CASE Ends(r)
    <3>1. Rest.at = "idle" /\ Rest.time = 0 /\ Rest.time <= slowClock
      BY DEF Rest, SlowTypeOK
    <3>2. QED
      BY <2>2, <3>1, RestIsOne DEF Ends
  <2>3. QED
    BY <2>1, <2>2 DEF Watch
<1>3. /\ recorder' \in [Recorders -> RecorderType]
      /\ recorder'[r] = to
      /\ \A o \in Recorders \ {r} : recorder'[o] = recorder[o]
  BY <1>2, Stepped
<1>4. SlowTypeOK'
  BY <1>1, <1>3 DEF SlowTypeOK
<1>5. PastOnly'
  BY <1>1, <1>2, <1>3 DEF PastOnly
<1>6. RecoveryEarned'
  BY <1>1, <1>2, <1>3 DEF RecoveryEarned
<1>7. MarkFollows'
  BY <1>1, <1>2, <1>3 DEF MarkFollows
<1>8. QED
  BY <1>4, <1>5, <1>6, <1>7

\* The transaction of the recovery, or a call that fails.
LEMMA EndSteps ==
  ASSUME SlowInv, NEW r \in Recorders, Exec(r) \/ SlowFault(r)
  PROVE  SlowInv'
<1> USE SlowAssumption DEF SlowInv
<1>1. Rest.at = "idle" /\ Rest.time = 0
  BY DEF Rest
<1>2. UNCHANGED <<slowClock, begun, cleanSince>>
  BY DEF Exec, SlowFault
<1>3. CASE Ends(r) /\ UNCHANGED <<window, windowEnd, marked, cleanRun>>
           /\ unmarked' = (unmarked \/ recorder[r].at = "mark")
  <2>1. /\ recorder' \in [Recorders -> RecorderType]
        /\ recorder'[r] = Rest
        /\ \A o \in Recorders \ {r} : recorder'[o] = recorder[o]
    BY <1>3, Stepped, RestIsOne DEF Ends
  <2>2. SlowTypeOK'
    BY <1>2, <1>3, <2>1 DEF SlowTypeOK
  <2>3. PastOnly'
    BY <1>1, <1>2, <1>3, <2>1 DEF PastOnly, SlowTypeOK
  <2>4. RecoveryEarned'
    BY <1>1, <1>2, <1>3, <2>1 DEF RecoveryEarned
  <2>5. MarkFollows'
    BY <1>2, <1>3, <2>1 DEF MarkFollows
  <2>6. QED
    BY <2>2, <2>3, <2>4, <2>5
<1>4. CASE Moves(r, Rest) /\ window' = <<>> /\ windowEnd' = 0 /\ marked' = 0
           /\ cleanRun' = NoStreak /\ UNCHANGED unmarked
  <2>1. /\ recorder' \in [Recorders -> RecorderType]
        /\ recorder'[r] = Rest
        /\ \A o \in Recorders \ {r} :
             /\ recorder'[o].at = recorder[o].at /\ recorder'[o].time = recorder[o].time
             /\ recorder'[o].streak = recorder[o].streak
             /\ recorder'[o].at = "exec" => recorder'[o].dirty
    BY <1>4, Moved, RestIsOne
  <2>2. SlowTypeOK'
    BY <1>2, <1>4, <2>1, EmptyWindow DEF SlowTypeOK, NoStreak
  <2>3. PastOnly'
    <3>1. DOMAIN window' = {}
      BY <1>4, EmptyWindow
    <3>2. \A o \in Recorders : recorder'[o].time <= slowClock'
      BY <1>1, <1>2, <2>1 DEF PastOnly, SlowTypeOK
    <3>3. QED
      BY <3>1, <3>2 DEF PastOnly
  <2>4. RecoveryEarned'
    BY <1>1, <1>2, <1>4, <2>1 DEF RecoveryEarned, NoStreak, SlowTypeOK
  <2>5. MarkFollows'
    BY <1>4, EmptyWindow DEF MarkFollows
  <2>6. QED
    BY <2>2, <2>3, <2>4, <2>5
<1>5. Exec(r) => recorder[r].at # "mark" /\ UNCHANGED unmarked
  BY DEF Exec
<1>6. QED
  <2>1. CASE SlowFault(r)
    BY <1>3, <2>1 DEF SlowFault
  <2>2. CASE Exec(r) /\ recorder[r].dirty
    <3>1. unmarked' = (unmarked \/ recorder[r].at = "mark")
      BY <1>5, <2>2 DEF SlowTypeOK
    <3>2. QED
      BY <1>3, <2>2, <3>1 DEF Exec
  <2>3. CASE Exec(r) /\ ~recorder[r].dirty
    BY <1>4, <1>5, <2>3 DEF Exec
  <2>4. QED
    BY <2>1, <2>2, <2>3

\* Time passes, and with it the keys.
LEMMA TickSteps ==
  ASSUME SlowInv, SlowTick
  PROVE  SlowInv'
<1> USE SlowAssumption DEF SlowInv
<1>1. /\ slowClock' = slowClock + 1 /\ UNCHANGED <<begun, cleanSince, unmarked>>
      /\ \/ UNCHANGED <<window, windowEnd>>
         \/ window' = <<>> /\ windowEnd' = 0
      /\ \/ marked' = marked
         \/ marked' = 0 /\ marked <= slowClock'
      /\ cleanRun' \in {cleanRun, NoStreak}
  BY DEF SlowTick
<1>2. /\ recorder' \in [Recorders -> RecorderType]
      /\ \A o \in Recorders :
           /\ recorder'[o].at = recorder[o].at /\ recorder'[o].time = recorder[o].time
           /\ recorder'[o].streak = recorder[o].streak
           /\ recorder[o].dirty => recorder'[o].dirty
  <2>1. CASE UNCHANGED recorder
    BY <2>1 DEF SlowTypeOK
  <2>2. CASE recorder' = [r \in Recorders |->
                           [recorder[r] EXCEPT !.dirty = @ \/ recorder[r].at = "exec"]]
    BY <2>2 DEF SlowTypeOK, RecorderType
  <2>3. QED
    BY <2>1, <2>2 DEF SlowTick
<1>3. SlowTypeOK'
  <2>1. cleanRun' \in [n : Nat, end : Nat]
    BY <1>1 DEF SlowTypeOK, NoStreak
  <2>2. window' \in [DOMAIN window' -> Nat] /\ IsFiniteSet(DOMAIN window') /\ windowEnd' \in Nat
    <3>1. CASE UNCHANGED <<window, windowEnd>>
      BY <3>1 DEF SlowTypeOK
    <3>2. CASE window' = <<>> /\ windowEnd' = 0
      BY <3>2, EmptyWindow
    <3>3. QED
      BY <1>1, <3>1, <3>2
  <2>3. slowClock' \in Nat /\ marked' \in Nat /\ begun' \in Nat /\ cleanSince' \in Nat
        /\ unmarked' \in BOOLEAN
    BY <1>1 DEF SlowTypeOK
  <2>4. QED
    BY <1>2, <2>1, <2>2, <2>3 DEF SlowTypeOK
<1>4. PastOnly'
  <2>1. \A o \in Recorders : recorder'[o].time <= slowClock'
    BY <1>1, <1>2 DEF PastOnly, SlowTypeOK, RecorderType
  <2>2. CASE UNCHANGED <<window, windowEnd>>
    BY <1>1, <2>1, <2>2 DEF PastOnly, SlowTypeOK
  <2>3. CASE window' = <<>>
    BY <2>1, <2>3, EmptyWindow DEF PastOnly
  <2>4. QED
    BY <1>1, <2>2, <2>3
<1>5. RecoveryEarned'
  <2>1. cleanRun'.n <= cleanSince' \/ RecoveryRequests <= cleanSince'
    BY <1>1 DEF RecoveryEarned, SlowTypeOK, NoStreak
  <2>2. QED
    BY <1>1, <1>2, <2>1 DEF RecoveryEarned
<1>6. MarkFollows'
  <2>1. CASE window' = <<>>
    BY <2>1, EmptyWindow DEF MarkFollows
  <2>2. CASE UNCHANGED window /\ Cardinality(DOMAIN window) >= TriggerCount
    <3>1. ASSUME unmarked \/ \E r \in Recorders : recorder[r].at = "mark"
          PROVE  MarkFollows'
      BY <1>1, <1>2, <3>1 DEF MarkFollows
    <3>2. ASSUME marked # 0, \A m \in DOMAIN window : window[m] + 2 * SlowWindow <= marked
          PROVE  MarkFollows'
      <4>1. CASE marked' = marked
        BY <2>2, <3>2, <4>1 DEF MarkFollows
      <4>2. CASE marked <= slowClock'
        <5>1. \A m \in DOMAIN window : window[m] + 2 * SlowWindow <= slowClock'
          BY <1>1, <3>2, <4>2 DEF SlowTypeOK
        <5>2. QED
          BY <2>2, <5>1 DEF MarkFollows
      <4>3. QED
        BY <1>1, <4>1, <4>2
    <3>3. ASSUME \A m \in DOMAIN window : window[m] + 2 * SlowWindow <= slowClock
          PROVE  MarkFollows'
      <4>1. \A m \in DOMAIN window : window[m] + 2 * SlowWindow <= slowClock'
        BY <1>1, <3>3 DEF SlowTypeOK
      <4>2. QED
        BY <2>2, <4>1 DEF MarkFollows
    <3>4. QED
      BY <2>2, <3>1, <3>2, <3>3 DEF MarkFollows
  <2>3. QED
    BY <1>1, <2>1, <2>2 DEF MarkFollows
<1>7. QED
  BY <1>3, <1>4, <1>5, <1>6

LEMMA SlowInvSteps == SlowInv /\ [SlowNext]_slowVars => SlowInv'
<1> SUFFICES ASSUME SlowInv, [SlowNext]_slowVars PROVE SlowInv'
  OBVIOUS
<1>1. CASE UNCHANGED slowVars
  BY <1>1 DEF slowVars, SlowInv, SlowTypeOK, PastOnly, RecoveryEarned, MarkFollows
<1>2. QED
  BY <1>1, BeginSteps, SlowWriteSteps, MarkSteps, CleanWriteSteps, WatchSteps, EndSteps, TickSteps
  DEF SlowNext

\* Routing sees whoever is punished: as long as the window that counts holds enough slow
\* samples, the key it looks for exists or is about to, unless its write failed (Record,
\* Assess), for any recorders, thresholds and windows.
THEOREM PunishedAreMarked == SlowSpec => []PunishedIsMarked
<1>1. SlowInv => PunishedIsMarked
  <2> SUFFICES ASSUME SlowInv, Cardinality(LiveSamples) >= TriggerCount,
                      marked = 0, ~unmarked, \A r \in Recorders : recorder[r].at # "mark"
               PROVE  FALSE
    BY FS_CardinalityType, FS_Subset, SlowAssumption DEF PunishedIsMarked, LiveSamples, SlowInv, SlowTypeOK
  <2> USE SlowAssumption DEF SlowInv
  <2>1. /\ IsFiniteSet(DOMAIN window) /\ IsFiniteSet(LiveSamples) /\ LiveSamples \subseteq DOMAIN window
        /\ Cardinality(LiveSamples) <= Cardinality(DOMAIN window)
    BY FS_Subset DEF SlowTypeOK, LiveSamples
  <2>2. Cardinality(DOMAIN window) >= TriggerCount
    BY <2>1, FS_CardinalityType
  <2>3. \A m \in DOMAIN window : window[m] + 2 * SlowWindow <= slowClock
    BY <2>2 DEF MarkFollows
  <2>4. LiveSamples = {}
    BY <2>3 DEF LiveSamples, SlowTypeOK
  <2>5. QED
    BY <2>4, FS_EmptySet
<1>2. QED
  BY <1>1, SlowInvStarts, SlowInvSteps, PTL DEF SlowSpec

\* A recovery deletes no slow sample written since it was decided: one leaves the window
\* by age or after as many clean samples in a row as lift the penalty
\* (resetAfterRecovery), for any recorders, thresholds and windows.
THEOREM NoSlowSampleIsForgotten == SlowSpec => NothingSlowIsForgotten
<1> DEFINE Kept == \A m \in DOMAIN window \ DOMAIN window' :
                     \/ window[m] + SlowWindow <= slowClock'
                     \/ cleanSince >= RecoveryRequests
<1>1. ASSUME SlowInv, [SlowNext]_slowVars PROVE [Kept]_slowVars
  <2> USE <1>1, SlowAssumption DEF SlowInv
  <2>1. ASSUME NEW r \in Recorders, SlowWrite(r) PROVE Kept
    <3>1. window' = Sampled(r) /\ slowClock' = slowClock /\ recorder[r].time <= slowClock
      BY <2>1 DEF SlowWrite, PastOnly
    <3>2. \A m \in DOMAIN window \ DOMAIN Sampled(r) :
            window[m] + SlowWindow <= recorder[r].time
      BY SampledWindow
    <3>3. \A m \in DOMAIN window : window[m] \in Nat
      BY DEF SlowTypeOK
    <3>4. recorder[r].time \in Nat /\ slowClock \in Nat
      BY DEF SlowTypeOK, RecorderType
    <3>5. QED
      BY <3>1, <3>2, <3>3, <3>4
  <2>2. ASSUME NEW r \in Recorders, Exec(r) PROVE Kept
    BY <2>2 DEF Exec, RecoveryEarned
  <2>3. CASE SlowTick
    <3>1. CASE window' = window
      BY <3>1
    <3>2. CASE windowEnd <= slowClock'
      <4>1. \A m \in DOMAIN window : window[m] + SlowWindow <= slowClock'
        BY <2>3, <3>2 DEF SlowTick, PastOnly, SlowTypeOK
      <4>2. QED
        BY <4>1
    <3>3. QED
      BY <2>3, <3>1, <3>2 DEF SlowTick
  <2>4. CASE window' = window
    BY <2>4
  <2>5. QED
    BY <1>1, <2>1, <2>2, <2>3, <2>4
    DEF SlowNext, slowVars, BeginSlow, BeginClean, Mark, CleanWrite, Watch, SlowFault
<1>2. SlowInv /\ [SlowNext]_slowVars => [Kept]_slowVars
  BY <1>1
<1>3. QED
  BY <1>2, SlowInvStarts, SlowInvSteps, PTL DEF SlowSpec, NothingSlowIsForgotten

-----------------------------------------------------------------------------
(* ResponsePump: the blame of a stream's end. *)

Causes == {"none", "upstream", "cancelled", "client", "idle", "deadline"}
Decided == state \in {"finalizing", "closed"}

SettleTypeOK ==
    /\ state \in {"active", "draining", "finalizing", "closed"}
    /\ completion \in [normal : BOOLEAN, aborted : BOOLEAN, err : Causes \union {"not yet"}]
    /\ closing \in {"none", "sync", "async"}
    /\ aborted \in BOOLEAN /\ pending \in BOOLEAN

ActorTypeOK ==
    /\ handler \in {"consume", "reading", "write", "cancel", "cancelSource", "leave", "gone"}
    /\ drain \in {"off", "loop", "reading"}
    /\ upstream \in {"open", "eof", "failed"}
    /\ chunks \in Nat /\ seen \subseteq {"marker", "error", "incomplete"}
    /\ idle \in BOOLEAN /\ closed \in BOOLEAN /\ connected \in BOOLEAN /\ left \in BOOLEAN

PumpTypeOK == SettleTypeOK /\ ActorTypeOK

(* Whoever records an abort has seen the client leave: its context is cancelled, or a
   write was refused and the handler is on its way to tell the pump. *)
LeftOK ==
    /\ ~connected => left
    /\ handler \in {"cancel", "cancelSource"} => left

AbortOK ==
    /\ aborted => left
    /\ state = "draining" => aborted
    /\ handler = "cancelSource" /\ Live => aborted
    /\ closing # "none" => state = "finalizing"

(* Once decided, the completion says what it blames: a client that left, an upstream
   that ended by itself, or a timer of this side that fired. *)
CauseOK ==
    Decided =>
      /\ completion.aborted => left
      /\ ~completion.aborted =>
           /\ completion.err \in {"upstream", "none"} => upstream # "open"
           /\ completion.err \notin {"not yet", "cancelled", "client"}

OutcomeOK == outcome # "none" => Decided /\ outcome = TerminalKind(completion)

BlameInv == PumpTypeOK /\ LeftOK /\ AbortOK /\ CauseOK /\ OutcomeOK

LEMMA BlameInit == PumpInit => BlameInv
  <1> SUFFICES ASSUME PumpInit PROVE BlameInv
    OBVIOUS
  <1>1. PICK place \in {"consume", "write"}, marks \in {{}, {"marker"}} : PumpAt(place, marks)
    BY DEF PumpInit
  <1>2. SettleTypeOK
    BY <1>1 DEF PumpAt, SettleTypeOK, NotYet, Causes
  <1>3. ActorTypeOK
    BY <1>1 DEF PumpAt, ActorTypeOK
  <1>4. LeftOK /\ AbortOK /\ CauseOK /\ OutcomeOK
    BY <1>1 DEF PumpAt, LeftOK, AbortOK, CauseOK, OutcomeOK, Decided
  <1> QED
    BY <1>2, <1>3, <1>4 DEF BlameInv, PumpTypeOK

(* settle: the first caller decides, the others change nothing. *)
LEMMA ClaimDecides ==
  ASSUME SettleTypeOK, connected \in BOOLEAN,
         NEW normal \in BOOLEAN, NEW err \in Causes, NEW cancel \in BOOLEAN,
         Claim(normal, err, cancel), Live
  PROVE  /\ SettleTypeOK' /\ state' = "finalizing"
         /\ aborted' = (aborted \/ (~normal /\ ~connected))
         /\ completion'.aborted = aborted' /\ completion'.err = err
  <1>1. /\ state' = "finalizing" /\ pending' = FALSE
        /\ aborted' = (aborted \/ (~normal /\ ~connected))
        /\ completion' = [normal |-> normal, aborted |-> aborted', err |-> err]
        /\ closing' = IF cancel THEN "async" ELSE "sync"
    BY DEF Claim
  <1>2. aborted' \in BOOLEAN
    BY <1>1 DEF SettleTypeOK
  <1>3. completion' \in [normal : BOOLEAN, aborted : BOOLEAN, err : Causes \union {"not yet"}]
    BY <1>1, <1>2
  <1>4. closing' \in {"none", "sync", "async"}
    BY <1>1
  <1>5. pending' \in BOOLEAN
    BY <1>1
  <1>6. state' \in {"active", "draining", "finalizing", "closed"}
    BY <1>1
  <1>7. SettleTypeOK'
    BY <1>2, <1>3, <1>4, <1>5, <1>6 DEF SettleTypeOK
  <1> QED
    BY <1>1, <1>7

(* Once the state is decided, a chunk that still comes in changes no blame. *)
LEMMA OutcomeStays ==
  ASSUME BlameInv, UNCHANGED <<completion, outcome>>, Decided => Decided',
         seen' = seen \/ upstream = "open"
  PROVE  OutcomeOK'
  <1>1. CASE outcome = "none"
    BY <1>1 DEF OutcomeOK
  <1>2. CASE outcome # "none" /\ seen' = seen
    BY <1>2 DEF BlameInv, OutcomeOK, TerminalKind
  <1>3. CASE outcome # "none" /\ upstream = "open"
    <2>1. completion.aborted \/ completion.err # "none"
      BY <1>3 DEF BlameInv, OutcomeOK, CauseOK
    <2>2. completion.aborted \in BOOLEAN
      BY DEF BlameInv, PumpTypeOK, SettleTypeOK
    <2>3. TerminalKind(completion)' = TerminalKind(completion)
      BY <2>1, <2>2 DEF TerminalKind
    <2> QED
      BY <1>3, <2>3 DEF BlameInv, OutcomeOK
  <1> QED
    BY <1>1, <1>2, <1>3

(* A claim by one who has an upstream that ended, a client that left or a timer to show
   for it. *)
LEMMA ClaimKeeps ==
  ASSUME BlameInv, ActorTypeOK', LeftOK', UNCHANGED <<outcome, left, connected>>,
         NEW normal \in BOOLEAN, NEW err \in Causes, NEW cancel \in BOOLEAN,
         Claim(normal, err, cancel),
         handler' = "cancelSource" => handler = "cancelSource",
         upstream # "open" => upstream' = upstream, seen' = seen \/ upstream = "open",
         Live /\ ~aborted /\ (connected \/ normal) =>
           /\ err \in {"upstream", "none"} => upstream' # "open"
           /\ err \notin {"cancelled", "client"}
  PROVE  BlameInv'
  <1> USE DEF BlameInv
  <1>0. SettleTypeOK /\ ActorTypeOK
    BY DEF PumpTypeOK
  <1>1. CASE Live
    <2>1. /\ SettleTypeOK' /\ state' = "finalizing"
          /\ aborted' = (aborted \/ (~normal /\ ~connected))
          /\ completion'.aborted = aborted' /\ completion'.err = err
      BY <1>0, <1>1, ClaimDecides DEF ActorTypeOK
    <2>2. AbortOK'
      BY <2>1 DEF AbortOK, LeftOK, Live
    <2>3. CauseOK'
      BY <2>1, <2>2, <1>1 DEF CauseOK, AbortOK, Causes
    <2>4. OutcomeOK'
      BY <1>1 DEF OutcomeOK, Decided, Live
    <2> QED
      BY <2>1, <2>2, <2>3, <2>4 DEF PumpTypeOK
  <1>2. CASE ~Live
    <2>1. UNCHANGED <<state, pending, aborted, completion, closing>>
      BY <1>2 DEF Claim
    <2>2. SettleTypeOK'
      BY <1>0, <2>1 DEF SettleTypeOK
    <2>3. AbortOK'
      BY <2>1 DEF AbortOK, Live
    <2>4. CauseOK'
      BY <1>0, <2>1 DEF CauseOK, Decided, ActorTypeOK
    <2>5. OutcomeOK'
      BY <2>1, OutcomeStays DEF Decided
    <2> QED
      BY <2>2, <2>3, <2>4, <2>5 DEF PumpTypeOK
  <1> QED
    BY <1>1, <1>2

(* A step that decides nothing. *)
LEMMA QuietKeeps ==
  ASSUME BlameInv, PumpTypeOK', LeftOK', AbortOK', UNCHANGED <<completion, outcome, upstream>>,
         Decided <=> Decided', left => left', seen' = seen \/ upstream = "open"
  PROVE  BlameInv'
  <1>1. CauseOK'
    BY DEF BlameInv, CauseOK
  <1>2. OutcomeOK'
    BY OutcomeStays
  <1> QED
    BY <1>1, <1>2 DEF BlameInv

LEMMA ReadEndsInv ==
  ASSUME BlameInv, NEW who \in {"handler", "drain"},
         SourceEOF(who) \/ SourceFails(who) \/ SourceCancelled(who)
  PROVE  BlameInv'
  <1> USE DEF BlameInv, PumpTypeOK
  <1>1. UNCHANGED <<idle, closed, seen, chunks, connected, left, outcome>>
    BY DEF SourceEOF, SourceFails, SourceCancelled
  <1>2. /\ handler' \in {handler, "consume"} /\ drain' \in {drain, "loop"}
        /\ upstream' \in {"open", "eof", "failed"}
        /\ upstream # "open" => upstream' = upstream
    BY DEF SourceEOF, SourceFails, SourceCancelled, Return, ActorTypeOK
  <1>3. ActorTypeOK' /\ LeftOK'
    BY <1>1, <1>2 DEF ActorTypeOK, LeftOK
  <1>4. CASE SourceEOF(who)
    BY <1>1, <1>2, <1>3, <1>4, ClaimKeeps DEF SourceEOF, Causes
  <1>5. CASE SourceFails(who)
    BY <1>1, <1>2, <1>3, <1>5, ClaimKeeps DEF SourceFails, Causes
  <1>6. CASE SourceCancelled(who)
    BY <1>1, <1>2, <1>3, <1>6, ClaimKeeps DEF SourceCancelled, Causes
  <1> QED
    BY <1>4, <1>5, <1>6

LEMMA SourceDataInv ==
  ASSUME BlameInv, NEW who \in {"handler", "drain"},
         NEW mark \in {"content", "marker", "error", "incomplete"}, SourceData(who, mark)
  PROVE  BlameInv'
  <1> USE DEF BlameInv, PumpTypeOK
  <1>1. UNCHANGED <<idle, closed, upstream, connected, left, outcome>> /\ upstream = "open"
    BY DEF SourceData
  <1>2. /\ handler' \in {handler, "consume"} /\ drain' \in {drain, "loop"}
        /\ chunks' \in Nat /\ seen' \subseteq {"marker", "error", "incomplete"}
    BY DEF SourceData, Return, ActorTypeOK
  <1>3. ActorTypeOK' /\ LeftOK'
    BY <1>1, <1>2 DEF ActorTypeOK, LeftOK
  <1>4. CASE state = "draining" /\ seen' \intersect {"marker", "error"} # {}
    <2>1. Claim(FALSE, "none", TRUE)
      BY <1>4 DEF SourceData
    <2>2. aborted
      BY <1>4 DEF AbortOK
    <2> QED
      BY <1>1, <1>2, <1>3, <2>1, <2>2, ClaimKeeps DEF Causes
  <1>5. CASE ~(state = "draining" /\ seen' \intersect {"marker", "error"} # {})
    <2>1. /\ pending' = (pending \/ state = "active")
          /\ UNCHANGED <<state, aborted, completion, closing>>
      BY <1>5 DEF SourceData
    <2>2. pending' \in BOOLEAN
      BY <2>1
    <2>3. SettleTypeOK'
      BY <2>1, <2>2 DEF SettleTypeOK
    <2>4. AbortOK'
      BY <1>1, <1>2, <2>1 DEF AbortOK, Live
    <2> QED
      BY <1>1, <1>3, <2>1, <2>3, <2>4, QuietKeeps DEF Decided
  <1> QED
    BY <1>4, <1>5

LEMMA ClaimsInv ==
  ASSUME BlameInv, CancelSource \/ IdleFires \/ DeadlineFires
  PROVE  BlameInv'
  <1> USE DEF BlameInv, PumpTypeOK
  <1>1. UNCHANGED <<drain, closed, seen, chunks, upstream, connected, left, outcome>>
    BY DEF CancelSource, IdleFires, DeadlineFires
  <1>2. /\ handler' \in {handler, "leave"}
        /\ idle' \in {idle, FALSE}
    BY DEF CancelSource, IdleFires, DeadlineFires
  <1>3. ActorTypeOK' /\ LeftOK'
    <2>1. idle' \in BOOLEAN
      BY <1>2 DEF ActorTypeOK
    <2> QED
      BY <1>1, <1>2, <2>1 DEF ActorTypeOK, LeftOK
  <1>4. CASE CancelSource
    <2>1. Live => aborted
      BY <1>4 DEF CancelSource, AbortOK
    <2> QED
      BY <1>1, <1>2, <1>3, <1>4, <2>1, ClaimKeeps DEF CancelSource, Causes
  <1>5. CASE IdleFires
    BY <1>1, <1>2, <1>3, <1>5, ClaimKeeps DEF IdleFires, Causes
  <1>6. CASE DeadlineFires
    BY <1>1, <1>2, <1>3, <1>6, ClaimKeeps DEF DeadlineFires, Causes
  <1> QED
    BY <1>4, <1>5, <1>6

(* The handler's ClientCancel, first half: the abort is recorded and the pump drains. *)
LEMMA StartDrainInv == ASSUME BlameInv, StartDrain PROVE BlameInv'
  <1> USE DEF BlameInv, PumpTypeOK
  <1>1. /\ handler = "cancel" /\ handler' = IF closed THEN "leave" ELSE "cancelSource"
        /\ UNCHANGED <<completion, closing, closed, seen, chunks, upstream, connected, left, outcome>>
    BY DEF StartDrain
  <1>2. CASE Live /\ ~closed
    <2>1. /\ aborted' = TRUE /\ idle' = FALSE /\ state' = "draining" /\ pending' = FALSE
          /\ drain' = "loop"
      BY <1>2 DEF StartDrain
    <2>2. SettleTypeOK'
      <3>1. aborted' \in BOOLEAN /\ pending' \in BOOLEAN
        BY <2>1
      <3> QED
        BY <1>1, <2>1, <3>1 DEF SettleTypeOK
    <2>3. ActorTypeOK'
      <3>1. idle' \in BOOLEAN
        BY <2>1
      <3> QED
        BY <1>1, <2>1, <3>1 DEF ActorTypeOK
    <2>4. LeftOK' /\ AbortOK'
      BY <1>1, <1>2, <2>1 DEF LeftOK, AbortOK, Live
    <2>5. ~Decided /\ ~Decided'
      BY <1>2, <2>1 DEF Decided, Live
    <2> QED
      BY <1>1, <2>2, <2>3, <2>4, <2>5, QuietKeeps
  <1>3. CASE ~(Live /\ ~closed)
    <2>1. UNCHANGED <<aborted, idle, state, pending, drain>>
      BY <1>3 DEF StartDrain
    <2>2. SettleTypeOK' /\ ActorTypeOK'
      <3>1. SettleTypeOK'
        BY <1>1, <2>1 DEF SettleTypeOK
      <3>2. ActorTypeOK'
        <4>1. idle' \in BOOLEAN
          BY <2>1 DEF ActorTypeOK
        <4> QED
          BY <1>1, <2>1, <4>1 DEF ActorTypeOK
      <3> QED
        BY <3>1, <3>2
    <2>3. LeftOK' /\ AbortOK'
      BY <1>1, <1>3, <2>1 DEF LeftOK, AbortOK, Live
    <2>4. Decided <=> Decided'
      BY <2>1 DEF Decided
    <2> QED
      BY <1>1, <2>2, <2>3, <2>4, QuietKeeps
  <1> QED
    BY <1>2, <1>3

\* The steps of the handler, the drain, the client and the source that decide nothing.
LEMMA QuietInv ==
  ASSUME BlameInv,
         \/ \E who \in {"handler", "drain"} : StartRead(who)
         \/ Take \/ ReadEnds \/ Written \/ WriteFails \/ Panic \/ Close \/ DrainEnds
         \/ Disconnect \/ FinishCancelled \/ SourceClosed \/ UNCHANGED pumpVars
  PROVE  BlameInv'
  <1> USE DEF BlameInv, PumpTypeOK
  <1> DEFINE Acts ==
        \/ \E who \in {"handler", "drain"} : StartRead(who)
        \/ Take \/ ReadEnds \/ Written \/ WriteFails \/ Panic \/ Close \/ DrainEnds
        \/ Disconnect \/ FinishCancelled \/ SourceClosed \/ UNCHANGED pumpVars
  <1>1. /\ UNCHANGED <<aborted, completion, seen, chunks, upstream, outcome>>
        /\ handler' \in {handler, "reading", "write", "leave", "consume", "cancel", "gone"}
        /\ drain' \in {drain, "reading", "off"}
    BY DEF StartRead, Take, ReadEnds, Written, WriteFails, Panic, Close, DrainEnds,
           Disconnect, Finish, FinishCancelled, SourceClosed, pumpVars
  <1>2. \/ UNCHANGED <<state, closing>>
        \/ state = "finalizing" /\ state' = "closed" /\ closing' = "none"
    BY DEF StartRead, Take, ReadEnds, Written, WriteFails, Panic, Close, DrainEnds,
           Disconnect, Finish, FinishCancelled, SourceClosed, pumpVars, AbortOK
  <1>3. left => left'
    BY DEF StartRead, Take, ReadEnds, Written, WriteFails, Panic, Close, DrainEnds,
           Disconnect, Finish, FinishCancelled, SourceClosed, pumpVars
  <1>4. LeftOK'
    BY DEF StartRead, Take, ReadEnds, Written, WriteFails, Panic, Close, DrainEnds,
           Disconnect, Finish, FinishCancelled, SourceClosed, pumpVars, LeftOK
  <1>5. pending' \in BOOLEAN /\ idle' \in BOOLEAN /\ closed' \in BOOLEAN
        /\ connected' \in BOOLEAN /\ left' \in BOOLEAN
    <2>1. pending' \in {pending, FALSE} /\ closed' \in {closed, TRUE}
          /\ connected' \in {connected, FALSE} /\ left' \in {left, TRUE}
          /\ idle' \in {idle, IdleTimeout}
      BY DEF StartRead, Take, ReadEnds, Written, WriteFails, Panic, Close, DrainEnds,
             Disconnect, Finish, FinishCancelled, SourceClosed, pumpVars
    <2> QED
      BY <2>1, PumpAssumption DEF SettleTypeOK, ActorTypeOK
  <1>6. SettleTypeOK' /\ ActorTypeOK'
    <2>1. SettleTypeOK'
      BY <1>1, <1>2, <1>5 DEF SettleTypeOK
    <2>2. ActorTypeOK'
      BY <1>1, <1>2, <1>5 DEF ActorTypeOK
    <2> QED
      BY <2>1, <2>2
  <1>7. AbortOK'
    <2>1. aborted' => left'
      BY <1>1, <1>3 DEF AbortOK
    <2>2. state' = "draining" => aborted'
      BY <1>1, <1>2 DEF AbortOK
    <2>3. handler' = "cancelSource" /\ Live' => aborted'
      BY <1>1, <1>2 DEF AbortOK, Live
    <2>4. closing' # "none" => state' = "finalizing"
      BY <1>2 DEF AbortOK
    <2> QED
      BY <2>1, <2>2, <2>3, <2>4 DEF AbortOK
  <1>8. Decided <=> Decided'
    BY <1>2 DEF Decided
  <1> QED
    BY <1>1, <1>3, <1>4, <1>6, <1>7, <1>8, QuietKeeps

\* awaitTerminal settles what the completion says.
LEMMA AwaitInv == ASSUME BlameInv, AwaitTerminal PROVE BlameInv'
  <1> USE DEF BlameInv, PumpTypeOK
  <1>1. /\ state = "closed" /\ idle' = FALSE /\ outcome' = TerminalKind(completion)
        /\ UNCHANGED <<state, aborted, pending, completion, closing, handler, drain, closed,
                      seen, chunks, upstream, connected, left>>
    BY DEF AwaitTerminal
  <1>2. SettleTypeOK'
    BY <1>1 DEF SettleTypeOK
  <1>3. ActorTypeOK'
    <2>1. idle' \in BOOLEAN
      BY <1>1
    <2> QED
      BY <1>1, <2>1 DEF ActorTypeOK
  <1>4. LeftOK' /\ AbortOK' /\ CauseOK'
    BY <1>1 DEF LeftOK, AbortOK, CauseOK, Decided, Live
  <1>5. OutcomeOK'
    BY <1>1 DEF OutcomeOK, Decided, TerminalKind
  <1> QED
    BY <1>2, <1>3, <1>4, <1>5

LEMMA BlameStep == BlameInv /\ [PumpNext]_pumpVars => BlameInv'
  <1> SUFFICES ASSUME BlameInv, [PumpNext]_pumpVars PROVE BlameInv'
    OBVIOUS
  <1>1. CASE StartDrain
    BY <1>1, StartDrainInv
  <1>2. CASE CancelSource \/ IdleFires \/ DeadlineFires
    BY <1>2, ClaimsInv
  <1>3. CASE AwaitTerminal
    BY <1>3, AwaitInv
  <1>4. ASSUME NEW who \in {"handler", "drain"},
               SourceEOF(who) \/ SourceFails(who) \/ SourceCancelled(who)
        PROVE  BlameInv'
    BY <1>4, ReadEndsInv
  <1>5. ASSUME NEW who \in {"handler", "drain"},
               NEW mark \in {"content", "marker", "error", "incomplete"}, SourceData(who, mark)
        PROVE  BlameInv'
    BY <1>5, SourceDataInv
  <1>6. CASE \/ \E who \in {"handler", "drain"} : StartRead(who)
             \/ Take \/ ReadEnds \/ Written \/ WriteFails \/ Panic \/ Close \/ DrainEnds
             \/ Disconnect \/ FinishCancelled \/ SourceClosed \/ UNCHANGED pumpVars
    BY <1>6, QuietInv
  <1> QED
    BY <1>1, <1>2, <1>3, <1>4, <1>5, <1>6 DEF PumpNext, HandlerStep

LEMMA BlameInvSays == BlameInv => BlameFitsTheCause
  <1> SUFFICES ASSUME BlameInv PROVE BlameFitsTheCause
    OBVIOUS
  <1>1. completion.aborted \in BOOLEAN /\ completion.err \in Causes \union {"not yet"}
    BY DEF BlameInv, PumpTypeOK, SettleTypeOK
  <1>2. CASE outcome # "none" /\ completion.aborted
    BY <1>1, <1>2 DEF BlameInv, OutcomeOK, CauseOK, TerminalKind, BlameFitsTheCause
  <1>3. CASE outcome # "none" /\ ~completion.aborted /\ completion.err = "idle"
    BY <1>1, <1>3 DEF BlameInv, OutcomeOK, CauseOK, TerminalKind, BlameFitsTheCause
  <1>4. CASE outcome # "none" /\ ~completion.aborted /\ completion.err # "idle"
    <2>1. upstream # "open" \/ completion.err = "deadline"
      BY <1>1, <1>4 DEF BlameInv, OutcomeOK, CauseOK, Causes
    <2>2. outcome # "client_aborted"
      BY <1>1, <1>4 DEF BlameInv, OutcomeOK, TerminalKind
    <2> QED
      BY <2>1, <2>2 DEF BlameFitsTheCause
  <1>5. CASE outcome = "none"
    BY <1>5 DEF BlameFitsTheCause
  <1> QED
    BY <1>2, <1>3, <1>4, <1>5

\* The kind that is settled for the row blames the side that ended the stream, whichever
\* of the handler, the drain and the two timers decides first, and whatever the client
\* and the upstream do meanwhile (responsePump.settle, terminalKindFor).
THEOREM BlameIsRight == PumpSpec => []BlameFitsTheCause
  BY BlameInit, BlameStep, BlameInvSays, PTL DEF PumpSpec

(* Whoever decides has the source closed, in the background or, after its end of file,
   in line; the consumer closes the stream when it has left. *)
EndInv ==
    /\ state = "finalizing" => closing # "none"
    /\ closing = "sync" => upstream = "eof"
    /\ closed => handler = "gone"

\* Nobody but the handler moves it on from here, and a decision is not taken back.
DepartureGoesOn ==
    /\ handler = "cancel" => handler' \in {"cancel", "cancelSource"}
    /\ handler = "cancelSource" => handler' = "cancelSource" \/ Decided'
    /\ state = "finalizing" => \/ state' = "finalizing" /\ closing' = closing
                               \/ state' = "closed"
    /\ state = "closed" /\ outcome = "none" => state' = "closed" \/ outcome' # "none"

LEMMA DepartureStep ==
  ASSUME BlameInv, EndInv, [PumpNext]_pumpVars
  PROVE  EndInv' /\ DepartureGoesOn
  <1> USE DEF EndInv, DepartureGoesOn, Decided, Live
  <1>a. /\ closing # "none" => state = "finalizing"
        /\ state \in {"active", "draining", "finalizing", "closed"}
    BY DEF BlameInv, AbortOK, PumpTypeOK, SettleTypeOK
  <1>1. CASE StartRead("handler") \/ StartRead("drain")
    BY <1>a, <1>1 DEF StartRead
  <1>2. CASE Take \/ ReadEnds \/ Written \/ WriteFails \/ Panic \/ Close \/ DrainEnds \/ Disconnect
    BY <1>a, <1>2 DEF Take, ReadEnds, Written, WriteFails, Panic, Close, DrainEnds, Disconnect
  <1>3. CASE StartDrain
    BY <1>a, <1>3 DEF StartDrain
  <1>4. CASE CancelSource
    BY <1>a, <1>4 DEF CancelSource, Claim
  <1>5. ASSUME NEW who \in {"handler", "drain"}, SourceEOF(who) \/ SourceFails(who) \/ SourceCancelled(who)
        PROVE  EndInv' /\ DepartureGoesOn
    BY <1>a, <1>5 DEF SourceEOF, SourceFails, SourceCancelled, Claim, Return, Reading
  <1>6. ASSUME NEW who \in {"handler", "drain"},
               NEW mark \in {"content", "marker", "error", "incomplete"}, SourceData(who, mark)
        PROVE  EndInv' /\ DepartureGoesOn
    BY <1>a, <1>6 DEF SourceData, Claim, Return, Reading
  <1>7. CASE IdleFires \/ DeadlineFires
    BY <1>a, <1>7 DEF IdleFires, DeadlineFires, Claim
  <1>8. CASE FinishCancelled \/ SourceClosed
    BY <1>a, <1>8 DEF FinishCancelled, SourceClosed, Finish
  <1>9. CASE AwaitTerminal
    BY <1>a, <1>9 DEF AwaitTerminal
  <1>10. CASE UNCHANGED pumpVars
    BY <1>a, <1>10 DEF pumpVars
  <1> QED
    BY <1>1, <1>2, <1>3, <1>4, <1>5, <1>6, <1>7, <1>8, <1>9, <1>10 DEF PumpNext, HandlerStep

\* The steps that fairness makes happen, each from where it waits.
LEMMA DepartureIsServed ==
  ASSUME BlameInv, EndInv
  PROVE  /\ handler = "cancel" /\ HandlerStep => handler' = "cancelSource"
         /\ handler = "cancelSource" /\ HandlerStep => Decided'
         /\ closing # "none" /\ (FinishCancelled \/ SourceClosed) => state' = "closed"
         /\ AwaitTerminal => outcome' # "none"
  <1>1. ASSUME handler = "cancel", HandlerStep PROVE handler' = "cancelSource"
    BY <1>1 DEF HandlerStep, StartRead, Take, ReadEnds, StartDrain, CancelSource, Close, EndInv
  <1>2. ASSUME handler = "cancelSource", HandlerStep PROVE Decided'
    <2>1. CancelSource /\ state \in {"active", "draining", "finalizing", "closed"}
      BY <1>2 DEF HandlerStep, StartRead, Take, ReadEnds, StartDrain, Close, BlameInv,
                  PumpTypeOK, SettleTypeOK
    <2> QED BY <2>1 DEF CancelSource, Claim, Live, Decided
  <1>3. FinishCancelled \/ SourceClosed => state' = "closed"
    BY DEF FinishCancelled, SourceClosed, Finish
  <1>4. AwaitTerminal => outcome' # "none"
    BY DEF AwaitTerminal, TerminalKind
  <1> QED BY <1>1, <1>2, <1>3, <1>4

\* forward/pump.go and stream.go: a departure that the handler noticed ends in a settlement.
\* The pump turns to draining, the source is cancelled, somebody decides, the source is
\* closed and the row settled; no step of these waits for the client or the upstream.
THEOREM DeparturesSettle == PumpFairSpec /\ []PumpCanAct => CancelSettles
  <1> DEFINE Noticed == handler = "cancel"
             Cancelling == handler = "cancelSource"
             Closing == state = "finalizing"
             Behind == closing = "async"
             InLine == closing = "sync"
             AtEOF == upstream = "eof"
             Over == state = "closed"
             Settled == outcome # "none"
             Inv == BlameInv /\ EndInv
  <1>1. PumpInit => Inv
    BY BlameInit DEF PumpInit, PumpAt, EndInv
  <1>2. Inv /\ [PumpNext]_pumpVars => Inv' /\ DepartureGoesOn
    BY BlameStep, DepartureStep
  <1>3. DepartureGoesOn =>
          /\ Noticed => Noticed' \/ Cancelling'
          /\ Cancelling => Cancelling' \/ Closing' \/ Over'
          /\ Closing => Over' \/ (Closing' /\ (Behind => Behind') /\ (InLine => InLine'))
          /\ Over /\ ~Settled => Over' \/ Settled'
    BY DEF DepartureGoesOn, Decided
  <1>4. Inv => (Closing => Behind \/ InLine) /\ (InLine => AtEOF)
    <2>1. BlameInv => closing \in {"none", "sync", "async"}
      BY DEF BlameInv, PumpTypeOK, SettleTypeOK
    <2> QED BY <2>1 DEF EndInv
  <1>5. Inv => /\ Noticed /\ <<HandlerStep>>_pumpVars => Cancelling'
               /\ Cancelling /\ <<HandlerStep>>_pumpVars => Closing' \/ Over'
               /\ <<FinishCancelled>>_pumpVars => Over'
               /\ <<SourceClosed /\ upstream = "eof">>_pumpVars => Over'
               /\ <<AwaitTerminal>>_pumpVars => Settled'
    <2>1. FinishCancelled \/ SourceClosed => closing # "none"
      BY DEF FinishCancelled, SourceClosed
    <2> QED BY <2>1, DepartureIsServed DEF Decided
  <1>6. PumpCanAct <=>
          /\ Noticed \/ Cancelling => ENABLED <<HandlerStep>>_pumpVars
          /\ Behind => ENABLED <<FinishCancelled>>_pumpVars
          /\ InLine /\ AtEOF => ENABLED <<SourceClosed /\ upstream = "eof">>_pumpVars
          /\ Over /\ ~Settled => ENABLED <<AwaitTerminal>>_pumpVars
    BY DEF PumpCanAct
  <1> HIDE DEF Noticed, Cancelling, Closing, Behind, InLine, AtEOF, Over, Settled, Inv
  <1>7. PumpFairSpec /\ []PumpCanAct => (Over ~> Settled)
    BY <1>1, <1>2, <1>3, <1>5, <1>6, PTL DEF PumpFairSpec, PumpSpec, PumpFairness
  <1>8. PumpFairSpec /\ []PumpCanAct => (Closing ~> Over)
    BY <1>1, <1>2, <1>3, <1>4, <1>5, <1>6, PTL DEF PumpFairSpec, PumpSpec, PumpFairness
  <1>9. PumpFairSpec /\ []PumpCanAct => (Noticed ~> Closing \/ Over)
    BY <1>1, <1>2, <1>3, <1>5, <1>6, PTL DEF PumpFairSpec, PumpSpec, PumpFairness
  <1>10. (Noticed <=> handler = "cancel") /\ (Settled <=> outcome # "none")
    BY DEF Noticed, Settled
  <1> QED BY <1>7, <1>8, <1>9, <1>10, PTL DEF CancelSettles

-----------------------------------------------------------------------------
(* CircuitBreaker: what the transaction writes was computed from the hash it replaces. *)

HashType == [state : {"closed", "open", "half-open"}, count : Nat, until : Nat, passed : Nat,
             level : Nat]
ChangeType == [next : HashType, write : BOOLEAN, opened : BOOLEAN]
JobType == [phase : {"idle", "watch", "read", "alert"}, op : {"none", "failure", "success"},
            at : Nat, on : BOOLEAN, attempt : Nat, dirty : BOOLEAN, change : ChangeType]

CircuitTypeOK ==
  /\ tier \in {"provider", "endpoint"} /\ hash \in HashType /\ now \in Nat
  /\ enabled \in BOOLEAN /\ job \in [Writers -> JobType]
  /\ tally \in Nat /\ streak \in Nat /\ windows \in Nat

\* Change, for the time the writer took.
ChangeAt(j, h, t) ==
  CASE tier = "provider" /\ ~j.on -> ForceClosed(h)
    [] tier = "provider" /\ j.on /\ j.op = "failure" -> ProviderFailure(h, t)
    [] tier = "provider" /\ j.on /\ j.op = "success" -> ProviderSuccess(h, t)
    [] tier = "endpoint" /\ j.op = "failure" -> EndpointFailure(h, t)
    [] tier = "endpoint" /\ j.op = "success" -> EndpointSuccess(h)

JobOK(j) ==
  /\ j.at <= now
  /\ j.phase \in {"watch", "read"} => j.op \in {"failure", "success"}
  /\ j.phase = "read" /\ ~j.dirty =>
       \E t \in Nat : /\ tier = "provider" => t = j.at
                      /\ j.change = ChangeAt(j, hash, t)

\* The ladder and the trials of a provider.
TrialsOK ==
  tier = "provider" =>
    /\ hash.state = "closed" => windows = 0
    /\ hash.state # "closed" => windows > 0 /\ hash.level = Min({windows - 1, MaxOpenCount})
    /\ hash.state = "open" => streak = 0 /\ hash.until > 0
    /\ hash.state = "half-open" => streak <= hash.passed /\ hash.passed < SuccessThreshold

CircuitInv ==
  /\ CircuitTypeOK /\ FailuresCounted /\ AlertOncePerOpening /\ TrialsOK
  /\ \A w \in Writers : JobOK(job[w])

LEMMA MinOfTwo ==
  ASSUME NEW a \in Int, NEW b \in Int
  PROVE  Min({a, b}) = IF a <= b THEN a ELSE b
  <1>1. CASE a <= b
    <2>1. \A x \in {a, b} : (\A y \in {a, b} : x <= y) => x = a
      BY <1>1
    <2>2. \A y \in {a, b} : a <= y
      BY <1>1
    <2> QED BY <1>1, <2>1, <2>2 DEF Min
  <1>2. CASE ~(a <= b)
    <2>1. \A x \in {a, b} : (\A y \in {a, b} : x <= y) => x = b
      BY <1>2
    <2>2. \A y \in {a, b} : b <= y
      BY <1>2
    <2> QED BY <1>2, <2>1, <2>2 DEF Min
  <1> QED BY <1>1, <1>2

LEMMA MaxOfTwo ==
  ASSUME NEW a \in Int, NEW b \in Int
  PROVE  Max({a, b}) = IF a >= b THEN a ELSE b
  <1>1. CASE a >= b
    <2>1. \A x \in {a, b} : (\A y \in {a, b} : x >= y) => x = a
      BY <1>1
    <2>2. \A y \in {a, b} : a >= y
      BY <1>1
    <2> QED BY <1>1, <2>1, <2>2 DEF Max
  <1>2. CASE ~(a >= b)
    <2>1. \A x \in {a, b} : (\A y \in {a, b} : x >= y) => x = b
      BY <1>2
    <2>2. \A y \in {a, b} : b >= y
      BY <1>2
    <2> QED BY <1>2, <2>1, <2>2 DEF Max
  <1> QED BY <1>1, <1>2

\* One trial is one level of the ladder.
LEMMA NextLevelIs ==
  ASSUME NEW l \in Nat
  PROVE  NextLevel(l) = (IF l + 1 <= MaxOpenCount THEN l + 1 ELSE MaxOpenCount)
         /\ NextLevel(l) \in Nat
  <1>1. Max({l, 0}) = l
    BY MaxOfTwo
  <1>2. Min({l + 1, MaxOpenCount}) = IF l + 1 <= MaxOpenCount THEN l + 1 ELSE MaxOpenCount
    BY CircuitAssumption, MinOfTwo
  <1>3. NextLevel(l) = Min({l + 1, MaxOpenCount})
    BY <1>1 DEF NextLevel
  <1> QED BY <1>2, <1>3, CircuitAssumption

LEMMA ProductIsNat == \A a, b \in Nat : a * b \in Nat
  OBVIOUS

\* A window is never empty.
LEMMA WindowIs ==
  ASSUME NEW l \in Nat
  PROVE  Window(l) \in Nat /\ Window(l) > 0
  <1>1. Min({l, MaxOpenCount}) \in Nat
    BY CircuitAssumption, MinOfTwo
  <1>2. Increment * Min({l, MaxOpenCount}) \in Nat
    BY <1>1, CircuitAssumption, ProductIsNat
  <1> QED BY <1>2, CircuitAssumption DEF Window

-----------------------------------------------------------------------------
(* What each change makes of a hash. *)

LEMMA ProviderFailureSays ==
  ASSUME NEW h \in HashType, NEW t \in Nat
  PROVE  LET c == ProviderFailure(h, t) IN
         /\ c \in ChangeType /\ c.write /\ c.next.count = h.count + 1
         /\ \/ /\ RefusedAt(h, t) /\ ~c.opened /\ c.next = [h EXCEPT !.count = @ + 1]
            \/ /\ ~RefusedAt(h, t) /\ c.opened
               /\ c.next.state = "open" /\ c.next.until > 0
               /\ c.next.level = IF h.state = "closed" THEN 0 ELSE NextLevel(h.level)
            \/ /\ ~RefusedAt(h, t) /\ ~c.opened /\ c.next.level = h.level
               /\ \/ h.state = "closed" /\ c.next.state = "closed"
                  \/ /\ h.state # "closed" /\ c.next.state = "half-open"
                     /\ \/ c.next.passed = 0
                        \/ h.state = "half-open" /\ c.next.passed = h.passed
  <1> DEFINE g == [h EXCEPT !.count = @ + 1]
             trialFailed == Expired(g, t) \/ g.state = "half-open"
             level == IF trialFailed THEN NextLevel(g.level) ELSE 0
             c == ProviderFailure(h, t)
  <1>1. /\ g \in HashType /\ g.state = h.state /\ g.count = h.count + 1 /\ g.until = h.until
        /\ g.passed = h.passed /\ g.level = h.level
    BY DEF HashType
  <1>2. Expired(g, t) <=> Expired(h, t)
    BY <1>1 DEF Expired
  <1>3. RefusedAt(g, t) <=> RefusedAt(h, t)
    BY <1>1, <1>2 DEF RefusedAt
  <1>4. Expired(h, t) => h.state = "open"
    BY DEF Expired
  <1>5. c = CASE RefusedAt(g, t) -> Store(g)
             [] ~RefusedAt(g, t) /\ g.count >= FailureThreshold -> Opened(g, t, level)
             [] OTHER -> Store(IF Expired(g, t) THEN HalfOpen(g) ELSE g)
    BY DEF ProviderFailure
  <1>6. CASE RefusedAt(g, t)
    <2>1. c = [next |-> g, write |-> TRUE, opened |-> FALSE]
      BY <1>5, <1>6 DEF Store
    <2>2. g = [h EXCEPT !.count = @ + 1]
      OBVIOUS
    <2> HIDE DEF g, c
    <2>3. c \in ChangeType /\ c.next = g /\ c.write /\ ~c.opened
      BY <1>1, <2>1 DEF ChangeType
    <2>4. QED
      <3>1. c.next.count = h.count + 1 /\ RefusedAt(h, t)
        BY <1>1, <1>3, <1>6, <2>3
      <3> QED BY <2>2, <2>3, <3>1 DEF c
  <1>7. CASE ~RefusedAt(g, t) /\ g.count >= FailureThreshold
    <2>1. level \in Nat /\ level = IF h.state = "closed" THEN 0 ELSE NextLevel(h.level)
      <3>1. trialFailed <=> h.state # "closed"
        BY <1>1, <1>2, <1>4, <1>7 DEF RefusedAt, HashType
      <3>2. h.level \in Nat
        BY DEF HashType
      <3> QED BY <1>1, <3>1, <3>2, NextLevelIs
    <2> HIDE DEF level
    <2>2. c = Opened(g, t, level)
      BY <1>5, <1>7
    <2>3. t + Window(level) \in Nat /\ t + Window(level) > 0
      BY <2>1, WindowIs
    <2> DEFINE n == [g EXCEPT !.state = "open", !.until = t + Window(level), !.passed = 0,
                              !.level = level]
    <2>4. /\ n \in HashType /\ n.state = "open" /\ n.until > 0 /\ n.level = level
          /\ n.count = h.count + 1
      BY <1>1, <2>1, <2>3 DEF HashType
    <2>5. c = [next |-> n, write |-> TRUE, opened |-> TRUE]
      BY <2>2 DEF Opened
    <2> HIDE DEF n
    <2> QED BY <1>3, <1>7, <2>1, <2>4, <2>5 DEF ChangeType
  <1>8. CASE ~RefusedAt(g, t) /\ ~(g.count >= FailureThreshold)
    <2> DEFINE n == IF Expired(g, t) THEN HalfOpen(g) ELSE g
    <2>1. c = [next |-> n, write |-> TRUE, opened |-> FALSE]
      BY <1>5, <1>8 DEF Store
    <2>2. n \in HashType /\ n.count = h.count + 1 /\ n.level = h.level
      BY <1>1 DEF HashType, HalfOpen
    <2>3. \/ h.state = "closed" /\ n.state = "closed"
          \/ h.state # "closed" /\ n.state = "half-open"
             /\ (n.passed = 0 \/ (h.state = "half-open" /\ n.passed = h.passed))
      <3>1. CASE Expired(g, t)
        <4>1. n = HalfOpen(g) /\ h.state = "open"
          BY <1>2, <1>4, <3>1
        <4>2. HalfOpen(g).state = "half-open" /\ HalfOpen(g).passed = 0
          BY <1>1 DEF HalfOpen, HashType
        <4> HIDE DEF n, g
        <4> QED BY <4>1, <4>2
      <3>2. CASE ~Expired(g, t)
        <4>1. h.state # "open"
          BY <1>1, <1>8, <3>2 DEF RefusedAt
        <4>2. n.state = h.state /\ n.passed = h.passed
          BY <1>1, <3>2
        <4> HIDE DEF n, g
        <4> QED BY <4>1, <4>2 DEF HashType
      <3> QED BY <3>1, <3>2
    <2> HIDE DEF n
    <2> QED BY <1>3, <1>8, <2>1, <2>2, <2>3 DEF ChangeType
  <1> QED BY <1>6, <1>7, <1>8

LEMMA ProviderSuccessSays ==
  ASSUME NEW h \in HashType, NEW t \in Nat
  PROVE  LET c == ProviderSuccess(h, t) IN
         /\ c \in ChangeType /\ ~c.opened
         /\ RefusedAt(h, t) => c.next = h /\ ~c.write
         /\ \/ ~c.write /\ c.next = h /\ (h.state = "closed" \/ RefusedAt(h, t))
            \/ c.write /\ c.next = Closed
            \/ /\ c.write /\ h.state # "closed" /\ c.next.state = "half-open"
               /\ c.next.count = h.count /\ c.next.level = h.level
               /\ c.next.passed < SuccessThreshold
               /\ c.next.passed = IF h.state = "open" THEN 1 ELSE h.passed + 1
            \/ c.write /\ h.state = "closed" /\ c.next.state = "closed" /\ c.next.count = 0
  <1> DEFINE g == IF Expired(h, t) THEN HalfOpen(h) ELSE h
             c == ProviderSuccess(h, t)
  <1>1. /\ g \in HashType /\ g.count = h.count /\ g.level = h.level
        /\ Expired(h, t) => h.state = "open" /\ g.state = "half-open" /\ g.passed = 0
        /\ ~Expired(h, t) => g = h
    BY DEF HashType, HalfOpen, Expired
  <1>2. c = CASE g.state = "half-open" ->
                   IF g.passed + 1 >= SuccessThreshold THEN Store(Closed)
                   ELSE Store([g EXCEPT !.passed = @ + 1])
              [] g.state = "closed" /\ (g.count > 0 \/ g.level > 0) ->
                   Store([g EXCEPT !.count = 0, !.level = 0])
              [] OTHER -> Keep(g)
    BY DEF ProviderSuccess
  <1>3. Closed \in HashType /\ Closed.state = "closed"
    BY DEF Closed, HashType
  <1> HIDE DEF g
  <1>4. CASE g.state = "half-open" /\ g.passed + 1 >= SuccessThreshold
    <2>1. c = [next |-> Closed, write |-> TRUE, opened |-> FALSE]
      BY <1>2, <1>4 DEF Store
    <2>2. ~RefusedAt(h, t)
      BY <1>1, <1>4 DEF RefusedAt
    <2> QED BY <1>3, <2>1, <2>2 DEF ChangeType
  <1>5. CASE g.state = "half-open" /\ ~(g.passed + 1 >= SuccessThreshold)
    <2> DEFINE n == [g EXCEPT !.passed = @ + 1]
    <2>1. c = [next |-> n, write |-> TRUE, opened |-> FALSE]
      BY <1>2, <1>5 DEF Store
    <2>2. /\ n \in HashType /\ n.state = "half-open" /\ n.count = h.count /\ n.level = h.level
          /\ n.passed = g.passed + 1 /\ n.passed < SuccessThreshold
      BY <1>1, <1>5, CircuitAssumption DEF HashType
    <2>3. ~RefusedAt(h, t) /\ h.state # "closed"
          /\ g.passed + 1 = IF h.state = "open" THEN 1 ELSE h.passed + 1
      BY <1>1, <1>5 DEF RefusedAt, HashType
    <2> HIDE DEF n
    <2> QED BY <2>1, <2>2, <2>3 DEF ChangeType
  <1>6. CASE g.state = "closed" /\ (g.count > 0 \/ g.level > 0)
    <2> DEFINE n == [g EXCEPT !.count = 0, !.level = 0]
    <2>1. c = [next |-> n, write |-> TRUE, opened |-> FALSE]
      BY <1>2, <1>6 DEF Store
    <2>2. n \in HashType /\ n.state = "closed" /\ n.count = 0
      BY <1>1, <1>6 DEF HashType
    <2>3. ~RefusedAt(h, t) /\ h.state = "closed"
      BY <1>1, <1>6 DEF RefusedAt
    <2> HIDE DEF n
    <2> QED BY <2>1, <2>2, <2>3 DEF ChangeType
  <1>7. CASE g.state # "half-open" /\ ~(g.state = "closed" /\ (g.count > 0 \/ g.level > 0))
    <2>1. c = [next |-> g, write |-> FALSE, opened |-> FALSE]
      BY <1>2, <1>7 DEF Keep
    <2>2. g = h /\ (h.state = "closed" \/ RefusedAt(h, t))
      BY <1>1, <1>7 DEF RefusedAt, HashType
    <2> QED BY <1>1, <2>1, <2>2 DEF ChangeType
  <1> QED BY <1>4, <1>5, <1>6, <1>7

LEMMA OtherChanges ==
  ASSUME NEW h \in HashType, NEW t \in Nat
  PROVE  /\ LET c == ForceClosed(h) IN
              c \in ChangeType /\ ~c.opened /\ c.next = Closed /\ (~c.write => h = Closed)
         /\ LET c == EndpointFailure(h, t) IN
              c \in ChangeType /\ c.write /\ c.next.count = h.count + 1
         /\ LET c == EndpointSuccess(h) IN
              /\ c \in ChangeType /\ ~c.opened
              /\ IF c.write THEN c.next.count = 0 ELSE c.next = h
  <1>1. Closed \in HashType /\ Closed.count = 0
    BY DEF Closed, HashType
  <1>2. LET c == ForceClosed(h) IN
          c \in ChangeType /\ ~c.opened /\ c.next = Closed /\ (~c.write => h = Closed)
    BY <1>1 DEF ForceClosed, Keep, Store, ChangeType
  <1>3. LET c == EndpointFailure(h, t) IN
          c \in ChangeType /\ c.write /\ c.next.count = h.count + 1
    <2> DEFINE g == [h EXCEPT !.count = @ + 1]
               n == [g EXCEPT !.state = "open", !.until = t + Base, !.passed = 0]
    <2>0. t + Base \in Nat /\ h.count + 1 \in Nat
      BY CircuitAssumption DEF HashType
    <2>a. g \in HashType /\ g.count = h.count + 1
      BY <2>0 DEF HashType
    <2>b. n \in HashType /\ n.count = g.count
      BY <2>0, <2>a DEF HashType
    <2>1. /\ g \in HashType /\ g.count = h.count + 1
          /\ n \in HashType /\ n.count = h.count + 1
      BY <2>a, <2>b
    <2>2. EndpointFailure(h, t) \in {[next |-> n, write |-> TRUE, opened |-> TRUE],
                                     [next |-> g, write |-> TRUE, opened |-> FALSE]}
      BY DEF EndpointFailure, Store
    <2> DEFINE c == EndpointFailure(h, t)
    <2> HIDE DEF g, n, c
    <2>c. /\ [next |-> n, write |-> TRUE, opened |-> TRUE] \in ChangeType
          /\ [next |-> g, write |-> TRUE, opened |-> FALSE] \in ChangeType
      BY <2>1 DEF ChangeType
    <2>d. c \in ChangeType
      BY <2>2, <2>c DEF c
    <2>3. c \in ChangeType /\ c.write /\ c.next \in {n, g}
      BY <2>2, <2>d DEF c
    <2> QED BY <2>1, <2>3 DEF c
  <1>4. LET c == EndpointSuccess(h) IN
          /\ c \in ChangeType /\ ~c.opened
          /\ IF c.write THEN c.next.count = 0 ELSE c.next = h
    <2> DEFINE n == [h EXCEPT !.count = 0, !.until = 0]
    <2>1. n \in HashType /\ n.count = 0
      BY DEF HashType
    <2>2. EndpointSuccess(h) \in {[next |-> Closed, write |-> TRUE, opened |-> FALSE],
                                  [next |-> n, write |-> TRUE, opened |-> FALSE],
                                  [next |-> h, write |-> FALSE, opened |-> FALSE]}
      BY DEF EndpointSuccess, Store, Keep
    <2> DEFINE c == EndpointSuccess(h)
    <2> HIDE DEF n, c
    <2>a. /\ [next |-> Closed, write |-> TRUE, opened |-> FALSE] \in ChangeType
          /\ [next |-> n, write |-> TRUE, opened |-> FALSE] \in ChangeType
          /\ [next |-> h, write |-> FALSE, opened |-> FALSE] \in ChangeType
      BY <1>1, <2>1 DEF ChangeType
    <2>b. c \in ChangeType
      BY <2>2, <2>a DEF c
    <2>3. c \in ChangeType /\ ~c.opened
      BY <2>2, <2>b DEF c
    <2>4. IF c.write THEN c.next \in {Closed, n} ELSE c.next = h
      BY <2>2 DEF c
    <2> QED BY <1>1, <2>1, <2>3, <2>4 DEF c
  <1> QED BY <1>2, <1>3, <1>4

-----------------------------------------------------------------------------
(* A write that was computed from the hash it replaces. *)

LEMMA ChangeSays ==
  ASSUME CircuitTypeOK, NEW j \in JobType, j.op \in {"failure", "success"}, NEW t \in Nat
  PROVE  LET c == ChangeAt(j, hash, t) IN
         /\ c \in ChangeType
         /\ j.op = "success" => ~c.opened
         /\ ~c.write => c.next = hash /\ ~c.opened
         /\ \/ c.next.count = 0 \/ (j.op = "failure" /\ c.next.count = hash.count + 1)
            \/ (j.op = "success" /\ c.next.count = hash.count)
  <1>h. hash \in HashType /\ hash.count \in Nat
    BY DEF CircuitTypeOK, HashType
  <1>z. Closed.count = 0
    BY DEF Closed
  <1> DEFINE c == ChangeAt(j, hash, t)
  <1>1. CASE tier = "provider" /\ ~j.on
    <2>1. c = ForceClosed(hash)
      BY <1>1 DEF ChangeAt
    <2> HIDE DEF c
    <2> QED BY <1>h, <1>z, <2>1, OtherChanges DEF c
  <1>2. CASE tier = "provider" /\ j.on /\ j.op = "failure"
    <2>1. c = ProviderFailure(hash, t)
      BY <1>2 DEF ChangeAt
    <2> HIDE DEF c
    <2> QED BY <1>h, <1>2, <2>1, ProviderFailureSays DEF c
  <1>3. CASE tier = "provider" /\ j.on /\ j.op = "success"
    <2>1. c = ProviderSuccess(hash, t)
      BY <1>3 DEF ChangeAt
    <2> HIDE DEF c
    <2> QED BY <1>h, <1>z, <1>3, <2>1, ProviderSuccessSays DEF c
  <1>4. CASE tier = "endpoint" /\ j.op = "failure"
    <2>1. c = EndpointFailure(hash, t)
      BY <1>4 DEF ChangeAt
    <2> HIDE DEF c
    <2> QED BY <1>h, <1>4, <2>1, OtherChanges DEF c
  <1>5. CASE tier = "endpoint" /\ j.op = "success"
    <2>1. c = EndpointSuccess(hash)
      BY <1>5 DEF ChangeAt
    <2> HIDE DEF c
    <2> QED BY <1>h, <1>5, <2>1, OtherChanges DEF c
  <1> QED BY <1>1, <1>2, <1>3, <1>4, <1>5 DEF CircuitTypeOK, JobType

\* What the history says of the hash stays true behind a write.
LEMMA WriteKeeps ==
  ASSUME CircuitInv, NEW w \in Writers, Write(w), tier' = tier,
         job[w].phase = "read", ~job[w].dirty
  PROVE  /\ hash' \in HashType /\ tally' \in Nat /\ streak' \in Nat /\ windows' \in Nat
         /\ FailuresCounted' /\ TrialsOK'
  <1> DEFINE j == job[w]
             c == job[w].change
             h == job[w].change.next
  <1>t. /\ tier \in {"provider", "endpoint"} /\ hash \in HashType
        /\ tally \in Nat /\ streak \in Nat /\ windows \in Nat /\ j \in JobType
    BY DEF CircuitInv, CircuitTypeOK
  <1>o. j.op \in {"failure", "success"}
    BY DEF CircuitInv, JobOK
  <1>1. PICK t \in Nat : (tier = "provider" => t = j.at) /\ c = ChangeAt(j, hash, t)
    BY DEF CircuitInv, JobOK
  <1>2. /\ c \in ChangeType
        /\ j.op = "success" => ~c.opened
        /\ ~c.write => h = hash /\ ~c.opened
        /\ \/ h.count = 0 \/ (j.op = "failure" /\ h.count = hash.count + 1)
           \/ (j.op = "success" /\ h.count = hash.count)
    BY <1>t, <1>o, <1>1, ChangeSays DEF CircuitInv
  <1>3. h \in HashType /\ c.opened \in BOOLEAN
    BY <1>2 DEF ChangeType
  <1>4. /\ hash' = h
        /\ tally' = CASE j.op = "failure" /\ h.count > 0 -> tally + 1
                      [] h.count = 0 -> 0
                      [] OTHER -> tally
        /\ streak' = CASE j.op = "failure" -> 0
                       [] j.op = "success" /\ hash.state # "closed" /\ j.at > hash.until -> streak + 1
                       [] OTHER -> streak
        /\ windows' = CASE c.opened -> windows + 1
                        [] ~c.opened /\ h.state = "closed" -> 0
                        [] OTHER -> windows
    BY DEF Write, Judge
  <1>5. tally' \in Nat /\ hash'.count = tally'
    <2>1. hash.count = tally
      BY DEF CircuitInv, FailuresCounted
    <2>2. h.count \in Nat
      BY <1>3 DEF HashType
    <2> HIDE DEF j, h
    <2>3. CASE j.op = "failure"
      BY <1>t, <1>2, <1>4, <2>1, <2>2, <2>3
    <2>4. CASE j.op = "success"
      BY <1>t, <1>2, <1>4, <2>1, <2>2, <2>4
    <2> QED BY <1>o, <2>3, <2>4
  <1>6. streak' \in Nat
    <2> HIDE DEF j
    <2>1. CASE j.op = "failure"
      BY <1>4, <2>1
    <2>2. CASE j.op = "success" /\ hash.state # "closed" /\ j.at > hash.until
      BY <1>t, <1>4, <2>2
    <2>3. CASE j.op = "success" /\ ~(hash.state # "closed" /\ j.at > hash.until)
      BY <1>t, <1>4, <2>3
    <2> QED BY <1>o, <2>1, <2>2, <2>3
  <1>7. windows' \in Nat
    BY <1>t, <1>3, <1>4
  <1>8. TrialsOK'
    <2> SUFFICES ASSUME tier = "provider"
                 PROVE  /\ h.state = "closed" => windows' = 0
                        /\ h.state # "closed" => windows' > 0
                             /\ h.level = Min({windows' - 1, MaxOpenCount})
                        /\ h.state = "open" => streak' = 0 /\ h.until > 0
                        /\ h.state = "half-open" => streak' <= h.passed /\ h.passed < SuccessThreshold
      BY <1>4 DEF TrialsOK
    <2>0. /\ hash.state = "closed" => windows = 0
          /\ hash.state # "closed" => windows > 0 /\ hash.level = Min({windows - 1, MaxOpenCount})
          /\ hash.state = "open" => streak = 0 /\ hash.until > 0
          /\ hash.state = "half-open" => streak <= hash.passed /\ hash.passed < SuccessThreshold
      BY DEF CircuitInv, TrialsOK
    <2>t. c = ChangeAt(j, hash, j.at) /\ j.at \in Nat
      BY <1>1
    <2>1. CASE ~j.on
      <3>1. c = ForceClosed(hash)
        BY <2>1, <2>t DEF ChangeAt
      <3>2. h = Closed /\ ~c.opened
        BY <1>t, <3>1, OtherChanges
      <3>3. h.state = "closed"
        BY <3>2 DEF Closed
      <3> QED BY <1>4, <3>2, <3>3
    <2>2. CASE j.on /\ j.op = "failure"
      <3>1. c = ProviderFailure(hash, j.at)
        BY <2>2, <2>t DEF ChangeAt
      <3>2. streak' = 0
        BY <1>4, <2>2
      <3>3. CASE RefusedAt(hash, j.at) /\ ~c.opened /\ h = [hash EXCEPT !.count = @ + 1]
        <4>1. h.state = hash.state /\ h.level = hash.level /\ h.until = hash.until
              /\ hash.state = "open"
          BY <1>t, <3>3 DEF HashType, RefusedAt
        <4>2. windows' = windows
          BY <1>4, <3>3, <4>1
        <4> QED BY <2>0, <3>2, <4>1, <4>2
      <3>4. CASE /\ c.opened /\ h.state = "open" /\ h.until > 0
                 /\ h.level = IF hash.state = "closed" THEN 0 ELSE NextLevel(hash.level)
        <4>1. windows' = windows + 1
          BY <1>4, <3>4
        <4>2. h.level = Min({windows, MaxOpenCount})
          <5>0. hash.level \in Nat /\ Min({windows, MaxOpenCount}) =
                  IF windows <= MaxOpenCount THEN windows ELSE MaxOpenCount
            BY <1>t, CircuitAssumption, MinOfTwo DEF HashType
          <5>1. CASE hash.state = "closed"
            BY <2>0, <3>4, <5>0, <5>1, CircuitAssumption
          <5>2. CASE hash.state # "closed"
            <6>1. windows - 1 \in Int /\ windows > 0
              BY <1>t, <2>0, <5>2
            <6>2. hash.level = IF windows - 1 <= MaxOpenCount THEN windows - 1 ELSE MaxOpenCount
              BY <2>0, <5>2, <6>1, CircuitAssumption, MinOfTwo
            <6>3. NextLevel(hash.level) = IF hash.level + 1 <= MaxOpenCount THEN hash.level + 1
                                          ELSE MaxOpenCount
              BY <5>0, NextLevelIs
            <6> HIDE DEF h
            <6> QED BY <1>t, <3>4, <5>0, <5>2, <6>1, <6>2, <6>3, CircuitAssumption
          <5> QED BY <5>1, <5>2
        <4>3. windows' > 0 /\ windows' - 1 = windows
          BY <1>t, <4>1
        <4> QED BY <3>2, <3>4, <4>2, <4>3
      <3>5. CASE ~c.opened /\ hash.state = "closed" /\ h.state = "closed"
        BY <1>4, <3>5
      <3>6. CASE /\ ~c.opened /\ h.level = hash.level /\ hash.state # "closed"
                 /\ h.state = "half-open"
                 /\ h.passed = 0 \/ (hash.state = "half-open" /\ h.passed = hash.passed)
        <4>1. windows' = windows
          BY <1>4, <3>6
        <4>2. h.passed \in Nat /\ h.passed < SuccessThreshold
          BY <1>3, <2>0, <3>6, CircuitAssumption DEF HashType
        <4>3. streak' <= h.passed
          BY <3>2, <4>2
        <4> QED BY <2>0, <3>6, <4>1, <4>2, <4>3
      <3> QED BY <1>t, <2>t, <3>1, <3>3, <3>4, <3>5, <3>6, ProviderFailureSays
    <2>3. CASE j.on /\ j.op = "success"
      <3>1. c = ProviderSuccess(hash, j.at)
        BY <2>3, <2>t DEF ChangeAt
      <3>2. ~c.opened
        BY <1>2, <2>3
      <3>3. CASE h = hash /\ (hash.state = "closed" \/ RefusedAt(hash, j.at))
        <4>1. windows' = windows
          BY <1>4, <2>0, <3>2, <3>3
        <4>2. hash.state # "closed" => ~(j.at > hash.until)
          BY <2>0, <3>3 DEF RefusedAt, Expired
        <4>3. streak' = streak
          BY <1>4, <2>3, <4>2
        <4>4. hash.state # "closed" => hash.state = "open"
          BY <3>3 DEF RefusedAt
        <4> QED BY <2>0, <3>3, <4>1, <4>3, <4>4
      <3>4. CASE h.state = "closed"
        BY <1>4, <3>2, <3>4
      <3>5. CASE /\ hash.state # "closed" /\ h.state = "half-open" /\ h.level = hash.level
                 /\ h.passed < SuccessThreshold
                 /\ h.passed = IF hash.state = "open" THEN 1 ELSE hash.passed + 1
        <4>1. windows' = windows
          BY <1>4, <3>2, <3>5
        <4>2. streak' \in {streak, streak + 1}
          BY <1>4, <2>3
        <4>3. hash.state \in {"open", "half-open"} /\ hash.passed \in Nat
          BY <1>t, <3>5 DEF HashType
        <4>4. streak' <= h.passed
          <5>1. CASE hash.state = "open"
            BY <2>0, <3>5, <4>2, <5>1
          <5>2. CASE hash.state = "half-open"
            BY <1>t, <2>0, <3>5, <4>2, <4>3, <5>2
          <5> QED BY <4>3, <5>1, <5>2
        <4> QED BY <2>0, <3>5, <4>1, <4>4
      <3>6. Closed.state = "closed"
        BY DEF Closed
      <3> QED BY <1>t, <2>t, <3>1, <3>3, <3>4, <3>5, <3>6, ProviderSuccessSays
    <2> QED BY <1>o, <2>1, <2>2, <2>3
  <1> QED BY <1>3, <1>4, <1>5, <1>6, <1>7, <1>8 DEF FailuresCounted

-----------------------------------------------------------------------------
(* The steps *)

\* Who owes an alert.
Owing == {w \in Writers : job[w].phase = "alert"}

LEMMA OwingIs == AlertOncePerOpening <=> owed = Cardinality(Owing)
  BY DEF AlertOncePerOpening, Owing

LEMMA OwingFinite == IsFiniteSet(Owing) /\ Cardinality(Owing) \in Nat
  BY CircuitAssumption, FS_Subset, FS_CardinalityType DEF Owing

\* A step that writes nothing and changes one writer.
LEMMA OneWriter ==
  ASSUME CircuitInv, NEW w \in Writers, NEW j \in JobType, job' = [job EXCEPT ![w] = j],
         UNCHANGED <<tier, hash, now, enabled, tally, windows>>,
         streak' \in Nat, TrialsOK', JobOK(j),
         job[w].phase = "alert" <=> j.phase = "alert", owed' = owed
  PROVE  CircuitInv'
  <1>1. CircuitTypeOK'
    BY DEF CircuitInv, CircuitTypeOK
  <1>2. FailuresCounted'
    BY DEF CircuitInv, FailuresCounted
  <1>3. /\ job \in [Writers -> JobType] /\ job'[w] = j
        /\ \A v \in Writers \ {w} : job'[v] = job[v]
    BY DEF CircuitInv, CircuitTypeOK
  <1>a. JobOK(job[w])'
    BY <1>3 DEF JobOK, ChangeAt
  <1>b. ASSUME NEW v \in Writers \ {w} PROVE JobOK(job[v])'
    BY <1>3 DEF CircuitInv, JobOK, ChangeAt
  <1>4. \A v \in Writers : JobOK(job[v])'
    BY <1>a, <1>b
  <1>5. AlertOncePerOpening'
    <2>1. Owing' = Owing
      BY <1>3 DEF Owing
    <2> QED BY <2>1 DEF CircuitInv, AlertOncePerOpening, Owing
  <1> QED BY <1>1, <1>2, <1>4, <1>5 DEF CircuitInv

LEMMA TrialsRest ==
  ASSUME TrialsOK, UNCHANGED <<tier, hash, windows, streak>>
  PROVE  TrialsOK'
  BY DEF TrialsOK

LEMMA IdleIs == Idle \in JobType /\ Idle.phase = "idle" /\ Idle.at = 0
  <1>1. Closed \in HashType
    BY DEF Closed, HashType
  <1>2. Keep(Closed) \in ChangeType
    BY <1>1 DEF Keep, ChangeType
  <1> QED BY <1>2 DEF Idle, JobType

LEMMA BeginKeeps ==
  ASSUME CircuitInv, NEW w \in Writers, NEW op \in {"failure", "success"}, Begin(w, op)
  PROVE  CircuitInv'
  <1> DEFINE j == [Idle EXCEPT !.phase = "watch", !.op = op, !.at = now, !.on = enabled,
                               !.attempt = 1]
  <1>t. now \in Nat /\ enabled \in BOOLEAN
    BY DEF CircuitInv, CircuitTypeOK
  <1>1. j \in JobType /\ j.phase = "watch" /\ j.op = op /\ j.at = now
    BY <1>t, IdleIs DEF JobType
  <1> HIDE DEF j
  <1>2. job' = [job EXCEPT ![w] = j] /\ UNCHANGED <<tier, hash, now, enabled, history>>
    BY DEF Begin, j
  <1>3. JobOK(j)
    BY <1>t, <1>1 DEF JobOK
  <1>4. job[w].phase = "idle"
    BY DEF Begin
  <1>5. TrialsOK'
    BY <1>2, TrialsRest DEF history, CircuitInv
  <1> QED
    BY <1>1, <1>2, <1>3, <1>4, <1>5, OneWriter DEF history, CircuitInv, CircuitTypeOK

LEMMA ReadKeeps ==
  ASSUME CircuitInv, NEW w \in Writers, Read(w)
  PROVE  CircuitInv'
  <1> DEFINE c == Change(w)
             t == IF tier = "provider" THEN job[w].at ELSE now
  <1>t. /\ job[w] \in JobType /\ now \in Nat /\ streak \in Nat /\ hash \in HashType /\ JobOK(job[w])
    BY DEF CircuitInv, CircuitTypeOK
  <1>0. /\ job[w].phase = "watch" /\ job[w].op \in {"failure", "success"}
        /\ UNCHANGED <<tier, hash, now, enabled, tally, windows, owed>>
    BY <1>t DEF Read, JobOK
  <1>1. t \in Nat /\ job[w].at \in Nat
    BY <1>t DEF JobType
  <1>2. c = ChangeAt(job[w], hash, t)
    BY DEF Change, ChangeAt
  <1>3. c \in ChangeType /\ (~c.write => c.next = hash /\ ~c.opened)
    BY <1>t, <1>0, <1>1, <1>2, ChangeSays DEF CircuitInv
  <1>4. CASE c.write
    <2> DEFINE j == [job[w] EXCEPT !.phase = "read", !.dirty = FALSE, !.change = c]
    <2>1. /\ j \in JobType /\ j.phase = "read" /\ j.op = job[w].op /\ j.at = job[w].at
          /\ j.on = job[w].on /\ j.change = c
      BY <1>t, <1>3 DEF JobType
    <2>2. job' = [job EXCEPT ![w] = j] /\ UNCHANGED streak
      BY <1>4 DEF Read, CircuitInv, CircuitTypeOK
    <2> HIDE DEF j
    <2>3. ChangeAt(j, hash, t) = ChangeAt(job[w], hash, t)
      BY <2>1 DEF ChangeAt
    <2>4. JobOK(j)
      <3>1. tier = "provider" => t = j.at
        BY <2>1
      <3>2. j.at <= now /\ j.op \in {"failure", "success"}
        BY <1>t, <1>0, <2>1 DEF JobOK
      <3>3. j.change = ChangeAt(j, hash, t)
        BY <1>2, <2>1, <2>3
      <3> HIDE DEF c, t
      <3> QED BY <1>1, <3>1, <3>2, <3>3 DEF JobOK
    <2>5. TrialsOK'
      BY <1>0, <2>2, TrialsRest DEF CircuitInv
    <2> QED BY <1>t, <1>0, <2>1, <2>2, <2>4, <2>5, OneWriter
  <1>5. CASE ~c.write
    <2>1. job' = [job EXCEPT ![w] = Idle] /\ Judge(w, job[w].at)
      BY <1>5 DEF Read
    <2>2. streak' \in Nat
      BY <1>t, <1>0, <2>1 DEF Judge
    <2>3. TrialsOK'
      <3> HIDE DEF c, t
      <3> SUFFICES ASSUME tier = "provider" PROVE TrialsOK'
        BY <1>0 DEF TrialsOK
      <3> USE DEF t
      <3>1. t = job[w].at
        OBVIOUS
      <3>2. job[w].on => job[w].op = "success"
        <4>1. CASE job[w].on /\ job[w].op = "failure"
          <5>1. c = ProviderFailure(hash, t)
            BY <1>2, <4>1 DEF ChangeAt
          <5> HIDE DEF c, t
          <5> QED BY <1>t, <1>1, <1>5, <5>1, ProviderFailureSays
        <4> QED BY <1>0, <4>1
      <3>3. hash.state = "closed" \/ (job[w].op = "success" /\ RefusedAt(hash, t))
        <4>1. CASE job[w].on
          <5>1. c = ProviderSuccess(hash, t)
            BY <1>2, <3>2, <4>1 DEF ChangeAt
          <5> HIDE DEF c, t
          <5> QED BY <1>t, <1>1, <1>5, <3>2, <4>1, <5>1, ProviderSuccessSays
        <4>2. CASE ~job[w].on
          <5>1. c = ForceClosed(hash)
            BY <1>2, <4>2 DEF ChangeAt
          <5>2. hash = Closed
            BY <1>t, <1>5, <5>1, OtherChanges
          <5> QED BY <5>2 DEF Closed
        <4> QED BY <1>t, <4>1, <4>2 DEF JobType
      <3>4. CASE hash.state = "closed"
        BY <1>0, <3>4 DEF CircuitInv, TrialsOK
      <3>5. CASE job[w].op = "success" /\ RefusedAt(hash, t)
        <4>1. hash.until > 0 /\ hash.state = "open"
          BY <3>5 DEF RefusedAt, CircuitInv, TrialsOK
        <4>2. ~(job[w].at > hash.until)
          BY <3>5, <4>1 DEF RefusedAt, Expired
        <4>3. streak' = streak
          BY <2>1, <3>5, <4>2 DEF Judge
        <4> QED BY <1>0, <4>3, TrialsRest DEF CircuitInv
      <3> QED BY <3>3, <3>4, <3>5
    <2>4. JobOK(Idle)
      BY <1>t, IdleIs DEF JobOK
    <2> QED BY <1>0, <2>1, <2>2, <2>3, <2>4, IdleIs, OneWriter
  <1> QED BY <1>4, <1>5

\* Whatever a commit does to its writer, whoever has read must read again.
LEMMA CommitKeeps ==
  ASSUME CircuitInv, NEW w \in Writers, Commit(w) \/ LoseReply(w)
  PROVE  CircuitInv'
  <1>t. job \in [Writers -> JobType] /\ now \in Nat /\ owed = Cardinality(Owing)
    BY OwingIs DEF CircuitInv, CircuitTypeOK
  <1>0. /\ job[w].phase = "read" /\ ~job[w].dirty /\ Write(w)
        /\ UNCHANGED <<tier, now, enabled>>
    BY DEF Commit, LoseReply
  <1>1. PICK j \in {Idle, [job[w] EXCEPT !.phase = "alert"]} :
          /\ job' = [Touch(job, w) EXCEPT ![w] = j]
          /\ owed' = IF j = Idle THEN owed ELSE owed + 1
    <2>1. [job[w] EXCEPT !.phase = "alert"] # Idle
      BY <1>t, IdleIs DEF JobType
    <2>2. Touch(job, w)[w] = job[w]
      BY DEF Touch
    <2>3. CASE LoseReply(w)
      BY <2>3 DEF LoseReply
    <2>4. CASE Commit(w) /\ job[w].change.opened
      <3>1. job' = [Touch(job, w) EXCEPT ![w] = [job[w] EXCEPT !.phase = "alert"]]
        BY <2>2, <2>4 DEF Commit
      <3>2. owed' = owed + 1
        BY <2>4 DEF Commit, OneIf
      <3> QED BY <2>1, <3>1, <3>2
    <2>5. CASE Commit(w) /\ ~job[w].change.opened
      <3>1. owed' = owed + 0
        BY <2>5 DEF Commit, OneIf
      <3>2. owed \in Nat
        BY <1>t, OwingFinite
      <3>3. job' = [Touch(job, w) EXCEPT ![w] = Idle]
        BY <2>2, <2>5 DEF Commit
      <3>4. owed' = owed
        BY <3>1, <3>2
      <3> QED BY <3>3, <3>4
    <2> QED BY <2>3, <2>4, <2>5
  <1>2. j \in JobType /\ (j.phase = "idle" \/ j.phase = "alert") /\ j.at <= now
    <2>1. [job[w] EXCEPT !.phase = "alert"] \in JobType
      BY <1>t DEF JobType
    <2>2. [job[w] EXCEPT !.phase = "alert"].phase = "alert"
          /\ [job[w] EXCEPT !.phase = "alert"].at = job[w].at
      BY <1>t DEF JobType
    <2>3. job[w].at <= now
      BY DEF CircuitInv, JobOK
    <2>4. now \in Nat
      BY <1>t
    <2>5. CASE j = Idle
      BY <2>4, <2>5, IdleIs
    <2>6. CASE j = [job[w] EXCEPT !.phase = "alert"]
      BY <2>1, <2>2, <2>3, <2>6
    <2> QED BY <2>5, <2>6
  <1>3. /\ job' \in [Writers -> JobType] /\ job'[w] = j
        /\ \A v \in Writers \ {w} :
             job'[v] = IF job[v].phase = "read" THEN [job[v] EXCEPT !.dirty = TRUE] ELSE job[v]
    <2>a. ASSUME NEW v \in Writers PROVE [job[v] EXCEPT !.dirty = TRUE] \in JobType
      <3>1. job[v] \in JobType
        BY <1>t
      <3> QED BY <3>1 DEF JobType
    <2>1. Touch(job, w) \in [Writers -> JobType]
      BY <1>t, <2>a DEF Touch
    <2> QED BY <1>1, <1>2, <2>1 DEF Touch
  <1>4. \A v \in Writers \ {w} :
          /\ job'[v].phase = job[v].phase /\ job'[v].at = job[v].at /\ job'[v].op = job[v].op
          /\ job'[v].phase = "read" => job'[v].dirty
    BY <1>t, <1>3 DEF JobType
  <1>5. /\ hash' \in HashType /\ tally' \in Nat /\ streak' \in Nat /\ windows' \in Nat
        /\ FailuresCounted' /\ TrialsOK'
    BY <1>0, WriteKeeps
  <1>6. CircuitTypeOK'
    BY <1>0, <1>3, <1>5 DEF CircuitInv, CircuitTypeOK
  <1>7. \A v \in Writers : JobOK(job[v])'
    <2>1. JobOK(job[w])'
      BY <1>0, <1>2, <1>3 DEF JobOK
    <2>2. ASSUME NEW v \in Writers \ {w} PROVE JobOK(job[v])'
      BY <1>0, <1>4 DEF JobOK, CircuitInv
    <2> QED BY <2>1, <2>2
  <1>8. AlertOncePerOpening'
    <2>1. CASE j = Idle
      <3>1. Owing' = Owing
        BY <1>0, <1>3, <1>4, <2>1, IdleIs DEF Owing
      <3> QED BY <1>t, <1>1, <2>1, <3>1 DEF AlertOncePerOpening, Owing
    <2>2. CASE j # Idle
      <3>1. j.phase = "alert"
        BY <1>t, <1>1, <2>2 DEF JobType
      <3>2. Owing' = Owing \cup {w} /\ w \notin Owing
        BY <1>0, <1>3, <1>4, <3>1 DEF Owing
      <3>3. Cardinality(Owing \cup {w}) = Cardinality(Owing) + 1
        BY <3>2, OwingFinite, FS_AddElement
      <3> QED BY <1>t, <1>1, <2>2, <3>2, <3>3 DEF AlertOncePerOpening, Owing
    <2> QED BY <2>1, <2>2
  <1> QED BY <1>5, <1>6, <1>7, <1>8 DEF CircuitInv

LEMMA ConflictKeeps ==
  ASSUME CircuitInv, NEW w \in Writers, Conflict(w) \/ Fault(w)
  PROVE  CircuitInv'
  <1>t. job \in [Writers -> JobType] /\ now \in Nat
    BY DEF CircuitInv, CircuitTypeOK
  <1> DEFINE again == [job[w] EXCEPT !.phase = "watch", !.attempt = @ + 1]
  <1>1. /\ again \in JobType /\ again.phase = "watch" /\ again.op = job[w].op
        /\ again.at = job[w].at
    <2>1. job[w] \in JobType /\ job[w].attempt + 1 \in Nat
      BY <1>t DEF JobType
    <2> QED BY <2>1 DEF JobType
  <1> HIDE DEF again
  <1>2. PICK j \in {again, Idle} : /\ job' = [job EXCEPT ![w] = j]
                                   /\ j = again => job[w].phase = "read"
    <2>1. CASE Fault(w)
      <3>1. again # Idle
        BY <1>1, IdleIs
      <3> QED BY <2>1, <3>1 DEF Fault
    <2>2. CASE Conflict(w)
      <3>1. job[w].phase = "read"
        BY <2>2 DEF Conflict
      <3>2. job' = [job EXCEPT ![w] = IF job[w].attempt < MaxRetries THEN again ELSE Idle]
        BY <2>2 DEF Conflict, again
      <3> QED BY <3>1, <3>2
    <2> QED BY <2>1, <2>2
  <1>3. job[w].phase \in {"watch", "read"} /\ UNCHANGED <<tier, hash, now, enabled, history>>
    BY DEF Conflict, Fault
  <1>4. JobOK(j)
    BY <1>t, <1>1, <1>2, IdleIs DEF JobOK, CircuitInv
  <1>5. TrialsOK'
    BY <1>3, TrialsRest DEF history, CircuitInv
  <1> QED
    BY <1>1, <1>2, <1>3, <1>4, <1>5, IdleIs, OneWriter DEF history, CircuitInv, CircuitTypeOK

LEMMA AlertKeeps ==
  ASSUME CircuitInv, NEW w \in Writers, Alert(w)
  PROVE  CircuitInv'
  <1>t. job \in [Writers -> JobType] /\ now \in Nat /\ owed = Cardinality(Owing)
    BY OwingIs DEF CircuitInv, CircuitTypeOK
  <1>0. /\ job[w].phase = "alert" /\ owed' = owed - 1 /\ job' = [job EXCEPT ![w] = Idle]
        /\ UNCHANGED <<tier, hash, now, enabled, tally, streak, windows>>
    BY DEF Alert
  <1>1. /\ job' \in [Writers -> JobType] /\ job'[w] = Idle
        /\ \A v \in Writers \ {w} : job'[v] = job[v]
    BY <1>t, <1>0, IdleIs
  <1>2. CircuitTypeOK' /\ FailuresCounted' /\ TrialsOK'
    BY <1>0, <1>1, TrialsRest DEF CircuitInv, CircuitTypeOK, FailuresCounted
  <1>3. \A v \in Writers : JobOK(job[v])'
    <2>1. JobOK(job[w])'
      BY <1>t, <1>0, <1>1, IdleIs DEF JobOK
    <2>2. ASSUME NEW v \in Writers \ {w} PROVE JobOK(job[v])'
      BY <1>0, <1>1 DEF JobOK, CircuitInv, ChangeAt
    <2> QED BY <2>1, <2>2
  <1>4. AlertOncePerOpening'
    <2>1. Owing' = Owing \ {w} /\ w \in Owing
      BY <1>0, <1>1, IdleIs DEF Owing
    <2>2. Cardinality(Owing \ {w}) = Cardinality(Owing) - 1
      BY <2>1, OwingFinite, FS_RemoveElement
    <2> QED BY <1>t, <1>0, <2>1, <2>2 DEF AlertOncePerOpening, Owing
  <1> QED BY <1>2, <1>3, <1>4 DEF CircuitInv

LEMMA ResetKeeps ==
  ASSUME CircuitInv, Reset
  PROVE  CircuitInv'
  <1>t. job \in [Writers -> JobType]
    BY DEF CircuitInv, CircuitTypeOK
  <1>0. /\ hash' = Closed /\ tally' = 0 /\ streak' = 0 /\ windows' = 0
        /\ UNCHANGED <<tier, now, enabled, owed>>
        /\ job' = [v \in Writers |-> IF job[v].phase = "read" THEN [job[v] EXCEPT !.dirty = TRUE]
                                     ELSE job[v]]
    BY DEF Reset
  <1>1. job' \in [Writers -> JobType]
    BY <1>t, <1>0 DEF JobType
  <1>2. \A v \in Writers :
          /\ job'[v].phase = job[v].phase /\ job'[v].at = job[v].at /\ job'[v].op = job[v].op
          /\ job'[v].phase = "read" => job'[v].dirty
    BY <1>t, <1>0 DEF JobType
  <1>3. Closed \in HashType /\ Closed.state = "closed" /\ Closed.count = 0
    BY DEF Closed, HashType
  <1>4. CircuitTypeOK' /\ FailuresCounted' /\ TrialsOK'
    BY <1>0, <1>1, <1>3 DEF CircuitInv, CircuitTypeOK, FailuresCounted, TrialsOK
  <1>5. \A v \in Writers : JobOK(job[v])'
    BY <1>0, <1>2 DEF JobOK, CircuitInv
  <1>6. AlertOncePerOpening'
    <2>1. Owing' = Owing
      BY <1>2 DEF Owing
    <2> QED BY <1>0, <2>1 DEF CircuitInv, AlertOncePerOpening, Owing
  <1> QED BY <1>4, <1>5, <1>6 DEF CircuitInv

LEMMA RestKeeps ==
  ASSUME CircuitInv, Configure \/ Tick \/ UNCHANGED circuitVars
  PROVE  CircuitInv'
  <1>t. now \in Nat /\ job \in [Writers -> JobType]
    BY DEF CircuitInv, CircuitTypeOK
  <1>0. /\ UNCHANGED <<tier, hash, job, tally, streak, windows, owed>>
        /\ now' \in {now, now + 1}
    BY DEF Configure, Tick, circuitVars, history
  <1>1. enabled' \in BOOLEAN
    BY DEF Configure, Tick, circuitVars, CircuitInv, CircuitTypeOK
  <1>2. CircuitTypeOK' /\ FailuresCounted' /\ TrialsOK' /\ AlertOncePerOpening'
    BY <1>t, <1>0, <1>1, TrialsRest
    DEF CircuitInv, CircuitTypeOK, FailuresCounted, AlertOncePerOpening
  <1>3. ASSUME NEW v \in Writers PROVE JobOK(job[v])'
    <2>1. JobOK(job[v]) /\ job[v].at \in Nat
      BY <1>t DEF CircuitInv, JobType
    <2>2. job[v].at <= now'
      BY <1>t, <1>0, <2>1 DEF JobOK
    <2> QED BY <1>0, <2>1, <2>2 DEF JobOK, ChangeAt
  <1> QED BY <1>2, <1>3 DEF CircuitInv

LEMMA CircuitStarts == CircuitInit => CircuitInv
  <1> SUFFICES ASSUME CircuitInit PROVE CircuitInv
    OBVIOUS
  <1>1. Closed \in HashType /\ Closed.state = "closed" /\ Closed.count = 0
    BY DEF Closed, HashType
  <1>2. CircuitTypeOK /\ FailuresCounted /\ TrialsOK
    BY <1>1, IdleIs, CircuitAssumption
    DEF CircuitInit, CircuitTypeOK, FailuresCounted, TrialsOK
  <1>3. \A w \in Writers : JobOK(job[w])
    BY IdleIs DEF CircuitInit, JobOK
  <1>4. AlertOncePerOpening
    <2>1. Owing = {}
      BY IdleIs DEF CircuitInit, Owing
    <2> QED BY <2>1, FS_EmptySet DEF CircuitInit, AlertOncePerOpening, Owing
  <1> QED BY <1>2, <1>3, <1>4 DEF CircuitInv

LEMMA CircuitSteps == CircuitInv /\ [CircuitNext]_circuitVars => CircuitInv'
  BY BeginKeeps, ReadKeeps, CommitKeeps, ConflictKeeps, AlertKeeps, ResetKeeps, RestKeeps
  DEF CircuitNext

LEMMA CircuitInvSays == CircuitInv => HashTellsHistory
  <1> SUFFICES ASSUME CircuitInv PROVE HashTellsHistory
    OBVIOUS
  <1>1. FailuresCounted /\ AlertOncePerOpening
    BY DEF CircuitInv
  <1>2. LadderCountsTrials
    BY DEF CircuitInv, TrialsOK, LadderCountsTrials
  <1>3. TrialsCloseTheCircuit
    <2> SUFFICES ASSUME tier = "provider", streak >= SuccessThreshold, hash.state # "closed"
                 PROVE  FALSE
      BY DEF TrialsCloseTheCircuit
    <2>1. hash.state \in {"open", "half-open"} /\ hash.passed \in Nat /\ streak \in Nat
      BY DEF CircuitInv, CircuitTypeOK, HashType
    <2> QED BY <2>1, CircuitAssumption DEF CircuitInv, TrialsOK
  <1> QED BY <1>1, <1>2, <1>3 DEF HashTellsHistory

\* The hash in Redis tells what the writers of all instances recorded: no failure is lost,
\* each opening is reported once, each failed trial is one level of the ladder, and enough
\* trials that succeed close the circuit (writer.go changeState and its callers).
THEOREM HashAlwaysTells == CircuitSpec => []HashTellsHistory
  BY CircuitStarts, CircuitSteps, CircuitInvSays, PTL DEF CircuitSpec

\* No outcome that is recorded while a provider is refused moves the end of its window.
THEOREM WindowsAreKept == CircuitSpec => WindowKept
  <1> DEFINE Stays == tier = "provider" /\ RefusedAt(hash, now) /\ hash' # hash =>
               \/ hash'.state = "open" /\ hash'.until = hash.until /\ hash'.level = hash.level
               \/ hash' = Closed /\ (Reset \/ \E w \in Writers : ~job[w].on)
  <1>1. ASSUME CircuitInv, [CircuitNext]_circuitVars PROVE [Stays]_circuitVars
    <2>1. ASSUME NEW w \in Writers, Commit(w) \/ LoseReply(w), tier = "provider",
                 RefusedAt(hash, now), hash' # hash
          PROVE  \/ hash'.state = "open" /\ hash'.until = hash.until /\ hash'.level = hash.level
                 \/ hash' = Closed /\ ~job[w].on
      <3>t. /\ job[w] \in JobType /\ now \in Nat /\ hash \in HashType /\ JobOK(job[w])
            /\ job[w].at \in Nat /\ job[w].on \in BOOLEAN
        BY <1>1 DEF CircuitInv, CircuitTypeOK, JobType
      <3>1. /\ job[w].phase = "read" /\ ~job[w].dirty /\ hash' = job[w].change.next
        BY <2>1 DEF Commit, LoseReply, Write
      <3>2. /\ job[w].change = ChangeAt(job[w], hash, job[w].at) /\ job[w].at <= now
            /\ job[w].op \in {"failure", "success"}
        BY <2>1, <3>t, <3>1 DEF JobOK
      <3>3. RefusedAt(hash, job[w].at)
        BY <2>1, <3>t, <3>2 DEF RefusedAt, Expired, HashType
      <3>4. CASE ~job[w].on
        <4>1. job[w].change = ForceClosed(hash)
          BY <2>1, <3>2, <3>4 DEF ChangeAt
        <4> QED BY <3>t, <3>1, <3>4, <4>1, OtherChanges
      <3>5. CASE job[w].on /\ job[w].op = "failure"
        <4>1. job[w].change = ProviderFailure(hash, job[w].at)
          BY <2>1, <3>2, <3>5 DEF ChangeAt
        <4>2. hash' = [hash EXCEPT !.count = @ + 1]
          BY <3>t, <3>1, <3>3, <4>1, ProviderFailureSays
        <4> QED BY <3>t, <3>3, <4>2 DEF HashType, RefusedAt
      <3>6. CASE job[w].on /\ job[w].op = "success"
        <4>1. job[w].change = ProviderSuccess(hash, job[w].at)
          BY <2>1, <3>2, <3>6 DEF ChangeAt
        <4>2. hash' = hash
          BY <3>t, <3>1, <3>3, <4>1, ProviderSuccessSays
        <4> QED BY <2>1, <4>2
      <3> QED BY <3>t, <3>2, <3>4, <3>5, <3>6
    <2>2. CASE Reset
      BY <2>2 DEF Reset
    <2>3. CASE hash' = hash
      BY <2>3
    <2>4. \/ \E w \in Writers : Commit(w) \/ LoseReply(w)
          \/ Reset
          \/ hash' = hash
      BY <1>1 DEF CircuitNext, Begin, Read, Conflict, Fault, Alert, Configure, Tick, circuitVars
    <2> QED BY <2>1, <2>2, <2>3, <2>4
  <1>2. CircuitInv /\ [CircuitNext]_circuitVars => [Stays]_circuitVars
    BY <1>1
  <1> QED
    BY <1>2, CircuitStarts, CircuitSteps, PTL DEF CircuitSpec, WindowKept
=============================================================================
