---------------------------- MODULE Shutdown_proofs ----------------------------
(* The exit of the process, for any number of requests and settlements: what Drain relies
   on at the front door, what the write queue promises to whoever waits for it, and that
   the exit sequence, which drives both only through their operations, loses nothing that
   it reports as done. *)
EXTENDS Shutdown, FiniteSetTheorems, SequenceTheorems, TLAPS

-----------------------------------------------------------------------------
(* The front door: after Drain reported success, no handler is inside the process and none
   will be. *)

LEMMA InsideFinite == IsFiniteSet(Inside) /\ Cardinality(Inside) \in Nat
  <1>1. Inside \subseteq Requests  BY DEF Inside
  <1> QED BY <1>1, RequestsFinite, FS_Subset, FS_CardinalityType

\* One request joins or leaves the set that the counter counts.
LEMMA InsideGrows ==
  ASSUME NEW S, IsFiniteSet(S), NEW r, r \notin S
  PROVE  Cardinality(S \cup {r}) = Cardinality(S) + 1
  BY FS_AddElement

LEMMA InsideShrinks ==
  ASSUME NEW S, IsFiniteSet(S), NEW r \in S
  PROVE  /\ Cardinality(S \ {r}) = Cardinality(S) - 1
         /\ Cardinality(S) > 0
  <1>1. Cardinality(S \ {r}) = Cardinality(S) - 1  BY FS_RemoveElement
  <1>2. Cardinality(S) \in Nat  BY FS_CardinalityType
  <1>3. S # {}  OBVIOUS
  <1>4. Cardinality(S) # 0  BY <1>3, FS_EmptySet
  <1> QED BY <1>1, <1>2, <1>4

LEMMA InitTypes == DoorInit => DoorTypeOK
  <1> SUFFICES ASSUME DoorInit PROVE DoorTypeOK
    OBVIOUS
  <1>1. count \in Nat  BY DEF DoorInit
  <1>2. draining \in BOOLEAN /\ expired \in BOOLEAN  BY Zenon DEF DoorInit
  <1>3. where \in [Requests -> {"outside", "inside", "left", "refused"}]  BY DEF DoorInit
  <1>4. waiter \in {"idle", "check", "asleep", "empty", "timeout"}  BY DEF DoorInit
  <1>5. watcher \in {"idle", "armed", "ended"}  BY DEF DoorInit
  <1> QED BY <1>1, <1>2, <1>3, <1>4, <1>5 DEF DoorTypeOK

LEMMA NextTypes == DoorTypeOK /\ [DoorNext]_doorVars => DoorTypeOK'
  <1> SUFFICES ASSUME DoorTypeOK, [DoorNext]_doorVars PROVE DoorTypeOK'
    OBVIOUS
  <1> USE DEF DoorTypeOK
  <1>1. ASSUME NEW r \in Requests, TryEnter(r) PROVE DoorTypeOK'
    BY <1>1 DEF TryEnter, waitVars
  <1>2. ASSUME NEW r \in Requests, Leave(r) PROVE DoorTypeOK'
    BY <1>2 DEF Leave, Wake
  <1>3. CASE BeginDrain  BY <1>3 DEF BeginDrain
  <1>4. CASE CheckEmpty  BY <1>4 DEF CheckEmpty, gateVars
  <1>5. CASE Expire  BY <1>5 DEF Expire, gateVars
  <1>6. CASE WatchContext  BY <1>6 DEF WatchContext, Wake, gateVars
  <1>7. CASE UNCHANGED doorVars  BY <1>7 DEF doorVars, gateVars, waitVars
  <1> QED BY <1>1, <1>2, <1>3, <1>4, <1>5, <1>6, <1>7 DEF DoorNext

\* No variable of the gate ever leaves its type; in particular the counter of
\* admission.leave never goes below zero.
THEOREM TypeCorrect == DoorSpec => []DoorTypeOK
  BY InitTypes, NextTypes, PTL DEF DoorSpec

-----------------------------------------------------------------------------
(* The inductive invariant: DrainedMeansEmpty alone is not inductive.  The waiter
   reads only the counter, so the counter must be exact, and nobody may enter
   behind its back, so the gate must have been shut before it waits. *)
DoorInv == DoorTypeOK /\ CountExact /\ ShutBeforeWaiting /\ DrainedMeansEmpty

LEMMA InitDoor == DoorInit => DoorInv
  <1> SUFFICES ASSUME DoorInit PROVE DoorInv
    OBVIOUS
  <1>1. DoorTypeOK  BY InitTypes
  <1>2. Inside = {}  BY DEF DoorInit, Inside
  <1>3. CountExact  BY <1>2, FS_EmptySet DEF DoorInit, CountExact
  <1>4. ShutBeforeWaiting /\ DrainedMeansEmpty
    BY DEF DoorInit, ShutBeforeWaiting, DrainedMeansEmpty
  <1> QED BY <1>1, <1>3, <1>4 DEF DoorInv

LEMMA NextDoor == DoorInv /\ [DoorNext]_doorVars => DoorInv'
  <1> SUFFICES ASSUME DoorInv, [DoorNext]_doorVars PROVE DoorInv'
    OBVIOUS
  <1> USE DEF DoorInv
  <1>t. DoorTypeOK'  BY NextTypes
  <1>f. IsFiniteSet(Inside)  BY InsideFinite
  <1>1. ASSUME NEW r \in Requests, TryEnter(r) PROVE DoorInv'
    <2>1. CASE draining
      <3>1. Inside' = Inside  BY <1>1, <2>1 DEF TryEnter, Inside, DoorTypeOK
      <3>2. CountExact'  BY <1>1, <2>1, <3>1 DEF TryEnter, CountExact
      <3>3. ShutBeforeWaiting' /\ DrainedMeansEmpty'
        BY <1>1, <3>1 DEF TryEnter, waitVars, ShutBeforeWaiting, DrainedMeansEmpty
      <3> QED BY <1>t, <3>2, <3>3
    <2>2. CASE ~draining
      <3>1. Inside' = Inside \cup {r}  BY <1>1, <2>2 DEF TryEnter, Inside, DoorTypeOK
      <3>2. r \notin Inside  BY <1>1 DEF TryEnter, Inside
      <3>3. Cardinality(Inside') = Cardinality(Inside) + 1
        BY <1>f, <3>1, <3>2, InsideGrows
      <3>4. CountExact'  BY <1>1, <2>2, <3>3 DEF TryEnter, CountExact
      <3>5. waiter' = "idle"
        BY <1>1, <2>2 DEF TryEnter, waitVars, ShutBeforeWaiting
      <3>6. ShutBeforeWaiting' /\ DrainedMeansEmpty'
        BY <3>5 DEF ShutBeforeWaiting, DrainedMeansEmpty
      <3> QED BY <1>t, <3>4, <3>6
    <2> QED BY <2>1, <2>2
  <1>2. ASSUME NEW r \in Requests, Leave(r) PROVE DoorInv'
    <2>1. Inside' = Inside \ {r}  BY <1>2 DEF Leave, Inside, DoorTypeOK
    <2>2. r \in Inside  BY <1>2 DEF Leave, Inside
    <2>3. Cardinality(Inside') = Cardinality(Inside) - 1 /\ Cardinality(Inside) > 0
      BY <1>f, <2>1, <2>2, InsideShrinks
    <2>4. CountExact'  BY <1>2, <2>3 DEF Leave, CountExact
    <2>5. draining' = draining  BY <1>2 DEF Leave
    <2>6. waiter # "idle" \/ waiter' = "idle"  BY <1>2 DEF Leave, Wake
    <2>7. ShutBeforeWaiting'  BY <2>5, <2>6 DEF ShutBeforeWaiting
    <2>8. waiter' = "empty" => waiter = "empty"  BY <1>2 DEF Leave, Wake
    <2>9. DrainedMeansEmpty'  BY <2>1, <2>8 DEF DrainedMeansEmpty
    <2> QED BY <1>t, <2>4, <2>7, <2>9
  <1>3. CASE BeginDrain
    <2>1. Inside' = Inside  BY <1>3 DEF BeginDrain, Inside
    <2> QED BY <1>3, <1>t, <2>1
          DEF BeginDrain, CountExact, ShutBeforeWaiting, DrainedMeansEmpty
  <1>4. CASE CheckEmpty
    <2>1. Inside' = Inside  BY <1>4 DEF CheckEmpty, gateVars, Inside
    <2>2. CountExact' /\ ShutBeforeWaiting'
      BY <1>4, <2>1 DEF CheckEmpty, gateVars, CountExact, ShutBeforeWaiting
    <2>3. DrainedMeansEmpty'
      <3> SUFFICES ASSUME waiter' = "empty" PROVE Inside' = {}
        BY DEF DrainedMeansEmpty
      <3>1. count = 0  BY <1>4 DEF CheckEmpty, DoorTypeOK
      <3>2. Inside = {}  BY <1>f, <3>1, FS_EmptySet DEF CountExact
      <3> QED BY <2>1, <3>2
    <2> QED BY <1>t, <2>2, <2>3
  <1>5. CASE Expire
    <2>1. Inside' = Inside  BY <1>5 DEF Expire, gateVars, Inside
    <2> QED BY <1>5, <1>t, <2>1
          DEF Expire, gateVars, CountExact, ShutBeforeWaiting, DrainedMeansEmpty
  <1>6. CASE WatchContext
    <2>1. Inside' = Inside  BY <1>6 DEF WatchContext, gateVars, Inside
    <2>2. CountExact'  BY <1>6, <2>1 DEF WatchContext, gateVars, CountExact
    <2>3. draining' = draining  BY <1>6 DEF WatchContext, gateVars
    <2>4. waiter' \in {waiter, "check"} /\ (waiter = "idle" => waiter' = "idle")
      BY <1>6 DEF WatchContext, Wake
    <2>5. ShutBeforeWaiting' /\ DrainedMeansEmpty'
      BY <2>1, <2>3, <2>4 DEF ShutBeforeWaiting, DrainedMeansEmpty
    <2> QED BY <1>t, <2>2, <2>5
  <1>7. CASE UNCHANGED doorVars
    BY <1>7, <1>t
    DEF doorVars, gateVars, waitVars, Inside, CountExact, ShutBeforeWaiting, DrainedMeansEmpty
  <1> QED BY <1>1, <1>2, <1>3, <1>4, <1>5, <1>6, <1>7 DEF DoorNext

\* frontdoor.go Drain: when it returns nil the in-flight handlers are gone for good.
THEOREM DrainSafe == DoorSpec => []DrainedMeansEmpty
  <1>1. DoorInv => DrainedMeansEmpty  BY DEF DoorInv
  <1> QED BY <1>1, InitDoor, NextDoor, PTL DEF DoorSpec

\* admission.count is the number of handlers inside, whatever the interleaving.
THEOREM CounterExact == DoorSpec => []CountExact
  <1>1. DoorInv => CountExact  BY DEF DoorInv
  <1> QED BY <1>1, InitDoor, NextDoor, PTL DEF DoorSpec

\* A waiter that sleeps is one whom the last handler to leave will wake: the counter was not
\* zero when it went to sleep, and whoever brings it to zero broadcasts.
THEOREM SleepersAreWoken == DoorSpec => []NoLostWakeup
  <1> DEFINE Counts == waiter = "asleep" => count > 0
  <1>1. DoorInit => Counts  BY DEF DoorInit
  <1>2. DoorInv /\ Counts /\ [DoorNext]_doorVars => Counts'
    <2> SUFFICES ASSUME DoorInv, Counts, [DoorNext]_doorVars, waiter' = "asleep" PROVE count' > 0
      OBVIOUS
    <2>0. count \in Nat  BY DEF DoorInv, DoorTypeOK
    <2>1. ASSUME NEW r \in Requests, TryEnter(r) PROVE count' > 0
      BY <2>0, <2>1 DEF TryEnter, waitVars
    <2>2. ASSUME NEW r \in Requests, Leave(r) PROVE count' > 0
      BY <2>0, <2>2 DEF Leave, Wake
    <2>3. CASE BeginDrain \/ CheckEmpty \/ Expire \/ WatchContext
      BY <2>0, <2>3 DEF BeginDrain, CheckEmpty, Expire, WatchContext, Wake, gateVars
    <2>4. CASE UNCHANGED doorVars  BY <2>4 DEF doorVars, gateVars, waitVars
    <2> QED BY <2>1, <2>2, <2>3, <2>4 DEF DoorNext
  <1>3. DoorInv /\ Counts => NoLostWakeup
    <2>1. Cardinality({}) = 0  BY FS_EmptySet
    <2> QED BY <2>1 DEF DoorInv, DoorTypeOK, CountExact, NoLostWakeup
  <1> QED BY <1>1, <1>2, <1>3, InitDoor, NextDoor, PTL DEF DoorSpec

-----------------------------------------------------------------------------
(* The write queue of terminal rows.  The inductive invariant follows the entries: each one
   that was accepted is in the line once, or its done channel is closed; what a waiter may
   still ask for is registered, in the database, or on a tombstone. *)

Held(e) == \E i \in 1 .. Len(Line) : Line[i] = e
Clean(e) == outcome[e] = None /\ e \notin done
Won(e) == outcome[e] \in {"row", "gap"}
Begun == {"account", "effects", "wake", "unregister"}   \* the first of the hand is written
First == Line[1]

\* Each entry of the line is there once, and the worker has touched the first one only.
LineOK ==
  /\ pending = Len(Line)
  /\ \A i, j \in 1 .. Len(Line) : Line[i] = Line[j] => i = j
  /\ \A i \in 1 .. Len(Line) :
       /\ caller[Line[i]] = "accepted"
       /\ i # 1 \/ worker \notin Begun => Clean(Line[i])
  /\ worker \in Begun \cup {"write"} => batch # <<>>
  /\ worker \in Begun =>
       /\ outcome[First] # None
       /\ worker # "unregister" => First \notin done
  /\ worker = "unregister" => First \in done

EntryOK ==
  \A e \in Entries :
    /\ caller[e] \in {"new", "sync"} => Clean(e)
    /\ caller[e] = "accepted" => e \in done \/ Held(e)
    /\ e \in done => caller[e] = "accepted" /\ outcome[e] # None

FlushOK ==
  /\ \A e \in covered : caller[e] = "accepted"
  /\ flush \in {"serving", "read", "nudge", "wait", "collect"} => flushResult = "none"
  /\ flush = "serving" => covered = {}
  /\ flush = "collect" => covered \subseteq done
  /\ flushResult = "none" =>
       /\ \A e \in done : Failed(e) => failures > 0
       /\ worker \in Begun \ {"account"} => (Failed(First) => failures > 0)
  /\ flushResult = "ok" => \A e \in covered : e \in done /\ ~Failed(e)

StopOK ==
  /\ stopped <=> flush \in {"closing", "joining", "joined"}
  /\ stop <=> flush \in {"joining", "joined"}
  /\ leaving => stop
  /\ worker = "select" => ~leaving
  /\ leaving /\ worker \in Begun \cup {"write"} => channel = <<>>
  /\ worker = "exited" => leaving /\ Line = <<>>
  /\ flush = "joined" => worker = "exited"

WinnersOK ==
  /\ \A e \in Entries : outcome[e] \in {"row", "gap", "notSettled"} => RowOf[e] \in final
  /\ \A e \in effects : Won(e)
  /\ \A a, b \in Entries : Won(a) /\ Won(b) /\ RowOf[a] = RowOf[b] => a = b

\* The registration of a row is the last of its entries in the line; with none there, what
\* became of the last one is in the database or on a tombstone.
RegisterOK ==
  /\ \A r \in Rows : inflight[r] # None => Held(inflight[r]) /\ RowOf[inflight[r]] = r
  /\ \A i \in 1 .. Len(Line) :
       \E j \in i .. Len(Line) : Line[j] = inflight[RowOf[Line[i]]]
  /\ \A e \in Entries : caller[e] = "accepted" /\ inflight[RowOf[e]] = None =>
       RowOf[e] \in final \cup forgotten \cup ToSet(finished)

AwaitOK ==
  \A e \in Entries :
    /\ await[e] # "none" => caller[e] \in {"accepted", "returned"}
    /\ await[e] = "waiting" => awaited[e] \in Entries /\ RowOf[awaited[e]] = RowOf[e]
    /\ await[e] = "nil" /\ caller[e] = "accepted" => RowOf[e] \in final \cup forgotten

QueueInv ==
  /\ TypeOK /\ LineOK /\ EntryOK /\ FlushOK /\ StopOK /\ WinnersOK /\ RegisterOK /\ AwaitOK

LEMMA LineIs ==
  ASSUME TypeOK
  PROVE  /\ Line \in Seq(Entries) /\ Len(Line) \in Nat
         /\ Len(Line) = Len(batch) + Len(channel)
         /\ Len(batch) \in Nat /\ Len(channel) \in Nat
         /\ \A i \in 1 .. Len(Line) :
              /\ Line[i] \in Entries
              /\ Line[i] = IF i <= Len(batch) THEN batch[i] ELSE channel[i - Len(batch)]
         /\ batch # <<>> => Len(Line) >= 1 /\ Len(batch) >= 1 /\ First = Head(batch) /\ First \in Entries
         /\ batch # <<>> <=> Len(batch) # 0
         /\ channel # <<>> <=> Len(channel) # 0
         /\ Line = <<>> <=> Len(Line) = 0
  <1>1. batch \in Seq(Entries) /\ channel \in Seq(Entries)
    BY DEF TypeOK
  <1>2. /\ Len(batch) \in Nat /\ Len(channel) \in Nat
        /\ batch # <<>> <=> Len(batch) # 0
        /\ channel # <<>> <=> Len(channel) # 0
    BY <1>1, LenProperties, EmptySeq
  <1>3. /\ Line \in Seq(Entries) /\ Len(Line) = Len(batch) + Len(channel)
        /\ \A i \in 1 .. Len(Line) :
             Line[i] = IF i <= Len(batch) THEN batch[i] ELSE channel[i - Len(batch)]
    BY <1>1, ConcatProperties DEF Line
  <1>4. \A i \in 1 .. Len(Line) : Line[i] \in Entries
    BY <1>3, ElementOfSeq
  <1>5. Line = <<>> <=> Len(Line) = 0
    BY <1>3, LenProperties, EmptySeq
  <1>6. ASSUME batch # <<>> PROVE Len(Line) >= 1 /\ Len(batch) >= 1 /\ First = Head(batch) /\ First \in Entries
    <2>1. Len(batch) >= 1 /\ Len(Line) >= 1
      BY <1>2, <1>3, <1>6
    <2>2. Head(batch) = batch[1]
      BY <1>1, <1>6
    <2>3. 1 \in 1 .. Len(Line) /\ 1 <= Len(batch)
      BY <1>2, <1>3, <2>1
    <2>4. Line[1] = batch[1] /\ Line[1] \in Entries
      BY <1>3, <1>4, <2>3
    <2> QED
      BY <2>1, <2>2, <2>4 DEF First
  <1> QED
    BY <1>2, <1>3, <1>4, <1>5, <1>6

\* The worker takes the next entry of the channel into its hand.
LEMMA LineTaken ==
  ASSUME TypeOK, channel # <<>>, batch' = Append(batch, Head(channel)), channel' = Tail(channel)
  PROVE  Line' = Line /\ batch' # <<>> /\ batch' \in Seq(Entries) /\ channel' \in Seq(Entries)
         /\ Len(channel') <= Len(channel)
  <1>1. batch \in Seq(Entries) /\ channel \in Seq(Entries)
    BY DEF TypeOK
  <1>2. /\ Head(channel) \in Entries /\ Tail(channel) \in Seq(Entries)
        /\ Head(channel) = channel[1] /\ Len(Tail(channel)) = Len(channel) - 1
        /\ \A i \in 1 .. Len(Tail(channel)) : Tail(channel)[i] = channel[i + 1]
        /\ Len(channel) \in Nat \ {0} /\ Len(batch) \in Nat
    BY <1>1, HeadTailProperties, LenProperties, EmptySeq
  <1>3. /\ batch' \in Seq(Entries) /\ batch' # <<>> /\ Len(batch') = Len(batch) + 1
        /\ \A i \in 1 .. Len(batch) : batch'[i] = batch[i]
        /\ batch'[Len(batch) + 1] = channel[1]
    BY <1>1, <1>2, AppendProperties
  <1>4. /\ Line' \in Seq(Entries) /\ Len(Line') = Len(batch') + Len(channel')
        /\ \A i \in 1 .. Len(Line') :
             Line'[i] = IF i <= Len(batch') THEN batch'[i] ELSE channel'[i - Len(batch')]
    BY <1>2, <1>3, ConcatProperties DEF Line
  <1>5. /\ Line \in Seq(Entries) /\ Len(Line) = Len(batch) + Len(channel)
        /\ \A i \in 1 .. Len(Line) :
             Line[i] = IF i <= Len(batch) THEN batch[i] ELSE channel[i - Len(batch)]
    BY LineIs
  <1>6. Len(Line') = Len(Line)
    BY <1>2, <1>3, <1>4, <1>5
  <1>7. ASSUME NEW i \in 1 .. Len(Line') PROVE Line'[i] = Line[i]
    <2>1. CASE i <= Len(batch)
      <3>1. i \in 1 .. Len(batch) /\ i <= Len(batch') /\ i \in 1 .. Len(Line)
        BY <1>2, <1>3, <1>4, <1>6, <2>1
      <3>2. batch'[i] = batch[i]
        BY <1>3, <3>1
      <3> QED
        BY <1>4, <1>5, <2>1, <3>1, <3>2
    <2>2. CASE i = Len(batch) + 1
      BY <1>2, <1>3, <1>4, <1>5, <1>6, <2>2
    <2>3. CASE i > Len(batch) + 1
      <3>1. i - Len(batch') \in 1 .. Len(Tail(channel)) /\ (i - Len(batch')) + 1 = i - Len(batch)
        BY <1>2, <1>3, <1>4, <2>3
      <3>2. channel'[i - Len(batch')] = channel[i - Len(batch)]
        BY <1>2, <3>1
      <3> QED
        BY <1>2, <1>3, <1>4, <1>5, <1>6, <2>3, <3>2
    <2> QED
      BY <1>2, <2>1, <2>2, <2>3
  <1>8. Line' = Line
    BY <1>4, <1>5, <1>6, <1>7, SeqEqual
  <1> QED
    BY <1>2, <1>3, <1>8

\* A delivery is accepted.
LEMMA LineGrown ==
  ASSUME TypeOK, NEW e \in Entries, channel' = Append(channel, e), batch' = batch
  PROVE  /\ Len(Line') = Len(Line) + 1
         /\ \A i \in 1 .. Len(Line) : Line'[i] = Line[i]
         /\ Line'[Len(Line) + 1] = e
         /\ channel' \in Seq(Entries) /\ Len(channel') = Len(channel) + 1
  <1>1. batch \in Seq(Entries) /\ channel \in Seq(Entries)
    BY DEF TypeOK
  <1>2. /\ channel' \in Seq(Entries) /\ Len(channel') = Len(channel) + 1
        /\ \A i \in 1 .. Len(channel) : channel'[i] = channel[i]
        /\ channel'[Len(channel) + 1] = e
    BY <1>1, AppendProperties
  <1>3. /\ Len(Line') = Len(batch) + Len(channel')
        /\ \A i \in 1 .. Len(Line') :
             Line'[i] = IF i <= Len(batch) THEN batch[i] ELSE channel'[i - Len(batch)]
    BY <1>1, <1>2, ConcatProperties DEF Line
  <1>4. /\ Len(Line) = Len(batch) + Len(channel) /\ Len(batch) \in Nat /\ Len(channel) \in Nat
        /\ \A i \in 1 .. Len(Line) :
             Line[i] = IF i <= Len(batch) THEN batch[i] ELSE channel[i - Len(batch)]
    BY LineIs
  <1>5. ASSUME NEW i \in 1 .. Len(Line) PROVE Line'[i] = Line[i]
    <2>1. CASE i <= Len(batch)
      BY <1>2, <1>3, <1>4, <2>1
    <2>2. CASE ~(i <= Len(batch))
      <3>1. i - Len(batch) \in 1 .. Len(channel)
        BY <1>4, <2>2
      <3> QED
        BY <1>2, <1>3, <1>4, <2>2, <3>1
    <2> QED
      BY <2>1, <2>2
  <1>6. Line'[Len(Line) + 1] = e
    <2>1. /\ Len(Line) + 1 \in 1 .. Len(Line') /\ ~(Len(Line) + 1 <= Len(batch))
          /\ (Len(Line) + 1) - Len(batch) = Len(channel) + 1
      BY <1>2, <1>3, <1>4
    <2> QED
      BY <1>2, <1>3, <2>1
  <1> QED
    BY <1>2, <1>3, <1>4, <1>5, <1>6

\* The first entry of the hand leaves the queue.
LEMMA LineLeft ==
  ASSUME TypeOK, batch # <<>>, batch' = Tail(batch), channel' = channel
  PROVE  /\ Len(Line') = Len(Line) - 1
         /\ \A i \in 1 .. Len(Line') : Line'[i] = Line[i + 1]
         /\ batch' \in Seq(Entries) /\ Len(batch') = Len(batch) - 1
         /\ Len(batch) > 1 => batch' # <<>>
         /\ ~(Len(batch) > 1) => batch' = <<>>
  <1>1. batch \in Seq(Entries) /\ channel \in Seq(Entries)
    BY DEF TypeOK
  <1>2. /\ batch' \in Seq(Entries) /\ Len(batch') = Len(batch) - 1
        /\ \A i \in 1 .. Len(batch') : batch'[i] = batch[i + 1]
    BY <1>1, HeadTailProperties
  <1>3. /\ Len(Line') = Len(batch') + Len(channel)
        /\ \A i \in 1 .. Len(Line') :
             Line'[i] = IF i <= Len(batch') THEN batch'[i] ELSE channel[i - Len(batch')]
    BY <1>1, <1>2, ConcatProperties DEF Line
  <1>4. /\ Len(Line) = Len(batch) + Len(channel) /\ Len(batch) \in Nat /\ Len(channel) \in Nat
        /\ \A i \in 1 .. Len(Line) :
             Line[i] = IF i <= Len(batch) THEN batch[i] ELSE channel[i - Len(batch)]
        /\ Len(batch) >= 1
    BY LineIs
  <1>5. Len(Line') = Len(Line) - 1
    BY <1>2, <1>3, <1>4
  <1>6. ASSUME NEW i \in 1 .. Len(Line') PROVE Line'[i] = Line[i + 1]
    <2>0. i + 1 \in 1 .. Len(Line) /\ i \in Nat
      BY <1>4, <1>5
    <2>1. CASE i <= Len(batch')
      BY <1>2, <1>3, <1>4, <2>0, <2>1
    <2>2. CASE ~(i <= Len(batch'))
      <3>1. i - Len(batch') = (i + 1) - Len(batch) /\ ~(i + 1 <= Len(batch))
        BY <1>2, <1>4, <2>0, <2>2
      <3> QED
        BY <1>2, <1>3, <1>4, <2>0, <2>2, <3>1
    <2> QED
      BY <2>1, <2>2
  <1>7. /\ Len(batch) > 1 => batch' # <<>>
        /\ ~(Len(batch) > 1) => batch' = <<>>
    <2>1. batch' # <<>> => Len(batch') \in Nat \ {0}
      BY <1>2, EmptySeq
    <2>2. batch' = <<>> => Len(batch') = 0
      BY <1>2, EmptySeq
    <2>3. Len(batch') \in Int
      BY <1>2, <1>4
    <2> QED
      BY <1>2, <1>4, <2>1, <2>2, <2>3
  <1> QED
    BY <1>2, <1>5, <1>6, <1>7

-----------------------------------------------------------------------------
(* The line and the registrations, step by step. *)

CoreOK == LineOK /\ EntryOK /\ RegisterOK

\* A step that leaves the line, the entries and the registrations as they are.
LEMMA CoreStays ==
  ASSUME TypeOK, CoreOK, Line' = Line, final' = final,
         UNCHANGED <<caller, pending, inflight, tombVars, outcome, done>>,
         \/ worker' = worker /\ batch' = batch
         \/ {worker, worker'} \cap Begun = {} /\ (worker' = "write" => batch' # <<>>)
         \/ worker \in {"account", "effects"} /\ worker' \in {"effects", "wake"} /\ batch' = batch
  PROVE  CoreOK'
  <1>0. UNCHANGED <<caller, pending, inflight, finished, forgotten, outcome, done, final>>
    BY DEF tombVars
  <1>1. LineOK'
    <2>1. First' = First
      BY DEF First
    <2>2. \A e \in Entries : Clean(e)' <=> Clean(e)
      BY <1>0 DEF Clean
    <2>3. /\ pending' = Len(Line')
          /\ \A i, j \in 1 .. Len(Line') : Line'[i] = Line'[j] => i = j
      BY <1>0 DEF CoreOK, LineOK
    <2>4. ASSUME NEW i \in 1 .. Len(Line')
          PROVE  /\ caller'[Line'[i]] = "accepted"
                 /\ i # 1 \/ worker' \notin Begun => Clean(Line[i])'
      <3>1. Line[i] \in Entries
        BY LineIs
      <3>2. worker' \notin Begun => worker \notin Begun
        BY DEF Begun
      <3> QED
        BY <1>0, <2>2, <3>1, <3>2 DEF CoreOK, LineOK, Clean
    <2>5. worker' \in Begun \cup {"write"} => batch' # <<>>
      BY DEF CoreOK, LineOK, Begun
    <2>6. worker' \in Begun => /\ worker \in Begun
                               /\ worker' = "unregister" <=> worker = "unregister"
      BY DEF Begun
    <2>7. /\ worker' \in Begun =>
               /\ outcome'[First'] # None
               /\ worker' # "unregister" => First' \notin done'
          /\ worker' = "unregister" => First' \in done'
      BY <1>0, <2>1, <2>6 DEF CoreOK, LineOK, Begun
    <2> QED
      BY <2>3, <2>4, <2>5, <2>7 DEF LineOK
  <1>2. EntryOK'
    BY <1>0 DEF CoreOK, EntryOK, Clean, Held
  <1>3. RegisterOK'
    BY <1>0 DEF CoreOK, RegisterOK, Held
  <1> QED
    BY <1>1, <1>2, <1>3 DEF CoreOK

\* A delivery: accepted it is the last of the line and its row's registration, refused its
\* caller writes it.
LEMMA EnqueueCore ==
  ASSUME TypeOK, CoreOK, NEW e \in Entries, Enqueue(e)
  PROVE  CoreOK'
  <1>0. /\ UNCHANGED <<finished, forgotten, outcome, done, final, worker, batch>>
        /\ caller[e] = "new" /\ caller \in [Entries -> {"new", "accepted", "sync", "returned"}]
        /\ inflight \in [Rows -> Entries \cup {None}]
        /\ RowOf \in [Entries -> Rows] /\ None \notin Entries
    BY QueueConstants DEF Enqueue, tombVars, workVars, dbVars, TypeOK
  <1>1. \A i \in 1 .. Len(Line) : Line[i] # e /\ Line[i] \in Entries
    BY <1>0, LineIs DEF CoreOK, LineOK
  <1>2. Len(Line) \in Nat /\ (batch # <<>> => Len(Line) >= 1 /\ First \in Entries)
    BY LineIs
  <1>3. Clean(e) /\ e \notin done
    BY <1>0 DEF CoreOK, EntryOK, Clean
  <1>4. CASE stopped \/ Len(channel) >= Capacity
    <2>1. /\ caller' = [caller EXCEPT ![e] = "sync"]
          /\ UNCHANGED <<channel, pending, idle, inflight>>
      BY <1>4 DEF Enqueue
    <2>2. Line' = Line /\ First' = First
      BY <1>0, <2>1 DEF Line, First
    <2>3. \A x \in Entries \ {e} : caller'[x] = caller[x]
      BY <1>0, <2>1
    <2>4. caller'[e] = "sync"
      BY <1>0, <2>1
    <2>5. LineOK'
      BY <1>0, <1>1, <2>1, <2>2, <2>3 DEF CoreOK, LineOK, Clean
    <2>6. EntryOK'
      BY <1>0, <1>3, <2>2, <2>3, <2>4 DEF CoreOK, EntryOK, Clean, Held
    <2>7. RegisterOK'
      BY <1>0, <2>1, <2>2, <2>3, <2>4 DEF CoreOK, RegisterOK, Held
    <2> QED
      BY <2>5, <2>6, <2>7 DEF CoreOK
  <1>5. CASE ~(stopped \/ Len(channel) >= Capacity)
    <2> DEFINE n == Len(Line) + 1
               r == RowOf[e]
    <2>1. /\ caller' = [caller EXCEPT ![e] = "accepted"]
          /\ pending' = pending + 1 /\ channel' = Append(channel, e)
          /\ inflight' = [inflight EXCEPT ![r] = e]
      BY <1>5 DEF Enqueue, AddPending
    <2>2. /\ Len(Line') = n /\ Line'[n] = e
          /\ \A i \in 1 .. Len(Line) : Line'[i] = Line[i]
      BY <1>0, <2>1, LineGrown
    <2>3. /\ \A x \in Entries \ {e} : caller'[x] = caller[x]
          /\ caller'[e] = "accepted"
      BY <1>0, <2>1
    <2>4. \A i \in 1 .. Len(Line') : i = n \/ i \in 1 .. Len(Line)
      BY <1>2, <2>2
    <2>5. LineOK'
      <3>1. pending' = Len(Line')
        BY <2>1, <2>2 DEF CoreOK, LineOK
      <3>2. ASSUME NEW i \in 1 .. Len(Line'), NEW j \in 1 .. Len(Line'), Line'[i] = Line'[j]
            PROVE  i = j
        BY <1>1, <2>2, <2>4, <3>2 DEF CoreOK, LineOK
      <3>3. ASSUME NEW i \in 1 .. Len(Line')
            PROVE  /\ caller'[Line'[i]] = "accepted"
                   /\ i # 1 \/ worker' \notin Begun => Clean(Line[i])'
        BY <1>0, <1>1, <1>3, <2>2, <2>3, <2>4 DEF CoreOK, LineOK, Clean
      <3>4. batch # <<>> => First' = First
        <4> SUFFICES ASSUME batch # <<>> PROVE Line'[1] = Line[1]
          BY DEF First
        <4> QED
          BY <1>2, <2>2
      <3>5. worker \in Begun \cup {"write"} => batch # <<>>
        BY DEF CoreOK, LineOK
      <3>6. worker' \in Begun \cup {"write"} => batch' # <<>>
        BY <1>0, <3>5
      <3>7. /\ worker' \in Begun =>
                 /\ outcome'[First'] # None
                 /\ worker' # "unregister" => First' \notin done'
            /\ worker' = "unregister" => First' \in done'
        BY <1>0, <3>4, <3>5 DEF CoreOK, LineOK, Begun
      <3> QED
        BY <3>1, <3>2, <3>3, <3>6, <3>7 DEF LineOK
    <2>6. \A x \in Entries : Held(x) => Held(x)'
      <3> SUFFICES ASSUME NEW x \in Entries, Held(x) PROVE Held(x)'
        OBVIOUS
      <3>1. PICK i \in 1 .. Len(Line) : Line[i] = x
        BY DEF Held
      <3>2. i \in 1 .. Len(Line') /\ Line'[i] = x
        BY <1>2, <2>2, <3>1
      <3> QED
        BY <3>2 DEF Held
    <2>7. Held(e)'
      <3>1. n \in 1 .. Len(Line')
        BY <1>2, <2>2
      <3> QED
        BY <2>2, <3>1 DEF Held
    <2>8. EntryOK'
      BY <1>0, <2>3, <2>6, <2>7, <1>3 DEF CoreOK, EntryOK, Clean
    <2>9. RegisterOK'
      <3>0. r \in Rows /\ inflight'[r] = e /\ \A q \in Rows \ {r} : inflight'[q] = inflight[q]
        BY <1>0, <2>1
      <3>1. ASSUME NEW q \in Rows, inflight'[q] # None
            PROVE  Held(inflight[q])' /\ RowOf[inflight'[q]] = q
        BY <1>0, <2>6, <2>7, <3>0, <3>1 DEF CoreOK, RegisterOK
      <3>2. ASSUME NEW i \in 1 .. Len(Line')
            PROVE  \E j \in i .. Len(Line') : Line'[j] = inflight'[RowOf[Line'[i]]]
        <4>1. CASE RowOf[Line'[i]] = r
          <5>1. n \in i .. Len(Line')
            BY <1>2, <2>2
          <5> QED
            BY <2>2, <3>0, <4>1, <5>1
        <4>2. CASE RowOf[Line'[i]] # r
          <5>1. i \in 1 .. Len(Line) /\ Line'[i] = Line[i] /\ RowOf[Line[i]] \in Rows \ {r}
            BY <1>0, <1>1, <2>2, <2>4, <4>2
          <5>2. PICK j \in i .. Len(Line) : Line[j] = inflight[RowOf[Line[i]]]
            BY <5>1 DEF CoreOK, RegisterOK
          <5>3. j \in 1 .. Len(Line) /\ j \in i .. Len(Line')
            BY <1>2, <2>2, <5>1
          <5> QED
            BY <2>2, <3>0, <5>1, <5>2, <5>3
        <4> QED
          BY <4>1, <4>2
      <3>3. ASSUME NEW x \in Entries, caller'[x] = "accepted", inflight'[RowOf[x]] = None
            PROVE  RowOf[x] \in final' \cup forgotten' \cup ToSet(finished')
        <4>1. x # e /\ RowOf[x] \in Rows
          BY <1>0, <3>0, <3>3
        <4>2. RowOf[x] # r
          BY <1>0, <3>0, <3>3
        <4> QED
          BY <1>0, <2>3, <3>0, <3>3, <4>1, <4>2 DEF CoreOK, RegisterOK
      <3> QED
        BY <3>1, <3>2, <3>3 DEF RegisterOK
    <2> QED
      BY <2>5, <2>8, <2>9 DEF CoreOK
  <1> QED
    BY <1>4, <1>5

\* What a write leaves in the database, and that it is the entry's first.
LEMMA WriteSays ==
  ASSUME TypeOK, WinnersOK, NEW e \in Entries, outcome[e] = None, NEW result \in Results,
         WriteRow(e, result)
  PROVE  /\ outcome' \in [Entries -> {None, "row", "notSettled", "failed", "gap"}]
         /\ final \subseteq final' /\ final' \subseteq Rows
         /\ outcome'[e] = result /\ result # None
         /\ \A x \in Entries \ {e} : outcome'[x] = outcome[x]
         /\ \A x \in Entries : outcome'[x] \in {"row", "gap", "notSettled"} => RowOf[x] \in final'
         /\ \A a, b \in Entries : Won(a)' /\ Won(b)' /\ RowOf[a] = RowOf[b] => a = b
         /\ \A x \in Entries : Won(x) => Won(x)'
         /\ \A x \in effects : Won(x)'
  <1>0. /\ outcome \in [Entries -> {None, "row", "notSettled", "failed", "gap"}]
        /\ final \subseteq Rows /\ effects \subseteq Entries
    BY DEF TypeOK
  <1>1. result \in {"row", "notSettled", "gap", "failed"}
    BY DEF Results
  <1>2. result # None
    BY <1>1, QueueConstants
  <1>3. /\ outcome' = [outcome EXCEPT ![e] = result]
        /\ result \in {"row", "gap"} => RowOf[e] \notin final
    BY DEF WriteRow
  <1>4. /\ final \subseteq final' /\ final' \subseteq final \cup {RowOf[e]}
        /\ result # "failed" => RowOf[e] \in final'
    BY DEF WriteRow
  <1>5. RowOf[e] \in Rows
    BY QueueConstants
  <1>6. /\ outcome' \in [Entries -> {None, "row", "notSettled", "failed", "gap"}]
        /\ outcome'[e] = result
        /\ \A x \in Entries \ {e} : outcome'[x] = outcome[x]
    BY <1>0, <1>1, <1>3
  <1>7. ASSUME NEW x \in Entries, outcome'[x] \in {"row", "gap", "notSettled"}
        PROVE  RowOf[x] \in final'
    BY <1>4, <1>6, <1>7 DEF WinnersOK
  <1>8. ASSUME NEW a \in Entries, NEW b \in Entries, Won(a)', Won(b)', RowOf[a] = RowOf[b]
        PROVE  a = b
    <2>1. ASSUME NEW x \in Entries, Won(x)', x # e PROVE Won(x) /\ RowOf[x] \in final
      BY <1>6, <2>1 DEF Won, WinnersOK
    <2>2. Won(e)' => RowOf[e] \notin final
      BY <1>3, <1>6 DEF Won
    <2>3. CASE a # e /\ b # e
      BY <1>8, <2>1, <2>3 DEF WinnersOK
    <2>4. CASE a = e \/ b = e
      BY <1>8, <2>1, <2>2, <2>4
    <2> QED
      BY <2>3, <2>4
  <1>9. \A x \in Entries : Won(x) => Won(x)'
    BY <1>6, QueueConstants DEF Won
  <1>10. \A x \in effects : Won(x)'
    BY <1>0, <1>9 DEF WinnersOK
  <1> QED
    BY <1>0, <1>2, <1>4, <1>5, <1>6, <1>7, <1>8, <1>9, <1>10

\* The refused delivery is written by its caller: it never was in the line.
LEMMA SyncCore ==
  ASSUME TypeOK, CoreOK, WinnersOK, NEW e \in Entries, SyncWrite(e)
  PROVE  CoreOK' /\ WinnersOK'
  <1>0. /\ UNCHANGED <<channel, pending, inflight, finished, forgotten, worker, batch, done>>
        /\ caller[e] = "sync" /\ caller' = [caller EXCEPT ![e] = "returned"]
        /\ caller \in [Entries -> {"new", "accepted", "sync", "returned"}]
    BY DEF SyncWrite, regVars, tombVars, workVars, TypeOK
  <1>1. outcome[e] = None /\ e \notin done /\ \A i \in 1 .. Len(Line) : Line[i] # e /\ Line[i] \in Entries
    BY <1>0, LineIs DEF CoreOK, LineOK, EntryOK, Clean
  <1>2. PICK result \in Results :
          /\ WriteRow(e, result)
          /\ effects' = IF Committed(result) THEN effects \cup {e} ELSE effects
    BY DEF SyncWrite
  <1>3. /\ final \subseteq final' /\ outcome'[e] = result /\ result # None
        /\ \A x \in Entries \ {e} : outcome'[x] = outcome[x]
        /\ \A x \in Entries : outcome'[x] \in {"row", "gap", "notSettled"} => RowOf[x] \in final'
        /\ \A a, b \in Entries : Won(a)' /\ Won(b)' /\ RowOf[a] = RowOf[b] => a = b
        /\ \A x \in effects : Won(x)'
    BY <1>1, <1>2, WriteSays
  <1>4. WinnersOK'
    <2>1. \A x \in effects' : Won(x)'
      BY <1>2, <1>3 DEF Committed, Won
    <2> QED
      BY <1>3, <2>1 DEF WinnersOK
  <1>5. Line' = Line /\ First' = First
    BY <1>0 DEF Line, First
  <1>6. /\ \A x \in Entries \ {e} : caller'[x] = caller[x]
        /\ caller'[e] = "returned"
    BY <1>0
  <1>7. LineOK'
    <2>1. ASSUME NEW i \in 1 .. Len(Line')
          PROVE  /\ caller'[Line'[i]] = "accepted"
                 /\ i # 1 \/ worker' \notin Begun => Clean(Line[i])'
      BY <1>0, <1>1, <1>3, <1>5, <1>6 DEF CoreOK, LineOK, Clean
    <2>2. worker \in Begun => First \in Entries \ {e}
      <3>1. worker \in Begun => batch # <<>>
        BY DEF CoreOK, LineOK
      <3>2. batch # <<>> => 1 \in 1 .. Len(Line)
        BY LineIs
      <3> QED
        BY <1>1, <3>1, <3>2 DEF First
    <2>3. /\ pending' = Len(Line')
          /\ \A i, j \in 1 .. Len(Line') : Line'[i] = Line'[j] => i = j
          /\ worker' \in Begun \cup {"write"} => batch' # <<>>
      BY <1>0, <1>5 DEF CoreOK, LineOK
    <2>4. /\ worker' \in Begun =>
               /\ outcome'[First'] # None
               /\ worker' # "unregister" => First' \notin done'
          /\ worker' = "unregister" => First' \in done'
      BY <1>0, <1>3, <1>5, <2>2 DEF CoreOK, LineOK, Begun
    <2> QED
      BY <1>5, <2>1, <2>3, <2>4 DEF LineOK
  <1>8. EntryOK'
    BY <1>0, <1>3, <1>5, <1>6 DEF CoreOK, EntryOK, Clean, Held
  <1>9. RegisterOK'
    BY <1>0, <1>3, <1>5, <1>6 DEF CoreOK, RegisterOK, Held
  <1> QED
    BY <1>4, <1>7, <1>8, <1>9 DEF CoreOK

\* The worker writes the first entry of its hand.
LEMMA WriteCore ==
  ASSUME TypeOK, CoreOK, WinnersOK, Write
  PROVE  CoreOK' /\ WinnersOK'
  <1>0. /\ UNCHANGED <<channel, pending, inflight, finished, forgotten, batch, done, caller, effects>>
        /\ worker = "write" /\ worker' = "account"
    BY DEF Write, regVars, tombVars
  <1>1. batch # <<>>
    BY <1>0 DEF CoreOK, LineOK
  <1>2. First = Head(batch) /\ First \in Entries /\ 1 \in 1 .. Len(Line)
    BY <1>1, LineIs
  <1>3. outcome[First] = None /\ First \notin done /\ caller[First] = "accepted"
    BY <1>0, <1>2 DEF CoreOK, LineOK, Begun, First, Clean
  <1>4. PICK result \in Results : WriteRow(First, result)
    BY <1>2 DEF Write
  <1>5. /\ final \subseteq final' /\ outcome'[First] = result /\ result # None
        /\ \A x \in Entries \ {First} : outcome'[x] = outcome[x]
        /\ \A x \in Entries : outcome'[x] \in {"row", "gap", "notSettled"} => RowOf[x] \in final'
        /\ \A a, b \in Entries : Won(a)' /\ Won(b)' /\ RowOf[a] = RowOf[b] => a = b
        /\ \A x \in effects : Won(x)'
    BY <1>2, <1>3, <1>4, WriteSays
  <1>6. WinnersOK'
    BY <1>0, <1>5 DEF WinnersOK
  <1>7. Line' = Line /\ First' = First
    BY <1>0 DEF Line, First
  <1>8. \A i \in 1 .. Len(Line) : Line[i] \in Entries /\ (i # 1 => Line[i] # First)
    BY <1>2, LineIs DEF CoreOK, LineOK, First
  <1>9. LineOK'
    BY <1>0, <1>1, <1>3, <1>5, <1>7, <1>8 DEF CoreOK, LineOK, Begun, Clean
  <1>10. EntryOK'
    BY <1>0, <1>3, <1>5, <1>7 DEF CoreOK, EntryOK, Clean, Held
  <1>11. RegisterOK'
    BY <1>0, <1>5, <1>7 DEF CoreOK, RegisterOK, Held
  <1> QED
    BY <1>6, <1>9, <1>10, <1>11 DEF CoreOK

\* Its done channel is closed before it leaves the queue.
LEMMA WakeCore ==
  ASSUME TypeOK, CoreOK, WakeWaiters
  PROVE  CoreOK'
  <1>0. /\ UNCHANGED <<channel, pending, inflight, finished, forgotten, batch, caller, outcome, final>>
        /\ worker = "wake" /\ worker' = "unregister"
    BY DEF WakeWaiters, regVars, tombVars, dbVars
  <1>1. batch # <<>> /\ outcome[First] # None
    BY <1>0 DEF CoreOK, LineOK, Begun
  <1>2. First = Head(batch) /\ First \in Entries /\ 1 \in 1 .. Len(Line)
    BY <1>1, LineIs
  <1>3. done' = done \cup {First} /\ caller[First] = "accepted"
    BY <1>2 DEF WakeWaiters, First, CoreOK, LineOK
  <1>4. Line' = Line /\ First' = First
    BY <1>0 DEF Line, First
  <1>5. \A i \in 1 .. Len(Line) : Line[i] \in Entries /\ (i # 1 => Line[i] # First)
    BY <1>2, LineIs DEF CoreOK, LineOK, First
  <1>6. LineOK'
    BY <1>0, <1>1, <1>3, <1>4, <1>5 DEF CoreOK, LineOK, Begun, Clean
  <1>7. EntryOK'
    BY <1>0, <1>1, <1>3, <1>4 DEF CoreOK, EntryOK, Clean, Held
  <1>8. RegisterOK'
    BY <1>0, <1>4 DEF CoreOK, RegisterOK, Held
  <1> QED
    BY <1>6, <1>7, <1>8 DEF CoreOK

\* A tombstone is added, and one that gives way is forgotten.
LEMMA Remembered ==
  ASSUME TypeOK, NEW r \in Rows, RememberFailure(r)
  PROVE  /\ finished' \in Seq(Rows) /\ Len(finished') <= TombstoneLimit /\ forgotten' \subseteq Rows
         /\ ToSet(finished) \cup forgotten \cup {r} \subseteq ToSet(finished') \cup forgotten'
  <1> DEFINE all == IF r \in ToSet(finished) THEN finished ELSE Append(finished, r)
  <1>0. /\ finished \in Seq(Rows) /\ forgotten \subseteq Rows /\ Len(finished) \in Nat
        /\ Len(finished) <= TombstoneLimit /\ TombstoneLimit \in Nat \ {0}
    BY QueueConstants, LenProperties DEF TypeOK
  <1>1. /\ all \in Seq(Rows) /\ Len(all) \in Nat /\ Len(all) <= Len(finished) + 1
        /\ ToSet(finished) \cup {r} \subseteq ToSet(all)
    <2>1. CASE r \in ToSet(finished)
      BY <1>0, <2>1
    <2>2. CASE r \notin ToSet(finished)
      <3>1. /\ all \in Seq(Rows) /\ Len(all) = Len(finished) + 1
            /\ \A i \in 1 .. Len(finished) : all[i] = finished[i]
            /\ all[Len(finished) + 1] = r
        BY <1>0, <2>2, AppendProperties
      <3>2. DOMAIN finished = 1 .. Len(finished) /\ DOMAIN all = 1 .. Len(all)
        BY <1>0, <3>1, LenProperties
      <3>3. ASSUME NEW x \in ToSet(finished) PROVE x \in ToSet(all)
        <4>1. PICK i \in 1 .. Len(finished) : x = finished[i]
          BY <3>2 DEF ToSet
        <4>2. i \in DOMAIN all /\ all[i] = x
          BY <1>0, <3>1, <3>2, <4>1
        <4> QED
          BY <4>2 DEF ToSet
      <3>4. Len(finished) + 1 \in DOMAIN all
        BY <1>0, <3>1, <3>2
      <3>5. r \in ToSet(all)
        BY <3>1, <3>4 DEF ToSet
      <3> QED
        BY <1>0, <3>1, <3>3, <3>5
    <2> QED
      BY <2>1, <2>2
  <1> HIDE DEF all
  <1>2. CASE Len(all) > TombstoneLimit
    <2>1. finished' = Tail(all) /\ forgotten' = forgotten \cup {Head(all)}
      BY <1>2 DEF RememberFailure, all
    <2>2. all # <<>>
      BY <1>0, <1>1, <1>2, EmptySeq
    <2>3. /\ Head(all) \in Rows /\ Tail(all) \in Seq(Rows) /\ Len(Tail(all)) = Len(all) - 1
          /\ \A i \in 1 .. Len(Tail(all)) : Tail(all)[i] = all[i + 1]
          /\ Head(all) = all[1]
      BY <1>1, <2>2, HeadTailProperties
    <2>4. DOMAIN all = 1 .. Len(all) /\ DOMAIN Tail(all) = 1 .. Len(Tail(all))
      BY <1>1, <2>3, LenProperties
    <2>5. ASSUME NEW x \in ToSet(all) PROVE x \in ToSet(Tail(all)) \cup {Head(all)}
      <3>1. PICK i \in 1 .. Len(all) : x = all[i]
        BY <2>4 DEF ToSet
      <3>2. CASE i = 1
        BY <2>3, <3>1, <3>2
      <3>3. CASE i # 1
        <4>1. i - 1 \in DOMAIN Tail(all) /\ (i - 1) + 1 = i
          BY <1>1, <2>3, <2>4, <3>3
        <4>2. Tail(all)[i - 1] = x
          BY <2>3, <2>4, <3>1, <4>1
        <4> QED
          BY <4>1, <4>2 DEF ToSet
      <3> QED
        BY <3>2, <3>3
    <2> QED
      BY <1>0, <1>1, <2>1, <2>3, <2>5
  <1>3. CASE ~(Len(all) > TombstoneLimit)
    <2>1. finished' = all /\ forgotten' = forgotten
      BY <1>3 DEF RememberFailure, all
    <2> QED
      BY <1>0, <1>1, <1>3, <2>1
  <1> QED
    BY <1>2, <1>3

\* It leaves: the next one is first, and a failure that nobody else of its row follows in
\* the line is on a tombstone.
LEMMA UnregisterCore ==
  ASSUME TypeOK, CoreOK, WinnersOK, Unregister
  PROVE  CoreOK'
  <1> DEFINE e == First
             mine == inflight[RowOf[e]] = e
  <1>0. /\ UNCHANGED <<channel, done, caller, outcome, final>>
        /\ worker = "unregister" /\ batch' = Tail(batch) /\ pending' = pending - 1
        /\ worker' = IF Len(batch) > 1 THEN "write" ELSE Resume
    BY DEF Unregister, dbVars
  <1>1. batch # <<>> /\ outcome[e] # None /\ e \in done
    BY <1>0 DEF CoreOK, LineOK, Begun
  <1>2. /\ e = Head(batch) /\ e \in Entries /\ 1 \in 1 .. Len(Line) /\ Len(Line) \in Nat
        /\ RowOf[e] \in Rows
    BY <1>1, LineIs, QueueConstants
  <1>3. /\ Len(Line') = Len(Line) - 1
        /\ \A i \in 1 .. Len(Line') : Line'[i] = Line[i + 1]
        /\ Len(batch) > 1 => batch' # <<>>
    BY <1>0, <1>1, LineLeft
  <1>4. \A i \in 1 .. Len(Line') : i + 1 \in 1 .. Len(Line) /\ i + 1 # 1
    BY <1>2, <1>3
  <1>5. \A i \in 1 .. Len(Line) : Line[i] \in Entries /\ (i # 1 => Line[i] # e)
    BY <1>2, LineIs DEF CoreOK, LineOK, First
  <1>6. /\ inflight' = IF mine THEN [inflight EXCEPT ![RowOf[e]] = None] ELSE inflight
        /\ IF mine /\ Failed(e) THEN RememberFailure(RowOf[e]) ELSE UNCHANGED tombVars
    BY <1>2 DEF Unregister
  <1>7. /\ inflight \in [Rows -> Entries \cup {None}] /\ None \notin Entries
        /\ RowOf \in [Entries -> Rows]
    BY QueueConstants DEF TypeOK
  <1>8. LineOK'
    <2>1. pending' = Len(Line')
      BY <1>0, <1>3 DEF CoreOK, LineOK
    <2>2. ASSUME NEW i \in 1 .. Len(Line'), NEW j \in 1 .. Len(Line'), Line'[i] = Line'[j]
          PROVE  i = j
      <3>1. i + 1 = j + 1
        BY <1>3, <1>4, <2>2 DEF CoreOK, LineOK
      <3> QED
        BY <3>1
    <2>3. ASSUME NEW i \in 1 .. Len(Line')
          PROVE  caller'[Line'[i]] = "accepted" /\ outcome'[Line'[i]] = None /\ Line'[i] \notin done'
      BY <1>0, <1>3, <1>4 DEF CoreOK, LineOK, Clean
    <2>4. worker' \notin Begun /\ (worker' = "write" => batch' # <<>>)
      BY <1>0, <1>3 DEF Resume, Begun
    <2> QED
      BY <2>1, <2>2, <2>3, <2>4 DEF LineOK, Clean, Begun
  <1>9. ASSUME NEW x \in Entries, Held(x), x # e PROVE Held(x)'
    <2>1. PICK i \in 1 .. Len(Line) : Line[i] = x
      BY <1>9 DEF Held
    <2>2. i # 1
      BY <1>9, <2>1 DEF First
    <2>3. i - 1 \in 1 .. Len(Line') /\ (i - 1) + 1 = i
      BY <1>2, <1>3, <2>1, <2>2
    <2>4. Line'[i - 1] = x
      BY <1>3, <2>1, <2>3
    <2> QED
      BY <2>3, <2>4 DEF Held
  <1>10. EntryOK'
    BY <1>0, <1>1, <1>9 DEF CoreOK, EntryOK, Clean
  <1>11. /\ finished \in Seq(Rows)
         /\ ToSet(finished) \cup forgotten \subseteq ToSet(finished') \cup forgotten'
         /\ mine /\ Failed(e) => RowOf[e] \in ToSet(finished') \cup forgotten'
    <2>1. CASE mine /\ Failed(e)
      BY <1>2, <1>6, <2>1, Remembered DEF TypeOK
    <2>2. CASE ~(mine /\ Failed(e))
      BY <1>6, <2>2 DEF TypeOK, tombVars
    <2> QED
      BY <2>1, <2>2
  <1>12. RegisterOK'
    <2>1. \A q \in Rows : inflight'[q] = IF mine /\ q = RowOf[e] THEN None ELSE inflight[q]
      BY <1>2, <1>6, <1>7
    <2>2. ASSUME NEW q \in Rows, inflight'[q] # None
          PROVE  Held(inflight[q])' /\ RowOf[inflight'[q]] = q /\ inflight'[q] = inflight[q]
      <3>1. inflight'[q] = inflight[q] /\ Held(inflight[q]) /\ RowOf[inflight[q]] = q
        BY <2>1, <2>2 DEF CoreOK, RegisterOK
      <3>2. inflight[q] # e
        BY <2>1, <2>2, <3>1
      <3>3. inflight[q] \in Entries
        BY <1>7, <2>2, <3>1
      <3>4. ASSUME NEW x \in Entries, x = inflight[q] PROVE Held(x)'
        BY <1>9, <3>1, <3>2, <3>4
      <3> QED
        BY <3>1, <3>3, <3>4 DEF Held
    <2>3. ASSUME NEW i \in 1 .. Len(Line')
          PROVE  \E j \in i .. Len(Line') : Line'[j] = inflight'[RowOf[Line'[i]]]
      <3>1. Line'[i] = Line[i + 1] /\ i + 1 \in 1 .. Len(Line) /\ RowOf[Line[i + 1]] \in Rows
        BY <1>3, <1>4, <1>5, <1>7
      <3>2. PICK j \in (i + 1) .. Len(Line) : Line[j] = inflight[RowOf[Line[i + 1]]]
        BY <3>1 DEF CoreOK, RegisterOK
      <3>3. j \in 1 .. Len(Line) /\ j # 1
        BY <3>2
      <3>4. inflight'[RowOf[Line[i + 1]]] = inflight[RowOf[Line[i + 1]]]
        BY <1>5, <2>1, <3>1, <3>2, <3>3
      <3>5. /\ j - 1 \in i .. Len(Line') /\ j - 1 \in 1 .. Len(Line')
            /\ (j - 1) + 1 = j
        BY <1>2, <1>3, <3>2
      <3>6. Line'[j - 1] = Line[j]
        BY <1>3, <3>5
      <3> QED
        BY <3>1, <3>2, <3>4, <3>5, <3>6
    <2>4. ASSUME NEW x \in Entries, caller'[x] = "accepted", inflight'[RowOf[x]] = None
          PROVE  RowOf[x] \in final' \cup forgotten' \cup ToSet(finished')
      <3>0. RowOf[x] \in Rows
        BY <1>7
      <3>1. CASE inflight[RowOf[x]] = None
        BY <1>0, <1>11, <2>4, <3>1 DEF CoreOK, RegisterOK
      <3>2. CASE inflight[RowOf[x]] # None
        <4>1. mine /\ RowOf[x] = RowOf[e]
          BY <2>1, <2>4, <3>0, <3>2
        <4>2. CASE Failed(e)
          BY <1>11, <4>1, <4>2
        <4>3. CASE ~Failed(e)
          <5>1. outcome[e] \in {"row", "notSettled"}
            BY <1>1, <1>2, <4>3 DEF TypeOK, Failed
          <5> QED
            BY <1>0, <1>2, <4>1, <5>1 DEF WinnersOK
        <4> QED
          BY <4>2, <4>3
      <3> QED
        BY <3>1, <3>2
    <2>5. ASSUME NEW q \in Rows, inflight'[q] # None
          PROVE  (\E i \in 1 .. Len(Line') : Line'[i] = inflight'[q]) /\ RowOf[inflight'[q]] = q
      BY <2>2, <2>5 DEF Held
    <2> QED
      BY <2>3, <2>4, <2>5 DEF RegisterOK, Held
  <1> QED
    BY <1>8, <1>10, <1>12 DEF CoreOK

\* The other steps: those of whoever waits, and those of the exit.
Bystander ==
  \/ Awaiter \/ CallFlush \/ FlushRead \/ FlushNudge \/ FlushWait \/ FlushTimeout
  \/ FlushCollect \/ StopAccepting \/ CloseStop \/ Join

LEMMA CoreStep ==
  ASSUME TypeOK, CoreOK, WinnersOK, [Next]_vars
  PROVE  CoreOK' /\ WinnersOK'
  <1>1. CASE Bystander \/ UNCHANGED vars
    <2>1. /\ UNCHANGED <<caller, channel, pending, inflight, tombVars, outcome, done, final,
                         worker, batch, effects>>
      BY <1>1
      DEF Bystander, Awaiter, AwaitLookup, AwaitReturn, CallFlush, FlushRead, FlushNudge,
          FlushWait, FlushTimeout, FlushCollect, StopAccepting, CloseStop, Join, vars, regVars,
          workVars, dbVars
    <2>2. Line' = Line
      BY <2>1 DEF Line
    <2>3. CoreOK'
      BY <2>1, <2>2, CoreStays
    <2> QED
      BY <2>1, <2>3 DEF WinnersOK, Won
  <1>2. CASE Tick \/ TakeNudge \/ TakeStop
    <2>1. /\ UNCHANGED <<caller, channel, pending, inflight, tombVars, outcome, done, final,
                         batch, effects>>
          /\ worker = "select" /\ worker' = "drain"
      BY <1>2 DEF Tick, TakeNudge, TakeStop, regVars, dbVars
    <2>2. Line' = Line /\ {worker, worker'} \cap Begun = {}
      BY <2>1 DEF Line, Begun
    <2>3. CoreOK'
      BY <2>1, <2>2, CoreStays
    <2> QED
      BY <2>1, <2>3 DEF WinnersOK, Won
  <1>3. CASE Receive \/ (Drain /\ channel # <<>>)
    <2>1. /\ UNCHANGED <<caller, pending, inflight, tombVars, outcome, done, final, effects>>
          /\ {worker, worker'} \subseteq {"select", "drain"}
          /\ channel # <<>> /\ batch' = Append(batch, Head(channel)) /\ channel' = Tail(channel)
      BY <1>3 DEF Receive, Drain, dbVars
    <2>2. Line' = Line /\ batch' # <<>> /\ {worker, worker'} \cap Begun = {}
      BY <2>1, LineTaken DEF Begun
    <2>3. CoreOK'
      BY <2>1, <2>2, CoreStays
    <2> QED
      BY <2>1, <2>3 DEF WinnersOK, Won
  <1>4. CASE Drain /\ channel = <<>>
    <2>1. /\ UNCHANGED <<caller, channel, pending, inflight, tombVars, outcome, done, final,
                         batch, effects>>
          /\ worker = "drain" /\ worker' = IF batch # <<>> THEN "write" ELSE Resume
      BY <1>4 DEF Drain, dbVars
    <2>2. Line' = Line /\ {worker, worker'} \cap Begun = {} /\ (worker' = "write" => batch' # <<>>)
      BY <2>1 DEF Line, Begun, Resume
    <2>3. CoreOK'
      BY <2>1, <2>2, CoreStays
    <2> QED
      BY <2>1, <2>3 DEF WinnersOK, Won
  <1>5. CASE Account \/ ReleaseEffects
    <2>1. /\ UNCHANGED <<caller, channel, pending, inflight, tombVars, outcome, done, final,
                         batch>>
          /\ worker \in {"account", "effects"} /\ worker' \in {"effects", "wake"}
      BY <1>5 DEF Account, ReleaseEffects, regVars
    <2>2. Line' = Line
      BY <2>1 DEF Line
    <2>3. CoreOK'
      BY <2>1, <2>2, CoreStays
    <2>4. \A x \in effects' : x \in effects \/ (Won(x) /\ x \in Entries)
      <3>1. batch # <<>> => Head(batch) \in Entries
        BY LineIs
      <3>2. batch # <<>>
        BY <2>1 DEF CoreOK, LineOK, Begun
      <3> QED
        BY <1>5, <3>1, <3>2 DEF Account, ReleaseEffects, Committed, Won
    <2> QED
      BY <2>1, <2>3, <2>4 DEF WinnersOK, Won
  <1>6. CASE WakeWaiters \/ Unregister
    <2>1. UNCHANGED <<outcome, final, effects>>
      BY <1>6 DEF WakeWaiters, Unregister, dbVars
    <2>2. CoreOK'
      BY <1>6, WakeCore, UnregisterCore
    <2> QED
      BY <2>1, <2>2 DEF WinnersOK, Won
  <1>7. CASE Write
    BY <1>7, WriteCore
  <1>8. ASSUME NEW e \in Entries, Enqueue(e) PROVE CoreOK' /\ WinnersOK'
    <2>1. UNCHANGED <<outcome, final, effects>>
      BY <1>8 DEF Enqueue, dbVars
    <2>2. CoreOK'
      BY <1>8, EnqueueCore
    <2> QED
      BY <2>1, <2>2 DEF WinnersOK, Won
  <1>9. ASSUME NEW e \in Entries, SyncWrite(e) PROVE CoreOK' /\ WinnersOK'
    BY <1>9, SyncCore
  <1> QED
    BY <1>1, <1>2, <1>3, <1>4, <1>5, <1>6, <1>7, <1>8, <1>9
    DEF Next, Deliver, Worker, Shutdown, FlushStep, Bystander

-----------------------------------------------------------------------------
(* Types, and what the exit and the waiters rely on. *)

\* What a step leaves alone keeps its type.
RegTypes ==
  /\ channel \in Seq(Entries) /\ Len(channel) <= Capacity
  /\ stopped \in BOOLEAN /\ pending \in Nat /\ idle \in Nat /\ closedIdle \subseteq Nat
  /\ inflight \in [Rows -> Entries \cup {None}]
  /\ finished \in Seq(Rows) /\ Len(finished) <= TombstoneLimit /\ forgotten \subseteq Rows
WorkTypes ==
  /\ worker \in {"select", "drain", "write", "account", "effects", "wake", "unregister", "exited"}
  /\ leaving \in BOOLEAN /\ batch \in Seq(Entries) /\ done \subseteq Entries
DbTypes ==
  /\ outcome \in [Entries -> {None, "row", "notSettled", "failed", "gap"}]
  /\ failures \in Nat /\ effects \subseteq Entries /\ final \subseteq Rows
AwaitTypes ==
  /\ await \in [Entries -> {"none", "waiting", "nil", "failed", "timeout"}]
  /\ awaited \in [Entries -> Entries \cup {None}]
FlushTypes ==
  /\ flush \in {"serving", "read", "nudge", "wait", "collect", "flushed", "closing",
                "joining", "joined"}
  /\ flushIdle \in Nat /\ flushResult \in {"none", "ok", "failed", "timeout"}
  /\ covered \subseteq Entries
CallerTypes == caller \in [Entries -> {"new", "accepted", "sync", "returned"}]

LEMMA TypesAre ==
  TypeOK <=> /\ RegTypes /\ WorkTypes /\ DbTypes /\ AwaitTypes /\ FlushTypes /\ CallerTypes
             /\ nudge \in BOOLEAN /\ stop \in BOOLEAN
  BY DEF TypeOK, RegTypes, WorkTypes, DbTypes, AwaitTypes, FlushTypes, CallerTypes

LEMMA TypesNext ==
  ASSUME RegTypes', WorkTypes', DbTypes', AwaitTypes', FlushTypes', CallerTypes',
         nudge' \in BOOLEAN, stop' \in BOOLEAN
  PROVE  TypeOK'
  BY DEF TypeOK, RegTypes, WorkTypes, DbTypes, AwaitTypes, FlushTypes, CallerTypes

LEMMA TypesStay ==
  ASSUME TypeOK
  PROVE  /\ UNCHANGED regVars => RegTypes'
         /\ UNCHANGED workVars => WorkTypes'
         /\ UNCHANGED dbVars => DbTypes'
         /\ UNCHANGED awaitVars => AwaitTypes'
         /\ UNCHANGED flushVars => FlushTypes'
         /\ UNCHANGED caller => CallerTypes'
  <1>1. RegTypes /\ WorkTypes /\ DbTypes /\ AwaitTypes /\ FlushTypes /\ CallerTypes
    BY TypesAre
  <1>2. UNCHANGED regVars => RegTypes'
    BY <1>1 DEF RegTypes, regVars, tombVars
  <1>3. UNCHANGED workVars => WorkTypes'
    BY <1>1 DEF WorkTypes, workVars
  <1>4. UNCHANGED dbVars => DbTypes'
    BY <1>1 DEF DbTypes, dbVars
  <1>5. UNCHANGED awaitVars => AwaitTypes'
    BY <1>1 DEF AwaitTypes, awaitVars
  <1>6. UNCHANGED flushVars => FlushTypes'
    BY <1>1 DEF FlushTypes, flushVars
  <1>7. UNCHANGED caller => CallerTypes'
    BY <1>1 DEF CallerTypes
  <1> QED
    BY <1>2, <1>3, <1>4, <1>5, <1>6, <1>7

LEMMA DeliveryTypes ==
  ASSUME TypeOK, CoreOK, WinnersOK, NEW e \in Entries, Enqueue(e) \/ SyncWrite(e)
  PROVE  TypeOK'
  <1>0. /\ RegTypes /\ WorkTypes /\ DbTypes /\ CallerTypes /\ nudge \in BOOLEAN /\ stop \in BOOLEAN
        /\ RowOf[e] \in Rows /\ Capacity \in Nat /\ Len(channel) \in Nat
    BY TypesAre, QueueConstants, LineIs
  <1>1. CASE Enqueue(e)
    <2>1. UNCHANGED <<nudge, stop, stopped, closedIdle, finished, forgotten, workVars, dbVars, awaitVars, flushVars>>
      BY <1>1 DEF Enqueue, tombVars
    <2>2. CallerTypes'
      BY <1>0, <1>1 DEF Enqueue, CallerTypes
    <2>3. CASE stopped \/ Len(channel) >= Capacity
      <3>1. UNCHANGED regVars
        BY <1>1, <2>1, <2>3 DEF Enqueue, regVars, tombVars
      <3> QED
        BY <1>0, <2>1, <2>2, <3>1, TypesStay, TypesNext
    <2>4. CASE ~(stopped \/ Len(channel) >= Capacity)
      <3>1. AddPending(e) /\ channel' = Append(channel, e) /\ batch' = batch
        BY <1>1, <2>1, <2>4 DEF Enqueue, workVars
      <3>2. channel' \in Seq(Entries) /\ Len(channel') = Len(channel) + 1
        BY <3>1, LineGrown
      <3>3. Len(channel') <= Capacity
        BY <1>0, <2>4, <3>2
      <3>4. /\ pending' \in Nat /\ idle' \in Nat
            /\ inflight' \in [Rows -> Entries \cup {None}]
        BY <1>0, <3>1 DEF AddPending, RegTypes
      <3>5. RegTypes'
        BY <1>0, <2>1, <3>2, <3>3, <3>4 DEF RegTypes
      <3> QED
        BY <1>0, <2>1, <2>2, <3>5, TypesStay, TypesNext
    <2> QED
      BY <2>3, <2>4
  <1>2. CASE SyncWrite(e)
    <2>1. UNCHANGED <<nudge, stop, regVars, workVars, failures, awaitVars, flushVars>>
      BY <1>2 DEF SyncWrite
    <2>2. CallerTypes'
      BY <1>0, <1>2 DEF SyncWrite, CallerTypes
    <2>3. outcome[e] = None
      BY <1>2 DEF SyncWrite, CoreOK, EntryOK, Clean
    <2>4. PICK result \in Results :
            /\ WriteRow(e, result)
            /\ effects' = IF Committed(result) THEN effects \cup {e} ELSE effects
      BY <1>2 DEF SyncWrite
    <2>5. DbTypes'
      <3>1. /\ outcome' \in [Entries -> {None, "row", "notSettled", "failed", "gap"}]
            /\ final' \subseteq Rows
        BY <2>3, <2>4, WriteSays
      <3> QED
        BY <1>0, <2>1, <2>4, <3>1 DEF DbTypes
    <2> QED
      BY <1>0, <2>1, <2>2, <2>5, TypesStay, TypesNext
  <1> QED
    BY <1>1, <1>2

LEMMA WorkerTypes ==
  ASSUME TypeOK, CoreOK, WinnersOK, Worker
  PROVE  TypeOK'
  <1>0. /\ RegTypes /\ WorkTypes /\ DbTypes /\ nudge \in BOOLEAN /\ stop \in BOOLEAN
        /\ Len(channel) \in Nat /\ Capacity \in Nat
        /\ UNCHANGED <<caller, stop, awaitVars, flushVars>>
        /\ nudge' \in BOOLEAN
    BY TypesAre, QueueConstants, LineIs
    DEF Worker, Receive, Tick, TakeNudge, TakeStop, Drain, Write, Account, ReleaseEffects,
        WakeWaiters, Unregister
  <1>1. CASE Tick \/ TakeNudge \/ TakeStop
    <2>1. UNCHANGED <<regVars, dbVars>>
      BY <1>1 DEF Tick, TakeNudge, TakeStop
    <2>2. WorkTypes'
      BY <1>0, <1>1 DEF Tick, TakeNudge, TakeStop, WorkTypes
    <2> QED
      BY <1>0, <2>1, <2>2, TypesStay, TypesNext
  <1>2. CASE Receive \/ (Drain /\ channel # <<>>)
    <2>1. /\ UNCHANGED <<stopped, pending, idle, closedIdle, inflight, finished, forgotten, dbVars,
                         leaving, done>>
          /\ worker' \in {"select", "drain"}
          /\ channel # <<>> /\ batch' = Append(batch, Head(channel)) /\ channel' = Tail(channel)
      BY <1>2 DEF Receive, Drain, tombVars
    <2>2. batch' \in Seq(Entries) /\ channel' \in Seq(Entries) /\ Len(channel') <= Len(channel)
      BY <2>1, LineTaken
    <2>3. Len(channel') \in Nat
      BY <2>2, LenProperties
    <2>4. RegTypes'
      BY <1>0, <2>1, <2>2, <2>3 DEF RegTypes
    <2>5. WorkTypes'
      BY <1>0, <2>1, <2>2 DEF WorkTypes
    <2> QED
      BY <1>0, <2>1, <2>4, <2>5, TypesStay, TypesNext
  <1>3. CASE Drain /\ channel = <<>>
    <2>1. UNCHANGED <<regVars, dbVars>>
      BY <1>3 DEF Drain, regVars, tombVars
    <2>2. WorkTypes'
      BY <1>0, <1>3 DEF Drain, WorkTypes, Resume
    <2> QED
      BY <1>0, <2>1, <2>2, TypesStay, TypesNext
  <1>4. CASE Write
    <2>1. UNCHANGED <<regVars, leaving, batch, done, failures, effects>> /\ worker' = "account"
      BY <1>4 DEF Write
    <2>2. WorkTypes'
      BY <1>0, <2>1 DEF WorkTypes
    <2>3. batch # <<>>
      BY <1>4 DEF Write, CoreOK, LineOK
    <2>4. Head(batch) = First /\ First \in Entries /\ 1 \in 1 .. Len(Line)
      BY <2>3, LineIs
    <2>5. outcome[First] = None
      BY <1>4, <2>4 DEF Write, CoreOK, LineOK, Clean, First, Begun
    <2>6. PICK result \in Results : WriteRow(First, result)
      BY <1>4, <2>4 DEF Write
    <2>7. /\ outcome' \in [Entries -> {None, "row", "notSettled", "failed", "gap"}]
          /\ final' \subseteq Rows
      BY <2>4, <2>5, <2>6, WriteSays
    <2>8. DbTypes'
      BY <1>0, <2>1, <2>7 DEF DbTypes
    <2> QED
      BY <1>0, <2>1, <2>2, <2>8, TypesStay, TypesNext
  <1>5. CASE Account \/ ReleaseEffects \/ WakeWaiters
    <2>1. UNCHANGED regVars
      BY <1>5 DEF Account, ReleaseEffects, WakeWaiters
    <2>2. Head(batch) \in Entries
      BY <1>5, LineIs DEF Account, ReleaseEffects, WakeWaiters, CoreOK, LineOK, Begun
    <2>3. WorkTypes'
      BY <1>0, <1>5, <2>2 DEF Account, ReleaseEffects, WakeWaiters, WorkTypes
    <2>4. DbTypes'
      BY <1>0, <1>5, <2>2 DEF Account, ReleaseEffects, WakeWaiters, DbTypes, dbVars
    <2> QED
      BY <1>0, <2>1, <2>3, <2>4, TypesStay, TypesNext
  <1>6. CASE Unregister
    <2> DEFINE e == Head(batch)
    <2>1. /\ UNCHANGED <<channel, stopped, idle, leaving, done, dbVars>>
          /\ pending' = pending - 1 /\ batch' = Tail(batch)
          /\ closedIdle' \subseteq closedIdle \cup {idle}
          /\ worker' \in {"write", "exited", "select"}
      BY <1>6 DEF Unregister, Resume
    <2>2. batch # <<>>
      BY <1>6 DEF Unregister, CoreOK, LineOK, Begun
    <2>3. e \in Entries /\ batch' \in Seq(Entries) /\ Len(Line) >= 1 /\ Len(Line) \in Nat
      BY <2>1, <2>2, LineIs, LineLeft
    <2>4. RowOf[e] \in Rows
      BY <2>3, QueueConstants
    <2>5. pending' \in Nat
      BY <2>1, <2>3 DEF CoreOK, LineOK
    <2>6. inflight' \in [Rows -> Entries \cup {None}]
      BY <1>0, <1>6, <2>4 DEF Unregister, RegTypes
    <2>7. /\ finished' \in Seq(Rows) /\ Len(finished') <= TombstoneLimit /\ forgotten' \subseteq Rows
      <3>1. RememberFailure(RowOf[e]) \/ UNCHANGED tombVars
        BY <1>6 DEF Unregister
      <3> QED
        BY <1>0, <2>4, <3>1, Remembered DEF RegTypes, tombVars
    <2>8. RegTypes'
      BY <1>0, <2>1, <2>5, <2>6, <2>7 DEF RegTypes
    <2>9. WorkTypes'
      BY <1>0, <2>1, <2>3 DEF WorkTypes
    <2> QED
      BY <1>0, <2>1, <2>8, <2>9, TypesStay, TypesNext
  <1> QED
    BY <1>1, <1>2, <1>3, <1>4, <1>5, <1>6 DEF Worker

LEMMA BystanderTypes ==
  ASSUME TypeOK, Bystander
  PROVE  TypeOK'
  <1>0. /\ RegTypes /\ DbTypes /\ AwaitTypes /\ FlushTypes /\ nudge \in BOOLEAN /\ stop \in BOOLEAN
    BY TypesAre
  <1>1. CASE Awaiter
    <2>1. UNCHANGED <<caller, nudge, stop, regVars, workVars, dbVars, flushVars>>
      BY <1>1 DEF Awaiter, AwaitLookup, AwaitReturn
    <2>2. PICK e \in Streams : AwaitLookup(e) \/ AwaitReturn(e)
      BY <1>1 DEF Awaiter
    <2>3. e \in Entries /\ RowOf[e] \in Rows
      BY QueueConstants
    <2>4. AwaitTypes'
      <3>1. CASE AwaitLookup(e)
        <4>1. CASE inflight[RowOf[e]] # None
          BY <1>0, <2>3, <3>1, <4>1 DEF AwaitLookup, AwaitTypes, RegTypes
        <4>2. CASE inflight[RowOf[e]] = None
          BY <1>0, <2>3, <3>1, <4>2 DEF AwaitLookup, AwaitTypes
        <4> QED
          BY <4>1, <4>2
      <3>2. CASE AwaitReturn(e)
        BY <1>0, <2>3, <3>2 DEF AwaitReturn, AwaitTypes
      <3> QED
        BY <2>2, <3>1, <3>2
    <2> QED
      BY <1>0, <2>1, <2>4, TypesStay, TypesNext
  <1>2. CASE \/ CallFlush \/ FlushRead \/ FlushNudge \/ FlushWait \/ FlushTimeout \/ CloseStop
             \/ Join
    <2>1. UNCHANGED <<caller, regVars, workVars, dbVars, awaitVars>>
      BY <1>2 DEF CallFlush, FlushRead, FlushNudge, FlushWait, FlushTimeout, CloseStop, Join
    <2>2. nudge' \in BOOLEAN /\ stop' \in BOOLEAN
      BY <1>0, <1>2 DEF CallFlush, FlushRead, FlushNudge, FlushWait, FlushTimeout, CloseStop, Join
    <2>3. FlushTypes'
      BY <1>0, <1>2
      DEF CallFlush, FlushRead, FlushNudge, FlushWait, FlushTimeout, CloseStop, Join, FlushTypes,
          RegTypes
    <2> QED
      BY <2>1, <2>2, <2>3, TypesStay, TypesNext
  <1>3. CASE FlushCollect
    <2>1. UNCHANGED <<caller, nudge, stop, regVars, workVars, awaitVars>>
      BY <1>3 DEF FlushCollect
    <2>2. DbTypes' /\ FlushTypes'
      BY <1>0, <1>3 DEF FlushCollect, DbTypes, FlushTypes
    <2> QED
      BY <1>0, <2>1, <2>2, TypesStay, TypesNext
  <1>4. CASE StopAccepting
    <2>1. UNCHANGED <<caller, nudge, stop, workVars, dbVars, awaitVars>>
      BY <1>4 DEF StopAccepting
    <2>2. RegTypes' /\ FlushTypes'
      BY <1>0, <1>4 DEF StopAccepting, RegTypes, FlushTypes, tombVars
    <2> QED
      BY <1>0, <2>1, <2>2, TypesStay, TypesNext
  <1> QED
    BY <1>1, <1>2, <1>3, <1>4 DEF Bystander

LEMMA QueueTypes ==
  ASSUME TypeOK, CoreOK, WinnersOK, [Next]_vars
  PROVE  TypeOK'
  <1>1. CASE UNCHANGED vars
    <2>1. UNCHANGED <<caller, nudge, stop, regVars, workVars, dbVars, awaitVars, flushVars>>
      BY <1>1 DEF vars
    <2>2. nudge \in BOOLEAN /\ stop \in BOOLEAN
      BY TypesAre
    <2> QED
      BY <2>1, <2>2, TypesStay, TypesNext
  <1> QED
    BY <1>1, DeliveryTypes, WorkerTypes, BystanderTypes
    DEF Next, Deliver, Shutdown, FlushStep, Bystander

\* The queue stops: first nobody is accepted, then the worker empties the line and goes.
LEMMA StopStep ==
  ASSUME TypeOK, CoreOK, StopOK, [Next]_vars
  PROVE  StopOK'
  <1>1. CASE UNCHANGED vars \/ Awaiter \/ \E e \in Entries : SyncWrite(e)
    <2>1. UNCHANGED <<stopped, stop, leaving, worker, flush, channel, batch>>
      BY <1>1 DEF vars, regVars, workVars, flushVars, Awaiter, AwaitLookup, AwaitReturn, SyncWrite
    <2> QED
      BY <2>1 DEF StopOK, Line
  <1>2. CASE \E e \in Entries : Enqueue(e)
    <2>1. /\ UNCHANGED <<stopped, stop, leaving, worker, flush, batch>>
          /\ stopped => UNCHANGED channel
      BY <1>2 DEF Enqueue, workVars, flushVars
    <2> QED
      BY <2>1 DEF StopOK, Line, Begun
  <1>3. CASE \/ CallFlush \/ FlushRead \/ FlushNudge \/ FlushWait \/ FlushTimeout \/ FlushCollect
             \/ StopAccepting \/ CloseStop \/ Join
    <2>1. UNCHANGED <<leaving, worker, channel, batch>>
      BY <1>3
      DEF CallFlush, FlushRead, FlushNudge, FlushWait, FlushTimeout, FlushCollect, StopAccepting,
          CloseStop, Join, regVars, workVars
    <2>2. Line' = Line
      BY <2>1 DEF Line
    <2>3. CASE CallFlush \/ FlushRead \/ FlushNudge \/ FlushWait \/ FlushTimeout \/ FlushCollect
      BY <2>1, <2>2, <2>3
      DEF CallFlush, FlushRead, FlushNudge, FlushWait, FlushTimeout, FlushCollect, regVars, StopOK
    <2>4. CASE StopAccepting \/ CloseStop \/ Join
      BY <2>1, <2>2, <2>4 DEF StopAccepting, CloseStop, Join, regVars, StopOK
    <2> QED
      BY <1>3, <2>3, <2>4
  <1>4. CASE Worker
    <2>0. UNCHANGED <<stopped, stop, flush>>
      BY <1>4
      DEF Worker, Receive, Tick, TakeNudge, TakeStop, Drain, Write, Account, ReleaseEffects,
          WakeWaiters, Unregister, regVars, flushVars
    <2>1. CASE Tick \/ TakeNudge \/ TakeStop
      BY <2>0, <2>1 DEF Tick, TakeNudge, TakeStop, StopOK, Begun
    <2>2. CASE Receive
      BY <2>0, <2>2 DEF Receive, StopOK, Begun
    <2>3. CASE Drain /\ channel # <<>>
      BY <2>0, <2>3 DEF Drain, StopOK, Begun
    <2>4. CASE Drain /\ channel = <<>> /\ batch # <<>>
      BY <2>0, <2>4 DEF Drain, StopOK, Begun
    <2>5. CASE Drain /\ channel = <<>> /\ batch = <<>>
      <3>1. Line = <<>>
        BY <2>5, LineIs DEF Line
      <3>2. /\ Line' = Line /\ UNCHANGED <<leaving, channel>> /\ worker = "drain"
            /\ worker' = IF leaving THEN "exited" ELSE "select"
        BY <2>5 DEF Drain, Line, Resume
      <3> QED
        BY <2>0, <3>1, <3>2 DEF StopOK, Begun
    <2>6. CASE Write \/ Account \/ ReleaseEffects \/ WakeWaiters
      BY <2>0, <2>6 DEF Write, Account, ReleaseEffects, WakeWaiters, regVars, StopOK, Begun
    <2>7. CASE Unregister
      <3>1. /\ UNCHANGED <<leaving, channel>> /\ worker = "unregister" /\ batch' = Tail(batch)
            /\ worker' = IF Len(batch) > 1 THEN "write"
                         ELSE IF leaving THEN "exited" ELSE "select"
            /\ batch # <<>>
        BY <2>7 DEF Unregister, Resume, CoreOK, LineOK, Begun
      <3>2. leaving => channel = <<>>
        BY <3>1 DEF StopOK, Begun
      <3>3. ~(Len(batch) > 1) => batch' = <<>>
        BY <3>1, LineLeft
      <3>4. leaving /\ ~(Len(batch) > 1) => Line' = <<>>
        BY <3>1, <3>2, <3>3, LineIs DEF Line
      <3> QED
        BY <2>0, <3>1, <3>2, <3>4 DEF StopOK, Begun
    <2> QED
      BY <1>4, <2>1, <2>2, <2>3, <2>4, <2>5, <2>6, <2>7 DEF Worker
  <1> QED
    BY <1>1, <1>2, <1>3, <1>4 DEF Next, Deliver, Shutdown, FlushStep

\* A failure is counted before the entry leaves the line, and the count is read when the
\* line was empty.
LEMMA FlushInvStep ==
  ASSUME TypeOK, CoreOK, FlushOK, [Next]_vars
  PROVE  FlushOK'
  <1>0. /\ \A e \in covered : e \in Entries
        /\ done \subseteq Entries /\ failures \in Nat
        /\ caller \in [Entries -> {"new", "accepted", "sync", "returned"}]
        /\ outcome \in [Entries -> {None, "row", "notSettled", "failed", "gap"}]
    BY DEF TypeOK
  <1>1. CASE UNCHANGED vars \/ Awaiter
    <2>1. UNCHANGED <<caller, outcome, failures, done, worker, batch, channel, flush, flushResult, covered>>
      BY <1>1 DEF vars, regVars, workVars, dbVars, flushVars, Awaiter, AwaitLookup, AwaitReturn
    <2>2. First' = First
      BY <2>1 DEF First, Line
    <2> QED
      BY <2>1, <2>2 DEF FlushOK, Failed
  <1>2. ASSUME NEW e \in Entries, Enqueue(e) PROVE FlushOK'
    <2>1. /\ UNCHANGED <<outcome, failures, done, worker, batch, flush, flushResult, covered>>
          /\ \A x \in Entries : caller[x] = "accepted" => caller'[x] = "accepted"
      BY <1>0, <1>2 DEF Enqueue, workVars, dbVars, flushVars
    <2>2. worker \in Begun => First' = First
      <3> SUFFICES ASSUME worker \in Begun PROVE Line'[1] = Line[1]
        BY DEF First
      <3>1. batch # <<>>
        BY DEF CoreOK, LineOK
      <3>2. 1 \in 1 .. Len(Line)
        BY <3>1, LineIs
      <3>3. CASE channel' = channel
        BY <2>1, <3>3 DEF Line
      <3>4. CASE channel' = Append(channel, e)
        BY <2>1, <3>2, <3>4, LineGrown
      <3> QED
        BY <1>2, <3>3, <3>4 DEF Enqueue
    <2> QED
      BY <1>0, <2>1, <2>2 DEF FlushOK, Failed
  <1>3. ASSUME NEW e \in Entries, SyncWrite(e) PROVE FlushOK'
    <2>1. /\ UNCHANGED <<failures, done, worker, batch, channel, flush, flushResult, covered>>
          /\ \A x \in Entries \ {e} : caller'[x] = caller[x] /\ outcome'[x] = outcome[x]
          /\ caller[e] = "sync"
      BY <1>0, <1>3 DEF SyncWrite, WriteRow, regVars, workVars, flushVars
    <2>2. First' = First
      BY <2>1 DEF First, Line
    <2>3. e \notin done /\ e \notin covered
      BY <2>1 DEF CoreOK, EntryOK, Clean, FlushOK
    <2>4. worker \in Begun => First \in Entries \ {e}
      <3>1. worker \in Begun => batch # <<>>
        BY DEF CoreOK, LineOK
      <3>2. batch # <<>> => First \in Entries /\ caller[First] = "accepted"
        BY LineIs DEF CoreOK, LineOK, First
      <3> QED
        BY <2>1, <3>1, <3>2
    <2> QED
      BY <1>0, <2>1, <2>2, <2>3, <2>4 DEF FlushOK, Failed, Begun
  <1>4. CASE Receive \/ Tick \/ TakeNudge \/ TakeStop \/ Drain \/ Unregister
    <2>1. /\ UNCHANGED <<caller, outcome, failures, done, flush, flushResult, covered>>
          /\ worker' \notin Begun
      BY <1>4 DEF Receive, Tick, TakeNudge, TakeStop, Drain, Unregister, dbVars, flushVars, Begun, Resume
    <2> QED
      BY <2>1 DEF FlushOK, Failed
  <1>5. CASE Write
    <2>0. batch # <<>>
      BY <1>5 DEF Write, CoreOK, LineOK
    <2>1. /\ UNCHANGED <<caller, failures, done, flush, flushResult, covered>>
          /\ worker = "write" /\ worker' = "account"
          /\ \A x \in Entries \ {First} : outcome'[x] = outcome[x]
      BY <1>0, <1>5, <2>0, LineIs DEF Write, WriteRow, flushVars
    <2>2. First \notin done
      BY <2>0, <2>1, LineIs DEF CoreOK, LineOK, First, Clean, Begun
    <2>3. flushResult = "ok" => First \notin covered
      BY <2>2 DEF FlushOK
    <2> QED
      BY <1>0, <2>1, <2>2, <2>3 DEF FlushOK, Failed
  <1>6. CASE Account
    <2>0. batch # <<>>
      BY <1>6 DEF Account, CoreOK, LineOK, Begun
    <2>1. /\ UNCHANGED <<caller, outcome, done, batch, channel, flush, flushResult, covered>>
          /\ failures' = IF Failed(First) THEN failures + 1 ELSE failures
      BY <1>6, <2>0, LineIs DEF Account, regVars, flushVars
    <2>2. First' = First
      BY <2>1 DEF First, Line
    <2>3. (failures > 0 => failures' > 0) /\ (Failed(First) => failures' > 0)
      BY <1>0, <2>1
    <2> QED
      BY <2>1, <2>2, <2>3 DEF FlushOK, Failed
  <1>7. CASE ReleaseEffects
    <2>1. /\ UNCHANGED <<caller, outcome, failures, done, batch, channel, flush, flushResult, covered>>
          /\ worker = "effects"
      BY <1>7 DEF ReleaseEffects, regVars, flushVars
    <2>2. First' = First
      BY <2>1 DEF First, Line
    <2> QED
      BY <2>1, <2>2 DEF FlushOK, Failed, Begun
  <1>8. CASE WakeWaiters
    <2>0. batch # <<>>
      BY <1>8 DEF WakeWaiters, CoreOK, LineOK, Begun
    <2>1. /\ UNCHANGED <<caller, outcome, failures, batch, channel, flush, flushResult, covered>>
          /\ done' = done \cup {First} /\ worker = "wake"
      BY <1>8, <2>0, LineIs DEF WakeWaiters, regVars, dbVars, flushVars
    <2>2. First' = First
      BY <2>1 DEF First, Line
    <2> QED
      BY <2>1, <2>2 DEF FlushOK, Failed, Begun
  <1>9. CASE CallFlush
    BY <1>0, <1>9 DEF CallFlush, regVars, workVars, dbVars, FlushOK, Failed, First, Line
  <1>10. CASE FlushRead
    <2>1. /\ UNCHANGED <<caller, outcome, failures, done, worker, batch, channel, flushResult, covered>>
          /\ flush = "read" /\ flush' = IF pending = 0 THEN "collect" ELSE "nudge"
      BY <1>10 DEF FlushRead, regVars, workVars, dbVars
    <2>2. First' = First
      BY <2>1 DEF First, Line
    <2>3. pending = 0 => covered \subseteq done
      <3> SUFFICES ASSUME pending = 0, NEW e \in covered PROVE e \in done
        OBVIOUS
      <3>1. e \in Entries /\ caller[e] = "accepted"
        BY <1>0 DEF FlushOK
      <3>2. ~Held(e)
        BY DEF Held, CoreOK, LineOK
      <3> QED
        BY <3>1, <3>2 DEF CoreOK, EntryOK
    <2> QED
      BY <2>1, <2>2, <2>3 DEF FlushOK, Failed
  <1>11. CASE FlushNudge \/ FlushWait \/ FlushTimeout \/ StopAccepting \/ CloseStop \/ Join
    <2>1. /\ UNCHANGED <<caller, outcome, failures, done, worker, batch, channel, covered>>
          /\ flush' \notin {"serving", "collect"}
          /\ \/ flushResult' = flushResult /\ flush \in {"nudge", "wait"}
             \/ flushResult' = flushResult /\ flush' \in {"closing", "joining", "joined"}
             \/ flushResult' = "timeout" /\ flush' = "flushed"
      BY <1>11
      DEF FlushNudge, FlushWait, FlushTimeout, StopAccepting, CloseStop, Join, regVars, workVars, dbVars
    <2>2. First' = First
      BY <2>1 DEF First, Line
    <2> QED
      BY <2>1, <2>2 DEF FlushOK, Failed
  <1>12. CASE FlushCollect
    <2>1. /\ UNCHANGED <<caller, outcome, done, covered>>
          /\ flush = "collect" /\ flush' = "flushed"
          /\ flushResult' = IF failures > 0 THEN "failed" ELSE "ok"
      BY <1>12 DEF FlushCollect, workVars
    <2> QED
      BY <1>0, <2>1 DEF FlushOK, Failed
  <1> QED
    BY <1>1, <1>2, <1>3, <1>4, <1>5, <1>6, <1>7, <1>8, <1>9, <1>10, <1>11, <1>12
    DEF Next, Deliver, Worker, Shutdown, FlushStep

\* Who waits is told what became of the entry that was registered, or of the last one.
LEMMA AwaitStep ==
  ASSUME TypeOK, CoreOK, WinnersOK, AwaitOK, [Next]_vars
  PROVE  AwaitOK'
  <1>0. /\ caller \in [Entries -> {"new", "accepted", "sync", "returned"}]
        /\ await \in [Entries -> {"none", "waiting", "nil", "failed", "timeout"}]
        /\ awaited \in [Entries -> Entries \cup {None}]
        /\ final \subseteq Rows /\ RowOf \in [Entries -> Rows] /\ Streams \subseteq Entries
        /\ outcome \in [Entries -> {None, "row", "notSettled", "failed", "gap"}]
    BY QueueConstants DEF TypeOK
  <1>1. CASE ~Awaiter
    <2>1. UNCHANGED <<await, awaited>>
      BY <1>1
      DEF Next, Deliver, Worker, Shutdown, FlushStep, Enqueue, SyncWrite, Receive, Tick, TakeNudge,
          TakeStop, Drain, Write, Account, ReleaseEffects, WakeWaiters, Unregister, CallFlush,
          FlushRead, FlushNudge, FlushWait, FlushTimeout, FlushCollect, StopAccepting, CloseStop,
          Join, awaitVars, vars
    <2>2. /\ \A e \in Entries : caller[e] \in {"accepted", "returned"} => caller'[e] = caller[e]
      <3>1. ASSUME NEW e \in Entries, Enqueue(e) \/ SyncWrite(e)
            PROVE  \A x \in Entries : caller[x] \in {"accepted", "returned"} => caller'[x] = caller[x]
        BY <1>0, <3>1 DEF Enqueue, SyncWrite
      <3>2. CASE UNCHANGED vars \/ Worker \/ Shutdown
        <4>1. UNCHANGED caller
          BY <3>2
          DEF Worker, Shutdown, FlushStep, Receive, Tick, TakeNudge,
              TakeStop, Drain, Write, Account, ReleaseEffects, WakeWaiters, Unregister, CallFlush,
              FlushRead, FlushNudge, FlushWait, FlushTimeout, FlushCollect, StopAccepting,
              CloseStop, Join, vars
        <4> QED
          BY <4>1
      <3> QED
        BY <1>1, <3>1, <3>2 DEF Next, Deliver
    <2>3. final \subseteq final' /\ forgotten \subseteq forgotten'
      <3>1. ASSUME NEW e, NEW result \in Results, WriteRow(e, result) PROVE final \subseteq final'
        BY <3>1 DEF WriteRow
      <3>2. CASE \/ \E e \in Entries : Enqueue(e) \/ SyncWrite(e)
                 \/ Write
        BY <3>1, <3>2 DEF Enqueue, SyncWrite, Write, regVars, tombVars, dbVars
      <3>3. CASE Unregister
        <4>1. \A r : RememberFailure(r) => forgotten \subseteq forgotten'
          BY DEF RememberFailure
        <4> QED
          BY <3>3, <4>1 DEF Unregister, tombVars, dbVars
      <3>4. CASE \/ UNCHANGED vars \/ Receive \/ Tick \/ TakeNudge \/ TakeStop \/ Drain \/ Account
                 \/ ReleaseEffects \/ WakeWaiters \/ Shutdown
        BY <3>4
        DEF Shutdown, FlushStep, Receive, Tick, TakeNudge, TakeStop, Drain, Account, ReleaseEffects,
            WakeWaiters, CallFlush, FlushRead, FlushNudge, FlushWait, FlushTimeout, FlushCollect,
            StopAccepting, CloseStop, Join, vars, regVars, tombVars, dbVars
      <3> QED
        BY <1>1, <3>2, <3>3, <3>4 DEF Next, Deliver, Worker
    <2>4. ASSUME NEW e \in Entries
          PROVE  /\ await'[e] # "none" => caller'[e] \in {"accepted", "returned"}
                 /\ await'[e] = "waiting" => awaited'[e] \in Entries /\ RowOf[awaited'[e]] = RowOf[e]
                 /\ await'[e] = "nil" /\ caller'[e] = "accepted" => RowOf[e] \in final' \cup forgotten'
      BY <2>1, <2>2, <2>3 DEF AwaitOK
    <2> QED
      BY <2>4 DEF AwaitOK
  <1>2. ASSUME NEW e \in Streams, AwaitLookup(e) PROVE AwaitOK'
    <2> DEFINE r == RowOf[e]
    <2>0. e \in Entries /\ r \in Rows /\ UNCHANGED <<caller, final, forgotten>>
          /\ caller[e] \in {"accepted", "returned"}
      BY <1>0, <1>2 DEF AwaitLookup, dbVars, regVars, tombVars
    <2>1. CASE inflight[r] # None
      <3>1. /\ awaited' = [awaited EXCEPT ![e] = inflight[r]]
            /\ await' = [await EXCEPT ![e] = "waiting"]
        BY <1>2, <2>1 DEF AwaitLookup
      <3>2. inflight[r] \in Entries /\ RowOf[inflight[r]] = r
        BY <2>0, <2>1 DEF CoreOK, RegisterOK, TypeOK
      <3> QED
        BY <1>0, <2>0, <3>1, <3>2 DEF AwaitOK
    <2>2. CASE inflight[r] = None
      <3>1. /\ awaited' = awaited
            /\ await' = [await EXCEPT ![e] = IF r \in ToSet(finished) THEN "failed" ELSE "nil"]
        BY <1>2, <2>2 DEF AwaitLookup
      <3>2. caller[e] = "accepted" => r \in final \cup forgotten \cup ToSet(finished)
        BY <2>0, <2>2 DEF CoreOK, RegisterOK
      <3> QED
        BY <1>0, <2>0, <3>1, <3>2 DEF AwaitOK
    <2> QED
      BY <2>1, <2>2
  <1>3. ASSUME NEW e \in Streams, AwaitReturn(e) PROVE AwaitOK'
    <2>0. e \in Entries /\ UNCHANGED <<caller, final, forgotten, awaited>> /\ await[e] = "waiting"
          /\ awaited[e] \in Entries /\ RowOf[awaited[e]] = RowOf[e]
      BY <1>0, <1>3 DEF AwaitReturn, dbVars, regVars, tombVars, AwaitOK
    <2>1. CASE await' = [await EXCEPT ![e] = "timeout"]
      BY <1>0, <2>0, <2>1 DEF AwaitOK
    <2>2. CASE /\ awaited[e] \in done
               /\ await' = [await EXCEPT ![e] = IF Failed(awaited[e]) THEN "failed" ELSE "nil"]
      <3>1. ~Failed(awaited[e]) => RowOf[e] \in final
        <4> SUFFICES ASSUME ~Failed(awaited[e]) PROVE RowOf[awaited[e]] \in final
          BY <2>0
        <4>1. outcome[awaited[e]] # None
          BY <2>0, <2>2 DEF CoreOK, EntryOK
        <4>2. outcome[awaited[e]] \in {"row", "notSettled"}
          BY <1>0, <2>0, <4>1 DEF Failed
        <4> QED
          BY <2>0, <4>2 DEF WinnersOK
      <3> QED
        BY <1>0, <2>0, <2>2, <3>1 DEF AwaitOK
    <2> QED
      BY <1>3, <2>1, <2>2 DEF AwaitReturn
  <1> QED
    BY <1>1, <1>2, <1>3 DEF Awaiter

LEMMA QueueInit == Init => QueueInv
  <1> SUFFICES ASSUME Init PROVE QueueInv
    OBVIOUS
  <1>1. /\ batch = <<>> /\ channel = <<>> /\ worker = "select" /\ done = {} /\ effects = {}
        /\ pending = 0 /\ flush = "serving" /\ flushResult = "none" /\ covered = {}
        /\ stopped = FALSE /\ stop = FALSE /\ leaving = FALSE /\ final = {} /\ forgotten = {} /\ finished = <<>>
        /\ caller = [e \in Entries |-> "new"] /\ outcome = [e \in Entries |-> None]
        /\ inflight = [r \in Rows |-> None] /\ await = [e \in Entries |-> "none"]
        /\ awaited = [e \in Entries |-> None]
        /\ nudge = FALSE /\ idle = 0 /\ closedIdle = {0} /\ failures = 0 /\ flushIdle = 0
    BY DEF Init
  <1>2. Line = <<>> /\ Len(Line) = 0
    BY <1>1 DEF Line
  <1>3. TypeOK
    <2>1. /\ <<>> \in Seq(Entries) /\ <<>> \in Seq(Rows) /\ Len(<<>>) = 0
          /\ Capacity \in Nat /\ TombstoneLimit \in Nat
      BY EmptySeq, QueueConstants
    <2>2. RegTypes
      <3>1. stopped \in BOOLEAN
        BY <1>1
      <3>2. inflight \in [Rows -> Entries \cup {None}]
        BY <1>1
      <3>3. Len(channel) <= Capacity /\ Len(finished) <= TombstoneLimit
        BY <1>1, <2>1, QueueConstants
      <3> QED
        BY <1>1, <2>1, <3>1, <3>2, <3>3 DEF RegTypes
    <2>3. WorkTypes /\ DbTypes
      BY <1>1, <2>1 DEF WorkTypes, DbTypes
    <2>4. AwaitTypes /\ FlushTypes /\ CallerTypes /\ nudge \in BOOLEAN /\ stop \in BOOLEAN
      BY <1>1 DEF AwaitTypes, FlushTypes, CallerTypes
    <2> QED
      BY <2>2, <2>3, <2>4, TypesAre
  <1>4. LineOK
    BY <1>1, <1>2 DEF LineOK, Begun
  <1>5. EntryOK
    BY <1>1 DEF EntryOK, Clean
  <1>6. FlushOK /\ StopOK
    BY <1>1, <1>2 DEF FlushOK, StopOK, Begun
  <1>7. WinnersOK
    BY <1>1, QueueConstants DEF WinnersOK, Won
  <1>8. RegisterOK /\ AwaitOK
    BY <1>1, <1>2, QueueConstants DEF RegisterOK, AwaitOK
  <1> QED
    BY <1>3, <1>4, <1>5, <1>6, <1>7, <1>8 DEF QueueInv

LEMMA QueueStep == QueueInv /\ [Next]_vars => QueueInv'
  <1> SUFFICES ASSUME QueueInv, [Next]_vars PROVE QueueInv'
    OBVIOUS
  <1>1. TypeOK /\ CoreOK /\ WinnersOK /\ FlushOK /\ StopOK /\ AwaitOK
    BY DEF QueueInv, CoreOK
  <1>2. TypeOK'
    BY <1>1, QueueTypes
  <1>3. CoreOK' /\ WinnersOK'
    BY <1>1, CoreStep
  <1>4. FlushOK' /\ StopOK' /\ AwaitOK'
    BY <1>1, FlushInvStep, StopStep, AwaitStep
  <1> QED
    BY <1>2, <1>3, <1>4 DEF QueueInv, CoreOK

LEMMA QueuePromises == QueueInv => QueueKeepsItsWord
  <1> SUFFICES ASSUME QueueInv PROVE QueueKeepsItsWord
    OBVIOUS
  <1>1. NothingStranded
    <2> SUFFICES ASSUME flush = "joined", NEW e \in Entries, caller[e] = "accepted"
                 PROVE  outcome[e] # None /\ e \in done
      BY DEF NothingStranded
    <2>1. Line = <<>>
      BY DEF QueueInv, StopOK
    <2>2. ~Held(e)
      BY <2>1 DEF Held
    <2> QED
      BY <2>2 DEF QueueInv, EntryOK
  <1>2. FlushTellsTheTruth
    BY DEF FlushTellsTheTruth, QueueInv, FlushOK
  <1>3. AwaitTellsTheTruth
    BY DEF AwaitTellsTheTruth, QueueInv, AwaitOK
  <1>4. EffectsFromTheWinner
    BY DEF EffectsFromTheWinner, QueueInv, WinnersOK, Won, TypeOK
  <1> QED
    BY <1>1, <1>2, <1>3, <1>4 DEF QueueKeepsItsWord

\* What Stop, Flush and AwaitSettlement of terminal/batch.go say when they return is true,
\* and effects are announced by the one winner, for any deliveries, capacity and faults.
THEOREM QueueHolds == Spec => []QueueKeepsItsWord
  BY QueueInit, QueueStep, QueuePromises, PTL DEF Spec

-----------------------------------------------------------------------------
(* The queue is one line.  The hand of the worker and the channel together are the line of
   SettlementLine; the mapping needs QueueInv, for what is in the line was neither written
   nor delivered before, and that the effects of a committed entry are out before the worker
   wakes whoever waits for it. *)

ReleasedOK == worker = "wake" /\ Won(Head(batch)) => Head(batch) \in effects

LEMMA ReleasedStep == QueueInv /\ ReleasedOK /\ [Next]_vars => ReleasedOK'
  <1> SUFFICES ASSUME QueueInv, ReleasedOK, [Next]_vars, worker' = "wake", Won(Head(batch))'
               PROVE  Head(batch') \in effects'
    BY DEF ReleasedOK
  <1>1. ASSUME UNCHANGED <<worker, batch, outcome>>, effects \subseteq effects'
        PROVE  Head(batch') \in effects'
    BY <1>1 DEF ReleasedOK, Won
  <1>2. ASSUME NEW e \in Entries, Enqueue(e) PROVE Head(batch') \in effects'
    BY <1>1, <1>2 DEF Enqueue, workVars, dbVars
  <1>3. ASSUME NEW e \in Entries, SyncWrite(e) PROVE Head(batch') \in effects'
    <2>1. /\ UNCHANGED <<worker, batch, channel>> /\ caller[e] = "sync"
          /\ effects \subseteq effects' /\ worker = "wake"
      BY <1>3 DEF SyncWrite, workVars, regVars
    <2>2. batch # <<>> /\ TypeOK
      BY <2>1 DEF QueueInv, LineOK, Begun
    <2>3. First = Head(batch) /\ First \in Entries /\ 1 \in 1 .. Len(Line)
      BY <2>2, LineIs
    <2>4. caller[Head(batch)] = "accepted"
      BY <2>3 DEF QueueInv, LineOK, First
    <2>5. \E result \in Results : outcome' = [outcome EXCEPT ![e] = result]
      BY <1>3 DEF SyncWrite, WriteRow
    <2>6. outcome'[Head(batch)] = outcome[Head(batch)]
      BY <2>1, <2>2, <2>3, <2>4, <2>5 DEF TypeOK
    <2> QED
      BY <2>1, <2>6 DEF ReleasedOK, Won
  <1>4. CASE Worker
    <2>1. CASE Receive \/ Tick \/ TakeNudge \/ TakeStop \/ Drain
      BY <2>1 DEF Receive, Tick, TakeNudge, TakeStop, Drain, Resume
    <2>2. CASE Write \/ Account \/ WakeWaiters \/ Unregister
      BY <2>2 DEF Write, Account, WakeWaiters, Unregister, Resume
    <2>3. CASE ReleaseEffects
      BY <2>3 DEF ReleaseEffects, Committed, Won, workVars, regVars
    <2> QED
      BY <1>4, <2>1, <2>2, <2>3 DEF Worker
  <1>5. CASE Awaiter
    BY <1>1, <1>5 DEF Awaiter, AwaitLookup, AwaitReturn, workVars, dbVars
  <1>6. CASE Shutdown
    BY <1>1, <1>6 DEF Shutdown, CallFlush, FlushTimeout, FlushStep, FlushRead, FlushNudge, FlushWait,
                      FlushCollect, StopAccepting, CloseStop, Join, workVars, dbVars
  <1>7. CASE UNCHANGED vars
    BY <1>1, <1>7 DEF vars, workVars, dbVars
  <1> QED
    BY <1>2, <1>3, <1>4, <1>5, <1>6, <1>7 DEF Next, Deliver

\* What moves between the hand and the channel stays in the line.
LEMMA LineMovesOn ==
  ASSUME Line' = Line, UNCHANGED <<outcome, effects, done, final>>
  PROVE  [Promised!LineNext]_Promised!lineVars
  BY DEF Promised!lineVars

\* The write of one entry decides it.
LEMMA WriteDecides ==
  ASSUME NEW e \in Entries, outcome[e] = None, NEW result \in Results, WriteRow(e, result)
  PROVE  result \in Promised!Fates /\ Promised!Decide(e, result)
  <1>1. result \in Promised!Fates
    BY DEF Results, Promised!Fates
  <1>2. /\ result \in {"row", "gap"} => RowOf[e] \notin final
        /\ outcome' = [outcome EXCEPT ![e] = result]
        /\ final' \in {final, final \cup {RowOf[e]}}
        /\ result # "failed" => RowOf[e] \in final'
    BY DEF WriteRow
  <1> QED
    BY <1>1, <1>2 DEF Promised!Decide

LEMMA DeliveryInLine ==
  ASSUME QueueInv, NEW e \in Entries, Enqueue(e) \/ SyncWrite(e)
  PROVE  [Promised!LineNext]_Promised!lineVars
  <1>0. TypeOK /\ batch \in Seq(Entries) /\ channel \in Seq(Entries)
    BY DEF QueueInv, TypeOK
  <1>1. ASSUME caller[e] # "accepted" PROVE ~Promised!Standing(e)
    BY <1>1 DEF QueueInv, LineOK, Promised!Standing
  <1>2. ASSUME caller[e] \in {"new", "sync"} PROVE outcome[e] = None
    BY <1>2 DEF QueueInv, EntryOK, Clean
  <1>3. CASE Enqueue(e) /\ (stopped \/ Len(channel) >= Capacity)
    <2>1. UNCHANGED <<channel, batch, outcome, effects, done, final>>
      BY <1>3 DEF Enqueue, workVars, dbVars
    <2>2. Line' = Line
      BY <2>1 DEF Line
    <2> QED
      BY <2>1, <2>2, LineMovesOn
  <1>4. CASE Enqueue(e) /\ ~(stopped \/ Len(channel) >= Capacity)
    <2>1. /\ caller[e] = "new" /\ channel' = Append(channel, e)
          /\ UNCHANGED <<batch, outcome, effects, done, final>>
      BY <1>4 DEF Enqueue, workVars, dbVars
    <2>2. Line' = Append(Line, e)
      <3>1. /\ Len(Line') = Len(Line) + 1
            /\ \A i \in 1 .. Len(Line) : Line'[i] = Line[i]
            /\ Line'[Len(Line) + 1] = e
            /\ channel' \in Seq(Entries)
        BY <1>0, <2>1, LineGrown
      <3>2. Line \in Seq(Entries) /\ Len(Line) \in Nat
        BY <1>0, LineIs
      <3>3. /\ Append(Line, e) \in Seq(Entries) /\ Len(Append(Line, e)) = Len(Line) + 1
            /\ \A i \in 1 .. Len(Line) : Append(Line, e)[i] = Line[i]
            /\ Append(Line, e)[Len(Line) + 1] = e
        BY <3>2, AppendProperties
      <3>4. Line' \in Seq(Entries)
        BY <1>0, <2>1, <3>1, ConcatProperties DEF Line
      <3>5. \A i \in 1 .. Len(Line') : Line'[i] = Append(Line, e)[i]
        BY <3>1, <3>2, <3>3
      <3> QED
        BY <3>1, <3>3, <3>4, <3>5, SeqEqual
    <2>3. Promised!JoinLine(e)
      BY <1>1, <1>2, <2>1, <2>2 DEF Promised!JoinLine
    <2> QED
      BY <2>3 DEF Promised!LineNext
  <1>5. CASE SyncWrite(e)
    <2>1. /\ caller[e] = "sync" /\ UNCHANGED <<batch, channel, done>>
      BY <1>5 DEF SyncWrite, regVars, workVars
    <2>2. outcome[e] = None /\ ~Promised!Standing(e)
      BY <1>1, <1>2, <2>1
    <2>3. PICK result \in Results :
            /\ WriteRow(e, result)
            /\ effects' = IF Committed(result) THEN effects \cup {e} ELSE effects
      BY <1>5 DEF SyncWrite
    <2>4. result \in Promised!Fates /\ Promised!Decide(e, result)
      BY <2>2, <2>3, WriteDecides
    <2>5. outcome'[e] = result
      BY <1>0, <2>3 DEF WriteRow, TypeOK
    <2>6. Line' = Line
      BY <2>1 DEF Line
    <2>7. Promised!DecideAside(e)
      BY <2>1, <2>2, <2>3, <2>4, <2>5, <2>6 DEF Promised!DecideAside, Committed
    <2> QED
      BY <2>7 DEF Promised!LineNext
  <1> QED
    BY <1>3, <1>4, <1>5

LEMMA WorkerInLine ==
  ASSUME QueueInv, ReleasedOK, Worker
  PROVE  [Promised!LineNext]_Promised!lineVars
  <1>0. TypeOK /\ batch \in Seq(Entries) /\ channel \in Seq(Entries)
    BY DEF QueueInv, TypeOK
  <1>1. ASSUME batch # <<>>
        PROVE  /\ Line # <<>> /\ First = Head(Line) /\ First = Head(batch) /\ First \in Entries
               /\ 1 \in 1 .. Len(Line)
    BY <1>0, <1>1, LineIs DEF First
  <1>2. CASE UNCHANGED <<batch, channel, outcome, effects, done, final>>
    <2>1. Line' = Line
      BY <1>2 DEF Line
    <2> QED
      BY <1>2, <2>1, LineMovesOn
  <1>3. CASE Tick \/ TakeNudge \/ TakeStop \/ Account
    BY <1>2, <1>3 DEF Tick, TakeNudge, TakeStop, Account, regVars, dbVars
  <1>4. CASE Receive \/ Drain
    <2>1. UNCHANGED <<outcome, effects, done, final>>
      BY <1>4 DEF Receive, Drain, dbVars
    <2>2. CASE channel # <<>>
      <3>1. batch' = Append(batch, Head(channel)) /\ channel' = Tail(channel)
        BY <1>4, <2>2 DEF Receive, Drain
      <3> QED
        BY <1>0, <2>1, <2>2, <3>1, LineTaken, LineMovesOn
    <2>3. CASE channel = <<>>
      <3>1. UNCHANGED <<batch, channel>>
        BY <1>4, <2>3 DEF Receive, Drain
      <3> QED
        BY <1>2, <2>1, <3>1
    <2> QED
      BY <2>2, <2>3
  <1>5. CASE Write
    <2>1. worker = "write" /\ UNCHANGED <<batch, channel, effects, done>>
      BY <1>5 DEF Write, regVars
    <2>2. batch # <<>>
      BY <2>1 DEF QueueInv, LineOK
    <2>3. Line' = Line
      BY <2>1 DEF Line
    <2>4. outcome[First] = None
      <3>1. worker \notin Begun
        BY <2>1 DEF Begun
      <3> QED
        BY <1>1, <2>2, <3>1 DEF QueueInv, LineOK, Clean, First
    <2>5. PICK result \in Results : WriteRow(First, result)
      BY <1>1, <1>5, <2>2 DEF Write
    <2>6. result \in Promised!Fates /\ Promised!Decide(Head(Line), result)
      BY <1>1, <2>2, <2>4, <2>5, WriteDecides
    <2>7. Promised!DecideFirst
      BY <1>1, <2>1, <2>2, <2>3, <2>6 DEF Promised!DecideFirst
    <2> QED
      BY <2>7 DEF Promised!LineNext
  <1>6. CASE ReleaseEffects
    <2>1. /\ worker = "effects" /\ UNCHANGED <<batch, channel, outcome, done, final>>
          /\ effects' = IF Committed(outcome[Head(batch)]) THEN effects \cup {Head(batch)} ELSE effects
      BY <1>6 DEF ReleaseEffects, regVars
    <2>2. batch # <<>> /\ First \notin done
      BY <2>1 DEF QueueInv, LineOK, Begun
    <2>3. Line' = Line
      BY <2>1 DEF Line
    <2>4. CASE Committed(outcome[Head(batch)])
      <3>1. Promised!ReleaseFirst
        BY <1>1, <2>1, <2>2, <2>3, <2>4 DEF Promised!ReleaseFirst, Promised!Committed, Committed
      <3> QED
        BY <3>1 DEF Promised!LineNext
    <2>5. CASE ~Committed(outcome[Head(batch)])
      BY <2>1, <2>3, <2>5, LineMovesOn
    <2> QED
      BY <2>4, <2>5
  <1>7. CASE WakeWaiters
    <2>1. /\ worker = "wake" /\ UNCHANGED <<batch, channel, outcome, effects, final>>
          /\ done' = done \cup {Head(batch)}
      BY <1>7 DEF WakeWaiters, regVars, dbVars
    <2>2. batch # <<>> /\ outcome[First] # None
      BY <2>1 DEF QueueInv, LineOK, Begun
    <2>3. Line' = Line
      BY <2>1 DEF Line
    <2>4. Promised!Committed(Head(Line)) => Head(Line) \in effects
      BY <1>1, <2>1, <2>2 DEF ReleasedOK, Won, Promised!Committed
    <2>5. Promised!TellFirst
      BY <1>1, <2>1, <2>2, <2>3, <2>4 DEF Promised!TellFirst
    <2> QED
      BY <2>5 DEF Promised!LineNext
  <1>8. CASE Unregister
    <2>1. /\ worker = "unregister" /\ UNCHANGED <<channel, outcome, effects, done, final>>
          /\ batch' = Tail(batch)
      BY <1>8 DEF Unregister, dbVars
    <2>2. batch # <<>> /\ First \in done
      BY <2>1 DEF QueueInv, LineOK, Begun
    <2>3. Line' = Tail(Line)
      <3>1. /\ Len(Line') = Len(Line) - 1
            /\ \A i \in 1 .. Len(Line') : Line'[i] = Line[i + 1]
            /\ batch' \in Seq(Entries)
        BY <1>0, <2>1, <2>2, LineLeft
      <3>2. Line \in Seq(Entries) /\ Line # <<>>
        BY <1>0, <1>1, <2>2, LineIs
      <3>3. /\ Tail(Line) \in Seq(Entries) /\ Len(Tail(Line)) = Len(Line) - 1
            /\ \A i \in 1 .. Len(Tail(Line)) : Tail(Line)[i] = Line[i + 1]
        BY <3>2, HeadTailProperties
      <3>4. Line' \in Seq(Entries)
        BY <1>0, <2>1, <3>1, ConcatProperties DEF Line
      <3>5. Len(Line') = Len(Tail(Line)) /\ \A i \in 1 .. Len(Line') : Line'[i] = Tail(Line)[i]
        BY <3>1, <3>3
      <3> QED
        BY <3>3, <3>4, <3>5, SeqEqual
    <2>4. Promised!LeaveLine
      BY <1>1, <2>1, <2>2, <2>3 DEF Promised!LeaveLine
    <2> QED
      BY <2>4 DEF Promised!LineNext
  <1> QED
    BY <1>3, <1>4, <1>5, <1>6, <1>7, <1>8 DEF Worker

LEMMA BystandersInLine ==
  ASSUME Awaiter \/ Shutdown \/ UNCHANGED vars
  PROVE  [Promised!LineNext]_Promised!lineVars
  <1>1. UNCHANGED <<batch, channel, outcome, effects, done, final>>
    <2>1. CASE Awaiter
      BY <2>1 DEF Awaiter, AwaitLookup, AwaitReturn, workVars, dbVars, regVars
    <2>2. CASE Shutdown
      BY <2>2 DEF Shutdown, CallFlush, FlushTimeout, FlushStep, FlushRead, FlushNudge, FlushWait,
                  FlushCollect, StopAccepting, CloseStop, Join, workVars, dbVars, regVars
    <2>3. CASE UNCHANGED vars
      BY <2>3 DEF vars, workVars, dbVars, regVars
    <2> QED
      BY <2>1, <2>2, <2>3
  <1>2. Line' = Line
    BY <1>1 DEF Line
  <1> QED
    BY <1>1, <1>2, LineMovesOn

\* terminal/batch.go implements one line: whoever is accepted is written in the order of
\* acceptance and once, terminal state, effects and the release of the waiters follow each
\* other in this order, and a delivery that was turned away never enters; for any number of
\* deliveries, rows, any capacity, batch size and fault.
THEOREM QueueImplementsLine == Spec => QueueIsALine
  <1>1. Init => QueueInv /\ ReleasedOK /\ Promised!LineInit
    <2> SUFFICES ASSUME Init PROVE ReleasedOK /\ Promised!LineInit
      BY QueueInit
    <2>1. /\ batch = <<>> /\ channel = <<>> /\ worker = "select" /\ done = {} /\ effects = {}
          /\ outcome = [e \in Entries |-> None] /\ final = {}
      BY DEF Init
    <2>2. Line = <<>>
      BY <2>1 DEF Line
    <2> QED
      BY <2>1, <2>2 DEF ReleasedOK, Promised!LineInit
  <1>2. QueueInv /\ ReleasedOK /\ [Next]_vars => [Promised!LineNext]_Promised!lineVars
    <2> SUFFICES ASSUME QueueInv, ReleasedOK, [Next]_vars
                 PROVE  [Promised!LineNext]_Promised!lineVars
      OBVIOUS
    <2>1. CASE Deliver
      BY <2>1, DeliveryInLine DEF Deliver
    <2>2. CASE Worker
      BY <2>2, WorkerInLine
    <2>3. CASE Awaiter \/ Shutdown \/ UNCHANGED vars
      BY <2>3, BystandersInLine
    <2> QED
      BY <2>1, <2>2, <2>3 DEF Next
  <1> QED
    BY <1>1, <1>2, QueueStep, ReleasedStep, PTL DEF Spec, QueueIsALine, Promised!LineSpec

-----------------------------------------------------------------------------
(* The composition. *)

\* Every step of the composition is a step of the gate or leaves the gate alone.
LEMMA StepOfTheGate == [NextAll]_allVars => [DoorNext]_doorVars
  <1> SUFFICES ASSUME [NextAll]_allVars PROVE [DoorNext]_doorVars
    OBVIOUS
  <1> USE OneGate
  <1>1. ASSUME NEW e \in Entries, Arrive(e) PROVE DoorNext
    BY <1>1 DEF Arrive, DoorNext
  <1>2. ASSUME NEW e \in Entries, Begin(e) \/ Settle(e) \/ Finish(e) \/ GiveUp(e)
        PROVE  UNCHANGED doorVars
    BY <1>2 DEF Begin, Settle, Finish, GiveUp
  <1>3. ASSUME NEW e \in Entries, Return(e) PROVE DoorNext
    BY <1>3 DEF Return, DoorNext
  <1>4. CASE QueueWorker \/ StreamWaits  BY <1>4 DEF QueueWorker, StreamWaits
  <1>5. CASE Signal \/ Draining  BY <1>5 DEF Signal, Draining, DoorNext
  <1>6. CASE WaitSettlements \/ SettlementsWaited \/ FlushAndStop \/ ClosePools
    BY <1>6 DEF WaitSettlements, SettlementsWaited, FlushAndStop, ClosePools
  <1>7. CASE UNCHANGED allVars  BY <1>7 DEF allVars
  <1> QED BY <1>1, <1>2, <1>3, <1>4, <1>5, <1>6, <1>7 DEF NextAll

\* cmd/cchd/boot.go drives egress/frontdoor.go only through its operations.
THEOREM ExitKeepsTheDoor == SpecAll => DoorSpec
  <1>1. InitAll => DoorInit  BY DEF InitAll
  <1> QED BY <1>1, StepOfTheGate, PTL DEF SpecAll, DoorSpec

\* In the running process the counter of the gate is the number of handlers inside.
THEOREM ExitCountsExactly == SpecAll => []CountExact
  BY ExitKeepsTheDoor, CounterExact, PTL

\* When the front door of the running process was drained, no handler is inside while
\* the next stages of the exit run.
THEOREM ExitDrainSafe == SpecAll => []DrainedMeansEmpty
  BY ExitKeepsTheDoor, DrainSafe, PTL

\* And every step of the composition is a step of the queue or leaves the queue alone.
LEMMA StepOfTheQueue == [NextAll]_allVars => [Next]_vars
  <1> SUFFICES ASSUME [NextAll]_allVars PROVE [Next]_vars
    OBVIOUS
  <1>1. ASSUME NEW e \in Entries, Settle(e) PROVE Next
    BY <1>1 DEF Settle, Deliver, Next
  <1>2. ASSUME NEW e \in Entries,
               Arrive(e) \/ Begin(e) \/ Finish(e) \/ GiveUp(e) \/ Return(e)
        PROVE  UNCHANGED vars
    BY <1>2 DEF Arrive, Begin, Finish, GiveUp, Return
  <1>3. CASE QueueWorker  BY <1>3 DEF QueueWorker, Next
  <1>4. CASE StreamWaits  BY <1>4 DEF StreamWaits, Next
  <1>5. CASE FlushAndStop  BY <1>5 DEF FlushAndStop, Next
  <1>6. CASE Signal \/ Draining \/ WaitSettlements \/ SettlementsWaited \/ ClosePools
    BY <1>6 DEF Signal, Draining, WaitSettlements, SettlementsWaited, ClosePools
  <1>7. CASE UNCHANGED allVars  BY <1>7 DEF allVars
  <1> QED BY <1>1, <1>2, <1>3, <1>4, <1>5, <1>6, <1>7 DEF NextAll

\* cmd/cchd/boot.go and dataplane/stream.go drive terminal/batch.go only through its
\* operations.
THEOREM ExitKeepsTheQueue == SpecAll => Spec
  <1>1. InitAll => Init  BY DEF InitAll
  <1> QED BY <1>1, StepOfTheQueue, PTL DEF SpecAll, Spec

\* In the running process Stop, Flush and AwaitSettlement tell the truth.
THEOREM ExitKeepsItsWord == SpecAll => []QueueKeepsItsWord
  BY ExitKeepsTheQueue, QueueHolds, PTL

\* In the running process too a settlement is decided, announced and released in the order
\* of its acceptance, whatever the exit sequence does meanwhile.
THEOREM ExitIsALine == SpecAll => QueueIsALine
  BY ExitKeepsTheQueue, QueueImplementsLine

\* In the running process Drain never sleeps past the last handler's leaving.
THEOREM ExitSleepersAreWoken == SpecAll => []NoLostWakeup
  BY ExitKeepsTheDoor, SleepersAreWoken, PTL

-----------------------------------------------------------------------------
(* What a clean exit promises.  Each stage of the exit sequence closes one source of
   settlements: the gate those of handlers, the tracker those of streams, so that the flush
   covers whatever was accepted. *)

\* A stream is off the tracker, and a handler out of the house, when its settlement was
\* delivered; a handler leaves its stream behind only behind the barrier.
DeliveryOK ==
  /\ tracked \subseteq Streams /\ barrier \subseteq Streams
  /\ \A e \in barrier : e \in tracked \/ Delivered(e)
  /\ \A e \in Entries : where[e] = "left" => IF e \in Streams THEN e \in barrier ELSE Delivered(e)
  /\ \A e \in Entries : caller[e] = "returned" => outcome[e] # None

\* The stages of the exit, in their order.
StagesOK ==
  /\ tracker \in {"idle", "waiting", "empty", "timeout"}
  /\ tracker # "idle" => waiter \in {"empty", "timeout"}
  /\ flush # "serving" => tracker \in {"empty", "timeout"}
  /\ poolsClosed => flush = "joined"

\* Nobody is left who could deliver anything.
AllGone == waiter = "empty" /\ tracker = "empty"
CoverOK ==
  AllGone =>
    /\ tracked = {}
    /\ flush # "serving" => \A e \in Entries : caller[e] = "accepted" => e \in covered

ExitInv == DoorInv /\ QueueInv /\ DeliveryOK /\ StagesOK /\ CoverOK

\* A delivery is final, and a write leaves a result.
LEMMA DeliveryIsFinal ==
  ASSUME TypeOK, [Next]_vars, NEW e \in Entries
  PROVE  /\ Delivered(e) => caller'[e] = caller[e]
         /\ outcome[e] # None => outcome'[e] # None
         /\ caller'[e] = "returned" => caller[e] = "returned" \/ outcome'[e] # None
  <1> DEFINE Goal == /\ Delivered(e) => caller'[e] = caller[e]
                     /\ outcome[e] # None => outcome'[e] # None
                     /\ caller'[e] = "returned" => caller[e] = "returned" \/ outcome'[e] # None
  <1>t. /\ caller \in [Entries -> {"new", "accepted", "sync", "returned"}]
        /\ outcome \in [Entries -> {None, "row", "notSettled", "failed", "gap"}]
    BY DEF TypeOK
  <1>n. None \notin Results
    BY QueueConstants DEF Results
  <1>1. ASSUME NEW d \in Entries, Enqueue(d) PROVE Goal
    <2>1. caller[d] = "new" /\ outcome' = outcome
      BY <1>1 DEF Enqueue, dbVars
    <2>2. caller' \in {[caller EXCEPT ![d] = "sync"], [caller EXCEPT ![d] = "accepted"]}
      BY <1>1 DEF Enqueue
    <2> QED BY <1>t, <2>1, <2>2 DEF Delivered
  <1>2. ASSUME NEW d \in Entries, SyncWrite(d) PROVE Goal
    <2>1. PICK result \in Results : outcome' = [outcome EXCEPT ![d] = result]
      BY <1>2 DEF SyncWrite, WriteRow
    <2>2. caller[d] = "sync" /\ caller' = [caller EXCEPT ![d] = "returned"]
      BY <1>2 DEF SyncWrite
    <2> QED BY <1>t, <1>n, <2>1, <2>2 DEF Delivered
  <1>3. CASE Write
    <2>1. PICK result \in Results : outcome' = [outcome EXCEPT ![Head(batch)] = result]
      BY <1>3 DEF Write, WriteRow
    <2>2. caller' = caller
      BY <1>3 DEF Write
    <2> QED BY <1>t, <1>n, <2>1, <2>2
  <1>4. CASE Receive \/ Tick \/ TakeNudge \/ TakeStop \/ Drain \/ Account \/ ReleaseEffects
               \/ WakeWaiters \/ Unregister
    <2>1. caller' = caller /\ outcome' = outcome
      BY <1>4 DEF Receive, Tick, TakeNudge, TakeStop, Drain, Account, ReleaseEffects,
                  WakeWaiters, Unregister, dbVars
    <2> QED BY <2>1
  <1>5. CASE Awaiter \/ Shutdown \/ UNCHANGED vars
    <2>1. caller' = caller /\ outcome' = outcome
      BY <1>5 DEF Awaiter, AwaitLookup, AwaitReturn, Shutdown, CallFlush, FlushTimeout,
                  FlushStep, FlushRead, FlushNudge, FlushWait, FlushCollect, StopAccepting,
                  CloseStop, Join, dbVars, vars
    <2> QED BY <2>1
  <1> QED BY <1>1, <1>2, <1>3, <1>4, <1>5 DEF Next, Deliver, Worker

\* Nothing but a settlement makes an entry accepted, and nothing but CallFlush covers more.
LEMMA AcceptedBySettling ==
  ASSUME TypeOK, [NextAll]_allVars, NEW e \in Entries, caller'[e] = "accepted"
  PROVE  caller[e] = "accepted" \/ Settle(e)
  <1>t. caller \in [Entries -> {"new", "accepted", "sync", "returned"}]
    BY DEF TypeOK
  <1>1. ASSUME NEW d \in Entries, Settle(d) PROVE caller[e] = "accepted" \/ Settle(e)
    <2>1. CASE d = e  BY <1>1, <2>1
    <2>2. CASE d # e
      <3>1. \E x \in {"sync", "accepted", "returned"} : caller' = [caller EXCEPT ![d] = x]
        BY <1>1 DEF Settle, Enqueue, SyncWrite
      <3> QED BY <1>t, <2>2, <3>1
    <2> QED BY <2>1, <2>2
  <1>2. ASSUME NEW d \in Entries,
               Arrive(d) \/ Begin(d) \/ Finish(d) \/ GiveUp(d) \/ Return(d)
        PROVE  caller' = caller
    BY <1>2 DEF Arrive, Begin, Finish, GiveUp, Return, vars
  <1>3. CASE QueueWorker
    BY <1>3 DEF QueueWorker, Worker, Receive, Tick, TakeNudge, TakeStop, Drain, Write, Account,
                ReleaseEffects, WakeWaiters, Unregister
  <1>4. CASE StreamWaits \/ FlushAndStop
    BY <1>4 DEF StreamWaits, Awaiter, AwaitLookup, AwaitReturn, FlushAndStop, Shutdown,
                CallFlush, FlushTimeout, FlushStep, FlushRead, FlushNudge, FlushWait,
                FlushCollect, StopAccepting, CloseStop, Join
  <1>5. CASE Signal \/ Draining \/ WaitSettlements \/ SettlementsWaited \/ ClosePools
               \/ UNCHANGED allVars
    BY <1>5 DEF Signal, Draining, WaitSettlements, SettlementsWaited, ClosePools, vars, allVars
  <1> QED BY <1>1, <1>2, <1>3, <1>4, <1>5 DEF NextAll

LEMMA DeliveryStep ==
  ASSUME DoorInv, QueueInv, DeliveryOK, [NextAll]_allVars
  PROVE  DeliveryOK'
  <1>t. /\ TypeOK /\ where \in [Entries -> {"outside", "inside", "left", "refused"}]
    BY OneGate DEF DoorInv, DoorTypeOK, QueueInv
  <1>n. [Next]_vars
    BY StepOfTheQueue
  <1>d. \A e \in Entries : Delivered(e) => Delivered(e)'
    BY <1>t, <1>n, DeliveryIsFinal DEF Delivered
  <1>r. \A e \in Entries : caller'[e] = "returned" => outcome'[e] # None
    BY <1>t, <1>n, DeliveryIsFinal DEF DeliveryOK
  <1>s. Streams \subseteq Entries
    BY QueueConstants
  <1>k. ASSUME tracked' = tracked, barrier' = barrier, where' = where PROVE DeliveryOK'
    BY <1>k, <1>d, <1>r, <1>s DEF DeliveryOK
  <1>1. ASSUME NEW a \in Entries, Arrive(a) PROVE DeliveryOK'
    <2>1. tracked' = tracked /\ barrier' = barrier
      BY <1>1 DEF Arrive, exitVars
    <2>2. \A e \in Entries : where'[e] = "left" => where[e] = "left"
      BY <1>1, <1>t DEF Arrive, TryEnter
    <2> QED BY <2>1, <2>2, <1>d, <1>r, <1>s DEF DeliveryOK
  <1>2. ASSUME NEW a \in Entries, Return(a) PROVE DeliveryOK'
    <2>1. tracked' = tracked /\ barrier' = barrier
      BY <1>2 DEF Return, exitVars
    <2>2. \A e \in Entries : where'[e] = "left" => where[e] = "left" \/ e = a
      BY <1>2, <1>t DEF Return, Leave
    <2>3. IF a \in Streams THEN a \in barrier ELSE Delivered(a)
      BY <1>2 DEF Return
    <2> QED BY <2>1, <2>2, <2>3, <1>d, <1>r, <1>s DEF DeliveryOK
  <1>3. ASSUME NEW a \in Entries, Begin(a) PROVE DeliveryOK'
    <2>1. tracked' = tracked \cup {a} /\ barrier' = barrier /\ where' = where /\ a \in Streams
      BY <1>3 DEF Begin, doorVars, gateVars
    <2> QED BY <2>1, <1>d, <1>r, <1>s DEF DeliveryOK
  <1>4. ASSUME NEW a \in Entries, Finish(a) PROVE DeliveryOK'
    <2>1. /\ tracked' = tracked \ {a} /\ barrier' = barrier \cup {a} /\ where' = where
          /\ a \in tracked /\ Delivered(a)
      BY <1>4 DEF Finish, doorVars, gateVars
    <2> QED BY <2>1, <1>d, <1>r, <1>s DEF DeliveryOK
  <1>5. ASSUME NEW a \in Entries, GiveUp(a) PROVE DeliveryOK'
    <2>1. /\ tracked' = tracked /\ barrier' = barrier \cup {a} /\ where' = where
          /\ a \in tracked
      BY <1>5 DEF GiveUp, doorVars, gateVars
    <2> QED BY <2>1, <1>d, <1>r, <1>s DEF DeliveryOK
  <1>6. ASSUME NEW a \in Entries, Settle(a) PROVE DeliveryOK'
    BY <1>6, <1>k DEF Settle, doorVars, gateVars, exitVars
  <1>7. CASE QueueWorker \/ StreamWaits \/ FlushAndStop
    BY <1>7, <1>k DEF QueueWorker, StreamWaits, FlushAndStop, doorVars, gateVars, exitVars
  <1>8. CASE Signal \/ Draining
    BY <1>8, <1>k DEF Signal, Draining, BeginDrain, CheckEmpty, Expire, WatchContext,
                      gateVars, exitVars
  <1>9. CASE WaitSettlements \/ SettlementsWaited \/ ClosePools \/ UNCHANGED allVars
    BY <1>9, <1>k DEF WaitSettlements, SettlementsWaited, ClosePools, allVars, doorVars,
                      gateVars, exitVars
  <1> QED BY <1>1, <1>2, <1>3, <1>4, <1>5, <1>6, <1>7, <1>8, <1>9 DEF NextAll

\* Once Drain returned, its answer stays.
LEMMA AnswerStays ==
  ASSUME [NextAll]_allVars, waiter \in {"empty", "timeout"}
  PROVE  waiter' = waiter
  <1>1. [DoorNext]_doorVars
    BY StepOfTheGate
  <1>2. ASSUME NEW r \in Requests, TryEnter(r) \/ Leave(r) PROVE waiter' = waiter
    BY <1>2 DEF TryEnter, Leave, Wake, waitVars
  <1>3. CASE BeginDrain \/ CheckEmpty \/ Expire \/ WatchContext
    BY <1>3 DEF BeginDrain, CheckEmpty, Expire, WatchContext, Wake
  <1>4. CASE UNCHANGED doorVars
    BY <1>4 DEF doorVars, waitVars
  <1> QED BY <1>1, <1>2, <1>3, <1>4 DEF DoorNext

LEMMA StagesStep ==
  ASSUME DoorInv, QueueInv, StagesOK, [NextAll]_allVars
  PROVE  StagesOK'
  <1>w. tracker # "idle" => waiter' \in {"empty", "timeout"}
    BY AnswerStays DEF StagesOK
  <1>1. ASSUME NEW a \in Entries,
               Arrive(a) \/ Begin(a) \/ Finish(a) \/ GiveUp(a) \/ Return(a)
        PROVE  StagesOK'
    <2>1. tracker' = tracker /\ poolsClosed' = poolsClosed /\ flush' = flush
      BY <1>1 DEF Arrive, Begin, Finish, GiveUp, Return, exitVars, vars, flushVars
    <2> QED BY <1>w, <2>1 DEF StagesOK
  <1>2. ASSUME NEW a \in Entries, Settle(a) PROVE StagesOK'
    <2>1. tracker' = tracker /\ poolsClosed' = poolsClosed /\ flush' = flush
      BY <1>2 DEF Settle, Enqueue, SyncWrite, exitVars, flushVars
    <2> QED BY <1>w, <2>1 DEF StagesOK
  <1>3. CASE QueueWorker
    <2>1. tracker' = tracker /\ poolsClosed' = poolsClosed
      BY <1>3 DEF QueueWorker, exitVars
    <2>2. flush' = flush
      BY <1>3 DEF QueueWorker, Worker, Receive, Tick, TakeNudge, TakeStop, Drain, Write,
                  Account, ReleaseEffects, WakeWaiters, Unregister, flushVars
    <2> QED BY <1>w, <2>1, <2>2 DEF StagesOK
  <1>4. CASE StreamWaits
    <2>1. tracker' = tracker /\ poolsClosed' = poolsClosed /\ flush' = flush
      BY <1>4 DEF StreamWaits, Awaiter, AwaitLookup, AwaitReturn, exitVars, flushVars
    <2> QED BY <1>w, <2>1 DEF StagesOK
  <1>5. CASE Signal \/ Draining
    <2>1. tracker' = tracker /\ poolsClosed' = poolsClosed /\ flush' = flush
      BY <1>5 DEF Signal, Draining, exitVars, vars, flushVars
    <2> QED BY <1>w, <2>1 DEF StagesOK
  <1>6. CASE WaitSettlements
    <2>1. /\ waiter \in {"empty", "timeout"} /\ waiter' = waiter /\ tracker' = "waiting"
          /\ tracker = "idle" /\ poolsClosed' = poolsClosed /\ flush' = flush
      BY <1>6 DEF WaitSettlements, doorVars, waitVars, vars, flushVars
    <2> QED BY <2>1 DEF StagesOK
  <1>7. CASE SettlementsWaited
    <2>1. /\ tracker' \in {"empty", "timeout"} /\ tracker = "waiting"
          /\ poolsClosed' = poolsClosed /\ flush' = flush
      BY <1>7 DEF SettlementsWaited, vars, flushVars
    <2> QED BY <1>w, <2>1 DEF StagesOK
  <1>8. CASE FlushAndStop
    <2>1. /\ tracker' = tracker /\ poolsClosed' = poolsClosed
          /\ tracker \in {"empty", "timeout"}
      BY <1>8 DEF FlushAndStop, exitVars
    <2>2. flush # "joined"
      BY <1>8 DEF FlushAndStop, Shutdown, CallFlush, FlushTimeout, FlushStep, FlushRead,
                  FlushNudge, FlushWait, FlushCollect, StopAccepting, CloseStop, Join
    <2> QED BY <1>w, <2>1, <2>2 DEF StagesOK
  <1>9. CASE ClosePools
    <2>1. tracker' = tracker /\ flush = "joined" /\ flush' = flush
      BY <1>9 DEF ClosePools, vars, flushVars
    <2> QED BY <1>w, <2>1 DEF StagesOK
  <1>10. CASE UNCHANGED allVars
    <2>1. tracker' = tracker /\ poolsClosed' = poolsClosed /\ flush' = flush
      BY <1>10 DEF allVars, exitVars, vars, flushVars
    <2> QED BY <1>w, <2>1 DEF StagesOK
  <1> QED BY <1>1, <1>2, <1>3, <1>4, <1>5, <1>6, <1>7, <1>8, <1>9, <1>10 DEF NextAll

LEMMA CoverStep ==
  ASSUME DoorInv, DoorInv', QueueInv, DeliveryOK, StagesOK, CoverOK, [NextAll]_allVars, AllGone'
  PROVE  /\ tracked' = {}
         /\ flush' # "serving" => \A e \in Entries : caller'[e] = "accepted" => e \in covered'
  <1>t. TypeOK
    BY DEF QueueInv
  <1>i. \A e \in Entries : where'[e] # "inside"
    BY OneGate DEF DoorInv, DrainedMeansEmpty, Inside, AllGone
  <1>1. CASE SettlementsWaited
    <2>1. tracker = "waiting" /\ tracker' = "empty" /\ tracked' = tracked /\ flush' = flush
      BY <1>1 DEF SettlementsWaited, AllGone, vars, flushVars
    <2>2. tracked = {}
      BY <1>1, <2>1 DEF SettlementsWaited
    <2>3. flush = "serving"
      BY <2>1 DEF StagesOK
    <2> QED BY <2>1, <2>2, <2>3
  <1>2. CASE ~SettlementsWaited
    <2>1. tracker' = tracker \/ tracker' = "waiting"
      BY <1>2 DEF NextAll, Arrive, Begin, Settle, Finish, GiveUp, Return, QueueWorker, StreamWaits,
         Signal, Draining, WaitSettlements, FlushAndStop, ClosePools, exitVars, allVars
    <2>2. tracker = "empty"
      BY <2>1 DEF AllGone
    <2>3. waiter = "empty"
      BY <2>2, AnswerStays DEF StagesOK, AllGone
    <2>4. tracked = {}
      BY <2>2, <2>3 DEF CoverOK, AllGone
    <2>5. Inside = {}
      BY <2>3 DEF DoorInv, DrainedMeansEmpty
    <2>6. \A e \in Entries : ~Settle(e) /\ ~Begin(e)
      BY <2>4, <2>5, OneGate DEF Settle, MaySettle, Begin, Inside
    <2>7. tracked' = {}
      BY <2>4, <2>6, <1>2 DEF NextAll, Arrive, Finish, GiveUp, Return, QueueWorker,
         StreamWaits, Signal, Draining, WaitSettlements, FlushAndStop, ClosePools, exitVars, allVars
    <2>8. ASSUME flush' # "serving", NEW e \in Entries, caller'[e] = "accepted"
          PROVE  e \in covered'
      <3>1. caller[e] = "accepted"
        BY <1>t, <2>6, <2>8, AcceptedBySettling
      <3>2. CASE flush = "serving"
        <4>1. FlushAndStop
          <5>1. ASSUME ~FlushAndStop PROVE flush' = flush
            <6>1. ASSUME NEW a \in Entries,
                         Arrive(a) \/ Finish(a) \/ GiveUp(a) \/ Return(a)
                  PROVE  flush' = flush
              BY <6>1 DEF Arrive, Finish, GiveUp, Return, vars, flushVars
            <6>2. CASE QueueWorker \/ StreamWaits
              BY <6>2 DEF QueueWorker, StreamWaits, Worker, Receive, Tick, TakeNudge, TakeStop,
                 Drain, Write, Account, ReleaseEffects, WakeWaiters, Unregister, Awaiter,
                 AwaitLookup, AwaitReturn, flushVars
            <6>3. CASE Signal \/ Draining \/ WaitSettlements \/ ClosePools \/ UNCHANGED allVars
              BY <6>3 DEF Signal, Draining, WaitSettlements, ClosePools, vars, flushVars, allVars
            <6> QED BY <1>2, <2>6, <5>1, <6>1, <6>2, <6>3 DEF NextAll
          <5> QED BY <3>2, <2>8, <5>1
        <4>2. CallFlush
          BY <3>2, <4>1 DEF FlushAndStop, Shutdown, FlushTimeout, FlushStep, FlushRead,
             FlushNudge, FlushWait, FlushCollect, StopAccepting, CloseStop, Join
        <4> QED BY <3>1, <4>2 DEF CallFlush
      <3>3. CASE flush # "serving"
        <4>1. e \in covered
          BY <2>2, <2>3, <3>1, <3>3 DEF CoverOK, AllGone
        <4>2. covered' = covered
          <5>1. ASSUME NEW a \in Entries,
                       Arrive(a) \/ Finish(a) \/ GiveUp(a) \/ Return(a)
                PROVE  covered' = covered
            BY <5>1 DEF Arrive, Finish, GiveUp, Return, vars, flushVars
          <5>2. CASE QueueWorker \/ StreamWaits
            BY <5>2 DEF QueueWorker, StreamWaits, Worker, Receive, Tick, TakeNudge, TakeStop,
               Drain, Write, Account, ReleaseEffects, WakeWaiters, Unregister, Awaiter,
               AwaitLookup, AwaitReturn, flushVars
          <5>3. CASE FlushAndStop
            BY <3>3, <5>3 DEF FlushAndStop, Shutdown, CallFlush, FlushTimeout, FlushStep,
               FlushRead, FlushNudge, FlushWait, FlushCollect, StopAccepting, CloseStop, Join
          <5>4. CASE Signal \/ Draining \/ WaitSettlements \/ ClosePools \/ UNCHANGED allVars
            BY <5>4 DEF Signal, Draining, WaitSettlements, ClosePools, vars, flushVars, allVars
          <5> QED BY <1>2, <2>6, <5>1, <5>2, <5>3, <5>4 DEF NextAll
        <4> QED BY <4>1, <4>2
      <3> QED BY <3>2, <3>3
    <2> QED BY <2>7, <2>8
  <1> QED BY <1>1, <1>2

LEMMA ExitInit == InitAll => ExitInv
  <1> SUFFICES ASSUME InitAll PROVE ExitInv
    OBVIOUS
  <1>1. DoorInv /\ QueueInv
    BY InitDoor, QueueInit DEF InitAll
  <1>2. DeliveryOK
    BY OneGate DEF InitAll, Init, DoorInit, DeliveryOK
  <1>3. StagesOK /\ CoverOK
    BY DEF InitAll, Init, StagesOK, CoverOK, AllGone
  <1> QED BY <1>1, <1>2, <1>3 DEF ExitInv

LEMMA ExitStep == ExitInv /\ [NextAll]_allVars => ExitInv'
  <1> SUFFICES ASSUME ExitInv, [NextAll]_allVars PROVE ExitInv'
    OBVIOUS
  <1>0. DoorInv /\ QueueInv /\ DeliveryOK /\ StagesOK /\ CoverOK
    BY DEF ExitInv
  <1>1. DoorInv'
    BY <1>0, StepOfTheGate, NextDoor
  <1>2. QueueInv'
    BY <1>0, StepOfTheQueue, QueueStep
  <1>3. DeliveryOK' /\ StagesOK'
    BY <1>0, DeliveryStep, StagesStep
  <1>4. CoverOK'
    BY <1>0, <1>1, CoverStep DEF CoverOK
  <1> QED BY <1>1, <1>2, <1>3, <1>4 DEF ExitInv

LEMMA ExitPromise == ExitInv => CleanExitLosesNothing
  <1> SUFFICES ASSUME ExitInv PROVE CleanExitLosesNothing
    OBVIOUS
  <1>0. DoorInv /\ QueueInv /\ DeliveryOK /\ StagesOK /\ CoverOK
    BY DEF ExitInv
  <1>t. TypeOK
    BY <1>0 DEF QueueInv
  <1>1. ASSUME CleanExit, NEW e \in Admitted
        PROVE  RowOf[e] \in final \/ (caller[e] = "returned" /\ Failed(e))
    <2>1. AllGone /\ flushResult = "ok" /\ flush # "serving"
      BY <1>0, <1>1 DEF CleanExit, AllGone, StagesOK
    <2>2. where[e] = "left" /\ e \in Entries
      BY <1>0, <1>1, <2>1, OneGate DEF Admitted, AllGone, DoorInv, DrainedMeansEmpty, Inside
    <2>3. Delivered(e)
      BY <1>0, <2>1, <2>2 DEF DeliveryOK, CoverOK
    <2>4. outcome[e] \in {"row", "gap", "notSettled"} => RowOf[e] \in final
      BY <1>0, <2>2 DEF QueueInv, WinnersOK
    <2>5. outcome[e] \in {None, "row", "notSettled", "failed", "gap"}
      BY <1>t, <2>2 DEF TypeOK
    <2>6. CASE caller[e] = "accepted"
      <3>1. e \in done /\ ~Failed(e)
        BY <1>0, <2>1, <2>2, <2>6 DEF CoverOK, QueueInv, FlushOK
      <3>2. outcome[e] # None
        BY <1>0, <2>2, <3>1 DEF QueueInv, EntryOK
      <3> QED BY <2>4, <2>5, <3>1, <3>2 DEF Failed
    <2>7. CASE caller[e] = "returned"
      <3>1. outcome[e] # None
        BY <1>0, <2>2, <2>7 DEF DeliveryOK
      <3> QED BY <2>4, <2>5, <2>7, <3>1 DEF Failed
    <2> QED BY <2>3, <2>6, <2>7 DEF Delivered
  <1>2. ASSUME poolsClosed PROVE worker = "exited" /\ channel = <<>> /\ batch = <<>>
    <2>1. worker = "exited" /\ Line = <<>>
      BY <1>0, <1>2 DEF StagesOK, QueueInv, StopOK
    <2>2. Len(batch) = 0 /\ Len(channel) = 0
      BY <1>t, <2>1, LineIs
    <2>3. batch \in Seq(Entries) /\ channel \in Seq(Entries)
      BY <1>t DEF TypeOK
    <2> QED BY <2>1, <2>2, <2>3
  <1> QED BY <1>1, <1>2 DEF CleanExitLosesNothing

\* cmd/cchd/boot.go drainAndShutdown: a process that reports a clean exit took no admitted
\* request with it, and its pools close behind the last writer of the queue.
THEOREM CleanExits == SpecAll => []CleanExitLosesNothing
  BY ExitInit, ExitStep, ExitPromise, PTL DEF SpecAll

-----------------------------------------------------------------------------
(* The exit is never stuck.  Whoever sleeps has somebody who wakes it: a waiter of the front
   door the watcher of its deadline, a flush the worker, which has what it waits for. *)

\* While the waiter of the front door waits, its watcher stands by, unless the waiter has yet
\* to look at a deadline that has passed.
WatcherOK ==
  /\ draining => waiter # "idle"
  /\ waiter \in {"check", "asleep"} => watcher = "armed" \/ (waiter = "check" /\ expired)

\* Each idle channel but the current one is closed, and that one too while nothing is pending.
IdleOK ==
  /\ flushIdle <= idle
  /\ \A n \in 0 .. idle : n \in closedIdle \/ (n = idle /\ pending # 0)

GoesOnInv == ExitInv /\ WatcherOK /\ IdleOK

LEMMA GoesOnInit == InitAll => WatcherOK /\ IdleOK
  BY DEF InitAll, Init, DoorInit, WatcherOK, IdleOK

LEMMA WatcherStep == WatcherOK /\ [DoorNext]_doorVars => WatcherOK'
  <1> SUFFICES ASSUME WatcherOK, [DoorNext]_doorVars PROVE WatcherOK'
    OBVIOUS
  <1>1. ASSUME NEW r \in Requests, TryEnter(r) \/ Leave(r) PROVE WatcherOK'
    BY <1>1 DEF TryEnter, Leave, Wake, waitVars, WatcherOK
  <1>2. CASE BeginDrain \/ CheckEmpty
    BY <1>2 DEF BeginDrain, CheckEmpty, gateVars, WatcherOK
  <1>3. CASE Expire \/ WatchContext
    BY <1>3 DEF Expire, WatchContext, Wake, gateVars, WatcherOK
  <1>4. CASE UNCHANGED doorVars
    BY <1>4 DEF doorVars, gateVars, waitVars, WatcherOK
  <1> QED BY <1>1, <1>2, <1>3, <1>4 DEF DoorNext

LEMMA IdleStep == TypeOK /\ IdleOK /\ [Next]_vars => IdleOK'
  <1> SUFFICES ASSUME TypeOK, IdleOK, [Next]_vars PROVE IdleOK'
    OBVIOUS
  <1>t. pending \in Nat /\ idle \in Nat /\ flushIdle \in Nat
    BY DEF TypeOK
  <1>1. ASSUME NEW e \in Entries, Enqueue(e) PROVE IdleOK'
    <2>1. UNCHANGED <<closedIdle, flushIdle>>
      BY <1>1 DEF Enqueue, flushVars
    <2>2. UNCHANGED <<pending, idle>> \/ (pending' = pending + 1 /\ idle' = IF pending = 0 THEN idle + 1 ELSE idle)
      BY <1>1 DEF Enqueue, AddPending
    <2> QED BY <1>t, <2>1, <2>2 DEF IdleOK
  <1>2. CASE Unregister
    <2>1. pending' = pending - 1 /\ UNCHANGED <<idle, flushIdle>>
          /\ closedIdle' = IF pending' = 0 THEN closedIdle \cup {idle} ELSE closedIdle
      BY <1>2 DEF Unregister, flushVars
    <2> QED BY <1>t, <2>1 DEF IdleOK
  <1>3. CASE FlushRead
    BY <1>t, <1>3 DEF FlushRead, regVars, IdleOK
  <1>4. ASSUME UNCHANGED <<pending, idle, closedIdle, flushIdle>> PROVE IdleOK'
    BY <1>4 DEF IdleOK
  <1>5. ASSUME NEW e \in Entries, SyncWrite(e) \/ AwaitLookup(e) \/ AwaitReturn(e)
        PROVE  UNCHANGED <<pending, idle, closedIdle, flushIdle>>
    BY <1>5 DEF SyncWrite, AwaitLookup, AwaitReturn, regVars, flushVars
  <1>6. CASE Receive \/ Tick \/ TakeNudge \/ TakeStop \/ Drain \/ Write \/ Account
             \/ ReleaseEffects \/ WakeWaiters
    <2>1. UNCHANGED <<pending, idle, closedIdle, flushIdle>>
      BY <1>6 DEF Receive, Tick, TakeNudge, TakeStop, Drain, Write, Account, ReleaseEffects,
         WakeWaiters, regVars, flushVars
    <2> QED BY <1>4, <2>1
  <1>7. CASE CallFlush \/ FlushTimeout \/ FlushNudge \/ FlushWait \/ FlushCollect
             \/ StopAccepting \/ CloseStop \/ Join
    <2>1. UNCHANGED <<pending, idle, closedIdle, flushIdle>>
      BY <1>7 DEF CallFlush, FlushTimeout, FlushNudge, FlushWait, FlushCollect, StopAccepting,
         CloseStop, Join, regVars
    <2> QED BY <1>4, <2>1
  <1>8. CASE UNCHANGED vars
    BY <1>4, <1>8 DEF vars, regVars, flushVars
  <1>9. Streams \subseteq Entries
    BY QueueConstants
  <1> QED BY <1>1, <1>2, <1>3, <1>4, <1>5, <1>6, <1>7, <1>8, <1>9
          DEF Next, Deliver, Awaiter, Worker, Shutdown, FlushStep

LEMMA SomebodyGoesOn ==
  ASSUME GoesOnInv, draining, ~poolsClosed
  PROVE  WorkerCanGoOn \/ ExitCanGoOn
  <1> USE DEF GoesOnInv, ExitInv, QueueInv
  <1>1. waiter \in {"check", "asleep", "empty", "timeout"}
    BY DEF DoorInv, DoorTypeOK, WatcherOK
  <1>2. CASE waiter \in {"check", "asleep"}
    BY <1>2 DEF WatcherOK, ExitCanGoOn, DrainCanGoOn
  <1>3. CASE waiter \in {"empty", "timeout"} /\ tracker \in {"idle", "waiting"}
    BY <1>3 DEF ExitCanGoOn
  <1>4. CASE waiter \in {"empty", "timeout"} /\ flush = "wait"
    <2>1. flushIdle \in closedIdle \/ pending # 0
      BY DEF IdleOK, TypeOK
    <2>2. pending # 0 => Line # <<>>
      BY DEF LineOK
    <2>3. Line # <<>> => worker # "exited" /\ (batch # <<>> \/ channel # <<>>)
      BY DEF StopOK, Line, TypeOK
    <2> QED BY <1>4, <2>1, <2>2, <2>3 DEF WorkerCanGoOn, ExitCanGoOn, FlushCanGoOn
  <1>5. CASE waiter \in {"empty", "timeout"} /\ flush = "joining"
    BY <1>5 DEF StopOK, WorkerCanGoOn, ExitCanGoOn, FlushCanGoOn
  <1>6. CASE waiter \in {"empty", "timeout"} /\ flush \notin {"wait", "joining"}
    BY <1>6 DEF ExitCanGoOn, FlushCanGoOn
  <1> QED BY <1>1, <1>2, <1>4, <1>5, <1>6

\* boot.go drainAndShutdown: from the signal until the pools are closed, the exit sequence or
\* the worker it waits for has a step to take, whatever requests and streams hang, whatever the
\* database answers, and though no flush runs into its deadline.  It is the first part of
\* ExitNeverStuck; that these guards are those of the steps, its second part, is for TLC.
THEOREM ExitGoesOn == SpecAll => [](draining /\ ~poolsClosed => WorkerCanGoOn \/ ExitCanGoOn)
  <1>1. InitAll => GoesOnInv
    BY ExitInit, GoesOnInit DEF GoesOnInv
  <1>2. GoesOnInv /\ [NextAll]_allVars => GoesOnInv'
    BY ExitStep, StepOfTheGate, StepOfTheQueue, WatcherStep, IdleStep DEF GoesOnInv, ExitInv, QueueInv
  <1>3. GoesOnInv => (draining /\ ~poolsClosed => WorkerCanGoOn \/ ExitCanGoOn)
    BY SomebodyGoesOn
  <1> QED BY <1>1, <1>2, <1>3, PTL DEF SpecAll

-----------------------------------------------------------------------------
(* The queue comes to an end.  Todo counts what is left for the worker and for the shutdown
   sequence to do.  A delivery brings along what it will cost, so that nothing raises Todo. *)

New == {e \in Entries : caller[e] = "new"}
Again == pending # 0 /\ flushIdle \in closedIdle   \* a Flush that will find work once more

WorkerRank ==
  IF pending # 0
  THEN CASE worker = "select" -> 7 [] worker = "drain" -> 6 [] worker = "write" -> 5
         [] worker = "account" -> 4 [] worker = "effects" -> 3 [] worker = "wake" -> 2 [] OTHER -> 1
  ELSE CASE worker = "select" -> 2
         [] worker = "drain" -> IF leaving THEN 1 ELSE 3
         [] OTHER -> 0

FlushRank ==
  CASE flush = "serving" -> 15
    [] flush = "read" -> IF pending # 0 THEN 10 ELSE 5
    [] flush = "nudge" -> IF Again THEN 14 ELSE 9
    [] flush = "wait" -> IF Again THEN 11 ELSE 6
    [] flush = "collect" -> 4
    [] flush = "flushed" -> 3
    [] flush = "closing" -> 2
    [] flush = "joining" -> 1
    [] OTHER -> 0

NudgeRank == IF nudge THEN 2 ELSE 0

Todo == 18 * Cardinality(New) + 8 * Len(channel) + 7 * Len(batch)
          + NudgeRank + WorkerRank + FlushRank

\* An idle channel closes once, and the current one only while nothing is pending.
ClosedOK == closedIdle \subseteq 0 .. idle /\ (pending # 0 => idle \notin closedIdle)

TodoInv == QueueInv /\ IdleOK /\ ClosedOK

LEMMA ClosedStep == QueueInv /\ ClosedOK /\ [Next]_vars => ClosedOK'
  <1> SUFFICES ASSUME QueueInv, ClosedOK, [Next]_vars PROVE ClosedOK'
    OBVIOUS
  <1>t. pending \in Nat /\ idle \in Nat
    BY DEF QueueInv, TypeOK
  <1>1. ASSUME NEW e \in Entries, Enqueue(e) PROVE ClosedOK'
    <2>1. UNCHANGED closedIdle
      BY <1>1 DEF Enqueue
    <2>2. UNCHANGED <<pending, idle>> \/ (pending' = pending + 1 /\ idle' = IF pending = 0 THEN idle + 1 ELSE idle)
      BY <1>1 DEF Enqueue, AddPending
    <2> QED BY <1>t, <2>1, <2>2 DEF ClosedOK
  <1>2. CASE Unregister
    <2>1. pending' = pending - 1 /\ UNCHANGED idle
          /\ closedIdle' = IF pending' = 0 THEN closedIdle \cup {idle} ELSE closedIdle
      BY <1>2 DEF Unregister
    <2>2. pending # 0
      <3>1. batch # <<>>
        BY <1>2 DEF Unregister, QueueInv, LineOK, Begun
      <3> QED BY <3>1, LineIs DEF QueueInv, LineOK
    <2> QED BY <1>t, <2>1, <2>2 DEF ClosedOK
  <1>4. ASSUME UNCHANGED <<pending, idle, closedIdle>> PROVE ClosedOK'
    BY <1>4 DEF ClosedOK
  <1>5. ASSUME NEW e \in Entries, SyncWrite(e) \/ AwaitLookup(e) \/ AwaitReturn(e)
        PROVE  UNCHANGED <<pending, idle, closedIdle>>
    BY <1>5 DEF SyncWrite, AwaitLookup, AwaitReturn, regVars
  <1>6. CASE Receive \/ Tick \/ TakeNudge \/ TakeStop \/ Drain \/ Write \/ Account
             \/ ReleaseEffects \/ WakeWaiters
    <2>1. UNCHANGED <<pending, idle, closedIdle>>
      BY <1>6 DEF Receive, Tick, TakeNudge, TakeStop, Drain, Write, Account, ReleaseEffects,
         WakeWaiters, regVars
    <2> QED BY <1>4, <2>1
  <1>7. CASE Shutdown
    <2>1. UNCHANGED <<pending, idle, closedIdle>>
      BY <1>7 DEF Shutdown, FlushStep, CallFlush, FlushRead, FlushTimeout, FlushNudge, FlushWait,
         FlushCollect, StopAccepting, CloseStop, Join, regVars
    <2> QED BY <1>4, <2>1
  <1>8. CASE UNCHANGED vars
    BY <1>4, <1>8 DEF vars, regVars
  <1>9. Streams \subseteq Entries
    BY QueueConstants
  <1> QED BY <1>1, <1>2, <1>4, <1>5, <1>6, <1>7, <1>8, <1>9 DEF Next, Deliver, Awaiter, Worker

LEMMA TodoInvariant == Spec => []TodoInv
  <1>1. Init => IdleOK /\ ClosedOK
    BY DEF Init, IdleOK, ClosedOK
  <1>2. TodoInv /\ [Next]_vars => TodoInv'
    <2> SUFFICES ASSUME TodoInv, [Next]_vars PROVE TodoInv'
      OBVIOUS
    <2>1. QueueInv' /\ ClosedOK'
      BY QueueStep, ClosedStep DEF TodoInv
    <2>2. IdleOK'
      BY IdleStep DEF TodoInv, QueueInv
    <2> QED BY <2>1, <2>2 DEF TodoInv
  <1> QED BY <1>1, <1>2, QueueInit, PTL DEF Spec, TodoInv

\* The terms of Todo are numbers.
TodoTyped ==
  /\ IsFiniteSet(New) /\ Cardinality(New) \in Nat
  /\ Len(channel) \in Nat /\ Len(batch) \in Nat
  /\ pending \in Nat /\ pending = Len(batch) + Len(channel)
  /\ WorkerRank \in 0 .. 7 /\ FlushRank \in 0 .. 15 /\ NudgeRank \in 0 .. 2
  /\ Todo \in Nat

LEMMA TodoTypes == TodoInv => TodoTyped
  <1> SUFFICES ASSUME TodoInv PROVE TodoTyped
    OBVIOUS
  <1>1. IsFiniteSet(New) /\ Cardinality(New) \in Nat
    <2>1. New \subseteq Entries
      BY DEF New
    <2> QED BY <2>1, QueueConstants, FS_Subset, FS_CardinalityType
  <1>2. /\ Len(channel) \in Nat /\ Len(batch) \in Nat /\ pending \in Nat
        /\ pending = Len(batch) + Len(channel)
    BY LineIs DEF TodoInv, QueueInv, LineOK, TypeOK
  <1>3. WorkerRank \in 0 .. 7 /\ FlushRank \in 0 .. 15 /\ NudgeRank \in 0 .. 2
    BY DEF WorkerRank, FlushRank, NudgeRank
  <1>4. Todo \in Nat
    <2> DEFINE n == Cardinality(New)  c == Len(channel)  b == Len(batch)
    <2>1. /\ n \in Nat /\ c \in Nat /\ b \in Nat
          /\ WorkerRank \in Nat /\ FlushRank \in Nat /\ NudgeRank \in Nat
      BY <1>1, <1>2, <1>3
    <2>2. Todo = 18 * n + 8 * c + 7 * b + NudgeRank + WorkerRank + FlushRank
      BY DEF Todo
    <2> HIDE DEF n, c, b
    <2> QED BY <2>1, <2>2
  <1> QED BY <1>1, <1>2, <1>3, <1>4 DEF TodoTyped

LEMMA TodoTypesNext == TodoInv' => TodoTyped'
  BY TodoTypes, PTL

\* What the deltas of its terms make of Todo.
LEMMA TodoFalls ==
  ASSUME TodoTyped, TodoTyped',
         NEW d \in Int,
         18 * (Cardinality(New') - Cardinality(New)) + 8 * (Len(channel') - Len(channel))
           + 7 * (Len(batch') - Len(batch)) + (NudgeRank' - NudgeRank) + (WorkerRank' - WorkerRank)
           + (FlushRank' - FlushRank) <= d
  PROVE  Todo' <= Todo + d /\ Todo \in Nat /\ Todo' \in Nat
  <1> DEFINE n == Cardinality(New)   c == Len(channel)   b == Len(batch)
             n1 == Cardinality(New') c1 == Len(channel') b1 == Len(batch')
             k1 == NudgeRank'  w1 == WorkerRank'  f1 == FlushRank'
  <1>0. n \in Nat /\ c \in Nat /\ b \in Nat /\ n1 \in Nat /\ c1 \in Nat /\ b1 \in Nat
    BY DEF TodoTyped
  <1>1. /\ WorkerRank \in Nat /\ FlushRank \in Nat /\ NudgeRank \in Nat
        /\ k1 \in Nat /\ w1 \in Nat /\ f1 \in Nat
    <2>1. WorkerRank \in 0 .. 7 /\ FlushRank \in 0 .. 15 /\ NudgeRank \in 0 .. 2
      BY DEF TodoTyped
    <2>2. w1 \in 0 .. 7 /\ f1 \in 0 .. 15 /\ k1 \in 0 .. 2
      BY DEF TodoTyped
    <2> HIDE DEF w1, f1, k1
    <2> QED BY <2>1, <2>2
  <1>2. /\ Todo = 18 * n + 8 * c + 7 * b + NudgeRank + WorkerRank + FlushRank
        /\ Todo' = 18 * n1 + 8 * c1 + 7 * b1 + k1 + w1 + f1
    BY DEF Todo
  <1>3. 18 * (n1 - n) + 8 * (c1 - c) + 7 * (b1 - b) + (k1 - NudgeRank) + (w1 - WorkerRank)
          + (f1 - FlushRank) <= d
    OBVIOUS
  <1> HIDE DEF n, c, b, n1, c1, b1, k1, w1, f1
  <1> QED BY <1>0, <1>1, <1>2, <1>3

LEMMA WorkerRankStays == UNCHANGED <<pending, worker, leaving>> => WorkerRank' = WorkerRank
  BY DEF WorkerRank

LEMMA FlushRankStays == UNCHANGED <<pending, flush, flushIdle, closedIdle>> => FlushRank' = FlushRank
  BY DEF FlushRank, Again

\* The places of the worker, where the queue holds something and where it does not.
LEMMA WorkerPlaces ==
  ASSUME TodoInv
  PROVE  /\ batch # <<>> => pending # 0
         /\ channel # <<>> => pending # 0
         /\ batch = <<>> /\ channel = <<>> => pending = 0
         /\ worker \notin {"select", "drain", "exited"} => batch # <<>> /\ pending # 0
         /\ worker = "select" => ~leaving
         /\ worker = "exited" => leaving
         /\ leaving => stop
         /\ stop => stopped
  <1>1. /\ batch # <<>> => pending # 0
        /\ channel # <<>> => pending # 0
        /\ batch = <<>> /\ channel = <<>> => pending = 0
    <2>1. /\ pending = Len(batch) + Len(channel) /\ Len(batch) \in Nat /\ Len(channel) \in Nat
          /\ batch # <<>> <=> Len(batch) # 0
          /\ channel # <<>> <=> Len(channel) # 0
      BY LineIs DEF TodoInv, QueueInv, LineOK
    <2> QED BY <2>1
  <1>2. worker \notin {"select", "drain", "exited"} => batch # <<>>
    BY DEF TodoInv, QueueInv, TypeOK, LineOK, Begun
  <1>3. /\ worker = "select" => ~leaving
        /\ worker = "exited" => leaving
        /\ leaving => stop
        /\ stop => stopped
    BY DEF TodoInv, QueueInv, StopOK
  <1> QED BY <1>1, <1>2, <1>3

\* Every step of the worker leaves less to do.
LEMMA WorkerComesCloser ==
  ASSUME TodoInv, TodoInv', Worker
  PROVE  Todo' < Todo
  <1> DEFINE c == Len(channel)   b == Len(batch)   c1 == Len(channel')   b1 == Len(batch')
             w1 == WorkerRank'   k1 == NudgeRank'  f1 == FlushRank'
  <1> USE DEF regVars, tombVars, workVars, dbVars, awaitVars, flushVars
  <1>t. TodoTyped /\ TodoTyped'
    BY TodoTypes, TodoTypesNext
  <1>i. /\ c \in Nat /\ b \in Nat /\ c1 \in Nat /\ b1 \in Nat
        /\ WorkerRank \in 0 .. 7 /\ w1 \in 0 .. 7 /\ NudgeRank \in 0 .. 2 /\ k1 \in 0 .. 2
        /\ FlushRank \in 0 .. 15 /\ f1 \in 0 .. 15
    BY <1>t DEF TodoTyped
  <1>n. Cardinality(New') = Cardinality(New) /\ Cardinality(New) \in Nat
    <2>1. UNCHANGED caller
      BY DEF Worker, Receive, Tick, TakeNudge, TakeStop, Drain, Write, Account, ReleaseEffects,
         WakeWaiters, Unregister
    <2>2. New' = New
      BY <2>1 DEF New
    <2> QED BY <1>t, <2>2 DEF TodoTyped
  <1>s. SUFFICES 8 * (c1 - c) + 7 * (b1 - b) + (k1 - NudgeRank) + (w1 - WorkerRank) + (f1 - FlushRank)
                   <= -1
    <2> SUFFICES ASSUME 8 * (c1 - c) + 7 * (b1 - b) + (k1 - NudgeRank) + (w1 - WorkerRank)
                          + (f1 - FlushRank) <= -1
                 PROVE  Todo' < Todo
      OBVIOUS
    <2>0. 18 * (Cardinality(New') - Cardinality(New)) = 0
      BY <1>n
    <2>1. 18 * (Cardinality(New') - Cardinality(New)) + 8 * (Len(channel') - Len(channel))
           + 7 * (Len(batch') - Len(batch)) + (NudgeRank' - NudgeRank) + (WorkerRank' - WorkerRank)
           + (FlushRank' - FlushRank) <= -1
      BY <2>0, <1>i
    <2>2. Todo' <= Todo + (-1) /\ Todo \in Nat /\ Todo' \in Nat
      BY <1>t, <2>1, TodoFalls
    <2> QED BY <2>2
  <1>1. ASSUME channel # <<>>, batch' = Append(batch, Head(channel)), channel' = Tail(channel),
               UNCHANGED <<nudge, pending, flush, flushIdle, closedIdle>>, w1 <= WorkerRank
        PROVE  8 * (c1 - c) + 7 * (b1 - b) + (k1 - NudgeRank) + (w1 - WorkerRank) + (f1 - FlushRank)
                   <= -1
    <2>1. c1 = c - 1 /\ b1 = b + 1
      BY <1>1, HeadTailProperties, AppendProperties DEF TodoInv, QueueInv, TypeOK
    <2>2. f1 = FlushRank /\ k1 = NudgeRank
      BY <1>1, FlushRankStays DEF NudgeRank
    <2>3. w1 <= WorkerRank
      BY <1>1
    <2> HIDE DEF c, b, c1, b1, w1, k1, f1
    <2> QED BY <1>i, <2>1, <2>2, <2>3
  <1>2. ASSUME UNCHANGED <<channel, batch, pending, flush, flushIdle, closedIdle>>,
               (k1 - NudgeRank) + (w1 - WorkerRank) <= -1
        PROVE  8 * (c1 - c) + 7 * (b1 - b) + (k1 - NudgeRank) + (w1 - WorkerRank) + (f1 - FlushRank)
                   <= -1
    <2>1. c1 = c /\ b1 = b /\ f1 = FlushRank
      BY <1>2, FlushRankStays
    <2>2. (k1 - NudgeRank) + (w1 - WorkerRank) <= -1
      BY <1>2
    <2> HIDE DEF c, b, c1, b1, w1, k1, f1
    <2> QED BY <1>i, <2>1, <2>2
  <1>3. CASE Receive
    <2>1. /\ worker = "select" /\ worker' \in {"select", "drain"} /\ channel # <<>>
          /\ batch' = Append(batch, Head(channel)) /\ channel' = Tail(channel)
          /\ UNCHANGED <<nudge, pending, flush, flushIdle, closedIdle>>
      BY <1>3 DEF Receive
    <2>2. w1 <= WorkerRank
      BY <2>1, WorkerPlaces DEF WorkerRank
    <2> QED BY <1>1, <2>1, <2>2
  <1>4. CASE Drain /\ channel # <<>>
    <2>1. /\ batch' = Append(batch, Head(channel)) /\ channel' = Tail(channel)
          /\ UNCHANGED <<worker, leaving, nudge, pending, flush, flushIdle, closedIdle>>
      BY <1>4 DEF Drain
    <2>2. w1 <= WorkerRank
      BY <1>i, <2>1, WorkerRankStays
    <2> QED BY <1>1, <1>4, <2>1, <2>2
  <1>5. CASE Tick \/ TakeStop
    <2>1. /\ worker = "select" /\ worker' = "drain"
          /\ (pending # 0 \/ leaving')
          /\ UNCHANGED <<channel, batch, nudge, pending, flush, flushIdle, closedIdle>>
      BY <1>5, WorkerPlaces DEF Tick, TakeStop
    <2>2. w1 = WorkerRank - 1 /\ k1 = NudgeRank
      BY <2>1 DEF WorkerRank, NudgeRank
    <2>h. (k1 - NudgeRank) + (w1 - WorkerRank) <= -1
      <3> HIDE DEF w1, k1
      <3> QED BY <1>i, <2>2
    <2> QED BY <1>2, <2>1, <2>h
  <1>6. CASE TakeNudge
    <2>1. /\ worker = "select" /\ worker' = "drain" /\ nudge = TRUE /\ nudge' = FALSE
          /\ ~leaving /\ UNCHANGED <<leaving, channel, batch, pending, flush, flushIdle, closedIdle>>
      BY <1>6, WorkerPlaces DEF TakeNudge, TodoInv, QueueInv, TypeOK
    <2>2. k1 = 0 /\ NudgeRank = 2
      BY <2>1 DEF NudgeRank
    <2>3. w1 <= WorkerRank + 1
      BY <2>1 DEF WorkerRank
    <2>h. (k1 - NudgeRank) + (w1 - WorkerRank) <= -1
      <3> HIDE DEF w1, k1
      <3> QED BY <1>i, <2>2, <2>3
    <2> QED BY <1>2, <2>1, <2>h
  <1>7. CASE Drain /\ channel = <<>>
    <2>1. /\ worker = "drain" /\ UNCHANGED <<leaving, channel, batch, nudge, pending, flush, flushIdle, closedIdle>>
          /\ worker' = IF batch # <<>> THEN "write" ELSE Resume
      BY <1>7 DEF Drain
    <2>2. k1 = NudgeRank
      BY <2>1 DEF NudgeRank
    <2>3. CASE batch # <<>>
      <3>1. WorkerRank = 6 /\ w1 = 5
        BY <2>1, <2>3, WorkerPlaces DEF WorkerRank
      <3>h. (k1 - NudgeRank) + (w1 - WorkerRank) <= -1
        <4> HIDE DEF w1, k1
        <4> QED BY <1>i, <2>2, <3>1
      <3> QED BY <1>2, <2>1, <3>h
    <2>4. CASE batch = <<>>
      <3>1. pending = 0 /\ worker' = IF leaving THEN "exited" ELSE "select"
        BY <1>7, <2>1, <2>4, WorkerPlaces DEF Resume
      <3>2. w1 = WorkerRank - 1
        BY <2>1, <3>1 DEF WorkerRank
      <3>h. (k1 - NudgeRank) + (w1 - WorkerRank) <= -1
        <4> HIDE DEF w1, k1
        <4> QED BY <1>i, <2>2, <3>2
      <3> QED BY <1>2, <2>1, <3>h
    <2> QED BY <2>3, <2>4
  <1>8. CASE Write \/ Account \/ ReleaseEffects \/ WakeWaiters
    <2>1. /\ UNCHANGED <<channel, batch, nudge, pending, flush, flushIdle, closedIdle>>
          /\ \/ worker = "write" /\ worker' = "account"
             \/ worker = "account" /\ worker' = "effects"
             \/ worker = "effects" /\ worker' = "wake"
             \/ worker = "wake" /\ worker' = "unregister"
      BY <1>8 DEF Write, Account, ReleaseEffects, WakeWaiters
    <2>2. pending # 0
      BY <2>1, WorkerPlaces
    <2>3. w1 = WorkerRank - 1 /\ k1 = NudgeRank
      BY <2>1, <2>2 DEF WorkerRank, NudgeRank
    <2>h. (k1 - NudgeRank) + (w1 - WorkerRank) <= -1
      <3> HIDE DEF w1, k1
      <3> QED BY <1>i, <2>3
    <2> QED BY <1>2, <2>1, <2>h
  <1>9. CASE Unregister
    <2>1. /\ worker = "unregister" /\ pending' = pending - 1 /\ batch' = Tail(batch)
          /\ closedIdle' = IF pending' = 0 THEN closedIdle \cup {idle} ELSE closedIdle
          /\ UNCHANGED <<channel, nudge, flush, flushIdle>>
      BY <1>9 DEF Unregister
    <2>2. batch # <<>> /\ pending # 0
      BY <2>1, WorkerPlaces
    <2>3. c1 = c /\ b1 = b - 1 /\ k1 = NudgeRank
      BY <2>1, <2>2, HeadTailProperties DEF TodoInv, QueueInv, TypeOK, NudgeRank
    <2>4. WorkerRank = 1
      BY <2>1, <2>2 DEF WorkerRank
    <2>5. f1 <= FlushRank
      BY <2>1, <2>2 DEF FlushRank, Again
    <2> HIDE DEF c, b, c1, b1, w1, k1, f1
    <2> QED BY <1>i, <2>3, <2>4, <2>5
  <1>10. Drain => channel # <<>> \/ channel = <<>>
    OBVIOUS
  <1> QED BY <1>3, <1>4, <1>5, <1>6, <1>7, <1>8, <1>9, <1>10 DEF Worker

\* A delivery raises Todo by no more than it was counted for from the beginning.
LEMMA DeliveryCostsNothing ==
  ASSUME TodoInv, TodoInv', NEW e \in Entries, Enqueue(e)
  PROVE  Todo' <= Todo
  <1> DEFINE c == Len(channel)   c1 == Len(channel')   n == Cardinality(New)   n1 == Cardinality(New')
             w1 == WorkerRank'   f1 == FlushRank'
  <1> USE DEF tombVars, workVars, flushVars
  <1>t. TodoTyped /\ TodoTyped'
    BY TodoTypes, TodoTypesNext
  <1>i. /\ c \in Nat /\ c1 \in Nat /\ n \in Nat /\ n1 \in Nat /\ Len(batch) \in Nat /\ NudgeRank \in 0 .. 2
        /\ WorkerRank \in 0 .. 7 /\ w1 \in 0 .. 7 /\ FlushRank \in 0 .. 15 /\ f1 \in 0 .. 15
    BY <1>t DEF TodoTyped
  <1>b. Len(batch') = Len(batch) /\ NudgeRank' = NudgeRank
    BY DEF Enqueue, NudgeRank
  <1>n. n1 = n - 1
    <2>1. caller[e] = "new" /\ caller' \in {[caller EXCEPT ![e] = "sync"], [caller EXCEPT ![e] = "accepted"]}
      BY DEF Enqueue
    <2>2. caller \in [Entries -> {"new", "accepted", "sync", "returned"}]
      BY DEF TodoInv, QueueInv, TypeOK
    <2>3. New' = New \ {e} /\ e \in New
      BY <2>1, <2>2 DEF New
    <2> QED BY <1>t, <2>3, FS_RemoveElement DEF TodoTyped
  <1>s. SUFFICES 8 * (c1 - c) + (w1 - WorkerRank) + (f1 - FlushRank) <= 18
    <2> SUFFICES ASSUME 8 * (c1 - c) + (w1 - WorkerRank) + (f1 - FlushRank) <= 18
                 PROVE  Todo' <= Todo
      OBVIOUS
    <2>1. 18 * (Cardinality(New') - Cardinality(New)) + 8 * (Len(channel') - Len(channel))
           + 7 * (Len(batch') - Len(batch)) + (NudgeRank' - NudgeRank) + (WorkerRank' - WorkerRank)
           + (FlushRank' - FlushRank) <= 0
      <3>1. 18 * (n1 - n) + 8 * (c1 - c) + 7 * (Len(batch') - Len(batch)) + (NudgeRank' - NudgeRank)
             + (w1 - WorkerRank) + (f1 - FlushRank) <= 0
        <4>1. 8 * (c1 - c) + (w1 - WorkerRank) + (f1 - FlushRank) <= 18
          OBVIOUS
        <4> HIDE DEF c, c1, n, n1, w1, f1
        <4> QED BY <1>i, <1>b, <1>n, <4>1
      <3> QED BY <3>1
    <2>2. Todo' <= Todo + 0 /\ Todo \in Nat
      BY <1>t, <2>1, TodoFalls
    <2>3. Todo' \in Nat
      BY <1>t, <2>1, TodoFalls
    <2> QED BY <2>2, <2>3
  <1>1. CASE UNCHANGED <<channel, pending, idle, inflight>>
    <2>1. w1 = WorkerRank /\ f1 = FlushRank /\ c1 = c
      BY <1>1, WorkerRankStays, FlushRankStays DEF Enqueue
    <2> HIDE DEF c, c1, w1, f1
    <2> QED BY <1>i, <2>1
  <1>2. CASE channel' = Append(channel, e) /\ AddPending(e)
    <2>1. /\ pending' = pending + 1 /\ pending \in Nat /\ pending' # 0
          /\ UNCHANGED <<worker, leaving, flush, flushIdle, closedIdle>>
      <3>1. pending' = pending + 1 /\ UNCHANGED <<worker, leaving, flush, flushIdle, closedIdle>>
        BY <1>2 DEF Enqueue, AddPending
      <3> QED BY <1>t, <3>1 DEF TodoTyped
    <2>2. c1 = c + 1
      BY <1>2, AppendProperties DEF TodoInv, QueueInv, TypeOK
    <2>3. w1 <= WorkerRank + 5
      BY <2>1 DEF WorkerRank
    <2>4. f1 <= FlushRank + 5
      BY <2>1 DEF FlushRank, Again
    <2> HIDE DEF c, c1, w1, f1
    <2> QED BY <1>i, <2>2, <2>3, <2>4
  <1> QED BY <1>1, <1>2 DEF Enqueue

\* Every step of Flush and Stop leaves less to do, a Flush that looks again included: the idle
\* channel it saw closed stays closed, and work that came since was counted when it came.
LEMMA ShutdownComesCloserByAStep ==
  ASSUME TodoInv, TodoInv', Shutdown
  PROVE  Todo' < Todo
  <1> DEFINE k1 == NudgeRank'   f1 == FlushRank'   n == Cardinality(New)   c == Len(channel)   b == Len(batch)
  <1> USE DEF regVars, tombVars, workVars, dbVars, awaitVars
  <1>t. TodoTyped /\ TodoTyped'
    BY TodoTypes, TodoTypesNext
  <1>i. /\ FlushRank \in 0 .. 15 /\ f1 \in 0 .. 15 /\ NudgeRank \in 0 .. 2 /\ k1 \in 0 .. 2
        /\ WorkerRank \in 0 .. 7 /\ n \in Nat /\ c \in Nat /\ b \in Nat
    BY <1>t DEF TodoTyped
  <1>u. UNCHANGED <<caller, channel, batch, pending, worker, leaving, idle, closedIdle>>
    BY DEF Shutdown, FlushStep, CallFlush, FlushRead, FlushTimeout, FlushNudge, FlushWait,
       FlushCollect, StopAccepting, CloseStop, Join
  <1>s. SUFFICES (k1 - NudgeRank) + (f1 - FlushRank) <= -1
    <2> SUFFICES ASSUME (k1 - NudgeRank) + (f1 - FlushRank) <= -1
                 PROVE  Todo' < Todo
      OBVIOUS
    <2>1. New' = New /\ WorkerRank' = WorkerRank /\ channel' = channel /\ batch' = batch
      BY <1>u, WorkerRankStays DEF New
    <2>2. Cardinality(New') = n /\ Len(channel') = c /\ Len(batch') = b
      BY <2>1
    <2>3. 18 * (Cardinality(New') - Cardinality(New)) + 8 * (Len(channel') - Len(channel))
           + 7 * (Len(batch') - Len(batch)) + (NudgeRank' - NudgeRank) + (WorkerRank' - WorkerRank)
           + (FlushRank' - FlushRank) <= -1
      <3>1. 18 * (n - n) + 8 * (c - c) + 7 * (b - b) + (k1 - NudgeRank) + (WorkerRank - WorkerRank)
             + (f1 - FlushRank) <= -1
        <4>1. (k1 - NudgeRank) + (f1 - FlushRank) <= -1
          OBVIOUS
        <4> HIDE DEF n, c, b, k1, f1
        <4> QED BY <1>i, <4>1
      <3> QED BY <2>1, <2>2, <3>1
    <2>4. Todo' <= Todo + (-1) /\ Todo \in Nat /\ Todo' \in Nat
      BY <1>t, <2>3, TodoFalls
    <2> QED BY <2>4
  <1>q. ASSUME UNCHANGED nudge, f1 < FlushRank
        PROVE  (k1 - NudgeRank) + (f1 - FlushRank) <= -1
    <2>1. k1 = NudgeRank
      BY <1>q DEF NudgeRank
    <2>2. f1 < FlushRank
      BY <1>q
    <2> HIDE DEF k1, f1
    <2> QED BY <1>i, <2>1, <2>2
  <1>1. CASE CallFlush
    <2>1. flush = "serving" /\ flush' = "read" /\ UNCHANGED nudge
      BY <1>1 DEF CallFlush
    <2>2. f1 < FlushRank
      BY <2>1 DEF FlushRank
    <2> QED BY <1>q, <2>1, <2>2
  <1>2. CASE FlushRead
    <2>1. /\ flush = "read" /\ flush' = IF pending = 0 THEN "collect" ELSE "nudge"
          /\ flushIdle' = idle /\ UNCHANGED nudge
      BY <1>2 DEF FlushRead
    <2>2. pending # 0 => idle \notin closedIdle
      BY DEF TodoInv, ClosedOK
    <2>3. ~Again'
      BY <1>u, <2>1, <2>2 DEF Again
    <2>4. f1 < FlushRank
      BY <2>1, <2>3 DEF FlushRank
    <2> QED BY <1>q, <2>1, <2>4
  <1>3. CASE FlushNudge
    <2>1. flush = "nudge" /\ flush' = "wait" /\ UNCHANGED flushIdle
      BY <1>3 DEF FlushNudge
    <2>2. Again' = Again
      BY <1>u, <2>1 DEF Again
    <2>3. f1 <= FlushRank - 3
      BY <2>1, <2>2 DEF FlushRank
    <2>4. (k1 - NudgeRank) + (f1 - FlushRank) <= -1
      <3> HIDE DEF k1, f1
      <3> QED BY <1>i, <2>3
    <2> QED BY <2>4
  <1>4. CASE FlushWait
    <2>1. flush = "wait" /\ flush' = "read" /\ flushIdle \in closedIdle /\ UNCHANGED nudge
      BY <1>4 DEF FlushWait
    <2>2. f1 < FlushRank
      BY <1>u, <2>1 DEF FlushRank, Again
    <2> QED BY <1>q, <2>1, <2>2
  <1>5. CASE FlushTimeout \/ FlushCollect \/ StopAccepting \/ CloseStop \/ Join
    <2>1. /\ UNCHANGED nudge
          /\ \/ flush = "wait" /\ flush' = "flushed"
             \/ flush = "collect" /\ flush' = "flushed"
             \/ flush = "flushed" /\ flush' = "closing"
             \/ flush = "closing" /\ flush' = "joining"
             \/ flush = "joining" /\ flush' = "joined"
      BY <1>5 DEF FlushTimeout, FlushCollect, StopAccepting, CloseStop, Join
    <2>2. f1 < FlushRank
      BY <2>1 DEF FlushRank
    <2> QED BY <1>q, <2>1, <2>2
  <1> QED BY <1>1, <1>2, <1>3, <1>4, <1>5 DEF Shutdown, FlushStep

LEMMA TodoOfAStep ==
  ASSUME TodoInv, TodoInv', [Next]_vars
  PROVE  Todo' <= Todo /\ (Worker \/ Shutdown => Todo' < Todo)
  <1>t. Todo \in Nat /\ Todo' \in Nat
    BY TodoTypes, TodoTypesNext DEF TodoTyped
  <1>1. Worker \/ Shutdown => Todo' < Todo
    BY WorkerComesCloser, ShutdownComesCloserByAStep
  <1>2. ASSUME NEW e \in Entries, Enqueue(e) PROVE Todo' <= Todo
    BY <1>2, DeliveryCostsNothing
  <1>3. ASSUME UNCHANGED <<channel, batch, nudge, pending, worker, leaving, flush, flushIdle, closedIdle>>,
               New' = New
        PROVE  Todo' <= Todo
    <2>1. WorkerRank' = WorkerRank /\ FlushRank' = FlushRank /\ NudgeRank' = NudgeRank
      BY <1>3, WorkerRankStays, FlushRankStays DEF NudgeRank
    <2>2. Todo' = Todo
      BY <1>3, <2>1 DEF Todo
    <2> QED BY <1>t, <2>2
  <1>4. ASSUME NEW e \in Entries, SyncWrite(e) PROVE Todo' <= Todo
    <2>1. caller[e] = "sync" /\ caller' = [caller EXCEPT ![e] = "returned"]
      BY <1>4 DEF SyncWrite
    <2>2. caller \in [Entries -> {"new", "accepted", "sync", "returned"}]
      BY DEF TodoInv, QueueInv, TypeOK
    <2>3. New' = New
      BY <2>1, <2>2 DEF New
    <2>4. UNCHANGED <<channel, batch, nudge, pending, worker, leaving, flush, flushIdle, closedIdle>>
      BY <1>4 DEF SyncWrite, regVars, workVars, flushVars
    <2> QED BY <1>3, <2>3, <2>4
  <1>5. ASSUME NEW e \in Entries, AwaitLookup(e) \/ AwaitReturn(e) PROVE Todo' <= Todo
    <2>1. UNCHANGED <<channel, batch, nudge, pending, worker, leaving, flush, flushIdle, closedIdle>>
          /\ UNCHANGED caller
      BY <1>5 DEF AwaitLookup, AwaitReturn, regVars, workVars, flushVars
    <2>2. New' = New
      BY <2>1 DEF New
    <2> QED BY <1>3, <2>1, <2>2
  <1>6. ASSUME UNCHANGED vars PROVE Todo' <= Todo
    <2>1. UNCHANGED <<channel, batch, nudge, pending, worker, leaving, flush, flushIdle, closedIdle>>
          /\ UNCHANGED caller
      BY <1>6 DEF vars, regVars, workVars, flushVars
    <2>2. New' = New
      BY <2>1 DEF New
    <2> QED BY <1>3, <2>1, <2>2
  <1>7. Streams \subseteq Entries
    BY QueueConstants
  <1>8. Worker \/ Shutdown => Todo' <= Todo
    BY <1>t, <1>1
  <1>9. Todo' <= Todo
    BY <1>2, <1>4, <1>5, <1>6, <1>7, <1>8 DEF Next, Deliver, Awaiter
  <1> QED BY <1>1, <1>9

\* batch.go: no operation leaves the worker and the shutdown sequence more to do than there was,
\* a delivery and a flush that looks again included, and each of their own steps leaves less.  So
\* neither turns in circles: a run takes no more of these steps than Todo says at its beginning.
THEOREM QueueHasLessToDo ==
  Spec => [][Todo' <= Todo /\ (Worker \/ Shutdown => Todo' < Todo)]_vars
  <1>1. TodoInv /\ TodoInv' /\ [Next]_vars => [Todo' <= Todo /\ (Worker \/ Shutdown => Todo' < Todo)]_vars
    BY TodoOfAStep
  <1> QED BY <1>1, TodoInvariant, PTL DEF Spec

\* An entry that the queue took and nobody wrote yet.
Unwritten(e) == caller[e] = "accepted" /\ e \notin done
FlushRuns == flush \notin {"serving", "joined"}

LEMMA UnwrittenStep ==
  ASSUME TodoInv, [Next]_vars, NEW e \in Entries, Unwritten(e)
  PROVE  Unwritten(e)' \/ e \in done'
  <1>1. caller \in [Entries -> {"new", "accepted", "sync", "returned"}]
    BY DEF TodoInv, QueueInv, TypeOK
  <1>2. caller[e] = "accepted"
    BY DEF Unwritten
  <1>3. ASSUME NEW d \in Entries, Enqueue(d) \/ SyncWrite(d) PROVE caller'[e] = "accepted"
    <2>1. /\ caller[d] \in {"new", "sync"}
          /\ \E what \in {"accepted", "sync", "returned"} : caller' = [caller EXCEPT ![d] = what]
      BY <1>3 DEF Enqueue, SyncWrite
    <2> QED BY <1>1, <1>2, <2>1
  <1>4. ASSUME NEW d \in Entries, AwaitLookup(d) \/ AwaitReturn(d) PROVE UNCHANGED caller
    BY <1>4 DEF AwaitLookup, AwaitReturn
  <1>5. Worker => UNCHANGED caller
    BY DEF Worker, Receive, Tick, TakeNudge, TakeStop, Drain, Write, Account, ReleaseEffects,
       WakeWaiters, Unregister
  <1>6. Shutdown => UNCHANGED caller
    BY DEF Shutdown, FlushStep, CallFlush, FlushRead, FlushTimeout, FlushNudge, FlushWait,
       FlushCollect, StopAccepting, CloseStop, Join
  <1>7. UNCHANGED vars => UNCHANGED caller
    BY DEF vars
  <1>8. Streams \subseteq Entries
    BY QueueConstants
  <1>9. caller'[e] = "accepted"
    BY <1>2, <1>3, <1>4, <1>5, <1>6, <1>7, <1>8 DEF Next, Deliver, Awaiter
  <1> QED BY <1>9 DEF Unwritten

\* Whoever waits for the queue waits for a worker that has something to do.
LEMMA UnwrittenIsHeld ==
  ASSUME TodoInv, NEW e \in Entries, Unwritten(e)
  PROVE  WorkerCanGoOn
  <1>1. Held(e)
    BY DEF Unwritten, TodoInv, QueueInv, EntryOK
  <1>2. Line # <<>>
    BY <1>1, LineIs DEF Held, TodoInv, QueueInv
  <1>3. worker # "exited" /\ (batch # <<>> \/ channel # <<>>)
    BY <1>2 DEF StopOK, Line, TypeOK, TodoInv, QueueInv
  <1> QED BY <1>3 DEF WorkerCanGoOn

LEMMA FlushStaysInside ==
  ASSUME [Next]_vars, FlushRuns
  PROVE  FlushRuns' \/ flush' = "joined"
  <1>1. ASSUME NEW e \in Entries, Enqueue(e) \/ SyncWrite(e) \/ AwaitLookup(e) \/ AwaitReturn(e)
        PROVE  UNCHANGED flush
    BY <1>1 DEF Enqueue, SyncWrite, AwaitLookup, AwaitReturn, flushVars
  <1>2. Worker => UNCHANGED flush
    BY DEF Worker, Receive, Tick, TakeNudge, TakeStop, Drain, Write, Account, ReleaseEffects,
       WakeWaiters, Unregister, flushVars
  <1>3. UNCHANGED vars => UNCHANGED flush
    BY DEF vars, flushVars
  <1>4. Shutdown => flush' # "serving"
    BY DEF Shutdown, FlushStep, CallFlush, FlushRead, FlushTimeout, FlushNudge, FlushWait,
       FlushCollect, StopAccepting, CloseStop, Join
  <1>5. Streams \subseteq Entries
    BY QueueConstants
  <1> QED BY <1>1, <1>2, <1>3, <1>4, <1>5 DEF Next, Deliver, Awaiter, FlushRuns

\* A flush that waits has the worker on its side, and so has a Stop that joins it.
LEMMA FlushNeverStuck ==
  ASSUME TodoInv, FlushRuns
  PROVE  WorkerCanGoOn \/ CallCanGoOn
  <1> USE DEF TodoInv, QueueInv
  <1>1. CASE flush = "wait"
    <2>1. flushIdle \in closedIdle \/ pending # 0
      BY DEF IdleOK, TypeOK
    <2>2. pending # 0 => Line # <<>>
      BY DEF LineOK
    <2>3. Line # <<>> => worker # "exited" /\ (batch # <<>> \/ channel # <<>>)
      BY DEF StopOK, Line, TypeOK
    <2> QED BY <1>1, <2>1, <2>2, <2>3 DEF WorkerCanGoOn, CallCanGoOn
  <1>2. CASE flush = "joining"
    BY <1>2 DEF StopOK, WorkerCanGoOn, CallCanGoOn
  <1>3. CASE flush \notin {"wait", "joining"}
    BY <1>3 DEF FlushRuns, TypeOK, CallCanGoOn
  <1> QED BY <1>1, <1>2, <1>3

\* Nobody but themselves takes the next step away from the worker or from Flush and Stop.
LEMMA GuardsStay ==
  ASSUME TodoInv, [Next]_vars, ~Worker, ~Shutdown
  PROVE  (WorkerCanGoOn => WorkerCanGoOn') /\ (CallCanGoOn => CallCanGoOn')
  <1>1. ASSUME NEW e \in Entries, Enqueue(e) \/ SyncWrite(e) \/ AwaitLookup(e) \/ AwaitReturn(e)
        PROVE  /\ UNCHANGED <<worker, batch, nudge, stop, flush, flushIdle, closedIdle>>
               /\ channel # <<>> => channel' # <<>>
    <2>1. UNCHANGED <<worker, batch, nudge, stop, flush, flushIdle, closedIdle>>
      BY <1>1 DEF Enqueue, SyncWrite, AwaitLookup, AwaitReturn, regVars, workVars, flushVars
    <2>2. channel' = Append(channel, e) \/ UNCHANGED channel
      BY <1>1 DEF Enqueue, SyncWrite, AwaitLookup, AwaitReturn, regVars
    <2>3. Append(channel, e) # <<>>
      BY AppendProperties DEF TodoInv, QueueInv, TypeOK
    <2> QED BY <2>1, <2>2, <2>3
  <1>2. UNCHANGED vars => UNCHANGED <<worker, batch, channel, nudge, stop, flush, flushIdle, closedIdle>>
    BY DEF vars, regVars, workVars, flushVars
  <1>3. Streams \subseteq Entries
    BY QueueConstants
  <1>4. /\ UNCHANGED <<worker, batch, nudge, stop, flush, flushIdle, closedIdle>>
        /\ channel # <<>> => channel' # <<>>
    BY <1>1, <1>2, <1>3 DEF Next, Deliver, Awaiter
  <1> QED BY <1>4 DEF WorkerCanGoOn, CallCanGoOn

\* AcceptedIsWritten, up to the induction over Todo: as long as an accepted settlement is not
\* written, there is always less to do before it is, or it is written, whoever delivers meanwhile
\* and with nobody flushing.  The worker is scheduled when it can act (QueueCanAct says where).
THEOREM SettlementsComeCloser ==
  ASSUME NEW e \in Entries, NEW n \in Nat
  PROVE  FairSpec /\ []QueueCanAct
           => ((Unwritten(e) /\ Todo <= n) ~> (e \in done \/ (Unwritten(e) /\ Todo < n)))
  <1> DEFINE some == Unwritten(e) /\ Todo <= n
             less == e \in done \/ (Unwritten(e) /\ Todo < n)
             can == WorkerCanGoOn
  <1>1. TodoInv /\ TodoInv' /\ some /\ [Next]_vars => some' \/ less'
    <2> SUFFICES ASSUME TodoInv, TodoInv', some, [Next]_vars PROVE some' \/ less'
      OBVIOUS
    <2>1. Todo \in Nat /\ Todo' \in Nat
      BY TodoTypes, TodoTypesNext DEF TodoTyped
    <2>2. Unwritten(e) /\ Todo <= n /\ Todo' <= Todo
      BY TodoOfAStep
    <2>3. Todo' <= n
      BY <2>1, <2>2
    <2>4. Unwritten(e)' \/ e \in done'
      BY <2>2, UnwrittenStep
    <2> QED BY <2>3, <2>4
  <1>2. TodoInv /\ TodoInv' /\ some /\ <<Worker>>_vars => less'
    <2> SUFFICES ASSUME TodoInv, TodoInv', some, Worker PROVE less'
      OBVIOUS
    <2>0. Next
      BY DEF Next
    <2>1. Todo \in Nat /\ Todo' \in Nat
      BY TodoTypes, TodoTypesNext DEF TodoTyped
    <2>2. Unwritten(e) /\ Todo <= n /\ Todo' < Todo
      BY WorkerComesCloser
    <2>3. Todo' < n
      BY <2>1, <2>2
    <2>4. Unwritten(e)' \/ e \in done'
      BY <2>0, <2>2, UnwrittenStep
    <2> QED BY <2>3, <2>4
  <1>3. TodoInv /\ some => can
    BY UnwrittenIsHeld
  <1>4. QueueCanAct => (can => ENABLED <<Worker>>_vars)
    BY DEF QueueCanAct
  <1>5. /\ some <=> Unwritten(e) /\ Todo <= n
        /\ less <=> e \in done \/ (Unwritten(e) /\ Todo < n)
    OBVIOUS
  <1> HIDE DEF some, less, can
  <1> QED BY <1>1, <1>2, <1>3, <1>4, <1>5, TodoInvariant, PTL DEF FairSpec, Spec, Fairness

\* ShutdownReturns, up to the same induction: a Flush, and the Stop after it, always have less
\* left to do until Stop returned, however requests keep delivering and although no flush runs
\* into its deadline.
THEOREM ShutdownComesCloser ==
  ASSUME NEW n \in Nat
  PROVE  FairSpec /\ []QueueCanAct
           => ((FlushRuns /\ Todo <= n) ~> (flush = "joined" \/ (FlushRuns /\ Todo < n)))
  <1> DEFINE some == FlushRuns /\ Todo <= n
             less == flush = "joined" \/ (FlushRuns /\ Todo < n)
             canW == WorkerCanGoOn
             canF == CallCanGoOn
  <1>1. TodoInv /\ TodoInv' /\ some /\ [Next]_vars
          => less' \/ (some' /\ (canW => canW') /\ (canF => canF'))
    <2> SUFFICES ASSUME TodoInv, TodoInv', some, [Next]_vars
                 PROVE  less' \/ (some' /\ (canW => canW') /\ (canF => canF'))
      OBVIOUS
    <2>1. Todo \in Nat /\ Todo' \in Nat
      BY TodoTypes, TodoTypesNext DEF TodoTyped
    <2>2. FlushRuns /\ Todo <= n /\ Todo' <= Todo /\ (Worker \/ Shutdown => Todo' < Todo)
      BY TodoOfAStep
    <2>3. Todo' <= n /\ (Worker \/ Shutdown => Todo' < n)
      BY <2>1, <2>2
    <2>4. FlushRuns' \/ flush' = "joined"
      BY <2>2, FlushStaysInside
    <2>5. ~Worker /\ ~Shutdown => (canW => canW') /\ (canF => canF')
      BY GuardsStay
    <2> QED BY <2>3, <2>4, <2>5
  <1>2. TodoInv /\ TodoInv' /\ some /\ (<<Worker>>_vars \/ <<FlushStep>>_vars) => less'
    <2> SUFFICES ASSUME TodoInv, TodoInv', some, Worker \/ FlushStep PROVE less'
      OBVIOUS
    <2>0. Next /\ (Worker \/ Shutdown)
      BY DEF Next, Shutdown
    <2>1. Todo \in Nat /\ Todo' \in Nat
      BY TodoTypes, TodoTypesNext DEF TodoTyped
    <2>2. FlushRuns /\ Todo <= n /\ Todo' < Todo
      BY <2>0, TodoOfAStep
    <2>3. Todo' < n
      BY <2>1, <2>2
    <2>4. FlushRuns' \/ flush' = "joined"
      BY <2>0, <2>2, FlushStaysInside
    <2> QED BY <2>3, <2>4
  <1>3. TodoInv /\ some => canW \/ canF
    BY FlushNeverStuck
  <1>4. QueueCanAct => (canW => ENABLED <<Worker>>_vars) /\ (canF => ENABLED <<FlushStep>>_vars)
    BY DEF QueueCanAct
  <1>5. /\ some <=> FlushRuns /\ Todo <= n
        /\ less <=> flush = "joined" \/ (FlushRuns /\ Todo < n)
    OBVIOUS
  <1> HIDE DEF some, less, canW, canF
  <1> QED BY <1>1, <1>2, <1>3, <1>4, <1>5, TodoInvariant, PTL DEF FairSpec, Spec, Fairness
=============================================================================
