------------------------------ MODULE SlowRate ------------------------------
(* The slow samples of one provider and model (internal/slowrate/recorder.go) and
   what routing reads of them (Assess, internal/route/slowrate.go). Three Redis
   keys: the sliding window of slow samples, the state that marks the pair as
   punished, and the count of clean samples in a row. Requests that end, on any
   instance, record a slow or a clean sample; a request whose stream was given up
   before its first content records a slow fact as well, under the same member.
   A client sends a pipeline in one piece and Redis runs it in one step here. The
   baseline, the cooldown of the session and the log of penalties are left out. *)
EXTENDS Naturals, FiniteSets

CONSTANTS
    Recorders,          \* the goroutines that record, each one sample after the other
    Members,            \* the requests whose ids enter the window
    TriggerCount,       \* slow samples that bring the penalty
    RecoveryRequests,   \* clean samples in a row that lift it
    SlowWindow,         \* the window, in ticks; every key lives for two
    MaxSamples,         \* bound: samples that are recorded
    MaxSlowTime         \* bound on the clock

ASSUME SlowAssumption ==
  /\ TriggerCount \in Nat \ {0} /\ RecoveryRequests \in Nat \ {0}
  /\ SlowWindow \in Nat \ {0} /\ {MaxSamples, MaxSlowTime} \subseteq Nat

VARIABLES
    slowClock,
    window,         \* ZSET samples: member -> score
    windowEnd,      \* when its key expires; 0 is no key
    marked,         \* when the state key expires; 0 is no key
    cleanRun,       \* the clean samples in a row and when the key expires
    recorder,       \* where each recorder is
    begun,          \* samples recorded so far
    cleanSince,     \* history: clean samples since the last slow one, to RecoveryRequests
    unmarked        \* history: a slow sample at the trigger whose mark was not written

slowVars == <<slowClock, window, windowEnd, marked, cleanRun, recorder, begun, cleanSince, unmarked>>

Phases == {"idle", "slow", "mark", "clean", "watch", "exec"}
NoStreak == [n |-> 0, end |-> 0]
Rest == [at |-> "idle", id |-> "none", time |-> 0,
         streak |-> 0, samples |-> 0, dirty |-> FALSE]
KeyEnd == slowClock + 2 * SlowWindow

\* Any write to one of the three keys fails the transactions that watch them.
Moves(r, to) ==
  recorder' = [o \in Recorders |->
                 IF o = r THEN to
                 ELSE [recorder[o] EXCEPT !.dirty = @ \/ recorder[o].at = "exec"]]
Ends(r) == recorder' = [recorder EXCEPT ![r] = Rest]

SlowInit ==
  /\ slowClock = 1 /\ window = <<>> /\ windowEnd = 0 /\ marked = 0 /\ cleanRun = NoStreak
  /\ recorder = [r \in Recorders |-> Rest] /\ begun = 0 /\ cleanSince = 0 /\ unmarked = FALSE

-----------------------------------------------------------------------------
Begins(r) == recorder[r].at = "idle" /\ begun < MaxSamples /\ begun' = begun + 1

\* Record and RecordPrecommit read their clock before the pipeline leaves.
BeginSlow(r) ==
  /\ Begins(r)
  /\ \E m \in Members :
       recorder' = [recorder EXCEPT ![r] = [@ EXCEPT !.at = "slow", !.id = m, !.time = slowClock]]
  /\ UNCHANGED <<slowClock, window, windowEnd, marked, cleanRun, cleanSince, unmarked>>

BeginClean(r) ==
  /\ Begins(r)
  /\ recorder' = [recorder EXCEPT ![r].at = "clean"]
  /\ UNCHANGED <<slowClock, window, windowEnd, marked, cleanRun, cleanSince, unmarked>>

\* The window once r's sample is in it and what is out of it is trimmed.
Sampled(r) ==
  LET with == [m \in DOMAIN window \cup {recorder[r].id} |->
                 IF m = recorder[r].id THEN recorder[r].time ELSE window[m]]
      kept == {m \in DOMAIN with : with[m] + SlowWindow > recorder[r].time}
  IN [m \in kept |-> with[m]]

\* A slow sample: into the window, and the clean ones in a row are forgotten.
SlowWrite(r) ==
  /\ recorder[r].at = "slow"
  /\ window' = Sampled(r) /\ windowEnd' = KeyEnd
  /\ cleanRun' = NoStreak /\ cleanSince' = 0
  /\ LET reached == Cardinality(DOMAIN Sampled(r)) >= TriggerCount
     IN \/ /\ Moves(r, [Rest EXCEPT !.at = IF reached THEN "mark" ELSE "idle"])
           /\ UNCHANGED unmarked
        \/ /\ Moves(r, Rest)     \* the reply is lost
           /\ unmarked' = (unmarked \/ reached)
  /\ UNCHANGED <<slowClock, marked, begun>>

\* advanceSlowState, at the trigger: the mark routing looks for.
Mark(r) ==
  /\ recorder[r].at = "mark"
  /\ marked' = KeyEnd
  /\ Moves(r, Rest)
  /\ UNCHANGED <<slowClock, window, windowEnd, cleanRun, begun, cleanSince, unmarked>>

\* recordClean: one more in a row; the count and the window's size are remembered.
CleanWrite(r) ==
  /\ recorder[r].at = "clean"
  /\ cleanRun' = [n |-> cleanRun.n + 1, end |-> KeyEnd]
  /\ cleanSince' = IF cleanSince < RecoveryRequests THEN cleanSince + 1 ELSE cleanSince
  /\ \E to \in {"watch", "idle"} :      \* "idle" also when the reply is lost
       /\ to = "watch" => cleanRun'.n >= RecoveryRequests
       /\ Moves(r, [Rest EXCEPT !.at = to, !.streak = cleanRun'.n,
                                !.samples = Cardinality(DOMAIN window)])
  /\ UNCHANGED <<slowClock, window, windowEnd, marked, begun, unmarked>>

WatchTrusting(r) ==     \* the transaction alone, without the count it started from
  /\ recorder[r].at = "watch"
  /\ recorder' = [recorder EXCEPT ![r].at = "exec"]
  /\ UNCHANGED <<slowClock, window, windowEnd, marked, cleanRun, begun, cleanSince, unmarked>>

\* resetAfterRecovery: WATCH, and both counts must be those the recorder left.
Watch(r) ==
  /\ recorder[r].at = "watch"
  /\ IF /\ cleanRun.n = recorder[r].streak
        /\ Cardinality(DOMAIN window) = recorder[r].samples
     THEN recorder' = [recorder EXCEPT ![r].at = "exec"]
     ELSE Ends(r)
  /\ UNCHANGED <<slowClock, window, windowEnd, marked, cleanRun, begun, cleanSince, unmarked>>

ExecKeepsWindow(r) ==   \* the window is left behind
  /\ recorder[r].at = "exec"
  /\ IF recorder[r].dirty
     THEN Ends(r) /\ UNCHANGED <<marked, cleanRun>>
     ELSE Moves(r, Rest) /\ marked' = 0 /\ cleanRun' = NoStreak
  /\ UNCHANGED <<slowClock, window, windowEnd, begun, cleanSince, unmarked>>

\* EXEC deletes the three keys unless one was written since WATCH.
Exec(r) ==
  /\ recorder[r].at = "exec"
  /\ IF recorder[r].dirty
     THEN Ends(r) /\ UNCHANGED <<window, windowEnd, marked, cleanRun>>
     ELSE /\ Moves(r, Rest)
          /\ window' = <<>> /\ windowEnd' = 0 /\ marked' = 0 /\ cleanRun' = NoStreak
  /\ UNCHANGED <<slowClock, begun, cleanSince, unmarked>>

\* A call that fails before Redis runs it: one warning, and nothing is retried.
SlowFault(r) ==
  /\ recorder[r].at # "idle"
  /\ unmarked' = (unmarked \/ recorder[r].at = "mark")
  /\ Ends(r)
  /\ UNCHANGED <<slowClock, window, windowEnd, marked, cleanRun, begun, cleanSince>>

\* Time passes; a key whose life has ended is gone, and whoever watches it is told.
SlowTick ==
  /\ slowClock < MaxSlowTime
  /\ slowClock' = slowClock + 1
  /\ LET Gone(end) == end # 0 /\ end <= slowClock'
     IN /\ IF Gone(windowEnd) THEN window' = <<>> /\ windowEnd' = 0
                              ELSE UNCHANGED <<window, windowEnd>>
        /\ marked' = IF Gone(marked) THEN 0 ELSE marked
        /\ cleanRun' = IF Gone(cleanRun.end) THEN NoStreak ELSE cleanRun
  /\ IF <<window, marked, cleanRun>>' = <<window, marked, cleanRun>>
     THEN UNCHANGED recorder
     ELSE recorder' = [r \in Recorders |->
                         [recorder[r] EXCEPT !.dirty = @ \/ recorder[r].at = "exec"]]
  /\ UNCHANGED <<begun, cleanSince, unmarked>>

SlowNext ==
  \/ \E r \in Recorders :
       \/ BeginSlow(r) \/ BeginClean(r) \/ SlowWrite(r) \/ Mark(r) \/ CleanWrite(r)
       \/ Watch(r) \/ Exec(r) \/ SlowFault(r)
  \/ SlowTick

SlowSpec == SlowInit /\ [][SlowNext]_slowVars

-----------------------------------------------------------------------------
\* What Assess counts: the samples of the window that ends now, both ends included.
LiveSamples == {m \in DOMAIN window : window[m] + SlowWindow >= slowClock}

\* A slow sample leaves the window when it is too old or after as many clean samples
\* in a row as lift the penalty: a recovery decided before a slow sample was written
\* does not delete it, in whatever order its three round trips and the writes of other
\* requests reach Redis (the blind spot of WATCH that resetAfterRecovery speaks of).
NothingSlowIsForgotten ==
  [][\A m \in DOMAIN window \ DOMAIN window' :
       \/ window[m] + SlowWindow <= slowClock'
       \/ cleanSince >= RecoveryRequests]_slowVars

\* Routing counts the window of a pair only if its state key exists. As long as the
\* window holds enough slow samples the key does, except while the sample that
\* reached the trigger is about to mark the pair or when that write failed.
PunishedIsMarked ==
  \/ Cardinality(LiveSamples) < TriggerCount
  \/ marked # 0
  \/ unmarked
  \/ \E r \in Recorders : recorder[r].at = "mark"

=============================================================================
