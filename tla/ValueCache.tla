------------------------------ MODULE ValueCache ------------------------------
(* cfgsync.ValueCache (src/go/internal/cfgsync/cache.go): one value, one load at a
   time, a version that keeps a load begun before an invalidation out of the cell,
   and the old value when a load fails.  A value is the version of its rows. *)
EXTENDS Integers

CONSTANTS
  Askers,        \* goroutines that call Get
  LoadError,        \* an error
  NoValue,
  MaxSetting     \* bound: writes of the rows

ASSUME ValueAssumption ==
  NoValue \notin Nat /\ LoadError \notin Nat /\ NoValue # LoadError /\ NoValue \notin Askers

VARIABLES
  setting,   \* the version of the rows in the database
  held,      \* ValueCache.value
  lapsed,    \* expiresAt has passed
  guard,     \* ValueCache.version
  flight,    \* inFlight: who runs the load, or NoValue
  ask,       \* per asker: where its Get is
  known      \* history: the version that the last Invalidate covers

valueVars == <<setting, held, lapsed, guard, flight, ask, known>>

Asking == [at |-> "idle", from |-> 0, leader |-> NoValue, guard |-> 0, value |-> LoadError]

ValueInit ==
  /\ setting = 0 /\ held = NoValue /\ lapsed = FALSE /\ guard = 0 /\ flight = NoValue /\ known = 0
  /\ ask = [r \in Askers |-> Asking]

\* Get, under the mutex: a fresh value, somebody's load, or a load of one's own.
Get(r) ==
  /\ ask[r].at = "idle"
  /\ LET begun == [Asking EXCEPT !.from = known]
         hit == held # NoValue /\ ~lapsed
     IN  /\ ask' = [ask EXCEPT ![r] =
              IF hit THEN [begun EXCEPT !.value = held]
              ELSE IF flight # NoValue THEN [begun EXCEPT !.at = "waiting", !.leader = flight]
              ELSE [begun EXCEPT !.at = "loading", !.guard = guard]]
         /\ flight' = IF hit \/ flight # NoValue THEN flight ELSE r
  /\ UNCHANGED <<setting, held, lapsed, guard, known>>

\* load, outside the mutex.
Load(r) ==
  /\ ask[r].at = "loading"
  /\ \E v \in {setting, LoadError} : ask' = [ask EXCEPT ![r].at = "loaded", ![r].value = v]
  /\ UNCHANGED <<setting, held, lapsed, guard, flight, known>>

FinishUnguarded(r) ==   \* forgets the version
  /\ ask[r].at = "loaded"
  /\ flight' = NoValue
  /\ ask' = [ask EXCEPT ![r].at = "closing",
                        ![r].value = IF @ = LoadError /\ held # NoValue THEN held ELSE @]
  /\ held' = IF ask[r].value # LoadError THEN ask[r].value ELSE held
  /\ lapsed' = (lapsed /\ ask[r].value = LoadError)
  /\ UNCHANGED <<setting, guard, known>>

\* Get, under the mutex again: an error falls back on the cell, a value goes into it
\* unless an invalidation came.
Finish(r) ==
  /\ ask[r].at = "loaded"
  /\ flight' = NoValue
  /\ ask' = [ask EXCEPT ![r].at = "closing",
                        ![r].value = IF @ = LoadError /\ held # NoValue THEN held ELSE @]
  /\ LET keep == ask[r].value # LoadError /\ ask[r].guard = guard
     IN  /\ held' = IF keep THEN ask[r].value ELSE held
         /\ lapsed' = (lapsed /\ ~keep)
  /\ UNCHANGED <<setting, guard, known>>

\* close(flight.done)
CloseFlight(r) ==
  /\ ask[r].at = "closing"
  /\ ask' = [w \in Askers |->
       IF w = r \/ (ask[w].at = "waiting" /\ ask[w].leader = r)
       THEN [ask[w] EXCEPT !.at = "idle", !.value = ask[r].value] ELSE ask[w]]
  /\ UNCHANGED <<setting, held, lapsed, guard, flight, known>>

Leave(r) ==   \* the caller's context ends
  /\ ask[r].at = "waiting"
  /\ ask' = [ask EXCEPT ![r].at = "idle"]
  /\ UNCHANGED <<setting, held, lapsed, guard, flight, known>>

\* The time to live passes; for a domain without one (WithValueCacheNoExpiry) it never does.
Lapse ==
  /\ held # NoValue /\ ~lapsed
  /\ lapsed' = TRUE
  /\ UNCHANGED <<setting, held, guard, flight, ask, known>>

Invalidate ==
  /\ held' = NoValue /\ lapsed' = FALSE /\ guard' = guard + 1 /\ known' = setting
  /\ UNCHANGED <<setting, flight, ask>>

Change ==
  /\ setting < MaxSetting
  /\ setting' = setting + 1
  /\ UNCHANGED <<held, lapsed, guard, flight, ask, known>>

AskerStep(r) == Get(r) \/ Load(r) \/ Finish(r) \/ CloseFlight(r) \/ Leave(r)

\* The cache by itself; in ConfigSync the bus decides when to invalidate.
ValueNext ==
  \/ Change \/ Invalidate \/ Lapse
  \/ \E r \in Askers : AskerStep(r)

ValueSpec == ValueInit /\ [][ValueNext]_valueVars

-----------------------------------------------------------------------------

\* After an invalidation an older value is answered only to those who joined a load
\* that was under way when it came: the cell never has it, and no error brings it back.
OnlyAJoinIsStale ==
  \A r \in Askers :
    (ask[r].at = "idle" /\ ask[r].value # LoadError /\ ask[r].value < ask[r].from)
      => ask[r].leader # NoValue
================================================================================
