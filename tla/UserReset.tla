------------------------------ MODULE UserReset ------------------------------
(* The reset of one user's statistics (src/go/internal/usersreset): a POST writes the
   record of a job, claims the user, fixes the moment up to which rows go (the cut), and
   queues the job; the instance that leads deletes the rows of both tables in batches and
   clears the markers.  The record, the claim, the cut and the queue are keys of Redis,
   each written by a command of its own; every command may fail and every process may die
   between two of them.  The rows are written by the data plane all the while.

   Times are all different: a row has microseconds, a cut is a millisecond rounded down.
   The counts in the record and the times to live (seven days) are left out; a member of
   the queue may fall due at any time, for a lease or a backoff ends while others wait. *)
EXTENDS Integers, FiniteSets

CONSTANTS
  Posters,        \* the POSTs; the id of a job is that of the POST that made it
  Instances,      \* the processes that may lead
  Rows,           \* the user's requests
  BatchSize,
  MaxAttempts,
  MaxFaults,      \* bound: commands that fail, processes and sessions that die
  Absent

Times == Nat \cup {Absent}
RecordType == [status : {"queued", "running", "completed", "failed"}, cut : Times]

ASSUME ResetAssumption ==
  /\ BatchSize \in Nat \ {0} /\ MaxAttempts \in Nat \ {0} /\ MaxFaults \in Nat
  /\ Absent \notin Posters \cup Instances \cup Nat \cup RecordType

VARIABLES
  clock,       \* grows with every row, cut and marker
  created,     \* per row its time, or Absent
  table,       \* the rows of message_request and of usage_ledger
  rowLocks,        \* rows an open transaction of the data plane has locked
  costResetAt, \* the user's marker: older rows do not count against limits
  lastReset,   \* history: the latest marker that was ever set
  record,      \* per job its status record, or Absent
  cutoff,      \* per job the moment kept by the first preparation, or Absent
  active,      \* the job that has claimed the user, or Absent
  pending,     \* the queue: members are a job and the attempts it has behind it
  leader,      \* the instance whose session holds the lock, or Absent
  faults,      \* bound: what has failed so far
  worker,      \* per instance its consumer
  poster,      \* per POST where it is
  newer,       \* history, per job: the rows that did not exist when a POST was answered
  excused      \* history: jobs whose end was overwritten, or could not be written

rowVars == <<created, table, rowLocks, costResetAt, lastReset>>
jobVars == <<record, cutoff, active, pending, newer, excused>>
resetVars == <<clock, rowVars, jobVars, leader, faults, worker, poster>>

Queued(job, n) == [job |-> job, attempts |-> n]
Record(status, cut) == [status |-> status, cut |-> cut]
IsActive(r) == r # Absent /\ r.status \in {"queued", "running"}
Standby == [at |-> "standby", job |-> Absent, attempts |-> 0, cut |-> Absent, stage |-> 1]
NewPost == [at |-> "new", job |-> Absent, cut |-> Absent, again |-> FALSE]

ResetInit ==
  /\ clock = 0 /\ created = [r \in Rows |-> Absent] /\ rowLocks = {}
  /\ table = [message_request |-> {}, usage_ledger |-> {}]
  /\ costResetAt = Absent /\ lastReset = 0
  /\ record = [j \in Posters |-> Absent] /\ cutoff = [j \in Posters |-> Absent]
  /\ active = Absent /\ pending = {} /\ leader = Absent /\ faults = 0
  /\ worker = [w \in Instances |-> Standby] /\ poster = [p \in Posters |-> NewPost]
  /\ newer = [j \in Posters |-> {}] /\ excused = {}

\* SETEX of a record, whoever writes it: nobody looks at what is there.
WriteRecord(j, status, cut) ==
  /\ record' = [record EXCEPT ![j] = Record(status, cut)]
  /\ excused' = IF record[j] # Absent /\ ~IsActive(record[j]) /\ status \in {"queued", "running"}
                THEN excused \cup {j} ELSE excused

-----------------------------------------------------------------------------
(* The data plane *)

InsertRow(r) ==
  /\ created[r] = Absent
  /\ clock' = clock + 1 /\ created' = [created EXCEPT ![r] = clock + 1]
  /\ table' = [table EXCEPT !.message_request = @ \cup {r}]
  /\ UNCHANGED <<rowLocks, costResetAt, lastReset, jobVars, leader, faults, worker, poster>>

\* A settlement, a loser's cost or a repair updates the row: a trigger copies it to the
\* ledger in the same transaction, with the time the row was created.
UpdateRow(r) ==
  /\ r \in table.message_request \ rowLocks
  /\ rowLocks' = rowLocks \cup {r}
  /\ UNCHANGED <<clock, created, table, costResetAt, lastReset, jobVars, leader, faults,
                 worker, poster>>

CommitRow(r) ==
  /\ r \in rowLocks
  /\ rowLocks' = rowLocks \ {r}
  /\ table' \in {table, [table EXCEPT !.usage_ledger = @ \cup {r}]}
  /\ UNCHANGED <<clock, created, costResetAt, lastReset, jobVars, leader, faults, worker,
                 poster>>

\* An administrator resets the limits alone.
ResetAdminUserCostMarkers ==
  /\ lastReset = 0
  /\ clock' = clock + 1 /\ costResetAt' = clock + 1 /\ lastReset' = clock + 1
  /\ UNCHANGED <<created, table, rowLocks, jobVars, leader, faults, worker, poster>>

-----------------------------------------------------------------------------
(* A POST: Enqueue *)

PosterOnly == UNCHANGED <<rowVars, leader, worker>>
Fault == faults < MaxFaults /\ faults' = faults + 1
Fine == UNCHANGED faults
GoOn(p, at) == poster' = [poster EXCEPT ![p].at = at]

WriteQueued(p) ==
  /\ poster[p].at = "new"
  /\ WriteRecord(p, "queued", Absent)
  /\ GoOn(p, "claim")
  /\ UNCHANGED <<clock, cutoff, active, pending, newer>> /\ Fine /\ PosterOnly

ClaimActive(p) ==
  /\ poster[p].at = "claim"
  /\ IF active = Absent
     THEN active' = p /\ poster' = [poster EXCEPT ![p].at = "prepare", ![p].job = p]
     ELSE poster' = [poster EXCEPT ![p].at = "orphan", ![p].job = active] /\ UNCHANGED active
  /\ UNCHANGED <<clock, record, cutoff, pending, newer, excused>> /\ Fine /\ PosterOnly

\* reconcileActive: its own record goes (a failure is only logged).
DeleteOwn(p) ==
  /\ poster[p].at = "orphan"
  /\ \/ record' = [record EXCEPT ![p] = Absent] /\ Fine
     \/ UNCHANGED record /\ Fault
  /\ GoOn(p, "look")
  /\ UNCHANGED <<clock, cutoff, active, pending, newer, excused>> /\ PosterOnly

LookAtExisting(p) ==
  /\ poster[p].at = "look"
  /\ LET existing == record[poster[p].job] IN
       poster' = [poster EXCEPT ![p] =
         IF IsActive(existing) THEN [@ EXCEPT !.at = "join", !.cut = existing.cut]
                               ELSE [@ EXCEPT !.at = "evict"]]
  /\ UNCHANGED <<clock, jobVars>> /\ Fine /\ PosterOnly

\* A claim without a job is released, and the POST starts over, once.
Evict(p) ==
  /\ poster[p].at = "evict"
  /\ \/ active' = (IF active = poster[p].job THEN Absent ELSE active) /\ Fine
     \/ UNCHANGED active /\ Fault
  /\ poster' = [poster EXCEPT ![p] =
       IF @.again THEN [NewPost EXCEPT !.at = "error"] ELSE [NewPost EXCEPT !.again = TRUE]]
  /\ UNCHANGED <<clock, record, cutoff, pending, newer, excused>> /\ PosterOnly

\* newer: only the first answer of a job counts.
Answered(j) == \E p \in Posters : poster[p].at = "answered" /\ poster[p].job = j
Answer(p) ==
  /\ poster' = [poster EXCEPT ![p].at = "answered", ![p].cut = Absent]
  /\ newer' = [newer EXCEPT ![poster[p].job] =
       IF Answered(poster[p].job) THEN @ ELSE {r \in Rows : created[r] = Absent}]

JoinExisting(p) ==
  /\ poster[p].at = "join"
  /\ IF \E m \in pending : m.job = poster[p].job THEN Answer(p)
     ELSE GoOn(p, "prepare") /\ UNCHANGED newer
  /\ UNCHANGED <<clock, record, cutoff, active, pending, excused>> /\ Fine /\ PosterOnly

PreparedAnew(j) == clock + 1   \* the marker of the first preparation is not looked at

\* PrepareFixed5h: the first to prepare a job fixes its cut, on the clock of Redis.
Prepared(j) == IF cutoff[j] # Absent THEN cutoff[j] ELSE clock + 1

\* ensurePrepared
EnsurePrepared(p) ==
  /\ poster[p].at = "prepare"
  /\ IF poster[p].cut # Absent THEN GoOn(p, "push") /\ UNCHANGED <<clock, cutoff>>
     ELSE LET j == poster[p].job IN
            /\ cutoff' = [cutoff EXCEPT ![j] = Prepared(j)]
            /\ clock' = IF Prepared(j) > clock THEN clock + 1 ELSE clock
            /\ poster' = [poster EXCEPT ![p].at = "save", ![p].cut = Prepared(j)]
  /\ UNCHANGED <<record, active, pending, newer, excused>> /\ Fine /\ PosterOnly

SavePrepared(p) ==
  /\ poster[p].at = "save"
  /\ WriteRecord(poster[p].job, "queued", poster[p].cut)
  /\ GoOn(p, "push")
  /\ UNCHANGED <<clock, cutoff, active, pending, newer>> /\ Fine /\ PosterOnly

PushJob(p) ==
  /\ poster[p].at = "push"
  /\ pending' = pending \cup {Queued(poster[p].job, 0)}
  /\ Answer(p)
  /\ UNCHANGED <<clock, record, cutoff, active, excused>> /\ Fine /\ PosterOnly

\* A command fails, or the process dies: nothing is undone.
PostFails(p) ==
  /\ poster[p].at \notin {"new", "answered", "error"}
  /\ poster' = [poster EXCEPT ![p] = [NewPost EXCEPT !.at = "error"]]
  /\ UNCHANGED <<clock, jobVars>> /\ Fault /\ PosterOnly

-----------------------------------------------------------------------------
(* The leader: supervise and Worker.Run *)

WorkerOnly == UNCHANGED <<created, rowLocks, lastReset, poster, newer>>
KeepRows == UNCHANGED <<table, costResetAt>>
KeepJobs == UNCHANGED <<record, cutoff, active, pending, excused>>
Step(w, at) == worker' = [worker EXCEPT ![w].at = at]
Rest(w) == worker' = [worker EXCEPT ![w] = [Standby EXCEPT !.at = "idle"]]
Member(w) == Queued(worker[w].job, worker[w].attempts)

AcquireLeader(w) ==
  /\ worker[w].at = "standby" /\ leader = Absent
  /\ leader' = w /\ Rest(w) /\ Fine
  /\ UNCHANGED clock /\ WorkerOnly /\ KeepRows /\ KeepJobs

\* The session of the lock ends; Run does not ask for it again.
SessionLost ==
  /\ leader # Absent /\ leader' = Absent /\ Fault
  /\ UNCHANGED <<clock, rowVars, jobVars, worker, poster>>

\* The instance dies or is stopped: what it was at is left as it is.
Crash(w) ==
  /\ worker[w].at # "standby"
  /\ worker' = [worker EXCEPT ![w] = Standby]
  /\ leader' = (IF leader = w THEN Absent ELSE leader) /\ Fault
  /\ UNCHANGED clock /\ WorkerOnly /\ KeepRows /\ KeepJobs

Consumer == UNCHANGED <<clock, leader>> /\ WorkerOnly

\* claimDueJob: a due member is read, and added again with a later score.
FindDue(w) ==
  /\ worker[w].at = "idle"
  /\ \E m \in pending :
       worker' = [worker EXCEPT ![w].at = "found", ![w].job = m.job, ![w].attempts = m.attempts]
  /\ Fine /\ Consumer /\ KeepRows /\ KeepJobs

LeaseJob(w) ==
  /\ worker[w].at = "found"
  /\ \/ pending' = pending \cup {Member(w)} /\ Step(w, "leased") /\ Fine
     \/ Rest(w) /\ UNCHANGED pending /\ Fault
  /\ UNCHANGED <<record, cutoff, active, excused>> /\ Consumer /\ KeepRows

(* runJob.  A member is pushed only after the record holds its cut, and no later write
   takes it away, so ensurePrepared returns the record it is given. *)
ReadStatus(w) ==
  /\ worker[w].at = "leased"
  /\ LET status == record[worker[w].job] IN
       \/ /\ worker' = [worker EXCEPT ![w] =
               IF IsActive(status) THEN [@ EXCEPT !.at = "start", !.cut = status.cut]
                                   ELSE [@ EXCEPT !.at = "drop"]]
          /\ Fine
       \/ Rest(w) /\ Fault
  /\ Consumer /\ KeepRows /\ KeepJobs

SetRunning(w) ==
  /\ worker[w].at = "start"
  /\ \/ WriteRecord(worker[w].job, "running", worker[w].cut) /\ Step(w, "delete") /\ Fine
     \/ Rest(w) /\ UNCHANGED <<record, excused>> /\ Fault
  /\ UNCHANGED <<cutoff, active, pending>> /\ Consumer /\ KeepRows

-----------------------------------------------------------------------------
(* Execute *)

LedgerFirst == <<"usage_ledger", "message_request">>   \* swapped

Order == <<"message_request", "usage_ledger">>
Table(w) == Order[worker[w].stage]
Doomed(w) == {r \in table[Table(w)] : created[r] <= worker[w].cut}

\* deleteBatch: FOR UPDATE SKIP LOCKED; less than a full batch ends the loop.
DeleteBatch(w) ==
  /\ worker[w].at = "delete"
  /\ \/ \E batch \in SUBSET (Doomed(w) \ rowLocks) :
          /\ \/ Cardinality(batch) = BatchSize
             \/ batch = Doomed(w) \ rowLocks /\ Cardinality(batch) < BatchSize
          /\ table' = [table EXCEPT ![Table(w)] = @ \ batch]
          /\ Step(w, IF batch = {} THEN "check"
                     ELSE IF Cardinality(batch) = BatchSize THEN "report" ELSE "last")
          /\ Fine
     \/ Step(w, "failed") /\ UNCHANGED table /\ Fault
  /\ UNCHANGED costResetAt /\ Consumer /\ KeepJobs

\* The progress is written after every batch that deleted something.
Report(w) ==
  /\ worker[w].at \in {"report", "last"}
  /\ \/ /\ WriteRecord(worker[w].job, "running", worker[w].cut)
        /\ Step(w, IF worker[w].at = "last" THEN "check" ELSE "delete")
        /\ Fine
     \/ Step(w, "failed") /\ UNCHANGED <<record, excused>> /\ Fault
  /\ UNCHANGED <<cutoff, active, pending>> /\ Consumer /\ KeepRows

\* Rows that were skipped because they were locked fail the attempt.
RemainingRows(w) ==
  /\ worker[w].at = "check"
  /\ \/ /\ Doomed(w) = {}
        /\ IF worker[w].stage = 1
           THEN worker' = [worker EXCEPT ![w].at = "delete", ![w].stage = 2]
           ELSE Step(w, "finish")
        /\ Fine
     \/ Doomed(w) # {} /\ Step(w, "failed") /\ Fine
     \/ Step(w, "failed") /\ Fault
  /\ Consumer /\ KeepRows /\ KeepJobs

\* ClearAdminUserResetTimestamps: a marker set after the cut stays.
ClearedMarker(cut) == IF costResetAt # Absent /\ costResetAt <= cut THEN Absent ELSE costResetAt

\* finishReset; the keys of Redis that are cleaned after it are costs, cached.
FinishReset(w) ==
  /\ worker[w].at = "finish"
  /\ \/ costResetAt' = ClearedMarker(worker[w].cut) /\ Step(w, "complete") /\ Fine
     \/ /\ costResetAt' \in {costResetAt, ClearedMarker(worker[w].cut)}
        /\ Step(w, "failed") /\ Fault
  /\ UNCHANGED table /\ Consumer /\ KeepJobs

-----------------------------------------------------------------------------
(* The end of an attempt *)

SetCompleted(w) ==
  /\ worker[w].at = "complete"
  /\ \/ WriteRecord(worker[w].job, "completed", worker[w].cut) /\ Step(w, "remove") /\ Fine
     \/ Rest(w) /\ UNCHANGED <<record, excused>> /\ Fault
  /\ UNCHANGED <<cutoff, active, pending>> /\ Consumer /\ KeepRows

\* finishFailed goes on when the record cannot be written.
FinishFailed(w) ==
  /\ worker[w].at = "failed"
  /\ LET final == worker[w].attempts + 1 >= MaxAttempts  j == worker[w].job IN
       /\ \/ WriteRecord(j, IF final THEN "failed" ELSE "queued", worker[w].cut) /\ Fine
          \/ UNCHANGED record /\ excused' = (IF final THEN excused \cup {j} ELSE excused) /\ Fault
       /\ Step(w, IF final THEN "remove" ELSE "requeue")
  /\ UNCHANGED <<cutoff, active, pending>> /\ Consumer /\ KeepRows

\* The next attempt is queued before the member of this one goes.
Requeue(w) ==
  /\ worker[w].at = "requeue"
  /\ \/ /\ pending' = pending \cup {Queued(worker[w].job, worker[w].attempts + 1)}
        /\ Step(w, "drop") /\ Fine
     \/ Rest(w) /\ UNCHANGED pending /\ Fault
  /\ UNCHANGED <<record, cutoff, active, excused>> /\ Consumer /\ KeepRows

RemoveOwn(w) ==
  \/ pending' = pending \ {Member(w)} /\ Fine
  \/ UNCHANGED pending /\ Fault

DropMember(w) ==
  /\ worker[w].at = "drop"
  /\ RemoveOwn(w) /\ Rest(w)
  /\ UNCHANGED <<record, cutoff, active, excused>> /\ Consumer /\ KeepRows

RemoveMember(w) ==
  /\ worker[w].at = "remove"
  /\ RemoveOwn(w) /\ Step(w, "release")
  /\ UNCHANGED <<record, cutoff, active, excused>> /\ Consumer /\ KeepRows

ReleaseActive(w) ==
  /\ worker[w].at = "release"
  /\ \/ active' = (IF active = worker[w].job THEN Absent ELSE active) /\ Fine
     \/ UNCHANGED active /\ Fault
  /\ Rest(w)
  /\ UNCHANGED <<record, cutoff, pending, excused>> /\ Consumer /\ KeepRows

-----------------------------------------------------------------------------

Consume(w) ==
  \/ AcquireLeader(w) \/ Crash(w) \/ FindDue(w) \/ LeaseJob(w) \/ ReadStatus(w)
  \/ SetRunning(w) \/ DeleteBatch(w) \/ Report(w) \/ RemainingRows(w) \/ FinishReset(w)
  \/ SetCompleted(w) \/ FinishFailed(w) \/ Requeue(w) \/ DropMember(w) \/ RemoveMember(w)
  \/ ReleaseActive(w)

Post(p) ==
  \/ WriteQueued(p) \/ ClaimActive(p) \/ DeleteOwn(p) \/ LookAtExisting(p) \/ Evict(p)
  \/ JoinExisting(p) \/ EnsurePrepared(p) \/ SavePrepared(p) \/ PushJob(p) \/ PostFails(p)

ResetNext ==
  \/ \E r \in Rows : InsertRow(r) \/ UpdateRow(r) \/ CommitRow(r)
  \/ ResetAdminUserCostMarkers \/ SessionLost
  \/ \E p \in Posters : Post(p)
  \/ \E w \in Instances : Consume(w)

ResetSpec == ResetInit /\ [][ResetNext]_resetVars

-----------------------------------------------------------------------------
(* Properties *)

\* A job that is reported completed has left nothing behind: no row of either table is
\* as old as its cut, and none comes back, though settlements run all the while and copy
\* rows to the ledger after their deletion has begun (reset.go:10-18).
CompletedIsEmpty ==
  \A j \in Posters : record[j] # Absent /\ record[j].status = "completed" =>
    \A r \in table.message_request \cup table.usage_ledger : created[r] > record[j].cut

\* What the user spends after a POST was answered survives the job it was answered with,
\* whoever prepares, retries or takes over the job (status.go:150-151).
NothingNewer ==
  [][\A w \in Instances, t \in {"message_request", "usage_ledger"} :
       table'[t] # table[t] /\ worker'[w] # worker[w] =>
         (table[t] \ table'[t]) \cap newer[worker[w].job] = {}]_resetVars

\* A row that a reset of the limits has once left out never counts again: a marker is
\* only taken away when the rows before it are gone (reset.go:12-13).
OldStaysOut ==
  \A r \in table.usage_ledger :
    created[r] <= lastReset => costResetAt # Absent /\ created[r] <= costResetAt

\* The job of a POST that was answered is not forgotten: as long as its record says it is
\* under way it is in the queue, across crashes, retries and a second consumer.  Excused
\* are a job whose end somebody overwrote with an older record, and one whose last
\* failure could not be written.
NotForgotten ==
  \A j \in Posters \ excused :
    Answered(j) /\ IsActive(record[j]) => \E m \in pending : m.job = j

\* A reset that was promised will be done, and what it has done stays done.
ResetIsFinal == CompletedIsEmpty /\ OldStaysOut /\ NotForgotten
=============================================================================
