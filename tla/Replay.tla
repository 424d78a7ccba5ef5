-------------------------------- MODULE Replay --------------------------------
(* Replay of responses: requests that attach (src/go/internal/replay/attacher.go) and the
   spool of the one that owns the response (spool.go), over the store of ReplayStore.
   All requests here have the same replay id, in any number of processes.  The owner's
   spool has one goroutine, the writer, that makes every call to Redis; the handler of
   the response only appends to a batch, sets flags and queues jobs.
   A process that dies takes no more steps, and its lease lapses like any other. *)
EXTENDS ReplayStore

CONSTANTS
  Length,     \* chunks of a complete response
  QueueSize   \* capacity of Spool.ops

ASSUME ReplayAssumption == Length \in Nat \ {0} /\ QueueSize \in Nat \ {0}

VARIABLES
  at,      \* per request: where it is between GetMeta and its end
  seen,    \* the meta document it read
  parts,   \* what it has read of a stored response
  claimed,    \* it claimed the owner key
  spool    \* the owner's spool

attachVars == <<at, seen, parts, claimed>>
replayVars == <<storeVars, attachVars, spool>>

NoReply == [outcome |-> "none", count |-> 0]
NewSpool == [
  handler |-> "stream", writer |-> "idle", ops |-> <<"boot">>,
  made |-> 0, pending |-> <<>>, tail |-> <<>>, count |-> 0, payload |-> <<>>,
  opened |-> FALSE, off |-> FALSE, expired |-> FALSE,
  cleanup |-> "no", released |-> FALSE, reply |-> NoReply]
NoSpool == [NewSpool EXCEPT !.handler = "left", !.writer = "exited", !.ops = <<>>]

ReplayInit ==
  /\ StoreInit
  /\ at = [r \in Requests |-> "new"] /\ seen = [r \in Requests |-> NoMeta]
  /\ parts = [r \in Requests |-> <<>>] /\ claimed = [r \in Requests |-> FALSE]
  /\ spool = [r \in Requests |-> NoSpool]

-----------------------------------------------------------------------------
(* Attach.  A bypassing request skips what it finds and never overwrites it. *)

MoveTo(r, place) == at' = [at EXCEPT ![r] = place]

GetMeta(r) ==
  /\ at[r] = "new"
  /\ \E c \in Calls :
       /\ Look(c)
       /\ IF ~c.heard THEN MoveTo(r, "plain") /\ UNCHANGED seen
          ELSE /\ seen' = [seen EXCEPT ![r] = meta]
               /\ IF meta.status = "completed" /\ meta.count > 0
                  THEN \E place \in {"serving", "plain", "claim"} : MoveTo(r, place)
                  ELSE MoveTo(r, "claim")
  /\ UNCHANGED <<parts, claimed, spool>>

\* readAllGeneration: a page is served only if it is of the generation that GetMeta saw.
ServePage(r) ==
  /\ at[r] = "serving"
  /\ \E c \in Calls :
       /\ Look(c)
       /\ IF c.heard /\ meta.gen = seen[r].gen /\ Len(parts[r]) < Len(list)
          THEN /\ parts' = [parts EXCEPT ![r] = Append(@, list[Len(@) + 1])]
               /\ IF Len(parts'[r]) = seen[r].count THEN MoveTo(r, "served") ELSE UNCHANGED at
          ELSE parts' = [parts EXCEPT ![r] = <<>>] /\ MoveTo(r, "claim")
  /\ UNCHANGED <<seen, claimed, spool>>

Claim(r) ==
  /\ at[r] = "claim"
  /\ \E c \in Calls :
       /\ TryClaimOwner(r, c)
       /\ claimed' = [claimed EXCEPT ![r] = Claimed(c)]
       /\ MoveTo(r, IF ~Claimed(c) /\ seen[r].status = "owning" THEN "plain" ELSE "find")
  /\ seen' = [seen EXCEPT ![r] = NoMeta]
  /\ UNCHANGED <<parts, spool>>

LeaveWith(r, payload) ==
  /\ parts' = [parts EXCEPT ![r] = payload]
  /\ MoveTo(r, IF claimed[r] THEN "release" ELSE IF payload = <<>> THEN "plain" ELSE "served")

\* FindCompleted, after the claim: an owner persists before it gives the key up.
FindCompleted(r) ==
  /\ at[r] = "find"
  /\ \/ durable.state = "live" /\ \E p \in {durable.payload, <<>>} : LeaveWith(r, p)
     \/ durable.state # "live" /\ UNCHANGED parts
        /\ MoveTo(r, IF claimed[r] THEN "prepare" ELSE "plain")
     \/ LeaveWith(r, <<>>)   \* the query fails
  /\ UNCHANGED <<seen, claimed, spool, storeVars>>

\* Also when the response turns out not to be worth keeping (replaySession.release).
Release(r) ==
  /\ at[r] = "release"
  /\ \E c \in Calls : ReleaseOwner(r, c)
  /\ MoveTo(r, IF parts[r] = <<>> THEN "plain" ELSE "served")
  /\ claimed' = [claimed EXCEPT ![r] = FALSE]
  /\ UNCHANGED <<seen, parts, spool>>

Prepare(r) ==
  /\ at[r] = "prepare"
  /\ \E c \in Calls : PrepareOwned(r, c) /\ MoveTo(r, IF Held(r, c) THEN "claimed" ELSE "plain")
  /\ UNCHANGED <<seen, parts, claimed, spool>>

\* The response begins and is eligible; or it is not, or no slot is left; or none begins.
StartSpool(r) ==
  /\ at[r] = "claimed"
  /\ \/ MoveTo(r, "own") /\ spool' = [spool EXCEPT ![r] = NewSpool]
     \/ \E place \in {"release", "plain"} : MoveTo(r, place) /\ UNCHANGED spool
  /\ UNCHANGED <<seen, parts, claimed, storeVars>>

-----------------------------------------------------------------------------
(* The handler's side of the spool *)

Wake(ops) == IF Len(ops) < QueueSize THEN Append(ops, "flush") ELSE ops

\* requestCleanup: a flag that the writer looks at after every job and tick.
RequestCleanup(s, how) ==
  IF s.cleanup = "no" /\ ~s.released THEN [s EXCEPT !.cleanup = how, !.ops = Wake(@)] ELSE s

\* teardown: disable deletes the entry, halt keeps it.
Teardown(s, how) ==
  IF s.off THEN s ELSE RequestCleanup([s EXCEPT !.off = TRUE, !.pending = <<>>], how)

\* Once the spool is off its handler's calls return at once.
Streams(r) == at[r] = "own" /\ spool[r].handler = "stream" /\ ~spool[r].off
Set(r, s) == spool' = [spool EXCEPT ![r] = s] /\ UNCHANGED attachVars

Observe(r) ==
  /\ Streams(r) /\ spool[r].made < Length
  /\ LET s == spool[r]
         t == [s EXCEPT !.made = @ + 1, !.pending = Append(@, <<r, s.made + 1>>)]
     IN \/ Set(r, t)
        \/ Set(r, [t EXCEPT !.ops = Wake(@)])    \* flushBytesThreshold
        \/ Set(r, Teardown(s, "delete"))         \* MaxPayloadBytes
  /\ UNCHANGED storeVars

\* CompleteAndPersist, up to the job of finalize.
EndWell(r) ==
  /\ Streams(r) /\ spool[r].made = Length
  /\ Set(r, [spool[r] EXCEPT !.tail = spool[r].pending, !.pending = <<>>, !.handler = "enqueue"])
  /\ UNCHANGED storeVars

\* Abort, after any terminal state but a clean one.
EndBadly(r) ==
  /\ Streams(r)
  /\ Set(r, Teardown([spool[r] EXCEPT !.handler = "left"], "delete"))
  /\ UNCHANGED storeVars

EnqueueFinal(r) ==
  /\ spool[r].handler = "enqueue" /\ Len(spool[r].ops) < QueueSize
  /\ Set(r, [spool[r] EXCEPT !.ops = Append(@, "final"), !.handler = "await"])
  /\ UNCHANGED storeVars

\* replayCompleteTimeout ends the context; what finalize still calls then fails.
CompleteTimeout(r) ==
  /\ spool[r].handler \in {"enqueue", "await"}
  /\ Set(r, [spool[r] EXCEPT !.handler = "left", !.expired = @ \/ spool[r].handler = "await"])
  /\ UNCHANGED storeVars

-----------------------------------------------------------------------------
(* The writer *)

AfterJob(s) ==
  [s EXCEPT !.writer = IF s.cleanup # "no" /\ ~s.released THEN "clean" ELSE "idle",
            !.reply = NoReply]
\* release; what the spool still holds is garbage.
Released(s) == [NoSpool EXCEPT !.off = TRUE, !.released = TRUE, !.cleanup = s.cleanup]

WriterIdle(r) == at[r] = "own" /\ spool[r].writer = "idle"
Next1(r, job) == WriterIdle(r) /\ spool[r].ops # <<>> /\ Head(spool[r].ops) = job
Taken(s) == [s EXCEPT !.ops = Tail(@)]
CallsOf(s) == IF s.expired THEN {[times |-> 0, heard |-> FALSE]} ELSE Calls

Reply(r, c) ==
  IF ~c.heard THEN [outcome |-> "unavailable", count |-> 0]
  ELSE IF owner # r THEN [outcome |-> "lost", count |-> 0]
  ELSE [outcome |-> "ok", count |-> Len(list')]

\* WriteOwned of a batch; the writer looks at the answer in a step of its own.
WriteBatch(r, s, batch, place) ==
  \E c \in (IF place = "tail" THEN CallsOf(s) ELSE Calls) :
    /\ WriteOwned(r, c, Meta("owning", r, s.count + Len(batch)), batch)
    /\ Set(r, [s EXCEPT !.writer = place, !.reply = Reply(r, c)])

Bootstrap(r) ==
  /\ Next1(r, "boot")
  /\ LET s == Taken(spool[r]) IN
       IF s.off \/ s.opened THEN Set(r, AfterJob(s)) /\ UNCHANGED storeVars
       ELSE WriteBatch(r, s, <<>>, "wrote")

\* maybeFlush, by a job or by the tick.
MaybeFlush(r) ==
  /\ WriterIdle(r)
  /\ \E s \in {spool[r]} \cup (IF Next1(r, "flush") THEN {Taken(spool[r])} ELSE {}) :
       IF s.pending = <<>> THEN Set(r, AfterJob(s)) /\ UNCHANGED storeVars
       ELSE \/ WriteBatch(r, [s EXCEPT !.pending = <<>>], s.pending, "wrote")
            \/ Set(r, AfterJob(Teardown(s, "delete"))) /\ UNCHANGED storeVars   \* backlog

\* The rest of flushBatch and bootstrap, and failOutcome.
Wrote(r) ==
  /\ spool[r].writer = "wrote"
  /\ LET s == spool[r] IN
       Set(r, AfterJob(
         IF s.off THEN s
         ELSE CASE s.reply.outcome = "ok"          -> [s EXCEPT !.count = s.reply.count, !.opened = TRUE]
                [] s.reply.outcome = "lost"        -> Teardown(s, "keep")
                [] s.reply.outcome = "unavailable" -> Teardown(s, "delete")))
  /\ UNCHANGED storeVars

Heartbeat(r) ==
  /\ WriterIdle(r) /\ ~spool[r].off
  /\ \E c \in Calls :
       /\ Look(c)
       /\ Set(r, IF Held(r, c) /\ meta.status # "none" THEN spool[r]
                 ELSE AfterJob(Teardown(spool[r], "keep")))

\* finalize: the tail of the response, ...
Finalize(r) ==
  /\ Next1(r, "final")
  /\ LET s == Taken(spool[r]) IN
       CASE s.off -> Set(r, Released(s)) /\ UNCHANGED storeVars
         [] ~s.off /\ s.tail = <<>> -> Set(r, [s EXCEPT !.writer = "read"]) /\ UNCHANGED storeVars
         [] ~s.off /\ s.tail # <<>> -> WriteBatch(r, s, s.tail, "tail")

FinalizeAnyway(r) ==   \* an error of the last write is not noticed
  /\ spool[r].writer = "tail"
  /\ Set(r, [spool[r] EXCEPT !.writer = "read", !.reply = NoReply])
  /\ UNCHANGED storeVars

TailWritten(r) ==
  /\ spool[r].writer = "tail"
  /\ LET s == spool[r] IN
       Set(r, IF s.off \/ s.reply.outcome # "ok" THEN Released(s)
              ELSE [s EXCEPT !.count = s.reply.count, !.writer = "read", !.reply = NoReply])
  /\ UNCHANGED storeVars

\* ... readAllOwned, a page at a time, ...
ReadPage(r) ==
  /\ spool[r].writer = "read" /\ Len(spool[r].payload) < spool[r].count
  /\ \E c \in CallsOf(spool[r]) :
       /\ Look(c)
       /\ Set(r, IF Held(r, c) /\ Len(spool[r].payload) < Len(list)
                 THEN [spool[r] EXCEPT !.payload = Append(@, list[Len(@) + 1])]
                 ELSE [spool[r] EXCEPT !.writer = "abort"])

PersistAnyway(r) ==   \* the error of the database is not noticed
  /\ spool[r].writer = "read" /\ Len(spool[r].payload) = spool[r].count
  /\ LET s == spool[r] IN
       \/ UNCHANGED durable /\ Set(r, [s EXCEPT !.writer = "complete"])
       \/ /\ ~s.expired /\ PersistCompleted(s.payload)
          /\ \/ Set(r, [s EXCEPT !.writer = IF Conflicts(s.payload) THEN "discard" ELSE "complete"])
             \/ ~Conflicts(s.payload) /\ Set(r, [s EXCEPT !.writer = "abort"])
  /\ UNCHANGED <<owner, meta, list, again, faults>>

\* ... the durable row, which may fail before or after it took effect, ...
Persist(r) ==
  /\ spool[r].writer = "read" /\ Len(spool[r].payload) = spool[r].count
  /\ LET s == spool[r] IN
       \/ UNCHANGED durable /\ Set(r, [s EXCEPT !.writer = "abort"])
       \/ /\ ~s.expired /\ PersistCompleted(s.payload)
          /\ \/ Set(r, [s EXCEPT !.writer = IF Conflicts(s.payload) THEN "discard" ELSE "complete"])
             \/ ~Conflicts(s.payload) /\ Set(r, [s EXCEPT !.writer = "abort"])
  /\ UNCHANGED <<owner, meta, list, again, faults>>

\* ... the completed meta document.
Complete(r) ==
  /\ spool[r].writer = "complete"
  /\ \E c \in CallsOf(spool[r]) :
       /\ CompleteOwned(r, c, Meta("completed", r, spool[r].count))
       /\ Set(r, IF HeldOnce(r, c) THEN Released(spool[r]) ELSE [spool[r] EXCEPT !.writer = "abort"])

Abandon(r) ==
  /\ spool[r].writer \in {"abort", "discard"}
  /\ \E c \in CallsOf(spool[r]) :
       IF spool[r].writer = "abort" THEN AbortOwned(r, c) ELSE DiscardOwned(r, c)
  /\ Set(r, Released(spool[r]))

\* maybeCleanup: abort, and where that fails or nothing may be deleted, only the lease.
MaybeCleanup(r) ==
  /\ spool[r].writer = "clean"
  /\ \/ /\ spool[r].cleanup = "delete"
        /\ \E c \in Calls : /\ AbortOwned(r, c)
                            /\ Set(r, IF HeldOnce(r, c) THEN Released(spool[r])
                                      ELSE [spool[r] EXCEPT !.cleanup = "keep"])
     \/ /\ spool[r].cleanup = "keep"
        /\ \E c \in Calls : ReleaseOwner(r, c)
        /\ Set(r, Released(spool[r]))

-----------------------------------------------------------------------------

\* A row lives for minutes, the calls around its completion for seconds.
Completing == \E r \in Requests : spool[r].writer = "complete"
Elapse ==
  /\ LeaseLapses \/ HotKeysExpire \/ (~Completing /\ (RowExpires \/ CleanupExpired))
  /\ UNCHANGED <<attachVars, spool>>

AttachStep(r) == GetMeta(r) \/ ServePage(r) \/ Claim(r) \/ FindCompleted(r) \/ Release(r)
                 \/ Prepare(r) \/ StartSpool(r)
HandlerStep(r) == Observe(r) \/ EndWell(r) \/ EndBadly(r) \/ EnqueueFinal(r)
                  \/ CompleteTimeout(r)
WriterJob(r) == Bootstrap(r) \/ MaybeFlush(r) \/ Wrote(r) \/ Finalize(r) \/ TailWritten(r)
                \/ ReadPage(r) \/ Persist(r) \/ Complete(r) \/ Abandon(r) \/ MaybeCleanup(r)

ReplayNext ==
  \/ \E r \in Requests : AttachStep(r) \/ HandlerStep(r) \/ WriterJob(r) \/ Heartbeat(r)
  \/ Elapse

ReplaySpec == ReplayInit /\ [][ReplayNext]_replayVars

\* The writer goes on with its jobs and its heartbeat notices that the lease is lost; the
\* response ends, and its handler has a deadline.
ReplayFairness == \A r \in Requests :
  /\ WF_replayVars(WriterJob(r)) /\ WF_replayVars(HandlerStep(r))
  /\ WF_replayVars(Heartbeat(r) /\ owner # r)
ReplayFairSpec == ReplaySpec /\ ReplayFairness

-----------------------------------------------------------------------------
(* Properties *)

WholeOf(r) == [i \in 1..Length |-> <<r, i>>]

\* A batch that is sent again is appended again, and nobody compares the list with what was
\* made: from each chunk the response goes on with the next one, or back to an earlier.
Stammers(p, r) == \A i \in 1..Len(p) :
  \E n \in 1..(IF i = 1 THEN 1 ELSE p[i - 1][2] + 1) : p[i] = <<r, n>>
Upto(p) == IF p = <<>> THEN 0 ELSE p[Len(p)][2]

\* All that r made, in order; chunks stand twice only if a batch was appended twice.
Tells(p, r) == Stammers(p, r) /\ Upto(p) = Length /\ (r \in again \/ p = WholeOf(r))

\* Whoever is answered from the store gets the complete response of one request, and
\* nothing else is kept in PostgreSQL, although leases lapse in the middle of a write,
\* owners die, replies are lost, calls are executed again and a reader pages through a
\* list that changes hands.
ReplaysAreWhole ==
  /\ \A r \in Requests : at[r] = "served" => \E o \in Requests : Tells(parts[r], o)
  /\ durable.state # "none" => \E o \in Requests : Tells(durable.payload, o)

\* The completed state appears only when PostgreSQL holds a row ("PG 不 durable 绝不置
\* completed") and over a list that tells the response it names and has the length it says;
\* a row that is served then holds that very list.  A row that has expired is overwritten
\* by whoever persists, so that of two requests that do the row may hold the other one's
\* response: it serves nobody.
CompletedIsDurable ==
  [][meta'.status = "completed" /\ meta' # meta =>
       /\ durable.state # "none"
       /\ Tells(list', meta'.gen) /\ meta'.count = Len(list')
       /\ durable.state = "live" => durable.payload = list']_replayVars

(* What comments say, and the code does not do: see README. *)

\* integration_test.go: the persisted text is byte for byte what was written.
ByteForByte == durable.state # "none" => \E o \in Requests : durable.payload = WholeOf(o)

\* spool.go: no slot of the concurrent spools is lost.
SpoolsEnd == \A r \in Requests : at[r] = "own" ~> spool[r].released

\* store.go: the payload is durable, so that the row serves it later.
WrittenIsLive ==
  [][durable' # durable /\ durable'.payload \notin {<<>>, durable.payload} =>
       durable'.state = "live"]_replayVars
================================================================================
