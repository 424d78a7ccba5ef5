---------------------------- MODULE CircuitBreaker ----------------------------
(* The circuit state of one provider, or of one endpoint, in Redis: the
   optimistic read-modify-write of internal/health/writer.go (WATCH, HGETALL,
   the change, MULTI/EXEC) as several requests and instances record outcomes
   on the same hash, with the backoff ladder of health/ladder.go, and the
   reading side of internal/route/health.go that turns the hash into "refuse"
   or "admit". One behaviour is about one hash, whose tier is chosen at the
   start. The clock is the one all instances agree on. *)
EXTENDS Integers, FiniteSets, FiniteSetsExt

CONSTANTS
    Writers,             \* the concurrent recorders of outcomes
    Tiers,               \* subset of {"provider", "endpoint"}
    FailureThreshold,    \* FailureThreshold of both tiers
    SuccessThreshold,    \* HalfOpenSuccessThreshold of a provider (an endpoint's is 1)
    Base,                \* OpenDurationMS, in ticks
    Increment,           \* OpenDurationIncrementMS, in ticks
    MaxOpenCount,        \* the highest level of the ladder
    MaxRetries,          \* maxStateRetries
    MaxTime,             \* bound: the clock stops here
    MaxRecords           \* bound: outcomes recorded in one behaviour

ASSUME CircuitAssumption ==
    /\ IsFiniteSet(Writers) /\ Tiers \subseteq {"provider", "endpoint"}
    /\ FailureThreshold \in Nat \ {0} /\ SuccessThreshold \in Nat \ {0}
    /\ Base \in Nat \ {0} /\ Increment \in Nat /\ MaxOpenCount \in Nat

VARIABLES
    tier,       \* "provider" or "endpoint": whose key this is
    hash,       \* the state in Redis
    now,        \* the wall clock
    enabled,    \* is the provider's FailureThreshold positive (its config hash)
    job,        \* what each writer is doing
    records,    \* outcomes begun so far
    tally,      \* history: failures committed since the count was last zero
    streak,     \* history: successes recorded after the window, since a failure
    windows,    \* history: windows opened since the circuit was last closed
    owed        \* history: openings whose writer knows of them, less the alerts sent

circuitVars == <<tier, hash, now, enabled, job, records, tally, streak, windows,
          owed>>
history == <<tally, streak, windows, owed>>

Closed == [state |-> "closed", count |-> 0, until |-> 0, passed |-> 0, level |-> 0]
Keep(h) == [next |-> h, write |-> FALSE, opened |-> FALSE]
Store(h) == [next |-> h, write |-> TRUE, opened |-> FALSE]
Idle == [phase |-> "idle", op |-> "none", at |-> 0, on |-> TRUE, attempt |-> 0,
         dirty |-> FALSE, change |-> Keep(Closed)]

-----------------------------------------------------------------------------
(* The pure part of each change. *)

Expired(h, at) == h.state = "open" /\ h.until > 0 /\ at > h.until

(* EffectiveProviderState = open, and EndpointOpen: what the router refuses. *)
RefusedAt(h, at) == h.state = "open" /\ ~Expired(h, at)

HalfOpen(h) == [h EXCEPT !.state = "half-open", !.passed = 0]

NextLevel(level) == Min({Max({level, 0}) + 1, MaxOpenCount})
Window(level) == IF Increment <= 0 THEN Base
                 ELSE Base + Increment * Min({level, MaxOpenCount})

Opened(h, at, level) ==
    [next |-> [h EXCEPT !.state = "open", !.until = at + Window(level),
                        !.passed = 0, !.level = level],
     write |-> TRUE, opened |-> TRUE]

ForceClosed(h) == IF h = Closed THEN Keep(h) ELSE Store(Closed)

ProviderFailureStorm(h0, at) ==   \* mutant: a failure inside the window opens it anew
    LET h == [h0 EXCEPT !.count = @ + 1]
    IN IF h.count >= FailureThreshold THEN Opened(h, at, h.level) ELSE Store(h)

ProviderFailure(h0, at) ==
    LET h == [h0 EXCEPT !.count = @ + 1]
        trialFailed == Expired(h, at) \/ h.state = "half-open"
        level == IF trialFailed THEN NextLevel(h.level) ELSE 0
    IN CASE RefusedAt(h, at) -> Store(h)
         [] ~RefusedAt(h, at) /\ h.count >= FailureThreshold -> Opened(h, at, level)
         [] OTHER -> Store(IF Expired(h, at) THEN HalfOpen(h) ELSE h)

ProviderSuccess(h0, at) ==
    LET h == IF Expired(h0, at) THEN HalfOpen(h0) ELSE h0
    IN CASE h.state = "half-open" ->
              IF h.passed + 1 >= SuccessThreshold
              THEN Store(Closed)
              ELSE Store([h EXCEPT !.passed = @ + 1])
         [] h.state = "closed" /\ (h.count > 0 \/ h.level > 0) ->
              Store([h EXCEPT !.count = 0, !.level = 0])
         [] OTHER -> Keep(h)

(* An endpoint opens only from a state that is not open, and has no ladder. *)
EndpointFailure(h0, at) ==
    LET h == [h0 EXCEPT !.count = @ + 1]
    IN IF h.count >= FailureThreshold /\ h.state # "open"
       THEN [next |-> [h EXCEPT !.state = "open", !.until = at + Base, !.passed = 0],
             write |-> TRUE, opened |-> TRUE]
       ELSE Store(h)

(* No write of this code makes an endpoint half-open: that first branch serves
   hashes an older instance left behind. *)
EndpointSuccess(h) ==
    CASE h.state = "half-open" -> Store(Closed)
      [] h.state # "half-open" /\ h.count > 0 ->
           Store([h EXCEPT !.count = 0, !.until = 0])
      [] OTHER -> Keep(h)

(* What the writer's operation makes of the hash. A provider's writer read the
   configuration and the clock once, before the transaction; an endpoint's
   reads the clock inside it. *)
Change(w) ==
    LET at == IF tier = "provider" THEN job[w].at ELSE now
    IN CASE tier = "provider" /\ ~job[w].on -> ForceClosed(hash)
         [] tier = "provider" /\ job[w].on /\ job[w].op = "failure" -> ProviderFailure(hash, at)
         [] tier = "provider" /\ job[w].on /\ job[w].op = "success" -> ProviderSuccess(hash, at)
         [] tier = "endpoint" /\ job[w].op = "failure" -> EndpointFailure(hash, at)
         [] tier = "endpoint" /\ job[w].op = "success" -> EndpointSuccess(hash)

-----------------------------------------------------------------------------
(* The transaction. *)

(* Redis marks every connection that watches the key when the key is written. *)
Touch(j, w) == [v \in Writers |->
    IF v # w /\ j[v].phase = "read" THEN [j[v] EXCEPT !.dirty = TRUE] ELSE j[v]]

(* An outcome is recorded: configuration and clock are read first. *)
Begin(w, op) ==
    /\ job[w].phase = "idle" /\ records < MaxRecords
    /\ job' = [job EXCEPT ![w] = [Idle EXCEPT !.phase = "watch", !.op = op, !.at = now,
                                              !.on = enabled, !.attempt = 1]]
    /\ records' = records + 1
    /\ UNCHANGED <<tier, hash, now, enabled, history>>

(* A success that ends after the window counts towards recovery, written or not. *)
Judge(w, at) ==
    streak' = CASE job[w].op = "failure" -> 0
                [] job[w].op = "success" /\ hash.state # "closed" /\ at > hash.until ->
                     streak + 1
                [] OTHER -> streak

(* WATCH and HGETALL, and the change computed; a change that writes nothing
   ends the operation here. *)
Read(w) ==
    /\ job[w].phase = "watch"
    /\ LET c == Change(w)
       IN IF c.write
          THEN /\ job' = [job EXCEPT ![w].phase = "read", ![w].dirty = FALSE, ![w].change = c]
               /\ UNCHANGED streak
          ELSE /\ job' = [job EXCEPT ![w] = Idle]
               /\ Judge(w, job[w].at)
    /\ UNCHANGED <<tier, hash, now, enabled, records, tally, windows, owed>>

OneIf(b) == IF b THEN 1 ELSE 0

(* The write of EXEC, with what it adds to the history. *)
Write(w) ==
    LET c == job[w].change
        h == c.next
    IN /\ hash' = h
       /\ tally' = CASE job[w].op = "failure" /\ h.count > 0 -> tally + 1
                     [] h.count = 0 -> 0
                     [] OTHER -> tally
       /\ Judge(w, job[w].at)
       /\ windows' = CASE c.opened -> windows + 1
                       [] ~c.opened /\ h.state = "closed" -> 0
                       [] OTHER -> windows

CommitBlind(w) ==   \* mutant: HSET without WATCH, the last writer wins
    /\ job[w].phase = "read"
    /\ Write(w)
    /\ job' = [Touch(job, w) EXCEPT ![w] =
                 IF job[w].change.opened THEN [@ EXCEPT !.phase = "alert"] ELSE Idle]
    /\ owed' = owed + OneIf(job[w].change.opened)
    /\ UNCHANGED <<tier, now, enabled, records>>

(* EXEC succeeds: nobody has written the key since it was read. *)
Commit(w) ==
    /\ job[w].phase = "read" /\ ~job[w].dirty
    /\ Write(w)
    /\ job' = [Touch(job, w) EXCEPT ![w] =
                 IF job[w].change.opened THEN [@ EXCEPT !.phase = "alert"] ELSE Idle]
    /\ owed' = owed + OneIf(job[w].change.opened)
    /\ UNCHANGED <<tier, now, enabled, records>>

(* EXEC is applied and its reply is lost: an error for the caller, no alert. *)
LoseReply(w) ==
    /\ job[w].phase = "read" /\ ~job[w].dirty
    /\ Write(w)
    /\ job' = [Touch(job, w) EXCEPT ![w] = Idle]
    /\ UNCHANGED <<tier, now, enabled, records, owed>>

(* EXEC answers nil: start over on the new state, and give up at the limit. *)
Conflict(w) ==
    /\ job[w].phase = "read" /\ job[w].dirty
    /\ job' = [job EXCEPT ![w] =
                 IF job[w].attempt < MaxRetries
                 THEN [job[w] EXCEPT !.phase = "watch", !.attempt = @ + 1] ELSE Idle]
    /\ UNCHANGED <<tier, hash, now, enabled, records, history>>

(* A command fails for good before anything was applied. *)
Fault(w) ==
    /\ job[w].phase \in {"watch", "read"}
    /\ job' = [job EXCEPT ![w] = Idle]
    /\ UNCHANGED <<tier, hash, now, enabled, records, history>>

(* The opening is reported after its commit. *)
Alert(w) ==
    /\ job[w].phase = "alert"
    /\ owed' = owed - 1
    /\ job' = [job EXCEPT ![w] = Idle]
    /\ UNCHANGED <<tier, hash, now, enabled, records, tally, streak, windows>>

(* The administrator's reset writes the closed state over a provider's, and
   the reset of an endpoint, by hand or after a good probe, deletes the key:
   blind writes both. *)
Reset ==
    /\ hash # Closed
    /\ hash' = Closed
    /\ job' = [v \in Writers |->
                 IF job[v].phase = "read" THEN [job[v] EXCEPT !.dirty = TRUE] ELSE job[v]]
    /\ tally' = 0 /\ streak' = 0 /\ windows' = 0
    /\ UNCHANGED <<tier, now, enabled, records, owed>>

(* The administrator turns the breaker of the provider off or on. *)
Configure ==
    /\ tier = "provider"
    /\ enabled' = ~enabled
    /\ UNCHANGED <<tier, hash, now, job, records, history>>

Tick ==
    /\ now < MaxTime
    /\ now' = now + 1
    /\ UNCHANGED <<tier, hash, enabled, job, records, history>>

CircuitInit ==
    /\ tier \in Tiers
    /\ hash = Closed
    /\ now = 0
    /\ enabled = TRUE
    /\ job = [w \in Writers |-> Idle]
    /\ records = 0
    /\ tally = 0 /\ streak = 0 /\ windows = 0
    /\ owed = 0

CircuitNext ==
    \/ \E w \in Writers, op \in {"failure", "success"} : Begin(w, op)
    \/ \E w \in Writers : Read(w) \/ Commit(w) \/ LoseReply(w) \/ Conflict(w)
                            \/ Fault(w) \/ Alert(w)
    \/ Reset \/ Configure \/ Tick

CircuitSpec == CircuitInit /\ [][CircuitNext]_circuitVars

-----------------------------------------------------------------------------
(* Properties. *)

(* Every failure whose write was committed is in the failure count until a
   success, a reset or a closing clears it, however many writers raced for it:
   the reason for the WATCH in changeState. *)
FailuresCounted == hash.count = tally

(* Each opening is reported exactly once, after it was committed, no matter how
   often the transaction ran; only the openings whose EXEC reply was lost go
   unreported. *)
AlertOncePerOpening ==
    owed = Cardinality({w \in Writers : job[w].phase = "alert"})

(* The level of the ladder is the number of windows that opened one after the
   other without a recovery, less the first, up to MaxOpenCount: one failed
   trial is one level, whoever else failed in the same window. *)
LadderCountsTrials ==
    tier = "provider" /\ hash.state = "open" => hash.level = Min({windows - 1, MaxOpenCount})

(* SuccessThreshold successes recorded after the window ended, with no failure
   between them, close the circuit of a provider: it cannot stay open for ever
   while its trials succeed. *)
TrialsCloseTheCircuit ==
    tier = "provider" /\ streak >= SuccessThreshold => hash.state = "closed"

(* The shared hash says what has happened, whoever wrote it and in what order. *)
HashTellsHistory ==
    FailuresCounted /\ AlertOncePerOpening /\ LadderCountsTrials /\ TrialsCloseTheCircuit

(* While a provider is refused, no recorded outcome moves the end of the window
   or opens the circuit early: only a reset, or a writer that read the breaker
   as turned off, lets it go, and that closes it. *)
WindowKept ==
    [][tier = "provider" /\ RefusedAt(hash, now) /\ hash' # hash =>
         \/ hash'.state = "open" /\ hash'.until = hash.until /\ hash'.level = hash.level
         \/ hash' = Closed /\ (Reset \/ \E w \in Writers : ~job[w].on)]_circuitVars

(* A success recorded on an endpoint that is admitted does not get it refused:
   outside half-open it only clears the count of a closed endpoint, as the
   comment of ResetEndpointCircuit describes RecordEndpointSuccess. *)
SuccessNeverShuts ==
    [][(\E w \in Writers : job[w].op = "success" /\ Commit(w)) /\ RefusedAt(hash', now)
         => RefusedAt(hash, now)]_circuitVars
=============================================================================
