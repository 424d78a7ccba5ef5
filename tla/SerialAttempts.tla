--------------------------- MODULE SerialAttempts ---------------------------
(* The serial path of a request (forwardLoop of internal/forward/attempt.go with the
   executors of attempt.go and stream.go): one provider after the other, each tried a few
   times, until one answers, until the failure is one that nobody else would cure, or until
   nobody is left.  Each attempt takes a place of its provider before it dials and gives it
   back when the body is closed (ProviderSlots).

   A failure is its class, one for each way forwardLoop treats it:
     provider     retried, then blamed and switched from (4xx, 5xx, empty, timeout)
     system       retried, then switched from (network, 404, request-scoped)
     unsupported  switched from at once (unsupported input, too slow)
     saturated    switched from at once: the provider has no place, nothing was sent
     input, abort end the call (so does a local overload) *)
EXTENDS ProviderSlots

CONSTANTS
  RawCallers,   \* raw passthrough without fallback: no retry and no switch
  MaxTries,     \* ResolveMaxAttempts by provider
  MaxSwitches,  \* limits.MaxProviderSwitches
  Rectifiers,   \* the reactive rectifiers, each once in a provider's round
  RedisFaults,  \* bound on the calls for a place, or to give it back, that go wrong
  NoVendor

ASSUME SerialAssumption ==
  /\ RawCallers \subseteq Callers /\ MaxTries \in [Vendors -> 1 .. 10]
  /\ MaxSwitches \in Nat \ {0} /\ RedisFaults \in Nat /\ NoVendor \notin Vendors
  /\ IsFiniteSet(Vendors) /\ IsFiniteSet(Rectifiers)

VARIABLES
  call,      \* the requests, by the local variables of forwardLoop
  hold,      \* the place the caller's Release gives back
  slips,
  tries,     \* history: the attempts at each provider, as far as they count, and whether
             \* the last one failed by its own fault
  blamed,    \* history: whom RecordFailure was called for
  stray      \* history: places that nobody will give back

historyVars == <<tries, blamed, stray>>
besides == <<slotVars, hold, slips, historyVars>>   \* all but call
serialVars == <<call, besides>>

NoHold == [vendor |-> NoVendor, member |-> <<>>, since |-> 0, sure |-> FALSE]

SerialInit ==
  /\ SlotInit
  /\ call = [c \in Callers |->
       [at |-> "idle", vendor |-> NoVendor, try |-> 0, most |-> 0, fixed |-> {},
        banned |-> {}, tried |-> {}, last |-> "none", gone |-> FALSE,
        told |-> "none", row |-> "none"]]
  /\ hold = [c \in Callers |-> NoHold]
  /\ slips = 0
  /\ tries = [c \in Callers |-> [v \in Vendors |-> [n |-> 0, fault |-> FALSE]]]
  /\ blamed = [c \in Callers |-> {}] /\ stray = {}

Is(c, place) == call[c].at = place
Target(c) == call[c].vendor

---------------------------------------------------------------------------
(* How a call ends: the deferred settlement writes the last failure if an attempt was made;
   without one the handler settles what it answers. *)

EndCall(c, told, last) ==
  call' = [call EXCEPT ![c].at = "done", ![c].told = told, ![c].last = last,
                       ![c].row = IF call[c].tried = {} THEN told ELSE last]

\* The failure the loop gives up with when nobody is left.
Exhausted(c) ==
  EndCall(c, IF call[c].last = "none" THEN "stateful" ELSE "exhausted", call[c].last)

\* The round of one provider begins.
EnterRound(c, v) ==
  call' = [call EXCEPT ![c].at = "plan", ![c].vendor = v, ![c].try = 1, ![c].fixed = {},
                       ![c].most = IF c \in RawCallers THEN 1 ELSE MaxTries[v]]

\* The guard chain has chosen the first candidate.
Arrive(c) ==
  /\ Is(c, "idle")
  /\ \E v \in Vendors : EnterRound(c, v)
  /\ UNCHANGED besides

\* The provider's protocol cannot carry a stateful field: it is passed over. A retry sends
\* the same body or one with less in it, so only the first plan of a round can find this.
SkipCandidate(c) ==
  /\ Is(c, "plan") /\ call[c].try = 1
  /\ call' = [call EXCEPT ![c].at = "choose", ![c].banned = @ \union {Target(c)}]
  /\ UNCHANGED besides

PlanFails(c) ==
  /\ Is(c, "plan")
  /\ EndCall(c, "plan", call[c].last)
  /\ UNCHANGED besides

---------------------------------------------------------------------------
(* One attempt. *)

AtMostTries(v, n) == IF n > MaxTries[v] THEN MaxTries[v] ELSE n   \* bounds the history

CountsEachTry(c) == call[c].tried \union {<<Target(c), call[c].try>>}  \* a retry is a switch

\* The plan is built: a provider counts as tried once, however often it is, and also when it
\* has no place and nothing is sent.
Counts(c) == call[c].tried \union {Target(c)}

\* An attempt failed: it is in the chain, and the loop has yet to judge it.
FailsWith(c, class) ==
  /\ call' = [call EXCEPT ![c].at = "judge", ![c].last = class, ![c].tried = Counts(c)]
  /\ tries' = [tries EXCEPT ![c][Target(c)] = [n |-> AtMostTries(Target(c), @.n + 1),
                                          fault |-> class = "provider"]]
  /\ UNCHANGED blamed

Sends(c) ==
  /\ call' = [call EXCEPT ![c].at = "sent", ![c].tried = Counts(c)]
  /\ UNCHANGED <<tries, blamed>>

\* No limit and no tracking: Redis is not asked.
GoUnwatched(c) ==
  /\ Is(c, "plan") /\ ~Watched(Target(c))
  /\ Sends(c)
  /\ UNCHANGED <<slotVars, hold, slips, stray>>

StrayAfterSweep(v) == {s \in stray : s[1] = v => s[2] \notin Lapsed(v)}

HoldOn(c, m, sure) ==
  hold' = [hold EXCEPT ![c] = [vendor |-> Target(c), member |-> m, since |-> slotTime,
                               sure |-> sure]]

Acquire(c) ==
  LET v == Target(c)   m == NewMember(v, c) IN
  /\ Is(c, "plan") /\ Watched(v)
  /\ CheckAndTrack(v, m)
  /\ IF Full(v) THEN FailsWith(c, "saturated") /\ UNCHANGED hold
                ELSE Sends(c) /\ HoldOn(c, m, TRUE)
  /\ stray' = StrayAfterSweep(v)
  /\ UNCHANGED <<slotTime, slips>>

RedisFails == slips < RedisFaults /\ slips' = slips + 1

\* The call fails, as it does when the client leaves. The attempt goes on (Fail Open), and
\* gives back what it may have taken: the script may have run.
AcquireFails(c) ==
  LET v == Target(c)   m == NewMember(v, c) IN
  /\ Is(c, "plan") /\ Watched(v)
  /\ \/ call[c].gone /\ UNCHANGED slips
     \/ RedisFails
  /\ \/ UNCHANGED <<places, refs, stray>>
     \/ CheckAndTrack(v, m) /\ stray' = StrayAfterSweep(v)
  /\ Sends(c) /\ HoldOn(c, m, FALSE)
  /\ UNCHANGED slotTime

\* The reply is lost and the client of Redis asks again, with the same member: that is by
\* now the one too many. The attempt is refused, and nobody gives its place back.
RefusedByItself(c) ==
  LET v == Target(c)   m == NewMember(v, c) IN
  /\ Is(c, "plan") /\ Cardinality(DOMAIN Swept(v)) + 1 = SlotLimit[v]
  /\ RedisFails
  /\ CheckAndTrack(v, m)
  /\ stray' = StrayAfterSweep(v) \union {<<v, m>>}
  /\ FailsWith(c, "saturated")
  /\ UNCHANGED <<slotTime, hold>>

\* Close of the body, or a dial that failed: the place is given back, if there is one. The
\* call to Redis may fail; nobody repeats it.
GivesBack(c) ==
  LET h == hold[c] IN
  /\ hold' = [hold EXCEPT ![c] = NoHold]
  /\ \/ h = NoHold /\ UNCHANGED <<places, refs, slips, stray>>
     \/ h # NoHold /\ ReleasePlace(h.vendor, h.member) /\ UNCHANGED <<slips, stray>>
     \/ /\ h # NoHold /\ RedisFails /\ UNCHANGED <<places, refs>>
        /\ stray' = IF h.member \in DOMAIN places[h.vendor]
                    THEN stray \union {<<h.vendor, h.member>>} ELSE stray
  /\ UNCHANGED slotTime

LeakOnDial(c) ==   \* the place is left to the TTL
  /\ Is(c, "sent")
  /\ \/ call[c].gone /\ FailsWith(c, "abort")
     \/ \E class \in {"provider", "system"} : FailsWith(c, class)
  /\ hold' = [hold EXCEPT ![c] = NoHold]
  /\ UNCHANGED <<slotVars, slips, stray>>

\* The dial fails; there is no body whose Close could give the place back.
DialFails(c) ==
  /\ Is(c, "sent")
  /\ \/ call[c].gone /\ FailsWith(c, "abort")
     \/ \E class \in {"provider", "system"} : FailsWith(c, class)
  /\ GivesBack(c)

\* The answer is an error, is taken for one, or breaks off. A client that leaves now is an
\* abort to the gate and a broken read to who reads a whole body.
AnswerFails(c) ==
  /\ Is(c, "sent")
  /\ \/ call[c].gone /\ FailsWith(c, "abort")
     \/ \E class \in {"provider", "system", "unsupported", "input"} : FailsWith(c, class)
  /\ GivesBack(c)

\* A whole body: success is recorded, the place given back, and no earlier failure is settled.
Answered(c) ==
  /\ Is(c, "sent")
  /\ call' = [call EXCEPT ![c].at = "done", ![c].told = "served", ![c].last = "none",
                          ![c].row = "served"]
  /\ GivesBack(c)
  /\ UNCHANGED <<tries, blamed>>

\* A stream: the body, and the place with it, belong to the pump (ResponsePump), which
\* closes the one and settles the row.
Committed(c) ==
  /\ Is(c, "sent")
  /\ call' = [call EXCEPT ![c].at = "stream", ![c].told = "served", ![c].last = "none"]
  /\ UNCHANGED besides

StreamEnds(c) ==
  /\ Is(c, "stream")
  /\ call' = [call EXCEPT ![c].at = "done", ![c].row = "stream"]
  /\ GivesBack(c)
  /\ UNCHANGED <<tries, blamed>>

---------------------------------------------------------------------------
(* What a failure leads to. *)

RetriesSameProvider(class) == class \in {"provider", "system"}
SwitchesProvider(class) == RetriesSameProvider(class) \/ class \in {"unsupported", "saturated"}
Matchable(class) == class \notin {"saturated", "abort"}   \* has, or may have, an upstream's text

AtLeastOnceMore(c) ==
  IF call[c].try >= call[c].most THEN call[c].try + 1 ELSE call[c].most

RectifyForEver(c) ==   \* neither marked nor counted
  /\ Is(c, "judge") /\ c \notin RawCallers /\ Matchable(call[c].last) /\ Rectifiers # {}
  /\ call' = [call EXCEPT ![c].at = "plan"]
  /\ UNCHANGED besides

\* The text matches a rectifier that can mend the body: the same provider at once again, and
\* at least once more.
Rectify(c) ==
  /\ Is(c, "judge") /\ c \notin RawCallers /\ Matchable(call[c].last)
  /\ \E r \in Rectifiers \ call[c].fixed :
       call' = [call EXCEPT ![c].at = "plan", ![c].try = @ + 1, ![c].fixed = @ \union {r},
                            ![c].most = AtLeastOnceMore(c)]
  /\ UNCHANGED besides

\* It matches one that was used, or that cannot mend it: the client's fault from here on.
CannotRectify(c) ==
  /\ Is(c, "judge") /\ c \notin RawCallers /\ Matchable(call[c].last) /\ Rectifiers # {}
  /\ EndCall(c, "input", "input")
  /\ UNCHANGED besides

GiveUpCall(c) ==
  /\ Is(c, "judge")
  /\ c \in RawCallers \/ ~SwitchesProvider(call[c].last)
  /\ EndCall(c, call[c].last, call[c].last)
  /\ UNCHANGED besides

\* The wait before the same provider is tried again.
Pause(c) ==
  /\ Is(c, "judge") /\ c \notin RawCallers
  /\ RetriesSameProvider(call[c].last) /\ call[c].try < call[c].most
  /\ call' = [call EXCEPT ![c].at = "pause"]
  /\ UNCHANGED besides

PauseIsOver(c) ==
  /\ Is(c, "pause")
  /\ call' = [call EXCEPT ![c].at = "plan", ![c].try = @ + 1]
  /\ UNCHANGED besides

\* The client left meanwhile: the caller hears of that, the row of the provider's failure.
PauseIsCancelled(c) ==
  /\ Is(c, "pause") /\ call[c].gone
  /\ EndCall(c, "abort", call[c].last)
  /\ UNCHANGED besides

\* The round is over. RecordFailure is called for the provider's own failures.
SwitchAway(c) ==
  /\ Is(c, "judge") /\ c \notin RawCallers /\ SwitchesProvider(call[c].last)
  /\ RetriesSameProvider(call[c].last) => call[c].try >= call[c].most
  /\ blamed' = IF call[c].last = "provider"
               THEN [blamed EXCEPT ![c] = @ \union {Target(c)}] ELSE blamed
  /\ call' = [call EXCEPT ![c].at = "choose", ![c].banned = @ \union {Target(c)}]
  /\ UNCHANGED <<slotVars, hold, slips, tries, stray>>

\* Select: a provider that is not excluded; the repeat that forwardLoop guards against with
\* `seen` would be one that Select was told to exclude.
Select(c) ==
  /\ Is(c, "choose")
  /\ \/ \E v \in Vendors \ call[c].banned :
          IF Cardinality(call[c].tried) < MaxSwitches THEN EnterRound(c, v) ELSE Exhausted(c)
     \/ Vendors \subseteq call[c].banned /\ Exhausted(c)
     \/ EndCall(c, "select", call[c].last)
  /\ UNCHANGED besides

---------------------------------------------------------------------------
ClientLeaves(c) ==
  /\ ~call[c].gone /\ call[c].at \notin {"idle", "done"}
  /\ call' = [call EXCEPT ![c].gone = TRUE]
  /\ UNCHANGED besides

SessionIsEnded(v, c) ==
  \E listed \in SUBSET {m \in DOMAIN places[v] : m[1] = c} :
    /\ ClearProviderIndex(v, listed)
    /\ hold' = [hold EXCEPT ![c].sure = @ /\ hold[c].member \notin listed]
    /\ stray' = {s \in stray : s[1] = v => s[2] \notin listed}
    /\ UNCHANGED <<call, slips, tries, blamed>>

TimePasses == SlotTick /\ UNCHANGED <<call, hold, slips, historyVars>>

CallGoesOn(c) ==
  \/ SkipCandidate(c) \/ PlanFails(c)
  \/ GoUnwatched(c) \/ Acquire(c) \/ AcquireFails(c) \/ RefusedByItself(c)
  \/ DialFails(c) \/ AnswerFails(c) \/ Answered(c) \/ Committed(c)
  \/ Rectify(c) \/ CannotRectify(c) \/ GiveUpCall(c) \/ Pause(c) \/ PauseIsOver(c)
  \/ PauseIsCancelled(c) \/ SwitchAway(c) \/ Select(c)

CallStep(c) == Arrive(c) \/ CallGoesOn(c) \/ StreamEnds(c) \/ ClientLeaves(c)

SerialNext ==
  \/ \E c \in Callers : CallStep(c)
  \/ \E c \in Callers, v \in Vendors : SessionIsEnded(v, c)
  \/ TimePasses

SerialSpec == SerialInit /\ [][SerialNext]_serialVars

---------------------------------------------------------------------------
(* Whom the caller's Release would give a place back for. *)
Holds(c, v) == hold[c].vendor = v
Outlived(c) == hold[c].since <= slotTime - SlotTTL
Counted(v) == {c \in Callers : Holds(c, v) /\ hold[c].sure /\ ~Outlived(c)}

\* Each place of a provider belongs to an attempt that will give it back, but for those a
\* failed call to Redis left behind; and an attempt that is younger than the TTL, and whose
\* session was not ended, is counted, so that not more of them run than the limit allows.
PlacesAreHeld ==
  \A v \in Vendors :
    /\ refs[v] = DOMAIN places[v]
    /\ \A m \in DOMAIN places[v] :
         <<v, m>> \in stray \/ \E c \in Callers : Holds(c, v) /\ hold[c].member = m
    /\ \A c \in Counted(v) : hold[c].member \in DOMAIN places[v]
    /\ SlotLimit[v] > 0 => Cardinality(Counted(v)) <= SlotLimit[v]

\* RecordFailure is called for exactly those providers of a call that used up their tries
\* and failed by their own fault in the end: not for the network, an input, a full house, or
\* a client that left.
BlameFollowsTheChain ==
  \A c \in Callers, v \in Vendors :
    /\ v \in blamed[c] <=> v \in call[c].banned /\ tries[c][v].fault
    /\ v \in blamed[c] => tries[c][v].n >= MaxTries[v]

\* "All providers failed" is said when each was tried or passed over, or as many different
\* ones were tried as may be; retries and those passed over do not use up the switches.
ExhaustedMeansTried ==
  \A c \in Callers : call[c].told = "exhausted" =>
    \/ \A v \in Vendors : tries[c][v].n > 0 \/ v \in call[c].banned
    \/ Cardinality({v \in Vendors : tries[c][v].n > 0}) = MaxSwitches

\* The row of a call that has ended says that it was served if and only if it was; and only
\* who was never tried anywhere is told that no provider can carry his request.
RowFollowsTheCall ==
  \A c \in Callers : Is(c, "done") =>
    /\ call[c].row \in {"served", "stream"} <=> call[c].told = "served"
    /\ call[c].told = "stateful" =>
         /\ call[c].banned = Vendors
         /\ \A v \in Vendors : tries[c][v].n = 0
    /\ call[c].told \in {"exhausted", "input", "abort", "saturated"} =>
         \E v \in Vendors : tries[c][v].n > 0

CallsTellTheTruth == BlameFollowsTheChain /\ ExhaustedMeansTried /\ RowFollowsTheCall

\* The answer 429, for "all candidates are full" (dataplane/response.go:185), is not given
\* when a provider failed by its own fault. The code looks at the last attempt only.
SaturatedMeansAllFull ==
  \A c \in Callers : call[c].told = "exhausted" /\ call[c].last = "saturated" =>
    blamed[c] = {}

\* What a call has left, the larger first: providers, rectifiers, tries, and the way to the
\* end of this try.
Left(c) ==
  LET open == Cardinality(Vendors \ call[c].banned) IN
  <<IF Is(c, "choose") THEN 2 * open + 1 ELSE 2 * open,
    Cardinality(Rectifiers \ call[c].fixed), call[c].most - call[c].try,
    CASE Is(c, "plan") -> 3 [] Is(c, "sent") -> 2 [] Is(c, "judge") -> 1 [] OTHER -> 0>>

Less(p, q) ==
  \E i \in DOMAIN q : p[i] < q[i] /\ \A k \in 1 .. i - 1 : p[k] = q[k]

Underway(c) == call[c].at # "idle" /\ call[c].told = "none"

\* Every call is answered: whatever one that is under way does next, a retry, a mended body,
\* another provider, leaves it with less to do.
CallsComeToAnEnd ==
  [][\A c \in Callers : Underway(c) /\ call'[c].at # call[c].at =>
       Less(Left(c)', Left(c)) \/ ~Underway(c)']_serialVars
===============================================================================
