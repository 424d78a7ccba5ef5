----------------------------- MODULE ReplayStore -----------------------------
(* The two layers that keep a finished response for replay (src/go/internal/replay/
   store.go): in Redis an owner key with a lease, a meta document and a list of chunks,
   written only by scripts that compare the owner's token first; in PostgreSQL one
   durable row.  One replay id is modelled.  A request is its own token and its own
   messageRequestId; a chunk is <<request, number>>.

   A script may be executed and its reply lost, and the client resends a command whose
   reply it did not get (MaxRetries of src/go/cmd/cchd/dataplane.go).  The executions of
   one call follow each other at once. *)
EXTENDS Naturals, Sequences

CONSTANTS
  Requests,
  NoOne,
  MaxRetries,  \* how often the client sends a command again: twice in the program
  MaxFaults    \* bound: calls that fail, lose their reply or are executed again

ASSUME StoreAssumption == NoOne \notin Requests /\ MaxRetries \in 0..2 /\ MaxFaults \in Nat

VARIABLES
  owner,    \* the owner key: a token, or NoOne
  meta,     \* the meta document
  list,     \* the list of chunks
  durable,  \* the row of replay_payloads: its state and its payload
  again,    \* history: the requests one of whose batches was appended more than once
  faults    \* calls that went wrong so far

storeVars == <<owner, meta, list, durable, again, faults>>

Meta(status, gen, count) == [status |-> status, gen |-> gen, count |-> count]
NoMeta == Meta("none", NoOne, 0)

StoreInit ==
  /\ owner = NoOne /\ meta = NoMeta /\ list = <<>> /\ again = {} /\ faults = 0
  /\ durable = [state |-> "none", payload |-> <<>>]

-----------------------------------------------------------------------------
(* Calls to Redis *)

\* How often the server executed a call, and whether the caller heard of it.  The client
\* sends it once and, while no reply comes, up to MaxRetries times more.
Calls ==
  {[times |-> 1, heard |-> TRUE]} \cup
  (IF faults < MaxFaults
   THEN {c \in [times : 0..(MaxRetries + 1), heard : BOOLEAN] : c.heard => c.times > 0}
   ELSE {})
Charge(c) == faults' = faults + (IF c.times = 1 /\ c.heard THEN 0 ELSE 1)

\* A script that compares the token and then sets the three keys.
Fenced(r, c, newOwner, newMeta, newList) ==
  /\ IF c.times > 0 /\ owner = r
     THEN owner' = newOwner /\ meta' = newMeta /\ list' = newList
     ELSE UNCHANGED <<owner, meta, list>>
  /\ Charge(c)
  /\ UNCHANGED <<durable, again>>

\* The answer of such a script, and of one that gives the key up: executed again, its
\* last answer is a no.
Held(r, c) == c.heard /\ owner = r
HeldOnce(r, c) == Held(r, c) /\ c.times = 1

TryClaimOwner(r, c) ==
  /\ owner' = IF c.times > 0 /\ owner = NoOne THEN r ELSE owner
  /\ Charge(c)
  /\ UNCHANGED <<meta, list, durable, again>>
Claimed(c) == c.heard /\ c.times = 1 /\ owner = NoOne

PrepareOwned(r, c) == Fenced(r, c, r, NoMeta, <<>>)

\* RPUSH is executed as often as the script.
Pushed(batch, times) ==
  list \o batch \o (IF times > 1 THEN batch ELSE <<>>) \o (IF times > 2 THEN batch ELSE <<>>)
WriteOwned(r, c, m, batch) ==
  /\ IF c.times > 0 /\ owner = r
     THEN owner' = r /\ meta' = m /\ list' = Pushed(batch, c.times)
     ELSE UNCHANGED <<owner, meta, list>>
  /\ again' = IF c.times > 1 /\ owner = r /\ batch # <<>> THEN again \cup {r} ELSE again
  /\ Charge(c)
  /\ UNCHANGED durable

AbortOwned(r, c) == Fenced(r, c, NoOne, Meta("aborted", r, 0), <<>>)
DiscardOwned(r, c) == Fenced(r, c, NoOne, NoMeta, <<>>)
CompleteOwned(r, c, m) == Fenced(r, c, NoOne, m, list)
ReleaseOwner(r, c) == Fenced(r, c, NoOne, meta, list)

\* A read, or a heartbeat: no key changes.
Look(c) == Charge(c) /\ UNCHANGED <<owner, meta, list, durable, again>>

-----------------------------------------------------------------------------
(* PostgreSQL *)

\* INSERT ... ON CONFLICT DO UPDATE ... WHERE expires_at <= now: a row that has expired
\* gets the new payload, and keeps its expires_at, which the statement does not set.
PersistCompleted(payload) ==
  durable' = CASE durable.state = "none"    -> [state |-> "live", payload |-> payload]
               [] durable.state = "expired" -> [durable EXCEPT !.payload = payload]
               [] durable.state = "live"    -> durable

\* The second look: a live row with another payload wins.
Conflicts(payload) == durable.state = "live" /\ durable.payload # payload

-----------------------------------------------------------------------------
(* Time *)

\* The lease ends when nobody renews it.
LeaseLapses ==
  /\ owner # NoOne /\ owner' = NoOne
  /\ UNCHANGED <<meta, list, durable, again, faults>>

\* The hot keys live longer than the lease that each write renews with them.
HotKeysExpire ==
  /\ owner = NoOne
  /\ \/ meta # NoMeta /\ meta' = NoMeta /\ UNCHANGED list
     \/ list # <<>> /\ list' = <<>> /\ UNCHANGED meta
  /\ UNCHANGED <<owner, durable, again, faults>>

RowExpires ==
  /\ durable.state = "live" /\ durable' = [durable EXCEPT !.state = "expired"]
  /\ UNCHANGED <<owner, meta, list, again, faults>>

CleanupExpired ==
  /\ durable.state = "expired" /\ durable' = [state |-> "none", payload |-> <<>>]
  /\ UNCHANGED <<owner, meta, list, again, faults>>
================================================================================
