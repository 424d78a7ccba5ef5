------------------------------ MODULE KeyedCache ------------------------------
(* cfgsync.KeyedCache (src/go/internal/cfgsync/cache.go): a table with a time to
   live, loads shared by the callers of one key, and a version that keeps a load
   begun before an invalidation out of the table.  One key is modelled; the keys
   share only the version.  A value is the version of the row it was read from. *)
EXTENDS Integers

CONSTANTS
  Readers,        \* goroutines that call Get
  Invalidators,   \* goroutines that call Invalidate
  Failed,         \* the answer of a call that returns an error
  None,
  MaxVersion,     \* bound: writes of the row
  MaxEpoch        \* bound: invalidations

ASSUME KeyedAssumption ==
  /\ MaxVersion \in Nat /\ MaxEpoch \in Nat
  /\ Failed \notin Nat /\ None \notin Nat /\ Failed # None
  /\ None \notin Readers

VARIABLES
  db,         \* the version of the row in the database
  entry,      \* entries[key]: a version, or None when absent or expired
  epoch,      \* KeyedCache.version
  loading,    \* loading[key]: the reader whose flight is registered, or None
  get,        \* per reader: where its Get is
  clearing,   \* per invalidator: the row's version when it bumped epoch, until it cleared
  covered     \* history: the newest version an Invalidate that returned covers

keyedVars == <<db, entry, epoch, loading, get, clearing, covered>>

Idle == [at |-> "idle", from |-> 0, leader |-> None, epoch |-> 0, value |-> Failed]

KeyedInit ==
  /\ db = 0 /\ entry = None /\ epoch = 0 /\ loading = None /\ covered = 0
  /\ get = [r \in Readers |-> Idle]
  /\ clearing = [i \in Invalidators |-> None]

-----------------------------------------------------------------------------
(* Get.  get[r].from is history: what was covered when the call began. *)

GetBegins(r) ==
  /\ get[r].at = "idle"
  /\ get' = [get EXCEPT ![r] = [Idle EXCEPT !.at = "lookup", !.from = covered]]
  /\ UNCHANGED <<db, entry, epoch, loading, clearing, covered>>

\* entries.Get, outside the mutex of the cache.
Lookup(r) ==
  /\ get[r].at = "lookup"
  /\ get' = [get EXCEPT ![r] =
       IF entry = None THEN [@ EXCEPT !.at = "missed"]
                       ELSE [@ EXCEPT !.at = "idle", !.value = entry]]
  /\ UNCHANGED <<db, entry, epoch, loading, clearing, covered>>

Join(r) ==
  /\ get[r].at = "missed" /\ loading # None
  /\ get' = [get EXCEPT ![r].at = "waiting", ![r].leader = loading]
  /\ UNCHANGED <<db, entry, epoch, loading, clearing, covered>>

Lead(r) ==
  /\ get[r].at = "missed" /\ loading = None
  /\ loading' = r
  /\ get' = [get EXCEPT ![r].at = "fetching", ![r].epoch = epoch]
  /\ UNCHANGED <<db, entry, epoch, clearing, covered>>

\* The query, without the mutex: it sees the row as it is, or fails.
Fetch(r) ==
  /\ get[r].at = "fetching"
  /\ \E v \in {db, Failed} : get' = [get EXCEPT ![r].at = "fetched", ![r].value = v]
  /\ UNCHANGED <<db, entry, epoch, loading, clearing, covered>>

\* The flight leaves the register; its value is kept unless an invalidation came.
Store(r) ==
  /\ get[r].at = "fetched"
  /\ loading' = IF loading = r THEN None ELSE loading
  /\ entry' = IF get[r].value # Failed /\ get[r].epoch = epoch THEN get[r].value ELSE entry
  /\ get' = [get EXCEPT ![r].at = "closing"]
  /\ UNCHANGED <<db, epoch, clearing, covered>>

WaitingFor(r) == {w \in Readers : get[w].at = "waiting" /\ get[w].leader = r}

\* close(flight.done): the leader and everybody who waits get the same answer.
Close(r) ==
  /\ get[r].at = "closing"
  /\ get' = [w \in Readers |->
       IF w \in WaitingFor(r) \cup {r}
       THEN [get[w] EXCEPT !.at = "idle", !.value = get[r].value] ELSE get[w]]
  /\ UNCHANGED <<db, entry, epoch, loading, clearing, covered>>

\* The context of a waiting caller ends.
GiveUp(r) ==
  /\ get[r].at = "waiting"
  /\ get' = [get EXCEPT ![r].at = "idle"]
  /\ UNCHANGED <<db, entry, epoch, loading, clearing, covered>>

-----------------------------------------------------------------------------
(* The rest *)

\* The row changes.
Write ==
  /\ db < MaxVersion
  /\ db' = db + 1
  /\ UNCHANGED <<entry, epoch, loading, get, clearing, covered>>

\* The entry's time to live passes, or the table evicts it.
Expire ==
  /\ entry # None
  /\ entry' = None
  /\ UNCHANGED <<db, epoch, loading, get, clearing, covered>>

BumpKeepsLoads(i) ==   \* as ValueCache does: the flight stays registered
  /\ clearing[i] = None /\ epoch < MaxEpoch
  /\ epoch' = epoch + 1 /\ clearing' = [clearing EXCEPT ![i] = db]
  /\ UNCHANGED <<db, entry, loading, get, covered>>

\* Invalidate, under the mutex: a new version, and nobody joins a load any more.
Bump(i) ==
  /\ clearing[i] = None /\ epoch < MaxEpoch
  /\ epoch' = epoch + 1 /\ loading' = None
  /\ clearing' = [clearing EXCEPT ![i] = db]
  /\ UNCHANGED <<db, entry, get, covered>>

\* Invalidate, after the mutex: the table is emptied, and the call returns.
Clear(i) ==
  /\ clearing[i] # None
  /\ entry' = None
  /\ covered' = IF covered < clearing[i] THEN clearing[i] ELSE covered
  /\ clearing' = [clearing EXCEPT ![i] = None]
  /\ UNCHANGED <<db, epoch, loading, get>>

ReaderStep(r) ==
  \/ GetBegins(r) \/ Lookup(r) \/ Join(r) \/ Lead(r) \/ Fetch(r)
  \/ Store(r) \/ Close(r) \/ GiveUp(r)

KeyedNext ==
  \/ \E r \in Readers : ReaderStep(r)
  \/ \E i \in Invalidators : Bump(i) \/ Clear(i)
  \/ Write \/ Expire

KeyedSpec == KeyedInit /\ [][KeyedNext]_keyedVars

-----------------------------------------------------------------------------
(* Properties *)

ReaderStates == {"idle", "lookup", "missed", "waiting", "fetching", "fetched", "closing"}
Answers == Nat \cup {Failed}

KeyedTypeOK ==
  /\ db \in Nat /\ epoch \in Nat /\ covered \in Nat
  /\ entry \in Nat \cup {None}
  /\ loading \in Readers \cup {None}
  /\ get \in [Readers -> [at : ReaderStates, from : Nat, leader : Readers \cup {None},
                          epoch : Nat, value : Answers]]
  /\ clearing \in [Invalidators -> Nat \cup {None}]

\* The table holds nothing older than what a returned Invalidate covers, although
\* loads run without the mutex and the table is emptied after it was given up.
TableIsFresh == entry # None => covered <= entry

Register == INSTANCE FreshRegister WITH
  newest <- db,
  floor  <- covered,
  call   <- [r \in Readers |-> [open |-> get[r].at # "idle", from |-> get[r].from,
                                answer |-> IF get[r].at = "idle" THEN get[r].value ELSE Failed]]

\* A Get that begins after Invalidate returned never answers with a row older than
\* it, whether it found the table filled, joined a load or ran one ("直接拿到失效后的数据").
GetsAreFresh == Register!RegisterSpec
================================================================================
