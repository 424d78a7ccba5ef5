------------------------------- MODULE AuthStore -------------------------------
(* guard.AuthStore (src/go/internal/guard/adapters_store.go): who a key belongs to.
   Two caches of rows of one database, cleared by one invalidation: the keys in a
   KeyedCache, the users in a plain cfgsync.TTLMap that is filled by whoever has read
   a user, from the table of keys or from the database.  One key of one user. *)
EXTENDS KeyedCache

VARIABLES
  users,      \* the entry of the user: a version, or None
  resolving,  \* readers inside ResolveAPIKey
  lookup,     \* per reader: the version User read and has yet to store, or None
  sweeping,   \* per invalidator: between keys.Invalidate and users.Clear
  swept       \* history: the newest version an Invalidate that returned covers

userVars == <<users, resolving, lookup, sweeping, swept>>
authVars == <<keyedVars, userVars>>

AuthInit ==
  /\ KeyedInit
  /\ users = None /\ resolving = {} /\ swept = 0
  /\ lookup = [r \in Readers |-> None]
  /\ sweeping = [i \in Invalidators |-> None]

ResolveAPIKey(r) ==
  /\ r \notin resolving /\ lookup[r] = None
  /\ GetBegins(r)
  /\ resolving' = resolving \cup {r}
  /\ UNCHANGED <<users, lookup, sweeping, swept>>

\* The steps of the Get on behalf of ResolveAPIKey (or of ProviderGroup, which stops here).
ResolveStep(r) ==
  /\ Lookup(r) \/ Join(r) \/ Lead(r) \/ Fetch(r) \/ Store(r) \/ Close(r) \/ GiveUp(r)
  /\ UNCHANGED userVars

\* Get returned: the user found with the key is put into the table of users.
Remember(r) ==
  /\ r \in resolving /\ get[r].at = "idle"
  /\ users' = IF get[r].value = Failed THEN users ELSE get[r].value
  /\ resolving' = resolving \ {r}
  /\ UNCHANGED <<keyedVars, lookup, sweeping, swept>>

\* User(id), when the table does not have the user: read the row ...
ReadUser(r) ==
  /\ r \notin resolving /\ lookup[r] = None /\ users = None
  /\ lookup' = [lookup EXCEPT ![r] = db]
  /\ UNCHANGED <<keyedVars, users, resolving, sweeping, swept>>

\* ... and store it.
KeepUser(r) ==
  /\ lookup[r] # None
  /\ users' = lookup[r]
  /\ lookup' = [lookup EXCEPT ![r] = None]
  /\ UNCHANGED <<keyedVars, resolving, sweeping, swept>>

\* The time to live passes, or MarkUserExpired deletes the entry after its update.
DropUser ==
  /\ users # None
  /\ users' = None
  /\ UNCHANGED <<keyedVars, resolving, lookup, sweeping, swept>>

\* Invalidate: keys.Invalidate, then users.Clear.
InvalidateKeys(i) ==
  \/ sweeping[i] = None /\ Bump(i) /\ UNCHANGED userVars
  \/ Clear(i) /\ sweeping' = [sweeping EXCEPT ![i] = clearing[i]]
     /\ UNCHANGED <<users, resolving, lookup, swept>>

ClearUsers(i) ==
  /\ sweeping[i] # None
  /\ users' = None
  /\ swept' = IF swept < sweeping[i] THEN sweeping[i] ELSE swept
  /\ sweeping' = [sweeping EXCEPT ![i] = None]
  /\ UNCHANGED <<keyedVars, resolving, lookup>>

AuthNext ==
  \/ \E r \in Readers :
       ResolveAPIKey(r) \/ ResolveStep(r) \/ Remember(r) \/ ReadUser(r) \/ KeepUser(r)
  \/ \E i \in Invalidators : InvalidateKeys(i) \/ ClearUsers(i)
  \/ (Write \/ Expire) /\ UNCHANGED userVars
  \/ DropUser

AuthSpec == AuthInit /\ [][AuthNext]_authVars

-----------------------------------------------------------------------------

\* "Emptying the table is safe for a read-through cache, and costs only the next read"
\* (the comment of Invalidate): after it returned, the table of users holds nothing
\* older.  It does: a user read before and stored after stays for a time to live.
UsersAreFresh == users # None => swept <= users
================================================================================
