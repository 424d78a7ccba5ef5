--------------------------- MODULE ConfigCaches_proofs ---------------------------
(* The caches of the configuration.  The cache of a table implements the register of what
   it promises, for any number of readers and invalidators, writes and invalidations; the
   cell of one value never goes back behind an invalidation, by itself and behind the bus
   that invalidates it. *)
EXTENDS AuthStore, ConfigSync, TLAPS

-----------------------------------------------------------------------------
(* KeyedCache *)

Loading(r) == get[r].at \in {"fetching", "fetched"}
Answered(r) == get[r].at \in {"fetched", "closing"} /\ get[r].value # Failed

\* What a returned Invalidate covers, and what one under way will cover, is in the
\* database; a call began no later than it covers.
CoverOK ==
  /\ covered <= db
  /\ \A i \in Invalidators : clearing[i] # None => clearing[i] <= db
  /\ \A r \in Readers : get[r].from <= covered

\* The table holds versions of the database that are as new as what is covered.
TableOK == entry # None => covered <= entry /\ entry <= db

\* A load that may fill the table has read a row as new as every invalidation so far,
\* the ones that have yet to empty the table too.
LoadOK ==
  \A r \in Readers :
    Loading(r) =>
      /\ get[r].epoch <= epoch
      /\ get[r].epoch = epoch /\ Answered(r) =>
           /\ covered <= get[r].value
           /\ \A i \in Invalidators : clearing[i] # None => clearing[i] <= get[r].value

\* Only a load of the present version can be joined.
JoinOK == loading # None => Loading(loading) /\ get[loading].epoch = epoch

\* What a load answers is good enough for its caller and for those who wait for it.
AnswerOK ==
  /\ \A r \in Readers : Answered(r) => get[r].value <= db /\ get[r].from <= get[r].value
  /\ \A w, r \in Readers :
       get[w].at = "waiting" /\ get[w].leader = r /\ Answered(r) => get[w].from <= get[r].value
  /\ \A r \in Readers : get[r].at \in {"lookup", "missed", "waiting"} => get[r].value = Failed

KeyedInv == KeyedTypeOK /\ CoverOK /\ TableOK /\ LoadOK /\ JoinOK /\ AnswerOK

GetType == [at : ReaderStates, from : Nat, leader : Readers \cup {None}, epoch : Nat,
            value : Answers]

LEMMA NoneApart == None \notin Nat /\ Failed \notin Nat /\ None # Failed /\ None \notin Readers
  BY KeyedAssumption

-----------------------------------------------------------------------------
(* The invariant *)

LEMMA InitInv == KeyedInit => KeyedInv
  <1> SUFFICES ASSUME KeyedInit PROVE KeyedInv
    OBVIOUS
  <1>1. Idle \in GetType
    BY DEF Idle, GetType, ReaderStates, Answers
  <1>2. get \in [Readers -> GetType] /\ \A r \in Readers : get[r] = Idle
    BY <1>1 DEF KeyedInit
  <1>3. KeyedTypeOK
    <2>1. clearing \in [Invalidators -> Nat \cup {None}]
      BY DEF KeyedInit
    <2>2. db \in Nat /\ epoch \in Nat /\ covered \in Nat
      BY DEF KeyedInit
    <2>3. entry \in Nat \cup {None} /\ loading \in Readers \cup {None}
      BY DEF KeyedInit
    <2> QED
      BY <1>2, <2>1, <2>2, <2>3 DEF KeyedTypeOK, GetType
  <1>4. \A r \in Readers : get[r].at = "idle" /\ get[r].from = 0
    <2>1. Idle.at = "idle" /\ Idle.from = 0
      BY DEF Idle
    <2> QED
      BY <1>2, <2>1
  <1> QED
    BY <1>3, <1>4
    DEF KeyedInit, KeyedInv, CoverOK, TableOK, LoadOK, JoinOK, AnswerOK, Loading, Answered

(* A step of a reader touches its own call only, the table, or the register of loads;
   what it changes is one of the eight cases below. *)
LEMMA GetBeginsInv == ASSUME KeyedInv, NEW r \in Readers, GetBegins(r) PROVE KeyedInv'
  <1> USE DEF KeyedInv
  <1>0. get \in [Readers -> GetType] /\ covered \in Nat
    BY DEF KeyedTypeOK, GetType
  <1> DEFINE g == [Idle EXCEPT !.at = "lookup", !.from = covered]
  <1>1. /\ g \in GetType /\ g.at = "lookup" /\ g.from = covered /\ g.value = Failed
    BY <1>0 DEF Idle, GetType, ReaderStates, Answers
  <1> HIDE DEF g
  <1>2. get' = [get EXCEPT ![r] = g] /\ UNCHANGED <<db, entry, epoch, loading, clearing, covered>>
    BY DEF GetBegins, g
  <1>3. /\ get' \in [Readers -> GetType]
        /\ get'[r] = g /\ \A w \in Readers \ {r} : get'[w] = get[w]
    BY <1>0, <1>1, <1>2
  <1>4. KeyedTypeOK'
    BY <1>2, <1>3 DEF KeyedTypeOK, GetType
  <1>5. CoverOK' /\ TableOK'
    BY <1>0, <1>1, <1>2, <1>3 DEF CoverOK, TableOK
  <1>6. LoadOK'
    BY <1>1, <1>2, <1>3 DEF LoadOK, Loading, Answered
  <1>7. JoinOK'
    BY <1>1, <1>2, <1>3, NoneApart DEF JoinOK, Loading, GetBegins, KeyedTypeOK
  <1>8. AnswerOK'
    BY <1>1, <1>2, <1>3 DEF AnswerOK, Answered
  <1> QED
    BY <1>4, <1>5, <1>6, <1>7, <1>8

LEMMA LookupInv == ASSUME KeyedInv, NEW r \in Readers, Lookup(r) PROVE KeyedInv'
  <1> USE DEF KeyedInv
  <1>0. get \in [Readers -> GetType] /\ entry \in Nat \cup {None}
    BY DEF KeyedTypeOK, GetType
  <1>1. /\ get[r].at = "lookup" /\ UNCHANGED <<db, entry, epoch, loading, clearing, covered>>
        /\ get' \in [Readers -> GetType]
        /\ get'[r].at \in {"missed", "idle"} /\ get'[r].from = get[r].from
        /\ get'[r].at = "missed" => get'[r].value = get[r].value
        /\ \A w \in Readers \ {r} : get'[w] = get[w]
    BY <1>0 DEF Lookup, GetType, ReaderStates, Answers
  <1>2. KeyedTypeOK'
    BY <1>1 DEF KeyedTypeOK, GetType
  <1>3. CoverOK' /\ TableOK'
    BY <1>1 DEF CoverOK, TableOK
  <1>4. LoadOK'
    BY <1>1 DEF LoadOK, Loading, Answered
  <1>5. JoinOK'
    BY <1>1 DEF JoinOK, Loading, KeyedTypeOK
  <1>6. AnswerOK'
    BY <1>1 DEF AnswerOK, Answered
  <1> QED
    BY <1>2, <1>3, <1>4, <1>5, <1>6

LEMMA JoinInv == ASSUME KeyedInv, NEW r \in Readers, Join(r) PROVE KeyedInv'
  <1> USE DEF KeyedInv
  <1>0. get \in [Readers -> GetType] /\ loading \in Readers
    BY DEF KeyedTypeOK, GetType, Join
  <1>1. /\ get[r].at = "missed" /\ UNCHANGED <<db, entry, epoch, loading, clearing, covered>>
        /\ get' \in [Readers -> GetType]
        /\ get'[r].at = "waiting" /\ get'[r].from = get[r].from
        /\ get'[r].leader = loading /\ get'[r].value = get[r].value
        /\ \A w \in Readers \ {r} : get'[w] = get[w]
    BY <1>0 DEF Join, GetType, ReaderStates, Answers
  <1>2. KeyedTypeOK'
    BY <1>1 DEF KeyedTypeOK, GetType
  <1>3. CoverOK' /\ TableOK'
    BY <1>1 DEF CoverOK, TableOK
  <1>4. LoadOK'
    BY <1>1 DEF LoadOK, Loading, Answered
  <1>5. JoinOK'
    BY <1>0, <1>1 DEF JoinOK, Loading
  <1>6. Answered(loading) => get[r].from <= get[loading].value
    <2>1. Loading(loading) /\ get[loading].epoch = epoch
      BY <1>0, NoneApart DEF JoinOK
    <2>2. ASSUME Answered(loading) PROVE covered <= get[loading].value /\ get[loading].value \in Nat
      BY <1>0, <2>1, <2>2 DEF LoadOK, Answered, GetType, Answers
    <2>3. get[r].from <= covered /\ get[r].from \in Nat /\ covered \in Nat
      BY <1>0 DEF CoverOK, GetType, KeyedTypeOK
    <2> QED
      BY <2>2, <2>3
  <1>7. AnswerOK'
    BY <1>0, <1>1, <1>6 DEF AnswerOK, Answered
  <1> QED
    BY <1>2, <1>3, <1>4, <1>5, <1>7

LEMMA LeadInv == ASSUME KeyedInv, NEW r \in Readers, Lead(r) PROVE KeyedInv'
  <1> USE DEF KeyedInv
  <1>0. get \in [Readers -> GetType] /\ epoch \in Nat
    BY DEF KeyedTypeOK, GetType
  <1>1. /\ get[r].at = "missed" /\ UNCHANGED <<db, entry, epoch, clearing, covered>>
        /\ loading' = r
        /\ get' \in [Readers -> GetType]
        /\ get'[r].at = "fetching" /\ get'[r].from = get[r].from /\ get'[r].epoch = epoch
        /\ \A w \in Readers \ {r} : get'[w] = get[w]
    BY <1>0 DEF Lead, GetType, ReaderStates, Answers
  <1>2. KeyedTypeOK'
    BY <1>1 DEF KeyedTypeOK, GetType
  <1>3. CoverOK' /\ TableOK'
    BY <1>1 DEF CoverOK, TableOK
  <1>4. LoadOK'
    BY <1>0, <1>1 DEF LoadOK, Loading, Answered
  <1>5. JoinOK'
    BY <1>1 DEF JoinOK, Loading
  <1>6. AnswerOK'
    BY <1>1 DEF AnswerOK, Answered
  <1> QED
    BY <1>2, <1>3, <1>4, <1>5, <1>6

LEMMA FetchInv == ASSUME KeyedInv, NEW r \in Readers, Fetch(r) PROVE KeyedInv'
  <1> USE DEF KeyedInv
  <1>0. /\ get \in [Readers -> GetType] /\ db \in Nat /\ covered \in Nat
        /\ loading \in Readers \cup {None}
    BY DEF KeyedTypeOK, GetType
  <1>a. PICK v \in {db, Failed} : get' = [get EXCEPT ![r].at = "fetched", ![r].value = v]
    BY DEF Fetch
  <1>b. v \in Answers
    BY <1>0 DEF Answers
  <1>c. get[r].at = "fetching" /\ UNCHANGED <<db, entry, epoch, loading, clearing, covered>>
    BY DEF Fetch
  <1>d. [get[r] EXCEPT !.at = "fetched", !.value = v] \in GetType
    BY <1>0, <1>b DEF GetType, ReaderStates
  <1>1. /\ get[r].at = "fetching" /\ UNCHANGED <<db, entry, epoch, loading, clearing, covered>>
        /\ get' \in [Readers -> GetType]
        /\ get'[r].at = "fetched" /\ get'[r].from = get[r].from /\ get'[r].epoch = get[r].epoch
        /\ get'[r].value \in {db, Failed}
        /\ \A w \in Readers \ {r} : get'[w] = get[w]
    BY <1>0, <1>a, <1>c, <1>d DEF GetType
  <1>2. KeyedTypeOK'
    BY <1>1 DEF KeyedTypeOK, GetType
  <1>3. CoverOK' /\ TableOK'
    BY <1>1 DEF CoverOK, TableOK
  <1>4. LoadOK'
    <2>1. \A w \in Readers \ {r} : Loading(w)' =>
            /\ get'[w].epoch <= epoch
            /\ get'[w].epoch = epoch /\ Answered(w)' =>
                 /\ covered <= get'[w].value
                 /\ \A i \in Invalidators : clearing[i] # None => clearing[i] <= get'[w].value
      BY <1>1 DEF LoadOK, Loading, Answered
    <2>2. get'[r].epoch <= epoch
      BY <1>1 DEF LoadOK, Loading
    <2>3. get'[r].value # Failed =>
            /\ covered <= get'[r].value
            /\ \A i \in Invalidators : clearing[i] # None => clearing[i] <= get'[r].value
      BY <1>1 DEF CoverOK
    <2> QED
      BY <1>1, <2>1, <2>2, <2>3 DEF LoadOK, Answered
  <1>5. JoinOK'
    BY <1>0, <1>1 DEF JoinOK, Loading
  <1>6. \A w \in Readers : get[w].from <= db
    BY <1>0 DEF CoverOK, GetType
  <1>7. \A w \in Readers : get'[w].from = get[w].from
    BY <1>1
  <1>8. AnswerOK'
    BY <1>0, <1>1, <1>6, <1>7 DEF AnswerOK, Answered
  <1> QED
    BY <1>2, <1>3, <1>4, <1>5, <1>8

LEMMA StoreInv == ASSUME KeyedInv, NEW r \in Readers, Store(r) PROVE KeyedInv'
  <1> USE DEF KeyedInv
  <1>0. get \in [Readers -> GetType] /\ loading \in Readers \cup {None}
    BY DEF KeyedTypeOK, GetType
  <1>1. /\ get[r].at = "fetched" /\ UNCHANGED <<db, epoch, clearing, covered>>
        /\ loading' = IF loading = r THEN None ELSE loading
        /\ entry' = IF get[r].value # Failed /\ get[r].epoch = epoch THEN get[r].value ELSE entry
        /\ get' \in [Readers -> GetType]
        /\ get'[r].at = "closing" /\ get'[r].from = get[r].from /\ get'[r].value = get[r].value
        /\ \A w \in Readers \ {r} : get'[w] = get[w]
    BY <1>0 DEF Store, GetType, ReaderStates, Answers
  <1>2. get[r].value # Failed => get[r].value \in Nat
    BY <1>0 DEF GetType, Answers
  <1>3. KeyedTypeOK'
    BY <1>0, <1>1, <1>2 DEF KeyedTypeOK, GetType
  <1>4. CoverOK'
    BY <1>1 DEF CoverOK
  <1>5. TableOK'
    BY <1>1 DEF TableOK, LoadOK, AnswerOK, Loading, Answered
  <1>6. LoadOK'
    BY <1>1 DEF LoadOK, Loading, Answered
  <1>7. JoinOK'
    BY <1>0, <1>1 DEF JoinOK, Loading
  <1>8. AnswerOK'
    BY <1>1 DEF AnswerOK, Answered
  <1> QED
    BY <1>3, <1>4, <1>5, <1>6, <1>7, <1>8

LEMMA CloseInv == ASSUME KeyedInv, NEW r \in Readers, Close(r) PROVE KeyedInv'
  <1> USE DEF KeyedInv
  <1>0. get \in [Readers -> GetType]
    BY DEF KeyedTypeOK, GetType
  <1> DEFINE Done == WaitingFor(r) \cup {r}
  <1>1. /\ get[r].at = "closing" /\ UNCHANGED <<db, entry, epoch, loading, clearing, covered>>
        /\ get' = [w \in Readers |->
             IF w \in Done THEN [get[w] EXCEPT !.at = "idle", !.value = get[r].value] ELSE get[w]]
    BY DEF Close
  <1>2. \A w \in Done : w \in Readers /\ get[w].at \in {"waiting", "closing"}
    BY <1>1 DEF WaitingFor
  <1> HIDE DEF Done
  <1>a. get[r].value \in Answers
    BY <1>0 DEF GetType
  <1>b. \A w \in Readers : [get[w] EXCEPT !.at = "idle", !.value = get[r].value] \in GetType
    BY <1>0, <1>a DEF GetType, ReaderStates
  <1>3. /\ get' \in [Readers -> GetType]
        /\ \A w \in Readers : get'[w].from = get[w].from
        /\ \A w \in Done : get'[w].at = "idle"
        /\ \A w \in Readers \ Done : get'[w] = get[w]
    <2>1. \A w \in Done : /\ get'[w] = [get[w] EXCEPT !.at = "idle", !.value = get[r].value]
                        /\ get[w] \in GetType
      BY <1>0, <1>1, <1>2
    <2>2. \A w \in Done : get'[w].at = "idle" /\ get'[w].from = get[w].from
      BY <2>1 DEF GetType
    <2>3. \A w \in Readers \ Done : get'[w] = get[w]
      BY <1>1
    <2>4. get' \in [Readers -> GetType]
      BY <1>0, <1>1, <1>b
    <2> QED
      BY <2>2, <2>3, <2>4
  <1>4. KeyedTypeOK'
    BY <1>1, <1>3 DEF KeyedTypeOK, GetType
  <1>5. CoverOK' /\ TableOK'
    BY <1>1, <1>3 DEF CoverOK, TableOK
  <1>6. LoadOK'
    BY <1>1, <1>3 DEF LoadOK, Loading, Answered
  <1>7. JoinOK'
    BY <1>1, <1>2, <1>3, NoneApart DEF JoinOK, Loading, KeyedTypeOK
  <1>8. AnswerOK'
    BY <1>1, <1>3 DEF AnswerOK, Answered
  <1> QED
    BY <1>4, <1>5, <1>6, <1>7, <1>8

LEMMA GiveUpInv == ASSUME KeyedInv, NEW r \in Readers, GiveUp(r) PROVE KeyedInv'
  <1> USE DEF KeyedInv
  <1>0. get \in [Readers -> GetType]
    BY DEF KeyedTypeOK, GetType
  <1>1. /\ get[r].at = "waiting" /\ UNCHANGED <<db, entry, epoch, loading, clearing, covered>>
        /\ get' \in [Readers -> GetType]
        /\ get'[r].at = "idle" /\ get'[r].from = get[r].from
        /\ \A w \in Readers \ {r} : get'[w] = get[w]
    BY <1>0 DEF GiveUp, GetType, ReaderStates
  <1>2. KeyedTypeOK'
    BY <1>1 DEF KeyedTypeOK, GetType
  <1>3. CoverOK' /\ TableOK'
    BY <1>1 DEF CoverOK, TableOK
  <1>4. LoadOK'
    BY <1>1 DEF LoadOK, Loading, Answered
  <1>5. JoinOK'
    BY <1>1 DEF JoinOK, Loading, KeyedTypeOK
  <1>6. AnswerOK'
    BY <1>1 DEF AnswerOK, Answered
  <1> QED
    BY <1>2, <1>3, <1>4, <1>5, <1>6

\* A new version: no load under way may fill the table or be joined any more.
LEMMA BumpInv == ASSUME KeyedInv, NEW i \in Invalidators, Bump(i) PROVE KeyedInv'
  <1> USE DEF KeyedInv
  <1>0. db \in Nat /\ epoch \in Nat /\ clearing \in [Invalidators -> Nat \cup {None}]
    BY DEF KeyedTypeOK
  <1>1. /\ epoch' = epoch + 1 /\ loading' = None /\ UNCHANGED <<db, entry, get, covered>>
        /\ clearing' \in [Invalidators -> Nat \cup {None}] /\ clearing'[i] = db
        /\ \A j \in Invalidators \ {i} : clearing'[j] = clearing[j]
    BY <1>0 DEF Bump
  <1>2. KeyedTypeOK'
    BY <1>0, <1>1 DEF KeyedTypeOK
  <1>3. CoverOK'
    BY <1>0, <1>1 DEF CoverOK
  <1>4. TableOK' /\ JoinOK'
    BY <1>1 DEF TableOK, JoinOK
  <1>5. \A r \in Readers : Loading(r) => get[r].epoch <= epoch /\ get[r].epoch \in Nat
    BY DEF LoadOK, KeyedTypeOK
  <1>6. LoadOK'
    BY <1>0, <1>1, <1>5 DEF LoadOK, Loading, Answered
  <1>7. AnswerOK'
    BY <1>1 DEF AnswerOK, Answered
  <1> QED
    BY <1>2, <1>3, <1>4, <1>6, <1>7

LEMMA ClearInv == ASSUME KeyedInv, NEW i \in Invalidators, Clear(i) PROVE KeyedInv'
  <1> USE DEF KeyedInv
  <1>0. /\ db \in Nat /\ covered \in Nat /\ clearing[i] \in Nat
        /\ clearing \in [Invalidators -> Nat \cup {None}]
    BY DEF KeyedTypeOK, Clear
  <1>1. /\ entry' = None /\ UNCHANGED <<db, epoch, loading, get>>
        /\ covered' \in Nat /\ covered <= covered' /\ covered' \in {covered, clearing[i]}
        /\ clearing' \in [Invalidators -> Nat \cup {None}] /\ clearing'[i] = None
        /\ \A j \in Invalidators \ {i} : clearing'[j] = clearing[j]
    BY <1>0 DEF Clear
  <1>2. KeyedTypeOK'
    BY <1>1 DEF KeyedTypeOK
  <1>3. clearing[i] <= db
    BY <1>0, NoneApart DEF CoverOK
  <1>4. CoverOK'
    <2>1. \A r \in Readers : get[r].from \in Nat
      BY DEF KeyedTypeOK
    <2> QED
      BY <1>0, <1>1, <1>3, <2>1 DEF CoverOK
  <1>5. TableOK' /\ JoinOK'
    BY <1>1 DEF TableOK, JoinOK, Loading
  <1>6. LoadOK'
    <2>1. \A r \in Readers : Loading(r) /\ get[r].epoch = epoch /\ Answered(r) =>
            covered <= get[r].value /\ clearing[i] <= get[r].value
      BY <1>0, NoneApart DEF LoadOK
    <2> QED
      BY <1>1, <2>1 DEF LoadOK, Loading, Answered
  <1>7. AnswerOK'
    BY <1>1 DEF AnswerOK, Answered
  <1> QED
    BY <1>2, <1>4, <1>5, <1>6, <1>7

LEMMA RestInv == ASSUME KeyedInv, Write \/ Expire \/ UNCHANGED keyedVars PROVE KeyedInv'
  <1> USE DEF KeyedInv
  <1>0. /\ db \in Nat /\ covered \in Nat /\ entry \in Nat \cup {None}
        /\ clearing \in [Invalidators -> Nat \cup {None}]
        /\ \A r \in Readers : get[r].value \in Answers
    BY DEF KeyedTypeOK
  <1>1. /\ UNCHANGED <<epoch, loading, get, clearing, covered>>
        /\ db' \in {db, db + 1} /\ entry' \in {entry, None}
    BY DEF Write, Expire, keyedVars
  <1>2. db <= db' /\ db' \in Nat
    BY <1>0, <1>1
  <1>3. KeyedTypeOK'
    BY <1>0, <1>1, <1>2 DEF KeyedTypeOK
  <1>4. CoverOK' /\ TableOK'
    BY <1>0, <1>1, <1>2 DEF CoverOK, TableOK
  <1>5. LoadOK' /\ JoinOK'
    BY <1>1 DEF LoadOK, JoinOK, Loading, Answered
  <1>6. \A r \in Readers : Answered(r) => get[r].value <= db'
    <2>1. \A r \in Readers : Answered(r) => get[r].value \in Nat /\ get[r].value <= db
      BY <1>0 DEF AnswerOK, Answered, Answers
    <2> QED
      BY <1>0, <1>2, <2>1
  <1>7. AnswerOK'
    BY <1>1, <1>6 DEF AnswerOK, Answered
  <1> QED
    BY <1>3, <1>4, <1>5, <1>7

LEMMA StepInv == KeyedInv /\ [KeyedNext]_keyedVars => KeyedInv'
  BY GetBeginsInv, LookupInv, JoinInv, LeadInv, FetchInv, StoreInv, CloseInv, GiveUpInv,
     BumpInv, ClearInv, RestInv
  DEF KeyedNext, ReaderStep

\* The invariant, in every state of the cache.
THEOREM KeyedInvariant == KeyedSpec => []KeyedInv
  BY InitInv, StepInv, PTL DEF KeyedSpec

\* Table, version, loads and calls keep their types.
THEOREM KeyedTyped == KeyedSpec => []KeyedTypeOK
  <1>1. KeyedInv => KeyedTypeOK
    BY DEF KeyedInv
  <1> QED
    BY <1>1, KeyedInvariant, PTL

\* The table never holds a row older than what a returned Invalidate covers, although
\* loads run without the mutex and the table is emptied after the mutex was given up
\* (KeyedCache.Get, KeyedCache.Invalidate).
THEOREM TableStaysFresh == KeyedSpec => []TableIsFresh
  <1>1. KeyedInv => TableIsFresh
    BY DEF KeyedInv, TableOK, TableIsFresh
  <1> QED
    BY <1>1, KeyedInvariant, PTL

-----------------------------------------------------------------------------
(* The refinement.  A call of the register is open from GetBegins to the step that
   makes the reader idle again; every other step of a reader is a stutter. *)

CallOf(r) == [open |-> get[r].at # "idle", from |-> get[r].from,
            answer |-> IF get[r].at = "idle" THEN get[r].value ELSE Failed]

LEMMA RegisterInit == KeyedInit => Register!RegisterInit
  <1> SUFFICES ASSUME KeyedInit PROVE Register!RegisterInit
    OBVIOUS
  <1>1. \A r \in Readers : get[r].at = "idle" /\ get[r].from = 0 /\ get[r].value = Failed
    <2>1. Idle.at = "idle" /\ Idle.from = 0 /\ Idle.value = Failed
      BY DEF Idle
    <2> QED
      BY <2>1 DEF KeyedInit
  <1>2. [r \in Readers |-> CallOf(r)] = [r \in Readers |-> [open |-> FALSE, from |-> 0, answer |-> Failed]]
    BY <1>1 DEF CallOf
  <1> QED
    BY <1>2 DEF KeyedInit, Register!RegisterInit, CallOf

LEMMA OneRecord ==
  ASSUME NEW from, NEW v, NEW q \in [open : {FALSE}, from : {from}, answer : {v}]
  PROVE  q = [open |-> FALSE, from |-> from, answer |-> v]
  OBVIOUS

\* The calls of R return v, in one step of the register.
LEMMA Returns ==
  ASSUME KeyedInv, UNCHANGED <<db, covered>>, NEW R \in SUBSET Readers,
         NEW v \in (0..db) \cup {Failed},
         \A w \in R : /\ get[w].at # "idle" /\ (v = Failed \/ get[w].from <= v)
                      /\ get'[w].at = "idle" /\ get'[w].from = get[w].from /\ get'[w].value = v,
         \A w \in Readers \ R : get'[w] = get[w]
  PROVE  Register!CallsReturn(R)
  <1> DEFINE calls == [r \in Readers |-> CallOf(r)]
  <1>1. \A w \in R : CallOf(w)' = [CallOf(w) EXCEPT !.open = FALSE, !.answer = v]
    <2> SUFFICES ASSUME NEW w \in R PROVE CallOf(w)' = [CallOf(w) EXCEPT !.open = FALSE, !.answer = v]
      OBVIOUS
    <2>1. CallOf(w)' = [open |-> FALSE, from |-> get[w].from, answer |-> v]
      BY DEF CallOf
    <2>2. CallOf(w) = [open |-> TRUE, from |-> get[w].from, answer |-> Failed]
      BY DEF CallOf
    <2>3. PICK q, from : q = CallOf(w) /\ from = get[w].from
      OBVIOUS
    <2>4. q = [open |-> TRUE, from |-> from, answer |-> Failed]
      BY <2>2, <2>3
    <2>5. [q EXCEPT !.open = FALSE, !.answer = v] = [open |-> FALSE, from |-> from, answer |-> v]
      <3>1. [q EXCEPT !.open = FALSE, !.answer = v]
              \in [open : {FALSE}, from : {from}, answer : {v}]
        BY <2>4
      <3> QED
        BY <3>1, OneRecord
    <2>6. CallOf(w)' = [open |-> FALSE, from |-> from, answer |-> v]
      BY <2>1, <2>3
    <2> QED
      BY <2>3, <2>5, <2>6
  <1>2. \A w \in Readers \ R : CallOf(w)' = CallOf(w)
    BY DEF CallOf
  <1>3. calls' = [r \in Readers |->
          IF r \in R THEN [calls[r] EXCEPT !.open = FALSE, !.answer = v] ELSE calls[r]]
    BY <1>1, <1>2
  <1>4. \A r \in R : calls[r].open /\ (v = Failed \/ calls[r].from <= v)
    BY DEF CallOf
  <1> QED
    BY <1>3, <1>4 DEF Register!CallsReturn, CallOf

LEMMA Stutters ==
  ASSUME UNCHANGED <<db, covered>>,
         \A w \in Readers :
           \/ get'[w] = get[w]
           \/ get[w].at # "idle" /\ get'[w].at # "idle" /\ get'[w].from = get[w].from
  PROVE  UNCHANGED Register!registerVars
  <1>1. \A w \in Readers : CallOf(w)' = CallOf(w)
    BY DEF CallOf
  <1> QED
    BY <1>1 DEF Register!registerVars, CallOf

LEMMA ReaderRefines ==
  ASSUME KeyedInv, KeyedInv', NEW r \in Readers, ReaderStep(r)
  PROVE  [Register!RegisterNext]_Register!registerVars
  <1> USE DEF KeyedInv
  <1>0. /\ get \in [Readers -> GetType] /\ db \in Nat /\ covered \in Nat
        /\ entry \in Nat \cup {None}
    BY DEF KeyedTypeOK, GetType
  <1>1. CASE GetBegins(r)
    <2> DEFINE calls == [w \in Readers |-> CallOf(w)]
               begun == [open |-> TRUE, from |-> covered, answer |-> Failed]
    <2>1. get'[r].at = "lookup" /\ get'[r].from = covered
      BY <1>0, <1>1 DEF GetBegins, Idle
    <2>2. \A w \in Readers \ {r} : get'[w] = get[w]
      BY <1>0, <1>1 DEF GetBegins
    <2>3. CallOf(r)' = begun
      BY <2>1 DEF CallOf
    <2>4. \A w \in Readers \ {r} : CallOf(w)' = CallOf(w)
      BY <2>2 DEF CallOf
    <2>5. calls' = [calls EXCEPT ![r] = begun]
      BY <2>3, <2>4
    <2>6. ~calls[r].open
      BY <1>1 DEF GetBegins, CallOf
    <2>7. UNCHANGED <<db, covered>>
      BY <1>1 DEF GetBegins
    <2>8. Register!CallBegins(r)
      BY <2>5, <2>6, <2>7 DEF Register!CallBegins, CallOf
    <2> QED
      BY <2>8 DEF Register!RegisterNext
  <1>2. CASE Lookup(r) /\ entry # None
    <2>1. /\ get[r].at = "lookup" /\ UNCHANGED <<db, covered>>
          /\ get'[r].at = "idle" /\ get'[r].from = get[r].from /\ get'[r].value = entry
          /\ \A w \in Readers \ {r} : get'[w] = get[w]
      BY <1>0, <1>2 DEF Lookup, GetType
    <2>2. entry \in 0..db /\ get[r].from <= entry
      BY <1>0, <1>2 DEF TableOK, CoverOK, GetType
    <2>3. Register!CallsReturn({r})
      BY <2>1, <2>2, Returns
    <2> QED
      BY <2>3 DEF Register!RegisterNext
  <1>3. CASE \/ Lookup(r) /\ entry = None
             \/ Join(r) \/ Lead(r) \/ Fetch(r) \/ Store(r)
    <2>1. /\ UNCHANGED <<db, covered>>
          /\ get[r].at # "idle" /\ get'[r].at # "idle" /\ get'[r].from = get[r].from
          /\ \A w \in Readers \ {r} : get'[w] = get[w]
      BY <1>0, <1>3 DEF Lookup, Join, Lead, Fetch, Store, GetType
    <2> QED
      BY <2>1, Stutters
  <1>4. CASE Close(r)
    <2>a. PICK Done : Done = WaitingFor(r) \cup {r}
      OBVIOUS
    <2>b. PICK v : v = get[r].value
      OBVIOUS
    <2>1. /\ get[r].at = "closing" /\ UNCHANGED <<db, covered>>
          /\ get' = [w \in Readers |->
               IF w \in Done THEN [get[w] EXCEPT !.at = "idle", !.value = v] ELSE get[w]]
      BY <1>4, <2>a, <2>b DEF Close
    <2>2. Done \in SUBSET Readers /\ \A w \in Done : get[w].at # "idle"
      <3>1. \A w \in WaitingFor(r) : w \in Readers /\ get[w].at = "waiting"
        BY DEF WaitingFor
      <3> QED
        BY <2>1, <2>a, <3>1
    <2>3. v \in (0..db) \cup {Failed}
      <3>1. v \in Nat \cup {Failed}
        BY <1>0, <2>b DEF GetType, Answers
      <3>2. v # Failed => v <= db
        BY <2>1, <2>b DEF AnswerOK, Answered
      <3> QED
        BY <1>0, <3>1, <3>2
    <2>4. \A w \in Done : v = Failed \/ get[w].from <= v
      BY <2>1, <2>a, <2>b DEF AnswerOK, Answered, WaitingFor
    <2>5. \A w \in Done : get'[w].at = "idle" /\ get'[w].from = get[w].from /\ get'[w].value = v
      <3>1. \A w \in Done : /\ get'[w] = [get[w] EXCEPT !.at = "idle", !.value = v]
                         /\ get[w] \in GetType
        BY <1>0, <2>1, <2>2
      <3> QED
        BY <3>1 DEF GetType
    <2>6. \A w \in Readers \ Done : get'[w] = get[w]
      BY <2>1
    <2>7. Register!CallsReturn(Done)
      BY <2>1, <2>2, <2>3, <2>4, <2>5, <2>6, Returns
    <2> QED
      BY <2>2, <2>7 DEF Register!RegisterNext
  <1>5. CASE GiveUp(r)
    <2>1. /\ get[r].at = "waiting" /\ UNCHANGED <<db, covered>>
          /\ get'[r].at = "idle" /\ get'[r].from = get[r].from /\ get'[r].value = get[r].value
          /\ \A w \in Readers \ {r} : get'[w] = get[w]
      BY <1>0, <1>5 DEF GiveUp, GetType
    <2>2. get[r].value = Failed
      BY <2>1 DEF AnswerOK
    <2>3. Register!CallsReturn({r})
      BY <2>1, <2>2, Returns
    <2> QED
      BY <2>3 DEF Register!RegisterNext
  <1> QED
    BY <1>1, <1>2, <1>3, <1>4, <1>5 DEF ReaderStep

LEMMA StepRefines ==
  KeyedInv /\ KeyedInv' /\ [KeyedNext]_keyedVars => [Register!RegisterNext]_Register!registerVars
  <1> SUFFICES ASSUME KeyedInv, KeyedInv', [KeyedNext]_keyedVars
               PROVE  [Register!RegisterNext]_Register!registerVars
    OBVIOUS
  <1>1. ASSUME NEW r \in Readers, ReaderStep(r)
        PROVE  [Register!RegisterNext]_Register!registerVars
    BY <1>1, ReaderRefines
  <1>2. ASSUME NEW i \in Invalidators, Clear(i)
        PROVE  [Register!RegisterNext]_Register!registerVars
    <2>1. /\ covered \in Nat /\ db \in Nat /\ clearing[i] \in Nat
          /\ clearing[i] <= db /\ covered <= db
      BY <1>2, NoneApart DEF Clear, KeyedInv, KeyedTypeOK, CoverOK
    <2>2. covered' \in covered..db /\ UNCHANGED <<db, get>>
      BY <1>2, <2>1 DEF Clear
    <2>3. Register!RaiseFloor
      BY <2>2 DEF Register!RaiseFloor
    <2> QED
      BY <2>3 DEF Register!RegisterNext
  <1>3. ASSUME Write PROVE [Register!RegisterNext]_Register!registerVars
    BY <1>3 DEF Write, Register!WriteNewer, Register!RegisterNext
  <1>4. ASSUME Expire \/ UNCHANGED keyedVars \/ \E i \in Invalidators : Bump(i)
        PROVE  UNCHANGED Register!registerVars
    BY <1>4, Stutters DEF Expire, Bump, keyedVars
  <1> QED
    BY <1>1, <1>2, <1>3, <1>4 DEF KeyedNext

\* KeyedCache implements the register of fresh answers: a Get that begins after
\* Invalidate returned never answers with an older row, whether it finds the table
\* filled, joins a load or runs one (cache.go: "直接拿到失效后的数据").
THEOREM KeyedImplementsRegister == KeyedSpec => GetsAreFresh
  BY RegisterInit, KeyedInvariant, StepRefines, PTL
  DEF KeyedSpec, GetsAreFresh, Register!RegisterSpec

-----------------------------------------------------------------------------
(* AuthStore: the table of keys beside a table of users, swept by one Invalidate. *)

\* Whatever the table of users does, the table of keys takes a step of its own or none.
LEMMA StepOfTheKeys == [AuthNext]_authVars => [KeyedNext]_keyedVars
  <1> SUFFICES ASSUME [AuthNext]_authVars PROVE [KeyedNext]_keyedVars
    OBVIOUS
  <1>1. ASSUME NEW r \in Readers, ResolveAPIKey(r) \/ ResolveStep(r)
        PROVE  KeyedNext
    <2>1. ReaderStep(r)
      BY <1>1 DEF ResolveAPIKey, ResolveStep, ReaderStep
    <2> QED
      BY <2>1 DEF KeyedNext
  <1>2. ASSUME NEW r \in Readers, Remember(r) \/ ReadUser(r) \/ KeepUser(r)
        PROVE  UNCHANGED keyedVars
    BY <1>2 DEF Remember, ReadUser, KeepUser
  <1>3. ASSUME NEW i \in Invalidators, InvalidateKeys(i)
        PROVE  KeyedNext
    BY <1>3 DEF InvalidateKeys, KeyedNext
  <1>4. ASSUME NEW i \in Invalidators, ClearUsers(i)
        PROVE  UNCHANGED keyedVars
    BY <1>4 DEF ClearUsers
  <1>5. CASE Write \/ Expire
    BY <1>5 DEF KeyedNext
  <1>6. CASE DropUser \/ UNCHANGED authVars
    BY <1>6 DEF DropUser, authVars
  <1> QED
    BY <1>1, <1>2, <1>3, <1>4, <1>5, <1>6 DEF AuthNext

\* guard.AuthStore: resolving a key never answers with a key older than an Invalidate
\* that returned, although the same Invalidate sweeps the users after the keys and a user
\* found with a key is stored after the answer (adapters_store.go ResolveAPIKey,
\* Invalidate); the table of users has no such promise (UsersAreFresh).
THEOREM ResolvedKeysAreFresh == AuthSpec => GetsAreFresh
  <1>1. AuthInit => KeyedInit
    BY DEF AuthInit
  <1>2. AuthSpec => KeyedSpec
    BY <1>1, StepOfTheKeys, PTL DEF AuthSpec, KeyedSpec
  <1> QED
    BY <1>2, KeyedImplementsRegister, PTL


-----------------------------------------------------------------------------
(* ValueCache: the cell of one value. *)

AskStates == {"idle", "waiting", "loading", "loaded", "closing"}

AskType == [at : AskStates, from : Nat, leader : Askers \cup {NoValue}, guard : Nat,
            value : Nat \cup {LoadError}]

ValueTypeOK ==
  /\ setting \in Nat /\ guard \in Nat /\ known \in Nat /\ lapsed \in BOOLEAN
  /\ held \in Nat \cup {NoValue}
  /\ flight \in Askers \cup {NoValue}
  /\ ask \in [Askers -> AskType]

\* The cell is as new as the last invalidation, which the database is too.
CellOK == known <= setting /\ (held # NoValue => known <= held)

\* A load may fill the cell only with what is as new as the last invalidation.
CarriedOK(c) ==
  /\ c.at \in {"loading", "loaded"} => c.guard <= guard
  /\ c.at = "loaded" /\ c.value # LoadError /\ c.guard = guard => known <= c.value

\* Who joined a load is known by its leader; everybody else has what is new enough for
\* his call.
OwnOK(c) ==
  /\ c.from <= known
  /\ c.at = "waiting" => c.leader # NoValue
  /\ c.at \in {"loading", "loaded", "closing"} => c.leader = NoValue
  /\ c.at \in {"idle", "loaded", "closing"} /\ c.value # LoadError /\ c.leader = NoValue
       => c.from <= c.value

CallOK(c) == CarriedOK(c) /\ OwnOK(c)

ValueInv == ValueTypeOK /\ CellOK /\ \A r \in Askers : CallOK(ask[r])

LEMMA NoValueApart ==
  NoValue \notin Nat /\ LoadError \notin Nat /\ NoValue # LoadError /\ NoValue \notin Askers
  BY ValueAssumption

LEMMA ValueInitInv == ValueInit => ValueInv
  <1> SUFFICES ASSUME ValueInit PROVE ValueInv
    OBVIOUS
  <1>1. Asking \in AskType
    BY DEF Asking, AskType, AskStates
  <1>2. CallOK(Asking)
    BY DEF ValueInit, CallOK, CarriedOK, OwnOK, Asking
  <1>3. ask \in [Askers -> AskType] /\ \A r \in Askers : ask[r] = Asking
    BY <1>1 DEF ValueInit
  <1>4. ValueTypeOK /\ CellOK
    <2>1. lapsed \in BOOLEAN
      BY DEF ValueInit
    <2> QED
      BY <1>3, <2>1 DEF ValueInit, ValueTypeOK, CellOK
  <1> QED
    BY <1>2, <1>3, <1>4 DEF ValueInv

\* A step that changes one call, and neither the version nor what is covered, has to show
\* that call and the cell in order.
LEMMA OneCall ==
  ASSUME ValueInv, ValueTypeOK', CellOK', NEW r \in Askers, UNCHANGED <<guard, known>>,
         \A w \in Askers \ {r} : ask'[w] = ask[w], CallOK(ask[r])'
  PROVE  ValueInv'
  <1>1. ASSUME NEW w \in Askers PROVE CallOK(ask[w])'
    <2>1. CASE w = r
      BY <2>1
    <2>2. CASE w # r
      <3>1. ask'[w] = ask[w] /\ CallOK(ask[w])
        BY <2>2 DEF ValueInv
      <3> QED
        BY <3>1 DEF CallOK, CarriedOK, OwnOK
    <2> QED
      BY <2>1, <2>2
  <1> QED
    BY <1>1 DEF ValueInv

LEMMA ValueGet == ASSUME ValueInv, NEW r \in Askers, Get(r) PROVE ValueInv'
  <1> USE DEF ValueInv
  <1> DEFINE begun == [Asking EXCEPT !.from = known]
             hit == held # NoValue /\ ~lapsed
             c == IF hit THEN [begun EXCEPT !.value = held]
                  ELSE IF flight # NoValue THEN [begun EXCEPT !.at = "waiting", !.leader = flight]
                  ELSE [begun EXCEPT !.at = "loading", !.guard = guard]
  <1>0. /\ known \in Nat /\ guard \in Nat /\ held \in Nat \cup {NoValue}
        /\ flight \in Askers \cup {NoValue} /\ ask \in [Askers -> AskType]
    BY DEF ValueTypeOK
  <1>1. begun = [at |-> "idle", from |-> known, leader |-> NoValue, guard |-> 0, value |-> LoadError]
    BY DEF Asking
  <1>2. c \in AskType
    <2>1. begun \in AskType
      BY <1>0, <1>1 DEF AskType, AskStates
    <2>2. CASE hit
      BY <1>0, <2>1, <2>2 DEF AskType
    <2>3. CASE ~hit /\ flight # NoValue
      <3>1. [begun EXCEPT !.at = "waiting", !.leader = flight] \in AskType
        BY <1>0, <2>1 DEF AskType, AskStates
      <3> QED
        BY <2>3, <3>1
    <2>4. CASE ~hit /\ flight = NoValue
      <3>1. [begun EXCEPT !.at = "loading", !.guard = guard] \in AskType
        BY <1>0, <2>1 DEF AskType, AskStates
      <3> QED
        BY <2>4, <3>1
    <2> QED
      BY <2>2, <2>3, <2>4
  <1>3. c.from = known
    BY <1>1
  <1>4. /\ c.at = "idle" => c.value = held /\ hit
        /\ c.at = "waiting" => c.leader # NoValue
        /\ c.at = "loading" => c.leader = NoValue /\ c.guard = guard
        /\ c.at \in {"idle", "waiting", "loading"}
    BY <1>1
  <1>5. CallOK(c)
    <2>1. CarriedOK(c)
      BY <1>0, <1>4 DEF CarriedOK
    <2>2. OwnOK(c)
      BY <1>0, <1>3, <1>4 DEF OwnOK, CellOK
    <2> QED
      BY <2>1, <2>2 DEF CallOK
  <1> HIDE DEF begun, hit, c
  <1>6. /\ ask' = [ask EXCEPT ![r] = c] /\ UNCHANGED <<setting, held, lapsed, guard, known>>
        /\ flight' \in {flight, r}
    BY DEF Get, begun, hit, c
  <1>7. ValueTypeOK'
    BY <1>0, <1>2, <1>6 DEF ValueTypeOK
  <1>8. CellOK'
    BY <1>6 DEF CellOK
  <1>9. ask'[r] = c /\ \A w \in Askers \ {r} : ask'[w] = ask[w]
    BY <1>0, <1>6
  <1>10. CallOK(ask[r])'
    BY <1>5, <1>6, <1>9 DEF CallOK, CarriedOK, OwnOK
  <1> QED
    BY <1>6, <1>7, <1>8, <1>9, <1>10, OneCall

LEMMA ValueLoad == ASSUME ValueInv, NEW r \in Askers, Load(r) PROVE ValueInv'
  <1> USE DEF ValueInv
  <1>0. /\ setting \in Nat /\ known \in Nat /\ guard \in Nat /\ ask \in [Askers -> AskType]
        /\ known <= setting
    BY DEF ValueTypeOK, CellOK
  <1>1. PICK v \in {setting, LoadError} : ask' = [ask EXCEPT ![r].at = "loaded", ![r].value = v]
    BY DEF Load
  <1>2. UNCHANGED <<setting, held, lapsed, guard, flight, known>> /\ ask[r].at = "loading"
    BY DEF Load
  <1>3. /\ ask' \in [Askers -> AskType]
        /\ ask'[r] = [ask[r] EXCEPT !.at = "loaded", !.value = v]
        /\ \A w \in Askers \ {r} : ask'[w] = ask[w]
    BY <1>0, <1>1 DEF AskType, AskStates
  <1>4. /\ ask'[r].at = "loaded" /\ ask'[r].value = v /\ ask'[r].from = ask[r].from
        /\ ask'[r].leader = ask[r].leader /\ ask'[r].guard = ask[r].guard
    BY <1>0, <1>3 DEF AskType
  <1>5. CallOK(ask[r])
    OBVIOUS
  <1>6. CallOK(ask[r])'
    <2>1. ask[r].from \in Nat /\ ask[r].guard \in Nat
      BY <1>0 DEF AskType
    <2>2. ask[r].from <= setting
      BY <1>0, <1>5, <2>1 DEF CallOK, OwnOK
    <2> QED
      BY <1>0, <1>2, <1>4, <1>5, <2>1, <2>2 DEF CallOK, CarriedOK, OwnOK
  <1>7. ValueTypeOK' /\ CellOK'
    BY <1>2, <1>3 DEF ValueTypeOK, CellOK
  <1> QED
    BY <1>2, <1>3, <1>6, <1>7, OneCall

LEMMA ValueFinish == ASSUME ValueInv, NEW r \in Askers, Finish(r) PROVE ValueInv'
  <1> USE DEF ValueInv
  <1> DEFINE keep == ask[r].value # LoadError /\ ask[r].guard = guard
             v == IF ask[r].value = LoadError /\ held # NoValue THEN held ELSE ask[r].value
  <1>0. /\ known \in Nat /\ guard \in Nat /\ ask \in [Askers -> AskType]
        /\ held \in Nat \cup {NoValue}
    BY DEF ValueTypeOK
  <1>1. CallOK(ask[r]) /\ ask[r].at = "loaded" /\ UNCHANGED <<setting, guard, known>>
    BY DEF Finish
  <1>2. /\ ask' = [ask EXCEPT ![r].at = "closing", ![r].value = v]
        /\ flight' = NoValue /\ lapsed' \in BOOLEAN
        /\ held' = IF keep THEN ask[r].value ELSE held
    BY <1>0 DEF Finish
  <1>3. v \in Nat \cup {LoadError}
    BY <1>0 DEF AskType
  <1>4. v # LoadError => ask[r].from <= v
    <2>1. ask[r].from <= known /\ ask[r].from \in Nat
      BY <1>0, <1>1 DEF CallOK, OwnOK, AskType
    <2>2. CASE ask[r].value = LoadError
      BY <1>0, <2>1, <2>2 DEF CellOK
    <2>3. CASE ask[r].value # LoadError
      BY <1>1, <2>3 DEF CallOK, OwnOK
    <2> QED
      BY <2>2, <2>3
  <1>5. keep => known <= ask[r].value /\ ask[r].value \in Nat
    BY <1>0, <1>1 DEF CallOK, CarriedOK, AskType
  <1> HIDE DEF v
  <1>6. /\ ask' \in [Askers -> AskType]
        /\ ask'[r] = [ask[r] EXCEPT !.at = "closing", !.value = v]
        /\ \A w \in Askers \ {r} : ask'[w] = ask[w]
    BY <1>0, <1>2, <1>3 DEF AskType, AskStates
  <1>7. /\ ask'[r].at = "closing" /\ ask'[r].value = v /\ ask'[r].from = ask[r].from
        /\ ask'[r].leader = ask[r].leader
    BY <1>0, <1>6 DEF AskType
  <1>8. CallOK(ask[r])'
    BY <1>1, <1>4, <1>7 DEF CallOK, CarriedOK, OwnOK
  <1>9. ValueTypeOK' /\ CellOK'
    BY <1>0, <1>1, <1>2, <1>5, <1>6 DEF ValueTypeOK, CellOK
  <1> QED
    BY <1>1, <1>6, <1>8, <1>9, OneCall

\* Who waited gets the value of a leader and keeps the leader's name; the leader's own
\* call ends with what it had.
LEMMA ValueClose == ASSUME ValueInv, NEW r \in Askers, CloseFlight(r) PROVE ValueInv'
  <1> USE DEF ValueInv
  <1>0. ask \in [Askers -> AskType]
    BY DEF ValueTypeOK
  <1> DEFINE ends(w) == w = r \/ (ask[w].at = "waiting" /\ ask[w].leader = r)
             done(w) == [ask[w] EXCEPT !.at = "idle", !.value = ask[r].value]
  <1>1. /\ ask[r].at = "closing" /\ UNCHANGED <<setting, held, lapsed, guard, flight, known>>
        /\ ask' = [w \in Askers |-> IF ends(w) THEN done(w) ELSE ask[w]]
    BY DEF CloseFlight
  <1>2. ASSUME NEW w \in Askers
        PROVE  /\ done(w) \in AskType /\ done(w).at = "idle" /\ done(w).value = ask[r].value
               /\ done(w).from = ask[w].from /\ done(w).leader = ask[w].leader
    BY <1>0 DEF AskType, AskStates
  <1> HIDE DEF done
  <1>3. ValueTypeOK' /\ CellOK'
    BY <1>0, <1>1, <1>2 DEF ValueTypeOK, CellOK
  <1>4. ASSUME NEW w \in Askers PROVE CallOK(ask[w])'
    <2>1. CallOK(ask[w]) /\ CallOK(ask[r])
      OBVIOUS
    <2>2. CASE ~ends(w)
      BY <1>1, <2>1, <2>2 DEF CallOK, CarriedOK, OwnOK
    <2>3. CASE ends(w)
      <3>1. ask'[w] = done(w)
        BY <1>1, <2>3
      <3>2. ask[w].from <= known
        BY <2>1 DEF CallOK, OwnOK
      <3>3. w # r => ask[w].leader # NoValue
        BY <2>3, <2>1 DEF CallOK, OwnOK
      <3>4. ask[r].value # LoadError => ask[r].from <= ask[r].value
        BY <1>1, <2>1 DEF CallOK, OwnOK
      <3> QED
        BY <1>1, <1>2, <3>1, <3>2, <3>3, <3>4 DEF CallOK, CarriedOK, OwnOK
    <2> QED
      BY <2>2, <2>3
  <1> QED
    BY <1>3, <1>4

LEMMA ValueLeave == ASSUME ValueInv, NEW r \in Askers, Leave(r) PROVE ValueInv'
  <1> USE DEF ValueInv
  <1>0. ask \in [Askers -> AskType]
    BY DEF ValueTypeOK
  <1>1. /\ ask[r].at = "waiting" /\ UNCHANGED <<setting, held, lapsed, guard, flight, known>>
        /\ ask' \in [Askers -> AskType]
        /\ ask'[r] = [ask[r] EXCEPT !.at = "idle"]
        /\ \A w \in Askers \ {r} : ask'[w] = ask[w]
    BY <1>0 DEF Leave, AskType, AskStates
  <1>2. ask'[r].at = "idle" /\ ask'[r].from = ask[r].from /\ ask'[r].leader = ask[r].leader
    BY <1>0, <1>1 DEF AskType
  <1>3. CallOK(ask[r])
    OBVIOUS
  <1>4. CallOK(ask[r])'
    BY <1>1, <1>2, <1>3 DEF CallOK, CarriedOK, OwnOK
  <1>5. ValueTypeOK' /\ CellOK'
    BY <1>1 DEF ValueTypeOK, CellOK
  <1> QED
    BY <1>1, <1>4, <1>5, OneCall

\* The version runs ahead of every load that is under way: none of them fills the cell.
LEMMA ValueInvalidate == ASSUME ValueInv, Invalidate PROVE ValueInv'
  <1> USE DEF ValueInv
  <1>0. /\ setting \in Nat /\ guard \in Nat /\ known \in Nat /\ known <= setting
        /\ ask \in [Askers -> AskType]
    BY DEF ValueTypeOK, CellOK
  <1>1. /\ held' = NoValue /\ lapsed' = FALSE /\ guard' = guard + 1 /\ known' = setting
        /\ UNCHANGED <<setting, flight, ask>>
    BY DEF Invalidate
  <1>2. ValueTypeOK' /\ CellOK'
    <2>1. lapsed' \in BOOLEAN
      BY <1>1
    <2> QED
      BY <1>0, <1>1, <2>1 DEF ValueTypeOK, CellOK
  <1>3. ASSUME NEW w \in Askers PROVE CallOK(ask[w])'
    <2>1. CallOK(ask[w]) /\ ask[w].guard \in Nat /\ ask[w].from \in Nat
      BY <1>0 DEF AskType
    <2>2. CarriedOK(ask[w])'
      BY <1>0, <1>1, <2>1 DEF CallOK, CarriedOK
    <2>3. OwnOK(ask[w])'
      BY <1>0, <1>1, <2>1 DEF CallOK, OwnOK
    <2> QED
      BY <2>2, <2>3 DEF CallOK
  <1> QED
    BY <1>2, <1>3

LEMMA ValueRest == ASSUME ValueInv, Change \/ Lapse \/ UNCHANGED valueVars PROVE ValueInv'
  <1> USE DEF ValueInv
  <1>0. setting \in Nat /\ known \in Nat /\ known <= setting
    BY DEF ValueTypeOK, CellOK
  <1>1. /\ setting' \in {setting, setting + 1}
        /\ UNCHANGED <<held, guard, flight, ask, known>>
    BY DEF Change, Lapse, valueVars
  <1>a. lapsed' \in BOOLEAN
    BY DEF Change, Lapse, valueVars, ValueTypeOK
  <1>2. ValueTypeOK' /\ CellOK'
    BY <1>0, <1>1, <1>a DEF ValueTypeOK, CellOK
  <1>3. \A w \in Askers : CallOK(ask[w])'
    BY <1>1 DEF CallOK, CarriedOK, OwnOK
  <1> QED
    BY <1>2, <1>3

LEMMA ValueStepInv == ValueInv /\ [ValueNext]_valueVars => ValueInv'
  BY ValueGet, ValueLoad, ValueFinish, ValueClose, ValueLeave, ValueInvalidate, ValueRest
  DEF ValueNext, AskerStep

LEMMA ValueInvSays == ValueInv => OnlyAJoinIsStale
  BY DEF ValueInv, ValueTypeOK, AskType, CallOK, OwnOK, OnlyAJoinIsStale

\* Behind an invalidation only those who joined a load that was already under way can
\* get an older value: the cell never holds one, and an error brings none back
\* (ValueCache.Get, ValueCache.Invalidate).
THEOREM CellStaysFresh == ValueSpec => []OnlyAJoinIsStale
  BY ValueInitInv, ValueStepInv, ValueInvSays, PTL DEF ValueSpec

\* Every step of the domain of a process is a step of its cell or leaves the cell alone.
LEMMA StepOfTheCell == [SyncNext]_syncVars => [ValueNext]_valueVars
  <1> SUFFICES ASSUME [SyncNext]_syncVars PROVE [ValueNext]_valueVars
    OBVIOUS
  <1>1. CASE Commit  BY <1>1 DEF Commit, ValueNext
  <1>2. CASE Broadcast  BY <1>2 DEF Broadcast
  <1>3. ASSUME NEW g \in Regs, Callback(g) PROVE [ValueNext]_valueVars
    BY <1>3 DEF Callback, ValueNext
  <1>4. CASE Lapse \/ \E r \in Askers : AskerStep(r)  BY <1>4 DEF ValueNext
  <1>5. CASE UNCHANGED syncVars  BY <1>5 DEF syncVars
  <1> QED BY <1>1, <1>2, <1>3, <1>4, <1>5 DEF SyncNext

\* cfgsync.go Registry.Bind: the bus drives the cell only through its operations, so the
\* cell keeps its promise whatever the connection loses and repeats.
THEOREM DomainStaysFresh == SyncSpec => []OnlyAJoinIsStale
  <1>1. SyncInit => ValueInit  BY DEF SyncInit
  <1>2. SyncSpec => ValueSpec  BY <1>1, StepOfTheCell, PTL DEF SyncSpec, ValueSpec
  <1> QED BY <1>2, CellStaysFresh, PTL
=============================================================================
