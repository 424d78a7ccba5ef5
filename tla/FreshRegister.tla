----------------------------- MODULE FreshRegister -----------------------------
(* What a cache of configuration promises, without saying how: the database holds
   versions 0, 1, 2, ...; an invalidation that returned raises the floor; a read
   answers with some version between the floor at its call and the database at its
   return, or fails.  cfgsync.KeyedCache implements it (module KeyedCache). *)
EXTENDS Integers

CONSTANTS Readers, Failed

VARIABLES
  newest,   \* the newest version in the database
  floor,    \* the newest version that a returned invalidation covers
  call      \* per reader: a call is open, the floor when it began, the last answer

registerVars == <<newest, floor, call>>

RegisterInit ==
  /\ newest = 0 /\ floor = 0
  /\ call = [r \in Readers |-> [open |-> FALSE, from |-> 0, answer |-> Failed]]

WriteNewer == newest' = newest + 1 /\ UNCHANGED <<floor, call>>

\* An invalidation returns; what it covers was written before it was called.
RaiseFloor == floor' \in floor..newest /\ UNCHANGED <<newest, call>>

CallBegins(r) ==
  /\ ~call[r].open
  /\ call' = [call EXCEPT ![r] = [open |-> TRUE, from |-> floor, answer |-> Failed]]
  /\ UNCHANGED <<newest, floor>>

\* One load answers everybody who waits for it: the calls in R return together.
CallsReturn(R) ==
  /\ \A r \in R : call[r].open
  /\ \E v \in (0..newest) \cup {Failed} :
       /\ v = Failed \/ \A r \in R : call[r].from <= v
       /\ call' = [r \in Readers |->
            IF r \in R THEN [call[r] EXCEPT !.open = FALSE, !.answer = v] ELSE call[r]]
  /\ UNCHANGED <<newest, floor>>

RegisterNext ==
  \/ WriteNewer \/ RaiseFloor
  \/ \E r \in Readers : CallBegins(r)
  \/ \E R \in SUBSET Readers : CallsReturn(R)

RegisterSpec == RegisterInit /\ [][RegisterNext]_registerVars
================================================================================
