-------------------------- MODULE SerialAttempts_proofs --------------------------
(* The serial chain: what its calls say of the attempts it made is true, every call it opened
   has come to an end when it returns, and it holds a place at every provider it uses. *)
EXTENDS SerialAttempts, FiniteSetTheorems, TLAPS

-----------------------------------------------------------------------------
(* The places of the providers: what the scripts do to one provider's sorted set. *)

Members == Callers \X Nat
Tables == UNION {[S -> Nat] : S \in SUBSET Members}

SlotsOK ==
  /\ places \in [Vendors -> Tables]
  /\ refs = [v \in Vendors |-> DOMAIN places[v]]
  /\ slotTime \in Nat
  /\ \A v \in Vendors :
       /\ IsFiniteSet(DOMAIN places[v])
       /\ SlotLimit[v] > 0 => Cardinality(DOMAIN places[v]) <= SlotLimit[v]

LEMMA TableIs ==
  ASSUME NEW T \in Tables
  PROVE  DOMAIN T \in SUBSET Members /\ T \in [DOMAIN T -> Nat]
  BY DEF Tables

LEMMA TableMade ==
  ASSUME NEW S \in SUBSET Members, NEW T \in [S -> Nat]
  PROVE  T \in Tables /\ DOMAIN T = S
  BY DEF Tables

\* A session has a member that is not in the table yet, whatever was left behind there.
LEMMA NewMemberIsNew ==
  ASSUME SlotsOK, NEW v \in Vendors, NEW c \in Callers
  PROVE  /\ NewMember(v, c) \in Members /\ NewMember(v, c) \notin DOMAIN places[v]
         /\ NewMember(v, c)[1] = c
  <1> DEFINE D == DOMAIN places[v]
             k == Cardinality(D)
  <1>1. IsFiniteSet(D) /\ k \in Nat
    BY FS_CardinalityType DEF SlotsOK
  <1>2. \E n \in 0 .. k : <<c, n>> \notin D
    <2> SUFFICES ASSUME \A n \in 0 .. k : <<c, n>> \in D PROVE FALSE
      OBVIOUS
    <2> DEFINE f == [n \in 0 .. k |-> <<c, n>>]
    <2>1. f \in [0 .. k -> D]
      OBVIOUS
    <2>2. IsFiniteSet(0 .. k) /\ Cardinality(0 .. k) = k + 1
      BY <1>1, FS_Interval
    <2>3. Cardinality(D) < Cardinality(0 .. k)
      BY <1>1, <2>2
    <2>4. \A x \in 0 .. k : f[x] = <<c, x>>
      OBVIOUS
    <2> HIDE DEF f, k, D
    <2>5. \E x, y \in 0 .. k : x # y /\ f[x] = f[y]
      BY <1>1, <2>1, <2>2, <2>3, FS_PigeonHole
    <2> QED
      BY <2>4, <2>5
  <1>3. PICK n \in 0 .. k : NewMember(v, c) = <<c, n>> /\ <<c, n>> \notin D
    BY <1>2 DEF NewMember
  <1> QED
    BY <1>1, <1>3 DEF Members

LEMMA SweptIs ==
  ASSUME SlotsOK, NEW v \in Vendors
  PROVE  /\ Lapsed(v) \in SUBSET DOMAIN places[v]
         /\ DOMAIN Swept(v) = DOMAIN places[v] \ Lapsed(v)
         /\ Swept(v) \in Tables
         /\ \A m \in DOMAIN Swept(v) : Swept(v)[m] = places[v][m]
         /\ IsFiniteSet(DOMAIN Swept(v)) /\ Cardinality(DOMAIN Swept(v)) \in Nat
         /\ Cardinality(DOMAIN Swept(v)) <= Cardinality(DOMAIN places[v])
  <1>1. places[v] \in Tables /\ IsFiniteSet(DOMAIN places[v])
    BY DEF SlotsOK
  <1>2. Lapsed(v) \in SUBSET DOMAIN places[v]
    BY DEF Lapsed
  <1>3. Swept(v) = [m \in DOMAIN places[v] \ Lapsed(v) |-> places[v][m]]
    BY DEF Swept, Restrict
  <1>4. Swept(v) \in Tables
    <2>1. DOMAIN places[v] \ Lapsed(v) \in SUBSET Members
      BY <1>1, TableIs
    <2>2. Swept(v) \in [DOMAIN places[v] \ Lapsed(v) -> Nat]
      BY <1>1, <1>3, TableIs
    <2> QED
      BY <2>1, <2>2, TableMade
  <1> QED
    BY <1>1, <1>2, <1>3, <1>4, FS_Subset, FS_CardinalityType

\* A provider's table is replaced by one that is finite and not larger than its limit.
LEMMA TableReplaced ==
  ASSUME SlotsOK, NEW v \in Vendors, NEW T \in Tables, IsFiniteSet(DOMAIN T),
         SlotLimit[v] > 0 => Cardinality(DOMAIN T) <= SlotLimit[v],
         places' = [places EXCEPT ![v] = T],
         refs' = [refs EXCEPT ![v] = DOMAIN T],
         slotTime' \in Nat
  PROVE  /\ SlotsOK' /\ places'[v] = T
         /\ \A w \in Vendors \ {v} : places'[w] = places[w]
  <1>1. places' \in [Vendors -> Tables] /\ places'[v] = T
    BY DEF SlotsOK
  <1>2. \A w \in Vendors \ {v} : places'[w] = places[w]
    BY DEF SlotsOK
  <1>3. refs' = [w \in Vendors |-> DOMAIN places'[w]]
    <2>1. refs' = [w \in Vendors |-> IF w = v THEN DOMAIN T ELSE DOMAIN places[w]]
      BY DEF SlotsOK
    <2> QED
      BY <1>1, <1>2, <2>1
  <1>4. ASSUME NEW w \in Vendors
        PROVE  /\ IsFiniteSet(DOMAIN places'[w])
               /\ SlotLimit[w] > 0 => Cardinality(DOMAIN places'[w]) <= SlotLimit[w]
    BY <1>1, <1>2 DEF SlotsOK
  <1> QED
    BY <1>1, <1>2, <1>3, <1>4 DEF SlotsOK

\* check-and-track: what lapsed is swept, and the member is in, unless the house is full.
LEMMA TrackSays ==
  ASSUME SlotsOK, NEW v \in Vendors, NEW m \in Members, CheckAndTrack(v, m),
         UNCHANGED slotTime
  PROVE  /\ SlotsOK'
         /\ \A w \in Vendors \ {v} : places'[w] = places[w]
         /\ DOMAIN places'[v] = IF Full(v) THEN DOMAIN Swept(v) ELSE DOMAIN Swept(v) \union {m}
         /\ \A x \in DOMAIN Swept(v) \ {m} : places'[v][x] = places[v][x]
         /\ ~Full(v) => places'[v][m] = slotTime
         /\ Full(v) /\ m \in DOMAIN Swept(v) => places'[v][m] = places[v][m]
  <1> DEFINE T == IF Full(v) THEN Swept(v)
                  ELSE [x \in DOMAIN Swept(v) \union {m} |->
                          IF x = m THEN slotTime ELSE places[v][x]]
             S == DOMAIN Swept(v)
  <1>0. /\ S = DOMAIN places[v] \ Lapsed(v) /\ Swept(v) \in Tables
        /\ \A x \in S : Swept(v)[x] = places[v][x] /\ places[v][x] \in Nat
        /\ IsFiniteSet(S) /\ Cardinality(S) \in Nat
        /\ Cardinality(S) <= Cardinality(DOMAIN places[v])
    <2>1. \A x \in DOMAIN places[v] : places[v][x] \in Nat
      BY TableIs DEF SlotsOK
    <2> QED
      BY <2>1, SweptIs
  <1>1. SlotLimit[v] \in Nat /\ Cardinality(DOMAIN places[v]) \in Nat
    BY SlotAssumption, FS_CardinalityType DEF SlotsOK
  <1>2. slotTime \in Nat /\ S \in SUBSET Members
    BY <1>0, TableIs DEF SlotsOK
  <1>3. T \in Tables /\ DOMAIN T = IF Full(v) THEN S ELSE S \union {m}
    <2>1. CASE Full(v)
      BY <1>0, <2>1
    <2>2. CASE ~Full(v)
      <3>1. S \union {m} \in SUBSET Members
        BY <1>2
      <3>2. T \in [S \union {m} -> Nat]
        BY <1>0, <1>2, <2>2
      <3> QED
        BY <2>2, <3>1, <3>2, TableMade
    <2> QED
      BY <2>1, <2>2
  <1>4. /\ \A x \in S \ {m} : T[x] = places[v][x]
        /\ ~Full(v) => T[m] = slotTime
        /\ Full(v) /\ m \in S => T[m] = places[v][m]
    BY <1>0
  <1> HIDE DEF T
  <1>5. /\ IsFiniteSet(DOMAIN T)
        /\ SlotLimit[v] > 0 => Cardinality(DOMAIN T) <= SlotLimit[v]
    <2>1. CASE Full(v)
      <3>1. DOMAIN T = S
        BY <1>3, <2>1
      <3>2. SlotLimit[v] > 0 => Cardinality(DOMAIN places[v]) <= SlotLimit[v]
        BY DEF SlotsOK
      <3> QED
        BY <1>0, <1>1, <3>1, <3>2
    <2>2. CASE ~Full(v)
      <3>1. DOMAIN T = S \union {m}
        BY <1>3, <2>2
      <3>2. IsFiniteSet(S \union {m}) /\ Cardinality(S \union {m}) <= Cardinality(S) + 1
        <4>1. IsFiniteSet(S \union {m})
          BY <1>0, FS_AddElement
        <4>2. Cardinality(S \union {m}) \in {Cardinality(S), Cardinality(S) + 1}
          BY <1>0, FS_AddElement
        <4> QED
          BY <1>0, <4>1, <4>2
      <3>3. SlotLimit[v] > 0 => Cardinality(S) < SlotLimit[v]
        BY <1>0, <1>1, <2>2 DEF Full
      <3>4. Cardinality(S \union {m}) \in Nat
        BY <3>2, FS_CardinalityType
      <3> QED
        BY <1>0, <1>1, <3>1, <3>2, <3>3, <3>4
    <2> QED
      BY <2>1, <2>2
  <1>6. places' = [places EXCEPT ![v] = T]
    BY DEF CheckAndTrack, T
  <1>7. refs' = [refs EXCEPT ![v] = DOMAIN T]
    <2>1. refs[v] = DOMAIN places[v]
      BY DEF SlotsOK
    <2>2. (refs[v] \ Lapsed(v)) \union (IF Full(v) THEN {} ELSE {m}) = DOMAIN T
      BY <1>0, <1>3, <2>1
    <2> QED
      BY <2>2 DEF CheckAndTrack
  <1>8. /\ SlotsOK' /\ places'[v] = T
        /\ \A w \in Vendors \ {v} : places'[w] = places[w]
    BY <1>2, <1>3, <1>5, <1>6, <1>7, TableReplaced
  <1> QED
    BY <1>3, <1>4, <1>8

\* Members are taken out of a provider's table.
LEMMA TakenOut ==
  ASSUME SlotsOK, NEW v \in Vendors, NEW Out,
         places' = [places EXCEPT ![v] = Restrict(@, DOMAIN @ \ Out)],
         refs' = [refs EXCEPT ![v] = @ \ Out], UNCHANGED slotTime
  PROVE  /\ SlotsOK'
         /\ \A w \in Vendors \ {v} : places'[w] = places[w]
         /\ DOMAIN places'[v] = DOMAIN places[v] \ Out
         /\ \A x \in DOMAIN places'[v] : places'[v][x] = places[v][x]
  <1> DEFINE S == DOMAIN places[v] \ Out
             T == [x \in S |-> places[v][x]]
  <1>1. /\ DOMAIN places[v] \in SUBSET Members /\ places[v] \in [DOMAIN places[v] -> Nat]
        /\ IsFiniteSet(DOMAIN places[v]) /\ slotTime \in Nat
    BY TableIs DEF SlotsOK
  <1>2. T \in Tables /\ DOMAIN T = S
    <2>1. S \in SUBSET Members /\ T \in [S -> Nat]
      BY <1>1
    <2> QED
      BY <2>1, TableMade
  <1>3. /\ IsFiniteSet(S) /\ Cardinality(S) <= Cardinality(DOMAIN places[v])
        /\ Cardinality(S) \in Nat /\ Cardinality(DOMAIN places[v]) \in Nat
    BY <1>1, FS_Subset, FS_CardinalityType
  <1>4. SlotLimit[v] > 0 => Cardinality(S) <= SlotLimit[v]
    <2>1. SlotLimit[v] \in Nat
      BY SlotAssumption
    <2>2. SlotLimit[v] > 0 => Cardinality(DOMAIN places[v]) <= SlotLimit[v]
      BY DEF SlotsOK
    <2> QED
      BY <1>3, <2>1, <2>2
  <1>5. places' = [places EXCEPT ![v] = T]
    BY DEF Restrict
  <1>6. refs' = [refs EXCEPT ![v] = DOMAIN T]
    <2>1. refs[v] = DOMAIN places[v]
      BY DEF SlotsOK
    <2> QED
      BY <1>2, <2>1
  <1> HIDE DEF T
  <1>7. /\ SlotsOK' /\ places'[v] = T
        /\ \A w \in Vendors \ {v} : places'[w] = places[w]
    BY <1>1, <1>2, <1>3, <1>4, <1>5, <1>6, TableReplaced
  <1> QED
    BY <1>2, <1>7 DEF T

LEMMA ReleaseSays ==
  ASSUME SlotsOK, NEW v \in Vendors, NEW m, ReleasePlace(v, m), UNCHANGED slotTime
  PROVE  /\ SlotsOK'
         /\ \A w \in Vendors \ {v} : places'[w] = places[w]
         /\ DOMAIN places'[v] = DOMAIN places[v] \ {m}
         /\ \A x \in DOMAIN places'[v] : places'[v][x] = places[v][x]
  <1>1. refs[v] = DOMAIN places[v]
    BY DEF SlotsOK
  <1>2. CASE m \in refs[v]
    BY <1>2, TakenOut DEF ReleasePlace
  <1>3. CASE m \notin refs[v]
    BY <1>1, <1>3 DEF ReleasePlace, SlotsOK
  <1> QED
    BY <1>2, <1>3

-----------------------------------------------------------------------------
(* The loop of one request.  A step of one call touches that call and its own history. *)

Stages == {"idle", "plan", "sent", "stream", "judge", "pause", "choose", "done"}
Round == {"plan", "sent", "judge", "pause"}
Classes == {"provider", "system", "unsupported", "saturated", "input", "abort"}
Endings == Classes \union {"none", "stateful", "exhausted", "plan", "select", "served"}

CallType ==
  [at : Stages, vendor : Vendors \union {NoVendor}, try : Nat, most : Nat,
   fixed : SUBSET Rectifiers, banned : SUBSET Vendors, tried : SUBSET Vendors,
   last : Classes \union {"none"}, gone : BOOLEAN, told : Endings,
   row : Endings \union {"stream"}]
TryType == [n : Nat, fault : BOOLEAN]

SerialTypeOK ==
  /\ call \in [Callers -> CallType]
  /\ tries \in [Callers -> [Vendors -> TryType]]
  /\ blamed \in [Callers -> SUBSET Vendors]

Asked(c) == {v \in Vendors : tries[c][v].n > 0}

\* In a round, the history of the provider is what the counters of the loop say.
RoundOK(c) ==
  call[c].at \in Round =>
    /\ Target(c) \in Vendors \ call[c].banned
    /\ call[c].try >= 1
    /\ c \notin RawCallers => call[c].most >= MaxTries[Target(c)]
    /\ Cardinality(call[c].tried \ {Target(c)}) < MaxSwitches

BeforeOK(c) ==
  call[c].at \in {"plan", "sent"} =>
    /\ tries[c][Target(c)].n = AtMostTries(Target(c), call[c].try - 1)
    /\ call[c].try = 1 => ~tries[c][Target(c)].fault

AfterOK(c) ==
  call[c].at \in {"judge", "pause"} =>
    /\ tries[c][Target(c)].n = AtMostTries(Target(c), call[c].try)
    /\ tries[c][Target(c)].fault <=> call[c].last = "provider"
    /\ call[c].last # "none"

\* Between rounds the last provider is excluded; who is not was never asked.
BetweenOK(c) ==
  /\ call[c].at = "choose" =>
       /\ Target(c) \in call[c].banned
       /\ Cardinality(call[c].tried) <= MaxSwitches
  /\ call[c].at = "idle" => Target(c) = NoVendor /\ call[c].banned = {} /\ call[c].tried = {}
  /\ \A v \in Vendors \ call[c].banned :
       v # Target(c) => tries[c][v].n = 0 /\ ~tries[c][v].fault

\* What counts as tried, and what the loop remembers of it.
TriedOK(c) ==
  /\ call[c].at \notin {"sent", "stream", "done"} => call[c].tried = Asked(c)
  /\ call[c].at = "sent" => call[c].tried = Asked(c) \union {Target(c)}
  /\ call[c].at \notin {"stream", "done"} =>
       call[c].told = "none" /\ (call[c].last = "none" <=> Asked(c) = {})
  /\ call[c].at = "stream" => call[c].told = "served"
  /\ call[c].at = "done" => call[c].told # "none"

\* The promises, for one call.
BlameOK(c) ==
  \A v \in Vendors :
    /\ v \in blamed[c] <=> v \in call[c].banned /\ tries[c][v].fault
    /\ v \in blamed[c] => tries[c][v].n >= MaxTries[v]

ExhaustedOK(c) ==
  call[c].told = "exhausted" =>
    \/ \A v \in Vendors : tries[c][v].n > 0 \/ v \in call[c].banned
    \/ Cardinality(Asked(c)) = MaxSwitches

RowOK(c) ==
  call[c].at = "done" =>
    /\ call[c].row \in {"served", "stream"} <=> call[c].told = "served"
    /\ call[c].told = "stateful" => call[c].banned = Vendors /\ Asked(c) = {}
    /\ call[c].told \in {"exhausted", "input", "abort", "saturated"} => Asked(c) # {}

LoopOK(c) == RoundOK(c) /\ BeforeOK(c) /\ AfterOK(c) /\ BetweenOK(c) /\ TriedOK(c)
PromiseOK(c) == BlameOK(c) /\ ExhaustedOK(c) /\ RowOK(c)

CallsInv == SerialTypeOK /\ \A c \in Callers : LoopOK(c) /\ PromiseOK(c)

LEMMA SerialConstants ==
  /\ NoVendor \notin Vendors /\ MaxSwitches \in Nat /\ MaxSwitches >= 1
  /\ \A v \in Vendors : MaxTries[v] \in Nat /\ MaxTries[v] >= 1
  /\ \A S \in SUBSET Vendors : IsFiniteSet(S) /\ Cardinality(S) \in Nat
  <1>1. \A S \in SUBSET Vendors : IsFiniteSet(S) /\ Cardinality(S) \in Nat
    BY SerialAssumption, FS_Subset, FS_CardinalityType
  <1> QED
    BY <1>1, SerialAssumption

LEMMA Without ==
  ASSUME NEW S \in SUBSET Vendors, NEW v \in Vendors
  PROVE  /\ Cardinality(S \ {v}) <= Cardinality(S)
         /\ Cardinality(S) <= Cardinality(S \ {v}) + 1
  <1>1. IsFiniteSet(S) /\ Cardinality(S) \in Nat
    BY SerialConstants
  <1>2. Cardinality(S \ {v}) = IF v \in S THEN Cardinality(S) - 1 ELSE Cardinality(S)
    BY <1>1, FS_RemoveElement
  <1> QED
    BY <1>1, <1>2

LEMMA CallRanges ==
  /\ "served" \in Endings /\ "stream" \in Endings \union {"stream"} /\ "none" \in Classes \union {"none"}
  /\ "served" \in Endings \union {"stream"}
  /\ Stages = {"idle", "plan", "sent", "stream", "judge", "pause", "choose", "done"}
  BY DEF Endings, Stages

LEMMA SerialInitInv == SerialInit => CallsInv
  <1> SUFFICES ASSUME SerialInit PROVE CallsInv
    OBVIOUS
  <1>1. SerialTypeOK
    <2>1. call \in [Callers -> CallType]
      BY DEF SerialInit, CallType, Stages, Endings, Classes
    <2>2. tries \in [Callers -> [Vendors -> TryType]]
      BY DEF SerialInit, TryType
    <2>3. blamed \in [Callers -> SUBSET Vendors]
      BY DEF SerialInit
    <2> QED
      BY <2>1, <2>2, <2>3 DEF SerialTypeOK
  <1>2. ASSUME NEW c \in Callers
        PROVE  /\ call[c].at = "idle" /\ Target(c) = NoVendor /\ call[c].banned = {}
               /\ call[c].tried = {} /\ call[c].last = "none" /\ call[c].told = "none"
               /\ blamed[c] = {} /\ Asked(c) = {}
               /\ \A v \in Vendors : tries[c][v].n = 0 /\ ~tries[c][v].fault
    BY DEF SerialInit, Target, Asked
  <1>3. ASSUME NEW c \in Callers PROVE LoopOK(c) /\ PromiseOK(c)
    BY <1>2
    DEF LoopOK, PromiseOK, RoundOK, BeforeOK, AfterOK, BetweenOK, TriedOK, BlameOK,
        ExhaustedOK, RowOK, Round
  <1> QED
    BY <1>1, <1>3 DEF CallsInv

\* The calls but one stay as they are.
OnlyCall(c) ==
  \A w \in Callers \ {c} :
    call'[w] = call[w] /\ tries'[w] = tries[w] /\ blamed'[w] = blamed[w]

LEMMA OneCallSuffices ==
  ASSUME CallsInv, SerialTypeOK', NEW c \in Callers, OnlyCall(c), LoopOK(c)', PromiseOK(c)'
  PROVE  CallsInv'
  <1>1. ASSUME NEW w \in Callers, w # c PROVE LoopOK(w)' /\ PromiseOK(w)'
    <2>1. LoopOK(w) /\ PromiseOK(w)
      BY DEF CallsInv
    <2>2. call'[w] = call[w] /\ tries'[w] = tries[w] /\ blamed'[w] = blamed[w]
      BY <1>1 DEF OnlyCall
    <2> QED
      BY <2>1, <2>2
      DEF LoopOK, PromiseOK, RoundOK, BeforeOK, AfterOK, BetweenOK, TriedOK, BlameOK,
          ExhaustedOK, RowOK, Asked, Target
  <1> QED
    BY <1>1 DEF CallsInv

\* A step that replaces one call's variables and leaves the history alone.
LEMMA CallReplaced ==
  ASSUME CallsInv, NEW c \in Callers, NEW k \in CallType,
         call' = [call EXCEPT ![c] = k], UNCHANGED <<tries, blamed>>
  PROVE  /\ SerialTypeOK' /\ OnlyCall(c) /\ call'[c] = k
         /\ tries' = tries /\ blamed' = blamed
  BY DEF CallsInv, SerialTypeOK, OnlyCall

\* The call ends with a failure that it has a reason for.
LEMMA EndsWell ==
  ASSUME CallsInv, NEW c \in Callers, UNCHANGED <<tries, blamed>>,
         NEW told \in Endings \ {"none", "served"}, NEW last \in Classes \union {"none"},
         EndCall(c, told, last),
         told = "stateful" => call[c].banned = Vendors /\ Asked(c) = {},
         told \in {"exhausted", "input", "abort", "saturated"} => Asked(c) # {},
         told = "exhausted" =>
           \/ \A v \in Vendors : tries[c][v].n > 0 \/ v \in call[c].banned
           \/ Cardinality(Asked(c)) = MaxSwitches
  PROVE  CallsInv'
  <1> DEFINE row == IF call[c].tried = {} THEN told ELSE last
             k == [call[c] EXCEPT !.at = "done", !.told = told, !.last = last, !.row = row]
  <1>0. call[c] \in CallType /\ LoopOK(c) /\ PromiseOK(c)
    BY DEF CallsInv, SerialTypeOK
  <1>1. row \in Endings /\ row # "served" /\ row # "stream"
    BY DEF Endings, Classes
  <1>2. k \in CallType
    BY <1>0, <1>1 DEF CallType, Stages
  <1>3. call' = [call EXCEPT ![c] = k]
    BY DEF EndCall
  <1>4. /\ k.at = "done" /\ k.told = told /\ k.row = row /\ k.last = last
        /\ k.vendor = call[c].vendor /\ k.banned = call[c].banned
    BY <1>0 DEF CallType
  <1> HIDE DEF k, row
  <1>5. /\ SerialTypeOK' /\ OnlyCall(c) /\ call'[c] = k /\ tries' = tries /\ blamed' = blamed
    BY <1>2, <1>3, CallReplaced
  <1>6. LoopOK(c)'
    BY <1>0, <1>4, <1>5
    DEF LoopOK, RoundOK, BeforeOK, AfterOK, BetweenOK, TriedOK, Round, Target, Endings
  <1>7. PromiseOK(c)'
    BY <1>0, <1>1, <1>4, <1>5 DEF PromiseOK, BlameOK, ExhaustedOK, RowOK, Asked
  <1> QED
    BY <1>5, <1>6, <1>7, OneCallSuffices

\* A round begins with a provider that was never asked.
LEMMA RoundBegins ==
  ASSUME CallsInv, NEW c \in Callers, call[c].at \in {"idle", "choose"},
         NEW v \in Vendors \ call[c].banned, EnterRound(c, v), UNCHANGED <<tries, blamed>>,
         Cardinality(call[c].tried) < MaxSwitches
  PROVE  CallsInv'
  <1> DEFINE most == IF c \in RawCallers THEN 1 ELSE MaxTries[v]
             k == [call[c] EXCEPT !.at = "plan", !.vendor = v, !.try = 1, !.fixed = {},
                                  !.most = most]
  <1>0. call[c] \in CallType /\ LoopOK(c) /\ PromiseOK(c)
    BY DEF CallsInv, SerialTypeOK
  <1>1. most \in Nat /\ (c \notin RawCallers => most >= MaxTries[v])
    BY SerialConstants
  <1>2. k \in CallType
    BY <1>0, <1>1 DEF CallType, Stages
  <1>3. call' = [call EXCEPT ![c] = k]
    BY DEF EnterRound
  <1>4. /\ k.at = "plan" /\ k.vendor = v /\ k.try = 1 /\ k.most = most
        /\ k.banned = call[c].banned /\ k.tried = call[c].tried /\ k.last = call[c].last
        /\ k.told = call[c].told /\ k.tried \in SUBSET Vendors
    BY <1>0 DEF CallType
  <1> HIDE DEF k, most
  <1>5. /\ SerialTypeOK' /\ OnlyCall(c) /\ call'[c] = k /\ tries' = tries /\ blamed' = blamed
    BY <1>2, <1>3, CallReplaced
  <1>6. v # Target(c) /\ tries[c][v].n = 0 /\ ~tries[c][v].fault
    BY <1>0, SerialConstants DEF LoopOK, BetweenOK
  <1>7. RoundOK(c)'
    <2>1. Cardinality(call[c].tried \ {v}) < MaxSwitches
      <3>1. /\ Cardinality(call[c].tried \ {v}) <= Cardinality(call[c].tried)
            /\ Cardinality(call[c].tried) \in Nat /\ Cardinality(call[c].tried \ {v}) \in Nat
        BY <1>4, Without, SerialConstants
      <3> QED
        BY <3>1, SerialConstants
    <2> QED
      BY <1>1, <1>4, <1>5, <2>1 DEF RoundOK, Target
  <1>8. BeforeOK(c)'
    BY <1>4, <1>5, <1>6, SerialConstants DEF BeforeOK, Target, AtMostTries
  <1>9. AfterOK(c)' /\ BetweenOK(c)'
    <2>1. AfterOK(c)'
      BY <1>4, <1>5 DEF AfterOK
    <2>2. \A w \in Vendors \ call[c].banned : w # v => tries[c][w].n = 0 /\ ~tries[c][w].fault
      BY <1>0, SerialConstants DEF LoopOK, BetweenOK
    <2>3. BetweenOK(c)'
      BY <1>4, <1>5, <2>2 DEF BetweenOK, Target
    <2> QED
      BY <2>1, <2>3
  <1>10. TriedOK(c)'
    BY <1>0, <1>4, <1>5 DEF LoopOK, TriedOK, Asked
  <1>11. PromiseOK(c)'
    BY <1>0, <1>4, <1>5 DEF LoopOK, TriedOK, PromiseOK, BlameOK, ExhaustedOK, RowOK, Asked
  <1> QED
    BY <1>5, <1>7, <1>8, <1>9, <1>10, <1>11, OneCallSuffices DEF LoopOK

LEMMA FailsInv ==
  ASSUME CallsInv, NEW c \in Callers, call[c].at \in {"plan", "sent"}, NEW class \in Classes,
         FailsWith(c, class)
  PROVE  CallsInv'
  <1> DEFINE v == Target(c)
             n == tries[c][v].n
             k == [call[c] EXCEPT !.at = "judge", !.last = class, !.tried = Counts(c)]
             t == [n |-> AtMostTries(v, n + 1), fault |-> class = "provider"]
  <1>0. call[c] \in CallType /\ LoopOK(c) /\ PromiseOK(c)
    BY DEF CallsInv, SerialTypeOK
  <1>1. /\ v \in Vendors \ call[c].banned /\ call[c].try \in Nat /\ call[c].try >= 1
        /\ n = AtMostTries(v, call[c].try - 1) /\ tries[c] \in [Vendors -> TryType]
    BY <1>0 DEF LoopOK, RoundOK, BeforeOK, Round, CallType, CallsInv, SerialTypeOK
  <1>2. AtMostTries(v, n + 1) = AtMostTries(v, call[c].try) /\ AtMostTries(v, n + 1) \in Nat
        /\ AtMostTries(v, n + 1) > 0
    BY <1>1, SerialConstants DEF AtMostTries
  <1>3. k \in CallType /\ t \in TryType
    BY <1>0, <1>1, <1>2 DEF CallType, Stages, Counts, Target, TryType
  <1>4. /\ call' = [call EXCEPT ![c] = k] /\ blamed' = blamed
        /\ tries' = [tries EXCEPT ![c][v] = t]
    BY DEF FailsWith
  <1>5. /\ k.at = "judge" /\ k.last = class /\ k.tried = call[c].tried \union {v}
        /\ k.vendor = v /\ k.banned = call[c].banned /\ k.try = call[c].try
        /\ k.most = call[c].most /\ k.told = call[c].told
        /\ call[c].tried \in SUBSET Vendors
    BY <1>0 DEF CallType, Counts, Target
  <1>6. t.n = AtMostTries(v, call[c].try) /\ t.n > 0 /\ (t.fault <=> class = "provider")
    BY <1>2
  <1> HIDE DEF k, t
  <1>7. /\ call' \in [Callers -> CallType] /\ call'[c] = k
        /\ tries' \in [Callers -> [Vendors -> TryType]]
        /\ tries'[c][v] = t
        /\ \A w \in Vendors \ {v} : tries'[c][w] = tries[c][w]
        /\ blamed' = blamed
    BY <1>1, <1>3, <1>4 DEF CallsInv, SerialTypeOK
  <1>8. SerialTypeOK' /\ OnlyCall(c)
    BY <1>4, <1>7 DEF CallsInv, SerialTypeOK, OnlyCall
  <1>9. RoundOK(c)'
    <2>1. (call[c].tried \union {v}) \ {v} = call[c].tried \ {v}
      OBVIOUS
    <2>2. RoundOK(c) /\ call[c].at \in Round
      BY <1>0 DEF LoopOK, Round
    <2> QED
      BY <1>5, <1>7, <2>1, <2>2 DEF RoundOK, Target
  <1>10. BeforeOK(c)' /\ AfterOK(c)'
    <2>1. class # "none"
      BY DEF Classes
    <2> QED
      BY <1>5, <1>6, <1>7, <2>1 DEF BeforeOK, AfterOK, Target
  <1>11. BetweenOK(c)'
    <2>1. \A w \in Vendors \ call[c].banned : w # v => tries[c][w].n = 0 /\ ~tries[c][w].fault
      BY <1>0 DEF LoopOK, BetweenOK
    <2> QED
      BY <1>5, <1>7, <2>1 DEF BetweenOK, Target
  <1>12. TriedOK(c)'
    <2>1. Asked(c)' = Asked(c) \union {v}
      <3>1. ASSUME NEW w \in Vendors PROVE tries'[c][w].n > 0 <=> w \in Asked(c) \union {v}
        BY <1>6, <1>7 DEF Asked
      <3> QED
        BY <1>1, <3>1 DEF Asked
    <2>2. call[c].tried \union {v} = Asked(c) \union {v}
      BY <1>0, <1>1 DEF LoopOK, TriedOK
    <2>3. class # "none" /\ call[c].told = "none"
      BY <1>0 DEF Classes, LoopOK, TriedOK
    <2> QED
      BY <1>5, <1>7, <2>1, <2>2, <2>3 DEF TriedOK
  <1>13. PromiseOK(c)'
    <2>1. BlameOK(c)'
      <3>1. v \notin blamed[c]
        BY <1>0, <1>1 DEF PromiseOK, BlameOK
      <3>2. ASSUME NEW w \in Vendors
            PROVE  /\ w \in blamed'[c] <=> w \in call'[c].banned /\ tries'[c][w].fault
                   /\ w \in blamed'[c] => tries'[c][w].n >= MaxTries[w]
        <4>1. CASE w = v
          BY <1>1, <1>5, <1>7, <3>1, <4>1
        <4>2. CASE w # v
          BY <1>0, <1>5, <1>7, <4>2 DEF PromiseOK, BlameOK
        <4> QED
          BY <4>1, <4>2
      <3> QED
        BY <3>2 DEF BlameOK
    <2>2. call[c].told = "none"
      BY <1>0 DEF LoopOK, TriedOK
    <2>3. ExhaustedOK(c)' /\ RowOK(c)'
      BY <1>5, <1>7, <2>2 DEF ExhaustedOK, RowOK
    <2> QED
      BY <2>1, <2>3 DEF PromiseOK
  <1> QED
    BY <1>8, <1>9, <1>10, <1>11, <1>12, <1>13, OneCallSuffices DEF LoopOK

LEMMA SendsInv ==
  ASSUME CallsInv, NEW c \in Callers, call[c].at = "plan", Sends(c)
  PROVE  CallsInv'
  <1> DEFINE v == Target(c)
             k == [call[c] EXCEPT !.at = "sent", !.tried = Counts(c)]
  <1>0. call[c] \in CallType /\ LoopOK(c) /\ PromiseOK(c)
    BY DEF CallsInv, SerialTypeOK
  <1>1. v \in Vendors \ call[c].banned
    BY <1>0 DEF LoopOK, RoundOK, Round
  <1>2. k \in CallType
    BY <1>0, <1>1 DEF CallType, Stages, Counts, Target
  <1>3. call' = [call EXCEPT ![c] = k] /\ UNCHANGED <<tries, blamed>>
    BY DEF Sends
  <1>4. /\ k.at = "sent" /\ k.last = call[c].last /\ k.tried = call[c].tried \union {v}
        /\ k.vendor = v /\ k.banned = call[c].banned /\ k.try = call[c].try
        /\ k.most = call[c].most /\ k.told = call[c].told
    BY <1>0 DEF CallType, Counts, Target
  <1> HIDE DEF k
  <1>5. /\ SerialTypeOK' /\ OnlyCall(c) /\ call'[c] = k /\ tries' = tries /\ blamed' = blamed
    BY <1>2, <1>3, CallReplaced
  <1>6. RoundOK(c)'
    <2>1. (call[c].tried \union {v}) \ {v} = call[c].tried \ {v}
      OBVIOUS
    <2>2. RoundOK(c) /\ call[c].at \in Round
      BY <1>0 DEF LoopOK, Round
    <2> QED
      BY <1>4, <1>5, <2>1, <2>2 DEF RoundOK, Target
  <1>7. BeforeOK(c)' /\ AfterOK(c)' /\ BetweenOK(c)'
    BY <1>0, <1>4, <1>5 DEF LoopOK, BeforeOK, AfterOK, BetweenOK, Target
  <1>8. TriedOK(c)'
    BY <1>0, <1>4, <1>5 DEF LoopOK, TriedOK, Asked, Target
  <1>9. PromiseOK(c)'
    BY <1>0, <1>4, <1>5 DEF LoopOK, TriedOK, PromiseOK, BlameOK, ExhaustedOK, RowOK, Asked
  <1> QED
    BY <1>5, <1>6, <1>7, <1>8, <1>9, OneCallSuffices DEF LoopOK

\* The call is answered: by a whole body, or by a stream and then by its end.
LEMMA AnswersInv ==
  ASSUME CallsInv, NEW c \in Callers, Answered(c) \/ Committed(c) \/ StreamEnds(c)
  PROVE  CallsInv'
  <1>0. call[c] \in CallType /\ LoopOK(c) /\ PromiseOK(c)
    BY DEF CallsInv, SerialTypeOK
  <1>1. UNCHANGED <<tries, blamed>>
    BY DEF Answered, Committed, StreamEnds, besides, historyVars
  <1>2. PICK kk \in CallType :
          /\ call' = [call EXCEPT ![c] = kk]
          /\ \/ kk.at = "done" /\ kk.row \in {"served", "stream"}
             \/ kk.at = "stream"
          /\ kk.told = "served" /\ kk.vendor = call[c].vendor /\ kk.banned = call[c].banned
          /\ kk.tried = call[c].tried
    <2>1. CASE Answered(c)
      <3> DEFINE a == [call[c] EXCEPT !.at = "done", !.told = "served", !.last = "none",
                                      !.row = "served"]
      <3>1. a \in CallType /\ call' = [call EXCEPT ![c] = a]
        <4>1. a \in CallType
          BY <1>0, CallRanges DEF CallType
        <4>2. call' = [call EXCEPT ![c] = a]
          BY <1>0, <2>1 DEF Answered
        <4> QED
          BY <4>1, <4>2
      <3>2. /\ a.at = "done" /\ a.row = "served" /\ a.told = "served"
            /\ a.vendor = call[c].vendor /\ a.banned = call[c].banned
            /\ a.tried = call[c].tried
        BY <1>0 DEF CallType
      <3> HIDE DEF a
      <3> QED
        BY <3>1, <3>2
    <2>2. CASE Committed(c)
      <3> DEFINE a == [call[c] EXCEPT !.at = "stream", !.told = "served", !.last = "none"]
      <3>1. a \in CallType /\ call' = [call EXCEPT ![c] = a]
        <4>1. a \in CallType
          BY <1>0, CallRanges DEF CallType
        <4>2. call' = [call EXCEPT ![c] = a]
          BY <1>0, <2>2 DEF Committed
        <4> QED
          BY <4>1, <4>2
      <3>2. /\ a.at = "stream" /\ a.told = "served"
            /\ a.vendor = call[c].vendor /\ a.banned = call[c].banned
            /\ a.tried = call[c].tried
        BY <1>0 DEF CallType
      <3> HIDE DEF a
      <3> QED
        BY <3>1, <3>2
    <2>3. CASE StreamEnds(c)
      <3> DEFINE a == [call[c] EXCEPT !.at = "done", !.row = "stream"]
      <3>1. a \in CallType /\ call' = [call EXCEPT ![c] = a]
        <4>1. a \in CallType
          BY <1>0, CallRanges DEF CallType
        <4>2. call' = [call EXCEPT ![c] = a]
          BY <1>0, <2>3 DEF StreamEnds
        <4> QED
          BY <4>1, <4>2
      <3>2. call[c].told = "served"
        BY <1>0, <2>3 DEF StreamEnds, Is, LoopOK, TriedOK
      <3>3. /\ a.at = "done" /\ a.row = "stream" /\ a.told = "served"
            /\ a.vendor = call[c].vendor /\ a.banned = call[c].banned
            /\ a.tried = call[c].tried
        BY <1>0, <3>2 DEF CallType
      <3> HIDE DEF a
      <3> QED
        BY <3>1, <3>3
    <2> QED
      BY <2>1, <2>2, <2>3
  <1>3. /\ SerialTypeOK' /\ OnlyCall(c) /\ call'[c] = kk /\ tries' = tries /\ blamed' = blamed
    BY <1>1, <1>2, CallReplaced
  <1>4. LoopOK(c)'
    BY <1>0, <1>2, <1>3
    DEF LoopOK, RoundOK, BeforeOK, AfterOK, BetweenOK, TriedOK, Round, Target
  <1>5. PromiseOK(c)'
    BY <1>0, <1>2, <1>3 DEF PromiseOK, BlameOK, ExhaustedOK, RowOK
  <1> QED
    BY <1>3, <1>4, <1>5, OneCallSuffices

LEMMA LeavesInv == ASSUME CallsInv, NEW c \in Callers, ClientLeaves(c) PROVE CallsInv'
  <1> DEFINE k == [call[c] EXCEPT !.gone = TRUE]
  <1>0. call[c] \in CallType /\ LoopOK(c) /\ PromiseOK(c)
    BY DEF CallsInv, SerialTypeOK
  <1>1. k \in CallType
    BY <1>0 DEF CallType
  <1>2. call' = [call EXCEPT ![c] = k] /\ UNCHANGED <<tries, blamed>>
    BY DEF ClientLeaves, besides, historyVars
  <1>3. /\ k.at = call[c].at /\ k.vendor = call[c].vendor /\ k.try = call[c].try
        /\ k.most = call[c].most /\ k.banned = call[c].banned /\ k.tried = call[c].tried
        /\ k.last = call[c].last /\ k.told = call[c].told /\ k.row = call[c].row
    BY <1>0 DEF CallType
  <1> HIDE DEF k
  <1>4. /\ SerialTypeOK' /\ OnlyCall(c) /\ call'[c] = k /\ tries' = tries /\ blamed' = blamed
    BY <1>1, <1>2, CallReplaced
  <1>5. LoopOK(c)'
    BY <1>0, <1>3, <1>4
    DEF LoopOK, RoundOK, BeforeOK, AfterOK, BetweenOK, TriedOK, Round, Target, Asked
  <1>6. PromiseOK(c)'
    BY <1>0, <1>3, <1>4 DEF PromiseOK, BlameOK, ExhaustedOK, RowOK, Asked
  <1> QED
    BY <1>4, <1>5, <1>6, OneCallSuffices

\* The same provider once more, at once with a mended body or after a pause.
LEMMA AgainInv ==
  ASSUME CallsInv, NEW c \in Callers, Rectify(c) \/ Pause(c) \/ PauseIsOver(c)
  PROVE  CallsInv'
  <1>0. call[c] \in CallType /\ LoopOK(c) /\ PromiseOK(c)
    BY DEF CallsInv, SerialTypeOK
  <1>1. UNCHANGED <<tries, blamed>> /\ call[c].at \in {"judge", "pause"}
    BY DEF Rectify, Pause, PauseIsOver, besides, historyVars, Is
  <1>2. PICK kk \in CallType :
          /\ call' = [call EXCEPT ![c] = kk]
          /\ \/ kk.at = "plan" /\ kk.try = call[c].try + 1
             \/ kk.at = "pause" /\ kk.try = call[c].try
          /\ kk.vendor = call[c].vendor /\ kk.most >= call[c].most
          /\ kk.banned = call[c].banned /\ kk.tried = call[c].tried
          /\ kk.last = call[c].last /\ kk.told = call[c].told
    <2>1. CASE Rectify(c)
      <3>1. PICK r \in Rectifiers :
              call' = [call EXCEPT ![c].at = "plan", ![c].try = @ + 1, ![c].fixed = @ \union {r},
                                   ![c].most = AtLeastOnceMore(c)]
        BY <2>1 DEF Rectify
      <3> DEFINE a == [call[c] EXCEPT !.at = "plan", !.try = @ + 1, !.fixed = @ \union {r},
                                      !.most = AtLeastOnceMore(c)]
      <3>2. AtLeastOnceMore(c) \in Nat /\ AtLeastOnceMore(c) >= call[c].most
        BY <1>0 DEF AtLeastOnceMore, CallType
      <3>3. a \in CallType /\ call' = [call EXCEPT ![c] = a]
        <4>1. a \in CallType
          <5>1. /\ call[c].try + 1 \in Nat
                /\ call[c].fixed \union {r} \in SUBSET Rectifiers
            BY <1>0 DEF CallType
          <5> QED
            BY <1>0, <3>2, <5>1, CallRanges DEF CallType
        <4>2. call' = [call EXCEPT ![c] = a]
          BY <3>1
        <4> QED
          BY <4>1, <4>2
      <3>4. /\ a.at = "plan" /\ a.try = call[c].try + 1 /\ a.most = AtLeastOnceMore(c)
            /\ a.vendor = call[c].vendor /\ a.banned = call[c].banned
            /\ a.tried = call[c].tried /\ a.last = call[c].last /\ a.told = call[c].told
        BY <1>0 DEF CallType
      <3> HIDE DEF a
      <3> QED
        BY <3>2, <3>3, <3>4
    <2>2. CASE Pause(c)
      <3> DEFINE a == [call[c] EXCEPT !.at = "pause"]
      <3>1. a \in CallType /\ call' = [call EXCEPT ![c] = a]
        BY <1>0, <2>2, CallRanges DEF CallType, Pause
      <3>2. /\ a.at = "pause" /\ a.try = call[c].try /\ a.most = call[c].most /\ a.most \in Nat
            /\ a.vendor = call[c].vendor /\ a.banned = call[c].banned
            /\ a.tried = call[c].tried /\ a.last = call[c].last /\ a.told = call[c].told
        BY <1>0 DEF CallType
      <3>3. a.most >= call[c].most
        BY <3>2
      <3> HIDE DEF a
      <3> QED
        BY <3>1, <3>2, <3>3
    <2>3. CASE PauseIsOver(c)
      <3> DEFINE a == [call[c] EXCEPT !.at = "plan", !.try = @ + 1]
      <3>1. a \in CallType
        <4>1. call[c].try + 1 \in Nat
          BY <1>0 DEF CallType
        <4> QED
          BY <1>0, <4>1, CallRanges DEF CallType
      <3>2. call' = [call EXCEPT ![c] = a]
        BY <2>3 DEF PauseIsOver
      <3>3. /\ a.at = "plan" /\ a.try = call[c].try + 1
            /\ a.most = call[c].most /\ a.most \in Nat
            /\ a.vendor = call[c].vendor /\ a.banned = call[c].banned
            /\ a.tried = call[c].tried /\ a.last = call[c].last /\ a.told = call[c].told
        BY <1>0 DEF CallType
      <3>4. a.most >= call[c].most
        BY <3>3
      <3> HIDE DEF a
      <3> QED
        BY <3>1, <3>2, <3>3, <3>4
    <2> QED
      BY <2>1, <2>2, <2>3
  <1>3. /\ SerialTypeOK' /\ OnlyCall(c) /\ call'[c] = kk /\ tries' = tries /\ blamed' = blamed
    BY <1>1, <1>2, CallReplaced
  <1>4. /\ Target(c) \in Vendors \ call[c].banned /\ call[c].try >= 1
        /\ call[c].try \in Nat /\ call[c].most \in Nat /\ kk.most \in Nat
    BY <1>0, <1>1, <1>2 DEF LoopOK, RoundOK, Round, CallType
  <1>5. RoundOK(c)'
    <2>1. c \notin RawCallers => kk.most >= MaxTries[Target(c)]
      BY <1>0, <1>1, <1>2, <1>4, SerialConstants DEF LoopOK, RoundOK, Round
    <2>2. Cardinality(call[c].tried \ {Target(c)}) < MaxSwitches
      BY <1>0, <1>1 DEF LoopOK, RoundOK, Round
    <2>3. kk.at \in Round => kk.try >= 1
      BY <1>2, <1>4
    <2> QED
      BY <1>2, <1>3, <1>4, <2>1, <2>2, <2>3 DEF RoundOK, Target
  <1>6. BeforeOK(c)' /\ AfterOK(c)'
    BY <1>0, <1>1, <1>2, <1>3, <1>4 DEF LoopOK, BeforeOK, AfterOK, Target, AtMostTries
  <1>7. BetweenOK(c)' /\ TriedOK(c)'
    BY <1>0, <1>1, <1>2, <1>3 DEF LoopOK, BetweenOK, TriedOK, Asked, Target
  <1>8. PromiseOK(c)'
    BY <1>0, <1>1, <1>2, <1>3
    DEF LoopOK, TriedOK, PromiseOK, BlameOK, ExhaustedOK, RowOK, Asked
  <1> QED
    BY <1>3, <1>5, <1>6, <1>7, <1>8, OneCallSuffices DEF LoopOK

\* A round ends without an answer: who could not carry the request and who used up his
\* tries is excluded, and only a provider's own failure is blamed.
LEMMA AwayInv ==
  ASSUME CallsInv, NEW c \in Callers, SkipCandidate(c) \/ SwitchAway(c)
  PROVE  CallsInv'
  <1> DEFINE v == Target(c)
             k == [call[c] EXCEPT !.at = "choose", !.banned = @ \union {Target(c)}]
             mine == Is(c, "judge") /\ call[c].last = "provider"
  <1>0. /\ call[c] \in CallType /\ LoopOK(c) /\ PromiseOK(c)
        /\ blamed \in [Callers -> SUBSET Vendors]
    BY DEF CallsInv, SerialTypeOK
  <1>1. /\ call[c].at \in {"plan", "judge"} /\ v \in Vendors \ call[c].banned
        /\ call[c].try \in Nat /\ call[c].most \in Nat
    BY <1>0 DEF SkipCandidate, SwitchAway, Is, LoopOK, RoundOK, Round, CallType
  <1>2. k \in CallType
    <2>1. call[c].banned \union {Target(c)} \in SUBSET Vendors
      BY <1>0, <1>1 DEF CallType
    <2> QED
      BY <1>0, <2>1, CallRanges DEF CallType
  <1>3. /\ call' = [call EXCEPT ![c] = k] /\ UNCHANGED tries
        /\ blamed' = IF mine THEN [blamed EXCEPT ![c] = @ \union {v}] ELSE blamed
    BY DEF SkipCandidate, SwitchAway, besides, historyVars, Is
  <1>4. /\ k.at = "choose" /\ k.banned = call[c].banned \union {v} /\ k.vendor = v
        /\ k.tried = call[c].tried /\ k.last = call[c].last /\ k.told = call[c].told
        /\ k.tried \in SUBSET Vendors
    BY <1>0 DEF CallType, Target
  <1> HIDE DEF k
  <1>5. /\ call' \in [Callers -> CallType] /\ call'[c] = k /\ tries' = tries
        /\ blamed' \in [Callers -> SUBSET Vendors]
        /\ blamed'[c] = IF mine THEN blamed[c] \union {v} ELSE blamed[c]
    <2>1. call' \in [Callers -> CallType] /\ call'[c] = k
      BY <1>2, <1>3 DEF CallsInv, SerialTypeOK
    <2>2. blamed' \in [Callers -> SUBSET Vendors]
      BY <1>0, <1>1, <1>3
    <2>3. blamed'[c] = IF mine THEN blamed[c] \union {v} ELSE blamed[c]
      BY <1>0, <1>3
    <2> QED
      BY <1>3, <2>1, <2>2, <2>3
  <1>6. SerialTypeOK' /\ OnlyCall(c)
    <2>1. OnlyCall(c)
      BY <1>0, <1>3 DEF CallsInv, SerialTypeOK, OnlyCall
    <2> QED
      BY <1>5, <2>1 DEF CallsInv, SerialTypeOK
  <1>7. tries[c][v].fault <=> mine
    <2>1. CASE SkipCandidate(c)
      BY <1>0, <2>1 DEF SkipCandidate, Is, LoopOK, BeforeOK
    <2>2. CASE SwitchAway(c)
      BY <1>0, <2>2 DEF SwitchAway, Is, LoopOK, AfterOK
    <2> QED
      BY <2>1, <2>2
  <1>8. mine => tries[c][v].n >= MaxTries[v]
    <2> SUFFICES ASSUME mine PROVE tries[c][v].n >= MaxTries[v]
      OBVIOUS
    <2>1. SwitchAway(c)
      BY DEF SkipCandidate, Is
    <2>2. call[c].try >= call[c].most /\ c \notin RawCallers
      BY <2>1 DEF SwitchAway, RetriesSameProvider
    <2>3. call[c].most >= MaxTries[v] /\ tries[c][v].n = AtMostTries(v, call[c].try)
      BY <1>0, <2>2 DEF Is, LoopOK, RoundOK, AfterOK, Round
    <2>4. MaxTries[v] \in Nat
      BY <1>1, SerialConstants
    <2> QED
      BY <1>1, <2>2, <2>3, <2>4 DEF AtMostTries
  <1>9. RoundOK(c)' /\ BeforeOK(c)' /\ AfterOK(c)'
    BY <1>4, <1>5 DEF RoundOK, BeforeOK, AfterOK, Round
  <1>10. BetweenOK(c)'
    <2>1. Cardinality(call[c].tried) <= MaxSwitches
      <3>1. Cardinality(call[c].tried \ {v}) < MaxSwitches
        BY <1>0, <1>1 DEF LoopOK, RoundOK, Round
      <3>2. /\ Cardinality(call[c].tried) <= Cardinality(call[c].tried \ {v}) + 1
            /\ Cardinality(call[c].tried) \in Nat /\ Cardinality(call[c].tried \ {v}) \in Nat
        BY <1>1, <1>4, Without, SerialConstants
      <3> QED
        BY <3>1, <3>2, SerialConstants
    <2>2. \A w \in Vendors \ call[c].banned : w # v => tries[c][w].n = 0 /\ ~tries[c][w].fault
      BY <1>0 DEF LoopOK, BetweenOK
    <2> QED
      BY <1>4, <1>5, <2>1, <2>2 DEF BetweenOK, Target
  <1>11. TriedOK(c)'
    BY <1>0, <1>1, <1>4, <1>5 DEF LoopOK, TriedOK, Asked
  <1>12. PromiseOK(c)'
    <2>1. BlameOK(c)'
      <3>1. ASSUME NEW w \in Vendors
            PROVE  /\ w \in blamed'[c] <=> w \in call'[c].banned /\ tries'[c][w].fault
                   /\ w \in blamed'[c] => tries'[c][w].n >= MaxTries[w]
        <4>1. CASE w = v
          BY <1>0, <1>1, <1>4, <1>5, <1>7, <1>8, <4>1 DEF PromiseOK, BlameOK
        <4>2. CASE w # v
          BY <1>0, <1>4, <1>5, <4>2 DEF PromiseOK, BlameOK
        <4> QED
          BY <4>1, <4>2
      <3> QED
        BY <3>1 DEF BlameOK
    <2>2. call[c].told = "none"
      BY <1>0, <1>1 DEF LoopOK, TriedOK
    <2>3. ExhaustedOK(c)' /\ RowOK(c)'
      BY <1>4, <1>5, <2>2 DEF ExhaustedOK, RowOK
    <2> QED
      BY <2>1, <2>3 DEF PromiseOK
  <1> QED
    BY <1>6, <1>9, <1>10, <1>11, <1>12, OneCallSuffices DEF LoopOK

LEMMA GivesUpInv ==
  ASSUME CallsInv, NEW c \in Callers,
         PlanFails(c) \/ CannotRectify(c) \/ GiveUpCall(c) \/ PauseIsCancelled(c)
  PROVE  CallsInv'
  <1>0. call[c] \in CallType /\ LoopOK(c)
    BY DEF CallsInv, SerialTypeOK
  <1>1. UNCHANGED <<tries, blamed>>
    BY DEF PlanFails, CannotRectify, GiveUpCall, PauseIsCancelled, besides, historyVars
  <1>2. call[c].last \in Classes \union {"none"}
    BY <1>0 DEF CallType
  <1>3. call[c].at \in {"judge", "pause"} => Asked(c) # {} /\ call[c].last \in Classes
    <2> SUFFICES ASSUME call[c].at \in {"judge", "pause"}
                 PROVE  Asked(c) # {} /\ call[c].last \in Classes
      OBVIOUS
    <2>1. call[c].last # "none"
      BY <1>0 DEF LoopOK, AfterOK
    <2> QED
      BY <1>0, <1>2, <2>1 DEF LoopOK, TriedOK
  <1>4. CASE PlanFails(c)
    <2>1. "plan" \in Endings \ {"none", "served"} /\ EndCall(c, "plan", call[c].last)
      BY <1>4 DEF PlanFails, Endings
    <2> QED
      BY <1>1, <1>2, <2>1, EndsWell
  <1>5. CASE CannotRectify(c)
    <2>1. /\ "input" \in Endings \ {"none", "served"} /\ "input" \in Classes \union {"none"}
          /\ EndCall(c, "input", "input") /\ Asked(c) # {}
      BY <1>3, <1>5 DEF CannotRectify, Is, Endings, Classes
    <2> QED
      BY <1>1, <2>1, EndsWell
  <1>6. CASE GiveUpCall(c)
    <2>1. /\ call[c].last \in Classes /\ EndCall(c, call[c].last, call[c].last) /\ Asked(c) # {}
      BY <1>3, <1>6 DEF GiveUpCall, Is
    <2>2. \A k \in Classes : /\ k \in Endings \ {"none", "served"}
                            /\ k # "stateful" /\ k # "exhausted"
      BY DEF Endings, Classes
    <2> QED
      BY <1>1, <1>2, <2>1, <2>2, EndsWell
  <1>7. CASE PauseIsCancelled(c)
    <2>1. /\ "abort" \in Endings \ {"none", "served"}
          /\ EndCall(c, "abort", call[c].last) /\ Asked(c) # {}
      BY <1>3, <1>7 DEF PauseIsCancelled, Is, Endings, Classes
    <2> QED
      BY <1>1, <1>2, <2>1, EndsWell
  <1> QED
    BY <1>4, <1>5, <1>6, <1>7

\* The end of the list, the limit on switches, or the next provider.
LEMMA SelectInv == ASSUME CallsInv, NEW c \in Callers, Select(c) PROVE CallsInv'
  <1>0. call[c] \in CallType /\ LoopOK(c)
    BY DEF CallsInv, SerialTypeOK
  <1>1. UNCHANGED <<tries, blamed>> /\ call[c].at = "choose"
    BY DEF Select, besides, historyVars, Is
  <1>2. call[c].last \in Classes \union {"none"} /\ call[c].banned \in SUBSET Vendors
    BY <1>0 DEF CallType
  <1>3. /\ call[c].tried = Asked(c) /\ (call[c].last = "none" <=> Asked(c) = {})
        /\ Cardinality(Asked(c)) <= MaxSwitches /\ Cardinality(Asked(c)) \in Nat
    <2>1. Asked(c) \in SUBSET Vendors
      BY DEF Asked
    <2> QED
      BY <1>0, <1>1, <2>1, SerialConstants DEF LoopOK, TriedOK, BetweenOK
  <1>4. ASSUME NEW v \in Vendors \ call[c].banned, EnterRound(c, v),
               Cardinality(call[c].tried) < MaxSwitches
        PROVE  CallsInv'
    BY <1>1, <1>4, RoundBegins
  <1>5. ASSUME Exhausted(c),
               \/ Vendors \subseteq call[c].banned
               \/ ~(Cardinality(call[c].tried) < MaxSwitches)
        PROVE  CallsInv'
    <2>1. CASE call[c].last = "none"
      <3>1. Asked(c) = {} /\ Cardinality(Asked(c)) = 0
        BY <1>3, <2>1, FS_EmptySet
      <3>2. call[c].banned = Vendors
        BY <1>2, <1>3, <1>5, <3>1, SerialConstants
      <3>3. EndCall(c, "stateful", call[c].last) /\ "stateful" \in Endings \ {"none", "served"}
        BY <1>5, <2>1 DEF Exhausted, Endings
      <3> QED
        BY <1>1, <1>2, <3>1, <3>2, <3>3, EndsWell
    <2>2. CASE call[c].last # "none"
      <3>1. Asked(c) # {}
        BY <1>3, <2>2
      <3>2. \/ \A v \in Vendors : tries[c][v].n > 0 \/ v \in call[c].banned
            \/ Cardinality(Asked(c)) = MaxSwitches
        BY <1>3, <1>5, SerialConstants
      <3>3. EndCall(c, "exhausted", call[c].last) /\ "exhausted" \in Endings \ {"none", "served"}
        BY <1>5, <2>2 DEF Exhausted, Endings
      <3> QED
        BY <1>1, <1>2, <3>1, <3>2, <3>3, EndsWell
    <2> QED
      BY <2>1, <2>2
  <1>6. ASSUME EndCall(c, "select", call[c].last) PROVE CallsInv'
    <2>1. "select" \in Endings \ {"none", "served"}
      BY DEF Endings
    <2> QED
      BY <1>1, <1>2, <1>6, <2>1, EndsWell
  <1> QED
    BY <1>4, <1>5, <1>6 DEF Select

LEMMA AttemptsInv ==
  ASSUME CallsInv, NEW c \in Callers,
         \/ GoUnwatched(c) \/ Acquire(c) \/ AcquireFails(c) \/ RefusedByItself(c)
         \/ DialFails(c) \/ AnswerFails(c)
  PROVE  CallsInv'
  <1>1. CASE Sends(c) /\ call[c].at = "plan"
    BY <1>1, SendsInv
  <1>2. ASSUME NEW class \in Classes, FailsWith(c, class), call[c].at \in {"plan", "sent"}
        PROVE  CallsInv'
    BY <1>2, FailsInv
  <1>3. {"abort", "saturated", "provider", "system", "unsupported", "input"} \subseteq Classes
    BY DEF Classes
  <1> QED
    BY <1>1, <1>2, <1>3 DEF GoUnwatched, Acquire, AcquireFails, RefusedByItself, DialFails, AnswerFails, Is

LEMMA ArriveInv == ASSUME CallsInv, NEW c \in Callers, Arrive(c) PROVE CallsInv'
  <1>1. PICK v \in Vendors : EnterRound(c, v)
    BY DEF Arrive
  <1>2. UNCHANGED <<tries, blamed>> /\ call[c].at = "idle"
    BY DEF Arrive, besides, historyVars, Is
  <1>3. call[c].tried = {} /\ call[c].banned = {}
    BY <1>2 DEF CallsInv, LoopOK, BetweenOK
  <1>4. Cardinality(call[c].tried) < MaxSwitches
    BY <1>3, FS_EmptySet, SerialConstants
  <1> QED
    BY <1>1, <1>2, <1>3, <1>4, RoundBegins

LEMMA SerialStepInv == CallsInv /\ [SerialNext]_serialVars => CallsInv'
  <1> SUFFICES ASSUME CallsInv, [SerialNext]_serialVars PROVE CallsInv'
    OBVIOUS
  <1>1. ASSUME UNCHANGED <<call, tries, blamed>> PROVE CallsInv'
    <2>1. SerialTypeOK'
      BY <1>1 DEF CallsInv, SerialTypeOK
    <2>2. ASSUME NEW c \in Callers PROVE LoopOK(c)'
      <3>1. LoopOK(c)
        BY DEF CallsInv
      <3> QED
        BY <1>1, <3>1
        DEF LoopOK, RoundOK, BeforeOK, AfterOK, BetweenOK, TriedOK, Asked, Target
    <2>3. ASSUME NEW c \in Callers PROVE PromiseOK(c)'
      <3>1. PromiseOK(c)
        BY DEF CallsInv
      <3> QED
        BY <1>1, <3>1 DEF PromiseOK, BlameOK, ExhaustedOK, RowOK, Asked
    <2> QED
      BY <2>1, <2>2, <2>3 DEF CallsInv
  <1>2. ASSUME NEW c \in Callers, CallStep(c) PROVE CallsInv'
    BY <1>2, ArriveInv, AwayInv, GivesUpInv, AttemptsInv, AnswersInv, AgainInv, SelectInv,
       LeavesInv
    DEF CallStep, CallGoesOn
  <1>3. ASSUME NEW c \in Callers, NEW v \in Vendors, SessionIsEnded(v, c) PROVE CallsInv'
    BY <1>1, <1>3 DEF SessionIsEnded
  <1>4. CASE TimePasses
    BY <1>1, <1>4 DEF TimePasses, historyVars
  <1>5. CASE UNCHANGED serialVars
    BY <1>1, <1>5 DEF serialVars, besides, historyVars
  <1> QED
    BY <1>2, <1>3, <1>4, <1>5 DEF SerialNext

LEMMA PromisesKept == CallsInv => CallsTellTheTruth
  <1> SUFFICES ASSUME CallsInv PROVE CallsTellTheTruth
    OBVIOUS
  <1>1. \A c \in Callers : PromiseOK(c)
    BY DEF CallsInv
  <1>2. ASSUME NEW c \in Callers
        PROVE  /\ Asked(c) = {v \in Vendors : tries[c][v].n > 0}
               /\ \A v \in Vendors : tries[c][v].n \in Nat
    BY DEF Asked, CallsInv, SerialTypeOK, TryType
  <1>3. BlameFollowsTheChain
    BY <1>1 DEF PromiseOK, BlameOK, BlameFollowsTheChain
  <1>4. ExhaustedMeansTried
    BY <1>1, <1>2 DEF PromiseOK, ExhaustedOK, ExhaustedMeansTried
  <1>5. RowFollowsTheCall
    BY <1>1, <1>2 DEF PromiseOK, RowOK, RowFollowsTheCall, Is
  <1> QED
    BY <1>3, <1>4, <1>5 DEF CallsTellTheTruth

\* Who is blamed, what "all providers failed" means and what the row says, in every state
\* of a call, for any providers, tries, limits and rectifiers (forwardLoop).
THEOREM SerialTellsTheTruth == SerialSpec => []CallsTellTheTruth
  BY SerialInitInv, SerialStepInv, PromisesKept, PTL DEF SerialSpec

-----------------------------------------------------------------------------
(* What a call has left. *)

LEMMA LessBy ==
  ASSUME NEW p1 \in Int, NEW p2 \in Int, NEW p3 \in Int, NEW p4 \in Int,
         NEW q1 \in Int, NEW q2 \in Int, NEW q3 \in Int, NEW q4 \in Int,
         \/ p1 < q1
         \/ p1 = q1 /\ p2 < q2
         \/ p1 = q1 /\ p2 = q2 /\ p3 < q3
         \/ p1 = q1 /\ p2 = q2 /\ p3 = q3 /\ p4 < q4
  PROVE  Less(<<p1, p2, p3, p4>>, <<q1, q2, q3, q4>>)
  <1> DEFINE p == <<p1, p2, p3, p4>>
             q == <<q1, q2, q3, q4>>
  <1>1. /\ p[1] = p1 /\ p[2] = p2 /\ p[3] = p3 /\ p[4] = p4
        /\ q[1] = q1 /\ q[2] = q2 /\ q[3] = q3 /\ q[4] = q4
        /\ DOMAIN q = 1 .. 4
    OBVIOUS
  <1> HIDE DEF p, q
  <1>2. \E i \in 1 .. 4 : p[i] < q[i] /\ \A k \in 1 .. i - 1 : p[k] = q[k]
    <2>1. CASE p1 < q1
      <3>1. 1 - 1 = 0 /\ 1 .. 0 = {}
        OBVIOUS
      <3> QED
        BY <1>1, <2>1, <3>1
    <2>2. CASE p1 = q1 /\ p2 < q2
      <3>1. \A k \in 1 .. 2 - 1 : k = 1
        OBVIOUS
      <3> QED
        BY <1>1, <2>2, <3>1
    <2>3. CASE p1 = q1 /\ p2 = q2 /\ p3 < q3
      <3>1. \A k \in 1 .. 3 - 1 : k = 1 \/ k = 2
        OBVIOUS
      <3> QED
        BY <1>1, <2>3, <3>1
    <2>4. CASE p1 = q1 /\ p2 = q2 /\ p3 = q3 /\ p4 < q4
      <3>1. \A k \in 1 .. 4 - 1 : k = 1 \/ k = 2 \/ k = 3
        OBVIOUS
      <3> QED
        BY <1>1, <2>4, <3>1
    <2> QED
      BY <2>1, <2>2, <2>3, <2>4
  <1> QED
    BY <1>1, <1>2 DEF Less, p, q

Open(k) == Cardinality(Vendors \ k.banned)
Phase(k) == IF k.at = "plan" THEN 3 ELSE IF k.at = "sent" THEN 2 ELSE IF k.at = "judge" THEN 1 ELSE 0
Rounds(k) == IF k.at = "choose" THEN 2 * Open(k) + 1 ELSE 2 * Open(k)
Mends(k) == Cardinality(Rectifiers \ k.fixed)

LEMMA LeftIs ==
  ASSUME NEW c \in Callers
  PROVE  Left(c) = <<Rounds(call[c]), Mends(call[c]), call[c].most - call[c].try, Phase(call[c])>>
  <1>1. (CASE Is(c, "plan") -> 3 [] Is(c, "sent") -> 2 [] Is(c, "judge") -> 1 [] OTHER -> 0)
          = Phase(call[c])
    BY DEF Is, Phase
  <1> QED
    BY <1>1 DEF Left, Rounds, Mends, Open, Is

LEMMA LeftTypes ==
  ASSUME NEW k \in CallType
  PROVE  Rounds(k) \in Int /\ Open(k) \in Nat /\ Mends(k) \in Int /\ k.most - k.try \in Int /\ Phase(k) \in Int
  <1>1. Open(k) \in Nat
    BY SerialConstants DEF Open
  <1>2. Mends(k) \in Nat
    <2>1. IsFiniteSet(Rectifiers \ k.fixed)
      BY SerialAssumption, FS_Subset
    <2> QED
      BY <2>1, FS_CardinalityType DEF Mends
  <1>3. k.most \in Nat /\ k.try \in Nat
    BY DEF CallType
  <1> QED
    BY <1>1, <1>2, <1>3 DEF Rounds, Phase

\* What is left is compared for two sets of variables of a call.
LEMMA LeavesLess ==
  ASSUME NEW c \in Callers, call[c] \in CallType, NEW k \in CallType, call'[c] = k,
         \/ Rounds(k) < Rounds(call[c])
         \/ /\ Rounds(k) = Rounds(call[c]) /\ Mends(k) < Mends(call[c])
         \/ /\ Rounds(k) = Rounds(call[c]) /\ Mends(k) = Mends(call[c])
            /\ k.most - k.try < call[c].most - call[c].try
         \/ /\ Rounds(k) = Rounds(call[c]) /\ Mends(k) = Mends(call[c])
            /\ k.most - k.try = call[c].most - call[c].try
            /\ Phase(k) < Phase(call[c])
  PROVE  Less(Left(c)', Left(c))
  <1>1. Left(c)' = <<Rounds(k), Mends(k), k.most - k.try, Phase(k)>>
    <2>1. (CASE Is(c, "plan")' -> 3 [] Is(c, "sent")' -> 2 [] Is(c, "judge")' -> 1 [] OTHER -> 0)
            = Phase(k)
      BY DEF Is, Phase
    <2> QED
      BY <2>1 DEF Left, Rounds, Mends, Open, Is
  <1>2. Left(c) = <<Rounds(call[c]), Mends(call[c]), call[c].most - call[c].try, Phase(call[c])>>
    BY LeftIs
  <1> DEFINE p1 == Rounds(k)   q1 == Rounds(call[c])
             p2 == Mends(k)    q2 == Mends(call[c])
             p3 == k.most - k.try   q3 == call[c].most - call[c].try
             p4 == Phase(k)    q4 == Phase(call[c])
  <1>3. /\ p1 \in Int /\ p2 \in Int /\ p3 \in Int /\ p4 \in Int
        /\ q1 \in Int /\ q2 \in Int /\ q3 \in Int /\ q4 \in Int
    BY LeftTypes
  <1>4. \/ p1 < q1
        \/ p1 = q1 /\ p2 < q2
        \/ p1 = q1 /\ p2 = q2 /\ p3 < q3
        \/ p1 = q1 /\ p2 = q2 /\ p3 = q3 /\ p4 < q4
    OBVIOUS
  <1>5. Left(c)' = <<p1, p2, p3, p4>> /\ Left(c) = <<q1, q2, q3, q4>>
    BY <1>1, <1>2
  <1> HIDE DEF p1, p2, p3, p4, q1, q2, q3, q4
  <1>6. Less(<<p1, p2, p3, p4>>, <<q1, q2, q3, q4>>)
    BY <1>3, <1>4, LessBy
  <1> QED
    BY <1>5, <1>6 DEF Less

Lessens(c) == Less(Left(c)', Left(c)) \/ ~Underway(c)'

LEMMA CallIsLess ==
  ASSUME CallsInv, CallsInv', NEW c \in Callers, CallStep(c), Underway(c),
         call'[c].at # call[c].at
  PROVE  Lessens(c)
  <1> DEFINE k == call'[c]
  <1>0. /\ call \in [Callers -> CallType] /\ call[c] \in CallType /\ k \in CallType /\ LoopOK(c)
    BY DEF CallsInv, SerialTypeOK
  <1>1. /\ call[c].most \in Nat /\ call[c].try \in Nat
        /\ Open(call[c]) \in Nat /\ Mends(call[c]) \in Int
    BY <1>0, LeftTypes DEF CallType
  <1>2. ASSUME NEW told, NEW last, EndCall(c, told, last), told # "none" PROVE ~Underway(c)'
    <2>1. call'[c].told = told
      BY <1>0, <1>2 DEF EndCall, CallType
    <2> QED
      BY <1>2, <2>1 DEF Underway
  <1>3. CASE PlanFails(c) \/ CannotRectify(c) \/ GiveUpCall(c) \/ PauseIsCancelled(c)
    <2>1. call[c].at = "judge" => call[c].last # "none"
      BY <1>0 DEF LoopOK, AfterOK
    <2> QED
      BY <1>2, <1>3, <2>1 DEF PlanFails, CannotRectify, GiveUpCall, PauseIsCancelled, Is, Lessens
  <1>4. CASE Answered(c) \/ Committed(c)
    <2>1. call'[c].told = "served"
      BY <1>0, <1>4 DEF Answered, Committed, CallType
    <2> QED
      BY <2>1 DEF Underway, Lessens
  <1>5. CASE Arrive(c) \/ StreamEnds(c) \/ ClientLeaves(c)
    <2>1. CASE Arrive(c)
      BY <2>1 DEF Arrive, Is, Underway
    <2>2. CASE StreamEnds(c)
      BY <1>0, <2>2 DEF StreamEnds, Is, LoopOK, TriedOK, Underway
    <2>3. CASE ClientLeaves(c)
      BY <1>0, <2>3 DEF ClientLeaves, CallType
    <2> QED
      BY <1>5, <2>1, <2>2, <2>3
  <1>6. CASE Sends(c) /\ Is(c, "plan")
    <2>1. /\ k.at = "sent" /\ k.banned = call[c].banned /\ k.fixed = call[c].fixed
          /\ k.most = call[c].most /\ k.try = call[c].try
      BY <1>0, <1>6 DEF Sends, CallType
    <2>2. /\ Rounds(k) = Rounds(call[c]) /\ Mends(k) = Mends(call[c])
          /\ Phase(k) < Phase(call[c])
      BY <1>6, <2>1 DEF Is, Rounds, Mends, Open, Phase
    <2> QED
      BY <1>0, <2>1, <2>2, LeavesLess DEF Lessens
  <1>7. ASSUME NEW class, FailsWith(c, class), Is(c, "plan") \/ Is(c, "sent") PROVE Lessens(c)
    <2>1. /\ k.at = "judge" /\ k.banned = call[c].banned /\ k.fixed = call[c].fixed
          /\ k.most = call[c].most /\ k.try = call[c].try
      BY <1>0, <1>7 DEF FailsWith, CallType
    <2>2. /\ Rounds(k) = Rounds(call[c]) /\ Mends(k) = Mends(call[c])
          /\ Phase(k) < Phase(call[c])
      BY <1>7, <2>1 DEF Is, Rounds, Mends, Open, Phase
    <2> QED
      BY <1>0, <2>1, <2>2, LeavesLess DEF Lessens
  <1>8. CASE Rectify(c)
    <2>1. PICK r \in Rectifiers \ call[c].fixed :
            call' = [call EXCEPT ![c].at = "plan", ![c].try = @ + 1, ![c].fixed = @ \union {r},
                                 ![c].most = AtLeastOnceMore(c)]
      BY <1>8 DEF Rectify
    <2>2. /\ k.at = "plan" /\ k.banned = call[c].banned /\ k.fixed = call[c].fixed \union {r}
          /\ call[c].at = "judge"
      BY <1>0, <1>8, <2>1 DEF CallType, Rectify, Is
    <2>3. Rounds(k) = Rounds(call[c])
      BY <2>2 DEF Rounds, Open
    <2>4. Mends(k) < Mends(call[c])
      <3>1. IsFiniteSet(Rectifiers \ call[c].fixed)
        BY SerialAssumption, FS_Subset
      <3>2. Rectifiers \ k.fixed = (Rectifiers \ call[c].fixed) \ {r}
        BY <2>2
      <3>3. Cardinality((Rectifiers \ call[c].fixed) \ {r})
              = Cardinality(Rectifiers \ call[c].fixed) - 1
        BY <3>1, FS_RemoveElement
      <3> QED
        BY <1>1, <3>2, <3>3 DEF Mends
    <2> QED
      BY <1>0, <2>3, <2>4, LeavesLess DEF Lessens
  <1>9. CASE Pause(c)
    <2>1. /\ k.at = "pause" /\ k.banned = call[c].banned /\ k.fixed = call[c].fixed
          /\ k.most = call[c].most /\ k.try = call[c].try /\ call[c].at = "judge"
      BY <1>0, <1>9 DEF Pause, CallType, Is
    <2>2. /\ Rounds(k) = Rounds(call[c]) /\ Mends(k) = Mends(call[c])
          /\ Phase(k) < Phase(call[c])
      BY <2>1 DEF Rounds, Mends, Open, Phase
    <2> QED
      BY <1>0, <2>1, <2>2, LeavesLess DEF Lessens
  <1>10. CASE PauseIsOver(c)
    <2>1. /\ k.at = "plan" /\ k.banned = call[c].banned /\ k.fixed = call[c].fixed
          /\ k.most = call[c].most /\ k.try = call[c].try + 1 /\ call[c].at = "pause"
      BY <1>0, <1>10 DEF PauseIsOver, CallType, Is
    <2>2. /\ Rounds(k) = Rounds(call[c]) /\ Mends(k) = Mends(call[c])
          /\ k.most - k.try < call[c].most - call[c].try
      BY <1>1, <2>1 DEF Rounds, Mends, Open
    <2> QED
      BY <1>0, <2>2, LeavesLess DEF Lessens
  <1>11. CASE SkipCandidate(c) \/ SwitchAway(c)
    <2> DEFINE v == Target(c)
    <2>1. /\ k.at = "choose" /\ k.banned = call[c].banned \union {v}
          /\ call[c].at \in {"plan", "judge"}
      BY <1>0, <1>11 DEF SkipCandidate, SwitchAway, CallType, Is, Target
    <2>2. v \in Vendors \ call[c].banned
      BY <1>0, <2>1 DEF LoopOK, RoundOK, Round
    <2>3. Open(k) = Open(call[c]) - 1
      <3>1. IsFiniteSet(Vendors \ call[c].banned)
        BY SerialConstants
      <3>2. Vendors \ k.banned = (Vendors \ call[c].banned) \ {v}
        BY <2>1
      <3>3. Cardinality((Vendors \ call[c].banned) \ {v}) = Cardinality(Vendors \ call[c].banned) - 1
        BY <2>2, <3>1, FS_RemoveElement
      <3> QED
        BY <3>2, <3>3 DEF Open
    <2>4. Rounds(k) < Rounds(call[c])
      BY <1>1, <2>1, <2>3 DEF Rounds
    <2> QED
      BY <1>0, <2>4, LeavesLess DEF Lessens
  <1>12. CASE Select(c)
    <2>1. ASSUME NEW v \in Vendors, EnterRound(c, v) PROVE Lessens(c)
      <3>1. k.at = "plan" /\ k.banned = call[c].banned /\ call[c].at = "choose"
        BY <1>0, <1>12, <2>1 DEF EnterRound, CallType, Select, Is
      <3>2. Rounds(k) < Rounds(call[c])
        BY <1>1, <3>1 DEF Rounds, Open
      <3> QED
        BY <1>0, <3>2, LeavesLess DEF Lessens
    <2>2. ASSUME Exhausted(c) PROVE Lessens(c)
      BY <1>2, <2>2 DEF Exhausted, Lessens
    <2>3. ASSUME EndCall(c, "select", call[c].last) PROVE Lessens(c)
      BY <1>2, <2>3 DEF Lessens
    <2> QED
      BY <1>12, <2>1, <2>2, <2>3 DEF Select
  <1>13. CASE \/ GoUnwatched(c) \/ Acquire(c) \/ AcquireFails(c) \/ RefusedByItself(c)
              \/ DialFails(c) \/ AnswerFails(c)
    BY <1>6, <1>7, <1>13
    DEF GoUnwatched, Acquire, AcquireFails, RefusedByItself, DialFails, AnswerFails
  <1> QED
    BY <1>3, <1>4, <1>5, <1>8, <1>9, <1>10, <1>11, <1>12, <1>13 DEF CallStep, CallGoesOn

LEMMA OthersStay ==
  ASSUME CallsInv, NEW c \in Callers, NEW w \in Callers, CallStep(w), w # c
  PROVE  call'[c] = call[c]
  <1>0. call \in [Callers -> CallType]
    BY DEF CallsInv, SerialTypeOK
  <1>1. CASE Sends(w) \/ (\E class : FailsWith(w, class)) \/ (\E told, last : EndCall(w, told, last))
             \/ \E v : EnterRound(w, v)
    BY <1>0, <1>1 DEF Sends, FailsWith, EndCall, EnterRound
  <1>2. CASE \/ Answered(w) \/ Committed(w) \/ StreamEnds(w) \/ ClientLeaves(w)
             \/ SkipCandidate(w) \/ SwitchAway(w) \/ Rectify(w) \/ Pause(w) \/ PauseIsOver(w)
    BY <1>0, <1>2
    DEF Answered, Committed, StreamEnds, ClientLeaves, SkipCandidate, SwitchAway, Rectify,
        Pause, PauseIsOver
  <1> QED
    BY <1>1, <1>2
    DEF CallStep, CallGoesOn, Arrive, PlanFails, GoUnwatched, Acquire, AcquireFails,
        RefusedByItself, DialFails, AnswerFails, CannotRectify, GiveUpCall, PauseIsCancelled,
        Select, Exhausted

LEMMA SerialLessens ==
  CallsInv /\ CallsInv' /\ [SerialNext]_serialVars =>
    [\A c \in Callers : Underway(c) /\ call'[c].at # call[c].at =>
       Less(Left(c)', Left(c)) \/ ~Underway(c)']_serialVars
  <1> SUFFICES ASSUME CallsInv, CallsInv', SerialNext, NEW c \in Callers,
                      Underway(c), call'[c].at # call[c].at
               PROVE  Lessens(c)
    BY DEF Lessens
  <1>1. ASSUME NEW w \in Callers, CallStep(w) PROVE Lessens(c)
    <2>1. w = c
      BY <1>1, OthersStay
    <2> QED
      BY <1>1, <2>1, CallIsLess
  <1>2. ASSUME UNCHANGED call PROVE FALSE
    BY <1>2
  <1> QED
    BY <1>1, <1>2 DEF SerialNext, SessionIsEnded, TimePasses

\* Whatever a call does next, a retry, a mended body, another provider, leaves it with less
\* to do, and nothing that it counts down from is infinite: the loop ends (forwardLoop).
THEOREM SerialEnds == SerialSpec => CallsComeToAnEnd
  <1>1. SerialSpec => []CallsInv
    BY SerialInitInv, SerialStepInv, PTL DEF SerialSpec
  <1> QED
    BY <1>1, SerialLessens, PTL DEF SerialSpec, CallsComeToAnEnd

-----------------------------------------------------------------------------
(* Who holds the places. *)

HoldType == [vendor : Vendors \union {NoVendor}, member : Members \union {<<>>}, since : Nat,
             sure : BOOLEAN]

\* An attempt that gives a place back is under way, and the member is its session's.
AtOK(c) == hold[c].vendor # NoVendor => call[c].at \in {"sent", "stream"}

MineOK(c) ==
  IF hold[c].vendor = NoVendor THEN hold[c] = NoHold
  ELSE hold[c].member \in Members /\ hold[c].member[1] = c /\ hold[c].since <= slotTime

\* One that is sure of its place has it, as old as it knows, until it outlives the TTL.
SureOK(c) ==
  hold[c].vendor # NoVendor /\ hold[c].sure /\ ~Outlived(c) =>
    /\ hold[c].member \in DOMAIN places[hold[c].vendor]
    /\ places[hold[c].vendor][hold[c].member] = hold[c].since

Owned(v, m) == <<v, m>> \in stray \/ \E c \in Callers : Holds(c, v) /\ hold[c].member = m

HoldsInv ==
  /\ SlotsOK
  /\ hold \in [Callers -> HoldType]
  /\ \A c \in Callers : AtOK(c) /\ MineOK(c) /\ SureOK(c)
  /\ \A v \in Vendors : \A m \in DOMAIN places[v] : Owned(v, m)

LEMMA NoHoldType == NoHold \in HoldType /\ NoHold.vendor = NoVendor
  BY DEF NoHold, HoldType

LEMMA HoldsInit == SerialInit => HoldsInv
  <1> SUFFICES ASSUME SerialInit PROVE HoldsInv
    OBVIOUS
  <1>1. places = [v \in Vendors |-> <<>>] /\ refs = [v \in Vendors |-> {}] /\ slotTime = 0
    BY DEF SerialInit, SlotInit
  <1>2. <<>> \in Tables /\ DOMAIN <<>> = {}
    <2>1. DOMAIN <<>> = {} /\ <<>> \in [{} -> Nat] /\ {} \in SUBSET Members
      OBVIOUS
    <2> QED
      BY <2>1, TableMade
  <1>3. SlotsOK
    <2>1. IsFiniteSet({}) /\ Cardinality({}) = 0
      BY FS_EmptySet
    <2> QED
      BY <1>1, <1>2, <2>1, SlotAssumption DEF SlotsOK
  <1>4. hold \in [Callers -> HoldType] /\ \A c \in Callers : hold[c] = NoHold
    BY NoHoldType DEF SerialInit
  <1> QED
    BY <1>1, <1>2, <1>3, <1>4, NoHoldType DEF HoldsInv, AtOK, MineOK, SureOK

\* Places and holds stay; whoever holds one stays under way.
LEMMA HoldsKept ==
  ASSUME HoldsInv, UNCHANGED <<slotVars, hold, stray>>, \A c \in Callers : AtOK(c)'
  PROVE  HoldsInv'
  <1>1. UNCHANGED <<places, refs, slotTime, hold, stray>>
    BY DEF slotVars
  <1>2. SlotsOK'
    BY <1>1 DEF HoldsInv, SlotsOK
  <1>3. \A c \in Callers : MineOK(c)' /\ SureOK(c)'
    BY <1>1 DEF HoldsInv, MineOK, SureOK, Outlived
  <1>4. ASSUME NEW v \in Vendors, NEW m \in DOMAIN places'[v] PROVE Owned(v, m)'
    <2>1. Owned(v, m)
      BY <1>1 DEF HoldsInv
    <2> QED
      BY <1>1, <2>1 DEF Owned, Holds
  <1> QED
    BY <1>1, <1>2, <1>3, <1>4 DEF HoldsInv

\* The script for a new member: everybody who is sure of a place keeps it, and what is left
\* of the table belonged to somebody before.
LEMMA TrackKeeps ==
  ASSUME HoldsInv, NEW c \in Callers, NEW v \in Vendors, CheckAndTrack(v, NewMember(v, c)),
         UNCHANGED slotTime
  PROVE  /\ SlotsOK'
         /\ ~Full(v) => /\ NewMember(v, c) \in DOMAIN places'[v]
                        /\ places'[v][NewMember(v, c)] = slotTime
         /\ \A w \in Callers : hold'[w] = hold[w] => SureOK(w)'
         /\ \A u \in Vendors : \A x \in DOMAIN places'[u] :
              \/ u = v /\ x = NewMember(v, c) /\ ~Full(v)
              \/ x \in DOMAIN places[u] /\ (u = v => x \notin Lapsed(v))
  <1> DEFINE m == NewMember(v, c)
  <1>0. SlotsOK /\ hold \in [Callers -> HoldType] /\ slotTime \in Nat
    BY DEF HoldsInv, SlotsOK
  <1>1. m \in Members /\ m \notin DOMAIN places[v]
    BY <1>0, NewMemberIsNew
  <1>2. DOMAIN Swept(v) = DOMAIN places[v] \ Lapsed(v)
    BY <1>0, SweptIs
  <1> HIDE DEF m
  <1>3. /\ SlotsOK'
        /\ \A w \in Vendors \ {v} : places'[w] = places[w]
        /\ DOMAIN places'[v] = IF Full(v) THEN DOMAIN Swept(v) ELSE DOMAIN Swept(v) \union {m}
        /\ \A x \in DOMAIN Swept(v) \ {m} : places'[v][x] = places[v][x]
        /\ ~Full(v) => places'[v][m] = slotTime
    BY <1>0, <1>1, TrackSays DEF m
  <1>4. ASSUME NEW w \in Callers, hold'[w] = hold[w] PROVE SureOK(w)'
    <2> SUFFICES ASSUME hold[w].vendor # NoVendor, hold[w].sure, ~Outlived(w)
                 PROVE  /\ hold[w].member \in DOMAIN places'[hold[w].vendor]
                        /\ places'[hold[w].vendor][hold[w].member] = hold[w].since
      BY <1>4 DEF SureOK, Outlived
    <2>1. /\ hold[w].member \in DOMAIN places[hold[w].vendor]
          /\ places[hold[w].vendor][hold[w].member] = hold[w].since
          /\ hold[w].vendor \in Vendors
      BY <1>0 DEF HoldsInv, SureOK, HoldType
    <2>2. CASE hold[w].vendor = v
      <3>1. hold[w].member \notin Lapsed(v)
        BY <2>1, <2>2 DEF Lapsed, Outlived
      <3>2. hold[w].member \in DOMAIN Swept(v) \ {m}
        BY <1>1, <1>2, <2>1, <2>2, <3>1
      <3> QED
        BY <1>3, <2>1, <2>2, <3>2
    <2>3. CASE hold[w].vendor # v
      BY <1>3, <2>1, <2>3
    <2> QED
      BY <2>2, <2>3
  <1>5. ASSUME NEW u \in Vendors, NEW x \in DOMAIN places'[u]
        PROVE  \/ u = v /\ x = m /\ ~Full(v)
               \/ x \in DOMAIN places[u] /\ (u = v => x \notin Lapsed(v))
    BY <1>2, <1>3, <1>5
  <1> QED
    BY <1>3, <1>4, <1>5 DEF m

\* What was owned and was not swept stays owned.
LEMMA OwnedStays ==
  ASSUME HoldsInv, NEW c \in Callers, hold[c].vendor = NoVendor, NEW v \in Vendors,
         \A w \in Callers \ {c} : hold'[w] = hold[w],
         StrayAfterSweep(v) \subseteq stray' \/ stray \subseteq stray',
         NEW u \in Vendors, NEW x \in DOMAIN places[u], u = v => x \notin Lapsed(v)
  PROVE  Owned(u, x)'
  <1>1. Owned(u, x)
    BY DEF HoldsInv
  <1>2. ASSUME <<u, x>> \in stray PROVE <<u, x>> \in stray'
    BY <1>2 DEF StrayAfterSweep
  <1>3. ASSUME NEW w \in Callers, Holds(w, u), hold[w].member = x
        PROVE  Owned(u, x)'
    <2>1. w # c
      BY <1>3, SerialConstants DEF Holds
    <2> QED
      BY <1>3, <2>1 DEF Holds, Owned
  <1> QED
    BY <1>1, <1>2, <1>3 DEF Owned

\* An attempt takes its place, or goes on without being sure of one.
LEMMA TakesInv ==
  ASSUME HoldsInv, NEW c \in Callers, hold[c].vendor = NoVendor, Target(c) \in Vendors,
         UNCHANGED slotTime, NEW sure \in BOOLEAN,
         HoldOn(c, NewMember(Target(c), c), sure),
         \/ /\ CheckAndTrack(Target(c), NewMember(Target(c), c))
            /\ stray' = StrayAfterSweep(Target(c))
            /\ sure => ~Full(Target(c))
         \/ UNCHANGED <<places, refs, stray>> /\ ~sure,
         \A w \in Callers : AtOK(w)'
  PROVE  HoldsInv'
  <1> DEFINE v == Target(c)
             m == NewMember(v, c)
             h == [vendor |-> v, member |-> m, since |-> slotTime, sure |-> sure]
  <1>0. SlotsOK /\ hold \in [Callers -> HoldType] /\ slotTime \in Nat
    BY DEF HoldsInv, SlotsOK
  <1>1. m \in Members /\ m[1] = c
    BY <1>0, NewMemberIsNew
  <1>2. h \in HoldType
    BY <1>0, <1>1 DEF HoldType
  <1>3. hold' = [hold EXCEPT ![c] = h]
    BY DEF HoldOn
  <1>4. /\ hold' \in [Callers -> HoldType] /\ hold'[c] = h
        /\ \A w \in Callers \ {c} : hold'[w] = hold[w]
    BY <1>0, <1>2, <1>3
  <1>5. h.vendor = v /\ h.member = m /\ h.since = slotTime /\ h.sure = sure
    OBVIOUS
  <1> HIDE DEF h, m
  <1>6. v # NoVendor
    BY SerialConstants
  <1>7. \A w \in Callers : MineOK(w)'
    <2>1. MineOK(c)'
      BY <1>0, <1>1, <1>4, <1>5, <1>6 DEF MineOK
    <2>2. ASSUME NEW w \in Callers, w # c PROVE MineOK(w)'
      BY <1>4, <2>2 DEF MineOK, HoldsInv
    <2> QED
      BY <2>1, <2>2
  <1>8. CASE CheckAndTrack(v, m) /\ stray' = StrayAfterSweep(v) /\ (sure => ~Full(v))
    <2>1. /\ SlotsOK'
          /\ ~Full(v) => m \in DOMAIN places'[v] /\ places'[v][m] = slotTime
          /\ \A w \in Callers : hold'[w] = hold[w] => SureOK(w)'
          /\ \A u \in Vendors : \A x \in DOMAIN places'[u] :
               \/ u = v /\ x = m /\ ~Full(v)
               \/ x \in DOMAIN places[u] /\ (u = v => x \notin Lapsed(v))
      BY <1>8, TrackKeeps DEF m
    <2>2. SureOK(c)'
      BY <1>4, <1>5, <1>8, <2>1 DEF SureOK
    <2>3. \A w \in Callers : SureOK(w)'
      BY <1>4, <2>1, <2>2
    <2>4. ASSUME NEW u \in Vendors, NEW x \in DOMAIN places'[u] PROVE Owned(u, x)'
      <3>1. CASE u = v /\ x = m
        BY <1>4, <1>5, <3>1 DEF Owned, Holds
      <3>2. CASE x \in DOMAIN places[u] /\ (u = v => x \notin Lapsed(v))
        BY <1>4, <1>8, <3>2, OwnedStays
      <3> QED
        BY <2>1, <3>1, <3>2
    <2> QED
      BY <1>4, <1>7, <2>1, <2>3, <2>4 DEF HoldsInv
  <1>9. CASE UNCHANGED <<places, refs, stray>> /\ ~sure
    <2>1. SlotsOK'
      BY <1>0, <1>9 DEF SlotsOK
    <2>2. SureOK(c)'
      BY <1>4, <1>5, <1>9 DEF SureOK
    <2>3. ASSUME NEW w \in Callers, w # c PROVE SureOK(w)'
      BY <1>4, <1>9, <2>3 DEF SureOK, Outlived, HoldsInv
    <2>4. ASSUME NEW u \in Vendors, NEW x \in DOMAIN places'[u] PROVE Owned(u, x)'
      <3>1. Owned(u, x)
        BY <1>9 DEF HoldsInv
      <3>2. ASSUME NEW w \in Callers, Holds(w, u), hold[w].member = x PROVE Owned(u, x)'
        <4>1. w # c
          BY <3>2, SerialConstants DEF Holds
        <4> QED
          BY <1>4, <3>2, <4>1 DEF Holds, Owned
      <3> QED
        BY <1>9, <3>1, <3>2 DEF Owned
    <2> QED
      BY <1>4, <1>7, <2>1, <2>2, <2>3, <2>4 DEF HoldsInv
  <1> QED
    BY <1>8, <1>9 DEF m

\* The house is full, or the attempt was refused because of its own first try: a sweep, and
\* perhaps one place that nobody gives back.
LEMMA RefusedInv ==
  ASSUME HoldsInv, NEW c \in Callers, hold[c].vendor = NoVendor, Target(c) \in Vendors,
         UNCHANGED <<slotTime, hold>>,
         CheckAndTrack(Target(c), NewMember(Target(c), c)),
         StrayAfterSweep(Target(c)) \subseteq stray',
         Full(Target(c)) \/ <<Target(c), NewMember(Target(c), c)>> \in stray',
         \A w \in Callers : AtOK(w)'
  PROVE  HoldsInv'
  <1> DEFINE v == Target(c)
             m == NewMember(v, c)
  <1>1. /\ SlotsOK'
        /\ \A w \in Callers : hold'[w] = hold[w] => SureOK(w)'
        /\ \A u \in Vendors : \A x \in DOMAIN places'[u] :
             \/ u = v /\ x = m /\ ~Full(v)
             \/ x \in DOMAIN places[u] /\ (u = v => x \notin Lapsed(v))
    BY TrackKeeps
  <1> HIDE DEF m
  <1>2. \A w \in Callers : MineOK(w)' /\ SureOK(w)'
    BY <1>1 DEF MineOK, HoldsInv
  <1>3. ASSUME NEW u \in Vendors, NEW x \in DOMAIN places'[u] PROVE Owned(u, x)'
    <2>1. CASE u = v /\ x = m /\ ~Full(v)
      BY <2>1 DEF Owned, m
    <2>2. CASE x \in DOMAIN places[u] /\ (u = v => x \notin Lapsed(v))
      BY <2>2, OwnedStays
    <2> QED
      BY <1>1, <2>1, <2>2
  <1> QED
    BY <1>1, <1>2, <1>3 DEF HoldsInv

\* A body is closed: the place goes with it, or nobody knows of it any more.
LEMMA GivesBackInv ==
  ASSUME HoldsInv, NEW c \in Callers, GivesBack(c), \A w \in Callers : AtOK(w)'
  PROVE  HoldsInv'
  <1> DEFINE h == hold[c]
  <1>0. /\ SlotsOK /\ hold \in [Callers -> HoldType] /\ slotTime' = slotTime
        /\ \A w \in Callers : MineOK(w) /\ SureOK(w)
        /\ \A v \in Vendors : \A m \in DOMAIN places[v] : Owned(v, m)
    BY DEF HoldsInv, GivesBack
  <1>1. hold' = [hold EXCEPT ![c] = NoHold]
    BY DEF GivesBack
  <1>2. /\ hold' \in [Callers -> HoldType] /\ hold'[c] = NoHold
        /\ \A w \in Callers \ {c} : hold'[w] = hold[w]
    BY <1>0, <1>1, NoHoldType
  <1>3. h \in HoldType /\ (h # NoHold => h.vendor \in Vendors /\ h.member[1] = c)
    BY <1>0 DEF MineOK, HoldType
  <1>4. \A w \in Callers : MineOK(w)'
    <2>1. MineOK(c)'
      BY <1>2, NoHoldType DEF MineOK
    <2>2. ASSUME NEW w \in Callers, w # c PROVE MineOK(w)'
      BY <1>0, <1>2, <2>2 DEF MineOK
    <2> QED
      BY <2>1, <2>2
  <1>5. SureOK(c)'
    BY <1>2, NoHoldType DEF SureOK
  <1>6. ASSUME NEW u \in Vendors, NEW x \in DOMAIN places[u],
               stray \subseteq stray',
               Holds(c, u) /\ h.member = x => <<u, x>> \in stray'
        PROVE  Owned(u, x)'
    <2>1. Owned(u, x)
      BY <1>0
    <2>2. ASSUME NEW w \in Callers, w # c, Holds(w, u), hold[w].member = x
          PROVE  Owned(u, x)'
      BY <1>2, <2>2 DEF Holds, Owned
    <2> QED
      BY <1>6, <2>1, <2>2 DEF Owned
  <1> HIDE DEF h
  <1>7. CASE UNCHANGED <<places, refs>> /\ stray \subseteq stray'
             /\ (h = NoHold \/ (h.member \in DOMAIN places[h.vendor]
                                  => <<h.vendor, h.member>> \in stray'))
    <2>1. SlotsOK'
      BY <1>0, <1>7 DEF SlotsOK
    <2>2. ASSUME NEW w \in Callers, w # c PROVE SureOK(w)'
      BY <1>0, <1>2, <1>7, <2>2 DEF SureOK, Outlived
    <2>3. ASSUME NEW u \in Vendors, NEW x \in DOMAIN places'[u] PROVE Owned(u, x)'
      <3>1. x \in DOMAIN places[u]
        BY <1>7, <2>3
      <3>2. Holds(c, u) /\ h.member = x => <<u, x>> \in stray'
        <4> SUFFICES ASSUME hold[c].vendor = u, h.member = x PROVE <<u, x>> \in stray'
          BY DEF Holds
        <4>1. h.vendor = u /\ h # NoHold
          BY NoHoldType, SerialConstants DEF h
        <4> QED
          BY <1>7, <3>1, <4>1
      <3> QED
        BY <1>6, <1>7, <3>1, <3>2
    <2> QED
      BY <1>2, <1>4, <1>5, <2>1, <2>2, <2>3 DEF HoldsInv
  <1>8. CASE h # NoHold /\ ReleasePlace(h.vendor, h.member) /\ UNCHANGED stray
    <2> DEFINE v == h.vendor   m == h.member
    <2>0. v \in Vendors /\ m[1] = c /\ h = hold[c]
      BY <1>3, <1>8 DEF h
    <2> HIDE DEF v, m
    <2>1. /\ SlotsOK'
          /\ \A w \in Vendors \ {v} : places'[w] = places[w]
          /\ DOMAIN places'[v] = DOMAIN places[v] \ {m}
          /\ \A x \in DOMAIN places'[v] : places'[v][x] = places[v][x]
      <3>1. ReleasePlace(v, m)
        BY <1>8 DEF v, m
      <3> QED
        BY <1>0, <2>0, <3>1, ReleaseSays
    <2>2. ASSUME NEW w \in Callers, w # c PROVE SureOK(w)'
      <3> SUFFICES ASSUME hold[w].vendor # NoVendor, hold[w].sure, ~Outlived(w)
                   PROVE  /\ hold[w].member \in DOMAIN places'[hold[w].vendor]
                          /\ places'[hold[w].vendor][hold[w].member] = hold[w].since
        BY <1>0, <1>2, <2>2 DEF SureOK, Outlived
      <3>1. /\ hold[w].member \in DOMAIN places[hold[w].vendor]
            /\ places[hold[w].vendor][hold[w].member] = hold[w].since
            /\ hold[w].vendor \in Vendors /\ hold[w].member[1] = w
        BY <1>0 DEF SureOK, HoldType, MineOK
      <3>2. hold[w].member # m
        BY <2>0, <2>2, <3>1
      <3>3. CASE hold[w].vendor = v
        BY <2>1, <3>1, <3>2, <3>3
      <3>4. CASE hold[w].vendor # v
        BY <2>1, <3>1, <3>4
      <3> QED
        BY <3>3, <3>4
    <2>3. ASSUME NEW u \in Vendors, NEW x \in DOMAIN places'[u] PROVE Owned(u, x)'
      <3>1. x \in DOMAIN places[u] /\ ~(u = v /\ x = m)
        BY <2>1, <2>3
      <3>2. ~(Holds(c, u) /\ h.member = x)
        BY <2>0, <3>1 DEF Holds, v, m
      <3> QED
        BY <1>6, <1>8, <3>1, <3>2
    <2> QED
      BY <1>2, <1>4, <1>5, <2>1, <2>2, <2>3 DEF HoldsInv
  <1>9. \/ h = NoHold /\ UNCHANGED <<places, refs, stray>>
        \/ h # NoHold /\ ReleasePlace(h.vendor, h.member) /\ UNCHANGED stray
        \/ /\ h # NoHold /\ UNCHANGED <<places, refs>>
           /\ stray' = IF h.member \in DOMAIN places[h.vendor]
                       THEN stray \union {<<h.vendor, h.member>>} ELSE stray
    BY DEF GivesBack, h
  <1> QED
    BY <1>7, <1>8, <1>9

\* An administrator ends a session: those of its attempts that are listed run on, but they
\* are not counted any more.
LEMMA EndedInv ==
  ASSUME HoldsInv, NEW v \in Vendors, NEW c \in Callers, SessionIsEnded(v, c)
  PROVE  HoldsInv'
  <1>0. /\ SlotsOK /\ hold \in [Callers -> HoldType] /\ UNCHANGED <<slotTime, call>>
        /\ \A w \in Callers : AtOK(w) /\ MineOK(w) /\ SureOK(w)
        /\ \A u \in Vendors : \A m \in DOMAIN places[u] : Owned(u, m)
    BY DEF HoldsInv, SessionIsEnded, ClearProviderIndex
  <1>1. PICK listed \in SUBSET {m \in DOMAIN places[v] : m[1] = c} :
          /\ ClearProviderIndex(v, listed)
          /\ hold' = [hold EXCEPT ![c].sure = @ /\ hold[c].member \notin listed]
          /\ stray' = {s \in stray : s[1] = v => s[2] \notin listed}
    BY DEF SessionIsEnded
  <1>2. /\ SlotsOK'
        /\ \A w \in Vendors \ {v} : places'[w] = places[w]
        /\ DOMAIN places'[v] = DOMAIN places[v] \ listed
        /\ \A x \in DOMAIN places'[v] : places'[v][x] = places[v][x]
    BY <1>0, <1>1, TakenOut DEF ClearProviderIndex
  <1>3. (hold[c].sure /\ hold[c].member \notin listed) \in BOOLEAN
    OBVIOUS
  <1>4. /\ hold' \in [Callers -> HoldType]
        /\ \A w \in Callers \ {c} : hold'[w] = hold[w]
        /\ hold'[c].vendor = hold[c].vendor /\ hold'[c].member = hold[c].member
        /\ hold'[c].since = hold[c].since
        /\ hold'[c].sure = (hold[c].sure /\ hold[c].member \notin listed)
        /\ hold'[c] = [hold[c] EXCEPT !.sure = @ /\ hold[c].member \notin listed]
    BY <1>0, <1>1, <1>3 DEF HoldType
  <1>5. ASSUME NEW w \in Callers
        PROVE  /\ hold'[w].vendor = hold[w].vendor /\ hold'[w].member = hold[w].member
               /\ hold'[w].since = hold[w].since
    BY <1>4
  <1>6. ASSUME NEW w \in Callers PROVE AtOK(w)' /\ MineOK(w)'
    <2>1. AtOK(w)'
      BY <1>0, <1>5 DEF AtOK
    <2>2. ASSUME hold[w].vendor # NoVendor PROVE MineOK(w)'
      BY <1>0, <1>5, <2>2 DEF MineOK
    <2>3. ASSUME hold[w].vendor = NoVendor PROVE MineOK(w)'
      <3>1. hold[w] = NoHold
        BY <1>0, <2>3 DEF MineOK
      <3>2. hold'[w] = NoHold
        <4>1. CASE w = c
          <5>1. hold[c].sure = FALSE
            BY <3>1, <4>1 DEF NoHold
          <5> QED
            BY <1>4, <3>1, <4>1, <5>1 DEF NoHold
        <4> QED
          BY <1>4, <3>1, <4>1
      <3> QED
        BY <3>2, NoHoldType DEF MineOK
    <2> QED
      BY <2>1, <2>2, <2>3
  <1>7. ASSUME NEW w \in Callers PROVE SureOK(w)'
    <2> SUFFICES ASSUME hold[w].vendor # NoVendor, hold'[w].sure, ~Outlived(w)
                 PROVE  /\ hold[w].member \in DOMAIN places'[hold[w].vendor]
                        /\ places'[hold[w].vendor][hold[w].member] = hold[w].since
      BY <1>0, <1>5 DEF SureOK, Outlived
    <2>1. hold[w].sure
      BY <1>4
    <2>2. /\ hold[w].member \in DOMAIN places[hold[w].vendor]
          /\ places[hold[w].vendor][hold[w].member] = hold[w].since
          /\ hold[w].vendor \in Vendors /\ hold[w].member[1] = w
      BY <1>0, <2>1 DEF SureOK, HoldType, MineOK
    <2>3. hold[w].member \notin listed
      <3>1. CASE w = c
        BY <1>4, <3>1
      <3>2. CASE w # c
        BY <1>1, <2>2, <3>2
      <3> QED
        BY <3>1, <3>2
    <2>4. CASE hold[w].vendor = v
      BY <1>2, <2>2, <2>3, <2>4
    <2>5. CASE hold[w].vendor # v
      BY <1>2, <2>2, <2>5
    <2> QED
      BY <2>4, <2>5
  <1>8. ASSUME NEW u \in Vendors, NEW x \in DOMAIN places'[u] PROVE Owned(u, x)'
    <2>1. x \in DOMAIN places[u] /\ (u = v => x \notin listed)
      BY <1>2, <1>8
    <2>2. Owned(u, x)
      BY <1>0, <2>1
    <2>3. <<u, x>> \in stray => <<u, x>> \in stray'
      BY <1>1, <2>1
    <2>4. ASSUME NEW w \in Callers, Holds(w, u), hold[w].member = x
          PROVE  Holds(w, u)' /\ hold'[w].member = x
      BY <1>5, <2>4 DEF Holds
    <2> QED
      BY <2>2, <2>3, <2>4 DEF Owned
  <1> QED
    BY <1>2, <1>4, <1>6, <1>7, <1>8 DEF HoldsInv

\* The clock moves: an attempt may outlive the TTL, and is not counted on then.
LEMMA TimeInv == ASSUME HoldsInv, TimePasses PROVE HoldsInv'
  <1>0. /\ SlotsOK /\ hold \in [Callers -> HoldType]
        /\ UNCHANGED <<places, refs, call, hold, stray>> /\ slotTime' = slotTime + 1
        /\ slotTime \in Nat /\ SlotTTL \in Nat
        /\ \A w \in Callers : AtOK(w) /\ MineOK(w) /\ SureOK(w)
        /\ \A u \in Vendors : \A m \in DOMAIN places[u] : Owned(u, m)
    BY SlotAssumption DEF HoldsInv, TimePasses, SlotTick, historyVars, SlotsOK
  <1>1. SlotsOK'
    BY <1>0 DEF SlotsOK
  <1>2. ASSUME NEW w \in Callers PROVE AtOK(w)' /\ MineOK(w)' /\ SureOK(w)'
    <2>1. hold[w].since \in Nat
      BY <1>0 DEF HoldType
    <2>2. Outlived(w) => Outlived(w)'
      BY <1>0, <2>1 DEF Outlived
    <2>3. AtOK(w) /\ MineOK(w) /\ SureOK(w)
      BY <1>0
    <2>4. AtOK(w)'
      BY <1>0, <2>3 DEF AtOK
    <2>5. MineOK(w)'
      BY <1>0, <2>1, <2>3 DEF MineOK
    <2>6. SureOK(w)'
      BY <1>0, <2>2, <2>3 DEF SureOK
    <2> QED
      BY <2>4, <2>5, <2>6
  <1>3. ASSUME NEW u \in Vendors, NEW x \in DOMAIN places'[u] PROVE Owned(u, x)'
    BY <1>0, <1>3 DEF Owned, Holds
  <1> QED
    BY <1>0, <1>1, <1>2, <1>3 DEF HoldsInv

\* A step of one call disturbs who is under way only for that call.
LEMMA AtStays ==
  ASSUME CallsInv, HoldsInv, NEW c \in Callers, CallStep(c),
         \A w \in Callers \ {c} : hold'[w] = hold[w],
         hold'[c].vendor = NoVendor \/ call'[c].at \in {"sent", "stream"}
  PROVE  \A w \in Callers : AtOK(w)'
  <1>1. AtOK(c)'
    BY DEF AtOK
  <1>2. ASSUME NEW w \in Callers, w # c PROVE AtOK(w)'
    <2>1. call'[w] = call[w]
      BY <1>2, OthersStay
    <2> QED
      BY <1>2, <2>1 DEF AtOK, HoldsInv
  <1> QED
    BY <1>1, <1>2

LEMMA CallHolds ==
  ASSUME CallsInv, HoldsInv, NEW c \in Callers, CallStep(c)
  PROVE  HoldsInv'
  <1>0. /\ hold \in [Callers -> HoldType] /\ call \in [Callers -> CallType]
        /\ AtOK(c) /\ MineOK(c)
        /\ call[c].at = "plan" => Target(c) \in Vendors
    BY DEF HoldsInv, CallsInv, SerialTypeOK, LoopOK, RoundOK, Round
  <1>1. CASE \/ Arrive(c) \/ SkipCandidate(c) \/ PlanFails(c) \/ GoUnwatched(c) \/ Rectify(c)
             \/ CannotRectify(c) \/ GiveUpCall(c) \/ Pause(c) \/ PauseIsOver(c)
             \/ PauseIsCancelled(c) \/ SwitchAway(c) \/ Select(c)
    <2>1. /\ UNCHANGED <<slotVars, hold, stray>>
          /\ call[c].at \in {"idle", "plan", "judge", "pause", "choose"}
      BY <1>1
      DEF Arrive, SkipCandidate, PlanFails, GoUnwatched, Rectify, CannotRectify, GiveUpCall,
          Pause, PauseIsOver, PauseIsCancelled, SwitchAway, Select, besides, historyVars, Is
    <2>2. hold'[c].vendor = NoVendor
      BY <1>0, <2>1 DEF AtOK
    <2> QED
      BY <2>1, <2>2, AtStays, HoldsKept
  <1>2. CASE Committed(c) \/ ClientLeaves(c)
    <2>1. UNCHANGED <<slotVars, hold, stray>>
      BY <1>2 DEF Committed, ClientLeaves, besides, historyVars
    <2>2. call'[c].at \in {"sent", "stream"} \/ (call'[c].at = call[c].at)
      BY <1>0, <1>2 DEF Committed, ClientLeaves, CallType
    <2>3. hold'[c].vendor = NoVendor \/ call'[c].at \in {"sent", "stream"}
      BY <1>0, <2>1, <2>2 DEF AtOK
    <2> QED
      BY <2>1, <2>3, AtStays, HoldsKept
  <1>3. CASE DialFails(c) \/ AnswerFails(c) \/ Answered(c) \/ StreamEnds(c)
    <2>1. GivesBack(c)
      BY <1>3 DEF DialFails, AnswerFails, Answered, StreamEnds
    <2>2. hold'[c] = NoHold /\ \A w \in Callers \ {c} : hold'[w] = hold[w]
      BY <1>0, <2>1 DEF GivesBack
    <2> QED
      BY <2>1, <2>2, NoHoldType, AtStays, GivesBackInv
  <1>4. CASE Acquire(c) \/ AcquireFails(c) \/ RefusedByItself(c)
    <2> DEFINE v == Target(c)
               m == NewMember(v, c)
    <2>1. call[c].at = "plan" /\ v \in Vendors /\ slotTime' = slotTime
      BY <1>0, <1>4 DEF Acquire, AcquireFails, RefusedByItself, Is
    <2>2. hold[c].vendor = NoVendor
      BY <1>0, <2>1 DEF AtOK
    <2>3. ASSUME NEW sure \in BOOLEAN, HoldOn(c, m, sure), Sends(c)
          PROVE  \A w \in Callers : AtOK(w)'
      <3>1. call'[c].at = "sent"
        BY <1>0, <2>3 DEF Sends, CallType
      <3>2. \A w \in Callers \ {c} : hold'[w] = hold[w]
        BY <1>0, <2>3 DEF HoldOn
      <3> QED
        BY <3>1, <3>2, AtStays
    <2>4. ASSUME UNCHANGED hold PROVE \A w \in Callers : AtOK(w)'
      BY <2>2, <2>4, AtStays
    <2>5. CASE Acquire(c) /\ Full(v)
      <3>1. UNCHANGED hold /\ CheckAndTrack(v, m) /\ stray' = StrayAfterSweep(v)
        BY <2>5 DEF Acquire
      <3> QED
        BY <2>1, <2>2, <2>4, <2>5, <3>1, RefusedInv
    <2>6. CASE Acquire(c) /\ ~Full(v)
      <3>1. /\ HoldOn(c, m, TRUE) /\ CheckAndTrack(v, m) /\ stray' = StrayAfterSweep(v)
            /\ Sends(c)
        BY <2>6 DEF Acquire
      <3> QED
        BY <2>1, <2>2, <2>3, <2>6, <3>1, TakesInv
    <2>7. CASE AcquireFails(c)
      <3>1. /\ HoldOn(c, m, FALSE) /\ Sends(c)
            /\ \/ UNCHANGED <<places, refs, stray>>
               \/ CheckAndTrack(v, m) /\ stray' = StrayAfterSweep(v)
        BY <2>7 DEF AcquireFails
      <3> QED
        BY <2>1, <2>2, <2>3, <3>1, TakesInv
    <2>8. CASE RefusedByItself(c)
      <3>1. /\ UNCHANGED hold /\ CheckAndTrack(v, m)
            /\ stray' = StrayAfterSweep(v) \union {<<v, m>>}
        BY <2>8 DEF RefusedByItself
      <3> QED
        BY <2>1, <2>2, <2>4, <3>1, RefusedInv
    <2> QED
      BY <1>4, <2>5, <2>6, <2>7, <2>8
  <1> QED
    BY <1>1, <1>2, <1>3, <1>4 DEF CallStep, CallGoesOn

LEMMA HoldsStep == CallsInv /\ HoldsInv /\ [SerialNext]_serialVars => HoldsInv'
  <1> SUFFICES ASSUME CallsInv, HoldsInv, [SerialNext]_serialVars PROVE HoldsInv'
    OBVIOUS
  <1>1. ASSUME NEW c \in Callers, CallStep(c) PROVE HoldsInv'
    BY <1>1, CallHolds
  <1>2. CASE UNCHANGED serialVars
    <2>1. UNCHANGED <<slotVars, hold, stray, call>>
      BY <1>2 DEF serialVars, besides, historyVars
    <2>2. \A w \in Callers : AtOK(w)'
      BY <2>1 DEF AtOK, HoldsInv
    <2> QED
      BY <2>1, <2>2, HoldsKept
  <1> QED
    BY <1>1, <1>2, EndedInv, TimeInv DEF SerialNext

\* Not more of them are counted than have a member each in the provider's table.
LEMMA CountedFit ==
  ASSUME HoldsInv, NEW v \in Vendors, SlotLimit[v] > 0
  PROVE  Cardinality(Counted(v)) <= SlotLimit[v]
  <1> DEFINE S == Counted(v)
             D == DOMAIN places[v]
             f == [c \in S |-> hold[c].member]
  <1>0. IsFiniteSet(D) /\ Cardinality(D) <= SlotLimit[v] /\ SlotLimit[v] \in Nat
    BY SlotAssumption DEF HoldsInv, SlotsOK
  <1>1. ASSUME NEW c \in S PROVE hold[c].member \in D /\ hold[c].member[1] = c
    <2>1. c \in Callers /\ hold[c].vendor = v /\ hold[c].sure /\ ~Outlived(c)
      BY <1>1 DEF Counted, Holds
    <2>2. v # NoVendor
      BY SerialConstants
    <2> QED
      BY <2>1, <2>2 DEF HoldsInv, SureOK, MineOK
  <1>2. f \in Injection(S, D)
    <2>1. f \in [S -> D]
      BY <1>1
    <2>2. \A a, b \in S : f[a] = f[b] => a = b
      BY <1>1
    <2> QED
      BY <2>1, <2>2 DEF Injection, IsInjective
  <1> HIDE DEF S, D, f
  <1>3. IsFiniteSet(S) /\ Cardinality(S) <= Cardinality(D)
    BY <1>0, <1>2, FS_Injection
  <1>4. Cardinality(S) \in Nat /\ Cardinality(D) \in Nat
    BY <1>0, <1>3, FS_CardinalityType
  <1>5. Cardinality(S) <= SlotLimit[v]
    BY <1>0, <1>3, <1>4
  <1> QED
    BY <1>5 DEF S

\* Each place belongs to an attempt that gives it back, but for those a failed call to Redis
\* left behind, and the counted ones are not more than the limit, however many requests
\* come, retry, leave, or are ended (provider_concurrency.go and its scripts).
THEOREM SerialHoldsItsPlaces == SerialSpec => []PlacesAreHeld
  <1>1. HoldsInv => PlacesAreHeld
    <2> SUFFICES ASSUME HoldsInv, NEW v \in Vendors
                 PROVE  /\ refs[v] = DOMAIN places[v]
                        /\ \A m \in DOMAIN places[v] : Owned(v, m)
                        /\ \A c \in Counted(v) : hold[c].member \in DOMAIN places[v]
                        /\ SlotLimit[v] > 0 => Cardinality(Counted(v)) <= SlotLimit[v]
      BY DEF PlacesAreHeld, Owned
    <2>1. refs[v] = DOMAIN places[v]
      BY DEF HoldsInv, SlotsOK
    <2>2. \A m \in DOMAIN places[v] : Owned(v, m)
      BY DEF HoldsInv
    <2>3. ASSUME NEW c \in Counted(v) PROVE hold[c].member \in DOMAIN places[v]
      <3>1. c \in Callers /\ hold[c].vendor = v /\ hold[c].sure /\ ~Outlived(c)
        BY DEF Counted, Holds
      <3> QED
        BY <3>1, SerialConstants DEF HoldsInv, SureOK
    <2> QED
      BY <2>1, <2>2, <2>3, CountedFit
  <1> QED
    BY <1>1, HoldsInit, HoldsStep, SerialInitInv, SerialStepInv, PTL DEF SerialSpec
=============================================================================
