--------------------------- MODULE TellRelayProofs ---------------------------
(***************************************************************************)
(* Proofs about TellRelay, for every number of concurrent calls, every set *)
(* of people and channels and every value of the caps: the types, the      *)
(* exclusion of the two locks, the caps on waiting tells.                  *)
(***************************************************************************)
EXTENDS TellRelay, FiniteSetTheorems, TLAPS

-----------------------------------------------------------------------------
(* Counting.                                                               *)

LEMMA IdsFinite == IsFiniteSet(Ids)
  BY FS_Interval, LimitsAssumption DEF Ids

\* A set of ids that did not grow is not counted higher.
LEMMA CountShrinks ==
  ASSUME NEW S, NEW T, S \subseteq Ids, T \subseteq S
  PROVE  /\ Cardinality(T) \in Nat
         /\ Cardinality(S) \in Nat
         /\ Cardinality(T) <= Cardinality(S)
<1>1. IsFiniteSet(S)
  BY IdsFinite, FS_Subset
<1> QED
  BY <1>1, FS_Subset, FS_CardinalityType

\* A set of ids that gained at most one is counted at most one higher.
LEMMA CountGrows ==
  ASSUME NEW S, NEW T, NEW i, S \subseteq Ids, T \subseteq S \cup {i}
  PROVE  /\ Cardinality(T) \in Nat
         /\ Cardinality(S) \in Nat
         /\ Cardinality(T) <= Cardinality(S) + 1
<1>1. IsFiniteSet(S)
  BY IdsFinite, FS_Subset
<1>0. Cardinality(S) \in Nat
  BY <1>1, FS_CardinalityType
<1>2. /\ IsFiniteSet(S \cup {i})
      /\ Cardinality(S \cup {i}) = IF i \in S THEN Cardinality(S) ELSE Cardinality(S) + 1
  BY <1>1, FS_AddElement, Zenon
<1>3. IsFiniteSet(T) /\ Cardinality(T) <= Cardinality(S \cup {i})
  BY <1>2, FS_Subset
<1>4. Cardinality(T) \in Nat /\ Cardinality(S \cup {i}) \in Nat
  BY <1>2, <1>3, FS_CardinalityType
<1> QED
  BY <1>0, <1>2, <1>3, <1>4

-----------------------------------------------------------------------------
(* Types.                                                                  *)

LEMMA IdleTypes ==
  /\ IdleCreator \in CreateCall
  /\ IdleCourier \in DeliverCall
  /\ IdleCanceller \in CancelCall
<1>1. Somebody \in Person
  <2>1. PICK n \in Nicks : TRUE
    BY SetsAssumption
  <2>2. [nick |-> n, acct |-> NoAccount] \in Person
    BY <2>1 DEF Person, Maybe
  <2> QED
    BY <2>2 DEF Somebody
<1>2. SomeChannel \in Channels
  BY SetsAssumption DEF SomeChannel
<1>3. 1 \in 1..MaxLines
  BY LimitsAssumption
<1> QED
  BY <1>1, <1>2, <1>3 DEF IdleCreator, IdleCourier, IdleCanceller, CreateCall,
                          DeliverCall, CancelCall

LEMMA KeyType ==
  ASSUME NEW who \in Person
  PROVE  ActorKey(who) \in Keys
  BY DEF ActorKey, Person, Maybe, Keys

\* Tell: the only action with arguments that come from outside.
LEMMA TypeCreate ==
  ASSUME TypeOK, NEW c \in Creators,
         \/ \E ch \in Channels, from \in Authors, to \in People, n \in 1..MaxLines :
              Tell(c, ch, from, to, n)
         \/ AcquireCreate(c) \/ CountPair(c) \/ CountTotal(c) \/ CheckRate(c)
         \/ Insert(c) \/ CreateFails(c)
  PROVE  TypeOK'
<1> USE IdleTypes
<1>a. creator[c] \in CreateCall
  BY DEF TypeOK
<1>1. ASSUME NEW ch \in Channels, NEW from \in Authors, NEW to \in People, NEW n \in 1..MaxLines,
             Tell(c, ch, from, to, n)
      PROVE  TypeOK'
  <2>1. from \in Person /\ to \in Person
    BY SetsAssumption DEF Person
  <2>2. [pc |-> "queued", channel |-> ch, from |-> from, to |-> to, lines |-> n] \in CreateCall
    BY <2>1 DEF CreateCall
  <2> QED
    BY <1>1, <2>2 DEF TypeOK, Tell, store, history
<1>2. CASE AcquireCreate(c)
  <2>1. [creator[c] EXCEPT !.pc = "pair"] \in CreateCall
    BY <1>a DEF CreateCall
  <2> QED
    BY <1>2, <2>1 DEF TypeOK, AcquireCreate, store, history
<1>3. CASE CountPair(c)
  <2>1. [creator[c] EXCEPT !.pc = "total"] \in CreateCall
    BY <1>a DEF CreateCall
  <2> QED
    BY <1>3, <2>1 DEF TypeOK, CountPair, LeaveCreate, GoOn, store, history
<1>4. CASE CountTotal(c)
  <2>1. [creator[c] EXCEPT !.pc = "rate"] \in CreateCall
    BY <1>a DEF CreateCall
  <2> QED
    BY <1>4, <2>1 DEF TypeOK, CountTotal, LeaveCreate, GoOn, store, history
<1>5. CASE CheckRate(c)
  <2>1. [creator[c] EXCEPT !.pc = "insert"] \in CreateCall
    BY <1>a DEF CreateCall
  <2> DEFINE key == ActorKey(creator[c].from)
  <2>2. key \in Keys
    BY <1>a, KeyType DEF CreateCall
  <2>3. spent' \in [Keys -> 0..RateLimit]
    BY <1>5, <2>2, LimitsAssumption DEF TypeOK, CheckRate
  <2> QED
    BY <1>5, <2>1, <2>3 DEF TypeOK, CheckRate, LeaveCreate, GoOn, store, history
<1>6. CASE Insert(c)
  <2>1. births' \in 0..MaxTells /\ births + 1 \in Tags
    BY <1>6, LimitsAssumption DEF TypeOK, Insert, Tags
  <2>2. NewRow(creator[c]) \in Row
    BY <1>a, <2>1, KeyType DEF NewRow, Row, CreateCall, Person
  <2>3. PICK i \in Ids : /\ tells' = [tells EXCEPT ![i] = NewRow(creator[c])]
                         /\ issued' = [issued EXCEPT ![i] = @ + 1]
    BY <1>6 DEF Insert
  <2>4. issued' \in [Ids -> Nat]
    BY <2>3, LimitsAssumption DEF TypeOK
  <2> QED
    BY <1>6, <2>1, <2>2, <2>3, <2>4 DEF TypeOK, Insert, LeaveCreate, history
<1>7. CASE CreateFails(c)
  BY <1>7, LimitsAssumption DEF TypeOK, CreateFails, LeaveCreate, store, history
<1> QED
  BY <1>1, <1>2, <1>3, <1>4, <1>5, <1>6, <1>7

LEMMA TypeDeliver ==
  ASSUME TypeOK, NEW d \in Couriers,
         \/ \E ch \in Channels, who \in People : Arrive(d, ch, who)
         \/ AcquireDeliver(d) \/ DeliverStep(d) \/ ReadFails(d)
         \/ \E p \in courier[d].batch : MarkFails(d, p)
  PROVE  TypeOK'
<1> USE IdleTypes
<1>a. courier[d] \in DeliverCall
  BY DEF TypeOK
<1>1. ASSUME NEW ch \in Channels, NEW who \in People, Arrive(d, ch, who)
      PROVE  TypeOK'
  <2>1. [pc |-> "queued", channel |-> ch, who |-> who, batch |-> {}] \in DeliverCall
    BY SetsAssumption DEF DeliverCall, Person
  <2> QED
    BY <1>1, <2>1 DEF TypeOK, Arrive, store, history
<1>2. CASE AcquireDeliver(d)
  <2>1. [courier[d] EXCEPT !.pc = "read"] \in DeliverCall
    BY <1>a DEF DeliverCall
  <2> QED
    BY <1>2, <2>1 DEF TypeOK, AcquireDeliver, store, history
<1>3. CASE ReadPending(d)
  <2> DEFINE ids == PendingFor(tells, courier[d].channel, courier[d].who)
             parcels == {ParcelOf(i) : i \in Oldest(ids)}
  <2>1. ASSUME NEW i \in Oldest(ids)
        PROVE  ParcelOf(i) \in Parcel
    <3>1. i \in Ids /\ tells[i] \in Row
      BY DEF Oldest, PendingFor, Pending, TypeOK
    <3> QED
      BY <3>1 DEF ParcelOf, Parcel, Row
  <2>2. parcels \in SUBSET Parcel
    BY <2>1
  <2> HIDE DEF parcels
  <2>3. [courier[d] EXCEPT !.pc = "post", !.batch = parcels] \in DeliverCall
    BY <1>a, <2>2 DEF DeliverCall
  <2>4. courier' \in [Couriers -> DeliverCall]
    BY <1>3, <2>3 DEF TypeOK, ReadPending, LeaveDeliver, parcels
  <2>5. deliverLock' \in Couriers \cup {NoTask}
    BY <1>3 DEF TypeOK, ReadPending, LeaveDeliver
  <2> QED
    BY <1>3, <2>4, <2>5 DEF TypeOK, ReadPending, store, history
<1>4. CASE Finish(d)
  BY <1>4 DEF TypeOK, Finish, LeaveDeliver, store, history
<1>5. CASE PostNothing(d)
  <2>1. [courier[d] EXCEPT !.pc = "finish", !.batch = {}] \in DeliverCall
    BY <1>a DEF DeliverCall
  <2> QED
    BY <1>5, <2>1 DEF TypeOK, PostNothing, store, history
<1>6. ASSUME NEW p \in courier[d].batch, NEW n \in 1..MaxLines, Post(d, p, n)
      PROVE  TypeOK'
  <2>1. [courier[d] EXCEPT !.pc = "mark"] \in DeliverCall
    BY <1>a DEF DeliverCall
  <2>2. p.tag \in Tags
    BY <1>a DEF DeliverCall, Parcel
  <2>3. posts' \in [Tags -> Nat] /\ whole' \subseteq Tags
    BY <1>6, <2>2 DEF TypeOK, Post
  <2> QED
    BY <1>6, <2>1, <2>3 DEF TypeOK, Post, store
<1>7. ASSUME NEW p \in courier[d].batch, NextParcel(d, p)
      PROVE  courier' \in [Couriers -> DeliverCall]
  <2>1. \A pc \in {"finish", "post"} :
          [courier[d] EXCEPT !.pc = pc, !.batch = courier[d].batch \ {p}] \in DeliverCall
    BY <1>a DEF DeliverCall
  <2> QED
    BY <1>7, <2>1 DEF TypeOK, NextParcel
<1>8. ASSUME NEW p \in courier[d].batch, Mark(d, p)
      PROVE  TypeOK'
  <2>1. p.id \in Ids
    BY <1>a DEF DeliverCall, Parcel
  <2>2. tells[p.id] # NoRow => [tells[p.id] EXCEPT !.delivered = TRUE, !.stale = FALSE] \in Row
    BY <2>1 DEF TypeOK, Row
  <2>3. tells' \in [Ids -> Row \cup {NoRow}]
    BY <1>8, <2>1, <2>2 DEF TypeOK, Mark
  <2>4. courier' \in [Couriers -> DeliverCall]
    BY <1>7, <1>8 DEF Mark
  <2> QED
    BY <1>8, <2>3, <2>4 DEF TypeOK, Mark, history
<1>9. ASSUME NEW p \in courier[d].batch, MarkFails(d, p)
      PROVE  TypeOK'
  <2>1. p.tag \in Tags
    BY <1>a DEF DeliverCall, Parcel
  <2>2. lost' \in [Tags -> Nat]
    BY <1>9, <2>1 DEF TypeOK, MarkFails
  <2>3. courier' \in [Couriers -> DeliverCall]
    BY <1>7, <1>9 DEF MarkFails
  <2>4. faults' \in 0..MaxFaults
    BY <1>9, LimitsAssumption DEF TypeOK, MarkFails
  <2> QED
    BY <1>9, <2>2, <2>3, <2>4 DEF TypeOK, MarkFails, store
<1>10. CASE ReadFails(d)
  BY <1>10, LimitsAssumption DEF TypeOK, ReadFails, LeaveDeliver, store, history
<1> QED
  BY <1>1, <1>2, <1>3, <1>4, <1>5, <1>6, <1>8, <1>9, <1>10 DEF DeliverStep

LEMMA TypeCancel ==
  ASSUME TypeOK, NEW x \in Cancellers,
         \/ \E ch \in Channels, i \in Ids, who \in Authors : CancelRead(x, ch, i, who)
         \/ CancelDelete(x) \/ CancelFails(x)
  PROVE  TypeOK'
<1> USE IdleTypes
<1>a. canceller[x] \in CancelCall
  BY DEF TypeOK
<1>1. ASSUME NEW ch \in Channels, NEW i \in Ids, NEW who \in Authors, CancelRead(x, ch, i, who)
      PROVE  TypeOK'
  <2>1. tells[i] \in Row
    BY <1>1 DEF TypeOK, CancelRead
  <2>2. [pc |-> "delete", id |-> i, tag |-> tells[i].tag, who |-> who] \in CancelCall
    BY <2>1, SetsAssumption DEF CancelCall, Row, Person
  <2> QED
    BY <1>1, <2>2 DEF TypeOK, CancelRead, store, history
<1>2. CASE CancelDelete(x)
  <2>1. tells' \in [Ids -> Row \cup {NoRow}]
    BY <1>2 DEF TypeOK, CancelDelete
  <2>2. withdrawn' \subseteq Tags \cup {0}
    BY <1>2, <1>a DEF TypeOK, CancelDelete, CancelCall
  <2> QED
    BY <1>2, <2>1, <2>2 DEF TypeOK, CancelDelete
<1>3. CASE CancelFails(x)
  BY <1>3, LimitsAssumption DEF TypeOK, CancelFails, store, history
<1> QED
  BY <1>1, <1>2, <1>3

LEMMA TypeTime ==
  ASSUME TypeOK,
         \/ \E k \in Keys : WindowSlides(k)
         \/ \E i \in Ids : GoStale(i)
         \/ Prune
         \/ Crash
  PROVE  TypeOK'
<1>1. ASSUME NEW k \in Keys, WindowSlides(k)
      PROVE  TypeOK'
  <2>1. spent' \in [Keys -> 0..RateLimit]
    BY <1>1, LimitsAssumption DEF TypeOK, WindowSlides
  <2> QED
    BY <1>1, <2>1 DEF TypeOK, WindowSlides, store, history
<1>2. ASSUME NEW i \in Ids, GoStale(i)
      PROVE  TypeOK'
  <2>1. [tells[i] EXCEPT !.stale = TRUE] \in Row
    BY <1>2 DEF TypeOK, GoStale, Row
  <2> QED
    BY <1>2, <2>1 DEF TypeOK, GoStale, history
<1>3. CASE Prune
  BY <1>3 DEF TypeOK, Prune, history
<1>4. CASE Crash
  <2>1. lost' \in [Tags -> Nat]
    BY <1>4 DEF TypeOK, Crash
  <2>2. spent' \in [Keys -> 0..RateLimit] /\ faults' \in 0..MaxFaults
    BY <1>4, LimitsAssumption DEF TypeOK, Crash
  <2> QED
    BY <1>4, <2>1, <2>2, IdleTypes DEF TypeOK, Crash, store
<1> QED
  BY <1>1, <1>2, <1>3, <1>4

LEMMA TypeInit == Init => TypeOK
<1> SUFFICES ASSUME Init PROVE TypeOK
  OBVIOUS
<1>1. 0 \in 0..MaxFaults /\ 0 \in 0..MaxTells /\ 0 \in 0..RateLimit
  BY LimitsAssumption
<1> QED
  BY <1>1, IdleTypes DEF Init, TypeOK

LEMMA TypeStep == TypeOK /\ [Next]_vars => TypeOK'
<1> SUFFICES ASSUME TypeOK, [Next]_vars PROVE TypeOK'
  OBVIOUS
<1>1. CASE UNCHANGED vars
  BY <1>1 DEF TypeOK, vars, store, history
<1> QED
  BY <1>1, TypeCreate, TypeDeliver, TypeCancel, TypeTime DEF Next, CreateStep

\* Every variable keeps its type, for every value of the constants; above
\* all, no rate window ever holds more than RateLimit entries.
THEOREM TypeCorrect == Spec => []TypeOK
  BY TypeInit, TypeStep, PTL DEF Spec

-----------------------------------------------------------------------------
(* The two locks.                                                          *)

LEMMA ExclusiveInit == Init => Exclusive
  BY NoneAssumption DEF Init, Exclusive, InCreate, InDeliver, IdleCreator, IdleCourier

\* A create() step, by what it does with the lock.
LEMMA ExclusiveCreate ==
  ASSUME TypeOK, Exclusive, NEW c \in Creators,
         \/ \E ch \in Channels, from \in Authors, to \in People, n \in 1..MaxLines :
              Tell(c, ch, from, to, n)
         \/ AcquireCreate(c) \/ CountPair(c) \/ CountTotal(c) \/ CheckRate(c)
         \/ Insert(c) \/ CreateFails(c)
  PROVE  Exclusive'
<1> USE NoneAssumption DEF InCreate, InDeliver, IdleCreator
<1>0. creator \in [Creators -> CreateCall]
  BY DEF TypeOK
<1>1. ASSUME NEW ch \in Channels, NEW from \in Authors, NEW to \in People, NEW n \in 1..MaxLines,
             Tell(c, ch, from, to, n)
      PROVE  Exclusive'
  BY <1>0, <1>1 DEF Exclusive, Tell
<1>2. CASE AcquireCreate(c)
  BY <1>0, <1>2 DEF Exclusive, AcquireCreate
<1>3. ASSUME InCreate(c), LeaveCreate(c), UNCHANGED <<courier, deliverLock>>
      PROVE  Exclusive'
  BY <1>0, <1>3 DEF Exclusive, LeaveCreate
<1>4. ASSUME InCreate(c), UNCHANGED <<courier, deliverLock>>,
             NEW pc \in {"total", "rate", "insert"}, GoOn(c, pc)
      PROVE  Exclusive'
  BY <1>0, <1>4 DEF Exclusive, GoOn
<1>5. CASE CountPair(c)
  BY <1>3, <1>4, <1>5 DEF CountPair
<1>6. CASE CountTotal(c)
  BY <1>3, <1>4, <1>6 DEF CountTotal
<1>7. CASE CheckRate(c)
  BY <1>3, <1>4, <1>7 DEF CheckRate
<1>8. CASE Insert(c)
  BY <1>3, <1>8 DEF Insert
<1>9. CASE CreateFails(c)
  BY <1>3, <1>9 DEF CreateFails
<1> QED
  BY <1>1, <1>2, <1>5, <1>6, <1>7, <1>8, <1>9

LEMMA ExclusiveDeliver ==
  ASSUME TypeOK, Exclusive, NEW d \in Couriers,
         \/ \E ch \in Channels, who \in People : Arrive(d, ch, who)
         \/ AcquireDeliver(d) \/ DeliverStep(d) \/ ReadFails(d)
         \/ \E p \in courier[d].batch : MarkFails(d, p)
  PROVE  Exclusive'
<1> USE NoneAssumption DEF InCreate, InDeliver, IdleCourier
<1>0. courier \in [Couriers -> DeliverCall]
  BY DEF TypeOK
<1>1. ASSUME NEW ch \in Channels, NEW who \in People, Arrive(d, ch, who)
      PROVE  Exclusive'
  BY <1>0, <1>1 DEF Exclusive, Arrive
<1>2. CASE AcquireDeliver(d)
  BY <1>0, <1>2 DEF Exclusive, AcquireDeliver
<1>3. ASSUME InDeliver(d), LeaveDeliver(d), UNCHANGED <<creator, createLock>>
      PROVE  Exclusive'
  BY <1>0, <1>3 DEF Exclusive, LeaveDeliver
<1>4. ASSUME InDeliver(d), UNCHANGED <<creator, createLock, deliverLock>>,
             \A e \in Couriers : e # d => courier'[e] = courier[e],
             courier'[d].pc \in {"post", "mark", "finish"}
      PROVE  Exclusive'
  BY <1>0, <1>4 DEF Exclusive
<1>5. CASE ReadPending(d)
  <2>1. InDeliver(d) /\ UNCHANGED <<creator, createLock>>
    BY <1>5 DEF ReadPending
  <2>2. CASE LeaveDeliver(d)
    BY <1>3, <2>1, <2>2
  <2>3. CASE ~LeaveDeliver(d)
    <3>1. PICK batch : courier' = [courier EXCEPT ![d].pc = "post", ![d].batch = batch]
      BY <1>5, <2>3 DEF ReadPending
    <3>2. courier'[d].pc = "post" /\ \A e \in Couriers : e # d => courier'[e] = courier[e]
      BY <1>0, <3>1
    <3>3. UNCHANGED deliverLock
      BY <1>5, <2>3 DEF ReadPending
    <3> QED
      BY <1>4, <2>1, <3>2, <3>3
  <2> QED
    BY <2>2, <2>3
<1>6. CASE Finish(d)
  BY <1>3, <1>6 DEF Finish
<1>7. CASE PostNothing(d)
  BY <1>0, <1>4, <1>7 DEF PostNothing
<1>8. ASSUME NEW p \in courier[d].batch, NEW n \in 1..MaxLines, Post(d, p, n)
      PROVE  Exclusive'
  BY <1>0, <1>4, <1>8 DEF Post
<1>9. ASSUME NEW p \in courier[d].batch, Mark(d, p) \/ MarkFails(d, p)
      PROVE  Exclusive'
  <2>1. /\ InDeliver(d) /\ NextParcel(d, p)
        /\ UNCHANGED <<creator, createLock, deliverLock>>
    BY <1>9 DEF Mark, MarkFails
  <2>2. courier'[d].pc \in {"post", "finish"}
    BY <1>0, <2>1 DEF NextParcel
  <2>3. \A e \in Couriers : e # d => courier'[e] = courier[e]
    BY <1>0, <2>1 DEF NextParcel
  <2> QED
    BY <1>4, <2>1, <2>2, <2>3
<1>10. CASE ReadFails(d)
  BY <1>3, <1>10 DEF ReadFails
<1> QED
  BY <1>1, <1>2, <1>5, <1>6, <1>7, <1>8, <1>9, <1>10 DEF DeliverStep

LEMMA ExclusiveStep == TypeOK /\ Exclusive /\ [Next]_vars => Exclusive'
<1> SUFFICES ASSUME TypeOK, Exclusive, [Next]_vars PROVE Exclusive'
  OBVIOUS
<1> DEFINE LocksKept == UNCHANGED <<creator, courier, createLock, deliverLock>>
<1>1. LocksKept => Exclusive'
  BY DEF Exclusive, InCreate, InDeliver
<1>2. ASSUME NEW x \in Cancellers,
             \/ \E ch \in Channels, i \in Ids, who \in Authors : CancelRead(x, ch, i, who)
             \/ CancelDelete(x) \/ CancelFails(x)
      PROVE  LocksKept
  BY <1>2 DEF CancelRead, CancelDelete, CancelFails
<1>3. ASSUME \/ \E k \in Keys : WindowSlides(k)
             \/ \E i \in Ids : GoStale(i)
             \/ Prune
             \/ UNCHANGED vars
      PROVE  LocksKept
  BY <1>3 DEF WindowSlides, GoStale, Prune, vars
<1>4. CASE Crash
  BY <1>4, NoneAssumption DEF Crash, Exclusive, InCreate, InDeliver, IdleCreator, IdleCourier
<1> QED
  BY <1>1, <1>2, <1>3, <1>4, ExclusiveCreate, ExclusiveDeliver DEF Next, CreateStep

\* At any time at most one create() is between its first count and its
\* insert, and at most one deliver() between its read and its last mark; no
\* failure, refusal or restart leaves a lock behind.
THEOREM LocksExclude == Spec => []Exclusive
<1>1. Init => TypeOK /\ Exclusive
  BY TypeInit, ExclusiveInit
<1>2. TypeOK /\ Exclusive /\ [Next]_vars => TypeOK' /\ Exclusive'
  BY TypeStep, ExclusiveStep
<1> QED
  BY <1>1, <1>2, PTL DEF Spec

-----------------------------------------------------------------------------
(* The table between a count and the insert.                               *)

\* No tell begins to wait, and none that waits changes its address.
NothingAdded(old, new) ==
  \A i \in Ids : Pending(new[i]) =>
    /\ Pending(old[i])
    /\ new[i].channel = old[i].channel
    /\ new[i].key  = old[i].key
    /\ new[i].nick = old[i].nick
    /\ new[i].acct = old[i].acct

\* Only Insert puts tells into the table.
LEMMA OnlyInsertAdds ==
  ASSUME TypeOK, [Next]_vars, \A c \in Creators : ~Insert(c)
  PROVE  NothingAdded(tells, tells')
<1> USE DEF NothingAdded, Pending
<1>1. UNCHANGED tells => NothingAdded(tells, tells')
  OBVIOUS
<1>2. ASSUME NEW c \in Creators,
             \/ \E ch \in Channels, from \in Authors, to \in People, n \in 1..MaxLines :
                  Tell(c, ch, from, to, n)
             \/ AcquireCreate(c) \/ CreateStep(c) \/ CreateFails(c)
      PROVE  UNCHANGED tells
  BY <1>2 DEF Tell, AcquireCreate, CreateStep, CountPair, CountTotal, CheckRate, CreateFails, store
<1>3. ASSUME NEW d \in Couriers,
             \/ \E ch \in Channels, who \in People : Arrive(d, ch, who)
             \/ AcquireDeliver(d) \/ ReadPending(d) \/ Finish(d) \/ PostNothing(d)
             \/ \E p \in courier[d].batch, n \in 1..MaxLines : Post(d, p, n)
             \/ \E p \in courier[d].batch : MarkFails(d, p)
             \/ ReadFails(d)
      PROVE  UNCHANGED tells
  BY <1>3 DEF Arrive, AcquireDeliver, ReadPending, Finish, PostNothing, Post, MarkFails,
              ReadFails, store
<1>4. ASSUME NEW d \in Couriers, NEW p \in courier[d].batch, Mark(d, p)
      PROVE  NothingAdded(tells, tells')
  <2>1. p.id \in Ids
    BY DEF TypeOK, DeliverCall, Parcel
  <2>2. CASE ~tells[p.id] # NoRow
    BY <1>4, <2>2 DEF Mark
  <2>3. CASE tells[p.id] # NoRow
    <3>1. tells[p.id] \in Row
      BY <2>1, <2>3 DEF TypeOK
    <3>2. tells' = [tells EXCEPT ![p.id].delivered = TRUE, ![p.id].stale = FALSE]
      BY <1>4, <2>3 DEF Mark
    <3>3. tells'[p.id].delivered
      BY <2>1, <3>1, <3>2 DEF TypeOK, Row
    <3>4. \A i \in Ids : i # p.id => tells'[i] = tells[i]
      BY <3>2 DEF TypeOK
    <3> QED
      BY <3>3, <3>4
  <2> QED
    BY <2>2, <2>3
<1>5. ASSUME NEW x \in Cancellers,
             \/ \E ch \in Channels, i \in Ids, who \in Authors : CancelRead(x, ch, i, who)
             \/ CancelFails(x)
      PROVE  UNCHANGED tells
  BY <1>5 DEF CancelRead, CancelFails, store
<1>6. ASSUME NEW x \in Cancellers, CancelDelete(x)
      PROVE  NothingAdded(tells, tells')
  BY <1>6 DEF CancelDelete, TypeOK
<1>7. ASSUME NEW i \in Ids, GoStale(i)
      PROVE  NothingAdded(tells, tells')
  <2>1. tells[i] \in Row
    BY <1>7 DEF TypeOK, GoStale
  <2>2. tells'[i].stale
    BY <1>7, <2>1 DEF TypeOK, GoStale, Row
  <2>3. \A j \in Ids : j # i => tells'[j] = tells[j]
    BY <1>7 DEF TypeOK, GoStale
  <2> QED
    BY <2>2, <2>3
<1>8. CASE Prune
  BY <1>8 DEF Prune, TypeOK
<1>9. CASE Crash \/ UNCHANGED vars \/ \E k \in Keys : WindowSlides(k)
  BY <1>9 DEF Crash, vars, WindowSlides, store
<1> QED
  BY <1>1, <1>2, <1>3, <1>4, <1>5, <1>6, <1>7, <1>8, <1>9 DEF Next, DeliverStep

\* What was counted can then only have become less.
LEMMA CountsShrink ==
  ASSUME NEW old, NEW new, NothingAdded(old, new), NEW ch, NEW who, NEW k
  PROVE  /\ TotalCount(new, ch, who) \in Nat /\ TotalCount(old, ch, who) \in Nat
         /\ PairCount(new, ch, who, k) \in Nat /\ PairCount(old, ch, who, k) \in Nat
         /\ TotalCount(new, ch, who) <= TotalCount(old, ch, who)
         /\ PairCount(new, ch, who, k) <= PairCount(old, ch, who, k)
<1> DEFINE S == PendingFor(old, ch, who)
           T == PendingFor(new, ch, who)
<1>1. T \subseteq S /\ S \subseteq Ids
  BY DEF NothingAdded, PendingFor, MatchesRecipient
<1>2. {i \in T : new[i].key = k} \subseteq {i \in S : old[i].key = k}
  BY <1>1 DEF NothingAdded, PendingFor
<1> HIDE DEF S, T
<1>3. {i \in S : old[i].key = k} \subseteq Ids
  BY <1>1
<1>4. /\ TotalCount(old, ch, who) = Cardinality(S)
      /\ TotalCount(new, ch, who) = Cardinality(T)
      /\ PairCount(old, ch, who, k) = Cardinality({i \in S : old[i].key = k})
      /\ PairCount(new, ch, who, k) = Cardinality({i \in T : new[i].key = k})
  BY DEF TotalCount, PairCount, S, T
<1> QED
  BY <1>1, <1>2, <1>3, <1>4, CountShrinks

\* A create() call gets past a count only by making it.
LEMMA OnlyCountsPass ==
  ASSUME TypeOK, [Next]_vars, NEW e \in Creators,
         creator'[e] # creator[e], creator'[e].pc \in {"total", "rate", "insert"}
  PROVE  CountPair(e) \/ CountTotal(e) \/ CheckRate(e)
<1> USE DEF IdleCreator
<1>0. creator \in [Creators -> CreateCall]
  BY DEF TypeOK
<1>1. ASSUME NEW c \in Creators, NEW ch \in Channels, NEW from \in Authors, NEW to \in People,
             NEW n \in 1..MaxLines, Tell(c, ch, from, to, n)
      PROVE  FALSE
  BY <1>0, <1>1 DEF Tell
<1>2. ASSUME NEW c \in Creators, AcquireCreate(c)
      PROVE  FALSE
  BY <1>0, <1>2 DEF AcquireCreate
<1>3. ASSUME NEW c \in Creators, Insert(c) \/ CreateFails(c)
      PROVE  FALSE
  BY <1>0, <1>3 DEF Insert, CreateFails, LeaveCreate
<1>4. ASSUME NEW c \in Creators, CountPair(c) \/ CountTotal(c) \/ CheckRate(c)
      PROVE  c = e
  BY <1>0, <1>4 DEF CountPair, CountTotal, CheckRate, LeaveCreate, GoOn
<1>5. ASSUME NEW d \in Couriers,
             \/ \E ch \in Channels, who \in People : Arrive(d, ch, who)
             \/ AcquireDeliver(d) \/ DeliverStep(d) \/ ReadFails(d)
             \/ \E p \in courier[d].batch : MarkFails(d, p)
      PROVE  FALSE
  BY <1>5 DEF Arrive, AcquireDeliver, DeliverStep, ReadPending, Finish, PostNothing, Post,
              Mark, MarkFails, ReadFails
<1>6. ASSUME NEW x \in Cancellers,
             \/ \E ch \in Channels, i \in Ids, who \in Authors : CancelRead(x, ch, i, who)
             \/ CancelDelete(x) \/ CancelFails(x)
      PROVE  FALSE
  BY <1>6 DEF CancelRead, CancelDelete, CancelFails
<1>7. ASSUME \/ \E k \in Keys : WindowSlides(k)
             \/ \E i \in Ids : GoStale(i)
             \/ Prune
             \/ UNCHANGED vars
      PROVE  FALSE
  BY <1>7 DEF WindowSlides, GoStale, Prune, vars
<1>8. CASE Crash
  BY <1>0, <1>8 DEF Crash
<1> QED
  BY <1>1, <1>2, <1>3, <1>4, <1>5, <1>6, <1>7, <1>8 DEF Next, CreateStep

LEMMA RoomStep ==
  ASSUME TypeOK, Exclusive, RoomKept, [Next]_vars
  PROVE  RoomKept'
<1>0. creator \in [Creators -> CreateCall] /\ creator' \in [Creators -> CreateCall]
  BY TypeStep DEF TypeOK
<1>1. CASE \E c \in Creators : Insert(c)
  \* Whoever inserts holds the lock, so nobody else is past a count.
  <2>1. PICK c \in Creators : Insert(c)
    BY <1>1
  <2>2. \A e \in Creators : e # c => ~InCreate(e) /\ creator'[e] = creator[e]
    BY <1>0, <2>1, NoneAssumption DEF Exclusive, InCreate, Insert, LeaveCreate
  <2>3. creator'[c].pc = "idle"
    BY <1>0, <2>1 DEF Insert, LeaveCreate, IdleCreator
  <2> QED
    BY <2>2, <2>3 DEF RoomKept, InCreate
<1>2. CASE \A c \in Creators : ~Insert(c)
  <2>1. NothingAdded(tells, tells')
    BY <1>2, OnlyInsertAdds
  <2> SUFFICES ASSUME NEW e \in Creators
               PROVE  LET call == creator'[e] IN
                      /\ call.pc \in {"total", "rate", "insert"} =>
                           PairCount(tells', call.channel, call.to, ActorKey(call.from)) < PairCap
                      /\ call.pc \in {"rate", "insert"} =>
                           TotalCount(tells', call.channel, call.to) < RecipientCap
    BY DEF RoomKept
  <2> DEFINE old == creator[e]
             new == creator'[e]
  <2>2. /\ PairCap \in Nat /\ RecipientCap \in Nat
        /\ old \in CreateCall /\ new \in CreateCall
    BY <1>0, LimitsAssumption
  <2>3. ASSUME new.channel = old.channel, new.to = old.to, new.from = old.from,
               new.pc \in {"total", "rate", "insert"} =>
                 PairCount(tells, old.channel, old.to, ActorKey(old.from)) < PairCap,
               new.pc \in {"rate", "insert"} => TotalCount(tells, old.channel, old.to) < RecipientCap
        PROVE  /\ new.pc \in {"total", "rate", "insert"} =>
                    PairCount(tells', new.channel, new.to, ActorKey(new.from)) < PairCap
               /\ new.pc \in {"rate", "insert"} =>
                    TotalCount(tells', new.channel, new.to) < RecipientCap
    <3> DEFINE k == ActorKey(old.from)
    <3>1. /\ TotalCount(tells', old.channel, old.to) \in Nat /\ TotalCount(tells, old.channel, old.to) \in Nat
          /\ PairCount(tells', old.channel, old.to, k) \in Nat /\ PairCount(tells, old.channel, old.to, k) \in Nat
          /\ TotalCount(tells', old.channel, old.to) <= TotalCount(tells, old.channel, old.to)
          /\ PairCount(tells', old.channel, old.to, k) <= PairCount(tells, old.channel, old.to, k)
      BY <2>1, CountsShrink
    <3> QED
      BY <2>2, <2>3, <3>1
  <2>4. CASE new = old
    BY <2>3, <2>4 DEF RoomKept
  <2>5. CASE new # old /\ new.pc \in {"total", "rate", "insert"}
    <3>1. CountPair(e) \/ CountTotal(e) \/ CheckRate(e)
      BY <2>5, OnlyCountsPass
    <3>a. ~LeaveCreate(e)
      BY <1>0, <2>5 DEF LeaveCreate, IdleCreator
    <3>b. ASSUME NEW pc \in {"total", "rate", "insert"}, GoOn(e, pc)
          PROVE  /\ new.pc = pc
                 /\ new.channel = old.channel /\ new.to = old.to /\ new.from = old.from
      <4>1. new = [old EXCEPT !.pc = pc]
        BY <1>0, <3>b DEF GoOn
      <4> QED
        BY <2>2, <4>1 DEF CreateCall
    <3> DEFINE pairs == PairCount(tells, old.channel, old.to, ActorKey(old.from))
               total == TotalCount(tells, old.channel, old.to)
    <3>c. pairs \in Nat /\ total \in Nat
      BY <2>1, CountsShrink
    <3>3. CASE CountPair(e)
      <4>1. GoOn(e, "total") /\ ~(pairs >= PairCap)
        BY <3>a, <3>3 DEF CountPair
      <4> QED
        BY <2>2, <2>3, <3>b, <3>c, <4>1
    <3>4. CASE CountTotal(e)
      <4>1. GoOn(e, "rate") /\ ~(total >= RecipientCap) /\ old.pc = "total"
        BY <3>a, <3>4 DEF CountTotal
      <4>2. pairs < PairCap
        BY <4>1 DEF RoomKept
      <4> QED
        BY <2>2, <2>3, <3>b, <3>c, <4>1, <4>2
    <3>5. CASE CheckRate(e)
      <4>1. GoOn(e, "insert") /\ old.pc = "rate"
        BY <3>a, <3>5 DEF CheckRate
      <4>2. pairs < PairCap /\ total < RecipientCap
        BY <4>1 DEF RoomKept
      <4> QED
        BY <2>3, <3>b, <4>1, <4>2
    <3> QED
      BY <3>1, <3>3, <3>4, <3>5
  <2> QED
    BY <2>4, <2>5
<1> QED
  BY <1>1, <1>2

-----------------------------------------------------------------------------
(* The caps.                                                               *)

\* A set of waiting tells stays within its cap if it gains nothing, or gains
\* one tell and lies within what create() has just counted below the cap.
LEMMA CapAfterInsert ==
  ASSUME NEW cap \in Nat, NEW S, NEW W, NEW T, NEW i, S \subseteq Ids, W \subseteq Ids,
         Cardinality(S) <= cap,
         \/ T \subseteq S
         \/ T \subseteq S \cup {i} /\ S \subseteq W /\ Cardinality(W) < cap
  PROVE  Cardinality(T) <= cap
<1>1. CASE T \subseteq S
  BY <1>1, CountShrinks
<1>2. CASE T \subseteq S \cup {i} /\ S \subseteq W /\ Cardinality(W) < cap
  <2>1. Cardinality(S) \in Nat /\ Cardinality(W) \in Nat /\ Cardinality(S) <= Cardinality(W)
    BY <1>2, CountShrinks
  <2>2. Cardinality(T) \in Nat /\ Cardinality(T) <= Cardinality(S) + 1
    BY <1>2, CountGrows
  <2> QED
    BY <1>2, <2>1, <2>2
<1> QED
  BY <1>1, <1>2

\* The four sets CapsHold speaks of are sets of ids.
LEMMA WaitingAreIds ==
  ASSUME NEW rows, NEW ch, NEW n, NEW k
  PROVE  /\ WaitingNick(rows, ch, n) \subseteq Ids
         /\ WaitingAccount(rows, ch, n) \subseteq Ids
         /\ FromKey(rows, WaitingNick(rows, ch, n), k) \subseteq Ids
         /\ FromKey(rows, WaitingAccount(rows, ch, n), k) \subseteq Ids
  BY DEF WaitingNick, WaitingAccount, FromKey

LEMMA CapsWhenNothingAdded ==
  ASSUME TypeOK, CapsHold, NothingAdded(tells, tells')
  PROVE  CapsHold'
<1> USE DEF NothingAdded, WaitingNick, WaitingAccount, FromKey
<1>0. RecipientCap \in Nat /\ PairCap \in Nat
  BY LimitsAssumption
<1>1. ASSUME NEW S, NEW T, T \subseteq S, S \subseteq Ids, NEW cap \in Nat,
             Cardinality(S) <= cap
      PROVE  Cardinality(T) <= cap
  BY <1>1, CountShrinks
<1>2. ASSUME NEW ch \in Channels, NEW n \in Nicks
      PROVE  /\ Cardinality(WaitingNick(tells', ch, n)) <= RecipientCap
             /\ \A k \in Keys : Cardinality(FromKey(tells', WaitingNick(tells', ch, n), k)) <= PairCap
  <2>1. WaitingNick(tells', ch, n) \subseteq WaitingNick(tells, ch, n)
    OBVIOUS
  <2>2. \A k \in Keys : FromKey(tells', WaitingNick(tells', ch, n), k)
                          \subseteq FromKey(tells, WaitingNick(tells, ch, n), k)
    OBVIOUS
  <2>3. /\ Cardinality(WaitingNick(tells, ch, n)) <= RecipientCap
        /\ \A k \in Keys : Cardinality(FromKey(tells, WaitingNick(tells, ch, n), k)) <= PairCap
    BY Zenon DEF CapsHold
  <2> HIDE DEF WaitingNick, FromKey
  <2> QED
    BY <1>0, <1>1, <2>1, <2>2, <2>3, WaitingAreIds
<1>3. ASSUME NEW ch \in Channels, NEW a \in Accounts
      PROVE  /\ Cardinality(WaitingAccount(tells', ch, a)) <= RecipientCap
             /\ \A k \in Keys :
                  Cardinality(FromKey(tells', WaitingAccount(tells', ch, a), k)) <= PairCap
  <2>1. WaitingAccount(tells', ch, a) \subseteq WaitingAccount(tells, ch, a)
    OBVIOUS
  <2>2. \A k \in Keys : FromKey(tells', WaitingAccount(tells', ch, a), k)
                          \subseteq FromKey(tells, WaitingAccount(tells, ch, a), k)
    OBVIOUS
  <2>3. /\ Cardinality(WaitingAccount(tells, ch, a)) <= RecipientCap
        /\ \A k \in Keys :
             Cardinality(FromKey(tells, WaitingAccount(tells, ch, a), k)) <= PairCap
    BY Zenon DEF CapsHold
  <2> HIDE DEF WaitingAccount, FromKey
  <2> QED
    BY <1>0, <1>1, <2>1, <2>2, <2>3, WaitingAreIds
<1> QED
  BY <1>2, <1>3, Zenon DEF CapsHold

LEMMA CapsWhenInserted ==
  ASSUME TypeOK, RoomKept, CapsHold, NEW c \in Creators, Insert(c)
  PROVE  CapsHold'
<1> DEFINE call == creator[c]
           key == ActorKey(call.from)
           W == PendingFor(tells, call.channel, call.to)
           V == FromKey(tells, W, key)
<1>0. RecipientCap \in Nat /\ PairCap \in Nat
  BY LimitsAssumption
<1>1. PICK i \in Ids : tells' = [tells EXCEPT ![i] = NewRow(call)]
  BY DEF Insert
<1>2. /\ tells'[i] = NewRow(call)
      /\ \A j \in Ids : j # i => tells'[j] = tells[j]
  BY <1>1 DEF TypeOK
<1>3. /\ tells'[i].channel = call.channel
      /\ tells'[i].nick = call.to.nick
      /\ tells'[i].acct = call.to.acct
      /\ tells'[i].key = key
  BY <1>2 DEF NewRow
<1>4. /\ W \subseteq Ids /\ V \subseteq Ids
      /\ Cardinality(W) < RecipientCap
      /\ Cardinality(V) < PairCap
  <2>1. call.pc = "insert"
    BY DEF Insert
  <2>2. V = {j \in W : tells[j].key = key}
    BY DEF FromKey
  <2> QED
    BY <2>1, <2>2 DEF RoomKept, TotalCount, PairCount, PendingFor
<1>5. ASSUME NEW ch \in Channels, NEW n \in Nicks
      PROVE  /\ Cardinality(WaitingNick(tells', ch, n)) <= RecipientCap
             /\ \A k \in Keys :
                  Cardinality(FromKey(tells', WaitingNick(tells', ch, n), k)) <= PairCap
  <2> DEFINE S == WaitingNick(tells, ch, n)
             T == WaitingNick(tells', ch, n)
  <2>1. \/ T \subseteq S
        \/ T \subseteq S \cup {i} /\ S \subseteq W
    BY <1>2, <1>3 DEF WaitingNick, PendingFor, MatchesRecipient
  <2>2. ASSUME NEW k \in Keys
        PROVE  \/ FromKey(tells', T, k) \subseteq FromKey(tells, S, k)
               \/ /\ FromKey(tells', T, k) \subseteq FromKey(tells, S, k) \cup {i}
                  /\ FromKey(tells, S, k) \subseteq V
    BY <1>2, <1>3 DEF WaitingNick, FromKey, PendingFor, MatchesRecipient
  <2>3. Cardinality(S) <= RecipientCap /\ \A k \in Keys : Cardinality(FromKey(tells, S, k)) <= PairCap
    BY Zenon DEF CapsHold
  <2>4. S \subseteq Ids /\ \A k \in Keys : FromKey(tells, S, k) \subseteq Ids
    BY WaitingAreIds
  <2> HIDE DEF S, T, W, V
  <2>5. Cardinality(T) <= RecipientCap
    BY <1>0, <1>4, <2>1, <2>3, <2>4, CapAfterInsert
  <2>6. ASSUME NEW k \in Keys
        PROVE  Cardinality(FromKey(tells', T, k)) <= PairCap
    BY <1>0, <1>4, <2>2, <2>3, <2>4, CapAfterInsert
  <2> QED
    BY <2>5, <2>6 DEF T
<1>6. ASSUME NEW ch \in Channels, NEW a \in Accounts
      PROVE  /\ Cardinality(WaitingAccount(tells', ch, a)) <= RecipientCap
             /\ \A k \in Keys :
                  Cardinality(FromKey(tells', WaitingAccount(tells', ch, a), k)) <= PairCap
  <2> DEFINE S == WaitingAccount(tells, ch, a)
             T == WaitingAccount(tells', ch, a)
  <2>0. a # NoAccount
    BY SetsAssumption
  <2>1. \/ T \subseteq S
        \/ T \subseteq S \cup {i} /\ S \subseteq W
    BY <1>2, <1>3, <2>0 DEF WaitingAccount, PendingFor, MatchesRecipient
  <2>2. ASSUME NEW k \in Keys
        PROVE  \/ FromKey(tells', T, k) \subseteq FromKey(tells, S, k)
               \/ /\ FromKey(tells', T, k) \subseteq FromKey(tells, S, k) \cup {i}
                  /\ FromKey(tells, S, k) \subseteq V
    BY <1>2, <1>3, <2>0 DEF WaitingAccount, FromKey, PendingFor, MatchesRecipient
  <2>3. Cardinality(S) <= RecipientCap /\ \A k \in Keys : Cardinality(FromKey(tells, S, k)) <= PairCap
    BY Zenon DEF CapsHold
  <2>4. S \subseteq Ids /\ \A k \in Keys : FromKey(tells, S, k) \subseteq Ids
    BY WaitingAreIds
  <2> HIDE DEF S, T, W, V
  <2>5. Cardinality(T) <= RecipientCap
    BY <1>0, <1>4, <2>1, <2>3, <2>4, CapAfterInsert
  <2>6. ASSUME NEW k \in Keys
        PROVE  Cardinality(FromKey(tells', T, k)) <= PairCap
    BY <1>0, <1>4, <2>2, <2>3, <2>4, CapAfterInsert
  <2> QED
    BY <2>5, <2>6 DEF T
<1> QED
  BY <1>5, <1>6, Zenon DEF CapsHold

\* The caps alone are not inductive: what keeps them is that the call that
\* inserts still has the room it counted (RoomKept), and that only because
\* nobody else inserts in between (Exclusive).
CreateInv == TypeOK /\ Exclusive /\ RoomKept /\ CapsHold

LEMMA CreateInvInit == Init => CreateInv
<1> SUFFICES ASSUME Init PROVE RoomKept /\ CapsHold
  BY TypeInit, ExclusiveInit DEF CreateInv
<1>1. RoomKept
  BY DEF Init, RoomKept, IdleCreator
<1>2. \A i \in Ids : ~Pending(tells[i])
  BY DEF Init, Pending
<1>3. \A ch, n, k : /\ WaitingNick(tells, ch, n) = {} /\ WaitingAccount(tells, ch, n) = {}
                    /\ FromKey(tells, WaitingNick(tells, ch, n), k) = {}
                    /\ FromKey(tells, WaitingAccount(tells, ch, n), k) = {}
  BY <1>2 DEF WaitingNick, WaitingAccount, FromKey
<1>4. Cardinality({}) <= RecipientCap /\ Cardinality({}) <= PairCap
  BY FS_EmptySet, LimitsAssumption
<1>5. CapsHold
  BY <1>3, <1>4 DEF CapsHold
<1> QED
  BY <1>1, <1>5

LEMMA CreateInvStep == CreateInv /\ [Next]_vars => CreateInv'
<1> SUFFICES ASSUME CreateInv, [Next]_vars PROVE CreateInv'
  OBVIOUS
<1>1. TypeOK' /\ Exclusive' /\ RoomKept'
  BY TypeStep, ExclusiveStep, RoomStep DEF CreateInv
<1>2. CapsHold'
  BY OnlyInsertAdds, CapsWhenNothingAdded, CapsWhenInserted DEF CreateInv
<1> QED
  BY <1>1, <1>2 DEF CreateInv

\* For any number of concurrent create() calls, deliveries, withdrawals,
\* failures and restarts, and for any values of the two caps: never more than
\* RecipientCap tells wait for a nick or for an account, and never more than
\* PairCap of them from one sender.
THEOREM CapsAlwaysHold == Spec => []CapsHold
<1>1. CreateInv => CapsHold
  BY DEF CreateInv
<1> QED
  BY <1>1, CreateInvInit, CreateInvStep, PTL DEF Spec

\* The room a create() call has counted is still there when it inserts.
THEOREM RoomAlwaysKept == Spec => []RoomKept
<1>1. CreateInv => RoomKept
  BY DEF CreateInv
<1> QED
  BY <1>1, CreateInvInit, CreateInvStep, PTL DEF Spec

\* What RefusalIsFree says of one step.
FreeStep ==
  \A k \in Keys : spent'[k] > spent[k] =>
    \E c \in Creators :
      LET call == creator[c] IN
      /\ ActorKey(call.from) = k
      /\ TotalCount(tells, call.channel, call.to) < RecipientCap
      /\ PairCount(tells, call.channel, call.to, k) < PairCap

LEMMA OnlyCheckRateSpends ==
  ASSUME TypeOK, [Next]_vars, NEW k \in Keys, spent'[k] > spent[k]
  PROVE  \E c \in Creators : creator[c].pc = "rate" /\ ActorKey(creator[c].from) = k
<1>0. spent \in [Keys -> Nat]
  BY LimitsAssumption DEF TypeOK
<1>1. spent' # spent
  BY <1>0
<1>2. CASE \E c \in Creators : CheckRate(c)
  <2>1. PICK c \in Creators : CheckRate(c)
    BY <1>2
  <2>2. spent' = [spent EXCEPT ![ActorKey(creator[c].from)] = @ + 1] /\ creator[c].pc = "rate"
    BY <1>1, <2>1 DEF CheckRate
  <2>3. ActorKey(creator[c].from) = k
    BY <1>0, <2>2
  <2> QED
    BY <2>2, <2>3
<1>3. ASSUME NEW j \in Keys, WindowSlides(j)
      PROVE  FALSE
  BY <1>0, <1>3 DEF WindowSlides
<1>4. CASE Crash
  BY <1>0, <1>4 DEF Crash
<1>5. ASSUME NEW c \in Creators,
             \/ \E ch \in Channels, from \in Authors, to \in People, n \in 1..MaxLines :
                  Tell(c, ch, from, to, n)
             \/ AcquireCreate(c) \/ CountPair(c) \/ CountTotal(c) \/ Insert(c) \/ CreateFails(c)
      PROVE  FALSE
  BY <1>1, <1>5 DEF Tell, AcquireCreate, CountPair, CountTotal, Insert, CreateFails
<1>6. ASSUME NEW d \in Couriers,
             \/ \E ch \in Channels, who \in People : Arrive(d, ch, who)
             \/ AcquireDeliver(d) \/ DeliverStep(d) \/ ReadFails(d)
             \/ \E p \in courier[d].batch : MarkFails(d, p)
      PROVE  FALSE
  BY <1>1, <1>6 DEF Arrive, AcquireDeliver, DeliverStep, ReadPending, Finish, PostNothing, Post,
                    Mark, MarkFails, ReadFails
<1>7. ASSUME NEW x \in Cancellers,
             \/ \E ch \in Channels, i \in Ids, who \in Authors : CancelRead(x, ch, i, who)
             \/ CancelDelete(x) \/ CancelFails(x)
      PROVE  FALSE
  BY <1>1, <1>7 DEF CancelRead, CancelDelete, CancelFails
<1>8. ASSUME (\E i \in Ids : GoStale(i)) \/ Prune \/ UNCHANGED vars
      PROVE  FALSE
  BY <1>1, <1>8 DEF GoStale, Prune, vars
<1> QED
  BY <1>2, <1>3, <1>4, <1>5, <1>6, <1>7, <1>8 DEF Next, CreateStep

\* A refused tell costs its author nothing of the hourly budget, whoever else
\* is creating tells at the same time.
THEOREM RefusalsAreFree == Spec => RefusalIsFree
<1>1. ASSUME CreateInv, [Next]_vars
      PROVE  FreeStep
  <2> SUFFICES ASSUME NEW k \in Keys, spent'[k] > spent[k]
               PROVE  \E c \in Creators :
                        LET call == creator[c] IN
                        /\ ActorKey(call.from) = k
                        /\ TotalCount(tells, call.channel, call.to) < RecipientCap
                        /\ PairCount(tells, call.channel, call.to, k) < PairCap
    BY DEF FreeStep
  <2>1. PICK c \in Creators : creator[c].pc = "rate" /\ ActorKey(creator[c].from) = k
    BY <1>1, OnlyCheckRateSpends DEF CreateInv
  <2>2. /\ TotalCount(tells, creator[c].channel, creator[c].to) < RecipientCap
        /\ PairCount(tells, creator[c].channel, creator[c].to, k) < PairCap
    BY <1>1, <2>1 DEF CreateInv, RoomKept
  <2> QED
    BY <2>1, <2>2
<1>2. CreateInv /\ [Next]_vars => [FreeStep]_vars
  BY <1>1
<1>3. Spec => [][FreeStep]_vars
  BY <1>2, CreateInvInit, CreateInvStep, PTL DEF Spec
<1> QED
  BY <1>3 DEF RefusalIsFree, FreeStep
=============================================================================
