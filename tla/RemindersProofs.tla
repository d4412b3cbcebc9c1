--------------------------- MODULE RemindersProofs ---------------------------
(***************************************************************************)
(* Proofs about Reminders, for every number of concurrent calls, every set *)
(* of channels and actors and every value of the limits.                   *)
(***************************************************************************)
EXTENDS Reminders, FiniteSetTheorems, TLAPS

-----------------------------------------------------------------------------
(* Types.                                                                  *)

LEMMA AtTopType == AtTop \in LoopState
<1>1. 0 \in 0..MaxDelay
  BY RemindersAssumption
<1> QED
  BY <1>1 DEF AtTop, LoopState

\* The limiter keeps its type over a sweep and a pruning.
LEMMA LimiterTypes ==
  ASSUME TypeOK, NEW a \in Actors
  PROVE  /\ Swept \in [Actors -> SUBSET Charge]
         /\ Fresh(a) \subseteq Charge
         /\ SweepClock \in Times
  BY DEF TypeOK, Swept, Fresh, SweepClock

LEMMA DueTypes == TypeOK => Due \subseteq Parcel
<1> SUFFICES ASSUME TypeOK, NEW i \in Ids, reminders[i] # NoRow
             PROVE  Fetched(i) \in Parcel
  BY DEF Due
<1>1. reminders[i] \in Row
  BY DEF TypeOK
<1> QED
  BY <1>1 DEF Fetched, Parcel, Row

\* Counting a loss keeps the type.
LEMMA LoseTypes == TypeOK /\ Lose => lost' \in [Tags -> Nat]
  BY DEF TypeOK, Lose

LEMMA FaultTypes == TypeOK /\ Fault => faults' \in 0..MaxFaults
  BY RemindersAssumption DEF TypeOK, Fault

LEMMA InitTypes == Init => TypeOK
<1> SUFFICES ASSUME Init PROVE TypeOK
  OBVIOUS
<1>1. 0 \in Times /\ 0 \in 0..MaxFaults /\ 0 \in 0..MaxReminders
  BY RemindersAssumption DEF Times
<1> QED
  BY <1>1, AtTopType DEF Init, TypeOK, SetCall

LEMMA SetTypes == TypeOK /\ SetStep => TypeOK'
<1> SUFFICES ASSUME TypeOK, SetStep PROVE TypeOK'
  OBVIOUS
<1>1. ASSUME NEW s \in Setters, NEW a \in Actors, NEW ch \in Channels, NEW at \in Dates,
             SetReminder(s, a, ch, at)
      PROVE  TypeOK'
  <2>1. accepted + 1 \in Tags /\ accepted' \in 0..MaxReminders
    BY <1>1, RemindersAssumption DEF SetReminder, TypeOK, Tags
  <2>2. [tag |-> accepted + 1, at |-> now] \in Charge
    BY <2>1 DEF Charge, TypeOK
  <2>3. rateHistory' \in [Actors -> SUBSET Charge] /\ charges' \in [Actors -> SUBSET Charge]
    BY <1>1, <2>2, LimiterTypes DEF SetReminder, TypeOK
  <2>4. [pc |-> "insert", tag |-> accepted + 1, channel |-> ch, at |-> at, age |-> 0] \in SetCall
    BY <2>1, RemindersAssumption DEF SetCall
  <2>5. setter' \in [Setters -> SetCall] /\ lastSweep' \in Times
    BY <1>1, <2>4, LimiterTypes DEF SetReminder, TypeOK
  <2> QED
    BY <1>1, <2>1, <2>3, <2>5 DEF SetReminder, TypeOK, store, history
<1>2. ASSUME NEW a \in Actors, Refuse(a) PROVE TypeOK'
  <2>1. rateHistory' \in [Actors -> SUBSET Charge] /\ lastSweep' \in Times
    BY <1>2, LimiterTypes DEF Refuse, TypeOK
  <2> QED
    BY <1>2, <2>1 DEF Refuse, TypeOK, store, history
<1>3. ASSUME NEW s \in Setters, Insert(s) PROVE TypeOK'
  <2>1. setter[s] \in [pc: {"insert"}, tag: Tags, channel: Channels, at: Dates, age: 0..MaxDelay]
    BY <1>3 DEF Insert, TypeOK, SetCall, Idle
  <2>2. [tag |-> setter[s].tag, channel |-> setter[s].channel, at |-> setter[s].at] \in Row
    BY <2>1 DEF Row
  <2>3. reminders' \in [Ids -> Row \cup {NoRow}]
    BY <1>3, <2>2 DEF Insert, TypeOK
  <2>4. setter' \in [Setters -> SetCall]
    BY <1>3 DEF Insert, TypeOK, SetCall
  <2> QED
    BY <1>3, <2>3, <2>4 DEF Insert, TypeOK, store, limiter, history
<1>4. ASSUME NEW s \in Setters, InsertFails(s) PROVE TypeOK'
  <2>1. setter' \in [Setters -> SetCall]
    BY <1>4 DEF InsertFails, TypeOK, SetCall
  <2> QED
    BY <1>4, <2>1, FaultTypes DEF InsertFails, TypeOK, limiter, history
<1> QED
  BY <1>1, <1>2, <1>3, <1>4 DEF SetStep

LEMMA CycleTypes == TypeOK /\ CycleStep => TypeOK'
<1> SUFFICES ASSUME TypeOK, CycleStep PROVE TypeOK'
  OBVIOUS
<1>0. 0 \in 0..MaxDelay /\ Due \subseteq Parcel /\ loop \in LoopState
  BY RemindersAssumption, DueTypes DEF TypeOK
<1>1. CASE Poll
  <2>1. loop' \in LoopState
    BY <1>0, <1>1 DEF Poll, LoopState
  <2>2. burst' \in [Channels -> Nat]
    BY <1>1 DEF Poll
  <2> QED
    BY <1>1, <2>1, <2>2 DEF Poll, TypeOK, store, limiter
<1>2. CASE PollFails
  <2>1. loop' \in LoopState
    BY <1>0, <1>2 DEF PollFails, LoopState
  <2>2. burst' \in [Channels -> Nat]
    BY <1>2 DEF PollFails
  <2> QED
    BY <1>2, <2>1, <2>2, FaultTypes DEF PollFails, TypeOK, limiter
<1>3. CASE EndCycle
  <2>1. loop' \in LoopState
    BY <1>0, <1>3 DEF EndCycle, LoopState
  <2> QED
    BY <1>3, <2>1 DEF EndCycle, TypeOK, store, limiter, history
<1>4. CASE Prune
  <2>1. loop' \in LoopState
    BY <1>0, <1>4 DEF Prune, LoopState
  <2>2. reminders' \in [Ids -> Row \cup {NoRow}]
    BY <1>4 DEF Prune, TypeOK
  <2> QED
    BY <1>4, <2>1, <2>2 DEF Prune, TypeOK, store, limiter, history
<1>5. CASE PruneFails
  <2>1. loop' \in LoopState
    BY <1>0, <1>5 DEF PruneFails, LoopState
  <2> QED
    BY <1>5, <2>1, FaultTypes DEF PruneFails, TypeOK, limiter, history
<1>6. CASE EndHousekeeping
  <2>1. loop' \in LoopState
    BY <1>0, <1>6 DEF EndHousekeeping, LoopState
  <2> QED
    BY <1>6, <2>1 DEF EndHousekeeping, TypeOK, store, limiter, history
<1> QED
  BY <1>1, <1>2, <1>3, <1>4, <1>5, <1>6 DEF CycleStep

LEMMA BatchTypes == TypeOK /\ BatchStep => TypeOK'
<1> SUFFICES ASSUME TypeOK, BatchStep PROVE TypeOK'
  OBVIOUS
<1>0. loop \in LoopState
  BY DEF TypeOK
<1>1. CASE StartBatch
  <2>1. PICK p \in loop.todo :
          \E first \in SUBSET {q \in loop.todo : q.channel = p.channel} :
            loop' = [loop EXCEPT !.pc = "fire",
                       !.todo = @ \ {q \in loop.todo : q.channel = p.channel},
                       !.fire = first,
                       !.excess = Excess({q \in loop.todo : q.channel = p.channel}, first)]
    BY <1>1 DEF StartBatch
  <2> DEFINE rows == {q \in loop.todo : q.channel = p.channel}
  <2>2. PICK first \in SUBSET rows :
          loop' = [loop EXCEPT !.pc = "fire", !.todo = @ \ rows, !.fire = first,
                               !.excess = rows \ first]
    BY <2>1 DEF Excess
  <2>3. loop.todo \subseteq Parcel /\ rows \subseteq Parcel /\ first \subseteq Parcel
    BY <1>0 DEF LoopState
  <2> HIDE DEF rows
  <2>4. loop' \in LoopState
    BY <1>0, <2>2, <2>3 DEF LoopState
  <2> QED
    BY <1>1, <2>4 DEF StartBatch, TypeOK, store, limiter, history
<1>2. CASE Delete
  <2>1. loop' \in LoopState
    BY <1>0, <1>2 DEF Delete, LoopState
  <2>2. reminders' \in [Ids -> Row \cup {NoRow}]
    BY <1>2 DEF Delete, TypeOK
  <2> QED
    BY <1>2, <2>1, <2>2 DEF Delete, TypeOK, store, limiter, history
<1>3. CASE DeleteFails
  <2>1. loop' \in LoopState
    BY <1>0, <1>3 DEF DeleteFails, LoopState
  <2> QED
    BY <1>3, <2>1, FaultTypes, LoseTypes DEF DeleteFails, TypeOK, limiter
<1>4. CASE EndBatch
  <2>1. loop' \in LoopState
    BY <1>0, <1>4 DEF EndBatch, LoopState
  <2> QED
    BY <1>4, <2>1 DEF EndBatch, TypeOK, store, limiter, history
<1>5. CASE EndDrop
  <2>1. loop' \in LoopState
    BY <1>0, <1>5 DEF EndDrop, LoopState
  <2> QED
    BY <1>5, <2>1 DEF EndDrop, TypeOK, store, limiter, history
<1>6. ASSUME NEW p \in loop.fire, Post(p) PROVE TypeOK'
  <2>1. loop' \in LoopState /\ p \in Parcel
    BY <1>0, <1>6 DEF Post, LoopState
  <2>2. p.tag \in Tags /\ p.channel \in Channels
    BY <2>1 DEF Parcel
  <2>3. posts' \in [Tags -> Nat] /\ burst' \in [Channels -> Nat] /\ tried' \in SUBSET Tags
    BY <1>6, <2>2 DEF Post, TypeOK
  <2> QED
    BY <1>6, <2>1, <2>3 DEF Post, TypeOK, store, limiter
<1>7. ASSUME NEW p \in loop.fire, PostNothing(p) PROVE TypeOK'
  <2>1. loop' \in LoopState /\ p.tag \in Tags
    BY <1>0, <1>7 DEF PostNothing, LoopState, Parcel
  <2> QED
    BY <1>7, <2>1 DEF PostNothing, TypeOK, store, limiter
<1>8. ASSUME NEW sent \in BOOLEAN, Notice(sent) PROVE TypeOK'
  <2>1. loop' \in LoopState /\ Tag(loop.excess) \subseteq Tags
    BY <1>0, <1>8 DEF Notice, LoopState, Parcel, Tag
  <2> QED
    BY <1>8, <2>1 DEF Notice, TypeOK, store, limiter
<1>9. ASSUME NEW p \in loop.excess, Drop(p) PROVE TypeOK'
  <2>1. loop' \in LoopState /\ p.tag \in Tags
    BY <1>0, <1>9 DEF Drop, LoopState, Parcel
  <2>2. reminders' \in [Ids -> Row \cup {NoRow}]
    BY <1>9 DEF Drop, TypeOK
  <2> QED
    BY <1>9, <2>1, <2>2 DEF Drop, TypeOK, store, limiter
<1>10. ASSUME NEW p \in loop.excess, DropFails(p) PROVE TypeOK'
  <2>1. loop' \in LoopState /\ p.tag \in Tags
    BY <1>0, <1>10 DEF DropFails, LoopState, Parcel
  <2> QED
    BY <1>10, <2>1, FaultTypes DEF DropFails, TypeOK, limiter
<1> QED
  BY <1>1, <1>2, <1>3, <1>4, <1>5, <1>6, <1>7, <1>8, <1>9, <1>10 DEF BatchStep

LEMMA OtherTypes == TypeOK /\ (Stop \/ Restart \/ Tick) => TypeOK'
<1> SUFFICES ASSUME TypeOK, Stop \/ Restart \/ Tick PROVE TypeOK'
  OBVIOUS
<1>1. CASE Stop
  <2>1. loop' \in LoopState
    BY <1>1, AtTopType DEF Stop, LoopState
  <2> QED
    BY <1>1, <2>1, LoseTypes DEF Stop, TypeOK, store, limiter
<1>2. CASE Restart
  <2>1. setter' \in [Setters -> SetCall] /\ 0 \in Times
    BY <1>2, RemindersAssumption DEF Restart, SetCall, Times
  <2>2. /\ loop' \in LoopState
        /\ rateHistory' \in [Actors -> SUBSET Charge]
        /\ charges' \in [Actors -> SUBSET Charge]
    BY <1>2, AtTopType DEF Restart
  <2> QED
    BY <1>2, <2>1, <2>2, LoseTypes, FaultTypes DEF Restart, TypeOK
<1>3. CASE Tick
  <2>1. now' \in Times
    BY <1>3, RemindersAssumption DEF Tick, TypeOK, Times
  <2>2. loop' \in LoopState
    <3>1. CASE loop' = loop
      BY <3>1 DEF TypeOK
    <3>2. CASE loop.age < MaxDelay /\ loop' = [loop EXCEPT !.age = @ + 1]
      <4>1. loop.age + 1 \in 0..MaxDelay
        BY <3>2, RemindersAssumption DEF TypeOK, LoopState
      <4> QED
        BY <3>2, <4>1 DEF TypeOK, LoopState
    <3> QED
      BY <1>3, <3>1, <3>2 DEF Tick
  <2>3. setter' \in [Setters -> SetCall]
    <3> SUFFICES ASSUME NEW s \in Setters, setter[s].pc = "insert"
                 PROVE  [setter[s] EXCEPT !.age = @ + 1] \in SetCall
      BY <1>3 DEF Tick, TypeOK
    <3>1. setter[s] \in [pc: {"insert"}, tag: Tags, channel: Channels, at: Dates, age: 0..MaxDelay]
      BY DEF TypeOK, SetCall, Idle
    <3>2. setter[s].age + 1 \in 0..MaxDelay
      BY <1>3, <3>1, RemindersAssumption DEF Tick
    <3> QED
      BY <3>1, <3>2 DEF SetCall
  <2> QED
    BY <1>3, <2>1, <2>2, <2>3 DEF Tick, TypeOK, limiter, history
<1> QED
  BY <1>1, <1>2, <1>3

LEMMA StutterTypes == TypeOK /\ UNCHANGED vars => TypeOK'
  BY DEF TypeOK, vars, store, limiter, history

\* Every variable keeps its type; no call charges more than the bound.
THEOREM TypeCorrect == Spec => []TypeOK
<1>1. TypeOK /\ [Next]_vars => TypeOK'
  BY SetTypes, BatchTypes, CycleTypes, OtherTypes, StutterTypes DEF Next
<1> QED
  BY InitTypes, <1>1, PTL DEF Spec

-----------------------------------------------------------------------------
(* The batch is current.                                                   *)

\* Which of the loop's sets hold rows at which place, and that a row is in
\* one of them only.
Shape ==
  /\ loop.pc \in {"poll", "prune", "refresh", "stopped"} => loop.todo = {}
  /\ loop.pc \notin {"fire", "delete"} => loop.fire = {}
  /\ loop.pc # "delete" => loop.posted = {}
  /\ loop.pc \notin {"fire", "delete", "notice", "drop"} => loop.excess = {}
  /\ loop.todo \cap (loop.fire \cup loop.posted \cup loop.excess) = {}
  /\ loop.fire \cap (loop.posted \cup loop.excess) = {}
  /\ loop.posted \cap loop.excess = {}
  /\ \A p, q \in loop.posted : p = q

HeldInv == TypeOK /\ Shape /\ BatchIsCurrent

\* Two fetched rows with one id are one row, because both are the table's.
LEMMA OneParcelPerId ==
  ASSUME HeldInv,
         NEW p \in loop.todo \cup loop.fire \cup loop.posted \cup loop.excess,
         NEW q \in loop.todo \cup loop.fire \cup loop.posted \cup loop.excess,
         p.id = q.id
  PROVE  p = q
<1>1. p \in Parcel /\ q \in Parcel
  BY DEF HeldInv, TypeOK, LoopState
<1>2. [tag |-> p.tag, channel |-> p.channel, at |-> p.at]
        = [tag |-> q.tag, channel |-> q.channel, at |-> q.at]
  BY DEF HeldInv, BatchIsCurrent
<1>3. p.tag = q.tag /\ p.channel = q.channel /\ p.at = q.at
  BY <1>2
<1> QED
  BY <1>1, <1>3 DEF Parcel

\* A fetched row is a row: its slot is not free.
LEMMA HeldIsInTable ==
  ASSUME HeldInv, NEW p \in loop.todo \cup loop.fire \cup loop.posted \cup loop.excess
  PROVE  p.id \in Ids /\ reminders[p.id] # NoRow
<1>1. p \in Parcel
  BY DEF HeldInv, TypeOK, LoopState
<1>2. [tag |-> p.tag, channel |-> p.channel, at |-> p.at] \in Row
  BY <1>1 DEF Parcel, Row
<1> QED
  BY <1>1, <1>2, RemindersAssumption DEF HeldInv, BatchIsCurrent, Parcel

\* The next id is free.
LEMMA NextIdIsFree ==
  ASSUME NEW i \in Ids, IsNextId(reminders, i)
  PROVE  reminders[i] = NoRow
<1>1. ~(i < i)
  BY DEF Ids
<1> QED
  BY <1>1 DEF IsNextId

\* A step that changes neither the table nor what the loop holds.
LEMMA HeldKept ==
  ASSUME HeldInv, reminders' = reminders, loop' = loop
  PROVE  Shape' /\ BatchIsCurrent'
  BY DEF HeldInv, Shape, BatchIsCurrent

LEMMA SetHeld ==
  ASSUME HeldInv, SetStep
  PROVE  Shape' /\ BatchIsCurrent'
<1>1. ASSUME NEW s \in Setters, NEW a \in Actors, NEW ch \in Channels, NEW at \in Dates,
             SetReminder(s, a, ch, at)
      PROVE  Shape' /\ BatchIsCurrent'
  BY <1>1, HeldKept DEF SetReminder
<1>2. ASSUME NEW a \in Actors, Refuse(a) PROVE Shape' /\ BatchIsCurrent'
  BY <1>2, HeldKept DEF Refuse
<1>3. ASSUME NEW s \in Setters, Insert(s) PROVE Shape' /\ BatchIsCurrent'
  <2>1. PICK i \in Ids :
          /\ IsNextId(reminders, i)
          /\ reminders' = [reminders EXCEPT ![i] =
               [tag |-> setter[s].tag, channel |-> setter[s].channel, at |-> setter[s].at]]
    BY <1>3 DEF Insert
  <2>2. reminders[i] = NoRow
    BY <2>1, NextIdIsFree
  <2>3. ASSUME NEW p \in loop.todo \cup loop.fire \cup loop.posted \cup loop.excess
        PROVE  reminders'[p.id] = reminders[p.id]
    BY <2>1, <2>2, HeldIsInTable DEF HeldInv, TypeOK
  <2>4. loop' = loop
    BY <1>3 DEF Insert
  <2> QED
    BY <2>3, <2>4 DEF HeldInv, Shape, BatchIsCurrent
<1>4. ASSUME NEW s \in Setters, InsertFails(s) PROVE Shape' /\ BatchIsCurrent'
  BY <1>4, HeldKept DEF InsertFails
<1> QED
  BY <1>1, <1>2, <1>3, <1>4 DEF SetStep

LEMMA CycleHeld ==
  ASSUME HeldInv, CycleStep
  PROVE  Shape' /\ BatchIsCurrent'
<1>0. loop \in LoopState
  BY DEF HeldInv, TypeOK
<1>1. CASE Poll
  <2>1. /\ loop'.pc = "next" /\ loop'.todo = Due
        /\ loop'.fire = {} /\ loop'.posted = {} /\ loop'.excess = {}
    BY <1>0, <1>1 DEF Poll, HeldInv, Shape, LoopState
  <2>2. ASSUME NEW p \in Due
        PROVE  reminders'[p.id] = [tag |-> p.tag, channel |-> p.channel, at |-> p.at]
    <3>1. PICK i \in Ids : reminders[i] # NoRow /\ p = Fetched(i)
      BY DEF Due
    <3>2. reminders[i] \in Row
      BY <3>1 DEF HeldInv, TypeOK
    <3>3. reminders[i] = [tag |-> reminders[i].tag, channel |-> reminders[i].channel,
                          at |-> reminders[i].at]
      BY <3>2 DEF Row
    <3> QED
      BY <1>1, <3>1, <3>3 DEF Poll, Fetched
  <2> QED
    BY <2>1, <2>2 DEF Shape, BatchIsCurrent
<1>2. CASE PollFails
  <2>1. /\ loop'.pc = "next" /\ loop'.todo = {} /\ reminders' = reminders
        /\ loop'.fire = {} /\ loop'.posted = {} /\ loop'.excess = {}
    BY <1>0, <1>2 DEF PollFails, HeldInv, Shape, LoopState
  <2> QED
    BY <2>1 DEF Shape, BatchIsCurrent
<1>3. CASE EndCycle \/ Prune \/ PruneFails \/ EndHousekeeping
  <2>1. /\ loop'.pc \in {"poll", "prune", "refresh"} /\ loop'.todo = {}
        /\ loop'.fire = {} /\ loop'.posted = {} /\ loop'.excess = {}
    BY <1>0, <1>3 DEF EndCycle, Prune, PruneFails, EndHousekeeping, HeldInv, Shape, LoopState
  <2> QED
    BY <2>1 DEF Shape, BatchIsCurrent
<1> QED
  BY <1>1, <1>2, <1>3 DEF CycleStep

\* The row of one fetched row is deleted, the others are still the table's.
LEMMA DeleteOne ==
  ASSUME HeldInv,
         NEW p \in loop.todo \cup loop.fire \cup loop.posted \cup loop.excess,
         reminders' = [reminders EXCEPT ![p.id] = NoRow],
         NEW q \in loop.todo \cup loop.fire \cup loop.posted \cup loop.excess, q # p
  PROVE  reminders'[q.id] = [tag |-> q.tag, channel |-> q.channel, at |-> q.at]
<1>1. q.id # p.id /\ q.id \in Ids
  BY OneParcelPerId, HeldIsInTable
<1> QED
  BY <1>1 DEF HeldInv, TypeOK, BatchIsCurrent

LEMMA BatchHeld ==
  ASSUME HeldInv, BatchStep
  PROVE  Shape' /\ BatchIsCurrent'
<1>0. loop \in LoopState
  BY DEF HeldInv, TypeOK
<1>1. CASE StartBatch
  <2>1. PICK p \in loop.todo :
          \E first \in SUBSET {q \in loop.todo : q.channel = p.channel} :
            /\ Split({q \in loop.todo : q.channel = p.channel}, first)
            /\ loop' = [loop EXCEPT !.pc = "fire",
                       !.todo = @ \ {q \in loop.todo : q.channel = p.channel},
                       !.fire = first,
                       !.excess = Excess({q \in loop.todo : q.channel = p.channel}, first)]
    BY <1>1 DEF StartBatch
  <2> DEFINE rows == {q \in loop.todo : q.channel = p.channel}
  <2>2. PICK first \in SUBSET rows :
          loop' = [loop EXCEPT !.pc = "fire", !.todo = @ \ rows, !.fire = first,
                               !.excess = rows \ first]
    BY <2>1 DEF Excess
  <2>3. loop.pc = "next" /\ reminders' = reminders
    BY <1>1 DEF StartBatch
  <2>4. /\ loop'.pc = "fire" /\ loop'.todo = loop.todo \ rows /\ loop'.fire = first
        /\ loop'.excess = rows \ first /\ loop'.posted = {}
    BY <1>0, <2>2, <2>3 DEF HeldInv, Shape, LoopState
  <2> QED
    BY <2>3, <2>4 DEF HeldInv, Shape, BatchIsCurrent
<1>2. CASE Delete
  <2>1. PICK p \in loop.posted : reminders' = [reminders EXCEPT ![p.id] = NoRow]
    BY <1>2 DEF Delete
  <2>2. /\ loop.pc = "delete" /\ loop'.pc = "fire" /\ loop'.todo = loop.todo
        /\ loop'.fire = loop.fire /\ loop'.posted = {} /\ loop'.excess = loop.excess
    BY <1>0, <1>2 DEF Delete, LoopState
  <2>3. ASSUME NEW q \in loop'.todo \cup loop'.fire \cup loop'.posted \cup loop'.excess
        PROVE  reminders'[q.id] = [tag |-> q.tag, channel |-> q.channel, at |-> q.at]
    <3>1. q # p /\ q \in loop.todo \cup loop.fire \cup loop.posted \cup loop.excess
      BY <2>2 DEF HeldInv, Shape
    <3> QED
      BY <2>1, <3>1, DeleteOne
  <2>4. Shape'
    BY <2>2 DEF HeldInv, Shape
  <2> QED
    BY <2>3, <2>4 DEF BatchIsCurrent
<1>3. CASE DeleteFails \/ EndBatch \/ EndDrop
  <2>1. /\ reminders' = reminders /\ loop'.todo = loop.todo /\ loop'.fire = loop.fire
        /\ loop'.posted = {} /\ loop'.excess = loop.excess
    BY <1>0, <1>3 DEF DeleteFails, EndBatch, EndDrop, HeldInv, Shape, LoopState
  <2>2. Shape'
    BY <1>0, <1>3, <2>1 DEF DeleteFails, EndBatch, EndDrop, HeldInv, Shape, LoopState
  <2> QED
    BY <2>1, <2>2 DEF HeldInv, BatchIsCurrent
<1>4. ASSUME NEW p \in loop.fire, Post(p) PROVE Shape' /\ BatchIsCurrent'
  <2>1. /\ reminders' = reminders /\ loop.pc = "fire" /\ loop'.pc = "delete"
        /\ loop'.todo = loop.todo /\ loop'.fire = loop.fire \ {p}
        /\ loop'.posted = {p} /\ loop'.excess = loop.excess
    BY <1>0, <1>4 DEF Post, LoopState
  <2> QED
    BY <2>1 DEF HeldInv, Shape, BatchIsCurrent
<1>5. ASSUME NEW p \in loop.fire, PostNothing(p) PROVE Shape' /\ BatchIsCurrent'
  <2>1. /\ reminders' = reminders /\ loop'.pc = loop.pc
        /\ loop'.todo = loop.todo /\ loop'.fire = loop.fire \ {p}
        /\ loop'.posted = loop.posted /\ loop'.excess = loop.excess
    BY <1>0, <1>5 DEF PostNothing, LoopState
  <2> QED
    BY <2>1 DEF HeldInv, Shape, BatchIsCurrent
<1>6. ASSUME NEW sent \in BOOLEAN, Notice(sent) PROVE Shape' /\ BatchIsCurrent'
  <2>1. /\ reminders' = reminders /\ loop.pc = "notice" /\ loop'.pc = "drop"
        /\ loop'.todo = loop.todo /\ loop'.fire = loop.fire
        /\ loop'.posted = loop.posted /\ loop'.excess = loop.excess
    BY <1>0, <1>6 DEF Notice, LoopState
  <2> QED
    BY <2>1 DEF HeldInv, Shape, BatchIsCurrent
<1>7. ASSUME NEW p \in loop.excess, Drop(p) \/ DropFails(p) PROVE Shape' /\ BatchIsCurrent'
  <2>1. /\ loop.pc = "drop" /\ loop'.pc = "drop"
        /\ loop'.todo = loop.todo /\ loop'.fire = loop.fire
        /\ loop'.posted = loop.posted /\ loop'.excess = loop.excess \ {p}
    BY <1>0, <1>7 DEF Drop, DropFails, LoopState
  <2>2. Shape'
    BY <2>1 DEF HeldInv, Shape
  <2>3. ASSUME NEW q \in loop'.todo \cup loop'.fire \cup loop'.posted \cup loop'.excess
        PROVE  reminders'[q.id] = [tag |-> q.tag, channel |-> q.channel, at |-> q.at]
    <3>1. q # p /\ q \in loop.todo \cup loop.fire \cup loop.posted \cup loop.excess
      BY <2>1 DEF HeldInv, Shape
    <3>2. CASE Drop(p)
      BY <3>1, <3>2, DeleteOne DEF Drop
    <3>3. CASE DropFails(p)
      BY <3>1, <3>3 DEF DropFails, HeldInv, BatchIsCurrent
    <3> QED
      BY <1>7, <3>2, <3>3
  <2> QED
    BY <2>2, <2>3 DEF BatchIsCurrent
<1> QED
  BY <1>1, <1>2, <1>3, <1>4, <1>5, <1>6, <1>7 DEF BatchStep

LEMMA OtherHeld ==
  ASSUME HeldInv, Stop \/ Restart \/ Tick
  PROVE  Shape' /\ BatchIsCurrent'
<1>0. loop \in LoopState
  BY DEF HeldInv, TypeOK
<1>1. CASE Stop \/ Restart
  <2>1. /\ loop'.pc \in {"poll", "stopped"} /\ loop'.todo = {}
        /\ loop'.fire = {} /\ loop'.posted = {} /\ loop'.excess = {}
    BY <1>1 DEF Stop, Restart, AtTop
  <2> QED
    BY <2>1 DEF Shape, BatchIsCurrent
<1>2. CASE Tick
  <2>1. /\ loop'.pc = loop.pc /\ loop'.todo = loop.todo /\ loop'.fire = loop.fire
        /\ loop'.posted = loop.posted /\ loop'.excess = loop.excess
    BY <1>0, <1>2 DEF Tick, LoopState
  <2>2. reminders' = reminders
    BY <1>2 DEF Tick
  <2> QED
    BY <2>1, <2>2 DEF HeldInv, Shape, BatchIsCurrent
<1> QED
  BY <1>1, <1>2

\* What the loop holds are rows of the table, from the poll to the delete.
THEOREM BatchStaysCurrent == Spec => []BatchIsCurrent
<1>1. Init => HeldInv
  BY InitTypes DEF Init, HeldInv, Shape, BatchIsCurrent, AtTop
<1>2. HeldInv /\ [Next]_vars => HeldInv'
  <2>1. HeldInv /\ UNCHANGED vars => Shape' /\ BatchIsCurrent'
    BY HeldKept DEF vars
  <2>2. HeldInv /\ [Next]_vars => TypeOK'
    BY SetTypes, BatchTypes, CycleTypes, OtherTypes, StutterTypes DEF Next, HeldInv
  <2> QED
    BY <2>1, <2>2, SetHeld, CycleHeld, BatchHeld, OtherHeld DEF Next, HeldInv
<1>3. HeldInv => BatchIsCurrent
  BY DEF HeldInv
<1> QED
  BY <1>1, <1>2, <1>3, PTL DEF Spec

-----------------------------------------------------------------------------
(* Posted once per loss.                                                   *)

InTable(i) == i \in Ids /\ reminders[i] # NoRow

\* A reminder is in one row at most, or still with the call that inserts it,
\* and its number is one of those given out.
Numbered ==
  /\ \A i, j \in Ids : InTable(i) /\ InTable(j) /\ reminders[i].tag = reminders[j].tag => i = j
  /\ \A i \in Ids : InTable(i) => reminders[i].tag <= accepted
  /\ \A s \in Setters : setter[s].pc = "insert" =>
       /\ setter[s].tag <= accepted
       /\ \A i \in Ids : InTable(i) => reminders[i].tag # setter[s].tag
  /\ \A s, r \in Setters :
       setter[s].pc = "insert" /\ setter[r].pc = "insert" /\ s # r
         => setter[s].tag # setter[r].tag

\* A reminder that may still be posted has been lost as often as posted: it
\* has no number yet, or no row yet, or a row that is not the one just posted.
Owed(t) ==
  \/ t > accepted
  \/ \E s \in Setters : setter[s].pc = "insert" /\ setter[s].tag = t
  \/ \E i \in Ids : InTable(i) /\ reminders[i].tag = t /\ t \notin Tag(loop.posted)

Counted == \A t \in Tags : Owed(t) => posts[t] <= lost[t]

CountInv == HeldInv /\ Numbered /\ Counted /\ OncePerLoss

\* What is owed after a step was owed before it.
LEMMA OwedLess ==
  ASSUME CountInv, posts' = posts, lost' = lost, \A t \in Tags : Owed(t)' => Owed(t)
  PROVE  Counted' /\ OncePerLoss'
  BY DEF CountInv, Counted, OncePerLoss

\* Rows disappear; nobody gets a number.
LEMMA NumberedLess ==
  ASSUME Numbered, accepted' = accepted,
         \A i \in Ids : reminders'[i] = reminders[i] \/ reminders'[i] = NoRow,
         setter' = setter
  PROVE  Numbered'
  BY DEF Numbered, InTable

LEMMA SetCounted ==
  ASSUME CountInv, SetStep
  PROVE  Numbered' /\ Counted' /\ OncePerLoss'
<1>0. TypeOK /\ accepted \in Nat
  BY DEF CountInv, HeldInv, TypeOK
<1>1. ASSUME NEW s \in Setters, NEW a \in Actors, NEW ch \in Channels, NEW at \in Dates,
             SetReminder(s, a, ch, at)
      PROVE  Numbered' /\ Counted' /\ OncePerLoss'
  <2>1. /\ accepted' = accepted + 1 /\ reminders' = reminders /\ loop' = loop
        /\ posts' = posts /\ lost' = lost
    BY <1>1 DEF SetReminder, history
  <2>2. /\ setter[s].pc = "idle" /\ setter'[s].pc = "insert" /\ setter'[s].tag = accepted + 1
        /\ \A r \in Setters : r # s => setter'[r] = setter[r]
    BY <1>0, <1>1 DEF SetReminder, TypeOK
  <2>3. \A i \in Ids : InTable(i) => reminders[i].tag \in Tags
    BY <1>0 DEF TypeOK, InTable, Row
  <2>4. \A r \in Setters : setter[r].pc = "insert" => setter[r].tag \in Tags
    BY <1>0 DEF TypeOK, SetCall, Idle
  <2>5. Numbered'
    BY <1>0, <2>1, <2>2, <2>3, <2>4 DEF CountInv, Numbered, InTable, Tags
  <2>6. \A t \in Tags : Owed(t)' => Owed(t)
    <3> SUFFICES ASSUME NEW t \in Tags, Owed(t)' PROVE Owed(t)
      OBVIOUS
    <3>1. CASE t > accepted'
      BY <1>0, <2>1, <3>1 DEF Owed, Tags
    <3>2. CASE \E r \in Setters : setter'[r].pc = "insert" /\ setter'[r].tag = t
      BY <1>0, <2>2, <3>2 DEF Owed, Tags
    <3>3. CASE \E i \in Ids : InTable(i)' /\ reminders'[i].tag = t /\ t \notin Tag(loop'.posted)
      BY <2>1, <3>3 DEF Owed, InTable
    <3> QED
      BY <3>1, <3>2, <3>3 DEF Owed
  <2> QED
    BY <2>1, <2>5, <2>6, OwedLess
<1>2. ASSUME NEW a \in Actors, Refuse(a)
      PROVE  Numbered' /\ Counted' /\ OncePerLoss'
  BY <1>2 DEF Refuse, history, CountInv, Numbered, Counted, Owed, OncePerLoss, InTable
<1>3. ASSUME NEW s \in Setters, Insert(s)
      PROVE  Numbered' /\ Counted' /\ OncePerLoss'
  <2>1. PICK i \in Ids :
          /\ IsNextId(reminders, i)
          /\ reminders' = [reminders EXCEPT ![i] =
               [tag |-> setter[s].tag, channel |-> setter[s].channel, at |-> setter[s].at]]
    BY <1>3 DEF Insert
  <2>2. /\ reminders'[i].tag = setter[s].tag
        /\ \A j \in Ids : j # i => reminders'[j] = reminders[j]
    BY <1>0, <2>1 DEF TypeOK
  <2>3. /\ setter[s].pc = "insert" /\ setter'[s].pc = "idle"
        /\ \A r \in Setters : r # s => setter'[r] = setter[r]
    BY <1>0, <1>3 DEF Insert, TypeOK, Idle
  <2>4. accepted' = accepted /\ loop' = loop /\ posts' = posts /\ lost' = lost
    BY <1>3 DEF Insert, limiter, history
  <2>5. Numbered'
    BY <2>2, <2>3, <2>4 DEF CountInv, Numbered, InTable
  <2>6. \A t \in Tags : Owed(t)' => Owed(t)
    BY <2>2, <2>3, <2>4 DEF Owed, InTable
  <2> QED
    BY <2>4, <2>5, <2>6, OwedLess
<1>4. ASSUME NEW s \in Setters, InsertFails(s)
      PROVE  Numbered' /\ Counted' /\ OncePerLoss'
  <2>1. /\ setter'[s].pc = "idle"
        /\ \A r \in Setters : r # s => setter'[r] = setter[r]
    BY <1>0, <1>4 DEF InsertFails, TypeOK, Idle
  <2>2. /\ accepted' = accepted /\ loop' = loop /\ reminders' = reminders
        /\ posts' = posts /\ lost' = lost
    BY <1>4 DEF InsertFails, limiter, history
  <2>3. Numbered'
    BY <2>1, <2>2 DEF CountInv, Numbered, InTable
  <2>4. \A t \in Tags : Owed(t)' => Owed(t)
    BY <2>1, <2>2 DEF Owed, InTable
  <2> QED
    BY <2>2, <2>3, <2>4, OwedLess
<1> QED
  BY <1>1, <1>2, <1>3, <1>4 DEF SetStep

\* Deleting, sweeping and leaving alone the rows that were not just posted.
LEMMA RowsGo ==
  ASSUME CountInv, accepted' = accepted, setter' = setter, posts' = posts, lost' = lost,
         \A i \in Ids : reminders'[i] = reminders[i] \/ reminders'[i] = NoRow,
         \A i \in Ids : InTable(i) /\ reminders[i].tag \in Tag(loop.posted) =>
            reminders'[i] = NoRow \/ reminders[i].tag \in Tag(loop'.posted)
  PROVE  Numbered' /\ Counted' /\ OncePerLoss'
<1>1. Numbered'
  BY NumberedLess DEF CountInv
<1>2. \A t \in Tags : Owed(t)' => Owed(t)
  BY DEF Owed, InTable
<1> QED
  BY <1>1, <1>2, OwedLess

LEMMA CycleCounted ==
  ASSUME CountInv, CycleStep
  PROVE  Numbered' /\ Counted' /\ OncePerLoss'
<1>1. loop.posted = {}
  BY DEF CountInv, HeldInv, Shape, CycleStep, Poll, PollFails, EndCycle, Prune, PruneFails,
         EndHousekeeping
<1>2. accepted' = accepted /\ setter' = setter /\ posts' = posts /\ lost' = lost
  BY DEF CycleStep, Poll, PollFails, EndCycle, Prune, PruneFails, EndHousekeeping,
         limiter, history
<1>3. \A i \in Ids : reminders'[i] = reminders[i] \/ reminders'[i] = NoRow
  BY DEF CycleStep, Poll, PollFails, EndCycle, Prune, PruneFails, EndHousekeeping
<1> QED
  BY <1>1, <1>2, <1>3, RowsGo DEF Tag

\* The loss of a posted row makes up for its post.
LEMMA LossCounted ==
  ASSUME CountInv, Lose, accepted' = accepted, posts' = posts, reminders' = reminders,
         Numbered',
         \A s \in Setters : setter'[s] = setter[s] \/ setter'[s].pc = "idle"
  PROVE  Counted' /\ OncePerLoss'
<1>1. posts \in [Tags -> Nat] /\ lost \in [Tags -> Nat]
  BY DEF CountInv, HeldInv, TypeOK
<1>2. ASSUME NEW t \in Tags
      PROVE  /\ lost'[t] >= lost[t] /\ lost'[t] \in Nat
             /\ t \in Tag(loop.posted) => lost'[t] = lost[t] + 1
  BY <1>1 DEF Lose
<1>3. ASSUME NEW t \in Tags, Owed(t)'
      PROVE  t \in Tag(loop.posted) \/ Owed(t)
  BY <1>3 DEF Owed, InTable
<1>4. ASSUME NEW t \in Tags, Owed(t)' PROVE posts[t] <= lost'[t]
  <2>1. CASE t \in Tag(loop.posted)
    BY <1>1, <1>2, <2>1 DEF CountInv, OncePerLoss
  <2>2. CASE Owed(t)
    BY <1>1, <1>2, <2>2 DEF CountInv, Counted
  <2> QED
    BY <1>3, <1>4, <2>1, <2>2
<1>5. ASSUME NEW t \in Tags PROVE posts[t] <= 1 + lost'[t]
  BY <1>1, <1>2 DEF CountInv, OncePerLoss
<1> QED
  BY <1>4, <1>5 DEF Counted, OncePerLoss

LEMMA BatchCounted ==
  ASSUME CountInv, BatchStep
  PROVE  Numbered' /\ Counted' /\ OncePerLoss'
<1>0. HeldInv /\ loop \in LoopState /\ posts \in [Tags -> Nat] /\ lost \in [Tags -> Nat]
  BY DEF CountInv, HeldInv, TypeOK
<1>1. CASE StartBatch \/ EndBatch \/ EndDrop \/ \E sent \in BOOLEAN : Notice(sent)
  <2>1. /\ accepted' = accepted /\ setter' = setter /\ posts' = posts /\ lost' = lost
        /\ reminders' = reminders
    BY <1>1 DEF StartBatch, EndBatch, EndDrop, Notice, limiter, history
  <2>2. loop.posted = {}
    BY <1>0, <1>1 DEF StartBatch, EndBatch, EndDrop, Notice, HeldInv, Shape
  <2> QED
    BY <2>1, <2>2, RowsGo DEF Tag
<1>2. CASE Delete
  <2>1. PICK p \in loop.posted : reminders' = [reminders EXCEPT ![p.id] = NoRow]
    BY <1>2 DEF Delete
  <2>2. accepted' = accepted /\ setter' = setter /\ posts' = posts /\ lost' = lost
    BY <1>2 DEF Delete, limiter, history
  <2>3. \A i \in Ids : reminders'[i] = reminders[i] \/ reminders'[i] = NoRow
    BY <1>0, <2>1 DEF HeldInv, TypeOK
  <2>4. ASSUME NEW i \in Ids, InTable(i), reminders[i].tag \in Tag(loop.posted)
        PROVE  reminders'[i] = NoRow
    <3>1. PICK q \in loop.posted : reminders[i].tag = q.tag
      BY <2>4 DEF Tag
    <3>2. q = p
      BY <1>0, <3>1 DEF HeldInv, Shape
    <3>3. p.id \in Ids /\ InTable(p.id) /\ reminders[p.id].tag = p.tag
      <4>0. p \in loop.todo \cup loop.fire \cup loop.posted \cup loop.excess
        OBVIOUS
      <4>1. p.id \in Ids /\ reminders[p.id] # NoRow
        BY <1>0, <4>0, HeldIsInTable
      <4>2. reminders[p.id] = [tag |-> p.tag, channel |-> p.channel, at |-> p.at]
        BY <1>0, <4>0 DEF HeldInv, BatchIsCurrent
      <4>3. reminders[p.id].tag = p.tag
        BY <4>2
      <4> QED
        BY <4>1, <4>3 DEF InTable
    <3>4. i = p.id
      BY <2>4, <3>1, <3>2, <3>3 DEF CountInv, Numbered
    <3> QED
      BY <1>0, <2>1, <3>4 DEF HeldInv, TypeOK
  <2> QED
    BY <2>2, <2>3, <2>4, RowsGo
<1>3. CASE DeleteFails
  <2>1. accepted' = accepted /\ setter' = setter /\ posts' = posts /\ reminders' = reminders /\ Lose
    BY <1>3 DEF DeleteFails, limiter
  <2>2. Numbered'
    BY <2>1, NumberedLess DEF CountInv
  <2> QED
    BY <2>1, <2>2, LossCounted
<1>4. ASSUME NEW p \in loop.fire, Post(p) PROVE Numbered' /\ Counted' /\ OncePerLoss'
  <2>1. /\ accepted' = accepted /\ setter' = setter /\ lost' = lost /\ reminders' = reminders
        /\ posts' = [posts EXCEPT ![p.tag] = @ + 1]
    BY <1>4 DEF Post, limiter
  <2>2. Numbered'
    BY <2>1, NumberedLess DEF CountInv
  <2>3. loop'.posted = {p} /\ loop.posted = {} /\ p \in Parcel
    BY <1>0, <1>4 DEF Post, LoopState, HeldInv, Shape
  <2>4. p.id \in Ids /\ InTable(p.id) /\ reminders[p.id].tag = p.tag /\ p.tag \in Tags
    <3>0. p \in loop.todo \cup loop.fire \cup loop.posted \cup loop.excess
      OBVIOUS
    <3>1. p.id \in Ids /\ reminders[p.id] # NoRow
      BY <1>0, <3>0, HeldIsInTable
    <3>2. reminders[p.id] = [tag |-> p.tag, channel |-> p.channel, at |-> p.at]
      BY <1>0, <3>0 DEF HeldInv, BatchIsCurrent
    <3>3. reminders[p.id].tag = p.tag
      BY <3>2
    <3>4. p.tag \in Tags
      BY <2>3 DEF Parcel
    <3> QED
      BY <3>1, <3>3, <3>4 DEF InTable
  <2>5. Tag(loop'.posted) = {p.tag} /\ Tag(loop.posted) = {}
    BY <2>3 DEF Tag
  <2>6. Owed(p.tag)
    BY <2>4, <2>5 DEF Owed
  <2>7. OncePerLoss'
    BY <1>0, <2>1, <2>4, <2>6 DEF CountInv, Counted, OncePerLoss
  <2>8. ~Owed(p.tag)'
    <3>1. accepted \in Nat
      BY <1>0 DEF HeldInv, TypeOK
    <3>2. ~(p.tag > accepted)
      BY <2>4, <3>1 DEF CountInv, Numbered, Tags
    <3> QED
      BY <2>1, <2>4, <2>5, <3>2 DEF CountInv, Numbered, Owed
  <2>9. \A t \in Tags : Owed(t)' => Owed(t)
    BY <2>1, <2>5 DEF Owed, InTable
  <2>10. Counted'
    BY <1>0, <2>1, <2>4, <2>8, <2>9 DEF CountInv, Counted
  <2> QED
    BY <2>2, <2>7, <2>10
<1>5. ASSUME NEW p \in loop.fire, PostNothing(p) PROVE Numbered' /\ Counted' /\ OncePerLoss'
  <2>1. /\ accepted' = accepted /\ setter' = setter /\ posts' = posts /\ lost' = lost
        /\ reminders' = reminders /\ loop'.posted = loop.posted
    BY <1>0, <1>5 DEF PostNothing, limiter, LoopState
  <2> QED
    BY <2>1, RowsGo
<1>6. ASSUME NEW p \in loop.excess, Drop(p) \/ DropFails(p)
      PROVE  Numbered' /\ Counted' /\ OncePerLoss'
  <2>1. accepted' = accepted /\ setter' = setter /\ posts' = posts /\ lost' = lost
    BY <1>6 DEF Drop, DropFails, limiter
  <2>2. \A i \in Ids : reminders'[i] = reminders[i] \/ reminders'[i] = NoRow
    BY <1>0, <1>6 DEF Drop, DropFails, HeldInv, TypeOK
  <2>3. loop.posted = {}
    BY <1>0, <1>6 DEF Drop, DropFails, HeldInv, Shape
  <2> QED
    BY <2>1, <2>2, <2>3, RowsGo DEF Tag
<1> QED
  BY <1>1, <1>2, <1>3, <1>4, <1>5, <1>6 DEF BatchStep

LEMMA OtherCounted ==
  ASSUME CountInv, Stop \/ Restart \/ Tick
  PROVE  Numbered' /\ Counted' /\ OncePerLoss'
<1>0. TypeOK
  BY DEF CountInv, HeldInv
<1>1. CASE Stop
  <2>1. accepted' = accepted /\ setter' = setter /\ posts' = posts /\ reminders' = reminders /\ Lose
    BY <1>1 DEF Stop, limiter
  <2>2. Numbered'
    BY <2>1, NumberedLess DEF CountInv
  <2> QED
    BY <2>1, <2>2, LossCounted
<1>2. CASE Restart
  <2>1. /\ accepted' = accepted /\ posts' = posts /\ reminders' = reminders /\ Lose
        /\ \A s \in Setters : setter'[s].pc = "idle"
    BY <1>2 DEF Restart, Idle
  <2>2. Numbered'
    BY <2>1 DEF CountInv, Numbered, InTable
  <2> QED
    BY <2>1, <2>2, LossCounted
<1>3. CASE Tick
  <2>1. /\ accepted' = accepted /\ posts' = posts /\ lost' = lost /\ reminders' = reminders
        /\ loop'.posted = loop.posted
    BY <1>0, <1>3 DEF Tick, TypeOK, LoopState, limiter, history
  <2>2. \A s \in Setters : setter'[s].pc = setter[s].pc /\
          (setter[s].pc = "insert" => setter'[s].tag = setter[s].tag)
    <3> SUFFICES ASSUME NEW s \in Setters, setter[s].pc = "insert"
                 PROVE  /\ [setter[s] EXCEPT !.age = @ + 1].pc = setter[s].pc
                        /\ [setter[s] EXCEPT !.age = @ + 1].tag = setter[s].tag
      BY <1>3 DEF Tick
    <3>1. setter[s] \in [pc: {"insert"}, tag: Tags, channel: Channels, at: Dates, age: 0..MaxDelay]
      BY <1>0 DEF TypeOK, SetCall, Idle
    <3> QED
      BY <3>1
  <2>3. Numbered'
    BY <2>1, <2>2 DEF CountInv, Numbered, InTable
  <2>4. \A t \in Tags : Owed(t)' => Owed(t)
    BY <2>1, <2>2 DEF Owed, InTable
  <2> QED
    BY <2>1, <2>3, <2>4, OwedLess
<1> QED
  BY <1>1, <1>2, <1>3

LEMMA CountInit == Init => CountInv
<1> SUFFICES ASSUME Init PROVE CountInv
  OBVIOUS
<1>1. HeldInv
  BY InitTypes DEF Init, HeldInv, Shape, BatchIsCurrent, AtTop
<1>2. Numbered /\ Counted /\ OncePerLoss
  BY DEF Init, Numbered, Counted, OncePerLoss, InTable, Idle, Owed
<1> QED
  BY <1>1, <1>2 DEF CountInv

LEMMA CountStep == CountInv /\ [Next]_vars => CountInv'
<1> SUFFICES ASSUME CountInv, [Next]_vars PROVE CountInv'
  OBVIOUS
<1>1. HeldInv'
  <2>1. TypeOK'
    BY SetTypes, BatchTypes, CycleTypes, OtherTypes, StutterTypes DEF Next, CountInv, HeldInv
  <2>2. Shape' /\ BatchIsCurrent'
    BY SetHeld, CycleHeld, BatchHeld, OtherHeld, HeldKept DEF Next, CountInv, vars
  <2> QED
    BY <2>1, <2>2 DEF HeldInv
<1>2. ASSUME UNCHANGED vars PROVE Numbered' /\ Counted' /\ OncePerLoss'
  BY <1>2 DEF vars, limiter, history, CountInv, Numbered, Counted, OncePerLoss, InTable, Owed
<1>3. Numbered' /\ Counted' /\ OncePerLoss'
  BY <1>2, SetCounted, CycleCounted, BatchCounted, OtherCounted DEF Next, CountInv
<1> QED
  BY <1>1, <1>3 DEF CountInv

\* No reminder is posted more often than once and once for each time its row
\* outlived the post.
THEOREM PostedOncePerLoss == Spec => []OncePerLoss
<1>1. CountInv => OncePerLoss
  BY DEF CountInv
<1> QED
  BY CountInit, CountStep, <1>1, PTL DEF Spec

-----------------------------------------------------------------------------
(* The limiter.                                                            *)

InWindow(c, t) == t <= c.at /\ c.at <= t + RateWindow

\* The history may have been swept and pruned, but it still has every charge
\* that a window which contains the present can contain.
Remembered ==
  \A a \in Actors :
    /\ IsFiniteSet(charges[a]) /\ IsFiniteSet(rateHistory[a])
    /\ \A c \in charges[a] : c.at <= now /\ (c.at >= now - RateWindow => c \in rateHistory[a])

RateInv == TypeOK /\ Remembered /\ RateHolds

\* What Fresh keeps is finite and has every charge that is still in the window.
LEMMA FreshRemembers ==
  ASSUME RateInv, NEW a \in Actors
  PROVE  /\ IsFiniteSet(Swept[a]) /\ IsFiniteSet(Fresh(a))
         /\ \A c \in charges[a] : c.at >= now - RateWindow => c \in Fresh(a) /\ c \in Swept[a]
<1>1. Swept[a] \subseteq rateHistory[a]
  BY DEF Swept, RateInv, TypeOK
<1>2. \A c \in charges[a] : c.at >= now - RateWindow => c \in Swept[a]
  <2> SUFFICES ASSUME NEW c \in charges[a], c.at >= now - RateWindow
               PROVE  c \in Swept[a]
    OBVIOUS
  <2>1. c \in rateHistory[a] /\ c.at \in Nat /\ now \in Nat /\ RateWindow \in Nat
    BY RemindersAssumption DEF RateInv, Remembered, TypeOK, Charge, Times
  <2>2. ~(c.at < now - RateWindow)
    BY <2>1
  <2> QED
    BY <2>1, <2>2 DEF Swept, RateInv, TypeOK
<1>3. IsFiniteSet(rateHistory[a])
  BY DEF RateInv, Remembered
<1>4. IsFiniteSet(Swept[a])
  BY <1>1, <1>3, FS_Subset
<1>5. IsFiniteSet(Fresh(a))
  BY <1>4, FS_Subset DEF Fresh
<1> QED
  BY <1>2, <1>4, <1>5 DEF Fresh

LEMMA SetReminderRated ==
  ASSUME RateInv, NEW s \in Setters, NEW a \in Actors, NEW ch \in Channels, NEW at \in Dates,
         SetReminder(s, a, ch, at)
  PROVE  Remembered' /\ RateHolds'
<1> DEFINE charge == [tag |-> accepted + 1, at |-> now]
<1>1. /\ charges' = [charges EXCEPT ![a] = @ \cup {charge}]
      /\ rateHistory' = [Swept EXCEPT ![a] = Fresh(a) \cup {charge}]
      /\ Cardinality(Fresh(a)) < RateLimit /\ now' = now
  BY DEF SetReminder, store
<1>2. /\ charges \in [Actors -> SUBSET Charge] /\ Swept \in [Actors -> SUBSET Charge]
      /\ now \in Nat /\ RateWindow \in Nat /\ RateLimit \in Nat
  BY LimiterTypes, RemindersAssumption DEF RateInv, TypeOK, Times
<1>3. /\ charges'[a] = charges[a] \cup {charge}
      /\ rateHistory'[a] = Fresh(a) \cup {charge}
      /\ \A b \in Actors : b # a => charges'[b] = charges[b] /\ rateHistory'[b] = Swept[b]
  BY <1>1, <1>2
<1>4. charge.at = now
  OBVIOUS
<1> HIDE DEF charge
<1>5. IsFiniteSet(charges[a]) /\ IsFiniteSet(Fresh(a))
  BY FreshRemembers DEF RateInv, Remembered
<1>6. IsFiniteSet(charges'[a]) /\ IsFiniteSet(rateHistory'[a])
  BY <1>3, <1>5, FS_AddElement
<1>7. Remembered'
  <2> SUFFICES ASSUME NEW b \in Actors
               PROVE  /\ IsFiniteSet(charges'[b]) /\ IsFiniteSet(rateHistory'[b])
                      /\ \A c \in charges'[b] :
                           c.at <= now /\ (c.at >= now - RateWindow => c \in rateHistory'[b])
    BY <1>1 DEF Remembered
  <2>1. CASE b = a
    <3>1. ASSUME NEW c \in charges[a], c.at >= now - RateWindow PROVE c \in Fresh(a)
      BY <3>1, FreshRemembers
    <3>2. \A c \in charges[a] : c.at <= now
      BY DEF RateInv, Remembered
    <3> QED
      <4>1. ASSUME NEW c \in charges'[a]
            PROVE  c.at <= now /\ (c.at >= now - RateWindow => c \in rateHistory'[a])
        <5>1. CASE c = charge
          BY <1>2, <1>3, <1>4, <5>1
        <5>2. CASE c \in charges[a]
          BY <1>3, <3>1, <3>2, <5>2
        <5> QED
          BY <1>3, <5>1, <5>2
      <4> QED
        BY <1>6, <2>1, <4>1
  <2>2. CASE b # a
    BY <1>3, <2>2, FreshRemembers DEF RateInv, Remembered
  <2> QED
    BY <2>1, <2>2
<1>8. ASSUME NEW t \in Times
      PROVE  Cardinality({c \in charges'[a] : InWindow(c, t)}) <= RateLimit
  <2>0. t \in Nat
    BY <1>8 DEF Times
  <2>1. CASE InWindow(charge, t)
    <3>1. {c \in charges'[a] : InWindow(c, t)} \subseteq Fresh(a) \cup {charge}
      <4> SUFFICES ASSUME NEW c \in charges[a], InWindow(c, t)
                   PROVE  c \in Fresh(a)
        BY <1>3
      <4>1. c.at \in Nat
        BY <1>2 DEF Charge, Times
      <4>2. c.at >= now - RateWindow
        BY <1>2, <1>4, <2>0, <2>1, <4>1 DEF InWindow
      <4> QED
        BY <4>2, FreshRemembers
    <3>2. /\ IsFiniteSet(Fresh(a) \cup {charge})
          /\ Cardinality(Fresh(a) \cup {charge}) \in
               {Cardinality(Fresh(a)), Cardinality(Fresh(a)) + 1}
      BY <1>5, FS_AddElement
    <3>3. /\ IsFiniteSet({c \in charges'[a] : InWindow(c, t)})
          /\ Cardinality({c \in charges'[a] : InWindow(c, t)})
               <= Cardinality(Fresh(a) \cup {charge})
      BY <3>1, <3>2, FS_Subset
    <3>4. /\ Cardinality(Fresh(a)) \in Nat
          /\ Cardinality({c \in charges'[a] : InWindow(c, t)}) \in Nat
      BY <1>5, <3>3, FS_CardinalityType
    <3> QED
      BY <1>1, <1>2, <3>2, <3>3, <3>4
  <2>2. CASE ~InWindow(charge, t)
    <3>1. {c \in charges'[a] : InWindow(c, t)}
            = {c \in charges[a] : t <= c.at /\ c.at <= t + RateWindow}
      BY <1>3, <2>2 DEF InWindow
    <3> QED
      BY <3>1 DEF RateInv, RateHolds
  <2> QED
    BY <2>1, <2>2
<1>9. RateHolds'
  BY <1>3, <1>8 DEF RateInv, RateHolds, InWindow
<1> QED
  BY <1>7, <1>9

LEMMA OthersRated ==
  ASSUME RateInv, [Next]_vars,
         ~ \E s \in Setters, a \in Actors, ch \in Channels, at \in Dates :
             SetReminder(s, a, ch, at)
  PROVE  Remembered' /\ RateHolds'
<1>1. ASSUME NEW a \in Actors, Refuse(a) PROVE Remembered' /\ RateHolds'
  <2>1. /\ charges' = charges /\ now' = now
        /\ rateHistory' = [Swept EXCEPT ![a] = Fresh(a)]
    BY <1>1 DEF Refuse, store
  <2>2. Swept \in [Actors -> SUBSET Charge]
    BY LimiterTypes DEF RateInv
  <2>3. /\ rateHistory'[a] = Fresh(a)
        /\ \A b \in Actors : b # a => rateHistory'[b] = Swept[b]
    BY <2>1, <2>2
  <2> QED
    BY <2>1, <2>3, FreshRemembers DEF RateInv, Remembered, RateHolds
<1>2. CASE Restart
  <2>1. IsFiniteSet({}) /\ Cardinality({}) = 0
    BY FS_EmptySet
  <2>2. \A a \in Actors : charges'[a] = {} /\ rateHistory'[a] = {}
    BY <1>2 DEF Restart
  <2>3. Remembered'
    BY <2>1, <2>2 DEF Remembered
  <2>4. ASSUME NEW a \in Actors, NEW t \in Times
        PROVE  Cardinality({c \in charges'[a] : t <= c.at /\ c.at <= t + RateWindow}) <= RateLimit
    <3>1. {c \in charges'[a] : t <= c.at /\ c.at <= t + RateWindow} = {}
      BY <2>2
    <3>2. RateLimit \in Nat /\ 0 <= RateLimit
      BY RemindersAssumption
    <3> QED
      BY <2>1, <3>1, <3>2, Zenon
  <2> QED
    BY <2>3, <2>4 DEF RateHolds
<1>3. CASE Tick
  <2>1. charges' = charges /\ rateHistory' = rateHistory /\ now' = now + 1
    BY <1>3 DEF Tick, limiter
  <2>2. now \in Nat /\ RateWindow \in Nat
    BY RemindersAssumption DEF RateInv, TypeOK, Times
  <2>3. \A a \in Actors : \A c \in charges[a] : c.at \in Nat
    BY DEF RateInv, TypeOK, Charge, Times
  <2> QED
    BY <2>1, <2>2, <2>3 DEF RateInv, Remembered, RateHolds
<1>4. CASE UNCHANGED <<now, rateHistory, charges>>
  BY <1>4 DEF RateInv, Remembered, RateHolds
<1>5. (\E s \in Setters : Insert(s) \/ InsertFails(s)) => UNCHANGED <<now, rateHistory, charges>>
  BY DEF Insert, InsertFails, store, limiter
<1>6. BatchStep => UNCHANGED <<now, rateHistory, charges>>
  BY DEF BatchStep, StartBatch, Delete, DeleteFails, EndBatch, EndDrop, Post, PostNothing,
         Notice, Drop, DropFails, store, limiter
<1>7. CycleStep \/ Stop => UNCHANGED <<now, rateHistory, charges>>
  BY DEF CycleStep, Poll, PollFails, EndCycle, Prune, PruneFails, EndHousekeeping, Stop,
         store, limiter
<1>8. UNCHANGED vars => UNCHANGED <<now, rateHistory, charges>>
  BY DEF vars, store, limiter
<1> QED
  BY <1>1, <1>2, <1>3, <1>4, <1>5, <1>6, <1>7, <1>8 DEF Next, SetStep

LEMMA RateInit == Init => RateInv
<1> SUFFICES ASSUME Init PROVE RateInv
  OBVIOUS
<1>1. IsFiniteSet({}) /\ Cardinality({}) = 0
  BY FS_EmptySet
<1>2. Remembered
  BY <1>1 DEF Init, Remembered
<1>3. ASSUME NEW a \in Actors, NEW t \in Times
      PROVE  Cardinality({c \in charges[a] : t <= c.at /\ c.at <= t + RateWindow}) <= RateLimit
  <2>1. {c \in charges[a] : t <= c.at /\ c.at <= t + RateWindow} = {}
    BY DEF Init
  <2>2. RateLimit \in Nat /\ 0 <= RateLimit
    BY RemindersAssumption
  <2> QED
    BY <1>1, <2>1, <2>2, Zenon
<1> QED
  BY <1>2, <1>3, InitTypes DEF RateInv, RateHolds

LEMMA RateStep == RateInv /\ [Next]_vars => RateInv'
<1>1. RateInv /\ [Next]_vars => TypeOK'
  BY SetTypes, BatchTypes, CycleTypes, OtherTypes, StutterTypes DEF Next, RateInv
<1> QED
  BY <1>1, SetReminderRated, OthersRated DEF RateInv

\* No window of RateWindow holds more than RateLimit accepted calls of one
\* actor, whatever the sweep of the history forgets and whenever it runs.
THEOREM RateAlwaysHolds == Spec => []RateHolds
<1>1. RateInv => RateHolds
  BY DEF RateInv
<1> QED
  BY RateInit, RateStep, <1>1, PTL DEF Spec

-----------------------------------------------------------------------------
(* The cap of a cycle.                                                     *)

\* The rows still to be fired are of one channel and fit under its cap; a
\* channel that is still to come has had nothing since the poll.
BurstRoom ==
  /\ IsFiniteSet(loop.todo) /\ IsFiniteSet(loop.fire)
  /\ \A p, q \in loop.fire : p.channel = q.channel
  /\ \A p \in loop.fire : burst[p.channel] + Cardinality(loop.fire) <= FireCap
  /\ \A p \in loop.todo : burst[p.channel] = 0 /\ \A q \in loop.fire : q.channel # p.channel

BurstInv == HeldInv /\ BurstRoom /\ BurstBounded

LEMMA DueFinite == IsFiniteSet(Due)
<1>1. IsFiniteSet(Ids)
  BY RemindersAssumption, FS_Interval DEF Ids
<1> DEFINE D == {j \in Ids : reminders[j] # NoRow /\ reminders[j].at <= now}
           f == [i \in D |-> Fetched(i)]
<1>2. IsFiniteSet(D)
  BY <1>1, FS_Subset
<1>3. f \in Surjection(D, Due)
  BY DEF Surjection, Due
<1> QED
  BY <1>2, <1>3, FS_Surjection

\* A step that posts nothing and fetches nothing keeps the room there is.
LEMMA RoomStays ==
  ASSUME BurstInv, burst' = burst, loop'.todo \subseteq loop.todo,
         loop'.fire \subseteq loop.fire
  PROVE  BurstRoom' /\ BurstBounded'
<1>1. IsFiniteSet(loop'.todo) /\ IsFiniteSet(loop'.fire)
  BY FS_Subset DEF BurstInv, BurstRoom
<1>2. /\ Cardinality(loop'.fire) <= Cardinality(loop.fire)
      /\ Cardinality(loop'.fire) \in Nat /\ Cardinality(loop.fire) \in Nat
  BY FS_Subset, FS_CardinalityType DEF BurstInv, BurstRoom
<1>3. \A p \in loop.fire : burst[p.channel] \in Nat
  BY DEF BurstInv, HeldInv, TypeOK, LoopState, Parcel
<1>4. FireCap \in Nat
  BY RemindersAssumption
<1>5. \A p \in loop'.fire : burst[p.channel] + Cardinality(loop'.fire) <= FireCap
  BY <1>2, <1>3, <1>4 DEF BurstInv, BurstRoom
<1> QED
  BY <1>1, <1>5 DEF BurstInv, BurstRoom, BurstBounded

LEMMA BatchBurst ==
  ASSUME BurstInv, BatchStep
  PROVE  BurstRoom' /\ BurstBounded'
<1>0. /\ loop \in LoopState /\ burst \in [Channels -> Nat] /\ FireCap \in Nat
      /\ HeldInv /\ BurstRoom /\ BurstBounded
  BY RemindersAssumption DEF BurstInv, HeldInv, TypeOK
<1>1. CASE StartBatch
  <2>1. PICK p \in loop.todo :
          \E first \in SUBSET {q \in loop.todo : q.channel = p.channel} :
            /\ Split({q \in loop.todo : q.channel = p.channel}, first)
            /\ loop' = [loop EXCEPT !.pc = "fire",
                       !.todo = @ \ {q \in loop.todo : q.channel = p.channel},
                       !.fire = first,
                       !.excess = Excess({q \in loop.todo : q.channel = p.channel}, first)]
    BY <1>1 DEF StartBatch
  <2> DEFINE rows == {q \in loop.todo : q.channel = p.channel}
  <2>2. PICK first \in SUBSET rows :
          /\ Split(rows, first)
          /\ loop' = [loop EXCEPT !.pc = "fire", !.todo = @ \ rows, !.fire = first,
                                  !.excess = rows \ first]
    BY <2>1 DEF Excess
  <2>3. /\ loop'.todo = loop.todo \ rows /\ loop'.fire = first /\ burst' = burst
    BY <1>0, <1>1, <2>2 DEF LoopState, StartBatch, history
  <2>4. IsFiniteSet(rows) /\ IsFiniteSet(first) /\ IsFiniteSet(loop.todo \ rows)
    BY <1>0, FS_Subset DEF BurstRoom
  <2>5. Cardinality(rows) \in Nat /\ Cardinality(first) \in Nat
    BY <2>4, FS_CardinalityType
  <2>6. Cardinality(first) <= FireCap
    BY <1>0, <2>2, <2>5 DEF Split
  <2>7. \A q \in first : q.channel = p.channel /\ burst[q.channel] = 0
    BY <1>0 DEF BurstRoom
  <2> QED
    BY <1>0, <2>3, <2>4, <2>5, <2>6, <2>7 DEF BurstRoom, BurstBounded
<1>2. ASSUME NEW p \in loop.fire, Post(p) PROVE BurstRoom' /\ BurstBounded'
  <2>1. /\ loop'.todo = loop.todo /\ loop'.fire = loop.fire \ {p}
        /\ burst' = [burst EXCEPT ![p.channel] = @ + 1] /\ p.channel \in Channels
    BY <1>0, <1>2 DEF Post, LoopState, Parcel
  <2>2. /\ IsFiniteSet(loop.fire \ {p})
        /\ Cardinality(loop.fire \ {p}) = Cardinality(loop.fire) - 1
        /\ Cardinality(loop.fire) \in Nat /\ Cardinality(loop.fire \ {p}) \in Nat
    BY <1>0, FS_RemoveElement, FS_CardinalityType DEF BurstRoom
  <2>3. burst'[p.channel] + Cardinality(loop'.fire) <= FireCap
    BY <1>0, <2>1, <2>2 DEF BurstRoom
  <2>4. \A ch \in Channels : burst'[ch] <= FireCap
    BY <1>0, <2>1, <2>2, <2>3 DEF BurstBounded
  <2>5. \A q \in loop'.fire : q.channel = p.channel
    BY <1>0, <2>1 DEF BurstRoom
  <2>6. \A q \in loop.todo : q.channel # p.channel /\ q.channel \in Channels
    BY <1>0 DEF BurstRoom, LoopState, Parcel
  <2>7. \A q \in loop.todo : burst'[q.channel] = 0
    BY <1>0, <2>1, <2>6 DEF BurstRoom
  <2> QED
    BY <1>0, <2>1, <2>2, <2>3, <2>4, <2>5, <2>6, <2>7 DEF BurstRoom, BurstBounded
<1>3. CASE ~StartBatch /\ ~(\E p \in loop.fire : Post(p))
  <2>1. burst' = burst /\ loop'.todo = loop.todo /\ loop'.fire \subseteq loop.fire
    BY <1>0, <1>3 DEF BatchStep, Delete, DeleteFails, EndBatch, EndDrop, PostNothing, Notice,
                      Drop, DropFails, LoopState, history
  <2> QED
    BY <2>1, RoomStays
<1> QED
  BY <1>1, <1>2, <1>3

LEMMA OtherBurst ==
  ASSUME BurstInv, SetStep \/ CycleStep \/ Stop \/ Restart \/ Tick \/ UNCHANGED vars
  PROVE  BurstRoom' /\ BurstBounded'
<1>0. loop \in LoopState /\ HeldInv
  BY DEF BurstInv, HeldInv, TypeOK
<1>1. CASE Poll \/ PollFails
  <2>1. loop.fire = {} /\ loop'.fire = {} /\ loop'.todo \in {Due, loop.todo}
    BY <1>0, <1>1 DEF Poll, PollFails, LoopState, HeldInv, Shape
  <2>2. IsFiniteSet({}) /\ IsFiniteSet(loop'.todo)
    BY <2>1, DueFinite, FS_EmptySet DEF BurstInv, BurstRoom
  <2>3. \A p \in loop'.todo : p.channel \in Channels
    BY <1>0, <2>1, DueTypes DEF LoopState, Parcel, HeldInv
  <2>4. \A ch \in Channels : burst'[ch] = 0
    BY <1>1 DEF Poll, PollFails
  <2>5. 0 <= FireCap
    BY RemindersAssumption
  <2> QED
    BY <2>1, <2>2, <2>3, <2>4, <2>5 DEF BurstRoom, BurstBounded
<1>2. CASE Stop \/ Restart
  <2>1. burst' = burst /\ loop'.todo = {} /\ loop'.fire = {}
    BY <1>2 DEF Stop, Restart, AtTop
  <2> QED
    BY <2>1, RoomStays
<1>3. CASE ~Poll /\ ~PollFails /\ ~Stop /\ ~Restart
  <2>1. burst' = burst /\ loop'.todo = loop.todo /\ loop'.fire = loop.fire
    BY <1>0, <1>3 DEF SetStep, SetReminder, Refuse, Insert, InsertFails, CycleStep, EndCycle,
                      Prune, PruneFails, EndHousekeeping, Tick, LoopState, history, vars
  <2> QED
    BY <2>1, RoomStays
<1> QED
  BY <1>1, <1>2, <1>3

\* Every state keeps the types, and what the loop has fetched is current.
LEMMA HeldStep == HeldInv /\ [Next]_vars => HeldInv'
<1> SUFFICES ASSUME HeldInv, [Next]_vars PROVE HeldInv'
  OBVIOUS
<1>1. TypeOK'
  BY SetTypes, BatchTypes, CycleTypes, OtherTypes, StutterTypes DEF Next, HeldInv
<1>2. Shape' /\ BatchIsCurrent'
  BY SetHeld, CycleHeld, BatchHeld, OtherHeld, HeldKept DEF Next, vars
<1> QED
  BY <1>1, <1>2 DEF HeldInv

LEMMA HeldInit == Init => HeldInv
  BY InitTypes DEF Init, HeldInv, Shape, BatchIsCurrent, AtTop

LEMMA BurstInit == Init => BurstInv
<1> SUFFICES ASSUME Init PROVE BurstInv
  OBVIOUS
<1>1. IsFiniteSet({}) /\ 0 <= FireCap
  BY FS_EmptySet, RemindersAssumption
<1> QED
  BY <1>1, HeldInit DEF Init, BurstInv, BurstRoom, BurstBounded, AtTop

LEMMA BurstStep == BurstInv /\ [Next]_vars => BurstInv'
  BY HeldStep, BatchBurst, OtherBurst DEF Next, BurstInv

\* Whatever is due and whatever is retried, a channel gets at most FireCap
\* reminders between two polls.
THEOREM BurstsStayBounded == Spec => []BurstBounded
<1>1. BurstInv => BurstBounded
  BY DEF BurstInv
<1> QED
  BY BurstInit, BurstStep, <1>1, PTL DEF Spec

-----------------------------------------------------------------------------
(* Why a row leaves.                                                       *)

InCycle == loop.pc \notin {"poll", "stopped"}

Waiting == loop.todo \cup loop.fire \cup loop.excess

\* A row of this time or later may not have been there, or due, at the last poll.
Since == now - loop.age - MaxDelay - PastSlack

\* During a cycle whose poll went well, every row waits for its turn, has had
\* it, or is too young for the sweep.
Accounted ==
  InCycle /\ ~loop.blind =>
    \A i \in Ids : reminders[i] # NoRow =>
      \/ reminders[i].tag \in tried
      \/ \E p \in Waiting : p.id = i
      \/ reminders[i].at >= Since

\* A call that is about to insert brings a young row.
Young ==
  \A s \in Setters :
    setter[s].pc = "insert" => setter[s].at >= now - setter[s].age - PastSlack

\* What the loop is about to delete was posted.
OnRecord == \A p \in loop.posted : posts[p.tag] > 0 /\ p.tag \in tried

CauseInv == HeldInv /\ Accounted /\ Young /\ OnRecord

\* The times are integers.
LEMMA CauseTypes ==
  ASSUME CauseInv
  PROVE  /\ now \in Nat /\ loop \in LoopState /\ loop.age \in 0..MaxDelay
         /\ MaxDelay \in Nat /\ PastSlack \in Nat /\ Retention \in Nat
         /\ Retention >= 2 * MaxDelay + PastSlack
         /\ \A i \in Ids : reminders[i] # NoRow => reminders[i].at \in Int
         /\ \A s \in Setters : setter[s].pc = "insert" =>
              setter[s].at \in Int /\ setter[s].age \in 0..MaxDelay
<1>1. \A d \in Dates : d \in Int
  BY RemindersAssumption DEF Dates
<1> QED
  BY <1>1, RemindersAssumption, RetentionAssumption
     DEF CauseInv, HeldInv, TypeOK, Times, LoopState, Row, SetCall, Idle

\* A step of the loop through a batch: rows may go, and a row that no longer
\* waits has been tried.
LEMMA BatchAccounted ==
  ASSUME CauseInv, now' = now, loop'.age = loop.age, loop'.blind = loop.blind,
         InCycle' => InCycle, tried \subseteq tried',
         \A i \in Ids : reminders'[i] = reminders[i] \/ reminders'[i] = NoRow,
         \A p \in Waiting : p \in Waiting' \/ p.tag \in tried'
  PROVE  Accounted'
<1> SUFFICES ASSUME InCycle', ~loop'.blind, NEW i \in Ids, reminders'[i] # NoRow
             PROVE  \/ reminders'[i].tag \in tried'
                    \/ \E p \in Waiting' : p.id = i
                    \/ reminders'[i].at >= Since'
  BY DEF Accounted
<1>1. reminders'[i] = reminders[i] /\ reminders[i] # NoRow
  OBVIOUS
<1>2. CASE reminders[i].tag \in tried
  BY <1>1, <1>2
<1>3. CASE reminders[i].at >= Since
  BY <1>1, <1>3 DEF Since
<1>4. ASSUME NEW p \in Waiting, p.id = i PROVE p.tag = reminders[i].tag
  <2>1. reminders[i] = [tag |-> p.tag, channel |-> p.channel, at |-> p.at]
    BY <1>4 DEF Waiting, CauseInv, HeldInv, BatchIsCurrent
  <2> QED
    BY <2>1
<1> QED
  BY <1>1, <1>2, <1>3, <1>4 DEF CauseInv, Accounted

LEMMA BatchCause ==
  ASSUME CauseInv, BatchStep
  PROVE  Accounted' /\ Young' /\ OnRecord'
<1>0. /\ loop \in LoopState /\ posts \in [Tags -> Nat]
      /\ reminders \in [Ids -> Row \cup {NoRow}] /\ Shape
  BY DEF CauseInv, HeldInv, TypeOK
<1>1. Young'
  <2>1. now' = now /\ setter' = setter
    BY DEF BatchStep, StartBatch, Delete, DeleteFails, EndBatch, EndDrop, Post, PostNothing,
           Notice, Drop, DropFails, store
  <2> QED
    BY <2>1 DEF CauseInv, Young
<1>2. /\ now' = now /\ loop'.age = loop.age /\ loop'.blind = loop.blind
      /\ tried \subseteq tried' /\ InCycle
  BY <1>0 DEF BatchStep, StartBatch, Delete, DeleteFails, EndBatch, EndDrop, Post, PostNothing,
              Notice, Drop, DropFails, store, history, LoopState, InCycle
<1>3. CASE StartBatch
  <2>1. PICK p \in loop.todo :
          \E first \in SUBSET {q \in loop.todo : q.channel = p.channel} :
            loop' = [loop EXCEPT !.pc = "fire",
                       !.todo = @ \ {q \in loop.todo : q.channel = p.channel},
                       !.fire = first,
                       !.excess = Excess({q \in loop.todo : q.channel = p.channel}, first)]
    BY <1>3 DEF StartBatch
  <2> DEFINE rows == {q \in loop.todo : q.channel = p.channel}
  <2>2. PICK first \in SUBSET rows :
          loop' = [loop EXCEPT !.pc = "fire", !.todo = @ \ rows, !.fire = first,
                               !.excess = rows \ first]
    BY <2>1 DEF Excess
  <2>3. /\ loop'.todo = loop.todo \ rows /\ loop'.fire = first /\ loop'.excess = rows \ first
        /\ loop'.posted = {} /\ loop.fire = {} /\ loop.excess = {} /\ reminders' = reminders
    BY <1>0, <1>3, <2>2 DEF LoopState, StartBatch, Shape
  <2>4. Waiting \subseteq Waiting'
    BY <2>3 DEF Waiting
  <2>5. Accounted'
    BY <1>2, <2>3, <2>4, BatchAccounted
  <2> QED
    BY <1>1, <2>3, <2>5 DEF OnRecord
<1>4. CASE Delete \/ DeleteFails
  <2>1. loop'.todo = loop.todo /\ loop'.fire = loop.fire /\ loop'.excess = loop.excess
        /\ loop'.posted = {}
    BY <1>0, <1>4 DEF Delete, DeleteFails, LoopState
  <2>2. \A i \in Ids : reminders'[i] = reminders[i] \/ reminders'[i] = NoRow
    BY <1>0, <1>4 DEF Delete, DeleteFails
  <2>3. Waiting' = Waiting
    BY <2>1 DEF Waiting
  <2> QED
    BY <1>1, <1>2, <2>1, <2>2, <2>3, BatchAccounted DEF OnRecord
<1>5. CASE EndBatch \/ EndDrop \/ \E sent \in BOOLEAN : Notice(sent)
  <2>1. /\ loop'.todo = loop.todo /\ loop'.fire = loop.fire /\ loop'.excess = loop.excess
        /\ loop'.posted = {} /\ reminders' = reminders
    BY <1>0, <1>5 DEF EndBatch, EndDrop, Notice, LoopState, Shape
  <2>2. Waiting' = Waiting
    BY <2>1 DEF Waiting
  <2> QED
    BY <1>1, <1>2, <2>1, <2>2, BatchAccounted DEF OnRecord
<1>6. ASSUME NEW p \in loop.fire, Post(p) \/ PostNothing(p) PROVE Accounted' /\ OnRecord'
  <2>1. /\ loop'.todo = loop.todo /\ loop'.fire = loop.fire \ {p} /\ loop'.excess = loop.excess
        /\ reminders' = reminders /\ p.tag \in tried' /\ p.tag \in Tags
    BY <1>0, <1>6 DEF Post, PostNothing, LoopState, Parcel
  <2>2. Accounted'
    BY <1>2, <2>1, BatchAccounted DEF Waiting
  <2>3. CASE Post(p)
    <3>1. loop'.posted = {p} /\ posts' = [posts EXCEPT ![p.tag] = @ + 1]
      BY <1>0, <2>3 DEF Post, LoopState
    <3>2. posts'[p.tag] > 0
      BY <1>0, <2>1, <3>1
    <3> QED
      BY <2>1, <2>2, <3>1, <3>2 DEF OnRecord
  <2>4. CASE PostNothing(p)
    <3>1. loop'.posted = {}
      BY <1>0, <2>4 DEF PostNothing, LoopState, Shape
    <3> QED
      BY <2>2, <3>1 DEF OnRecord
  <2> QED
    BY <1>6, <2>3, <2>4
<1>7. ASSUME NEW p \in loop.excess, Drop(p) \/ DropFails(p) PROVE Accounted' /\ OnRecord'
  <2>1. /\ loop'.todo = loop.todo /\ loop'.fire = loop.fire /\ loop'.excess = loop.excess \ {p}
        /\ loop'.posted = {} /\ p.tag \in tried'
    BY <1>0, <1>7 DEF Drop, DropFails, LoopState, Shape
  <2>2. \A i \in Ids : reminders'[i] = reminders[i] \/ reminders'[i] = NoRow
    BY <1>0, <1>7 DEF Drop, DropFails
  <2>3. \A q \in Waiting : q \in Waiting' \/ q = p
    BY <2>1 DEF Waiting
  <2> QED
    BY <1>2, <2>1, <2>2, <2>3, BatchAccounted DEF OnRecord
<1> QED
  BY <1>1, <1>3, <1>4, <1>5, <1>6, <1>7 DEF BatchStep

LEMMA SetCause ==
  ASSUME CauseInv, SetStep \/ UNCHANGED vars
  PROVE  Accounted' /\ Young' /\ OnRecord'
<1>0. now' = now /\ loop' = loop /\ posts' = posts /\ tried' = tried
  BY DEF SetStep, SetReminder, Refuse, Insert, InsertFails, store, history, vars
<1>1. OnRecord'
  BY <1>0 DEF CauseInv, OnRecord
<1>2. ASSUME reminders' = reminders PROVE Accounted'
  BY <1>0, <1>2 DEF CauseInv, Accounted, InCycle, Waiting, Since
<1>3. setter \in [Setters -> SetCall]
  BY DEF CauseInv, HeldInv, TypeOK
<1>4. ASSUME NEW s \in Setters, Insert(s) PROVE Accounted' /\ Young'
  <2>1. PICK i \in Ids :
          reminders' = [reminders EXCEPT ![i] =
            [tag |-> setter[s].tag, channel |-> setter[s].channel, at |-> setter[s].at]]
    BY <1>4 DEF Insert
  <2>2. reminders'[i].at = setter[s].at /\ \A j \in Ids : j # i => reminders'[j] = reminders[j]
    BY <2>1 DEF CauseInv, HeldInv, TypeOK
  <2>3. reminders'[i].at >= Since'
    BY <1>0, <1>4, <2>2, CauseTypes DEF Insert, CauseInv, Young, Since
  <2>4. Accounted'
    BY <1>0, <2>2, <2>3 DEF CauseInv, Accounted, InCycle, Waiting, Since
  <2>5. Young'
    BY <1>0, <1>3, <1>4 DEF Insert, CauseInv, Young, Idle
  <2> QED
    BY <2>4, <2>5
<1>5. ASSUME NEW s \in Setters, InsertFails(s) PROVE Accounted' /\ Young'
  BY <1>0, <1>2, <1>3, <1>5 DEF InsertFails, CauseInv, Young, Idle
<1>6. ASSUME NEW s \in Setters, NEW a \in Actors, NEW ch \in Channels, NEW at \in Dates,
             SetReminder(s, a, ch, at)
      PROVE  Accounted' /\ Young'
  <2>1. setter' = [setter EXCEPT ![s] = [pc |-> "insert", tag |-> accepted + 1,
                                         channel |-> ch, at |-> at, age |-> 0]]
    BY <1>6 DEF SetReminder
  <2>2. setter'[s].at = at /\ setter'[s].age = 0
        /\ \A u \in Setters : u # s => setter'[u] = setter[u]
    BY <1>3, <2>1
  <2>3. at >= now - 0 - PastSlack
    <3>1. at \in (now - PastSlack)..(now + Horizon)
      BY <1>6 DEF SetReminder, Acceptable
    <3> QED
      BY <3>1, CauseTypes, RemindersAssumption
  <2>4. Young'
    BY <1>0, <2>2, <2>3 DEF CauseInv, Young
  <2> QED
    BY <1>2, <1>6, <2>4 DEF SetReminder
<1>7. ASSUME NEW a \in Actors, Refuse(a) PROVE Accounted' /\ Young'
  BY <1>0, <1>2, <1>7 DEF Refuse, CauseInv, Young
<1>8. ASSUME UNCHANGED vars PROVE Accounted' /\ Young'
  BY <1>0, <1>2, <1>8 DEF vars, CauseInv, Young
<1> QED
  BY <1>1, <1>4, <1>5, <1>6, <1>7, <1>8 DEF SetStep

LEMMA CycleCause ==
  ASSUME CauseInv, CycleStep
  PROVE  Accounted' /\ Young' /\ OnRecord'
<1>0. /\ loop \in LoopState /\ reminders \in [Ids -> Row \cup {NoRow}] /\ Shape
  BY DEF CauseInv, HeldInv, TypeOK
<1>1. now' = now /\ setter' = setter
  BY DEF CycleStep, Poll, PollFails, EndCycle, Prune, PruneFails, EndHousekeeping, store
<1>2. Young'
  BY <1>1 DEF CauseInv, Young
<1>3. OnRecord'
  <2>1. loop'.posted = {}
    BY <1>0 DEF CycleStep, Poll, PollFails, EndCycle, Prune, PruneFails, EndHousekeeping,
                LoopState, Shape
  <2> QED
    BY <2>1 DEF OnRecord
<1>4. CASE Poll
  <2>1. loop'.todo = Due /\ loop'.age = 0 /\ reminders' = reminders
    BY <1>0, <1>4 DEF Poll, LoopState
  <2>2. ASSUME NEW i \in Ids, reminders[i] # NoRow
        PROVE  (\E p \in loop'.todo : p.id = i) \/ reminders'[i].at >= Since'
    <3>1. CASE reminders[i].at <= now
      <4>1. Fetched(i) \in Due /\ Fetched(i).id = i
        BY <2>2, <3>1 DEF Due, Fetched
      <4> QED
        BY <2>1, <4>1
    <3>2. CASE ~(reminders[i].at <= now)
      BY <1>1, <2>1, <2>2, <3>2, CauseTypes DEF Since
    <3> QED
      BY <3>1, <3>2
  <2>3. Accounted'
    BY <2>1, <2>2 DEF Accounted, Waiting
  <2> QED
    BY <1>2, <1>3, <2>3
<1>5. CASE PollFails
  <2>1. loop'.blind = TRUE
    BY <1>0, <1>5 DEF PollFails, LoopState
  <2> QED
    BY <1>2, <1>3, <2>1 DEF Accounted
<1>6. CASE EndCycle \/ Prune \/ PruneFails \/ EndHousekeeping
  <2>1. /\ loop'.age = loop.age /\ loop'.blind = loop.blind /\ InCycle /\ tried' = tried
        /\ loop'.todo = loop.todo /\ loop'.fire = loop.fire /\ loop'.excess = loop.excess
    BY <1>0, <1>6 DEF EndCycle, Prune, PruneFails, EndHousekeeping, LoopState, InCycle, history
  <2>2. \A i \in Ids : reminders'[i] = reminders[i] \/ reminders'[i] = NoRow
    BY <1>0, <1>6 DEF EndCycle, Prune, PruneFails, EndHousekeeping
  <2>3. Waiting' = Waiting
    BY <2>1 DEF Waiting
  <2>4. Accounted'
    BY <1>1, <2>1, <2>2, <2>3, BatchAccounted
  <2> QED
    BY <1>2, <1>3, <2>4
<1> QED
  BY <1>4, <1>5, <1>6 DEF CycleStep

LEMMA OtherCause ==
  ASSUME CauseInv, Stop \/ Restart \/ Tick
  PROVE  Accounted' /\ Young' /\ OnRecord'
<1>1. CASE Stop
  <2>1. loop'.pc = "stopped" /\ loop'.posted = {} /\ now' = now /\ setter' = setter
    BY <1>1 DEF Stop, AtTop, store
  <2> QED
    BY <2>1 DEF CauseInv, Accounted, InCycle, Young, OnRecord
<1>2. CASE Restart
  <2>1. loop'.pc = "poll" /\ loop'.posted = {} /\ \A s \in Setters : setter'[s].pc = "idle"
    BY <1>2 DEF Restart, AtTop, Idle
  <2> QED
    BY <2>1 DEF Accounted, InCycle, Young, OnRecord
<1>3. CASE Tick
  <2>1. now' = now + 1 /\ reminders' = reminders /\ posts' = posts /\ tried' = tried
    BY <1>3 DEF Tick, history
  <2>2. /\ loop'.pc = loop.pc /\ loop'.blind = loop.blind /\ loop'.todo = loop.todo
        /\ loop'.fire = loop.fire /\ loop'.excess = loop.excess /\ loop'.posted = loop.posted
        /\ InCycle => loop'.age = loop.age + 1
    BY <1>3, CauseTypes DEF Tick, LoopState, InCycle
  <2>3. Accounted'
    <3> SUFFICES ASSUME InCycle', ~loop'.blind, NEW i \in Ids, reminders'[i] # NoRow
                 PROVE  \/ reminders'[i].tag \in tried'
                        \/ \E p \in Waiting' : p.id = i
                        \/ reminders'[i].at >= Since'
      BY DEF Accounted
    <3>1. InCycle /\ ~loop.blind /\ Waiting' = Waiting
      BY <2>2 DEF InCycle, Waiting
    <3>2. reminders[i].at \in Int
      BY <2>1, CauseTypes
    <3>3. reminders[i].at >= Since => reminders'[i].at >= Since'
      BY <2>1, <2>2, <3>1, <3>2, CauseTypes DEF Since
    <3> QED
      BY <2>1, <3>1, <3>3 DEF CauseInv, Accounted
  <2>4. Young'
    <3> SUFFICES ASSUME NEW s \in Setters, setter'[s].pc = "insert"
                 PROVE  setter'[s].at >= now' - setter'[s].age - PastSlack
      BY DEF Young
    <3>0. setter[s] \in SetCall
      BY DEF CauseInv, HeldInv, TypeOK
    <3>1. setter[s].pc = "insert"
      BY <1>3, <3>0 DEF Tick, SetCall, Idle
    <3>2. setter[s] \in [pc: {"insert"}, tag: Tags, channel: Channels, at: Dates, age: 0..MaxDelay]
      BY <3>0, <3>1 DEF SetCall, Idle
    <3>3. setter'[s] = [setter[s] EXCEPT !.age = @ + 1]
      BY <1>3, <3>1 DEF Tick
    <3>4. setter'[s].at = setter[s].at /\ setter'[s].age = setter[s].age + 1
      BY <3>2, <3>3
    <3> QED
      BY <2>1, <3>1, <3>4, CauseTypes DEF CauseInv, Young
  <2>5. OnRecord'
    BY <2>1, <2>2 DEF CauseInv, OnRecord
  <2> QED
    BY <2>3, <2>4, <2>5
<1> QED
  BY <1>1, <1>2, <1>3

\* What RowLeavesForCause says of one step.
LeavesForCause ==
  \A i \in Ids : reminders[i] # NoRow /\ reminders'[i] # reminders[i] =>
    LET t == reminders[i].tag IN
    \/ posts[t] > 0
    \/ t \in dropped'
    \/ TooOld(reminders[i]) /\ (t \in tried \/ loop.blind)

\* Four steps delete: an insert takes a free slot, the DELETE after a post, the
\* drop of the excess, and the sweep, which meets no row still to be tried.
LEMMA StepLeaves ==
  ASSUME CauseInv, [Next]_vars
  PROVE  LeavesForCause
<1>0. /\ reminders \in [Ids -> Row \cup {NoRow}] /\ loop \in LoopState /\ Shape
  BY DEF CauseInv, HeldInv, TypeOK
<1> SUFFICES ASSUME NEW i \in Ids, reminders[i] # NoRow, reminders'[i] # reminders[i]
             PROVE  \/ posts[reminders[i].tag] > 0
                    \/ reminders[i].tag \in dropped'
                    \/ /\ TooOld(reminders[i])
                       /\ reminders[i].tag \in tried \/ loop.blind
  BY DEF LeavesForCause
<1>1. ASSUME NEW p \in loop.posted \cup loop.excess, p.id = i PROVE reminders[i].tag = p.tag
  <2>1. reminders[i] = [tag |-> p.tag, channel |-> p.channel, at |-> p.at]
    BY <1>1 DEF CauseInv, HeldInv, BatchIsCurrent
  <2> QED
    BY <2>1
<1>2. ASSUME NEW s \in Setters, Insert(s) PROVE FALSE
  BY <1>0, <1>2, NextIdIsFree DEF Insert
<1>3. CASE Delete
  <2>1. PICK p \in loop.posted : reminders' = [reminders EXCEPT ![p.id] = NoRow]
    BY <1>3 DEF Delete
  <2>2. p.id = i
    BY <1>0, <2>1
  <2> QED
    BY <1>1, <2>2 DEF CauseInv, OnRecord
<1>4. ASSUME NEW p \in loop.excess, Drop(p) PROVE reminders[i].tag \in dropped'
  <2>1. p.id = i
    BY <1>0, <1>4 DEF Drop
  <2>2. p.tag \in dropped'
    BY <1>4 DEF Drop
  <2> QED
    BY <1>1, <2>1, <2>2
<1>5. CASE Prune
  <2>1. TooOld(reminders[i])
    BY <1>0, <1>5 DEF Prune
  <2>2. InCycle /\ Waiting = {}
    BY <1>0, <1>5 DEF Prune, InCycle, Waiting, Shape
  <2>3. ~(reminders[i].at >= Since)
    BY <2>1, CauseTypes DEF TooOld, Since
  <2> QED
    BY <2>1, <2>2, <2>3 DEF CauseInv, Accounted
<1>6. CASE reminders' = reminders
  BY <1>6
<1>7. \/ \E s \in Setters : Insert(s)
      \/ Delete \/ Prune \/ \E p \in loop.excess : Drop(p)
      \/ reminders' = reminders
  BY DEF Next, vars, SetStep, SetReminder, Refuse, InsertFails, BatchStep, StartBatch,
         DeleteFails, EndBatch, EndDrop, Post, PostNothing, Notice, DropFails, CycleStep, Poll,
         PollFails, EndCycle, PruneFails, EndHousekeeping, Stop, Restart, Tick
<1> QED
  BY <1>2, <1>3, <1>4, <1>5, <1>6, <1>7

\* A row leaves the table posted, dropped, or past retention after an attempt;
\* the sweep never takes a row that this cycle's poll should have fetched.
THEOREM RowsLeaveForCause == Spec => RowLeavesForCause
<1>1. Init => CauseInv
  <2> SUFFICES ASSUME Init PROVE CauseInv
    OBVIOUS
  <2>1. Accounted /\ Young /\ OnRecord
    BY DEF Init, Accounted, Young, OnRecord, InCycle, AtTop, Idle
  <2> QED
    BY <2>1, HeldInit DEF CauseInv
<1>2. CauseInv /\ [Next]_vars => CauseInv'
  BY HeldStep, SetCause, BatchCause, CycleCause, OtherCause DEF Next, CauseInv
<1>3. CauseInv /\ [Next]_vars => [LeavesForCause]_vars
  BY StepLeaves
<1> QED
  BY <1>1, <1>2, <1>3, PTL DEF Spec, RowLeavesForCause, LeavesForCause
=============================================================================
