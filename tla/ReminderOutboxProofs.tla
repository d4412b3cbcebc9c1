------------------------- MODULE ReminderOutboxProofs -------------------------
(***************************************************************************)
(* The reminders implement the outbox, for every number of concurrent      *)
(* calls, every set of channels and actors and every value of the limits.  *)
(***************************************************************************)
EXTENDS RemindersProofs

-----------------------------------------------------------------------------
(* The limiter forgets nothing that counts.                                *)

\* Nothing is in the rate history that was not charged.
Known == \A a \in Actors : rateHistory[a] \subseteq charges[a]

\* The charges that count against an actor now.
Charged(a) == {c \in charges[a] : c.at >= now - RateWindow}

\* What the limiter counts, after the sweep and the pruning.
LimiterIsExact == \A a \in Actors : Fresh(a) = Charged(a)

LEMMA KnownInit == Init => Known
  BY DEF Init, Known

LEMMA KnownStep == TypeOK /\ Known /\ [Next]_vars => Known'
<1> SUFFICES ASSUME TypeOK, Known, [Next]_vars PROVE Known'
  OBVIOUS
<1>0. /\ charges \in [Actors -> SUBSET Charge]
      /\ \A a \in Actors : Swept[a] \subseteq charges[a] /\ Fresh(a) \subseteq charges[a]
  BY LimiterTypes DEF TypeOK, Known, Swept, Fresh
<1>1. ASSUME NEW s \in Setters, NEW a \in Actors, NEW ch \in Channels, NEW at \in Dates,
             SetReminder(s, a, ch, at)
      PROVE  Known'
  <2> DEFINE charge == [tag |-> accepted + 1, at |-> now]
  <2>1. /\ rateHistory' = [Swept EXCEPT ![a] = Fresh(a) \cup {charge}]
        /\ charges' = [charges EXCEPT ![a] = @ \cup {charge}]
    BY <1>1 DEF SetReminder
  <2> HIDE DEF charge
  <2> QED
    BY <1>0, <2>1, LimiterTypes DEF Known
<1>2. ASSUME NEW a \in Actors, Refuse(a) PROVE Known'
  <2>1. rateHistory' = [Swept EXCEPT ![a] = Fresh(a)] /\ charges' = charges
    BY <1>2 DEF Refuse
  <2> QED
    BY <1>0, <2>1, LimiterTypes DEF Known
<1>3. CASE Restart
  BY <1>3 DEF Restart, Known
<1>4. CASE \/ \E s \in Setters : Insert(s) \/ InsertFails(s)
           \/ BatchStep \/ CycleStep \/ Stop \/ Tick \/ UNCHANGED vars
  <2>1. rateHistory' = rateHistory /\ charges' = charges
    BY <1>4 DEF Insert, InsertFails, BatchStep, StartBatch, Delete, DeleteFails, EndBatch,
                EndDrop, Post, PostNothing, Notice, Drop, DropFails, CycleStep, Poll, PollFails,
                EndCycle, Prune, PruneFails, EndHousekeeping, Stop, Tick, vars, limiter
  <2> QED
    BY <2>1 DEF Known
<1> QED
  BY <1>1, <1>2, <1>3, <1>4 DEF Next, SetStep

LEMMA WindowIsExact ==
  ASSUME RateInv, Known
  PROVE  LimiterIsExact
<1> SUFFICES ASSUME NEW a \in Actors PROVE Fresh(a) = Charged(a)
  BY DEF LimiterIsExact
<1>1. Swept[a] \subseteq charges[a]
  BY LimiterTypes DEF RateInv, TypeOK, Known, Swept
<1>2. Fresh(a) \subseteq Charged(a)
  BY <1>1 DEF Fresh, Charged
<1>3. Charged(a) \subseteq Fresh(a)
  BY FreshRemembers DEF Charged
<1> QED
  BY <1>2, <1>3

\* The history is swept now and then and pruned call by call, and still a call
\* is let through or refused exactly as if nothing were ever forgotten.
THEOREM LimiterAlwaysExact == Spec => []LimiterIsExact
<1>1. RateInv => TypeOK
  BY DEF RateInv
<1> QED
  BY RateInit, RateStep, KnownInit, KnownStep, WindowIsExact, <1>1, PTL DEF Spec

-----------------------------------------------------------------------------
(* What each step may do to the history and to what the loop holds.        *)

\* Only a post is counted as one.
LEMMA OnlyPostsCount ==
  ASSUME [Next]_vars, ~ \E p \in loop.fire : Post(p)
  PROVE  posts' = posts
  BY DEF Next, SetStep, SetReminder, Refuse, Insert, InsertFails, BatchStep, StartBatch, Delete,
         DeleteFails, EndBatch, EndDrop, PostNothing, Notice, Drop, DropFails, CycleStep, Poll,
         PollFails, EndCycle, Prune, PruneFails, EndHousekeeping, Stop, Restart, Tick, vars,
         history

\* Only these lose a post.
LEMMA OnlyTheseLose ==
  ASSUME [Next]_vars, ~(DeleteFails \/ Stop \/ Restart)
  PROVE  lost' = lost
  BY DEF Next, SetStep, SetReminder, Refuse, Insert, InsertFails, BatchStep, StartBatch, Delete,
         EndBatch, EndDrop, Post, PostNothing, Notice, Drop, DropFails, CycleStep, Poll,
         PollFails, EndCycle, Prune, PruneFails, EndHousekeeping, Tick, vars, history

\* Nothing gets to be deleted but by a post.
LEMMA OnlyPostsPosted ==
  ASSUME TypeOK, [Next]_vars, ~ \E p \in loop.fire : Post(p)
  PROVE  loop'.posted \subseteq loop.posted
<1>1. loop \in LoopState
  BY DEF TypeOK
<1>2. CASE SetStep \/ Restart \/ Stop \/ Tick \/ UNCHANGED vars
  BY <1>1, <1>2 DEF SetStep, SetReminder, Refuse, Insert, InsertFails, Restart, Stop, Tick, AtTop,
                    LoopState, vars
<1>3. CASE CycleStep
  BY <1>1, <1>3 DEF CycleStep, Poll, PollFails, EndCycle, Prune, PruneFails, EndHousekeeping,
                    LoopState
<1>4. CASE BatchStep
  BY <1>1, <1>4 DEF BatchStep, StartBatch, Delete, DeleteFails, EndBatch, EndDrop, PostNothing,
                    Notice, Drop, DropFails, LoopState
<1> QED
  BY <1>2, <1>3, <1>4 DEF Next

\* What is still to be posted was so before, or has just been fetched.
LEMMA OnlyDueIsFetched ==
  ASSUME TypeOK, [Next]_vars
  PROVE  /\ loop'.todo \cup loop'.fire \subseteq loop.todo \cup loop.fire \cup Due
         /\ now \in Nat /\ now' \in Nat /\ now <= now'
<1>1. loop \in LoopState /\ now \in Nat
  BY DEF TypeOK, Times
<1>2. CASE SetStep \/ Restart \/ Stop \/ Tick \/ UNCHANGED vars
  BY <1>1, <1>2 DEF SetStep, SetReminder, Refuse, Insert, InsertFails, Restart, Stop, Tick, AtTop,
                    LoopState, vars, store
<1>3. CASE CycleStep
  <2>1. loop'.todo \in {loop.todo, Due} /\ loop'.fire = loop.fire
    BY <1>1, <1>3 DEF CycleStep, Poll, PollFails, EndCycle, Prune, PruneFails, EndHousekeeping,
                      LoopState
  <2>2. now' = now
    BY <1>3 DEF CycleStep, Poll, PollFails, EndCycle, Prune, PruneFails, EndHousekeeping, store
  <2> QED
    BY <1>1, <2>1, <2>2
<1>4. CASE StartBatch
  BY <1>1, <1>4 DEF StartBatch, LoopState, store
<1>5. CASE BatchStep /\ ~StartBatch
  <2>1. loop'.todo = loop.todo /\ loop'.fire \subseteq loop.fire
    BY <1>1, <1>5 DEF BatchStep, Delete, DeleteFails, EndBatch, EndDrop, Post, PostNothing,
                      Notice, Drop, DropFails, LoopState
  <2>2. now' = now
    BY <1>5 DEF BatchStep, Delete, DeleteFails, EndBatch, EndDrop, Post, PostNothing, Notice,
                Drop, DropFails, store
  <2> QED
    BY <1>1, <2>1, <2>2
<1> QED
  BY <1>2, <1>3, <1>4, <1>5 DEF Next

\* A call that is about to insert was so before with the same reminder, or has
\* just been let through.
LEMMA OnlyAcceptedInsert ==
  ASSUME TypeOK, [Next]_vars
  PROVE  /\ \A r \in Setters : setter'[r].pc = "insert" =>
              \/ setter[r].pc = "insert" /\ setter'[r].tag = setter[r].tag
              \/ setter'[r].tag = accepted + 1
         /\ accepted \in Nat /\ accepted' \in Nat /\ accepted <= accepted'
<1>1. setter \in [Setters -> SetCall] /\ accepted \in Nat
  BY DEF TypeOK
<1>2. ASSUME NEW s \in Setters, NEW a \in Actors, NEW ch \in Channels, NEW at \in Dates,
             SetReminder(s, a, ch, at)
      PROVE  /\ \A r \in Setters : setter'[r].pc = "insert" =>
                  \/ setter[r].pc = "insert" /\ setter'[r].tag = setter[r].tag
                  \/ setter'[r].tag = accepted + 1
             /\ accepted' = accepted + 1
  BY <1>1, <1>2 DEF SetReminder
<1>3. CASE SetStep /\ ~ \E s \in Setters, a \in Actors, ch \in Channels, at \in Dates :
                          SetReminder(s, a, ch, at)
  BY <1>1, <1>3 DEF SetStep, Refuse, Insert, InsertFails, Idle, limiter
<1>4. CASE Tick
  <2>1. ASSUME NEW r \in Setters, setter'[r].pc = "insert"
        PROVE  setter[r].pc = "insert" /\ setter'[r].tag = setter[r].tag
    BY <1>1, <1>4, <2>1 DEF Tick, SetCall, Idle
  <2> QED
    BY <1>1, <1>4, <2>1 DEF Tick, limiter
<1>5. CASE Restart
  BY <1>1, <1>5 DEF Restart, Idle
<1>6. CASE BatchStep \/ CycleStep \/ Stop \/ UNCHANGED vars
  <2>1. setter' = setter /\ accepted' = accepted
    BY <1>6 DEF BatchStep, StartBatch, Delete, DeleteFails, EndBatch, EndDrop, Post,
                PostNothing, Notice, Drop, DropFails, CycleStep, Poll, PollFails, EndCycle,
                Prune, PruneFails, EndHousekeeping, Stop, vars, limiter
  <2> QED
    BY <1>1, <2>1
<1> QED
  BY <1>1, <1>2, <1>3, <1>4, <1>5, <1>6 DEF Next

-----------------------------------------------------------------------------
(* The ledger of the posts.                                                *)

\* Nothing is lost that was not posted, and what waits for its DELETE has one
\* post more than losses.
Paid ==
  /\ \A t \in Tags : lost[t] <= posts[t]
  /\ \A p \in loop.posted : lost[p.tag] < posts[p.tag]

\* A reminder that is not in the table yet has not been posted.
Unsaid ==
  /\ \A t \in Tags : t > accepted => posts[t] = 0
  /\ \A s \in Setters : setter[s].pc = "insert" => posts[setter[s].tag] = 0

\* What is to be posted is due.
Ready == \A p \in loop.todo \cup loop.fire : p.at <= now

OutboxInv == CountInv /\ Paid /\ Unsaid /\ Ready

LEMMA OutboxInit == Init => OutboxInv
  BY CountInit DEF Init, OutboxInv, Paid, Unsaid, Ready, AtTop, Idle

LEMMA ReadyStep == TypeOK /\ Ready /\ [Next]_vars => Ready'
<1> SUFFICES ASSUME TypeOK, Ready, [Next]_vars, NEW p \in loop'.todo \cup loop'.fire
             PROVE  p.at <= now'
  BY DEF Ready
<1>1. CASE p \in loop.todo \cup loop.fire
  <2>1. p \in Parcel
    BY <1>1 DEF TypeOK, LoopState
  <2>2. p.at \in Int
    BY <2>1, RemindersAssumption DEF Parcel, Dates
  <2> QED
    BY <1>1, <2>2, OnlyDueIsFetched DEF Ready
<1>2. CASE p \in Due
  <2>1. PICK i \in Ids : reminders[i] # NoRow /\ reminders[i].at <= now /\ p = Fetched(i)
    BY <1>2 DEF Due
  <2>2. reminders[i] \in Row
    BY <2>1 DEF TypeOK
  <2>3. p.at = reminders[i].at /\ p.at \in Int
    BY <2>1, <2>2, RemindersAssumption DEF Fetched, Row, Dates
  <2> QED
    BY <2>1, <2>3, OnlyDueIsFetched
<1> QED
  BY <1>1, <1>2, OnlyDueIsFetched

\* The row of what is to be posted is in the table.
LEMMA FiredIsKept ==
  ASSUME CountInv, NEW p \in loop.fire
  PROVE  /\ p \in Parcel /\ p.tag \in Tags /\ p.id \in Ids /\ InTable(p.id)
         /\ reminders[p.id] = [tag |-> p.tag, channel |-> p.channel, at |-> p.at]
         /\ reminders[p.id].tag = p.tag
<1>1. HeldInv /\ p \in Parcel
  BY DEF CountInv, HeldInv, TypeOK, LoopState
<1>2. p.id \in Ids /\ reminders[p.id] # NoRow
  BY <1>1, HeldIsInTable
<1>3. reminders[p.id] = [tag |-> p.tag, channel |-> p.channel, at |-> p.at]
  BY <1>1 DEF HeldInv, BatchIsCurrent
<1> QED
  BY <1>1, <1>2, <1>3 DEF InTable, Parcel

\* It has been posted as often as lost.
LEMMA FiredIsOwed ==
  ASSUME OutboxInv, NEW p \in loop.fire, Post(p)
  PROVE  posts[p.tag] <= lost[p.tag] /\ loop.posted = {}
<1>1. loop.posted = {}
  BY DEF OutboxInv, CountInv, HeldInv, Shape, Post
<1>2. Owed(p.tag)
  BY <1>1, FiredIsKept DEF OutboxInv, Owed, Tag
<1> QED
  BY <1>1, <1>2, FiredIsKept DEF OutboxInv, CountInv, Counted

LEMMA UnsaidStep ==
  ASSUME OutboxInv, [Next]_vars
  PROVE  Unsaid'
<1>0. TypeOK /\ posts \in [Tags -> Nat]
  BY DEF OutboxInv, CountInv, HeldInv, TypeOK
<1>1. \A r \in Setters : setter[r].pc = "insert" => setter[r].tag \in Tags
  BY <1>0 DEF TypeOK, SetCall, Idle
<1>2. accepted + 1 \in Tags => posts[accepted + 1] = 0
  <2>1. accepted + 1 > accepted
    BY <1>0 DEF TypeOK
  <2> QED
    BY <2>1 DEF OutboxInv, Unsaid
<1>3. \A r \in Setters : setter'[r].pc = "insert" => setter'[r].tag \in Tags
  <2>1. TypeOK'
    BY <1>0, SetTypes, BatchTypes, CycleTypes, OtherTypes, StutterTypes DEF Next
  <2> QED
    BY <2>1 DEF TypeOK, SetCall, Idle
<1>4. CASE ~ \E p \in loop.fire : Post(p)
  <2>1. posts' = posts
    BY <1>4, OnlyPostsCount
  <2>2. \A t \in Tags : t > accepted' => posts'[t] = 0
    BY <1>0, <2>1, OnlyAcceptedInsert DEF OutboxInv, Unsaid, Tags
  <2>3. \A r \in Setters : setter'[r].pc = "insert" => posts'[setter'[r].tag] = 0
    <3> SUFFICES ASSUME NEW r \in Setters, setter'[r].pc = "insert"
                 PROVE  posts[setter'[r].tag] = 0
      BY <2>1
    <3>1. CASE setter[r].pc = "insert" /\ setter'[r].tag = setter[r].tag
      BY <3>1 DEF OutboxInv, Unsaid
    <3>2. CASE setter'[r].tag = accepted + 1
      BY <1>2, <1>3, <3>2
    <3> QED
      BY <3>1, <3>2, <1>0, OnlyAcceptedInsert
  <2> QED
    BY <2>2, <2>3 DEF Unsaid
<1>5. ASSUME NEW p \in loop.fire, Post(p) PROVE Unsaid'
  <2>1. /\ posts' = [posts EXCEPT ![p.tag] = @ + 1] /\ accepted' = accepted /\ setter' = setter
    BY <1>5 DEF Post, limiter
  <2>2. /\ p.tag \in Tags /\ p.tag <= accepted
        /\ \A r \in Setters : setter[r].pc = "insert" => setter[r].tag # p.tag
    <3>1. CountInv
      BY DEF OutboxInv
    <3>2. p.tag \in Tags /\ p.id \in Ids /\ InTable(p.id) /\ reminders[p.id].tag = p.tag
      BY <3>1, FiredIsKept
    <3> QED
      BY <3>1, <3>2 DEF CountInv, Numbered
  <2>3. \A t \in Tags : t > accepted => t # p.tag
    BY <1>0, <2>2 DEF TypeOK, Tags
  <2> QED
    BY <1>0, <1>1, <2>1, <2>2, <2>3 DEF OutboxInv, Unsaid
<1> QED
  BY <1>4, <1>5

\* What a failing DELETE, a stop or a restart adds to the losses.
LEMMA LoseOne ==
  ASSUME OutboxInv, Lose
  PROVE  \/ loop.posted = {} /\ lost' = lost
         \/ \E p \in loop.posted :
              /\ p.tag \in Tags /\ loop.posted = {p}
              /\ posts[p.tag] > lost[p.tag]
              /\ lost' = [lost EXCEPT ![p.tag] = @ + 1]
<1>0. /\ loop \in LoopState /\ lost \in [Tags -> Nat]
      /\ lost' = [t \in Tags |-> IF t \in Tag(loop.posted) THEN lost[t] + 1 ELSE lost[t]]
      /\ \A p, q \in loop.posted : p = q
  BY DEF OutboxInv, CountInv, HeldInv, TypeOK, Shape, Lose
<1>1. CASE loop.posted = {}
  BY <1>0, <1>1 DEF Tag
<1>2. ASSUME NEW p \in loop.posted
      PROVE  /\ p.tag \in Tags /\ loop.posted = {p}
             /\ posts[p.tag] > lost[p.tag]
             /\ lost' = [lost EXCEPT ![p.tag] = @ + 1]
  <2>1. loop.posted = {p}
    BY <1>0
  <2>2. p.tag \in Tags
    BY <1>0 DEF LoopState, Parcel
  <2>3. Tag(loop.posted) = {p.tag}
    BY <2>1 DEF Tag
  <2>4. lost' = [lost EXCEPT ![p.tag] = @ + 1]
    BY <1>0, <2>2, <2>3
  <2>5. posts[p.tag] \in Nat /\ lost[p.tag] \in Nat /\ lost[p.tag] < posts[p.tag]
    BY <2>2 DEF OutboxInv, Paid, CountInv, HeldInv, TypeOK
  <2> QED
    BY <2>1, <2>2, <2>4, <2>5
<1> QED
  BY <1>1, <1>2

LEMMA PaidStep ==
  ASSUME OutboxInv, [Next]_vars
  PROVE  Paid'
<1>0. /\ TypeOK /\ posts \in [Tags -> Nat] /\ lost \in [Tags -> Nat]
      /\ loop \in LoopState
  BY DEF OutboxInv, CountInv, HeldInv, TypeOK
<1>1. ASSUME NEW p \in loop.fire, Post(p) PROVE Paid'
  <2>1. /\ posts' = [posts EXCEPT ![p.tag] = @ + 1] /\ lost' = lost /\ loop'.posted = {p}
    BY <1>0, <1>1 DEF Post, LoopState
  <2>2. p.tag \in Tags
    BY FiredIsKept DEF OutboxInv
  <2> QED
    BY <1>0, <2>1, <2>2 DEF OutboxInv, Paid
<1>2. CASE DeleteFails \/ Stop \/ Restart
  <2>1. Lose /\ posts' = posts
    BY <1>2 DEF DeleteFails, Stop, Restart
  <2>2. loop'.posted = {}
    <3>1. CASE DeleteFails
      BY <1>0, <3>1 DEF DeleteFails, LoopState
    <3>2. CASE Stop \/ Restart
      BY <3>2 DEF Stop, Restart, AtTop
    <3> QED
      BY <1>2, <3>1, <3>2
  <2> QED
    BY <1>0, <2>1, <2>2, LoseOne DEF OutboxInv, Paid
<1>3. CASE ~(DeleteFails \/ Stop \/ Restart) /\ ~ \E p \in loop.fire : Post(p)
  BY <1>0, <1>3, OnlyPostsCount, OnlyTheseLose, OnlyPostsPosted DEF OutboxInv, Paid
<1> QED
  BY <1>1, <1>2, <1>3

LEMMA OutboxStep == OutboxInv /\ [Next]_vars => OutboxInv'
<1> SUFFICES ASSUME OutboxInv, [Next]_vars PROVE OutboxInv'
  OBVIOUS
<1>1. TypeOK
  BY DEF OutboxInv, CountInv, HeldInv
<1> QED
  BY <1>1, CountStep, PaidStep, UnsaidStep, ReadyStep DEF OutboxInv

-----------------------------------------------------------------------------
(* Each step is one of the outbox, or none.                                *)

LEMMA SameCount ==
  ASSUME NEW S
  PROVE  Outbox!Cardinality(S) = Cardinality(S)
  BY DEF Outbox!Cardinality, Cardinality

Box == {reminders[i] : i \in {j \in Ids : reminders[j] # NoRow}}

\* A call the limiter lets through is one that the full window lets through.
LEMMA SetIsAccept ==
  ASSUME RateInv, Known, NEW s \in Setters, NEW a \in Actors, NEW ch \in Channels,
         NEW at \in Dates, SetReminder(s, a, ch, at)
  PROVE  Outbox!Accept(a)
<1>1. /\ accepted' = accepted + 1
      /\ charges' = [charges EXCEPT ![a] = @ \cup {[tag |-> accepted + 1, at |-> now]}]
      /\ UNCHANGED <<now, reminders, posts, lost, burst>>
      /\ Cardinality(Fresh(a)) < RateLimit
  BY DEF SetReminder, store, history
<1>2. Fresh(a) = {c \in charges[a] : c.at >= now - RateWindow}
  BY WindowIsExact DEF LimiterIsExact, Charged
<1>3. Outbox!Window(a) = Fresh(a)
  BY <1>2 DEF Outbox!Window
<1> QED
  BY <1>1, <1>3, SameCount DEF Outbox!Accept

\* The INSERT keeps a reminder that was not kept before.
LEMMA InsertIsKeep ==
  ASSUME OutboxInv, NEW s \in Setters, Insert(s)
  PROVE  \E r \in Outbox!Card : Outbox!Keep(r)
<1> DEFINE r == [tag |-> setter[s].tag, channel |-> setter[s].channel, at |-> setter[s].at]
<1>0. TypeOK /\ setter[s].pc = "insert" /\ UNCHANGED <<now, charges, accepted, posts, lost, burst>>
  BY DEF OutboxInv, CountInv, HeldInv, Insert, store, limiter, history
<1>1. PICK i \in Ids : IsNextId(reminders, i) /\ reminders' = [reminders EXCEPT ![i] = r]
  BY DEF Insert
<1>2. setter[s] \in [pc: {"insert"}, tag: Tags, channel: Channels, at: Dates, age: 0..MaxDelay]
  BY <1>0 DEF TypeOK, SetCall, Idle
<1>3. r \in Outbox!Card /\ r \in Row /\ r.tag = setter[s].tag
  BY <1>2 DEF Outbox!Card, Row
<1>4. r # NoRow /\ reminders[i] = NoRow
  BY <1>1, <1>3, NextIdIsFree, RemindersAssumption
<1>5. r.tag <= accepted /\ posts[r.tag] = 0
  BY <1>0, <1>3 DEF OutboxInv, CountInv, Numbered, Unsaid
<1>6. \A q \in Box : q.tag # r.tag
  BY <1>0, <1>3 DEF OutboxInv, CountInv, Numbered, Box, InTable
<1>7. Box' = Box \cup {r}
  <2>1. reminders'[i] = r /\ \A j \in Ids : j # i => reminders'[j] = reminders[j]
    BY <1>0, <1>1 DEF TypeOK
  <2> HIDE DEF r
  <2> QED
    BY <1>4, <2>1 DEF Box
<1> HIDE DEF r
<1> QED
  BY <1>0, <1>3, <1>5, <1>6, <1>7 DEF Outbox!Keep, Box

\* A post says a reminder that is kept and due, to a channel that has room.
LEMMA PostIsSay ==
  ASSUME OutboxInv, BurstInv, NEW p \in loop.fire, Post(p)
  PROVE  \E r \in Outbox!Card : Outbox!Say(r)
<1> DEFINE r == reminders[p.id]
<1>0. /\ UNCHANGED <<now, charges, accepted, reminders, lost>>
      /\ posts' = [posts EXCEPT ![p.tag] = @ + 1]
      /\ burst' = [burst EXCEPT ![p.channel] = @ + 1]
  BY DEF Post, store, limiter
<1>1. /\ p \in Parcel /\ p.id \in Ids /\ InTable(p.id)
      /\ r = [tag |-> p.tag, channel |-> p.channel, at |-> p.at]
  BY FiredIsKept DEF OutboxInv
<1>2. r.tag = p.tag /\ r.channel = p.channel /\ r.at = p.at /\ r \in Outbox!Card /\ r \in Box
  BY <1>1 DEF Parcel, Outbox!Card, Box, InTable
<1>3. p.at <= now /\ posts[p.tag] <= lost[p.tag]
  BY FiredIsOwed DEF OutboxInv, Ready
<1>4. burst[p.channel] < FireCap
  <2>1. IsFiniteSet(loop.fire) /\ burst[p.channel] + Cardinality(loop.fire) <= FireCap
    BY DEF BurstInv, BurstRoom
  <2>2. Cardinality(loop.fire) \in Nat /\ Cardinality(loop.fire) # 0
    BY <2>1, FS_CardinalityType, FS_EmptySet
  <2>3. burst[p.channel] \in Nat /\ FireCap \in Nat
    BY <1>1, RemindersAssumption DEF BurstInv, HeldInv, TypeOK, Parcel
  <2> QED
    BY <2>1, <2>2, <2>3
<1> HIDE DEF r
<1>5. Outbox!Say(r)
  BY <1>0, <1>2, <1>3, <1>4 DEF Outbox!Say, Box
<1> QED
  BY <1>2, <1>5

\* Where the loop is cut short, a post may get lost.
LEMMA LoseIsInterrupted ==
  ASSUME OutboxInv, Lose, UNCHANGED <<now, accepted, reminders, posts, burst>>
  PROVE  Outbox!Interrupted
<1>1. CASE lost' = lost
  BY <1>1 DEF Outbox!Interrupted
<1>2. ASSUME NEW t \in Tags, posts[t] > lost[t], lost' = [lost EXCEPT ![t] = @ + 1]
      PROVE  Outbox!Interrupted
  BY <1>2 DEF Outbox!Interrupted, Outbox!Lose
<1> QED
  BY <1>1, <1>2, LoseOne

\* Rows that go from the table go from the box.
LEMMA RowsGoIsTakeOut ==
  ASSUME \A i \in Ids : reminders'[i] = reminders[i] \/ reminders'[i] = NoRow,
         UNCHANGED <<now, charges, accepted, posts, lost, burst>>
  PROVE  Outbox!TakeOut
  BY DEF Outbox!TakeOut

LEMMA StepIsOutbox ==
  ASSUME OutboxInv, RateInv, Known, BurstInv, [Next]_vars
  PROVE  [Outbox!Next]_(Outbox!ovars)
<1>0. TypeOK /\ OutboxInv
  BY DEF OutboxInv, CountInv, HeldInv
<1>1. ASSUME NEW s \in Setters, NEW a \in Actors, NEW ch \in Channels, NEW at \in Dates,
             SetReminder(s, a, ch, at)
      PROVE  Outbox!Next
  BY <1>1, SetIsAccept DEF Outbox!Next
<1>2. ASSUME NEW s \in Setters, Insert(s) PROVE Outbox!Next
  BY <1>2, InsertIsKeep DEF Outbox!Next
<1>3. ASSUME NEW p \in loop.fire, Post(p) PROVE Outbox!Next
  BY <1>3, PostIsSay DEF Outbox!Next
<1>4. CASE DeleteFails \/ Stop
  <2>1. Lose /\ UNCHANGED <<now, accepted, charges, reminders, posts, burst>>
    BY <1>4 DEF DeleteFails, Stop, store, limiter
  <2> QED
    BY <1>0, <2>1, LoseIsInterrupted DEF Outbox!Next
<1>5. CASE Restart
  <2>1. /\ Lose /\ UNCHANGED <<now, accepted, reminders, posts, burst>>
        /\ charges' = [a \in Actors |-> {}]
    BY <1>5 DEF Restart
  <2> QED
    BY <1>0, <2>1, LoseIsInterrupted DEF Outbox!Next, Outbox!Restart
<1>6. CASE Poll \/ PollFails
  <2>1. /\ burst' = [ch \in Channels |-> 0]
        /\ UNCHANGED <<now, accepted, charges, reminders, posts, lost>>
    BY <1>6 DEF Poll, PollFails, store, limiter
  <2> QED
    BY <2>1 DEF Outbox!Next, Outbox!NewRound
<1>7. CASE Tick
  <2>1. now' = now + 1 /\ UNCHANGED <<accepted, charges, reminders, posts, lost, burst>>
    BY <1>7 DEF Tick, limiter, history
  <2> QED
    BY <2>1 DEF Outbox!Next, Outbox!Pass
<1>8. CASE Delete \/ Prune \/ \E p \in loop.excess : Drop(p)
  <2>1. UNCHANGED <<now, accepted, charges, posts, lost, burst>>
    BY <1>8 DEF Delete, Prune, Drop, store, limiter, history
  <2>2. \A i \in Ids : reminders'[i] = reminders[i] \/ reminders'[i] = NoRow
    BY <1>0, <1>8 DEF Delete, Prune, Drop, TypeOK
  <2> QED
    BY <2>1, <2>2, RowsGoIsTakeOut DEF Outbox!Next
<1>9. CASE \/ \E a \in Actors : Refuse(a)
           \/ \E s \in Setters : InsertFails(s)
           \/ EndCycle \/ PruneFails \/ EndHousekeeping \/ UNCHANGED vars
           \/ StartBatch \/ EndBatch \/ EndDrop
           \/ \E p \in loop.fire : PostNothing(p)
           \/ \E sent \in BOOLEAN : Notice(sent)
           \/ \E p \in loop.excess : DropFails(p)
  <2>1. UNCHANGED <<now, accepted, charges, reminders, posts, lost, burst>>
    BY <1>9 DEF Refuse, InsertFails, EndCycle, PruneFails, EndHousekeeping, vars, StartBatch,
                EndBatch, EndDrop, PostNothing, Notice, DropFails, store, limiter, history
  <2> QED
    BY <2>1 DEF Outbox!ovars
<1> QED
  BY <1>1, <1>2, <1>3, <1>4, <1>5, <1>6, <1>7, <1>8, <1>9
     DEF Next, SetStep, BatchStep, CycleStep

\* Seen from outside, the limiter with its sweeps and the loop with its polls,
\* batches and deletes are the outbox: nobody gets more, or less, than the
\* window allows; nothing is posted that is not kept, before it is due, in too
\* large a burst, or again unless it was lost.
THEOREM LoopIsOutbox == Spec => ImplementsOutbox
<1>1. Init => Outbox!Init
  BY DEF Init, Outbox!Init
<1>2. RateInv => TypeOK
  BY DEF RateInv
<1>3. OutboxInv /\ RateInv /\ Known /\ BurstInv /\ [Next]_vars => [Outbox!Next]_(Outbox!ovars)
  BY StepIsOutbox
<1> QED
  BY <1>1, <1>2, <1>3, OutboxInit, OutboxStep, RateInit, RateStep, KnownInit, KnownStep,
     BurstInit, BurstStep, PTL DEF Spec, ImplementsOutbox, Outbox!Spec
=============================================================================
