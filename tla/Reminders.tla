------------------------------ MODULE Reminders ------------------------------
(***************************************************************************)
(* Reminders: set_reminder (src/bot/tools/memory_tools.py) writes rows of  *)
(* the table "reminders", the loop of src/bot/scheduler.py polls for rows  *)
(* that are due, posts them and deletes them, and once in a while sweeps   *)
(* the table.  The loop is one coroutine; it interleaves with calls of     *)
(* set_reminder at every await, may be cancelled at any of them by stop(), *)
(* and the process may die and start again at any time.                    *)
(*                                                                         *)
(* now is both clocks of the code, the wall clock of the table and the     *)
(* monotonic one of the limiter and the sweep; both only go forward.       *)
(***************************************************************************)
EXTENDS Integers, FiniteSets

CONSTANTS
  Setters,        \* concurrent calls of set_reminder
  Channels,
  Actors,         \* keys of the limiter: accounts, or nicks without one
  RateLimit,      \* _REMINDER_RATE_LIMIT
  RateWindow,     \* _REMINDER_RATE_WINDOW_SEC
  SweepInterval,  \* _REMINDER_SWEEP_INTERVAL_SEC
  Horizon,        \* _REMINDER_MAX_HORIZON_SEC
  PastSlack,      \* a reminder may be this late when it is set
  FireCap,        \* MAX_REMINDERS_PER_CHANNEL_PER_CYCLE
  Retention,      \* REMINDER_RETENTION_DAYS
  PruneInterval,  \* REMINDER_PRUNE_INTERVAL_SEC
  MaxDelay,       \* bound: time that passes during one cycle or one insert
  NoRow,          \* no row has this id
  MaxTime,        \* bound: end of time
  MaxReminders,   \* bound: calls the limiter lets through
  MaxFaults       \* bound: database failures and restarts

Times == 0..MaxTime
Dates == (-PastSlack)..(MaxTime + Horizon)   \* values of fire_at
Tags  == 1..MaxReminders                     \* one per accepted call
Ids   == 1..MaxReminders                     \* values of reminders.id

\* "tag" is not a column: it tells apart rows that were given the same id.
Row    == [tag: Tags, channel: Channels, at: Dates]
Parcel == [id: Ids, tag: Tags, channel: Channels, at: Dates]  \* a fetched row
Charge == [tag: Tags, at: Times]                \* an entry of the rate history

ASSUME RemindersAssumption ==
  /\ {RateLimit, FireCap} \subseteq Nat \ {0}
  /\ {RateWindow, SweepInterval, Horizon, PastSlack, PruneInterval, MaxDelay,
      MaxTime, MaxReminders, MaxFaults} \subseteq Nat
  /\ NoRow \notin Row

\* Seven days are more than a cycle and an insert take.
ASSUME RetentionAssumption ==
  Retention \in Nat /\ Retention >= 2 * MaxDelay + PastSlack

VARIABLES
  now,
  reminders,   \* the table: from ids to rows
  rateHistory, \* _reminder_history: the charges kept for each actor
  lastSweep,   \* _reminder_history_last_sweep
  setter,      \* locals of each set_reminder call
  loop,        \* locals of the reminder loop
  lastPrune,   \* last_prune
  faults,      \* failures and restarts so far, for the bound MaxFaults
  \* History, read by properties only (accepted also numbers the reminders).
  accepted,    \* calls the limiter let through
  charges,     \* the charges of each actor since the start of the process
  posts,       \* times a reminder was posted
  lost,        \* times it was posted and the row stayed: failure, stop, crash
  tried,       \* reminders the loop has tried to post or to drop
  dropped,     \* reminders deleted as excess
  announced,   \* reminders whose drop notice reached the wire
  burst        \* reminders posted in a channel since the last poll

store   == <<now, faults>>
limiter == <<rateHistory, lastSweep, accepted, charges>>
history == <<posts, lost, tried, dropped, announced, burst>>
vars == <<store, reminders, limiter, setter, loop, lastPrune, history>>

-----------------------------------------------------------------------------
(* Locals of the calls.                                                    *)

Idle == [pc |-> "idle"]

SetCall == {Idle} \cup [pc: {"insert"}, tag: Tags, channel: Channels, at: Dates,
                        age: 0..MaxDelay]

\* The loop: "poll" is the top of the cycle and the sleep before it, "next"
\* the choice of the next channel, "fire" the posts of its batch, "delete"
\* the DELETE after a post, "notice" and "drop" the excess, "prune" and
\* "refresh" the housekeeping, "stopped" after stop().
LoopState ==
  [pc: {"poll", "next", "fire", "delete", "notice", "drop", "prune", "refresh", "stopped"},
   age: 0..MaxDelay,           \* time since the start of the cycle
   blind: BOOLEAN,             \* the poll of this cycle failed
   todo: SUBSET Parcel,        \* rows of the channels still to come
   fire: SUBSET Parcel,        \* rows of this batch still to be posted
   posted: SUBSET Parcel,      \* the row that was just posted, if any
   excess: SUBSET Parcel]      \* rows of this batch over the cap

AtTop == [pc |-> "poll", age |-> 0, blind |-> FALSE, todo |-> {}, fire |-> {},
          posted |-> {}, excess |-> {}]

Tag(parcels) == {p.tag : p \in parcels}

TypeOK ==
  /\ now \in Times
  /\ reminders \in [Ids -> Row \cup {NoRow}]
  /\ rateHistory \in [Actors -> SUBSET Charge]
  /\ lastSweep \in Times
  /\ setter \in [Setters -> SetCall]
  /\ loop \in LoopState
  /\ lastPrune \in Times
  /\ faults \in 0..MaxFaults
  /\ accepted \in 0..MaxReminders
  /\ charges \in [Actors -> SUBSET Charge]
  /\ posts \in [Tags -> Nat]
  /\ lost \in [Tags -> Nat]
  /\ {tried, dropped, announced} \subseteq SUBSET Tags
  /\ burst \in [Channels -> Nat]

\* The process starts some time after the host did, with an empty table.
Init ==
  /\ now = 0
  /\ reminders = [i \in Ids |-> NoRow]
  /\ rateHistory = [a \in Actors |-> {}]
  /\ lastSweep = 0
  /\ setter = [s \in Setters |-> Idle]
  /\ loop = AtTop
  /\ lastPrune = 0
  /\ faults = 0
  /\ accepted = 0
  /\ charges = [a \in Actors |-> {}]
  /\ posts = [t \in Tags |-> 0]
  /\ lost = [t \in Tags |-> 0]
  /\ tried = {} /\ dropped = {} /\ announced = {}
  /\ burst = [ch \in Channels |-> 0]

Fault == faults < MaxFaults /\ faults' = faults + 1

-----------------------------------------------------------------------------
(* set_reminder.                                                           *)

\* Mutant: the sweep clears the history.
SweptAll == IF now - lastSweep > SweepInterval THEN [a \in Actors |-> {}] ELSE rateHistory

\* The rate history after the periodic sweep: the actors of whose charges
\* the last one has left the window are forgotten.
Swept ==
  IF now - lastSweep > SweepInterval
  THEN [a \in Actors |->
          IF \A c \in rateHistory[a] : c.at < now - RateWindow THEN {} ELSE rateHistory[a]]
  ELSE rateHistory

SweepClock == IF now - lastSweep > SweepInterval THEN now ELSE lastSweep

Fresh(a) == {c \in Swept[a] : c.at >= now - RateWindow}

\* The requested time is neither too far ahead nor past.
Acceptable(at) == at \in (now - PastSlack)..(now + Horizon)

\* A call the limiter lets through; what is left to do is the INSERT.
SetReminder(s, a, ch, at) ==
  LET charge == [tag |-> accepted + 1, at |-> now] IN
  /\ setter[s].pc = "idle"
  /\ Acceptable(at)
  /\ Cardinality(Fresh(a)) < RateLimit
  /\ accepted < MaxReminders
  /\ rateHistory' = [Swept EXCEPT ![a] = Fresh(a) \cup {charge}]
  /\ lastSweep' = SweepClock
  /\ accepted' = accepted + 1
  /\ charges' = [charges EXCEPT ![a] = @ \cup {charge}]
  /\ setter' = [setter EXCEPT ![s] = [pc |-> "insert", tag |-> accepted + 1,
                                      channel |-> ch, at |-> at, age |-> 0]]
  /\ UNCHANGED <<store, reminders, loop, lastPrune, history>>

\* A call the limiter refuses: nothing is written, the pruned list is kept.
Refuse(a) ==
  /\ Cardinality(Fresh(a)) >= RateLimit
  /\ rateHistory' = [Swept EXCEPT ![a] = Fresh(a)]
  /\ lastSweep' = SweepClock
  /\ UNCHANGED <<store, reminders, accepted, charges, setter, loop, lastPrune, history>>

\* The id SQLite gives the next row: one more than the largest in the table.
IsNextId(rows, i) ==
  /\ \A j \in Ids : rows[j] # NoRow => j < i
  /\ i = 1 \/ \E j \in Ids : rows[j] # NoRow /\ i = j + 1

Insert(s) ==
  /\ setter[s].pc = "insert"
  /\ \E i \in Ids :
       /\ IsNextId(reminders, i)
       /\ reminders' = [reminders EXCEPT ![i] =
                          [tag |-> setter[s].tag, channel |-> setter[s].channel,
                           at |-> setter[s].at]]
  /\ setter' = [setter EXCEPT ![s] = Idle]
  /\ UNCHANGED <<store, limiter, loop, lastPrune, history>>

\* The INSERT raises; the charge stands.
InsertFails(s) ==
  /\ setter[s].pc = "insert"
  /\ Fault
  /\ setter' = [setter EXCEPT ![s] = Idle]
  /\ UNCHANGED <<now, reminders, limiter, loop, lastPrune, history>>

-----------------------------------------------------------------------------
(* The poll and the batches.                                               *)

Fetched(i) == [id |-> i, tag |-> reminders[i].tag, channel |-> reminders[i].channel,
               at |-> reminders[i].at]

\* Mutant: the query does not look at fire_at.
DueAnyTime == {Fetched(i) : i \in {j \in Ids : reminders[j] # NoRow}}

\* due_reminders().
Due == {Fetched(i) : i \in {j \in Ids : reminders[j] # NoRow /\ reminders[j].at <= now}}

\* The earliest of a set of rows, ORDER BY fire_at: first is a prefix of rows.
Prefix(first, rows) ==
  first \subseteq rows /\ \A p \in first, q \in rows \ first : p.at <= q.at

Poll ==
  /\ loop.pc = "poll"
  /\ loop' = [loop EXCEPT !.pc = "next", !.age = 0, !.blind = FALSE, !.todo = Due]
  /\ burst' = [ch \in Channels |-> 0]
  /\ UNCHANGED <<store, reminders, limiter, setter, lastPrune, posts, lost, tried,
                 dropped, announced>>

\* Mutant: the query is outside of the try, and its failure ends the loop.
PollFailureEndsLoop ==
  /\ loop.pc = "poll"
  /\ Fault
  /\ loop' = [loop EXCEPT !.pc = "dead"]
  /\ burst' = [ch \in Channels |-> 0]
  /\ UNCHANGED <<now, reminders, limiter, setter, lastPrune, posts, lost, tried,
                 dropped, announced>>

\* The query raises: the cycle goes on with no rows.
PollFails ==
  /\ loop.pc = "poll"
  /\ Fault
  /\ loop' = [loop EXCEPT !.pc = "next", !.age = 0, !.blind = TRUE]
  /\ burst' = [ch \in Channels |-> 0]
  /\ UNCHANGED <<now, reminders, limiter, setter, lastPrune, posts, lost, tried,
                 dropped, announced>>

\* Mutant: an overdue batch is fired whole.
SplitNothing(rows, first) == first = rows

\* rows[:cap]: which rows of a channel are fired.
Split(rows, first) ==
  /\ Prefix(first, rows)
  /\ Cardinality(first) = IF Cardinality(rows) <= FireCap THEN Cardinality(rows) ELSE FireCap

\* Mutant: the last row that is fired is also the first of the excess.
ExcessOverlaps(rows, first) ==
  IF rows = first THEN {} ELSE {p \in rows : \A q \in first \ {p} : q.at <= p.at}

\* rows[cap:], if the batch is over the cap.
Excess(rows, first) == rows \ first

\* The channel of the earliest row that is left is next.
StartBatch ==
  /\ loop.pc = "next"
  /\ \E p \in loop.todo :
       /\ Prefix({p}, loop.todo)
       /\ LET rows == {q \in loop.todo : q.channel = p.channel} IN
          \E first \in SUBSET rows :
            /\ Split(rows, first)
            /\ loop' = [loop EXCEPT !.pc = "fire", !.todo = @ \ rows, !.fire = first,
                                    !.excess = Excess(rows, first)]
  /\ UNCHANGED <<store, reminders, limiter, setter, lastPrune, history>>

\* _fire_reminder, irc_send: at least one line is on the wire.
Post(p) ==
  /\ loop.pc = "fire" /\ p \in loop.fire /\ Prefix({p}, loop.fire)
  /\ loop' = [loop EXCEPT !.pc = "delete", !.fire = @ \ {p}, !.posted = {p}]
  /\ posts' = [posts EXCEPT ![p.tag] = @ + 1]
  /\ tried' = tried \cup {p.tag}
  /\ burst' = [burst EXCEPT ![p.channel] = @ + 1]
  /\ UNCHANGED <<store, reminders, limiter, setter, lastPrune, lost, dropped, announced>>

\* Mutant: the row is deleted all the same.
DeleteUnposted(p) ==
  /\ loop.pc = "fire" /\ p \in loop.fire /\ Prefix({p}, loop.fire)
  /\ loop' = [loop EXCEPT !.pc = "delete", !.fire = @ \ {p}, !.posted = {p}]
  /\ tried' = tried \cup {p.tag}
  /\ UNCHANGED <<store, reminders, limiter, setter, lastPrune, posts, lost, dropped,
                 announced, burst>>

\* The wire is down, irc_send returned 0: the row stays for the next cycle.
PostNothing(p) ==
  /\ loop.pc = "fire" /\ p \in loop.fire /\ Prefix({p}, loop.fire)
  /\ loop' = [loop EXCEPT !.fire = @ \ {p}]
  /\ tried' = tried \cup {p.tag}
  /\ UNCHANGED <<store, reminders, limiter, setter, lastPrune, posts, lost, dropped,
                 announced, burst>>

Delete ==
  /\ loop.pc = "delete"
  /\ \E p \in loop.posted : reminders' = [reminders EXCEPT ![p.id] = NoRow]
  /\ loop' = [loop EXCEPT !.pc = "fire", !.posted = {}]
  /\ UNCHANGED <<store, limiter, setter, lastPrune, history>>

\* A row was posted and is still in the table when the loop leaves it.
Lose == lost' = [t \in Tags |-> IF t \in Tag(loop.posted) THEN lost[t] + 1 ELSE lost[t]]

\* The DELETE raises; the next cycle posts the row again.
DeleteFails ==
  /\ loop.pc = "delete"
  /\ Fault
  /\ Lose
  /\ loop' = [loop EXCEPT !.pc = "fire", !.posted = {}]
  /\ UNCHANGED <<now, reminders, limiter, setter, lastPrune, posts, tried, dropped,
                 announced, burst>>

\* The batch is through; if it was over the cap, the rest is dropped.
EndBatch ==
  /\ loop.pc = "fire" /\ loop.fire = {}
  /\ loop' = [loop EXCEPT !.pc = IF loop.excess = {} THEN "next" ELSE "notice"]
  /\ UNCHANGED <<store, reminders, limiter, setter, lastPrune, history>>

\* The flood notice, which reaches the wire or not: nobody looks.
Notice(sent) ==
  /\ loop.pc = "notice"
  /\ loop' = [loop EXCEPT !.pc = "drop"]
  /\ announced' = IF sent THEN announced \cup Tag(loop.excess) ELSE announced
  /\ UNCHANGED <<store, reminders, limiter, setter, lastPrune, posts, lost, tried,
                 dropped, burst>>

Drop(p) ==
  /\ loop.pc = "drop" /\ p \in loop.excess
  /\ reminders' = [reminders EXCEPT ![p.id] = NoRow]
  /\ loop' = [loop EXCEPT !.excess = @ \ {p}]
  /\ tried' = tried \cup {p.tag}
  /\ dropped' = dropped \cup {p.tag}
  /\ UNCHANGED <<store, limiter, setter, lastPrune, posts, lost, announced, burst>>

DropFails(p) ==
  /\ loop.pc = "drop" /\ p \in loop.excess
  /\ Fault
  /\ loop' = [loop EXCEPT !.excess = @ \ {p}]
  /\ tried' = tried \cup {p.tag}
  /\ UNCHANGED <<now, reminders, limiter, setter, lastPrune, posts, lost, dropped,
                 announced, burst>>

EndDrop ==
  /\ loop.pc = "drop" /\ loop.excess = {}
  /\ loop' = [loop EXCEPT !.pc = "next"]
  /\ UNCHANGED <<store, reminders, limiter, setter, lastPrune, history>>

-----------------------------------------------------------------------------
(* Housekeeping, once per PruneInterval.                                   *)

EndCycle ==
  /\ loop.pc = "next" /\ loop.todo = {}
  /\ loop' = [loop EXCEPT !.pc = IF now - lastPrune > PruneInterval THEN "prune" ELSE "poll"]
  /\ UNCHANGED <<store, reminders, limiter, setter, lastPrune, history>>

TooOld(row) == row # NoRow /\ row.at < now - Retention

Prune ==
  /\ loop.pc = "prune"
  /\ reminders' = [i \in Ids |-> IF TooOld(reminders[i]) THEN NoRow ELSE reminders[i]]
  /\ loop' = [loop EXCEPT !.pc = "refresh"]
  /\ UNCHANGED <<store, limiter, setter, lastPrune, history>>

PruneFails ==
  /\ loop.pc = "prune"
  /\ Fault
  /\ loop' = [loop EXCEPT !.pc = "refresh"]
  /\ UNCHANGED <<now, reminders, limiter, setter, lastPrune, history>>

\* The other chores are over; the loop sleeps.
EndHousekeeping ==
  /\ loop.pc = "refresh"
  /\ lastPrune' = now
  /\ loop' = [loop EXCEPT !.pc = "poll"]
  /\ UNCHANGED <<store, reminders, limiter, setter, history>>

-----------------------------------------------------------------------------
(* Stop, restart, time.                                                    *)

\* stop() cancels the loop at the await it stands at.
Stop ==
  /\ loop.pc # "stopped"
  /\ Lose
  /\ loop' = [AtTop EXCEPT !.pc = "stopped"]
  /\ UNCHANGED <<store, reminders, limiter, setter, lastPrune, posts, tried, dropped,
                 announced, burst>>

\* The process dies at any point, or exits after stop(), and starts again:
\* only the table is left.
Restart ==
  /\ Fault
  /\ Lose
  /\ loop' = AtTop
  /\ lastPrune' = 0
  /\ rateHistory' = [a \in Actors |-> {}]
  /\ lastSweep' = 0
  /\ charges' = [a \in Actors |-> {}]
  /\ setter' = [s \in Setters |-> Idle]
  /\ UNCHANGED <<now, reminders, accepted, posts, tried, dropped, announced, burst>>

\* Time passes; a cycle and an INSERT take MaxDelay at most.
Tick ==
  /\ now < MaxTime
  /\ now' = now + 1
  /\ IF loop.pc \in {"poll", "stopped"}
     THEN loop' = loop
     ELSE loop.age < MaxDelay /\ loop' = [loop EXCEPT !.age = @ + 1]
  /\ \A s \in Setters : setter[s].pc = "insert" => setter[s].age < MaxDelay
  /\ setter' = [s \in Setters |->
                  IF setter[s].pc = "insert" THEN [setter[s] EXCEPT !.age = @ + 1] ELSE setter[s]]
  /\ UNCHANGED <<reminders, limiter, lastPrune, faults, history>>

-----------------------------------------------------------------------------
SetStep ==
  \/ \E s \in Setters, a \in Actors, ch \in Channels, at \in Dates : SetReminder(s, a, ch, at)
  \/ \E a \in Actors : Refuse(a)
  \/ \E s \in Setters : Insert(s) \/ InsertFails(s)

BatchStep ==
  \/ StartBatch \/ Delete \/ DeleteFails \/ EndBatch \/ EndDrop
  \/ \E p \in loop.fire : Post(p) \/ PostNothing(p)
  \/ \E sent \in BOOLEAN : Notice(sent)
  \/ \E p \in loop.excess : Drop(p) \/ DropFails(p)

CycleStep == Poll \/ PollFails \/ EndCycle \/ Prune \/ PruneFails \/ EndHousekeeping

Next == SetStep \/ BatchStep \/ CycleStep \/ Stop \/ Restart \/ Tick

Spec == Init /\ [][Next]_vars

-----------------------------------------------------------------------------
(* Properties.                                                             *)

\* However the sweep of the history falls, no window of RateWindow ever holds
\* more than RateLimit accepted calls of an actor (memory_tools.py:287-313).
RateHolds ==
  \A a \in Actors, t \in Times :
    Cardinality({c \in charges[a] : t <= c.at /\ c.at <= t + RateWindow}) <= RateLimit

\* The loop is the only one that deletes, so the rows it fetched are still
\* there when it comes to them, and no id it holds has been given to another
\* reminder (scheduler.py:458-461, 602).
BatchIsCurrent ==
  \A p \in loop.todo \cup loop.fire \cup loop.posted \cup loop.excess :
    reminders[p.id] = [tag |-> p.tag, channel |-> p.channel, at |-> p.at]

\* A reminder is posted a second time only if the row outlived the post: the
\* DELETE failed, or the loop was stopped or died in between
\* (scheduler.py:589-604).
OncePerLoss == \A t \in Tags : posts[t] <= 1 + lost[t]

\* However many reminders are due and whatever is retried, a channel gets at
\* most FireCap of them between two polls (scheduler.py:434-448).
BurstBounded == \A ch \in Channels : burst[ch] <= FireCap

\* A row leaves the table only when it was posted, when it was over the cap of
\* a batch, or past retention and then only after an attempt to post it, unless
\* the poll of that cycle failed (scheduler.py:467-490, 579-604).
RowLeavesForCause ==
  [][\A i \in Ids : reminders[i] # NoRow /\ reminders'[i] # reminders[i] =>
       LET t == reminders[i].tag IN
       \/ posts[t] > 0
       \/ t \in dropped'
       \/ TooOld(reminders[i]) /\ (t \in tried \/ loop.blind)]_vars

\* The loop goes on as long as it is not stopped, and the wire comes back.
LoopRuns  == WF_vars(BatchStep \/ CycleStep)
WireWorks == SF_vars(\E p \in loop.fire : Post(p))
LiveSpec  == Spec /\ LoopRuns /\ WireWorks

\* A reminder that is due does not stay in the table for ever while the loop
\* runs, whatever fails on the way (scheduler.py:394-427).
DueIsSettled ==
  \A t \in Tags : t \in Tag(Due) ~> (t \notin Tag(Due) \/ loop.pc = "stopped")

\* "Excess get dropped (with a one-line notice posted to the channel)"
\* (scheduler.py:357): whatever was dropped was announced.
DroppedWasAnnounced == dropped \subseteq announced

-----------------------------------------------------------------------------
(* What the reminders implement: an outbox behind a sliding window.        *)

Outbox == INSTANCE ReminderOutbox WITH
            clock <- now,
            used <- charges,
            taken <- accepted,
            box <- {reminders[i] : i \in {j \in Ids : reminders[j] # NoRow}},
            said <- posts,
            repeats <- lost,
            round <- burst

\* The sweeps of the rate history let exactly those calls through that a window
\* over all charges would; and what is posted was kept and is due, is within
\* the cap of its channel and, if it was posted before, was lost since
\* (memory_tools.py:287-313, scheduler.py:394-490, 579-604).
ImplementsOutbox == Outbox!Spec
=============================================================================
