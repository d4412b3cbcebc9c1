------------------------------ MODULE TellRelay ------------------------------
(***************************************************************************)
(* The tell relay of the bot: src/bot/tells.py, class TellStore, together  *)
(* with its callers in src/bot/ircclient.py.  A tell is a message left for *)
(* an absent person; it is a row of the SQLite table "tells" and is posted *)
(* in its channel when the person is next seen there.                      *)
(*                                                                         *)
(* Every "await" of the code is a point where another task may run, so     *)
(* every await is a boundary between two actions here.  Three kinds of     *)
(* tasks work on the table: calls of create(), of deliver() and of         *)
(* cancel(); the retention sweep prune() is one statement, one action.     *)
(* The passing of time is two actions (a row going out of date, a rate     *)
(* window sliding), a crash with restart is one.                           *)
(***************************************************************************)
EXTENDS Integers, FiniteSets

CONSTANTS
  Creators,       \* concurrent calls of create()  (!tell, leave_message)
  Couriers,       \* concurrent calls of deliver() (join, message, action)
  Cancellers,     \* concurrent calls of cancel()  (!untell)
  Channels,       \* the channels the bot is in
  TellChannels,   \* those with allow_tell set in the configuration
  Nicks,          \* lowercased nicks
  Accounts,       \* services accounts
  NoAccount,      \* None: not identified, or not in the account cache
  BotNick,        \* the bot's own nick
  Operators,      \* accounts with the operator flag
  Authors,        \* the (nick, account) pairs that leave and withdraw tells
  People,         \* the (nick, account) pairs tells are for and that come by
  MaxLines,       \* wire lines of the longest tell
  PairCap,        \* TELL_MAX_PENDING_PER_PAIR
  RecipientCap,   \* TELL_MAX_PENDING_PER_RECIPIENT
  RateLimit,      \* TELL_RATE_LIMIT
  DeliverMax,     \* TELL_MAX_DELIVER_PER_ARRIVAL
  NoRow,          \* no row has this id
  NoTask,         \* nobody holds the lock
  MaxTells,       \* bound: tells ever created in a behaviour
  MaxFaults       \* bound: database failures and crashes in a behaviour

Tags  == 1..MaxTells                     \* one per tell, in creation order
Ids   == 1..MaxTells                     \* values of the column tells.id
Maybe == Accounts \cup {NoAccount}

\* actor_key(): the account if there is one, else the prefixed nick.
Keys == {<<"account", a>> : a \in Accounts} \cup {<<"nick", n>> : n \in Nicks}

ActorKey(who) == IF who.acct = NoAccount THEN <<"nick", who.nick>>
                                         ELSE <<"account", who.acct>>

(***************************************************************************)
(* A row of the table.  "tag" is not a column: it tells apart two tells    *)
(* that were given the same id.  "stale" stands for the two timestamps:    *)
(* expires_at has passed for a row that waits, delivered_at is older than  *)
(* TELL_EXPIRY_DAYS for a row that was delivered.                          *)
(***************************************************************************)
Row == [tag: Tags, channel: Channels, key: Keys, nick: Nicks, acct: Maybe,
        lines: 1..MaxLines, delivered: BOOLEAN, stale: BOOLEAN]

ASSUME SetsAssumption ==
  /\ TellChannels \subseteq Channels
  /\ Authors \cup People \subseteq [nick: Nicks, acct: Maybe]
  /\ Operators \subseteq Accounts
  /\ NoAccount \notin Accounts
  /\ Channels # {} /\ Nicks # {}

ASSUME LimitsAssumption ==
  /\ {MaxLines, PairCap, RecipientCap, RateLimit, DeliverMax} \subseteq Nat \ {0}
  /\ {MaxTells, MaxFaults} \subseteq Nat

ASSUME NoneAssumption ==
  /\ NoRow \notin Row
  /\ NoTask \notin Creators \cup Couriers

VARIABLES
  tells,        \* the table: from ids to rows
  spent,        \* _rate_history: entries of a key inside the rate window
  createLock,   \* holder of _create_lock
  deliverLock,  \* holder of _deliver_lock
  creator,      \* locals of each create() call
  courier,      \* locals of each deliver() call
  canceller,    \* locals of each cancel() call
  faults,       \* failures and crashes so far, for the bound MaxFaults
  \* History, read by properties only (births also numbers the tells).
  births,       \* tells ever created
  issued,       \* how many tells were given this id
  posts,        \* times at least the first line of a tell reached the wire
  whole,        \* tells of which every line reached the wire in one go
  lost,         \* times a tell was posted and not marked: failure or crash
  withdrawn     \* tells whose author was told "cancelled"

store   == <<tells, births, issued>>
history == <<posts, whole, lost, withdrawn>>
vars == <<store, spent, createLock, deliverLock, creator, courier,
          canceller, faults, history>>

-----------------------------------------------------------------------------
(* The queries, as operators on a table.                                   *)

\* "delivered_at IS NULL AND expires_at > now"
Pending(row) == row # NoRow /\ ~row.delivered /\ ~row.stale

\* Mutant: the recipient is matched by nick alone.
MatchesNickOnly(row, ch, who) == row.channel = ch /\ row.nick = who.nick

\* _RECIPIENT_MATCH_SQL, and the channel = ? that goes with it everywhere.
MatchesRecipient(row, ch, who) ==
  /\ row.channel = ch
  /\ \/ row.nick = who.nick
     \/ row.acct # NoAccount /\ row.acct = who.acct

\* pending_for(), as a set of ids.
PendingFor(rows, ch, who) ==
  {i \in Ids : Pending(rows[i]) /\ MatchesRecipient(rows[i], ch, who)}

\* _count_pending() with from_key, and without.
PairCount(rows, ch, who, key) ==
  Cardinality({i \in PendingFor(rows, ch, who) : rows[i].key = key})

TotalCount(rows, ch, who) == Cardinality(PendingFor(rows, ch, who))

\* The id SQLite gives the next row of an INTEGER PRIMARY KEY table without
\* AUTOINCREMENT: one more than the largest id in the table.
IsNextId(rows, i) ==
  /\ \A j \in Ids : rows[j] # NoRow => j < i
  /\ i = 1 \/ \E j \in Ids : rows[j] # NoRow /\ i = j + 1

-----------------------------------------------------------------------------
(* Locals of the calls. *)

Person == [nick: Nicks, acct: Maybe]
Somebody == CHOOSE who \in Person : TRUE
SomeChannel == CHOOSE ch \in Channels : TRUE

IdleCreator == [pc |-> "idle", channel |-> SomeChannel, from |-> Somebody,
                to |-> Somebody, lines |-> 1]
IdleCourier == [pc |-> "idle", channel |-> SomeChannel, who |-> Somebody, batch |-> {}]
IdleCanceller == [pc |-> "idle", id |-> 0, tag |-> 0, who |-> Somebody]

Parcel == [id: Ids, tag: Tags, lines: 1..MaxLines]   \* one row of a batch

CreateCall  == [pc: {"idle", "queued", "pair", "total", "rate", "insert"},
                channel: Channels, from: Person, to: Person, lines: 1..MaxLines]
DeliverCall == [pc: {"idle", "queued", "read", "post", "mark", "finish"},
                channel: Channels, who: Person, batch: SUBSET Parcel]
CancelCall  == [pc: {"idle", "delete"}, id: Ids \cup {0}, tag: Tags \cup {0}, who: Person]

InCreate(c)  == creator[c].pc \in {"pair", "total", "rate", "insert"}
InDeliver(d) == courier[d].pc \in {"read", "post", "mark", "finish"}

Busy == {c \in Creators : creator[c].pc # "idle"}

Init ==
  /\ tells  = [i \in Ids |-> NoRow]
  /\ spent  = [k \in Keys |-> 0]
  /\ createLock  = NoTask
  /\ deliverLock = NoTask
  /\ creator   = [c \in Creators |-> IdleCreator]
  /\ courier   = [d \in Couriers |-> IdleCourier]
  /\ canceller = [x \in Cancellers |-> IdleCanceller]
  /\ faults = 0
  /\ births = 0
  /\ issued = [i \in Ids |-> 0]
  /\ posts  = [t \in Tags |-> 0]
  /\ lost   = [t \in Tags |-> 0]
  /\ whole = {}
  /\ withdrawn = {}

-----------------------------------------------------------------------------
(* create(): refusals before the lock change nothing and are the guard of  *)
(* Tell; after it, the call counts the pair, counts the recipient, asks    *)
(* the rate limiter, inserts.  Leaving the "async with" gives the lock up. *)

\* The call is made and waits for _create_lock.  MaxTells bounds the tells
\* created, those in flight included, so that Insert is never blocked.
Tell(c, ch, from, to, n) ==
  /\ creator[c].pc = "idle"
  /\ births + Cardinality(Busy) < MaxTells
  /\ ch \in TellChannels
  /\ to.nick # BotNick
  /\ creator' = [creator EXCEPT ![c] =
                   [pc |-> "queued", channel |-> ch, from |-> from, to |-> to, lines |-> n]]
  /\ UNCHANGED <<store, spent, createLock, deliverLock, courier, canceller, faults, history>>

\* Mutant: create() without its lock.
AcquireCreateUnlocked(c) ==
  /\ creator[c].pc = "queued"
  /\ createLock' = c
  /\ creator' = [creator EXCEPT ![c].pc = "pair"]
  /\ UNCHANGED <<store, spent, deliverLock, courier, canceller, faults, history>>

\* Mutant: the rate limiter is asked before the caps are looked at.
AcquireCreateRateFirst(c) ==
  /\ creator[c].pc = "queued"
  /\ createLock = NoTask
  /\ createLock' = c
  /\ creator' = [creator EXCEPT ![c].pc = "rate"]
  /\ UNCHANGED <<store, spent, deliverLock, courier, canceller, faults, history>>

AcquireCreate(c) ==
  /\ creator[c].pc = "queued"
  /\ createLock = NoTask
  /\ createLock' = c
  /\ creator' = [creator EXCEPT ![c].pc = "pair"]
  /\ UNCHANGED <<store, spent, deliverLock, courier, canceller, faults, history>>

\* The call ends and gives the lock up.
LeaveCreate(c) ==
  /\ creator' = [creator EXCEPT ![c] = IdleCreator]
  /\ createLock' = NoTask

GoOn(c, pc) ==
  /\ creator' = [creator EXCEPT ![c].pc = pc]
  /\ createLock' = createLock

\* The count of the sender's own tells for this recipient.
CountPair(c) ==
  LET call == creator[c] IN
  /\ call.pc = "pair"
  /\ IF PairCount(tells, call.channel, call.to, ActorKey(call.from)) >= PairCap
     THEN LeaveCreate(c)
     ELSE GoOn(c, "total")
  /\ UNCHANGED <<store, spent, deliverLock, courier, canceller, faults, history>>

\* The count of all tells for this recipient.
CountTotal(c) ==
  LET call == creator[c] IN
  /\ call.pc = "total"
  /\ IF TotalCount(tells, call.channel, call.to) >= RecipientCap
     THEN LeaveCreate(c)
     ELSE GoOn(c, "rate")
  /\ UNCHANGED <<store, spent, deliverLock, courier, canceller, faults, history>>

\* Mutant: one entry too many.
CheckRateOffByOne(c) ==
  LET key == ActorKey(creator[c].from) IN
  /\ creator[c].pc = "rate"
  /\ \/ /\ spent[key] > RateLimit
        /\ LeaveCreate(c)
        /\ UNCHANGED spent
     \/ /\ spent[key] <= RateLimit
        /\ spent' = [spent EXCEPT ![key] = @ + 1]
        /\ GoOn(c, "insert")
  /\ UNCHANGED <<store, deliverLock, courier, canceller, faults, history>>

\* _check_rate(): refuse a key whose window is full, else use up one entry.
\* The sweep inside it only drops entries that no longer count.
CheckRate(c) ==
  LET key == ActorKey(creator[c].from) IN
  /\ creator[c].pc = "rate"
  /\ \/ /\ spent[key] >= RateLimit
        /\ LeaveCreate(c)
        /\ UNCHANGED spent
     \/ /\ spent[key] < RateLimit
        /\ spent' = [spent EXCEPT ![key] = @ + 1]
        /\ GoOn(c, "insert")
  /\ UNCHANGED <<store, deliverLock, courier, canceller, faults, history>>

NewRow(call) ==
  [tag |-> births + 1, channel |-> call.channel, key |-> ActorKey(call.from),
   nick |-> call.to.nick, acct |-> call.to.acct, lines |-> call.lines,
   delivered |-> FALSE, stale |-> FALSE]

Insert(c) ==
  /\ creator[c].pc = "insert"
  /\ births < MaxTells
  /\ births' = births + 1
  /\ \E i \in Ids : /\ IsNextId(tells, i)
                    /\ tells' = [tells EXCEPT ![i] = NewRow(creator[c])]
                    /\ issued' = [issued EXCEPT ![i] = @ + 1]
  /\ LeaveCreate(c)
  /\ UNCHANGED <<spent, deliverLock, courier, canceller, faults, history>>

\* A database call of create() raises; "async with" releases the lock.
CreateFails(c) ==
  /\ creator[c].pc \in {"pair", "total", "insert"}
  /\ faults < MaxFaults
  /\ faults' = faults + 1
  /\ LeaveCreate(c)
  /\ UNCHANGED <<store, spent, deliverLock, courier, canceller, history>>

\* The oldest entry of a key's history leaves the rate window.
WindowSlides(key) ==
  /\ spent[key] > 0
  /\ spent' = [spent EXCEPT ![key] = @ - 1]
  /\ UNCHANGED <<store, createLock, deliverLock, creator, courier, canceller, faults, history>>

-----------------------------------------------------------------------------
(* deliver(), called by _maybe_deliver_tells for every presence event.     *)
(* The lock is held over the whole read - post - mark sequence.            *)

\* A presence event of anybody but the bot.  The account is the one in the
\* cache at this moment, hence any that goes with the nick in People.
Arrive(d, ch, who) ==
  /\ courier[d].pc = "idle"
  /\ who.nick # BotNick
  /\ courier' = [courier EXCEPT ![d] =
                   [pc |-> "queued", channel |-> ch, who |-> who, batch |-> {}]]
  /\ UNCHANGED <<store, spent, createLock, deliverLock, creator, canceller, faults, history>>

\* Mutant: deliver() without its lock.
AcquireDeliverUnlocked(d) ==
  /\ courier[d].pc = "queued"
  /\ deliverLock' = d
  /\ courier' = [courier EXCEPT ![d].pc = "read"]
  /\ UNCHANGED <<store, spent, createLock, creator, canceller, faults, history>>

AcquireDeliver(d) ==
  /\ courier[d].pc = "queued"
  /\ deliverLock = NoTask
  /\ deliverLock' = d
  /\ courier' = [courier EXCEPT ![d].pc = "read"]
  /\ UNCHANGED <<store, spent, createLock, creator, canceller, faults, history>>

\* Mutant: an early return keeps the lock.
LeaveDeliverLocked(d) ==
  /\ courier' = [courier EXCEPT ![d] = IdleCourier]
  /\ deliverLock' = deliverLock

LeaveDeliver(d) ==
  /\ courier' = [courier EXCEPT ![d] = IdleCourier]
  /\ deliverLock' = NoTask

\* ORDER BY created_at, id: creation order.  The first DeliverMax of ids.
Oldest(ids) ==
  {i \in ids : Cardinality({j \in ids : tells[j].tag < tells[i].tag}) < DeliverMax}

ParcelOf(i) == [id |-> i, tag |-> tells[i].tag, lines |-> tells[i].lines]

\* The rows are read once; what happens to them later is not seen.
ReadPending(d) ==
  LET ids == PendingFor(tells, courier[d].channel, courier[d].who) IN
  /\ courier[d].pc = "read"
  /\ \/ /\ ids = {}
        /\ LeaveDeliver(d)
     \/ /\ ids # {}
        /\ courier' = [courier EXCEPT ![d].pc = "post",
                                      ![d].batch = {ParcelOf(i) : i \in Oldest(ids)}]
        /\ UNCHANGED deliverLock
  /\ UNCHANGED <<store, spent, createLock, creator, canceller, faults, history>>

ReadFails(d) ==
  /\ courier[d].pc = "read"
  /\ faults < MaxFaults
  /\ faults' = faults + 1
  /\ LeaveDeliver(d)
  /\ UNCHANGED <<store, spent, createLock, creator, canceller, history>>

\* The row the loop is at: the oldest of what is left of the batch.
IsCurrent(d, p) == /\ p \in courier[d].batch
                   /\ \A q \in courier[d].batch : p.tag <= q.tag

\* The next row, or out of the loop.
NextParcel(d, p) ==
  LET rest == courier[d].batch \ {p} IN
  courier' = [courier EXCEPT ![d].pc = IF rest = {} THEN "finish" ELSE "post",
                             ![d].batch = rest]

\* irc_send() puts n of the lines on the wire and returns n; it stops at the
\* first line that fails and raises nothing.
Post(d, p, n) ==
  /\ courier[d].pc = "post"
  /\ IsCurrent(d, p)
  /\ n \in 1..p.lines
  /\ courier' = [courier EXCEPT ![d].pc = "mark"]
  /\ posts' = [posts EXCEPT ![p.tag] = @ + 1]
  /\ whole' = IF n = p.lines THEN whole \cup {p.tag} ELSE whole
  /\ UNCHANGED <<store, spent, createLock, deliverLock, creator, canceller, faults,
                 lost, withdrawn>>

\* Mutant: the return value of irc_send() is not looked at.
PostUnchecked(d) ==
  /\ courier[d].pc = "post"
  /\ courier' = [courier EXCEPT ![d].pc = "mark"]
  /\ UNCHANGED <<store, spent, createLock, deliverLock, creator, canceller, faults, history>>

\* Mutant: after a failed send the loop goes on with the next row.
PostSkips(d) ==
  /\ courier[d].pc = "post"
  /\ \E p \in courier[d].batch : IsCurrent(d, p) /\ NextParcel(d, p)
  /\ UNCHANGED <<store, spent, createLock, deliverLock, creator, canceller, faults, history>>

\* It returned 0 (or raised): break, everything not posted stays pending.
PostNothing(d) ==
  /\ courier[d].pc = "post"
  /\ courier' = [courier EXCEPT ![d].pc = "finish", ![d].batch = {}]
  /\ UNCHANGED <<store, spent, createLock, deliverLock, creator, canceller, faults, history>>

\* UPDATE tells SET delivered_at = now WHERE id = ?: whichever row has it.
Mark(d, p) ==
  /\ courier[d].pc = "mark"
  /\ IsCurrent(d, p)
  /\ tells' = IF tells[p.id] # NoRow
              THEN [tells EXCEPT ![p.id].delivered = TRUE, ![p.id].stale = FALSE]
              ELSE tells
  /\ NextParcel(d, p)
  /\ UNCHANGED <<births, issued, spent, createLock, deliverLock, creator, canceller,
                 faults, history>>

\* The UPDATE raises: posted but not marked, go on with the next row.
MarkFails(d, p) ==
  /\ courier[d].pc = "mark"
  /\ IsCurrent(d, p)
  /\ faults < MaxFaults
  /\ faults' = faults + 1
  /\ lost' = [lost EXCEPT ![p.tag] = @ + 1]
  /\ NextParcel(d, p)
  /\ UNCHANGED <<store, spent, createLock, deliverLock, creator, canceller, posts, whole,
                 withdrawn>>

\* The "(+N more)" notice if there is one to give, and out of the lock.
Finish(d) ==
  /\ courier[d].pc = "finish"
  /\ LeaveDeliver(d)
  /\ UNCHANGED <<store, spent, createLock, creator, canceller, faults, history>>

-----------------------------------------------------------------------------
(* cancel(): SELECT the row, decide, DELETE by id.  It takes no lock.      *)

\* _cmd_untell: operators may withdraw any tell, others their own.
IsOperator(who) == who.acct \in Operators

\* Mutant: anybody may withdraw any tell.
AnybodyMayCancel(who, row) == TRUE

MayCancel(who, row) == IsOperator(who) \/ row.key = ActorKey(who)

\* A refusal (no such row here, delivered already, not yours) changes nothing.
CancelRead(x, ch, i, who) ==
  /\ canceller[x].pc = "idle"
  /\ tells[i] # NoRow
  /\ tells[i].channel = ch
  /\ ~tells[i].delivered
  /\ MayCancel(who, tells[i])
  /\ canceller' = [canceller EXCEPT ![x] =
                     [pc |-> "delete", id |-> i, tag |-> tells[i].tag, who |-> who]]
  /\ UNCHANGED <<store, spent, createLock, deliverLock, creator, courier, faults, history>>

\* DELETE WHERE id = ?; the author is told that the tell read is cancelled.
CancelDelete(x) ==
  /\ canceller[x].pc = "delete"
  /\ tells' = [tells EXCEPT ![canceller[x].id] = NoRow]
  /\ withdrawn' = withdrawn \cup {canceller[x].tag}
  /\ canceller' = [canceller EXCEPT ![x] = IdleCanceller]
  /\ UNCHANGED <<births, issued, spent, createLock, deliverLock, creator, courier, faults,
                 posts, whole, lost>>

\* The DELETE raises.
CancelFails(x) ==
  /\ canceller[x].pc = "delete"
  /\ faults < MaxFaults
  /\ faults' = faults + 1
  /\ canceller' = [canceller EXCEPT ![x] = IdleCanceller]
  /\ UNCHANGED <<store, spent, createLock, deliverLock, creator, courier, history>>

-----------------------------------------------------------------------------
(* Time, retention, restart.                                               *)

\* A row goes out of date: its expires_at passes if it waits, the retention
\* period if it was delivered.  All tells live equally long, so those that
\* wait expire in creation order.
GoStale(i) ==
  /\ tells[i] # NoRow
  /\ ~tells[i].stale
  /\ ~tells[i].delivered =>
       \A j \in Ids : Pending(tells[j]) => tells[i].tag <= tells[j].tag
  /\ tells' = [tells EXCEPT ![i].stale = TRUE]
  /\ UNCHANGED <<births, issued, spent, createLock, deliverLock, creator, courier,
                 canceller, faults, history>>

\* prune(), run hourly by the scheduler: one DELETE of all that is stale.
Prune ==
  /\ \E i \in Ids : tells[i] # NoRow /\ tells[i].stale
  /\ tells' = [i \in Ids |-> IF tells[i] # NoRow /\ tells[i].stale THEN NoRow ELSE tells[i]]
  /\ UNCHANGED <<births, issued, spent, createLock, deliverLock, creator, courier,
                 canceller, faults, history>>

\* The tell t has been posted, and its row has yet to be marked.
Unmarked(t) == \E d \in Couriers : /\ courier[d].pc = "mark"
                                   /\ \E p \in courier[d].batch : IsCurrent(d, p) /\ p.tag = t

\* The process dies and starts again: the table survives, nothing else does.
Crash ==
  /\ faults < MaxFaults
  /\ faults' = faults + 1
  /\ spent' = [k \in Keys |-> 0]
  /\ createLock' = NoTask
  /\ deliverLock' = NoTask
  /\ creator' = [c \in Creators |-> IdleCreator]
  /\ courier' = [d \in Couriers |-> IdleCourier]
  /\ canceller' = [x \in Cancellers |-> IdleCanceller]
  /\ lost' = [t \in Tags |-> IF Unmarked(t) THEN lost[t] + 1 ELSE lost[t]]
  /\ UNCHANGED <<store, posts, whole, withdrawn>>

-----------------------------------------------------------------------------
CreateStep(c) ==
  CountPair(c) \/ CountTotal(c) \/ CheckRate(c) \/ Insert(c)

DeliverStep(d) ==
  \/ ReadPending(d) \/ Finish(d) \/ PostNothing(d)
  \/ \E p \in courier[d].batch : \/ \E n \in 1..MaxLines : Post(d, p, n)
                                 \/ Mark(d, p)

Next ==
  \/ \E c \in Creators :
       \/ \E ch \in Channels, from \in Authors, to \in People, n \in 1..MaxLines :
            Tell(c, ch, from, to, n)
       \/ AcquireCreate(c) \/ CreateStep(c) \/ CreateFails(c)
  \/ \E d \in Couriers :
       \/ \E ch \in Channels, who \in People : Arrive(d, ch, who)
       \/ AcquireDeliver(d) \/ DeliverStep(d) \/ ReadFails(d)
       \/ \E p \in courier[d].batch : MarkFails(d, p)
  \/ \E x \in Cancellers :
       \/ \E ch \in Channels, i \in Ids, who \in Authors : CancelRead(x, ch, i, who)
       \/ CancelDelete(x) \/ CancelFails(x)
  \/ \E k \in Keys : WindowSlides(k)
  \/ \E i \in Ids : GoStale(i)
  \/ Prune
  \/ Crash

(***************************************************************************)
(* A task of the event loop that can run does run.  asyncio.Lock hands     *)
(* itself to its waiters in the order they came, so a waiter gets it in    *)
(* the end even if it is free only now and then: strong fairness.  Nothing *)
(* is assumed of people, of time, of failures or of the retention sweep.   *)
(***************************************************************************)
Fairness ==
  /\ \A c \in Creators : SF_vars(AcquireCreate(c)) /\ WF_vars(CreateStep(c))
  /\ \A d \in Couriers : SF_vars(AcquireDeliver(d)) /\ WF_vars(DeliverStep(d))
  /\ \A x \in Cancellers : WF_vars(CancelDelete(x))

Spec == Init /\ [][Next]_vars
FairSpec == Spec /\ Fairness

-----------------------------------------------------------------------------
(* Correctness.                                                            *)

\* Every variable has its type; in particular a rate window never holds more
\* than RateLimit entries (tells.py:303-306).
TypeOK ==
  /\ tells \in [Ids -> Row \cup {NoRow}]
  /\ spent \in [Keys -> 0..RateLimit]
  /\ createLock \in Creators \cup {NoTask}
  /\ deliverLock \in Couriers \cup {NoTask}
  /\ creator \in [Creators -> CreateCall]
  /\ courier \in [Couriers -> DeliverCall]
  /\ canceller \in [Cancellers -> CancelCall]
  /\ faults \in 0..MaxFaults
  /\ births \in 0..MaxTells
  /\ issued \in [Ids -> Nat]
  /\ posts \in [Tags -> Nat]
  /\ lost \in [Tags -> Nat]
  /\ whole \subseteq Tags
  /\ withdrawn \subseteq Tags \cup {0}

WaitingNick(rows, ch, n) ==
  {i \in Ids : Pending(rows[i]) /\ rows[i].channel = ch /\ rows[i].nick = n}
WaitingAccount(rows, ch, a) ==
  {i \in Ids : Pending(rows[i]) /\ rows[i].channel = ch /\ rows[i].acct = a}
FromKey(rows, ids, k) == {i \in ids : rows[i].key = k}

\* The two locks exclude: a call is between "async with" and its end exactly
\* if it holds the lock, also across failures and a restart.
Exclusive ==
  /\ \A c \in Creators : InCreate(c) <=> createLock = c
  /\ \A d \in Couriers : InDeliver(d) <=> deliverLock = d

\* What create() counted stays true until it inserts: the table can only get
\* emptier under it (tells.py:203-209, "both callers read a count one below
\* the cap and both insert").
RoomKept ==
  \A c \in Creators :
    LET call == creator[c] IN
    /\ call.pc \in {"total", "rate", "insert"} =>
         PairCount(tells, call.channel, call.to, ActorKey(call.from)) < PairCap
    /\ call.pc \in {"rate", "insert"} =>
         TotalCount(tells, call.channel, call.to) < RecipientCap

\* However calls of create() interleave with each other, with deliveries and
\* with a restart, no more than RecipientCap tells ever wait for one nick, or
\* for one account, and no more than PairCap of them come from one sender
\* (tells.py:53-58, and the comment on _create_lock at 203-215).
CapsHold ==
  \A ch \in Channels :
    /\ \A n \in Nicks :
         LET waiting == WaitingNick(tells, ch, n) IN
         /\ Cardinality(waiting) <= RecipientCap
         /\ \A k \in Keys : Cardinality(FromKey(tells, waiting, k)) <= PairCap
    /\ \A a \in Accounts :
         LET waiting == WaitingAccount(tells, ch, a) IN
         /\ Cardinality(waiting) <= RecipientCap
         /\ \A k \in Keys : Cardinality(FromKey(tells, waiting, k)) <= PairCap

\* A tell that a cap refuses costs its author nothing: an entry of the rate
\* window is used up only by a call for which, at that moment, both caps have
\* room (tells.py:197-200, "a refusal that costs the caller a slice of their
\* hourly budget would let a griefer burn someone else's budget").
RefusalIsFree ==
  [][\A k \in Keys : spent'[k] > spent[k] =>
       \E c \in Creators :
         LET call == creator[c] IN
         /\ ActorKey(call.from) = k
         /\ TotalCount(tells, call.channel, call.to) < RecipientCap
         /\ PairCount(tells, call.channel, call.to, k) < PairCap]_vars

\* A tell is posted at most once, plus once for every time that marking it
\* failed or the process died between the post and the mark: two presence
\* events close together never post it twice (tells.py:372-375).
OncePerLoss == \A t \in Tags : posts[t] <= 1 + lost[t]

\* A row says "delivered" only if its text reached the channel, unless the id
\* had belonged to another tell before (tells.py:377-380).
SettledWasPosted ==
  \A i \in Ids : tells[i] # NoRow /\ tells[i].delivered /\ issued[i] = 1 => posts[tells[i].tag] > 0

\* Tells for one person come out in the order they were left: when one is
\* posted, every older one still waiting for that person has been posted
\* already (it waits only because the mark failed).  deliver() stops at the
\* first failure rather than skip a row (tells.py:362, 396-412).
OldestFirst ==
  [][\A d \in Couriers, t \in Tags :
       posts'[t] > posts[t] /\ courier[d].pc = "post" /\ courier'[d].pc = "mark" =>
         \A i \in PendingFor(tells, courier[d].channel, courier[d].who) :
           tells[i].tag < t => posts[tells[i].tag] > 0]_vars

\* !untell removes a row only for its author or an operator, unless the id
\* had belonged to another tell before (tells.py:486-511).
OnlyOwnersWithdraw ==
  [][\A x \in Cancellers :
       LET i == canceller[x].id IN
       canceller[x].pc = "delete" /\ tells[i] # NoRow /\ tells'[i] = NoRow /\ issued[i] = 1
         => \/ canceller[x].who.acct \in Operators
            \/ tells[i].key = ActorKey(canceller[x].who)]_vars

\* No call waits for a lock for ever: refusals, failures and early returns
\* give it up (tells.py:203-215, "there is no cycle to deadlock on").
CallsReturn ==
  /\ \A c \in Creators : creator[c].pc # "idle" ~> creator[c].pc = "idle"
  /\ \A d \in Couriers : courier[d].pc # "idle" ~> courier[d].pc = "idle"

-----------------------------------------------------------------------------
(* Claims of the repository's comments that the code does not keep.        *)

\* "delivered_at is set AFTER a successful send, never before ... a silently
\* lost one defeats the feature" (tells.py:377-380), for every row.
DeliveredWasPosted ==
  \A i \in Ids : tells[i] # NoRow /\ tells[i].delivered => posts[tells[i].tag] > 0

\* "Withdraw a tell before it is delivered ... that message is out, and
\* pretending otherwise would be worse than saying so" (tells.py:486-489):
\* a tell whose author was told "cancelled" is not in the channel.
CancelledIsNotPosted == \A t \in withdrawn \cap Tags : posts[t] = 0

\* "A wire failure therefore leaves the row pending and it retries on their
\* next activity" (tells.py:377-378): what is marked has been said in full.
\* Fails as soon as MaxLines > 1; no run repeats that.
DeliveredWasWhole ==
  \A i \in Ids : tells[i] # NoRow /\ tells[i].delivered /\ issued[i] = 1 => tells[i].tag \in whole

-----------------------------------------------------------------------------
(* What the relay implements: a mailbox where leaving a tell is one step.  *)

Card(row) == [tag |-> row.tag, channel |-> row.channel, key |-> row.key,
              nick |-> row.nick, acct |-> row.acct]

Mailbox == INSTANCE TellMailbox WITH
             box <- {Card(tells[i]) : i \in {j \in Ids : Pending(tells[j])}},
             left <- births,
             said <- posts,
             repeats <- lost

\* Create calls are atomic and capped, and nothing is said that was not left.
ImplementsMailbox == Mailbox!Spec
=============================================================================
