# A verification development of the Agentic IRC Bot

The bot (`src/bot/`, one Python process, one asyncio event loop, one SQLite
file) sits in IRC channels, answers mentions with an LLM that calls tools, runs
multi-step background tasks, relays messages to absent people, fires reminders
and chimes in by itself. Nothing in it runs in parallel, but everything is
concurrent: every `await` is a point where any other coroutine may run, and the
process may die at any of them. This directory models the parts where that
matters, checks them with TLC and proves their safety with TLAPS.

## 1. Inventory

| Component | State | Operations | Hard behaviours | What makes it correct |
|---|---|---|---|---|
| **Tell relay** `tells.py`, `tools/tell.py`, handlers in `ircclient.py` | table `tells`, rate history, two locks | `create`, `deliver`, `cancel`, `list_from`, `prune` | concurrent creations against caps; two presence events at once; post before mark; withdrawal during a delivery; reuse of row ids; failures of wire and database; restart | caps hold; a refusal is free; posted once per loss; never settled unposted; oldest first; only owners withdraw |
| **Task runner** `tasks.py`, `_cmd_issue_task`, `_cmd_cancel_task` | table `tasks`, `_running`, one cancel event per task | `issue_task`, `cancel_task`, `_run_task`, `startup_cleanup`, `shutdown_all` | cancel against progress; hard cancel at any await; crash between insert, run, store and post; commands that pass the shutdown gate late | status goes forward only; no ghost `running` row; what the channel was told is what the row says; the drain leaves no task unsettled |
| **Agent loop** `agent.py` | messages, step, deadline, per-turn caps | `run_reply_turn`, `run_task_turn`, `_run_loop`, `_summarise_and_bail` | a semaphore shared by all turns, repairs that use up steps, a model that never stops | a turn never exceeds its steps; a cancel is cheap; every answered turn ends |
| **Start and tear-down** `main.py`, `await_inflight` | shutdown event, connection | `run`, `main` | two graces, each racing the turns it waits for; turns left over when the loop closes | the process ends even if nothing answers |
| **Reminders and scheduler** `scheduler.py`, `set_reminder` | table `reminders`, loops | `_reminder_loop`, `_fire_channel_batch`, `_fire_reminder`, prunes, ticks, `stop` | post before delete; a fire cap that drops rows; cancellation in mid-batch; restart with overdue rows | fired once per loss; bounded burst; nothing dropped unannounced; nothing due for ever |
| **Goodbyes and ticks** `scheduler.py` | one coroutine per channel, permits of the chat semaphore | `_tick_loop`, `_do_tick`, `stop`, `say_goodbyes`, `_say_goodbye_in` | concurrent LLM calls under one deadline; cancels at any await; ticks cut off in the middle of a post | the farewell is the last word; ends in time; no permit lost; a failure does not end the ticks |
| **Memory** `memory.py`, `tools/memory_tools.py` | table `memories`, counters, `_inflight` | `add`, `forget`, `recall`, `extract_and_store`, `note_message` | check-then-insert over several awaits; one extractor per channel; two forgets of one row; a crash between flag and audit | duplicates bounded by what overlaps; one extraction at a time; extraction goes on; the audit agrees with the table |
| **Account and op cache** `auth.py`, hooks in `ircclient.py` | nick -> account with expiry, ops per channel | remember, get, rename, forget, resync | answers of WHOIS that arrive after a rename or a quit; nicks that change hands out of sight; turns that outlast the identity they started with | nobody inherits another's account or flag; no privilege long after its loss |
| **Rate limiters** `define.py`, `irc_native.py`, `memory_tools.py` | timestamps per key | check and record, sweep | sweep against use, window edge | never more than the limit in any window |
| **IRC-native tools, tool-call protocol** `tools/irc_native.py`, `agent.py:532-609` | per-turn counts, last call | validate, detect loops, cap, call | a gate that reads the present flag and the account of the past | no call beyond its cap; nobody else's privilege |
| Event routing, policy, DM gate `ircclient.py`, `policy.py` | shutdown event | `on_message`, dispatch, `irc_send` | order of gates | in the modules above, as their gates or their environment |
| Database wrapper `db.py` | one connection | one statement, one commit | row ids are reused | one atomic action that may raise |
| URL safety, information tools, configuration, prompts | none or constant | | sequential | not modelled |

Interactions: `ircclient` dispatches every command and presence event as a
coroutine of its own; these call `TellStore` and `TaskRunner`, whose coroutines
call back `irc_send`. Turns of tasks and replies share one semaphore around
LLM calls. The hourly sweep of the reminder loop prunes the tells. `main.run`
builds everything and, when the shutdown event is set, stops it in the order
replies, scheduler, tasks, goodbyes, QUIT, database.

## 2. The modules

Ordered by what is persistent and seen by users. Each row is a module, an MC module
that gives it small instances, and a module of proofs.

| Module | Component | Proofs |
|---|---|---|
| `TellRelay`, implementing `TellMailbox` | tell relay and its callers | `TellRelayProofs`, `TellDeliveryProofs` |
| `TurnLifecycle`, implementing `TaskLedger` | tasks, replies, agent loop, start and tear-down | `TurnLifecycleProofs` |
| `Reminders`, implementing `ReminderOutbox` | `set_reminder`, the poll loop, the fire cap, the sweep | `RemindersProofs`, `ReminderOutboxProofs` |
| `Identity` | account and op cache, DM, task and quit gates, `set_topic` | `IdentityProofs` |
| `Memory`, implementing `MemoryNotebook` | memory store and writer, `remember`, `forget` | `MemoryProofs` |
| `Voices` | initiative ticks, goodbyes, scheduler stop | `VoicesProofs` |

The modules do not import each other: what two of them share (the permits, the
tear-down, the gates) is in each of them with the other's side left open. So
`TurnLifecycle` leaves open who passes a `!task` gate that `Identity` decides. The permits
of `chat_sem` are in two modules: `TurnLifecycle` has the turns, and ticks, farewells,
extractions and `!define` as `others`; `Voices` has ticks and farewells, and turns,
extractions and `!define` as `others`. In both, `others` may keep a permit for ever.

The abstract specifications (`TellMailbox`, `TaskLedger`, `ReminderOutbox`,
`MemoryNotebook`) say what a component promises without its locks, awaits,
polls and stages. Each is a property of a run and a theorem.

Worth adding: the repairs and the loop detector inside a step of the agent loop; what
a person could rely on as one abstract specification of `Identity`.

## 3. `TellRelay`

State: `tells` is the table, from ids to rows; `spent` the rate history reduced
to the number of entries in the window; `createLock` and `deliverLock` the two
`asyncio.Lock`s; `creator`, `courier`, `canceller` the locals of concurrent calls
of `create`, `deliver` and `cancel`, with a `pc` that names the await each stands
at. `births`, `issued`, `posts`, `whole`, `lost`, `withdrawn` are history (`births`
also numbers the tells, so that two tells given the same id can be told apart).

| Actions | Code |
|---|---|
| `Tell`, `AcquireCreate`, `CountPair`, `CountTotal`, `CheckRate`, `Insert`, `CreateFails` | `create` and `_check_rate`, one action per await; every refusal leaves the lock |
| `Arrive`, `AcquireDeliver`, `ReadPending`, `Post`, `PostNothing`, `Mark`, `MarkFails`, `Finish`, `ReadFails` | the presence hooks and `deliver`; `Post(d, p, n)` is `irc_send` putting n of the lines on the wire |
| `CancelRead`, `CancelDelete`, `CancelFails` | `cancel`: it takes no lock |
| `Prune`, `GoStale`, `WindowSlides` | the hourly sweep, the expiry of a row, the passing of time in a rate window |
| `Crash` | the process dies and restarts; the table survives |

The sweep of the rate history (`tells.py:288-299`) forgets keys without an entry in the
window, whose `spent` is 0, so it leaves this state alone; that such a sweep loses no entry
is checked with real timestamps for the limiter of the same shape in `Reminders` (`RateHolds`).
Dates are reduced to "stale or not" with tells expiring in creation order, which
is exact because all live equally long. A key of the sender is its account or its
nick in a namespace of its own, as in `actor_key`. Text is reduced to its
number of wire lines. The audit log is left out (it swallows its failures).

Abstract specification: `TellMailbox` has neither locks nor calls; leaving a tell
is one step that checks both caps. `TellRelay` implements it with the tells that
wait for `box` and the post counts for `said` (`ImplementsMailbox`).

| Run | Shows |
|---|---|
| `tell_caps` | two concurrent creations by two authors for dave under two nicks with and without account, four tells, one failure or restart: `CapsHold`, `RefusalIsFree`, `ImplementsMailbox`. Caps 1 and 2 and rate 1 are the smallest at which a cap, then the other, then the rate refuses. |
| `tell_delivery` | two couriers, one creator, one canceller (author or operator), two tells, one fault: `Exclusive`, `OncePerLoss`, `SettledWasPosted`, `OldestFirst`, `OnlyOwnersWithdraw`, and `CallsReturn` under fairness. Two tells suffice for an id to be reused and for order to matter. |
| `tell_cancel_race`, `tell_id_reuse` | two claims of comments that the code does not keep, see section 10. |

`tell_caps` is checked with `CHECK_DEADLOCK FALSE` and without couriers and
cancellers: once its four tells are created nothing is left to do. It uses the
symmetry of the interchangeable calls, which only its safety properties rely on.

Fairness (`Fairness`): a coroutine that can run does (weak); `asyncio.Lock` serves
its waiters in order, so a waiter gets the lock (strong). Failures are finitely many (`MaxFaults`). Nothing
is assumed of people, the wire, expiry or the sweep. That a person who keeps coming
back is told everything at last is not a property: it rests on `OldestFirst`, no later
tell passing an earlier one, and on `CallsReturn`, each arrival coming to its end.

Bounds: `MaxTells` tells per behaviour and `MaxFaults` failures and crashes;
both are guards of the model and constants of the theorems.

## 4. `TurnLifecycle`

State: `row`, the status column; `turn`, where each turn stands and its locals;
`event`, the set cancel events; `killed`, the turns into which asyncio is about to
throw `CancelledError`; `stage`, how far `run()` is; `waiting`, the snapshot that
`await_inflight` or `shutdown_all` waits for; `others`, the permits of the chat semaphore
that ticks, farewells, extractions and `!define` hold. History: `told`, `late`, `unsaved`.

| Actions | Code |
|---|---|
| `AskTask`, `IssueFails`, `Insert`, `Spawn`, `CancelTask` | `on_message`, `_cmd_issue_task`, `issue_task`, `cancel_task` |
| `Begin`, `BeginFails`, `Persist`, `PersistFails`, `Post` | `_run_task`, `_persist_outcome`, `_post_result` |
| `AskReply`, `Engage`, `Dropped`, `BeginReply`, `Post` | `on_message`, the DM gate, `run_reply_turn`, `_handle_engagement` |
| `EnterStep`, `StartCall`, `Acquire`, `Answer`, `CallFails`, `GiveText`, `NextStep` | `_run_loop` and `_summarise_and_bail` around the chat semaphore |
| `Interrupt` and its four cases | `CancelledError` at the await the turn stands at |
| `Boot`, `Sweep`, `Connect`, `CleanupFails`, `BeginShutdown`, `GraceTimeout`, `GraceOver`, `StartDrain`, `DrainTimeout`, `DrainOver`, `Close`, `Exit` | `run()` and `main()` |
| `OthersCall`, `OthersReturn` | other users of `chat_sem` (`scheduler.py`, `memory.py`, `define.py`) |
| `Crash` | death of the process at any point |

What the LLM answers is open: text, a failure, tool calls, a call in text format
that is repaired; the deadline may pass at the top of any step but the first.
`asyncio.wait_for` cancels what it waits for at its timeout and waits for that to
be over, and `gather` hands the cancel to its children: hence `GraceTimeout`
interrupts replies and `DrainTimeout` interrupts tasks, and the code's own list of
tasks to cancel after it is empty. A `!task` or mention that passed the shutdown
gate may still spawn its turn afterwards; `main()` closes the loop without
cancelling such turns, which is `Exit`.

`startup_cleanup` settles one row after the other (`Sweep`), and `run()` connects when none
is left (`Connect`), or when the query or an UPDATE raised (`CleanupFails`): `run()` logs
that and goes on, with the rows that are left still `running`. Only in that case are these
rows excused by `unsaved`. A crash may come between two rows; the next start goes on.

A turn that finds a permit free may still have to queue, behind a waiter of the others. Who
of them comes when is left open: they may pass turns that wait, as those that came before
them do in the code.

Abstract specification: `TaskLedger` has neither loop nor semaphore, no stages and no
handlers. A task is entered, begun once, settled once, and its channel hears at most
once, of what the ledger says; a restart leaves tasks that nobody works on, and the
cleanup settles them. `TurnLifecycle` implements it with `row` for the
ledger, the turns in the loop or before their last write for those who work,
`told` for what was heard and `unsaved` for the tasks of which a write, their own or the
cleanup's, failed or was cut short: only those are excused (`ImplementsLedger`). It says more than
`StatusOnlyForward`, which is still proved.

| Run | Shows |
|---|---|
| `turns` | two tasks and a reply, one permit that others take, too, step caps 2 and 1; cancels, failures, shutdown, crash and restart anywhere: `RunningIsAlive`, `ToldIsStored`, `DrainSettles`, `CancelIsCheap`, `ImplementsLedger`. Two steps are the least with a middle and a last one; with three turns and the others two queue behind one; with two tasks a cleanup can fail, or be cut off by a crash, between two rows, and a drain can wait for one task while another comes too late for its snapshot. |
| `turns_live` | a task and a reply, one permit that others take, too, step caps 3 and 2: `ShutdownEnds`, `AnsweredTurnsEnd`. Both turns can queue while others hold the permit; they meet only there and in the tear-down. |
| `turns_cancel` | a claim of a comment that the code does not keep, see section 10. |

Fairness: coroutines that can go on do, database calls and posts return, the two
timeouts of the tear-down fire (weak); the semaphore serves its queue in order
(strong). LLM and tools owe no answer: `ShutdownEnds` holds without any, and
`AnsweredTurnsEnd` has the answers as its hypothesis `AnswersCome`, those to the
others included: whoever holds a permit gives it back. Each task id is
used once, so behaviours are finite in tasks but not in restarts, and no state
is a deadlock.

## 5. `Reminders`

State: `reminders` is the table; `rateHistory`, `lastSweep` the limiter of
`set_reminder`; `setter` the calls between their charge and their INSERT; `loop` the
locals of the one reminder loop, with `todo` the fetched rows of the channels
still to come, `fire`, `posted` and `excess` the parts of the current batch;
`lastPrune`; `now`, one clock for the wall clock of the rows and the monotonic clock
of the limiter and the sweep (no clock goes backwards here). `accepted`, `charges`,
`posts`, `lost`, `tried`, `dropped`, `announced` and `burst` are history (`accepted`
also numbers the reminders).

| Actions | Code |
|---|---|
| `SetReminder`, `Refuse`, `Insert`, `InsertFails` | `_set_reminder` and `_check_reminder_rate`; the check has no await inside and is one step, the INSERT another |
| `Poll`, `PollFails`, `StartBatch`, `EndBatch`, `EndCycle` | `_reminder_loop`, `due_reminders`, the grouping by channel, `_fire_channel_batch` |
| `Post`, `PostNothing`, `Delete`, `DeleteFails` | `_fire_reminder`: a line or more on the wire, or none |
| `Notice`, `Drop`, `DropFails`, `EndDrop` | the part of a batch over the cap |
| `Prune`, `PruneFails`, `EndHousekeeping` | `_prune_old_reminders` and the end of the hourly chores |
| `Stop`, `Restart`, `Tick` | `stop()` cancels the loop at any await; the process dies or exits and starts again; time passes |

Left out: rows without a message or with an unreadable payload (`set_reminder` writes
none), text and target nick, the other chores of the hour (the sweep of the
tells is `Prune` of `TellRelay`). `Tick` lets at most `MaxDelay` pass during one cycle
or one INSERT: both take seconds, the retention is seven days
(`RetentionAssumption`).

Abstract specification: `ReminderOutbox` is an outbox behind a rate limit, without ids,
polls, batches and sweeps. Its limiter forgets nothing and counts what lies in the
window; a reminder is said when it is due, at most `FireCap` to a channel in a round,
and again only if saying it was not written down. `Reminders` implements it with
`charges` for the calls let through, the table's rows for `box` and `burst` for the
round (`ImplementsOutbox`). It says more than `OncePerLoss`, which is still proved:
that nothing is posted early or without having been kept, and that the pruned and swept
history of the code refuses exactly what a complete one would.

| Run | Shows |
|---|---|
| `reminders` | two concurrent calls, two channels, two reminders over a cap of one per cycle, one failure or restart, three ticks: `RateHolds`, `BatchIsCurrent`, `ImplementsOutbox`, `BurstBounded`, `RowLeavesForCause`, `DueIsSettled`. Two reminders are enough for a batch over the cap, for an id to be used again while the other row is held by the loop, and for a window with one call too many (limit 1); three ticks for a row to become due in mid-cycle and to pass a retention of two. |
| `reminders_flood` | a claim of a comment that the code does not keep, see section 10. |

`CHECK_DEADLOCK FALSE`: a loop that was stopped, at the end of time and with no
restart left, really has nothing to do.

Fairness: the loop goes on while it is not stopped (weak); a post succeeds again and
again (strong), that is, the connection comes back. Failures of the database are
finitely many (`MaxFaults`), failures of the wire are not bounded.

## 6. `Identity`

State: the network (`nickOf`, `login`, `present`, `chanops`), the bot's picture of it
(`cache` and `ops` of `AuthManager`), and `call`, the requests with the locals of
their handlers. `since`, `opped` and `blamed` are history: how long ago each person was
last logged in to each account, who has had +o, and the nicks whose picture may
be about somebody else because they changed hands while the holder was in no
channel of the bot, or while a WHOIS about them was under way.

| Actions | Code |
|---|---|
| `AskKnown`, `AskServer`, `WhoisReply`, `Answered`, `WhoisFails` | `on_message` and the command handlers up to their gate, `_ensure_account_known`, `on_raw_330` |
| `Read` | `cached_account_or_none` of everybody else: an expired entry is popped |
| `SetTopic`, `Finish` | `_set_topic` behind `_check_tier5_cap`, in a turn that keeps the account it started with; the end of the turn |
| `RenameSeen`, `QuitSeen`, `Leave`, `Join`, `Mode`, `Services` | `on_nick_change`, `on_quit`, `on_part` and `on_kick`, `on_join`, `on_mode_change`, `on_account_change` |
| `Refresh` | `_refresh_channel_op_state` and `resync_channel_ops` |
| `Connect`, `RenameUnseen`, `QuitUnseen`, `Away`, `Tick` | what the bot does not see, or does not hear of; time |

`DmAllows`, `CanIssueTasks` and `Allows` are the gates of `_should_engage_dm`,
`ChannelPolicy.can_issue_tasks` and `_cmd_quit`. There is one channel: entries are not
per channel and flags of two channels never meet. `Refresh` is one step: the two
seconds between NAMES and the re-read end with what the server says by then.
Time is counted in ticks; ages are not counted beyond the point where they stop to
matter. `Tick` waits for a handler whose answer is in (the loop resumes it at
once), never for a WHOIS, which may take any time. What `whois()` returns under
"account" is the library's affair: the truth or nothing.

| Run | Shows |
|---|---|
| `identity` | an operator and a stranger, two nicks that either can take, lifetimes of 1 and 2 ticks, a request at a time, DM gate "operators", tasks for "ops", one topic a turn: `NoInheritance`, `RankIsRecent`, `RankIsOwn`. Two people and two nicks are the least with which a nick is passed on; the lifetimes differ, so that the shorter one matters. Requests meet only in the cache, and the properties are proved for any number of them. |

What `blamed` excludes is real: a nick that is taken over while its holder is out of sight
keeps its entry until it expires, with the privilege, and a WHOIS answer that comes after
that is filed for the new holder. `NoInheritance` and `RankIsOwn` exempt these nicks;
`RankIsRecent` does not, and bounds how long that can last.

## 7. `Memory`

State: the table `memories`; `counters` and `inflight` of `MemoryWriter`; `proc`, the
await at which each turn's tool call and each extraction run stands. `trail` is
history: for each id, whether the audit table has it as forgotten, or lost it.

| Actions | Code |
|---|---|
| `Hear`, `Fire` | `note_message`: counted, counted and skipped, or fired |
| `Extract`, and `Embed`, `Compare`, `Insert` of a run | `extract_and_store` and `add` for one fact after the other |
| `Remember`, and `Embed`, `Compare`, `Insert` of a turn | the tool `remember` |
| `Forget`, `Look`, `Check`, `Flag`, `Audit` | the tool `forget`, `MemoryStore.forget`, `log_audit` |
| `Crash` | the process dies and restarts; the table survives |

Every query may raise. Contents are equal when their vectors are as similar as the
threshold asks (similarity is not transitive in general: the facts of an
instance are far apart from each other). What the model extracts is open.
`recall` only reads; it may return a row that was forgotten while it was embedding.

Abstract specification: `MemoryNotebook` has a notebook for each channel and a register of
what was struck out. Who writes has seen, since its own last note, that there is no copy,
and of those who have, one at most is an extraction; a note is struck out by a turn
of its channel, never comes back, and is entered in the register. `Memory`
implements it with the workers before their INSERT for those who may write, the
forgets before and at their audit for what is asked and due (`ImplementsNotebook`). The
check of the channel is what it stands and falls with: it is made before two awaits, and
`MemoryStore.forget` does not repeat it. The register makes it say `AuditTrail`, too, which
is still proved.

| Run | Shows |
|---|---|
| `memory` | two channels with one extraction each, two turns in one of them, batches of two messages, up to two facts, two rows: `OneExtractor`, `CopiesBounded`, `ImplementsNotebook`, `ExtractionGoesOn`. Two turns suffice for two forgets of one row and, with an extraction, for three overlapping adds; two rows for a copy of a fact. |

Fairness: the steps of a run are taken (its LLM call has a timeout of its own, its
queries end). Nothing makes people talk or turns begin: `ExtractionGoesOn` has
both that messages go on and that the process stops crashing as hypotheses.

## 8. `Voices`

State: `stage`, how far the tear-down is; `tick` and `bye`, the await at which each
channel's tick loop and farewell stands; `free` and `others`, the permits of
`chat_sem` that are free and that turns, extractions and `!define` hold; `asked` and `eligible`, the locals of
`say_goodbyes`. `last` is history: what the bot said last by itself in each channel.

| Actions | Code |
|---|---|
| `Wake`, `TickSkips`, `TickReads`, `TickCalls`, `TickAnswered`, `TickLine`, `TickPosted` | `_tick_loop`, `_sleep_with_jitter`, `_do_tick`, `irc_send` line by line |
| `ByeSkips`, `ByeReads`, `ByeCalls`, `ByeAnswered`, `ByeLine`, `ByePosted` | `_say_goodbye_in` |
| `Stop`, `StopReturns` | `Scheduler.stop` |
| `SayGoodbyes`, `AskAbout`, `Part`, `Deadline`, `FarewellsOver` | `say_goodbyes` |
| `TickUnwinds`, `ByeUnwinds` | a cancelled coroutine ends and gives back its permit |
| `OthersCall`, `OthersReturn`, `Network` | turns, extractions and `!define`; the bot's own joins and parts |

| Run | Shows |
|---|---|
| `voices` | two chatty channels, a quiet and a locked one, two permits: `PermitsKept`, `LastWord`, `FarewellsEnd`, `TicksGoOn`. Three farewells for two permits make one queue while others are cut; two ticks can be cancelled with both permits in hand. |

Fairness: timers run out, queries and posts end, a cancelled coroutine unwinds, `run()`
goes on. Nothing is assumed of the LLM: `FarewellsEnd` holds though no call ever
returns, and `TicksGoOn` has as its hypothesis that the channel's own calls do.

## 9. What is proved

For every value of the constants (any number of calls, turns, people, channels, any
caps, lifetimes and budgets), under the named assumptions of the modules
(`SetsAssumption`, `LimitsAssumption`, `NoneAssumption`; `TurnsAssumption`,
`BudgetsAssumption`; `RemindersAssumption`, `RetentionAssumption`; `PeopleAssumption`, `TimesAssumption`;
`MemoryAssumption`; `VoicesAssumption`):

*`TellRelayProofs`* `[]TypeOK`, `[]Exclusive`, `[]RoomKept`, `[]CapsHold` and
`RefusalIsFree`. `CapsHold` alone is not inductive: `Insert` adds a row without
looking. The invariant is `CreateInv == TypeOK /\ Exclusive /\ RoomKept /\ CapsHold`:
the holder of the lock remembers that there is room (`RoomKept`), only it can
insert (`Exclusive`), and every other step leaves the set of rows that wait
unchanged or smaller (`GoStale`, `Prune`, `Mark`, `CancelDelete`), so a count can
only fall under it. The lemmas on cardinality carry that argument.

*`TellDeliveryProofs`* `[]OncePerLoss`, `[]SettledWasPosted`, `OldestFirst`,
`OnlyOwnersWithdraw` and the refinement `ImplementsMailbox`. The invariant is `MailInv`:
types, the locks, and `Sound`. `Numbered` and `Batches` say what a parcel still means
while cancels, prunes and reused ids change the table under it: its row is the one it
was read from, or gone, or the id was issued again. `Balanced` is the ledger: a tell
that may still be posted (`Owed`: not born, waiting, or in a batch, and not at the mark)
was lost as often as it was posted. `InOrder` says that each older tell for the same
person is in the batch or was posted, which `ReadPending` establishes by counting. For the
refinement the caps come from `RoomKept`, a `Post` is allowed by `Balanced`, a loss by
`Ledger` (the tell at the mark has a post that was not lost, and there is one such tell),
and every other step leaves the box as it is or smaller.

*`TurnLifecycleProofs`* `[]TypeOK`, `[]RunningIsAlive`, `[]ToldIsStored`, `[]DrainSettles`,
`[]CancelIsCheap`, `StatusOnlyForward` and the refinement `ImplementsLedger`, from one inductive
invariant `IInv == TypeOK /\ StepsLeft /\ Quiet /\ TaskInv`. `TaskInv` says for
each task which values its row can have at the place its turn stands (`RowFits`),
that a snapshot of the drain contains only tasks whose rows settle (`Drained`),
and how many calls a cancelled turn can still begin from where it is (`LateFits`).
`Quiet` says that before the bot is up nothing lives. That a restart leaves no ghost
(`RunningIsAlive`) has its weak point there: while the process is down or starting a row may
say `running` for a turn that is over (the last but one conjunct of `RowFits`), and it is the
guard of `Connect`, that the cleanup has come to every row, which lets the bot up only without
one. The refinement `ImplementsLedger`
follows from the same invariant: `RowFits` says what the row is when a turn begins, settles
or tells, and `Quiet` that nobody works when the cleanup runs. Two
more invariants are the safety halves of liveness properties. `MovesRunOut`: a turn has
a measure, `MovesLeft`, that each of its own steps lowers and no other step raises; so
`AnsweredTurnsEnd` can fail only by a turn that is not let go on. `CutIsBounded`: once a
grace or a drain is over, what is still waited for is about to be cancelled or has a write
and a post to go, which is what `ShutdownEnds` rests on.

*`RemindersProofs`* `[]TypeOK`, `[]BatchIsCurrent`, `[]OncePerLoss`, `[]RateHolds`,
`[]BurstBounded` and `RowLeavesForCause`.
`BatchIsCurrent` needs `Shape`: a fetched row is in one part of the batch only, so
deleting one row never hits another that is held; an INSERT takes an id that
no held row has. `OncePerLoss` needs `Numbered` (a reminder is in one row, or still
with its call) and `Counted`: a reminder that may still be posted (`Owed`) has been
lost as often as it was posted; `Post` ends that state of being owed, and only a
loss brings it back. `RateHolds` needs `Remembered`: the pruned and swept history
still has every charge that a window containing the present can contain. `BurstBounded`
needs `BurstRoom`: what is still to be fired is of one channel and fits under its cap, and a
channel still to come has had nothing since the poll. `RowLeavesForCause` needs
`Accounted`: in a cycle whose poll went well each row waits in the batch, was tried, or is
dated after `now - age - MaxDelay - PastSlack` (it was not due at the poll, or came in
since), and by `RetentionAssumption` the sweep reaches none of the last kind.

*`ReminderOutboxProofs`* that the limiter is exact in every state (`LimiterIsExact`: a
call is let through just when fewer than `RateLimit` charges lie in the window that ends
now, whatever was pruned and swept before) and the refinement `ImplementsOutbox`.
The invariant is `OutboxInv == CountInv /\ Paid /\ Unsaid /\ Ready`. A card is kept
only for a charge that was made and only once (`Paid`, `Unsaid`); what waits in the batch
was due at the poll, so it is due when posted (`Ready`). From `CountInv` come
the ledger of posts and losses (`Counted`) and the room under the cap (`BurstRoom`).

*`IdentityProofs`* `[]TypeOK`, `[]NoInheritance`, `RankIsRecent`, `RankIsOwn` and `PrivilegeIsOwn`, for any
people, nicks, accounts, gates and any two lifetimes of which the operators' is
the shorter. The invariant adds to the types what the network guarantees (`Net`: a
nick has one holder, who is in the channel is online, ops have been opped), that a
request under way is still about its sender unless its nick is blamed and that
its account was somebody's as recently as its age says (`CallsFine`), and the same
for each entry (`CacheFine`) and flag (`FlagsFine`). It needs ages on both sides: a
late answer or a rename is harmless exactly because it does not make an entry
younger than the login it is about. `PrivilegeIsOwn` carries this through the policies:
who makes the bot quit, passes the DM gate or gives a task was entitled to it himself, by
an account that recently or, for tasks of "ops", by having been an op.

*`MemoryProofs`* `[]TypeOK`, `[]OneExtractor`, `[]CopiesBounded`, `[]AuditTrail`, the refinement
`ImplementsNotebook`, and that a memory disappears only by a forget of its own channel
(`ForgetIsLocal`).
`CopiesBounded` counts rows and pending inserts together: `Compare` admits an insert
only when no copy is shown, so while there is one the adds can only lose; with
none, all that insert are distinct turns or the one extraction, for which
`RunsKnown` is needed. `AuditTrail` needs `ForgetHolds`: between look and audit the row
cannot come back, since nothing clears a flag and no id is used twice. For the refinement
`ImplementsNotebook` a step of a worker takes its own clearance, request or duty away and
may bring another (`ClearedMoves`, `AskedMoves`, `DueMoves`); that its channel has no other
extraction comes from `RunsKnown`, that it strikes out what is its own
from `ForgetHolds` and from the fact that turns stay in their channel (`AtHome`).

*`VoicesProofs`* `[]TypeOK`, `[]PermitsKept` and `LastWord`. The count of permits needs each
coroutine to be at one place; `LastWord` needs `Order`: once `stop` has returned every tick
is over (`TicksOver`), farewells begin only after that (`ByesLater`), and nothing but a
farewell has been said in the meantime (`FarewellsLater`). `SpeaksOnlyInTime` says more than
`LastWord`: chimes only while the bot is up, farewells only in time and in the
channels chosen for one, nothing by a coroutine that was cancelled and nothing after QUIT.
`WaitsAreBounded` is the safety half of `FarewellsEnd`: after the cancel of `stop`, and
after the deadline of the farewells, only coroutines that unwind are waited for. Both
rest on `EndInv`, which says which awaits a coroutine can stand at in each stage.

Every safety property that a passing run checks is also proved. The formulas that
are only theorems (`RoomKept`, `StatusOnlyForward`, `MovesRunOut`, `CutIsBounded`,
`OncePerLoss` of `Reminders`, `LimiterIsExact`, `PrivilegeIsOwn`, `AuditTrail`,
`ForgetIsLocal`, `WaitsAreBounded`, `SpeakersAreInTime`) are not needed as questions of their own to a run; they
hold on the instances, too. Only model-checked is
liveness (`CallsReturn`, `ShutdownEnds`, `AnsweredTurnsEnd`,
`DueIsSettled`, `ExtractionGoesOn`, `FarewellsEnd`, `TicksGoOn`), which TLAPS cannot prove.

## 10. Disagreements of code and comments

1. `!untell` may say "cancelled" of a tell that is, or will be, in the channel
   (`tell_cancel_race`; `tells.py:486-511`).
2. A tell can be settled without being posted: withdrawn between post and mark,
   its id reused by a new tell, which the mark then hits (`tell_id_reuse`;
   `tells.py:416-419`, `db.py:112`).
3. A call may begin after a cancel: the gate is before the wait for the semaphore
   and the summary has none (`turns_cancel`; `agent.py:457-470, 611`). `CancelIsCheap`
   is what does hold.
4. With the wire down, the part of a batch over the cap is deleted without having
   been posted or announced (`reminders_flood`; `scheduler.py:450-461`).

Without a run of their own:

- A tell of which only the first line went out counts as delivered (`tells.py:409`;
  `DeliveredWasWhole` of `TellRelay` fails as soon as `MaxLines` is 2).
- `await_inflight` does cancel the replies it waited for, against its docstring
  (`ircclient.py:568, 576`; `GraceSparesReplies` of `TurnLifecycle`).
- `shutdown_all` cancels "every running task" (`tasks.py:152`) of its snapshot. A `!task`
  that passed the gate before may spawn its task later: nobody cancels or awaits it, and
  its row says `running` until the next start sweeps it (`RunningIsAlive`).
- A task row can stay `pending` for ever, since the first UPDATE stands outside of any
  try and `startup_cleanup` sweeps only `running` (`tasks.py:135-137, 346-348`).
- An accepted `!cancel` may still end in `done`; a hard cancel during the last status
  write leaves the outcome unrecorded until the next start-up sweep (`unsaved`).
- The first cycle sweeps the reminders only if the host has been up for an hour
  (`scheduler.py:388, 414`).
- A person may be owed more than the recipient cap, since tells left for a nick
  without account and for the account under another nick are counted apart and
  delivered together (`CapsHold` bounds each of the two queues).
- "At most one WHOIS per nick per 5-minute cache window" (`ircclient.py:952-954`) was true
  before operators got a lifetime of 60 seconds, and concurrent requests of one nick
  each send their own.
- A turn keeps the account it started with to its end, whatever the cache learns
  meanwhile, while the op flag is read anew (`irc_native.py:162-163`): `RankIsRecent`
  says how much that can prolong a privilege.
- Two forgets of one memory that overlap are both audited; "don't double-audit"
  (`memory_tools.py:168-169`) covers only the second of two in sequence.
- A batch that fills up while an extraction runs is skipped, and its messages may be out
  of the next one's reach (`memory.py:474-479`); `ExtractionGoesOn` is what remains.

## 11. Not modelled

Inside a step of the agent loop, the repairs and the loop detector: sequential code over
the model's answer, whose effect on the turn (a step is used up) is in `TurnLifecycle`.
`private_msg`, `me_action`, `!define`: a limiter of the shape of `set_reminder`'s
and one send. The prune of the message log, the joins at start-up, health checks
and the usage summary: no state that a property here is about. Texts,
formatting, logs, embeddings; the URL filter and the information tools
(sequential, I/O); configuration and prompts (constants).
