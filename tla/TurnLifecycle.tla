---------------------------- MODULE TurnLifecycle ----------------------------
(***************************************************************************)
(* The turns of the bot, from the command to the outcome, and the shutdown *)
(* that cuts them short: class TaskRunner (src/bot/tasks.py), the loop of  *)
(* AgentCore that tasks and replies share (src/bot/agent.py), the command  *)
(* handlers that start turns (src/bot/ircclient.py) and the tear-down of   *)
(* run() (src/bot/main.py).                                                *)
(*                                                                         *)
(* A turn is a background task of !task or a reply to a mention.  Turns    *)
(* run concurrently and share a semaphore around the calls to the LLM.     *)
(* Every await is a boundary between two actions.  What the model answers  *)
(* and which tools it calls is left open: an answer ends the turn or leads *)
(* to the next step.  The semaphore has other users, too: initiative ticks *)
(* and farewells, the extraction of memories and !define.  What they do is *)
(* left open; the permits they hold are `others'.                          *)
(***************************************************************************)
EXTENDS Integers, FiniteSets

CONSTANTS
  Tasks,        \* ids of the rows of the table tasks, each used once
  Replies,      \* engagements: replies to a mention or to a DM
  Person,       \* the (nick, account) pairs that issue and cancel tasks
  Owner,        \* the issuer of each task
  Operators,    \* accounts with the operator flag
  NoAccount,    \* None: not identified, or not in the account cache
  TaskSteps,    \* budgets.task_step_cap
  ReplySteps,   \* budgets.reply_step_cap
  MaxCalls      \* budgets.max_concurrent_chat_calls

Turns == Tasks \cup Replies
Outcomes == {"done", "failed", "cancelled"}
Steps(t) == IF t \in Tasks THEN TaskSteps ELSE ReplySteps

ASSUME TurnsAssumption ==
  /\ Tasks \cap Replies = {}
  /\ IsFiniteSet(Turns)
  /\ Owner \in [Tasks -> Person]
  /\ \A p \in Person : {"nick", "acct"} \subseteq DOMAIN p

ASSUME BudgetsAssumption ==
  {TaskSteps, ReplySteps, MaxCalls} \subseteq Nat \ {0}

VARIABLES
  row,       \* column status of each task, "none" if there is no row
  turn,      \* locals of each turn, and where it stands
  event,     \* tasks whose cancel_event is set
  killed,    \* turns that asyncio is to cancel at the await they stand at
  stage,     \* how far run() is
  waiting,   \* the turns run() waits for: gather() in await_inflight, shutdown_all
  others,    \* the permits of the semaphore that are held by other than turns
  \* History, read by properties only.
  told,      \* the outcome of the task that its channel was told
  late,      \* LLM calls the task began after its cancel_event was set
  unsaved    \* tasks of which a status write failed or was cut short

memory  == <<event, killed, stage, waiting, others>>
history == <<told, late, unsaved>>
vars == <<row, turn, memory, history>>

(***************************************************************************)
(* Where a turn stands.  "issuing", "inserted" and "asked" are the command *)
(* handlers before the turn is spawned; "start" is a turn up to its first  *)
(* step; "wait", "call" and "after" are the agent loop: waiting for the    *)
(* semaphore, calling the LLM, everything from the answer to the next step *)
(* (usage log, tools).  "last" marks the call of _summarise_and_bail.      *)
(***************************************************************************)
Handler == {"issuing", "inserted", "asked"}
Loop    == {"wait", "call", "after"}
Alive   == {"start", "persist", "post"} \cup Loop
Places  == {"none", "over"} \cup Handler \cup Alive
Stages  == {"down", "boot", "up", "grace", "cut", "stop", "drain", "halt",
            "farewell", "ending"}

Local == [pc: Places, step: Nat, last: BOOLEAN,
          outcome: Outcomes \cup {"none"}]
At(pc) == [pc |-> pc, step |-> 0, last |-> FALSE, outcome |-> "none"]

Live(t) == turn[t].pc \notin {"none", "over"}

\* The registries: TaskRunner._running and IRCBot._inflight_engagements.  A
\* done callback takes a turn out however it ends.
Running  == {t \in Tasks : turn[t].pc \in Alive}
InFlight == {r \in Replies : turn[r].pc \in Alive}

Move(t, pc) == turn' = [turn EXCEPT ![t].pc = pc]
Over(t)     == turn' = [turn EXCEPT ![t] = At("over")]

\* t runs: it is at the place pc and asyncio does not cancel it there.
RunsAt(t, pc) == turn[t].pc = pc /\ t \notin killed

Init ==
  /\ row = [t \in Tasks |-> "none"]
  /\ turn = [t \in Turns |-> At("none")]
  /\ event = {}
  /\ killed = {}
  /\ stage = "down"
  /\ waiting = {}
  /\ others = 0
  /\ told = [t \in Tasks |-> "none"]
  /\ late = [t \in Tasks |-> 0]
  /\ unsaved = {}

-----------------------------------------------------------------------------
(* The agent loop, _run_loop.                                              *)

\* asyncio.Semaphore: a newcomer passes without waiting only if a permit is
\* free and nobody queues, of the turns or of the others.
Calling == {t \in Turns : turn[t].pc = "call"}
Queued  == {t \in Turns : turn[t].pc = "wait"}
Permit  == Cardinality(Calling) + others < MaxCalls
Free    == Permit /\ Queued = {}

CallBegins(t) == late' = IF t \in event THEN [late EXCEPT ![t] = @ + 1] ELSE late

\* "async with" the semaphore: the call begins now or the turn queues, maybe
\* behind some of the others.
StartCall(t, k, last) ==
  LET to(pc) == turn' = [turn EXCEPT ![t] = [pc |-> pc, step |-> k, last |-> last,
                                             outcome |-> "none"]] IN
  \/ Free /\ to("call") /\ CallBegins(t)
  \/ to("wait") /\ UNCHANGED late

\* The loop returns.  _run_task goes on to store the outcome, a reply to post.
Finish(t, outcome) ==
  turn' = [turn EXCEPT ![t] = [pc |-> IF t \in Tasks THEN "persist" ELSE "post",
                               step |-> 0, last |-> FALSE,
                               outcome |-> IF t \in Tasks THEN outcome ELSE "none"]]

\* Mutant: the loop does not look at cancel_event.
EnterStepUngated(t, k) ==
  \/ k >= Steps(t) /\ StartCall(t, k, TRUE)
  \/ k \in 1..(Steps(t) - 1) /\ StartCall(t, k, TRUE)
  \/ k < Steps(t) /\ StartCall(t, k, FALSE)

\* The top of step k: budget spent, cancelled, deadline passed, or a call.
\* There is no await between here and the semaphore.
EnterStep(t, k) ==
  \/ k >= Steps(t) /\ StartCall(t, k, TRUE)
  \/ k < Steps(t) /\ t \in event /\ Finish(t, "cancelled") /\ UNCHANGED late
  \/ k \in 1..(Steps(t) - 1) /\ t \notin event /\ StartCall(t, k, TRUE)
  \/ k < Steps(t) /\ t \notin event /\ StartCall(t, k, FALSE)

\* The semaphore lets one that queues through.
Acquire(t) ==
  /\ RunsAt(t, "wait")
  /\ Permit
  /\ Move(t, "call")
  /\ CallBegins(t)
  /\ UNCHANGED <<row, memory, told, unsaved>>

\* The LLM answers: leave the semaphore, log the usage.
Answer(t) ==
  /\ RunsAt(t, "call")
  /\ Move(t, "after")
  /\ UNCHANGED <<row, memory, history>>

\* The call fails: an error text is the result, or, for what the loop does
\* not catch, an exception is.
CallFails(t) ==
  /\ RunsAt(t, "call")
  /\ \E outcome \in {"done", "failed"} : Finish(t, outcome)
  /\ UNCHANGED <<row, memory, history>>

\* The answer was text, which is the result, or not what the loop expects,
\* which raises.
GiveText(t) ==
  /\ RunsAt(t, "after")
  /\ \E outcome \in {"done", "failed"} : Finish(t, outcome)
  /\ UNCHANGED <<row, memory, history>>

\* Mutant: a text-format tool call is repaired without using up a step.
NextStepUncounted(t) ==
  /\ RunsAt(t, "after")
  /\ ~turn[t].last
  /\ \/ EnterStep(t, turn[t].step + 1)
     \/ EnterStep(t, turn[t].step)
  /\ UNCHANGED <<row, memory, told, unsaved>>

\* Mutant: tool calls in the summary are run as well.
NextStepAfterSummary(t) ==
  /\ RunsAt(t, "after")
  /\ EnterStep(t, turn[t].step + 1)
  /\ UNCHANGED <<row, memory, told, unsaved>>

\* The answer was tool calls, which have run, or a tool call in text format,
\* which is to be repaired: on to the next step.
NextStep(t) ==
  /\ RunsAt(t, "after")
  /\ ~turn[t].last
  /\ EnterStep(t, turn[t].step + 1)
  /\ UNCHANGED <<row, memory, told, unsaved>>

-----------------------------------------------------------------------------
(* Tasks: _cmd_issue_task, issue_task, _run_task.                          *)

\* !task passes the shutdown gate of on_message; its handler looks up the
\* account of the issuer and asks the policy.
AskTask(t) ==
  /\ stage = "up"
  /\ turn[t].pc = "none"
  /\ turn' = [turn EXCEPT ![t] = At("issuing")]
  /\ UNCHANGED <<row, memory, history>>

\* Refused by the policy, or the INSERT raises.
IssueFails(t) ==
  /\ RunsAt(t, "issuing")
  /\ Over(t)
  /\ UNCHANGED <<row, memory, history>>

Insert(t) ==
  /\ RunsAt(t, "issuing")
  /\ stage # "ending"
  /\ row' = [row EXCEPT ![t] = "pending"]
  /\ Move(t, "inserted")
  /\ UNCHANGED <<memory, history>>

\* create_task and the entry in _running, with no await between them.
Spawn(t) ==
  /\ RunsAt(t, "inserted")
  /\ Move(t, "start")
  /\ UNCHANGED <<row, memory, history>>

\* UPDATE status = 'running', then straight to the top of the first step.
Begin(t) ==
  /\ t \in Tasks
  /\ RunsAt(t, "start")
  /\ stage # "ending"
  /\ row' = [row EXCEPT ![t] = "running"]
  /\ EnterStep(t, 0)
  /\ UNCHANGED <<memory, told, unsaved>>

\* That UPDATE raises, outside of the try: the coroutine dies.
BeginFails(t) ==
  /\ t \in Tasks
  /\ RunsAt(t, "start")
  /\ Over(t)
  /\ unsaved' = unsaved \cup {t}
  /\ UNCHANGED <<row, memory, told, late>>

\* Mutant: the outcome of a task that was cancelled is not stored.
PersistUnlessCancelled(t) ==
  /\ RunsAt(t, "persist")
  /\ stage # "ending"
  /\ row' = IF turn[t].outcome = "cancelled" THEN row
            ELSE [row EXCEPT ![t] = turn[t].outcome]
  /\ Move(t, "post")
  /\ UNCHANGED <<memory, history>>

\* _persist_outcome.
Persist(t) ==
  /\ RunsAt(t, "persist")
  /\ stage # "ending"
  /\ row' = [row EXCEPT ![t] = turn[t].outcome]
  /\ Move(t, "post")
  /\ UNCHANGED <<memory, history>>

\* The UPDATE raises, as it always does once the database is closed: it is
\* logged, and the outcome is posted all the same.
PersistFails(t) ==
  /\ RunsAt(t, "persist")
  /\ Move(t, "post")
  /\ unsaved' = unsaved \cup {t}
  /\ UNCHANGED <<row, memory, told, late>>

\* The channel hears of it, or not: the post is best-effort.
Heard(t) == told' = [told EXCEPT ![t] = turn[t].outcome]

Post(t) ==
  /\ RunsAt(t, "post")
  /\ \/ t \in Tasks /\ stage # "ending" /\ Heard(t)
     \/ UNCHANGED told
  /\ Over(t)
  /\ UNCHANGED <<row, memory, late, unsaved>>

\* cancel_task: the issuer, by account or else by nick, or an operator.
IsOwner(t, who) ==
  \/ Owner[t].acct # NoAccount /\ Owner[t].acct = who.acct
  \/ Owner[t].acct = NoAccount /\ who.acct = NoAccount /\ Owner[t].nick = who.nick

CancelTask(t, who) ==
  /\ stage \notin {"down", "boot"}
  /\ t \in Running
  /\ IsOwner(t, who) \/ who.acct \in Operators
  /\ event' = event \cup {t}
  /\ UNCHANGED <<row, turn, killed, stage, waiting, others, history>>

-----------------------------------------------------------------------------
(* Replies: on_message and _handle_engagement.                             *)

\* A mention passes the shutdown gate; the DM gate and the account lookup
\* are still ahead.
AskReply(r) ==
  /\ stage = "up"
  /\ turn[r].pc = "none"
  /\ turn' = [turn EXCEPT ![r] = At("asked")]
  /\ UNCHANGED <<row, memory, history>>

Engage(r) ==
  /\ RunsAt(r, "asked")
  /\ Move(r, "start")
  /\ UNCHANGED <<row, memory, history>>

\* The DM gate drops it.
Dropped(r) ==
  /\ RunsAt(r, "asked")
  /\ Over(r)
  /\ UNCHANGED <<row, memory, history>>

\* run_reply_turn has gathered its context, or raised while doing so.
BeginReply(r) ==
  /\ r \in Replies
  /\ RunsAt(r, "start")
  /\ \/ EnterStep(r, 0)
     \/ Finish(r, "failed") /\ UNCHANGED late
  /\ UNCHANGED <<row, memory, told, unsaved>>

-----------------------------------------------------------------------------
(* CancelledError is thrown into a turn at the await it stands at.         *)

\* In the agent loop: _run_task stores and posts "interrupted by shutdown";
\* a reply dies.
InterruptLoop(t) ==
  /\ turn[t].pc \in Loop
  /\ IF t \in Tasks THEN Finish(t, "cancelled") ELSE Over(t)
  /\ UNCHANGED <<row, told, unsaved>>

\* In a status write: the coroutine dies, the database thread may have done
\* the write all the same.
InterruptWrite(t) ==
  /\ t \in Tasks
  /\ \/ turn[t].pc = "start" /\ row' \in {row, [row EXCEPT ![t] = "running"]}
     \/ turn[t].pc = "persist" /\ row' \in {row, [row EXCEPT ![t] = turn[t].outcome]}
  /\ Over(t)
  /\ unsaved' = unsaved \cup {t}
  /\ UNCHANGED told

\* Mutant: the try around the agent loop also covers the posting.
InterruptPostCaught(t) ==
  /\ turn[t].pc = "post"
  /\ IF t \in Tasks THEN Finish(t, "cancelled") ELSE Over(t)
  /\ UNCHANGED <<row, told, unsaved>>

\* While posting: some of it may be out.
InterruptPost(t) ==
  /\ turn[t].pc = "post"
  /\ \/ t \in Tasks /\ Heard(t)
     \/ UNCHANGED told
  /\ Over(t)
  /\ UNCHANGED <<row, unsaved>>

\* A reply that has not entered the loop.
InterruptStart(t) ==
  /\ t \in Replies
  /\ turn[t].pc = "start"
  /\ Over(t)
  /\ UNCHANGED <<row, told, unsaved>>

Interrupt(t) ==
  /\ t \in killed
  /\ killed' = killed \ {t}
  /\ InterruptLoop(t) \/ InterruptWrite(t) \/ InterruptPost(t) \/ InterruptStart(t)
  /\ UNCHANGED <<event, stage, waiting, others, late>>

-----------------------------------------------------------------------------
(* run(): start, tear-down, exit.                                          *)

IsOver(ts) == \A t \in ts : ~Live(t)
Kill(ts)   == killed' = killed \cup {t \in ts : Live(t)}

\* The process starts and opens the database.
Boot ==
  /\ stage = "down"
  /\ stage' = "boot"
  /\ UNCHANGED <<row, turn, event, killed, waiting, others, history>>

\* startup_cleanup: one row that was left running.
Sweep(t) ==
  /\ stage = "boot"
  /\ row[t] = "running"
  /\ row' = [row EXCEPT ![t] = "cancelled"]
  /\ UNCHANGED <<turn, memory, history>>

\* Mutant: startup_cleanup is not called.
ConnectUnswept ==
  /\ stage = "boot"
  /\ stage' = "up"
  /\ UNCHANGED <<row, turn, event, killed, waiting, others, history>>

\* It is through with its rows, and run() connects.
Connect ==
  /\ stage = "boot"
  /\ \A t \in Tasks : row[t] # "running"
  /\ stage' = "up"
  /\ UNCHANGED <<row, turn, event, killed, waiting, others, history>>

\* Its query or one of its UPDATEs raises and the rows that are left stay as
\* they are; run() logs it and connects all the same.
CleanupFails ==
  /\ stage = "boot"
  /\ stage' = "up"
  /\ unsaved' = unsaved \cup {t \in Tasks : row[t] = "running"}
  /\ UNCHANGED <<row, turn, event, killed, waiting, others, told, late>>

\* !quit, a signal or a lost connection: await_inflight takes its snapshot.
BeginShutdown ==
  /\ stage = "up"
  /\ stage' = "grace"
  /\ waiting' = InFlight
  /\ UNCHANGED <<row, turn, event, killed, others, history>>

\* The grace period ends: wait_for cancels the gather, the gather its replies.
GraceTimeout ==
  /\ stage = "grace"
  /\ ~IsOver(waiting)
  /\ stage' = "cut"
  /\ Kill(waiting)
  /\ UNCHANGED <<row, turn, event, waiting, others, history>>

\* All replies of the snapshot are over; the scheduler is stopped.
GraceOver ==
  /\ stage \in {"grace", "cut"}
  /\ IsOver(waiting)
  /\ stage' = "stop"
  /\ waiting' = {}
  /\ UNCHANGED <<row, turn, event, killed, others, history>>

\* shutdown_all: snapshot, and all cancel events of it.
StartDrain ==
  /\ stage = "stop"
  /\ stage' = "drain"
  /\ waiting' = Running
  /\ event' = event \cup Running
  /\ UNCHANGED <<row, turn, killed, others, history>>

\* Mutant: after the grace of shutdown_all the tasks are only waited for.
DrainTimeoutKillsNone ==
  /\ stage = "drain"
  /\ ~IsOver(waiting)
  /\ stage' = "halt"
  /\ UNCHANGED <<row, turn, event, killed, waiting, others, history>>

\* SHUTDOWN_TASK_GRACE_SEC is over: hard cancel.
DrainTimeout ==
  /\ stage = "drain"
  /\ ~IsOver(waiting)
  /\ stage' = "halt"
  /\ Kill(waiting)
  /\ UNCHANGED <<row, turn, event, waiting, others, history>>

\* Mutant: the tasks that were hard-cancelled are not awaited.
DrainOverUnawaited ==
  /\ stage \in {"drain", "halt"}
  /\ stage = "drain" => IsOver(waiting)
  /\ stage' = "farewell"
  /\ UNCHANGED <<row, turn, event, killed, waiting, others, history>>

\* All tasks of the snapshot are over: goodbyes, QUIT.
DrainOver ==
  /\ stage \in {"drain", "halt"}
  /\ IsOver(waiting)
  /\ stage' = "farewell"
  /\ UNCHANGED <<row, turn, event, killed, waiting, others, history>>

\* After QUIT the database is being closed.
Close ==
  /\ stage = "farewell"
  /\ stage' = "ending"
  /\ waiting' = {}
  /\ UNCHANGED <<row, turn, event, killed, others, history>>

\* The event loop is gone and with it every turn that was left; so is all
\* that was in memory.  The table survives.
Vanish ==
  /\ stage' = "down"
  /\ turn' = [t \in Turns |-> IF Live(t) THEN At("over") ELSE turn[t]]
  /\ event' = {}
  /\ killed' = {}
  /\ waiting' = {}
  /\ others' = 0
  /\ UNCHANGED <<row, history>>

\* run() returns, main() closes the loop without cancelling what is left.
Exit == stage = "ending" /\ Vanish

\* The process dies.
Crash == stage # "down" /\ Vanish

-----------------------------------------------------------------------------
(* The other users of the semaphore.                                       *)

OthersCall ==
  /\ stage \notin {"down", "boot"}
  /\ Permit
  /\ others' = others + 1
  /\ UNCHANGED <<row, turn, event, killed, stage, waiting, history>>

OthersReturn ==
  /\ others > 0
  /\ others' = others - 1
  /\ UNCHANGED <<row, turn, event, killed, stage, waiting, history>>

-----------------------------------------------------------------------------
StoreOutcome(t) == Persist(t) \/ PersistFails(t)

Start(t) ==
  \/ t \in Tasks /\ (Insert(t) \/ IssueFails(t) \/ Spawn(t) \/ Begin(t) \/ BeginFails(t))
  \/ t \in Replies /\ (Engage(t) \/ Dropped(t) \/ BeginReply(t))

Reaction(t) == Answer(t) \/ CallFails(t) \/ GiveText(t) \/ NextStep(t)

TearDown ==
  \/ GraceTimeout \/ GraceOver \/ StartDrain \/ DrainTimeout \/ DrainOver
  \/ Close \/ Exit

Next ==
  \/ \E t \in Tasks : \/ AskTask(t) \/ Sweep(t) \/ StoreOutcome(t)
                      \/ \E who \in Person : CancelTask(t, who)
  \/ \E r \in Replies : AskReply(r)
  \/ \E t \in Turns : Start(t) \/ Acquire(t) \/ Reaction(t) \/ Post(t) \/ Interrupt(t)
  \/ Boot \/ Connect \/ CleanupFails \/ BeginShutdown \/ TearDown \/ Crash
  \/ OthersCall \/ OthersReturn

(***************************************************************************)
(* A coroutine of the event loop that can go on does, database calls and   *)
(* posts return, and the two timeouts of the tear-down fire.  The          *)
(* semaphore serves its queue in order, so who queues gets through even if *)
(* a permit is free only now and then: strong fairness.  Whether the LLM   *)
(* and the tools ever answer, turns or others, is not part of it.          *)
(***************************************************************************)
Fairness ==
  /\ \A t \in Turns : /\ WF_vars(Start(t)) /\ WF_vars(Post(t)) /\ WF_vars(Interrupt(t))
                      /\ SF_vars(Acquire(t))
  /\ \A t \in Tasks : WF_vars(StoreOutcome(t))
  /\ WF_vars(TearDown)

Spec == Init /\ [][Next]_vars
FairSpec == Spec /\ Fairness

-----------------------------------------------------------------------------
(* Correctness.                                                            *)

\* Every variable has its type, and no turn goes beyond its steps
\* (agent.py:456).
TypeOK ==
  /\ row \in [Tasks -> {"none", "pending", "running"} \cup Outcomes]
  /\ turn \in [Turns -> Local]
  /\ \A t \in Turns : turn[t].step <= Steps(t)
  /\ event \subseteq Tasks
  /\ killed \subseteq Turns
  /\ stage \in Stages
  /\ waiting \subseteq Turns
  /\ others \in 0..MaxCalls
  /\ told \in [Tasks -> Outcomes \cup {"none"}]
  /\ late \in [Tasks -> Nat]
  /\ unsaved \subseteq Tasks

\* The lifecycle of one task.
Forward(t) ==
  row'[t] # row[t] =>
    \/ row[t] = "none" /\ row'[t] = "pending"
    \/ row[t] = "pending" /\ row'[t] = "running"
    \/ row[t] = "running" /\ row'[t] \in Outcomes

\* The status of a task only goes pending -> running -> done | failed |
\* cancelled (tasks.py:6), and an outcome once stored stands: neither a hard
\* cancel that comes after it nor the cleanup after a restart changes it.
StatusOnlyForward == [][\A t \in Tasks : Forward(t)]_vars

\* Nobody ever sees a stale running task (tasks.py:133-134): while the bot is
\* up, a row says running only while its turn is alive.  The start-up cleanup
\* settles what a crash or an exit left, also the task of a !task that passed
\* the gate before the tear-down and that nobody waited for.  Excused are the
\* tasks of which a write, of the turn or of that cleanup, failed or was cut
\* short.
RunningIsAlive ==
  stage \notin {"down", "boot"} =>
    \A t \in Tasks : row[t] = "running" => t \in Running \cup unsaved

\* The channel is told what the row says, for ever after: the outcome is
\* stored before it is posted (tasks.py:434-438), and no crash, shutdown or
\* cleanup makes the two disagree, unless a write failed or was cut short.
ToldIsStored ==
  \A t \in Tasks : told[t] # "none" => row[t] = told[t] \/ t \in unsaved

\* When the bot says goodbye, each task that shutdown_all found has its
\* outcome in its row, unless it never began or a write failed
\* (tasks.py:151-158, 404-405).
DrainSettles ==
  stage = "farewell" =>
    \A t \in waiting \cap Tasks :
      row[t] \in Outcomes \/ t \in unsaved

\* A cancel that was accepted costs at most two more LLM calls, whatever the
\* step: the one the turn was queued for, and the summary if that was its
\* last (agent.py:457-463, 611).
CancelIsCheap == \A t \in Tasks : late[t] <= 2

\* Once the tear-down has begun the process ends, even if the LLM or a tool
\* never answers: both waits of it are bounded (ircclient.py:562-588,
\* tasks.py:169-190).
ShutdownEnds == stage = "grace" ~> stage = "down"

\* If the LLM and the tools answer, turns and the others, every turn ends: no
\* answer keeps a turn going beyond its steps, no queue for the semaphore lasts
\* for ever.
AnswersCome == (\A t \in Turns : WF_vars(Reaction(t))) /\ WF_vars(OthersReturn)

TurnsEnd == \A t \in Turns : Live(t) ~> ~Live(t)

AnsweredTurnsEnd == AnswersCome => TurnsEnd

-----------------------------------------------------------------------------
(* Claims of the repository's comments that the code does not keep.        *)

\* "we never start a new LLM call after a !cancel has been issued"
\* (agent.py:458-459).
NoCallAfterCancel == \A t \in Tasks : late[t] = 0

\* "Tasks NOT cancelled here" (ircclient.py:567-569): the grace period does
\* not cut a reply short.  Fails when GraceTimeout finds one; no run repeats that.
GraceSparesReplies == stage \in {"grace", "cut"} => killed \cap Replies = {}

-----------------------------------------------------------------------------
(* What the task runner implements: a ledger.                              *)

Working == {t \in Tasks : turn[t].pc \in Loop \cup {"persist"}}

Ledger == INSTANCE TaskLedger WITH
            status <- row,
            working <- Working,
            heard <- told,
            excused <- unsaved

\* A task is begun once and settled once, by its own turn or, when no turn is
\* left, by the cleanup; its channel hears of it at most once, and then of
\* what the row says (tasks.py:126-148, 396-438).
ImplementsLedger == Ledger!Spec
=============================================================================
