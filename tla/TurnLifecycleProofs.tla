------------------------- MODULE TurnLifecycleProofs -------------------------
(***************************************************************************)
(* Proofs about TurnLifecycle, for any number of turns, any budgets and    *)
(* any number of LLM calls at a time.                                      *)
(***************************************************************************)
EXTENDS TurnLifecycle, FiniteSetTheorems, TLAPS

\* Before its last call a turn has steps left.
StepsLeft ==
  \A t \in Turns : turn[t].pc \in Loop /\ ~turn[t].last => turn[t].step < Steps(t)

\* No turn lives while the process is down or starting.
Quiet == stage \in {"down", "boot"} => \A t \in Turns : ~Live(t)

\* Where a task stands determines its row.
RowFits(t) ==
  /\ turn[t].pc \in {"none", "issuing", "asked"} => row[t] = "none"
  /\ turn[t].pc \in {"inserted", "start"} => row[t] = "pending"
  /\ turn[t].pc \in Loop \cup {"persist"} => row[t] = "running"
  /\ turn[t].pc \in {"persist", "post"} => turn[t].outcome \in Outcomes
  /\ turn[t].pc = "post" => row[t] = turn[t].outcome \/ t \in unsaved
  /\ turn[t].pc = "over" /\ row[t] = "running" => t \in unsaved \/ stage \in {"down", "boot"}
  /\ told[t] # "none" => turn[t].pc = "over" /\ (row[t] = told[t] \/ t \in unsaved)

\* A task of the snapshot of shutdown_all is alive or settled.
Drained(t) ==
  stage \in {"drain", "halt", "farewell"} /\ t \in waiting =>
    \/ stage # "farewell" /\ turn[t].pc \in Alive
    \/ turn[t].pc = "over" /\ (row[t] \in Outcomes \/ t \in unsaved)

\* How many calls a task can have begun after its cancel, by where it stands.
LateFits(t) ==
  /\ late[t] <= 2
  /\ Live(t) /\ t \notin event => late[t] = 0
  /\ turn[t].pc \in {"none", "start"} \cup Handler => late[t] = 0
  /\ turn[t].pc = "wait" /\ ~turn[t].last => late[t] = 0
  /\ turn[t].pc = "wait" \/ (turn[t].pc \in Loop /\ ~turn[t].last) => late[t] <= 1

TaskInv == \A t \in Tasks : RowFits(t) /\ Drained(t) /\ LateFits(t)

IInv == TypeOK /\ StepsLeft /\ Quiet /\ TaskInv

\* Only t moves.
OnlyMoves(t) == \A u \in Turns \ {t} : turn'[u] = turn[u]

-----------------------------------------------------------------------------
(* What the operators that move a turn do to its fields.                   *)

\* A budget is a positive number.
LEMMA StepsType == ASSUME NEW t \in Turns PROVE Steps(t) \in Nat \ {0}
BY BudgetsAssumption DEF Steps, Turns

\* Move changes the place of one turn only.
LEMMA MoveFacts ==
  ASSUME turn \in [Turns -> Local], NEW t \in Turns, NEW pc \in Places, Move(t, pc)
  PROVE /\ turn' \in [Turns -> Local]
        /\ turn'[t].pc = pc
        /\ turn'[t].step = turn[t].step
        /\ turn'[t].last = turn[t].last
        /\ turn'[t].outcome = turn[t].outcome
        /\ OnlyMoves(t)
<1>1. turn[t] \in Local
  OBVIOUS
<1>2. [turn[t] EXCEPT !.pc = pc] \in Local
  BY <1>1 DEF Local
<1>3. turn' = [turn EXCEPT ![t] = [turn[t] EXCEPT !.pc = pc]]
  BY DEF Move
<1>4. turn' \in [Turns -> Local]
  BY <1>2, <1>3
<1>5. turn'[t] = [turn[t] EXCEPT !.pc = pc] /\ OnlyMoves(t)
  BY <1>3 DEF OnlyMoves
<1> QED
  BY <1>1, <1>4, <1>5 DEF Local

\* A fresh record of locals has its type.
LEMMA AtType == ASSUME NEW pc \in Places PROVE At(pc) \in Local
BY DEF At, Local

\* Over ends one turn only.
LEMMA OverFacts ==
  ASSUME turn \in [Turns -> Local], NEW t \in Turns, Over(t)
  PROVE /\ turn' \in [Turns -> Local]
        /\ turn'[t].pc = "over"
        /\ turn'[t].step = 0
        /\ OnlyMoves(t)
<1>1. At("over") \in Local
  BY AtType DEF Places
<1>2. turn' = [turn EXCEPT ![t] = At("over")]
  BY DEF Over
<1> QED
  BY <1>1, <1>2 DEF OnlyMoves, At

\* Finish takes one turn out of the loop, a task with its outcome.
LEMMA FinishFacts ==
  ASSUME turn \in [Turns -> Local], NEW t \in Turns, NEW outcome \in Outcomes,
         Finish(t, outcome)
  PROVE /\ turn' \in [Turns -> Local]
        /\ turn'[t].pc = IF t \in Tasks THEN "persist" ELSE "post"
        /\ turn'[t].step = 0
        /\ t \in Tasks => turn'[t].outcome = outcome
        /\ OnlyMoves(t)
<1> DEFINE pc == IF t \in Tasks THEN "persist" ELSE "post"
           given == IF t \in Tasks THEN outcome ELSE "none"
           new == [pc |-> pc, step |-> 0, last |-> FALSE, outcome |-> given]
<1>1. pc \in Places /\ given \in Outcomes \cup {"none"}
  BY DEF Places, Alive
<1>2. new \in Local
  BY <1>1 DEF Local
<1>3. turn' = [turn EXCEPT ![t] = new]
  BY DEF Finish
<1>4. turn' \in [Turns -> Local] /\ turn'[t] = new /\ OnlyMoves(t)
  BY <1>2, <1>3 DEF OnlyMoves
<1> QED
  BY <1>4

\* StartCall puts one turn into the call, counted if it is late, or the queue.
LEMMA StartCallFacts ==
  ASSUME turn \in [Turns -> Local], NEW t \in Turns, NEW k \in Nat, NEW last \in BOOLEAN,
         StartCall(t, k, last)
  PROVE /\ turn' \in [Turns -> Local]
        /\ turn'[t].step = k
        /\ turn'[t].last = last
        /\ \/ turn'[t].pc = "call" /\ CallBegins(t)
           \/ turn'[t].pc = "wait" /\ late' = late
        /\ OnlyMoves(t)
<1> DEFINE new(pc) == [pc |-> pc, step |-> k, last |-> last, outcome |-> "none"]
<1>1. new("call") \in Local /\ new("wait") \in Local
  BY DEF Local, Places, Alive, Loop
<1>2. CASE turn' = [turn EXCEPT ![t] = new("call")] /\ CallBegins(t)
  <2>1. turn' \in [Turns -> Local] /\ turn'[t] = new("call") /\ OnlyMoves(t)
    BY <1>1, <1>2 DEF OnlyMoves
  <2> QED BY <2>1, <1>2
<1>3. CASE turn' = [turn EXCEPT ![t] = new("wait")] /\ late' = late
  <2>1. turn' \in [Turns -> Local] /\ turn'[t] = new("wait") /\ OnlyMoves(t)
    BY <1>1, <1>3 DEF OnlyMoves
  <2> QED BY <2>1, <1>3
<1> QED
  BY <1>2, <1>3 DEF StartCall

\* The top of a step within the budget leads to a counted call or to the end.
LEMMA EnterStepFacts ==
  ASSUME turn \in [Turns -> Local], NEW t \in Turns, NEW k \in 0..Steps(t), EnterStep(t, k)
  PROVE /\ turn' \in [Turns -> Local]
        /\ OnlyMoves(t)
        /\ turn'[t].step <= Steps(t)
        /\ \/ /\ turn'[t].pc = "call" /\ turn'[t].last /\ CallBegins(t)
              /\ k >= Steps(t) \/ t \notin event
           \/ /\ turn'[t].pc = "call" /\ ~turn'[t].last /\ CallBegins(t)
              /\ t \notin event /\ turn'[t].step < Steps(t)
           \/ /\ turn'[t].pc = "wait" /\ turn'[t].last /\ late' = late
              /\ k >= Steps(t) \/ t \notin event
           \/ /\ turn'[t].pc = "wait" /\ ~turn'[t].last /\ late' = late
              /\ t \notin event /\ turn'[t].step < Steps(t)
           \/ /\ turn'[t].pc = (IF t \in Tasks THEN "persist" ELSE "post") /\ late' = late
              /\ t \in Tasks => turn'[t].outcome = "cancelled"
<1> Steps(t) \in Nat \ {0} /\ k \in Nat
  BY StepsType
<1>1. CASE k >= Steps(t) /\ StartCall(t, k, TRUE)
  <2>1. /\ turn' \in [Turns -> Local] /\ OnlyMoves(t)
        /\ turn'[t].step = k /\ turn'[t].last = TRUE
        /\ \/ turn'[t].pc = "call" /\ CallBegins(t)
           \/ turn'[t].pc = "wait" /\ late' = late
    BY <1>1, StartCallFacts
  <2> QED
    BY <1>1, <2>1
<1>2. CASE k < Steps(t) /\ t \in event /\ Finish(t, "cancelled") /\ UNCHANGED late
  <2>1. "cancelled" \in Outcomes
    BY DEF Outcomes
  <2> QED
    BY <1>2, <2>1, FinishFacts
<1>3. CASE k \in 1..(Steps(t) - 1) /\ t \notin event /\ StartCall(t, k, TRUE)
  <2>1. /\ turn' \in [Turns -> Local] /\ OnlyMoves(t)
        /\ turn'[t].step = k /\ turn'[t].last = TRUE
        /\ \/ turn'[t].pc = "call" /\ CallBegins(t)
           \/ turn'[t].pc = "wait" /\ late' = late
    BY <1>3, StartCallFacts
  <2> QED
    BY <1>3, <2>1
<1>4. CASE k < Steps(t) /\ t \notin event /\ StartCall(t, k, FALSE)
  <2>1. /\ turn' \in [Turns -> Local] /\ OnlyMoves(t)
        /\ turn'[t].step = k /\ turn'[t].last = FALSE
        /\ \/ turn'[t].pc = "call" /\ CallBegins(t)
           \/ turn'[t].pc = "wait" /\ late' = late
    BY <1>4, StartCallFacts
  <2> QED
    BY <1>4, <2>1
<1> QED
  BY <1>1, <1>2, <1>3, <1>4 DEF EnterStep

-----------------------------------------------------------------------------
(* Steps that move one turn.                                               *)

Statuses == {"none", "pending", "running"} \cup Outcomes

\* The step of t leaves the other turns and run() alone.
Framed(t) ==
  /\ turn' \in [Turns -> Local] /\ OnlyMoves(t)
  /\ row' \in [Tasks -> Statuses] /\ \A u \in Tasks \ {t} : row'[u] = row[u]
  /\ told' \in [Tasks -> Outcomes \cup {"none"}] /\ \A u \in Tasks \ {t} : told'[u] = told[u]
  /\ late' \in [Tasks -> Nat] /\ \A u \in Tasks \ {t} : late'[u] = late[u]
  /\ unsaved \subseteq unsaved' /\ unsaved' \subseteq Tasks
  /\ killed' \subseteq Turns
  /\ UNCHANGED <<event, stage, waiting, others>>

\* If such a step is right for t it keeps the invariant.
LEMMA FrameKeeps ==
  ASSUME IInv, NEW t \in Turns, Framed(t),
         stage \notin {"down", "boot"},
         turn'[t].step <= Steps(t),
         turn'[t].pc \in Loop /\ ~turn'[t].last => turn'[t].step < Steps(t),
         t \in Tasks => RowFits(t)' /\ Drained(t)' /\ LateFits(t)'
  PROVE  IInv'
<1>1. TypeOK'
  BY DEF IInv, TypeOK, Framed, OnlyMoves, Statuses
<1>2. StepsLeft'
  BY DEF IInv, StepsLeft, Framed, OnlyMoves
<1>3. Quiet'
  BY DEF Framed, Quiet
<1>4. ASSUME NEW u \in Tasks PROVE RowFits(u)' /\ Drained(u)' /\ LateFits(u)'
  <2>1. CASE u = t
    BY <2>1
  <2>2. CASE u # t
    <3>1. /\ turn'[u] = turn[u] /\ row'[u] = row[u] /\ told'[u] = told[u] /\ late'[u] = late[u]
          /\ unsaved \subseteq unsaved' /\ UNCHANGED <<event, stage, waiting, others>>
      BY <2>2 DEF Framed, OnlyMoves, Turns
    <3>2. RowFits(u) /\ Drained(u) /\ LateFits(u)
      BY DEF IInv, TaskInv
    <3>3. RowFits(u)'
      BY <3>1, <3>2 DEF RowFits
    <3>4. Drained(u)'
      BY <3>1, <3>2 DEF Drained
    <3>5. LateFits(u)'
      BY <3>1, <3>2 DEF LateFits, Live
    <3> QED
      BY <3>3, <3>4, <3>5
  <2> QED
    BY <2>1, <2>2
<1> QED
  BY <1>1, <1>2, <1>3, <1>4 DEF IInv, TaskInv

\* A turn that moves is alive, so the process is up.
LEMMA MoverIsUp ==
  ASSUME IInv, NEW t \in Turns, turn[t].pc \notin {"none", "over"}
  PROVE  stage \notin {"down", "boot"}
BY DEF IInv, Quiet, Live

\* A call that begins counts for its own turn only, and only if it is late.
LEMMA CallBeginsFacts ==
  ASSUME TypeOK, NEW t \in Turns, CallBegins(t)
  PROVE /\ late' \in [Tasks -> Nat]
        /\ \A u \in Tasks \ {t} : late'[u] = late[u]
        /\ t \in Tasks => late'[t] = IF t \in event THEN late[t] + 1 ELSE late[t]
BY DEF TypeOK, CallBegins

\* What the invariant says of a task.
LEMMA TaskFacts ==
  ASSUME IInv, NEW t \in Tasks
  PROVE  RowFits(t) /\ Drained(t) /\ LateFits(t) /\ late[t] \in Nat
BY DEF IInv, TaskInv, TypeOK

-----------------------------------------------------------------------------
(* The agent loop.                                                         *)

\* The semaphore lets a queued turn through.
LEMMA AcquireKeeps == ASSUME IInv, NEW t \in Turns, Acquire(t) PROVE IInv'
<1> USE DEF Loop
<1>1. turn[t].pc = "wait" /\ stage \notin {"down", "boot"}
  BY MoverIsUp DEF Acquire, RunsAt
<1>2. "call" \in Places /\ turn \in [Turns -> Local] /\ Move(t, "call") /\ CallBegins(t)
  BY DEF Places, Alive, IInv, TypeOK, Acquire
<1>3. /\ turn' \in [Turns -> Local] /\ OnlyMoves(t) /\ turn'[t].pc = "call"
      /\ turn'[t].step = turn[t].step /\ turn'[t].last = turn[t].last
  BY <1>2, MoveFacts
<1>4. /\ late' \in [Tasks -> Nat] /\ \A u \in Tasks \ {t} : late'[u] = late[u]
      /\ t \in Tasks => late'[t] = IF t \in event THEN late[t] + 1 ELSE late[t]
  BY <1>2, CallBeginsFacts DEF IInv
<1>5. Framed(t)
  BY <1>3, <1>4 DEF Framed, Acquire, memory, IInv, TypeOK, Statuses
<1>6. turn'[t].step <= Steps(t) /\ (~turn'[t].last => turn'[t].step < Steps(t))
  BY <1>1, <1>3 DEF IInv, TypeOK, StepsLeft
<1>7. ASSUME t \in Tasks PROVE RowFits(t)' /\ Drained(t)' /\ LateFits(t)'
  <2>1. RowFits(t) /\ Drained(t) /\ LateFits(t) /\ late[t] \in Nat
    BY <1>7, TaskFacts
  <2>2. UNCHANGED <<row, told, unsaved, event, stage, waiting>>
    BY DEF Acquire, memory
  <2>3. RowFits(t)' /\ Drained(t)'
    BY <1>1, <1>3, <2>1, <2>2 DEF RowFits, Drained, Alive
  <2>4. LateFits(t)'
    BY <1>1, <1>3, <1>4, <1>7, <2>1, <2>2 DEF LateFits, Live, Handler
  <2> QED
    BY <2>3, <2>4
<1> QED
  BY <1>1, <1>3, <1>5, <1>6, <1>7, FrameKeeps

\* The LLM answers.
LEMMA AnswerKeeps == ASSUME IInv, NEW t \in Turns, Answer(t) PROVE IInv'
<1> USE DEF Loop
<1>1. turn[t].pc = "call" /\ stage \notin {"down", "boot"}
  BY MoverIsUp DEF Answer, RunsAt
<1>2. "after" \in Places /\ turn \in [Turns -> Local] /\ Move(t, "after")
  BY DEF Places, Alive, IInv, TypeOK, Answer
<1>3. /\ turn' \in [Turns -> Local] /\ OnlyMoves(t) /\ turn'[t].pc = "after"
      /\ turn'[t].step = turn[t].step /\ turn'[t].last = turn[t].last
  BY <1>2, MoveFacts
<1>4. UNCHANGED <<row, event, killed, stage, waiting, others, told, late, unsaved>>
  BY DEF Answer, memory, history
<1>5. Framed(t)
  BY <1>3, <1>4 DEF Framed, IInv, TypeOK, Statuses
<1>6. turn'[t].step <= Steps(t) /\ (~turn'[t].last => turn'[t].step < Steps(t))
  BY <1>1, <1>3 DEF IInv, TypeOK, StepsLeft
<1>7. ASSUME t \in Tasks PROVE RowFits(t)' /\ Drained(t)' /\ LateFits(t)'
  <2>1. RowFits(t) /\ Drained(t) /\ LateFits(t)
    BY <1>7, TaskFacts
  <2>2. RowFits(t)' /\ Drained(t)'
    BY <1>1, <1>3, <1>4, <2>1 DEF RowFits, Drained, Alive
  <2>3. LateFits(t)'
    BY <1>1, <1>3, <1>4, <2>1 DEF LateFits, Live, Handler
  <2> QED
    BY <2>2, <2>3
<1> QED
  BY <1>1, <1>3, <1>5, <1>6, <1>7, FrameKeeps

\* The loop of a turn ends with an outcome, nothing else changes.
LEMMA LoopEndKeeps ==
  ASSUME IInv, NEW t \in Turns, turn[t].pc \in Loop \cup {"start"},
         t \in Tasks => turn[t].pc \in Loop,
         NEW outcome \in Outcomes, Finish(t, outcome),
         killed' \subseteq Turns,
         UNCHANGED <<row, event, stage, waiting, others, told, late, unsaved>>
  PROVE  IInv'
<1> USE DEF Loop
<1>1. stage \notin {"down", "boot"} /\ turn \in [Turns -> Local]
  BY MoverIsUp DEF IInv, TypeOK
<1>2. /\ turn' \in [Turns -> Local] /\ OnlyMoves(t)
      /\ turn'[t].pc = IF t \in Tasks THEN "persist" ELSE "post"
      /\ turn'[t].step = 0
      /\ t \in Tasks => turn'[t].outcome = outcome
  BY <1>1, FinishFacts
<1>3. Framed(t)
  BY <1>2 DEF Framed, IInv, TypeOK, Statuses
<1>4. turn'[t].step <= Steps(t) /\ turn'[t].pc \notin Loop
  BY <1>2, StepsType
<1>5. ASSUME t \in Tasks PROVE RowFits(t)' /\ Drained(t)' /\ LateFits(t)'
  <2>1. RowFits(t) /\ Drained(t) /\ LateFits(t)
    BY <1>5, TaskFacts
  <2>2. RowFits(t)' /\ Drained(t)'
    BY <1>2, <1>5, <2>1 DEF RowFits, Drained, Alive
  <2>3. LateFits(t)'
    BY <1>2, <1>5, <2>1 DEF LateFits, Live, Handler
  <2> QED
    BY <2>2, <2>3
<1> QED
  BY <1>1, <1>3, <1>4, <1>5, FrameKeeps

\* A turn enters step k, a task with its row at "running" and at most one
\* late call behind it.
LEMMA EnterKeeps ==
  ASSUME IInv, NEW t \in Turns, NEW k \in 0..Steps(t), EnterStep(t, k),
         turn[t].pc \in Loop \cup {"start"},
         row' \in [Tasks -> Statuses], \A u \in Tasks \ {t} : row'[u] = row[u],
         t \in Tasks => row'[t] = "running" /\ late[t] <= 1,
         UNCHANGED <<memory, told, unsaved>>
  PROVE  IInv'
<1> USE DEF Loop
<1>1. stage \notin {"down", "boot"} /\ turn \in [Turns -> Local]
  BY MoverIsUp DEF IInv, TypeOK
<1> DEFINE loopEnd == /\ turn'[t].pc = (IF t \in Tasks THEN "persist" ELSE "post")
                      /\ late' = late
                      /\ t \in Tasks => turn'[t].outcome = "cancelled"
           calls == turn'[t].pc = "call" /\ CallBegins(t)
           queues == turn'[t].pc = "wait" /\ late' = late
           final == turn'[t].last /\ (k >= Steps(t) \/ t \notin event)
           more == ~turn'[t].last /\ t \notin event /\ turn'[t].step < Steps(t)
<1>2. /\ turn' \in [Turns -> Local] /\ OnlyMoves(t) /\ turn'[t].step <= Steps(t)
      /\ ((calls \/ queues) /\ (final \/ more)) \/ loopEnd
  BY <1>1, EnterStepFacts
<1>3. /\ late' \in [Tasks -> Nat] /\ \A u \in Tasks \ {t} : late'[u] = late[u]
      /\ t \in Tasks => late'[t] = late[t] \/ (calls /\ t \in event /\ late'[t] = late[t] + 1)
  <2>1. CASE calls
    BY <2>1, CallBeginsFacts DEF IInv
  <2>2. CASE late' = late
    BY <2>2 DEF IInv, TypeOK
  <2> QED
    BY <1>2, <2>1, <2>2
<1>4. UNCHANGED <<event, killed, stage, waiting, others, told, unsaved>>
  BY DEF memory
<1>5. Framed(t)
  BY <1>2, <1>3, <1>4 DEF Framed, IInv, TypeOK
<1>6. turn'[t].pc \in Loop /\ ~turn'[t].last => turn'[t].step < Steps(t)
  BY <1>2
<1>7. ASSUME t \in Tasks PROVE RowFits(t)' /\ Drained(t)' /\ LateFits(t)'
  <2>1. RowFits(t) /\ Drained(t) /\ LateFits(t) /\ late[t] \in Nat
    BY <1>7, TaskFacts
  <2>2. turn'[t].pc \in {"call", "wait", "persist"}
    BY <1>2, <1>7
  <2>3. turn'[t].pc = "persist" => turn'[t].outcome \in Outcomes
    BY <1>2, <1>7 DEF Outcomes
  <2>4. RowFits(t)'
    BY <1>4, <1>7, <2>1, <2>2, <2>3 DEF RowFits
  <2>5. Drained(t)'
    BY <1>4, <2>1, <2>2 DEF Drained, Alive
  <2>6. LateFits(t)'
    <3>1. t \notin event => late[t] = 0
      BY <2>1 DEF LateFits, Live
    <3>2. CASE loopEnd
      BY <1>4, <1>7, <2>1, <3>1, <3>2 DEF LateFits, Handler
    <3>3. CASE (calls \/ queues) /\ more
      BY <1>3, <1>4, <1>7, <2>1, <3>1, <3>3 DEF LateFits, Handler
    <3>4. CASE (calls \/ queues) /\ final
      BY <1>3, <1>4, <1>7, <2>1, <3>1, <3>4 DEF LateFits, Handler
    <3> QED
      BY <1>2, <3>2, <3>3, <3>4
  <2> QED
    BY <2>4, <2>5, <2>6
<1> QED
  BY <1>1, <1>2, <1>5, <1>6, <1>7, FrameKeeps

\* Any reaction to the LLM keeps the invariant.
LEMMA ReactionKeeps == ASSUME IInv, NEW t \in Turns, Reaction(t) PROVE IInv'
<1>1. CASE Answer(t)
  BY <1>1, AnswerKeeps
<1>2. CASE CallFails(t)
  <2>1. PICK outcome \in {"done", "failed"} : Finish(t, outcome)
    BY <1>2 DEF CallFails
  <2>2. outcome \in Outcomes /\ turn[t].pc \in Loop /\ killed' \subseteq Turns
    BY <1>2 DEF Outcomes, CallFails, RunsAt, Loop, memory, IInv, TypeOK
  <2> QED
    BY <1>2, <2>1, <2>2, LoopEndKeeps DEF CallFails, memory, history
<1>3. CASE GiveText(t)
  <2>1. PICK outcome \in {"done", "failed"} : Finish(t, outcome)
    BY <1>3 DEF GiveText
  <2>2. outcome \in Outcomes /\ turn[t].pc \in Loop /\ killed' \subseteq Turns
    BY <1>3 DEF Outcomes, GiveText, RunsAt, Loop, memory, IInv, TypeOK
  <2> QED
    BY <1>3, <2>1, <2>2, LoopEndKeeps DEF GiveText, memory, history
<1>4. CASE NextStep(t)
  <2>1. turn[t].pc = "after" /\ ~turn[t].last /\ EnterStep(t, turn[t].step + 1)
        /\ UNCHANGED <<row, memory, told, unsaved>>
    BY <1>4 DEF NextStep, RunsAt
  <2>2. turn[t].step + 1 \in 0..Steps(t)
    <3>1. turn[t].step \in Nat /\ turn[t].step < Steps(t)
      BY <2>1 DEF IInv, TypeOK, StepsLeft, Local, Loop
    <3> QED
      BY <3>1, StepsType
  <2>3. t \in Tasks => row'[t] = "running" /\ late[t] <= 1
    BY <2>1, TaskFacts DEF RowFits, LateFits, Loop
  <2>4. row' \in [Tasks -> Statuses] /\ (\A u \in Tasks \ {t} : row'[u] = row[u])
    BY <2>1 DEF IInv, TypeOK, Statuses
  <2> QED
    BY <2>1, <2>2, <2>3, <2>4, EnterKeeps DEF Loop
<1> QED
  BY <1>1, <1>2, <1>3, <1>4 DEF Reaction

-----------------------------------------------------------------------------
(* Before and after the loop.                                              *)

\* A turn that moves to a place outside of the loop, with its row, fits.
LEMMA MoveKeeps ==
  ASSUME IInv, NEW t \in Turns, NEW pc \in Places \ Loop, Move(t, pc),
         turn[t].pc # "none",
         turn[t].pc # "over",
         row' \in [Tasks -> Statuses], \A u \in Tasks \ {t} : row'[u] = row[u],
         unsaved \subseteq unsaved', unsaved' \subseteq Tasks,
         UNCHANGED <<memory, told, late>>,
         t \in Tasks => /\ turn[t].pc \in Alive => pc \in Alive
                        /\ pc \in Alive \cup Handler
                        /\ pc \in {"start"} \cup Handler => turn[t].pc \in Handler
                        /\ RowFits(t)'
  PROVE  IInv'
<1> USE DEF Loop
<1>1. stage \notin {"down", "boot"} /\ turn \in [Turns -> Local]
  BY MoverIsUp DEF IInv, TypeOK
<1>2. /\ turn' \in [Turns -> Local] /\ turn'[t].pc = pc /\ turn'[t].step = turn[t].step
      /\ OnlyMoves(t)
  BY <1>1, MoveFacts
<1>3. UNCHANGED <<event, killed, stage, waiting, others>>
  BY DEF memory
<1>4. Framed(t)
  BY <1>2, <1>3 DEF Framed, IInv, TypeOK
<1>5. turn'[t].step <= Steps(t)
  BY <1>2 DEF IInv, TypeOK
<1>6. ASSUME t \in Tasks PROVE Drained(t)' /\ LateFits(t)'
  <2>1. Drained(t) /\ LateFits(t)
    BY <1>6, TaskFacts
  <2>2. Drained(t)'
    BY <1>2, <1>3, <1>6, <2>1 DEF Drained, Alive
  <2>3. LateFits(t)'
    BY <1>2, <1>3, <1>6, <2>1 DEF LateFits, Live, Handler, Alive
  <2> QED
    BY <2>2, <2>3
<1> QED
  BY <1>1, <1>2, <1>4, <1>5, <1>6, FrameKeeps

\* A turn that ends fits, if its row does and a task is settled.
LEMMA OverKeeps ==
  ASSUME IInv, NEW t \in Turns, Over(t),
         turn[t].pc # "none",
         turn[t].pc # "over",
         row' \in [Tasks -> Statuses], \A u \in Tasks \ {t} : row'[u] = row[u],
         told' \in [Tasks -> Outcomes \cup {"none"}], \A u \in Tasks \ {t} : told'[u] = told[u],
         unsaved \subseteq unsaved', unsaved' \subseteq Tasks, killed' \subseteq Turns,
         UNCHANGED <<event, stage, waiting, others, late>>,
         t \in Tasks => /\ turn[t].pc \in Alive => row'[t] \in Outcomes \/ t \in unsaved'
                        /\ row'[t] = "running" => t \in unsaved'
                        /\ told'[t] # "none" => row'[t] = told'[t] \/ t \in unsaved'
  PROVE  IInv'
<1>1. stage \notin {"down", "boot"} /\ turn \in [Turns -> Local]
  BY MoverIsUp DEF IInv, TypeOK
<1>2. /\ turn' \in [Turns -> Local] /\ turn'[t].pc = "over" /\ turn'[t].step = 0
      /\ OnlyMoves(t)
  BY <1>1, OverFacts
<1>3. Framed(t)
  BY <1>2 DEF Framed, IInv, TypeOK
<1>4. turn'[t].step <= Steps(t) /\ turn'[t].pc \notin Loop
  BY <1>2, StepsType DEF Loop
<1>5. ASSUME t \in Tasks PROVE RowFits(t)' /\ Drained(t)' /\ LateFits(t)'
  <2>1. Drained(t) /\ LateFits(t)
    BY <1>5, TaskFacts
  <2>2. RowFits(t)'
    BY <1>2, <1>5 DEF RowFits, Loop
  <2>3. Drained(t)'
    BY <1>2, <1>5, <2>1 DEF Drained
  <2>4. LateFits(t)'
    BY <1>2, <2>1 DEF LateFits, Live, Handler, Loop
  <2> QED
    BY <2>2, <2>3, <2>4
<1> QED
  BY <1>1, <1>3, <1>4, <1>5, FrameKeeps

\* A command passes the shutdown gate.
LEMMA AskKeeps ==
  ASSUME IInv, NEW t \in Turns, AskTask(t) \/ AskReply(t), t \in Tasks => AskTask(t)
  PROVE  IInv'
<1>1. /\ stage = "up" /\ turn[t].pc = "none"
      /\ UNCHANGED <<row, event, killed, stage, waiting, others, told, late, unsaved>>
  BY DEF AskTask, AskReply, memory, history
<1>2. turn' = [turn EXCEPT ![t] = At("issuing")] \/ turn' = [turn EXCEPT ![t] = At("asked")]
  BY DEF AskTask, AskReply
<1>3. At("issuing") \in Local /\ At("asked") \in Local
  BY AtType DEF Places, Handler
<1>4. turn' \in [Turns -> Local] /\ OnlyMoves(t)
  BY <1>2, <1>3 DEF IInv, TypeOK, OnlyMoves
<1>5. turn'[t].pc \in {"issuing", "asked"} /\ turn'[t].step = 0
  BY <1>2 DEF IInv, TypeOK, At
<1>6. Framed(t)
  BY <1>1, <1>4 DEF Framed, IInv, TypeOK, Statuses
<1>7. ASSUME t \in Tasks PROVE RowFits(t)' /\ Drained(t)' /\ LateFits(t)'
  <2>1. RowFits(t) /\ Drained(t) /\ LateFits(t)
    BY <1>7, TaskFacts
  <2>2. RowFits(t)' /\ Drained(t)'
    BY <1>1, <1>5, <2>1 DEF RowFits, Drained, Loop
  <2>3. LateFits(t)'
    BY <1>1, <1>5, <2>1 DEF LateFits, Live, Loop, Handler
  <2> QED
    BY <2>2, <2>3
<1>8. turn'[t].step <= Steps(t) /\ turn'[t].pc \notin Loop
  BY <1>5, StepsType DEF Loop
<1> QED
  BY <1>1, <1>6, <1>7, <1>8, FrameKeeps

\* Everything that happens to a turn before its first step.
LEMMA StartKeeps == ASSUME IInv, NEW t \in Turns, Start(t) PROVE IInv'
<1> USE DEF Statuses
<1>1. CASE t \in Tasks /\ Insert(t)
  <2>1. /\ turn[t].pc = "issuing" /\ Move(t, "inserted") /\ row' = [row EXCEPT ![t] = "pending"]
        /\ UNCHANGED <<memory, told, late, unsaved>>
    BY <1>1 DEF Insert, RunsAt, history
  <2>2. turn'[t].pc = "inserted"
    BY <2>1, MoveFacts DEF IInv, TypeOK, Places, Handler
  <2>3. RowFits(t)'
    BY <1>1, <2>1, <2>2, TaskFacts DEF RowFits, Loop, IInv, TypeOK
  <2>4. "inserted" \in Places \ Loop /\ row' \in [Tasks -> Statuses]
        /\ (\A u \in Tasks \ {t} : row'[u] = row[u])
    BY <2>1 DEF Places, Handler, Loop, IInv, TypeOK
  <2> QED
    BY <2>1, <2>3, <2>4, MoveKeeps DEF IInv, TypeOK, Alive, Handler, Loop
<1>2. CASE t \in Tasks /\ IssueFails(t)
  <2>1. turn[t].pc = "issuing" /\ Over(t) /\ UNCHANGED <<row, memory, history>>
    BY <1>2 DEF IssueFails, RunsAt
  <2>2. row[t] = "none" /\ told[t] = "none" /\ turn[t].pc \notin Alive
    BY <1>2, <2>1, TaskFacts DEF RowFits, Alive, Loop
  <2> QED
    BY <2>1, <2>2, OverKeeps DEF IInv, TypeOK, memory, history
<1>3. CASE t \in Tasks /\ Spawn(t)
  <2>1. turn[t].pc = "inserted" /\ Move(t, "start") /\ UNCHANGED <<row, memory, history>>
    BY <1>3 DEF Spawn, RunsAt
  <2>2. turn'[t].pc = "start"
    BY <2>1, MoveFacts DEF IInv, TypeOK, Places, Alive
  <2>3. RowFits(t)'
    BY <1>3, <2>1, <2>2, TaskFacts DEF RowFits, Loop, history
  <2>4. "start" \in Places \ Loop
    BY DEF Places, Alive, Loop
  <2> QED
    BY <2>1, <2>3, <2>4, MoveKeeps DEF IInv, TypeOK, Alive, Handler, Loop, history
<1>4. CASE t \in Tasks /\ Begin(t)
  <2>1. /\ turn[t].pc = "start" /\ EnterStep(t, 0) /\ row' = [row EXCEPT ![t] = "running"]
        /\ UNCHANGED <<memory, told, unsaved>>
    BY <1>4 DEF Begin, RunsAt
  <2>2. 0 \in 0..Steps(t)
    BY StepsType
  <2>3. late[t] <= 1 /\ row'[t] = "running"
    BY <1>4, <2>1, TaskFacts DEF LateFits, IInv, TypeOK
  <2>4. row' \in [Tasks -> Statuses] /\ (\A u \in Tasks \ {t} : row'[u] = row[u])
    BY <2>1 DEF IInv, TypeOK
  <2> QED
    BY <2>1, <2>2, <2>3, <2>4, EnterKeeps
<1>5. CASE t \in Tasks /\ BeginFails(t)
  <2>1. /\ turn[t].pc = "start" /\ Over(t) /\ unsaved' = unsaved \cup {t}
        /\ UNCHANGED <<row, memory, told, late>>
    BY <1>5 DEF BeginFails, RunsAt
  <2> QED
    BY <1>5, <2>1, OverKeeps DEF IInv, TypeOK, memory
<1>6. CASE t \in Replies /\ Engage(t)
  <2>1. turn[t].pc = "asked" /\ Move(t, "start") /\ UNCHANGED <<row, memory, history>>
    BY <1>6 DEF Engage, RunsAt
  <2>2. "start" \in Places \ Loop /\ t \notin Tasks
    BY <1>6, TurnsAssumption DEF Places, Alive, Loop
  <2> QED
    BY <2>1, <2>2, MoveKeeps DEF IInv, TypeOK, history
<1>7. CASE t \in Replies /\ Dropped(t)
  <2>1. turn[t].pc = "asked" /\ Over(t) /\ UNCHANGED <<row, memory, history>>
    BY <1>7 DEF Dropped, RunsAt
  <2>2. t \notin Tasks
    BY <1>7, TurnsAssumption
  <2> QED
    BY <2>1, <2>2, OverKeeps DEF IInv, TypeOK, memory, history
<1>8. CASE t \in Replies /\ BeginReply(t)
  <2>1. turn[t].pc = "start" /\ UNCHANGED <<row, memory, told, unsaved>>
        /\ (EnterStep(t, 0) \/ (Finish(t, "failed") /\ UNCHANGED late))
    BY <1>8 DEF BeginReply, RunsAt
  <2>2. t \notin Tasks /\ 0 \in 0..Steps(t)
    BY <1>8, StepsType, TurnsAssumption
  <2>3. CASE EnterStep(t, 0)
    BY <2>1, <2>2, <2>3, EnterKeeps DEF IInv, TypeOK
  <2>4. CASE Finish(t, "failed") /\ UNCHANGED late
    <3>1. /\ "failed" \in Outcomes /\ killed' \subseteq Turns
          /\ UNCHANGED <<event, stage, waiting, others>>
      BY <2>1 DEF Outcomes, memory, IInv, TypeOK
    <3> QED
      BY <2>1, <2>2, <2>4, <3>1, LoopEndKeeps
  <2> QED
    BY <2>1, <2>3, <2>4
<1> QED
  BY <1>1, <1>2, <1>3, <1>4, <1>5, <1>6, <1>7, <1>8 DEF Start

\* _persist_outcome, done or failed.
LEMMA StoreOutcomeKeeps == ASSUME IInv, NEW t \in Tasks, StoreOutcome(t) PROVE IInv'
<1> USE DEF Statuses
<1>1. /\ turn[t].pc = "persist" /\ Move(t, "post")
      /\ UNCHANGED <<memory, told, late>>
      /\ \/ row' = [row EXCEPT ![t] = turn[t].outcome] /\ unsaved' = unsaved
         \/ row' = row /\ unsaved' = unsaved \cup {t}
  BY DEF StoreOutcome, Persist, PersistFails, RunsAt, history
<1>2. t \in Turns /\ "post" \in Places \ Loop /\ turn \in [Turns -> Local]
  BY DEF Turns, Places, Alive, Loop, IInv, TypeOK
<1>3. turn'[t].pc = "post" /\ turn'[t].outcome = turn[t].outcome
  BY <1>1, <1>2, MoveFacts
<1>4. RowFits(t) /\ turn[t].outcome \in Outcomes
  BY <1>1, TaskFacts DEF RowFits
<1>5. row' \in [Tasks -> Statuses] /\ (\A u \in Tasks \ {t} : row'[u] = row[u])
  BY <1>1, <1>4 DEF IInv, TypeOK
<1>6. row'[t] = turn[t].outcome \/ t \in unsaved'
  BY <1>1 DEF IInv, TypeOK
<1>7. RowFits(t)'
  BY <1>1, <1>3, <1>4, <1>6 DEF RowFits, Loop
<1>8. unsaved \subseteq unsaved' /\ unsaved' \subseteq Tasks
  BY <1>1 DEF IInv, TypeOK
<1> QED
  BY <1>1, <1>2, <1>5, <1>7, <1>8, MoveKeeps DEF Alive, Handler

\* _post_result, and the post of a reply.
LEMMA PostKeeps == ASSUME IInv, NEW t \in Turns, Post(t) PROVE IInv'
<1>1. /\ turn[t].pc = "post" /\ Over(t) /\ UNCHANGED <<row, memory, late, unsaved>>
      /\ (t \in Tasks /\ told' = [told EXCEPT ![t] = turn[t].outcome]) \/ told' = told
  BY DEF Post, RunsAt, Heard
<1>2. t \in Tasks => /\ turn[t].outcome \in Outcomes /\ told[t] = "none"
                     /\ row[t] = turn[t].outcome \/ t \in unsaved
  BY <1>1, TaskFacts DEF RowFits
<1>3. told' \in [Tasks -> Outcomes \cup {"none"}] /\ (\A u \in Tasks \ {t} : told'[u] = told[u])
  BY <1>1, <1>2 DEF IInv, TypeOK
<1>4. t \in Tasks => told'[t] \in {"none", turn[t].outcome}
  BY <1>1, <1>2 DEF IInv, TypeOK
<1>5. row' \in [Tasks -> Statuses] /\ unsaved' \subseteq Tasks /\ killed' \subseteq Turns
      /\ UNCHANGED <<event, stage, waiting, others>>
  BY <1>1 DEF IInv, TypeOK, Statuses, memory
<1>6. t \in Tasks => /\ row'[t] \in Outcomes \/ t \in unsaved'
                     /\ row'[t] = "running" => t \in unsaved'
                     /\ told'[t] # "none" => row'[t] = told'[t] \/ t \in unsaved'
  BY <1>1, <1>2, <1>4 DEF Outcomes
<1> QED
  BY <1>1, <1>3, <1>5, <1>6, OverKeeps

\* CancelledError, wherever it hits.
LEMMA InterruptKeeps == ASSUME IInv, NEW t \in Turns, Interrupt(t) PROVE IInv'
<1> USE DEF Statuses
<1>1. killed' \subseteq Turns /\ UNCHANGED <<event, stage, waiting, others, late>>
  BY DEF Interrupt, IInv, TypeOK
<1>2. CASE InterruptLoop(t)
  <2>1. turn[t].pc \in Loop /\ UNCHANGED <<row, told, unsaved>>
        /\ (IF t \in Tasks THEN Finish(t, "cancelled") ELSE Over(t))
    BY <1>2 DEF InterruptLoop
  <2>2. CASE t \in Tasks
    <3>1. "cancelled" \in Outcomes /\ Finish(t, "cancelled")
      BY <2>1, <2>2 DEF Outcomes
    <3> QED
      BY <1>1, <2>1, <2>2, <3>1, LoopEndKeeps
  <2>3. CASE t \notin Tasks
    BY <1>1, <2>1, <2>3, OverKeeps DEF IInv, TypeOK, Loop
  <2> QED
    BY <2>2, <2>3
<1>3. CASE InterruptWrite(t)
  <2>1. /\ t \in Tasks /\ Over(t) /\ unsaved' = unsaved \cup {t} /\ told' = told
        /\ turn[t].pc \in {"start", "persist"}
        /\ \/ row' = row
           \/ row' = [row EXCEPT ![t] = "running"]
           \/ turn[t].pc = "persist" /\ row' = [row EXCEPT ![t] = turn[t].outcome]
    BY <1>3 DEF InterruptWrite
  <2>2. turn[t].pc = "persist" => turn[t].outcome \in Outcomes
    BY <2>1, TaskFacts DEF RowFits
  <2>3. row' \in [Tasks -> Statuses] /\ (\A u \in Tasks \ {t} : row'[u] = row[u])
    BY <2>1, <2>2 DEF IInv, TypeOK
  <2>4. told' \in [Tasks -> Outcomes \cup {"none"}] /\ unsaved' \subseteq Tasks
    BY <2>1 DEF IInv, TypeOK
  <2> QED
    BY <1>1, <2>1, <2>3, <2>4, OverKeeps
<1>4. CASE InterruptPost(t)
  <2>1. /\ turn[t].pc = "post" /\ Over(t) /\ UNCHANGED <<row, unsaved>>
        /\ (t \in Tasks /\ told' = [told EXCEPT ![t] = turn[t].outcome]) \/ told' = told
    BY <1>4 DEF InterruptPost, Heard
  <2>2. t \in Tasks => /\ turn[t].outcome \in Outcomes /\ told[t] = "none"
                       /\ row[t] = turn[t].outcome \/ t \in unsaved
    BY <2>1, TaskFacts DEF RowFits
  <2>3. told' \in [Tasks -> Outcomes \cup {"none"}] /\ (\A u \in Tasks \ {t} : told'[u] = told[u])
    BY <2>1, <2>2 DEF IInv, TypeOK
  <2>4. t \in Tasks => told'[t] \in {"none", turn[t].outcome}
    BY <2>1, <2>2 DEF IInv, TypeOK
  <2>5. row' \in [Tasks -> Statuses] /\ unsaved' \subseteq Tasks
    BY <2>1 DEF IInv, TypeOK
  <2>6. t \in Tasks => /\ row'[t] \in Outcomes \/ t \in unsaved'
                       /\ row'[t] = "running" => t \in unsaved'
                       /\ told'[t] # "none" => row'[t] = told'[t] \/ t \in unsaved'
    BY <2>1, <2>2, <2>4 DEF Outcomes
  <2> QED
    BY <1>1, <2>1, <2>3, <2>5, <2>6, OverKeeps
<1>5. CASE InterruptStart(t)
  <2>1. t \notin Tasks /\ turn[t].pc = "start" /\ Over(t) /\ UNCHANGED <<row, told, unsaved>>
    BY <1>5, TurnsAssumption DEF InterruptStart
  <2> QED
    BY <1>1, <2>1, OverKeeps DEF IInv, TypeOK
<1> QED
  BY <1>2, <1>3, <1>4, <1>5 DEF Interrupt

-----------------------------------------------------------------------------
(* run(), and !cancel.                                                     *)

\* The step leaves all turns and their rows alone and goes from one stage to
\* another; what that asks of the tasks is left to show.
LEMMA StageKeeps ==
  ASSUME IInv, UNCHANGED <<turn, row, told, late>>,
         event' \subseteq Tasks, event \subseteq event',
         killed' \subseteq Turns, waiting' \subseteq Turns, stage' \in Stages,
         unsaved \subseteq unsaved', unsaved' \subseteq Tasks, others' \in 0..MaxCalls,
         stage' \in {"down", "boot"} => stage \in {"down", "boot"},
         \A t \in Tasks : /\ turn[t].pc = "over" /\ row[t] = "running" =>
                               t \in unsaved' \/ stage' \in {"down", "boot"}
                          /\ Drained(t)'
  PROVE  IInv'
<1>1. TypeOK' /\ StepsLeft'
  BY DEF IInv, TypeOK, StepsLeft
<1>2. Quiet'
  BY DEF IInv, Quiet, Live
<1>3. ASSUME NEW t \in Tasks PROVE RowFits(t)' /\ Drained(t)' /\ LateFits(t)'
  <2>1. RowFits(t) /\ LateFits(t)
    BY TaskFacts
  <2>2. RowFits(t)'
    BY <2>1 DEF RowFits
  <2>3. LateFits(t)'
    BY <2>1 DEF LateFits, Live
  <2> QED
    BY <2>2, <2>3
<1> QED
  BY <1>1, <1>2, <1>3 DEF IInv, TaskInv

\* !cancel sets an event.
LEMMA CancelKeeps ==
  ASSUME IInv, NEW t \in Tasks, NEW who \in Person, CancelTask(t, who) PROVE IInv'
<1>1. /\ event' = event \cup {t}
      /\ UNCHANGED <<row, turn, killed, stage, waiting, others, told, late, unsaved>>
  BY DEF CancelTask, history
<1>2. \A u \in Tasks : RowFits(u) /\ Drained(u)
  BY TaskFacts
<1>3. \A u \in Tasks : Drained(u)'
  BY <1>1, <1>2 DEF Drained
<1> QED
  BY <1>1, <1>2, <1>3, StageKeeps DEF RowFits, IInv, TypeOK

\* The process starts, connects and winds down, up to closing the database.
LEMMA StagesKeep ==
  ASSUME IInv,
         \/ Boot \/ Connect \/ CleanupFails \/ BeginShutdown \/ GraceTimeout \/ GraceOver
         \/ StartDrain \/ DrainTimeout \/ DrainOver \/ Close
  PROVE  IInv'
<1>1. \A t \in Tasks : RowFits(t) /\ Drained(t)
  BY TaskFacts
<1>2. TypeOK
  BY DEF IInv
<1>3. Running \subseteq Tasks /\ InFlight \subseteq Turns /\ Tasks \subseteq Turns
  BY DEF Running, InFlight, Turns
<1> USE DEF Stages
<1>4. CASE Boot
  <2>1. \A t \in Tasks : Drained(t)'
    BY <1>4 DEF Boot, Drained
  <2> QED
    BY <1>1, <1>2, <1>4, <2>1, StageKeeps DEF Boot, history, TypeOK
<1>5. CASE Connect
  <2>1. \A t \in Tasks : Drained(t)'
    BY <1>5 DEF Connect, Drained
  <2> QED
    BY <1>1, <1>2, <1>5, <2>1, StageKeeps DEF Connect, history, TypeOK
<1>6. CASE BeginShutdown
  <2>1. \A t \in Tasks : Drained(t)'
    BY <1>6 DEF BeginShutdown, Drained
  <2> QED
    BY <1>1, <1>2, <1>3, <1>6, <2>1, StageKeeps DEF BeginShutdown, history, TypeOK, RowFits
<1>7. CASE GraceTimeout
  <2>1. \A t \in Tasks : Drained(t)'
    BY <1>7 DEF GraceTimeout, Drained
  <2>2. killed' \subseteq Turns
    BY <1>2, <1>7 DEF GraceTimeout, Kill, TypeOK
  <2> QED
    BY <1>1, <1>2, <1>7, <2>1, <2>2, StageKeeps DEF GraceTimeout, history, TypeOK, RowFits
<1>8. CASE GraceOver
  <2>1. \A t \in Tasks : Drained(t)'
    BY <1>8 DEF GraceOver, Drained
  <2> QED
    BY <1>1, <1>2, <1>8, <2>1, StageKeeps DEF GraceOver, history, TypeOK, RowFits
<1>9. CASE StartDrain
  <2>1. \A t \in Tasks : Drained(t)'
    BY <1>9 DEF StartDrain, Drained, Running
  <2> QED
    BY <1>1, <1>2, <1>3, <1>9, <2>1, StageKeeps DEF StartDrain, history, TypeOK, RowFits
<1>10. CASE DrainTimeout
  <2>1. \A t \in Tasks : Drained(t)'
    BY <1>1, <1>10 DEF DrainTimeout, Drained, history
  <2>2. killed' \subseteq Turns
    BY <1>2, <1>10 DEF DrainTimeout, Kill, TypeOK
  <2> QED
    BY <1>1, <1>2, <1>10, <2>1, <2>2, StageKeeps DEF DrainTimeout, history, TypeOK, RowFits
<1>11. CASE DrainOver
  <2>1. \A t \in Tasks : t \in waiting => turn[t].pc \notin Alive
    BY <1>11 DEF DrainOver, IsOver, Live, Alive, Loop
  <2>2. \A t \in Tasks : Drained(t)'
    BY <1>1, <1>11, <2>1 DEF DrainOver, Drained, history
  <2> QED
    BY <1>1, <1>2, <1>11, <2>2, StageKeeps DEF DrainOver, history, TypeOK, RowFits
<1>12. CASE Close
  <2>1. \A t \in Tasks : Drained(t)'
    BY <1>12 DEF Close, Drained
  <2> QED
    BY <1>1, <1>2, <1>12, <2>1, StageKeeps DEF Close, history, TypeOK, RowFits
<1>13. CASE CleanupFails
  <2>1. \A t \in Tasks : Drained(t)'
    BY <1>13 DEF CleanupFails, Drained
  <2> QED
    BY <1>1, <1>2, <1>13, <2>1, StageKeeps DEF CleanupFails, TypeOK
<1> QED
  BY <1>4, <1>5, <1>6, <1>7, <1>8, <1>9, <1>10, <1>11, <1>12, <1>13

\* The others take permits and give them back, and nothing else changes.
LEMMA OthersKeep == ASSUME IInv, OthersCall \/ OthersReturn PROVE IInv'
<1>1. UNCHANGED <<row, turn, event, killed, stage, waiting, told, late, unsaved>>
  BY DEF OthersCall, OthersReturn, history
<1>2. others' \in 0..MaxCalls
  <2>1. Cardinality(Calling) \in Nat
    <3>1. Calling \subseteq Turns
      BY DEF Calling
    <3> QED
      BY <3>1, TurnsAssumption, FS_Subset, FS_CardinalityType
  <2>2. others \in 0..MaxCalls /\ MaxCalls \in Nat
    BY BudgetsAssumption DEF IInv, TypeOK
  <2> QED
    BY <2>1, <2>2 DEF OthersCall, OthersReturn, Permit
<1>3. \A t \in Tasks : RowFits(t) /\ Drained(t)
  BY TaskFacts
<1>4. \A t \in Tasks : Drained(t)'
  BY <1>1, <1>3 DEF Drained
<1> QED
  BY <1>1, <1>2, <1>3, <1>4, StageKeeps DEF RowFits, IInv, TypeOK

\* startup_cleanup settles a row whose turn is long gone.
LEMMA SweepKeeps == ASSUME IInv, NEW t \in Tasks, Sweep(t) PROVE IInv'
<1>1. /\ stage = "boot" /\ row[t] = "running" /\ row' = [row EXCEPT ![t] = "cancelled"]
      /\ UNCHANGED <<turn, event, killed, stage, waiting, others, told, late, unsaved>>
  BY DEF Sweep, memory, history
<1>2. TypeOK' /\ StepsLeft' /\ Quiet'
  BY <1>1 DEF IInv, TypeOK, StepsLeft, Quiet, Live, Outcomes
<1>3. ASSUME NEW u \in Tasks PROVE RowFits(u)' /\ Drained(u)' /\ LateFits(u)'
  <2>1. RowFits(u) /\ LateFits(u) /\ turn[u].pc \in {"none", "over"}
    BY <1>1, TaskFacts DEF IInv, Quiet, Live, Turns
  <2>2. row'[u] = IF u = t THEN "cancelled" ELSE row[u]
    BY <1>1 DEF IInv, TypeOK
  <2>3. told[u] \in Outcomes \cup {"none"}
    BY DEF IInv, TypeOK
  <2>4. RowFits(u)'
    BY <1>1, <2>1, <2>2, <2>3 DEF RowFits, Loop, Outcomes
  <2>5. Drained(u)' /\ LateFits(u)'
    BY <1>1, <2>1 DEF Drained, LateFits, Live
  <2> QED
    BY <2>4, <2>5
<1> QED
  BY <1>2, <1>3 DEF IInv, TaskInv

\* The process is gone.
LEMMA VanishKeeps == ASSUME IInv, Vanish PROVE IInv'
<1>1. /\ stage' = "down" /\ event' = {} /\ killed' = {} /\ waiting' = {} /\ others' = 0
      /\ turn' = [t \in Turns |-> IF Live(t) THEN At("over") ELSE turn[t]]
      /\ UNCHANGED <<row, told, late, unsaved>>
  BY DEF Vanish, history
<1>2. At("over") \in Local /\ At("over").pc = "over" /\ At("over").step = 0
  BY AtType DEF At, Places
<1>3. \A t \in Turns : /\ turn'[t] = IF Live(t) THEN At("over") ELSE turn[t]
                       /\ turn'[t].pc = IF Live(t) THEN "over" ELSE turn[t].pc
                       /\ turn'[t].pc \in {"none", "over"}
  BY <1>1, <1>2 DEF Live
<1>4. turn' \in [Turns -> Local] /\ (\A t \in Turns : turn'[t].step <= Steps(t))
  <2>1. turn' \in [Turns -> Local]
    BY <1>1, <1>2 DEF IInv, TypeOK
  <2>2. ASSUME NEW t \in Turns PROVE turn'[t].step <= Steps(t)
    BY <1>2, <1>3, StepsType DEF IInv, TypeOK
  <2> QED
    BY <2>1, <2>2
<1>5. TypeOK'
  BY <1>1, <1>4, BudgetsAssumption DEF IInv, TypeOK, Stages
<1>6. StepsLeft' /\ Quiet'
  BY <1>3 DEF StepsLeft, Quiet, Live, Loop
<1>7. ASSUME NEW u \in Tasks PROVE RowFits(u)' /\ Drained(u)' /\ LateFits(u)'
  <2>1. RowFits(u) /\ LateFits(u) /\ u \in Turns
    BY TaskFacts DEF Turns
  <2>2. turn'[u].pc = IF Live(u) THEN "over" ELSE turn[u].pc
    BY <1>3, <2>1
  <2>3. RowFits(u)'
    BY <1>1, <2>1, <2>2 DEF RowFits, Live, Loop
  <2>4. Drained(u)' /\ LateFits(u)'
    BY <1>1, <2>1, <2>2 DEF Drained, LateFits, Live, Loop, Handler
  <2> QED
    BY <2>3, <2>4
<1> QED
  BY <1>5, <1>6, <1>7 DEF IInv, TaskInv

-----------------------------------------------------------------------------
(* The invariant.                                                          *)

\* It holds at the start.
LEMMA InitIInv == Init => IInv
<1> SUFFICES ASSUME Init PROVE IInv
  OBVIOUS
<1>1. At("none") \in Local /\ At("none").pc = "none" /\ At("none").step = 0
  BY AtType DEF At, Places
<1>2. \A t \in Turns : turn[t].pc = "none" /\ turn[t].step = 0
  BY <1>1 DEF Init
<1>3. TypeOK
  BY <1>1, <1>2, StepsType, BudgetsAssumption DEF Init, TypeOK, Stages
<1>4. StepsLeft /\ Quiet
  BY <1>2 DEF StepsLeft, Quiet, Live, Loop
<1>5. TaskInv
  BY <1>2 DEF Init, TaskInv, RowFits, Drained, LateFits, Live, Handler, Loop, Turns
<1> QED
  BY <1>3, <1>4, <1>5 DEF IInv

\* Every step keeps it.
LEMMA StepIInv == IInv /\ [Next]_vars => IInv'
<1> SUFFICES ASSUME IInv, [Next]_vars PROVE IInv'
  OBVIOUS
<1>1. CASE \E t \in Tasks : AskTask(t)
  BY <1>1, AskKeeps DEF Turns
<1>2. CASE \E t \in Tasks : Sweep(t)
  BY <1>2, SweepKeeps
<1>3. CASE \E t \in Tasks : StoreOutcome(t)
  BY <1>3, StoreOutcomeKeeps
<1>4. CASE \E t \in Tasks, who \in Person : CancelTask(t, who)
  BY <1>4, CancelKeeps
<1>5. CASE \E r \in Replies : AskReply(r)
  BY <1>5, AskKeeps, TurnsAssumption DEF Turns
<1>6. CASE \E t \in Turns : Start(t)
  BY <1>6, StartKeeps
<1>7. CASE \E t \in Turns : Acquire(t)
  BY <1>7, AcquireKeeps
<1>8. CASE \E t \in Turns : Reaction(t)
  BY <1>8, ReactionKeeps
<1>9. CASE \E t \in Turns : Post(t)
  BY <1>9, PostKeeps
<1>10. CASE \E t \in Turns : Interrupt(t)
  BY <1>10, InterruptKeeps
<1>11. CASE \/ Boot \/ Connect \/ CleanupFails \/ BeginShutdown \/ GraceTimeout \/ GraceOver
            \/ StartDrain \/ DrainTimeout \/ DrainOver \/ Close
  BY <1>11, StagesKeep
<1>12. CASE Exit \/ Crash
  BY <1>12, VanishKeeps DEF Exit, Crash
<1>13. CASE UNCHANGED vars
  <2>1. UNCHANGED <<row, turn, event, killed, stage, waiting, others, told, late, unsaved>>
    BY <1>13 DEF vars, memory, history
  <2>2. TypeOK' /\ StepsLeft' /\ Quiet'
    BY <2>1 DEF IInv, TypeOK, StepsLeft, Quiet, Live
  <2>3. TaskInv'
    BY <2>1 DEF IInv, TaskInv, RowFits, Drained, LateFits, Live
  <2> QED
    BY <2>2, <2>3 DEF IInv
<1>14. CASE OthersCall \/ OthersReturn
  BY <1>14, OthersKeep
<1> QED
  BY <1>1, <1>2, <1>3, <1>4, <1>5, <1>6, <1>7, <1>8, <1>9, <1>10, <1>11, <1>12, <1>13, <1>14
  DEF Next, TearDown

\* The invariant, for every behaviour.
THEOREM Invariance == Spec => []IInv
<1> QED
  BY InitIInv, StepIInv, PTL DEF Spec

\* Every variable keeps its type and no turn goes beyond its steps.
THEOREM TypeCorrect == Spec => []TypeOK
<1>1. IInv => TypeOK
  BY DEF IInv
<1> QED
  BY <1>1, Invariance, PTL

\* A row that says running has a live turn, while the bot is up, also after any
\* crash, exit and restart, unless a write of its status, its turn's or the
\* start-up cleanup's, failed or was cut short.
THEOREM NoGhostTasks == Spec => []RunningIsAlive
<1>1. IInv => RunningIsAlive
  <2> SUFFICES ASSUME IInv, stage \notin {"down", "boot"},
                      NEW t \in Tasks, row[t] = "running"
               PROVE  t \in Running \cup unsaved
    BY DEF RunningIsAlive
  <2>1. RowFits(t)
    BY TaskFacts
  <2>2. turn[t].pc \in Places
    BY DEF IInv, TypeOK, Local, Turns
  <2> QED
    BY <2>1, <2>2 DEF RowFits, Running, Alive, Places, Handler, Loop
<1> QED
  BY <1>1, Invariance, PTL

\* The channel was told what the row says, unless a write failed.
THEOREM ToldStaysTrue == Spec => []ToldIsStored
<1>1. IInv => ToldIsStored
  BY TaskFacts DEF ToldIsStored, RowFits
<1> QED
  BY <1>1, Invariance, PTL

\* At the goodbyes every task that shutdown_all found is settled.
THEOREM DrainIsComplete == Spec => []DrainSettles
<1>1. IInv => DrainSettles
  BY TaskFacts DEF DrainSettles, Drained
<1> QED
  BY <1>1, Invariance, PTL

\* A task begins at most two LLM calls after its cancel was accepted.
THEOREM CancelStaysCheap == Spec => []CancelIsCheap
<1>1. IInv => CancelIsCheap
  BY TaskFacts DEF CancelIsCheap, LateFits
<1> QED
  BY <1>1, Invariance, PTL

\* Only these steps write a status, and each writes the next one.
LEMMA WritesGoForward ==
  ASSUME IInv, NEW t \in Tasks, NEW u \in Tasks,
         Insert(t) \/ Begin(t) \/ Persist(t) \/ Sweep(t) \/ InterruptWrite(t)
  PROVE  Forward(u)
<1>1. RowFits(t) /\ row \in [Tasks -> Statuses]
  BY TaskFacts DEF IInv, TypeOK, Statuses
<1>2. CASE Insert(t)
  BY <1>1, <1>2 DEF Insert, RunsAt, RowFits, Forward
<1>3. CASE Begin(t)
  BY <1>1, <1>3 DEF Begin, RunsAt, RowFits, Forward
<1>4. CASE Persist(t)
  BY <1>1, <1>4 DEF Persist, RunsAt, RowFits, Forward
<1>5. CASE Sweep(t)
  BY <1>1, <1>5 DEF Sweep, Forward, Outcomes
<1>6. CASE InterruptWrite(t)
  BY <1>1, <1>6 DEF InterruptWrite, RowFits, Forward
<1> QED
  BY <1>2, <1>3, <1>4, <1>5, <1>6

\* The status of a task goes from pending to running to an outcome.
THEOREM StatusGoesForward == Spec => StatusOnlyForward
<1>1. ASSUME IInv, [Next]_vars, NEW u \in Tasks PROVE Forward(u)
  <2>1. CASE \E t \in Tasks : Insert(t) \/ Begin(t) \/ Persist(t) \/ Sweep(t) \/ InterruptWrite(t)
    BY <1>1, <2>1, WritesGoForward
  <2>2. CASE UNCHANGED row
    BY <2>2 DEF Forward
  <2>3. ASSUME NEW t \in Turns, Start(t)
        PROVE  UNCHANGED row \/ (t \in Tasks /\ (Insert(t) \/ Begin(t)))
    BY <2>3 DEF Start, IssueFails, Spawn, BeginFails, Engage, Dropped, BeginReply
  <2>4. ASSUME NEW t \in Turns, Acquire(t) \/ Reaction(t) \/ Post(t) PROVE UNCHANGED row
    BY <2>4 DEF Acquire, Reaction, Answer, CallFails, GiveText, NextStep, Post
  <2>5. ASSUME NEW t \in Turns, Interrupt(t)
        PROVE  UNCHANGED row \/ (t \in Tasks /\ InterruptWrite(t))
    BY <2>5 DEF Interrupt, InterruptLoop, InterruptWrite, InterruptPost, InterruptStart
  <2>6. ASSUME NEW t \in Tasks, StoreOutcome(t) PROVE UNCHANGED row \/ Persist(t)
    BY <2>6 DEF StoreOutcome, PersistFails
  <2>7. ASSUME NEW t \in Tasks, AskTask(t) \/ \E who \in Person : CancelTask(t, who)
        PROVE  UNCHANGED row
    BY <2>7 DEF AskTask, CancelTask
  <2>8. ASSUME NEW r \in Replies, AskReply(r) PROVE UNCHANGED row
    BY <2>8 DEF AskReply
  <2>9. ASSUME \/ Boot \/ Connect \/ CleanupFails \/ BeginShutdown \/ TearDown \/ Crash
               \/ OthersCall \/ OthersReturn \/ UNCHANGED vars
        PROVE  UNCHANGED row
    BY <2>9 DEF OthersCall, OthersReturn, Boot, Connect, CleanupFails, BeginShutdown,
                TearDown, GraceTimeout, GraceOver, StartDrain, DrainTimeout, DrainOver, Close,
                Exit, Crash, Vanish, vars
  <2> QED
    BY <1>1, <2>1, <2>2, <2>3, <2>4, <2>5, <2>6, <2>7, <2>8, <2>9 DEF Next
<1>2. IInv /\ [Next]_vars => [\A t \in Tasks : Forward(t)]_vars
  BY <1>1
<1> QED
  BY <1>2, Invariance, PTL DEF Spec, StatusOnlyForward

-----------------------------------------------------------------------------
(* The ledger.                                                             *)

AtWork == Loop \cup {"persist"}

\* A step of one turn puts only its own task to work, or takes it off.
LEMMA WorkMoves ==
  ASSUME NEW t \in Turns, OnlyMoves(t)
  PROVE  /\ t \in Tasks /\ turn'[t].pc \in AtWork => Working' = Working \cup {t}
         /\ t \notin Tasks \/ turn'[t].pc \notin AtWork => Working' = Working \ {t}
         /\ (t \in Tasks => (turn'[t].pc \in AtWork <=> turn[t].pc \in AtWork))
              => Working' = Working
<1>1. \A u \in Tasks \ {t} : turn'[u] = turn[u]
  BY DEF OnlyMoves, Turns
<1> QED
  BY <1>1 DEF Working, AtWork

\* Nothing of the ledger changes.
Silent == UNCHANGED <<row, Working, told, unsaved>>

\* A turn that moves within the loop, before or after it, leaves the ledger alone.
LEMMA SilentMove ==
  ASSUME NEW t \in Turns, OnlyMoves(t), UNCHANGED <<row, told, unsaved>>,
         t \in Tasks => (turn'[t].pc \in AtWork <=> turn[t].pc \in AtWork)
  PROVE  Silent
BY WorkMoves DEF Silent

\* A turn at work stays so whatever comes after the top of a step.
LEMMA EnteredIsAtWork ==
  ASSUME turn \in [Turns -> Local], NEW t \in Turns, NEW k \in 0..Steps(t), EnterStep(t, k)
  PROVE  OnlyMoves(t) /\ (t \in Tasks => turn'[t].pc \in AtWork)
BY EnterStepFacts DEF AtWork, Loop

\* Before its first step a task is entered and begun, or its entry fails.
LEMMA StartLedger == ASSUME IInv, NEW t \in Turns, Start(t) PROVE Ledger!Next \/ Silent
<1> turn \in [Turns -> Local]
  BY DEF IInv, TypeOK
<1>1. CASE t \in Tasks /\ Insert(t)
  <2>1. turn[t].pc = "issuing" /\ Move(t, "inserted") /\ row' = [row EXCEPT ![t] = "pending"]
        /\ UNCHANGED <<told, unsaved>>
    BY <1>1 DEF Insert, RunsAt, history
  <2>2. OnlyMoves(t) /\ turn'[t].pc = "inserted"
    BY <2>1, MoveFacts DEF Places, Handler
  <2>3. row[t] = "none" /\ Working' = Working
    BY <1>1, <2>1, <2>2, TaskFacts, WorkMoves DEF RowFits, AtWork, Loop
  <2>4. Ledger!Issue(t)
    BY <2>1, <2>3 DEF Ledger!Issue, Ledger!Write
  <2> QED
    BY <1>1, <2>4 DEF Ledger!Next
<1>2. CASE t \in Tasks /\ IssueFails(t)
  <2>1. turn[t].pc = "issuing" /\ Over(t) /\ UNCHANGED <<row, told, unsaved>>
    BY <1>2 DEF IssueFails, RunsAt, history
  <2> QED
    BY <2>1, OverFacts, SilentMove DEF AtWork, Loop
<1>3. CASE t \in Tasks /\ Spawn(t)
  <2>1. turn[t].pc = "inserted" /\ Move(t, "start") /\ UNCHANGED <<row, told, unsaved>>
    BY <1>3 DEF Spawn, RunsAt, history
  <2>2. OnlyMoves(t) /\ turn'[t].pc = "start"
    BY <2>1, MoveFacts DEF Places, Alive
  <2> QED
    BY <2>1, <2>2, SilentMove DEF AtWork, Loop
<1>4. CASE t \in Tasks /\ Begin(t)
  <2>1. turn[t].pc = "start" /\ EnterStep(t, 0) /\ row' = [row EXCEPT ![t] = "running"]
        /\ UNCHANGED <<told, unsaved>>
    BY <1>4 DEF Begin, RunsAt
  <2>2. 0 \in 0..Steps(t)
    BY StepsType
  <2>3. Working' = Working \cup {t}
    BY <1>4, <2>1, <2>2, EnteredIsAtWork, WorkMoves
  <2>4. row[t] = "pending"
    BY <1>4, <2>1, TaskFacts DEF RowFits
  <2>5. Ledger!Begin(t)
    BY <2>1, <2>3, <2>4 DEF Ledger!Begin, Ledger!Write
  <2> QED
    BY <1>4, <2>5 DEF Ledger!Next
<1>5. CASE t \in Tasks /\ BeginFails(t)
  <2>1. turn[t].pc = "start" /\ Over(t) /\ unsaved' = unsaved \cup {t} /\ UNCHANGED <<row, told>>
    BY <1>5 DEF BeginFails, RunsAt
  <2>2. Working' = Working \ {t}
    BY <2>1, OverFacts, WorkMoves DEF AtWork, Loop
  <2>3. told[t] = "none"
    BY <1>5, <2>1, TaskFacts DEF RowFits
  <2>4. Ledger!Spoil(t)
    BY <2>1, <2>2, <2>3 DEF Ledger!Spoil
  <2> QED
    BY <1>5, <2>4 DEF Ledger!Next
<1>6. CASE t \in Replies /\ (Engage(t) \/ Dropped(t) \/ BeginReply(t))
  <2>1. t \notin Tasks /\ UNCHANGED <<row, told, unsaved>>
    BY <1>6, TurnsAssumption DEF Engage, Dropped, BeginReply, history
  <2>2. OnlyMoves(t)
    <3>1. CASE Engage(t)
      BY <3>1, MoveFacts DEF Engage, Places, Alive
    <3>2. CASE Dropped(t)
      BY <3>2, OverFacts DEF Dropped
    <3>3. CASE BeginReply(t) /\ EnterStep(t, 0)
      <4>1. 0 \in 0..Steps(t)
        BY StepsType
      <4> QED
        BY <3>3, <4>1, EnterStepFacts
    <3>4. CASE Finish(t, "failed")
      BY <3>4, FinishFacts DEF Outcomes
    <3> QED
      BY <1>6, <3>1, <3>2, <3>3, <3>4 DEF BeginReply
  <2> QED
    BY <2>1, <2>2, SilentMove
<1> QED
  BY <1>1, <1>2, <1>3, <1>4, <1>5, <1>6 DEF Start

\* The agent loop leaves the ledger alone.
LEMMA LoopLedger ==
  ASSUME IInv, NEW t \in Turns, Acquire(t) \/ Reaction(t)
  PROVE  Silent
<1> turn \in [Turns -> Local]
  BY DEF IInv, TypeOK
<1>1. UNCHANGED <<row, told, unsaved>> /\ turn[t].pc \in Loop
  BY DEF Acquire, Reaction, Answer, CallFails, GiveText, NextStep, RunsAt, history, Loop
<1>2. OnlyMoves(t) /\ (t \in Tasks => turn'[t].pc \in AtWork)
  <2>1. CASE Acquire(t)
    BY <2>1, MoveFacts DEF Acquire, AtWork, Loop, Places, Alive
  <2>2. CASE Answer(t)
    BY <2>2, MoveFacts DEF Answer, AtWork, Loop, Places, Alive
  <2>3. CASE CallFails(t) \/ GiveText(t)
    <3>1. PICK outcome \in {"done", "failed"} : Finish(t, outcome)
      BY <2>3 DEF CallFails, GiveText
    <3> QED
      BY <3>1, FinishFacts DEF Outcomes, AtWork
  <2>4. CASE NextStep(t)
    <3>1. turn[t].pc = "after" /\ ~turn[t].last /\ EnterStep(t, turn[t].step + 1)
      BY <2>4 DEF NextStep, RunsAt
    <3>2. turn[t].step + 1 \in 0..Steps(t)
      <4>1. turn[t].step \in Nat /\ turn[t].step < Steps(t)
        BY <3>1 DEF IInv, StepsLeft, Local, Loop
      <4> QED
        BY <4>1, StepsType
    <3> QED
      BY <3>1, <3>2, EnteredIsAtWork
  <2> QED
    BY <2>1, <2>2, <2>3, <2>4 DEF Reaction
<1> QED
  BY <1>1, <1>2, SilentMove DEF AtWork

\* _persist_outcome settles the task at work, or fails to.
LEMMA StoreLedger == ASSUME IInv, NEW t \in Tasks, StoreOutcome(t) PROVE Ledger!Next
<1>1. t \in Turns /\ turn \in [Turns -> Local]
  BY DEF Turns, IInv, TypeOK
<1>2. turn[t].pc = "persist" /\ Move(t, "post") /\ told' = told
  BY DEF StoreOutcome, Persist, PersistFails, RunsAt, history
<1>3. OnlyMoves(t) /\ turn'[t].pc = "post"
  BY <1>1, <1>2, MoveFacts DEF Places, Alive
<1>4. t \in Working /\ Working' = Working \ {t}
  BY <1>1, <1>2, <1>3, WorkMoves DEF Working, AtWork, Loop
<1>5. row[t] = "running" /\ turn[t].outcome \in Outcomes /\ told[t] = "none"
  BY <1>2, TaskFacts DEF RowFits
<1>6. CASE Persist(t)
  BY <1>2, <1>4, <1>5, <1>6
  DEF Persist, history, Ledger!Settle, Ledger!Write, Ledger!Next
<1>7. CASE PersistFails(t)
  BY <1>2, <1>4, <1>5, <1>7 DEF PersistFails, Ledger!Spoil, Ledger!Next
<1> QED
  BY <1>6, <1>7 DEF StoreOutcome

\* The channel hears of a task whose turn is done with its row.
LEMMA PostLedger ==
  ASSUME IInv, NEW t \in Turns, turn[t].pc = "post", Over(t), UNCHANGED <<row, unsaved>>,
         (t \in Tasks /\ Heard(t)) \/ told' = told
  PROVE  Ledger!Next \/ Silent
<1>1. OnlyMoves(t) /\ turn'[t].pc = "over"
  BY OverFacts DEF IInv, TypeOK
<1>2. Working' = Working
  BY <1>1, WorkMoves DEF AtWork, Loop
<1>3. CASE told' = told
  BY <1>2, <1>3 DEF Silent
<1>4. CASE t \in Tasks /\ Heard(t)
  <2>1. RowFits(t) /\ t \notin Working
    BY <1>4, TaskFacts DEF Working, Loop
  <2>2. turn[t].outcome \in Outcomes /\ told[t] = "none"
        /\ (row[t] = turn[t].outcome \/ t \in unsaved)
    BY <2>1 DEF RowFits
  <2>3. Ledger!Hear(t, turn[t].outcome)
    BY <1>2, <1>4, <2>1, <2>2 DEF Ledger!Hear, Heard
  <2> QED
    BY <1>4, <2>2, <2>3 DEF Ledger!Next
<1> QED
  BY <1>3, <1>4

\* A cancel in a write may spoil it; anywhere else it leaves the ledger consistent.
LEMMA InterruptLedger == ASSUME IInv, NEW t \in Turns, Interrupt(t) PROVE Ledger!Next \/ Silent
<1> turn \in [Turns -> Local]
  BY DEF IInv, TypeOK
<1>1. CASE InterruptLoop(t)
  <2>1. OnlyMoves(t) /\ (t \in Tasks => turn'[t].pc = "persist")
    BY <1>1, FinishFacts, OverFacts DEF InterruptLoop, Outcomes
  <2> QED
    BY <1>1, <2>1, SilentMove DEF InterruptLoop, AtWork
<1>2. CASE InterruptWrite(t)
  <2>1. /\ t \in Tasks /\ Over(t) /\ unsaved' = unsaved \cup {t} /\ told' = told
        /\ \/ turn[t].pc = "start" /\ row' \in {row, [row EXCEPT ![t] = "running"]}
           \/ turn[t].pc = "persist" /\ row' \in {row, [row EXCEPT ![t] = turn[t].outcome]}
    BY <1>2 DEF InterruptWrite
  <2>2. Working' = Working \ {t}
    BY <2>1, OverFacts, WorkMoves DEF AtWork, Loop
  <2>3. RowFits(t) /\ told[t] = "none"
    BY <2>1, TaskFacts DEF RowFits
  <2>4. CASE turn[t].pc = "start"
    <3>1. t \notin Working /\ row[t] = "pending"
      BY <2>3, <2>4 DEF RowFits, Working, Loop
    <3> QED
      BY <2>1, <2>2, <2>3, <2>4, <3>1 DEF Ledger!Spoil, Ledger!Write, Ledger!Next
  <2>5. CASE turn[t].pc = "persist"
    <3>1. t \in Working /\ row[t] = "running" /\ turn[t].outcome \in Outcomes
      BY <2>1, <2>3, <2>5 DEF RowFits, Working
    <3> QED
      BY <2>1, <2>2, <2>3, <2>5, <3>1 DEF Ledger!Spoil, Ledger!Write, Ledger!Next
  <2> QED
    BY <2>1, <2>4, <2>5
<1>3. CASE InterruptPost(t)
  BY <1>3, PostLedger DEF InterruptPost
<1>4. CASE InterruptStart(t)
  BY <1>4, OverFacts, SilentMove, TurnsAssumption DEF InterruptStart
<1> QED
  BY <1>1, <1>2, <1>3, <1>4 DEF Interrupt

\* After a restart nobody works, and the cleanup settles what is left.
LEMMA StageLedger ==
  ASSUME IInv,
         \/ \E t \in Tasks : Sweep(t)
         \/ Boot \/ Connect \/ CleanupFails \/ BeginShutdown \/ TearDown \/ Crash
         \/ OthersCall \/ OthersReturn
  PROVE  Ledger!Next \/ Silent
<1>1. ASSUME NEW t \in Tasks, Sweep(t) PROVE Ledger!Next
  <2>1. Working = {} /\ Working' = Working
    BY <1>1 DEF Sweep, IInv, Quiet, Live, Working, Turns, Loop
  <2>2. Ledger!Cleanup(t)
    BY <1>1, <2>1 DEF Sweep, history, Ledger!Cleanup, Ledger!Write
  <2> QED
    BY <2>2 DEF Ledger!Next
<1>2. CASE CleanupFails
  <2>1. Working = {} /\ Working' = Working
    BY <1>2 DEF CleanupFails, IInv, Quiet, Live, Working, Turns, Loop
  <2> QED
    BY <1>2, <2>1 DEF CleanupFails, Ledger!CleanupFails, Ledger!Next
<1>3. CASE Vanish
  <2>1. Working' = {}
    BY <1>3 DEF Vanish, Working, Live, At, Turns, Loop, IInv, TypeOK
  <2> QED
    BY <1>3, <2>1 DEF Vanish, history, Ledger!Restart, Ledger!Next
<1>4. CASE \/ Boot \/ Connect \/ BeginShutdown \/ GraceTimeout \/ GraceOver \/ StartDrain
           \/ DrainTimeout \/ DrainOver \/ Close \/ OthersCall \/ OthersReturn
  <2>1. UNCHANGED <<row, turn, told, unsaved>>
    BY <1>4 DEF Boot, Connect, BeginShutdown, GraceTimeout, GraceOver, StartDrain, DrainTimeout,
                DrainOver, Close, OthersCall, OthersReturn, history
  <2> QED
    BY <2>1 DEF Silent, Working
<1> QED
  BY <1>1, <1>2, <1>3, <1>4 DEF TearDown, Exit, Crash

\* Every step of the bot is a step of the ledger, or none.
LEMMA LedgerStep == IInv /\ [Next]_vars => [Ledger!Next]_(Ledger!lvars)
<1> SUFFICES ASSUME IInv, [Next]_vars PROVE Ledger!Next \/ Silent
  BY DEF Silent, Ledger!lvars
<1>1. ASSUME NEW t \in Turns, AskTask(t) \/ AskReply(t)
      PROVE  Silent
  <2>1. turn[t].pc = "none" /\ UNCHANGED <<row, told, unsaved>>
    BY <1>1 DEF AskTask, AskReply, history
  <2>2. turn' = [turn EXCEPT ![t] = At("issuing")] \/ turn' = [turn EXCEPT ![t] = At("asked")]
    BY <1>1 DEF AskTask, AskReply
  <2>3. OnlyMoves(t) /\ turn'[t].pc \in {"issuing", "asked"}
    BY <2>2 DEF OnlyMoves, At, IInv, TypeOK
  <2> QED
    BY <2>1, <2>3, SilentMove DEF AtWork, Loop
<1>2. ASSUME NEW t \in Tasks, NEW who \in Person, CancelTask(t, who) PROVE Silent
  BY <1>2 DEF CancelTask, history, Silent, Working
<1>3. ASSUME NEW t \in Turns, Post(t) PROVE Ledger!Next \/ Silent
  BY <1>3, PostLedger DEF Post, RunsAt
<1>4. CASE UNCHANGED vars
  BY <1>4 DEF vars, history, Silent, Working
<1>5. CASE \E t \in Tasks : AskTask(t) \/ StoreOutcome(t) \/ \E who \in Person : CancelTask(t, who)
  <2>1. PICK t \in Tasks : AskTask(t) \/ StoreOutcome(t) \/ \E who \in Person : CancelTask(t, who)
    BY <1>5
  <2>2. t \in Turns
    BY DEF Turns
  <2>3. CASE AskTask(t)
    <3>1. Silent
      BY <1>1, <2>2, <2>3
    <3> QED
      BY <3>1
  <2>4. CASE StoreOutcome(t)
    BY <2>4, StoreLedger
  <2>5. CASE \E who \in Person : CancelTask(t, who)
    BY <1>2, <2>5
  <2> QED
    BY <2>1, <2>3, <2>4, <2>5
<1>6. CASE \E r \in Replies : AskReply(r)
  <2>1. PICK r \in Replies : AskReply(r)
    BY <1>6
  <2>2. r \in Turns
    BY DEF Turns
  <2>3. Silent
    BY <1>1, <2>1, <2>2
  <2> QED
    BY <2>3
<1>7. CASE \E t \in Turns : Start(t) \/ Acquire(t) \/ Reaction(t) \/ Post(t) \/ Interrupt(t)
  BY <1>3, <1>7, StartLedger, LoopLedger, InterruptLedger
<1>8. CASE \/ \E t \in Tasks : Sweep(t)
           \/ Boot \/ Connect \/ CleanupFails \/ BeginShutdown \/ TearDown \/ Crash
           \/ OthersCall \/ OthersReturn
  BY <1>8, StageLedger
<1> QED
  BY <1>4, <1>5, <1>6, <1>7, <1>8 DEF Next

\* The task runner is a ledger: one entry of each kind for a task, by its own
\* turn or by the cleanup when no turn is left, and its channel hears at most
\* once, of what the row says.
THEOREM RunnerIsLedger == Spec => ImplementsLedger
<1>1. Init => Ledger!Init
  BY DEF Init, Ledger!Init, Working, At, Turns, Loop
<1>2. IInv /\ [Next]_vars => [Ledger!Next]_(Ledger!lvars)
  BY LedgerStep
<1> QED
  BY <1>1, <1>2, Invariance, PTL DEF Spec, ImplementsLedger, Ledger!Spec

-----------------------------------------------------------------------------
(* How many moves a turn has left.                                         *)

Weight == [none |-> 0, over |-> 0, post |-> 1, persist |-> 2, after |-> 3, call |-> 4,
           wait |-> 5, start |-> 6, asked |-> 7, inserted |-> 7, issuing |-> 8]

\* Three places for each step that is left, and those before and after the loop.
MovesLeft(t) ==
  Weight[turn[t].pc] + (IF turn[t].pc \in Loop THEN 3 * (Steps(t) - turn[t].step)
                        ELSE IF turn[t].pc \in {"start"} \cup Handler THEN 3 * Steps(t)
                        ELSE 0)

\* Whatever the LLM answers, whatever is cancelled and wherever the process
\* dies, each move of a turn that was asked for leaves it fewer moves: no
\* answer, repair or retry sets it back, and one that is over stays over
\* (agent.py:456-609, tasks.py:339-394).
MovesRunOut ==
  [][\A t \in Turns : turn[t].pc # "none" /\ turn'[t] # turn[t] =>
                        MovesLeft(t)' < MovesLeft(t)]_vars

Fewer(t) == turn[t].pc # "none" /\ turn'[t] # turn[t] => MovesLeft(t)' < MovesLeft(t)

\* A move along the places of a life, or on to the next step, leaves fewer.
LEMMA FewerMoves ==
  ASSUME TypeOK, NEW t \in Turns, turn' \in [Turns -> Local],
         \/ turn'[t].pc = "over" /\ turn[t].pc \in Handler \cup Alive
         \/ turn'[t].pc = "post" /\ turn[t].pc \in {"persist", "start"} \cup Loop
         \/ turn'[t].pc = "persist" /\ turn[t].pc \in {"start"} \cup Loop
         \/ turn'[t].pc = "inserted" /\ turn[t].pc = "issuing"
         \/ turn'[t].pc = "start" /\ turn[t].pc \in {"inserted", "asked"}
         \/ turn'[t].pc \in {"wait", "call"} /\ turn'[t].step = 0 /\ turn[t].pc = "start"
         \/ /\ turn'[t].pc \in {"wait", "call"} /\ turn[t].pc = "after"
            /\ turn'[t].step = turn[t].step + 1 /\ turn'[t].step <= Steps(t)
         \/ turn'[t].pc = "call" /\ turn'[t].step = turn[t].step /\ turn[t].pc = "wait"
         \/ turn'[t].pc = "after" /\ turn'[t].step = turn[t].step /\ turn[t].pc = "call"
  PROVE  MovesLeft(t)' < MovesLeft(t)
<1> DEFINE n == Steps(t)
           k == turn[t].step
           l == turn'[t].step
<1>1. n \in Nat /\ n > 0 /\ k \in Nat /\ l \in Nat /\ k <= n
  BY StepsType DEF TypeOK, Local
<1>2. Steps(t)' = n
  BY DEF Steps
<1> HIDE DEF n, k, l
<1>3. MovesLeft(t)' = Weight[turn'[t].pc] + (IF turn'[t].pc \in Loop THEN 3 * (n - l)
                       ELSE IF turn'[t].pc \in {"start"} \cup Handler THEN 3 * n ELSE 0)
  BY DEF MovesLeft, Steps, n, l, Weight
<1>4. MovesLeft(t) = Weight[turn[t].pc] + (IF turn[t].pc \in Loop THEN 3 * (n - k)
                       ELSE IF turn[t].pc \in {"start"} \cup Handler THEN 3 * n ELSE 0)
  BY DEF MovesLeft, n, k
<1>5. CASE turn'[t].pc \in {"over", "post", "persist"}
  BY <1>1, <1>3, <1>4, <1>5 DEF Weight, Loop, Handler, Alive
<1>6. CASE turn'[t].pc \in {"inserted", "start"}
  BY <1>1, <1>3, <1>4, <1>6 DEF Weight, Loop, Handler
<1>7. CASE turn'[t].pc \in Loop /\ turn[t].pc = "start"
  <2>1. l = 0
    BY <1>7 DEF l, Loop
  <2> QED
    BY <1>1, <1>3, <1>4, <1>7, <2>1 DEF Weight, Loop, Handler
<1>8. CASE turn'[t].pc \in Loop /\ turn[t].pc = "after"
  <2>1. l = k + 1 /\ turn'[t].pc \in {"wait", "call"}
    BY <1>8 DEF l, k, Loop
  <2> QED
    BY <1>1, <1>3, <1>4, <1>8, <2>1 DEF Weight, Loop
<1>9. CASE turn'[t].pc \in Loop /\ turn[t].pc \in {"wait", "call"}
  <2>1. l = k
    BY <1>9 DEF l, k, Loop
  <2> QED
    BY <1>1, <1>3, <1>4, <1>9, <2>1 DEF Weight, Loop
<1> QED
  BY <1>5, <1>6, <1>7, <1>8, <1>9 DEF Loop

\* EnterStep ends the loop or goes to a call at step k.
LEMMA EnterStepGoes ==
  ASSUME turn \in [Turns -> Local], NEW t \in Turns, NEW k \in 0..Steps(t), EnterStep(t, k)
  PROVE  /\ turn' \in [Turns -> Local] /\ OnlyMoves(t)
         /\ \/ turn'[t].pc \in {"wait", "call"} /\ turn'[t].step = k
            \/ turn'[t].pc \in {"persist", "post"}
<1> k \in Nat
  BY StepsType
<1>1. CASE \E last \in BOOLEAN : StartCall(t, k, last)
  BY <1>1, StartCallFacts
<1>2. CASE Finish(t, "cancelled")
  BY <1>2, FinishFacts DEF Outcomes
<1> QED
  BY <1>1, <1>2 DEF EnterStep

\* A turn before its first step.
LEMMA StartFewer == ASSUME IInv, NEW t \in Turns, Start(t) PROVE OnlyMoves(t) /\ Fewer(t)
<1> turn \in [Turns -> Local] /\ TypeOK
  BY DEF IInv, TypeOK
<1>1. CASE Insert(t) \/ Spawn(t) \/ Engage(t)
  <2>1. PICK pc \in {"inserted", "start"} :
          /\ Move(t, pc)
          /\ pc = "inserted" => turn[t].pc = "issuing"
          /\ pc = "start" => turn[t].pc \in {"inserted", "asked"}
    BY <1>1 DEF Insert, Spawn, Engage, RunsAt
  <2>2. pc \in Places
    BY DEF Places, Handler, Alive
  <2>3. turn' \in [Turns -> Local] /\ turn'[t].pc = pc /\ OnlyMoves(t)
    BY <2>1, <2>2, MoveFacts
  <2> QED
    BY <2>1, <2>3, FewerMoves DEF Fewer
<1>2. CASE IssueFails(t) \/ BeginFails(t) \/ Dropped(t)
  <2>1. Over(t) /\ turn[t].pc \in Handler \cup Alive
    BY <1>2 DEF IssueFails, BeginFails, Dropped, RunsAt, Handler, Alive
  <2> QED
    BY <2>1, OverFacts, FewerMoves DEF Fewer
<1>3. CASE (Begin(t) \/ BeginReply(t)) /\ EnterStep(t, 0)
  <2>1. turn[t].pc = "start" /\ 0 \in 0..Steps(t)
    BY <1>3, StepsType DEF Begin, BeginReply, RunsAt
  <2> QED
    BY <1>3, <2>1, EnterStepGoes, FewerMoves DEF Fewer
<1>4. CASE BeginReply(t) /\ Finish(t, "failed")
  <2>1. turn[t].pc = "start" /\ "failed" \in Outcomes
    BY <1>4 DEF BeginReply, RunsAt, Outcomes
  <2> QED
    BY <1>4, <2>1, FinishFacts, FewerMoves DEF Fewer
<1> QED
  BY <1>1, <1>2, <1>3, <1>4 DEF Start, Begin, BeginReply

\* A turn in the loop.
LEMMA LoopFewer ==
  ASSUME IInv, NEW t \in Turns, Acquire(t) \/ Reaction(t)
  PROVE  OnlyMoves(t) /\ Fewer(t)
<1> turn \in [Turns -> Local] /\ TypeOK
  BY DEF IInv, TypeOK
<1>1. CASE Acquire(t)
  <2>1. turn[t].pc = "wait" /\ Move(t, "call") /\ "call" \in Places
    BY <1>1 DEF Acquire, RunsAt, Places, Alive, Loop
  <2> QED
    BY <2>1, MoveFacts, FewerMoves DEF Fewer
<1>2. CASE Answer(t)
  <2>1. turn[t].pc = "call" /\ Move(t, "after") /\ "after" \in Places
    BY <1>2 DEF Answer, RunsAt, Places, Alive, Loop
  <2> QED
    BY <2>1, MoveFacts, FewerMoves DEF Fewer
<1>3. CASE CallFails(t) \/ GiveText(t)
  <2>1. PICK outcome \in {"done", "failed"} : Finish(t, outcome)
    BY <1>3 DEF CallFails, GiveText
  <2>2. outcome \in Outcomes /\ turn[t].pc \in Loop
    BY <1>3 DEF CallFails, GiveText, RunsAt, Loop, Outcomes
  <2> QED
    BY <2>1, <2>2, FinishFacts, FewerMoves DEF Fewer
<1>4. CASE NextStep(t)
  <2>1. turn[t].pc = "after" /\ ~turn[t].last /\ EnterStep(t, turn[t].step + 1)
    BY <1>4 DEF NextStep, RunsAt
  <2>2. turn[t].step \in Nat /\ turn[t].step < Steps(t)
    BY <2>1 DEF IInv, StepsLeft, Local, Loop
  <2>3. turn[t].step + 1 \in 0..Steps(t)
    BY <2>2, StepsType
  <2> QED
    BY <2>1, <2>3, EnterStepGoes, FewerMoves DEF Fewer, Loop
<1> QED
  BY <1>1, <1>2, <1>3, <1>4 DEF Reaction

\* A turn after the loop, or cut off.
LEMMA EndFewer ==
  ASSUME IInv, NEW t \in Turns, StoreOutcome(t) \/ Post(t) \/ Interrupt(t)
  PROVE  OnlyMoves(t) /\ Fewer(t)
<1> turn \in [Turns -> Local] /\ TypeOK
  BY DEF IInv, TypeOK
<1>1. CASE StoreOutcome(t)
  <2>1. turn[t].pc = "persist" /\ Move(t, "post") /\ "post" \in Places
    BY <1>1 DEF StoreOutcome, Persist, PersistFails, RunsAt, Places, Alive
  <2> QED
    BY <2>1, MoveFacts, FewerMoves DEF Fewer
<1>2. CASE Over(t) /\ turn[t].pc \in Alive
  BY <1>2, OverFacts, FewerMoves DEF Fewer
<1>3. CASE Finish(t, "cancelled") /\ turn[t].pc \in Loop
  BY <1>3, FinishFacts, FewerMoves DEF Fewer, Outcomes
<1>4. CASE Post(t)
  BY <1>2, <1>4 DEF Post, RunsAt, Alive
<1>5. CASE Interrupt(t)
  BY <1>2, <1>3, <1>5
  DEF Interrupt, InterruptLoop, InterruptWrite, InterruptPost, InterruptStart, Alive
<1> QED
  BY <1>1, <1>4, <1>5

\* Every step of the bot leaves a turn alone, or with fewer moves.
LEMMA EveryStepFewer == ASSUME IInv, [Next]_vars, NEW u \in Turns PROVE Fewer(u)
<1>1. ASSUME NEW t \in Turns, OnlyMoves(t), Fewer(t) PROVE Fewer(u)
  BY <1>1 DEF OnlyMoves, Fewer
<1>2. CASE UNCHANGED turn
  BY <1>2 DEF Fewer
<1>3. ASSUME NEW t \in Turns, AskTask(t) \/ AskReply(t) PROVE OnlyMoves(t) /\ Fewer(t)
  <2>1. /\ turn[t].pc = "none"
        /\ \E place : turn' = [turn EXCEPT ![t] = place]
    BY <1>3 DEF AskTask, AskReply
  <2>2. OnlyMoves(t)
    BY <2>1 DEF OnlyMoves, IInv, TypeOK
  <2> QED
    BY <2>1, <2>2 DEF Fewer
<1>4. CASE Vanish
  <2>1. /\ turn' \in [Turns -> Local]
        /\ turn'[u] # turn[u] => Live(u) /\ turn'[u].pc = "over"
    BY <1>4, AtType DEF Vanish, At, IInv, TypeOK, Places
  <2>2. turn[u].pc \in Places
    BY DEF IInv, TypeOK, Local
  <2> QED
    BY <2>1, <2>2, FewerMoves DEF Fewer, Live, Places, IInv
<1>5. CASE \E t \in Tasks : \/ AskTask(t) \/ Sweep(t) \/ StoreOutcome(t)
                            \/ \E who \in Person : CancelTask(t, who)
  <2>1. PICK t \in Tasks : \/ AskTask(t) \/ Sweep(t) \/ StoreOutcome(t)
                           \/ \E who \in Person : CancelTask(t, who)
    BY <1>5
  <2>2. t \in Turns
    BY DEF Turns
  <2>3. CASE AskTask(t) \/ StoreOutcome(t)
    BY <1>1, <1>3, <2>2, <2>3, EndFewer
  <2>4. CASE Sweep(t) \/ \E who \in Person : CancelTask(t, who)
    BY <1>2, <2>4 DEF Sweep, CancelTask
  <2> QED
    BY <2>1, <2>3, <2>4
<1>6. CASE \E r \in Replies : AskReply(r)
  BY <1>1, <1>3, <1>6 DEF Turns
<1>7. CASE \E t \in Turns : Start(t) \/ Acquire(t) \/ Reaction(t) \/ Post(t) \/ Interrupt(t)
  BY <1>1, <1>7, StartFewer, LoopFewer, EndFewer
<1>8. CASE \/ Boot \/ Connect \/ CleanupFails \/ BeginShutdown \/ GraceTimeout \/ GraceOver
           \/ StartDrain \/ DrainTimeout \/ DrainOver \/ Close
           \/ OthersCall \/ OthersReturn \/ UNCHANGED vars
  BY <1>2, <1>8 DEF Boot, Connect, CleanupFails, BeginShutdown, GraceTimeout, GraceOver,
                    StartDrain, DrainTimeout, DrainOver, Close, OthersCall, OthersReturn, vars
<1> QED
  BY <1>4, <1>5, <1>6, <1>7, <1>8 DEF Next, TearDown, Exit, Crash

\* No turn goes on for ever: each of its moves leaves it fewer.
THEOREM TurnsRunOut == Spec => MovesRunOut
<1>1. IInv /\ [Next]_vars => [\A t \in Turns : Fewer(t)]_vars
  BY EveryStepFewer
<1> QED
  BY <1>1, Invariance, PTL DEF Spec, MovesRunOut, Fewer

-----------------------------------------------------------------------------
(* What the tear-down waits for once a grace is over.                      *)

\* When the grace of await_inflight or of shutdown_all is over, each turn that
\* is still waited for is about to be cancelled where it stands, or has at most
\* a write and a post to go: no LLM, no tool and no queue for the semaphore can
\* hold up the tear-down from there on (ircclient.py:562-588, tasks.py:169-190).
CutIsBounded ==
  stage \in {"cut", "halt"} => \A t \in waiting : t \in killed \/ MovesLeft(t) <= 2

\* At those places a turn has two moves left at most.
LEMMA ShortWay ==
  ASSUME turn \in [Turns -> Local], NEW t \in Turns,
         turn[t].pc \in {"none", "persist", "post", "over"}
  PROVE  MovesLeft(t) <= 2
BY DEF MovesLeft, Weight, Loop, Handler

\* The number of moves that are left is an integer.
LEMMA MovesType ==
  ASSUME TypeOK, NEW t \in Turns
  PROVE  MovesLeft(t) \in Int
<1>1. turn[t].pc \in Places /\ turn[t].step \in Int /\ Steps(t) \in Int
  BY StepsType DEF TypeOK, Local
<1>2. Weight[turn[t].pc] \in Int
  BY <1>1 DEF Weight, Places, Handler, Alive, Loop
<1> QED
  BY <1>1, <1>2 DEF MovesLeft

\* A cancel that is thrown leaves a turn two moves at most.
LEMMA InterruptIsShort ==
  ASSUME TypeOK, NEW t \in Turns, Interrupt(t)
  PROVE  turn' \in [Turns -> Local] /\ turn'[t].pc \in {"persist", "over"}
<1>1. turn \in [Turns -> Local]
  BY DEF TypeOK
<1>2. Over(t) \/ (t \in Tasks /\ Finish(t, "cancelled"))
  BY DEF Interrupt, InterruptLoop, InterruptWrite, InterruptPost, InterruptStart
<1> QED
  BY <1>1, <1>2, OverFacts, FinishFacts DEF Outcomes

\* While the tear-down waits after a grace, who is to be cancelled stays so.
LEMMA CutStays ==
  ASSUME IInv, Next, stage' \in {"cut", "halt"}
  PROVE  \/ GraceTimeout \/ DrainTimeout
         \/ /\ stage' = stage /\ waiting' = waiting
            /\ \A u \in Turns : turn[u].pc = "none" => turn'[u].pc = "none"
            /\ \A u \in killed : u \in killed' \/ Interrupt(u)
<1> DEFINE Same == UNCHANGED <<stage, waiting, killed>>
           Unborn == \A u \in Turns : turn[u].pc = "none" => turn'[u].pc = "none"
<1>1. ASSUME NEW t \in Turns, OnlyMoves(t), turn[t].pc # "none" PROVE Unborn
  BY <1>1 DEF OnlyMoves
<1>2. ASSUME NEW t \in Tasks, AskTask(t) \/ Sweep(t) PROVE FALSE
  BY <1>2 DEF AskTask, Sweep, memory
<1>3. ASSUME NEW t \in Tasks, StoreOutcome(t) PROVE Same /\ Unborn
  <2>1. Same /\ turn[t].pc # "none"
    BY <1>3 DEF StoreOutcome, Persist, PersistFails, RunsAt, memory
  <2>2. t \in Turns
    BY DEF Turns
  <2> QED
    BY <1>1, <1>3, <2>1, <2>2, EndFewer
<1>4. ASSUME NEW t \in Tasks, NEW who \in Person, CancelTask(t, who) PROVE Same /\ Unborn
  BY <1>4 DEF CancelTask
<1>5. ASSUME NEW r \in Replies, AskReply(r) PROVE FALSE
  BY <1>5 DEF AskReply, memory
<1>6. ASSUME NEW t \in Turns, Start(t) PROVE Same /\ Unborn
  <2>1. Same
    BY <1>6 DEF Start, Insert, IssueFails, Spawn, Begin, BeginFails, Engage, Dropped, BeginReply,
                memory
  <2>2. turn[t].pc # "none"
    BY <1>6 DEF Start, Insert, IssueFails, Spawn, Begin, BeginFails, Engage, Dropped, BeginReply,
                RunsAt
  <2> QED
    BY <1>1, <1>6, <2>1, <2>2, StartFewer
<1>7. ASSUME NEW t \in Turns, Acquire(t) \/ Reaction(t) PROVE Same /\ Unborn
  <2>1. Same /\ turn[t].pc # "none"
    BY <1>7 DEF Acquire, Reaction, Answer, CallFails, GiveText, NextStep, RunsAt, memory
  <2> QED
    BY <1>1, <1>7, <2>1, LoopFewer
<1>8. ASSUME NEW t \in Turns, Post(t) PROVE Same /\ Unborn
  <2>1. Same /\ turn[t].pc # "none"
    BY <1>8 DEF Post, RunsAt, memory
  <2> QED
    BY <1>1, <1>8, <2>1, EndFewer
<1>9. ASSUME NEW t \in Turns, Interrupt(t)
      PROVE  UNCHANGED <<stage, waiting>> /\ Unborn /\ killed' = killed \ {t}
  <2>1. UNCHANGED <<stage, waiting>> /\ killed' = killed \ {t}
    BY <1>9 DEF Interrupt
  <2>2. turn[t].pc # "none"
    BY <1>9 DEF Interrupt, InterruptLoop, InterruptWrite, InterruptPost, InterruptStart, Loop
  <2> QED
    BY <1>1, <1>9, <2>1, <2>2, EndFewer
<1>10. CASE \/ Boot \/ Connect \/ CleanupFails \/ BeginShutdown \/ TearDown \/ Crash
            \/ OthersCall \/ OthersReturn
  BY <1>10 DEF Boot, Connect, CleanupFails, BeginShutdown, TearDown, GraceTimeout, GraceOver,
               StartDrain, DrainTimeout, DrainOver, Close, Exit, Crash, Vanish, OthersCall,
               OthersReturn
<1>11. CASE \E t \in Tasks : \/ AskTask(t) \/ Sweep(t) \/ StoreOutcome(t)
                             \/ \E who \in Person : CancelTask(t, who)
  BY <1>2, <1>3, <1>4, <1>11
<1>12. CASE \E t \in Turns : Start(t) \/ Acquire(t) \/ Reaction(t) \/ Post(t) \/ Interrupt(t)
  BY <1>6, <1>7, <1>8, <1>9, <1>12
<1> QED
  BY <1>5, <1>10, <1>11, <1>12 DEF Next

\* Every step keeps the bound.
LEMMA CutStep ==
  ASSUME IInv, CutIsBounded, [Next]_vars, stage' \in {"cut", "halt"},
         NEW t \in Turns, t \in waiting'
  PROVE  t \in killed' \/ MovesLeft(t)' <= 2
<1>1. TypeOK /\ TypeOK'
  BY StepIInv DEF IInv
<1>2. Fewer(t)
  BY EveryStepFewer
<1>3. MovesLeft(t) \in Int
  BY <1>1, MovesType
<1>4. MovesLeft(t)' \in Int
  <2>1. turn'[t].pc \in Places /\ turn'[t].step \in Int /\ Steps(t) \in Int
    BY <1>1, StepsType DEF TypeOK, Local
  <2>2. Weight[turn'[t].pc] \in Int
    BY <2>1 DEF Weight, Places, Handler, Alive, Loop
  <2> QED
    BY <2>1, <2>2 DEF MovesLeft, Weight, Steps
<1>5. CASE UNCHANGED vars
  <2>1. UNCHANGED <<turn, killed, stage, waiting>>
    BY <1>5 DEF vars, memory
  <2>2. MovesLeft(t)' = MovesLeft(t)
    BY <2>1 DEF MovesLeft, Steps
  <2> QED
    BY <2>1, <2>2 DEF CutIsBounded
<1>6. CASE GraceTimeout \/ DrainTimeout
  <2>1. UNCHANGED <<turn, waiting>> /\ Kill(waiting)
    BY <1>6 DEF GraceTimeout, DrainTimeout
  <2>2. CASE Live(t)
    BY <2>1, <2>2 DEF Kill
  <2>3. CASE ~Live(t)
    <3>1. turn' \in [Turns -> Local] /\ turn'[t].pc \in {"none", "over"}
      BY <1>1, <2>1, <2>3 DEF Live, TypeOK
    <3> QED
      BY <3>1 DEF MovesLeft, Weight, Loop, Handler
  <2> QED
    BY <2>2, <2>3
<1>7. ASSUME stage' = stage, waiting' = waiting,
             \A u \in Turns : turn[u].pc = "none" => turn'[u].pc = "none",
             \A u \in killed : u \in killed' \/ Interrupt(u)
      PROVE  t \in killed' \/ MovesLeft(t)' <= 2
  <2>1. t \in killed \/ MovesLeft(t) <= 2
    BY <1>7 DEF CutIsBounded
  <2>2. CASE Interrupt(t)
    <3>1. turn' \in [Turns -> Local] /\ turn'[t].pc \in {"persist", "over"}
      BY <1>1, <2>2, InterruptIsShort
    <3> QED
      BY <3>1 DEF MovesLeft, Weight, Loop, Handler
  <2>3. CASE t \notin killed /\ turn[t].pc = "none"
    <3>1. turn' \in [Turns -> Local] /\ turn'[t].pc = "none"
      BY <1>1, <1>7, <2>3 DEF TypeOK
    <3> QED
      BY <3>1 DEF MovesLeft, Weight, Loop, Handler
  <2>4. CASE t \notin killed /\ turn[t].pc # "none"
    <3>1. CASE turn'[t] = turn[t]
      <4>1. MovesLeft(t)' = MovesLeft(t)
        BY <3>1 DEF MovesLeft, Steps
      <4> QED
        BY <2>1, <2>4, <4>1
    <3>2. CASE turn'[t] # turn[t]
      <4>1. MovesLeft(t)' < MovesLeft(t)
        BY <1>2, <2>4, <3>2 DEF Fewer
      <4> QED
        BY <1>3, <1>4, <2>1, <2>4, <4>1
    <3> QED
      BY <3>1, <3>2
  <2> QED
    BY <1>7, <2>2, <2>3, <2>4
<1> QED
  BY <1>5, <1>6, <1>7, CutStays

\* Once a grace is over the tear-down waits for nothing that may take for ever.
THEOREM TearDownIsBounded == Spec => []CutIsBounded
<1>1. Init => CutIsBounded
  BY DEF Init, CutIsBounded
<1>2. IInv /\ CutIsBounded /\ [Next]_vars => CutIsBounded'
  <2> SUFFICES ASSUME IInv, CutIsBounded, [Next]_vars PROVE CutIsBounded'
    OBVIOUS
  <2>1. waiting' \subseteq Turns
    BY StepIInv DEF IInv, TypeOK
  <2> QED
    BY <2>1, CutStep DEF CutIsBounded
<1> QED
  BY <1>1, <1>2, Invariance, PTL DEF Spec
=============================================================================
