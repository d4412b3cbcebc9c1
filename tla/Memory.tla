------------------------------- MODULE Memory -------------------------------
(***************************************************************************)
(* What the bot remembers: MemoryStore and MemoryWriter                    *)
(* (src/bot/memory.py) and the tools remember and forget                   *)
(* (src/bot/tools/memory_tools.py), over the table memories.               *)
(*                                                                         *)
(* Two kinds of activity write to the table without a lock: the turns of   *)
(* the agent, whose model calls remember and forget, and the extraction    *)
(* runs, which MemoryWriter starts in the background when a channel has    *)
(* seen BatchSize more messages.  Every await is a boundary between two    *)
(* actions.  What the models answer is left open.                          *)
(*                                                                         *)
(* Two contents are the same fact if their vectors are as similar as       *)
(* DEDUP_SIM_THRESHOLD asks.  Rows are never deleted physically, so an id  *)
(* is used once.                                                           *)
(***************************************************************************)
EXTENDS Integers, FiniteSets

CONSTANTS
  Channels,
  Facts,        \* contents, up to similarity, that the content filter lets pass
  Turns,        \* bound: agent turns at one time
  ChannelOf,    \* the channel of each turn
  Runs,         \* bound: extraction runs at one time, a task object each
  Ids,          \* bound: rows of the table memories
  BatchSize,    \* EXTRACTOR_BATCH_SIZE
  MaxFacts,     \* bound: facts in one answer of the extractor
  NoRow,        \* the id is not used yet
  NoRun         \* no entry in _inflight

Row == [channel: Channels, fact: Facts, live: BOOLEAN]
Workers == Turns \cup Runs

ASSUME MemoryAssumption ==
  /\ IsFiniteSet(Turns) /\ IsFiniteSet(Runs) /\ IsFiniteSet(Ids)
  /\ Turns \cap Runs = {}
  /\ ChannelOf \in [Turns -> Channels]
  /\ NoRun \notin Runs /\ NoRow \notin Row
  /\ IsFiniteSet(Channels) /\ Cardinality(Channels) <= Cardinality(Runs)
  /\ {BatchSize, MaxFacts} \subseteq Nat \ {0}

VARIABLES
  memories,   \* the table
  counters,   \* MemoryWriter._counters
  inflight,   \* MemoryWriter._inflight: the task of each channel's last run
  proc,       \* where each turn and run stands, with its locals
  \* History, read by properties only.
  trail       \* of each id, in the audit table: a row `memory.forget', the
              \* failure to write one, or the loss of it in a crash

writer == <<counters, inflight>>
vars == <<memories, writer, proc, trail>>

(***************************************************************************)
(* A pc is the await that comes next.  "ask" is a run before it has its    *)
(* facts, of which `left' follow the one that is being added;              *)
(* "embed", "compare" and "insert" are add(), for a run or for remember;   *)
(* "look", "check", "flag" and "audit" are forget.                         *)
(***************************************************************************)
Adding == {"embed", "compare", "insert"}
Forgetting == {"check", "flag", "audit"}
Idle == [pc |-> "idle"]
Local ==
  {Idle}
    \cup [pc: {"ask"}, channel: Channels]
    \cup [pc: Adding, channel: Channels, left: 0..MaxFacts - 1, fact: Facts]
    \cup [pc: {"look"} \cup Forgetting, channel: Channels, id: Ids]

TypeOK ==
  /\ memories \in [Ids -> {NoRow} \cup Row]
  /\ counters \in [Channels -> 0..BatchSize - 1]
  /\ inflight \in [Channels -> Runs \cup {NoRun}]
  /\ proc \in [Workers -> Local]
  /\ trail \in [Ids -> {"none", "lost", "written"}]

Stored(i) == memories[i] # NoRow
Shown(ch, f) ==
  {i \in Ids : Stored(i) /\ memories[i] = [channel |-> ch, fact |-> f, live |-> TRUE]}
Active(ch) == {r \in Runs : proc[r].pc # "idle" /\ proc[r].channel = ch}
\* existing is not None and not existing.done()
\* Mutant: whether the task is over is not asked.
Busy_Ever(ch) == inflight[ch] # NoRun
Busy(ch) == inflight[ch] \in Active(ch)

Goto(w, local) == proc' = [proc EXCEPT ![w] = local]
\* add() is called with a fact that the content filter lets pass; one that it
\* does not is answered None before any await.
Adds(ch, f, left) ==
  [pc |-> "embed", channel |-> ch, fact |-> f, left |-> left]
\* add() has returned, or raised: the run takes its next fact or ends, the
\* tool is over.
Returned(w) ==
  IF proc[w].left = 0 THEN Goto(w, Idle)
  ELSE \E f \in Facts : Goto(w, Adds(proc[w].channel, f, proc[w].left - 1))

-----------------------------------------------------------------------------
(* MemoryWriter.                                                           *)

\* note_message(): the counter starts again before it is known whether the
\* run is started or skipped.
Counted(ch) ==
  counters' = [counters EXCEPT ![ch] = IF @ + 1 < BatchSize THEN @ + 1 ELSE 0]
Full(ch) == counters[ch] + 1 >= BatchSize

Hear(ch) ==
  /\ ~Full(ch) \/ Busy(ch)
  /\ Counted(ch)
  /\ UNCHANGED <<memories, inflight, proc, trail>>

\* A new task; which of the free ones it is makes no difference.
Started(ch) ==
  LET r == CHOOSE r \in Runs : proc[r] = Idle IN
  /\ \E q \in Runs : proc[q] = Idle
  /\ inflight' = [inflight EXCEPT ![ch] = r]
  /\ Goto(r, [pc |-> "ask", channel |-> ch])
  /\ UNCHANGED <<memories, trail>>

\* Mutant: a new run is started whether or not the last one is over.
Fire_Always(ch) ==
  /\ Full(ch)
  /\ Counted(ch)
  /\ Started(ch)
\* Mutant: the counter is not reset when a run is started.
Fire_NoReset(ch) ==
  /\ Full(ch) /\ ~Busy(ch)
  /\ counters' = [counters EXCEPT ![ch] = @ + 1]
  /\ Started(ch)
Fire(ch) ==
  /\ Full(ch) /\ ~Busy(ch)
  /\ Counted(ch)
  /\ Started(ch)

\* extract_and_store(): the log is read and the LLM is called, _parse_facts()
\* and the filter go through the answer.  Nothing comes of it if a call fails
\* or the answer cannot be parsed.
Extract(r) ==
  /\ proc[r].pc = "ask"
  /\ \/ Goto(r, Idle)
     \/ \E n \in 1..MaxFacts, f \in Facts :
          Goto(r, Adds(proc[r].channel, f, n - 1))
  /\ UNCHANGED <<memories, writer, trail>>

-----------------------------------------------------------------------------
(* MemoryStore.add(), in a run or in the tool remember.                    *)

\* remember: a content that is filtered is answered like a duplicate.
Remember(t, f) ==
  /\ proc[t] = Idle
  /\ Goto(t, Adds(ChannelOf[t], f, 0))
  /\ UNCHANGED <<memories, writer, trail>>

\* The embedding; without it nothing is stored.
Embed(w) ==
  /\ proc[w].pc = "embed"
  /\ \/ Goto(w, [proc[w] EXCEPT !.pc = "compare"])
     \/ Returned(w)
  /\ UNCHANGED <<memories, writer, trail>>

\* The vectors of the channel are read and compared.  Mutant: without them.
Compare_Skipped(w) ==
  /\ proc[w].pc = "compare"
  /\ Goto(w, [proc[w] EXCEPT !.pc = "insert"])
  /\ UNCHANGED <<memories, writer, trail>>
Compare(w) ==
  /\ proc[w].pc = "compare"
  /\ \/ /\ Shown(proc[w].channel, proc[w].fact) = {}
        /\ Goto(w, [proc[w] EXCEPT !.pc = "insert"])
     \/ /\ Shown(proc[w].channel, proc[w].fact) # {}
        /\ Returned(w)
     \/ Returned(w)    \* the query raises
  /\ UNCHANGED <<memories, writer, trail>>

\* The INSERT, or the exception it raises.
Insert(w) ==
  /\ proc[w].pc = "insert"
  /\ Returned(w)
  /\ \/ \E i \in Ids :
          /\ ~Stored(i)
          /\ memories' = [memories EXCEPT ![i] =
               [channel |-> proc[w].channel, fact |-> proc[w].fact, live |-> TRUE]]
     \/ UNCHANGED memories
  /\ UNCHANGED <<writer, trail>>

-----------------------------------------------------------------------------
(* The tool forget, of any id the model names.                             *)

Forget(t, i) ==
  /\ proc[t] = Idle
  /\ Goto(t, [pc |-> "look", channel |-> ChannelOf[t], id |-> i])
  /\ UNCHANGED <<memories, writer, trail>>

\* Mutant: the row is not asked for its channel.
Look_AnyChannel(t) ==
  /\ proc[t].pc = "look"
  /\ \/ Stored(proc[t].id) /\ memories[proc[t].id].live
          /\ Goto(t, [proc[t] EXCEPT !.pc = "check"])
     \/ Goto(t, Idle)
  /\ UNCHANGED <<memories, writer, trail>>

\* The row is read; one of another channel is refused, one that is already
\* forgotten is answered without further ado.
Look(t) ==
  LET m == memories[proc[t].id] IN
  /\ proc[t].pc = "look"
  /\ \/ Stored(proc[t].id) /\ m.live /\ m.channel = proc[t].channel
          /\ Goto(t, [proc[t] EXCEPT !.pc = "check"])
     \/ ~(Stored(proc[t].id) /\ m.live /\ m.channel = proc[t].channel)
          /\ Goto(t, Idle)
     \/ Goto(t, Idle)           \* the query raises
  /\ UNCHANGED <<memories, writer, trail>>

\* MemoryStore.forget(): a row forgotten meanwhile counts as forgotten.
Check(t) ==
  /\ proc[t].pc = "check"
  /\ \/ Goto(t, [proc[t] EXCEPT !.pc =
               IF memories[proc[t].id].live THEN "flag" ELSE "audit"])
     \/ Goto(t, Idle)
  /\ UNCHANGED <<memories, writer, trail>>

\* UPDATE ... WHERE deleted_at IS NULL, which may raise.
Flag(t) ==
  /\ proc[t].pc = "flag"
  /\ \/ /\ memories' = [memories EXCEPT ![proc[t].id].live = FALSE]
        /\ Goto(t, [proc[t] EXCEPT !.pc = "audit"])
     \/ Goto(t, Idle) /\ UNCHANGED memories
  /\ UNCHANGED <<writer, trail>>

AuditedNext(i) == \E t \in Turns : proc[t].pc = "audit" /\ proc[t].id = i
Lost(ids) ==
  [i \in Ids |-> IF i \in ids /\ trail[i] = "none" THEN "lost" ELSE trail[i]]

\* log_audit() keeps its failures to itself.
Audit(t) ==
  /\ proc[t].pc = "audit"
  /\ Goto(t, Idle)
  /\ \/ trail' = [trail EXCEPT ![proc[t].id] = "written"]
     \/ trail' = Lost({proc[t].id})
  /\ UNCHANGED <<memories, writer>>

-----------------------------------------------------------------------------
(* The process dies and is started again: the table survives.              *)
Crash ==
  /\ counters' = [ch \in Channels |-> 0]
  /\ inflight' = [ch \in Channels |-> NoRun]
  /\ proc' = [w \in Workers |-> Idle]
  /\ trail' = Lost({i \in Ids : AuditedNext(i)})
  /\ UNCHANGED memories

Init ==
  /\ memories = [i \in Ids |-> NoRow]
  /\ counters = [ch \in Channels |-> 0]
  /\ inflight = [ch \in Channels |-> NoRun]
  /\ proc = [w \in Workers |-> Idle]
  /\ trail = [i \in Ids |-> "none"]

Add(w) == Embed(w) \/ Compare(w) \/ Insert(w)
Run(r) == Extract(r) \/ Add(r)
Turn(t) ==
  \/ \E f \in Facts : Remember(t, f)
  \/ \E i \in Ids : Forget(t, i)
  \/ Add(t)
  \/ Look(t) \/ Check(t) \/ Flag(t) \/ Audit(t)
Message(ch) == Hear(ch) \/ Fire(ch)

Next ==
  \/ \E ch \in Channels : Message(ch)
  \/ \E r \in Runs : Run(r)
  \/ \E t \in Turns : Turn(t)
  \/ Crash

Spec == Init /\ [][Next]_vars

\* A run goes on: its calls return or time out (120 s for the LLM), and
\* its queries end.  Nothing makes people talk, or turns begin.
FairSpec == Spec /\ \A r \in Runs : WF_vars(Run(r))

-----------------------------------------------------------------------------
(* Correctness.                                                            *)

\* `skipping fire for %s (previous run still in-flight)' (note_message).  A
\* channel has at most one extraction at a time, and _inflight knows it.
OneExtractor ==
  \A ch \in Channels : Active(ch) \subseteq {inflight[ch]}

\* `skipping near-duplicate memory' (add).  The comparison and the INSERT are
\* not atomic; but the live copies of a fact in a channel are never more than
\* the adds that can overlap: the channel's extraction and the turns.
Inserting(ch, f) ==
  {w \in Workers : proc[w].pc = "insert"
                     /\ proc[w].channel = ch /\ proc[w].fact = f}
CopiesBounded ==
  \A ch \in Channels, f \in Facts :
    Cardinality(Shown(ch, f)) + Cardinality(Inserting(ch, f))
      <= Cardinality(Turns) + 1

\* `each channel's memory is its own scope' (_forget).  A memory stops being
\* shown by a forget of its own channel, and in no other way.
ForgetIsLocal ==
  [][\A i \in Ids :
       Stored(i) /\ memories'[i] # memories[i] =>
         /\ memories'[i] = [memories[i] EXCEPT !.live = FALSE]
         /\ \E t \in Turns : /\ proc[t].pc = "flag" /\ proc[t].id = i
                             /\ proc[t].channel = memories[i].channel]_vars

\* `Audit log (M3): record who forgot what' (_forget).  What the audit table
\* says is forgotten is; and what is forgotten is in the audit table or on its
\* way there, unless the audit itself failed or the process died before it.
AuditTrail ==
  \A i \in Ids :
    /\ trail[i] = "written" => Stored(i) /\ ~memories[i].live
    /\ Stored(i) /\ ~memories[i].live => trail[i] # "none" \/ AuditedNext(i)

\* `fires the extractor every N messages' (MemoryWriter).  In a channel where
\* people go on talking, extraction starts again and again, and ends each
\* time, unless the process dies again and again.
ExtractionGoesOn ==
  \A ch \in Channels :
    []<><<Message(ch)>>_vars /\ <>[][~Crash]_vars
      => []<>Busy(ch) /\ []<>~Busy(ch)

(***************************************************************************)
(* The abstract specification.                                             *)
(***************************************************************************)
Cleared ==
  {[by |-> w, channel |-> proc[w].channel, fact |-> proc[w].fact] :
     w \in {v \in Workers : proc[v].pc = "insert"}}
Asked ==
  {[by |-> t, id |-> proc[t].id] :
     t \in {u \in Turns : proc[u].pc \in {"look", "check", "flag"}}}
Due == {proc[t].id : t \in {u \in Turns : proc[u].pc = "audit"}}

Notebook == INSTANCE MemoryNotebook WITH
              notes <- memories,
              cleared <- Cleared,
              asked <- Asked,
              due <- Due,
              register <- trail

\* A memory is inserted by a turn of its channel or by the channel's only
\* extraction, each time after a comparison of its own that found no copy; it
\* is forgotten for good, by a turn of its channel, and each forget that finds
\* it so is recorded or known to be lost (memory.py:230-296, 468-492,
\* memory_tools.py:137-204).
ImplementsNotebook == Notebook!Spec
=============================================================================
