---------------------------- MODULE MemoryProofs ----------------------------
(***************************************************************************)
(* Proofs about Memory, for every number of turns, channels, facts and     *)
(* rows and every batch size.                                              *)
(***************************************************************************)
EXTENDS Memory, FiniteSetTheorems, TLAPS

-----------------------------------------------------------------------------
(* Locals.                                                                 *)

LEMMA IdleType == Idle \in Local
BY DEF Idle, Local

\* What a local has, by its pc.
LEMMA LocalShape ==
  ASSUME NEW l \in Local
  PROVE  /\ l.pc = "idle" => l = Idle
         /\ l.pc # "idle" => l.channel \in Channels
         /\ l.pc \in Adding =>
              /\ l.left \in 0..MaxFacts - 1 /\ l.fact \in Facts
              /\ \A pc \in Adding : [l EXCEPT !.pc = pc] \in Local
         /\ l.pc \in {"look"} \cup Forgetting =>
              /\ l.id \in Ids
              /\ \A pc \in Forgetting : [l EXCEPT !.pc = pc] \in Local
BY DEF Local, Idle, Adding, Forgetting

LEMMA AddsType ==
  ASSUME NEW ch \in Channels, NEW f \in Facts, NEW left \in 0..MaxFacts - 1
  PROVE  Adds(ch, f, left) \in Local
BY DEF Adds, Local, Adding

\* When add() has returned, its worker is idle or adds the next fact in the
\* same channel.
LEMMA ReturnedMoves ==
  ASSUME TypeOK, NEW w \in Workers, proc[w].pc \in Adding, Returned(w)
  PROVE  \E l \in Local :
           /\ proc' = [proc EXCEPT ![w] = l]
           /\ l.pc \in {"idle", "embed"}
           /\ l.pc = "embed" => l.channel = proc[w].channel
<1>1. proc[w] \in Local
  BY DEF TypeOK
<1>2. proc[w].left \in 0..MaxFacts - 1 /\ proc[w].channel \in Channels
  BY <1>1, LocalShape DEF Adding
<1>3. CASE proc[w].left = 0
  BY <1>3, IdleType DEF Returned, Goto, Idle
<1>4. CASE proc[w].left # 0
  <2>1. PICK f \in Facts : Goto(w, Adds(proc[w].channel, f, proc[w].left - 1))
    BY <1>4 DEF Returned
  <2>2. proc[w].left - 1 \in 0..MaxFacts - 1
    BY <1>2, <1>4, MemoryAssumption
  <2>3. Adds(proc[w].channel, f, proc[w].left - 1) \in Local
    BY <1>2, <2>2, AddsType
  <2> QED
    BY <2>1, <2>3 DEF Goto, Adds
<1> QED
  BY <1>3, <1>4

(***************************************************************************)
(* What a step of a worker does to its place: with `l', its new local,     *)
(* everything the invariants ask of proc' is about one worker.             *)
(***************************************************************************)
Moves(w, l) == l \in Local /\ proc' = [proc EXCEPT ![w] = l]

LEMMA MovesType ==
  ASSUME TypeOK, NEW w \in Workers, NEW l, Moves(w, l)
  PROVE  /\ proc' \in [Workers -> Local]
         /\ proc'[w] = l
         /\ \A v \in Workers \ {w} : proc'[v] = proc[v]
BY DEF TypeOK, Moves

-----------------------------------------------------------------------------
(* Types, and where a step leaves the workers.                             *)

LEMMA InitTypes == Init => TypeOK
BY IdleType, MemoryAssumption DEF Init, TypeOK

LEMMA ExtractMoves ==
  ASSUME TypeOK, NEW r \in Runs, Extract(r)
  PROVE  \E l \in Local :
           /\ Moves(r, l) /\ l.pc \in {"idle", "embed"}
           /\ l.pc # "idle" => l.channel = proc[r].channel
<1>1. proc[r] \in Local /\ proc[r].channel \in Channels
  BY LocalShape DEF TypeOK, Workers, Extract
<1>2. CASE Goto(r, Idle)
  BY <1>2, IdleType DEF Moves, Goto, Idle
<1>3. ASSUME NEW n \in 1..MaxFacts, NEW f \in Facts,
             Goto(r, Adds(proc[r].channel, f, n - 1))
      PROVE  \E l \in Local :
               /\ Moves(r, l) /\ l.pc \in {"idle", "embed"}
               /\ l.pc # "idle" => l.channel = proc[r].channel
  <2>1. n - 1 \in 0..MaxFacts - 1
    BY MemoryAssumption
  <2>2. Adds(proc[r].channel, f, n - 1) \in Local
    BY <1>1, <2>1, AddsType
  <2> QED
    BY <1>3, <2>2 DEF Moves, Goto, Adds
<1> QED
  BY <1>2, <1>3 DEF Extract

LEMMA AddMoves ==
  ASSUME TypeOK, NEW w \in Workers, Add(w)
  PROVE  /\ proc[w].pc \in Adding
         /\ \E l \in Local :
              /\ Moves(w, l) /\ l.pc \in {"idle"} \cup Adding
              /\ l.pc # "idle" => l.channel = proc[w].channel
              /\ l.pc = "insert" =>
                   /\ Compare(w) /\ l.fact = proc[w].fact
                   /\ Shown(proc[w].channel, proc[w].fact) = {}
<1>1. proc[w] \in Local
  BY DEF TypeOK
<1>2. proc[w].pc \in Adding
  BY DEF Add, Embed, Compare, Insert, Adding
<1>3. CASE Returned(w)
  <2>1. PICK l \in Local : /\ proc' = [proc EXCEPT ![w] = l]
                           /\ l.pc \in {"idle", "embed"}
                           /\ l.pc = "embed" => l.channel = proc[w].channel
    BY <1>2, <1>3, ReturnedMoves
  <2>2. l.pc \in {"idle"} \cup Adding /\ l.pc # "insert"
    BY <2>1 DEF Adding
  <2> QED
    BY <1>2, <2>1, <2>2 DEF Moves
<1>4. ASSUME NEW pc \in {"compare", "insert"}, Goto(w, [proc[w] EXCEPT !.pc = pc]),
             pc = "insert" => Compare(w)
                                /\ Shown(proc[w].channel, proc[w].fact) = {}
      PROVE  \E l \in Local :
               /\ Moves(w, l) /\ l.pc \in {"idle"} \cup Adding
               /\ l.pc # "idle" => l.channel = proc[w].channel
               /\ l.pc = "insert" =>
                    /\ Compare(w) /\ l.fact = proc[w].fact
                    /\ Shown(proc[w].channel, proc[w].fact) = {}
  <2> DEFINE l == [proc[w] EXCEPT !.pc = pc]
  <2>1. l \in Local
    BY <1>1, <1>2, LocalShape DEF Adding
  <2>2. l.pc = pc /\ l.channel = proc[w].channel /\ l.fact = proc[w].fact
    BY <1>1, <1>2 DEF Local, Adding, Idle
  <2> QED
    BY <1>4, <2>1, <2>2 DEF Moves, Goto, Adding
<1> QED
  BY <1>2, <1>3, <1>4 DEF Add, Embed, Compare, Insert

LEMMA RememberMoves ==
  ASSUME TypeOK, NEW t \in Turns, NEW f \in Facts, Remember(t, f)
  PROVE  Moves(t, Adds(ChannelOf[t], f, 0))
BY AddsType, MemoryAssumption DEF Remember, Moves, Goto

LEMMA ForgetMoves ==
  ASSUME TypeOK, NEW t \in Turns, NEW i \in Ids, Forget(t, i)
  PROVE  Moves(t, [pc |-> "look", channel |-> ChannelOf[t], id |-> i])
BY MemoryAssumption DEF Forget, Moves, Goto, Local

\* The steps of forget, after the id was named.
Forgets(t) == Look(t) \/ Check(t) \/ Flag(t) \/ Audit(t)

LEMMA ForgetsMoves ==
  ASSUME TypeOK, NEW t \in Turns, Forgets(t)
  PROVE  /\ proc[t].pc \in {"look"} \cup Forgetting /\ proc[t].id \in Ids
         /\ \E l \in Local :
              /\ Moves(t, l) /\ l.pc \in {"idle"} \cup Forgetting
              /\ l.pc # "idle" =>
                   l.channel = proc[t].channel /\ l.id = proc[t].id
              /\ l.pc = "check" => /\ Stored(l.id) /\ memories[l.id].live
                                   /\ memories[l.id].channel = l.channel
              /\ l.pc = "flag" => Check(t)
              /\ l.pc = "audit" =>
                   \/ Check(t) /\ ~memories[l.id].live
                   \/ Flag(t) /\ memories' = [memories EXCEPT ![l.id].live = FALSE]
<1> DEFINE l(pc) == [proc[t] EXCEPT !.pc = pc]
           Goal(m) == /\ Moves(t, m) /\ m.pc \in {"idle"} \cup Forgetting
                      /\ m.pc # "idle" =>
                           m.channel = proc[t].channel /\ m.id = proc[t].id
                      /\ m.pc = "check" => /\ Stored(m.id) /\ memories[m.id].live
                                           /\ memories[m.id].channel = m.channel
                      /\ m.pc = "flag" => Check(t)
                      /\ m.pc = "audit" =>
                           \/ Check(t) /\ ~memories[m.id].live
                           \/ Flag(t) /\ memories' = [memories EXCEPT ![m.id].live = FALSE]
<1>1. proc[t] \in Local
  BY DEF TypeOK, Workers
<1>2. proc[t].pc \in {"look"} \cup Forgetting
  BY DEF Forgets, Look, Check, Flag, Audit, Forgetting
<1>3. proc[t].id \in Ids
  BY <1>1, <1>2, LocalShape
<1>4. \A pc \in Forgetting : l(pc) \in Local
  BY <1>1, <1>2, LocalShape
<1>5. \A pc \in Forgetting : /\ l(pc).pc = pc /\ l(pc).id = proc[t].id
                             /\ l(pc).channel = proc[t].channel
  BY <1>1, <1>2 DEF Local, Forgetting, Idle, Adding
<1>6. Goto(t, Idle) => Goal(Idle)
  BY IdleType DEF Goto, Moves, Idle
<1>7. CASE Look(t)
  <2>1. CASE Goto(t, Idle)
    BY <1>2, <1>3, <1>6, <2>1, IdleType
  <2>2. CASE /\ Stored(proc[t].id) /\ memories[proc[t].id].live
             /\ memories[proc[t].id].channel = proc[t].channel
             /\ Goto(t, l("check"))
    BY <1>2, <1>3, <1>4, <1>5, <2>2 DEF Goto, Moves, Forgetting
  <2> QED
    BY <1>7, <2>1, <2>2 DEF Look
<1>8. CASE Check(t)
  <2>1. CASE Goto(t, Idle)
    BY <1>2, <1>3, <1>6, <2>1, IdleType
  <2>2. CASE memories[proc[t].id].live /\ Goto(t, l("flag"))
    BY <1>2, <1>3, <1>4, <1>5, <1>8, <2>2 DEF Goto, Moves, Forgetting
  <2>3. CASE ~memories[proc[t].id].live /\ Goto(t, l("audit"))
    BY <1>2, <1>3, <1>4, <1>5, <1>8, <2>3 DEF Goto, Moves, Forgetting
  <2> QED
    BY <1>8, <2>1, <2>2, <2>3 DEF Check
<1>9. CASE Flag(t)
  <2>1. CASE Goto(t, Idle)
    BY <1>2, <1>3, <1>6, <2>1, IdleType
  <2>2. CASE /\ memories' = [memories EXCEPT ![proc[t].id].live = FALSE]
             /\ Goto(t, l("audit"))
    BY <1>2, <1>3, <1>4, <1>5, <1>9, <2>2 DEF Goto, Moves, Forgetting
  <2> QED
    BY <1>9, <2>1, <2>2 DEF Flag
<1>10. CASE Audit(t)
  BY <1>2, <1>3, <1>6, <1>10, IdleType DEF Audit
<1> QED
  BY <1>7, <1>8, <1>9, <1>10 DEF Forgets

\* A run that is started is idle before, so its channel has no other.
LEMMA FireStarts ==
  ASSUME TypeOK, NEW ch \in Channels, Fire(ch)
  PROVE  \E r \in Runs :
           /\ proc[r] = Idle
           /\ Moves(r, [pc |-> "ask", channel |-> ch])
           /\ inflight' = [inflight EXCEPT ![ch] = r]
<1> DEFINE r == CHOOSE r \in Runs : proc[r] = Idle
<1>1. r \in Runs /\ proc[r] = Idle
  BY DEF Fire, Started
<1>2. [pc |-> "ask", channel |-> ch] \in Local
  BY DEF Local
<1> QED
  BY <1>1, <1>2 DEF Fire, Started, Goto, Moves

\* What forget has read is a row of its channel; at its audit, it is forgotten.
ForgetHolds ==
  \A t \in Turns : proc[t].pc \in Forgetting =>
    /\ Stored(proc[t].id) /\ memories[proc[t].id].channel = proc[t].channel
    /\ proc[t].pc = "audit" => ~memories[proc[t].id].live

\* The two ways in which the table changes.
Inserts(i, w) ==
  /\ ~Stored(i)
  /\ memories' = [memories EXCEPT ![i] =
       [channel |-> proc[w].channel, fact |-> proc[w].fact, live |-> TRUE]]
Flags(i) == Stored(i) /\ memories' = [memories EXCEPT ![i].live = FALSE]

LEMMA InsertsType ==
  ASSUME TypeOK, NEW w \in Workers, proc[w].pc \in Adding, NEW i \in Ids, Inserts(i, w)
  PROVE  memories' \in [Ids -> {NoRow} \cup Row]
<1> DEFINE row == [channel |-> proc[w].channel, fact |-> proc[w].fact, live |-> TRUE]
<1>1. row \in Row
  <2>1. proc[w] \in Local
    BY DEF TypeOK
  <2>2. proc[w].channel \in Channels /\ proc[w].fact \in Facts
    BY <2>1, LocalShape DEF Adding
  <2> QED
    BY <2>2 DEF Row
<1> HIDE DEF row
<1>2. memories' = [memories EXCEPT ![i] = row]
  BY DEF Inserts, row
<1> QED
  BY <1>1, <1>2 DEF TypeOK

LEMMA FlagsType ==
  ASSUME TypeOK, NEW i \in Ids, Flags(i)
  PROVE  /\ memories' \in [Ids -> {NoRow} \cup Row]
         /\ memories'[i] # NoRow /\ ~memories'[i].live
         /\ memories'[i].channel = memories[i].channel
         /\ \A j \in Ids \ {i} : memories'[j] = memories[j]
<1> DEFINE row == [memories[i] EXCEPT !.live = FALSE]
<1>1. memories[i] \in Row
  BY DEF TypeOK, Flags, Stored
<1>2. row \in Row /\ ~row.live /\ row.channel = memories[i].channel
  BY <1>1 DEF Row
<1>3. memories' = [memories EXCEPT ![i] = row]
  BY DEF Flags
<1> HIDE DEF row
<1> QED
  BY <1>2, <1>3, MemoryAssumption DEF TypeOK

LEMMA AddTable ==
  ASSUME NEW w \in Workers, Add(w)
  PROVE  \/ UNCHANGED memories
         \/ proc[w].pc = "insert" /\ Returned(w) /\ \E i \in Ids : Inserts(i, w)
BY DEF Add, Embed, Compare, Insert, Inserts

LEMMA ForgetsTable ==
  ASSUME TypeOK, ForgetHolds, NEW t \in Turns, Forgets(t)
  PROVE  \/ UNCHANGED memories
         \/ /\ proc[t].pc = "flag" /\ Flags(proc[t].id)
            /\ Goto(t, [proc[t] EXCEPT !.pc = "audit"])
BY DEF Forgets, Look, Check, Flag, Audit, Flags, ForgetHolds, Forgetting

LEMMA NextTypes == TypeOK /\ ForgetHolds /\ [Next]_vars => TypeOK'
<1> SUFFICES ASSUME TypeOK, ForgetHolds, [Next]_vars PROVE TypeOK'
  OBVIOUS
<1>1. ASSUME NEW ch \in Channels, Message(ch) PROVE TypeOK'
  <2>1. counters' \in [Channels -> 0..BatchSize - 1]
    BY <1>1, MemoryAssumption DEF TypeOK, Message, Hear, Fire, Counted
  <2>2. CASE Hear(ch)
    BY <2>1, <2>2 DEF Hear, TypeOK
  <2>3. CASE Fire(ch)
    BY <2>1, <2>3, FireStarts, MovesType DEF Fire, Started, TypeOK, Workers
  <2> QED
    BY <1>1, <2>2, <2>3 DEF Message
<1>2. ASSUME NEW w \in Workers, Add(w) PROVE TypeOK'
  <2>1. proc' \in [Workers -> Local]
    BY <1>2, AddMoves, MovesType
  <2>2. memories' \in [Ids -> {NoRow} \cup Row]
    BY <1>2, AddMoves, AddTable, InsertsType DEF TypeOK
  <2> QED
    BY <1>2, <2>1, <2>2 DEF Add, Embed, Compare, Insert, TypeOK, writer
<1>3. ASSUME NEW r \in Runs, Extract(r) PROVE TypeOK'
  BY <1>3, ExtractMoves, MovesType DEF Extract, TypeOK, writer, Workers
<1>4. ASSUME NEW t \in Turns, NEW f \in Facts, Remember(t, f) PROVE TypeOK'
  BY <1>4, RememberMoves, MovesType DEF Remember, TypeOK, writer, Workers
<1>5. ASSUME NEW t \in Turns, NEW i \in Ids, Forget(t, i) PROVE TypeOK'
  BY <1>5, ForgetMoves, MovesType DEF Forget, TypeOK, writer, Workers
<1>6. ASSUME NEW t \in Turns, Forgets(t) PROVE TypeOK'
  <2>1. proc' \in [Workers -> Local] /\ proc[t].id \in Ids
    BY <1>6, ForgetsMoves, MovesType DEF Workers
  <2>2. memories' \in [Ids -> {NoRow} \cup Row]
    BY <1>6, <2>1, ForgetsTable, FlagsType DEF TypeOK
  <2> QED
    BY <1>6, <2>1, <2>2 DEF Forgets, Look, Check, Flag, Audit, Lost, TypeOK, writer
<1>7. ASSUME Crash PROVE TypeOK'
  BY <1>7, IdleType, MemoryAssumption DEF Crash, TypeOK, Lost
<1>8. ASSUME UNCHANGED vars PROVE TypeOK'
  BY <1>8 DEF vars, writer, TypeOK
<1> QED
  BY <1>1, <1>2, <1>3, <1>4, <1>5, <1>6, <1>7, <1>8
     DEF Next, Run, Turn, Forgets, Workers

-----------------------------------------------------------------------------
(* The inductive invariant.  Besides what the runs check it says that      *)
(* _inflight knows every run that is not over, and what forget has read.   *)

RunsKnown ==
  \A r \in Runs : proc[r].pc # "idle" => inflight[proc[r].channel] = r

IInv == TypeOK /\ ForgetHolds /\ RunsKnown /\ CopiesBounded /\ AuditTrail

LEMMA KnownIsOne == RunsKnown => OneExtractor
BY DEF RunsKnown, OneExtractor, Active

\* RunsKnown: a run keeps its channel to its end, and a run is started only
\* when the channel's last one is over.
LEMMA RunsStayKnown == TypeOK /\ RunsKnown /\ [Next]_vars => RunsKnown'
<1> SUFFICES ASSUME TypeOK, RunsKnown, [Next]_vars PROVE RunsKnown'
  OBVIOUS
<1>1. ASSUME NEW ch \in Channels, Message(ch) PROVE RunsKnown'
  <2>1. CASE Hear(ch)
    BY <2>1 DEF Hear, RunsKnown
  <2>2. CASE Fire(ch)
    <3>1. PICK r \in Runs : /\ proc[r] = Idle
                            /\ Moves(r, [pc |-> "ask", channel |-> ch])
                            /\ inflight' = [inflight EXCEPT ![ch] = r]
      BY <2>2, FireStarts
    <3>2. /\ proc'[r] = [pc |-> "ask", channel |-> ch]
          /\ \A q \in Runs \ {r} : proc'[q] = proc[q]
      BY <3>1, MovesType DEF Workers
    <3>3. ASSUME NEW q \in Runs, q # r, proc[q].pc # "idle"
          PROVE  inflight'[proc[q].channel] = q
      <4>1. proc[q].channel \in Channels /\ inflight[proc[q].channel] = q
        BY <3>3, LocalShape DEF TypeOK, Workers, RunsKnown
      <4>2. proc[q].channel # ch
        BY <2>2, <3>3, <4>1 DEF Fire, Busy, Active
      <4> QED
        BY <3>1, <4>1, <4>2 DEF TypeOK
    <3>4. inflight'[ch] = r
      BY <3>1 DEF TypeOK
    <3> QED
      BY <3>2, <3>3, <3>4 DEF RunsKnown
  <2> QED
    BY <1>1, <2>1, <2>2 DEF Message
<1>2. ASSUME NEW r \in Runs, Run(r) PROVE RunsKnown'
  <2>1. UNCHANGED inflight /\ proc[r].pc # "idle"
    BY <1>2 DEF Run, Add, Extract, Embed, Compare, Insert, writer
  <2>2. \E l \in Local : Moves(r, l) /\ (l.pc # "idle" => l.channel = proc[r].channel)
    BY <1>2, ExtractMoves, AddMoves DEF Run, Workers
  <2> QED
    BY <2>1, <2>2, MovesType DEF RunsKnown, Workers
<1>3. ASSUME NEW t \in Turns, Turn(t) PROVE RunsKnown'
  <2>1. UNCHANGED inflight
    BY <1>3 DEF Turn, Remember, Forget, Add, Embed, Compare, Insert,
                Look, Check, Flag, Audit, writer
  <2>2. \E l : Moves(t, l)
    BY <1>3, RememberMoves, ForgetMoves, AddMoves, ForgetsMoves
       DEF Turn, Forgets, Workers
  <2>3. \A r \in Runs : proc'[r] = proc[r]
    BY <2>2, MovesType, MemoryAssumption DEF Workers
  <2> QED
    BY <2>1, <2>3 DEF RunsKnown
<1>4. ASSUME Crash PROVE RunsKnown'
  BY <1>4 DEF Crash, RunsKnown, Idle, Workers
<1>5. ASSUME UNCHANGED vars PROVE RunsKnown'
  BY <1>5 DEF vars, writer, RunsKnown
<1> QED
  BY <1>1, <1>2, <1>3, <1>4, <1>5 DEF Next

-----------------------------------------------------------------------------
(* CopiesBounded.  A step of add() turns the place before the INSERT into  *)
(* a row, so the sum grows only at a comparison; that one finds no live    *)
(* copy, and then there are at most as many adds as the sum allows.        *)

LEMMA FiniteParts ==
  ASSUME NEW ch, NEW f
  PROVE  /\ IsFiniteSet(Shown(ch, f)) /\ IsFiniteSet(Inserting(ch, f))
         /\ Cardinality(Shown(ch, f)) \in Nat
         /\ Cardinality(Inserting(ch, f)) \in Nat
<1>1. IsFiniteSet(Workers)
  BY FS_Union, MemoryAssumption DEF Workers
<1>2. Shown(ch, f) \subseteq Ids /\ Inserting(ch, f) \subseteq Workers
  BY DEF Shown, Inserting
<1> QED
  BY <1>1, <1>2, FS_Subset, FS_CardinalityType, MemoryAssumption

Bounded(ch, f) ==
  Cardinality(Shown(ch, f)) + Cardinality(Inserting(ch, f)) <= Cardinality(Turns) + 1

LEMMA TurnsCount == Cardinality(Turns) \in Nat
BY FS_CardinalityType, MemoryAssumption

LEMMA AddOne ==
  ASSUME NEW S, IsFiniteSet(S), NEW x
  PROVE  /\ IsFiniteSet(S \cup {x}) /\ Cardinality(S \cup {x}) \in Nat
         /\ Cardinality(S \cup {x}) <= Cardinality(S) + 1
<1>1. Cardinality(S) \in Nat
  BY FS_CardinalityType
<1>2. CASE x \in S
  <2>1. S \cup {x} = S
    BY <1>2
  <2>2. Cardinality(S \cup {x}) = Cardinality(S)
    BY ONLY <2>1
  <2>3. IsFiniteSet(S \cup {x})
    BY ONLY <2>1, IsFiniteSet(S)
  <2> QED
    BY <1>1, <2>2, <2>3
<1>3. CASE x \notin S
  BY <1>1, <1>3, FS_AddElement
<1> QED
  BY <1>2, <1>3

LEMMA FewerCopies ==
  ASSUME NEW ch, NEW f, Bounded(ch, f),
         Shown(ch, f)' \subseteq Shown(ch, f), Inserting(ch, f)' \subseteq Inserting(ch, f)
  PROVE  Bounded(ch, f)'
<1>1. /\ Cardinality(Shown(ch, f)') <= Cardinality(Shown(ch, f))
      /\ Cardinality(Inserting(ch, f)') <= Cardinality(Inserting(ch, f))
      /\ Cardinality(Shown(ch, f)') \in Nat /\ Cardinality(Inserting(ch, f)') \in Nat
  BY FiniteParts, FS_Subset, FS_CardinalityType
<1> QED
  BY <1>1, FiniteParts, TurnsCount DEF Bounded

LEMMA SameTable ==
  ASSUME NEW ch, NEW f, UNCHANGED memories
  PROVE  Shown(ch, f)' = Shown(ch, f)
BY DEF Shown, Stored

LEMMA FewerShown ==
  ASSUME TypeOK, NEW ch, NEW f, NEW i \in Ids, Flags(i)
  PROVE  Shown(ch, f)' \subseteq Shown(ch, f)
<1> SUFFICES ASSUME NEW j \in Ids, Stored(j)',
                    memories'[j] = [channel |-> ch, fact |-> f, live |-> TRUE]
             PROVE  j \in Shown(ch, f)
  BY DEF Shown
<1>1. j # i
  BY FlagsType
<1>2. memories'[j] = memories[j]
  BY <1>1, FlagsType
<1> QED
  BY <1>2 DEF Shown, Stored

LEMMA FewerInserting ==
  ASSUME TypeOK, NEW ch, NEW f, NEW w \in Workers, NEW l, Moves(w, l),
         l.pc # "insert"
  PROVE  Inserting(ch, f)' \subseteq Inserting(ch, f) \ {w}
BY MovesType DEF Inserting

\* The adds of a channel are its turns and the run that _inflight knows.
LEMMA FewAdds ==
  ASSUME TypeOK, RunsKnown, NEW ch \in Channels, NEW f
  PROVE  Cardinality(Inserting(ch, f)) <= Cardinality(Turns) + 1
<1> DEFINE S == Turns \cup {inflight[ch]}
<1>1. Inserting(ch, f) \subseteq S
  BY DEF Inserting, RunsKnown, Workers
<1>2. IsFiniteSet(S) /\ Cardinality(S) <= Cardinality(Turns) + 1
  BY AddOne, MemoryAssumption
<1>3. Cardinality(S) \in Nat
  BY <1>2, FS_CardinalityType
<1> QED
  BY <1>1, <1>2, <1>3, FS_Subset, FiniteParts, TurnsCount

LEMMA AddCopies ==
  ASSUME TypeOK, RunsKnown, CopiesBounded, TypeOK', RunsKnown',
         NEW w \in Workers, Add(w), NEW ch \in Channels, NEW f \in Facts
  PROVE  Bounded(ch, f)'
<1>1. Bounded(ch, f)
  BY DEF CopiesBounded, Bounded
<1>2. PICK l \in Local :
        /\ Moves(w, l) /\ l.pc \in {"idle"} \cup Adding
        /\ l.pc # "idle" => l.channel = proc[w].channel
        /\ l.pc = "insert" => /\ Compare(w) /\ l.fact = proc[w].fact
                              /\ Shown(proc[w].channel, proc[w].fact) = {}
  BY AddMoves
<1>3. CASE l.pc = "insert"
  <2>1. UNCHANGED memories
    BY <1>2, <1>3 DEF Compare
  <2>2. CASE ch = proc[w].channel /\ f = proc[w].fact
    <3>1. Shown(ch, f)' = {}
      BY <1>2, <1>3, <2>1, <2>2, SameTable
    <3>2. Cardinality(Shown(ch, f)') = 0
      BY <3>1, FS_EmptySet
    <3>3. Cardinality(Inserting(ch, f)') <= Cardinality(Turns) + 1
      <4>1. (TypeOK /\ RunsKnown =>
               Cardinality(Inserting(ch, f)) <= Cardinality(Turns) + 1)'
        BY FewAdds, PTL
      <4> QED
        BY <4>1
    <3>4. Cardinality(Inserting(ch, f)') \in Nat
      <4>1. IsFiniteSet(Workers)
        BY FS_Union, MemoryAssumption DEF Workers
      <4>2. Inserting(ch, f)' \subseteq Workers
        BY DEF Inserting
      <4> QED
        BY <4>1, <4>2, FS_Subset, FS_CardinalityType
    <3> QED
      BY <3>2, <3>3, <3>4, TurnsCount DEF Bounded
  <2>3. CASE ~(ch = proc[w].channel /\ f = proc[w].fact)
    <3>1. Inserting(ch, f)' \subseteq Inserting(ch, f)
      BY <1>2, <1>3, <2>3, MovesType DEF Inserting
    <3> QED
      BY <1>1, <2>1, <3>1, SameTable, FewerCopies
  <2> QED
    BY <2>2, <2>3
<1>4. CASE l.pc # "insert"
  <2>1. Inserting(ch, f)' \subseteq Inserting(ch, f) \ {w}
    BY <1>2, <1>4, FewerInserting
  <2>2. CASE UNCHANGED memories
    BY <1>1, <2>1, <2>2, SameTable, FewerCopies
  <2>3. ASSUME proc[w].pc = "insert", NEW i \in Ids, Inserts(i, w)
        PROVE  Bounded(ch, f)'
    <3>1. \A j \in Ids \ {i} : memories'[j] = memories[j]
      BY <2>3 DEF Inserts, TypeOK
    <3>2. memories'[i] = [channel |-> proc[w].channel, fact |-> proc[w].fact, live |-> TRUE]
      BY <2>3 DEF Inserts, TypeOK
    <3>3. CASE ch = proc[w].channel /\ f = proc[w].fact
      <4>1. Shown(ch, f)' \subseteq Shown(ch, f) \cup {i}
        BY <3>1 DEF Shown, Stored
      <4>2. w \in Inserting(ch, f)
        BY <2>3, <3>3 DEF Inserting
      <4>3. /\ Cardinality(Shown(ch, f) \cup {i}) <= Cardinality(Shown(ch, f)) + 1
            /\ IsFiniteSet(Shown(ch, f) \cup {i})
        BY FiniteParts, AddOne
      <4>4. /\ Cardinality(Inserting(ch, f) \ {w}) = Cardinality(Inserting(ch, f)) - 1
            /\ IsFiniteSet(Inserting(ch, f) \ {w})
        BY <4>2, FiniteParts, FS_RemoveElement
      <4>5. /\ Cardinality(Shown(ch, f)') <= Cardinality(Shown(ch, f) \cup {i})
            /\ Cardinality(Inserting(ch, f)') <= Cardinality(Inserting(ch, f) \ {w})
        BY <2>1, <4>1, <4>3, <4>4, FS_Subset
      <4>6. /\ Cardinality(Shown(ch, f)') \in Nat /\ Cardinality(Inserting(ch, f)') \in Nat
            /\ Cardinality(Shown(ch, f) \cup {i}) \in Nat
        BY <2>1, <4>1, <4>3, <4>4, FS_Subset, FS_CardinalityType
      <4> QED
        BY <1>1, <4>3, <4>4, <4>5, <4>6, FiniteParts, TurnsCount DEF Bounded
    <3>4. CASE ~(ch = proc[w].channel /\ f = proc[w].fact)
      <4>1. Shown(ch, f)' \subseteq Shown(ch, f)
        BY <3>1, <3>2, <3>4 DEF Shown, Stored
      <4> QED
        BY <1>1, <2>1, <4>1, FewerCopies
    <3> QED
      BY <3>3, <3>4
  <2> QED
    BY <2>2, <2>3, AddTable
<1> QED
  BY <1>3, <1>4

-----------------------------------------------------------------------------
(* What a step does to the table, to a turn and to the audit trail.        *)

LEMMA TableMoves ==
  ASSUME TypeOK, ForgetHolds, [Next]_vars
  PROVE  \/ UNCHANGED memories
         \/ \E w \in Workers : \E i \in Ids :
              Add(w) /\ proc[w].pc = "insert" /\ Inserts(i, w)
         \/ \E t \in Turns :
              /\ Forgets(t) /\ proc[t].pc = "flag" /\ Flags(proc[t].id)
              /\ Goto(t, [proc[t] EXCEPT !.pc = "audit"])
<1>1. ASSUME NEW ch \in Channels, Message(ch) PROVE UNCHANGED memories
  BY <1>1 DEF Message, Hear, Fire, Started
<1>2. ASSUME NEW r \in Runs, Extract(r) PROVE UNCHANGED memories
  BY <1>2 DEF Extract
<1>3. ASSUME NEW t \in Turns, NEW f \in Facts, Remember(t, f) PROVE UNCHANGED memories
  BY <1>3 DEF Remember
<1>4. ASSUME NEW t \in Turns, NEW i \in Ids, Forget(t, i) PROVE UNCHANGED memories
  BY <1>4 DEF Forget
<1>5. ASSUME Crash PROVE UNCHANGED memories
  BY <1>5 DEF Crash
<1>6. ASSUME UNCHANGED vars PROVE UNCHANGED memories
  BY <1>6 DEF vars
<1> QED
  BY <1>1, <1>2, <1>3, <1>4, <1>5, <1>6, AddTable, ForgetsTable
     DEF Next, Run, Turn, Forgets, Workers

\* A row keeps its channel, and what is forgotten stays forgotten.
LEMMA TableGrows ==
  ASSUME TypeOK, ForgetHolds, [Next]_vars, NEW i \in Ids, Stored(i)
  PROVE  /\ Stored(i)' /\ memories'[i].channel = memories[i].channel
         /\ ~memories[i].live => ~memories'[i].live
<1>1. CASE UNCHANGED memories
  BY <1>1 DEF Stored
<1>2. ASSUME NEW w \in Workers, NEW j \in Ids, Inserts(j, w)
      PROVE  memories'[i] = memories[i]
  BY <1>2 DEF Inserts, TypeOK
<1>3. ASSUME NEW t \in Turns, Forgets(t), Flags(proc[t].id)
      PROVE  /\ Stored(i)' /\ memories'[i].channel = memories[i].channel
             /\ ~memories[i].live => ~memories'[i].live
  BY <1>3, ForgetsMoves, FlagsType DEF Stored
<1> QED
  BY <1>1, <1>2, <1>3, TableMoves DEF Stored

LEMMA TurnMoves ==
  ASSUME TypeOK, [Next]_vars, NEW t \in Turns
  PROVE  proc'[t] = proc[t] \/ Turn(t) \/ Crash
<1>1. ASSUME NEW ch \in Channels, Message(ch) PROVE proc'[t] = proc[t]
  <2>1. CASE Hear(ch)
    BY <2>1 DEF Hear
  <2>2. CASE Fire(ch)
    <3>1. \E r \in Runs : \E l : Moves(r, l)
      BY <2>2, FireStarts
    <3> QED
      BY <3>1, MovesType, MemoryAssumption DEF Workers
  <2> QED
    BY <1>1, <2>1, <2>2 DEF Message
<1>2. ASSUME NEW r \in Runs, Run(r) PROVE proc'[t] = proc[t]
  <2>1. \E l \in Local : Moves(r, l)
    BY <1>2, ExtractMoves, AddMoves DEF Run, Workers
  <2> QED
    BY <2>1, MovesType, MemoryAssumption DEF Workers
<1>3. ASSUME NEW u \in Turns, Turn(u), u # t PROVE proc'[t] = proc[t]
  <2>1. \E l : Moves(u, l)
    BY <1>3, RememberMoves, ForgetMoves, AddMoves, ForgetsMoves
       DEF Turn, Forgets, Workers
  <2> QED
    BY <1>3, <2>1, MovesType DEF Workers
<1>4. ASSUME UNCHANGED vars PROVE proc'[t] = proc[t]
  BY <1>4 DEF vars
<1> QED
  BY <1>1, <1>2, <1>3, <1>4 DEF Next

LEMMA TrailMoves ==
  ASSUME [Next]_vars
  PROVE  UNCHANGED trail \/ Crash \/ \E t \in Turns : Audit(t)
BY DEF Next, Message, Hear, Fire, Started, Run, Extract, Add, Embed, Compare,
       Insert, Turn, Remember, Forget, Look, Check, Flag, vars

-----------------------------------------------------------------------------
(* ForgetHolds.                                                            *)

LEMMA ForgetStaysHeld == TypeOK /\ ForgetHolds /\ [Next]_vars => ForgetHolds'
<1> SUFFICES ASSUME TypeOK, ForgetHolds, [Next]_vars,
                    NEW t \in Turns, proc'[t].pc \in Forgetting
             PROVE  /\ memories'[proc'[t].id] # NoRow
                    /\ memories'[proc'[t].id].channel = proc'[t].channel
                    /\ proc'[t].pc = "audit" => ~memories'[proc'[t].id].live
  BY DEF ForgetHolds, Stored
<1>1. CASE proc'[t] = proc[t]
  <2>1. proc[t].id \in Ids
    BY <1>1, LocalShape DEF TypeOK, Workers
  <2> QED
    BY <1>1, <2>1, TableGrows DEF ForgetHolds, Stored
<1>2. CASE Turn(t) /\ ~Forgets(t)
  <2>1. ASSUME NEW f \in Facts, Remember(t, f) PROVE FALSE
    <3>1. proc'[t] = Adds(ChannelOf[t], f, 0)
      BY <2>1, RememberMoves, MovesType DEF Workers
    <3> QED
      BY <3>1 DEF Adds, Forgetting
  <2>2. ASSUME NEW i \in Ids, Forget(t, i) PROVE FALSE
    <3>1. proc'[t] = [pc |-> "look", channel |-> ChannelOf[t], id |-> i]
      BY <2>2, ForgetMoves, MovesType DEF Workers
    <3> QED
      BY <3>1 DEF Forgetting
  <2>3. ASSUME Add(t) PROVE FALSE
    BY <2>3, AddMoves, MovesType DEF Forgetting, Adding, Workers
  <2> QED
    BY <1>2, <2>1, <2>2, <2>3 DEF Turn, Forgets
<1>3. CASE Forgets(t)
  <2>1. PICK l \in Local :
          /\ Moves(t, l) /\ l.pc \in {"idle"} \cup Forgetting
          /\ l.pc # "idle" => l.channel = proc[t].channel /\ l.id = proc[t].id
          /\ l.pc = "check" => /\ Stored(l.id) /\ memories[l.id].live
                               /\ memories[l.id].channel = l.channel
          /\ l.pc = "flag" => Check(t)
          /\ l.pc = "audit" =>
               \/ Check(t) /\ ~memories[l.id].live
               \/ Flag(t) /\ memories' = [memories EXCEPT ![l.id].live = FALSE]
    BY <1>3, ForgetsMoves
  <2>2. proc'[t] = l
    BY <2>1, MovesType DEF Workers
  <2>3. l.pc # "idle" /\ l.id = proc[t].id /\ l.channel = proc[t].channel
    BY <2>1, <2>2 DEF Forgetting
  <2>4. l.id \in Ids
    BY <1>3, <2>3, ForgetsMoves
  <2>5. Stored(l.id) /\ memories[l.id].channel = l.channel
    BY <2>1, <2>2, <2>3 DEF ForgetHolds, Check, Flag, Forgetting
  <2>6. l.pc = "audit" => ~memories'[l.id].live
    <3>1. CASE Check(t) /\ ~memories[l.id].live
      BY <3>1 DEF Check
    <3>2. CASE memories' = [memories EXCEPT ![l.id].live = FALSE]
      BY <2>4, <2>5, <3>2, FlagsType DEF Flags
    <3> QED
      BY <2>1, <3>1, <3>2
  <2> QED
    BY <2>2, <2>4, <2>5, <2>6, TableGrows DEF Stored
<1>4. CASE Crash
  BY <1>4 DEF Crash, Idle, Forgetting, Workers
<1> QED
  BY <1>1, <1>2, <1>3, <1>4, TurnMoves

-----------------------------------------------------------------------------
(* AuditTrail: a row is forgotten by an UPDATE that is followed by its     *)
(* audit, and a turn leaves "audit" by Audit or in a crash.                *)

\* An entry of the trail is never taken back.
LEMMA TrailGrows ==
  ASSUME TypeOK, [Next]_vars, NEW i \in Ids, trail[i] # "none"
  PROVE  trail'[i] # "none"
BY TrailMoves DEF Crash, Audit, Lost, TypeOK

LEMMA WrittenIsForgotten ==
  ASSUME TypeOK, ForgetHolds, AuditTrail, [Next]_vars, NEW i \in Ids,
         trail'[i] = "written"
  PROVE  memories'[i] # NoRow /\ ~memories'[i].live
<1>1. Stored(i) /\ ~memories[i].live
  <2>1. CASE trail[i] = "written"
    BY <2>1 DEF AuditTrail
  <2>2. CASE trail[i] # "written"
    <3>1. PICK t \in Turns : Audit(t)
      BY <2>2, TrailMoves DEF Crash, Lost
    <3>2. proc[t].id = i
      BY <2>2, <3>1 DEF Audit, Lost, TypeOK
    <3> QED
      BY <3>1, <3>2 DEF Audit, ForgetHolds, Forgetting
  <2> QED
    BY <2>1, <2>2
<1> QED
  BY <1>1, TableGrows DEF Stored

\* A turn on its way to the audit is still on it, or has come to its end.
LEMMA AuditGoesOn ==
  ASSUME TypeOK, [Next]_vars, NEW t \in Turns, proc[t].pc = "audit"
  PROVE  \/ proc'[t] = proc[t]
         \/ trail'[proc[t].id] # "none"
<1>1. proc[t].id \in Ids
  BY LocalShape DEF TypeOK, Workers, Forgetting
<1>2. CASE Crash
  BY <1>1, <1>2 DEF Crash, Lost, AuditedNext, TypeOK
<1>3. CASE Turn(t)
  <2>1. Audit(t)
    <3>1. ~Add(t)
      BY AddMoves DEF Adding, Workers
    <3>2. \A f : ~Remember(t, f)
      BY DEF Remember, Idle
    <3>3. \A i : ~Forget(t, i)
      BY DEF Forget, Idle
    <3> QED
      BY <1>3, <3>1, <3>2, <3>3 DEF Turn, Look, Check, Flag
  <2> QED
    BY <1>1, <2>1 DEF Audit, Lost, TypeOK
<1> QED
  BY <1>2, <1>3, TurnMoves

LEMMA ForgottenIsAudited ==
  ASSUME TypeOK, ForgetHolds, AuditTrail, [Next]_vars, NEW i \in Ids,
         memories'[i] # NoRow, ~memories'[i].live, trail'[i] = "none"
  PROVE  \E t \in Turns : proc'[t].pc = "audit" /\ proc'[t].id = i
<1>1. CASE Stored(i) /\ ~memories[i].live
  <2>1. trail[i] = "none"
    BY TrailGrows
  <2>2. PICK t \in Turns : proc[t].pc = "audit" /\ proc[t].id = i
    BY <1>1, <2>1 DEF AuditTrail, AuditedNext
  <2> QED
    BY <2>2, AuditGoesOn
<1>2. CASE ~(Stored(i) /\ ~memories[i].live)
  <2>1. memories'[i] # memories[i]
    BY <1>2 DEF Stored
  <2>2. ASSUME NEW w \in Workers, NEW j \in Ids, Inserts(j, w) PROVE FALSE
    BY <2>1, <2>2 DEF Inserts, TypeOK
  <2>3. PICK t \in Turns : /\ Forgets(t) /\ proc[t].pc = "flag" /\ Flags(proc[t].id)
                           /\ Goto(t, [proc[t] EXCEPT !.pc = "audit"])
    BY <2>1, <2>2, TableMoves
  <2>4. proc[t].id = i
    BY <2>1, <2>3, ForgetsMoves, FlagsType
  <2>5. proc[t] \in Local
    BY DEF TypeOK, Workers
  <2>6. proc'[t] = [proc[t] EXCEPT !.pc = "audit"]
    BY <2>3 DEF Goto, TypeOK, Workers
  <2>7. proc'[t].pc = "audit" /\ proc'[t].id = proc[t].id
    BY <2>3, <2>5, <2>6 DEF Local, Idle, Adding, Forgetting
  <2> QED
    BY <2>4, <2>7
<1> QED
  BY <1>1, <1>2

LEMMA TrailStaysTrue ==
  TypeOK /\ ForgetHolds /\ AuditTrail /\ [Next]_vars => AuditTrail'
BY WrittenIsForgotten, ForgottenIsAudited DEF AuditTrail, AuditedNext, Stored

-----------------------------------------------------------------------------
(* CopiesBounded, in every step.                                           *)

LEMMA CopiesStayFew ==
  TypeOK /\ ForgetHolds /\ RunsKnown /\ CopiesBounded /\ [Next]_vars
    => CopiesBounded'
<1> SUFFICES ASSUME TypeOK, ForgetHolds, RunsKnown, CopiesBounded, [Next]_vars,
                    NEW ch \in Channels, NEW f \in Facts
             PROVE  Bounded(ch, f)'
  BY DEF CopiesBounded, Bounded
<1>1. Bounded(ch, f)
  BY DEF CopiesBounded, Bounded
<1>2. TypeOK' /\ RunsKnown'
  BY NextTypes, RunsStayKnown
<1>3. ASSUME NEW w \in Workers, Add(w) PROVE Bounded(ch, f)'
  BY <1>2, <1>3, AddCopies
<1>4. ASSUME NEW w \in Workers, NEW l, Moves(w, l), l.pc # "insert",
             Shown(ch, f)' \subseteq Shown(ch, f)
      PROVE  Bounded(ch, f)'
  BY <1>1, <1>4, FewerInserting, FewerCopies
<1>5. ASSUME NEW c \in Channels, Hear(c) PROVE Bounded(ch, f)'
  BY <1>1, <1>5 DEF Hear, Bounded, Shown, Inserting, Stored
<1>6. ASSUME NEW c \in Channels, Fire(c) PROVE Bounded(ch, f)'
  <2>1. UNCHANGED memories
    BY <1>6 DEF Fire, Started
  <2>2. PICK r \in Runs : Moves(r, [pc |-> "ask", channel |-> c])
    BY <1>6, FireStarts
  <2>3. [pc |-> "ask", channel |-> c].pc # "insert"
    OBVIOUS
  <2>4. r \in Workers /\ Shown(ch, f)' \subseteq Shown(ch, f)
    BY <2>1, SameTable DEF Workers
  <2> QED
    BY <1>4, <2>2, <2>3, <2>4
<1>7. ASSUME NEW r \in Runs, Extract(r) PROVE Bounded(ch, f)'
  <2>1. UNCHANGED memories
    BY <1>7 DEF Extract
  <2> QED
    BY <1>4, <1>7, <2>1, ExtractMoves, SameTable DEF Workers
<1>8. ASSUME NEW t \in Turns, NEW g \in Facts, Remember(t, g) PROVE Bounded(ch, f)'
  <2>1. UNCHANGED memories /\ Adds(ChannelOf[t], g, 0).pc # "insert"
    BY <1>8 DEF Remember, Adds
  <2> QED
    BY <1>4, <1>8, <2>1, RememberMoves, SameTable DEF Workers
<1>9. ASSUME NEW t \in Turns, NEW i \in Ids, Forget(t, i) PROVE Bounded(ch, f)'
  <2>1. UNCHANGED memories
    BY <1>9 DEF Forget
  <2> QED
    BY <1>4, <1>9, <2>1, ForgetMoves, SameTable DEF Workers
<1>10. ASSUME NEW t \in Turns, Forgets(t) PROVE Bounded(ch, f)'
  <2>1. Shown(ch, f)' \subseteq Shown(ch, f)
    BY <1>10, ForgetsTable, ForgetsMoves, SameTable, FewerShown
  <2>2. \E l \in Local : Moves(t, l) /\ l.pc # "insert"
    BY <1>10, ForgetsMoves DEF Forgetting
  <2> QED
    BY <1>4, <2>1, <2>2 DEF Workers
<1>11. ASSUME Crash PROVE Bounded(ch, f)'
  <2>1. UNCHANGED memories /\ Inserting(ch, f)' = {}
    BY <1>11 DEF Crash, Inserting, Idle, Workers
  <2> QED
    BY <1>1, <2>1, SameTable, FewerCopies
<1>12. ASSUME UNCHANGED vars PROVE Bounded(ch, f)'
  BY <1>1, <1>12 DEF vars, Bounded, Shown, Inserting, Stored
<1> QED
  BY <1>3, <1>5, <1>6, <1>7, <1>8, <1>9, <1>10, <1>11, <1>12
     DEF Next, Message, Run, Turn, Forgets, Workers

-----------------------------------------------------------------------------
(* The theorems.                                                           *)

LEMMA InitHolds == Init => IInv
<1> SUFFICES ASSUME Init PROVE IInv
  OBVIOUS
<1>1. ForgetHolds /\ RunsKnown
  BY DEF Init, ForgetHolds, RunsKnown, Idle, Forgetting, Workers
<1>2. ASSUME NEW ch \in Channels, NEW f \in Facts
      PROVE  Bounded(ch, f)
  <2>1. Shown(ch, f) = {} /\ Inserting(ch, f) = {}
    BY DEF Init, Shown, Stored, Inserting, Idle, Workers
  <2> QED
    BY <2>1, FS_EmptySet, TurnsCount DEF Bounded
<1>3. AuditTrail
  BY DEF Init, AuditTrail, Stored
<1> QED
  BY <1>1, <1>2, <1>3, InitTypes DEF IInv, CopiesBounded, Bounded

LEMMA NextHolds == IInv /\ [Next]_vars => IInv'
BY NextTypes, ForgetStaysHeld, RunsStayKnown, CopiesStayFew, TrailStaysTrue DEF IInv

LEMMA Inductive == Spec => []IInv
BY InitHolds, NextHolds, PTL DEF Spec

\* Every variable keeps to its type: no counter reaches the batch size, and
\* no worker is left with half of its locals (MemoryWriter.note_message).
THEOREM TypeCorrect == Spec => []TypeOK
<1>1. IInv => TypeOK
  BY DEF IInv
<1> QED
  BY <1>1, Inductive, PTL

\* However many channels fill their batches, a channel has one extraction at
\* a time, the one that _inflight knows (MemoryWriter.note_message).
THEOREM OneExtractorAlways == Spec => []OneExtractor
<1>1. IInv => OneExtractor
  BY KnownIsOne DEF IInv
<1> QED
  BY <1>1, Inductive, PTL

\* Whatever the turns and the extraction remember at the same time, a channel
\* shows at most one copy of a fact more than there are turns
\* (MemoryStore.add, between its comparison and its INSERT).
THEOREM CopiesStayBounded == Spec => []CopiesBounded
<1>1. IInv => CopiesBounded
  BY DEF IInv
<1> QED
  BY <1>1, Inductive, PTL

\* The audit table and the table of memories agree on what is forgotten
\* (MemoryStore.forget and the audit in _forget).
THEOREM AuditTrailHolds == Spec => []AuditTrail
<1>1. IInv => AuditTrail
  BY DEF IInv
<1> QED
  BY <1>1, Inductive, PTL

\* A memory stops being shown by a forget of its own channel and in no other
\* way, however forgets of the same id overlap (_forget and MemoryStore.forget).
THEOREM ForgetStaysLocal == Spec => ForgetIsLocal
<1>1. IInv /\ [Next]_vars =>
        [\A i \in Ids :
           Stored(i) /\ memories'[i] # memories[i] =>
             /\ memories'[i] = [memories[i] EXCEPT !.live = FALSE]
             /\ \E t \in Turns : /\ proc[t].pc = "flag" /\ proc[t].id = i
                                 /\ proc[t].channel = memories[i].channel]_vars
  <2> SUFFICES ASSUME IInv, [Next]_vars, NEW i \in Ids, Stored(i),
                      memories'[i] # memories[i]
               PROVE  /\ memories'[i] = [memories[i] EXCEPT !.live = FALSE]
                      /\ \E t \in Turns : /\ proc[t].pc = "flag" /\ proc[t].id = i
                                          /\ proc[t].channel = memories[i].channel
    OBVIOUS
  <2>1. ASSUME NEW w \in Workers, NEW j \in Ids, Inserts(j, w) PROVE FALSE
    BY <2>1 DEF Inserts, IInv, TypeOK
  <2>2. PICK t \in Turns : Forgets(t) /\ proc[t].pc = "flag" /\ Flags(proc[t].id)
    BY <2>1, TableMoves DEF IInv
  <2>3. proc[t].id = i
    BY <2>2, ForgetsMoves, FlagsType DEF IInv
  <2> QED
    BY <2>2, <2>3 DEF Flags, IInv, TypeOK, ForgetHolds, Forgetting
<1> QED
  BY <1>1, Inductive, PTL DEF Spec, ForgetIsLocal

-----------------------------------------------------------------------------
(* The notebook.  A step of a worker takes its own clearance, request or   *)
(* duty away and may bring another; the table and the trail then tell      *)
(* which step of the notebook it is.                                       *)

\* A turn works for its own channel.
AtHome == \A t \in Turns : proc[t].pc # "idle" => proc[t].channel = ChannelOf[t]

Clearance(w, l) == [by |-> w, channel |-> l.channel, fact |-> l.fact]
Request(t, l) == [by |-> t, id |-> l.id]
Asking == {"look", "check", "flag"}

LEMMA ClearedMoves ==
  ASSUME TypeOK, NEW w \in Workers, NEW l, Moves(w, l)
  PROVE  /\ l.pc # "insert" => Cleared' = Cleared \ {Clearance(w, proc[w])}
         /\ proc[w].pc # "insert" /\ l.pc # "insert" => Cleared' = Cleared
         /\ proc[w].pc # "insert" /\ l.pc = "insert" =>
              Cleared' = Cleared \cup {Clearance(w, l)}
         /\ proc[w].pc = "insert" => Clearance(w, proc[w]) \in Cleared
         /\ proc[w].pc # "insert" => \A o \in Cleared : o.by # w
<1>1. proc'[w] = l /\ \A v \in Workers \ {w} : proc'[v] = proc[v]
  BY MovesType
<1>2. \A v \in Workers : Clearance(v, proc[v]).by = v
  BY DEF Clearance
<1>3. /\ Cleared = {Clearance(v, proc[v]) : v \in {u \in Workers : proc[u].pc = "insert"}}
      /\ Cleared' = {Clearance(v, proc'[v]) : v \in {u \in Workers : proc'[u].pc = "insert"}}
  BY DEF Cleared, Clearance
<1>4. ASSUME l.pc # "insert" PROVE Cleared' = Cleared \ {Clearance(w, proc[w])}
  BY <1>1, <1>2, <1>3, <1>4
<1>5. ASSUME proc[w].pc # "insert" PROVE \A o \in Cleared : o.by # w
  BY <1>2, <1>3, <1>5
<1>6. ASSUME proc[w].pc # "insert", l.pc # "insert" PROVE Cleared' = Cleared
  BY <1>1, <1>3, <1>6
<1>7. ASSUME proc[w].pc # "insert", l.pc = "insert"
      PROVE  Cleared' = Cleared \cup {Clearance(w, l)}
  BY <1>1, <1>3, <1>7
<1>8. ASSUME proc[w].pc = "insert" PROVE Clearance(w, proc[w]) \in Cleared
  BY <1>3, <1>8
<1> QED
  BY <1>4, <1>5, <1>6, <1>7, <1>8

LEMMA AskedMoves ==
  ASSUME TypeOK, NEW t \in Turns, NEW l, Moves(t, l)
  PROVE  /\ l.pc \notin Asking => Asked' = Asked \ {Request(t, proc[t])}
         /\ proc[t].pc \notin Asking /\ l.pc \notin Asking => Asked' = Asked
         /\ proc[t].pc \notin Asking /\ l.pc \in Asking =>
              Asked' = Asked \cup {Request(t, l)}
         /\ proc[t].pc \in Asking /\ l.pc \in Asking /\ l.id = proc[t].id =>
              Asked' = Asked
         /\ proc[t].pc \in Asking => Request(t, proc[t]) \in Asked
<1>1. proc'[t] = l /\ \A v \in Turns \ {t} : proc'[v] = proc[v]
  BY MovesType DEF Workers
<1>2. \A v \in Turns : Request(v, proc[v]).by = v
  BY DEF Request
<1>3. /\ Asked = {Request(v, proc[v]) : v \in {u \in Turns : proc[u].pc \in Asking}}
      /\ Asked' = {Request(v, proc'[v]) : v \in {u \in Turns : proc'[u].pc \in Asking}}
  BY DEF Asked, Request, Asking
<1>4. ASSUME l.pc \notin Asking PROVE Asked' = Asked \ {Request(t, proc[t])}
  BY <1>1, <1>2, <1>3, <1>4
<1>5. ASSUME proc[t].pc \notin Asking, l.pc \notin Asking PROVE Asked' = Asked
  BY <1>1, <1>3, <1>5
<1>6. ASSUME proc[t].pc \notin Asking, l.pc \in Asking
      PROVE  Asked' = Asked \cup {Request(t, l)}
  BY <1>1, <1>3, <1>6
<1>7. ASSUME proc[t].pc \in Asking, l.pc \in Asking, l.id = proc[t].id
      PROVE  Asked' = Asked
  <2>1. Request(t, l) = Request(t, proc[t])
    BY <1>7 DEF Request
  <2> QED
    BY <1>1, <1>3, <1>7, <2>1
<1>8. ASSUME proc[t].pc \in Asking PROVE Request(t, proc[t]) \in Asked
  BY <1>3, <1>8
<1> QED
  BY <1>4, <1>5, <1>6, <1>7, <1>8

LEMMA DueMoves ==
  ASSUME TypeOK, NEW t \in Turns, NEW l, Moves(t, l)
  PROVE  /\ l.pc # "audit" => Due' \in {Due, Due \ {proc[t].id}}
         /\ proc[t].pc # "audit" /\ l.pc # "audit" => Due' = Due
         /\ proc[t].pc # "audit" /\ l.pc = "audit" => Due' = Due \cup {l.id}
         /\ proc[t].pc = "audit" => proc[t].id \in Due
<1>1. proc'[t] = l /\ \A v \in Turns \ {t} : proc'[v] = proc[v]
  BY MovesType DEF Workers
<1>2. /\ Due = {proc[v].id : v \in {u \in Turns : proc[u].pc = "audit"}}
      /\ Due' = {proc'[v].id : v \in {u \in Turns : proc'[u].pc = "audit"}}
  BY DEF Due
<1>3. ASSUME l.pc # "audit" PROVE Due' \in {Due, Due \ {proc[t].id}}
  <2>1. Due' \subseteq Due /\ Due \ {proc[t].id} \subseteq Due'
    BY <1>1, <1>2, <1>3
  <2> QED
    BY <2>1
<1>4. ASSUME proc[t].pc # "audit", l.pc # "audit" PROVE Due' = Due
  BY <1>1, <1>2, <1>4
<1>5. ASSUME proc[t].pc # "audit", l.pc = "audit" PROVE Due' = Due \cup {l.id}
  BY <1>1, <1>2, <1>5
<1>6. ASSUME proc[t].pc = "audit" PROVE proc[t].id \in Due
  BY <1>2, <1>6
<1> QED
  BY <1>3, <1>4, <1>5, <1>6

\* The steps of a run do not touch requests and duties.
LEMMA RunMoves ==
  ASSUME TypeOK, NEW r \in Runs, NEW l, Moves(r, l)
  PROVE  Asked' = Asked /\ Due' = Due
<1>1. \A t \in Turns : proc'[t] = proc[t]
  BY MovesType, MemoryAssumption DEF Workers
<1> QED
  BY <1>1 DEF Asked, Due

BookStep == [Notebook!Next]_(Notebook!nvars)
BookVars == <<memories, Cleared, Asked, Due, trail>>

LEMMA SameBook == UNCHANGED BookVars => BookStep
BY DEF BookVars, BookStep, Notebook!nvars

\* Of what the steps outside of add() and forget do, the notebook shows no more
\* than a request.
LEMMA MessageInBook ==
  ASSUME TypeOK, NEW ch \in Channels, Message(ch)
  PROVE  BookStep
<1>1. CASE Hear(ch)
  BY <1>1, SameBook DEF Hear, BookVars, Cleared, Asked, Due
<1>2. CASE Fire(ch)
  <2>1. UNCHANGED <<memories, trail>>
    BY <1>2 DEF Fire, Started
  <2>2. PICK r \in Runs : proc[r] = Idle /\ Moves(r, [pc |-> "ask", channel |-> ch])
    BY <1>2, FireStarts
  <2>3. Cleared' = Cleared /\ Asked' = Asked /\ Due' = Due
    BY <2>2, ClearedMoves, RunMoves DEF Idle, Workers
  <2> QED
    BY <2>1, <2>3, SameBook DEF BookVars
<1> QED
  BY <1>1, <1>2 DEF Message

LEMMA ExtractInBook ==
  ASSUME TypeOK, NEW r \in Runs, Extract(r)
  PROVE  BookStep
<1>1. PICK l \in Local : Moves(r, l) /\ l.pc \in {"idle", "embed"}
  BY ExtractMoves
<1>2. Cleared' = Cleared /\ Asked' = Asked /\ Due' = Due
  BY <1>1, ClearedMoves, RunMoves DEF Extract, Workers
<1> QED
  BY <1>2, SameBook DEF Extract, BookVars

LEMMA RememberInBook ==
  ASSUME TypeOK, NEW t \in Turns, NEW f \in Facts, Remember(t, f)
  PROVE  BookStep
<1> DEFINE l == Adds(ChannelOf[t], f, 0)
<1>1. proc[t].pc = "idle" /\ Moves(t, l) /\ l.pc = "embed"
  BY RememberMoves DEF Remember, Idle, Adds
<1> HIDE DEF l
<1>2. Cleared' = Cleared /\ Asked' = Asked /\ Due' = Due
  BY <1>1, ClearedMoves, AskedMoves, DueMoves DEF Workers, Asking
<1> QED
  BY <1>2, SameBook DEF Remember, BookVars

LEMMA ForgetInBook ==
  ASSUME TypeOK, NEW t \in Turns, NEW i \in Ids, Forget(t, i)
  PROVE  BookStep
<1> DEFINE l == [pc |-> "look", channel |-> ChannelOf[t], id |-> i]
<1>1. proc[t].pc = "idle" /\ Moves(t, l) /\ l.pc = "look" /\ l.id = i
  BY ForgetMoves DEF Forget, Idle
<1> HIDE DEF l
<1>2. Cleared' = Cleared /\ Due' = Due /\ Asked' = Asked \cup {[by |-> t, id |-> i]}
  BY <1>1, ClearedMoves, AskedMoves, DueMoves DEF Workers, Asking, Request
<1>3. Notebook!Ask(t, i)
  BY <1>2 DEF Forget, Notebook!Ask
<1> QED
  BY <1>3 DEF BookStep, Notebook!Next

\* An add is cleared by its comparison: for a run because its channel has no
\* other.
LEMMA AddInBook ==
  ASSUME TypeOK, RunsKnown, AtHome, NEW w \in Workers, Add(w)
  PROVE  BookStep
<1>1. PICK l \in Local :
        /\ Moves(w, l) /\ l.pc \in {"idle"} \cup Adding
        /\ l.pc # "idle" => l.channel = proc[w].channel
        /\ l.pc = "insert" =>
             /\ Compare(w) /\ l.fact = proc[w].fact
             /\ Shown(proc[w].channel, proc[w].fact) = {}
  BY AddMoves
<1>2. proc[w].pc \in Adding
  BY AddMoves
<1>3. proc[w].channel \in Channels /\ proc[w].fact \in Facts
  BY <1>2, LocalShape DEF TypeOK, Adding
<1>4. Asked' = Asked /\ Due' = Due
  <2>1. CASE w \in Runs
    BY <1>1, <2>1, RunMoves
  <2>2. CASE w \in Turns
    BY <1>1, <1>2, <2>2, AskedMoves, DueMoves DEF Adding, Asking
  <2> QED
    BY <2>1, <2>2 DEF Workers
<1>5. trail' = trail
  BY DEF Add, Embed, Compare, Insert
<1>6. CASE l.pc = "insert"
  <2> DEFINE ch == proc[w].channel
             f == proc[w].fact
  <2>1. proc[w].pc = "compare" /\ UNCHANGED memories
    BY <1>1, <1>6 DEF Compare
  <2>2. Cleared' = Cleared \cup {Clearance(w, l)} /\ \A o \in Cleared : o.by # w
    BY <1>1, <1>6, <2>1, ClearedMoves
  <2>3. Clearance(w, l) = [by |-> w, channel |-> ch, fact |-> f]
    BY <1>1, <1>6 DEF Clearance
  <2>4. \A i \in Ids : memories[i] # [channel |-> ch, fact |-> f, live |-> TRUE]
    <3>1. Shown(ch, f) = {} /\ [channel |-> ch, fact |-> f, live |-> TRUE] \in Row
      BY <1>1, <1>3, <1>6 DEF Row
    <3> QED
      BY <3>1, MemoryAssumption DEF Shown, Stored
  <2>5. w \in Turns => ChannelOf[w] = ch
    BY <2>1 DEF AtHome
  <2>6. ASSUME w \in Runs, NEW o \in Cleared, o.channel = ch PROVE o.by \in Turns
    <3>1. PICK v \in Workers : proc[v].pc = "insert" /\ o = Clearance(v, proc[v])
      BY DEF Cleared, Clearance
    <3>2. o.by = v /\ proc[v].channel = ch /\ v # w
      BY <2>1, <2>6, <3>1 DEF Clearance
    <3>3. v \notin Runs
      BY <2>1, <2>6, <3>1, <3>2 DEF RunsKnown
    <3> QED
      BY <3>2, <3>3 DEF Workers
  <2>7. w \in Turns \cup Runs
    BY DEF Workers
  <2>8. Notebook!See(w, ch, f)
    BY <1>4, <1>5, <2>1, <2>2, <2>3, <2>4, <2>5, <2>6, <2>7
       DEF Notebook!See, Notebook!Note
  <2> QED
    BY <1>3, <2>7, <2>8 DEF BookStep, Notebook!Next
<1>7. CASE l.pc # "insert" /\ UNCHANGED memories
  <2>1. Cleared' \subseteq Cleared
    BY <1>1, <1>7, ClearedMoves
  <2>2. Notebook!GiveUp
    BY <1>4, <1>5, <1>7, <2>1 DEF Notebook!GiveUp
  <2> QED
    BY <2>2 DEF BookStep, Notebook!Next
<1>8. ASSUME NEW i \in Ids, proc[w].pc = "insert", Inserts(i, w), l.pc # "insert"
      PROVE  BookStep
  <2> DEFINE o == Clearance(w, proc[w])
  <2>1. o \in Cleared /\ Cleared' = Cleared \ {o}
    BY <1>1, <1>8, ClearedMoves
  <2>2. o.channel = proc[w].channel /\ o.fact = proc[w].fact
    BY DEF Clearance
  <2>3. Notebook!Write(o)
    BY <1>4, <1>5, <1>8, <2>1, <2>2
       DEF Notebook!Write, Notebook!Note, Inserts, Stored
  <2> HIDE DEF o
  <2> QED
    BY <2>1, <2>3 DEF BookStep, Notebook!Next
<1> QED
  BY <1>1, <1>6, <1>7, <1>8, AddTable DEF Compare

\* What forget reads is of its own channel, so it may strike it out.
LEMMA ForgetsInBook ==
  ASSUME TypeOK, ForgetHolds, AtHome, NEW t \in Turns, Forgets(t)
  PROVE  BookStep
<1>1. proc[t].pc \in {"look"} \cup Forgetting /\ proc[t].id \in Ids
  BY ForgetsMoves
<1>2. PICK l \in Local :
        /\ Moves(t, l) /\ l.pc \in {"idle"} \cup Forgetting
        /\ l.pc # "idle" => l.channel = proc[t].channel /\ l.id = proc[t].id
        /\ l.pc = "audit" =>
             \/ Check(t) /\ ~memories[l.id].live
             \/ Flag(t) /\ memories' = [memories EXCEPT ![l.id].live = FALSE]
  BY ForgetsMoves
<1>3. Cleared' = Cleared
  BY <1>1, <1>2, ClearedMoves DEF Workers, Forgetting
<1>4. CASE Audit(t)
  <2> DEFINE i == proc[t].id
  <2>1. proc[t].pc = "audit" /\ proc'[t] = Idle /\ UNCHANGED memories
    BY <1>4 DEF Audit, Goto, TypeOK, Workers
  <2>2. l.pc = "idle"
    BY <1>2, <2>1, MovesType DEF Idle, Workers
  <2>3. i \in Due /\ Due' \in {Due, Due \ {i}} /\ Asked' = Asked
    BY <1>2, <2>1, <2>2, AskedMoves, DueMoves DEF Asking
  <2>4. trail' = [trail EXCEPT ![i] = "written"] \/ trail' = Lost({i})
    BY <1>4 DEF Audit
  <2>5. Notebook!Enter(i)
    BY <1>3, <2>1, <2>3, <2>4 DEF Notebook!Enter, Notebook!Missed, Lost
  <2> QED
    BY <1>1, <2>5 DEF BookStep, Notebook!Next
<1>5. CASE ~Audit(t) /\ l.pc = "audit"
  <2> DEFINE o == Request(t, proc[t])
  <2>1. proc[t].pc \in {"check", "flag"} /\ trail' = trail
    BY <1>2, <1>5 DEF Check, Flag
  <2>2. l.id = proc[t].id /\ o.by = t /\ o.id = l.id
    BY <1>2, <1>5 DEF Request
  <2>3. /\ o \in Asked /\ Asked' = Asked \ {o} /\ Due' = Due \cup {o.id}
    BY <1>2, <1>5, <2>1, <2>2, AskedMoves, DueMoves DEF Asking
  <2>4. memories[l.id] \in Row /\ memories[l.id].channel = ChannelOf[t]
    BY <1>1, <2>1, <2>2 DEF TypeOK, ForgetHolds, AtHome, Stored, Forgetting
  <2>5. memories' = [memories EXCEPT ![l.id].live = FALSE]
    <3>1. CASE Check(t) /\ ~memories[l.id].live
      <4>1. [memories[l.id] EXCEPT !.live = FALSE] = memories[l.id]
        BY <2>4, <3>1 DEF Row
      <4> QED
        BY <1>1, <2>2, <3>1, <4>1 DEF Check, TypeOK
    <3> QED
      BY <1>2, <1>5, <3>1
  <2>6. Notebook!Strike(o)
    BY <1>3, <2>1, <2>2, <2>3, <2>4, <2>5, MemoryAssumption DEF Notebook!Strike
  <2> HIDE DEF o
  <2> QED
    BY <2>3, <2>6 DEF BookStep, Notebook!Next
<1>6. CASE ~Audit(t) /\ l.pc # "audit"
  <2>1. proc[t].pc \in Asking /\ trail' = trail
    BY <1>6 DEF Forgets, Look, Check, Flag, Asking
  <2>2. UNCHANGED memories
    <3>1. ~Goto(t, [proc[t] EXCEPT !.pc = "audit"]) \/ proc[t].pc # "flag"
      <4> SUFFICES ASSUME Goto(t, [proc[t] EXCEPT !.pc = "audit"]), proc[t].pc = "flag"
                   PROVE  FALSE
        OBVIOUS
      <4>1. proc'[t] = [proc[t] EXCEPT !.pc = "audit"] /\ proc'[t] = l
        BY <1>2, MovesType DEF Goto, TypeOK, Workers
      <4>2. [proc[t] EXCEPT !.pc = "audit"].pc = "audit"
        BY DEF TypeOK, Workers, Local, Idle, Adding, Forgetting
      <4> QED
        BY <1>6, <4>1, <4>2
    <3> QED
      BY <3>1, ForgetsTable
  <2>3. Asked' \subseteq Asked /\ Due' = Due
    <3>1. l.pc \in Asking => l.id = proc[t].id
      BY <1>2 DEF Asking
    <3> QED
      BY <1>2, <1>6, <2>1, <3>1, AskedMoves, DueMoves DEF Asking
  <2>4. Notebook!GiveUp
    BY <1>3, <2>1, <2>2, <2>3 DEF Notebook!GiveUp
  <2> QED
    BY <2>4 DEF BookStep, Notebook!Next
<1> QED
  BY <1>4, <1>5, <1>6

LEMMA CrashInBook ==
  ASSUME TypeOK, Crash
  PROVE  BookStep
<1>1. Cleared' = {} /\ Asked' = {} /\ Due' = {}
  BY DEF Crash, Cleared, Asked, Due, Idle, Workers
<1>2. {i \in Ids : AuditedNext(i)} = Due
  BY LocalShape DEF TypeOK, AuditedNext, Due, Workers, Forgetting
<1>3. trail' = Notebook!Missed(Due)
  BY <1>2 DEF Crash, Lost, Notebook!Missed
<1>4. Notebook!Restart
  BY <1>1, <1>3 DEF Crash, Notebook!Restart
<1> QED
  BY <1>4 DEF BookStep, Notebook!Next

LEMMA TurnsStayAtHome == TypeOK /\ AtHome /\ [Next]_vars => AtHome'
<1> SUFFICES ASSUME TypeOK, AtHome, [Next]_vars, NEW t \in Turns, proc'[t].pc # "idle"
             PROVE  proc'[t].channel = ChannelOf[t]
  BY DEF AtHome
<1>1. CASE proc'[t] = proc[t]
  BY <1>1 DEF AtHome
<1>2. ASSUME NEW f \in Facts, Remember(t, f) PROVE proc'[t].channel = ChannelOf[t]
  <2>1. proc'[t] = Adds(ChannelOf[t], f, 0)
    BY <1>2, RememberMoves, MovesType DEF Workers
  <2> QED
    BY <2>1 DEF Adds
<1>3. ASSUME NEW i \in Ids, Forget(t, i) PROVE proc'[t].channel = ChannelOf[t]
  <2>1. proc'[t] = [pc |-> "look", channel |-> ChannelOf[t], id |-> i]
    BY <1>3, ForgetMoves, MovesType DEF Workers
  <2> QED
    BY <2>1
<1>4. CASE Add(t)
  <2>1. PICK l \in Local : Moves(t, l) /\ (l.pc # "idle" => l.channel = proc[t].channel)
    BY <1>4, AddMoves DEF Workers
  <2>2. proc'[t] = l /\ proc[t].pc # "idle"
    BY <1>4, <2>1, AddMoves, MovesType DEF Adding, Workers
  <2> QED
    BY <2>1, <2>2 DEF AtHome
<1>5. CASE Forgets(t)
  <2>1. PICK l \in Local : Moves(t, l) /\ (l.pc # "idle" => l.channel = proc[t].channel)
    BY <1>5, ForgetsMoves
  <2>2. proc'[t] = l /\ proc[t].pc # "idle"
    BY <1>5, <2>1, ForgetsMoves, MovesType DEF Forgetting, Workers
  <2> QED
    BY <2>1, <2>2 DEF AtHome
<1>6. CASE Crash
  BY <1>6 DEF Crash, Idle, Workers
<1> QED
  BY <1>1, <1>2, <1>3, <1>4, <1>5, <1>6, TurnMoves DEF Turn, Forgets

LEMMA HomeInductive == Spec => [](IInv /\ AtHome)
<1>1. Init => AtHome
  BY DEF Init, AtHome, Idle, Workers
<1>2. IInv /\ AtHome /\ [Next]_vars => AtHome'
  BY TurnsStayAtHome DEF IInv
<1> QED
  BY <1>1, <1>2, Inductive, PTL DEF Spec

LEMMA StepInBook == IInv /\ AtHome /\ [Next]_vars => BookStep
<1> SUFFICES ASSUME IInv, AtHome, [Next]_vars PROVE BookStep
  OBVIOUS
<1>1. TypeOK /\ ForgetHolds /\ RunsKnown
  BY DEF IInv
<1>2. CASE UNCHANGED vars
  BY <1>2, SameBook DEF vars, BookVars, Cleared, Asked, Due
<1>3. ASSUME NEW w \in Workers, Add(w) PROVE BookStep
  BY <1>1, <1>3, AddInBook
<1>4. ASSUME NEW r \in Runs, Run(r) PROVE BookStep
  BY <1>1, <1>3, <1>4, ExtractInBook DEF Run, Workers
<1>5. ASSUME NEW t \in Turns, Turn(t) PROVE BookStep
  BY <1>1, <1>3, <1>5, RememberInBook, ForgetInBook, ForgetsInBook
     DEF Turn, Forgets, Workers
<1> QED
  BY <1>1, <1>2, <1>4, <1>5, MessageInBook, CrashInBook DEF Next

\* The store, the extractor and the tools implement the notebook: each memory is
\* inserted after a comparison of its own that found no copy, by a turn of the
\* channel or the only extraction of it; each is forgotten once and for all, by
\* a turn of its channel, and recorded unless that is known to have failed
\* (MemoryStore.add and forget, MemoryWriter.note_message, _forget).
THEOREM MemoryIsNotebook == Spec => ImplementsNotebook
<1>1. Init => Notebook!Init
  BY DEF Init, Notebook!Init, Cleared, Asked, Due, Idle, Workers
<1>2. IInv /\ AtHome /\ [Next]_vars => [Notebook!Next]_(Notebook!nvars)
  BY StepInBook DEF BookStep
<1> QED
  BY <1>1, <1>2, HomeInductive, PTL DEF Spec, ImplementsNotebook, Notebook!Spec
=============================================================================
