---------------------------- MODULE VoicesProofs ----------------------------
(***************************************************************************)
(* Proofs about Voices, for every set of channels and every number of      *)
(* permits.                                                                *)
(***************************************************************************)
EXTENDS Voices, FiniteSetTheorems, TLAPS

TickPcs == Awaits \cup Unwinding \cup {"sleep", "over"}
ByePcs == Awaits \cup Unwinding \cup {"none", "over"}
Calling == {"llm", "cancel+"}
Held(pc) == IF pc \in Calling THEN 1 ELSE 0

-----------------------------------------------------------------------------
(* How many channels hold a permit.                                        *)

LEMMA HoldingFinite ==
  ASSUME NEW f
  PROVE  IsFiniteSet(Holding(f)) /\ Cardinality(Holding(f)) \in Nat
<1>1. Holding(f) \subseteq Channels
  BY DEF Holding
<1> QED
  BY <1>1, FS_Subset, FS_CardinalityType, VoicesAssumption

\* One coroutine has moved.
LEMMA HoldingStep ==
  ASSUME NEW P, NEW f \in [Channels -> P], NEW ch \in Channels, NEW to
  PROVE  Cardinality(Holding([f EXCEPT ![ch] = to]))
           = Cardinality(Holding(f)) + Held(to) - Held(f[ch])
<1> DEFINE g == [f EXCEPT ![ch] = to]
           from == f[ch]
<1>1. g[ch] = to /\ \A c \in Channels \ {ch} : g[c] = f[c]
  OBVIOUS
<1> SUFFICES Cardinality(Holding(g)) = Cardinality(Holding(f)) + Held(to) - Held(from)
  OBVIOUS
<1> HIDE DEF g
<1>2. IsFiniteSet(Holding(f)) /\ Cardinality(Holding(f)) \in Nat
  BY HoldingFinite
<1>3. CASE from \in Calling /\ to \in Calling
  <2>1. Holding(g) = Holding(f)
    BY <1>1, <1>3 DEF Holding, Calling
  <2> QED
    BY <1>2, <1>3, <2>1 DEF Held
<1>4. CASE from \notin Calling /\ to \notin Calling
  <2>1. Holding(g) = Holding(f)
    BY <1>1, <1>4 DEF Holding, Calling
  <2> QED
    BY <1>2, <1>4, <2>1 DEF Held
<1>5. CASE from \in Calling /\ to \notin Calling
  <2>1. Holding(g) = Holding(f) \ {ch} /\ ch \in Holding(f)
    BY <1>1, <1>5 DEF Holding, Calling
  <2>2. Cardinality(Holding(g)) = Cardinality(Holding(f)) - 1
    BY <1>2, <2>1, FS_RemoveElement
  <2> QED
    BY <1>2, <1>5, <2>2 DEF Held
<1>6. CASE from \notin Calling /\ to \in Calling
  <2>1. Holding(g) = Holding(f) \cup {ch} /\ ch \notin Holding(f)
    BY <1>1, <1>6 DEF Holding, Calling
  <2>2. Cardinality(Holding(g)) = Cardinality(Holding(f)) + 1
    BY <1>2, <2>1, FS_AddElement
  <2> QED
    BY <1>2, <1>6, <2>2 DEF Held
<1> QED
  BY <1>3, <1>4, <1>5, <1>6

\* Who is cancelled keeps the permit until it unwinds.
LEMMA HoldingCancelled ==
  ASSUME NEW f
  PROVE  Holding([ch \in Channels |-> Cancelled(f[ch])]) = Holding(f)
BY DEF Holding, Cancelled

LEMMA CancelledType ==
  /\ \A pc \in TickPcs : Cancelled(pc) \in TickPcs
  /\ \A pc \in ByePcs : Cancelled(pc) \in ByePcs
BY DEF TickPcs, ByePcs, Cancelled, Awaits, Unwinding

-----------------------------------------------------------------------------
(* The inductive invariant.  It adds to types and permits what the order   *)
(* of the tear-down means: the ticks are over before the farewells begin.  *)

Early == {"up", "stopping"}
TicksOver == stage \notin Early => \A ch \in Channels : tick[ch] = "over"
ByesLater ==
  stage \in Early \cup {"stopped", "asking"} => \A ch \in Channels : bye[ch] = "none"
FarewellsLater == stage \in Early => \A ch \in Channels : last[ch] # "farewell"

Order == TicksOver /\ ByesLater /\ FarewellsLater
IInv == TypeOK /\ PermitsKept /\ Order

\* With no permit made up or lost, neither count leaves its range.
LEMMA PermitRange ==
  ASSUME PermitsKept, free \in Nat, others \in Nat
  PROVE  free \in 0..MaxCalls /\ others \in 0..MaxCalls
<1>1. Cardinality(Holding(tick)) \in Nat /\ Cardinality(Holding(bye)) \in Nat
  BY HoldingFinite
<1> QED
  BY <1>1, VoicesAssumption DEF PermitsKept

LEMMA InitHolds == Init => IInv
<1> SUFFICES ASSUME Init PROVE IInv
  OBVIOUS
<1>1. Holding(tick) = {} /\ Holding(bye) = {}
  BY DEF Init, Holding
<1>2. PermitsKept
  BY <1>1, FS_EmptySet, VoicesAssumption DEF Init, PermitsKept
<1>3. TypeOK
  BY VoicesAssumption DEF Init, TypeOK, Stages, Awaits, Unwinding
<1>4. Order
  BY DEF Init, Order, TicksOver, ByesLater, FarewellsLater, Early
<1> QED
  BY <1>2, <1>3, <1>4 DEF IInv

-----------------------------------------------------------------------------
(* A step of a tick, of a farewell, of the tear-down.                      *)

LEMMA TickStepHolds ==
  ASSUME IInv, NEW ch \in Channels, NEW from \in TickPcs \ {"over"}, NEW to \in TickPcs,
         TickStep(ch, from, to),
         free' \in Nat, free' = free + Held(from) - Held(to),
         \/ UNCHANGED last
         \/ from = "post" /\ Says(ch, "chime")
  PROVE  IInv'
<1>1. /\ tick[ch] = from /\ tick' = [tick EXCEPT ![ch] = to]
      /\ UNCHANGED <<stage, goodbyes, inside, bye, others, asked, eligible>>
  BY DEF TickStep, Step, plan
<1>2. tick \in [Channels -> TickPcs]
  BY DEF IInv, TypeOK, TickPcs
<1>3. Cardinality(Holding(tick')) = Cardinality(Holding(tick)) + Held(to) - Held(from)
  <2>1. Cardinality(Holding([tick EXCEPT ![ch] = to]))
          = Cardinality(Holding(tick)) + Held(to) - Held(tick[ch])
    BY <1>2, HoldingStep
  <2> QED
    BY <1>1, <2>1
<1>4. PermitsKept'
  <2>1. Cardinality(Holding(bye)') = Cardinality(Holding(bye))
    BY <1>1 DEF Holding
  <2>2. Cardinality(Holding(tick)') = Cardinality(Holding(tick'))
    BY DEF Holding
  <2>3. Held(from) \in {0, 1} /\ Held(to) \in {0, 1}
    BY DEF Held
  <2> QED
    BY <1>1, <1>3, <2>1, <2>2, <2>3, HoldingFinite DEF PermitsKept, IInv, TypeOK
<1>5. free' \in 0..MaxCalls /\ others' \in 0..MaxCalls
  <2>1. (PermitsKept /\ free \in Nat /\ others \in Nat
           => free \in 0..MaxCalls /\ others \in 0..MaxCalls)'
    BY PermitRange, PTL
  <2>2. others' \in Nat
    BY <1>1 DEF IInv, TypeOK
  <2> QED
    BY <1>4, <2>1, <2>2
<1>6. TypeOK'
  BY <1>1, <1>2, <1>5 DEF IInv, TypeOK, TickPcs, Says
<1>7. stage \in Early
  BY <1>1, VoicesAssumption DEF IInv, Order, TicksOver
<1>8. Order'
  BY <1>1, <1>7 DEF IInv, TypeOK, Order, TicksOver, ByesLater, FarewellsLater, Early, Says
<1> QED
  BY <1>4, <1>6, <1>8 DEF IInv

LEMMA ByeStepHolds ==
  ASSUME IInv, NEW ch \in Channels, NEW from \in ByePcs \ {"none"}, NEW to \in ByePcs,
         ByeStep(ch, from, to),
         free' \in Nat, free' = free + Held(from) - Held(to),
         \/ UNCHANGED last
         \/ Says(ch, "farewell")
  PROVE  IInv'
<1>1. /\ bye[ch] = from /\ bye' = [bye EXCEPT ![ch] = to]
      /\ UNCHANGED <<stage, goodbyes, inside, tick, others, asked, eligible>>
  BY DEF ByeStep, Step, plan
<1>2. bye \in [Channels -> ByePcs]
  BY DEF IInv, TypeOK, ByePcs
<1>3. Cardinality(Holding(bye')) = Cardinality(Holding(bye)) + Held(to) - Held(from)
  <2>1. Cardinality(Holding([bye EXCEPT ![ch] = to]))
          = Cardinality(Holding(bye)) + Held(to) - Held(bye[ch])
    BY <1>2, HoldingStep
  <2> QED
    BY <1>1, <2>1
<1>4. PermitsKept'
  <2>1. Cardinality(Holding(tick)') = Cardinality(Holding(tick))
    BY <1>1 DEF Holding
  <2>2. Cardinality(Holding(bye)') = Cardinality(Holding(bye'))
    BY DEF Holding
  <2>3. Held(from) \in {0, 1} /\ Held(to) \in {0, 1}
    BY DEF Held
  <2> QED
    BY <1>1, <1>3, <2>1, <2>2, <2>3, HoldingFinite DEF PermitsKept, IInv, TypeOK
<1>5. free' \in 0..MaxCalls /\ others' \in 0..MaxCalls
  <2>1. (PermitsKept /\ free \in Nat /\ others \in Nat
           => free \in 0..MaxCalls /\ others \in 0..MaxCalls)'
    BY PermitRange, PTL
  <2>2. others' \in Nat
    BY <1>1 DEF IInv, TypeOK
  <2> QED
    BY <1>4, <2>1, <2>2
<1>6. TypeOK'
  BY <1>1, <1>2, <1>5 DEF IInv, TypeOK, ByePcs, Says
<1>7. stage \notin Early \cup {"stopped", "asking"}
  BY <1>1 DEF IInv, Order, ByesLater
<1>8. Order'
  BY <1>1, <1>7 DEF IInv, Order, TicksOver, ByesLater, FarewellsLater, Early
<1> QED
  BY <1>4, <1>6, <1>8 DEF IInv

LEMMA CoroutineHolds ==
  ASSUME IInv, NEW ch \in Channels, Coroutine(ch)
  PROVE  IInv'
<1>1. free \in Nat
  BY DEF IInv, TypeOK
<1>2. CASE Wake(ch) \/ TickSkips(ch) \/ TickReads(ch) \/ TickLine(ch) \/ TickPosted(ch)
  <2>1. PICK from \in TickPcs \ {"over"}, to \in TickPcs :
          /\ TickStep(ch, from, to) /\ free' = free
          /\ from \notin Calling /\ to \notin Calling
          /\ UNCHANGED last \/ (from = "post" /\ Says(ch, "chime"))
    BY <1>2 DEF Wake, TickSkips, TickReads, TickLine, TickPosted, TickPcs, Awaits,
                Unwinding, Calling
  <2> QED
    BY <1>1, <2>1, TickStepHolds DEF Held
<1>3. CASE TickCalls(ch)
  <2>1. TickStep(ch, "queue", "llm") /\ free' = free - 1 /\ free' \in Nat /\ UNCHANGED last
    BY <1>1, <1>3 DEF TickCalls, Acquire
  <2>2. Held("queue") = 0 /\ Held("llm") = 1
    BY DEF Held, Calling
  <2>3. "queue" \in TickPcs \ {"over"} /\ "llm" \in TickPcs
    BY DEF TickPcs, Awaits
  <2> QED
    BY <1>1, <2>1, <2>2, <2>3, TickStepHolds
<1>4. CASE TickAnswered(ch)
  <2>1. PICK to \in {"sleep", "post"} : TickStep(ch, "llm", to)
    BY <1>4 DEF TickAnswered
  <2>2. Held(to) = 0 /\ Held("llm") = 1
    BY DEF Held, Calling
  <2>3. "llm" \in TickPcs \ {"over"} /\ to \in TickPcs
    BY DEF TickPcs, Awaits
  <2> QED
    BY <1>1, <1>4, <2>1, <2>2, <2>3, TickStepHolds DEF TickAnswered, Release
<1>5. CASE TickUnwinds(ch)
  <2>1. PICK pc \in Unwinding : /\ TickStep(ch, pc, "over") /\ UNCHANGED last
                                /\ free' = free + Held(pc)
    BY <1>1, <1>5 DEF TickUnwinds, Unwinding, Release, Held, Calling
  <2>2. Held("over") = 0 /\ Held(pc) \in Nat
    BY DEF Held, Calling
  <2>3. pc \in TickPcs \ {"over"} /\ "over" \in TickPcs
    BY DEF TickPcs, Unwinding
  <2> QED
    BY <1>1, <2>1, <2>2, <2>3, TickStepHolds
<1>6. CASE ByeSkips(ch) \/ ByeReads(ch) \/ ByeLine(ch) \/ ByePosted(ch)
  <2>1. PICK from \in ByePcs \ {"none"}, to \in ByePcs :
          /\ ByeStep(ch, from, to) /\ free' = free
          /\ from \notin Calling /\ to \notin Calling
          /\ UNCHANGED last \/ Says(ch, "farewell")
    BY <1>6 DEF ByeSkips, ByeReads, ByeLine, ByePosted, ByePcs, Awaits,
                Unwinding, Calling
  <2> QED
    BY <1>1, <2>1, ByeStepHolds DEF Held
<1>7. CASE ByeCalls(ch)
  <2>1. ByeStep(ch, "queue", "llm") /\ free' = free - 1 /\ free' \in Nat /\ UNCHANGED last
    BY <1>1, <1>7 DEF ByeCalls, Acquire
  <2>2. Held("queue") = 0 /\ Held("llm") = 1
    BY DEF Held, Calling
  <2>3. "queue" \in ByePcs \ {"none"} /\ "llm" \in ByePcs
    BY DEF ByePcs, Awaits
  <2> QED
    BY <1>1, <2>1, <2>2, <2>3, ByeStepHolds
<1>8. CASE ByeAnswered(ch)
  <2>1. PICK to \in {"over", "post"} : ByeStep(ch, "llm", to)
    BY <1>8 DEF ByeAnswered
  <2>2. Held(to) = 0 /\ Held("llm") = 1
    BY DEF Held, Calling
  <2>3. "llm" \in ByePcs \ {"none"} /\ to \in ByePcs
    BY DEF ByePcs, Awaits
  <2> QED
    BY <1>1, <1>8, <2>1, <2>2, <2>3, ByeStepHolds DEF ByeAnswered, Release
<1>9. CASE ByeUnwinds(ch)
  <2>1. PICK pc \in Unwinding : /\ ByeStep(ch, pc, "over") /\ UNCHANGED last
                                /\ free' = free + Held(pc)
    BY <1>1, <1>9 DEF ByeUnwinds, Unwinding, Release, Held, Calling
  <2>2. Held("over") = 0 /\ Held(pc) \in Nat
    BY DEF Held, Calling
  <2>3. pc \in ByePcs \ {"none"} /\ "over" \in ByePcs
    BY DEF ByePcs, Unwinding
  <2> QED
    BY <1>1, <2>1, <2>2, <2>3, ByeStepHolds
<1> QED
  BY <1>2, <1>3, <1>4, <1>5, <1>6, <1>7, <1>8, <1>9 DEF Coroutine, Tick, Bye

\* A step of the tear-down that cancels nobody who holds a permit for good.
LEMMA TearDownHolds ==
  ASSUME IInv, Stop \/ TearDown
  PROVE  IInv'
<1>1. UNCHANGED <<goodbyes, inside, free, others, last>>
  BY DEF Stop, TearDown, StopReturns, SayGoodbyes, AskAbout, Part, Deadline,
         FarewellsOver, Still
<1>2. /\ tick \in [Channels -> TickPcs] /\ bye \in [Channels -> ByePcs]
      /\ asked \subseteq Channels /\ eligible \subseteq asked
  BY DEF IInv, TypeOK, TickPcs, ByePcs
<1>3. ASSUME Holding(tick)' = Holding(tick), Holding(bye)' = Holding(bye)
      PROVE  PermitsKept'
  BY <1>1, <1>3 DEF IInv, PermitsKept
<1>4. ASSUME stage' \in Stages, tick' \in [Channels -> TickPcs],
             bye' \in [Channels -> ByePcs], UNCHANGED plan
      PROVE  TypeOK'
  BY <1>1, <1>4 DEF IInv, TypeOK, TickPcs, ByePcs, plan
<1>5. CASE Stop
  <2>1. /\ stage = "up" /\ stage' = "stopping" /\ UNCHANGED <<bye, plan>>
        /\ tick' = [ch \in Channels |-> Cancelled(tick[ch])]
    BY <1>5 DEF Stop, Goes
  <2>2. Holding(tick)' = Holding(tick) /\ Holding(bye)' = Holding(bye)
    <3>1. Holding(tick') = Holding(tick)
      BY <2>1, HoldingCancelled
    <3> QED
      BY <2>1, <3>1 DEF Holding
  <2>3. tick' \in [Channels -> TickPcs]
    BY <1>2, <2>1, CancelledType
  <2>4. Order'
    BY <1>1, <2>1 DEF IInv, Order, TicksOver, ByesLater, FarewellsLater, Early
  <2> QED
    BY <1>2, <1>3, <1>4, <2>1, <2>2, <2>3, <2>4 DEF IInv, Stages
<1>6. CASE StopReturns \/ SayGoodbyes \/ FarewellsOver
  <2>1. /\ UNCHANGED <<tick, bye, plan>> /\ stage # "up" /\ stage' \in Stages \ Early
        /\ stage = "stopping" => \A ch \in Channels : tick[ch] = "over"
        /\ stage' \in {"stopped", "asking"} => stage \in {"stopping", "stopped"}
    BY <1>6 DEF StopReturns, SayGoodbyes, FarewellsOver, Goes, Stages, Early
  <2>2. Holding(tick)' = Holding(tick) /\ Holding(bye)' = Holding(bye)
    BY <2>1 DEF Holding
  <2>3. Order'
    BY <1>1, <2>1 DEF IInv, Order, TicksOver, ByesLater, FarewellsLater, Early
  <2> QED
    BY <1>2, <1>3, <1>4, <2>1, <2>2, <2>3 DEF IInv
<1>7. ASSUME NEW ch \in Channels, AskAbout(ch) PROVE IInv'
  <2>1. /\ UNCHANGED <<stage, tick, bye>>
        /\ asked' \subseteq Channels /\ eligible' \subseteq asked'
    BY <1>2, <1>7 DEF AskAbout
  <2>2. Holding(tick)' = Holding(tick) /\ Holding(bye)' = Holding(bye)
    BY <2>1 DEF Holding
  <2>3. TypeOK' /\ Order'
    BY <1>1, <2>1 DEF IInv, TypeOK, Order, TicksOver, ByesLater, FarewellsLater
  <2> QED
    BY <1>3, <2>2, <2>3 DEF IInv
<1>8. CASE Part
  <2>1. /\ stage = "asking" /\ stage' \in {"quit", "parting"} /\ UNCHANGED <<tick, plan>>
        /\ bye' = [ch \in Channels |-> IF ch \in eligible THEN "read" ELSE bye[ch]]
    BY <1>8 DEF Part, Goes
  <2>2. \A ch \in Channels : bye[ch] = "none" /\ tick[ch] = "over"
    BY <2>1 DEF IInv, Order, ByesLater, TicksOver, Early
  <2>3. Holding(tick)' = Holding(tick) /\ Holding(bye)' = Holding(bye)
    BY <2>1, <2>2 DEF Holding
  <2>4. bye' \in [Channels -> ByePcs]
    BY <1>2, <2>1 DEF ByePcs, Awaits
  <2>5. Order'
    BY <1>1, <2>1, <2>2 DEF IInv, Order, TicksOver, ByesLater, FarewellsLater, Early
  <2> QED
    BY <1>2, <1>3, <1>4, <2>1, <2>3, <2>4, <2>5 DEF IInv, Stages
<1>9. CASE Deadline
  <2>1. /\ stage = "parting" /\ stage' = "cutting" /\ UNCHANGED <<tick, plan>>
        /\ bye' = [ch \in Channels |-> Cancelled(bye[ch])]
    BY <1>9 DEF Deadline, Goes
  <2>2. Holding(tick)' = Holding(tick) /\ Holding(bye)' = Holding(bye)
    <3>1. Holding(bye') = Holding(bye)
      BY <2>1, HoldingCancelled
    <3> QED
      BY <2>1, <3>1 DEF Holding
  <2>3. bye' \in [Channels -> ByePcs]
    BY <1>2, <2>1, CancelledType
  <2>4. Order'
    BY <1>1, <2>1 DEF IInv, Order, TicksOver, ByesLater, FarewellsLater, Early
  <2> QED
    BY <1>2, <1>3, <1>4, <2>1, <2>2, <2>3, <2>4 DEF IInv, Stages
<1> QED
  BY <1>5, <1>6, <1>7, <1>8, <1>9 DEF TearDown

LEMMA WorldHolds ==
  ASSUME IInv, Network \/ OthersCall \/ OthersReturn \/ UNCHANGED vars
  PROVE  IInv'
<1>1. UNCHANGED <<stage, goodbyes, tick, bye, asked, eligible, last>>
  BY DEF Network, OthersCall, OthersReturn, vars, plan
<1>2. inside' \subseteq Channels
  BY DEF Network, OthersCall, OthersReturn, vars, IInv, TypeOK
<1>3. /\ free' \in Nat /\ others' \in Nat /\ free' + others' = free + others
  BY DEF Network, OthersCall, OthersReturn, Acquire, Release, vars, IInv, TypeOK
<1>4. PermitsKept'
  <2>1. Holding(tick)' = Holding(tick) /\ Holding(bye)' = Holding(bye)
    BY <1>1 DEF Holding
  <2> QED
    BY <1>3, <2>1, HoldingFinite DEF PermitsKept, IInv, TypeOK
<1>5. free' \in 0..MaxCalls /\ others' \in 0..MaxCalls
  <2>1. (PermitsKept /\ free \in Nat /\ others \in Nat
           => free \in 0..MaxCalls /\ others \in 0..MaxCalls)'
    BY PermitRange, PTL
  <2> QED
    BY <1>3, <1>4, <2>1
<1>6. TypeOK' /\ Order'
  BY <1>1, <1>2, <1>5
     DEF IInv, TypeOK, Order, TicksOver, ByesLater, FarewellsLater
<1> QED
  BY <1>4, <1>6 DEF IInv

LEMMA NextHolds == IInv /\ [Next]_vars => IInv'
BY CoroutineHolds, TearDownHolds, WorldHolds DEF Next

LEMMA Inductive == Spec => []IInv
BY InitHolds, NextHolds, PTL DEF Spec

-----------------------------------------------------------------------------
(* The theorems.                                                           *)

\* Every variable keeps to its type; in particular no release makes more
\* permits than chat_sem was created with.
THEOREM TypeCorrect == Spec => []TypeOK
<1>1. IInv => TypeOK
  BY DEF IInv
<1> QED
  BY <1>1, Inductive, PTL

\* No permit of chat_sem is lost or made up, whatever the calls end in and
\* whenever they are cancelled (`async with _maybe_sem(self.chat_sem)').
THEOREM PermitsAlwaysKept == Spec => []PermitsKept
<1>1. IInv => PermitsKept
  BY DEF IInv
<1> QED
  BY <1>1, Inductive, PTL

\* After the farewell in a channel no tick speaks there: stop() waits for the
\* loops before say_goodbyes() begins.
THEOREM FarewellIsLast == Spec => LastWord
<1>1. IInv /\ [Next]_vars =>
        [\A ch \in Channels : last[ch] = "farewell" => last'[ch] = "farewell"]_vars
  <2> SUFFICES ASSUME IInv, [Next]_vars, NEW ch \in Channels, last[ch] = "farewell",
                      last'[ch] # "farewell"
               PROVE  FALSE
    OBVIOUS
  <2>1. PICK c \in Channels : TickLine(c)
    <3>1. ASSUME NEW c \in Channels, ByeLine(c) PROVE FALSE
      BY <3>1 DEF ByeLine, Says, IInv, TypeOK
    <3>2. PICK c \in Channels : Coroutine(c)
      BY DEF Next, Stop, TearDown, StopReturns, SayGoodbyes, AskAbout, Part, Deadline,
             FarewellsOver, Still, Network, OthersCall, OthersReturn, vars
    <3> QED
      BY <3>1, <3>2
         DEF Coroutine, Tick, Bye, Wake, TickSkips, TickReads, TickCalls, TickAnswered,
             TickPosted, TickUnwinds, ByeSkips, ByeReads, ByeCalls, ByeAnswered,
             ByePosted, ByeUnwinds
  <2>2. tick[c] = "post"
    BY <2>1 DEF TickLine, TickStep, Step
  <2> QED
    BY <2>2 DEF IInv, Order, TicksOver, FarewellsLater
<1> QED
  BY <1>1, Inductive, PTL DEF Spec, LastWord

-----------------------------------------------------------------------------
(* What the tear-down waits for, and who may still speak.                  *)

Ending == Unwinding \cup {"none", "over"}

\* stop() and, when the clock has run out, say_goodbyes() wait for nothing but
\* coroutines that unwind: no LLM call, no queue for a permit and no post can
\* hold up the QUIT from there on (scheduler.py, stop and say_goodbyes).
WaitsAreBounded ==
  /\ stage = "stopping" => \A ch \in Channels : tick[ch] \in Ending
  /\ stage = "cutting" => \A ch \in Channels : bye[ch] \in Ending

\* Farewells are for the channels that were chosen, and none outlasts the QUIT.
ByesChosen == \A ch \in Channels : bye[ch] # "none" => ch \in eligible
ByesOver == stage = "quit" => \A ch \in Channels : bye[ch] \in {"none", "over"}

EndInv == WaitsAreBounded /\ ByesChosen /\ ByesOver

\* A cancelled coroutine has nothing left but to unwind.
LEMMA CancelledEnds == ASSUME NEW pc \in TickPcs \cup ByePcs PROVE Cancelled(pc) \in Ending
BY DEF Cancelled, TickPcs, ByePcs, Awaits, Unwinding, Ending

\* A tick that is cancelled only unwinds.
LEMMA TickEnds ==
  ASSUME NEW ch \in Channels, Tick(ch) \/ TickUnwinds(ch), tick[ch] \in Ending
  PROVE  tick' = [tick EXCEPT ![ch] = "over"]
BY DEF Tick, Wake, TickSkips, TickReads, TickCalls, TickAnswered, TickLine, TickPosted,
       TickUnwinds, TickStep, Step, Ending, Unwinding

\* A farewell that is cancelled only unwinds, and one that is over does nothing.
LEMMA ByeEnds ==
  ASSUME NEW ch \in Channels, Bye(ch) \/ ByeUnwinds(ch)
  PROVE  /\ bye[ch] # "none" /\ bye[ch] # "over"
         /\ bye[ch] \in Ending => bye' = [bye EXCEPT ![ch] = "over"]
         /\ \E pc : bye' = [bye EXCEPT ![ch] = pc]
BY DEF Bye, ByeSkips, ByeReads, ByeCalls, ByeAnswered, ByeLine, ByePosted, ByeUnwinds,
       ByeStep, Step, Ending, Unwinding

LEMMA InitEnds == Init => EndInv
BY DEF Init, EndInv, WaitsAreBounded, ByesChosen, ByesOver

LEMMA NextEnds == IInv /\ EndInv /\ [Next]_vars => EndInv'
<1> SUFFICES ASSUME IInv, EndInv, [Next]_vars PROVE EndInv'
  OBVIOUS
<1> USE DEF EndInv, WaitsAreBounded, ByesChosen, ByesOver
<1>1. /\ tick \in [Channels -> TickPcs] /\ bye \in [Channels -> ByePcs]
      /\ eligible \subseteq Channels
  BY DEF IInv, TypeOK, TickPcs, ByePcs
<1>2. ASSUME NEW ch \in Channels, Tick(ch) \/ TickUnwinds(ch) PROVE EndInv'
  <2>1. UNCHANGED <<stage, bye, eligible>> /\ \E pc : tick' = [tick EXCEPT ![ch] = pc]
    BY <1>2 DEF Tick, Wake, TickSkips, TickReads, TickCalls, TickAnswered, TickLine,
                TickPosted, TickUnwinds, TickStep, Step, plan
  <2>2. CASE stage = "stopping"
    <3>1. tick' = [tick EXCEPT ![ch] = "over"]
      BY <1>2, <2>2, TickEnds
    <3> QED
      BY <1>1, <2>1, <2>2, <3>1 DEF Ending
  <2> QED
    BY <2>1, <2>2
<1>3. ASSUME NEW ch \in Channels, Bye(ch) \/ ByeUnwinds(ch) PROVE EndInv'
  <2>1. UNCHANGED <<stage, tick, eligible>>
    BY <1>3 DEF Bye, ByeSkips, ByeReads, ByeCalls, ByeAnswered, ByeLine, ByePosted,
                ByeUnwinds, ByeStep, plan
  <2>2. /\ bye[ch] # "none" /\ bye[ch] # "over"
        /\ bye[ch] \in Ending => bye' = [bye EXCEPT ![ch] = "over"]
        /\ \E pc : bye' = [bye EXCEPT ![ch] = pc]
    BY <1>3, ByeEnds
  <2>3. stage # "quit"
    BY <2>2
  <2>4. ByesChosen'
    BY <1>1, <2>1, <2>2
  <2> QED
    BY <1>1, <2>1, <2>2, <2>3, <2>4 DEF Ending
<1>4. CASE Stop
  <2>1. \A ch \in Channels : tick'[ch] \in Ending
    BY <1>1, <1>4, CancelledEnds DEF Stop
  <2> QED
    BY <1>4, <2>1 DEF Stop, Goes, plan
<1>5. CASE StopReturns \/ SayGoodbyes
  <2>1. stage' # "cutting" /\ stage' # "stopping" /\ UNCHANGED <<bye, eligible>>
        /\ stage \in {"stopping", "stopped"}
    BY <1>5 DEF StopReturns, SayGoodbyes, Goes, plan
  <2>2. \A ch \in Channels : bye[ch] = "none"
    BY <2>1 DEF IInv, Order, ByesLater, Early
  <2> QED
    BY <2>1, <2>2
<1>6. ASSUME NEW ch \in Channels, AskAbout(ch) PROVE EndInv'
  <2>1. UNCHANGED <<stage, tick, bye>> /\ eligible \subseteq eligible'
    BY <1>6 DEF AskAbout
  <2> QED
    BY <2>1
<1>7. CASE Part
  <2>1. /\ stage = "asking" /\ UNCHANGED eligible
        /\ stage' = IF eligible = {} THEN "quit" ELSE "parting"
        /\ bye' = [ch \in Channels |-> IF ch \in eligible THEN "read" ELSE bye[ch]]
    BY <1>7 DEF Part, Goes, plan
  <2>2. \A ch \in Channels : bye[ch] = "none"
    BY <2>1 DEF IInv, Order, ByesLater, Early
  <2>3. \A ch \in Channels : bye'[ch] = IF ch \in eligible THEN "read" ELSE "none"
    BY <2>1, <2>2
  <2> QED
    BY <2>1, <2>3
<1>8. CASE Deadline
  <2>1. stage' = "cutting" /\ UNCHANGED eligible
        /\ \A ch \in Channels : bye'[ch] = Cancelled(bye[ch])
    BY <1>8 DEF Deadline, Goes, plan
  <2>2. \A ch \in Channels : bye'[ch] \in Ending /\ (bye[ch] = "none" => bye'[ch] = "none")
    BY <1>1, <2>1, CancelledEnds DEF Cancelled
  <2> QED
    BY <2>1, <2>2
<1>9. CASE FarewellsOver
  <2>1. stage' = "quit" /\ UNCHANGED <<bye, eligible>> /\ \A ch \in eligible : bye[ch] = "over"
    BY <1>9 DEF FarewellsOver, Parted, plan
  <2> QED
    BY <2>1
<1>10. CASE Network \/ OthersCall \/ OthersReturn \/ UNCHANGED vars
  <2>1. UNCHANGED <<stage, tick, bye, eligible>>
    BY <1>10 DEF Network, OthersCall, OthersReturn, vars, plan
  <2> QED
    BY <2>1
<1> QED
  BY <1>2, <1>3, <1>4, <1>5, <1>6, <1>7, <1>8, <1>9, <1>10 DEF Next, Coroutine, TearDown

\* Once the ticks or the farewells are cancelled, nothing unbounded is waited for.
THEOREM WaitsStayBounded == Spec => []WaitsAreBounded
<1>1. EndInv => WaitsAreBounded
  BY DEF EndInv
<1> QED
  BY <1>1, InitEnds, NextEnds, Inductive, PTL DEF Spec

\* Only who stands before a line can speak: a chime while the bot is up, a
\* farewell in a channel that was chosen, before its time is up.  Nothing is
\* said by a coroutine that was cancelled, and nothing after QUIT
\* (scheduler.py, _do_tick and _say_goodbye_in; main.py, the end of run).
SpeakersAreInTime ==
  \A ch \in Channels :
    /\ tick[ch] = "post" => stage = "up"
    /\ bye[ch] = "post" => stage = "parting" /\ ch \in eligible
SpeaksInTime ==
  [][\A ch \in Channels :
       last'[ch] # last[ch] =>
         \/ last'[ch] = "chime" /\ tick[ch] = "post"
         \/ last'[ch] = "farewell" /\ bye[ch] = "post"]_vars

LEMMA PostsInTime == IInv /\ EndInv => SpeakersAreInTime
<1> SUFFICES ASSUME IInv, EndInv, NEW ch \in Channels
             PROVE  /\ tick[ch] = "post" => stage = "up"
                    /\ bye[ch] = "post" => stage = "parting" /\ ch \in eligible
  BY DEF SpeakersAreInTime
<1>1. ASSUME tick[ch] = "post" PROVE stage = "up"
  <2>1. stage \in {"up", "stopping"}
    BY <1>1 DEF IInv, Order, TicksOver, Early
  <2> QED
    BY <1>1, <2>1 DEF EndInv, WaitsAreBounded, Ending, Unwinding
<1>2. ASSUME bye[ch] = "post" PROVE stage = "parting" /\ ch \in eligible
  <2>1. stage \in {"parting", "cutting", "quit"} /\ ch \in eligible
    BY <1>2 DEF IInv, TypeOK, Stages, Order, ByesLater, Early, EndInv, ByesChosen
  <2> QED
    BY <1>2, <2>1 DEF EndInv, WaitsAreBounded, ByesOver, Ending, Unwinding
<1> QED
  BY <1>1, <1>2

\* It speaks in time, whatever was under way when the tear-down began.
THEOREM SpeaksOnlyInTime == Spec => []SpeakersAreInTime /\ SpeaksInTime
<1> DEFINE AtLine(ch) ==
             last'[ch] # last[ch] =>
               \/ last'[ch] = "chime" /\ tick[ch] = "post"
               \/ last'[ch] = "farewell" /\ bye[ch] = "post"
<1>1. ASSUME IInv, [Next]_vars, NEW ch \in Channels PROVE AtLine(ch)
  <2>1. CASE UNCHANGED last
    BY <2>1
  <2>2. ASSUME NEW c \in Channels, TickLine(c) PROVE AtLine(ch)
    <3>1. tick[c] = "post" /\ last' = [last EXCEPT ![c] = "chime"]
      BY <2>2 DEF TickLine, TickStep, Step, Says
    <3> QED
      BY <1>1, <3>1 DEF IInv, TypeOK
  <2>3. ASSUME NEW c \in Channels, ByeLine(c) PROVE AtLine(ch)
    <3>1. bye[c] = "post" /\ last' = [last EXCEPT ![c] = "farewell"]
      BY <2>3 DEF ByeLine, ByeStep, Step, Says
    <3> QED
      BY <1>1, <3>1 DEF IInv, TypeOK
  <2>4. ASSUME NEW c \in Channels, Coroutine(c)
        PROVE  UNCHANGED last \/ TickLine(c) \/ ByeLine(c)
    BY <2>4 DEF Coroutine, Tick, Bye, Wake, TickSkips, TickReads, TickCalls, TickAnswered,
                TickPosted, TickUnwinds, ByeSkips, ByeReads, ByeCalls, ByeAnswered,
                ByePosted, ByeUnwinds
  <2>5. ASSUME Stop \/ TearDown \/ Network \/ OthersCall \/ OthersReturn \/ UNCHANGED vars
        PROVE  UNCHANGED last
    BY <2>5 DEF Stop, TearDown, StopReturns, SayGoodbyes, AskAbout, Part, Deadline,
                FarewellsOver, Still, Network, OthersCall, OthersReturn, vars
  <2> QED
    BY <1>1, <2>1, <2>2, <2>3, <2>4, <2>5 DEF Next
<1>2. IInv /\ [Next]_vars => [\A ch \in Channels : AtLine(ch)]_vars
  BY <1>1
<1>3. Spec => []EndInv
  BY InitEnds, NextEnds, Inductive, PTL DEF Spec
<1> QED
  BY <1>2, <1>3, PostsInTime, Inductive, PTL DEF Spec, SpeaksInTime
=============================================================================
