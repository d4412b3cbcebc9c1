------------------------------- MODULE Voices -------------------------------
(***************************************************************************)
(* When the bot speaks without being asked: the initiative ticks of class  *)
(* Scheduler and its farewells at shutdown (src/bot/scheduler.py), in the  *)
(* order that run() (src/bot/main.py) gives them.                          *)
(*                                                                         *)
(* A tick is a coroutine of one channel, a farewell is another.  They      *)
(* share the permits of chat_sem with the turns, !define and the           *)
(* extraction runs, which are `others' here, and nothing is assumed of     *)
(* those: they may keep a permit for ever, as an LLM call may take for     *)
(* ever.  A coroutine that asyncio is told to cancel does nothing but      *)
(* unwind from then on.                                                    *)
(***************************************************************************)
EXTENDS Integers, FiniteSets

CONSTANTS
  Channels,     \* cfg.channels
  Chatty,       \* those with a tick: mode "chatty", tick_interval_sec > 0
  Locked,       \* those with mode "locked"
  MaxCalls      \* budgets.max_concurrent_chat_calls

ASSUME VoicesAssumption ==
  /\ IsFiniteSet(Channels)
  /\ Chatty \subseteq Channels /\ Locked \subseteq Channels \ Chatty
  /\ MaxCalls \in Nat \ {0}

VARIABLES
  stage,      \* how far run() is with its tear-down
  goodbyes,   \* cfg.shutdown.goodbye_recent_sec > 0
  inside,     \* the channels the bot is joined to
  tick,       \* where the tick loop of each channel stands
  bye,        \* where the farewell of each channel stands
  free,       \* permits of chat_sem that nobody holds
  others,     \* permits that turns, !define and extraction runs hold
  asked,      \* channels that say_goodbyes() has looked at
  eligible,   \* those it will say goodbye in
  \* History, read by properties only.
  last        \* what the bot said last in each channel of its own accord

plan == <<asked, eligible>>
vars == <<stage, goodbyes, inside, tick, bye, free, others, plan, last>>

(***************************************************************************)
(* "up"; "stopping": stop() has cancelled the ticks and gathers them;      *)
(* "stopped": it has returned, shutdown_all() is next; "asking": which     *)
(* channels have fresh chat; "parting": the farewells, against the clock;  *)
(* "cutting": the clock has run out; "quit": QUIT is sent.                 *)
(*                                                                         *)
(* "read": the queries before the prompt.  "queue" and "llm": the call.    *)
(* "post": irc_send(), line by line.  "cancel": cancelled, not yet         *)
(* unwound; "cancel+": the same with a permit in hand.                     *)
(***************************************************************************)
Stages == {"up", "stopping", "stopped", "asking", "parting", "cutting", "quit"}
Awaits == {"read", "queue", "llm", "post"}
Unwinding == {"cancel", "cancel+"}
Cancelled(pc) ==
  CASE pc = "llm" -> "cancel+"
    [] pc \in {"sleep", "read", "queue", "post"} -> "cancel"
    [] OTHER -> pc

TypeOK ==
  /\ stage \in Stages /\ goodbyes \in BOOLEAN
  /\ inside \in SUBSET Channels
  /\ tick \in [Channels -> Awaits \cup Unwinding \cup {"sleep", "over"}]
  /\ bye \in [Channels -> Awaits \cup Unwinding \cup {"none", "over"}]
  /\ free \in 0..MaxCalls /\ others \in 0..MaxCalls
  /\ asked \in SUBSET Channels /\ eligible \in SUBSET asked
  /\ last \in [Channels -> {"nothing", "chime", "farewell"}]

Step(f, ch, from, to) == f[ch] = from /\ f' = [f EXCEPT ![ch] = to]
TickStep(ch, from, to) ==
  Step(tick, ch, from, to)
    /\ UNCHANGED <<stage, goodbyes, inside, bye, others, plan>>
ByeStep(ch, from, to) ==
  Step(bye, ch, from, to)
    /\ UNCHANGED <<stage, goodbyes, inside, tick, others, plan>>

Acquire == free > 0 /\ free' = free - 1
Release == free' = free + 1
Says(ch, what) == last' = [last EXCEPT ![ch] = what]

-----------------------------------------------------------------------------
(* A tick: _tick_loop() and _do_tick().                                    *)

\* The timer.  Outside the channel there is nothing to do but sleep again.
Wake(ch) ==
  /\ ch \in inside
  /\ TickStep(ch, "sleep", "read")
  /\ UNCHANGED <<free, last>>

\* recent_messages() and recall().  Too little or too old chat, and any
\* exception, end this tick and not the loop.
TickSkips(ch) ==
  /\ TickStep(ch, "read", "sleep")
  /\ UNCHANGED <<free, last>>
TickReads(ch) ==
  /\ TickStep(ch, "read", "queue")
  /\ UNCHANGED <<free, last>>

TickCalls(ch) ==
  /\ TickStep(ch, "queue", "llm")
  /\ Acquire
  /\ UNCHANGED last

\* The answer, after log_usage(); an error and <silent> are followed by sleep.
\* Mutant: the error is not caught, and ends the loop.
TickAnswered_Fatal(ch) ==
  /\ \E next \in {"over", "post"} : TickStep(ch, "llm", next)
  /\ Release
  /\ UNCHANGED last
TickAnswered(ch) ==
  /\ \E next \in {"sleep", "post"} : TickStep(ch, "llm", next)
  /\ Release
  /\ UNCHANGED last

\* A line is out; the text may have more of them.
TickLine(ch) ==
  /\ TickStep(ch, "post", "post")
  /\ Says(ch, "chime")
  /\ UNCHANGED free
TickPosted(ch) ==
  /\ TickStep(ch, "post", "sleep")
  /\ UNCHANGED <<free, last>>

Tick(ch) ==
  \/ Wake(ch) \/ TickSkips(ch) \/ TickReads(ch) \/ TickCalls(ch)
  \/ TickAnswered(ch) \/ TickLine(ch) \/ TickPosted(ch)

\* CancelledError passes through _do_tick() and the loop; the async with on
\* the way gives the permit back.  Mutant: it does not.
TickUnwinds_Keeps(ch) ==
  /\ \E pc \in Unwinding : TickStep(ch, pc, "over")
  /\ UNCHANGED <<free, last>>
TickUnwinds(ch) ==
  /\ \/ TickStep(ch, "cancel", "over") /\ UNCHANGED free
     \/ TickStep(ch, "cancel+", "over") /\ Release
  /\ UNCHANGED last

-----------------------------------------------------------------------------
(* A farewell: _say_goodbye_in().                                          *)

\* No chat, or the query raises.
ByeSkips(ch) ==
  /\ ByeStep(ch, "read", "over")
  /\ UNCHANGED <<free, last>>
ByeReads(ch) ==
  /\ ByeStep(ch, "read", "queue")
  /\ UNCHANGED <<free, last>>
ByeCalls(ch) ==
  /\ ByeStep(ch, "queue", "llm")
  /\ Acquire
  /\ UNCHANGED last
ByeAnswered(ch) ==
  /\ \E next \in {"over", "post"} : ByeStep(ch, "llm", next)
  /\ Release
  /\ UNCHANGED last
ByeLine(ch) ==
  /\ ByeStep(ch, "post", "post")
  /\ Says(ch, "farewell")
  /\ UNCHANGED free
ByePosted(ch) ==
  /\ ByeStep(ch, "post", "over")
  /\ UNCHANGED <<free, last>>
Bye(ch) ==
  \/ ByeSkips(ch) \/ ByeReads(ch) \/ ByeCalls(ch)
  \/ ByeAnswered(ch) \/ ByeLine(ch) \/ ByePosted(ch)

\* Around its LLM call it takes CancelledError for an error and returns;
\* elsewhere it is cancelled.  It is over in both cases.
\* Mutant: it gives a permit back that it was only waiting for.
ByeUnwinds_Twice(ch) ==
  /\ \E pc \in Unwinding : ByeStep(ch, pc, "over")
  /\ Release
  /\ UNCHANGED last
ByeUnwinds(ch) ==
  /\ \/ ByeStep(ch, "cancel", "over") /\ UNCHANGED free
     \/ ByeStep(ch, "cancel+", "over") /\ Release
  /\ UNCHANGED last

-----------------------------------------------------------------------------
(* The tear-down.                                                          *)

Goes(from, to) == stage = from /\ stage' = to
Still == UNCHANGED <<goodbyes, inside, free, others, last>>

\* stop(): the event, and a cancel for each loop.
\* Mutant: the event alone, and no waiting.
Stop_EventOnly ==
  /\ Goes("up", "stopped")
  /\ tick' = [ch \in Channels |-> IF tick[ch] = "sleep" THEN "over" ELSE tick[ch]]
  /\ UNCHANGED <<bye, plan>> /\ Still
Stop ==
  /\ Goes("up", "stopping")
  /\ tick' = [ch \in Channels |-> Cancelled(tick[ch])]
  /\ UNCHANGED <<bye, plan>> /\ Still
StopReturns ==
  /\ Goes("stopping", "stopped")
  /\ \A ch \in Channels : tick[ch] = "over"
  /\ UNCHANGED <<tick, bye, plan>> /\ Still

\* shutdown_all() has returned, and say_goodbyes() is called.
SayGoodbyes ==
  /\ Goes("stopped", IF goodbyes THEN "asking" ELSE "quit")
  /\ UNCHANGED <<tick, bye, plan>> /\ Still

\* Is the channel one to part from?  One query for each, which may raise.
AskAbout(ch) ==
  /\ stage = "asking" /\ ch \notin asked
  /\ asked' = asked \cup {ch}
  /\ \/ ch \in inside \ Locked /\ eligible' = eligible \cup {ch}
     \/ UNCHANGED eligible
  /\ UNCHANGED <<stage, tick, bye>> /\ Still

Part ==
  /\ asked = Channels
  /\ Goes("asking", IF eligible = {} THEN "quit" ELSE "parting")
  /\ bye' = [ch \in Channels |-> IF ch \in eligible THEN "read" ELSE bye[ch]]
  /\ UNCHANGED <<tick, plan>> /\ Still

Parted == \A ch \in eligible : bye[ch] = "over"
\* The gather() ends, in time or cancelled.
FarewellsOver ==
  /\ stage \in {"parting", "cutting"} /\ Parted
  /\ stage' = "quit"
  /\ UNCHANGED <<tick, bye, plan>> /\ Still

\* wait_for() gives up after goodbye_timeout_sec: what it waits for, and with
\* it each farewell, is cancelled and waited for.
\* Mutant: waited for, and not cancelled.
Deadline_Waits ==
  /\ Goes("parting", "cutting") /\ ~Parted
  /\ UNCHANGED <<tick, bye, plan>> /\ Still
Deadline ==
  /\ Goes("parting", "cutting") /\ ~Parted
  /\ bye' = [ch \in Channels |-> Cancelled(bye[ch])]
  /\ UNCHANGED <<tick, plan>> /\ Still

TearDown ==
  \/ StopReturns \/ SayGoodbyes \/ (\E ch \in Channels : AskAbout(ch))
  \/ Part \/ Deadline \/ FarewellsOver

-----------------------------------------------------------------------------
(* The rest of the world.                                                  *)

Network ==
  /\ \E ch \in Channels : inside' \in {inside \cup {ch}, inside \ {ch}}
  /\ UNCHANGED <<stage, goodbyes, tick, bye, free, others, plan, last>>

OthersCall ==
  /\ Acquire /\ others' = others + 1
  /\ UNCHANGED <<stage, goodbyes, inside, tick, bye, plan, last>>
OthersReturn ==
  /\ others > 0 /\ others' = others - 1 /\ Release
  /\ UNCHANGED <<stage, goodbyes, inside, tick, bye, plan, last>>

\* start()
Init ==
  /\ stage = "up" /\ goodbyes \in BOOLEAN
  /\ inside = {}
  /\ tick = [ch \in Channels |-> IF ch \in Chatty THEN "sleep" ELSE "over"]
  /\ bye = [ch \in Channels |-> "none"]
  /\ free = MaxCalls /\ others = 0
  /\ asked = {} /\ eligible = {}
  /\ last = [ch \in Channels |-> "nothing"]

Coroutine(ch) == Tick(ch) \/ TickUnwinds(ch) \/ Bye(ch) \/ ByeUnwinds(ch)
Next ==
  \/ \E ch \in Channels : Coroutine(ch)
  \/ Stop \/ TearDown
  \/ Network \/ OthersCall \/ OthersReturn

Spec == Init /\ [][Next]_vars

\* Timers run out, queries and posts end, a cancelled coroutine unwinds and
\* run() goes on.  Nothing is assumed of the LLM, of chat_sem and of `others'.
FairSpec ==
  /\ Spec
  /\ WF_vars(TearDown)
  /\ \A ch \in Channels :
       /\ WF_vars(Wake(ch)) /\ WF_vars(TickSkips(ch) \/ TickReads(ch))
       /\ WF_vars(TickPosted(ch))
       /\ WF_vars(TickUnwinds(ch)) /\ WF_vars(ByeUnwinds(ch))

-----------------------------------------------------------------------------
(* Correctness.                                                            *)

\* `so a tick can't fire concurrently and post ... alongside the farewell'
\* (main.py, before scheduler.stop()).  The farewell is the last thing the bot
\* says of its own accord in a channel.
LastWord ==
  [][\A ch \in Channels : last[ch] = "farewell" => last'[ch] = "farewell"]_vars

\* `all chat completions contend for the same slot pool' (memory.py).  However
\* the calls end, and whatever cancels them, each permit of chat_sem is free
\* or in the hands of one call that is being made.
Holding(f) == {ch \in Channels : f[ch] \in {"llm", "cancel+"}}
PermitsKept ==
  free + others + Cardinality(Holding(tick)) + Cardinality(Holding(bye)) = MaxCalls

\* `any channels that don't finish get cancelled' (say_goodbyes).  The
\* tear-down gets from stop() to QUIT, even if the LLM never answers again and
\* the turns never return their permits.
FarewellsEnd == stage # "up" ~> stage = "quit"

\* `tick failed for %s; continuing' (_tick_loop).  While the bot is up and in
\* the channel, its tick comes round again and again, if only its calls to the
\* LLM are let through and answered, by an answer or by an error.
TicksGoOn ==
  \A ch \in Chatty :
    /\ <>[](stage = "up" /\ ch \in inside)
    /\ []<>(tick[ch] \notin {"queue", "llm"})
    => []<>(tick[ch] = "read")
=============================================================================
