---------------------------- MODULE ReminderOutbox ----------------------------
(***************************************************************************)
(* What the reminders promise, without the table's ids, the polls, the     *)
(* batches and the sweeps: an outbox behind a rate limit.  A call is let   *)
(* through by a sliding window that forgets nothing; a reminder that is    *)
(* kept is said when it is due, a few to a channel in each round, and      *)
(* again only if saying it was not written down.  Reminders implements     *)
(* this specification.                                                     *)
(***************************************************************************)
EXTENDS Integers, FiniteSets

CONSTANTS Channels, Actors, RateLimit, RateWindow, FireCap, Tags, Dates

VARIABLES
  clock,
  used,     \* the calls of each actor that were let through since the last restart
  taken,    \* number of calls ever let through
  box,      \* the reminders that are kept
  said,     \* how often each was posted
  repeats,  \* how often each may be posted again
  round     \* reminders posted in each channel in this round

ovars == <<clock, used, taken, box, said, repeats, round>>

Card == [tag: Tags, channel: Channels, at: Dates]

Init ==
  /\ clock = 0
  /\ used = [a \in Actors |-> {}]
  /\ taken = 0
  /\ box = {}
  /\ said = [t \in Tags |-> 0]
  /\ repeats = [t \in Tags |-> 0]
  /\ round = [ch \in Channels |-> 0]

Window(a) == {c \in used[a] : c.at >= clock - RateWindow}

Accept(a) ==
  /\ Cardinality(Window(a)) < RateLimit
  /\ taken' = taken + 1
  /\ used' = [used EXCEPT ![a] = @ \cup {[tag |-> taken + 1, at |-> clock]}]
  /\ UNCHANGED <<clock, box, said, repeats, round>>

\* A call that was let through brings one reminder, and brings it once.
Keep(r) ==
  /\ r.tag <= taken /\ said[r.tag] = 0
  /\ \A q \in box : q.tag # r.tag
  /\ box' = box \cup {r}
  /\ UNCHANGED <<clock, used, taken, said, repeats, round>>

Say(r) ==
  /\ r \in box /\ r.at <= clock
  /\ said[r.tag] <= repeats[r.tag]
  /\ round[r.channel] < FireCap
  /\ said' = [said EXCEPT ![r.tag] = @ + 1]
  /\ round' = [round EXCEPT ![r.channel] = @ + 1]
  /\ UNCHANGED <<clock, used, taken, box, repeats>>

Lose(tag) ==
  /\ said[tag] > repeats[tag]
  /\ repeats' = [repeats EXCEPT ![tag] = @ + 1]

Interrupted ==
  /\ UNCHANGED repeats \/ \E tag \in Tags : Lose(tag)
  /\ UNCHANGED <<clock, taken, box, said, round>>

NewRound ==
  /\ round' = [ch \in Channels |-> 0]
  /\ UNCHANGED <<clock, used, taken, box, said, repeats>>

TakeOut ==
  /\ box' \subseteq box
  /\ UNCHANGED <<clock, used, taken, said, repeats, round>>

Pass ==
  /\ clock' = clock + 1
  /\ UNCHANGED <<used, taken, box, said, repeats, round>>

\* The limiter starts anew with the process.
Restart == Interrupted /\ used' = [a \in Actors |-> {}]

Next ==
  \/ \E a \in Actors : Accept(a)
  \/ \E r \in Card : Keep(r) \/ Say(r)
  \/ Interrupted /\ UNCHANGED used
  \/ NewRound \/ TakeOut \/ Pass \/ Restart

Spec == Init /\ [][Next]_ovars
=============================================================================
