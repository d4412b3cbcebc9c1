---------------------------- MODULE MemoryNotebook ----------------------------
(***************************************************************************)
(* What the memory promises, without the awaits, the counters and the      *)
(* tasks that read and write the table: a notebook for each channel and a  *)
(* register of what was struck out.  Whoever writes a note has seen that   *)
(* the channel has no copy of it, since its own last note; of those who    *)
(* have, one at most is an extraction.  A note is struck out at the        *)
(* request of its own channel, never comes back, and is entered in the     *)
(* register.  Memory implements this specification.                        *)
(***************************************************************************)
CONSTANTS Channels, Facts, Turns, ChannelOf, Runs, Ids, NoRow

VARIABLES
  notes,
  cleared,  \* who has seen no copy of a fact in a channel, and may write it
  asked,    \* who has asked to strike out what
  due,      \* what was found struck out and is to be entered
  register

nvars == <<notes, cleared, asked, due, register>>

Init ==
  /\ notes = [i \in Ids |-> NoRow]
  /\ cleared = {} /\ asked = {} /\ due = {}
  /\ register = [i \in Ids |-> "none"]

Note(ch, f) == [channel |-> ch, fact |-> f, live |-> TRUE]

See(w, ch, f) ==
  /\ \A i \in Ids : notes[i] # Note(ch, f)
  /\ \A o \in cleared : o.by # w
  /\ \/ w \in Turns /\ ChannelOf[w] = ch
     \/ w \in Runs /\ \A o \in cleared : o.channel = ch => o.by \in Turns
  /\ cleared' = cleared \cup {[by |-> w, channel |-> ch, fact |-> f]}
  /\ UNCHANGED <<notes, asked, due, register>>

Write(o) ==
  /\ o \in cleared
  /\ cleared' = cleared \ {o}
  /\ \E i \in Ids :
       notes[i] = NoRow /\ notes' = [notes EXCEPT ![i] = Note(o.channel, o.fact)]
  /\ UNCHANGED <<asked, due, register>>

Ask(t, i) ==
  /\ asked' = asked \cup {[by |-> t, id |-> i]}
  /\ UNCHANGED <<notes, cleared, due, register>>

\* The same whether or not somebody else has struck it out before.
Strike(o) ==
  /\ o \in asked
  /\ notes[o.id] # NoRow /\ notes[o.id].channel = ChannelOf[o.by]
  /\ notes' = [notes EXCEPT ![o.id].live = FALSE]
  /\ asked' = asked \ {o}
  /\ due' = due \cup {o.id}
  /\ UNCHANGED <<cleared, register>>

\* An insert that fails, a request that is refused.
GiveUp ==
  /\ cleared' \subseteq cleared /\ asked' \subseteq asked
  /\ UNCHANGED <<notes, due, register>>

Missed(ids) ==
  [i \in Ids |-> IF i \in ids /\ register[i] = "none" THEN "lost" ELSE register[i]]

\* Another who has asked for the same may still have to enter it.
Enter(i) ==
  /\ i \in due
  /\ due' \in {due, due \ {i}}
  /\ \/ register' = [register EXCEPT ![i] = "written"]
     \/ register' = Missed({i})
  /\ UNCHANGED <<notes, cleared, asked>>

Restart ==
  /\ cleared' = {} /\ asked' = {} /\ due' = {}
  /\ register' = Missed(due)
  /\ UNCHANGED notes

Next ==
  \/ GiveUp
  \/ \E w \in Turns \cup Runs, ch \in Channels, f \in Facts : See(w, ch, f)
  \/ \E o \in cleared : Write(o)
  \/ \E t \in Turns, i \in Ids : Ask(t, i)
  \/ \E o \in asked : Strike(o)
  \/ \E i \in Ids : Enter(i)
  \/ Restart

Spec == Init /\ [][Next]_nvars
=============================================================================
