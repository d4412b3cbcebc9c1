------------------------------ MODULE TaskLedger ------------------------------
(***************************************************************************)
(* What the task runner promises, without the agent loop, the semaphore,   *)
(* the handlers and the stages of the tear-down: a ledger.  A task is      *)
(* entered, begun once and settled once, by the one that works on it or by *)
(* the cleanup after a restart, and its channel hears at most once, of     *)
(* what the ledger says.  Only a task whose entry could not be written is  *)
(* excused.  TurnLifecycle implements this specification.                  *)
(***************************************************************************)
CONSTANTS Tasks, Outcomes

VARIABLES
  status,   \* what the ledger says of each task
  working,  \* the tasks that somebody works on
  heard,    \* the outcome that the channel of each task heard
  excused   \* the tasks of which an entry failed

lvars == <<status, working, heard, excused>>

Init ==
  /\ status = [t \in Tasks |-> "none"]
  /\ working = {}
  /\ heard = [t \in Tasks |-> "none"]
  /\ excused = {}

Write(t, from, to) == status[t] = from /\ status' = [status EXCEPT ![t] = to]

Issue(t) == Write(t, "none", "pending") /\ UNCHANGED <<working, heard, excused>>

Begin(t) ==
  /\ Write(t, "pending", "running")
  /\ working' = working \cup {t}
  /\ UNCHANGED <<heard, excused>>

Settle(t) ==
  /\ t \in working
  /\ \E outcome \in Outcomes : Write(t, "running", outcome)
  /\ working' = working \ {t}
  /\ UNCHANGED <<heard, excused>>

\* An entry fails, or is cut short: it may be written all the same.
Spoil(t) ==
  /\ \/ UNCHANGED status
     \/ t \notin working /\ Write(t, "pending", "running")
     \/ t \in working /\ \E outcome \in Outcomes : Write(t, "running", outcome)
  /\ heard[t] = "none"
  /\ excused' = excused \cup {t}
  /\ working' = working \ {t}
  /\ UNCHANGED heard

Hear(t, outcome) ==
  /\ t \notin working
  /\ heard[t] = "none"
  /\ status[t] = outcome \/ t \in excused
  /\ heard' = [heard EXCEPT ![t] = outcome]
  /\ UNCHANGED <<status, working, excused>>

\* The process is gone; the ledger survives.
Restart == working' = {} /\ UNCHANGED <<status, heard, excused>>

\* The cleanup after it settles what nobody works on any more.
Cleanup(t) ==
  /\ working = {}
  /\ Write(t, "running", "cancelled")
  /\ UNCHANGED <<working, heard, excused>>

\* It fails, and what it has not come to stays as it is.
CleanupFails ==
  /\ working = {}
  /\ excused' = excused \cup {t \in Tasks : status[t] = "running"}
  /\ UNCHANGED <<status, working, heard>>

Next ==
  \/ \E t \in Tasks : \/ Issue(t) \/ Begin(t) \/ Settle(t) \/ Spoil(t) \/ Cleanup(t)
                      \/ \E outcome \in Outcomes : Hear(t, outcome)
  \/ Restart \/ CleanupFails

Spec == Init /\ [][Next]_lvars
=============================================================================
