\* Two tasks and a reply that share one LLM call at a time with the others: cancels, failures,
\* shutdown, crash, and a cleanup after the restart that may fail half-way.
SPECIFICATION Spec
CONSTANTS
  t1 = t1
  t2 = t2
  Tasks = {t1, t2}
  Replies = {r1}
  alice = alice
  bob = bob
  acc = acc
  NoAccount = NoAccount
  Person <- People
  Owner <- Issuers
  Operators = {}
  TaskSteps = 2
  ReplySteps = 1
  MaxCalls = 1
INVARIANTS TypeOK RunningIsAlive ToldIsStored DrainSettles CancelIsCheap
PROPERTIES ImplementsLedger
