\* A task and a reply that share one LLM call at a time with the others: what has to end.
SPECIFICATION FairSpec
CONSTANTS
  t1 = t1
  t2 = t2
  Tasks = {t1}
  Replies = {r1}
  alice = alice
  bob = bob
  acc = acc
  NoAccount = NoAccount
  Person <- People
  Owner <- Issuers
  Operators = {}
  TaskSteps = 3
  ReplySteps = 2
  MaxCalls = 1
PROPERTIES ShutdownEnds AnsweredTurnsEnd
