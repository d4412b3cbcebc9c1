\* A cancel while the turn queues for the LLM.
SPECIFICATION Spec
CONSTANTS
  t1 = t1
  t2 = t2
  Tasks = {t1}
  Replies = {r1}
  alice = alice
  bob = bob
  acc = acc
  NoAccount = NoAccount
  Person <- People
  Owner <- Issuers
  Operators = {}
  TaskSteps = 2
  ReplySteps = 1
  MaxCalls = 1
INVARIANTS NoCallAfterCancel
