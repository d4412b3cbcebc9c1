\* Two chatty channels, a quiet and a locked one; two LLM calls at a time.
SPECIFICATION FairSpec
CONSTANTS
  chatty1 = chatty1
  chatty2 = chatty2
  quiet = quiet
  locked = locked
  Channels = {chatty1, chatty2, quiet, locked}
  Chatty = {chatty1, chatty2}
  Locked = {locked}
  MaxCalls = 2
INVARIANTS
  TypeOK
  PermitsKept
PROPERTIES
  LastWord
  FarewellsEnd
  TicksGoOn
