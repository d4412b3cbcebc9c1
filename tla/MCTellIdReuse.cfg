\* An id freed by !untell and given out again during a delivery.
SPECIFICATION Spec
CONSTANTS
  Creators = {c1}
  Couriers = {d1}
  Cancellers = {x1}
  Channels = {ch}
  TellChannels = {ch}
  alice = alice
  bob = bob
  dave = dave
  dave_ = dave_
  acc = acc
  op = op
  Nicks = {alice, bob, dave}
  Accounts = {op}
  NoAccount = NoAccount
  BotNick = bot
  Operators = {op}
  Authors <- OnlyAlice
  People <- OnlyDave
  MaxLines = 1
  PairCap = 2
  RecipientCap = 2
  RateLimit = 3
  DeliverMax = 2
  NoRow = NoRow
  NoTask = NoTask
  MaxTells = 2
  MaxFaults = 0
INVARIANTS DeliveredWasPosted
