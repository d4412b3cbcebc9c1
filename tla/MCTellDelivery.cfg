\* The delivery side: presence events close together, withdrawals, failures, a restart.
SPECIFICATION FairSpec
CONSTANTS
  Creators = {c1}
  Couriers = {d1, d2}
  Cancellers = {x1}
  Channels = {ch}
  TellChannels = {ch}
  alice = alice
  bob = bob
  dave = dave
  dave_ = dave_
  acc = acc
  op = op
  Nicks = {alice, bob, dave}
  Accounts = {op}
  NoAccount = NoAccount
  BotNick = bot
  Operators = {op}
  Authors <- AliceOrOp
  People <- OnlyDave
  MaxLines = 1
  PairCap = 2
  RecipientCap = 2
  RateLimit = 1
  DeliverMax = 2
  NoRow = NoRow
  NoTask = NoTask
  MaxTells = 2
  MaxFaults = 1
INVARIANTS Exclusive OncePerLoss SettledWasPosted
PROPERTIES OldestFirst OnlyOwnersWithdraw CallsReturn
