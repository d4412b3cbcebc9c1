\* The creation side: concurrent create() calls against the caps and the rate.
SPECIFICATION Spec
CONSTANTS
  Creators = {c1, c2}
  Couriers = {}
  Cancellers = {}
  Channels = {ch}
  TellChannels = {ch}
  alice = alice
  bob = bob
  dave = dave
  dave_ = dave_
  acc = acc
  op = op
  Nicks = {alice, bob, dave, dave_}
  Accounts = {acc}
  NoAccount = NoAccount
  BotNick = bot
  Operators = {}
  Authors <- AliceOrBob
  People <- Dave3
  MaxLines = 1
  PairCap = 1
  RecipientCap = 2
  RateLimit = 1
  DeliverMax = 1
  NoRow = NoRow
  NoTask = NoTask
  MaxTells = 4
  MaxFaults = 1
SYMMETRY Symmetry
INVARIANTS TypeOK CapsHold
PROPERTIES RefusalIsFree ImplementsMailbox
CHECK_DEADLOCK FALSE
