\* Two people, two nicks, one request at a time.
SPECIFICATION Spec
CONSTANTS
  alice = alice
  bob = bob
  opAcct = opAcct
  People = {alice, bob}
  Nicks = {n1, n2}
  Accounts = {opAcct}
  Logins <- Passwords
  Operators = {opAcct}
  Allowed = {}
  DmMode = "operators"
  TaskIssuers = "ops"
  OpTtl = 1
  Ttl = 2
  TopicCap = 1
  MaxTurn = 1
  Calls = {h1}
  NoAccount = NoAccount
  Nobody = Nobody
  Miss = Miss
SYMMETRY Symmetry
INVARIANTS
  TypeOK
  NoInheritance
PROPERTIES
  RankIsRecent
  
