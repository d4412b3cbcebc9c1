\* Two channels with a batch of two messages, an extraction each, two turns.
SPECIFICATION FairSpec
CONSTANTS
  c1 = c1
  Channels = {c1, c2}
  Facts = {f}
  Turns = {t1, t2}
  ChannelOf <- Home
  Runs = {r1, r2}
  Ids = {m1, m2}
  BatchSize = 2
  MaxFacts = 2
  NoRow = NoRow
  NoRun = NoRun
INVARIANTS
  TypeOK
  OneExtractor
  CopiesBounded
PROPERTIES
  ExtractionGoesOn
  ImplementsNotebook
