SPECIFICATION Spec
CONSTANTS
  a1 = a1
  a2 = a2
  c1 = c1
  c2 = c2
  c3 = c3
  t1 = t1
  Accounts = {a1, a2}
  Titles = {t1}
  TitleOf <- MCTitleOf
  Connections = {c1, c2, c3}
  AccountOf <- MCAccountOf
  Slots = {s1, s2, s3}
  MAX_SLOT_COUNT = 1
  MaxId = 3
  MaxRequests = 4
  None = None
INVARIANTS
  SlotsOverrunOnlyByCrossing
  TagsGoWithTheirStream
PROPERTIES
  StreamsAreTheirOwners
  PublishedUntilReplaced
SYMMETRY Symmetry
