SPECIFICATION Spec
CONSTANTS
  Connections = {c1, c2, c3, c4}
  Ids = {i1, i2, i3, i4, i5}
  Keys = {k1}
  None = None
  MaxI32 = 99
  Titles = {1, 2}
  Ads <- MCAds
  Queries <- MCQueries
INVARIANTS
  ToldIdentityHolds
  AnswersAreExact
PROPERTY
  ImplementsDirectory
SYMMETRY Symmetry
