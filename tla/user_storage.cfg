SPECIFICATION Spec
CONSTANTS
  Connections = {c1, c2}
  Users = {u1, u2}
  Titles = {t1, t2}
  Names = {n1, nLong}
  TooLong = {nLong}
  Contents = {d1, d2, dLarge}
  TooLarge = {dLarge}
  PublishedNames = {p1, p2}
  Directories = {t1}
  Hash <- MCHash
  HIGH_BIT = 8
  Limits = {1}
  MaxFiles = 2
  MaxTime = 1
  MaxChanges = 2
  MaxBoth = 3
  None = None
SYMMETRY Swaps
INVARIANTS
  OneFilePerName
  AnIdMeansOneFile
  OthersSeeNothing
  PublisherListMissesNothing
PROPERTIES
  FilesChangeOnlyForTheirOwner
