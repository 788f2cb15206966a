SPECIFICATION Spec
CONSTANTS
  Connections = {c1, c2}
  Users = {u1, u2}
  None = None
  Ids = {i1, i2}
  Keys = {k1}
  Ads = {a1}
  Groups = {g1}
  MaxRepeat = 2
  Blobs = {b1, b2}
  Fits = {b1}
  MaxMessages = 0
INVARIANTS
  TypeOK
  OnlySignedInSessionsLeaveTraces
  ListedHostsAreReachable
  CountsNeverOverstate
  CountsExactWithoutRepeats
PROPERTY
  PresenceEndsWithItsOwner
SYMMETRY Symmetry
