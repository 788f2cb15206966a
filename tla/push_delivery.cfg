SPECIFICATION Spec
CONSTANTS
  Connections = {c1, c2, c3}
  Users = {u1, u2}
  MaxMessages = 4
  MaxRecipients = 1
  MaxRequests = 4
  None = None
INVARIANTS
  TypeOK
  FramesStayWhole
  LatestSignInReachable
PROPERTY
  DeliversAtOnce
SYMMETRY Symmetry
