SPECIFICATION Spec
CONSTANTS
  Connections = {c1, c2}
  Users = {u1, u2}
  MaxMessages = 6
  MaxRecipients = 2
  MaxRequests = 3
  None = None
PROPERTY
  ThreadsComeBack
