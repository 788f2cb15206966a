SPECIFICATION Spec
CONSTANTS
  Connections = {c1, c2}
  Groups = {g1}
  Tags = {k1}
  Blobs = {b1}
  MaxReplies = 3
  None = None
INVARIANT
  SettersAreMembers
