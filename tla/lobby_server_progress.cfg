SPECIFICATION Spec
CONSTANTS
  Connections = {c1, c2}
  Users = {u1}
  None = None
  Ids = {i1, i2}
  Keys = {k1}
  Ads = {a1}
  Groups = {g1}
  MaxRepeat = 1
  Blobs = {b1}
  Fits = {b1}
  MaxMessages = 0
PROPERTY
  EndingsComplete
