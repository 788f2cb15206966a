SPECIFICATION Spec
CONSTANTS
  LIFESPAN = 3
  TIMEOUT = 1
  Lifetimes = {1}
  Issuers = {a1, a2}
  Logins = {t1}
  None = None
  MaxTime = 7
  MaxTickets = 1
CONSTRAINT Bounded
INVARIANTS
  ShortTicketsKeepTheirKey
  ShortTicketsAreHonoured
PROPERTY
  NoValidKeyOverwritten
SYMMETRY Symmetry
