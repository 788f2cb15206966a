--------------------------- MODULE KeyStoreProofs ---------------------------
(***************************************************************************)
(* For any lifespan and timeout, any number of threads and any clock that   *)
(* does not run backwards: making a new key never overwrites a valid one,    *)
(* and a ticket no longer than TIMEOUT is honoured until it expires.         *)
(*                                                                         *)
(* The argument: two keys made one after the other end at least             *)
(* LIFESPAN - TIMEOUT + 1 apart (RingSpaced), and the ring is long enough    *)
(* for that to add up to more than TIMEOUT when it has gone round.           *)
(***************************************************************************)
EXTENDS KeyStore, TLAPS

Gap == LIFESPAN - TIMEOUT

LEMMA GapPositive == Gap \in Nat /\ Gap >= 1
BY KeyStoreAssumption DEF Gap

(* MAX_CONCURRENTLY_VALID_KEYS gaps are longer than TIMEOUT.                *)
LEMMA RingLongEnough ==
  /\ MAX_CONCURRENTLY_VALID_KEYS \in Nat
  /\ MAX_CONCURRENTLY_VALID_KEYS * (Gap + 1) >= TIMEOUT
<1> DEFINE m == LIFESPAN \div Gap
<1>1. m \in Int /\ LIFESPAN < m * Gap + Gap
  BY GapPositive, KeyStoreAssumption
<1>2. m >= 0
  BY GapPositive, KeyStoreAssumption
<1>3. m * (Gap + 1) = m * Gap + m
  BY <1>1, GapPositive
<1>4. MAX_CONCURRENTLY_VALID_KEYS = m
  BY DEF MAX_CONCURRENTLY_VALID_KEYS, Gap
<1>5. m * Gap \in Int
  BY <1>1, GapPositive
<1>6. m * Gap + Gap > LIFESPAN /\ LIFESPAN = TIMEOUT + Gap
  BY <1>1, KeyStoreAssumption DEF Gap
<1> HIDE DEF m
<1>7. m * (Gap + 1) >= TIMEOUT
  BY <1>1, <1>2, <1>3, <1>5, <1>6, GapPositive, KeyStoreAssumption
<1> QED
  BY <1>1, <1>2, <1>4, <1>7

-----------------------------------------------------------------------------
(* How many keys were made after the one in slot i                          *)
Age(i) == IF i <= key_index THEN key_index - i
          ELSE key_index - i + STORAGE_COUNT

RingSpaced ==
  \A i \in Slots :
    \/ keys[i].valid_until = 0
    \/ keys[i].valid_until + Age(i) * (Gap + 1) <= keys[key_index].valid_until

ClocksPast ==
  \A a \in Issuers : issuing[a] # None =>
    /\ issuing[a].expires <= now + issuing[a].lifetime
    /\ issuing[a].clock # None =>
         /\ issuing[a].clock <= now
         /\ issuing[a].expires <= issuing[a].clock + issuing[a].lifetime

(* What ShortTicketsKeepTheirKey says of each ticket clients hold, needed   *)
(* also of those being checked, which their clients may have discarded.     *)
KeepsKey(ticket) ==
  ticket.lifetime <= TIMEOUT /\ ticket.expires >= now =>
    \E i \in Slots : /\ keys[i].key = ticket.key
                     /\ keys[i].valid_until >= ticket.expires

LoginsKept ==
  \A t \in Logins : login[t] # None =>
    /\ KeepsKey(login[t].ticket)
    /\ login[t].clock <= now
    /\ login[t].known = FALSE /\ login[t].ticket.lifetime <= TIMEOUT =>
         login[t].ticket.expires < now

IInv == /\ TypeOK /\ RingSpaced /\ ClocksPast
        /\ ShortTicketsKeepTheirKey /\ LoginsKept /\ ShortTicketsAreHonoured

LEMMA SlotsFacts == /\ STORAGE_COUNT \in Nat \ {0}
                    /\ Slots \subseteq Nat
                    /\ 0 \in Slots
BY RingLongEnough DEF STORAGE_COUNT, Slots

LEMMA InitIInv == Init => IInv
<1> SUFFICES ASSUME Init PROVE IInv
  OBVIOUS
<1> USE SlotsFacts
<1>1. TypeOK
  BY DEF Init, TypeOK, Key
<1>2. RingSpaced
  BY DEF Init, RingSpaced
<1> QED
  BY <1>1, <1>2 DEF Init, IInv, ClocksPast, ShortTicketsKeepTheirKey,
                    LoginsKept, ShortTicketsAreHonoured

(* A tick can only make tickets expire.                                     *)
LEMMA TickStep == IInv /\ Tick => IInv'
<1> SUFFICES ASSUME IInv, Tick PROVE IInv'
  OBVIOUS
<1> USE DEF Tick
<1>1. TypeOK'
  BY DEF IInv, TypeOK
<1>2. RingSpaced'
  BY DEF IInv, RingSpaced, Age
<1>3. ClocksPast'
  <2> SUFFICES ASSUME NEW a \in Issuers, issuing[a] # None
               PROVE  /\ issuing[a].expires <= now' + issuing[a].lifetime
                      /\ issuing[a].clock # None =>
                           /\ issuing[a].clock <= now'
                           /\ issuing[a].expires <=
                                issuing[a].clock + issuing[a].lifetime
    BY DEF ClocksPast
  <2>1. /\ issuing[a].lifetime \in Nat
        /\ issuing[a].expires \in Int
        /\ issuing[a].clock \in Int \cup {None}
        /\ now \in Nat
    BY KeyStoreAssumption DEF IInv, TypeOK, IsIssuing
  <2> QED
    BY <2>1 DEF IInv, ClocksPast
<1>4. ASSUME NEW ticket \in Ticket, KeepsKey(ticket) PROVE KeepsKey(ticket)'
  BY <1>4 DEF KeepsKey, Ticket, IInv, TypeOK
<1>5. ShortTicketsKeepTheirKey'
  BY DEF IInv, TypeOK, Ticket, ShortTicketsKeepTheirKey
<1>6. LoginsKept'
  <2> SUFFICES ASSUME NEW t \in Logins, login[t] # None
               PROVE  /\ KeepsKey(login[t].ticket)'
                      /\ login[t].clock <= now'
                      /\ login[t].known = FALSE
                           /\ login[t].ticket.lifetime <= TIMEOUT =>
                           login[t].ticket.expires < now'
    BY DEF LoginsKept, KeepsKey
  <2>1. login[t] \in IsLoggingIn
    BY DEF IInv, TypeOK
  <2>2. login[t].ticket \in Ticket /\ login[t].ticket.expires \in Int
    BY <2>1 DEF IsLoggingIn, Ticket
  <2>3. KeepsKey(login[t].ticket)'
    BY <2>2, <1>4 DEF IInv, LoginsKept
  <2>4. login[t].clock <= now'
    BY <2>1 DEF IInv, LoginsKept, TypeOK, IsLoggingIn
  <2> QED
    BY <2>2, <2>3, <2>4 DEF IInv, LoginsKept, TypeOK
<1> QED
  BY <1>1, <1>2, <1>3, <1>5, <1>6 DEF IInv, ShortTicketsAreHonoured

(* What an issuer has read, with its types.                                 *)
LEMMA IssuingFacts ==
  ASSUME IInv, NEW a \in Issuers, issuing[a] # None
  PROVE  /\ issuing[a] \in IsIssuing
         /\ issuing[a].lifetime \in Lifetimes /\ issuing[a].lifetime \in Nat
         /\ issuing[a].expires \in Int
         /\ issuing[a].clock \in Int \cup {None}
         /\ issuing[a].expires <= now + issuing[a].lifetime
         /\ issuing[a].clock # None =>
              /\ issuing[a].clock \in Int
              /\ issuing[a].clock <= now
              /\ issuing[a].expires <= issuing[a].clock + issuing[a].lifetime
BY KeyStoreAssumption DEF IInv, TypeOK, IsIssuing, ClocksPast

(* Reading the clock for a ticket touches neither the ring nor a ticket.    *)
LEMMA StartTicketStep ==
  ASSUME IInv, NEW a \in Issuers, NEW lifetime \in Lifetimes,
         StartTicket(a, lifetime)
  PROVE  IInv'
<1> USE DEF StartTicket
<1> DEFINE new == [lifetime |-> lifetime, expires |-> now + lifetime,
                   clock |-> None]
<1>1. new \in IsIssuing
  BY KeyStoreAssumption DEF IInv, TypeOK, IsIssuing
<1>2. TypeOK'
  BY <1>1 DEF IInv, TypeOK
<1>3. ClocksPast'
  <2> SUFFICES ASSUME NEW b \in Issuers, issuing'[b] # None
               PROVE  /\ issuing'[b].expires <= now + issuing'[b].lifetime
                      /\ issuing'[b].clock # None =>
                           /\ issuing'[b].clock <= now
                           /\ issuing'[b].expires <=
                                issuing'[b].clock + issuing'[b].lifetime
    BY DEF ClocksPast
  <2>1. CASE b = a
    <3>1. issuing'[b] = new
      BY <2>1 DEF IInv, TypeOK
    <3>2. now + lifetime \in Int
      BY KeyStoreAssumption DEF IInv, TypeOK
    <3> QED
      BY <3>1, <3>2
  <2>2. CASE b # a
    <3>1. issuing'[b] = issuing[b]
      BY <2>2 DEF IInv, TypeOK
    <3> QED
      BY <3>1, IssuingFacts
  <2> QED
    BY <2>1, <2>2
<1> QED
  BY <1>2, <1>3
     DEF IInv, RingSpaced, Age, ShortTicketsKeepTheirKey, LoginsKept,
         KeepsKey, ShortTicketsAreHonoured

LEMMA ReadClockStep ==
  ASSUME IInv, NEW a \in Issuers, ReadClock(a)
  PROVE  IInv'
<1> USE DEF ReadClock
<1>1. /\ issuing[a] \in IsIssuing
      /\ issuing[a].lifetime \in Nat
      /\ issuing[a].expires <= now + issuing[a].lifetime
      /\ now \in Int
  BY IssuingFacts DEF IInv, TypeOK
<1> DEFINE new == [issuing[a] EXCEPT !.clock = now]
<1>2. /\ new \in IsIssuing
      /\ new.clock = now
      /\ new.lifetime = issuing[a].lifetime
      /\ new.expires = issuing[a].expires
  BY <1>1 DEF IsIssuing
<1>3. issuing' = [issuing EXCEPT ![a] = new]
  BY DEF IInv, TypeOK
<1> HIDE DEF new
<1>4. TypeOK'
  BY <1>2, <1>3 DEF IInv, TypeOK
<1>5. ClocksPast'
  BY <1>1, <1>2, <1>3 DEF IInv, ClocksPast, TypeOK
<1> QED
  BY <1>4, <1>5
     DEF IInv, RingSpaced, Age, ShortTicketsKeepTheirKey, LoginsKept,
         KeepsKey, ShortTicketsAreHonoured

(* A key that is handed out outlives every short ticket sealed with it.     *)
LEMMA UseCurrentKeyStep ==
  ASSUME IInv, NEW a \in Issuers, UseCurrentKey(a)
  PROVE  IInv'
<1> USE DEF UseCurrentKey, Seal
<1> DEFINE ticket == [key |-> keys[key_index].key,
                      lifetime |-> issuing[a].lifetime,
                      expires |-> issuing[a].expires]
<1>1. /\ issuing[a].lifetime \in Lifetimes /\ issuing[a].lifetime \in Nat
      /\ issuing[a].expires \in Int
      /\ issuing[a].clock \in Int
      /\ issuing[a].expires <= issuing[a].clock + issuing[a].lifetime
  BY IssuingFacts
<1>2. key_index \in Slots /\ keys[key_index] \in Key
  BY DEF IInv, TypeOK
<1>3. ticket \in Ticket
  BY <1>1, <1>2 DEF Ticket, Key
<1>4. TypeOK'
  BY <1>3 DEF IInv, TypeOK
<1>5. ticket.lifetime <= TIMEOUT =>
        keys[key_index].valid_until >= ticket.expires
  BY <1>1, <1>2, KeyStoreAssumption DEF Usable, Key
<1>6. ShortTicketsKeepTheirKey'
  BY <1>2, <1>5 DEF IInv, ShortTicketsKeepTheirKey
<1>7. ClocksPast'
  BY DEF IInv, ClocksPast, TypeOK
<1> QED
  BY <1>4, <1>6, <1>7
     DEF IInv, RingSpaced, Age, LoginsKept, KeepsKey, ShortTicketsAreHonoured

LEMMA DiscardStep == IInv /\ Discard => IInv'
BY DEF Discard, IInv, TypeOK, ClocksPast, RingSpaced, Age, LoginsKept,
       KeepsKey, ShortTicketsKeepTheirKey, ShortTicketsAreHonoured

(* A login starts with a ticket that keeps its key ...                      *)
LEMMA StartLoginStep ==
  ASSUME IInv, NEW t \in Logins, NEW ticket \in tickets, StartLogin(t, ticket)
  PROVE  IInv'
<1> USE DEF StartLogin
<1> DEFINE new == [ticket |-> ticket, clock |-> now, known |-> None]
<1>1. new \in IsLoggingIn /\ now \in Int
  BY DEF IInv, TypeOK, IsLoggingIn
<1>2. TypeOK'
  BY <1>1 DEF IInv, TypeOK
<1>3. KeepsKey(ticket)
  BY DEF IInv, ShortTicketsKeepTheirKey, KeepsKey
<1>4. None # FALSE
  BY NoneAssumption
<1>5. LoginsKept'
  <2> SUFFICES ASSUME NEW u \in Logins, login'[u] # None
               PROVE  /\ KeepsKey(login'[u].ticket)
                      /\ login'[u].clock <= now
                      /\ login'[u].known = FALSE
                           /\ login'[u].ticket.lifetime <= TIMEOUT =>
                           login'[u].ticket.expires < now
    BY DEF LoginsKept, KeepsKey
  <2>1. CASE u = t
    <3>1. login'[u] = new
      BY <2>1 DEF IInv, TypeOK
    <3>2. /\ new.ticket = ticket /\ new.clock = now /\ new.known = None
      OBVIOUS
    <3> HIDE DEF new
    <3>3. KeepsKey(login'[u].ticket)
      BY <3>1, <3>2, <1>3
    <3>4. login'[u].clock <= now
      BY <3>1, <3>2, <1>1
    <3>5. login'[u].known # FALSE
      BY <3>1, <3>2, <1>4
    <3> QED
      BY <3>3, <3>4, <3>5
  <2>2. CASE u # t
    <3>1. login'[u] = login[u]
      BY <2>2 DEF IInv, TypeOK
    <3> QED
      BY <3>1 DEF IInv, LoginsKept
  <2> QED
    BY <2>1, <2>2
<1> QED
  BY <1>2, <1>5
     DEF IInv, RingSpaced, Age, ClocksPast, ShortTicketsKeepTheirKey,
         ShortTicketsAreHonoured

(* ... finds the key if the ticket is short and has not expired ...         *)
LEMMA TryKeysStep ==
  ASSUME IInv, NEW t \in Logins, TryKeys(t)
  PROVE  IInv'
<1> USE DEF TryKeys
<1> DEFINE l == login[t]
           found == IsKnown(l.ticket, l.clock)
           new == [l EXCEPT !.known = found]
<1>1. /\ l \in IsLoggingIn /\ KeepsKey(l.ticket) /\ l.clock <= now
      /\ l.clock \in Int /\ l.ticket \in Ticket /\ l.ticket.expires \in Int
      /\ now \in Int
  BY DEF IInv, TypeOK, LoginsKept, IsLoggingIn, Ticket
<1>2. l.ticket.lifetime <= TIMEOUT /\ l.ticket.expires >= now => found
  <2> SUFFICES ASSUME l.ticket.lifetime <= TIMEOUT, l.ticket.expires >= now
               PROVE  found
    OBVIOUS
  <2>1. PICK i \in Slots : /\ keys[i].key = l.ticket.key
                           /\ keys[i].valid_until >= l.ticket.expires
    BY <1>1 DEF KeepsKey
  <2>2. keys[i].valid_until \in Int
    BY DEF IInv, TypeOK, Key
  <2>3. i \in ValidKeys(l.clock)
    BY <1>1, <2>1, <2>2 DEF ValidKeys
  <2> QED
    BY <2>1, <2>3 DEF IsKnown
<1>3. found \in BOOLEAN
  BY DEF IsKnown
<1>4. login' = [login EXCEPT ![t] = new]
  BY DEF IInv, TypeOK
<1> HIDE DEF found
<1>5. /\ new \in IsLoggingIn
      /\ new.ticket = l.ticket /\ new.clock = l.clock /\ new.known = found
  BY <1>1, <1>3 DEF IsLoggingIn
<1>6. TypeOK'
  BY <1>4, <1>5 DEF IInv, TypeOK
<1>7. LoginsKept'
  <2> SUFFICES ASSUME NEW u \in Logins, login'[u] # None
               PROVE  /\ KeepsKey(login'[u].ticket)
                      /\ login'[u].clock <= now
                      /\ login'[u].known = FALSE
                           /\ login'[u].ticket.lifetime <= TIMEOUT =>
                           login'[u].ticket.expires < now
    BY DEF LoginsKept, KeepsKey
  <2>1. CASE u = t
    <3>1. login'[u] = new
      BY <2>1, <1>4 DEF IInv, TypeOK
    <3> HIDE DEF new, l
    <3>2. found = FALSE /\ l.ticket.lifetime <= TIMEOUT =>
            l.ticket.expires < now
      BY <1>1, <1>2
    <3> QED
      BY <3>1, <3>2, <1>1, <1>5
  <2>2. CASE u # t
    <3>1. login'[u] = login[u]
      BY <2>2, <1>4 DEF IInv, TypeOK
    <3> QED
      BY <3>1 DEF IInv, LoginsKept
  <2> QED
    BY <2>1, <2>2
<1> QED
  BY <1>6, <1>7
     DEF IInv, RingSpaced, Age, ClocksPast, ShortTicketsKeepTheirKey,
         ShortTicketsAreHonoured

(* ... and so turns away no short ticket before it expires.                 *)
LEMMA FinishLoginStep ==
  ASSUME IInv, NEW t \in Logins, FinishLogin(t)
  PROVE  IInv'
<1> USE DEF FinishLogin
<1> DEFINE l == login[t]
<1>0. l \in IsLoggingIn /\ l.known # None /\ now \in Int
  BY DEF IInv, TypeOK
<1>1. /\ l.ticket \in Ticket /\ l.ticket.expires \in Int
      /\ l.ticket.lifetime \in Nat
      /\ l.known \in BOOLEAN /\ now \in Int
      /\ l.known = FALSE /\ l.ticket.lifetime <= TIMEOUT =>
           l.ticket.expires < now
  <2>1. l.ticket \in Ticket /\ l.known \in BOOLEAN
    BY <1>0 DEF IsLoggingIn
  <2>2. l.ticket.expires \in Int /\ l.ticket.lifetime \in Nat
    BY <2>1, KeyStoreAssumption DEF Ticket
  <2>3. l.known = FALSE /\ l.ticket.lifetime <= TIMEOUT =>
          l.ticket.expires < now
    BY DEF IInv, LoginsKept
  <2> QED
    BY <1>0, <2>1, <2>2, <2>3
<1>2. turned_away' = turned_away \/
      /\ turned_away' = turned_away \cup {l.ticket}
      /\ ~l.known /\ l.ticket.expires >= now
  OBVIOUS
<1>3. ShortTicketsAreHonoured'
  BY <1>1, <1>2, KeyStoreAssumption DEF IInv, ShortTicketsAreHonoured
<1>4. TypeOK'
  BY <1>1, <1>2 DEF IInv, TypeOK
<1>5. LoginsKept'
  BY DEF IInv, TypeOK, LoginsKept, KeepsKey
<1> QED
  BY <1>3, <1>4, <1>5
     DEF IInv, RingSpaced, Age, ClocksPast, ShortTicketsKeepTheirKey

-----------------------------------------------------------------------------
(* Going on by one slot makes every other slot one key older.               *)
LEMMA NextSlot ==
  ASSUME key_index \in Slots
  PROVE  LET next == (key_index + 1) % STORAGE_COUNT IN
         /\ next \in Slots
         /\ Age(next) = MAX_CONCURRENTLY_VALID_KEYS
         /\ \A i \in Slots : Age(i) \in Nat
         /\ key_index' = next =>
              \A i \in Slots : Age(i)' = IF i = next THEN 0 ELSE Age(i) + 1
<1> DEFINE n == STORAGE_COUNT
           next == (key_index + 1) % n
<1>1. /\ n \in Nat \ {0} /\ n = MAX_CONCURRENTLY_VALID_KEYS + 1
      /\ MAX_CONCURRENTLY_VALID_KEYS \in Nat
  BY SlotsFacts, RingLongEnough DEF STORAGE_COUNT
<1>2. Slots = 0..(n - 1)
  BY DEF Slots
<1>3. key_index \in 0..(n - 1)
  BY <1>2
<1> HIDE DEF n
<1>4. next = IF key_index + 1 = n THEN 0 ELSE key_index + 1
  <2>1. CASE key_index + 1 = n
    BY <2>1, <1>1, <1>3
  <2>2. CASE key_index + 1 # n
    BY <2>2, <1>1, <1>3
  <2> QED
    BY <2>1, <2>2
<1> HIDE DEF next
<1>5. next \in 0..(n - 1)
  BY <1>1, <1>3, <1>4
<1>6. Age(next) = n - 1
  BY <1>1, <1>3, <1>4, <1>5 DEF Age, n
<1>7. \A i \in 0..(n - 1) : Age(i) \in Nat
  BY <1>1, <1>3 DEF Age, n
<1>8. ASSUME key_index' = next, NEW i \in 0..(n - 1), i = next
      PROVE  Age(i)' = 0
  BY <1>1, <1>3, <1>5, <1>8 DEF Age
<1>9. ASSUME key_index' = next, NEW i \in 0..(n - 1), i # next
      PROVE  Age(i)' = Age(i) + 1
  BY <1>1, <1>3, <1>4, <1>9 DEF Age, n
<1> QED
  BY <1>1, <1>2, <1>5, <1>6, <1>7, <1>8, <1>9 DEF next, n

(* The key that makes room has ended, by the reading of the clock that made *)
(* the new key necessary and so by the clock.                                *)
LEMMA OverwrittenKeyHasEnded ==
  ASSUME IInv, NEW a \in Issuers, RotateKey(a)
  PROVE  LET next == (key_index + 1) % STORAGE_COUNT IN
         /\ keys[next].valid_until \in Int
         /\ keys[next].valid_until < now
<1> DEFINE next == (key_index + 1) % STORAGE_COUNT
<1> HIDE DEF next
<1>1. /\ issuing[a].clock \in Int /\ issuing[a].clock <= now
      /\ now \in Nat \ {0}
      /\ ~Usable(keys[key_index], issuing[a].clock)
  BY IssuingFacts DEF RotateKey, IInv, TypeOK
<1>2. next \in Slots /\ Age(next) = MAX_CONCURRENTLY_VALID_KEYS
  BY NextSlot DEF IInv, TypeOK, next
<1>3. keys[next].valid_until \in Int /\ keys[key_index].valid_until \in Int
  BY <1>2 DEF IInv, TypeOK, Key
<1>4. keys[key_index].valid_until < issuing[a].clock + TIMEOUT
  BY <1>1, <1>3, KeyStoreAssumption DEF Usable
<1>5. MAX_CONCURRENTLY_VALID_KEYS * (Gap + 1) \in Int
  BY RingLongEnough, GapPositive
<1>6. CASE keys[next].valid_until = 0
  BY <1>1, <1>6, <1>3 DEF next
<1>7. CASE keys[next].valid_until + MAX_CONCURRENTLY_VALID_KEYS * (Gap + 1)
             <= keys[key_index].valid_until
  <2> DEFINE round == MAX_CONCURRENTLY_VALID_KEYS * (Gap + 1)
  <2>1. round \in Int /\ round >= TIMEOUT
    BY <1>5, RingLongEnough
  <2>2. keys[next].valid_until + round <= keys[key_index].valid_until
    BY <1>7
  <2> HIDE DEF round
  <2>3. keys[next].valid_until < now
    BY <2>1, <2>2, <1>1, <1>3, <1>4, KeyStoreAssumption
  <2> QED
    BY <2>3, <1>3 DEF next
<1> QED
  BY <1>2, <1>6, <1>7 DEF IInv, RingSpaced

(* The new key ends a gap after the one before it, and later than every     *)
(* short ticket it seals.                                                   *)
LEMMA RotateKeyStep ==
  ASSUME IInv, NEW a \in Issuers, RotateKey(a)
  PROVE  IInv'
<1> DEFINE next == (key_index + 1) % STORAGE_COUNT
           clock == issuing[a].clock
           new == [key |-> minted + 1, valid_until |-> clock + LIFESPAN]
           ticket == [key |-> minted + 1,
                      lifetime |-> issuing[a].lifetime,
                      expires |-> issuing[a].expires]
<1>1. /\ issuing[a].lifetime \in Lifetimes /\ issuing[a].lifetime \in Nat
      /\ issuing[a].expires \in Int
      /\ clock \in Int /\ clock <= now /\ now \in Int /\ minted \in Nat
      /\ issuing[a].expires <= clock + issuing[a].lifetime
  BY IssuingFacts DEF RotateKey, IInv, TypeOK
<1>2. /\ next \in Slots
      /\ keys[next].valid_until \in Int
      /\ keys[next].valid_until < now
  BY NextSlot, OverwrittenKeyHasEnded DEF IInv, TypeOK
<1>3. /\ keys' = [keys EXCEPT ![next] = new]
      /\ key_index' = next
      /\ tickets' = tickets \cup {ticket}
      /\ issuing' = [issuing EXCEPT ![a] = None]
      /\ minted' = minted + 1
      /\ UNCHANGED <<now, login, turned_away>>
  BY DEF RotateKey, Seal
<1>4. /\ new \in Key /\ new.key = minted + 1
      /\ new.valid_until = clock + LIFESPAN
  BY <1>1, KeyStoreAssumption DEF Key
<1>5. /\ ticket \in Ticket /\ ticket.key = minted + 1
      /\ ticket.lifetime \in Nat
      /\ ticket.expires \in Int /\ ticket.expires <= clock + ticket.lifetime
  BY <1>1 DEF Ticket
<1>6. /\ keys[key_index].valid_until \in Int
      /\ keys[key_index].valid_until < clock + TIMEOUT
  BY <1>1, KeyStoreAssumption DEF IInv, TypeOK, Key, RotateKey, Usable
<1>7. keys \in [Slots -> Key]
  BY DEF IInv, TypeOK
<1>8. \A i \in Slots : Age(i) \in Nat
                       /\ Age(i)' = IF i = next THEN 0 ELSE Age(i) + 1
  BY <1>3, NextSlot DEF IInv, TypeOK
<1> HIDE DEF next, clock, new, ticket
<1>9. TypeOK'
  BY <1>2, <1>3, <1>4, <1>5 DEF IInv, TypeOK
<1>10. RingSpaced'
  <2> SUFFICES ASSUME NEW i \in Slots
               PROVE  \/ keys'[i].valid_until = 0
                      \/ keys'[i].valid_until + Age(i)' * (Gap + 1)
                           <= keys'[next].valid_until
    BY <1>3 DEF RingSpaced
  <2>1. keys'[next].valid_until = clock + LIFESPAN
    BY <1>2, <1>3, <1>4, <1>7
  <2>2. CASE i = next
    <3>1. Age(i)' * (Gap + 1) = 0
      BY <2>2, <1>8, GapPositive
    <3> QED
      BY <2>1, <2>2, <3>1, <1>1, KeyStoreAssumption
  <2>3. CASE i # next /\ keys[i].valid_until # 0
    <3> DEFINE older == Age(i) * (Gap + 1)
    <3>1. keys'[i] = keys[i] /\ keys[i].valid_until \in Int
      BY <2>3, <1>3, <1>7 DEF Key
    <3>2. keys[i].valid_until + older <= keys[key_index].valid_until
      BY <2>3 DEF IInv, RingSpaced
    <3>3. older \in Int /\ Age(i)' * (Gap + 1) = older + (Gap + 1)
      BY <2>3, <1>8, GapPositive
    <3>4. Gap + 1 + TIMEOUT = LIFESPAN + 1
      BY KeyStoreAssumption DEF Gap
    <3> HIDE DEF older
    <3> QED
      BY <2>1, <3>1, <3>2, <3>3, <3>4, <1>1, <1>6, GapPositive,
         KeyStoreAssumption
  <2>4. CASE i # next /\ keys[i].valid_until = 0
    BY <2>4, <1>3, <1>7
  <2> QED
    BY <2>2, <2>3, <2>4
<1>11. ASSUME NEW x \in Ticket, KeepsKey(x) PROVE KeepsKey(x)'
  <2> SUFFICES ASSUME x.lifetime <= TIMEOUT, x.expires >= now
               PROVE  \E i \in Slots : /\ keys'[i].key = x.key
                                       /\ keys'[i].valid_until >= x.expires
    BY <1>3 DEF KeepsKey
  <2>1. PICK i \in Slots : /\ keys[i].key = x.key
                           /\ keys[i].valid_until >= x.expires
    BY <1>11 DEF KeepsKey
  <2>2. keys[i].valid_until \in Int /\ x.expires \in Int
    BY <1>7 DEF Key, Ticket
  <2>3. i # next
    BY <2>1, <2>2, <1>1, <1>2
  <2>4. keys'[i] = keys[i]
    BY <2>3, <1>3, <1>7
  <2> QED
    BY <2>1, <2>4
<1>12. ticket.lifetime <= TIMEOUT =>
         \E i \in Slots : /\ keys'[i].key = ticket.key
                          /\ keys'[i].valid_until >= ticket.expires
  <2>1. keys'[next] = new
    BY <1>2, <1>3, <1>7
  <2>2. ticket.lifetime <= TIMEOUT => new.valid_until >= ticket.expires
    BY <1>1, <1>4, <1>5, KeyStoreAssumption
  <2> QED
    BY <1>2, <1>4, <1>5, <2>1, <2>2
<1>13. ShortTicketsKeepTheirKey'
  <2> SUFFICES ASSUME NEW x \in tickets',
                      x.lifetime <= TIMEOUT, x.expires >= now
               PROVE  \E i \in Slots : /\ keys'[i].key = x.key
                                       /\ keys'[i].valid_until >= x.expires
    BY <1>3 DEF ShortTicketsKeepTheirKey
  <2>1. CASE x \in tickets
    <3>1. x \in Ticket /\ KeepsKey(x)
      BY <2>1 DEF IInv, TypeOK, ShortTicketsKeepTheirKey, KeepsKey
    <3> QED
      BY <3>1, <1>3, <1>11 DEF KeepsKey
  <2>2. CASE x = ticket
    BY <2>2, <1>12
  <2> QED
    BY <2>1, <2>2, <1>3
<1>14. LoginsKept'
  BY <1>3, <1>11 DEF IInv, TypeOK, LoginsKept, IsLoggingIn
<1>15. ClocksPast'
  BY <1>3 DEF IInv, ClocksPast, TypeOK
<1> QED
  BY <1>3, <1>9, <1>10, <1>13, <1>14, <1>15 DEF IInv, ShortTicketsAreHonoured

-----------------------------------------------------------------------------
LEMMA NextStep == IInv /\ [Next]_vars => IInv'
<1> SUFFICES ASSUME IInv, [Next]_vars PROVE IInv'
  OBVIOUS
<1>1. CASE Tick
  BY <1>1, TickStep
<1>2. CASE Discard
  BY <1>2, DiscardStep
<1>3. ASSUME NEW a \in Issuers, Issue(a) PROVE IInv'
  BY <1>3, StartTicketStep, ReadClockStep, UseCurrentKeyStep, RotateKeyStep
     DEF Issue
<1>4. ASSUME NEW t \in Logins, LogIn(t) PROVE IInv'
  BY <1>4, StartLoginStep, TryKeysStep, FinishLoginStep DEF LogIn
<1>5. CASE UNCHANGED vars
  BY <1>5 DEF vars, IInv, TypeOK, RingSpaced, Age, ClocksPast,
              ShortTicketsKeepTheirKey, LoginsKept, KeepsKey,
              ShortTicketsAreHonoured
<1> QED
  BY <1>1, <1>2, <1>3, <1>4, <1>5 DEF Next

LEMMA AlwaysIInv == Spec => []IInv
BY InitIInv, NextStep, PTL DEF Spec

(* The ring index stays within the ring and threads hold what they read.    *)
THEOREM KeyStoreTypeOK == Spec => []TypeOK
BY AlwaysIInv, PTL DEF IInv

(* A ticket no longer than IN_MEMORY_KEY_TIMEOUT never outlives its key.    *)
THEOREM ShortTicketsNeverOutliveTheirKey == Spec => []ShortTicketsKeepTheirKey
BY AlwaysIInv, PTL DEF IInv

(* Nor does any login turn one away before it has expired.                  *)
THEOREM NoShortTicketIsTurnedAway == Spec => []ShortTicketsAreHonoured
BY AlwaysIInv, PTL DEF IInv

(* MAX_CONCURRENTLY_VALID_KEYS is large enough: get_current_key overwrites  *)
(* no valid key, whatever the lifespan, the timeout and the threads' delays. *)
THEOREM RingIsLargeEnough == Spec => NoValidKeyOverwritten
<1> DEFINE Kept == \A i \in Slots : keys'[i] # keys[i] => keys[i].valid_until < now
<1>1. ASSUME IInv, Next PROVE Kept
  <2>1. CASE UNCHANGED keys
    BY <2>1
  <2>2. ASSUME NEW a \in Issuers, RotateKey(a) PROVE Kept
    <3> DEFINE next == (key_index + 1) % STORAGE_COUNT
    <3>1. keys[next].valid_until < now
      BY <2>2, <1>1, OverwrittenKeyHasEnded
    <3>2. keys' = [keys EXCEPT ![next] = keys'[next]]
      BY <2>2, <1>1, NextSlot DEF RotateKey, IInv, TypeOK
    <3> HIDE DEF next
    <3>3. \A i \in Slots : i # next => keys'[i] = keys[i]
      BY <3>2, <1>1 DEF IInv, TypeOK
    <3> QED
      BY <3>1, <3>3
  <2> QED
    BY <1>1, <2>1, <2>2
       DEF Next, Tick, Discard, Issue, StartTicket, ReadClock, UseCurrentKey,
           LogIn, StartLogin, TryKeys, FinishLogin
<1>2. IInv /\ [Next]_vars => [Kept]_vars
  BY <1>1
<1> QED
  BY <1>2, AlwaysIInv, PTL DEF Spec, NoValidKeyOverwritten
=============================================================================
