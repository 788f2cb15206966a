------------------------------ MODULE KeyStore ------------------------------
(***************************************************************************)
(* InMemoryKeyStore (libbitdemon auth/key_store.rs) and the tickets sealed  *)
(* with its keys (auth_proof.rs): an auth thread issues a ticket under the  *)
(* current key, the lobby's LsgHandler (lsg.rs) opens it with any key that  *)
(* is still valid.  Keys live in a ring; the slot after the current one is   *)
(* overwritten when the current key is too close to its end.                *)
(*                                                                         *)
(* A thread reads the clock before it waits for the store's lock, so the    *)
(* time it works with may be long past when it gets the lock; its tickets'   *)
(* expiry comes from a still earlier reading.  The clock (Utc::now in       *)
(* seconds, never 0) is assumed not to run backwards.                       *)
(***************************************************************************)
EXTENDS Integers, FiniteSets

CONSTANTS
  LIFESPAN,    \* IN_MEMORY_KEY_LIFESPAN
  TIMEOUT,     \* IN_MEMORY_KEY_TIMEOUT
  Lifetimes,   \* of tickets, by the handler that issues them: 5 minutes
               \* (dw-server's /auth), 300000 seconds (Steam)
  Issuers,     \* auth threads
  Logins,      \* lobby threads
  None

ASSUME KeyStoreAssumption == /\ LIFESPAN \in Nat /\ TIMEOUT \in Nat
                             /\ TIMEOUT < LIFESPAN
                             /\ Lifetimes \subseteq Nat

MAX_CONCURRENTLY_VALID_KEYS == LIFESPAN \div (LIFESPAN - TIMEOUT)

(* MUTANT *)
NoSpareSlot == MAX_CONCURRENTLY_VALID_KEYS

STORAGE_COUNT == MAX_CONCURRENTLY_VALID_KEYS + 1
Slots == 0..(STORAGE_COUNT - 1)

VARIABLES
  now,        \* the clock
  keys,       \* ring slot -> [key, valid_until]; key 0 is the empty key
  key_index,
  minted,     \* how many keys were made; the next one is key minted + 1
  issuing,    \* issuer -> what it has read from the clock so far, or None
  tickets,    \* tickets clients hold: [key, lifetime, expires]
  login,      \* lobby thread -> the ticket it checks and how far it is
  turned_away \* history: tickets refused before they had expired

vars == <<now, keys, key_index, minted, issuing, tickets, login, turned_away>>

Key == [key : Nat, valid_until : Int]
Ticket == [key : Nat, lifetime : Lifetimes, expires : Int]
IsIssuing == [lifetime : Lifetimes, expires : Int, clock : Int \cup {None}]
IsLoggingIn == [ticket : Ticket, clock : Int, known : BOOLEAN \cup {None}]

ASSUME NoneAssumption == /\ None \notin Int \cup BOOLEAN
                         /\ None \notin IsIssuing
                         /\ None \notin IsLoggingIn

Init == /\ now = 1
        /\ keys = [i \in Slots |-> [key |-> 0, valid_until |-> 0]]
        /\ key_index = 0
        /\ minted = 0
        /\ issuing = [a \in Issuers |-> None]
        /\ tickets = {}
        /\ login = [t \in Logins |-> None]
        /\ turned_away = {}

Tick == /\ now' = now + 1
        /\ UNCHANGED <<keys, key_index, minted, issuing, tickets, login,
                       turned_away>>

-----------------------------------------------------------------------------
(* Issuing: the handler computes time_expires ...                           *)
StartTicket(a, lifetime) ==
  /\ issuing[a] = None
  /\ issuing' = [issuing EXCEPT ![a] =
       [lifetime |-> lifetime, expires |-> now + lifetime, clock |-> None]]
  /\ UNCHANGED <<now, keys, key_index, minted, tickets, login, turned_away>>

(* ... get_current_key reads the clock ...                                  *)
ReadClock(a) ==
  /\ issuing[a] # None
  /\ issuing[a].clock = None
  /\ issuing' = [issuing EXCEPT ![a].clock = now]
  /\ UNCHANGED <<now, keys, key_index, minted, tickets, login, turned_away>>

(* MUTANT *)
UsableUntilItsEnd(k, clock) == k.valid_until >= clock

(* min_lifespan: a key is handed out only while it has TIMEOUT left         *)
Usable(k, clock) == k.valid_until >= clock + TIMEOUT

Seal(a, k) ==
  LET i == issuing[a] IN
  /\ tickets' = tickets \cup
       {[key |-> k, lifetime |-> i.lifetime, expires |-> i.expires]}
  /\ issuing' = [issuing EXCEPT ![a] = None]

UseCurrentKey(a) ==
  /\ issuing[a] # None
  /\ issuing[a].clock # None
  /\ Usable(keys[key_index], issuing[a].clock)
  /\ Seal(a, keys[key_index].key)
  /\ UNCHANGED <<now, keys, key_index, minted, login, turned_away>>

(* ... and, under the write lock, uses the current key or makes a new one   *)
RotateKey(a) ==
  LET next == (key_index + 1) % STORAGE_COUNT IN
  /\ issuing[a] # None
  /\ issuing[a].clock # None
  /\ ~Usable(keys[key_index], issuing[a].clock)
  /\ minted' = minted + 1
  /\ key_index' = next
  /\ keys' = [keys EXCEPT ![next] =
       [key |-> minted + 1, valid_until |-> issuing[a].clock + LIFESPAN]]
  /\ Seal(a, minted + 1)
  /\ UNCHANGED <<now, login, turned_away>>

-----------------------------------------------------------------------------
(* Logging in: get_valid_keys reads the clock ...                           *)
StartLogin(t, ticket) ==
  /\ login[t] = None
  /\ login' = [login EXCEPT ![t] =
       [ticket |-> ticket, clock |-> now, known |-> None]]
  /\ UNCHANGED <<now, keys, key_index, minted, issuing, tickets, turned_away>>

(* MUTANT *)
ValidKeysStrictly(clock) == {i \in Slots : keys[i].valid_until > clock}

ValidKeys(clock) == {i \in Slots : keys[i].valid_until >= clock}

IsKnown(ticket, clock) == \E i \in ValidKeys(clock) : keys[i].key = ticket.key

(* ... and, under the read lock, collects the keys the ticket is tried with *)
TryKeys(t) ==
  /\ login[t] # None
  /\ login[t].known = None
  /\ login' = [login EXCEPT ![t].known = IsKnown(login[t].ticket, login[t].clock)]
  /\ UNCHANGED <<now, keys, key_index, minted, issuing, tickets, turned_away>>

(* LsgHandler: UnknownKey, AuthenticationExpired or a sign-in               *)
FinishLogin(t) ==
  /\ login[t] # None
  /\ login[t].known # None
  /\ LET ticket == login[t].ticket IN
     turned_away' = IF ~login[t].known /\ ticket.expires >= now
                    THEN turned_away \cup {ticket} ELSE turned_away
  /\ login' = [login EXCEPT ![t] = None]
  /\ UNCHANGED <<now, keys, key_index, minted, issuing, tickets>>

-----------------------------------------------------------------------------
Issue(a) == \/ \E lifetime \in Lifetimes : StartTicket(a, lifetime)
            \/ ReadClock(a)
            \/ UseCurrentKey(a)
            \/ RotateKey(a)

LogIn(t) == \/ \E ticket \in tickets : StartLogin(t, ticket)
            \/ TryKeys(t)
            \/ FinishLogin(t)

(* A client has no more use for a ticket                                    *)
Discard == \E ticket \in tickets :
             /\ tickets' = tickets \ {ticket}
             /\ UNCHANGED <<now, keys, key_index, minted, issuing, login,
                            turned_away>>

Next == \/ Tick
        \/ Discard
        \/ \E a \in Issuers : Issue(a)
        \/ \E t \in Logins : LogIn(t)

Spec == Init /\ [][Next]_vars

-----------------------------------------------------------------------------
(* The ring always has its slots, and threads hold what they read.          *)
TypeOK == /\ now \in Nat \ {0}
          /\ keys \in [Slots -> Key]
          /\ key_index \in Slots
          /\ minted \in Nat
          /\ issuing \in [Issuers -> IsIssuing \cup {None}]
          /\ tickets \subseteq Ticket
          /\ login \in [Logins -> IsLoggingIn \cup {None}]
          /\ turned_away \subseteq Ticket

(* The ring is big enough: however late threads that read the clock early   *)
(* get the lock, making a new key never overwrites one that is still valid. *)
NoValidKeyOverwritten ==
  [][\A i \in Slots : keys'[i] # keys[i] => keys[i].valid_until < now]_vars

(* A ticket whose lifetime is within the time a key has left when it is     *)
(* handed out keeps its key until it expires.                               *)
ShortTicketsKeepTheirKey ==
  \A ticket \in tickets :
    ticket.lifetime <= TIMEOUT /\ ticket.expires >= now =>
      \E i \in Slots : /\ keys[i].key = ticket.key
                       /\ keys[i].valid_until >= ticket.expires

(* Such a ticket is never turned away before it expires, even by a login    *)
(* that reads the clock, the ring and the clock again at different times.   *)
ShortTicketsAreHonoured ==
  \A ticket \in turned_away : ticket.lifetime > TIMEOUT
=============================================================================
