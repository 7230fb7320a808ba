------------------------------ MODULE Tickets ------------------------------
(***************************************************************************)
(* From a verified login to a websocket (auth/tickets.py, auth/identity.py, *)
(* routes/auth.py and the handshake in websocket/voice.py): session tokens, *)
(* single-use tickets, the log of used ticket ids and the identity store.  *)
(*                                                                         *)
(* Tokens are kept by the clients and survive a restart of the server; the *)
(* log and the identities are memory only, and AUTH_SECRET survives if it  *)
(* comes from the environment.  A signature is abstracted to the secret it *)
(* was made with, an identity to its deterministic id; clocks are read at  *)
(* whole seconds, which is what `exp` is counted in.  An HTTP request that *)
(* succeeds is one step, one that is refused changes nothing.  A handshake *)
(* takes the steps of redeem_ticket apart: others run between them, and    *)
(* time passes.  There is one room id, the only one that exists.           *)
(***************************************************************************)
EXTENDS Naturals, Sequences, FiniteSets

CONSTANTS
  Users,           \* ids that the external verification can yield
  Handshakes,      \* threads of websocket requests
  SessionTTL,      \* config.SESSION_TTL_SECONDS
  TicketTTL,       \* config.TICKET_TTL_SECONDS
  LogLimit,        \* 4096: above it expired ids are dropped from the log
  MaxTickets, MaxTime, MaxRestarts   \* bounds

ASSUME TicketsAssumption ==
  /\ IsFiniteSet(Users) /\ IsFiniteSet(Handshakes)
  /\ SessionTTL \in Nat /\ TicketTTL \in Nat /\ LogLimit \in Nat
  /\ MaxTickets \in Nat /\ MaxTime \in Nat /\ MaxRestarts \in Nat

VARIABLES
  now,          \* time.time(), whole seconds
  restarts,     \* how often the process was restarted
  secret,       \* config.AUTH_SECRET
  ephemeral,    \* config.AUTH_SECRET_IS_EPHEMERAL: drawn at start, not configured
  identities,   \* keys of IdentityStore._by_id
  sessions,     \* session tokens that clients hold
  tickets,      \* tickets issued, by number: the ticket's jti
  seen,         \* keys of _NonceLog._seen
  pc,           \* where each handshake is
  held,         \* the ticket each handshake presents
  opened        \* how many sockets each ticket has opened

clientVars == <<sessions, tickets>>
serverVars == <<restarts, secret, ephemeral, identities>>
vars == <<now, serverVars, clientVars, seen, pc, held, opened>>

Ids == 1..MaxTickets
Issued == 1..Len(tickets)
Token == [user : Users, exp : Nat, key : Nat]

TypeOK ==
  /\ now \in Nat /\ restarts \in 0..MaxRestarts /\ secret \in Nat
  /\ ephemeral \in BOOLEAN
  /\ identities \subseteq Users
  /\ sessions \subseteq Token
  /\ tickets \in Seq(Token) /\ Len(tickets) <= MaxTickets
  /\ seen \subseteq Issued
  /\ pc \in [Handshakes -> {"idle", "decoded", "consumed"}]
  /\ held \in [Handshakes -> Ids \cup {0}]
  /\ opened \in [Ids -> Nat]

Init ==
  /\ now = 0 /\ restarts = 0 /\ secret = 0
  /\ ephemeral \in BOOLEAN
  /\ identities = {}
  /\ sessions = {} /\ tickets = <<>>
  /\ seen = {}
  /\ pc = [h \in Handshakes |-> "idle"]
  /\ held = [h \in Handshakes |-> 0]
  /\ opened = [i \in Ids |-> 0]

Issue(u, ttl) == [user |-> u, exp |-> now + ttl, key |-> secret]

\* _decode: the signature, then the expiry.
Valid(t) == t.key = secret /\ now <= t.exp

-----------------------------------------------------------------------------
(* HTTP *)

\* IdentityStore.link: the same verified login always yields the same id.
Link(u) == identities' = identities \cup {u}

\* IdentityStore.get
Known(u) == u \in identities

CreateSession(u) ==
  /\ Link(u)
  /\ sessions' = sessions \cup {Issue(u, SessionTTL)}
  /\ UNCHANGED <<now, restarts, secret, ephemeral, tickets, seen, pc, held, opened>>

CreateTicket(s) ==
  /\ Len(tickets) < MaxTickets
  /\ Valid(s) /\ Known(s.user)
  /\ tickets' = Append(tickets, Issue(s.user, TicketTTL))
  /\ UNCHANGED <<now, serverVars, sessions, seen, pc, held, opened>>

-----------------------------------------------------------------------------
(* The handshake *)

At(h, from, to) == pc[h] = from /\ pc' = [pc EXCEPT ![h] = to]

\* Mutant of Decode: the id of the ticket at hand is not taken over.
DecodeForgets(h, i) ==
  /\ Valid(tickets[i])
  /\ At(h, "idle", "decoded")
  /\ UNCHANGED <<now, serverVars, clientVars, seen, held, opened>>

Decode(h, i) ==
  /\ Valid(tickets[i])
  /\ At(h, "idle", "decoded")
  /\ held' = [held EXCEPT ![h] = i]
  /\ UNCHANGED <<now, serverVars, clientVars, seen, opened>>

\* Mutant of Kept: an overfull log is emptied.
KeptNothing == IF Cardinality(seen) > LogLimit THEN {} ELSE seen

\* What consume keeps of the log before it looks the id up.  Its clock is read
\* just before the lock; an older reading would only keep more.
Kept ==
  IF Cardinality(seen) > LogLimit
    THEN {i \in seen : now <= tickets[i].exp} ELSE seen

Consume(h) ==
  /\ At(h, "decoded", IF held[h] \in Kept THEN "idle" ELSE "consumed")
  /\ seen' = Kept \cup {held[h]}
  /\ UNCHANGED <<now, serverVars, clientVars, held, opened>>

\* A socket is opened if the identity is still known; the ticket is used up
\* either way.
Admit(h) ==
  /\ At(h, "consumed", "idle")
  /\ opened' = IF Known(tickets[held[h]].user)
                 THEN [opened EXCEPT ![held[h]] = @ + 1] ELSE opened
  /\ UNCHANGED <<now, serverVars, clientVars, seen, held>>

-----------------------------------------------------------------------------
(* Time and failure *)

Tick ==
  /\ now < MaxTime
  /\ now' = now + 1
  /\ UNCHANGED <<serverVars, clientVars, seen, pc, held, opened>>

Restart ==
  /\ restarts < MaxRestarts
  /\ restarts' = restarts + 1
  /\ secret' = IF ephemeral THEN secret + 1 ELSE secret
  /\ identities' = {} /\ seen' = {}
  /\ pc' = [h \in Handshakes |-> "idle"]
  /\ UNCHANGED <<now, ephemeral, clientVars, held, opened>>

Next ==
  \/ \E u \in Users : CreateSession(u)
  \/ \E s \in sessions : CreateTicket(s)
  \/ \E h \in Handshakes, i \in Issued : Decode(h, i)
  \/ \E h \in Handshakes : Consume(h) \/ Admit(h)
  \/ Tick \/ Restart

Spec == Init /\ [][Next]_vars

-----------------------------------------------------------------------------
(* Properties *)

\* "A ticket works exactly once": however handshakes that present the same
\* ticket interleave, it opens at most one socket.
SingleUse == \A i \in Ids : opened[i] <= 1

\* How often a ticket whose signature is still good may have lost its entry in
\* the log: a restart empties the log, and where it draws a new secret it also
\* voids every ticket.
LogsLost == IF ephemeral THEN 0 ELSE restarts

\* "Remembers consumed ticket ids until they would have expired anyway": as long
\* as a ticket is good it has opened at most one socket for each log there has
\* been, also when the log overflows and when a handshake stalls between decoding
\* and consuming.  Only an AUTH_SECRET from the environment makes that more than
\* one.
OnceWhileValid == \A i \in Issued : Valid(tickets[i]) => opened[i] <= 1 + LogsLost

=============================================================================
