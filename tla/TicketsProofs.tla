--------------------------- MODULE TicketsProofs ---------------------------
(***************************************************************************)
(* Proofs about Tickets: its type invariant, and that a ticket which is     *)
(* still good has opened at most one socket for each log of used ids there *)
(* has been.                                                               *)
(*                                                                         *)
(* The argument is an account of each good ticket.  Its id is missing from *)
(* the log only if nobody is between consuming and admitting it; the log   *)
(* drops no id before its ticket has expired; and once a ticket is no      *)
(* longer good (it has expired, or its secret is gone) it never is again.  *)
(***************************************************************************)
EXTENDS Tickets, TLAPS

-----------------------------------------------------------------------------
(* The inductive invariant *)

\* A handshake that is under way presents a ticket that was issued.
HeldIssued == \A h \in Handshakes : pc[h] # "idle" => held[h] \in Issued

\* A token is signed with the secret of the time or an earlier one.
KeysPast == \A i \in Issued : tickets[i].key <= secret

\* A ticket yet to be issued has opened nothing.
Unopened == \A i \in Ids : i > Len(tickets) => opened[i] = 0

\* Handshake h has consumed ticket i and is about to open a socket with it.
Opening(h, i) == pc[h] = "consumed" /\ held[h] = i

\* What a good ticket has opened, and may still open: the log knows its id as
\* soon as one handshake has consumed it, and no second one ever does.
Account(i) ==
  /\ opened[i] <= 1 + LogsLost
  /\ i \notin seen =>
       opened[i] <= LogsLost /\ \A h \in Handshakes : ~Opening(h, i)
  /\ \A h \in Handshakes : Opening(h, i) =>
       /\ opened[i] <= LogsLost
       /\ \A g \in Handshakes : Opening(g, i) => g = h

Accounts == \A i \in Issued : Valid(tickets[i]) => Account(i)

IInv == TypeOK /\ HeldIssued /\ KeysPast /\ Unopened /\ Accounts

-----------------------------------------------------------------------------
(* Tickets once issued stay as they are *)

\* The list of tickets is a function on the ids issued.
LEMMA TicketType ==
  ASSUME TypeOK, NEW i \in Issued
  PROVE  /\ tickets[i] \in Token /\ i \in Ids
         /\ tickets[i].key \in Nat /\ tickets[i].exp \in Nat
<1>1. tickets[i] \in Token
  BY DEF TypeOK, Issued
<1>2. i \in Ids
  BY TicketsAssumption DEF TypeOK, Issued, Ids
<1> QED
  BY <1>1, <1>2 DEF Token

LEMMA LostType == TypeOK => LogsLost \in Nat
BY TicketsAssumption DEF TypeOK, LogsLost

\* Steps that leave the tickets and the log alone and open nothing: no ticket
\* gets better, and the accounts stay as long as no handshake has consumed one.
LEMMA AccountsKept ==
  ASSUME IInv, TypeOK', UNCHANGED <<secret, ephemeral, tickets, seen, opened, restarts>>,
         now' >= now,
         \A h \in Handshakes : pc'[h] = "consumed" =>
            pc[h] = "consumed" /\ held'[h] = held[h]
  PROVE  KeysPast' /\ Unopened' /\ Accounts'
<1>1. KeysPast' /\ Unopened'
  BY DEF IInv, KeysPast, Unopened, Issued, Ids
<1>2. ASSUME NEW i \in Issued', Valid(tickets[i])'
      PROVE  Account(i)'
  <2>1. i \in Issued /\ tickets'[i] = tickets[i]
    BY DEF Issued
  <2>2. now \in Nat /\ now' \in Nat /\ tickets[i].exp \in Nat
    BY <2>1, TicketType DEF IInv, TypeOK
  <2>3. Valid(tickets[i])
    BY <1>2, <2>1, <2>2 DEF Valid
  <2>4. Account(i)
    BY <2>1, <2>3 DEF IInv, Accounts
  <2>5. \A h \in Handshakes : Opening(h, i)' => Opening(h, i)
    BY DEF Opening
  <2>6. LogsLost' = LogsLost
    BY DEF LogsLost
  <2> QED
    BY <2>4, <2>5, <2>6 DEF Account
<1> QED
  BY <1>1, <1>2 DEF Accounts

-----------------------------------------------------------------------------
(* One lemma for each operation *)

\* IssueType: what CreateSession and CreateTicket sign is a token.
LEMMA IssueType ==
  ASSUME TypeOK, NEW u \in Users, NEW ttl \in Nat
  PROVE  Issue(u, ttl) \in Token
BY DEF TypeOK, Issue, Token

LEMMA SessionStep ==
  ASSUME IInv, NEW u \in Users, CreateSession(u)
  PROVE  IInv'
<1>1. TypeOK'
  <2>1. Issue(u, SessionTTL) \in Token
    BY IssueType, TicketsAssumption DEF IInv
  <2> QED
    BY <2>1 DEF IInv, TypeOK, CreateSession, Link, Issued, Ids
<1>2. HeldIssued'
  BY DEF IInv, HeldIssued, CreateSession, Issued
<1>3. KeysPast' /\ Unopened' /\ Accounts'
  BY <1>1, AccountsKept DEF IInv, TypeOK, CreateSession
<1> QED
  BY <1>1, <1>2, <1>3 DEF IInv

LEMMA TicketStep ==
  ASSUME IInv, NEW s \in sessions, CreateTicket(s)
  PROVE  IInv'
<1> DEFINE n == Len(tickets) + 1
           t == Issue(s.user, TicketTTL)
<1>1. /\ tickets' = Append(tickets, t) /\ tickets \in Seq(Token)
      /\ Len(tickets) \in Nat /\ n \in Ids
  BY TicketsAssumption DEF IInv, TypeOK, CreateTicket, Ids
<1>2. t \in Token /\ t.key = secret
  BY IssueType, TicketsAssumption DEF IInv, TypeOK, CreateTicket, Token, Issue
<1>3. /\ Issued' = Issued \cup {n} /\ tickets'[n] = t
      /\ \A i \in Issued : tickets'[i] = tickets[i]
      /\ n \notin Issued
  BY <1>1, <1>2 DEF Issued
<1>4. UNCHANGED <<now, restarts, secret, ephemeral, identities, sessions, seen, pc, held,
                  opened>>
  BY DEF CreateTicket, serverVars
<1>5. TypeOK'
  <2>1. tickets' \in Seq(Token) /\ Len(tickets') <= MaxTickets
    <3>1. Len(tickets') = n /\ n <= MaxTickets
      BY <1>1, <1>2, TicketsAssumption DEF Ids
    <3> QED
      BY <1>1, <1>2, <3>1
  <2> QED
    BY <2>1, <1>3, <1>4 DEF IInv, TypeOK, Ids
<1>6. HeldIssued'
  BY <1>3, <1>4 DEF IInv, HeldIssued
<1>7. KeysPast'
  BY <1>2, <1>3, <1>4 DEF IInv, KeysPast, TypeOK
<1>8. Unopened'
  BY <1>1, <1>4 DEF IInv, Unopened, TypeOK, Ids
<1>9. ASSUME NEW i \in Issued', Valid(tickets[i])'
      PROVE  Account(i)'
  <2>1. LogsLost' = LogsLost /\ LogsLost \in Nat
    BY <1>4, LostType DEF LogsLost, IInv
  <2>2. CASE i = n
    <3>1. opened[n] = 0
      BY <1>1 DEF IInv, Unopened
    <3>2. n \notin seen /\ \A h \in Handshakes : ~Opening(h, n)
      BY <1>3 DEF IInv, TypeOK, HeldIssued, Opening
    <3> QED
      BY <2>1, <2>2, <3>1, <3>2, <1>4 DEF Account, Opening
  <2>3. CASE i \in Issued
    <3>1. Valid(tickets[i])
      BY <1>3, <1>4, <1>9, <2>3 DEF Valid
    <3>2. Account(i)
      BY <2>3, <3>1 DEF IInv, Accounts
    <3> QED
      BY <2>1, <3>2, <1>4 DEF Account, Opening
  <2> QED
    BY <1>3, <2>2, <2>3
<1> QED
  BY <1>5, <1>6, <1>7, <1>8, <1>9 DEF IInv, Accounts

LEMMA DecodeStep ==
  ASSUME IInv, NEW h \in Handshakes, NEW i \in Issued, Decode(h, i)
  PROVE  IInv'
<1>1. i \in Ids
  BY TicketType DEF IInv
<1>2. TypeOK'
  BY <1>1 DEF IInv, TypeOK, Decode, At, serverVars, clientVars, Issued, Ids
<1>3. HeldIssued'
  BY DEF IInv, TypeOK, HeldIssued, Decode, At, clientVars, Issued
<1>4. ASSUME NEW g \in Handshakes, pc'[g] = "consumed"
      PROVE  pc[g] = "consumed" /\ held'[g] = held[g]
  BY <1>4 DEF IInv, TypeOK, Decode, At
<1>5. KeysPast' /\ Unopened' /\ Accounts'
  BY <1>2, <1>4, AccountsKept DEF IInv, TypeOK, Decode, serverVars, clientVars
<1> QED
  BY <1>2, <1>3, <1>5 DEF IInv

\* Consume: the one step that closes an account.  A good ticket's id is kept by
\* the log, so whoever finds it missing is the first.
LEMMA ConsumeStep ==
  ASSUME IInv, NEW h \in Handshakes, Consume(h)
  PROVE  IInv'
<1> DEFINE n == held[h]
<1>1. /\ pc[h] = "decoded" /\ n \in Issued
      /\ UNCHANGED <<now, restarts, secret, ephemeral, identities, sessions, tickets, held,
                    opened>>
      /\ seen' = Kept \cup {n} /\ Kept \subseteq seen
      /\ pc' = [pc EXCEPT ![h] = IF n \in Kept THEN "idle" ELSE "consumed"]
  BY DEF IInv, HeldIssued, Consume, At, serverVars, clientVars, Kept
<1>2. TypeOK'
  BY <1>1 DEF IInv, TypeOK, Issued, Ids
<1>3. HeldIssued' /\ KeysPast' /\ Unopened'
  BY <1>1 DEF IInv, TypeOK, HeldIssued, KeysPast, Unopened, Issued, Ids
<1>4. ASSUME NEW i \in Issued', Valid(tickets[i])'
      PROVE  Account(i)'
  <2>1. LogsLost' = LogsLost /\ LogsLost \in Nat
    BY <1>1, LostType DEF LogsLost, IInv
  <2>2. i \in Issued /\ Valid(tickets[i])
    BY <1>1, <1>4 DEF Issued, Valid
  <2>3. Account(i)
    BY <2>2 DEF IInv, Accounts
  <2>4. i \in seen => i \in Kept
    BY <2>2 DEF Kept, Valid
  <2>5. \A g \in Handshakes :
          Opening(g, i)' <=> Opening(g, i) \/ (g = h /\ i = n /\ n \notin Kept)
    BY <1>1 DEF IInv, TypeOK, Opening
  <2>6. CASE i = n /\ n \notin Kept
    BY <1>1, <2>1, <2>3, <2>4, <2>5, <2>6 DEF Account
  <2>7. CASE ~(i = n /\ n \notin Kept)
    BY <1>1, <2>1, <2>3, <2>4, <2>5, <2>7 DEF Account
  <2> QED
    BY <2>6, <2>7
<1> QED
  BY <1>2, <1>3, <1>4 DEF IInv, Accounts

\* Admit opens a socket for a ticket that its handshake alone has consumed.
LEMMA AdmitStep ==
  ASSUME IInv, NEW h \in Handshakes, Admit(h)
  PROVE  IInv'
<1> DEFINE n == held[h]
<1>1. /\ pc[h] = "consumed" /\ n \in Issued /\ n \in Ids
      /\ UNCHANGED <<now, restarts, secret, ephemeral, identities, sessions, tickets, seen,
                    held>>
      /\ pc' = [pc EXCEPT ![h] = "idle"]
  BY TicketType DEF IInv, HeldIssued, Admit, At, serverVars, clientVars
<1>2. \/ opened' = [opened EXCEPT ![n] = @ + 1]
      \/ opened' = opened
  BY DEF Admit
<1>3. TypeOK'
  <2>1. opened' \in [Ids -> Nat]
    BY <1>1, <1>2 DEF IInv, TypeOK, Ids
  <2> QED
    BY <1>1, <2>1 DEF IInv, TypeOK, Issued, Ids
<1>4. HeldIssued' /\ KeysPast'
  BY <1>1 DEF IInv, TypeOK, HeldIssued, KeysPast, Issued
<1>5. Unopened'
  <2>1. ASSUME NEW i \in Ids, i > Len(tickets)
        PROVE  opened'[i] = opened[i] /\ opened[i] = 0
    <3>1. n # i
      BY <1>1, <2>1 DEF IInv, TypeOK, Issued, Ids
    <3> QED
      BY <1>2, <2>1, <3>1 DEF IInv, TypeOK, Unopened
  <2> QED
    BY <1>1, <2>1 DEF Unopened, Ids
<1>6. ASSUME NEW i \in Issued', Valid(tickets[i])'
      PROVE  Account(i)'
  <2>1. LogsLost' = LogsLost /\ LogsLost \in Nat
    BY <1>1, LostType DEF LogsLost, IInv
  <2>2. i \in Issued /\ i \in Ids /\ Valid(tickets[i])
    BY <1>1, <1>6, TicketType DEF Issued, Valid, IInv
  <2>3. Account(i) /\ opened[i] \in Nat
    BY <2>2 DEF IInv, Accounts, TypeOK
  <2>4. \A g \in Handshakes : Opening(g, i)' <=> Opening(g, i) /\ g # h
    BY <1>1 DEF IInv, TypeOK, Opening
  <2>5. CASE i = n
    <3>1. Opening(h, i) /\ i \in seen
      BY <1>1, <2>3, <2>5 DEF Opening, Account
    <3>2. opened'[i] <= opened[i] + 1
      BY <1>2, <2>2, <2>3, <2>5 DEF IInv, TypeOK
    <3>3. opened'[i] \in Nat /\ opened[i] <= LogsLost
      BY <1>3, <2>2, <2>3, <3>1 DEF TypeOK, Account
    <3> QED
      BY <1>1, <2>1, <2>3, <2>4, <3>1, <3>2, <3>3 DEF Account
  <2>6. CASE i # n
    <3>1. opened'[i] = opened[i]
      BY <1>1, <1>2, <2>2, <2>6 DEF IInv, TypeOK
    <3> QED
      BY <1>1, <2>1, <2>3, <2>4, <3>1 DEF Account
  <2> QED
    BY <2>5, <2>6
<1> QED
  BY <1>3, <1>4, <1>5, <1>6 DEF IInv, Accounts

LEMMA TickStep == IInv /\ Tick => IInv'
<1> SUFFICES ASSUME IInv, Tick PROVE IInv'
  OBVIOUS
<1>1. TypeOK' /\ HeldIssued'
  BY DEF IInv, TypeOK, HeldIssued, Tick, serverVars, clientVars, Issued, Ids
<1>2. KeysPast' /\ Unopened' /\ Accounts'
  BY <1>1, AccountsKept DEF IInv, TypeOK, Tick, serverVars, clientVars
<1> QED
  BY <1>1, <1>2 DEF IInv

\* A restart loses the log: a secret of its own voids all tickets with it, one
\* from the environment leaves them one more socket each.
LEMMA RestartStep == IInv /\ Restart => IInv'
<1> SUFFICES ASSUME IInv, Restart PROVE IInv'
  OBVIOUS
<1>1. /\ restarts \in Nat /\ restarts' = restarts + 1 /\ seen' = {}
      /\ secret' = (IF ephemeral THEN secret + 1 ELSE secret)
      /\ pc' = [h \in Handshakes |-> "idle"]
      /\ UNCHANGED <<now, ephemeral, sessions, tickets, held, opened>>
  BY TicketsAssumption DEF IInv, TypeOK, Restart, clientVars
<1>2. TypeOK'
  BY <1>1, TicketsAssumption DEF IInv, TypeOK, Restart, Issued, Ids
<1>3. HeldIssued' /\ Unopened'
  BY <1>1 DEF IInv, HeldIssued, Unopened, Ids
<1>4. \A i \in Issued : tickets[i].key \in Nat /\ tickets[i].key <= secret
  BY TicketType DEF IInv, KeysPast
<1>5. KeysPast'
  BY <1>1, <1>4 DEF KeysPast, Issued, IInv, TypeOK
<1>6. ASSUME NEW i \in Issued', Valid(tickets[i])'
      PROVE  Account(i)'
  <2>1. i \in Issued /\ tickets[i].key = secret'
    BY <1>1, <1>6 DEF Issued, Valid
  <2>2. ~ephemeral /\ Valid(tickets[i])
    BY <1>1, <1>4, <1>6, <2>1, TicketsAssumption DEF Valid, IInv, TypeOK
  <2>3. LogsLost = restarts /\ LogsLost' = restarts + 1
    BY <1>1, <2>2 DEF LogsLost
  <2>4. opened[i] \in Nat /\ opened[i] <= 1 + restarts
    BY <2>1, <2>2, <2>3, TicketType DEF IInv, TypeOK, Accounts, Account
  <2> QED
    BY <1>1, <2>3, <2>4 DEF Account, Opening
<1> QED
  BY <1>2, <1>3, <1>5, <1>6 DEF IInv, Accounts

-----------------------------------------------------------------------------
(* The theorems *)

LEMMA TicketInit == Init => IInv
BY TicketsAssumption DEF Init, IInv, TypeOK, HeldIssued, KeysPast, Unopened,
                         Accounts, Issued, Ids, Token

LEMMA TicketNext == IInv /\ [Next]_vars => IInv'
<1> SUFFICES ASSUME IInv, [Next]_vars PROVE IInv'
  OBVIOUS
<1>1. ASSUME UNCHANGED vars PROVE IInv'
  BY <1>1 DEF vars, serverVars, clientVars, IInv, TypeOK, HeldIssued, KeysPast,
              Unopened, Accounts, Account, Opening, Issued, LogsLost, Valid
<1> QED
  BY <1>1, SessionStep, TicketStep, DecodeStep, ConsumeStep, AdmitStep, TickStep,
     RestartStep DEF Next

LEMMA TicketInvariant == Spec => []IInv
BY TicketInit, TicketNext, PTL DEF Spec

\* Every variable keeps its type: the log holds only ids that were issued, and
\* no ticket number or restart goes beyond its bound.
THEOREM TicketsTypeCorrect == Spec => []TypeOK
<1>1. IInv => TypeOK
  BY DEF IInv
<1> QED
  BY <1>1, TicketInvariant, PTL

\* A ticket that is still good has opened at most one socket for each log of
\* used ids: consume in auth/tickets.py drops no id that still matters, and
\* two handshakes with one ticket cannot both find it missing.
THEOREM OnePerLog == Spec => []OnceWhileValid
<1>1. IInv => OnceWhileValid
  BY DEF IInv, Accounts, Account, OnceWhileValid
<1> QED
  BY <1>1, TicketInvariant, PTL

\* With a secret made at start-up ("Remembers consumed ticket ids until they
\* would have expired anyway", _NonceLog) a good ticket opens one socket only,
\* through any number of restarts.
THEOREM OneWhileValid ==
  Spec => [](ephemeral => \A i \in Issued : Valid(tickets[i]) => opened[i] <= 1)
<1>1. IInv => (ephemeral => \A i \in Issued : Valid(tickets[i]) => opened[i] <= 1)
  BY TicketType DEF IInv, Accounts, Account, LogsLost, TypeOK
<1> QED
  BY <1>1, TicketInvariant, PTL

=============================================================================
