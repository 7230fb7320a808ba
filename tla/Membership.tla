----------------------------- MODULE Membership -----------------------------
(***************************************************************************)
(* What the voice server promises about the places in its room: who holds  *)
(* one, who may take it, and who may take it away.  Nothing here knows of  *)
(* threads, locks, Room objects or generations; a place is taken and given *)
(* up in one step.  VoiceServer is shown to implement this.                *)
(***************************************************************************)
EXTENDS Naturals, FiniteSets

CONSTANTS
  Users, Conns, UserOf, NoConn,
  OwnerIds,          \* the configured owners
  DevMode,           \* anybody may come to own the room
  MaxParticipants

VARIABLES
  holder,    \* the connection that serves each user's place, NoConn if none
  banned,    \* users who may not come in for a while
  locked,    \* nobody new may come in
  ending,    \* sockets that have ended the room, which is not wiped yet
  leaving    \* sockets that want out, or that are being torn down

vars == <<holder, banned, locked, ending, leaving>>

Inside == {u \in Users : holder[u] # NoConn}

MayOwn(u) == u \in OwnerIds \/ DevMode

Init ==
  /\ holder = [u \in Users |-> NoConn]
  /\ banned = {}
  /\ locked = FALSE
  /\ ending = {} /\ leaving = {}

\* Who wants out is up to the sockets.
Intend ==
  /\ leaving' \in SUBSET Conns
  /\ UNCHANGED <<holder, banned, locked, ending>>

\* A free place goes to a user who is not inside.
Enter(c) ==
  /\ UserOf[c] \notin Inside \cup banned
  /\ ~locked
  /\ Cardinality(Inside) < MaxParticipants
  /\ holder' = [holder EXCEPT ![UserOf[c]] = c]
  /\ UNCHANGED <<banned, locked, ending, leaving>>

\* A user who is inside moves on to another socket of his own, or comes back
\* on the same one; no capacity and no lock stands in the way.
TakeOver(c) ==
  /\ UserOf[c] \in Inside \ banned
  /\ holder' = [holder EXCEPT ![UserOf[c]] = c]
  /\ UNCHANGED <<banned, locked, ending, leaving>>

\* Only the socket that serves a place gives it up; it may want to once more,
\* having been told to by two.
Leave(c) ==
  /\ c \in leaving /\ holder[UserOf[c]] = c
  /\ holder' = [holder EXCEPT ![UserOf[c]] = NoConn]
  /\ leaving' \in {leaving, leaving \ {c}}
  /\ UNCHANGED <<banned, locked, ending>>

\* Somebody inside expels somebody else, never a configured owner.
Expel(u) ==
  /\ u \in Inside \ OwnerIds
  /\ Inside \ {u} # {}
  /\ holder' = [holder EXCEPT ![u] = NoConn]
  /\ banned' = banned \cup {u}
  /\ UNCHANGED <<locked, ending, leaving>>

Pardon(u) ==
  /\ u \in banned
  /\ banned' = banned \ {u}
  /\ UNCHANGED <<holder, locked, ending, leaving>>

SetLock(u) ==
  /\ u \in Inside /\ MayOwn(u)
  /\ locked' \in BOOLEAN
  /\ UNCHANGED <<holder, banned, ending, leaving>>

\* A socket of somebody who may own the room ends it; the room is wiped once
\* for every end.
End(c) ==
  /\ MayOwn(UserOf[c])
  /\ ending' = ending \cup {c}
  /\ UNCHANGED <<holder, banned, locked, leaving>>

Wipe(c) ==
  /\ c \in ending
  /\ ending' = ending \ {c}
  /\ holder' = [u \in Users |-> NoConn]
  /\ banned' = {}
  /\ locked' = FALSE
  /\ UNCHANGED leaving

Next ==
  \/ Intend
  \/ \E c \in Conns : Enter(c) \/ TakeOver(c) \/ Leave(c) \/ End(c) \/ Wipe(c)
  \/ \E u \in Users : Expel(u) \/ Pardon(u) \/ SetLock(u)

Spec == Init /\ [][Next]_vars

=============================================================================
