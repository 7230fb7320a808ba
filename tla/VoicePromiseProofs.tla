------------------------- MODULE VoicePromiseProofs -------------------------
(***************************************************************************)
(* The voice server implements Membership: read through the room that the  *)
(* manager would return, every step of every thread is one abstract step   *)
(* or none.  The invariant of VoiceServerProofs supplies what the mapping  *)
(* needs: who may hold the owner role, and that a room not yet registered  *)
(* is blank.                                                               *)
(***************************************************************************)
EXTENDS VoiceServerProofs

Same(r, s) ==
  /\ \A u \in Users : s.parts[u].conn = r.parts[u].conn
  /\ s.cooldown = r.cooldown /\ s.locked = r.locked

LEMMA Stutter ==
  ASSUME current' = current, Resetting' = Resetting,
         Same(rooms[current], rooms'[current])
  PROVE  Promise!Next
  BY DEF Same, Promise!Next, Promise!Intend, Leaving

\* A thread that stays on, or off, the way to a reset.
LEMMA ResettingSame ==
  ASSUME TypeOK, NEW t \in Threads, NEW l, pc' = [pc EXCEPT ![t] = l],
         pc[t] \in OnReset <=> l \in OnReset
  PROVE  Resetting' = Resetting
<1>1. \A c \in Conns : pc'[c] \in OnReset <=> pc[c] \in OnReset
  BY ConnThread DEF TypeOK
<1> QED  BY <1>1 DEF Resetting, OnReset

LeavePath == {"leave", "drop"}

\* A thread that is not leaving, and will not be, leaves that as it is.
LEMMA LeavingSame ==
  ASSUME TypeOK, NEW t \in Threads, NEW l, pc' = [pc EXCEPT ![t] = l],
         pc[t] \notin LeavePath, l \notin LeavePath, reaping' = reaping
  PROVE  Leaving' = Leaving
<1>1. \A x \in Threads :
        /\ pc'[x] \in LeavePath <=> pc[x] \in LeavePath
        /\ Subject(x)' = Subject(x)
  BY DEF TypeOK, Subject
<1> QED  BY <1>1 DEF Leaving, LeavePath

\* A section of t on room g of a thread not on the way to a reset.
LEMMA SectionElsewhere ==
  ASSUME TypeOK, NEW t \in Threads, NEW l, pc' = [pc EXCEPT ![t] = l],
         pc[t] \notin OnReset, l \notin OnReset, current' = current,
         NEW g \in Gens, NEW s, rooms' = [rooms EXCEPT ![g] = s],
         g # current \/ Same(rooms[g], s)
  PROVE  Promise!Next
<1>1. Resetting' = Resetting
  BY ResettingSame
<1>2. Same(rooms[current], rooms'[current])
  BY DEF TypeOK, Same
<1> QED  BY <1>1, <1>2, Stutter

LEMMA RoomsAlone ==
  ASSUME TypeOK, NEW t \in Threads, NEW l, pc' = [pc EXCEPT ![t] = l],
         pc[t] \in OnReset <=> l \in OnReset, UNCHANGED roomVars
  PROVE  Promise!Next
  BY ResettingSame, Stutter DEF Same, roomVars

-----------------------------------------------------------------------------
(* The abstract state of a room *)

LEMMA View ==
  ASSUME Inv
  PROVE  /\ current \in Gens /\ rooms[current] \in Room /\ RoomOK(rooms[current])
         /\ Promise!Inside = Members(rooms[current])
         /\ Cardinality(Members(rooms[current])) \in Nat
<1>1. current \in Gens /\ rooms[current] \in Room /\ RoomOK(rooms[current])
  BY DEF Inv, TypeOK, RoomsInv
<1>2. Promise!Inside = Members(rooms[current])
  BY DEF Promise!Inside, Members, Inside
<1>3. Cardinality(Members(rooms[current])) \in Nat
  BY FS_Subset, FS_CardinalityType, RoomAssumption DEF Members
<1> QED  BY <1>1, <1>2, <1>3

\* Whoever has the owner role may own the room.
LEMMA OwnersMayOwn ==
  ASSUME NEW r \in Room, RoomOK(r), NEW u \in Users, IsOwner(r, u)
  PROVE  Promise!MayOwn(u)
  BY RoomAssumption DEF IsOwner, RoomOK, OwnerOK, Members, Promise!MayOwn

\* The instance has a Cardinality of its own, with the same definition.
LEMMA SameCardinality == \A S : Promise!Cardinality(S) = Cardinality(S)
  BY DEF Cardinality, Promise!Cardinality

-----------------------------------------------------------------------------
(* Step by step *)

LEMMA JoinSimulates ==
  ASSUME Inv, NEW c \in Conns, JoinAdmitted(c)
  PROVE  [Promise!Next]_(Promise!vars)
<1> DEFINE r == rooms[current]
           u == UserOf[c]
<1>0. /\ c \in Threads /\ u \in Users /\ pc[c] = "join" /\ TypeOK /\ current' = current
      /\ reaping' = reaping /\ room[c] \in Gens /\ rooms[room[c]] \in Room
  BY ConnThread, RoomRef DEF Inv, JoinAdmitted, WithRoom, sweepVars
<1>1. PICK l \in {"welcome", "joinRetire"} : pc' = [pc EXCEPT ![c] = l]
  BY DEF JoinAdmitted, Go
<1>2. Admissible(rooms[room[c]], u)
      /\ rooms' = [rooms EXCEPT ![room[c]] = Join(rooms[room[c]], u, c)]
  BY DEF JoinAdmitted, Update
<1>3. CASE room[c] # current
  <2>1. Promise!Next
    BY <1>0, <1>1, <1>2, <1>3, SectionElsewhere DEF OnReset
  <2> QED  BY <2>1
<1>4. CASE room[c] = current
  <2>1. Resetting' = Resetting /\ Leaving' = Leaving
    BY <1>0, <1>1, ResettingSame, LeavingSame DEF OnReset, LeavePath
  <2>2. rooms'[current] = Join(r, u, c)
    BY <1>0, <1>2, <1>4 DEF TypeOK
  <2>3. \A v \in Users :
          Join(r, u, c).parts[v].conn = IF v = u THEN c ELSE r.parts[v].conn
    <3>1. r \in Room /\ Join(r, u, c).parts[u].conn = c
      BY <1>0, <1>4, JoinFields
    <3>2. ASSUME NEW v \in Users, v # u
          PROVE  Join(r, u, c).parts[v] = r.parts[v]
      BY <1>0, <3>1, <3>2, JoinOthers
    <3> QED  BY <3>1, <3>2
  <2>4. Join(r, u, c).cooldown = r.cooldown /\ Join(r, u, c).locked = r.locked
    BY <1>0, <1>4 DEF Join, Room
  <2>5. u \notin r.cooldown /\ (Inside(r, u) \/ (~r.locked /\ ~IsFull(r)))
    BY <1>2, <1>4 DEF Admissible
  <2>6. CASE Inside(r, u)
    <3>1. u \in Promise!Inside
      BY <1>0, <2>6, View DEF Members
    <3>2. Promise!TakeOver(c)
      BY <1>0, <2>1, <2>2, <2>3, <2>4, <2>5, <3>1 DEF Promise!TakeOver
    <3> QED  BY <3>2 DEF Promise!Next
  <2>7. CASE ~Inside(r, u)
    <3>1. u \notin Promise!Inside
      BY <2>7, View DEF Members
    <3>2. Promise!Cardinality(Promise!Inside) < MaxParticipants
      BY <2>5, <2>7, View, SameCardinality, RoomAssumption DEF IsFull
    <3>3. Promise!Enter(c)
      BY <1>0, <2>1, <2>2, <2>3, <2>4, <2>5, <2>7, <3>1, <3>2 DEF Promise!Enter
    <3> QED  BY <3>3 DEF Promise!Next
  <2> QED  BY <2>6, <2>7
<1> QED  BY <1>3, <1>4

\* LEAVE_ROOM and cleanup: only the socket that serves the place gives it up.
LEMMA RemoveSimulates ==
  ASSUME Inv, NEW t \in Threads, pc[t] \in WithRoom, pc[t] \in LeavePath,
         NEW l, l \notin LeavePath \cup OnReset, pc' = [pc EXCEPT ![t] = l],
         UNCHANGED <<current, reaping>>, NEW c \in Conns, c = Subject(t), Holds(rooms[room[t]], c),
         Update(t, Remove(rooms[room[t]], UserOf[c]))
  PROVE  [Promise!Next]_(Promise!vars)
<1> DEFINE r == rooms[current]
           u == UserOf[c]
<1>0. /\ u \in Users /\ TypeOK /\ room[t] \in Gens
      /\ rooms' = [rooms EXCEPT ![room[t]] = Remove(rooms[room[t]], u)]
  BY ConnThread, RoomRef DEF Inv, Update
<1>a. pc[t] \notin OnReset
  BY DEF LeavePath, OnReset
<1>1. CASE room[t] # current
  <2>1. Promise!Next
    BY <1>0, <1>a, <1>1, SectionElsewhere
  <2> QED  BY <2>1
<1>2. CASE room[t] = current
  <2>1. Resetting' = Resetting
    BY <1>0, <1>a, ResettingSame
  <2>a. c \in Leaving /\ Leaving' \in {Leaving, Leaving \ {c}}
    <3>1. /\ \A x \in Threads \ {t} : pc'[x] = pc[x]
          /\ \A x \in Threads : Subject(x)' = Subject(x)
          /\ pc'[t] \notin LeavePath
      BY <1>0 DEF TypeOK, Subject
    <3>2. \A d \in Conns \ {c} : d \in Leaving' <=> d \in Leaving
      BY <3>1 DEF Leaving, LeavePath
    <3>3. c \in Leaving
      BY DEF Leaving, LeavePath
    <3>4. Leaving \subseteq Conns /\ Leaving' \subseteq Conns
      BY DEF Leaving
    <3> QED  BY <3>2, <3>3, <3>4
  <2>2. rooms'[current] = Remove(r, u)
    BY <1>0, <1>2 DEF TypeOK
  <2>3. \A v \in Users :
          Remove(r, u).parts[v].conn = IF v = u THEN NoConn ELSE r.parts[v].conn
    BY <1>0, View DEF Remove, Room, Absent
  <2>4. Remove(r, u).cooldown = r.cooldown /\ Remove(r, u).locked = r.locked
    BY View DEF Remove, Room
  <2>5. Promise!Leave(c)
    BY <1>0, <1>2, <2>1, <2>a, <2>2, <2>3, <2>4 DEF Promise!Leave, Holds
  <2> QED  BY <2>5 DEF Promise!Next
<1> QED  BY <1>1, <1>2

LEMMA FlagsSimulate ==
  ASSUME Inv, NEW c \in Conns, Mute(c) \/ Speak(c) \/ ModerateParticipant(c)
  PROVE  Promise!Next
<1> DEFINE g == room[c]
           r == rooms[g]
           u == UserOf[c]
<1>0. /\ c \in Threads /\ u \in Users /\ TypeOK /\ g \in Gens /\ r \in Room
      /\ pc[c] \in {"mute", "speak", "moderate"}
  BY ConnThread, RoomRef DEF Inv, Mute, Speak, ModerateParticipant, WithRoom
<1>1. pc' = [pc EXCEPT ![c] = "cast"] /\ current' = current
  BY DEF Mute, Speak, ModerateParticipant, Changed, Go
<1>2. \E s : Same(r, s) /\ rooms' = [rooms EXCEPT ![g] = s]
  <2>1. CASE Mute(c) \/ Speak(c)
    <3>1. \A b \in BOOLEAN : Same(r, SetMuted(r, u, b)) /\ Same(r, SetSpeaking(r, u, b))
      BY <1>0 DEF Same, SetMuted, SetSpeaking, Room, Participant
    <3> QED  BY <2>1, <3>1 DEF Mute, Speak, Changed, Update
  <2>2. CASE ModerateParticipant(c)
    <3>1. \A x \in Users, a \in {"mute", "allow", "restrict"} : Same(r, Moderate(r, x, a))
      BY <1>0 DEF Same, Moderate, Room, Participant
    <3>2. ModerationAction \ {"kick"} = {"mute", "allow", "restrict"}
      BY DEF ModerationAction
    <3> QED  BY <2>2, <3>1, <3>2 DEF ModerateParticipant, Changed, Update
  <2> QED  BY <2>1, <2>2
<1> QED  BY <1>0, <1>1, <1>2, SectionElsewhere DEF OnReset

LEMMA LockSimulates ==
  ASSUME Inv, NEW c \in Conns, ModerateLock(c)
  PROVE  [Promise!Next]_(Promise!vars)
<1> DEFINE g == room[c]
           u == UserOf[c]
<1>0. /\ c \in Threads /\ u \in Users /\ TypeOK /\ g \in Gens /\ rooms[g] \in Room
      /\ pc[c] = "moderate" /\ reaping' = reaping
  BY ConnThread, RoomRef DEF Inv, ModerateLock, Changed, WithRoom, sweepVars
<1>1. pc' = [pc EXCEPT ![c] = "cast"] /\ current' = current /\ IsOwner(rooms[g], u)
  BY DEF ModerateLock, Changed, Go
<1>2. PICK b \in BOOLEAN : rooms' = [rooms EXCEPT ![g] = SetLocked(rooms[g], b)]
  BY DEF ModerateLock, Changed, Update
<1>3. CASE g # current
  BY <1>0, <1>1, <1>2, <1>3, SectionElsewhere DEF OnReset
<1>4. CASE g = current
  <2>1. Resetting' = Resetting /\ Leaving' = Leaving
    BY <1>0, <1>1, ResettingSame, LeavingSame DEF OnReset, LeavePath
  <2>2. rooms'[current] = SetLocked(rooms[current], b)
    BY <1>0, <1>2, <1>4 DEF TypeOK
  <2>3. rooms'[current].parts = rooms[current].parts
        /\ rooms'[current].cooldown = rooms[current].cooldown
        /\ rooms'[current].locked = b
    BY <1>0, <1>4, <2>2 DEF SetLocked, Room
  <2>4. u \in Promise!Inside /\ Promise!MayOwn(u)
    BY <1>0, <1>1, <1>4, View, OwnersMayOwn DEF IsOwner, Members
  <2>5. Promise!SetLock(u)
    BY <1>1, <2>1, <2>3, <2>4 DEF Promise!SetLock
  <2> QED  BY <1>0, <2>5 DEF Promise!Next
<1> QED  BY <1>3, <1>4

LEMMA KickSimulates ==
  ASSUME Inv, NEW c \in Conns, Kick(c)
  PROVE  [Promise!Next]_(Promise!vars)
<1> DEFINE g == room[c]
           r == rooms[g]
           u == UserOf[c]
<1>0. /\ c \in Threads /\ u \in Users /\ TypeOK /\ g \in Gens /\ r \in Room
      /\ pc[c] = "moderate" /\ RoomOK(r) /\ reaping' = reaping
  BY ConnThread, RoomRef DEF Inv, Kick, WithRoom, RoomsInv, sweepVars
<1>1. pc' = [pc EXCEPT ![c] = "kickRetire"] /\ current' = current
  BY DEF Kick, Go
<1>2. PICK x \in Users : MayModerate(r, u, x)
                         /\ rooms' = [rooms EXCEPT ![g] = Moderate(r, x, "kick")]
  BY DEF Kick, Update
<1>3. CASE g # current
  BY <1>0, <1>1, <1>2, <1>3, SectionElsewhere DEF OnReset
<1>4. CASE g = current
  <2> DEFINE s == Moderate(r, x, "kick")
  <2>1. Resetting' = Resetting /\ Leaving' = Leaving
    BY <1>0, <1>1, ResettingSame, LeavingSame DEF OnReset, LeavePath
  <2>2. rooms'[current] = s
    BY <1>0, <1>2, <1>4 DEF TypeOK
  <2>3. /\ \A v \in Users : s.parts[v].conn = IF v = x THEN NoConn ELSE r.parts[v].conn
        /\ s.cooldown = r.cooldown \cup {x} /\ s.locked = r.locked
    BY <1>0 DEF Moderate, Remove, Room, Absent
  <2>4. x \in Members(r) \ OwnerIds /\ u \in Members(r) /\ u # x
    BY <1>0, <1>2 DEF MayModerate, Members, RoomOK, OwnerOK
  <2>5. x \in Promise!Inside \ OwnerIds /\ Promise!Inside \ {x} # {}
    BY <1>4, <2>4, View
  <2>6. Promise!Expel(x)
    BY <1>1, <1>4, <2>1, <2>2, <2>3, <2>5 DEF Promise!Expel
  <2> QED  BY <2>6 DEF Promise!Next
<1> QED  BY <1>3, <1>4

LEMMA EndSimulates ==
  ASSUME Inv, NEW c \in Conns, EndLock(c)
  PROVE  [Promise!Next]_(Promise!vars)
<1> DEFINE g == room[c]
           u == UserOf[c]
<1>0. /\ c \in Threads /\ u \in Users /\ TypeOK /\ g \in Gens /\ rooms[g] \in Room
      /\ pc[c] = "end" /\ RoomOK(rooms[g]) /\ reaping' = reaping
  BY ConnThread, RoomRef DEF Inv, EndLock, WithRoom, RoomsInv, sweepVars
<1>1. /\ pc' = [pc EXCEPT ![c] = "endRetire"] /\ current' = current
      /\ IsOwner(rooms[g], u) /\ rooms' = [rooms EXCEPT ![g] = EndRoom(rooms[g])]
  BY DEF EndLock, Go, Update
<1>2. Resetting' = Resetting \cup {c}
  BY <1>0, <1>1, ConnThread DEF Resetting, TypeOK
<1>3. Leaving' = Leaving
  BY <1>0, <1>1, LeavingSame DEF LeavePath
<1>4. Same(rooms[current], rooms'[current])
  BY <1>0, <1>1 DEF Same, EndRoom, Room, TypeOK
<1>5. Promise!MayOwn(u)
  BY <1>0, <1>1, OwnersMayOwn
<1>6. Promise!End(c)
  BY <1>1, <1>2, <1>3, <1>4, <1>5 DEF Promise!End, Same
<1> QED  BY <1>0, <1>6 DEF Promise!Next

LEMMA ResetSimulates ==
  ASSUME Inv, [Next]_vars, NEW c \in Conns, Reset(c)
  PROVE  [Promise!Next]_(Promise!vars)
<1>1. /\ pc[c] = "endReset" /\ current' = current + 1 /\ rooms' = rooms
      /\ \E l \in {"pop", "read"} : pc' = [pc EXCEPT ![c] = l]
      /\ reaping' = reaping
  BY DEF Reset, Resume, Go, sweepVars
<1>2. c \in Resetting /\ Resetting' = Resetting \ {c}
  BY <1>1, ConnThread DEF Resetting, Inv, TypeOK
<1>3. Leaving' = Leaving
  BY <1>1, ConnThread, LeavingSame DEF LeavePath, Inv
<1>5. current' \in Gens /\ current' > current /\ rooms[current'] = NewRoom
  BY <1>1, BudgetKept DEF Inv, TypeOK, FutureBlank, Gens
<1>6. Promise!Wipe(c)
  BY <1>1, <1>2, <1>3, <1>5 DEF Promise!Wipe, NewRoom, Absent
<1> QED  BY <1>6 DEF Promise!Next

LEMMA PardonSimulates ==
  ASSUME Inv, NEW u \in Users, CooldownOver(u)
  PROVE  [Promise!Next]_(Promise!vars)
<1>1. PICK g \in Gens : /\ u \in rooms[g].cooldown
                        /\ rooms' = [rooms EXCEPT ![g] = ExpireCooldown(@, u)]
  BY DEF CooldownOver
<1>2. current' = current /\ Resetting' = Resetting /\ Leaving' = Leaving
  BY DEF CooldownOver, Resetting, Leaving, Subject, sweepVars
<1>3. CASE g # current
  BY <1>1, <1>2, <1>3, Stutter DEF Same, Inv, TypeOK
<1>4. CASE g = current
  <2>1. rooms'[current] = ExpireCooldown(rooms[current], u)
    BY <1>1, <1>4 DEF Inv, TypeOK
  <2>2. /\ rooms'[current].parts = rooms[current].parts
        /\ rooms'[current].locked = rooms[current].locked
        /\ rooms'[current].cooldown = rooms[current].cooldown \ {u}
    BY <2>1, View DEF ExpireCooldown, Room
  <2>3. Promise!Pardon(u)
    BY <1>1, <1>2, <1>4, <2>2 DEF Promise!Pardon
  <2> QED  BY <2>3 DEF Promise!Next
<1> QED  BY <1>3, <1>4

LEMMA HandlerSimulates ==
  ASSUME Inv, [Next]_vars, NEW c \in Conns, Handler(c)
  PROVE  [Promise!Next]_(Promise!vars)
<1>0. c \in Threads /\ TypeOK
  BY ConnThread DEF Inv
<1>1. CASE JoinReturns(c) \/ Refused(c) \/ Cast(c) \/ Welcome(c)
  <2>1. \E l \in {"pop", "read", "cast"} : pc' = [pc EXCEPT ![c] = l]
    BY <1>1 DEF JoinReturns, Refused, Cast, Welcome, Resume, Go
  <2>2. pc[c] \notin OnReset /\ UNCHANGED roomVars
    BY <1>1 DEF JoinReturns, Refused, Cast, Welcome, OnReset
  <2> QED  BY <1>0, <2>1, <2>2, RoomsAlone DEF OnReset
<1>2. CASE LeaveLock(c)
  <2>1. pc[c] = "leave" /\ current' = current
    BY <1>2 DEF LeaveLock
  <2>2. PICK l \in {"pop", "read", "cast"} : pc' = [pc EXCEPT ![c] = l]
    BY <1>2 DEF LeaveLock, Resume, Go
  <2>3. CASE Holds(rooms[room[c]], c)
    <3>1. c = Subject(c) /\ reaping' = reaping
      BY <1>2, ConnThread DEF LeaveLock, Subject, sweepVars
    <3>2. Update(c, Remove(rooms[room[c]], UserOf[c]))
      BY <1>2, <2>3 DEF LeaveLock
    <3> QED  BY <1>0, <2>1, <2>2, <2>3, <3>1, <3>2, RemoveSimulates
               DEF WithRoom, OnReset, LeavePath
  <2>4. CASE ~Holds(rooms[room[c]], c)
    BY <1>0, <1>2, <2>1, <2>2, <2>4, RoomsAlone DEF LeaveLock, OnReset, roomVars
  <2> QED  BY <2>3, <2>4
<1>3. CASE \/ Retire(c, "joinRetire", "joinClose") \/ Close(c, "joinClose", "welcome")
           \/ Retire(c, "kickRetire", "kickClose") \/ Close(c, "kickClose", "cast")
           \/ Retire(c, "endRetire", "endClose") \/ Close(c, "endClose", "endReset")
  <2>1. \E l : pc' = [pc EXCEPT ![c] = l] /\ (pc[c] \in OnReset <=> l \in OnReset)
    BY <1>3 DEF Retire, Close, Go, OnReset
  <2>2. UNCHANGED roomVars
    BY <1>3 DEF Retire, Close
  <2> QED  BY <1>0, <2>1, <2>2, RoomsAlone
<1> QED
  BY <1>1, <1>2, <1>3, JoinSimulates, FlagsSimulate, LockSimulates, KickSimulates,
     EndSimulates, ResetSimulates DEF Handler

LEMMA CleanupSimulates ==
  ASSUME Inv, NEW t \in Threads, Cleanup(t)
  PROVE  [Promise!Next]_(Promise!vars)
<1>0. TypeOK
  BY DEF Inv
<1>1. CASE CleanLock(t)
  <2>1. pc[t] = "drop" /\ current' = current /\ Subject(t) \in Conns
    BY <1>1, SubjectType DEF CleanLock, Inv, InCleanup
  <2>2. PICK l \in {"castLeft", "free"} : pc' = [pc EXCEPT ![t] = l]
    BY <1>1 DEF CleanLock, Go
  <2>3. CASE Holds(rooms[room[t]], Subject(t))
    BY <1>1, <2>1, <2>2, <2>3, RemoveSimulates
       DEF CleanLock, WithRoom, OnReset, LeavePath, sweepVars
  <2>4. CASE ~Holds(rooms[room[t]], Subject(t))
    BY <1>0, <1>1, <2>1, <2>2, <2>4, RoomsAlone DEF CleanLock, OnReset, roomVars
  <2> QED  BY <2>3, <2>4
<1>2. CASE Pop(t) \/ CleanBegin(t) \/ CleanCast(t) \/ CleanEnd(t)
  <2>1. pc[t] \notin OnReset /\ UNCHANGED roomVars
    BY <1>2 DEF Pop, CleanBegin, LeaveBegin, CleanCast, CleanEnd, OnReset
  <2>2. \E l \in {"get", "drop", "free", "scan", "done"} : pc' = [pc EXCEPT ![t] = l]
    BY <1>2 DEF Pop, CleanBegin, LeaveBegin, CleanCast, CleanEnd, Go
  <2> QED  BY <1>0, <2>1, <2>2, RoomsAlone DEF OnReset
<1> QED  BY <1>1, <1>2 DEF Cleanup

LEMMA StepSimulates ==
  ASSUME Inv, [Next]_vars
  PROVE  [Promise!Next]_(Promise!vars)
<1>0. TypeOK
  BY DEF Inv
<1>1. CASE UNCHANGED vars
  <2>1. UNCHANGED <<rooms, current, pc>>
    BY <1>1 DEF vars, roomVars
  <2> QED  BY <2>1, Stutter DEF Same, Resetting
<1>2. ASSUME NEW c \in Conns, PeerGone(c)
      PROVE  Promise!Next
  <2>1. UNCHANGED <<rooms, current, pc>>
    BY <1>2 DEF PeerGone, roomVars
  <2> QED  BY <2>1, Stutter DEF Same, Resetting
<1>3. ASSUME NEW c \in Conns, Acquire(c) \/ Register(c) \/ Frame(c) \/ ReadExit(c)
      PROVE  Promise!Next
  <2>1. c \in Threads /\ pc[c] \notin OnReset /\ UNCHANGED roomVars
    BY <1>3, ConnThread DEF Acquire, Register, Frame, JoinLookup, Leave, LeaveBegin, End,
           Handle, Receive, ReadExit, OnReset
  <2>2. \E l \in {"opened", "done", "read", "pop", "join", "leave", "end", "mute", "speak",
                  "moderate"} : pc' = [pc EXCEPT ![c] = l]
    BY <1>3 DEF Acquire, Register, Frame, JoinLookup, Leave, LeaveBegin, End, Handle,
           ReadExit, Go
  <2> QED  BY <1>0, <2>1, <2>2, RoomsAlone DEF OnReset
<1>4. CASE Sweep
  <2>1. \A c \in Conns : pc'[c] = pc[c]
    BY <1>0, <1>4, ConnThread DEF Sweep, SweepStart, SweepEnd, SweepSkip, SweepReap, Go,
           TypeOK, Threads
  <2>2. UNCHANGED roomVars /\ Resetting' = Resetting
    BY <1>4, <2>1 DEF Sweep, SweepStart, SweepEnd, SweepSkip, SweepReap, Resetting
  <2> QED  BY <2>2, Stutter DEF Same, roomVars
<1> QED
  BY <1>1, <1>2, <1>3, <1>4, HandlerSimulates, CleanupSimulates, PardonSimulates DEF Next

LEMMA InitSimulates == Init => Promise!Init
<1> SUFFICES ASSUME Init PROVE Promise!Init
  OBVIOUS
<1>1. Resetting = {} /\ Leaving = {}
  BY ConnThread DEF Init, Resetting, Leaving
<1>2. rooms[current] = NewRoom
  BY ServerAssumption DEF Init, Gens
<1> QED  BY <1>1, <1>2 DEF Promise!Init, NewRoom, Absent

\* For any users, sockets, roles and capacity, the interleaved threads implement
\* the abstract membership: no displaced or torn-down socket ever takes the
\* place of another one, and nobody but an owner's END_ROOM wipes the room.
THEOREM ImplementsMembership == Spec => KeepsMembership
<1>1. Inv /\ [Next]_vars => [Promise!Next]_(Promise!vars)
  BY StepSimulates
<1> QED  BY InitSimulates, InvInvariant, <1>1, PTL DEF Spec, KeepsMembership, Promise!Spec

=============================================================================
