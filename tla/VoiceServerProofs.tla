------------------------- MODULE VoiceServerProofs -------------------------
(***************************************************************************)
(* Safety of the voice server for any users, connections, roles, caps and  *)
(* numbers of room generations.                                            *)
(*                                                                         *)
(* The inductive invariant says, beside the types, where each thread may be *)
(* with what in its local variables (Control), that every room the server  *)
(* ever made obeys the rules of VoiceRoomProofs (RoomsInv), and, for each  *)
(* stage of a connection's life, from which generations on its thread has  *)
(* left the rooms for good (Gone).                                         *)
(***************************************************************************)
EXTENDS VoiceServer, VoiceRoomProofs

WithRoom == {"join", "joinRetire", "joinClose", "welcome", "leave", "mute",
             "speak", "moderate", "kickRetire", "kickClose", "end",
             "endRetire", "endClose", "endReset", "cast", "drop", "castLeft"}

Ending == {c \in Conns : pc[c] \in InEnd}

Control ==
  /\ \A c \in Conns : pc[c] \notin {"idle", "scan"}
  /\ pc[Reaper] \in InCleanup \cup {"idle", "scan"}
  /\ pc[Reaper] \in InCleanup => reaping \in Conns
  /\ \A t \in Threads : room[t] <= current
  /\ \A t \in Threads : pc[t] \in WithRoom => room[t] \in Gens

\* Every thread on its way to a reset still has a generation to create.
Budget == current + Cardinality(Ending) <= MaxRooms

RoomsInv == \A g \in Gens : RoomOK(rooms[g])

\* A connection that has not been served yet is in no room; one whose thread
\* is leaving for good is in no later room than the one it fetched, and after
\* that in no room from the current one on.
Gone ==
  \A c \in Conns, g \in Gens :
    (\/ pc[c] \in {"new", "opened"}
     \/ pc[c] = "drop" /\ g > room[c]
     \/ pc[c] \in {"castLeft", "free", "done"} /\ g >= current)
      => ~Holds(rooms[g], c)

Inv == TypeOK /\ Control /\ Budget /\ RoomsInv /\ FutureBlank /\ Gone

-----------------------------------------------------------------------------
(* Locals *)

LEMMA SubjectType ==
  ASSUME TypeOK, Control, NEW t \in Threads, pc[t] \in InCleanup
  PROVE  Subject(t) \in Conns
  BY DEF Subject, Threads, Control

LEMMA RoomRef ==
  ASSUME TypeOK, Control, NEW t \in Threads, pc[t] \in WithRoom
  PROVE  /\ room[t] \in Gens /\ room[t] <= current
         /\ rooms[room[t]] \in Room
  BY DEF TypeOK, Control

-----------------------------------------------------------------------------
(* What a step does to the rooms *)

\* The section of a thread at work on generation g made room s of it: a sound
\* room, which holds nobody new but a connection that was joining.
Section(g, s) ==
  /\ g \in Gens /\ g <= current
  /\ rooms' = [rooms EXCEPT ![g] = s]
  /\ s \in Room /\ RoomOK(s)
  /\ \A d \in Conns : Holds(s, d) => Holds(rooms[g], d) \/ pc[d] = "join"

LEMMA HoldsSame ==
  ASSUME NEW r \in Room, NEW s \in Room,
         \A v \in Users : s.parts[v].conn \in {r.parts[v].conn, NoConn}
  PROVE  \A d \in Conns : Holds(s, d) => Holds(r, d)
  BY RoomAssumption DEF Holds

LEMMA RemoveSection ==
  ASSUME TypeOK, Control, RoomsInv, NEW t \in Threads, NEW u \in Users,
         pc[t] \in WithRoom, Update(t, Remove(rooms[room[t]], u))
  PROVE  \E g, s : Section(g, s)
<1> DEFINE r == rooms[room[t]]
           s == Remove(r, u)
<1>1. room[t] \in Gens /\ room[t] <= current /\ r \in Room
  BY RoomRef
<1>2. RoomOK(r)
  BY <1>1 DEF RoomsInv
<1>3. s \in Room /\ RoomOK(s)
  BY <1>1, <1>2, RemoveType, RemoveOK
<1>4. \A v \in Users : s.parts[v].conn \in {r.parts[v].conn, NoConn}
  BY <1>1 DEF Remove, Room, Absent
<1>5. \A d \in Conns : Holds(s, d) => Holds(r, d)
  BY <1>1, <1>3, <1>4, HoldsSame
<1>6. rooms' = [rooms EXCEPT ![room[t]] = s]
  BY DEF Update
<1> QED  BY <1>1, <1>3, <1>5, <1>6 DEF Section

LEMMA JoinSection ==
  ASSUME TypeOK, Control, RoomsInv, NEW c \in Conns, JoinAdmitted(c)
  PROVE  \E g, s : Section(g, s)
<1> DEFINE r == rooms[room[c]]
           u == UserOf[c]
           s == Join(r, u, c)
<1>1. c \in Threads /\ u \in Users /\ pc[c] = "join"
  BY RoomAssumption DEF Threads, JoinAdmitted
<1>2. room[c] \in Gens /\ room[c] <= current /\ r \in Room
  BY <1>1, RoomRef DEF WithRoom
<1>3. RoomOK(r)
  BY <1>2 DEF RoomsInv
<1>4. Admissible(r, u) /\ rooms' = [rooms EXCEPT ![room[c]] = s]
  BY DEF JoinAdmitted, Update
<1>5. s \in Room /\ RoomOK(s)
  BY <1>1, <1>2, <1>3, <1>4, JoinType, JoinOK
<1>6. ASSUME NEW d \in Conns, Holds(s, d)
      PROVE  Holds(r, d) \/ pc[d] = "join"
  <2>1. CASE UserOf[d] = u
    <3>1. s.parts[u].conn = c
      BY <1>1, <1>2, JoinFields
    <3> QED  BY <1>1, <1>6, <2>1, <3>1 DEF Holds
  <2>2. CASE UserOf[d] # u
    <3>1. UserOf[d] \in Users
      BY RoomAssumption
    <3>2. s.parts[UserOf[d]] = r.parts[UserOf[d]]
      BY <1>1, <1>2, <2>2, <3>1, JoinOthers
    <3> QED  BY <1>6, <3>2 DEF Holds
  <2> QED  BY <2>1, <2>2
<1>7. Section(room[c], s)
  BY <1>2, <1>4, <1>5, <1>6 DEF Section
<1> QED  BY <1>7

\* A section that may rewrite everything but who holds which place.
LEMMA FlagSection ==
  ASSUME TypeOK, Control, NEW t \in Threads, pc[t] \in WithRoom,
         NEW s \in Room, RoomOK(s), Update(t, s),
         \A v \in Users : s.parts[v].conn \in {rooms[room[t]].parts[v].conn, NoConn}
  PROVE  \E g, r : Section(g, r)
<1>1. room[t] \in Gens /\ room[t] <= current /\ rooms[room[t]] \in Room
  BY RoomRef
<1>2. \A d \in Conns : Holds(s, d) => Holds(rooms[room[t]], d)
  BY <1>1, HoldsSame
<1>3. Section(room[t], s)
  BY <1>1, <1>2 DEF Section, Update
<1> QED  BY <1>3

\* Moderation and the microphone move nobody, except that a kick removes.
LEMMA ModeratePlaces ==
  ASSUME NEW r \in Room, NEW target \in Users, NEW action \in ModerationAction
  PROVE  \A v \in Users :
            Moderate(r, target, action).parts[v].conn \in {r.parts[v].conn, NoConn}
<1>1. CASE action = "kick"
  BY <1>1 DEF Moderate, Remove, Room, Participant, Absent
<1>2. CASE action = "mute"
  BY <1>2 DEF Moderate, Room, Participant
<1>3. CASE action = "allow"
  BY <1>3 DEF Moderate, Room, Participant
<1>4. CASE action = "restrict"
  BY <1>4 DEF Moderate, Room, Participant
<1> QED  BY <1>1, <1>2, <1>3, <1>4 DEF ModerationAction

LEMMA HandlerSection ==
  ASSUME TypeOK, Control, RoomsInv, NEW c \in Conns, Handler(c)
  PROVE  rooms' = rooms \/ \E g, s : Section(g, s)
<1> DEFINE r == rooms[room[c]]
           u == UserOf[c]
<1>1. c \in Threads /\ u \in Users
  BY RoomAssumption DEF Threads
<1>2. ASSUME pc[c] \in WithRoom
      PROVE  r \in Room /\ RoomOK(r)
  BY <1>1, <1>2, RoomRef DEF RoomsInv
<1>3. CASE JoinAdmitted(c)
  BY <1>3, JoinSection
<1>4. CASE LeaveLock(c)
  <2>1. pc[c] \in WithRoom
    BY <1>4 DEF LeaveLock, WithRoom
  <2>2. rooms' = rooms \/ Update(c, Remove(r, u))
    BY <1>4 DEF LeaveLock
  <2> QED  BY <1>1, <2>1, <2>2, RemoveSection
<1>5. CASE Mute(c)
  <2>1. pc[c] \in WithRoom
    BY <1>5 DEF Mute, WithRoom
  <2>2. PICK muted \in BOOLEAN : MaySetMuted(r, u, muted) /\ Update(c, SetMuted(r, u, muted))
    BY <1>5 DEF Mute, Changed
  <2>3. SetMuted(r, u, muted) \in Room /\ RoomOK(SetMuted(r, u, muted))
    BY <1>1, <1>2, <2>1, <2>2, SetMutedOK
  <2>4. \A v \in Users : SetMuted(r, u, muted).parts[v].conn = r.parts[v].conn
    BY <1>1, <1>2, <2>1 DEF SetMuted, Room, Participant
  <2> QED  BY <1>1, <2>1, <2>2, <2>3, <2>4, FlagSection
<1>6. CASE Speak(c)
  <2>1. pc[c] \in WithRoom /\ Inside(r, u)
    BY <1>6 DEF Speak, WithRoom
  <2>2. PICK speaking \in BOOLEAN : Update(c, SetSpeaking(r, u, speaking))
    BY <1>6 DEF Speak, Changed
  <2>3. SetSpeaking(r, u, speaking) \in Room /\ RoomOK(SetSpeaking(r, u, speaking))
    BY <1>1, <1>2, <2>1, SetSpeakingOK
  <2>4. \A v \in Users : SetSpeaking(r, u, speaking).parts[v].conn = r.parts[v].conn
    BY <1>1, <1>2, <2>1 DEF SetSpeaking, Room, Participant
  <2> QED  BY <1>1, <2>1, <2>2, <2>3, <2>4, FlagSection
<1>7. CASE ModerateParticipant(c)
  <2>1. pc[c] \in WithRoom
    BY <1>7 DEF ModerateParticipant, WithRoom
  <2>2. PICK target \in Users, action \in ModerationAction \ {"kick"} :
          MayModerate(r, u, target) /\ Update(c, Moderate(r, target, action))
    BY <1>7 DEF ModerateParticipant, Changed
  <2>3. Moderate(r, target, action) \in Room /\ RoomOK(Moderate(r, target, action))
    BY <1>1, <1>2, <2>1, <2>2, ModerateFlagsOK
  <2> QED  BY <1>1, <1>2, <2>1, <2>2, <2>3, ModeratePlaces, FlagSection
<1>8. CASE ModerateLock(c)
  <2>1. pc[c] \in WithRoom
    BY <1>8 DEF ModerateLock, WithRoom
  <2>2. PICK locked \in BOOLEAN : Update(c, SetLocked(r, locked))
    BY <1>8 DEF ModerateLock, Changed
  <2>3. SetLocked(r, locked) \in Room /\ RoomOK(SetLocked(r, locked))
    BY <1>2, <2>1, SetLockedOK
  <2>4. SetLocked(r, locked).parts = r.parts
    BY <1>2, <2>1 DEF SetLocked, Room
  <2> QED  BY <1>1, <2>1, <2>2, <2>3, <2>4, FlagSection
<1>9. CASE Kick(c)
  <2>1. pc[c] \in WithRoom
    BY <1>9 DEF Kick, WithRoom
  <2>2. PICK target \in Users :
          MayModerate(r, u, target) /\ Update(c, Moderate(r, target, "kick"))
    BY <1>9 DEF Kick
  <2>3. Moderate(r, target, "kick") \in Room /\ RoomOK(Moderate(r, target, "kick"))
    BY <1>1, <1>2, <2>1, <2>2, KickRoomOK
  <2>4. "kick" \in ModerationAction
    BY DEF ModerationAction
  <2> QED  BY <1>1, <1>2, <2>1, <2>2, <2>3, <2>4, ModeratePlaces, FlagSection
<1>10. CASE EndLock(c)
  <2>1. pc[c] \in WithRoom /\ Update(c, EndRoom(r))
    BY <1>10 DEF EndLock, WithRoom
  <2>2. EndRoom(r) \in Room /\ RoomOK(EndRoom(r))
    BY <1>2, <2>1, EndRoomOK
  <2>3. EndRoom(r).parts = r.parts
    BY <1>2, <2>1 DEF EndRoom, Room
  <2> QED  BY <1>1, <2>1, <2>2, <2>3, FlagSection
<1>11. CASE JoinReturns(c) \/ Welcome(c) \/ Refused(c) \/ Cast(c) \/ Reset(c)
  BY <1>11 DEF JoinReturns, Welcome, Refused, Cast, Reset, roomVars
<1>12. CASE \E at, next : Retire(c, at, next) \/ Close(c, at, next)
  BY <1>12 DEF Retire, Close, roomVars
<1> QED
  BY <1>3, <1>4, <1>5, <1>6, <1>7, <1>8, <1>9, <1>10, <1>11, <1>12 DEF Handler

\* Every step of the server leaves the rooms alone or is one sound section.
LEMMA RoomsStep ==
  ASSUME TypeOK, Control, RoomsInv, FutureBlank, [Next]_vars
  PROVE  rooms' = rooms \/ \E g, s : Section(g, s)
<1>1. CASE UNCHANGED vars
  BY <1>1 DEF vars, roomVars
<1>2. ASSUME NEW c \in Conns,
             Acquire(c) \/ Register(c) \/ Frame(c) \/ ReadExit(c) \/ PeerGone(c)
      PROVE  rooms' = rooms
  BY <1>2 DEF Acquire, Register, Frame, JoinLookup, Leave, LeaveBegin, End, Handle,
              ReadExit, PeerGone, roomVars
<1>3. ASSUME NEW c \in Conns, Handler(c)
      PROVE  rooms' = rooms \/ \E g, s : Section(g, s)
  BY <1>3, HandlerSection
<1>4. ASSUME NEW t \in Threads, Cleanup(t)
      PROVE  rooms' = rooms \/ \E g, s : Section(g, s)
  <2>1. CASE CleanLock(t)
    <3>1. pc[t] \in WithRoom /\ pc[t] \in InCleanup
      BY <2>1 DEF CleanLock, WithRoom, InCleanup
    <3>2. UserOf[Subject(t)] \in Users
      BY <3>1, SubjectType, RoomAssumption
    <3>3. rooms' = rooms \/ Update(t, Remove(rooms[room[t]], UserOf[Subject(t)]))
      BY <2>1 DEF CleanLock
    <3> QED  BY <3>1, <3>2, <3>3, RemoveSection
  <2>2. CASE Pop(t) \/ CleanBegin(t) \/ CleanCast(t) \/ CleanEnd(t)
    BY <2>2 DEF Pop, CleanBegin, LeaveBegin, CleanCast, CleanEnd, roomVars
  <2> QED  BY <1>4, <2>1, <2>2 DEF Cleanup
<1>5. CASE Sweep
  BY <1>5 DEF Sweep, SweepStart, SweepEnd, SweepSkip, SweepReap, roomVars
<1>6. ASSUME NEW u \in Users, CooldownOver(u)
      PROVE  \E g, s : Section(g, s)
  <2>1. PICK g \in Gens :
          /\ u \in rooms[g].cooldown
          /\ rooms' = [rooms EXCEPT ![g] = ExpireCooldown(@, u)]
    BY <1>6 DEF CooldownOver
  <2>2. rooms[g] \in Room /\ RoomOK(rooms[g])
    BY DEF TypeOK, RoomsInv
  <2>3. g <= current
    BY <2>1 DEF FutureBlank, NewRoom, TypeOK, Gens
  <2> DEFINE s == ExpireCooldown(rooms[g], u)
  <2>4. s \in Room /\ RoomOK(s)
    BY <2>2, ExpireCooldownOK
  <2>5. s.parts = rooms[g].parts
    BY <2>2 DEF ExpireCooldown, Room
  <2>6. Section(g, s)
    BY <2>1, <2>3, <2>4, <2>5 DEF Section, Holds
  <2> QED  BY <2>6
<1> QED  BY <1>1, <1>2, <1>3, <1>4, <1>5, <1>6 DEF Next

-----------------------------------------------------------------------------
(* What a step does to the threads *)

\* What the departure of c needs to know of a move of its thread to l.
Departs(c, l, g) ==
  /\ l # "new"
  /\ l = "opened" => pc[c] = "new"
  /\ l = "drop" => g = current
  /\ l = "castLeft" => pc[c] = "drop" /\ ~Holds(rooms'[room[c]], c)
  /\ l = "free" =>
       \/ pc[c] = "castLeft"
       \/ pc[c] = "drop" /\ ~Holds(rooms'[room[c]], c)
  /\ l = "done" => pc[c] \in {"new", "free"}

\* Thread t moves to l with g and V in its locals.
Move(t, l, g, V) ==
  /\ t \in Threads /\ l \in Places /\ g \in 0..current /\ V \subseteq Conns
  /\ Go(t, l, g, V)
  /\ l \in WithRoom => g \in Gens
  /\ t = Reaper => l \in InCleanup \cup {"idle", "scan"}
  /\ t = Reaper /\ l \in InCleanup => reaping' \in Conns
  /\ t # Reaper => l \notin {"idle", "scan"} /\ reaping' = reaping
  /\ l \in InEnd => pc[t] \in InEnd \/ EndBudget
  /\ current' = IF pc[t] = "endReset" /\ l \notin InEnd THEN current + 1 ELSE current
  /\ t \in Conns => Departs(t, l, g)

Still == UNCHANGED <<current, pc, room, victims, reaping>>

Moves == \E t, l, g, V : Move(t, l, g, V)

LEMMA ConnThread == \A c \in Conns : c \in Threads /\ c # Reaper /\ UserOf[c] \in Users
  BY RoomAssumption, ServerAssumption DEF Threads

LEMMA OpenMoves ==
  ASSUME TypeOK, Control, NEW c \in Conns,
         Acquire(c) \/ Register(c) \/ ReadExit(c) \/ PeerGone(c) \/ Frame(c)
  PROVE  Still \/ Moves
<1>0. c \in Threads /\ c # Reaper
  BY ConnThread
<1>1. CASE Acquire(c)
  <2>1. Move(c, "opened", 0, {}) \/ Move(c, "done", 0, {})
    BY <1>0, <1>1 DEF Acquire, Move, Departs, TypeOK, Places, Idle, Gens, WithRoom, InEnd,
                      roomVars, sweepVars
  <2> QED  BY <2>1 DEF Moves
<1>2. CASE Register(c) \/ ReadExit(c)
  <2>1. Move(c, "read", 0, {}) \/ Move(c, "pop", 0, {})
    BY <1>0, <1>2 DEF Register, ReadExit, Move, Departs, TypeOK, Places, Idle, InCleanup,
                      Gens, WithRoom, InEnd, roomVars, sweepVars
  <2> QED  BY <2>1 DEF Moves
<1>3. CASE PeerGone(c)
  BY <1>3 DEF PeerGone, Still, roomVars, sweepVars
<1>4. CASE JoinLookup(c)
  <2>1. Move(c, "join", current, {})
    BY <1>0, <1>4 DEF JoinLookup, Receive, Move, Departs, TypeOK, Places, InHandler, Gens,
                      WithRoom, InEnd, roomVars, sweepVars
  <2> QED  BY <2>1 DEF Moves
<1>5. CASE Leave(c)
  <2>1. Move(c, "leave", current, {})
    BY <1>0, <1>5 DEF Leave, LeaveBegin, Receive, Move, Departs, TypeOK, Places, InHandler,
                      Gens, WithRoom, InEnd, roomVars, sweepVars
  <2> QED  BY <2>1 DEF Moves
<1>6. CASE End(c)
  <2>1. Move(c, "end", current, {})
    BY <1>0, <1>6 DEF End, Receive, Move, Departs, TypeOK, Places, InHandler, Gens,
                      WithRoom, InEnd, roomVars, sweepVars
  <2> QED  BY <2>1 DEF Moves
<1>7. ASSUME NEW e \in Events, Handle(c, e)
      PROVE  Moves
  <2>1. Move(c, e, current, {})
    BY <1>0, <1>7 DEF Handle, Receive, Move, Departs, TypeOK, Places, InHandler, Gens,
                      WithRoom, InEnd, roomVars, sweepVars
  <2> QED  BY <2>1 DEF Moves
<1> QED  BY <1>1, <1>2, <1>3, <1>4, <1>5, <1>6, <1>7 DEF Frame

\* The handler returns to the read loop.
LEMMA ResumeMove ==
  ASSUME TypeOK, Control, NEW c \in Conns, Resume(c), pc[c] # "endReset",
         UNCHANGED <<current, reaping>>
  PROVE  Moves
<1>0. c \in Threads /\ c # Reaper
  BY ConnThread
<1>1. Move(c, "pop", 0, {}) \/ Move(c, "read", 0, {})
  BY <1>0 DEF Resume, Move, Departs, TypeOK, Places, InCleanup, Idle, Gens, WithRoom, InEnd
<1> QED  BY <1>1 DEF Moves

LEMMA HandlerMoves ==
  ASSUME TypeOK, Control, NEW c \in Conns, Handler(c)
  PROVE  Moves
<1>0. c \in Threads /\ c # Reaper /\ UserOf[c] \in Users
  BY ConnThread
<1>1. ASSUME pc[c] \in WithRoom
      PROVE  room[c] \in Gens /\ room[c] <= current /\ rooms[room[c]] \in Room
  BY <1>0, <1>1, RoomRef
<1>2. CASE JoinReturns(c) \/ Refused(c) \/ Cast(c)
  BY <1>2, ResumeMove DEF JoinReturns, Refused, Cast, roomVars, sweepVars
<1>3. CASE JoinAdmitted(c)
  <2> DEFINE displaced == {rooms[room[c]].parts[UserOf[c]].conn} \ {NoConn, c}
  <2>1. pc[c] = "join" /\ displaced \subseteq Conns
    BY <1>0, <1>1, <1>3 DEF JoinAdmitted, WithRoom, Room, Participant
  <2>2. Move(c, "welcome", room[c], displaced) \/ Move(c, "joinRetire", room[c], displaced)
    BY <1>0, <1>1, <1>3, <2>1 DEF JoinAdmitted, Move, Departs, TypeOK, Places, InHandler,
                      Gens, WithRoom, InEnd, sweepVars
  <2> QED  BY <2>2 DEF Moves
<1>4. CASE Welcome(c)
  <2>1. Move(c, "cast", room[c], {})
    BY <1>0, <1>1, <1>4 DEF Welcome, Move, Departs, TypeOK, Places, InHandler, Gens,
                      WithRoom, InEnd, roomVars, sweepVars
  <2> QED  BY <2>1 DEF Moves
<1>5. CASE LeaveLock(c)
  <2>1. Resume(c) => Moves
    BY <1>5, ResumeMove DEF LeaveLock, sweepVars
  <2>2. Go(c, "cast", room[c], {}) => Move(c, "cast", room[c], {})
    BY <1>0, <1>1, <1>5 DEF LeaveLock, Move, Departs, TypeOK, Places, InHandler, Gens,
                      WithRoom, InEnd, sweepVars
  <2> QED  BY <1>5, <2>1, <2>2 DEF LeaveLock, Moves
<1>6. CASE Mute(c) \/ Speak(c) \/ ModerateParticipant(c) \/ ModerateLock(c)
  <2>1. Move(c, "cast", room[c], {})
    BY <1>0, <1>1, <1>6 DEF Mute, Speak, ModerateParticipant, ModerateLock, Changed, Move,
                      Departs, TypeOK, Places, InHandler, Gens, WithRoom, InEnd, sweepVars
  <2> QED  BY <2>1 DEF Moves
<1>7. CASE Kick(c)
  <2>1. PICK target \in Users :
          /\ MayModerate(rooms[room[c]], UserOf[c], target)
          /\ Go(c, "kickRetire", room[c], {rooms[room[c]].parts[target].conn})
    BY <1>7 DEF Kick
  <2>2. pc[c] = "moderate" /\ {rooms[room[c]].parts[target].conn} \subseteq Conns
    BY <1>1, <1>7, <2>1 DEF Kick, MayModerate, Inside, WithRoom, Room, Participant
  <2>3. Move(c, "kickRetire", room[c], {rooms[room[c]].parts[target].conn})
    BY <1>0, <1>1, <1>7, <2>1, <2>2 DEF Kick, Move, Departs, TypeOK, Places, InHandler,
                      Gens, WithRoom, InEnd, sweepVars
  <2> QED  BY <2>3 DEF Moves
<1>8. CASE EndLock(c)
  <2>1. pc[c] = "end" /\ Connections(rooms[room[c]]) \subseteq Conns
    BY <1>1, <1>8 DEF EndLock, WithRoom, Connections, Members, Inside, Room, Participant
  <2>2. Move(c, "endRetire", room[c], Connections(rooms[room[c]]))
    BY <1>0, <1>1, <1>8, <2>1 DEF EndLock, Move, Departs, TypeOK, Places, InHandler, Gens,
                      WithRoom, InEnd, sweepVars
  <2> QED  BY <2>2 DEF Moves
<1>9. CASE Retire(c, "joinRetire", "joinClose") \/ Retire(c, "kickRetire", "kickClose")
             \/ Retire(c, "endRetire", "endClose")
  <2>1. victims[c] \subseteq Conns
    BY <1>0 DEF TypeOK
  <2>2. \E l \in {"joinClose", "kickClose", "endClose"} : Move(c, l, room[c], victims[c])
    BY <1>0, <1>1, <1>9, <2>1 DEF Retire, Move, Departs, TypeOK, Places, InHandler, Gens,
                      WithRoom, InEnd, roomVars, sweepVars
  <2> QED  BY <2>2 DEF Moves
<1>10. CASE Close(c, "joinClose", "welcome") \/ Close(c, "kickClose", "cast")
              \/ Close(c, "endClose", "endReset")
  <2>1. \E l \in {"welcome", "cast", "endReset"} : Move(c, l, room[c], {})
    BY <1>0, <1>1, <1>10 DEF Close, Move, Departs, TypeOK, Places, InHandler, Gens,
                      WithRoom, InEnd, roomVars, sweepVars
  <2> QED  BY <2>1 DEF Moves
<1>11. CASE Reset(c)
  <2>1. Move(c, "pop", 0, {}) \/ Move(c, "read", 0, {})
    BY <1>0, <1>11 DEF Reset, Resume, Move, Departs, TypeOK, Places, InCleanup, Idle, Gens,
                      WithRoom, InEnd, sweepVars
  <2> QED  BY <2>1 DEF Moves
<1> QED
  BY <1>2, <1>3, <1>4, <1>5, <1>6, <1>7, <1>8, <1>9, <1>10, <1>11 DEF Handler

LEMMA CleanupMoves ==
  ASSUME TypeOK, Control, NEW t \in Threads, Cleanup(t)
  PROVE  Moves
<1>0. Reaper \notin Conns /\ (t \in Conns <=> t # Reaper)
  BY ServerAssumption DEF Threads
<1>1. pc[t] \in InCleanup /\ (t = Reaper => reaping \in Conns)
  BY DEF Cleanup, Pop, CleanBegin, CleanLock, CleanCast, CleanEnd, Control, InCleanup
<1>2. CASE Pop(t)
  <2>1. Move(t, "get", 0, {})
    BY <1>0, <1>1, <1>2 DEF Pop, roomVars, sweepVars,
         Move, Departs, TypeOK, Places, InCleanup, Idle, Gens, WithRoom, InEnd
  <2> QED  BY <2>1 DEF Moves
<1>3. CASE CleanBegin(t)
  <2>1. Move(t, "drop", current, {})
    BY <1>0, <1>1, <1>3 DEF CleanBegin, LeaveBegin, roomVars, sweepVars,
         Move, Departs, TypeOK, Places, InCleanup, Idle, Gens, WithRoom, InEnd
  <2> QED  BY <2>1 DEF Moves
<1>4. CASE CleanLock(t)
  <2> DEFINE c == Subject(t)
  <2>1. c \in Conns /\ UserOf[c] \in Users
    BY <1>1, SubjectType, ConnThread
  <2>2. pc[t] = "drop" /\ room[t] \in Gens /\ room[t] <= current /\ rooms[room[t]] \in Room
    BY <1>4, RoomRef DEF CleanLock, WithRoom
  <2>3. ~Holds(rooms'[room[t]], c)
    <3>1. CASE Holds(rooms[room[t]], c)
      <4>1. rooms' = [rooms EXCEPT ![room[t]] = Remove(rooms[room[t]], UserOf[c])]
        BY <1>4, <3>1 DEF CleanLock, Update
      <4>2. Remove(rooms[room[t]], UserOf[c]).parts[UserOf[c]].conn = NoConn
        BY <2>1, <2>2 DEF Remove, Room, Absent
      <4>3. rooms'[room[t]] = Remove(rooms[room[t]], UserOf[c])
        BY <2>2, <4>1 DEF TypeOK
      <4> QED  BY <2>1, <4>2, <4>3, RoomAssumption DEF Holds
    <3>2. CASE ~Holds(rooms[room[t]], c)
      BY <1>4, <3>2 DEF CleanLock
    <3> QED  BY <3>1, <3>2
  <2>4. t \in Conns => c = t
    BY <1>0 DEF Subject
  <2>5. Move(t, "castLeft", room[t], {}) \/ Move(t, "free", 0, {})
    BY <1>0, <1>1, <1>4, <2>2, <2>3, <2>4 DEF CleanLock, sweepVars,
         Move, Departs, TypeOK, Places, InCleanup, Idle, Gens, WithRoom, InEnd
  <2> QED  BY <2>5 DEF Moves
<1>5. CASE CleanCast(t)
  <2>1. pc[t] = "castLeft" /\ Go(t, "free", 0, {}) /\ UNCHANGED <<current, reaping>>
    BY <1>5 DEF CleanCast, roomVars, sweepVars
  <2>2. Departs(t, "free", 0)
    BY <2>1 DEF Departs
  <2>3. "free" \in InCleanup /\ "free" \notin WithRoom \cup InEnd
    BY DEF InCleanup, WithRoom, InEnd
  <2>4. Move(t, "free", 0, {})
    BY <1>0, <1>1, <2>1, <2>2, <2>3 DEF Move, TypeOK, Places, Gens
  <2> QED  BY <2>4 DEF Moves
<1>6. CASE CleanEnd(t)
  <2>1. Move(t, "scan", 0, {}) \/ Move(t, "done", 0, {})
    BY <1>0, <1>1, <1>6 DEF CleanEnd, roomVars,
         Move, Departs, TypeOK, Places, InCleanup, Idle, Gens, WithRoom, InEnd
  <2> QED  BY <2>1 DEF Moves
<1> QED  BY <1>2, <1>3, <1>4, <1>5, <1>6 DEF Cleanup

LEMMA SweepMoves ==
  ASSUME TypeOK, Control, Sweep
  PROVE  Still \/ Moves
<1>0. Reaper \in Threads /\ Reaper \notin Conns
  BY ServerAssumption DEF Threads
<1>1. CASE SweepStart \/ SweepEnd
  <2>1. Move(Reaper, "scan", 0, {}) \/ Move(Reaper, "idle", 0, {})
    BY <1>0, <1>1 DEF SweepStart, SweepEnd, roomVars, sweepVars,
         Move, Departs, TypeOK, Places, InCleanup, Idle, Gens, WithRoom, InEnd
  <2> QED  BY <2>1 DEF Moves
<1>2. ASSUME NEW c \in Conns, SweepSkip(c)
      PROVE  Still
  BY <1>2 DEF SweepSkip, Still, roomVars
<1>3. ASSUME NEW c \in Conns, SweepReap(c)
      PROVE  Moves
  <2>1. Move(Reaper, "pop", 0, {})
    BY <1>0, <1>3 DEF SweepReap, roomVars,
         Move, Departs, TypeOK, Places, InCleanup, Idle, Gens, WithRoom, InEnd
  <2> QED  BY <2>1 DEF Moves
<1> QED  BY <1>1, <1>2, <1>3 DEF Sweep

\* Every step moves at most one thread, and only along its own program.
LEMMA StepMoves ==
  ASSUME TypeOK, Control, [Next]_vars
  PROVE  Still \/ Moves
<1>1. CASE UNCHANGED vars
  BY <1>1 DEF vars, Still, roomVars, sweepVars
<1>2. ASSUME NEW c \in Conns,
             Acquire(c) \/ Register(c) \/ Frame(c) \/ ReadExit(c) \/ PeerGone(c)
      PROVE  Still \/ Moves
  BY <1>2, OpenMoves
<1>3. ASSUME NEW c \in Conns, Handler(c)
      PROVE  Moves
  BY <1>3, HandlerMoves
<1>4. ASSUME NEW t \in Threads, Cleanup(t)
      PROVE  Moves
  BY <1>4, CleanupMoves
<1>5. CASE Sweep
  BY <1>5, SweepMoves
<1>6. ASSUME NEW u \in Users, CooldownOver(u)
      PROVE  Still
  BY <1>6 DEF CooldownOver, Still, sweepVars
<1> QED  BY <1>1, <1>2, <1>3, <1>4, <1>5, <1>6 DEF Next

-----------------------------------------------------------------------------
(* The invariant, part by part *)

LEMMA RoomsKept ==
  ASSUME Inv, [Next]_vars
  PROVE  /\ rooms' \in [Gens -> Room]
         /\ RoomsInv'
         /\ \A g \in Gens : g > current => rooms'[g] = NewRoom
         /\ \A g \in Gens, d \in Conns :
              Holds(rooms'[g], d) => Holds(rooms[g], d) \/ pc[d] = "join"
<1>1. CASE rooms' = rooms
  BY <1>1 DEF Inv, TypeOK, RoomsInv, FutureBlank
<1>2. ASSUME NEW h, NEW s, Section(h, s)
      PROVE  /\ rooms' \in [Gens -> Room]
             /\ \A g \in Gens : g # h => rooms'[g] = rooms[g]
             /\ h \in Gens /\ h <= current /\ rooms'[h] = s /\ RoomOK(s)
             /\ \A d \in Conns : Holds(s, d) => Holds(rooms[h], d) \/ pc[d] = "join"
  BY <1>2 DEF Section, Inv, TypeOK
<1>3. ASSUME NEW h, NEW s, Section(h, s)
      PROVE  /\ RoomsInv'
             /\ \A g \in Gens : g > current => rooms'[g] = NewRoom
             /\ \A g \in Gens, d \in Conns :
                  Holds(rooms'[g], d) => Holds(rooms[g], d) \/ pc[d] = "join"
  <2>1. RoomsInv'
    BY <1>2, <1>3 DEF Inv, RoomsInv
  <2>2. \A g \in Gens : g > current => rooms'[g] = NewRoom
    BY <1>2, <1>3 DEF Inv, FutureBlank, TypeOK, Gens
  <2>3. \A g \in Gens, d \in Conns :
           Holds(rooms'[g], d) => Holds(rooms[g], d) \/ pc[d] = "join"
    BY <1>2, <1>3
  <2> QED  BY <2>1, <2>2, <2>3
<1> QED  BY <1>1, <1>2, <1>3, RoomsStep DEF Inv

LEMMA EndingFinite == IsFiniteSet(Ending) /\ Cardinality(Ending) \in Nat
  BY FS_Subset, FS_CardinalityType, RoomAssumption DEF Ending

\* The generations suffice: `current` stays within them, whatever handlers are
\* on their way to a reset.
LEMMA BudgetKept ==
  ASSUME Inv, [Next]_vars
  PROVE  current' \in Gens /\ current <= current' /\ Budget'
<1>0. /\ current \in Nat /\ 1 <= current /\ MaxRooms \in Nat
      /\ current + Cardinality(Ending) <= MaxRooms
      /\ IsFiniteSet(Ending) /\ Cardinality(Ending) \in Nat
  BY EndingFinite, ServerAssumption DEF Inv, TypeOK, Gens, Budget
<1>1. CASE Still
  <2>1. Ending' = Ending
    BY <1>1 DEF Still, Ending
  <2> QED  BY <1>0, <1>1, <2>1 DEF Still, Budget, Gens
<1>2. ASSUME NEW t, NEW l, NEW g, NEW V, Move(t, l, g, V)
      PROVE  current' \in Gens /\ current <= current' /\ Budget'
  <2>1. /\ t \in Threads /\ pc' = [pc EXCEPT ![t] = l]
        /\ pc \in [Threads -> Places]
    BY <1>2 DEF Move, Go, Inv, TypeOK
  <2>2. /\ IsFiniteSet(Ending') /\ Cardinality(Ending') \in Nat
    BY FS_Subset, FS_CardinalityType, RoomAssumption DEF Ending
  <2>3. CASE l \notin InEnd /\ pc[t] # "endReset"
    <3>1. Ending' \subseteq Ending
      BY <2>1, <2>3, ConnThread DEF Ending
    <3>2. Cardinality(Ending') <= Cardinality(Ending) /\ current' = current
      BY <1>0, <1>2, <2>3, <3>1, FS_Subset DEF Move
    <3> QED  BY <1>0, <2>2, <3>2 DEF Budget, Gens
  <2>4. CASE l \notin InEnd /\ pc[t] = "endReset"
    <3>1. t \in Conns
      BY <2>1, <2>4 DEF Inv, Control, Threads, InCleanup
    <3>2. t \in Ending /\ Ending' = Ending \ {t}
      BY <2>1, <2>4, <3>1, ConnThread DEF Ending, InEnd
    <3>3. Cardinality(Ending') = Cardinality(Ending) - 1 /\ current' = current + 1
      BY <1>0, <1>2, <2>4, <3>2, FS_RemoveElement DEF Move
    <3> QED  BY <1>0, <2>2, <3>3 DEF Budget, Gens
  <2>5. CASE l \in InEnd /\ pc[t] \in InEnd
    <3>1. Ending' = Ending /\ current' = current
      BY <1>2, <2>1, <2>5, ConnThread DEF Ending, Move
    <3> QED  BY <1>0, <3>1 DEF Budget, Gens
  <2>6. CASE l \in InEnd /\ pc[t] \notin InEnd
    <3>1. current' = current /\ current + Cardinality(Ending) < MaxRooms
      BY <1>2, <2>6 DEF Move, EndBudget, Ending
    <3>2. Ending' \subseteq Ending \cup {t} /\ t \notin Ending
      BY <2>1, <2>6, ConnThread DEF Ending
    <3>3. /\ IsFiniteSet(Ending \cup {t})
          /\ Cardinality(Ending \cup {t}) = Cardinality(Ending) + 1
      BY <1>0, <3>2, FS_AddElement
    <3>4. Cardinality(Ending') <= Cardinality(Ending) + 1
      BY <3>2, <3>3, FS_Subset
    <3> QED  BY <1>0, <2>2, <3>1, <3>4 DEF Budget, Gens
  <2> QED  BY <2>3, <2>4, <2>5, <2>6
<1> QED  BY <1>1, <1>2, StepMoves DEF Inv, Moves

\* The bookkeeping of the server: flags, registry, counters, the sweep.
Books ==
  /\ joined \subseteq Conns /\ closing \subseteq Conns /\ gone \subseteq Conns
  /\ registry \subseteq Conns
  /\ perIp \in [Ips -> Nat] /\ perUser \in [Users -> Nat]
  /\ removed \subseteq Threads
  /\ reaping \in Conns \cup {NoConn} /\ todo \subseteq Conns

LEMMA SendType ==
  ASSUME Books, NEW S, SendTo(S)
  PROVE  closing' \subseteq Conns
  BY DEF SendTo, Books

LEMMA OpenBooks ==
  ASSUME TypeOK, NEW c \in Conns,
         Acquire(c) \/ Register(c) \/ Frame(c) \/ ReadExit(c) \/ PeerGone(c)
  PROVE  Books'
<1>1. Books
  BY DEF TypeOK, Books
<1>2. CASE Acquire(c)
  <2>1. IpOf[c] \in Ips /\ UserOf[c] \in Users
    BY ServerAssumption, RoomAssumption
  <2>2. perIp' \in [Ips -> Nat] /\ perUser' \in [Users -> Nat]
    BY <1>1, <1>2, <2>1 DEF Acquire, Books
  <2> QED  BY <1>1, <1>2, <2>2 DEF Acquire, Books, flagVars, sweepVars
<1>3. CASE Register(c) \/ ReadExit(c) \/ PeerGone(c)
  BY <1>1, <1>3 DEF Register, ReadExit, PeerGone, Books, flagVars, countVars, sweepVars
<1>4. CASE Frame(c)
  BY <1>1, <1>4 DEF Frame, JoinLookup, Leave, LeaveBegin, End, Handle, Books, flagVars,
                    countVars, sweepVars
<1> QED  BY <1>2, <1>3, <1>4

LEMMA HandlerBooks ==
  ASSUME TypeOK, NEW c \in Conns, Handler(c)
  PROVE  Books'
<1>1. Books /\ c \in Threads /\ victims[c] \subseteq Conns
  BY ConnThread DEF TypeOK, Books
<1>2. UNCHANGED <<countVars, sweepVars, gone>>
  BY DEF Handler, JoinReturns, JoinAdmitted, Welcome, Retire, Close, LeaveLock, Mute, Speak,
         ModerateParticipant, ModerateLock, Kick, Refused, Changed, EndLock, Reset, Cast,
         flagVars
<1>3. joined' \in {joined, joined \cup {c}, joined \ victims[c]}
  BY DEF Handler, JoinReturns, JoinAdmitted, Welcome, Retire, Close, LeaveLock, Mute, Speak,
         ModerateParticipant, ModerateLock, Kick, Refused, Changed, EndLock, Reset, Cast,
         flagVars
<1>4. closing' \subseteq Conns
  <2>1. CASE \E S : SendTo(S)
    BY <1>1, <2>1, SendType
  <2>2. CASE \A S : ~SendTo(S)
    <3>1. closing' \in {closing, closing \cup victims[c]}
      BY <2>2 DEF Handler, JoinReturns, JoinAdmitted, Welcome, Retire, Close, LeaveLock,
             Mute, Speak, ModerateParticipant, ModerateLock, Kick, Refused, Changed, EndLock,
             Reset, Cast, flagVars
    <3> QED  BY <1>1, <3>1 DEF Books
  <2> QED  BY <2>1, <2>2
<1> QED  BY <1>1, <1>2, <1>3, <1>4 DEF Books, countVars, sweepVars

LEMMA CleanupBooks ==
  ASSUME TypeOK, Control, NEW t \in Threads, Cleanup(t)
  PROVE  Books'
<1>1. Books
  BY DEF TypeOK, Books
<1>2. Subject(t) \in Conns
  BY SubjectType DEF Cleanup, Pop, CleanBegin, CleanLock, CleanCast, CleanEnd, InCleanup
<1>3. CASE Pop(t) \/ CleanBegin(t) \/ CleanLock(t)
  BY <1>1, <1>3 DEF Pop, CleanBegin, LeaveBegin, CleanLock, Books, flagVars, countVars,
                    sweepVars
<1>4. CASE CleanCast(t)
  BY <1>1, <1>4, SendType DEF CleanCast, Books, countVars, sweepVars
<1>5. CASE CleanEnd(t)
  <2>1. IpOf[Subject(t)] \in Ips /\ UserOf[Subject(t)] \in Users
    BY <1>2, ServerAssumption, RoomAssumption
  <2>2. Release(Subject(t)) \/ UNCHANGED <<perIp, perUser>>
    BY <1>5 DEF CleanEnd
  <2>3. perIp' \in [Ips -> Nat]
    BY <1>1, <2>1, <2>2 DEF Release, Books
  <2>4. perUser' \in [Users -> Nat]
    BY <1>1, <2>1, <2>2 DEF Release, Books
  <2> QED  BY <1>1, <1>2, <1>5, <2>3, <2>4 DEF CleanEnd, Books
<1> QED  BY <1>3, <1>4, <1>5 DEF Cleanup

LEMMA SweepBooks ==
  ASSUME TypeOK, Sweep
  PROVE  Books'
  BY DEF TypeOK, Books, Sweep, SweepStart, SweepEnd, SweepSkip, SweepReap, flagVars,
         countVars, sweepVars

LEMMA StepBooks ==
  ASSUME TypeOK, Control, [Next]_vars
  PROVE  Books'
<1>1. CASE UNCHANGED vars
  BY <1>1 DEF vars, TypeOK, Books, flagVars, countVars, sweepVars
<1>2. ASSUME NEW u \in Users, CooldownOver(u)
      PROVE  Books'
  BY <1>2 DEF CooldownOver, TypeOK, Books, flagVars, countVars, sweepVars
<1> QED
  BY <1>1, <1>2, OpenBooks, HandlerBooks, CleanupBooks, SweepBooks DEF Next

LEMMA TypeKept ==
  ASSUME Inv, [Next]_vars
  PROVE  TypeOK'
<1>1. Books'
  BY StepBooks DEF Inv
<1>2. rooms' \in [Gens -> Room] /\ current' \in Gens
  BY RoomsKept, BudgetKept
<1>3. /\ pc' \in [Threads -> Places]
      /\ room' \in [Threads -> 0..MaxRooms]
      /\ victims' \in [Threads -> SUBSET Conns]
  <2>1. CASE Still
    BY <2>1 DEF Still, Inv, TypeOK
  <2>2. ASSUME NEW t, NEW l, NEW g, NEW V, Move(t, l, g, V)
        PROVE  /\ pc' \in [Threads -> Places]
               /\ room' \in [Threads -> 0..MaxRooms]
               /\ victims' \in [Threads -> SUBSET Conns]
    <3>1. g \in 0..MaxRooms
      BY <2>2, ServerAssumption DEF Move, Inv, TypeOK, Gens
    <3> QED  BY <2>2, <3>1 DEF Move, Go, Inv, TypeOK
  <2> QED  BY <2>1, <2>2, StepMoves DEF Inv, Moves
<1> QED  BY <1>1, <1>2, <1>3 DEF TypeOK, Books

LEMMA ControlKept ==
  ASSUME Inv, [Next]_vars
  PROVE  Control'
<1>0. current \in Nat /\ current' \in Nat /\ current <= current'
  BY BudgetKept DEF Inv, TypeOK, Gens
<1>1. CASE Still
  BY <1>1 DEF Still, Inv, Control
<1>2. ASSUME NEW t, NEW l, NEW g, NEW V, Move(t, l, g, V)
      PROVE  Control'
  <2>1. /\ t \in Threads /\ pc' = [pc EXCEPT ![t] = l] /\ room' = [room EXCEPT ![t] = g]
        /\ pc \in [Threads -> Places] /\ room \in [Threads -> 0..MaxRooms]
    BY <1>2 DEF Move, Go, Inv, TypeOK
  <2>2. \A c \in Conns : pc'[c] \notin {"idle", "scan"}
    BY <1>2, <2>1, ConnThread DEF Move, Inv, Control
  <2>3. /\ pc'[Reaper] \in InCleanup \cup {"idle", "scan"}
        /\ pc'[Reaper] \in InCleanup => reaping' \in Conns
    <3>1. Reaper \in Threads
      BY DEF Threads
    <3>2. CASE t = Reaper
      BY <1>2, <2>1, <3>1, <3>2 DEF Move
    <3>3. CASE t # Reaper
      BY <1>2, <2>1, <3>1, <3>3 DEF Move, Inv, Control
    <3> QED  BY <3>2, <3>3
  <2>4. \A s \in Threads : room'[s] <= current'
    BY <1>0, <1>2, <2>1, ServerAssumption DEF Move, Inv, Control
  <2>5. \A s \in Threads : pc'[s] \in WithRoom => room'[s] \in Gens
    BY <1>2, <2>1 DEF Move, Inv, Control
  <2> QED  BY <2>2, <2>3, <2>4, <2>5 DEF Control
<1> QED  BY <1>1, <1>2, StepMoves DEF Inv, Moves

LEMMA FutureKept ==
  ASSUME Inv, [Next]_vars
  PROVE  FutureBlank'
<1>1. current \in Nat /\ current' \in Nat /\ current <= current'
  BY BudgetKept DEF Inv, TypeOK, Gens
<1>2. \A g \in Gens : g > current' => g > current
  BY <1>1 DEF Gens
<1> QED  BY <1>2, RoomsKept DEF FutureBlank

LEMMA GoneKept ==
  ASSUME Inv, [Next]_vars
  PROVE  Gone'
<1> SUFFICES ASSUME NEW c \in Conns, NEW g \in Gens,
                    \/ pc'[c] \in {"new", "opened"}
                    \/ pc'[c] = "drop" /\ g > room'[c]
                    \/ pc'[c] \in {"castLeft", "free", "done"} /\ g >= current'
             PROVE  ~Holds(rooms'[g], c)
  BY DEF Gone
<1>0. /\ c \in Threads /\ current \in Nat /\ current' \in Nat /\ current <= current'
      /\ room[c] \in Nat /\ room[c] <= current /\ g \in Nat /\ UserOf[c] \in Users
  BY ConnThread, BudgetKept DEF Inv, TypeOK, Control, Gens
<1>1. ASSUME pc[c] # "join", ~Holds(rooms[g], c)
      PROVE  ~Holds(rooms'[g], c)
  BY <1>1, RoomsKept
<1>2. CASE pc'[c] = pc[c] /\ room'[c] = room[c]
  BY <1>0, <1>1, <1>2 DEF Inv, Gone
<1>3. ASSUME NEW l, NEW h, NEW V, Move(c, l, h, V)
      PROVE  ~Holds(rooms'[g], c)
  <2>1. pc'[c] = l /\ room'[c] = h /\ Departs(c, l, h)
    BY <1>0, <1>3 DEF Move, Go, Inv, TypeOK
  <2>2. CASE l = "opened"
    BY <1>1, <2>1, <2>2 DEF Departs, Inv, Gone
  <2>3. CASE l = "drop"
    <3>1. g > current
      BY <1>0, <2>1, <2>3 DEF Departs
    <3>2. rooms'[g] = NewRoom
      BY <3>1, RoomsKept
    <3> QED  BY <1>0, <3>2, RoomAssumption DEF Holds, NewRoom, Absent
  <2>4. CASE pc[c] = "drop" /\ ~Holds(rooms'[room[c]], c)
    <3>1. g >= current
      BY <1>0, <2>1, <2>4 DEF Departs
    <3>2. CASE g = room[c]
      BY <2>4, <3>2
    <3>3. CASE g > room[c]
      BY <1>1, <2>4, <3>3 DEF Inv, Gone
    <3> QED  BY <1>0, <3>1, <3>2, <3>3
  <2>5. CASE pc[c] \in {"castLeft", "free"} /\ g >= current
    BY <1>1, <2>5 DEF Inv, Gone
  <2>6. CASE pc[c] = "new"
    BY <1>1, <2>6 DEF Inv, Gone
  <2> QED  BY <1>0, <2>1, <2>2, <2>3, <2>4, <2>5, <2>6 DEF Departs
<1>4. ASSUME NEW t, NEW l, NEW h, NEW V, Move(t, l, h, V), t # c
      PROVE  pc'[c] = pc[c] /\ room'[c] = room[c]
  BY <1>0, <1>4 DEF Move, Go, Inv, TypeOK
<1>5. CASE Still
  BY <1>2, <1>5 DEF Still
<1> QED  BY <1>2, <1>3, <1>4, <1>5, StepMoves DEF Inv, Moves

LEMMA InitInv == Init => Inv
<1> SUFFICES ASSUME Init PROVE Inv
  OBVIOUS
<1>0. /\ MaxRooms \in Nat /\ 1 \in Gens /\ Reaper \notin Conns
  BY ServerAssumption DEF Gens
<1>1. NewRoom \in Room /\ RoomOK(NewRoom)
  BY NewRoomOK
<1>2. TypeOK
  BY <1>0, <1>1, ConnThread DEF Init, TypeOK, Gens, Threads, Places, Idle
<1>3. Control
  BY <1>0, ConnThread DEF Init, Control, Threads, WithRoom, InCleanup
<1>4. Ending = {}
  BY <1>0, ConnThread DEF Init, Ending, InEnd
<1>5. Budget
  BY <1>0, <1>4, FS_EmptySet, ServerAssumption DEF Init, Budget
<1>6. RoomsInv /\ FutureBlank
  BY <1>1 DEF Init, RoomsInv, FutureBlank
<1>7. Gone
  BY ConnThread, RoomAssumption DEF Init, Gone, Holds, NewRoom, Absent
<1> QED  BY <1>2, <1>3, <1>5, <1>6, <1>7 DEF Inv

\* The inductive invariant holds in every behaviour.
THEOREM InvInvariant == Spec => []Inv
<1>1. Inv /\ [Next]_vars => Inv'
  BY TypeKept, ControlKept, BudgetKept, RoomsKept, FutureKept, GoneKept DEF Inv
<1> QED  BY InitInv, <1>1, PTL DEF Spec

-----------------------------------------------------------------------------
(* What it guarantees *)

\* Every variable keeps its type; in particular no handler asks the manager for
\* a generation it has not made, and no counter of the caps goes below zero.
THEOREM TypeCorrect == Spec => []TypeOK
<1>1. Inv => TypeOK
  BY DEF Inv
<1> QED  BY <1>1, InvInvariant, PTL

\* Nobody restricted ever has an open microphone, nobody muted ever speaks, in
\* any room, whichever mute, speaking, join and moderation frames race.
THEOREM MicrophonesSafe == Spec => []MicSafe
<1>1. Inv => MicSafe
  BY DEF Inv, RoomsInv, RoomOK, MicSafe
<1> QED  BY <1>1, InvInvariant, PTL

\* The owner role is exactly the recorded and the configured owners', and the
\* record is only ever claimed by whom the code lets claim it.
THEOREM OwnershipExact == Spec => []Ownership
<1>1. Inv => Ownership
  BY DEF Inv, RoomsInv, RoomOK, Ownership
<1> QED  BY <1>1, InvInvariant, PTL

\* No owner ever serves a kick cooldown or a restriction.
THEOREM OwnersImmune == Spec => []OwnerImmune
<1>1. Inv => OwnerImmune
  BY DEF Inv, RoomsInv, RoomOK, OwnerImmune
<1> QED  BY <1>1, InvInvariant, PTL

\* A user serving a kick cooldown is in no room, however many tabs join.
THEOREM KicksStick == Spec => []KickSticks
<1>1. Inv => KickSticks
  BY DEF Inv, RoomsInv, RoomOK, KickSticks
<1> QED  BY <1>1, InvInvariant, PTL

\* No interleaving of joins and take-overs fills a room beyond its capacity.
THEOREM CapacityRespected == Spec => []Capacity
<1>1. Inv => Capacity
  BY DEF Inv, RoomsInv, RoomOK, Capacity
<1> QED  BY <1>1, InvInvariant, PTL

\* The socket recorded for a participant is that user's own, so no socket is
\* two participants at once and no frame goes to somebody else's tab.
THEOREM SocketsOwn == Spec => []OwnSocket
<1>1. Inv => OwnSocket
  BY DEF Inv, RoomsInv, RoomOK, OwnSocket
<1> QED  BY <1>1, InvInvariant, PTL

\* No ghost participants: once the thread of a connection has ended, no room
\* from the registered one on holds it, whether the thread tore it down itself,
\* after the sweeper or at the same time, and whatever room was replaced then.
THEOREM NoGhosts == Spec => []NoGhost
<1>1. ASSUME Inv, NEW c \in Conns, pc[c] = "done", c \in Connections(rooms[current])
      PROVE  FALSE
  <2>1. current \in Gens /\ current >= current
    BY <1>1 DEF Inv, TypeOK, Gens
  <2>2. ~Holds(rooms[current], c)
    BY <1>1, <2>1 DEF Inv, Gone
  <2>3. PICK u \in Users : Inside(rooms[current], u) /\ rooms[current].parts[u].conn = c
    BY <1>1 DEF Connections, Members
  <2>4. UserOf[c] = u
    BY <1>1, <2>1, <2>3 DEF Inv, RoomsInv, RoomOK, HolderOK
  <2> QED  BY <2>2, <2>3, <2>4 DEF Holds
<1>2. Inv => NoGhost
  BY <1>1 DEF NoGhost
<1> QED  BY <1>2, InvInvariant, PTL

-----------------------------------------------------------------------------
(* Restrictions *)

\* Sections that leave the restriction of everybody they leave inside.
LEMMA KeepsRestriction ==
  ASSUME NEW r \in Room, NEW u \in Users, NEW v \in Users, r.parts[u].restricted
  PROVE  /\ Remove(r, v).parts[u].restricted \/ ~Inside(Remove(r, v), u)
         /\ \A c \in Conns : Join(r, v, c).parts[u].restricted
         /\ \A b \in BOOLEAN : SetMuted(r, v, b).parts[u].restricted
         /\ \A b \in BOOLEAN : SetSpeaking(r, v, b).parts[u].restricted
         /\ EndRoom(r).parts[u].restricted
         /\ ExpireCooldown(r, v).parts[u].restricted
<1>1. Remove(r, v).parts[u].restricted \/ ~Inside(Remove(r, v), u)
  BY DEF Remove, Inside, Absent, Room
<1>2. \A c \in Conns : Join(r, v, c).parts[u].restricted
  BY DEF Join, Room, Participant
<1>3. /\ \A b \in BOOLEAN : SetMuted(r, v, b).parts[u].restricted
      /\ \A b \in BOOLEAN : SetSpeaking(r, v, b).parts[u].restricted
  BY DEF SetMuted, SetSpeaking, Room, Participant
<1>4. EndRoom(r).parts[u].restricted /\ ExpireCooldown(r, v).parts[u].restricted
  BY DEF EndRoom, ExpireCooldown, Room
<1> QED  BY <1>1, <1>2, <1>3, <1>4

\* Either a section at "moderate" ran, or room g keeps the restriction of u.
LEMMA RestrictionStep ==
  ASSUME Inv, [Next]_vars, NEW g \in Gens, NEW u \in Users,
         rooms[g].parts[u].restricted
  PROVE  \/ rooms'[g].parts[u].restricted
         \/ ~Inside(rooms'[g], u)
         \/ \E c \in Conns : pc[c] = "moderate" /\ pc'[c] # "moderate"
<1> DEFINE Kept == rooms'[g].parts[u].restricted \/ ~Inside(rooms'[g], u)
           Moderated == \E c \in Conns : pc[c] = "moderate" /\ pc'[c] # "moderate"
<1>1. ASSUME NEW t \in Threads, pc[t] \in WithRoom, NEW s, Update(t, s),
             s.parts[u].restricted \/ ~Inside(s, u) \/ room[t] # g
      PROVE  Kept
  BY <1>1 DEF Update, Inv, TypeOK
<1>2. ASSUME NEW t \in Threads, pc[t] \in WithRoom
      PROVE  rooms[room[t]] \in Room
  BY <1>2, RoomRef DEF Inv
<1>3. CASE rooms' = rooms
  BY <1>3
<1>4. ASSUME NEW c \in Conns, JoinAdmitted(c)
      PROVE  Kept
  <2>1. c \in Threads /\ UserOf[c] \in Users /\ pc[c] \in WithRoom
    BY <1>4, ConnThread DEF JoinAdmitted, WithRoom
  <2>2. room[c] = g => Join(rooms[room[c]], UserOf[c], c).parts[u].restricted
    BY <1>2, <2>1, KeepsRestriction
  <2> QED  BY <1>1, <1>4, <2>1, <2>2 DEF JoinAdmitted
<1>5. ASSUME NEW c \in Conns, Mute(c) \/ Speak(c)
      PROVE  Kept
  <2>1. c \in Threads /\ UserOf[c] \in Users /\ pc[c] \in WithRoom
    BY <1>5, ConnThread DEF Mute, Speak, WithRoom
  <2>2. PICK b \in BOOLEAN : \/ Update(c, SetMuted(rooms[room[c]], UserOf[c], b))
                             \/ Update(c, SetSpeaking(rooms[room[c]], UserOf[c], b))
    BY <1>5 DEF Mute, Speak, Changed
  <2>3. room[c] = g => /\ SetMuted(rooms[room[c]], UserOf[c], b).parts[u].restricted
                       /\ SetSpeaking(rooms[room[c]], UserOf[c], b).parts[u].restricted
    BY <1>2, <2>1, KeepsRestriction
  <2> QED  BY <1>1, <2>1, <2>2, <2>3
<1>6. ASSUME NEW c \in Conns, ModerateParticipant(c) \/ ModerateLock(c) \/ Kick(c)
      PROVE  Moderated
  BY <1>6, ConnThread DEF ModerateParticipant, ModerateLock, Kick, Changed, Go, Inv, TypeOK
<1>7. ASSUME NEW c \in Conns, EndLock(c)
      PROVE  Kept
  <2>1. c \in Threads /\ pc[c] \in WithRoom /\ Update(c, EndRoom(rooms[room[c]]))
    BY <1>7, ConnThread DEF EndLock, WithRoom
  <2>2. room[c] = g => EndRoom(rooms[room[c]]).parts[u].restricted
    BY <1>2, <2>1, KeepsRestriction
  <2> QED  BY <1>1, <2>1, <2>2
<1>8. ASSUME NEW t \in Threads, NEW v \in Users, pc[t] \in WithRoom,
             Update(t, Remove(rooms[room[t]], v))
      PROVE  Kept
  <2>1. room[t] = g => \/ Remove(rooms[room[t]], v).parts[u].restricted
                       \/ ~Inside(Remove(rooms[room[t]], v), u)
    BY <1>2, <1>8, KeepsRestriction
  <2> QED  BY <1>1, <1>8, <2>1
<1>9. ASSUME NEW c \in Conns, Handler(c)
      PROVE  Kept \/ Moderated
  <2>1. CASE LeaveLock(c)
    BY <1>3, <1>8, <2>1, ConnThread DEF LeaveLock, WithRoom
  <2>2. CASE JoinReturns(c) \/ Welcome(c) \/ Refused(c) \/ Cast(c) \/ Reset(c)
    BY <1>3, <2>2 DEF JoinReturns, Welcome, Refused, Cast, Reset, roomVars
  <2>3. CASE \E at, next : Retire(c, at, next) \/ Close(c, at, next)
    BY <1>3, <2>3 DEF Retire, Close, roomVars
  <2> QED  BY <1>4, <1>5, <1>6, <1>7, <1>9, <2>1, <2>2, <2>3 DEF Handler
<1>10. ASSUME NEW t \in Threads, Cleanup(t)
       PROVE  Kept
  <2>1. CASE CleanLock(t)
    <3>1. pc[t] \in WithRoom /\ pc[t] \in InCleanup
      BY <2>1 DEF CleanLock, WithRoom, InCleanup
    <3>2. UserOf[Subject(t)] \in Users
      BY <3>1, SubjectType, RoomAssumption DEF Inv
    <3> QED  BY <1>3, <1>8, <2>1, <3>1, <3>2 DEF CleanLock
  <2>2. CASE Pop(t) \/ CleanBegin(t) \/ CleanCast(t) \/ CleanEnd(t)
    BY <1>3, <2>2 DEF Pop, CleanBegin, LeaveBegin, CleanCast, CleanEnd, roomVars
  <2> QED  BY <1>10, <2>1, <2>2 DEF Cleanup
<1>11. ASSUME NEW v \in Users, CooldownOver(v)
       PROVE  Kept
  <2>1. PICK h \in Gens : rooms' = [rooms EXCEPT ![h] = ExpireCooldown(@, v)]
    BY <1>11 DEF CooldownOver
  <2>2. rooms[h] \in Room
    BY DEF Inv, TypeOK
  <2>3. h = g => ExpireCooldown(rooms[h], v).parts[u].restricted
    BY <2>2, KeepsRestriction
  <2> QED  BY <2>1, <2>3 DEF Inv, TypeOK
<1>12. CASE \/ Sweep
            \/ UNCHANGED vars
            \/ \E c \in Conns :
                 Acquire(c) \/ Register(c) \/ Frame(c) \/ ReadExit(c) \/ PeerGone(c)
  BY <1>3, <1>12 DEF Sweep, SweepStart, SweepEnd, SweepSkip, SweepReap, vars, Acquire,
         Register, Frame, JoinLookup, Leave, LeaveBegin, End, Handle, ReadExit, PeerGone,
         roomVars
<1> QED  BY <1>9, <1>10, <1>11, <1>12 DEF Next

\* A second tab, a microphone frame, an ending room or the sweeper never lift a
\* restriction from somebody who stays inside: only a moderator's section does.
THEOREM RestrictionsStick == Spec => RestrictionSticks
<1>1. ASSUME Inv, [Next]_vars, NEW g \in Gens, NEW u \in Users
      PROVE  rooms[g].parts[u].restricted /\ ~rooms[g].parts[u].restricted' =>
               \/ ~Inside(rooms'[g], u)
               \/ \E c \in Conns : pc[c] = "moderate" /\ pc'[c] # "moderate"
  BY <1>1, RestrictionStep
<1>2. Inv /\ [Next]_vars =>
        [\A g \in Gens, u \in Users :
           rooms[g].parts[u].restricted /\ ~rooms[g].parts[u].restricted' =>
             \/ ~Inside(rooms'[g], u)
             \/ \E c \in Conns : pc[c] = "moderate" /\ pc'[c] # "moderate"]_vars
  BY <1>1
<1> QED  BY <1>2, InvInvariant, PTL DEF Spec, RestrictionSticks

-----------------------------------------------------------------------------
(* END_ROOM *)

\* What no section takes back: that a room is ended, and who owns it.
Lasts(r, s) ==
  /\ r.ended => s.ended
  /\ r.owner # Nobody => s.owner = r.owner

LEMMA SectionsLast ==
  ASSUME NEW r \in Room, NEW u \in Users
  PROVE  /\ Lasts(r, r) /\ Lasts(r, Remove(r, u)) /\ Lasts(r, EndRoom(r))
         /\ Lasts(r, ExpireCooldown(r, u))
         /\ \A c \in Conns : Lasts(r, Join(r, u, c))
         /\ \A b \in BOOLEAN : /\ Lasts(r, SetMuted(r, u, b))
                               /\ Lasts(r, SetSpeaking(r, u, b))
                               /\ Lasts(r, SetLocked(r, b))
         /\ \A a \in ModerationAction : Lasts(r, Moderate(r, u, a))
<1>1. /\ Lasts(r, r) /\ Lasts(r, Remove(r, u)) /\ Lasts(r, EndRoom(r))
      /\ Lasts(r, ExpireCooldown(r, u))
  BY DEF Lasts, Remove, EndRoom, ExpireCooldown, Room
<1>2. \A c \in Conns : Lasts(r, Join(r, u, c))
  BY DEF Lasts, Join, AdoptOwner, Room
<1>3. \A b \in BOOLEAN : /\ Lasts(r, SetMuted(r, u, b))
                         /\ Lasts(r, SetSpeaking(r, u, b))
                         /\ Lasts(r, SetLocked(r, b))
  BY DEF Lasts, SetMuted, SetSpeaking, SetLocked, Room
<1>4. \A a \in ModerationAction : Lasts(r, Moderate(r, u, a))
  BY DEF Lasts, ModerationAction, Moderate, Remove, Room
<1> QED  BY <1>1, <1>2, <1>3, <1>4

\* An ended room stays ended, a recorded owner stays recorded, whoever works on
\* the room.
LEMMA RecordKept ==
  ASSUME Inv, [Next]_vars, NEW g \in Gens
  PROVE  Lasts(rooms[g], rooms'[g])
<1>1. ASSUME NEW t \in Threads, pc[t] \in WithRoom, NEW s, Update(t, s),
             Lasts(rooms[room[t]], s)
      PROVE  Lasts(rooms[g], rooms'[g])
  <2>1. Lasts(rooms[g], rooms[g])
    BY DEF Lasts
  <2> QED  BY <1>1, <2>1 DEF Update, Inv, TypeOK
<1>2. CASE rooms' = rooms
  BY <1>2 DEF Lasts
<1>3. ASSUME NEW c \in Conns, Handler(c)
      PROVE  Lasts(rooms[g], rooms'[g])
  <2>1. c \in Threads /\ UserOf[c] \in Users
    BY ConnThread
  <2>2. ASSUME pc[c] \in WithRoom
        PROVE  rooms[room[c]] \in Room
    BY <2>1, <2>2, RoomRef DEF Inv
  <2>3. ASSUME pc[c] \in WithRoom, NEW s, Update(c, s), NEW u \in Users,
               \/ s = Remove(rooms[room[c]], u) \/ s = EndRoom(rooms[room[c]])
               \/ s = Join(rooms[room[c]], u, c)
               \/ \E b \in BOOLEAN : \/ s = SetMuted(rooms[room[c]], u, b)
                                     \/ s = SetSpeaking(rooms[room[c]], u, b)
                                     \/ s = SetLocked(rooms[room[c]], b)
               \/ \E a \in ModerationAction : s = Moderate(rooms[room[c]], u, a)
        PROVE  Lasts(rooms[g], rooms'[g])
    <3>1. Lasts(rooms[room[c]], s)
      BY <2>2, <2>3, SectionsLast
    <3> QED  BY <1>1, <2>1, <2>3, <3>1
  <2>4. CASE JoinAdmitted(c)
    BY <2>1, <2>3, <2>4 DEF JoinAdmitted, WithRoom
  <2>5. CASE LeaveLock(c)
    BY <1>2, <2>1, <2>3, <2>5 DEF LeaveLock, WithRoom
  <2>6. CASE Mute(c) \/ Speak(c)
    BY <2>1, <2>3, <2>6 DEF Mute, Speak, Changed, WithRoom
  <2>7. CASE ModerateParticipant(c) \/ ModerateLock(c)
    BY <2>1, <2>3, <2>7 DEF ModerateParticipant, ModerateLock, Changed, WithRoom
  <2>8. CASE Kick(c)
    <3>1. "kick" \in ModerationAction /\ pc[c] \in WithRoom
      BY <2>8 DEF Kick, ModerationAction, WithRoom
    <3> QED  BY <2>3, <2>8, <3>1 DEF Kick
  <2>9. CASE EndLock(c)
    BY <2>1, <2>3, <2>9 DEF EndLock, WithRoom
  <2>10. CASE JoinReturns(c) \/ Welcome(c) \/ Refused(c) \/ Cast(c) \/ Reset(c)
    BY <1>2, <2>10 DEF JoinReturns, Welcome, Refused, Cast, Reset, roomVars
  <2>11. CASE \E at, next : Retire(c, at, next) \/ Close(c, at, next)
    BY <1>2, <2>11 DEF Retire, Close, roomVars
  <2> QED
    BY <1>3, <2>4, <2>5, <2>6, <2>7, <2>8, <2>9, <2>10, <2>11 DEF Handler
<1>4. ASSUME NEW t \in Threads, Cleanup(t)
      PROVE  Lasts(rooms[g], rooms'[g])
  <2>1. CASE CleanLock(t)
    <3>1. pc[t] \in WithRoom /\ pc[t] \in InCleanup
      BY <2>1 DEF CleanLock, WithRoom, InCleanup
    <3>2. UserOf[Subject(t)] \in Users /\ rooms[room[t]] \in Room
      BY <3>1, SubjectType, RoomRef, RoomAssumption DEF Inv
    <3>3. Lasts(rooms[room[t]], Remove(rooms[room[t]], UserOf[Subject(t)]))
      BY <3>2, SectionsLast
    <3> QED  BY <1>1, <1>2, <2>1, <3>1, <3>3 DEF CleanLock
  <2>2. CASE Pop(t) \/ CleanBegin(t) \/ CleanCast(t) \/ CleanEnd(t)
    BY <1>2, <2>2 DEF Pop, CleanBegin, LeaveBegin, CleanCast, CleanEnd, roomVars
  <2> QED  BY <1>4, <2>1, <2>2 DEF Cleanup
<1>5. ASSUME NEW u \in Users, CooldownOver(u)
      PROVE  Lasts(rooms[g], rooms'[g])
  <2>1. PICK h \in Gens : rooms' = [rooms EXCEPT ![h] = ExpireCooldown(@, u)]
    BY <1>5 DEF CooldownOver
  <2>2. Lasts(rooms[h], ExpireCooldown(rooms[h], u)) /\ Lasts(rooms[g], rooms[g])
    BY SectionsLast DEF Inv, TypeOK
  <2> QED  BY <2>1, <2>2 DEF Inv, TypeOK
<1>6. CASE \/ Sweep
           \/ UNCHANGED vars
           \/ \E c \in Conns :
                Acquire(c) \/ Register(c) \/ Frame(c) \/ ReadExit(c) \/ PeerGone(c)
  BY <1>2, <1>6 DEF Sweep, SweepStart, SweepEnd, SweepSkip, SweepReap, vars, Acquire,
         Register, Frame, JoinLookup, Leave, LeaveBegin, End, Handle, ReadExit, PeerGone,
         roomVars
<1> QED  BY <1>3, <1>4, <1>5, <1>6 DEF Next

OnReset == {"endRetire", "endClose", "endReset"}

\* How the thread of c gets along the way of END_ROOM: it enters by a frame,
\* passes the owner's section, and keeps the room it fetched.
EndStep(c) ==
  \/ pc'[c] \notin InEnd
  \/ pc'[c] = pc[c] /\ room'[c] = room[c]
  \/ End(c) \/ EndLock(c)
  \/ pc[c] \in OnReset /\ pc'[c] \in OnReset /\ room'[c] = room[c]

\* A step of thread t to a place off that way.
Aside(t) == \E l \in Places \ InEnd : \E g, V : Go(t, l, g, V)

LEMMA AsideStep ==
  ASSUME Inv, NEW t \in Threads, Aside(t), NEW c \in Conns
  PROVE  EndStep(c)
  BY ConnThread DEF Aside, Go, EndStep, Inv, TypeOK

LEMMA EndPath ==
  ASSUME Inv, [Next]_vars, NEW c \in Conns
  PROVE  EndStep(c)
<1>1. CASE UNCHANGED <<pc, room>>
  BY <1>1 DEF EndStep
<1>2. ASSUME NEW d \in Conns,
             Acquire(d) \/ Register(d) \/ Frame(d) \/ ReadExit(d) \/ PeerGone(d)
      PROVE  EndStep(c)
  <2>1. d \in Threads
    BY ConnThread
  <2>2. CASE PeerGone(d)
    BY <1>1, <2>2 DEF PeerGone
  <2>3. CASE End(d)
    BY <2>1, <2>3, ConnThread DEF End, Go, EndStep, Inv, TypeOK
  <2>4. CASE ~PeerGone(d) /\ ~End(d)
    <3>1. PICK l, g : Go(d, l, g, {}) /\ l \in {"opened", "done", "read", "pop", "join",
                                              "leave", "mute", "speak", "moderate"}
      BY <1>2, <2>4 DEF Acquire, Register, ReadExit, Frame, JoinLookup, Leave, LeaveBegin,
                        Handle
    <3>2. l \in Places \ InEnd
      BY <3>1 DEF Places, InHandler, InCleanup, Idle, InEnd
    <3> QED  BY <2>1, <3>1, <3>2, AsideStep DEF Aside
  <2> QED  BY <2>2, <2>3, <2>4
<1>3. ASSUME NEW d \in Conns, Handler(d)
      PROVE  EndStep(c)
  <2>1. d \in Threads
    BY ConnThread
  <2>2. CASE EndLock(d)
    BY <2>1, <2>2, ConnThread DEF EndLock, Go, EndStep, Inv, TypeOK
  <2>3. CASE Retire(d, "endRetire", "endClose") \/ Close(d, "endClose", "endReset")
    <3>1. pc[d] \in OnReset /\ \E l \in OnReset : \E V : Go(d, l, room[d], V)
      BY <2>3 DEF Retire, Close, OnReset
    <3> QED  BY <2>1, <3>1, ConnThread DEF Go, EndStep, Inv, TypeOK
  <2>4. CASE ~EndLock(d) /\ ~Retire(d, "endRetire", "endClose")
             /\ ~Close(d, "endClose", "endReset")
    <3>1. PICK l, g, V :
            /\ Go(d, l, g, V)
            /\ l \in {"read", "pop", "welcome", "joinRetire", "joinClose", "cast",
                      "kickRetire", "kickClose"}
      BY <1>3, <2>4 DEF Handler, JoinReturns, JoinAdmitted, Welcome, Retire, Close,
          LeaveLock, Mute, Speak, ModerateParticipant, ModerateLock, Kick, Refused, Changed,
          Reset, Cast, Resume
    <3>2. l \in Places \ InEnd
      BY <3>1 DEF Places, InHandler, InCleanup, Idle, InEnd
    <3> QED  BY <2>1, <3>1, <3>2, AsideStep DEF Aside
  <2> QED  BY <2>2, <2>3, <2>4
<1>4. ASSUME NEW t \in Threads, Cleanup(t)
      PROVE  EndStep(c)
  <2>1. PICK l, g : Go(t, l, g, {}) /\ l \in {"get", "drop", "castLeft", "free", "scan", "done"}
    BY <1>4 DEF Cleanup, Pop, CleanBegin, LeaveBegin, CleanLock, CleanCast, CleanEnd
  <2>2. l \in Places \ InEnd
    BY <2>1 DEF Places, InHandler, InCleanup, Idle, InEnd
  <2> QED  BY <2>1, <2>2, AsideStep DEF Aside
<1>5. CASE Sweep
  <2>1. UNCHANGED <<pc, room>> \/ \E l \in {"scan", "idle", "pop"} : Go(Reaper, l, 0, {})
    BY <1>5 DEF Sweep, SweepStart, SweepEnd, SweepSkip, SweepReap
  <2>2. {"scan", "idle", "pop"} \subseteq Places \ InEnd /\ Reaper \in Threads
    BY DEF Places, InHandler, InCleanup, Idle, InEnd, Threads
  <2> QED  BY <1>1, <2>1, <2>2, AsideStep DEF Aside
<1>6. CASE UNCHANGED vars \/ \E u \in Users : CooldownOver(u)
  BY <1>1, <1>6 DEF vars, CooldownOver
<1> QED  BY <1>2, <1>3, <1>4, <1>5, <1>6 DEF Next

\* Only a connection's thread makes the manager replace the room.
LEMMA ResetStep ==
  ASSUME Inv, [Next]_vars, current' # current
  PROVE  \E c \in Conns :
           /\ pc[c] = "endReset" /\ pc'[c] \notin InEnd
           /\ \A d \in Conns \ {c} : pc'[d] = pc[d]
<1>1. PICK t, l, g, V : Move(t, l, g, V)
  BY StepMoves DEF Inv, Moves, Still
<1>2. /\ pc[t] = "endReset" /\ l \notin InEnd /\ t \in Threads /\ pc'[t] = l
      /\ \A d \in Conns \ {t} : pc'[d] = pc[d]
  BY <1>1, ConnThread DEF Move, Go, Inv, TypeOK
<1>3. t \in Conns
  BY <1>2 DEF Inv, Control, InCleanup, Threads
<1> QED  BY <1>2, <1>3

\* A handler on its way to a reset has ended the room it holds, for an owner.
Rightful(c) ==
  pc[c] \in OnReset =>
    /\ rooms[room[c]].ended
    /\ UserOf[c] \in OwnerIds \cup {rooms[room[c]].owner}

LEMMA RightfulKept ==
  ASSUME Inv, [Next]_vars, NEW c \in Conns, Rightful(c)
  PROVE  Rightful(c)'
<1>0. /\ c \in Threads /\ UserOf[c] \in Users /\ Nobody \notin Users
      /\ pc[c] \in InEnd => room[c] \in Gens /\ rooms[room[c]] \in Room
  BY ConnThread, RoomAssumption, RoomRef DEF Inv, InEnd, WithRoom
<1>1. CASE pc'[c] \notin OnReset
  BY <1>1 DEF Rightful
<1>2. CASE pc[c] \in OnReset /\ room'[c] = room[c]
  <2>1. pc[c] \in InEnd /\ Lasts(rooms[room[c]], rooms'[room[c]])
    BY <1>0, <1>2, RecordKept DEF OnReset, InEnd
  <2> QED  BY <1>0, <1>2, <2>1 DEF Rightful, Lasts
<1>3. CASE EndLock(c)
  <2> DEFINE r == rooms[room[c]]
  <2>1. /\ pc[c] = "end" /\ IsOwner(r, UserOf[c])
        /\ rooms' = [rooms EXCEPT ![room[c]] = EndRoom(r)]
        /\ room'[c] = room[c]
    BY <1>0, <1>3 DEF EndLock, Update, Go, Inv, TypeOK
  <2>2. r \in Room /\ room[c] \in Gens /\ OwnerOK(r)
    BY <1>0, <2>1 DEF InEnd, Inv, RoomsInv, RoomOK
  <2>3. UserOf[c] = r.owner \/ UserOf[c] \in OwnerIds
    BY <1>0, <2>1, <2>2 DEF OwnerOK, IsOwner, Members
  <2>4. rooms'[room'[c]] = EndRoom(r)
    BY <2>1, <2>2 DEF Inv, TypeOK
  <2>5. EndRoom(r).ended /\ EndRoom(r).owner = r.owner
    BY <2>2 DEF EndRoom, Room
  <2> QED  BY <2>3, <2>4, <2>5 DEF Rightful
<1>4. pc'[c] \in OnReset => pc'[c] \in InEnd /\ ~End(c)
  BY <1>0 DEF OnReset, InEnd, End, Go, Inv, TypeOK
<1> QED  BY <1>1, <1>2, <1>3, <1>4, EndPath DEF EndStep

LEMMA RightfulInvariant == Spec => [](Inv /\ \A c \in Conns : Rightful(c))
<1>1. Init => \A c \in Conns : Rightful(c)
  BY ConnThread DEF Init, Rightful, OnReset
<1>2. Inv /\ (\A c \in Conns : Rightful(c)) /\ [Next]_vars => (\A c \in Conns : Rightful(c))'
  BY RightfulKept
<1> QED  BY <1>1, <1>2, InvInvariant, PTL DEF Spec

\* Whoever makes the manager replace the room is an owner of the room it
\* fetched, and that room is ended: neither a refused END_ROOM, nor a moderator,
\* nor the sweeper ever wipes one.
THEOREM ResetsFollowEnds == Spec => ResetsEnded
<1>1. ASSUME Inv, \A c \in Conns : Rightful(c), [Next]_vars, current' # current
      PROVE  \E c \in Conns :
               /\ pc[c] = "endReset" /\ pc'[c] # "endReset"
               /\ rooms[room[c]].ended
               /\ UserOf[c] \in OwnerIds \cup {rooms[room[c]].owner}
  <2>1. PICK c \in Conns : pc[c] = "endReset" /\ pc'[c] \notin InEnd
    BY <1>1, ResetStep
  <2> QED  BY <1>1, <2>1 DEF Rightful, OnReset, InEnd
<1>2. Inv /\ (\A c \in Conns : Rightful(c)) /\ [Next]_vars =>
        [current' # current =>
           \E c \in Conns :
             /\ pc[c] = "endReset" /\ pc'[c] # "endReset"
             /\ rooms[room[c]].ended
             /\ UserOf[c] \in OwnerIds \cup {rooms[room[c]].owner}]_vars
  BY <1>1
<1> QED  BY <1>2, RightfulInvariant, PTL DEF Spec, ResetsEnded

\* No two handlers are on the way of END_ROOM at the same time.
EndsApart == \A c, d \in Conns : pc[c] \in InEnd /\ pc[d] \in InEnd => c = d

\* The only way to wipe a room in use is two overlapping ENDs: where they never
\* overlap, what is replaced is the ended room.
THEOREM WipesNeedTwoEnds == Spec /\ []EndsApart => WipesEndedOnly
<1> DEFINE Fresh == \A c \in Conns : pc[c] \in InEnd => room[c] = current
<1>1. Init => Fresh
  BY ConnThread DEF Init, InEnd
<1>2. ASSUME Inv, EndsApart, Fresh, [Next]_vars, NEW c \in Conns, pc'[c] \in InEnd
      PROVE  room'[c] = current'
  <2>1. current' = current
    <3>1. SUFFICES ASSUME current' # current
                   PROVE  FALSE
      OBVIOUS
    <3>2. PICK d \in Conns : /\ pc[d] = "endReset" /\ pc'[d] \notin InEnd
                             /\ \A e \in Conns \ {d} : pc'[e] = pc[e]
      BY <1>2, <3>1, ResetStep
    <3>3. pc[c] \in InEnd /\ c # d
      BY <1>2, <3>2
    <3> QED  BY <1>2, <3>2, <3>3 DEF EndsApart, InEnd
  <2>2. EndStep(c)
    BY <1>2, EndPath
  <2>3. End(c) => room'[c] = current
    <3>1. ASSUME End(c)
          PROVE  room' = [room EXCEPT ![c] = current]
      BY <3>1 DEF End, Go
    <3> QED  BY <3>1, <1>2, ConnThread DEF Inv, TypeOK
  <2>4. EndLock(c) => room'[c] = room[c] /\ pc[c] \in InEnd
    BY ConnThread DEF EndLock, Go, Inv, TypeOK, InEnd
  <2> QED  BY <1>2, <2>1, <2>2, <2>3, <2>4 DEF EndStep, Fresh, OnReset, InEnd
<1>3. Inv /\ EndsApart /\ Fresh /\ [Next]_vars => Fresh'
  BY <1>2
<1>4. ASSUME Inv, \A c \in Conns : Rightful(c), Fresh, [Next]_vars, current' # current
      PROVE  rooms[current].ended
  <2>1. PICK c \in Conns : pc[c] = "endReset"
    BY <1>4, ResetStep
  <2> QED  BY <1>4, <2>1 DEF Rightful, OnReset, InEnd
<1>5. Inv /\ (\A c \in Conns : Rightful(c)) /\ Fresh /\ [Next]_vars =>
        [current' # current => rooms[current].ended \/ Members(rooms[current]) = {}]_vars
  BY <1>4
<1> QED  BY <1>1, <1>3, <1>5, RightfulInvariant, PTL DEF Spec, WipesEndedOnly

=============================================================================
