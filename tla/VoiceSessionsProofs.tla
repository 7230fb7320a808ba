------------------------ MODULE VoiceSessionsProofs ------------------------
(***************************************************************************)
(* What a socket believes (Connection.joined) against what the rooms hold. *)
(*                                                                         *)
(* The two are written by different steps of different threads, so between *)
(* them they differ.  The invariant names every way they may: a handler is *)
(* about to tell the newcomer, a departure is about to take the place, or   *)
(* the socket is doomed, its close already on some thread's list.  A quiet *)
(* server has none of these left.                                          *)
(***************************************************************************)
EXTENDS VoiceServerProofs

Taking == {"joinRetire", "joinClose", "kickRetire", "kickClose", "endRetire",
           "endClose"}
Entering == {"joinRetire", "joinClose", "welcome"}
Departing == {"leave", "drop"}

\* Only a thread on its way to close its victims has any.
Victims == \A t \in Threads : victims[t] # {} => pc[t] \in Taking

\* A connection whose handler has yet to set the flag has its place.
Awaited(c) == pc[c] \in Entering => Holds(rooms[room[c]], c) \/ Doomed(c)

\* So does one whose frame is under way to its section.
Engaged(c) == pc[c] \in Acting => Holds(rooms[room[c]], c) \/ Doomed(c)

\* One whose handler has yet to give up the place has lost the flag.
Lowered(c) == pc[c] \in Departing => c \notin joined

\* The flag means a place, in some generation of the room.
Placed(c) == c \in joined => Doomed(c) \/ \E g \in Gens : Holds(rooms[g], c)

\* A place in the room clients are in means the flag.
Aware(c) ==
  Holds(rooms[current], c) =>
    \/ c \in joined \/ Doomed(c)
    \/ pc[c] \in Entering
    \/ pc[c] \in Departing /\ room[c] = current

Standing(c) == Awaited(c) /\ Engaged(c) /\ Lowered(c) /\ Placed(c) /\ Aware(c)

SInv == Victims /\ \A c \in Conns : Standing(c)

-----------------------------------------------------------------------------
(* Steps that move nobody *)

\* The step of thread t that leads to l with V in its hands drops nobody it was
\* to close, nor does it pick anybody up on the way to anywhere else.
Grip(t, l, V) ==
  /\ closing \subseteq closing'
  /\ victims[t] \subseteq V \cup closing'
  /\ V = {} \/ l \in Taking
  /\ t # Reaper => reaping' = reaping
  /\ t = Reaper /\ pc[t] \in InCleanup =>
       \/ reaping \in closing'
       \/ reaping' = reaping /\ l \in InCleanup

LEMMA GripKeeps ==
  ASSUME Inv, Victims, NEW t \in Threads, NEW l, NEW g, NEW V \in SUBSET Conns,
         Go(t, l, g, V), Grip(t, l, V)
  PROVE  Victims' /\ \A d \in Conns : Doomed(d) => Doomed(d)'
<1>1. /\ pc' = [pc EXCEPT ![t] = l] /\ victims' = [victims EXCEPT ![t] = V]
      /\ pc \in [Threads -> Places] /\ victims \in [Threads -> SUBSET Conns]
      /\ Reaper \in Threads
  BY DEF Go, Inv, TypeOK, Threads
<1>2. Victims'
  BY <1>1 DEF Victims, Grip
<1>3. ASSUME NEW d \in Conns, Doomed(d)
      PROVE  Doomed(d)'
  <2>1. CASE d \in closing
    BY <2>1 DEF Grip, Doomed
  <2>2. CASE reaping = d /\ pc[Reaper] \in InCleanup
    BY <1>1, <2>2 DEF Grip, Doomed
  <2>3. ASSUME NEW s \in Threads, d \in victims[s]
        PROVE  d \in closing' \/ d \in victims'[s]
    BY <1>1, <2>3 DEF Grip
  <2> QED
    BY <1>3, <2>1, <2>2, <2>3 DEF Doomed
<1> QED
  BY <1>2, <1>3

\* What a step may do to connection d without anybody's word to it.
Tame(d) ==
  /\ pc[d] \in Entering <=> pc'[d] \in Entering
  /\ pc[d] \in Departing <=> pc'[d] \in Departing
  /\ pc[d] \in Entering \cup Departing => room'[d] = room[d]
  /\ pc'[d] \in Acting => \/ pc[d] \in Acting /\ room'[d] = room[d]
                          \/ Holds(rooms'[room'[d]], d)
  /\ d \in joined' => d \in joined
  /\ d \in joined => d \in joined' \/ Doomed(d)'
  /\ \A g \in Gens :
       /\ Holds(rooms'[g], d) => Holds(rooms[g], d)
       /\ Holds(rooms[g], d) => Holds(rooms'[g], d) \/ Doomed(d)'

\* A generation that becomes the current one is blank.
LEMMA Onward ==
  ASSUME Inv, [Next]_vars
  PROVE  /\ current' \in Gens
         /\ current' = current \/ \A d \in Conns : ~Holds(rooms'[current'], d)
<1>1. current \in Nat /\ current' \in Gens /\ current' \in Nat /\ current <= current'
  BY BudgetKept DEF Inv, TypeOK, Gens
<1>2. current' # current => rooms'[current'] = NewRoom
  BY <1>1, RoomsKept
<1> QED
  BY <1>1, <1>2, ConnThread, RoomAssumption DEF Holds, NewRoom, Absent

LEMMA TameStanding ==
  ASSUME Inv, [Next]_vars, NEW d \in Conns, Standing(d), Tame(d),
         Doomed(d) => Doomed(d)'
  PROVE  Standing(d)'
<1>1. d \in Threads /\ current \in Gens
  BY ConnThread DEF Inv, TypeOK
<1>2. pc[d] \in Entering \cup Departing \cup Acting => room[d] \in Gens
  BY <1>1 DEF Inv, Control, Acting, Entering, Departing, WithRoom
<1>3. Awaited(d)'
  BY <1>2 DEF Standing, Tame, Awaited
<1>4. Lowered(d)' /\ Engaged(d)'
  BY <1>2 DEF Standing, Tame, Lowered, Engaged
<1>5. Placed(d)'
  BY DEF Standing, Tame, Placed
<1>6. Aware(d)'
  BY <1>1, <1>2, Onward DEF Standing, Tame, Aware
<1> QED
  BY <1>3, <1>4, <1>5, <1>6 DEF Standing

\* The same for a thread that only goes from one place to the next.
Same == \A g \in Gens, d \in Conns : Holds(rooms'[g], d) <=> Holds(rooms[g], d)

\* A thread may also take places from those who are doomed.
Shed ==
  \A g \in Gens, d \in Conns :
    /\ Holds(rooms'[g], d) => Holds(rooms[g], d)
    /\ Holds(rooms[g], d) => Holds(rooms'[g], d) \/ Doomed(d)'

LEMMA SameShed == Same => Shed
  BY DEF Same, Shed

Passes(t, l, g) ==
  t \in Conns =>
    /\ pc[t] \in Entering <=> l \in Entering
    /\ pc[t] \in Departing <=> l \in Departing
    /\ pc[t] \in Entering => g = room[t]
    /\ pc[t] \notin Departing
    /\ l \in Acting => Holds(rooms'[g], t)

LEMMA PassingStep ==
  ASSUME Inv, SInv, [Next]_vars, Shed,
         NEW t \in Threads, NEW l, NEW g, NEW V \in SUBSET Conns,
         Go(t, l, g, V), Grip(t, l, V), Passes(t, l, g),
         joined' \subseteq joined, \A d \in joined : d \in joined' \/ Doomed(d)'
  PROVE  SInv'
<1>1. Victims' /\ \A d \in Conns : Doomed(d) => Doomed(d)'
  BY GripKeeps DEF SInv
<1>2. /\ pc' = [pc EXCEPT ![t] = l] /\ room' = [room EXCEPT ![t] = g]
      /\ pc \in [Threads -> Places] /\ room \in [Threads -> 0..MaxRooms]
  BY DEF Go, Inv, TypeOK
<1>3. ASSUME NEW d \in Conns
      PROVE  Tame(d)
  <2>1. d \in Threads
    BY ConnThread
  <2> QED
    BY <1>2, <2>1 DEF Tame, Passes, Shed
<1> QED
  BY <1>1, <1>3, TameStanding DEF SInv

LEMMA StillStep ==
  ASSUME Inv, SInv, [Next]_vars, Same, UNCHANGED <<pc, room, victims, joined, reaping>>,
         closing \subseteq closing'
  PROVE  SInv'
<1>1. Victims' /\ \A d \in Conns : Doomed(d) => Doomed(d)'
  BY DEF SInv, Victims, Doomed
<1>2. \A d \in Conns : Tame(d)
  BY DEF Tame, Same
<1> QED
  BY <1>1, <1>2, TameStanding DEF SInv

\* A thread that has nothing to close and takes nothing on.
LEMMA FreeStep ==
  ASSUME Inv, SInv, [Next]_vars, Same, NEW c \in Conns, NEW l, NEW g,
         Go(c, l, g, {}), pc[c] \notin Taking, Passes(c, l, g),
         closing \subseteq closing', UNCHANGED <<joined, reaping>>
  PROVE  SInv'
<1>1. c \in Threads /\ c # Reaper
  BY ConnThread
<1>2. Grip(c, l, {})
  BY <1>1 DEF Grip, SInv, Victims
<1> QED
  BY <1>1, <1>2, SameShed, PassingStep

LEMMA SameRooms == rooms' = rooms => Same
  BY DEF Same

\* A section that may rewrite everything but who holds which place.
LEMMA SameSection ==
  ASSUME TypeOK, NEW t \in Threads, room[t] \in Gens, NEW s, Update(t, s),
         \A v \in Users : s.parts[v].conn = rooms[room[t]].parts[v].conn
  PROVE  Same
<1>1. \A h \in Gens : rooms'[h] = IF h = room[t] THEN s ELSE rooms[h]
  BY DEF TypeOK, Update
<1> QED
  BY <1>1, ConnThread DEF Same, Holds

-----------------------------------------------------------------------------
(* Handshake, read loop, frames *)

LEMMA OpenStands ==
  ASSUME Inv, SInv, [Next]_vars, NEW c \in Conns,
         Acquire(c) \/ Register(c) \/ ReadExit(c) \/ PeerGone(c) \/ JoinLookup(c)
           \/ End(c) \/ \E e \in Events : Handle(c, e)
  PROVE  SInv'
<1>1. UNCHANGED <<rooms, closing, joined, reaping>>
  BY DEF Acquire, Register, ReadExit, PeerGone, JoinLookup, End, Handle, roomVars, flagVars,
         sweepVars
<1>2. CASE PeerGone(c)
  BY <1>1, <1>2, SameRooms, StillStep DEF PeerGone
<1>3. CASE ~PeerGone(c)
  <2>1. pc[c] \notin Taking \cup Entering \cup Departing
    BY <1>3 DEF Acquire, Register, ReadExit, JoinLookup, End, Handle, Receive, Taking,
                Acting, Entering, Departing
  <2>2. PICK l, g :
          /\ Go(c, l, g, {})
          /\ \/ l \in {"opened", "done", "read", "pop", "join"}
             \/ l \in Acting /\ Holds(rooms[g], c)
    BY <1>3 DEF Acquire, Register, ReadExit, JoinLookup, End, Handle, IsMember, Holds, Acting
  <2>3. Passes(c, l, g)
    BY <1>1, <2>1, <2>2 DEF Passes, Acting, Entering, Departing
  <2> QED
    BY <1>1, <2>1, <2>2, <2>3, SameRooms, FreeStep
<1> QED
  BY <1>2, <1>3

\* What Resume and a handler's last move have in common.
LEMMA ResumePasses ==
  ASSUME NEW c \in Conns, Resume(c)
  PROVE  \E l \in {"pop", "read"} : Go(c, l, 0, {})
  BY DEF Resume

LEMMA HandlerStands ==
  ASSUME Inv, SInv, [Next]_vars, NEW c \in Conns,
         JoinReturns(c) \/ Mute(c) \/ Speak(c) \/ ModerateParticipant(c)
           \/ ModerateLock(c) \/ Refused(c) \/ Reset(c) \/ Cast(c)
  PROVE  SInv'
<1> DEFINE r == rooms[room[c]]
           u == UserOf[c]
<1>1. pc[c] \in {"join", "mute", "speak", "moderate", "end", "endReset", "cast"}
  BY DEF JoinReturns, Mute, Speak, ModerateParticipant, ModerateLock, Refused, Reset, Cast
<1>2. PICK l, g : Go(c, l, g, {}) /\ l \in {"pop", "read", "cast"}
  BY ResumePasses DEF JoinReturns, Mute, Speak, ModerateParticipant, ModerateLock, Refused,
                      Reset, Cast, Changed
<1>3. closing \subseteq closing' /\ UNCHANGED <<joined, reaping>>
  BY DEF JoinReturns, Mute, Speak, ModerateParticipant, ModerateLock, Refused, Reset, Cast,
         Changed, SendTo, flagVars, sweepVars
<1>4. pc[c] \notin Taking /\ Passes(c, l, g)
  BY <1>1, <1>2 DEF Taking, Passes, Acting, Entering, Departing
<1>5. Same
  <2>1. c \in Threads /\ room[c] \in Gens /\ r \in Room /\ u \in Users
    BY <1>1, RoomRef, ConnThread DEF WithRoom, Inv
  <2>2. CASE Mute(c)
    <3>1. PICK muted \in BOOLEAN : Update(c, SetMuted(r, u, muted))
      BY <2>2 DEF Mute, Changed
    <3>2. \A v \in Users : SetMuted(r, u, muted).parts[v].conn = r.parts[v].conn
      BY <2>1 DEF SetMuted, Room, Participant
    <3> QED
      BY <2>1, <3>1, <3>2, SameSection DEF Inv
  <2>3. CASE Speak(c)
    <3>1. PICK speaking \in BOOLEAN : Update(c, SetSpeaking(r, u, speaking))
      BY <2>3 DEF Speak, Changed
    <3>2. \A v \in Users : SetSpeaking(r, u, speaking).parts[v].conn = r.parts[v].conn
      BY <2>1 DEF SetSpeaking, Room, Participant
    <3> QED
      BY <2>1, <3>1, <3>2, SameSection DEF Inv
  <2>4. CASE ModerateParticipant(c)
    <3>1. PICK target \in Users, action \in ModerationAction \ {"kick"} :
            Update(c, Moderate(r, target, action))
      BY <2>4 DEF ModerateParticipant, Changed
    <3>2. \A v \in Users : Moderate(r, target, action).parts[v].conn = r.parts[v].conn
      <4>1. CASE action = "mute"
        BY <2>1, <4>1 DEF Moderate, Room, Participant
      <4>2. CASE action = "allow"
        BY <2>1, <4>2 DEF Moderate, Room, Participant
      <4>3. CASE action = "restrict"
        BY <2>1, <4>3 DEF Moderate, Room, Participant
      <4> QED
        BY <4>1, <4>2, <4>3 DEF ModerationAction
    <3> QED
      BY <2>1, <3>1, <3>2, SameSection DEF Inv
  <2>5. CASE ModerateLock(c)
    <3>1. PICK locked \in BOOLEAN : Update(c, SetLocked(r, locked))
      BY <2>5 DEF ModerateLock, Changed
    <3>2. SetLocked(r, locked).parts = r.parts
      BY <2>1 DEF SetLocked, Room
    <3> QED
      BY <2>1, <3>1, <3>2, SameSection DEF Inv
  <2>6. CASE JoinReturns(c) \/ Refused(c) \/ Reset(c) \/ Cast(c)
    BY <2>6, SameRooms DEF JoinReturns, Refused, Reset, Cast, roomVars
  <2> QED
    BY <2>2, <2>3, <2>4, <2>5, <2>6
<1> QED
  BY <1>2, <1>3, <1>4, <1>5, FreeStep

\* EndLock takes everybody in the ended room on, to retire and close.
LEMMA EndLockStands ==
  ASSUME Inv, SInv, [Next]_vars, NEW c \in Conns, EndLock(c)
  PROVE  SInv'
<1> DEFINE r == rooms[room[c]]
<1>1. c \in Threads /\ c # Reaper /\ pc[c] = "end"
  BY ConnThread DEF EndLock
<1>2. room[c] \in Gens /\ r \in Room
  BY <1>1, RoomRef DEF WithRoom, Inv
<1>3. Connections(r) \subseteq Conns
  BY <1>2 DEF Connections, Members, Inside, Room, Participant
<1>4. EndRoom(r).parts = r.parts /\ Update(c, EndRoom(r)) /\ TypeOK
  BY <1>2 DEF EndRoom, Room, EndLock, Inv
<1>5. Same
  BY <1>1, <1>2, <1>4, SameSection
<1>6. Grip(c, "endRetire", Connections(r)) /\ Passes(c, "endRetire", room[c])
  BY <1>1 DEF Grip, Passes, Taking, Acting, Entering, Departing, SInv, Victims, EndLock,
        flagVars,
              sweepVars
<1>7. joined' = joined /\ Go(c, "endRetire", room[c], Connections(r))
  BY DEF EndLock, flagVars
<1> QED
  BY <1>1, <1>3, <1>5, <1>6, <1>7, SameShed, PassingStep

LEMMA RetireStands ==
  ASSUME Inv, SInv, [Next]_vars, NEW c \in Conns,
         Retire(c, "joinRetire", "joinClose") \/ Retire(c, "kickRetire", "kickClose")
           \/ Retire(c, "endRetire", "endClose")
  PROVE  SInv'
<1>1. PICK at, next :
        /\ Retire(c, at, next)
        /\ <<at, next>> \in {<<"joinRetire", "joinClose">>, <<"kickRetire", "kickClose">>,
                             <<"endRetire", "endClose">>}
  OBVIOUS
<1>2. c \in Threads /\ c # Reaper /\ victims[c] \in SUBSET Conns
  BY ConnThread DEF Inv, TypeOK
<1>3. Go(c, next, room[c], victims[c])
  BY <1>1 DEF Retire
<1>4. Grip(c, next, victims[c]) /\ Passes(c, next, room[c])
  BY <1>1, <1>2 DEF Retire, SendTo, Grip, Passes, Taking, Acting, Entering, Departing,
        sweepVars
<1>5. Same
  BY <1>1, SameRooms DEF Retire, roomVars
<1>6. joined' = joined \ victims[c]
  BY <1>1 DEF Retire
<1>7. victims'[c] = victims[c]
  BY <1>2, <1>3 DEF Go, Inv, TypeOK
<1>8. \A d \in joined : d \in joined' \/ Doomed(d)'
  BY <1>2, <1>6, <1>7 DEF Doomed
<1> QED
  BY <1>2, <1>3, <1>4, <1>5, <1>6, <1>8, SameShed, PassingStep

LEMMA CloseStands ==
  ASSUME Inv, SInv, [Next]_vars, NEW c \in Conns,
         Close(c, "joinClose", "welcome") \/ Close(c, "kickClose", "cast")
           \/ Close(c, "endClose", "endReset")
  PROVE  SInv'
<1>1. PICK at, next :
        /\ Close(c, at, next)
        /\ <<at, next>> \in {<<"joinClose", "welcome">>, <<"kickClose", "cast">>,
                             <<"endClose", "endReset">>}
  OBVIOUS
<1>2. c \in Threads /\ c # Reaper
  BY ConnThread
<1>3. Go(c, next, room[c], {}) /\ joined' = joined
  BY <1>1 DEF Close
<1>4. Grip(c, next, {}) /\ Passes(c, next, room[c])
  BY <1>1, <1>2 DEF Close, Grip, Passes, Taking, Acting, Entering, Departing, sweepVars
<1>5. Same
  BY <1>1, SameRooms DEF Close, roomVars
<1> QED
  BY <1>2, <1>3, <1>4, <1>5, SameShed, PassingStep

-----------------------------------------------------------------------------
(* Places given and taken *)

\* Once a place has gone from a room, its connection has no other there.
LEMMA RemovedHolds ==
  ASSUME NEW r \in Room, NEW u \in Users, NEW d \in Conns
  PROVE  Holds(Remove(r, u), d) <=> Holds(r, d) /\ UserOf[d] # u
<1>1. UserOf[d] \in Users /\ NoConn # d
  BY RoomAssumption
<1>2. \A v \in Users : Remove(r, u).parts[v] = IF v = u THEN Absent ELSE r.parts[v]
  BY DEF Remove, Room
<1> QED
  BY <1>1, <1>2 DEF Holds, Absent

\* Steps of which everybody but c is the bystander.
LEMMA OwnStep ==
  ASSUME Inv, SInv, [Next]_vars, NEW c \in Conns, NEW l, NEW g, NEW V \in SUBSET Conns,
         Go(c, l, g, V), Grip(c, l, V),
         \A d \in Conns \ {c} :
           /\ d \in joined' => d \in joined
           /\ d \in joined => d \in joined' \/ Doomed(d)'
           /\ \A h \in Gens :
                /\ Holds(rooms'[h], d) => Holds(rooms[h], d)
                /\ Holds(rooms[h], d) => Holds(rooms'[h], d) \/ Doomed(d)',
         Standing(c)'
  PROVE  SInv'
<1>1. c \in Threads
  BY ConnThread
<1>2. Victims' /\ \A d \in Conns : Doomed(d) => Doomed(d)'
  BY <1>1, GripKeeps DEF SInv
<1>3. /\ pc' = [pc EXCEPT ![c] = l] /\ room' = [room EXCEPT ![c] = g]
      /\ pc \in [Threads -> Places] /\ room \in [Threads -> 0..MaxRooms]
  BY DEF Go, Inv, TypeOK
<1>4. ASSUME NEW d \in Conns, d # c
      PROVE  Tame(d)
  <2>1. d \in Threads
    BY ConnThread
  <2> QED
    BY <1>3, <1>4, <2>1 DEF Tame
<1> QED
  BY <1>2, <1>4, TameStanding DEF SInv

LEMMA WelcomeStands ==
  ASSUME Inv, SInv, [Next]_vars, NEW c \in Conns, Welcome(c)
  PROVE  SInv'
<1>1. /\ c \in Threads /\ c # Reaper /\ pc[c] = "welcome"
      /\ Go(c, "cast", room[c], {}) /\ joined' = joined \cup {c} /\ rooms' = rooms
      /\ UNCHANGED <<closing, reaping>>
  BY ConnThread DEF Welcome, roomVars, sweepVars
<1>2. Grip(c, "cast", {})
  BY <1>1 DEF Grip, SInv, Victims, Taking
<1>3. /\ pc'[c] = "cast" /\ room'[c] = room[c] /\ c \in joined'
  BY <1>1 DEF Go, Inv, TypeOK
<1>4. Doomed(c) => Doomed(c)'
  BY <1>1, <1>2, GripKeeps DEF SInv
<1>5. room[c] \in Gens
  BY <1>1 DEF Inv, Control, WithRoom
<1>6. Standing(c)'
  BY <1>1, <1>3, <1>4, <1>5 DEF SInv, Standing, Awaited, Engaged, Lowered, Placed, Aware,
        Acting, Entering,
                                Departing
<1> QED
  BY <1>1, <1>2, <1>6, OwnStep

\* A departure clears its connection's flag and fetches the room.
LEMMA LeaveStands ==
  ASSUME Inv, SInv, [Next]_vars, NEW c \in Conns, NEW l \in Departing,
         pc[c] \notin Taking, LeaveBegin(c, c, l)
  PROVE  SInv'
<1>1. /\ c \in Threads /\ c # Reaper
      /\ Go(c, l, current, {}) /\ joined' = joined \ {c} /\ rooms' = rooms
      /\ UNCHANGED <<current, closing, reaping>>
  BY ConnThread DEF LeaveBegin, roomVars, sweepVars
<1>2. Grip(c, l, {})
  BY <1>1 DEF Grip, SInv, Victims
<1>3. /\ pc'[c] = l /\ room'[c] = current /\ c \notin joined'
  BY <1>1 DEF Go, Inv, TypeOK
<1>4. Standing(c)'
  BY <1>1, <1>3 DEF Standing, Awaited, Engaged, Lowered, Placed, Aware, Acting, Entering,
        Departing
<1> QED
  BY <1>1, <1>2, <1>4, OwnStep

\* A departure's lock section: the place goes if it is still the connection's.
LEMMA DepartStands ==
  ASSUME Inv, SInv, [Next]_vars, NEW c \in Conns, pc[c] \in Departing,
         NEW l, NEW g, l \notin Entering \cup Departing \cup Acting, Go(c, l, g, {}),
         UNCHANGED <<current, joined, closing, reaping>>,
         IF Holds(rooms[room[c]], c)
           THEN Update(c, Remove(rooms[room[c]], UserOf[c])) ELSE UNCHANGED rooms
  PROVE  SInv'
<1> DEFINE r == rooms[room[c]]
           u == UserOf[c]
<1>1. c \in Threads /\ c # Reaper /\ u \in Users
  BY ConnThread
<1>2. room[c] \in Gens /\ r \in Room
  BY <1>1, RoomRef DEF Departing, WithRoom, Inv
<1>3. Grip(c, l, {})
  BY <1>1 DEF Grip, SInv, Victims, Taking, Departing
<1>4. /\ pc'[c] = l /\ room'[c] = g /\ c \notin joined'
  BY <1>1 DEF Go, Inv, TypeOK, SInv, Standing, Lowered
<1>5. ~Holds(rooms'[room[c]], c)
  <2>1. CASE Holds(r, c)
    <3>1. rooms'[room[c]] = Remove(r, u)
      BY <1>2, <2>1 DEF Update, Inv, TypeOK
    <3> QED
      BY <1>1, <1>2, <3>1, RemovedHolds
  <2>2. CASE ~Holds(r, c)
    BY <2>2
  <2> QED
    BY <2>1, <2>2
<1>6. ASSUME NEW h \in Gens, NEW d \in Conns, d # c \/ h # room[c]
      PROVE  Holds(rooms'[h], d) <=> Holds(rooms[h], d)
  <2>1. CASE Holds(r, c) /\ h = room[c]
    <3>1. rooms'[h] = Remove(r, u)
      BY <1>2, <2>1 DEF Update, Inv, TypeOK
    <3>2. Holds(r, d) => UserOf[d] # u
      BY <1>6, <2>1 DEF Holds
    <3> QED
      BY <1>1, <1>2, <2>1, <3>1, <3>2, RemovedHolds
  <2>2. CASE ~(Holds(r, c) /\ h = room[c])
    <3>1. rooms'[h] = rooms[h]
      BY <1>2, <2>2 DEF Update, Inv, TypeOK
    <3> QED
      BY <3>1
  <2> QED
    BY <2>1, <2>2
<1>7. Doomed(c) => Doomed(c)'
  BY <1>1, <1>3, GripKeeps DEF SInv
<1>8. Standing(c) /\ current \in Gens
  BY DEF SInv, Inv, TypeOK
<1>9. Aware(c)'
  <2> SUFFICES ASSUME Holds(rooms'[current], c) PROVE Doomed(c)
    BY <1>7 DEF Aware
  <2>1. current # room[c]
    BY <1>5
  <2>2. Holds(rooms[current], c)
    BY <1>6, <1>8, <2>1
  <2> QED
    BY <1>4, <1>8, <2>1, <2>2 DEF Standing, Aware, Acting, Entering, Departing
<1>10. Standing(c)'
  BY <1>4, <1>9 DEF Standing, Awaited, Engaged, Lowered, Placed
<1>11. \A d \in Conns \ {c}, h \in Gens : Holds(rooms'[h], d) <=> Holds(rooms[h], d)
  BY <1>6
<1> QED
  BY <1>1, <1>3, <1>10, <1>11, OwnStep

LEMMA LeaveLockStands ==
  ASSUME Inv, SInv, [Next]_vars, NEW c \in Conns, LeaveLock(c)
  PROVE  SInv'
<1>1. PICK l, g : Go(c, l, g, {}) /\ l \in {"pop", "read", "cast"}
  BY ResumePasses DEF LeaveLock
<1>2. pc[c] \in Departing /\ l \notin Entering \cup Departing \cup Acting
  BY <1>1 DEF LeaveLock, Departing, Acting, Entering
<1>3. UNCHANGED <<current, joined, closing, reaping>>
  BY DEF LeaveLock, flagVars, sweepVars
<1>4. IF Holds(rooms[room[c]], c)
        THEN Update(c, Remove(rooms[room[c]], UserOf[c])) ELSE UNCHANGED rooms
  BY DEF LeaveLock
<1> QED
  BY <1>1, <1>2, <1>3, <1>4, DepartStands

\* Whoever is displaced is the admitted connection's to retire.
LEMMA JoinStands ==
  ASSUME Inv, SInv, [Next]_vars, NEW c \in Conns, JoinAdmitted(c)
  PROVE  SInv'
<1> DEFINE r == rooms[room[c]]
           u == UserOf[c]
           s == Join(r, u, c)
           V == {r.parts[u].conn} \ {NoConn, c}
           l == IF V = {} THEN "welcome" ELSE "joinRetire"
<1>1. /\ c \in Threads /\ c # Reaper /\ u \in Users /\ pc[c] = "join" /\ c \notin joined
      /\ Go(c, l, room[c], V) /\ Update(c, s)
      /\ UNCHANGED <<current, joined, closing, reaping>>
  BY ConnThread DEF JoinAdmitted, flagVars, sweepVars
<1>2. room[c] \in Gens /\ r \in Room
  BY <1>1, RoomRef DEF WithRoom, Inv
<1>3. V \in SUBSET Conns
  BY <1>1, <1>2 DEF Room, Participant
<1>4. Grip(c, l, V)
  BY <1>1 DEF Grip, SInv, Victims, Taking
<1>5. pc'[c] = l /\ room'[c] = room[c] /\ victims'[c] = V
  BY <1>1, <1>3 DEF Go, Inv, TypeOK
<1>6. \A h \in Gens : rooms'[h] = IF h = room[c] THEN s ELSE rooms[h]
  BY <1>2, <1>1 DEF Update, Inv, TypeOK
<1>7. s.parts[u].conn = c
  BY <1>1, <1>2, JoinFields
<1>8. Holds(rooms'[room[c]], c)
  BY <1>2, <1>6, <1>7 DEF Holds
<1>9. ASSUME NEW d \in Conns, d # c
      PROVE  /\ Holds(s, d) => Holds(r, d)
             /\ Holds(r, d) => Holds(s, d) \/ Doomed(d)'
  <2>1. CASE UserOf[d] = u
    <3>1. ~Holds(s, d)
      BY <1>7, <1>9, <2>1 DEF Holds
    <3>2. Holds(r, d) => d \in V
      BY <1>9, <2>1, RoomAssumption DEF Holds
    <3> QED
      BY <1>1, <1>5, <3>1, <3>2 DEF Doomed
  <2>2. CASE UserOf[d] # u
    <3>1. s.parts[UserOf[d]] = r.parts[UserOf[d]]
      BY <1>1, <1>2, <2>2, ConnThread, JoinOthers
    <3> QED
      BY <3>1 DEF Holds
  <2> QED
    BY <2>1, <2>2
<1>10. Standing(c)'
  BY <1>1, <1>5, <1>8 DEF Standing, Awaited, Engaged, Lowered, Placed, Aware, Acting,
        Entering, Departing
<1>11. \A d \in Conns \ {c}, h \in Gens :
         /\ Holds(rooms'[h], d) => Holds(rooms[h], d)
         /\ Holds(rooms[h], d) => Holds(rooms'[h], d) \/ Doomed(d)'
  BY <1>6, <1>9
<1> HIDE DEF l, V
<1> QED
  BY <1>1, <1>3, <1>4, <1>10, <1>11, OwnStep

\* A kick takes the target's connection on, to retire and close.
LEMMA KickStands ==
  ASSUME Inv, SInv, [Next]_vars, NEW c \in Conns, Kick(c)
  PROVE  SInv'
<1> DEFINE r == rooms[room[c]]
<1>1. c \in Threads /\ c # Reaper /\ pc[c] = "moderate"
  BY ConnThread DEF Kick
<1>2. room[c] \in Gens /\ r \in Room
  BY <1>1, RoomRef DEF WithRoom, Inv
<1>3. PICK target \in Users :
        /\ MayModerate(r, UserOf[c], target)
        /\ Update(c, Moderate(r, target, "kick"))
        /\ Go(c, "kickRetire", room[c], {r.parts[target].conn})
  BY DEF Kick
<1> DEFINE V == {r.parts[target].conn}
           s == Moderate(r, target, "kick")
<1>4. V \in SUBSET Conns
  BY <1>2, <1>3 DEF MayModerate, Inside, Room, Participant
<1>5. UNCHANGED <<joined, closing, reaping>>
  BY DEF Kick, flagVars, sweepVars
<1>6. Grip(c, "kickRetire", V) /\ Passes(c, "kickRetire", room[c])
  BY <1>1, <1>5 DEF Grip, Passes, Taking, Acting, Entering, Departing, SInv, Victims
<1>7. victims'[c] = V
  BY <1>1, <1>3, <1>4 DEF Go, Inv, TypeOK
<1>8. \A h \in Gens : rooms'[h] = IF h = room[c] THEN s ELSE rooms[h]
  BY <1>2, <1>3 DEF Update, Inv, TypeOK
<1>9. \A d \in Conns : Holds(s, d) <=> Holds(Remove(r, target), d)
  BY <1>2 DEF Moderate, Holds, Remove, Room
<1>10. Shed
  <2>1. ASSUME NEW d \in Conns, Holds(r, d), UserOf[d] = target
        PROVE  Doomed(d)'
    BY <1>1, <1>7, <2>1 DEF Doomed, Holds
  <2>2. \A d \in Conns : /\ Holds(s, d) => Holds(r, d)
                         /\ Holds(r, d) => Holds(s, d) \/ Doomed(d)'
    BY <1>2, <1>9, <2>1, RemovedHolds
  <2> QED
    BY <1>8, <2>2 DEF Shed
<1> HIDE DEF V
<1> QED
  BY <1>1, <1>3, <1>4, <1>5, <1>6, <1>10, PassingStep DEF V

-----------------------------------------------------------------------------
(* Cleanup by the connection's own thread *)

LEMMA OwnCleanStands ==
  ASSUME Inv, SInv, [Next]_vars, NEW c \in Conns, Cleanup(c)
  PROVE  SInv'
<1>1. c \in Threads /\ c # Reaper /\ Subject(c) = c
  BY ConnThread DEF Subject
<1>2. CASE Pop(c) \/ CleanCast(c) \/ CleanEnd(c)
  <2>1. PICK l : Go(c, l, 0, {}) /\ l \in {"get", "free", "done"}
    BY <1>1, <1>2 DEF Pop, CleanCast, CleanEnd
  <2>2. pc[c] \in {"pop", "castLeft", "free"}
    BY <1>2 DEF Pop, CleanCast, CleanEnd
  <2>3. pc[c] \notin Taking /\ Passes(c, l, 0)
    BY <2>1, <2>2 DEF Taking, Passes, Acting, Entering, Departing
  <2>4. closing \subseteq closing' /\ UNCHANGED <<rooms, joined, reaping>>
    BY <1>1, <1>2 DEF Pop, CleanCast, CleanEnd, SendTo, roomVars, flagVars, sweepVars
  <2> QED
    BY <2>1, <2>3, <2>4, SameRooms, FreeStep
<1>3. CASE CleanBegin(c)
  BY <1>1, <1>3, LeaveStands DEF CleanBegin, Taking, Departing
<1>4. CASE CleanLock(c)
  <2>1. PICK l, g : Go(c, l, g, {}) /\ l \in {"castLeft", "free"}
    BY <1>4 DEF CleanLock
  <2>2. pc[c] \in Departing /\ l \notin Entering \cup Departing \cup Acting
    BY <1>4, <2>1 DEF CleanLock, Departing, Acting, Entering
  <2>3. UNCHANGED <<current, joined, closing, reaping>>
    BY <1>4 DEF CleanLock, flagVars, sweepVars
  <2>4. IF Holds(rooms[room[c]], c)
          THEN Update(c, Remove(rooms[room[c]], UserOf[c])) ELSE UNCHANGED rooms
    BY <1>1, <1>4 DEF CleanLock
  <2> QED
    BY <2>1, <2>2, <2>3, <2>4, DepartStands
<1> QED
  BY <1>2, <1>3, <1>4 DEF Cleanup

-----------------------------------------------------------------------------
(* Cleanup by the sweeper: whoever it reaps is doomed until it is closed *)

LEMMA ReaperCleanStands ==
  ASSUME Inv, SInv, [Next]_vars, Cleanup(Reaper)
  PROVE  SInv'
<1>1. /\ Reaper \in Threads /\ Reaper \notin Conns /\ Subject(Reaper) = reaping
      /\ pc[Reaper] \in InCleanup /\ reaping \in Conns
  BY ServerAssumption DEF Threads, Subject, Inv, Control, Cleanup, Pop, CleanBegin,
                          CleanLock, CleanCast, CleanEnd, InCleanup
<1> PICK c \in Conns : c = reaping
  BY <1>1
<1>2. PICK l, g : Go(Reaper, l, g, {}) /\ l \in InCleanup \cup {"scan"}
  BY DEF Cleanup, Pop, CleanBegin, LeaveBegin, CleanLock, CleanCast, CleanEnd, InCleanup
<1>3. closing \subseteq closing'
  BY DEF Cleanup, Pop, CleanBegin, LeaveBegin, CleanLock, CleanCast, CleanEnd, SendTo,
         flagVars
<1>4. \/ reaping' = reaping /\ l \in InCleanup
      \/ reaping \in closing'
  <2>1. CASE CleanEnd(Reaper)
    BY <1>1, <2>1 DEF CleanEnd
  <2>2. CASE Pop(Reaper) \/ CleanBegin(Reaper) \/ CleanLock(Reaper) \/ CleanCast(Reaper)
    <3>1. reaping' = reaping
      BY <2>2 DEF Pop, CleanBegin, LeaveBegin, CleanLock, CleanCast, sweepVars
    <3>2. PICK k \in {"get", "drop", "castLeft", "free"} : \E h : Go(Reaper, k, h, {})
      BY <2>2 DEF Pop, CleanBegin, LeaveBegin, CleanLock, CleanCast
    <3>3. pc'[Reaper] = k /\ pc'[Reaper] = l
      BY <1>1, <1>2, <3>2 DEF Go, Inv, TypeOK
    <3> QED
      BY <3>1, <3>2, <3>3 DEF InCleanup
  <2> QED
    BY <2>1, <2>2 DEF Cleanup
<1>5. Grip(Reaper, l, {}) /\ Passes(Reaper, l, g)
  <2>1. victims[Reaper] = {}
    BY <1>1 DEF SInv, Victims, Taking, InCleanup
  <2>2. Passes(Reaper, l, g)
    BY <1>1 DEF Passes
  <2>3. victims[Reaper] \subseteq {} \cup closing'
    BY <2>1
  <2> QED
    BY <1>3, <1>4, <2>2, <2>3 DEF Grip
<1>6. Doomed(c)'
  <2>1. pc'[Reaper] = l
    BY <1>1, <1>2 DEF Go, Inv, TypeOK
  <2>2. c \in closing' \/ (reaping' = c /\ pc'[Reaper] \in InCleanup)
    BY <1>4, <2>1
  <2> QED
    BY <2>2 DEF Doomed
<1>7. joined' \in {joined, joined \ {c}}
  BY <1>1 DEF Cleanup, Pop, CleanBegin, LeaveBegin, CleanLock, CleanCast, CleanEnd, flagVars
<1>8. Shed
  <2>1. CASE rooms' = rooms
    BY <2>1 DEF Shed
  <2>2. CASE rooms' # rooms
    <3> DEFINE r == rooms[room[Reaper]]
               s == Remove(r, UserOf[c])
    <3>1. pc[Reaper] = "drop" /\ Holds(r, c) /\ Update(Reaper, s)
      BY <1>1, <2>2 DEF Cleanup, Pop, CleanBegin, LeaveBegin, CleanLock, CleanCast, CleanEnd,
                        roomVars
    <3>2. room[Reaper] \in Gens /\ r \in Room /\ UserOf[c] \in Users
      BY <1>1, <3>1, RoomRef, ConnThread DEF WithRoom, Inv
    <3>3. \A h \in Gens : rooms'[h] = IF h = room[Reaper] THEN s ELSE rooms[h]
      BY <3>1, <3>2 DEF Update, Inv, TypeOK
    <3>4. \A d \in Conns : Holds(r, d) /\ d # c => UserOf[d] # UserOf[c]
      BY <3>1 DEF Holds
    <3>5. \A d \in Conns : /\ Holds(s, d) => Holds(r, d)
                           /\ Holds(r, d) => Holds(s, d) \/ Doomed(d)'
      BY <1>6, <3>2, <3>4, RemovedHolds
    <3> QED
      BY <3>3, <3>5 DEF Shed
  <2> QED
    BY <2>1, <2>2
<1>9. joined' \subseteq joined /\ \A d \in joined : d \in joined' \/ Doomed(d)'
  BY <1>6, <1>7
<1> QED
  BY <1>1, <1>2, <1>5, <1>8, <1>9, PassingStep

LEMMA SweepStands ==
  ASSUME Inv, SInv, [Next]_vars, Sweep
  PROVE  SInv'
<1>1. /\ Reaper \in Threads /\ Reaper \notin Conns /\ Same
      /\ UNCHANGED <<joined, closing>>
  BY ServerAssumption, SameRooms DEF Threads, Sweep, SweepStart, SweepEnd, SweepSkip,
                                     SweepReap, roomVars, flagVars
<1>2. ASSUME NEW c \in Conns, SweepSkip(c)
      PROVE  SInv'
  BY <1>1, <1>2, StillStep DEF SweepSkip
<1>3. CASE SweepStart \/ SweepEnd \/ \E c \in Conns : SweepReap(c)
  <2>1. pc[Reaper] \in {"idle", "scan"}
    BY <1>3 DEF SweepStart, SweepEnd, SweepReap
  <2>2. PICK l : Go(Reaper, l, 0, {})
    BY <1>3 DEF SweepStart, SweepEnd, SweepReap
  <2>3. Grip(Reaper, l, {}) /\ Passes(Reaper, l, 0)
    BY <1>1, <2>1 DEF Grip, Passes, SInv, Victims, Taking, InCleanup
  <2> QED
    BY <1>1, <2>2, <2>3, SameShed, PassingStep
<1> QED
  BY <1>2, <1>3 DEF Sweep

-----------------------------------------------------------------------------
(* The invariant *)

LEMMA CooldownStands ==
  ASSUME Inv, SInv, [Next]_vars, NEW u \in Users, CooldownOver(u)
  PROVE  SInv'
<1>1. PICK g \in Gens : rooms' = [rooms EXCEPT ![g] = ExpireCooldown(@, u)]
  BY DEF CooldownOver
<1>2. \A h \in Gens : rooms'[h].parts = rooms[h].parts
  BY <1>1 DEF ExpireCooldown, Room, Inv, TypeOK
<1>3. Same
  BY <1>2 DEF Same, Holds
<1> QED
  BY <1>3, StillStep DEF CooldownOver, flagVars, sweepVars

LEMMA SessionsInit == Init => SInv
<1> SUFFICES ASSUME Init PROVE SInv
  OBVIOUS
<1>1. \A g \in Gens, c \in Conns : ~Holds(rooms[g], c)
  BY ConnThread, RoomAssumption DEF Init, Holds, NewRoom, Absent
<1>2. current \in Gens /\ \A c \in Conns : pc[c] = "new" /\ c \in Threads
  BY ConnThread, ServerAssumption DEF Init, Gens
<1> QED
  BY <1>1, <1>2 DEF Init, SInv, Victims, Standing, Awaited, Engaged, Lowered, Placed,
        Aware, Acting, Entering,
                    Departing

LEMMA SessionsNext == Inv /\ SInv /\ [Next]_vars => SInv'
<1> SUFFICES ASSUME Inv, SInv, [Next]_vars PROVE SInv'
  OBVIOUS
<1>1. CASE UNCHANGED vars
  BY <1>1, SameRooms, StillStep DEF vars, roomVars, flagVars, sweepVars
<1>2. ASSUME NEW c \in Conns,
             Acquire(c) \/ Register(c) \/ Frame(c) \/ ReadExit(c) \/ PeerGone(c)
      PROVE  SInv'
  <2>1. CASE Leave(c)
    BY <2>1, LeaveStands DEF Leave, Receive, Taking, Departing
  <2> QED
    BY <1>2, <2>1, OpenStands DEF Frame
<1>3. ASSUME NEW c \in Conns, Handler(c)
      PROVE  SInv'
  BY <1>3, HandlerStands, JoinStands, WelcomeStands, RetireStands, CloseStands,
     LeaveLockStands, KickStands, EndLockStands DEF Handler
<1>4. ASSUME NEW t \in Threads, Cleanup(t)
      PROVE  SInv'
  BY <1>4, OwnCleanStands, ReaperCleanStands DEF Threads
<1> QED
  BY <1>1, <1>2, <1>3, <1>4, SweepStands, CooldownStands DEF Next

LEMMA SessionsInvariant == Spec => [](Inv /\ SInv)
<1>1. Spec => []SInv
  BY SessionsInit, SessionsNext, InvInvariant, PTL DEF Spec
<1> QED
  BY <1>1, InvInvariant, PTL

-----------------------------------------------------------------------------
(* What it guarantees *)

\* Nobody is on anybody's list while the server is quiet.
LEMMA QuietStanding ==
  ASSUME Inv, SInv, Quiet, NEW c \in Conns, c \notin closing
  PROVE  /\ c \in joined => \E g \in Gens : Holds(rooms[g], c)
         /\ Holds(rooms[current], c) => c \in joined
<1>1. ~Doomed(c)
  <2>1. \A t \in Threads : victims[t] = {}
    BY DEF Quiet, SInv, Victims, Idle, Taking
  <2>2. pc[Reaper] \notin InCleanup
    BY DEF Quiet, Threads, Idle, InCleanup
  <2> QED
    BY <2>1, <2>2 DEF Doomed
<1>2. pc[c] \notin Entering \cup Departing
  BY ConnThread DEF Quiet, Idle, Acting, Entering, Departing
<1> QED
  BY <1>1, <1>2 DEF SInv, Standing, Placed, Aware

\* In a quiet server, an open socket that believes it is inside was let into
\* some generation of the room, and whoever the room clients are in holds
\* believes it, whatever joins, take-overs, kicks, ends, resets and teardowns
\* crossed before.
THEOREM SessionsArePlaced == Spec => []SessionsPlaced
<1>1. Inv /\ SInv => SessionsPlaced
  BY QuietStanding DEF SessionsPlaced
<1> QED
  BY <1>1, SessionsInvariant, PTL

\* A frame that reaches its section finds its socket still in its place, or else
\* on its way to be closed: by the tab that displaced it, the moderator who kicked
\* it, the owner who ended the room, or the sweeper.
THEOREM StrangersAreDoomed == Spec => []StrangersDoomed
<1>1. Inv /\ SInv => StrangersDoomed
  BY DEF SInv, Standing, Engaged, StrangersDoomed
<1> QED
  BY <1>1, SessionsInvariant, PTL

\* Until an END_ROOM has been carried through, belief and place agree exactly:
\* a displaced or kicked socket is never left believing it is inside.
THEOREM AgreeUntilReset == Spec => [](current = 1 => SessionsAgree)
<1>1. ASSUME Inv, SInv, current = 1
      PROVE  SessionsAgree
  <2> SUFFICES ASSUME Quiet, NEW c \in Conns \ closing
               PROVE  (c \in joined) <=> (c \in Connections(rooms[current]))
    BY DEF SessionsAgree
  <2>1. current \in Gens /\ HolderOK(rooms[current]) /\ UserOf[c] \in Users /\ NoConn # c
    BY <1>1, ConnThread, RoomAssumption DEF Inv, TypeOK, RoomsInv, RoomOK
  <2>2. Holds(rooms[current], c) <=> c \in Connections(rooms[current])
    BY <2>1 DEF Holds, Connections, Members, Inside, HolderOK
  <2>3. ASSUME NEW g \in Gens, Holds(rooms[g], c)
        PROVE  g = current
    <3>1. rooms[g] # NewRoom
      BY <2>1, <2>3 DEF Holds, NewRoom, Absent
    <3> QED
      BY <1>1, <3>1 DEF Inv, FutureBlank, Gens
  <2> QED
    BY <1>1, <2>2, <2>3, QuietStanding
<1>2. Inv /\ SInv => (current = 1 => SessionsAgree)
  BY <1>1
<1> QED
  BY <1>2, SessionsInvariant, PTL

LEMMA NoEndWithoutFrame ==
  ASSUME Inv, "end" \notin Events, [Next]_vars, \A c \in Conns : pc[c] \notin InEnd
  PROVE  \A c \in Conns : pc'[c] \notin InEnd
<1>1. ASSUME NEW c \in Conns
      PROVE  pc'[c] \notin InEnd
  <2>1. EndStep(c) /\ pc[c] \notin InEnd
    BY <1>1, EndPath
  <2>2. ~End(c) /\ ~EndLock(c)
    BY <2>1 DEF End, Receive, EndLock, InEnd
  <2> QED
    BY <2>1, <2>2 DEF EndStep, OnReset, InEnd
<1> QED
  BY <1>1

\* Where nobody ends the room, they agree for good.
THEOREM SessionsAgreeUnended ==
  ASSUME "end" \notin Events
  PROVE  Spec => []SessionsAgree
<1> DEFINE Unended == current = 1 /\ \A c \in Conns : pc[c] \notin InEnd
<1>1. Init => Unended
  BY ConnThread DEF Init, InEnd
<1>2. ASSUME Inv, Unended, [Next]_vars
      PROVE  Unended'
  <2>1. CASE Still
    BY <1>2, <2>1 DEF Still
  <2>2. ASSUME NEW t, NEW l, NEW g, NEW V, Move(t, l, g, V)
        PROVE  Unended'
    <3>1. pc[t] # "endReset"
      <4>1. t \in Threads /\ (t = Reaper => pc[t] \in InCleanup \cup {"idle", "scan"})
        BY <2>2, <1>2 DEF Move, Inv, Control
      <4> QED
        BY <4>1, <1>2 DEF InEnd, InCleanup, Threads
    <3>2. current' = 1
      BY <1>2, <2>2, <3>1 DEF Move
    <3>3. \A c \in Conns : pc'[c] \notin InEnd
      BY <1>2, NoEndWithoutFrame
    <3> QED
      BY <3>2, <3>3
  <2> QED
    BY <1>2, <2>1, <2>2, StepMoves DEF Inv, Moves
<1>3. Spec => []Unended
  BY <1>1, <1>2, InvInvariant, PTL DEF Spec
<1>4. Unended => current = 1
  OBVIOUS
<1> QED
  BY <1>3, <1>4, AgreeUntilReset, PTL

=============================================================================
