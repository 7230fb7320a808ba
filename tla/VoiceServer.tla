---------------------------- MODULE VoiceServer ----------------------------
(***************************************************************************)
(* The websocket server of one room id (websocket/voice.py), the room      *)
(* manager that replaces the room when it is ended (rooms/manager.py), the *)
(* heartbeat sweeper (websocket/heartbeat.py) and the caps on concurrent   *)
(* connections (security/rate_limit.py), as interleaved threads.           *)
(*                                                                         *)
(* Every connection is served by one thread; one more thread is the        *)
(* sweeper.  A step is a critical section, or one write to state that other *)
(* threads read without a lock, with what the thread does alone around it. *)
(* The handlers fetch the Room object before they lock it, so a thread may *)
(* hold a Room that the manager has since replaced: `rooms` keeps every    *)
(* generation of the room, `current` is the one the manager would return.  *)
(*                                                                         *)
(* A refusal that changes nothing (an error frame to the sender) is no     *)
(* step where the thread goes back to reading; the guards say which frames *)
(* are refused.  _membership (voice.py 125-136) is one test made where the *)
(* frame is read: only the connection's own thread can make it a member,   *)
(* so whatever passes the three reads of the code passes them at once.     *)
(***************************************************************************)
EXTENDS VoiceRoom

CONSTANTS
  Reaper,       \* the heartbeat thread
  MaxRooms,     \* bound: generations of the room in a behaviour
  Ips,          \* client addresses
  IpOf,         \* Connection.ip
  MaxPerIp,     \* config.MAX_CONNECTIONS_PER_IP
  MaxPerUser,   \* config.MAX_CONNECTIONS_PER_USER
  Events,       \* the client events that occur in a behaviour
  Faults        \* what else occurs: "gone", "stale", "expire", "sweep"

ASSUME ServerAssumption ==
  /\ Reaper \notin Conns \cup {NoConn}
  /\ MaxRooms \in Nat \ {0}
  /\ IpOf \in [Conns -> Ips]
  /\ MaxPerIp \in Nat
  /\ MaxPerUser \in Nat
  /\ Events \subseteq {"join", "leave", "mute", "speak", "moderate", "end"}
  /\ Faults \subseteq {"gone", "stale", "expire", "sweep"}

VARIABLES
  current,   \* generation of the Room in RoomManager._rooms
  rooms,     \* the Room object of each generation
  pc,        \* where each thread is
  room,      \* the local `room` of each thread: a generation, 0 for none
  victims,   \* the connections a thread has yet to retire and close
  joined,    \* connections whose `joined` is True
  closing,   \* connections whose `closing` is True
  gone,      \* connections whose peer vanished
  registry,  \* _connections
  perIp,     \* ConnectionCounter._ips
  perUser,   \* ConnectionCounter._users
  removed,   \* threads whose pop from the registry found the connection
  reaping,   \* the connection the sweeper is tearing down
  todo       \* the rest of the sweeper's registry snapshot

roomVars  == <<current, rooms>>
flagVars  == <<joined, closing, gone>>
countVars == <<registry, perIp, perUser, removed>>
sweepVars == <<reaping, todo>>
vars == <<roomVars, pc, room, victims, flagVars, countVars, sweepVars>>

Threads == Conns \cup {Reaper}
Gens == 1..MaxRooms

InHandler == {"join", "joinRetire", "joinClose", "welcome", "leave", "mute",
              "speak", "moderate", "kickRetire", "kickClose", "end",
              "endRetire", "endClose", "endReset", "cast"}
InCleanup == {"pop", "get", "drop", "castLeft", "free"}
Idle == {"new", "read", "done", "idle"}
Places == InHandler \cup InCleanup \cup Idle \cup {"opened", "scan"}

TypeOK ==
  /\ current \in Gens
  /\ rooms \in [Gens -> Room]
  /\ pc \in [Threads -> Places]
  /\ room \in [Threads -> 0..MaxRooms]
  /\ victims \in [Threads -> SUBSET Conns]
  /\ joined \subseteq Conns /\ closing \subseteq Conns /\ gone \subseteq Conns
  /\ registry \subseteq Conns
  /\ perIp \in [Ips -> Nat]
  /\ perUser \in [Users -> Nat]
  /\ removed \subseteq Threads
  /\ reaping \in Conns \cup {NoConn}
  /\ todo \subseteq Conns

Init ==
  /\ current = 1
  /\ rooms = [g \in Gens |-> NewRoom]
  /\ pc = [t \in Threads |-> IF t = Reaper THEN "idle" ELSE "new"]
  /\ room = [t \in Threads |-> 0]
  /\ victims = [t \in Threads |-> {}]
  /\ joined = {} /\ closing = {} /\ gone = {}
  /\ registry = {}
  /\ perIp = [i \in Ips |-> 0]
  /\ perUser = [u \in Users |-> 0]
  /\ removed = {}
  /\ reaping = NoConn
  /\ todo = {}

-----------------------------------------------------------------------------
(* Control *)

\* Thread t goes to l with room g and connections V in its local variables.
Go(t, l, g, V) ==
  /\ pc' = [pc EXCEPT ![t] = l]
  /\ room' = [room EXCEPT ![t] = g]
  /\ victims' = [victims EXCEPT ![t] = V]

\* The handler is over: `while not conn.closing`.
Resume(c) == Go(c, IF c \in closing' THEN "pop" ELSE "read", 0, {})

\* Frames are sent to S one by one; a peer that vanished is found out or not.
SendTo(S) == \E lost \in SUBSET (S \cap gone) : closing' = closing \cup lost

\* The thread is handed a frame; it may be the last one before the socket closes.
Receive(c, e) == pc[c] = "read" /\ c \notin gone /\ e \in Events

\* Replaces the room a thread holds, whichever generation that is.
Update(t, r) == rooms' = [rooms EXCEPT ![room[t]] = r]

\* The test of _membership.
IsMember(c) ==
  /\ ~rooms[current].ended
  /\ rooms[current].parts[UserOf[c]].conn = c
  /\ c \in joined

-----------------------------------------------------------------------------
(* Handshake and read loop *)

Acquire(c) ==
  /\ pc[c] = "new"
  /\ IF perIp[IpOf[c]] < MaxPerIp /\ perUser[UserOf[c]] < MaxPerUser
       THEN /\ perIp' = [perIp EXCEPT ![IpOf[c]] = @ + 1]
            /\ perUser' = [perUser EXCEPT ![UserOf[c]] = @ + 1]
            /\ Go(c, "opened", 0, {})
       ELSE Go(c, "done", 0, {}) /\ UNCHANGED <<perIp, perUser>>
  /\ UNCHANGED <<roomVars, flagVars, registry, removed, sweepVars>>

Register(c) ==
  /\ pc[c] = "opened"
  /\ registry' = registry \cup {c}
  /\ Go(c, "read", 0, {})
  /\ UNCHANGED <<roomVars, flagVars, perIp, perUser, removed, sweepVars>>

\* The socket is closing or its peer has vanished.
ReadExit(c) ==
  /\ pc[c] = "read" /\ c \in closing \cup gone
  /\ Go(c, "pop", 0, {})
  /\ UNCHANGED <<roomVars, flagVars, countVars, sweepVars>>

PeerGone(c) ==
  /\ "gone" \in Faults
  /\ pc[c] \notin {"new", "done"} /\ c \notin gone
  /\ gone' = gone \cup {c}
  /\ UNCHANGED <<roomVars, pc, room, victims, joined, closing, countVars,
                 sweepVars>>

\* _broadcast: the last thing a handler does.
Cast(c) ==
  /\ pc[c] = "cast"
  /\ SendTo(Connections(rooms[room[c]]))
  /\ Resume(c)
  /\ UNCHANGED <<roomVars, joined, gone, countVars, sweepVars>>

-----------------------------------------------------------------------------
(* JOIN_ROOM *)

JoinLookup(c) ==
  /\ Receive(c, "join")
  /\ ~rooms[current].ended
  /\ Go(c, "join", current, {})
  /\ UNCHANGED <<roomVars, flagVars, countVars, sweepVars>>

\* Already joined, or refused: nothing changes.
JoinReturns(c) ==
  /\ pc[c] = "join"
  /\ c \in joined \/ ~Admissible(rooms[room[c]], UserOf[c])
  /\ UNCHANGED flagVars
  /\ Resume(c)
  /\ UNCHANGED <<roomVars, countVars, sweepVars>>

JoinAdmitted(c) ==
  LET u == UserOf[c]
      r == rooms[room[c]]
      displaced == {r.parts[u].conn} \ {NoConn, c}
  IN /\ pc[c] = "join"
     /\ c \notin joined
     /\ Admissible(r, u)
     /\ Update(c, Join(r, u, c))
     /\ Go(c, IF displaced = {} THEN "welcome" ELSE "joinRetire",
           room[c], displaced)
     /\ UNCHANGED <<current, flagVars, countVars, sweepVars>>

Welcome(c) ==
  /\ pc[c] = "welcome"
  /\ joined' = joined \cup {c}
  /\ Go(c, "cast", room[c], {})
  /\ UNCHANGED <<roomVars, closing, gone, countVars, sweepVars>>

\* `target.joined = False` and a last frame: the displaced tab, the kicked
\* participant or everybody in an ended room.
Retire(c, at, next) ==
  /\ pc[c] = at
  /\ joined' = joined \ victims[c]
  /\ SendTo(victims[c])
  /\ Go(c, next, room[c], victims[c])
  /\ UNCHANGED <<roomVars, gone, countVars, sweepVars>>

\* Mutant of Close: only who still believes to be inside is closed.
CloseJoined(c, at, next) ==
  /\ pc[c] = at
  /\ closing' = closing \cup (victims[c] \cap joined)
  /\ Go(c, next, room[c], {})
  /\ UNCHANGED <<roomVars, joined, gone, countVars, sweepVars>>

\* `target.close()`
Close(c, at, next) ==
  /\ pc[c] = at
  /\ closing' = closing \cup victims[c]
  /\ Go(c, next, room[c], {})
  /\ UNCHANGED <<roomVars, joined, gone, countVars, sweepVars>>

-----------------------------------------------------------------------------
(* LEAVE_ROOM, and the same code in cleanup *)

\* Mutant of LeaveBegin: the flag is left to the last frame.
LeaveBeginJoined(t, c, next) ==
  /\ Go(t, next, current, {})
  /\ UNCHANGED <<roomVars, flagVars, countVars, sweepVars>>

\* leave_room: fetch the room, clear the flag.
LeaveBegin(t, c, next) ==
  /\ joined' = joined \ {c}
  /\ Go(t, next, current, {})
  /\ UNCHANGED <<roomVars, closing, gone, countVars, sweepVars>>

Leave(c) == Receive(c, "leave") /\ LeaveBegin(c, c, "leave")

\* Mutant of Holds: whoever leaves removes the user, whatever socket serves it.
HoldsAny(r, c) == Inside(r, UserOf[c])

\* `participant.connection is conn`
Holds(r, c) == r.parts[UserOf[c]].conn = c

LeaveLock(c) ==
  LET r == rooms[room[c]]
  IN /\ pc[c] = "leave"
     /\ UNCHANGED flagVars
     /\ IF Holds(r, c)
          THEN Update(c, Remove(r, UserOf[c])) /\ Go(c, "cast", room[c], {})
          ELSE UNCHANGED rooms /\ Resume(c)
     /\ UNCHANGED <<current, countVars, sweepVars>>

-----------------------------------------------------------------------------
(* MUTE_CHANGED, SPEAKING_CHANGED, MODERATE *)

\* A member's frame passed _membership; its lock section comes next.
Handle(c, e) ==
  /\ e \in {"mute", "speak", "moderate"}
  /\ Receive(c, e) /\ IsMember(c)
  /\ Go(c, e, current, {})
  /\ UNCHANGED <<roomVars, flagVars, countVars, sweepVars>>

\* A section that changed room r to what will be broadcast.
Changed(c, r) ==
  /\ Update(c, r)
  /\ Go(c, "cast", room[c], {})
  /\ UNCHANGED <<current, flagVars, countVars, sweepVars>>

Mute(c) ==
  /\ pc[c] = "mute"
  /\ \E muted \in BOOLEAN :
       /\ MaySetMuted(rooms[room[c]], UserOf[c], muted)
       /\ Changed(c, SetMuted(rooms[room[c]], UserOf[c], muted))

Speak(c) ==
  /\ pc[c] = "speak"
  /\ Inside(rooms[room[c]], UserOf[c])
  /\ \E speaking \in BOOLEAN :
       Changed(c, SetSpeaking(rooms[room[c]], UserOf[c], speaking))

ModerateParticipant(c) ==
  /\ pc[c] = "moderate"
  /\ \E target \in Users, action \in ModerationAction \ {"kick"} :
       /\ MayModerate(rooms[room[c]], UserOf[c], target)
       /\ Changed(c, Moderate(rooms[room[c]], target, action))

ModerateLock(c) ==
  /\ pc[c] = "moderate"
  /\ IsOwner(rooms[room[c]], UserOf[c])
  /\ \E locked \in BOOLEAN : Changed(c, SetLocked(rooms[room[c]], locked))

\* Mutant of Kick: the participant goes, its socket is not retired.
KickRoomOnly(c) ==
  /\ pc[c] = "moderate"
  /\ \E target \in Users :
       /\ MayModerate(rooms[room[c]], UserOf[c], target)
       /\ Changed(c, Moderate(rooms[room[c]], target, "kick"))

Kick(c) ==
  /\ pc[c] = "moderate"
  /\ \E target \in Users :
       /\ MayModerate(rooms[room[c]], UserOf[c], target)
       /\ Update(c, Moderate(rooms[room[c]], target, "kick"))
       /\ Go(c, "kickRetire", room[c], {rooms[room[c]].parts[target].conn})
  /\ UNCHANGED <<current, flagVars, countVars, sweepVars>>

\* The section finds the frame refused: a restricted microphone, a target it
\* may not moderate, a user who has left meanwhile; or it has nothing to change.
Refused(c) ==
  LET r == rooms[room[c]]
      u == UserOf[c]
  IN /\ \/ pc[c] = "mute" /\ \E muted \in BOOLEAN : ~MaySetMuted(r, u, muted)
        \/ pc[c] = "speak" /\ ~Inside(r, u)
        \/ pc[c] = "speak" /\ \E speaking \in BOOLEAN : SetSpeaking(r, u, speaking) = r
        \/ pc[c] = "moderate"
        \/ pc[c] = "end" /\ ~IsOwner(r, u)
     /\ UNCHANGED flagVars
     /\ Resume(c)
     /\ UNCHANGED <<roomVars, countVars, sweepVars>>

\* KICK_COOLDOWN_SECONDS have passed since a kick.
CooldownOver(u) ==
  /\ "expire" \in Faults
  /\ \E g \in Gens :
       /\ u \in rooms[g].cooldown
       /\ rooms' = [rooms EXCEPT ![g] = ExpireCooldown(@, u)]
  /\ UNCHANGED <<current, pc, room, victims, flagVars, countVars, sweepVars>>

-----------------------------------------------------------------------------
(* END_ROOM *)

InEnd == {"end", "endRetire", "endClose", "endReset"}

\* Bound: every handler on its way to a reset can still have a generation.
EndBudget == current + Cardinality({c \in Conns : pc[c] \in InEnd}) < MaxRooms

End(c) ==
  /\ EndBudget
  /\ Receive(c, "end") /\ IsMember(c)
  /\ Go(c, "end", current, {})
  /\ UNCHANGED <<roomVars, flagVars, countVars, sweepVars>>

\* Mutant of EndLock: whoever is a member may end the room.
EndLockByAnyone(c) ==
  LET r == rooms[room[c]]
  IN /\ pc[c] = "end"
     /\ Update(c, EndRoom(r))
     /\ Go(c, "endRetire", room[c], Connections(r))
     /\ UNCHANGED <<current, flagVars, countVars, sweepVars>>

EndLock(c) ==
  LET r == rooms[room[c]]
  IN /\ pc[c] = "end"
     /\ IsOwner(r, UserOf[c])
     /\ Update(c, EndRoom(r))
     /\ Go(c, "endRetire", room[c], Connections(r))
     /\ UNCHANGED <<current, flagVars, countVars, sweepVars>>

\* Mutant of Reset: the registered room is not replaced.
ResetNothing(c) ==
  /\ pc[c] = "endReset"
  /\ UNCHANGED flagVars
  /\ Resume(c)
  /\ UNCHANGED <<roomVars, countVars, sweepVars>>

\* room_manager.reset: by room id, so whatever room is registered by now.
Reset(c) ==
  /\ pc[c] = "endReset"
  /\ current' = current + 1
  /\ UNCHANGED <<rooms, flagVars>>
  /\ Resume(c)
  /\ UNCHANGED <<countVars, sweepVars>>

-----------------------------------------------------------------------------
(* cleanup, run by the connection's own thread or by the sweeper *)

Subject(t) == IF t = Reaper THEN reaping ELSE t

\* Mutant of Pop: whoever finds the entry gone believes all is torn down.
PopOnce(t) ==
  LET c == Subject(t)
  IN /\ pc[t] = "pop"
     /\ registry' = registry \ {c}
     /\ removed' = IF c \in registry THEN removed \cup {t} ELSE removed
     /\ Go(t, IF c \in registry THEN "get" ELSE "free", 0, {})
     /\ UNCHANGED <<roomVars, flagVars, perIp, perUser, sweepVars>>

Pop(t) ==
  LET c == Subject(t)
  IN /\ pc[t] = "pop"
     /\ registry' = registry \ {c}
     /\ removed' = IF c \in registry THEN removed \cup {t} ELSE removed
     /\ Go(t, "get", 0, {})
     /\ UNCHANGED <<roomVars, flagVars, perIp, perUser, sweepVars>>

CleanBegin(t) == pc[t] = "get" /\ LeaveBegin(t, Subject(t), "drop")

CleanLock(t) ==
  LET c == Subject(t)
      r == rooms[room[t]]
  IN /\ pc[t] = "drop"
     /\ IF Holds(r, c)
          THEN Update(t, Remove(r, UserOf[c])) /\ Go(t, "castLeft", room[t], {})
          ELSE UNCHANGED rooms /\ Go(t, "free", 0, {})
     /\ UNCHANGED <<current, flagVars, countVars, sweepVars>>

CleanCast(t) ==
  /\ pc[t] = "castLeft"
  /\ SendTo(Connections(rooms[room[t]]))
  /\ Go(t, "free", 0, {})
  /\ UNCHANGED <<roomVars, joined, gone, countVars, sweepVars>>

\* ConnectionCounter.release for connection c: never below zero.
Release(c) ==
  /\ perIp' = [perIp EXCEPT ![IpOf[c]] = IF @ > 0 THEN @ - 1 ELSE 0]
  /\ perUser' = [perUser EXCEPT ![UserOf[c]] = IF @ > 0 THEN @ - 1 ELSE 0]

\* Mutant of CleanEnd: the slot is released by everybody who cleans up.
CleanEndTwice(t) ==
  LET c == Subject(t)
  IN /\ pc[t] = "free"
     /\ closing' = closing \cup {c}
     /\ Release(c)
     /\ removed' = removed \ {t}
     /\ reaping' = IF t = Reaper THEN NoConn ELSE reaping
     /\ Go(t, IF t = Reaper THEN "scan" ELSE "done", 0, {})
     /\ UNCHANGED <<roomVars, joined, gone, registry, todo>>

CleanEnd(t) ==
  LET c == Subject(t)
  IN /\ pc[t] = "free"
     /\ closing' = closing \cup {c}
     /\ IF t \in removed THEN Release(c) ELSE UNCHANGED <<perIp, perUser>>
     /\ removed' = removed \ {t}
     /\ reaping' = IF t = Reaper THEN NoConn ELSE reaping
     /\ Go(t, IF t = Reaper THEN "scan" ELSE "done", 0, {})
     /\ UNCHANGED <<roomVars, joined, gone, registry, todo>>

-----------------------------------------------------------------------------
(* The heartbeat sweep *)

SweepStart ==
  /\ "sweep" \in Faults
  /\ pc[Reaper] = "idle"
  /\ todo' = registry
  /\ Go(Reaper, "scan", 0, {})
  /\ UNCHANGED <<roomVars, flagVars, countVars, reaping>>

\* A vanished peer still counts as alive until the library notices.
SweepSkip(c) ==
  /\ pc[Reaper] = "scan" /\ c \in todo
  /\ c \notin closing
  /\ todo' = todo \ {c}
  /\ UNCHANGED <<roomVars, pc, room, victims, flagVars, countVars, reaping>>

\* last_seen is refreshed on every turn of the read loop, so only a thread
\* stuck inside a handler gets stale.
Stale(c) == "stale" \in Faults /\ pc[c] \in InHandler

SweepReap(c) ==
  /\ pc[Reaper] = "scan" /\ c \in todo
  /\ c \in closing \cup gone \/ Stale(c)
  /\ todo' = todo \ {c}
  /\ reaping' = c
  /\ Go(Reaper, "pop", 0, {})
  /\ UNCHANGED <<roomVars, flagVars, countVars>>

SweepEnd ==
  /\ pc[Reaper] = "scan" /\ todo = {}
  /\ Go(Reaper, "idle", 0, {})
  /\ UNCHANGED <<roomVars, flagVars, countVars, sweepVars>>

-----------------------------------------------------------------------------
(* Specification *)

Cleanup(t) ==
  Pop(t) \/ CleanBegin(t) \/ CleanLock(t) \/ CleanCast(t) \/ CleanEnd(t)

\* What the thread of c does once it has a frame, until it reads again.
Handler(c) ==
  \/ JoinReturns(c) \/ JoinAdmitted(c) \/ Welcome(c)
  \/ Retire(c, "joinRetire", "joinClose") \/ Close(c, "joinClose", "welcome")
  \/ LeaveLock(c)
  \/ Mute(c) \/ Speak(c)
  \/ ModerateParticipant(c) \/ ModerateLock(c) \/ Kick(c) \/ Refused(c)
  \/ Retire(c, "kickRetire", "kickClose") \/ Close(c, "kickClose", "cast")
  \/ EndLock(c) \/ Retire(c, "endRetire", "endClose")
  \/ Close(c, "endClose", "endReset") \/ Reset(c)
  \/ Cast(c)

\* The frames a client may send.
Frame(c) ==
  JoinLookup(c) \/ Leave(c) \/ End(c) \/ \E e \in Events : Handle(c, e)

Sweep == SweepStart \/ SweepEnd \/ \E c \in Conns : SweepSkip(c) \/ SweepReap(c)

Next ==
  \/ \E c \in Conns : Acquire(c) \/ Register(c) \/ Frame(c) \/ Handler(c)
                        \/ ReadExit(c) \/ PeerGone(c)
  \/ \E t \in Threads : Cleanup(t)
  \/ Sweep
  \/ \E u \in Users : CooldownOver(u)

Spec == Init /\ [][Next]_vars

\* Every thread that can take a step of its own takes it in the end: receive
\* times out, no lock is kept, sends fail or finish.  Clients owe nothing.
Fairness ==
  /\ \A c \in Conns : WF_vars(Register(c) \/ Handler(c) \/ ReadExit(c))
  /\ \A t \in Threads : WF_vars(Cleanup(t))
  /\ WF_vars(Sweep)

FairSpec == Spec /\ Fairness

-----------------------------------------------------------------------------
(* Safety *)

\* Whatever interleaving of joins, take-overs, mutes and moderation led here, no
\* room, ended or not, shows a restricted participant with an open microphone
\* or a muted one speaking.
MicSafe == \A g \in Gens : MicOK(rooms[g])

\* The owner role inside a room is exactly that of the recorded owner and of
\* the configured ones, and only DEV_MODE lets anybody else be recorded.
Ownership == \A g \in Gens : OwnerOK(rooms[g])

\* A moderator never gets to kick or restrict somebody who is, or later
\* becomes, an owner.
OwnerImmune == \A g \in Gens : ImmuneOK(rooms[g])

\* Whoever is kicked stays out until the cooldown is over, also with a second
\* tab whose join was under way.
KickSticks == \A g \in Gens : KickOK(rooms[g])

\* A participant is served by a socket of its own user.
OwnSocket == \A g \in Gens : HolderOK(rooms[g])

\* Take-overs and racing joins never fill a room beyond its capacity.
Capacity == \A g \in Gens : Cardinality(Members(rooms[g])) <= MaxParticipants

\* "no ghost participants": when the thread of a connection has ended, the
\* connection is not in the room clients see, whoever tore it down, and
\* whatever room its handlers had fetched.
NoGhost ==
  \A c \in Conns : pc[c] = "done" => c \notin Connections(rooms[current])

\* A slot of the connection caps is held from the acquire to the release.
HoldsSlot(c) ==
  pc[c] = "opened" \/ c \in registry \/ \E t \in removed : Subject(t) = c

\* "no leaked counters": the two caps count the live connections exactly, so
\* none is released twice when the sweeper and the read loop both clean up.
CountersExact ==
  /\ \A i \in Ips :
       perIp[i] = Cardinality({c \in Conns : HoldsSlot(c) /\ IpOf[c] = i})
  /\ \A u \in Users :
       perUser[u] = Cardinality({c \in Conns : HoldsSlot(c) /\ UserOf[c] = u})

Quiet == \A t \in Threads : pc[t] \in Idle

\* When no handler and no teardown is under way, an open socket believes it is
\* in the room exactly if the room it would look up holds that socket: a
\* displaced, kicked or expelled socket is never left believing it is inside.
SessionsAgree ==
  Quiet => \A c \in Conns \ closing :
             (c \in joined) <=> (c \in Connections(rooms[current]))

\* The same across END_ROOM: an open socket that believes it is inside was let
\* into some generation of the room, and whoever the room that clients are in
\* holds believes it.
SessionsPlaced ==
  Quiet => \A c \in Conns \ closing :
             /\ c \in joined => \E g \in Gens : Holds(rooms[g], c)
             /\ Holds(rooms[current], c) => c \in joined

\* Connection c is closed, or a thread that is under way will close it.
Doomed(c) ==
  \/ c \in closing
  \/ reaping = c /\ pc[Reaper] \in InCleanup
  \/ \E t \in Threads : c \in victims[t]

\* A frame of a member is under way to its section.
Acting == {"mute", "speak", "moderate", "end"}

\* A socket may act once more on a room in which it has lost its place, with the
\* frame that was under way when it was displaced, kicked or reaped; then it is
\* closed, for whoever took the place closes it.
StrangersDoomed ==
  \A c \in Conns :
    pc[c] \in Acting => Holds(rooms[room[c]], c) \/ Doomed(c)

\* "Duplicate session - newest socket wins, the old one is retired": where nothing
\* but joining happens, a user whose sockets displaced each other keeps one.
NewestWins ==
  Quiet => \A c \in closing : \E d \in joined \ closing : UserOf[d] = UserOf[c]

\* No thread touches a room before the manager has made it.
FutureBlank == \A g \in Gens : g > current => rooms[g] = NewRoom

-----------------------------------------------------------------------------
(* What a step may never do *)

\* A room in use is replaced only by ending it ("Wipe room state after the
\* owner ends it").
WipesEndedOnly ==
  [][current' # current =>
       rooms[current].ended \/ Members(rooms[current]) = {}]_vars

\* Whoever resets the room is an owner, by the record or by configuration, and has
\* ended the room it holds, which need not be the registered one where two ends
\* overlap.
ResetsEnded ==
  [][current' # current =>
       \E c \in Conns :
         /\ pc[c] = "endReset" /\ pc'[c] # "endReset"
         /\ rooms[room[c]].ended
         /\ UserOf[c] \in OwnerIds \cup {rooms[room[c]].owner}]_vars

\* Coming back from another tab does not lift a restriction: while the user is
\* inside, only a moderator's section does.
RestrictionSticks ==
  [][\A g \in Gens, u \in Users :
       rooms[g].parts[u].restricted /\ ~rooms[g].parts[u].restricted' =>
         \/ ~Inside(rooms'[g], u)
         \/ \E c \in Conns : pc[c] = "moderate" /\ pc'[c] # "moderate"]_vars

\* "the old one is retired": only the socket that serves a participant acts on
\* its microphone.
RetiredIsSilent ==
  [][\A c \in Conns : Mute(c) \/ Speak(c) => Holds(rooms[room[c]], c)]_vars

-----------------------------------------------------------------------------
(* What the server implements *)

\* Handlers that have ended a room and not yet reset it.
Resetting == {c \in Conns : pc[c] \in {"endRetire", "endClose", "endReset"}}

\* Connections that leave, or that somebody tears down.
Leaving ==
  {c \in Conns : \E t \in Threads : pc[t] \in {"leave", "drop"} /\ Subject(t) = c}

Promise ==
  INSTANCE Membership WITH
    holder <- [u \in Users |-> rooms[current].parts[u].conn],
    banned <- rooms[current].cooldown,
    locked <- rooms[current].locked,
    ending <- Resetting,
    leaving <- Leaving

\* Seen through the room clients are in, the interleaved handlers take and give
\* up places one at a time: a leave or teardown never takes the place of another
\* socket, only an owner's end wipes the room, nobody banned gets in.
KeepsMembership == Promise!Spec

-----------------------------------------------------------------------------
(* Liveness *)

\* A socket that is closed or to be closed (expelled, kicked, displaced, reaped),
\* or whose peer vanished, is torn down whatever befalls the thread that was to
\* close it: its own thread ends, and by then it is out of the room and its slot
\* is free.
TornDown == \A c \in Conns : Doomed(c) \/ c \in gone ~> pc[c] = "done"

\* An ended room is replaced by a fresh one that can be joined.
Reopens == rooms[current].ended ~> ~rooms[current].ended

=============================================================================
