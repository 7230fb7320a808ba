------------------------------ MODULE RoomFeed ------------------------------
(***************************************************************************)
(* What the clients of a room are told (websocket/voice.py).  A handler    *)
(* changes the room in a section under room.lock; the frames that tell of  *)
(* the change are built there and sent after the lock is released, to      *)
(* targets that a broadcast collects under the lock once more.  So frames  *)
(* of several threads reach a client in any order, and a newcomer gets the *)
(* state of the room while broadcasts are under way.                       *)
(*                                                                         *)
(* The sections are the operators of VoiceRoom, on one generation of the   *)
(* room that is not ended.  `work` holds what is left of each thread's     *)
(* handler: the sections, flag writes and sends still to come, in order.   *)
(* Payloads are abstracted to numbers: every section that changes what     *)
(* clients are shown of a subject (a user, or the lock) gives it the next  *)
(* number, and a frame carries the numbers it was built from.  A client    *)
(* keeps the highest it has received, and the chat messages.               *)
(***************************************************************************)
EXTENDS VoiceRoom, Sequences, Functions

CONSTANTS
  Reaper,         \* the heartbeat thread
  HistoryLimit,   \* config.MAX_CHAT_HISTORY
  Does,           \* for each connection: the events its client sends, "gone"
                  \* if its peer may vanish, "reap" if the sweeper may take it
  MaxChanges, MaxPosts,  \* bounds
  MaxBusy                \* bound: handlers under way at a time

Requests == {"mute", "lock", "moderate", "chat", "signal"}
Happening == Requests \cup {"join", "leave", "gone", "reap"}

ASSUME FeedAssumption ==
  /\ Reaper \notin Conns
  /\ HistoryLimit \in Nat
  /\ Does \in [Conns -> SUBSET Happening]
  /\ MaxChanges \in Nat /\ MaxPosts \in Nat /\ MaxBusy \in Nat

VARIABLES
  room,      \* the Room object
  version,   \* number of the last change of each subject
  changes,   \* number of changes
  posted,    \* number of chat messages
  history,   \* Room._messages, by number
  joined,    \* connections whose `joined` is True
  closing,   \* connections whose `closing` is True
  gone,      \* connections whose peer vanished
  registry,  \* _connections
  reading,   \* connections whose thread is in its read loop
  work,      \* what is left of each thread's handler
  heard,     \* client: the last change it was told of each subject
  got,       \* client: the chat messages it received
  announced, \* connections whose present stay some client was told of by
             \* PARTICIPANT_JOINED
  since      \* ghost: how many messages had been posted when it joined

roomVars == <<room, version, changes>>
chatVars == <<posted, history>>
connVars == <<joined, closing, gone, registry, reading>>
clientVars == <<heard, got, announced>>
vars == <<roomVars, chatVars, connVars, work, clientVars, since>>

Threads == Conns \cup {Reaper}
Subjects == Users \cup {"lock"}
TabsOf(u) == {c \in Conns : UserOf[c] = u}

\* A frame tells about subjects, brings chat messages, announces a newcomer.
IsFrame(f) ==
  /\ DOMAIN f.facts \subseteq Subjects
  /\ \A s \in DOMAIN f.facts : f.facts[s] <= version[s]
  /\ f.chat \subseteq 1..posted /\ f.news \subseteq Conns

\* A job: what to do, with or for which connections, sending which frame.  The
\* `who` of a broadcast are those it excludes.
IsJob(job) ==
  /\ job.do \in {"join", "rejoin", "leave", "mute", "lock", "moderate", "chat",
                  "signal", "retire", "close", "welcome", "send", "cast", "relay"}
  /\ job.who \subseteq Conns
  /\ IsFrame(job.frame)

\* What is left to do of all handlers.
Pending == UNION {Range(work[t]) : t \in Threads}

TypeOK ==
  /\ room \in Room
  /\ changes \in 0..MaxChanges /\ version \in [Subjects -> 0..changes]
  /\ posted \in 0..MaxPosts /\ history \in Seq(1..posted)
  /\ Len(history) <= HistoryLimit
  /\ joined \subseteq Conns /\ closing \subseteq Conns /\ gone \subseteq Conns
  /\ registry \subseteq Conns /\ reading \subseteq Conns
  /\ \A job \in Pending : IsJob(job)
  /\ heard \in [Conns -> [Subjects -> 0..changes]]
  /\ got \in [Conns -> SUBSET (1..posted)]
  /\ announced \subseteq Conns
  /\ since \in [Conns -> 0..posted]

Init ==
  /\ room = NewRoom
  /\ version = [s \in Subjects |-> 0] /\ changes = 0
  /\ posted = 0 /\ history = <<>>
  /\ joined = {} /\ closing = {} /\ gone = {}
  /\ registry = Conns /\ reading = Conns
  /\ work = [t \in Threads |-> <<>>]
  /\ heard = [c \in Conns |-> [s \in Subjects |-> 0]]
  /\ got = [c \in Conns |-> {}] /\ announced = {}
  /\ since = [c \in Conns |-> 0]

-----------------------------------------------------------------------------
(* Frames and jobs *)

\* What the numbers of S are after this step's change.
Facts(S) == [s \in S |-> version'[s]]

About(S) == [facts |-> Facts(S), chat |-> {}, news |-> {}]
Chat(M) == [facts |-> Facts({}), chat |-> M, news |-> {}]
Plain == Chat({})

Do(what) == [do |-> what, who |-> {}, frame |-> Plain]
With(what, D) == [do |-> what, who |-> D, frame |-> Plain]
Send(c, f) == [do |-> "send", who |-> {c}, frame |-> f]
Cast(excluded, f) == [do |-> "cast", who |-> excluded, frame |-> f]

\* Room.state_for and Room.history; an absent user is told of by being absent.
State == About(Subjects)
Messages == Chat({history[i] : i \in DOMAIN history})

\* PARTICIPANT_JOINED and PARTICIPANT_LEFT carry the room's info, the lock with it.
Joined(u, c) == [About({u, "lock"}) EXCEPT !.news = {c}]
Left(u) == About({u, "lock"})

At(t, what) == work[t] # <<>> /\ Head(work[t]).do = what
Then(t, jobs) == work' = [work EXCEPT ![t] = jobs \o Tail(@)]

\* A section changed subject s.
Change(s) ==
  /\ changes < MaxChanges
  /\ changes' = changes + 1
  /\ version' = [version EXCEPT ![s] = changes']

NoChange == UNCHANGED roomVars

-----------------------------------------------------------------------------
(* The read loop *)

\* A thread may start on something.
Free(t) == work[t] = <<>> /\ Cardinality({s \in Threads : work[s] # <<>>}) < MaxBusy

\* The thread of c has a frame to handle.
Reads(c, what) ==
  /\ what \in Does[c]
  /\ c \in reading /\ Free(c) /\ c \notin closing \cup gone

Begins(c, what) == work' = [work EXCEPT ![c] = <<Do(what)>>]

\* `conn.joined` is tested before the lock is taken.
ReadJoin(c) ==
  /\ Reads(c, "join")
  /\ Begins(c, IF c \in joined THEN "rejoin" ELSE "join")
  /\ UNCHANGED <<roomVars, chatVars, connVars, clientVars, since>>

\* leave_room: the flag is cleared before the lock is taken.
Leaving(t, c, rest) ==
  /\ joined' = joined \ {c}
  /\ work' = [work EXCEPT ![t] = <<With("leave", {c})>> \o rest]

ReadLeave(c) ==
  /\ Reads(c, "leave")
  /\ Leaving(c, c, <<>>)
  /\ UNCHANGED <<roomVars, chatVars, closing, gone, registry, reading,
                 clientVars, since>>

Holds(c) == room.parts[UserOf[c]].conn = c

\* Everything else is for members only: _membership.
ReadMember(c, what) ==
  /\ Reads(c, what) /\ c \in joined /\ Holds(c)
  /\ Begins(c, what)
  /\ UNCHANGED <<roomVars, chatVars, connVars, clientVars, since>>

\* cleanup on the connection's own thread, and on the sweeper's.
CleanUp(c) ==
  /\ c \in reading /\ Free(c) /\ c \in closing \cup gone
  /\ reading' = reading \ {c} /\ registry' = registry \ {c}
  /\ Leaving(c, c, <<With("close", {c})>>)
  /\ UNCHANGED <<roomVars, chatVars, closing, gone, clientVars, since>>

\* A dead connection, or one that looks stale.
Reap(c) ==
  /\ "reap" \in Does[c] /\ Free(Reaper) /\ c \in registry
  /\ registry' = registry \ {c}
  /\ Leaving(Reaper, c, <<With("close", {c})>>)
  /\ UNCHANGED <<roomVars, chatVars, closing, gone, reading, clientVars, since>>

PeerGone(c) ==
  /\ "gone" \in Does[c] /\ c \notin gone
  /\ gone' = gone \cup {c}
  /\ UNCHANGED <<roomVars, chatVars, joined, closing, registry, reading, work,
                 clientVars, since>>

-----------------------------------------------------------------------------
(* Sections *)

\* Mutant of Newcomer: the flag is set once everybody has been told.
NewcomerLate(c, u, rejoin) ==
  <<Send(c, State), Send(c, Messages), Cast(TabsOf(u), Joined(u, c))>>
    \o (IF rejoin THEN <<Cast(TabsOf(u), About({u}))>> ELSE <<>>)
    \o <<Do("welcome")>>

\* The end of _handle_join.
Newcomer(c, u, rejoin) ==
  <<Do("welcome"), Send(c, State), Send(c, Messages), Cast(TabsOf(u), Joined(u, c))>>
    \o (IF rejoin THEN <<Cast(TabsOf(u), About({u}))>> ELSE <<>>)

Join_(c) ==
  LET u == UserOf[c]
      displaced == {room.parts[u].conn} \ {NoConn, c}
  IN /\ At(c, "join") /\ Admissible(room, u)
     /\ room' = Join(room, u, c)
     /\ Change(u)
     /\ Then(c, (IF displaced = {} THEN <<>>
                   ELSE <<With("retire", displaced), With("close", displaced)>>)
                \o Newcomer(c, u, Inside(room, u)))
     /\ since' = [since EXCEPT ![c] = posted]
     /\ announced' = announced \ {c}
     /\ UNCHANGED <<chatVars, connVars, heard, got>>

Rejoin(c) ==
  /\ At(c, "rejoin")
  /\ NoChange
  /\ Then(c, <<Send(c, State), Send(c, Messages)>>)
  /\ UNCHANGED <<chatVars, connVars, clientVars, since>>

\* On the connection's own thread or the sweeper's.
Leave(t) ==
  /\ At(t, "leave")
  /\ \E c \in Head(work[t]).who :
       IF Holds(c)
         THEN /\ room' = Remove(room, UserOf[c])
              /\ Change(UserOf[c])
              /\ Then(t, <<Cast({}, Left(UserOf[c]))>>)
         ELSE NoChange /\ Then(t, <<>>)
  /\ UNCHANGED <<chatVars, connVars, clientVars, since>>

\* MUTE_CHANGED and SPEAKING_CHANGED repeat a part of PARTICIPANT_UPDATED.
Mute(c) ==
  LET u == UserOf[c] IN
  /\ At(c, "mute")
  /\ \E muted \in BOOLEAN :
       /\ MaySetMuted(room, u, muted)
       /\ room' = SetMuted(room, u, muted)
  /\ Change(u)
  /\ Then(c, <<Cast({}, Plain), Cast({}, About({u}))>>)
  /\ UNCHANGED <<chatVars, connVars, clientVars, since>>

Lock(c) ==
  /\ At(c, "lock") /\ IsOwner(room, UserOf[c])
  /\ \E locked \in BOOLEAN : room' = SetLocked(room, locked)
  /\ Change("lock")
  /\ Then(c, <<Cast({}, About({"lock"}))>>)
  /\ UNCHANGED <<chatVars, connVars, clientVars, since>>

ModerateTarget(c) ==
  /\ At(c, "moderate")
  /\ \E target \in Users, action \in ModerationAction \ {"kick"} :
       /\ MayModerate(room, UserOf[c], target)
       /\ room' = Moderate(room, target, action)
       /\ Change(target)
       /\ Then(c, <<Cast({}, About({target}))>>
                  \o IF action = "allow" THEN <<>>
                     ELSE <<Cast({}, Plain), Cast({}, Plain)>>)
  /\ UNCHANGED <<chatVars, connVars, clientVars, since>>

Kick(c) ==
  /\ At(c, "moderate")
  /\ \E target \in Users :
       LET d == room.parts[target].conn IN
       /\ MayModerate(room, UserOf[c], target)
       /\ room' = Moderate(room, target, "kick")
       /\ Change(target)
       /\ Then(c, <<With("retire", {d}), With("close", {d}), Cast({}, Left(target))>>)
  /\ UNCHANGED <<chatVars, connVars, clientVars, since>>

\* Mutant of Kept: a full history takes no more.
KeptOldest(h) == SubSeq(h, 1, HistoryLimit)

\* Mutant of Kept: there is no limit.
KeptAll(h) == h

\* deque(maxlen): the oldest message goes.
Kept(h) == IF Len(h) > HistoryLimit THEN Tail(h) ELSE h

Post(c) ==
  /\ At(c, "chat") /\ Inside(room, UserOf[c])
  /\ ~room.parts[UserOf[c]].restricted
  /\ posted < MaxPosts
  /\ posted' = posted + 1
  /\ history' = Kept(Append(history, posted'))
  /\ NoChange
  /\ Then(c, <<Cast({}, Chat({posted'}))>>)
  /\ UNCHANGED <<connVars, clientVars, since>>

\* The relay looks the target up under the lock ...
Signal(c) ==
  /\ At(c, "signal")
  /\ \E target \in Members(room) \ {UserOf[c]} :
       Then(c, <<With("relay", {room.parts[target].conn})>>)
  /\ NoChange
  /\ UNCHANGED <<chatVars, connVars, clientVars, since>>

\* The section refuses: an error frame to the sender, if anything.
Refused(c) ==
  LET u == UserOf[c] IN
  /\ \/ At(c, "join") /\ ~Admissible(room, u)
     \/ At(c, "mute") /\ \E muted \in BOOLEAN : ~MaySetMuted(room, u, muted)
     \/ At(c, "lock") /\ ~IsOwner(room, u)
     \/ At(c, "moderate")
     \/ At(c, "chat") /\ (~Inside(room, u) \/ room.parts[u].restricted)
     \/ At(c, "signal")
  /\ NoChange
  /\ Then(c, <<>>)
  /\ UNCHANGED <<chatVars, connVars, clientVars, since>>

-----------------------------------------------------------------------------
(* After the section *)

Welcome(c) ==
  /\ At(c, "welcome")
  /\ joined' = joined \cup {c}
  /\ Then(c, <<>>)
  /\ UNCHANGED <<roomVars, chatVars, closing, gone, registry, reading,
                 clientVars, since>>

\* The last frame to a displaced or kicked client is no news of the room.
Retire(t) ==
  /\ At(t, "retire")
  /\ joined' = joined \ Head(work[t]).who
  /\ Then(t, <<>>)
  /\ UNCHANGED <<roomVars, chatVars, closing, gone, registry, reading,
                 clientVars, since>>

Close(t) ==
  /\ At(t, "close")
  /\ closing' = closing \cup Head(work[t]).who
  /\ Then(t, <<>>)
  /\ UNCHANGED <<roomVars, chatVars, joined, gone, registry, reading,
                 clientVars, since>>

\* Mutant of Targets: those who are not welcomed yet are passed over.
TargetsJoined(excluded) == (Connections(room) \cap joined) \ excluded

Targets(excluded) == Connections(room) \ excluded

\* _broadcast: the targets are collected under the lock.
Aim(t) ==
  LET job == Head(work[t]) IN
  /\ At(t, "cast")
  /\ Then(t, IF Targets(job.who) = {} THEN <<>>
             ELSE <<[job EXCEPT !.do = "send", !.who = Targets(job.who)]>>)
  /\ UNCHANGED <<roomVars, chatVars, connVars, clientVars, since>>

Later(a, b) == IF a <= b THEN b ELSE a

\* The client takes in a frame.
Receive(c, f) ==
  /\ heard' = [heard EXCEPT ![c] =
       [s \in Subjects |-> IF s \in DOMAIN f.facts THEN Later(@[s], f.facts[s])
                                                   ELSE @[s]]]
  /\ got' = [got EXCEPT ![c] = @ \cup f.chat]
  /\ announced' = announced \cup f.news

\* Connection.send: nothing is sent on a closing socket, and a vanished peer
\* may be found out.
Sent(c, f) ==
  IF c \in closing \cup gone
    THEN /\ UNCHANGED clientVars
         /\ closing' \in {closing, closing \cup ({c} \cap gone)}
    ELSE Receive(c, f) /\ UNCHANGED closing

\* One frame to the next target, in any order.
Deliver(t) ==
  LET job == Head(work[t]) IN
  /\ At(t, "send")
  /\ \E c \in job.who :
       /\ Sent(c, job.frame)
       /\ Then(t, IF job.who = {c} THEN <<>>
                  ELSE <<[job EXCEPT !.who = @ \ {c}]>>)
  /\ UNCHANGED <<roomVars, chatVars, joined, gone, registry, reading, since>>

\* ... and tests the target's flag without the lock.
Relay(c) ==
  /\ At(c, "relay")
  /\ \E d \in Head(work[c]).who :
       Then(c, IF d \in joined THEN <<Send(d, Plain)>> ELSE <<>>)
  /\ UNCHANGED <<roomVars, chatVars, connVars, clientVars, since>>

Work(t) == Leave(t) \/ Retire(t) \/ Close(t) \/ Aim(t) \/ Deliver(t)

Handler(c) ==
  \/ Join_(c) \/ Rejoin(c) \/ Mute(c) \/ Lock(c) \/ ModerateTarget(c)
  \/ Kick(c) \/ Post(c) \/ Signal(c) \/ Refused(c) \/ Welcome(c) \/ Relay(c)

Next ==
  \/ \E c \in Conns :
       \/ ReadJoin(c) \/ ReadLeave(c)
       \/ \E what \in Requests : ReadMember(c, what)
       \/ Handler(c) \/ CleanUp(c) \/ Reap(c) \/ PeerGone(c)
  \/ \E t \in Threads : Work(t)

Spec == Init /\ [][Next]_vars

-----------------------------------------------------------------------------
(* Properties *)

Listening(c) == Holds(c) /\ c \notin closing \cup gone

Brings(job, c) ==
  \/ job.do = "send" /\ c \in job.who
  \/ job.do = "cast" /\ c \notin job.who

\* The frames under way that will reach c.
ComingTo(c) == {job.frame : job \in {job \in Pending : Brings(job, c)}}

\* No change is missed: whoever is in the room has heard the latest of every
\* participant and of the lock, or a frame that tells it is on its way, however
\* joins, departures and broadcasts cross.
Told ==
  \A c \in Conns : Listening(c) =>
    \A s \in Subjects :
      \/ heard[c][s] = version[s]
      \/ \E f \in ComingTo(c) : s \in DOMAIN f.facts /\ f.facts[s] = version[s]

\* Nor is a chat message: who joins gets the history as of then, and everything
\* that is posted afterwards.
ChatTold ==
  \A c \in Conns : Listening(c) =>
    \A m \in 1..posted : m + HistoryLimit > since[c] =>
      m \in got[c] \/ \E f \in ComingTo(c) : m \in f.chat

\* Somebody removes c or retires it.
Dismissed(c) ==
  \/ c \in closing
  \/ \E job \in Pending : job.do \in {"leave", "close"} /\ c \in job.who

\* A peer that was announced by PARTICIPANT_JOINED can be signalled: the relay
\* finds it joined for as long as it keeps its place and nobody dismisses it.
Reachable == \A d \in announced : Holds(d) => d \in joined \/ Dismissed(d)

\* "ROOM_STATE gives the roster", and an offer to anybody on it is relayed: who
\* is in the room by the latest that a client has heard can be signalled.
RosterReachable ==
  \A c, d \in Conns :
    /\ Listening(c) /\ c \in joined /\ Holds(d)
    /\ heard[c][UserOf[d]] = version[UserOf[d]]
    => d \in joined \/ Dismissed(d)

=============================================================================
