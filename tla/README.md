# A verification of the voice chat backend

The repository is a Flask backend for a Telegram-style group voice chat: it
verifies who somebody is, hands out a single-use ticket for a websocket, and
keeps one room in memory whose participants join, mute, are moderated and leave
over that websocket. Audio never passes through it. This directory holds TLA+
modules that model the code, TLC configurations that check them on small
instances, and proofs that TLAPS checks for instances of every size.

Paths below are relative to the repository. (The directory `tekegram/` is what
the code imports as `telegram`.)

## The system

One process serves every client. Each websocket has a thread that runs
`read_loop` and the handlers it dispatches to; one daemon thread is the
heartbeat sweeper; HTTP requests run on threads of their own. Nothing is
persisted. The threads share the room manager, the rooms, the registry of
connections, the connection counters, the log of used tickets, the identity
store and the rate limiters, each with a lock of its own.

| Component | State | Operations | What makes it hard |
|---|---|---|---|
| Room aggregate (`rooms/room.py`, `participant.py`) | participants by user, owner, locked, ended, kick cooldowns, chat | add, remove, adopt owner, lock, end, cooldown, chat | flags that must stay consistent; take-over keeps the participant |
| Role resolution (`auth/identity.py`) | none | resolve_role, can_claim_ownerless_room | configured owners and the recorded owner may differ |
| Websocket handlers (`websocket/voice.py`) | registry, per connection `joined`, `closing`, `last_seen` | join, leave, mute, speaking, moderate, lock, end, chat, relay, cleanup | the room is fetched before it is locked; sockets are retired after it is unlocked |
| Room manager (`rooms/manager.py`) | room id to Room | get, reset, drop_empty | reset replaces the object other threads still hold |
| Sweeper (`websocket/heartbeat.py`) | none | sweep_once | tears down connections whose own thread does so too |
| Connection caps (`security/rate_limit.py`) | counts per address and user | acquire, release | exactly one release for each acquire |
| Token buckets (`security/rate_limit.py`, cut-offs in `read_loop`) | tokens, last refill, violations | allow, note_violation, idle sweep | refill at use, forgetting idle buckets, one count for three cut-offs |
| Frames to clients (`websocket/protocol.py`, sends in `voice.py`) | frames in flight | broadcast, relay, state and history for a newcomer | built under the lock, sent after it |
| Tickets and sessions (`auth/tickets.py`) | log of used ids | issue, verify, redeem | expiry and consumption are two steps; the log is bounded |
| Identity store (`auth/identity.py`) | users by id | link, get | lost at a restart |
| HTTP authentication (`routes/auth.py`) | none | session, ticket | several refusals before one effect |
| Firebase and Telegram verification | none | verify | external, cryptographic |
| Frame validation, origin, set-up, read-only routes | none | pure functions, wiring, reports | no state to go wrong |

`PROJECT.json` lists every component with its status, and the hazards of this
code line by line with the properties that cover them.

## The modules

| Module | Stands for |
|---|---|
| `VoiceRoom` | one Room record and every critical section on it, as operators; the role rules |
| `VoiceServer` | the threads: handshake with the caps, read loop, join, leave, mute, speak, moderate, lock, end, cleanup, sweeper, manager |
| `Membership` | the abstract specification: who holds a place, who may take it or take it away |
| `RoomFeed` | what clients are told: the sends that follow each section of `VoiceRoom`, broadcasts, chat history, relay |
| `RateLimit` | token buckets, the HTTP limiter with its sweep, the limiter of a socket and the cut-offs of its read loop |
| `Buckets` | the abstract specification of `RateLimit`: buckets filled at every tick and never forgotten |
| `Tickets` | sessions, tickets, the log of used ids, expiry, restart |
| `VoiceRoomProofs` | what each critical section preserves of a room record |
| `VoiceServerProofs` | the inductive invariant of `VoiceServer` and the theorems drawn from it |
| `VoiceCapsProofs` | the counters of the caps |
| `VoiceSessionsProofs` | what a socket believes (`joined`) against what the rooms hold |
| `VoicePromiseProofs` | `VoiceServer` implements `Membership` |
| `RoomFeedProofs` | the invariant of `RoomFeed`, that nobody in the room misses a change or a chat message, and that whoever is announced can be signalled |
| `RateLimitProofs` | the invariant of `RateLimit`, its bounds, and that it implements `Buckets` |
| `TicketsProofs` | the invariant of `Tickets`: what each good ticket has opened and may still open |
| `MCVoiceServer`, `MCRoomFeed`, `MCRateLimit`, `MCTickets` | the instances for TLC |

### How VoiceServer corresponds to the code

A step is one critical section, or one write to state that other threads read
without a lock, together with what the thread does alone around it. `pc[t]` is
where a thread is between two steps. `room[t]` is its local variable `room`: the
manager may replace the room while a thread holds the old object, so `rooms`
keeps every generation and `current` is the one the manager would return.

- *Handshake*: `Acquire` (caps) and `Register`; authentication is `Tickets`.
- *Read loop*: `Receive` is the guard of every frame, `ReadExit` the end of the
  loop on a closing or vanished socket. After a handler, `Resume` tests
  `conn.closing` as the loop does.
- *JOIN_ROOM*: `JoinLookup` (fetch the room and test `ended`), `JoinReturns` or
  `JoinAdmitted` (the section under `room.lock`), then `Retire`, `Close` for a
  displaced socket, `Welcome` (`conn.joined = True`), `Cast`.
- *LEAVE_ROOM and cleanup* share `leave_room`: `LeaveBegin` fetches the room and
  clears the flag, `LeaveLock`/`CleanLock` remove the participant if it is still
  this connection's. `Pop`, `CleanBegin`, `CleanLock`, `CleanCast`, `CleanEnd`
  run on the connection's own thread and on the sweeper's.
- *Moderation*: `Mute`, `Speak`, `ModerateParticipant`, `ModerateLock`, `Kick`,
  `Refused`. A kick removes the participant in the section and retires and
  closes the socket after it.
- *END_ROOM*: `End`, `EndLock`, `Retire`, `Close`, `Reset`.

Merged steps, and why nothing is lost:

- `_membership` is one test where the frame is read. It makes three reads, and
  only the connection's own thread can make the connection a member, so whoever
  passes the reads one after another passed them together at the last of them or
  lost membership afterwards, which the next section sees either way.
- A loop that retires, or closes, several sockets is one step for each loop:
  the threads it affects act one by one afterwards.
- A refused frame that only sends an error to its sender is no step when the
  thread has not left the read state.
- `SendTo` lets any part of the vanished peers be found out; sends return.

`live` is the negation of `ended` and a participant's own `joined` field is true
for everybody in the dictionary; both are left out, like names, photos and times.

### How RoomFeed corresponds to the code

`VoiceServer` knows who is inside; `RoomFeed` knows what everybody is told about
it. It uses the same sections (the operators of `VoiceRoom`) on one room that is
not ended, and keeps, for each thread, the list `work` of what is left of its
handler: first the section, then the flag writes, closes and sends in the order
of the code. A section puts the frames it has built into that list. A broadcast
is two kinds of step, as in `_broadcast`: `Aim` collects the targets under the
lock, `Deliver` sends to one of them at a time.

What a frame says is abstracted to numbers. A section that changes what clients
are shown of a participant, or of the lock, gives it the next number (`version`);
a frame carries the numbers of what it tells (`facts`), chat messages (`chat`)
and a newcomer it announces (`news`). ROOM_STATE and ROOM_JOINED, which follow
each other, are one frame. MUTE_CHANGED, and SPEAKING_CHANGED after a moderation,
repeat a part of PARTICIPANT_UPDATED and count as no news. A client keeps the
highest number it has heard: whether a client that does not look at the order
shows the latest is another matter, see below. SPEAKING_CHANGED of a speaker,
END_ROOM, cooldowns that run out and the caps are left to `VoiceServer`.

### How RateLimit corresponds to the code

`bucket[k]` is a `TokenBucket` or `NoBucket`; `Used` is `allow`. `HttpAllow` is
`HttpRateLimiter.allow` with its `_sweep`, one step under the limiter's lock.
`Invalid`, `Flooded` and `Event` are the ways a frame passes through `read_loop` up
to `dispatch`. Time and tokens are whole numbers in units of which `Cost` make one
token, so that every rational rate and time step has an instance; rounding of
floats is left out. `watched` and `from` are chosen at the start and never change:
the properties hold for every bucket and every window because they hold for
every choice. `granted` and `frames` count in that window. `RateAssumption` asks
that an HTTP bucket fills within the idle time, which the limits of `config.py`
satisfy (50 s at most against 900 s); without it the sweep would give tokens away.

### How Tickets corresponds to the code

`CreateSession` links the identity and issues a session, `CreateTicket` checks
the session and the identity and issues a ticket. A handshake takes `Decode`
(signature and expiry), `Consume` (the nonce log under its lock, which drops
expired ids when it is longer than its limit) and `Admit` (the identity) as
separate steps. Tokens are held by clients and outlive a `Restart`, which empties
the log and the identities and, where the secret is `ephemeral`, which the start
chooses, draws a new one.
`opened` counts the sockets that each ticket opened.

## What is checked

Every run lists its INVARIANTs and PROPERTYs in its configuration.

| Run | Instance | Shows |
|---|---|---|
| `teardown` | an owner and a guest; join, leave, end; the sweeper, vanishing peers, hanging handlers, two generations, fairness | `NoGhost`, `CountersExact`, `SessionsPlaced`, `ResetsEnded`, `KeepsMembership`, `TornDown`, `Reopens` |
| `moderation` | a moderator and a user with two tabs; join, leave, moderate; vanishing peers, cooldowns that end | `TypeOK`, `KickSticks`, `SessionsAgree`, `StrangersDoomed`, `RestrictionSticks`, `KeepsMembership` |
| `claim` | DEV_MODE with a configured owner, three users and two places, microphones and moderation | `Ownership`, `OwnerImmune`, `MicSafe`, `Capacity` |
| `roomFeed` | an owner and a guest with two tabs, frames of two handlers in flight | `TypeOK`, `Told`, `ChatTold`, `Reachable` |
| `rateLimit` | two HTTP clients with a slow and a fast bucket, a socket with one kind of event | `TypeOK`, `RateBound`, `LoadBound`, `TableBound`, `KeepsBuckets` |
| `tickets` | two handshakes, three tickets, a log of one entry, two restarts, the secret configured or drawn at start | `TypeOK`, `OnceWhileValid` |
| `zombie` | a join under way while the room is ended | `SessionsAgree` fails |
| `doubleEnd` | two sockets of the owner end the room | `WipesEndedOnly` fails |
| `bothClosed` | two tabs displace each other | `NewestWins` fails |
| `staleMic` | a displaced tab's mute frame is under way | `RetiredIsSilent` fails |
| `ticketReuse` | a handshake stalls over the expiry of its ticket | `SingleUse` fails |
| `roster` | a client joins right after another | `RosterReachable` fails |

Bounds. Three connections are enough for a take-over with a third party looking
on, or for a moderator and two tabs of the target; the properties relate at most
two sockets of one user and one other. `MaxRooms` bounds the generations of the
room: one where END_ROOM is not among the events, two for one end, three where
two ends meet. `MaxParticipants` is set to where it refuses somebody in
`claim` and out of the way elsewhere. `MaxPerIp` and `MaxPerUser` refuse nobody in
these instances: a third connection makes `teardown` too large, and a cap of one
would keep the two apart that are to race. That a refusal leaves the counters
exact rests on the theorem `CountersAreExact`, which holds for all caps. `Events`
and `Faults` select what happens in a run, so that each question has an
instance of a size TLC can exhaust; between them the runs use all of them. In
`Tickets`, `LogLimit` is 1 so that the log overflows at the second ticket.
In `RoomFeed`, `Does` says what each client sends and suffers, `MaxChanges` and
`MaxPosts` bound the changes of the room and the messages (three changes are an
owner, a guest and the guest's second tab, or a guest who is moderated or leaves;
two messages overflow a history of one), and `MaxBusy` = 2 lets any two threads be in their
handlers at a time: each property is about one section or broadcast that crosses
another. In `RateLimit`, a sweep is due every
2 units and a bucket idle after 3, so that requests come between two sweeps and a
bucket may be idle for a while before it is swept; `MaxTime` 6 is the first moment
at which one could have stayed longer than both allow. The proofs have no such
bounds.
Connections are never reused, as in the code: a client that comes back is
another connection.

Deadlock checking is on in `teardown`, where the sweeper never stops. Elsewhere it
is off: without the sweeper the server really stops when every socket is closed
(a connection is a thread that ends), and the clocks and changes are bounded.

Fairness. `FairSpec` gives weak fairness to each connection's thread once it is
registered, to each teardown and to the sweeper. The code justifies it:
`ws.receive` times out, no lock is held across a wait for another, a handler is
straight-line code, and sends are taken to fail or finish. Clients owe nothing:
no frame is ever bound to arrive.

### What the failing runs show

1. **A join admitted to a dead room** (`websocket/voice.py:147`). `room.ended` is
   tested before the lock is taken. The socket is then joined to a Room the
   manager has replaced: it gets no broadcast of the new room, each further
   JOIN_ROOM resends the state as for somebody who is inside, and every frame of a
   member is refused, until the client sends LEAVE_ROOM, which clears the flag.
2. **A second end wipes the new room** (`websocket/voice.py:397`). `reset` goes by
   room id; a second END_ROOM of the owner that was accepted before the first
   one finished replaces the live room.
3. **Two tabs close each other** (`websocket/voice.py:206`). The displaced tab can
   take the place back before it is closed; both are closed.
4. **A retired tab switches the microphone** (`websocket/voice.py:250`). The
   section looks the participant up by user, not by connection. `StrangersDoomed`
   shows how far this goes: such a socket is about to be closed, so it is one frame.
5. **A ticket used twice** (`auth/tickets.py:84`). It takes a log at its limit and
   a handshake that is delayed between two calls at the moment of expiry.
   `OnceWhileValid` shows that it takes the expiry: a ticket that is still good
   has opened one socket at most, or one more for each restart that emptied the log
   and kept a configured secret.
6. **On the roster and not to be reached** (`websocket/voice.py:444`). A newcomer is
   in the room before `conn.joined` is set; when it displaces a tab, that socket is
   closed in between. Whoever joins meanwhile sees it in ROOM_STATE, and its offer
   is refused; by the protocol nobody else offers. `Reachable` shows that those
   who learn of it by PARTICIPANT_JOINED are not affected.

Two more things the code does that no text of the repository rules out, so that
no run calls them wrong. In DEV_MODE a configured owner who joins second gets the
role and not the record (`voice.py:185`, which its comment at 184 words more
strongly); `Ownership` states what happens. And frames of two broadcasts may
reach a client in the wrong order (`voice.py:121`): `Told` says the latest is
always sent to everybody inside, not that it is the last to arrive, so a client
that goes by the last frame may show, say, somebody who has left.

## What is proved

For all finite sets of users and connections, all caps and any number of
generations, from the assumptions `RoomAssumption` and `ServerAssumption`
alone:

- `TypeCorrect`, `MicrophonesSafe`, `OwnershipExact`, `OwnersImmune`,
  `KicksStick`, `CapacityRespected`, `SocketsOwn`, `NoGhosts`: `Spec` implies each
  invariant always;
- `RestrictionsStick`: the action property about restrictions;
- `ResetsFollowEnds`: only an owner's handler that has ended the room it fetched
  makes the manager replace the room (`ResetsEnded`);
- `WipesNeedTwoEnds`: in a behaviour in which no two END_ROOM handlers overlap,
  `WipesEndedOnly` holds, so that the overlap `doubleEnd` shows is the only way to
  lose a room in use;
- `StrangersAreDoomed`: `StrangersDoomed` always;
- `SessionsArePlaced`: `SessionsPlaced` always; `AgreeUntilReset`: `SessionsAgree` as
  long as the first generation lasts; `SessionsAgreeUnended`: `SessionsAgree` always
  where "end" is not among `Events`. What `zombie` shows is thus due to END_ROOM
  alone;
- `CountersAreExact`: the caps count the live connections;
- `ImplementsMembership`: `Spec` implies `KeepsMembership`, that is, every step of
  the threads is a step of `Membership` or none, seen through the registered room.

For all limits, clocks and numbers of keys, from `RateAssumption`: `TypeCorrect`,
`RatesBounded`, `LoadBounded`, `TableBounded` and `ImplementsBuckets` of
`RateLimitProofs`.

For all users, connections, client behaviours and bounds, from `RoomAssumption` and
`FeedAssumption`: `FeedTypeCorrect`, `EveryoneTold`, `ChatReaches` and
`AnnouncedReachable` of `RoomFeedProofs`.

For all log limits, lifetimes, clocks and numbers of handshakes, tickets and
restarts, from `TicketsAssumption`: `TicketsTypeCorrect`, `OnePerLog` (`OnceWhileValid`
always) and `OneWhileValid` (one socket only, with a secret drawn at start) of
`TicketsProofs`.

The argument. `VoiceRoomProofs` shows, for each critical section, that it keeps a
well-formed room record well-formed; this covers the microphone, ownership,
immunity, cooldown, capacity and holder properties of every generation.
None of the rest is inductive by itself. `NoGhost` says nothing of a connection
until its thread has ended, and a connection may be torn down by two threads, of
which one may hold a replaced room. The invariant `Inv` adds: where a thread can
be and what its local variables then hold (`Control`); that each thread that
will call `reset` still has a generation left for it (`Budget`), so that
generations to come are blank (`FutureBlank`); and that a thread past its own
removal is in no room from the one it looked at on (`Gone`), which needs that a
thread in cleanup never joins again. `VoiceCapsProofs` adds the invariant
`CapsInv` that says which connections hold a slot, and counts them as finite
sets. The refinement proof maps `holder` to the connections of the registered
room, `ending` to the handlers between their end and their reset and `leaving` to
the connections that a thread is taking out; every generation of the room other
than the registered one is invisible to it. So a place is given up only for the
socket that holds it, and the room is wiped only for a socket whose user may own
it, whichever threads run in between.

`ResetsEnded` needs to look back to the section that ended the room: `Rightful` says
of every handler past that section that the room it holds is ended, and for whom.
It is inductive because no section takes back that a room is ended or who owns it
(`SectionsLast`, `RecordKept`), and because a handler gets past the section by the
owner's test only and keeps the room it fetched (`EndPath`). Where ends never
overlap, the room a handler on that way holds is still the registered one.

`VoiceSessionsProofs` ties the flag to the place. The two are written by different
steps of different threads, so the invariant `SInv` lists every way they may differ:
a newcomer's handler has yet to set the flag (`Awaited`), a member's frame is on its
way to the section (`Engaged`), a departure has yet to take
the place (`Lowered`), or the socket is doomed, closed or on the list of a thread
that will close it (`Doomed`; `Victims` says that only such threads have a list). Each
step either leaves a connection alone (`Tame`) or moves it along one of these. In a
quiet server none of them is left, which gives `SessionsPlaced`; with one generation
it is the same as `SessionsAgree`.

The invariant of `RateLimitProofs` adds to the bound on what a bucket has granted
the tokens it still holds: what is granted in the window and what could be granted
now, the lazily refilled level, stay together below capacity plus rate. A bucket
that is forgotten has had the time to fill, so its level is that of a new one;
this is where `RateAssumption` is needed, and also what makes the sweep a stutter
of `Buckets`. For `LoadBound` every frame read is granted, or is one of the violations.

`RoomFeedProofs` reads a step as what it takes off the threads' lists and puts on
them (`Moves`). `Told` and `ChatTold` need, to be inductive, that nobody has heard
of more than has happened (`HeardOK`), so that a late frame overwrites nothing,
and that the history is exactly the latest messages (`HistoryOK`), so that a
newcomer's copy joins up with the first broadcast it is a target of. Then there are
six cases: a step that shows nothing keeps what is coming to everybody; a change
tells everybody; a join tells the newcomer all and the others the change; a message
goes to everybody; a broadcast that is aimed reaches all who hold a place by then;
a frame that is delivered is taken in by its receiver and still coming to the rest.
`Reachable` needs the order inside a handler: `Shaped` says that a thread's list
announces its own connection only, and not before the step that sets the flag, and
that whoever is retired is closed next; `Placed` that who holds a place is joined,
about to be, or dismissed, and that nobody is announced who is still about to be.

`TicketsProofs` keeps an account of each good ticket (`Account`): once a handshake
has consumed its id, the log knows it; the handshakes that have consumed it and
what it has opened are together at most one for each log there has been. The log
drops an id only when its ticket has expired, and a ticket that is no longer good
never is again, since time passes and secrets are not drawn twice.

Only model-checked: the liveness properties `TornDown` and `Reopens` and the fairness
behind them, which are out of the prover's reach, like ENABLED and induction over
data; no module here needs a recursive definition. `TornDown` takes `StrangersDoomed` to its
end: whoever is on the way to be closed is closed and torn down. The properties of
the failing runs are false as they stand; `WipesNeedTwoEnds` and the two theorems about
`SessionsAgree` say in which behaviours two of them hold.

## What is not modelled

- A peer that stops reading and so blocks a send under `room.lock`: whether a send
  blocks is up to the websocket library.
- What becomes of a client's view when frames arrive in another order than the
  code sent them in: the client is not in the repository.
- Identity profiles, Firebase and Telegram verification, frame validation, the
  fields of the protocol's frames, origin checks, configuration and the read-only routes: pure
  or external. The models start from inputs that passed them.
- `RoomManager.get_or_create` and `drop_empty`: nothing calls the first, although
  the repository's README documents ALLOW_ROOM_AUTOCREATE, and the second drops
  only rooms that are not persistent, of which there are none.

## Plan

Done, in this order, most important first: `VoiceRoom`, `VoiceServer` with its
runs, `Membership` and the refinement, the proofs above, `Tickets`, `RateLimit` with
`Buckets` and its proofs, `RoomFeed` and its proofs, then `TicketsProofs`,
`VoiceSessionsProofs`, the theorems about END_ROOM and `AnnouncedReachable`.

Next: what can be said of `NewestWins` under the condition that makes it true (no
frame of the displaced socket under way), as for `WipesEndedOnly`; and an abstract
specification of `Tickets`, a set of tickets each of which can be spent, with the
log as its refinement.
