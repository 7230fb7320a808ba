----------------------------- MODULE VoiceRoom -----------------------------
(***************************************************************************)
(* The Room aggregate (rooms/room.py), the participants it holds           *)
(* (rooms/participant.py) and the server-side role rules (auth/identity.py) *)
(* as operators on a room record.  Every operator here is one critical     *)
(* section, or a part of one, of a handler that holds room.lock; the module *)
(* VoiceServer says which thread runs which section when.                   *)
(*                                                                         *)
(* A room's dictionary of participants is a total function on Users: a     *)
(* user who is not in the dictionary maps to Absent.  Left out, because no *)
(* decision reads them: title, emoji, names, photos, joined_at (the sort   *)
(* key of the roster), `live` (always the negation of `ended`), and the    *)
(* participant's `joined` field (TRUE for everyone in the dictionary).     *)
(***************************************************************************)
EXTENDS Naturals, FiniteSets

CONSTANTS
  Users,            \* linked application identities (AppUser.id)
  Conns,            \* Connection objects, one for each websocket ever opened
  UserOf,           \* Connection.user: the user a connection authenticated as
  NoConn,           \* stands for "no connection"
  Nobody,           \* Room.owner_id is None
  OwnerIds,         \* users whose Telegram id is in OWNER_TELEGRAM_IDS
  ModeratorIds,     \* users whose Telegram id is in MODERATOR_TELEGRAM_IDS
  DevMode,          \* config.DEV_MODE
  MaxParticipants   \* config.MAX_PARTICIPANTS

ASSUME RoomAssumption ==
  /\ IsFiniteSet(Users)
  /\ IsFiniteSet(Conns)
  /\ UserOf \in [Conns -> Users]
  /\ NoConn \notin Conns
  /\ Nobody \notin Users
  /\ OwnerIds \subseteq Users
  /\ ModeratorIds \subseteq Users
  /\ DevMode \in BOOLEAN
  /\ MaxParticipants \in Nat

-----------------------------------------------------------------------------
(* Records *)

Role == {"owner", "moderator", "participant"}

Participant ==
  [conn : Conns \cup {NoConn}, role : Role,
   muted : BOOLEAN, speaking : BOOLEAN, restricted : BOOLEAN]

\* The fields a new Participant starts from, and what an absent user maps to.
Absent ==
  [conn |-> NoConn, role |-> "participant",
   muted |-> TRUE, speaking |-> FALSE, restricted |-> FALSE]

Room ==
  [parts : [Users -> Participant], owner : Users \cup {Nobody},
   locked : BOOLEAN, ended : BOOLEAN, cooldown : SUBSET Users]

NewRoom ==
  [parts |-> [u \in Users |-> Absent], owner |-> Nobody,
   locked |-> FALSE, ended |-> FALSE, cooldown |-> {}]

-----------------------------------------------------------------------------
(* Reads *)

Inside(r, u) == r.parts[u].conn # NoConn

Members(r) == {u \in Users : Inside(r, u)}

\* Mutant of IsFull: off by one.
IsFullLate(r) == Cardinality(Members(r)) > MaxParticipants

IsFull(r) == Cardinality(Members(r)) >= MaxParticipants

Connections(r) == {r.parts[u].conn : u \in Members(r)}

-----------------------------------------------------------------------------
(* Roles *)

ResolveRole(u, owner) ==
  CASE u = owner \/ u \in OwnerIds -> "owner"
    [] u # owner /\ u \in ModeratorIds \ OwnerIds -> "moderator"
    [] OTHER -> "participant"

CanClaimOwnerless(u) == u \in OwnerIds \/ DevMode

\* Mutant of AdoptOwner: the record goes to whoever comes last.
AdoptOwnerLast(r, u) == u

AdoptOwner(r, u) == IF r.owner = Nobody THEN u ELSE r.owner

\* The role a join gives: an ownerless room may be claimed on the way in.
JoinRole(r, u) ==
  IF r.owner = Nobody /\ CanClaimOwnerless(u)
    THEN "owner" ELSE ResolveRole(u, r.owner)

-----------------------------------------------------------------------------
(* Join and leave *)

\* Mutant of Admissible: a kicked user is let back in at once.
AdmissibleNoCooldown(r, u) ==
  Inside(r, u) \/ (~r.locked /\ ~IsFull(r))

\* The refusals of _handle_join: cooldown first, for everybody; lock and
\* capacity only for a user who is not inside already.
Admissible(r, u) ==
  /\ u \notin r.cooldown
  /\ Inside(r, u) \/ (~r.locked /\ ~IsFull(r))

\* Mutant of Join: a new Participant for every session, nothing is kept.
JoinFresh(r, u, c) ==
  [r EXCEPT !.parts[u] = [Absent EXCEPT !.conn = c, !.role = JoinRole(r, u)],
            !.owner = IF JoinRole(r, u) = "owner"
                        THEN AdoptOwner(r, u) ELSE @]

\* `existing or Participant(...)`: an existing participant keeps its muted
\* and restricted flags, and everybody's speaking flag starts FALSE.
Join(r, u, c) ==
  [r EXCEPT !.parts[u] = [conn |-> c, role |-> JoinRole(r, u),
                          muted |-> @.muted, speaking |-> FALSE,
                          restricted |-> @.restricted],
            !.owner = IF JoinRole(r, u) = "owner"
                        THEN AdoptOwner(r, u) ELSE @]

Remove(r, u) == [r EXCEPT !.parts[u] = Absent]

-----------------------------------------------------------------------------
(* Microphone *)

\* A restricted participant may mute, never unmute; muting stops speaking.
MaySetMuted(r, u, muted) ==
  Inside(r, u) /\ (r.parts[u].restricted => muted)

\* Mutant of SetMuted: muting leaves the speaking flag on.
SetMutedOnly(r, u, muted) == [r EXCEPT !.parts[u].muted = muted]

SetMuted(r, u, muted) ==
  [r EXCEPT !.parts[u] =
     [@ EXCEPT !.muted = muted, !.speaking = r.parts[u].speaking /\ ~muted]]

SetSpeaking(r, u, speaking) ==
  [r EXCEPT !.parts[u] =
     [@ EXCEPT !.speaking = speaking /\ ~r.parts[u].muted
                                     /\ ~r.parts[u].restricted]]

-----------------------------------------------------------------------------
(* Moderation *)

\* Mutant of MayModerate: an owner is a target like any other.
MayModerateOwner(r, actor, target) ==
  /\ Inside(r, actor) /\ r.parts[actor].role \in {"owner", "moderator"}
  /\ Inside(r, target) /\ target # actor

\* "unmute" is the same as "allow", and "remove" the same as "kick".
ModerationAction == {"mute", "allow", "restrict", "kick"}

MayModerate(r, actor, target) ==
  /\ Inside(r, actor) /\ r.parts[actor].role \in {"owner", "moderator"}
  /\ Inside(r, target) /\ target # actor
  /\ r.parts[target].role # "owner"
  /\ ~(r.parts[actor].role = "moderator" /\ r.parts[target].role = "moderator")

\* Mutant of Moderate: the cooldown is filed under the connection.
ModerateByConn(r, target, action) ==
  LET old == r.parts[target]
  IN CASE action = "kick" ->
            [Remove(r, target) EXCEPT !.cooldown = @ \cup {old.conn}]
       [] action = "allow" -> [r EXCEPT !.parts[target].restricted = FALSE]
       [] OTHER ->
            [r EXCEPT !.parts[target] =
               [@ EXCEPT !.muted = TRUE, !.speaking = FALSE,
                         !.restricted = @ \/ action = "restrict"]]

Moderate(r, target, action) ==
  LET Put(p) == [r EXCEPT !.parts[target] = p]
      old == r.parts[target]
  IN CASE action = "mute" ->
            Put([old EXCEPT !.muted = TRUE, !.speaking = FALSE])
       [] action = "allow" ->
            Put([old EXCEPT !.restricted = FALSE])
       [] action = "restrict" ->
            Put([old EXCEPT !.restricted = TRUE, !.muted = TRUE,
                            !.speaking = FALSE])
       [] action = "kick" ->
            [Remove(r, target) EXCEPT !.cooldown = @ \cup {target}]

IsOwner(r, u) == Inside(r, u) /\ r.parts[u].role = "owner"

SetLocked(r, locked) == [r EXCEPT !.locked = locked]

EndRoom(r) == [r EXCEPT !.ended = TRUE]

\* KICK_COOLDOWN_SECONDS have passed; the entry is dropped when next read.
ExpireCooldown(r, u) == [r EXCEPT !.cooldown = @ \ {u}]

-----------------------------------------------------------------------------
(* What every room record satisfies, whatever sections ran on it *)

\* Nobody restricted has an open microphone and nobody muted is speaking.
MicOK(r) ==
  \A u \in Users :
    /\ r.parts[u].restricted => r.parts[u].muted
    /\ r.parts[u].muted => ~r.parts[u].speaking

\* The recorded owner and every configured owner hold the owner role while
\* inside, nobody else does, and an occupied DEV_MODE room has an owner.
OwnerOK(r) ==
  /\ \A u \in Members(r) :
       (r.parts[u].role = "owner") <=> (u = r.owner \/ u \in OwnerIds)
  /\ ~DevMode /\ r.owner # Nobody => r.owner \in OwnerIds
  /\ DevMode /\ Members(r) # {} => r.owner # Nobody

\* No moderation ever lands on an owner: neither a kick nor a restriction.
ImmuneOK(r) ==
  \A u \in Users :
    u = r.owner \/ u \in OwnerIds =>
      u \notin r.cooldown /\ ~r.parts[u].restricted

\* A user serving a kick cooldown is not in the room.
KickOK(r) == \A u \in r.cooldown : ~Inside(r, u)

\* A participant's connection is one of that user's, so no socket is two
\* participants; and nothing survives of a participant who left.
HolderOK(r) ==
  \A u \in Users :
    IF Inside(r, u) THEN UserOf[r.parts[u].conn] = u ELSE r.parts[u] = Absent

=============================================================================
