-------------------------- MODULE VoiceRoomProofs --------------------------
(***************************************************************************)
(* What every critical section of a room preserves, for any users, roles   *)
(* and capacity: the lemmas the proofs about the server rest on.           *)
(***************************************************************************)
EXTENDS VoiceRoom, FiniteSetTheorems, TLAPS

RoomOK(r) ==
  /\ MicOK(r)
  /\ OwnerOK(r)
  /\ ImmuneOK(r)
  /\ KickOK(r)
  /\ HolderOK(r)
  /\ Cardinality(Members(r)) <= MaxParticipants

\* What _handle_join makes of a role is a role.
LEMMA RoleType ==
  ASSUME NEW r \in Room, NEW u \in Users
  PROVE  JoinRole(r, u) \in Role
  BY DEF JoinRole, ResolveRole, Role

LEMMA NewRoomOK == NewRoom \in Room /\ RoomOK(NewRoom)
<1>1. NewRoom \in Room
  BY RoomAssumption DEF NewRoom, Room, Absent, Participant, Role
<1>2. Members(NewRoom) = {}
  BY DEF NewRoom, Members, Inside, Absent
<1>3. MicOK(NewRoom) /\ OwnerOK(NewRoom) /\ ImmuneOK(NewRoom) /\ KickOK(NewRoom)
        /\ HolderOK(NewRoom)
  BY <1>2 DEF NewRoom, MicOK, OwnerOK, ImmuneOK, KickOK, HolderOK, Inside, Absent
<1>4. Cardinality(Members(NewRoom)) <= MaxParticipants
  BY <1>2, FS_EmptySet, RoomAssumption
<1> QED  BY <1>1, <1>3, <1>4 DEF RoomOK

\* A section that writes one participant leaves a room record.
LEMMA PutType ==
  ASSUME NEW r \in Room, NEW u \in Users, NEW p \in Participant
  PROVE  [r EXCEPT !.parts[u] = p] \in Room
  BY DEF Room

LEMMA JoinType ==
  ASSUME NEW r \in Room, NEW u \in Users, NEW c \in Conns
  PROVE  Join(r, u, c) \in Room
<1>1. AdoptOwner(r, u) \in Users \cup {Nobody} /\ r.owner \in Users \cup {Nobody}
  BY DEF AdoptOwner, Room
<1>2. r.parts[u].muted \in BOOLEAN /\ r.parts[u].restricted \in BOOLEAN
  BY DEF Room, Participant
<1>3. [conn |-> c, role |-> JoinRole(r, u), muted |-> r.parts[u].muted,
       speaking |-> FALSE, restricted |-> r.parts[u].restricted] \in Participant
  BY <1>2, RoleType DEF Participant
<1> QED  BY <1>1, <1>3 DEF Join, Room

-----------------------------------------------------------------------------
(* Leaving *)

LEMMA RemoveType ==
  ASSUME NEW r \in Room, NEW u \in Users
  PROVE  Remove(r, u) \in Room
  BY RoomAssumption DEF Remove, Room, Absent, Participant, Role

\* Taking participants away keeps a room within its capacity.
LEMMA FewerMembers ==
  ASSUME NEW r, NEW s, RoomOK(r), Members(s) \subseteq Members(r)
  PROVE  Cardinality(Members(s)) <= MaxParticipants
<1>1. Members(r) \subseteq Users
  BY DEF Members
<1>2. IsFiniteSet(Members(r))
  BY <1>1, FS_Subset, RoomAssumption
<1>3. IsFiniteSet(Members(s)) /\ Cardinality(Members(s)) <= Cardinality(Members(r))
  BY <1>2, FS_Subset
<1>4. Cardinality(Members(r)) \in Nat /\ Cardinality(Members(s)) \in Nat
  BY <1>2, <1>3, FS_CardinalityType
<1> QED  BY <1>3, <1>4, RoomAssumption DEF RoomOK

LEMMA RemoveOK ==
  ASSUME NEW r \in Room, NEW u \in Users, RoomOK(r)
  PROVE  RoomOK(Remove(r, u))
<1> SUFFICES ASSUME NEW s, s = Remove(r, u)
             PROVE  RoomOK(s)
  OBVIOUS
<1>1. /\ s.owner = r.owner /\ s.cooldown = r.cooldown
      /\ s.parts[u] = Absent
      /\ \A v \in Users : v # u => s.parts[v] = r.parts[v]
  BY DEF Remove, Room
<1>2. Members(s) \subseteq Members(r)
  BY <1>1 DEF Members, Inside, Absent
<1>3. MicOK(s)
  BY <1>1 DEF RoomOK, MicOK, Absent
<1>4. OwnerOK(s)
  BY <1>1, <1>2 DEF RoomOK, OwnerOK, Members, Inside, Absent
<1>5. ImmuneOK(s)
  BY <1>1 DEF RoomOK, ImmuneOK, Absent
<1>6. KickOK(s)
  BY <1>1 DEF RoomOK, KickOK, Inside, Absent, Room
<1>7. HolderOK(s)
  <2>1. ~Inside(s, u)
    BY <1>1 DEF Inside, Absent
  <2>2. \A v \in Users : v # u => (Inside(s, v) <=> Inside(r, v))
    BY <1>1 DEF Inside
  <2> QED  BY <1>1, <2>1, <2>2 DEF RoomOK, HolderOK
<1>8. Cardinality(Members(s)) <= MaxParticipants
  BY <1>2, FewerMembers
<1> QED  BY <1>3, <1>4, <1>5, <1>6, <1>7, <1>8 DEF RoomOK

-----------------------------------------------------------------------------
(* Joining *)

LEMMA JoinFields ==
  ASSUME NEW r \in Room, NEW u \in Users, NEW c \in Conns
  PROVE  /\ Join(r, u, c).cooldown = r.cooldown
         /\ Join(r, u, c).owner =
              IF JoinRole(r, u) = "owner" THEN AdoptOwner(r, u) ELSE r.owner
         /\ Join(r, u, c).parts[u] =
              [conn |-> c, role |-> JoinRole(r, u),
               muted |-> r.parts[u].muted, speaking |-> FALSE,
               restricted |-> r.parts[u].restricted]
         /\ Join(r, u, c).parts[u].conn = c
         /\ Join(r, u, c).parts[u].role = JoinRole(r, u)
         /\ \A v \in Users : v # u => Join(r, u, c).parts[v] = r.parts[v]
  BY DEF Join, Room

LEMMA JoinOthers ==
  ASSUME NEW r \in Room, NEW u \in Users, NEW c \in Conns, NEW v \in Users, v # u
  PROVE  Join(r, u, c).parts[v] = r.parts[v]
  BY JoinFields

LEMMA JoinMembers ==
  ASSUME NEW r \in Room, NEW u \in Users, NEW c \in Conns
  PROVE  Members(Join(r, u, c)) = Members(r) \cup {u}
<1>1. Inside(Join(r, u, c), u)
  <2>1. Join(r, u, c).parts[u].conn = c
    BY JoinFields
  <2>2. c # NoConn
    BY RoomAssumption
  <2> QED  BY <2>1, <2>2 DEF Inside
<1>2. \A v \in Users : v # u => (Inside(Join(r, u, c), v) <=> Inside(r, v))
  BY JoinFields DEF Inside
<1> QED  BY <1>1, <1>2 DEF Members

\* A newcomer is let in below the capacity only; whoever is inside already
\* takes no further place.
LEMMA JoinCapacity ==
  ASSUME NEW r \in Room, NEW u \in Users, NEW c \in Conns,
         RoomOK(r), Admissible(r, u)
  PROVE  Cardinality(Members(Join(r, u, c))) <= MaxParticipants
<1>1. Members(Join(r, u, c)) = Members(r) \cup {u}
  BY JoinMembers
<1>2. IsFiniteSet(Members(r))
  BY FS_Subset, RoomAssumption DEF Members
<1>3. Cardinality(Members(r)) \in Nat /\ MaxParticipants \in Nat
  BY <1>2, FS_CardinalityType, RoomAssumption
<1>4. CASE u \in Members(r)
  <2>1. Members(r) \cup {u} = Members(r)
    BY <1>4
  <2> QED  BY <1>1, <2>1 DEF RoomOK
<1>5. CASE u \notin Members(r)
  <2>1. Cardinality(Members(r)) < MaxParticipants
    BY <1>3, <1>5 DEF Admissible, IsFull, Members
  <2>2. Cardinality(Members(r) \cup {u}) = Cardinality(Members(r)) + 1
    BY <1>2, <1>5, FS_AddElement
  <2> QED  BY <1>1, <1>3, <2>1, <2>2
<1> QED  BY <1>4, <1>5

\* What the role rules come to: an owner role goes with the record or with the
\* configuration, and an occupied DEV_MODE room is never without an owner.
LEMMA JoinOwner ==
  ASSUME NEW r \in Room, NEW u \in Users, NEW c \in Conns, RoomOK(r)
  PROVE  OwnerOK(Join(r, u, c))
<1> SUFFICES ASSUME NEW s, s = Join(r, u, c)
             PROVE  OwnerOK(s)
  OBVIOUS
<1>o. s.owner = IF JoinRole(r, u) = "owner" THEN AdoptOwner(r, u) ELSE r.owner
  BY JoinFields
<1>p. s.parts[u].role = JoinRole(r, u)
  BY JoinFields
<1>q. \A v \in Users : v # u => s.parts[v] = r.parts[v]
  BY JoinFields
<1>m. Members(s) = Members(r) \cup {u}
  BY JoinMembers
<1>2. r.owner \in Users \cup {Nobody}
  BY DEF Room
<1>3. CASE r.owner = Nobody
  <2>1. CASE CanClaimOwnerless(u)
    <3>1. JoinRole(r, u) = "owner" /\ s.owner = u
      BY <1>o, <1>p, <1>q, <1>m, <1>3, <2>1 DEF JoinRole, AdoptOwner
    <3>2. DevMode => Members(r) = {}
      BY <1>3 DEF RoomOK, OwnerOK
    <3>3. \A v \in Members(s) :
             (s.parts[v].role = "owner") <=> (v = s.owner \/ v \in OwnerIds)
      BY <1>o, <1>p, <1>q, <1>m, <1>3, <3>1, <2>1, RoomAssumption
      DEF RoomOK, OwnerOK, Members
    <3>4. ~DevMode => s.owner \in OwnerIds
      BY <3>1, <2>1 DEF CanClaimOwnerless
    <3>5. s.owner # Nobody
      BY <3>1, RoomAssumption
    <3> QED  BY <3>3, <3>4, <3>5 DEF OwnerOK
  <2>2. CASE ~CanClaimOwnerless(u)
    <3>1. ~DevMode /\ u \notin OwnerIds
      BY <2>2 DEF CanClaimOwnerless
    <3>2. JoinRole(r, u) # "owner" /\ s.owner = Nobody
      BY <1>o, <1>p, <1>q, <1>m, <1>3, <2>2, <3>1, RoomAssumption DEF JoinRole, ResolveRole
    <3>3. \A v \in Members(s) :
             (s.parts[v].role = "owner") <=> (v = s.owner \/ v \in OwnerIds)
      BY <1>o, <1>p, <1>q, <1>m, <1>3, <3>1, <3>2, RoomAssumption DEF RoomOK, OwnerOK, Members
    <3> QED  BY <3>1, <3>2, <3>3 DEF OwnerOK
  <2> QED  BY <2>1, <2>2
<1>4. CASE r.owner # Nobody
  <2>1. s.owner = r.owner
    BY <1>o, <1>p, <1>q, <1>m, <1>4 DEF AdoptOwner
  <2>2. (JoinRole(r, u) = "owner") <=> (u = r.owner \/ u \in OwnerIds)
    BY <1>4 DEF JoinRole, ResolveRole
  <2>3. \A v \in Members(s) :
           (s.parts[v].role = "owner") <=> (v = s.owner \/ v \in OwnerIds)
    BY <1>o, <1>p, <1>q, <1>m, <2>1, <2>2 DEF RoomOK, OwnerOK, Members
  <2>4. ~DevMode => s.owner \in OwnerIds
    BY <1>4, <2>1 DEF RoomOK, OwnerOK
  <2> QED  BY <1>4, <2>1, <2>3, <2>4 DEF OwnerOK
<1> QED  BY <1>3, <1>4

LEMMA JoinOK ==
  ASSUME NEW r \in Room, NEW u \in Users, NEW c \in Conns,
         RoomOK(r), Admissible(r, u), UserOf[c] = u
  PROVE  RoomOK(Join(r, u, c))
<1> SUFFICES ASSUME NEW s, s = Join(r, u, c)
             PROVE  RoomOK(s)
  OBVIOUS
<1>1. /\ s.cooldown = r.cooldown
      /\ s.owner = IF JoinRole(r, u) = "owner" THEN AdoptOwner(r, u) ELSE r.owner
      /\ s.parts[u] = [conn |-> c, role |-> JoinRole(r, u),
                       muted |-> r.parts[u].muted, speaking |-> FALSE,
                       restricted |-> r.parts[u].restricted]
      /\ \A v \in Users : v # u => s.parts[v] = r.parts[v]
  BY JoinFields
<1>2. OwnerOK(s) /\ Cardinality(Members(s)) <= MaxParticipants
  BY JoinOwner, JoinCapacity
<1>3. c # NoConn
  BY RoomAssumption
<1>4. MicOK(s)
  BY <1>1 DEF RoomOK, MicOK
<1>5. ImmuneOK(s)
  <2>1. s.owner = r.owner \/ (r.owner = Nobody /\ s.owner = u)
    BY <1>1 DEF AdoptOwner
  <2>2. u \notin r.cooldown
    BY DEF Admissible
  <2>3. CASE s.owner = r.owner
    BY <1>1, <2>3 DEF RoomOK, ImmuneOK
  <2>4. CASE r.owner = Nobody /\ s.owner = u /\ u \notin OwnerIds
    <3>1. DevMode
      BY <1>1, <2>4, RoomAssumption
      DEF JoinRole, ResolveRole, CanClaimOwnerless
    <3>2. ~Inside(r, u)
      BY <2>4, <3>1 DEF RoomOK, OwnerOK, Members
    <3>3. r.parts[u] = Absent
      BY <3>2 DEF RoomOK, HolderOK
    <3>4. ~s.parts[u].restricted
      BY <1>1, <3>3 DEF Absent
    <3> QED  BY <1>1, <2>2, <2>4, <3>4 DEF RoomOK, ImmuneOK
  <2>5. CASE u \in OwnerIds /\ s.owner = u
    BY <1>1, <2>5 DEF RoomOK, ImmuneOK
  <2> QED  BY <2>1, <2>3, <2>4, <2>5
<1>6. KickOK(s)
  BY <1>1, <1>3 DEF RoomOK, KickOK, Inside, Admissible, Room
<1>7. HolderOK(s)
  BY <1>1, <1>3 DEF RoomOK, HolderOK, Inside
<1> QED  BY <1>2, <1>4, <1>5, <1>6, <1>7 DEF RoomOK

-----------------------------------------------------------------------------
(* Microphone *)

\* A section that rewrites the flags of somebody inside keeps the room sound if
\* the new flags agree and no owner gets restricted.
LEMMA FlagsOK ==
  ASSUME NEW r \in Room, NEW u \in Users, NEW p \in Participant,
         RoomOK(r), Inside(r, u),
         p.conn = r.parts[u].conn, p.role = r.parts[u].role,
         p.restricted => p.muted, p.muted => ~p.speaking,
         u = r.owner \/ u \in OwnerIds => ~p.restricted
  PROVE  /\ [r EXCEPT !.parts[u] = p] \in Room
         /\ RoomOK([r EXCEPT !.parts[u] = p])
<1> SUFFICES ASSUME NEW s, s = [r EXCEPT !.parts[u] = p]
             PROVE  s \in Room /\ RoomOK(s)
  OBVIOUS
<1>1. /\ s.owner = r.owner /\ s.cooldown = r.cooldown
      /\ s.parts[u] = p
      /\ \A v \in Users : v # u => s.parts[v] = r.parts[v]
  BY DEF Room
<1>2. \A v \in Users :
        /\ s.parts[v].conn = r.parts[v].conn
        /\ s.parts[v].role = r.parts[v].role
        /\ Inside(s, v) <=> Inside(r, v)
  BY <1>1 DEF Inside
<1>3. Members(s) = Members(r)
  BY <1>2 DEF Members
<1>4. s \in Room
  BY PutType
<1>5. MicOK(s)
  BY <1>1 DEF RoomOK, MicOK
<1>6. OwnerOK(s)
  BY <1>1, <1>2, <1>3 DEF RoomOK, OwnerOK, Members
<1>7. ImmuneOK(s)
  BY <1>1 DEF RoomOK, ImmuneOK
<1>8. KickOK(s)
  BY <1>1, <1>2 DEF RoomOK, KickOK, Room
<1>9. HolderOK(s)
  BY <1>1, <1>2 DEF RoomOK, HolderOK
<1> QED  BY <1>3, <1>4, <1>5, <1>6, <1>7, <1>8, <1>9 DEF RoomOK

LEMMA SetMutedOK ==
  ASSUME NEW r \in Room, NEW u \in Users, NEW muted \in BOOLEAN,
         RoomOK(r), MaySetMuted(r, u, muted)
  PROVE  SetMuted(r, u, muted) \in Room /\ RoomOK(SetMuted(r, u, muted))
<1> DEFINE p == [r.parts[u] EXCEPT !.muted = muted,
                                   !.speaking = r.parts[u].speaking /\ ~muted]
<1>1. r.parts[u] \in Participant /\ p \in Participant
  BY DEF Room, Participant
<1>2. /\ p.conn = r.parts[u].conn /\ p.role = r.parts[u].role
      /\ p.restricted = r.parts[u].restricted /\ p.muted = muted
      /\ p.speaking = (r.parts[u].speaking /\ ~muted)
  BY <1>1 DEF Participant
<1>3. SetMuted(r, u, muted) = [r EXCEPT !.parts[u] = p]
  BY DEF SetMuted
<1> HIDE DEF p
<1>4. p.restricted => p.muted
  BY <1>2 DEF MaySetMuted
<1>5. p.muted => ~p.speaking
  BY <1>2
<1>6. u = r.owner \/ u \in OwnerIds => ~p.restricted
  BY <1>2 DEF RoomOK, ImmuneOK
<1> QED  BY <1>1, <1>2, <1>3, <1>4, <1>5, <1>6, FlagsOK DEF MaySetMuted

LEMMA SetSpeakingOK ==
  ASSUME NEW r \in Room, NEW u \in Users, NEW speaking \in BOOLEAN,
         RoomOK(r), Inside(r, u)
  PROVE  SetSpeaking(r, u, speaking) \in Room /\ RoomOK(SetSpeaking(r, u, speaking))
<1> DEFINE p == [r.parts[u] EXCEPT !.speaking = speaking /\ ~r.parts[u].muted
                                        /\ ~r.parts[u].restricted]
<1>1. r.parts[u] \in Participant /\ p \in Participant
  BY DEF Room, Participant
<1>2. /\ p.conn = r.parts[u].conn /\ p.role = r.parts[u].role
      /\ p.restricted = r.parts[u].restricted /\ p.muted = r.parts[u].muted
      /\ p.muted => ~p.speaking
  BY <1>1 DEF Participant
<1>3. SetSpeaking(r, u, speaking) = [r EXCEPT !.parts[u] = p]
  BY DEF SetSpeaking
<1> HIDE DEF p
<1>4. p.restricted => p.muted
  BY <1>2 DEF RoomOK, MicOK
<1>5. u = r.owner \/ u \in OwnerIds => ~p.restricted
  BY <1>2 DEF RoomOK, ImmuneOK
<1> QED  BY <1>1, <1>2, <1>3, <1>4, <1>5, FlagsOK

-----------------------------------------------------------------------------
(* Moderation *)

\* Whom the rules let somebody moderate is no owner, by role and by record.
LEMMA TargetNoOwner ==
  ASSUME NEW r \in Room, NEW actor \in Users, NEW target \in Users,
         RoomOK(r), MayModerate(r, actor, target)
  PROVE  target # r.owner /\ target \notin OwnerIds
  BY DEF MayModerate, RoomOK, OwnerOK, Members

LEMMA ModerateFlagsOK ==
  ASSUME NEW r \in Room, NEW actor \in Users, NEW target \in Users,
         NEW action \in ModerationAction \ {"kick"},
         RoomOK(r), MayModerate(r, actor, target)
  PROVE  /\ Moderate(r, target, action) \in Room
         /\ RoomOK(Moderate(r, target, action))
<1> DEFINE old == r.parts[target]
<1>1. old \in Participant
  BY DEF Room
<1>2. target # r.owner /\ target \notin OwnerIds /\ Inside(r, target)
  BY TargetNoOwner DEF MayModerate
<1>3. (old.restricted => old.muted) /\ (old.muted => ~old.speaking)
  BY DEF RoomOK, MicOK
<1>4. CASE action = "mute"
  <2> DEFINE p == [old EXCEPT !.muted = TRUE, !.speaking = FALSE]
  <2>1. p \in Participant /\ p.conn = old.conn /\ p.role = old.role
          /\ p.muted /\ ~p.speaking
    BY <1>1 DEF Participant
  <2>2. Moderate(r, target, action) = [r EXCEPT !.parts[target] = p]
    BY <1>4 DEF Moderate
  <2> HIDE DEF p
  <2> QED  BY <1>2, <2>1, <2>2, FlagsOK
<1>5. CASE action = "allow"
  <2> DEFINE p == [old EXCEPT !.restricted = FALSE]
  <2>1. p \in Participant /\ p.conn = old.conn /\ p.role = old.role
          /\ p.muted = old.muted /\ p.speaking = old.speaking /\ ~p.restricted
    BY <1>1 DEF Participant
  <2>2. Moderate(r, target, action) = [r EXCEPT !.parts[target] = p]
    BY <1>5 DEF Moderate
  <2> HIDE DEF p
  <2> QED  BY <1>2, <1>3, <2>1, <2>2, FlagsOK
<1>6. CASE action = "restrict"
  <2> DEFINE p == [old EXCEPT !.restricted = TRUE, !.muted = TRUE, !.speaking = FALSE]
  <2>1. p \in Participant /\ p.conn = old.conn /\ p.role = old.role
          /\ p.muted /\ ~p.speaking
    BY <1>1 DEF Participant
  <2>2. Moderate(r, target, action) = [r EXCEPT !.parts[target] = p]
    BY <1>6 DEF Moderate
  <2> HIDE DEF p
  <2> QED  BY <1>2, <2>1, <2>2, FlagsOK
<1> QED  BY <1>4, <1>5, <1>6 DEF ModerationAction

LEMMA KickRoomOK ==
  ASSUME NEW r \in Room, NEW actor \in Users, NEW target \in Users,
         RoomOK(r), MayModerate(r, actor, target)
  PROVE  /\ Moderate(r, target, "kick") \in Room
         /\ RoomOK(Moderate(r, target, "kick"))
<1> SUFFICES ASSUME NEW s, s = Moderate(r, target, "kick")
             PROVE  s \in Room /\ RoomOK(s)
  OBVIOUS
<1>1. PICK q \in Room : q = Remove(r, target)
  BY RemoveType
<1>2. RoomOK(q) /\ q.owner = r.owner /\ q.parts[target] = Absent
  BY <1>1, RemoveOK DEF Remove, Room
<1>3. s = [q EXCEPT !.cooldown = @ \cup {target}]
  BY <1>1 DEF Moderate
<1>4. /\ s \in Room /\ s.parts = q.parts /\ s.owner = q.owner
      /\ s.cooldown = q.cooldown \cup {target}
  BY <1>3 DEF Room
<1>5. Members(s) = Members(q) /\ \A v \in Users : Inside(s, v) <=> Inside(q, v)
  BY <1>4 DEF Members, Inside
<1>6. MicOK(s) /\ OwnerOK(s) /\ HolderOK(s)
  BY <1>2, <1>4, <1>5 DEF RoomOK, MicOK, OwnerOK, HolderOK
<1>7. ImmuneOK(s)
  BY <1>2, <1>4, TargetNoOwner DEF RoomOK, ImmuneOK
<1>8. ~Inside(q, target)
  BY <1>2 DEF Inside, Absent
<1>9. KickOK(s)
  BY <1>2, <1>4, <1>5, <1>8 DEF RoomOK, KickOK, Room
<1> QED  BY <1>2, <1>4, <1>5, <1>6, <1>7, <1>9 DEF RoomOK

-----------------------------------------------------------------------------
(* Lock, end, cooldown *)

\* A section that leaves the participants and the owner alone.
LEMMA SameRosterOK ==
  ASSUME NEW r \in Room, NEW s \in Room, RoomOK(r),
         s.parts = r.parts, s.owner = r.owner, s.cooldown \subseteq r.cooldown
  PROVE  RoomOK(s)
<1>1. Members(s) = Members(r) /\ \A v \in Users : Inside(s, v) <=> Inside(r, v)
  BY DEF Members, Inside
<1> QED  BY <1>1 DEF RoomOK, MicOK, OwnerOK, ImmuneOK, KickOK, HolderOK, Room

LEMMA SetLockedOK ==
  ASSUME NEW r \in Room, NEW locked \in BOOLEAN, RoomOK(r)
  PROVE  SetLocked(r, locked) \in Room /\ RoomOK(SetLocked(r, locked))
<1>1. /\ SetLocked(r, locked) \in Room
      /\ SetLocked(r, locked).parts = r.parts
      /\ SetLocked(r, locked).owner = r.owner
      /\ SetLocked(r, locked).cooldown = r.cooldown
  BY DEF SetLocked, Room
<1> QED  BY <1>1, SameRosterOK

LEMMA EndRoomOK ==
  ASSUME NEW r \in Room, RoomOK(r)
  PROVE  EndRoom(r) \in Room /\ RoomOK(EndRoom(r))
<1>1. /\ EndRoom(r) \in Room
      /\ EndRoom(r).parts = r.parts
      /\ EndRoom(r).owner = r.owner
      /\ EndRoom(r).cooldown = r.cooldown
  BY DEF EndRoom, Room
<1> QED  BY <1>1, SameRosterOK

LEMMA ExpireCooldownOK ==
  ASSUME NEW r \in Room, NEW u \in Users, RoomOK(r)
  PROVE  ExpireCooldown(r, u) \in Room /\ RoomOK(ExpireCooldown(r, u))
<1>1. /\ ExpireCooldown(r, u) \in Room
      /\ ExpireCooldown(r, u).parts = r.parts
      /\ ExpireCooldown(r, u).owner = r.owner
      /\ ExpireCooldown(r, u).cooldown \subseteq r.cooldown
  BY DEF ExpireCooldown, Room
<1> QED  BY <1>1, SameRosterOK

=============================================================================
