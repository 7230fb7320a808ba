-------------------------- MODULE VoiceCapsProofs --------------------------
(***************************************************************************)
(* "No leaked counters": the caps of security/rate_limit.py count the live *)
(* connections exactly, for any number of connections and users, although  *)
(* the sweeper and a connection's own thread may both tear it down.        *)
(*                                                                         *)
(* The slot of a connection is handed from the thread that acquired it to  *)
(* the registry, and from there to the one thread whose pop found it.  The *)
(* invariant says that it is held in exactly one of the three places.      *)
(***************************************************************************)
EXTENDS VoiceServerProofs

Unserved == {"new", "opened"}
PopDone == {"get", "drop", "castLeft", "free", "done"}

Slots ==
  /\ \A c \in registry : pc[c] \notin Unserved \cup PopDone
  /\ \A c \in Conns : c \in todo \/ c = reaping => pc[c] \notin Unserved
  /\ \A t \in removed :
       /\ pc[t] \in {"get", "drop", "castLeft", "free"}
       /\ Subject(t) \in Conns \ registry /\ pc[Subject(t)] \notin Unserved
  /\ Reaper \in removed => reaping \notin removed

Held == {c \in Conns : HoldsSlot(c)}

\* A counter that counts, for every key, the connections of H with that key.
Counts(cnt, K, H) == \A k \in DOMAIN cnt : cnt[k] = Cardinality({c \in H : K[c] = k})

CapsInv == Inv /\ Slots /\ Counts(perIp, IpOf, Held) /\ Counts(perUser, UserOf, Held)

-----------------------------------------------------------------------------
(* Counting *)

LEMMA KeyFinite ==
  ASSUME NEW H \in SUBSET Conns, NEW K, NEW k
  PROVE  /\ IsFiniteSet({c \in H : K[c] = k})
         /\ Cardinality({c \in H : K[c] = k}) \in Nat
  BY FS_Subset, FS_CardinalityType, RoomAssumption

LEMMA CountAdd ==
  ASSUME NEW X, NEW K \in [Conns -> X], NEW cnt \in [X -> Nat],
         NEW H \in SUBSET Conns, NEW d \in Conns \ H, Counts(cnt, K, H)
  PROVE  Counts([cnt EXCEPT ![K[d]] = @ + 1], K, H \cup {d})
<1> SUFFICES ASSUME NEW k \in X
             PROVE  [cnt EXCEPT ![K[d]] = @ + 1][k]
                      = Cardinality({c \in H \cup {d} : K[c] = k})
  BY DEF Counts
<1> DEFINE A == {c \in H : K[c] = k}
           B == {c \in H \cup {d} : K[c] = k}
<1>1. IsFiniteSet(A) /\ Cardinality(A) \in Nat
  BY KeyFinite
<1>2. cnt[k] = Cardinality(A)
  BY DEF Counts
<1>3. CASE K[d] = k
  <2>1. B = A \cup {d} /\ d \notin A
    BY <1>3
  <2>2. Cardinality(B) = Cardinality(A) + 1
    BY <1>1, <2>1, FS_AddElement
  <2> QED  BY <1>1, <1>2, <1>3, <2>2
<1>4. CASE K[d] # k
  <2>1. B = A
    BY <1>4
  <2> QED  BY <1>1, <1>2, <1>4, <2>1
<1> QED  BY <1>3, <1>4

\* The floor at zero in release is never what decides.
LEMMA CountDrop ==
  ASSUME NEW X, NEW K \in [Conns -> X], NEW cnt \in [X -> Nat],
         NEW H \in SUBSET Conns, NEW d \in H, Counts(cnt, K, H)
  PROVE  Counts([cnt EXCEPT ![K[d]] = IF @ > 0 THEN @ - 1 ELSE 0], K, H \ {d})
<1> SUFFICES ASSUME NEW k \in X
             PROVE  [cnt EXCEPT ![K[d]] = IF @ > 0 THEN @ - 1 ELSE 0][k]
                      = Cardinality({c \in H \ {d} : K[c] = k})
  BY DEF Counts
<1> DEFINE A == {c \in H : K[c] = k}
           B == {c \in H \ {d} : K[c] = k}
<1>1. IsFiniteSet(A) /\ Cardinality(A) \in Nat
  BY KeyFinite
<1>2. cnt[k] = Cardinality(A)
  BY DEF Counts
<1>3. CASE K[d] = k
  <2>1. A = B \cup {d} /\ d \notin B
    BY <1>3
  <2>2. IsFiniteSet(B) /\ Cardinality(B) \in Nat
    BY <1>1, <2>1, FS_Subset, FS_CardinalityType
  <2>3. Cardinality(A) = Cardinality(B) + 1
    BY <2>1, <2>2, FS_AddElement
  <2> QED  BY <1>1, <1>2, <1>3, <2>2, <2>3
<1>4. CASE K[d] # k
  <2>1. B = A
    BY <1>4
  <2> QED  BY <1>1, <1>2, <1>4, <2>1
<1> QED  BY <1>3, <1>4

-----------------------------------------------------------------------------
(* Where the slots are *)

\* A step of thread t that touches no slot: pc[t] moves to l outside Unserved,
\* l is behind the pop only if pc[t] was.
Quiescent(t, l) ==
  /\ t \in Threads /\ pc' = [pc EXCEPT ![t] = l] /\ l # "new"
  /\ pc[t] # "opened" /\ l # "opened"
  /\ l \in PopDone => pc[t] \in PopDone \cup {"new"}
  /\ t \in removed => l \in {"drop", "castLeft", "free"}
  /\ UNCHANGED <<registry, perIp, perUser, removed, reaping>>
  /\ todo' \subseteq todo

LEMMA QuiescentSlots ==
  ASSUME TypeOK, Slots, NEW t, NEW l, Quiescent(t, l)
  PROVE  Slots' /\ Held' = Held
<1>1. pc \in [Threads -> Places] /\ registry \subseteq Conns /\ removed \subseteq Threads
  BY DEF TypeOK
<1>2. \A c \in Threads : c # t => pc'[c] = pc[c]
  BY <1>1 DEF Quiescent
<1>3. pc'[t] = l
  BY <1>1 DEF Quiescent
<1>4. \A s : Subject(s)' = Subject(s)
  BY DEF Quiescent, Subject
<1>5. \A c \in Conns : pc[c] \notin Unserved => pc'[c] \notin Unserved
  BY <1>2, <1>3, ConnThread DEF Quiescent, Unserved
<1>6. \A c \in registry' : pc'[c] \notin Unserved \cup PopDone
  BY <1>1, <1>2, <1>3, <1>5, ConnThread DEF Slots, Quiescent, Unserved, PopDone
<1>7. \A c \in Conns : c \in todo' \/ c = reaping' => pc'[c] \notin Unserved
  BY <1>5 DEF Slots, Quiescent
<1>8. \A s \in removed' :
         /\ pc'[s] \in {"get", "drop", "castLeft", "free"}
         /\ Subject(s)' \in Conns \ registry' /\ pc'[Subject(s)'] \notin Unserved
  BY <1>1, <1>2, <1>3, <1>4, <1>5 DEF Slots, Quiescent
<1>9. Slots'
  BY <1>6, <1>7, <1>8 DEF Slots, Quiescent
<1>10. \A c \in Conns : HoldsSlot(c)' <=> HoldsSlot(c)
  BY <1>2, <1>3, <1>4, ConnThread DEF HoldsSlot, Quiescent
<1> QED  BY <1>9, <1>10 DEF Held

LEMMA FrameQuiescent ==
  ASSUME TypeOK, Slots, NEW c \in Conns, Frame(c) \/ ReadExit(c)
  PROVE  \E l : Quiescent(c, l)
<1>0. c \in Threads /\ c # Reaper
  BY ConnThread
<1>1. pc[c] = "read" /\ c \notin removed
  BY DEF Frame, JoinLookup, Leave, End, Handle, Receive, ReadExit, Slots
<1>2. UNCHANGED <<countVars, sweepVars>>
  BY DEF Frame, JoinLookup, Leave, LeaveBegin, End, Handle, ReadExit
<1>3. \E l \in {"join", "leave", "end", "mute", "speak", "moderate", "pop"} :
         pc' = [pc EXCEPT ![c] = l]
  BY DEF Frame, JoinLookup, Leave, LeaveBegin, End, Handle, ReadExit, Go
<1> QED  BY <1>0, <1>1, <1>2, <1>3 DEF Quiescent, PopDone, countVars, sweepVars

LEMMA HandlerQuiescent ==
  ASSUME TypeOK, Slots, NEW c \in Conns, Handler(c)
  PROVE  \E l : Quiescent(c, l)
<1>0. c \in Threads /\ c # Reaper
  BY ConnThread
<1>1. pc[c] \in InHandler
  BY DEF Handler, JoinReturns, JoinAdmitted, Welcome, Retire, Close, LeaveLock, Mute, Speak,
         ModerateParticipant, ModerateLock, Kick, Refused, Changed, EndLock, Reset, Cast,
         InHandler
<1>2. pc[c] \notin PopDone \cup {"new", "opened"} /\ c \notin removed
  BY <1>1 DEF InHandler, PopDone, Slots
<1>3. UNCHANGED <<countVars, sweepVars>>
  BY DEF Handler, JoinReturns, JoinAdmitted, Welcome, Retire, Close, LeaveLock, Mute, Speak,
         ModerateParticipant, ModerateLock, Kick, Refused, Changed, EndLock, Reset, Cast
<1>4. \E l \in InHandler \cup {"read", "pop"} : pc' = [pc EXCEPT ![c] = l]
  BY DEF Handler, JoinReturns, JoinAdmitted, Welcome, Retire, Close, LeaveLock, Mute, Speak,
         ModerateParticipant, ModerateLock, Kick, Refused, Changed, EndLock, Reset, Cast,
         Resume, Go, InHandler
<1> QED
  BY <1>0, <1>2, <1>3, <1>4 DEF Quiescent, PopDone, InHandler, countVars, sweepVars

LEMMA LeavingQuiescent ==
  ASSUME TypeOK, Slots, NEW t \in Threads, CleanBegin(t) \/ CleanLock(t) \/ CleanCast(t)
  PROVE  \E l : Quiescent(t, l)
<1>1. pc[t] \in {"get", "drop", "castLeft"}
  BY DEF CleanBegin, CleanLock, CleanCast
<1>2. UNCHANGED <<countVars, sweepVars>>
  BY DEF CleanBegin, LeaveBegin, CleanLock, CleanCast
<1>3. \E l \in {"drop", "castLeft", "free"} : pc' = [pc EXCEPT ![t] = l]
  BY DEF CleanBegin, LeaveBegin, CleanLock, CleanCast, Go
<1> QED  BY <1>1, <1>2, <1>3 DEF Quiescent, PopDone, countVars, sweepVars

\* Nothing about the slots changes.
Untouched == Slots' /\ Held' = Held /\ UNCHANGED <<perIp, perUser>>

LEMMA QuiescentUntouched ==
  ASSUME TypeOK, Slots, NEW t, NEW l, Quiescent(t, l)
  PROVE  Untouched
  BY QuiescentSlots DEF Untouched, Quiescent

\* A connection that gets a slot is served next.
LEMMA AcquireSlots ==
  ASSUME CapsInv, NEW c \in Conns, Acquire(c)
  PROVE  \/ Untouched
         \/ /\ Slots' /\ c \notin Held /\ Held' = Held \cup {c}
            /\ perIp' = [perIp EXCEPT ![IpOf[c]] = @ + 1]
            /\ perUser' = [perUser EXCEPT ![UserOf[c]] = @ + 1]
<1>0. c \in Threads /\ TypeOK /\ Slots /\ pc[c] = "new" /\ c \notin removed
  BY ConnThread DEF CapsInv, Inv, Acquire, Slots
<1>1. CASE Go(c, "done", 0, {}) /\ UNCHANGED <<perIp, perUser>>
  <2>1. Quiescent(c, "done")
    BY <1>0, <1>1 DEF Acquire, Quiescent, Go, sweepVars, PopDone
  <2> QED  BY <1>0, <2>1, QuiescentUntouched
<1>2. CASE /\ Go(c, "opened", 0, {})
           /\ perIp' = [perIp EXCEPT ![IpOf[c]] = @ + 1]
           /\ perUser' = [perUser EXCEPT ![UserOf[c]] = @ + 1]
  <2>1. /\ pc \in [Threads -> Places] /\ pc' = [pc EXCEPT ![c] = "opened"]
        /\ UNCHANGED <<registry, removed, reaping, todo>>
    BY <1>2 DEF Acquire, Go, CapsInv, Inv, TypeOK, sweepVars
  <2>2. \A t : Subject(t)' = Subject(t)
    BY <2>1 DEF Subject
  <2>3. c \notin registry /\ c \notin todo /\ c # reaping
    BY <1>0 DEF Slots, Unserved
  <2>4. \A t \in removed : Subject(t) # c
    BY <1>0 DEF Slots, Unserved
  <2>5. Slots'
    BY <1>0, <2>1, <2>2, <2>3, <2>4, ConnThread DEF Slots, TypeOK
  <2>6. c \notin Held
    BY <1>0, <2>3, <2>4 DEF Held, HoldsSlot
  <2>7. \A d \in Conns : HoldsSlot(d)' <=> HoldsSlot(d) \/ d = c
    BY <1>0, <2>1, <2>2, ConnThread DEF HoldsSlot
  <2>8. Held' = Held \cup {c}
    BY <2>7 DEF Held
  <2> QED  BY <1>2, <2>5, <2>6, <2>8
<1> QED  BY <1>1, <1>2 DEF Acquire

\* From the handshake to the registry.
LEMMA RegisterSlots ==
  ASSUME CapsInv, NEW c \in Conns, Register(c)
  PROVE  Untouched
<1>0. /\ c \in Threads /\ Slots /\ pc[c] = "opened" /\ removed \subseteq Threads
      /\ pc \in [Threads -> Places] /\ pc' = [pc EXCEPT ![c] = "read"]
      /\ registry' = registry \cup {c}
      /\ UNCHANGED <<perIp, perUser, removed, reaping, todo>>
  BY ConnThread DEF CapsInv, Inv, TypeOK, Register, Go, sweepVars
<1>1. \A t : Subject(t)' = Subject(t)
  BY <1>0 DEF Subject
<1>2. \A t \in removed : Subject(t) # c /\ t # c
  BY <1>0 DEF Slots, Unserved
<1>3. Slots'
  BY <1>0, <1>1, <1>2, ConnThread DEF Slots, Unserved, PopDone
<1>4. \A d \in Conns : HoldsSlot(d)' <=> HoldsSlot(d)
  BY <1>0, <1>1, ConnThread DEF HoldsSlot
<1> QED  BY <1>0, <1>3, <1>4 DEF Untouched, Held

\* From the registry to the thread whose pop found the entry.
LEMMA PopSlots ==
  ASSUME CapsInv, NEW t \in Threads, Pop(t)
  PROVE  Untouched
<1> DEFINE c == Subject(t)
<1>0. /\ Slots /\ pc[t] = "pop" /\ registry \subseteq Conns /\ removed \subseteq Threads
      /\ pc \in [Threads -> Places] /\ pc' = [pc EXCEPT ![t] = "get"]
      /\ registry' = registry \ {c}
      /\ removed' = IF c \in registry THEN removed \cup {t} ELSE removed
      /\ UNCHANGED <<perIp, perUser, reaping, todo>>
  BY DEF CapsInv, Inv, TypeOK, Pop, Go, sweepVars
<1>1. c \in Conns /\ t \notin removed
  BY <1>0, SubjectType DEF CapsInv, Inv, InCleanup, Slots
<1>2. \A s : Subject(s)' = Subject(s)
  BY <1>0 DEF Subject
<1>3. \A d \in Conns : pc[d] \notin Unserved => pc'[d] \notin Unserved
  BY <1>0, ConnThread DEF Unserved
<1>4. \A d \in registry' : pc'[d] \notin Unserved \cup PopDone
  <2>1. \A d \in registry' : d # t
    BY <1>0, ConnThread DEF Subject
  <2> QED  BY <1>0, <2>1, ConnThread DEF Slots
<1>5. pc[c] \notin Unserved
  BY <1>0, <1>1, ConnThread DEF Subject, Slots, Unserved
<1>6. \A s \in removed' :
         /\ pc'[s] \in {"get", "drop", "castLeft", "free"}
         /\ Subject(s)' \in Conns \ registry' /\ pc'[Subject(s)'] \notin Unserved
  BY <1>0, <1>1, <1>2, <1>3, <1>5 DEF Slots
<1>7. Reaper \in removed' => reaping' \notin removed'
  <2>1. CASE c \notin registry
    BY <1>0, <2>1 DEF Slots
  <2>2. CASE c \in registry /\ t = Reaper
    <3>1. reaping \in registry /\ reaping # Reaper
      BY <1>0, <2>2, ConnThread DEF Subject
    <3>2. reaping \notin removed
      BY <1>0, <3>1 DEF Slots, PopDone
    <3> QED  BY <1>0, <2>2, <3>1, <3>2
  <2>3. CASE c \in registry /\ t # Reaper
    <3>1. Reaper \in removed => Subject(Reaper) \notin registry
      BY <1>0 DEF Slots
    <3> QED  BY <1>0, <2>3, <3>1 DEF Subject, Slots
  <2> QED  BY <2>1, <2>2, <2>3
<1>8. Slots'
  BY <1>0, <1>3, <1>4, <1>6, <1>7 DEF Slots
<1>9. \A d \in Conns : HoldsSlot(d)' <=> HoldsSlot(d)
  BY <1>0, <1>1, <1>2, ConnThread DEF HoldsSlot
<1> QED  BY <1>0, <1>8, <1>9 DEF Untouched, Held

\* The thread that found the entry gives the slot back, no other thread does.
LEMMA CleanEndSlots ==
  ASSUME CapsInv, NEW t \in Threads, CleanEnd(t)
  PROVE  \/ Untouched
         \/ /\ Slots' /\ Subject(t) \in Held /\ Held' = Held \ {Subject(t)}
            /\ Release(Subject(t))
<1> DEFINE c == Subject(t)
<1>0. /\ Slots /\ pc[t] = "free" /\ registry \subseteq Conns /\ removed \subseteq Threads
      /\ pc \in [Threads -> Places]
      /\ pc' = [pc EXCEPT ![t] = IF t = Reaper THEN "scan" ELSE "done"]
      /\ removed' = removed \ {t}
      /\ reaping' = IF t = Reaper THEN NoConn ELSE reaping
      /\ UNCHANGED <<registry, todo>>
  BY DEF CapsInv, Inv, TypeOK, CleanEnd, Go
<1>1. c \in Conns
  BY <1>0, SubjectType DEF CapsInv, Inv, InCleanup
<1>2. \A s \in removed' : Subject(s)' = Subject(s) /\ s # t
  BY <1>0 DEF Subject
<1>3. \A d \in Conns : pc[d] \notin Unserved <=> pc'[d] \notin Unserved
  BY <1>0, ConnThread DEF Unserved
<1>4. \A d \in registry : pc'[d] \notin Unserved \cup PopDone
  BY <1>0, ConnThread DEF Slots, PopDone, Unserved
<1>5. \A s \in removed' :
         /\ pc'[s] \in {"get", "drop", "castLeft", "free"}
         /\ Subject(s)' \in Conns \ registry' /\ pc'[Subject(s)'] \notin Unserved
  BY <1>0, <1>2, <1>3 DEF Slots
<1>6. \A d \in Conns : d \in todo' \/ d = reaping' => pc'[d] \notin Unserved
  BY <1>0, <1>3, RoomAssumption DEF Slots
<1>7. Reaper \in removed' => reaping' \notin removed'
  BY <1>0 DEF Slots
<1>8. Slots'
  BY <1>0, <1>4, <1>5, <1>6, <1>7 DEF Slots
<1>9. \A d \in Conns : pc'[d] = "opened" <=> pc[d] = "opened"
  BY <1>0, ConnThread
<1>10. CASE t \notin removed
  <2>1. \A d \in Conns : HoldsSlot(d)' <=> HoldsSlot(d)
    BY <1>0, <1>2, <1>9, <1>10 DEF HoldsSlot
  <2> QED  BY <1>8, <1>10, <2>1 DEF Untouched, Held, CleanEnd
<1>11. CASE t \in removed
  <2>1. \A s \in removed : Subject(s) = c => s = t
    <3>1. \A s \in removed : s # Reaper => Subject(s) = s
      BY DEF Subject
    <3> QED  BY <1>0, <1>11, <3>1 DEF Subject, Slots
  <2>2. c \notin registry /\ pc[c] # "opened"
    BY <1>0, <1>11 DEF Slots, Unserved
  <2>3. \A d \in Conns : HoldsSlot(d)' <=> HoldsSlot(d) /\ d # c
    BY <1>0, <1>2, <1>9, <1>11, <2>1, <2>2 DEF HoldsSlot
  <2>4. c \in Held
    BY <1>1, <1>11 DEF Held, HoldsSlot
  <2>5. Held' = Held \ {c}
    BY <2>3 DEF Held
  <2> QED  BY <1>8, <1>11, <2>4, <2>5 DEF CleanEnd
<1> QED  BY <1>10, <1>11

LEMMA SweepSlots ==
  ASSUME CapsInv, Sweep
  PROVE  Untouched
<1>0. /\ Slots /\ registry \subseteq Conns /\ pc \in [Threads -> Places]
      /\ removed \subseteq Threads /\ Reaper \in Threads /\ Reaper \notin removed
      /\ UNCHANGED <<registry, perIp, perUser, removed>>
  BY DEF CapsInv, Inv, TypeOK, Slots, Sweep, SweepStart, SweepEnd, SweepSkip, SweepReap,
         countVars, Threads
<1>1. \A d \in Conns : pc'[d] = pc[d]
  BY <1>0, ConnThread DEF Sweep, SweepStart, SweepEnd, SweepSkip, SweepReap, Go
<1>2. \A d \in Conns : d \in todo' \/ d = reaping' => d \in registry \cup todo \/ d = reaping
  BY DEF Sweep, SweepStart, SweepEnd, SweepSkip, SweepReap, sweepVars
<1>3. \A d \in Conns : d \in todo' \/ d = reaping' => pc'[d] \notin Unserved
  BY <1>0, <1>1, <1>2 DEF Slots
<1>4. \A s \in removed : Subject(s)' = Subject(s) /\ s \in Conns
  BY <1>0 DEF Subject, Threads
<1>5. Slots'
  BY <1>0, <1>1, <1>3, <1>4 DEF Slots
<1>6. \A d \in Conns : HoldsSlot(d)' <=> HoldsSlot(d)
  BY <1>0, <1>1, <1>4 DEF HoldsSlot
<1> QED  BY <1>0, <1>5, <1>6 DEF Untouched, Held

-----------------------------------------------------------------------------
(* The invariant *)

LEMMA CapsStep ==
  ASSUME CapsInv, [Next]_vars
  PROVE  \/ Untouched
         \/ \E c \in Conns \ Held :
              /\ Slots' /\ Held' = Held \cup {c}
              /\ perIp' = [perIp EXCEPT ![IpOf[c]] = @ + 1]
              /\ perUser' = [perUser EXCEPT ![UserOf[c]] = @ + 1]
         \/ \E c \in Held : Slots' /\ Held' = Held \ {c} /\ Release(c)
<1>0. TypeOK /\ Slots /\ Control
  BY DEF CapsInv, Inv
<1>1. ASSUME UNCHANGED <<pc, registry, perIp, perUser, removed, reaping, todo>>
      PROVE  Untouched
  <2>1. \A s : Subject(s)' = Subject(s)
    BY <1>1 DEF Subject
  <2>2. \A d \in Conns : HoldsSlot(d)' <=> HoldsSlot(d)
    BY <1>1, <2>1 DEF HoldsSlot
  <2>3. Slots'
    BY <1>0, <1>1, <2>1 DEF Slots
  <2> QED  BY <1>1, <2>2, <2>3 DEF Untouched, Held
<1>2. CASE \/ UNCHANGED vars
           \/ \E c \in Conns : PeerGone(c)
           \/ \E u \in Users : CooldownOver(u)
  BY <1>1, <1>2 DEF vars, PeerGone, CooldownOver, countVars, sweepVars
<1>3. ASSUME NEW c \in Conns, Frame(c) \/ ReadExit(c) \/ Handler(c)
      PROVE  Untouched
  BY <1>0, <1>3, FrameQuiescent, HandlerQuiescent, QuiescentUntouched
<1>4. ASSUME NEW t \in Threads, CleanBegin(t) \/ CleanLock(t) \/ CleanCast(t)
      PROVE  Untouched
  BY <1>0, <1>4, LeavingQuiescent, QuiescentUntouched
<1>5. ASSUME NEW t \in Threads, CleanEnd(t)
      PROVE  \/ Untouched
             \/ \E c \in Held : Slots' /\ Held' = Held \ {c} /\ Release(c)
  BY <1>5, CleanEndSlots
<1>6. ASSUME NEW c \in Conns, Acquire(c)
      PROVE  \/ Untouched
             \/ \E d \in Conns \ Held :
                  /\ Slots' /\ Held' = Held \cup {d}
                  /\ perIp' = [perIp EXCEPT ![IpOf[d]] = @ + 1]
                  /\ perUser' = [perUser EXCEPT ![UserOf[d]] = @ + 1]
  BY <1>6, AcquireSlots
<1> QED
  BY <1>2, <1>3, <1>4, <1>5, <1>6, RegisterSlots, PopSlots, SweepSlots DEF Next, Cleanup

LEMMA CapsKept ==
  ASSUME CapsInv, [Next]_vars
  PROVE  CapsInv'
<1>0. /\ Inv' /\ Held \subseteq Conns /\ IpOf \in [Conns -> Ips]
      /\ UserOf \in [Conns -> Users] /\ perIp \in [Ips -> Nat]
      /\ perUser \in [Users -> Nat]
      /\ Counts(perIp, IpOf, Held) /\ Counts(perUser, UserOf, Held)
  BY TypeKept, ControlKept, BudgetKept, RoomsKept, FutureKept, GoneKept, RoomAssumption,
     ServerAssumption DEF CapsInv, Inv, TypeOK, Held
<1>1. CASE Untouched
  BY <1>0, <1>1 DEF Untouched, CapsInv, Counts
<1>2. ASSUME NEW c \in Conns \ Held, Slots', Held' = Held \cup {c},
             perIp' = [perIp EXCEPT ![IpOf[c]] = @ + 1],
             perUser' = [perUser EXCEPT ![UserOf[c]] = @ + 1]
      PROVE  CapsInv'
  <2>1. Counts(perIp', IpOf, Held') /\ Counts(perUser', UserOf, Held')
    BY <1>0, <1>2, CountAdd
  <2> QED  BY <1>0, <1>2, <2>1 DEF CapsInv, Counts
<1>3. ASSUME NEW c \in Held, Slots', Held' = Held \ {c}, Release(c)
      PROVE  CapsInv'
  <2>1. Counts(perIp', IpOf, Held')
    BY <1>0, <1>3, CountDrop DEF Release
  <2>2. Counts(perUser', UserOf, Held')
    BY <1>0, <1>3, CountDrop DEF Release
  <2> QED  BY <1>0, <1>3, <2>1, <2>2 DEF CapsInv, Counts
<1> QED  BY <1>1, <1>2, <1>3, CapsStep

LEMMA InitCaps == Init => CapsInv
<1> SUFFICES ASSUME Init PROVE CapsInv
  OBVIOUS
<1>1. Slots
  BY RoomAssumption, ServerAssumption DEF Init, Slots
<1>2. Held = {}
  BY ConnThread DEF Init, Held, HoldsSlot
<1>3. Counts(perIp, IpOf, Held) /\ Counts(perUser, UserOf, Held)
  BY <1>2, FS_EmptySet DEF Init, Counts
<1> QED  BY <1>1, <1>3, InitInv DEF CapsInv

\* No leaked counters: per address and per user the caps count exactly the
\* connections that are alive, in every behaviour of any number of them.
THEOREM CountersAreExact == Spec => []CountersExact
<1>1. Spec => []CapsInv
  BY InitCaps, CapsKept, PTL DEF Spec
<1>2. CapsInv => CountersExact
  <2>1. \A i : {c \in Held : IpOf[c] = i} = {c \in Conns : HoldsSlot(c) /\ IpOf[c] = i}
    BY DEF Held
  <2>2. \A u : {c \in Held : UserOf[c] = u} = {c \in Conns : HoldsSlot(c) /\ UserOf[c] = u}
    BY DEF Held
  <2>3. CapsInv => \A i \in Ips : perIp[i] = Cardinality({c \in Held : IpOf[c] = i})
    BY DEF CapsInv, Inv, TypeOK, Counts
  <2>4. CapsInv => \A u \in Users : perUser[u] = Cardinality({c \in Held : UserOf[c] = u})
    BY DEF CapsInv, Inv, TypeOK, Counts
  <2> QED  BY <2>1, <2>2, <2>3, <2>4 DEF CountersExact
<1> QED  BY <1>1, <1>2, PTL

=============================================================================
