--------------------------- MODULE RoomFeedProofs ---------------------------
(***************************************************************************)
(* Theorems about RoomFeed.  The first part says what a step does to the   *)
(* jobs that are left: a step takes the first job of one thread and puts   *)
(* others in its place.  The second part is the inductive invariant and,   *)
(* for each kind of step, that nobody misses anything.                     *)
(***************************************************************************)
EXTENDS RoomFeed, VoiceRoomProofs, SequenceTheorems

Deed == {"join", "rejoin", "leave", "mute", "lock", "moderate", "chat",
         "signal", "retire", "close", "welcome", "send", "cast", "relay"}

Frame == [facts : UNION {[S -> Nat] : S \in SUBSET Subjects},
          chat : SUBSET Nat, news : SUBSET Conns]

Job == [do : Deed, who : SUBSET Conns, frame : Frame]

\* The threads' lists are lists of jobs.
WorkOK == work \in [Threads -> Seq(Job)]

\* A step may take the jobs D off the lists, and puts R on them.
Moves(D, R) ==
  /\ WorkOK'
  /\ Pending \ D \subseteq Pending'
  /\ R \subseteq Pending'
  /\ Pending' \subseteq Pending \cup R

-----------------------------------------------------------------------------
(* Lists of jobs *)

LEMMA ThenRange ==
  ASSUME NEW old \in Seq(Job), old # <<>>, NEW jobs \in Seq(Job)
  PROVE  /\ jobs \o Tail(old) \in Seq(Job)
         /\ Range(jobs \o Tail(old)) \subseteq Range(jobs) \cup Range(old)
         /\ Range(jobs) \subseteq Range(jobs \o Tail(old))
         /\ Range(old) \ {Head(old)} \subseteq Range(jobs \o Tail(old))
<1>1. /\ Tail(old) \in Seq(Job) /\ Len(Tail(old)) = Len(old) - 1
      /\ \A i \in 1..Len(Tail(old)) : Tail(old)[i] = old[i + 1]
      /\ Len(old) \in Nat /\ Head(old) = old[1]
  BY HeadTailProperties, LenProperties
<1>2. /\ jobs \o Tail(old) \in Seq(Job)
      /\ Range(jobs \o Tail(old)) = Range(jobs) \cup Range(Tail(old))
  BY <1>1, ConcatProperties, RangeConcatenation
<1>3. /\ Range(old) = {old[i] : i \in 1..Len(old)}
      /\ Range(Tail(old)) = {Tail(old)[i] : i \in 1..Len(Tail(old))}
  BY <1>1, RangeEquality
<1>4. Range(Tail(old)) \subseteq Range(old)
  BY <1>1, <1>3
<1>5. Range(old) \ {Head(old)} \subseteq Range(Tail(old))
  <2> SUFFICES ASSUME NEW i \in 1..Len(old), i # 1
               PROVE  old[i] \in Range(Tail(old))
    BY <1>1, <1>3
  <2>1. i - 1 \in 1..Len(Tail(old)) /\ Tail(old)[i - 1] = old[i]
    BY <1>1
  <2> QED  BY <1>3, <2>1
<1> QED  BY <1>2, <1>4, <1>5

\* A handler goes on: the first of t's jobs is replaced.
LEMMA ThenMoves ==
  ASSUME WorkOK, NEW t \in Threads, work[t] # <<>>, NEW jobs \in Seq(Job),
         Then(t, jobs)
  PROVE  Moves({Head(work[t])}, Range(jobs))
<1>1. /\ work[t] \in Seq(Job)
      /\ work'[t] = jobs \o Tail(work[t])
      /\ \A s \in Threads \ {t} : work'[s] = work[s]
  BY DEF WorkOK, Then
<1>2. /\ work'[t] \in Seq(Job)
      /\ Range(work'[t]) \subseteq Range(jobs) \cup Range(work[t])
      /\ Range(jobs) \subseteq Range(work'[t])
      /\ Range(work[t]) \ {Head(work[t])} \subseteq Range(work'[t])
  BY <1>1, ThenRange
<1>3. WorkOK'
  BY <1>1, <1>2 DEF WorkOK, Then
<1>4. Range(jobs) \subseteq Pending' /\ Pending' \subseteq Pending \cup Range(jobs)
  BY <1>1, <1>2 DEF Pending
<1>5. Pending \ {Head(work[t])} \subseteq Pending'
  BY <1>1, <1>2 DEF Pending
<1> QED  BY <1>3, <1>4, <1>5 DEF Moves

\* A thread that has nothing to do starts on a handler.
LEMMA StartMoves ==
  ASSUME WorkOK, NEW t \in Threads, work[t] = <<>>, NEW jobs \in Seq(Job),
         work' = [work EXCEPT ![t] = jobs]
  PROVE  Moves({}, Range(jobs))
<1>1. /\ work'[t] = jobs /\ WorkOK'
      /\ \A s \in Threads \ {t} : work'[s] = work[s]
  BY DEF WorkOK
<1>2. Range(work[t]) = {}
  BY DEF Range
<1>3. Pending \subseteq Pending' /\ Range(jobs) \subseteq Pending'
      /\ Pending' \subseteq Pending \cup Range(jobs)
  BY <1>1, <1>2 DEF Pending
<1> QED  BY <1>1, <1>3 DEF Moves

LEMMA IdleMoves ==
  ASSUME WorkOK, UNCHANGED work
  PROVE  Moves({}, {})
  BY DEF Moves, WorkOK, Pending

LEMMA NoJobs == <<>> \in Seq(Job) /\ Range(<<>>) = {}
  BY EmptySeq DEF Range

LEMMA OneJob ==
  ASSUME NEW a \in Job
  PROVE  <<a>> \in Seq(Job) /\ Range(<<a>>) = {a}
  BY DEF Range

LEMMA TwoJobs ==
  ASSUME NEW a \in Job, NEW b \in Job
  PROVE  <<a, b>> \in Seq(Job) /\ Range(<<a, b>>) = {a, b}
  BY DEF Range

LEMMA ThreeJobs ==
  ASSUME NEW a \in Job, NEW b \in Job, NEW c \in Job
  PROVE  <<a, b, c>> \in Seq(Job) /\ Range(<<a, b, c>>) = {a, b, c}
  BY DEF Range

LEMMA FourJobs ==
  ASSUME NEW a \in Job, NEW b \in Job, NEW c \in Job, NEW d \in Job
  PROVE  <<a, b, c, d>> \in Seq(Job) /\ Range(<<a, b, c, d>>) = {a, b, c, d}
  BY DEF Range

LEMMA BothLists ==
  ASSUME NEW s \in Seq(Job), NEW t \in Seq(Job)
  PROVE  s \o t \in Seq(Job) /\ Range(s \o t) = Range(s) \cup Range(t)
  BY ConcatProperties, RangeConcatenation

-----------------------------------------------------------------------------
(* The inductive invariant *)

\* Nobody has heard of a change that is yet to come.
HeardOK == \A c \in Conns, s \in Subjects : heard[c][s] <= version[s]

\* The history is the latest messages, in order, as many as it may hold.
HistoryOK ==
  /\ Len(history) = IF posted < HistoryLimit THEN posted ELSE HistoryLimit
  /\ \A i \in 1..Len(history) : history[i] = posted - Len(history) + i

IInv == TypeOK /\ WorkOK /\ HeardOK /\ HistoryOK /\ Told /\ ChatTold

\* The parts of Told and ChatTold.
Informed(c, s) ==
  \/ heard[c][s] = version[s]
  \/ \E f \in ComingTo(c) : s \in DOMAIN f.facts /\ f.facts[s] = version[s]

Served(c, m) == m \in got[c] \/ \E f \in ComingTo(c) : m \in f.chat

\* What IsFrame and IsJob say, of a job that may be built in this very step.
FrameAt(f, v, p) ==
  /\ f \in Frame /\ DOMAIN f.facts \subseteq Subjects
  /\ \A s \in DOMAIN f.facts : f.facts[s] <= v[s]
  /\ f.chat \subseteq 1..p /\ f.news \subseteq Conns

JobAt(job, v, p) == job \in Job /\ FrameAt(job.frame, v, p)

New(R) == \A job \in R : JobAt(job, version', posted')

\* Numbers only grow.
Grows ==
  /\ version \in [Subjects -> 0..changes] /\ changes \in Nat /\ posted \in Nat
  /\ changes' \in 0..MaxChanges /\ version' \in [Subjects -> 0..changes']
  /\ posted' \in 0..MaxPosts
  /\ changes <= changes' /\ posted <= posted'
  /\ \A s \in Subjects : version[s] <= version'[s]

\* None of D brings anything to anybody.
Silent(D) == \A job \in D : job.do \notin {"send", "cast"}

LEMMA GrowsSame ==
  ASSUME TypeOK, UNCHANGED <<version, changes, posted>>
  PROVE  Grows
  BY FeedAssumption DEF Grows, TypeOK

LEMMA GrowsChange ==
  ASSUME TypeOK, NEW s \in Subjects, Change(s), UNCHANGED posted
  PROVE  /\ Grows
         /\ version'[s] = changes'
         /\ \A x \in Subjects : x # s => version'[x] = version[x]
  BY FeedAssumption DEF Grows, TypeOK, Change

-----------------------------------------------------------------------------
(* Frames and jobs *)

LEMMA AboutFrame ==
  ASSUME Grows, NEW S \in SUBSET Subjects
  PROVE  /\ FrameAt(About(S), version', posted')
         /\ About(S).facts = [s \in S |-> version'[s]]
         /\ About(S).chat = {} /\ About(S).news = {}
<1>1. [s \in S |-> version'[s]] \in [S -> Nat]
  BY DEF Grows
<1>2. About(S) \in Frame
  BY <1>1 DEF About, Facts, Frame
<1> QED  BY <1>2 DEF FrameAt, About, Facts, Grows

LEMMA ChatFrame ==
  ASSUME Grows, NEW M \in SUBSET (1..posted')
  PROVE  FrameAt(Chat(M), version', posted') /\ Chat(M).chat = M
<1>1. [s \in {} |-> version'[s]] \in [{} -> Nat]
  OBVIOUS
<1>2. M \subseteq Nat
  BY DEF Grows
<1>3. Chat(M) \in Frame
  BY <1>1, <1>2 DEF Chat, Facts, Frame
<1> QED  BY <1>3 DEF FrameAt, Chat, Facts

LEMMA PlainFrame ==
  ASSUME Grows
  PROVE  FrameAt(Plain, version', posted')
  BY ChatFrame DEF Plain

LEMMA JoinedFrame ==
  ASSUME Grows, NEW u \in Users, NEW c \in Conns
  PROVE  /\ FrameAt(Joined(u, c), version', posted')
         /\ Joined(u, c).facts = [s \in {u, "lock"} |-> version'[s]]
<1>1. {u, "lock"} \in SUBSET Subjects
  BY DEF Subjects
<1>2. /\ FrameAt(About({u, "lock"}), version', posted')
      /\ About({u, "lock"}).facts = [s \in {u, "lock"} |-> version'[s]]
  BY <1>1, AboutFrame
<1> QED  BY <1>2 DEF Joined, FrameAt, Frame, About

\* Jobs that send nothing.
LEMMA QuietJob ==
  ASSUME Grows, NEW what \in Deed, NEW D \in SUBSET Conns
  PROVE  /\ JobAt(With(what, D), version', posted')
         /\ JobAt(Do(what), version', posted')
  BY PlainFrame DEF JobAt, Job, With, Do, FrameAt

LEMMA SendJob ==
  ASSUME NEW c \in Conns, NEW f, FrameAt(f, version', posted')
  PROVE  JobAt(Send(c, f), version', posted')
  BY DEF JobAt, Job, Send, FrameAt, Deed

LEMMA CastJob ==
  ASSUME NEW D \in SUBSET Conns, NEW f, FrameAt(f, version', posted')
  PROVE  JobAt(Cast(D, f), version', posted')
  BY DEF JobAt, Job, Cast, FrameAt, Deed

\* A job that was fine stays fine, and so all of them are.
LEMMA JobsTyped ==
  ASSUME TypeOK, WorkOK, Grows, NEW D, NEW R, Moves(D, R), New(R)
  PROVE  (\A job \in Pending : IsJob(job))'
<1>1. ASSUME NEW job \in Pending'
      PROVE  IsJob(job)'
  <2>1. CASE job \in Pending
    <3>1. /\ job.do \in Deed /\ job.who \subseteq Conns
          /\ DOMAIN job.frame.facts \subseteq Subjects
          /\ job.frame.chat \subseteq 1..posted /\ job.frame.news \subseteq Conns
          /\ \A s \in DOMAIN job.frame.facts : job.frame.facts[s] <= version[s]
      BY <2>1 DEF TypeOK, IsJob, IsFrame, Deed
    <3>2. job \in Job
      BY <2>1 DEF WorkOK, Pending, Range
    <3>3. \A s \in DOMAIN job.frame.facts : job.frame.facts[s] \in Nat
      BY <3>2 DEF Job, Frame
    <3>4. \A s \in DOMAIN job.frame.facts : job.frame.facts[s] <= version'[s]
      BY <3>1, <3>3 DEF Grows
    <3>5. job.frame.chat \subseteq 1..posted'
      BY <3>1 DEF Grows
    <3> QED  BY <3>1, <3>4, <3>5 DEF IsJob, IsFrame, Deed
  <2>2. CASE job \in R
    BY <2>2 DEF New, JobAt, Job, FrameAt, IsJob, IsFrame, Deed
  <2> QED  BY <1>1, <2>1, <2>2 DEF Moves
<1> QED  BY <1>1

\* What is coming to c keeps coming, unless it is what the step takes off.
LEMMA KeepsComing ==
  ASSUME NEW D, NEW R, Moves(D, R), Silent(D), NEW c
  PROVE  ComingTo(c) \subseteq ComingTo(c)'
  BY DEF ComingTo, Brings, Moves, Silent

LEMMA NewComing ==
  ASSUME NEW D, NEW R, Moves(D, R), NEW job \in R, NEW c, Brings(job, c)
  PROVE  job.frame \in ComingTo(c)'
  BY DEF ComingTo, Moves

LEMMA StaysServed ==
  ASSUME NEW c, NEW m, Served(c, m), got'[c] = got[c],
         ComingTo(c) \subseteq ComingTo(c)'
  PROVE  Served(c, m)'
  BY DEF Served

LEMMA StaysInformed ==
  ASSUME NEW c, NEW s, Informed(c, s), heard'[c] = heard[c],
         version'[s] = version[s], ComingTo(c) \subseteq ComingTo(c)'
  PROVE  Informed(c, s)'
  BY DEF Informed

-----------------------------------------------------------------------------
(* Steps that change nothing that clients are shown *)

LEMMA Unaltered ==
  ASSUME IInv, NEW D, NEW R, Moves(D, R), New(R),
         \A c \in Conns : Listening(c) => ComingTo(c) \subseteq ComingTo(c)',
         UNCHANGED <<roomVars, chatVars, heard, got, since>>,
         joined' \subseteq Conns, registry' \subseteq Conns, reading' \subseteq Conns,
         announced' \subseteq Conns,
         closing \subseteq closing', closing' \subseteq Conns,
         gone \subseteq gone', gone' \subseteq Conns
  PROVE  IInv'
<1>1. Grows
  BY GrowsSame DEF IInv, roomVars, chatVars
<1>2. (\A job \in Pending : IsJob(job))'
  BY <1>1, JobsTyped DEF IInv
<1>3. TypeOK'
  BY <1>1, <1>2 DEF IInv, TypeOK, roomVars, chatVars
<1>4. WorkOK' /\ HeardOK' /\ HistoryOK'
  BY DEF IInv, Moves, HeardOK, HistoryOK, roomVars, chatVars
<1>5. \A c \in Conns : Listening(c)' => Listening(c)
  BY DEF Listening, Holds, roomVars
<1>6. Told'
  <2> SUFFICES ASSUME NEW c \in Conns, Listening(c)', NEW s \in Subjects
               PROVE  Informed(c, s)'
    BY DEF Told, Informed
  <2>1. Informed(c, s)
    BY <1>5 DEF IInv, Told, Informed
  <2> QED  BY <1>5, <2>1, StaysInformed DEF roomVars
<1>7. ChatTold'
  <2> SUFFICES ASSUME NEW c \in Conns, Listening(c)', NEW m \in 1..posted',
                      m + HistoryLimit > since'[c]
               PROVE  Served(c, m)'
    BY DEF ChatTold, Served
  <2>1. Served(c, m)
    BY <1>5 DEF IInv, ChatTold, Served, chatVars
  <2> QED  BY <1>5, <2>1, StaysServed
<1> QED  BY <1>3, <1>4, <1>6, <1>7 DEF IInv

\* Above all the steps of jobs that send nothing.
LEMMA Quiet ==
  ASSUME IInv, NEW D, NEW R, Moves(D, R), Silent(D), New(R),
         UNCHANGED <<roomVars, chatVars, clientVars, since>>,
         joined' \subseteq Conns, registry' \subseteq Conns, reading' \subseteq Conns,
         closing \subseteq closing', closing' \subseteq Conns,
         gone \subseteq gone', gone' \subseteq Conns
  PROVE  IInv'
<1>1. \A c \in Conns : ComingTo(c) \subseteq ComingTo(c)'
  BY KeepsComing
<1>2. announced' \subseteq Conns /\ UNCHANGED <<heard, got>>
  BY DEF IInv, TypeOK, clientVars
<1> QED  BY <1>1, <1>2, Unaltered

-----------------------------------------------------------------------------
(* Changes that are broadcast to everybody *)

\* R has a broadcast to everybody that tells of s.
TellsAll(R, s) ==
  \E job \in R : /\ job.do = "cast" /\ job.who = {}
                 /\ s \in DOMAIN job.frame.facts
                 /\ job.frame.facts[s] = version'[s]

LEMMA Broadcast ==
  ASSUME IInv, NEW D, NEW R, Moves(D, R), Silent(D), New(R),
         NEW x \in Subjects, Change(x), TellsAll(R, x), room' \in Room,
         \A c \in Conns : Holds(c)' => Holds(c),
         UNCHANGED <<chatVars, connVars, clientVars, since>>
  PROVE  IInv'
<1>1. /\ Grows
      /\ \A s \in Subjects : s # x => version'[s] = version[s]
  BY GrowsChange DEF IInv, chatVars
<1>2. (\A job \in Pending : IsJob(job))'
  BY <1>1, JobsTyped DEF IInv
<1>3. heard' \in [Conns -> [Subjects -> 0..changes']]
  <2>1. \A n \in 0..changes : n \in 0..changes'
    BY <1>1 DEF Grows
  <2> QED  BY <2>1 DEF IInv, TypeOK, clientVars
<1>4. TypeOK'
  BY <1>1, <1>2, <1>3 DEF IInv, TypeOK, Grows, chatVars, connVars, clientVars
<1>5. HeardOK'
  <2> SUFFICES ASSUME NEW c \in Conns, NEW s \in Subjects
               PROVE  heard[c][s] <= version'[s]
    BY DEF HeardOK, clientVars
  <2>1. heard[c][s] \in Nat /\ version[s] \in Nat /\ version'[s] \in Nat
    BY <1>1 DEF IInv, TypeOK, Grows
  <2>2. heard[c][s] <= version[s] /\ version[s] <= version'[s]
    BY <1>1 DEF IInv, HeardOK, Grows
  <2> QED  BY <2>1, <2>2
<1>6. WorkOK' /\ HistoryOK'
  BY DEF IInv, Moves, HistoryOK, chatVars
<1>7. \A c \in Conns : Listening(c)' => Listening(c)
  BY DEF Listening, connVars
<1>8. \A c \in Conns : ComingTo(c) \subseteq ComingTo(c)'
  BY KeepsComing
<1>9. Told'
  <2> SUFFICES ASSUME NEW c \in Conns, Listening(c)', NEW s \in Subjects
               PROVE  Informed(c, s)'
    BY DEF Told, Informed
  <2>1. CASE s = x
    <3>1. PICK job \in R : /\ job.do = "cast" /\ job.who = {}
                           /\ s \in DOMAIN job.frame.facts
                           /\ job.frame.facts[s] = version'[s]
      BY <2>1 DEF TellsAll
    <3>2. job.frame \in ComingTo(c)'
      BY <3>1, NewComing DEF Brings
    <3> QED  BY <3>1, <3>2 DEF Informed
  <2>2. CASE s # x
    <3>1. Informed(c, s)
      BY <1>7 DEF IInv, Told, Informed
    <3> QED  BY <1>1, <1>8, <2>2, <3>1, StaysInformed DEF clientVars
  <2> QED  BY <2>1, <2>2
<1>10. ChatTold'
  <2> SUFFICES ASSUME NEW c \in Conns, Listening(c)', NEW m \in 1..posted',
                      m + HistoryLimit > since'[c]
               PROVE  Served(c, m)'
    BY DEF ChatTold, Served
  <2>1. Served(c, m)
    BY <1>7 DEF IInv, ChatTold, Served, chatVars
  <2> QED  BY <1>8, <2>1, StaysServed DEF clientVars
<1> QED  BY <1>4, <1>5, <1>6, <1>9, <1>10 DEF IInv

-----------------------------------------------------------------------------
(* Joining *)

LEMMA NewcomerJobs ==
  ASSUME Grows, NEW c \in Conns, NEW rejoin \in BOOLEAN,
         history \in Seq(1..posted), posted' = posted
  PROVE  LET list == Newcomer(c, UserOf[c], rejoin)
         IN  /\ list \in Seq(Job) /\ New(Range(list))
             /\ {Send(c, State), Send(c, Messages),
                 Cast(TabsOf(UserOf[c]), Joined(UserOf[c], c))} \subseteq Range(list)
<1> DEFINE u == UserOf[c]
           first == <<Do("welcome"), Send(c, State), Send(c, Messages),
                      Cast(TabsOf(u), Joined(u, c))>>
           second == IF rejoin THEN <<Cast(TabsOf(u), About({u}))>> ELSE <<>>
           V == version'
           P == posted'
<1>1. u \in Users /\ TabsOf(u) \in SUBSET Conns
  BY RoomAssumption DEF TabsOf
<1>2. JobAt(Do("welcome"), V, P)
  BY QuietJob DEF Deed
<1>3. JobAt(Send(c, State), V, P)
  BY AboutFrame, SendJob DEF State
<1>4. JobAt(Send(c, Messages), V, P)
  <2>1. {history[i] : i \in DOMAIN history} \in SUBSET (1..posted')
    BY DEF Grows
  <2> QED  BY <2>1, ChatFrame, SendJob DEF Messages
<1>5. JobAt(Cast(TabsOf(u), Joined(u, c)), V, P)
  BY <1>1, JoinedFrame, CastJob
<1>6. JobAt(Cast(TabsOf(u), About({u})), V, P)
  BY <1>1, AboutFrame, CastJob DEF Subjects
<1>7. first \in Seq(Job)
      /\ Range(first) = {Do("welcome"), Send(c, State), Send(c, Messages),
                         Cast(TabsOf(u), Joined(u, c))}
  BY <1>2, <1>3, <1>4, <1>5, FourJobs DEF JobAt
<1>8. second \in Seq(Job) /\ Range(second) \subseteq {Cast(TabsOf(u), About({u}))}
  BY <1>6, NoJobs, OneJob DEF JobAt
<1>9. Newcomer(c, u, rejoin) = first \o second
  BY DEF Newcomer
<1>10. Newcomer(c, u, rejoin) \in Seq(Job)
       /\ Range(Newcomer(c, u, rejoin)) = Range(first) \cup Range(second)
  <2> HIDE DEF first, second, u
  <2> QED  BY <1>7, <1>8, <1>9, BothLists
<1>11. New(Range(Newcomer(c, u, rejoin)))
  BY <1>2, <1>3, <1>4, <1>5, <1>6, <1>7, <1>8, <1>10 DEF New
<1> QED  BY <1>7, <1>10, <1>11

\* After a join only the newcomer listens that did not before, and nobody
\* listens who holds another tab of the same user.
LEMMA JoinListening ==
  ASSUME TypeOK, NEW c \in Conns, room' = Join(room, UserOf[c], c),
         NEW d \in Conns, Holds(d)', d # c
  PROVE  Holds(d) /\ d \notin TabsOf(UserOf[c])
<1>1. room \in Room /\ UserOf[c] \in Users /\ UserOf[d] \in Users
  BY RoomAssumption DEF TypeOK
<1>2. UserOf[d] # UserOf[c]
  <2>1. room'.parts[UserOf[c]].conn = c
    BY <1>1, JoinFields
  <2> QED  BY <2>1 DEF Holds
<1>3. room'.parts[UserOf[d]] = room.parts[UserOf[d]]
  BY <1>1, <1>2, JoinOthers
<1> QED  BY <1>2, <1>3 DEF Holds, TabsOf

LEMMA JoinStep ==
  ASSUME IInv, NEW c \in Conns, Join_(c)
  PROVE  IInv'
<1> DEFINE u == UserOf[c]
           displaced == {room.parts[u].conn} \ {NoConn, c}
           list == Newcomer(c, u, Inside(room, u))
           first == IF displaced = {} THEN <<>>
                    ELSE <<With("retire", displaced), With("close", displaced)>>
           D == {Head(work[c])}
           R == Range(first \o list)
<1>1. /\ work[c] # <<>> /\ Head(work[c]).do = "join"
      /\ room' = Join(room, u, c) /\ Change(u) /\ Then(c, first \o list)
      /\ since' = [since EXCEPT ![c] = posted] /\ announced' = announced \ {c}
      /\ UNCHANGED <<chatVars, connVars, heard, got>>
  BY DEF Join_, At
<1>2. room \in Room /\ u \in Users /\ u \in Subjects /\ c \in Threads
  BY RoomAssumption DEF IInv, TypeOK, Subjects, Threads
<1>3. /\ Grows /\ posted' = posted /\ history' = history
      /\ \A s \in Subjects : s # u => version'[s] = version[s]
  BY <1>1, <1>2, GrowsChange DEF IInv, chatVars
<1>4. displaced \in SUBSET Conns
  BY <1>2 DEF Room, Participant
<1>5. first \in Seq(Job) /\ New(Range(first))
  <2>1. JobAt(With("retire", displaced), version', posted')
        /\ JobAt(With("close", displaced), version', posted')
    BY <1>3, <1>4, QuietJob DEF Deed
  <2>2. CASE displaced = {}
    BY <2>2, NoJobs DEF New
  <2>3. CASE displaced # {}
    <3>1. /\ first \in Seq(Job)
          /\ Range(first) = {With("retire", displaced), With("close", displaced)}
      BY <2>1, <2>3, TwoJobs DEF JobAt
    <3> QED  BY <2>1, <3>1 DEF New
  <2> QED  BY <2>2, <2>3
<1>6. /\ list \in Seq(Job) /\ New(Range(list))
      /\ {Send(c, State), Send(c, Messages), Cast(TabsOf(u), Joined(u, c))}
           \subseteq Range(list)
  <2>1. Inside(room, u) \in BOOLEAN /\ history \in Seq(1..posted)
    BY DEF Inside, IInv, TypeOK
  <2> QED  BY <1>3, <2>1, NewcomerJobs
<1> HIDE DEF first, list, u, displaced
<1>7. first \o list \in Seq(Job) /\ R = Range(first) \cup Range(list)
  BY <1>5, <1>6, BothLists
<1>8. New(R) /\ Moves(D, R) /\ Silent(D)
  <2>1. Moves(D, R)
    BY <1>1, <1>2, <1>7, ThenMoves DEF IInv
  <2> QED  BY <1>1, <1>5, <1>6, <1>7, <2>1 DEF New, Silent
<1> HIDE DEF R, D
<1>9. TypeOK'
  <2>1. (\A job \in Pending : IsJob(job))'
    BY <1>3, <1>8, JobsTyped DEF IInv
  <2>2. room' \in Room
    BY <1>1, <1>2, JoinType
  <2>3. heard' \in [Conns -> [Subjects -> 0..changes']]
    <3>1. \A n \in 0..changes : n \in 0..changes'
      BY <1>3 DEF Grows
    <3> QED  BY <1>1, <3>1 DEF IInv, TypeOK
  <2>4. since' \in [Conns -> 0..posted'] /\ announced' \subseteq Conns
    BY <1>1, <1>3 DEF IInv, TypeOK, Grows
  <2> QED  BY <1>1, <1>3, <2>1, <2>2, <2>3, <2>4 DEF IInv, TypeOK, Grows, connVars
<1>10. WorkOK' /\ HistoryOK'
  BY <1>3, <1>8 DEF IInv, Moves, HistoryOK
<1>11. HeardOK'
  <2> SUFFICES ASSUME NEW d \in Conns, NEW s \in Subjects
               PROVE  heard[d][s] <= version'[s]
    BY <1>1 DEF HeardOK
  <2>1. heard[d][s] \in Nat /\ version[s] \in Nat /\ version'[s] \in Nat
    BY <1>3 DEF IInv, TypeOK, Grows
  <2>2. heard[d][s] <= version[s] /\ version[s] <= version'[s]
    BY <1>3 DEF IInv, HeardOK, Grows
  <2> QED  BY <2>1, <2>2
<1>12. ASSUME NEW d \in Conns, d # c, Listening(d)'
       PROVE  Listening(d) /\ d \notin TabsOf(u) /\ ComingTo(d) \subseteq ComingTo(d)'
  BY <1>1, <1>8, <1>12, JoinListening, KeepsComing DEF IInv, Listening, connVars, u
<1>13. Told'
  <2> SUFFICES ASSUME NEW d \in Conns, Listening(d)', NEW s \in Subjects
               PROVE  Informed(d, s)'
    BY DEF Told, Informed
  <2>1. CASE d = c
    <3>1. Send(c, State) \in R /\ Brings(Send(c, State), c)
      BY <1>6, <1>7 DEF Brings, Send
    <3>2. Send(c, State).frame \in ComingTo(c)'
      BY <1>8, <3>1, NewComing
    <3>3. State.facts = [x \in Subjects |-> version'[x]]
      BY <1>3, AboutFrame DEF State
    <3>4. \E f \in ComingTo(c)' : s \in DOMAIN f.facts /\ f.facts[s] = version'[s]
      BY <3>2, <3>3 DEF Send
    <3> QED  BY <2>1, <3>4 DEF Informed
  <2>2. CASE d # c /\ s = u
    <3>1. LET job == Cast(TabsOf(u), Joined(u, c)) IN job \in R /\ Brings(job, d)
      BY <1>6, <1>7, <1>12, <2>2 DEF Brings, Cast
    <3>2. Joined(u, c) \in ComingTo(d)'
      BY <1>8, <3>1, NewComing DEF Cast
    <3>3. u \in DOMAIN Joined(u, c).facts /\ Joined(u, c).facts[u] = version'[u]
      BY <1>2, <1>3, JoinedFrame
    <3> QED  BY <2>2, <3>2, <3>3 DEF Informed
  <2>3. CASE d # c /\ s # u
    <3>1. Informed(d, s)
      BY <1>12, <2>3 DEF IInv, Told, Informed
    <3> QED  BY <1>1, <1>3, <1>12, <2>3, <3>1, StaysInformed
  <2> QED  BY <2>1, <2>2, <2>3
<1>14. ChatTold'
  <2> SUFFICES ASSUME NEW d \in Conns, Listening(d)', NEW m \in 1..posted',
                      m + HistoryLimit > since'[d]
               PROVE  Served(d, m)'
    BY DEF ChatTold, Served
  <2>1. CASE d = c
    <3>1. Send(c, Messages) \in R /\ Brings(Send(c, Messages), c)
      BY <1>6, <1>7 DEF Brings, Send
    <3>2. Messages \in ComingTo(c)'
      BY <1>8, <3>1, NewComing DEF Send
    <3>3. m \in 1..posted /\ m + HistoryLimit > posted
      BY <1>1, <1>3, <2>1 DEF IInv, TypeOK
    <3>4. \E i \in DOMAIN history : history[i] = m
      <4> DEFINE i == m - posted + Len(history)
      <4>1. posted \in Nat /\ HistoryLimit \in Nat /\ history \in Seq(1..posted)
        BY FeedAssumption DEF IInv, TypeOK
      <4>2. i \in 1..Len(history)
        BY <3>3, <4>1 DEF IInv, HistoryOK
      <4>3. history[i] = posted - Len(history) + i
        BY <4>2 DEF IInv, HistoryOK
      <4> QED  BY <3>3, <4>1, <4>2, <4>3
    <3>5. m \in Messages.chat
      BY <3>4 DEF Messages, Chat
    <3> QED  BY <2>1, <3>2, <3>5 DEF Served
  <2>2. CASE d # c
    <3>1. since'[d] = since[d] /\ m \in 1..posted
      BY <1>1, <1>3, <2>2 DEF IInv, TypeOK
    <3>2. Served(d, m)
      BY <1>12, <2>2, <3>1 DEF IInv, ChatTold, Served
    <3> QED  BY <1>1, <1>12, <2>2, <3>2, StaysServed
  <2> QED  BY <2>1, <2>2
<1> QED  BY <1>9, <1>10, <1>11, <1>13, <1>14 DEF IInv

-----------------------------------------------------------------------------
(* Handlers that only begin, end or prepare something *)

LEMMA HeadJob ==
  ASSUME WorkOK, NEW t \in Threads, work[t] # <<>>
  PROVE  Head(work[t]) \in Job /\ Head(work[t]) \in Pending
<1>1. work[t] \in Seq(Job)
  BY DEF WorkOK
<1>2. Head(work[t]) \in Job /\ Len(work[t]) \in Nat \ {0}
  BY <1>1, HeadTailProperties, EmptySeq
<1>3. Head(work[t]) = work[t][1] /\ 1 \in DOMAIN work[t]
  BY <1>1, <1>2
<1> QED  BY <1>2, <1>3 DEF Pending, Range

LEMMA SilentMoves ==
  ASSUME WorkOK, NEW t \in Threads, NEW what \in Deed \ {"send", "cast"}, At(t, what),
         NEW jobs \in Seq(Job), Then(t, jobs)
  PROVE  Moves({Head(work[t])}, Range(jobs)) /\ Silent({Head(work[t])})
  BY ThenMoves DEF At, Silent

\* Starting on a handler, or on leave_room and what follows it.
LEMMA BeginStep ==
  ASSUME IInv, NEW c \in Conns,
         ReadJoin(c) \/ \E what \in Requests : ReadMember(c, what)
  PROVE  IInv'
<1>1. PICK what \in Deed : Begins(c, what) /\ work[c] = <<>>
  BY DEF ReadJoin, ReadMember, Requests, Deed, Reads, Free
<1>2. UNCHANGED <<roomVars, chatVars, connVars, clientVars, since>>
  BY DEF ReadJoin, ReadMember
<1>3. Grows
  BY <1>2, GrowsSame DEF IInv, roomVars, chatVars
<1>4. JobAt(Do(what), version', posted')
  BY <1>3, QuietJob
<1> DEFINE R == Range(<<Do(what)>>)
<1>5. <<Do(what)>> \in Seq(Job) /\ R = {Do(what)}
  BY <1>4, OneJob DEF JobAt
<1>6. Moves({}, R)
  BY <1>1, <1>5, StartMoves DEF IInv, Begins, Threads
<1>7. Silent({}) /\ New(R)
  BY <1>4, <1>5 DEF Silent, New
<1> HIDE DEF R
<1> QED  BY <1>2, <1>6, <1>7, Quiet DEF IInv, TypeOK, connVars

LEMMA LeavingStep ==
  ASSUME IInv, NEW c \in Conns, ReadLeave(c) \/ CleanUp(c) \/ Reap(c)
  PROVE  IInv'
<1>1. PICK t \in Threads, rest \in {<<>>, <<With("close", {c})>>} :
        Leaving(t, c, rest) /\ work[t] = <<>>
  BY DEF ReadLeave, CleanUp, Reap, Threads, Reads, Free
<1>2. /\ UNCHANGED <<roomVars, chatVars, closing, gone, clientVars, since>>
      /\ registry' \subseteq Conns /\ reading' \subseteq Conns /\ joined' \subseteq Conns
  BY DEF ReadLeave, CleanUp, Reap, Leaving, IInv, TypeOK
<1>3. Grows
  BY <1>2, GrowsSame DEF IInv, roomVars, chatVars
<1>4. /\ JobAt(With("leave", {c}), version', posted')
      /\ JobAt(With("close", {c}), version', posted')
  BY <1>3, QuietJob DEF Deed
<1> DEFINE jobs == <<With("leave", {c})>> \o rest
           R == Range(jobs)
<1>5. /\ <<With("leave", {c})>> \in Seq(Job)
      /\ Range(<<With("leave", {c})>>) = {With("leave", {c})}
      /\ <<With("close", {c})>> \in Seq(Job)
      /\ Range(<<With("close", {c})>>) = {With("close", {c})}
  BY <1>4, OneJob DEF JobAt
<1>6. rest \in Seq(Job) /\ Range(rest) \subseteq {With("close", {c})}
  BY <1>5, NoJobs
<1>7. jobs \in Seq(Job) /\ R \subseteq {With("leave", {c}), With("close", {c})}
  BY <1>5, <1>6, BothLists
<1>8. work' = [work EXCEPT ![t] = jobs]
  BY <1>1 DEF Leaving
<1> HIDE DEF jobs
<1>9. Moves({}, R) /\ Silent({}) /\ New(R)
  <2>1. Moves({}, R)
    BY <1>1, <1>7, <1>8, StartMoves DEF IInv
  <2> QED  BY <1>4, <1>7, <2>1 DEF Silent, New
<1> HIDE DEF R
<1> QED  BY <1>2, <1>9, Quiet DEF IInv, TypeOK

\* What the rest of the steps that show nothing have in common.
LEMMA QuietThen ==
  ASSUME IInv, NEW t \in Threads, NEW what \in Deed \ {"send", "cast"}, At(t, what),
         NEW jobs \in Seq(Job), Then(t, jobs), New(Range(jobs)),
         UNCHANGED <<roomVars, chatVars, gone, registry, reading, clientVars, since>>,
         joined' \subseteq Conns, closing \subseteq closing', closing' \subseteq Conns
  PROVE  IInv'
<1>1. Moves({Head(work[t])}, Range(jobs)) /\ Silent({Head(work[t])})
  BY SilentMoves DEF IInv
<1> QED  BY <1>1, Quiet DEF IInv, TypeOK

LEMMA RejoinStep ==
  ASSUME IInv, NEW c \in Conns, Rejoin(c)
  PROVE  IInv'
<1>1. /\ At(c, "rejoin") /\ Then(c, <<Send(c, State), Send(c, Messages)>>)
      /\ UNCHANGED <<roomVars, chatVars, connVars, clientVars, since>>
  BY DEF Rejoin, NoChange
<1>2. Grows
  BY <1>1, GrowsSame DEF IInv, roomVars, chatVars
<1>3. JobAt(Send(c, State), version', posted')
  BY <1>2, AboutFrame, SendJob DEF State
<1>4. JobAt(Send(c, Messages), version', posted')
  <2>1. {history[i] : i \in DOMAIN history} \in SUBSET (1..posted')
    BY <1>1 DEF IInv, TypeOK, chatVars
  <2> QED  BY <1>2, <2>1, ChatFrame, SendJob DEF Messages
<1> DEFINE jobs == <<Send(c, State), Send(c, Messages)>>
<1>5. jobs \in Seq(Job) /\ Range(jobs) = {Send(c, State), Send(c, Messages)}
  BY <1>3, <1>4, TwoJobs DEF JobAt
<1>6. New(Range(jobs)) /\ Then(c, jobs)
  BY <1>1, <1>3, <1>4, <1>5 DEF New
<1> HIDE DEF jobs
<1>7. c \in Threads /\ "rejoin" \in Deed \ {"send", "cast"}
  BY DEF Threads, Deed
<1> QED  BY <1>1, <1>5, <1>6, <1>7, QuietThen DEF IInv, TypeOK, connVars

\* A handler that ends, or goes on to what it has prepared.
LEMMA NextJob ==
  ASSUME IInv, NEW t \in Threads, NEW what \in Deed \ {"send", "cast"}, At(t, what),
         Then(t, <<>>),
         UNCHANGED <<roomVars, chatVars, gone, registry, reading, clientVars, since>>,
         joined' \subseteq Conns, closing \subseteq closing', closing' \subseteq Conns
  PROVE  IInv'
<1>1. New(Range(<<>>))
  BY NoJobs DEF New
<1> QED  BY <1>1, NoJobs, QuietThen

LEMMA RefusedStep ==
  ASSUME IInv, NEW c \in Conns, Refused(c)
  PROVE  IInv'
<1>1. PICK what \in Deed \ {"send", "cast"} : At(c, what)
  BY DEF Refused, Deed
<1> QED  BY <1>1, NextJob DEF Refused, NoChange, connVars, IInv, TypeOK, Threads

LEMMA WelcomeStep ==
  ASSUME IInv, NEW c \in Conns, Welcome(c)
  PROVE  IInv'
<1>1. "welcome" \in Deed \ {"send", "cast"} /\ c \in Threads
  BY DEF Deed, Threads
<1> QED  BY <1>1, NextJob DEF Welcome, IInv, TypeOK

LEMMA RetireStep ==
  ASSUME IInv, NEW t \in Threads, Retire(t)
  PROVE  IInv'
<1>1. "retire" \in Deed \ {"send", "cast"}
  BY DEF Deed
<1> QED  BY <1>1, NextJob DEF Retire, IInv, TypeOK

LEMMA CloseStep ==
  ASSUME IInv, NEW t \in Threads, Close(t)
  PROVE  IInv'
<1>1. "close" \in Deed \ {"send", "cast"}
  BY DEF Deed
<1>2. Head(work[t]).who \subseteq Conns
  BY HeadJob DEF IInv, Job, Close, At
<1> QED  BY <1>1, <1>2, NextJob DEF Close, IInv, TypeOK

\* A list of one job.
LEMMA OneQuiet ==
  ASSUME IInv, NEW t \in Threads, NEW what \in Deed \ {"send", "cast"}, At(t, what),
         NEW job, JobAt(job, version', posted'), Then(t, <<job>>),
         UNCHANGED <<roomVars, chatVars, connVars, clientVars, since>>
  PROVE  IInv'
<1>1. <<job>> \in Seq(Job) /\ Range(<<job>>) = {job}
  BY OneJob DEF JobAt
<1>2. New(Range(<<job>>))
  BY <1>1 DEF New
<1> QED  BY <1>1, <1>2, QuietThen DEF IInv, TypeOK, connVars

LEMMA SignalStep ==
  ASSUME IInv, NEW c \in Conns, Signal(c)
  PROVE  IInv'
<1>1. PICK target \in Members(room) :
        Then(c, <<With("relay", {room.parts[target].conn})>>)
  BY DEF Signal
<1>2. room.parts[target].conn \in Conns
  BY DEF Members, Inside, IInv, TypeOK, Room, Participant
<1>3. /\ UNCHANGED <<roomVars, chatVars, connVars, clientVars, since>>
      /\ At(c, "signal") /\ "signal" \in Deed \ {"send", "cast"} /\ c \in Threads
  BY DEF Signal, NoChange, Deed, Threads
<1>4. Grows
  BY <1>3, GrowsSame DEF IInv, roomVars, chatVars
<1>5. JobAt(With("relay", {room.parts[target].conn}), version', posted')
  BY <1>2, <1>4, QuietJob DEF Deed
<1> QED  BY <1>1, <1>3, <1>5, OneQuiet

LEMMA RelayStep ==
  ASSUME IInv, NEW c \in Conns, Relay(c)
  PROVE  IInv'
<1>1. /\ UNCHANGED <<roomVars, chatVars, connVars, clientVars, since>>
      /\ At(c, "relay") /\ "relay" \in Deed \ {"send", "cast"} /\ c \in Threads
  BY DEF Relay, Deed, Threads
<1>2. PICK d \in Conns : Then(c, IF d \in joined THEN <<Send(d, Plain)>> ELSE <<>>)
  BY <1>1, HeadJob DEF IInv, Job, Relay, At
<1>3. CASE d \in joined
  <2>1. Grows
    BY <1>1, GrowsSame DEF IInv, roomVars, chatVars
  <2>2. JobAt(Send(d, Plain), version', posted')
    BY <2>1, PlainFrame, SendJob
  <2> QED  BY <1>1, <1>2, <1>3, <2>2, OneQuiet
<1>4. CASE d \notin joined
  BY <1>1, <1>2, <1>4, NextJob DEF IInv, TypeOK, connVars
<1> QED  BY <1>3, <1>4

LEMMA PeerGoneStep ==
  ASSUME IInv, NEW c \in Conns, PeerGone(c)
  PROVE  IInv'
<1>1. Moves({}, {}) /\ Silent({}) /\ New({})
  BY IdleMoves DEF IInv, PeerGone, Silent, New
<1> QED  BY <1>1, Quiet DEF PeerGone, IInv, TypeOK

-----------------------------------------------------------------------------
(* Handlers that change the room and tell everybody *)

\* The broadcast may come anywhere in what is left to do.
LEMMA BroadcastThen ==
  ASSUME IInv, NEW t \in Threads, NEW what \in Deed \ {"send", "cast"}, At(t, what),
         NEW jobs \in Seq(Job), Then(t, jobs), New(Range(jobs)),
         NEW x \in Subjects, Change(x), TellsAll(Range(jobs), x), room' \in Room,
         \A u \in Users : room'.parts[u].conn \in {room.parts[u].conn, NoConn},
         UNCHANGED <<chatVars, connVars, clientVars, since>>
  PROVE  IInv'
<1>1. Moves({Head(work[t])}, Range(jobs)) /\ Silent({Head(work[t])})
  BY SilentMoves DEF IInv
<1>2. \A c \in Conns : Holds(c)' => Holds(c)
  BY RoomAssumption DEF Holds
<1> QED  BY <1>1, <1>2, Broadcast

\* A broadcast of some subjects to everybody tells of each of them.
LEMMA CastAll ==
  ASSUME Grows, NEW S \in SUBSET Subjects
  PROVE  /\ JobAt(Cast({}, About(S)), version', posted')
         /\ \A R : Cast({}, About(S)) \in R => \A x \in S : TellsAll(R, x)
<1>1. /\ FrameAt(About(S), version', posted')
      /\ About(S).facts = [s \in S |-> version'[s]]
  BY AboutFrame
<1>2. Cast({}, About(S)).do = "cast" /\ Cast({}, About(S)).who = {}
      /\ Cast({}, About(S)).frame = About(S)
  BY DEF Cast
<1>3. JobAt(Cast({}, About(S)), version', posted')
  BY <1>1, CastJob
<1>4. ASSUME NEW R, Cast({}, About(S)) \in R, NEW x \in S
      PROVE  TellsAll(R, x)
  <2>1. x \in DOMAIN About(S).facts /\ About(S).facts[x] = version'[x]
    BY <1>1
  <2> QED  BY <1>2, <1>4, <2>1 DEF TellsAll
<1> QED  BY <1>3, <1>4

LEMMA PlainCast ==
  ASSUME Grows
  PROVE  JobAt(Cast({}, Plain), version', posted')
  BY PlainFrame, CastJob

LEMMA LeaveStep ==
  ASSUME IInv, NEW t \in Threads, Leave(t)
  PROVE  IInv'
<1>1. /\ At(t, "leave") /\ "leave" \in Deed \ {"send", "cast"}
      /\ UNCHANGED <<chatVars, connVars, clientVars, since>>
  BY DEF Leave, Deed
<1>2. PICK c \in Conns :
        IF Holds(c)
          THEN /\ room' = Remove(room, UserOf[c])
               /\ Change(UserOf[c])
               /\ Then(t, <<Cast({}, Left(UserOf[c]))>>)
          ELSE NoChange /\ Then(t, <<>>)
  BY <1>1, HeadJob DEF IInv, Job, Leave, At
<1>3. CASE ~Holds(c)
  BY <1>1, <1>2, <1>3, NextJob DEF NoChange, connVars, IInv, TypeOK
<1>4. CASE Holds(c)
  <2> DEFINE u == UserOf[c]
             job == Cast({}, About({u, "lock"}))
  <2>1. u \in Users /\ u \in Subjects /\ {u, "lock"} \in SUBSET Subjects
    BY RoomAssumption DEF Subjects
  <2>2. room' = Remove(room, u) /\ Change(u) /\ Then(t, <<job>>)
    BY <1>2, <1>4 DEF Left
  <2>3. Grows
    BY <1>1, <2>1, <2>2, GrowsChange DEF IInv, chatVars
  <2>4. /\ JobAt(job, version', posted')
        /\ \A R : job \in R => \A x \in {u, "lock"} : TellsAll(R, x)
    BY <2>1, <2>3, CastAll
  <2>5. /\ room' \in Room
        /\ \A v \in Users : room'.parts[v].conn \in {room.parts[v].conn, NoConn}
    <3>1. room \in Room
      BY DEF IInv, TypeOK
    <3>2. room' \in Room
      BY <2>1, <2>2, <3>1, RemoveType
    <3>3. \A v \in Users : room'.parts[v] = IF v = u THEN Absent ELSE room.parts[v]
      BY <2>1, <2>2, <3>1 DEF Remove, Room
    <3> QED  BY <3>2, <3>3 DEF Absent
  <2> HIDE DEF u, job
  <2>6. <<job>> \in Seq(Job) /\ Range(<<job>>) = {job}
    BY <2>4, OneJob DEF JobAt
  <2>7. New(Range(<<job>>)) /\ TellsAll(Range(<<job>>), u)
    BY <2>4, <2>6 DEF New
  <2> QED  BY <1>1, <2>1, <2>2, <2>5, <2>6, <2>7, BroadcastThen
<1> QED  BY <1>3, <1>4

LEMMA MuteStep ==
  ASSUME IInv, NEW c \in Conns, Mute(c)
  PROVE  IInv'
<1> DEFINE u == UserOf[c]
           job == Cast({}, About({u}))
           plain == Cast({}, Plain)
           jobs == <<plain, job>>
<1>1. /\ At(c, "mute") /\ "mute" \in Deed \ {"send", "cast"} /\ c \in Threads
      /\ Change(u) /\ Then(c, jobs)
      /\ UNCHANGED <<chatVars, connVars, clientVars, since>>
  BY DEF Mute, Deed, Threads
<1>2. u \in Users /\ u \in Subjects /\ {u} \in SUBSET Subjects
  BY RoomAssumption DEF Subjects
<1>3. Grows
  BY <1>1, <1>2, GrowsChange DEF IInv, chatVars
<1>4. /\ room' \in Room
      /\ \A v \in Users : room'.parts[v].conn \in {room.parts[v].conn, NoConn}
  <2>1. PICK muted \in BOOLEAN : room' = SetMuted(room, u, muted)
    BY DEF Mute
  <2>2. room \in Room
    BY DEF IInv, TypeOK
  <2>3. room.parts[u] \in Participant
    BY <1>2, <2>2 DEF Room
  <2> DEFINE p == [room.parts[u] EXCEPT !.muted = muted,
                                        !.speaking = room.parts[u].speaking /\ ~muted]
  <2>4. p \in Participant /\ p.conn = room.parts[u].conn
    BY <2>3 DEF Participant
  <2>5. room' = [room EXCEPT !.parts[u] = p]
    BY <2>1 DEF SetMuted
  <2> HIDE DEF p
  <2>6. room' \in Room
    BY <1>2, <2>2, <2>4, <2>5, PutType
  <2>7. \A v \in Users : room'.parts[v] = IF v = u THEN p ELSE room.parts[v]
    BY <1>2, <2>2, <2>5 DEF Room
  <2> QED  BY <2>4, <2>6, <2>7
<1>5. /\ JobAt(job, version', posted') /\ JobAt(plain, version', posted')
      /\ \A R : job \in R => \A x \in {u} : TellsAll(R, x)
  BY <1>2, <1>3, CastAll, PlainCast
<1>6. jobs \in Seq(Job) /\ Range(jobs) = {plain, job}
  BY <1>5, TwoJobs DEF JobAt
<1> HIDE DEF u, job, plain, jobs
<1>7. New(Range(jobs)) /\ TellsAll(Range(jobs), u)
  BY <1>5, <1>6 DEF New
<1> QED  BY <1>1, <1>2, <1>4, <1>6, <1>7, BroadcastThen

LEMMA LockStep ==
  ASSUME IInv, NEW c \in Conns, Lock(c)
  PROVE  IInv'
<1> DEFINE job == Cast({}, About({"lock"}))
<1>1. /\ At(c, "lock") /\ "lock" \in Deed \ {"send", "cast"} /\ c \in Threads
      /\ Change("lock") /\ Then(c, <<job>>)
      /\ UNCHANGED <<chatVars, connVars, clientVars, since>>
  BY DEF Lock, Deed, Threads
<1>2. "lock" \in Subjects
  BY DEF Subjects
<1>3. Grows
  BY <1>1, <1>2, GrowsChange DEF IInv, chatVars
<1>4. /\ room' \in Room
      /\ \A v \in Users : room'.parts[v].conn \in {room.parts[v].conn, NoConn}
  BY DEF Lock, SetLocked, IInv, TypeOK, Room
<1>5. /\ JobAt(job, version', posted')
      /\ \A R : job \in R => \A x \in {"lock"} : TellsAll(R, x)
  BY <1>2, <1>3, CastAll
<1> HIDE DEF job
<1>6. <<job>> \in Seq(Job) /\ Range(<<job>>) = {job}
  BY <1>5, OneJob DEF JobAt
<1>7. New(Range(<<job>>)) /\ TellsAll(Range(<<job>>), "lock")
  BY <1>5, <1>6 DEF New
<1> QED  BY <1>1, <1>2, <1>4, <1>6, <1>7, BroadcastThen

LEMMA ModerateTargetStep ==
  ASSUME IInv, NEW c \in Conns, ModerateTarget(c)
  PROVE  IInv'
<1>1. /\ At(c, "moderate") /\ "moderate" \in Deed \ {"send", "cast"} /\ c \in Threads
      /\ UNCHANGED <<chatVars, connVars, clientVars, since>>
  BY DEF ModerateTarget, Deed, Threads
<1>2. PICK target \in Users, action \in ModerationAction \ {"kick"} :
        /\ room' = Moderate(room, target, action)
        /\ Change(target)
        /\ Then(c, <<Cast({}, About({target}))>>
                     \o IF action = "allow" THEN <<>>
                        ELSE <<Cast({}, Plain), Cast({}, Plain)>>)
  BY DEF ModerateTarget
<1> DEFINE job == Cast({}, About({target}))
           plain == Cast({}, Plain)
           rest == IF action = "allow" THEN <<>> ELSE <<plain, plain>>
           jobs == <<job>> \o rest
<1>3. target \in Subjects /\ {target} \in SUBSET Subjects
  BY DEF Subjects
<1>4. Grows
  BY <1>1, <1>2, <1>3, GrowsChange DEF IInv, chatVars
<1>5. /\ room' \in Room
      /\ \A v \in Users : room'.parts[v].conn \in {room.parts[v].conn, NoConn}
  <2>1. room \in Room
    BY DEF IInv, TypeOK
  <2>2. room.parts[target] \in Participant
    BY <2>1 DEF Room
  <2>3. PICK p \in Participant : /\ p.conn = room.parts[target].conn
                                 /\ room' = [room EXCEPT !.parts[target] = p]
    BY <1>2, <2>2 DEF Moderate, ModerationAction, Participant
  <2>4. room' \in Room
    BY <2>1, <2>3, PutType
  <2>5. \A v \in Users : room'.parts[v] = IF v = target THEN p ELSE room.parts[v]
    BY <2>1, <2>3 DEF Room
  <2> QED  BY <2>3, <2>4, <2>5
<1>6. /\ JobAt(job, version', posted') /\ JobAt(plain, version', posted')
      /\ \A R : job \in R => \A x \in {target} : TellsAll(R, x)
  BY <1>3, <1>4, CastAll, PlainCast
<1>7. /\ <<job>> \in Seq(Job) /\ Range(<<job>>) = {job}
      /\ <<plain, plain>> \in Seq(Job) /\ Range(<<plain, plain>>) = {plain}
  BY <1>6, OneJob, TwoJobs DEF JobAt
<1>8. rest \in Seq(Job) /\ Range(rest) \subseteq {plain}
  BY <1>7, NoJobs
<1> HIDE DEF job, plain
<1>9. jobs \in Seq(Job) /\ Range(jobs) \subseteq {job, plain} /\ job \in Range(jobs)
  <2> HIDE DEF rest
  <2> QED  BY <1>7, <1>8, BothLists
<1>10. Then(c, jobs)
  BY <1>2 DEF job, plain
<1> HIDE DEF jobs
<1>11. New(Range(jobs)) /\ TellsAll(Range(jobs), target)
  BY <1>6, <1>9 DEF New
<1> QED  BY <1>1, <1>2, <1>3, <1>5, <1>9, <1>10, <1>11, BroadcastThen

LEMMA KickStep ==
  ASSUME IInv, NEW c \in Conns, Kick(c)
  PROVE  IInv'
<1>1. /\ At(c, "moderate") /\ "moderate" \in Deed \ {"send", "cast"} /\ c \in Threads
      /\ UNCHANGED <<chatVars, connVars, clientVars, since>>
  BY DEF Kick, Deed, Threads
<1>2. PICK target \in Users :
        LET d == room.parts[target].conn IN
        /\ MayModerate(room, UserOf[c], target)
        /\ room' = Moderate(room, target, "kick")
        /\ Change(target)
        /\ Then(c, <<With("retire", {d}), With("close", {d}), Cast({}, Left(target))>>)
  BY DEF Kick
<1> DEFINE d == room.parts[target].conn
           first == With("retire", {d})
           second == With("close", {d})
           job == Cast({}, About({target, "lock"}))
           jobs == <<first, second, job>>
<1>3. target \in Subjects /\ {target, "lock"} \in SUBSET Subjects
  BY DEF Subjects
<1>4. Grows
  BY <1>1, <1>2, <1>3, GrowsChange DEF IInv, chatVars
<1>5. d \in Conns
  BY <1>2 DEF MayModerate, Inside, IInv, TypeOK, Room, Participant
<1>6. /\ room' \in Room
      /\ \A v \in Users : room'.parts[v].conn \in {room.parts[v].conn, NoConn}
  <2>1. room \in Room
    BY DEF IInv, TypeOK
  <2>2. PICK q \in Room : q = Remove(room, target)
    BY <2>1, RemoveType
  <2>3. room' = [q EXCEPT !.cooldown = @ \cup {target}]
    BY <1>2, <2>2 DEF Moderate
  <2>4. room' \in Room /\ room'.parts = q.parts
    BY <2>2, <2>3 DEF Room
  <2>5. \A v \in Users : q.parts[v].conn \in {room.parts[v].conn, NoConn}
    BY <2>1, <2>2 DEF Remove, Room, Absent
  <2> QED  BY <2>4, <2>5
<1>7. /\ JobAt(first, version', posted') /\ JobAt(second, version', posted')
      /\ JobAt(job, version', posted')
      /\ \A R : job \in R => \A x \in {target, "lock"} : TellsAll(R, x)
  BY <1>3, <1>4, <1>5, CastAll, QuietJob DEF Deed
<1>8. jobs \in Seq(Job) /\ Range(jobs) = {first, second, job}
  BY <1>7, ThreeJobs DEF JobAt
<1>9. Then(c, jobs)
  BY <1>2 DEF Left
<1> HIDE DEF first, second, job, jobs, d
<1>10. New(Range(jobs)) /\ TellsAll(Range(jobs), target)
  BY <1>7, <1>8 DEF New
<1> QED  BY <1>1, <1>2, <1>3, <1>6, <1>8, <1>9, <1>10, BroadcastThen

-----------------------------------------------------------------------------
(* A chat message *)

LEMMA WiderSeq ==
  ASSUME NEW S, NEW T, S \subseteq T, NEW s \in Seq(S)
  PROVE  s \in Seq(T)
<1>1. /\ Len(s) \in Nat /\ DOMAIN s = 1..Len(s) /\ s = [i \in 1..Len(s) |-> s[i]]
      /\ \A i \in 1..Len(s) : s[i] \in T
  BY LenProperties, ElementOfSeq
<1> QED  BY <1>1, IsASeq

\* The history stays the latest messages.
LEMMA KeptOK ==
  ASSUME TypeOK, HistoryOK, posted' = posted + 1,
         history' = Kept(Append(history, posted'))
  PROVE  history' \in Seq(1..posted') /\ Len(history') <= HistoryLimit /\ HistoryOK'
<1> DEFINE all == Append(history, posted')
<1>1. /\ posted \in Nat /\ HistoryLimit \in Nat
      /\ history \in Seq(1..posted) /\ Len(history) \in Nat
  BY FeedAssumption, LenProperties DEF TypeOK
<1>2. history \in Seq(1..posted') /\ posted' \in 1..posted'
  <2>1. 1..posted \subseteq 1..posted' /\ posted' \in 1..posted'
    BY <1>1
  <2> QED  BY <1>1, <2>1, WiderSeq
<1>3. /\ all \in Seq(1..posted') /\ Len(all) = Len(history) + 1 /\ all # <<>>
      /\ \A i \in 1..Len(history) : all[i] = history[i]
      /\ all[Len(history) + 1] = posted'
  <2> DEFINE S == 1..posted'
  <2>1. history \in Seq(S) /\ posted' \in S
    BY <1>2
  <2> HIDE DEF S
  <2>2. /\ all \in Seq(S) /\ Len(all) = Len(history) + 1 /\ all # <<>>
        /\ \A i \in 1..Len(history) : all[i] = history[i]
        /\ all[Len(history) + 1] = posted'
    BY <2>1, AppendProperties
  <2> QED  BY <2>2 DEF S
<1>4. /\ Len(history) = IF posted < HistoryLimit THEN posted ELSE HistoryLimit
      /\ \A i \in 1..Len(history) : history[i] = posted - Len(history) + i
  BY DEF HistoryOK
<1> HIDE DEF all
<1>5. ASSUME NEW i \in 1..Len(all)
      PROVE  all[i] = posted - Len(history) + i
  <2>1. CASE i \in 1..Len(history)
    BY <1>3, <1>4, <2>1
  <2>2. CASE i = Len(history) + 1
    <3>1. all[i] = posted + 1
      BY <1>3, <2>2
    <3> QED  BY <1>1, <2>2, <3>1
  <2> QED  BY <1>1, <1>3, <2>1, <2>2
<1>6. CASE Len(all) > HistoryLimit
  <2>1. history' = Tail(all)
    BY <1>6 DEF Kept, all
  <2>2. /\ history' \in Seq(1..posted') /\ Len(history') = Len(all) - 1
        /\ \A i \in 1..Len(history') : history'[i] = all[i + 1]
    <3> DEFINE S == 1..posted'
    <3>1. all \in Seq(S) /\ all # <<>>
      BY <1>3
    <3> HIDE DEF S
    <3>2. /\ Tail(all) \in Seq(S) /\ Len(Tail(all)) = Len(all) - 1
          /\ \A i \in 1..Len(Tail(all)) : Tail(all)[i] = all[i + 1]
      BY <3>1, HeadTailProperties
    <3> QED  BY <2>1, <3>2 DEF S
  <2>3. Len(history') = HistoryLimit /\ Len(history) = HistoryLimit /\ posted >= HistoryLimit
    BY <1>1, <1>3, <1>4, <1>6, <2>2
  <2>4. \A i \in 1..Len(history') : history'[i] = posted' - Len(history') + i
    <3> SUFFICES ASSUME NEW i \in 1..Len(history')
                 PROVE  history'[i] = posted' - Len(history') + i
      OBVIOUS
    <3>1. i \in Nat /\ i + 1 \in 1..Len(all)
      BY <1>1, <1>3, <2>2, <2>3
    <3>2. history'[i] = posted - Len(history) + (i + 1)
      BY <1>5, <2>2, <3>1
    <3> QED  BY <1>1, <2>3, <3>1, <3>2
  <2> QED  BY <1>1, <2>2, <2>3, <2>4 DEF HistoryOK
<1>7. CASE Len(all) <= HistoryLimit
  <2>1. history' = all
    BY <1>1, <1>3, <1>7 DEF Kept, all
  <2>2. Len(history) = posted /\ Len(history') = posted' /\ posted' <= HistoryLimit
    BY <1>1, <1>3, <1>4, <1>7, <2>1
  <2>3. \A i \in 1..Len(history') : history'[i] = posted' - Len(history') + i
    BY <1>1, <1>3, <1>5, <2>1, <2>2
  <2> QED  BY <1>1, <1>3, <2>1, <2>2, <2>3 DEF HistoryOK
<1> QED  BY <1>1, <1>3, <1>6, <1>7

LEMMA PostStep ==
  ASSUME IInv, NEW c \in Conns, Post(c)
  PROVE  IInv'
<1> DEFINE job == Cast({}, Chat({posted'}))
           D == {Head(work[c])}
           R == Range(<<job>>)
<1>1. /\ At(c, "chat") /\ "chat" \in Deed \ {"send", "cast"} /\ c \in Threads
      /\ posted < MaxPosts /\ posted' = posted + 1
      /\ history' = Kept(Append(history, posted')) /\ Then(c, <<job>>)
      /\ UNCHANGED <<roomVars, connVars, clientVars, since>>
  BY DEF Post, NoChange, Deed, Threads
<1>2. Grows /\ posted \in Nat
  BY <1>1, FeedAssumption DEF Grows, IInv, TypeOK, roomVars
<1>3. JobAt(job, version', posted')
  <2>1. {posted'} \in SUBSET (1..posted')
    BY <1>1, <1>2
  <2> QED  BY <1>2, <2>1, ChatFrame, CastJob
<1>4. (\A d : Brings(job, d)) /\ job.frame.chat = {posted'}
  BY DEF Brings, Cast, Chat
<1> HIDE DEF job
<1>5. <<job>> \in Seq(Job) /\ R = {job}
  BY <1>3, OneJob DEF JobAt
<1>6. Moves(D, R) /\ Silent(D) /\ New(R)
  BY <1>1, <1>3, <1>5, SilentMoves DEF New, IInv
<1> HIDE DEF D, R
<1>7. history' \in Seq(1..posted') /\ Len(history') <= HistoryLimit /\ HistoryOK'
  BY <1>1, KeptOK DEF IInv
<1>8. TypeOK'
  <2>1. (\A job_ \in Pending : IsJob(job_))'
    BY <1>2, <1>6, JobsTyped DEF IInv
  <2>2. 1..posted \subseteq 1..posted' /\ 0..posted \subseteq 0..posted'
    BY <1>1, <1>2
  <2>3. got' \in [Conns -> SUBSET (1..posted')] /\ since' \in [Conns -> 0..posted']
    BY <1>1, <2>2 DEF IInv, TypeOK, clientVars
  <2> QED  BY <1>1, <1>2, <1>7, <2>1, <2>3
           DEF IInv, TypeOK, Grows, roomVars, connVars, clientVars
<1>9. WorkOK' /\ HeardOK'
  BY <1>1, <1>6 DEF IInv, Moves, HeardOK, roomVars, clientVars
<1>10. /\ \A d \in Conns : Listening(d)' => Listening(d)
       /\ \A d \in Conns : ComingTo(d) \subseteq ComingTo(d)'
  BY <1>1, <1>6, KeepsComing DEF Listening, Holds, roomVars, connVars
<1>11. Told'
  <2> SUFFICES ASSUME NEW d \in Conns, Listening(d)', NEW s \in Subjects
               PROVE  Informed(d, s)'
    BY DEF Told, Informed
  <2>1. Informed(d, s)
    BY <1>10 DEF IInv, Told, Informed
  <2> QED  BY <1>1, <1>10, <2>1, StaysInformed DEF roomVars, clientVars
<1>12. ChatTold'
  <2> SUFFICES ASSUME NEW d \in Conns, Listening(d)', NEW m \in 1..posted',
                      m + HistoryLimit > since'[d]
               PROVE  Served(d, m)'
    BY DEF ChatTold, Served
  <2>1. CASE m = posted'
    <3>1. job.frame \in ComingTo(d)'
      BY <1>4, <1>5, <1>6, NewComing
    <3> QED  BY <1>4, <2>1, <3>1 DEF Served
  <2>2. CASE m # posted'
    <3>1. m \in 1..posted
      BY <1>1, <1>2, <2>2
    <3>2. Served(d, m)
      BY <1>1, <1>10, <3>1 DEF IInv, ChatTold, Served
    <3> QED  BY <1>1, <1>10, <3>2, StaysServed DEF clientVars
  <2> QED  BY <2>1, <2>2
<1> QED  BY <1>7, <1>8, <1>9, <1>11, <1>12 DEF IInv

-----------------------------------------------------------------------------
(* Sending *)

\* A broadcast is aimed at everybody who holds a place in the room by now.
LEMMA AimStep ==
  ASSUME IInv, NEW t \in Threads, Aim(t)
  PROVE  IInv'
<1> DEFINE job == Head(work[t])
           aimed == [job EXCEPT !.do = "send", !.who = Targets(job.who)]
           jobs == IF Targets(job.who) = {} THEN <<>> ELSE <<aimed>>
<1>1. /\ work[t] # <<>> /\ job.do = "cast" /\ Then(t, jobs)
      /\ UNCHANGED <<roomVars, chatVars, connVars, clientVars, since>>
  BY DEF Aim, At
<1>2. Grows
  BY <1>1, GrowsSame DEF IInv, roomVars, chatVars
<1>3. job \in Job /\ job \in Pending
  BY <1>1, HeadJob DEF IInv
<1>4. Targets(job.who) \in SUBSET Conns
  BY DEF Targets, Connections, Members, Inside, IInv, TypeOK, Room, Participant
<1>5. /\ aimed.do = "send" /\ aimed.who = Targets(job.who) /\ aimed.frame = job.frame
      /\ JobAt(aimed, version', posted')
  <2>1. IsJob(job) /\ version' = version /\ posted' = posted
    BY <1>1, <1>3 DEF IInv, TypeOK, roomVars, chatVars
  <2>2. aimed \in Job
    BY <1>3, <1>4 DEF Job, Deed
  <2>3. aimed.do = "send" /\ aimed.who = Targets(job.who) /\ aimed.frame = job.frame
    BY <1>3 DEF Job
  <2>4. FrameAt(job.frame, version, posted)
    BY <1>3, <2>1 DEF FrameAt, IsJob, IsFrame, Job
  <2> QED  BY <2>1, <2>2, <2>3, <2>4 DEF JobAt
<1>6. /\ \A d \in Conns : Holds(d) => d \in Connections(room)
      /\ \A d \in Conns : Holds(d) /\ d \notin job.who => d \in Targets(job.who)
  BY RoomAssumption DEF Holds, Connections, Members, Inside, Targets
<1> HIDE DEF aimed, job
<1>7. /\ jobs \in Seq(Job)
      /\ Range(jobs) = IF Targets(job.who) = {} THEN {} ELSE {aimed}
  BY <1>5, NoJobs, OneJob DEF JobAt
<1>8. New(Range(jobs))
  BY <1>5, <1>7 DEF New
<1> HIDE DEF jobs
<1>9. Moves({job}, Range(jobs))
  BY <1>1, <1>7, ThenMoves DEF IInv, job
<1>10. ASSUME NEW d \in Conns, Listening(d), NEW f \in ComingTo(d)
       PROVE  f \in ComingTo(d)'
  <2>1. PICK other \in Pending : Brings(other, d) /\ f = other.frame
    BY <1>10 DEF ComingTo
  <2>2. CASE other # job
    BY <1>9, <2>1, <2>2 DEF ComingTo, Moves
  <2>3. CASE other = job
    <3>1. d \in Targets(job.who)
      BY <1>1, <1>6, <1>10, <2>1, <2>3 DEF Brings, Listening
    <3>2. aimed \in Range(jobs) /\ Brings(aimed, d)
      BY <1>5, <1>7, <3>1 DEF Brings
    <3>3. aimed.frame \in ComingTo(d)'
      BY <1>9, <3>2, NewComing
    <3> QED  BY <1>5, <2>1, <2>3, <3>3
  <2> QED  BY <2>2, <2>3
<1>11. UNCHANGED <<heard, got>> /\ announced' \subseteq Conns
  BY <1>1 DEF clientVars, IInv, TypeOK
<1> QED  BY <1>1, <1>8, <1>9, <1>10, <1>11, Unaltered DEF IInv, TypeOK, connVars

\* What is coming to d after a frame went to c: to the others all that was, and
\* to c all but this one frame.
LEMMA DeliverMoves ==
  ASSUME IInv, NEW t \in Threads, At(t, "send"), NEW c \in Head(work[t]).who,
         Then(t, IF Head(work[t]).who = {c} THEN <<>>
                 ELSE <<[Head(work[t]) EXCEPT !.who = @ \ {c}]>>),
         UNCHANGED <<version, changes, posted>>
  PROVE  /\ c \in Conns /\ FrameAt(Head(work[t]).frame, version, posted)
         /\ WorkOK' /\ (\A job \in Pending : IsJob(job))'
         /\ \A d \in Conns \ {c} : ComingTo(d) \subseteq ComingTo(d)'
         /\ ComingTo(c) \ {Head(work[t]).frame} \subseteq ComingTo(c)'
<1> DEFINE job == Head(work[t])
           rest == [job EXCEPT !.who = @ \ {c}]
           jobs == IF job.who = {c} THEN <<>> ELSE <<rest>>
<1>1. Grows
  BY GrowsSame DEF IInv
<1>2. job \in Job /\ job \in Pending /\ job.do = "send"
  BY HeadJob DEF IInv, At
<1>3. FrameAt(job.frame, version, posted) /\ c \in Conns
  <2>1. IsJob(job)
    BY <1>2 DEF IInv, TypeOK
  <2> QED  BY <1>2, <2>1 DEF FrameAt, IsJob, IsFrame, Job
<1>4. /\ rest.do = "send" /\ rest.who = job.who \ {c} /\ rest.frame = job.frame
      /\ JobAt(rest, version', posted')
  BY <1>2, <1>3 DEF JobAt, Job
<1>5. Then(t, jobs)
  OBVIOUS
<1> HIDE DEF rest, job
<1>6. /\ jobs \in Seq(Job)
      /\ Range(jobs) = IF job.who = {c} THEN {} ELSE {rest}
  BY <1>4, NoJobs, OneJob DEF JobAt
<1>7. New(Range(jobs))
  BY <1>4, <1>6 DEF New
<1> HIDE DEF jobs
<1>8. Moves({job}, Range(jobs))
  BY <1>5, <1>6, ThenMoves DEF IInv, job, At
<1>9. ASSUME NEW d \in Conns, NEW f \in ComingTo(d), d # c \/ f # job.frame
      PROVE  f \in ComingTo(d)'
  <2>1. PICK other \in Pending : Brings(other, d) /\ f = other.frame
    BY DEF ComingTo
  <2>2. CASE other # job
    BY <1>8, <2>1, <2>2 DEF ComingTo, Moves
  <2>3. CASE other = job
    <3>1. d \in job.who /\ d # c
      BY <1>2, <1>9, <2>1, <2>3 DEF Brings
    <3>2. rest \in Range(jobs) /\ Brings(rest, d)
      BY <1>4, <1>6, <3>1 DEF Brings
    <3>3. rest.frame \in ComingTo(d)'
      BY <1>8, <3>2, NewComing
    <3> QED  BY <1>4, <2>1, <2>3, <3>3
  <2> QED  BY <2>2, <2>3
<1>10. WorkOK' /\ (\A job_ \in Pending : IsJob(job_))'
  BY <1>1, <1>7, <1>8, JobsTyped DEF IInv, Moves
<1> QED  BY <1>3, <1>9, <1>10 DEF job


\* Nothing is taken in by a client whose socket is closing or whose peer is gone.
LEMMA DeliverStep ==
  ASSUME IInv, NEW t \in Threads, Deliver(t)
  PROVE  IInv'
<1> DEFINE job == Head(work[t])
           f == job.frame
<1>1. PICK c \in job.who :
        /\ Sent(c, f)
        /\ Then(t, IF job.who = {c} THEN <<>> ELSE <<[job EXCEPT !.who = @ \ {c}]>>)
  BY DEF Deliver
<1>2. /\ At(t, "send")
      /\ UNCHANGED <<roomVars, chatVars, joined, gone, registry, reading, since>>
  BY DEF Deliver
<1>3. /\ c \in Conns /\ FrameAt(f, version, posted)
      /\ WorkOK' /\ (\A j \in Pending : IsJob(j))'
      /\ \A d \in Conns \ {c} : ComingTo(d) \subseteq ComingTo(d)'
      /\ ComingTo(c) \ {f} \subseteq ComingTo(c)'
  BY <1>1, <1>2, DeliverMoves DEF roomVars, chatVars
<1>4. /\ closing \subseteq closing' /\ closing' \subseteq Conns
      /\ heard \in [Conns -> [Subjects -> 0..changes]]
      /\ got \in [Conns -> SUBSET (1..posted)]
      /\ version \in [Subjects -> 0..changes] /\ changes \in Nat
  BY <1>1, <1>3, FeedAssumption DEF Sent, IInv, TypeOK
<1> HIDE DEF job, f
<1>5. \A d \in Conns : Listening(d)' => Listening(d)
  BY <1>2, <1>4 DEF Listening, Holds, roomVars
<1>6. /\ \A d \in Conns \ {c} : heard'[d] = heard[d] /\ got'[d] = got[d]
      /\ heard' \in [Conns -> [Subjects -> 0..changes]]
      /\ got' \in [Conns -> SUBSET (1..posted)] /\ announced' \subseteq Conns
      /\ \A s \in Subjects :
           heard'[c][s] = IF c \notin closing \cup gone /\ s \in DOMAIN f.facts
                            THEN Later(heard[c][s], f.facts[s]) ELSE heard[c][s]
      /\ got'[c] = IF c \notin closing \cup gone THEN got[c] \cup f.chat ELSE got[c]
  <2>1. CASE c \in closing \cup gone
    BY <1>1, <1>4, <2>1 DEF Sent, clientVars, IInv, TypeOK
  <2>2. CASE c \notin closing \cup gone
    <3> DEFINE told == [s \in Subjects |-> IF s \in DOMAIN f.facts
                                             THEN Later(heard[c][s], f.facts[s])
                                             ELSE heard[c][s]]
    <3>1. /\ heard' = [heard EXCEPT ![c] = told]
          /\ got' = [got EXCEPT ![c] = @ \cup f.chat]
          /\ announced' = announced \cup f.news
      BY <1>1, <2>2 DEF Sent, Receive
    <3>2. told \in [Subjects -> 0..changes]
      <4> SUFFICES ASSUME NEW s \in Subjects
                   PROVE  told[s] \in 0..changes
        OBVIOUS
      <4>1. heard[c][s] \in 0..changes /\ version[s] \in 0..changes
        BY <1>3, <1>4
      <4>2. s \in DOMAIN f.facts => f.facts[s] \in Nat /\ f.facts[s] <= version[s]
        BY <1>3 DEF FrameAt, Frame
      <4> QED  BY <1>4, <4>1, <4>2 DEF Later
    <3>3. \A s \in Subjects :
            told[s] = IF s \in DOMAIN f.facts THEN Later(heard[c][s], f.facts[s])
                      ELSE heard[c][s]
      OBVIOUS
    <3> HIDE DEF told
    <3>4. f.chat \subseteq 1..posted /\ f.news \subseteq Conns /\ announced \subseteq Conns
      BY <1>3 DEF FrameAt, IInv, TypeOK
    <3>5. /\ heard' \in [Conns -> [Subjects -> 0..changes]] /\ heard'[c] = told
          /\ got' \in [Conns -> SUBSET (1..posted)] /\ got'[c] = got[c] \cup f.chat
          /\ \A d \in Conns \ {c} : heard'[d] = heard[d] /\ got'[d] = got[d]
      BY <1>3, <1>4, <3>1, <3>2, <3>4
    <3> QED  BY <2>2, <3>1, <3>3, <3>4, <3>5
  <2> QED  BY <2>1, <2>2
<1>7. TypeOK'
  BY <1>2, <1>3, <1>4, <1>6 DEF IInv, TypeOK, roomVars, chatVars
<1>8. \A s \in Subjects :
        /\ heard[c][s] \in Nat /\ version[s] \in Nat /\ heard[c][s] <= version[s]
        /\ s \in DOMAIN f.facts => f.facts[s] \in Nat /\ f.facts[s] <= version[s]
  BY <1>3, <1>4 DEF IInv, HeardOK, FrameAt, Frame
<1>9. HeardOK' /\ HistoryOK'
  <2>1. ASSUME NEW d \in Conns, NEW s \in Subjects
        PROVE  heard'[d][s] <= version[s]
    BY <1>6, <1>8 DEF IInv, HeardOK, Later
  <2> QED  BY <1>2, <2>1 DEF HeardOK, HistoryOK, IInv, roomVars, chatVars
<1>10. Told'
  <2> SUFFICES ASSUME NEW d \in Conns, Listening(d)', NEW s \in Subjects
               PROVE  Informed(d, s)'
    BY DEF Told, Informed
  <2>1. Informed(d, s) /\ version' = version
    BY <1>2, <1>5 DEF IInv, Told, Informed, roomVars
  <2>2. CASE d # c
    BY <1>3, <1>6, <2>1, <2>2, StaysInformed
  <2>3. CASE d = c
    <3>1. c \notin closing \cup gone
      BY <1>5, <2>3 DEF Listening
    <3>2. CASE heard[c][s] = version[s]
      BY <1>6, <1>8, <2>1, <2>3, <3>2 DEF Informed, Later
    <3>3. CASE s \in DOMAIN f.facts /\ f.facts[s] = version[s]
      BY <1>6, <1>8, <2>1, <2>3, <3>1, <3>3 DEF Informed, Later
    <3>4. ASSUME NEW g \in ComingTo(c) \ {f},
                 s \in DOMAIN g.facts, g.facts[s] = version[s]
          PROVE  Informed(c, s)'
      BY <1>3, <2>1, <3>4 DEF Informed
    <3> QED  BY <2>1, <2>3, <3>2, <3>3, <3>4 DEF Informed
  <2> QED  BY <2>2, <2>3
<1>11. ChatTold'
  <2> SUFFICES ASSUME NEW d \in Conns, Listening(d)', NEW m \in 1..posted',
                      m + HistoryLimit > since'[d]
               PROVE  Served(d, m)'
    BY DEF ChatTold, Served
  <2>1. Served(d, m)
    BY <1>2, <1>5 DEF IInv, ChatTold, Served, chatVars
  <2>2. CASE d # c
    BY <1>3, <1>6, <2>1, <2>2, StaysServed
  <2>3. CASE d = c
    <3>1. got'[c] = got[c] \cup f.chat
      BY <1>5, <1>6, <2>3 DEF Listening
    <3>2. CASE m \in got[c] \cup f.chat
      BY <2>3, <3>1, <3>2 DEF Served
    <3>3. ASSUME NEW g \in ComingTo(c) \ {f}, m \in g.chat
          PROVE  Served(c, m)'
      BY <1>3, <3>3 DEF Served
    <3> QED  BY <2>1, <2>3, <3>2, <3>3 DEF Served
  <2> QED  BY <2>2, <2>3
<1> QED  BY <1>3, <1>7, <1>9, <1>10, <1>11 DEF IInv

-----------------------------------------------------------------------------
(* Theorems *)

LEMMA Initially ==
  ASSUME Init
  PROVE  IInv
<1>1. room \in Room
  BY NewRoomOK DEF Init
<1>2. Pending = {} /\ WorkOK
  <2>1. work \in [Threads -> Seq(Job)] /\ \A t \in Threads : Range(work[t]) = {}
    BY NoJobs DEF Init
  <2> QED  BY <2>1 DEF Pending, WorkOK
<1>3. history \in Seq(1..posted) /\ Len(history) = 0 /\ posted = 0 /\ changes = 0
  BY EmptySeq DEF Init
<1>4. TypeOK
  BY <1>1, <1>2, <1>3, FeedAssumption DEF Init, TypeOK
<1>5. HeardOK /\ HistoryOK
  BY <1>3, FeedAssumption DEF Init, HeardOK, HistoryOK
<1>6. Told /\ ChatTold
  BY DEF Init, Told, ChatTold
<1> QED  BY <1>2, <1>4, <1>5, <1>6 DEF IInv

LEMMA Stutter ==
  ASSUME IInv, UNCHANGED vars
  PROVE  IInv'
<1>1. Moves({}, {}) /\ Silent({}) /\ New({})
  BY IdleMoves DEF IInv, vars, Silent, New
<1> QED  BY <1>1, Quiet DEF vars, connVars, IInv, TypeOK

LEMMA HandlerStep ==
  ASSUME IInv, NEW c \in Conns, Handler(c)
  PROVE  IInv'
  BY JoinStep, RejoinStep, MuteStep, LockStep, ModerateTargetStep, KickStep, PostStep,
     SignalStep, RefusedStep, WelcomeStep, RelayStep DEF Handler

LEMMA EveryStep ==
  ASSUME IInv, [Next]_vars
  PROVE  IInv'
<1>1. ASSUME NEW c \in Conns,
             \/ ReadJoin(c) \/ ReadLeave(c)
             \/ \E what \in Requests : ReadMember(c, what)
             \/ Handler(c) \/ CleanUp(c) \/ Reap(c) \/ PeerGone(c)
      PROVE  IInv'
  BY <1>1, BeginStep, LeavingStep, HandlerStep, PeerGoneStep
<1>2. ASSUME NEW t \in Threads, Work(t)
      PROVE  IInv'
  BY <1>2, LeaveStep, RetireStep, CloseStep, AimStep, DeliverStep DEF Work
<1> QED  BY <1>1, <1>2, Stutter DEF Next

LEMMA FeedInvariant == Spec => []IInv
<1>1. Init => IInv
  BY Initially
<1>2. IInv /\ [Next]_vars => IInv'
  BY EveryStep
<1> QED  BY <1>1, <1>2, PTL DEF Spec

\* The rooms, the frames and what clients have heard are of their types: no
\* frame tells of a change or a chat message that has not happened.
THEOREM FeedTypeCorrect == Spec => []TypeOK
<1>1. IInv => TypeOK
  BY DEF IInv
<1> QED  BY <1>1, FeedInvariant, PTL

\* _broadcast, _handle_join and leave_room, whichever way they cross: whoever is
\* in the room has heard the latest of everybody in it and of the lock, or a
\* frame that tells it is on its way.
THEOREM EveryoneTold == Spec => []Told
<1>1. IInv => Told
  BY DEF IInv
<1> QED  BY <1>1, FeedInvariant, PTL

\* Room.history and the chat broadcasts leave no gap: a participant gets every
\* message from the oldest one kept as it joined.
THEOREM ChatReaches == Spec => []ChatTold
<1>1. IInv => ChatTold
  BY DEF IInv
<1> QED  BY <1>1, FeedInvariant, PTL

-----------------------------------------------------------------------------
(* Who can be signalled *)

\* The jobs a frame is read for: a section comes first, alone on its list.
Opening == {"join", "rejoin", "mute", "lock", "moderate", "chat", "signal"}

\* The order of the jobs on a thread's list: it announces nobody but its own
\* connection, and that after the flag is set; who is retired is closed next.
Shaped(w, t) ==
  /\ \A i \in 1..Len(w) :
       /\ w[i].frame.news \subseteq {t}
       /\ w[i].do \in Opening => Len(w) = 1
       /\ w[i].do = "leave" => \E c \in Conns : w[i].who = {c}
       /\ w[i].do = "retire" => /\ i + 1 <= Len(w) /\ w[i + 1].do = "close"
                                /\ w[i + 1].who = w[i].who
  /\ \A i, j \in 1..Len(w) :
       w[i].frame.news # {} /\ w[j].do = "welcome" => j < i

Welcoming(d) == \E job \in Range(work[d]) : job.do = "welcome"

\* Who has a place is joined, is about to be, or is being taken out; and nobody
\* has been told before it is joined.
Placed(d) ==
  /\ Holds(d) => d \in joined \/ Dismissed(d) \/ Welcoming(d)
  /\ Welcoming(d) => d \notin announced

Shapes == \A t \in Threads : Shaped(work[t], t)

RInv == Shapes /\ \A d \in Conns : Placed(d)

\* What the next list of a thread is made of.
LEMMA Goes ==
  ASSUME WorkOK, NEW t \in Threads, work[t] # <<>>, NEW S, NEW jobs \in Seq(S),
         Then(t, jobs)
  PROVE  /\ work' = [work EXCEPT ![t] = jobs \o Tail(work[t])]
         /\ jobs \o Tail(work[t]) \in Seq(S \cup Job)
         /\ Range(work'[t]) = Range(jobs) \cup Range(Tail(work[t]))
         /\ Range(work[t]) = {Head(work[t])} \cup Range(Tail(work[t]))
         /\ \A s \in Threads \ {t} : work'[s] = work[s]
<1>1. /\ work[t] \in Seq(Job) /\ work'[t] = jobs \o Tail(work[t])
      /\ work' = [work EXCEPT ![t] = jobs \o Tail(work[t])]
      /\ \A s \in Threads \ {t} : work'[s] = work[s]
  BY DEF WorkOK, Then
<1>2. /\ Tail(work[t]) \in Seq(Job) /\ Len(Tail(work[t])) = Len(work[t]) - 1
      /\ \A i \in 1..Len(Tail(work[t])) : Tail(work[t])[i] = work[t][i + 1]
      /\ Len(work[t]) \in Nat \ {0} /\ Head(work[t]) = work[t][1]
  BY <1>1, HeadTailProperties, LenProperties, EmptySeq
<1>3. jobs \in Seq(S \cup Job) /\ Tail(work[t]) \in Seq(S \cup Job)
  BY <1>2, WiderSeq
<1>4. /\ jobs \o Tail(work[t]) \in Seq(S \cup Job)
      /\ Range(jobs \o Tail(work[t])) = Range(jobs) \cup Range(Tail(work[t]))
  <2> DEFINE T == S \cup Job
  <2>1. jobs \in Seq(T) /\ Tail(work[t]) \in Seq(T)
    BY <1>3
  <2> HIDE DEF T
  <2>2. jobs \o Tail(work[t]) \in Seq(T)
        /\ Range(jobs \o Tail(work[t])) = Range(jobs) \cup Range(Tail(work[t]))
    BY <2>1, ConcatProperties, RangeConcatenation
  <2> QED  BY <2>2 DEF T
<1>5. Range(work[t]) = {Head(work[t])} \cup Range(Tail(work[t]))
  <2>1. /\ Range(work[t]) = {work[t][i] : i \in 1..Len(work[t])}
        /\ Range(Tail(work[t])) = {Tail(work[t])[i] : i \in 1..Len(Tail(work[t]))}
    <3>1. \A w \in Seq(Job) : Range(w) = {w[i] : i \in 1..Len(w)}
      BY RangeEquality
    <3> QED  BY <1>1, <1>2, <3>1
  <2>2. ASSUME NEW i \in 1..Len(work[t]), i # 1
        PROVE  work[t][i] \in Range(Tail(work[t]))
    <3>1. i - 1 \in 1..Len(Tail(work[t])) /\ Tail(work[t])[i - 1] = work[t][i]
      BY <1>2, <2>2
    <3> QED  BY <2>1, <3>1
  <2>3. \A i \in 1..Len(Tail(work[t])) : i + 1 \in 1..Len(work[t])
    BY <1>2
  <2> QED  BY <1>2, <2>1, <2>2, <2>3
<1> QED  BY <1>1, <1>4, <1>5

LEMMA TailShaped ==
  ASSUME NEW t, NEW w \in Seq(Job), w # <<>>, Shaped(w, t)
  PROVE  /\ Shaped(Tail(w), t)
         /\ \A i \in 1..Len(Tail(w)) : Tail(w)[i].do \notin Opening
         /\ Head(w).do \in Opening => Tail(w) = <<>>
         /\ Head(w).frame.news # {} =>
              \A i \in 1..Len(Tail(w)) : Tail(w)[i].do # "welcome"
<1> DEFINE r == Tail(w)
<1>1. /\ r \in Seq(Job) /\ Len(r) = Len(w) - 1 /\ Len(w) \in Nat \ {0}
      /\ \A i \in 1..Len(r) : r[i] = w[i + 1]
      /\ Head(w) = w[1]
  BY HeadTailProperties, LenProperties, EmptySeq
<1> HIDE DEF r
<1>2. \A i \in 1..Len(r) : i + 1 \in 1..Len(w) /\ r[i] = w[i + 1]
  BY <1>1
<1>3. \A i \in 1..Len(r) : r[i].do \notin Opening
  <2> SUFFICES ASSUME NEW i \in 1..Len(r), r[i].do \in Opening
               PROVE  FALSE
    OBVIOUS
  <2>1. w[i + 1].do \in Opening /\ i + 1 \in 1..Len(w)
    BY <1>2
  <2>2. Len(w) = 1
    BY <2>1 DEF Shaped
  <2> QED  BY <2>1, <2>2
<1>4. Shaped(r, t)
  <2>1. ASSUME NEW i \in 1..Len(r)
        PROVE  /\ r[i].frame.news \subseteq {t}
               /\ r[i].do = "leave" => \E c \in Conns : r[i].who = {c}
    BY <1>2 DEF Shaped
  <2>2. ASSUME NEW i \in 1..Len(r), r[i].do = "retire"
        PROVE  i + 1 <= Len(r) /\ r[i + 1].do = "close" /\ r[i + 1].who = r[i].who
    <3>1. i + 1 \in 1..Len(w) /\ w[i + 1].do = "retire" /\ r[i] = w[i + 1]
      BY <1>2, <2>2
    <3>2. (i + 1) + 1 <= Len(w) /\ w[(i + 1) + 1].do = "close"
          /\ w[(i + 1) + 1].who = w[i + 1].who
      BY <3>1 DEF Shaped
    <3>3. i + 1 <= Len(r)
      BY <1>1, <3>1, <3>2
    <3>4. r[i + 1] = w[(i + 1) + 1]
      BY <1>1, <3>3
    <3> QED  BY <3>1, <3>2, <3>3, <3>4
  <2>3. ASSUME NEW i \in 1..Len(r), NEW j \in 1..Len(r),
               r[i].frame.news # {}, r[j].do = "welcome"
        PROVE  j < i
    <3>1. j + 1 < i + 1
      BY <1>2, <2>3 DEF Shaped
    <3> QED  BY <3>1
  <2> QED  BY <1>3, <2>1, <2>2, <2>3 DEF Shaped
<1>5. Head(w).do \in Opening => r = <<>>
  <2>1. Head(w).do \in Opening => Len(w) = 1
    BY <1>1 DEF Shaped
  <2> QED  BY <1>1, <2>1, EmptySeq
<1>6. ASSUME Head(w).frame.news # {}, NEW i \in 1..Len(r), r[i].do = "welcome"
      PROVE  FALSE
  <2>1. i + 1 \in 1..Len(w) /\ w[i + 1].do = "welcome" /\ 1 \in 1..Len(w)
    BY <1>1, <1>2, <1>6
  <2>2. i + 1 < 1
    BY <1>1, <1>6, <2>1 DEF Shaped
  <2> QED  BY <2>2
<1> QED  BY <1>3, <1>4, <1>5, <1>6 DEF r

LEMMA BothShaped ==
  ASSUME NEW t, NEW S, NEW v \in Seq(S), NEW w \in Seq(S), Shaped(v, t), Shaped(w, t),
         \A i \in 1..Len(v) : v[i].do \notin Opening,
         \A i \in 1..Len(w) : w[i].do \notin Opening,
         \A i \in 1..Len(v), j \in 1..Len(w) :
           v[i].frame.news = {} \/ w[j].do # "welcome"
  PROVE  Shaped(v \o w, t)
<1> DEFINE x == v \o w
<1>1. /\ Len(v) \in Nat /\ Len(w) \in Nat /\ Len(x) = Len(v) + Len(w)
      /\ \A i \in 1..Len(v) : x[i] = v[i]
      /\ \A i \in Len(v) + 1..Len(x) : x[i] = w[i - Len(v)]
  BY LenProperties, ConcatProperties
<1> HIDE DEF x
<1>2. ASSUME NEW i \in 1..Len(x)
      PROVE  \/ i \in 1..Len(v) /\ x[i] = v[i]
             \/ i - Len(v) \in 1..Len(w) /\ x[i] = w[i - Len(v)]
  BY <1>1
<1>3. ASSUME NEW i \in 1..Len(x)
      PROVE  /\ x[i].frame.news \subseteq {t} /\ x[i].do \notin Opening
             /\ x[i].do = "leave" => \E c \in Conns : x[i].who = {c}
  <2>1. CASE i \in 1..Len(v) /\ x[i] = v[i]
    BY <2>1 DEF Shaped
  <2>2. CASE i - Len(v) \in 1..Len(w) /\ x[i] = w[i - Len(v)]
    <3>1. PICK k \in 1..Len(w) : x[i] = w[k]
      BY <2>2
    <3> QED  BY <3>1 DEF Shaped
  <2> QED  BY <1>2, <2>1, <2>2
<1>4. ASSUME NEW i \in 1..Len(x), x[i].do = "retire"
      PROVE  i + 1 <= Len(x) /\ x[i + 1].do = "close" /\ x[i + 1].who = x[i].who
  <2>1. CASE i \in 1..Len(v) /\ x[i] = v[i]
    <3>1. i + 1 <= Len(v) /\ v[i + 1].do = "close" /\ v[i + 1].who = v[i].who
      BY <1>4, <2>1 DEF Shaped
    <3>2. x[i + 1] = v[i + 1] /\ i + 1 <= Len(x)
      BY <1>1, <2>1, <3>1
    <3> QED  BY <2>1, <3>1, <3>2
  <2>2. CASE i - Len(v) \in 1..Len(w) /\ x[i] = w[i - Len(v)]
    <3>1. PICK k \in 1..Len(w) : i = k + Len(v) /\ x[i] = w[k]
      BY <1>1, <2>2
    <3>2. k + 1 <= Len(w) /\ w[k + 1].do = "close" /\ w[k + 1].who = w[k].who
      BY <1>4, <3>1 DEF Shaped
    <3>3. i + 1 \in Len(v) + 1..Len(x) /\ (i + 1) - Len(v) = k + 1
      BY <1>1, <3>1, <3>2
    <3>4. x[i + 1] = w[k + 1]
      BY <1>1, <3>3
    <3> QED  BY <3>1, <3>2, <3>3, <3>4
  <2> QED  BY <1>2, <2>1, <2>2
<1>5. ASSUME NEW i \in 1..Len(x), NEW j \in 1..Len(x),
             x[i].frame.news # {}, x[j].do = "welcome"
      PROVE  j < i
  <2>1. CASE i \in 1..Len(v) /\ x[i] = v[i]
    <3>1. j \in 1..Len(v) /\ x[j] = v[j]
      BY <1>2, <1>5, <2>1
    <3> QED  BY <1>5, <2>1, <3>1 DEF Shaped
  <2>2. CASE i - Len(v) \in 1..Len(w) /\ x[i] = w[i - Len(v)]
    <3>1. CASE j \in 1..Len(v) /\ x[j] = v[j]
      BY <1>1, <2>2, <3>1
    <3>2. CASE j - Len(v) \in 1..Len(w) /\ x[j] = w[j - Len(v)]
      <4>1. j - Len(v) < i - Len(v)
        BY <1>5, <2>2, <3>2 DEF Shaped
      <4> QED  BY <1>1, <4>1
    <3> QED  BY <1>2, <3>1, <3>2
  <2> QED  BY <1>2, <2>1, <2>2
<1> QED  BY <1>3, <1>4, <1>5 DEF Shaped, x
\* A job is replaced by jobs that are no sections, in the order they need; they
\* announce what the job did, or it was alone.
LEMMA ThenShapes ==
  ASSUME WorkOK, Shapes, NEW t \in Threads, work[t] # <<>>,
         NEW S, NEW jobs \in Seq(S), Then(t, jobs), Shaped(jobs, t),
         \A i \in 1..Len(jobs) : jobs[i].do \notin Opening,
         \/ Head(work[t]).do \in Opening
         \/ \A i \in 1..Len(jobs) : jobs[i].frame.news \subseteq Head(work[t]).frame.news
  PROVE  Shapes'
<1> DEFINE w == work[t]
           r == Tail(w)
<1>1. /\ w \in Seq(Job) /\ Shaped(w, t) /\ w # <<>>
      /\ work' = [work EXCEPT ![t] = jobs \o Tail(w)]
  BY Goes DEF WorkOK, Shapes
<1> HIDE DEF w
<1>2. /\ Shaped(r, t) /\ r \in Seq(Job)
      /\ \A i \in 1..Len(r) : r[i].do \notin Opening
      /\ Head(w).do \in Opening => r = <<>>
      /\ Head(w).frame.news # {} =>
           \A i \in 1..Len(r) : r[i].do # "welcome"
      /\ work' = [work EXCEPT ![t] = jobs \o r]
  BY <1>1, TailShaped, HeadTailProperties
<1> HIDE DEF r
<1>3. \A i \in 1..Len(jobs), j \in 1..Len(r) :
        jobs[i].frame.news = {} \/ r[j].do # "welcome"
  <2>1. CASE r = <<>>
    BY <1>2, <2>1, EmptySeq
  <2>2. CASE r # <<>>
    BY <1>2, <2>2 DEF w
  <2> QED  BY <2>1, <2>2
<1>4. Shaped(jobs \o r, t)
  <2> DEFINE T == S \cup Job
  <2>1. jobs \in Seq(T) /\ r \in Seq(T)
    BY <1>2, WiderSeq
  <2> HIDE DEF T
  <2> QED  BY <1>2, <1>3, <2>1, BothShaped
<1> QED  BY <1>1, <1>2, <1>4 DEF Shapes, WorkOK

\* No such job says welcome, and none is a section: broadcasts and sends.
Mild(job) == job.do \in {"send", "cast", "relay"} /\ job.frame.news = {}

LEMMA MildShaped ==
  ASSUME NEW t, NEW jobs, \A i \in 1..Len(jobs) : Mild(jobs[i])
  PROVE  Shaped(jobs, t) /\ \A i \in 1..Len(jobs) : jobs[i].do \notin Opening
  BY DEF Mild, Shaped, Opening

\* Who is said welcome, and what is left to do, after a job of t.
LEMMA ThenKeeps ==
  ASSUME WorkOK, NEW t \in Threads, work[t] # <<>>, NEW S, NEW jobs \in Seq(S),
         Then(t, jobs)
  PROVE  /\ Pending \ {Head(work[t])} \subseteq Pending'
         /\ \A d \in Conns \ {t} : Welcoming(d)' <=> Welcoming(d)
         /\ Welcoming(t) => Welcoming(t)' \/ Head(work[t]).do = "welcome"
         /\ Welcoming(t)' => Welcoming(t) \/ \E job \in Range(jobs) : job.do = "welcome"
<1>1. /\ Range(work'[t]) = Range(jobs) \cup Range(Tail(work[t]))
      /\ Range(work[t]) = {Head(work[t])} \cup Range(Tail(work[t]))
      /\ \A s \in Threads \ {t} : work'[s] = work[s]
  BY Goes
<1>2. Pending \ {Head(work[t])} \subseteq Pending'
  BY <1>1 DEF Pending
<1> QED  BY <1>1, <1>2 DEF Welcoming, Threads

\* Nobody is left behind by a step that takes nobody in.
LEMMA Settled ==
  ASSUME \A d \in Conns : Placed(d),
         \A d \in Conns : Holds(d)' => Holds(d),
         \A d \in joined \cap Conns : Holds(d)' => d \in joined' \/ Dismissed(d)',
         \A d \in Conns : Dismissed(d) /\ Holds(d)' => Dismissed(d)',
         \A d \in Conns : Welcoming(d) => Welcoming(d)' \/ d \in joined',
         \A d \in Conns : Welcoming(d)' => Welcoming(d) /\ d \notin announced' \ announced
  PROVE  \A d \in Conns : Placed(d)'
  BY DEF Placed

\* A job is taken off that neither dismisses nor welcomes anybody.
LEMMA ThenSettled ==
  ASSUME IInv, RInv, NEW t \in Threads, NEW S, NEW jobs \in Seq(S), Then(t, jobs),
         work[t] # <<>>, Head(work[t]).do \notin {"leave", "close", "welcome"},
         \A job \in Range(jobs) : job.do # "welcome",
         \A d \in Conns : Holds(d)' => Holds(d),
         UNCHANGED joined, closing \subseteq closing',
         \A d \in announced' \ announced : ~Welcoming(d)
  PROVE  \A d \in Conns : Placed(d)'
<1>1. /\ Pending \ {Head(work[t])} \subseteq Pending'
      /\ \A d \in Conns : Welcoming(d)' <=> Welcoming(d)
  BY ThenKeeps DEF IInv, Threads
<1>2. \A d \in Conns : Dismissed(d) => Dismissed(d)'
  BY <1>1 DEF Dismissed
<1> QED  BY <1>1, <1>2, Settled DEF RInv

\* A section that takes nobody in and goes on to frames.
LEMMA SectionStep ==
  ASSUME IInv, RInv, NEW c \in Conns, NEW what \in Opening, At(c, what),
         NEW S, NEW jobs \in Seq(S), Then(c, jobs),
         \A i \in 1..Len(jobs) : Mild(jobs[i]),
         \A d \in Conns : Holds(d)' => Holds(d),
         UNCHANGED <<joined, closing, announced>>
  PROVE  RInv'
<1>1. c \in Threads /\ work[c] # <<>> /\ Head(work[c]).do \in Opening /\ WorkOK /\ Shapes
  BY DEF Threads, At, IInv, RInv
<1>2. Shapes'
  BY <1>1, ThenShapes, MildShaped
<1>3. \A job \in Range(jobs) : job.do # "welcome"
  <2>1. Range(jobs) = {jobs[i] : i \in 1..Len(jobs)}
    BY RangeEquality
  <2> QED  BY <2>1 DEF Mild
<1>4. \A d \in Conns : Placed(d)'
  BY <1>1, <1>3, ThenSettled DEF Opening
<1> QED  BY <1>2, <1>4 DEF RInv

\* Starting on a handler, or on leave_room and what follows it.
LEMMA StartSettled ==
  ASSUME IInv, RInv, NEW t \in Threads, work[t] = <<>>,
         NEW S, NEW jobs \in Seq(S), work' = [work EXCEPT ![t] = jobs], Shaped(jobs, t),
         \A job \in Range(jobs) : job.do # "welcome",
         \A d \in Conns : Holds(d)' => Holds(d),
         \A d \in joined \ joined' : \E job \in Range(jobs) :
                                       job.do = "leave" /\ d \in job.who,
         UNCHANGED <<closing, announced>>
  PROVE  RInv'
<1>1. work'[t] = jobs /\ \A s \in Threads \ {t} : work'[s] = work[s]
  BY DEF IInv, WorkOK
<1>2. Range(work[t]) = {}
  BY DEF Range
<1>3. Pending \subseteq Pending' /\ Range(jobs) \subseteq Pending'
  BY <1>1, <1>2 DEF Pending
<1>4. \A d \in Conns : Welcoming(d)' <=> Welcoming(d)
  BY <1>1, <1>2 DEF Welcoming, Threads
<1>5. \A d \in Conns : Dismissed(d) => Dismissed(d)'
  BY <1>3 DEF Dismissed
<1>6. \A d \in joined \cap Conns : d \in joined' \/ Dismissed(d)'
  BY <1>3 DEF Dismissed
<1>7. \A d \in Conns : Placed(d)'
  BY <1>4, <1>5, <1>6, Settled DEF RInv
<1>8. Shapes'
  BY <1>1 DEF RInv, Shapes
<1> QED  BY <1>7, <1>8 DEF RInv
\* Nobody gets a place by a section other than Join's.
LEMMA PlacesShrink ==
  ASSUME \A u \in Users : room'.parts[u].conn \in {room.parts[u].conn, NoConn}
  PROVE  \A d \in Conns : Holds(d)' => Holds(d)
  BY RoomAssumption DEF Holds

LEMMA OpeningSteps ==
  ASSUME IInv, RInv, NEW c \in Conns,
         Rejoin(c) \/ Mute(c) \/ Lock(c) \/ Post(c) \/ Signal(c) \/ Refused(c)
  PROVE  RInv'
<1>1. \A f \in {State, Messages, Plain} : f.news = {}
  BY DEF State, Messages, Plain, About, Chat
<1>2. ASSUME NEW S \in SUBSET Subjects
      PROVE  About(S).news = {}
  BY DEF About
<1>3. room \in Room /\ UserOf[c] \in Users
  BY RoomAssumption DEF IInv, TypeOK
<1>4. CASE Rejoin(c)
  <2> DEFINE jobs == <<Send(c, State), Send(c, Messages)>>
  <2>1. jobs \in Seq({Send(c, State), Send(c, Messages)})
    OBVIOUS
  <2>2. \A i \in 1..Len(jobs) : Mild(jobs[i])
    BY <1>1 DEF Mild, Send
  <2>3. At(c, "rejoin") /\ Then(c, jobs) /\ UNCHANGED <<room, joined, closing, announced>>
    BY <1>4 DEF Rejoin, NoChange, roomVars, connVars, clientVars
  <2> HIDE DEF jobs
  <2> QED  BY <2>1, <2>2, <2>3, SectionStep DEF Opening, Holds
<1>5. CASE Mute(c)
  <2> DEFINE u == UserOf[c]
             a == Cast({}, Plain)
             b == Cast({}, About({u}))
             jobs == <<a, b>>
  <2>1. jobs \in Seq({a, b})
    OBVIOUS
  <2>2. \A i \in 1..Len(jobs) : Mild(jobs[i])
    BY <1>1 DEF Mild, Cast, About
  <2>3. At(c, "mute") /\ Then(c, jobs) /\ UNCHANGED <<joined, closing, announced>>
    BY <1>5 DEF Mute, connVars, clientVars
  <2>4. \A v \in Users : room'.parts[v].conn \in {room.parts[v].conn, NoConn}
    <3>1. PICK muted \in BOOLEAN : room' = SetMuted(room, u, muted)
      BY <1>5 DEF Mute
    <3>2. room.parts[u] \in Participant
      BY <1>3 DEF Room
    <3>3. PICK p \in Participant : /\ p.conn = room.parts[u].conn
                                   /\ room' = [room EXCEPT !.parts[u] = p]
      BY <3>1, <3>2 DEF SetMuted, Participant
    <3>4. \A v \in Users : room'.parts[v] = IF v = u THEN p ELSE room.parts[v]
      BY <1>3, <3>3 DEF Room
    <3> QED  BY <3>3, <3>4
  <2>5. \A d \in Conns : Holds(d)' => Holds(d)
    BY <2>4, PlacesShrink
  <2> HIDE DEF jobs
  <2> QED  BY <2>1, <2>2, <2>3, <2>5, SectionStep DEF Opening
<1>6. CASE Lock(c)
  <2> DEFINE a == Cast({}, About({"lock"}))
             jobs == <<a>>
  <2>1. jobs \in Seq({a})
    OBVIOUS
  <2>2. \A i \in 1..Len(jobs) : Mild(jobs[i])
    BY DEF Mild, Cast, About
  <2>3. At(c, "lock") /\ Then(c, jobs) /\ UNCHANGED <<joined, closing, announced>>
    BY <1>6 DEF Lock, connVars, clientVars
  <2>4. \A v \in Users : room'.parts[v].conn \in {room.parts[v].conn, NoConn}
    BY <1>3, <1>6 DEF Lock, SetLocked, Room
  <2>5. \A d \in Conns : Holds(d)' => Holds(d)
    BY <2>4, PlacesShrink
  <2> HIDE DEF jobs
  <2> QED  BY <2>1, <2>2, <2>3, <2>5, SectionStep DEF Opening
<1>7. CASE Post(c)
  <2> DEFINE a == Cast({}, Chat({posted'}))
             jobs == <<a>>
  <2>1. jobs \in Seq({a})
    OBVIOUS
  <2>2. \A i \in 1..Len(jobs) : Mild(jobs[i])
    BY DEF Mild, Cast, Chat
  <2>3. At(c, "chat") /\ Then(c, jobs) /\ UNCHANGED <<room, joined, closing, announced>>
    BY <1>7 DEF Post, NoChange, roomVars, connVars, clientVars
  <2> HIDE DEF jobs
  <2> QED  BY <2>1, <2>2, <2>3, SectionStep DEF Opening, Holds
<1>8. CASE Signal(c)
  <2>1. PICK D : Then(c, <<With("relay", D)>>)
    BY <1>8 DEF Signal
  <2> DEFINE a == With("relay", D)
             jobs == <<a>>
  <2>2. jobs \in Seq({a})
    OBVIOUS
  <2>3. \A i \in 1..Len(jobs) : Mild(jobs[i])
    BY <1>1 DEF Mild, With
  <2>4. At(c, "signal") /\ Then(c, jobs) /\ UNCHANGED <<room, joined, closing, announced>>
    BY <1>8, <2>1 DEF Signal, NoChange, roomVars, connVars, clientVars
  <2> HIDE DEF jobs
  <2> QED  BY <2>2, <2>3, <2>4, SectionStep DEF Opening, Holds
<1>9. CASE Refused(c)
  <2>1. PICK what \in Opening : At(c, what)
    BY <1>9 DEF Refused, Opening
  <2> DEFINE jobs == <<>>
  <2>2. jobs \in Seq({}) /\ \A i \in 1..Len(jobs) : Mild(jobs[i])
    OBVIOUS
  <2>3. Then(c, jobs) /\ UNCHANGED <<room, joined, closing, announced>>
    BY <1>9 DEF Refused, NoChange, roomVars, connVars, clientVars
  <2> HIDE DEF jobs
  <2> QED  BY <2>1, <2>2, <2>3, SectionStep DEF Holds
<1> QED  BY <1>4, <1>5, <1>6, <1>7, <1>8, <1>9

LEMMA ModerateTargetSettles ==
  ASSUME IInv, RInv, NEW c \in Conns, ModerateTarget(c)
  PROVE  RInv'
<1>1. At(c, "moderate") /\ UNCHANGED <<joined, closing, announced>>
  BY DEF ModerateTarget, connVars, clientVars
<1>2. PICK target \in Users, action \in ModerationAction \ {"kick"} :
        /\ room' = Moderate(room, target, action)
        /\ Then(c, <<Cast({}, About({target}))>>
                     \o IF action = "allow" THEN <<>>
                        ELSE <<Cast({}, Plain), Cast({}, Plain)>>)
  BY DEF ModerateTarget
<1> DEFINE a == Cast({}, About({target}))
           b == Cast({}, Plain)
           rest == IF action = "allow" THEN <<>> ELSE <<b, b>>
           jobs == <<a>> \o rest
<1>3. Mild(a) /\ Mild(b)
  BY DEF Mild, Cast, About, Plain, Chat
<1>4. Then(c, jobs)
  BY <1>2
<1>5. \A d \in Conns : Holds(d)' => Holds(d)
  <2>1. room \in Room /\ room.parts[target] \in Participant
    BY DEF IInv, TypeOK, Room
  <2>2. \A v \in Users : room'.parts[v].conn \in {room.parts[v].conn, NoConn}
    BY <1>2, <2>1 DEF Moderate, ModerationAction, Room, Participant
  <2> QED  BY <2>2, PlacesShrink
<1> HIDE DEF a, b
<1>6. jobs \in Seq({a, b}) /\ \A i \in 1..Len(jobs) : Mild(jobs[i])
  <2>1. rest \in Seq({a, b}) /\ <<a>> \in Seq({a, b})
    <3>1. <<b, b>> \in Seq({a, b}) /\ <<a>> \in Seq({a, b})
      OBVIOUS
    <3>2. <<>> \in Seq({a, b})
      BY EmptySeq
    <3> QED  BY <3>1, <3>2
  <2> HIDE DEF rest
  <2>2. jobs \in Seq({a, b})
    BY <2>1, ConcatProperties
  <2>3. \A i \in 1..Len(jobs) : jobs[i] \in {a, b}
    BY <2>2, ElementOfSeq
  <2> QED  BY <1>3, <2>2, <2>3
<1> HIDE DEF jobs
<1> QED  BY <1>1, <1>4, <1>5, <1>6, SectionStep DEF Opening

\* Who is kicked is retired and closed by the next two jobs.
LEMMA KickSettles ==
  ASSUME IInv, RInv, NEW c \in Conns, Kick(c)
  PROVE  RInv'
<1>1. /\ At(c, "moderate") /\ c \in Threads
      /\ UNCHANGED <<joined, closing, announced>>
  BY DEF Kick, Threads, connVars, clientVars
<1>2. PICK target \in Users, D \in SUBSET Conns :
        /\ room' = Moderate(room, target, "kick")
        /\ Then(c, <<With("retire", D), With("close", D), Cast({}, Left(target))>>)
  BY DEF Kick, MayModerate, Inside, IInv, TypeOK, Room, Participant
<1> DEFINE a == With("retire", D)
           b == With("close", D)
           e == Cast({}, Left(target))
           jobs == <<a, b, e>>
<1>3. /\ a.do = "retire" /\ b.do = "close" /\ a.who = b.who /\ e.do = "cast"
      /\ a.frame.news = {} /\ b.frame.news = {} /\ e.frame.news = {}
  BY DEF With, Cast, Plain, Chat, Left, About
<1>4. Then(c, jobs)
  BY <1>2
<1>5. \A d \in Conns : Holds(d)' => Holds(d)
  <2>1. room \in Room
    BY DEF IInv, TypeOK
  <2>2. PICK q \in Room : q = Remove(room, target)
    BY <2>1, RemoveType
  <2>3. room'.parts = q.parts
    BY <1>2, <2>2 DEF Moderate, Room
  <2>4. \A v \in Users : q.parts[v].conn \in {room.parts[v].conn, NoConn}
    BY <2>1, <2>2 DEF Remove, Room, Absent
  <2> QED  BY <2>3, <2>4, PlacesShrink
<1> HIDE DEF a, b, e
<1>6. jobs \in Seq({a, b, e}) /\ Len(jobs) = 3
      /\ jobs[1] = a /\ jobs[2] = b /\ jobs[3] = e
  OBVIOUS
<1> HIDE DEF jobs
<1>7. \A i \in 1..Len(jobs) : i \in {1, 2, 3}
  BY <1>6
<1>8. /\ Shaped(jobs, c)
      /\ \A i \in 1..Len(jobs) : jobs[i].do \notin Opening
      /\ \A i \in 1..Len(jobs) : jobs[i].do # "welcome"
  BY <1>3, <1>6, <1>7 DEF Shaped, Opening
<1>9. Shapes'
  BY <1>1, <1>4, <1>6, <1>8, ThenShapes DEF At, Opening, IInv, RInv
<1>10. \A job \in Range(jobs) : job.do # "welcome"
  <2>1. Range(jobs) = {jobs[i] : i \in 1..Len(jobs)}
    BY <1>6, RangeEquality
  <2> QED  BY <1>8, <2>1
<1>11. \A d \in Conns : Placed(d)'
  BY <1>1, <1>4, <1>5, <1>6, <1>10, ThenSettled DEF At
<1> QED  BY <1>9, <1>11 DEF RInv
-----------------------------------------------------------------------------
(* Jobs that are replaced by one of the same kind, or by none *)

\* A list of one broadcast or send that announces no more than the job did.
LEMMA OnwardStep ==
  ASSUME IInv, RInv, NEW t \in Threads, work[t] # <<>>,
         Head(work[t]).do \notin {"leave", "close", "welcome"},
         NEW a, NEW jobs \in {<<>>, <<a>>}, Then(t, jobs),
         jobs = <<a>> => /\ a.do \in {"send", "cast"}
                         /\ a.frame.news \subseteq Head(work[t]).frame.news,
         UNCHANGED <<room, joined>>, closing \subseteq closing',
         \A d \in announced' \ announced : ~Welcoming(d)
  PROVE  RInv'
<1>1. /\ jobs \in Seq({a}) /\ \A i \in 1..Len(jobs) : i = 1 /\ jobs[i] = a /\ jobs = <<a>>
      /\ Range(jobs) \subseteq {a}
      /\ Range(jobs) # {} => jobs = <<a>>
  <2>1. CASE jobs = <<>>
    BY <2>1, EmptySeq DEF Range
  <2>2. CASE jobs = <<a>>
    BY <2>2 DEF Range
  <2> QED  BY <2>1, <2>2
<1>2. Head(work[t]).frame.news \subseteq {t}
  <2>1. work[t] \in Seq(Job) /\ Shaped(work[t], t)
    BY DEF IInv, WorkOK, RInv, Shapes
  <2>2. 1 \in 1..Len(work[t]) /\ Head(work[t]) = work[t][1]
    BY <2>1, HeadTailProperties, EmptySeq, LenProperties
  <2> QED  BY <2>1, <2>2 DEF Shaped
<1>3. Shaped(jobs, t)
  BY <1>1, <1>2 DEF Shaped, Opening
<1>4. Shapes'
  BY <1>1, <1>3, ThenShapes DEF Opening, IInv, RInv
<1>5. \A job \in Range(jobs) : job.do # "welcome"
  <2> SUFFICES ASSUME NEW job \in Range(jobs)
               PROVE  job.do # "welcome"
    OBVIOUS
  <2>1. job = a /\ jobs = <<a>>
    BY <1>1
  <2> QED  BY <2>1
<1>6. \A d \in Conns : Placed(d)'
  BY <1>1, <1>5, ThenSettled DEF Holds
<1> QED  BY <1>4, <1>6 DEF RInv

LEMMA AimSettles ==
  ASSUME IInv, RInv, NEW t \in Threads, Aim(t)
  PROVE  RInv'
<1> DEFINE job == Head(work[t])
           a == [job EXCEPT !.do = "send", !.who = Targets(job.who)]
           jobs == IF Targets(job.who) = {} THEN <<>> ELSE <<a>>
<1>1. /\ work[t] # <<>> /\ job.do = "cast" /\ Then(t, jobs)
      /\ UNCHANGED <<room, joined, closing, announced>>
  BY DEF Aim, At, roomVars, connVars, clientVars
<1>2. a.do = "send" /\ a.frame = job.frame
  BY <1>1, HeadJob DEF IInv, Job
<1>3. jobs \in {<<>>, <<a>>}
  OBVIOUS
<1> HIDE DEF job, a, jobs
<1> QED  BY <1>1, <1>2, <1>3, OnwardStep DEF job

LEMMA RelaySettles ==
  ASSUME IInv, RInv, NEW c \in Conns, Relay(c)
  PROVE  RInv'
<1>1. PICK d \in Head(work[c]).who :
        Then(c, IF d \in joined THEN <<Send(d, Plain)>> ELSE <<>>)
  BY DEF Relay
<1> DEFINE a == Send(d, Plain)
           jobs == IF d \in joined THEN <<a>> ELSE <<>>
<1>2. /\ c \in Threads /\ work[c] # <<>> /\ Head(work[c]).do = "relay" /\ Then(c, jobs)
      /\ UNCHANGED <<room, joined, closing, announced>>
  BY <1>1 DEF Relay, At, Threads, roomVars, connVars, clientVars
<1>3. a.do = "send" /\ a.frame.news = {} /\ jobs \in {<<>>, <<a>>}
  BY DEF Send, Plain, Chat
<1> HIDE DEF a, jobs
<1> QED  BY <1>2, <1>3, OnwardStep

\* PARTICIPANT_JOINED goes out when the flag is set.
LEMMA DeliverSettles ==
  ASSUME IInv, RInv, NEW t \in Threads, Deliver(t)
  PROVE  RInv'
<1> DEFINE job == Head(work[t])
<1>1. PICK c \in job.who :
        /\ Sent(c, job.frame)
        /\ Then(t, IF job.who = {c} THEN <<>> ELSE <<[job EXCEPT !.who = @ \ {c}]>>)
  BY DEF Deliver
<1> DEFINE a == [job EXCEPT !.who = @ \ {c}]
           jobs == IF job.who = {c} THEN <<>> ELSE <<a>>
<1>2. /\ work[t] # <<>> /\ job.do = "send" /\ Then(t, jobs)
      /\ UNCHANGED <<room, joined>>
  BY <1>1 DEF Deliver, At, roomVars
<1>3. a.do = "send" /\ a.frame = job.frame /\ job.frame.news \subseteq Conns
  BY <1>2, HeadJob DEF IInv, Job, Frame
<1>4. jobs \in {<<>>, <<a>>}
  OBVIOUS
<1>5. closing \subseteq closing' /\ announced' \ announced \subseteq job.frame.news
  BY <1>1 DEF Sent, Receive, clientVars
<1> HIDE DEF job, a, jobs
<1>6. \A d \in job.frame.news : ~Welcoming(d)
  <2>1. work[t] \in Seq(Job) /\ Shaped(work[t], t)
    BY DEF IInv, WorkOK, RInv, Shapes
  <2>2. 1 \in 1..Len(work[t]) /\ job = work[t][1] /\ Len(work[t]) \in Nat
    BY <1>2, <2>1, HeadTailProperties, EmptySeq, LenProperties DEF job
  <2>3. SUFFICES ASSUME NEW d \in job.frame.news, Welcoming(d)
                 PROVE  FALSE
    OBVIOUS
  <2>4. d = t
    BY <2>1, <2>2 DEF Shaped
  <2>5. PICK j \in 1..Len(work[t]) : work[t][j].do = "welcome"
    <3>1. Range(work[t]) = {work[t][i] : i \in 1..Len(work[t])}
      BY <2>1, RangeEquality
    <3> QED  BY <2>3, <2>4, <3>1 DEF Welcoming
  <2>6. j < 1
    BY <2>1, <2>2, <2>5 DEF Shaped
  <2> QED  BY <2>2, <2>5, <2>6
<1> QED  BY <1>2, <1>3, <1>4, <1>5, <1>6, OnwardStep DEF job
-----------------------------------------------------------------------------
(* Jobs that dismiss or welcome *)

\* leave_room's section leaves the connection without a place.
LEMMA LeaveSettles ==
  ASSUME IInv, RInv, NEW t \in Threads, Leave(t)
  PROVE  RInv'
<1> DEFINE job == Head(work[t])
<1>1. PICK c \in job.who :
        IF Holds(c)
          THEN /\ room' = Remove(room, UserOf[c])
               /\ Change(UserOf[c])
               /\ Then(t, <<Cast({}, Left(UserOf[c]))>>)
          ELSE NoChange /\ Then(t, <<>>)
  BY DEF Leave
<1>2. /\ work[t] # <<>> /\ job.do = "leave" /\ job \in Job
      /\ UNCHANGED <<joined, closing, announced>> /\ room \in Room
  BY HeadJob DEF Leave, At, connVars, clientVars, IInv, TypeOK
<1>3. job.who = {c} /\ c \in Conns
  <2>1. work[t] \in Seq(Job) /\ Shaped(work[t], t)
    BY DEF IInv, WorkOK, RInv, Shapes
  <2>2. 1 \in 1..Len(work[t]) /\ job = work[t][1]
    BY <1>2, <2>1, HeadTailProperties, EmptySeq, LenProperties
  <2>3. \E d \in Conns : job.who = {d}
    BY <1>2, <2>1, <2>2 DEF Shaped
  <2> QED  BY <2>3
<1> DEFINE a == Cast({}, Left(UserOf[c]))
           jobs == IF Holds(c) THEN <<a>> ELSE <<>>
<1>4. Then(t, jobs) /\ jobs \in {<<>>, <<a>>}
  BY <1>1
<1>5. a.do = "cast" /\ a.frame.news = {}
  BY DEF Cast, Left, About
<1>6. ~Holds(c)' /\ \A d \in Conns : Holds(d)' => Holds(d)
  <2>1. CASE ~Holds(c)
    BY <1>1, <2>1 DEF Holds, NoChange, roomVars
  <2>2. CASE Holds(c)
    <3>1. UserOf[c] \in Users /\ room' = Remove(room, UserOf[c])
      BY <1>1, <1>3, <2>2, RoomAssumption
    <3>2. \A v \in Users : room'.parts[v] = IF v = UserOf[c] THEN Absent ELSE room.parts[v]
      BY <1>2, <3>1 DEF Remove, Room
    <3>3. room'.parts[UserOf[c]].conn = NoConn
      BY <3>1, <3>2 DEF Absent
    <3> QED  BY <1>3, <3>1, <3>2, <3>3, RoomAssumption DEF Holds, Absent
  <2> QED  BY <2>1, <2>2
<1> HIDE DEF job, a, jobs
<1>7. /\ jobs \in Seq({a}) /\ \A i \in 1..Len(jobs) : Mild(jobs[i])
      /\ \A x \in Range(jobs) : x.do # "welcome"
  <2>1. CASE jobs = <<>>
    BY <2>1, EmptySeq DEF Range
  <2>2. CASE jobs = <<a>>
    BY <1>5, <2>2 DEF Range, Mild
  <2> QED  BY <1>4, <2>1, <2>2
<1>8. Shapes'
  <2>1. Shaped(jobs, t) /\ \A i \in 1..Len(jobs) : jobs[i].do \notin Opening
    BY <1>7, MildShaped
  <2>2. \A i \in 1..Len(jobs) : jobs[i].frame.news \subseteq job.frame.news
    BY <1>7 DEF Mild
  <2> QED  BY <1>2, <1>4, <1>7, <2>1, <2>2, ThenShapes DEF IInv, RInv, job
<1>9. /\ Pending \ {job} \subseteq Pending'
      /\ \A d \in Conns : Welcoming(d)' <=> Welcoming(d)
  BY <1>2, <1>4, <1>7, ThenKeeps DEF IInv, Threads, job
<1>10. \A d \in Conns : Dismissed(d) /\ Holds(d)' => Dismissed(d)'
  BY <1>2, <1>3, <1>6, <1>9 DEF Dismissed
<1>11. \A d \in Conns : Placed(d)'
  BY <1>2, <1>6, <1>9, <1>10, Settled DEF RInv
<1> QED  BY <1>8, <1>11 DEF RInv

\* What the jobs that set flags have in common.
LEMMA FlagShapes ==
  ASSUME IInv, RInv, NEW t \in Threads, work[t] # <<>>, Then(t, <<>>)
  PROVE  /\ Shapes'
         /\ Pending \ {Head(work[t])} \subseteq Pending'
         /\ \A d \in Conns : Welcoming(d)' => Welcoming(d)
         /\ \A d \in Conns : Welcoming(d) =>
              Welcoming(d)' \/ (d = t /\ Head(work[t]).do = "welcome")
<1> DEFINE jobs == <<>>
<1>1. jobs \in Seq({}) /\ Len(jobs) = 0 /\ Range(jobs) = {} /\ Then(t, jobs)
  BY DEF Range
<1> HIDE DEF jobs
<1>2. /\ Shaped(jobs, t) /\ \A i \in 1..Len(jobs) : jobs[i].do \notin Opening
      /\ \A i \in 1..Len(jobs) : jobs[i].frame.news \subseteq Head(work[t]).frame.news
  BY <1>1 DEF Shaped
<1>3. Shapes'
  BY <1>1, <1>2, ThenShapes DEF IInv, RInv
<1>4. /\ Pending \ {Head(work[t])} \subseteq Pending'
      /\ \A d \in Conns \ {t} : Welcoming(d)' <=> Welcoming(d)
      /\ Welcoming(t) => Welcoming(t)' \/ Head(work[t]).do = "welcome"
      /\ Welcoming(t)' => Welcoming(t)
  BY <1>1, ThenKeeps DEF IInv
<1> QED  BY <1>3, <1>4

\* The job that closes comes next.
LEMMA RetireSettles ==
  ASSUME IInv, RInv, NEW t \in Threads, Retire(t)
  PROVE  RInv'
<1> DEFINE job == Head(work[t])
<1>1. /\ work[t] # <<>> /\ job.do = "retire" /\ Then(t, <<>>)
      /\ joined' = joined \ job.who
      /\ UNCHANGED <<room, closing, announced>>
  BY DEF Retire, At, roomVars, clientVars
<1>2. PICK next \in Pending : next.do = "close" /\ next.who = job.who
  <2>1. work[t] \in Seq(Job) /\ Shaped(work[t], t)
    BY DEF IInv, WorkOK, RInv, Shapes
  <2>2. 1 \in 1..Len(work[t]) /\ job = work[t][1] /\ Len(work[t]) \in Nat
    BY <1>1, <2>1, HeadTailProperties, EmptySeq, LenProperties
  <2>3. 2 <= Len(work[t]) /\ work[t][2].do = "close" /\ work[t][2].who = job.who
    <3>1. 1 + 1 <= Len(work[t]) /\ work[t][1 + 1].do = "close"
          /\ work[t][1 + 1].who = work[t][1].who
      BY <1>1, <2>1, <2>2 DEF Shaped
    <3>2. 1 + 1 = 2
      OBVIOUS
    <3> QED  BY <2>2, <3>1, <3>2
  <2>4. Range(work[t]) = {work[t][i] : i \in 1..Len(work[t])}
    BY <2>1, RangeEquality
  <2>5. work[t][2] \in Pending
    BY <2>2, <2>3, <2>4 DEF Pending
  <2> QED  BY <2>3, <2>5
<1> HIDE DEF job
<1>3. /\ Shapes' /\ Pending \ {job} \subseteq Pending'
      /\ \A d \in Conns : Welcoming(d)' <=> Welcoming(d)
  BY <1>1, FlagShapes DEF job
<1>4. next \in Pending'
  BY <1>1, <1>2, <1>3
<1>5. \A d \in Conns : Dismissed(d) => Dismissed(d)'
  BY <1>1, <1>3 DEF Dismissed
<1>6. \A d \in joined : d \in joined' \/ Dismissed(d)'
  BY <1>1, <1>2, <1>4 DEF Dismissed
<1>7. \A d \in Conns : Placed(d)'
  BY <1>1, <1>3, <1>5, <1>6, Settled DEF RInv, Holds
<1> QED  BY <1>3, <1>7 DEF RInv

LEMMA CloseSettles ==
  ASSUME IInv, RInv, NEW t \in Threads, Close(t)
  PROVE  RInv'
<1> DEFINE job == Head(work[t])
<1>1. /\ work[t] # <<>> /\ job.do = "close" /\ Then(t, <<>>)
      /\ closing' = closing \cup job.who
      /\ UNCHANGED <<room, joined, announced>>
  BY DEF Close, At, roomVars, clientVars
<1> HIDE DEF job
<1>2. /\ Shapes' /\ Pending \ {job} \subseteq Pending'
      /\ \A d \in Conns : Welcoming(d)' <=> Welcoming(d)
  BY <1>1, FlagShapes DEF job
<1>3. \A d \in Conns : Dismissed(d) => Dismissed(d)'
  BY <1>1, <1>2 DEF Dismissed
<1>4. \A d \in Conns : Placed(d)'
  BY <1>1, <1>2, <1>3, Settled DEF RInv, Holds
<1> QED  BY <1>2, <1>4 DEF RInv

LEMMA WelcomeSettles ==
  ASSUME IInv, RInv, NEW c \in Conns, Welcome(c)
  PROVE  RInv'
<1> DEFINE job == Head(work[c])
<1>1. /\ c \in Threads /\ work[c] # <<>> /\ job.do = "welcome" /\ Then(c, <<>>)
      /\ joined' = joined \cup {c}
      /\ UNCHANGED <<room, closing, announced>>
  BY DEF Welcome, At, Threads, roomVars, clientVars
<1> HIDE DEF job
<1>2. /\ Shapes' /\ Pending \ {job} \subseteq Pending'
      /\ \A d \in Conns : Welcoming(d)' => Welcoming(d)
      /\ \A d \in Conns : Welcoming(d) => Welcoming(d)' \/ d = c
  BY <1>1, FlagShapes DEF job
<1>3. \A d \in Conns : Dismissed(d) => Dismissed(d)'
  BY <1>1, <1>2 DEF Dismissed
<1>4. \A d \in Conns : Placed(d)'
  BY <1>1, <1>2, <1>3, Settled DEF RInv, Holds
<1> QED  BY <1>2, <1>4 DEF RInv
\* The newcomer's jobs: the flag first, the announcement after it.
LEMMA NewcomerShaped ==
  ASSUME NEW c \in Conns, NEW rejoin \in BOOLEAN
  PROVE  LET list == Newcomer(c, UserOf[c], rejoin)
         IN  \E S : /\ list \in Seq(S) /\ Shaped(list, c)
                    /\ \A i \in 1..Len(list) : list[i].do \notin Opening
                    /\ \E job \in Range(list) : job.do = "welcome"
<1> DEFINE u == UserOf[c]
           x1 == Do("welcome")
           x2 == Send(c, State)
           x3 == Send(c, Messages)
           x4 == Cast(TabsOf(u), Joined(u, c))
           x5 == Cast(TabsOf(u), About({u}))
           S == {x1, x2, x3, x4, x5}
           first == <<x1, x2, x3, x4>>
           second == IF rejoin THEN <<x5>> ELSE <<>>
<1>1. /\ x1.do = "welcome" /\ x2.do = "send" /\ x3.do = "send" /\ x4.do = "cast"
      /\ x1.frame.news = {} /\ x2.frame.news = {} /\ x3.frame.news = {}
      /\ x4.frame.news = {c} /\ Mild(x5)
  BY DEF Do, Send, Cast, State, Messages, Plain, Chat, Joined, About, Mild
<1>2. Newcomer(c, u, rejoin) = first \o second
  BY DEF Newcomer
<1> HIDE DEF x1, x2, x3, x4, x5
<1>3. /\ first \in Seq(S) /\ Len(first) = 4 /\ first[1] = x1 /\ first[2] = x2
      /\ first[3] = x3 /\ first[4] = x4
  OBVIOUS
<1>4. <<>> \in Seq(S) /\ <<x5>> \in Seq(S)
  BY EmptySeq
<1>5. second \in Seq(S) /\ \A i \in 1..Len(second) : second[i] = x5
  <2>1. CASE rejoin
    BY <1>4, <2>1
  <2>2. CASE ~rejoin
    BY <1>4, <2>2
  <2> QED  BY <2>1, <2>2
<1> HIDE DEF first, second, S
<1>6. \A i \in 1..Len(first) : i \in {1, 2, 3, 4}
  BY <1>3
<1>7. Shaped(first, c) /\ \A i \in 1..Len(first) : first[i].do \notin Opening
  BY <1>1, <1>3, <1>6 DEF Shaped, Opening
<1>8. /\ \A i \in 1..Len(second) : Mild(second[i])
      /\ Shaped(second, c) /\ \A i \in 1..Len(second) : second[i].do \notin Opening
  BY <1>1, <1>5, MildShaped
<1>9. Shaped(first \o second, c)
  BY <1>3, <1>5, <1>7, <1>8, BothShaped DEF Mild
<1> DEFINE list == first \o second
<1>10. /\ list \in Seq(S) /\ Range(list) = Range(first) \cup Range(second)
       /\ Len(list) = Len(first) + Len(second)
       /\ \A i \in 1..Len(list) : IF i <= Len(first) THEN list[i] = first[i]
                                  ELSE list[i] = second[i - Len(first)]
  BY <1>3, <1>5, ConcatProperties, RangeConcatenation
<1> HIDE DEF list
<1>11. \A i \in 1..Len(list) : list[i].do \notin Opening
  <2>1. ASSUME NEW i \in 1..Len(list)
        PROVE  list[i].do \notin Opening
    <3>1. Len(first) \in Nat /\ Len(second) \in Nat
      BY <1>3, <1>5, LenProperties
    <3>2. CASE i <= Len(first)
      BY <1>7, <1>10, <3>1, <3>2
    <3>3. CASE ~(i <= Len(first))
      <4>1. i - Len(first) \in 1..Len(second)
        BY <1>10, <3>1, <3>3
      <4> QED  BY <1>8, <1>10, <3>3, <4>1
    <3> QED  BY <3>2, <3>3
  <2> QED  BY <2>1
<1>12. x1 \in Range(list)
  BY <1>3, <1>10 DEF Range
<1> QED  BY <1>1, <1>2, <1>9, <1>10, <1>11, <1>12 DEF list

\* The newcomer has its place and is to be welcomed; it takes the place of
\* another tab of its user only.
LEMMA JoinSettles ==
  ASSUME IInv, RInv, NEW c \in Conns, Join_(c)
  PROVE  RInv'
<1> DEFINE u == UserOf[c]
           displaced == {room.parts[u].conn} \ {NoConn, c}
           list == Newcomer(c, u, Inside(room, u))
           a == With("retire", displaced)
           b == With("close", displaced)
           first == IF displaced = {} THEN <<>> ELSE <<a, b>>
           jobs == first \o list
<1>1. /\ work[c] # <<>> /\ Head(work[c]).do = "join" /\ c \in Threads
      /\ room' = Join(room, u, c) /\ Then(c, jobs) /\ announced' = announced \ {c}
      /\ UNCHANGED <<joined, closing>>
  BY DEF Join_, At, Threads, connVars
<1>2. /\ a.do = "retire" /\ b.do = "close" /\ a.who = b.who
      /\ a.frame.news = {} /\ b.frame.news = {}
  BY DEF With, Plain, Chat
<1>3. PICK S : /\ list \in Seq(S) /\ Shaped(list, c)
               /\ \A i \in 1..Len(list) : list[i].do \notin Opening
               /\ \E job \in Range(list) : job.do = "welcome"
  <2>1. Inside(room, u) \in BOOLEAN
    BY DEF Inside
  <2> QED  BY <2>1, NewcomerShaped
<1> HIDE DEF list, a, b, u
<1>4. /\ first \in Seq({a, b}) /\ Shaped(first, c)
      /\ \A i \in 1..Len(first) : first[i].do \notin Opening /\ first[i].frame.news = {}
  <2>1. CASE displaced = {}
    <3>1. first \in Seq({a, b}) /\ Len(first) = 0
      BY <2>1, EmptySeq
    <3> HIDE DEF first
    <3> QED  BY <3>1 DEF Shaped
  <2>2. CASE displaced # {}
    <3>1. first \in Seq({a, b}) /\ Len(first) = 2 /\ first[1] = a /\ first[2] = b
      <4>1. first = <<a, b>>
        BY <2>2
      <4> HIDE DEF first
      <4> QED  BY <4>1
    <3> HIDE DEF first
    <3>2. \A i \in 1..Len(first) : i \in {1, 2}
      BY <3>1
    <3> QED  BY <1>2, <3>1, <3>2 DEF Shaped, Opening
  <2> QED  BY <2>1, <2>2
<1> HIDE DEF first
<1> DEFINE T == {a, b} \cup S
<1>5. first \in Seq(T) /\ list \in Seq(T)
  BY <1>3, <1>4, WiderSeq
<1> HIDE DEF T
<1>6. Shaped(jobs, c)
  BY <1>3, <1>4, <1>5, BothShaped
<1>7. /\ jobs \in Seq(T) /\ Range(jobs) = Range(first) \cup Range(list)
      /\ Len(jobs) = Len(first) + Len(list)
      /\ Len(first) \in Nat /\ Len(list) \in Nat
      /\ \A i \in 1..Len(jobs) : IF i <= Len(first) THEN jobs[i] = first[i]
                                 ELSE jobs[i] = list[i - Len(first)]
  BY <1>5, ConcatProperties, RangeConcatenation, LenProperties
<1> HIDE DEF jobs
<1>8. ASSUME NEW i \in 1..Len(jobs)
      PROVE  jobs[i].do \notin Opening
  <2>1. CASE i <= Len(first)
    BY <1>4, <1>7, <2>1
  <2>2. CASE ~(i <= Len(first))
    <3>1. i - Len(first) \in 1..Len(list)
      BY <1>7, <2>2
    <3> QED  BY <1>3, <1>7, <2>2, <3>1
  <2> QED  BY <2>1, <2>2
<1>9. Shapes'
  BY <1>1, <1>6, <1>7, <1>8, ThenShapes DEF IInv, RInv, Opening
<1>10. /\ Pending \ {Head(work[c])} \subseteq Pending'
       /\ \A d \in Conns \ {c} : Welcoming(d)' <=> Welcoming(d)
       /\ Welcoming(c)'
  <2>1. /\ Pending \ {Head(work[c])} \subseteq Pending'
        /\ \A d \in Conns \ {c} : Welcoming(d)' <=> Welcoming(d)
    BY <1>1, <1>7, ThenKeeps DEF IInv
  <2>2. Range(work'[c]) = Range(jobs) \cup Range(Tail(work[c]))
    BY <1>1, <1>7, Goes DEF IInv
  <2>3. Welcoming(c)'
    BY <1>3, <1>7, <2>2 DEF Welcoming
  <2> QED  BY <2>1, <2>3
<1>11. \A d \in Conns : Dismissed(d) => Dismissed(d)'
  BY <1>1, <1>10 DEF Dismissed
<1>12. ASSUME NEW d \in Conns
       PROVE  Placed(d)'
  <2>1. CASE d = c
    BY <1>1, <1>10, <2>1 DEF Placed
  <2>2. CASE d # c
    <3>1. Holds(d)' => Holds(d)
      BY <1>1, <2>2, JoinListening DEF IInv, u
    <3>2. Placed(d)
      BY DEF RInv
    <3> QED  BY <1>1, <1>10, <1>11, <2>2, <3>1, <3>2 DEF Placed
  <2> QED  BY <2>1, <2>2
<1> QED  BY <1>9, <1>12 DEF RInv

-----------------------------------------------------------------------------
(* Starting on something *)

LEMMA BeginSettles ==
  ASSUME IInv, RInv, NEW c \in Conns,
         ReadJoin(c) \/ \E what \in Requests : ReadMember(c, what)
  PROVE  RInv'
<1>1. PICK what \in Opening : Begins(c, what)
  BY DEF ReadJoin, ReadMember, Requests, Opening
<1>2. /\ work[c] = <<>> /\ c \in Threads
      /\ UNCHANGED <<room, joined, closing, announced>>
  BY DEF ReadJoin, ReadMember, Reads, Free, Threads, roomVars, connVars, clientVars
<1> DEFINE a == Do(what)
           jobs == <<a>>
<1>3. a.do = what /\ a.frame.news = {}
  BY DEF Do, Plain, Chat
<1>4. work' = [work EXCEPT ![c] = jobs]
  BY <1>1 DEF Begins
<1> HIDE DEF a
<1>5. jobs \in Seq({a}) /\ Len(jobs) = 1 /\ jobs[1] = a /\ Range(jobs) = {a}
  BY DEF Range
<1> HIDE DEF jobs
<1>6. \A i \in 1..Len(jobs) : i = 1
  BY <1>5
<1>7. Shaped(jobs, c) /\ \A job \in Range(jobs) : job.do # "welcome"
  BY <1>3, <1>5, <1>6 DEF Shaped, Opening
<1> QED  BY <1>2, <1>4, <1>5, <1>7, StartSettled DEF Holds

\* Whose flag is cleared is about to leave.
LEMMA LeavingSettles ==
  ASSUME IInv, RInv, NEW c \in Conns, ReadLeave(c) \/ CleanUp(c) \/ Reap(c)
  PROVE  RInv'
<1> DEFINE a == With("leave", {c})
           b == With("close", {c})
<1>1. PICK t \in Threads, rest \in {<<>>, <<b>>} : Leaving(t, c, rest) /\ work[t] = <<>>
  BY DEF ReadLeave, CleanUp, Reap, Threads, Reads, Free
<1>2. UNCHANGED <<room, closing, announced>>
  BY DEF ReadLeave, CleanUp, Reap, roomVars, clientVars
<1>3. /\ a.do = "leave" /\ b.do = "close" /\ a.who = {c}
      /\ a.frame.news = {} /\ b.frame.news = {}
  BY DEF With, Plain, Chat
<1> DEFINE jobs == <<a>> \o rest
<1>4. work' = [work EXCEPT ![t] = jobs] /\ joined' = joined \ {c}
  BY <1>1 DEF Leaving
<1> HIDE DEF a, b
<1>5. /\ jobs \in Seq({a, b}) /\ Len(jobs) \in 1..2 /\ jobs[1] = a
      /\ \A i \in 1..Len(jobs) : jobs[i] \in {a, b}
      /\ \A i \in 1..Len(jobs) : jobs[i] = b \/ i = 1
  <2>1. <<a>> \in Seq({a, b}) /\ Len(<<a>>) = 1 /\ <<a>>[1] = a
    OBVIOUS
  <2>2. rest \in Seq({a, b}) /\ Len(rest) \in 0..1 /\ \A i \in 1..Len(rest) : rest[i] = b
    <3>1. CASE rest = <<>>
      BY <3>1, EmptySeq
    <3>2. CASE rest = <<b>>
      BY <3>2
    <3> QED  BY <3>1, <3>2
  <2> QED  BY <2>1, <2>2, ConcatProperties
<1> HIDE DEF jobs
<1>6. Range(jobs) = {jobs[i] : i \in 1..Len(jobs)}
  BY <1>5, RangeEquality
<1>7. Shaped(jobs, t)
  BY <1>3, <1>5 DEF Shaped, Opening
<1>8. /\ \A job \in Range(jobs) : job.do # "welcome"
      /\ a \in Range(jobs)
  <2>1. 1 \in 1..Len(jobs)
    BY <1>5
  <2> QED  BY <1>3, <1>5, <1>6, <2>1
<1>9. \A d \in joined \ joined' : \E job \in Range(jobs) : job.do = "leave" /\ d \in job.who
  BY <1>3, <1>4, <1>8
<1> QED  BY <1>1, <1>2, <1>4, <1>5, <1>7, <1>8, <1>9, StartSettled DEF Holds

LEMMA StillSettled ==
  ASSUME RInv, UNCHANGED <<room, joined, closing, work, announced>>
  PROVE  RInv'
  BY DEF RInv, Shapes, Placed, Holds, Dismissed, Pending, Welcoming

LEMMA EveryStepSettles ==
  ASSUME IInv, RInv, [Next]_vars
  PROVE  RInv'
<1>1. ASSUME NEW c \in Conns,
             \/ ReadJoin(c) \/ ReadLeave(c)
             \/ \E what \in Requests : ReadMember(c, what)
             \/ Handler(c) \/ CleanUp(c) \/ Reap(c) \/ PeerGone(c)
      PROVE  RInv'
  <2>1. CASE Handler(c)
    BY <2>1, JoinSettles, OpeningSteps, ModerateTargetSettles, KickSettles,
       WelcomeSettles, RelaySettles DEF Handler
  <2>2. CASE PeerGone(c)
    BY <2>2, StillSettled DEF PeerGone, roomVars, clientVars
  <2> QED  BY <1>1, <2>1, <2>2, BeginSettles, LeavingSettles
<1>2. ASSUME NEW t \in Threads, Work(t)
      PROVE  RInv'
  BY <1>2, LeaveSettles, RetireSettles, CloseSettles, AimSettles, DeliverSettles DEF Work
<1>3. CASE UNCHANGED vars
  BY <1>3, StillSettled DEF vars, roomVars, connVars, clientVars
<1> QED  BY <1>1, <1>2, <1>3 DEF Next

\* _handle_join sets conn.joined before anybody is told of the newcomer, and
\* whoever clears it goes on to leave or to close: until then the relay of
\* _handle_signal finds every announced peer, in every crossing.
THEOREM AnnouncedReachable == Spec => []Reachable
<1>1. Init => RInv
  <2> SUFFICES ASSUME Init
               PROVE  RInv
    OBVIOUS
  <2>1. \A t \in Threads : work[t] = <<>> /\ Range(work[t]) = {}
    BY NoJobs DEF Init
  <2>2. Shapes
    BY <2>1 DEF Shapes, Shaped
  <2>3. \A d \in Conns : ~Welcoming(d) /\ ~Holds(d)
    BY <2>1, RoomAssumption DEF Welcoming, Threads, Holds, Init, NewRoom, Absent
  <2> QED  BY <2>2, <2>3 DEF RInv, Placed
<1>2. IInv /\ RInv /\ [Next]_vars => RInv'
  BY EveryStepSettles
<1>3. IInv /\ RInv => Reachable
  BY DEF IInv, TypeOK, RInv, Placed, Reachable
<1> QED  BY <1>1, <1>2, <1>3, FeedInvariant, PTL DEF Spec

=============================================================================
