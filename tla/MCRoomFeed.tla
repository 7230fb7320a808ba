----------------------------- MODULE MCRoomFeed -----------------------------
(***************************************************************************)
(* An instance of RoomFeed: the owner and a participant with two tabs, and *)
(* what each client does.                                                  *)
(***************************************************************************)
EXTENDS RoomFeed

CONSTANTS o1, p1, p2,     \* connections
          owner, part     \* users

MCUserOf ==
  [c \in Conns |-> IF c = o1 THEN owner ELSE part]

\* Displacement, departures and moderation cross with broadcasts.
MCDoes ==
  [c \in Conns |-> CASE c = o1 -> {"join", "lock", "moderate", "reap"}
                     [] c = p1 -> {"join", "mute", "leave", "signal", "chat"}
                     [] OTHER  -> {"join", "gone"}]

=============================================================================
