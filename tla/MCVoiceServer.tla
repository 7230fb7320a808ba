--------------------------- MODULE MCVoiceServer ---------------------------
(* Instances of VoiceServer: who owns which connection, from where. *)
EXTENDS VoiceServer

CONSTANTS o1, o2, m1, p1, p2,   \* connections
          owner, mod, part,     \* users
          home, cafe            \* addresses

MCUserOf ==
  [c \in Conns |-> CASE c \in {o1, o2} -> owner
                     [] c = m1 -> mod
                     [] OTHER -> part]

MCIpOf == [c \in Conns |-> IF c \in {o1, p1} THEN home ELSE cafe]

=============================================================================
