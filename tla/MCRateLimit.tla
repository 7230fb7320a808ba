---------------------------- MODULE MCRateLimit ----------------------------
(* Two HTTP clients and a connection that sends one kind of event. *)
EXTENDS RateLimit

CONSTANTS slow, fast, chat, glob

MCCapacity == [k \in Keys |-> IF k = glob THEN 6 ELSE 3]

MCRefill == [k \in Keys |-> IF k = slow THEN 1 ELSE 3]

=============================================================================
