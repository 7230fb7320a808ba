----------------------------- MODULE MCTickets -----------------------------
(* Tickets with interchangeable users and handshakes. *)
EXTENDS Tickets, TLC

Interchangeable == Permutations(Users) \cup Permutations(Handshakes)

=============================================================================
