------------------------------ MODULE Buckets ------------------------------
(***************************************************************************)
(* What rate limiting promises: a bucket for each key that fills with the  *)
(* clock and is never forgotten.  A step may take the price of one request *)
(* out of several buckets at once.  `granted` counts the requests that the *)
(* bucket `watched` grants in the window that begins at `from`: any bucket *)
(* and any window.                                                         *)
(***************************************************************************)
EXTENDS Integers

CONSTANTS
  Keys,       \* what is limited
  Capacity,   \* what each bucket holds
  Refill,     \* what each bucket gains in a tick
  Cost        \* the price of one request

VARIABLES now, level, watched, from, granted

window == <<watched, from>>
vars == <<now, level, window, granted>>

Least(a, b) == IF a <= b THEN a ELSE b

Init ==
  /\ now = 0 /\ level = Capacity
  /\ watched \in Keys /\ from \in Nat
  /\ granted = 0

\* A request that the buckets in S grant.
Counted(S) == IF watched \in S /\ now >= from THEN granted + 1 ELSE granted

Grant(S) ==
  /\ \A k \in S : level[k] >= Cost
  /\ level' = [k \in Keys |-> IF k \in S THEN level[k] - Cost ELSE level[k]]
  /\ granted' = Counted(S)
  /\ UNCHANGED <<now, window>>

Tick ==
  /\ now' = now + 1
  /\ level' = [k \in Keys |-> Least(Capacity[k], level[k] + Refill[k])]
  /\ UNCHANGED <<window, granted>>

Next == Tick \/ \E S \in SUBSET Keys : Grant(S)

Spec == Init /\ [][Next]_vars

=============================================================================
