----------------------------- MODULE MCLimiter ------------------------------
(***************************************************************************)
(* An instance of Limiter: a route with limits of its own and two that     *)
(* fall back on the global ones.                                           *)
(***************************************************************************)
EXTENDS Limiter, TLC

Own    == [rate |-> {2}, x4xx |-> {1}, auth |-> TRUE, moved |-> FALSE]
Plain  == [rate |-> {}, x4xx |-> {}, auth |-> FALSE, moved |-> FALSE]
Moved  == [rate |-> {}, x4xx |-> {}, auth |-> FALSE, moved |-> TRUE]

MCRoutes == {Own, Plain, Moved}

\* A global rate limit below the one of Own, and no global limit on 4xx.
MCGlobal == [rate |-> {1}, x4xx |-> {}, auth |-> FALSE]

Symmetry == Permutations(Slots) \cup Permutations(Clients)
=============================================================================
