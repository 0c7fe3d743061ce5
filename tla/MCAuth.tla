------------------------------- MODULE MCAuth -------------------------------
(* An instance of Auth: foreign tokens with the wrong key, with the right   *)
(* one (made elsewhere) and without an expiry.                              *)
EXTENDS Auth, TLC

CONSTANTS otherKey

MCForeign ==
    {[key |-> otherKey, exp |-> 2, form |-> "ok"], [key |-> EnvKey, exp |-> 1, form |-> "ok"],
     [key |-> EnvKey, exp |-> 2, form |-> "noexp"]}

SlotSymmetry == Permutations(Slots)
=============================================================================
