------------------------------- MODULE MCAcme -------------------------------
(* Instances of Acme: the two names share a shard, or each has its own. *)
EXTENDS Acme, TLC

CONSTANTS d1, d2

MCShared == {d1 :> 1 @@ d2 :> 1}
MCApart == {d1 :> 1 @@ d2 :> 2}

\* For the run with faults: d2 is not known at the start, a request to the API
\* brings it, in the middle of whatever the refresh does.
StartInit == Init /\ d2 \notin domains

StartSpec == StartInit /\ [][Next]_vars /\ Fairness
=============================================================================
