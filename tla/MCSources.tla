----------------------------- MODULE MCSources ------------------------------
(* An instance of Sources: two upstreams, one of them at two hosts. *)
EXTENDS Sources, TLC

CONSTANTS a, b

MCMappings ==
    <<[upstream |-> "s1", hostname |-> "h", path |-> "/"],
      [upstream |-> "s2", hostname |-> "h", path |-> "/x"],
      [upstream |-> "s2", hostname |-> "g", path |-> "/"]>>

\* No endpoints, two subsets.
MCEndpoints == {<< >>, <<{b}, {a}>>}

\* Posted: a table, and a configuration of a discovery, which has none.
MCBodies == {<< >>, "h" :> ("/" :> {b})}
=============================================================================
