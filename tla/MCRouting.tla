----------------------------- MODULE MCRouting ------------------------------
(***************************************************************************)
(* Small instances of Routing for TLC.                                     *)
(***************************************************************************)
EXTENDS Routing, TLC

CONSTANTS h1, default, a1, a2, a3, x, y

A == <<"a">>
AB == <<"a", "b">>
MCPaths == {<< >>, Root, A, AB}

S(a, o, r) == [addr |-> a, opt |-> o, rest |-> r]
R(s, b) == [srv |-> s, hdr |-> b]
MCServers == [addr : {a1, a2, a3}, opt : {x, y}, rest : {x, y}]

Fallback == Root :> R(<<S(a3, x, x)>>, FALSE)

\* Nested paths, one of them without a live server; two paths have servers with
\* one identifier, which differ in what it leaves out.
Before ==
    h1 :> (   Root :> R(<<S(a1, x, x), S(a2, x, x)>>, TRUE)
           @@ A :> R(<< >>, TRUE)
           @@ AB :> R(<<S(a1, x, y)>>, FALSE))
    @@ default :> Fallback

\* A server with other options, a nested path less, and the path "".
After ==
    h1 :> (   Root :> R(<<S(a1, y, x), S(a2, x, x)>>, FALSE)
           @@ << >> :> R(<<S(a3, y, x)>>, TRUE)
           @@ A :> R(<<S(a2, x, y)>>, TRUE))
    @@ default :> Fallback

\* The host is gone; only the catch-all is left.
Gone == default :> Fallback

MCTables == {Before, After, Gone}

\* Clients are interchangeable.
Symmetry == Permutations(Clients)

\* A table is rewritten by one other: h1 changes, or it goes.
Rewrites == {<<Before, After>>, <<After, Gone>>}

\* Bounds on the environment: it starts with a table that is rewritten, the
\* rewrites are those, and requests are for "/" or the deepest path of h1, which
\* DEFAULT serves while h1 is not there.
BoundedInit == Init /\ table \in {Before, After}

BoundedNext ==
    /\ Next
    /\ (wPc = "clear" /\ wPc' = "upst") => <<table, table'>> \in Rewrites
    /\ \A c \in Clients :
          req'[c].pc = "host" => req'[c].host = h1 /\ req'[c].path \in {Root, AB}

BoundedSpec == BoundedInit /\ [][BoundedNext]_vars
=============================================================================
