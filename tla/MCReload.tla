------------------------------ MODULE MCReload ------------------------------
(***************************************************************************)
(* Small instances of Reload for TLC.                                      *)
(***************************************************************************)
EXTENDS Reload, TLC

CONSTANTS h1, h2, b1, b2, p1, p2

On(p, b, hc) == [path |-> p, addr |-> b, hc |-> hc]

\* One host with one server; that server under two paths, which share its
\* identifier although only one of them has it probed, and another host; no
\* upstreams at all.
MCConfigs == {
    h1 :> {On(p1, b1, "yes")},
    h1 :> {On(p1, b2, "none"), On(p2, b2, "no")} @@ h2 :> {On(p1, b1, "yes")},
    Empty }

\* For liveness: two configurations that share a host.
TwoConfigs == {
    h1 :> {On(p1, b1, "yes")},
    h1 :> {On(p1, b1, "yes"), On(p1, b2, "yes")} }

\* The bounds on loads and on changes of the backends, and one on their sum:
\* what the tasks of the system do is not restricted.
BudgetNext == Next /\ loads' + flips' <= 2

\* Four of the starts: changes of the backends bring the other states.
BudgetInit ==
    /\ Init
    /\ \/ <<up[b1], up[b2]>> = <<"plain", "h2">>
       \/ <<up[b1], up[b2]>> = <<"down", "tls">> /\ h2 \in DOMAIN chan[1].cfg

BudgetSpec == BudgetInit /\ [][BudgetNext]_vars /\ Fairness
=============================================================================
