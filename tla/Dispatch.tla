------------------------------ MODULE Dispatch ------------------------------
(***************************************************************************)
(* What routing promises, without the steps it is made of: there is one    *)
(* table, which is replaced at once, and a request is given its server in  *)
(* one step, from that table.                                              *)
(*                                                                         *)
(* The price of the steps is part of the promise.  A request that a        *)
(* rewrite overlaps (not calm) may be refused, or served by DEFAULT        *)
(* instead of its own host, but never from a table that was replaced.  A   *)
(* cookie brings the client back to a server with the identifier it holds, *)
(* which may be one of another path; while the new table is filled it may  *)
(* be ignored, or bring back such a server of an older table, but not      *)
(* another address.                                                        *)
(***************************************************************************)
EXTENDS Naturals, Sequences, SequencesExt

CONSTANTS Hosts, DEFAULT, Paths, Servers, Tables, Clients

VARIABLES
    table,      \* host -> path -> [srv, hdr]
    stage,      \* "calm", or the old table is cleared or the new one filled
    ask,        \* per client, its request: by is the host that serves it
    jar         \* per client, the identifier in its cookie, if it has one

vars == <<table, stage, ask, jar>>

Root == <<"">>
Request(pc, h, p, by, pick, calm) ==
    [pc |-> pc, host |-> h, path |-> p, by |-> by, pick |-> pick, calm |-> calm]
Idle == Request("idle", DEFAULT, Root, {}, {}, TRUE)

\* The longest path of h with servers that is a prefix of path, or "/".
Best(h, path) ==
    LET usable == {p \in DOMAIN table[h] : table[h][p].srv # << >>}
        fit == {p \in usable : IsPrefix(p, path)}
    IN  IF fit # {} THEN {p \in fit : \A q \in fit : Len(q) <= Len(p)}
                    ELSE usable \cap {Root}

\* The hosts that may serve request r.
May(r) ==
    IF r.calm /\ r.host \in DOMAIN table THEN {r.host}
    ELSE (IF r.calm THEN {DEFAULT} ELSE {r.host, DEFAULT}) \cap DOMAIN table

\* The identifier of a server, and the servers of the table that have it.
IdOf(h, s) == [host |-> h, addr |-> s.addr, opt |-> s.opt]
Named(k) ==
    {s \in Servers : /\ IdOf(k.host, s) = k /\ k.host \in DOMAIN table
                     /\ \E p \in DOMAIN table[k.host] : s \in Range(table[k.host][p].srv)}

Fits(k, srv) == \E s \in Range(srv) : s.addr = k.addr

Answer(c, by, pick) ==
    ask' = [ask EXCEPT ![c] = Request("reply", @.host, @.path, by, pick, @.calm)]

ByTurn(c, h, p) ==
    /\ stage # "filling" => \A k \in jar[c] : ~(Named(k) # {} /\ Fits(k, table[h][p].srv))
    /\ \E s \in Range(table[h][p].srv) : Answer(c, {h}, {s})

ByCookie(c, h, p) ==
    \E k \in jar[c] :
        /\ Fits(k, table[h][p].srv)
        /\ \E s \in Servers :
              /\ IdOf(k.host, s) = k
              /\ stage # "filling" => s \in Named(k)
              /\ Answer(c, {h}, {s})

Serve(c) ==
    /\ ask[c].pc = "ask"
    /\ \E h \in May(ask[c]) : \E p \in Best(h, ask[c].path) :
          ByTurn(c, h, p) \/ ByCookie(c, h, p)
    /\ UNCHANGED <<table, stage, jar>>

Refuse(c) ==
    /\ ask[c].pc = "ask"
    /\ ask[c].calm => \A h \in May(ask[c]) : Best(h, ask[c].path) = {}
    /\ Answer(c, {}, {})
    /\ UNCHANGED <<table, stage, jar>>

Arrive(c, h, p) ==
    /\ ask[c].pc = "idle"
    /\ ask' = [ask EXCEPT ![c] = Request("ask", h, p, {}, {}, stage = "calm")]
    /\ UNCHANGED <<table, stage, jar>>

Reply(c) ==
    /\ ask[c].pc = "reply"
    /\ ask' = [ask EXCEPT ![c] = Idle]
    /\ \/ UNCHANGED jar
       \/ /\ ask[c].pick # {}
          /\ jar' = [jar EXCEPT ![c] =
                        {IdOf(e.host, e.srv) : e \in [host : ask[c].by, srv : ask[c].pick]}]
    /\ UNCHANGED <<table, stage>>

Clear ==
    /\ stage = "calm" /\ stage' = "clearing"
    /\ ask' = [c \in Clients |-> [ask[c] EXCEPT !.calm = FALSE]]
    /\ UNCHANGED <<table, jar>>

Replace(t) ==
    /\ stage = "clearing" /\ stage' = "filling"
    /\ table' = t
    /\ UNCHANGED <<ask, jar>>

Settle ==
    /\ stage = "filling" /\ stage' = "calm"
    /\ UNCHANGED <<table, ask, jar>>

Init ==
    /\ table \in Tables
    /\ stage = "calm"
    /\ ask = [c \in Clients |-> Idle]
    /\ jar = [c \in Clients |-> {}]

Next ==
    \/ \E c \in Clients :
          \/ \E h \in Hosts, p \in Paths : Arrive(c, h, p)
          \/ Serve(c) \/ Refuse(c) \/ Reply(c)
    \/ \E t \in Tables : Replace(t)
    \/ Clear \/ Settle

Spec == Init /\ [][Next]_vars
=============================================================================
