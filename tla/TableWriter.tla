---------------------------- MODULE TableWriter -----------------------------
(***************************************************************************)
(* One writer of ump_upst and ump_byid: it clears ump_upst and fills it    *)
(* host by host from one table, and then ump_byid from the same table,     *)
(* before it starts with another.  This is what Routing assumes of the     *)
(* tasks that rewrite the tables; it takes the clears apart, which nobody  *)
(* but the requests can see.                                               *)
(***************************************************************************)
CONSTANT Ids(_, _)      \* the sets of entries that ump_byid may get for a host

VARIABLES
    table,      \* the table written last, or being written
    upst, byid,
    pc,         \* the map being filled
    left        \* the hosts left

vars == <<table, upst, byid, pc, left>>

Empty == [h \in {} |-> {}]

Start ==
    /\ pc = "idle" /\ pc' = "upst"
    /\ upst' = Empty /\ left' = DOMAIN table'
    /\ UNCHANGED byid

PutHost(h) ==
    /\ pc = "upst" /\ h \in left /\ left' = left \ {h}
    /\ upst' = [x \in DOMAIN upst \cup {h} |-> IF x = h THEN table[h] ELSE upst[x]]
    /\ UNCHANGED <<table, byid, pc>>

ClearById ==
    /\ pc = "upst" /\ left = {}
    /\ pc' = "byid" /\ byid' = {} /\ left' = DOMAIN table
    /\ UNCHANGED <<table, upst>>

PutIds(h) ==
    /\ pc = "byid" /\ h \in left /\ left' = left \ {h}
    /\ \E P \in Ids(h, table[h]) : byid' = byid \cup P
    /\ UNCHANGED <<table, upst, pc>>

Done ==
    /\ pc = "byid" /\ left = {} /\ pc' = "idle"
    /\ UNCHANGED <<table, upst, byid, left>>

Init == pc = "idle" /\ left = {} /\ table = Empty /\ upst = Empty /\ byid = {}

Next == Start \/ ClearById \/ Done \/ \E h \in left : PutHost(h) \/ PutIds(h)

Spec == Init /\ [][Next]_vars
=============================================================================
