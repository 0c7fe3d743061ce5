----------------------------- MODULE TokenCheck -----------------------------
(***************************************************************************)
(* What a check of a token promises, whatever it remembers of earlier ones *)
(* (the contract of check_jwt in jwt.rs).                                  *)
(*                                                                         *)
(* A token is accepted only if it is signed with the secret and had not    *)
(* expired when the check began; one that is signed with the secret is     *)
(* refused only if it has expired when the check ends.  In the second in   *)
(* which it expires either answer is right.                                *)
(***************************************************************************)
EXTENDS Naturals

CONSTANTS Slots, Tokens

VARIABLES
    secret,     \* the key tokens are to be signed with
    now,        \* seconds
    check       \* per slot, {} or the one [tok, since, verdict] under way

Verdicts == {"none", "accept", "refuse"}

Genuine(tok) == tok.form = "ok" /\ tok.key = secret

Init ==
    /\ now = 0
    /\ check = [s \in Slots |-> {}]

Ask(s, tok) ==
    /\ check[s] = {}
    /\ check' = [check EXCEPT ![s] = {[tok |-> tok, since |-> now, verdict |-> "none"]}]
    /\ UNCHANGED <<secret, now>>

Decide(s, verdict) ==
    \E c \in check[s] :
        /\ c.verdict = "none"
        /\ verdict = "accept" => Genuine(c.tok) /\ c.tok.exp >= c.since
        /\ verdict = "refuse" => ~Genuine(c.tok) \/ c.tok.exp <= now
        /\ check' = [check EXCEPT ![s] = {[c EXCEPT !.verdict = verdict]}]
        /\ UNCHANGED <<secret, now>>

Forget(s) ==
    /\ \E c \in check[s] : c.verdict # "none"
    /\ check' = [check EXCEPT ![s] = {}]
    /\ UNCHANGED <<secret, now>>

Tick ==
    /\ now' = now + 1
    /\ UNCHANGED <<secret, check>>

Next ==
    \/ \E s \in Slots :
          \/ \E tok \in Tokens : Ask(s, tok)
          \/ \E verdict \in {"accept", "refuse"} : Decide(s, verdict)
          \/ Forget(s)
    \/ Tick

Spec == Init /\ [][Next]_<<secret, now, check>>
=============================================================================
