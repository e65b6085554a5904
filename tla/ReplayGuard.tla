----------------------------- MODULE ReplayGuard -----------------------------
(***************************************************************************)
(* What the trust service promises a protected backend: a request is       *)
(* granted on a token only while the token is open, and each grant carries *)
(* a sequence number above every number the token has already spent.       *)
(***************************************************************************)
EXTENDS Integers

CONSTANTS Tokens, Seqs

VARIABLES state,     \* "closed" (not minted), "open" or "ended", by token
          spent,     \* the highest sequence number spent, by token
          granted    \* the <<token, sequence>> pairs granted so far

guardVars == <<state, spent, granted>>

GuardInit ==
    /\ state = [t \in Tokens |-> "closed"]
    /\ spent = [t \in Tokens |-> 0]
    /\ granted = {}

Open(t) ==
    /\ state[t] = "closed"
    /\ state' = [state EXCEPT ![t] = "open"]
    /\ UNCHANGED <<spent, granted>>

End(t) ==
    /\ state[t] # "ended"
    /\ state' = [state EXCEPT ![t] = "ended"]
    /\ UNCHANGED <<spent, granted>>

\* A number may be spent without a grant: its answer was lost.
Spend(t, s) ==
    /\ state[t] = "open"
    /\ s > spent[t]
    /\ spent' = [spent EXCEPT ![t] = s]
    /\ granted' \in {granted, granted \cup {<<t, s>>}}
    /\ UNCHANGED state

GuardNext == \E t \in Tokens : \/ Open(t)
                               \/ End(t)
                               \/ \E s \in Seqs : Spend(t, s)

GuardSpec == GuardInit /\ [][GuardNext]_guardVars
=============================================================================
