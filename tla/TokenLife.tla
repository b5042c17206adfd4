----------------------------- MODULE TokenLife ------------------------------
(***************************************************************************)
(* What a secret token promises its holder and everybody else: it is       *)
(* handed out once, opens doors until it is closed, and stays closed.      *)
(***************************************************************************)
EXTENDS FiniteSets

CONSTANT Token

VARIABLES
  issued,  \* the tokens that have been handed out
  open     \* those that are accepted

vars == <<issued, open>>

TypeOK == issued \subseteq Token /\ open \subseteq issued

Init == issued = {} /\ open = {}

\* A sign-in hands out one token, which may replace another one.
Issue ==
  \E t \in Token \ issued, closed \in SUBSET open :
    /\ issued' = issued \cup {t}
    /\ open' \in {open \ closed, (open \ closed) \cup {t}}

\* A sign-out, the passing of time, or anything else that only closes.
Close ==
  /\ open' \in SUBSET open
  /\ UNCHANGED issued

Next == Issue \/ Close

Spec == Init /\ [][Next]_vars
=============================================================================
