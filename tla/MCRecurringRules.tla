-------------------------- MODULE MCRecurringRules --------------------------
(* Two days.  Users submit rules that start on the first day, first due on *)
(* it or moved to the second, without an end or ending on the first.  A    *)
(* behaviour has a rule in euros and one in dollars, both without an end,  *)
(* and one edit or crash, or a rule in dollars alone and two of them.      *)
EXTENDS RecurringRules

CONSTANTS euro, dollar
VARIABLE alone

Row(next, anchor, end) == [next |-> next, anchor |-> anchor, end |-> end, auto |-> TRUE]

MCRuleInput == {Row(1, 2, Never), Row(1, 1, 1)}

\* A schedule that has begun, and one moved to the last of three days.
MCStartInput == {Row(1, 1, Never), Row(3, 3, Never)}

PartInit == Init /\ alone \in BOOLEAN
PartNext ==
  /\ Next
  /\ IF alone THEN DOMAIN rules' \subseteq {dollar}
     ELSE edits' <= 1 /\ \A r \in DOMAIN rules' : rules'[r].end = Never
  /\ UNCHANGED alone
PartSpec == PartInit /\ [][PartNext]_<<vars, alone>>
FairPartSpec == PartInit /\ [][PartNext]_<<vars, alone>> /\ Fairness
=============================================================================
