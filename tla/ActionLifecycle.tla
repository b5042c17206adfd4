--------------------------- MODULE ActionLifecycle ---------------------------
(***************************************************************************)
(* What the Assistant promises about a proposed change, whatever requests  *)
(* and turns run at once: it is decided at most once, takes effect exactly *)
(* when it was approved, and is undone at most once, by an approved undo.  *)
(***************************************************************************)
EXTENDS Naturals

CONSTANT ActionId

VARIABLES
  status,   \* none, proposed, applied, dismissed, failed, undone, or gone
  effects   \* how often the change was made

vars == <<status, effects>>

Init == status = [k \in ActionId |-> "none"] /\ effects = [k \in ActionId |-> 0]

\* Between them, the changes of one step: some are proposed, some closed.
Close(k) == status[k] = "proposed" /\ status'[k] \in {"dismissed", "gone"}
Forget(k) == status[k] # "none" /\ status'[k] = "gone"
Settle ==
  /\ \A k \in ActionId :
       \/ status'[k] = status[k]
       \/ status[k] = "none" /\ status'[k] = "proposed"
       \/ Close(k)
       \/ Forget(k)
  /\ DOMAIN status' = ActionId
  /\ UNCHANGED effects

Fail(k) ==
  /\ status[k] = "proposed"
  /\ status' = [status EXCEPT ![k] = "failed"]
  /\ UNCHANGED effects

Apply(k) ==
  /\ status[k] = "proposed"
  /\ status' = [status EXCEPT ![k] = "applied"]
  /\ effects' = [effects EXCEPT ![k] = @ + 1]

Undo(k, original) ==
  /\ status[k] = "proposed" /\ status[original] = "applied" /\ k # original
  /\ status' = [status EXCEPT ![k] = "applied", ![original] = "undone"]
  /\ effects' = [effects EXCEPT ![k] = @ + 1]

Next ==
  \/ Settle
  \/ \E k \in ActionId :
       Fail(k) \/ Apply(k) \/ \E original \in ActionId : Undo(k, original)

Spec == Init /\ [][Next]_vars
=============================================================================
