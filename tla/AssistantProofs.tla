-------------------------- MODULE AssistantProofs --------------------------
(***************************************************************************)
(* Whatever windows share a chat, every proposed change lives the life of  *)
(* ActionLifecycle, and is made exactly if it was approved.  Cards, turns  *)
(* and messages play no part: what decides is the claim of a row that is   *)
(* still proposed, under the write lock.                                   *)
(*                                                                         *)
(* The second part is about the cards.  Its invariant ChatInv says what a  *)
(* request or a run may still believe of the chat it read: with one window *)
(* its copy is the turn as it is, and the last turn's pending cards are    *)
(* the changes that wait, each the newest action of its tool call.         *)
(*                                                                         *)
(* The third part is about what the cards do to the data (Plans).  Its     *)
(* invariant PlansInv says of a pending card that its plan is one its data *)
(* (seen) would let through, and of an applied one that the stored inverse *)
(* takes the data it left back to the data it found; then what an approval *)
(* or an undo writes is worked out row by row.                             *)
(***************************************************************************)
EXTENDS MCAssistant, DataLemmas

Row == Action \cup {NoAction}

\* What the argument needs of a state: rows and counts are well formed, and a request
\* that is deciding picked a row of the table.
Typed ==
  /\ actions \in [ActionId -> Row]
  /\ effects \in [ActionId -> Nat]
  /\ client = [c \in Client |-> client[c]]
  /\ \A c \in Client : client[c].pc = "deciding" => client[c].picked \in ActionId

\* The inductive invariant.
AssistantInv == Typed /\ AppliedOnce

LEMMA RowFacts ==
  /\ NoAction \notin Action
  /\ \A row \in Row : row.status \in {"none", "proposed", "applied", "dismissed",
                                      "failed", "undone", "gone"}
  /\ \A row \in Row : row.status # "none" => row \in Action
BY DEF Row, Action, NoAction

-----------------------------------------------------------------------------
LEMMA LatestActionStored ==
  ASSUME NEW call, ActionsOf({call}) # {}
  PROVE  LatestAction(call) \in ActionId
<1>1. ActionId \subseteq Int /\ IsFiniteSet(ActionId)
  BY AssistantAssumption, FS_Interval DEF ActionId
<1>2. ActionsOf({call}) \subseteq ActionId
  BY DEF ActionsOf, Stored
<1> QED BY <1>1, <1>2, FS_Subset, MaxInSet DEF LatestAction

-----------------------------------------------------------------------------
(* Operators that write action rows.                                       *)
LEMMA SetStatusFacts ==
  ASSUME actions \in [ActionId -> Row], NEW ids, NEW status \in {"dismissed", "failed", "gone"},
         \A k \in ids \cap ActionId : actions[k].status # "none"
  PROVE  /\ SetStatus(ids, status) \in [ActionId -> Row]
         /\ \A k \in ActionId :
              SetStatus(ids, status)[k].status = IF k \in ids THEN status ELSE actions[k].status
<1>1. ASSUME NEW k \in ActionId, k \in ids
      PROVE  /\ [actions[k] EXCEPT !.status = status] \in Action
             /\ [actions[k] EXCEPT !.status = status].status = status
  <2>1. actions[k] \in Action
    BY <1>1, RowFacts
  <2> QED BY <2>1 DEF Action
<1> QED BY <1>1 DEF SetStatus, Row

LEMMA InsertedFacts ==
  ASSUME actions \in [ActionId -> Row], NEW base \in [ActionId -> Row],
         NEW calls \in SUBSET Call, NEW id \in [calls -> Unused],
         NEW undoes \in [calls -> {NoUndo} \cup Undoable]
  PROVE  /\ Inserted(base, calls, id, undoes) \in [ActionId -> Row]
         /\ \A k \in ActionId :
              \/ Inserted(base, calls, id, undoes)[k] = base[k]
              \/ /\ actions[k].status = "none"
                 /\ Inserted(base, calls, id, undoes)[k].status = "proposed"
<1> DEFINE New(k) == \E call \in calls : id[call] = k
           Of(k) == CHOOSE call \in calls : id[call] = k
           Fresh(k) == [call |-> Of(k), undoes |-> undoes[Of(k)], status |-> "proposed"]
<1>1. ASSUME NEW k \in ActionId, New(k)
      PROVE  Fresh(k) \in Action /\ actions[k].status = "none"
  <2>1. Of(k) \in calls /\ id[Of(k)] = k
    BY <1>1
  <2>2. undoes[Of(k)] \in {NoUndo} \cup ActionId /\ Of(k) \in Call /\ k \in Unused
    BY <2>1 DEF Undoable
  <2> QED BY <2>2 DEF Action, Unused
<1>2. \A k \in ActionId : Inserted(base, calls, id, undoes)[k]
                            = IF New(k) THEN Fresh(k) ELSE base[k]
  BY DEF Inserted
<1>3. ASSUME NEW k \in ActionId PROVE Fresh(k).status = "proposed"
  OBVIOUS
<1>4. Inserted(base, calls, id, undoes)
        = [k \in ActionId |-> IF New(k) THEN Fresh(k) ELSE base[k]]
  BY DEF Inserted
<1> HIDE DEF New, Fresh
<1> QED BY <1>1, <1>2, <1>3, <1>4 DEF Row

-----------------------------------------------------------------------------
(* Every step keeps the rows well formed and is a step of the abstract     *)
(* life, or no step of it.                                                 *)
Good == Typed' /\ [Lifecycle!Next]_(Lifecycle!vars)

\* Steps that write no action row.
LEMMA QuietStep ==
  ASSUME Typed, UNCHANGED <<actions, effects>>,
         NEW c \in Client, NEW state, client' = [client EXCEPT ![c] = state],
         state.pc = "deciding" => state.picked \in ActionId
  PROVE  Good
<1>1. Typed'
  BY DEF Typed
<1> QED BY <1>1 DEF Good, Lifecycle!vars

\* Steps that open, close or forget rows and make no change.
LEMMA SettleStep ==
  ASSUME Typed', UNCHANGED effects,
         \A k \in ActionId :
           \/ actions'[k].status = actions[k].status
           \/ actions[k].status = "none" /\ actions'[k].status = "proposed"
           \/ actions[k].status = "proposed" /\ actions'[k].status \in {"dismissed", "gone"}
           \/ actions[k].status # "none" /\ actions'[k].status = "gone"
  PROVE  Good
<1>1. Lifecycle!Settle
  BY DEF Lifecycle!Settle, Lifecycle!Close, Lifecycle!Forget
<1> QED BY <1>1 DEF Good, Lifecycle!Next

LEMMA DismissPendingStep ==
  ASSUME Typed, NEW c \in Client, DismissPending(c)
  PROVE  Good
<1> DEFINE claimed == {k \in client[c].picked : Claims(k)}
<1>1. PICK state : client' = [client EXCEPT ![c] = state] /\ state.pc # "deciding"
  BY DEF DismissPending, Begin, Idle
<1>2. actions' = actions \/ actions' = SetStatus(claimed, "dismissed")
  BY DEF DismissPending
<1>3. UNCHANGED effects
  BY DEF DismissPending
<1>4. CASE actions' = actions
  BY <1>1, <1>3, <1>4, QuietStep
<1>5. CASE actions' = SetStatus(claimed, "dismissed")
  <2>1. \A k \in claimed \cap ActionId : actions[k].status = "proposed"
    BY DEF Claims
  <2>2. /\ actions' \in [ActionId -> Row]
        /\ \A k \in ActionId :
             actions'[k].status = IF k \in claimed THEN "dismissed" ELSE actions[k].status
    <3> HIDE DEF claimed
    <3> QED BY <1>5, <2>1, SetStatusFacts DEF Typed
  <2>3. Typed'
    BY <1>1, <1>3, <2>2 DEF Typed
  <2> HIDE DEF claimed
  <2> QED BY <1>3, <2>1, <2>2, <2>3, SettleStep
<1> QED BY <1>2, <1>4, <1>5

LEMMA CloseChatStep ==
  ASSUME Typed, DeleteChat \/ Prune
  PROVE  Good
<1>1. UNCHANGED <<effects, client>>
  BY DEF DeleteChat, Prune
<1>2. CASE DeleteChat
  <2>1. actions' = SetStatus(Proposed, "dismissed")
    BY <1>2 DEF DeleteChat
  <2>2. \A k \in Proposed : actions[k].status = "proposed"
    BY DEF Proposed
  <2>3. /\ actions' \in [ActionId -> Row]
        /\ \A k \in ActionId :
             actions'[k].status = IF k \in Proposed THEN "dismissed" ELSE actions[k].status
    BY <2>1, <2>2, SetStatusFacts DEF Typed
  <2>4. Typed'
    BY <1>1, <2>3 DEF Typed
  <2> QED BY <1>1, <2>2, <2>3, <2>4, SettleStep
<1>3. CASE Prune
  <2>1. actions' = SetStatus(Stored, "gone")
    BY <1>3 DEF Prune
  <2>2. \A k \in Stored : actions[k].status # "none"
    BY DEF Stored
  <2>3. /\ actions' \in [ActionId -> Row]
        /\ \A k \in ActionId :
             actions'[k].status = IF k \in Stored THEN "gone" ELSE actions[k].status
    BY <2>1, <2>2, SetStatusFacts DEF Typed
  <2>4. Typed'
    BY <1>1, <2>3 DEF Typed
  <2> QED BY <1>1, <2>2, <2>3, <2>4, SettleStep
<1> QED BY <1>2, <1>3

LEMMA FinishRunStep ==
  ASSUME Typed, NEW c \in Client, Finish(c)
  PROVE  Good
<1>1. PICK calls \in SUBSET Call, completed \in BOOLEAN, row \in BOOLEAN :
        \E id \in NewIds(calls), undoes \in [calls -> {NoUndo} \cup Undoable] :
          FinishRun(c, calls, completed, id, undoes, row)
  BY DEF Finish
<1>2. PICK id \in [calls -> Unused], undoes \in [calls -> {NoUndo} \cup Undoable] :
        FinishRun(c, calls, completed, id, undoes, row)
  BY <1>1 DEF NewIds
<1>3. client' = [client EXCEPT ![c] = Idle] /\ UNCHANGED effects /\ Idle.pc # "deciding"
  BY <1>2 DEF FinishRun, Idle
<1> DEFINE closed == SetStatus(Proposed, "dismissed")
           saved(base, new) == Inserted(base, new, id, undoes)
<1>4. \/ actions' = actions
      \/ \E new \in {calls, {}} : actions' = saved(actions, new) \/ actions' = saved(closed, new)
  BY <1>2 DEF FinishRun
<1>5. \A k \in Proposed : actions[k].status = "proposed"
  BY DEF Proposed
<1>6. /\ closed \in [ActionId -> Row]
      /\ \A k \in ActionId :
           closed[k].status = IF k \in Proposed THEN "dismissed" ELSE actions[k].status
  BY <1>5, SetStatusFacts DEF Typed
<1>7. CASE actions' = actions
  BY <1>3, <1>7, QuietStep
<1>8. ASSUME NEW new \in {calls, {}}, NEW base \in {actions, closed},
             actions' = saved(base, new)
      PROVE  Good
  <2>1. base \in [ActionId -> Row]
    BY <1>6, <1>8 DEF Typed
  <2>2. \A k \in ActionId : \/ base[k].status = actions[k].status
                            \/ /\ actions[k].status = "proposed"
                               /\ base[k].status = "dismissed"
    BY <1>5, <1>6, <1>8
  <2>3. new \in SUBSET Call /\ new \subseteq calls
    BY <1>8
  <2>4. /\ actions' = Inserted(base, new, [call \in new |-> id[call]],
                               [call \in new |-> undoes[call]])
        /\ [call \in new |-> id[call]] \in [new -> Unused]
        /\ [call \in new |-> undoes[call]] \in [new -> {NoUndo} \cup Undoable]
    BY <1>8, <2>3 DEF Inserted
  <2>5. PICK i \in [new -> Unused], u \in [new -> {NoUndo} \cup Undoable] :
          actions' = Inserted(base, new, i, u)
    BY <2>4
  <2>6. /\ actions' \in [ActionId -> Row]
        /\ \A k \in ActionId :
             \/ actions'[k] = base[k]
             \/ actions[k].status = "none" /\ actions'[k].status = "proposed"
    <3>1. actions \in [ActionId -> Row]
      BY DEF Typed
    <3> HIDE DEF closed
    <3> QED BY <2>1, <2>3, <2>5, <3>1, InsertedFacts
  <2>7. Typed'
    BY <1>3, <2>6 DEF Typed
  <2> QED BY <1>3, <2>2, <2>6, <2>7, SettleStep
<1> HIDE DEF closed, saved
<1> QED BY <1>4, <1>7, <1>8

LEMMA ClaimAndDecideStep ==
  ASSUME Typed, NEW c \in Client, ClaimAndDecide(c)
  PROVE  Good
<1>0. PICK mine \in ActionId : mine = client[c].picked
  BY DEF ClaimAndDecide, Typed
<1>1. PICK state : client' = [client EXCEPT ![c] = state] /\ state.pc # "deciding"
  <2>1. \/ client' = [client EXCEPT ![c] = Idle]
        \/ Begin(c, "continue", client[c].copy.seq)
    BY DEF ClaimAndDecide
  <2>2. Idle.pc # "deciding"
    BY DEF Idle
  <2> DEFINE begun == [pc |-> "starting", mode |-> "continue", seq |-> client[c].copy.seq]
  <2>3. begun.pc # "deciding"
    OBVIOUS
  <2>4. client' = [client EXCEPT ![c] = Idle] \/ client' = [client EXCEPT ![c] = begun]
    BY <2>1 DEF Begin
  <2> HIDE DEF begun
  <2> QED BY <2>2, <2>3, <2>4
<1>2. actions[mine] \in Row
  BY DEF Typed
<1>3. CASE UNCHANGED <<actions, effects>>
  BY <1>1, <1>3, QuietStep
<1>4. ASSUME NEW status \in {"dismissed", "failed"}, Claims(mine),
             actions' = SetStatus({mine}, status), UNCHANGED effects
      PROVE  Good
  <2>1. \A i \in {mine} \cap ActionId : actions[i].status # "none"
    BY <1>4 DEF Claims
  <2>2. /\ actions' \in [ActionId -> Row]
        /\ \A i \in ActionId :
             actions'[i].status = IF i \in {mine} THEN status ELSE actions[i].status
    <3> QED BY <1>4, <2>1, SetStatusFacts DEF Typed
  <2>3. Typed'
    BY <1>1, <1>4, <2>2 DEF Typed
  <2>4. CASE status = "dismissed"
    <3> QED BY <1>4, <2>2, <2>3, <2>4, SettleStep DEF Claims
  <2>5. CASE status = "failed"
    <3>1. Lifecycle!Fail(mine)
      BY <1>2, <1>4, <2>2, <2>5 DEF Lifecycle!Fail, Claims
    <3>2. Lifecycle!Next
      BY <1>2, <3>1 DEF Lifecycle!Next
    <3> QED BY <2>3, <3>2 DEF Good
  <2> QED BY <1>4, <2>4, <2>5
<1>5. ASSUME Claims(mine), Applies(mine), actions' = Approved(mine),
             effects' = [effects EXCEPT ![mine] = @ + 1]
      PROVE  Good
  <2>1. actions[mine] \in Action /\ actions[mine].status = "proposed"
    BY <1>2, <1>5, RowFacts DEF Claims
  <2>2. PICK original \in {NoUndo} \cup ActionId : original = actions[mine].undoes
    BY <2>1 DEF Action
  <2>3. original \in ActionId => /\ actions[original].status = "applied"
                                 /\ actions[original] \in Action /\ original # mine
    BY <1>5, <2>1, <2>2, RowFacts DEF Applies, Typed
  <2>4. \A i \in ActionId :
          actions'[i].status = IF i = mine THEN "applied"
                               ELSE IF i = original THEN "undone" ELSE actions[i].status
    BY <1>2, <1>5, <2>1, <2>2, <2>3 DEF Approved, Action
  <2>5. actions' \in [ActionId -> Row]
    <3>1. ASSUME NEW i \in ActionId PROVE Approved(mine)[i] \in Row
      BY <1>2, <2>1, <2>2, <2>3 DEF Approved, Action, Row, Typed
    <3>2. Approved(mine) = [i \in ActionId |-> Approved(mine)[i]]
      BY DEF Approved
    <3> QED BY <1>5, <3>1, <3>2
  <2>6. Typed'
    <3>1. effects' \in [ActionId -> Nat]
      BY <1>2, <1>5 DEF Typed
    <3> QED BY <1>1, <2>5, <3>1 DEF Typed
  <2>7. CASE original = NoUndo
    <3>1. original \notin ActionId
      BY <2>7 DEF NoUndo, ActionId
    <3>2. Lifecycle!Apply(mine)
      BY <1>2, <1>5, <2>1, <2>4, <3>1 DEF Lifecycle!Apply
    <3>3. Lifecycle!Next
      BY <1>2, <3>2 DEF Lifecycle!Next
    <3> QED BY <2>6, <3>3 DEF Good
  <2>8. CASE original \in ActionId
    <3>1. Lifecycle!Undo(mine, original)
      BY <1>2, <1>5, <2>1, <2>3, <2>4, <2>8 DEF Lifecycle!Undo
    <3>2. Lifecycle!Next
      BY <1>2, <2>8, <3>1 DEF Lifecycle!Next
    <3> QED BY <2>6, <3>2 DEF Good
  <2> QED BY <2>2, <2>7, <2>8
<1>6. \/ UNCHANGED <<actions, effects>>
      \/ \E status \in {"dismissed", "failed"} :
           Claims(mine) /\ actions' = SetStatus({mine}, status) /\ UNCHANGED effects
      \/ /\ Claims(mine) /\ Applies(mine) /\ actions' = Approved(mine)
         /\ effects' = [effects EXCEPT ![mine] = @ + 1]
  BY <1>0 DEF ClaimAndDecide
<1> QED BY <1>3, <1>4, <1>5, <1>6

LEMMA StepGood == Typed /\ [Next]_vars => Good
<1> SUFFICES ASSUME Typed, [Next]_vars PROVE Good
  OBVIOUS
<1>1. ASSUME NEW c \in Client,
             FirstQuestion(c) \/ Ask(c) \/ Retry(c) \/ StartRun(c) \/ Crash(c)
      PROVE  Good
  <2>1. UNCHANGED <<actions, effects>>
    BY <1>1 DEF FirstQuestion, Ask, Retry, StartRun, Crash
  <2>2. \E state : client' = [client EXCEPT ![c] = state] /\ state.pc # "deciding"
    BY <1>1 DEF FirstQuestion, Ask, Retry, StartRun, Crash, Begin, Idle
  <2>3. PICK state : client' = [client EXCEPT ![c] = state] /\ state.pc # "deciding"
    BY <2>2
  <2> QED BY <2>1, <2>3, QuietStep
<1>2. ASSUME NEW c \in Client, NEW call \in Call, NEW approve \in BOOLEAN,
             Decide(c, call, approve)
      PROVE  Good
  <2> DEFINE state == [pc |-> "deciding", copy |-> Copy(LastSeq),
                       picked |-> LatestAction(call), approve |-> approve]
  <2>1. client' = [client EXCEPT ![c] = state] /\ UNCHANGED <<actions, effects>>
    BY <1>2 DEF Decide
  <2>2. state.picked \in ActionId
    BY <1>2, LatestActionStored DEF Decide
  <2> HIDE DEF state
  <2> QED BY <2>1, <2>2, QuietStep
<1>3. ASSUME NEW c \in Client, DismissPending(c) \/ ClaimAndDecide(c) \/ Finish(c)
      PROVE  Good
  BY <1>3, DismissPendingStep, ClaimAndDecideStep, FinishRunStep
<1>4. CASE DeleteChat \/ Prune
  BY <1>4, CloseChatStep
<1>5. CASE UNCHANGED vars
  BY <1>5 DEF vars, Good, Typed, Lifecycle!vars
<1> QED BY <1>1, <1>2, <1>3, <1>4, <1>5 DEF Next

-----------------------------------------------------------------------------
\* No step of the abstract life makes a change twice, or makes one not approved.
LEMMA LifeKeepsOnce ==
  ASSUME Typed, Typed', AppliedOnce, [Lifecycle!Next]_(Lifecycle!vars)
  PROVE  AppliedOnce'
<1> DEFINE Is(k) == actions[k].status
<1>1. \A k \in ActionId : effects[k] \in Nat /\ effects[k] <= 1
  BY DEF Typed, AppliedOnce
<1>2. \A k \in ActionId : Is(k) # "gone" => (effects[k] = 1 <=> Is(k) \in {"applied", "undone"})
  BY DEF AppliedOnce
<1>3. CASE Lifecycle!Settle
  <2>1. effects' = effects
    BY <1>3 DEF Lifecycle!Settle
  <2>2. \A k \in ActionId :
          \/ Is(k)' = Is(k)
          \/ Is(k) \in {"none", "proposed"} /\ Is(k)' \in {"proposed", "dismissed", "gone"}
          \/ Is(k)' = "gone"
    BY <1>3 DEF Lifecycle!Settle, Lifecycle!Close, Lifecycle!Forget
  <2> QED BY <1>1, <1>2, <2>1, <2>2 DEF AppliedOnce
<1>4. ASSUME NEW k \in ActionId, Lifecycle!Fail(k)
      PROVE  AppliedOnce'
  <2>1. effects' = effects /\ Is(k) = "proposed"
    BY <1>4 DEF Lifecycle!Fail
  <2>2. \A i \in ActionId : Is(i)' = IF i = k THEN "failed" ELSE Is(i)
    BY <1>4 DEF Lifecycle!Fail
  <2> QED BY <1>1, <1>2, <2>1, <2>2 DEF AppliedOnce
<1>5. ASSUME NEW k \in ActionId, Lifecycle!Apply(k)
      PROVE  AppliedOnce'
  <2>1. effects' = [effects EXCEPT ![k] = @ + 1] /\ Is(k) = "proposed"
    BY <1>5 DEF Lifecycle!Apply
  <2>2. \A i \in ActionId : Is(i)' = IF i = k THEN "applied" ELSE Is(i)
    BY <1>5 DEF Lifecycle!Apply
  <2>3. effects[k] = 0
    BY <1>1, <1>2, <2>1
  <2>4. \A i \in ActionId : effects'[i] = IF i = k THEN 1 ELSE effects[i]
    BY <2>1, <2>3 DEF Typed
  <2> QED BY <1>1, <1>2, <2>2, <2>4 DEF AppliedOnce
<1>6. ASSUME NEW k \in ActionId, NEW original \in ActionId, Lifecycle!Undo(k, original)
      PROVE  AppliedOnce'
  <2>1. /\ effects' = [effects EXCEPT ![k] = @ + 1]
        /\ Is(k) = "proposed" /\ Is(original) = "applied" /\ k # original
    BY <1>6 DEF Lifecycle!Undo
  <2>2. \A i \in ActionId : Is(i)' = IF i = k THEN "applied"
                                     ELSE IF i = original THEN "undone" ELSE Is(i)
    BY <1>6, <2>1 DEF Lifecycle!Undo
  <2>3. effects[k] = 0
    BY <1>1, <1>2, <2>1
  <2>4. \A i \in ActionId : effects'[i] = IF i = k THEN 1 ELSE effects[i]
    BY <2>1, <2>3 DEF Typed
  <2> QED BY <1>1, <1>2, <2>1, <2>2, <2>4 DEF AppliedOnce
<1>7. CASE UNCHANGED Lifecycle!vars
  <2>1. effects' = effects /\ \A k \in ActionId : Is(k)' = Is(k)
    BY <1>7 DEF Lifecycle!vars
  <2> QED BY <1>1, <1>2, <2>1 DEF AppliedOnce
<1> QED BY <1>3, <1>4, <1>5, <1>6, <1>7 DEF Lifecycle!Next

LEMMA InitInv == Init => AssistantInv
BY DEF Init, AssistantInv, Typed, AppliedOnce, Row, NoAction, Idle

LEMMA NextInv == AssistantInv /\ [Next]_vars => AssistantInv'
BY StepGood, LifeKeepsOnce DEF AssistantInv, Good

(* Whatever windows, requests, crashes and turns interleave on a chat, a   *)
(* change is made exactly if it was approved, and only once.               *)
THEOREM ChangesAppliedOnce == Spec => []AppliedOnce
<1>1. AssistantInv => AppliedOnce
  BY DEF AssistantInv
<1> QED BY InitInv, NextInv, <1>1, PTL DEF Spec

(* Every proposed change lives the life that ActionLifecycle describes:    *)
(* decided at most once, failed, dismissed or applied for good, an applied *)
(* one undone only by another that is applied in the same step.            *)
THEOREM ChatImplementsLifecycle == Spec => ImplementsLifecycle
<1>1. Init => Lifecycle!Init
  BY DEF Init, Lifecycle!Init, NoAction
<1>2. AssistantInv /\ [Next]_vars => [Lifecycle!Next]_(Lifecycle!vars)
  BY StepGood DEF AssistantInv, Good
<1> QED BY InitInv, NextInv, <1>1, <1>2, PTL DEF Spec, ImplementsLifecycle, Lifecycle!Spec

-----------------------------------------------------------------------------
(* What requests and turns carry, and what is written from it.            *)
LEMMA ClientFacts ==
  ASSUME NEW state \in ClientState
  PROVE  /\ state.pc \in {"dismissing", "deciding", "running"} => state.copy \in CopySet
         /\ state.pc = "dismissing" => state.picked \in SUBSET ActionId
         /\ state.pc = "deciding" => state.picked \in ActionId
         /\ state.pc \in {"starting", "running"} => state.mode \in Mode
         /\ state.pc = "starting" => state.seq \in 0..MaxTurns
BY DEF ClientState, Idle

LEMMA CopyFacts ==
  ASSUME NEW copy \in CopySet
  PROVE  copy.seq \in 0..MaxTurns /\ copy.turn \in Turn
BY DEF CopySet

LEMMA DismissedFacts ==
  ASSUME NEW turn \in Turn, NEW calls
  PROVE  LET next == Dismissed(turn, calls)
         IN /\ next \in Turn
            /\ next.unanswered = turn.unanswered \ calls
            /\ Waiting(next) = Waiting(turn) \ calls
            /\ next.row = turn.row
BY DEF Dismissed, Turn, CardState, Waiting

LEMMA DecidedFacts ==
  ASSUME NEW turn \in Turn, NEW call \in Call, NEW state \in {"applied", "dismissed", "failed"}
  PROVE  LET next == Decided(turn, call, state)
         IN /\ next \in Turn
            /\ next.unanswered = turn.unanswered \ {call}
            /\ Waiting(next) = Waiting(turn) \ {call}
            /\ next.row = turn.row
BY DEF Decided, Turn, CardState, Waiting

-----------------------------------------------------------------------------
(* What the rows of a chat's changes keep, whatever its windows do.        *)

\* New changes get ids above those in use.
NewIdsLast == \A k \in Unused, j \in ActionId : k < j => j \in Unused

\* An undo is of a change that is there.
UndoesStored ==
  \A u \in ActionId : actions[u].status # "none" /\ actions[u].undoes \in ActionId
                        => actions[actions[u].undoes].status # "none"

RowsInv == NewIdsLast /\ UndoesStored /\ UndoneOnce

\* The undos of a change that took effect.
Undos(k) == {u \in Stored : actions[u].undoes = k /\ effects[u] = 1}

\* Changes are proposed, or settled without an effect.
LEMMA SettleKeepsRows ==
  ASSUME Typed, Typed', AppliedOnce, RowsInv, UNCHANGED effects, NewIdsLast',
         \A k \in ActionId :
           \/ actions'[k] = actions[k]
           \/ /\ actions[k].status = "proposed" /\ actions'[k].undoes = actions[k].undoes
              /\ actions'[k].status \in {"dismissed", "failed"}
           \/ /\ actions[k].status = "none" /\ actions'[k].status = "proposed"
              /\ actions'[k].undoes \in {NoUndo} \cup Undoable
  PROVE  RowsInv'
<1>1. ASSUME NEW u \in ActionId, actions'[u].status # "none", actions'[u].undoes \in ActionId
      PROVE  actions'[actions'[u].undoes].status # "none"
  <2>1. CASE actions[u].status # "none"
    <3>1. actions'[u].undoes = actions[u].undoes
      BY <2>1
    <3>2. actions[actions[u].undoes].status # "none"
      BY <1>1, <2>1, <3>1 DEF RowsInv, UndoesStored
    <3> QED BY <1>1, <3>1, <3>2
  <2>2. CASE actions[u].status = "none"
    <3>1. actions'[u].undoes \in Undoable
      BY <1>1, <2>2 DEF NoUndo, ActionId
    <3> QED BY <1>1, <3>1 DEF Undoable
  <2> QED BY <2>1, <2>2
<1>2. UndoesStored'
  BY <1>1 DEF UndoesStored
<1>3. ASSUME NEW k \in Stored'
      PROVE  /\ {u \in Stored' : actions'[u].undoes = k /\ effects'[u] = 1} = Undos(k)
             /\ k \in Stored => (actions'[k].status = "undone" <=> actions[k].status = "undone")
             /\ k \notin Stored => actions'[k].status # "undone" /\ Undos(k) = {}
  <2>1. k \in ActionId /\ \A u \in ActionId : actions[u].status = "none" => effects[u] # 1
    BY <1>3 DEF Stored, AppliedOnce
  <2>2. \A u \in ActionId : u \in Stored' /\ effects[u] = 1 <=> u \in Stored /\ effects[u] = 1
    BY <2>1 DEF Stored
  <2>3. \A u \in Stored : actions'[u].undoes = actions[u].undoes
    BY DEF Stored
  <2>4. k \in Stored => (actions'[k].status = "undone" <=> actions[k].status = "undone")
    BY <2>1 DEF Stored
  <2>5. ASSUME k \notin Stored PROVE actions'[k].status # "undone" /\ Undos(k) = {}
    <3>1. actions[k].status = "none" /\ actions'[k].status = "proposed"
      BY <1>3, <2>1, <2>5 DEF Stored
    <3>2. \A u \in Stored : actions[u].undoes # k
      BY <2>1, <3>1 DEF RowsInv, UndoesStored, Stored
    <3> QED BY <3>1, <3>2 DEF Undos
  <2> QED BY <2>2, <2>3, <2>4, <2>5 DEF Undos, Stored
<1>4. ASSUME NEW k \in Stored'
      PROVE  Cardinality(Undos(k)) = IF actions'[k].status = "undone" THEN 1 ELSE 0
  <2>1. CASE k \in Stored
    BY <1>3, <2>1 DEF RowsInv, UndoneOnce, Undos
  <2>2. CASE k \notin Stored
    BY <1>3, <2>2, FS_EmptySet
  <2> QED BY <2>1, <2>2
<1>5. UndoneOnce'
  BY <1>3, <1>4 DEF UndoneOnce
<1> QED BY <1>2, <1>5 DEF RowsInv

\* A change is approved.
LEMMA ApproveKeepsRows ==
  ASSUME Typed, AppliedOnce, RowsInv, NEW mine \in ActionId, Claims(mine), Applies(mine),
         actions' = Approved(mine), effects' = [effects EXCEPT ![mine] = @ + 1]
  PROVE  /\ RowsInv' /\ Stored' = Stored /\ Proposed' = Proposed \ {mine}
         /\ \A i \in ActionId : actions'[i].call = actions[i].call
<1>1. /\ actions[mine] \in Action /\ actions[mine].status = "proposed" /\ mine \in Stored
      /\ effects[mine] = 0
  <2>1. actions[mine] \in Row /\ actions[mine].status = "proposed"
    BY DEF Claims, Typed
  <2>2. effects[mine] \in Nat /\ effects[mine] <= 1 /\ effects[mine] # 1
    BY <2>1 DEF AppliedOnce, Typed
  <2> QED BY <2>1, <2>2, RowFacts DEF Stored
<1>2. PICK original \in {NoUndo} \cup ActionId : original = actions[mine].undoes
  BY <1>1 DEF Action
<1>3. original \in ActionId => /\ actions[original].status = "applied"
                               /\ actions[original] \in Action /\ original # mine
  BY <1>1, <1>2, RowFacts DEF Applies, Typed
<1>4. \A i \in ActionId :
        actions'[i].status = IF i = mine THEN "applied"
                             ELSE IF i = original THEN "undone" ELSE actions[i].status
  BY <1>1, <1>2, <1>3 DEF Approved, Action
<1>5. \A i \in ActionId : actions[i].status # "none" => actions'[i].undoes = actions[i].undoes
  BY <1>1, <1>2, <1>3, RowFacts DEF Approved, Action, Typed
<1>6. \A i \in ActionId : actions'[i].call = actions[i].call
  <2>1. ASSUME NEW i \in ActionId, i = mine \/ i = original PROVE actions'[i].call = actions[i].call
    BY <1>1, <1>2, <1>3, <2>1 DEF Approved, Action
  <2>2. ASSUME NEW i \in ActionId, i # mine, i # original PROVE actions'[i] = actions[i]
    BY <1>2, <2>2 DEF Approved
  <2> QED BY <2>1, <2>2
<1>7. \A i \in ActionId : actions'[i].status = "none" <=> actions[i].status = "none"
  BY <1>1, <1>3, <1>4
<1>8. Stored' = Stored /\ Proposed' = Proposed \ {mine}
  BY <1>1, <1>3, <1>4 DEF Stored, Proposed
<1>9. NewIdsLast' /\ UndoesStored'
  BY <1>5, <1>7 DEF RowsInv, NewIdsLast, UndoesStored, Unused
<1>10. \A i \in ActionId : effects'[i] = IF i = mine THEN 1 ELSE effects[i]
  BY <1>1 DEF Typed
<1>11. ASSUME NEW k \in Stored
       PROVE  Cardinality({u \in Stored : actions'[u].undoes = k /\ effects'[u] = 1})
                = IF actions'[k].status = "undone" THEN 1 ELSE 0
  <2> DEFINE S == {u \in Stored : actions'[u].undoes = k /\ effects'[u] = 1}
  <2>1. k \in ActionId /\ \A u \in Stored : u \in ActionId /\ actions'[u].undoes = actions[u].undoes
    BY <1>5 DEF Stored
  <2>2. Cardinality(Undos(k)) = IF actions[k].status = "undone" THEN 1 ELSE 0
    BY DEF RowsInv, UndoneOnce, Undos
  <2>3. CASE k # original
    <3>1. S = Undos(k)
      BY <1>1, <1>2, <1>10, <2>1, <2>3 DEF Undos
    <3>2. actions'[k].status = "undone" <=> actions[k].status = "undone"
      BY <1>1, <1>4, <2>1, <2>3
    <3> QED BY <2>2, <3>1, <3>2
  <2>4. CASE k = original
    <3>1. actions[k].status = "applied" /\ actions'[k].status = "undone"
      BY <1>3, <1>4, <2>1, <2>4
    <3>2. Undos(k) = {}
      <4>1. IsFiniteSet(Undos(k))
        <5>1. IsFiniteSet(ActionId)
          BY AssistantAssumption, FS_Interval DEF ActionId
        <5>2. Undos(k) \subseteq ActionId
          BY DEF Undos, Stored
        <5> QED BY <5>1, <5>2, FS_Subset
      <4> QED BY <2>2, <3>1, <4>1, FS_EmptySet
    <3>3. S = {mine}
      BY <1>1, <1>2, <1>10, <2>1, <2>4, <3>2 DEF Undos
    <3> QED BY <3>1, <3>3, FS_Singleton
  <2> QED BY <2>3, <2>4
<1>12. UndoneOnce'
  BY <1>8, <1>11 DEF UndoneOnce
<1> QED BY <1>6, <1>8, <1>9, <1>12 DEF RowsInv

LEMMA SetStatusRows ==
  ASSUME Typed, NEW ids \in SUBSET Proposed, NEW status \in {"dismissed", "failed"},
         NEW next, next = SetStatus(ids, status)
  PROVE  /\ \A k \in ActionId : k \notin ids => next[k] = actions[k]
         /\ \A k \in ids : /\ k \in ActionId /\ actions[k].status = "proposed"
                           /\ next[k].status = status /\ next[k].undoes = actions[k].undoes
                           /\ next[k].call = actions[k].call
<1>1. \A k \in ids : k \in ActionId /\ actions[k].status = "proposed"
  BY DEF Proposed
<1>2. \A k \in ids : actions[k] \in Action
  BY <1>1, RowFacts DEF Typed
<1> QED BY <1>1, <1>2 DEF SetStatus, Action

LEMMA CloseKeepsRows ==
  ASSUME Typed, Typed', AppliedOnce, RowsInv, UNCHANGED effects,
         NEW ids \in SUBSET Proposed, NEW status \in {"dismissed", "failed"},
         actions' = SetStatus(ids, status)
  PROVE  /\ RowsInv' /\ Stored' = Stored /\ Proposed' = Proposed \ ids
         /\ \A k \in ActionId : actions'[k].call = actions[k].call
<1>1. /\ \A k \in ActionId : k \notin ids => actions'[k] = actions[k]
      /\ \A k \in ids : /\ k \in ActionId /\ actions[k].status = "proposed"
                        /\ actions'[k].status = status /\ actions'[k].undoes = actions[k].undoes
                        /\ actions'[k].call = actions[k].call
  BY SetStatusRows
<1>2. /\ Stored' = Stored /\ Proposed' = Proposed \ ids /\ Unused' = Unused
      /\ \A k \in ActionId : actions'[k].call = actions[k].call
  BY <1>1 DEF Stored, Proposed, Unused
<1>3. NewIdsLast'
  BY <1>2 DEF RowsInv, NewIdsLast
<1>4. RowsInv'
  BY <1>1, <1>3, SettleKeepsRows
<1> QED BY <1>2, <1>4

\* A run's new changes, with old ones closed or left.
LEMMA InsertKeepsRows ==
  ASSUME Typed, Typed', AppliedOnce, RowsInv, UNCHANGED effects,
         NEW calls, NEW id \in NewIds(calls),
         NEW undoes \in [calls -> {NoUndo} \cup Undoable],
         NEW new \in {calls, {}}, NEW closed \in {Proposed, {}},
         NEW base, base = IF closed = {} THEN actions ELSE SetStatus(closed, "dismissed"),
         actions' = Inserted(base, new, id, undoes)
  PROVE  /\ RowsInv'
         /\ Stored' = Stored \cup {id[call] : call \in new}
         /\ Proposed' = (Proposed \ closed) \cup {id[call] : call \in new}
         /\ \A call \in new : /\ actions'[id[call]].call = call
                              /\ \A j \in Stored : j < id[call]
         /\ \A j \in Stored : actions'[j].call = actions[j].call
<1> DEFINE fresh == {id[call] : call \in new}
<1>1. /\ id \in [calls -> Unused] /\ \A call, other \in calls : id[call] = id[other] => call = other
      /\ \A call \in calls, k \in Unused : k < id[call] => \E other \in calls : id[other] = k
  BY DEF NewIds
<1>2. /\ \A k \in ActionId : k \notin closed => base[k] = actions[k]
      /\ \A k \in closed : /\ k \in ActionId /\ actions[k].status = "proposed"
                           /\ base[k].status = "dismissed" /\ base[k].undoes = actions[k].undoes
                           /\ base[k].call = actions[k].call
  <2>1. CASE closed = {}
    BY <2>1
  <2>2. CASE closed # {}
    BY <2>2, SetStatusRows
  <2> QED BY <2>1, <2>2
<1>3. ASSUME NEW call \in new
      PROVE  /\ id[call] \in Unused
             /\ actions'[id[call]].call = call /\ actions'[id[call]].status = "proposed"
             /\ actions'[id[call]].undoes \in {NoUndo} \cup Undoable
  <2>1. id[call] \in Unused /\ id[call] \in ActionId /\ call \in calls
    BY <1>1 DEF Unused
  <2>2. (CHOOSE other \in new : id[other] = id[call]) = call
    BY <1>1, <2>1
  <2>3. actions'[id[call]] = [call |-> call, undoes |-> undoes[call], status |-> "proposed"]
    BY <2>1, <2>2 DEF Inserted
  <2>4. undoes[call] \in {NoUndo} \cup Undoable
    BY <2>1
  <2> QED BY <2>1, <2>3, <2>4
<1>4. ASSUME NEW k \in ActionId, k \notin fresh
      PROVE  actions'[k] = base[k]
  BY <1>4 DEF Inserted
<1>5. fresh \subseteq Unused /\ Unused \subseteq ActionId /\ Unused \cap closed = {}
  <2>1. fresh \subseteq Unused
    BY <1>3
  <2>2. Unused \subseteq ActionId /\ \A k \in Unused : actions[k].status = "none"
    BY DEF Unused
  <2> QED BY <1>2, <2>1, <2>2
<1>6. ASSUME NEW k \in fresh
      PROVE  /\ actions'[k].status = "proposed" /\ actions'[k].undoes \in {NoUndo} \cup Undoable
             /\ actions[k].status = "none" /\ k \in ActionId
  <2>1. PICK call \in new : k = id[call]
    OBVIOUS
  <2>2. k \in Unused
    BY <1>3, <2>1
  <2> QED BY <1>3, <2>1, <2>2 DEF Unused
<1> HIDE DEF fresh
<1>7. \A k \in ActionId :
        \/ actions'[k] = actions[k]
        \/ /\ actions[k].status = "proposed" /\ actions'[k].undoes = actions[k].undoes
           /\ actions'[k].status \in {"dismissed", "failed"}
        \/ /\ actions[k].status = "none" /\ actions'[k].status = "proposed"
           /\ actions'[k].undoes \in {NoUndo} \cup Undoable
  BY <1>2, <1>4, <1>6
<1>8. /\ Stored' = Stored \cup fresh /\ Unused' = Unused \ fresh
      /\ Proposed' = (Proposed \ closed) \cup fresh
  <2>1. \A k \in ActionId : k \notin fresh =>
          actions'[k].status = IF k \in closed THEN "dismissed" ELSE actions[k].status
    BY <1>2, <1>4
  <2>2. \A k \in closed : actions[k].status = "proposed"
    BY <1>2
  <2> QED BY <1>6, <2>1, <2>2 DEF Stored, Unused, Proposed
<1>9. NewIdsLast'
  <2>1. ASSUME NEW k \in Unused, k \notin fresh, NEW j \in ActionId, k < j
        PROVE  j \in Unused /\ j \notin fresh
    <3>1. j \in Unused
      BY <2>1 DEF RowsInv, NewIdsLast
    <3>2. ASSUME NEW call \in new, j = id[call] PROVE FALSE
      BY <1>1, <2>1, <3>2 DEF fresh
    <3> QED BY <3>1, <3>2 DEF fresh
  <2> QED BY <1>8, <2>1 DEF NewIdsLast
<1>10. RowsInv'
  BY <1>7, <1>9, SettleKeepsRows
<1>11. ASSUME NEW call \in new, NEW j \in Stored PROVE j < id[call]
  <2>1. j \in ActionId /\ id[call] \in Unused /\ id[call] \in ActionId /\ j \notin Unused
    BY <1>3 DEF Stored, Unused
  <2>2. ~(id[call] < j)
    BY <2>1 DEF RowsInv, NewIdsLast
  <2>3. j \in Int /\ id[call] \in Int /\ j # id[call]
    BY <2>1, AssistantAssumption DEF ActionId
  <2> QED BY <2>2, <2>3
<1>12. \A j \in Stored : actions'[j].call = actions[j].call
  BY <1>2, <1>4, <1>6 DEF Stored
<1>13. \A call \in new : actions'[id[call]].call = call
  BY <1>3
<1>14. /\ Stored' = Stored \cup {id[call] : call \in new}
       /\ Proposed' = (Proposed \ closed) \cup {id[call] : call \in new}
  BY <1>8 DEF fresh
<1> QED BY <1>10, <1>11, <1>12, <1>13, <1>14

-----------------------------------------------------------------------------
(* Turns, and what requests and runs have read of them.                    *)

LEMMA LastFacts ==
  ASSUME NEW ts, DOMAIN ts \subseteq 1..MaxTurns, ts = [s \in DOMAIN ts |-> ts[s]],
         NEW last, last = IF ts = <<>> THEN 0 ELSE Max(DOMAIN ts)
  PROVE  /\ last \in 0..MaxTurns
         /\ \A s \in DOMAIN ts : s <= last /\ last \in DOMAIN ts
         /\ \A m \in DOMAIN ts : (\A s \in DOMAIN ts : s <= m) => last = m
<1>1. MaxTurns \in Nat /\ DOMAIN ts \subseteq Int /\ IsFiniteSet(DOMAIN ts)
  <2>1. MaxTurns \in Nat /\ MaxTurns \in Int /\ 1 \in Int
    BY AssistantAssumption
  <2>2. IsFiniteSet(1..MaxTurns)
    BY <2>1, FS_Interval
  <2>3. IsFiniteSet(DOMAIN ts)
    BY <2>2, FS_Subset
  <2> QED BY <2>1, <2>3
<1>2. CASE DOMAIN ts = {}
  <2>1. ts = <<>>
    BY <1>2
  <2> QED BY <1>1, <1>2, <2>1
<1>3. CASE DOMAIN ts # {}
  <2>1. ts # <<>>
    BY <1>3
  <2>2. last \in DOMAIN ts /\ \A s \in DOMAIN ts : last >= s
    BY <1>1, <1>3, <2>1, MaxInSet
  <2>3. \A m \in DOMAIN ts : (\A s \in DOMAIN ts : s <= m) => last = m
    BY <1>1, <2>2
  <2> QED BY <1>1, <2>2, <2>3
<1> QED BY <1>2, <1>3

\* A chat that is not open has no turns, and no change that waits.
Closed == chat # "open" => turns = <<>> /\ Proposed = {}

\* A retry replaces a turn, and only a turn that continues starts from one.
RunOK(state) ==
  /\ state.pc = "starting" /\ state.mode = "retry" => state.seq # 0
  /\ state.pc = "running" /\ state.mode = "retry" => state.copy.seq # 0
  /\ state.pc = "running" /\ state.mode # "continue" => state.copy = NoCopy(state.copy.seq)
RunsOK == \A c \in Client : RunOK(client[c])

\* The windows in use are these; the others never do anything.
Quiet(W) == \A c \in Client \ W : client[c] = Idle

\* With one window.  The last turn's cards are the changes that wait; each call waits for
\* an answer as its card does.
Alone(W) == \E w : W = {w}
CardsOK ==
  /\ \A s \in DOMAIN turns : /\ turns[s].unanswered = Waiting(turns[s])
                             /\ s # LastSeq => Waiting(turns[s]) = {}
  /\ LastSeq \in DOMAIN turns => Waiting(LastTurn) = {actions[k].call : k \in Proposed}
  /\ LastSeq \notin DOMAIN turns => Proposed = {}
  /\ \A k \in Proposed, j \in Stored : actions[j].call = actions[k].call => j <= k

\* What the window read is as it was, while the chat is there.
ReadOK(state, ts, last, proposed) ==
  /\ state.pc \in {"dismissing", "deciding"} =>
       last \in DOMAIN ts /\ state.copy = [seq |-> last, turn |-> ts[last]]
  /\ state.pc = "dismissing" => proposed \subseteq state.picked
  /\ state.pc = "deciding" => state.picked \in proposed
  /\ state.pc \in {"starting", "running"} =>
       state.mode # "first" /\ (state.mode = "new" => proposed = {})
  /\ state.pc = "starting" /\ state.mode \in {"retry", "continue"} =>
       last \in DOMAIN ts /\ state.seq = last
  /\ state.pc = "running" /\ state.mode = "retry" => last \in DOMAIN ts /\ state.copy.seq = last
  /\ state.pc = "running" /\ state.mode = "continue" =>
       /\ last \in DOMAIN ts /\ state.copy = [seq |-> last, turn |-> ts[last]]
       /\ proposed = {}
ReadsOK == chat = "open" => \A c \in Client : ReadOK(client[c], turns, LastSeq, Proposed)

\* The inductive invariant of a chat that these windows use.
ChatInv(W) ==
  /\ AssistantInv /\ TypeOK /\ RowsInv /\ Closed /\ RunsOK /\ Quiet(W)
  /\ Alone(W) => CardsOK /\ ReadsOK

Kept(W) == (Quiet(W)' => ChatInv(W)') /\ (chat = "deleted" => chat' = "deleted")

LEMMA TurnFacts ==
  ASSUME TypeOK
  PROVE  /\ DOMAIN turns \subseteq 1..MaxTurns /\ turns = [s \in DOMAIN turns |-> turns[s]]
         /\ \A s \in DOMAIN turns : turns[s] \in Turn
         /\ LastSeq \in 0..MaxTurns
         /\ \A s \in DOMAIN turns : s <= LastSeq /\ LastSeq \in DOMAIN turns
         /\ turns # <<>> => LastSeq \in DOMAIN turns
<1>1. /\ DOMAIN turns \subseteq 1..MaxTurns /\ turns = [s \in DOMAIN turns |-> turns[s]]
      /\ \A s \in DOMAIN turns : turns[s] \in Turn
  BY DEF TypeOK
<1>2. /\ LastSeq \in 0..MaxTurns
      /\ \A s \in DOMAIN turns : s <= LastSeq /\ LastSeq \in DOMAIN turns
  BY <1>1, LastFacts DEF LastSeq
<1>3. DOMAIN turns = {} => turns = <<>>
  BY <1>1
<1> QED BY <1>1, <1>2, <1>3

LEMMA IdleIs ==
  /\ Idle \in ClientState /\ RunOK(Idle)
  /\ \A ts, last, proposed : ReadOK(Idle, ts, last, proposed)
BY DEF Idle, ClientState, RunOK, ReadOK

\* One window moves on.
LEMMA MoveKeeps ==
  ASSUME NEW W, ChatInv(W), AssistantInv', RowsInv', Closed',
         NEW c \in Client, c \in W, NEW state \in ClientState, client' = [client EXCEPT ![c] = state],
         RunOK(state), chat' \in {"none", "open", "deleted"}, chat = "deleted" => chat' = "deleted",
         DOMAIN turns' \subseteq 1..MaxTurns, turns' = [s \in DOMAIN turns' |-> turns'[s]],
         \A s \in DOMAIN turns' : turns'[s] \in Turn,
         Alone(W) => CardsOK' /\ (chat' = "open" => ReadOK(state, turns', LastSeq', Proposed'))
  PROVE  Kept(W)
<1>1. client \in [Client -> ClientState]
  BY DEF ChatInv, TypeOK
<1>2. /\ client' \in [Client -> ClientState] /\ client'[c] = state
      /\ \A d \in Client : d # c => client'[d] = client[d]
  BY <1>1
<1>3. TypeOK'
  <2>1. turns' \in [DOMAIN turns' -> Turn]
    OBVIOUS
  <2> QED BY <1>2, <2>1 DEF TypeOK, AssistantInv, Typed, Row
<1>4. RunsOK'
  BY <1>2 DEF ChatInv, RunsOK
<1>5. ASSUME Alone(W), Quiet(W)' PROVE ReadsOK'
  <2>1. \A d \in Client : d # c => client'[d] = Idle
    BY <1>5 DEF Alone, Quiet
  <2> QED BY <1>2, <1>5, <2>1, IdleIs DEF ReadsOK
<1> QED BY <1>3, <1>4, <1>5 DEF Kept, ChatInv

\* It only reads.
LEMMA ReadKeeps ==
  ASSUME NEW W, ChatInv(W), AssistantInv', UNCHANGED <<chat, turns, actions, effects>>,
         NEW c \in Client, c \in W, NEW state \in ClientState, client' = [client EXCEPT ![c] = state],
         RunOK(state), Alone(W) /\ chat = "open" => ReadOK(state, turns, LastSeq, Proposed)
  PROVE  Kept(W)
<1>1. /\ DOMAIN turns \subseteq 1..MaxTurns /\ turns = [s \in DOMAIN turns |-> turns[s]]
      /\ \A s \in DOMAIN turns : turns[s] \in Turn /\ chat \in {"none", "open", "deleted"}
  BY TurnFacts DEF ChatInv, TypeOK
<1>2. RowsInv' /\ Closed' /\ LastSeq' = LastSeq /\ Proposed' = Proposed
  BY DEF ChatInv, RowsInv, Closed, LastSeq, Proposed, NewIdsLast, UndoesStored, UndoneOnce,
         Unused, Stored
<1>3. Alone(W) => CardsOK'
  BY <1>2 DEF ChatInv, CardsOK, LastTurn, Stored
<1>4. chat' \in {"none", "open", "deleted"}
  BY DEF ChatInv, TypeOK
<1> QED BY <1>1, <1>2, <1>3, <1>4, MoveKeeps

LEMMA GivesUp ==
  ASSUME NEW W, ChatInv(W), AssistantInv', UNCHANGED <<chat, turns, actions, effects>>,
         NEW c \in Client, c \in W, client' = [client EXCEPT ![c] = Idle]
  PROVE  Kept(W)
BY IdleIs, ReadKeeps

-----------------------------------------------------------------------------
(* One lemma for each action: the requests first.                          *)

LEMMA FirstQuestionKeeps ==
  ASSUME NEW W, ChatInv(W), AssistantInv', NEW c \in Client, c \in W, FirstQuestion(c)
  PROVE  Kept(W)
<1> DEFINE state == [pc |-> "starting", mode |-> "first", seq |-> 0]
<1>1. /\ UNCHANGED <<chat, turns, actions, effects>> /\ chat = "none"
      /\ client' = [client EXCEPT ![c] = state]
  BY DEF FirstQuestion, Begin
<1>2. state \in ClientState /\ RunOK(state)
  <2>1. 0 \in 0..MaxTurns
    BY AssistantAssumption
  <2> QED BY <2>1 DEF ClientState, Mode, RunOK
<1> HIDE DEF state
<1> QED BY <1>1, <1>2, ReadKeeps

\* The change a card of the last turn is about, with one window.
LEMMA CardFacts ==
  ASSUME NEW W, ChatInv(W), CardsOK, NEW call \in Waiting(LastTurn), LastSeq \in DOMAIN turns
  PROVE  LatestAction(call) \in Proposed /\ ActionsOf({call}) # {}
<1>1. PICK k \in Proposed : actions[k].call = call
  BY DEF CardsOK
<1>2. k \in ActionsOf({call}) /\ ActionsOf({call}) \subseteq Stored
  BY <1>1 DEF ActionsOf, Proposed, Stored
<1>3. \A j \in ActionsOf({call}) : j <= k
  BY <1>1 DEF ActionsOf, CardsOK
<1>4. Stored \subseteq ActionId /\ ActionId \subseteq Int /\ IsFiniteSet(ActionId)
  BY AssistantAssumption, FS_Interval DEF Stored, ActionId
<1>5. IsFiniteSet(ActionsOf({call})) /\ ActionsOf({call}) \subseteq Int
  <2>1. ActionsOf({call}) \in SUBSET ActionId
    BY <1>2, <1>4
  <2> QED BY <1>4, <2>1, FS_Subset
<1>6. /\ LatestAction(call) \in ActionsOf({call})
      /\ \A j \in ActionsOf({call}) : LatestAction(call) >= j
  BY <1>2, <1>5, MaxInSet DEF LatestAction
<1>7. LatestAction(call) = k
  <2>1. LatestAction(call) <= k /\ LatestAction(call) >= k
    BY <1>2, <1>3, <1>6
  <2> QED BY <1>2, <1>5, <1>6, <2>1
<1> QED BY <1>1, <1>2, <1>7

LEMMA CopyIs ==
  ASSUME TypeOK, LastSeq \in DOMAIN turns
  PROVE  Copy(LastSeq) \in CopySet /\ Copy(LastSeq) = [seq |-> LastSeq, turn |-> turns[LastSeq]]
BY TurnFacts DEF Copy, CopySet

LEMMA AskKeeps ==
  ASSUME NEW W, ChatInv(W), AssistantInv', NEW c \in Client, c \in W, Ask(c)
  PROVE  Kept(W)
<1> DEFINE new == [pc |-> "starting", mode |-> "new", seq |-> 0]
           state == [pc |-> "dismissing", copy |-> Copy(LastSeq),
                     picked |-> ActionsOf(Waiting(LastTurn))]
<1>1. UNCHANGED <<chat, turns, actions, effects>> /\ chat = "open" /\ TypeOK
  BY DEF Ask, ChatInv
<1>2. CASE turns = <<>> \/ Waiting(LastTurn) = {}
  <2>1. client' = [client EXCEPT ![c] = new]
    BY <1>2 DEF Ask, Begin
  <2>2. new \in ClientState /\ RunOK(new)
    <3>1. 0 \in 0..MaxTurns
      BY AssistantAssumption
    <3> QED BY <3>1 DEF ClientState, Mode, RunOK
  <2>3. ASSUME Alone(W) PROVE Proposed = {}
    <3>1. CASE LastSeq \in DOMAIN turns
      <4>1. Waiting(LastTurn) = {}
        BY <1>2, <3>1
      <4> QED BY <2>3, <3>1, <4>1 DEF ChatInv, CardsOK
    <3>2. CASE LastSeq \notin DOMAIN turns
      BY <2>3, <3>2 DEF ChatInv, CardsOK
    <3> QED BY <3>1, <3>2
  <2>4. Proposed = {} => ReadOK(new, turns, LastSeq, Proposed)
    BY DEF ReadOK
  <2> HIDE DEF new
  <2> QED BY <1>1, <2>1, <2>2, <2>3, <2>4, ReadKeeps
<1>3. CASE ~(turns = <<>> \/ Waiting(LastTurn) = {})
  <2>1. client' = [client EXCEPT ![c] = state] /\ LastSeq \in DOMAIN turns
    BY <1>1, <1>3, TurnFacts DEF Ask
  <2>2. Copy(LastSeq) \in CopySet /\ Copy(LastSeq) = [seq |-> LastSeq, turn |-> turns[LastSeq]]
    BY <1>1, <2>1, CopyIs
  <2>3. state \in ClientState /\ RunOK(state)
    <3>1. ActionsOf(Waiting(LastTurn)) \in SUBSET ActionId
      BY DEF ActionsOf, Stored
    <3> QED BY <2>2, <3>1 DEF ClientState, RunOK
  <2>4. ASSUME Alone(W) PROVE Proposed \subseteq ActionsOf(Waiting(LastTurn))
    <3>1. Waiting(LastTurn) = {actions[k].call : k \in Proposed}
      BY <2>1, <2>4 DEF ChatInv, CardsOK
    <3> QED BY <3>1 DEF ActionsOf, Proposed, Stored
  <2>5. Alone(W) => ReadOK(state, turns, LastSeq, Proposed)
    BY <2>1, <2>2, <2>4 DEF ReadOK
  <2> HIDE DEF state
  <2> QED BY <1>1, <2>1, <2>3, <2>5, ReadKeeps
<1> QED BY <1>2, <1>3

LEMMA RetryKeeps ==
  ASSUME NEW W, ChatInv(W), AssistantInv', NEW c \in Client, c \in W, Retry(c)
  PROVE  Kept(W)
<1> DEFINE state == [pc |-> "starting", mode |-> "retry", seq |-> LastSeq]
<1>1. /\ UNCHANGED <<chat, turns, actions, effects>> /\ chat = "open"
      /\ client' = [client EXCEPT ![c] = state]
      /\ LastSeq \in 0..MaxTurns /\ LastSeq \in DOMAIN turns /\ LastSeq # 0
  BY TurnFacts DEF Retry, Begin, ChatInv
<1>2. state \in ClientState /\ RunOK(state) /\ ReadOK(state, turns, LastSeq, Proposed)
  BY <1>1 DEF ClientState, Mode, RunOK, ReadOK
<1> HIDE DEF state
<1> QED BY <1>1, <1>2, ReadKeeps

LEMMA DecideKeeps ==
  ASSUME NEW W, ChatInv(W), AssistantInv', NEW c \in Client, c \in W, NEW call \in Call, NEW approve \in BOOLEAN,
         Decide(c, call, approve)
  PROVE  Kept(W)
<1> DEFINE state == [pc |-> "deciding", copy |-> Copy(LastSeq),
                     picked |-> LatestAction(call), approve |-> approve]
<1>1. /\ UNCHANGED <<chat, turns, actions, effects>> /\ chat = "open"
      /\ client' = [client EXCEPT ![c] = state]
      /\ LastSeq \in DOMAIN turns /\ call \in Waiting(LastTurn) /\ ActionsOf({call}) # {}
  BY TurnFacts DEF Decide, ChatInv
<1>2. Copy(LastSeq) \in CopySet /\ Copy(LastSeq) = [seq |-> LastSeq, turn |-> turns[LastSeq]]
  BY <1>1, CopyIs DEF ChatInv
<1>3. state \in ClientState /\ RunOK(state)
  <2>1. LatestAction(call) \in ActionId
    BY <1>1, LatestActionStored
  <2> QED BY <1>2, <2>1 DEF ClientState, RunOK
<1>4. Alone(W) => LatestAction(call) \in Proposed
  BY <1>1, CardFacts DEF ChatInv
<1>5. Alone(W) => ReadOK(state, turns, LastSeq, Proposed)
  BY <1>1, <1>2, <1>4 DEF ReadOK
<1> HIDE DEF state
<1> QED BY <1>1, <1>3, <1>5, ReadKeeps

LEMMA CrashKeeps ==
  ASSUME NEW W, ChatInv(W), AssistantInv', NEW c \in Client, c \in W, Crash(c)
  PROVE  Kept(W)
BY GivesUp DEF Crash

LEMMA StartRunKeeps ==
  ASSUME NEW W, ChatInv(W), AssistantInv', NEW c \in Client, c \in W, StartRun(c)
  PROVE  Kept(W)
<1> DEFINE mode == client[c].mode
           seq == client[c].seq
           running(copy) == [pc |-> "running", mode |-> mode, copy |-> copy]
<1>1. /\ UNCHANGED <<chat, turns, actions, effects>> /\ client[c].pc = "starting"
      /\ client[c] \in ClientState /\ RunOK(client[c]) /\ TypeOK
      /\ Alone(W) /\ chat = "open" => ReadOK(client[c], turns, LastSeq, Proposed)
  BY DEF StartRun, ChatInv, TypeOK, RunsOK, ReadsOK
<1>2. mode \in Mode /\ seq \in 0..MaxTurns
  BY <1>1, ClientFacts
<1>3. CASE client' = [client EXCEPT ![c] = Idle]
  BY <1>1, <1>3, GivesUp
<1>4. CASE mode # "continue" /\ client' = [client EXCEPT ![c] = running(NoCopy(seq))]
  <2> DEFINE copy == NoCopy(seq)
             state == running(copy)
  <2>1. copy \in CopySet /\ copy.seq = seq /\ copy = NoCopy(copy.seq)
    BY <1>2 DEF NoCopy, CopySet, Turn, NoCards, CardState
  <2> HIDE DEF copy
  <2>2. state \in ClientState
    BY <1>2, <2>1 DEF ClientState
  <2>3. RunOK(state)
    BY <1>1, <2>1 DEF RunOK
  <2>4. Alone(W) /\ chat = "open" => ReadOK(state, turns, LastSeq, Proposed)
    <3>1. state.pc = "running" /\ state.mode = mode /\ state.copy = copy
      OBVIOUS
    <3> HIDE DEF state
    <3> QED BY <1>1, <1>4, <2>1, <3>1 DEF ReadOK
  <2>5. client' = [client EXCEPT ![c] = state]
    BY <1>4 DEF copy
  <2> HIDE DEF state
  <2> QED BY <1>1, <2>2, <2>3, <2>4, <2>5, ReadKeeps
<1>5. CASE /\ mode = "continue" /\ seq \in DOMAIN turns /\ Waiting(turns[seq]) = {}
           /\ client' = [client EXCEPT ![c] = running(Copy(seq))]
  <2> DEFINE copy == Copy(seq)
             state == running(copy)
  <2>1. copy \in CopySet /\ copy = [seq |-> seq, turn |-> turns[seq]]
    BY <1>1, <1>2, <1>5, TurnFacts DEF Copy, CopySet
  <2> HIDE DEF copy
  <2>2. state \in ClientState
    BY <1>2, <2>1 DEF ClientState
  <2>3. RunOK(state)
    BY <1>5 DEF RunOK
  <2>4. ASSUME Alone(W), chat = "open" PROVE ReadOK(state, turns, LastSeq, Proposed)
    <3>1. seq = LastSeq
      BY <1>1, <1>5, <2>4 DEF ReadOK
    <3>2. Proposed = {}
      BY <1>5, <2>4, <3>1 DEF ChatInv, CardsOK, LastTurn
    <3>3. state.pc = "running" /\ state.mode = "continue" /\ state.copy = copy
      BY <1>5
    <3> HIDE DEF state
    <3> QED BY <1>5, <2>1, <3>1, <3>2, <3>3 DEF ReadOK
  <2>5. client' = [client EXCEPT ![c] = state]
    BY <1>5 DEF copy
  <2> HIDE DEF state
  <2> QED BY <1>1, <2>2, <2>3, <2>4, <2>5, ReadKeeps
<1> QED BY <1>3, <1>4, <1>5 DEF StartRun

\* One turn is written back.
LEMMA WriteFacts ==
  ASSUME TypeOK, NEW seq \in DOMAIN turns, NEW next \in Turn,
         turns' = [turns EXCEPT ![seq] = next]
  PROVE  /\ DOMAIN turns' = DOMAIN turns /\ LastSeq' = LastSeq /\ LastSeq \in DOMAIN turns
         /\ DOMAIN turns' \subseteq 1..MaxTurns /\ turns' = [s \in DOMAIN turns' |-> turns'[s]]
         /\ \A s \in DOMAIN turns' : turns'[s] \in Turn
         /\ \A s \in DOMAIN turns : turns'[s] = IF s = seq THEN next ELSE turns[s]
<1>1. /\ DOMAIN turns \subseteq 1..MaxTurns /\ turns = [s \in DOMAIN turns |-> turns[s]]
      /\ \A s \in DOMAIN turns : turns[s] \in Turn
      /\ LastSeq \in DOMAIN turns /\ \A s \in DOMAIN turns : s <= LastSeq
  BY TurnFacts
<1>2. /\ DOMAIN turns' = DOMAIN turns
      /\ \A s \in DOMAIN turns : turns'[s] = IF s = seq THEN next ELSE turns[s]
      /\ turns' = [s \in DOMAIN turns' |-> turns'[s]]
  BY <1>1
<1> DEFINE ts == turns'
           last == LastSeq'
<1>3. last = IF ts = <<>> THEN 0 ELSE Max(DOMAIN ts)
  BY DEF LastSeq
<1>4. \A m \in DOMAIN ts : (\A s \in DOMAIN ts : s <= m) => last = m
  <2>1. DOMAIN ts \subseteq 1..MaxTurns /\ ts = [s \in DOMAIN ts |-> ts[s]]
    BY <1>1, <1>2
  <2> HIDE DEF ts, last
  <2> QED BY <1>3, <2>1, LastFacts
<1>5. LastSeq' = LastSeq
  BY <1>1, <1>2, <1>4
<1> QED BY <1>1, <1>2, <1>5

\* Some of the last turn's changes are decided, and their cards with them.
LEMMA DecidedKeepsCards ==
  ASSUME NEW W, ChatInv(W), CardsOK, LastSeq \in DOMAIN turns, NEW ids \in SUBSET Proposed, NEW next \in Turn,
         next.unanswered = turns[LastSeq].unanswered \ {actions[k].call : k \in ids},
         Waiting(next) = Waiting(turns[LastSeq]) \ {actions[k].call : k \in ids},
         turns' = [turns EXCEPT ![LastSeq] = next],
         Proposed' = Proposed \ ids, Stored' = Stored,
         \A k \in ActionId : actions'[k].call = actions[k].call
  PROVE  CardsOK'
<1> DEFINE decided == {actions[k].call : k \in ids}
<1>1. /\ DOMAIN turns' = DOMAIN turns /\ LastSeq' = LastSeq /\ LastSeq \in DOMAIN turns
      /\ \A s \in DOMAIN turns : turns'[s] = IF s = LastSeq THEN next ELSE turns[s]
  BY WriteFacts DEF ChatInv
<1>2. Proposed \subseteq ActionId /\ Stored \subseteq ActionId /\ Proposed \subseteq Stored
      /\ ActionId \subseteq Int
  BY AssistantAssumption DEF Proposed, Stored, ActionId
<1>3. \A k, j \in Proposed : actions[k].call = actions[j].call => k = j
  <2>1. ASSUME NEW k \in Proposed, NEW j \in Proposed, actions[k].call = actions[j].call
        PROVE  k <= j /\ j <= k
    BY <1>2, <2>1 DEF CardsOK
  <2> QED BY <1>2, <2>1
<1>4. {actions'[k].call : k \in Proposed'} = {actions[k].call : k \in Proposed \ ids}
  BY <1>2
<1>5. {actions[k].call : k \in Proposed \ ids} = {actions[k].call : k \in Proposed} \ decided
  <2>1. ASSUME NEW k \in Proposed \ ids, NEW j \in ids PROVE actions[k].call # actions[j].call
    BY <1>3
  <2> QED BY <2>1
<1>6. Waiting(turns[LastSeq]) = {actions[k].call : k \in Proposed}
  BY DEF CardsOK, LastTurn
<1>7. \A s \in DOMAIN turns' : /\ turns'[s].unanswered = Waiting(turns'[s])
                               /\ s # LastSeq' => Waiting(turns'[s]) = {}
  BY <1>1 DEF CardsOK
<1>8. Waiting(turns'[LastSeq']) = {actions'[k].call : k \in Proposed'}
  BY <1>1, <1>4, <1>5, <1>6
<1>9. \A k \in Proposed', j \in Stored' : actions'[j].call = actions'[k].call => j <= k
  BY <1>2 DEF CardsOK
<1> QED BY <1>1, <1>7, <1>8, <1>9 DEF CardsOK, LastTurn

LEMMA DismissPendingKeeps ==
  ASSUME NEW W, ChatInv(W), AssistantInv', NEW c \in Client, c \in W, DismissPending(c)
  PROVE  Kept(W)
<1> DEFINE copy == client[c].copy
           claimed == {k \in client[c].picked : Claims(k)}
           calls == {actions[k].call : k \in claimed}
           state == [pc |-> "starting", mode |-> "new", seq |-> 0]
           next == Dismissed(copy.turn, calls)
<1>1. /\ TypeOK /\ AssistantInv /\ RowsInv /\ Closed /\ client[c] \in ClientState
      /\ client[c].pc = "dismissing" /\ UNCHANGED <<chat, effects>>
      /\ Alone(W) /\ chat = "open" => ReadOK(client[c], turns, LastSeq, Proposed)
  BY DEF DismissPending, ChatInv, TypeOK, ReadsOK
<1>2. copy \in CopySet /\ client[c].picked \in SUBSET ActionId
  BY <1>1, ClientFacts
<1>3. copy.seq \in 0..MaxTurns /\ copy.turn \in Turn
  BY <1>2, CopyFacts
<1>4. claimed \in SUBSET Proposed
  BY <1>2 DEF Claims, Proposed
<1>5. state \in ClientState /\ RunOK(state)
  <2>1. 0 \in 0..MaxTurns
    BY AssistantAssumption
  <2> QED BY <2>1 DEF ClientState, Mode, RunOK
<1>6. Proposed' = {} => ReadOK(state, turns', LastSeq', Proposed')
  BY DEF ReadOK
<1>7. CASE client' = [client EXCEPT ![c] = Idle] /\ UNCHANGED <<turns, actions>>
  BY <1>1, <1>7, GivesUp
<1>8. CASE claimed = {} /\ Begin(c, "new", 0) /\ actions' = SetStatus(claimed, "dismissed")
           /\ turns' = turns
  <2>1. actions' = actions
    <3>1. SetStatus({}, "dismissed") = [k \in ActionId |-> actions[k]]
      BY DEF SetStatus
    <3> QED BY <1>1, <1>8, <3>1 DEF TypeOK
  <2>2. client' = [client EXCEPT ![c] = state]
    BY <1>8 DEF Begin
  <2>3. ASSUME Alone(W), chat = "open" PROVE Proposed = {}
    <3>1. Proposed \subseteq client[c].picked
      BY <1>1, <2>3 DEF ReadOK
    <3> QED BY <1>8, <3>1 DEF Claims, Proposed
  <2>4. Alone(W) /\ chat = "open" => ReadOK(state, turns, LastSeq, Proposed)
    BY <2>3 DEF ReadOK
  <2> HIDE DEF state
  <2> QED BY <1>1, <1>5, <1>8, <2>1, <2>2, <2>4, ReadKeeps
<1>9. CASE /\ claimed # {} /\ copy.seq \in DOMAIN turns
           /\ Begin(c, "new", 0) /\ actions' = SetStatus(claimed, "dismissed")
           /\ turns' = [turns EXCEPT ![copy.seq] = Dismissed(copy.turn, calls)]
  <2>1. /\ RowsInv' /\ Stored' = Stored /\ Proposed' = Proposed \ claimed
        /\ \A k \in ActionId : actions'[k].call = actions[k].call
    <3> HIDE DEF claimed
    <3> QED BY <1>1, <1>4, <1>9, CloseKeepsRows DEF AssistantInv
  <2>2. /\ next \in Turn /\ next.unanswered = copy.turn.unanswered \ calls
        /\ Waiting(next) = Waiting(copy.turn) \ calls
    <3> HIDE DEF calls
    <3> QED BY <1>3, DismissedFacts
  <2>3. client' = [client EXCEPT ![c] = state] /\ turns' = [turns EXCEPT ![copy.seq] = next]
    BY <1>9 DEF Begin
  <2> HIDE DEF next
  <2>4. /\ DOMAIN turns' \subseteq 1..MaxTurns /\ turns' = [s \in DOMAIN turns' |-> turns'[s]]
        /\ \A s \in DOMAIN turns' : turns'[s] \in Turn
    BY <1>1, <1>9, <2>2, <2>3, WriteFacts
  <2>5. chat = "open" /\ chat' = "open" /\ Closed'
    BY <1>1, <1>4, <1>9 DEF Closed
  <2>6. ASSUME Alone(W)
        PROVE  CardsOK' /\ ReadOK(state, turns', LastSeq', Proposed')
    <3>1. /\ copy = [seq |-> LastSeq, turn |-> turns[LastSeq]] /\ LastSeq \in DOMAIN turns
          /\ Proposed \subseteq client[c].picked
      BY <1>1, <2>5, <2>6 DEF ReadOK
    <3>2. copy.seq = LastSeq /\ copy.turn = turns[LastSeq]
      BY <3>1
    <3>3. Proposed' = {}
      BY <2>1, <3>1 DEF Claims, Proposed
    <3>4. CardsOK'
      <4>1. turns' = [turns EXCEPT ![LastSeq] = next]
        BY <2>3, <3>2
      <4>2. CardsOK
        BY <2>6 DEF ChatInv
      <4> HIDE DEF claimed
      <4> QED BY <1>4, <2>1, <2>2, <3>1, <3>2, <4>1, <4>2, DecidedKeepsCards
    <3> QED BY <1>6, <3>3, <3>4
  <2> HIDE DEF state
  <2> QED BY <1>1, <1>5, <2>1, <2>3, <2>4, <2>5, <2>6, MoveKeeps
<1> QED BY <1>7, <1>8, <1>9 DEF DismissPending

LEMMA ClaimAndDecideKeeps ==
  ASSUME NEW W, ChatInv(W), AssistantInv', NEW c \in Client, c \in W, ClaimAndDecide(c)
  PROVE  Kept(W)
<1> DEFINE copy == client[c].copy
           mine == client[c].picked
           state == [pc |-> "starting", mode |-> "continue", seq |-> copy.seq]
           next(card) == Decided(copy.turn, actions[mine].call, card)
<1>1. /\ TypeOK /\ AssistantInv /\ RowsInv /\ Closed /\ client[c] \in ClientState
      /\ client[c].pc = "deciding" /\ UNCHANGED chat
      /\ Alone(W) /\ chat = "open" => ReadOK(client[c], turns, LastSeq, Proposed)
  BY DEF ClaimAndDecide, ChatInv, TypeOK, ReadsOK
<1>2. copy \in CopySet /\ mine \in ActionId
  BY <1>1, ClientFacts
<1>3. copy.seq \in 0..MaxTurns /\ copy.turn \in Turn
  BY <1>2, CopyFacts
<1>4. state \in ClientState /\ RunOK(state)
  BY <1>3 DEF ClientState, Mode, RunOK
<1>5. CASE client' = [client EXCEPT ![c] = Idle] /\ UNCHANGED <<turns, actions, effects>>
  BY <1>1, <1>5, GivesUp
<1>6. ASSUME NEW card \in {"applied", "dismissed", "failed"},
             Claims(mine), copy.seq \in DOMAIN turns, turns' = [turns EXCEPT ![copy.seq] = next(card)],
             Begin(c, "continue", copy.seq),
             \/ \E status \in {"dismissed", "failed"} :
                  actions' = SetStatus({mine}, status) /\ UNCHANGED effects
             \/ /\ Applies(mine) /\ actions' = Approved(mine)
                /\ effects' = [effects EXCEPT ![mine] = @ + 1]
      PROVE  Kept(W)
  <2>1. mine \in Proposed /\ {mine} \in SUBSET Proposed
    BY <1>2, <1>6 DEF Claims, Proposed
  <2>2. /\ RowsInv' /\ Stored' = Stored /\ Proposed' = Proposed \ {mine}
        /\ \A k \in ActionId : actions'[k].call = actions[k].call
    <3> HIDE DEF mine
    <3>1. CASE /\ Applies(mine) /\ actions' = Approved(mine)
               /\ effects' = [effects EXCEPT ![mine] = @ + 1]
      BY <1>1, <1>2, <1>6, <3>1, ApproveKeepsRows DEF AssistantInv
    <3>2. ASSUME NEW status \in {"dismissed", "failed"},
                 actions' = SetStatus({mine}, status), UNCHANGED effects
          PROVE  /\ RowsInv' /\ Stored' = Stored /\ Proposed' = Proposed \ {mine}
                 /\ \A k \in ActionId : actions'[k].call = actions[k].call
      BY <1>1, <2>1, <3>2, CloseKeepsRows DEF AssistantInv
    <3> QED BY <1>6, <3>1, <3>2
  <2>3. actions[mine].call \in Call
    <3>1. actions[mine] \in Row /\ actions[mine].status = "proposed"
      BY <1>1, <1>2, <1>6 DEF AssistantInv, Typed, Claims
    <3> QED BY <3>1, RowFacts DEF Action
  <2>4. /\ next(card) \in Turn /\ next(card).unanswered = copy.turn.unanswered \ {actions[mine].call}
        /\ Waiting(next(card)) = Waiting(copy.turn) \ {actions[mine].call}
    <3>1. PICK turn \in Turn, call \in Call : turn = copy.turn /\ call = actions[mine].call
      BY <1>3, <2>3
    <3>2. /\ Decided(turn, call, card) \in Turn
          /\ Decided(turn, call, card).unanswered = turn.unanswered \ {call}
          /\ Waiting(Decided(turn, call, card)) = Waiting(turn) \ {call}
      BY DecidedFacts
    <3>3. next(card) = Decided(turn, call, card)
      BY <3>1
    <3> QED BY <3>1, <3>2, <3>3
  <2>5. client' = [client EXCEPT ![c] = state]
    BY <1>6 DEF Begin
  <2>6. PICK new : new = next(card)
    OBVIOUS
  <2> HIDE DEF next
  <2>7. /\ DOMAIN turns' = DOMAIN turns /\ LastSeq' = LastSeq
        /\ DOMAIN turns' \subseteq 1..MaxTurns /\ turns' = [s \in DOMAIN turns' |-> turns'[s]]
        /\ \A s \in DOMAIN turns' : turns'[s] \in Turn
    <3> HIDE DEF copy
    <3> QED BY <1>1, <1>6, <2>4, <2>6, WriteFacts
  <2>8. chat = "open" /\ chat' = "open" /\ Closed'
    BY <1>1, <2>1 DEF Closed
  <2>9. ASSUME Alone(W)
        PROVE  CardsOK' /\ ReadOK(state, turns', LastSeq', Proposed')
    <3>1. copy = [seq |-> LastSeq, turn |-> turns[LastSeq]] /\ LastSeq \in DOMAIN turns
      BY <1>1, <2>8, <2>9 DEF ReadOK
    <3>2. copy.seq = LastSeq /\ copy.turn = turns[LastSeq]
      BY <3>1
    <3>3. CardsOK'
      <4>1. turns' = [turns EXCEPT ![LastSeq] = new]
        BY <1>6, <2>6, <3>2
      <4>2. CardsOK
        BY <2>9 DEF ChatInv
      <4>3. {actions[k].call : k \in {mine}} = {actions[mine].call}
        OBVIOUS
      <4>4. /\ new \in Turn
            /\ new.unanswered = turns[LastSeq].unanswered \ {actions[k].call : k \in {mine}}
            /\ Waiting(new) = Waiting(turns[LastSeq]) \ {actions[k].call : k \in {mine}}
        BY <2>4, <2>6, <3>2, <4>3
      <4> HIDE DEF mine
      <4> QED BY <2>1, <2>2, <3>1, <4>1, <4>2, <4>4, DecidedKeepsCards
    <3>4. ReadOK(state, turns', LastSeq', Proposed')
      BY <2>7, <3>1, <3>2 DEF ReadOK
    <3> QED BY <3>3, <3>4
  <2> HIDE DEF state
  <2> QED BY <1>1, <1>4, <2>2, <2>5, <2>7, <2>8, <2>9, MoveKeeps
<1>7. \/ client' = [client EXCEPT ![c] = Idle] /\ UNCHANGED <<turns, actions, effects>>
      \/ /\ Claims(mine) /\ copy.seq \in DOMAIN turns /\ Begin(c, "continue", copy.seq)
         /\ \E card \in {"applied", "dismissed", "failed"} :
              turns' = [turns EXCEPT ![copy.seq] = next(card)]
         /\ \/ \E status \in {"dismissed", "failed"} :
                 actions' = SetStatus({mine}, status) /\ UNCHANGED effects
            \/ /\ Applies(mine) /\ actions' = Approved(mine)
               /\ effects' = [effects EXCEPT ![mine] = @ + 1]
  BY <1>1 DEF ClaimAndDecide
<1> HIDE DEF state, next
<1> QED BY <1>5, <1>6, <1>7

-----------------------------------------------------------------------------
(* A saved turn.                                                           *)

\* The turn that a saved run extends, and what it leaves of the others.
Begins(mode, copy, seq, start) ==
  /\ seq \in 1..MaxTurns /\ start \in Turn
  /\ mode \in {"first", "new"} => seq = LastSeq + 1 /\ start = copy.turn
  /\ mode = "retry" => seq = copy.seq /\ start = [copy.turn EXCEPT !.row = start.row]
  /\ mode = "continue" =>
       /\ seq = copy.seq /\ seq \in DOMAIN turns /\ start.cards = copy.turn.cards
       /\ turns[seq].row = copy.turn.row => start.unanswered = copy.turn.unanswered
Keeps(mode, seq) == {s \in DOMAIN turns : mode = "retry" => s < seq}

\* A run that is saved, and what saving it makes of the turns.
Savable(mode, copy) ==
  /\ mode \in Mode /\ copy \in CopySet
  /\ mode \in {"first", "new"} => LastSeq < MaxTurns
  /\ mode = "retry" => copy.seq # 0
  /\ mode = "continue" => copy.seq \in DOMAIN turns
IsSaved(saved, mode, copy, calls, completed) ==
  \E seq, start :
    /\ Begins(mode, copy, seq, start) /\ saved = [s \in DOMAIN saved |-> saved[s]]
    /\ DOMAIN saved = {seq} \cup Keeps(mode, seq)
    /\ saved[seq] = Extended(start, calls, completed)
    /\ \A s \in Keeps(mode, seq) : s # seq => saved[s] = turns[s]

LEMMA SavedFacts ==
  ASSUME TypeOK, NEW mode, NEW copy, Savable(mode, copy), NEW calls \in SUBSET Call,
         NEW completed \in BOOLEAN, NEW row \in BOOLEAN,
         NEW saved, saved = SavedTurns(mode, copy, calls, completed, row)
  PROVE  IsSaved(saved, mode, copy, calls, completed)
<1>0. /\ mode \in Mode /\ copy \in CopySet
      /\ mode \in {"first", "new"} => LastSeq < MaxTurns
      /\ mode = "retry" => copy.seq # 0
      /\ mode = "continue" => copy.seq \in DOMAIN turns
  BY DEF Savable
<1>1. copy.seq \in 0..MaxTurns /\ copy.turn \in Turn
  BY <1>0, CopyFacts
<1>2. LastSeq \in 0..MaxTurns /\ MaxTurns \in Nat
  BY TurnFacts, AssistantAssumption
<1>3. CASE mode \in {"first", "new"}
  <2>1. Begins(mode, copy, LastSeq + 1, copy.turn)
    BY <1>0, <1>1, <1>2, <1>3 DEF Begins
  <2>2. saved = [s \in {LastSeq + 1} \cup Keeps(mode, LastSeq + 1) |->
           IF s = LastSeq + 1 THEN Extended(copy.turn, calls, completed) ELSE turns[s]]
    <3>1. mode # "retry"
      BY <1>3
    <3>2. Keeps(mode, LastSeq + 1) = DOMAIN turns
      BY <3>1 DEF Keeps
    <3> QED BY <1>3, <3>1, <3>2 DEF SavedTurns
  <2> QED BY <2>1, <2>2 DEF IsSaved
<1>4. CASE mode = "retry"
  <2> DEFINE start == [copy.turn EXCEPT !.row = row]
  <2>1. start \in Turn /\ start = [copy.turn EXCEPT !.row = start.row]
    BY <1>1 DEF Turn
  <2>2. saved = [s \in {copy.seq} \cup Keeps(mode, copy.seq) |->
           IF s = copy.seq THEN Extended(start, calls, completed) ELSE turns[s]]
    <3>1. Keeps(mode, copy.seq) = {s \in DOMAIN turns : s < copy.seq}
      BY <1>4 DEF Keeps
    <3>2. DOMAIN Restrict(turns, {s \in DOMAIN turns : s < copy.seq}) = Keeps(mode, copy.seq)
      BY <3>1 DEF Restrict
    <3>3. \A s \in Keeps(mode, copy.seq) :
            Restrict(turns, {x \in DOMAIN turns : x < copy.seq})[s] = turns[s]
      BY <3>1 DEF Restrict
    <3> QED BY <1>4, <3>2, <3>3 DEF SavedTurns
  <2>3. Begins(mode, copy, copy.seq, start)
    <3> HIDE DEF start
    <3> QED BY <1>0, <1>1, <1>2, <1>4, <2>1 DEF Begins
  <2> HIDE DEF start
  <2> QED BY <2>2, <2>3 DEF IsSaved
<1>5. CASE mode = "continue"
  <2> DEFINE now == turns[copy.seq]
             start == [copy.turn EXCEPT !.row = now.row,
                         !.unanswered = IF now.row = copy.turn.row THEN @ ELSE now.unanswered]
  <2>1. now \in Turn
    BY <1>0, <1>5, TurnFacts
  <2>2. /\ start \in Turn /\ start.cards = copy.turn.cards
        /\ now.row = copy.turn.row => start.unanswered = copy.turn.unanswered
    <3> HIDE DEF now
    <3> QED BY <1>1, <2>1 DEF Turn
  <2>3. Begins(mode, copy, copy.seq, start)
    <3>1. copy.seq \in 1..MaxTurns
      BY <1>0, <1>5, TurnFacts
    <3> HIDE DEF start
    <3> QED BY <1>0, <1>5, <2>2, <3>1 DEF Begins
  <2>4. saved = [s \in {copy.seq} \cup Keeps(mode, copy.seq) |->
           IF s = copy.seq THEN Extended(start, calls, completed) ELSE turns[s]]
    <3>1. Keeps(mode, copy.seq) = DOMAIN turns
      BY <1>5 DEF Keeps
    <3> QED BY <1>5, <3>1 DEF SavedTurns
  <2> HIDE DEF start
  <2> QED BY <2>3, <2>4 DEF IsSaved
<1> QED BY <1>0, <1>3, <1>4, <1>5 DEF Mode

\* What a saved run leaves of the cards, with one window.
LEMMA SavedKeepsCards ==
  ASSUME NEW new, NEW id, NEW seq \in DOMAIN turns', LastSeq' = seq,
         turns'[seq].unanswered = new, Waiting(turns'[seq]) = new,
         \A s \in DOMAIN turns' : s # seq =>
           turns'[s].unanswered = {} /\ Waiting(turns'[s]) = {},
         Proposed' = {id[call] : call \in new},
         Stored' = Stored \cup {id[call] : call \in new},
         \A call \in new : id[call] \in ActionId /\ actions'[id[call]].call = call,
         \A call \in new, j \in Stored : j < id[call]
  PROVE  CardsOK'
<1>1. ActionId \subseteq Int
  BY AssistantAssumption DEF ActionId
<1>2. {actions'[k].call : k \in Proposed'} = new
  <2>1. \A call \in new : id[call] \in Proposed' /\ actions'[id[call]].call = call
    OBVIOUS
  <2>2. ASSUME NEW k \in Proposed' PROVE actions'[k].call \in new
    <3>1. PICK call \in new : k = id[call]
      OBVIOUS
    <3> QED BY <3>1
  <2> QED BY <2>1, <2>2
<1>3. ASSUME NEW k \in Proposed', NEW j \in Stored', actions'[j].call = actions'[k].call
      PROVE  j <= k
  <2>1. PICK call \in new : k = id[call]
    OBVIOUS
  <2>2. id[call] \in Int /\ actions'[k].call = call
    BY <1>1, <2>1
  <2>3. CASE j \in Stored
    <3>1. j < id[call] /\ j \in Int
      BY <1>1, <2>3 DEF Stored
    <3> QED BY <2>1, <2>2, <3>1
  <2>4. CASE j \notin Stored
    <3>1. PICK other \in new : j = id[other]
      BY <2>4
    <3>2. other = call
      BY <1>3, <2>2, <3>1
    <3> QED BY <2>1, <2>2, <3>1, <3>2
  <2> QED BY <2>3, <2>4
<1>4. \A s \in DOMAIN turns' : /\ turns'[s].unanswered = Waiting(turns'[s])
                               /\ s # LastSeq' => Waiting(turns'[s]) = {}
  OBVIOUS
<1> QED BY <1>2, <1>3, <1>4 DEF CardsOK, LastTurn

LEMMA FinishKeeps ==
  ASSUME NEW W, ChatInv(W), AssistantInv', NEW c \in Client, c \in W, Finish(c)
  PROVE  Kept(W)
<1>1. PICK calls \in SUBSET Call, completed \in BOOLEAN, row \in BOOLEAN :
        \E id \in NewIds(calls), undoes \in [calls -> {NoUndo} \cup Undoable] :
          FinishRun(c, calls, completed, id, undoes, row)
  BY DEF Finish
<1>2. PICK id \in NewIds(calls), undoes \in [calls -> {NoUndo} \cup Undoable] :
        FinishRun(c, calls, completed, id, undoes, row)
  BY <1>1
<1> DEFINE mode == client[c].mode
           copy == client[c].copy
           new == IF completed THEN calls ELSE {}
           closed == IF mode = "retry" THEN Proposed ELSE {}
<1>3. /\ client[c].pc = "running" /\ UNCHANGED effects /\ client' = [client EXCEPT ![c] = Idle]
      /\ mode \in {"first", "new"} => LastSeq < MaxTurns
  BY <1>2 DEF FinishRun
<1>4. /\ TypeOK /\ AssistantInv /\ RowsInv /\ Closed /\ client[c] \in ClientState
      /\ RunOK(client[c])
      /\ Alone(W) /\ chat = "open" => ReadOK(client[c], turns, LastSeq, Proposed)
  BY DEF ChatInv, TypeOK, ReadsOK, RunsOK
<1>5. mode \in Mode /\ copy \in CopySet
  BY <1>3, <1>4, ClientFacts
<1>6. CASE UNCHANGED <<chat, turns, actions>>
  BY <1>3, <1>6, GivesUp
<1>7. CASE /\ Saves(mode, copy.seq)
           /\ chat' = "open" /\ turns' = SavedTurns(mode, copy, calls, completed, row)
           /\ actions' = Inserted(IF mode = "retry" THEN SetStatus(Proposed, "dismissed")
                                  ELSE actions, new, id, undoes)
  <2>1. /\ mode = "first" => chat = "none"
        /\ mode # "first" => chat = "open"
        /\ mode = "continue" => copy.seq \in DOMAIN turns
        /\ mode = "retry" => copy.seq # 0
        /\ mode # "continue" => copy = NoCopy(copy.seq)
    BY <1>3, <1>4, <1>5, <1>7 DEF Saves, RunOK, Mode
  <2>2. (IF mode = "retry" THEN SetStatus(Proposed, "dismissed") ELSE actions)
          = IF closed = {} THEN actions ELSE SetStatus(closed, "dismissed")
    <3>1. SetStatus({}, "dismissed") = actions
      BY <1>4 DEF SetStatus, TypeOK
    <3> QED BY <3>1
  <2>3. /\ RowsInv'
        /\ Stored' = Stored \cup {id[call] : call \in new}
        /\ Proposed' = (Proposed \ closed) \cup {id[call] : call \in new}
        /\ \A call \in new : /\ actions'[id[call]].call = call
                             /\ \A j \in Stored : j < id[call]
    <3>1. new \in {calls, {}} /\ closed \in {Proposed, {}}
      OBVIOUS
    <3>2. PICK base : base = IF closed = {} THEN actions ELSE SetStatus(closed, "dismissed")
      OBVIOUS
    <3>3. actions' = Inserted(base, new, id, undoes)
      BY <1>7, <2>2, <3>2
    <3>4. Typed /\ Typed' /\ AppliedOnce
      BY <1>4 DEF AssistantInv
    <3>5. /\ id \in NewIds(calls) /\ undoes \in [calls -> {NoUndo} \cup Undoable]
          /\ RowsInv /\ UNCHANGED effects
      BY <1>3, <1>4
    <3> HIDE DEF new, closed
    <3> QED BY ONLY <3>1, <3>2, <3>3, <3>4, <3>5, InsertKeepsRows
  <2>4. PICK seq, start :
          /\ Begins(mode, copy, seq, start) /\ turns' = [s \in DOMAIN turns' |-> turns'[s]]
          /\ DOMAIN turns' = {seq} \cup Keeps(mode, seq)
          /\ turns'[seq] = Extended(start, calls, completed)
          /\ \A s \in Keeps(mode, seq) : s # seq => turns'[s] = turns[s]
    <3>1. PICK saved : saved = SavedTurns(mode, copy, calls, completed, row)
      OBVIOUS
    <3>2. turns' = saved
      BY <1>7, <3>1
    <3>3. Savable(mode, copy) /\ TypeOK
      BY <1>3, <1>4, <1>5, <2>1 DEF Savable
    <3>4. IsSaved(saved, mode, copy, calls, completed)
      BY <3>1, <3>3, SavedFacts
    <3> QED BY <3>2, <3>4 DEF IsSaved
  <2>5. seq \in 1..MaxTurns /\ start \in Turn /\ Keeps(mode, seq) \subseteq DOMAIN turns
    BY <2>4 DEF Begins, Keeps
  <2>6. /\ turns'[seq] = Extended(start, calls, completed)
        /\ turns'[seq] \in Turn
        /\ turns'[seq].unanswered = start.unanswered \cup new
        /\ Waiting(turns'[seq]) = (Waiting(start) \ calls) \cup new
    <3>1. turns'[seq] = Extended(start, calls, completed)
      BY <2>4
    <3>2. PICK next : next = Extended(start, calls, completed)
      OBVIOUS
    <3>3. PICK open : open = new
      OBVIOUS
    <3>5. /\ next \in Turn /\ next.unanswered = start.unanswered \cup open
          /\ Waiting(next) = (Waiting(start) \ calls) \cup open
      BY <2>5, <3>2, <3>3 DEF Extended, Turn, CardState, Waiting
    <3>4. turns'[seq] = next
      BY <3>1, <3>2
    <3> QED BY <3>1, <3>3, <3>4, <3>5
  <2>7. /\ DOMAIN turns' = {seq} \cup Keeps(mode, seq)
        /\ \A s \in DOMAIN turns' : s # seq => s \in DOMAIN turns /\ turns'[s] = turns[s]
        /\ turns' = [s \in DOMAIN turns' |-> turns'[s]]
    BY <2>4, <2>5
  <2>8. DOMAIN turns' \subseteq 1..MaxTurns /\ \A s \in DOMAIN turns' : turns'[s] \in Turn
    BY <1>4, <2>5, <2>6, <2>7, TurnFacts
  <2>9. ASSUME Alone(W) PROVE CardsOK'
    <3>1. CardsOK /\ Closed
      BY <1>4, <2>9 DEF ChatInv
    <3>2. /\ chat = "open" \/ (mode = "first" /\ turns = <<>> /\ Proposed = {})
          /\ chat = "open" => ReadOK(client[c], turns, LastSeq, Proposed) /\ mode # "first"
      BY <1>3, <1>4, <2>1, <2>9 DEF Closed, ReadOK
    <3>3. \A s \in Keeps(mode, seq) : s # seq => s < seq
      <4>1. CASE mode \in {"first", "new"}
        BY <1>4, <2>4, <4>1, TurnFacts DEF Begins, Keeps
      <4>2. CASE mode = "retry"
        BY <4>2 DEF Keeps
      <4>3. CASE mode = "continue"
        <5>1. copy.seq = LastSeq
          BY <1>3, <2>1, <3>2, <4>3 DEF ReadOK
        <5> QED BY <1>4, <2>4, <4>3, <5>1, TurnFacts DEF Begins, Keeps
      <4> QED BY <1>5, <4>1, <4>2, <4>3 DEF Mode
    <3>4. LastSeq' = seq
      <4> DEFINE ts == turns'
                 last == LastSeq'
      <4>1. DOMAIN ts \subseteq 1..MaxTurns /\ ts = [s \in DOMAIN ts |-> ts[s]]
        BY <2>7, <2>8
      <4>2. last = IF ts = <<>> THEN 0 ELSE Max(DOMAIN ts)
        BY DEF LastSeq
      <4>3. \A m \in DOMAIN ts : (\A s \in DOMAIN ts : s <= m) => last = m
        <5> HIDE DEF ts, last
        <5> QED BY <4>1, <4>2, LastFacts
      <4>4. seq \in DOMAIN ts /\ \A s \in DOMAIN ts : s <= seq
        BY <2>5, <2>7, <2>8, <3>3
      <4> QED BY <4>3, <4>4
    <3>5. start.unanswered = {} /\ Waiting(start) = {}
      <4>1. CASE mode # "continue"
        <5>1. copy.turn.unanswered = {} /\ copy.turn.cards = NoCards
          BY <2>1, <4>1 DEF NoCopy
        <5>2. start.unanswered = copy.turn.unanswered /\ start.cards = copy.turn.cards
          BY <1>5, <2>4, <4>1, CopyFacts DEF Begins, Mode, Turn
        <5> QED BY <5>1, <5>2 DEF Waiting, NoCards
      <4>2. CASE mode = "continue"
        <5>1. copy = [seq |-> LastSeq, turn |-> turns[LastSeq]] /\ LastSeq \in DOMAIN turns /\ Proposed = {}
          BY <1>3, <2>1, <3>2, <4>2 DEF ReadOK
        <5>2. copy.seq = LastSeq /\ copy.turn = turns[LastSeq]
          BY <5>1
        <5>3. start.unanswered = turns[LastSeq].unanswered /\ start.cards = turns[LastSeq].cards
          BY <2>4, <4>2, <5>2 DEF Begins
        <5>4. turns[LastSeq].unanswered = Waiting(turns[LastSeq]) /\ Waiting(turns[LastSeq]) = {}
          BY <3>1, <5>1 DEF CardsOK, LastTurn
        <5> QED BY <5>3, <5>4 DEF Waiting
      <4> QED BY <4>1, <4>2
    <3>6. Proposed' = {id[call] : call \in new}
      <4>1. Proposed \ closed = {}
        BY <1>3, <1>5, <3>2 DEF ReadOK, Mode
      <4> QED BY <2>3, <4>1
    <3>7. ASSUME NEW s \in DOMAIN turns', s # seq
          PROVE  turns'[s].unanswered = {} /\ Waiting(turns'[s]) = {}
      <4>1. s \in DOMAIN turns /\ turns'[s] = turns[s] /\ s \in Keeps(mode, seq)
        BY <2>7, <3>7
      <4>2. turns[s].unanswered = Waiting(turns[s])
        BY <3>1, <4>1 DEF CardsOK
      <4>3. Waiting(turns[s]) = {}
        <5>1. CASE s # LastSeq
          BY <3>1, <4>1, <5>1 DEF CardsOK
        <5>2. CASE s = LastSeq
          <6>1. mode = "new" \/ mode = "first"
            BY <1>3, <1>5, <2>1, <2>4, <3>2, <3>3, <3>7, <4>1, <5>2 DEF ReadOK, Begins, Mode
          <6>2. Proposed = {}
            BY <1>3, <3>2, <6>1 DEF ReadOK
          <6> QED BY <3>1, <4>1, <5>2, <6>2 DEF CardsOK, LastTurn
        <5> QED BY <5>1, <5>2
      <4> QED BY <4>1, <4>2, <4>3
    <3>8. \A call \in new : id[call] \in ActionId
      BY DEF NewIds, Unused
    <3>9. turns'[seq].unanswered = new /\ Waiting(turns'[seq]) = new /\ seq \in DOMAIN turns'
      BY <2>6, <2>7, <3>5
    <3> HIDE DEF new
    <3> QED BY <2>3, <3>4, <3>6, <3>7, <3>8, <3>9, SavedKeepsCards
  <2>10. Closed'
    BY <1>7 DEF Closed
  <2>11. chat' \in {"none", "open", "deleted"} /\ (chat = "deleted" => chat' = "deleted")
    BY <1>7, <2>1
  <2> QED BY <1>3, <2>3, <2>7, <2>8, <2>9, <2>10, <2>11, IdleIs, MoveKeeps
<1>8. \/ UNCHANGED <<chat, turns, actions>>
      \/ /\ Saves(mode, copy.seq)
         /\ chat' = "open" /\ turns' = SavedTurns(mode, copy, calls, completed, row)
         /\ actions' = Inserted(IF mode = "retry" THEN SetStatus(Proposed, "dismissed")
                                ELSE actions, new, id, undoes)
  BY <1>2 DEF FinishRun
<1> QED BY <1>6, <1>7, <1>8

-----------------------------------------------------------------------------
LEMMA CloseChatKeeps ==
  ASSUME NEW W, ChatInv(W), AssistantInv', DeleteChat \/ Prune
  PROVE  Kept(W)
<1>1. /\ TypeOK /\ AssistantInv /\ RowsInv /\ RunsOK /\ chat' = "deleted" /\ turns' = <<>>
      /\ UNCHANGED <<effects, client>>
  BY DEF ChatInv, DeleteChat, Prune
<1>2. RowsInv' /\ Proposed' = {}
  <2>1. CASE DeleteChat
    <3>1. actions' = SetStatus(Proposed, "dismissed") /\ Proposed \in SUBSET Proposed
      BY <2>1 DEF DeleteChat
    <3>2. Typed /\ Typed' /\ AppliedOnce
      BY <1>1 DEF AssistantInv
    <3>3. RowsInv' /\ Proposed' = Proposed \ Proposed
      BY <1>1, <3>1, <3>2, CloseKeepsRows
    <3> QED BY <3>3
  <2>2. CASE Prune
    <3>1. actions' = SetStatus(Stored, "gone")
      BY <2>2 DEF Prune
    <3>2. ASSUME NEW k \in ActionId
          PROVE  actions'[k].status = IF actions[k].status = "none" THEN "none" ELSE "gone"
      <4>1. k \notin Stored => actions'[k] = actions[k]
        BY <3>1 DEF SetStatus
      <4>2. k \in Stored => actions'[k] = [actions[k] EXCEPT !.status = "gone"]
        BY <3>1 DEF SetStatus
      <4>3. k \in Stored => actions[k] \in Action
        BY <1>1, RowFacts DEF AssistantInv, Typed, Stored
      <4>4. k \in Stored => actions'[k].status = "gone"
        BY <4>2, <4>3 DEF Action
      <4>5. k \notin Stored => actions[k].status \in {"none", "gone"}
        BY DEF Stored
      <4> QED BY <4>1, <4>4, <4>5 DEF Stored
    <3>3. ASSUME NEW k \in ActionId PROVE actions[k].status = "none" \/ actions'[k].undoes = actions[k].undoes
      <4>1. k \notin Stored => actions'[k] = actions[k]
        BY <3>1 DEF SetStatus
      <4>2. k \in Stored => actions'[k] = [actions[k] EXCEPT !.status = "gone"]
        BY <3>1 DEF SetStatus
      <4>3. k \in Stored => actions[k] \in Action
        BY <1>1, RowFacts DEF AssistantInv, Typed, Stored
      <4> QED BY <4>1, <4>2, <4>3 DEF Action
    <3>4. Stored' = {} /\ Proposed' = {} /\ Unused' = Unused
      BY <3>2 DEF Stored, Proposed, Unused
    <3>5. NewIdsLast' /\ UndoneOnce'
      BY <1>1, <3>4 DEF RowsInv, NewIdsLast, UndoneOnce
    <3>6. UndoesStored'
      BY <1>1, <3>2, <3>3 DEF RowsInv, UndoesStored
    <3> QED BY <3>4, <3>5, <3>6 DEF RowsInv
  <2> QED BY <2>1, <2>2
<1>3. DOMAIN turns' = {} /\ LastSeq' = 0
  BY <1>1 DEF LastSeq
<1>4. TypeOK'
  <2>1. turns' \in [DOMAIN turns' -> Turn] /\ DOMAIN turns' \subseteq 1..MaxTurns
    BY <1>1, <1>3
  <2> QED BY <1>1, <2>1 DEF TypeOK, AssistantInv, Typed, Row
<1>5. Closed' /\ RunsOK' /\ CardsOK' /\ ReadsOK'
  BY <1>1, <1>2, <1>3 DEF Closed, RunsOK, CardsOK, ReadsOK
<1> QED BY <1>1, <1>2, <1>4, <1>5 DEF Kept, ChatInv

LEMMA StutterKeeps ==
  ASSUME NEW W, ChatInv(W), UNCHANGED vars
  PROVE  Kept(W)
<1>1. UNCHANGED <<chat, turns, actions, effects, client>>
  BY DEF vars
<1>2. AssistantInv' /\ TypeOK'
  BY <1>1 DEF ChatInv, AssistantInv, Typed, AppliedOnce, TypeOK
<1>3. /\ RowsInv' /\ Closed' /\ RunsOK' /\ LastSeq' = LastSeq /\ LastTurn' = LastTurn
      /\ Proposed' = Proposed /\ Stored' = Stored
  BY <1>1 DEF ChatInv, RowsInv, Closed, RunsOK, LastSeq, LastTurn, Proposed, NewIdsLast, UndoesStored,
         UndoneOnce, Unused, Stored
<1>4. Alone(W) => CardsOK' /\ ReadsOK'
  BY <1>1, <1>3 DEF ChatInv, CardsOK, ReadsOK
<1> QED BY <1>1, <1>2, <1>3, <1>4 DEF Kept, ChatInv

\* A window that moves is in use.
LEMMA MovesInUse ==
  ASSUME NEW W, TypeOK, Quiet(W), Quiet(W)', NEW c \in Client,
         \/ FirstQuestion(c) \/ Ask(c) \/ DismissPending(c) \/ Retry(c)
         \/ \E call \in Call, approve \in BOOLEAN : Decide(c, call, approve)
         \/ ClaimAndDecide(c) \/ StartRun(c) \/ Finish(c) \/ Crash(c)
  PROVE  c \in W
<1> SUFFICES ASSUME client[c] = Idle, client'[c] = Idle PROVE FALSE
  BY DEF Quiet
<1>1. \A state : client' = [client EXCEPT ![c] = state] => state.pc = "idle"
  BY DEF TypeOK, Idle
<1>2. client[c].pc = "idle" /\ Idle.pc = "idle"
  BY DEF Idle
<1>3. ~(DismissPending(c) \/ ClaimAndDecide(c) \/ StartRun(c) \/ Finish(c) \/ Crash(c))
  BY <1>2 DEF DismissPending, ClaimAndDecide, StartRun, Finish, Crash
<1>4. ASSUME NEW mode, NEW seq PROVE ~Begin(c, mode, seq)
  <2> DEFINE state == [pc |-> "starting", mode |-> mode, seq |-> seq]
  <2>1. state.pc # "idle"
    OBVIOUS
  <2> HIDE DEF state
  <2>2. client' # [client EXCEPT ![c] = state]
    BY <1>1, <2>1
  <2> QED BY <2>2 DEF Begin, state
<1>5. ~(FirstQuestion(c) \/ Retry(c))
  BY <1>4 DEF FirstQuestion, Retry
<1>6. ~Ask(c)
  <2> DEFINE state == [pc |-> "dismissing", copy |-> Copy(LastSeq),
                       picked |-> ActionsOf(Waiting(LastTurn))]
  <2>1. state.pc # "idle"
    OBVIOUS
  <2> HIDE DEF state
  <2>2. client' # [client EXCEPT ![c] = state]
    BY <1>1, <2>1
  <2> QED BY <1>4, <2>2 DEF Ask, state
<1>7. ASSUME NEW call \in Call, NEW approve \in BOOLEAN PROVE ~Decide(c, call, approve)
  <2> DEFINE state == [pc |-> "deciding", copy |-> Copy(LastSeq),
                       picked |-> LatestAction(call), approve |-> approve]
  <2>1. state.pc # "idle"
    OBVIOUS
  <2> HIDE DEF state
  <2>2. client' # [client EXCEPT ![c] = state]
    BY <1>1, <2>1
  <2> QED BY <2>2 DEF Decide, state
<1> QED BY <1>3, <1>5, <1>6, <1>7

LEMMA NextKeeps ==
  ASSUME NEW W, ChatInv(W), [Next]_vars, Quiet(W)'
  PROVE  ChatInv(W)' /\ Kept(W)
<1> SUFFICES Kept(W)
  BY DEF Kept
<1>1. AssistantInv'
  BY NextInv DEF ChatInv
<1>2. ASSUME NEW c \in Client,
             FirstQuestion(c) \/ Ask(c) \/ DismissPending(c) \/ Retry(c)
             \/ ClaimAndDecide(c) \/ StartRun(c) \/ Finish(c) \/ Crash(c)
      PROVE  Kept(W)
  <2>1. c \in W
    BY <1>2, MovesInUse DEF ChatInv
  <2> QED BY <1>1, <1>2, <2>1, FirstQuestionKeeps, AskKeeps, DismissPendingKeeps, RetryKeeps,
             ClaimAndDecideKeeps, StartRunKeeps, FinishKeeps, CrashKeeps
<1>3. ASSUME NEW c \in Client, NEW call \in Call, NEW approve \in BOOLEAN, Decide(c, call, approve)
      PROVE  Kept(W)
  <2>1. c \in W
    BY <1>3, MovesInUse DEF ChatInv
  <2> QED BY <1>1, <1>3, <2>1, DecideKeeps
<1>4. CASE DeleteChat \/ Prune
  BY <1>1, <1>4, CloseChatKeeps
<1>5. CASE UNCHANGED vars
  BY <1>5, StutterKeeps
<1> QED BY <1>2, <1>3, <1>4, <1>5 DEF Next

LEMMA InitChat == ASSUME NEW W, Init PROVE ChatInv(W)
<1>1. /\ chat = "none" /\ turns = <<>> /\ DOMAIN turns = {}
      /\ \A k \in ActionId : actions[k] = NoAction /\ actions[k].status = "none"
      /\ \A c \in Client : client[c] = Idle
  BY DEF Init, NoAction
<1>2. TypeOK
  <2>1. turns \in [DOMAIN turns -> Turn]
    BY <1>1
  <2> QED BY <1>1, <2>1 DEF Init, TypeOK, ClientState
<1>3. Unused = ActionId /\ Stored = {} /\ Proposed = {} /\ LastSeq = 0
  BY <1>1 DEF Unused, Stored, Proposed, LastSeq
<1>4. RowsInv
  BY <1>1, <1>3 DEF RowsInv, NewIdsLast, UndoesStored, UndoneOnce
<1>5. Closed /\ RunsOK /\ CardsOK /\ ReadsOK /\ Quiet(W)
  BY <1>1, <1>3, IdleIs DEF Closed, RunsOK, CardsOK, ReadsOK, Quiet
<1> QED BY <1>2, <1>4, <1>5, InitInv DEF ChatInv

-----------------------------------------------------------------------------
\* A window's request or turn is moved on by its own actions only.
LEMMA OwnMove ==
  ASSUME TypeOK, [Next]_vars, NEW c \in Client, client'[c] # client[c]
  PROVE  \/ FirstQuestion(c) \/ Ask(c) \/ DismissPending(c) \/ Retry(c)
         \/ \E call \in Call, approve \in BOOLEAN : Decide(c, call, approve)
         \/ ClaimAndDecide(c) \/ StartRun(c) \/ Finish(c) \/ Crash(c)
<1>1. client = [d \in Client |-> client[d]]
  BY DEF TypeOK
<1>2. ASSUME NEW d \in Client, NEW state, client' = [client EXCEPT ![d] = state] PROVE d = c
  BY <1>1, <1>2
<1>3. ASSUME NEW d \in Client,
             FirstQuestion(d) \/ Ask(d) \/ DismissPending(d) \/ Retry(d)
             \/ ClaimAndDecide(d) \/ StartRun(d) \/ Crash(d)
      PROVE  d = c
  BY <1>2, <1>3 DEF FirstQuestion, Ask, DismissPending, Retry, ClaimAndDecide, StartRun, Crash, Begin
<1>4. ASSUME NEW d \in Client, NEW call \in Call, NEW approve \in BOOLEAN, Decide(d, call, approve)
      PROVE  d = c
  BY <1>2, <1>4 DEF Decide
<1>5. ASSUME NEW d \in Client, Finish(d) PROVE d = c
  BY <1>2, <1>5 DEF Finish, FinishRun
<1>6. ~(DeleteChat \/ Prune \/ UNCHANGED vars)
  BY DEF DeleteChat, Prune, vars
<1> QED BY <1>3, <1>4, <1>5, <1>6 DEF Next

LEMMA FinishKeepsApproved ==
  ASSUME NEW W, ChatInv(W), NEW c \in Client, Finish(c), client[c].mode = "retry",
         NEW old \in DOMAIN turns, NEW call \in Call, turns[old].cards[call] = "applied"
  PROVE  old \in DOMAIN turns' /\ turns'[old].cards[call] = "applied"
<1>1. PICK calls \in SUBSET Call, completed \in BOOLEAN, row \in BOOLEAN :
        \E id \in NewIds(calls), undoes \in [calls -> {NoUndo} \cup Undoable] :
          FinishRun(c, calls, completed, id, undoes, row)
  BY DEF Finish
<1>2. PICK id, undoes : FinishRun(c, calls, completed, id, undoes, row)
  BY <1>1
<1> DEFINE copy == client[c].copy
<1>3. /\ TypeOK /\ client[c].pc = "running" /\ client[c] \in ClientState /\ RunOK(client[c])
  BY <1>2 DEF FinishRun, ChatInv, TypeOK, RunsOK
<1>4. copy \in CopySet /\ copy.seq \in 0..MaxTurns /\ copy.seq # 0
  BY <1>3, ClientFacts, CopyFacts DEF RunOK
<1>5. CASE turns' = turns
  BY <1>5
<1>6. CASE Saves("retry", copy.seq) /\ turns' = SavedTurns("retry", copy, calls, completed, row)
  <2>1. old < copy.seq
    <3>1. old >= copy.seq => ~Has(turns[old], "applied")
      BY <1>6 DEF Saves
    <3>2. Has(turns[old], "applied") /\ old \in Int
      BY <1>3, TurnFacts DEF Has
    <3> QED BY <1>4, <3>1, <3>2
  <2>2. PICK saved, mode : mode = "retry" /\ saved = SavedTurns(mode, copy, calls, completed, row)
    OBVIOUS
  <2>3. Savable(mode, copy) /\ TypeOK
    BY <1>3, <1>4, <2>2 DEF Savable, Mode
  <2>4. IsSaved(saved, mode, copy, calls, completed)
    BY <2>2, <2>3, SavedFacts
  <2>5. old \in Keeps(mode, copy.seq) /\ old # copy.seq
    BY <1>4, <2>1 DEF Keeps
  <2>6. old \in DOMAIN saved /\ saved[old] = turns[old]
    BY <2>2, <2>4, <2>5 DEF IsSaved, Begins
  <2> QED BY <1>6, <2>2, <2>6
<1> QED BY <1>2, <1>5, <1>6 DEF FinishRun

LEMMA AnsweredHistory ==
  ASSUME NEW W, ChatInv(W), Alone(W), NEW c \in Client, StartRun(c), client'[c].pc = "running",
         NEW s \in History(c)
  PROVE  turns[s].unanswered = {}
<1> DEFINE mode == client[c].mode
           seq == client[c].seq
<1>1. /\ TypeOK /\ client[c].pc = "starting" /\ client[c] \in ClientState /\ CardsOK
      /\ client = [d \in Client |-> client[d]]
  BY DEF StartRun, ChatInv, TypeOK
<1>2. s \in DOMAIN turns /\ (mode = "retry" => s < seq) /\ (mode = "continue" => s <= seq)
  BY DEF History
<1>3. chat = "open"
  BY <1>2 DEF ChatInv, Closed
<1>4. ReadOK(client[c], turns, LastSeq, Proposed)
  BY <1>3 DEF ChatInv, ReadsOK
<1>5. s \in 1..MaxTurns /\ LastSeq \in DOMAIN turns
  BY <1>1, <1>2, TurnFacts
<1>6. mode = "continue" => seq \in DOMAIN turns /\ Waiting(turns[seq]) = {}
  <2>1. Idle.pc # "running"
    BY DEF Idle
  <2>2. client' = [client EXCEPT ![c] = Idle] => client'[c] = Idle
    BY <1>1
  <2> QED BY <2>1, <2>2 DEF StartRun
<1>7. Waiting(turns[s]) = {}
  <2>1. CASE s # LastSeq
    BY <1>1, <1>2, <2>1 DEF CardsOK
  <2>2. CASE s = LastSeq /\ mode = "new"
    <3>1. Proposed = {}
      BY <1>1, <1>4, <2>2 DEF ReadOK
    <3> QED BY <1>1, <1>5, <2>2, <3>1 DEF CardsOK, LastTurn
  <2>3. CASE s = LastSeq /\ mode \in {"retry", "continue"}
    <3>1. seq = LastSeq
      BY <1>1, <1>4, <2>3 DEF ReadOK
    <3>2. mode = "continue"
      BY <1>2, <1>5, <2>3, <3>1
    <3> QED BY <1>6, <2>3, <3>1, <3>2
  <2>4. mode \in Mode /\ mode # "first"
    BY <1>1, <1>4, ClientFacts DEF ReadOK
  <2> QED BY <2>1, <2>2, <2>3, <2>4 DEF Mode
<1> QED BY <1>1, <1>2, <1>7 DEF CardsOK

-----------------------------------------------------------------------------
(* Theorems about a chat that all windows may use.                         *)
LEMMA ClientsKeep == ChatInv(Client) /\ [Next]_vars => ChatInv(Client)' /\ Kept(Client)
<1> SUFFICES ASSUME ChatInv(Client), [Next]_vars PROVE ChatInv(Client)' /\ Kept(Client)
  OBVIOUS
<1>1. Quiet(Client)'
  BY DEF Quiet
<1> QED BY <1>1, NextKeeps

LEMMA InitClients == Init => ChatInv(Client)
BY InitChat

(* Whatever windows do at once, the rows of a chat stay well formed, and a *)
(* change counts as undone exactly if one approved undo of it took effect  *)
(* (apply_action's check that the original is still applied).              *)
THEOREM UndosCounted == Spec => [](TypeOK /\ UndoneOnce)
<1>1. ChatInv(Client) => TypeOK /\ UndoneOnce
  BY DEF ChatInv, RowsInv
<1>2. ChatInv(Client) /\ [Next]_vars => ChatInv(Client)'
  BY ClientsKeep
<1> QED BY InitClients, <1>1, <1>2, PTL DEF Spec

(* No request or run under way when a chat is deleted or pruned brings one *)
(* of its turns back, or leaves a change that could be approved            *)
(* (_save_turn, delete_chat, prune_chats).                                 *)
THEOREM DeletedForGood == Spec => DeletedStaysDeleted
<1>1. ASSUME ChatInv(Client), [Next]_vars
      PROVE  chat = "deleted" => chat' = "deleted" /\ turns' = <<>> /\ Proposed' = {}
  <2>1. ChatInv(Client)' /\ Kept(Client)
    BY <1>1, ClientsKeep
  <2>2. Closed'
    BY <2>1 DEF Kept, ChatInv
  <2> QED BY <2>1, <2>2 DEF Kept, Closed
<1>2. ChatInv(Client) /\ [Next]_vars
        => [chat = "deleted" => chat' = "deleted" /\ turns' = <<>> /\ Proposed' = {}]_vars
  BY <1>1
<1>3. ChatInv(Client) /\ [Next]_vars => ChatInv(Client)'
  BY ClientsKeep
<1> QED BY InitClients, <1>2, <1>3, PTL DEF Spec, DeletedStaysDeleted

(* A retried turn that is saved takes no card away that shows an approved  *)
(* change, even if the change was approved while the retry ran             *)
(* (_save_turn's check of the turns it would replace).                     *)
THEOREM ApprovedCardsStay == Spec => RetryKeepsApproved
<1> DEFINE Stay ==
      \A c \in Client :
        /\ client[c].pc = "running" /\ client[c].mode = "retry"
        /\ client'[c] = Idle /\ chat' = "open"
        => \A s \in DOMAIN turns, call \in Call :
             turns[s].cards[call] = "applied" =>
               s \in DOMAIN turns' /\ turns'[s].cards[call] = "applied"
<1>1. ASSUME ChatInv(Client), [Next]_vars, NEW c \in Client,
             client[c].pc = "running", client[c].mode = "retry", client'[c] = Idle,
             NEW s \in DOMAIN turns, NEW call \in Call, turns[s].cards[call] = "applied"
      PROVE  s \in DOMAIN turns' /\ turns'[s].cards[call] = "applied"
  <2>1. client'[c] # client[c] /\ TypeOK /\ client[c] # Idle
    BY <1>1 DEF Idle, ChatInv
  <2>2. Finish(c) \/ Crash(c)
    <3>1. \/ FirstQuestion(c) \/ Ask(c) \/ DismissPending(c) \/ Retry(c)
          \/ \E other \in Call, approve \in BOOLEAN : Decide(c, other, approve)
          \/ ClaimAndDecide(c) \/ StartRun(c) \/ Finish(c) \/ Crash(c)
      BY <1>1, <2>1, OwnMove
    <3> QED BY <1>1, <2>1, <3>1 DEF FirstQuestion, Ask, DismissPending, Retry, Decide, ClaimAndDecide, StartRun
  <2>3. CASE Finish(c)
    BY <1>1, <2>3, FinishKeepsApproved
  <2>4. CASE Crash(c)
    BY <1>1, <2>4 DEF Crash
  <2> QED BY <2>2, <2>3, <2>4
<1>2. ChatInv(Client) /\ [Next]_vars => [Stay]_vars
  BY <1>1
<1>3. ChatInv(Client) /\ [Next]_vars => ChatInv(Client)'
  BY ClientsKeep
<1> QED BY InitClients, <1>2, <1>3, PTL DEF Spec, RetryKeepsApproved

-----------------------------------------------------------------------------
(* In one window.                                                          *)
LEMMA CardsDecidable ==
  ASSUME NEW W, ChatInv(W), Alone(W)
  PROVE  PendingIsDecidable
<1> DEFINE open == IF turns = <<>> THEN {} ELSE Waiting(LastTurn)
<1>1. TypeOK /\ CardsOK
  BY DEF ChatInv
<1>2. ASSUME NEW call \in open PROVE ActionsOf({call}) # {} /\ Claims(LatestAction(call))
  <2>1. LastSeq \in DOMAIN turns /\ call \in Waiting(LastTurn)
    BY <1>1, <1>2, TurnFacts
  <2> QED BY <1>1, <2>1, CardFacts DEF Claims, Proposed
<1>3. ASSUME NEW k \in Proposed PROVE actions[k].call \in open
  <2>1. LastSeq \in DOMAIN turns /\ turns # <<>>
    BY <1>1, <1>3 DEF CardsOK
  <2> QED BY <1>1, <1>3, <2>1 DEF CardsOK
<1> QED BY <1>2, <1>3 DEF PendingIsDecidable

LEMMA HistoryAnswered ==
  ASSUME NEW W, ChatInv(W), Alone(W), [Next]_vars, NEW c \in Client,
         client[c].pc = "starting", client'[c].pc = "running", NEW s \in History(c)
  PROVE  turns[s].unanswered = {}
<1>1. client'[c] # client[c] /\ TypeOK /\ client[c] # Idle
  BY DEF Idle, ChatInv
<1>2. StartRun(c) \/ Crash(c)
  <2>1. \/ FirstQuestion(c) \/ Ask(c) \/ DismissPending(c) \/ Retry(c)
        \/ \E call \in Call, approve \in BOOLEAN : Decide(c, call, approve)
        \/ ClaimAndDecide(c) \/ StartRun(c) \/ Finish(c) \/ Crash(c)
    BY <1>1, OwnMove
  <2> QED BY <1>1, <2>1 DEF FirstQuestion, Ask, DismissPending, Retry, Decide, ClaimAndDecide, Finish
<1>3. CASE StartRun(c)
  BY <1>3, AnsweredHistory
<1>4. CASE Crash(c)
  <2>1. client' = [client EXCEPT ![c] = Idle]
    BY <1>4 DEF Crash
  <2>2. client'[c] = Idle
    BY <1>1, <2>1 DEF TypeOK
  <2> QED BY <2>2 DEF Idle
<1> QED BY <1>2, <1>3, <1>4

\* The inductive invariant of a chat whose windows are the ones in use.
PartInv == windows \subseteq Client /\ ChatInv(windows)

LEMMA InitPart == PartInit => PartInv
BY InitChat DEF PartInit, PartInv

LEMMA NextPart == PartInv /\ [PartNext]_allVars => PartInv' /\ [Next]_vars /\ windows' = windows
<1> SUFFICES ASSUME PartInv, [PartNext]_allVars PROVE PartInv' /\ [Next]_vars /\ windows' = windows
  OBVIOUS
<1>1. PICK W : W = windows
  OBVIOUS
<1>2. ChatInv(W) /\ W \subseteq Client
  BY <1>1 DEF PartInv
<1>3. [Next]_vars /\ windows' = W
  BY <1>1 DEF PartNext, allVars
<1>4. Quiet(W)'
  <2>1. CASE UNCHANGED vars
    BY <1>2, <2>1 DEF ChatInv, Quiet, vars
  <2>2. CASE PartNext /\ part = "chat"
    BY <1>1, <2>2 DEF PartNext, Quiet
  <2> QED BY <2>1, <2>2 DEF PartNext, allVars
<1>5. ChatInv(W)'
  BY <1>2, <1>3, <1>4, NextKeeps
<1>6. ChatInv(windows)'
  BY <1>3, <1>5 DEF ChatInv, Quiet, Alone
<1> QED BY <1>1, <1>2, <1>3, <1>6 DEF PartInv

(* However windows share a chat, its rows stay well formed and one approved *)
(* undo is behind each change that counts as undone; in one window every   *)
(* card that shows as pending is of a change that decide finds and can     *)
(* still decide, and every change that waits has such a card: none is      *)
(* stuck (_dismiss_pending, decide, _save_turn, apply_action).             *)
THEOREM CardsStayLive == PartSpec => []CardsAreLive
<1>1. ASSUME PartInv PROVE CardsAreLive
  <2>1. OneWindow => Alone(windows)
    BY DEF OneWindow, Alone
  <2>2. OneWindow => PendingIsDecidable
    BY <1>1, <2>1, CardsDecidable DEF PartInv
  <2> QED BY <1>1, <2>2 DEF CardsAreLive, PartInv, ChatInv, RowsInv
<1>2. PartInv => CardsAreLive
  BY <1>1
<1> QED BY InitPart, NextPart, <1>2, PTL DEF PartSpec

(* In one window no run sends the model a tool call that has no result     *)
(* (_run_turn's history, after _dismiss_pending and decide).               *)
THEOREM NothingUnanswered == PartSpec => AnsweredInOneWindow
<1> DEFINE Answered ==
      OneWindow => \A c \in Client :
        client[c].pc = "starting" /\ client'[c].pc = "running" =>
          \A s \in History(c) : turns[s].unanswered = {}
<1>1. PartInv /\ [PartNext]_allVars => [Answered]_allVars
  <2> SUFFICES ASSUME PartInv, [PartNext]_allVars PROVE Answered
    OBVIOUS
  <2>1. [Next]_vars /\ ChatInv(windows)
    BY NextPart DEF PartInv
  <2>2. OneWindow => Alone(windows)
    BY DEF OneWindow, Alone
  <2> QED BY <2>1, <2>2, HistoryAnswered
<1> QED BY InitPart, NextPart, <1>1, PTL DEF PartSpec, AnsweredInOneWindow

(* What the cards do: rows of the data, and some fields written over them. *)

\* These fields are some of those of a row of the object's table.
PartOf(o, fields) ==
  \E row \in P!RowsOf(o) : DOMAIN fields \subseteq DOMAIN row /\ \A f \in DOMAIN fields : fields[f] = row[f]

TxnFields == {"live", "title", "cents", "category", "tags", "notes", "marked", "share", "other"}

LEMMA Tables ==
  /\ \A o \in Txn : o \in P!Object /\ P!RowsOf(o) = P!TxnRow /\ o \notin Category /\ o \notin Tag /\ o \notin Rule
  /\ \A o \in Category : o \in P!Object /\ P!RowsOf(o) = P!CategoryRow /\ o \notin Txn /\ o \notin Tag /\ o \notin Rule
  /\ \A o \in Tag : o \in P!Object /\ P!RowsOf(o) = P!TagRow /\ o \notin Txn /\ o \notin Category /\ o \notin Rule
  /\ \A o \in Rule : o \in P!Object /\ P!RowsOf(o) = P!RuleRow /\ o \notin Txn /\ o \notin Category /\ o \notin Tag
  /\ \A o \in P!Object : o \in Txn \/ o \in Category \/ o \in Tag \/ o \in Rule
BY PlansFit DEF P!PlansAssumption, P!Object, P!RowsOf

LEMMA TxnFacts ==
  /\ \A row \in P!TxnRow : /\ DOMAIN row = TxnFields /\ row = [f \in TxnFields |-> row[f]]
       /\ row.live \in BOOLEAN /\ row.title \in Title /\ row.cents \in P!Cents \ {0} /\ row.category \in Category
       /\ row.tags \in SUBSET Tag /\ row.notes \in Note /\ row.marked \in BOOLEAN
       /\ row.share \in P!Cents /\ row.other \in P!Cents
  /\ \A row : (/\ DOMAIN row = TxnFields /\ row = [f \in TxnFields |-> row[f]]
       /\ row.live \in BOOLEAN /\ row.title \in Title /\ row.cents \in P!Cents \ {0} /\ row.category \in Category
       /\ row.tags \in SUBSET Tag /\ row.notes \in Note /\ row.marked \in BOOLEAN
       /\ row.share \in P!Cents /\ row.other \in P!Cents) => row \in P!TxnRow
BY DEF P!TxnRow, TxnFields

LEMMA MixTxn ==
  ASSUME NEW row \in P!TxnRow, NEW other \in P!TxnRow, NEW fields, DOMAIN fields \subseteq TxnFields,
         \A f \in DOMAIN fields : fields[f] = other[f]
  PROVE  P!Onto(row, fields) \in P!TxnRow
<1> DEFINE new == P!Onto(row, fields)
<1>1. DOMAIN row = TxnFields
  BY TxnFacts
<1>2. DOMAIN new = TxnFields /\ new = [f \in TxnFields |-> new[f]]
  BY <1>1 DEF P!Onto
<1>3. \A f \in TxnFields : new[f] = row[f] \/ new[f] = other[f]
  BY <1>1 DEF P!Onto
<1> HIDE DEF new
<1>4. /\ new.live \in BOOLEAN /\ new.title \in Title /\ new.cents \in P!Cents \ {0} /\ new.category \in Category
      /\ new.tags \in SUBSET Tag /\ new.notes \in Note /\ new.marked \in BOOLEAN
      /\ new.share \in P!Cents /\ new.other \in P!Cents
  BY <1>3, TxnFacts DEF TxnFields
<1>5. new \in P!TxnRow
  BY <1>2, <1>4, TxnFacts
<1> QED BY <1>5 DEF new

CategoryFields == {"name", "archived"}
TagFields == {"archived"}
RuleFields == {"anchor", "ends"}
FieldsOf(o) == IF o \in Txn THEN TxnFields ELSE IF o \in Category THEN CategoryFields
               ELSE IF o \in Tag THEN TagFields ELSE RuleFields

LEMMA CatalogFacts ==
  /\ \A row \in P!CategoryRow :
       DOMAIN row = CategoryFields /\ row = [f \in CategoryFields |-> row[f]]
       /\ row.name \in Name /\ row.archived \in BOOLEAN
  /\ \A row : (/\ DOMAIN row = CategoryFields /\ row = [f \in CategoryFields |-> row[f]]
               /\ row.name \in Name /\ row.archived \in BOOLEAN) => row \in P!CategoryRow
  /\ \A row \in P!TagRow : DOMAIN row = TagFields /\ row = [f \in TagFields |-> row[f]] /\ row.archived \in BOOLEAN
  /\ \A row : (/\ DOMAIN row = TagFields /\ row = [f \in TagFields |-> row[f]]
               /\ row.archived \in BOOLEAN) => row \in P!TagRow
  /\ \A row \in P!RuleRow :
       DOMAIN row = RuleFields /\ row = [f \in RuleFields |-> row[f]]
       /\ row.anchor \in P!Day /\ row.ends \in P!Day \cup {Null}
  /\ \A row : (/\ DOMAIN row = RuleFields /\ row = [f \in RuleFields |-> row[f]]
               /\ row.anchor \in P!Day /\ row.ends \in P!Day \cup {Null}) => row \in P!RuleRow
BY DEF P!CategoryRow, P!TagRow, P!RuleRow, CategoryFields, TagFields, RuleFields

LEMMA RowFields ==
  ASSUME NEW o \in P!Object, NEW row \in P!RowsOf(o)
  PROVE  DOMAIN row = FieldsOf(o) /\ row # Null /\ row = [f \in FieldsOf(o) |-> row[f]]
<1>1. row # Null
  BY PlansFit DEF P!PlansAssumption
<1>2. CASE o \in Txn
  <2>1. P!RowsOf(o) = P!TxnRow /\ FieldsOf(o) = TxnFields
    BY <1>2, Tables DEF FieldsOf
  <2> QED BY <1>1, <2>1, TxnFacts
<1>3. CASE o \in Category
  <2>1. P!RowsOf(o) = P!CategoryRow /\ FieldsOf(o) = CategoryFields
    BY <1>3, Tables DEF FieldsOf
  <2> QED BY <1>1, <2>1, CatalogFacts
<1>4. CASE o \in Tag
  <2>1. P!RowsOf(o) = P!TagRow /\ FieldsOf(o) = TagFields
    BY <1>4, Tables DEF FieldsOf
  <2> QED BY <1>1, <2>1, CatalogFacts
<1>5. CASE o \in Rule
  <2>1. P!RowsOf(o) = P!RuleRow /\ FieldsOf(o) = RuleFields
    BY <1>5, Tables DEF FieldsOf
  <2> QED BY <1>1, <2>1, CatalogFacts
<1> QED BY <1>2, <1>3, <1>4, <1>5, Tables

\* A row with some fields of another of its table is a row of the table.
LEMMA MixRows ==
  ASSUME NEW o \in P!Object, NEW row \in P!RowsOf(o), NEW fields, PartOf(o, fields)
  PROVE  P!Onto(row, fields) \in P!RowsOf(o)
<1>1. PICK other \in P!RowsOf(o) :
        DOMAIN fields \subseteq DOMAIN other /\ \A f \in DOMAIN fields : fields[f] = other[f]
  BY DEF PartOf
<1> DEFINE new == P!Onto(row, fields)
<1>2. DOMAIN row = FieldsOf(o) /\ DOMAIN fields \subseteq FieldsOf(o)
  BY <1>1, RowFields
<1>3. DOMAIN new = FieldsOf(o) /\ new = [f \in FieldsOf(o) |-> new[f]]
  BY <1>2 DEF P!Onto
<1>4. \A f \in FieldsOf(o) : new[f] = row[f] \/ new[f] = other[f]
  BY <1>1, <1>2 DEF P!Onto
<1>5. CASE o \in Txn
  BY <1>1, <1>2, <1>5, MixTxn, Tables DEF FieldsOf
<1> HIDE DEF new
<1>6. CASE o \in Category
  <2>1. row.name \in Name /\ other.name \in Name /\ row.archived \in BOOLEAN /\ other.archived \in BOOLEAN
    BY <1>6, <1>1, CatalogFacts, Tables
  <2>2. FieldsOf(o) = CategoryFields /\ "name" \in CategoryFields /\ "archived" \in CategoryFields
    BY <1>6, Tables DEF FieldsOf, CategoryFields
  <2>3. new.name \in Name /\ new.archived \in BOOLEAN
    BY <2>1, <2>2, <1>4
  <2>4. new \in P!CategoryRow
    BY <2>2, <2>3, <1>3, CatalogFacts
  <2> QED BY <1>6, <2>4, Tables DEF new
<1>7. CASE o \in Tag
  <2>1. row.archived \in BOOLEAN /\ other.archived \in BOOLEAN
    BY <1>7, <1>1, CatalogFacts, Tables
  <2>2. FieldsOf(o) = TagFields /\ "archived" \in TagFields
    BY <1>7, Tables DEF FieldsOf, TagFields
  <2>3. new.archived \in BOOLEAN
    BY <2>1, <2>2, <1>4
  <2>4. new \in P!TagRow
    BY <2>2, <2>3, <1>3, CatalogFacts
  <2> QED BY <1>7, <2>4, Tables DEF new
<1>8. CASE o \in Rule
  <2>1. /\ row.anchor \in P!Day /\ other.anchor \in P!Day
        /\ row.ends \in P!Day \cup {Null} /\ other.ends \in P!Day \cup {Null}
    BY <1>8, <1>1, CatalogFacts, Tables
  <2>2. FieldsOf(o) = RuleFields /\ "anchor" \in RuleFields /\ "ends" \in RuleFields
    BY <1>8, Tables DEF FieldsOf, RuleFields
  <2>3. new.anchor \in P!Day /\ new.ends \in P!Day \cup {Null}
    BY <2>1, <2>2, <1>4
  <2>4. new \in P!RuleRow
    BY <2>2, <2>3, <1>3, CatalogFacts
  <2> QED BY <1>8, <2>4, Tables DEF new
<1> QED BY <1>5, <1>6, <1>7, <1>8, Tables DEF new

LEMMA OntoIs ==
  ASSUME NEW row, NEW fields
  PROVE  /\ DOMAIN P!Onto(row, fields) = DOMAIN fields \cup DOMAIN row
         /\ \A f \in DOMAIN fields : P!Onto(row, fields)[f] = fields[f]
         /\ \A f \in DOMAIN row : f \notin DOMAIN fields => P!Onto(row, fields)[f] = row[f]
BY DEF P!Onto

LEMMA MixIs ==
  ASSUME NEW row, NEW fields, NEW is, is = P!Onto(row, fields)
  PROVE  /\ \A f \in DOMAIN fields : is[f] = fields[f]
         /\ \A f \in DOMAIN row : f \notin DOMAIN fields => is[f] = row[f]
BY DEF P!Onto

LEMMA OverIs ==
  ASSUME NEW data, NEW after
  PROVE  /\ DOMAIN P!Over(data, after) = P!Object
         /\ \A o \in P!Object : /\ o \notin DOMAIN after => P!Over(data, after)[o] = data[o]
                                /\ o \in DOMAIN after /\ data[o] = Null => P!Over(data, after)[o] = after[o]
                                /\ o \in DOMAIN after /\ data[o] # Null =>
                                     P!Over(data, after)[o] = P!Onto(data[o], after[o])
BY DEF P!Over

-----------------------------------------------------------------------------
(* Plans.                                                                  *)

PlanKind == {"edit", "trash", "restore", "archive", "rename", "end", "allocate"}
TableOf(kind) ==
  CASE kind \in {"edit", "trash", "restore"} -> Txn
    [] kind = "archive" -> Category \cup Tag
    [] kind = "rename" -> Category
    [] kind = "end" -> Rule
    [] OTHER -> P!Expense
Written(kind) ==
  CASE kind = "edit" -> {"category", "tags", "title", "notes"}
    [] kind \in {"trash", "restore"} -> {"live"}
    [] kind = "archive" -> {"archived"}
    [] kind = "rename" -> {"name"}
    [] kind = "end" -> {"ends"}
    [] OTHER -> {"share"}

\* A plan that changes rows: it checks what it writes, in fields of its kind.
Shape(p) ==
  /\ p.kind \in PlanKind
  /\ DOMAIN p.after \subseteq TableOf(p.kind) /\ DOMAIN p.before = DOMAIN p.after
  /\ \A o \in DOMAIN p.after :
       /\ DOMAIN p.after[o] \subseteq Written(p.kind) /\ Written(p.kind) \subseteq DOMAIN p.after[o] \cup {"notes"}
       /\ DOMAIN p.after[o] \subseteq DOMAIN p.before[o]
       /\ p.before[o] = [f \in DOMAIN p.before[o] |-> p.before[o][f]]
       /\ PartOf(o, p.after[o])
  /\ p.kind = "rename" =>
       \A c, d \in DOMAIN p.after : c # d => p.after[c].name # p.after[d].name

\* It checks for what was seen when it was proposed.
SeenAs(p, seen) ==
  /\ \A o \in DOMAIN p.after :
       seen[o] # Null /\ \A f \in DOMAIN p.before[o] : p.before[o][f] = seen[o][f]
  /\ p.kind = "allocate" => /\ p.mark = "set" => ~seen[Paid].marked
                            /\ p.mark = "clear" => seen[Paid].marked

LEMMA TableFacts ==
  ASSUME NEW kind \in PlanKind, NEW o \in TableOf(kind)
  PROVE  /\ o \in P!Object /\ Written(kind) \subseteq FieldsOf(o)
         /\ kind \in {"edit", "trash", "restore"} => o \in Txn
         /\ kind = "archive" => o \in Category \cup Tag
         /\ kind = "rename" => o \in Category
         /\ kind = "end" => o \in Rule
         /\ kind = "allocate" => o \in P!Expense
<1>1. CASE kind \in {"edit", "trash", "restore"}
  BY <1>1, Tables DEF TableOf, Written, FieldsOf, TxnFields
<1>2. CASE kind = "archive"
  BY <1>2, Tables DEF TableOf, Written, FieldsOf, CategoryFields, TagFields
<1>3. CASE kind = "rename"
  BY <1>3, Tables DEF TableOf, Written, FieldsOf, CategoryFields
<1>4. CASE kind = "end"
  BY <1>4, Tables DEF TableOf, Written, FieldsOf, RuleFields
<1>5. CASE kind = "allocate"
  BY <1>5, Tables DEF TableOf, Written, FieldsOf, TxnFields, P!Expense
<1> QED BY <1>1, <1>2, <1>3, <1>4, <1>5 DEF PlanKind

LEMMA ShownIs ==
  ASSUME NEW p, Shape(p)
  PROVE  P!AsShown(p) <=> \A o \in DOMAIN p.after :
            book[o] # Null /\ \A f \in DOMAIN p.before[o] : book[o][f] = p.before[o][f]
<1>1. ASSUME NEW o \in DOMAIN p.after
      PROVE  P!Part(o, DOMAIN p.before[o]) = p.before[o]
               <=> \A f \in DOMAIN p.before[o] : book[o][f] = p.before[o][f]
  <2>1. p.before[o] = [f \in DOMAIN p.before[o] |-> p.before[o][f]]
    BY <1>1 DEF Shape
  <2> DEFINE D == DOMAIN p.before[o]
             row == p.before[o]
  <2>2. row = [f \in D |-> row[f]]
    BY <2>1
  <2> HIDE DEF D, row
  <2>3. [f \in D |-> book[o][f]] = row <=> \A f \in D : book[o][f] = row[f]
    BY <2>2
  <2> QED BY <2>3 DEF D, row, P!Part
<1>2. DOMAIN p.before = DOMAIN p.after
  BY DEF Shape
<1> QED BY <1>1, <1>2 DEF P!AsShown

LEMMA FitsShown ==
  ASSUME NEW p, Shape(p), P!Fits(p)
  PROVE  P!AsShown(p)
BY DEF Shape, PlanKind, P!Fits, P!EditFits, P!RenameFits, P!AllocateFits

-----------------------------------------------------------------------------
(* What an approval writes.                                                *)

LEMMA RowIs ==
  ASSUME NEW data, P!RowsOK(data), NEW o \in P!Object
  PROVE  /\ data[o] # Null => data[o] \in P!RowsOf(o) /\ DOMAIN data[o] = FieldsOf(o)
         /\ o \notin Spare => data[o] # Null
BY RowFields DEF P!RowsOK

\* What the library's operators are does not depend on who uses them.
LEMMA SameOperators ==
  /\ \A S : P!IsFiniteSet(S) = IsFiniteSet(S)
  /\ \A S : P!Cardinality(S) = Cardinality(S)
  /\ \A f : P!SumFunction(f) = SumFunction(f)
<1>1. ASSUME NEW S PROVE P!IsFiniteSet(S) = IsFiniteSet(S)
  BY DEF P!IsFiniteSet, IsFiniteSet
<1>2. ASSUME NEW S PROVE P!Cardinality(S) = Cardinality(S)
  BY DEF P!Cardinality, Cardinality
<1>3. ASSUME NEW f PROVE P!SumFunction(f) = SumFunction(f)
  BY DEF P!SumFunction, SumFunction, P!SumFunctionOnSet, SumFunctionOnSet,
         P!FoldFunctionOnSet, FoldFunctionOnSet, P!MapThenFoldSet, MapThenFoldSet
<1> QED BY <1>1, <1>2, <1>3

LEMMA SharesOf ==
  ASSUME NEW data, NEW S
  PROVE  P!Allotted(data, S) = SumFunction([e \in S |-> data[e].share])
BY SameOperators DEF P!Allotted

LEMMA PaidIs ==
  /\ Paid \in Txn /\ Paid \in P!Object /\ Paid \notin P!Expense /\ Paid \notin Spare
  /\ \A e \in P!Expense : e \in Txn /\ e \in P!Object /\ e # Paid
  /\ IsFiniteSet(P!Expense)
<1>1. IsFiniteSet(P!Expense)
  BY PlansFit, FS_Subset, SameOperators DEF P!PlansAssumption, P!Expense
<1> QED BY <1>1, PlansFit DEF P!PlansAssumption, P!Expense, P!Object

LEMMA TxnIs ==
  ASSUME NEW data, P!RowsOK(data), NEW t \in Txn, data[t] # Null
  PROVE  data[t] \in P!TxnRow /\ DOMAIN data[t] = TxnFields
BY RowIs, Tables, TxnFacts

\* Over, field by field.
LEMMA OverRows ==
  ASSUME NEW data, P!RowsOK(data), NEW after,
         \A o \in DOMAIN after : o \in P!Object /\ data[o] # Null /\ PartOf(o, after[o])
  PROVE  /\ P!RowsOK(P!Over(data, after))
         /\ \A o \in P!Object :
              /\ P!Over(data, after)[o] = Null <=> data[o] = Null
              /\ o \notin DOMAIN after => P!Over(data, after)[o] = data[o]
              /\ data[o] # Null => \A f \in FieldsOf(o) :
                   P!Over(data, after)[o][f] = IF o \in DOMAIN after /\ f \in DOMAIN after[o] THEN after[o][f]
                                               ELSE data[o][f]
<1> DEFINE new == P!Over(data, after)
<1>1. ASSUME NEW o \in P!Object, o \in DOMAIN after
      PROVE  /\ new[o] \in P!RowsOf(o) /\ new[o] # Null
             /\ \A f \in FieldsOf(o) : new[o][f] = IF f \in DOMAIN after[o] THEN after[o][f] ELSE data[o][f]
  <2>1. data[o] \in P!RowsOf(o) /\ DOMAIN data[o] = FieldsOf(o) /\ PartOf(o, after[o])
    BY <1>1, RowIs
  <2>2. new[o] = P!Onto(data[o], after[o])
    BY <1>1, OverIs
  <2>3. new[o] \in P!RowsOf(o)
    BY <2>1, <2>2, MixRows
  <2>4. new[o] # Null
    BY <2>3, RowFields
  <2>5. \A f \in FieldsOf(o) : new[o][f] = IF f \in DOMAIN after[o] THEN after[o][f] ELSE data[o][f]
    <3> HIDE DEF new
    <3>1. PICK was, fields, is : was = data[o] /\ fields = after[o] /\ is = new[o]
      OBVIOUS
    <3>2. is = P!Onto(was, fields) /\ DOMAIN was = FieldsOf(o)
      BY <2>1, <2>2, <3>1
    <3>3. \A f \in DOMAIN fields : is[f] = fields[f]
      BY <3>2, MixIs
    <3>4. \A f \in DOMAIN was : f \notin DOMAIN fields => is[f] = was[f]
      BY <3>2, MixIs
    <3> QED BY <3>1, <3>2, <3>3, <3>4
  <2> QED BY <2>3, <2>4, <2>5
<1>2. ASSUME NEW o \in P!Object, o \notin DOMAIN after PROVE new[o] = data[o]
  BY <1>2, OverIs
<1>3. DOMAIN new = P!Object
  BY OverIs
<1> HIDE DEF new
<1>4. P!RowsOK(new)
  BY <1>1, <1>2, <1>3 DEF P!RowsOK
<1>5. \A o \in P!Object :
        /\ new[o] = Null <=> data[o] = Null
        /\ o \notin DOMAIN after => new[o] = data[o]
        /\ data[o] # Null => \A f \in FieldsOf(o) :
             new[o][f] = IF o \in DOMAIN after /\ f \in DOMAIN after[o] THEN after[o][f] ELSE data[o][f]
  BY <1>1, <1>2
<1> QED BY <1>4, <1>5 DEF new

\* What is kept of data in which the same rows are there: names, and what is allocated.
LEMMA NamesKept ==
  ASSUME NEW data, P!NamesApart(data), NEW new,
         \A c \in Category : new[c] # Null => data[c] # Null /\ new[c].name = data[c].name
  PROVE  P!NamesApart(new)
BY DEF P!NamesApart

LEMMA SharesKept ==
  ASSUME NEW data, P!SharesMarked(data), P!SharesCovered(data), NEW new,
         \A e \in P!Expense : new[e] # Null =>
           data[e] # Null /\ \A f \in {"share", "other", "cents"} : new[e][f] = data[e][f],
         new[Paid].marked = data[Paid].marked
  PROVE  P!SharesMarked(new) /\ P!SharesCovered(new)
BY DEF P!SharesMarked, P!SharesCovered

\* An approved change that is no allocation leaves data that a user can have.
LEMMA PlainKeeps ==
  ASSUME NEW p, Shape(p), p.kind # "allocate", P!Fits(p), P!DataOK(book)
  PROVE  /\ P!DataOK(P!Applied(p))
         /\ \A o \in P!Object :
              /\ P!Applied(p)[o] = Null <=> book[o] = Null
              /\ book[o] # Null => \A f \in FieldsOf(o) :
                   P!Applied(p)[o][f] = IF o \in DOMAIN p.after /\ f \in DOMAIN p.after[o] THEN p.after[o][f]
                                        ELSE book[o][f]
<1> DEFINE new == P!Over(book, p.after)
<1>1. P!AsShown(p) /\ P!Applied(p) = new
  BY FitsShown DEF P!Applied
<1>2. \A o \in DOMAIN p.after : o \in P!Object /\ book[o] # Null /\ PartOf(o, p.after[o])
  BY <1>1, ShownIs, TableFacts DEF Shape
<1>3. /\ P!RowsOK(new)
      /\ \A o \in P!Object :
           /\ new[o] = Null <=> book[o] = Null
           /\ book[o] # Null => \A f \in FieldsOf(o) :
                new[o][f] = IF o \in DOMAIN p.after /\ f \in DOMAIN p.after[o] THEN p.after[o][f] ELSE book[o][f]
  BY <1>2, OverRows DEF P!DataOK
<1> HIDE DEF new
<1>4. \A o \in DOMAIN p.after : DOMAIN p.after[o] \subseteq Written(p.kind)
  BY DEF Shape
<1>5. P!SharesMarked(new) /\ P!SharesCovered(new)
  <2>1. {"share", "other", "cents", "marked"} \cap Written(p.kind) = {}
    BY DEF Written, Shape, PlanKind
  <2>2. \A t \in Txn : FieldsOf(t) = TxnFields /\ {"share", "other", "cents", "marked"} \subseteq TxnFields
    BY DEF FieldsOf, TxnFields
  <2>3. \A t \in Txn : new[t] # Null =>
          book[t] # Null /\ \A f \in {"share", "other", "cents", "marked"} : new[t][f] = book[t][f]
    BY <1>3, <1>4, <2>1, <2>2, Tables
  <2>4. new[Paid] # Null
    BY <1>3, PaidIs, RowIs
  <2>5. new[Paid].marked = book[Paid].marked
    BY <2>3, <2>4, PaidIs
  <2>6. \A e \in P!Expense : new[e] # Null =>
           book[e] # Null /\ \A f \in {"share", "other", "cents"} : new[e][f] = book[e][f]
    BY <2>3, PaidIs
  <2> QED BY <2>5, <2>6, SharesKept DEF P!DataOK
<1>6. P!NamesApart(new)
  <2>1. \A c \in Category : c \in P!Object /\ FieldsOf(c) = CategoryFields /\ "name" \in CategoryFields
    BY Tables DEF FieldsOf, CategoryFields
  <2>2. CASE p.kind # "rename"
    <3>1. "name" \notin Written(p.kind)
      BY <2>2 DEF Written, Shape, PlanKind
    <3>2. \A c \in Category : new[c] # Null => book[c] # Null /\ new[c].name = book[c].name
      BY <1>3, <1>4, <2>1, <3>1
    <3> QED BY <3>2, NamesKept DEF P!DataOK
  <2>3. CASE p.kind = "rename"
    <3>1. P!RenameFits(p)
      BY <2>3 DEF P!Fits
    <3>2. \A c \in DOMAIN p.after : \A d \in Category : book[d] # Null /\ d # c => book[d].name # p.after[c].name
      BY <3>1, Tables DEF P!RenameFits, P!NameFree, P!There
    <3>3. \A c \in DOMAIN p.after : "name" \in DOMAIN p.after[c]
      BY <2>3 DEF Shape, Written
    <3>4. \A c \in Category : new[c] # Null =>
            book[c] # Null /\ new[c].name = IF c \in DOMAIN p.after THEN p.after[c].name ELSE book[c].name
      BY <1>3, <2>1, <3>3
    <3>5. \A c, d \in DOMAIN p.after : c # d => p.after[c].name # p.after[d].name
      BY <2>3 DEF Shape
    <3>6. ASSUME NEW c \in Category, NEW d \in Category, new[c] # Null, new[d] # Null, c # d,
                 new[c].name = new[d].name
          PROVE  FALSE
      <4>1. CASE c \in DOMAIN p.after
        BY <3>2, <3>4, <3>5, <3>6, <4>1
      <4>2. CASE c \notin DOMAIN p.after /\ d \in DOMAIN p.after
        BY <3>2, <3>4, <3>6, <4>2
      <4>3. CASE c \notin DOMAIN p.after /\ d \notin DOMAIN p.after
        BY <3>4, <3>6, <4>3 DEF P!DataOK, P!NamesApart
      <4> QED BY <4>1, <4>2, <4>3
    <3> QED BY <3>6 DEF P!NamesApart
  <2> QED BY <2>2, <2>3
<1>7. P!DataOK(new)
  BY <1>3, <1>5, <1>6 DEF P!DataOK
<1> QED BY <1>1, <1>3, <1>7

-----------------------------------------------------------------------------
(* Allocations.                                                            *)

LiveExpense(data) == {e \in P!Expense : data[e] # Null /\ data[e].live}

LEMMA ShareIs ==
  ASSUME NEW data, P!RowsOK(data), NEW e \in P!Expense, data[e] # Null
  PROVE  /\ data[e].share \in Nat /\ data[e].other \in Nat /\ data[e].cents \in Nat
         /\ data[e].live \in BOOLEAN
<1>1. data[e] \in P!TxnRow
  BY PaidIs, TxnIs
<1>2. P!Cents \subseteq Nat
  BY PlansFit DEF P!PlansAssumption, P!Cents
<1> QED BY <1>1, <1>2, TxnFacts

LEMMA PaidRow ==
  ASSUME NEW data, P!RowsOK(data)
  PROVE  /\ data[Paid] # Null /\ data[Paid] \in P!TxnRow /\ DOMAIN data[Paid] = TxnFields
         /\ data[Paid].cents \in Nat /\ data[Paid].marked \in BOOLEAN /\ data[Paid].live \in BOOLEAN
<1>1. data[Paid] \in P!TxnRow /\ data[Paid] # Null /\ DOMAIN data[Paid] = TxnFields
  BY PaidIs, TxnIs, RowIs
<1>2. P!Cents \subseteq Nat
  BY PlansFit DEF P!PlansAssumption, P!Cents
<1> QED BY <1>1, <1>2, TxnFacts

LEMMA AllottedIs ==
  ASSUME NEW data, P!RowsOK(data), NEW S \in SUBSET P!Expense, \A e \in S : data[e] # Null
  PROVE  P!Allotted(data, S) \in Nat
<1> DEFINE f == [e \in S |-> data[e].share]
<1>1. IsFiniteSet(S)
  BY PaidIs, FS_Subset
<1>2. f \in [S -> Nat]
  BY ShareIs
<1>3. DOMAIN f = S /\ \A e \in S : f[e] = f[e]
  OBVIOUS
<1> HIDE DEF f
<1>4. SumFunction(f) \in Nat
  BY <1>1, <1>2, <1>3, SumOfPart
<1> QED BY <1>4, SharesOf DEF f

\* Where no share is greater, no more is allotted.
LEMMA AllottedLess ==
  ASSUME NEW data, NEW new, NEW S, IsFiniteSet(S),
         \A e \in S : data[e].share \in Nat /\ new[e].share \in Nat /\ data[e].share <= new[e].share
  PROVE  P!Allotted(data, S) <= P!Allotted(new, S) /\ P!Allotted(data, S) \in Int /\ P!Allotted(new, S) \in Int
<1> DEFINE f == [e \in S |-> data[e].share]
           g == [e \in S |-> new[e].share]
           h == [e \in S |-> g[e] - f[e]]
<1>1. \A e \in S : h[e] \in Nat
  OBVIOUS
<1>2. f \in [S -> Int] /\ g \in [S -> Int] /\ h \in [S -> Nat] /\ h \in [S -> Int]
  BY <1>1
<1>3. \A e \in S : h[e] = g[e] - f[e]
  OBVIOUS
<1>4. DOMAIN h = S
  OBVIOUS
<1> HIDE DEF f, g, h
<1>5. SumFunction(h) = SumFunction(g) - SumFunction(f)
  BY <1>2, <1>3, SumMinus
<1>6. SumFunction(h) \in Nat
  BY <1>2, <1>4, SumOfPart
<1>7. SumFunction(f) \in Int /\ SumFunction(g) \in Int
  BY <1>2, SumType
<1>8. SumFunction(f) <= SumFunction(g)
  BY <1>5, <1>6, <1>7
<1> QED BY <1>7, <1>8, SharesOf DEF f, g

LEMMA SpentLess ==
  ASSUME NEW data, P!RowsOK(data), NEW new, P!RowsOK(new), LiveExpense(data) = LiveExpense(new),
         \A e \in LiveExpense(data) : data[e].share <= new[e].share
  PROVE  P!Spent(data) <= P!Spent(new) /\ P!Spent(data) \in Int /\ P!Spent(new) \in Int
<1>1. IsFiniteSet(LiveExpense(data))
  BY PaidIs, FS_Subset DEF LiveExpense
<1>2. \A e \in LiveExpense(data) : data[e].share \in Nat /\ new[e].share \in Nat
  BY ShareIs DEF LiveExpense
<1>3. P!Spent(data) = P!Allotted(data, LiveExpense(data)) /\ P!Spent(new) = P!Allotted(new, LiveExpense(data))
  BY DEF P!Spent, LiveExpense
<1> QED BY <1>1, <1>2, <1>3, AllottedLess

\* A total less one of its parts.
Rest(f, S, x) == [y \in S \ {x} |-> f[y]]

LEMMA SumWithoutOne ==
  ASSUME NEW S, IsFiniteSet(S), NEW f \in [S -> Int], NEW x \in S
  PROVE  SumFunction(f) = f[x] + SumFunction(Rest(f, S, x))
<1>1. PICK R, e : R = S \ {x} /\ e = Rest(f, S, x)
  OBVIOUS
<1>2. DOMAIN e = R /\ \A y \in R : e[y] = f[y]
  BY <1>1 DEF Rest
<1>3. R = S \ {x}
  BY <1>1
<1>4. SumFunction(f) = f[x] + SumFunction(e)
  BY <1>2, <1>3, SumWithout
<1> QED BY <1>1, <1>4

\* What one expense adds.
LEMMA SpentOne ==
  ASSUME NEW data, P!RowsOK(data), NEW less, LiveExpense(less) = LiveExpense(data),
         NEW e \in LiveExpense(data), less[e].share = 0,
         \A d \in LiveExpense(data) : d # e => less[d].share = data[d].share
  PROVE  P!Spent(data) = P!Spent(less) + data[e].share /\ P!Spent(less) \in Int
<1> DEFINE L == LiveExpense(data)
           R == L \ {e}
           f == [d \in L |-> data[d].share]
           g == [d \in L |-> less[d].share]
           r == [d \in R |-> data[d].share]
<1>1. IsFiniteSet(L) /\ e \in L
  BY PaidIs, FS_Subset DEF LiveExpense
<1>2. \A d \in L : data[d].share \in Nat
  BY ShareIs DEF LiveExpense
<1>3. f \in [L -> Int] /\ g \in [L -> Int]
  BY <1>2
<1>4. r = Rest(f, L, e) /\ r = Rest(g, L, e)
  BY DEF Rest
<1>5. f[e] = data[e].share /\ g[e] = 0 /\ IsFiniteSet(R) /\ r \in [R -> Int]
  BY <1>1, <1>2, FS_Subset
<1>6. P!Spent(data) = SumFunction(f) /\ P!Spent(less) = SumFunction(g)
  BY SharesOf DEF P!Spent, LiveExpense
<1>7. R = L \ {e}
  OBVIOUS
<1> HIDE DEF f, g, r, R, L
<1>8. SumFunction(f) = f[e] + SumFunction(r) /\ SumFunction(g) = g[e] + SumFunction(r)
  <2>1. SumFunction(f) = f[e] + SumFunction(Rest(f, L, e))
    BY <1>1, <1>3, SumWithoutOne
  <2>2. SumFunction(g) = g[e] + SumFunction(Rest(g, L, e))
    BY <1>1, <1>3, SumWithoutOne
  <2> QED BY <1>4, <2>1, <2>2
<1>9. SumFunction(g) \in Int /\ SumFunction(f) \in Int /\ f[e] \in Int /\ SumFunction(r) \in Int
  BY <1>1, <1>3, <1>5, SumType
<1>10. SumFunction(f) = SumFunction(g) + f[e]
  BY <1>3, <1>5, <1>8, <1>9, <1>1
<1> QED BY <1>5, <1>6, <1>9, <1>10

-----------------------------------------------------------------------------
\* The data when some of an allocation's rows are written.
After(p, S) == P!Over(P!Marked(p), P!Restrict(p.after, S))

LEMMA MarkedIs ==
  ASSUME NEW p, P!RowsOK(book)
  PROVE  /\ P!RowsOK(P!Marked(p))
         /\ \A o \in P!Object : o # Paid => P!Marked(p)[o] = book[o]
         /\ P!Marked(p)[Paid].cents = book[Paid].cents /\ P!Marked(p)[Paid].live = book[Paid].live
         /\ P!Marked(p)[Paid].marked = (book[Paid].marked \/ p.mark = "set")
         /\ \A f \in TxnFields : f # "marked" => P!Marked(p)[Paid][f] = book[Paid][f]
<1> DEFINE row == [book[Paid] EXCEPT !.marked = TRUE]
<1>1. DOMAIN book = P!Object /\ book[Paid] \in P!TxnRow /\ DOMAIN book[Paid] = TxnFields /\ book[Paid].marked \in BOOLEAN
  BY PaidRow DEF P!RowsOK
<1>2. /\ row \in P!TxnRow /\ row.marked = TRUE
      /\ \A f \in TxnFields : f # "marked" => row[f] = book[Paid][f]
  BY <1>1 DEF P!TxnRow, TxnFields
<1>3. row.cents = book[Paid].cents /\ row.live = book[Paid].live
  BY <1>2 DEF TxnFields
<1> HIDE DEF row
<1>4. CASE p.mark = "set"
  <2>1. P!Marked(p) = [book EXCEPT ![Paid] = row]
    BY <1>4 DEF P!Marked, row
  <2>2. /\ DOMAIN P!Marked(p) = P!Object /\ P!Marked(p)[Paid] = row
        /\ \A o \in P!Object : o # Paid => P!Marked(p)[o] = book[o]
    BY <1>1, <2>1, PaidIs
  <2>3. row \in P!RowsOf(Paid)
    BY <1>2, PaidIs, Tables
  <2>4. P!RowsOK(P!Marked(p))
    BY <2>2, <2>3 DEF P!RowsOK
  <2> QED BY <1>2, <1>3, <1>4, <2>2, <2>4
<1>5. CASE p.mark # "set"
  BY <1>1, <1>5 DEF P!Marked
<1> QED BY <1>4, <1>5

LEMMA AfterIs ==
  ASSUME NEW p, Shape(p), p.kind = "allocate", P!AsShown(p), P!RowsOK(book), NEW S \in SUBSET DOMAIN p.after
  PROVE  /\ P!RowsOK(After(p, S))
         /\ \A o \in P!Object : /\ After(p, S)[o] = Null <=> book[o] = Null
                                /\ o # Paid /\ o \notin S => After(p, S)[o] = book[o]
         /\ After(p, S)[Paid] = P!Marked(p)[Paid]
         /\ \A e \in S : /\ e \in P!Expense /\ book[e] # Null /\ After(p, S)[e].share = p.after[e].share
                         /\ p.after[e].share \in Nat
                         /\ \A f \in TxnFields : f # "share" => After(p, S)[e][f] = book[e][f]
<1> DEFINE m == P!Marked(p)
           piece == P!Restrict(p.after, S)
           new == P!Over(m, piece)
<1>1. DOMAIN piece = S /\ \A o \in S : piece[o] = p.after[o]
  BY DEF P!Restrict
<1>2. /\ P!RowsOK(m) /\ \A o \in P!Object : o # Paid => m[o] = book[o]
  BY MarkedIs
<1>3. \A o \in S : /\ o \in P!Object /\ o \in P!Expense /\ book[o] # Null /\ PartOf(o, p.after[o])
                   /\ DOMAIN p.after[o] = {"share"}
  <2>1. S \subseteq DOMAIN p.after /\ \A o \in DOMAIN p.after : o \in TableOf("allocate") /\ book[o] # Null /\ PartOf(o, p.after[o])
    BY ShownIs DEF Shape
  <2>2. "allocate" \in PlanKind /\ Written("allocate") = {"share"}
    BY DEF PlanKind, Written
  <2>3. \A o \in DOMAIN p.after : DOMAIN p.after[o] = {"share"}
    BY <2>2 DEF Shape
  <2> QED BY <2>1, <2>2, <2>3, TableFacts
<1>4. \A o \in P!Object : m[o] = Null <=> book[o] = Null
  BY <1>2, PaidRow
<1>5. \A o \in DOMAIN piece : o \in P!Object /\ m[o] # Null /\ PartOf(o, piece[o])
  BY <1>1, <1>3, <1>4
<1> HIDE DEF m, piece
<1>6. /\ P!RowsOK(new)
      /\ \A o \in P!Object :
           /\ new[o] = Null <=> m[o] = Null
           /\ o \notin DOMAIN piece => new[o] = m[o]
           /\ m[o] # Null => \A f \in FieldsOf(o) :
                new[o][f] = IF o \in DOMAIN piece /\ f \in DOMAIN piece[o] THEN piece[o][f] ELSE m[o][f]
  BY <1>2, <1>5, OverRows
<1> HIDE DEF new
<1>7. Paid \notin S /\ Paid \in P!Object
  BY <1>3, PaidIs
<1>8. ASSUME NEW e \in S
      PROVE  /\ new[e].share = p.after[e].share /\ p.after[e].share \in Nat
             /\ \A f \in TxnFields : f # "share" => new[e][f] = book[e][f]
  <2>1. e \in P!Object /\ e \in P!Expense /\ e # Paid /\ FieldsOf(e) = TxnFields /\ m[e] = book[e] /\ m[e] # Null /\ e \in DOMAIN piece
    BY <1>1, <1>2, <1>3, <1>8, PaidIs DEF FieldsOf
  <2>2. DOMAIN piece[e] = {"share"} /\ piece[e] = p.after[e]
    BY <1>1, <1>3, <1>8
  <2>3. new[e].share = p.after[e].share
    BY <1>6, <2>1, <2>2 DEF TxnFields
  <2>4. new[e].share \in Nat
    BY <1>6, <2>1, ShareIs
  <2> QED BY <1>6, <2>1, <2>2, <2>3, <2>4
<1>9. After(p, S) = new
  BY DEF After, m, piece, new
<1> QED BY <1>1, <1>2, <1>3, <1>4, <1>6, <1>7, <1>8, <1>9 DEF m

LEMMA AfterLive ==
  ASSUME NEW p, Shape(p), p.kind = "allocate", P!AsShown(p), P!RowsOK(book), NEW S \in SUBSET DOMAIN p.after
  PROVE  LiveExpense(After(p, S)) = LiveExpense(book)
<1> DEFINE new == After(p, S)
<1>1. ASSUME NEW e \in P!Expense, book[e] # Null PROVE new[e] # Null /\ new[e].live = book[e].live
  <2>1. e \in P!Object /\ e # Paid /\ "live" \in TxnFields
    BY PaidIs DEF TxnFields
  <2>2. CASE e \in S
    BY <1>1, <2>1, <2>2, AfterIs
  <2>3. CASE e \notin S
    BY <1>1, <2>1, <2>3, AfterIs
  <2> QED BY <2>2, <2>3
<1>2. \A e \in P!Expense : book[e] = Null => new[e] = Null
  BY AfterIs, PaidIs
<1> HIDE DEF new
<1>3. LiveExpense(new) = LiveExpense(book)
  BY <1>1, <1>2 DEF LiveExpense
<1> QED BY <1>3 DEF new

LEMMA GrowthIs ==
  ASSUME NEW p, Shape(p), p.kind = "allocate", P!AsShown(p), P!RowsOK(book), NEW e \in DOMAIN p.after
  PROVE  /\ P!Growth(p, e) = p.after[e].share - book[e].share /\ P!Growth(p, e) \in Int
         /\ p.after[e].share \in Nat /\ book[e].share \in Nat /\ book[e] # Null
         /\ e \in P!Expense /\ Id[e] \in Nat
<1>1. e \in TableOf("allocate") /\ "allocate" \in PlanKind /\ Written("allocate") = {"share"}
  BY DEF Shape, PlanKind, Written
<1>2. "share" \in DOMAIN p.before[e]
  BY <1>1 DEF Shape
<1>3. p.before[e].share = book[e].share /\ book[e] # Null
  BY <1>2, ShownIs
<1>4. e \in P!Expense
  BY <1>1, TableFacts
<1>5. p.after[e].share \in Nat
  BY AfterIs
<1>6. book[e].share \in Nat
  BY <1>3, <1>4, ShareIs
<1>7. Id[e] \in Nat
  BY <1>4, PaidIs, PlansFit DEF P!PlansAssumption
<1> QED BY <1>3, <1>4, <1>5, <1>6, <1>7 DEF P!Growth

\* The order in which an allocation's rows are written.
LEMMA OrderIs ==
  ASSUME NEW p, Shape(p), p.kind = "allocate", P!AsShown(p), P!RowsOK(book), NEW e \in DOMAIN p.after
  PROVE  /\ e \notin P!Earlier(p, e) /\ P!Earlier(p, e) \in SUBSET DOMAIN p.after
         /\ \A d \in P!Earlier(p, e) : P!Growth(p, d) <= P!Growth(p, e)
         /\ \A d \in DOMAIN p.after : d \notin P!Earlier(p, e) => P!Growth(p, d) >= P!Growth(p, e)
<1>1. \A d \in DOMAIN p.after : P!Growth(p, d) \in Int /\ Id[d] \in Nat
  BY GrowthIs
<1> QED BY <1>1 DEF P!Earlier

LEMMA UpsertIs ==
  ASSUME NEW p, Shape(p), p.kind = "allocate", P!AsShown(p), P!RowsOK(book),
         NEW e \in DOMAIN p.after, book[e].live, NEW n, n = p.after[e].share
  PROVE  P!CanUpsert(After(p, P!Earlier(p, e)), e, n) <=>
           /\ book[Paid].live /\ P!Marked(p)[Paid].marked
           /\ P!Spent(After(p, P!Earlier(p, e) \cup {e})) <= book[Paid].cents
           /\ book[e].other + n <= book[e].cents
<1> DEFINE S == P!Earlier(p, e)
           T == S \cup {e}
           data == After(p, S)
           new == After(p, T)
           less == [data EXCEPT ![e].share = 0]
<1>1. S \in SUBSET DOMAIN p.after /\ T \in SUBSET DOMAIN p.after /\ e \notin S /\ e \in T
  BY OrderIs
<1>2. e \in P!Expense /\ e \in P!Object /\ e \in Txn /\ e # Paid /\ book[e] # Null
  BY GrowthIs, PaidIs
<1>3. /\ P!RowsOK(data) /\ data[e] = book[e] /\ data[Paid] = P!Marked(p)[Paid]
      /\ LiveExpense(data) = LiveExpense(book)
  BY <1>1, <1>2, AfterIs, AfterLive
<1>4. /\ P!RowsOK(new) /\ new[e].share = n /\ LiveExpense(new) = LiveExpense(book)
  BY <1>1, <1>2, AfterIs, AfterLive
<1>5. \A d \in P!Expense : d # e /\ book[d] # Null => data[d].share = new[d].share
  <2> SUFFICES ASSUME NEW d \in P!Expense, d # e, book[d] # Null PROVE data[d].share = new[d].share
    OBVIOUS
  <2>1. d \in P!Object /\ d # Paid
    BY PaidIs
  <2>2. CASE d \in S
    BY <1>1, <2>2, AfterIs
  <2>3. CASE d \notin S
    BY <1>1, <2>1, <2>3, AfterIs
  <2> QED BY <2>2, <2>3
<1> HIDE DEF S, T, data, new
<1>6. DOMAIN data = P!Object /\ data[e] \in P!TxnRow /\ DOMAIN data[e] = TxnFields
  BY <1>2, <1>3, TxnIs DEF P!RowsOK
<1>7. /\ less[e].share = 0 /\ less[e].live = data[e].live /\ less[e] # Null
      /\ \A d \in P!Object : d # e => less[d] = data[d]
  <2>1. less[e] = [data[e] EXCEPT !.share = 0] /\ \A d \in P!Object : d # e => less[d] = data[d]
    BY <1>2, <1>6
  <2>2. 0 \in P!Cents
    BY PlansFit DEF P!PlansAssumption, P!Cents
  <2>3. less[e] \in P!TxnRow /\ less[e].share = 0 /\ less[e].live = data[e].live
    BY <1>6, <2>1, <2>2 DEF P!TxnRow, TxnFields
  <2> QED BY <1>2, <2>1, <2>3, RowFields, Tables
<1> HIDE DEF less
<1>8. LiveExpense(less) = LiveExpense(data)
  BY <1>2, <1>3, <1>7, PaidIs DEF LiveExpense
<1>9. e \in LiveExpense(new) /\ LiveExpense(less) = LiveExpense(new)
  BY <1>2, <1>3, <1>4, <1>8 DEF LiveExpense
<1>10. \A d \in LiveExpense(new) : d # e => less[d].share = new[d].share
  BY <1>4, <1>5, <1>7, PaidIs DEF LiveExpense
<1>11. P!Spent(new) = P!Spent(less) + n /\ P!Spent(less) \in Int
  BY <1>4, <1>7, <1>9, <1>10, SpentOne
<1>12. P!Marked(p)[Paid].cents = book[Paid].cents /\ P!Marked(p)[Paid].live = book[Paid].live
  BY MarkedIs
<1>13. P!CanUpsert(data, e, n) <=>
         /\ data[Paid].live /\ data[Paid].marked /\ data[e].live
         /\ P!Spent(less) + n <= data[Paid].cents /\ data[e].other + n <= data[e].cents
  BY DEF P!CanUpsert, less
<1> QED BY <1>3, <1>11, <1>12, <1>13 DEF data, new, S, T

LEMMA WholeIs ==
  ASSUME NEW p
  PROVE  After(p, DOMAIN p.after) = P!Over(P!Marked(p), p.after)
<1> DEFINE m == P!Marked(p)
           after == p.after
           piece == P!Restrict(after, DOMAIN after)
<1>1. DOMAIN piece = DOMAIN after /\ \A o \in DOMAIN after : piece[o] = after[o]
  BY DEF P!Restrict
<1> HIDE DEF m, after, piece
<1>2. P!Over(m, piece) = P!Over(m, after)
  BY <1>1 DEF P!Over
<1> QED BY <1>2 DEF m, after, piece, After

\* The last of some rows in that order.
LEMMA LastIs ==
  ASSUME NEW p, Shape(p), p.kind = "allocate", P!AsShown(p), P!RowsOK(book),
         NEW T \in SUBSET DOMAIN p.after, T # {}
  PROVE  \E e \in T : \A d \in T : d = e \/ d \in P!Earlier(p, e)
<1>1. \A d \in DOMAIN p.after : P!Growth(p, d) \in Int /\ Id[d] \in Nat /\ d \in P!Expense /\ d \in Txn
  BY GrowthIs, PaidIs
<1>2. IsFiniteSet(T) /\ T \subseteq DOMAIN p.after
  BY <1>1, PaidIs, FS_Subset
<1> DEFINE growth == [d \in T |-> P!Growth(p, d)]
<1>3. PICK g \in T : \A d \in T : growth[g] >= growth[d]
  <2>1. \A d \in T : growth[d] \in Int
    BY <1>1, <1>2
  <2> HIDE DEF growth
  <2> QED BY <1>2, <2>1, GreatestAt
<1>4. \A d \in T : P!Growth(p, g) >= P!Growth(p, d)
  BY <1>3
<1> DEFINE U == {d \in T : P!Growth(p, d) = P!Growth(p, g)}
<1>5. IsFiniteSet(U) /\ U # {} /\ U \subseteq T /\ \A d \in U : Id[d] \in Int
  BY <1>1, <1>2, FS_Subset
<1>6. PICK e \in U : \A d \in U : Id[e] >= Id[d]
  <2> HIDE DEF U
  <2> QED BY <1>5, GreatestAt
<1>7. e \in T /\ P!Growth(p, e) = P!Growth(p, g) /\ \A d \in T : P!Growth(p, d) <= P!Growth(p, e)
  BY <1>1, <1>2, <1>4
<1>8. ASSUME NEW d \in T, d # e PROVE d \in P!Earlier(p, e)
  <2>1. Id[d] # Id[e]
    BY <1>1, <1>2, <1>7, <1>8, PlansFit DEF P!PlansAssumption, P!IsInjective
  <2>2. P!Growth(p, d) = P!Growth(p, e) => Id[d] <= Id[e]
    BY <1>1, <1>2, <1>6, <1>7, <1>8
  <2> QED BY <1>1, <1>2, <1>7, <1>8, <2>1, <2>2 DEF P!Earlier
<1> QED BY <1>7, <1>8

\* An approved allocation, as the data show it.
LEMMA AllocatedIs ==
  ASSUME NEW p, Shape(p), p.kind = "allocate", P!Fits(p), P!RowsOK(book)
  PROVE  /\ P!RowsOK(P!Applied(p))
         /\ \A o \in P!Object :
              /\ P!Applied(p)[o] = Null <=> book[o] = Null
              /\ o # Paid => P!Applied(p)[o] = After(p, DOMAIN p.after)[o]
         /\ LiveExpense(P!Applied(p)) = LiveExpense(book)
         /\ \A f \in TxnFields : f # "marked" => P!Applied(p)[Paid][f] = book[Paid][f]
         /\ P!Applied(p)[Paid].marked =
              (P!Marked(p)[Paid].marked /\ ~(p.mark = "clear" /\ \A e \in P!Expense :
                 After(p, DOMAIN p.after)[e] # Null => After(p, DOMAIN p.after)[e].share = 0))
<1> DEFINE data == After(p, DOMAIN p.after)
           cleared == p.mark = "clear" /\ \A e \in P!Expense : data[e] # Null => data[e].share = 0
           row == [data[Paid] EXCEPT !.marked = @ /\ ~cleared]
           new == P!Applied(p)
<1>1. P!AsShown(p) /\ DOMAIN p.after \in SUBSET DOMAIN p.after
  BY FitsShown
<1>2. /\ P!RowsOK(data) /\ data[Paid] = P!Marked(p)[Paid] /\ LiveExpense(data) = LiveExpense(book)
      /\ \A o \in P!Object : data[o] = Null <=> book[o] = Null
  BY <1>1, AfterIs, AfterLive
<1>3. new = [data EXCEPT ![Paid] = row]
  BY WholeIs DEF P!Applied, P!Allocated
<1> HIDE DEF data
<1>4. data[Paid] \in P!TxnRow /\ DOMAIN data[Paid] = TxnFields /\ data[Paid].marked \in BOOLEAN
  BY <1>2, PaidRow
<1>5. cleared \in BOOLEAN
  OBVIOUS
<1> HIDE DEF cleared
<1>6. /\ row \in P!TxnRow /\ row.marked = (data[Paid].marked /\ ~cleared)
      /\ \A f \in TxnFields : f # "marked" => row[f] = data[Paid][f]
  BY <1>4, <1>5 DEF P!TxnRow, TxnFields
<1>7. row.live = data[Paid].live
  BY <1>6 DEF TxnFields
<1> HIDE DEF row, new
<1>8. DOMAIN data = P!Object
  BY <1>2 DEF P!RowsOK
<1>9. DOMAIN new = P!Object /\ new[Paid] = row /\ \A o \in P!Object : o # Paid => new[o] = data[o]
  BY <1>3, <1>8, PaidIs
<1>10. row \in P!RowsOf(Paid) /\ row # Null
  BY <1>6, PaidIs, Tables, RowFields
<1>11. P!RowsOK(new)
  BY <1>2, <1>9, <1>10 DEF P!RowsOK
<1>12. \A o \in P!Object : new[o] = Null <=> book[o] = Null
  BY <1>2, <1>9, <1>10, PaidRow
<1>13. LiveExpense(new) = LiveExpense(book)
  BY <1>2, <1>9, PaidIs DEF LiveExpense
<1>14. \A f \in TxnFields : f # "marked" => new[Paid][f] = book[Paid][f]
  BY <1>2, <1>6, <1>9, MarkedIs
<1> QED BY <1>2, <1>6, <1>9, <1>11, <1>12, <1>13, <1>14 DEF data, cleared, new

LEMMA FitsUpsert ==
  ASSUME NEW p, Shape(p), p.kind = "allocate", P!Fits(p), P!RowsOK(book),
         NEW e \in DOMAIN p.after, p.after[e].share # 0
  PROVE  /\ book[Paid].live /\ P!Marked(p)[Paid].marked /\ book[e].live
         /\ P!Spent(After(p, P!Earlier(p, e) \cup {e})) <= book[Paid].cents
         /\ book[e].other + p.after[e].share <= book[e].cents
<1>1. P!AsShown(p) /\ P!AllocateFits(p)
  BY FitsShown DEF P!Fits
<1>2. P!CanUpsert(After(p, P!Earlier(p, e)), e, p.after[e].share)
  BY <1>1 DEF P!AllocateFits, After
<1>3. e \in P!Object /\ e # Paid /\ e \notin P!Earlier(p, e) /\ P!Earlier(p, e) \in SUBSET DOMAIN p.after
  BY <1>1, GrowthIs, OrderIs, PaidIs
<1>4. After(p, P!Earlier(p, e))[e] = book[e]
  BY <1>1, <1>3, AfterIs
<1>5. book[e].live
  BY <1>2, <1>4 DEF P!CanUpsert
<1> QED BY <1>1, <1>2, <1>5, UpsertIs

\* An approved allocation's shares: those it writes, and the others as they are.
LEMMA SharesAre ==
  ASSUME NEW p, Shape(p), p.kind = "allocate", P!Fits(p), P!RowsOK(book), NEW e \in P!Expense, book[e] # Null
  PROVE  /\ P!Applied(p)[e] # Null /\ P!Applied(p)[e] = After(p, DOMAIN p.after)[e]
         /\ P!Applied(p)[e].other = book[e].other /\ P!Applied(p)[e].cents = book[e].cents
         /\ P!Applied(p)[e].share = IF e \in DOMAIN p.after THEN p.after[e].share ELSE book[e].share
<1>1. P!AsShown(p) /\ DOMAIN p.after \in SUBSET DOMAIN p.after
  BY FitsShown
<1>2. e \in P!Object /\ e # Paid /\ "other" \in TxnFields /\ "cents" \in TxnFields
  BY PaidIs DEF TxnFields
<1>3. P!Applied(p)[e] # Null /\ P!Applied(p)[e] = After(p, DOMAIN p.after)[e]
  BY <1>2, AllocatedIs
<1>4. CASE e \in DOMAIN p.after
  BY <1>1, <1>2, <1>3, <1>4, AfterIs
<1>5. CASE e \notin DOMAIN p.after
  BY <1>1, <1>2, <1>3, <1>5, AfterIs
<1> QED BY <1>3, <1>4, <1>5

LEMMA AllocatedKeeps ==
  ASSUME NEW p, Shape(p), p.kind = "allocate", P!Fits(p), P!DataOK(book)
  PROVE  P!DataOK(P!Applied(p))
<1> DEFINE new == P!Applied(p)
<1>1. P!RowsOK(new) /\ P!RowsOK(book) /\ P!AsShown(p)
  BY AllocatedIs, FitsShown DEF P!DataOK
<1>2. P!NamesApart(new)
  <2>1. ASSUME NEW c \in Category PROVE new[c] = book[c]
    <3>1. c \in P!Object /\ c # Paid /\ c \notin DOMAIN p.after
      BY <1>1, GrowthIs, PaidIs, Tables
    <3> QED BY <1>1, <3>1, AllocatedIs, AfterIs
  <2> HIDE DEF new
  <2> QED BY <2>1, NamesKept DEF P!DataOK
<1>3. ASSUME NEW e \in P!Expense, new[e] # Null
      PROVE  /\ new[e].share # 0 => new[Paid].marked
             /\ new[e].share + new[e].other <= new[e].cents
  <2>1. book[e] # Null /\ e \in P!Object
    BY <1>1, <1>3, AllocatedIs, PaidIs
  <2>2. /\ new[e].share = IF e \in DOMAIN p.after THEN p.after[e].share ELSE book[e].share
        /\ new[e].other = book[e].other /\ new[e].cents = book[e].cents
        /\ new[e] = After(p, DOMAIN p.after)[e]
    BY <1>1, <2>1, SharesAre
  <2>3. book[e].share + book[e].other <= book[e].cents /\ (book[e].share # 0 => book[Paid].marked)
    BY <2>1 DEF P!DataOK, P!SharesMarked, P!SharesCovered
  <2>4. book[e].share \in Nat /\ book[e].other \in Nat /\ book[e].cents \in Nat
    BY <1>1, <2>1, ShareIs
  <2>5. book[Paid].marked => P!Marked(p)[Paid].marked
    BY <1>1, MarkedIs
  <2>6. e \in DOMAIN p.after => p.after[e].share \in Nat
    BY <1>1, GrowthIs
  <2>10. new[e].share # 0 /\ P!Marked(p)[Paid].marked => new[Paid].marked
    <3> DEFINE whole == After(p, DOMAIN p.after)
    <3>1. new[Paid].marked = (P!Marked(p)[Paid].marked /\ ~(p.mark = "clear" /\ \A d \in P!Expense :
                                 whole[d] # Null => whole[d].share = 0))
      BY <1>1, AllocatedIs
    <3>2. new[e] = whole[e]
      BY <2>2
    <3> HIDE DEF whole, new
    <3> QED BY <1>3, <3>1, <3>2
  <2>7. CASE new[e].share # 0 /\ e \in DOMAIN p.after
    <3>1. P!Marked(p)[Paid].marked /\ book[e].other + p.after[e].share <= book[e].cents
      BY <1>1, <2>2, <2>7, FitsUpsert
    <3>2. new[Paid].marked
      BY <2>7, <2>10, <3>1
    <3> QED BY <2>2, <2>4, <2>6, <2>7, <3>1, <3>2
  <2>8. CASE new[e].share # 0 /\ e \notin DOMAIN p.after
    <3>1. P!Marked(p)[Paid].marked
      BY <2>2, <2>3, <2>5, <2>8
    <3>2. new[Paid].marked
      BY <2>8, <2>10, <3>1
    <3> QED BY <2>2, <2>3, <2>4, <2>8, <3>2
  <2>9. CASE new[e].share = 0
    BY <2>2, <2>3, <2>4, <2>9
  <2> QED BY <2>7, <2>8, <2>9
<1> HIDE DEF new
<1>4. P!SharesMarked(new) /\ P!SharesCovered(new)
  BY <1>3 DEF P!SharesMarked, P!SharesCovered
<1>5. P!DataOK(new)
  BY <1>1, <1>2, <1>4 DEF P!DataOK
<1> QED BY <1>5 DEF new

\* The last that is allocated anything found room for all of them.
LEMMA AllocatedWithin ==
  ASSUME NEW p, Shape(p), p.kind = "allocate", P!Fits(p), P!RowsOK(book),
         NEW g \in DOMAIN p.after, p.after[g].share # 0
  PROVE  P!Spent(P!Applied(p)) <= P!Applied(p)[Paid].cents
<1> DEFINE new == P!Applied(p)
           T == {d \in DOMAIN p.after : p.after[d].share # 0}
<1>1. P!RowsOK(new) /\ P!AsShown(p) /\ LiveExpense(new) = LiveExpense(book) /\ new[Paid].cents = book[Paid].cents
  <2>1. "cents" \in TxnFields /\ "cents" # "marked"
    BY DEF TxnFields
  <2> QED BY <2>1, AllocatedIs, FitsShown
<1>2. PICK e \in T : \A d \in T : d = e \/ d \in P!Earlier(p, e)
  <2>1. T \in SUBSET DOMAIN p.after /\ T # {}
    OBVIOUS
  <2> HIDE DEF T
  <2> QED BY <1>1, <2>1, LastIs
<1> DEFINE S == P!Earlier(p, e) \cup {e}
           then == After(p, S)
<1>3. S \in SUBSET DOMAIN p.after
  BY <1>1, <1>2, OrderIs
<1>4. P!Spent(then) <= book[Paid].cents
  BY <1>2, FitsUpsert
<1>5. P!RowsOK(then) /\ LiveExpense(then) = LiveExpense(book)
  BY <1>1, <1>3, AfterIs, AfterLive
<1>6. ASSUME NEW d \in LiveExpense(new) PROVE new[d].share <= then[d].share
  <2>1. d \in P!Expense /\ d \in P!Object /\ d # Paid /\ book[d] # Null
    BY <1>1, <1>6, PaidIs DEF LiveExpense
  <2>2. new[d].share = IF d \in DOMAIN p.after THEN p.after[d].share ELSE book[d].share
    BY <2>1, SharesAre
  <2>3. then[d] # Null
    BY <1>1, <1>5, <1>6 DEF LiveExpense
  <2>4. then[d].share \in Nat
    BY <1>5, <2>1, <2>3, ShareIs
  <2>5. CASE d \in S
    BY <1>1, <1>3, <2>2, <2>4, <2>5, AfterIs
  <2>6. CASE d \in DOMAIN p.after /\ d \notin S
    BY <1>2, <2>2, <2>4, <2>6
  <2>7. CASE d \notin DOMAIN p.after
    <3>1. then[d] = book[d]
      BY <1>1, <1>3, <2>1, <2>7, AfterIs
    <3> QED BY <2>2, <2>4, <2>7, <3>1
  <2> QED BY <2>5, <2>6, <2>7
<1> HIDE DEF new, then
<1>7. P!Spent(new) <= P!Spent(then) /\ P!Spent(new) \in Int /\ P!Spent(then) \in Int
  BY <1>1, <1>5, <1>6, SpentLess
<1>8. book[Paid].cents \in Nat
  BY PaidRow
<1> QED BY <1>1, <1>4, <1>7, <1>8 DEF new

-----------------------------------------------------------------------------
(* Cards.                                                                  *)

CardFields == {"status", "plan", "inverse", "seen", "was", "left"}

\* A name no other category there has.
FreeIn(data, name, c) == \A d \in Category \ {c} : data[d] # Null => data[d].name # name

\* A plan that creates a row which is not there.
Creates(p, o, data) ==
  \E row \in P!RowsOf(o) :
    /\ o \in Spare /\ data[o] = Null /\ p = P!CreatePlan([x \in {o} |-> row])
    /\ o \in Txn => row.live /\ row.share = 0 /\ row.other = 0
    /\ o \in Category => ~row.archived /\ FreeIn(data, row.name, o)

\* The parts of a plan are there, and what it checks are fields of its rows.
Filled(p) ==
  /\ {"kind", "before", "after"} \subseteq DOMAIN p
  /\ p.kind = "allocate" => {"mark", "shown"} \subseteq DOMAIN p
  /\ \A o \in DOMAIN p.after : DOMAIN p.before[o] \subseteq FieldsOf(o)

\* What a plan is proposed for: what an approval asks of the rows held for the data seen.
Sound(p, seen) ==
  /\ DOMAIN p.after # {} /\ Filled(p) /\ p.kind # "restore"
  /\ p.kind = "trash" => \A t \in DOMAIN p.after :
       ~p.after[t].live /\ "live" \in DOMAIN p.before[t] /\ p.before[t].live
  /\ p.kind = "edit" => \A t \in DOMAIN p.after :
       /\ seen[t].live
       /\ p.after[t].category # seen[t].category => ~seen[p.after[t].category].archived
  /\ p.kind = "rename" => \A c \in DOMAIN p.after : FreeIn(seen, p.after[c].name, c)
  /\ p.kind = "archive" => \A o \in DOMAIN p.after : DOMAIN p.before[o] = {"archived"}
  /\ p.kind = "allocate" =>
       /\ seen[Paid].live /\ p.mark = (IF seen[Paid].marked THEN "keep" ELSE "set")
       /\ p.shown.cents = seen[Paid].cents
       /\ p.shown.allocated = [e \in {d \in P!Expense : seen[d] # Null} |-> seen[e].share]
       /\ \A e \in DOMAIN p.shown.expenses :
            e \in DOMAIN p.after /\ p.shown.expenses[e] = seen[e].cents
       /\ \A e \in DOMAIN p.after :
            /\ seen[e].live /\ p.after[e].share # 0
            /\ p.after[e].share + seen[e].other <= seen[e].cents
       /\ P!Spent(P!Over(seen, p.after)) <= seen[Paid].cents

PendingOK(c) ==
  /\ P!DataOK(c.seen)
  /\ IF c.plan.kind = "create" THEN \E o \in P!Object : Creates(c.plan, o, c.seen)
     ELSE IF c.plan.kind = "undo" THEN Shape(c.plan.plan) /\ SeenAs(c.plan.plan, c.seen)
     ELSE Shape(c.plan) /\ SeenAs(c.plan, c.seen) /\ Sound(c.plan, c.seen)

\* A plan that takes the data left back to the data as they were.
Inverts(p, was, left) ==
  /\ Shape(p) /\ DOMAIN p.after # {} /\ Filled(p)
  /\ p.kind = "archive" => \A o \in DOMAIN p.after : DOMAIN p.before[o] = {"archived"}
  /\ \A o \in DOMAIN p.after : left[o] # Null /\ \A f \in DOMAIN p.before[o] : p.before[o][f] = left[o][f]
  /\ \A o \in P!Object :
       /\ was[o] # Null => left[o] # Null
       /\ was[o] # Null => \A f \in FieldsOf(o) :
            IF o \in DOMAIN p.after /\ f \in DOMAIN p.after[o] THEN p.after[o][f] = was[o][f]
            ELSE (p.kind = "allocate" /\ o = Paid /\ f = "marked") \/ left[o][f] = was[o][f]
       /\ was[o] = Null /\ left[o] # Null =>
            /\ o \in DOMAIN p.after /\ DOMAIN p.after[o] # {}
            /\ IF o \in Txn THEN p.kind = "trash" ELSE p.kind = "archive" /\ p.after[o].archived
  /\ p.kind = "trash" => \A t \in DOMAIN p.after : left[t].live /\ was[t] = Null
  /\ p.kind = "restore" => \A t \in DOMAIN p.after : ~left[t].live /\ was[t] # Null /\ was[t].live
  /\ p.kind = "edit" => \A t \in DOMAIN p.after : left[t].live
  /\ p.kind = "rename" => \A c \in DOMAIN p.after : FreeIn(left, p.after[c].name, c)
  /\ p.kind = "allocate" =>
       /\ p.shown = Null /\ p.mark = (IF was[Paid].marked THEN "keep" ELSE "clear")
       /\ left[Paid].live /\ left[Paid].marked
       /\ P!Spent(left) <= left[Paid].cents
       /\ \A e \in DOMAIN p.after : left[e].live /\ left[e].share # 0

\* The rows a card creates or can restore.
PlannedRows(c) ==
  IF c.status = "pending" /\ c.plan.kind = "create" THEN DOMAIN c.plan.after ELSE {}
ChangedRows(c) ==
  IF c.status = "applied" /\ c.plan.kind # "undo" THEN DOMAIN c.inverse.after ELSE {}

CardOK(c) ==
  /\ DOMAIN c = CardFields
  /\ c.status \in {"none", "pending", "applied", "undone"}
  /\ c.status = "pending" => PendingOK(c)
  /\ c.status = "applied" /\ c.plan.kind # "undo" =>
       P!DataOK(c.was) /\ P!DataOK(c.left) /\ Inverts(c.inverse, c.was, c.left)

PlansInv ==
  /\ P!DataOK(book) /\ touches \in 0..MaxTouches
  /\ DOMAIN cards = Card
  /\ \A k \in Card : CardOK(cards[k])
  /\ \A k \in Card : \A o \in PlannedRows(cards[k]) : book[o] = Null
  /\ \A k \in Card : \A o \in ChangedRows(cards[k]) : book[o] # Null
  /\ \A j, k \in Card : j # k => PlannedRows(cards[j]) \cap PlannedRows(cards[k]) = {}

-----------------------------------------------------------------------------
(* The user's own changes.                                                 *)

LEMMA FreeIs ==
  ASSUME NEW name, NEW c
  PROVE  P!NameFree(name, c) <=> FreeIn(book, name, c)
BY Tables DEF P!NameFree, FreeIn, P!There

LEMMA PutKeeps ==
  ASSUME P!DataOK(book), NEW o \in P!Object, NEW row \in P!RowsOf(o), book[o] # Null,
         NEW new, new = [book EXCEPT ![o] = row],
         o \in Category => FreeIn(book, row.name, o),
         o \in P!Expense => /\ row.share # 0 => book[Paid].marked
                            /\ row.share + row.other <= row.cents,
         o = Paid => row.marked = book[Paid].marked
  PROVE  P!DataOK(new) /\ \A x \in P!Object : new[x] = Null <=> book[x] = Null
<1>1. DOMAIN book = P!Object /\ P!RowsOK(book)
  BY DEF P!DataOK, P!RowsOK
<1>2. DOMAIN new = P!Object /\ new[o] = row /\ \A x \in P!Object : x # o => new[x] = book[x]
  BY <1>1
<1>3. row # Null
  BY RowFields
<1>4. \A x \in P!Object : new[x] = Null <=> book[x] = Null
  BY <1>2, <1>3
<1>5. P!RowsOK(new)
  BY <1>1, <1>2 DEF P!RowsOK
<1>6. P!NamesApart(new)
  <2> SUFFICES ASSUME NEW c \in Category, NEW d \in Category, new[c] # Null, new[d] # Null, c # d
               PROVE  new[c].name # new[d].name
    BY DEF P!NamesApart
  <2>1. c \in P!Object /\ d \in P!Object /\ book[c] # Null /\ book[d] # Null
    BY <1>4, Tables
  <2>2. CASE c = o
    BY <1>2, <2>1, <2>2 DEF FreeIn
  <2>3. CASE d = o
    BY <1>2, <2>1, <2>3 DEF FreeIn
  <2>4. CASE c # o /\ d # o
    BY <1>2, <2>1, <2>4 DEF P!DataOK, P!NamesApart
  <2> QED BY <2>2, <2>3, <2>4
<1>7. new[Paid].marked = book[Paid].marked
  BY <1>2, PaidIs
<1>8. P!SharesMarked(new) /\ P!SharesCovered(new)
  <2> SUFFICES ASSUME NEW e \in P!Expense, new[e] # Null
               PROVE  (new[e].share # 0 => new[Paid].marked) /\ new[e].share + new[e].other <= new[e].cents
    BY DEF P!SharesMarked, P!SharesCovered
  <2>1. e \in P!Object /\ book[e] # Null
    BY <1>4, PaidIs
  <2>2. CASE e = o
    BY <1>2, <1>7, <2>2
  <2>3. CASE e # o
    BY <1>2, <1>7, <2>1, <2>3 DEF P!DataOK, P!SharesMarked, P!SharesCovered
  <2> QED BY <2>2, <2>3
<1> QED BY <1>4, <1>5, <1>6, <1>8 DEF P!DataOK

KeepsRows == P!DataOK(book') /\ (\A o \in P!Object : book'[o] = Null <=> book[o] = Null)
         /\ UNCHANGED cards /\ touches' \in 0..MaxTouches

\* What a change of a transaction by the user comes to.
LEMMA TxnPut ==
  ASSUME P!DataOK(book), touches \in 0..MaxTouches, NEW t \in Txn, book[t] # Null,
         NEW row \in P!TxnRow, P!Put(t, row), row.marked = book[t].marked,
         t \in P!Expense => /\ row.share # 0 => book[Paid].marked
                            /\ row.share + row.other <= row.cents
  PROVE  KeepsRows
<1>1. t \in P!Object /\ P!RowsOf(t) = P!TxnRow /\ t \notin Category
  BY Tables
<1>2. book' = [book EXCEPT ![t] = row] /\ touches' \in 0..MaxTouches /\ UNCHANGED cards
  BY PlansFit DEF P!Put, P!PlansAssumption
<1>3. P!DataOK(book') /\ \A x \in P!Object : book'[x] = Null <=> book[x] = Null
  <2>1. t = Paid => row.marked = book[Paid].marked
    OBVIOUS
  <2>2. PICK new : new = book'
    OBVIOUS
  <2>3. new = [book EXCEPT ![t] = row] /\ row \in P!RowsOf(t)
    BY <1>1, <1>2, <2>2
  <2>4. P!DataOK(new) /\ \A x \in P!Object : new[x] = Null <=> book[x] = Null
    BY <1>1, <2>1, <2>3, PutKeeps
  <2> QED BY <2>2, <2>4
<1> QED BY <1>2, <1>3 DEF KeepsRows

LEMMA LiveIs ==
  \A t : t \in P!Live <=> t \in Txn /\ book[t] # Null /\ book[t].live
BY DEF P!Live, P!There

LEMMA UserEditsKeeps ==
  ASSUME P!DataOK(book), touches \in 0..MaxTouches, P!UserEdits
  PROVE  KeepsRows
<1>1. PICK t \in P!Live :
        \/ \E title \in Title : P!Put(t, [book[t] EXCEPT !.title = title])
        \/ \E cents \in P!Cents \ {0} : P!Covers(t, cents) /\ P!Put(t, [book[t] EXCEPT !.cents = cents])
        \/ \E c \in P!There(Category) : P!Put(t, [book[t] EXCEPT !.category = c])
        \/ \E tags \in SUBSET Tag : P!Put(t, [book[t] EXCEPT !.tags = tags])
        \/ \E notes \in Note : P!Put(t, [book[t] EXCEPT !.notes = notes])
  BY DEF P!UserEdits
<1>2. t \in Txn /\ book[t] # Null /\ book[t] \in P!TxnRow
  BY <1>1, LiveIs, TxnIs DEF P!DataOK
<1>3. t \in P!Expense => (book[t].share # 0 => book[Paid].marked) /\ book[t].share + book[t].other <= book[t].cents
  BY <1>2 DEF P!DataOK, P!SharesMarked, P!SharesCovered
<1>4. ASSUME NEW title \in Title, P!Put(t, [book[t] EXCEPT !.title = title]) PROVE KeepsRows
  <2> DEFINE row == [book[t] EXCEPT !.title = title]
  <2>1. row \in P!TxnRow /\ row.marked = book[t].marked /\ row.share = book[t].share
        /\ row.other = book[t].other /\ row.cents = book[t].cents
    BY <1>2 DEF P!TxnRow
  <2>2. P!Put(t, row)
    BY <1>4
  <2> HIDE DEF row
  <2> QED BY <1>2, <1>3, <2>1, <2>2, TxnPut
<1>5. ASSUME NEW cents \in P!Cents \ {0}, P!Covers(t, cents), P!Put(t, [book[t] EXCEPT !.cents = cents])
      PROVE  KeepsRows
  <2> DEFINE row == [book[t] EXCEPT !.cents = cents]
  <2>1. row \in P!TxnRow /\ row.marked = book[t].marked /\ row.share = book[t].share
        /\ row.other = book[t].other /\ row.cents = cents
    BY <1>2 DEF P!TxnRow
  <2>2. P!Put(t, row)
    BY <1>5
  <2>3. t \in P!Expense => row.share + row.other <= row.cents
    <3>1. t \in P!Expense => book[t].share \in Nat /\ book[t].other \in Nat
      BY <1>2, ShareIs DEF P!DataOK
    <3>2. cents \in Nat
      BY PlansFit DEF P!PlansAssumption, P!Cents
    <3>3. t \in P!Expense => cents >= book[t].share + book[t].other
      BY <1>5 DEF P!Covers
    <3> QED BY <2>1, <3>1, <3>2, <3>3
  <2> HIDE DEF row
  <2> QED BY <1>2, <1>3, <2>1, <2>2, <2>3, TxnPut
<1>6. ASSUME NEW c \in P!There(Category), P!Put(t, [book[t] EXCEPT !.category = c]) PROVE KeepsRows
  <2> DEFINE row == [book[t] EXCEPT !.category = c]
  <2>1. row \in P!TxnRow /\ row.marked = book[t].marked /\ row.share = book[t].share
        /\ row.other = book[t].other /\ row.cents = book[t].cents
    BY <1>2 DEF P!TxnRow, P!There
  <2>2. P!Put(t, row)
    BY <1>6
  <2> HIDE DEF row
  <2> QED BY <1>2, <1>3, <2>1, <2>2, TxnPut
<1>7. ASSUME NEW tags \in SUBSET Tag, P!Put(t, [book[t] EXCEPT !.tags = tags]) PROVE KeepsRows
  <2> DEFINE row == [book[t] EXCEPT !.tags = tags]
  <2>1. row \in P!TxnRow /\ row.marked = book[t].marked /\ row.share = book[t].share
        /\ row.other = book[t].other /\ row.cents = book[t].cents
    BY <1>2 DEF P!TxnRow
  <2>2. P!Put(t, row)
    BY <1>7
  <2> HIDE DEF row
  <2> QED BY <1>2, <1>3, <2>1, <2>2, TxnPut
<1>8. ASSUME NEW notes \in Note, P!Put(t, [book[t] EXCEPT !.notes = notes]) PROVE KeepsRows
  <2> DEFINE row == [book[t] EXCEPT !.notes = notes]
  <2>1. row \in P!TxnRow /\ row.marked = book[t].marked /\ row.share = book[t].share
        /\ row.other = book[t].other /\ row.cents = book[t].cents
    BY <1>2 DEF P!TxnRow
  <2>2. P!Put(t, row)
    BY <1>8
  <2> HIDE DEF row
  <2> QED BY <1>2, <1>3, <2>1, <2>2, TxnPut
<1> QED BY <1>1, <1>4, <1>5, <1>6, <1>7, <1>8

LEMMA UserTrashesKeeps ==
  ASSUME P!DataOK(book), touches \in 0..MaxTouches, P!UserTrashes
  PROVE  KeepsRows
<1>1. PICK t \in P!There(Txn) : P!Put(t, [book[t] EXCEPT !.live = ~@])
  BY DEF P!UserTrashes
<1>2. t \in Txn /\ book[t] # Null /\ book[t] \in P!TxnRow
  BY <1>1, TxnIs DEF P!DataOK, P!There
<1>3. t \in P!Expense => (book[t].share # 0 => book[Paid].marked) /\ book[t].share + book[t].other <= book[t].cents
  BY <1>2 DEF P!DataOK, P!SharesMarked, P!SharesCovered
<1> DEFINE row == [book[t] EXCEPT !.live = ~@]
<1>4. row \in P!TxnRow /\ row.marked = book[t].marked /\ row.share = book[t].share
      /\ row.other = book[t].other /\ row.cents = book[t].cents
  BY <1>2 DEF P!TxnRow
<1>5. P!Put(t, row)
  BY <1>1
<1> HIDE DEF row
<1> QED BY <1>2, <1>3, <1>4, <1>5, TxnPut

LEMMA UserAllocatesKeeps ==
  ASSUME P!DataOK(book), touches \in 0..MaxTouches, P!UserAllocates
  PROVE  KeepsRows
<1>1. PICK e \in P!There(P!Expense) :
        \/ \E cents \in P!Cents : (cents = 0 \/ P!CanUpsert(book, e, cents)) /\ P!Put(e, [book[e] EXCEPT !.share = cents])
        \/ \E cents \in P!Cents : book[e].share + cents <= book[e].cents /\ P!Put(e, [book[e] EXCEPT !.other = cents])
  BY DEF P!UserAllocates
<1>2. e \in P!Expense /\ e \in Txn /\ book[e] # Null /\ book[e] \in P!TxnRow
  BY <1>1, PaidIs, TxnIs DEF P!DataOK, P!There
<1>3. (book[e].share # 0 => book[Paid].marked) /\ book[e].share + book[e].other <= book[e].cents
  BY <1>2 DEF P!DataOK, P!SharesMarked, P!SharesCovered
<1>4. P!Cents \subseteq Nat /\ book[e].share \in Nat /\ book[e].other \in Nat /\ book[e].cents \in Nat
  BY <1>2, ShareIs, PlansFit DEF P!DataOK, P!PlansAssumption, P!Cents
<1>5. ASSUME NEW cents \in P!Cents, cents = 0 \/ P!CanUpsert(book, e, cents), P!Put(e, [book[e] EXCEPT !.share = cents])
      PROVE  KeepsRows
  <2> DEFINE row == [book[e] EXCEPT !.share = cents]
  <2>1. row \in P!TxnRow /\ row.marked = book[e].marked /\ row.share = cents
        /\ row.other = book[e].other /\ row.cents = book[e].cents
    BY <1>2 DEF P!TxnRow
  <2>2. P!Put(e, row)
    BY <1>5
  <2> HIDE DEF row
  <2>3. cents # 0 => book[Paid].marked /\ book[e].other + cents <= book[e].cents
    BY <1>5 DEF P!CanUpsert
  <2>4. row.share + row.other <= row.cents
    BY <1>3, <1>4, <2>1, <2>3
  <2> QED BY <1>2, <2>1, <2>2, <2>3, <2>4, TxnPut
<1>6. ASSUME NEW cents \in P!Cents, book[e].share + cents <= book[e].cents, P!Put(e, [book[e] EXCEPT !.other = cents])
      PROVE  KeepsRows
  <2> DEFINE row == [book[e] EXCEPT !.other = cents]
  <2>1. row \in P!TxnRow /\ row.marked = book[e].marked /\ row.share = book[e].share
        /\ row.other = cents /\ row.cents = book[e].cents
    BY <1>2 DEF P!TxnRow
  <2>2. P!Put(e, row)
    BY <1>6
  <2> HIDE DEF row
  <2> QED BY <1>2, <1>3, <1>6, <2>1, <2>2, TxnPut
<1> QED BY <1>1, <1>5, <1>6

LEMMA UserMarksKeeps ==
  ASSUME P!DataOK(book), touches \in 0..MaxTouches, P!UserMarks
  PROVE  KeepsRows
<1> DEFINE new == [o \in P!Object |->
              IF o = Paid THEN [book[o] EXCEPT !.marked = ~@]
              ELSE IF o \in P!There(P!Expense) /\ book[Paid].marked THEN [book[o] EXCEPT !.share = 0]
              ELSE book[o]]
<1>1. book' = new /\ UNCHANGED cards /\ touches' \in 0..MaxTouches
  BY PlansFit DEF P!UserMarks, P!PlansAssumption
<1>2. book[Paid] \in P!TxnRow /\ book[Paid] # Null
  BY PaidRow DEF P!DataOK
<1>3. /\ [book[Paid] EXCEPT !.marked = ~@] \in P!TxnRow
      /\ [book[Paid] EXCEPT !.marked = ~@].marked = ~book[Paid].marked
  BY <1>2 DEF P!TxnRow
<1>4. ASSUME NEW e \in P!There(P!Expense)
      PROVE  /\ [book[e] EXCEPT !.share = 0] \in P!TxnRow
             /\ [book[e] EXCEPT !.share = 0].share = 0
             /\ [book[e] EXCEPT !.share = 0].other = book[e].other
             /\ [book[e] EXCEPT !.share = 0].cents = book[e].cents
  <2>1. book[e] \in P!TxnRow
    BY PaidIs, TxnIs DEF P!DataOK, P!There
  <2>2. 0 \in P!Cents
    BY PlansFit DEF P!PlansAssumption, P!Cents
  <2> QED BY <2>1, <2>2 DEF P!TxnRow
<1>5. new[Paid] = [book[Paid] EXCEPT !.marked = ~@]
  BY PaidIs
<1>6. \A e \in P!There(P!Expense) :
        new[e] = IF book[Paid].marked THEN [book[e] EXCEPT !.share = 0] ELSE book[e]
  BY PaidIs DEF P!There
<1>7. \A o \in P!Object : o # Paid /\ o \notin P!There(P!Expense) => new[o] = book[o]
  OBVIOUS
<1>8. DOMAIN new = P!Object
  OBVIOUS
<1> HIDE DEF new
<1>9. new[Paid] \in P!RowsOf(Paid) /\ \A e \in P!There(P!Expense) : new[e] \in P!RowsOf(e)
  <2>1. \A e \in P!There(P!Expense) : book[e] \in P!TxnRow /\ P!RowsOf(e) = P!TxnRow
    BY PaidIs, TxnIs, Tables DEF P!DataOK, P!There
  <2>2. new[Paid] \in P!TxnRow
    BY <1>3, <1>5
  <2>3. ASSUME NEW e \in P!There(P!Expense) PROVE new[e] \in P!TxnRow
    BY <1>4, <1>6, <2>1
  <2> QED BY <2>1, <2>2, <2>3, PaidIs, Tables
<1>10. \A o \in P!Object : new[o] = Null <=> book[o] = Null
  <2>1. new[Paid] # Null
    BY <1>9, PaidIs, RowFields
  <2>2. \A e \in P!There(P!Expense) : new[e] # Null /\ book[e] # Null
    BY <1>9, PaidIs, RowFields DEF P!There
  <2> QED BY <1>2, <1>7, <2>1, <2>2
<1>11. P!RowsOK(new)
  BY <1>7, <1>8, <1>9 DEF P!RowsOK, P!DataOK
<1>12. P!NamesApart(new)
  <2>1. \A c \in Category : new[c] = book[c]
    BY <1>7, Tables, PaidIs DEF P!There
  <2> QED BY <2>1, NamesKept DEF P!DataOK
<1>13. P!SharesMarked(new) /\ P!SharesCovered(new)
  <2> SUFFICES ASSUME NEW e \in P!Expense, new[e] # Null
               PROVE  (new[e].share # 0 => new[Paid].marked) /\ new[e].share + new[e].other <= new[e].cents
    BY DEF P!SharesMarked, P!SharesCovered
  <2>1. e \in P!There(P!Expense)
    BY <1>10, PaidIs DEF P!There
  <2>2. book[e].share \in Nat /\ book[e].other \in Nat /\ book[e].cents \in Nat
    BY <2>1, ShareIs DEF P!DataOK, P!There
  <2>3. book[e].share + book[e].other <= book[e].cents
    BY <2>1 DEF P!DataOK, P!SharesCovered, P!There
  <2>4. CASE book[Paid].marked
    <3>1. new[e].share = 0 /\ new[e].other = book[e].other /\ new[e].cents = book[e].cents
      BY <1>4, <1>6, <2>1, <2>4
    <3> QED BY <2>2, <2>3, <3>1
  <2>5. CASE ~book[Paid].marked
    <3>1. new[e] = book[e] /\ new[Paid].marked
      BY <1>3, <1>5, <1>6, <2>1, <2>5
    <3> QED BY <2>3, <3>1
  <2> QED BY <2>4, <2>5
<1> QED BY <1>1, <1>10, <1>11, <1>12, <1>13 DEF KeepsRows, P!DataOK

\* What a change of another row by the user comes to.
LEMMA RowPut ==
  ASSUME P!DataOK(book), touches \in 0..MaxTouches, NEW o \in P!Object, o \notin Txn, book[o] # Null,
         NEW row \in P!RowsOf(o), P!Put(o, row), o \in Category => FreeIn(book, row.name, o)
  PROVE  KeepsRows
<1>1. book' = [book EXCEPT ![o] = row] /\ touches' \in 0..MaxTouches /\ UNCHANGED cards
  BY PlansFit DEF P!Put, P!PlansAssumption
<1>2. PICK new : new = book'
  OBVIOUS
<1>3. new = [book EXCEPT ![o] = row] /\ o # Paid /\ o \notin P!Expense
  BY <1>1, <1>2, PaidIs
<1>4. P!DataOK(new) /\ \A x \in P!Object : new[x] = Null <=> book[x] = Null
  BY <1>3, PutKeeps
<1> QED BY <1>1, <1>2, <1>4 DEF KeepsRows

LEMMA UserChangesKeeps ==
  ASSUME P!DataOK(book), touches \in 0..MaxTouches, P!UserChangesCategory \/ P!UserChangesTag \/ P!UserChangesRule
  PROVE  KeepsRows
<1>1. ASSUME NEW c \in P!There(Category), NEW name \in Name, P!NameFree(name, c),
             P!Put(c, [book[c] EXCEPT !.name = name])
      PROVE  KeepsRows
  <2>1. c \in P!Object /\ c \in Category /\ c \notin Txn /\ book[c] # Null /\ P!RowsOf(c) = P!CategoryRow
    BY <1>1, Tables DEF P!There
  <2>2. book[c] \in P!CategoryRow
    BY <2>1, RowIs DEF P!DataOK
  <2> DEFINE row == [book[c] EXCEPT !.name = name]
  <2>3. row \in P!CategoryRow /\ row.name = name
    BY <2>2 DEF P!CategoryRow
  <2>4. P!Put(c, row) /\ FreeIn(book, name, c)
    BY <1>1, FreeIs
  <2> HIDE DEF row
  <2> QED BY <2>1, <2>3, <2>4, RowPut
<1>2. ASSUME NEW c \in P!There(Category), P!Put(c, [book[c] EXCEPT !.archived = ~@])
      PROVE  KeepsRows
  <2>1. c \in P!Object /\ c \in Category /\ c \notin Txn /\ book[c] # Null /\ P!RowsOf(c) = P!CategoryRow
    BY <1>2, Tables DEF P!There
  <2>2. book[c] \in P!CategoryRow
    BY <2>1, RowIs DEF P!DataOK
  <2> DEFINE row == [book[c] EXCEPT !.archived = ~@]
  <2>3. row \in P!CategoryRow /\ row.name = book[c].name
    BY <2>2 DEF P!CategoryRow
  <2>4. P!Put(c, row)
    BY <1>2
  <2>5. FreeIn(book, row.name, c)
    BY <2>1, <2>3 DEF P!DataOK, P!NamesApart, FreeIn
  <2> HIDE DEF row
  <2> QED BY <2>1, <2>3, <2>4, <2>5, RowPut
<1>3. ASSUME NEW g \in Tag, P!Put(g, [book[g] EXCEPT !.archived = ~@])
      PROVE  KeepsRows
  <2>1. g \in P!Object /\ g \notin Txn /\ g \notin Category /\ P!RowsOf(g) = P!TagRow /\ g \notin Spare
    BY Tables, PlansFit DEF P!PlansAssumption
  <2>2. book[g] \in P!TagRow /\ book[g] # Null
    BY <2>1, RowIs DEF P!DataOK
  <2> DEFINE row == [book[g] EXCEPT !.archived = ~@]
  <2>3. row \in P!TagRow
    BY <2>2 DEF P!TagRow
  <2>4. P!Put(g, row)
    BY <1>3
  <2> HIDE DEF row
  <2> QED BY <2>1, <2>2, <2>3, <2>4, RowPut
<1>4. ASSUME NEW r \in Rule, NEW anchor \in P!Day, NEW ends \in P!Day \cup {Null},
             P!Put(r, [anchor |-> anchor, ends |-> ends])
      PROVE  KeepsRows
  <2>1. r \in P!Object /\ r \notin Txn /\ r \notin Category /\ P!RowsOf(r) = P!RuleRow /\ r \notin Spare
    BY Tables, PlansFit DEF P!PlansAssumption
  <2>2. book[r] # Null
    BY <2>1, RowIs DEF P!DataOK
  <2>3. [anchor |-> anchor, ends |-> ends] \in P!RuleRow
    BY DEF P!RuleRow
  <2> QED BY <1>4, <2>1, <2>2, <2>3, RowPut
<1>5. CASE P!UserChangesCategory
  BY <1>1, <1>2, <1>5 DEF P!UserChangesCategory
<1>6. CASE P!UserChangesTag
  BY <1>3, <1>6 DEF P!UserChangesTag
<1>7. CASE P!UserChangesRule
  BY <1>4, <1>7 DEF P!UserChangesRule
<1> QED BY <1>5, <1>6, <1>7

LEMMA UserKeeps ==
  ASSUME P!DataOK(book), touches \in 0..MaxTouches, P!User
  PROVE  KeepsRows
BY UserEditsKeeps, UserTrashesKeeps, UserAllocatesKeeps, UserMarksKeeps, UserChangesKeeps DEF P!User

-----------------------------------------------------------------------------
(* Proposals.                                                              *)

LEMMA PartIs ==
  ASSUME NEW o, NEW fields
  PROVE  DOMAIN P!Part(o, fields) = fields /\ \A f \in fields : P!Part(o, fields)[f] = book[o][f]
BY DEF P!Part

\* A change of one field of some rows.
LEMMA OneField ==
  ASSUME NEW o \in P!Object, NEW row \in P!RowsOf(o), NEW fields, NEW f \in FieldsOf(o),
         DOMAIN fields = {f}, row[f] = fields[f]
  PROVE  PartOf(o, fields)
<1>1. DOMAIN row = FieldsOf(o)
  BY RowFields
<1> QED BY <1>1 DEF PartOf

\* A change of whether some transactions are in Trash, of what was shown of them.
FlipFields == P!Shown \cup {"live"}
Flip(t, is) == P!Onto(P!Part(t, P!Shown), [live |-> is])

LEMMA FlipRow ==
  ASSUME NEW t, NEW is, book[t].live = is, NEW fields, fields = Flip(t, is)
  PROVE  /\ DOMAIN fields = FlipFields /\ fields = [f \in DOMAIN fields |-> fields[f]]
         /\ \A f \in DOMAIN fields : fields[f] = book[t][f]
<1> DEFINE shown == P!Part(t, P!Shown)
           flag == [live |-> is]
<1>1. DOMAIN flag = {"live"} /\ flag["live"] = is
  OBVIOUS
<1>2. DOMAIN shown = P!Shown /\ \A f \in P!Shown : shown[f] = book[t][f]
  BY PartIs
<1>3. fields = P!Onto(shown, flag)
  BY DEF Flip
<1> HIDE DEF shown, flag
<1>4. fields = [f \in DOMAIN fields |-> fields[f]]
  BY <1>3 DEF P!Onto
<1>5. /\ DOMAIN fields = DOMAIN flag \cup DOMAIN shown
      /\ \A f \in DOMAIN fields : fields[f] = IF f \in DOMAIN flag THEN flag[f] ELSE shown[f]
  BY <1>3 DEF P!Onto
<1> QED BY <1>1, <1>2, <1>4, <1>5 DEF FlipFields

LEMMA FlipIs ==
  ASSUME P!DataOK(book), NEW S \in SUBSET Txn, NEW is \in BOOLEAN,
         \A t \in S : book[t] # Null,
         NEW p, p.kind = (IF is THEN "trash" ELSE "restore"),
         DOMAIN p.before = S, DOMAIN p.after = S,
         \A t \in S :
           /\ DOMAIN p.before[t] = FlipFields
           /\ p.before[t] = [f \in DOMAIN p.before[t] |-> p.before[t][f]]
           /\ \A f \in DOMAIN p.before[t] : p.before[t][f] = book[t][f]
           /\ DOMAIN p.after[t] = {"live"} /\ p.after[t].live = ~is
  PROVE  Shape(p) /\ SeenAs(p, book)
<1>1. ASSUME NEW t \in S PROVE PartOf(t, p.after[t])
  <2> DEFINE row == [book[t] EXCEPT !.live = ~is]
  <2>1. book[t] \in P!TxnRow
    BY <1>1, TxnIs DEF P!DataOK
  <2>2. row \in P!TxnRow /\ row.live = ~is
    BY <2>1 DEF P!TxnRow
  <2> HIDE DEF row
  <2>3. t \in P!Object /\ P!RowsOf(t) = P!TxnRow /\ "live" \in FieldsOf(t)
    BY <1>1, Tables DEF FieldsOf, TxnFields
  <2>4. DOMAIN p.after[t] = {"live"} /\ p.after[t]["live"] = row["live"]
    BY <1>1, <2>2
  <2> QED BY <2>2, <2>3, <2>4, OneField
<1>2. p.kind \in {"trash", "restore"} /\ p.kind # "allocate" /\ p.kind # "rename"
  BY Zenon
<1>3. p.kind \in PlanKind /\ TableOf(p.kind) = Txn /\ Written(p.kind) = {"live"}
  BY <1>2 DEF PlanKind, TableOf, Written
<1>4. Shape(p)
  BY <1>1, <1>2, <1>3 DEF Shape, FlipFields
<1>5. SeenAs(p, book)
  BY <1>2 DEF SeenAs
<1> QED BY <1>4, <1>5

LEMMA RemovalIs ==
  ASSUME P!DataOK(book), NEW S \in SUBSET P!Live
  PROVE  /\ Shape(P!Removal(S)) /\ SeenAs(P!Removal(S), book) /\ DOMAIN P!Removal(S).after = S
         /\ \A t \in S : DOMAIN P!Removal(S).after[t] = {"live"} /\ P!Removal(S).after[t].live = FALSE
<1> DEFINE p == P!Removal(S)
<1>1. S \in SUBSET Txn /\ \A t \in S : book[t] # Null /\ book[t].live = TRUE
  <2>1. \A t \in Txn : book[t] # Null => book[t].live \in BOOLEAN
    BY TxnIs, TxnFacts DEF P!DataOK
  <2> QED BY <2>1, LiveIs
<1>2. /\ p.kind = "trash" /\ DOMAIN p.before = S /\ DOMAIN p.after = S
      /\ \A t \in S : /\ p.before[t] = P!Onto(P!Part(t, P!Shown), [live |-> TRUE])
                      /\ DOMAIN p.after[t] = {"live"} /\ p.after[t].live = FALSE
  BY DEF P!Removal
<1> HIDE DEF p
<1>3. ASSUME NEW t \in S
      PROVE  /\ DOMAIN p.before[t] = FlipFields
             /\ p.before[t] = [f \in DOMAIN p.before[t] |-> p.before[t][f]]
             /\ \A f \in DOMAIN p.before[t] : p.before[t][f] = book[t][f]
  <2>1. PICK fields : fields = p.before[t]
    OBVIOUS
  <2>2. PICK is : is = TRUE
    OBVIOUS
  <2>3. fields = Flip(t, is)
    BY <1>2, <1>3, <2>1, <2>2 DEF Flip
  <2>4. book[t].live = is
    BY <1>1, <1>3, <2>2
  <2>5. /\ DOMAIN fields = FlipFields /\ fields = [f \in DOMAIN fields |-> fields[f]]
        /\ \A f \in DOMAIN fields : fields[f] = book[t][f]
    BY <2>3, <2>4, FlipRow
  <2> QED BY <2>1, <2>5
<1>4. Shape(p) /\ SeenAs(p, book)
  <2>1. PICK is \in BOOLEAN : is = TRUE
    OBVIOUS
  <2>2. p.kind = (IF is THEN "trash" ELSE "restore") /\ \A t \in S : p.after[t].live = ~is
    BY <1>2, <2>1
  <2> QED BY <1>1, <1>2, <1>3, <2>2, FlipIs
<1> QED BY <1>2, <1>4 DEF p

LEMMA ReturnIs ==
  ASSUME P!DataOK(book), NEW S \in SUBSET Txn, \A t \in S : book[t] # Null /\ ~book[t].live
  PROVE  /\ Shape(P!Return(S)) /\ SeenAs(P!Return(S), book) /\ DOMAIN P!Return(S).after = S
         /\ \A t \in S : DOMAIN P!Return(S).after[t] = {"live"} /\ P!Return(S).after[t].live = TRUE
<1> DEFINE p == P!Return(S)
<1>1. \A t \in S : book[t] # Null /\ book[t].live = FALSE
  <2>1. \A t \in Txn : book[t] # Null => book[t].live \in BOOLEAN
    BY TxnIs, TxnFacts DEF P!DataOK
  <2> QED BY <2>1
<1>2. /\ p.kind = "restore" /\ DOMAIN p.before = S /\ DOMAIN p.after = S
      /\ \A t \in S : /\ p.before[t] = P!Onto(P!Part(t, P!Shown), [live |-> FALSE])
                      /\ DOMAIN p.after[t] = {"live"} /\ p.after[t].live = TRUE
  BY DEF P!Return
<1> HIDE DEF p
<1>3. ASSUME NEW t \in S
      PROVE  /\ DOMAIN p.before[t] = FlipFields
             /\ p.before[t] = [f \in DOMAIN p.before[t] |-> p.before[t][f]]
             /\ \A f \in DOMAIN p.before[t] : p.before[t][f] = book[t][f]
  <2>1. PICK fields : fields = p.before[t]
    OBVIOUS
  <2>2. PICK is : is = FALSE
    OBVIOUS
  <2>3. fields = Flip(t, is)
    BY <1>2, <1>3, <2>1, <2>2 DEF Flip
  <2>4. book[t].live = is
    BY <1>1, <1>3, <2>2
  <2>5. /\ DOMAIN fields = FlipFields /\ fields = [f \in DOMAIN fields |-> fields[f]]
        /\ \A f \in DOMAIN fields : fields[f] = book[t][f]
    BY <2>3, <2>4, FlipRow
  <2> QED BY <2>1, <2>5
<1>4. Shape(p) /\ SeenAs(p, book)
  <2>1. PICK is \in BOOLEAN : is = FALSE
    OBVIOUS
  <2>2. p.kind = (IF is THEN "trash" ELSE "restore") /\ \A t \in S : p.after[t].live = ~is
    BY <1>2, <2>1
  <2> QED BY <1>1, <1>2, <1>3, <2>2, FlipIs
<1> QED BY <1>2, <1>4 DEF p

\* A plan of a proposal: its shape, what it saw, what its approval asks.
Ready(p) == Shape(p) /\ SeenAs(p, book) /\ Sound(p, book)

LEMMA TrashReady ==
  ASSUME P!DataOK(book), NEW S \in SUBSET P!Live, S # {}
  PROVE  Ready(P!Removal(S))
<1> DEFINE p == P!Removal(S)
<1>1. p.kind = "trash" /\ {"kind", "before", "after"} \subseteq DOMAIN p
  BY DEF P!Removal
<1>2. \A t \in S : DOMAIN p.before[t] = P!Shown \cup {"live"}
  BY DEF P!Removal, P!Onto, P!Part
<1>3. \A t \in S : FieldsOf(t) = TxnFields
  BY LiveIs DEF FieldsOf
<1>4. P!Shown \cup {"live"} \subseteq TxnFields
  BY DEF P!Shown, TxnFields
<1>5. Shape(p) /\ SeenAs(p, book) /\ DOMAIN p.after = S
  BY RemovalIs
<1>7. \A t \in S : p.after[t].live = FALSE
  BY RemovalIs
<1>8. \A t \in S : p.before[t].live = TRUE
  <2>1. ASSUME NEW t \in S PROVE p.before[t].live = TRUE
    <3>1. PICK shown : shown = P!Part(t, P!Shown)
      OBVIOUS
    <3>2. p.before[t] = P!Onto(shown, [live |-> TRUE])
      BY <3>1 DEF P!Removal
    <3> QED BY <3>2 DEF P!Onto
  <2> QED BY <2>1
<1> HIDE DEF p
<1>6. Filled(p)
  BY <1>1, <1>2, <1>3, <1>4, <1>5 DEF Filled
<1> QED BY <1>1, <1>2, <1>5, <1>6, <1>7, <1>8 DEF Ready, Sound, p

LEMMA ArchiveReady ==
  ASSUME P!DataOK(book), NEW S \in SUBSET P!There(Category \cup Tag), S # {}, \A o \in S : ~book[o].archived
  PROVE  Ready(P!FlagPlan(S, TRUE))
<1> DEFINE p == P!FlagPlan(S, TRUE)
<1>1. /\ p.kind = "archive" /\ DOMAIN p.before = S /\ DOMAIN p.after = S
      /\ \A o \in S : /\ DOMAIN p.before[o] = {"archived"} /\ p.before[o].archived = FALSE
                       /\ p.before[o] \in P!TagRow
                       /\ DOMAIN p.after[o] = {"archived"} /\ p.after[o].archived = TRUE
  BY DEF P!FlagPlan, P!TagRow
<1>8. {"kind", "before", "after"} \subseteq DOMAIN p
  BY DEF P!FlagPlan
<1> HIDE DEF p
<1>2. ASSUME NEW o \in S
      PROVE  /\ o \in Category \cup Tag /\ book[o] # Null /\ book[o].archived = FALSE
             /\ PartOf(o, p.after[o])
  <2>1. o \in Category \cup Tag /\ book[o] # Null /\ o \in P!Object
    BY <1>2, Tables DEF P!There
  <2>2. book[o] \in P!RowsOf(o)
    BY <2>1, RowIs DEF P!DataOK
  <2> DEFINE row == [book[o] EXCEPT !.archived = TRUE]
  <2>3. CASE o \in Category
    <3>1. P!RowsOf(o) = P!CategoryRow /\ FieldsOf(o) = CategoryFields /\ "archived" \in CategoryFields
      BY <2>3, Tables DEF FieldsOf, CategoryFields
    <3>6. book[o] \in P!CategoryRow /\ ~book[o].archived
      BY <1>2, <2>2, <3>1
    <3>7. book[o].archived = FALSE
      BY <3>6, CatalogFacts
    <3>2. row \in P!CategoryRow /\ row.archived = TRUE
      BY <3>6 DEF P!CategoryRow
    <3>3. row \in P!RowsOf(o) /\ "archived" \in FieldsOf(o)
      BY <3>1, <3>2
    <3> HIDE DEF row
    <3>4. DOMAIN p.after[o] = {"archived"} /\ p.after[o].archived = row.archived
      BY <1>1, <1>2, <3>2
    <3>5. PartOf(o, p.after[o])
      BY <2>1, <3>3, <3>4, OneField
    <3> QED BY <2>1, <3>5, <3>7
  <2>4. CASE o \in Tag
    <3>1. P!RowsOf(o) = P!TagRow /\ FieldsOf(o) = TagFields /\ "archived" \in TagFields
      BY <2>4, Tables DEF FieldsOf, TagFields
    <3>6. book[o] \in P!TagRow /\ ~book[o].archived
      BY <1>2, <2>2, <3>1
    <3>7. book[o].archived = FALSE
      BY <3>6, CatalogFacts
    <3>2. row \in P!TagRow /\ row.archived = TRUE
      BY <3>6 DEF P!TagRow
    <3>3. row \in P!RowsOf(o) /\ "archived" \in FieldsOf(o)
      BY <3>1, <3>2
    <3> HIDE DEF row
    <3>4. DOMAIN p.after[o] = {"archived"} /\ p.after[o].archived = row.archived
      BY <1>1, <1>2, <3>2
    <3>5. PartOf(o, p.after[o])
      BY <2>1, <3>3, <3>4, OneField
    <3> QED BY <2>1, <3>5, <3>7
  <2> QED BY <2>1, <2>3, <2>4
<1>3. ASSUME NEW o \in S
      PROVE  /\ DOMAIN p.before[o] = {"archived"} /\ DOMAIN p.after[o] = {"archived"}
             /\ p.before[o] = [f \in DOMAIN p.before[o] |-> p.before[o][f]]
             /\ \A f \in DOMAIN p.before[o] : p.before[o][f] = book[o][f]
             /\ PartOf(o, p.after[o])
  <2>1. p.before[o] = [f \in TagFields |-> p.before[o][f]] /\ TagFields = {"archived"}
    BY <1>1, <1>3, CatalogFacts DEF TagFields
  <2>2. DOMAIN p.before[o] = {"archived"} /\ DOMAIN p.after[o] = {"archived"} /\ PartOf(o, p.after[o])
    BY <1>1, <1>2, <1>3
  <2>3. p.before[o].archived = book[o].archived
    BY <1>1, <1>2, <1>3
  <2> QED BY <2>1, <2>2, <2>3
<1>4. "archive" \in PlanKind /\ TableOf("archive") = Category \cup Tag /\ Written("archive") = {"archived"}
  BY DEF PlanKind, TableOf, Written
<1>5. Shape(p)
  BY <1>1, <1>2, <1>3, <1>4 DEF Shape
<1>6. SeenAs(p, book)
  BY <1>1, <1>2, <1>3 DEF SeenAs
<1>9. \A o \in S : "archived" \in FieldsOf(o)
  BY <1>2, Tables DEF FieldsOf, CategoryFields, TagFields
<1>10. Filled(p)
  BY <1>1, <1>3, <1>8, <1>9 DEF Filled
<1>7. Sound(p, book)
  BY <1>1, <1>3, <1>10 DEF Sound
<1> QED BY <1>5, <1>6, <1>7 DEF Ready, p

LEMMA RenameReady ==
  ASSUME P!DataOK(book), NEW S \in SUBSET P!There(Category), S # {}, NEW names \in [S -> Name],
         \A c \in S : P!NameFree(names[c], c), P!IsInjective(names)
  PROVE  Ready(P!RenamePlan(names))
<1> DEFINE p == P!RenamePlan(names)
<1>1. /\ p.kind = "rename" /\ DOMAIN p.before = S /\ DOMAIN p.after = S
      /\ \A c \in S : /\ p.before[c] = P!Part(c, {"name"})
                       /\ DOMAIN p.after[c] = {"name"} /\ p.after[c].name = names[c]
  BY DEF P!RenamePlan
<1>8. {"kind", "before", "after"} \subseteq DOMAIN p
  BY DEF P!RenamePlan
<1> HIDE DEF p
<1>2. ASSUME NEW c \in S
      PROVE  /\ c \in Category /\ book[c] # Null
             /\ \A f \in DOMAIN p.before[c] : p.before[c][f] = book[c][f]
             /\ DOMAIN p.before[c] = {"name"}
             /\ p.before[c] = [f \in DOMAIN p.before[c] |-> p.before[c][f]]
             /\ DOMAIN p.after[c] = {"name"} /\ p.after[c].name = names[c] /\ PartOf(c, p.after[c])
  <2>1. c \in Category /\ book[c] # Null /\ c \in P!Object
    BY <1>2, Tables DEF P!There
  <2>2. P!RowsOf(c) = P!CategoryRow /\ FieldsOf(c) = CategoryFields /\ "name" \in CategoryFields
    BY <2>1, Tables DEF FieldsOf, CategoryFields
  <2>3. book[c] \in P!CategoryRow
    BY <2>1, <2>2, RowIs DEF P!DataOK
  <2> DEFINE row == [book[c] EXCEPT !.name = names[c]]
  <2>4. row \in P!CategoryRow /\ row.name = names[c]
    BY <2>3 DEF P!CategoryRow
  <2>5. DOMAIN p.after[c] = {"name"} /\ p.after[c].name = names[c]
    BY <1>1, <1>2
  <2> HIDE DEF row
  <2>6. PartOf(c, p.after[c])
    BY <2>1, <2>2, <2>4, <2>5, OneField
  <2>7. p.before[c] = [f \in {"name"} |-> book[c][f]]
    BY <1>1 DEF P!Part
  <2> QED BY <2>1, <2>5, <2>6, <2>7
<1>3. "rename" \in PlanKind /\ TableOf("rename") = Category /\ Written("rename") = {"name"}
  BY DEF PlanKind, TableOf, Written
<1>4. \A c, d \in S : c # d => names[c] # names[d]
  BY DEF P!IsInjective
<1>5. Shape(p)
  <2>1. p.kind \in PlanKind /\ DOMAIN p.after \subseteq TableOf(p.kind) /\ DOMAIN p.before = DOMAIN p.after
    BY <1>1, <1>2, <1>3
  <2>2. \A c \in S : Written(p.kind) \subseteq DOMAIN p.after[c] \cup {"notes"} /\ DOMAIN p.after[c] \subseteq Written(p.kind)
    BY <1>1, <1>2, <1>3
  <2>3. \A c \in S : DOMAIN p.after[c] \subseteq DOMAIN p.before[c]
    BY <1>1, <1>2, <1>3
  <2>4. \A c \in S : p.before[c] = [f \in DOMAIN p.before[c] |-> p.before[c][f]]
    BY <1>1, <1>2, <1>3
  <2>5. \A c \in S : PartOf(c, p.after[c])
    BY <1>1, <1>2, <1>3
  <2>6. ASSUME NEW c \in S, NEW d \in S, c # d PROVE p.after[c].name # p.after[d].name
    <3>1. p.after[c].name = names[c] /\ p.after[d].name = names[d] /\ names[c] # names[d]
      BY <1>1, <1>4, <2>6
    <3> QED BY <3>1
  <2> QED BY <1>1, <2>1, <2>2, <2>3, <2>4, <2>5, <2>6 DEF Shape
<1>6. SeenAs(p, book)
  BY <1>1, <1>2 DEF SeenAs
<1>7. Sound(p, book)
  <2>1. \A c \in S : FreeIn(book, p.after[c].name, c)
    BY <1>2, FreeIs
  <2>2. \A c \in S : "name" \in FieldsOf(c)
    BY <1>2, Tables DEF FieldsOf, CategoryFields
  <2>3. Filled(p)
    <3>1. \A c \in S : DOMAIN p.before[c] = {"name"}
      BY <1>2
    <3>2. DOMAIN p.after = S /\ p.kind # "allocate"
      BY <1>1
    <3>3. \A o \in DOMAIN p.after : DOMAIN p.before[o] \subseteq FieldsOf(o)
      BY <2>2, <3>1, <3>2
    <3> QED BY <1>8, <3>2, <3>3 DEF Filled
  <2> QED BY <1>1, <2>1, <2>3 DEF Sound
<1> QED BY <1>5, <1>6, <1>7 DEF Ready, p

LEMMA EndReady ==
  ASSUME P!DataOK(book), NEW S \in SUBSET P!There(Rule), S # {}, NEW day \in P!Day
  PROVE  Ready(P!EndPlan(S, day))
<1> DEFINE p == P!EndPlan(S, day)
<1>1. /\ p.kind = "end" /\ DOMAIN p.before = S /\ DOMAIN p.after = S
      /\ \A r \in S : /\ p.before[r] = P!Part(r, {"ends"})
                       /\ DOMAIN p.after[r] = {"ends"} /\ p.after[r].ends = day
  BY DEF P!EndPlan
<1>7. {"kind", "before", "after"} \subseteq DOMAIN p
  BY DEF P!EndPlan
<1> HIDE DEF p
<1>2. ASSUME NEW r \in S
      PROVE  /\ r \in Rule /\ book[r] # Null
             /\ DOMAIN p.before[r] = {"ends"} /\ DOMAIN p.after[r] = {"ends"}
             /\ p.before[r] = [f \in DOMAIN p.before[r] |-> p.before[r][f]]
             /\ \A f \in DOMAIN p.before[r] : p.before[r][f] = book[r][f]
             /\ PartOf(r, p.after[r])
  <2>1. r \in Rule /\ book[r] # Null /\ r \in P!Object
    BY <1>2, Tables DEF P!There
  <2>2. P!RowsOf(r) = P!RuleRow /\ FieldsOf(r) = RuleFields /\ "ends" \in RuleFields
    BY <2>1, Tables DEF FieldsOf, RuleFields
  <2>3. book[r] \in P!RuleRow
    BY <2>1, <2>2, RowIs DEF P!DataOK
  <2> DEFINE row == [book[r] EXCEPT !.ends = day]
  <2>4. row \in P!RuleRow /\ row.ends = day
    BY <2>3 DEF P!RuleRow
  <2>5. DOMAIN p.after[r] = {"ends"} /\ p.after[r].ends = day
    BY <1>1
  <2> HIDE DEF row
  <2>6. PartOf(r, p.after[r])
    BY <2>1, <2>2, <2>4, <2>5, OneField
  <2>7. p.before[r] = [f \in {"ends"} |-> book[r][f]]
    BY <1>1 DEF P!Part
  <2> QED BY <2>1, <2>5, <2>6, <2>7
<1>3. "end" \in PlanKind /\ TableOf("end") = Rule /\ Written("end") = {"ends"}
  BY DEF PlanKind, TableOf, Written
<1>4. Shape(p)
  <2>1. p.kind \in PlanKind /\ DOMAIN p.after \subseteq TableOf(p.kind) /\ DOMAIN p.before = DOMAIN p.after
    BY <1>1, <1>2, <1>3
  <2>2. \A r \in S : Written(p.kind) \subseteq DOMAIN p.after[r] \cup {"notes"} /\ DOMAIN p.after[r] \subseteq Written(p.kind)
    BY <1>1, <1>2, <1>3
  <2>3. \A r \in S : DOMAIN p.after[r] \subseteq DOMAIN p.before[r]
    BY <1>1, <1>2, <1>3
  <2>4. \A r \in S : p.before[r] = [f \in DOMAIN p.before[r] |-> p.before[r][f]]
    BY <1>1, <1>2, <1>3
  <2>5. \A r \in S : PartOf(r, p.after[r])
    BY <1>1, <1>2, <1>3
  <2>6. p.kind # "rename"
    BY <1>1
  <2> QED BY <1>1, <2>1, <2>2, <2>3, <2>4, <2>5, <2>6 DEF Shape
<1>5. SeenAs(p, book)
  BY <1>1, <1>2 DEF SeenAs
<1>8. \A r \in S : "ends" \in FieldsOf(r)
  BY <1>2, Tables DEF FieldsOf, RuleFields
<1>9. Filled(p)
  <2>1. \A r \in S : DOMAIN p.before[r] = {"ends"}
    BY <1>2
  <2>2. DOMAIN p.after = S /\ p.kind # "allocate"
    BY <1>1
  <2>3. \A o \in DOMAIN p.after : DOMAIN p.before[o] \subseteq FieldsOf(o)
    BY <1>8, <2>1, <2>2
  <2> QED BY <1>7, <2>2, <2>3 DEF Filled
<1>6. Sound(p, book)
  BY <1>1, <1>9 DEF Sound
<1> QED BY <1>4, <1>5, <1>6 DEF Ready, p

LEMMA EditRow ==
  ASSUME P!DataOK(book), NEW t \in P!Live, NEW e \in Change, NEW fields,
         fields = IF P!NotesChange(t, e) THEN P!Onto(P!Edited(t, e), [notes |-> e.notes]) ELSE P!Edited(t, e),
         e.category # Unsaid => book[e.category] # Null /\ ~book[e.category].archived
  PROVE  /\ DOMAIN fields = {"category", "tags", "title"} \cup IF P!NotesChange(t, e) THEN {"notes"} ELSE {}
         /\ PartOf(t, fields)
         /\ fields.category # book[t].category => ~book[fields.category].archived
<1>1. t \in Txn /\ t \in P!Object /\ P!RowsOf(t) = P!TxnRow /\ book[t] # Null /\ book[t] \in P!TxnRow
  BY LiveIs, TxnIs, Tables DEF P!DataOK
<1>2. /\ e.category \in Category \cup {Unsaid} /\ e.add \in SUBSET Tag
      /\ e.title \in Title \cup {Unsaid} /\ e.notes \in Note \cup {Unsaid}
  BY PlansFit DEF P!PlansAssumption
<1> DEFINE E == P!Edited(t, e)
           noted == [notes |-> e.notes]
           row == [book[t] EXCEPT !.category = E.category, !.tags = E.tags, !.title = E.title,
                                  !.notes = IF P!NotesChange(t, e) THEN e.notes ELSE book[t].notes]
<1>3. /\ DOMAIN E = {"category", "tags", "title"}
      /\ E.category = (IF e.category = Unsaid THEN book[t].category ELSE e.category)
      /\ E.tags = (book[t].tags \ e.remove) \cup e.add
      /\ E.title = (IF e.title = Unsaid THEN book[t].title ELSE e.title)
  BY DEF P!Edited
<1>4. DOMAIN noted = {"notes"} /\ noted["notes"] = e.notes
  OBVIOUS
<1>5. /\ book[t].category \in Category /\ book[t].tags \in SUBSET Tag /\ book[t].title \in Title
      /\ book[t].notes \in Note
  BY <1>1, TxnFacts
<1>6. P!NotesChange(t, e) => e.notes \in Note
  BY <1>2 DEF P!NotesChange
<1>7. E.category \in Category /\ E.tags \in SUBSET Tag /\ E.title \in Title
  BY <1>2, <1>3, <1>5
<1> HIDE DEF E, noted
<1>8. /\ row \in P!TxnRow /\ row.category = E.category /\ row.tags = E.tags /\ row.title = E.title
      /\ row.notes = IF P!NotesChange(t, e) THEN e.notes ELSE book[t].notes
  BY <1>1, <1>5, <1>6, <1>7 DEF P!TxnRow
<1>9. fields = IF P!NotesChange(t, e) THEN P!Onto(E, noted) ELSE E
  BY DEF E, noted
<1>10. /\ DOMAIN fields = {"category", "tags", "title"} \cup IF P!NotesChange(t, e) THEN {"notes"} ELSE {}
       /\ fields["category"] = E.category /\ fields["tags"] = E.tags /\ fields["title"] = E.title
       /\ P!NotesChange(t, e) => fields["notes"] = e.notes
  <2>1. CASE P!NotesChange(t, e)
    <3>1. /\ DOMAIN fields = DOMAIN noted \cup DOMAIN E
          /\ \A f \in DOMAIN fields : fields[f] = IF f \in DOMAIN noted THEN noted[f] ELSE E[f]
      BY <1>9, <2>1 DEF P!Onto
    <3> QED BY <1>3, <1>4, <2>1, <3>1
  <2>2. CASE ~P!NotesChange(t, e)
    BY <1>3, <1>9, <2>2
  <2> QED BY <2>1, <2>2
<1> HIDE DEF row
<1>11. \A f \in DOMAIN fields : fields[f] = row[f]
  <2>1. CASE P!NotesChange(t, e)
    BY <1>8, <1>10, <2>1
  <2>2. CASE ~P!NotesChange(t, e)
    BY <1>8, <1>10, <2>2
  <2> QED BY <2>1, <2>2
<1>12. PartOf(t, fields)
  <2>1. DOMAIN row = TxnFields /\ DOMAIN fields \subseteq TxnFields
    BY <1>8, <1>10, TxnFacts DEF TxnFields
  <2> QED BY <1>1, <1>8, <1>11, <2>1 DEF PartOf
<1>13. fields.category # book[t].category => ~book[fields.category].archived
  BY <1>3, <1>10 DEF E
<1> QED BY <1>10, <1>12, <1>13

LEMMA EditReady ==
  ASSUME P!DataOK(book), NEW S \in SUBSET P!Live, NEW e \in Change,
         e.category # Unsaid => book[e.category] # Null /\ ~book[e.category].archived,
         DOMAIN P!EditPlan(S, e).after # {}
  PROVE  Ready(P!EditPlan(S, e))
<1> DEFINE T == {t \in S : P!Edited(t, e) # P!Classified(t) \/ P!NotesChange(t, e)}
           p == P!EditPlan(S, e)
           extra(t) == IF P!NotesChange(t, e) THEN {"notes"} ELSE {}
           checked(t) == {"cents", "category", "tags", "title"} \cup extra(t)
<1>1. /\ p.kind = "edit" /\ DOMAIN p.before = T /\ DOMAIN p.after = T
      /\ \A t \in T : /\ p.before[t] = P!Part(t, checked(t))
                      /\ p.after[t] = IF P!NotesChange(t, e) THEN P!Onto(P!Edited(t, e), [notes |-> e.notes])
                                      ELSE P!Edited(t, e)
  BY DEF P!EditPlan
<1>8. {"kind", "before", "after"} \subseteq DOMAIN p
  BY DEF P!EditPlan
<1>2. T \subseteq P!Live /\ T # {}
  BY <1>1
<1> HIDE DEF p, T
<1>3. ASSUME NEW t \in T
      PROVE  /\ DOMAIN p.before[t] = checked(t)
             /\ p.before[t] = [f \in DOMAIN p.before[t] |-> p.before[t][f]]
             /\ \A f \in DOMAIN p.before[t] : p.before[t][f] = book[t][f]
             /\ DOMAIN p.after[t] = {"category", "tags", "title"} \cup extra(t)
             /\ PartOf(t, p.after[t])
             /\ p.after[t].category # book[t].category => ~book[p.after[t].category].archived
  <2>1. PICK was : was = p.before[t]
    OBVIOUS
  <2>2. PICK checks : checks = checked(t)
    OBVIOUS
  <2>3. was = P!Part(t, checks)
    BY <1>1, <1>3, <2>1, <2>2
  <2>4. was = [f \in checks |-> book[t][f]]
    BY <2>3 DEF P!Part
  <2>5. DOMAIN was = checks /\ was = [f \in DOMAIN was |-> was[f]] /\ \A f \in DOMAIN was : was[f] = book[t][f]
    BY <2>4
  <2>6. PICK fields : fields = p.after[t]
    OBVIOUS
  <2>7. fields = IF P!NotesChange(t, e) THEN P!Onto(P!Edited(t, e), [notes |-> e.notes]) ELSE P!Edited(t, e)
    BY <1>1, <1>3, <2>6
  <2>8. t \in P!Live
    BY <1>2, <1>3
  <2>9. /\ DOMAIN fields = {"category", "tags", "title"} \cup extra(t)
        /\ PartOf(t, fields)
        /\ fields.category # book[t].category => ~book[fields.category].archived
    BY <2>7, <2>8, EditRow
  <2> QED BY <2>1, <2>2, <2>5, <2>6, <2>9
<1>4. "edit" \in PlanKind /\ TableOf("edit") = Txn /\ Written("edit") = {"category", "tags", "title", "notes"}
  BY DEF PlanKind, TableOf, Written
<1>5. Shape(p)
  <2>1. p.kind \in PlanKind /\ DOMAIN p.after \subseteq TableOf(p.kind) /\ DOMAIN p.before = DOMAIN p.after
    BY <1>1, <1>2, <1>4, LiveIs
  <2>2. ASSUME NEW t \in T
        PROVE  /\ Written(p.kind) \subseteq DOMAIN p.after[t] \cup {"notes"}
               /\ DOMAIN p.after[t] \subseteq Written(p.kind)
    <3>1. DOMAIN p.after[t] = {"category", "tags", "title"} \cup extra(t)
      BY <1>3, <2>2
    <3>2. Written(p.kind) = {"category", "tags", "title", "notes"}
      BY <1>1, <1>4
    <3> QED BY <3>1, <3>2
  <2>3. \A t \in T : DOMAIN p.after[t] \subseteq DOMAIN p.before[t]
    BY <1>3
  <2>4. \A t \in T : p.before[t] = [f \in DOMAIN p.before[t] |-> p.before[t][f]]
    BY <1>3
  <2>5. \A t \in T : PartOf(t, p.after[t])
    BY <1>3
  <2>6. p.kind # "rename"
    BY <1>1
  <2> QED BY <1>1, <2>1, <2>2, <2>3, <2>4, <2>5, <2>6 DEF Shape
<1>6. SeenAs(p, book)
  <2>1. \A t \in T : book[t] # Null /\ \A f \in DOMAIN p.before[t] : p.before[t][f] = book[t][f]
    BY <1>2, <1>3, LiveIs
  <2> QED BY <1>1, <2>1 DEF SeenAs
<1>7. Sound(p, book)
  <2>1. \A t \in T : book[t].live /\ (p.after[t].category # book[t].category => ~book[p.after[t].category].archived)
    BY <1>2, <1>3, LiveIs
  <2>2. \A t \in T : FieldsOf(t) = TxnFields /\ checked(t) \subseteq TxnFields
    BY <1>2, LiveIs DEF FieldsOf, TxnFields
  <2>3. Filled(p)
    <3>1. \A t \in T : DOMAIN p.before[t] = checked(t)
      BY <1>3
    <3>2. DOMAIN p.after = T /\ p.kind # "allocate"
      BY <1>1
    <3>3. \A o \in DOMAIN p.after : DOMAIN p.before[o] \subseteq FieldsOf(o)
      BY <2>2, <3>1, <3>2
    <3> QED BY <1>8, <3>2, <3>3 DEF Filled
  <2> QED BY <1>1, <1>2, <2>1, <2>3 DEF Sound
<1> QED BY <1>5, <1>6, <1>7 DEF Ready, p

LEMMA MinOfTwo ==
  ASSUME NEW x \in Int, NEW y \in Int
  PROVE  P!Min({x, y}) \in Int /\ P!Min({x, y}) <= x /\ P!Min({x, y}) <= y
<1>1. \E m \in {x, y} : \A z \in {x, y} : m <= z
  BY x <= y \/ y <= x
<1> QED BY <1>1 DEF P!Min

LEMMA MaxOfTwo ==
  ASSUME NEW x \in Int, NEW y \in Int
  PROVE  P!Max({x, y}) \in Int
<1>1. \E m \in {x, y} : \A z \in {x, y} : m >= z
  BY x <= y \/ y <= x
<1> QED BY <1>1 DEF P!Max

LEMMA SpentIs ==
  ASSUME NEW data, P!RowsOK(data)
  PROVE  P!Spent(data) \in Nat /\ P!Spent(data) = P!Allotted(data, LiveExpense(data))
BY AllottedIs DEF P!Spent, LiveExpense

LEMMA SpentSame ==
  ASSUME NEW data, P!RowsOK(data), NEW new, P!RowsOK(new), LiveExpense(data) = LiveExpense(new),
         \A e \in LiveExpense(data) : data[e].share = new[e].share
  PROVE  P!Spent(data) = P!Spent(new)
<1>1. \A e \in LiveExpense(data) : data[e].share \in Nat /\ new[e].share \in Nat
  BY ShareIs DEF LiveExpense
<1>2. P!Spent(data) <= P!Spent(new) /\ P!Spent(data) \in Int /\ P!Spent(new) \in Int
  BY <1>1, SpentLess
<1>3. P!Spent(new) <= P!Spent(data)
  BY <1>1, SpentLess
<1> QED BY <1>2, <1>3

\* An allocation splits no more than is left of each expense.
LEMMA SplitIs ==
  ASSUME P!DataOK(book), NEW S \in SUBSET (P!Live \cap P!Expense), NEW a \in P!Splits(S)
  PROVE  DOMAIN a = S /\ \A e \in S : a[e] \in Int /\ a[e] <= P!Remaining(e)
<1>1. \A e \in S : book[e].cents \in Nat /\ P!Remaining(e) \in Int
  BY LiveIs, ShareIs DEF P!Remaining, P!DataOK
<1>2. ASSUME NEW percent \in Percent, a = P!ShareSplit(S, percent)
      PROVE  DOMAIN a = S /\ \A e \in S : a[e] \in Int /\ a[e] <= P!Remaining(e)
  <2>1. percent \in Int
    BY PlansFit DEF P!PlansAssumption
  <2>2. \A e \in S : P!HalfUp(book[e].cents, percent) \in Int
    BY <1>1, <2>1 DEF P!HalfUp
  <2>3. DOMAIN a = S /\ \A e \in S : a[e] = P!Min({P!Remaining(e), P!HalfUp(book[e].cents, percent)})
    BY <1>2 DEF P!ShareSplit
  <2> QED BY <1>1, <2>2, <2>3, MinOfTwo
<1>3. ASSUME a = P!EvenSplit(S)
      PROVE  DOMAIN a = S /\ \A e \in S : a[e] \in Int /\ a[e] <= P!Remaining(e)
  <2> DEFINE rest == P!Max({0, P!Available(S)})
             n == Cardinality(S)
             piece(e) == (rest \div n) + (IF P!Place(e, S) < rest % n THEN 1 ELSE 0)
  <2>1. IsFiniteSet(S) /\ S \in SUBSET P!Expense /\ \A e \in S : book[e] # Null
    BY PaidIs, FS_Subset, LiveIs
  <2>2. P!Available(S) \in Int
    <3>1. P!Allotted(book, S) \in Nat /\ P!Spent(book) \in Nat /\ book[Paid].cents \in Nat
      BY <2>1, AllottedIs, SpentIs, PaidRow DEF P!DataOK
    <3> QED BY <3>1 DEF P!Available
  <2>3. rest \in Int
    BY <2>2, MaxOfTwo
  <2>4. DOMAIN a = S /\ \A e \in S : a[e] = P!Min({P!Remaining(e), piece(e)})
    BY <1>3, SameOperators DEF P!EvenSplit
  <2>5. S # {} => n \in Nat /\ n > 0
    BY <2>1, FS_CardinalityType, FS_EmptySet
  <2> HIDE DEF rest, n
  <2>6. S # {} => rest \div n \in Int
    BY <2>3, <2>5
  <2>7. \A e \in S : piece(e) \in Int
    BY <2>6
  <2> HIDE DEF piece
  <2> QED BY <1>1, <2>4, <2>7, MinOfTwo
<1>4. ASSUME a \in [S -> P!Cents], \A e \in S : a[e] <= P!Remaining(e)
      PROVE  DOMAIN a = S /\ \A e \in S : a[e] \in Int /\ a[e] <= P!Remaining(e)
  BY <1>4, PlansFit DEF P!PlansAssumption, P!Cents
<1> QED BY <1>2, <1>3, <1>4 DEF P!Splits

\* What is spent once some live expenses are given other shares.
LEMMA SpentWith ==
  ASSUME NEW data, P!RowsOK(data), NEW S \in SUBSET LiveExpense(data),
         NEW a, DOMAIN a = S, \A e \in S : a[e] \in Nat,
         NEW new, P!RowsOK(new), LiveExpense(new) = LiveExpense(data),
         \A e \in LiveExpense(data) : new[e].share = IF e \in S THEN a[e] ELSE data[e].share
  PROVE  P!Spent(new) = P!Spent(data) - P!Allotted(data, S) + SumFunction(a) /\ SumFunction(a) \in Int
<1> DEFINE L == LiveExpense(data)
           R == L \ S
           f == [e \in L |-> data[e].share]
           g == [e \in L |-> new[e].share]
           fs == [e \in S |-> data[e].share]
           fr == [e \in R |-> data[e].share]
<1>1. IsFiniteSet(L) /\ IsFiniteSet(S)
  BY PaidIs, FS_Subset DEF LiveExpense
<1>2. \A e \in L : data[e].share \in Nat /\ new[e].share \in Nat
  BY ShareIs DEF LiveExpense
<1>3. P!Spent(data) = SumFunction(f) /\ P!Spent(new) = SumFunction(g) /\ P!Allotted(data, S) = SumFunction(fs)
  BY SharesOf DEF P!Spent, LiveExpense
<1>4. f \in [L -> Int] /\ g \in [L -> Int] /\ fs \in [S -> Int]
  BY <1>2
<1>5. /\ DOMAIN fs = S /\ DOMAIN fr = R
      /\ \A e \in S : fs[e] = f[e] /\ a[e] = g[e]
      /\ \A e \in R : fr[e] = f[e] /\ fr[e] = g[e]
  OBVIOUS
<1>6. \A e \in L : e \in S <=> e \notin R
  OBVIOUS
<1>7. S \subseteq L /\ R \subseteq L
  OBVIOUS
<1> HIDE DEF L, R, f, g, fs, fr
<1>8. Halves(L, f, fs, fr)
  BY <1>1, <1>4, <1>5, <1>6, <1>7 DEF Halves
<1>9. Halves(L, g, a, fr)
  BY <1>1, <1>4, <1>5, <1>6, <1>7 DEF Halves
<1>10. SumFunction(f) = SumFunction(fs) + SumFunction(fr) /\ SumFunction(g) = SumFunction(a) + SumFunction(fr)
  BY <1>8, <1>9, SumSplit
<1>11. SumFunction(f) \in Int /\ SumFunction(fs) \in Int /\ SumFunction(a) \in Nat /\ SumFunction(fr) \in Int
  <2>1. SumFunction(f) \in Int /\ SumFunction(fs) \in Int
    BY <1>1, <1>4, SumType
  <2>2. SumFunction(a) \in Nat
    <3> DEFINE b == [e \in S |-> a[e]]
    <3>1. b \in [S -> Nat] /\ DOMAIN a = S /\ \A e \in S : a[e] = b[e]
      OBVIOUS
    <3> HIDE DEF b
    <3> QED BY <1>1, <3>1, SumOfPart
  <2>3. SumFunction(fr) \in Nat
    <3> DEFINE b == [e \in L |-> data[e].share]
    <3>1. b \in [L -> Nat] /\ \A e \in R : fr[e] = b[e]
      BY <1>2, <1>5, <1>7 DEF f, fr
    <3> HIDE DEF b
    <3> QED BY <1>1, <1>5, <1>7, <3>1, SumOfPart
  <2> QED BY <2>1, <2>2, <2>3
<1> QED BY <1>3, <1>10, <1>11

LEMMA AllocateReady ==
  ASSUME P!DataOK(book), Paid \in P!Live, NEW S \in SUBSET (P!Live \cap P!Expense), S # {},
         NEW a \in P!Splits(S), \A e \in S : a[e] > 0, SumFunction(a) <= P!Available(S)
  PROVE  Ready(P!AllocatePlan(a))
<1> DEFINE p == P!AllocatePlan(a)
<1>1. DOMAIN a = S /\ \A e \in S : a[e] \in Int /\ a[e] <= P!Remaining(e)
  BY SplitIs
<1>2. /\ p.kind = "allocate" /\ DOMAIN p.before = S /\ DOMAIN p.after = S
      /\ \A e \in S : /\ p.before[e] = P!Part(e, {"share"})
                      /\ DOMAIN p.after[e] = {"share"} /\ p.after[e].share = a[e]
      /\ p.mark = (IF book[Paid].marked THEN "keep" ELSE "set")
      /\ p.shown = P!ShownAmounts(S)
  BY <1>1 DEF P!AllocatePlan
<1>16. {"kind", "before", "after", "mark", "shown"} \subseteq DOMAIN p
  BY DEF P!AllocatePlan
<1>3. /\ p.shown.cents = book[Paid].cents
      /\ p.shown.allocated = [e \in {d \in P!Expense : book[d] # Null} |-> book[e].share]
      /\ DOMAIN p.shown.expenses = S
      /\ \A e \in S : p.shown.expenses[e] = book[e].cents
  BY <1>2 DEF P!ShownAmounts, P!There
<1> HIDE DEF p
<1>4. ASSUME NEW e \in S
      PROVE  /\ e \in P!Expense /\ e \in Txn /\ book[e] # Null /\ book[e].live
             /\ a[e] \in Nat /\ a[e] # 0 /\ a[e] \in P!Cents /\ a[e] + book[e].other <= book[e].cents
  <2>1. e \in P!Expense /\ e \in Txn /\ book[e] # Null /\ book[e].live
    BY <1>4, LiveIs
  <2>2. book[e].cents \in Nat /\ book[e].other \in Nat /\ book[e].cents \in P!Cents
    BY <2>1, ShareIs, TxnIs, TxnFacts DEF P!DataOK
  <2>3. a[e] \in Int /\ a[e] > 0 /\ a[e] <= book[e].cents - book[e].other
    BY <1>1, <1>4 DEF P!Remaining
  <2>4. MaxCents \in Nat
    BY PlansFit DEF P!PlansAssumption
  <2> QED BY <2>1, <2>2, <2>3, <2>4 DEF P!Cents
<1>5. ASSUME NEW e \in S
      PROVE  /\ DOMAIN p.before[e] = {"share"}
             /\ p.before[e] = [f \in DOMAIN p.before[e] |-> p.before[e][f]]
             /\ \A f \in DOMAIN p.before[e] : p.before[e][f] = book[e][f]
             /\ DOMAIN p.after[e] = {"share"} /\ p.after[e].share = a[e] /\ PartOf(e, p.after[e])
  <2>1. p.before[e] = [f \in {"share"} |-> book[e][f]]
    BY <1>2, <1>5 DEF P!Part
  <2>2. DOMAIN p.after[e] = {"share"} /\ p.after[e].share = a[e]
    BY <1>2, <1>5
  <2> DEFINE row == [book[e] EXCEPT !.share = a[e]]
  <2>3. book[e] \in P!TxnRow /\ e \in P!Object /\ P!RowsOf(e) = P!TxnRow /\ "share" \in FieldsOf(e)
    BY <1>4, <1>5, TxnIs, Tables DEF P!DataOK, FieldsOf, TxnFields
  <2>4. row \in P!TxnRow /\ row.share = a[e]
    BY <1>4, <1>5, <2>3 DEF P!TxnRow
  <2> HIDE DEF row
  <2>5. PartOf(e, p.after[e])
    BY <2>2, <2>3, <2>4, OneField
  <2> QED BY <2>1, <2>2, <2>5
<1>6. "allocate" \in PlanKind /\ TableOf("allocate") = P!Expense /\ Written("allocate") = {"share"}
  BY DEF PlanKind, TableOf, Written
<1>7. Shape(p)
  <2>1. p.kind \in PlanKind /\ DOMAIN p.after \subseteq TableOf(p.kind) /\ DOMAIN p.before = DOMAIN p.after
    BY <1>2, <1>4, <1>6
  <2>2. \A e \in S : Written(p.kind) \subseteq DOMAIN p.after[e] \cup {"notes"} /\ DOMAIN p.after[e] \subseteq Written(p.kind)
    BY <1>2, <1>5, <1>6
  <2>3. \A e \in S : DOMAIN p.after[e] \subseteq DOMAIN p.before[e]
    BY <1>5
  <2>4. \A e \in S : p.before[e] = [f \in DOMAIN p.before[e] |-> p.before[e][f]]
    BY <1>5
  <2>5. \A e \in S : PartOf(e, p.after[e])
    BY <1>5
  <2>6. p.kind # "rename"
    BY <1>2
  <2> QED BY <1>2, <2>1, <2>2, <2>3, <2>4, <2>5, <2>6 DEF Shape
<1>8. SeenAs(p, book)
  <2>1. \A e \in S : book[e] # Null /\ \A f \in DOMAIN p.before[e] : p.before[e][f] = book[e][f]
    BY <1>4, <1>5
  <2>2. (p.mark = "set" => ~book[Paid].marked) /\ p.mark # "clear"
    BY <1>2
  <2> QED BY <1>2, <2>1, <2>2 DEF SeenAs
<1> DEFINE new == P!Over(book, p.after)
<1>9. \A o \in DOMAIN p.after : o \in P!Object /\ book[o] # Null /\ PartOf(o, p.after[o])
  BY <1>2, <1>4, <1>5, Tables
<1>10. /\ P!RowsOK(new)
       /\ \A o \in P!Object :
            /\ new[o] = Null <=> book[o] = Null
            /\ book[o] # Null => \A f \in FieldsOf(o) :
                 new[o][f] = IF o \in DOMAIN p.after /\ f \in DOMAIN p.after[o] THEN p.after[o][f] ELSE book[o][f]
  BY <1>9, OverRows DEF P!DataOK
<1> HIDE DEF new
<1>11. ASSUME NEW e \in P!Expense, book[e] # Null
       PROVE  /\ new[e] # Null /\ new[e].live = book[e].live
              /\ new[e].share = IF e \in S THEN a[e] ELSE book[e].share
  <2>1. e \in P!Object /\ FieldsOf(e) = TxnFields /\ "live" \in TxnFields /\ "share" \in TxnFields
    BY PaidIs DEF FieldsOf, TxnFields
  <2>2. new[e] # Null
    BY <1>10, <1>11, <2>1
  <2>3. new[e].live = IF e \in DOMAIN p.after /\ "live" \in DOMAIN p.after[e] THEN p.after[e].live ELSE book[e].live
    BY <1>10, <1>11, <2>1
  <2>4. new[e].share = IF e \in DOMAIN p.after /\ "share" \in DOMAIN p.after[e] THEN p.after[e].share ELSE book[e].share
    BY <1>10, <1>11, <2>1
  <2>5. e \in S => DOMAIN p.after[e] = {"share"} /\ p.after[e].share = a[e]
    BY <1>5
  <2> QED BY <1>2, <2>2, <2>3, <2>4, <2>5
<1>12. LiveExpense(new) = LiveExpense(book)
  <2>1. \A e \in P!Expense : new[e] = Null <=> book[e] = Null
    BY <1>10, PaidIs
  <2> QED BY <1>11, <2>1 DEF LiveExpense
<1>13. P!Spent(new) <= book[Paid].cents
  <2>1. S \subseteq LiveExpense(book)
    BY <1>4 DEF LiveExpense
  <2>2. \A e \in LiveExpense(book) : new[e].share = IF e \in S THEN a[e] ELSE book[e].share
    BY <1>11 DEF LiveExpense
  <2>3. P!Spent(new) = P!Spent(book) - P!Allotted(book, S) + SumFunction(a) /\ SumFunction(a) \in Int
    BY <1>1, <1>4, <1>10, <1>12, <2>1, <2>2, SpentWith DEF P!DataOK
  <2>4. P!Allotted(book, S) \in Nat /\ P!Spent(book) \in Nat /\ book[Paid].cents \in Nat
    BY <1>4, AllottedIs, SpentIs, PaidRow DEF P!DataOK
  <2> QED BY <2>3, <2>4 DEF P!Available
<1>14. book[Paid].live
  BY LiveIs
<1>15. Sound(p, book)
  <2>1. \A e \in S : /\ book[e].live /\ p.after[e].share # 0
                     /\ p.after[e].share + book[e].other <= book[e].cents
    BY <1>4, <1>5
  <2>2. \A e \in DOMAIN p.shown.expenses : e \in DOMAIN p.after /\ p.shown.expenses[e] = book[e].cents
    BY <1>2, <1>3
  <2>3. p.kind \notin {"edit", "rename", "archive", "restore"} /\ DOMAIN p.after = S
    BY <1>2
  <2>4. \A e \in S : "share" \in FieldsOf(e)
    BY <1>4 DEF FieldsOf, TxnFields
  <2>5. Filled(p)
    <3>1. \A e \in S : DOMAIN p.before[e] = {"share"}
      BY <1>5
    <3>2. DOMAIN p.after = S
      BY <1>2
    <3>3. \A o \in DOMAIN p.after : DOMAIN p.before[o] \subseteq FieldsOf(o)
      BY <2>4, <3>1, <3>2
    <3> QED BY <1>16, <3>3 DEF Filled
  <2> QED BY <2>5, <1>2, <1>3, <1>13, <1>14, <2>1, <2>2, <2>3 DEF Sound, new
<1> QED BY <1>7, <1>8, <1>15 DEF Ready, p

\* What is proposed.
Suits(p) ==
  IF p.kind = "create" THEN \E o \in P!Object : Creates(p, o, book) /\ P!Unplanned(o)
  ELSE IF p.kind = "undo" THEN Shape(p.plan) /\ SeenAs(p.plan, book)
  ELSE Ready(p)

LEMMA CreatesIs ==
  ASSUME NEW p, NEW o, NEW data, Creates(p, o, data)
  PROVE  /\ p.kind = "create" /\ DOMAIN p.after = {o} /\ p.after[o] \in P!RowsOf(o)
         /\ o \in Spare /\ data[o] = Null
         /\ o \in Txn => p.after[o].live /\ p.after[o].share = 0 /\ p.after[o].other = 0
         /\ o \in Category => ~p.after[o].archived /\ FreeIn(data, p.after[o].name, o)
BY DEF Creates, P!CreatePlan

LEMMA CreateSuits ==
  ASSUME NEW o \in P!Object, NEW row \in P!RowsOf(o), o \in Spare, P!Unplanned(o),
         o \in Txn => row.live /\ row.share = 0 /\ row.other = 0,
         o \in Category => ~row.archived /\ FreeIn(book, row.name, o),
         NEW rows, rows = [x \in {o} |-> row]
  PROVE  Suits(P!CreatePlan(rows))
<1>1. Creates(P!CreatePlan(rows), o, book)
  BY DEF Creates, P!Unplanned
<1>2. P!CreatePlan(rows).kind = "create"
  BY DEF P!CreatePlan
<1> QED BY <1>1, <1>2 DEF Suits

LEMMA ReadySuits ==
  ASSUME NEW p, Ready(p)
  PROVE  Suits(p)
<1>1. p.kind # "create" /\ p.kind # "undo"
  BY DEF Ready, Shape, PlanKind
<1> QED BY <1>1 DEF Suits

LEMMA ProposeAnySuits ==
  ASSUME P!DataOK(book), P!ProposeAny
  PROVE  \E p : Suits(p) /\ P!Propose(p)
<1>1. CASE P!ProposeEdit
  <2>1. PICK S \in SUBSET P!Live, e \in Change :
          /\ e.category # Unsaid => book[e.category] # Null /\ ~book[e.category].archived
          /\ DOMAIN P!EditPlan(S, e).after # {} /\ P!Propose(P!EditPlan(S, e))
    BY <1>1 DEF P!ProposeEdit
  <2> QED BY <2>1, EditReady, ReadySuits
<1>2. CASE P!ProposeTrash
  <2>1. PICK S \in (SUBSET P!Live) \ {{}} : P!Propose(P!Removal(S))
    BY <1>2, Zenon DEF P!ProposeTrash
  <2>2. S \in SUBSET P!Live /\ S # {}
    BY <2>1
  <2>3. Suits(P!Removal(S))
    BY <2>2, TrashReady, ReadySuits
  <2> QED BY <2>1, <2>3
<1>3. CASE P!ProposeCreate
  <2>1. PICK t \in Spare \cap Txn, title \in Title, cents \in P!Cents \ {0}, tags \in SUBSET Tag, c \in P!There(Category) :
          P!Unplanned(t) /\ P!Propose(P!CreatePlan([o \in {t} |-> P!NewRow(title, cents, c, tags)]))
    BY <1>3 DEF P!ProposeCreate
  <2> DEFINE row == P!NewRow(title, cents, c, tags)
             rows == [o \in {t} |-> row]
  <2>2. row \in P!TxnRow /\ row.live = TRUE /\ row.share = 0 /\ row.other = 0
    <3>1. 0 \in P!Cents /\ c \in Category /\ NoNotes \in Note
      BY PlansFit DEF P!PlansAssumption, P!Cents, P!There
    <3> QED BY <3>1 DEF P!NewRow, P!TxnRow
  <2> HIDE DEF row
  <2>3. t \in P!Object /\ t \in Txn /\ t \in Spare /\ t \notin Category /\ row \in P!RowsOf(t)
    BY <2>2, Tables
  <2>4. rows = [x \in {t} |-> row]
    OBVIOUS
  <2> HIDE DEF rows
  <2>5. Suits(P!CreatePlan(rows))
    BY <2>1, <2>2, <2>3, <2>4, CreateSuits
  <2> QED BY <2>1, <2>5 DEF rows, row
<1>4. CASE P!ProposeArchive
  <2>1. PICK S \in (SUBSET P!There(Category \cup Tag)) \ {{}} :
          /\ Uncategorized \notin S /\ \A o \in S : ~book[o].archived
          /\ P!Propose(P!FlagPlan(S, TRUE))
    BY <1>4, Zenon DEF P!ProposeArchive
  <2>2. S \in SUBSET P!There(Category \cup Tag) /\ S # {}
    BY <2>1
  <2>3. Suits(P!FlagPlan(S, TRUE))
    BY <2>1, <2>2, ArchiveReady, ReadySuits
  <2> QED BY <2>1, <2>3
<1>5. CASE P!ProposeCreateCategories
  <2>1. PICK c \in Spare \cap Category, name \in Name :
          P!Unplanned(c) /\ P!NameFree(name, c) /\ P!Propose(P!CreatePlan([o \in {c} |-> [name |-> name, archived |-> FALSE]]))
    BY <1>5 DEF P!ProposeCreateCategories
  <2> DEFINE row == [name |-> name, archived |-> FALSE]
             rows == [o \in {c} |-> row]
  <2>2. row \in P!CategoryRow /\ row.name = name /\ row.archived = FALSE
    BY DEF P!CategoryRow
  <2> HIDE DEF row
  <2>3. c \in P!Object /\ c \in Category /\ c \in Spare /\ c \notin Txn /\ row \in P!RowsOf(c)
    BY <2>2, Tables
  <2>4. rows = [x \in {c} |-> row]
    OBVIOUS
  <2>5. FreeIn(book, row.name, c)
    BY <2>1, <2>2, FreeIs
  <2> HIDE DEF rows
  <2>6. Suits(P!CreatePlan(rows))
    BY <2>1, <2>2, <2>3, <2>4, <2>5, CreateSuits
  <2> QED BY <2>1, <2>6 DEF rows, row
<1>6. CASE P!ProposeRename
  <2>1. PICK S \in (SUBSET (P!There(Category) \ {Uncategorized})) \ {{}} : \E names \in [S -> Name] :
          /\ \A c \in S : names[c] # book[c].name /\ P!NameFree(names[c], c)
          /\ P!IsInjective(names)
          /\ P!Propose(P!RenamePlan(names))
    BY <1>6, Zenon DEF P!ProposeRename
  <2>2. PICK names \in [S -> Name] :
          /\ \A c \in S : names[c] # book[c].name /\ P!NameFree(names[c], c)
          /\ P!IsInjective(names)
          /\ P!Propose(P!RenamePlan(names))
    BY <2>1, Zenon
  <2>3. S \in SUBSET P!There(Category) /\ S # {}
    BY <2>1
  <2>4. Suits(P!RenamePlan(names))
    BY <2>2, <2>3, RenameReady, ReadySuits
  <2> QED BY <2>2, <2>4
<1>7. CASE P!ProposeEnd
  <2>1. PICK S \in (SUBSET P!There(Rule)) \ {{}}, day \in P!Day :
          /\ \A r \in S : day >= book[r].anchor /\ book[r].ends # day
          /\ P!Propose(P!EndPlan(S, day))
    BY <1>7, Zenon DEF P!ProposeEnd
  <2>2. S \in SUBSET P!There(Rule) /\ S # {}
    BY <2>1
  <2>3. Suits(P!EndPlan(S, day))
    BY <2>2, EndReady, ReadySuits
  <2> QED BY <2>1, <2>3
<1>8. CASE P!ProposeAllocate
  <2>1. Paid \in P!Live
    BY <1>8 DEF P!ProposeAllocate
  <2>2. PICK S \in (SUBSET (P!Live \cap P!Expense)) \ {{}} : \E a \in P!Splits(S) :
          /\ \A e \in S : a[e] > 0
          /\ P!SumFunction(a) <= P!Available(S)
          /\ P!Propose(P!AllocatePlan(a))
    BY <1>8, Zenon DEF P!ProposeAllocate
  <2>3. PICK a \in P!Splits(S) :
          /\ \A e \in S : a[e] > 0
          /\ P!SumFunction(a) <= P!Available(S)
          /\ P!Propose(P!AllocatePlan(a))
    BY <2>2, Zenon
  <2>4. S \in SUBSET (P!Live \cap P!Expense) /\ S # {}
    BY <2>2
  <2>5. Suits(P!AllocatePlan(a))
    BY <2>1, <2>3, <2>4, SameOperators, AllocateReady, ReadySuits
  <2> QED BY <2>3, <2>5
<1> QED BY <1>1, <1>2, <1>3, <1>4, <1>5, <1>6, <1>7, <1>8 DEF P!ProposeAny

LEMMA ProposeKeeps ==
  ASSUME PlansInv, NEW p, Suits(p), P!Propose(p)
  PROVE  PlansInv'
<1>1. PICK k \in Card :
        /\ cards[k].status = "none"
        /\ cards' = [cards EXCEPT ![k].status = "pending", ![k].plan = p, ![k].seen = book]
        /\ UNCHANGED <<book, touches>>
  BY DEF P!Propose
<1>2. DOMAIN cards = Card /\ DOMAIN cards[k] = CardFields /\ P!DataOK(book)
  BY DEF PlansInv, CardOK
<1> DEFINE c == [cards[k] EXCEPT !.status = "pending", !.plan = p, !.seen = book]
<1>3. /\ DOMAIN cards' = Card /\ cards'[k] = c /\ \A j \in Card : j # k => cards'[j] = cards[j]
  BY <1>1, <1>2
<1>4. DOMAIN c = CardFields /\ c.status = "pending" /\ c.plan = p /\ c.seen = book
  BY <1>2 DEF CardFields
<1> HIDE DEF c
<1>5. PendingOK(c)
  <2>1. CASE p.kind = "create"
    BY <1>2, <1>4, <2>1 DEF Suits, PendingOK
  <2>2. CASE p.kind = "undo"
    BY <1>2, <1>4, <2>2 DEF Suits, PendingOK
  <2>3. CASE p.kind # "create" /\ p.kind # "undo"
    BY <1>2, <1>4, <2>3 DEF Suits, PendingOK, Ready
  <2> QED BY <2>1, <2>2, <2>3
<1>6. CardOK(c)
  BY <1>4, <1>5 DEF CardOK
<1>7. ChangedRows(c) = {}
  BY <1>4 DEF ChangedRows
<1>8. \A o \in PlannedRows(c) : P!Unplanned(o)
  BY <1>4, CreatesIs DEF Suits, PlannedRows
<1>9. \A j \in Card : cards[j].status = "none" => PlannedRows(cards[j]) = {}
  BY DEF PlannedRows
<1>10. \A j \in Card : \A o \in PlannedRows(cards[j]) : cards[j].status # "none" /\ o \in DOMAIN cards[j].plan.after
  BY DEF PlannedRows
<1>11. \A o \in PlannedRows(c) : book[o] = Null /\ \A j \in Card : o \notin PlannedRows(cards[j])
  BY <1>8, <1>10 DEF P!Unplanned
<1>12. book' = book /\ touches' = touches
  BY <1>1
<1>13. \A j \in Card : CardOK(cards'[j])
  BY <1>3, <1>6 DEF PlansInv
<1>14. \A j \in Card : \A o \in PlannedRows(cards'[j]) : book[o] = Null
  BY <1>3, <1>11 DEF PlansInv
<1>15. \A j \in Card : \A o \in ChangedRows(cards'[j]) : book[o] # Null
  BY <1>3, <1>7 DEF PlansInv
<1>16. \A i, j \in Card : i # j => PlannedRows(cards'[i]) \cap PlannedRows(cards'[j]) = {}
  BY <1>3, <1>11 DEF PlansInv
<1> QED BY <1>2, <1>3, <1>12, <1>13, <1>14, <1>15, <1>16 DEF PlansInv

\* The rows that cards create or can restore are the user's.
LEMMA CardRows ==
  ASSUME PlansInv, NEW k \in Card
  PROVE  /\ \A o \in PlannedRows(cards[k]) : o \in P!Object
         /\ \A o \in ChangedRows(cards[k]) : o \in P!Object
<1>1. ASSUME NEW o \in PlannedRows(cards[k]) PROVE o \in P!Object
  <2>1. PendingOK(cards[k]) /\ cards[k].plan.kind = "create" /\ o \in DOMAIN cards[k].plan.after
    BY <1>1 DEF PlansInv, CardOK, PlannedRows
  <2> QED BY <2>1, CreatesIs DEF PendingOK
<1>2. ASSUME NEW o \in ChangedRows(cards[k]) PROVE o \in P!Object
  <2>1. Shape(cards[k].inverse) /\ o \in DOMAIN cards[k].inverse.after
    BY <1>2 DEF PlansInv, CardOK, ChangedRows, Inverts
  <2> QED BY <2>1, TableFacts DEF Shape
<1> QED BY <1>1, <1>2

LEMMA UserStep ==
  ASSUME PlansInv, P!User
  PROVE  PlansInv'
<1>1. KeepsRows
  BY UserKeeps DEF PlansInv
<1>2. P!DataOK(book') /\ cards' = cards /\ touches' \in 0..MaxTouches
  BY <1>1 DEF KeepsRows
<1>3. \A k \in Card : \A o \in PlannedRows(cards[k]) : o \in P!Object
  BY CardRows
<1>4. \A k \in Card : \A o \in ChangedRows(cards[k]) : o \in P!Object
  BY CardRows
<1>5. \A o \in P!Object : book'[o] = Null <=> book[o] = Null
  BY <1>1 DEF KeepsRows
<1> QED BY <1>2, <1>3, <1>4, <1>5 DEF PlansInv

-----------------------------------------------------------------------------
(* What is stored to undo an approved change.                              *)

LEMMA SwapIs ==
  ASSUME NEW p, Filled(p), DOMAIN p.before = DOMAIN p.after
  PROVE  /\ DOMAIN P!Swapped(p) = DOMAIN p /\ P!Swapped(p).kind = p.kind
         /\ DOMAIN P!Swapped(p).before = DOMAIN p.after /\ DOMAIN P!Swapped(p).after = DOMAIN p.after
         /\ \A o \in DOMAIN p.after :
              /\ P!Swapped(p).before[o] = P!Onto(p.before[o], p.after[o])
              /\ P!Swapped(p).after[o] = P!Restrict(p.before[o], DOMAIN p.after[o])
<1>1. {"kind", "before", "after"} \subseteq DOMAIN p
  BY DEF Filled
<1> DEFINE before == [o \in DOMAIN p.before |-> P!Onto(p.before[o], p.after[o])]
           after == [o \in DOMAIN p.after |-> P!Restrict(p.before[o], DOMAIN p.after[o])]
<1>2. DOMAIN before = DOMAIN p.after /\ \A o \in DOMAIN p.after : before[o] = P!Onto(p.before[o], p.after[o])
  OBVIOUS
<1>3. DOMAIN after = DOMAIN p.after /\ \A o \in DOMAIN p.after : after[o] = P!Restrict(p.before[o], DOMAIN p.after[o])
  OBVIOUS
<1>4. P!Swapped(p) = [p EXCEPT !.before = before, !.after = after]
  BY DEF P!Swapped
<1> HIDE DEF before, after
<1>5. /\ DOMAIN P!Swapped(p) = DOMAIN p /\ P!Swapped(p).kind = p.kind
      /\ P!Swapped(p).before = before /\ P!Swapped(p).after = after
  BY <1>1, <1>4
<1> QED BY <1>2, <1>3, <1>5

LEMMA UndoIs ==
  ASSUME NEW p, Shape(p), Filled(p), p.kind # "restore", NEW q, q = P!UndoOf(p)
  PROVE  /\ q.kind = (IF p.kind = "trash" THEN "restore" ELSE p.kind)
         /\ {"kind", "before", "after"} \subseteq DOMAIN q
         /\ p.kind = "allocate" => /\ {"mark", "shown"} \subseteq DOMAIN q /\ q.shown = Null
                                   /\ q.mark = IF p.mark = "set" /\ ~book[Paid].marked THEN "clear" ELSE "keep"
         /\ DOMAIN q.before = DOMAIN p.after /\ DOMAIN q.after = DOMAIN p.after
         /\ \A o \in DOMAIN p.after : /\ q.before[o] = P!Onto(p.before[o], p.after[o])
                                      /\ q.after[o] = P!Restrict(p.before[o], DOMAIN p.after[o])
<1>1. PICK s : s = P!Swapped(p)
  OBVIOUS
<1>2. DOMAIN p.before = DOMAIN p.after /\ p.kind \in PlanKind
  BY DEF Shape
<1>3. /\ DOMAIN s = DOMAIN p /\ s.kind = p.kind
      /\ DOMAIN s.before = DOMAIN p.after /\ DOMAIN s.after = DOMAIN p.after
      /\ \A o \in DOMAIN p.after : /\ s.before[o] = P!Onto(p.before[o], p.after[o])
                                   /\ s.after[o] = P!Restrict(p.before[o], DOMAIN p.after[o])
  BY <1>1, <1>2, SwapIs
<1>4. {"kind", "before", "after"} \subseteq DOMAIN s
  BY <1>3 DEF Filled
<1>5. CASE p.kind = "trash"
  <2>1. q = [s EXCEPT !.kind = "restore"]
    BY <1>1, <1>5 DEF P!UndoOf
  <2>2. DOMAIN q = DOMAIN s /\ q.kind = "restore" /\ q.before = s.before /\ q.after = s.after
    BY <1>4, <2>1
  <2> QED BY <1>3, <1>4, <1>5, <2>2
<1>6. CASE p.kind \in {"edit", "archive", "rename", "end"}
  <2>1. q = s
    BY <1>1, <1>6 DEF P!UndoOf
  <2> QED BY <1>3, <1>4, <1>6, <2>1
<1>7. CASE p.kind = "allocate"
  <2> DEFINE mark == IF p.mark = "set" /\ ~book[Paid].marked THEN "clear" ELSE "keep"
  <2>1. q = [s EXCEPT !.shown = Null, !.mark = mark]
    BY <1>1, <1>7 DEF P!UndoOf
  <2>2. {"mark", "shown"} \subseteq DOMAIN s
    BY <1>3, <1>7 DEF Filled
  <2> HIDE DEF mark
  <2>3. /\ DOMAIN q = DOMAIN s /\ q.kind = s.kind /\ q.before = s.before /\ q.after = s.after
        /\ q.shown = Null /\ q.mark = mark
    BY <1>4, <2>1, <2>2
  <2> QED BY <1>3, <1>4, <1>7, <2>2, <2>3 DEF mark
<1> QED BY <1>2, <1>5, <1>6, <1>7 DEF PlanKind

\* The rows of that plan.
LEMMA UndoRow ==
  ASSUME NEW o, NEW before, NEW after, DOMAIN after \subseteq DOMAIN before,
         NEW undo, undo = P!Onto(before, after), NEW back, back = P!Restrict(before, DOMAIN after)
  PROVE  /\ DOMAIN undo = DOMAIN before /\ undo = [f \in DOMAIN undo |-> undo[f]]
         /\ \A f \in DOMAIN before : undo[f] = IF f \in DOMAIN after THEN after[f] ELSE before[f]
         /\ DOMAIN back = DOMAIN after /\ \A f \in DOMAIN after : back[f] = before[f]
BY DEF P!Onto, P!Restrict

LEMMA UndoShape ==
  ASSUME P!DataOK(book), NEW p, Shape(p), Filled(p), p.kind # "restore", P!AsShown(p), NEW q, q = P!UndoOf(p)
  PROVE  /\ Shape(q) /\ Filled(q) /\ DOMAIN q.after = DOMAIN p.after
         /\ \A o \in DOMAIN p.after :
              /\ DOMAIN q.before[o] = DOMAIN p.before[o] /\ DOMAIN q.after[o] = DOMAIN p.after[o]
              /\ \A f \in DOMAIN q.before[o] :
                   q.before[o][f] = IF f \in DOMAIN p.after[o] THEN p.after[o][f] ELSE book[o][f]
              /\ \A f \in DOMAIN q.after[o] : q.after[o][f] = book[o][f]
<1>1. /\ DOMAIN p.after \subseteq TableOf(p.kind) /\ p.kind \in PlanKind
      /\ \A o \in DOMAIN p.after :
           /\ DOMAIN p.after[o] \subseteq Written(p.kind) /\ Written(p.kind) \subseteq DOMAIN p.after[o] \cup {"notes"}
           /\ DOMAIN p.after[o] \subseteq DOMAIN p.before[o]
  BY DEF Shape
<1>2. /\ q.kind = (IF p.kind = "trash" THEN "restore" ELSE p.kind)
      /\ {"kind", "before", "after"} \subseteq DOMAIN q
      /\ p.kind = "allocate" => {"mark", "shown"} \subseteq DOMAIN q
      /\ DOMAIN q.before = DOMAIN p.after /\ DOMAIN q.after = DOMAIN p.after
  BY UndoIs
<1>3. \A o \in DOMAIN p.after : book[o] # Null /\ \A f \in DOMAIN p.before[o] : book[o][f] = p.before[o][f]
  BY ShownIs
<1>4. ASSUME NEW o \in DOMAIN p.after
      PROVE  /\ DOMAIN q.before[o] = DOMAIN p.before[o] /\ DOMAIN q.after[o] = DOMAIN p.after[o]
             /\ q.before[o] = [f \in DOMAIN q.before[o] |-> q.before[o][f]]
             /\ \A f \in DOMAIN q.before[o] :
                  q.before[o][f] = IF f \in DOMAIN p.after[o] THEN p.after[o][f] ELSE book[o][f]
             /\ \A f \in DOMAIN q.after[o] : q.after[o][f] = book[o][f]
  <2>1. PICK undo : undo = q.before[o]
    OBVIOUS
  <2>2. PICK back : back = q.after[o]
    OBVIOUS
  <2>3. undo = P!Onto(p.before[o], p.after[o]) /\ back = P!Restrict(p.before[o], DOMAIN p.after[o])
    BY <1>4, <2>1, <2>2, UndoIs
  <2>4. PICK before, after : before = p.before[o] /\ after = p.after[o]
    OBVIOUS
  <2>5. /\ DOMAIN undo = DOMAIN before /\ undo = [f \in DOMAIN undo |-> undo[f]]
        /\ \A f \in DOMAIN before : undo[f] = IF f \in DOMAIN after THEN after[f] ELSE before[f]
        /\ DOMAIN back = DOMAIN after /\ \A f \in DOMAIN after : back[f] = before[f]
    <3>1. DOMAIN after \subseteq DOMAIN before
      BY <1>1, <1>4, <2>4
    <3>2. undo = P!Onto(before, after) /\ back = P!Restrict(before, DOMAIN after)
      BY <2>3, <2>4
    <3> QED BY ONLY <3>1, <3>2, UndoRow
  <2>6. \A f \in DOMAIN before : book[o][f] = before[f]
    BY <1>3, <1>4, <2>4
  <2>7. DOMAIN after \subseteq DOMAIN before
    BY <1>1, <1>4, <2>4
  <2> QED BY <2>1, <2>2, <2>4, <2>5, <2>6, <2>7
<1>5. TableOf(q.kind) = TableOf(p.kind) /\ Written(q.kind) = Written(p.kind) /\ q.kind \in PlanKind
  BY <1>1, <1>2 DEF TableOf, Written, PlanKind
<1>6. ASSUME NEW o \in DOMAIN p.after PROVE PartOf(o, q.after[o])
  <2>1. o \in P!Object /\ book[o] # Null /\ Written(p.kind) \subseteq FieldsOf(o)
    BY <1>1, <1>3, <1>6, TableFacts
  <2>2. book[o] \in P!RowsOf(o) /\ DOMAIN book[o] = FieldsOf(o)
    BY <2>1, RowIs DEF P!DataOK
  <2>3. DOMAIN q.after[o] \subseteq FieldsOf(o) /\ \A f \in DOMAIN q.after[o] : q.after[o][f] = book[o][f]
    BY <1>1, <1>4, <1>6, <2>1
  <2> QED BY <2>2, <2>3 DEF PartOf
<1>7. Shape(q)
  <2>1. q.kind \in PlanKind /\ DOMAIN q.after \subseteq TableOf(q.kind) /\ DOMAIN q.before = DOMAIN q.after
    BY <1>1, <1>2, <1>5
  <2>2. \A o \in DOMAIN q.after :
          /\ DOMAIN q.after[o] \subseteq Written(q.kind) /\ Written(q.kind) \subseteq DOMAIN q.after[o] \cup {"notes"}
          /\ DOMAIN q.after[o] \subseteq DOMAIN q.before[o]
    BY <1>1, <1>2, <1>4, <1>5
  <2>3. \A o \in DOMAIN q.after : q.before[o] = [f \in DOMAIN q.before[o] |-> q.before[o][f]]
    BY <1>2, <1>4
  <2>4. \A o \in DOMAIN q.after : PartOf(o, q.after[o])
    BY <1>2, <1>6
  <2>5. ASSUME q.kind = "rename", NEW c \in DOMAIN q.after, NEW d \in DOMAIN q.after, c # d
        PROVE  q.after[c].name # q.after[d].name
    <3>1. p.kind = "rename" /\ c \in DOMAIN p.after /\ d \in DOMAIN p.after
      BY <1>2, <2>5
    <3>2. TableOf("rename") = Category /\ Written("rename") = {"name"}
      BY DEF TableOf, Written
    <3>3. c \in Category /\ d \in Category /\ book[c] # Null /\ book[d] # Null
      BY <1>1, <1>3, <3>1, <3>2
    <3>6. "name" \in Written(p.kind)
      BY <3>1, <3>2
    <3>7. "name" \in DOMAIN p.after[c] /\ "name" \in DOMAIN p.after[d]
      BY <1>1, <3>1, <3>6
    <3>4. "name" \in DOMAIN q.after[c] /\ "name" \in DOMAIN q.after[d]
      BY <1>4, <3>1, <3>7
    <3>5. q.after[c].name = book[c].name /\ q.after[d].name = book[d].name
      BY <1>4, <3>1, <3>4
    <3> QED BY <2>5, <3>3, <3>5 DEF P!DataOK, P!NamesApart
  <2> QED BY <2>1, <2>2, <2>3, <2>4, <2>5 DEF Shape
<1>8. Filled(q)
  <2>1. \A o \in DOMAIN p.after : DOMAIN p.before[o] \subseteq FieldsOf(o)
    BY DEF Filled
  <2>2. \A o \in DOMAIN q.after : DOMAIN q.before[o] \subseteq FieldsOf(o)
    BY <1>2, <1>4, <2>1
  <2>3. q.kind = "allocate" => p.kind = "allocate"
    BY <1>2
  <2> QED BY <1>2, <2>2, <2>3 DEF Filled
<1> QED BY <1>2, <1>4, <1>7, <1>8

\* What an approved change leaves: what it wrote, and the rest as it was.
LEMMA AppliedIs ==
  ASSUME NEW p, Shape(p), P!Fits(p), P!DataOK(book)
  PROVE  /\ P!DataOK(P!Applied(p)) /\ P!AsShown(p)
         /\ \A o \in P!Object :
              /\ P!Applied(p)[o] = Null <=> book[o] = Null
              /\ book[o] # Null => \A f \in FieldsOf(o) :
                   \/ p.kind = "allocate" /\ o = Paid /\ f = "marked"
                   \/ P!Applied(p)[o][f] = IF o \in DOMAIN p.after /\ f \in DOMAIN p.after[o] THEN p.after[o][f]
                                           ELSE book[o][f]
<1>1. P!AsShown(p)
  BY FitsShown
<1>2. CASE p.kind # "allocate"
  BY <1>1, <1>2, PlainKeeps
<1>3. CASE p.kind = "allocate"
  <2> DEFINE new == P!Applied(p)
             then == After(p, DOMAIN p.after)
  <2>1. P!DataOK(new)
    BY <1>3, AllocatedKeeps
  <2>2. P!RowsOK(book) /\ DOMAIN p.after \in SUBSET DOMAIN p.after
    BY DEF P!DataOK
  <2>3. \A o \in P!Object : /\ new[o] = Null <=> book[o] = Null
                            /\ o # Paid => new[o] = then[o]
    BY <1>3, <2>2, AllocatedIs
  <2>4. \A f \in TxnFields : f # "marked" => new[Paid][f] = book[Paid][f]
    BY <1>3, <2>2, AllocatedIs
  <2>5. \A o \in P!Object : o # Paid /\ o \notin DOMAIN p.after => then[o] = book[o]
    BY <1>1, <1>3, <2>2, AfterIs
  <2>6. \A e \in DOMAIN p.after :
          /\ e \in P!Expense /\ then[e].share = p.after[e].share
          /\ \A f \in TxnFields : f # "share" => then[e][f] = book[e][f]
    BY <1>1, <1>3, <2>2, AfterIs
  <2>7. \A e \in DOMAIN p.after : DOMAIN p.after[e] = {"share"}
    <3>1. Written("allocate") = {"share"}
      BY DEF Written
    <3>2. \A e \in DOMAIN p.after : DOMAIN p.after[e] \subseteq {"share"} /\ {"share"} \subseteq DOMAIN p.after[e] \cup {"notes"}
      BY <1>3, <3>1 DEF Shape
    <3> QED BY <3>2
  <2>8. Paid \notin DOMAIN p.after /\ FieldsOf(Paid) = TxnFields /\ \A e \in P!Expense : FieldsOf(e) = TxnFields /\ e # Paid
    BY <2>6, PaidIs DEF FieldsOf
  <2> HIDE DEF new, then
  <2>9. ASSUME NEW o \in P!Object, book[o] # Null, NEW f \in FieldsOf(o)
        PROVE  \/ o = Paid /\ f = "marked"
               \/ new[o][f] = IF o \in DOMAIN p.after /\ f \in DOMAIN p.after[o] THEN p.after[o][f] ELSE book[o][f]
    <3>1. CASE o = Paid
      BY <2>4, <2>8, <2>9, <3>1
    <3>2. CASE o # Paid /\ o \notin DOMAIN p.after
      BY <2>3, <2>5, <3>2
    <3>3. CASE o \in DOMAIN p.after
      <4>1. new[o] = then[o] /\ FieldsOf(o) = TxnFields /\ DOMAIN p.after[o] = {"share"}
        BY <2>3, <2>6, <2>7, <2>8, <3>3
      <4>2. CASE f = "share"
        BY <2>6, <3>3, <4>1, <4>2
      <4>3. CASE f # "share"
        BY <2>6, <2>9, <3>3, <4>1, <4>3
      <4> QED BY <4>2, <4>3
    <3> QED BY <3>1, <3>2, <3>3
  <2> QED BY <1>1, <1>3, <2>1, <2>3, <2>9 DEF new
<1> QED BY <1>2, <1>3

LEMMA UndoInverts ==
  ASSUME P!DataOK(book), NEW p, NEW seen, Shape(p), SeenAs(p, seen), Sound(p, seen), P!Fits(p),
         NEW q, q = P!UndoOf(p), NEW new, new = P!Applied(p)
  PROVE  Inverts(q, book, new)
<1>1. DOMAIN p.after # {} /\ Filled(p) /\ p.kind # "restore"
  BY DEF Sound
<1>2. /\ P!AsShown(p) /\ P!DataOK(new)
      /\ \A o \in P!Object :
           /\ new[o] = Null <=> book[o] = Null
           /\ book[o] # Null => \A f \in FieldsOf(o) :
                \/ p.kind = "allocate" /\ o = Paid /\ f = "marked"
                \/ new[o][f] = IF o \in DOMAIN p.after /\ f \in DOMAIN p.after[o] THEN p.after[o][f] ELSE book[o][f]
  BY AppliedIs
<1>3. /\ Shape(q) /\ Filled(q) /\ DOMAIN q.after = DOMAIN p.after
      /\ \A o \in DOMAIN p.after :
           /\ DOMAIN q.before[o] = DOMAIN p.before[o] /\ DOMAIN q.after[o] = DOMAIN p.after[o]
           /\ \A f \in DOMAIN q.before[o] :
                q.before[o][f] = IF f \in DOMAIN p.after[o] THEN p.after[o][f] ELSE book[o][f]
           /\ \A f \in DOMAIN q.after[o] : q.after[o][f] = book[o][f]
  BY <1>1, <1>2, UndoShape
<1>4. /\ q.kind = (IF p.kind = "trash" THEN "restore" ELSE p.kind)
      /\ p.kind = "allocate" => /\ q.shown = Null
                                /\ q.mark = IF p.mark = "set" /\ ~book[Paid].marked THEN "clear" ELSE "keep"
  BY <1>1, UndoIs
<1>5. /\ p.kind \in PlanKind /\ DOMAIN p.after \subseteq TableOf(p.kind)
      /\ \A o \in DOMAIN p.after :
           /\ DOMAIN p.after[o] \subseteq Written(p.kind) /\ Written(p.kind) \subseteq DOMAIN p.after[o] \cup {"notes"}
           /\ DOMAIN p.before[o] \subseteq FieldsOf(o)
  BY <1>1 DEF Shape, Filled
<1>6. \A o \in DOMAIN p.after : o \in P!Object /\ book[o] # Null /\ new[o] # Null
  <2>1. \A o \in DOMAIN p.after : o \in P!Object
    BY <1>5, TableFacts
  <2>2. \A o \in DOMAIN p.after : book[o] # Null
    BY <1>2, ShownIs
  <2> QED BY <1>2, <2>1, <2>2
<1>7. \A o \in DOMAIN p.after : p.kind = "allocate" => o \in P!Expense /\ o # Paid
  BY <1>5, TableFacts, PaidIs
<1>8. \A o \in DOMAIN q.after :
        new[o] # Null /\ \A f \in DOMAIN q.before[o] : q.before[o][f] = new[o][f]
  <2>1. ASSUME NEW o \in DOMAIN p.after, NEW f \in DOMAIN p.before[o]
        PROVE  new[o][f] = IF f \in DOMAIN p.after[o] THEN p.after[o][f] ELSE book[o][f]
    <3>1. f \in FieldsOf(o) /\ o \in P!Object /\ book[o] # Null
      BY <1>5, <1>6, <2>1
    <3> QED BY <1>2, <1>7, <2>1, <3>1
  <2> QED BY <1>3, <1>6, <2>1
<1>9. ASSUME NEW o \in P!Object, book[o] # Null, NEW f \in FieldsOf(o)
      PROVE  IF o \in DOMAIN q.after /\ f \in DOMAIN q.after[o] THEN q.after[o][f] = book[o][f]
             ELSE (q.kind = "allocate" /\ o = Paid /\ f = "marked") \/ new[o][f] = book[o][f]
  <2>1. CASE o \in DOMAIN q.after /\ f \in DOMAIN q.after[o]
    BY <1>3, <2>1
  <2>2. CASE ~(o \in DOMAIN q.after /\ f \in DOMAIN q.after[o])
    <3>1. ~(o \in DOMAIN p.after /\ f \in DOMAIN p.after[o])
      BY <1>3, <2>2
    <3> QED BY <1>2, <1>4, <1>9, <2>2, <3>1
  <2> QED BY <2>1, <2>2
<1>10. p.kind = "archive" => \A o \in DOMAIN q.after : DOMAIN q.before[o] = {"archived"}
  BY <1>3 DEF Sound
<1>11. q.kind # "trash" /\ (q.kind = "archive" => p.kind = "archive") /\ (q.kind = "edit" => p.kind = "edit")
       /\ (q.kind = "rename" => p.kind = "rename") /\ (q.kind = "allocate" => p.kind = "allocate")
  BY <1>4
<1>12. ASSUME p.kind = "edit" PROVE \A t \in DOMAIN q.after : new[t].live
  <2>1. \A t \in DOMAIN p.after : book[t].live
    BY <1>12 DEF P!Fits, P!EditFits
  <2>2. \A t \in DOMAIN p.after : "live" \in FieldsOf(t) /\ "live" \notin DOMAIN p.after[t]
    BY <1>5, <1>12, TableFacts DEF Written, FieldsOf, TxnFields
  <2> QED BY <1>2, <1>3, <1>6, <1>12, <2>1, <2>2
<1>13. ASSUME p.kind = "rename" PROVE \A c \in DOMAIN q.after : FreeIn(new, q.after[c].name, c)
  <2>1. \A d \in DOMAIN p.after : \A c \in Category : book[c] # Null /\ c # d => book[c].name # p.after[d].name
    <3>1. P!RenameFits(p)
      BY <1>13 DEF P!Fits
    <3> QED BY <3>1 DEF P!RenameFits, P!NameFree, P!There
  <2>2. \A c \in DOMAIN p.after : c \in Category
    BY <1>5, <1>13, TableFacts
  <2>3. "name" \in Written(p.kind)
    BY <1>13 DEF Written
  <2>4. \A c \in DOMAIN p.after : "name" \in DOMAIN p.after[c]
    BY <1>5, <2>3
  <2>5. \A c \in Category : c \in P!Object /\ "name" \in FieldsOf(c)
    BY Tables DEF FieldsOf, CategoryFields
  <2>6. ASSUME NEW c \in DOMAIN p.after, NEW d \in Category, d # c, new[d] # Null
        PROVE  new[d].name # book[c].name
    <3>1. book[d] # Null /\ c \in Category /\ book[c] # Null
      BY <1>2, <1>6, <2>2, <2>5, <2>6
    <3>2. new[d].name = IF d \in DOMAIN p.after THEN p.after[d].name ELSE book[d].name
      BY <1>2, <1>13, <2>4, <2>5, <3>1
    <3>3. CASE d \in DOMAIN p.after
      BY <2>1, <2>6, <3>1, <3>2, <3>3
    <3>4. CASE d \notin DOMAIN p.after
      BY <2>6, <3>1, <3>2, <3>4 DEF P!DataOK, P!NamesApart
    <3> QED BY <3>3, <3>4
  <2>7. \A c \in DOMAIN p.after : q.after[c].name = book[c].name
    BY <1>3, <2>4
  <2> QED BY <1>3, <2>6, <2>7 DEF FreeIn
<1>14. ASSUME p.kind = "allocate"
       PROVE  /\ q.mark = (IF book[Paid].marked THEN "keep" ELSE "clear")
              /\ new[Paid].live /\ new[Paid].marked
              /\ P!Spent(new) <= new[Paid].cents
              /\ \A e \in DOMAIN q.after : new[e].live /\ new[e].share # 0
  <2>1. /\ P!RowsOK(book) /\ \A e \in DOMAIN p.after : p.after[e].share # 0
        /\ p.mark \in {"keep", "set"}
    BY <1>14 DEF P!DataOK, Sound
  <2>2. PICK g \in DOMAIN p.after : TRUE
    BY <1>1
  <2>3. /\ book[Paid].live /\ P!Marked(p)[Paid].marked
        /\ \A e \in DOMAIN p.after : book[e].live
    BY <1>14, <2>1, <2>2, FitsUpsert
  <2>4. P!Spent(new) <= new[Paid].cents
    BY <1>14, <2>1, <2>2, AllocatedWithin
  <2>5. book[Paid].marked \/ p.mark = "set"
    BY <2>1, <2>3, MarkedIs
  <2>6. new[Paid].marked = P!Marked(p)[Paid].marked /\ new[Paid].live = book[Paid].live
    <3>1. \A f \in TxnFields : f # "marked" => P!Applied(p)[Paid][f] = book[Paid][f]
      BY <1>14, <2>1, AllocatedIs
    <3>2. P!Applied(p)[Paid].marked =
              (P!Marked(p)[Paid].marked /\ ~(p.mark = "clear" /\ \A e \in P!Expense :
                 After(p, DOMAIN p.after)[e] # Null => After(p, DOMAIN p.after)[e].share = 0))
      BY <1>14, <2>1, AllocatedIs
    <3>3. P!Marked(p)[Paid].marked \in BOOLEAN
      BY <2>1, MarkedIs, PaidRow
    <3> QED BY <2>1, <3>1, <3>2, <3>3 DEF TxnFields
  <2>7. \A e \in DOMAIN p.after : new[e].live /\ new[e].share # 0
    <3>1. Written(p.kind) = {"share"}
      BY <1>14 DEF Written
    <3>2. \A e \in DOMAIN p.after : DOMAIN p.after[e] = {"share"}
      BY <1>5, <3>1
    <3>3. \A e \in DOMAIN p.after : "share" \in FieldsOf(e) /\ "live" \in FieldsOf(e)
      BY <1>7, <1>14, PaidIs DEF FieldsOf, TxnFields
    <3>4. \A e \in DOMAIN p.after : new[e].share = p.after[e].share /\ new[e].live = book[e].live
      BY <1>2, <1>6, <1>7, <1>14, <3>2, <3>3
    <3> QED BY <2>1, <2>3, <3>4
  <2> QED BY <1>3, <1>4, <1>14, <2>3, <2>4, <2>5, <2>6, <2>7
<1>15. \A o \in P!Object : book[o] # Null => new[o] # Null
  BY <1>2
<1>16. \A o \in P!Object : ~(book[o] = Null /\ new[o] # Null)
  BY <1>2
<1>17. q.kind = "edit" => \A t \in DOMAIN q.after : new[t].live
  BY <1>11, <1>12
<1>18. q.kind = "rename" => \A c \in DOMAIN q.after : FreeIn(new, q.after[c].name, c)
  BY <1>11, <1>13
<1>19. q.kind = "allocate" =>
         /\ q.shown = Null /\ q.mark = (IF book[Paid].marked THEN "keep" ELSE "clear")
         /\ new[Paid].live /\ new[Paid].marked
         /\ P!Spent(new) <= new[Paid].cents
         /\ \A e \in DOMAIN q.after : new[e].live /\ new[e].share # 0
  BY <1>4, <1>11, <1>14
<1>20. q.kind = "restore" => \A t \in DOMAIN q.after : ~new[t].live /\ book[t] # Null /\ book[t].live
  <2>1. ASSUME p.kind = "trash", NEW t \in DOMAIN p.after
        PROVE  ~new[t].live /\ book[t] # Null /\ book[t].live
    <3>1. ~p.after[t].live /\ "live" \in DOMAIN p.before[t] /\ p.before[t].live
      BY <2>1 DEF Sound
    <3>5. \A f \in DOMAIN p.before[t] : book[t][f] = p.before[t][f]
      BY <1>2, <2>1, ShownIs
    <3>2. book[t] # Null /\ book[t].live = p.before[t].live
      BY <1>6, <2>1, <3>1, <3>5
    <3>3. "live" \in DOMAIN p.after[t] /\ "live" \in FieldsOf(t) /\ t \in P!Object
      <4>1. "live" \in Written(p.kind)
        BY <2>1 DEF Written
      <4> QED BY <1>5, <1>6, <2>1, <3>1, <4>1
    <3>4. new[t].live = p.after[t].live
      BY <1>2, <2>1, <3>2, <3>3
    <3> QED BY <3>1, <3>2, <3>4
  <2>2. q.kind = "restore" => p.kind = "trash"
    BY <1>1, <1>4
  <2> QED BY <1>3, <2>1, <2>2
<1> QED BY <1>1, <1>3, <1>8, <1>9, <1>10, <1>11, <1>15, <1>16, <1>17, <1>18, <1>19, <1>20 DEF Inverts

-----------------------------------------------------------------------------
(* An approved creation.                                                   *)

LEMMA CreateKeeps ==
  ASSUME P!DataOK(book), NEW o \in P!Object, NEW seen, NEW p, Creates(p, o, seen), book[o] = Null, P!Fits(p),
         NEW new, new = P!Applied(p)
  PROVE  /\ P!DataOK(new) /\ new[o] = p.after[o] /\ new[o] # Null /\ new[o] \in P!RowsOf(o)
         /\ \A x \in P!Object : x # o => new[x] = book[x]
<1>1. /\ p.kind = "create" /\ DOMAIN p.after = {o} /\ p.after[o] \in P!RowsOf(o) /\ o \in Spare
      /\ o \in Txn => p.after[o].live /\ p.after[o].share = 0 /\ p.after[o].other = 0
  BY CreatesIs
<1>2. new = P!Over(book, p.after) /\ P!CreateFits(p)
  BY <1>1 DEF P!Applied, P!Fits
<1>3. DOMAIN new = P!Object /\ new[o] = p.after[o] /\ \A x \in P!Object : x # o => new[x] = book[x]
  BY <1>1, <1>2, OverIs
<1>4. new[o] # Null
  BY <1>1, <1>3, RowFields
<1>5. P!RowsOK(new)
  BY <1>1, <1>3 DEF P!RowsOK, P!DataOK
<1>6. P!NamesApart(new)
  <2>1. o \in Category => \A d \in Category : d # o /\ book[d] # Null => book[d].name # new[o].name
    BY <1>1, <1>2, <1>3 DEF P!CreateFits, P!NameFree, P!There
  <2>2. ASSUME NEW c \in Category, NEW d \in Category, new[c] # Null, new[d] # Null, c # d
        PROVE  new[c].name # new[d].name
    <3>1. c \in P!Object /\ d \in P!Object
      BY Tables
    <3>2. CASE c = o
      BY <1>3, <2>1, <2>2, <3>1, <3>2
    <3>3. CASE d = o
      BY <1>3, <2>1, <2>2, <3>1, <3>3
    <3>4. CASE c # o /\ d # o
      BY <1>3, <2>2, <3>1, <3>4 DEF P!DataOK, P!NamesApart
    <3> QED BY <3>2, <3>3, <3>4
  <2> QED BY <2>2 DEF P!NamesApart
<1>7. new[Paid] = book[Paid]
  BY <1>1, <1>3, PaidIs
<1>8. P!SharesMarked(new) /\ P!SharesCovered(new)
  <2> SUFFICES ASSUME NEW e \in P!Expense, new[e] # Null
               PROVE  (new[e].share # 0 => new[Paid].marked) /\ new[e].share + new[e].other <= new[e].cents
    BY DEF P!SharesMarked, P!SharesCovered
  <2>1. e \in P!Object /\ e \in Txn
    BY PaidIs
  <2>2. CASE e = o
    <3>1. new[e].share = 0 /\ new[e].other = 0
      BY <1>1, <1>3, <2>1, <2>2
    <3>2. new[e].cents \in Nat
      BY <1>5, ShareIs
    <3> QED BY <3>1, <3>2
  <2>3. CASE e # o
    BY <1>3, <1>7, <2>1, <2>3 DEF P!DataOK, P!SharesMarked, P!SharesCovered
  <2> QED BY <2>2, <2>3
<1> QED BY <1>1, <1>3, <1>4, <1>5, <1>6, <1>8 DEF P!DataOK

\* What is stored to undo a creation.
LEMMA UncreateIs ==
  ASSUME NEW o \in P!Object, NEW p, p.kind = "create", DOMAIN p.after = {o}, o \in Txn \/ o \in Category,
         NEW q, q = P!UndoOf(p)
  PROVE  /\ "kind" \in DOMAIN q /\ "before" \in DOMAIN q /\ "after" \in DOMAIN q
         /\ DOMAIN q.before = {o} /\ DOMAIN q.after = {o}
         /\ o \in Txn => /\ q.kind = "trash" /\ q.before[o] = P!Restrict(p.after[o], P!Shown \cup {"live"})
                         /\ (\A f : f \in DOMAIN q.after[o] <=> f = "live") /\ q.after[o].live = FALSE
         /\ o \in Category => /\ q.kind = "archive"
                              /\ DOMAIN q.before[o] = {"archived"} /\ q.before[o].archived = FALSE
                              /\ q.before[o] \in P!TagRow
                              /\ DOMAIN q.after[o] = {"archived"} /\ q.after[o].archived = TRUE
<1>1. CASE o \in Txn
  <2>1. q = [kind |-> "trash", after |-> [t \in {o} |-> [live |-> FALSE]],
             before |-> [t \in {o} |-> P!Restrict(p.after[t], P!Shown \cup {"live"})]]
    BY <1>1 DEF P!UndoOf
  <2> QED BY <1>1, <2>1, Tables
<1>2. CASE o \in Category
  <2>1. o \notin Txn
    BY <1>2, Tables
  <2>2. q = [kind |-> "archive", after |-> [c \in {o} |-> [archived |-> TRUE]],
             before |-> [c \in {o} |-> [archived |-> FALSE]]]
    BY <2>1 DEF P!UndoOf
  <2>3. [archived |-> FALSE] \in P!TagRow
    BY DEF P!TagRow
  <2> QED BY <1>2, <2>1, <2>2, <2>3
<1> QED BY <1>1, <1>2

LEMMA UncreateInverts ==
  ASSUME P!DataOK(book), NEW o \in P!Object, NEW seen, NEW p, Creates(p, o, seen), book[o] = Null, P!Fits(p),
         NEW q, q = P!UndoOf(p), NEW new, new = P!Applied(p)
  PROVE  Inverts(q, book, new) /\ DOMAIN q.after = {o}
<1>1. /\ p.kind = "create" /\ DOMAIN p.after = {o} /\ p.after[o] \in P!RowsOf(o) /\ o \in Spare
      /\ o \in Txn => p.after[o].live
      /\ o \in Category => ~p.after[o].archived
  BY CreatesIs
<1>2. o \in Txn \/ o \in Category
  BY <1>1, PlansFit DEF P!PlansAssumption
<1>3. /\ new[o] = p.after[o] /\ new[o] # Null /\ new[o] \in P!RowsOf(o)
      /\ \A x \in P!Object : x # o => new[x] = book[x]
  BY CreateKeeps
<1>4. {"kind", "before", "after"} \subseteq DOMAIN q /\ DOMAIN q.before = {o} /\ DOMAIN q.after = {o}
  <2>1. {"kind", "before", "after"} \subseteq DOMAIN q
    <3>1. "kind" \in DOMAIN q /\ "before" \in DOMAIN q /\ "after" \in DOMAIN q
      BY <1>1, <1>2, UncreateIs
    <3> QED BY <3>1
  <2>2. DOMAIN q.before = {o}
    BY <1>1, <1>2, UncreateIs
  <2>3. DOMAIN q.after = {o}
    BY <1>1, <1>2, UncreateIs
  <2> QED BY <2>1, <2>2, <2>3
<1>5. q.kind = (IF o \in Txn THEN "trash" ELSE "archive")
  BY <1>1, <1>2, Tables, UncreateIs
<1>6. /\ DOMAIN q.before[o] \subseteq FieldsOf(o) /\ DOMAIN q.after[o] \subseteq DOMAIN q.before[o]
      /\ DOMAIN q.after[o] = Written(q.kind)
      /\ q.before[o] = [f \in DOMAIN q.before[o] |-> q.before[o][f]]
      /\ \A f \in DOMAIN q.before[o] : q.before[o][f] = new[o][f]
      /\ PartOf(o, q.after[o])
      /\ q.kind = "archive" => DOMAIN q.before[o] = {"archived"} /\ q.after[o].archived
      /\ q.kind = "trash" => new[o].live
  <2>1. CASE o \in Txn
    <3>1. q.kind = "trash" /\ Written(q.kind) = {"live"}
      BY <1>5, <2>1 DEF Written
    <3>2. /\ q.before[o] = P!Restrict(p.after[o], P!Shown \cup {"live"})
          /\ DOMAIN q.after[o] = {"live"} /\ q.after[o].live = FALSE
      <4>1. q.before[o] = P!Restrict(p.after[o], P!Shown \cup {"live"})
        BY <1>1, <2>1, UncreateIs
      <4>2. DOMAIN q.after[o] = {"live"}
        <5>1. q = [kind |-> "trash", after |-> [t \in {o} |-> [live |-> FALSE]],
                   before |-> [t \in {o} |-> P!Restrict(p.after[t], P!Shown \cup {"live"})]]
          BY <1>1, <2>1 DEF P!UndoOf
        <5> QED BY <5>1
      <4>3. q.after[o].live = FALSE
        BY <1>1, <2>1, UncreateIs
      <4> QED BY <4>1, <4>2, <4>3
    <3>3. PICK was : was = q.before[o]
      OBVIOUS
    <3>4. /\ DOMAIN was = P!Shown \cup {"live"} /\ was = [f \in DOMAIN was |-> was[f]]
          /\ \A f \in DOMAIN was : was[f] = new[o][f]
      BY <1>3, <3>2, <3>3 DEF P!Restrict
    <3>5. P!RowsOf(o) = P!TxnRow /\ FieldsOf(o) = TxnFields /\ P!Shown \cup {"live"} \subseteq TxnFields
      BY <2>1, Tables DEF FieldsOf, TxnFields, P!Shown
    <3> DEFINE row == [new[o] EXCEPT !.live = FALSE]
    <3>6. row \in P!TxnRow /\ row.live = FALSE
      <4>1. new[o] \in P!TxnRow
        BY <1>3, <3>5
      <4> QED BY <4>1 DEF P!TxnRow
    <3> HIDE DEF row
    <3>7. row \in P!RowsOf(o) /\ "live" \in FieldsOf(o) /\ row["live"] = q.after[o]["live"]
      BY <3>2, <3>5, <3>6 DEF TxnFields
    <3>8. PartOf(o, q.after[o])
      BY <3>2, <3>7, OneField
    <3>9. new[o].live
      BY <1>1, <1>3, <2>1
    <3> QED BY <3>1, <3>2, <3>3, <3>4, <3>5, <3>8, <3>9
  <2>2. CASE o \in Category
    <3>1. o \notin Txn /\ P!RowsOf(o) = P!CategoryRow /\ FieldsOf(o) = CategoryFields /\ "archived" \in CategoryFields
      BY <2>2, Tables DEF FieldsOf, CategoryFields
    <3>2. q.kind = "archive" /\ Written(q.kind) = {"archived"}
      BY <1>5, <3>1 DEF Written
    <3>3. /\ DOMAIN q.before[o] = {"archived"} /\ q.before[o].archived = FALSE /\ q.before[o] \in P!TagRow
          /\ DOMAIN q.after[o] = {"archived"} /\ q.after[o].archived = TRUE
      BY <1>1, <2>2, UncreateIs
    <3>4. q.before[o] = [f \in TagFields |-> q.before[o][f]] /\ TagFields = {"archived"}
      BY <3>3, CatalogFacts DEF TagFields
    <3>5. new[o].archived = FALSE
      <4>1. new[o] \in P!CategoryRow /\ ~new[o].archived
        BY <1>1, <1>3, <2>2, <3>1
      <4> QED BY <4>1, CatalogFacts
    <3> DEFINE row == [new[o] EXCEPT !.archived = TRUE]
    <3>6. row \in P!CategoryRow /\ row.archived = TRUE
      <4>1. new[o] \in P!CategoryRow
        BY <1>3, <3>1
      <4> QED BY <4>1 DEF P!CategoryRow
    <3> HIDE DEF row
    <3>7. row \in P!RowsOf(o) /\ "archived" \in FieldsOf(o) /\ row["archived"] = q.after[o]["archived"]
      BY <3>1, <3>3, <3>6
    <3>8. PartOf(o, q.after[o])
      BY <3>3, <3>7, OneField
    <3>9. \A f \in DOMAIN q.before[o] : q.before[o][f] = new[o][f]
      BY <3>3, <3>5
    <3> QED BY <3>1, <3>2, <3>3, <3>4, <3>8, <3>9
  <2> QED BY <1>2, <2>1, <2>2
<1>7. o \in TableOf(q.kind) /\ q.kind \in PlanKind
  BY <1>2, <1>5 DEF TableOf, PlanKind
<1>8. Shape(q)
  <2>1. q.kind \in PlanKind /\ DOMAIN q.after \subseteq TableOf(q.kind) /\ DOMAIN q.before = DOMAIN q.after
    BY <1>4, <1>7
  <2>2. DOMAIN q.after[o] \subseteq Written(q.kind) /\ Written(q.kind) \subseteq DOMAIN q.after[o] \cup {"notes"}
        /\ DOMAIN q.after[o] \subseteq DOMAIN q.before[o]
    BY <1>6
  <2>3. q.before[o] = [f \in DOMAIN q.before[o] |-> q.before[o][f]] /\ PartOf(o, q.after[o])
    BY <1>6
  <2>4. q.kind # "rename"
    BY <1>5
  <2> QED BY <1>4, <2>1, <2>2, <2>3, <2>4 DEF Shape
<1>9. Filled(q)
  BY <1>4, <1>5, <1>6 DEF Filled
<1>10. q.kind = "archive" => \A x \in DOMAIN q.after : DOMAIN q.before[x] = {"archived"}
  BY <1>4, <1>6
<1>11. \A x \in DOMAIN q.after : new[x] # Null /\ \A f \in DOMAIN q.before[x] : q.before[x][f] = new[x][f]
  BY <1>3, <1>4, <1>6
<1>12. \A x \in P!Object : book[x] # Null => x # o /\ new[x] # Null /\ \A f \in FieldsOf(x) : new[x][f] = book[x][f]
  BY <1>3
<1>13. \A x \in P!Object : book[x] = Null /\ new[x] # Null =>
         /\ x \in DOMAIN q.after /\ DOMAIN q.after[x] # {}
         /\ IF x \in Txn THEN q.kind = "trash" ELSE q.kind = "archive" /\ q.after[x].archived
  <2>1. \A x \in P!Object : book[x] = Null /\ new[x] # Null => x = o
    BY <1>3
  <2>2. DOMAIN q.after[o] # {}
    BY <1>5, <1>6 DEF Written
  <2> QED BY <1>4, <1>5, <1>6, <2>1, <2>2
<1>14. q.kind \notin {"edit", "rename", "allocate", "restore"}
  BY <1>5
<1>15. q.kind = "trash" => \A t \in DOMAIN q.after : new[t].live /\ book[t] = Null
  BY <1>4, <1>6
<1> QED BY <1>4, <1>8, <1>9, <1>10, <1>11, <1>12, <1>13, <1>14, <1>15 DEF Inverts

-----------------------------------------------------------------------------
(* An approval keeps the invariant.                                        *)

\* What an approval does to the data, and what it stores.
LEMMA ApproveIs ==
  ASSUME PlansInv, NEW k \in Card, P!Approve(k)
  PROVE  /\ P!DataOK(book') /\ Inverts(P!UndoOf(cards[k].plan), book, book')
         /\ \A x \in P!Object : book[x] = Null /\ book'[x] # Null => x \in PlannedRows(cards[k])
<1>1. /\ cards[k].status = "pending" /\ cards[k].plan.kind # "undo" /\ P!Fits(cards[k].plan)
      /\ book' = P!Applied(cards[k].plan)
  BY DEF P!Approve
<1>2. PICK p : p = cards[k].plan
  OBVIOUS
<1>3. PICK seen : seen = cards[k].seen
  OBVIOUS
<1>4. PICK new : new = book'
  OBVIOUS
<1>5. PICK q : q = P!UndoOf(p)
  OBVIOUS
<1>6. P!DataOK(book) /\ PendingOK(cards[k])
  BY <1>1 DEF PlansInv, CardOK
<1>7. new = P!Applied(p) /\ P!Fits(p)
  BY <1>1, <1>2, <1>4
<1>8. CASE p.kind = "create"
  <2>1. PICK o \in P!Object : Creates(p, o, seen)
    BY <1>2, <1>3, <1>6, <1>8 DEF PendingOK
  <2>2. o \in PlannedRows(cards[k]) /\ DOMAIN p.after = {o}
    BY <1>1, <1>2, <1>8, <2>1, CreatesIs DEF PlannedRows
  <2>3. book[o] = Null
    BY <2>2 DEF PlansInv
  <2>4. P!DataOK(new) /\ \A x \in P!Object : x # o => new[x] = book[x]
    BY <1>6, <1>7, <2>1, <2>3, CreateKeeps
  <2>5. Inverts(q, book, new)
    BY <1>5, <1>6, <1>7, <2>1, <2>3, UncreateInverts
  <2> QED BY <1>2, <1>4, <1>5, <2>2, <2>4, <2>5
<1>9. CASE p.kind # "create"
  <2>1. Shape(p) /\ SeenAs(p, seen) /\ Sound(p, seen)
    BY <1>1, <1>2, <1>3, <1>6, <1>9 DEF PendingOK
  <2>2. P!DataOK(new) /\ \A x \in P!Object : new[x] = Null <=> book[x] = Null
    BY <1>6, <1>7, <2>1, AppliedIs
  <2>3. Inverts(q, book, new)
    BY <1>5, <1>6, <1>7, <2>1, UndoInverts
  <2> QED BY <1>2, <1>4, <1>5, <2>2, <2>3
<1> QED BY <1>8, <1>9

LEMMA ApproveStep ==
  ASSUME PlansInv, NEW k \in Card, P!Approve(k)
  PROVE  PlansInv'
<1>1. P!DataOK(book) /\ CardOK(cards[k]) /\ DOMAIN cards = Card /\ touches \in 0..MaxTouches
  BY DEF PlansInv
<1>2. PICK q : q = P!UndoOf(cards[k].plan)
  OBVIOUS
<1>3. /\ cards[k].status = "pending" /\ cards[k].plan.kind # "undo" /\ touches' = touches
      /\ cards' = [cards EXCEPT ![k].status = "applied", ![k].inverse = q, ![k].was = book, ![k].left = book']
  BY <1>2 DEF P!Approve
<1>4. /\ P!DataOK(book') /\ Inverts(q, book, book')
      /\ \A x \in P!Object : book[x] = Null /\ book'[x] # Null => x \in PlannedRows(cards[k])
  BY <1>2, ApproveIs
<1> DEFINE c == [cards[k] EXCEPT !.status = "applied", !.inverse = q, !.was = book, !.left = book']
<1>5. DOMAIN cards' = Card /\ cards'[k] = c /\ \A j \in Card : j # k => cards'[j] = cards[j]
  BY <1>1, <1>3
<1>6. /\ DOMAIN c = CardFields /\ c.status = "applied" /\ c.inverse = q /\ c.was = book /\ c.left = book'
      /\ c.plan = cards[k].plan
  BY <1>1 DEF CardOK, CardFields
<1> HIDE DEF c
<1>7. CardOK(c)
  BY <1>1, <1>4, <1>6 DEF CardOK
<1>8. PlannedRows(c) = {} /\ ChangedRows(c) = DOMAIN q.after
  BY <1>3, <1>6 DEF PlannedRows, ChangedRows
<1>9. \A o \in DOMAIN q.after : book'[o] # Null
  BY <1>4 DEF Inverts
<1>10. \A o \in P!Object : book[o] # Null => book'[o] # Null
  BY <1>4 DEF Inverts
<1>11. \A j \in Card : \A o \in PlannedRows(cards[j]) : o \in P!Object
  BY CardRows
<1>12. \A j \in Card : \A o \in ChangedRows(cards[j]) : o \in P!Object
  BY CardRows
<1>13. \A j \in Card : CardOK(cards'[j])
  BY <1>5, <1>7 DEF PlansInv
<1>14. ASSUME NEW j \in Card, NEW o \in PlannedRows(cards'[j]) PROVE book'[o] = Null
  <2>1. j # k /\ o \in PlannedRows(cards[j])
    BY <1>5, <1>8, <1>14
  <2>2. o \notin PlannedRows(cards[k]) /\ book[o] = Null /\ o \in P!Object
    BY <1>11, <2>1 DEF PlansInv
  <2> QED BY <1>4, <2>2
<1>15. ASSUME NEW j \in Card, NEW o \in ChangedRows(cards'[j]) PROVE book'[o] # Null
  <2>1. CASE j = k
    BY <1>5, <1>8, <1>9, <1>15, <2>1
  <2>2. CASE j # k
    <3>1. o \in ChangedRows(cards[j])
      BY <1>5, <1>15, <2>2
    <3>2. book[o] # Null /\ o \in P!Object
      BY <1>12, <3>1 DEF PlansInv
    <3> QED BY <1>10, <3>2
  <2> QED BY <2>1, <2>2
<1>16. \A i, j \in Card : i # j => PlannedRows(cards'[i]) \cap PlannedRows(cards'[j]) = {}
  BY <1>5, <1>8 DEF PlansInv
<1> QED BY <1>1, <1>3, <1>4, <1>5, <1>13, <1>14, <1>15, <1>16 DEF PlansInv

-----------------------------------------------------------------------------
(* Undo cards.                                                             *)

LEMMA OnlyIs ==
  ASSUME NEW p, Shape(p), Filled(p), NEW S \in SUBSET DOMAIN p.after, NEW q, q = P!Only(p, S)
  PROVE  /\ Shape(q) /\ Filled(q) /\ q.kind = p.kind /\ DOMAIN q = DOMAIN p
         /\ DOMAIN q.before = S /\ DOMAIN q.after = S
         /\ \A o \in S : q.before[o] = p.before[o] /\ q.after[o] = p.after[o]
         /\ p.kind = "allocate" => q.mark = p.mark /\ q.shown = p.shown
<1> DEFINE before == P!Restrict(p.before, S)
           after == P!Restrict(p.after, S)
<1>1. {"kind", "before", "after"} \subseteq DOMAIN p /\ DOMAIN p.before = DOMAIN p.after
  BY DEF Filled, Shape
<1>2. /\ DOMAIN before = S /\ DOMAIN after = S
      /\ \A o \in S : before[o] = p.before[o] /\ after[o] = p.after[o]
  BY DEF P!Restrict
<1>3. q = [p EXCEPT !.before = P!Restrict(@, S), !.after = P!Restrict(@, S)]
  BY DEF P!Only
<1>4. /\ DOMAIN q = DOMAIN p /\ q.before = before /\ q.after = after /\ q.kind = p.kind
      /\ q.mark = p.mark /\ q.shown = p.shown
  BY <1>1, <1>3
<1> HIDE DEF before, after
<1>5. /\ DOMAIN q.before = S /\ DOMAIN q.after = S
      /\ \A o \in S : q.before[o] = p.before[o] /\ q.after[o] = p.after[o]
  BY <1>2, <1>4
<1>6. Shape(q)
  <2>1. /\ p.kind \in PlanKind /\ DOMAIN p.after \subseteq TableOf(p.kind)
        /\ \A o \in DOMAIN p.after :
             /\ DOMAIN p.after[o] \subseteq Written(p.kind) /\ Written(p.kind) \subseteq DOMAIN p.after[o] \cup {"notes"}
             /\ DOMAIN p.after[o] \subseteq DOMAIN p.before[o]
             /\ p.before[o] = [f \in DOMAIN p.before[o] |-> p.before[o][f]]
             /\ PartOf(o, p.after[o])
        /\ p.kind = "rename" =>
             \A c, d \in DOMAIN p.after : c # d => p.after[c].name # p.after[d].name
    BY DEF Shape
  <2>2. q.kind \in PlanKind /\ DOMAIN q.after \subseteq TableOf(q.kind) /\ DOMAIN q.before = DOMAIN q.after
    BY <1>4, <1>5, <2>1
  <2>3. \A o \in S :
          /\ DOMAIN q.after[o] \subseteq Written(q.kind) /\ Written(q.kind) \subseteq DOMAIN q.after[o] \cup {"notes"}
          /\ DOMAIN q.after[o] \subseteq DOMAIN q.before[o] /\ PartOf(o, q.after[o])
    BY <1>4, <1>5, <2>1
  <2>4. \A o \in S : q.before[o] = [f \in DOMAIN q.before[o] |-> q.before[o][f]]
    <3>1. ASSUME NEW o \in S PROVE q.before[o] = [f \in DOMAIN q.before[o] |-> q.before[o][f]]
      <4>1. PICK was : was = p.before[o]
        OBVIOUS
      <4>2. was = [f \in DOMAIN was |-> was[f]]
        BY <2>1, <3>1, <4>1
      <4>3. q.before[o] = was
        BY <1>5, <3>1, <4>1
      <4> QED BY <4>2, <4>3
    <3> QED BY <3>1
  <2>5. q.kind = "rename" => \A c, d \in S : c # d => q.after[c].name # q.after[d].name
    BY <1>4, <1>5, <2>1
  <2> QED BY <1>5, <2>2, <2>3, <2>4, <2>5 DEF Shape
<1>7. Filled(q)
  BY <1>4, <1>5 DEF Filled
<1> QED BY <1>4, <1>5, <1>6, <1>7

\* A card proposes, to undo a change, a plan for data that are as it says.
LEMMA UndoReady ==
  ASSUME P!DataOK(book), NEW p, NEW was, NEW left, Inverts(p, was, left),
         \A o \in DOMAIN p.after : book[o] # Null,
         NEW S, S = P!UndoneRows(p), S # {}, NEW q, q = P!UndoPlan(p, S)
  PROVE  /\ Shape(q) /\ SeenAs(q, book) /\ q.kind = p.kind
         /\ DOMAIN q.after = S /\ S \in SUBSET DOMAIN p.after
         /\ p.kind \in {"trash", "restore"} => \A t \in S :
              DOMAIN q.after[t] = {"live"} /\ q.after[t].live = (p.kind = "restore")
         /\ p.kind \notin {"trash", "restore"} => \A o \in S : q.after[o] = p.after[o]
         /\ p.kind = "allocate" => q.mark = p.mark /\ q.shown = p.shown
<1>1. Shape(p) /\ Filled(p) /\ p.kind \in PlanKind /\ DOMAIN p.before = DOMAIN p.after
  BY DEF Inverts, Shape
<1>2. \A o \in DOMAIN p.after : o \in P!Object /\ o \in TableOf(p.kind)
  BY <1>1, TableFacts DEF Shape
<1>3. CASE p.kind = "trash"
  <2>1. S = {t \in DOMAIN p.before : book[t].live} /\ q = P!Removal(S)
    BY <1>3 DEF P!UndoneRows, P!UndoPlan
  <2>2. \A t \in DOMAIN p.after : t \in Txn
    BY <1>2, <1>3 DEF TableOf
  <2>3. S \in SUBSET P!Live /\ S \in SUBSET DOMAIN p.after
    BY <1>1, <2>1, <2>2, LiveIs
  <2>4. /\ Shape(P!Removal(S)) /\ SeenAs(P!Removal(S), book) /\ DOMAIN P!Removal(S).after = S
        /\ \A t \in S : DOMAIN P!Removal(S).after[t] = {"live"} /\ P!Removal(S).after[t].live = FALSE
    BY <2>3, RemovalIs
  <2>5. P!Removal(S).kind = "trash"
    BY DEF P!Removal
  <2> QED BY <1>3, <2>1, <2>3, <2>4, <2>5
<1>4. CASE p.kind = "restore"
  <2>1. S = {t \in DOMAIN p.before : ~book[t].live} /\ q = P!Return(S)
    BY <1>4 DEF P!UndoneRows, P!UndoPlan
  <2>2. \A t \in DOMAIN p.after : t \in Txn
    BY <1>2, <1>4 DEF TableOf
  <2>3. S \in SUBSET Txn /\ S \in SUBSET DOMAIN p.after /\ \A t \in S : book[t] # Null /\ ~book[t].live
    BY <1>1, <2>1, <2>2
  <2>4. /\ Shape(P!Return(S)) /\ SeenAs(P!Return(S), book) /\ DOMAIN P!Return(S).after = S
        /\ \A t \in S : DOMAIN P!Return(S).after[t] = {"live"} /\ P!Return(S).after[t].live = TRUE
    BY <2>3, ReturnIs
  <2>5. P!Return(S).kind = "restore"
    BY DEF P!Return
  <2> QED BY <1>4, <2>1, <2>3, <2>4, <2>5
<1>5. CASE p.kind = "archive"
  <2>1. S = {o \in DOMAIN p.before : book[o].archived = p.before[o].archived} /\ q = P!Only(p, S)
    BY <1>5 DEF P!UndoneRows, P!UndoPlan
  <2>2. S \in SUBSET DOMAIN p.after
    BY <1>1, <2>1
  <2>6. q = P!Only(p, S)
    BY <2>1
  <2>3. /\ Shape(q) /\ q.kind = p.kind /\ DOMAIN q.after = S
        /\ \A o \in S : q.before[o] = p.before[o] /\ q.after[o] = p.after[o]
    BY <1>1, <2>2, <2>6, OnlyIs
  <2>4. \A o \in S : DOMAIN p.before[o] = {"archived"}
    BY <1>5, <2>2 DEF Inverts
  <2>5. SeenAs(q, book)
    BY <1>5, <2>1, <2>2, <2>3, <2>4 DEF SeenAs
  <2> QED BY <1>5, <2>2, <2>3, <2>5
<1>6. CASE p.kind = "edit"
  <2>1. /\ S = {t \in DOMAIN p.before \cap P!Live : \A f \in DOMAIN p.before[t] \ {"cents"} :
                                                      book[t][f] = p.before[t][f]}
        /\ q = [P!Only(p, S) EXCEPT !.before = [t \in S |-> P!Onto(p.before[t], P!Part(t, {"cents"}))]]
    BY <1>6 DEF P!UndoneRows, P!UndoPlan
  <2>2. S \in SUBSET DOMAIN p.after
    BY <1>1, <2>1
  <2>3. PICK r : r = P!Only(p, S)
    OBVIOUS
  <2>4. /\ Shape(r) /\ r.kind = "edit" /\ DOMAIN r = DOMAIN p /\ DOMAIN r.after = S
        /\ \A t \in S : r.before[t] = p.before[t] /\ r.after[t] = p.after[t]
    BY <1>1, <1>6, <2>2, <2>3, OnlyIs
  <2> DEFINE before == [t \in S |-> P!Onto(p.before[t], P!Part(t, {"cents"}))]
  <2>5. DOMAIN before = S /\ \A t \in S : before[t] = P!Onto(p.before[t], P!Part(t, {"cents"}))
    OBVIOUS
  <2>6. q = [r EXCEPT !.before = before]
    BY <2>1, <2>3
  <2> HIDE DEF before
  <2>7. "before" \in DOMAIN r
    BY <1>1, <2>4 DEF Filled
  <2>8. q.kind = "edit" /\ q.after = r.after /\ q.before = before
    BY <2>4, <2>6, <2>7
  <2>9. ASSUME NEW t \in S
        PROVE  /\ DOMAIN before[t] = DOMAIN p.before[t] \cup {"cents"}
               /\ before[t] = [f \in DOMAIN before[t] |-> before[t][f]]
               /\ \A f \in DOMAIN before[t] : before[t][f] = book[t][f]
    <3>1. PICK fields, piece, all : fields = p.before[t] /\ piece = P!Part(t, {"cents"}) /\ all = before[t]
      OBVIOUS
    <3>2. DOMAIN piece = {"cents"} /\ piece["cents"] = book[t]["cents"]
      BY <3>1, PartIs
    <3>3. all = P!Onto(fields, piece)
      BY <2>5, <2>9, <3>1
    <3>4. DOMAIN all = DOMAIN piece \cup DOMAIN fields /\ all = [f \in DOMAIN all |-> all[f]]
      BY <3>3 DEF P!Onto
    <3>5. \A f \in DOMAIN all : all[f] = IF f \in DOMAIN piece THEN piece[f] ELSE fields[f]
      BY <3>3 DEF P!Onto
    <3>6. \A f \in DOMAIN fields : f # "cents" => book[t][f] = fields[f]
      BY <2>1, <2>9, <3>1
    <3>7. \A f \in DOMAIN all : all[f] = book[t][f]
      BY <3>2, <3>4, <3>5, <3>6
    <3> QED BY <3>1, <3>2, <3>4, <3>7
  <2>10. Shape(q)
    <3>1. /\ r.kind \in PlanKind /\ DOMAIN r.after \subseteq TableOf(r.kind)
          /\ \A t \in S :
               /\ DOMAIN r.after[t] \subseteq Written(r.kind) /\ Written(r.kind) \subseteq DOMAIN r.after[t] \cup {"notes"}
               /\ DOMAIN r.after[t] \subseteq DOMAIN p.before[t] /\ PartOf(t, r.after[t])
      BY <2>4 DEF Shape
    <3>2. q.kind \in PlanKind /\ DOMAIN q.after \subseteq TableOf(q.kind) /\ DOMAIN q.before = DOMAIN q.after
      BY <2>4, <2>5, <2>8, <3>1
    <3>3. \A t \in S :
               /\ DOMAIN q.after[t] \subseteq Written(q.kind) /\ Written(q.kind) \subseteq DOMAIN q.after[t] \cup {"notes"}
               /\ DOMAIN q.after[t] \subseteq DOMAIN q.before[t] /\ PartOf(t, q.after[t])
      <4>1. \A t \in S : DOMAIN p.before[t] \subseteq DOMAIN q.before[t]
        BY <2>8, <2>9
      <4>2. q.kind = r.kind /\ q.after = r.after
        BY <2>4, <2>8
      <4> QED BY <3>1, <4>1, <4>2
    <3>4. \A t \in S : q.before[t] = [f \in DOMAIN q.before[t] |-> q.before[t][f]]
      BY <2>8, <2>9
    <3> QED BY <2>4, <2>8, <3>2, <3>3, <3>4 DEF Shape
  <2>11. SeenAs(q, book)
    <3>1. DOMAIN q.after = S /\ q.kind # "allocate"
      BY <2>4, <2>8
    <3>2. ASSUME NEW t \in S
          PROVE  book[t] # Null /\ \A f \in DOMAIN q.before[t] : q.before[t][f] = book[t][f]
      <4>1. book[t] # Null
        BY <2>2, <1>1
      <4>2. PICK fields : fields = before[t] /\ fields = q.before[t]
        BY <2>8
      <4>3. \A f \in DOMAIN before[t] : before[t][f] = book[t][f]
        BY <2>9, <3>2, Zenon
      <4> QED BY <4>1, <4>2, <4>3
    <3> QED BY <3>1, <3>2 DEF SeenAs
  <2> QED BY <1>6, <2>2, <2>4, <2>8, <2>10, <2>11
<1>7. CASE p.kind \in {"rename", "end"}
  <2>1. S = (IF P!Fits(p) THEN DOMAIN p.before ELSE {}) /\ q = P!Only(p, S)
    BY <1>7 DEF P!UndoneRows, P!UndoPlan, P!Fits
  <2>2. S = DOMAIN p.after /\ P!AsShown(p)
    BY <1>1, <2>1, FitsShown
  <2>3. S \in SUBSET DOMAIN p.after
    BY <2>2
  <2>4. /\ Shape(q) /\ q.kind = p.kind /\ DOMAIN q.after = S
        /\ \A o \in S : q.before[o] = p.before[o] /\ q.after[o] = p.after[o]
    BY <1>1, <2>1, <2>3, OnlyIs
  <2>5. \A o \in S : book[o] # Null /\ \A f \in DOMAIN p.before[o] : book[o][f] = p.before[o][f]
    BY <1>1, <2>2, ShownIs
  <2>6. SeenAs(q, book)
    BY <1>7, <2>4, <2>5 DEF SeenAs
  <2> QED BY <1>7, <2>3, <2>4, <2>6
<1>8. CASE p.kind = "allocate"
  <2>1. S = (IF P!AsShown(p) THEN DOMAIN p.before \cap P!Live ELSE {}) /\ q = P!Only(p, S)
    BY <1>8 DEF P!UndoneRows, P!UndoPlan
  <2>2. P!AsShown(p) /\ S \in SUBSET DOMAIN p.after
    BY <1>1, <2>1
  <2>11. q = P!Only(p, S)
    BY <2>1
  <2>3. /\ Shape(q) /\ q.kind = p.kind /\ DOMAIN q.after = S /\ q.mark = p.mark /\ q.shown = p.shown
        /\ \A o \in S : q.before[o] = p.before[o] /\ q.after[o] = p.after[o]
    BY <1>1, <1>8, <2>2, <2>11, OnlyIs
  <2>4. \A o \in DOMAIN p.after : book[o] # Null /\ \A f \in DOMAIN p.before[o] : book[o][f] = p.before[o][f]
    BY <1>1, <2>2, ShownIs
  <2>5. PICK e \in S : TRUE
    OBVIOUS
  <2>6. "share" \in DOMAIN p.before[e]
    <3>1. "share" \in Written(p.kind)
      BY <1>8 DEF Written
    <3>2. /\ Written(p.kind) \subseteq DOMAIN p.after[e] \cup {"notes"}
          /\ DOMAIN p.after[e] \subseteq DOMAIN p.before[e]
      BY <1>1, <2>2, <2>5 DEF Shape
    <3> QED BY <3>1, <3>2
  <2>7. book[e].share = left[e].share /\ left[e].share # 0
    BY <1>8, <2>2, <2>4, <2>5, <2>6 DEF Inverts
  <2>8. book[Paid].marked
    <3>1. e \in P!Expense /\ book[e] # Null
      BY <1>2, <1>8, <2>2, <2>4, <2>5 DEF TableOf
    <3> QED BY <2>7, <3>1 DEF P!DataOK, P!SharesMarked
  <2>9. p.mark # "set"
    BY <1>8 DEF Inverts
  <2>10. SeenAs(q, book)
    BY <2>2, <2>3, <2>4, <2>8, <2>9 DEF SeenAs
  <2> QED BY <1>8, <2>2, <2>3, <2>10
<1> QED BY <1>1, <1>3, <1>4, <1>5, <1>6, <1>7, <1>8 DEF PlanKind

LEMMA ProposeUndoStep ==
  ASSUME PlansInv, NEW j \in Card, P!ProposeUndo(j)
  PROVE  PlansInv'
<1>1. PICK p : p = cards[j].inverse
  OBVIOUS
<1>2. PICK S : S = P!UndoneRows(p)
  OBVIOUS
<1>3. PICK q : q = P!UndoPlan(p, S)
  OBVIOUS
<1>4. /\ cards[j].status = "applied" /\ cards[j].plan.kind # "undo" /\ S # {}
      /\ P!Propose([kind |-> "undo", of |-> j, plan |-> q, after |-> <<>>])
  BY <1>1, <1>2, <1>3 DEF P!ProposeUndo
<1>5. CardOK(cards[j]) /\ P!DataOK(book)
  BY DEF PlansInv
<1>6. Inverts(p, cards[j].was, cards[j].left)
  BY <1>1, <1>4, <1>5 DEF CardOK
<1>7. \A o \in DOMAIN p.after : book[o] # Null
  BY <1>1, <1>4 DEF PlansInv, ChangedRows
<1>8. Shape(q) /\ SeenAs(q, book)
  BY <1>2, <1>3, <1>4, <1>5, <1>6, <1>7, UndoReady
<1>9. PICK r : r = [kind |-> "undo", of |-> j, plan |-> q, after |-> <<>>]
  OBVIOUS
<1>10. Suits(r)
  BY <1>8, <1>9 DEF Suits
<1> QED BY <1>4, <1>9, <1>10, ProposeKeeps

LEMMA ApproveUndoStep ==
  ASSUME PlansInv, NEW k \in Card, P!ApproveUndo(k)
  PROVE  PlansInv'
<1>1. PICK p : p = cards[k].plan.plan
  OBVIOUS
<1>2. PICK of : of = cards[k].plan.of
  OBVIOUS
<1>3. /\ cards[k].status = "pending" /\ cards[k].plan.kind = "undo" /\ cards[of].status = "applied"
      /\ P!Fits(p) /\ book' = P!Applied(p) /\ touches' = touches
      /\ cards' = [cards EXCEPT ![k].status = "applied", ![k].was = book, ![k].left = book',
                                ![of].status = "undone"]
  BY <1>1, <1>2 DEF P!ApproveUndo
<1>4. P!DataOK(book) /\ CardOK(cards[k]) /\ DOMAIN cards = Card /\ touches \in 0..MaxTouches
  BY DEF PlansInv
<1>5. Shape(p)
  BY <1>1, <1>3, <1>4 DEF CardOK, PendingOK
<1>6. P!DataOK(book') /\ \A x \in P!Object : book'[x] = Null <=> book[x] = Null
  <2>1. PICK new : new = book'
    OBVIOUS
  <2>2. P!DataOK(new) /\ \A x \in P!Object : new[x] = Null <=> book[x] = Null
    BY <1>3, <1>4, <1>5, <2>1, AppliedIs
  <2> QED BY <2>1, <2>2
<1>7. of # k
  BY <1>3
<1> DEFINE c == [cards[k] EXCEPT !.status = "applied", !.was = book, !.left = book']
           u(j) == [cards[j] EXCEPT !.status = "undone"]
<1>8. DOMAIN cards' = Card /\ cards'[k] = c
      /\ \A j \in Card : j # k => cards'[j] = IF j = of THEN u(j) ELSE cards[j]
  BY <1>3, <1>4, <1>7
<1>9. DOMAIN c = CardFields /\ c.status = "applied" /\ c.plan = cards[k].plan
  BY <1>4 DEF CardOK, CardFields
<1>10. \A j \in Card : DOMAIN u(j) = CardFields /\ u(j).status = "undone"
  BY DEF PlansInv, CardOK, CardFields
<1> HIDE DEF c, u
<1>11. CardOK(c) /\ PlannedRows(c) = {} /\ ChangedRows(c) = {}
  BY <1>3, <1>9 DEF CardOK, PlannedRows, ChangedRows
<1>12. \A j \in Card : CardOK(u(j)) /\ PlannedRows(u(j)) = {} /\ ChangedRows(u(j)) = {}
  BY <1>10 DEF CardOK, PlannedRows, ChangedRows
<1>13. \A j \in Card : CardOK(cards'[j])
  BY <1>8, <1>11, <1>12 DEF PlansInv
<1>14. \A j \in Card : /\ PlannedRows(cards'[j]) \subseteq PlannedRows(cards[j])
                       /\ ChangedRows(cards'[j]) \subseteq ChangedRows(cards[j])
  BY <1>8, <1>11, <1>12
<1>15. \A j \in Card : \A o \in PlannedRows(cards'[j]) : book'[o] = Null
  BY <1>6, <1>14, CardRows DEF PlansInv
<1>16. \A j \in Card : \A o \in ChangedRows(cards'[j]) : book'[o] # Null
  BY <1>6, <1>14, CardRows DEF PlansInv
<1>17. \A i, j \in Card : i # j => PlannedRows(cards'[i]) \cap PlannedRows(cards'[j]) = {}
  BY <1>14 DEF PlansInv
<1> QED BY <1>3, <1>4, <1>6, <1>8, <1>13, <1>15, <1>16, <1>17 DEF PlansInv

LEMMA InitPlans ==
  ASSUME P!Init
  PROVE  PlansInv
<1>1. P!DataOK(book)
  BY PlansFit DEF P!Init, P!PlansAssumption
<1>2. DOMAIN cards = Card /\ \A k \in Card : cards[k] = P!NoCard
  BY DEF P!Init
<1>3. DOMAIN P!NoCard = CardFields /\ P!NoCard.status = "none"
  BY DEF P!NoCard, CardFields
<1>4. CardOK(P!NoCard) /\ PlannedRows(P!NoCard) = {} /\ ChangedRows(P!NoCard) = {}
  BY <1>3 DEF CardOK, PlannedRows, ChangedRows
<1>5. touches \in 0..MaxTouches
  BY PlansFit DEF P!Init, P!PlansAssumption
<1> QED BY <1>1, <1>2, <1>4, <1>5 DEF PlansInv

LEMMA PlansStep ==
  ASSUME PlansInv, [P!Next]_(P!vars)
  PROVE  PlansInv'
<1>1. CASE P!User
  BY <1>1, UserStep
<1>2. CASE P!ProposeAny
  <2>1. \E p : Suits(p) /\ P!Propose(p)
    BY <1>2, ProposeAnySuits DEF PlansInv
  <2> QED BY <2>1, ProposeKeeps
<1>3. CASE \E k \in Card : P!Approve(k) \/ P!ProposeUndo(k) \/ P!ApproveUndo(k)
  BY <1>3, ApproveStep, ProposeUndoStep, ApproveUndoStep
<1>4. CASE UNCHANGED P!vars
  BY <1>4 DEF P!vars, PlansInv
<1> QED BY <1>1, <1>2, <1>3, <1>4 DEF P!Next

-----------------------------------------------------------------------------
(* What an approval may do.                                                *)

\* A card's status becomes applied in no other way.
LEMMA ApprovedIs ==
  ASSUME PlansInv, [P!Next]_(P!vars), NEW k \in Card, P!Approved(k)
  PROVE  P!Approve(k) \/ P!ApproveUndo(k)
<1>1. cards[k].status = "pending" /\ cards'[k].status = "applied" /\ DOMAIN cards = Card
  BY DEF P!Approved, PlansInv
<1>2. \A j \in Card : DOMAIN cards[j] = CardFields
  BY DEF PlansInv, CardOK
<1>3. CASE P!User
  BY <1>1, <1>3, UserKeeps DEF KeepsRows, PlansInv
<1>4. CASE P!ProposeAny \/ \E j \in Card : P!ProposeUndo(j)
  <2>1. PICK p : P!Propose(p)
    BY <1>4, ProposeAnySuits DEF P!ProposeUndo, PlansInv
  <2>2. PICK j \in Card : /\ cards[j].status = "none"
                         /\ cards' = [cards EXCEPT ![j].status = "pending", ![j].plan = p, ![j].seen = book]
    BY <2>1 DEF P!Propose
  <2>3. cards'[k] = cards[k]
    BY <1>1, <2>2
  <2> QED BY <1>1, <2>3
<1>5. CASE \E j \in Card : P!Approve(j)
  <2>1. PICK j \in Card : P!Approve(j)
    BY <1>5
  <2>2. j # k => cards'[k] = cards[k]
    BY <1>1, <2>1 DEF P!Approve
  <2> QED BY <1>1, <2>1, <2>2
<1>6. CASE \E j \in Card : P!ApproveUndo(j)
  <2>1. PICK j \in Card : P!ApproveUndo(j)
    BY <1>6
  <2>2. PICK of : of = cards[j].plan.of
    OBVIOUS
  <2>3. cards[of].status = "applied" /\ cards' = [cards EXCEPT ![j].status = "applied", ![j].was = book, ![j].left = book',
                                                               ![of].status = "undone"]
    BY <2>1, <2>2 DEF P!ApproveUndo
  <2>4. k # of
    BY <1>1, <2>3
  <2>5. j # k => cards'[k] = cards[k]
    BY <1>1, <2>3, <2>4
  <2> QED BY <1>1, <2>1, <2>5
<1>7. CASE UNCHANGED P!vars
  BY <1>1, <1>7 DEF P!vars
<1> QED BY <1>3, <1>4, <1>5, <1>6, <1>7 DEF P!Next

\* An applied plan changes fields that have the values it was proposed for.
LEMMA AppliedLoses ==
  ASSUME P!DataOK(book), NEW seen, P!DataOK(seen), NEW p, Shape(p), SeenAs(p, seen), P!Fits(p),
         NEW o \in P!Object, book[o] # Null, NEW f \in FieldsOf(o), P!Applied(p)[o][f] # book[o][f]
  PROVE  seen[o] # Null /\ book[o][f] = seen[o][f]
<1>1. /\ P!AsShown(p)
      /\ \/ p.kind = "allocate" /\ o = Paid /\ f = "marked"
         \/ o \in DOMAIN p.after /\ f \in DOMAIN p.after[o]
  BY AppliedIs
<1>2. CASE o \in DOMAIN p.after /\ f \in DOMAIN p.after[o]
  <2>1. f \in DOMAIN p.before[o]
    BY <1>2 DEF Shape
  <2>2. book[o][f] = p.before[o][f]
    BY <1>1, <1>2, <2>1, ShownIs
  <2>3. seen[o] # Null /\ p.before[o][f] = seen[o][f]
    BY <1>2, <2>1 DEF SeenAs
  <2> QED BY <2>2, <2>3
<1>3. CASE p.kind = "allocate" /\ o = Paid /\ f = "marked"
  <2>1. P!RowsOK(book) /\ P!RowsOK(seen)
    BY DEF P!DataOK
  <2>2. book[Paid].marked \in BOOLEAN /\ seen[Paid].marked \in BOOLEAN /\ seen[Paid] # Null
    BY <2>1, PaidRow
  <2>3. P!Marked(p)[Paid].marked = (book[Paid].marked \/ p.mark = "set")
    BY <2>1, MarkedIs
  <2> DEFINE cleared == p.mark = "clear" /\ \A e \in P!Expense :
               After(p, DOMAIN p.after)[e] # Null => After(p, DOMAIN p.after)[e].share = 0
  <2>4. P!Applied(p)[Paid].marked = (P!Marked(p)[Paid].marked /\ ~cleared)
    BY <1>3, <2>1, AllocatedIs
  <2>5. cleared => p.mark = "clear"
    OBVIOUS
  <2> HIDE DEF cleared
  <2>6. (p.mark = "set" => ~seen[Paid].marked) /\ (p.mark = "clear" => seen[Paid].marked)
    BY <1>3 DEF SeenAs
  <2>7. CASE book[Paid].marked
    <3>1. p.mark = "clear"
      BY <1>3, <2>2, <2>3, <2>4, <2>5, <2>7
    <3> QED BY <1>3, <2>2, <2>6, <2>7, <3>1
  <2>8. CASE ~book[Paid].marked
    <3>1. p.mark = "set"
      BY <1>3, <2>2, <2>3, <2>4, <2>5, <2>8
    <3> QED BY <1>3, <2>2, <2>6, <2>8, <3>1
  <2> QED BY <2>7, <2>8
<1> QED BY <1>1, <1>2, <1>3

\* The plan a pending card writes, what it saw, and the step it takes.
LEMMA WrittenIs ==
  ASSUME PlansInv, NEW k \in Card, P!Approve(k) \/ P!ApproveUndo(k)
  PROVE  /\ P!DataOK(cards[k].seen)
         /\ \/ P!Approve(k) /\ cards[k].plan.kind = "create"
            \/ \E p : /\ p = (IF cards[k].plan.kind = "undo" THEN cards[k].plan.plan ELSE cards[k].plan)
                      /\ Shape(p) /\ SeenAs(p, cards[k].seen) /\ P!Fits(p) /\ book' = P!Applied(p)
<1>1. cards[k].status = "pending"
  BY DEF P!Approve, P!ApproveUndo
<1>2. PendingOK(cards[k])
  BY <1>1 DEF PlansInv, CardOK
<1>3. CASE P!Approve(k)
  <2>1. cards[k].plan.kind # "undo" /\ P!Fits(cards[k].plan) /\ book' = P!Applied(cards[k].plan)
    BY <1>3 DEF P!Approve
  <2> QED BY <1>2, <1>3, <2>1 DEF PendingOK
<1>4. CASE P!ApproveUndo(k)
  <2>1. cards[k].plan.kind = "undo" /\ P!Fits(cards[k].plan.plan) /\ book' = P!Applied(cards[k].plan.plan)
    BY <1>4 DEF P!ApproveUndo
  <2> QED BY <1>2, <2>1 DEF PendingOK
<1> QED BY <1>3, <1>4

LEMMA ApprovalLoses ==
  ASSUME PlansInv, [P!Next]_(P!vars), NEW k \in Card, P!Approved(k),
         NEW o \in P!There(P!Object), NEW f \in DOMAIN book[o], book'[o][f] # book[o][f]
  PROVE  cards[k].seen[o] # Null /\ book[o][f] = cards[k].seen[o][f]
<1>1. P!Approve(k) \/ P!ApproveUndo(k)
  BY ApprovedIs
<1>2. o \in P!Object /\ book[o] # Null /\ P!DataOK(book)
  BY DEF P!There, PlansInv
<1>3. f \in FieldsOf(o)
  BY <1>2, RowIs DEF P!DataOK
<1>4. PICK seen : seen = cards[k].seen
  OBVIOUS
<1>5. CASE P!Approve(k) /\ cards[k].plan.kind = "create"
  <2>1. cards[k].status = "pending" /\ P!Fits(cards[k].plan) /\ book' = P!Applied(cards[k].plan)
    BY <1>5 DEF P!Approve
  <2>2. PendingOK(cards[k])
    BY <2>1 DEF PlansInv, CardOK
  <2>3. PICK x \in P!Object : Creates(cards[k].plan, x, seen)
    BY <1>4, <1>5, <2>2 DEF PendingOK
  <2>4. x \in PlannedRows(cards[k])
    BY <1>5, <2>1, <2>3, CreatesIs DEF PlannedRows
  <2>5. book[x] = Null
    BY <2>4 DEF PlansInv
  <2>6. PICK p, new : p = cards[k].plan /\ new = book'
    OBVIOUS
  <2>7. \A y \in P!Object : y # x => new[y] = book[y]
    BY <1>2, <2>1, <2>3, <2>5, <2>6, CreateKeeps
  <2> QED BY <1>2, <2>5, <2>6, <2>7
<1>6. CASE \E p : Shape(p) /\ SeenAs(p, seen) /\ P!Fits(p) /\ book' = P!Applied(p)
  <2>1. PICK p : Shape(p) /\ SeenAs(p, seen) /\ P!Fits(p) /\ book' = P!Applied(p)
    BY <1>6
  <2>2. P!DataOK(seen) /\ P!Applied(p)[o][f] # book[o][f]
    BY <1>1, <1>4, <2>1, WrittenIs
  <2>3. seen[o] # Null /\ book[o][f] = seen[o][f]
    BY <1>2, <1>3, <2>1, <2>2, AppliedLoses
  <2> QED BY <1>4, <2>3
<1> QED BY <1>1, <1>4, <1>5, <1>6, WrittenIs

LEMMA ApprovalWithin ==
  ASSUME PlansInv, [P!Next]_(P!vars), NEW k \in Card, P!Approved(k),
         NEW plan, plan = (IF cards[k].plan.kind = "undo" THEN cards[k].plan.plan ELSE cards[k].plan),
         NEW grown, grown = {e \in DOMAIN plan.after \cap P!Expense : book'[e].share > 0},
         plan.kind = "allocate", grown # {}
  PROVE  /\ P!Spent(book') <= book'[Paid].cents
         /\ \A e \in grown : book'[e].share + book'[e].other <= book'[e].cents
<1>1. P!Approve(k) \/ P!ApproveUndo(k)
  BY ApprovedIs
<1>2. P!DataOK(book) /\ P!RowsOK(book)
  BY DEF PlansInv, P!DataOK
<1>3. ~(P!Approve(k) /\ cards[k].plan.kind = "create")
  OBVIOUS
<1>4. Shape(plan) /\ P!Fits(plan) /\ book' = P!Applied(plan)
  BY <1>1, <1>3, WrittenIs
<1>5. PICK new : new = book'
  OBVIOUS
<1>6. new = P!Applied(plan) /\ P!AsShown(plan) /\ P!DataOK(new)
  BY <1>2, <1>4, <1>5, AppliedIs
<1>7. \A e \in grown : e \in DOMAIN plan.after /\ e \in P!Expense /\ new[e].share > 0
  BY <1>5
<1>8. \A e \in grown : book[e] # Null /\ new[e] # Null /\ new[e].share = plan.after[e].share
  <2>1. \A e \in DOMAIN plan.after : book[e] # Null
    BY <1>4, <1>6, ShownIs
  <2> QED BY <1>2, <1>4, <1>6, <1>7, <2>1, SharesAre
<1>9. PICK g \in grown : TRUE
  OBVIOUS
<1>10. g \in DOMAIN plan.after /\ plan.after[g].share # 0
  BY <1>7, <1>8, <1>9
<1>11. P!Spent(new) <= new[Paid].cents
  BY <1>2, <1>4, <1>6, <1>10, AllocatedWithin
<1>12. \A e \in grown : new[e].share + new[e].other <= new[e].cents
  BY <1>6, <1>7, <1>8 DEF P!DataOK, P!SharesCovered
<1> QED BY <1>5, <1>11, <1>12

-----------------------------------------------------------------------------
(* When an approval works.                                                 *)

\* Each write of an allocation stays within Paid, when what is allocated before the
\* first and after the last does: until the growing ones nothing is above what it was,
\* from then on nothing is above what it will be.
LEMMA PrefixWithin ==
  ASSUME NEW p, Shape(p), p.kind = "allocate", P!AsShown(p), P!RowsOK(book), NEW e \in DOMAIN p.after,
         P!Spent(book) <= book[Paid].cents, P!Spent(After(p, DOMAIN p.after)) <= book[Paid].cents
  PROVE  P!Spent(After(p, P!Earlier(p, e) \cup {e})) <= book[Paid].cents
<1> DEFINE S == P!Earlier(p, e) \cup {e}
           then == After(p, S)
           whole == After(p, DOMAIN p.after)
<1>1. S \in SUBSET DOMAIN p.after /\ DOMAIN p.after \in SUBSET DOMAIN p.after
  BY OrderIs
<1>2. /\ P!RowsOK(then) /\ P!RowsOK(whole)
      /\ LiveExpense(then) = LiveExpense(book) /\ LiveExpense(whole) = LiveExpense(book)
  BY <1>1, AfterIs, AfterLive
<1>3. /\ \A d \in S : P!Growth(p, d) <= P!Growth(p, e)
      /\ \A d \in DOMAIN p.after : d \notin S => P!Growth(p, d) >= P!Growth(p, e)
      /\ \A d \in DOMAIN p.after : /\ P!Growth(p, d) = p.after[d].share - book[d].share /\ P!Growth(p, d) \in Int
                                   /\ p.after[d].share \in Nat /\ book[d].share \in Nat
  <2>1. \A d \in DOMAIN p.after : /\ P!Growth(p, d) = p.after[d].share - book[d].share /\ P!Growth(p, d) \in Int
                                  /\ p.after[d].share \in Nat /\ book[d].share \in Nat
    BY GrowthIs
  <2>2. \A d \in P!Earlier(p, e) : P!Growth(p, d) <= P!Growth(p, e)
    BY OrderIs
  <2>3. \A d \in DOMAIN p.after : d \notin P!Earlier(p, e) => P!Growth(p, d) >= P!Growth(p, e)
    BY OrderIs
  <2> QED BY <2>1, <2>2, <2>3
<1>4. \A d \in LiveExpense(book) : /\ d \in P!Object /\ d # Paid /\ d \in P!Expense /\ book[d] # Null
  BY PaidIs DEF LiveExpense
<1>5. \A d \in LiveExpense(book) : book[d].share \in Nat
  BY ShareIs DEF LiveExpense
<1>6. /\ \A d \in S : then[d].share = p.after[d].share
      /\ \A d \in DOMAIN p.after : whole[d].share = p.after[d].share
      /\ \A d \in LiveExpense(book) : /\ d \notin S => then[d].share = book[d].share
                                      /\ d \notin DOMAIN p.after => whole[d].share = book[d].share
  <2>1. \A d \in S : then[d].share = p.after[d].share
    BY <1>1, AfterIs
  <2>2. \A d \in DOMAIN p.after : whole[d].share = p.after[d].share
    BY <1>1, AfterIs
  <2>3. \A d \in LiveExpense(book) : d \notin S => then[d] = book[d]
    BY <1>1, <1>4, AfterIs
  <2>4. \A d \in LiveExpense(book) : d \notin DOMAIN p.after => whole[d] = book[d]
    BY <1>1, <1>4, AfterIs
  <2> QED BY <2>1, <2>2, <2>3, <2>4
<1>7. book[Paid].cents \in Nat
  BY PaidRow
<1> HIDE DEF S, then, whole
<1>8. CASE P!Growth(p, e) <= 0
  <2>1. ASSUME NEW d \in LiveExpense(book) PROVE then[d].share <= book[d].share
    <3>1. CASE d \in S
      <4>1. d \in DOMAIN p.after
        BY <1>1, <3>1
      <4>2. P!Growth(p, d) <= 0 /\ P!Growth(p, e) \in Int
        BY <1>3, <1>8, <3>1, <4>1
      <4>3. p.after[d].share <= book[d].share
        BY <1>3, <4>1, <4>2
      <4> QED BY <1>6, <3>1, <4>3
    <3>2. CASE d \notin S
      BY <1>5, <1>6, <2>1, <3>2
    <3> QED BY <3>1, <3>2
  <2>2. P!Spent(then) <= P!Spent(book) /\ P!Spent(then) \in Int /\ P!Spent(book) \in Int
    BY <1>2, <2>1, SpentLess
  <2> QED BY <1>7, <2>2 DEF then, S
<1>9. CASE ~(P!Growth(p, e) <= 0)
  <2>1. ASSUME NEW d \in LiveExpense(book) PROVE then[d].share <= whole[d].share
    <3>1. CASE d \in S
      BY <1>1, <1>3, <1>6, <3>1
    <3>2. CASE d \notin S /\ d \in DOMAIN p.after
      <4>1. P!Growth(p, d) >= P!Growth(p, e) /\ P!Growth(p, e) \in Int /\ P!Growth(p, d) \in Int
        BY <1>3, <3>2
      <4>2. p.after[d].share >= book[d].share
        BY <1>3, <1>9, <3>2, <4>1
      <4> QED BY <1>3, <1>6, <2>1, <3>2, <4>2
    <3>3. CASE d \notin S /\ d \notin DOMAIN p.after
      BY <1>5, <1>6, <2>1, <3>3
    <3> QED BY <3>1, <3>2, <3>3
  <2>2. P!Spent(then) <= P!Spent(whole) /\ P!Spent(then) \in Int /\ P!Spent(whole) \in Int
    BY <1>2, <2>1, SpentLess
  <2>3. P!Spent(whole) <= book[Paid].cents
    BY DEF whole
  <2> QED BY <1>7, <2>2, <2>3 DEF then, S
<1> QED BY <1>8, <1>9

\* What an allocation's approval asks comes down to.
LEMMA AllocateFitsIf ==
  ASSUME NEW p, Shape(p), p.kind = "allocate", P!AsShown(p), P!RowsOK(book),
         p.shown # Null => P!StillShown(p.shown),
         book[Paid].live, P!Marked(p)[Paid].marked,
         P!Spent(book) <= book[Paid].cents, P!Spent(After(p, DOMAIN p.after)) <= book[Paid].cents,
         \A e \in DOMAIN p.after : book[e].live /\ book[e].other + p.after[e].share <= book[e].cents
  PROVE  P!AllocateFits(p)
<1>1. Paid \in P!Live
  BY PaidRow, PaidIs, LiveIs
<1>2. ASSUME NEW e \in DOMAIN p.after
      PROVE  P!CanUpsert(P!Over(P!Marked(p), P!Restrict(p.after, P!Earlier(p, e))), e, p.after[e].share)
  <2>1. P!Spent(After(p, P!Earlier(p, e) \cup {e})) <= book[Paid].cents
    BY <1>2, PrefixWithin
  <2>2. PICK n : n = p.after[e].share
    OBVIOUS
  <2>3. book[e].live /\ book[e].other + n <= book[e].cents
    BY <1>2, <2>2
  <2>4. P!CanUpsert(After(p, P!Earlier(p, e)), e, n)
    BY <1>2, <2>1, <2>2, <2>3, UpsertIs
  <2> QED BY <2>2, <2>4 DEF After
<1> QED BY <1>1, <1>2 DEF P!AllocateFits

LEMMA WorksFor ==
  ASSUME P!DataOK(book), NEW p, Shape(p), SeenAs(p, book), Sound(p, book), P!Spent(book) <= book[Paid].cents
  PROVE  P!Fits(p)
<1>1. P!AsShown(p) /\ p.kind \in PlanKind /\ P!RowsOK(book)
  <2>1. \A o \in DOMAIN p.after :
          book[o] # Null /\ \A f \in DOMAIN p.before[o] : book[o][f] = p.before[o][f]
    BY DEF SeenAs
  <2> QED BY <2>1, ShownIs DEF Shape, P!DataOK
<1>2. CASE p.kind = "edit"
  BY <1>1, <1>2 DEF P!Fits, P!EditFits, Sound
<1>3. CASE p.kind \in {"trash", "restore", "archive", "end"}
  BY <1>1, <1>3 DEF P!Fits
<1>4. CASE p.kind = "rename"
  <2>1. \A c \in DOMAIN p.after : P!NameFree(p.after[c].name, c)
    BY <1>4, FreeIs DEF Sound
  <2> QED BY <1>1, <1>4, <2>1 DEF P!Fits, P!RenameFits
<1>5. CASE p.kind = "allocate"
  <2>1. /\ book[Paid].live /\ p.mark = (IF book[Paid].marked THEN "keep" ELSE "set")
        /\ \A e \in DOMAIN p.after :
             book[e].live /\ p.after[e].share # 0 /\ p.after[e].share + book[e].other <= book[e].cents
        /\ P!Spent(P!Over(book, p.after)) <= book[Paid].cents
    BY <1>5 DEF Sound
  <2>2. P!StillShown(p.shown)
    <3>1. /\ p.shown.cents = book[Paid].cents
          /\ p.shown.allocated = [e \in {d \in P!Expense : book[d] # Null} |-> book[e].share]
          /\ \A e \in DOMAIN p.shown.expenses :
               e \in DOMAIN p.after /\ p.shown.expenses[e] = book[e].cents
      BY <1>5 DEF Sound
    <3>2. \A e \in DOMAIN p.shown.expenses : book[e].live /\ book[e].cents = p.shown.expenses[e]
      BY <2>1, <3>1
    <3> QED BY <3>1, <3>2 DEF P!StillShown, P!There
  <2>3. P!Marked(p)[Paid].marked
    BY <1>1, <2>1, MarkedIs
  <2>4. \A e \in DOMAIN p.after : book[e].live /\ book[e].other + p.after[e].share <= book[e].cents
    <3>1. ASSUME NEW e \in DOMAIN p.after PROVE book[e].live /\ book[e].other + p.after[e].share <= book[e].cents
      <4>1. book[e].other \in Nat /\ p.after[e].share \in Nat
        <5>1. p.after[e].share \in Nat /\ e \in P!Expense /\ book[e] # Null
          BY <1>1, <1>5, <3>1, GrowthIs
        <5> QED BY <1>1, <5>1, ShareIs
      <4>2. p.after[e].share + book[e].other <= book[e].cents
        BY <2>1, <3>1
      <4>3. p.after[e].share + book[e].other = book[e].other + p.after[e].share
        BY <4>1
      <4> QED BY <2>1, <3>1, <4>2, <4>3
    <3> QED BY <3>1
  <2>5. P!Spent(After(p, DOMAIN p.after)) <= book[Paid].cents
    <3> DEFINE whole == After(p, DOMAIN p.after)
               over == P!Over(book, p.after)
    <3>1. DOMAIN p.after \in SUBSET DOMAIN p.after
      OBVIOUS
    <3>2. P!RowsOK(whole) /\ LiveExpense(whole) = LiveExpense(book)
      BY <1>1, <1>5, <3>1, AfterIs, AfterLive
    <3>3. /\ P!RowsOK(over)
          /\ \A o \in P!Object :
               /\ over[o] = Null <=> book[o] = Null
               /\ book[o] # Null => \A f \in FieldsOf(o) :
                    over[o][f] = IF o \in DOMAIN p.after /\ f \in DOMAIN p.after[o] THEN p.after[o][f] ELSE book[o][f]
      <4>1. \A o \in DOMAIN p.after : o \in P!Object /\ book[o] # Null /\ PartOf(o, p.after[o])
        BY <1>1, ShownIs, TableFacts DEF Shape
      <4> QED BY <1>1, <4>1, OverRows
    <3>4. \A e \in DOMAIN p.after : DOMAIN p.after[e] = {"share"} /\ e \in P!Expense
      <4>1. Written(p.kind) = {"share"} /\ TableOf(p.kind) = P!Expense
        BY <1>5 DEF Written, TableOf
      <4>2. \A e \in DOMAIN p.after : DOMAIN p.after[e] \subseteq {"share"} /\ {"share"} \subseteq DOMAIN p.after[e] \cup {"notes"}
        BY <4>1 DEF Shape
      <4> QED BY <4>1, <4>2 DEF Shape
    <3>5. \A e \in P!Expense : e \in P!Object /\ e # Paid /\ FieldsOf(e) = TxnFields
      BY PaidIs DEF FieldsOf
    <3> HIDE DEF whole, over
    <3>6. \A e \in P!Expense : book[e] # Null =>
            /\ over[e] # Null /\ over[e].live = book[e].live
            /\ over[e].share = IF e \in DOMAIN p.after THEN p.after[e].share ELSE book[e].share
      BY <3>3, <3>4, <3>5 DEF TxnFields
    <3>7. \A e \in P!Expense : book[e] = Null => over[e] = Null
      BY <3>3, <3>5
    <3>8. LiveExpense(over) = LiveExpense(book)
      BY <3>6, <3>7 DEF LiveExpense
    <3>9. \A e \in LiveExpense(whole) : whole[e].share = over[e].share
      <4>1. ASSUME NEW e \in LiveExpense(whole) PROVE whole[e].share = over[e].share
        <5>1. e \in P!Expense /\ book[e] # Null
          BY <3>2, <4>1 DEF LiveExpense
        <5>2. CASE e \in DOMAIN p.after
          <6>1. whole[e].share = p.after[e].share
            BY <1>1, <1>5, <3>1, <5>2, AfterIs DEF whole
          <6> QED BY <3>6, <5>1, <5>2, <6>1
        <5>3. CASE e \notin DOMAIN p.after
          <6>1. whole[e] = book[e]
            BY <1>1, <1>5, <3>1, <3>5, <5>1, <5>3, AfterIs DEF whole
          <6> QED BY <3>6, <5>1, <5>3, <6>1
        <5> QED BY <5>2, <5>3
      <4> QED BY <4>1
    <3>10. P!Spent(whole) = P!Spent(over)
      BY <3>2, <3>3, <3>8, <3>9, SpentSame
    <3> QED BY <2>1, <3>10 DEF whole, over
  <2> QED BY <1>1, <1>5, <2>1, <2>2, <2>3, <2>4, <2>5, AllocateFitsIf DEF P!Fits
<1> QED BY <1>1, <1>2, <1>3, <1>4, <1>5 DEF PlanKind

LEMMA CardsWork ==
  ASSUME PlansInv
  PROVE  P!ApprovalWorks
<1>1. ASSUME NEW k \in Card, cards[k].status = "pending", cards[k].plan.kind # "undo", book = cards[k].seen,
             P!Spent(book) <= book[Paid].cents
      PROVE  P!Fits(cards[k].plan)
  <2>1. PICK p, seen : p = cards[k].plan /\ seen = cards[k].seen
    OBVIOUS
  <2>2. PendingOK(cards[k]) /\ P!DataOK(book) /\ seen = book
    BY <1>1, <2>1 DEF PlansInv, CardOK
  <2>3. CASE p.kind = "create"
    <3>1. PICK o \in P!Object : Creates(p, o, seen)
      BY <2>1, <2>2, <2>3 DEF PendingOK
    <3>2. DOMAIN p.after = {o} /\ (o \in Category => FreeIn(seen, p.after[o].name, o))
      BY <3>1, CreatesIs
    <3>3. o \in Category => P!NameFree(p.after[o].name, o)
      BY <2>2, <3>2, FreeIs
    <3>4. P!CreateFits(p)
      BY <3>2, <3>3 DEF P!CreateFits
    <3> QED BY <2>1, <2>3, <3>4 DEF P!Fits
  <2>4. CASE p.kind # "create"
    <3>1. Shape(p) /\ SeenAs(p, seen) /\ Sound(p, seen)
      BY <1>1, <2>1, <2>2, <2>4 DEF PendingOK
    <3>2. SeenAs(p, book) /\ Sound(p, book)
      BY <2>2, <3>1
    <3> QED BY <1>1, <2>1, <2>2, <3>1, <3>2, WorksFor
  <2> QED BY <2>3, <2>4
<1> QED BY <1>1 DEF P!ApprovalWorks

-----------------------------------------------------------------------------
(* What an undo restores.                                                  *)

\* While the data are as a change left them, all of its rows can be undone.
LEMMA AllUndone ==
  ASSUME P!DataOK(book), NEW p, NEW was, Inverts(p, was, book), NEW S, S = P!UndoneRows(p)
  PROVE  S = DOMAIN p.after /\ S # {} /\ P!AsShown(p)
<1>1. /\ Shape(p) /\ p.kind \in PlanKind /\ DOMAIN p.before = DOMAIN p.after /\ DOMAIN p.after # {}
      /\ DOMAIN p.after \subseteq TableOf(p.kind)
  BY DEF Inverts, Shape
<1>2. \A o \in DOMAIN p.after : book[o] # Null /\ \A f \in DOMAIN p.before[o] : book[o][f] = p.before[o][f]
  BY DEF Inverts
<1>3. P!AsShown(p)
  BY <1>1, <1>2, ShownIs
<1>4. CASE p.kind = "trash"
  <2>1. \A t \in DOMAIN p.before : book[t].live
    BY <1>1, <1>4 DEF Inverts
  <2> QED BY <1>1, <1>3, <1>4, <2>1 DEF P!UndoneRows
<1>5. CASE p.kind = "restore"
  <2>1. \A t \in DOMAIN p.before : ~book[t].live
    BY <1>1, <1>5 DEF Inverts
  <2> QED BY <1>1, <1>3, <1>5, <2>1 DEF P!UndoneRows
<1>6. CASE p.kind = "archive"
  <2>1. \A o \in DOMAIN p.before : book[o].archived = p.before[o].archived
    <3>1. \A o \in DOMAIN p.after : DOMAIN p.before[o] = {"archived"}
      BY <1>6 DEF Inverts
    <3> QED BY <1>1, <1>2, <3>1
  <2> QED BY <1>1, <1>3, <1>6, <2>1 DEF P!UndoneRows
<1>7. CASE p.kind = "edit"
  <2>1. \A t \in DOMAIN p.before : t \in P!Live
    <3>1. \A t \in DOMAIN p.before : t \in Txn /\ book[t] # Null /\ book[t].live
      BY <1>1, <1>2, <1>7 DEF Inverts, TableOf
    <3> QED BY <3>1, LiveIs
  <2> QED BY <1>1, <1>2, <1>3, <1>7, <2>1 DEF P!UndoneRows
<1>8. CASE p.kind = "rename"
  <2>1. \A c \in DOMAIN p.after : P!NameFree(p.after[c].name, c)
    BY <1>8, FreeIs DEF Inverts
  <2>2. P!RenameFits(p)
    BY <1>3, <2>1 DEF P!RenameFits
  <2> QED BY <1>1, <1>3, <1>8, <2>2 DEF P!UndoneRows
<1>9. CASE p.kind = "end"
  BY <1>1, <1>3, <1>9 DEF P!UndoneRows
<1>10. CASE p.kind = "allocate"
  <2>1. \A e \in DOMAIN p.before : e \in P!Live
    <3>1. \A e \in DOMAIN p.before : e \in P!Expense /\ book[e] # Null /\ book[e].live
      BY <1>1, <1>2, <1>10 DEF Inverts, TableOf
    <3> QED BY <3>1, LiveIs, PaidIs
  <2> QED BY <1>1, <1>3, <1>10, <2>1 DEF P!UndoneRows
<1> QED BY <1>1, <1>4, <1>5, <1>6, <1>7, <1>8, <1>9, <1>10 DEF PlanKind

\* What was there before an allocation: the same rows, with the shares its undo writes.
LEMMA WasAllocated ==
  ASSUME P!DataOK(book), NEW was, P!DataOK(was), NEW p, Inverts(p, was, book), p.kind = "allocate"
  PROVE  /\ \A e \in P!Expense : was[e] = Null <=> book[e] = Null
         /\ \A e \in P!Expense : book[e] # Null =>
              /\ was[e].live = book[e].live /\ was[e].other = book[e].other /\ was[e].cents = book[e].cents
              /\ was[e].share = IF e \in DOMAIN p.after THEN p.after[e].share ELSE book[e].share
         /\ was[Paid].cents = book[Paid].cents
         /\ LiveExpense(was) = LiveExpense(book)
<1>1. \A o \in P!Object :
        /\ was[o] # Null => book[o] # Null
        /\ was[o] = Null => book[o] = Null
        /\ was[o] # Null => \A f \in FieldsOf(o) :
             IF o \in DOMAIN p.after /\ f \in DOMAIN p.after[o] THEN p.after[o][f] = was[o][f]
             ELSE (p.kind = "allocate" /\ o = Paid /\ f = "marked") \/ book[o][f] = was[o][f]
  BY DEF Inverts
<1>2. \A e \in DOMAIN p.after : DOMAIN p.after[e] = {"share"} /\ e \in P!Expense
  <2>1. Written(p.kind) = {"share"} /\ TableOf(p.kind) = P!Expense
    BY DEF Written, TableOf
  <2>2. Shape(p)
    BY DEF Inverts
  <2>3. \A e \in DOMAIN p.after : DOMAIN p.after[e] \subseteq {"share"} /\ {"share"} \subseteq DOMAIN p.after[e] \cup {"notes"}
    BY <2>1, <2>2 DEF Shape
  <2> QED BY <2>1, <2>2, <2>3 DEF Shape
<1>3. \A e \in P!Expense : e \in P!Object /\ e # Paid /\ FieldsOf(e) = TxnFields
  BY PaidIs DEF FieldsOf
<1>4. \A e \in P!Expense : was[e] = Null <=> book[e] = Null
  BY <1>1, <1>3
<1>5. ASSUME NEW e \in P!Expense, book[e] # Null
      PROVE  /\ was[e].live = book[e].live /\ was[e].other = book[e].other /\ was[e].cents = book[e].cents
             /\ was[e].share = IF e \in DOMAIN p.after THEN p.after[e].share ELSE book[e].share
  <2>1. \A f \in TxnFields : IF e \in DOMAIN p.after /\ f = "share" THEN p.after[e][f] = was[e][f]
                             ELSE book[e][f] = was[e][f]
    BY <1>1, <1>2, <1>3, <1>4, <1>5
  <2> QED BY <2>1 DEF TxnFields
<1>6. was[Paid].cents = book[Paid].cents
  <2>1. Paid \in P!Object /\ was[Paid] # Null /\ FieldsOf(Paid) = TxnFields
    BY PaidIs, PaidRow DEF P!DataOK, FieldsOf
  <2>2. Paid \notin DOMAIN p.after
    BY <1>2, PaidIs
  <2> QED BY <1>1, <2>1, <2>2 DEF TxnFields
<1>7. LiveExpense(was) = LiveExpense(book)
  BY <1>4, <1>5 DEF LiveExpense
<1> QED BY <1>4, <1>5, <1>6, <1>7

LEMMA UndoFits ==
  ASSUME P!DataOK(book), NEW was, P!DataOK(was), NEW p, Inverts(p, was, book), P!Spent(was) <= was[Paid].cents,
         p.kind = "edit" => \A t \in DOMAIN p.after :
           p.after[t].category = book[t].category \/ ~book[p.after[t].category].archived,
         NEW S, S = P!UndoneRows(p), NEW q, q = P!UndoPlan(p, S)
  PROVE  P!Fits(q)
<1>1. S = DOMAIN p.after /\ S # {} /\ P!RowsOK(book) /\ P!RowsOK(was)
  BY AllUndone DEF P!DataOK
<1>2. \A o \in DOMAIN p.after : book[o] # Null
  BY DEF Inverts
<1>3. /\ Shape(q) /\ SeenAs(q, book) /\ q.kind = p.kind /\ DOMAIN q.after = S
      /\ p.kind \notin {"trash", "restore"} => \A o \in S : q.after[o] = p.after[o]
      /\ p.kind = "allocate" => q.mark = p.mark /\ q.shown = p.shown
  <2>1. S # {}
    BY <1>1
  <2> QED BY <1>2, <2>1, UndoReady
<1>4. P!AsShown(q) /\ q.kind \in PlanKind
  <2>1. Shape(q) /\ SeenAs(q, book)
    BY <1>3
  <2>2. \A o \in DOMAIN q.after :
          book[o] # Null /\ \A f \in DOMAIN q.before[o] : book[o][f] = q.before[o][f]
    BY <2>1 DEF SeenAs
  <2>3. P!AsShown(q)
    BY <2>1, <2>2, ShownIs
  <2> QED BY <2>1, <2>3 DEF Shape
<1>5. CASE q.kind = "edit"
  <2>1. \A t \in DOMAIN q.after : book[t].live
    BY <1>1, <1>3, <1>5 DEF Inverts
  <2>2. \A t \in DOMAIN q.after : q.after[t].category # book[t].category => ~book[q.after[t].category].archived
    BY <1>1, <1>3, <1>5
  <2> QED BY <1>4, <1>5, <2>1, <2>2 DEF P!Fits, P!EditFits
<1>6. CASE q.kind \in {"trash", "restore", "archive", "end"}
  BY <1>4, <1>6 DEF P!Fits
<1>7. CASE q.kind = "rename"
  <2>1. \A c \in DOMAIN q.after : P!NameFree(q.after[c].name, c)
    <3>1. \A c \in DOMAIN p.after : FreeIn(book, p.after[c].name, c)
      BY <1>3, <1>7 DEF Inverts
    <3>2. \A c \in DOMAIN p.after : q.after[c] = p.after[c]
      BY <1>1, <1>3, <1>7
    <3> QED BY <1>1, <1>3, <3>1, <3>2, FreeIs
  <2> QED BY <1>4, <1>7, <2>1 DEF P!Fits, P!RenameFits
<1>8. CASE q.kind = "allocate"
  <2>1. p.kind = "allocate" /\ q.shown = Null /\ \A e \in DOMAIN q.after : q.after[e] = p.after[e]
    BY <1>1, <1>3, <1>8 DEF Inverts
  <2>2. book[Paid].live /\ book[Paid].marked /\ P!Spent(book) <= book[Paid].cents
    BY <2>1 DEF Inverts
  <2>3. P!Marked(q)[Paid].marked
    BY <1>1, <2>2, MarkedIs
  <2>4. /\ \A e \in P!Expense : was[e] = Null <=> book[e] = Null
        /\ \A e \in P!Expense : book[e] # Null =>
             /\ was[e].live = book[e].live /\ was[e].other = book[e].other /\ was[e].cents = book[e].cents
             /\ was[e].share = IF e \in DOMAIN p.after THEN p.after[e].share ELSE book[e].share
        /\ was[Paid].cents = book[Paid].cents
        /\ LiveExpense(was) = LiveExpense(book)
    BY <2>1, WasAllocated
  <2>5. \A e \in DOMAIN q.after : book[e].live /\ book[e].other + q.after[e].share <= book[e].cents
    <3>1. ASSUME NEW e \in DOMAIN q.after PROVE book[e].other + q.after[e].share <= book[e].cents
      <4>1. e \in P!Expense /\ book[e] # Null /\ q.after[e].share \in Nat
        BY <1>1, <1>3, <1>4, <1>8, <3>1, GrowthIs
      <4>2. was[e] # Null /\ was[e].other = book[e].other /\ was[e].cents = book[e].cents /\ was[e].share = q.after[e].share
        BY <1>1, <1>3, <2>1, <2>4, <3>1, <4>1
      <4>3. was[e].share + was[e].other <= was[e].cents
        BY <4>1, <4>2 DEF P!DataOK, P!SharesCovered
      <4>4. was[e].other \in Nat
        BY <1>1, <4>1, <4>2, ShareIs
      <4> QED BY <4>1, <4>2, <4>3, <4>4
    <3>2. \A e \in DOMAIN q.after : book[e].live
      BY <1>1, <1>3, <2>1 DEF Inverts
    <3> QED BY <3>1, <3>2
  <2>6. P!Spent(After(q, DOMAIN q.after)) <= book[Paid].cents
    <3> DEFINE whole == After(q, DOMAIN q.after)
    <3>1. DOMAIN q.after \in SUBSET DOMAIN q.after
      OBVIOUS
    <3>2. P!RowsOK(whole) /\ LiveExpense(whole) = LiveExpense(book)
      BY <1>1, <1>3, <1>4, <1>8, <3>1, AfterIs, AfterLive
    <3>3. ASSUME NEW e \in LiveExpense(whole) PROVE whole[e].share = was[e].share
      <4>1. e \in P!Expense /\ book[e] # Null /\ e \in P!Object /\ e # Paid
        BY <3>2, <3>3, PaidIs DEF LiveExpense
      <4>2. CASE e \in DOMAIN q.after
        <5>1. whole[e].share = q.after[e].share
          BY <1>1, <1>3, <1>4, <1>8, <3>1, <4>2, AfterIs
        <5> QED BY <1>1, <1>3, <2>1, <2>4, <4>1, <4>2, <5>1
      <4>3. CASE e \notin DOMAIN q.after
        <5>1. whole[e] = book[e]
          BY <1>1, <1>3, <1>4, <1>8, <3>1, <4>1, <4>3, AfterIs
        <5> QED BY <1>1, <1>3, <2>4, <4>1, <4>3, <5>1
      <4> QED BY <4>2, <4>3
    <3> HIDE DEF whole
    <3>4. P!Spent(whole) = P!Spent(was)
      BY <1>1, <2>4, <3>2, <3>3, SpentSame
    <3> QED BY <2>4, <3>4 DEF whole
  <2> QED BY <1>1, <1>3, <1>4, <1>8, <2>1, <2>2, <2>3, <2>5, <2>6, AllocateFitsIf DEF P!Fits
<1> QED BY <1>4, <1>5, <1>6, <1>7, <1>8 DEF PlanKind

LEMMA RowSame ==
  ASSUME NEW o \in P!Object, NEW a \in P!RowsOf(o), NEW b \in P!RowsOf(o), \A f \in FieldsOf(o) : a[f] = b[f]
  PROVE  a = b
<1>1. a = [f \in FieldsOf(o) |-> a[f]] /\ b = [f \in FieldsOf(o) |-> b[f]]
  BY RowFields
<1>2. [f \in FieldsOf(o) |-> a[f]] = [f \in FieldsOf(o) |-> b[f]]
  OBVIOUS
<1> QED BY <1>1, <1>2

LEMMA Restored ==
  ASSUME P!DataOK(book), NEW was, P!DataOK(was), NEW p, Inverts(p, was, book), P!Spent(was) <= was[Paid].cents,
         p.kind = "edit" => \A t \in DOMAIN p.after :
           p.after[t].category = book[t].category \/ ~book[p.after[t].category].archived,
         NEW S, S = P!UndoneRows(p), NEW q, q = P!UndoPlan(p, S), NEW data, data = P!Applied(q),
         NEW o \in P!There(P!Object)
  PROVE  IF was[o] # Null THEN data[o] = was[o]
         ELSE IF o \in Txn THEN ~data[o].live ELSE data[o].archived
<1>1. S = DOMAIN p.after /\ S # {} /\ P!RowsOK(book) /\ P!RowsOK(was) /\ P!Fits(q)
  BY AllUndone, UndoFits DEF P!DataOK
<1>2. \A x \in DOMAIN p.after : book[x] # Null
  BY DEF Inverts
<1>3. /\ Shape(q) /\ q.kind = p.kind /\ DOMAIN q.after = S
      /\ p.kind \in {"trash", "restore"} => \A t \in S :
           DOMAIN q.after[t] = {"live"} /\ q.after[t].live = (p.kind = "restore")
      /\ p.kind \notin {"trash", "restore"} => \A x \in S : q.after[x] = p.after[x]
      /\ p.kind = "allocate" => q.mark = p.mark /\ q.shown = p.shown
  <2>1. S # {}
    BY <1>1
  <2> QED BY <1>2, <2>1, UndoReady
<1>4. o \in P!Object /\ book[o] # Null
  BY DEF P!There
<1>5. /\ P!DataOK(data) /\ data[o] # Null
      /\ \A f \in FieldsOf(o) :
           \/ q.kind = "allocate" /\ o = Paid /\ f = "marked"
           \/ data[o][f] = IF o \in DOMAIN q.after /\ f \in DOMAIN q.after[o] THEN q.after[o][f] ELSE book[o][f]
  BY <1>1, <1>3, <1>4, AppliedIs
<1>6. Shape(p) /\ p.kind \in PlanKind
  BY DEF Inverts, Shape
<1>7. CASE was[o] # Null
  <2>1. \A f \in FieldsOf(o) :
          IF o \in DOMAIN p.after /\ f \in DOMAIN p.after[o] THEN p.after[o][f] = was[o][f]
          ELSE (p.kind = "allocate" /\ o = Paid /\ f = "marked") \/ book[o][f] = was[o][f]
    BY <1>4, <1>7 DEF Inverts
  <2>2. data[o] \in P!RowsOf(o) /\ was[o] \in P!RowsOf(o)
    BY <1>1, <1>4, <1>5, <1>7, RowIs DEF P!DataOK
  <2>3. ASSUME NEW f \in FieldsOf(o), ~(p.kind = "allocate" /\ o = Paid /\ f = "marked")
        PROVE  data[o][f] = was[o][f]
    <3>1. CASE o \notin DOMAIN p.after
      BY <1>1, <1>3, <1>5, <2>1, <2>3, <3>1
    <3>2. CASE o \in DOMAIN p.after /\ p.kind \notin {"trash", "restore"}
      <4>1. q.after[o] = p.after[o] /\ o \in DOMAIN q.after
        BY <1>1, <1>3, <3>2
      <4> QED BY <1>3, <1>5, <2>1, <2>3, <3>2, <4>1
    <3>3. CASE o \in DOMAIN p.after /\ p.kind = "trash"
      BY <1>7, <3>3 DEF Inverts
    <3>4. CASE o \in DOMAIN p.after /\ p.kind = "restore"
      <4>1. o \in DOMAIN q.after /\ DOMAIN q.after[o] = {"live"} /\ q.after[o].live = TRUE
        BY <1>1, <1>3, <3>4
      <4>2. was[o].live = TRUE
        <5>1. was[o].live /\ o \in Txn
          BY <3>4, <1>6 DEF Inverts, Shape, TableOf
        <5>2. was[o].live \in BOOLEAN
          BY <1>1, <1>7, <5>1, TxnIs, TxnFacts
        <5> QED BY <5>1, <5>2
      <4>3. \A g : g \in DOMAIN p.after[o] => g = "live"
        BY <1>6, <3>4 DEF Shape, Written
      <4>4. CASE f = "live"
        BY <1>3, <1>5, <2>3, <3>4, <4>1, <4>2, <4>4
      <4>5. CASE f # "live"
        <5>1. data[o][f] = book[o][f]
          BY <1>3, <1>5, <2>3, <3>4, <4>1, <4>5
        <5>2. book[o][f] = was[o][f]
          BY <2>1, <2>3, <4>3, <4>5
        <5> QED BY <5>1, <5>2
      <4> QED BY <4>4, <4>5
    <3> QED BY <3>1, <3>2, <3>3, <3>4
  <2>4. ASSUME p.kind = "allocate", o = Paid PROVE data[o].marked = was[o].marked
    <3>1. /\ book[Paid].marked /\ p.mark = (IF was[Paid].marked THEN "keep" ELSE "clear") /\ q.mark = p.mark
      BY <1>3, <2>4 DEF Inverts
    <3>2. book[Paid].marked \in BOOLEAN /\ was[Paid].marked \in BOOLEAN
      BY <1>1, PaidRow
    <3>3. P!Marked(q)[Paid].marked = TRUE
      BY <1>1, <3>1, <3>2, MarkedIs
    <3> DEFINE then == After(q, DOMAIN q.after)
               cleared == q.mark = "clear" /\ \A e \in P!Expense : then[e] # Null => then[e].share = 0
    <3>4. data[Paid].marked = (P!Marked(q)[Paid].marked /\ ~cleared)
      BY <1>1, <1>3, <2>4, AllocatedIs
    <3>5. ASSUME ~was[Paid].marked PROVE \A e \in P!Expense : then[e] # Null => then[e].share = 0
      <4>1. ASSUME NEW e \in P!Expense, then[e] # Null PROVE then[e].share = 0
        <5>1. P!AsShown(q) /\ DOMAIN q.after \in SUBSET DOMAIN q.after
          BY <1>1, <1>3, FitsShown
        <5>2. e \in P!Object /\ e # Paid
          BY PaidIs
        <5>3. book[e] # Null
          BY <1>1, <1>3, <2>4, <4>1, <5>1, <5>2, AfterIs
        <5>4. was[e] # Null /\ was[e].share = IF e \in DOMAIN p.after THEN p.after[e].share ELSE book[e].share
          BY <2>4, <5>3, WasAllocated
        <5>5. was[e].share = 0
          BY <3>5, <5>4 DEF P!DataOK, P!SharesMarked
        <5>6. CASE e \in DOMAIN q.after
          <6>1. then[e].share = q.after[e].share
            BY <1>1, <1>3, <2>4, <5>1, <5>6, AfterIs
          <6>2. q.after[e] = p.after[e] /\ e \in DOMAIN p.after
            BY <1>1, <1>3, <2>4, <5>6
          <6> QED BY <5>4, <5>5, <6>1, <6>2
        <5>7. CASE e \notin DOMAIN q.after
          <6>1. then[e] = book[e]
            BY <1>1, <1>3, <2>4, <5>1, <5>2, <5>7, AfterIs
          <6> QED BY <1>1, <1>3, <5>4, <5>5, <5>7, <6>1
        <5> QED BY <5>6, <5>7
      <4> QED BY <4>1
    <3> HIDE DEF then
    <3>6. CASE was[Paid].marked
      BY <2>4, <3>1, <3>2, <3>3, <3>4, <3>6
    <3>7. CASE ~was[Paid].marked
      BY <2>4, <3>1, <3>2, <3>3, <3>4, <3>5, <3>7
    <3> QED BY <3>6, <3>7
  <2>5. \A f \in FieldsOf(o) : data[o][f] = was[o][f]
    BY <2>3, <2>4
  <2>6. data[o] = was[o]
    BY <1>4, <2>2, <2>5, RowSame
  <2> QED BY <1>7, <2>6
<1>8. CASE was[o] = Null
  <2>1. /\ o \in DOMAIN p.after /\ DOMAIN p.after[o] # {}
        /\ IF o \in Txn THEN p.kind = "trash" ELSE p.kind = "archive" /\ p.after[o].archived
    BY <1>4, <1>8 DEF Inverts
  <2>2. CASE o \in Txn
    <3>1. p.kind = "trash" /\ o \in DOMAIN q.after /\ DOMAIN q.after[o] = {"live"} /\ q.after[o].live = FALSE
      BY <1>1, <1>3, <2>1, <2>2
    <3>2. "live" \in FieldsOf(o)
      BY <2>2 DEF FieldsOf, TxnFields
    <3>3. data[o].live = FALSE
      BY <1>3, <1>5, <3>1, <3>2
    <3> QED BY <1>8, <2>2, <3>3
  <2>3. CASE o \notin Txn
    <3>1. p.kind = "archive" /\ p.after[o].archived /\ q.after[o] = p.after[o] /\ o \in DOMAIN q.after
      BY <1>1, <1>3, <2>1, <2>3
    <3>2. "archived" \in DOMAIN p.after[o]
      <4>1. Written(p.kind) = {"archived"}
        BY <3>1 DEF Written
      <4>2. DOMAIN p.after[o] \subseteq {"archived"}
        BY <1>6, <2>1, <4>1 DEF Shape
      <4> QED BY <2>1, <4>2
    <3>3. "archived" \in FieldsOf(o)
      <4>1. "archived" \in Written(p.kind) /\ o \in TableOf(p.kind)
        BY <1>6, <2>1, <3>1 DEF Written, Shape
      <4> QED BY <1>6, <4>1, TableFacts
    <3>4. data[o].archived = p.after[o].archived
      BY <1>3, <1>5, <3>1, <3>2, <3>3
    <3> QED BY <1>8, <2>3, <3>1, <3>4
  <2> QED BY <2>2, <2>3
<1> QED BY <1>7, <1>8

LEMMA CardsRestore ==
  ASSUME PlansInv
  PROVE  P!UndoRestores
<1>1. ASSUME NEW k \in Card, NEW p, p = cards[k].inverse, NEW S, S = P!UndoneRows(p),
             cards[k].status = "applied", cards[k].plan.kind # "undo", book = cards[k].left,
             P!Spent(cards[k].was) <= cards[k].was[Paid].cents,
             p.kind = "edit" => \A t \in DOMAIN p.after :
               p.after[t].category = book[t].category \/ ~book[p.after[t].category].archived
      PROVE  /\ S # {} /\ P!Fits(P!UndoPlan(p, S))
             /\ LET data == P!Applied(P!UndoPlan(p, S)) IN \A o \in P!There(P!Object) :
                  IF cards[k].was[o] # Null THEN data[o] = cards[k].was[o]
                  ELSE IF o \in Txn THEN ~data[o].live ELSE data[o].archived
  <2>1. PICK was : was = cards[k].was
    OBVIOUS
  <2>2. P!DataOK(book) /\ P!DataOK(was) /\ Inverts(p, was, book)
    BY <1>1, <2>1 DEF PlansInv, CardOK
  <2>3. P!Spent(was) <= was[Paid].cents
    BY <1>1, <2>1
  <2>4. S # {}
    BY <1>1, <2>2, AllUndone
  <2>5. P!Fits(P!UndoPlan(p, S))
    BY <1>1, <2>2, <2>3, UndoFits
  <2>6. \A o \in P!There(P!Object) :
          IF was[o] # Null THEN P!Applied(P!UndoPlan(p, S))[o] = was[o]
          ELSE IF o \in Txn THEN ~P!Applied(P!UndoPlan(p, S))[o].live ELSE P!Applied(P!UndoPlan(p, S))[o].archived
    BY <1>1, <2>2, <2>3, Restored
  <2> QED BY <2>1, <2>4, <2>5, <2>6
<1> QED BY <1>1 DEF P!UndoRestores

LEMMA CardsTyped ==
  ASSUME PlansInv
  PROVE  P!TypeOK /\ P!NamesDiffer
BY DEF PlansInv, P!DataOK, CardOK, P!TypeOK, P!NamesDiffer

-----------------------------------------------------------------------------
LEMMA NextPlans == [PartNext]_allVars => [P!Next]_(P!vars)
BY DEF PartNext, allVars, plans, P!vars

(* While the data are as they were when a card was made it can be approved, *)
(* while they are as a change left them its undo puts back every row it    *)
(* touched, and no two categories come to share a name (apply_action,      *)
(* _undo_rows and the services they call): for any data, any changes of    *)
(* the user in between, and any number of cards.                           *)
THEOREM PlansStayGood == PartSpec => []PlansHold
<1>1. PartInit => PlansInv
  BY InitPlans DEF PartInit
<1>2. PlansInv /\ [PartNext]_allVars => PlansInv'
  BY NextPlans, PlansStep
<1>3. PlansInv => PlansHold
  BY CardsTyped, CardsWork, CardsRestore DEF PlansHold
<1> QED BY <1>1, <1>2, <1>3, PTL DEF PartSpec

(* No approval, nor an approved undo, overwrites a field the user changed  *)
(* after its card was made, and an approved allocation leaves no more      *)
(* allocated than the income has or than the expenses cost.                *)
THEOREM ApprovalsStaySafe == PartSpec => ApprovalsAreSafe
<1> DEFINE Loses == \A k \in Card : P!Approved(k) =>
             \A o \in P!There(P!Object) : \A f \in DOMAIN book[o] :
               book'[o][f] # book[o][f] => cards[k].seen[o] # Null /\ book[o][f] = cards[k].seen[o][f]
           Plan(k) == IF cards[k].plan.kind = "undo" THEN cards[k].plan.plan ELSE cards[k].plan
           Grown(k) == {e \in DOMAIN Plan(k).after \cap P!Expense : book'[e].share > 0}
           Within == \A k \in Card : P!Approved(k) =>
             (Plan(k).kind = "allocate" /\ Grown(k) # {} =>
                /\ P!Spent(book') <= book'[Paid].cents
                /\ \A e \in Grown(k) : book'[e].share + book'[e].other <= book'[e].cents)
<1>1. PartInit => PlansInv
  BY InitPlans DEF PartInit
<1>2. PlansInv /\ [PartNext]_allVars => PlansInv'
  BY NextPlans, PlansStep
<1>3. PlansInv /\ [PartNext]_allVars => [Loses]_(P!vars)
  BY NextPlans, ApprovalLoses
<1>4. PlansInv /\ [PartNext]_allVars => [Within]_(P!vars)
  <2>1. ASSUME PlansInv, [PartNext]_allVars, NEW k \in Card, P!Approved(k),
               Plan(k).kind = "allocate", Grown(k) # {}
        PROVE  /\ P!Spent(book') <= book'[Paid].cents
               /\ \A e \in Grown(k) : book'[e].share + book'[e].other <= book'[e].cents
    <3> DEFINE plan == Plan(k)
               grown == Grown(k)
    <3>1. plan = (IF cards[k].plan.kind = "undo" THEN cards[k].plan.plan ELSE cards[k].plan)
      OBVIOUS
    <3>2. grown = {e \in DOMAIN plan.after \cap P!Expense : book'[e].share > 0}
      OBVIOUS
    <3>3. plan.kind = "allocate" /\ grown # {} /\ [P!Next]_(P!vars)
      BY <2>1, NextPlans
    <3> HIDE DEF plan, grown
    <3>4. /\ P!Spent(book') <= book'[Paid].cents
          /\ \A e \in grown : book'[e].share + book'[e].other <= book'[e].cents
      BY <2>1, <3>1, <3>2, <3>3, ApprovalWithin
    <3> QED BY <3>4 DEF plan, grown
  <2> QED BY <2>1
<1> HIDE DEF Loses, Within
<1>5. PartSpec => [][Loses]_(P!vars) /\ [][Within]_(P!vars)
  BY <1>1, <1>2, <1>3, <1>4, PTL DEF PartSpec
<1> QED BY <1>5 DEF Loses, Plan, Grown, Within, ApprovalsAreSafe, P!LosesNothing, P!WithinAmounts
=============================================================================
