--------------------------- MODULE AssistantChat ---------------------------
(***************************************************************************)
(* One chat with the Assistant (ai/assistant.py): its turns, the changes   *)
(* the model proposed in them, and the requests and turns that clients     *)
(* have under way.                                                         *)
(*                                                                         *)
(* A request reads the chat, then writes; nothing locks what it read, so   *)
(* the two are steps of their own here.  Its first write takes SQLite's    *)
(* write lock until it commits.  A turn then runs in the background from a *)
(* copy of what it continues, and is saved in one commit, holding the lock.*)
(*                                                                         *)
(* A turn is what it shows, its approval cards, and which of the model's   *)
(* tool calls have no result in its messages.  Thinking, notes, text and   *)
(* the content of a change are left out: a change has an effect, or not.   *)
(***************************************************************************)
EXTENDS Integers, FiniteSets, FiniteSetsExt, Functions, TLC

CONSTANTS
  Client,     \* windows that use the chat; each has one request or turn running
  Call,       \* tool call ids; a backend may reuse them in later turns
  MaxTurns,   \* BOUND: turns of the chat
  MaxActions  \* BOUND: changes proposed in the chat

ASSUME AssistantAssumption == MaxTurns \in Nat /\ MaxActions \in Nat

VARIABLES
  chat,      \* the row: none, open or deleted
  turns,     \* assistant_turns: seq -> turn; a deleted turn may leave a gap
  actions,   \* assistant_actions by id; status none is a row not yet inserted
  effects,   \* how often each change was made to the user's data
  client     \* what each window is doing

vars == <<chat, turns, actions, effects, client>>

ActionId == 1..MaxActions
NoUndo == 0

Action == [call : Call, undoes : {NoUndo} \cup ActionId,
           status : {"proposed", "applied", "dismissed", "failed", "undone", "gone"}]
NoAction == [status |-> "none"]

\* unanswered: the tool calls without a result in messages_json.  row: tells the
\* turn from one that replaced it; SQLite may give the new row the same id.
CardState == {"none", "pending", "applied", "dismissed", "failed"}
NoCards == [call \in Call |-> "none"]
Turn == [row : BOOLEAN, cards : [Call -> CardState], unanswered : SUBSET Call]

Idle == [pc |-> "idle"]
Mode == {"first", "new", "retry", "continue"}

\* What a request or a turn read of turn seq, to write it back later.
Copy(seq) == [seq |-> seq, turn |-> turns[seq]]
NoCopy(seq) == [seq |-> seq, turn |-> [row |-> FALSE, cards |-> NoCards, unanswered |-> {}]]
CopySet == [seq : 0..MaxTurns, turn : Turn]

ClientState ==
  {Idle}
  \cup [pc : {"dismissing"}, copy : CopySet, picked : SUBSET ActionId]
  \cup [pc : {"deciding"}, copy : CopySet, picked : ActionId, approve : BOOLEAN]
  \cup [pc : {"starting"}, mode : Mode, seq : 0..MaxTurns]
  \cup [pc : {"running"}, mode : Mode, copy : CopySet]

TypeOK ==
  /\ chat \in {"none", "open", "deleted"}
  /\ DOMAIN turns \subseteq 1..MaxTurns /\ turns \in [DOMAIN turns -> Turn]
  /\ actions \in [ActionId -> Action \cup {NoAction}]
  /\ effects \in [ActionId -> Nat]
  /\ client \in [Client -> ClientState]

Init ==
  /\ chat = "none"
  /\ turns = <<>>
  /\ actions = [k \in ActionId |-> NoAction]
  /\ effects = [k \in ActionId |-> 0]
  /\ client = [c \in Client |-> Idle]

-----------------------------------------------------------------------------
LastSeq == IF turns = <<>> THEN 0 ELSE Max(DOMAIN turns)
LastTurn == turns[LastSeq]
Has(turn, state) == \E call \in Call : turn.cards[call] = state
Waiting(turn) == {call \in Call : turn.cards[call] = "pending"}

\* Rows inserted and not pruned.  Mutant: Stored where only Proposed rows are closed.
Stored == {k \in ActionId : actions[k].status \notin {"none", "gone"}}
ActionsOf(calls) == {k \in Stored : actions[k].call \in calls}
Proposed == {k \in ActionId : actions[k].status = "proposed"}

\* A reused tool call id belongs to the latest action.  Mutant: the earliest.
EarliestAction(call) == Min(ActionsOf({call}))
LatestAction(call) == Max(ActionsOf({call}))

\* _claim: moves an action on unless another request decided it first.
\* Mutant: the UPDATE without its condition.
ClaimsAlways(k) == actions[k].status # "none"
Claims(k) == actions[k].status = "proposed"

SetStatus(ids, status) ==
  [k \in ActionId |-> IF k \in ids THEN [actions[k] EXCEPT !.status = status] ELSE actions[k]]

Begin(c, mode, seq) ==
  client' = [client EXCEPT ![c] = [pc |-> "starting", mode |-> mode, seq |-> seq]]

-----------------------------------------------------------------------------
\* Requests.

\* new_turn without a chat: the first question, whose turn creates the chat.
FirstQuestion(c) ==
  /\ client[c] = Idle /\ chat = "none"
  /\ \A d \in Client : client[d] = Idle
  /\ Begin(c, "first", 0)
  /\ UNCHANGED <<chat, turns, actions, effects>>

\* new_turn up to _dismiss_pending's first write.
Ask(c) ==
  /\ client[c] = Idle /\ chat = "open"
  /\ IF turns = <<>> \/ Waiting(LastTurn) = {}
     THEN Begin(c, "new", 0)
     ELSE client' = [client EXCEPT ![c] =
            [pc |-> "dismissing", copy |-> Copy(LastSeq),
             picked |-> ActionsOf(Waiting(LastTurn))]]
  /\ UNCHANGED <<chat, turns, actions, effects>>

\* The copy of a turn once the given calls were dismissed and answered.  Mutant: the
\* model does not hear that nothing changed.
DismissedSilently(turn, calls) ==
  [turn EXCEPT !.cards = [call \in Call |-> IF call \in calls THEN "dismissed" ELSE @[call]]]
Dismissed(turn, calls) ==
  [turn EXCEPT !.cards = [call \in Call |-> IF call \in calls THEN "dismissed" ELSE @[call]],
               !.unanswered = @ \ calls]

\* The rest of _dismiss_pending: claims each action, then writes the turn back from
\* the copy.  With nothing claimed the JSON is the same, and no UPDATE is sent.
DismissPending(c) ==
  LET copy == client[c].copy
      claimed == {k \in client[c].picked : Claims(k)}
      calls == {actions[k].call : k \in claimed}
  IN /\ client[c].pc = "dismissing"
     /\ IF claimed # {} /\ copy.seq \notin DOMAIN turns
        THEN /\ client' = [client EXCEPT ![c] = Idle]
             /\ UNCHANGED <<turns, actions>>
        ELSE /\ Begin(c, "new", 0)
             /\ actions' = SetStatus(claimed, "dismissed")
             /\ turns' = IF claimed = {} THEN turns
                         ELSE [turns EXCEPT ![copy.seq] = Dismissed(copy.turn, calls)]
     /\ UNCHANGED <<chat, effects>>

Retry(c) ==
  /\ client[c] = Idle /\ chat = "open"
  /\ turns # <<>> /\ ~Has(LastTurn, "applied")
  /\ Begin(c, "retry", LastSeq)
  /\ UNCHANGED <<chat, turns, actions, effects>>

\* decide up to its claim.
Decide(c, call, approve) ==
  /\ client[c] = Idle /\ chat = "open"
  /\ turns # <<>> /\ call \in Waiting(LastTurn) /\ ActionsOf({call}) # {}
  /\ client' = [client EXCEPT ![c] =
       [pc |-> "deciding", copy |-> Copy(LastSeq),
        picked |-> LatestAction(call), approve |-> approve]]
  /\ UNCHANGED <<chat, turns, actions, effects>>

\* The copy of a turn with one card decided and its tool result added.
Decided(turn, call, state) ==
  [turn EXCEPT !.cards[call] = state, !.unanswered = @ \ {call}]

\* apply_action: an undo needs its original applied.
Applies(k) == \A i \in ActionId : actions[k].undoes = i => actions[i].status = "applied"

\* The rows once k is approved; an undo marks the change it reverses.
Approved(k) ==
  [i \in ActionId |-> IF i = k THEN [actions[i] EXCEPT !.status = "applied"]
                      ELSE IF i = actions[k].undoes THEN [actions[i] EXCEPT !.status = "undone"]
                      ELSE actions[i]]

\* decide from its claim to its commit, which continues the turn.  The claim fails
\* when another request decided the change; applying it, when the data changed.
ClaimAndDecide(c) ==
  LET copy == client[c].copy
      k == client[c].picked
      Writes(state) ==
        /\ turns' = [turns EXCEPT ![copy.seq] = Decided(copy.turn, actions[k].call, state)]
        /\ Begin(c, "continue", copy.seq)
  IN /\ client[c].pc = "deciding"
     /\ \/ /\ ~Claims(k) \/ copy.seq \notin DOMAIN turns
           /\ client' = [client EXCEPT ![c] = Idle]
           /\ UNCHANGED <<turns, actions, effects>>
        \/ /\ Claims(k) /\ copy.seq \in DOMAIN turns
           /\ \/ /\ ~client[c].approve
                 /\ Writes("dismissed")
                 /\ actions' = SetStatus({k}, "dismissed")
                 /\ UNCHANGED effects
              \/ /\ client[c].approve
                 /\ Writes("failed")
                 /\ actions' = SetStatus({k}, "failed")
                 /\ UNCHANGED effects
              \/ /\ client[c].approve /\ Applies(k)
                 /\ Writes("applied")
                 /\ effects' = [effects EXCEPT ![k] = @ + 1]
                 /\ actions' = Approved(k)
     /\ UNCHANGED chat

\* delete_chat.
DeleteChat ==
  /\ chat = "open"
  /\ chat' = "deleted" /\ turns' = <<>>
  /\ actions' = SetStatus(Proposed, "dismissed")
  /\ UNCHANGED <<effects, client>>

\* prune_chats, once the chat is older than its user keeps chats.
Prune ==
  /\ chat = "open"
  /\ chat' = "deleted" /\ turns' = <<>>
  /\ actions' = SetStatus(Stored, "gone")
  /\ UNCHANGED <<effects, client>>

-----------------------------------------------------------------------------
\* Turns.

\* _run_turn up to the model.  A turn waiting for more decisions ends here; one that
\* is gone crashes the run.
StartRun(c) ==
  LET mode == client[c].mode
      seq == client[c].seq
      Runs(copy) ==
        client' = [client EXCEPT ![c] = [pc |-> "running", mode |-> mode, copy |-> copy]]
  IN /\ client[c].pc = "starting"
     /\ IF mode # "continue" THEN Runs(NoCopy(seq))
        ELSE IF seq \in DOMAIN turns /\ Waiting(turns[seq]) = {} THEN Runs(Copy(seq))
        ELSE client' = [client EXCEPT ![c] = Idle]
     /\ UNCHANGED <<chat, turns, actions, effects>>

\* The turns whose messages the model is sent (HISTORY_TURNS is more than MaxTurns).
History(c) ==
  CASE client[c].mode = "retry" -> {s \in DOMAIN turns : s < client[c].seq}
    [] client[c].mode = "continue" -> {s \in DOMAIN turns : s <= client[c].seq}
    [] OTHER -> DOMAIN turns

\* The proposed changes with their new ids, in any order; an undo reverses an applied
\* change that is not itself an undo (propose_undo).
Unused == {k \in ActionId : actions[k].status = "none"}
Undoable == {k \in ActionId : actions[k].status = "applied" /\ actions[k].undoes = NoUndo}

Inserted(base, calls, id, undoes) ==
  [k \in ActionId |->
     IF \E call \in calls : id[call] = k
     THEN LET call == CHOOSE call \in calls : id[call] = k
          IN [call |-> call, undoes |-> undoes[call], status |-> "proposed"]
     ELSE base[k]]

\* A turn with what a run added: a completed run leaves its cards pending and its
\* calls without a result, any other leaves no card open (AssistantEventStream.finish).
Extended(turn, calls, completed) ==
  [turn EXCEPT
     !.cards = [call \in Call |-> IF call \notin calls THEN @[call]
                                  ELSE IF completed THEN "pending" ELSE "dismissed"],
     !.unanswered = IF completed THEN @ \cup calls ELSE @]

\* _save_turn's first reads: whether the turn is kept.  A chat deleted meanwhile stays
\* deleted, a retry that lost to an approval replaces nothing, and a turn to continue
\* must still be there.  Mutants: each without its condition.
SavesDeleted(mode, seq) ==
  CASE mode = "retry" -> \A s \in DOMAIN turns : s >= seq => ~Has(turns[s], "applied")
    [] mode = "continue" -> seq \in DOMAIN turns
    [] OTHER -> TRUE
SavesOverApproval(mode, seq) ==
  CASE mode = "first" -> chat = "none"
    [] mode = "continue" -> chat = "open" /\ seq \in DOMAIN turns
    [] OTHER -> chat = "open"
Saves(mode, seq) ==
  CASE mode = "first" -> chat = "none"
    [] mode = "new" -> chat = "open"
    [] mode = "retry" -> /\ chat = "open"
                         /\ \A s \in DOMAIN turns : s >= seq => ~Has(turns[s], "applied")
    [] mode = "continue" -> chat = "open" /\ seq \in DOMAIN turns

\* The turns once the run is saved.  A retry's turn may get the id of the one it
\* replaces.  A continued turn shows the run's own items; its messages are the run's
\* copy too, which the session still holds, unless the turn has another id by now.
SavedTurns(mode, copy, calls, completed, row) ==
  LET now == turns[copy.seq]
      kept == IF mode = "retry" THEN Restrict(turns, {s \in DOMAIN turns : s < copy.seq})
              ELSE turns
      start == CASE mode \in {"first", "new"} -> copy.turn
                 [] mode = "retry" -> [copy.turn EXCEPT !.row = row]
                 [] mode = "continue" ->
                      [copy.turn EXCEPT !.row = now.row,
                         !.unanswered = IF now.row = copy.turn.row THEN @ ELSE now.unanswered]
      seq == IF mode \in {"first", "new"} THEN LastSeq + 1 ELSE copy.seq
  IN [s \in {seq} \cup DOMAIN kept |->
        IF s = seq THEN Extended(start, calls, completed) ELSE kept[s]]

\* _run_turn from the model's answer to _save_turn's commit.  Tool call ids are
\* reused across turns, not within one.  BOUND: MaxTurns.
FinishRun(c, calls, completed, id, undoes, row) ==
  LET mode == client[c].mode
      copy == client[c].copy
  IN /\ client[c].pc = "running"
     /\ \A call \in calls : copy.turn.cards[call] = "none"
     /\ row => mode = "retry"
     /\ mode \in {"first", "new"} => LastSeq < MaxTurns
     /\ IF Saves(mode, copy.seq)
        THEN /\ chat' = "open"
             /\ turns' = SavedTurns(mode, copy, calls, completed, row)
             /\ actions' = Inserted(IF mode = "retry" THEN SetStatus(Proposed, "dismissed")
                                    ELSE actions,
                                    IF completed THEN calls ELSE {}, id, undoes)
        ELSE UNCHANGED <<chat, turns, actions>>
     /\ client' = [client EXCEPT ![c] = Idle]
     /\ UNCHANGED effects

\* New ids follow the ones in use.
NewIds(calls) ==
  {id \in [calls -> Unused] :
     /\ \A a, b \in calls : id[a] = id[b] => a = b
     /\ \A call \in calls, k \in Unused : k < id[call] => \E b \in calls : id[b] = k}

Finish(c) ==
  /\ client[c].pc = "running"
  /\ \E calls \in SUBSET Call, completed, row \in BOOLEAN :
       /\ Cardinality(calls) <= Cardinality(Unused)
       /\ \E id \in NewIds(calls), undoes \in [calls -> {NoUndo} \cup Undoable] :
            FinishRun(c, calls, completed, id, undoes, row)

\* An exception in a request or a turn, or a restart of the server: nothing is saved.
Crash(c) ==
  /\ client[c] # Idle
  /\ client' = [client EXCEPT ![c] = Idle]
  /\ UNCHANGED <<chat, turns, actions, effects>>

Next ==
  \/ \E c \in Client :
       \/ FirstQuestion(c) \/ Ask(c) \/ DismissPending(c) \/ Retry(c)
       \/ \E call \in Call, approve \in BOOLEAN : Decide(c, call, approve)
       \/ ClaimAndDecide(c) \/ StartRun(c) \/ Finish(c) \/ Crash(c)
  \/ DeleteChat
  \/ Prune

Spec == Init /\ [][Next]_vars

-----------------------------------------------------------------------------
\* Whatever windows do at once.

\* A change is made once if it was approved, and never otherwise, however requests
\* that read the same card, crashes and retried turns interleave (_claim, decide).
AppliedOnce ==
  \A k \in ActionId :
    /\ effects[k] <= 1
    /\ actions[k].status # "gone" =>
         (effects[k] = 1 <=> actions[k].status \in {"applied", "undone"})

\* A change is undone by exactly one approved undo, and no undo takes effect twice or
\* on a change that still counts as applied (apply_action's check of the original).
UndoneOnce ==
  \A k \in Stored :
    Cardinality({u \in Stored : actions[u].undoes = k /\ effects[u] = 1})
      = IF actions[k].status = "undone" THEN 1 ELSE 0

\* Once a chat is deleted or pruned, no request or turn that was under way brings a
\* turn back or leaves a change that could still be approved (_save_turn).
DeletedStaysDeleted ==
  [][chat = "deleted" => chat' = "deleted" /\ turns' = <<>> /\ Proposed' = {}]_vars

\* No saved retry takes away a card that shows an approved change, even one approved
\* while the retry ran (_save_turn).
RetryKeepsApproved ==
  [][\A c \in Client :
       /\ client[c].pc = "running" /\ client[c].mode = "retry"
       /\ client'[c] = Idle /\ chat' = "open"
       => \A s \in DOMAIN turns, call \in Call :
            turns[s].cards[call] = "applied" =>
              s \in DOMAIN turns' /\ turns'[s].cards[call] = "applied"]_vars

\* The life of every change, whatever the turns and cards do, is the abstract one.
Lifecycle == INSTANCE ActionLifecycle WITH
  status <- [k \in ActionId |-> actions[k].status]
ImplementsLifecycle == Lifecycle!Spec

-----------------------------------------------------------------------------
\* With one window, which waits for each answer before its next request.

\* The cards the last turn leaves open are the changes still proposed, and the row
\* that decide finds for each can be decided: none is stuck or decided unseen.
PendingIsDecidable ==
  LET open == IF turns = <<>> THEN {} ELSE Waiting(LastTurn)
  IN /\ \A call \in open : ActionsOf({call}) # {} /\ Claims(LatestAction(call))
     /\ \A k \in Proposed : actions[k].call \in open

=============================================================================
