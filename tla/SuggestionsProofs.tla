------------------------ MODULE SuggestionsProofs -------------------------
(***************************************************************************)
(* The language model's suggestions and the trainings of the local model,  *)
(* for any number of requests, transactions, model calls and stops.        *)
(*                                                                         *)
(* A request relies on what it read before the model answered or another   *)
(* request went on.  Fits says what of it is still true: a suggestion that *)
(* was applied has an older fingerprint than its transaction, so the check *)
(* of the next request fails; and two requests that pass the check side by *)
(* side are remembered from then on, which Apart says.  For a parsed model *)
(* it is the time it is kept under that says whose it is.                  *)
(***************************************************************************)
EXTENDS MCSuggestions, FiniteSetTheorems, TLAPS

-----------------------------------------------------------------------------
(* Trainings.                                                              *)

\* What is parsed belongs to a training that has ended, and under the time of the latest one
\* it is the model that is stored.
KeptOK(kept) == kept # Null => /\ kept.at \in Nat /\ kept.at <= pref.trained
                               /\ kept.at = pref.trained => kept.model = pref.model

\* A fit has room for its time, and what is stored was fitted, unless there were too few rows.
TrainingInvariant ==
  /\ T!TypeOK
  /\ fitting # Null => pref.trained < MaxTrainings
  /\ pref.print \notin Few \cup {Null} => pref.model = pref.print
  /\ pref.status = "ready" => pref.trained # 0 /\ pref.print # Null
  /\ KeptOK(cache)
  /\ reads \in [Reader -> [at : Nat, model : Data \cup {Null}] \cup {Null}]
  /\ \A r \in Reader : KeptOK(reads[r])

\* The rows, the queue and the switch are nothing the invariant relates to the model.
LEMMA TrainingCalm ==
  ASSUME TrainingInvariant, T!TypeOK', UNCHANGED <<cache, reads>>,
         UNCHANGED <<pref.trained, pref.model, pref.print>>,
         pref'.status = "ready" => pref.status = "ready",
         fitting' = fitting \/ fitting' = Null \/ pref.trained < MaxTrainings
  PROVE  TrainingInvariant'
BY DEF TrainingInvariant, KeptOK

LEMMA TrainingBegins ==
  ASSUME T!Init
  PROVE  TrainingInvariant
BY TrainingConstants DEF T!Init, T!TrainingAssumption, TrainingInvariant, T!TypeOK, KeptOK

LEMMA TrainingStep ==
  ASSUME TrainingInvariant, [T!Next]_T!vars
  PROVE  TrainingInvariant'
<1> USE TrainingConstants DEF T!TrainingAssumption
<1>1. ASSUME NEW e \in BOOLEAN, T!Save(e) PROVE TrainingInvariant'
  <2>1. UNCHANGED <<data, cache, reads, fitting>> /\ queued' \in 0..MaxQueued
    BY <1>1 DEF T!Save, T!Queues, T!TypeOK, TrainingInvariant, T!readers
  <2>2. pref' = [pref EXCEPT !.enabled = e, !.status = IF e THEN "training" ELSE pref.status]
    BY <1>1 DEF T!Save
  <2>3. T!TypeOK' /\ UNCHANGED <<pref.trained, pref.model, pref.print>>
        /\ (pref'.status = "ready" => pref.status = "ready")
    BY <2>1, <2>2 DEF T!TypeOK, TrainingInvariant
  <2> QED BY <2>1, <2>3, TrainingCalm
<1>2. CASE T!TrainDueUsers
  <2>1. T!TypeOK' /\ UNCHANGED <<pref, cache, reads, fitting>>
    BY <1>2 DEF T!TrainDueUsers, T!TypeOK, TrainingInvariant, T!readers
  <2> QED BY <2>1, TrainingCalm
<1>3. CASE T!BeginTraining
  <2>1. CASE ~pref.enabled
    BY <1>3, <2>1 DEF T!BeginTraining, T!TypeOK, TrainingInvariant, T!readers, KeptOK
  <2>2. CASE pref.enabled /\ pref.print = data
    <3>1. /\ UNCHANGED <<data, fitting, cache, reads>> /\ queued' \in 0..MaxQueued
      BY <1>3, <2>2 DEF T!BeginTraining, T!TypeOK, TrainingInvariant, T!readers
    <3>2. PICK status \in {"insufficient_data", "ready"} :
            /\ pref' = [pref EXCEPT !.due = FALSE, !.status = status]
            /\ status = "ready" => pref.trained # 0
      BY <1>3, <2>2 DEF T!BeginTraining, T!Unchanged
    <3> QED BY <2>2, <3>1, <3>2 DEF T!TypeOK, TrainingInvariant, KeptOK
  <2>3. CASE pref.enabled /\ pref.print # data
    BY <1>3, <2>3 DEF T!BeginTraining, T!Fitting, T!TypeOK, TrainingInvariant, T!readers, KeptOK
  <2> QED BY <2>1, <2>2, <2>3
<1>4. CASE T!EndTraining
  <2>1. /\ fitting \in Data /\ fitting' = Null /\ pref.trained < MaxTrainings
        /\ UNCHANGED <<data, queued, cache, reads>>
    BY <1>4 DEF T!EndTraining, T!TypeOK, TrainingInvariant, T!readers
  <2>2. CASE fitting \in Few
    <3>1. pref' = [pref EXCEPT !.due = FALSE, !.print = fitting, !.status = "insufficient_data"]
      BY <1>4, <2>2 DEF T!EndTraining
    <3> QED BY <2>1, <2>2, <3>1 DEF T!TypeOK, TrainingInvariant, KeptOK
  <2>3. CASE fitting \notin Few
    <3>1. pref' = [pref EXCEPT !.due = FALSE, !.print = fitting, !.status = "ready",
                               !.model = fitting, !.trained = pref.trained + 1]
      BY <1>4, <2>3 DEF T!EndTraining, T!TrainedAt
    <3>2. /\ T!TypeOK' /\ pref'.trained = pref.trained + 1
          /\ pref'.print = fitting /\ pref'.model = fitting
      <4>1. pref.trained + 1 \in 0..MaxTrainings
        BY <2>1 DEF T!TypeOK, TrainingInvariant
      <4> DEFINE trained == pref.trained + 1
      <4>2. pref' = [pref EXCEPT !.due = FALSE, !.print = fitting, !.status = "ready",
                                 !.model = fitting, !.trained = trained]
        BY <3>1
      <4> HIDE DEF trained
      <4>3. /\ T!TypeOK' /\ pref'.trained = trained
            /\ pref'.print = fitting /\ pref'.model = fitting
        BY <2>1, <4>1, <4>2 DEF T!TypeOK, TrainingInvariant, trained
      <4> QED BY <4>3 DEF trained
    <3>3. KeptOK(cache)'
      BY <2>1, <3>2 DEF KeptOK, TrainingInvariant, T!TypeOK
    <3>4. ASSUME NEW r \in Reader PROVE KeptOK(reads[r])'
      BY <2>1, <3>2 DEF KeptOK, TrainingInvariant, T!TypeOK
    <3> QED BY <2>1, <3>2, <3>3, <3>4 DEF TrainingInvariant, T!TypeOK
  <2> QED BY <2>2, <2>3
<1>5. CASE T!FailTraining
  BY <1>5 DEF T!FailTraining, T!TypeOK, TrainingInvariant, T!readers, KeptOK
<1>6. ASSUME NEW r \in Reader, T!ReadPreference(r) PROVE TrainingInvariant'
  BY <1>6 DEF T!ReadPreference, T!TypeOK, TrainingInvariant, KeptOK
<1>7. ASSUME NEW r \in Reader, T!UseModel(r) PROVE TrainingInvariant'
  BY <1>7 DEF T!UseModel, T!TypeOK, TrainingInvariant, KeptOK
<1>8. ASSUME NEW rows \in Data, T!RowsChange(rows) PROVE TrainingInvariant'
  BY <1>8 DEF T!RowsChange, T!TypeOK, TrainingInvariant, KeptOK, T!readers
<1>9. CASE T!WeekPasses
  BY <1>9 DEF T!WeekPasses, T!TypeOK, TrainingInvariant, KeptOK, T!readers
<1>10. CASE T!Stop
  BY <1>10 DEF T!Stop, T!TypeOK, TrainingInvariant, KeptOK
<1>11. CASE UNCHANGED T!vars
  BY <1>11 DEF T!vars, T!TypeOK, TrainingInvariant, KeptOK
<1> QED BY <1>1, <1>2, <1>3, <1>4, <1>5, <1>6, <1>7, <1>8, <1>9, <1>10, <1>11 DEF T!Next

\* Whatever fails, and wherever the process stops: a model that is called ready is there, of
\* the rows whose fingerprint is kept, and a parsed model under its time is that model.
THEOREM ReadyIsTrained == T!Spec => []ReadyMeansTrained
<1>1. T!Init => TrainingInvariant
  BY TrainingBegins
<1>2. TrainingInvariant /\ [T!Next]_T!vars => TrainingInvariant'
  BY TrainingStep
<1>3. TrainingInvariant => ReadyMeansTrained
  BY DEF TrainingInvariant, ReadyMeansTrained, T!ReadyMeansTrained, T!CacheAgrees, KeptOK
<1> QED BY <1>1, <1>2, <1>3, PTL DEF T!Spec
-----------------------------------------------------------------------------
(* Rows and requests.                                                      *)

SuggestionRow == [txn : Txn, print : Fingerprint, shown : Fingerprint, category : Category \cup {Null},
                  title : Title, status : Status, applied : Nat]
ProposalRow == [proposal : Proposal, status : Status \ {"stale"}, made : Nat]
JobRow == [status : JobStatus, old : BOOLEAN]

\* Ids are given out in order, and no row is deleted.
Numbered(table) == \E n \in Nat : DOMAIN table = 1..n

\* What a request under way relies on: the transaction it asked about has not been younger,
\* its job and the row it accepts are there, that row has not been applied yet unless by
\* another one that accepts it too, and has been once the request is about to mark it.
TriageFits(call) ==
  /\ call.print.stamp <= txns[call.txn].stamp
  /\ call.phase = "asked" => call.job \in DOMAIN jobs
  /\ call.phase # "asked" => call.answer \in Answer
MineFits(call) ==
  /\ call.phase = "asked" => call.job \in DOMAIN jobs
  /\ call.phase # "asked" => call.answer \in Proposal
  /\ call.phase = "inserting" /\ SameProposal(call.answer) # {} =>
       <<"mined twice", call.answer>> \in slips
AcceptanceFits(call) ==
  /\ call.id \in DOMAIN suggestions /\ call.seen = suggestions[call.id].shown
  /\ call.phase = "applied" => suggestions[call.id].applied > 0
  /\ call.phase # "applied" /\ suggestions[call.id].applied > 0 => <<"twice", call.id>> \in slips
RuleAcceptanceFits(call) ==
  /\ call.id \in DOMAIN proposals
  /\ call.phase = "applied" => proposals[call.id].made > 0
  /\ call.phase # "applied" /\ proposals[call.id].made > 0 =>
       <<"rule twice", call.id>> \in slips \/ <<"rule cut off", call.id>> \in slips
Fits(call) ==
  /\ call \in Triage => TriageFits(call)
  /\ call \in Mine => MineFits(call)
  /\ call \in Acceptance => AcceptanceFits(call)
  /\ call \in RuleAcceptance => RuleAcceptanceFits(call)

\* Two requests that do the same are remembered.
Apart(x, y) ==
  /\ x \in Acceptance /\ y \in Acceptance /\ x.id = y.id => <<"twice", x.id>> \in slips
  /\ x \in RuleAcceptance /\ y \in RuleAcceptance /\ x.id = y.id => <<"rule twice", x.id>> \in slips
  /\ x \in Mine /\ y \in Mine /\ x.phase = "inserting" /\ y.phase = "inserting" /\ x.answer = y.answer =>
       <<"mined twice", x.answer>> \in slips

\* A suggestion is of the transaction as the model saw it, which is older than the one
\* that it was applied to.
SuggestionOK(s) ==
  /\ suggestions[s].print = suggestions[s].shown
  /\ suggestions[s].print.stamp <= txns[suggestions[s].txn].stamp
  /\ suggestions[s].applied > 0 => suggestions[s].print.stamp < txns[suggestions[s].txn].stamp
  /\ suggestions[s].applied > 1 => <<"twice", s>> \in slips
  /\ suggestions[s].status = "accepted" => suggestions[s].applied > 0

\* A rule that was made is no longer offered, but by the request that is about to say so.
Marks(call, r) == call \in RuleAcceptance /\ call.phase = "applied" /\ call.id = r
ProposalOK(r) ==
  /\ proposals[r].status = "accepted" => proposals[r].made > 0
  /\ proposals[r].made > 1 => <<"rule twice", r>> \in slips \/ <<"rule cut off", r>> \in slips
  /\ proposals[r].made > 0 /\ proposals[r].status = "pending" =>
       <<"rule cut off", r>> \in slips \/ \E c \in Client : Marks(calls[c], r)
OfferedOnce ==
  \A r, q \in DOMAIN proposals :
    /\ proposals[r].status = "pending" /\ proposals[q].status = "pending"
    /\ proposals[r].proposal = proposals[q].proposal /\ r # q
    => <<"mined twice", proposals[r].proposal>> \in slips

SuggestionsInvariant ==
  /\ TypeOK /\ calls \in [Client -> Call \cup {Null}]
  /\ Numbered(suggestions) /\ Numbered(proposals) /\ Numbered(jobs)
  /\ \A c \in Client : Fits(calls[c])
  /\ \A c, d \in Client : c # d => Apart(calls[c], calls[d])
  /\ \A s \in DOMAIN suggestions : SuggestionOK(s)
  /\ \A r \in DOMAIN proposals : ProposalOK(r)
  /\ OfferedOnce

-----------------------------------------------------------------------------
LEMMA PutShape ==
  ASSUME NEW table, Numbered(table), NEW S, table \in [DOMAIN table -> S], NEW row \in S,
         NEW id, id = NextId(table), NEW new, new = Put(table, id, row)
  PROVE  /\ new \in [DOMAIN new -> S] /\ DOMAIN new = DOMAIN table \cup {id}
         /\ id \notin DOMAIN table /\ id \in Nat /\ Numbered(new)
         /\ new[id] = row /\ \A k \in DOMAIN table : new[k] = table[k]
<1>1. PICK n \in Nat : DOMAIN table = 1..n
  BY DEF Numbered
<1>2. id = n + 1
  <2>1. Cardinality(1..n) = n
    BY <1>1, FS_Interval
  <2> QED BY <1>1, <2>1 DEF NextId
<1>3. DOMAIN new = 1..(n + 1) /\ 1..(n + 1) = (1..n) \cup {n + 1}
  BY <1>1, <1>2 DEF Put
<1> QED BY <1>1, <1>2, <1>3 DEF Put, Numbered

\* A request's phase says what it is.
LEMMA CallShape ==
  ASSUME SuggestionsInvariant, NEW c \in Client
  PROVE  /\ Idle(c) => calls[c] \notin Call
         /\ ~Idle(c) => calls[c] \in Call /\ Phase(c) = calls[c].phase
         /\ Phase(c) \in {"asked", "answered"} /\ calls[c].feature = "transaction_triage"
              => calls[c] \in Triage
         /\ Phase(c) \in {"asked", "answered"} => calls[c] \in Triage \cup Mine
         /\ Phase(c) \in {"asked", "answered"} /\ calls[c].feature = "rule_mining" => calls[c] \in Mine
         /\ Phase(c) = "storing" => calls[c] \in Triage
         /\ Phase(c) = "inserting" => calls[c] \in Mine
         /\ Phase(c) \in {"accepting", "applied"} /\ calls[c].table = "suggestions"
              => calls[c] \in Acceptance
         /\ Phase(c) \in {"accepting", "applied"} /\ calls[c].table = "proposals"
              => calls[c] \in RuleAcceptance
         /\ Phase(c) \in {"accepting", "applied"} =>
              calls[c] \in RuleAcceptance \cup Acceptance
<1>1. calls[c] \in Call \cup {Null} /\ Null \notin Call
  BY SuggestionsAssumption DEF SuggestionsInvariant
<1>2. CASE Idle(c)
  BY <1>1, <1>2 DEF Idle, Phase
<1>3. CASE ~Idle(c)
  <2>1. calls[c] \in Call /\ Phase(c) = calls[c].phase
    BY <1>1, <1>3 DEF Idle, Phase
  <2>2. CASE calls[c] \in Triage
    BY <2>1, <2>2, <1>3 DEF Triage
  <2>3. CASE calls[c] \in Mine
    BY <2>1, <2>3, <1>3 DEF Mine
  <2>4. CASE calls[c] \in Acceptance
    BY <2>1, <2>4, <1>3 DEF Acceptance
  <2>5. CASE calls[c] \in RuleAcceptance
    BY <2>1, <2>5, <1>3 DEF RuleAcceptance
  <2> QED BY <2>1, <2>2, <2>3, <2>4, <2>5 DEF Call
<1> QED BY <1>2, <1>3

\* The kinds of request are different.
LEMMA KindsDiffer ==
  /\ Triage \cap Mine = {} /\ Triage \cap Acceptance = {} /\ Triage \cap RuleAcceptance = {}
  /\ Mine \cap Acceptance = {} /\ Mine \cap RuleAcceptance = {}
  /\ Acceptance \cap RuleAcceptance = {}
  /\ Triage \subseteq Call /\ Mine \subseteq Call /\ Acceptance \subseteq Call
  /\ RuleAcceptance \subseteq Call
<1>1. \A x \in Triage : x.phase \in {"asked", "answered", "storing"} /\ x.feature = "transaction_triage"
  BY DEF Triage
<1>2. \A x \in Mine : x.phase \in {"asked", "answered", "inserting"} /\ x.feature = "rule_mining"
  BY DEF Mine
<1>3. \A x \in Acceptance : x.phase \in {"accepting", "applied"} /\ x.table = "suggestions"
  BY DEF Acceptance
<1>4. \A x \in RuleAcceptance : x.phase \in {"accepting", "applied"} /\ x.table = "proposals"
  BY DEF RuleAcceptance
<1> QED BY <1>1, <1>2, <1>3, <1>4 DEF Call


-----------------------------------------------------------------------------
(* What a step leaves alone.                                               *)

\* The tables only grow, and what a suggestion was made for stays.
Grows ==
  /\ \A t \in Txn : txns[t].stamp <= txns'[t].stamp
  /\ DOMAIN jobs \subseteq DOMAIN jobs'
  /\ \A s \in DOMAIN suggestions : s \in DOMAIN suggestions' /\ suggestions'[s].shown = suggestions[s].shown
  /\ DOMAIN proposals \subseteq DOMAIN proposals'
  /\ slips \subseteq slips'

\* What a request looks at is as it was, or the other request is remembered.
Unaffected(call) ==
  /\ call \in Mine /\ call.phase = "inserting" /\ SameProposal(call.answer)' # {} =>
       SameProposal(call.answer) # {} \/ <<"mined twice", call.answer>> \in slips'
  /\ call \in Acceptance =>
       \/ suggestions'[call.id].applied = suggestions[call.id].applied
       \/ suggestions'[call.id].applied > 0 /\ <<"twice", call.id>> \in slips'
  /\ call \in RuleAcceptance =>
       \/ proposals'[call.id].made = proposals[call.id].made
       \/ proposals'[call.id].made > 0 /\ <<"rule twice", call.id>> \in slips'

LEMMA FitsStay ==
  ASSUME SuggestionsInvariant, TypeOK', Grows, NEW call \in Call, Unaffected(call), Fits(call)
  PROVE  Fits(call)'
<1>1. CASE call \in Triage
  <2>1. call \notin Mine /\ call \notin Acceptance /\ call \notin RuleAcceptance
    BY <1>1, KindsDiffer
  <2>2. call.txn \in Txn /\ call.print.stamp \in Nat /\ txns[call.txn].stamp \in Nat /\ txns'[call.txn].stamp \in Nat
    <3>1. call.txn \in Txn /\ call.print.stamp \in Nat
      BY <1>1 DEF Triage, Fingerprint
    <3>2. \A t \in Txn : txns[t].stamp \in Nat /\ txns'[t].stamp \in Nat
      BY DEF SuggestionsInvariant, TypeOK
    <3> QED BY <3>1, <3>2
  <2>3. txns[call.txn].stamp <= txns'[call.txn].stamp /\ DOMAIN jobs \subseteq DOMAIN jobs'
    BY <2>2 DEF Grows
  <2> QED BY <1>1, <2>1, <2>2, <2>3 DEF Fits, TriageFits
<1>2. CASE call \in Mine
  <2>1. call \notin Triage /\ call \notin Acceptance /\ call \notin RuleAcceptance
    BY <1>2, KindsDiffer
  <2>2. CASE call.phase = "asked"
    BY <1>2, <2>1, <2>2 DEF Fits, MineFits, Grows
  <2>3. CASE call.phase # "asked"
    <3>1. call.answer \in Proposal
      BY <1>2, <2>3 DEF Fits, MineFits
    <3>2. call.phase = "inserting" /\ SameProposal(call.answer)' # {} =>
            SameProposal(call.answer) # {} \/ <<"mined twice", call.answer>> \in slips'
      BY <1>2 DEF Unaffected
    <3> QED BY <1>2, <2>1, <2>3, <3>1, <3>2 DEF Fits, MineFits, Grows
  <2> QED BY <2>2, <2>3
<1>3. CASE call \in Acceptance
  <2>1. call \notin Triage /\ call \notin Mine /\ call \notin RuleAcceptance
    BY <1>3, KindsDiffer
  <2>2. call.id \in DOMAIN suggestions
    BY <1>3 DEF Fits, AcceptanceFits
  <2>3. /\ call.id \in DOMAIN suggestions' /\ suggestions'[call.id].shown = suggestions[call.id].shown
        /\ slips \subseteq slips'
        /\ \/ suggestions'[call.id].applied = suggestions[call.id].applied
           \/ suggestions'[call.id].applied > 0 /\ <<"twice", call.id>> \in slips'
    BY <1>3, <2>2 DEF Grows, Unaffected
  <2> QED BY <1>3, <2>1, <2>2, <2>3 DEF Fits, AcceptanceFits
<1>4. CASE call \in RuleAcceptance
  <2>1. call \notin Triage /\ call \notin Mine /\ call \notin Acceptance
    BY <1>4, KindsDiffer
  <2>2. call.id \in DOMAIN proposals
    BY <1>4 DEF Fits, RuleAcceptanceFits
  <2>3. /\ call.id \in DOMAIN proposals' /\ slips \subseteq slips'
        /\ \/ proposals'[call.id].made = proposals[call.id].made
           \/ proposals'[call.id].made > 0 /\ <<"rule twice", call.id>> \in slips'
    BY <1>4, <2>2 DEF Grows, Unaffected
  <2> QED BY <1>4, <2>1, <2>2, <2>3 DEF Fits, RuleAcceptanceFits
<1> QED BY <1>1, <1>2, <1>3, <1>4 DEF Call

\* A step that applies nothing, makes no rule and offers none affects no request.
NothingApplied == \A s \in DOMAIN suggestions : suggestions'[s].applied = suggestions[s].applied
NothingMade == \A r \in DOMAIN proposals : proposals'[r].made = proposals[r].made
NothingOffered == \A p \in Proposal : SameProposal(p)' # {} => SameProposal(p) # {}

LEMMA AllFit ==
  ASSUME SuggestionsInvariant, TypeOK', Grows, NothingApplied, NothingMade, NothingOffered,
         NEW call \in Call, Fits(call)
  PROVE  Fits(call)'
<1>1. call \in Mine /\ call.phase = "inserting" /\ SameProposal(call.answer)' # {} => SameProposal(call.answer) # {}
  BY DEF Fits, MineFits, NothingOffered
<1>2. call \in Acceptance => suggestions'[call.id].applied = suggestions[call.id].applied
  BY DEF Fits, AcceptanceFits, NothingApplied
<1>3. call \in RuleAcceptance => proposals'[call.id].made = proposals[call.id].made
  BY DEF Fits, RuleAcceptanceFits, NothingMade
<1> QED BY <1>1, <1>2, <1>3, FitsStay DEF Unaffected

\* No request at all fits.
LEMMA NullFits == Fits(Null) /\ Fits(Null)' /\ \A x : Apart(Null, x) /\ Apart(x, Null) /\ Apart(Null, x)' /\ Apart(x, Null)'
BY SuggestionsAssumption, KindsDiffer DEF Fits, Apart

\* A step of one request.
RequestsOK ==
  /\ calls \in [Client -> Call \cup {Null}]
  /\ \A c \in Client : Fits(calls[c])
  /\ \A c, d \in Client : c # d => Apart(calls[c], calls[d])

LEMMA OneRequest ==
  ASSUME SuggestionsInvariant, NEW c \in Client, NEW x \in Call \cup {Null}, Becomes(c, x),
         slips \subseteq slips', Fits(x)',
         \A d \in Client, call \in Call : d # c /\ call = calls[d] /\ Fits(call) => Fits(call)',
         \A d \in Client : d # c => Apart(x, calls[d])'
  PROVE  RequestsOK'
<1>1. /\ calls \in [Client -> Call \cup {Null}] /\ calls' \in [Client -> Call \cup {Null}]
      /\ calls'[c] = x /\ \A d \in Client : d # c => calls'[d] = calls[d]
  BY DEF SuggestionsInvariant, Becomes
<1>2. ASSUME NEW d \in Client PROVE Fits(calls[d])'
  <2>1. CASE d = c
    BY <1>1, <2>1
  <2>2. CASE d # c
    BY <1>1, <2>2, NullFits DEF SuggestionsInvariant
  <2> QED BY <2>1, <2>2
<1>3. ASSUME NEW d \in Client, NEW e \in Client, d # e PROVE Apart(calls[d], calls[e])'
  <2>1. CASE d # c /\ e # c
    <3>1. Apart(calls[d], calls[e])
      BY <1>3 DEF SuggestionsInvariant
    <3>2. calls'[d] = calls[d] /\ calls'[e] = calls[e]
      BY <1>1, <2>1
    <3> QED BY <3>1, <3>2 DEF Apart
  <2>2. CASE d = c
    <3>1. calls'[d] = x /\ calls'[e] = calls[e]
      BY <1>1, <1>3, <2>2
    <3>2. Apart(x, calls[e])'
      BY <1>3, <2>2
    <3> QED BY <3>1, <3>2 DEF Apart
  <2>3. CASE e = c
    <3>1. calls'[d] = calls[d] /\ calls'[e] = x
      BY <1>1, <1>3, <2>3
    <3>2. Apart(x, calls[d])'
      BY <1>3, <2>3
    <3> QED BY <3>1, <3>2 DEF Apart
  <2> QED BY <2>1, <2>2, <2>3
<1> QED BY <1>1, <1>2, <1>3 DEF RequestsOK

\* A step of no request.
LEMMA NoRequest ==
  ASSUME SuggestionsInvariant, UNCHANGED calls, slips \subseteq slips',
         \A call \in Call : Fits(call) => Fits(call)'
  PROVE  RequestsOK'
<1>1. calls \in [Client -> Call \cup {Null}] /\ calls' = calls
  BY DEF SuggestionsInvariant
<1>2. ASSUME NEW d \in Client PROVE Fits(calls[d])'
  BY <1>1, NullFits DEF SuggestionsInvariant
<1>3. ASSUME NEW d \in Client, NEW e \in Client, d # e PROVE Apart(calls[d], calls[e])'
  <2>1. Apart(calls[d], calls[e])
    BY <1>3 DEF SuggestionsInvariant
  <2> QED BY <1>1, <2>1 DEF Apart
<1> QED BY <1>1, <1>2, <1>3 DEF RequestsOK

\* The rows of a table that a step does not write.
SuggestionsOK == Numbered(suggestions) /\ \A s \in DOMAIN suggestions : SuggestionOK(s)
ProposalsOK == Numbered(proposals) /\ (\A r \in DOMAIN proposals : ProposalOK(r)) /\ OfferedOnce

LEMMA SuggestionsStay ==
  ASSUME SuggestionsInvariant, TypeOK', UNCHANGED suggestions, slips \subseteq slips',
         \A t \in Txn : txns[t].stamp <= txns'[t].stamp
  PROVE  SuggestionsOK'
<1>1. ASSUME NEW s \in DOMAIN suggestions PROVE SuggestionOK(s)'
  <2>1. /\ suggestions[s].txn \in Txn /\ suggestions[s].print.stamp \in Nat
        /\ suggestions[s].applied \in Nat
    BY DEF SuggestionsInvariant, TypeOK, Fingerprint
  <2>2. /\ txns[suggestions[s].txn].stamp \in Nat /\ txns'[suggestions[s].txn].stamp \in Nat
        /\ txns[suggestions[s].txn].stamp <= txns'[suggestions[s].txn].stamp
    BY <2>1 DEF SuggestionsInvariant, TypeOK
  <2>3. SuggestionOK(s)
    BY DEF SuggestionsInvariant
  <2> QED BY <2>1, <2>2, <2>3 DEF SuggestionOK
<1> QED BY <1>1 DEF SuggestionsOK, SuggestionsInvariant, Numbered

LEMMA ProposalsStay ==
  ASSUME SuggestionsInvariant, UNCHANGED proposals, slips \subseteq slips',
         \A c \in Client, r \in DOMAIN proposals :
           Marks(calls[c], r) => <<"rule cut off", r>> \in slips' \/ Marks(calls'[c], r)
  PROVE  ProposalsOK'
<1>1. ASSUME NEW r \in DOMAIN proposals PROVE ProposalOK(r)'
  <2>1. ProposalOK(r)
    BY DEF SuggestionsInvariant
  <2> QED BY <2>1 DEF ProposalOK
<1>2. OfferedOnce'
  BY DEF SuggestionsInvariant, OfferedOnce
<1> QED BY <1>1, <1>2 DEF ProposalsOK, SuggestionsInvariant, Numbered

\* A request that is not marking anything lets the others be.
LEMMA MarksStay ==
  ASSUME SuggestionsInvariant, NEW c \in Client, NEW x, Becomes(c, x),
         ~(calls[c] \in RuleAcceptance /\ calls[c].phase = "applied")
  PROVE  \A d \in Client, r \in DOMAIN proposals :
           Marks(calls[d], r) => <<"rule cut off", r>> \in slips' \/ Marks(calls'[d], r)
<1>1. \A d \in Client : d # c => calls'[d] = calls[d]
  BY DEF SuggestionsInvariant, Becomes
<1> QED BY <1>1 DEF Marks

LEMMA Together ==
  ASSUME TypeOK', RequestsOK', SuggestionsOK', ProposalsOK', Numbered(jobs)'
  PROVE  SuggestionsInvariant'
BY DEF SuggestionsInvariant, RequestsOK, SuggestionsOK, ProposalsOK

-----------------------------------------------------------------------------
(* Asking the model.                                                       *)

\* A row that is offered again, or marked, keeps what it says.
LEMMA StatusOnly ==
  ASSUME SuggestionsInvariant, NEW s \in DOMAIN suggestions, NEW status \in Status,
         suggestions' = [suggestions EXCEPT ![s].status = status],
         status = "accepted" => suggestions[s].applied > 0,
         UNCHANGED <<txns, proposals, jobs, enabled>>, slips \subseteq slips'
  PROVE  /\ TypeOK' /\ SuggestionsOK' /\ Numbered(jobs)'
         /\ \A call \in Call : Fits(call) => Fits(call)'
<1>1. /\ DOMAIN suggestions' = DOMAIN suggestions
      /\ \A r \in DOMAIN suggestions : suggestions'[r] = IF r = s THEN [suggestions[s] EXCEPT !.status = status] ELSE suggestions[r]
  OBVIOUS
<1>2. \A r \in DOMAIN suggestions : suggestions[r] \in SuggestionRow
  BY DEF SuggestionsInvariant, TypeOK, SuggestionRow
<1>3. \A r \in DOMAIN suggestions :
        /\ suggestions'[r] \in SuggestionRow
        /\ suggestions'[r].txn = suggestions[r].txn /\ suggestions'[r].print = suggestions[r].print
        /\ suggestions'[r].shown = suggestions[r].shown /\ suggestions'[r].applied = suggestions[r].applied
        /\ suggestions'[r].status = "accepted" => suggestions[r].status = "accepted" \/ suggestions[r].applied > 0
  BY <1>1, <1>2 DEF SuggestionRow
<1>4. TypeOK'
  <2>1. suggestions' \in [DOMAIN suggestions' -> SuggestionRow]
    BY <1>1, <1>3
  <2>2. \A q, r \in DOMAIN suggestions' :
          suggestions'[q].txn = suggestions'[r].txn /\ suggestions'[q].print = suggestions'[r].print => q = r
    BY <1>1, <1>3 DEF SuggestionsInvariant, TypeOK
  <2> QED BY <2>1, <2>2 DEF SuggestionsInvariant, TypeOK, SuggestionRow
<1>5. ASSUME NEW r \in DOMAIN suggestions PROVE SuggestionOK(r)'
  <2>1. SuggestionOK(r)
    BY DEF SuggestionsInvariant
  <2> QED BY <1>3, <2>1 DEF SuggestionOK
<1>6. SuggestionsOK'
  BY <1>1, <1>5 DEF SuggestionsOK, SuggestionsInvariant, Numbered
<1>7. Grows /\ NothingApplied /\ NothingMade /\ NothingOffered
  <2>1. \A t \in Txn : txns[t].stamp <= txns'[t].stamp
    BY DEF SuggestionsInvariant, TypeOK
  <2> QED BY <1>1, <1>3, <2>1 DEF Grows, NothingApplied, NothingMade, NothingOffered, SameProposal
<1>8. Numbered(jobs)'
  BY DEF SuggestionsInvariant, Numbered
<1> QED BY <1>4, <1>6, <1>7, <1>8, AllFit

LEMMA OfferAgainStep ==
  ASSUME SuggestionsInvariant, NEW c \in Client, NEW t \in Txn, OfferAgain(c, t)
  PROVE  SuggestionsInvariant'
<1>1. PICK s \in DOMAIN suggestions : suggestions' = [suggestions EXCEPT ![s].status = "pending"]
  BY DEF OfferAgain, SameFor
<1>2. UNCHANGED <<txns, proposals, jobs, calls, enabled, slips>>
  BY DEF OfferAgain
<1>3. TypeOK' /\ SuggestionsOK' /\ Numbered(jobs)' /\ \A call \in Call : Fits(call) => Fits(call)'
  BY <1>1, <1>2, StatusOnly DEF Status
<1>4. RequestsOK'
  BY <1>2, <1>3, NoRequest
<1>5. ProposalsOK'
  BY <1>2, ProposalsStay DEF Marks
<1> QED BY <1>3, <1>4, <1>5, Together

LEMMA RejectStep ==
  ASSUME SuggestionsInvariant, NEW s \in DOMAIN suggestions, Reject(s)
  PROVE  SuggestionsInvariant'
<1>1. suggestions' = [suggestions EXCEPT ![s].status = "rejected"]
      /\ UNCHANGED <<txns, proposals, jobs, calls, enabled, slips>>
  BY DEF Reject
<1>2. TypeOK' /\ SuggestionsOK' /\ Numbered(jobs)' /\ \A call \in Call : Fits(call) => Fits(call)'
  BY <1>1, StatusOnly DEF Status
<1>3. RequestsOK'
  BY <1>1, <1>2, NoRequest
<1>4. ProposalsOK'
  BY <1>1, ProposalsStay DEF Marks
<1> QED BY <1>2, <1>3, <1>4, Together

\* A step that writes the jobs, the requests and the slips only.
LEMMA JobsOnly ==
  ASSUME SuggestionsInvariant, jobs' \in [DOMAIN jobs' -> JobRow], Numbered(jobs)',
         DOMAIN jobs \subseteq DOMAIN jobs',
         UNCHANGED <<txns, records>>, enabled' \subseteq Feature, slips \subseteq slips'
  PROVE  /\ TypeOK' /\ SuggestionsOK' /\ \A call \in Call : Fits(call) => Fits(call)'
<1>1. TypeOK'
  BY DEF SuggestionsInvariant, TypeOK, JobRow, records
<1>2. \A t \in Txn : txns[t].stamp <= txns'[t].stamp
  BY DEF SuggestionsInvariant, TypeOK
<1>3. SuggestionsOK'
  BY <1>1, <1>2, SuggestionsStay DEF records
<1>4. Grows /\ NothingApplied /\ NothingMade /\ NothingOffered
  BY <1>2 DEF Grows, NothingApplied, NothingMade, NothingOffered, SameProposal, records
<1> QED BY <1>1, <1>3, <1>4, AllFit

\* A step of one request that writes the jobs, the request and the slips only.
LEMMA OneRequestOnly ==
  ASSUME SuggestionsInvariant, jobs' \in [DOMAIN jobs' -> JobRow], Numbered(jobs)',
         DOMAIN jobs \subseteq DOMAIN jobs', UNCHANGED <<txns, records, enabled>>,
         slips \subseteq slips',
         NEW c \in Client, NEW x \in Call \cup {Null}, Becomes(c, x),
         ~(calls[c] \in RuleAcceptance /\ calls[c].phase = "applied"), Fits(x)',
         \A d \in Client : d # c => Apart(x, calls[d])'
  PROVE  SuggestionsInvariant'
<1>1. TypeOK' /\ SuggestionsOK' /\ \A call \in Call : Fits(call) => Fits(call)'
  BY JobsOnly DEF SuggestionsInvariant, TypeOK
<1>2. RequestsOK'
  BY <1>1, OneRequest
<1>3. ProposalsOK'
  <2>1. \A d \in Client, r \in DOMAIN proposals :
           Marks(calls[d], r) => <<"rule cut off", r>> \in slips' \/ Marks(calls'[d], r)
    BY MarksStay
  <2> QED BY <2>1, ProposalsStay DEF records
<1> QED BY <1>1, <1>2, <1>3, Together

LEMMA JobsAre == SuggestionsInvariant => jobs \in [DOMAIN jobs -> JobRow] /\ Numbered(jobs)
BY DEF SuggestionsInvariant, TypeOK, JobRow

\* The job that a request has begun.
LEMMA JobBegun ==
  ASSUME SuggestionsInvariant, NEW c \in Client, NEW call, RunLlm(c, call)
  PROVE  /\ jobs' \in [DOMAIN jobs' -> JobRow] /\ Numbered(jobs)' /\ DOMAIN jobs \subseteq DOMAIN jobs'
         /\ NextId(jobs) \in DOMAIN jobs' /\ NextId(jobs) \in Nat
<1>1. jobs \in [DOMAIN jobs -> JobRow] /\ Numbered(jobs)
  BY JobsAre
<1>2. jobs' = Put(jobs, NextId(jobs), [status |-> "running", old |-> FALSE])
  BY DEF RunLlm
<1>3. [status |-> "running", old |-> FALSE] \in JobRow
  BY DEF JobRow, JobStatus
<1>4. /\ jobs' \in [DOMAIN jobs' -> JobRow] /\ DOMAIN jobs' = DOMAIN jobs \cup {NextId(jobs)}
      /\ NextId(jobs) \in Nat /\ Numbered(jobs')
  BY <1>1, <1>2, <1>3, PutShape
<1> QED BY <1>4 DEF Numbered

LEMMA BeginTriageStep ==
  ASSUME SuggestionsInvariant, NEW c \in Client, NEW t \in Txn, BeginTriage(c, t)
  PROVE  SuggestionsInvariant'
<1>0. PICK x : x = [phase |-> "asked", feature |-> "transaction_triage", job |-> NextId(jobs),
                    txn |-> t, print |-> PrintOf(t), answer |-> Null]
  OBVIOUS
<1>1. Idle(c) /\ RunLlm(c, x) /\ UNCHANGED <<txns, records, enabled, slips>>
  BY <1>0 DEF BeginTriage
<1>2. /\ jobs' \in [DOMAIN jobs' -> JobRow] /\ Numbered(jobs)' /\ DOMAIN jobs \subseteq DOMAIN jobs'
      /\ NextId(jobs) \in DOMAIN jobs' /\ NextId(jobs) \in Nat
  BY <1>1, JobBegun
<1>3. PrintOf(t) \in Fingerprint /\ txns[t].stamp \in Nat /\ PrintOf(t).stamp = txns[t].stamp
  BY DEF SuggestionsInvariant, TypeOK, Fingerprint, PrintOf
<1>4. x \in Triage /\ x.phase = "asked" /\ x.job = NextId(jobs) /\ x.print = PrintOf(t) /\ x.txn = t
  BY <1>0, <1>2, <1>3 DEF Triage
<1>5. x \in Call /\ x \notin Mine /\ x \notin Acceptance /\ x \notin RuleAcceptance
  BY <1>4, KindsDiffer
<1>6. Becomes(c, x)
  BY <1>1 DEF RunLlm
<1>7. Fits(x)'
  BY <1>1, <1>2, <1>3, <1>4, <1>5 DEF Fits, TriageFits
<1>8. \A d \in Client : d # c => Apart(x, calls[d])'
  BY <1>5 DEF Apart
<1>9. calls[c] \notin RuleAcceptance
  BY <1>1, CallShape, KindsDiffer
<1> QED BY <1>1, <1>2, <1>5, <1>6, <1>7, <1>8, <1>9, OneRequestOnly

LEMMA BeginMiningStep ==
  ASSUME SuggestionsInvariant, NEW c \in Client, BeginMining(c)
  PROVE  SuggestionsInvariant'
<1>0. PICK x : x = [phase |-> "asked", feature |-> "rule_mining", job |-> NextId(jobs), answer |-> Null]
  OBVIOUS
<1>1. Idle(c) /\ RunLlm(c, x) /\ UNCHANGED <<txns, records, enabled, slips>>
  BY <1>0 DEF BeginMining
<1>2. /\ jobs' \in [DOMAIN jobs' -> JobRow] /\ Numbered(jobs)' /\ DOMAIN jobs \subseteq DOMAIN jobs'
      /\ NextId(jobs) \in DOMAIN jobs' /\ NextId(jobs) \in Nat
  BY <1>1, JobBegun
<1>3. x \in Mine /\ x.phase = "asked" /\ x.job = NextId(jobs)
  BY <1>0, <1>2 DEF Mine
<1>4. x \in Call /\ x \notin Triage /\ x \notin Acceptance /\ x \notin RuleAcceptance
  BY <1>3, KindsDiffer
<1>5. Becomes(c, x)
  BY <1>1 DEF RunLlm
<1>6. Fits(x)'
  BY <1>2, <1>3, <1>4 DEF Fits, MineFits
<1>7. \A d \in Client : d # c => Apart(x, calls[d])'
  BY <1>3, <1>4 DEF Apart
<1>8. calls[c] \notin RuleAcceptance
  BY <1>1, CallShape, KindsDiffer
<1> QED BY <1>1, <1>2, <1>4, <1>5, <1>6, <1>7, <1>8, OneRequestOnly

-----------------------------------------------------------------------------
(* The model's answer.                                                     *)

LEMMA JobMarked ==
  ASSUME SuggestionsInvariant, NEW j, NEW status \in JobStatus,
         jobs' = [jobs EXCEPT ![j].status = status]
  PROVE  jobs' \in [DOMAIN jobs' -> JobRow] /\ Numbered(jobs)' /\ DOMAIN jobs \subseteq DOMAIN jobs'
<1>1. jobs \in [DOMAIN jobs -> JobRow] /\ Numbered(jobs)
  BY JobsAre
<1>2. DOMAIN jobs' = DOMAIN jobs /\ \A i \in DOMAIN jobs : jobs'[i] \in JobRow
  BY <1>1 DEF JobRow
<1> QED BY <1>1, <1>2 DEF Numbered

LEMMA AnswersStep ==
  ASSUME SuggestionsInvariant, NEW c \in Client, NEW answer, Answers(c, answer)
  PROVE  SuggestionsInvariant'
<1>0. PICK x : x = [calls[c] EXCEPT !.phase = "answered", !.answer = answer]
  OBVIOUS
<1>1. /\ Phase(c) = "asked" /\ Becomes(c, x) /\ UNCHANGED <<txns, records, enabled, slips>>
      /\ jobs' = [jobs EXCEPT ![calls[c].job].status = "completed"]
      /\ IF calls[c].feature = "rule_mining" THEN answer \in Proposal ELSE answer \in Answer
  BY <1>0 DEF Answers
<1>2. jobs' \in [DOMAIN jobs' -> JobRow] /\ Numbered(jobs)' /\ DOMAIN jobs \subseteq DOMAIN jobs'
  BY <1>1, JobMarked DEF JobStatus
<1>3. calls[c] \in Triage \cup Mine /\ calls[c] \notin RuleAcceptance
  BY <1>1, CallShape, KindsDiffer
<1>4. Fits(calls[c])
  BY DEF SuggestionsInvariant
<1>5. CASE calls[c] \in Triage
  <2>1. /\ x \in Triage /\ x.phase = "answered" /\ x.answer = answer /\ answer \in Answer
        /\ x.print = calls[c].print /\ x.txn = calls[c].txn
    BY <1>0, <1>1, <1>5 DEF Triage
  <2>2. x \in Call /\ x \notin Mine /\ x \notin Acceptance /\ x \notin RuleAcceptance
    BY <2>1, KindsDiffer
  <2>3. calls[c].print.stamp <= txns[calls[c].txn].stamp /\ txns' = txns
    BY <1>1, <1>4, <1>5 DEF Fits, TriageFits
  <2>4. Fits(x)'
    BY <2>1, <2>2, <2>3 DEF Fits, TriageFits
  <2>5. \A d \in Client : d # c => Apart(x, calls[d])'
    BY <2>2 DEF Apart
  <2> QED BY <1>1, <1>2, <1>3, <2>2, <2>4, <2>5, OneRequestOnly
<1>6. CASE calls[c] \in Mine
  <2>1. x \in Mine /\ x.phase = "answered" /\ x.answer = answer /\ answer \in Proposal
    BY <1>0, <1>1, <1>6 DEF Mine
  <2>2. x \in Call /\ x \notin Triage /\ x \notin Acceptance /\ x \notin RuleAcceptance
    BY <2>1, KindsDiffer
  <2>3. Fits(x)'
    BY <2>1, <2>2 DEF Fits, MineFits
  <2>4. \A d \in Client : d # c => Apart(x, calls[d])'
    BY <2>1, <2>2 DEF Apart
  <2> QED BY <1>1, <1>2, <1>3, <2>2, <2>3, <2>4, OneRequestOnly
<1> QED BY <1>3, <1>5, <1>6

LEMMA CallFailsStep ==
  ASSUME SuggestionsInvariant, NEW c \in Client, CallFails(c)
  PROVE  SuggestionsInvariant'
<1>1. /\ Phase(c) = "asked" /\ Becomes(c, Null) /\ UNCHANGED <<txns, records, enabled, slips>>
      /\ jobs' = [jobs EXCEPT ![calls[c].job].status = "failed"]
  BY DEF CallFails, Ends
<1>2. jobs' \in [DOMAIN jobs' -> JobRow] /\ Numbered(jobs)' /\ DOMAIN jobs \subseteq DOMAIN jobs'
  BY <1>1, JobMarked DEF JobStatus
<1>3. calls[c] \notin RuleAcceptance
  BY <1>1, CallShape, KindsDiffer
<1> QED BY <1>1, <1>2, <1>3, NullFits, OneRequestOnly

LEMMA CheckAnswerStep ==
  ASSUME SuggestionsInvariant, NEW c \in Client, CheckAnswer(c)
  PROVE  SuggestionsInvariant'
<1>1. Phase(c) = "answered" /\ calls[c].feature = "transaction_triage" /\ UNCHANGED <<txns, records, jobs, enabled, slips>>
  BY DEF CheckAnswer
<1>2. jobs' \in [DOMAIN jobs' -> JobRow] /\ Numbered(jobs)' /\ DOMAIN jobs \subseteq DOMAIN jobs'
  BY <1>1, JobsAre DEF Numbered
<1>3. calls[c] \in Triage /\ calls[c] \notin RuleAcceptance /\ calls[c].phase = "answered"
  BY <1>1, CallShape, KindsDiffer DEF Phase
<1>4. CASE Becomes(c, Null)
  BY <1>1, <1>2, <1>3, <1>4, NullFits, OneRequestOnly
<1>5. CASE Becomes(c, [calls[c] EXCEPT !.phase = "storing"])
  <2>0. PICK x : x = [calls[c] EXCEPT !.phase = "storing"]
    OBVIOUS
  <2>1. /\ x \in Triage /\ x.phase = "storing" /\ x.answer = calls[c].answer
        /\ x.print = calls[c].print /\ x.txn = calls[c].txn
    BY <1>3, <2>0 DEF Triage
  <2>2. x \in Call /\ x \notin Mine /\ x \notin Acceptance /\ x \notin RuleAcceptance
    BY <2>1, KindsDiffer
  <2>3. calls[c].print.stamp <= txns[calls[c].txn].stamp /\ txns' = txns /\ calls[c].answer \in Answer
    BY <1>1, <1>3 DEF Fits, TriageFits, SuggestionsInvariant
  <2>4. Fits(x)'
    BY <2>1, <2>2, <2>3 DEF Fits, TriageFits
  <2>5. \A d \in Client : d # c => Apart(x, calls[d])'
    BY <2>2 DEF Apart
  <2> QED BY <1>1, <1>2, <1>3, <1>5, <2>0, <2>2, <2>4, <2>5, OneRequestOnly
<1> QED BY <1>4, <1>5 DEF CheckAnswer, Ends

LEMMA FindProposalStep ==
  ASSUME SuggestionsInvariant, NEW c \in Client, FindProposal(c)
  PROVE  SuggestionsInvariant'
<1>1. Phase(c) = "answered" /\ calls[c].feature = "rule_mining" /\ UNCHANGED <<txns, records, jobs, enabled>>
  BY DEF FindProposal
<1>2. jobs' \in [DOMAIN jobs' -> JobRow] /\ Numbered(jobs)' /\ DOMAIN jobs \subseteq DOMAIN jobs'
  BY <1>1, JobsAre DEF Numbered
<1>3. calls[c] \in Mine /\ calls[c] \notin RuleAcceptance /\ calls[c].phase = "answered"
  BY <1>1, CallShape, KindsDiffer DEF Phase
<1>4. CASE SameProposal(calls[c].answer) # {}
  <2>1. Becomes(c, Null) /\ UNCHANGED slips
    BY <1>4 DEF FindProposal, Ends
  <2> QED BY <1>1, <1>2, <1>3, <2>1, NullFits, OneRequestOnly
<1>5. CASE SameProposal(calls[c].answer) = {}
  <2>0. PICK x : x = [calls[c] EXCEPT !.phase = "inserting"]
    OBVIOUS
  <2>1. x \in Mine /\ x.phase = "inserting" /\ x.answer = calls[c].answer
    BY <1>3, <2>0 DEF Mine
  <2>2. x \in Call /\ x \notin Triage /\ x \notin Acceptance /\ x \notin RuleAcceptance
    BY <2>1, KindsDiffer
  <2>3. /\ Becomes(c, x) /\ slips \subseteq slips'
        /\ (\E d \in Client : Mining(d, x.answer)) => <<"mined twice", x.answer>> \in slips'
    BY <1>5, <2>0, <2>1 DEF FindProposal
  <2>4. calls[c].answer \in Proposal
    BY <1>3 DEF Fits, MineFits, SuggestionsInvariant
  <2>5. Fits(x)'
    <3>1. SameProposal(x.answer)' = {}
      BY <1>1, <1>5, <2>1 DEF SameProposal, records
    <3> QED BY <2>1, <2>2, <2>4, <3>1 DEF Fits, MineFits
  <2>6. ASSUME NEW d \in Client, d # c PROVE Apart(x, calls[d])'
    <3>1. calls'[d] = calls[d]
      BY <2>3, <2>6 DEF Becomes, SuggestionsInvariant
    <3>2. CASE calls[d] \in Mine /\ calls[d].phase = "inserting" /\ calls[d].answer = x.answer
      <4>1. Phase(d) = "inserting"
        BY <3>2, CallShape, KindsDiffer
      <4> QED BY <2>2, <2>3, <3>2, <4>1 DEF Mining, Apart
    <3>3. CASE ~(calls[d] \in Mine /\ calls[d].phase = "inserting" /\ calls[d].answer = x.answer)
      BY <2>2, <3>1, <3>3 DEF Apart
    <3> QED BY <3>2, <3>3
  <2>7. \A d \in Client : d # c => Apart(x, calls[d])'
    BY <2>6
  <2> QED BY <1>1, <1>2, <1>3, <2>2, <2>3, <2>5, <2>7, OneRequestOnly
<1> QED BY <1>4, <1>5

-----------------------------------------------------------------------------
(* What the model's answer is kept as.                                     *)

LEMMA StoreSuggestionStep ==
  ASSUME SuggestionsInvariant, NEW c \in Client, StoreSuggestion(c)
  PROVE  SuggestionsInvariant'
<1>1. Phase(c) = "storing" /\ Becomes(c, Null) /\ UNCHANGED <<txns, proposals, jobs, enabled, slips>>
  BY DEF StoreSuggestion, Ends
<1>2. calls[c] \in Triage /\ calls[c] \notin RuleAcceptance /\ calls[c].phase = "storing"
  BY <1>1, CallShape, KindsDiffer DEF Phase
<1>3. jobs' \in [DOMAIN jobs' -> JobRow] /\ Numbered(jobs)' /\ DOMAIN jobs \subseteq DOMAIN jobs'
  BY <1>1, JobsAre DEF Numbered
<1>4. CASE suggestions' = suggestions
  BY <1>1, <1>2, <1>3, <1>4, NullFits, OneRequestOnly DEF records
<1>5. CASE ~Stored(calls[c].txn, calls[c].print)
  <2>0. PICK row : row = [txn |-> calls[c].txn, print |-> calls[c].print, shown |-> calls[c].print,
                          category |-> calls[c].answer.category, title |-> calls[c].answer.title,
                          status |-> "pending", applied |-> 0]
    OBVIOUS
  <2>1. suggestions' = Put(suggestions, NextId(suggestions), row)
    BY <1>5, <2>0 DEF StoreSuggestion, PrintToStore
  <2>2. /\ calls[c].txn \in Txn /\ calls[c].print \in Fingerprint /\ calls[c].answer \in Answer
        /\ calls[c].print.stamp <= txns[calls[c].txn].stamp
    <3>1. TriageFits(calls[c])
      BY <1>2 DEF Fits, SuggestionsInvariant
    <3> QED BY <1>2, <3>1 DEF Triage, TriageFits
  <2>3. row \in SuggestionRow
    BY <2>0, <2>2 DEF SuggestionRow, Answer, Status
  <2>4. suggestions \in [DOMAIN suggestions -> SuggestionRow] /\ Numbered(suggestions)
    BY DEF SuggestionsInvariant, TypeOK, SuggestionRow
  <2>50. PICK n : n = NextId(suggestions)
    OBVIOUS
  <2>5. /\ suggestions' \in [DOMAIN suggestions' -> SuggestionRow] /\ DOMAIN suggestions' = DOMAIN suggestions \cup {n}
        /\ n \notin DOMAIN suggestions /\ Numbered(suggestions')
        /\ suggestions'[n] = row /\ \A k \in DOMAIN suggestions : suggestions'[k] = suggestions[k]
    <3>1. suggestions' = Put(suggestions, n, row)
      BY <2>1, <2>50
    <3> HIDE DEF NextId
    <3> QED BY <2>3, <2>4, <2>50, <3>1, PutShape
  <2>6. TypeOK'
    <3>1. \A q, r \in DOMAIN suggestions' :
            suggestions'[q].txn = suggestions'[r].txn /\ suggestions'[q].print = suggestions'[r].print => q = r
      <4>1. \A q \in DOMAIN suggestions : ~(suggestions[q].txn = row.txn /\ suggestions[q].print = row.print)
        BY <1>5, <2>0 DEF Stored
      <4>2. \A q, r \in DOMAIN suggestions :
              suggestions[q].txn = suggestions[r].txn /\ suggestions[q].print = suggestions[r].print => q = r
        BY DEF SuggestionsInvariant, TypeOK
      <4> QED BY <2>5, <4>1, <4>2
    <3> QED BY <1>1, <2>5, <3>1 DEF SuggestionsInvariant, TypeOK, SuggestionRow
  <2>7. SuggestionsOK'
    <3>1. ASSUME NEW k \in DOMAIN suggestions PROVE SuggestionOK(k)'
      <4>1. SuggestionOK(k)
        BY DEF SuggestionsInvariant
      <4> QED BY <1>1, <2>5, <4>1 DEF SuggestionOK
    <3>2. SuggestionOK(n)'
      <4>1. /\ row.print = row.shown /\ row.applied = 0 /\ row.status = "pending"
            /\ row.print = calls[c].print /\ row.txn = calls[c].txn
        BY <2>0
      <4>2. suggestions'[n] = row /\ txns' = txns
        BY <1>1, <2>5
      <4>3. ~(row.applied > 0) /\ ~(row.applied > 1) /\ row.status # "accepted"
        BY <4>1
      <4>4. row.print = row.shown /\ row.print.stamp <= txns[row.txn].stamp
        BY <2>2, <4>1
      <4> QED BY <4>2, <4>3, <4>4 DEF SuggestionOK
    <3> QED BY <2>5, <3>1, <3>2 DEF SuggestionsOK, Numbered
  <2>8. Grows /\ NothingApplied /\ NothingMade /\ NothingOffered
    <3>1. \A t \in Txn : txns[t].stamp <= txns'[t].stamp
      BY <1>1 DEF SuggestionsInvariant, TypeOK
    <3> QED BY <1>1, <2>5, <3>1 DEF Grows, NothingApplied, NothingMade, NothingOffered, SameProposal
  <2>9. RequestsOK'
    <3>1. \A call \in Call : Fits(call) => Fits(call)'
      BY <2>6, <2>8, AllFit
    <3> QED BY <1>1, <3>1, NullFits, OneRequest
  <2>10. ProposalsOK'
    <3>1. \A d \in Client, r \in DOMAIN proposals :
           Marks(calls[d], r) => <<"rule cut off", r>> \in slips' \/ Marks(calls'[d], r)
      BY <1>1, <1>2, MarksStay
    <3> QED BY <1>1, <3>1, ProposalsStay
  <2> QED BY <1>3, <2>6, <2>7, <2>9, <2>10, Together
<1> QED BY <1>4, <1>5 DEF StoreSuggestion, PrintToStore

LEMMA StoreProposalStep ==
  ASSUME SuggestionsInvariant, NEW c \in Client, StoreProposal(c)
  PROVE  SuggestionsInvariant'
<1>0. PICK row : row = [proposal |-> calls[c].answer, status |-> "pending", made |-> 0]
  OBVIOUS
<1>1. /\ Phase(c) = "inserting" /\ Becomes(c, Null) /\ UNCHANGED <<txns, suggestions, jobs, enabled, slips>>
      /\ proposals' = Put(proposals, NextId(proposals), row)
  BY <1>0 DEF StoreProposal, Ends
<1>2. calls[c] \in Mine /\ calls[c] \notin RuleAcceptance /\ calls[c].phase = "inserting"
  BY <1>1, CallShape, KindsDiffer DEF Phase
<1>3. /\ calls[c].answer \in Proposal
      /\ SameProposal(calls[c].answer) # {} => <<"mined twice", calls[c].answer>> \in slips
  BY <1>2 DEF Fits, MineFits, SuggestionsInvariant
<1>4. row \in ProposalRow
  BY <1>0, <1>3 DEF ProposalRow, Status
<1>5. proposals \in [DOMAIN proposals -> ProposalRow] /\ Numbered(proposals)
  BY DEF SuggestionsInvariant, TypeOK, ProposalRow
<1>50. PICK n : n = NextId(proposals)
  OBVIOUS
<1>6. /\ proposals' \in [DOMAIN proposals' -> ProposalRow] /\ DOMAIN proposals' = DOMAIN proposals \cup {n}
      /\ n \notin DOMAIN proposals /\ Numbered(proposals')
      /\ proposals'[n] = row /\ \A k \in DOMAIN proposals : proposals'[k] = proposals[k]
  BY <1>1, <1>4, <1>5, <1>50, PutShape
<1>7. TypeOK'
  BY <1>1, <1>6 DEF SuggestionsInvariant, TypeOK, ProposalRow
<1>8. \A t \in Txn : txns[t].stamp <= txns'[t].stamp
  BY <1>1 DEF SuggestionsInvariant, TypeOK
<1>9. SuggestionsOK'
  BY <1>1, <1>7, <1>8, SuggestionsStay
<1>10. ASSUME NEW d \in Client, NEW call \in Call, d # c, call = calls[d], Fits(call) PROVE Fits(call)'
  <2>1. Grows
    BY <1>1, <1>6, <1>8 DEF Grows
  <2>2. call \in Mine /\ call.phase = "inserting" /\ SameProposal(call.answer)' # {} =>
          SameProposal(call.answer) # {} \/ <<"mined twice", call.answer>> \in slips'
    <3>1. CASE call.answer = calls[c].answer
      <4>1. Apart(calls[c], calls[d])
        BY <1>10 DEF SuggestionsInvariant
      <4> QED BY <1>1, <1>2, <1>10, <3>1, <4>1 DEF Apart
    <3>2. CASE call.answer # calls[c].answer
      <4>1. ASSUME NEW r \in DOMAIN proposals', proposals'[r].proposal = call.answer, proposals'[r].status = "pending"
            PROVE  r \in SameProposal(call.answer)
        <5>1. r # n
          BY <1>0, <1>6, <3>2, <4>1
        <5> QED BY <1>6, <4>1, <5>1 DEF SameProposal
      <4> QED BY <4>1 DEF SameProposal
    <3> QED BY <3>1, <3>2
  <2>3. call \in Acceptance => suggestions'[call.id].applied = suggestions[call.id].applied
    BY <1>1
  <2>4. call \in RuleAcceptance => proposals'[call.id].made = proposals[call.id].made
    BY <1>6, <1>10 DEF Fits, RuleAcceptanceFits
  <2>5. Unaffected(call)
    BY <2>2, <2>3, <2>4 DEF Unaffected
  <2> QED BY <1>7, <1>10, <2>1, <2>5, FitsStay
<1>11. RequestsOK'
  BY <1>1, <1>10, NullFits, OneRequest
<1>12. ProposalsOK'
  <2>1. \A d \in Client, r \in DOMAIN proposals : Marks(calls[d], r) => Marks(calls'[d], r)
    <3>1. \A d \in Client : d # c => calls'[d] = calls[d]
      BY <1>1 DEF SuggestionsInvariant, Becomes
    <3> QED BY <1>2, <3>1 DEF Marks
  <2>2. ASSUME NEW k \in DOMAIN proposals PROVE ProposalOK(k)'
    <3>1. ProposalOK(k)
      BY DEF SuggestionsInvariant
    <3> QED BY <1>1, <1>6, <2>1, <3>1 DEF ProposalOK
  <2>3. row.made = 0 /\ row.status = "pending" /\ row.proposal = calls[c].answer
    BY <1>0
  <2>4. ProposalOK(n)'
    <3>1. proposals'[n] = row
      BY <1>6
    <3>2. ~(row.made > 0) /\ ~(row.made > 1) /\ row.status # "accepted"
      BY <2>3
    <3> QED BY <3>1, <3>2 DEF ProposalOK
  <2>5. OfferedOnce'
    <3>1. \A r \in DOMAIN proposals : proposals[r].status = "pending" /\ proposals[r].proposal = row.proposal
            => <<"mined twice", row.proposal>> \in slips
      BY <1>3, <2>3 DEF SameProposal
    <3>2. OfferedOnce
      BY DEF SuggestionsInvariant
    <3>3. ASSUME NEW r \in DOMAIN proposals', NEW q \in DOMAIN proposals', r # q,
                 proposals'[r].status = "pending", proposals'[q].status = "pending",
                 proposals'[r].proposal = proposals'[q].proposal
          PROVE  <<"mined twice", proposals'[r].proposal>> \in slips'
      <4>1. CASE r = n
        <5>1. q \in DOMAIN proposals /\ proposals'[q] = proposals[q] /\ proposals'[r] = row
          BY <1>6, <3>3, <4>1
        <5> QED BY <1>1, <3>1, <3>3, <5>1
      <4>2. CASE q = n
        <5>1. r \in DOMAIN proposals /\ proposals'[r] = proposals[r] /\ proposals'[q] = row
          BY <1>6, <3>3, <4>2
        <5> QED BY <1>1, <3>1, <3>3, <5>1
      <4>3. CASE r # n /\ q # n
        <5>1. /\ r \in DOMAIN proposals /\ proposals'[r] = proposals[r]
              /\ q \in DOMAIN proposals /\ proposals'[q] = proposals[q]
          BY <1>6, <4>3
        <5> QED BY <1>1, <3>2, <3>3, <5>1 DEF OfferedOnce
      <4> QED BY <4>1, <4>2, <4>3
    <3> QED BY <3>3 DEF OfferedOnce
  <2> QED BY <1>6, <2>2, <2>4, <2>5 DEF ProposalsOK, Numbered
<1>13. Numbered(jobs)'
  BY <1>1 DEF SuggestionsInvariant, Numbered
<1> QED BY <1>7, <1>9, <1>11, <1>12, <1>13, Together

-----------------------------------------------------------------------------
(* Accepting.                                                              *)

\* A request that accepts a row is one of those that Accepting finds.
LEMMA AcceptingFinds ==
  ASSUME SuggestionsInvariant, NEW d \in Client
  PROVE  /\ calls[d] \in Acceptance => d \in Accepting("suggestions", calls[d].id)
         /\ calls[d] \in RuleAcceptance => d \in Accepting("proposals", calls[d].id)
<1>1. ~Idle(d) => Phase(d) = calls[d].phase
  BY CallShape
<1>2. calls[d] \in Acceptance \cup RuleAcceptance => ~Idle(d)
  BY CallShape, KindsDiffer
<1>3. CASE calls[d] \in Acceptance
  <2>1. calls[d].phase \in {"accepting", "applied"} /\ calls[d].table = "suggestions"
    BY <1>3 DEF Acceptance
  <2>2. calls[d] \notin RuleAcceptance
    BY <1>3, KindsDiffer
  <2> QED BY <1>1, <1>2, <1>3, <2>1, <2>2 DEF Accepting
<1>4. CASE calls[d] \in RuleAcceptance
  <2>1. calls[d].phase \in {"accepting", "applied"} /\ calls[d].table = "proposals"
    BY <1>4 DEF RuleAcceptance
  <2>2. calls[d] \notin Acceptance
    BY <1>4, KindsDiffer
  <2> QED BY <1>1, <1>2, <1>4, <2>1, <2>2 DEF Accepting
<1> QED BY <1>3, <1>4

\* Ids are numbers.
LEMMA IdsAreNumbers ==
  SuggestionsInvariant => DOMAIN suggestions \subseteq Nat /\ DOMAIN proposals \subseteq Nat
BY DEF SuggestionsInvariant, Numbered

\* A transaction that still has the fingerprint of a suggestion has not got it yet.
LEMMA CurrentIsNew ==
  ASSUME SuggestionsInvariant, NEW s \in DOMAIN suggestions, Current(s)
  PROVE  /\ suggestions[s].applied = 0 /\ PrintOf(suggestions[s].txn) = suggestions[s].shown
         /\ PrintOf(suggestions[s].txn) \in Fingerprint
<1>1. /\ suggestions[s].txn \in Txn /\ suggestions[s].applied \in Nat /\ suggestions[s].print \in Fingerprint
  BY DEF SuggestionsInvariant, TypeOK
<1>2. suggestions[s].print.stamp = txns[suggestions[s].txn].stamp /\ suggestions[s].print.stamp \in Nat
  BY <1>1 DEF Current, PrintOf, Fingerprint
<1>3. SuggestionOK(s)
  BY DEF SuggestionsInvariant
<1> QED BY <1>1, <1>2, <1>3 DEF SuggestionOK, Current

LEMMA BeginAcceptStep ==
  ASSUME SuggestionsInvariant, NEW c \in Client, NEW s \in DOMAIN suggestions, BeginAccept(c, s)
  PROVE  SuggestionsInvariant'
<1>1. Idle(c) /\ UNCHANGED <<txns, proposals, jobs, enabled>>
  BY DEF BeginAccept
<1>2. jobs' \in [DOMAIN jobs' -> JobRow] /\ Numbered(jobs)' /\ DOMAIN jobs \subseteq DOMAIN jobs'
  BY <1>1, JobsAre DEF Numbered
<1>3. CASE Current(s)
  <2>0. PICK x : x = [phase |-> "accepting", table |-> "suggestions", id |-> s,
                      seen |-> PrintOf(suggestions[s].txn)]
    OBVIOUS
  <2>1. /\ Becomes(c, x) /\ UNCHANGED suggestions /\ slips \subseteq slips'
        /\ Accepting("suggestions", s) # {} => <<"twice", s>> \in slips'
    BY <1>3, <2>0 DEF BeginAccept
  <2>2. /\ suggestions[s].applied = 0 /\ PrintOf(suggestions[s].txn) = suggestions[s].shown
        /\ PrintOf(suggestions[s].txn) \in Fingerprint
    BY <1>3, CurrentIsNew
  <2>3. /\ x \in Acceptance /\ x.phase = "accepting" /\ x.id = s /\ x.seen = suggestions[s].shown
    BY <2>0, <2>2, IdsAreNumbers DEF Acceptance
  <2>4. x \in Call /\ x \notin Mine /\ x \notin Triage /\ x \notin RuleAcceptance
    BY <2>3, KindsDiffer
  <2>5. Fits(x)'
    <3>1. ~(suggestions'[s].applied > 0)
      BY <2>1, <2>2
    <3> QED BY <2>1, <2>3, <2>4, <3>1 DEF Fits, AcceptanceFits
  <2>6. ASSUME NEW d \in Client, d # c PROVE Apart(x, calls[d])'
    <3>1. calls'[d] = calls[d]
      BY <2>1, <2>6 DEF Becomes, SuggestionsInvariant
    <3>2. calls[d] \in Acceptance /\ calls[d].id = s => <<"twice", s>> \in slips'
      BY <2>1, AcceptingFinds
    <3> QED BY <2>3, <2>4, <3>1, <3>2 DEF Apart
  <2>7. \A d \in Client : d # c => Apart(x, calls[d])'
    BY <2>6
  <2>8. calls[c] \notin RuleAcceptance
    BY <1>1, CallShape, KindsDiffer
  <2> QED BY <1>1, <1>2, <2>1, <2>4, <2>5, <2>7, <2>8, OneRequestOnly DEF records
<1>4. CASE ~Current(s)
  <2>1. suggestions' = [suggestions EXCEPT ![s].status = "stale"] /\ UNCHANGED <<calls, slips>>
    BY <1>4 DEF BeginAccept
  <2>2. TypeOK' /\ SuggestionsOK' /\ Numbered(jobs)' /\ \A call \in Call : Fits(call) => Fits(call)'
    BY <1>1, <2>1, StatusOnly DEF Status
  <2>3. RequestsOK'
    BY <2>1, <2>2, NoRequest
  <2>4. ProposalsOK'
    BY <1>1, <2>1, ProposalsStay DEF Marks
  <2> QED BY <2>2, <2>3, <2>4, Together
<1> QED BY <1>3, <1>4

LEMMA ApplyStep ==
  ASSUME SuggestionsInvariant, NEW c \in Client, Apply(c)
  PROVE  SuggestionsInvariant'
<1>1. /\ Phase(c) = "accepting" /\ calls[c].table = "suggestions"
      /\ UNCHANGED <<proposals, jobs, enabled, slips>>
  BY DEF Apply
<1>2. jobs' \in [DOMAIN jobs' -> JobRow] /\ Numbered(jobs)' /\ DOMAIN jobs \subseteq DOMAIN jobs'
  BY <1>1, JobsAre DEF Numbered
<1>3. /\ calls[c] \in Acceptance /\ calls[c] \notin RuleAcceptance /\ calls[c] \notin Mine
      /\ calls[c].phase = "accepting"
  BY <1>1, CallShape, KindsDiffer DEF Phase
<1>4. PICK s : s = calls[c].id
  OBVIOUS
<1>5. /\ s \in DOMAIN suggestions /\ calls[c].seen = suggestions[s].shown
      /\ suggestions[s].applied > 0 => <<"twice", s>> \in slips
  <2>1. AcceptanceFits(calls[c])
    BY <1>3 DEF Fits, SuggestionsInvariant
  <2> QED BY <1>3, <1>4, <2>1 DEF AcceptanceFits
<1>6. \A r \in DOMAIN suggestions : suggestions[r] \in SuggestionRow
  BY DEF SuggestionsInvariant, TypeOK, SuggestionRow
<1>7. CASE ~txns[suggestions[s].txn].live
  <2>1. Becomes(c, Null) /\ UNCHANGED <<txns, suggestions>>
    BY <1>4, <1>7 DEF Apply, Ends
  <2> QED BY <1>1, <1>2, <1>3, <2>1, NullFits, OneRequestOnly DEF records
<1>8. CASE txns[suggestions[s].txn].live
  <2>0. PICK x : x = [calls[c] EXCEPT !.phase = "applied"]
    OBVIOUS
  <2>1. PICK row : row = suggestions[s]
    OBVIOUS
  <2>2. PICK t : t = txns[row.txn]
    OBVIOUS
  <2>3. PICK new : new = [t EXCEPT !.category = IF row.category = Null THEN t.category ELSE row.category,
                              !.title = IF row.title = calls[c].seen.title THEN t.title ELSE row.title,
                              !.stamp = @ + 1]
    OBVIOUS
  <2>4. /\ txns' = [txns EXCEPT ![row.txn] = new]
        /\ suggestions' = [suggestions EXCEPT ![s].applied = @ + 1] /\ Becomes(c, x)
    BY <1>4, <1>8, <2>0, <2>1, <2>2, <2>3 DEF Apply
  <2>5. row \in SuggestionRow /\ row.txn \in Txn /\ row.applied \in Nat
    BY <1>5, <1>6, <2>1 DEF SuggestionRow
  <2> DEFINE TxnRow == [category : Category \cup {Uncategorized}, title : Title, live : BOOLEAN, stamp : Nat]
  <2>6. t \in TxnRow
    BY <2>2, <2>5 DEF SuggestionsInvariant, TypeOK
  <2>7. new \in TxnRow /\ new.stamp = t.stamp + 1 /\ t.stamp \in Nat
    <3>1. row.category \in Category \cup {Null} /\ row.title \in Title
      BY <2>5 DEF SuggestionRow
    <3>2. t.category \in Category \cup {Uncategorized} /\ t.title \in Title /\ t.stamp \in Nat
      BY <2>6
    <3>3. PICK category \in Category \cup {Uncategorized} :
            category = IF row.category = Null THEN t.category ELSE row.category
      BY <3>1, <3>2
    <3>4. PICK title \in Title : title = IF row.title = calls[c].seen.title THEN t.title ELSE row.title
      BY <3>1, <3>2
    <3>5. new = [t EXCEPT !.category = category, !.title = title, !.stamp = t.stamp + 1]
      BY <2>3, <3>3, <3>4
    <3>6. t.stamp + 1 \in Nat
      BY <3>2
    <3> QED BY <2>6, <3>2, <3>5, <3>6
  <2>8. txns' \in [Txn -> TxnRow] /\ \A u \in Txn : txns[u].stamp \in Nat /\ txns[u].stamp <= txns'[u].stamp
    <3>1. txns \in [Txn -> TxnRow]
      BY DEF SuggestionsInvariant, TypeOK
    <3>2. \A u \in Txn : txns[u].stamp \in Nat
      BY <3>1
    <3>3. \A u \in Txn : txns'[u] = IF u = row.txn THEN new ELSE txns[u]
      BY <2>4, <3>1
    <3> QED BY <2>2, <2>4, <2>5, <2>7, <3>1, <3>2, <3>3
  <2>9. txns'[row.txn].stamp = txns[row.txn].stamp + 1
    BY <2>2, <2>4, <2>5, <2>7 DEF SuggestionsInvariant, TypeOK
  <2> HIDE DEF TxnRow
  <2>10. /\ DOMAIN suggestions' = DOMAIN suggestions
         /\ \A r \in DOMAIN suggestions :
              suggestions'[r] = IF r = s THEN [row EXCEPT !.applied = row.applied + 1] ELSE suggestions[r]
    BY <2>1, <2>4
  <2>11. \A r \in DOMAIN suggestions :
           /\ suggestions'[r] \in SuggestionRow /\ suggestions'[r].txn = suggestions[r].txn
           /\ suggestions'[r].print = suggestions[r].print /\ suggestions'[r].shown = suggestions[r].shown
           /\ suggestions'[r].status = suggestions[r].status
           /\ suggestions'[r].applied = IF r = s THEN row.applied + 1 ELSE suggestions[r].applied
    BY <1>6, <2>1, <2>5, <2>10 DEF SuggestionRow
  <2>12. TypeOK'
    <3>1. suggestions' \in [DOMAIN suggestions' -> SuggestionRow]
      <4>1. suggestions' = [r \in DOMAIN suggestions' |-> suggestions'[r]]
        BY <2>4
      <4> QED BY <2>10, <2>11, <4>1
    <3>2. \A q, r \in DOMAIN suggestions' :
            suggestions'[q].txn = suggestions'[r].txn /\ suggestions'[q].print = suggestions'[r].print => q = r
      BY <2>10, <2>11 DEF SuggestionsInvariant, TypeOK
    <3> QED BY <1>1, <2>8, <3>1, <3>2 DEF SuggestionsInvariant, TypeOK, SuggestionRow, TxnRow
  <2>13. SuggestionsOK'
    <3>1. ASSUME NEW r \in DOMAIN suggestions PROVE SuggestionOK(r)'
      <4>1. SuggestionOK(r)
        BY DEF SuggestionsInvariant
      <4>2. suggestions[r].print.stamp \in Nat /\ suggestions[r].txn \in Txn /\ suggestions[r].applied \in Nat
        BY <1>6 DEF SuggestionRow, Fingerprint
      <4>3. txns[suggestions[r].txn].stamp \in Nat /\ txns[suggestions[r].txn].stamp <= txns'[suggestions[r].txn].stamp
        BY <2>8, <4>2
      <4>4. txns'[suggestions[r].txn].stamp \in Nat
        BY <2>8, <4>2 DEF TxnRow
      <4>5. CASE r = s
        <5>1. /\ suggestions'[r].applied = suggestions[r].applied + 1
              /\ txns'[suggestions[r].txn].stamp = txns[suggestions[r].txn].stamp + 1
          BY <2>1, <2>9, <2>11, <4>5
        <5>2. suggestions'[r].applied > 1 => suggestions[r].applied > 0
          BY <4>2, <5>1
        <5>3. suggestions'[r].applied > 0
          BY <4>2, <5>1
        <5>4. suggestions[r].print.stamp < txns'[suggestions[r].txn].stamp
          BY <4>1, <4>2, <4>3, <5>1 DEF SuggestionOK
        <5>5. suggestions'[r].applied > 1 => <<"twice", r>> \in slips'
          BY <1>1, <1>5, <4>5, <5>2
        <5> QED BY <2>11, <4>1, <4>2, <4>3, <4>4, <5>3, <5>4, <5>5 DEF SuggestionOK
      <4>6. CASE r # s
        BY <1>1, <2>11, <4>1, <4>2, <4>3, <4>4, <4>6 DEF SuggestionOK
      <4> QED BY <4>5, <4>6
    <3> QED BY <2>10, <3>1 DEF SuggestionsOK, SuggestionsInvariant, Numbered
  <2>14. Grows
    BY <1>1, <2>8, <2>10, <2>11 DEF Grows
  <2>15. ASSUME NEW d \in Client, NEW call \in Call, d # c, call = calls[d], Fits(call) PROVE Fits(call)'
    <3>1. Apart(calls[c], calls[d])
      BY <2>15 DEF SuggestionsInvariant
    <3>2. call \in Acceptance =>
            \/ suggestions'[call.id].applied = suggestions[call.id].applied
            \/ suggestions'[call.id].applied > 0 /\ <<"twice", call.id>> \in slips'
      <4>1. CASE call \in Acceptance /\ call.id = s
        <5>1. <<"twice", call.id>> \in slips'
          BY <1>1, <1>3, <1>4, <2>15, <3>1, <4>1 DEF Apart
        <5>2. suggestions'[call.id].applied > 0
          BY <1>5, <2>5, <2>11, <4>1
        <5> QED BY <5>1, <5>2
      <4>2. CASE call \in Acceptance /\ call.id # s
        BY <2>11, <2>15, <4>2 DEF Fits, AcceptanceFits
      <4> QED BY <4>1, <4>2
    <3>3. Unaffected(call)
      BY <1>1, <3>2 DEF Unaffected, SameProposal
    <3> QED BY <2>12, <2>14, <2>15, <3>3, FitsStay
  <2>16. x \in Acceptance /\ x.phase = "applied" /\ x.id = s /\ x.seen = suggestions[s].shown
    BY <1>3, <1>4, <1>5, <2>0 DEF Acceptance
  <2>17. x \in Call /\ x \notin Mine /\ x \notin Triage /\ x \notin RuleAcceptance
    BY <2>16, KindsDiffer
  <2>18. Fits(x)'
    <3>1. suggestions'[s].applied > 0 /\ s \in DOMAIN suggestions' /\ suggestions'[s].shown = suggestions[s].shown
      BY <1>5, <2>5, <2>10, <2>11
    <3> QED BY <2>16, <2>17, <3>1 DEF Fits, AcceptanceFits
  <2>19. ASSUME NEW d \in Client, d # c PROVE Apart(x, calls[d])'
    <3>1. calls'[d] = calls[d] /\ Apart(calls[c], calls[d])
      BY <2>4, <2>19 DEF Becomes, SuggestionsInvariant
    <3> QED BY <1>1, <1>3, <1>4, <2>16, <2>17, <3>1 DEF Apart
  <2>20. RequestsOK'
    BY <1>1, <2>4, <2>15, <2>17, <2>18, <2>19, OneRequest
  <2>21. ProposalsOK'
    <3>1. \A d \in Client, r \in DOMAIN proposals :
           Marks(calls[d], r) => <<"rule cut off", r>> \in slips' \/ Marks(calls'[d], r)
      BY <1>3, <2>4, MarksStay
    <3> QED BY <1>1, <3>1, ProposalsStay
  <2> QED BY <1>2, <2>12, <2>13, <2>20, <2>21, Together
<1> QED BY <1>7, <1>8

-----------------------------------------------------------------------------
(* Accepting a rule.                                                       *)

LEMMA BeginAcceptRuleStep ==
  ASSUME SuggestionsInvariant, NEW c \in Client, NEW r \in DOMAIN proposals, BeginAcceptRule(c, r)
  PROVE  SuggestionsInvariant'
<1>0. PICK x : x = [phase |-> "accepting", table |-> "proposals", id |-> r]
  OBVIOUS
<1>1. /\ Idle(c) /\ proposals[r].status = "pending" /\ Becomes(c, x)
      /\ UNCHANGED <<txns, records, jobs, enabled>> /\ slips \subseteq slips'
      /\ Accepting("proposals", r) # {} => <<"rule twice", r>> \in slips'
  BY <1>0 DEF BeginAcceptRule, Acceptable
<1>2. jobs' \in [DOMAIN jobs' -> JobRow] /\ Numbered(jobs)' /\ DOMAIN jobs \subseteq DOMAIN jobs'
  BY <1>1, JobsAre DEF Numbered
<1>3. x \in RuleAcceptance /\ x.phase = "accepting" /\ x.id = r
  BY <1>0, IdsAreNumbers DEF RuleAcceptance
<1>4. x \in Call /\ x \notin Mine /\ x \notin Triage /\ x \notin Acceptance
  BY <1>3, KindsDiffer
<1>5. \A d \in Client : calls[d] \in RuleAcceptance /\ calls[d].id = r => <<"rule twice", r>> \in slips'
  BY <1>1, AcceptingFinds
<1>6. Fits(x)'
  <2>1. ProposalOK(r)
    BY DEF SuggestionsInvariant
  <2>2. proposals[r].made > 0 => <<"rule twice", r>> \in slips' \/ <<"rule cut off", r>> \in slips'
    BY <1>1, <1>5, <2>1 DEF ProposalOK, Marks
  <2> QED BY <1>1, <1>3, <1>4, <2>2 DEF Fits, RuleAcceptanceFits, records
<1>7. ASSUME NEW d \in Client, d # c PROVE Apart(x, calls[d])'
  <2>1. calls'[d] = calls[d]
    BY <1>1, <1>7 DEF Becomes, SuggestionsInvariant
  <2> QED BY <1>3, <1>4, <1>5, <2>1 DEF Apart
<1>8. \A d \in Client : d # c => Apart(x, calls[d])'
  BY <1>7
<1>9. calls[c] \notin RuleAcceptance
  BY <1>1, CallShape, KindsDiffer
<1> QED BY <1>1, <1>2, <1>4, <1>6, <1>8, <1>9, OneRequestOnly

\* No rule is offered that was not.
LEMMA OfferedStays ==
  ASSUME OfferedOnce, DOMAIN proposals' = DOMAIN proposals, slips \subseteq slips',
         \A q \in DOMAIN proposals : proposals'[q].proposal = proposals[q].proposal
           /\ (proposals'[q].status = "pending" => proposals[q].status = "pending")
  PROVE  OfferedOnce'
<1>1. ASSUME NEW r \in DOMAIN proposals, NEW q \in DOMAIN proposals, r # q,
             proposals'[r].status = "pending", proposals'[q].status = "pending",
             proposals'[r].proposal = proposals'[q].proposal
      PROVE  <<"mined twice", proposals'[r].proposal>> \in slips'
  <2>1. /\ proposals'[r].proposal = proposals[r].proposal /\ proposals[r].status = "pending"
        /\ proposals'[q].proposal = proposals[q].proposal /\ proposals[q].status = "pending"
    BY <1>1
  <2>2. <<"mined twice", proposals[r].proposal>> \in slips
    BY <1>1, <2>1 DEF OfferedOnce
  <2> QED BY <2>1, <2>2
<1> QED BY <1>1 DEF OfferedOnce

LEMMA CreateRuleStep ==
  ASSUME SuggestionsInvariant, NEW c \in Client, CreateRule(c)
  PROVE  SuggestionsInvariant'
<1>0. PICK x : x = [calls[c] EXCEPT !.phase = "applied"]
  OBVIOUS
<1>1. /\ Phase(c) = "accepting" /\ calls[c].table = "proposals" /\ Becomes(c, x)
      /\ UNCHANGED <<txns, suggestions, jobs, enabled, slips>>
      /\ proposals' = [proposals EXCEPT ![calls[c].id].made = @ + 1]
  BY <1>0 DEF CreateRule
<1>2. calls[c] \in RuleAcceptance /\ calls[c] \notin Acceptance /\ calls[c].phase = "accepting"
  BY <1>1, CallShape, KindsDiffer DEF Phase
<1>3. PICK r : r = calls[c].id
  OBVIOUS
<1>4. /\ r \in DOMAIN proposals
      /\ proposals[r].made > 0 => <<"rule twice", r>> \in slips \/ <<"rule cut off", r>> \in slips
  <2>1. RuleAcceptanceFits(calls[c])
    BY <1>2 DEF Fits, SuggestionsInvariant
  <2> QED BY <1>2, <1>3, <2>1 DEF RuleAcceptanceFits
<1>5. \A q \in DOMAIN proposals : proposals[q] \in ProposalRow /\ proposals[q].made \in Nat
  BY DEF SuggestionsInvariant, TypeOK, ProposalRow
<1>6. /\ DOMAIN proposals' = DOMAIN proposals
      /\ \A q \in DOMAIN proposals :
           proposals'[q] = IF q = r THEN [proposals[r] EXCEPT !.made = proposals[r].made + 1] ELSE proposals[q]
  BY <1>1, <1>3
<1>7. \A q \in DOMAIN proposals :
        /\ proposals'[q] \in ProposalRow /\ proposals'[q].status = proposals[q].status
        /\ proposals'[q].proposal = proposals[q].proposal
        /\ proposals'[q].made = IF q = r THEN proposals[r].made + 1 ELSE proposals[q].made
  <2>1. PICK old \in ProposalRow : old = proposals[r]
    BY <1>4, <1>5
  <2>2. old.made \in Nat /\ old.made + 1 \in Nat
    BY <2>1 DEF ProposalRow
  <2>3. /\ [old EXCEPT !.made = old.made + 1] \in ProposalRow
        /\ [old EXCEPT !.made = old.made + 1].made = old.made + 1
        /\ [old EXCEPT !.made = old.made + 1].status = old.status
        /\ [old EXCEPT !.made = old.made + 1].proposal = old.proposal
    BY <2>1, <2>2 DEF ProposalRow
  <2> QED BY <1>4, <1>5, <1>6, <2>1, <2>3
<1>8. TypeOK'
  <2>1. proposals' \in [DOMAIN proposals' -> ProposalRow]
    <3>1. proposals' = [q \in DOMAIN proposals' |-> proposals'[q]]
      BY <1>1
    <3> QED BY <1>6, <1>7, <3>1
  <2> QED BY <1>1, <2>1 DEF SuggestionsInvariant, TypeOK, ProposalRow
<1>9. \A t \in Txn : txns[t].stamp <= txns'[t].stamp
  BY <1>1 DEF SuggestionsInvariant, TypeOK
<1>10. SuggestionsOK'
  BY <1>1, <1>8, <1>9, SuggestionsStay
<1>11. Grows
  BY <1>1, <1>6, <1>9 DEF Grows
<1>12. proposals'[r].made = proposals[r].made + 1 /\ proposals[r].made \in Nat /\ proposals'[r].made > 0
  <2>1. proposals'[r].made = proposals[r].made + 1 /\ proposals[r].made \in Nat
    BY <1>4, <1>5, <1>7
  <2> QED BY <2>1
<1>13. ASSUME NEW d \in Client, NEW call \in Call, d # c, call = calls[d], Fits(call) PROVE Fits(call)'
  <2>1. Apart(calls[c], calls[d])
    BY <1>13 DEF SuggestionsInvariant
  <2>2. call \in RuleAcceptance =>
          \/ proposals'[call.id].made = proposals[call.id].made
          \/ proposals'[call.id].made > 0 /\ <<"rule twice", call.id>> \in slips'
    <3>1. CASE call \in RuleAcceptance /\ call.id = r
      <4>1. <<"rule twice", call.id>> \in slips'
        BY <1>1, <1>2, <1>3, <1>13, <2>1, <3>1 DEF Apart
      <4> QED BY <1>12, <3>1, <4>1
    <3>2. CASE call \in RuleAcceptance /\ call.id # r
      BY <1>7, <1>13, <3>2 DEF Fits, RuleAcceptanceFits
    <3> QED BY <3>1, <3>2
  <2>3. \A p : SameProposal(p)' = SameProposal(p)
    BY <1>6, <1>7 DEF SameProposal
  <2>4. Unaffected(call)
    BY <1>1, <2>2, <2>3 DEF Unaffected
  <2> QED BY <1>8, <1>11, <1>13, <2>4, FitsStay
<1>14. x \in RuleAcceptance /\ x.phase = "applied" /\ x.id = r
  BY <1>0, <1>2, <1>3 DEF RuleAcceptance
<1>15. x \in Call /\ x \notin Mine /\ x \notin Triage /\ x \notin Acceptance
  BY <1>14, KindsDiffer
<1>16. Fits(x)'
  BY <1>4, <1>6, <1>12, <1>14, <1>15 DEF Fits, RuleAcceptanceFits
<1>17. ASSUME NEW d \in Client, d # c PROVE Apart(x, calls[d])'
  <2>1. calls'[d] = calls[d] /\ Apart(calls[c], calls[d])
    BY <1>1, <1>17 DEF Becomes, SuggestionsInvariant
  <2> QED BY <1>1, <1>2, <1>3, <1>14, <1>15, <2>1 DEF Apart
<1>18. RequestsOK'
  BY <1>1, <1>13, <1>15, <1>16, <1>17, OneRequest
<1>19. ProposalsOK'
  <2>1. calls'[c] = x /\ \A d \in Client : d # c => calls'[d] = calls[d]
    BY <1>1 DEF Becomes, SuggestionsInvariant
  <2>2. ASSUME NEW q \in DOMAIN proposals PROVE ProposalOK(q)'
    <3>1. ProposalOK(q)
      BY DEF SuggestionsInvariant
    <3>2. CASE q = r
      <4>1. proposals'[q].made > 1 => proposals[r].made > 0
        BY <1>12, <3>2
      <4>2. proposals'[q].made > 1 => <<"rule twice", q>> \in slips' \/ <<"rule cut off", q>> \in slips'
        BY <1>1, <1>4, <3>2, <4>1
      <4>3. Marks(calls'[c], q)
        BY <1>14, <2>1, <3>2 DEF Marks
      <4> QED BY <1>12, <3>2, <4>2, <4>3 DEF ProposalOK
    <3>3. CASE q # r
      <4>1. \A d \in Client : Marks(calls[d], q) => Marks(calls'[d], q)
        BY <1>2, <2>1 DEF Marks
      <4>2. proposals'[q] = proposals[q]
        BY <1>6, <3>3
      <4> QED BY <1>1, <3>1, <4>1, <4>2 DEF ProposalOK
    <3> QED BY <3>2, <3>3
  <2>3. OfferedOnce'
    <3>1. OfferedOnce
      BY DEF SuggestionsInvariant
    <3>2. \A q \in DOMAIN proposals : proposals'[q].proposal = proposals[q].proposal
            /\ (proposals'[q].status = "pending" => proposals[q].status = "pending")
      BY <1>7
    <3> QED BY <1>1, <1>6, <3>1, <3>2, OfferedStays
  <2> QED BY <1>6, <2>2, <2>3 DEF ProposalsOK, SuggestionsInvariant, Numbered
<1>20. Numbered(jobs)'
  BY <1>1 DEF SuggestionsInvariant, Numbered
<1> QED BY <1>8, <1>10, <1>18, <1>19, <1>20, Together

\* A rule's suggestion is accepted or rejected.
LEMMA RuleStatusOnly ==
  ASSUME SuggestionsInvariant, NEW r \in DOMAIN proposals, NEW status \in {"accepted", "rejected"},
         proposals' = [proposals EXCEPT ![r].status = status],
         status = "accepted" => proposals[r].made > 0,
         \A d \in Client, q \in DOMAIN proposals : q # r /\ Marks(calls[d], q) => Marks(calls'[d], q),
         UNCHANGED <<txns, suggestions, jobs, enabled, slips>>
  PROVE  /\ TypeOK' /\ SuggestionsOK' /\ ProposalsOK' /\ Numbered(jobs)'
         /\ \A call \in Call : Fits(call) => Fits(call)'
<1>1. /\ DOMAIN proposals' = DOMAIN proposals
      /\ \A q \in DOMAIN proposals : proposals'[q] = IF q = r THEN [proposals[r] EXCEPT !.status = status] ELSE proposals[q]
  OBVIOUS
<1>2. \A q \in DOMAIN proposals : proposals[q] \in ProposalRow
  BY DEF SuggestionsInvariant, TypeOK, ProposalRow
<1>3. \A q \in DOMAIN proposals :
        /\ proposals'[q] \in ProposalRow /\ proposals'[q].made = proposals[q].made
        /\ proposals'[q].proposal = proposals[q].proposal
        /\ proposals'[q].status = IF q = r THEN status ELSE proposals[q].status
  BY <1>1, <1>2 DEF ProposalRow, Status
<1>4. TypeOK'
  <2>1. proposals' \in [DOMAIN proposals' -> ProposalRow]
    BY <1>1, <1>3
  <2> QED BY <2>1 DEF SuggestionsInvariant, TypeOK, ProposalRow
<1>5. \A t \in Txn : txns[t].stamp <= txns'[t].stamp
  BY DEF SuggestionsInvariant, TypeOK
<1>6. SuggestionsOK'
  BY <1>4, <1>5, SuggestionsStay
<1>7. Grows /\ NothingApplied /\ NothingMade
  BY <1>1, <1>3, <1>5 DEF Grows, NothingApplied, NothingMade
<1>8. NothingOffered
  <2>1. \A p \in Proposal : SameProposal(p)' \subseteq SameProposal(p)
    BY <1>1, <1>3 DEF SameProposal
  <2> QED BY <2>1 DEF NothingOffered
<1>9. ASSUME NEW q \in DOMAIN proposals PROVE ProposalOK(q)'
  <2>1. ProposalOK(q)
    BY DEF SuggestionsInvariant
  <2>2. CASE q = r
    <3>1. proposals'[q].made = proposals[q].made /\ proposals'[q].status = status /\ proposals'[q].status # "pending"
      BY <1>3, <2>2
    <3> QED BY <2>1, <2>2, <3>1 DEF ProposalOK
  <2>3. CASE q # r
    <3>1. proposals'[q] = proposals[q]
      BY <1>1, <2>3
    <3> QED BY <2>1, <2>3, <3>1 DEF ProposalOK
  <2> QED BY <2>2, <2>3
<1>10. OfferedOnce'
  <2>1. OfferedOnce
    BY DEF SuggestionsInvariant
  <2>2. \A q \in DOMAIN proposals : proposals'[q].proposal = proposals[q].proposal
          /\ (proposals'[q].status = "pending" => proposals[q].status = "pending")
    BY <1>3
  <2> QED BY <1>1, <2>1, <2>2, OfferedStays
<1>11. ProposalsOK'
  BY <1>1, <1>9, <1>10 DEF ProposalsOK, SuggestionsInvariant, Numbered
<1>12. \A call \in Call : Fits(call) => Fits(call)'
  BY <1>4, <1>7, <1>8, AllFit
<1>13. Numbered(jobs)'
  BY DEF SuggestionsInvariant, Numbered
<1> QED BY <1>4, <1>6, <1>11, <1>12, <1>13

LEMMA RejectRuleStep ==
  ASSUME SuggestionsInvariant, NEW r \in DOMAIN proposals, RejectRule(r)
  PROVE  SuggestionsInvariant'
<1>1. proposals' = [proposals EXCEPT ![r].status = "rejected"]
      /\ UNCHANGED <<txns, suggestions, jobs, calls, enabled, slips>>
  BY DEF RejectRule
<1>2. /\ TypeOK' /\ SuggestionsOK' /\ ProposalsOK' /\ Numbered(jobs)'
      /\ \A call \in Call : Fits(call) => Fits(call)'
  BY <1>1, RuleStatusOnly DEF Marks
<1>3. RequestsOK'
  BY <1>1, <1>2, NoRequest
<1> QED BY <1>2, <1>3, Together

LEMMA MarkAcceptedStep ==
  ASSUME SuggestionsInvariant, NEW c \in Client, MarkAccepted(c)
  PROVE  SuggestionsInvariant'
<1>1. Phase(c) = "applied" /\ Becomes(c, Null) /\ UNCHANGED <<txns, jobs, enabled, slips>>
  BY DEF MarkAccepted, Done, Ends
<1>2. calls[c] \in RuleAcceptance \cup Acceptance /\ calls[c].phase = "applied" /\ Fits(calls[c])
  BY <1>1, CallShape DEF SuggestionsInvariant, Phase
<1>3. CASE calls[c] \in Acceptance
  <2>1. calls[c].table = "suggestions" /\ calls[c] \notin RuleAcceptance
    BY <1>3, KindsDiffer DEF Acceptance
  <2>2. suggestions' = [suggestions EXCEPT ![calls[c].id].status = "accepted"] /\ UNCHANGED proposals
    BY <2>1 DEF MarkAccepted
  <2>3. calls[c].id \in DOMAIN suggestions /\ suggestions[calls[c].id].applied > 0
    BY <1>2, <1>3 DEF Fits, AcceptanceFits
  <2>4. TypeOK' /\ SuggestionsOK' /\ Numbered(jobs)' /\ \A call \in Call : Fits(call) => Fits(call)'
    <3>1. PICK s \in DOMAIN suggestions : s = calls[c].id
      BY <2>3
    <3> QED BY <1>1, <2>2, <2>3, <3>1, StatusOnly DEF Status
  <2>5. RequestsOK'
    BY <1>1, <2>4, NullFits, OneRequest
  <2>6. ProposalsOK'
    <3>1. \A d \in Client, r \in DOMAIN proposals :
           Marks(calls[d], r) => <<"rule cut off", r>> \in slips' \/ Marks(calls'[d], r)
      BY <1>1, <2>1, MarksStay
    <3> QED BY <1>1, <2>2, <3>1, ProposalsStay
  <2> QED BY <2>4, <2>5, <2>6, Together
<1>4. CASE calls[c] \in RuleAcceptance
  <2>1. calls[c].table = "proposals"
    BY <1>4 DEF RuleAcceptance
  <2>2. proposals' = [proposals EXCEPT ![calls[c].id].status = "accepted"] /\ UNCHANGED suggestions
    BY <2>1 DEF MarkAccepted
  <2>3. calls[c].id \in DOMAIN proposals /\ proposals[calls[c].id].made > 0
    BY <1>2, <1>4 DEF Fits, RuleAcceptanceFits
  <2>4. \A d \in Client, q \in DOMAIN proposals : q # calls[c].id /\ Marks(calls[d], q) => Marks(calls'[d], q)
    <3>1. \A d \in Client : d # c => calls'[d] = calls[d]
      BY <1>1 DEF SuggestionsInvariant, Becomes
    <3> QED BY <3>1 DEF Marks
  <2>5. /\ TypeOK' /\ SuggestionsOK' /\ ProposalsOK' /\ Numbered(jobs)'
        /\ \A call \in Call : Fits(call) => Fits(call)'
    <3>1. PICK r \in DOMAIN proposals : r = calls[c].id
      BY <2>3
    <3> QED BY <1>1, <2>2, <2>3, <2>4, <3>1, RuleStatusOnly
  <2>6. RequestsOK'
    BY <1>1, <2>5, NullFits, OneRequest
  <2> QED BY <2>5, <2>6, Together
<1> QED BY <1>2, <1>3, <1>4

-----------------------------------------------------------------------------
(* What else happens.                                                      *)

LEMMA TouchStep ==
  ASSUME SuggestionsInvariant, NEW t \in Txn, NEW row, Touch(t, row),
         row \in [category : Category \cup {Uncategorized}, title : Title, live : BOOLEAN, stamp : Nat]
  PROVE  SuggestionsInvariant'
<1> DEFINE TxnRow == [category : Category \cup {Uncategorized}, title : Title, live : BOOLEAN, stamp : Nat]
<1>1. UNCHANGED <<records, jobs, calls, enabled, slips>>
  BY DEF Touch
<1>2. txns \in [Txn -> TxnRow]
  BY DEF SuggestionsInvariant, TypeOK
<1>3. PICK n : n = txns[t].stamp + 1
  OBVIOUS
<1>4. n \in Nat /\ txns[t].stamp \in Nat
  BY <1>2, <1>3
<1>5. PICK new : new = [row EXCEPT !.stamp = n]
  OBVIOUS
<1>6. new \in TxnRow /\ new.stamp = n
  BY <1>4, <1>5
<1>7. txns' = [txns EXCEPT ![t] = new]
  BY <1>3, <1>5 DEF Touch
<1>8. txns' \in [Txn -> TxnRow]
  BY <1>2, <1>6, <1>7
<1>9. \A u \in Txn : txns[u].stamp <= txns'[u].stamp
  <2>1. \A u \in Txn : txns[u].stamp \in Nat
    BY <1>2
  <2>2. \A u \in Txn : txns'[u] = IF u = t THEN new ELSE txns[u]
    BY <1>2, <1>7
  <2> QED BY <1>3, <1>4, <1>6, <2>1, <2>2
<1>10. TypeOK'
  BY <1>1, <1>8 DEF SuggestionsInvariant, TypeOK, records
<1>11. SuggestionsOK'
  BY <1>1, <1>9, <1>10, SuggestionsStay DEF records
<1>12. ProposalsOK'
  BY <1>1, ProposalsStay DEF records, Marks
<1>13. Grows /\ NothingApplied /\ NothingMade /\ NothingOffered
  BY <1>1, <1>9 DEF Grows, NothingApplied, NothingMade, NothingOffered, SameProposal, records
<1>14. RequestsOK'
  <2>1. \A call \in Call : Fits(call) => Fits(call)'
    BY <1>10, <1>13, AllFit
  <2> QED BY <1>1, <2>1, NoRequest
<1>15. Numbered(jobs)'
  BY <1>1 DEF SuggestionsInvariant, Numbered
<1> QED BY <1>10, <1>11, <1>12, <1>14, <1>15, Together

LEMMA EditStep ==
  ASSUME SuggestionsInvariant, NEW t \in Txn
  PROVE  /\ \A category \in Category \cup {Uncategorized}, title \in Title :
              Edit(t, category, title) => SuggestionsInvariant'
         /\ Trash(t) \/ Restore(t) => SuggestionsInvariant'
<1>1. txns[t] \in [category : Category \cup {Uncategorized}, title : Title, live : BOOLEAN, stamp : Nat]
  BY DEF SuggestionsInvariant, TypeOK
<1>2. ASSUME NEW category \in Category \cup {Uncategorized}, NEW title \in Title, Edit(t, category, title)
      PROVE  SuggestionsInvariant'
  <2>1. [txns[t] EXCEPT !.category = category, !.title = title]
          \in [category : Category \cup {Uncategorized}, title : Title, live : BOOLEAN, stamp : Nat]
    BY <1>1
  <2> QED BY <1>2, <2>1, TouchStep DEF Edit
<1>3. ASSUME NEW live \in BOOLEAN, Touch(t, [txns[t] EXCEPT !.live = live])
      PROVE  SuggestionsInvariant'
  <2>1. [txns[t] EXCEPT !.live = live]
          \in [category : Category \cup {Uncategorized}, title : Title, live : BOOLEAN, stamp : Nat]
    BY <1>1
  <2> QED BY <1>3, <2>1, TouchStep
<1> QED BY <1>2, <1>3 DEF Trash, Restore

\* A step that writes the jobs and the switches only.
LEMMA NoRequestOnly ==
  ASSUME SuggestionsInvariant, jobs' \in [DOMAIN jobs' -> JobRow], Numbered(jobs)',
         DOMAIN jobs \subseteq DOMAIN jobs', UNCHANGED <<txns, records, calls, slips>>,
         enabled' \subseteq Feature
  PROVE  SuggestionsInvariant'
<1>1. TypeOK' /\ SuggestionsOK' /\ \A call \in Call : Fits(call) => Fits(call)'
  BY JobsOnly
<1>2. RequestsOK'
  BY <1>1, NoRequest
<1>3. ProposalsOK'
  BY ProposalsStay DEF Marks, records
<1> QED BY <1>1, <1>2, <1>3, Together

LEMMA JobsStep ==
  ASSUME SuggestionsInvariant
  PROVE  /\ \A features \in SUBSET Feature : SaveFeatures(features) => SuggestionsInvariant'
         /\ DayPasses \/ ClearOldTraces => SuggestionsInvariant'
<1>1. jobs \in [DOMAIN jobs -> JobRow] /\ Numbered(jobs) /\ enabled \subseteq Feature
  BY JobsAre DEF SuggestionsInvariant, TypeOK
<1>2. ASSUME NEW features \in SUBSET Feature, SaveFeatures(features) PROVE SuggestionsInvariant'
  <2>1. jobs' \in [DOMAIN jobs' -> JobRow] /\ Numbered(jobs)' /\ enabled' \subseteq Feature
    BY <1>1, <1>2 DEF SaveFeatures, Numbered
  <2> QED BY <1>2, <2>1, NoRequestOnly DEF SaveFeatures
<1>3. ASSUME DayPasses PROVE SuggestionsInvariant'
  <2>1. \A j \in DOMAIN jobs : [jobs[j] EXCEPT !.old = @ \/ j \notin Waiting] \in JobRow
    BY <1>1 DEF JobRow
  <2>2. DOMAIN jobs' = DOMAIN jobs /\ jobs' \in [DOMAIN jobs -> JobRow]
    BY <1>3, <2>1 DEF DayPasses
  <2> QED BY <1>1, <1>3, <2>2, NoRequestOnly DEF DayPasses, Numbered
<1>4. ASSUME ClearOldTraces PROVE SuggestionsInvariant'
  <2>1. \A j \in DOMAIN jobs : [jobs[j] EXCEPT !.status = "failed"] \in JobRow
    BY <1>1 DEF JobRow, JobStatus
  <2>2. DOMAIN jobs' = DOMAIN jobs /\ jobs' \in [DOMAIN jobs -> JobRow]
    BY <1>1, <1>4, <2>1 DEF ClearOldTraces
  <2> QED BY <1>1, <1>4, <2>2, NoRequestOnly DEF ClearOldTraces, Numbered
<1> QED BY <1>2, <1>3, <1>4

LEMMA StopStep ==
  ASSUME SuggestionsInvariant, Stop
  PROVE  SuggestionsInvariant'
<1>1. /\ calls' = [c \in Client |-> Null] /\ slips \subseteq slips' /\ UNCHANGED <<txns, records, jobs, enabled>>
      /\ \A c \in Client : Phase(c) = "applied" /\ calls[c].table = "proposals"
           => <<"rule cut off", calls[c].id>> \in slips'
  BY DEF Stop
<1>2. jobs' \in [DOMAIN jobs' -> JobRow] /\ Numbered(jobs)' /\ DOMAIN jobs \subseteq DOMAIN jobs'
      /\ enabled' \subseteq Feature
  BY <1>1, JobsAre DEF Numbered, SuggestionsInvariant, TypeOK
<1>3. TypeOK' /\ SuggestionsOK'
  BY <1>1, <1>2, JobsOnly
<1>4. RequestsOK'
  BY <1>1, NullFits DEF RequestsOK
<1>5. ASSUME NEW c \in Client, NEW r \in DOMAIN proposals, Marks(calls[c], r)
      PROVE  <<"rule cut off", r>> \in slips'
  <2>1. calls[c] \in RuleAcceptance /\ calls[c].phase = "applied" /\ calls[c].id = r
    BY <1>5 DEF Marks
  <2>2. ~Idle(c) /\ Phase(c) = calls[c].phase
    BY <2>1, CallShape, KindsDiffer
  <2>3. calls[c].table = "proposals"
    BY <2>1 DEF RuleAcceptance
  <2> QED BY <1>1, <2>1, <2>2, <2>3
<1>6. ProposalsOK'
  BY <1>1, <1>5, ProposalsStay DEF records
<1> QED BY <1>2, <1>3, <1>4, <1>6, Together

-----------------------------------------------------------------------------
\* The actions together.
LEMMA SuggestionsBegin == Init => SuggestionsInvariant
<1> SUFFICES ASSUME Init PROVE SuggestionsInvariant
  OBVIOUS
<1>1. DOMAIN suggestions = {} /\ DOMAIN proposals = {} /\ DOMAIN jobs = {}
  BY DEF Init
<1>2. TypeOK
  <2>1. /\ suggestions = [s \in DOMAIN suggestions |-> suggestions[s]]
        /\ proposals = [s \in DOMAIN proposals |-> proposals[s]]
        /\ jobs = [s \in DOMAIN jobs |-> jobs[s]]
    BY DEF Init
  <2>2. txns \in [Txn -> [category : Category \cup {Uncategorized}, title : Title, live : BOOLEAN, stamp : Nat]]
    BY SuggestionsAssumption DEF Init
  <2> QED BY <1>1, <2>1, <2>2 DEF TypeOK, Init
<1>3. RequestsOK
  BY NullFits DEF RequestsOK, Init
<1>4. Numbered(suggestions) /\ Numbered(proposals) /\ Numbered(jobs)
  <2>1. 1..0 = {} /\ 0 \in Nat
    OBVIOUS
  <2> QED BY <1>1, <2>1 DEF Numbered
<1>5. (\A s \in DOMAIN suggestions : SuggestionOK(s)) /\ (\A r \in DOMAIN proposals : ProposalOK(r)) /\ OfferedOnce
  BY <1>1 DEF OfferedOnce
<1> QED BY <1>2, <1>3, <1>4, <1>5 DEF SuggestionsInvariant, RequestsOK

LEMMA RequestKeeps ==
  ASSUME SuggestionsInvariant, NEW c \in Client, Request(c)
  PROVE  SuggestionsInvariant'
<1>1. CASE \E t \in Txn : OfferAgain(c, t) \/ BeginTriage(c, t)
  BY <1>1, OfferAgainStep, BeginTriageStep
<1>2. CASE BeginMining(c) \/ Finishes(c)
  BY <1>2, BeginMiningStep, AnswersStep, CallFailsStep DEF Finishes
<1>3. CASE CheckAnswer(c) \/ StoreSuggestion(c) \/ FindProposal(c) \/ StoreProposal(c)
  BY <1>3, CheckAnswerStep, StoreSuggestionStep, FindProposalStep, StoreProposalStep
<1>4. CASE \E s \in DOMAIN suggestions : BeginAccept(c, s)
  BY <1>4, BeginAcceptStep
<1>5. CASE \E r \in DOMAIN proposals : BeginAcceptRule(c, r)
  BY <1>5, BeginAcceptRuleStep
<1>6. CASE Apply(c) \/ CreateRule(c) \/ MarkAccepted(c)
  BY <1>6, ApplyStep, CreateRuleStep, MarkAcceptedStep
<1> QED BY <1>1, <1>2, <1>3, <1>4, <1>5, <1>6 DEF Request

\* No step of a request, of the user or of the process breaks the invariant.
LEMMA SuggestionsStep == SuggestionsInvariant /\ [Next]_vars => SuggestionsInvariant'
<1> SUFFICES ASSUME SuggestionsInvariant, [Next]_vars PROVE SuggestionsInvariant'
  OBVIOUS
<1>1. CASE \E c \in Client : Request(c)
  BY <1>1, RequestKeeps
<1>2. CASE \E s \in DOMAIN suggestions : Reject(s)
  BY <1>2, RejectStep
<1>3. CASE \E r \in DOMAIN proposals : RejectRule(r)
  BY <1>3, RejectRuleStep
<1>4. CASE \E t \in Txn :
             \/ \E category \in Category \cup {Uncategorized}, title \in Title : Edit(t, category, title)
             \/ Trash(t) \/ Restore(t)
  BY <1>4, EditStep
<1>5. CASE \E features \in SUBSET Feature : SaveFeatures(features)
  BY <1>5, JobsStep
<1>6. CASE Stop
  BY <1>6, StopStep
<1>7. CASE DayPasses \/ ClearOldTraces
  BY <1>7, JobsStep
<1>8. CASE UNCHANGED vars
  <2>1. jobs' \in [DOMAIN jobs' -> JobRow] /\ Numbered(jobs)' /\ enabled' \subseteq Feature
    BY <1>8, JobsAre DEF Numbered, vars, SuggestionsInvariant, TypeOK
  <2> QED BY <1>8, <2>1, NoRequestOnly DEF vars, records
<1> QED BY <1>1, <1>2, <1>3, <1>4, <1>5, <1>6, <1>7, <1>8 DEF Next

\* More than one is two different ones.
LEMMA TwoOffersAreTwo ==
  ASSUME SuggestionsInvariant, NEW p \in Proposal, Cardinality(SameProposal(p)) > 1
  PROVE  <<"mined twice", p>> \in slips
<1>1. IsFiniteSet(SameProposal(p)) /\ SameProposal(p) \subseteq DOMAIN proposals
  <2>1. PICK n \in Nat : DOMAIN proposals = 1..n
    BY DEF SuggestionsInvariant, Numbered
  <2>2. SameProposal(p) \subseteq DOMAIN proposals
    BY DEF SameProposal
  <2> QED BY <2>1, <2>2, FS_Interval, FS_Subset
<1>2. PICK r \in SameProposal(p) : TRUE
  BY FS_EmptySet
<1>3. PICK q \in SameProposal(p) : q # r
  <2>1. SUFFICES ASSUME SameProposal(p) = {r} PROVE FALSE
    BY <1>2
  <2> QED BY <2>1, FS_Singleton
<1> QED BY <1>1, <1>2, <1>3 DEF SameProposal, SuggestionsInvariant, OfferedOnce

\* The invariant is stronger than what is promised.
LEMMA SuggestionsHoldThen == SuggestionsInvariant => SuggestionsHold
<1> SUFFICES ASSUME SuggestionsInvariant PROVE SuggestionsHold
  OBVIOUS
<1>1. TypeOK
  BY DEF SuggestionsInvariant
<1>2. SuggestionsFit
  BY DEF SuggestionsInvariant, SuggestionsFit, SuggestionOK
<1>3. AppliedOnce
  <2>1. ASSUME NEW c \in Client, Phase(c) = "accepting", calls[c].table = "suggestions"
        PROVE  calls[c].seen = suggestions[calls[c].id].shown
    <3>1. calls[c] \in Acceptance
      BY <2>1, CallShape
    <3> QED BY <3>1 DEF SuggestionsInvariant, Fits, AcceptanceFits
  <2> QED BY <2>1 DEF AppliedOnce, SuggestionsInvariant, SuggestionOK
<1>4. RuleOnce
  BY TwoOffersAreTwo DEF RuleOnce, SuggestionsInvariant, ProposalOK
<1>5. AcceptedMeansDone
  BY DEF AcceptedMeansDone, SuggestionsInvariant, SuggestionOK, ProposalOK
<1> QED BY <1>1, <1>2, <1>3, <1>4, <1>5 DEF SuggestionsHold

\* The model is asked about a transaction, rules are mined, and both are accepted, by any
\* number of requests that are cut off anywhere: what is suggested is the answer to the
\* transaction as its fingerprint names it, is applied once, and is marked as accepted only
\* when that is done (LLMAssistantService).
THEOREM SuggestionsKeep == Spec => []SuggestionsHold
<1>1. Spec => []SuggestionsInvariant
  BY SuggestionsBegin, SuggestionsStep, PTL DEF Spec
<1> QED BY <1>1, SuggestionsHoldThen, PTL

\* Both hold in the behaviours in which only one of the three parts moves.
COROLLARY PartsKeep == PartSpec => [](SuggestionsHold /\ ReadyMeansTrained)
<1>1. PartInit => Init /\ T!Init
  BY DEF PartInit
<1>2. [PartNext]_<<vars, training, part>> => [Next]_vars /\ [T!Next]_T!vars
  BY DEF PartNext, training, vars, T!vars
<1>3. Init => SuggestionsInvariant
  BY SuggestionsBegin
<1>4. SuggestionsInvariant /\ [Next]_vars => SuggestionsInvariant'
  BY SuggestionsStep
<1>5. T!Init => TrainingInvariant
  BY TrainingBegins
<1>6. TrainingInvariant /\ [T!Next]_T!vars => TrainingInvariant'
  BY TrainingStep
<1>7. SuggestionsInvariant /\ TrainingInvariant => SuggestionsHold /\ ReadyMeansTrained
  BY SuggestionsHoldThen DEF TrainingInvariant, ReadyMeansTrained, T!ReadyMeansTrained, T!CacheAgrees, KeptOK
<1> QED BY <1>1, <1>2, <1>3, <1>4, <1>5, <1>6, <1>7, PTL DEF PartSpec
=============================================================================
