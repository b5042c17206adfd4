---------------------------- MODULE Suggestions -----------------------------
(***************************************************************************)
(* Suggestions of the language model (LLMAssistantService, its routes and  *)
(* the switches of its features): a category and a title for a transaction *)
(* that is uncategorized, and rules mined from a user's corrections.  The  *)
(* call takes seconds, in which everything else goes on; a user accepts or *)
(* rejects what it brings later, and the process may stop anywhere.        *)
(*                                                                         *)
(* A request reads outside a transaction of the database and commits       *)
(* several times, so it is a step here for each commit and for each read   *)
(* that another request may overtake.  A suggestion's tags are left out:   *)
(* they are part of the fingerprint, as its category and title are.        *)
(***************************************************************************)
EXTENDS Integers, FiniteSets, Functions

CONSTANTS
  Client, Txn,
  Category, Uncategorized, Title, Raw,   \* a transaction starts uncategorized, with a raw title
  Proposal,                              \* rules that can be mined
  MaxJobs, MaxEdits, MaxRules,           \* BOUNDS: model calls, edits of transactions, and
                                         \* rules made from one suggestion
  Null

Feature == {"transaction_triage", "rule_mining"}

VARIABLES
  txns,         \* Txn -> category, title, live, stamp (updated_at)
  suggestions,  \* id -> txn, print, category, title, status; and what the model was shown
                \* and how often it was applied
  proposals,    \* id -> proposal, status; and the number of rules made from it
  jobs,         \* id -> status, old
  calls,        \* Client -> the request under way, or Null
  enabled,      \* the features that are on
  slips         \* the accidents that count: suggestions accepted by two requests at once,
                \* and those whose acceptance was cut off

vars == <<txns, suggestions, proposals, jobs, calls, enabled, slips>>
records == <<suggestions, proposals>>

JobStatus == {"running", "completed", "failed"}
Status == {"pending", "accepted", "rejected", "stale"}
Fingerprint == [category : Category \cup {Uncategorized}, title : Title, stamp : Nat]

\* What the model answers about a transaction; and a request under way, which asks the
\* model about one, mines rules, or accepts what was suggested.
Answer == [category : Category \cup {Null}, title : Title]
Triage == [phase : {"asked", "answered", "storing"}, feature : {"transaction_triage"},
           job : Nat, txn : Txn, print : Fingerprint, answer : Answer \cup {Null}]
Mine == [phase : {"asked", "answered", "inserting"}, feature : {"rule_mining"},
         job : Nat, answer : Proposal \cup {Null}]
Acceptance == [phase : {"accepting", "applied"}, table : {"suggestions"}, id : Nat,
               seen : Fingerprint]
RuleAcceptance == [phase : {"accepting", "applied"}, table : {"proposals"}, id : Nat]
Call == Triage \cup Mine \cup Acceptance \cup RuleAcceptance

ASSUME SuggestionsAssumption ==
  /\ Uncategorized \notin Category /\ Raw \in Title /\ Null \notin Call
  /\ MaxJobs \in Nat /\ MaxEdits \in Nat /\ MaxRules \in Nat

TypeOK ==
  /\ txns \in [Txn -> [category : Category \cup {Uncategorized}, title : Title,
                       live : BOOLEAN, stamp : Nat]]
  /\ suggestions \in [DOMAIN suggestions ->
       [txn : Txn, print : Fingerprint, shown : Fingerprint, category : Category \cup {Null},
        title : Title, status : Status, applied : Nat]]
  /\ proposals \in [DOMAIN proposals ->
       [proposal : Proposal, status : Status \ {"stale"}, made : Nat]]
  /\ jobs \in [DOMAIN jobs -> [status : JobStatus, old : BOOLEAN]]
  /\ enabled \subseteq Feature
  \* The database keeps one suggestion for each fingerprint of a transaction.
  /\ \A s, r \in DOMAIN suggestions :
       suggestions[s].txn = suggestions[r].txn /\ suggestions[s].print = suggestions[r].print => s = r

-----------------------------------------------------------------------------
NextId(table) == Cardinality(DOMAIN table) + 1
Put(table, id, row) == [k \in DOMAIN table \cup {id} |-> IF k = id THEN row ELSE table[k]]

Idle(c) == calls[c] = Null
Phase(c) == IF Idle(c) THEN "none" ELSE calls[c].phase
Becomes(c, call) == calls' = [calls EXCEPT ![c] = call]
Ends(c) == Becomes(c, Null)

\* _transaction_for_triage: the transaction is not in the trash and not categorized.
ForTriage(t) == txns[t].live /\ txns[t].category = Uncategorized
\* _transaction_fingerprint.
PrintOf(t) == [category |-> txns[t].category, title |-> txns[t].title, stamp |-> txns[t].stamp]

Init ==
  /\ txns = [t \in Txn |-> [category |-> Uncategorized, title |-> Raw, live |-> TRUE, stamp |-> 0]]
  /\ suggestions = <<>> /\ proposals = <<>> /\ jobs = <<>>
  /\ calls = [c \in Client |-> Null] /\ enabled \in SUBSET Feature /\ slips = {}

-----------------------------------------------------------------------------
\* suggest_uncategorized_transaction, as far as the model call: a suggestion made for the
\* same fingerprint is offered again, and otherwise the job is committed before the call.
SameFor(t) == {s \in DOMAIN suggestions : suggestions[s].txn = t /\ suggestions[s].print = PrintOf(t)}

OfferAgain(c, t) ==
  /\ Idle(c) /\ "transaction_triage" \in enabled /\ ForTriage(t)
  /\ \E s \in SameFor(t) : suggestions' = [suggestions EXCEPT ![s].status = "pending"]
  /\ UNCHANGED <<txns, proposals, jobs, calls, enabled, slips>>

RunLlm(c, call) ==
  /\ Cardinality(DOMAIN jobs) < MaxJobs  \* BOUND
  /\ jobs' = Put(jobs, NextId(jobs), [status |-> "running", old |-> FALSE])
  /\ Becomes(c, call)

BeginTriage(c, t) ==
  /\ Idle(c) /\ "transaction_triage" \in enabled /\ ForTriage(t) /\ SameFor(t) = {}
  /\ RunLlm(c, [phase |-> "asked", feature |-> "transaction_triage", job |-> NextId(jobs),
                txn |-> t, print |-> PrintOf(t), answer |-> Null])
  /\ UNCHANGED <<txns, records, enabled, slips>>

\* mine_rule_suggestions, as far as the model call, given that there are corrections.
BeginMining(c) ==
  /\ Idle(c) /\ "rule_mining" \in enabled
  /\ RunLlm(c, [phase |-> "asked", feature |-> "rule_mining", job |-> NextId(jobs),
                answer |-> Null])
  /\ UNCHANGED <<txns, records, enabled, slips>>

\* The model has answered, and the job is committed as completed.
Answers(c, answer) ==
  /\ Phase(c) = "asked"
  /\ IF calls[c].feature = "rule_mining" THEN answer \in Proposal ELSE answer \in Answer
  /\ jobs' = [jobs EXCEPT ![calls[c].job].status = "completed"]
  /\ Becomes(c, [calls[c] EXCEPT !.phase = "answered", !.answer = answer])
  /\ UNCHANGED <<txns, records, enabled, slips>>

\* An error, an answer that stays invalid, or a client that hangs up.
CallFails(c) ==
  /\ Phase(c) = "asked"
  /\ jobs' = [jobs EXCEPT ![calls[c].job].status = "failed"]
  /\ Ends(c)
  /\ UNCHANGED <<txns, records, enabled, slips>>

-----------------------------------------------------------------------------
\* The transaction is read again, and an answer that says nothing new or is about a
\* transaction that has changed since is dropped.
StillAsShown(t, print) == ForTriage(t) /\ PrintOf(t) = print

SaysSomething(t, answer) == answer.category # Null \/ answer.title # txns[t].title

CheckAnswer(c) ==
  /\ Phase(c) = "answered" /\ calls[c].feature = "transaction_triage"
  /\ IF StillAsShown(calls[c].txn, calls[c].print) /\ SaysSomething(calls[c].txn, calls[c].answer)
     THEN Becomes(c, [calls[c] EXCEPT !.phase = "storing"])
     ELSE Ends(c)
  /\ UNCHANGED <<txns, records, jobs, enabled, slips>>

\* The fingerprint a suggestion is stored under.  Mutant: the transaction's as it is now.
PrintToStore_Fresh(c) == PrintOf(calls[c].txn)
PrintToStore(c) == calls[c].print

\* The unique constraint, which refuses a row if another request has stored one for the
\* same fingerprint.
Stored(t, print) ==
  \E s \in DOMAIN suggestions : suggestions[s].txn = t /\ suggestions[s].print = print

StoreSuggestion(c) ==
  /\ Phase(c) = "storing"
  /\ LET print == PrintToStore(c)
         t == calls[c].txn
     IN suggestions' =
          IF Stored(t, print) THEN suggestions
          ELSE Put(suggestions, NextId(suggestions),
                   [txn |-> t, print |-> print, shown |-> calls[c].print,
                    category |-> calls[c].answer.category, title |-> calls[c].answer.title,
                    status |-> "pending", applied |-> 0])
  /\ Ends(c)
  /\ UNCHANGED <<txns, proposals, jobs, enabled, slips>>

\* _store_rule_suggestion: a pending suggestion of the same rule is looked for, and then
\* refreshed or a new one inserted.
SameProposal(proposal) ==
  {r \in DOMAIN proposals : proposals[r].status = "pending" /\ proposals[r].proposal = proposal}

Mining(c, proposal) ==
  Phase(c) = "inserting" /\ calls[c].answer = proposal

FindProposal(c) ==
  /\ Phase(c) = "answered" /\ calls[c].feature = "rule_mining"
  /\ IF SameProposal(calls[c].answer) # {}
     THEN Ends(c) /\ UNCHANGED slips
     ELSE /\ Becomes(c, [calls[c] EXCEPT !.phase = "inserting"])
          /\ slips' = IF \E d \in Client : Mining(d, calls[c].answer)
                      THEN slips \cup {<<"mined twice", calls[c].answer>>} ELSE slips
  /\ UNCHANGED <<txns, records, jobs, enabled>>

StoreProposal(c) ==
  /\ Phase(c) = "inserting"
  /\ proposals' = Put(proposals, NextId(proposals),
                      [proposal |-> calls[c].answer, status |-> "pending", made |-> 0])
  /\ Ends(c)
  /\ UNCHANGED <<txns, suggestions, jobs, enabled, slips>>

-----------------------------------------------------------------------------
\* accept_transaction_suggestion: a suggestion that is pending is compared with the
\* transaction as it is.
Current(s) == ForTriage(suggestions[s].txn) /\ PrintOf(suggestions[s].txn) = suggestions[s].print

Accepting(table, id) ==
  {c \in Client : Phase(c) \in {"accepting", "applied"} /\ calls[c].table = table /\ calls[c].id = id}

BeginAccept(c, s) ==
  /\ Idle(c) /\ "transaction_triage" \in enabled
  /\ suggestions[s].status = "pending"
  /\ IF Current(s)
     THEN /\ Becomes(c, [phase |-> "accepting", table |-> "suggestions", id |-> s,
                         seen |-> PrintOf(suggestions[s].txn)])
          /\ slips' = IF Accepting("suggestions", s) = {} THEN slips ELSE slips \cup {<<"twice", s>>}
          /\ UNCHANGED suggestions
     ELSE /\ suggestions' = [suggestions EXCEPT ![s].status = "stale"]
          /\ UNCHANGED <<calls, slips>>
  /\ UNCHANGED <<txns, proposals, jobs, enabled>>

\* TransactionService.update: the columns that differ from what was read are written and
\* committed, unless the transaction is in the trash by now.
Apply(c) ==
  /\ Phase(c) = "accepting" /\ calls[c].table = "suggestions"
  /\ LET s == calls[c].id
         row == suggestions[s]
         t == txns[row.txn]
     IN IF t.live
        THEN /\ txns' = [txns EXCEPT ![row.txn] =
                  [t EXCEPT !.category = IF row.category = Null THEN t.category ELSE row.category,
                            !.title = IF row.title = calls[c].seen.title THEN t.title ELSE row.title,
                            !.stamp = @ + 1]]
             /\ suggestions' = [suggestions EXCEPT ![s].applied = @ + 1]
             /\ Becomes(c, [calls[c] EXCEPT !.phase = "applied"])
        ELSE Ends(c) /\ UNCHANGED <<txns, suggestions>>
  /\ UNCHANGED <<proposals, jobs, enabled, slips>>

\* accept_rule_suggestion, which RuleService.create commits first.
Acceptable(r) == proposals[r].status = "pending"

BeginAcceptRule(c, r) ==
  /\ Idle(c) /\ "rule_mining" \in enabled /\ Acceptable(r)
  /\ Becomes(c, [phase |-> "accepting", table |-> "proposals", id |-> r])
  /\ slips' = IF Accepting("proposals", r) = {} THEN slips ELSE slips \cup {<<"rule twice", r>>}
  /\ UNCHANGED <<txns, records, jobs, enabled>>

CreateRule(c) ==
  /\ Phase(c) = "accepting" /\ calls[c].table = "proposals"
  /\ proposals[calls[c].id].made < MaxRules  \* BOUND
  /\ proposals' = [proposals EXCEPT ![calls[c].id].made = @ + 1]
  /\ Becomes(c, [calls[c] EXCEPT !.phase = "applied"])
  /\ UNCHANGED <<txns, suggestions, jobs, enabled, slips>>

\* The status is the second commit of an acceptance.
Done(c) == Phase(c) = "applied"

MarkAccepted(c) ==
  /\ Done(c)
  /\ IF calls[c].table = "suggestions"
     THEN suggestions' = [suggestions EXCEPT ![calls[c].id].status = "accepted"] /\ UNCHANGED proposals
     ELSE proposals' = [proposals EXCEPT ![calls[c].id].status = "accepted"] /\ UNCHANGED suggestions
  /\ Ends(c)
  /\ UNCHANGED <<txns, jobs, enabled, slips>>

Reject(s) ==
  /\ "transaction_triage" \in enabled /\ suggestions[s].status = "pending"
  /\ suggestions' = [suggestions EXCEPT ![s].status = "rejected"]
  /\ UNCHANGED <<txns, proposals, jobs, calls, enabled, slips>>

RejectRule(r) ==
  /\ "rule_mining" \in enabled /\ proposals[r].status = "pending"
  /\ proposals' = [proposals EXCEPT ![r].status = "rejected"]
  /\ UNCHANGED <<txns, suggestions, jobs, calls, enabled, slips>>

-----------------------------------------------------------------------------
\* What else happens to a transaction; every update stamps it anew.
Touch(t, row) ==
  /\ txns[t].stamp < MaxEdits  \* BOUND
  /\ row # txns[t]
  /\ txns' = [txns EXCEPT ![t] = [row EXCEPT !.stamp = txns[t].stamp + 1]]
  /\ UNCHANGED <<records, jobs, calls, enabled, slips>>

Edit(t, category, title) ==
  txns[t].live /\ Touch(t, [txns[t] EXCEPT !.category = category, !.title = title])
Trash(t) == txns[t].live /\ Touch(t, [txns[t] EXCEPT !.live = FALSE])
Restore(t) == ~txns[t].live /\ Touch(t, [txns[t] EXCEPT !.live = TRUE])

\* features.update.
SaveFeatures(features) ==
  /\ enabled' = features /\ features # enabled
  /\ UNCHANGED <<txns, records, jobs, calls, slips>>

\* The process stops: a rule that was made and not marked will be offered again.
Stop ==
  /\ \E c \in Client : ~Idle(c)
  /\ calls' = [c \in Client |-> Null]
  /\ slips' = slips \cup {<<"rule cut off", calls[c].id>> :
                            c \in {d \in Client : Phase(d) = "applied" /\ calls[d].table = "proposals"}}
  /\ UNCHANGED <<txns, records, jobs, enabled>>

\* A day passes.  No model call takes that long, so a job that is still running and that
\* nobody waits for is old then.
Waiting == {calls[c].job : c \in {d \in Client : Phase(d) = "asked"}}
DayPasses ==
  /\ \E j \in DOMAIN jobs \ Waiting : ~jobs[j].old
  /\ jobs' = [j \in DOMAIN jobs |-> [jobs[j] EXCEPT !.old = @ \/ j \notin Waiting]]
  /\ UNCHANGED <<txns, records, calls, enabled, slips>>

\* clear_old_traces, daily.  Mutant: it only clears what finished runs have stored.
Interrupted_None == {}
Interrupted == {j \in DOMAIN jobs : jobs[j].status = "running" /\ jobs[j].old}
ClearOldTraces ==
  /\ Interrupted # {}
  /\ jobs' = [j \in DOMAIN jobs |-> IF j \in Interrupted THEN [jobs[j] EXCEPT !.status = "failed"] ELSE jobs[j]]
  /\ UNCHANGED <<txns, records, calls, enabled, slips>>

-----------------------------------------------------------------------------
Finishes(c) == (\E answer \in Answer \cup Proposal : Answers(c, answer)) \/ CallFails(c)

Request(c) ==
  \/ \E t \in Txn : OfferAgain(c, t) \/ BeginTriage(c, t)
  \/ BeginMining(c) \/ Finishes(c)
  \/ CheckAnswer(c) \/ StoreSuggestion(c) \/ FindProposal(c) \/ StoreProposal(c)
  \/ \E s \in DOMAIN suggestions : BeginAccept(c, s)
  \/ \E r \in DOMAIN proposals : BeginAcceptRule(c, r)
  \/ Apply(c) \/ CreateRule(c) \/ MarkAccepted(c)

Next ==
  \/ \E c \in Client : Request(c)
  \/ \E s \in DOMAIN suggestions : Reject(s)
  \/ \E r \in DOMAIN proposals : RejectRule(r)
  \/ \E t \in Txn :
       \/ \E category \in Category \cup {Uncategorized}, title \in Title : Edit(t, category, title)
       \/ Trash(t) \/ Restore(t)
  \/ \E features \in SUBSET Feature : SaveFeatures(features)
  \/ Stop \/ DayPasses \/ ClearOldTraces

\* Model calls end, days pass and the daily job runs.
Fairness == (\A c \in Client : WF_vars(Finishes(c))) /\ WF_vars(DayPasses) /\ WF_vars(ClearOldTraces)
Spec == Init /\ [][Next]_vars /\ Fairness

-----------------------------------------------------------------------------
\* A suggestion is the model's answer to the transaction that its fingerprint names,
\* whatever was edited while the model was answering.
SuggestionsFit == \A s \in DOMAIN suggestions : suggestions[s].print = suggestions[s].shown

\* A suggestion is applied to the transaction as the model saw it, and once: a stop
\* between the update and the new status does not repeat it, because the update changes
\* the fingerprint.  Two requests that accept it at once both pass the check.
AppliedOnce ==
  /\ \A s \in DOMAIN suggestions : suggestions[s].applied > 1 => <<"twice", s>> \in slips
  /\ \A c \in Client : Phase(c) = "accepting" /\ calls[c].table = "suggestions"
       => calls[c].seen = suggestions[calls[c].id].shown

\* A rule comes of a suggestion once, unless two requests accept it at once or the process
\* stops between the rule and the new status; and a rule is offered once, unless two
\* minings look for it at once.
RuleOnce ==
  /\ \A r \in DOMAIN proposals : proposals[r].made > 1
       => <<"rule twice", r>> \in slips \/ <<"rule cut off", r>> \in slips
  /\ \A p \in Proposal : Cardinality(SameProposal(p)) > 1 => <<"mined twice", p>> \in slips

\* What is marked as accepted has been done, wherever the process stops.
AcceptedMeansDone ==
  /\ \A s \in DOMAIN suggestions : suggestions[s].status = "accepted" => suggestions[s].applied > 0
  /\ \A r \in DOMAIN proposals : proposals[r].status = "accepted" => proposals[r].made > 0

\* No job stays running for ever, cancelled and cut off ones included.
JobsEnd ==
  \A j \in 1..MaxJobs :
    (j \in DOMAIN jobs /\ jobs[j].status = "running") ~> (j \in DOMAIN jobs /\ jobs[j].status # "running")
=============================================================================
