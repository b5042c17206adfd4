--------------------------- MODULE MCSuggestions ----------------------------
(* The language model's suggestions for one transaction, its rules, and    *)
(* trainings of the local model.  The three share no state but the numbers *)
(* of jobs, so a behaviour has one of them and the others stay as they are. *)
EXTENDS Suggestions, TLC
CONSTANTS Data, Few, First, Reader, MaxTrainings, MaxStops, MaxQueued
VARIABLES pref, data, queued, fitting, cache, reads, stops, part
T == INSTANCE Training
ASSUME TrainingConstants == T!TrainingAssumption
training == <<pref, data, queued, fitting, cache, reads, stops>>

PartInit ==
  /\ Init /\ T!Init
  /\ part \in Feature \cup {"training"} /\ enabled = {part} \cap Feature
PartNext ==
  /\ \/ /\ part \in Feature /\ Next /\ enabled' \subseteq {part}
        /\ part = "rule_mining" => UNCHANGED txns
        /\ part = "transaction_triage" => UNCHANGED enabled
        /\ UNCHANGED training
     \/ part = "training" /\ T!Next /\ UNCHANGED vars
  /\ UNCHANGED part
PartSpec == PartInit /\ [][PartNext]_<<vars, training, part>> /\ Fairness /\ T!Fairness

\* What is suggested is the model's answer to the transaction as it is, is applied once,
\* and is marked as done when it is done, whatever is edited, sent twice or cut off
\* (Suggestions.SuggestionsFit, AppliedOnce, RuleOnce, AcceptedMeansDone).
SuggestionsHold == TypeOK /\ SuggestionsFit /\ AppliedOnce /\ RuleOnce /\ AcceptedMeansDone

\* A model that is called ready is there, of the rows whose fingerprint is kept, and the
\* parsed model under its time is its own (Training.ReadyMeansTrained, CacheAgrees).
ReadyMeansTrained == T!TypeOK /\ T!ReadyMeansTrained /\ T!CacheAgrees

\* A call of the language model and a training that were begun come to an end, cancelled,
\* failed and cut off ones included (Suggestions.JobsEnd, Training.TrainingEnds).
WorkEnds == JobsEnd /\ T!TrainingEnds
=============================================================================
