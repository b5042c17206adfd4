------------------------------ MODULE Training ------------------------------
(***************************************************************************)
(* The local model that guesses categories is trained in the background    *)
(* (auto_categorization.py, the settings route and the scheduler): when a  *)
(* user switches it on, and weekly.  One training runs at a time; it reads *)
(* the rows, fits without a transaction, and commits the model, its time   *)
(* and its status together.  Readers keep a parsed model in memory under   *)
(* the time it was trained.  The process may stop anywhere.                *)
(*                                                                         *)
(* Data is the version of the rows a user has; a model is the version it   *)
(* was fitted to, and its fingerprint stands for the version too.          *)
(***************************************************************************)
EXTENDS Integers, FiniteSets, FiniteSetsExt

CONSTANTS
  Data, Few,           \* versions of the rows, and those that are too few to learn from
  First,               \* the one at the start
  Reader,              \* requests that show suggestions
  MaxTrainings, MaxStops, MaxQueued,  \* BOUNDS
  Null

\* What the constants are.
TrainingAssumption ==
  /\ First \in Data /\ Few \subseteq Data /\ Null \notin Data
  /\ MaxTrainings \in Nat /\ MaxStops \in Nat /\ MaxQueued \in Nat \ {0}

VARIABLES
  pref,     \* enabled, status, due, trained (trained_at, 0 if never), print, model
  data,     \* the version of the rows as they are
  queued,   \* trainings that wait for the lock
  fitting,  \* the version that the one with the lock fits, or Null
  cache,    \* the parsed model and the time it is kept under, or Null
  reads,    \* Reader -> the time and model of the row it has read, or Null
  stops

vars == <<pref, data, queued, fitting, cache, reads, stops>>
readers == <<cache, reads>>

TypeOK ==
  /\ pref \in [enabled : BOOLEAN, due : BOOLEAN, trained : 0..MaxTrainings,
               status : {"untrained", "training", "ready", "insufficient_data", "failed"},
               print : Data \cup {Null}, model : Data \cup {Null}]
  /\ data \in Data /\ queued \in 0..MaxQueued /\ fitting \in Data \cup {Null}

Init ==
  /\ pref = [enabled |-> FALSE, due |-> TRUE, trained |-> 0, status |-> "untrained",
             print |-> Null, model |-> Null]
  /\ data = First /\ queued = 0 /\ fitting = Null
  /\ cache = Null /\ reads = [r \in Reader |-> Null] /\ stops = 0

\* api_update_auto_categorization: switching it on queues a training after the commit.
Queues(enabled) == enabled
Save(enabled) ==
  /\ enabled # pref.enabled
  /\ enabled => queued < MaxQueued  \* BOUND
  /\ pref' = [pref EXCEPT !.enabled = enabled, !.status = IF enabled THEN "training" ELSE @]
  /\ queued' = IF Queues(enabled) THEN queued + 1 ELSE queued
  /\ UNCHANGED <<data, fitting, readers, stops>>

\* train_due_users, hourly and at every start.
Due == pref.enabled /\ (pref.due \/ pref.status = "training")
TrainDueUsers ==
  /\ Due /\ queued = 0 /\ fitting = Null
  /\ queued' = 1
  /\ UNCHANGED <<pref, data, fitting, readers, stops>>

\* train_user up to the fit.  Rows that have been seen before are not fitted again.
\* Mutant: the fingerprint is saved before the fit.
Unchanged(p) ==
  [p EXCEPT !.due = FALSE,
            !.status = IF @ = "insufficient_data" \/ p.trained = 0 THEN "insufficient_data" ELSE "ready"]
Fitting_Saved(p, rows) == [p EXCEPT !.status = "training", !.print = rows]
Fitting(p, rows) == [p EXCEPT !.status = "training"]

BeginTraining ==
  /\ queued > 0 /\ fitting = Null
  /\ pref.trained < MaxTrainings  \* BOUND
  /\ queued' = queued - 1
  /\ CASE ~pref.enabled -> UNCHANGED <<pref, fitting>>
       [] pref.enabled /\ pref.print = data -> pref' = Unchanged(pref) /\ UNCHANGED fitting
       [] OTHER -> pref' = Fitting(pref, data) /\ fitting' = data
  /\ UNCHANGED <<data, readers, stops>>

\* The fit has ended, and the preference is read again, but not whether it is still
\* enabled.
TrainedAt(p) == p.trained + 1

EndTraining ==
  /\ fitting # Null
  /\ pref' = IF fitting \in Few
             THEN [pref EXCEPT !.due = FALSE, !.print = fitting, !.status = "insufficient_data"]
             ELSE [pref EXCEPT !.due = FALSE, !.print = fitting, !.status = "ready",
                               !.model = fitting, !.trained = TrainedAt(pref)]
  /\ fitting' = Null
  /\ UNCHANGED <<data, queued, readers, stops>>

FailTraining ==
  /\ fitting # Null
  /\ pref' = [pref EXCEPT !.status = "failed", !.due = FALSE]
  /\ fitting' = Null
  /\ UNCHANGED <<data, queued, readers, stops>>

-----------------------------------------------------------------------------
\* suggestions_for: the row is read, then the parsed model replaced if its time is
\* another.
Stale(read) == cache = Null \/ cache.at # read.at

ReadPreference(r) ==
  /\ reads[r] = Null /\ pref.enabled /\ pref.trained # 0
  /\ reads' = [reads EXCEPT ![r] = [at |-> pref.trained, model |-> pref.model]]
  /\ UNCHANGED <<pref, data, queued, fitting, cache, stops>>

UseModel(r) ==
  /\ reads[r] # Null
  /\ cache' = IF Stale(reads[r]) THEN reads[r] ELSE cache
  /\ reads' = [reads EXCEPT ![r] = Null]
  /\ UNCHANGED <<pref, data, queued, fitting, stops>>

\* The user's rows change, and a week passes.
RowsChange(rows) ==
  /\ rows # data /\ data' = rows
  /\ UNCHANGED <<pref, queued, fitting, readers, stops>>
WeekPasses ==
  /\ ~pref.due /\ pref' = [pref EXCEPT !.due = TRUE]
  /\ UNCHANGED <<data, queued, fitting, readers, stops>>

\* The process stops: what waits, what runs and what is kept in memory is gone.
Stop ==
  /\ stops < MaxStops  \* BOUND
  /\ stops' = stops + 1 /\ queued' = 0 /\ fitting' = Null
  /\ cache' = Null /\ reads' = [r \in Reader |-> Null]
  /\ UNCHANGED <<pref, data>>

Next ==
  \/ \E enabled \in BOOLEAN : Save(enabled)
  \/ TrainDueUsers \/ BeginTraining \/ EndTraining \/ FailTraining
  \/ \E r \in Reader : ReadPreference(r) \/ UseModel(r)
  \/ \E rows \in Data : RowsChange(rows)
  \/ WeekPasses \/ Stop

\* A thread runs what is queued, and the scheduler runs hourly.
Fairness ==
  /\ WF_vars(TrainDueUsers) /\ WF_vars(BeginTraining) /\ WF_vars(EndTraining \/ FailTraining)
Spec == Init /\ [][Next]_vars /\ Fairness

-----------------------------------------------------------------------------
\* A user who is told that the model is ready has one, and it is of the rows whose
\* fingerprint is kept, if they were enough; whatever fails, and wherever the process stops.
ReadyMeansTrained ==
  pref.status = "ready" =>
    /\ pref.trained # 0
    /\ pref.print \notin Few => pref.model = pref.print

\* The parsed model kept under the time of the latest training is that training's.
CacheAgrees == cache # Null /\ cache.at = pref.trained => cache.model = pref.model

\* A training that was asked for comes to an end, however often the process stops.
TrainingEnds ==
  (pref.enabled /\ pref.status = "training" /\ pref.trained < MaxTrainings)
    ~> (~pref.enabled \/ pref.status # "training" \/ pref.trained = MaxTrainings)
=============================================================================
