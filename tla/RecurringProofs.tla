--------------------------- MODULE RecurringProofs ---------------------------
(***************************************************************************)
(* Catch-up runs, for any number of runs, rules and days: what the exists  *)
(* query answered holds until the insert, because every commit that can    *)
(* change the answer overtakes the snapshot it was read from; and a run    *)
(* passes no date of a rule that has no row, because the dates it passes   *)
(* are those at which nothing ended its loop.                              *)
(*                                                                         *)
(* The dates themselves follow: what they keep to, for every calendar      *)
(* whose months have 28 to 31 days and are never short twice in a row.     *)
(* Nothing is remembered between occurrences but the last date, so that    *)
(* argument is of one step: from any date of the calendar, with any rule.  *)
(***************************************************************************)
EXTENDS RecurringRules, Schedule, DataLemmas, SequenceTheorems

Queues == Seq(RuleId)
Copies == UNION {[D -> RecurringRule] : D \in SUBSET RuleId}
Reads == UNION {[D -> 1..(MaxDate + 1)] : D \in SUBSET RuleId}

\* A run's own state.
Run ==
  [pc : {"idle", "loop", "checked"}, queue : Queues,
   copy : Copies, read : Reads,
   today : 0..MaxDate, tx : {"none", "read"}, seen : BOOLEAN, pending : BOOLEAN]

\* A run has a copy of every rule left, and one is left while an answer or an
\* UPDATE is outstanding, which are never both.  What is asked about is a date.
RunOK(r) ==
  /\ r \in Run
  /\ ToSet(r.queue) \subseteq DOMAIN r.copy
  /\ DOMAIN r.read \subseteq DOMAIN r.copy
  /\ r.pc = "checked" \/ r.pending => r.queue # <<>>
  /\ r.pc = "checked" => ~r.pending /\ r.copy[Head(r.queue)].next \in Date

RunsOK == job \in [JobId -> Run] /\ \A j \in JobId : RunOK(job[j])

TablesOK ==
  /\ DOMAIN rules \subseteq RuleId /\ rules \in [DOMAIN rules -> RecurringRule]
  /\ DOMAIN rows \subseteq RuleId \X Date /\ rows \in [DOMAIN rows -> RowState]
  /\ quotes \subseteq Date /\ today \in Date
  /\ stale \subseteq JobId /\ edits \in 0..MaxEdits

\* The dates a run has passed since it read a rule that is still there have a row, and
\* so has the one its exists query found.
RunPosted(run) ==
  \A r \in DOMAIN run.read :
    /\ r \in DOMAIN rules
    /\ \A d \in Date : run.read[r] <= d /\ d < run.copy[r].next => <<r, d>> \in DOMAIN rows
    /\ run.pc = "checked" /\ run.seen /\ r = Head(run.queue)
         => <<r, run.copy[r].next>> \in DOMAIN rows

RunsPosted == \A j \in JobId : RunPosted(job[j])

\* The inductive invariant.
RecurringInv == TablesOK /\ RunsOK /\ ExistsAnswerHolds /\ RunsPosted

-----------------------------------------------------------------------------
(* Queues and copies                                                       *)

LEMMA QueueFacts ==
  ASSUME NEW q \in Queues
  PROVE  /\ ToSet(q) \subseteq RuleId
         /\ q # <<>> => /\ Head(q) \in ToSet(q)
                        /\ Tail(q) \in Queues
                        /\ ToSet(Tail(q)) \subseteq ToSet(q)
BY DEF ToSet, Queues

LEMMA CopyFacts ==
  ASSUME NEW copy \in Copies,
         NEW r \in DOMAIN copy
  PROVE  /\ copy[r] \in RecurringRule /\ r \in RuleId
         /\ copy[r].next \in 1..(MaxDate + 1)
         /\ copy[r].end \in 1..(MaxDate + 1)
BY RecurringAssumption DEF RecurringRule, Date, Never, Copies

LEMMA IdleOK == RunOK(Idle) /\ Idle.pc = "idle" /\ DOMAIN Idle.read = {}
<1>1. /\ Idle.copy \in [{} -> RecurringRule] /\ Idle.read \in [{} -> 1..(MaxDate + 1)]
      /\ DOMAIN Idle.read = {}
  BY DEF Idle
<1>2. Idle.copy \in Copies /\ Idle.read \in Reads
  BY <1>1 DEF Copies, Reads
<1> QED BY <1>1, <1>2, RecurringAssumption DEF Idle, RunOK, Run, ToSet, Queues

\* The rules of a started run: its queue orders them, and it copies each.
LEMMA StartedOK ==
  ASSUME TablesOK, NEW q \in SetToSeqs(DueRules),
         NEW run,
         run = [pc |-> "loop", queue |-> q, copy |-> Restrict(rules, DueRules),
                read |-> [r \in DueRules |-> rules[r].next],
                today |-> today, tx |-> "none", seen |-> FALSE, pending |-> FALSE]
  PROVE  RunOK(run) /\ run.pc = "loop" /\ RunPosted(run)
<1>1. DueRules \subseteq DOMAIN rules /\ DueRules \subseteq RuleId
  BY DEF DueRules, TablesOK
<1>2. q \in Seq(DueRules) /\ ToSet(q) \subseteq DueRules
  <2>1. IsFiniteSet(DueRules)
    BY <1>1, FS_Subset, RecurringAssumption
  <2>2. Cardinality(DueRules) \in Nat /\ q \in [1..Cardinality(DueRules) -> DueRules]
    BY <2>1, FS_CardinalityType DEF SetToSeqs
  <2> QED BY <2>2, SeqDef DEF ToSet
<1>3. Restrict(rules, DueRules) \in [DueRules -> RecurringRule]
  BY <1>1 DEF Restrict, TablesOK
<1>4. Restrict(rules, DueRules) \in Copies
  BY <1>1, <1>3 DEF Copies
<1>5. q \in Queues
  BY <1>1, <1>2, SeqDef DEF Queues
<1>6. today \in 0..MaxDate
  BY RecurringAssumption DEF TablesOK, Date
<1>7. /\ run.read \in [DueRules -> 1..(MaxDate + 1)]
      /\ \A r \in DueRules : run.read[r] = rules[r].next /\ run.copy[r] = rules[r]
  <2>1. \A r \in DueRules : rules[r].next \in 1..(MaxDate + 1)
    BY <1>1 DEF TablesOK, RecurringRule
  <2> QED BY <2>1 DEF Restrict
<1>8. run.read \in Reads
  BY <1>1, <1>7 DEF Reads
<1>9. run \in Run
  BY <1>4, <1>5, <1>6, <1>8 DEF Run
<1>10. ToSet(run.queue) \subseteq DOMAIN run.copy /\ DOMAIN run.read \subseteq DOMAIN run.copy
  BY <1>2, <1>3, <1>7
<1>11. RunPosted(run)
  <2> SUFFICES ASSUME NEW r \in DueRules, NEW d \in Date
               PROVE  ~(run.read[r] <= d /\ d < run.copy[r].next)
    BY <1>1, <1>7 DEF RunPosted
  <2>1. run.copy[r].next = run.read[r] /\ run.read[r] \in Int /\ d \in Int
    BY <1>7 DEF Date
  <2> QED BY <2>1
<1> QED BY <1>9, <1>10, <1>11 DEF RunOK

-----------------------------------------------------------------------------
(* What a loop reaches: a date of the calendar or the day after, past none *)
(* at which it would have ended.                                           *)
LEMMA ReachedFacts ==
  ASSUME NEW copy \in Copies, NEW r \in DOMAIN copy, NEW day \in 0..MaxDate,
         NEW budget \in Nat
  PROVE  LET to == Reached(copy, r, day, budget)
         IN /\ to \in 1..(MaxDate + 1) /\ to >= copy[r].next
            /\ \A d \in Int : copy[r].next <= d /\ d < to => ~Blocked(r, d)
<1> DEFINE from == copy[r].next
           Over(d) == d = from + budget \/ d > day \/ d > copy[r].end \/ Blocked(r, d)
           Ends == {d \in from..(from + budget) : Over(d)}
           to == Reached(copy, r, day, budget)
<1>1. from \in 1..(MaxDate + 1) /\ MaxDate \in Nat
  BY CopyFacts, RecurringAssumption
<1>2. Ends \subseteq Nat /\ from + budget \in Ends
  BY <1>1
<1>3. to = Min(Ends)
  BY DEF Reached
<1>4. to \in Ends /\ \A y \in Ends : to <= y
  <2> HIDE DEF Ends
  <2> QED BY <1>2, <1>3, MinOfNaturals
<1>5. to <= MaxDate + 1
  <2>1. CASE from + budget <= MaxDate + 1
    BY <1>2, <1>4, <1>1, <2>1
  <2>2. CASE from + budget > MaxDate + 1
    <3>1. MaxDate + 1 > day /\ MaxDate + 1 \in from..(from + budget)
      BY <1>1, <2>2
    <3>2. MaxDate + 1 \in Ends
      BY <3>1
    <3> QED BY <3>2, <1>4
  <2> QED BY <1>1, <2>1, <2>2
<1>6. ASSUME NEW d \in Int, from <= d, d < to
      PROVE  ~Blocked(r, d)
  <2>1. d \in from..(from + budget)
    BY <1>1, <1>4, <1>6
  <2>2. Blocked(r, d) => d \in Ends
    BY <2>1
  <2> QED BY <1>1, <1>4, <1>6, <2>2
<1> HIDE DEF Ends, from
<1>7. to \in from..(from + budget)
  BY <1>4 DEF Ends
<1> QED BY <1>1, <1>5, <1>6, <1>7 DEF from

-----------------------------------------------------------------------------
(* What a step leaves of the runs and of their answers.                    *)

LEMMA OneRun ==
  ASSUME RunsOK, NEW j \in JobId, NEW run, RunOK(run), job' = [job EXCEPT ![j] = run]
  PROVE  /\ RunsOK'
         /\ job'[j] = run
         /\ \A k \in JobId \ {j} : job'[k] = job[k]
BY DEF RunsOK, RunOK

\* No row is written: answers stay true, and those of overtaken snapshots are not
\* relied on.
LEMMA AnswersKept ==
  ASSUME ExistsAnswerHolds, UNCHANGED rows,
         \A k \in JobId : job'[k].pc = "checked" /\ k \notin stale'
                            => job'[k] = job[k] /\ k \notin stale
  PROVE  ExistsAnswerHolds'
BY DEF ExistsAnswerHolds, Exists, Occurrence, Current

\* A row is written: every run that has an answer is overtaken.
LEMMA AnswersOvertaken ==
  ASSUME NEW except, Overtake(except),
         \A k \in JobId : job'[k].pc = "checked" => job'[k] = job[k] /\ k \notin except
  PROVE  ExistsAnswerHolds'
BY DEF ExistsAnswerHolds, Overtake, OpenSnapshots

\* Rows and rules stay: what was posted is posted.
LEMMA PostedKept ==
  ASSUME RunsPosted, DOMAIN rules \subseteq DOMAIN rules', DOMAIN rows \subseteq DOMAIN rows',
         \A k \in JobId : job'[k] = job[k] \/ RunPosted(job[k])'
  PROVE  RunsPosted'
<1> SUFFICES ASSUME NEW k \in JobId, job'[k] = job[k]
             PROVE  RunPosted(job[k])'
  BY DEF RunsPosted
<1> QED BY DEF RunsPosted, RunPosted

LEMMA OvertakeType ==
  ASSUME TablesOK, NEW except, Overtake(except)
  PROVE  stale' \subseteq JobId
BY DEF TablesOK, Overtake, OpenSnapshots

-----------------------------------------------------------------------------
(* The states a step puts a run in.                                        *)

LEMMA CheckedFacts ==
  ASSUME TablesOK, RunsOK, NEW j \in JobId, job[j].queue # <<>>
  PROVE  /\ Current(j) \in ToSet(job[j].queue) /\ Current(j) \in DOMAIN job[j].copy
         /\ job[j].copy \in Copies /\ Current(j) \in RuleId
         /\ job[j].copy[Current(j)].next \in 1..(MaxDate + 1)
<1>1. RunOK(job[j]) /\ job[j].queue \in Queues /\ job[j].copy \in Copies
  BY DEF RunsOK, RunOK, Run
<1>2. Current(j) \in ToSet(job[j].queue)
  BY <1>1, QueueFacts DEF Current
<1>3. Current(j) \in DOMAIN job[j].copy
  BY <1>1, <1>2 DEF RunOK
<1> QED BY <1>1, <1>2, <1>3, CopyFacts

LEMMA AdvancedOK ==
  ASSUME TablesOK, RunsOK, NEW j \in JobId, job[j].pc = "checked"
  PROVE  RunOK(Advanced(j)) /\ Advanced(j).pc = "loop"
<1> DEFINE r == Current(j)
           copy == job[j].copy
           moved == [copy EXCEPT ![r].next = @ + 1]
<1>1. RunOK(job[j]) /\ job[j].queue # <<>> /\ job[j] \in Run
  BY DEF RunsOK, RunOK
<1>2. copy \in Copies /\ r \in DOMAIN copy /\ copy[r].next \in Date
  BY <1>1, CheckedFacts DEF RunOK, Current
<1>3. moved \in Copies
  <2>1. copy \in [DOMAIN copy -> RecurringRule] /\ DOMAIN copy \in SUBSET RuleId
    BY <1>2 DEF Copies
  <2>2. [copy[r] EXCEPT !.next = @ + 1] \in RecurringRule
    <3>1. copy[r] \in RecurringRule
      BY <1>2, <2>1
    <3>2. copy[r].next + 1 \in 1..(MaxDate + 1)
      BY <1>2, RecurringAssumption DEF Date
    <3> QED BY <3>1, <3>2 DEF RecurringRule
  <2>3. moved \in [DOMAIN copy -> RecurringRule]
    BY <2>1, <2>2
  <2> QED BY <2>1, <2>3 DEF Copies
<1>4. Advanced(j) = [job[j] EXCEPT !.pc = "loop", !.pending = TRUE, !.copy = moved]
  BY <1>1 DEF Advanced, Run
<1>5. DOMAIN moved = DOMAIN copy
  OBVIOUS
<1> HIDE DEF moved
<1> QED BY <1>1, <1>3, <1>4, <1>5 DEF RunOK, Run

\* What an advanced run has passed: the occurrence, besides what it had passed before.
LEMMA AdvancedPosted ==
  ASSUME TablesOK, RunsOK, RunsPosted, NEW j \in JobId, job[j].pc = "checked"
  PROVE  /\ DOMAIN Advanced(j).read = DOMAIN job[j].read
         /\ \A r \in DOMAIN job[j].read :
              /\ r \in DOMAIN rules
              /\ \A d \in Date :
                   Advanced(j).read[r] <= d /\ d < Advanced(j).copy[r].next
                     => <<r, d>> \in DOMAIN rows \/ <<r, d>> = Occurrence(j)
              /\ job[j].seen /\ r = Current(j) => Occurrence(j) \in DOMAIN rows
<1> DEFINE c == Current(j)
           copy == job[j].copy
<1>1. RunOK(job[j]) /\ job[j].queue # <<>> /\ job[j] \in Run /\ RunPosted(job[j])
  BY DEF RunsOK, RunOK, RunsPosted
<1>2. copy \in Copies /\ c \in DOMAIN copy /\ copy[c].next \in Date
  BY <1>1, CheckedFacts DEF RunOK, Current
<1>3. /\ Advanced(j).read = job[j].read
      /\ Advanced(j).copy = [copy EXCEPT ![c].next = @ + 1]
  BY <1>1 DEF Advanced, Run
<1>4. \A r \in DOMAIN copy :
        Advanced(j).copy[r].next = IF r = c THEN copy[r].next + 1 ELSE copy[r].next
  <2>1. copy \in [DOMAIN copy -> RecurringRule]
    BY <1>2 DEF Copies
  <2>2. \A r \in DOMAIN copy : copy[r] \in RecurringRule
    BY <2>1
  <2> QED BY <1>2, <1>3, <2>1, <2>2 DEF RecurringRule
<1>5. DOMAIN job[j].read \subseteq DOMAIN copy
  BY <1>1 DEF RunOK
<1>6. ASSUME NEW r \in DOMAIN job[j].read, NEW d \in Date,
             job[j].read[r] <= d, d < Advanced(j).copy[r].next
      PROVE  <<r, d>> \in DOMAIN rows \/ <<r, d>> = Occurrence(j)
  <2>1. CASE d < copy[r].next
    BY <1>1, <1>6, <2>1 DEF RunPosted
  <2>2. CASE ~(d < copy[r].next)
    <3>1. r = c /\ d = copy[r].next
      BY <1>2, <1>4, <1>5, <1>6, <2>2 DEF Date
    <3> QED BY <3>1 DEF Occurrence
  <2> QED BY <2>1, <2>2
<1>7. ASSUME NEW r \in DOMAIN job[j].read, job[j].seen, r = c
      PROVE  Occurrence(j) \in DOMAIN rows
  BY <1>1, <1>7 DEF RunPosted, Occurrence, Current
<1>8. \A r \in DOMAIN job[j].read : r \in DOMAIN rules
  BY <1>1 DEF RunPosted
<1> HIDE DEF c, copy
<1> QED BY <1>3, <1>6, <1>7, <1>8 DEF c

LEMMA UndoneOK ==
  ASSUME RunsOK, NEW j \in JobId, job[j].pc = "checked"
  PROVE  /\ RunOK(Undone(j)) /\ Undone(j).pc = "loop"
         /\ RunPosted(job[j]) => RunPosted(Undone(j))
<1>1. RunOK(job[j]) /\ job[j].queue # <<>> /\ job[j] \in Run
  BY DEF RunsOK, RunOK
<1>2. Tail(job[j].queue) \in Queues /\ ToSet(Tail(job[j].queue)) \subseteq ToSet(job[j].queue)
  BY <1>1, QueueFacts DEF Run
<1>3. RunPosted(job[j]) => RunPosted(Undone(j))
  BY <1>1 DEF RunPosted, Run, Undone
<1> QED BY <1>1, <1>2, <1>3 DEF RunOK, Run, Undone

-----------------------------------------------------------------------------
(* The rest of a run.                                                      *)

\* Where this step moves a rule, every date from the run's copy of it on has a row.
MovesPosted(j) ==
  /\ DOMAIN rows \subseteq DOMAIN rows'
  /\ \A r \in DOMAIN rules :
       r \in DOMAIN rules' /\ rules'[r].next # rules[r].next
         => \A d \in Date : job[j].copy[r].next <= d /\ d < rules'[r].next
              => <<r, d>> \in DOMAIN rows'

LEMMA WithRowsType ==
  ASSUME TablesOK, NEW O \in SUBSET (RuleId \X Date)
  PROVE  /\ DOMAIN WithRows(O) = DOMAIN rows \cup O
         /\ DOMAIN WithRows(O) \subseteq RuleId \X Date
         /\ WithRows(O) \in [DOMAIN WithRows(O) -> RowState]
BY DEF TablesOK, WithRows, RowState

LEMMA RunRestOK ==
  ASSUME RecurringInv, NEW j \in JobId, NEW q \in Queues,
         ToSet(q) \subseteq DOMAIN job[j].copy,
         NEW first \in Nat, NEW flushed \in SUBSET ToSet(q),
         RunRest(j, q, first, flushed)
  PROVE  RecurringInv' /\ MovesPosted(j)
<1> DEFINE R == ToSet(q)
           copy == job[j].copy
           Budget(r) == IF r = Head(q) THEN first ELSE MaxIterations
           to == [r \in R |-> Reached(copy, r, job[j].today, Budget(r))]
           updated == flushed \cup {r \in R : to[r] # copy[r].next}
           passed == {o \in R \X Date : copy[o[1]].next <= o[2] /\ o[2] < to[o[1]]}
           posted == {o \in passed : /\ ~Exists(o) /\ ~NeedsQuote(o) /\ CanInsert(o)}
           moved == [r \in DOMAIN rules |->
                       IF r \in updated THEN [rules[r] EXCEPT !.next = to[r]] ELSE rules[r]]
<1>1. RunOK(job[j]) /\ copy \in Copies /\ job[j].today \in 0..MaxDate /\ R \subseteq RuleId
  BY QueueFacts DEF RecurringInv, RunsOK, RunOK, Run
<1>2. ASSUME NEW r \in R
      PROVE  /\ to[r] \in 1..(MaxDate + 1)
             /\ \A d \in Int : copy[r].next <= d /\ d < to[r] => ~Blocked(r, d)
  <2>1. Budget(r) \in Nat
    BY RecurringAssumption
  <2>2. to[r] = Reached(copy, r, job[j].today, Budget(r))
    BY <1>2
  <2> HIDE DEF Budget, to
  <2> QED BY <1>1, <1>2, <2>1, <2>2, ReachedFacts
<1>3. /\ IF updated \subseteq DOMAIN rules THEN rules' = moved /\ rows' = WithRows(posted)
                                           ELSE UNCHANGED <<rules, rows>>
      /\ job' = [job EXCEPT ![j] = Idle] /\ Overtake({j})
      /\ UNCHANGED <<quotes, today, edits>>
  BY DEF RunRest, EndRun
<1>4. posted \in SUBSET (RuleId \X Date) /\ updated \subseteq R
  BY <1>1
<1>5. ASSUME NEW r \in R, NEW d \in Date, copy[r].next <= d, d < to[r]
      PROVE  <<r, d>> \in DOMAIN rows \cup posted
  <2>1. ~Blocked(r, d) /\ <<r, d>> \in passed
    BY <1>2, <1>5 DEF Date
  <2>2. CASE Exists(<<r, d>>)
    BY <2>2 DEF Exists
  <2>3. CASE ~Exists(<<r, d>>)
    BY <2>1, <2>3 DEF Blocked
  <2> QED BY <2>2, <2>3
<1> HIDE DEF to, passed, posted, updated
<1>6. TablesOK'
  <2>1. stale' \subseteq JobId
    BY <1>3, OvertakeType DEF RecurringInv
  <2>2. ASSUME updated \subseteq DOMAIN rules
        PROVE  moved \in [DOMAIN rules -> RecurringRule]
    BY <1>2, <1>4 DEF RecurringInv, TablesOK, RecurringRule
  <2>3. DOMAIN moved = DOMAIN rules
    OBVIOUS
  <2> HIDE DEF moved
  <2>4. CASE updated \subseteq DOMAIN rules
    BY <1>3, <1>4, <2>1, <2>2, <2>3, <2>4, WithRowsType DEF RecurringInv, TablesOK
  <2>5. CASE ~(updated \subseteq DOMAIN rules)
    BY <1>3, <2>1, <2>5 DEF RecurringInv, TablesOK
  <2> QED BY <2>4, <2>5
<1>7. RunsOK' /\ \A k \in JobId \ {j} : job'[k] = job[k]
  BY <1>3, IdleOK, OneRun DEF RecurringInv
<1>8. job'[j] = Idle
  BY <1>3, IdleOK, OneRun DEF RecurringInv
<1>9. ExistsAnswerHolds'
  BY <1>3, <1>7, <1>8, IdleOK, AnswersOvertaken
<1>10. DOMAIN rules \subseteq DOMAIN rules' /\ DOMAIN rows \subseteq DOMAIN rows'
  BY <1>3, <1>4, WithRowsType DEF RecurringInv
<1>11. RunsPosted'
  <2>1. RunPosted(job[j])'
    BY <1>8, IdleOK DEF RunPosted
  <2> QED BY <1>7, <1>10, <2>1, PostedKept DEF RecurringInv
<1>12. MovesPosted(j)
  <2> SUFFICES ASSUME NEW r \in DOMAIN rules, r \in DOMAIN rules',
                      rules'[r].next # rules[r].next,
                      NEW d \in Date, copy[r].next <= d, d < rules'[r].next
               PROVE  <<r, d>> \in DOMAIN rows'
    BY <1>10 DEF MovesPosted
  <2>1. rules' = moved /\ rows' = WithRows(posted)
    BY <1>3
  <2>2. r \in updated /\ r \in R
    BY <1>4, <2>1
  <2>3. rules'[r].next = to[r]
    BY <2>1, <2>2 DEF RecurringInv, TablesOK, RecurringRule
  <2>4. <<r, d>> \in DOMAIN rows \cup posted
    BY <1>5, <2>2, <2>3
  <2> QED BY <1>4, <2>1, <2>4, WithRowsType DEF RecurringInv
<1> QED BY <1>6, <1>7, <1>9, <1>11, <1>12 DEF RecurringInv

-----------------------------------------------------------------------------
(* Users                                                                   *)

\* An edit leaves the runs alone and overtakes all that hold a snapshot.
LEMMA UserStep ==
  ASSUME RecurringInv, Overtake({}), UNCHANGED job,
         DOMAIN rules \subseteq DOMAIN rules', DOMAIN rows \subseteq DOMAIN rows',
         DOMAIN rules' \subseteq RuleId, rules' \in [DOMAIN rules' -> RecurringRule],
         DOMAIN rows' \subseteq RuleId \X Date, rows' \in [DOMAIN rows' -> RowState],
         UNCHANGED <<quotes, today>>, edits' \in 0..MaxEdits
  PROVE  RecurringInv'
<1>1. stale' \subseteq JobId
  BY OvertakeType DEF RecurringInv
<1>2. TablesOK' /\ RunsOK'
  BY <1>1 DEF RecurringInv, TablesOK, RunsOK
<1>3. ExistsAnswerHolds'
  BY AnswersOvertaken
<1>4. RunsPosted'
  BY PostedKept DEF RecurringInv
<1> QED BY <1>2, <1>3, <1>4 DEF RecurringInv

\* A deleted rule takes its rows along and what the runs read of it.
LEMMA DeleteRuleOK ==
  ASSUME RecurringInv, NEW r \in DOMAIN rules, DeleteRule(r), edits' \in 0..MaxEdits
  PROVE  RecurringInv' /\ \A j \in JobId : job'[j].pc = job[j].pc
<1> DEFINE kept(j) == Restrict(job[j].read, DOMAIN job[j].read \ {r})
<1>1. /\ rules' = Restrict(rules, DOMAIN rules \ {r})
      /\ rows' = Restrict(rows, {o \in DOMAIN rows : o[1] # r})
      /\ job' = [j \in JobId |-> [job[j] EXCEPT !.read = kept(j)]]
      /\ Overtake({}) /\ UNCHANGED <<quotes, today>>
  BY DEF DeleteRule
<1>2. /\ DOMAIN rules' = DOMAIN rules \ {r} /\ rules' \in [DOMAIN rules' -> RecurringRule]
      /\ DOMAIN rows' = {o \in DOMAIN rows : o[1] # r}
      /\ rows' \in [DOMAIN rows' -> RowState]
  BY <1>1 DEF RecurringInv, TablesOK, Restrict
<1>3. TablesOK'
  BY <1>1, <1>2, OvertakeType DEF RecurringInv, TablesOK
<1>4. ASSUME NEW j \in JobId
      PROVE  /\ RunOK(job'[j]) /\ RunPosted(job[j])' /\ job'[j] \in Run
             /\ job'[j].pc = job[j].pc
  <2>1. RunOK(job[j]) /\ job[j] \in Run /\ RunPosted(job[j])
    BY DEF RecurringInv, RunsOK, RunOK, RunsPosted
  <2>2. /\ DOMAIN kept(j) = DOMAIN job[j].read \ {r}
        /\ \A q \in DOMAIN kept(j) : kept(j)[q] = job[j].read[q]
        /\ kept(j) \in [DOMAIN kept(j) -> 1..(MaxDate + 1)]
    <3>1. job[j].read \in [DOMAIN job[j].read -> 1..(MaxDate + 1)]
      BY <2>1 DEF Run, Reads
    <3> QED BY <3>1 DEF Restrict
  <2>3. kept(j) \in Reads
    <3>1. DOMAIN job[j].read \subseteq RuleId
      BY <2>1 DEF Run, Reads
    <3> QED BY <2>2, <3>1 DEF Reads
  <2> HIDE DEF kept
  <2>4. job'[j] = [job[j] EXCEPT !.read = kept(j)]
    BY <1>1
  <2>5. /\ job'[j] \in Run /\ job'[j].read = kept(j) /\ job'[j].copy = job[j].copy
        /\ job'[j].queue = job[j].queue /\ job'[j].pc = job[j].pc
        /\ job'[j].seen = job[j].seen /\ job'[j].pending = job[j].pending
    BY <2>1, <2>3, <2>4 DEF Run
  <2>6. RunOK(job'[j])
    BY <2>1, <2>2, <2>5 DEF RunOK
  <2>7. RunPosted(job[j])'
    <3> SUFFICES ASSUME NEW q \in DOMAIN kept(j)
                 PROVE  /\ q \in DOMAIN rules'
                        /\ \A d \in Date : kept(j)[q] <= d /\ d < job[j].copy[q].next
                                            => <<q, d>> \in DOMAIN rows'
                        /\ job[j].pc = "checked" /\ job[j].seen /\ q = Head(job[j].queue)
                             => <<q, job[j].copy[q].next>> \in DOMAIN rows'
      BY <2>5 DEF RunPosted
    <3>1. q \in DOMAIN job[j].read /\ q # r /\ kept(j)[q] = job[j].read[q]
      BY <2>2
    <3> QED BY <1>2, <2>1, <3>1 DEF RunPosted
  <2> QED BY <2>5, <2>6, <2>7
<1>5. RunsOK' /\ RunsPosted'
  <2>1. job' = [j \in JobId |-> job'[j]]
    BY <1>1
  <2> QED BY <1>4, <2>1 DEF RunsOK, RunsPosted
<1>6. ExistsAnswerHolds'
  BY <1>1, <1>4 DEF ExistsAnswerHolds, Overtake, OpenSnapshots
<1> QED BY <1>3, <1>4, <1>5, <1>6 DEF RecurringInv

LEMMA CreateRuleOK ==
  ASSUME RecurringInv, NEW r \in RuleId, NEW row \in RuleInput, CreateRule(r, row)
  PROVE  RecurringInv'
<1>1. row \in RecurringRule
  BY RuleInputAssumption
<1>2. DOMAIN rules \subseteq DOMAIN rules' /\ DOMAIN rows \subseteq DOMAIN rows'
  BY DEF CreateRule
<1> QED BY <1>1, <1>2, UserStep DEF CreateRule, RecurringInv, TablesOK

LEMMA UserEditOK ==
  ASSUME RecurringInv, edits < MaxEdits, edits' = edits + 1, UserEdit
  PROVE  RecurringInv' /\ \A j \in JobId : job'[j].pc = job[j].pc
<1>1. edits' \in 0..MaxEdits
  BY RecurringAssumption DEF RecurringInv, TablesOK
<1>2. TablesOK
  BY DEF RecurringInv
<1>3. ASSUME NEW r \in DOMAIN rules, NEW row \in RuleInput, UpdateRule(r, row)
      PROVE  RecurringInv' /\ UNCHANGED job
  <2>1. row \in RecurringRule
    BY RuleInputAssumption
  <2>2. [row EXCEPT !.next = IF row.anchor > @ THEN row.anchor ELSE @] \in RecurringRule
    BY <2>1, RecurringAssumption DEF RecurringRule, Date
  <2>3. rules' \in [DOMAIN rules -> RecurringRule]
    BY <1>2, <1>3, <2>2 DEF UpdateRule, TablesOK
  <2> QED BY <1>1, <1>2, <1>3, <2>3, UserStep DEF UpdateRule, TablesOK
<1>4. ASSUME NEW r \in DOMAIN rules, NEW auto \in BOOLEAN, ToggleAutoPost(r, auto)
      PROVE  RecurringInv' /\ UNCHANGED job
  <2>1. rules' \in [DOMAIN rules -> RecurringRule]
    BY <1>2, <1>4 DEF ToggleAutoPost, TablesOK, RecurringRule
  <2> QED BY <1>1, <1>2, <1>4, <2>1, UserStep DEF ToggleAutoPost, TablesOK
<1>5. ASSUME NEW r \in DOMAIN rules, DeleteRule(r)
      PROVE  RecurringInv' /\ \A j \in JobId : job'[j].pc = job[j].pc
  BY <1>1, <1>5, DeleteRuleOK
<1>6. ASSUME NEW o \in DOMAIN rows, NEW to \in RowState, MoveRow(o, to)
      PROVE  RecurringInv' /\ UNCHANGED job
  <2>1. DOMAIN rows' \subseteq RuleId \X Date /\ rows' \in [DOMAIN rows' -> RowState]
    BY <1>2, <1>6 DEF MoveRow, TablesOK
  <2> QED BY <1>1, <1>2, <1>6, <2>1, UserStep DEF MoveRow, TablesOK
<1> QED BY <1>3, <1>4, <1>5, <1>6 DEF UserEdit

LEMMA NextDayOK ==
  ASSUME RecurringInv, NextDay
  PROVE  RecurringInv'
<1>1. TablesOK'
  BY RecurringAssumption DEF NextDay, RecurringInv, TablesOK, Date
<1>2. RunsOK'
  BY DEF NextDay, RecurringInv, RunsOK
<1>3. ExistsAnswerHolds'
  BY AnswersKept DEF NextDay, RecurringInv
<1>4. RunsPosted'
  BY PostedKept DEF NextDay, RecurringInv
<1> QED BY <1>1, <1>2, <1>3, <1>4 DEF RecurringInv

-----------------------------------------------------------------------------
(* Steps of a run that write no row and move no rule.                      *)

LEMMA QuietStep ==
  ASSUME RecurringInv, NEW j \in JobId, NEW run, RunOK(run), run.pc # "checked",
         RunPosted(run),
         job' = [job EXCEPT ![j] = run], UNCHANGED <<rules, rows, today>>,
         quotes' \subseteq Date, edits' \in 0..MaxEdits,
         stale' \subseteq JobId, stale \ {j} \subseteq stale'
  PROVE  RecurringInv' /\ MovesPosted(j)
<1>1. RunsOK' /\ job'[j] = run /\ \A k \in JobId \ {j} : job'[k] = job[k]
  BY OneRun DEF RecurringInv
<1>2. TablesOK'
  BY DEF RecurringInv, TablesOK
<1>3. ExistsAnswerHolds'
  BY <1>1, AnswersKept DEF RecurringInv
<1>4. RunPosted(job[j])'
  BY <1>1 DEF RunPosted
<1>5. RunsPosted'
  BY <1>1, <1>4, PostedKept DEF RecurringInv
<1> QED BY <1>1, <1>2, <1>3, <1>5 DEF RecurringInv, MovesPosted

LEMMA IdlePosted == RunPosted(Idle)
BY IdleOK DEF RunPosted

LEMMA StartRunOK ==
  ASSUME RecurringInv, NEW j \in JobId, StartRun(j)
  PROVE  RecurringInv' /\ MovesPosted(j)
<1>1. PICK q \in SetToSeqs(DueRules) :
        job' = [job EXCEPT ![j] = [pc |-> "loop", queue |-> q,
                  copy |-> Restrict(rules, DueRules),
                  read |-> [r \in DueRules |-> rules[r].next],
                  today |-> today, tx |-> "none", seen |-> FALSE, pending |-> FALSE]]
  <2>1. PICK q \in SetToSeqs(DueRules) :
          job' = [job EXCEPT ![j] =
                    [Idle EXCEPT !.pc = "loop", !.queue = q, !.today = today,
                                 !.copy = Restrict(rules, DueRules),
                                 !.read = [r \in DueRules |-> rules[r].next]]]
    BY DEF StartRun
  <2>2. PICK copy, read : /\ copy = Restrict(rules, DueRules)
                          /\ read = [r \in DueRules |-> rules[r].next]
    OBVIOUS
  <2>3. [Idle EXCEPT !.pc = "loop", !.queue = q, !.today = today, !.copy = copy, !.read = read]
          = [pc |-> "loop", queue |-> q, copy |-> copy, read |-> read,
             today |-> today, tx |-> "none", seen |-> FALSE, pending |-> FALSE]
    <3>1. PICK empty, no : empty = <<>> /\ no = FALSE
      OBVIOUS
    <3>2. Idle = [pc |-> "idle", queue |-> empty, copy |-> empty, read |-> empty, today |-> 0,
                  tx |-> "none", seen |-> no, pending |-> no]
      BY <3>1 DEF Idle
    <3>3. PICK run : run = [Idle EXCEPT !.pc = "loop", !.queue = q, !.today = today,
                                        !.copy = copy, !.read = read]
      OBVIOUS
    <3>4. run = [pc |-> "loop", queue |-> q, copy |-> copy, read |-> read,
                 today |-> today, tx |-> "none", seen |-> no, pending |-> no]
      BY <3>2, <3>3
    <3> QED BY <3>1, <3>3, <3>4
  <2> QED BY <2>1, <2>2, <2>3
<1>2. UNCHANGED <<rules, rows, quotes, today, edits>> /\ stale' = stale \ {j}
  BY DEF StartRun
<1> QED BY <1>1, <1>2, StartedOK, QuietStep DEF RecurringInv, TablesOK

LEMMA LoopStepsOK ==
  ASSUME RecurringInv, NEW j \in JobId, NextRule(j) \/ FinishIdle(j)
  PROVE  RecurringInv' /\ MovesPosted(j)
<1>1. RunOK(job[j]) /\ job[j] \in Run
  BY DEF RecurringInv, RunsOK, RunOK
<1>2. CASE NextRule(j)
  <2> DEFINE run == [job[j] EXCEPT !.queue = Tail(@)]
  <2>1. job[j].queue \in Queues /\ job[j].queue # <<>>
    BY <1>1, <1>2 DEF NextRule, Run
  <2>2. Tail(job[j].queue) \in Queues /\ ToSet(Tail(job[j].queue)) \subseteq ToSet(job[j].queue)
    BY <2>1, QueueFacts
  <2>3. RunOK(run) /\ run.pc # "checked"
    BY <1>1, <1>2, <2>2 DEF RunOK, Run, NextRule
  <2>4. job' = [job EXCEPT ![j] = run]
    BY <1>2 DEF NextRule
  <2>5. RunPosted(run)
    BY <1>1, <1>2 DEF RecurringInv, RunsPosted, RunPosted, NextRule, Run
  <2> HIDE DEF run
  <2> QED BY <1>2, <2>3, <2>4, <2>5, QuietStep DEF NextRule, RecurringInv, TablesOK
<1>3. CASE FinishIdle(j)
  BY <1>3, IdleOK, IdlePosted, QuietStep DEF FinishIdle, EndRun, RecurringInv, TablesOK
<1> QED BY <1>2, <1>3

LEMMA CheckOK ==
  ASSUME RecurringInv, NEW j \in JobId, Check(j)
  PROVE  RecurringInv' /\ MovesPosted(j)
<1> DEFINE run == [job[j] EXCEPT !.pc = "checked", !.seen = Exists(Occurrence(j))]
<1>1. RunOK(job[j]) /\ job[j] \in Run
  BY DEF RecurringInv, RunsOK, RunOK
<1>2. Exists(Occurrence(j)) \in BOOLEAN
  BY DEF Exists
<1>3. job[j].copy[Head(job[j].queue)].next \in Date
  <2>1. job[j].queue # <<>> /\ Due(job[j].copy, Current(j), job[j].today)
    BY DEF Check
  <2>2. job[j].copy[Current(j)].next \in 1..(MaxDate + 1)
    BY <2>1, CheckedFacts DEF RecurringInv
  <2> QED BY <1>1, <2>1, <2>2, RecurringAssumption DEF Due, Current, Run, Date
<1>4. /\ RunOK(run) /\ run.pc = "checked" /\ run.seen = Exists(Occurrence(j))
      /\ run.queue = job[j].queue /\ run.copy = job[j].copy /\ run.read = job[j].read
  BY <1>1, <1>2, <1>3 DEF RunOK, Run, Check
<1>5. job' = [job EXCEPT ![j] = run] /\ UNCHANGED <<rules, rows, quotes, today, edits>>
      /\ stale' = stale \ {j}
  BY DEF Check
<1> HIDE DEF run
<1>6. RunsOK' /\ job'[j] = run /\ \A k \in JobId \ {j} : job'[k] = job[k]
  BY <1>4, <1>5, OneRun DEF RecurringInv
<1>7. TablesOK'
  BY <1>5 DEF RecurringInv, TablesOK
<1>8. ExistsAnswerHolds'
  <2> SUFFICES ASSUME NEW k \in JobId, job'[k].pc = "checked", k \notin stale'
               PROVE  job'[k].seen = Exists(Occurrence(k))'
    BY DEF ExistsAnswerHolds
  <2>1. CASE k = j
    BY <1>4, <1>5, <1>6, <2>1 DEF Exists, Occurrence, Current
  <2>2. CASE k # j
    BY <1>5, <1>6, <2>2 DEF RecurringInv, ExistsAnswerHolds, Exists, Occurrence, Current
  <2> QED BY <2>1, <2>2
<1>9. RunPosted(job[j])'
  <2>1. run.seen => Occurrence(j) \in DOMAIN rows
    BY <1>4 DEF Exists
  <2> QED BY <1>4, <1>5, <1>6, <2>1
          DEF RecurringInv, RunsPosted, RunPosted, Occurrence, Current
<1>10. RunsPosted'
  BY <1>5, <1>6, <1>9, PostedKept DEF RecurringInv
<1> QED BY <1>5, <1>6, <1>7, <1>8, <1>10 DEF RecurringInv, MovesPosted

LEMMA AbandonOK ==
  ASSUME RecurringInv, NEW j \in JobId, Abandon(j)
  PROVE  RecurringInv' /\ MovesPosted(j)
<1> DEFINE left == {r \in ToSet(job[j].queue) :
                      /\ Due(job[j].copy, r, job[j].today)
                      /\ NeedsQuote(<<r, job[j].copy[r].next>>)}
<1>1. PICK D \in SUBSET {job[j].copy[r].next : r \in left} :
        /\ quotes' = quotes \cup D
        /\ IF D = {} THEN stale' = stale \ {j} ELSE Overtake({j})
  BY DEF Abandon
<1>2. RunOK(job[j]) /\ job[j] \in Run
  BY DEF RecurringInv, RunsOK, RunOK
<1>3. D \subseteq Date
  <2> SUFFICES ASSUME NEW r \in left PROVE job[j].copy[r].next \in Date
    OBVIOUS
  <2>1. r \in DOMAIN job[j].copy
    BY <1>2 DEF RunOK
  <2>2. job[j].copy[r].next \in 1..(MaxDate + 1)
    BY <1>2, <2>1, CopyFacts DEF Run
  <2> QED BY <1>2, <2>2, RecurringAssumption DEF Due, Run, Date
<1>4. stale' \subseteq JobId /\ stale \ {j} \subseteq stale'
  BY <1>1, OvertakeType DEF RecurringInv, TablesOK, Overtake
<1>5. UNCHANGED <<rules, rows, today, edits>> /\ job' = [job EXCEPT ![j] = Idle]
  BY DEF Abandon, EndRun
<1> HIDE DEF left
<1> QED BY <1>1, <1>3, <1>4, <1>5, IdleOK, IdlePosted, QuietStep DEF RecurringInv, TablesOK

LEMMA SkipPostedOK ==
  ASSUME RecurringInv, NEW j \in JobId, SkipPosted(j)
  PROVE  RecurringInv' /\ MovesPosted(j)
<1>1. RunOK(Advanced(j)) /\ Advanced(j).pc = "loop"
  BY AdvancedOK DEF RecurringInv, SkipPosted
<1>2. stale' \subseteq JobId /\ stale \ {j} \subseteq stale'
  BY DEF SkipPosted, RecurringInv, TablesOK
<1>3. RunPosted(Advanced(j))
  BY <1>1, AdvancedPosted DEF RecurringInv, SkipPosted, RunPosted, Occurrence
<1> QED BY <1>1, <1>2, <1>3, QuietStep DEF SkipPosted, RecurringInv, TablesOK

\* The savepoint is undone: no rate, or a snapshot that was overtaken.
LEMMA UndoneStepsOK ==
  ASSUME RecurringInv, NEW j \in JobId, FetchQuote(j) \/ FetchFails(j) \/ InsertStale(j)
  PROVE  RecurringInv' /\ MovesPosted(j)
<1>1. job[j].pc = "checked"
  BY DEF FetchQuote, FetchFails, InsertStale
<1>2. RunOK(Undone(j)) /\ Undone(j).pc = "loop" /\ RunPosted(Undone(j))
  BY <1>1, UndoneOK DEF RecurringInv, RunsPosted
<1>3. CASE FetchQuote(j)
  <2>1. stale' \subseteq JobId /\ stale \ {j} \subseteq stale'
    BY <1>3, OvertakeType DEF FetchQuote, RecurringInv, Overtake
  <2>2. job[j].copy[Current(j)].next \in Date
    BY <1>1 DEF RecurringInv, RunsOK, RunOK, Current
  <2> QED BY <1>2, <1>3, <2>1, <2>2, QuietStep DEF FetchQuote, RecurringInv, TablesOK
<1>4. CASE FetchFails(j) \/ InsertStale(j)
  BY <1>2, <1>4, QuietStep DEF FetchFails, InsertStale, RecurringInv, TablesOK
<1> QED BY <1>3, <1>4

LEMMA CrashOK ==
  ASSUME RecurringInv, NEW j \in JobId, edits < MaxEdits, edits' = edits + 1, Crash(j)
  PROVE  RecurringInv' /\ MovesPosted(j)
<1>1. edits' \in 0..MaxEdits
  BY RecurringAssumption DEF RecurringInv, TablesOK
<1> QED BY <1>1, IdleOK, IdlePosted, QuietStep DEF Crash, EndRun, RecurringInv, TablesOK

-----------------------------------------------------------------------------
(* Steps that write.                                                       *)

LEMMA OccurrenceType ==
  ASSUME RecurringInv, NEW j \in JobId, job[j].pc = "checked"
  PROVE  Occurrence(j) \in RuleId \X Date
BY CheckedFacts DEF RecurringInv, RunsOK, RunOK, Occurrence, Current

LEMMA InsertAloneOK ==
  ASSUME RecurringInv, NEW j \in JobId, InsertAlone(j)
  PROVE  RecurringInv' /\ MovesPosted(j)
<1>1. /\ job[j].pc = "checked" /\ rows' = WithRows({Occurrence(j)})
      /\ job' = [job EXCEPT ![j] = Advanced(j)] /\ Overtake({j})
      /\ UNCHANGED <<rules, quotes, today, edits>>
  BY DEF InsertAlone
<1>2. RunOK(Advanced(j)) /\ Advanced(j).pc = "loop"
  BY <1>1, AdvancedOK DEF RecurringInv
<1>3. RunsOK' /\ job'[j] = Advanced(j) /\ \A k \in JobId \ {j} : job'[k] = job[k]
  BY <1>1, <1>2, OneRun DEF RecurringInv
<1>4. {Occurrence(j)} \in SUBSET (RuleId \X Date)
  BY <1>1, OccurrenceType
<1>5. TablesOK'
  BY <1>1, <1>4, WithRowsType, OvertakeType DEF RecurringInv, TablesOK
<1>6. ExistsAnswerHolds'
  BY <1>1, <1>2, <1>3, AnswersOvertaken
<1>7. DOMAIN rows' = DOMAIN rows \cup {Occurrence(j)}
  BY <1>1, <1>4, WithRowsType DEF RecurringInv
<1>8. RunPosted(job[j])'
  BY <1>1, <1>2, <1>3, <1>7, AdvancedPosted DEF RecurringInv, RunPosted
<1>9. RunsPosted'
  BY <1>1, <1>3, <1>7, <1>8, PostedKept DEF RecurringInv
<1> QED BY <1>1, <1>3, <1>5, <1>6, <1>7, <1>9 DEF RecurringInv, MovesPosted

LEMMA RestStepsOK ==
  ASSUME RecurringInv, NEW j \in JobId,
         FlushAndFinish(j) \/ InsertAndFinish(j) \/ RefusedAndFinish(j)
  PROVE  RecurringInv' /\ MovesPosted(j)
<1>1. RunOK(job[j]) /\ job[j] \in Run /\ job[j].queue # <<>>
  BY DEF RecurringInv, RunsOK, RunOK, FlushAndFinish, InsertAndFinish, RefusedAndFinish
<1>2. /\ job[j].queue \in Queues /\ ToSet(job[j].queue) \subseteq DOMAIN job[j].copy
      /\ Current(j) \in ToSet(job[j].queue)
      /\ Tail(job[j].queue) \in Queues /\ ToSet(Tail(job[j].queue)) \subseteq DOMAIN job[j].copy
  BY <1>1, QueueFacts DEF RunOK, Run, Current
<1>3. MaxIterations \in Nat /\ MaxIterations - 1 \in Nat
  BY RecurringAssumption
<1>4. CASE FlushAndFinish(j)
  BY <1>2, <1>3, <1>4, RunRestOK DEF FlushAndFinish
<1>5. CASE InsertAndFinish(j)
  BY <1>2, <1>3, <1>5, RunRestOK DEF InsertAndFinish
<1>6. CASE RefusedAndFinish(j)
  BY <1>2, <1>3, <1>6, RunRestOK DEF RefusedAndFinish
<1> QED BY <1>4, <1>5, <1>6

-----------------------------------------------------------------------------
LEMMA InitInv == Init => RecurringInv
<1> SUFFICES ASSUME Init PROVE RecurringInv
  OBVIOUS
<1>1. TablesOK
  BY RecurringAssumption DEF Init, TablesOK, Date
<1>2. RunsOK
  BY IdleOK DEF Init, RunsOK, RunOK
<1>3. ExistsAnswerHolds
  BY IdleOK DEF Init, ExistsAnswerHolds
<1>4. RunsPosted
  BY IdlePosted DEF Init, RunsPosted
<1> QED BY <1>1, <1>2, <1>3, <1>4 DEF RecurringInv

\* A step of a run changes no other run.
LEMMA OthersKept ==
  ASSUME RunsOK, NEW j \in JobId, RunStep(j) \/ FetchFails(j) \/ Crash(j)
  PROVE  \A k \in JobId \ {j} : job'[k] = job[k]
<1>1. ASSUME NEW run, job' = [job EXCEPT ![j] = run]
      PROVE  \A k \in JobId \ {j} : job'[k] = job[k]
  BY <1>1 DEF RunsOK
<1>2. CASE StartRun(j) \/ NextRule(j) \/ FinishIdle(j) \/ Check(j)
  BY <1>2 DEF RunsOK, StartRun, NextRule, FinishIdle, Check, EndRun
<1>3. CASE Abandon(j) \/ SkipPosted(j) \/ FetchQuote(j) \/ FetchFails(j)
  BY <1>1, <1>3 DEF Abandon, SkipPosted, FetchQuote, FetchFails, EndRun
<1>4. CASE InsertStale(j) \/ InsertAlone(j) \/ Crash(j)
  BY <1>1, <1>4 DEF InsertStale, InsertAlone, Crash, EndRun
<1>5. CASE FlushAndFinish(j) \/ InsertAndFinish(j) \/ RefusedAndFinish(j)
  BY <1>1, <1>5 DEF FlushAndFinish, InsertAndFinish, RefusedAndFinish, RunRest, EndRun
<1> QED BY <1>2, <1>3, <1>4, <1>5 DEF RunStep

\* Every step keeps the invariant, and one that moves a run on is of a run which moves
\* a rule past posted dates alone.
LEMMA StepOK ==
  ASSUME RecurringInv, [Next]_vars
  PROVE  /\ RecurringInv'
         /\ \/ \A j \in JobId : job'[j].pc = job[j].pc
            \/ \E j \in JobId : /\ MovesPosted(j)
                                /\ \A k \in JobId \ {j} : job'[k] = job[k]
<1>1. ASSUME NEW r \in RuleId, NEW row \in RuleInput, CreateRule(r, row)
      PROVE  RecurringInv' /\ UNCHANGED job
  BY <1>1, CreateRuleOK DEF CreateRule
<1>2. CASE NextDay
  BY <1>2, NextDayOK DEF NextDay
<1>3. CASE edits < MaxEdits /\ edits' = edits + 1 /\ UserEdit
  BY <1>3, UserEditOK
<1>4. ASSUME NEW j \in JobId, edits < MaxEdits, edits' = edits + 1, Crash(j)
      PROVE  RecurringInv' /\ MovesPosted(j) /\ \A k \in JobId \ {j} : job'[k] = job[k]
  BY <1>4, CrashOK, OthersKept DEF RecurringInv
<1>5. ASSUME NEW j \in JobId, RunStep(j) \/ FetchFails(j)
      PROVE  RecurringInv' /\ MovesPosted(j) /\ \A k \in JobId \ {j} : job'[k] = job[k]
  <2>1. \A k \in JobId \ {j} : job'[k] = job[k]
    BY <1>5, OthersKept DEF RecurringInv
  <2>2. CASE FetchFails(j)
    BY <2>1, <2>2, UndoneStepsOK
  <2>3. CASE RunStep(j)
    BY <2>1, <2>3, StartRunOK, LoopStepsOK, CheckOK, AbandonOK, SkipPostedOK,
       UndoneStepsOK, InsertAloneOK, RestStepsOK DEF RunStep
  <2> QED BY <1>5, <2>2, <2>3
<1>6. CASE UNCHANGED vars
  <2>1. TablesOK' /\ RunsOK'
    BY <1>6 DEF vars, RecurringInv, TablesOK, RunsOK
  <2>2. ExistsAnswerHolds'
    BY <1>6, AnswersKept DEF vars, RecurringInv
  <2>3. RunsPosted'
    BY <1>6, PostedKept DEF vars, RecurringInv
  <2> QED BY <1>6, <2>1, <2>2, <2>3 DEF vars, RecurringInv
<1> QED BY <1>1, <1>2, <1>3, <1>4, <1>5, <1>6 DEF Next

-----------------------------------------------------------------------------
(* The state of rules, rows and runs is well formed for ever.              *)
THEOREM RecurringTypeCorrect == Spec => []TypeOK
<1>1. RecurringInv => TypeOK
  <2> SUFFICES ASSUME RecurringInv PROVE TypeOK
    OBVIOUS
  <2>1. ASSUME NEW j \in JobId
        PROVE  /\ job[j].pc \in {"idle", "loop", "checked"}
               /\ ToSet(job[j].queue) \subseteq DOMAIN job[j].copy
               /\ DOMAIN job[j].copy \subseteq RuleId
               /\ DOMAIN job[j].read \subseteq DOMAIN job[j].copy \cap DOMAIN rules
               /\ job[j].tx \in {"none", "read"}
               /\ <<job[j].seen, job[j].pending>> \in BOOLEAN \X BOOLEAN
    <3>1. RunOK(job[j]) /\ job[j] \in Run
      BY DEF RecurringInv, RunsOK, RunOK
    <3>2. DOMAIN job[j].copy \subseteq RuleId
      BY <3>1 DEF Run, Copies
    <3>3. DOMAIN job[j].read \subseteq DOMAIN rules
      BY DEF RecurringInv, RunsPosted, RunPosted
    <3> QED BY <3>1, <3>2, <3>3 DEF RunOK, Run
  <2>2. DOMAIN job = JobId
    BY DEF RecurringInv, RunsOK
  <2> QED BY <2>1, <2>2 DEF RecurringInv, TablesOK, TypeOK
<1> QED BY InitInv, StepOK, <1>1, PTL DEF Spec

(* However many runs, users and crashes interleave: what a run's exists    *)
(* query answered holds when it inserts.                                   *)
THEOREM AnswersHold == Spec => []ExistsAnswerHolds
<1>1. RecurringInv => ExistsAnswerHolds
  BY DEF RecurringInv
<1> QED BY InitInv, StepOK, <1>1, PTL DEF Spec

(* From the next occurrence a run found stored to the one it leaves there,   *)
(* no date is without a row, whatever failed on the way and whoever edited  *)
(* the rule meanwhile.                                                      *)
THEOREM RunsSkipNothing == Spec => NothingSkipped
<1> DEFINE Step == \A j \in JobId : \A r \in DOMAIN job[j].read :
                     (/\ job[j].pc # "idle" /\ job'[j] = Idle
                      /\ r \in DOMAIN rules' /\ rules'[r].next # rules[r].next)
                     => \A d \in Date : job[j].read[r] <= d /\ d < rules'[r].next
                          => <<r, d>> \in DOMAIN rows'
<1>1. RecurringInv /\ [Next]_vars => [Step]_vars
  <2> SUFFICES ASSUME RecurringInv, [Next]_vars, NEW j \in JobId,
                      NEW r \in DOMAIN job[j].read,
                      job[j].pc # "idle", job'[j] = Idle,
                      r \in DOMAIN rules', rules'[r].next # rules[r].next,
                      NEW d \in Date, job[j].read[r] <= d, d < rules'[r].next
               PROVE  <<r, d>> \in DOMAIN rows'
    OBVIOUS
  <2>1. job'[j].pc # job[j].pc
    BY IdleOK
  <2>2. MovesPosted(j)
    BY <2>1, StepOK
  <2>3. RunPosted(job[j]) /\ r \in DOMAIN job[j].copy
    BY DEF RecurringInv, RunsPosted, RunsOK, RunOK
  <2>4. job[j].copy[r].next \in Int /\ d \in Int
    <3>1. job[j].copy \in Copies
      BY DEF RecurringInv, RunsOK, RunOK, Run
    <3> QED BY <2>3, <3>1, CopyFacts DEF Date
  <2>5. CASE d < job[j].copy[r].next
    BY <2>2, <2>3, <2>5 DEF RunPosted, MovesPosted
  <2>6. CASE job[j].copy[r].next <= d
    BY <2>2, <2>3, <2>6 DEF RunPosted, MovesPosted
  <2> QED BY <2>4, <2>5, <2>6
<1> QED BY InitInv, StepOK, <1>1, PTL DEF Spec, NothingSkipped

-----------------------------------------------------------------------------
(* The calendar.                                                           *)

\* What is assumed of it, month by month.
LEMMA Calendar ==
  /\ LastMonth \in Nat
  /\ \A m \in Month : /\ m \in Nat /\ FirstDay[m] \in Nat /\ FirstDay[m + 1] \in Nat
                      /\ FirstDay[m + 1] - FirstDay[m] = DaysInMonth(m)
                      /\ DaysInMonth(m) \in 28..31
  /\ \A m \in Month : m + 1 \in Month => DaysInMonth(m) = 31 \/ DaysInMonth(m + 1) = 31
<1>1. LastMonth \in Nat
  BY ScheduleAssumption
<1>2. ASSUME NEW m \in Month
      PROVE  /\ m \in Nat /\ FirstDay[m] \in Nat /\ FirstDay[m + 1] \in Nat
             /\ FirstDay[m + 1] - FirstDay[m] = DaysInMonth(m)
             /\ DaysInMonth(m) \in 28..31
  <2>1. m \in Nat /\ m \in 0..(LastMonth + 1) /\ m + 1 \in 0..(LastMonth + 1)
    BY <1>1 DEF Month
  <2>2. DaysInMonth(m) \in 28..31
    BY ScheduleAssumption
  <2> QED BY <2>1, <2>2, ScheduleAssumption DEF DaysInMonth
<1>3. ASSUME NEW m \in Month, m + 1 \in Month
      PROVE  DaysInMonth(m) = 31 \/ DaysInMonth(m + 1) = 31
  <2>1. PICK k \in 1..LastMonth : k = m + 1 /\ k - 1 = m
    BY <1>1, <1>3 DEF Month
  <2>2. DaysInMonth(k - 1) = 31 \/ DaysInMonth(k) = 31
    BY ScheduleAssumption
  <2> QED BY <2>1, <2>2
<1> QED BY <1>1, <1>2, <1>3

\* A later month begins later, by at least its predecessor's length.
LEMMA MonthsInOrder ==
  ASSUME NEW m \in 0..(LastMonth + 1), NEW n \in 0..(LastMonth + 1), m < n
  PROVE  FirstDay[m] + 28 <= FirstDay[n]
<1> USE ScheduleAssumption
<1> DEFINE Ok(k) == FirstDay[m] + 28 <= FirstDay[k]
           Bad == {k \in (m + 1)..(LastMonth + 1) : ~Ok(k)}
<1>0. LastMonth \in Nat /\ n \in (m + 1)..(LastMonth + 1)
  OBVIOUS
<1>1. SUFFICES ASSUME Bad # {} PROVE FALSE
  <2>1. n \notin Bad => Ok(n)
    BY <1>0
  <2> HIDE DEF Bad
  <2> QED BY <2>1
<1>2. Bad \subseteq Nat
  OBVIOUS
<1>3. PICK k \in Bad : \A j \in Bad : k <= j
  <2> HIDE DEF Bad
  <2> QED BY <1>1, <1>2, LeastNatural
<1>4. /\ k - 1 \in Month /\ k - 1 >= m /\ FirstDay[k] - FirstDay[k - 1] >= 28
      /\ FirstDay[k] \in Nat /\ FirstDay[k - 1] \in Nat /\ FirstDay[m] \in Nat
  <2>1. k - 1 \in Month /\ k - 1 >= m /\ k - 1 + 1 = k
    BY <1>3 DEF Month
  <2>2. DaysInMonth(k - 1) \in 28..31
    BY <2>1
  <2>3. k \in 0..(LastMonth + 1) /\ k - 1 \in 0..(LastMonth + 1)
    BY <2>1 DEF Month
  <2> QED BY <2>1, <2>2, <2>3 DEF DaysInMonth
<1>5. CASE k - 1 = m
  BY <1>3, <1>4, <1>5
<1>6. CASE k - 1 > m
  <2>1. k - 1 \notin Bad
    BY <1>3, <1>4, <1>6
  <2>2. Ok(k - 1)
    BY <1>4, <1>6, <2>1 DEF Month
  <2> QED BY <1>3, <1>4, <2>2
<1> QED BY <1>4, <1>5, <1>6

\* A date has one month.
LEMMA MonthUnique ==
  ASSUME NEW d \in Int, NEW m \in Month, FirstDay[m] <= d, d < FirstDay[m + 1]
  PROVE  MonthOf(d) = m
<1> USE ScheduleAssumption
<1>1. ASSUME NEW n \in Month, FirstDay[n] <= d, d < FirstDay[n + 1]
      PROVE  n = m
  <2>1. /\ m \in 0..(LastMonth + 1) /\ m + 1 \in 0..(LastMonth + 1)
        /\ n \in 0..(LastMonth + 1) /\ n + 1 \in 0..(LastMonth + 1)
    BY <1>1 DEF Month
  <2>2. /\ FirstDay[m] \in Nat /\ FirstDay[m + 1] \in Nat
        /\ FirstDay[n] \in Nat /\ FirstDay[n + 1] \in Nat
    BY <2>1
  <2>3. ~(n + 1 <= m)
    <3>1. n + 1 < m => FirstDay[n + 1] + 28 <= FirstDay[m]
      BY <2>1, MonthsInOrder
    <3> QED BY <1>1, <2>1, <2>2, <3>1
  <2>4. ~(m + 1 <= n)
    <3>1. m + 1 < n => FirstDay[m + 1] + 28 <= FirstDay[n]
      BY <2>1, MonthsInOrder
    <3> QED BY <1>1, <2>1, <2>2, <3>1
  <2> QED BY <2>1, <2>3, <2>4
<1> QED BY <1>1 DEF MonthOf

\* Every date of the calendar has a month, and is a day of it.
LEMMA MonthOfDate ==
  ASSUME NEW d \in CalendarDate
  PROVE  /\ MonthOf(d) \in Month
         /\ FirstDay[MonthOf(d)] <= d /\ d < FirstDay[MonthOf(d) + 1]
<1> USE ScheduleAssumption
<1> DEFINE After == {m \in 0..(LastMonth + 1) : d < FirstDay[m]}
<1>0. d \in Int /\ FirstDay[0] \in Nat /\ FirstDay[LastMonth + 1] \in Nat
  BY DEF CalendarDate
<1>1. After \subseteq Nat /\ LastMonth + 1 \in After
  BY <1>0 DEF CalendarDate
<1>2. PICK m \in After : \A n \in After : m <= n
  <2> HIDE DEF After
  <2> QED BY <1>1, LeastNatural
<1>3. m # 0
  BY <1>0, <1>2 DEF CalendarDate
<1>4. m - 1 \in Month /\ m - 1 + 1 = m /\ m - 1 \notin After
  BY <1>2, <1>3 DEF Month
<1>5. FirstDay[m - 1] <= d /\ d < FirstDay[m - 1 + 1]
  <2>1. FirstDay[m - 1] \in Nat
    BY <1>4 DEF Month
  <2> QED BY <1>0, <1>2, <1>4, <2>1 DEF Month
<1>6. MonthOf(d) = m - 1
  BY <1>0, <1>4, <1>5, MonthUnique
<1> QED BY <1>4, <1>5, <1>6

\* Any day of a month is a date, in that month and on that day.
LEMMA DayOfMonth ==
  ASSUME NEW m \in Month, NEW day \in 1..DaysInMonth(m)
  PROVE  /\ DateOf(m, day) \in CalendarDate
         /\ MonthOf(DateOf(m, day)) = m
         /\ DayOf(DateOf(m, day)) = day
<1> USE ScheduleAssumption
<1>1. /\ m \in 0..(LastMonth + 1) /\ m + 1 \in 0..(LastMonth + 1)
      /\ 0 \in 0..(LastMonth + 1) /\ LastMonth + 1 \in 0..(LastMonth + 1)
  BY DEF Month
<1>2. /\ FirstDay[m] \in Nat /\ FirstDay[m + 1] \in Nat
      /\ FirstDay[0] \in Nat /\ FirstDay[LastMonth + 1] \in Nat
  BY <1>1
<1>3. /\ DateOf(m, day) \in Int
      /\ FirstDay[m] <= DateOf(m, day) /\ DateOf(m, day) < FirstDay[m + 1]
  BY <1>2 DEF DateOf, DaysInMonth
<1>4. MonthOf(DateOf(m, day)) = m
  BY <1>3, MonthUnique
<1>5. FirstDay[0] <= FirstDay[m] /\ FirstDay[m + 1] <= FirstDay[LastMonth + 1]
  <2>1. 0 < m => FirstDay[0] + 28 <= FirstDay[m]
    BY <1>1, MonthsInOrder
  <2>2. m + 1 < LastMonth + 1 => FirstDay[m + 1] + 28 <= FirstDay[LastMonth + 1]
    BY <1>1, MonthsInOrder
  <2> QED BY <1>1, <1>2, <2>1, <2>2
<1>6. DateOf(m, day) \in CalendarDate
  BY <1>2, <1>3, <1>5 DEF CalendarDate
<1>7. DayOf(DateOf(m, day)) = day
  BY <1>2, <1>4 DEF DayOf, DateOf
<1> QED BY <1>4, <1>6, <1>7

\* A date's day is one of its month.
LEMMA DayInMonth ==
  ASSUME NEW d \in CalendarDate
  PROVE  /\ DayOf(d) \in 1..DaysInMonth(MonthOf(d)) /\ DayOf(d) \in 1..31
         /\ d = DateOf(MonthOf(d), DayOf(d))
<1> DEFINE m == MonthOf(d)
<1>1. m \in Month /\ FirstDay[m] <= d /\ d < FirstDay[m + 1] /\ d \in Int
  BY MonthOfDate DEF CalendarDate
<1>2. FirstDay[m] \in Nat /\ FirstDay[m + 1] \in Nat /\ DaysInMonth(m) \in 28..31
  BY <1>1, ScheduleAssumption DEF Month
<1> HIDE DEF m
<1>3. d - FirstDay[m] + 1 \in 1..DaysInMonth(m) /\ d - FirstDay[m] + 1 \in 1..31
  BY <1>1, <1>2 DEF DaysInMonth
<1> QED BY <1>1, <1>2, <1>3 DEF DayOf, DateOf, m

-----------------------------------------------------------------------------
(* One step of a schedule.                                                 *)

Policies == {"snap_to_end", "skip", "carry_forward"}

\* The month a step by months reaches: the one asked for, or, skipping months too
\* short for the day, the one after, as two short months never follow each other.
LEMMA MonthReached ==
  ASSUME NEW d \in CalendarDate, NEW months \in Nat \ {0}, NEW day \in 1..31, NEW policy,
         MonthOf(d) + months + 2 <= LastMonth
  PROVE  LET reached == MonthOf(d) + months
             m == MonthsLater(d, months, day, policy)
         IN /\ m \in Month /\ m + 1 \in Month
            /\ policy # "skip" => m = reached
            /\ policy = "skip" => m \in {reached, reached + 1} /\ day <= DaysInMonth(m)
<1> DEFINE reached == MonthOf(d) + months
           fits == {m \in reached..LastMonth : day <= DaysInMonth(m)}
<1>1. /\ MonthOf(d) \in Nat /\ LastMonth \in Nat /\ reached \in Nat
      /\ reached \in Month /\ reached + 1 \in Month /\ reached + 2 \in Month
  <2>1. MonthOf(d) \in Month
    BY MonthOfDate
  <2> QED BY <2>1, Calendar DEF Month
<1>2. CASE policy # "skip"
  BY <1>1, <1>2 DEF MonthsLater
<1>3. CASE policy = "skip"
  <2>1. reached \in fits \/ reached + 1 \in fits
    <3>1. DaysInMonth(reached) = 31 \/ DaysInMonth(reached + 1) = 31
      <4> HIDE DEF reached
      <4> QED BY <1>1, Calendar
    <3> QED BY <1>1, <3>1 DEF Month
  <2>2. \A x \in fits : x \in Nat /\ x >= reached /\ day <= DaysInMonth(x)
    BY <1>1
  <2>3. \E x \in fits : x \in {reached, reached + 1} /\ \A y \in fits : x <= y
    <3>1. CASE reached \in fits
      BY <1>1, <2>2, <3>1
    <3>2. CASE reached \notin fits
      <4>1. \A y \in fits : y # reached /\ y >= reached + 1
        BY <1>1, <2>2, <3>2
      <4> QED BY <2>1, <3>2, <4>1
    <3> QED BY <3>1, <3>2
  <2>4. Min(fits) \in {reached, reached + 1} /\ Min(fits) \in fits
    <3> HIDE DEF fits, reached
    <3>1. PICK x \in fits : x \in {reached, reached + 1} /\ \A y \in fits : x <= y
      BY <2>3
    <3>2. Min(fits) \in fits /\ \A y \in fits : Min(fits) <= y
      BY <3>1 DEF Min
    <3>3. Min(fits) <= x /\ x <= Min(fits) /\ x \in Nat /\ Min(fits) \in Nat
      BY <2>2, <3>1, <3>2
    <3> QED BY <3>1, <3>2, <3>3
  <2>5. MonthsLater(d, months, day, policy) = Min(fits)
    BY <1>3 DEF MonthsLater
  <2> HIDE DEF fits
  <2> QED BY <1>1, <1>3, <2>2, <2>4, <2>5
<1> QED BY <1>2, <1>3

\* A later month's dates are later.
LEMMA LaterMonthLaterDate ==
  ASSUME NEW d \in CalendarDate, NEW e \in CalendarDate, MonthOf(d) < MonthOf(e)
  PROVE  d < e
<1>1. /\ MonthOf(d) \in Month /\ MonthOf(e) \in Month /\ d \in Int /\ e \in Int
      /\ d < FirstDay[MonthOf(d) + 1] /\ FirstDay[MonthOf(e)] <= e
  BY MonthOfDate DEF CalendarDate
<1>2. /\ MonthOf(d) + 1 \in 0..(LastMonth + 1) /\ MonthOf(e) \in 0..(LastMonth + 1)
      /\ FirstDay[MonthOf(d) + 1] \in Nat /\ FirstDay[MonthOf(e)] \in Nat
  BY <1>1, Calendar DEF Month
<1>3. MonthOf(d) + 1 < MonthOf(e) => FirstDay[MonthOf(d) + 1] + 28 <= FirstDay[MonthOf(e)]
  BY <1>2, MonthsInOrder
<1>4. MonthOf(d) \in Nat /\ MonthOf(e) \in Nat
  BY <1>1, Calendar
<1> QED BY <1>1, <1>2, <1>3, <1>4

\* A date moved by at most a weekend, in a month that is not the last.
LEMMA Nudged ==
  ASSUME NEW e \in CalendarDate, MonthOf(e) + 1 \in Month, NEW w \in {e, e + 1, e + 2}
  PROVE  /\ w \in CalendarDate
         /\ MonthOf(w) \in {MonthOf(e), MonthOf(e) + 1}
         /\ DayOf(e) <= 26 => MonthOf(w) = MonthOf(e)
<1> DEFINE m == MonthOf(e)
<1>1. /\ m \in Month /\ FirstDay[m] <= e /\ e < FirstDay[m + 1] /\ e \in Int /\ w \in Int
  BY MonthOfDate DEF CalendarDate
<1>2. /\ FirstDay[m] \in Nat /\ FirstDay[m + 1] \in Nat /\ FirstDay[m + 2] \in Nat
      /\ DaysInMonth(m) \in 28..31 /\ DaysInMonth(m + 1) \in 28..31
      /\ m + 1 + 1 = m + 2 /\ m \in Nat
  <2>1. m + 1 \in Month /\ m + 1 + 1 = m + 2
    BY <1>1, Calendar
  <2> HIDE DEF m
  <2> QED BY <1>1, <2>1, Calendar
<1>3. FirstDay[m + 1] - FirstDay[m] >= 28 /\ FirstDay[m + 2] - FirstDay[m + 1] >= 28
  <2> HIDE DEF m
  <2> QED BY <1>2 DEF DaysInMonth
<1>4. DayOf(e) = e - FirstDay[m] + 1
  BY DEF DayOf
<1>5. m + 1 \in Month
  OBVIOUS
<1> HIDE DEF m
<1>6. CASE w < FirstDay[m + 1]
  <2>1. MonthOf(w) = m
    BY <1>1, <1>2, <1>6, MonthUnique
  <2>2. w - FirstDay[m] + 1 \in 1..DaysInMonth(m) /\ w = DateOf(m, w - FirstDay[m] + 1)
    BY <1>1, <1>2, <1>6 DEF DaysInMonth, DateOf
  <2> QED BY <1>1, <2>1, <2>2, DayOfMonth DEF m
<1>7. CASE ~(w < FirstDay[m + 1])
  <2>1. MonthOf(w) = m + 1 /\ DayOf(e) > 26
    <3>1. FirstDay[m + 1] <= w /\ w < FirstDay[m + 1 + 1]
      BY <1>1, <1>2, <1>3, <1>7
    <3>2. MonthOf(w) = m + 1
      BY <1>1, <1>5, <3>1, MonthUnique
    <3>3. DayOf(e) > 26
      BY <1>1, <1>2, <1>3, <1>4, <1>7
    <3> QED BY <3>2, <3>3
  <2>2. w - FirstDay[m + 1] + 1 \in 1..DaysInMonth(m + 1)
        /\ w = DateOf(m + 1, w - FirstDay[m + 1] + 1)
    BY <1>1, <1>2, <1>3, <1>7 DEF DaysInMonth, DateOf
  <2>3. DayOf(e) \in Int
    BY <1>1, <1>2, <1>4
  <2> QED BY <1>5, <2>1, <2>2, <2>3, DayOfMonth DEF m
<1> QED BY <1>6, <1>7

LEMMA WorkdayFacts ==
  ASSUME NEW e \in Int
  PROVE  Workday(e) \in {e, e + 1, e + 2} /\ ~Weekend(Workday(e))
<1>1. e % 7 \in 0..6
  OBVIOUS
<1>2. CASE e % 7 >= 5
  <2>1. e % 7 = 5 \/ e % 7 = 6
    BY <1>1, <1>2
  <2>2. Workday(e) = e + (7 - (e % 7)) /\ Workday(e) \in {e + 1, e + 2}
    BY <2>1 DEF Workday, Weekend, Weekday
  <2>3. (e + (7 - (e % 7))) % 7 = 0
    BY <2>1
  <2> QED BY <2>2, <2>3 DEF Weekend, Weekday
<1>3. CASE ~(e % 7 >= 5)
  BY <1>3 DEF Workday, Weekend, Weekday
<1> QED BY <1>2, <1>3

\* A step by months, before weekends are looked at.
LEMMA MonthStepFacts ==
  ASSUME NEW r \in ScheduleRule, NEW d \in CalendarDate, InCalendar(r, d), r.unit \in {"month", "year"}
  PROVE  LET e == PlainNext(r, d) IN
         /\ e \in CalendarDate /\ d < e
         /\ MonthOf(e) + 1 \in Month
         /\ r.policy # "skip" => MonthOf(e) = MonthOf(d) + Period(r)
         /\ r.policy = "skip" => /\ MonthOf(e) <= MonthOf(d) + Period(r) + 1
                                 /\ DesiredDay(r, d) <= DaysInMonth(MonthOf(e))
         /\ DayOf(e) = Lesser(DesiredDay(r, d), DaysInMonth(MonthOf(e)))
<1> DEFINE day == DesiredDay(r, d)
           m == MonthsLater(d, MonthStep(r), day, r.policy)
           e == PlainNext(r, d)
<1>1. MonthStep(r) = Period(r) /\ MonthStep(r) \in Nat \ {0}
  BY DEF ScheduleRule, MonthStep, Period
<1>2. day \in 1..31
  <2>1. r.anchor \in CalendarDate
    BY DEF ScheduleRule
  <2> QED BY <2>1, DayInMonth DEF DesiredDay
<1>3. MonthOf(d) \in Month /\ MonthOf(d) + MonthStep(r) + 2 <= LastMonth
  BY MonthOfDate DEF InCalendar
<1>4. /\ m \in Month /\ m + 1 \in Month
      /\ r.policy # "skip" => m = MonthOf(d) + MonthStep(r)
      /\ r.policy = "skip" => /\ m \in {MonthOf(d) + MonthStep(r), MonthOf(d) + MonthStep(r) + 1}
                              /\ day <= DaysInMonth(m)
  <2> HIDE DEF day
  <2> QED BY <1>1, <1>2, <1>3, MonthReached
<1>5. e = DateOf(m, Lesser(day, DaysInMonth(m)))
  BY DEF PlainNext, AddMonths
<1> HIDE DEF e, m, day
<1>6. Lesser(day, DaysInMonth(m)) \in 1..DaysInMonth(m)
  BY <1>2, <1>4, Calendar DEF Lesser
<1>7. e \in CalendarDate /\ MonthOf(e) = m /\ DayOf(e) = Lesser(day, DaysInMonth(m))
  BY <1>4, <1>5, <1>6, DayOfMonth
<1>8. MonthOf(d) \in Nat
  BY <1>3, Calendar
<1>9. MonthOf(d) < m /\ m <= MonthOf(d) + Period(r) + 1
  BY <1>1, <1>4, <1>8
<1>10. d < e
  BY <1>7, <1>9, LaterMonthLaterDate
<1> QED BY <1>1, <1>4, <1>7, <1>9, <1>10 DEF e, day

\* A step by days or weeks, and any of the two days after it, is in the calendar.
LEMMA DayStepFacts ==
  ASSUME NEW r \in ScheduleRule, NEW d \in CalendarDate, InCalendar(r, d), r.unit \in {"day", "week"},
         NEW n \in {PlainNext(r, d), PlainNext(r, d) + 1, PlainNext(r, d) + 2}
  PROVE  n \in CalendarDate /\ d < n /\ n <= d + 7 * r.count + 2
         /\ (r.unit = "day" => n <= d + r.count + 2)
<1>1. r.count \in Nat \ {0} /\ d \in Int
  BY DEF ScheduleRule, CalendarDate
<1>2. PlainNext(r, d) = IF r.unit = "day" THEN d + r.count ELSE d + 7 * r.count
  BY DEF PlainNext
<1>3. d < n /\ n <= d + 7 * r.count + 2 /\ (r.unit = "day" => n <= d + r.count + 2) /\ n \in Int
  BY <1>1, <1>2
<1>4. d + 7 * r.count + 2 \in CalendarDate
  BY DEF InCalendar
<1>5. FirstDay[0] \in Int /\ FirstDay[LastMonth + 1] \in Int
  BY ScheduleAssumption
<1> QED BY <1>1, <1>3, <1>4, <1>5 DEF CalendarDate

\* Everything the properties say of one step.
LEMMA NextDateFacts ==
  ASSUME NEW r \in ScheduleRule, NEW d \in CalendarDate, InCalendar(r, d)
  PROVE  LET n == NextDate(r, d) IN
         /\ n \in CalendarDate
         /\ Later(r, d, n)
         /\ OnTheDay(r, d, n)
         /\ OncePerPeriod(r, d, n)
         /\ OnWorkday(r, d, n)
<1> DEFINE e == PlainNext(r, d)
           n == NextDate(r, d)
<1>1. e \in Int
  <2>1. CASE r.unit \in {"month", "year"}
    BY <2>1, MonthStepFacts DEF CalendarDate
  <2>2. CASE r.unit \in {"day", "week"}
    BY <2>2, DayStepFacts DEF CalendarDate
  <2> QED BY <2>1, <2>2 DEF ScheduleRule
<1>2. /\ n \in {e, e + 1, e + 2}
      /\ ~r.skip_weekends => n = e
      /\ OnWorkday(r, d, n)
  BY <1>1, WorkdayFacts DEF NextDate, OnWorkday
<1>3. CASE r.unit \in {"month", "year"}
  <2>1. /\ e \in CalendarDate /\ d < e
        /\ MonthOf(e) + 1 \in Month
        /\ r.policy # "skip" => MonthOf(e) = MonthOf(d) + Period(r)
        /\ r.policy = "skip" => /\ MonthOf(e) <= MonthOf(d) + Period(r) + 1
                                /\ DesiredDay(r, d) <= DaysInMonth(MonthOf(e))
        /\ DayOf(e) = Lesser(DesiredDay(r, d), DaysInMonth(MonthOf(e)))
    BY <1>3, MonthStepFacts
  <2> HIDE DEF e, n
  <2>2. /\ n \in CalendarDate
        /\ MonthOf(n) \in {MonthOf(e), MonthOf(e) + 1}
        /\ DayOf(e) <= 26 => MonthOf(n) = MonthOf(e)
    BY <1>2, <2>1, Nudged
  <2>3. /\ MonthOf(d) \in Nat /\ MonthOf(e) \in Nat /\ Period(r) \in Nat
        /\ d \in Int /\ e \in Int /\ d < n
    <3>1. Period(r) \in Nat
      BY DEF Period, ScheduleRule
    <3>2. MonthOf(d) \in Month /\ MonthOf(e) \in Month /\ d \in Int /\ e \in Int
      BY <2>1, MonthOfDate DEF CalendarDate
    <3> QED BY <1>2, <2>1, <3>1, <3>2, Calendar
  <2>4. /\ DesiredDay(r, d) \in Nat /\ DayOf(r.anchor) \in Nat
        /\ DaysInMonth(MonthOf(e)) \in 28..31
    <3>1. r.anchor \in CalendarDate /\ MonthOf(e) \in Month
      BY <2>1, MonthOfDate DEF ScheduleRule
    <3> QED BY <3>1, DayInMonth, Calendar DEF DesiredDay
  <2>5. Later(r, d, n)
    <3>1. MonthOf(n) <= MonthOf(d) + Period(r)
                     + (IF r.policy = "skip" THEN 1 ELSE 0)
                     + (IF r.skip_weekends THEN 1 ELSE 0)
      BY <1>2, <2>1, <2>2, <2>3
    <3> QED BY <1>3, <2>3, <3>1 DEF Later
  <2>6. OnTheDay(r, d, n)
    <3>1. SUFFICES ASSUME ~r.skip_weekends PROVE OnTheDay(r, d, n)
      BY DEF OnTheDay
    <3>2. n = e
      BY <1>2, <3>1
    <3>3. r.policy = "skip" => DayOf(e) = DesiredDay(r, d)
      BY <2>1, <2>4 DEF Lesser
    <3> QED BY <2>1, <3>2, <3>3 DEF OnTheDay, DesiredDay
  <2>7. OncePerPeriod(r, d, n)
    <3>1. CASE ~r.skip_weekends
      BY <1>2, <2>1, <3>1 DEF OncePerPeriod
    <3>2. CASE r.policy = "snap_to_end" /\ DayOf(r.anchor) <= 26
      <4>1. DesiredDay(r, d) = DayOf(r.anchor)
        BY <3>2 DEF DesiredDay
      <4>2. DayOf(e) <= 26
        BY <2>1, <2>4, <3>2, <4>1 DEF Lesser
      <4> QED BY <2>1, <2>2, <3>2, <4>2 DEF OncePerPeriod
    <3> QED BY <3>1, <3>2 DEF OncePerPeriod
  <2> QED BY <1>2, <2>2, <2>5, <2>6, <2>7 DEF n
<1>4. CASE r.unit \in {"day", "week"}
  <2>1. n \in CalendarDate /\ d < n /\ n <= d + 7 * r.count + 2
        /\ (r.unit = "day" => n <= d + r.count + 2)
    BY <1>2, <1>4, DayStepFacts
  <2> QED BY <1>2, <1>4, <2>1 DEF Later, OnTheDay, OncePerPeriod
<1> QED BY <1>3, <1>4 DEF ScheduleRule

-----------------------------------------------------------------------------
(* The theorems.                                                           *)

LEMMA InitType == ScheduleInit => ScheduleTypeOK
<1>1. ScheduleInput \subseteq ScheduleRule /\ MaxReschedules \in Nat
  BY ScheduleAssumption
<1> QED BY <1>1 DEF ScheduleInit, ScheduleTypeOK, ScheduleRule

LEMMA NextType == ScheduleTypeOK /\ [ScheduleNext]_scheduleVars => ScheduleTypeOK'
<1> SUFFICES ASSUME ScheduleTypeOK, [ScheduleNext]_scheduleVars PROVE ScheduleTypeOK'
  OBVIOUS
<1>1. CASE Advance
  <2>1. rule \in ScheduleRule /\ next \in CalendarDate /\ InCalendar(rule, next)
    BY <1>1 DEF ScheduleTypeOK, Advance
  <2>2. NextDate(rule, next) \in CalendarDate
    BY <2>1, NextDateFacts
  <2> QED BY <1>1, <2>2 DEF ScheduleTypeOK, Advance
<1>2. ASSUME NEW row \in ScheduleInput, Update(row)
      PROVE  ScheduleTypeOK'
  <2>1. row \in ScheduleRule /\ row.anchor \in CalendarDate /\ MaxReschedules \in Nat
    BY ScheduleAssumption DEF ScheduleRule
  <2>2. reschedules' \in 0..MaxReschedules
    BY <1>2, <2>1 DEF ScheduleTypeOK, Update
  <2> QED BY <1>2, <2>1, <2>2 DEF ScheduleTypeOK, Update
<1>3. CASE UNCHANGED scheduleVars
  BY <1>3 DEF ScheduleTypeOK, scheduleVars
<1> QED BY <1>1, <1>2, <1>3 DEF ScheduleNext

\* A rule's next occurrence is always a date of the calendar (calculate_next_date).
THEOREM ScheduleType == ScheduleSpec => []ScheduleTypeOK
<1> QED BY InitType, NextType, PTL DEF ScheduleSpec

LEMMA TypeImpliesLater == ScheduleTypeOK => AlwaysLater
BY NextDateFacts DEF ScheduleTypeOK, AlwaysLater

\* From whatever date a rule has reached, the next one is later, and no further away
\* than its interval, a short month and a weekend explain: the loop of catch_up_rule
\* makes progress, in every calendar.
THEOREM ScheduleAlwaysLater == ScheduleSpec => []AlwaysLater
<1> QED BY ScheduleType, TypeImpliesLater, PTL

LEMMA AdvanceFacts ==
  ASSUME ScheduleTypeOK, Advance
  PROVE  /\ OnTheDay(rule, next, next')
         /\ OncePerPeriod(rule, next, next')
         /\ OnWorkday(rule, next, next')
BY NextDateFacts DEF ScheduleTypeOK, Advance

\* A rule comes back to the day it asks for after every short month (_add_months).
THEOREM ScheduleKeepsTheDay == ScheduleSpec => KeepsTheDay
<1>1. ScheduleTypeOK => [Advance => OnTheDay(rule, next, next')]_scheduleVars
  BY AdvanceFacts
<1> QED BY <1>1, ScheduleType, PTL DEF KeepsTheDay

\* No month of a rule's interval is left out, and none is visited twice.
THEOREM ScheduleEveryPeriodOnce == ScheduleSpec => EveryPeriodOnce
<1>1. ScheduleTypeOK => [Advance => OncePerPeriod(rule, next, next')]_scheduleVars
  BY AdvanceFacts
<1> QED BY <1>1, ScheduleType, PTL DEF EveryPeriodOnce

\* Nothing is due on a weekend, if weekends are skipped.
THEOREM ScheduleWorkdaysOnly == ScheduleSpec => WorkdaysOnly
<1>1. ScheduleTypeOK => [Advance => OnWorkday(rule, next, next')]_scheduleVars
  BY AdvanceFacts
<1> QED BY <1>1, ScheduleType, PTL DEF WorkdaysOnly
=============================================================================
