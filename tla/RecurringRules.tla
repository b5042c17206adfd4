--------------------------- MODULE RecurringRules ---------------------------
(***************************************************************************)
(* Recurring rules and the catch-up runs that post their due occurrences   *)
(* (recurrence/engine.py, RecurringRuleService).  Runs start at boot, every*)
(* hour, at 03:15 and on an administrator's request, each in a thread and  *)
(* session of its own, so several may overlap with each other and with a   *)
(* user editing the rules.                                                 *)
(*                                                                         *)
(* What interleaves is decided by SQLite under the session:                *)
(*  - Outside a transaction, SAVEPOINT opens one and its RELEASE commits   *)
(*    it, so a run's first occurrence is committed alone.  Undoing the     *)
(*    savepoint leaves the transaction, and the snapshot it reads, open.   *)
(*  - A transaction that has read cannot write once another connection     *)
(*    committed: its snapshot is stale and the write fails at once.        *)
(*  - From the UPDATE of next_occurrence, flushed before the next          *)
(*    savepoint, the run holds the write lock until it commits: the rest   *)
(*    of the run is one step here.                                         *)
(*  - An exchange rate is stored through a second connection.              *)
(*                                                                         *)
(* A date is the number of a day and a rule posts daily; which dates a     *)
(* rule really visits is the subject of module Schedule.  A posted         *)
(* transaction is known by its rule and occurrence date, which are unique  *)
(* together.                                                               *)
(***************************************************************************)
EXTENDS Integers, Sequences, FiniteSets, SequencesExt, Functions

CONSTANTS
  RuleId,         \* recurring rules
  UsdRule,        \* those in dollars, which need an exchange rate per date
  JobId,          \* catch-up runs that can be under way at once
  MaxIterations,  \* occurrences a run posts of one rule (365 in the code)
  MaxDate,        \* BOUND: the last day
  RuleInput,      \* rows a user submits
  MaxEdits        \* BOUND: edits by users and crashes, in total

ASSUME RecurringAssumption ==
  /\ IsFiniteSet(RuleId) /\ UsdRule \subseteq RuleId
  /\ MaxIterations \in Nat \ {0} /\ MaxDate \in Nat \ {0} /\ MaxEdits \in Nat

VARIABLES
  rules,   \* recurring_rules: id -> row
  rows,    \* transactions of rules: <<rule, date>> -> live, trash or purged
  quotes,  \* fx_quote_cache: dates with a stored rate
  today,   \* the local date
  job,     \* the runs: session copies of the rules, and where they are
  stale,   \* runs whose open read snapshot another commit has overtaken
  edits    \* counts towards MaxEdits

vars == <<rules, rows, quotes, today, job, stale, edits>>

Date == 1..MaxDate
Never == MaxDate + 1        \* no end date

RecurringRule ==
  [next : 1..(MaxDate + 1), anchor : Date, end : Date \cup {Never}, auto : BOOLEAN]

ASSUME RuleInputAssumption == RuleInput \subseteq RecurringRule

\* A purged row is no row: the value only remembers that it was posted.
RowState == {"live", "trash", "purged"}

Idle == [pc |-> "idle", queue |-> <<>>, copy |-> <<>>, read |-> <<>>, today |-> 0,
         tx |-> "none", seen |-> FALSE, pending |-> FALSE]

\* pc: idle, at the loop's head, or between the exists query and the insert.
\* queue: the rules left, the current one first.  tx: the transaction open before
\* the current savepoint.  pending: next_occurrence advanced, UPDATE not flushed.
\* read is history: the stored next occurrence of each rule when the run read it, as
\* long as that rule is there.
TypeOK ==
  /\ DOMAIN rules \subseteq RuleId /\ rules \in [DOMAIN rules -> RecurringRule]
  /\ DOMAIN rows \subseteq RuleId \X Date /\ rows \in [DOMAIN rows -> RowState]
  /\ quotes \subseteq Date /\ today \in Date
  /\ stale \subseteq JobId /\ edits \in 0..MaxEdits
  /\ DOMAIN job = JobId
  /\ \A j \in JobId :
       /\ job[j].pc \in {"idle", "loop", "checked"}
       /\ ToSet(job[j].queue) \subseteq DOMAIN job[j].copy
       /\ DOMAIN job[j].copy \subseteq RuleId
       /\ DOMAIN job[j].read \subseteq DOMAIN job[j].copy \cap DOMAIN rules
       /\ job[j].tx \in {"none", "read"}
       /\ <<job[j].seen, job[j].pending>> \in BOOLEAN \X BOOLEAN

-----------------------------------------------------------------------------
\* _post_occurrence's exists query: a row in the trash counts.  Mutant: it does not.
Exists_LiveOnly(o) == o \in DOMAIN rows /\ rows[o] = "live"
Exists(o) == o \in DOMAIN rows /\ rows[o] # "purged"

\* The foreign key and the unique constraint of a posted row.
CanInsert(o) == o[1] \in DOMAIN rules /\ (o \in DOMAIN rows => rows[o] = "purged")

WithRows(O) == [o \in DOMAIN rows \cup O |-> IF o \in O THEN "live" ELSE rows[o]]

Due(copy, r, day) == copy[r].next <= day /\ copy[r].next <= copy[r].end

\* A commit overtakes the open snapshots of all other runs.  Mutant: the exists query
\* runs before the savepoint, so that its answer is no snapshot.
OpenSnapshots_QueryOutside == {j \in JobId : job[j].tx = "read"}
OpenSnapshots == {j \in JobId : job[j].pc = "checked" \/ job[j].tx = "read"}
Overtake(except) == stale' = (stale \cup OpenSnapshots) \ except

-----------------------------------------------------------------------------
(* Users                                                                   *)

\* A run reads the rows with auto_post that are due, in the order of their dates.
DueRules == {r \in DOMAIN rules : rules[r].auto /\ rules[r].next <= today}

InOrder(q) ==
  \A i, k \in 1..Len(q) : i < k => rules[q[i]].next <= rules[q[k]].next

CreateRule(r, row) ==
  /\ r \notin DOMAIN rules
  /\ rules' = [q \in DOMAIN rules \cup {r} |-> IF q = r THEN row ELSE rules[q]]
  /\ Overtake({})
  /\ UNCHANGED <<rows, quotes, today, job, edits>>

\* update: a later anchor takes next_occurrence with it.
UpdateRule(r, row) ==
  /\ rules' = [rules EXCEPT ![r] =
                 [row EXCEPT !.next = IF row.anchor > @ THEN row.anchor ELSE @]]
  /\ Overtake({})
  /\ UNCHANGED <<rows, quotes, today, job>>

ToggleAutoPost(r, auto) ==
  /\ rules' = [rules EXCEPT ![r].auto = auto]
  /\ Overtake({})
  /\ UNCHANGED <<rows, quotes, today, job>>

\* delete: the transactions stay, their origin_rule_id is set to NULL.
DeleteRule(r) ==
  /\ rules' = Restrict(rules, DOMAIN rules \ {r})
  /\ rows' = Restrict(rows, {o \in DOMAIN rows : o[1] # r})
  /\ job' = [j \in JobId |-> [job[j] EXCEPT !.read = Restrict(@, DOMAIN @ \ {r})]]
  /\ Overtake({})
  /\ UNCHANGED <<quotes, today>>

\* Trash, restore and purge of a posted transaction.
MoveRow(o, to) ==
  /\ rows[o] # to /\ rows[o] # "purged"
  /\ to = "purged" => rows[o] = "trash"
  /\ rows' = [rows EXCEPT ![o] = to]
  /\ Overtake({})
  /\ UNCHANGED <<rules, quotes, today, job>>

NextDay ==
  /\ today < MaxDate
  /\ today' = today + 1
  /\ UNCHANGED <<rules, rows, quotes, job, stale, edits>>

-----------------------------------------------------------------------------
(* Catch-up runs                                                           *)

\* post_due_rules reads the due rules.
StartRun(j) ==
  /\ job[j].pc = "idle"
  /\ \E q \in SetToSeqs(DueRules) :
       /\ InOrder(q) /\ q # <<>>
       /\ job' = [job EXCEPT ![j] =
                    [Idle EXCEPT !.pc = "loop", !.queue = q, !.today = today,
                                 !.copy = Restrict(rules, DueRules),
                                 !.read = [r \in DueRules |-> rules[r].next]]]
  /\ stale' = stale \ {j}
  /\ UNCHANGED <<rules, rows, quotes, today, edits>>

EndRun(j) == job' = [job EXCEPT ![j] = Idle]

Current(j) == Head(job[j].queue)
Occurrence(j) == <<Current(j), job[j].copy[Current(j)].next>>

\* The loop of catch_up_rule is over for this rule, nothing is to be written.
NextRule(j) ==
  /\ job[j].pc = "loop" /\ ~job[j].pending /\ job[j].queue # <<>>
  /\ ~Due(job[j].copy, Current(j), job[j].today)
  /\ job' = [job EXCEPT ![j].queue = Tail(@)]
  /\ UNCHANGED <<rules, rows, quotes, today, stale, edits>>

\* No rule is left: the commit writes nothing.
FinishIdle(j) ==
  /\ job[j].pc = "loop" /\ ~job[j].pending /\ job[j].queue = <<>>
  /\ EndRun(j) /\ stale' = stale \ {j}
  /\ UNCHANGED <<rules, rows, quotes, today, edits>>

\* SAVEPOINT and the exists query, which takes the snapshot if none is open.
Check(j) ==
  /\ job[j].pc = "loop" /\ ~job[j].pending /\ job[j].queue # <<>>
  /\ Due(job[j].copy, Current(j), job[j].today)
  /\ job[j].tx = "read" => j \notin stale
  /\ job' = [job EXCEPT ![j].pc = "checked", ![j].seen = Exists(Occurrence(j))]
  /\ stale' = stale \ {j}
  /\ UNCHANGED <<rules, rows, quotes, today, edits>>

NeedsQuote(o) == o[1] \in UsdRule /\ o[2] \notin quotes

\* A snapshot was overtaken while it was held open across savepoints: every insert
\* and every UPDATE left in this run fails.  All it still does is to store rates.
Abandon(j) ==
  /\ job[j].pc = "loop" /\ job[j].tx = "read" /\ j \in stale
  /\ job[j].queue # <<>> \/ job[j].pending
  /\ LET left == {r \in ToSet(job[j].queue) :
                   Due(job[j].copy, r, job[j].today) /\ NeedsQuote(<<r, job[j].copy[r].next>>)}
     IN \E D \in SUBSET {job[j].copy[r].next : r \in left} :
          /\ quotes' = quotes \cup D
          /\ IF D = {} THEN stale' = stale \ {j} ELSE Overtake({j})
  /\ EndRun(j)
  /\ UNCHANGED <<rules, rows, today, edits>>

Advanced(j) ==
  [job[j] EXCEPT !.pc = "loop", !.pending = TRUE, !.copy[Current(j)].next = @ + 1]

\* The occurrence is there already: RELEASE commits nothing.
SkipPosted(j) ==
  /\ job[j].pc = "checked" /\ job[j].seen
  /\ job' = [job EXCEPT ![j] = Advanced(j)]
  /\ stale' = IF job[j].tx = "none" THEN stale \ {j} ELSE stale
  /\ UNCHANGED <<rules, rows, quotes, today, edits>>

\* The savepoint is undone and the loop of this rule left; the transaction and its
\* snapshot stay open.  Mutant: the failure is logged and the loop goes on.
Undone_Advances(j) == [Advanced(j) EXCEPT !.tx = "read"]
Undone(j) == [job[j] EXCEPT !.pc = "loop", !.queue = Tail(@), !.tx = "read"]

\* The provider answers: the rate is stored through another connection, which
\* overtakes this run's own snapshot, so the insert fails.
FetchQuote(j) ==
  /\ job[j].pc = "checked" /\ ~job[j].seen /\ NeedsQuote(Occurrence(j))
  /\ quotes' = quotes \cup {job[j].copy[Current(j)].next}
  /\ job' = [job EXCEPT ![j] = Undone(j)]
  /\ Overtake({})
  /\ UNCHANGED <<rules, rows, today, edits>>

\* The provider does not answer: RuntimeError.
FetchFails(j) ==
  /\ job[j].pc = "checked" /\ ~job[j].seen /\ NeedsQuote(Occurrence(j))
  /\ job' = [job EXCEPT ![j] = Undone(j)]
  /\ UNCHANGED <<rules, rows, quotes, today, stale, edits>>

\* Another connection committed since the exists query: database is locked.
InsertStale(j) ==
  /\ job[j].pc = "checked" /\ ~job[j].seen /\ ~NeedsQuote(Occurrence(j)) /\ j \in stale
  /\ job' = [job EXCEPT ![j] = Undone(j)]
  /\ UNCHANGED <<rules, rows, quotes, today, stale, edits>>

\* The insert in a transaction of its own: RELEASE commits it.
InsertAlone(j) ==
  /\ job[j].pc = "checked" /\ ~job[j].seen /\ ~NeedsQuote(Occurrence(j)) /\ j \notin stale
  /\ job[j].tx = "none"
  /\ CanInsert(Occurrence(j))
  /\ rows' = WithRows({Occurrence(j)})
  /\ job' = [job EXCEPT ![j] = Advanced(j)]
  /\ Overtake({j})
  /\ UNCHANGED <<rules, quotes, today, edits>>

-----------------------------------------------------------------------------
(* The rest of a run, under the write lock                                 *)

\* What ends the loop of catch_up_rule at date d.  A rate that is not stored cannot
\* be stored now: the second connection waits for this run's own lock and gives up.
\* Mutant: a failed insert advances the rule all the same.
Blocked_Ignored(r, d) == FALSE
Blocked(r, d) == ~Exists(<<r, d>>) /\ (NeedsQuote(<<r, d>>) \/ ~CanInsert(<<r, d>>))

\* catch_up_rule: the date of rule r after at most budget iterations, the first one
\* from its next date on at which the loop is over.
Reached(copy, r, day, budget) ==
  LET from == copy[r].next
      Over(d) == d = from + budget \/ d > day \/ d > copy[r].end \/ Blocked(r, d)
  IN Min({d \in from..(from + budget) : Over(d)})

\* The rest of the run over the rules of q, where first says how many iterations
\* the first of them has left and flushed which UPDATE is already due.  An UPDATE of
\* a rule that was deleted meanwhile fails the whole run.
RunRest(j, q, first, flushed) ==
  LET R         == ToSet(q)
      copy      == job[j].copy
      to        == [r \in R |-> Reached(copy, r, job[j].today,
                                        IF r = Head(q) THEN first ELSE MaxIterations)]
      updated   == flushed \cup {r \in R : to[r] # copy[r].next}
      passed    == {o \in R \X Date : copy[o[1]].next <= o[2] /\ o[2] < to[o[1]]}
  IN /\ IF updated \subseteq DOMAIN rules
          THEN /\ rules' = [r \in DOMAIN rules |->
                              IF r \in updated THEN [rules[r] EXCEPT !.next = to[r]]
                                               ELSE rules[r]]
               /\ rows' = WithRows({o \in passed : /\ ~Exists(o) /\ ~NeedsQuote(o)
                                                   /\ CanInsert(o)})
          ELSE UNCHANGED <<rules, rows>>
     /\ EndRun(j)
     /\ Overtake({j})
     /\ UNCHANGED <<quotes, today, edits>>

\* The flush of an advanced next_occurrence takes the lock.
FlushAndFinish(j) ==
  /\ job[j].pc = "loop" /\ job[j].pending
  /\ job[j].tx = "read" => j \notin stale
  /\ RunRest(j, job[j].queue, MaxIterations - 1, {Current(j)})

\* An insert in the transaction an undone savepoint left open takes it.
InsertAndFinish(j) ==
  /\ job[j].pc = "checked" /\ ~job[j].seen /\ ~NeedsQuote(Occurrence(j)) /\ j \notin stale
  /\ job[j].tx = "read" /\ CanInsert(Occurrence(j))
  /\ RunRest(j, job[j].queue, MaxIterations, {})

\* So does an insert the constraints refuse; the loop goes on with the next rule.
RefusedAndFinish(j) ==
  /\ job[j].pc = "checked" /\ ~job[j].seen /\ ~NeedsQuote(Occurrence(j)) /\ j \notin stale
  /\ ~CanInsert(Occurrence(j))
  /\ RunRest(j, Tail(job[j].queue), MaxIterations, {})

\* The process dies: what was not committed is gone.
Crash(j) ==
  /\ job[j].pc # "idle"
  /\ EndRun(j) /\ stale' = stale \ {j}
  /\ UNCHANGED <<rules, rows, quotes, today>>

-----------------------------------------------------------------------------
Init ==
  /\ rules = <<>> /\ rows = <<>> /\ quotes = {} /\ today = 1
  /\ job = [j \in JobId |-> Idle] /\ stale = {} /\ edits = 0

UserEdit ==
  \/ \E r \in DOMAIN rules, row \in RuleInput : UpdateRule(r, row)
  \/ \E r \in DOMAIN rules, auto \in BOOLEAN : ToggleAutoPost(r, auto)
  \/ \E r \in DOMAIN rules : DeleteRule(r)
  \/ \E o \in DOMAIN rows, to \in RowState : MoveRow(o, to)

RunStep(j) ==
  \/ StartRun(j) \/ NextRule(j) \/ FinishIdle(j) \/ Check(j) \/ Abandon(j)
  \/ SkipPosted(j) \/ FetchQuote(j) \/ InsertStale(j) \/ InsertAlone(j)
  \/ FlushAndFinish(j) \/ InsertAndFinish(j) \/ RefusedAndFinish(j)

Next ==
  \/ \E r \in RuleId, row \in RuleInput : CreateRule(r, row)
  \/ NextDay
  \/ /\ edits < MaxEdits /\ edits' = edits + 1
     /\ UserEdit \/ \E j \in JobId : Crash(j)
  \/ \E j \in JobId : RunStep(j) \/ FetchFails(j)

Spec == Init /\ [][Next]_vars

\* The hourly job starts again and again and a started run goes on; the provider is
\* not down every time it is asked.
Fairness == \A j \in JobId : WF_vars(RunStep(j) \/ FetchFails(j)) /\ SF_vars(FetchQuote(j))

FairSpec == Spec /\ Fairness

-----------------------------------------------------------------------------
(* Properties                                                              *)

\* From the next occurrence a run found stored, the first it tries included, to the
\* one it leaves stored, every occurrence was posted, whatever failed on the way: a
\* missing rate, a refused or stale insert, a lost lock.
NothingSkipped ==
  [][\A j \in JobId : \A r \in DOMAIN job[j].read :
       (/\ job[j].pc # "idle" /\ job'[j] = Idle
        /\ r \in DOMAIN rules' /\ rules'[r].next # rules[r].next)
       => \A d \in Date : job[j].read[r] <= d /\ d < rules'[r].next
            => <<r, d>> \in DOMAIN rows']_vars

\* What the exists query answered still holds when a run inserts, whoever posted,
\* trashed, restored or purged the occurrence since: a run that could insert twice
\* was overtaken and cannot write.  The unique constraint is never what stops it.
ExistsAnswerHolds ==
  \A j \in JobId : job[j].pc = "checked" /\ j \notin stale
    => job[j].seen = Exists(Occurrence(j))

CaughtUp(r) ==
  \/ r \notin DOMAIN rules \/ ~rules[r].auto
  \/ rules[r].next > today \/ rules[r].next > rules[r].end

\* However runs overlap, fail and crash, every due occurrence is posted in the end:
\* no rule is stuck behind a row in the trash, a deleted rule or a stale snapshot.
EventuallyCaughtUp == \A r \in RuleId : []<>CaughtUp(r)

\* A user who moves a schedule to a later start is obeyed: "a later start must not
\* leave an earlier next occurrence for catch-up to post" (RecurringRuleService.update).
StartRespected ==
  [][\A r \in DOMAIN rules \cap DOMAIN rules' :
       rules[r].next >= rules[r].anchor => rules'[r].next >= rules'[r].anchor]_vars

=============================================================================
