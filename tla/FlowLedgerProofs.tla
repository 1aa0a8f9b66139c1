-------------------------- MODULE FlowLedgerProofs --------------------------
(***************************************************************************)
(* What the rewrites of FlowLedger do.  The first lemmas say, row by row,  *)
(* that a rewrite returns a Database and what the status, state or         *)
(* assignment columns of the result are; the proofs about ParallelBundle   *)
(* cite these facts and never expand a rewrite again.  Then come the       *)
(* relations between a database and the next that most rewrites satisfy    *)
(* and that compose: Keeps, Calm, Steady, Spares, Records and TakesOnly.   *)
(***************************************************************************)
EXTENDS FlowLedger, TLAPS, FiniteSetTheorems

TerminalStatus == {"none", "failed", "cancelled"}

\* The empty database of Init is well typed.
LEMMA EmptyDatabaseType == EmptyDatabase \in Database
BY NullAssumption DEF EmptyDatabase, Database, RunRow, FanRow, TaskRow, WorkerRow

\* abort() turns an abortable ledger into an aborting one, fences its tasks
\* and touches neither flow_runs nor flow_workers.
AbortEffect(d, R, e) ==
  /\ e \in Database
  /\ e.run = d.run /\ e.wk = d.wk
  /\ \A r \in Runs :
       /\ e.fan[r].state = IF r \in R /\ Abortable(d, r) THEN "aborting" ELSE d.fan[r].state
       /\ e.fan[r].sqlStarted = d.fan[r].sqlStarted
  /\ \A t \in Tasks : e.task[t].state =
       IF RunOf[t] \in R /\ Abortable(d, RunOf[t])
       THEN FencedState(d.task[t].state) ELSE d.task[t].state
  /\ \A f \in Flows : e.recon[f] <=>
       d.recon[f] \/ \E r \in R : Abortable(d, r) /\ FlowOf[r] = f /\ SqlUncertain(d, r)

\* What abort() writes, row by row: the effect above is what the operator computes.
LEMMA AbortRows ==
  ASSUME NEW d \in Database, NEW R \in SUBSET Runs,
         NEW terminal \in TerminalStatus, NEW stopped \in BOOLEAN
  PROVE  AbortEffect(d, R, Abort(d, R, terminal, stopped))
<1> DEFINE A == {r \in R : Abortable(d, r)}
           fan == [r \in Runs |-> IF r \notin A THEN d.fan[r] ELSE
                    [d.fan[r] EXCEPT !.state = "aborting",
                                     !.stopped = @ \/ stopped,
                                     !.terminal = IF @ = "none" THEN terminal ELSE @,
                                     !.deadline = IF @ = "unset" THEN "set" ELSE @]]
           task == [t \in Tasks |-> IF RunOf[t] \notin A THEN d.task[t] ELSE
                     [d.task[t] EXCEPT !.state = FencedState(@)]]
           recon == [f \in Flows |->
                      d.recon[f] \/ \E r \in A : FlowOf[r] = f /\ SqlUncertain(d, r)]
           e == Abort(d, R, terminal, stopped)
<1>1. e = [d EXCEPT !.fan = fan, !.task = task, !.recon = recon]
  BY DEF Abort
<1>2. fan \in [Runs -> FanRow]
  <2> SUFFICES ASSUME NEW r \in Runs PROVE fan[r] \in FanRow
    OBVIOUS
  <2>1. d.fan[r] \in FanRow
    BY DEF Database
  <2>2. CASE r \notin A
    BY <2>1, <2>2
  <2>3. CASE r \in A
    <3> DEFINE row == d.fan[r]
               halted == row.stopped \/ stopped
               ending == IF row.terminal = "none" THEN terminal ELSE row.terminal
               limit == IF row.deadline = "unset" THEN "set" ELSE row.deadline
    <3>1. halted \in BOOLEAN
      OBVIOUS
    <3>2. ending \in TerminalStatus /\ limit \in {"unset", "set", "passed"}
      BY <2>1 DEF FanRow, TerminalStatus
    <3>3. fan[r] = [row EXCEPT !.state = "aborting", !.stopped = halted,
                               !.terminal = ending, !.deadline = limit]
      BY <2>3
    <3> HIDE DEF fan, halted, ending, limit
    <3> QED
      BY <2>1, <3>1, <3>2, <3>3 DEF FanRow, TerminalStatus
  <2> QED
    BY <2>2, <2>3
<1>3. task \in [Tasks -> TaskRow]
  BY DEF Database, TaskRow, FencedState, TaskActive, TaskTerminal
<1>4. recon \in [Flows -> BOOLEAN]
  BY DEF Database
<1>5. /\ e \in Database /\ e.run = d.run /\ e.wk = d.wk
      /\ e.fan = fan /\ e.task = task /\ e.recon = recon
  BY <1>1, <1>2, <1>3, <1>4 DEF Database
<1>6. \A r \in Runs : /\ fan[r].state =
                           IF r \in R /\ Abortable(d, r) THEN "aborting" ELSE d.fan[r].state
                      /\ fan[r].sqlStarted = d.fan[r].sqlStarted
  BY DEF Database, FanRow
<1>7. \A t \in Tasks : task[t].state =
        IF RunOf[t] \in R /\ Abortable(d, RunOf[t])
        THEN FencedState(d.task[t].state) ELSE d.task[t].state
  BY DEF Database, TaskRow
<1> QED
  BY <1>5, <1>6, <1>7 DEF AbortEffect

\* finish_aborted() ends exactly the runs whose ledger is aborting and drained.
FinishAbortedEffect(d, R, e) ==
  /\ e \in Database
  /\ e.task = d.task /\ e.recon = d.recon
  /\ \A r \in Runs :
       IF r \in R /\ Finishable(d, r)
       THEN e.run[r].status \in {"failed", "cancelled"} /\ e.fan[r].state = "complete"
       ELSE e.run[r].status = d.run[r].status /\ e.fan[r].state = d.fan[r].state
  /\ \A r \in Runs : /\ e.run[r].sqlComplete = d.run[r].sqlComplete
                     /\ e.fan[r].sqlStarted = d.fan[r].sqlStarted

\* What finish_aborted() writes, row by row.
LEMMA FinishAbortedRows ==
  ASSUME NEW d \in Database, NEW R \in SUBSET Runs
  PROVE  FinishAbortedEffect(d, R, FinishAborted(d, R))
<1> DEFINE F == {r \in R : Finishable(d, r)}
           run == [r \in Runs |-> IF r \notin F THEN d.run[r] ELSE
                    [d.run[r] EXCEPT !.status = IF d.fan[r].terminal = "none" THEN "failed"
                                                ELSE d.fan[r].terminal]]
           fan == [r \in Runs |-> IF r \notin F THEN d.fan[r] ELSE
                    [d.fan[r] EXCEPT !.state = "complete"]]
           wk == [w \in Workers |-> IF d.wk[w].run \notin F THEN d.wk[w] ELSE
                    [d.wk[w] EXCEPT !.run = NoRun, !.task = NoTask]]
           e == FinishAborted(d, R)
<1>1. e = [d EXCEPT !.run = run, !.fan = fan, !.wk = wk]
  BY DEF FinishAborted
<1>2. run \in [Runs -> RunRow]
  BY DEF Database, RunRow, FanRow, RunTerminal
<1>3. fan \in [Runs -> FanRow]
  BY DEF Database, FanRow
<1>4. wk \in [Workers -> WorkerRow]
  <2> SUFFICES ASSUME NEW w \in Workers PROVE wk[w] \in WorkerRow
    OBVIOUS
  <2>1. d.wk[w] \in WorkerRow
    BY DEF Database
  <2>2. [d.wk[w] EXCEPT !.run = NoRun, !.task = NoTask] \in WorkerRow
    BY <2>1 DEF WorkerRow
  <2> QED
    BY <2>1, <2>2
<1>5. /\ e \in Database /\ e.task = d.task /\ e.recon = d.recon
      /\ e.run = run /\ e.fan = fan
  BY <1>1, <1>2, <1>3, <1>4 DEF Database
<1>6. \A r \in Runs :
        IF r \in R /\ Finishable(d, r)
        THEN run[r].status \in {"failed", "cancelled"} /\ fan[r].state = "complete"
        ELSE run[r].status = d.run[r].status /\ fan[r].state = d.fan[r].state
  BY DEF Database, RunRow, FanRow
<1>7. \A r \in Runs : /\ run[r].sqlComplete = d.run[r].sqlComplete
                      /\ fan[r].sqlStarted = d.fan[r].sqlStarted
  BY DEF Database, RunRow, FanRow
<1> QED
  BY <1>5, <1>6, <1>7 DEF FinishAbortedEffect

\* The first loop of reap() closes the expired active tasks and nothing else.
CloseExpiredEffect(d, e) ==
  /\ e \in Database
  /\ e.run = d.run /\ e.fan = d.fan /\ e.recon = d.recon
  /\ \A t \in Tasks : e.task[t].state =
       IF t \notin ExpiredTasks(d) THEN d.task[t].state
       ELSE IF d.task[t].state = "claimed" THEN "failed" ELSE "cancelled"

\* What the first loop of reap() writes, row by row.
LEMMA CloseExpiredRows ==
  ASSUME NEW d \in Database
  PROVE  CloseExpiredEffect(d, CloseExpired(d))
<1> DEFINE E == ExpiredTasks(d)
           task == [t \in Tasks |-> IF t \notin E THEN d.task[t] ELSE
                     [d.task[t] EXCEPT !.state = IF @ = "claimed" THEN "failed" ELSE "cancelled"]]
           wk == [w \in Workers |->
                   IF d.wk[w].task \notin E \/ d.task[d.wk[w].task].worker # w THEN d.wk[w]
                   ELSE [d.wk[w] EXCEPT !.task = NoTask]]
           e == CloseExpired(d)
<1>1. e = [d EXCEPT !.task = task, !.wk = wk]
  BY DEF CloseExpired
<1>2. task \in [Tasks -> TaskRow]
  BY DEF Database, TaskRow, TaskTerminal
<1>3. wk \in [Workers -> WorkerRow]
  BY DEF Database, WorkerRow
<1>4. /\ e \in Database /\ e.task = task
      /\ e.run = d.run /\ e.fan = d.fan /\ e.recon = d.recon
  BY <1>1, <1>2, <1>3 DEF Database
<1>5. \A t \in Tasks : task[t].state =
         IF t \notin E THEN d.task[t].state
         ELSE IF d.task[t].state = "claimed" THEN "failed" ELSE "cancelled"
  BY DEF Database, TaskRow
<1> QED
  BY <1>4, <1>5 DEF CloseExpiredEffect

\* A passed deadline changes coordinator_stopped only.
PassDeadlinesEffect(d, e) ==
  /\ e \in Database
  /\ e.run = d.run /\ e.task = d.task /\ e.wk = d.wk /\ e.recon = d.recon
  /\ \A r \in Runs : /\ e.fan[r].state = d.fan[r].state
                     /\ e.fan[r].sqlStarted = d.fan[r].sqlStarted

\* What the deadline loop of reap() writes, row by row.
LEMMA PassDeadlinesRows ==
  ASSUME NEW d \in Database
  PROVE  PassDeadlinesEffect(d, PassDeadlines(d))
<1> DEFINE fan == [r \in Runs |->
                    IF d.fan[r].state = "aborting" /\ d.fan[r].deadline = "passed"
                    THEN [d.fan[r] EXCEPT !.stopped = TRUE] ELSE d.fan[r]]
           e == PassDeadlines(d)
<1>1. e = [d EXCEPT !.fan = fan]
  BY DEF PassDeadlines
<1>2. fan \in [Runs -> FanRow]
  <2> SUFFICES ASSUME NEW r \in Runs PROVE fan[r] \in FanRow
    OBVIOUS
  <2>1. d.fan[r] \in FanRow
    BY DEF Database
  <2>2. [d.fan[r] EXCEPT !.stopped = TRUE] \in FanRow
    BY <2>1 DEF FanRow
  <2> QED
    BY <2>1, <2>2
<1>3. /\ e \in Database /\ e.fan = fan
      /\ e.run = d.run /\ e.task = d.task /\ e.wk = d.wk /\ e.recon = d.recon
  BY <1>1, <1>2 DEF Database
<1>4. ASSUME NEW r \in Runs
      PROVE  fan[r].state = d.fan[r].state /\ fan[r].sqlStarted = d.fan[r].sqlStarted
  <2>1. d.fan[r] \in FanRow
    BY DEF Database
  <2> QED
    BY <2>1 DEF FanRow
<1> QED
  BY <1>3, <1>4 DEF PassDeadlinesEffect

(***************************************************************************)
(* Ledger invariant.  Every transaction starts and ends in a database that *)
(* satisfies it, so it is stated over a database value and shown of each   *)
(* rewrite in turn.                                                        *)
(***************************************************************************)
\* No task is claimed before initialize, nor outside its run's activity.
TasksInsideRun(d) ==
  /\ \A t \in Tasks : d.task[t].state \in TaskActive =>
       /\ d.run[RunOf[t]].status \in RunActive
       /\ d.fan[RunOf[t]].state \in {"downloading", "aborting"}
  /\ \A t \in Tasks : d.fan[RunOf[t]].state = "none" => d.task[t].state = "none"
\* The ledger is complete exactly when its run has ended.
LedgerEndsWithRun(d) ==
  \A r \in Runs : d.fan[r].state # "none" =>
    (d.fan[r].state = "complete" <=> d.run[r].status \in RunTerminal)
\* A finalizing or successful run has all its exports.
FinalizedIsWhole(d) ==
  \A r \in Runs : d.fan[r].state = "finalizing" \/ d.run[r].status = "succeeded" =>
    d.fan[r].state # "none" /\ AllSucceeded(d, r)
\* A fenced flow has an append that ended, or is about to, inside its load.
FenceHasCause(d) ==
  \A f \in Flows : d.recon[f] =>
    \E r \in Append : /\ FlowOf[r] = f /\ d.fan[r].sqlStarted /\ ~d.run[r].sqlComplete
                      /\ d.fan[r].state \in {"aborting", "complete"}
LedgerInv(d) ==
  /\ d \in Database
  /\ TasksInsideRun(d)
  /\ LedgerEndsWithRun(d)
  /\ FinalizedIsWhole(d)
  /\ FenceHasCause(d)

\* What no transaction takes back.
Keeps(d, e) ==
  /\ \A r \in Runs : d.run[r].status \in RunTerminal => e.run[r].status = d.run[r].status
  /\ \A r \in Runs : d.fan[r].state = "complete" => e.fan[r].state = "complete"
  /\ \A r \in Runs : d.fan[r].state # "none" => e.fan[r].state # "none"
  /\ \A t \in Tasks : d.task[t].state \in TaskTerminal => e.task[t].state = d.task[t].state
\* A rewrite that claims nothing: no task becomes active, no ledger appears.
Quiet(d, e) ==
  /\ \A t \in Tasks : e.task[t].state \in TaskActive => d.task[t].state \in TaskActive
  /\ \A r \in Runs : d.fan[r].state = "none" => e.fan[r].state = "none"

\* Monotonicity composes over the helpers that one transaction calls in turn.
LEMMA KeepsCompose ==
  ASSUME NEW d, NEW e, NEW g, Keeps(d, e), Keeps(e, g)
  PROVE  Keeps(d, g)
BY DEF Keeps

\* So does claiming nothing.
LEMMA QuietCompose ==
  ASSUME NEW d, NEW e, NEW g, Quiet(d, e), Quiet(e, g)
  PROVE  Quiet(d, g)
BY DEF Quiet

\* abort() preserves the ledger invariant from every state of every bundle.
LEMMA AbortKeeps ==
  ASSUME NEW d, LedgerInv(d), NEW R \in SUBSET Runs,
         NEW terminal \in TerminalStatus, NEW stopped \in BOOLEAN
  PROVE  LET e == Abort(d, R, terminal, stopped) IN
         LedgerInv(e) /\ Keeps(d, e) /\ Quiet(d, e)
<1> DEFINE e == Abort(d, R, terminal, stopped)
<1>1. d \in Database
  BY DEF LedgerInv
<1>2. AbortEffect(d, R, e)
  BY <1>1, AbortRows
<1>3. \A r \in Runs : Abortable(d, r) => d.fan[r].state \notin {"none", "complete"}
  BY DEF Abortable
<1>4. \A t \in Tasks : RunOf[t] \in Runs
  BY ShapeAssumption
<1> HIDE DEF e
<1>5. TasksInsideRun(e)
  <2>1. TasksInsideRun(d)
    BY DEF LedgerInv
  <2> QED
    BY <1>2, <1>3, <1>4, <2>1 DEF AbortEffect, TasksInsideRun, FencedState, TaskActive
<1>6. LedgerEndsWithRun(e)
  <2>1. LedgerEndsWithRun(d)
    BY DEF LedgerInv
  <2> QED
    BY <1>2, <1>3, <2>1 DEF AbortEffect, LedgerEndsWithRun
<1>7. FinalizedIsWhole(e)
  <2>1. LedgerEndsWithRun(d) /\ FinalizedIsWhole(d)
    BY DEF LedgerInv
  <2>2. \A t \in Tasks : d.task[t].state = "succeeded" => e.task[t].state = "succeeded"
    BY <1>2 DEF AbortEffect, FencedState
  <2>3. \A r \in Runs : AllSucceeded(d, r) => AllSucceeded(e, r)
    BY <2>2 DEF AllSucceeded, TasksOf
  <2> QED
    BY <1>2, <1>3, <2>1, <2>3 DEF AbortEffect, FinalizedIsWhole, LedgerEndsWithRun, RunTerminal
<1>8. FenceHasCause(e)
  <2> SUFFICES ASSUME NEW f \in Flows, e.recon[f]
               PROVE  \E r \in Append : /\ FlowOf[r] = f /\ e.fan[r].sqlStarted
                                        /\ ~e.run[r].sqlComplete
                                        /\ e.fan[r].state \in {"aborting", "complete"}
    BY DEF FenceHasCause
  <2>1. CASE d.recon[f]
    BY <1>2, <2>1, ShapeAssumption DEF AbortEffect, LedgerInv, FenceHasCause
  <2>2. CASE ~d.recon[f]
    <3>1. PICK r \in R : Abortable(d, r) /\ FlowOf[r] = f /\ SqlUncertain(d, r)
      BY <1>2, <2>2 DEF AbortEffect
    <3>2. r \in Append /\ d.fan[r].sqlStarted /\ ~d.run[r].sqlComplete
      BY <3>1 DEF SqlUncertain, ReconciliationRequired
    <3>3. e.fan[r].state = "aborting"
      BY <1>2, <3>1 DEF AbortEffect
    <3> QED
      BY <1>2, <3>1, <3>2, <3>3 DEF AbortEffect
  <2> QED
    BY <2>1, <2>2
<1>9. Keeps(d, e)
  BY <1>2, <1>3 DEF AbortEffect, Keeps, FencedState, TaskTerminal
<1>10. Quiet(d, e)
  BY <1>2, <1>3 DEF AbortEffect, Quiet, FencedState, TaskActive
<1> QED
  BY <1>2, <1>5, <1>6, <1>7, <1>8, <1>9, <1>10 DEF AbortEffect, LedgerInv, e

\* finish_aborted() preserves it: a drained bundle has no task to orphan, and
\* an aborting one belongs to a run that has not ended.
LEMMA FinishAbortedKeeps ==
  ASSUME NEW d, LedgerInv(d), NEW R \in SUBSET Runs
  PROVE  LET e == FinishAborted(d, R) IN
         LedgerInv(e) /\ Keeps(d, e) /\ Quiet(d, e)
<1> DEFINE e == FinishAborted(d, R)
<1>1. d \in Database /\ TasksInsideRun(d) /\ LedgerEndsWithRun(d)
      /\ FinalizedIsWhole(d) /\ FenceHasCause(d)
  BY DEF LedgerInv
<1>2. FinishAbortedEffect(d, R, e)
  BY <1>1, FinishAbortedRows
<1>3. \A r \in Runs : Finishable(d, r) =>
        /\ d.fan[r].state = "aborting" /\ d.run[r].status \notin RunTerminal
        /\ \A t \in Tasks : RunOf[t] = r => d.task[t].state \notin TaskActive
  BY <1>1 DEF Finishable, Drained, TasksOf, LedgerEndsWithRun
<1>4. \A t \in Tasks : RunOf[t] \in Runs
  BY ShapeAssumption
<1> HIDE DEF e
<1>5. TasksInsideRun(e)
  BY <1>1, <1>2, <1>3, <1>4 DEF FinishAbortedEffect, TasksInsideRun
<1>6. LedgerEndsWithRun(e)
  BY <1>1, <1>2, <1>3 DEF FinishAbortedEffect, LedgerEndsWithRun, RunTerminal
<1>7. FinalizedIsWhole(e)
  BY <1>1, <1>2, <1>3 DEF FinishAbortedEffect, FinalizedIsWhole, AllSucceeded
<1>8. FenceHasCause(e)
  BY <1>1, <1>2, <1>3, ShapeAssumption DEF FinishAbortedEffect, FenceHasCause
<1>9. Keeps(d, e) /\ Quiet(d, e)
  BY <1>1, <1>2, <1>3 DEF FinishAbortedEffect, Keeps, Quiet
<1> QED
  BY <1>2, <1>5, <1>6, <1>7, <1>8, <1>9 DEF FinishAbortedEffect, LedgerInv, e

\* Closing expired tasks preserves it: it only ends active ones.
LEMMA CloseExpiredKeeps ==
  ASSUME NEW d, LedgerInv(d)
  PROVE  LET e == CloseExpired(d) IN
         LedgerInv(e) /\ Keeps(d, e) /\ Quiet(d, e)
<1> DEFINE e == CloseExpired(d)
<1>1. d \in Database /\ TasksInsideRun(d) /\ LedgerEndsWithRun(d)
      /\ FinalizedIsWhole(d) /\ FenceHasCause(d)
  BY DEF LedgerInv
<1>2. CloseExpiredEffect(d, e)
  BY <1>1, CloseExpiredRows
<1>3. \A t \in Tasks : t \in ExpiredTasks(d) => d.task[t].state \in TaskActive
  BY DEF ExpiredTasks
<1>4. \A t \in Tasks : RunOf[t] \in Runs
  BY ShapeAssumption
<1> HIDE DEF e
<1>5. TasksInsideRun(e)
  BY <1>1, <1>2, <1>3, <1>4 DEF CloseExpiredEffect, TasksInsideRun, TaskActive
<1>6. LedgerEndsWithRun(e) /\ FenceHasCause(e)
  BY <1>1, <1>2 DEF CloseExpiredEffect, LedgerEndsWithRun, FenceHasCause
<1>7. FinalizedIsWhole(e)
  BY <1>1, <1>2, <1>3 DEF CloseExpiredEffect, FinalizedIsWhole, AllSucceeded, TasksOf, TaskActive
<1>8. Keeps(d, e) /\ Quiet(d, e)
  BY <1>2, <1>3 DEF CloseExpiredEffect, Keeps, Quiet, TaskActive, TaskTerminal
<1> QED
  BY <1>2, <1>5, <1>6, <1>7, <1>8 DEF CloseExpiredEffect, LedgerInv, e

\* A rewrite that leaves statuses, states and fences alone preserves it.
SameRows(d, e) ==
  /\ e \in Database
  /\ \A r \in Runs : /\ e.run[r].status = d.run[r].status
                     /\ e.run[r].sqlComplete = d.run[r].sqlComplete
                     /\ e.fan[r].state = d.fan[r].state
                     /\ e.fan[r].sqlStarted = d.fan[r].sqlStarted
  /\ \A t \in Tasks : e.task[t].state = d.task[t].state
  /\ \A f \in Flows : e.recon[f] => d.recon[f]

\* A rewrite of worker rows, deadlines or lease clocks alone, which leaves
\* every status as it was and raises no fence, keeps the ledger invariant.
LEMMA SameRowsKeeps ==
  ASSUME NEW d, NEW e, LedgerInv(d), SameRows(d, e)
  PROVE  LedgerInv(e) /\ Keeps(d, e) /\ Quiet(d, e)
<1>1. \A t \in Tasks : RunOf[t] \in Runs
  BY ShapeAssumption
<1>2. TasksInsideRun(e) /\ LedgerEndsWithRun(e)
  BY <1>1 DEF SameRows, LedgerInv, TasksInsideRun, LedgerEndsWithRun
<1>3. FinalizedIsWhole(e)
  BY DEF SameRows, LedgerInv, FinalizedIsWhole, AllSucceeded, TasksOf
<1>4. FenceHasCause(e)
  BY ShapeAssumption DEF SameRows, LedgerInv, FenceHasCause
<1> QED
  BY <1>2, <1>3, <1>4 DEF SameRows, LedgerInv, Keeps, Quiet

\* reap() as a whole, the transaction prefix of most handlers, preserves it.
LEMMA ReapKeeps ==
  ASSUME NEW d, LedgerInv(d)
  PROVE  LedgerInv(Reap(d)) /\ Keeps(d, Reap(d)) /\ Quiet(d, Reap(d))
<1> DEFINE a == CloseExpired(d)
           E == {RunOf[t] : t \in ExpiredTasks(d)}
           b == Abort(a, E, "failed", FALSE)
           c == PassDeadlines(b)
           S == {r \in Runs : c.fan[r].stopped}
           e == FinishAborted(c, S)
<1>1. Reap(d) = e
  BY DEF Reap
<1>2. LedgerInv(a) /\ Keeps(d, a) /\ Quiet(d, a)
  BY CloseExpiredKeeps
<1>3. E \in SUBSET Runs
  BY ShapeAssumption DEF ExpiredTasks
<1>4. LedgerInv(b) /\ Keeps(a, b) /\ Quiet(a, b)
  <2> HIDE DEF a, E
  <2>1. "failed" \in TerminalStatus /\ FALSE \in BOOLEAN
    BY DEF TerminalStatus
  <2> QED
    BY <1>2, <1>3, <2>1, AbortKeeps
<1>5. LedgerInv(c) /\ Keeps(b, c) /\ Quiet(b, c)
  <2> HIDE DEF b
  <2>1. b \in Database
    BY <1>4 DEF LedgerInv
  <2>2. PassDeadlinesEffect(b, c)
    BY <2>1, PassDeadlinesRows
  <2> HIDE DEF c
  <2>3. SameRows(b, c)
    BY <2>2 DEF PassDeadlinesEffect, SameRows
  <2> QED
    BY <1>4, <2>3, SameRowsKeeps
<1>6. LedgerInv(e) /\ Keeps(c, e) /\ Quiet(c, e)
  <2> HIDE DEF c
  <2> QED
    BY <1>5, FinishAbortedKeeps
<1>7. Keeps(d, e) /\ Quiet(d, e)
  <2> HIDE DEF a, b, c, e
  <2>1. Keeps(d, b) /\ Quiet(d, b)
    BY <1>2, <1>4, KeepsCompose, QuietCompose
  <2>2. Keeps(d, c) /\ Quiet(d, c)
    BY <1>5, <2>1, KeepsCompose, QuietCompose
  <2> QED
    BY <1>6, <2>2, KeepsCompose, QuietCompose
<1> QED
  BY <1>1, <1>6, <1>7

-----------------------------------------------------------------------------
(* Rows, and what one handler does to one run or to one task.              *)

\* One task of a live bundle changes state, everything else stays.
TaskChange(d, t, e) ==
  /\ e \in Database
  /\ \A r \in Runs : /\ e.run[r].status = d.run[r].status
                     /\ e.run[r].sqlComplete = d.run[r].sqlComplete
                     /\ e.fan[r].state = d.fan[r].state
                     /\ e.fan[r].sqlStarted = d.fan[r].sqlStarted
  /\ \A u \in Tasks \ {t} : e.task[u].state = d.task[u].state
  /\ e.recon = d.recon

\* A report or claim of one task keeps the ledger invariant if the task had
\* not ended, and becomes active only inside an active, downloading bundle.
LEMMA TaskChangeKeeps ==
  ASSUME NEW d, LedgerInv(d), NEW t \in Tasks, NEW e, TaskChange(d, t, e),
         d.task[t].state \notin TaskTerminal \cup {"none"},
         e.task[t].state \in TaskActive =>
           \/ d.task[t].state \in TaskActive
           \/ d.fan[RunOf[t]].state = "downloading" /\ d.run[RunOf[t]].status \in RunActive
  PROVE  LedgerInv(e) /\ Keeps(d, e)
<1>1. \A u \in Tasks : RunOf[u] \in Runs
  BY ShapeAssumption
<1>2. TasksInsideRun(e) /\ LedgerEndsWithRun(e)
  BY <1>1 DEF TaskChange, LedgerInv, TasksInsideRun, LedgerEndsWithRun
<1>3. \A r \in Runs : AllSucceeded(d, r) => AllSucceeded(e, r)
  BY DEF TaskChange, AllSucceeded, TasksOf, TaskTerminal
<1>4. FinalizedIsWhole(e)
  BY <1>3 DEF TaskChange, LedgerInv, FinalizedIsWhole
<1>5. FenceHasCause(e)
  BY ShapeAssumption DEF TaskChange, LedgerInv, FenceHasCause
<1>6. Keeps(d, e)
  BY DEF TaskChange, Keeps
<1> QED
  BY <1>2, <1>4, <1>5, <1>6 DEF TaskChange, LedgerInv

\* One run and its ledger change together, tasks and other runs stay.
RunChange(d, r, e) ==
  /\ e \in Database
  /\ \A q \in Runs \ {r} : /\ e.run[q].status = d.run[q].status
                           /\ e.run[q].sqlComplete = d.run[q].sqlComplete
                           /\ e.fan[q].state = d.fan[q].state
                           /\ e.fan[q].sqlStarted = d.fan[q].sqlStarted
  /\ e.task = d.task
SoundRunChange(d, r, e) ==
  /\ d.run[r].status \notin RunTerminal \/ e.run[r].status = d.run[r].status
  /\ d.fan[r].state = "none" <=> e.fan[r].state = "none"
  /\ d.fan[r].state = "complete" => e.fan[r].state = "complete"
  /\ d.fan[r].state = "aborting" => e.fan[r].state \in {"aborting", "complete"}
  /\ e.fan[r].state # "none" => (e.fan[r].state = "complete" <=> e.run[r].status \in RunTerminal)
  /\ \/ e.run[r].status \in RunActive /\ e.fan[r].state \in {"downloading", "aborting"}
     \/ \A t \in TasksOf(r) : d.task[t].state \notin TaskActive
  /\ e.fan[r].state = "finalizing" \/ e.run[r].status = "succeeded" =>
       e.fan[r].state # "none" /\ AllSucceeded(d, r)
  /\ d.fan[r].sqlStarted => e.fan[r].sqlStarted
  /\ e.run[r].sqlComplete => d.run[r].sqlComplete \/ d.fan[r].state = "finalizing"
  /\ \A f \in Flows : e.recon[f] =>
       \/ d.recon[f]
       \/ /\ f = FlowOf[r] /\ r \in Append /\ e.fan[r].sqlStarted /\ ~e.run[r].sqlComplete
          /\ e.fan[r].state \in {"aborting", "complete"}

\* A transaction about one run keeps the ledger invariant if its change of
\* status, ledger state and fence is sound in the sense above.
LEMMA RunChangeKeeps ==
  ASSUME NEW d, LedgerInv(d), NEW r \in Runs, NEW e,
         RunChange(d, r, e), SoundRunChange(d, r, e)
  PROVE  LedgerInv(e) /\ Keeps(d, e)
<1>1. \A u \in Tasks : RunOf[u] \in Runs
  BY ShapeAssumption
<1>2. TasksInsideRun(e)
  BY <1>1 DEF RunChange, SoundRunChange, LedgerInv, TasksInsideRun, TasksOf
<1>3. LedgerEndsWithRun(e)
  BY DEF RunChange, SoundRunChange, LedgerInv, LedgerEndsWithRun
<1>4. FinalizedIsWhole(e)
  BY DEF RunChange, SoundRunChange, LedgerInv, FinalizedIsWhole, AllSucceeded
<1>5. FenceHasCause(e)
  BY ShapeAssumption DEF RunChange, SoundRunChange, LedgerInv, FenceHasCause
<1>6. Keeps(d, e)
  BY DEF RunChange, SoundRunChange, Keeps
<1> QED
  BY <1>2, <1>3, <1>4, <1>5, <1>6 DEF RunChange, LedgerInv

\* Rows of a database, one at a time.
LEMMA Rows ==
  ASSUME NEW d \in Database
  PROVE  /\ \A r \in Runs : d.run[r] \in RunRow /\ d.fan[r] \in FanRow
         /\ \A t \in Tasks : d.task[t] \in TaskRow
         /\ \A w \in Workers : d.wk[w] \in WorkerRow
         /\ \A f \in Flows : d.recon[f] \in BOOLEAN
BY DEF Database

\* Updates that touch worker rows only: assignments, latches, registrations.
LEMMA WorkersOnly ==
  ASSUME NEW d, LedgerInv(d), NEW wk \in [Workers -> WorkerRow]
  PROVE  LET e == [d EXCEPT !.wk = wk] IN
         /\ LedgerInv(e) /\ Keeps(d, e) /\ Quiet(d, e)
         /\ e.run = d.run /\ e.fan = d.fan /\ e.task = d.task /\ e.wk = wk
<1> DEFINE e == [d EXCEPT !.wk = wk]
<1>1. d \in Database
  BY DEF LedgerInv
<1>2. /\ e \in Database /\ e.run = d.run /\ e.fan = d.fan /\ e.task = d.task
      /\ e.recon = d.recon /\ e.wk = wk
  BY <1>1 DEF Database
<1>3. SameRows(d, e)
  BY <1>2 DEF SameRows
<1> HIDE DEF e
<1> QED
  BY <1>2, <1>3, SameRowsKeeps DEF e

\* The three updates of a worker row that the handlers make.
WorkerUpdate(d, e) ==
  /\ LedgerInv(e) /\ Keeps(d, e) /\ Quiet(d, e)
  /\ e.run = d.run /\ e.fan = d.fan /\ e.task = d.task

\* Clearing current_run_id keeps the ledger invariant (flows.py, update_run).
LEMMA UnassignRun ==
  ASSUME NEW d, LedgerInv(d), NEW w
  PROVE  WorkerUpdate(d, [d EXCEPT !.wk[w].run = NoRun])
<1> DEFINE wk == [d.wk EXCEPT ![w].run = NoRun]
<1>1. d \in Database
  BY DEF LedgerInv
<1>2. ASSUME NEW v \in Workers PROVE [d.wk[v] EXCEPT !.run = NoRun] \in WorkerRow
  <2>1. d.wk[v] \in WorkerRow
    BY <1>1, Rows
  <2> QED
    BY <2>1 DEF WorkerRow
<1>3. wk \in [Workers -> WorkerRow]
  BY <1>1, <1>2 DEF Database
<1>4. [d EXCEPT !.wk[w].run = NoRun] = [d EXCEPT !.wk = wk]
  BY <1>1 DEF Database
<1> HIDE DEF wk
<1> QED
  BY <1>3, <1>4, WorkersOnly DEF WorkerUpdate

\* Clearing current_task_id and the stop latch keeps the ledger invariant.
LEMMA UnassignTask ==
  ASSUME NEW d, LedgerInv(d), NEW w
  PROVE  WorkerUpdate(d, [d EXCEPT !.wk[w].task = NoTask, !.wk[w].fence = 0])
<1> DEFINE wk == [d.wk EXCEPT ![w].task = NoTask, ![w].fence = 0]
<1>1. d \in Database
  BY DEF LedgerInv
<1>2. ASSUME NEW v \in Workers
      PROVE  [[d.wk[v] EXCEPT !.task = NoTask] EXCEPT !.fence = 0] \in WorkerRow
  <2>1. d.wk[v] \in WorkerRow
    BY <1>1, Rows
  <2> QED
    BY <2>1 DEF WorkerRow
<1>3. wk \in [Workers -> WorkerRow]
  BY <1>1, <1>2 DEF Database
<1>4. [d EXCEPT !.wk[w].task = NoTask, !.wk[w].fence = 0] = [d EXCEPT !.wk = wk]
  BY <1>1 DEF Database
<1> HIDE DEF wk
<1> QED
  BY <1>3, <1>4, WorkersOnly DEF WorkerUpdate

\* Recording the process id of a registration keeps the ledger invariant.
LEMMA RegisterPid ==
  ASSUME NEW d, LedgerInv(d), NEW w, NEW pid \in Nat
  PROVE  WorkerUpdate(d, [d EXCEPT !.wk[w].pid = pid])
<1> DEFINE wk == [d.wk EXCEPT ![w].pid = pid]
<1>1. d \in Database
  BY DEF LedgerInv
<1>2. ASSUME NEW v \in Workers PROVE [d.wk[v] EXCEPT !.pid = pid] \in WorkerRow
  <2>1. d.wk[v] \in WorkerRow
    BY <1>1, Rows
  <2> QED
    BY <2>1 DEF WorkerRow
<1>3. wk \in [Workers -> WorkerRow]
  BY <1>1, <1>2 DEF Database
<1>4. [d EXCEPT !.wk[w].pid = pid] = [d EXCEPT !.wk = wk]
  BY <1>1 DEF Database
<1> HIDE DEF wk
<1> QED
  BY <1>3, <1>4, WorkersOnly DEF WorkerUpdate

\* claim_run's assignment of a queued run keeps the ledger invariant.
LEMMA AssignRunKeeps ==
  ASSUME NEW d, LedgerInv(d), NEW w \in Workers, NEW r \in RunOffers(d, w)
  PROVE  LET e == AssignRun(d, w, r) IN LedgerInv(e) /\ Keeps(d, e)
<1> DEFINE e == AssignRun(d, w, r)
           run == [d.run EXCEPT ![r].status = "claimed", ![r].worker = w]
           wk == [d.wk EXCEPT ![w].run = r]
<1>1. d \in Database /\ TasksInsideRun(d) /\ LedgerEndsWithRun(d) /\ FinalizedIsWhole(d)
      /\ r \in Runs /\ d.run[r].status = "queued"
  BY DEF LedgerInv, RunOffers
<1>2. e = [d EXCEPT !.run = run, !.wk = wk]
  BY <1>1 DEF AssignRun, Database
<1>3. run \in [Runs -> RunRow] /\ wk \in [Workers -> WorkerRow]
  <2>1. /\ d.run \in [Runs -> RunRow] /\ d.wk \in [Workers -> WorkerRow]
        /\ d.run[r] \in RunRow /\ d.wk[w] \in WorkerRow
    BY <1>1 DEF Database
  <2>2. [[d.run[r] EXCEPT !.status = "claimed"] EXCEPT !.worker = w] \in RunRow
    BY <2>1 DEF RunRow, RunActive
  <2>3. [d.wk[w] EXCEPT !.run = r] \in WorkerRow
    BY <1>1, <2>1 DEF WorkerRow
  <2> QED
    BY <1>1, <2>1, <2>2, <2>3
<1>4. /\ run[r].status = "claimed" /\ run[r].sqlComplete = d.run[r].sqlComplete
      /\ \A q \in Runs \ {r} : run[q] = d.run[q]
  BY <1>1 DEF Database, RunRow
<1> HIDE DEF run, wk, e
<1>5. /\ e \in Database /\ e.fan = d.fan /\ e.task = d.task /\ e.recon = d.recon
      /\ e.run[r].status = "claimed" /\ e.run[r].sqlComplete = d.run[r].sqlComplete
      /\ \A q \in Runs \ {r} : e.run[q] = d.run[q]
  BY <1>1, <1>2, <1>3, <1>4 DEF Database
<1>6. RunChange(d, r, e)
  BY <1>5 DEF RunChange
<1>7. SoundRunChange(d, r, e)
  BY <1>1, <1>5 DEF SoundRunChange, RunTerminal, RunActive, TasksInsideRun, LedgerEndsWithRun,
                    FinalizedIsWhole, TasksOf
<1> QED
  BY <1>1, <1>6, <1>7, RunChangeKeeps DEF e

\* A transaction that rewrites the row of one run, its ledger, worker rows
\* and fences is a RunChange.
RewriteRun(d, r, row, ledger, wk, recon) ==
  [d EXCEPT !.run[r] = row, !.fan[r] = ledger, !.wk = wk, !.recon = recon]

\* The rewrite above is typed and changes nothing else.
LEMMA RunRewrite ==
  ASSUME NEW d \in Database, NEW r \in Runs, NEW row \in RunRow, NEW ledger \in FanRow,
         NEW wk \in [Workers -> WorkerRow], NEW recon \in [Flows -> BOOLEAN]
  PROVE  LET e == RewriteRun(d, r, row, ledger, wk, recon) IN
         /\ RunChange(d, r, e)
         /\ e.run[r] = row /\ e.fan[r] = ledger /\ e.recon = recon
<1> DEFINE e == RewriteRun(d, r, row, ledger, wk, recon)
<1>1. /\ e \in Database /\ e.task = d.task /\ e.recon = recon
      /\ e.run = [d.run EXCEPT ![r] = row] /\ e.fan = [d.fan EXCEPT ![r] = ledger]
  BY DEF Database, RewriteRun
<1>2. d.run \in [Runs -> RunRow] /\ d.fan \in [Runs -> FanRow]
  BY DEF Database
<1> HIDE DEF e
<1> QED
  BY <1>1, <1>2 DEF RunChange, e

\* The worker table without the current run of w is still a worker table.
LEMMA NoRunFor ==
  ASSUME NEW d \in Database, NEW w
  PROVE  [d.wk EXCEPT ![w].run = NoRun] \in [Workers -> WorkerRow]
<1>1. ASSUME NEW v \in Workers PROVE [d.wk[v] EXCEPT !.run = NoRun] \in WorkerRow
  <2>1. d.wk[v] \in WorkerRow
    BY Rows
  <2> QED
    BY <2>1 DEF WorkerRow
<1> QED
  BY <1>1 DEF Database

\* The same for the row of one task and worker rows.
RewriteTask(d, t, row, wk) == [d EXCEPT !.task[t] = row, !.wk = wk]

\* The rewrite above is typed and changes nothing else.
LEMMA TaskRewrite ==
  ASSUME NEW d \in Database, NEW t \in Tasks, NEW row \in TaskRow,
         NEW wk \in [Workers -> WorkerRow]
  PROVE  LET e == RewriteTask(d, t, row, wk) IN
         TaskChange(d, t, e) /\ e.task[t] = row
<1> DEFINE e == RewriteTask(d, t, row, wk)
<1>1. /\ e \in Database /\ e.run = d.run /\ e.fan = d.fan /\ e.recon = d.recon
      /\ e.task = [d.task EXCEPT ![t] = row]
  BY DEF Database, RewriteTask
<1>2. d.task \in [Tasks -> TaskRow]
  BY DEF Database
<1> HIDE DEF e
<1> QED
  BY <1>1, <1>2 DEF TaskChange, e

\* claim_task hands out the claimed task w holds, or a queued one of a bundle
\* that downloads for an active run.
LEMMA OffersClaimable ==
  ASSUME NEW d \in Database, NEW w \in Workers, NEW R, NEW t \in TaskOffers(d, w, R)
  PROVE  /\ t \in Tasks
         /\ \/ d.wk[w].task = t /\ d.task[t].state = "claimed"
            \/ Claimable(d, w, t)
<1>1. d.wk[w] \in WorkerRow
  BY Rows
<1>2. CASE d.wk[w].fence = 0 /\ HoldsClaim(d, w)
  <2>1. t = d.wk[w].task
    BY <1>2 DEF TaskOffers
  <2> QED
    BY <1>1, <1>2, <2>1 DEF HoldsClaim, WorkerRow
<1>3. CASE d.wk[w].fence = 0 /\ ~HoldsClaim(d, w)
  BY <1>3 DEF TaskOffers
<1>4. CASE d.wk[w].fence # 0
  BY <1>4 DEF TaskOffers
<1> QED
  BY <1>2, <1>3, <1>4

\* claim_task's assignment of an offered task keeps the ledger invariant.
LEMMA AssignTaskKeeps ==
  ASSUME NEW d, LedgerInv(d), NEW w \in Workers, NEW R, NEW t \in TaskOffers(d, w, R)
  PROVE  LET e == AssignTask(d, w, t) IN LedgerInv(e) /\ Keeps(d, e)
<1> DEFINE row == [state |-> "claimed", worker |-> w, expired |-> FALSE]
           wk == [d.wk EXCEPT ![w].task = t]
           e == RewriteTask(d, t, row, wk)
<1>1. d \in Database
  BY DEF LedgerInv
<1>2. t \in Tasks /\ ((d.wk[w].task = t /\ d.task[t].state = "claimed") \/ Claimable(d, w, t))
  BY <1>1, OffersClaimable
<1>3. CASE d.wk[w].task = t /\ d.task[t].state = "claimed"
  BY <1>3 DEF AssignTask, Keeps
<1>4. CASE ~(d.wk[w].task = t /\ d.task[t].state = "claimed")
  <2>1. /\ d.task[t].state = "queued"
        /\ d.fan[RunOf[t]].state = "downloading" /\ d.run[RunOf[t]].status \in RunActive
    BY <1>2, <1>4 DEF Claimable
  <2>2. AssignTask(d, w, t) = e
    BY <1>1, <1>2, <1>4 DEF AssignTask, RewriteTask, Database
  <2>3. row \in TaskRow /\ row.state = "claimed"
    BY DEF TaskRow, TaskActive
  <2>4. wk \in [Workers -> WorkerRow]
    <3>1. d.wk \in [Workers -> WorkerRow] /\ d.wk[w] \in WorkerRow
      BY <1>1 DEF Database
    <3>2. [d.wk[w] EXCEPT !.task = t] \in WorkerRow
      BY <1>2, <3>1 DEF WorkerRow
    <3> QED
      BY <3>1, <3>2
  <2> HIDE DEF row, wk
  <2>5. TaskChange(d, t, e) /\ e.task[t] = row
    BY <1>1, <1>2, <2>3, <2>4, TaskRewrite
  <2> HIDE DEF e
  <2>6. LedgerInv(e) /\ Keeps(d, e)
    BY <1>2, <2>1, <2>5, TaskChangeKeeps DEF TaskTerminal
  <2> QED
    BY <2>2, <2>6
<1> QED
  BY <1>3, <1>4

\* Any number of active tasks end, the ledgers and runs stay.
TasksEnd(d, e) ==
  /\ e \in Database
  /\ \A r \in Runs : /\ e.run[r].status = d.run[r].status
                     /\ e.run[r].sqlComplete = d.run[r].sqlComplete
                     /\ e.fan[r].state = d.fan[r].state
                     /\ e.fan[r].sqlStarted = d.fan[r].sqlStarted
  /\ \A t \in Tasks : \/ e.task[t].state = d.task[t].state
                      \/ d.task[t].state \in TaskActive /\ e.task[t].state \in TaskTerminal
  /\ e.recon = d.recon

\* A transaction that ends active tasks and nothing else, as a confirmed stop
\* and a recovered worker do, keeps the ledger invariant.
LEMMA TasksEndKeeps ==
  ASSUME NEW d, NEW e, LedgerInv(d), TasksEnd(d, e)
  PROVE  LedgerInv(e) /\ Keeps(d, e)
<1>1. \A u \in Tasks : RunOf[u] \in Runs
  BY ShapeAssumption
<1>2. TasksInsideRun(e) /\ LedgerEndsWithRun(e)
  BY <1>1 DEF TasksEnd, LedgerInv, TasksInsideRun, LedgerEndsWithRun, TaskActive, TaskTerminal
<1>3. \A r \in Runs : AllSucceeded(d, r) => AllSucceeded(e, r)
  BY DEF TasksEnd, AllSucceeded, TasksOf, TaskActive
<1>4. FinalizedIsWhole(e)
  BY <1>3 DEF TasksEnd, LedgerInv, FinalizedIsWhole
<1>5. FenceHasCause(e)
  BY ShapeAssumption DEF TasksEnd, LedgerInv, FenceHasCause
<1>6. Keeps(d, e)
  BY DEF TasksEnd, Keeps, TaskActive, TaskTerminal
<1> QED
  BY <1>2, <1>4, <1>5, <1>6 DEF TasksEnd, LedgerInv

\* initialize: the ledger appears with its tasks, none of them active yet.
Initialized(d, w, r, done) ==
  [d EXCEPT !.fan[r].state = "downloading", !.fan[r].coordinator = w,
            !.task = [t \in Tasks |-> IF RunOf[t] # r THEN d.task[t] ELSE
               [d.task[t] EXCEPT !.state = IF t \in done THEN "succeeded" ELSE "queued"]],
            !.run[r].status = "running"]

\* A running report, the start of the load and its recorded end.
LEMMA RunningKeeps ==
  ASSUME NEW d, LedgerInv(d), NEW r \in Runs, d.run[r].status \in RunActive,
         NEW started \in BOOLEAN, d.fan[r].sqlStarted => started,
         NEW complete \in BOOLEAN,
         complete => d.run[r].sqlComplete \/ d.fan[r].state = "finalizing",
         NEW status \in RunActive
  PROVE  LET e == RewriteRun(d, r, [d.run[r] EXCEPT !.status = status, !.sqlComplete = complete],
                             [d.fan[r] EXCEPT !.sqlStarted = started], d.wk, d.recon)
         IN  LedgerInv(e) /\ Keeps(d, e)
<1> DEFINE row == [d.run[r] EXCEPT !.status = status, !.sqlComplete = complete]
           ledger == [d.fan[r] EXCEPT !.sqlStarted = started]
           e == RewriteRun(d, r, row, ledger, d.wk, d.recon)
<1>1. /\ d \in Database /\ d.run[r] \in RunRow /\ d.fan[r] \in FanRow
      /\ d.wk \in [Workers -> WorkerRow] /\ d.recon \in [Flows -> BOOLEAN]
      /\ LedgerEndsWithRun(d) /\ TasksInsideRun(d) /\ FinalizedIsWhole(d)
  BY DEF LedgerInv, Database
<1>2. row \in RunRow /\ row.status = status /\ row.sqlComplete = complete
  BY <1>1 DEF RunRow
<1>3. ledger \in FanRow /\ ledger.state = d.fan[r].state /\ ledger.sqlStarted = started
  BY <1>1 DEF FanRow
<1> HIDE DEF row, ledger
<1>4. RunChange(d, r, e) /\ e.run[r] = row /\ e.fan[r] = ledger /\ e.recon = d.recon
  BY <1>1, <1>2, <1>3, RunRewrite
<1> HIDE DEF e
<1>5. d.fan[r].state \in {"downloading", "aborting"}
        \/ \A t \in TasksOf(r) : d.task[t].state \notin TaskActive
  BY <1>1 DEF TasksInsideRun, TasksOf
<1>6. SoundRunChange(d, r, e)
  BY <1>1, <1>2, <1>3, <1>4, <1>5
     DEF SoundRunChange, LedgerEndsWithRun, FinalizedIsWhole, RunActive, RunTerminal
<1> QED
  BY <1>4, <1>6, RunChangeKeeps DEF e, row, ledger

\* stop_run of a run without a ledger.
StoppedPlain(d, r, assigned, w) ==
  [d EXCEPT
    !.run[r].status = "cancelled",
    !.wk = [v \in Workers |-> IF assigned /\ v = w /\ d.wk[v].run = r
                              THEN [d.wk[v] EXCEPT !.run = NoRun] ELSE d.wk[v]]]

\* stop_run of a run that has no ledger keeps the ledger invariant.
LEMMA StoppedPlainKeeps ==
  ASSUME NEW d, LedgerInv(d), NEW r \in Runs, NEW assigned, NEW w,
         d.run[r].status \in {"queued"} \cup RunActive, d.fan[r].state = "none"
  PROVE  LET e == StoppedPlain(d, r, assigned, w) IN LedgerInv(e) /\ Keeps(d, e)
<1> DEFINE row == [d.run[r] EXCEPT !.status = "cancelled"]
           wk == [v \in Workers |-> IF assigned /\ v = w /\ d.wk[v].run = r
                                    THEN [d.wk[v] EXCEPT !.run = NoRun] ELSE d.wk[v]]
           e == RewriteRun(d, r, row, d.fan[r], wk, d.recon)
<1>1. /\ d \in Database /\ d.run[r] \in RunRow /\ d.fan[r] \in FanRow
      /\ d.recon \in [Flows -> BOOLEAN] /\ TasksInsideRun(d)
  BY DEF LedgerInv, Database
<1>2. StoppedPlain(d, r, assigned, w) = e
  BY <1>1 DEF StoppedPlain, RewriteRun, Database
<1>3. row \in RunRow /\ row.status = "cancelled" /\ row.sqlComplete = d.run[r].sqlComplete
  BY <1>1 DEF RunRow, RunTerminal
<1>4. wk \in [Workers -> WorkerRow]
  <2> SUFFICES ASSUME NEW v \in Workers PROVE wk[v] \in WorkerRow
    OBVIOUS
  <2>1. d.wk[v] \in WorkerRow
    BY <1>1, Rows
  <2>2. [d.wk[v] EXCEPT !.run = NoRun] \in WorkerRow
    BY <2>1 DEF WorkerRow
  <2> QED
    BY <2>1, <2>2
<1> HIDE DEF row, wk
<1>5. RunChange(d, r, e) /\ e.run[r] = row /\ e.fan[r] = d.fan[r] /\ e.recon = d.recon
  BY <1>1, <1>3, <1>4, RunRewrite
<1> HIDE DEF e
<1>6. SoundRunChange(d, r, e)
  BY <1>1, <1>3, <1>5
     DEF SoundRunChange, RunActive, RunTerminal, TasksInsideRun, TasksOf, TaskActive
<1> QED
  BY <1>2, <1>5, <1>6, RunChangeKeeps

\* The clock, and an acknowledgement by the operator.
LEMMA ClockKeeps ==
  ASSUME NEW d, LedgerInv(d)
  PROVE  /\ \A t \in Tasks : LET e == [d EXCEPT !.task[t].expired = TRUE] IN
                             LedgerInv(e) /\ Keeps(d, e)
         /\ \A r \in Runs : LET e == [d EXCEPT !.fan[r].deadline = "passed"] IN
                            LedgerInv(e) /\ Keeps(d, e)
         /\ \A f \in Flows : LET e == [d EXCEPT !.recon[f] = FALSE] IN
                             LedgerInv(e) /\ Keeps(d, e)
<1>1. d \in Database
  BY DEF LedgerInv
<1>2. ASSUME NEW t \in Tasks PROVE SameRows(d, [d EXCEPT !.task[t].expired = TRUE])
  <2>1. d.task[t] \in TaskRow /\ d.task \in [Tasks -> TaskRow]
    BY <1>1 DEF Database
  <2> DEFINE row == [d.task[t] EXCEPT !.expired = TRUE]
             task == [d.task EXCEPT ![t] = row]
             e == [d EXCEPT !.task = task]
  <2>2. row \in TaskRow /\ row.state = d.task[t].state
    BY <2>1 DEF TaskRow
  <2>3. [d EXCEPT !.task[t].expired = TRUE] = e
    BY <1>1 DEF Database
  <2> HIDE DEF row
  <2>4. task \in [Tasks -> TaskRow] /\ \A u \in Tasks : task[u].state = d.task[u].state
    BY <2>1, <2>2
  <2> HIDE DEF task
  <2>5. e \in Database /\ e.run = d.run /\ e.fan = d.fan /\ e.task = task /\ e.recon = d.recon
    BY <1>1, <2>4 DEF Database
  <2> HIDE DEF e
  <2> QED
    BY <2>3, <2>4, <2>5 DEF SameRows
<1>3. ASSUME NEW r \in Runs PROVE SameRows(d, [d EXCEPT !.fan[r].deadline = "passed"])
  <2>1. d.fan[r] \in FanRow /\ d.fan \in [Runs -> FanRow]
    BY <1>1 DEF Database
  <2> DEFINE row == [d.fan[r] EXCEPT !.deadline = "passed"]
             fan == [d.fan EXCEPT ![r] = row]
             e == [d EXCEPT !.fan = fan]
  <2>2. row \in FanRow /\ row.state = d.fan[r].state /\ row.sqlStarted = d.fan[r].sqlStarted
    BY <2>1 DEF FanRow
  <2>3. [d EXCEPT !.fan[r].deadline = "passed"] = e
    BY <1>1 DEF Database
  <2> HIDE DEF row
  <2>4. /\ fan \in [Runs -> FanRow]
        /\ \A q \in Runs : fan[q].state = d.fan[q].state /\ fan[q].sqlStarted = d.fan[q].sqlStarted
    BY <2>1, <2>2
  <2> HIDE DEF fan
  <2>5. e \in Database /\ e.run = d.run /\ e.fan = fan /\ e.task = d.task /\ e.recon = d.recon
    BY <1>1, <2>4 DEF Database
  <2> HIDE DEF e
  <2> QED
    BY <2>3, <2>4, <2>5 DEF SameRows
<1>4. ASSUME NEW f \in Flows PROVE SameRows(d, [d EXCEPT !.recon[f] = FALSE])
  <2> DEFINE recon == [d.recon EXCEPT ![f] = FALSE]
             e == [d EXCEPT !.recon = recon]
  <2>1. [d EXCEPT !.recon[f] = FALSE] = e
    BY <1>1 DEF Database
  <2>2. recon \in [Flows -> BOOLEAN] /\ \A g \in Flows : recon[g] => d.recon[g]
    BY <1>1 DEF Database
  <2> HIDE DEF recon
  <2>3. e \in Database /\ e.run = d.run /\ e.fan = d.fan /\ e.task = d.task /\ e.recon = recon
    BY <1>1, <2>2 DEF Database
  <2> HIDE DEF e
  <2> QED
    BY <2>1, <2>2, <2>3 DEF SameRows
<1> QED
  BY <1>2, <1>3, <1>4, SameRowsKeeps

\* What was whole stays whole.
LEMMA KeepsWhole ==
  ASSUME NEW d, NEW e, Keeps(d, e), NEW r \in Runs, d.fan[r].state # "none", AllSucceeded(d, r)
  PROVE  e.fan[r].state # "none" /\ AllSucceeded(e, r)
BY DEF Keeps, AllSucceeded, TasksOf, TaskTerminal

-----------------------------------------------------------------------------
(* Fences and slots.  Most rewrites are Calm: they open no run, begin no   *)
(* load, occupy no slot, and leave no append behind without the fence of   *)
(* its flow.  Calm composes, and a calm rewrite keeps Fenced and Slots.    *)

Open == {"queued"} \cup RunActive
Lost == {"failed", "cancelled"}
Begun(d) == \A r \in Runs : d.fan[r].state # "none" => d.run[r].status # "none"

FenceRun(d, e, r) ==
  /\ e.run[r].status \in Open => d.run[r].status \in Open
  /\ d.run[r].status # "none" => e.run[r].status # "none"
  /\ e.fan[r].state # "none" => d.fan[r].state # "none" \/ d.run[r].status \in RunActive
  /\ e.fan[r].state \in {"none", "downloading"} => d.fan[r].state \in {"none", "downloading"}
  /\ e.fan[r].sqlStarted => d.fan[r].sqlStarted
  /\ SqlUncertain(e, r) => SqlUncertain(d, r)
  /\ SqlUncertain(e, r) /\ e.fan[r].state = "aborting" =>
       e.recon[FlowOf[r]] \/ d.fan[r].state = "aborting"
  /\ SqlUncertain(e, r) /\ e.run[r].status \in Lost =>
       \/ d.run[r].status \in Lost
       \/ d.run[r].status \in Open /\ (e.recon[FlowOf[r]] \/ d.fan[r].state = "aborting")
CalmRun(d, e, r) ==
  /\ FenceRun(d, e, r)
  /\ e.run[r].status \in RunActive =>
       d.run[r].status \in RunActive /\ e.run[r].worker = d.run[r].worker
CalmTask(d, e, t) ==
  e.task[t].state \in TaskActive =>
    d.task[t].state \in TaskActive /\ e.task[t].worker = d.task[t].worker
Calm(d, e) ==
  /\ \A r \in Runs : CalmRun(d, e, r)
  /\ \A t \in Tasks : CalmTask(d, e, t)
  /\ \A f \in Flows : d.recon[f] => e.recon[f]

\* A flow has one open run, a load belongs to a bundle past its downloads, and
\* an append that is about to end inside its load, or ended there and is not
\* in A, has raised its fence and has no successor.
Fenced(d, A) ==
  /\ \A r, q \in Runs : FlowOf[r] = FlowOf[q] /\ d.run[r].status \in Open /\ d.run[q].status \in Open => r = q
  /\ Begun(d)
  /\ \A r \in Runs : d.fan[r].state \in {"none", "downloading"} => ~d.fan[r].sqlStarted
  /\ \A r \in Runs : d.fan[r].state = "aborting" /\ SqlUncertain(d, r) => d.recon[FlowOf[r]]
  /\ \A r \in Runs : d.run[r].status \in Lost /\ SqlUncertain(d, r) /\ r \notin A =>
       /\ d.recon[FlowOf[r]]
       /\ \A q \in Append : FlowOf[q] = FlowOf[r] => d.run[q].status \notin Open

BusyIn(d, R) ==
  {w \in Workers : \/ \E r \in R : d.run[r].worker = w /\ d.run[r].status \in RunActive
                   \/ \E t \in Tasks : /\ RunOf[t] \in R
                                       /\ d.task[t].worker = w
                                       /\ d.task[t].state \in TaskActive}
ActiveTasks(d, r) == {t \in TasksOf(r) : d.task[t].state \in TaskActive}
RunsOfSite(s) == {r \in Runs : Site[r] = s}
\* Who is busy is a worker, and no limit is exceeded.
Manned(d) ==
  /\ \A r \in Runs : d.run[r].status \in RunActive => d.run[r].worker \in Workers
  /\ \A t \in Tasks : d.task[t].state \in TaskActive => d.task[t].worker \in Workers
Slots(d) ==
  /\ Manned(d)
  /\ Cardinality(BusyIn(d, Runs)) <= TotalCapacity
  /\ \A m \in DOMAIN ModeCapacity : Cardinality(BusyIn(d, RunsOfMode(m))) <= ModeCapacity[m]
  /\ \A s \in DOMAIN PortalCapacity : Cardinality(BusyIn(d, RunsOfSite(s))) <= PortalCapacity[s]
  /\ \A r \in Runs : Cardinality(ActiveTasks(d, r)) <= Parallelism[r]

\* Calm rewrites compose.
LEMMA CalmCompose ==
  ASSUME NEW d, NEW e, NEW g, Calm(d, e), Calm(e, g)
  PROVE  Calm(d, g)
<1>1. ASSUME NEW r \in Runs PROVE CalmRun(d, g, r)
  <2>1. CalmRun(d, e, r) /\ CalmRun(e, g, r)
    BY DEF Calm
  <2>2. e.recon[FlowOf[r]] => g.recon[FlowOf[r]]
    BY ShapeAssumption DEF Calm
  <2>3. e.run[r].status \in Lost => e.run[r].status \notin Open
    BY DEF Lost, Open, RunActive
  <2> QED
    BY <2>1, <2>2, <2>3 DEF CalmRun, FenceRun
<1>2. ASSUME NEW t \in Tasks PROVE CalmTask(d, g, t)
  BY DEF Calm, CalmTask
<1> QED
  BY <1>1, <1>2 DEF Calm

\* Nothing is calmer than doing nothing.
LEMMA CalmNothing ==
  ASSUME NEW d
  PROVE  Calm(d, d)
<1>1. ASSUME NEW r \in Runs PROVE CalmRun(d, d, r)
  BY DEF CalmRun, FenceRun, Lost, Open, RunActive
<1> QED
  BY <1>1 DEF Calm, CalmTask

\* A calm rewrite keeps the fences, and so does one that only claims.
LEMMA FenceKept ==
  ASSUME NEW d, NEW e, NEW A, Fenced(d, A), \A r \in Runs : FenceRun(d, e, r),
         \A f \in Flows : d.recon[f] => e.recon[f]
  PROVE  Fenced(e, A)
<1>1. \A r \in Runs : FenceRun(d, e, r) /\ FlowOf[r] \in Flows
  BY ShapeAssumption
<1>2. \A r, q \in Runs : FlowOf[r] = FlowOf[q] /\ e.run[r].status \in Open /\ e.run[q].status \in Open => r = q
  BY <1>1 DEF Fenced, CalmRun, FenceRun
<1>3. Begun(e)
  BY <1>1 DEF Fenced, CalmRun, FenceRun, Begun, RunActive
<1>4. \A r \in Runs : e.fan[r].state \in {"none", "downloading"} => ~e.fan[r].sqlStarted
  BY <1>1 DEF Fenced, CalmRun, FenceRun
<1>5. \A f \in Flows : d.recon[f] => e.recon[f]
  OBVIOUS
<1>6. \A r \in Runs : e.fan[r].state = "aborting" /\ SqlUncertain(e, r) => e.recon[FlowOf[r]]
  BY <1>1, <1>5 DEF Fenced, CalmRun, FenceRun
<1>7. ASSUME NEW r \in Runs, e.run[r].status \in Lost, SqlUncertain(e, r), r \notin A
      PROVE  /\ e.recon[FlowOf[r]]
             /\ \A q \in Append : FlowOf[q] = FlowOf[r] => e.run[q].status \notin Open
  <2>1. SqlUncertain(d, r) /\ Append \subseteq Runs
    BY <1>1, <1>7, ShapeAssumption DEF CalmRun, FenceRun
  <2>2. CASE d.run[r].status \in Lost
    <3>1. d.recon[FlowOf[r]] /\ \A q \in Append : FlowOf[q] = FlowOf[r] => d.run[q].status \notin Open
      BY <1>7, <2>1, <2>2 DEF Fenced
    <3> QED
      BY <1>1, <1>5, <2>1, <3>1 DEF CalmRun, FenceRun
  <2>3. CASE d.run[r].status \in Open /\ (e.recon[FlowOf[r]] \/ d.fan[r].state = "aborting")
    <3>1. e.recon[FlowOf[r]]
      BY <1>1, <1>5, <2>1, <2>3 DEF Fenced
    <3>2. ASSUME NEW q \in Append, FlowOf[q] = FlowOf[r], e.run[q].status \in Open PROVE FALSE
      <4>1. d.run[q].status \in Open /\ q \in Runs
        BY <1>1, <2>1, <3>2 DEF CalmRun, FenceRun
      <4>2. q = r
        BY <2>3, <3>2, <4>1 DEF Fenced
      <4> QED
        BY <1>7, <3>2, <4>2 DEF Lost, Open, RunActive
    <3> QED
      BY <3>1, <3>2
  <2> QED
    BY <1>1, <1>7, <2>2, <2>3 DEF CalmRun, FenceRun
<1> QED
  BY <1>2, <1>3, <1>4, <1>6, <1>7 DEF Fenced

\* A calm rewrite keeps the fences.
LEMMA CalmFenced ==
  ASSUME NEW d, NEW e, NEW A, Fenced(d, A), Calm(d, e)
  PROVE  Fenced(e, A)
<1>1. \A r \in Runs : FenceRun(d, e, r)
  BY DEF Calm, CalmRun
<1> QED
  BY <1>1, FenceKept DEF Calm

\* Sets of workers and of a run's downloads are finite.
LEMMA BusyFinite ==
  ASSUME NEW d, NEW R
  PROVE  IsFiniteSet(BusyIn(d, R)) /\ Cardinality(BusyIn(d, R)) \in Nat
<1>1. BusyIn(d, R) \in SUBSET Workers /\ IsFiniteSet(Workers)
  BY CapacityAssumption DEF BusyIn
<1>2. IsFiniteSet(BusyIn(d, R))
  BY <1>1, FS_Subset
<1> QED
  BY <1>2, FS_CardinalityType

\* So are the active downloads of a bundle.
LEMMA ActiveTasksFinite ==
  ASSUME NEW d, NEW r
  PROVE  IsFiniteSet(ActiveTasks(d, r)) /\ Cardinality(ActiveTasks(d, r)) \in Nat
<1>1. ActiveTasks(d, r) \in SUBSET Tasks /\ IsFiniteSet(Tasks)
  BY CapacityAssumption DEF ActiveTasks, TasksOf
<1>2. IsFiniteSet(ActiveTasks(d, r))
  BY <1>1, FS_Subset
<1> QED
  BY <1>2, FS_CardinalityType

\* Fewer are busy where fewer may be.
LEMMA FewerBusy ==
  ASSUME NEW d, NEW e, NEW R, NEW n \in Nat, BusyIn(e, R) \subseteq BusyIn(d, R),
         Cardinality(BusyIn(d, R)) <= n
  PROVE  Cardinality(BusyIn(e, R)) <= n
<1>1. /\ IsFiniteSet(BusyIn(d, R)) /\ Cardinality(BusyIn(d, R)) \in Nat
      /\ Cardinality(BusyIn(e, R)) \in Nat
  BY BusyFinite
<1>2. Cardinality(BusyIn(e, R)) <= Cardinality(BusyIn(d, R))
  BY <1>1, FS_Subset
<1> QED
  BY <1>1, <1>2

\* And fewer downloads are active where fewer may be.
LEMMA FewerTasks ==
  ASSUME NEW d, NEW e, NEW r, NEW n \in Nat, ActiveTasks(e, r) \subseteq ActiveTasks(d, r),
         Cardinality(ActiveTasks(d, r)) <= n
  PROVE  Cardinality(ActiveTasks(e, r)) <= n
<1>1. /\ IsFiniteSet(ActiveTasks(d, r)) /\ Cardinality(ActiveTasks(d, r)) \in Nat
      /\ Cardinality(ActiveTasks(e, r)) \in Nat
  BY ActiveTasksFinite
<1>2. Cardinality(ActiveTasks(e, r)) <= Cardinality(ActiveTasks(d, r))
  BY <1>1, FS_Subset
<1> QED
  BY <1>1, <1>2

\* Slots are kept where nobody becomes busy.
LEMMA SlotsKept ==
  ASSUME NEW d, NEW e, Slots(d),
         \A r \in Runs : e.run[r].status \in RunActive =>
           d.run[r].status \in RunActive /\ e.run[r].worker = d.run[r].worker,
         \A t \in Tasks : e.task[t].state \in TaskActive =>
           d.task[t].state \in TaskActive /\ e.task[t].worker = d.task[t].worker
  PROVE  Slots(e)
<1>1. \A r \in Runs : e.run[r].status \in RunActive =>
        d.run[r].status \in RunActive /\ e.run[r].worker = d.run[r].worker
  OBVIOUS
<1>2. \A t \in Tasks : e.task[t].state \in TaskActive =>
        d.task[t].state \in TaskActive /\ e.task[t].worker = d.task[t].worker
  OBVIOUS
<1>3. Manned(e)
  BY <1>1, <1>2 DEF Slots, Manned
<1>4. ASSUME NEW R \in SUBSET Runs PROVE BusyIn(e, R) \subseteq BusyIn(d, R)
  BY <1>1, <1>2 DEF BusyIn
<1>5. \A r \in Runs : ActiveTasks(e, r) \subseteq ActiveTasks(d, r)
  BY <1>2 DEF ActiveTasks, TasksOf
<1>6. Cardinality(BusyIn(e, Runs)) <= TotalCapacity
  BY <1>4, FewerBusy, CapacityAssumption DEF Slots
<1>7. ASSUME NEW m \in DOMAIN ModeCapacity PROVE Cardinality(BusyIn(e, RunsOfMode(m))) <= ModeCapacity[m]
  <2>1. RunsOfMode(m) \in SUBSET Runs /\ ModeCapacity[m] \in Nat
    BY CapacityAssumption DEF RunsOfMode
  <2>2. Cardinality(BusyIn(d, RunsOfMode(m))) <= ModeCapacity[m]
    BY DEF Slots
  <2> QED
    BY <1>4, <2>1, <2>2, FewerBusy
<1>8. ASSUME NEW s \in DOMAIN PortalCapacity PROVE Cardinality(BusyIn(e, RunsOfSite(s))) <= PortalCapacity[s]
  <2>1. RunsOfSite(s) \in SUBSET Runs /\ PortalCapacity[s] \in Nat
    BY CapacityAssumption DEF RunsOfSite
  <2>2. Cardinality(BusyIn(d, RunsOfSite(s))) <= PortalCapacity[s]
    BY DEF Slots
  <2> QED
    BY <1>4, <2>1, <2>2, FewerBusy
<1>9. ASSUME NEW r \in Runs PROVE Cardinality(ActiveTasks(e, r)) <= Parallelism[r]
  BY <1>5, FewerTasks, CapacityAssumption DEF Slots
<1> QED
  BY <1>3, <1>6, <1>7, <1>8, <1>9 DEF Slots

\* A calm rewrite occupies no slot.
LEMMA CalmSlots ==
  ASSUME NEW d, NEW e, Slots(d), Calm(d, e)
  PROVE  Slots(e)
<1>1. \A r \in Runs : e.run[r].status \in RunActive =>
        d.run[r].status \in RunActive /\ e.run[r].worker = d.run[r].worker
  BY DEF Calm, CalmRun, FenceRun
<1>2. \A t \in Tasks : e.task[t].state \in TaskActive =>
        d.task[t].state \in TaskActive /\ e.task[t].worker = d.task[t].worker
  BY DEF Calm, CalmTask
<1> QED
  BY <1>1, <1>2, SlotsKept

\* The rewrites of FlowLedger are calm.  abort() raises the fence of an append
\* inside its load before the bundle aborts.
LEMMA AbortCalm ==
  ASSUME NEW d \in Database, NEW R \in SUBSET Runs,
         NEW terminal \in TerminalStatus, NEW stopped \in BOOLEAN
  PROVE  Calm(d, Abort(d, R, terminal, stopped))
<1> DEFINE e == Abort(d, R, terminal, stopped)
<1>1. AbortEffect(d, R, e)
  BY AbortRows
<1>2. \A t \in Tasks : e.task[t].worker = d.task[t].worker
  <2>1. \A t \in Tasks : d.task[t] \in TaskRow
    BY Rows
  <2>2. e.task = [t \in Tasks |-> IF RunOf[t] \notin {r \in R : Abortable(d, r)} THEN d.task[t] ELSE
                   [d.task[t] EXCEPT !.state = FencedState(@)]]
    BY DEF Abort, Database
  <2> HIDE DEF e
  <2> QED
    BY <2>1, <2>2 DEF TaskRow
<1> HIDE DEF e
<1>3. ASSUME NEW t \in Tasks PROVE CalmTask(d, e, t)
  BY <1>1, <1>2 DEF AbortEffect, CalmTask, FencedState, TaskActive
<1>4. ASSUME NEW r \in Runs PROVE CalmRun(d, e, r)
  <2>1. /\ e.run[r] = d.run[r] /\ e.fan[r].sqlStarted = d.fan[r].sqlStarted
        /\ e.fan[r].state = IF r \in R /\ Abortable(d, r) THEN "aborting" ELSE d.fan[r].state
    BY <1>1 DEF AbortEffect
  <2>2. SqlUncertain(e, r) <=> SqlUncertain(d, r)
    BY <2>1 DEF SqlUncertain, ReconciliationRequired
  <2>3. r \in R /\ Abortable(d, r) /\ SqlUncertain(d, r) => e.recon[FlowOf[r]]
    BY <1>1, ShapeAssumption DEF AbortEffect
  <2>4. Abortable(d, r) => d.fan[r].state # "none"
    BY DEF Abortable
  <2>5. d.run[r].status \in Lost => d.run[r].status \notin Open
    BY DEF Lost, Open, RunActive
  <2> QED
    BY <2>1, <2>2, <2>3, <2>4, <2>5 DEF CalmRun, FenceRun
<1>5. \A f \in Flows : d.recon[f] => e.recon[f]
  BY <1>1 DEF AbortEffect
<1> QED
  BY <1>3, <1>4, <1>5 DEF Calm, e

\* finish_aborted() ends runs whose fence, if they need one, abort() raised.
LEMMA FinishAbortedCalm ==
  ASSUME NEW d, LedgerInv(d), Begun(d), NEW R \in SUBSET Runs
  PROVE  Calm(d, FinishAborted(d, R))
<1> DEFINE e == FinishAborted(d, R)
<1>1. d \in Database /\ LedgerEndsWithRun(d)
  BY DEF LedgerInv
<1>2. FinishAbortedEffect(d, R, e)
  BY <1>1, FinishAbortedRows
<1>3. e.task = d.task /\ e.recon = d.recon
  BY <1>1 DEF FinishAborted, Database
<1>4. \A r \in Runs : e.run[r].worker = d.run[r].worker
  <2>1. \A r \in Runs : d.run[r] \in RunRow
    BY <1>1, Rows
  <2>2. e.run = [r \in Runs |-> IF r \notin {q \in R : Finishable(d, q)} THEN d.run[r] ELSE
                  [d.run[r] EXCEPT !.status = IF d.fan[r].terminal = "none" THEN "failed"
                                              ELSE d.fan[r].terminal]]
    BY <1>1 DEF FinishAborted, Database
  <2> HIDE DEF e
  <2> QED
    BY <2>1, <2>2 DEF RunRow
<1> HIDE DEF e
<1>5. ASSUME NEW r \in Runs PROVE CalmRun(d, e, r)
  <2>1. /\ e.run[r].worker = d.run[r].worker /\ e.fan[r].sqlStarted = d.fan[r].sqlStarted
        /\ e.run[r].sqlComplete = d.run[r].sqlComplete
        /\ IF r \in R /\ Finishable(d, r)
           THEN e.run[r].status \in {"failed", "cancelled"} /\ e.fan[r].state = "complete"
           ELSE e.run[r].status = d.run[r].status /\ e.fan[r].state = d.fan[r].state
    BY <1>2, <1>4 DEF FinishAbortedEffect
  <2>2. SqlUncertain(e, r) <=> SqlUncertain(d, r)
    BY <2>1 DEF SqlUncertain, ReconciliationRequired
  <2>3. d.run[r] \in RunRow
    BY <1>1, Rows
  <2>4. ASSUME Finishable(d, r) PROVE d.fan[r].state = "aborting" /\ d.run[r].status \in Open
    <3>1. d.fan[r].state = "aborting" /\ d.run[r].status \notin RunTerminal /\ d.run[r].status # "none"
      BY <1>1, <2>4 DEF Finishable, LedgerEndsWithRun, Begun
    <3> QED
      BY <2>3, <3>1 DEF RunRow, Open
  <2> QED
    BY <2>1, <2>2, <2>4 DEF CalmRun, FenceRun, Lost, Open, RunActive
<1> QED
  BY <1>3, <1>5 DEF Calm, CalmTask, e

\* The first loop of reap() only ends downloads.
LEMMA CloseExpiredCalm ==
  ASSUME NEW d \in Database
  PROVE  Calm(d, CloseExpired(d))
<1> DEFINE e == CloseExpired(d)
<1>1. CloseExpiredEffect(d, e)
  BY CloseExpiredRows
<1>2. e.run = d.run /\ e.fan = d.fan /\ e.recon = d.recon
  BY DEF CloseExpired, Database
<1>3. \A t \in Tasks : e.task[t].state \in TaskActive => e.task[t] = d.task[t]
  <2>1. \A t \in Tasks : d.task[t] \in TaskRow
    BY Rows
  <2>2. e.task = [t \in Tasks |-> IF t \notin ExpiredTasks(d) THEN d.task[t] ELSE
          [d.task[t] EXCEPT !.state = IF @ = "claimed" THEN "failed" ELSE "cancelled"]]
    BY DEF CloseExpired, Database
  <2> HIDE DEF e
  <2> QED
    BY <2>1, <2>2 DEF TaskRow, TaskActive
<1> HIDE DEF e
<1>4. ASSUME NEW r \in Runs PROVE CalmRun(d, e, r)
  BY <1>2 DEF CalmRun, FenceRun, Lost, Open, RunActive, SqlUncertain, ReconciliationRequired
<1> QED
  BY <1>2, <1>3, <1>4 DEF Calm, CalmTask, e

\* What changes neither runs nor tasks nor fences, nor what a ledger says of
\* its state and of its load, is calm.
LEMMA SameCalm ==
  ASSUME NEW d, NEW e,
         \A r \in Runs : /\ e.run[r].status = d.run[r].status
                         /\ e.run[r].worker = d.run[r].worker
                         /\ e.run[r].sqlComplete = d.run[r].sqlComplete
                         /\ e.fan[r].state = d.fan[r].state
                         /\ e.fan[r].sqlStarted = d.fan[r].sqlStarted,
         \A t \in Tasks : e.task[t].state \in TaskActive =>
            d.task[t].state \in TaskActive /\ e.task[t].worker = d.task[t].worker,
         \A f \in Flows : d.recon[f] => e.recon[f]
  PROVE  Calm(d, e)
<1>1. ASSUME NEW r \in Runs PROVE CalmRun(d, e, r)
  <2>1. SqlUncertain(e, r) <=> SqlUncertain(d, r)
    BY DEF SqlUncertain, ReconciliationRequired
  <2> QED
    BY <2>1 DEF CalmRun, FenceRun, Lost, Open, RunActive
<1> QED
  BY <1>1 DEF Calm, CalmTask

\* A passed deadline only confirms a stop.
LEMMA PassDeadlinesCalm ==
  ASSUME NEW d \in Database
  PROVE  Calm(d, PassDeadlines(d))
<1> DEFINE e == PassDeadlines(d)
<1>1. PassDeadlinesEffect(d, e)
  BY PassDeadlinesRows
<1> HIDE DEF e
<1> QED
  BY <1>1, SameCalm DEF PassDeadlinesEffect, e

\* Begun is kept by what is calm.
LEMMA CalmBegun ==
  ASSUME NEW d, NEW e, Begun(d), Calm(d, e)
  PROVE  Begun(e)
BY DEF Begun, Calm, CalmRun, FenceRun, RunActive

\* reap() as a whole.
LEMMA ReapCalm ==
  ASSUME NEW d, LedgerInv(d), Begun(d)
  PROVE  Calm(d, Reap(d))
<1> DEFINE a == CloseExpired(d)
           E == {RunOf[t] : t \in ExpiredTasks(d)}
           b == Abort(a, E, "failed", FALSE)
           c == PassDeadlines(b)
           S == {r \in Runs : c.fan[r].stopped}
           e == FinishAborted(c, S)
<1>1. Reap(d) = e
  BY DEF Reap
<1>2. LedgerInv(a) /\ Calm(d, a)
  BY CloseExpiredKeeps, CloseExpiredCalm DEF LedgerInv
<1>3. E \in SUBSET Runs /\ "failed" \in TerminalStatus /\ FALSE \in BOOLEAN
  BY ShapeAssumption DEF ExpiredTasks, TerminalStatus
<1> HIDE DEF a, E
<1>4. LedgerInv(b) /\ Calm(a, b)
  BY <1>2, <1>3, AbortKeeps, AbortCalm DEF LedgerInv
<1> HIDE DEF b
<1>5. LedgerInv(c) /\ Calm(b, c)
  <2>1. b \in Database
    BY <1>4 DEF LedgerInv
  <2>2. PassDeadlinesEffect(b, c)
    BY <2>1, PassDeadlinesRows
  <2> HIDE DEF c
  <2>3. SameRows(b, c)
    BY <2>2 DEF PassDeadlinesEffect, SameRows
  <2> QED
    BY <1>4, <2>1, <2>3, SameRowsKeeps, PassDeadlinesCalm DEF c
<1> HIDE DEF c
<1>6. Calm(d, c)
  BY <1>2, <1>4, <1>5, CalmCompose
<1>7. Calm(c, e)
  BY <1>5, <1>6, CalmBegun, FinishAbortedCalm
<1> HIDE DEF e
<1> QED
  BY <1>1, <1>6, <1>7, CalmCompose

\* A transaction about one run is calm if it is calm for that run.
LEMMA OneRunCalm ==
  ASSUME NEW d, NEW e, NEW r \in Runs, CalmRun(d, e, r),
         \A q \in Runs : q # r => e.run[q] = d.run[q] /\ e.fan[q] = d.fan[q],
         e.task = d.task, \A f \in Flows : d.recon[f] => e.recon[f]
  PROVE  Calm(d, e)
<1>1. ASSUME NEW q \in Runs, q # r PROVE CalmRun(d, e, q)
  BY <1>1 DEF CalmRun, FenceRun, Lost, Open, RunActive, SqlUncertain, ReconciliationRequired
<1> QED
  BY <1>1 DEF Calm, CalmTask

\* A rewrite of worker rows is calm, whatever it writes.
LEMMA WorkersCalm ==
  ASSUME NEW d, NEW e, e.run = d.run, e.fan = d.fan, e.task = d.task, e.recon = d.recon
  PROVE  Calm(d, e)
BY SameCalm

\* The rewrites of one worker row that the handlers make.
LEMMA UnassignCalm ==
  ASSUME NEW d \in Database, NEW w
  PROVE  /\ Calm(d, [d EXCEPT !.wk[w].run = NoRun])
         /\ Calm(d, [d EXCEPT !.wk[w].task = NoTask, !.wk[w].fence = 0])
         /\ \A pid \in Nat : Calm(d, [d EXCEPT !.wk[w].pid = pid])
<1>1. Calm(d, [d EXCEPT !.wk[w].run = NoRun])
  BY WorkersCalm DEF Database
<1>2. Calm(d, [d EXCEPT !.wk[w].task = NoTask, !.wk[w].fence = 0])
  <2> DEFINE wk == [d.wk EXCEPT ![w].task = NoTask, ![w].fence = 0]
             e == [d EXCEPT !.wk = wk]
  <2>1. [d EXCEPT !.wk[w].task = NoTask, !.wk[w].fence = 0] = e
    BY DEF Database
  <2> HIDE DEF wk
  <2>2. e.run = d.run /\ e.fan = d.fan /\ e.task = d.task /\ e.recon = d.recon
    BY DEF Database
  <2> HIDE DEF e
  <2> QED
    BY <2>1, <2>2, WorkersCalm
<1>3. ASSUME NEW pid \in Nat PROVE Calm(d, [d EXCEPT !.wk[w].pid = pid])
  BY WorkersCalm DEF Database
<1> QED
  BY <1>1, <1>2, <1>3

\* The end of one download is calm.
LEMMA TaskEndCalm ==
  ASSUME NEW d \in Database, NEW e, NEW t \in Tasks, e.run = d.run, e.fan = d.fan, e.recon = d.recon,
         e.task[t].state \notin TaskActive, \A u \in Tasks : u # t => e.task[u] = d.task[u]
  PROVE  Calm(d, e)
BY SameCalm

\* Without a ledger there is no load.
Unloaded(d) == \A r \in Runs : d.fan[r].state = "none" => ~d.fan[r].sqlStarted

\* A report and the end of a load change one row.
LEMMA ReportCalm ==
  ASSUME NEW d, LedgerInv(d), NEW r \in Runs, d.run[r].status \in RunActive
  PROVE  /\ Calm(d, [d EXCEPT !.run[r].status = "running"])
         /\ Calm(d, [d EXCEPT !.run[r].sqlComplete = TRUE])
<1>1. /\ d \in Database /\ d.run \in [Runs -> RunRow] /\ d.fan \in [Runs -> FanRow]
      /\ d.run[r] \in RunRow /\ d.fan[r] \in FanRow
  BY DEF LedgerInv, Database
<1>2. Calm(d, [d EXCEPT !.run[r].status = "running"])
  <2> DEFINE e == [d EXCEPT !.run[r].status = "running"]
  <2>1. /\ e.run = [d.run EXCEPT ![r].status = "running"]
        /\ e.fan = d.fan /\ e.task = d.task /\ e.recon = d.recon
    BY <1>1 DEF Database
  <2> HIDE DEF e
  <2>2. /\ e.run[r].status = "running" /\ e.run[r].sqlComplete = d.run[r].sqlComplete
        /\ e.run[r].worker = d.run[r].worker /\ \A q \in Runs : q # r => e.run[q] = d.run[q]
    BY <1>1, <2>1 DEF RunRow
  <2>3. SqlUncertain(e, r) <=> SqlUncertain(d, r)
    BY <2>1, <2>2 DEF SqlUncertain, ReconciliationRequired
  <2>4. CalmRun(d, e, r)
    BY <2>1, <2>2, <2>3 DEF CalmRun, FenceRun, Lost, Open, RunActive
  <2>5. \A f \in Flows : d.recon[f] => e.recon[f]
    BY <2>1
  <2>6. Calm(d, e)
    BY <2>1, <2>2, <2>4, <2>5, OneRunCalm
  <2> QED
    BY <2>6 DEF e
<1>3. Calm(d, [d EXCEPT !.run[r].sqlComplete = TRUE])
  <2> DEFINE e == [d EXCEPT !.run[r].sqlComplete = TRUE]
  <2>1. /\ e.run = [d.run EXCEPT ![r].sqlComplete = TRUE]
        /\ e.fan = d.fan /\ e.task = d.task /\ e.recon = d.recon
    BY <1>1 DEF Database
  <2> HIDE DEF e
  <2>2. /\ e.run[r].status = d.run[r].status /\ e.run[r].sqlComplete = TRUE
        /\ e.run[r].worker = d.run[r].worker /\ \A q \in Runs : q # r => e.run[q] = d.run[q]
    BY <1>1, <2>1 DEF RunRow
  <2>3. ~SqlUncertain(e, r)
    BY <2>2 DEF SqlUncertain, ReconciliationRequired
  <2>4. CalmRun(d, e, r)
    BY <2>1, <2>2, <2>3 DEF CalmRun, FenceRun, Lost, Open, RunActive
  <2>5. \A f \in Flows : d.recon[f] => e.recon[f]
    BY <2>1
  <2>6. e.task = d.task /\ \A q \in Runs : q # r => e.run[q] = d.run[q] /\ e.fan[q] = d.fan[q]
    BY <2>1, <2>2
  <2>7. Calm(d, e)
    BY <2>4, <2>5, <2>6, OneRunCalm
  <2> QED
    BY <2>7 DEF e
<1> QED
  BY <1>2, <1>3

\* So does the start of the finalizer.
LEMMA FinalizingCalm ==
  ASSUME NEW d, LedgerInv(d), NEW r \in Runs, d.fan[r].state \in {"downloading", "finalizing"}
  PROVE  Calm(d, [d EXCEPT !.fan[r].state = "finalizing"])
<1> DEFINE e == [d EXCEPT !.fan[r].state = "finalizing"]
<1>1. /\ e.fan = [d.fan EXCEPT ![r].state = "finalizing"]
      /\ e.run = d.run /\ e.task = d.task /\ e.recon = d.recon
      /\ d.fan \in [Runs -> FanRow] /\ d.fan[r] \in FanRow
  BY DEF LedgerInv, Database
<1> HIDE DEF e
<1>2. /\ e.fan[r].state = "finalizing" /\ e.fan[r].sqlStarted = d.fan[r].sqlStarted
      /\ \A q \in Runs : q # r => e.fan[q] = d.fan[q]
  BY <1>1 DEF FanRow
<1>3. SqlUncertain(e, r) <=> SqlUncertain(d, r)
  BY <1>1, <1>2 DEF SqlUncertain, ReconciliationRequired
<1>4. CalmRun(d, e, r)
  BY <1>1, <1>2, <1>3 DEF CalmRun, FenceRun, Lost, Open, RunActive
<1>5. \A f \in Flows : d.recon[f] => e.recon[f]
  BY <1>1
<1>6. e.task = d.task /\ \A q \in Runs : q # r => e.run[q] = d.run[q] /\ e.fan[q] = d.fan[q]
  BY <1>1, <1>2
<1>7. Calm(d, e)
  BY <1>4, <1>5, <1>6, OneRunCalm
<1> QED
  BY <1>7 DEF e

\* A run without a ledger that is stopped, or that fell silent, has no load.
LEMMA PlainEndCalm ==
  ASSUME NEW d, LedgerInv(d), Unloaded(d), NEW r \in Runs, d.fan[r].state = "none",
         d.run[r].status \in Open, NEW status \in Lost, NEW e,
         e.run = [d.run EXCEPT ![r].status = status], e.fan = d.fan, e.task = d.task, e.recon = d.recon
  PROVE  Calm(d, e)
<1>1. d.run \in [Runs -> RunRow] /\ d.run[r] \in RunRow
  BY DEF LedgerInv, Database
<1>2. e.run[r].status = status /\ \A q \in Runs : q # r => e.run[q] = d.run[q]
  BY <1>1 DEF RunRow
<1>3. ~SqlUncertain(e, r)
  BY DEF SqlUncertain, Unloaded
<1>4. CalmRun(d, e, r)
  BY <1>2, <1>3 DEF CalmRun, FenceRun, Lost, Open, RunActive
<1>5. \A f \in Flows : d.recon[f] => e.recon[f]
  OBVIOUS
<1>6. \A q \in Runs : q # r => e.run[q] = d.run[q] /\ e.fan[q] = d.fan[q]
  BY <1>2
<1> QED
  BY <1>4, <1>5, <1>6, OneRunCalm

\* stop_run of a run without tasks.
LEMMA StoppedPlainCalm ==
  ASSUME NEW d, LedgerInv(d), Unloaded(d), NEW r \in Runs, NEW assigned, NEW w,
         d.run[r].status \in Open, d.fan[r].state = "none"
  PROVE  Calm(d, StoppedPlain(d, r, assigned, w))
<1> DEFINE e == StoppedPlain(d, r, assigned, w)
<1>1. d \in Database
  BY DEF LedgerInv
<1>2. /\ e.run = [d.run EXCEPT ![r].status = "cancelled"]
      /\ e.fan = d.fan /\ e.task = d.task /\ e.recon = d.recon
  BY <1>1 DEF StoppedPlain, Database
<1> HIDE DEF e
<1>3. "cancelled" \in Lost
  BY DEF Lost
<1>4. Calm(d, e)
  BY <1>2, <1>3, PlainEndCalm
<1> QED
  BY <1>4 DEF e

\* Time passes calmly.
LEMMA ClockCalm ==
  ASSUME NEW d \in Database
  PROVE  /\ \A t \in Tasks : Calm(d, [d EXCEPT !.task[t].expired = TRUE])
         /\ \A r \in Runs : Calm(d, [d EXCEPT !.fan[r].deadline = "passed"])
<1>1. ASSUME NEW t \in Tasks PROVE Calm(d, [d EXCEPT !.task[t].expired = TRUE])
  <2> DEFINE e == [d EXCEPT !.task[t].expired = TRUE]
  <2>1. /\ e.task = [d.task EXCEPT ![t].expired = TRUE] /\ d.task \in [Tasks -> TaskRow]
        /\ e.run = d.run /\ e.fan = d.fan /\ e.recon = d.recon
    BY DEF Database
  <2> HIDE DEF e
  <2>2. \A u \in Tasks : e.task[u].state = d.task[u].state /\ e.task[u].worker = d.task[u].worker
    BY <2>1 DEF TaskRow
  <2>3. \A f \in Flows : d.recon[f] => e.recon[f]
    BY <2>1
  <2>4. \A r \in Runs : e.run[r] = d.run[r] /\ e.fan[r] = d.fan[r]
    BY <2>1
  <2>5. Calm(d, e)
    BY <2>2, <2>3, <2>4, SameCalm
  <2> QED
    BY <2>5 DEF e
<1>2. ASSUME NEW r \in Runs PROVE Calm(d, [d EXCEPT !.fan[r].deadline = "passed"])
  <2> DEFINE e == [d EXCEPT !.fan[r].deadline = "passed"]
  <2>1. /\ e.fan = [d.fan EXCEPT ![r].deadline = "passed"] /\ d.fan \in [Runs -> FanRow]
        /\ e.run = d.run /\ e.task = d.task /\ e.recon = d.recon
    BY DEF Database
  <2> HIDE DEF e
  <2>2. \A q \in Runs : e.fan[q].state = d.fan[q].state /\ e.fan[q].sqlStarted = d.fan[q].sqlStarted
    BY <2>1 DEF FanRow
  <2>3. \A f \in Flows : d.recon[f] => e.recon[f]
    BY <2>1
  <2>4. \A q \in Runs : e.run[q] = d.run[q]
    BY <2>1
  <2>5. \A t \in Tasks : e.task[t] = d.task[t]
    BY <2>1
  <2>6. Calm(d, e)
    BY <2>2, <2>3, <2>4, <2>5, SameCalm
  <2> QED
    BY <2>6 DEF e
<1> QED
  BY <1>1, <1>2

-----------------------------------------------------------------------------
(* Claims occupy slots.                                                    *)

\* The image of a finite set under the worker column is no larger.
LEMMA ImageBound ==
  ASSUME NEW S, IsFiniteSet(S), NEW W, NEW f \in [S -> W], \A w \in W : \E s \in S : f[s] = w
  PROVE  IsFiniteSet(W) /\ Cardinality(W) <= Cardinality(S)
<1>1. f \in Surjection(S, W)
  BY DEF Surjection
<1> QED
  BY <1>1, FS_Surjection

\* flow_capacity counts at least the workers that are busy.
LEMMA BusyCounted ==
  ASSUME NEW d, Manned(d), NEW R \in SUBSET Runs
  PROVE  /\ BusyIn(d, R) = Holders(d, R) \cup Helpers(d, R)
         /\ Cardinality(BusyIn(d, R)) <= Assignments(d, R)
         /\ Assignments(d, R) \in Nat
<1> DEFINE S == R \cap RunningRuns(d)
           H == Holders(d, R)
           P == Helpers(d, R)
<1>1. S \in SUBSET Runs /\ IsFiniteSet(Runs) /\ IsFiniteSet(Workers)
  BY CapacityAssumption DEF RunningRuns
<1>2. IsFiniteSet(S) /\ Cardinality(S) \in Nat
  BY <1>1, FS_Subset, FS_CardinalityType
<1>3. H \subseteq Workers /\ P \subseteq Workers /\ H \cap P = {}
  BY DEF Manned, Holders, Helpers, RunningRuns
<1>4. IsFiniteSet(H) /\ IsFiniteSet(P)
  BY <1>1, <1>3, FS_Subset
<1>5. Cardinality(H) \in Nat /\ Cardinality(P) \in Nat
  BY <1>4, FS_CardinalityType
<1>6. Cardinality(H) <= Cardinality(S)
  <2> DEFINE f == [r \in S |-> d.run[r].worker]
  <2>1. f \in [S -> H] /\ \A w \in H : \E r \in S : f[r] = w
    BY DEF Holders
  <2> HIDE DEF f, H, S
  <2> QED
    BY <1>2, <2>1, ImageBound
<1>7. BusyIn(d, R) = H \cup P
  BY <1>3 DEF BusyIn, Holders, Helpers, RunningRuns, Manned
<1>8. Assignments(d, R) = Cardinality(S) + Cardinality(P)
  BY DEF Assignments
<1> HIDE DEF H, P, S
<1>9. Cardinality(H \cup P) = Cardinality(H) + Cardinality(P) - Cardinality(H \cap P)
  BY <1>4, FS_Union
<1>10. Cardinality(H \cap P) = 0
  BY <1>3, FS_EmptySet
<1>11. Cardinality(H \cup P) <= Cardinality(S) + Cardinality(P)
  BY <1>2, <1>5, <1>6, <1>9, <1>10
<1> QED
  BY <1>2, <1>5, <1>7, <1>8, <1>11 DEF H, P

\* One more worker is busy, where the limit was not reached or the worker was
\* busy already.
LEMMA OneMore ==
  ASSUME NEW d, NEW e, NEW R \in SUBSET Runs, NEW w, NEW n \in Nat,
         BusyIn(e, R) \subseteq BusyIn(d, R) \cup {w}, Cardinality(BusyIn(d, R)) <= n,
         w \in BusyIn(d, R) \/ Cardinality(BusyIn(d, R)) < n
  PROVE  Cardinality(BusyIn(e, R)) <= n
<1> DEFINE B == BusyIn(d, R)
<1>1. IsFiniteSet(B) /\ Cardinality(B) \in Nat /\ Cardinality(BusyIn(e, R)) \in Nat
  BY BusyFinite
<1> HIDE DEF B
<1>2. /\ IsFiniteSet(B \cup {w})
      /\ Cardinality(B \cup {w}) = IF w \in B THEN Cardinality(B) ELSE Cardinality(B) + 1
  BY <1>1, FS_AddElement
<1>3. Cardinality(BusyIn(e, R)) <= Cardinality(B \cup {w})
  BY <1>2, FS_Subset DEF B
<1>4. Cardinality(B \cup {w}) <= n
  BY <1>1, <1>2 DEF B
<1> QED
  BY <1>1, <1>2, <1>3, <1>4

\* The worker w takes a slot for the run r.
Takes(d, e, w, r) ==
  /\ \A q \in Runs : e.run[q].status \in RunActive =>
       \/ d.run[q].status \in RunActive /\ e.run[q].worker = d.run[q].worker
       \/ q = r /\ e.run[q].worker = w
  /\ \A t \in Tasks : e.task[t].state \in TaskActive =>
       \/ d.task[t].state \in TaskActive /\ e.task[t].worker = d.task[t].worker
       \/ RunOf[t] = r /\ e.task[t].worker = w

\* Whoever claims respects every limit: flow_capacity for the mode and in
\* total, and portal_available, unless the worker is in the run's slot already.
LEMMA TakesSlots ==
  ASSUME NEW d, NEW e, Slots(d), NEW w \in Workers, NEW r \in Runs, Takes(d, e, w, r),
         \/ d.run[r].worker = w /\ d.run[r].status \in RunActive
         \/ Mode[r] = Mode[w] /\ CanClaim(d, w) /\ PortalAvailable(d, r, NoWorker),
         Cardinality(ActiveTasks(e, r)) <= Parallelism[r]
  PROVE  Slots(e)
<1> DEFINE Has == d.run[r].worker = w /\ d.run[r].status \in RunActive
<1>1. Manned(d)
  BY DEF Slots
<1>2. Manned(e)
  BY <1>1 DEF Takes, Manned
<1>3. ASSUME NEW R \in SUBSET Runs PROVE BusyIn(e, R) \subseteq BusyIn(d, R) \cup {w}
  BY DEF Takes, BusyIn
<1>4. ASSUME NEW R \in SUBSET Runs, r \notin R PROVE BusyIn(e, R) \subseteq BusyIn(d, R)
  BY <1>4 DEF Takes, BusyIn
<1>5. ASSUME NEW R \in SUBSET Runs, r \in R, Has PROVE w \in BusyIn(d, R)
  BY <1>5 DEF BusyIn
<1>6. ASSUME NEW R \in SUBSET Runs, NEW n \in Nat, Cardinality(BusyIn(d, R)) <= n,
             r \notin R \/ Has \/ Cardinality(BusyIn(d, R)) < n
      PROVE  Cardinality(BusyIn(e, R)) <= n
  BY <1>3, <1>4, <1>5, <1>6, OneMore, FewerBusy
<1>7. Cardinality(BusyIn(e, Runs)) <= TotalCapacity
  <2>1. TotalCapacity \in Nat /\ Cardinality(BusyIn(d, Runs)) <= TotalCapacity
    BY CapacityAssumption DEF Slots
  <2>2. Cardinality(BusyIn(d, Runs)) <= Assignments(d, Runs) /\ Assignments(d, Runs) \in Nat
        /\ Cardinality(BusyIn(d, Runs)) \in Nat
    BY <1>1, BusyCounted, BusyFinite
  <2>3. Has \/ Cardinality(BusyIn(d, Runs)) < TotalCapacity
    BY <2>1, <2>2 DEF CanClaim
  <2> QED
    BY <1>6, <2>1, <2>3
<1>8. ASSUME NEW m \in DOMAIN ModeCapacity PROVE Cardinality(BusyIn(e, RunsOfMode(m))) <= ModeCapacity[m]
  <2> DEFINE R == RunsOfMode(m)
  <2>1. ModeCapacity[m] \in Nat /\ Cardinality(BusyIn(d, R)) <= ModeCapacity[m]
    BY CapacityAssumption DEF Slots
  <2>2. R \in SUBSET Runs /\ (r \in R <=> Mode[r] = m)
    BY DEF RunsOfMode
  <2>3. CanClaim(d, w) /\ Mode[w] = m => Assignments(d, R) < ModeCapacity[m]
    BY DEF CanClaim
  <2> HIDE DEF R
  <2>4. Cardinality(BusyIn(d, R)) <= Assignments(d, R) /\ Assignments(d, R) \in Nat
        /\ Cardinality(BusyIn(d, R)) \in Nat
    BY <1>1, <2>2, BusyCounted, BusyFinite
  <2>5. r \notin R \/ Has \/ Cardinality(BusyIn(d, R)) < ModeCapacity[m]
    BY <2>1, <2>2, <2>3, <2>4
  <2> QED
    BY <1>6, <2>1, <2>2, <2>5 DEF R
<1>9. ASSUME NEW s \in DOMAIN PortalCapacity PROVE Cardinality(BusyIn(e, RunsOfSite(s))) <= PortalCapacity[s]
  <2> DEFINE R == RunsOfSite(s)
  <2>1. PortalCapacity[s] \in Nat /\ Cardinality(BusyIn(d, R)) <= PortalCapacity[s]
    BY CapacityAssumption DEF Slots
  <2>2. R \in SUBSET Runs /\ (r \in R <=> Site[r] = s)
    BY DEF RunsOfSite
  <2>3. PortalUsers(d, s) = BusyIn(d, R)
    BY <1>1, <2>2, BusyCounted DEF PortalUsers, RunsOfSite
  <2>4. NoWorker \notin BusyIn(d, R)
    BY NullAssumption DEF BusyIn
  <2>5. r \notin R \/ Has \/ Cardinality(BusyIn(d, R)) < PortalCapacity[s]
    BY <2>2, <2>3, <2>4 DEF PortalAvailable
  <2> QED
    BY <1>6, <2>1, <2>2, <2>5 DEF R
<1>10. ASSUME NEW q \in Runs, q # r PROVE ActiveTasks(e, q) \subseteq ActiveTasks(d, q)
  BY <1>10 DEF Takes, ActiveTasks, TasksOf
<1>11. ASSUME NEW q \in Runs PROVE Cardinality(ActiveTasks(e, q)) <= Parallelism[q]
  BY <1>10, FewerTasks, CapacityAssumption DEF Slots
<1> QED
  BY <1>2, <1>7, <1>8, <1>9, <1>11 DEF Slots

-----------------------------------------------------------------------------
(* What is not calm: claims, and the start of a load.                      *)

\* Both invariants at once; a calm rewrite keeps them.
Guarded(d, A) == Fenced(d, A) /\ Slots(d)

\* Fences know of the ledger what the calm lemmas ask for.
LEMMA FencedBegun ==
  ASSUME NEW d, NEW A, Fenced(d, A)
  PROVE  Begun(d) /\ Unloaded(d)
BY DEF Fenced, Unloaded

\* A calm rewrite keeps fences and slots.
LEMMA CalmGuarded ==
  ASSUME NEW d, NEW e, NEW A, Guarded(d, A), Calm(d, e)
  PROVE  Guarded(e, A)
BY CalmFenced, CalmSlots DEF Guarded

\* A claimed task takes at most one slot more, of its worker and its bundle.
LEMMA AssignTaskGuarded ==
  ASSUME NEW d, LedgerInv(d), NEW A, Guarded(d, A), NEW w \in Workers, NEW R, NEW t \in TaskOffers(d, w, R)
  PROVE  Guarded(AssignTask(d, w, t), A)
<1> DEFINE e == AssignTask(d, w, t)
           r == RunOf[t]
<1>1. d \in Database /\ Fenced(d, A) /\ Slots(d)
  BY DEF LedgerInv, Guarded
<1>2. t \in Tasks /\ (\/ d.wk[w].task = t /\ d.task[t].state = "claimed"
                      \/ Claimable(d, w, t))
  BY <1>1, OffersClaimable
<1>3. CASE d.wk[w].task = t /\ d.task[t].state = "claimed"
  BY <1>3 DEF AssignTask
<1>4. CASE ~(d.wk[w].task = t /\ d.task[t].state = "claimed")
  <2>1. Claimable(d, w, t) /\ r \in Runs
    BY <1>2, <1>4, ShapeAssumption
  <2>2. e = [d EXCEPT !.task[t] = [state |-> "claimed", worker |-> w, expired |-> FALSE], !.wk[w].task = t]
    BY <1>4 DEF AssignTask
  <2> HIDE DEF e
  <2>3. /\ e.run = d.run /\ e.fan = d.fan /\ e.recon = d.recon /\ d.task \in [Tasks -> TaskRow]
        /\ e.task = [d.task EXCEPT ![t] = [state |-> "claimed", worker |-> w, expired |-> FALSE]]
    BY <1>1, <2>2 DEF Database
  <2>4. /\ e.task[t].worker = w /\ \A u \in Tasks : u # t => e.task[u] = d.task[u]
        /\ \A q \in Runs : e.run[q] = d.run[q] /\ e.fan[q] = d.fan[q]
    BY <1>2, <2>3
  <2>5. ASSUME NEW q \in Runs PROVE FenceRun(d, e, q)
    <3>1. SqlUncertain(e, q) <=> SqlUncertain(d, q)
      BY <2>4 DEF SqlUncertain, ReconciliationRequired
    <3> QED
      BY <2>4, <3>1 DEF FenceRun, Lost, Open, RunActive
  <2>6. \A f \in Flows : d.recon[f] => e.recon[f]
    BY <2>3
  <2>7. Fenced(e, A)
    BY <1>1, <2>5, <2>6, FenceKept
  <2>8. Takes(d, e, w, r)
    BY <2>4 DEF Takes
  <2>9. \/ d.run[r].worker = w /\ d.run[r].status \in RunActive
        \/ Mode[r] = Mode[w] /\ CanClaim(d, w) /\ PortalAvailable(d, r, NoWorker)
    BY <2>1 DEF Claimable, OwnsRun, HasSlot
  <2>10. Cardinality(ActiveTasks(e, r)) <= Parallelism[r]
    <3> DEFINE B == ActiveTasks(d, r)
    <3>1. IsFiniteSet(B) /\ Cardinality(B) \in Nat /\ Cardinality(ActiveTasks(e, r)) \in Nat
      BY ActiveTasksFinite
    <3>2. Cardinality(B) < Parallelism[r] /\ Parallelism[r] \in Nat
      BY <2>1, CapacityAssumption DEF Claimable, BundleBelowLimit, ActiveTasks
    <3>3. ActiveTasks(e, r) \subseteq B \cup {t}
      BY <2>4 DEF ActiveTasks, TasksOf
    <3> HIDE DEF B
    <3>4. /\ IsFiniteSet(B \cup {t})
          /\ Cardinality(B \cup {t}) = IF t \in B THEN Cardinality(B) ELSE Cardinality(B) + 1
      BY <3>1, FS_AddElement
    <3>5. Cardinality(ActiveTasks(e, r)) <= Cardinality(B \cup {t})
      BY <3>3, <3>4, FS_Subset
    <3> QED
      BY <3>1, <3>2, <3>4, <3>5
  <2>11. Slots(e)
    BY <1>1, <2>1, <2>8, <2>9, <2>10, TakesSlots
  <2> QED
    BY <2>7, <2>11 DEF Guarded, e
<1> QED
  BY <1>3, <1>4

\* A claimed run takes a slot; it was open before.
LEMMA AssignRunGuarded ==
  ASSUME NEW d, LedgerInv(d), NEW A, Guarded(d, A), NEW w \in Workers, NEW r \in RunOffers(d, w)
  PROVE  Guarded(AssignRun(d, w, r), A)
<1> DEFINE e == AssignRun(d, w, r)
<1>1. d \in Database /\ Fenced(d, A) /\ Slots(d)
  BY DEF LedgerInv, Guarded
<1>2. /\ r \in Runs /\ d.run[r].status = "queued" /\ Mode[r] = Mode[w]
      /\ CanClaim(d, w) /\ PortalAvailable(d, r, NoWorker)
  BY DEF RunOffers
<1>3. /\ e.run = [d.run EXCEPT ![r] = [@ EXCEPT !.status = "claimed", !.worker = w]]
      /\ e.fan = d.fan /\ e.recon = d.recon /\ e.task = d.task
      /\ d.run \in [Runs -> RunRow] /\ d.run[r] \in RunRow
  BY <1>1, <1>2 DEF AssignRun, Database
<1> HIDE DEF e
<1>4. /\ e.run[r].status = "claimed" /\ e.run[r].worker = w
      /\ e.run[r].sqlComplete = d.run[r].sqlComplete
      /\ \A q \in Runs : q # r => e.run[q] = d.run[q]
  BY <1>2, <1>3 DEF RunRow
<1>5. ASSUME NEW q \in Runs PROVE FenceRun(d, e, q)
  <2>1. e.run[q].sqlComplete = d.run[q].sqlComplete /\ e.fan[q] = d.fan[q]
    BY <1>3, <1>4
  <2>2. SqlUncertain(e, q) <=> SqlUncertain(d, q)
    BY <2>1 DEF SqlUncertain, ReconciliationRequired
  <2>3. CASE q = r
    BY <1>2, <1>4, <2>1, <2>2, <2>3 DEF FenceRun, Lost, Open, RunActive
  <2>4. CASE q # r
    <3>1. e.run[q] = d.run[q]
      BY <1>4, <2>4
    <3> QED
      BY <2>1, <2>2, <3>1 DEF FenceRun, Lost, Open, RunActive
  <2> QED
    BY <2>3, <2>4
<1>6. \A f \in Flows : d.recon[f] => e.recon[f]
  BY <1>3
<1>7. Fenced(e, A)
  BY <1>1, <1>5, <1>6, FenceKept
<1>8. Takes(d, e, w, r)
  BY <1>3, <1>4 DEF Takes
<1>9. Cardinality(ActiveTasks(e, r)) <= Parallelism[r]
  <2>1. ActiveTasks(e, r) = ActiveTasks(d, r)
    BY <1>3 DEF ActiveTasks
  <2> QED
    BY <1>1, <1>2, <2>1 DEF Slots
<1>10. Slots(e)
  BY <1>1, <1>2, <1>8, <1>9, TakesSlots
<1> QED
  BY <1>7, <1>10 DEF Guarded, e

\* A load begins in a finalizing bundle of an active run.
LEMMA LoadGuarded ==
  ASSUME NEW d, LedgerInv(d), NEW A, Guarded(d, A), NEW r \in Runs,
         d.run[r].status \in RunActive, d.fan[r].state = "finalizing"
  PROVE  Guarded([d EXCEPT !.run[r].status = "running", !.fan[r].sqlStarted = TRUE], A)
<1> DEFINE e == [d EXCEPT !.run[r].status = "running", !.fan[r].sqlStarted = TRUE]
<1>1. d \in Database /\ Fenced(d, A) /\ Slots(d)
  BY DEF LedgerInv, Guarded
<1>2. /\ e.run = [d.run EXCEPT ![r].status = "running"]
      /\ e.fan = [d.fan EXCEPT ![r].sqlStarted = TRUE] /\ e.recon = d.recon /\ e.task = d.task
      /\ d.run \in [Runs -> RunRow] /\ d.fan \in [Runs -> FanRow]
  BY <1>1 DEF Database
<1> HIDE DEF e
<1>3. /\ e.run[r].status = "running" /\ e.run[r].worker = d.run[r].worker /\ e.fan[r].state = "finalizing"
      /\ \A q \in Runs : q # r => e.run[q] = d.run[q] /\ e.fan[q] = d.fan[q]
  BY <1>2 DEF RunRow, FanRow
<1>4. \A q \in Runs : q # r => (SqlUncertain(e, q) <=> SqlUncertain(d, q))
  BY <1>3 DEF SqlUncertain, ReconciliationRequired
<1>5. \A q \in Runs : e.run[q].status \in Open <=> d.run[q].status \in Open
  BY <1>3 DEF Open, RunActive
<1>6. \A p, q \in Runs : FlowOf[p] = FlowOf[q] /\ e.run[p].status \in Open /\ e.run[q].status \in Open => p = q
  BY <1>1, <1>5 DEF Fenced
<1>7. Begun(e)
  BY <1>1, <1>3 DEF Fenced, Begun
<1>8. \A q \in Runs : e.fan[q].state \in {"none", "downloading"} => ~e.fan[q].sqlStarted
  BY <1>1, <1>3 DEF Fenced
<1>9. \A q \in Runs : e.fan[q].state = "aborting" /\ SqlUncertain(e, q) => e.recon[FlowOf[q]]
  BY <1>1, <1>2, <1>3, <1>4 DEF Fenced
<1>10. ASSUME NEW q \in Runs, e.run[q].status \in Lost, SqlUncertain(e, q), q \notin A
       PROVE  /\ e.recon[FlowOf[q]]
              /\ \A p \in Append : FlowOf[p] = FlowOf[q] => e.run[p].status \notin Open
  <2>1. q # r
    BY <1>3, <1>10 DEF Lost
  <2>2. d.run[q].status \in Lost /\ SqlUncertain(d, q)
    BY <1>3, <1>4, <1>10, <2>1
  <2>3. d.recon[FlowOf[q]] /\ \A p \in Append : FlowOf[p] = FlowOf[q] => d.run[p].status \notin Open
    BY <1>1, <1>10, <2>2 DEF Fenced
  <2>4. Append \subseteq Runs
    BY ShapeAssumption
  <2> QED
    BY <1>2, <1>5, <2>3, <2>4
<1>11. Fenced(e, A)
  BY <1>6, <1>7, <1>8, <1>9, <1>10 DEF Fenced
<1>12. \A q \in Runs : e.run[q].status \in RunActive => d.run[q].status \in RunActive /\ e.run[q].worker = d.run[q].worker
  BY <1>3
<1>13. Slots(e)
  BY <1>1, <1>2, <1>12, SlotsKept
<1> QED
  BY <1>11, <1>13 DEF Guarded, e

-----------------------------------------------------------------------------
(* Assignments.  Run rows and task rows name their worker, and worker rows *)
(* name their run and task.  They agree as long as recovery needs it: a    *)
(* rewrite that is Steady for every row keeps the agreement, and what      *)
(* assigns or latches has an argument of its own.                          *)

\* A run that no worker has taken, and a bundle that will only end.
Waiting == {"none", "queued"}
Ending == {"aborting", "complete"}
\* The two excuses of an active run that is not its worker's current one: its
\* coordinator is known to be gone, or a stopped run of the same worker may end
\* late and free the row.
GoneIn(d, r) == d.fan[r].state = "aborting" /\ d.fan[r].stopped
DisplacedIn(d, r) ==
  \E q \in Runs \ {r} : d.run[q].worker = d.run[r].worker /\ d.fan[q].stopped
Excused(d, r) == GoneIn(d, r) \/ DisplacedIn(d, r)
\* What a claimed task holds: its worker, unlatched, in a bundle that downloads.
Leased(d, t) ==
  LET w == d.task[t].worker IN
  /\ w \in Workers
  /\ d.wk[w].task = t /\ d.wk[w].fence = 0
  /\ d.wk[w].run \in {NoRun, RunOf[t]}
  /\ d.fan[RunOf[t]].state = "downloading"

\* Runs and tasks know their workers and the workers know them.  S are the
\* runs that somebody stops.
Agreed(d, S) ==
  /\ \A r \in Runs : d.run[r].status \in RunActive =>
       d.run[r].worker \in Workers /\ (Excused(d, r) \/ d.wk[d.run[r].worker].run = r)
  /\ \A r \in Runs : d.fan[r].stopped \/ r \in S => d.fan[r].state \in Ending
  /\ \A t \in Tasks : d.task[t].state = "claimed" => Leased(d, t)
  /\ \A w \in Workers : d.wk[w].pid = 0 => d.wk[w].run = NoRun /\ d.wk[w].task = NoTask
  /\ \A r \in Runs : d.run[r].status \in Waiting => d.run[r].worker = NoWorker

\* A rewrite from d to e assigns nothing, and takes from a worker only what it
\* need not hold any more.
SteadyRun(d, e, r) ==
  /\ e.run[r].worker = d.run[r].worker
  /\ e.run[r].status \in RunActive => d.run[r].status \in RunActive
  /\ e.run[r].status \in Waiting => d.run[r].status \in Waiting
  /\ d.fan[r].stopped => e.fan[r].stopped
  /\ d.fan[r].state \in Ending => e.fan[r].state \in Ending
  /\ e.fan[r].stopped => d.fan[r].stopped \/ e.fan[r].state \in Ending
  /\ GoneIn(d, r) /\ e.run[r].status \in RunActive => GoneIn(e, r)
SteadyTask(d, e, t) ==
  e.task[t].state = "claimed" =>
    /\ d.task[t].state = "claimed" /\ e.task[t].worker = d.task[t].worker
    /\ e.wk[e.task[t].worker].task = d.wk[e.task[t].worker].task
    /\ e.fan[RunOf[t]].state = "downloading"
\* Worker rows lose their run at most, and keep their process.
Narrow(d, e) ==
  \A w \in Workers : e.wk[w].run \in {d.wk[w].run, NoRun} /\ e.wk[w].pid = d.wk[w].pid
SteadyWorker(d, e, w) ==
  /\ e.wk[w].pid = d.wk[w].pid
  /\ e.wk[w].task \in {d.wk[w].task, NoTask}
  /\ e.wk[w].fence \in {d.wk[w].fence, 0}
  /\ \/ e.wk[w].run = d.wk[w].run
     \/ /\ e.wk[w].run = NoRun
        /\ \A r \in Runs : d.wk[w].run = r /\ e.run[r].worker = w /\ e.run[r].status \in RunActive =>
             Excused(e, r)
Steady(d, e) ==
  /\ \A r \in Runs : SteadyRun(d, e, r)
  /\ \A t \in Tasks : SteadyTask(d, e, t)
  /\ \A w \in Workers : SteadyWorker(d, e, w)

\* Assignments survive a steady rewrite.
LEMMA SteadyAgrees ==
  ASSUME NEW d, NEW e, NEW S, Agreed(d, S), Steady(d, e)
  PROVE  Agreed(e, S) /\ Narrow(d, e)
<1>1. ASSUME NEW r \in Runs, e.run[r].status \in RunActive, Excused(d, r) PROVE Excused(e, r)
  <2>1. \A q \in Runs : /\ e.run[q].worker = d.run[q].worker
                        /\ d.fan[q].stopped => e.fan[q].stopped
    BY DEF Steady, SteadyRun
  <2>2. CASE GoneIn(d, r)
    BY <1>1, <2>2 DEF Steady, SteadyRun, Excused
  <2>3. CASE DisplacedIn(d, r)
    BY <2>1, <2>3 DEF DisplacedIn, Excused
  <2> QED
    BY <1>1, <2>2, <2>3 DEF Excused
<1>2. ASSUME NEW r \in Runs, e.run[r].status \in RunActive
      PROVE  e.run[r].worker \in Workers /\ (Excused(e, r) \/ e.wk[e.run[r].worker].run = r)
  <2>1. /\ d.run[r].status \in RunActive /\ e.run[r].worker = d.run[r].worker
        /\ d.run[r].worker \in Workers /\ (Excused(d, r) \/ d.wk[d.run[r].worker].run = r)
    BY <1>2 DEF Steady, SteadyRun, Agreed
  <2> DEFINE w == e.run[r].worker
  <2>2. SteadyWorker(d, e, w)
    BY <2>1 DEF Steady
  <2> HIDE DEF w
  <2>3. ASSUME d.wk[w].run = r, e.run[r].worker = w PROVE Excused(e, r) \/ e.wk[w].run = r
    BY <1>2, <2>2, <2>3 DEF SteadyWorker
  <2> QED
    BY <1>1, <1>2, <2>1, <2>3 DEF w
<1>3. ASSUME NEW r \in Runs, e.fan[r].stopped \/ r \in S PROVE e.fan[r].state \in Ending
  BY <1>3 DEF Steady, SteadyRun, Agreed
<1>4. ASSUME NEW t \in Tasks, e.task[t].state = "claimed" PROVE Leased(e, t)
  <2> DEFINE w == d.task[t].worker
  <2>1. /\ e.task[t].worker = w /\ e.fan[RunOf[t]].state = "downloading"
        /\ e.wk[w].task = d.wk[w].task /\ Leased(d, t)
    BY <1>4 DEF Steady, SteadyTask, Agreed
  <2>2. w \in Workers /\ d.wk[w].task = t /\ d.wk[w].fence = 0 /\ d.wk[w].run \in {NoRun, RunOf[t]}
    BY <2>1 DEF Leased
  <2>3. SteadyWorker(d, e, w)
    BY <2>2 DEF Steady
  <2>4. e.wk[w].fence = 0 /\ e.wk[w].run \in {NoRun, RunOf[t]}
    BY <2>2, <2>3 DEF SteadyWorker
  <2> QED
    BY <2>1, <2>2, <2>4 DEF Leased
<1>5. ASSUME NEW w \in Workers, e.wk[w].pid = 0 PROVE e.wk[w].run = NoRun /\ e.wk[w].task = NoTask
  <2>1. SteadyWorker(d, e, w)
    BY DEF Steady
  <2> QED
    BY <1>5, <2>1 DEF SteadyWorker, Agreed
<1>6. Narrow(d, e)
  BY DEF Steady, SteadyWorker, Narrow
<1>7. \A r \in Runs : e.run[r].status \in Waiting => e.run[r].worker = NoWorker
  BY DEF Steady, SteadyRun, Agreed
<1> QED
  BY <1>2, <1>3, <1>4, <1>5, <1>6, <1>7 DEF Agreed

\* Rewrites that leave the workers alone.
LEMMA RowsKeptSteady ==
  ASSUME NEW d, NEW e, e.wk = d.wk, \A r \in Runs : SteadyRun(d, e, r),
         \A t \in Tasks : e.task[t].state = "claimed" =>
            /\ d.task[t].state = "claimed" /\ e.task[t].worker = d.task[t].worker
            /\ e.fan[RunOf[t]].state = "downloading"
  PROVE  Steady(d, e)
BY DEF Steady, SteadyTask, SteadyWorker

\* Losing runs and keeping processes composes.
LEMMA NarrowCompose ==
  ASSUME NEW d, NEW e, NEW g, Narrow(d, e), Narrow(e, g)
  PROVE  Narrow(d, g)
BY DEF Narrow

\* abort() fences what is claimed, and a bundle it aborts stays aborting.
LEMMA AbortAgrees ==
  ASSUME NEW d, LedgerInv(d), NEW S, Agreed(d, S), NEW R \in SUBSET Runs,
         NEW terminal \in TerminalStatus, NEW stopped \in BOOLEAN
  PROVE  LET e == Abort(d, R, terminal, stopped) IN
         /\ Agreed(e, S) /\ Narrow(d, e)
         /\ \A r \in R : Abortable(d, r) /\ stopped = TRUE => GoneIn(e, r)
         /\ \A r \in R : d.fan[r].state # "none" => e.fan[r].state \in Ending
         /\ e.run = d.run /\ e.wk = d.wk
<1> DEFINE e == Abort(d, R, terminal, stopped)
           A == {r \in R : Abortable(d, r)}
<1>1. d \in Database /\ \A r \in Runs : d.fan[r] \in FanRow
  BY Rows DEF LedgerInv
<1>2. AbortEffect(d, R, e)
  BY <1>1, AbortRows
<1>3. /\ e.fan = [r \in Runs |-> IF r \notin A THEN d.fan[r] ELSE
                    [d.fan[r] EXCEPT !.state = "aborting",
                                     !.stopped = @ \/ stopped,
                                     !.terminal = IF @ = "none" THEN terminal ELSE @,
                                     !.deadline = IF @ = "unset" THEN "set" ELSE @]]
      /\ e.task = [t \in Tasks |-> IF RunOf[t] \notin A THEN d.task[t] ELSE
                     [d.task[t] EXCEPT !.state = FencedState(@)]]
  BY <1>1 DEF Abort, Database
<1> HIDE DEF e
<1>4. ASSUME NEW r \in Runs
      PROVE  e.fan[r].stopped = IF r \in A THEN d.fan[r].stopped \/ stopped ELSE d.fan[r].stopped
  <2> DEFINE row == d.fan[r]
             halted == row.stopped \/ stopped
             ending == IF row.terminal = "none" THEN terminal ELSE row.terminal
             limit == IF row.deadline = "unset" THEN "set" ELSE row.deadline
  <2>1. CASE r \notin A
    BY <1>3, <2>1
  <2>2. CASE r \in A
    <3>1. e.fan[r] = [row EXCEPT !.state = "aborting", !.stopped = halted,
                                 !.terminal = ending, !.deadline = limit]
      BY <1>3, <2>2
    <3>2. row \in FanRow
      BY <1>1
    <3> HIDE DEF row, ending, limit, halted
    <3>3. e.fan[r].stopped = halted
      BY <3>1, <3>2 DEF FanRow
    <3> QED
      BY <2>2, <3>3 DEF halted, row
  <2> QED
    BY <2>1, <2>2
<1>5. ASSUME NEW t \in Tasks, e.task[t].state = "claimed"
      PROVE  /\ d.task[t].state = "claimed" /\ e.task[t].worker = d.task[t].worker
             /\ e.fan[RunOf[t]].state = "downloading"
  <2>1. d.task[t] \in TaskRow /\ RunOf[t] \in Runs
    BY <1>1, Rows, ShapeAssumption
  <2>2. RunOf[t] \notin A
    <3> SUFFICES ASSUME RunOf[t] \in A PROVE FALSE
      OBVIOUS
    <3>1. e.task[t].state = FencedState(d.task[t].state)
      BY <1>2 DEF AbortEffect
    <3> QED
      BY <1>5, <3>1 DEF FencedState
  <2>3. e.task[t] = d.task[t] /\ e.fan[RunOf[t]] = d.fan[RunOf[t]]
    BY <1>3, <2>1, <2>2
  <2> QED
    BY <1>5, <2>3 DEF Agreed, Leased
<1>6. ASSUME NEW r \in Runs PROVE SteadyRun(d, e, r)
  <2>1. /\ e.run = d.run
        /\ e.fan[r].state = IF r \in A THEN "aborting" ELSE d.fan[r].state
    BY <1>2 DEF AbortEffect
  <2>2. d.fan[r].stopped \in BOOLEAN
    BY <1>1 DEF FanRow
  <2> QED
    BY <1>4, <2>1, <2>2 DEF SteadyRun, GoneIn, Ending
<1>7. e.wk = d.wk /\ e.run = d.run
  BY <1>2 DEF AbortEffect
<1>8. Steady(d, e)
  BY <1>5, <1>6, <1>7, RowsKeptSteady
<1>9. \A r \in R : Abortable(d, r) /\ stopped = TRUE => GoneIn(e, r)
  BY <1>2, <1>4 DEF AbortEffect, GoneIn
<1>10. \A r \in R : d.fan[r].state # "none" => e.fan[r].state \in Ending
  BY <1>2 DEF AbortEffect, Abortable, Ending
<1> QED
  BY <1>7, <1>8, <1>9, <1>10, SteadyAgrees DEF e

\* The same for one run.
LEMMA AbortOneAgrees ==
  ASSUME NEW d, LedgerInv(d), NEW S, Agreed(d, S), NEW r \in Runs,
         NEW terminal \in TerminalStatus, NEW stopped \in BOOLEAN
  PROVE  LET e == Abort(d, {r}, terminal, stopped) IN
         /\ Agreed(e, S)
         /\ Abortable(d, r) /\ stopped = TRUE => GoneIn(e, r)
         /\ d.fan[r].state # "none" => e.fan[r].state \in Ending
         /\ e.run = d.run /\ e.wk = d.wk
<1> DEFINE R == {r}
           e == Abort(d, R, terminal, stopped)
<1>1. R \in SUBSET Runs /\ r \in R
  OBVIOUS
<1> HIDE DEF R
<1>2. Agreed(e, S) /\ e.run = d.run /\ e.wk = d.wk
  <2> DEFINE halted == Abort(d, R, terminal, TRUE)
             going == Abort(d, R, terminal, FALSE)
  <2>1. TRUE \in BOOLEAN /\ FALSE \in BOOLEAN
    OBVIOUS
  <2>2. Agreed(halted, S) /\ halted.run = d.run /\ halted.wk = d.wk
    BY <1>1, <2>1, AbortAgrees
  <2>3. Agreed(going, S) /\ going.run = d.run /\ going.wk = d.wk
    BY <1>1, <2>1, AbortAgrees
  <2>4. e = halted \/ e = going
    <3> HIDE DEF halted, going, e
    <3>1. CASE stopped = TRUE
      BY <3>1 DEF e, halted
    <3>2. CASE stopped = FALSE
      BY <3>2 DEF e, going
    <3> QED
      BY <3>1, <3>2
  <2> HIDE DEF halted, going, e
  <2> QED
    BY <2>2, <2>3, <2>4
<1>3. \A q \in R : Abortable(d, q) /\ stopped = TRUE => GoneIn(e, q)
  BY <1>1, AbortAgrees
<1>4. \A q \in R : d.fan[q].state # "none" => e.fan[q].state \in Ending
  BY <1>1, AbortAgrees
<1> HIDE DEF e
<1>5. (Abortable(d, r) /\ stopped = TRUE => GoneIn(e, r)) /\ (d.fan[r].state # "none" => e.fan[r].state \in Ending)
  BY <1>1, <1>3, <1>4
<1> QED
  BY <1>2, <1>5 DEF e, R

\* finish_aborted() frees the rows of the runs it ends.
LEMMA FinishAbortedAgrees ==
  ASSUME NEW d, LedgerInv(d), NEW S, Agreed(d, S), NEW R \in SUBSET Runs
  PROVE  Agreed(FinishAborted(d, R), S) /\ Narrow(d, FinishAborted(d, R))
<1> DEFINE e == FinishAborted(d, R)
           F == {r \in R : Finishable(d, r)}
<1>1. d \in Database /\ F \subseteq Runs /\ \A r \in F : d.fan[r].state = "aborting"
  BY DEF LedgerInv, Finishable
<1>2. /\ \A r \in Runs : d.run[r] \in RunRow /\ d.fan[r] \in FanRow
      /\ \A w \in Workers : d.wk[w] \in WorkerRow
  BY <1>1, Rows
<1>3. /\ e.run = [r \in Runs |-> IF r \notin F THEN d.run[r] ELSE
           [d.run[r] EXCEPT !.status = IF d.fan[r].terminal = "none" THEN "failed"
                                       ELSE d.fan[r].terminal]]
      /\ e.fan = [r \in Runs |-> IF r \notin F THEN d.fan[r] ELSE
           [d.fan[r] EXCEPT !.state = "complete"]]
      /\ e.wk = [w \in Workers |-> IF d.wk[w].run \notin F THEN d.wk[w] ELSE
           [d.wk[w] EXCEPT !.run = NoRun, !.task = NoTask]]
      /\ e.task = d.task
  BY <1>1 DEF FinishAborted, Database
<1> HIDE DEF e, F
<1>4. ASSUME NEW r \in Runs
      PROVE  /\ e.run[r].worker = d.run[r].worker
             /\ e.fan[r].stopped = d.fan[r].stopped
             /\ IF r \in F THEN e.run[r].status \in RunTerminal /\ e.fan[r].state = "complete"
                ELSE e.run[r].status = d.run[r].status /\ e.fan[r].state = d.fan[r].state
  <2>1. CASE r \notin F
    BY <1>3, <2>1
  <2>2. CASE r \in F
    <3> DEFINE status == IF d.fan[r].terminal = "none" THEN "failed" ELSE d.fan[r].terminal
    <3>1. status \in RunTerminal
      BY <1>2 DEF FanRow, RunTerminal
    <3>2. e.run[r] = [d.run[r] EXCEPT !.status = status]
      BY <1>3, <2>2
    <3>3. e.fan[r] = [d.fan[r] EXCEPT !.state = "complete"]
      BY <1>3, <2>2
    <3> HIDE DEF status
    <3> QED
      BY <1>2, <2>2, <3>1, <3>2, <3>3 DEF RunRow, FanRow
  <2> QED
    BY <2>1, <2>2
<1>5. ASSUME NEW r \in Runs PROVE SteadyRun(d, e, r)
  BY <1>4 DEF SteadyRun, GoneIn, Ending, RunActive, RunTerminal, Waiting
<1>6. ASSUME NEW w \in Workers
      PROVE  /\ d.wk[w].run \notin F => e.wk[w] = d.wk[w]
             /\ d.wk[w].run \in F =>
                  /\ e.wk[w].run = NoRun /\ e.wk[w].task = NoTask
                  /\ e.wk[w].pid = d.wk[w].pid /\ e.wk[w].fence = d.wk[w].fence
  <2>1. d.wk[w] \in WorkerRow
    BY <1>2
  <2>2. CASE d.wk[w].run \notin F
    BY <1>3, <2>2
  <2>3. CASE d.wk[w].run \in F
    <3>1. e.wk[w] = [d.wk[w] EXCEPT !.run = NoRun, !.task = NoTask]
      BY <1>3, <2>3
    <3> QED
      BY <2>1, <2>3, <3>1 DEF WorkerRow
  <2> QED
    BY <2>2, <2>3
<1>7. ASSUME NEW w \in Workers PROVE SteadyWorker(d, e, w)
  <2>1. CASE d.wk[w].run \notin F
    BY <1>6, <2>1 DEF SteadyWorker
  <2>2. CASE d.wk[w].run \in F
    <3>1. \A r \in Runs : d.wk[w].run = r => e.run[r].status \notin RunActive
      BY <1>4, <2>2 DEF RunActive, RunTerminal
    <3> QED
      BY <1>6, <2>2, <3>1 DEF SteadyWorker
  <2> QED
    BY <2>1, <2>2
<1>8. ASSUME NEW t \in Tasks PROVE SteadyTask(d, e, t)
  <2> SUFFICES ASSUME d.task[t].state = "claimed"
               PROVE  /\ e.wk[d.task[t].worker].task = d.wk[d.task[t].worker].task
                      /\ e.fan[RunOf[t]].state = "downloading"
    BY <1>3 DEF SteadyTask
  <2> DEFINE w == d.task[t].worker
  <2>1. w \in Workers /\ d.wk[w].run \in {NoRun, RunOf[t]} /\ d.fan[RunOf[t]].state = "downloading"
    BY DEF Agreed, Leased
  <2>2. RunOf[t] \in Runs /\ RunOf[t] \notin F /\ NoRun \notin F
    BY <1>1, <2>1, ShapeAssumption, NullAssumption
  <2> QED
    BY <1>4, <1>6, <2>1, <2>2
<1>9. Steady(d, e)
  BY <1>5, <1>7, <1>8 DEF Steady
<1> QED
  BY <1>9, SteadyAgrees DEF e

\* The first loop of reap() takes the assignment with the lease.
LEMMA CloseExpiredAgrees ==
  ASSUME NEW d, LedgerInv(d), NEW S, Agreed(d, S)
  PROVE  Agreed(CloseExpired(d), S) /\ Narrow(d, CloseExpired(d))
<1> DEFINE e == CloseExpired(d)
           E == ExpiredTasks(d)
<1>1. d \in Database /\ \A t \in Tasks : d.task[t] \in TaskRow
  BY Rows DEF LedgerInv
<1>2. /\ e.run = d.run /\ e.fan = d.fan
      /\ e.task = [t \in Tasks |-> IF t \notin E THEN d.task[t] ELSE
           [d.task[t] EXCEPT !.state = IF @ = "claimed" THEN "failed" ELSE "cancelled"]]
      /\ e.wk = [w \in Workers |->
           IF d.wk[w].task \notin E \/ d.task[d.wk[w].task].worker # w THEN d.wk[w] ELSE
           [d.wk[w] EXCEPT !.task = NoTask]]
  BY <1>1 DEF CloseExpired, Database
<1> HIDE DEF e, E
<1>3. \A r \in Runs : SteadyRun(d, e, r)
  BY <1>2 DEF SteadyRun, GoneIn
<1>4. ASSUME NEW w \in Workers
      PROVE  /\ d.wk[w].task \notin E => e.wk[w] = d.wk[w]
             /\ e.wk[w].run = d.wk[w].run /\ e.wk[w].task \in {d.wk[w].task, NoTask}
             /\ e.wk[w].pid = d.wk[w].pid /\ e.wk[w].fence = d.wk[w].fence
  <2>1. d.wk[w] \in WorkerRow
    BY <1>1, Rows
  <2> QED
    BY <1>2, <2>1 DEF WorkerRow
<1>5. ASSUME NEW t \in Tasks, e.task[t].state = "claimed" PROVE t \notin E /\ e.task[t] = d.task[t]
  BY <1>1, <1>2, <1>5 DEF TaskRow
<1>6. ASSUME NEW t \in Tasks PROVE SteadyTask(d, e, t)
  <2> SUFFICES ASSUME e.task[t].state = "claimed"
               PROVE  /\ e.wk[d.task[t].worker].task = d.wk[d.task[t].worker].task
                      /\ e.fan[RunOf[t]].state = "downloading"
    BY <1>5 DEF SteadyTask
  <2>1. t \notin E /\ d.task[t].state = "claimed"
    BY <1>5
  <2>2. Leased(d, t)
    BY <2>1 DEF Agreed
  <2> QED
    BY <1>2, <1>4, <2>1, <2>2 DEF Leased
<1>7. \A w \in Workers : SteadyWorker(d, e, w)
  BY <1>4 DEF SteadyWorker
<1>8. Steady(d, e)
  BY <1>3, <1>6, <1>7 DEF Steady
<1> QED
  BY <1>8, SteadyAgrees DEF e

\* A passed deadline stands in for the stop of a coordinator that aborts.
LEMMA PassDeadlinesAgrees ==
  ASSUME NEW d, LedgerInv(d), NEW S, Agreed(d, S)
  PROVE  Agreed(PassDeadlines(d), S) /\ Narrow(d, PassDeadlines(d))
<1> DEFINE e == PassDeadlines(d)
<1>1. d \in Database /\ \A r \in Runs : d.fan[r] \in FanRow
  BY Rows DEF LedgerInv
<1>2. /\ e.run = d.run /\ e.task = d.task /\ e.wk = d.wk
      /\ e.fan = [r \in Runs |->
           IF d.fan[r].state = "aborting" /\ d.fan[r].deadline = "passed"
           THEN [d.fan[r] EXCEPT !.stopped = TRUE] ELSE d.fan[r]]
  BY <1>1 DEF PassDeadlines, Database
<1> HIDE DEF e
<1>3. ASSUME NEW r \in Runs
      PROVE  /\ e.fan[r].state = d.fan[r].state
             /\ \/ e.fan[r].stopped = d.fan[r].stopped
                \/ e.fan[r].stopped = TRUE /\ d.fan[r].state = "aborting"
  <2>1. d.fan[r] \in FanRow
    BY <1>1
  <2>2. CASE d.fan[r].state = "aborting" /\ d.fan[r].deadline = "passed"
    <3>1. e.fan[r] = [d.fan[r] EXCEPT !.stopped = TRUE]
      BY <1>2, <2>2
    <3> QED
      BY <2>1, <2>2, <3>1 DEF FanRow
  <2>3. CASE ~(d.fan[r].state = "aborting" /\ d.fan[r].deadline = "passed")
    BY <1>2, <2>3
  <2> QED
    BY <2>2, <2>3
<1>4. \A r \in Runs : SteadyRun(d, e, r)
  BY <1>2, <1>3 DEF SteadyRun, GoneIn, Ending
<1>5. ASSUME NEW t \in Tasks, e.task[t].state = "claimed"
      PROVE  /\ d.task[t].state = "claimed" /\ e.task[t].worker = d.task[t].worker
             /\ e.fan[RunOf[t]].state = "downloading"
  BY <1>2, <1>3, <1>5, ShapeAssumption DEF Agreed, Leased
<1>6. Steady(d, e)
  BY <1>2, <1>4, <1>5, RowsKeptSteady
<1> QED
  BY <1>6, SteadyAgrees DEF e

\* reap() as a whole.
LEMMA ReapAgrees ==
  ASSUME NEW d, LedgerInv(d), NEW S, Agreed(d, S)
  PROVE  Agreed(Reap(d), S) /\ Narrow(d, Reap(d))
<1> DEFINE a == CloseExpired(d)
           E == {RunOf[t] : t \in ExpiredTasks(d)}
           b == Abort(a, E, "failed", FALSE)
           c == PassDeadlines(b)
           Q == {r \in Runs : c.fan[r].stopped}
           e == FinishAborted(c, Q)
<1>1. Reap(d) = e
  BY DEF Reap
<1>2. LedgerInv(a) /\ Agreed(a, S) /\ Narrow(d, a)
  BY CloseExpiredKeeps, CloseExpiredAgrees
<1>3. E \in SUBSET Runs /\ "failed" \in TerminalStatus /\ FALSE \in BOOLEAN
  BY ShapeAssumption DEF ExpiredTasks, TerminalStatus
<1> HIDE DEF a, E
<1>4. LedgerInv(b) /\ Agreed(b, S) /\ Narrow(a, b)
  BY <1>2, <1>3, AbortKeeps, AbortAgrees
<1> HIDE DEF b
<1>5. LedgerInv(c)
  <2>1. PassDeadlinesEffect(b, c)
    BY <1>4, PassDeadlinesRows DEF LedgerInv
  <2> HIDE DEF c
  <2>2. SameRows(b, c)
    BY <2>1 DEF PassDeadlinesEffect, SameRows
  <2> QED
    BY <1>4, <2>2, SameRowsKeeps
<1>6. Agreed(c, S) /\ Narrow(b, c)
  BY <1>4, PassDeadlinesAgrees
<1> HIDE DEF c
<1>7. Agreed(e, S) /\ Narrow(c, e)
  BY <1>5, <1>6, FinishAbortedAgrees
<1> HIDE DEF e
<1>8. Narrow(d, b)
  BY <1>2, <1>4, NarrowCompose
<1>9. Narrow(d, c)
  BY <1>6, <1>8, NarrowCompose
<1> QED
  BY <1>1, <1>7, <1>9, NarrowCompose

\* Fewer stops ask less.
LEMMA FewerStops ==
  ASSUME NEW d, NEW S, NEW T \in SUBSET S, Agreed(d, S)
  PROVE  Agreed(d, T)
BY DEF Agreed

\* Rewrites of one run and of assigned runs leave the other leases alone.
LEMMA OneRunSteady ==
  ASSUME NEW d, NEW e, NEW S, Agreed(d, S), NEW r \in Runs, e.task = d.task,
         \A q \in Runs \ {r} : e.run[q] = d.run[q] /\ e.fan[q] = d.fan[q],
         SteadyRun(d, e, r),
         \/ e.fan[r].state = d.fan[r].state
         \/ \A t \in TasksOf(r) : d.task[t].state # "claimed",
         \A w \in Workers : SteadyWorker(d, e, w) /\ e.wk[w].task = d.wk[w].task
  PROVE  Steady(d, e)
<1>1. ASSUME NEW q \in Runs PROVE SteadyRun(d, e, q)
  BY DEF SteadyRun, GoneIn
<1>2. ASSUME NEW t \in Tasks PROVE SteadyTask(d, e, t)
  <2> SUFFICES ASSUME d.task[t].state = "claimed"
               PROVE  /\ e.wk[d.task[t].worker].task = d.wk[d.task[t].worker].task
                      /\ e.fan[RunOf[t]].state = "downloading"
    BY DEF SteadyTask
  <2>1. d.task[t].worker \in Workers /\ d.fan[RunOf[t]].state = "downloading" /\ RunOf[t] \in Runs
    BY ShapeAssumption DEF Agreed, Leased
  <2>2. CASE RunOf[t] = r
    BY <2>1, <2>2 DEF TasksOf
  <2>3. CASE RunOf[t] # r
    BY <2>1, <2>3
  <2> QED
    BY <2>2, <2>3
<1> QED
  BY <1>1, <1>2 DEF Steady

\* Rewrites that leave tasks, ledgers and workers as they are, and start no run.
LEMMA StatusAgrees ==
  ASSUME NEW d, NEW e, NEW S, Agreed(d, S), e.task = d.task, e.wk = d.wk,
         \A r \in Runs : /\ e.run[r].worker = d.run[r].worker
                         /\ e.run[r].status \in RunActive => d.run[r].status \in RunActive
                         /\ e.run[r].status \in Waiting => d.run[r].status \in Waiting
                         /\ e.fan[r].state = d.fan[r].state /\ e.fan[r].stopped = d.fan[r].stopped
  PROVE  Agreed(e, S)
<1>1. \A r \in Runs : SteadyRun(d, e, r)
  BY DEF SteadyRun, GoneIn
<1>2. \A t \in Tasks : d.task[t].state = "claimed" => e.fan[RunOf[t]].state = "downloading"
  BY ShapeAssumption DEF Agreed, Leased
<1>3. Steady(d, e)
  BY <1>1, <1>2, RowsKeptSteady
<1> QED
  BY <1>3, SteadyAgrees

\* Whoever loses its worker's row to a run that the worker took before is excused:
\* one of the two was stopped.
LEMMA HolderExcused ==
  ASSUME NEW d, LedgerInv(d), NEW S, Agreed(d, S), NEW w \in Workers,
         NEW q \in Runs, d.run[q].worker = w, d.run[q].status \in RunActive,
         NEW r \in Runs, d.wk[w].run = r, d.run[r].worker = w, d.run[r].status \in RunActive,
         r # q
  PROVE  Excused(d, r)
<1>1. Excused(d, q)
  BY DEF Agreed
<1>2. CASE GoneIn(d, q)
  BY <1>2 DEF GoneIn, Excused, DisplacedIn
<1>3. CASE DisplacedIn(d, q)
  <2>1. PICK p \in Runs \ {q} : d.run[p].worker = w /\ d.fan[p].stopped
    BY <1>3 DEF DisplacedIn
  <2>2. CASE p # r
    BY <2>1, <2>2 DEF Excused, DisplacedIn
  <2>3. CASE p = r
    <3>1. d.fan[r].state \in Ending
      BY <2>1, <2>3 DEF Agreed
    <3>2. d.fan[r].state # "complete"
      BY DEF LedgerInv, LedgerEndsWithRun, RunActive, RunTerminal
    <3> QED
      BY <2>1, <2>3, <3>1, <3>2 DEF Excused, GoneIn, Ending
  <2> QED
    BY <2>2, <2>3
<1> QED
  BY <1>1, <1>2, <1>3 DEF Excused

\* Taking the current run from a worker that does not hold it any more.
LEMMA UnassignAgrees ==
  ASSUME NEW d, LedgerInv(d), NEW S, Agreed(d, S), NEW w \in Workers,
         \A r \in Runs : d.wk[w].run = r /\ d.run[r].worker = w /\ d.run[r].status \in RunActive =>
           Excused(d, r)
  PROVE  LET e == [d EXCEPT !.wk[w].run = NoRun] IN Agreed(e, S) /\ Narrow(d, e)
<1> DEFINE e == [d EXCEPT !.wk[w].run = NoRun]
<1>1. d \in Database /\ d.wk[w] \in WorkerRow
  BY Rows DEF LedgerInv
<1>2. /\ e.run = d.run /\ e.fan = d.fan /\ e.task = d.task
      /\ e.wk[w] = [d.wk[w] EXCEPT !.run = NoRun]
      /\ \A v \in Workers \ {w} : e.wk[v] = d.wk[v]
  BY <1>1 DEF Database
<1> HIDE DEF e
<1>3. /\ e.wk[w].run = NoRun /\ e.wk[w].task = d.wk[w].task
      /\ e.wk[w].pid = d.wk[w].pid /\ e.wk[w].fence = d.wk[w].fence
  BY <1>1, <1>2 DEF WorkerRow
<1>4. ASSUME NEW v \in Workers PROVE SteadyWorker(d, e, v) /\ e.wk[v].task = d.wk[v].task
  <2>1. CASE v # w
    BY <1>2, <2>1 DEF SteadyWorker
  <2>2. CASE v = w
    <3>1. \A r \in Runs : Excused(d, r) => Excused(e, r)
      BY <1>2 DEF Excused, GoneIn, DisplacedIn
    <3> QED
      BY <1>2, <1>3, <2>2, <3>1 DEF SteadyWorker
  <2> QED
    BY <2>1, <2>2
<1>5. \A r \in Runs : SteadyRun(d, e, r)
  BY <1>2 DEF SteadyRun, GoneIn
<1>6. \A t \in Tasks : SteadyTask(d, e, t)
  BY <1>2, <1>4 DEF SteadyTask, Agreed, Leased
<1>7. Steady(d, e)
  BY <1>4, <1>5, <1>6 DEF Steady
<1> QED
  BY <1>7, SteadyAgrees DEF e

\* A worker row whose current run is taken away unless somebody still needs it.
LosesRun(d, r, wk, v) ==
  \/ wk[v] = d.wk[v]
  \/ /\ wk[v] = [d.wk[v] EXCEPT !.run = NoRun]
     /\ \A q \in Runs \ {r} :
          d.wk[v].run = q /\ d.run[q].worker = v /\ d.run[q].status \in RunActive => Excused(d, q)

\* A run ends, with its ledger if it has one, and workers lose it.
LEMMA EndedRunAgrees ==
  ASSUME NEW d, LedgerInv(d), NEW S, Agreed(d, S), NEW r \in Runs,
         NEW row \in RunRow, row.status \in RunTerminal, row.worker = d.run[r].worker,
         NEW ledger \in FanRow, ledger.stopped = d.fan[r].stopped,
         \/ ledger.state = d.fan[r].state
         \/ ledger.state = "complete" /\ \A t \in TasksOf(r) : d.task[t].state # "claimed",
         NEW wk \in [Workers -> WorkerRow], \A v \in Workers : LosesRun(d, r, wk, v),
         NEW recon \in [Flows -> BOOLEAN]
  PROVE  LET e == RewriteRun(d, r, row, ledger, wk, recon) IN Agreed(e, S) /\ Narrow(d, e)
<1> DEFINE e == RewriteRun(d, r, row, ledger, wk, recon)
<1>1. d \in Database
  BY DEF LedgerInv
<1>2. /\ e.task = d.task /\ e.wk = wk
      /\ e.run = [d.run EXCEPT ![r] = row] /\ e.fan = [d.fan EXCEPT ![r] = ledger]
  BY <1>1 DEF Database, RewriteRun
<1> HIDE DEF e
<1>3. /\ e.run[r] = row /\ e.fan[r] = ledger
      /\ \A q \in Runs \ {r} : e.run[q] = d.run[q] /\ e.fan[q] = d.fan[q]
  BY <1>1, <1>2 DEF Database
<1>4. SteadyRun(d, e, r)
  BY <1>3 DEF SteadyRun, GoneIn, Ending, RunActive, RunTerminal, Waiting
<1>5. ASSUME NEW q \in Runs \ {r}, Excused(d, q) PROVE Excused(e, q)
  <2>1. CASE GoneIn(d, q)
    BY <1>3, <2>1 DEF GoneIn, Excused
  <2>2. CASE DisplacedIn(d, q)
    <3>1. PICK p \in Runs \ {q} : d.run[p].worker = d.run[q].worker /\ d.fan[p].stopped
      BY <2>2 DEF DisplacedIn
    <3>2. e.run[p].worker = d.run[p].worker /\ e.fan[p].stopped
      BY <1>3, <3>1
    <3> QED
      BY <1>3, <3>1, <3>2 DEF Excused, DisplacedIn
  <2> QED
    BY <1>5, <2>1, <2>2 DEF Excused
<1>6. ASSUME NEW v \in Workers PROVE SteadyWorker(d, e, v) /\ e.wk[v].task = d.wk[v].task
  <2>1. CASE wk[v] = d.wk[v]
    BY <1>2, <2>1 DEF SteadyWorker
  <2>2. CASE wk[v] # d.wk[v]
    <3>1. /\ wk[v] = [d.wk[v] EXCEPT !.run = NoRun]
          /\ \A q \in Runs \ {r} :
               d.wk[v].run = q /\ d.run[q].worker = v /\ d.run[q].status \in RunActive => Excused(d, q)
      BY <2>2 DEF LosesRun
    <3>2. d.wk[v] \in WorkerRow
      BY <1>1, Rows
    <3>3. /\ wk[v].run = NoRun /\ wk[v].task = d.wk[v].task
          /\ wk[v].pid = d.wk[v].pid /\ wk[v].fence = d.wk[v].fence
      BY <3>1, <3>2 DEF WorkerRow
    <3>4. ASSUME NEW q \in Runs, d.wk[v].run = q, e.run[q].worker = v, e.run[q].status \in RunActive
          PROVE  Excused(e, q)
      <4>1. q # r
        BY <1>3, <3>4 DEF RunActive, RunTerminal
      <4>2. Excused(d, q)
        BY <1>3, <3>1, <3>4, <4>1
      <4> QED
        BY <1>5, <4>1, <4>2
    <3> QED
      BY <1>2, <3>3, <3>4 DEF SteadyWorker
  <2> QED
    BY <2>1, <2>2
<1>7. \/ e.fan[r].state = d.fan[r].state
      \/ \A t \in TasksOf(r) : d.task[t].state # "claimed"
  BY <1>3
<1>8. \A q \in Runs \ {r} : e.run[q] = d.run[q] /\ e.fan[q] = d.fan[q]
  BY <1>3
<1>9. \A v \in Workers : SteadyWorker(d, e, v) /\ e.wk[v].task = d.wk[v].task
  BY <1>6
<1>10. e.task = d.task
  BY <1>2
<1>11. Steady(d, e)
  BY <1>4, <1>7, <1>8, <1>9, <1>10, OneRunSteady
<1> QED
  BY <1>11, SteadyAgrees DEF e

\* stop_run of a run without a ledger takes it from its worker.
LEMMA StoppedPlainAgrees ==
  ASSUME NEW d, LedgerInv(d), NEW S, Agreed(d, S), NEW r \in Runs, NEW assigned, NEW w
  PROVE  Agreed(StoppedPlain(d, r, assigned, w), S)
<1> DEFINE row == [d.run[r] EXCEPT !.status = "cancelled"]
           wk == [v \in Workers |-> IF assigned /\ v = w /\ d.wk[v].run = r
                                    THEN [d.wk[v] EXCEPT !.run = NoRun] ELSE d.wk[v]]
           e == RewriteRun(d, r, row, d.fan[r], wk, d.recon)
<1>1. /\ d \in Database /\ d.run[r] \in RunRow /\ d.fan[r] \in FanRow
      /\ d.recon \in [Flows -> BOOLEAN]
  BY DEF LedgerInv, Database
<1>2. StoppedPlain(d, r, assigned, w) = e
  BY <1>1 DEF StoppedPlain, RewriteRun, Database
<1>3. row \in RunRow /\ row.status \in RunTerminal /\ row.worker = d.run[r].worker
  BY <1>1 DEF RunRow, RunTerminal
<1>4. wk \in [Workers -> WorkerRow]
  <2> SUFFICES ASSUME NEW v \in Workers PROVE wk[v] \in WorkerRow
    OBVIOUS
  <2>1. d.wk[v] \in WorkerRow
    BY <1>1, Rows
  <2>2. [d.wk[v] EXCEPT !.run = NoRun] \in WorkerRow
    BY <2>1 DEF WorkerRow
  <2> QED
    BY <2>1, <2>2
<1>5. ASSUME NEW v \in Workers PROVE LosesRun(d, r, wk, v)
  BY DEF LosesRun
<1> HIDE DEF row, wk
<1>6. Agreed(e, S)
  BY <1>1, <1>3, <1>4, <1>5, EndedRunAgrees
<1> QED
  BY <1>2, <1>6

\* The process id of a registration is never zero.
LEMMA RegisterPidAgrees ==
  ASSUME NEW d, LedgerInv(d), NEW S, Agreed(d, S), NEW w \in Workers, NEW pid \in Nat \ {0}
  PROVE  Agreed([d EXCEPT !.wk[w].pid = pid], S)
<1> DEFINE e == [d EXCEPT !.wk[w].pid = pid]
<1>1. d \in Database /\ d.wk[w] \in WorkerRow
  BY Rows DEF LedgerInv
<1>2. /\ e.run = d.run /\ e.fan = d.fan /\ e.task = d.task
      /\ e.wk[w] = [d.wk[w] EXCEPT !.pid = pid]
      /\ \A v \in Workers \ {w} : e.wk[v] = d.wk[v]
  BY <1>1 DEF Database
<1> HIDE DEF e
<1>3. /\ e.wk[w].run = d.wk[w].run /\ e.wk[w].task = d.wk[w].task
      /\ e.wk[w].pid = pid /\ e.wk[w].fence = d.wk[w].fence
  BY <1>1, <1>2 DEF WorkerRow
<1>4. \A v \in Workers : /\ e.wk[v].run = d.wk[v].run /\ e.wk[v].task = d.wk[v].task
                         /\ e.wk[v].fence = d.wk[v].fence
                         /\ e.wk[v].pid = 0 => d.wk[v].pid = 0
  BY <1>2, <1>3
<1>5. \A r \in Runs : Excused(d, r) => Excused(e, r)
  BY <1>2 DEF Excused, GoneIn, DisplacedIn
<1>6. \A t \in Tasks : Leased(d, t) => Leased(e, t)
  BY <1>2, <1>4 DEF Leased
<1>7. \A r \in Runs : e.run[r].status \in RunActive =>
        e.run[r].worker \in Workers /\ (Excused(e, r) \/ e.wk[e.run[r].worker].run = r)
  BY <1>2, <1>4, <1>5 DEF Agreed
<1>8. Agreed(e, S)
  BY <1>2, <1>4, <1>6, <1>7 DEF Agreed
<1> QED
  BY <1>8 DEF e

\* A latch is put on workers without a live lease.
LEMMA FenceAgrees ==
  ASSUME NEW d, LedgerInv(d), NEW S, Agreed(d, S), NEW T \in SUBSET Workers,
         \A t \in Tasks : d.task[t].state = "claimed" => d.task[t].worker \notin T
  PROVE  Agreed([d EXCEPT !.wk = [w \in Workers |->
                   IF w \in T THEN [d.wk[w] EXCEPT !.fence = d.wk[w].pid] ELSE d.wk[w]]], S)
<1> DEFINE e == [d EXCEPT !.wk = [w \in Workers |->
                   IF w \in T THEN [d.wk[w] EXCEPT !.fence = d.wk[w].pid] ELSE d.wk[w]]]
<1>1. d \in Database /\ \A w \in Workers : d.wk[w] \in WorkerRow
  BY Rows DEF LedgerInv
<1>2. /\ e.run = d.run /\ e.fan = d.fan /\ e.task = d.task
      /\ e.wk = [w \in Workers |->
                   IF w \in T THEN [d.wk[w] EXCEPT !.fence = d.wk[w].pid] ELSE d.wk[w]]
  BY <1>1 DEF Database
<1> HIDE DEF e
<1>3. ASSUME NEW w \in Workers
      PROVE  /\ e.wk[w].run = d.wk[w].run /\ e.wk[w].task = d.wk[w].task
             /\ e.wk[w].pid = d.wk[w].pid
             /\ w \notin T => e.wk[w].fence = d.wk[w].fence
  <2>1. d.wk[w] \in WorkerRow
    BY <1>1
  <2>2. CASE w \in T
    <3>1. e.wk[w] = [d.wk[w] EXCEPT !.fence = d.wk[w].pid]
      BY <1>2, <2>2
    <3> QED
      BY <2>1, <2>2, <3>1 DEF WorkerRow
  <2>3. CASE w \notin T
    BY <1>2, <2>3
  <2> QED
    BY <2>2, <2>3
<1>4. \A r \in Runs : Excused(d, r) => Excused(e, r)
  BY <1>2 DEF Excused, GoneIn, DisplacedIn
<1>5. \A t \in Tasks : d.task[t].state = "claimed" => Leased(e, t)
  BY <1>2, <1>3 DEF Agreed, Leased
<1>6. \A r \in Runs : e.run[r].status \in RunActive =>
        e.run[r].worker \in Workers /\ (Excused(e, r) \/ e.wk[e.run[r].worker].run = r)
  BY <1>2, <1>3, <1>4 DEF Agreed
<1>7. Agreed(e, S)
  BY <1>2, <1>3, <1>5, <1>6 DEF Agreed
<1> QED
  BY <1>7 DEF e

\* claim_task: a worker without a lease takes one of a bundle that downloads.
LEMMA AssignTaskAgrees ==
  ASSUME NEW d, LedgerInv(d), NEW S, Agreed(d, S), NEW w \in Workers, d.wk[w].pid # 0, NEW R,
         NEW t \in TaskOffers(d, w, R)
  PROVE  Agreed(AssignTask(d, w, t), S)
<1> DEFINE e == AssignTask(d, w, t)
           row == [state |-> "claimed", worker |-> w, expired |-> FALSE]
<1>1. d \in Database /\ d.wk[w] \in WorkerRow
  BY Rows DEF LedgerInv
<1>2. t \in Tasks /\ ((d.wk[w].task = t /\ d.task[t].state = "claimed") \/ Claimable(d, w, t))
  BY <1>1, OffersClaimable
<1>3. CASE d.wk[w].task = t /\ d.task[t].state = "claimed"
  BY <1>3 DEF AssignTask
<1>4. CASE ~(d.wk[w].task = t /\ d.task[t].state = "claimed")
  <2>1. /\ d.task[t].state = "queued" /\ d.fan[RunOf[t]].state = "downloading"
        /\ d.wk[w].run \in {NoRun, RunOf[t]}
    BY <1>2, <1>4 DEF Claimable, OwnsRun, HasSlot
  <2>2. d.wk[w].fence = 0 /\ ~HoldsClaim(d, w)
    <3>1. CASE d.wk[w].fence # 0
      BY <3>1 DEF TaskOffers
    <3>2. CASE d.wk[w].fence = 0 /\ HoldsClaim(d, w)
      <4>1. t = d.wk[w].task
        BY <3>2 DEF TaskOffers
      <4> QED
        BY <1>4, <3>2, <4>1 DEF HoldsClaim
    <3> QED
      BY <3>1, <3>2
  <2>3. /\ e.run = d.run /\ e.fan = d.fan
        /\ e.task = [d.task EXCEPT ![t] = row]
        /\ e.wk[w] = [d.wk[w] EXCEPT !.task = t]
        /\ \A v \in Workers \ {w} : e.wk[v] = d.wk[v]
    BY <1>1, <1>2, <1>4 DEF AssignTask, Database
  <2> HIDE DEF e
  <2>4. /\ e.wk[w].run = d.wk[w].run /\ e.wk[w].task = t
        /\ e.wk[w].pid = d.wk[w].pid /\ e.wk[w].fence = 0
    BY <1>1, <2>2, <2>3 DEF WorkerRow
  <2>5. e.task[t] = row /\ \A u \in Tasks \ {t} : e.task[u] = d.task[u]
    BY <1>1, <1>2, <2>3 DEF Database
  <2>6. \A r \in Runs : Excused(d, r) => Excused(e, r)
    BY <2>3 DEF Excused, GoneIn, DisplacedIn
  <2>60. \A v \in Workers : e.wk[v].run = d.wk[v].run
    BY <2>3, <2>4
  <2>61. e.task[t].worker = w
    BY <2>5
  <2>7. Leased(e, t)
    BY <2>1, <2>3, <2>4, <2>61 DEF Leased
  <2>8. ASSUME NEW u \in Tasks \ {t}, d.task[u].state = "claimed" PROVE Leased(e, u)
    <3>1. Leased(d, u) /\ u # NoTask
      BY <2>8, NullAssumption DEF Agreed
    <3>2. d.task[u].worker # w
      BY <2>2, <2>8, <3>1 DEF Leased, HoldsClaim
    <3> QED
      BY <2>3, <2>5, <3>1, <3>2 DEF Leased
  <2>9. \A u \in Tasks : e.task[u].state = "claimed" => Leased(e, u)
    BY <2>5, <2>7, <2>8
  <2>10. \A r \in Runs : e.run[r].status \in RunActive =>
           e.run[r].worker \in Workers /\ (Excused(e, r) \/ e.wk[e.run[r].worker].run = r)
    BY <2>3, <2>6, <2>60 DEF Agreed
  <2>11. \A v \in Workers : e.wk[v].pid = 0 => e.wk[v].run = NoRun /\ e.wk[v].task = NoTask
    BY <2>3, <2>4 DEF Agreed
  <2>12. Agreed(e, S)
    BY <2>3, <2>9, <2>10, <2>11 DEF Agreed
  <2> QED
    BY <2>12 DEF e
<1> QED
  BY <1>3, <1>4

PidsKnown(processes) == \A w \in Workers : processes[w].up => processes[w].pid \in Nat \ {0}
\* Only the bundle that downloads has claimed tasks.
LEMMA NothingClaimed ==
  ASSUME NEW d, NEW S, Agreed(d, S), NEW r \in Runs,
         d.fan[r].state # "downloading" \/ Drained(d, r)
  PROVE  \A t \in TasksOf(r) : d.task[t].state # "claimed"
BY DEF Agreed, Leased, Drained, TasksOf, TaskActive

\* Whoever is stopped has its bundle aborted or complete, in the database that
\* the stop leaves behind.
LEMMA OneMoreStop ==
  ASSUME NEW d, NEW S, NEW T, Agreed(d, S), NEW r \in Runs, T \subseteq S \cup {r},
         d.fan[r].state \in Ending
  PROVE  Agreed(d, T)
BY DEF Agreed

-----------------------------------------------------------------------------
(* Downloads.  A rewrite that Spares every held lease leaves the worker of *)
(* a live lease its task, its process id and its latch.                    *)

\* The states a task is in before somebody has to drain it.
Fresh == Waiting \cup {"claimed"}
\* t is active, and the row of its worker w stands for it and for no other run.
Held(d, w, t) ==
  /\ d.task[t].state \in TaskActive /\ d.task[t].worker = w
  /\ d.wk[w].task = t /\ d.wk[w].run \in {NoRun, RunOf[t]}
  /\ d.wk[w].fence \in {0, d.wk[w].pid}

\* The task of a worker row was claimed by that worker.
Taken(d) ==
  \A w \in Workers, t \in Tasks :
    d.wk[w].task = t => d.task[t].worker = w /\ d.task[t].state \notin Waiting
\* A rewrite from d to e takes no task back, and leaves what is held under a
\* running lease to its worker, but for the tasks of U.
Onward(d, e, t) ==
  /\ e.task[t].worker = d.task[t].worker
  /\ d.task[t].expired => e.task[t].expired
  /\ e.task[t].state \in Waiting => d.task[t].state \in Waiting
  /\ e.task[t].state \in Fresh => d.task[t].state \in Fresh
KeptRow(d, e, w) ==
  /\ e.wk[w].task = d.wk[w].task /\ e.wk[w].fence = d.wk[w].fence
  /\ e.wk[w].pid = d.wk[w].pid /\ e.wk[w].run \in {d.wk[w].run, NoRun}
Spares(d, e, U) ==
  /\ \A t \in Tasks : Onward(d, e, t)
  /\ \A w \in Workers : e.wk[w].task \in {d.wk[w].task, NoTask}
  /\ \A w \in Workers, t \in Tasks \ U : Held(d, w, t) /\ ~e.task[t].expired =>
       e.task[t].state \in TaskActive /\ KeptRow(d, e, w)

\* A lease that is spared stays held.
LEMMA SparedHeld ==
  ASSUME NEW d, NEW e, NEW U, Spares(d, e, U), NEW w \in Workers, NEW t \in Tasks \ U,
         Held(d, w, t), ~e.task[t].expired
  PROVE  Held(e, w, t) /\ KeptRow(d, e, w)
BY DEF Spares, Held, KeptRow, Onward

\* Sparing composes.
LEMMA SparesCompose ==
  ASSUME NEW d, NEW e, NEW g, NEW U, Spares(d, e, U), Spares(e, g, U)
  PROVE  Spares(d, g, U)
<1>1. ASSUME NEW t \in Tasks PROVE Onward(d, g, t)
  BY DEF Spares, Onward
<1>2. ASSUME NEW w \in Workers PROVE g.wk[w].task \in {d.wk[w].task, NoTask}
  BY DEF Spares
<1>3. ASSUME NEW w \in Workers, NEW t \in Tasks \ U, Held(d, w, t), ~g.task[t].expired
      PROVE  g.task[t].state \in TaskActive /\ KeptRow(d, g, w)
  <2>1. ~e.task[t].expired
    BY <1>3 DEF Spares, Onward
  <2>2. Held(e, w, t) /\ KeptRow(d, e, w)
    BY <1>3, <2>1, SparedHeld
  <2>3. g.task[t].state \in TaskActive /\ KeptRow(e, g, w)
    BY <1>3, <2>2 DEF Spares
  <2> QED
    BY <2>2, <2>3 DEF KeptRow
<1> QED
  BY <1>1, <1>2, <1>3 DEF Spares

\* Sparing all is sparing all but some.
LEMMA SparesLess ==
  ASSUME NEW d, NEW e, NEW U, Spares(d, e, {})
  PROVE  Spares(d, e, U)
BY DEF Spares

\* Rewrites that leave the tasks alone, and the worker rows but for their runs.
LEMMA RowsKeptSpares ==
  ASSUME NEW d, NEW e, NEW U, e.task = d.task, \A w \in Workers : KeptRow(d, e, w)
  PROVE  Spares(d, e, U)
<1>1. \A t \in Tasks : Onward(d, e, t)
  BY DEF Onward
<1>2. \A w \in Workers : e.wk[w].task = d.wk[w].task
  BY DEF KeptRow
<1>3. \A w \in Workers, t \in Tasks : Held(d, w, t) => e.task[t].state \in TaskActive
  BY DEF Held
<1> QED
  BY <1>1, <1>2, <1>3 DEF Spares

\* abort() fences tasks, which keep their holders.
LEMMA AbortSpares ==
  ASSUME NEW d, d \in Database, NEW R \in SUBSET Runs, NEW terminal, NEW stopped
  PROVE  Spares(d, Abort(d, R, terminal, stopped), {})
<1> DEFINE e == Abort(d, R, terminal, stopped)
           A == {r \in R : Abortable(d, r)}
<1>1. /\ e.wk = d.wk
      /\ e.task = [t \in Tasks |-> IF RunOf[t] \notin A THEN d.task[t] ELSE
                     [d.task[t] EXCEPT !.state = FencedState(@)]]
  BY DEF Abort, Database
<1> HIDE DEF e, A
<1>2. ASSUME NEW t \in Tasks
      PROVE  /\ e.task[t].worker = d.task[t].worker /\ e.task[t].expired = d.task[t].expired
             /\ e.task[t].state \in {d.task[t].state, FencedState(d.task[t].state)}
  <2>1. d.task[t] \in TaskRow
    BY Rows
  <2>2. CASE RunOf[t] \notin A
    BY <1>1, <2>2
  <2>3. CASE RunOf[t] \in A
    <3> DEFINE state == FencedState(d.task[t].state)
    <3>1. e.task[t] = [d.task[t] EXCEPT !.state = state]
      BY <1>1, <2>3
    <3> HIDE DEF state
    <3> QED
      BY <2>1, <3>1 DEF TaskRow, state
  <2> QED
    BY <2>2, <2>3
<1>3. ASSUME NEW t \in Tasks PROVE Onward(d, e, t)
  BY <1>2 DEF Onward, FencedState, Waiting, Fresh
<1>4. \A w \in Workers, t \in Tasks : Held(d, w, t) => e.task[t].state \in TaskActive
  BY <1>2 DEF Held, FencedState, TaskActive
<1>5. Spares(d, e, {})
  BY <1>1, <1>3, <1>4 DEF Spares, KeptRow
<1> QED
  BY <1>5 DEF e

\* finish_aborted() frees the workers of drained bundles only.
LEMMA FinishAbortedSpares ==
  ASSUME NEW d, d \in Database, NEW R \in SUBSET Runs
  PROVE  Spares(d, FinishAborted(d, R), {})
<1> DEFINE e == FinishAborted(d, R)
           F == {r \in R : Finishable(d, r)}
<1>1. /\ e.wk = [w \in Workers |-> IF d.wk[w].run \notin F THEN d.wk[w] ELSE
           [d.wk[w] EXCEPT !.run = NoRun, !.task = NoTask]]
      /\ e.task = d.task
  BY DEF FinishAborted, Database
<1>2. F \subseteq Runs /\ \A r \in F : Drained(d, r)
  BY DEF Finishable
<1> HIDE DEF e, F
<1>3. \A t \in Tasks : Onward(d, e, t)
  BY <1>1 DEF Onward
<1>4. ASSUME NEW w \in Workers PROVE e.wk[w].task \in {d.wk[w].task, NoTask}
  <2>1. d.wk[w] \in WorkerRow
    BY Rows
  <2>2. CASE d.wk[w].run \notin F
    BY <1>1, <2>2
  <2>3. CASE d.wk[w].run \in F
    <3>1. e.wk[w] = [[d.wk[w] EXCEPT !.run = NoRun] EXCEPT !.task = NoTask]
      BY <1>1, <2>3
    <3> QED
      BY <2>1, <3>1 DEF WorkerRow
  <2> QED
    BY <2>2, <2>3
<1>5. ASSUME NEW w \in Workers, NEW t \in Tasks, Held(d, w, t)
      PROVE  e.task[t].state \in TaskActive /\ KeptRow(d, e, w)
  <2>1. d.wk[w].run \notin F
    BY <1>2, <1>5, NullAssumption DEF Held, Drained, TasksOf
  <2>2. e.wk[w] = d.wk[w]
    BY <1>1, <2>1
  <2> QED
    BY <1>1, <1>5, <2>2 DEF Held, KeptRow
<1>6. Spares(d, e, {})
  BY <1>3, <1>4, <1>5 DEF Spares
<1> QED
  BY <1>6 DEF e

\* The first loop of reap() takes only what has run out.
LEMMA CloseExpiredSpares ==
  ASSUME NEW d, d \in Database
  PROVE  Spares(d, CloseExpired(d), {})
<1> DEFINE e == CloseExpired(d)
           E == ExpiredTasks(d)
<1>1. /\ e.task = [t \in Tasks |-> IF t \notin E THEN d.task[t] ELSE
           [d.task[t] EXCEPT !.state = IF @ = "claimed" THEN "failed" ELSE "cancelled"]]
      /\ e.wk = [w \in Workers |->
           IF d.wk[w].task \notin E \/ d.task[d.wk[w].task].worker # w THEN d.wk[w] ELSE
           [d.wk[w] EXCEPT !.task = NoTask]]
  BY DEF CloseExpired, Database
<1>2. \A t \in E : t \in Tasks /\ d.task[t].expired
  BY DEF ExpiredTasks
<1> HIDE DEF e, E
<1>3. ASSUME NEW t \in Tasks
      PROVE  /\ e.task[t].worker = d.task[t].worker /\ e.task[t].expired = d.task[t].expired
             /\ \/ e.task[t].state = d.task[t].state
                \/ t \in E /\ e.task[t].state \in {"failed", "cancelled"}
  <2>1. d.task[t] \in TaskRow
    BY Rows
  <2>2. CASE t \notin E
    BY <1>1, <2>2
  <2>3. CASE t \in E
    <3> DEFINE state == IF d.task[t].state = "claimed" THEN "failed" ELSE "cancelled"
    <3>1. e.task[t] = [d.task[t] EXCEPT !.state = state] /\ state \in {"failed", "cancelled"}
      BY <1>1, <2>3
    <3> HIDE DEF state
    <3> QED
      BY <2>1, <2>3, <3>1 DEF TaskRow
  <2> QED
    BY <2>2, <2>3
<1>4. \A t \in Tasks : Onward(d, e, t)
  BY <1>3 DEF Onward, Waiting, Fresh
<1>5. ASSUME NEW w \in Workers
      PROVE  /\ e.wk[w].task \in {d.wk[w].task, NoTask}
             /\ d.wk[w].task \notin E => e.wk[w] = d.wk[w]
  <2>1. d.wk[w] \in WorkerRow
    BY Rows
  <2> QED
    BY <1>1, <2>1 DEF WorkerRow
<1>6. ASSUME NEW w \in Workers, NEW t \in Tasks, Held(d, w, t), ~e.task[t].expired
      PROVE  e.task[t].state \in TaskActive /\ KeptRow(d, e, w)
  <2>1. t \notin E
    BY <1>2, <1>3, <1>6
  <2> QED
    BY <1>3, <1>5, <1>6, <2>1 DEF Held, KeptRow
<1>7. Spares(d, e, {})
  BY <1>4, <1>5, <1>6 DEF Spares
<1> QED
  BY <1>7 DEF e

\* reap() as a whole.
LEMMA ReapSpares ==
  ASSUME NEW d, LedgerInv(d)
  PROVE  Spares(d, Reap(d), {})
<1> DEFINE a == CloseExpired(d)
           E == {RunOf[t] : t \in ExpiredTasks(d)}
           b == Abort(a, E, "failed", FALSE)
           c == PassDeadlines(b)
           Q == {r \in Runs : c.fan[r].stopped}
           e == FinishAborted(c, Q)
<1>1. Reap(d) = e
  BY DEF Reap
<1>2. LedgerInv(a) /\ Spares(d, a, {})
  BY CloseExpiredKeeps, CloseExpiredSpares DEF LedgerInv
<1>3. E \in SUBSET Runs /\ "failed" \in TerminalStatus /\ FALSE \in BOOLEAN
  BY ShapeAssumption DEF ExpiredTasks, TerminalStatus
<1> HIDE DEF a, E
<1>4. LedgerInv(b) /\ Spares(a, b, {})
  BY <1>2, <1>3, AbortKeeps, AbortSpares DEF LedgerInv
<1> HIDE DEF b
<1>5. PassDeadlinesEffect(b, c)
  BY <1>4, PassDeadlinesRows DEF LedgerInv
<1> HIDE DEF c
<1>6. c \in Database /\ c.task = b.task /\ \A w \in Workers : KeptRow(b, c, w)
  BY <1>5 DEF PassDeadlinesEffect, KeptRow
<1>7. Spares(b, c, {})
  BY <1>6, RowsKeptSpares
<1>8. Spares(c, e, {})
  BY <1>6, FinishAbortedSpares
<1> HIDE DEF e
<1>9. Spares(d, b, {})
  BY <1>2, <1>4, SparesCompose
<1>10. Spares(d, c, {})
  BY <1>7, <1>9, SparesCompose
<1> QED
  BY <1>1, <1>8, <1>10, SparesCompose

\* Rewrites that take at most their current run from workers.
LEMMA LosingRunsSpares ==
  ASSUME NEW d \in Database, NEW e, NEW U, e.task = d.task,
         \A v \in Workers : e.wk[v] = d.wk[v] \/ e.wk[v] = [d.wk[v] EXCEPT !.run = NoRun]
  PROVE  Spares(d, e, U)
<1>1. ASSUME NEW v \in Workers PROVE KeptRow(d, e, v)
  <2>1. d.wk[v] \in WorkerRow
    BY Rows
  <2>2. CASE e.wk[v] = d.wk[v]
    BY <2>2 DEF KeptRow
  <2>3. CASE e.wk[v] = [d.wk[v] EXCEPT !.run = NoRun]
    BY <2>1, <2>3 DEF KeptRow, WorkerRow
  <2> QED
    BY <2>2, <2>3
<1> QED
  BY <1>1, RowsKeptSpares

\* initialize: a matrix appears in a run that had none.
LEMMA InitializeSpares ==
  ASSUME NEW d, LedgerInv(d), NEW w, NEW r \in Runs, NEW done, d.fan[r].state = "none"
  PROVE  Spares(d, Initialized(d, w, r, done), {})
<1> DEFINE e == Initialized(d, w, r, done)
<1>1. d \in Database /\ \A t \in TasksOf(r) : d.task[t].state = "none"
  BY DEF LedgerInv, TasksInsideRun, TasksOf
<1>2. /\ e.wk = d.wk
      /\ e.task = [t \in Tasks |-> IF RunOf[t] # r THEN d.task[t] ELSE
               [d.task[t] EXCEPT !.state = IF t \in done THEN "succeeded" ELSE "queued"]]
  BY ZenonT(60), <1>1 DEF Initialized, Database
<1> HIDE DEF e
<1>3. ASSUME NEW t \in Tasks
      PROVE  /\ e.task[t].worker = d.task[t].worker /\ e.task[t].expired = d.task[t].expired
             /\ e.task[t].state = d.task[t].state \/ d.task[t].state = "none"
  <2>1. d.task[t] \in TaskRow
    BY <1>1, Rows
  <2>2. CASE RunOf[t] # r
    BY <1>2, <2>2
  <2>3. CASE RunOf[t] = r
    <3> DEFINE state == IF t \in done THEN "succeeded" ELSE "queued"
    <3>1. e.task[t] = [d.task[t] EXCEPT !.state = state]
      BY <1>2, <2>3
    <3> HIDE DEF state
    <3> QED
      BY <1>1, <2>1, <2>3, <3>1 DEF TaskRow, TasksOf
  <2> QED
    BY <2>2, <2>3
<1>4. \A t \in Tasks : Onward(d, e, t)
  BY <1>3 DEF Onward, Waiting, Fresh
<1>5. \A v \in Workers, t \in Tasks : Held(d, v, t) => e.task[t].state \in TaskActive
  BY <1>3 DEF Held, TaskActive
<1>6. Spares(d, e, {})
  BY <1>2, <1>4, <1>5 DEF Spares, KeptRow
<1> QED
  BY <1>6 DEF e

\* Tasks of U end, and rows that name a task of U, or none, change at will.
LEMMA SomeTasksSpares ==
  ASSUME NEW d, NEW e, NEW U,
         \A t \in Tasks : \/ e.task[t] = d.task[t]
                          \/ /\ t \in U
                             /\ e.task[t].worker = d.task[t].worker
                             /\ e.task[t].expired = d.task[t].expired
                             /\ e.task[t].state \notin Fresh,
         \A w \in Workers : \/ KeptRow(d, e, w)
                            \/ /\ e.wk[w].task \in {d.wk[w].task, NoTask}
                               /\ \A t \in Tasks : d.wk[w].task = t => t \in U
  PROVE  Spares(d, e, U)
<1>1. \A t \in Tasks : Onward(d, e, t)
  BY DEF Onward, Fresh
<1>2. \A w \in Workers : e.wk[w].task \in {d.wk[w].task, NoTask}
  BY DEF KeptRow
<1>3. ASSUME NEW w \in Workers, NEW t \in Tasks \ U, Held(d, w, t)
      PROVE  e.task[t].state \in TaskActive /\ KeptRow(d, e, w)
  BY <1>3 DEF Held
<1> QED
  BY <1>1, <1>2, <1>3 DEF Spares

-----------------------------------------------------------------------------
(* Loads.  A rewrite that keeps the Records forgets no load that began.    *)

\* A rewrite from d to e forgets no load.
Records(d, e) == \A r \in Runs : d.fan[r].sqlStarted => e.fan[r].sqlStarted
\* Rewrites that forget nothing compose.
LEMMA RecordsCompose ==
  ASSUME NEW d, NEW e, NEW g, Records(d, e), Records(e, g)
  PROVE  Records(d, g)
BY DEF Records

\* The ledger row of one run is rewritten, or none.
LEMMA LedgerRecords ==
  ASSUME NEW d \in Database, NEW e, NEW r, NEW row, d.fan[r].sqlStarted => row.sqlStarted,
         e.fan = d.fan \/ e.fan = [d.fan EXCEPT ![r] = row]
  PROVE  Records(d, e)
<1>1. d.fan \in [Runs -> FanRow]
  BY DEF Database
<1> QED
  BY <1>1 DEF Records

\* A rewrite that leaves the ledger rows alone forgets nothing.
LEMMA OthersRecord ==
  ASSUME NEW d, NEW e, e.fan = d.fan
  PROVE  Records(d, e)
BY DEF Records

\* abort() forgets no load.
LEMMA AbortRecords ==
  ASSUME NEW d \in Database, NEW R \in SUBSET Runs, NEW terminal \in TerminalStatus,
         NEW stopped \in BOOLEAN
  PROVE  Records(d, Abort(d, R, terminal, stopped))
<1> DEFINE e == Abort(d, R, terminal, stopped)
<1>1. AbortEffect(d, R, e)
  BY AbortRows
<1> HIDE DEF e
<1>2. Records(d, e)
  BY <1>1 DEF AbortEffect, Records
<1> QED
  BY <1>2 DEF e

\* finish_aborted() ends runs, and forgets no load.
LEMMA FinishAbortedRecords ==
  ASSUME NEW d \in Database, NEW R \in SUBSET Runs
  PROVE  Records(d, FinishAborted(d, R))
BY FinishAbortedRows DEF FinishAbortedEffect, Records

\* Nor does reap(), expired leases, aborts and passed deadlines included.
LEMMA ReapRecords ==
  ASSUME NEW d, LedgerInv(d)
  PROVE  Records(d, Reap(d))
<1> DEFINE a == CloseExpired(d)
           E == {RunOf[t] : t \in ExpiredTasks(d)}
           b == Abort(a, E, "failed", FALSE)
           c == PassDeadlines(b)
           Q == {r \in Runs : c.fan[r].stopped}
           e == FinishAborted(c, Q)
<1>1. Reap(d) = e
  BY DEF Reap
<1>2. a \in Database /\ Records(d, a)
  BY CloseExpiredRows DEF LedgerInv, CloseExpiredEffect, Records
<1>3. E \in SUBSET Runs /\ "failed" \in TerminalStatus /\ FALSE \in BOOLEAN
  BY ShapeAssumption DEF ExpiredTasks, TerminalStatus
<1> HIDE DEF a, E
<1>4. b \in Database /\ Records(a, b)
  BY <1>2, <1>3, AbortRows, AbortRecords DEF AbortEffect
<1> HIDE DEF b
<1>5. c \in Database /\ Records(b, c)
  BY <1>4, PassDeadlinesRows DEF PassDeadlinesEffect, Records
<1> HIDE DEF c
<1>6. Records(c, e)
  BY <1>5, FinishAbortedRecords
<1> HIDE DEF e
<1> QED
  BY <1>1, <1>2, <1>4, <1>5, <1>6, RecordsCompose

-----------------------------------------------------------------------------
(* Reservations.  A rewrite that TakesOnly withdraws exports of a bundle   *)
(* that ends, and may end a run, but not in success.                       *)

\* A task that must acknowledge its cancellation belongs to a bundle that ends,
\* and a worker's current run has been asked for.
Draining(d) ==
  \A t \in Tasks : d.task[t].state = "cancelling" => d.fan[RunOf[t]].state = "aborting"
Known(d) ==
  \A w \in Workers : d.wk[w].run # NoRun => d.run[d.wk[w].run].status # "none"
Coupled(d) == Begun(d) /\ Draining(d) /\ Known(d)

\* A rewrite from d to e takes from run r, or from task t, or leaves it alone.
TakesRun(d, e, r) ==
  /\ d.run[r].status = "none" <=> e.run[r].status = "none"
  /\ e.run[r].status = "succeeded" => d.run[r].status = "succeeded"
  /\ d.fan[r].state \in {"none", "complete"} => e.fan[r].state = d.fan[r].state
  /\ d.fan[r].state = "aborting" => e.fan[r].state \in Ending
OverTask(d, e, t) ==
  /\ d.task[t].state \in {"queued"} \cup TaskActive
  /\ e.task[t].state \in {"cancelling", "failed", "cancelled"}
  /\ e.task[t].state = "cancelling" => d.task[t].state \in TaskActive
  /\ Abortable(d, RunOf[t]) /\ e.fan[RunOf[t]].state \in Ending
TakesOnly(d, e) ==
  /\ \A r \in Runs : TakesRun(d, e, r)
  /\ \A t \in Tasks : e.task[t].state = d.task[t].state \/ OverTask(d, e, t)
  /\ Known(d) => Known(e)

\* Rewrites that only take compose.
LEMMA TakesCompose ==
  ASSUME NEW d, NEW e, NEW g, TakesOnly(d, e), TakesOnly(e, g)
  PROVE  TakesOnly(d, g)
<1>1. ASSUME NEW r \in Runs PROVE TakesRun(d, g, r)
  BY DEF TakesOnly, TakesRun, Ending
<1>2. ASSUME NEW t \in Tasks PROVE g.task[t].state = d.task[t].state \/ OverTask(d, g, t)
  <2>1. RunOf[t] \in Runs
    BY ShapeAssumption
  <2>2. TakesRun(d, e, RunOf[t]) /\ TakesRun(e, g, RunOf[t])
    BY <2>1 DEF TakesOnly
  <2>3. CASE e.task[t].state = d.task[t].state
    <3>1. CASE g.task[t].state = e.task[t].state
      BY <2>3, <3>1
    <3>2. CASE OverTask(e, g, t)
      <4>1. Abortable(d, RunOf[t])
        BY <2>2, <3>2 DEF OverTask, Abortable, TakesRun
      <4> QED
        BY <2>3, <3>2, <4>1 DEF OverTask
    <3> QED
      BY <3>1, <3>2 DEF TakesOnly
  <2>4. CASE OverTask(d, e, t)
    <3>1. g.fan[RunOf[t]].state \in Ending
      BY <2>2, <2>4 DEF OverTask, TakesRun, Ending
    <3>2. CASE g.task[t].state = e.task[t].state
      BY <2>4, <3>1, <3>2 DEF OverTask
    <3>3. CASE OverTask(e, g, t)
      BY <2>4, <3>1, <3>3 DEF OverTask, TaskActive
    <3> QED
      BY <3>2, <3>3 DEF TakesOnly
  <2> QED
    BY <2>3, <2>4 DEF TakesOnly
<1> QED
  BY <1>1, <1>2 DEF TakesOnly

\* A rewrite of columns the reservation does not see.
LEMMA SameTakes ==
  ASSUME NEW d, NEW e,
         \A r \in Runs : e.run[r].status = d.run[r].status /\ e.fan[r].state = d.fan[r].state,
         \A t \in Tasks : e.task[t].state = d.task[t].state,
         d \in Database, \A w \in Workers : e.wk[w].run \in {d.wk[w].run, NoRun}
  PROVE  TakesOnly(d, e)
<1>1. ASSUME NEW r \in Runs PROVE TakesRun(d, e, r)
  BY DEF TakesRun, Ending
<1>2. Known(d) => Known(e)
  <2> SUFFICES ASSUME Known(d), NEW w \in Workers, e.wk[w].run # NoRun
               PROVE  e.run[e.wk[w].run].status # "none"
    BY DEF Known
  <2>1. d.wk[w] \in WorkerRow /\ e.wk[w].run = d.wk[w].run
    BY Rows
  <2> QED
    BY <2>1 DEF Known, WorkerRow
<1> QED
  BY <1>1, <1>2 DEF TakesOnly

\* One run changes with its ledger, every task and every other run stays.
LEMMA OneRunTakes ==
  ASSUME NEW d \in Database, NEW e, NEW r \in Runs, TakesRun(d, e, r),
         \A q \in Runs \ {r} : e.run[q].status = d.run[q].status /\ e.fan[q].state = d.fan[q].state,
         \A t \in Tasks : e.task[t].state = d.task[t].state,
         \A w \in Workers : e.wk[w].run \in {d.wk[w].run, NoRun}
  PROVE  TakesOnly(d, e)
<1>1. ASSUME NEW q \in Runs PROVE TakesRun(d, e, q)
  <2>1. CASE q = r
    BY <2>1
  <2>2. CASE q # r
    BY <2>2 DEF TakesRun, Ending
  <2> QED
    BY <2>1, <2>2
<1>2. Known(d) => Known(e)
  <2> SUFFICES ASSUME Known(d), NEW w \in Workers, e.wk[w].run # NoRun
               PROVE  e.run[e.wk[w].run].status # "none"
    BY DEF Known
  <2>1. d.wk[w] \in WorkerRow /\ e.wk[w].run = d.wk[w].run
    BY Rows
  <2>2. d.wk[w].run \in Runs /\ d.run[d.wk[w].run].status # "none"
    BY <2>1 DEF Known, WorkerRow
  <2> QED
    BY <1>1, <2>1, <2>2 DEF TakesRun
<1> QED
  BY <1>1, <1>2 DEF TakesOnly

\* abort() over a database in which tasks of the aborted bundles have failed.
LEMMA AbortTakes ==
  ASSUME NEW d \in Database, NEW g \in Database, NEW R \in SUBSET Runs,
         NEW terminal \in TerminalStatus, NEW stopped \in BOOLEAN,
         g.run = d.run, g.fan = d.fan, \A w \in Workers : g.wk[w].run = d.wk[w].run,
         \A t \in Tasks : \/ g.task[t].state = d.task[t].state
                          \/ /\ RunOf[t] \in R /\ Abortable(d, RunOf[t])
                             /\ d.task[t].state \in TaskActive
                             /\ g.task[t].state \in {"failed", "cancelled"}
  PROVE  TakesOnly(d, Abort(g, R, terminal, stopped))
<1> DEFINE e == Abort(g, R, terminal, stopped)
<1>1. AbortEffect(g, R, e)
  BY AbortRows
<1> HIDE DEF e
<1>2. e.run = d.run /\ \A w \in Workers : e.wk[w].run = d.wk[w].run
  BY <1>1 DEF AbortEffect
<1>3. \A r \in Runs : e.fan[r].state = IF r \in R /\ Abortable(d, r) THEN "aborting" ELSE d.fan[r].state
  BY <1>1 DEF AbortEffect, Abortable
<1>4. ASSUME NEW r \in Runs PROVE TakesRun(d, e, r)
  BY <1>2, <1>3 DEF TakesRun, Abortable, Ending
<1>5. ASSUME NEW t \in Tasks PROVE e.task[t].state = d.task[t].state \/ OverTask(d, e, t)
  <2>1. RunOf[t] \in Runs
    BY ShapeAssumption
  <2>2. e.task[t].state = IF RunOf[t] \in R /\ Abortable(d, RunOf[t])
                          THEN FencedState(g.task[t].state) ELSE g.task[t].state
    BY <1>1 DEF AbortEffect, Abortable
  <2>3. CASE RunOf[t] \in R /\ Abortable(d, RunOf[t])
    <3>1. e.fan[RunOf[t]].state \in Ending
      BY <1>3, <2>1, <2>3 DEF Ending
    <3>2. e.task[t].state = FencedState(g.task[t].state)
      BY <2>2, <2>3
    <3>3. CASE g.task[t].state = d.task[t].state
      BY <2>3, <3>1, <3>2, <3>3 DEF OverTask, FencedState, TaskActive
    <3>4. CASE g.task[t].state # d.task[t].state
      BY <2>3, <3>1, <3>2, <3>4 DEF OverTask, FencedState
    <3> QED
      BY <3>3, <3>4
  <2>4. CASE ~(RunOf[t] \in R /\ Abortable(d, RunOf[t]))
    BY <2>2, <2>4
  <2> QED
    BY <2>3, <2>4
<1>6. Known(d) => Known(e)
  BY <1>2 DEF Known
<1>7. TakesOnly(d, e)
  BY <1>4, <1>5, <1>6 DEF TakesOnly
<1> QED
  BY <1>7 DEF e

\* abort() alone.
LEMMA PlainAbortTakes ==
  ASSUME NEW d \in Database, NEW R \in SUBSET Runs,
         NEW terminal \in TerminalStatus, NEW stopped \in BOOLEAN
  PROVE  TakesOnly(d, Abort(d, R, terminal, stopped))
BY AbortTakes

\* finish_aborted() ends bundles that were aborting, never in success.
LEMMA FinishAbortedTakes ==
  ASSUME NEW d \in Database, NEW R \in SUBSET Runs, Begun(d)
  PROVE  TakesOnly(d, FinishAborted(d, R))
<1> DEFINE e == FinishAborted(d, R)
           F == {r \in R : Finishable(d, r)}
<1>1. FinishAbortedEffect(d, R, e)
  BY FinishAbortedRows
<1>2. ASSUME NEW w \in Workers PROVE e.wk[w].run \in {d.wk[w].run, NoRun}
  <2>1. d.wk[w] \in WorkerRow
    BY Rows
  <2>2. e.wk[w] = IF d.wk[w].run \notin F THEN d.wk[w]
                  ELSE [d.wk[w] EXCEPT !.run = NoRun, !.task = NoTask]
    BY DEF FinishAborted, Database
  <2> QED
    BY <2>1, <2>2 DEF WorkerRow
<1> HIDE DEF e, F
<1>3. ASSUME NEW r \in Runs PROVE TakesRun(d, e, r)
  <2>1. CASE r \in R /\ Finishable(d, r)
    BY <1>1, <2>1 DEF FinishAbortedEffect, Finishable, TakesRun, Begun, Ending
  <2>2. CASE ~(r \in R /\ Finishable(d, r))
    BY <1>1, <2>2 DEF FinishAbortedEffect, TakesRun, Ending
  <2> QED
    BY <2>1, <2>2
<1>4. Known(d) => Known(e)
  <2> SUFFICES ASSUME Known(d), NEW w \in Workers, e.wk[w].run # NoRun
               PROVE  e.run[e.wk[w].run].status # "none"
    BY DEF Known
  <2>1. d.wk[w] \in WorkerRow /\ e.wk[w].run = d.wk[w].run
    BY <1>2, Rows
  <2>2. d.wk[w].run \in Runs /\ d.run[d.wk[w].run].status # "none"
    BY <2>1 DEF Known, WorkerRow
  <2> QED
    BY <1>3, <2>1, <2>2 DEF TakesRun
<1>5. TakesOnly(d, e)
  BY <1>1, <1>3, <1>4 DEF TakesOnly, FinishAbortedEffect
<1> QED
  BY <1>5 DEF e

\* What only takes leaves every ledger with a run that was asked for.
LEMMA TakesBegun ==
  ASSUME NEW d, NEW e, TakesOnly(d, e), Begun(d)
  PROVE  Begun(e)
BY DEF TakesOnly, TakesRun, Begun

\* reap() only takes.
LEMMA ReapTakes ==
  ASSUME NEW d, LedgerInv(d), Begun(d)
  PROVE  TakesOnly(d, Reap(d))
<1> DEFINE a == CloseExpired(d)
           E == {RunOf[t] : t \in ExpiredTasks(d)}
           b == Abort(a, E, "failed", FALSE)
           c == PassDeadlines(b)
           Q == {r \in Runs : c.fan[r].stopped}
           e == FinishAborted(c, Q)
<1>1. Reap(d) = e
  BY DEF Reap
<1>2. d \in Database /\ CloseExpiredEffect(d, a) /\ \A w \in Workers : a.wk[w].run = d.wk[w].run
  <2>1. d \in Database /\ CloseExpiredEffect(d, a)
    BY CloseExpiredRows DEF LedgerInv
  <2>2. ASSUME NEW w \in Workers PROVE a.wk[w].run = d.wk[w].run
    <3>1. d.wk[w] \in WorkerRow
      BY <2>1, Rows
    <3>2. a.wk[w] = d.wk[w] \/ a.wk[w] = [d.wk[w] EXCEPT !.task = NoTask]
      BY <2>1 DEF CloseExpired, Database
    <3> QED
      BY <3>1, <3>2 DEF WorkerRow
  <2> QED
    BY <2>1, <2>2
<1>3. E \in SUBSET Runs /\ "failed" \in TerminalStatus /\ FALSE \in BOOLEAN
  BY ShapeAssumption DEF ExpiredTasks, TerminalStatus
<1>4. ASSUME NEW t \in Tasks, a.task[t].state # d.task[t].state
      PROVE  /\ RunOf[t] \in E /\ Abortable(d, RunOf[t])
             /\ d.task[t].state \in TaskActive
             /\ a.task[t].state \in {"failed", "cancelled"}
  <2>1. t \in ExpiredTasks(d)
    BY <1>2, <1>4 DEF CloseExpiredEffect
  <2>2. d.task[t].state \in TaskActive
    BY <2>1 DEF ExpiredTasks
  <2>3. Abortable(d, RunOf[t])
    BY <2>2 DEF LedgerInv, TasksInsideRun, Abortable
  <2>4. a.task[t].state \in {"failed", "cancelled"}
    BY <1>2, <2>1 DEF CloseExpiredEffect
  <2> QED
    BY <2>1, <2>2, <2>3, <2>4
<1> HIDE DEF a, E
<1>5. a \in Database /\ a.run = d.run /\ a.fan = d.fan
  BY <1>2 DEF CloseExpiredEffect
<1>6. TakesOnly(d, b)
  BY <1>2, <1>3, <1>4, <1>5, AbortTakes
<1>7. b \in Database
  BY <1>3, <1>5, AbortRows DEF AbortEffect
<1> HIDE DEF b
<1>8. PassDeadlinesEffect(b, c)
  BY <1>7, PassDeadlinesRows
<1> HIDE DEF c
<1>9. TakesOnly(b, c) /\ c \in Database
  BY <1>7, <1>8, SameTakes DEF PassDeadlinesEffect
<1>10. TakesOnly(d, c)
  BY <1>6, <1>9, TakesCompose
<1>11. TakesOnly(c, e)
  BY <1>9, <1>10, TakesBegun, FinishAbortedTakes
<1> HIDE DEF e
<1> QED
  BY <1>1, <1>10, <1>11, TakesCompose

\* stop_run cancels a run that has no ledger.
LEMMA StoppedPlainTakes ==
  ASSUME NEW d \in Database, NEW r \in Runs, NEW assigned, NEW w,
         d.run[r].status \in Open, d.fan[r].state = "none"
  PROVE  TakesOnly(d, StoppedPlain(d, r, assigned, w))
<1> DEFINE row == [d.run[r] EXCEPT !.status = "cancelled"]
           wk == [v \in Workers |-> IF assigned /\ v = w /\ d.wk[v].run = r
                                    THEN [d.wk[v] EXCEPT !.run = NoRun] ELSE d.wk[v]]
           e == StoppedPlain(d, r, assigned, w)
<1>1. d.run[r] \in RunRow /\ d.run \in [Runs -> RunRow]
  BY DEF Database
<1>2. row.status = "cancelled"
  BY <1>1 DEF RunRow
<1>3. /\ e.run = [d.run EXCEPT ![r] = row] /\ e.fan = d.fan /\ e.task = d.task
      /\ e.wk = wk
  BY <1>1 DEF StoppedPlain, Database
<1>4. ASSUME NEW v \in Workers PROVE wk[v].run \in {d.wk[v].run, NoRun}
  <2>1. d.wk[v] \in WorkerRow
    BY Rows
  <2>2. wk[v] = d.wk[v] \/ wk[v] = [d.wk[v] EXCEPT !.run = NoRun]
    OBVIOUS
  <2> QED
    BY <2>1, <2>2 DEF WorkerRow
<1> HIDE DEF row, wk, e
<1>5. TakesRun(d, e, r)
  BY <1>1, <1>2, <1>3 DEF TakesRun, Open, RunActive, Ending
<1>6. TakesOnly(d, e)
  BY <1>1, <1>3, <1>4, <1>5, OneRunTakes
<1> QED
  BY <1>6 DEF e

\* Some cancelling tasks are cancelled, and worker rows change otherwise.
LEMMA CancelledTakes ==
  ASSUME NEW d \in Database, NEW e, Draining(d), e.run = d.run,
         \A r \in Runs : e.fan[r].state = d.fan[r].state,
         \A t \in Tasks : \/ e.task[t].state = d.task[t].state
                          \/ d.task[t].state = "cancelling" /\ e.task[t].state = "cancelled",
         \A w \in Workers : e.wk[w].run = d.wk[w].run
  PROVE  TakesOnly(d, e)
<1>1. ASSUME NEW r \in Runs PROVE TakesRun(d, e, r)
  BY DEF TakesRun, Ending
<1>2. ASSUME NEW t \in Tasks PROVE e.task[t].state = d.task[t].state \/ OverTask(d, e, t)
  <2>1. RunOf[t] \in Runs
    BY ShapeAssumption
  <2> QED
    BY <2>1 DEF OverTask, Draining, TaskActive, Abortable, Ending
<1>3. Known(d) => Known(e)
  BY DEF Known
<1> QED
  BY <1>1, <1>2, <1>3 DEF TakesOnly

\* claim_run, the finalizer's claim and progress reports give no export
\* anything: the run they are about stays as it is for the protocol.
LEMMA AssignRunTakes ==
  ASSUME NEW d, LedgerInv(d), NEW w \in Workers, NEW r \in RunOffers(d, w)
  PROVE  TakesOnly(d, AssignRun(d, w, r))
<1> DEFINE e == AssignRun(d, w, r)
<1>1. d \in Database /\ r \in Runs /\ d.run[r].status = "queued"
  BY DEF LedgerInv, RunOffers
<1>2. d.run \in [Runs -> RunRow] /\ d.wk \in [Workers -> WorkerRow]
  BY <1>1 DEF Database
<1>3. /\ e.run = [d.run EXCEPT ![r].status = "claimed", ![r].worker = w]
      /\ e.wk = [d.wk EXCEPT ![w].run = r] /\ e.fan = d.fan /\ e.task = d.task
  BY <1>1 DEF AssignRun, Database
<1> HIDE DEF e
<1>4. e.run[r].status = "claimed" /\ \A q \in Runs \ {r} : e.run[q] = d.run[q]
  BY <1>1, <1>2, <1>3 DEF RunRow
<1>5. \A v \in Workers : e.wk[v].run \in {d.wk[v].run, r}
  BY <1>2, <1>3 DEF WorkerRow
<1>6. ASSUME NEW q \in Runs PROVE TakesRun(d, e, q)
  <2>1. CASE q = r
    BY <1>1, <1>3, <1>4, <2>1 DEF TakesRun, Ending
  <2>2. CASE q # r
    BY <1>3, <1>4, <2>2 DEF TakesRun, Ending
  <2> QED
    BY <2>1, <2>2
<1>7. Known(d) => Known(e)
  <2> SUFFICES ASSUME Known(d), NEW v \in Workers, e.wk[v].run # NoRun
               PROVE  e.run[e.wk[v].run].status # "none"
    BY DEF Known
  <2>1. CASE e.wk[v].run = r
    BY <1>4, <2>1
  <2>2. CASE e.wk[v].run = d.wk[v].run
    <3>1. d.wk[v].run \in Runs /\ d.run[d.wk[v].run].status # "none"
      BY <1>2, <2>2 DEF Known, WorkerRow
    <3> QED
      BY <1>6, <2>2, <3>1 DEF TakesRun
  <2> QED
    BY <1>5, <2>1, <2>2
<1>8. TakesOnly(d, e)
  BY <1>3, <1>6, <1>7 DEF TakesOnly
<1> QED
  BY <1>8 DEF e

\* A progress report changes an active run and keeps it active.
LEMMA ProgressTakes ==
  ASSUME NEW d \in Database, NEW r \in Runs, d.run[r].status \in RunActive, NEW e,
         e.wk = d.wk, e.task = d.task, e.run[r].status \in RunActive,
         e.fan[r].state = d.fan[r].state,
         \A q \in Runs \ {r} : e.run[q] = d.run[q] /\ e.fan[q] = d.fan[q]
  PROVE  TakesOnly(d, e)
<1>1. TakesRun(d, e, r)
  BY DEF TakesRun, RunActive, Ending
<1> QED
  BY <1>1, OneRunTakes

\* Time, the fences and the latches take nothing.
LEMMA ClockTakes ==
  ASSUME NEW d \in Database
  PROVE  /\ \A t \in Tasks : TakesOnly(d, [d EXCEPT !.task[t].expired = TRUE])
         /\ \A r \in Runs : TakesOnly(d, [d EXCEPT !.fan[r].deadline = "passed"])
         /\ \A f : TakesOnly(d, [d EXCEPT !.recon[f] = FALSE])
<1>1. ASSUME NEW t \in Tasks PROVE TakesOnly(d, [d EXCEPT !.task[t].expired = TRUE])
  <2> DEFINE e == [d EXCEPT !.task[t].expired = TRUE]
  <2>1. /\ e.task = [d.task EXCEPT ![t].expired = TRUE] /\ d.task \in [Tasks -> TaskRow]
        /\ e.run = d.run /\ e.fan = d.fan /\ e.wk = d.wk
    BY DEF Database
  <2> HIDE DEF e
  <2>2. \A u \in Tasks : e.task[u].state = d.task[u].state
    BY <2>1 DEF TaskRow
  <2>3. TakesOnly(d, e)
    BY <2>1, <2>2, SameTakes
  <2> QED
    BY <2>3 DEF e
<1>2. ASSUME NEW r \in Runs PROVE TakesOnly(d, [d EXCEPT !.fan[r].deadline = "passed"])
  <2> DEFINE e == [d EXCEPT !.fan[r].deadline = "passed"]
  <2>1. /\ e.fan = [d.fan EXCEPT ![r].deadline = "passed"] /\ d.fan \in [Runs -> FanRow]
        /\ e.run = d.run /\ e.task = d.task /\ e.wk = d.wk
    BY DEF Database
  <2> HIDE DEF e
  <2>2. \A q \in Runs : e.fan[q].state = d.fan[q].state
    BY <2>1 DEF FanRow
  <2>3. TakesOnly(d, e)
    BY <2>1, <2>2, SameTakes
  <2> QED
    BY <2>3 DEF e
<1>3. ASSUME NEW f PROVE TakesOnly(d, [d EXCEPT !.recon[f] = FALSE])
  <2> DEFINE e == [d EXCEPT !.recon[f] = FALSE]
  <2>1. e.run = d.run /\ e.fan = d.fan /\ e.task = d.task /\ e.wk = d.wk
    BY DEF Database
  <2> HIDE DEF e
  <2>2. TakesOnly(d, e)
    BY <2>1, SameTakes
  <2> QED
    BY <2>2 DEF e
<1> QED
  BY <1>1, <1>2, <1>3
=============================================================================
