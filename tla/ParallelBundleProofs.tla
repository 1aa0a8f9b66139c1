------------------------ MODULE ParallelBundleProofs ------------------------
(***************************************************************************)
(* Safety of ParallelBundle for every set of runs, tasks and workers.      *)
(*                                                                         *)
(* Every handler is a composition of database rewrites; what the rewrites  *)
(* do is the matter of FlowLedgerProofs.  The lemmas of the first part     *)
(* show that each handler takes a database that satisfies LedgerInv to one *)
(* that does, and Keeps what has ended; the second part combines them      *)
(* action by action with the processes and their loads; the third part     *)
(* shows that most handlers are Calm, and from that the fences             *)
(* over unconfirmed appends and the limits on slots; the fourth part shows *)
(* that most are Steady, and from that that the rows of runs, tasks and    *)
(* workers agree on who works for what; the fifth part shows that most     *)
(* Spare what is held under a running lease, and from that that a run is   *)
(* kept while a process downloads for it; the sixth part shows that all    *)
(* keep the Records of loads, and from that that a fence is missing only   *)
(* for a load that began after the end of its run; the seventh part shows  *)
(* that most rewrites only take from runs, and from that that              *)
(* ParallelBundle implements RunReservation.                               *)
(***************************************************************************)
EXTENDS ParallelBundle, FlowLedgerProofs, FiniteSetTheorems

\* queue_flow_run_service, claim_run: an inactive run without tasks moves on.
LEMMA QueueKeeps ==
  ASSUME NEW d, LedgerInv(d), NEW r \in Runs, MayQueue(d, r)
  PROVE  LET e == [d EXCEPT !.run[r].status = "queued"] IN
         LedgerInv(e) /\ Keeps(d, e)
<1> DEFINE e == [d EXCEPT !.run[r].status = "queued"]
<1>1. d \in Database /\ TasksInsideRun(d) /\ LedgerEndsWithRun(d) /\ FinalizedIsWhole(d)
      /\ d.run[r].status = "none"
  BY DEF LedgerInv, MayQueue
<1>2. /\ e \in Database /\ e.fan = d.fan /\ e.task = d.task /\ e.recon = d.recon
      /\ e.run[r].status = "queued" /\ e.run[r].sqlComplete = d.run[r].sqlComplete
      /\ \A q \in Runs \ {r} : e.run[q] = d.run[q]
  BY ZenonT(60), <1>1 DEF Database, RunRow
<1> HIDE DEF e
<1>3. RunChange(d, r, e)
  BY <1>2 DEF RunChange
<1>4. SoundRunChange(d, r, e)
  BY <1>1, <1>2 DEF SoundRunChange, RunTerminal, RunActive, TasksInsideRun, LedgerEndsWithRun,
                    FinalizedIsWhole, TasksOf
<1> QED
  BY <1>3, <1>4, RunChangeKeeps DEF e

\* recover_worker, step by step: the lost task, the lost bundle, the row.
LEMMA RecoverTaskKeeps ==
  ASSUME NEW d, LedgerInv(d), NEW w \in Workers
  PROVE  /\ LedgerInv(RecoverTask(d, w)) /\ Keeps(d, RecoverTask(d, w))
         /\ Quiet(d, RecoverTask(d, w)) /\ RecoverTask(d, w).wk = d.wk
<1> DEFINE t == d.wk[w].task
           g == [d EXCEPT !.task[t].state = "failed"]
           e == Abort(g, {RunOf[t]}, "failed", FALSE)
<1>1. CASE ~LosesTask(d, w)
  BY <1>1 DEF RecoverTask, Keeps, Quiet
<1>2. CASE LosesTask(d, w)
  <2>1. d \in Database /\ t \in Tasks /\ d.task[t].state \in TaskActive
        /\ RunOf[t] \in Runs /\ d.task[t] \in TaskRow
    <3>1. d \in Database /\ d.wk[w] \in WorkerRow
      BY Rows DEF LedgerInv
    <3>2. t \in Tasks
      BY <1>2, <3>1 DEF LosesTask, WorkerRow
    <3> QED
      BY <1>2, <3>1, <3>2, ShapeAssumption, Rows DEF LosesTask
  <2> HIDE DEF t
  <2>2. /\ g \in Database /\ g.run = d.run /\ g.fan = d.fan /\ g.recon = d.recon
        /\ g.wk = d.wk /\ g.task[t].state = "failed"
        /\ \A u \in Tasks \ {t} : g.task[u] = d.task[u]
    BY <2>1 DEF Database, TaskRow, TaskTerminal
  <2> HIDE DEF g
  <2>3. TaskChange(d, t, g)
    BY <2>1, <2>2 DEF TaskChange
  <2>4. LedgerInv(g) /\ Keeps(d, g)
    BY <2>1, <2>2, <2>3, TaskChangeKeeps DEF TaskActive, TaskTerminal
  <2>5. Quiet(d, g)
    BY <2>2 DEF Quiet, TaskActive
  <2>6. {RunOf[t]} \in SUBSET Runs /\ "failed" \in TerminalStatus /\ FALSE \in BOOLEAN
    BY <2>1 DEF TerminalStatus
  <2>7. LedgerInv(e) /\ Keeps(g, e) /\ Quiet(g, e)
    BY <2>4, <2>6, AbortKeeps
  <2>8. e.wk = d.wk
    BY <2>2, <2>6, AbortRows DEF AbortEffect
  <2>9. Keeps(d, e) /\ Quiet(d, e)
    BY <2>4, <2>5, <2>7, KeepsCompose, QuietCompose
  <2>10. RecoverTask(d, w) = e
    BY <1>2 DEF RecoverTask, t, g
  <2> QED
    BY <2>7, <2>8, <2>9, <2>10
<1> QED
  BY <1>1, <1>2

\* recover_worker, the bundle half: aborting the bundle that the replaced
\* process coordinated keeps the ledger invariant and claims nothing.
LEMMA RecoverBundleKeeps ==
  ASSUME NEW d, LedgerInv(d), NEW w \in Workers
  PROVE  /\ LedgerInv(RecoverBundle(d, w)) /\ Keeps(d, RecoverBundle(d, w))
         /\ Quiet(d, RecoverBundle(d, w))
<1> DEFINE r == d.wk[w].run
           g == Abort(d, {r}, "failed", TRUE)
           e == [g EXCEPT !.wk[w].run = NoRun]
<1>1. CASE ~LosesBundle(d, w)
  BY <1>1 DEF RecoverBundle, Keeps, Quiet
<1>2. CASE LosesBundle(d, w)
  <2>1. d \in Database /\ d.wk[w] \in WorkerRow
    BY Rows DEF LedgerInv
  <2>2. r \in Runs
    BY <1>2, <2>1 DEF LosesBundle, WorkerRow
  <2> HIDE DEF r
  <2>3. {r} \in SUBSET Runs /\ "failed" \in TerminalStatus /\ TRUE \in BOOLEAN
    BY <2>2 DEF TerminalStatus
  <2>4. LedgerInv(g) /\ Keeps(d, g) /\ Quiet(d, g)
    BY <2>3, AbortKeeps
  <2> HIDE DEF g
  <2>5. WorkerUpdate(g, e)
    BY <2>4, UnassignRun
  <2>6. Keeps(d, e) /\ Quiet(d, e)
    BY <2>4, <2>5, KeepsCompose, QuietCompose DEF WorkerUpdate
  <2>7. RecoverBundle(d, w) = e
    BY <1>2 DEF RecoverBundle, r, g
  <2> QED
    BY <2>5, <2>6, <2>7 DEF WorkerUpdate
<1> QED
  BY <1>1, <1>2

\* recover_worker as a whole keeps the ledger invariant and claims nothing.
LEMMA RecoverWorkerKeeps ==
  ASSUME NEW d, LedgerInv(d), NEW w \in Workers
  PROVE  /\ LedgerInv(RecoverWorker(d, w)) /\ Keeps(d, RecoverWorker(d, w))
         /\ Quiet(d, RecoverWorker(d, w))
<1> DEFINE a == RecoverTask(d, w)
           b == RecoverBundle(a, w)
           c == [b EXCEPT !.wk[w].task = NoTask, !.wk[w].fence = 0]
<1>1. LedgerInv(a) /\ Keeps(d, a) /\ Quiet(d, a)
  BY RecoverTaskKeeps
<1> HIDE DEF a
<1>2. LedgerInv(b) /\ Keeps(a, b) /\ Quiet(a, b)
  BY <1>1, RecoverBundleKeeps
<1> HIDE DEF b
<1>3. LedgerInv(c) /\ Keeps(b, c) /\ Quiet(b, c)
  BY <1>2, UnassignTask DEF WorkerUpdate
<1> HIDE DEF c
<1>4. LedgerInv(Reap(c)) /\ Keeps(c, Reap(c)) /\ Quiet(c, Reap(c))
  BY <1>3, ReapKeeps
<1>5. Keeps(d, c) /\ Quiet(d, c)
  BY <1>1, <1>2, <1>3, KeepsCompose, QuietCompose
<1>6. Keeps(d, Reap(c)) /\ Quiet(d, Reap(c))
  BY <1>4, <1>5, KeepsCompose, QuietCompose
<1>7. RecoverWorker(d, w) = Reap(c)
  BY DEF RecoverWorker, a, b, c
<1> QED
  BY <1>4, <1>6, <1>7

\* register_worker's fallback touches a run whose ledger does not exist.
LEMMA InterruptRunKeeps ==
  ASSUME NEW d, LedgerInv(d), NEW before \in Database, Quiet(before, d), NEW w \in Workers
  PROVE  LET e == InterruptRun(d, before, w) IN LedgerInv(e) /\ Keeps(d, e)
<1> DEFINE r == before.wk[w].run
           row == [d.run[r] EXCEPT !.status = IF @ \in RunTerminal THEN @ ELSE "failed"]
           wk == [d.wk EXCEPT ![w].run = NoRun]
           e == RewriteRun(d, r, row, d.fan[r], wk, d.recon)
<1>1. CASE r = NoRun \/ before.fan[r].state # "none"
  BY <1>1 DEF InterruptRun, Keeps
<1>2. CASE r # NoRun /\ before.fan[r].state = "none"
  <2>1. d \in Database /\ before.wk[w] \in WorkerRow
    BY Rows DEF LedgerInv
  <2>2. r \in Runs
    BY <1>2, <2>1 DEF WorkerRow
  <2>3. d.fan[r].state = "none" /\ \A t \in TasksOf(r) : d.task[t].state \notin TaskActive
    BY <1>2, <2>2 DEF Quiet, LedgerInv, TasksInsideRun, TasksOf, TaskActive
  <2>4. InterruptRun(d, before, w) = e
    BY <1>2, <2>1, <2>2 DEF InterruptRun, RewriteRun, Database
  <2> HIDE DEF r
  <2>5. d.run[r] \in RunRow /\ d.fan[r] \in FanRow /\ d.recon \in [Flows -> BOOLEAN]
    BY <2>1, <2>2 DEF Database
  <2>6. /\ row \in RunRow
        /\ row.status = IF d.run[r].status \in RunTerminal THEN d.run[r].status ELSE "failed"
        /\ row.sqlComplete = d.run[r].sqlComplete
    BY <2>5 DEF RunRow, RunTerminal
  <2>7. wk \in [Workers -> WorkerRow]
    BY <2>1, NoRunFor
  <2> HIDE DEF row, wk
  <2>8. /\ RunChange(d, r, e)
        /\ e.run[r] = row /\ e.fan[r] = d.fan[r] /\ e.recon = d.recon
    BY <2>1, <2>2, <2>5, <2>6, <2>7, RunRewrite
  <2> HIDE DEF e
  <2>9. FinalizedIsWhole(d)
    BY DEF LedgerInv
  <2>10. SoundRunChange(d, r, e)
    BY <2>2, <2>3, <2>6, <2>8, <2>9 DEF SoundRunChange, RunTerminal, FinalizedIsWhole
  <2> QED
    BY <2>2, <2>4, <2>8, <2>10, RunChangeKeeps
<1> QED
  BY SMTT(40), <1>1, <1>2

\* update_run with a terminal status, as the guards of its callers allow it.
LEMMA EndRunKeeps ==
  ASSUME NEW d, LedgerInv(d), NEW w \in Workers, NEW r \in Runs,
         NEW status \in {"succeeded", "failed"},
         d.run[r].status \notin RunTerminal,
         \A t \in TasksOf(r) : d.task[t].state \notin TaskActive,
         status = "succeeded" => d.fan[r].state # "none" /\ AllSucceeded(d, r)
  PROVE  LET e == EndRun(d, w, r, status) IN LedgerInv(e) /\ Keeps(d, e)
<1> DEFINE row == [d.run[r] EXCEPT !.status = status]
           ledger == [d.fan[r] EXCEPT !.state = IF @ = "none" THEN @ ELSE "complete"]
           wk == [d.wk EXCEPT ![w].run = NoRun]
           e == RewriteRun(d, r, row, ledger, wk, d.recon)
<1>1. d \in Database /\ d.run[r] \in RunRow /\ d.fan[r] \in FanRow
      /\ d.recon \in [Flows -> BOOLEAN]
  BY DEF LedgerInv, Database
<1>2. EndRun(d, w, r, status) = e
  BY <1>1 DEF EndRun, RewriteRun, Database
<1>3. row \in RunRow /\ row.status = status /\ row.sqlComplete = d.run[r].sqlComplete
  BY <1>1 DEF RunRow, RunTerminal
<1>4. /\ ledger \in FanRow /\ ledger.sqlStarted = d.fan[r].sqlStarted
      /\ ledger.state = IF d.fan[r].state = "none" THEN "none" ELSE "complete"
  BY <1>1 DEF FanRow
<1>5. wk \in [Workers -> WorkerRow]
  BY <1>1, NoRunFor
<1> HIDE DEF row, ledger, wk
<1>6. /\ RunChange(d, r, e)
      /\ e.run[r] = row /\ e.fan[r] = ledger /\ e.recon = d.recon
  BY <1>1, <1>3, <1>4, <1>5, RunRewrite
<1> HIDE DEF e
<1>7. SoundRunChange(d, r, e)
  BY <1>3, <1>4, <1>6 DEF SoundRunChange, RunTerminal
<1> QED
  BY <1>2, <1>6, <1>7, RunChangeKeeps

\* stop_download_workers, last transaction.
LEMMA SettleKeeps ==
  ASSUME NEW d, LedgerInv(d), NEW k, NEW r \in Runs
  PROVE  LET e == Settle(d, k, r) IN LedgerInv(e) /\ Keeps(d, e)
<1> DEFINE tg == stop[<<k, r>>].tg
           Done == {w \in Workers : Confirmed(tg[w])}
           Over(t) == d.task[t].state = "cancelling"
                        /\ \E w \in Done : tg[w].task = t /\ d.task[t].worker = w
           task == [t \in Tasks |->
                     IF Over(t) THEN [d.task[t] EXCEPT !.state = "cancelled"] ELSE d.task[t]]
           wk == [w \in Workers |->
                   IF w \in Done /\ d.wk[w].fence = tg[w].pid
                   THEN [d.wk[w] EXCEPT !.task = NoTask, !.fence = 0] ELSE d.wk[w]]
           halted == d.fan[r].stopped \/ (k = "user" /\ d.fan[r].coordinator \in Done)
           fan == [d.fan EXCEPT ![r].stopped = halted]
           e == [d EXCEPT !.task = task, !.wk = wk, !.fan = fan]
<1>1. d \in Database
  BY DEF LedgerInv
<1>2. Settle(d, k, r) = e
  BY <1>1 DEF Settle, Database
<1> HIDE DEF Done, Over, halted
<1>3. ASSUME NEW t \in Tasks
      PROVE  /\ task[t] \in TaskRow
             /\ task[t].state = IF Over(t) THEN "cancelled" ELSE d.task[t].state
  <2>1. d.task[t] \in TaskRow
    BY <1>1, Rows
  <2>2. [d.task[t] EXCEPT !.state = "cancelled"] \in TaskRow
    BY <2>1 DEF TaskRow, TaskTerminal
  <2> QED
    BY <2>1, <2>2 DEF TaskRow
<1>4. wk \in [Workers -> WorkerRow]
  <2> SUFFICES ASSUME NEW w \in Workers PROVE wk[w] \in WorkerRow
    OBVIOUS
  <2>1. d.wk[w] \in WorkerRow
    BY <1>1, Rows
  <2>2. [[d.wk[w] EXCEPT !.task = NoTask] EXCEPT !.fence = 0] \in WorkerRow
    BY <2>1 DEF WorkerRow
  <2> QED
    BY <2>1, <2>2
<1>5. /\ fan \in [Runs -> FanRow]
      /\ \A q \in Runs : fan[q].state = d.fan[q].state /\ fan[q].sqlStarted = d.fan[q].sqlStarted
  <2>1. d.fan \in [Runs -> FanRow] /\ d.fan[r] \in FanRow
    BY <1>1 DEF Database
  <2>2. halted \in BOOLEAN
    BY <2>1 DEF FanRow, halted
  <2>3. /\ [d.fan[r] EXCEPT !.stopped = halted] \in FanRow
        /\ [d.fan[r] EXCEPT !.stopped = halted].state = d.fan[r].state
        /\ [d.fan[r] EXCEPT !.stopped = halted].sqlStarted = d.fan[r].sqlStarted
    BY <2>1, <2>2 DEF FanRow
  <2> QED
    BY <2>1, <2>3
<1>6. task \in [Tasks -> TaskRow] /\ \A t \in Tasks : Over(t) => d.task[t].state = "cancelling"
  BY <1>3 DEF Over
<1> HIDE DEF task, wk, fan
<1>7. /\ e \in Database /\ e.run = d.run /\ e.fan = fan /\ e.task = task
      /\ e.recon = d.recon
  BY <1>1, <1>4, <1>5, <1>6 DEF Database
<1> HIDE DEF e
<1>8. TasksEnd(d, e)
  BY <1>3, <1>5, <1>6, <1>7 DEF TasksEnd, TaskActive, TaskTerminal
<1> QED
  BY <1>2, <1>8, TasksEndKeeps

\* initialize() of an owned run that has no ledger yet keeps the invariant.
LEMMA InitializeKeeps ==
  ASSUME NEW d, LedgerInv(d), NEW w \in Workers, NEW r \in Runs, NEW done,
         Owner(d, w, r), d.fan[r].state = "none"
  PROVE  LET e == Initialized(d, w, r, done) IN LedgerInv(e) /\ Keeps(d, e)
<1> DEFINE row == [d.run[r] EXCEPT !.status = "running"]
           ledger == [[d.fan[r] EXCEPT !.state = "downloading"] EXCEPT !.coordinator = w]
           task == [t \in Tasks |-> IF RunOf[t] # r THEN d.task[t] ELSE
                     [d.task[t] EXCEPT !.state = IF t \in done THEN "succeeded" ELSE "queued"]]
           run == [d.run EXCEPT ![r] = row]
           fan == [d.fan EXCEPT ![r] = ledger]
           e == [d EXCEPT !.run = run, !.fan = fan, !.task = task]
<1>1. d \in Database /\ TasksInsideRun(d) /\ LedgerEndsWithRun(d)
      /\ FinalizedIsWhole(d) /\ FenceHasCause(d)
  BY DEF LedgerInv
<1>2. /\ d.run \in [Runs -> RunRow] /\ d.fan \in [Runs -> FanRow]
      /\ d.run[r] \in RunRow /\ d.fan[r] \in FanRow
  BY <1>1 DEF Database
<1>3. Initialized(d, w, r, done) = e
  BY ZenonT(60), <1>1, <1>2 DEF Initialized, Database
<1>4. row \in RunRow /\ row.status = "running" /\ row.sqlComplete = d.run[r].sqlComplete
  BY <1>2 DEF RunRow, RunActive
<1>5. /\ ledger \in FanRow /\ ledger.state = "downloading"
      /\ ledger.sqlStarted = d.fan[r].sqlStarted
  BY <1>2 DEF FanRow
<1>6. ASSUME NEW t \in Tasks
      PROVE  /\ task[t] \in TaskRow
             /\ RunOf[t] # r => task[t].state = d.task[t].state
             /\ RunOf[t] = r => task[t].state \in {"succeeded", "queued"}
  <2>1. d.task[t] \in TaskRow
    BY <1>1, Rows
  <2>2. CASE RunOf[t] # r
    BY <2>1, <2>2
  <2>3. CASE RunOf[t] = r
    <3> DEFINE state == IF t \in done THEN "succeeded" ELSE "queued"
    <3>1. task[t] = [d.task[t] EXCEPT !.state = state] /\ state \in {"succeeded", "queued"}
      BY <2>3
    <3> HIDE DEF task, state
    <3> QED
      BY <2>1, <2>3, <3>1 DEF TaskRow, TaskTerminal
  <2> QED
    BY <2>2, <2>3
<1>7. task \in [Tasks -> TaskRow]
  BY <1>6
<1> HIDE DEF row, ledger, task
<1>8. /\ run \in [Runs -> RunRow] /\ fan \in [Runs -> FanRow]
      /\ run[r] = row /\ fan[r] = ledger
      /\ \A q \in Runs \ {r} : run[q] = d.run[q] /\ fan[q] = d.fan[q]
  BY <1>2, <1>4, <1>5
<1> HIDE DEF run, fan
<1>9. /\ e \in Database /\ e.run = run /\ e.fan = fan /\ e.task = task /\ e.recon = d.recon
  BY <1>1, <1>7, <1>8 DEF Database
<1> HIDE DEF e
<1>10. \A t \in Tasks : /\ RunOf[t] \in Runs
                        /\ RunOf[t] = r => d.task[t].state = "none"
  BY <1>1, ShapeAssumption DEF TasksInsideRun
<1>11. d.run[r].status \in RunActive
  BY DEF Owner
<1>12. TasksInsideRun(e)
  <2>1. \A t \in Tasks : RunOf[t] # r =>
          /\ e.task[t].state = d.task[t].state
          /\ e.run[RunOf[t]] = d.run[RunOf[t]] /\ e.fan[RunOf[t]] = d.fan[RunOf[t]]
    BY <1>6, <1>8, <1>9, <1>10
  <2>2. \A t \in Tasks : RunOf[t] = r =>
          e.task[t].state \notin TaskActive /\ e.fan[RunOf[t]].state # "none"
    BY <1>5, <1>6, <1>8, <1>9 DEF TaskActive
  <2> QED
    BY <1>1, <2>1, <2>2 DEF TasksInsideRun
<1>13. LedgerEndsWithRun(e)
  BY <1>1, <1>4, <1>5, <1>8, <1>9 DEF LedgerEndsWithRun, RunTerminal
<1>14. FinalizedIsWhole(e)
  <2> SUFFICES ASSUME NEW q \in Runs, e.fan[q].state = "finalizing" \/ e.run[q].status = "succeeded"
               PROVE  e.fan[q].state # "none" /\ AllSucceeded(e, q)
    BY DEF FinalizedIsWhole
  <2>1. q # r
    BY <1>4, <1>5, <1>8, <1>9
  <2>2. e.fan[q] = d.fan[q] /\ e.run[q] = d.run[q]
    BY <1>8, <1>9, <2>1
  <2>3. \A t \in TasksOf(q) : e.task[t].state = d.task[t].state
    BY <1>6, <1>9, <2>1 DEF TasksOf
  <2> QED
    BY <1>1, <2>2, <2>3 DEF FinalizedIsWhole, AllSucceeded
<1>15. FenceHasCause(e)
  <2> SUFFICES ASSUME NEW f \in Flows, e.recon[f]
               PROVE  \E q \in Append : /\ FlowOf[q] = f /\ e.fan[q].sqlStarted
                                        /\ ~e.run[q].sqlComplete
                                        /\ e.fan[q].state \in {"aborting", "complete"}
    BY DEF FenceHasCause
  <2>1. PICK q \in Append : /\ FlowOf[q] = f /\ d.fan[q].sqlStarted
                            /\ ~d.run[q].sqlComplete
                            /\ d.fan[q].state \in {"aborting", "complete"}
    BY <1>1, <1>9 DEF FenceHasCause
  <2>2. q \in Runs /\ q # r
    BY <2>1, ShapeAssumption
  <2> QED
    BY <1>8, <1>9, <2>1, <2>2
<1>16. Keeps(d, e)
  <2>1. \A q \in Runs : d.run[q].status \in RunTerminal => e.run[q].status = d.run[q].status
    BY <1>8, <1>9, <1>11 DEF RunActive, RunTerminal
  <2>2. \A q \in Runs : q # r => e.fan[q].state = d.fan[q].state
    BY <1>8, <1>9
  <2>3. \A t \in Tasks : d.task[t].state \in TaskTerminal => e.task[t].state = d.task[t].state
    BY <1>6, <1>9, <1>10 DEF TaskTerminal
  <2> QED
    BY <2>1, <2>2, <2>3 DEF Keeps
<1> QED
  BY <1>3, <1>9, <1>12, <1>13, <1>14, <1>15, <1>16 DEF LedgerInv

\* report_task: an acknowledged cancellation, a result under a live lease with
\* the abort that a failure brings along, or nothing at all.
LEMMA AckCancelledKeeps ==
  ASSUME NEW d, LedgerInv(d), NEW w \in Workers, NEW t \in Tasks,
         d.task[t].state = "cancelling"
  PROVE  LET e == AckCancelled(d, w, t) IN LedgerInv(e) /\ Keeps(d, e)
<1> DEFINE row == [d.task[t] EXCEPT !.state = "cancelled"]
           g == RewriteTask(d, t, row, d.wk)
           e == ReleaseWorker(g, w, t)
<1>1. d \in Database /\ d.task[t] \in TaskRow /\ d.wk \in [Workers -> WorkerRow]
  BY DEF LedgerInv, Database
<1>2. [d EXCEPT !.task[t].state = "cancelled"] = g
  BY <1>1 DEF RewriteTask, Database
<1>3. AckCancelled(d, w, t) = e
  BY <1>2 DEF AckCancelled
<1>4. row \in TaskRow /\ row.state = "cancelled"
  BY <1>1 DEF TaskRow, TaskTerminal
<1> HIDE DEF row
<1>5. TaskChange(d, t, g) /\ g.task[t] = row
  BY <1>1, <1>4, TaskRewrite
<1> HIDE DEF g
<1>6. LedgerInv(g) /\ Keeps(d, g)
  BY <1>4, <1>5, TaskChangeKeeps DEF TaskTerminal, TaskActive
<1>7. LedgerInv(e) /\ Keeps(g, e)
  <2>1. CASE g.wk[w].task # t
    BY <1>6, <2>1 DEF ReleaseWorker, Keeps
  <2>2. CASE g.wk[w].task = t
    BY <1>6, <2>2, UnassignTask DEF ReleaseWorker, WorkerUpdate
  <2> QED
    BY <2>1, <2>2
<1> HIDE DEF e
<1> QED
  BY <1>3, <1>6, <1>7, KeepsCompose

\* report_task with a terminal status, for a lease that accepts it, keeps the
\* ledger invariant.
LEMMA FinishTaskKeeps ==
  ASSUME NEW d, LedgerInv(d), NEW w \in Workers, NEW t \in Tasks,
         NEW status \in TaskTerminal, LeaseAccepts(d, w, t)
  PROVE  LET e == FinishTask(d, w, t, status) IN LedgerInv(e) /\ Keeps(d, e)
<1> DEFINE row == [d.task[t] EXCEPT !.state = status]
           wk == [d.wk EXCEPT ![w].task = IF @ = t THEN NoTask ELSE @]
           e == RewriteTask(d, t, row, wk)
<1>1. /\ d \in Database /\ d.task[t] \in TaskRow /\ d.wk \in [Workers -> WorkerRow]
      /\ d.task[t].state = "claimed"
  BY DEF LedgerInv, Database, LeaseAccepts
<1>2. FinishTask(d, w, t, status) = e
  BY <1>1 DEF FinishTask, RewriteTask, Database
<1>3. row \in TaskRow /\ row.state = status
  BY <1>1 DEF TaskRow
<1>4. wk \in [Workers -> WorkerRow]
  <2> DEFINE task == IF d.wk[w].task = t THEN NoTask ELSE d.wk[w].task
  <2>1. d.wk[w] \in WorkerRow /\ task \in Tasks \cup {NoTask}
    BY <1>1 DEF WorkerRow
  <2>2. wk = [d.wk EXCEPT ![w] = [d.wk[w] EXCEPT !.task = task]]
    BY <1>1
  <2> HIDE DEF task, wk
  <2>3. [d.wk[w] EXCEPT !.task = task] \in WorkerRow
    BY <2>1 DEF WorkerRow
  <2> QED
    BY <1>1, <2>2, <2>3
<1> HIDE DEF row, wk
<1>5. TaskChange(d, t, e) /\ e.task[t] = row
  BY <1>1, <1>3, <1>4, TaskRewrite
<1> HIDE DEF e
<1> QED
  BY <1>1, <1>2, <1>3, <1>5, TaskChangeKeeps DEF TaskTerminal, TaskActive

\* The whole of report_task keeps the ledger invariant: the acknowledgement of
\* a cancellation, the accepted result with its abort, and the refused report.
LEMMA TaskReportedKeeps ==
  ASSUME NEW d, LedgerInv(d), NEW w \in Workers, NEW t \in Tasks, NEW status \in TaskTerminal
  PROVE  LET e == TaskReported(d, w, t, status) IN LedgerInv(e) /\ Keeps(d, e)
<1> DEFINE e == TaskReported(d, w, t, status)
           g == FinishTask(d, w, t, status)
           Ack == status = "cancelled" /\ d.task[t].state = "cancelling"
<1>1. CASE Ack
  <2>1. e = AckCancelled(d, w, t)
    BY <1>1 DEF TaskReported, LeaseAccepts
  <2> QED
    BY <1>1, <2>1, AckCancelledKeeps
<1>2. CASE ~Ack /\ LeaseAccepts(d, w, t) /\ status = "succeeded"
  <2>1. e = g
    BY <1>2 DEF TaskReported
  <2> QED
    BY <1>2, <2>1, FinishTaskKeeps
<1>3. CASE ~Ack /\ LeaseAccepts(d, w, t) /\ status # "succeeded"
  <2>1. e = Abort(g, {RunOf[t]}, "failed", FALSE)
    BY <1>3 DEF TaskReported
  <2>2. LedgerInv(g) /\ Keeps(d, g)
    BY <1>3, FinishTaskKeeps
  <2>3. {RunOf[t]} \in SUBSET Runs /\ "failed" \in TerminalStatus /\ FALSE \in BOOLEAN
    BY ShapeAssumption DEF TerminalStatus
  <2> HIDE DEF e, g
  <2>4. LedgerInv(e) /\ Keeps(g, e)
    BY <2>1, <2>2, <2>3, AbortKeeps
  <2> QED
    BY <2>2, <2>4, KeepsCompose DEF e
<1>4. CASE ~Ack /\ ~LeaseAccepts(d, w, t)
  BY <1>4 DEF TaskReported, Keeps
<1> QED
  BY <1>1, <1>2, <1>3, <1>4

\* claim_finalizer: only a bundle with all its exports is finalized.
LEMMA ClaimFinalizerKeeps ==
  ASSUME NEW d, LedgerInv(d), NEW w \in Workers, NEW r \in Runs, Finalizable(d, w, r)
  PROVE  LET e == [d EXCEPT !.fan[r].state = "finalizing"] IN LedgerInv(e) /\ Keeps(d, e)
<1> DEFINE ledger == [d.fan[r] EXCEPT !.state = "finalizing"]
           e == RewriteRun(d, r, d.run[r], ledger, d.wk, d.recon)
<1>1. /\ d \in Database /\ d.run[r] \in RunRow /\ d.fan[r] \in FanRow
      /\ d.wk \in [Workers -> WorkerRow] /\ d.recon \in [Flows -> BOOLEAN]
      /\ LedgerEndsWithRun(d)
  BY DEF LedgerInv, Database
<1>2. [d EXCEPT !.fan[r].state = "finalizing"] = e
  BY <1>1 DEF RewriteRun, Database
<1>3. ledger \in FanRow /\ ledger.state = "finalizing" /\ ledger.sqlStarted = d.fan[r].sqlStarted
  BY <1>1 DEF FanRow
<1> HIDE DEF ledger
<1>4. RunChange(d, r, e) /\ e.run[r] = d.run[r] /\ e.fan[r] = ledger /\ e.recon = d.recon
  BY <1>1, <1>3, RunRewrite
<1> HIDE DEF e
<1>5. d.fan[r].state \in {"downloading", "finalizing"} /\ AllSucceeded(d, r)
  BY DEF Finalizable
<1>6. SoundRunChange(d, r, e)
  BY <1>1, <1>3, <1>4, <1>5
     DEF SoundRunChange, LedgerEndsWithRun, AllSucceeded, TaskActive
<1> QED
  BY <1>2, <1>4, <1>6, RunChangeKeeps

\* The coordinator's failed report: the run ends, and an append that began
\* and was not recorded raises the fence of its flow.
LEMMA ReportFailedKeeps ==
  ASSUME NEW d, LedgerInv(d), NEW w \in Workers, NEW r \in Runs,
         d.run[r].status \in RunActive,
         \A t \in TasksOf(r) : d.task[t].state \notin TaskActive
  PROVE  LET e == EndRun(RaiseUncertain(d, r), w, r, "failed") IN LedgerInv(e) /\ Keeps(d, e)
<1> DEFINE e == EndRun(RaiseUncertain(d, r), w, r, "failed")
<1>1. CASE ~(d.fan[r].state = "finalizing" /\ SqlUncertain(d, r))
  <2>1. e = EndRun(d, w, r, "failed")
    BY <1>1 DEF RaiseUncertain
  <2> QED
    BY <2>1, EndRunKeeps DEF RunActive, RunTerminal
<1>2. CASE d.fan[r].state = "finalizing" /\ SqlUncertain(d, r)
  <2> DEFINE row == [d.run[r] EXCEPT !.status = "failed"]
             ledger == [d.fan[r] EXCEPT !.state = "complete"]
             wk == [d.wk EXCEPT ![w].run = NoRun]
             recon == [d.recon EXCEPT ![FlowOf[r]] = TRUE]
             g == RewriteRun(d, r, row, ledger, wk, recon)
  <2>1. /\ d \in Database /\ d.run[r] \in RunRow /\ d.fan[r] \in FanRow
        /\ d.recon \in [Flows -> BOOLEAN]
    BY DEF LedgerInv, Database
  <2>2. e = g
    BY <1>2, <2>1 DEF EndRun, RaiseUncertain, RewriteRun, Database
  <2>3. row \in RunRow /\ row.status = "failed" /\ row.sqlComplete = d.run[r].sqlComplete
    BY <2>1 DEF RunRow, RunTerminal
  <2>4. /\ ledger \in FanRow /\ ledger.sqlStarted = d.fan[r].sqlStarted
        /\ ledger.state = "complete"
    BY <2>1 DEF FanRow
  <2>5. wk \in [Workers -> WorkerRow]
    BY <2>1, NoRunFor
  <2>6. recon \in [Flows -> BOOLEAN] /\ \A f \in Flows : recon[f] => d.recon[f] \/ f = FlowOf[r]
    BY <2>1
  <2> HIDE DEF row, ledger, wk, recon
  <2>7. RunChange(d, r, g) /\ g.run[r] = row /\ g.fan[r] = ledger /\ g.recon = recon
    BY <2>1, <2>3, <2>4, <2>5, <2>6, RunRewrite
  <2> HIDE DEF g
  <2>8. r \in Append /\ d.fan[r].sqlStarted /\ ~d.run[r].sqlComplete
    BY <1>2 DEF SqlUncertain, ReconciliationRequired
  <2>9. SoundRunChange(d, r, g)
    BY <1>2, <2>3, <2>4, <2>6, <2>7, <2>8 DEF SoundRunChange, RunActive, RunTerminal
  <2> QED
    BY <2>2, <2>7, <2>9, RunChangeKeeps
<1> QED
  BY <1>1, <1>2

\* fail_stale_runs, one silent run.
LEMMA FailStaleKeeps ==
  ASSUME NEW d, LedgerInv(d), NEW r \in Runs, d.run[r].status \in RunActive
  PROVE  LET e == FailStale(d, r) IN LedgerInv(e) /\ Keeps(d, e)
<1> DEFINE e == FailStale(d, r)
<1>1. CASE d.fan[r].state # "none"
  <2> DEFINE g == Abort(d, {r}, "failed", TRUE)
  <2>1. e = FinishAborted(g, {r})
    BY <1>1 DEF FailStale
  <2>2. {r} \in SUBSET Runs /\ "failed" \in TerminalStatus /\ TRUE \in BOOLEAN
    BY DEF TerminalStatus
  <2>3. LedgerInv(g) /\ Keeps(d, g)
    BY <2>2, AbortKeeps
  <2> HIDE DEF g, e
  <2>4. LedgerInv(e) /\ Keeps(g, e)
    BY <2>1, <2>2, <2>3, FinishAbortedKeeps
  <2> QED
    BY <2>3, <2>4, KeepsCompose DEF e
<1>2. CASE d.fan[r].state = "none"
  <2> DEFINE row == [d.run[r] EXCEPT !.status = "failed"]
             wk == [d.wk EXCEPT ![d.run[r].worker].run = NoRun]
             g == RewriteRun(d, r, row, d.fan[r], wk, d.recon)
  <2>1. /\ d \in Database /\ d.run[r] \in RunRow /\ d.fan[r] \in FanRow
        /\ d.recon \in [Flows -> BOOLEAN] /\ TasksInsideRun(d)
    BY DEF LedgerInv, Database
  <2>2. e = g
    BY <1>2, <2>1 DEF FailStale, RewriteRun, Database
  <2>3. row \in RunRow /\ row.status = "failed" /\ row.sqlComplete = d.run[r].sqlComplete
    BY <2>1 DEF RunRow, RunTerminal
  <2>4. wk \in [Workers -> WorkerRow]
    BY <2>1, NoRunFor
  <2> HIDE DEF row, wk
  <2>5. RunChange(d, r, g) /\ g.run[r] = row /\ g.fan[r] = d.fan[r] /\ g.recon = d.recon
    BY <2>1, <2>3, <2>4, RunRewrite
  <2> HIDE DEF g
  <2>6. SoundRunChange(d, r, g)
    BY <1>2, <2>1, <2>3, <2>5
       DEF SoundRunChange, RunActive, RunTerminal, TasksInsideRun, TasksOf, TaskActive
  <2> QED
    BY <2>2, <2>5, <2>6, RunChangeKeeps
<1> QED
  BY <1>1, <1>2

-----------------------------------------------------------------------------
(* The actions.                                                            *)

\* A worker that was told to finalize, and a load that began, belong to a
\* bundle with all its exports.  The token may outlive the run: a finalizer
\* whose run was ended by somebody else goes on.
FinalizerHasExports ==
  /\ \A w \in Workers : proc[w].token # NoRun =>
       db.fan[proc[w].token].state # "none" /\ AllSucceeded(db, proc[w].token)
  /\ \A r \in Runs : sql[r] # "none" => db.fan[r].state # "none" /\ AllSucceeded(db, r)

\* The inductive invariant.
BundleInv == TypeOK /\ LedgerInv(db) /\ FinalizerHasExports

\* Every action of a worker's main thread leaves a sound ledger.
LEMMA WorkerLedger ==
  ASSUME BundleInv, NEW w \in Workers, WorkerStep(w)
  PROVE  LedgerInv(db') /\ Keeps(db, db')
<1> DEFINE Sound == LedgerInv(db') /\ Keeps(db, db')
           d == Reap(db)
<1>1. LedgerInv(db) /\ db \in Database /\ proc \in [Workers -> ProcRow]
  BY DEF BundleInv, LedgerInv, TypeOK
<1>2. ASSUME db' = db PROVE Sound
  BY <1>1, <1>2 DEF Keeps
<1>3. LedgerInv(d) /\ Keeps(db, d)
  BY <1>1, ReapKeeps
<1>4. ASSUME NEW e, LedgerInv(e), Keeps(d, e), db' = e PROVE Sound
  <2>1. Keeps(db, e)
    BY <1>3, <1>4, KeepsCompose
  <2> QED
    BY <1>4, <2>1
<1>5. Keeps(d, d)
  BY DEF Keeps
<1> HIDE DEF d
<1>6. CASE StartProcess(w) \/ Crash(w) \/ Unwind(w) \/ FinalizerUnwinds(w)
  BY <1>2, <1>6 DEF StartProcess, Crash, Unwind, FinalizerUnwinds
<1>7. CASE RegisterWorker(w)
  <2> DEFINE a == RecoverWorker(db, w)
             b == InterruptRun(a, db, w)
             c == IF db.wk[w].pid = 0 THEN db ELSE b
             e == [c EXCEPT !.wk[w].pid = proc[w].pid]
  <2>1. LedgerInv(a) /\ Keeps(db, a) /\ Quiet(db, a)
    BY <1>1, RecoverWorkerKeeps
  <2> HIDE DEF a
  <2>2. LedgerInv(b) /\ Keeps(a, b)
    BY <1>1, <2>1, InterruptRunKeeps
  <2> HIDE DEF b
  <2>3. Keeps(db, b)
    BY <2>1, <2>2, KeepsCompose
  <2>4. LedgerInv(c) /\ Keeps(db, c)
    BY <1>1, <2>2, <2>3 DEF Keeps
  <2>5. proc[w].pid \in Nat
    BY <1>1 DEF ProcRow
  <2>6. db' = e
    BY <1>7 DEF RegisterWorker, a, b
  <2> HIDE DEF c
  <2>7. LedgerInv(e) /\ Keeps(c, e)
    BY <2>4, <2>5, RegisterPid DEF WorkerUpdate
  <2> HIDE DEF e
  <2> QED
    BY <2>4, <2>6, <2>7, KeepsCompose
<1>8. CASE ClaimRunTask(w)
  <2>1. PICK t \in TaskOffers(d, w, Runs) : db' = AssignTask(d, w, t)
    BY <1>8 DEF ClaimRunTask, Offer, d
  <2>2. LedgerInv(AssignTask(d, w, t)) /\ Keeps(d, AssignTask(d, w, t))
    BY <1>3, AssignTaskKeeps
  <2> QED
    BY <1>4, <2>1, <2>2
<1>9. CASE ClaimRunHeld(w)
  <2>1. db' = d
    BY <1>9 DEF ClaimRunHeld, Nothing, d
  <2> QED
    BY <1>3, <1>4, <1>5, <2>1
<1>10. CASE ClaimRunNew(w)
  <2>1. PICK r \in RunOffers(d, w) : db' = AssignRun(d, w, r)
    BY <1>10 DEF ClaimRunNew, d
  <2>2. LedgerInv(AssignRun(d, w, r)) /\ Keeps(d, AssignRun(d, w, r))
    BY <1>3, AssignRunKeeps
  <2> QED
    BY <1>4, <2>1, <2>2
<1>11. CASE ClaimRunIdle(w)
  <2>1. db' = RunIdle(d, w)
    BY <1>11 DEF ClaimRunIdle, Nothing, d
  <2>2. LedgerInv(RunIdle(d, w)) /\ Keeps(d, RunIdle(d, w))
    BY <1>3, UnassignRun DEF RunIdle, WorkerUpdate
  <2> QED
    BY <1>4, <2>1, <2>2
<1>12. ASSUME NEW t \in Tasks, NEW status \in TaskTerminal, ReportTask(w, t, status)
       PROVE  Sound
  BY <1>1, <1>12, TaskReportedKeeps DEF ReportTask
<1> QED
  BY <1>6, <1>7, <1>8, <1>9, <1>10, <1>11, <1>12 DEF WorkerStep

\* So does every action of a coordinator.
LEMMA CoordinatorLedger ==
  ASSUME BundleInv, NEW w \in Workers, NEW r \in Runs, CoordinatorStep(w, r)
  PROVE  LedgerInv(db') /\ Keeps(db, db')
<1> DEFINE Sound == LedgerInv(db') /\ Keeps(db, db')
           d == Reap(db)
           Reported(status, complete, started) ==
             RewriteRun(db, r, [db.run[r] EXCEPT !.status = status, !.sqlComplete = complete],
                        [db.fan[r] EXCEPT !.sqlStarted = started], db.wk, db.recon)
<1>1. /\ LedgerInv(db) /\ db \in Database /\ TasksInsideRun(db) /\ FinalizedIsWhole(db)
      /\ db.run[r] \in RunRow /\ db.fan[r] \in FanRow
  BY Rows DEF BundleInv, LedgerInv
<1>2. ASSUME db' = db PROVE Sound
  BY <1>1, <1>2 DEF Keeps
<1>3. LedgerInv(d) /\ Keeps(db, d)
  BY <1>1, ReapKeeps
<1>4. ASSUME NEW e, LedgerInv(e), Keeps(d, e), db' = e PROVE Sound
  <2>1. Keeps(db, e)
    BY <1>3, <1>4, KeepsCompose
  <2> QED
    BY <1>4, <2>1
<1>5. Keeps(d, d)
  BY DEF Keeps
<1>6. ASSUME HoldsToken(db, w, r) PROVE \A t \in TasksOf(r) : db.task[t].state \notin TaskActive
  BY <1>1, <1>6 DEF HoldsToken, TasksInsideRun, TasksOf
<1>7. ASSUME Owner(db, w, r), NEW complete \in BOOLEAN, NEW started \in BOOLEAN,
             db.fan[r].sqlStarted => started,
             complete => db.run[r].sqlComplete \/ db.fan[r].state = "finalizing",
             NEW status \in RunActive, db' = Reported(status, complete, started)
      PROVE  Sound
  BY <1>1, <1>7, RunningKeeps DEF Owner
<1> HIDE DEF d
<1>8. ASSUME NEW done \in SUBSET (TasksOf(r) \cap Carried), Initialize(w, r, done) PROVE Sound
  <2>1. db' = Initialized(db, w, r, done)
    BY <1>8 DEF Initialize, Initialized
  <2> QED
    BY <1>1, <1>8, <2>1, InitializeKeeps DEF Initialize
<1>9. CASE ClaimOwnTask(w, r)
  <2>1. CASE db' = d
    BY <1>3, <1>4, <1>5, <2>1
  <2>2. CASE \E t \in TaskOffers(d, w, {r}) : db' = AssignTask(d, w, t)
    <3>1. PICK t \in TaskOffers(d, w, {r}) : db' = AssignTask(d, w, t)
      BY <2>2
    <3>2. LedgerInv(AssignTask(d, w, t)) /\ Keeps(d, AssignTask(d, w, t))
      BY <1>3, AssignTaskKeeps
    <3> QED
      BY <1>4, <3>1, <3>2
  <2> QED
    BY <1>9, <2>1, <2>2 DEF ClaimOwnTask, Nothing, Offer, d
<1>10. CASE Status(w, r)
  <2>1. db' = d
    BY <1>10 DEF Status, d
  <2> QED
    BY <1>3, <1>4, <1>5, <2>1
<1>11. CASE ClaimFinalizer(w, r)
  <2>1. Finalizable(d, w, r) /\ db' = [d EXCEPT !.fan[r].state = "finalizing"]
    BY <1>11 DEF ClaimFinalizer, d
  <2>2. /\ LedgerInv([d EXCEPT !.fan[r].state = "finalizing"])
        /\ Keeps(d, [d EXCEPT !.fan[r].state = "finalizing"])
    BY <1>3, <2>1, ClaimFinalizerKeeps
  <2> QED
    BY <1>4, <2>1, <2>2
<1>12. CASE ReportRunning(w, r)
  <2>1. Owner(db, w, r) /\ db' = [db EXCEPT !.run[r].status = "running"]
    BY <1>12 DEF ReportRunning, MayReport
  <2>2. db' = Reported("running", db.run[r].sqlComplete, db.fan[r].sqlStarted)
    <3> DEFINE row == [db.run[r] EXCEPT !.status = "running"]
    <3>1. row = [db.run[r] EXCEPT !.status = "running", !.sqlComplete = db.run[r].sqlComplete]
      BY <1>1 DEF RunRow
    <3>2. db.fan[r] = [db.fan[r] EXCEPT !.sqlStarted = db.fan[r].sqlStarted]
      BY <1>1 DEF FanRow
    <3>3. db' = RewriteRun(db, r, row, db.fan[r], db.wk, db.recon)
      BY <1>1, <2>1 DEF RewriteRun, Database
    <3> QED
      BY <3>1, <3>2, <3>3
  <2>3. /\ db.run[r].sqlComplete \in BOOLEAN /\ db.fan[r].sqlStarted \in BOOLEAN
        /\ "running" \in RunActive
    BY <1>1 DEF RunRow, FanRow, RunActive
  <2> HIDE DEF Reported
  <2> QED
    BY <1>7, <2>1, <2>2, <2>3
<1>13. CASE ReportSqlInsertion(w, r)
  <2>1. CASE db' = db
    BY <1>2, <2>1
  <2>2. CASE db' # db
    <3>1. /\ Owner(db, w, r)
          /\ db' = [db EXCEPT !.run[r].status = "running", !.fan[r].sqlStarted = TRUE]
      BY <1>13, <2>2 DEF ReportSqlInsertion, FinalizerReports, MayReport
    <3>2. db' = Reported("running", db.run[r].sqlComplete, TRUE)
      BY <1>1, <3>1 DEF RewriteRun, Database, RunRow, FanRow
    <3>3. db.run[r].sqlComplete \in BOOLEAN /\ TRUE \in BOOLEAN /\ "running" \in RunActive
      BY <1>1 DEF RunRow, RunActive
    <3> HIDE DEF Reported
    <3> QED
      BY <1>7, <3>1, <3>2, <3>3
  <2> QED
    BY <2>1, <2>2
<1>14. CASE ReportSqlCommit(w, r)
  BY <1>2, <1>14 DEF ReportSqlCommit, FinalizerReports
<1>15. CASE ReportSqlComplete(w, r)
  <2>1. CASE db' = db
    BY <1>2, <2>1
  <2>2. CASE db' # db
    <3>1. /\ Owner(db, w, r) /\ HoldsToken(db, w, r)
          /\ db' = [db EXCEPT !.run[r].sqlComplete = TRUE]
      BY <1>15, <2>2 DEF ReportSqlComplete, FinalizerReports, MayReport
    <3>2. db' = Reported(db.run[r].status, TRUE, db.fan[r].sqlStarted)
      <4> DEFINE row == [db.run[r] EXCEPT !.sqlComplete = TRUE]
      <4>1. row = [db.run[r] EXCEPT !.status = db.run[r].status, !.sqlComplete = TRUE]
        BY <1>1 DEF RunRow
      <4>2. db.fan[r] = [db.fan[r] EXCEPT !.sqlStarted = db.fan[r].sqlStarted]
        BY <1>1 DEF FanRow
      <4>3. db' = RewriteRun(db, r, row, db.fan[r], db.wk, db.recon)
        BY <1>1, <3>1 DEF RewriteRun, Database
      <4> QED
        BY <4>1, <4>2, <4>3
    <3>3. /\ db.fan[r].sqlStarted \in BOOLEAN /\ TRUE \in BOOLEAN
          /\ db.run[r].status \in RunActive /\ db.fan[r].state = "finalizing"
      BY <1>1, <3>1 DEF FanRow, Owner, HoldsToken
    <3> HIDE DEF Reported
    <3> QED
      BY <1>7, <3>1, <3>2, <3>3
  <2> QED
    BY <2>1, <2>2
<1>16. CASE ReportSucceeded(w, r)
  <2>1. CASE db' = db
    BY <1>2, <2>1
  <2>2. CASE db' # db
    <3>1. /\ Owner(db, w, r) /\ HoldsToken(db, w, r) /\ db' = EndRun(db, w, r, "succeeded")
      BY <1>16, <2>2 DEF ReportSucceeded, FinalizerReports, MayReport
    <3>2. db.run[r].status \notin RunTerminal
      BY <3>1 DEF Owner, RunActive, RunTerminal
    <3>3. db.fan[r].state # "none" /\ AllSucceeded(db, r)
      BY <1>1, <3>1 DEF HoldsToken, FinalizedIsWhole
    <3> QED
      BY <1>1, <1>6, <3>1, <3>2, <3>3, EndRunKeeps
  <2> QED
    BY <2>1, <2>2
<1>17. CASE ReportFailed(w, r)
  <2>1. /\ Owner(db, w, r) /\ GuardFailed(db, w, r)
        /\ db' = EndRun(RaiseUncertain(db, r), w, r, "failed")
    BY <1>17 DEF ReportFailed
  <2>2. \A t \in TasksOf(r) : db.task[t].state \notin TaskActive
    <3>1. CASE db.fan[r].state = "none"
      BY <1>1, <3>1 DEF TasksInsideRun, TasksOf
    <3>2. CASE Drained(db, r)
      BY <3>2 DEF Drained
    <3>3. CASE HoldsToken(db, w, r)
      BY <1>6, <3>3
    <3> QED
      BY <2>1, <3>1, <3>2, <3>3 DEF GuardFailed
  <2> QED
    BY <1>1, <2>1, <2>2, ReportFailedKeeps DEF Owner
<1>18. CASE CoordinatorAbort(w, r)
  <2>1. {r} \in SUBSET Runs /\ "failed" \in TerminalStatus /\ FALSE \in BOOLEAN
    BY DEF TerminalStatus
  <2>2. LedgerInv(Abort(db, {r}, "failed", FALSE)) /\ Keeps(db, Abort(db, {r}, "failed", FALSE))
    BY <1>1, <2>1, AbortKeeps
  <2> QED
    BY <1>18, <2>2 DEF CoordinatorAbort
<1> QED
  BY <1>8, <1>9, <1>10, <1>11, <1>12, <1>13, <1>14, <1>15, <1>16, <1>17, <1>18
     DEF CoordinatorStep

\* And every step of a stop procedure, of the operator and of the clock.
LEMMA StopLedger ==
  ASSUME BundleInv, NEW k, NEW r \in Runs, StopStep(k, r)
  PROVE  LedgerInv(db') /\ Keeps(db, db')
<1>1. LedgerInv(db) /\ db \in Database
  BY DEF BundleInv, LedgerInv
<1>2. ASSUME db' = db PROVE LedgerInv(db') /\ Keeps(db, db')
  BY <1>1, <1>2 DEF Keeps
<1>3. CASE StopFence(k, r)
  <2> DEFINE S == StopTargets(db, k, r)
             wk == [w \in Workers |->
                     IF w \in S THEN [db.wk[w] EXCEPT !.fence = db.wk[w].pid] ELSE db.wk[w]]
             e == [db EXCEPT !.wk = wk]
  <2>1. db' = e
    BY <1>3 DEF StopFence
  <2>2. wk \in [Workers -> WorkerRow]
    <3> SUFFICES ASSUME NEW w \in Workers PROVE wk[w] \in WorkerRow
      OBVIOUS
    <3>1. db.wk[w] \in WorkerRow
      BY <1>1, Rows
    <3>2. [db.wk[w] EXCEPT !.fence = db.wk[w].pid] \in WorkerRow
      BY <3>1 DEF WorkerRow
    <3> QED
      BY <3>1, <3>2
  <2> HIDE DEF wk
  <2> QED
    BY <1>1, <2>1, <2>2, WorkersOnly
<1>4. CASE StopFinish(k, r)
  <2> DEFINE g == Settle(db, k, r)
  <2>1. LedgerInv(g) /\ Keeps(db, g)
    BY <1>1, SettleKeeps
  <2> HIDE DEF g
  <2>2. LedgerInv(Reap(g)) /\ Keeps(g, Reap(g))
    BY <2>1, ReapKeeps
  <2>3. db' = db \/ db' = Reap(g)
    BY <1>4 DEF StopFinish, g
  <2>4. Keeps(db, Reap(g))
    BY <2>1, <2>2, KeepsCompose
  <2> QED
    BY <1>2, <2>2, <2>3, <2>4
<1>5. ASSUME NEW w \in Workers, StopCheck(k, r, w) \/ StopKill(k, r, w) \/ StopFails(k, r, w)
      PROVE  LedgerInv(db') /\ Keeps(db, db')
  BY <1>2, <1>5 DEF StopCheck, StopKill, StopFails
<1> QED
  BY <1>3, <1>4, <1>5 DEF StopStep

\* Every step about one run that no worker takes keeps the ledger invariant.
LEMMA RunLedger ==
  ASSUME BundleInv, NEW r \in Runs, RunStep(r)
  PROVE  LedgerInv(db') /\ Keeps(db, db')
<1>1. LedgerInv(db)
  BY DEF BundleInv
<1>2. CASE QueueRun(r)
  BY <1>1, <1>2, QueueKeeps DEF QueueRun
<1>3. CASE StopBundle(r)
  <2>1. {r} \in SUBSET Runs /\ "cancelled" \in TerminalStatus /\ FALSE \in BOOLEAN
    BY DEF TerminalStatus
  <2>2. /\ LedgerInv(Abort(db, {r}, "cancelled", FALSE))
        /\ Keeps(db, Abort(db, {r}, "cancelled", FALSE))
    BY <1>1, <2>1, AbortKeeps
  <2> QED
    BY <1>3, <2>2 DEF StopBundle
<1>4. CASE StopPlain(r)
  <2> DEFINE w == db.run[r].worker
             assigned == db.run[r].status \in RunActive /\ w # NoWorker
  <2>1. /\ db.run[r].status \in {"queued"} \cup RunActive /\ db.fan[r].state = "none"
        /\ db' = StoppedPlain(db, r, assigned, w)
    BY <1>4 DEF StopPlain, StoppedPlain
  <2> HIDE DEF w, assigned
  <2> QED
    BY <1>1, <2>1, StoppedPlainKeeps
<1>5. CASE SqlCommits(r)
  BY <1>1, <1>5 DEF SqlCommits, Keeps
<1>6. CASE DeadlinePasses(r)
  BY <1>1, <1>6, ClockKeeps DEF DeadlinePasses
<1>7. CASE FailStaleRun(r)
  <2> DEFINE d == Reap(db)
  <2>1. LedgerInv(d) /\ Keeps(db, d)
    BY <1>1, ReapKeeps
  <2>2. d.run[r].status \in RunActive /\ db' = FailStale(d, r)
    BY <1>7 DEF FailStaleRun
  <2> HIDE DEF d
  <2>3. LedgerInv(FailStale(d, r)) /\ Keeps(d, FailStale(d, r))
    BY <2>1, <2>2, FailStaleKeeps
  <2> QED
    BY <2>1, <2>2, <2>3, KeepsCompose
<1> QED
  BY <1>2, <1>3, <1>4, <1>5, <1>6, <1>7 DEF RunStep

\* Every step of the specification keeps the ledger invariant, and its rows
\* are monotone: what ended stays ended, what succeeded stays succeeded.
LEMMA LedgerStep ==
  ASSUME BundleInv, Next
  PROVE  LedgerInv(db') /\ Keeps(db, db')
<1>1. LedgerInv(db)
  BY DEF BundleInv
<1>2. ASSUME NEW w \in Workers, WorkerStep(w) PROVE LedgerInv(db') /\ Keeps(db, db')
  BY <1>2, WorkerLedger
<1>3. ASSUME NEW w \in Workers, NEW r \in Runs, CoordinatorStep(w, r)
      PROVE  LedgerInv(db') /\ Keeps(db, db')
  BY <1>3, CoordinatorLedger
<1>4. ASSUME NEW key \in StopKeys, StopStep(key[1], key[2])
      PROVE  LedgerInv(db') /\ Keeps(db, db')
  <2>1. key[2] \in Runs
    BY StopKeysAssumption
  <2> QED
    BY <1>4, <2>1, StopLedger
<1>5. ASSUME NEW r \in Runs, RunStep(r) PROVE LedgerInv(db') /\ Keeps(db, db')
  BY <1>5, RunLedger
<1>6. ASSUME NEW t \in Tasks, LeaseExpires(t) PROVE LedgerInv(db') /\ Keeps(db, db')
  BY <1>1, <1>6, ClockKeeps DEF LeaseExpires
<1>7. ASSUME NEW f \in Flows, AcknowledgeSqlReconciliation(f)
      PROVE  LedgerInv(db') /\ Keeps(db, db')
  BY <1>1, <1>7, ClockKeeps DEF AcknowledgeSqlReconciliation
<1>8. CASE Watchdog
  BY <1>1, <1>8, ReapKeeps DEF Watchdog
<1> QED
  BY <1>2, <1>3, <1>4, <1>5, <1>6, <1>7, <1>8 DEF Next

\* The process rows stay typed, and a worker gets the finalizer token only by
\* a claim that leaves the bundle finalizing.
TokenGranted(v) ==
  \/ proc'[v].token \in {NoRun, proc[v].token}
  \/ proc'[v].token \in Runs /\ db'.fan[proc'[v].token].state = "finalizing"
ProcessesSound == proc' \in [Workers -> ProcRow] /\ \A v \in Workers : TokenGranted(v)

\* One process row changes, its token at most reset.
LEMMA RowReplaced ==
  ASSUME proc \in [Workers -> ProcRow], NEW w \in Workers, NEW row \in ProcRow,
         proc' = [proc EXCEPT ![w] = row],
         \/ row.token \in {NoRun, proc[w].token}
         \/ row.token \in Runs /\ db'.fan[row.token].state = "finalizing"
  PROVE  ProcessesSound
BY DEF ProcessesSound, TokenGranted

\* Starting or leaving an export grants no finalizer token.
LEMMA ExecChanged ==
  ASSUME proc \in [Workers -> ProcRow], NEW w \in Workers, NEW t \in Tasks \cup {NoTask},
         proc' = [proc EXCEPT ![w].exec = t]
  PROVE  ProcessesSound
<1> DEFINE row == [proc[w] EXCEPT !.exec = t]
<1>1. row \in ProcRow /\ row.token = proc[w].token
  BY DEF ProcRow
<1>2. proc' = [proc EXCEPT ![w] = row]
  OBVIOUS
<1> HIDE DEF row
<1> QED
  BY <1>1, <1>2, RowReplaced

\* Dropping a finalizer token keeps the processes sound.
LEMMA TokenDropped ==
  ASSUME proc \in [Workers -> ProcRow], NEW w \in Workers,
         proc' = [proc EXCEPT ![w].token = NoRun]
  PROVE  ProcessesSound
<1> DEFINE row == [proc[w] EXCEPT !.token = NoRun]
<1>1. row \in ProcRow /\ row.token = NoRun
  BY DEF ProcRow
<1>2. proc' = [proc EXCEPT ![w] = row]
  OBVIOUS
<1> HIDE DEF row
<1> QED
  BY <1>1, <1>2, RowReplaced

\* A process that dies leaves the processes sound.
LEMMA ProcessKilled ==
  ASSUME proc \in [Workers -> ProcRow], NEW w \in Workers, proc' = Killed(w)
  PROVE  ProcessesSound
<1> DEFINE row == [proc[w] EXCEPT !.up = FALSE, !.exec = NoTask, !.token = NoRun]
<1>1. row \in ProcRow /\ row.token = NoRun
  BY DEF ProcRow
<1>2. proc' = [proc EXCEPT ![w] = row]
  BY DEF Killed
<1> HIDE DEF row
<1> QED
  BY <1>1, <1>2, RowReplaced

\* Every step leaves the process rows typed, and grants the finalizer token
\* of a run only while the bundle of that run is finalizing.
LEMMA ProcessStep ==
  ASSUME BundleInv, Next
  PROVE  ProcessesSound
<1>1. proc \in [Workers -> ProcRow] /\ LedgerInv(db) /\ LedgerInv(Reap(db))
  BY ReapKeeps DEF BundleInv, TypeOK
<1>2. ASSUME UNCHANGED proc PROVE ProcessesSound
  BY <1>1, <1>2 DEF ProcessesSound, TokenGranted
<1>3. ASSUME NEW w \in Workers, WorkerStep(w) PROVE ProcessesSound
  <2>1. CASE StartProcess(w)
    <3> DEFINE pid == proc[w].pid + 1
               row == [NoProcess EXCEPT !.pid = pid, !.up = TRUE]
    <3>1. pid \in Nat
      BY <1>1 DEF ProcRow
    <3>2. NoProcess \in ProcRow /\ NoProcess.token = NoRun
      BY DEF ProcRow, NoProcess
    <3>3. proc' = [proc EXCEPT ![w] = row]
      BY <2>1, Zenon DEF StartProcess
    <3> HIDE DEF pid
    <3>4. row \in ProcRow /\ row.token = NoRun
      BY <3>1, <3>2 DEF ProcRow
    <3> HIDE DEF row
    <3> QED
      BY <1>1, <3>3, <3>4, RowReplaced
  <2>2. CASE Crash(w)
    BY <1>1, <2>2, ProcessKilled DEF Crash
  <2>3. CASE Unwind(w)
    BY <1>1, <2>3, ExecChanged DEF Unwind
  <2>4. CASE FinalizerUnwinds(w)
    BY <1>1, <2>4, TokenDropped DEF FinalizerUnwinds
  <2>5. CASE ClaimRunTask(w)
    <3>1. PICK t \in TaskOffers(Reap(db), w, Runs) : proc' = [proc EXCEPT ![w].exec = t]
      BY <2>5 DEF ClaimRunTask, Offer
    <3>2. t \in Tasks
      BY <1>1, OffersClaimable DEF LedgerInv
    <3> QED
      BY <1>1, <3>1, <3>2, ExecChanged
  <2>6. CASE RegisterWorker(w) \/ ClaimRunHeld(w) \/ ClaimRunNew(w) \/ ClaimRunIdle(w)
    BY <1>2, <2>6 DEF RegisterWorker, ClaimRunHeld, ClaimRunNew, ClaimRunIdle, Nothing
  <2>7. ASSUME NEW t \in Tasks, NEW status \in TaskTerminal, ReportTask(w, t, status)
        PROVE  ProcessesSound
    <3> DEFINE exec == IF proc[w].exec = t THEN NoTask ELSE proc[w].exec
    <3>1. exec \in Tasks \cup {NoTask}
      BY <1>1 DEF ProcRow
    <3>2. proc' = [proc EXCEPT ![w].exec = exec]
      <4>1. proc' = [proc EXCEPT ![w].exec = IF @ = t THEN NoTask ELSE @]
        BY <2>7 DEF ReportTask
      <4> QED
        BY <1>1, <4>1 DEF ProcRow
    <3> HIDE DEF exec
    <3> QED
      BY <1>1, <3>1, <3>2, ExecChanged
  <2> QED
    BY <1>3, <2>1, <2>2, <2>3, <2>4, <2>5, <2>6, <2>7 DEF WorkerStep
<1>4. ASSUME NEW w \in Workers, NEW r \in Runs, CoordinatorStep(w, r) PROVE ProcessesSound
  <2>1. CASE ClaimOwnTask(w, r)
    <3>1. CASE UNCHANGED proc
      BY <1>2, <3>1
    <3>2. CASE \E t \in TaskOffers(Reap(db), w, {r}) : proc' = [proc EXCEPT ![w].exec = t]
      <4>1. PICK t \in TaskOffers(Reap(db), w, {r}) : proc' = [proc EXCEPT ![w].exec = t]
        BY <3>2
      <4>2. t \in Tasks
        BY <1>1, OffersClaimable DEF LedgerInv
      <4> QED
        BY <1>1, <4>1, <4>2, ExecChanged
    <3> QED
      BY <2>1, <3>1, <3>2 DEF ClaimOwnTask, Nothing, Offer
  <2>2. CASE ClaimFinalizer(w, r)
    <3> DEFINE row == [proc[w] EXCEPT !.token = r]
               d == Reap(db)
    <3>1. d \in Database /\ db' = [d EXCEPT !.fan[r].state = "finalizing"]
      BY <1>1, <2>2 DEF ClaimFinalizer, LedgerInv
    <3> HIDE DEF d
    <3>2. db'.fan[r].state = "finalizing"
      BY <3>1 DEF Database, FanRow
    <3>3. row \in ProcRow /\ row.token = r
      BY <1>1 DEF ProcRow
    <3>4. proc' = [proc EXCEPT ![w] = row]
      BY <2>2 DEF ClaimFinalizer
    <3> HIDE DEF row
    <3> QED
      BY <1>1, <3>2, <3>3, <3>4, RowReplaced
  <2>3. CASE ReportSucceeded(w, r) \/ CoordinatorAbort(w, r)
    BY <1>1, <2>3, TokenDropped DEF ReportSucceeded, CoordinatorAbort
  <2>4. CASE ReportFailed(w, r)
    <3>1. CASE proc[w].token = r
      <4>1. proc' = [proc EXCEPT ![w].token = NoRun]
        BY <2>4, <3>1 DEF ReportFailed
      <4> QED
        BY <1>1, <4>1, TokenDropped
    <3>2. CASE proc[w].token # r
      <4> DEFINE row == [proc[w] EXCEPT !.token = proc[w].token]
      <4>1. row \in ProcRow /\ row.token = proc[w].token
        BY <1>1 DEF ProcRow
      <4>2. proc' = [proc EXCEPT ![w] = row]
        BY <2>4, <3>2 DEF ReportFailed
      <4> HIDE DEF row
      <4> QED
        BY <1>1, <4>1, <4>2, RowReplaced
    <3> QED
      BY <3>1, <3>2
  <2>5. CASE \/ \E done \in SUBSET (TasksOf(r) \cap Carried) : Initialize(w, r, done)
             \/ Status(w, r) \/ ReportRunning(w, r) \/ ReportSqlInsertion(w, r)
             \/ ReportSqlCommit(w, r) \/ ReportSqlComplete(w, r)
    BY <1>2, <2>5 DEF Initialize, Status, ReportRunning, ReportSqlInsertion, ReportSqlCommit,
                      ReportSqlComplete
  <2> QED
    BY <1>4, <2>1, <2>2, <2>3, <2>4, <2>5 DEF CoordinatorStep
<1>5. ASSUME NEW k, NEW r, StopStep(k, r) PROVE ProcessesSound
  <2>1. ASSUME NEW w \in Workers, StopKill(k, r, w) PROVE ProcessesSound
    BY <1>1, <2>1, ProcessKilled DEF StopKill
  <2> QED
    BY <1>2, <1>5, <2>1 DEF StopStep, StopFence, StopFinish, StopCheck, StopFails
<1>6. ASSUME NEW r \in Runs, RunStep(r) PROVE ProcessesSound
  BY <1>2, <1>6 DEF RunStep, QueueRun, StopBundle, StopPlain, SqlCommits, DeadlinePasses,
                    FailStaleRun
<1>7. CASE \/ \E t \in Tasks : LeaseExpires(t)
           \/ \E f \in Flows : AcknowledgeSqlReconciliation(f)
           \/ Watchdog
  BY <1>2, <1>7 DEF LeaseExpires, AcknowledgeSqlReconciliation, Watchdog
<1> QED
  BY <1>3, <1>4, <1>5, <1>6, <1>7 DEF Next

\* The stop procedures stay typed.
LEMMA StopRowReplaced ==
  ASSUME stop \in [StopKeys -> StopRow], NEW key, NEW row \in StopRow,
         stop' = [stop EXCEPT ![key] = row]
  PROVE  stop' \in [StopKeys -> StopRow]
OBVIOUS

\* Moving a stop procedure to another phase keeps its type.
LEMMA PhaseChanged ==
  ASSUME stop \in [StopKeys -> StopRow], NEW key \in StopKeys,
         NEW phase \in {"idle", "fencing", "stopping", "plain"},
         stop' = [stop EXCEPT ![key].phase = phase]
  PROVE  stop' \in [StopKeys -> StopRow]
<1> DEFINE row == [stop[key] EXCEPT !.phase = phase]
<1>1. row \in StopRow
  BY DEF StopRow
<1>2. stop' = [stop EXCEPT ![key] = row]
  OBVIOUS
<1> HIDE DEF row
<1> QED
  BY <1>1, <1>2, StopRowReplaced

\* Recording the result of one target keeps the type of the procedures.
LEMMA ResultChanged ==
  ASSUME stop \in [StopKeys -> StopRow], NEW key \in StopKeys, NEW w \in Workers,
         NEW res \in {"none", "pending", "checked", "stopped", "replaced", "error"},
         stop' = [stop EXCEPT ![key].tg[w].res = res]
  PROVE  stop' \in [StopKeys -> StopRow]
<1> DEFINE target == [stop[key].tg[w] EXCEPT !.res = res]
           tg == [stop[key].tg EXCEPT ![w] = target]
           row == [stop[key] EXCEPT !.tg = tg]
<1>1. stop[key] \in StopRow /\ stop[key].tg \in [Workers -> Target]
  BY DEF StopRow
<1>2. stop[key].tg[w] \in Target
  BY <1>1
<1>3. target \in Target
  BY <1>2 DEF Target
<1>4. stop' = [stop EXCEPT ![key] = row]
  BY <1>1 DEF StopRow
<1> HIDE DEF target
<1>5. tg \in [Workers -> Target]
  BY <1>1, <1>3
<1> HIDE DEF tg
<1>6. row \in StopRow
  BY <1>1, <1>5 DEF StopRow
<1> HIDE DEF row
<1> QED
  BY <1>4, <1>6, StopRowReplaced

\* Every step keeps the type of the stop procedures.
LEMMA StopType ==
  ASSUME BundleInv, Next
  PROVE  stop' \in [StopKeys -> StopRow]
<1>1. stop \in [StopKeys -> StopRow] /\ db \in Database
  BY DEF BundleInv, TypeOK
<1>2. ASSUME NEW r \in Runs, RunStep(r) PROVE stop' \in [StopKeys -> StopRow]
  <2>1. CASE StopBundle(r)
    BY <1>1, <2>1, PhaseChanged DEF StopBundle
  <2>2. CASE StopPlain(r)
    <3> DEFINE key == <<"user", r>>
               w == db.run[r].worker
               pid == IF db.wk[w].run = r THEN db.wk[w].pid ELSE 0
               target == [task |-> NoTask, pid |-> pid, res |-> "checked"]
               tg == [stop[key].tg EXCEPT ![w] = target]
               row == [[stop[key] EXCEPT !.phase = "plain"] EXCEPT !.tg = tg]
    <3>1. CASE UNCHANGED stop
      BY <1>1, <3>1
    <3>2. CASE ~UNCHANGED stop
      <4>1. key \in StopKeys /\ w # NoWorker
            /\ stop' = [stop EXCEPT ![key].phase = "plain", ![key].tg[w] = target]
        BY <2>2, <3>2 DEF StopPlain
      <4>2. stop[key] \in StopRow /\ stop[key].tg \in [Workers -> Target]
        BY <1>1, <4>1 DEF StopRow
      <4>3. w \in Workers
        BY <1>1, <4>1, Rows DEF RunRow
      <4>4. db.wk[w] \in WorkerRow
        BY <1>1, <4>3, Rows
      <4>5. pid \in Nat
        BY <4>4 DEF WorkerRow
      <4> HIDE DEF pid
      <4>6. target \in Target
        BY <4>5 DEF Target
      <4>7. stop' = [stop EXCEPT ![key] = row]
        BY <1>1, <4>1, <4>2 DEF StopRow
      <4> HIDE DEF target
      <4>8. tg \in [Workers -> Target]
        BY <4>2, <4>6
      <4> HIDE DEF tg
      <4>9. row \in StopRow
        BY <4>2, <4>8 DEF StopRow
      <4> HIDE DEF row, key
      <4> QED
        BY <1>1, <4>7, <4>9, StopRowReplaced
    <3> QED
      BY <3>1, <3>2
  <2> QED
    BY <1>1, <1>2, <2>1, <2>2
       DEF RunStep, QueueRun, SqlCommits, DeadlinePasses, FailStaleRun
<1>3. ASSUME NEW key \in StopKeys, StopStep(key[1], key[2]) PROVE stop' \in [StopKeys -> StopRow]
  <2> DEFINE k == key[1]
             r == key[2]
  <2>1. key = <<k, r>>
    BY StopKeysAssumption
  <2> HIDE DEF k, r
  <2>2. CASE StopFence(k, r)
    <3> DEFINE S == StopTargets(db, k, r)
               Latched(w) == [task |-> db.wk[w].task, pid |-> db.wk[w].pid, res |-> "pending"]
               tg == [w \in Workers |-> IF w \in S THEN Latched(w) ELSE NoTarget]
               row == [phase |-> "stopping", tg |-> tg]
    <3>1. ASSUME NEW w \in Workers PROVE tg[w] \in Target
      <4>1. db.wk[w] \in WorkerRow
        BY <1>1, Rows
      <4>2. Latched(w) \in Target
        BY <4>1 DEF WorkerRow, Target
      <4>3. NoTarget \in Target
        BY DEF NoTarget, Target
      <4> QED
        BY <4>2, <4>3
    <3>2. tg \in [Workers -> Target]
      BY <3>1
    <3>3. stop' = [stop EXCEPT ![<<k, r>>] = row]
      BY <2>2 DEF StopFence
    <3> HIDE DEF tg
    <3>4. row \in StopRow
      BY <3>2 DEF StopRow
    <3> HIDE DEF row
    <3> QED
      BY <1>1, <3>3, <3>4, StopRowReplaced
  <2>3. CASE StopFinish(k, r)
    <3>1. IdleStop \in StopRow
      BY DEF IdleStop, StopRow, NoTarget, Target
    <3> QED
      BY <1>1, <2>3, <3>1, StopRowReplaced DEF StopFinish
  <2>4. ASSUME NEW w \in Workers, StopCheck(k, r, w) PROVE stop' \in [StopKeys -> StopRow]
    <3> DEFINE same == SameProcess(db, w, stop[<<k, r>>].tg[w])
               res == IF same THEN "checked" ELSE "replaced"
    <3>1. stop' = [stop EXCEPT ![<<k, r>>].tg[w].res = res]
      BY <2>4 DEF StopCheck
    <3>2. res \in {"checked", "replaced"}
      OBVIOUS
    <3> HIDE DEF res
    <3> QED
      BY <1>1, <2>1, <3>1, <3>2, ResultChanged
  <2>5. ASSUME NEW w \in Workers, StopKill(k, r, w) PROVE stop' \in [StopKeys -> StopRow]
    BY <1>1, <2>1, <2>5, ResultChanged DEF StopKill
  <2>6. ASSUME NEW w \in Workers, StopFails(k, r, w) PROVE stop' \in [StopKeys -> StopRow]
    BY <1>1, <2>1, <2>6, ResultChanged DEF StopFails
  <2> QED
    BY <1>3, <2>2, <2>3, <2>4, <2>5, <2>6 DEF StopStep, k, r
<1>4. ASSUME NEW w \in Workers, NEW r \in Runs, CoordinatorStep(w, r)
      PROVE  stop' \in [StopKeys -> StopRow]
  <2>1. CASE CoordinatorAbort(w, r)
    BY <1>1, <2>1, PhaseChanged DEF CoordinatorAbort
  <2> QED
    BY <1>1, <1>4, <2>1
       DEF CoordinatorStep, Initialize, ClaimOwnTask, Status, ClaimFinalizer, ReportRunning,
           ReportSqlInsertion, ReportSqlCommit, ReportSqlComplete, ReportSucceeded, ReportFailed
<1>5. CASE \/ \E w \in Workers : WorkerStep(w)
           \/ \E t \in Tasks : LeaseExpires(t)
           \/ \E f \in Flows : AcknowledgeSqlReconciliation(f)
           \/ Watchdog
  BY <1>1, <1>5
     DEF WorkerStep, StartProcess, Crash, RegisterWorker, Unwind, FinalizerUnwinds, ClaimRunTask,
         ClaimRunHeld, ClaimRunNew, ClaimRunIdle, ReportTask, LeaseExpires,
         AcknowledgeSqlReconciliation, Watchdog
<1> QED
  BY <1>2, <1>3, <1>4, <1>5 DEF Next

\* A load is begun only by a finalizer that holds the token of its bundle.
LEMMA SqlStep ==
  ASSUME BundleInv, Next
  PROVE  /\ sql' \in [Runs -> SqlStage]
         /\ \A r \in Runs : sql'[r] # "none" =>
              sql[r] # "none" \/ \E w \in Workers : proc[w].token = r
         /\ acked' \in SUBSET Runs
<1> DEFINE FromToken == \A r \in Runs : sql'[r] # "none" =>
                          sql[r] # "none" \/ \E w \in Workers : proc[w].token = r
           Sound == sql' \in [Runs -> SqlStage] /\ FromToken
<1>1. sql \in [Runs -> SqlStage] /\ acked \in SUBSET Runs
  BY DEF BundleInv, TypeOK
<1>2. ASSUME UNCHANGED sql PROVE Sound
  BY <1>1, <1>2
<1>3. ASSUME NEW r \in Runs, NEW stage \in SqlStage, sql' = [sql EXCEPT ![r] = stage],
             sql[r] # "none" \/ \E w \in Workers : proc[w].token = r
      PROVE  Sound
  BY <1>1, <1>3
<1>4. ASSUME NEW w \in Workers, NEW r \in Runs, CoordinatorStep(w, r) PROVE Sound /\ UNCHANGED acked
  <2>1. CASE ReportSqlInsertion(w, r)
    BY <1>3, <2>1 DEF ReportSqlInsertion, FinalizerReports, SqlStage
  <2>2. CASE ReportSqlCommit(w, r)
    BY <1>3, <2>2 DEF ReportSqlCommit, SqlStage
  <2>3. CASE ReportSqlComplete(w, r)
    BY <1>3, <2>3 DEF ReportSqlComplete, SqlStage
  <2> HIDE DEF Sound
  <2> QED
    BY <1>2, <1>4, <2>1, <2>2, <2>3
       DEF CoordinatorStep, Initialize, ClaimOwnTask, Status, ClaimFinalizer, ReportRunning,
           ReportSqlInsertion, ReportSqlCommit, ReportSqlComplete, ReportSucceeded, ReportFailed,
           CoordinatorAbort
<1>5. ASSUME NEW r \in Runs, RunStep(r) PROVE Sound /\ UNCHANGED acked
  <2>1. CASE SqlCommits(r)
    BY <1>3, <2>1 DEF SqlCommits, SqlStage
  <2> HIDE DEF Sound
  <2> QED
    BY <1>2, <1>5, <2>1
       DEF RunStep, QueueRun, StopBundle, StopPlain, SqlCommits, DeadlinePasses, FailStaleRun
<1> HIDE DEF Sound
<1>6. ASSUME \/ \E w \in Workers : WorkerStep(w)
             \/ \E key \in StopKeys : StopStep(key[1], key[2])
             \/ \E t \in Tasks : LeaseExpires(t)
             \/ Watchdog
      PROVE  Sound /\ UNCHANGED acked
  BY ZenonT(60), <1>2, <1>6
     DEF WorkerStep, StartProcess, Crash, RegisterWorker, Unwind, FinalizerUnwinds, ClaimRunTask,
         ClaimRunHeld, ClaimRunNew, ClaimRunIdle, ReportTask, StopStep, StopFence, StopFinish,
         StopCheck, StopKill, StopFails, LeaseExpires, Watchdog
<1>7. ASSUME NEW f \in Flows, AcknowledgeSqlReconciliation(f)
      PROVE  Sound /\ acked' \in SUBSET Runs
  BY <1>1, <1>2, <1>7, ShapeAssumption DEF AcknowledgeSqlReconciliation
<1> QED
  BY <1>1, <1>4, <1>5, <1>6, <1>7 DEF Next, Sound

\* The empty database with no process satisfies the inductive invariant.
LEMMA InitInv == ASSUME Init PROVE BundleInv
<1>1. EmptyDatabase \in Database
  BY EmptyDatabaseType
<1>2. NoProcess \in ProcRow /\ NoProcess.token = NoRun
  BY DEF NoProcess, ProcRow
<1>3. IdleStop \in StopRow
  BY DEF IdleStop, StopRow, NoTarget, Target
<1>4. TypeOK
  BY <1>1, <1>2, <1>3 DEF Init, TypeOK, SqlStage
<1>5. /\ \A r \in Runs : /\ db.run[r].status = "none" /\ db.fan[r].state = "none"
      /\ \A t \in Tasks : db.task[t].state = "none"
      /\ \A f \in Flows : ~db.recon[f]
  BY DEF Init, EmptyDatabase
<1>6. LedgerInv(db)
  <2>1. TasksInsideRun(db) /\ LedgerEndsWithRun(db) /\ FinalizedIsWhole(db)
    BY <1>5, ShapeAssumption
       DEF TasksInsideRun, LedgerEndsWithRun, FinalizedIsWhole, TaskActive
  <2>2. FenceHasCause(db)
    BY <1>5 DEF FenceHasCause
  <2> QED
    BY <1>4, <2>1, <2>2 DEF LedgerInv, TypeOK
<1>7. FinalizerHasExports
  BY <1>2 DEF Init, FinalizerHasExports
<1> QED
  BY <1>4, <1>6, <1>7 DEF BundleInv

\* Every step, stuttering included, preserves the inductive invariant.
LEMMA StepInv == ASSUME BundleInv, [Next]_vars PROVE BundleInv'
<1>1. CASE UNCHANGED vars
  BY <1>1 DEF vars, BundleInv, TypeOK, LedgerInv, TasksInsideRun, LedgerEndsWithRun,
              FinalizedIsWhole, FenceHasCause, FinalizerHasExports, AllSucceeded
<1>2. CASE Next
  <2>1. LedgerInv(db') /\ Keeps(db, db')
    BY <1>2, LedgerStep
  <2>2. proc' \in [Workers -> ProcRow] /\ \A v \in Workers : TokenGranted(v)
    BY <1>2, ProcessStep DEF ProcessesSound
  <2>3. stop' \in [StopKeys -> StopRow]
    BY <1>2, StopType
  <2>4. /\ sql' \in [Runs -> SqlStage]
        /\ \A r \in Runs : sql'[r] # "none" =>
             sql[r] # "none" \/ \E w \in Workers : proc[w].token = r
        /\ acked' \in SUBSET Runs
    BY <1>2, SqlStep
  <2>5. TypeOK'
    BY <2>1, <2>2, <2>3, <2>4 DEF TypeOK, LedgerInv
  <2>6. FinalizedIsWhole(db')
    BY <2>1 DEF LedgerInv
  <2>7. ASSUME NEW w \in Workers, proc[w].token # NoRun
        PROVE  /\ proc[w].token \in Runs
               /\ db'.fan[proc[w].token].state # "none" /\ AllSucceeded(db', proc[w].token)
    <3>1. proc[w].token \in Runs
      BY <2>7 DEF BundleInv, TypeOK, ProcRow
    <3>2. db.fan[proc[w].token].state # "none" /\ AllSucceeded(db, proc[w].token)
      BY <2>7 DEF BundleInv, FinalizerHasExports
    <3> QED
      BY <2>1, <3>1, <3>2, KeepsWhole
  <2>8. ASSUME NEW w \in Workers, proc'[w].token # NoRun
        PROVE  db'.fan[proc'[w].token].state # "none" /\ AllSucceeded(db', proc'[w].token)
    <3>1. CASE proc'[w].token = proc[w].token
      BY <2>7, <2>8, <3>1
    <3>2. CASE proc'[w].token \in Runs /\ db'.fan[proc'[w].token].state = "finalizing"
      BY <2>6, <3>2 DEF FinalizedIsWhole
    <3> QED
      BY <2>2, <2>8, <3>1, <3>2 DEF TokenGranted
  <2>9. ASSUME NEW r \in Runs, sql'[r] # "none"
        PROVE  db'.fan[r].state # "none" /\ AllSucceeded(db', r)
    <3>1. CASE sql[r] # "none"
      <4>1. db.fan[r].state # "none" /\ AllSucceeded(db, r)
        BY <3>1 DEF BundleInv, FinalizerHasExports
      <4> QED
        BY <2>1, <4>1, KeepsWhole
    <3>2. CASE \E w \in Workers : proc[w].token = r
      BY <2>7, <3>2, NullAssumption
    <3> QED
      BY <2>4, <2>9, <3>1, <3>2
  <2>10. FinalizerHasExports'
    <3> DEFINE Whole(r) == db.fan[r].state # "none" /\ AllSucceeded(db, r)
    <3>1. \A w \in Workers : proc'[w].token # NoRun =>
            db'.fan[proc'[w].token].state # "none" /\ AllSucceeded(db', proc'[w].token)
      BY <2>8
    <3>2. \A r \in Runs : sql'[r] # "none" =>
            db'.fan[r].state # "none" /\ AllSucceeded(db', r)
      BY <2>9
    <3> QED
      BY <3>1, <3>2 DEF FinalizerHasExports, AllSucceeded
  <2>11. LedgerInv(db)'
    BY <2>1 DEF LedgerInv, TasksInsideRun, LedgerEndsWithRun, FinalizedIsWhole, FenceHasCause,
                AllSucceeded
  <2> QED
    BY <2>5, <2>10, <2>11 DEF BundleInv
<1> QED
  BY <1>1, <1>2

\* The inductive invariant holds in every reachable state, for every number of
\* runs, tasks, workers, flows and restarts: every handler of the parallel
\* bundle preserves it, in whatever order the handlers run.
THEOREM BundleInvariant == Spec => []BundleInv
<1>1. Init => BundleInv
  BY InitInv
<1>2. BundleInv /\ [Next]_vars => BundleInv'
  BY StepInv
<1> QED
  BY <1>1, <1>2, PTL DEF Spec

-----------------------------------------------------------------------------
(* The theorems. *)

\* Every reachable database and every process, stop and SQL row is well typed.
THEOREM BundleType == Spec => []TypeOK
<1>1. BundleInv => TypeOK
  BY DEF BundleInv
<1> QED
  BY <1>1, BundleInvariant, PTL

\* A leased or draining download keeps its parent run active: no handler of
\* app/flow_parallel.py, no claim, restart, stop or silence ends the run first.
THEOREM ReservationTheorem == Spec => []ReservationHeld
<1>1. BundleInv => ReservationHeld
  BY DEF BundleInv, LedgerInv, TasksInsideRun, ReservationHeld
<1> QED
  BY <1>1, BundleInvariant, PTL

\* Publication, SQL and success happen over complete bundles only, also in a
\* finalizer that outlives its run.
THEOREM WholeBundleTheorem == Spec => []WholeBundle
<1>1. BundleInv => WholeBundle
  BY DEF BundleInv, LedgerInv, FinalizedIsWhole, FinalizerHasExports, WholeBundle
<1> QED
  BY <1>1, BundleInvariant, PTL

\* flow_run_fanout and flow_runs end in the same transaction.
THEOREM EndsTogetherTheorem == Spec => []BundleEndsWithRun
<1>1. BundleInv => BundleEndsWithRun
  BY DEF BundleInv, LedgerInv, LedgerEndsWithRun, BundleEndsWithRun
<1> QED
  BY <1>1, BundleInvariant, PTL

\* A reconciliation fence always has an append with an unrecorded load behind it.
THEOREM FenceTheorem == Spec => []OnlyAppendBlocks
<1>1. BundleInv => OnlyAppendBlocks
  BY DEF BundleInv, LedgerInv, FenceHasCause, OnlyAppendBlocks
<1> QED
  BY <1>1, BundleInvariant, PTL

\* No transaction rewrites the outcome of a run, a task or a ledger.
THEOREM EndedTheorem == Spec => EndedStaysEnded
<1> DEFINE Stays ==
     /\ \A r \in Runs : db.run[r].status \in RunTerminal => db'.run[r].status = db.run[r].status
     /\ \A t \in Tasks : db.task[t].state \in TaskTerminal => db'.task[t].state = db.task[t].state
     /\ \A r \in Runs : db.fan[r].state = "complete" => db'.fan[r].state = "complete"
<1>1. BundleInv /\ [Next]_vars => [Stays]_vars
  <2> SUFFICES ASSUME BundleInv, Next PROVE Stays
    OBVIOUS
  <2>1. Keeps(db, db')
    BY LedgerStep
  <2> QED
    BY <2>1 DEF Keeps
<1>2. EndedStaysEnded <=> [][Stays]_vars
  BY DEF EndedStaysEnded
<1> HIDE DEF Stays
<1> QED
  BY <1>1, <1>2, BundleInvariant, PTL DEF Spec

-----------------------------------------------------------------------------
(* Fences and slots.  Most handlers are Calm; the claims, the queueing of  *)
(* a run and the start of a load remain.                                   *)

\* recover_worker is calm: it fails a task, aborts bundles and clears a row.
LEMMA RecoverTaskCalm ==
  ASSUME NEW d, LedgerInv(d), NEW w \in Workers
  PROVE  Calm(d, RecoverTask(d, w))
<1> DEFINE t == d.wk[w].task
           g == [d EXCEPT !.task[t].state = "failed"]
           e == Abort(g, {RunOf[t]}, "failed", FALSE)
<1>1. CASE ~LosesTask(d, w)
  BY <1>1, CalmNothing DEF RecoverTask
<1>2. CASE LosesTask(d, w)
  <2>1. d \in Database /\ t \in Tasks /\ RunOf[t] \in Runs
    <3>1. d \in Database /\ d.wk[w] \in WorkerRow
      BY Rows DEF LedgerInv
    <3>2. t \in Tasks
      BY <1>2, <3>1 DEF LosesTask, WorkerRow
    <3> QED
      BY <3>1, <3>2, ShapeAssumption
  <2> HIDE DEF t
  <2>2. /\ g \in Database /\ g.run = d.run /\ g.fan = d.fan /\ g.recon = d.recon
        /\ g.task[t].state = "failed" /\ \A u \in Tasks \ {t} : g.task[u] = d.task[u]
    BY <2>1 DEF Database, TaskRow, TaskTerminal
  <2> HIDE DEF g
  <2>3. Calm(d, g)
    BY <2>1, <2>2, TaskEndCalm DEF TaskActive
  <2>4. {RunOf[t]} \in SUBSET Runs /\ "failed" \in TerminalStatus /\ FALSE \in BOOLEAN
    BY <2>1 DEF TerminalStatus
  <2>5. Calm(g, e)
    BY <2>2, <2>4, AbortCalm
  <2> HIDE DEF e
  <2>6. RecoverTask(d, w) = e
    BY <1>2 DEF RecoverTask, t, g, e
  <2> QED
    BY <2>3, <2>5, <2>6, CalmCompose
<1> QED
  BY <1>1, <1>2

\* Its second half, the abort of the bundle that the worker coordinated.
LEMMA RecoverBundleCalm ==
  ASSUME NEW d, LedgerInv(d), NEW w \in Workers
  PROVE  Calm(d, RecoverBundle(d, w))
<1> DEFINE r == d.wk[w].run
           g == Abort(d, {r}, "failed", TRUE)
           e == [g EXCEPT !.wk[w].run = NoRun]
<1>1. CASE ~LosesBundle(d, w)
  BY <1>1, CalmNothing DEF RecoverBundle
<1>2. CASE LosesBundle(d, w)
  <2>1. d \in Database /\ d.wk[w] \in WorkerRow
    BY Rows DEF LedgerInv
  <2>2. r \in Runs
    BY <1>2, <2>1 DEF LosesBundle, WorkerRow
  <2> HIDE DEF r
  <2>3. {r} \in SUBSET Runs /\ "failed" \in TerminalStatus /\ TRUE \in BOOLEAN
    BY <2>2 DEF TerminalStatus
  <2>4. LedgerInv(g) /\ Calm(d, g)
    BY <2>1, <2>3, AbortKeeps, AbortCalm
  <2> HIDE DEF g
  <2>5. Calm(g, e)
    BY <2>4, UnassignCalm DEF LedgerInv
  <2> HIDE DEF e
  <2>6. RecoverBundle(d, w) = e
    BY <1>2 DEF RecoverBundle, r, g, e
  <2> QED
    BY <2>4, <2>5, <2>6, CalmCompose
<1> QED
  BY <1>1, <1>2

\* All of recover_worker, reap() included.
LEMMA RecoverWorkerCalm ==
  ASSUME NEW d, LedgerInv(d), Begun(d), NEW w \in Workers
  PROVE  Calm(d, RecoverWorker(d, w))
<1> DEFINE a == RecoverTask(d, w)
           b == RecoverBundle(a, w)
           c == [b EXCEPT !.wk[w].task = NoTask, !.wk[w].fence = 0]
<1>1. LedgerInv(a) /\ Calm(d, a)
  BY RecoverTaskKeeps, RecoverTaskCalm
<1> HIDE DEF a
<1>2. LedgerInv(b) /\ Calm(a, b)
  BY <1>1, RecoverBundleKeeps, RecoverBundleCalm
<1> HIDE DEF b
<1>3. LedgerInv(c) /\ Calm(b, c)
  BY <1>2, UnassignTask, UnassignCalm DEF WorkerUpdate, LedgerInv
<1> HIDE DEF c
<1>4. Calm(d, c)
  BY <1>1, <1>2, <1>3, CalmCompose
<1>5. Calm(c, Reap(c))
  BY <1>3, <1>4, CalmBegun, ReapCalm
<1>6. RecoverWorker(d, w) = Reap(c)
  BY DEF RecoverWorker, a, b, c
<1> QED
  BY <1>4, <1>5, <1>6, CalmCompose

\* register_worker fails a run that never fanned out; it has no load.
LEMMA InterruptRunCalm ==
  ASSUME NEW d, LedgerInv(d), Begun(d), Unloaded(d), NEW before \in Database, Quiet(before, d),
         NEW w \in Workers
  PROVE  Calm(d, InterruptRun(d, before, w))
<1> DEFINE r == before.wk[w].run
           e == InterruptRun(d, before, w)
<1>1. CASE r = NoRun \/ before.fan[r].state # "none"
  BY <1>1, CalmNothing DEF InterruptRun
<1>2. CASE r # NoRun /\ before.fan[r].state = "none"
  <2>1. d \in Database /\ before.wk[w] \in WorkerRow
    BY Rows DEF LedgerInv
  <2>2. r \in Runs
    BY <1>2, <2>1 DEF WorkerRow
  <2>3. d.fan[r].state = "none" /\ ~d.fan[r].sqlStarted
    BY <1>2, <2>2 DEF Quiet, Unloaded
  <2>4. e = [d EXCEPT !.run[r].status = IF @ \in RunTerminal THEN @ ELSE "failed", !.wk[w].run = NoRun]
    BY <1>2 DEF InterruptRun
  <2> HIDE DEF e, r
  <2>5. /\ e.run = [d.run EXCEPT ![r].status = IF @ \in RunTerminal THEN @ ELSE "failed"]
        /\ e.fan = d.fan /\ e.task = d.task /\ e.recon = d.recon
    BY <2>1, <2>4 DEF Database
  <2>6. d.run \in [Runs -> RunRow] /\ d.run[r] \in RunRow
    BY <2>1, <2>2 DEF Database
  <2>7. /\ e.run[r].status = IF d.run[r].status \in RunTerminal THEN d.run[r].status ELSE "failed"
        /\ e.run[r].sqlComplete = d.run[r].sqlComplete
        /\ \A q \in Runs : q # r => e.run[q] = d.run[q]
    BY <2>2, <2>5, <2>6 DEF RunRow
  <2>8. ~SqlUncertain(e, r)
    BY <2>3, <2>5 DEF SqlUncertain
  <2>9. CalmRun(d, e, r)
    BY <2>3, <2>5, <2>7, <2>8 DEF CalmRun, FenceRun, Open, RunActive, RunTerminal
  <2>10. Calm(d, e)
    BY <2>2, <2>5, <2>7, <2>9, OneRunCalm
  <2> QED
    BY <2>10 DEF e
<1> QED
  BY <1>1, <1>2

\* update_run with a terminal status is calm where it leaves no append behind
\* without its fence.
LEMMA EndRunCalm ==
  ASSUME NEW d, LedgerInv(d), NEW w \in Workers, NEW r \in Runs,
         NEW status \in {"succeeded", "failed"}, d.run[r].status \in Open,
         status = "succeeded" \/ ~SqlUncertain(d, r) \/ d.recon[FlowOf[r]] \/ d.fan[r].state = "aborting"
  PROVE  Calm(d, EndRun(d, w, r, status))
<1> DEFINE e == EndRun(d, w, r, status)
<1>1. d \in Database /\ d.run \in [Runs -> RunRow] /\ d.fan \in [Runs -> FanRow]
      /\ d.run[r] \in RunRow /\ d.fan[r] \in FanRow
  BY DEF LedgerInv, Database
<1>2. /\ e.run = [d.run EXCEPT ![r].status = status]
      /\ e.fan = [d.fan EXCEPT ![r].state = IF @ = "none" THEN @ ELSE "complete"]
      /\ e.task = d.task /\ e.recon = d.recon
  BY <1>1 DEF EndRun, Database
<1> HIDE DEF e
<1>3. /\ e.run[r].status = status /\ e.run[r].sqlComplete = d.run[r].sqlComplete
      /\ e.fan[r].sqlStarted = d.fan[r].sqlStarted
      /\ e.fan[r].state = IF d.fan[r].state = "none" THEN "none" ELSE "complete"
      /\ \A q \in Runs : q # r => e.run[q] = d.run[q] /\ e.fan[q] = d.fan[q]
  BY <1>1, <1>2 DEF RunRow, FanRow
<1>4. SqlUncertain(e, r) <=> SqlUncertain(d, r)
  BY <1>3 DEF SqlUncertain, ReconciliationRequired
<1>5. CalmRun(d, e, r)
  BY <1>2, <1>3, <1>4 DEF CalmRun, FenceRun, Lost, Open, RunActive
<1>6. \A f \in Flows : d.recon[f] => e.recon[f]
  BY <1>2
<1>7. Calm(d, e)
  BY <1>2, <1>3, <1>5, <1>6, OneRunCalm
<1> QED
  BY <1>7 DEF e

\* A fence may be raised at any time.
LEMMA RaiseCalm ==
  ASSUME NEW d, LedgerInv(d), NEW r \in Runs
  PROVE  Calm(d, RaiseUncertain(d, r))
<1> DEFINE e == [d EXCEPT !.recon[FlowOf[r]] = TRUE]
<1>1. d \in Database /\ FlowOf[r] \in Flows /\ d.recon \in [Flows -> BOOLEAN]
  BY ShapeAssumption DEF LedgerInv, Database
<1>2. e.run = d.run /\ e.fan = d.fan /\ e.task = d.task /\ e.recon = [d.recon EXCEPT ![FlowOf[r]] = TRUE]
  BY <1>1 DEF Database
<1>3. \A f \in Flows : d.recon[f] => e.recon[f]
  BY <1>1, <1>2
<1> HIDE DEF e
<1>4. Calm(d, e)
  BY <1>2, <1>3, SameCalm
<1> QED
  BY <1>4, CalmNothing DEF RaiseUncertain, e

\* The failed report of a coordinator raises the fence first.
LEMMA ReportFailedCalm ==
  ASSUME NEW d, LedgerInv(d), Begun(d), Unloaded(d), NEW w \in Workers, NEW r \in Runs,
         d.run[r].status \in RunActive,
         d.fan[r].state = "downloading" => ~d.fan[r].sqlStarted
  PROVE  Calm(d, EndRun(RaiseUncertain(d, r), w, r, "failed"))
<1> DEFINE e == EndRun(RaiseUncertain(d, r), w, r, "failed")
<1>1. /\ d \in Database /\ d.run \in [Runs -> RunRow] /\ d.fan \in [Runs -> FanRow]
      /\ d.run[r] \in RunRow /\ d.fan[r] \in FanRow /\ FlowOf[r] \in Flows /\ d.recon \in [Flows -> BOOLEAN]
  BY ShapeAssumption DEF LedgerInv, Database
<1>2. CASE ~(d.fan[r].state = "finalizing" /\ SqlUncertain(d, r))
  <2>1. e = EndRun(d, w, r, "failed")
    BY <1>2 DEF RaiseUncertain
  <2>2. d.fan[r].state # "complete"
    BY DEF LedgerInv, LedgerEndsWithRun, RunActive, RunTerminal
  <2>3. ~SqlUncertain(d, r) \/ d.fan[r].state = "aborting"
    BY <1>1, <1>2, <2>2 DEF FanRow, SqlUncertain, Unloaded
  <2> QED
    BY <2>1, <2>3, EndRunCalm DEF Open, e
<1>3. CASE d.fan[r].state = "finalizing" /\ SqlUncertain(d, r)
  <2>1. e = EndRun([d EXCEPT !.recon[FlowOf[r]] = TRUE], w, r, "failed")
    BY <1>3 DEF RaiseUncertain
  <2>2. /\ e.run = [d.run EXCEPT ![r].status = "failed"]
        /\ e.fan = [d.fan EXCEPT ![r].state = IF @ = "none" THEN @ ELSE "complete"]
        /\ e.task = d.task /\ e.recon = [d.recon EXCEPT ![FlowOf[r]] = TRUE]
    BY <1>1, <2>1 DEF EndRun, Database
  <2> HIDE DEF e
  <2>3. /\ e.run[r].status = "failed" /\ e.run[r].sqlComplete = d.run[r].sqlComplete
        /\ e.fan[r].sqlStarted = d.fan[r].sqlStarted
        /\ e.fan[r].state = "complete" /\ e.recon[FlowOf[r]]
        /\ \A q \in Runs : q # r => e.run[q] = d.run[q] /\ e.fan[q] = d.fan[q]
        /\ \A f \in Flows : d.recon[f] => e.recon[f]
    BY <1>1, <1>3, <2>2 DEF RunRow, FanRow
  <2>4. SqlUncertain(e, r) <=> SqlUncertain(d, r)
    BY <2>3 DEF SqlUncertain, ReconciliationRequired
  <2>5. CalmRun(d, e, r)
    BY <1>3, <2>2, <2>3, <2>4 DEF CalmRun, FenceRun, Lost, Open, RunActive
  <2> QED
    BY <2>2, <2>3, <2>5, OneRunCalm DEF e
<1> QED
  BY <1>2, <1>3

\* report_task is calm.
LEMMA TaskReportedCalm ==
  ASSUME NEW d, LedgerInv(d), NEW w \in Workers, NEW t \in Tasks, NEW status \in TaskTerminal
  PROVE  Calm(d, TaskReported(d, w, t, status))
<1> DEFINE e == TaskReported(d, w, t, status)
           g == FinishTask(d, w, t, status)
           c == [d EXCEPT !.task[t].state = "cancelled"]
           Ack == status = "cancelled" /\ d.task[t].state = "cancelling"
<1>1. d \in Database /\ d.task \in [Tasks -> TaskRow] /\ d.task[t] \in TaskRow
  BY DEF LedgerInv, Database
<1>2. Calm(d, c) /\ c \in Database
  <2>1. /\ c.run = d.run /\ c.fan = d.fan /\ c.recon = d.recon
        /\ c.task = [d.task EXCEPT ![t].state = "cancelled"] /\ c \in Database
    BY <1>1 DEF Database, TaskRow, TaskTerminal
  <2> HIDE DEF c
  <2>2. c.task[t].state = "cancelled" /\ \A u \in Tasks : u # t => c.task[u] = d.task[u]
    BY <1>1, <2>1 DEF TaskRow
  <2>3. c.task[t].state \notin TaskActive
    BY <2>2 DEF TaskActive
  <2>4. c.run = d.run /\ c.fan = d.fan /\ c.recon = d.recon
    BY <2>1
  <2>5. Calm(d, c)
    BY <1>1, <2>2, <2>3, <2>4, TaskEndCalm
  <2> QED
    BY <2>1, <2>5
<1>3. Calm(d, g)
  <2>1. /\ g.run = d.run /\ g.fan = d.fan /\ g.recon = d.recon
        /\ g.task = [d.task EXCEPT ![t].state = status]
    BY <1>1 DEF FinishTask, Database
  <2> HIDE DEF g
  <2>2. g.task[t].state = status /\ \A u \in Tasks : u # t => g.task[u] = d.task[u]
    BY <1>1, <2>1 DEF TaskRow
  <2>3. g.task[t].state \notin TaskActive
    BY <2>2 DEF TaskActive, TaskTerminal
  <2>4. g.run = d.run /\ g.fan = d.fan /\ g.recon = d.recon
    BY <2>1
  <2> QED
    BY <1>1, <2>2, <2>3, <2>4, TaskEndCalm
<1> HIDE DEF c
<1>4. CASE Ack
  <2>1. e = ReleaseWorker(c, w, t)
    BY <1>4 DEF TaskReported, LeaseAccepts, AckCancelled, c
  <2>2. Calm(c, e)
    BY <1>2, <2>1, UnassignCalm, CalmNothing DEF ReleaseWorker
  <2> QED
    BY <1>2, <2>2, CalmCompose
<1>5. CASE ~Ack /\ LeaseAccepts(d, w, t) /\ status = "succeeded"
  BY <1>3, <1>5 DEF TaskReported
<1>6. CASE ~Ack /\ LeaseAccepts(d, w, t) /\ status # "succeeded"
  <2>1. e = Abort(g, {RunOf[t]}, "failed", FALSE)
    BY <1>6 DEF TaskReported
  <2>2. LedgerInv(g)
    BY <1>6, FinishTaskKeeps
  <2>3. {RunOf[t]} \in SUBSET Runs /\ "failed" \in TerminalStatus /\ FALSE \in BOOLEAN
    BY ShapeAssumption DEF TerminalStatus
  <2> HIDE DEF e, g
  <2>4. Calm(g, e)
    BY <2>1, <2>2, <2>3, AbortCalm DEF LedgerInv
  <2> QED
    BY <1>3, <2>4, CalmCompose DEF e
<1>7. CASE ~Ack /\ ~LeaseAccepts(d, w, t)
  BY <1>7, CalmNothing DEF TaskReported
<1> QED
  BY <1>4, <1>5, <1>6, <1>7

\* The last transaction of a stop is calm: it confirms cancellations.
LEMMA SettleCalm ==
  ASSUME NEW d, LedgerInv(d), NEW k, NEW r \in Runs
  PROVE  Calm(d, Settle(d, k, r))
<1> DEFINE e == Settle(d, k, r)
           tg == stop[<<k, r>>].tg
           Done == {w \in Workers : Confirmed(tg[w])}
           Over(t) == d.task[t].state = "cancelling" /\ \E w \in Done : tg[w].task = t /\ d.task[t].worker = w
           halted == d.fan[r].stopped \/ (k = "user" /\ d.fan[r].coordinator \in Done)
<1>1. /\ d \in Database /\ d.fan \in [Runs -> FanRow] /\ d.fan[r] \in FanRow
      /\ \A t \in Tasks : d.task[t] \in TaskRow
  BY Rows DEF LedgerInv, Database
<1>2. /\ e.run = d.run /\ e.recon = d.recon
      /\ e.task = [t \in Tasks |-> IF Over(t) THEN [d.task[t] EXCEPT !.state = "cancelled"] ELSE d.task[t]]
      /\ e.fan = [d.fan EXCEPT ![r].stopped = halted]
  BY <1>1 DEF Settle, Database
<1> HIDE DEF e, Done, halted
<1>3. \A q \in Runs : e.fan[q].state = d.fan[q].state /\ e.fan[q].sqlStarted = d.fan[q].sqlStarted
  BY <1>1, <1>2 DEF FanRow
<1>4. \A t \in Tasks : e.task[t].state \in TaskActive => e.task[t] = d.task[t]
  BY <1>1, <1>2 DEF TaskRow, TaskActive
<1>5. \A q \in Runs : e.run[q] = d.run[q]
  BY <1>2
<1>6. \A f \in Flows : d.recon[f] => e.recon[f]
  BY <1>2
<1>7. Calm(d, e)
  BY <1>3, <1>4, <1>5, <1>6, SameCalm
<1> QED
  BY <1>7 DEF e

\* initialize() of an owned run is calm: the run is active already, and its
\* exports are queued.
LEMMA InitializeCalm ==
  ASSUME NEW d, LedgerInv(d), NEW w \in Workers, NEW r \in Runs, NEW done,
         Owner(d, w, r), d.fan[r].state = "none"
  PROVE  Calm(d, Initialized(d, w, r, done))
<1> DEFINE e == Initialized(d, w, r, done)
<1>1. /\ d \in Database /\ d.run \in [Runs -> RunRow] /\ d.fan \in [Runs -> FanRow]
      /\ d.run[r] \in RunRow /\ d.fan[r] \in FanRow /\ \A t \in Tasks : d.task[t] \in TaskRow
  BY Rows DEF LedgerInv, Database
<1>2. /\ e.run = [d.run EXCEPT ![r].status = "running"]
      /\ e.fan = [d.fan EXCEPT ![r].state = "downloading", ![r].coordinator = w]
      /\ e.recon = d.recon
      /\ e.task = [t \in Tasks |-> IF RunOf[t] # r THEN d.task[t] ELSE
               [d.task[t] EXCEPT !.state = IF t \in done THEN "succeeded" ELSE "queued"]]
  BY ZenonT(60), <1>1 DEF Initialized, Database
<1> HIDE DEF e
<1>3. /\ e.run[r].status = "running" /\ e.run[r].sqlComplete = d.run[r].sqlComplete
      /\ e.run[r].worker = d.run[r].worker
      /\ e.fan[r].sqlStarted = d.fan[r].sqlStarted /\ e.fan[r].state = "downloading"
      /\ \A q \in Runs : q # r => e.run[q] = d.run[q] /\ e.fan[q] = d.fan[q]
  BY <1>1, <1>2 DEF RunRow, FanRow
<1>4. SqlUncertain(e, r) <=> SqlUncertain(d, r)
  BY <1>3 DEF SqlUncertain, ReconciliationRequired
<1>5. d.run[r].status \in RunActive
  BY DEF Owner
<1>6. CalmRun(d, e, r)
  BY <1>3, <1>4, <1>5 DEF CalmRun, FenceRun, Lost, Open, RunActive
<1>7. ASSUME NEW q \in Runs, q # r PROVE CalmRun(d, e, q)
  BY <1>2, <1>3, <1>7 DEF CalmRun, FenceRun, Lost, Open, RunActive, SqlUncertain, ReconciliationRequired
<1>8. ASSUME NEW t \in Tasks PROVE CalmTask(d, e, t)
  BY <1>1, <1>2 DEF CalmTask, TaskRow, TaskActive
<1> QED
  BY <1>2, <1>6, <1>7, <1>8 DEF Calm, e

\* fail_stale_runs of one silent run, with or without a bundle.
LEMMA FailStaleCalm ==
  ASSUME NEW d, LedgerInv(d), Begun(d), Unloaded(d), NEW r \in Runs, d.run[r].status \in RunActive
  PROVE  Calm(d, FailStale(d, r))
<1> DEFINE e == FailStale(d, r)
<1>1. d \in Database
  BY DEF LedgerInv
<1>2. CASE d.fan[r].state # "none"
  <2> DEFINE g == Abort(d, {r}, "failed", TRUE)
  <2>1. e = FinishAborted(g, {r})
    BY <1>2 DEF FailStale
  <2>2. {r} \in SUBSET Runs /\ "failed" \in TerminalStatus /\ TRUE \in BOOLEAN
    BY DEF TerminalStatus
  <2>3. LedgerInv(g) /\ Calm(d, g)
    BY <1>1, <2>2, AbortKeeps, AbortCalm
  <2> HIDE DEF g, e
  <2>4. Begun(g)
    BY <2>3, CalmBegun
  <2>5. Calm(g, e)
    BY <2>1, <2>2, <2>3, <2>4, FinishAbortedCalm
  <2> QED
    BY <2>3, <2>5, CalmCompose DEF e
<1>3. CASE d.fan[r].state = "none"
  <2>1. e = [d EXCEPT !.run[r].status = "failed", !.wk[d.run[r].worker].run = NoRun]
    BY <1>3 DEF FailStale
  <2> HIDE DEF e
  <2>2. /\ e.run = [d.run EXCEPT ![r].status = "failed"]
        /\ e.fan = d.fan /\ e.task = d.task /\ e.recon = d.recon
    BY <1>1, <2>1 DEF Database
  <2>3. "failed" \in Lost /\ d.run[r].status \in Open
    BY DEF Lost, Open
  <2>4. Calm(d, e)
    BY <1>3, <2>2, <2>3, PlainEndCalm
  <2> QED
    BY <2>4 DEF e
<1> QED
  BY <1>2, <1>3

-----------------------------------------------------------------------------
(* The steps that are not calm, and the theorems.                          *)

\* A run is queued where its flow has no open run, and an append only where no
\* fence is up.
LEMMA QueueGuarded ==
  ASSUME NEW d, LedgerInv(d), NEW A, Guarded(d, A), NEW r \in Runs, MayQueue(d, r)
  PROVE  Guarded([d EXCEPT !.run[r].status = "queued"], A)
<1> DEFINE e == [d EXCEPT !.run[r].status = "queued"]
<1>1. d \in Database /\ Fenced(d, A) /\ Slots(d)
  BY DEF LedgerInv, Guarded
<1>2. /\ e.run = [d.run EXCEPT ![r].status = "queued"]
      /\ e.fan = d.fan /\ e.recon = d.recon /\ e.task = d.task
      /\ d.run \in [Runs -> RunRow] /\ d.run[r] \in RunRow
  BY <1>1 DEF Database
<1> HIDE DEF e
<1>3. /\ e.run[r].status = "queued"
      /\ \A q \in Runs : e.run[q].sqlComplete = d.run[q].sqlComplete
      /\ \A q \in Runs : q # r => e.run[q] = d.run[q]
  BY <1>2 DEF RunRow
<1>4. \A q \in Runs : SqlUncertain(e, q) <=> SqlUncertain(d, q)
  BY <1>2, <1>3 DEF SqlUncertain, ReconciliationRequired
<1>5. /\ d.run[r].status = "none" /\ \A q \in Runs : FlowOf[q] = FlowOf[r] => d.run[q].status \notin Open
      /\ ~(d.recon[FlowOf[r]] /\ r \in Append)
  BY DEF MayQueue, FlowActive, Open
<1>6. \A p, q \in Runs : FlowOf[p] = FlowOf[q] /\ e.run[p].status \in Open /\ e.run[q].status \in Open => p = q
  BY <1>1, <1>3, <1>5 DEF Fenced
<1>7. Begun(e)
  BY <1>1, <1>2, <1>3 DEF Fenced, Begun
<1>8. \A q \in Runs : e.fan[q].state \in {"none", "downloading"} => ~e.fan[q].sqlStarted
  BY <1>1, <1>2 DEF Fenced
<1>9. \A q \in Runs : e.fan[q].state = "aborting" /\ SqlUncertain(e, q) => e.recon[FlowOf[q]]
  BY <1>1, <1>2, <1>4 DEF Fenced
<1>10. ASSUME NEW q \in Runs, e.run[q].status \in Lost, SqlUncertain(e, q), q \notin A
       PROVE  /\ e.recon[FlowOf[q]]
              /\ \A p \in Append : FlowOf[p] = FlowOf[q] => e.run[p].status \notin Open
  <2>1. q # r
    BY <1>3, <1>10 DEF Lost
  <2>2. d.run[q].status \in Lost /\ SqlUncertain(d, q)
    BY <1>3, <1>4, <1>10, <2>1
  <2>3. d.recon[FlowOf[q]] /\ \A p \in Append : FlowOf[p] = FlowOf[q] => d.run[p].status \notin Open
    BY <1>1, <1>10, <2>2 DEF Fenced
  <2>4. Append \subseteq Runs
    BY ShapeAssumption
  <2> QED
    BY <1>2, <1>3, <1>5, <2>3, <2>4
<1>11. Fenced(e, A)
  BY <1>6, <1>7, <1>8, <1>9, <1>10 DEF Fenced
<1>12. \A q \in Runs : e.run[q].status \in RunActive => d.run[q].status \in RunActive /\ e.run[q].worker = d.run[q].worker
  BY <1>3 DEF RunActive
<1>13. Slots(e)
  BY <1>1, <1>2, <1>12, SlotsKept
<1> QED
  BY <1>11, <1>13 DEF Guarded, e

\* An operator lifts the fence of a flow without an open run, and vouches for
\* the appends that ended there.
LEMMA AcknowledgeGuarded ==
  ASSUME NEW d, LedgerInv(d), NEW A, Guarded(d, A), NEW f \in Flows, ~FlowActive(d, f)
  PROVE  Guarded([d EXCEPT !.recon[f] = FALSE],
                 A \cup {r \in Append : FlowOf[r] = f /\ d.run[r].status \in RunTerminal})
<1> DEFINE e == [d EXCEPT !.recon[f] = FALSE]
           B == A \cup {r \in Append : FlowOf[r] = f /\ d.run[r].status \in RunTerminal}
<1>1. d \in Database /\ Fenced(d, A) /\ Slots(d) /\ LedgerEndsWithRun(d)
  BY DEF LedgerInv, Guarded
<1>2. /\ e.run = d.run /\ e.fan = d.fan /\ e.task = d.task
      /\ \A g \in Flows : g # f => e.recon[g] = d.recon[g]
  BY <1>1 DEF Database
<1> HIDE DEF e
<1>3. \A q \in Runs : SqlUncertain(e, q) <=> SqlUncertain(d, q)
  BY <1>2 DEF SqlUncertain, ReconciliationRequired
<1>4. \A q \in Runs : FlowOf[q] = f => d.run[q].status \notin Open
  BY DEF FlowActive, Open
<1>5. /\ \A p, q \in Runs : FlowOf[p] = FlowOf[q] /\ e.run[p].status \in Open /\ e.run[q].status \in Open => p = q
      /\ Begun(e)
      /\ \A q \in Runs : e.fan[q].state \in {"none", "downloading"} => ~e.fan[q].sqlStarted
  BY <1>1, <1>2 DEF Fenced, Begun
<1>6. ASSUME NEW q \in Runs, e.fan[q].state = "aborting", SqlUncertain(e, q) PROVE e.recon[FlowOf[q]]
  <2>1. d.recon[FlowOf[q]] /\ FlowOf[q] \in Flows
    BY <1>1, <1>2, <1>3, <1>6, ShapeAssumption DEF Fenced
  <2>2. d.run[q].status \in Open
    <3>1. d.run[q] \in RunRow /\ d.run[q].status # "none" /\ d.run[q].status \notin RunTerminal
      BY <1>1, <1>2, <1>6 DEF Fenced, Begun, LedgerEndsWithRun, Database
    <3> QED
      BY <3>1 DEF RunRow, Open
  <2> QED
    BY <1>2, <1>4, <2>1, <2>2
<1>7. ASSUME NEW q \in Runs, e.run[q].status \in Lost, SqlUncertain(e, q), q \notin B
      PROVE  /\ e.recon[FlowOf[q]]
             /\ \A p \in Append : FlowOf[p] = FlowOf[q] => e.run[p].status \notin Open
  <2>1. d.run[q].status \in Lost /\ SqlUncertain(d, q) /\ q \in Append /\ FlowOf[q] \in Flows
    BY <1>2, <1>3, <1>7, ShapeAssumption DEF SqlUncertain, ReconciliationRequired
  <2>2. FlowOf[q] # f
    BY <1>7, <2>1 DEF Lost, RunTerminal
  <2>3. d.recon[FlowOf[q]] /\ \A p \in Append : FlowOf[p] = FlowOf[q] => d.run[p].status \notin Open
    BY <1>1, <1>7, <2>1 DEF Fenced
  <2> QED
    BY <1>2, <2>1, <2>2, <2>3
<1> HIDE DEF B
<1>8. Fenced(e, B)
  BY <1>5, <1>6, <1>7 DEF Fenced
<1>9. Slots(e)
  BY <1>1, <1>2, SlotsKept
<1> QED
  BY <1>8, <1>9 DEF Guarded, e, B

\* Every action of a worker's main thread keeps fences and slots.
LEMMA WorkerGuarded ==
  ASSUME BundleInv, Guarded(db, acked), NEW w \in Workers, WorkerStep(w)
  PROVE  Guarded(db', acked')
<1> DEFINE d == Reap(db)
           G(e) == Guarded(e, acked)
<1>1. /\ LedgerInv(db) /\ db \in Database /\ Begun(db) /\ Unloaded(db)
      /\ proc \in [Workers -> ProcRow]
  BY FencedBegun DEF BundleInv, LedgerInv, TypeOK, Guarded
<1>2. acked' = acked
  BY DEF WorkerStep, StartProcess, Crash, RegisterWorker, Unwind, FinalizerUnwinds, ClaimRunTask,
         ClaimRunHeld, ClaimRunNew, ClaimRunIdle, ReportTask
<1>3. LedgerInv(d) /\ G(d)
  BY <1>1, ReapKeeps, ReapCalm, CalmGuarded
<1>4. d \in Database
  BY <1>3 DEF LedgerInv
<1> HIDE DEF d
<1>5. ASSUME NEW e, G(e), db' = e PROVE Guarded(db', acked')
  BY <1>2, <1>5
<1>6. G(db)
  OBVIOUS
<1> HIDE DEF G
<1>7. CASE StartProcess(w) \/ Crash(w) \/ Unwind(w) \/ FinalizerUnwinds(w)
  <2>1. db' = db
    BY <1>7 DEF StartProcess, Crash, Unwind, FinalizerUnwinds
  <2> QED
    BY <1>5, <1>6, <2>1
<1>8. CASE RegisterWorker(w)
  <2> DEFINE a == RecoverWorker(db, w)
             b == InterruptRun(a, db, w)
             c == IF db.wk[w].pid = 0 THEN db ELSE b
             e == [c EXCEPT !.wk[w].pid = proc[w].pid]
  <2>1. LedgerInv(a) /\ Quiet(db, a) /\ Calm(db, a)
    BY <1>1, RecoverWorkerKeeps, RecoverWorkerCalm
  <2> HIDE DEF a
  <2>2. G(a)
    BY <1>6, <2>1, CalmGuarded DEF G
  <2>3. Begun(a) /\ Unloaded(a)
    BY <2>2, FencedBegun DEF G, Guarded
  <2>4. LedgerInv(b) /\ Calm(a, b)
    BY <1>1, <2>1, <2>3, InterruptRunKeeps, InterruptRunCalm
  <2> HIDE DEF b
  <2>5. G(b)
    BY <2>2, <2>4, CalmGuarded DEF G
  <2>6. G(c) /\ c \in Database
    BY <1>1, <1>6, <2>4, <2>5 DEF LedgerInv
  <2>7. proc[w].pid \in Nat
    BY <1>1 DEF ProcRow
  <2>8. db' = e
    BY <1>8 DEF RegisterWorker, a, b
  <2> HIDE DEF c
  <2>9. Calm(c, e)
    BY <2>6, <2>7, UnassignCalm
  <2> HIDE DEF e
  <2>10. G(e)
    BY <2>6, <2>9, CalmGuarded DEF G
  <2> QED
    BY <1>5, <2>8, <2>10
<1>9. CASE ClaimRunTask(w)
  <2>1. PICK t \in TaskOffers(d, w, Runs) : db' = AssignTask(d, w, t)
    BY <1>9 DEF ClaimRunTask, Offer, d
  <2>2. G(AssignTask(d, w, t))
    BY <1>3, AssignTaskGuarded DEF G
  <2> QED
    BY <1>5, <2>1, <2>2
<1>10. CASE ClaimRunHeld(w)
  <2>1. db' = d
    BY <1>10 DEF ClaimRunHeld, Nothing, d
  <2> QED
    BY <1>3, <1>5, <2>1
<1>11. CASE ClaimRunNew(w)
  <2>1. PICK r \in RunOffers(d, w) : db' = AssignRun(d, w, r)
    BY <1>11 DEF ClaimRunNew, d
  <2>2. G(AssignRun(d, w, r))
    BY <1>3, AssignRunGuarded DEF G
  <2> QED
    BY <1>5, <2>1, <2>2
<1>12. CASE ClaimRunIdle(w)
  <2>1. db' = RunIdle(d, w)
    BY <1>12 DEF ClaimRunIdle, Nothing, d
  <2>2. Calm(d, RunIdle(d, w))
    BY <1>4, UnassignCalm DEF RunIdle
  <2>3. G(RunIdle(d, w))
    BY <1>3, <2>2, CalmGuarded DEF G
  <2> QED
    BY <1>5, <2>1, <2>3
<1>13. ASSUME NEW t \in Tasks, NEW status \in TaskTerminal, ReportTask(w, t, status)
       PROVE  Guarded(db', acked')
  <2>1. db' = TaskReported(db, w, t, status)
    BY <1>13 DEF ReportTask
  <2>2. Calm(db, TaskReported(db, w, t, status))
    BY <1>1, TaskReportedCalm
  <2>3. G(TaskReported(db, w, t, status))
    BY <1>6, <2>2, CalmGuarded DEF G
  <2> QED
    BY <1>5, <2>1, <2>3
<1> QED
  BY <1>7, <1>8, <1>9, <1>10, <1>11, <1>12, <1>13 DEF WorkerStep

\* So does every action of a coordinator.
LEMMA CoordinatorGuarded ==
  ASSUME BundleInv, Guarded(db, acked), NEW w \in Workers, NEW r \in Runs, CoordinatorStep(w, r)
  PROVE  Guarded(db', acked')
<1> DEFINE d == Reap(db)
           G(e) == Guarded(e, acked)
<1>1. LedgerInv(db) /\ db \in Database /\ Begun(db) /\ Unloaded(db) /\ Fenced(db, acked)
  BY FencedBegun DEF BundleInv, LedgerInv, Guarded
<1>2. acked' = acked
  BY DEF CoordinatorStep, Initialize, ClaimOwnTask, Status, ClaimFinalizer, ReportRunning,
         ReportSqlInsertion, ReportSqlCommit, ReportSqlComplete, ReportSucceeded, ReportFailed,
         CoordinatorAbort
<1>3. LedgerInv(d) /\ G(d)
  BY <1>1, ReapKeeps, ReapCalm, CalmGuarded
<1>4. ASSUME NEW e, G(e), db' = e PROVE Guarded(db', acked')
  BY <1>2, <1>4
<1>5. G(db)
  OBVIOUS
<1>6. ASSUME NEW e, Calm(db, e), db' = e PROVE Guarded(db', acked')
  BY <1>4, <1>6, CalmGuarded
<1> HIDE DEF d, G
<1>7. ASSUME db' = db PROVE Guarded(db', acked')
  BY <1>4, <1>5, <1>7
<1>8. ASSUME Owner(db, w, r) PROVE db.run[r].status \in RunActive /\ db.run[r].status \in Open
  BY <1>8 DEF Owner, Open
<1>9. ASSUME NEW done \in SUBSET (TasksOf(r) \cap Carried), Initialize(w, r, done)
      PROVE  Guarded(db', acked')
  <2>1. db' = Initialized(db, w, r, done)
    BY <1>9 DEF Initialize, Initialized
  <2>2. Calm(db, Initialized(db, w, r, done))
    BY <1>1, <1>9, InitializeCalm DEF Initialize
  <2> QED
    BY <1>6, <2>1, <2>2
<1>10. CASE ClaimOwnTask(w, r)
  <2>1. CASE db' = d
    BY <1>3, <1>4, <2>1
  <2>2. CASE \E t \in TaskOffers(d, w, {r}) : db' = AssignTask(d, w, t)
    <3>1. PICK t \in TaskOffers(d, w, {r}) : db' = AssignTask(d, w, t)
      BY <2>2
    <3>2. G(AssignTask(d, w, t))
      BY <1>3, AssignTaskGuarded DEF G
    <3> QED
      BY <1>4, <3>1, <3>2
  <2> QED
    BY <1>10, <2>1, <2>2 DEF ClaimOwnTask, Nothing, Offer, d
<1>11. CASE Status(w, r)
  <2>1. db' = d
    BY <1>11 DEF Status, d
  <2> QED
    BY <1>3, <1>4, <2>1
<1>12. CASE ClaimFinalizer(w, r)
  <2> DEFINE e == [d EXCEPT !.fan[r].state = "finalizing"]
  <2>1. Finalizable(d, w, r) /\ db' = e
    BY <1>12 DEF ClaimFinalizer, d
  <2>2. d.fan[r].state \in {"downloading", "finalizing"}
    BY <2>1 DEF Finalizable
  <2>3. Calm(d, e)
    BY <1>3, <2>2, FinalizingCalm
  <2> HIDE DEF e
  <2>4. G(e)
    BY <1>3, <2>3, CalmGuarded DEF G
  <2> QED
    BY <1>4, <2>1, <2>4
<1>13. CASE ReportRunning(w, r)
  <2> DEFINE e == [db EXCEPT !.run[r].status = "running"]
  <2>1. Owner(db, w, r) /\ db' = e
    BY <1>13 DEF ReportRunning, MayReport
  <2>2. Calm(db, e)
    BY <1>1, <1>8, <2>1, ReportCalm
  <2> HIDE DEF e
  <2> QED
    BY <1>6, <2>1, <2>2
<1>14. CASE ReportSqlInsertion(w, r)
  <2> DEFINE e == [db EXCEPT !.run[r].status = "running", !.fan[r].sqlStarted = TRUE]
  <2>1. db' = db \/ (Owner(db, w, r) /\ HoldsToken(db, w, r) /\ db' = e)
    BY <1>14 DEF ReportSqlInsertion, FinalizerReports, MayReport
  <2>2. ASSUME Owner(db, w, r), HoldsToken(db, w, r) PROVE G(e)
    <3>1. db.fan[r].state = "finalizing"
      BY <2>2 DEF HoldsToken
    <3> QED
      BY <1>1, <1>8, <2>2, <3>1, LoadGuarded DEF G
  <2> HIDE DEF e
  <2> QED
    BY <1>4, <1>7, <2>1, <2>2
<1>15. CASE ReportSqlCommit(w, r)
  <2>1. db' = db
    BY <1>15 DEF ReportSqlCommit, FinalizerReports
  <2> QED
    BY <1>7, <2>1
<1>16. CASE ReportSqlComplete(w, r)
  <2> DEFINE e == [db EXCEPT !.run[r].sqlComplete = TRUE]
  <2>1. db' = db \/ (Owner(db, w, r) /\ db' = e)
    BY <1>16 DEF ReportSqlComplete, FinalizerReports, MayReport
  <2>2. ASSUME Owner(db, w, r) PROVE Calm(db, e)
    BY <1>1, <1>8, <2>2, ReportCalm
  <2> HIDE DEF e
  <2> QED
    BY <1>6, <1>7, <2>1, <2>2
<1>17. CASE ReportSucceeded(w, r)
  <2> DEFINE e == EndRun(db, w, r, "succeeded")
  <2>1. db' = db \/ (Owner(db, w, r) /\ db' = e)
    BY <1>17 DEF ReportSucceeded, FinalizerReports, MayReport
  <2>2. ASSUME Owner(db, w, r) PROVE Calm(db, e)
    BY <1>1, <1>8, <2>2, EndRunCalm
  <2> HIDE DEF e
  <2> QED
    BY <1>6, <1>7, <2>1, <2>2
<1>18. CASE ReportFailed(w, r)
  <2> DEFINE e == EndRun(RaiseUncertain(db, r), w, r, "failed")
  <2>1. Owner(db, w, r) /\ db' = e
    BY <1>18 DEF ReportFailed
  <2>2. db.fan[r].state = "downloading" => ~db.fan[r].sqlStarted
    BY <1>1 DEF Fenced
  <2>3. Calm(db, e)
    BY <1>1, <1>8, <2>1, <2>2, ReportFailedCalm
  <2> HIDE DEF e
  <2> QED
    BY <1>6, <2>1, <2>3
<1>19. CASE CoordinatorAbort(w, r)
  <2> DEFINE e == Abort(db, {r}, "failed", FALSE)
  <2>1. {r} \in SUBSET Runs /\ "failed" \in TerminalStatus /\ FALSE \in BOOLEAN
    BY DEF TerminalStatus
  <2>2. Calm(db, e)
    BY <1>1, <2>1, AbortCalm
  <2>3. db' = e
    BY <1>19 DEF CoordinatorAbort
  <2> HIDE DEF e
  <2> QED
    BY <1>6, <2>2, <2>3
<1> QED
  BY <1>9, <1>10, <1>11, <1>12, <1>13, <1>14, <1>15, <1>16, <1>17, <1>18, <1>19
     DEF CoordinatorStep

\* And every step of a stop procedure.
LEMMA StopGuarded ==
  ASSUME BundleInv, Guarded(db, acked), NEW k, NEW r \in Runs, StopStep(k, r)
  PROVE  Guarded(db', acked')
<1>1. LedgerInv(db) /\ db \in Database /\ Begun(db)
  BY FencedBegun DEF BundleInv, LedgerInv, Guarded
<1>2. acked' = acked
  BY DEF StopStep, StopFence, StopFinish, StopCheck, StopKill, StopFails
<1>3. ASSUME NEW e, Calm(db, e), db' = e PROVE Guarded(db', acked')
  BY <1>2, <1>3, CalmGuarded
<1>4. ASSUME db' = db PROVE Guarded(db', acked')
  BY <1>2, <1>4
<1>5. CASE StopFence(k, r)
  <2> DEFINE wk == [w \in Workers |-> IF w \in StopTargets(db, k, r)
                      THEN [db.wk[w] EXCEPT !.fence = db.wk[w].pid] ELSE db.wk[w]]
             e == [db EXCEPT !.wk = wk]
  <2>1. db' = e
    BY <1>5 DEF StopFence
  <2> HIDE DEF wk
  <2>2. e.run = db.run /\ e.fan = db.fan /\ e.task = db.task /\ e.recon = db.recon
    BY <1>1 DEF Database
  <2> HIDE DEF e
  <2>3. Calm(db, e)
    BY <2>2, WorkersCalm
  <2> QED
    BY <1>3, <2>1, <2>3
<1>6. CASE StopFinish(k, r)
  <2> DEFINE g == Settle(db, k, r)
  <2>1. LedgerInv(g) /\ Calm(db, g)
    BY <1>1, SettleKeeps, SettleCalm
  <2>2. db' = db \/ db' = Reap(g)
    BY <1>6 DEF StopFinish
  <2> HIDE DEF g
  <2>3. Begun(g)
    BY <1>1, <2>1, CalmBegun
  <2>4. Calm(g, Reap(g))
    BY <2>1, <2>3, ReapCalm
  <2>5. Calm(db, Reap(g))
    BY <2>1, <2>4, CalmCompose
  <2> QED
    BY <1>3, <1>4, <2>2, <2>5
<1>7. ASSUME NEW w \in Workers, StopCheck(k, r, w) \/ StopKill(k, r, w) \/ StopFails(k, r, w)
      PROVE  Guarded(db', acked')
  <2>1. db' = db
    BY <1>7 DEF StopCheck, StopKill, StopFails
  <2> QED
    BY <1>4, <2>1
<1> QED
  BY <1>5, <1>6, <1>7 DEF StopStep

\* And what happens to a run without a worker's doing.
LEMMA RunGuarded ==
  ASSUME BundleInv, Guarded(db, acked), NEW r \in Runs, RunStep(r)
  PROVE  Guarded(db', acked')
<1>1. LedgerInv(db) /\ db \in Database /\ Begun(db) /\ Unloaded(db)
  BY FencedBegun DEF BundleInv, LedgerInv, Guarded
<1>2. acked' = acked
  BY DEF RunStep, QueueRun, StopBundle, StopPlain, SqlCommits, DeadlinePasses, FailStaleRun
<1>3. ASSUME NEW e, Calm(db, e), db' = e PROVE Guarded(db', acked')
  BY <1>2, <1>3, CalmGuarded
<1>4. CASE QueueRun(r)
  <2>1. MayQueue(db, r) /\ db' = [db EXCEPT !.run[r].status = "queued"]
    BY <1>4 DEF QueueRun
  <2>2. Guarded([db EXCEPT !.run[r].status = "queued"], acked)
    BY <1>1, <2>1, QueueGuarded
  <2> QED
    BY <1>2, <2>1, <2>2
<1>5. CASE StopBundle(r)
  <2> DEFINE e == Abort(db, {r}, "cancelled", FALSE)
  <2>1. {r} \in SUBSET Runs /\ "cancelled" \in TerminalStatus /\ FALSE \in BOOLEAN
    BY DEF TerminalStatus
  <2>2. Calm(db, e)
    BY <1>1, <2>1, AbortCalm
  <2>3. db' = e
    BY <1>5 DEF StopBundle
  <2> HIDE DEF e
  <2> QED
    BY <1>3, <2>2, <2>3
<1>6. CASE StopPlain(r)
  <2> DEFINE w == db.run[r].worker
             assigned == db.run[r].status \in RunActive /\ w # NoWorker
             e == StoppedPlain(db, r, assigned, w)
  <2>1. db.run[r].status \in Open /\ db.fan[r].state = "none" /\ db' = e
    BY <1>6 DEF StopPlain, StoppedPlain, Open
  <2> HIDE DEF w, assigned
  <2>2. Calm(db, e)
    BY <1>1, <2>1, StoppedPlainCalm
  <2> HIDE DEF e
  <2> QED
    BY <1>3, <2>1, <2>2
<1>7. CASE SqlCommits(r)
  BY <1>2, <1>7 DEF SqlCommits
<1>8. CASE DeadlinePasses(r)
  <2> DEFINE e == [db EXCEPT !.fan[r].deadline = "passed"]
  <2>1. db' = e
    BY <1>8 DEF DeadlinePasses
  <2>2. Calm(db, e)
    BY <1>1, ClockCalm
  <2> HIDE DEF e
  <2> QED
    BY <1>3, <2>1, <2>2
<1>9. CASE FailStaleRun(r)
  <2> DEFINE d == Reap(db)
             e == FailStale(d, r)
  <2>1. LedgerInv(d) /\ Calm(db, d)
    BY <1>1, ReapKeeps, ReapCalm
  <2>2. d.run[r].status \in RunActive /\ db' = e
    BY <1>9 DEF FailStaleRun
  <2> HIDE DEF d
  <2>3. Guarded(d, acked)
    BY <2>1, CalmGuarded
  <2>4. Begun(d) /\ Unloaded(d)
    BY <2>3, FencedBegun DEF Guarded
  <2>5. Calm(d, e)
    BY <2>1, <2>2, <2>4, FailStaleCalm
  <2> HIDE DEF e
  <2>6. Calm(db, e)
    BY <2>1, <2>5, CalmCompose
  <2> QED
    BY <1>3, <2>2, <2>6
<1> QED
  BY <1>4, <1>5, <1>6, <1>7, <1>8, <1>9 DEF RunStep

\* The empty database guards itself.
LEMMA GuardedInit == ASSUME Init PROVE Guarded(db, acked)
<1>1. /\ \A r \in Runs : /\ db.run[r].status = "none" /\ db.fan[r].state = "none"
                         /\ ~db.fan[r].sqlStarted
      /\ \A t \in Tasks : db.task[t].state = "none"
  BY DEF Init, EmptyDatabase
<1>2. Fenced(db, acked)
  BY <1>1 DEF Fenced, Begun, Open, Lost, RunActive
<1>3. Manned(db)
  BY <1>1 DEF Manned, RunActive, TaskActive
<1>4. ASSUME NEW R \in SUBSET Runs PROVE Cardinality(BusyIn(db, R)) = 0
  <2>1. BusyIn(db, R) = {}
    BY <1>1 DEF BusyIn, RunActive, TaskActive
  <2> QED
    BY <2>1, FS_EmptySet
<1>5. ASSUME NEW r \in Runs PROVE Cardinality(ActiveTasks(db, r)) = 0
  <2>1. ActiveTasks(db, r) = {}
    BY <1>1 DEF ActiveTasks, TasksOf, TaskActive
  <2> QED
    BY <2>1, FS_EmptySet
<1>6. \A m : RunsOfMode(m) \in SUBSET Runs /\ RunsOfSite(m) \in SUBSET Runs
  BY DEF RunsOfMode, RunsOfSite
<1>7. Cardinality(BusyIn(db, Runs)) <= TotalCapacity
  BY <1>4, CapacityAssumption
<1>8. \A m \in DOMAIN ModeCapacity : Cardinality(BusyIn(db, RunsOfMode(m))) <= ModeCapacity[m]
  BY <1>4, <1>6, CapacityAssumption
<1>9. \A s \in DOMAIN PortalCapacity : Cardinality(BusyIn(db, RunsOfSite(s))) <= PortalCapacity[s]
  BY <1>4, <1>6, CapacityAssumption
<1>10. \A r \in Runs : Cardinality(ActiveTasks(db, r)) <= Parallelism[r]
  BY <1>5, CapacityAssumption
<1>11. Slots(db)
  BY <1>3, <1>7, <1>8, <1>9, <1>10 DEF Slots
<1> QED
  BY <1>2, <1>11 DEF Guarded

\* Fences and slots hold in every reachable state.
THEOREM GuardTheorem == Spec => [](BundleInv /\ Guarded(db, acked))
<1> DEFINE Inv == BundleInv /\ Guarded(db, acked)
<1>1. Init => Inv
  BY InitInv, GuardedInit
<1>2. Inv /\ [Next]_vars => Inv'
  <2> SUFFICES ASSUME Inv, [Next]_vars PROVE Guarded(db', acked')
    BY StepInv
  <2>1. LedgerInv(db) /\ db \in Database /\ Begun(db)
    BY FencedBegun DEF BundleInv, LedgerInv, Guarded
  <2>2. CASE UNCHANGED vars
    BY <2>2 DEF vars
  <2>3. ASSUME NEW w \in Workers, WorkerStep(w) PROVE Guarded(db', acked')
    BY <2>3, WorkerGuarded
  <2>4. ASSUME NEW w \in Workers, NEW r \in Runs, CoordinatorStep(w, r) PROVE Guarded(db', acked')
    BY <2>4, CoordinatorGuarded
  <2>5. ASSUME NEW key \in StopKeys, StopStep(key[1], key[2]) PROVE Guarded(db', acked')
    <3>1. key[2] \in Runs
      BY StopKeysAssumption
    <3> QED
      BY <2>5, <3>1, StopGuarded
  <2>6. ASSUME NEW r \in Runs, RunStep(r) PROVE Guarded(db', acked')
    BY <2>6, RunGuarded
  <2>7. ASSUME NEW t \in Tasks, LeaseExpires(t) PROVE Guarded(db', acked')
    <3> DEFINE e == [db EXCEPT !.task[t].expired = TRUE]
    <3>1. Calm(db, e)
      BY <2>1, ClockCalm
    <3>2. db' = e /\ acked' = acked
      BY <2>7 DEF LeaseExpires
    <3> HIDE DEF e
    <3>3. Guarded(e, acked)
      BY <3>1, CalmGuarded
    <3> QED
      BY <3>2, <3>3
  <2>8. ASSUME NEW f \in Flows, AcknowledgeSqlReconciliation(f) PROVE Guarded(db', acked')
    <3>1. /\ ~FlowActive(db, f)
          /\ db' = [db EXCEPT !.recon[f] = FALSE]
          /\ acked' = acked \cup {r \in Append : FlowOf[r] = f /\ db.run[r].status \in RunTerminal}
      BY <2>8 DEF AcknowledgeSqlReconciliation
    <3>2. Guarded([db EXCEPT !.recon[f] = FALSE],
                  acked \cup {r \in Append : FlowOf[r] = f /\ db.run[r].status \in RunTerminal})
      BY <2>1, <3>1, AcknowledgeGuarded
    <3> QED
      BY <3>1, <3>2
  <2>9. CASE Watchdog
    <3>1. db' = Reap(db) /\ acked' = acked
      BY <2>9 DEF Watchdog
    <3>2. Guarded(Reap(db), acked)
      BY <2>1, ReapCalm, CalmGuarded
    <3> QED
      BY <3>1, <3>2
  <2> QED
    BY <2>2, <2>3, <2>4, <2>5, <2>6, <2>7, <2>8, <2>9 DEF Next
<1> QED
  BY <1>1, <1>2, PTL DEF Spec

\* No interleaving of claims exceeds flow_capacity, a portal or a bundle.
THEOREM SlotsTheorem == Spec => []SlotsRespected
<1>1. Guarded(db, acked) => SlotsRespected
  <2> SUFFICES ASSUME Slots(db) PROVE SlotsRespected
    BY DEF Guarded
  <2>1. \A R : Busy(R) = BusyIn(db, R)
    BY DEF Busy, BusyIn
  <2>2. \A s : {r \in Runs : Site[r] = s} = RunsOfSite(s)
    BY DEF RunsOfSite
  <2>3. \A r : {t \in TasksOf(r) : db.task[t].state \in TaskActive} = ActiveTasks(db, r)
    BY DEF ActiveTasks
  <2> QED
    BY <2>1, <2>2, <2>3 DEF Slots, SlotsRespected
<1> QED
  BY <1>1, GuardTheorem, PTL

\* Every path that ends a run inside an unconfirmed append raises the fence of
\* its flow, and no append passes it before an operator reconciled the target.
THEOREM AppendTheorem == Spec => []NoBlindAppend
<1>1. Guarded(db, acked) => NoBlindAppend
  <2> SUFFICES ASSUME Fenced(db, acked), NEW r \in Append, UncertainAppend(r)
               PROVE  /\ db.recon[FlowOf[r]]
                      /\ \A q \in Append : FlowOf[q] = FlowOf[r] => db.run[q].status \notin Open
    BY DEF Guarded, NoBlindAppend, Open
  <2>1. r \in Runs /\ db.run[r].status \in Lost /\ SqlUncertain(db, r) /\ r \notin acked
    BY ShapeAssumption DEF UncertainAppend, Lost, SqlUncertain, ReconciliationRequired
  <2> QED
    BY <2>1 DEF Fenced
<1> QED
  BY <1>1, GuardTheorem, PTL

-----------------------------------------------------------------------------
(* Assignments.  What the handlers that are Steady keep, and those that     *)
(* assign, latch or register.                                               *)

\* The end of a run by its worker: update_run, and fail_stale_runs.
LEMMA EndRunAgrees ==
  ASSUME NEW d, LedgerInv(d), NEW S, Agreed(d, S), NEW w \in Workers, NEW r \in Runs,
         d.run[r].worker = w, d.run[r].status \in RunActive,
         NEW status \in {"succeeded", "failed"},
         \A t \in TasksOf(r) : d.task[t].state # "claimed"
  PROVE  Agreed(EndRun(d, w, r, status), S)
<1> DEFINE row == [d.run[r] EXCEPT !.status = status]
           ledger == [d.fan[r] EXCEPT !.state = IF @ = "none" THEN @ ELSE "complete"]
           wk == [d.wk EXCEPT ![w].run = NoRun]
           e == RewriteRun(d, r, row, ledger, wk, d.recon)
<1>1. d \in Database /\ d.run[r] \in RunRow /\ d.fan[r] \in FanRow
      /\ d.recon \in [Flows -> BOOLEAN] /\ d.wk \in [Workers -> WorkerRow]
  BY DEF LedgerInv, Database
<1>2. EndRun(d, w, r, status) = e
  BY <1>1 DEF EndRun, RewriteRun, Database
<1>3. row \in RunRow /\ row.status \in RunTerminal /\ row.worker = d.run[r].worker
  BY <1>1 DEF RunRow, RunTerminal
<1>4. /\ ledger \in FanRow /\ ledger.stopped = d.fan[r].stopped
      /\ ledger.state = d.fan[r].state \/ ledger.state = "complete"
  BY <1>1 DEF FanRow
<1>5. wk \in [Workers -> WorkerRow]
  BY <1>1, NoRunFor
<1>6. ASSUME NEW v \in Workers PROVE LosesRun(d, r, wk, v)
  <2>1. CASE v # w
    BY <1>1, <2>1 DEF LosesRun
  <2>2. CASE v = w
    <3>1. wk[v] = [d.wk[v] EXCEPT !.run = NoRun]
      BY <1>1, <2>2
    <3>2. \A q \in Runs \ {r} :
            d.wk[v].run = q /\ d.run[q].worker = v /\ d.run[q].status \in RunActive => Excused(d, q)
      BY <2>2, HolderExcused
    <3> QED
      BY <3>1, <3>2 DEF LosesRun
  <2> QED
    BY <2>1, <2>2
<1> HIDE DEF row, ledger, wk
<1>7. Agreed(e, S)
  BY <1>1, <1>3, <1>4, <1>5, <1>6, EndedRunAgrees
<1> QED
  BY <1>2, <1>7

\* fail_stale_runs ends a silent run, or stops and perhaps closes its bundle.
LEMMA FailStaleAgrees ==
  ASSUME NEW d, LedgerInv(d), NEW S, Agreed(d, S), NEW r \in Runs, d.run[r].status \in RunActive
  PROVE  Agreed(FailStale(d, r), S)
<1>1. CASE d.fan[r].state # "none"
  <2> DEFINE g == Abort(d, {r}, "failed", TRUE)
  <2>1. FailStale(d, r) = FinishAborted(g, {r})
    BY <1>1 DEF FailStale
  <2>2. {r} \in SUBSET Runs /\ "failed" \in TerminalStatus /\ TRUE \in BOOLEAN
    BY DEF TerminalStatus
  <2>3. LedgerInv(g) /\ Agreed(g, S)
    BY <2>2, AbortKeeps, AbortAgrees
  <2> HIDE DEF g
  <2>4. Agreed(FinishAborted(g, {r}), S)
    BY <2>2, <2>3, FinishAbortedAgrees
  <2> QED
    BY <2>1, <2>4
<1>2. CASE d.fan[r].state = "none"
  <2>1. d.run[r].worker \in Workers
    BY DEF Agreed
  <2> DEFINE w == d.run[r].worker
  <2>2. \A t \in TasksOf(r) : d.task[t].state # "claimed"
    BY <1>2 DEF Agreed, Leased, TasksOf
  <2>3. Agreed(EndRun(d, w, r, "failed"), S)
    BY <2>1, <2>2, EndRunAgrees
  <2>4. d \in Database /\ d.fan[r] \in FanRow
    BY Rows DEF LedgerInv
  <2>5. [d.fan[r] EXCEPT !.state = IF @ = "none" THEN @ ELSE "complete"] = d.fan[r]
    BY <1>2, <2>4 DEF FanRow
  <2>6. EndRun(d, w, r, "failed") = FailStale(d, r)
    BY <1>2, <2>4, <2>5 DEF EndRun, FailStale, Database
  <2> QED
    BY <2>3, <2>6
<1> QED
  BY <1>1, <1>2

\* A row freed of a task that no lease holds, and of its latch.
LEMMA UnassignTaskAgrees ==
  ASSUME NEW d, LedgerInv(d), NEW S, Agreed(d, S), NEW w \in Workers, ~LosesTask(d, w)
  PROVE  LET e == [d EXCEPT !.wk[w].task = NoTask, !.wk[w].fence = 0] IN
         Agreed(e, S) /\ Narrow(d, e)
<1> DEFINE e == [d EXCEPT !.wk[w].task = NoTask, !.wk[w].fence = 0]
<1>1. d \in Database /\ d.wk[w] \in WorkerRow
  BY Rows DEF LedgerInv
<1>2. /\ e.run = d.run /\ e.fan = d.fan /\ e.task = d.task
      /\ e.wk[w] = [[d.wk[w] EXCEPT !.task = NoTask] EXCEPT !.fence = 0]
      /\ \A v \in Workers \ {w} : e.wk[v] = d.wk[v]
  BY <1>1 DEF Database
<1> HIDE DEF e
<1>3. /\ e.wk[w].run = d.wk[w].run /\ e.wk[w].task = NoTask
      /\ e.wk[w].pid = d.wk[w].pid /\ e.wk[w].fence = 0
  BY <1>1, <1>2 DEF WorkerRow
<1>4. \A v \in Workers : SteadyWorker(d, e, v)
  BY <1>2, <1>3 DEF SteadyWorker
<1>5. \A r \in Runs : SteadyRun(d, e, r)
  BY <1>2 DEF SteadyRun, GoneIn
<1>6. ASSUME NEW t \in Tasks, d.task[t].state = "claimed" PROVE d.task[t].worker \in Workers \ {w}
  <2>1. Leased(d, t)
    BY <1>6 DEF Agreed
  <2>2. t # NoTask
    BY NullAssumption
  <2> QED
    BY <1>6, <2>1, <2>2 DEF Leased, LosesTask, TaskActive
<1>7. \A t \in Tasks : SteadyTask(d, e, t)
  BY <1>2, <1>6 DEF SteadyTask, Agreed, Leased
<1>8. Steady(d, e)
  BY <1>4, <1>5, <1>7 DEF Steady
<1> QED
  BY <1>8, SteadyAgrees DEF e

\* recover_worker ends the lease of the row's task with its bundle ...
LEMMA RecoverTaskAgrees ==
  ASSUME NEW d, LedgerInv(d), NEW S, Agreed(d, S), NEW w \in Workers
  PROVE  LET e == RecoverTask(d, w) IN Agreed(e, S) /\ e.wk = d.wk /\ ~LosesTask(e, w)
<1> DEFINE t == d.wk[w].task
           g == [d EXCEPT !.task[t].state = "failed"]
           e == Abort(g, {RunOf[t]}, "failed", FALSE)
<1>1. CASE ~LosesTask(d, w)
  BY <1>1 DEF RecoverTask
<1>2. CASE LosesTask(d, w)
  <2>1. d \in Database /\ t \in Tasks /\ d.task[t].state \in TaskActive
        /\ RunOf[t] \in Runs /\ d.task[t] \in TaskRow /\ d.wk[w].task = t
    <3>1. d \in Database /\ d.wk[w] \in WorkerRow
      BY Rows DEF LedgerInv
    <3>2. t \in Tasks
      BY <1>2, <3>1 DEF LosesTask, WorkerRow
    <3> QED
      BY <1>2, <3>1, <3>2, ShapeAssumption, Rows DEF LosesTask
  <2> HIDE DEF t
  <2>2. /\ g \in Database /\ g.run = d.run /\ g.fan = d.fan /\ g.recon = d.recon
        /\ g.wk = d.wk /\ g.task[t].state = "failed"
        /\ \A u \in Tasks \ {t} : g.task[u] = d.task[u]
    BY <2>1 DEF Database, TaskRow, TaskTerminal
  <2> HIDE DEF g
  <2>3. TaskChange(d, t, g)
    BY <2>1, <2>2 DEF TaskChange
  <2>4. LedgerInv(g)
    BY <2>1, <2>2, <2>3, TaskChangeKeeps DEF TaskActive, TaskTerminal
  <2>5. \A r \in Runs : SteadyRun(d, g, r)
    BY <2>2 DEF SteadyRun, GoneIn
  <2>6. \A u \in Tasks : g.task[u].state = "claimed" =>
          /\ d.task[u].state = "claimed" /\ g.task[u].worker = d.task[u].worker
          /\ g.fan[RunOf[u]].state = "downloading"
    BY <2>2 DEF Agreed, Leased
  <2>7. Steady(d, g)
    BY <2>2, <2>5, <2>6, RowsKeptSteady
  <2>8. Agreed(g, S)
    BY <2>7, SteadyAgrees
  <2>9. {RunOf[t]} \in SUBSET Runs /\ "failed" \in TerminalStatus /\ FALSE \in BOOLEAN
    BY <2>1 DEF TerminalStatus
  <2>10. Agreed(e, S) /\ e.wk = g.wk
    BY <2>4, <2>8, <2>9, AbortAgrees
  <2>11. Keeps(g, e)
    BY <2>4, <2>9, AbortKeeps
  <2>12. RecoverTask(d, w) = e
    BY <1>2 DEF RecoverTask, t, g
  <2> HIDE DEF e
  <2>13. e.task[t].state = "failed"
    BY <2>1, <2>2, <2>11 DEF Keeps, TaskTerminal
  <2>14. ~LosesTask(e, w)
    BY <2>1, <2>2, <2>10, <2>13 DEF LosesTask, TaskActive
  <2> QED
    BY <2>2, <2>10, <2>12, <2>14
<1> QED
  BY <1>1, <1>2

\* ... and the bundle of the row's run, whose coordinator is gone from then on.
LEMMA RecoverBundleAgrees ==
  ASSUME NEW d, LedgerInv(d), NEW S, Agreed(d, S), NEW w \in Workers, ~LosesTask(d, w)
  PROVE  LET e == RecoverBundle(d, w) IN Agreed(e, S) /\ Narrow(d, e) /\ ~LosesTask(e, w)
<1> DEFINE r == d.wk[w].run
           g == Abort(d, {r}, "failed", TRUE)
           e == [g EXCEPT !.wk[w].run = NoRun]
<1>1. CASE ~LosesBundle(d, w)
  BY <1>1 DEF RecoverBundle, Narrow
<1>2. CASE LosesBundle(d, w)
  <2>1. d \in Database /\ d.wk[w] \in WorkerRow
    BY Rows DEF LedgerInv
  <2>2. r \in Runs /\ Abortable(d, r) /\ d.wk[w].run = r
    BY <1>2, <2>1 DEF LosesBundle, WorkerRow, Abortable
  <2> HIDE DEF r
  <2>3. {r} \in SUBSET Runs /\ "failed" \in TerminalStatus /\ TRUE \in BOOLEAN
    BY <2>2 DEF TerminalStatus
  <2>4. LedgerInv(g) /\ Quiet(d, g)
    BY <2>3, AbortKeeps
  <2>5. Agreed(g, S) /\ g.wk = d.wk /\ GoneIn(g, r)
    BY <2>2, <2>3, AbortOneAgrees
  <2> HIDE DEF g
  <2>6. Agreed(e, S) /\ Narrow(g, e)
    BY <2>2, <2>4, <2>5, UnassignAgrees DEF Excused
  <2>7. Narrow(d, e)
    BY <2>5, <2>6 DEF Narrow
  <2>8. e.wk[w].task = g.wk[w].task /\ e.task = g.task
    <3>1. g \in Database /\ g.wk[w] \in WorkerRow
      BY <2>4, Rows DEF LedgerInv
    <3>2. e.wk[w] = [g.wk[w] EXCEPT !.run = NoRun] /\ e.task = g.task
      BY <3>1 DEF Database
    <3> HIDE DEF e
    <3> QED
      BY <3>1, <3>2 DEF WorkerRow
  <2>9. d.wk[w].task \in Tasks \cup {NoTask}
    BY <2>1 DEF WorkerRow
  <2>10. RecoverBundle(d, w) = e
    BY <1>2 DEF RecoverBundle, r, g
  <2> HIDE DEF e
  <2>11. ~LosesTask(e, w)
    BY <2>4, <2>5, <2>8, <2>9 DEF LosesTask, Quiet
  <2> QED
    BY <2>6, <2>7, <2>10, <2>11
<1> QED
  BY <1>1, <1>2

\* recover_worker as a whole; the row's run stays or goes, nothing else comes.
LEMMA RecoverWorkerAgrees ==
  ASSUME NEW d, LedgerInv(d), NEW S, Agreed(d, S), NEW w \in Workers
  PROVE  Agreed(RecoverWorker(d, w), S) /\ Narrow(d, RecoverWorker(d, w))
<1> DEFINE a == RecoverTask(d, w)
           b == RecoverBundle(a, w)
           c == [b EXCEPT !.wk[w].task = NoTask, !.wk[w].fence = 0]
<1>1. LedgerInv(a) /\ Agreed(a, S) /\ a.wk = d.wk /\ ~LosesTask(a, w)
  BY RecoverTaskKeeps, RecoverTaskAgrees
<1> HIDE DEF a
<1>2. LedgerInv(b) /\ Agreed(b, S) /\ Narrow(a, b) /\ ~LosesTask(b, w)
  BY <1>1, RecoverBundleKeeps, RecoverBundleAgrees
<1> HIDE DEF b
<1>3. LedgerInv(c) /\ Agreed(c, S) /\ Narrow(b, c)
  BY <1>2, UnassignTask, UnassignTaskAgrees DEF WorkerUpdate
<1> HIDE DEF c
<1>4. Agreed(Reap(c), S) /\ Narrow(c, Reap(c))
  BY <1>3, ReapAgrees
<1>5. Narrow(d, b)
  BY <1>1, <1>2 DEF Narrow
<1>6. Narrow(d, c)
  BY <1>3, <1>5, NarrowCompose
<1>7. Narrow(d, Reap(c))
  BY <1>4, <1>6, NarrowCompose
<1>8. RecoverWorker(d, w) = Reap(c)
  BY DEF RecoverWorker, a, b, c
<1> QED
  BY <1>4, <1>7, <1>8

\* register_worker's fallback ends the row's former run if it never fanned out.
LEMMA InterruptRunAgrees ==
  ASSUME NEW d, LedgerInv(d), NEW S, Agreed(d, S), NEW before \in Database, Quiet(before, d),
         Narrow(before, d), NEW w \in Workers
  PROVE  Agreed(InterruptRun(d, before, w), S)
<1> DEFINE r == before.wk[w].run
           status == IF d.run[r].status \in RunTerminal THEN d.run[r].status ELSE "failed"
           row == [d.run[r] EXCEPT !.status = status]
           wk == [d.wk EXCEPT ![w].run = NoRun]
           e == RewriteRun(d, r, row, d.fan[r], wk, d.recon)
<1>1. CASE r = NoRun \/ before.fan[r].state # "none"
  BY <1>1 DEF InterruptRun
<1>2. CASE r # NoRun /\ before.fan[r].state = "none"
  <2>1. d \in Database /\ before.wk[w] \in WorkerRow
    BY Rows DEF LedgerInv
  <2>2. r \in Runs /\ d.wk[w].run \in {r, NoRun}
    BY <1>2, <2>1 DEF WorkerRow, Narrow
  <2>3. InterruptRun(d, before, w) = e
    BY <1>2, <2>1, <2>2 DEF InterruptRun, RewriteRun, Database
  <2> HIDE DEF r
  <2>4. d.run[r] \in RunRow /\ d.fan[r] \in FanRow /\ d.recon \in [Flows -> BOOLEAN]
        /\ d.wk \in [Workers -> WorkerRow]
    BY <2>1, <2>2 DEF Database
  <2>5. status \in RunTerminal
    BY DEF RunTerminal
  <2> HIDE DEF status
  <2>6. row \in RunRow /\ row.status \in RunTerminal /\ row.worker = d.run[r].worker
    BY <2>4, <2>5 DEF RunRow
  <2>7. wk \in [Workers -> WorkerRow]
    BY <2>1, NoRunFor
  <2>8. ASSUME NEW v \in Workers PROVE LosesRun(d, r, wk, v)
    <3>1. CASE v # w
      BY <2>4, <3>1 DEF LosesRun
    <3>2. CASE v = w
      <4>1. wk[v] = [d.wk[v] EXCEPT !.run = NoRun]
        BY <2>4, <3>2
      <4>2. \A q \in Runs \ {r} : d.wk[v].run # q
        BY <2>2, <3>2, NullAssumption
      <4> QED
        BY <4>1, <4>2 DEF LosesRun
    <3> QED
      BY <3>1, <3>2
  <2> HIDE DEF row, wk
  <2>9. Agreed(e, S)
    BY <2>2, <2>4, <2>6, <2>7, <2>8, EndedRunAgrees
  <2> QED
    BY <2>3, <2>9
<1> QED
  BY <1>1, <1>2

\* A refused append fences its flow and changes nothing else.
LEMMA ReportFailedAgrees ==
  ASSUME NEW d, LedgerInv(d), NEW S, Agreed(d, S), NEW w \in Workers, NEW r \in Runs,
         d.run[r].worker = w, d.run[r].status \in RunActive,
         \A t \in TasksOf(r) : d.task[t].state # "claimed"
  PROVE  Agreed(EndRun(RaiseUncertain(d, r), w, r, "failed"), S)
<1> DEFINE a == EndRun(d, w, r, "failed")
           e == EndRun(RaiseUncertain(d, r), w, r, "failed")
<1>1. Agreed(a, S)
  BY EndRunAgrees
<1>2. d \in Database
  BY DEF LedgerInv
<1>3. e.run = a.run /\ e.fan = a.fan /\ e.task = a.task /\ e.wk = a.wk
  BY <1>2 DEF EndRun, RaiseUncertain, Database
<1> HIDE DEF a, e
<1>4. Agreed(e, S)
  BY <1>1, <1>3, StatusAgrees
<1> QED
  BY <1>4 DEF e

\* report_task: a result under a live lease ends the task ...
LEMMA FinishTaskAgrees ==
  ASSUME NEW d, LedgerInv(d), NEW S, Agreed(d, S), NEW w \in Workers, NEW t \in Tasks,
         NEW status \in TaskTerminal, LeaseAccepts(d, w, t)
  PROVE  Agreed(FinishTask(d, w, t, status), S)
<1> DEFINE task == IF d.wk[w].task = t THEN NoTask ELSE d.wk[w].task
           e == FinishTask(d, w, t, status)
<1>1. d \in Database /\ d.task[t] \in TaskRow /\ d.wk[w] \in WorkerRow
  BY Rows DEF LedgerInv
<1>2. /\ e.run = d.run /\ e.fan = d.fan
      /\ e.task[t] = [d.task[t] EXCEPT !.state = status]
      /\ \A u \in Tasks \ {t} : e.task[u] = d.task[u]
      /\ e.wk[w] = [d.wk[w] EXCEPT !.task = task]
      /\ \A v \in Workers \ {w} : e.wk[v] = d.wk[v]
  BY <1>1 DEF FinishTask, Database
<1> HIDE DEF task, e
<1>3. e.task[t].state = status
  BY <1>1, <1>2 DEF TaskRow
<1>4. /\ e.wk[w].run = d.wk[w].run /\ e.wk[w].task = task
      /\ e.wk[w].pid = d.wk[w].pid /\ e.wk[w].fence = d.wk[w].fence
  BY <1>1, <1>2 DEF WorkerRow
<1>5. \A v \in Workers : SteadyWorker(d, e, v)
  BY <1>2, <1>4 DEF SteadyWorker, task
<1>6. \A r \in Runs : SteadyRun(d, e, r)
  BY <1>2 DEF SteadyRun, GoneIn
<1>7. ASSUME NEW u \in Tasks, e.task[u].state = "claimed"
      PROVE  /\ d.task[u].state = "claimed" /\ e.task[u] = d.task[u]
             /\ e.wk[d.task[u].worker].task = d.wk[d.task[u].worker].task
  <2>1. u # t
    BY <1>3, <1>7 DEF TaskTerminal
  <2>2. d.task[u].state = "claimed" /\ e.task[u] = d.task[u]
    BY <1>2, <1>7, <2>1
  <2>3. d.task[u].worker \in Workers /\ d.wk[d.task[u].worker].task = u
    BY <2>2 DEF Agreed, Leased
  <2> QED
    BY <1>2, <1>4, <2>1, <2>2, <2>3 DEF task
<1>8. \A u \in Tasks : SteadyTask(d, e, u)
  BY <1>2, <1>7 DEF SteadyTask, Agreed, Leased
<1>9. Steady(d, e)
  BY <1>5, <1>6, <1>8 DEF Steady
<1> QED
  BY <1>9, SteadyAgrees DEF e

\* ... an acknowledged cancellation drains it and lifts the latch ...
LEMMA AckCancelledAgrees ==
  ASSUME NEW d, LedgerInv(d), NEW S, Agreed(d, S), NEW w \in Workers, NEW t \in Tasks,
         d.task[t].state = "cancelling"
  PROVE  Agreed(AckCancelled(d, w, t), S)
<1> DEFINE row == [d.task[t] EXCEPT !.state = "cancelled"]
           g == RewriteTask(d, t, row, d.wk)
<1>1. d \in Database /\ d.task[t] \in TaskRow /\ d.wk \in [Workers -> WorkerRow]
  BY DEF LedgerInv, Database
<1>2. [d EXCEPT !.task[t].state = "cancelled"] = g
  BY <1>1 DEF RewriteTask, Database
<1>3. AckCancelled(d, w, t) = ReleaseWorker(g, w, t)
  BY <1>2 DEF AckCancelled
<1>4. row \in TaskRow /\ row.state = "cancelled"
  BY <1>1 DEF TaskRow, TaskTerminal
<1> HIDE DEF row
<1>5. TaskChange(d, t, g) /\ g.task[t] = row
  BY <1>1, <1>4, TaskRewrite
<1>6. g.run = d.run /\ g.fan = d.fan /\ g.wk = d.wk /\ g.task = [d.task EXCEPT ![t] = row]
  BY <1>1 DEF RewriteTask, Database
<1> HIDE DEF g
<1>7. LedgerInv(g)
  BY <1>4, <1>5, TaskChangeKeeps DEF TaskTerminal, TaskActive
<1>8. \A r \in Runs : SteadyRun(d, g, r)
  BY <1>6 DEF SteadyRun, GoneIn
<1>9. \A u \in Tasks : g.task[u].state = "claimed" => u # t /\ g.task[u] = d.task[u]
  BY <1>1, <1>4, <1>6 DEF Database
<1>10. \A u \in Tasks : g.task[u].state = "claimed" =>
         /\ d.task[u].state = "claimed" /\ g.task[u].worker = d.task[u].worker
         /\ g.fan[RunOf[u]].state = "downloading"
  BY <1>6, <1>9 DEF Agreed, Leased
<1>. g.wk = d.wk
  BY <1>6
<1>11. Steady(d, g)
  BY <1>8, <1>10, RowsKeptSteady
<1>12. Agreed(g, S)
  BY <1>11, SteadyAgrees
<1>13. CASE g.wk[w].task # t
  BY <1>3, <1>12, <1>13 DEF ReleaseWorker
<1>14. CASE g.wk[w].task = t
  <2>1. ~LosesTask(g, w)
    BY <1>4, <1>5, <1>14 DEF LosesTask, TaskActive
  <2>2. Agreed([g EXCEPT !.wk[w].task = NoTask, !.wk[w].fence = 0], S)
    BY <1>7, <1>12, <2>1, UnassignTaskAgrees
  <2> QED
    BY <1>3, <1>14, <2>2 DEF ReleaseWorker
<1> QED
  BY <1>13, <1>14

\* ... and a failed export takes its bundle with it.
LEMMA TaskReportedAgrees ==
  ASSUME NEW d, LedgerInv(d), NEW S, Agreed(d, S), NEW w \in Workers, NEW t \in Tasks,
         NEW status \in TaskTerminal
  PROVE  Agreed(TaskReported(d, w, t, status), S)
<1> DEFINE e == TaskReported(d, w, t, status)
           g == FinishTask(d, w, t, status)
           Ack == status = "cancelled" /\ d.task[t].state = "cancelling"
<1>1. CASE Ack
  <2>1. e = AckCancelled(d, w, t)
    BY <1>1 DEF TaskReported, LeaseAccepts
  <2> QED
    BY <1>1, <2>1, AckCancelledAgrees
<1>2. CASE ~Ack /\ LeaseAccepts(d, w, t) /\ status = "succeeded"
  <2>1. e = g
    BY <1>2 DEF TaskReported
  <2> QED
    BY <1>2, <2>1, FinishTaskAgrees
<1>3. CASE ~Ack /\ LeaseAccepts(d, w, t) /\ status # "succeeded"
  <2>1. e = Abort(g, {RunOf[t]}, "failed", FALSE)
    BY <1>3 DEF TaskReported
  <2>2. LedgerInv(g) /\ Agreed(g, S)
    BY <1>3, FinishTaskKeeps, FinishTaskAgrees
  <2>3. RunOf[t] \in Runs /\ "failed" \in TerminalStatus /\ FALSE \in BOOLEAN
    BY ShapeAssumption DEF TerminalStatus
  <2> HIDE DEF e, g
  <2>4. Agreed(e, S)
    BY <2>1, <2>2, <2>3, AbortOneAgrees
  <2> QED
    BY <2>4 DEF e
<1>4. CASE ~Ack /\ ~LeaseAccepts(d, w, t)
  BY <1>4 DEF TaskReported
<1> QED
  BY <1>1, <1>2, <1>3, <1>4

\* claim_finalizer finds no lease of its run.
LEMMA ClaimFinalizerAgrees ==
  ASSUME NEW d, LedgerInv(d), NEW S, Agreed(d, S), NEW w \in Workers, NEW r \in Runs,
         Finalizable(d, w, r)
  PROVE  Agreed([d EXCEPT !.fan[r].state = "finalizing"], S)
<1> DEFINE e == [d EXCEPT !.fan[r].state = "finalizing"]
<1>1. d \in Database /\ d.fan \in [Runs -> FanRow] /\ d.fan[r] \in FanRow
  BY DEF LedgerInv, Database
<1>2. /\ e.run = d.run /\ e.task = d.task /\ e.wk = d.wk
      /\ e.fan = [d.fan EXCEPT ![r].state = "finalizing"]
  BY <1>1 DEF Database
<1> HIDE DEF e
<1>3. /\ e.fan[r].state = "finalizing" /\ e.fan[r].stopped = d.fan[r].stopped
      /\ \A q \in Runs \ {r} : e.fan[q] = d.fan[q]
  BY <1>1, <1>2 DEF FanRow
<1>4. d.fan[r].state \in {"downloading", "finalizing"} /\ AllSucceeded(d, r)
  BY DEF Finalizable
<1>5. SteadyRun(d, e, r)
  BY <1>2, <1>3, <1>4 DEF SteadyRun, GoneIn, Ending
<1>6. \A t \in TasksOf(r) : d.task[t].state # "claimed"
  BY <1>4 DEF AllSucceeded
<1>7. \A q \in Runs \ {r} : e.run[q] = d.run[q] /\ e.fan[q] = d.fan[q]
  BY <1>2, <1>3
<1>8. \A v \in Workers : SteadyWorker(d, e, v) /\ e.wk[v].task = d.wk[v].task
  BY <1>2 DEF SteadyWorker
<1>9. e.task = d.task
  BY <1>2
<1>10. Steady(d, e)
  BY <1>5, <1>6, <1>7, <1>8, <1>9, OneRunSteady
<1> QED
  BY <1>10, SteadyAgrees DEF e

\* initialize: a matrix appears with nothing leased.
LEMMA InitializeAgrees ==
  ASSUME NEW d, LedgerInv(d), NEW S, Agreed(d, S), NEW w \in Workers, NEW r \in Runs, NEW done,
         Owner(d, w, r), d.fan[r].state = "none"
  PROVE  Agreed(Initialized(d, w, r, done), S)
<1> DEFINE e == Initialized(d, w, r, done)
<1>1. /\ d \in Database /\ d.run \in [Runs -> RunRow] /\ d.fan \in [Runs -> FanRow]
      /\ d.run[r] \in RunRow /\ d.fan[r] \in FanRow /\ \A t \in Tasks : d.task[t] \in TaskRow
  BY Rows DEF LedgerInv, Database
<1>2. /\ e.run = [d.run EXCEPT ![r].status = "running"]
      /\ e.fan = [d.fan EXCEPT ![r].state = "downloading", ![r].coordinator = w]
      /\ e.wk = d.wk
      /\ e.task = [t \in Tasks |-> IF RunOf[t] # r THEN d.task[t] ELSE
               [d.task[t] EXCEPT !.state = IF t \in done THEN "succeeded" ELSE "queued"]]
  BY ZenonT(60), <1>1 DEF Initialized, Database
<1> HIDE DEF e
<1>3. /\ e.run[r].worker = d.run[r].worker /\ e.fan[r].stopped = d.fan[r].stopped
      /\ \A q \in Runs : q # r => e.run[q] = d.run[q] /\ e.fan[q] = d.fan[q]
  BY <1>1, <1>2 DEF RunRow, FanRow
<1>4. d.run[r].status \in RunActive
  BY DEF Owner
<1>5. ASSUME NEW q \in Runs PROVE SteadyRun(d, e, q)
  <2>1. CASE q = r
    BY <1>2, <1>1, <1>3, <1>4, <2>1 DEF SteadyRun, GoneIn, Ending, Waiting, RunRow
  <2>2. CASE q # r
    BY <1>3, <2>2 DEF SteadyRun, GoneIn
  <2> QED
    BY <2>1, <2>2
<1>6. ASSUME NEW t \in Tasks, e.task[t].state = "claimed"
      PROVE  RunOf[t] # r /\ e.task[t] = d.task[t]
  <2>1. CASE RunOf[t] = r
    <3> DEFINE state == IF t \in done THEN "succeeded" ELSE "queued"
    <3>1. e.task[t] = [d.task[t] EXCEPT !.state = state] /\ state \in {"succeeded", "queued"}
      BY <1>2, <2>1
    <3> HIDE DEF state
    <3>2. d.task[t] \in TaskRow
      BY <1>1
    <3>3. e.task[t].state = state
      BY <3>1, <3>2 DEF TaskRow
    <3> QED
      BY <1>6, <3>1, <3>3
  <2>2. CASE RunOf[t] # r
    BY <1>2, <2>2
  <2> QED
    BY <2>1, <2>2
<1>7. \A t \in Tasks : e.task[t].state = "claimed" =>
        /\ d.task[t].state = "claimed" /\ e.task[t].worker = d.task[t].worker
        /\ e.fan[RunOf[t]].state = "downloading"
  BY <1>3, <1>6, ShapeAssumption DEF Agreed, Leased
<1>. e.wk = d.wk
  BY <1>2
<1>8. Steady(d, e)
  BY <1>5, <1>7, RowsKeptSteady
<1> QED
  BY <1>8, SteadyAgrees DEF e

\* The settlement of a stop: only latched workers lose their assignment, and
\* a coordinator is known to be gone only in a bundle that aborts.
LEMMA SettleAgrees ==
  ASSUME NEW d, LedgerInv(d), NEW S, Agreed(d, S), NEW k, NEW r \in Runs, r \in S,
         \A w \in Workers : Confirmed(stop[<<k, r>>].tg[w]) =>
           stop[<<k, r>>].tg[w].pid \in Nat \ {0}
  PROVE  Agreed(Settle(d, k, r), S)
<1> DEFINE tg == stop[<<k, r>>].tg
           Done == {w \in Workers : Confirmed(tg[w])}
           Over(t) == d.task[t].state = "cancelling"
                        /\ \E w \in Done : tg[w].task = t /\ d.task[t].worker = w
           halted == d.fan[r].stopped \/ (k = "user" /\ d.fan[r].coordinator \in Done)
           e == Settle(d, k, r)
<1>1. /\ d \in Database /\ d.fan \in [Runs -> FanRow] /\ d.fan[r] \in FanRow
      /\ \A t \in Tasks : d.task[t] \in TaskRow
      /\ \A w \in Workers : d.wk[w] \in WorkerRow
  BY Rows DEF LedgerInv, Database
<1>2. /\ e.run = d.run
      /\ e.task = [t \in Tasks |->
                     IF Over(t) THEN [d.task[t] EXCEPT !.state = "cancelled"] ELSE d.task[t]]
      /\ e.wk = [w \in Workers |->
                   IF w \in Done /\ d.wk[w].fence = tg[w].pid
                   THEN [d.wk[w] EXCEPT !.task = NoTask, !.fence = 0] ELSE d.wk[w]]
      /\ e.fan = [d.fan EXCEPT ![r].stopped = halted]
  BY <1>1 DEF Settle, Database
<1>3. halted \in BOOLEAN /\ d.fan[r].stopped \in BOOLEAN
  BY <1>1 DEF FanRow
<1>4. \A w \in Done : w \in Workers /\ tg[w].pid \in Nat \ {0}
  OBVIOUS
<1> HIDE DEF e, Done, Over
<1>5. /\ e.fan[r].state = d.fan[r].state /\ e.fan[r].stopped = halted
      /\ \A q \in Runs \ {r} : e.fan[q] = d.fan[q]
  <2> HIDE DEF halted
  <2> QED
    BY <1>1, <1>2, <1>3 DEF FanRow
<1>6. ASSUME NEW q \in Runs PROVE SteadyRun(d, e, q)
  <2>1. CASE q = r
    <3>1. d.fan[r].state \in Ending
      BY DEF Agreed
    <3> QED
      BY <1>2, <1>3, <1>5, <2>1, <3>1 DEF SteadyRun, GoneIn
  <2>2. CASE q # r
    BY <1>2, <1>5, <2>2 DEF SteadyRun, GoneIn
  <2> QED
    BY <2>1, <2>2
<1>7. ASSUME NEW w \in Workers
      PROVE  /\ SteadyWorker(d, e, w)
             /\ e.wk[w] = d.wk[w] \/ d.wk[w].fence # 0
  <2>1. CASE w \in Done /\ d.wk[w].fence = tg[w].pid
    <3>1. e.wk[w] = [[d.wk[w] EXCEPT !.task = NoTask] EXCEPT !.fence = 0]
      BY <1>2, <2>1
    <3>2. /\ e.wk[w].task = NoTask /\ e.wk[w].fence = 0
          /\ e.wk[w].run = d.wk[w].run /\ e.wk[w].pid = d.wk[w].pid
      BY <1>1, <3>1 DEF WorkerRow
    <3>3. d.wk[w].fence # 0
      BY <1>4, <2>1
    <3> QED
      BY <3>2, <3>3 DEF SteadyWorker
  <2>2. CASE ~(w \in Done /\ d.wk[w].fence = tg[w].pid)
    BY <1>2, <2>2 DEF SteadyWorker
  <2> QED
    BY <2>1, <2>2
<1>8. ASSUME NEW t \in Tasks, e.task[t].state = "claimed" PROVE e.task[t] = d.task[t]
  <2>1. CASE Over(t)
    <3>1. e.task[t] = [d.task[t] EXCEPT !.state = "cancelled"]
      BY <1>2, <2>1
    <3> QED
      BY <1>1, <1>8, <3>1 DEF TaskRow
  <2>2. CASE ~Over(t)
    BY <1>2, <2>2
  <2> QED
    BY <2>1, <2>2
<1>9. ASSUME NEW t \in Tasks PROVE SteadyTask(d, e, t)
  <2> SUFFICES ASSUME e.task[t].state = "claimed"
               PROVE  /\ d.task[t].state = "claimed" /\ e.task[t].worker = d.task[t].worker
                      /\ e.wk[e.task[t].worker].task = d.wk[e.task[t].worker].task
                      /\ e.fan[RunOf[t]].state = "downloading"
    BY DEF SteadyTask
  <2>1. e.task[t] = d.task[t] /\ Leased(d, t) /\ RunOf[t] \in Runs
    BY <1>8, ShapeAssumption DEF Agreed
  <2>2. e.fan[RunOf[t]].state = "downloading"
    BY <1>5, <2>1 DEF Leased
  <2>3. e.wk[d.task[t].worker] = d.wk[d.task[t].worker]
    BY <1>7, <2>1 DEF Leased
  <2> QED
    BY <2>1, <2>2, <2>3
<1>10. Steady(d, e)
  BY <1>6, <1>7, <1>9 DEF Steady
<1> QED
  BY <1>10, SteadyAgrees DEF e

\* A worker with no run under way loses its current run.
LEMMA RunIdleAgrees ==
  ASSUME NEW d, LedgerInv(d), NEW S, Agreed(d, S), NEW w \in Workers, ~HoldsRun(d, w)
  PROVE  Agreed(RunIdle(d, w), S)
<1>1. \A r \in Runs : d.wk[w].run = r => d.run[r].status \notin RunActive
  <2>1. d \in Database
    BY DEF LedgerInv
  <2>2. \A r \in Runs : r # NoRun
    BY NullAssumption
  <2> QED
    BY <2>2 DEF HoldsRun, RunActive, RunTerminal
<1>2. Agreed([d EXCEPT !.wk[w].run = NoRun], S)
  BY <1>1, UnassignAgrees
<1> QED
  BY <1>2 DEF RunIdle

\* claim_run: a worker without run, lease and latch takes a queued run.
LEMMA AssignRunAgrees ==
  ASSUME NEW d, LedgerInv(d), NEW S, Agreed(d, S), NEW w \in Workers, d.wk[w].pid # 0,
         NeedsRun(d, w), NEW r \in RunOffers(d, w)
  PROVE  Agreed(AssignRun(d, w, r), S)
<1> DEFINE e == AssignRun(d, w, r)
<1>1. /\ d \in Database /\ d.run \in [Runs -> RunRow] /\ d.wk[w] \in WorkerRow
      /\ r \in Runs /\ d.run[r] \in RunRow /\ d.run[r].status = "queued"
  BY Rows DEF LedgerInv, Database, RunOffers
<1>2. /\ e.fan = d.fan /\ e.task = d.task
      /\ e.run[r] = [[d.run[r] EXCEPT !.status = "claimed"] EXCEPT !.worker = w]
      /\ \A q \in Runs \ {r} : e.run[q] = d.run[q]
      /\ e.wk[w] = [d.wk[w] EXCEPT !.run = r]
      /\ \A v \in Workers \ {w} : e.wk[v] = d.wk[v]
  BY ZenonT(60), <1>1 DEF AssignRun, Database
<1> HIDE DEF e
<1>3. /\ e.wk[w].run = r /\ e.wk[w].task = d.wk[w].task
      /\ e.wk[w].pid = d.wk[w].pid /\ e.wk[w].fence = d.wk[w].fence
  BY <1>1, <1>2 DEF WorkerRow
<1>4. e.run[r].status = "claimed" /\ e.run[r].worker = w
  BY <1>1, <1>2 DEF RunRow
<1>5. d.run[r].worker = NoWorker
  BY <1>1 DEF Agreed, Waiting
<1>6. ASSUME NEW q \in Runs \ {r}, d.run[q].worker \in Workers, Excused(d, q) PROVE Excused(e, q)
  <2>1. CASE GoneIn(d, q)
    BY <1>2, <2>1 DEF GoneIn, Excused
  <2>2. CASE DisplacedIn(d, q)
    <3>1. PICK p \in Runs \ {q} : d.run[p].worker = d.run[q].worker /\ d.fan[p].stopped
      BY <2>2 DEF DisplacedIn
    <3>2. p # r
      BY <1>5, <1>6, <3>1, NullAssumption
    <3> QED
      BY <1>2, <3>1, <3>2 DEF Excused, DisplacedIn
  <2> QED
    BY <1>6, <2>1, <2>2 DEF Excused
<1>7. ASSUME NEW q \in Runs, e.run[q].status \in RunActive
      PROVE  e.run[q].worker \in Workers /\ (Excused(e, q) \/ e.wk[e.run[q].worker].run = q)
  <2>1. CASE q = r
    BY <1>3, <1>4, <2>1
  <2>2. CASE q # r
    <3>1. /\ e.run[q] = d.run[q] /\ d.run[q].status \in RunActive
          /\ d.run[q].worker \in Workers /\ (Excused(d, q) \/ d.wk[d.run[q].worker].run = q)
      BY <1>2, <1>7, <2>2 DEF Agreed
    <3>2. CASE Excused(d, q)
      BY <1>6, <2>2, <3>1, <3>2
    <3>3. CASE d.wk[d.run[q].worker].run = q
      <4>1. d.run[q].worker # w
        BY <3>1, <3>3, NullAssumption DEF NeedsRun, HoldsRun, RunActive, RunTerminal
      <4> QED
        BY <1>2, <3>1, <3>3, <4>1
    <3> QED
      BY <3>1, <3>2, <3>3
  <2> QED
    BY <2>1, <2>2
<1>8. ASSUME NEW t \in Tasks, d.task[t].state = "claimed" PROVE Leased(e, t)
  <2>1. Leased(d, t) /\ t # NoTask
    BY <1>8, NullAssumption DEF Agreed
  <2>2. d.task[t].worker # w
    BY <2>1 DEF Leased, NeedsRun
  <2> QED
    BY <1>2, <2>1, <2>2 DEF Leased
<1>9. \A v \in Workers : e.wk[v].pid = 0 => e.wk[v].run = NoRun /\ e.wk[v].task = NoTask
  BY <1>2, <1>3 DEF Agreed
<1>10. \A q \in Runs : e.run[q].status \in Waiting => e.run[q].worker = NoWorker
  BY <1>2, <1>4 DEF Agreed, Waiting
<1>11. Agreed(e, S)
  BY <1>2, <1>7, <1>8, <1>9, <1>10 DEF Agreed
<1> QED
  BY <1>11 DEF e

-----------------------------------------------------------------------------
(* The actions again.  A run is being stopped while a stop procedure has    *)
(* aborted its bundle and not yet settled; whatever a procedure targets,    *)
(* and every process that is up, has a process id.                          *)

StopsOf(procedures) ==
  {r \in Runs : \E key \in StopKeys :
     key[2] = r /\ procedures[key].phase \in {"fencing", "stopping"}}
TargetsKnown(procedures) ==
  \A key \in StopKeys, w \in Workers :
    procedures[key].phase = "stopping" /\ procedures[key].tg[w].res # "none" =>
      procedures[key].tg[w].pid \in Nat \ {0}
Assigned == Agreed(db, StopsOf(stop)) /\ TargetsKnown(stop) /\ PidsKnown(proc)

\* A process row that is replaced by one with a process id, or by a dead one.
LEMMA PidKnown ==
  ASSUME PidsKnown(proc), proc \in [Workers -> ProcRow], NEW w \in Workers, NEW row,
         proc' = [proc EXCEPT ![w] = row], row.up => row.pid \in Nat \ {0}
  PROVE  PidsKnown(proc')
<1>1. ASSUME NEW v \in Workers, proc'[v].up PROVE proc'[v].pid \in Nat \ {0}
  BY <1>1 DEF PidsKnown
<1> QED
  BY <1>1 DEF PidsKnown

\* A process that is up keeps its id, whatever else changes in its row.
LEMMA PidKept ==
  ASSUME PidsKnown(proc), proc \in [Workers -> ProcRow], NEW w \in Workers, NEW exec, NEW token,
         \/ proc' = [proc EXCEPT ![w].exec = exec]
         \/ proc' = [proc EXCEPT ![w].token = token]
         \/ proc' = Killed(w)
  PROVE  PidsKnown(proc')
<1>1. proc[w] \in ProcRow
  OBVIOUS
<1>2. CASE proc' = [proc EXCEPT ![w].exec = exec]
  <2> DEFINE row == [proc[w] EXCEPT !.exec = exec]
  <2>1. row.up = proc[w].up /\ row.pid = proc[w].pid
    BY <1>1 DEF ProcRow
  <2>2. proc' = [proc EXCEPT ![w] = row]
    BY <1>2
  <2> HIDE DEF row
  <2>3. row.up => row.pid \in Nat \ {0}
    BY <2>1 DEF PidsKnown
  <2> QED
    BY <2>2, <2>3, PidKnown
<1>3. CASE proc' = [proc EXCEPT ![w].token = token]
  <2> DEFINE row == [proc[w] EXCEPT !.token = token]
  <2>1. row.up = proc[w].up /\ row.pid = proc[w].pid
    BY <1>1 DEF ProcRow
  <2>2. proc' = [proc EXCEPT ![w] = row]
    BY <1>3
  <2> HIDE DEF row
  <2>3. row.up => row.pid \in Nat \ {0}
    BY <2>1 DEF PidsKnown
  <2> QED
    BY <2>2, <2>3, PidKnown
<1>4. CASE proc' = Killed(w)
  <2> DEFINE row == [proc[w] EXCEPT !.up = FALSE, !.exec = NoTask, !.token = NoRun]
  <2>1. row.up = FALSE
    BY <1>1 DEF ProcRow
  <2>2. proc' = [proc EXCEPT ![w] = row]
    BY <1>4 DEF Killed
  <2> HIDE DEF row
  <2> QED
    BY <2>1, <2>2, PidKnown
<1> QED
  BY <1>2, <1>3, <1>4

\* Every step leaves a process that is up with a process id.
LEMMA PidsStep ==
  ASSUME BundleInv, PidsKnown(proc), Next
  PROVE  PidsKnown(proc')
<1>1. proc \in [Workers -> ProcRow]
  BY DEF BundleInv, TypeOK
<1>2. ASSUME UNCHANGED proc PROVE PidsKnown(proc')
  BY <1>2
<1>3. ASSUME NEW w \in Workers, NEW exec, proc' = [proc EXCEPT ![w].exec = exec]
      PROVE  PidsKnown(proc')
  BY <1>1, <1>3, PidKept
<1>4. ASSUME NEW w \in Workers, NEW token, proc' = [proc EXCEPT ![w].token = token]
      PROVE  PidsKnown(proc')
  BY <1>1, <1>4, PidKept
<1>5. ASSUME NEW w \in Workers, proc' = Killed(w) PROVE PidsKnown(proc')
  BY <1>1, <1>5, PidKept
<1>6. ASSUME NEW w \in Workers, WorkerStep(w) PROVE PidsKnown(proc')
  <2>1. CASE StartProcess(w)
    <3> DEFINE pid == proc[w].pid + 1
               row == [NoProcess EXCEPT !.pid = pid, !.up = TRUE]
    <3>1. pid \in Nat \ {0}
      BY <1>1 DEF ProcRow
    <3>2. proc' = [proc EXCEPT ![w] = row]
      BY <2>1, Zenon DEF StartProcess
    <3> HIDE DEF pid
    <3>3. row.pid = pid
      BY DEF NoProcess
    <3> HIDE DEF row
    <3> QED
      BY <1>1, <3>1, <3>2, <3>3, PidKnown
  <2>2. CASE Crash(w)
    BY <1>5, <2>2 DEF Crash
  <2>3. CASE Unwind(w)
    BY <1>3, <2>3 DEF Unwind
  <2>4. CASE FinalizerUnwinds(w)
    BY <1>4, <2>4 DEF FinalizerUnwinds
  <2>5. CASE ClaimRunTask(w)
    BY <1>3, <2>5 DEF ClaimRunTask, Offer
  <2>6. CASE RegisterWorker(w) \/ ClaimRunHeld(w) \/ ClaimRunNew(w) \/ ClaimRunIdle(w)
    BY <1>2, <2>6 DEF RegisterWorker, ClaimRunHeld, ClaimRunNew, ClaimRunIdle, Nothing
  <2>7. ASSUME NEW t \in Tasks, NEW status \in TaskTerminal, ReportTask(w, t, status)
        PROVE  PidsKnown(proc')
    <3> DEFINE exec == IF proc[w].exec = t THEN NoTask ELSE proc[w].exec
    <3>1. proc' = [proc EXCEPT ![w].exec = exec]
      BY <1>1, <2>7 DEF ReportTask, ProcRow
    <3> HIDE DEF exec
    <3> QED
      BY <1>3, <3>1
  <2> QED
    BY <1>6, <2>1, <2>2, <2>3, <2>4, <2>5, <2>6, <2>7 DEF WorkerStep
<1>7. ASSUME NEW w \in Workers, NEW r \in Runs, CoordinatorStep(w, r) PROVE PidsKnown(proc')
  <2>1. CASE ClaimOwnTask(w, r)
    BY <1>2, <1>3, <2>1 DEF ClaimOwnTask, Nothing, Offer
  <2>2. CASE ClaimFinalizer(w, r) \/ ReportSucceeded(w, r) \/ CoordinatorAbort(w, r)
    BY <1>4, <2>2 DEF ClaimFinalizer, ReportSucceeded, CoordinatorAbort
  <2>3. CASE ReportFailed(w, r)
    <3> DEFINE token == IF proc[w].token = r THEN NoRun ELSE proc[w].token
    <3>1. proc' = [proc EXCEPT ![w].token = token]
      BY <1>1, <2>3 DEF ReportFailed, ProcRow
    <3> HIDE DEF token
    <3> QED
      BY <1>4, <3>1
  <2>4. CASE \/ \E done \in SUBSET (TasksOf(r) \cap Carried) : Initialize(w, r, done)
             \/ Status(w, r) \/ ReportRunning(w, r) \/ ReportSqlInsertion(w, r)
             \/ ReportSqlCommit(w, r) \/ ReportSqlComplete(w, r)
    BY <1>2, <2>4 DEF Initialize, Status, ReportRunning, ReportSqlInsertion, ReportSqlCommit,
                      ReportSqlComplete
  <2> QED
    BY <1>7, <2>1, <2>2, <2>3, <2>4 DEF CoordinatorStep
<1>8. ASSUME NEW key \in StopKeys, StopStep(key[1], key[2]) PROVE PidsKnown(proc')
  <2>1. ASSUME NEW w \in Workers, StopKill(key[1], key[2], w) PROVE PidsKnown(proc')
    BY <1>5, <2>1 DEF StopKill
  <2> QED
    BY <1>2, <1>8, <2>1 DEF StopStep, StopFence, StopFinish, StopCheck, StopFails
<1>9. CASE \/ \E r \in Runs : RunStep(r)
           \/ \E t \in Tasks : LeaseExpires(t)
           \/ \E f \in Flows : AcknowledgeSqlReconciliation(f)
           \/ Watchdog
  BY <1>2, <1>9 DEF RunStep, QueueRun, StopBundle, StopPlain, SqlCommits, DeadlinePasses,
                    FailStaleRun, LeaseExpires, AcknowledgeSqlReconciliation, Watchdog
<1> QED
  BY <1>6, <1>7, <1>8, <1>9 DEF Next

\* One stop procedure moves on: only its own run may come to be stopped.
LEMMA StopMoves ==
  ASSUME TargetsKnown(stop), stop \in [StopKeys -> StopRow], NEW key \in StopKeys, NEW row,
         stop' = [stop EXCEPT ![key] = row],
         row.phase = "stopping" =>
           \A w \in Workers : row.tg[w].res # "none" => row.tg[w].pid \in Nat \ {0}
  PROVE  /\ TargetsKnown(stop')
         /\ StopsOf(stop') \subseteq StopsOf(stop) \cup {key[2]}
         /\ (row.phase \in {"fencing", "stopping"} => stop[key].phase \in {"fencing", "stopping"})
            => StopsOf(stop') \subseteq StopsOf(stop)
<1>1. TargetsKnown(stop')
  <2> SUFFICES ASSUME NEW k \in StopKeys, NEW w \in Workers,
                      stop'[k].phase = "stopping", stop'[k].tg[w].res # "none"
               PROVE  stop'[k].tg[w].pid \in Nat \ {0}
    BY DEF TargetsKnown
  <2>1. CASE k = key
    BY <2>1
  <2>2. CASE k # key
    BY <2>2 DEF TargetsKnown
  <2> QED
    BY <2>1, <2>2
<1>2. \A k \in StopKeys : k # key => stop'[k] = stop[k]
  OBVIOUS
<1>3. stop'[key] = row
  OBVIOUS
<1>4. StopsOf(stop') \subseteq StopsOf(stop) \cup {key[2]}
  BY <1>2 DEF StopsOf
<1>5. ASSUME row.phase \in {"fencing", "stopping"} => stop[key].phase \in {"fencing", "stopping"}
      PROVE  StopsOf(stop') \subseteq StopsOf(stop)
  BY <1>2, <1>3, <1>5 DEF StopsOf
<1> QED
  BY <1>1, <1>4, <1>5

\* A stop procedure begins.
LEMMA StopBegins ==
  ASSUME TargetsKnown(stop), stop \in [StopKeys -> StopRow], NEW key \in StopKeys,
         stop' = [stop EXCEPT ![key].phase = "fencing"]
  PROVE  TargetsKnown(stop') /\ StopsOf(stop') \subseteq StopsOf(stop) \cup {key[2]}
<1> DEFINE row == [stop[key] EXCEPT !.phase = "fencing"]
<1>1. stop[key] \in StopRow
  OBVIOUS
<1>2. row.phase = "fencing"
  BY <1>1 DEF StopRow
<1>3. stop' = [stop EXCEPT ![key] = row]
  OBVIOUS
<1> HIDE DEF row
<1> QED
  BY <1>2, <1>3, StopMoves

\* A stop procedure learns what became of one target.
LEMMA StopLearns ==
  ASSUME TargetsKnown(stop), stop \in [StopKeys -> StopRow], NEW key \in StopKeys,
         NEW w \in Workers, stop[key].tg[w].res # "none", NEW res,
         stop' = [stop EXCEPT ![key].tg[w].res = res]
  PROVE  TargetsKnown(stop') /\ StopsOf(stop') \subseteq StopsOf(stop)
<1> DEFINE target == [stop[key].tg[w] EXCEPT !.res = res]
           tg == [stop[key].tg EXCEPT ![w] = target]
           row == [stop[key] EXCEPT !.tg = tg]
<1>1. stop[key] \in StopRow /\ stop[key].tg \in [Workers -> Target]
  BY DEF StopRow
<1>2. stop[key].tg[w] \in Target
  BY <1>1
<1>3. target.pid = stop[key].tg[w].pid
  BY <1>2 DEF Target
<1>4. stop' = [stop EXCEPT ![key] = row]
  BY <1>1 DEF StopRow
<1> HIDE DEF target
<1>5. tg[w] = target /\ \A v \in Workers : v # w => tg[v] = stop[key].tg[v]
  BY <1>1
<1> HIDE DEF tg
<1>6. row.phase = stop[key].phase /\ row.tg = tg
  BY <1>1 DEF StopRow
<1> HIDE DEF row
<1>7. ASSUME row.phase = "stopping", NEW v \in Workers, row.tg[v].res # "none"
      PROVE  row.tg[v].pid \in Nat \ {0}
  <2>1. stop[key].phase = "stopping"
    BY <1>6, <1>7
  <2>2. CASE v = w
    BY <1>3, <1>5, <1>6, <2>1, <2>2 DEF TargetsKnown
  <2>3. CASE v # w
    BY <1>5, <1>6, <1>7, <2>1, <2>3 DEF TargetsKnown
  <2> QED
    BY <2>2, <2>3
<1> QED
  BY <1>4, <1>6, <1>7, StopMoves

\* Every action of a worker's main thread keeps the assignments.
LEMMA WorkerAssigned ==
  ASSUME BundleInv, Assigned, NEW w \in Workers, WorkerStep(w)
  PROVE  Agreed(db', StopsOf(stop')) /\ TargetsKnown(stop')
<1> DEFINE d == Reap(db)
           S == StopsOf(stop)
           G(e) == Agreed(e, S)
<1>1. /\ LedgerInv(db) /\ db \in Database /\ G(db)
      /\ proc \in [Workers -> ProcRow] /\ PidsKnown(proc) /\ TargetsKnown(stop)
  BY DEF BundleInv, LedgerInv, TypeOK, Assigned
<1>2. stop' = stop
  BY DEF WorkerStep, StartProcess, Crash, RegisterWorker, Unwind, FinalizerUnwinds, ClaimRunTask,
         ClaimRunHeld, ClaimRunNew, ClaimRunIdle, ReportTask
<1>3. LedgerInv(d) /\ G(d) /\ Narrow(db, d)
  BY <1>1, ReapKeeps, ReapAgrees
<1>4. TargetsKnown(stop') /\ StopsOf(stop') = S
  BY <1>1, <1>2
<1> HIDE DEF d, S
<1>5. ASSUME NEW e, G(e), db' = e PROVE Agreed(db', StopsOf(stop')) /\ TargetsKnown(stop')
  BY <1>4, <1>5
<1>6. ASSUME Idle(w) PROVE d.wk[w].pid # 0
  <2>1. proc[w].up /\ db.wk[w].pid = proc[w].pid
    BY <1>6 DEF Idle, Free, Registered
  <2>2. d.wk[w].pid = db.wk[w].pid
    BY <1>3 DEF Narrow
  <2> QED
    BY <1>1, <2>1, <2>2 DEF PidsKnown
<1>7. CASE StartProcess(w) \/ Crash(w) \/ Unwind(w) \/ FinalizerUnwinds(w)
  <2>1. db' = db
    BY <1>7 DEF StartProcess, Crash, Unwind, FinalizerUnwinds
  <2> QED
    BY <1>1, <1>5, <2>1
<1>8. CASE RegisterWorker(w)
  <2> DEFINE a == RecoverWorker(db, w)
             b == InterruptRun(a, db, w)
             c == IF db.wk[w].pid = 0 THEN db ELSE b
             pid == proc[w].pid
             e == [c EXCEPT !.wk[w].pid = pid]
  <2>1. LedgerInv(a) /\ Quiet(db, a) /\ G(a) /\ Narrow(db, a)
    BY <1>1, RecoverWorkerKeeps, RecoverWorkerAgrees
  <2> HIDE DEF a
  <2>2. LedgerInv(b) /\ G(b)
    BY <1>1, <2>1, InterruptRunKeeps, InterruptRunAgrees
  <2> HIDE DEF b
  <2>3. LedgerInv(c) /\ G(c)
    BY <1>1, <2>2
  <2>4. pid \in Nat \ {0}
    BY <1>1, <1>8 DEF RegisterWorker, PidsKnown
  <2>5. db' = e
    BY <1>8 DEF RegisterWorker, a, b
  <2> HIDE DEF c, pid
  <2>6. G(e)
    BY <2>3, <2>4, RegisterPidAgrees
  <2> HIDE DEF e
  <2> QED
    BY <1>5, <2>5, <2>6
<1>9. CASE ClaimRunTask(w)
  <2>1. PICK t \in TaskOffers(d, w, Runs) : db' = AssignTask(d, w, t) /\ Idle(w)
    BY <1>9 DEF ClaimRunTask, Offer, d
  <2>2. G(AssignTask(d, w, t))
    BY <1>3, <1>6, <2>1, AssignTaskAgrees
  <2> HIDE DEF G
  <2> QED
    BY <1>5, <2>1, <2>2
<1>10. CASE ClaimRunHeld(w)
  <2>1. db' = d
    BY <1>10 DEF ClaimRunHeld, Nothing, d
  <2> QED
    BY <1>3, <1>5, <2>1
<1>11. CASE ClaimRunNew(w)
  <2>1. PICK r \in RunOffers(d, w) : db' = AssignRun(d, w, r) /\ Idle(w) /\ NeedsRun(d, w)
    BY <1>11 DEF ClaimRunNew, d
  <2>2. G(AssignRun(d, w, r))
    BY <1>3, <1>6, <2>1, AssignRunAgrees
  <2> HIDE DEF G
  <2> QED
    BY <1>5, <2>1, <2>2
<1>12. CASE ClaimRunIdle(w)
  <2>1. db' = RunIdle(d, w) /\ NeedsRun(d, w)
    BY <1>12 DEF ClaimRunIdle, Nothing, d
  <2>2. G(RunIdle(d, w))
    BY <1>3, <2>1, RunIdleAgrees DEF NeedsRun
  <2> HIDE DEF G
  <2> QED
    BY <1>5, <2>1, <2>2
<1>13. ASSUME NEW t \in Tasks, NEW status \in TaskTerminal, ReportTask(w, t, status)
       PROVE  Agreed(db', StopsOf(stop')) /\ TargetsKnown(stop')
  <2>1. db' = TaskReported(db, w, t, status)
    BY <1>13 DEF ReportTask
  <2>2. G(TaskReported(db, w, t, status))
    BY <1>1, TaskReportedAgrees
  <2> HIDE DEF G
  <2> QED
    BY <1>5, <2>1, <2>2
<1> QED
  BY <1>7, <1>8, <1>9, <1>10, <1>11, <1>12, <1>13 DEF WorkerStep

\* So does every action of a coordinator.
LEMMA CoordinatorAssigned ==
  ASSUME BundleInv, Assigned, NEW w \in Workers, NEW r \in Runs, CoordinatorStep(w, r)
  PROVE  Agreed(db', StopsOf(stop')) /\ TargetsKnown(stop')
<1> DEFINE d == Reap(db)
           S == StopsOf(stop)
           G(e) == Agreed(e, S)
           Goal == Agreed(db', StopsOf(stop')) /\ TargetsKnown(stop')
<1> SUFFICES Goal
  OBVIOUS
<1>1. /\ LedgerInv(db) /\ db \in Database /\ G(db) /\ TargetsKnown(stop)
      /\ stop \in [StopKeys -> StopRow] /\ proc \in [Workers -> ProcRow] /\ PidsKnown(proc)
  BY DEF BundleInv, LedgerInv, TypeOK, Assigned
<1>2. LedgerInv(d) /\ G(d) /\ Narrow(db, d)
  BY <1>1, ReapKeeps, ReapAgrees
<1> HIDE DEF d, S
<1>3. ASSUME NEW e, G(e), db' = e, stop' = stop PROVE Goal
  BY <1>1, <1>3 DEF S
<1>4. ASSUME NEW e, db' = e, stop' = stop, e.task = db.task, e.wk = db.wk,
             \A q \in Runs : /\ e.run[q].worker = db.run[q].worker
                             /\ e.run[q].status \in RunActive => db.run[q].status \in RunActive
                             /\ e.run[q].status \in Waiting => db.run[q].status \in Waiting
                             /\ e.fan[q].state = db.fan[q].state
                             /\ e.fan[q].stopped = db.fan[q].stopped
      PROVE  Goal
  <2>1. G(e)
    BY <1>1, <1>4, StatusAgrees
  <2> QED
    BY <1>3, <1>4, <2>1
<1>5. /\ \A q \in Runs : db.run[q] \in RunRow /\ db.fan[q] \in FanRow
      /\ Owner(db, w, r) => db.run[r].worker = w /\ db.run[r].status \in RunActive
  BY <1>1, Rows DEF Owner
<1> HIDE DEF Goal
<1>6. ASSUME NEW done \in SUBSET (TasksOf(r) \cap Carried), Initialize(w, r, done) PROVE Goal
  <2>1. db' = Initialized(db, w, r, done) /\ stop' = stop
    BY <1>6 DEF Initialize, Initialized
  <2>2. Owner(db, w, r) /\ db.fan[r].state = "none"
    BY <1>6 DEF Initialize
  <2>3. G(Initialized(db, w, r, done))
    BY <1>1, <2>2, InitializeAgrees
  <2> HIDE DEF G
  <2> QED
    BY <1>3, <2>1, <2>3
<1>7. CASE ClaimOwnTask(w, r)
  <2> SUFFICES Goal
    OBVIOUS
  <2>1. stop' = stop /\ Idle(w)
    BY <1>7 DEF ClaimOwnTask
  <2>2. d.wk[w].pid # 0
    <3>1. proc[w].up /\ db.wk[w].pid = proc[w].pid
      BY <2>1 DEF Idle, Free, Registered
    <3> QED
      BY <1>1, <1>2, <3>1 DEF PidsKnown, Narrow
  <2>3. CASE db' = d
    BY <1>2, <1>3, <2>1, <2>3
  <2>4. CASE \E t \in TaskOffers(d, w, {r}) : db' = AssignTask(d, w, t)
    <3>1. PICK t \in TaskOffers(d, w, {r}) : db' = AssignTask(d, w, t)
      BY <2>4
    <3>2. G(AssignTask(d, w, t))
      BY <1>2, <2>2, AssignTaskAgrees
    <3> HIDE DEF G
    <3> QED
      BY <1>3, <2>1, <3>1, <3>2
  <2> QED
    BY <1>7, <2>3, <2>4 DEF ClaimOwnTask, Nothing, Offer, d
<1>8. CASE Status(w, r)
  <2>1. db' = d /\ stop' = stop
    BY <1>8 DEF Status, d
  <2> QED
    BY <1>2, <1>3, <2>1
<1>9. CASE ClaimFinalizer(w, r)
  <2> DEFINE e == [d EXCEPT !.fan[r].state = "finalizing"]
  <2>1. Finalizable(d, w, r) /\ db' = e /\ stop' = stop
    BY <1>9 DEF ClaimFinalizer, d
  <2>2. G(e)
    BY <1>2, <2>1, ClaimFinalizerAgrees
  <2> HIDE DEF e
  <2> QED
    BY <1>3, <2>1, <2>2
<1>10. CASE ReportRunning(w, r)
  <2> DEFINE row == [db.run[r] EXCEPT !.status = "running"]
             run == [db.run EXCEPT ![r] = row]
             e == [db EXCEPT !.run = run]
  <2>1. Owner(db, w, r) /\ db' = e /\ stop' = stop
    BY <1>1, <1>10 DEF ReportRunning, MayReport, Database
  <2>2. row.worker = db.run[r].worker /\ row.status = "running"
    BY <1>5 DEF RunRow
  <2> HIDE DEF row
  <2>3. \A q \in Runs : run[q] = IF q = r THEN row ELSE db.run[q]
    BY <1>1 DEF Database
  <2> HIDE DEF run
  <2>4. e.run = run /\ e.fan = db.fan /\ e.task = db.task /\ e.wk = db.wk
    BY <1>1 DEF Database
  <2> HIDE DEF e
  <2>5. \A q \in Runs : /\ e.run[q].worker = db.run[q].worker
                        /\ e.run[q].status \in RunActive => db.run[q].status \in RunActive
                        /\ e.run[q].status \in Waiting => db.run[q].status \in Waiting
                        /\ e.fan[q].state = db.fan[q].state /\ e.fan[q].stopped = db.fan[q].stopped
    BY <1>5, <2>1, <2>2, <2>3, <2>4 DEF Waiting
  <2>6. e.task = db.task /\ e.wk = db.wk
    BY <2>4
  <2> QED
    BY <1>4, <2>1, <2>5, <2>6
<1>11. CASE ReportSqlInsertion(w, r)
  <2> DEFINE row == [db.run[r] EXCEPT !.status = "running"]
             run == [db.run EXCEPT ![r] = row]
             ledger == [db.fan[r] EXCEPT !.sqlStarted = TRUE]
             fan == [db.fan EXCEPT ![r] = ledger]
             e == [db EXCEPT !.run = run, !.fan = fan]
  <2>1. stop' = stop /\ (db' = db \/ (Owner(db, w, r) /\ db' = e))
    BY <1>1, <1>11 DEF ReportSqlInsertion, FinalizerReports, MayReport, Database
  <2>2. row.worker = db.run[r].worker /\ row.status = "running"
    BY <1>5 DEF RunRow
  <2> HIDE DEF row
  <2>3. \A q \in Runs : run[q] = IF q = r THEN row ELSE db.run[q]
    BY <1>1 DEF Database
  <2> HIDE DEF run
  <2>4. ledger.state = db.fan[r].state /\ ledger.stopped = db.fan[r].stopped
    BY <1>5 DEF FanRow
  <2> HIDE DEF ledger
  <2>5. \A q \in Runs : fan[q] = IF q = r THEN ledger ELSE db.fan[q]
    BY <1>1 DEF Database
  <2> HIDE DEF fan
  <2>6. e.run = run /\ e.fan = fan /\ e.task = db.task /\ e.wk = db.wk
    BY <1>1 DEF Database
  <2> HIDE DEF e
  <2>7. ASSUME Owner(db, w, r), db' = e PROVE Goal
    <3>1. \A q \in Runs : /\ e.run[q].worker = db.run[q].worker
                          /\ e.run[q].status \in RunActive => db.run[q].status \in RunActive
                          /\ e.run[q].status \in Waiting => db.run[q].status \in Waiting
                          /\ e.fan[q].state = db.fan[q].state /\ e.fan[q].stopped = db.fan[q].stopped
      BY <1>5, <2>2, <2>3, <2>4, <2>5, <2>6, <2>7 DEF Waiting
    <3>2. e.task = db.task /\ e.wk = db.wk
      BY <2>6
    <3> QED
      BY <1>4, <2>1, <2>7, <3>1, <3>2
  <2> QED
    BY <1>1, <1>3, <2>1, <2>7
<1>12. CASE ReportSqlCommit(w, r)
  <2>1. db' = db /\ stop' = stop
    BY <1>12 DEF ReportSqlCommit, FinalizerReports
  <2> QED
    BY <1>1, <1>3, <2>1
<1>13. CASE ReportSqlComplete(w, r)
  <2> DEFINE row == [db.run[r] EXCEPT !.sqlComplete = TRUE]
             run == [db.run EXCEPT ![r] = row]
             e == [db EXCEPT !.run = run]
  <2>1. stop' = stop /\ (db' = db \/ db' = e)
    BY <1>1, <1>13 DEF ReportSqlComplete, FinalizerReports, MayReport, Database
  <2>2. row.worker = db.run[r].worker /\ row.status = db.run[r].status
    BY <1>5 DEF RunRow
  <2> HIDE DEF row
  <2>3. \A q \in Runs : run[q] = IF q = r THEN row ELSE db.run[q]
    BY <1>1 DEF Database
  <2> HIDE DEF run
  <2>4. e.run = run /\ e.fan = db.fan /\ e.task = db.task /\ e.wk = db.wk
    BY <1>1 DEF Database
  <2> HIDE DEF e
  <2>5. \A q \in Runs : /\ e.run[q].worker = db.run[q].worker
                        /\ e.run[q].status \in RunActive => db.run[q].status \in RunActive
                        /\ e.run[q].status \in Waiting => db.run[q].status \in Waiting
                        /\ e.fan[q].state = db.fan[q].state /\ e.fan[q].stopped = db.fan[q].stopped
    BY <2>2, <2>3, <2>4
  <2>6. e.task = db.task /\ e.wk = db.wk
    BY <2>4
  <2>7. ASSUME db' = e PROVE Goal
    BY <1>4, <2>1, <2>5, <2>6, <2>7
  <2> QED
    BY <1>1, <1>3, <2>1, <2>7
<1>14. CASE ReportSucceeded(w, r)
  <2> DEFINE e == EndRun(db, w, r, "succeeded")
  <2>1. stop' = stop /\ (db' = db \/ (Owner(db, w, r) /\ HoldsToken(db, w, r) /\ db' = e))
    BY <1>14 DEF ReportSucceeded, FinalizerReports, MayReport
  <2>2. ASSUME Owner(db, w, r), HoldsToken(db, w, r) PROVE G(e)
    <3>1. db.fan[r].state # "downloading"
      BY <2>2 DEF HoldsToken
    <3>2. \A t \in TasksOf(r) : db.task[t].state # "claimed"
      BY <1>1, <3>1, NothingClaimed
    <3>3. "succeeded" \in {"succeeded", "failed"}
      OBVIOUS
    <3> QED
      BY <1>1, <1>5, <2>2, <3>2, <3>3, EndRunAgrees
  <2> HIDE DEF e
  <2> QED
    BY <1>1, <1>3, <2>1, <2>2
<1>15. CASE ReportFailed(w, r)
  <2> DEFINE e == EndRun(RaiseUncertain(db, r), w, r, "failed")
  <2>1. Owner(db, w, r) /\ GuardFailed(db, w, r) /\ db' = e /\ stop' = stop
    BY <1>15 DEF ReportFailed
  <2>2. db.fan[r].state # "downloading" \/ Drained(db, r)
    BY <2>1 DEF GuardFailed, HoldsToken
  <2>3. \A t \in TasksOf(r) : db.task[t].state # "claimed"
    BY <1>1, <2>2, NothingClaimed
  <2>4. G(e)
    BY <1>1, <1>5, <2>1, <2>3, ReportFailedAgrees
  <2> HIDE DEF e
  <2> QED
    BY <1>3, <2>1, <2>4
<1>16. CASE CoordinatorAbort(w, r)
  <2> DEFINE key == <<"abort", r>>
             e == Abort(db, {r}, "failed", FALSE)
  <2>1. /\ db.fan[r].state # "none" /\ db' = e /\ key \in StopKeys
        /\ stop' = [stop EXCEPT ![key].phase = "fencing"]
    BY <1>16 DEF CoordinatorAbort
  <2>2. "failed" \in TerminalStatus /\ FALSE \in BOOLEAN
    BY DEF TerminalStatus
  <2>3. G(e) /\ (db.fan[r].state # "none" => e.fan[r].state \in Ending)
    BY <1>1, <2>2, AbortOneAgrees
  <2>4. key[2] = r
    OBVIOUS
  <2> HIDE DEF e, key
  <2>5. TargetsKnown(stop') /\ StopsOf(stop') \subseteq S \cup {r}
    BY <1>1, <2>1, <2>4, StopBegins DEF S
  <2>6. Agreed(e, StopsOf(stop'))
    <3> DEFINE T == StopsOf(stop')
    <3>1. T \subseteq S \cup {r} /\ e.fan[r].state \in Ending
      BY <2>1, <2>3, <2>5
    <3> HIDE DEF T
    <3>2. Agreed(e, T)
      BY <2>3, <3>1, OneMoreStop
    <3> QED
      BY <3>2 DEF T
  <2> QED
    BY <2>1, <2>5, <2>6 DEF Goal
<1> QED
  BY <1>6, <1>7, <1>8, <1>9, <1>10, <1>11, <1>12, <1>13, <1>14, <1>15, <1>16 DEF CoordinatorStep

\* And every step of a stop procedure: what it latches has acknowledged nothing,
\* and what it unlatches is confirmed.
LEMMA StopAssigned ==
  ASSUME BundleInv, Assigned, NEW k, NEW r \in Runs, <<k, r>> \in StopKeys, StopStep(k, r)
  PROVE  Agreed(db', StopsOf(stop')) /\ TargetsKnown(stop')
<1> DEFINE S == StopsOf(stop)
           key == <<k, r>>
           G(e) == Agreed(e, S)
<1>1. /\ LedgerInv(db) /\ db \in Database /\ G(db) /\ TargetsKnown(stop)
      /\ stop \in [StopKeys -> StopRow] /\ key \in StopKeys /\ key[2] = r
  BY DEF BundleInv, LedgerInv, TypeOK, Assigned
<1>2. ASSUME stop[key].phase \in {"fencing", "stopping"} PROVE r \in S
  BY <1>1, <1>2 DEF StopsOf
<1>3. ASSUME NEW e, G(e), db' = e, TargetsKnown(stop'), StopsOf(stop') \subseteq S
      PROVE  Agreed(db', StopsOf(stop')) /\ TargetsKnown(stop')
  <2> DEFINE T == StopsOf(stop')
  <2>1. T \in SUBSET S
    BY <1>3
  <2> HIDE DEF T, S
  <2>2. Agreed(e, T)
    BY <1>3, <2>1, FewerStops
  <2> QED
    BY <1>3, <2>2 DEF T
<1>4. CASE StopFence(k, r)
  <2> DEFINE T == StopTargets(db, k, r)
             e == [db EXCEPT !.wk = [w \in Workers |-> IF w \in T
                     THEN [db.wk[w] EXCEPT !.fence = db.wk[w].pid] ELSE db.wk[w]]]
             Latched(w) == [task |-> db.wk[w].task, pid |-> db.wk[w].pid, res |-> "pending"]
             row == [phase |-> "stopping",
                     tg |-> [w \in Workers |-> IF w \in T THEN Latched(w) ELSE NoTarget]]
  <2>1. stop[key].phase = "fencing" /\ db' = e /\ stop' = [stop EXCEPT ![key] = row]
    BY <1>4 DEF StopFence
  <2>2. ASSUME NEW w \in T
        PROVE  /\ w \in Workers
               /\ db.wk[w].task # NoTask \/ db.wk[w].run = r
               /\ \/ db.wk[w].run = r
                  \/ db.task[db.wk[w].task].state = "cancelling"
    BY <2>2 DEF StopTargets
  <2>3. T \in SUBSET Workers
    BY DEF StopTargets
  <2>4. ASSUME NEW w \in T PROVE db.wk[w].pid \in Nat \ {0}
    <3>1. db.wk[w] \in WorkerRow /\ w \in Workers /\ r # NoRun
      BY <1>1, <2>3, Rows, NullAssumption
    <3>2. db.wk[w].pid # 0
      BY <1>1, <2>2, <3>1 DEF Agreed
    <3> QED
      BY <3>1, <3>2 DEF WorkerRow
  <2>5. ASSUME NEW t \in Tasks, db.task[t].state = "claimed" PROVE db.task[t].worker \notin T
    <3> DEFINE w == db.task[t].worker
    <3> SUFFICES ASSUME w \in T PROVE FALSE
      OBVIOUS
    <3>1. /\ db.wk[w].task = t /\ db.wk[w].run \in {NoRun, RunOf[t]}
          /\ db.fan[RunOf[t]].state = "downloading"
      BY <1>1, <2>5 DEF Agreed, Leased
    <3>2. db.wk[w].run = r
      BY <2>2, <2>5, <3>1
    <3>3. RunOf[t] = r
      BY <3>1, <3>2, NullAssumption
    <3>4. db.fan[r].state \in Ending
      BY <1>1, <1>2, <2>1 DEF Agreed
    <3> QED
      BY <3>1, <3>3, <3>4 DEF Ending
  <2>6. \A t \in Tasks : db.task[t].state = "claimed" => db.task[t].worker \notin T
    BY <2>5
  <2> HIDE DEF T, S
  <2>7. G(e)
    BY <1>1, <2>3, <2>6, FenceAgrees
  <2>8. /\ row.phase = "stopping"
        /\ \A w \in Workers : IF w \in T THEN row.tg[w].pid = db.wk[w].pid
                                ELSE row.tg[w].res = "none"
    BY DEF NoTarget
  <2> HIDE DEF row, e
  <2>9. ASSUME NEW w \in Workers, row.tg[w].res # "none" PROVE row.tg[w].pid \in Nat \ {0}
    <3>1. w \in T
      BY <2>8, <2>9
    <3>2. row.tg[w].pid = db.wk[w].pid
      BY <2>8, <3>1
    <3> QED
      BY <2>4, <3>1, <3>2
  <2> HIDE DEF key
  <2>10. TargetsKnown(stop') /\ StopsOf(stop') \subseteq S
    BY <1>1, <2>1, <2>8, <2>9, StopMoves DEF S
  <2> QED
    BY <1>3, <2>1, <2>7, <2>10
<1>5. CASE StopFinish(k, r)
  <2> DEFINE g == Settle(db, k, r)
  <2>1. stop[key].phase \in {"stopping", "plain"} /\ stop' = [stop EXCEPT ![key] = IdleStop]
        /\ db' = IF stop[key].phase = "plain" THEN db ELSE Reap(g)
    BY <1>5 DEF StopFinish
  <2>2. IdleStop.phase = "idle"
    BY DEF IdleStop
  <2>3. TargetsKnown(stop') /\ StopsOf(stop') \subseteq S
    <3> DEFINE row == IdleStop
    <3>1. row.phase = "idle" /\ stop' = [stop EXCEPT ![key] = row]
      BY <2>1, <2>2
    <3> HIDE DEF row, key
    <3> QED
      BY <1>1, <3>1, StopMoves
  <2>4. CASE stop[key].phase = "plain"
    BY <1>1, <1>3, <2>1, <2>3, <2>4
  <2>5. CASE stop[key].phase = "stopping"
    <3>1. r \in S
      BY <1>2, <2>5
    <3>2. \A w \in Workers : Confirmed(stop[<<k, r>>].tg[w]) =>
            stop[<<k, r>>].tg[w].pid \in Nat \ {0}
      BY <1>1, <2>5 DEF TargetsKnown, Confirmed
    <3> HIDE DEF S, key
    <3>3. G(g)
      BY <1>1, <3>1, <3>2, SettleAgrees
    <3>4. LedgerInv(g)
      BY <1>1, SettleKeeps
    <3> HIDE DEF g
    <3>5. G(Reap(g))
      BY <3>3, <3>4, ReapAgrees
    <3>6. db' = Reap(g)
      BY <2>1, <2>5
    <3> HIDE DEF G
    <3> QED
      BY <1>3, <2>3, <3>5, <3>6
  <2> QED
    BY <2>1, <2>4, <2>5
<1>6. ASSUME NEW w \in Workers, StopCheck(k, r, w) \/ StopKill(k, r, w) \/ StopFails(k, r, w)
      PROVE  Agreed(db', StopsOf(stop')) /\ TargetsKnown(stop')
  <2>1. PICK res : stop' = [stop EXCEPT ![key].tg[w].res = res]
    BY <1>6 DEF StopCheck, StopKill, StopFails
  <2>2. stop[key].tg[w].res # "none" /\ db' = db
    BY <1>6 DEF StopCheck, StopKill, StopFails
  <2> HIDE DEF S, key
  <2>3. TargetsKnown(stop') /\ StopsOf(stop') \subseteq StopsOf(stop)
    BY <1>1, <2>1, <2>2, StopLearns
  <2> QED
    BY <1>1, <1>3, <2>2, <2>3 DEF S
<1> QED
  BY <1>4, <1>5, <1>6 DEF StopStep

\* And what happens to a run without a worker's doing.
LEMMA RunAssigned ==
  ASSUME BundleInv, Assigned, NEW r \in Runs, RunStep(r)
  PROVE  Agreed(db', StopsOf(stop')) /\ TargetsKnown(stop')
<1> DEFINE S == StopsOf(stop)
           G(e) == Agreed(e, S)
           Goal == Agreed(db', StopsOf(stop')) /\ TargetsKnown(stop')
<1> SUFFICES Goal
  OBVIOUS
<1>1. /\ LedgerInv(db) /\ db \in Database /\ G(db) /\ TargetsKnown(stop)
      /\ stop \in [StopKeys -> StopRow]
      /\ db.run[r] \in RunRow /\ db.fan[r] \in FanRow
  BY DEF BundleInv, LedgerInv, TypeOK, Assigned, Database
<1> HIDE DEF S
<1>2. ASSUME NEW e, G(e), db' = e, stop' = stop PROVE Goal
  BY <1>1, <1>2 DEF S
<1> HIDE DEF Goal
<1>3. CASE QueueRun(r)
  <2> DEFINE row == [db.run[r] EXCEPT !.status = "queued"]
             run == [db.run EXCEPT ![r] = row]
             e == [db EXCEPT !.run = run]
  <2>1. db.run[r].status = "none" /\ db' = e /\ stop' = stop
    BY <1>1, <1>3 DEF QueueRun, MayQueue, Database
  <2>2. row.worker = db.run[r].worker /\ row.status = "queued"
    BY <1>1 DEF RunRow
  <2> HIDE DEF row
  <2>3. \A q \in Runs : run[q] = IF q = r THEN row ELSE db.run[q]
    BY <1>1 DEF Database
  <2> HIDE DEF run
  <2>4. e.run = run /\ e.fan = db.fan /\ e.task = db.task /\ e.wk = db.wk
    BY <1>1 DEF Database
  <2> HIDE DEF e
  <2>5. \A q \in Runs : /\ e.run[q].worker = db.run[q].worker
                        /\ e.run[q].status \in RunActive => db.run[q].status \in RunActive
                        /\ e.run[q].status \in Waiting => db.run[q].status \in Waiting
                        /\ e.fan[q].state = db.fan[q].state /\ e.fan[q].stopped = db.fan[q].stopped
    BY <2>1, <2>2, <2>3, <2>4 DEF Waiting, RunActive
  <2>6. e.task = db.task /\ e.wk = db.wk
    BY <2>4
  <2>7. G(e)
    BY <1>1, <2>5, <2>6, StatusAgrees
  <2> QED
    BY <1>2, <2>1, <2>7
<1>4. CASE StopBundle(r)
  <2> DEFINE key == <<"user", r>>
             e == Abort(db, {r}, "cancelled", FALSE)
  <2>1. /\ db.fan[r].state # "none" /\ db' = e /\ key \in StopKeys
        /\ stop' = [stop EXCEPT ![key].phase = "fencing"]
    BY <1>4 DEF StopBundle
  <2>2. "cancelled" \in TerminalStatus /\ FALSE \in BOOLEAN
    BY DEF TerminalStatus
  <2>3. G(e) /\ (db.fan[r].state # "none" => e.fan[r].state \in Ending)
    BY <1>1, <2>2, AbortOneAgrees
  <2>4. key[2] = r
    OBVIOUS
  <2> HIDE DEF e, key
  <2>5. TargetsKnown(stop') /\ StopsOf(stop') \subseteq S \cup {r}
    BY <1>1, <2>1, <2>4, StopBegins DEF S
  <2>6. Agreed(e, StopsOf(stop'))
    <3> DEFINE T == StopsOf(stop')
    <3>1. T \subseteq S \cup {r} /\ e.fan[r].state \in Ending
      BY <2>1, <2>3, <2>5
    <3> HIDE DEF T
    <3>2. Agreed(e, T)
      BY <2>3, <3>1, OneMoreStop
    <3> QED
      BY <3>2 DEF T
  <2> QED
    BY <2>1, <2>5, <2>6 DEF Goal
<1>5. CASE StopPlain(r)
  <2> DEFINE key == <<"user", r>>
             w == db.run[r].worker
             assigned == db.run[r].status \in RunActive /\ w # NoWorker
             target == [task |-> NoTask, pid |-> IF db.wk[w].run = r THEN db.wk[w].pid ELSE 0,
                        res |-> "checked"]
             row == [[stop[key] EXCEPT !.phase = "plain"] EXCEPT !.tg[w] = target]
             e == StoppedPlain(db, r, assigned, w)
  <2>1. /\ db' = e /\ key \in StopKeys
        /\ stop' = IF ~assigned THEN stop ELSE
                     [stop EXCEPT ![key].phase = "plain", ![key].tg[w] = target]
    BY <1>5 DEF StopPlain, StoppedPlain
  <2>2. G(e)
    BY <1>1, StoppedPlainAgrees
  <2>3. stop[key] \in StopRow
    BY <1>1, <2>1
  <2> HIDE DEF e, w, target, assigned
  <2>4. [stop EXCEPT ![key].phase = "plain", ![key].tg[w] = target] = [stop EXCEPT ![key] = row]
    BY <1>1, <2>1, <2>3 DEF StopRow
  <2>5. row.phase = "plain"
    BY <2>3 DEF StopRow
  <2>6. CASE ~assigned
    <3>1. stop' = stop
      BY <2>1, <2>6
    <3> HIDE DEF G
    <3> QED
      BY <1>2, <2>1, <2>2, <3>1
  <2>7. CASE assigned
    <3>1. stop' = [stop EXCEPT ![key] = row]
      BY <2>1, <2>4, <2>7
    <3> HIDE DEF row, key
    <3>2. TargetsKnown(stop') /\ StopsOf(stop') \subseteq S
      BY <1>1, <2>1, <2>5, <3>1, StopMoves DEF S
    <3> DEFINE T == StopsOf(stop')
    <3>3. T \in SUBSET S
      BY <3>2
    <3> HIDE DEF T
    <3>4. Agreed(e, T)
      BY <2>2, <3>3, FewerStops
    <3> QED
      BY <2>1, <3>2, <3>4 DEF Goal, T
  <2> QED
    BY <2>6, <2>7
<1>6. CASE SqlCommits(r)
  <2>1. db' = db /\ stop' = stop
    BY <1>6 DEF SqlCommits
  <2> QED
    BY <1>1, <1>2, <2>1
<1>7. CASE DeadlinePasses(r)
  <2> DEFINE ledger == [db.fan[r] EXCEPT !.deadline = "passed"]
             fan == [db.fan EXCEPT ![r] = ledger]
             e == [db EXCEPT !.fan = fan]
  <2>1. db' = e /\ stop' = stop
    BY <1>1, <1>7 DEF DeadlinePasses, Database
  <2>2. ledger.state = db.fan[r].state /\ ledger.stopped = db.fan[r].stopped
    BY <1>1 DEF FanRow
  <2> HIDE DEF ledger
  <2>3. \A q \in Runs : fan[q] = IF q = r THEN ledger ELSE db.fan[q]
    BY <1>1 DEF Database
  <2> HIDE DEF fan
  <2>4. e.run = db.run /\ e.fan = fan /\ e.task = db.task /\ e.wk = db.wk
    BY <1>1 DEF Database
  <2> HIDE DEF e
  <2>5. \A q \in Runs : /\ e.run[q].worker = db.run[q].worker
                        /\ e.run[q].status \in RunActive => db.run[q].status \in RunActive
                        /\ e.run[q].status \in Waiting => db.run[q].status \in Waiting
                        /\ e.fan[q].state = db.fan[q].state /\ e.fan[q].stopped = db.fan[q].stopped
    BY <2>2, <2>3, <2>4
  <2>6. e.task = db.task /\ e.wk = db.wk
    BY <2>4
  <2>7. G(e)
    BY <1>1, <2>5, <2>6, StatusAgrees
  <2> QED
    BY <1>2, <2>1, <2>7
<1>8. CASE FailStaleRun(r)
  <2> DEFINE d == Reap(db)
             e == FailStale(d, r)
  <2>1. LedgerInv(d) /\ G(d)
    BY <1>1, ReapKeeps, ReapAgrees
  <2>2. d.run[r].status \in RunActive /\ db' = e /\ stop' = stop
    BY <1>8 DEF FailStaleRun
  <2> HIDE DEF d
  <2>3. G(e)
    BY <2>1, <2>2, FailStaleAgrees
  <2> HIDE DEF e
  <2> QED
    BY <1>2, <2>2, <2>3
<1> QED
  BY <1>3, <1>4, <1>5, <1>6, <1>7, <1>8 DEF RunStep

\* Nobody is assigned anything in the empty database.
LEMMA AssignedInit == ASSUME Init PROVE Assigned
<1>1. /\ \A r \in Runs : /\ db.run[r].status = "none" /\ db.run[r].worker = NoWorker
                         /\ db.fan[r].stopped = FALSE
      /\ \A t \in Tasks : db.task[t].state = "none"
      /\ \A w \in Workers : db.wk[w].run = NoRun /\ db.wk[w].task = NoTask
  BY DEF Init, EmptyDatabase
<1>2. \A key \in StopKeys : stop[key].phase = "idle"
  BY DEF Init, IdleStop
<1>3. StopsOf(stop) = {} /\ TargetsKnown(stop)
  BY <1>2 DEF StopsOf, TargetsKnown
<1>4. \A w \in Workers : proc[w].up = FALSE
  BY DEF Init, NoProcess
<1>5. PidsKnown(proc)
  BY <1>4 DEF PidsKnown
<1>6. Agreed(db, {})
  BY <1>1 DEF Agreed, RunActive
<1> QED
  BY <1>3, <1>5, <1>6 DEF Assigned

\* Runs, tasks and workers agree in every reachable state.
THEOREM AssignedTheorem == Spec => [](BundleInv /\ Assigned)
<1> DEFINE Inv == BundleInv /\ Assigned
<1>1. Init => Inv
  BY InitInv, AssignedInit
<1>2. Inv /\ [Next]_vars => Inv'
  <2> SUFFICES ASSUME Inv, [Next]_vars PROVE Assigned'
    BY StepInv
  <2> DEFINE Goal == Agreed(db', StopsOf(stop')) /\ TargetsKnown(stop')
  <2>1. /\ LedgerInv(db) /\ db \in Database /\ Agreed(db, StopsOf(stop)) /\ TargetsKnown(stop)
        /\ PidsKnown(proc)
    BY DEF BundleInv, LedgerInv, Assigned
  <2>2. ASSUME NEW e, Agreed(e, StopsOf(stop)), db' = e, stop' = stop PROVE Goal
    BY <2>1, <2>2
  <2> HIDE DEF Goal
  <2>3. ASSUME NEW w \in Workers, WorkerStep(w) PROVE Goal
    BY <2>3, WorkerAssigned DEF Goal
  <2>4. ASSUME NEW w \in Workers, NEW r \in Runs, CoordinatorStep(w, r) PROVE Goal
    BY <2>4, CoordinatorAssigned DEF Goal
  <2>5. ASSUME NEW key \in StopKeys, StopStep(key[1], key[2]) PROVE Goal
    <3> DEFINE k == key[1]
               r == key[2]
    <3>1. r \in Runs /\ <<k, r>> \in StopKeys
      BY StopKeysAssumption
    <3> HIDE DEF k, r
    <3>2. StopStep(k, r)
      BY <2>5 DEF k, r
    <3> QED
      BY <3>1, <3>2, StopAssigned DEF Goal
  <2>6. ASSUME NEW r \in Runs, RunStep(r) PROVE Goal
    BY <2>6, RunAssigned DEF Goal
  <2>7. ASSUME NEW t \in Tasks, LeaseExpires(t) PROVE Goal
    <3> DEFINE row == [db.task[t] EXCEPT !.expired = TRUE]
               task == [db.task EXCEPT ![t] = row]
               e == [db EXCEPT !.task = task]
    <3>1. db' = e /\ stop' = stop
      BY <2>1, <2>7 DEF LeaseExpires, Database
    <3>2. db.task[t] \in TaskRow
      BY <2>1, Rows
    <3>3. row.state = db.task[t].state /\ row.worker = db.task[t].worker
      BY <3>2 DEF TaskRow
    <3> HIDE DEF row
    <3>4. \A u \in Tasks : task[u] = IF u = t THEN row ELSE db.task[u]
      BY <2>1 DEF Database
    <3> HIDE DEF task
    <3>5. e.task = task /\ e.run = db.run /\ e.fan = db.fan /\ e.wk = db.wk
      BY <2>1 DEF Database
    <3> HIDE DEF e
    <3>6. \A r \in Runs : SteadyRun(db, e, r)
      BY <3>5 DEF SteadyRun, GoneIn
    <3>7. ASSUME NEW u \in Tasks, e.task[u].state = "claimed"
          PROVE  /\ db.task[u].state = "claimed" /\ e.task[u].worker = db.task[u].worker
                 /\ e.fan[RunOf[u]].state = "downloading"
      <4>1. db.task[u].state = "claimed" /\ e.task[u].worker = db.task[u].worker
        BY <3>3, <3>4, <3>5, <3>7
      <4> QED
        BY <2>1, <3>5, <4>1 DEF Agreed, Leased
    <3>8. e.wk = db.wk
      BY <3>5
    <3>9. Steady(db, e)
      BY <3>6, <3>7, <3>8, RowsKeptSteady
    <3>10. Agreed(e, StopsOf(stop))
      BY <2>1, <3>9, SteadyAgrees
    <3> QED
      BY <2>2, <3>1, <3>10
  <2>8. ASSUME NEW f \in Flows, AcknowledgeSqlReconciliation(f) PROVE Goal
    <3> DEFINE e == [db EXCEPT !.recon[f] = FALSE]
    <3>1. db' = e /\ stop' = stop
      BY <2>8 DEF AcknowledgeSqlReconciliation
    <3>2. e.task = db.task /\ e.wk = db.wk /\ e.run = db.run /\ e.fan = db.fan
      BY <2>1 DEF Database
    <3> HIDE DEF e
    <3>3. e.task = db.task /\ e.wk = db.wk
      BY <3>2
    <3>4. \A r \in Runs : /\ e.run[r].worker = db.run[r].worker
                          /\ e.run[r].status \in RunActive => db.run[r].status \in RunActive
                          /\ e.run[r].status \in Waiting => db.run[r].status \in Waiting
                          /\ e.fan[r].state = db.fan[r].state /\ e.fan[r].stopped = db.fan[r].stopped
      BY <3>2
    <3>5. Agreed(e, StopsOf(stop))
      BY <2>1, <3>3, <3>4, StatusAgrees
    <3> QED
      BY <2>2, <3>1, <3>5
  <2>9. ASSUME Watchdog PROVE Goal
    <3>1. db' = Reap(db) /\ stop' = stop
      BY <2>9 DEF Watchdog
    <3>2. Agreed(Reap(db), StopsOf(stop))
      BY <2>1, ReapAgrees
    <3> QED
      BY <2>2, <3>1, <3>2
  <2>10. ASSUME Next PROVE Goal
    BY <2>3, <2>4, <2>5, <2>6, <2>7, <2>8, <2>9, <2>10 DEF Next
  <2>11. ASSUME Next PROVE PidsKnown(proc')
    BY <2>1, <2>11, PidsStep
  <2>12. CASE UNCHANGED vars
    BY <2>12 DEF vars, Assigned
  <2>13. CASE Next
    <3>1. Goal /\ PidsKnown(proc')
      BY <2>10, <2>11, <2>13
    <3> QED
      BY <3>1 DEF Goal, Assigned
  <2> QED
    BY <2>12, <2>13
<1> QED
  BY <1>1, <1>2, PTL DEF Spec

\* An active run is the current run of its worker, unless the worker was
\* stopped or lost another run since, and a claimed task is its worker's task.
THEOREM AssignmentsTheorem == Spec => []AssignmentsAgree
<1>1. Assigned => AssignmentsAgree
  <2> SUFFICES ASSUME Agreed(db, StopsOf(stop)) PROVE AssignmentsAgree
    BY DEF Assigned
  <2>1. \A r \in Runs : /\ CoordinatorGone(r) <=> GoneIn(db, r)
                        /\ Displaced(r) <=> DisplacedIn(db, r)
    BY DEF CoordinatorGone, Displaced, GoneIn, DisplacedIn
  <2> QED
    BY <2>1 DEF Agreed, Excused, Leased, AssignmentsAgree
<1> QED
  BY <1>1, AssignedTheorem, PTL

-----------------------------------------------------------------------------
(* Downloads.  A process that downloads under a lease that has not run out  *)
(* is the process its worker's row knows, the row still names the task, and *)
(* no stop procedure will take the row for the stopped process's: a handler *)
(* that Spares every held lease keeps this, and what claims, latches or     *)
(* settles has an argument of its own.                                      *)

\* Stops of different runs do not follow the same process of a worker: what one
\* of them latches, the settlement of another does not unlatch, and whether it
\* was replaced is for one run to judge.
LatchNotShared ==
  \A a, b \in StopKeys, w \in Workers :
    /\ stop[a].phase = "stopping" /\ stop[a].tg[w].res # "none"
    /\ stop[b].phase = "stopping" /\ stop[b].tg[w].res # "none"
    /\ stop[a].tg[w].pid = stop[b].tg[w].pid
    => a[2] = b[2]

\* What a process downloads was claimed, and as long as the lease runs, the
\* registered process of the holder is the one that downloads it.
Attended(d, p) ==
  \A w \in Workers, t \in Tasks : p[w].exec = t =>
    /\ d.task[t].state \notin Waiting
    /\ ~d.task[t].expired => Held(d, w, t) /\ p[w].up /\ p[w].pid = d.wk[w].pid
\* A stop procedure follows w.
Follows(s, key, w) == s[key].phase = "stopping" /\ s[key].tg[w].res # "none"
\* The task of a target was fenced before the stop began.
Spent(d, s) ==
  \A key \in StopKeys, w \in Workers, t \in Tasks :
    Follows(s, key, w) /\ s[key].tg[w].task = t => d.task[t].state \notin Fresh
\* The settlement of target g of a stop of r leaves the download of t by w alone:
\* its own kill is still to come, or w has registered or was unlatched since.
Clear(d, r, g, w, t) ==
  \/ /\ RunOf[t] = r
     /\ g.pid = d.wk[w].pid /\ d.wk[w].fence = g.pid
     /\ ~Confirmed(g)
  \/ g.task # t /\ g.pid # d.wk[w].pid
  \/ g.task # t /\ RunOf[t] # r /\ d.wk[w].fence = 0
\* No settlement of a stop in flight takes a download that still has its lease.
Aimed(d, p, s) ==
  \A key \in StopKeys, w \in Workers, t \in Tasks :
    Follows(s, key, w) /\ p[w].exec = t /\ ~d.task[t].expired =>
      Clear(d, key[2], s[key].tg[w], w, t)
Covered(d, p, s) == Taken(d) /\ Attended(d, p) /\ Spent(d, s) /\ Aimed(d, p, s)

\* Processes may give up their export, stops may begin and end.
Retires(p, q) ==
  \A w \in Workers, t \in Tasks : q[w].exec = t =>
    p[w].exec = t /\ q[w].up = p[w].up /\ q[w].pid = p[w].pid
Ceases(s, z) == \A key \in StopKeys : z[key] = s[key] \/ z[key].phase # "stopping"

\* Downloads stay covered when held leases are spared, but for those of U that
\* nobody downloads under a running lease any more.
LEMMA SparesCovered ==
  ASSUME NEW d, NEW e, NEW p, NEW q, NEW s, NEW z, NEW U, Covered(d, p, s), Spares(d, e, U),
         Retires(p, q), Ceases(s, z), \A w \in Workers, t \in U : q[w].exec = t => d.task[t].expired
  PROVE  Covered(e, q, z)
<1>1. \A t \in Tasks : t # NoTask /\ Onward(d, e, t)
  BY NullAssumption DEF Spares
<1>2. \A key \in StopKeys, w \in Workers : Follows(z, key, w) => Follows(s, key, w) /\ z[key] = s[key]
  BY DEF Follows, Ceases
<1>3. Taken(e)
  BY <1>1 DEF Covered, Taken, Spares, Onward
<1>4. ASSUME NEW w \in Workers, NEW t \in Tasks, q[w].exec = t, ~e.task[t].expired
      PROVE  /\ Held(d, w, t) /\ p[w].up /\ p[w].pid = d.wk[w].pid /\ ~d.task[t].expired
             /\ Held(e, w, t) /\ KeptRow(d, e, w)
  <2>1. p[w].exec = t /\ ~d.task[t].expired
    BY <1>1, <1>4 DEF Onward, Retires
  <2>2. t \notin U
    BY <1>4, <2>1
  <2>3. Held(d, w, t) /\ p[w].up /\ p[w].pid = d.wk[w].pid
    BY <2>1 DEF Covered, Attended
  <2>4. Held(e, w, t) /\ KeptRow(d, e, w)
    BY <1>4, <2>2, <2>3, SparedHeld
  <2> QED
    BY <2>1, <2>3, <2>4
<1>5. ASSUME NEW w \in Workers, NEW t \in Tasks, q[w].exec = t
      PROVE  /\ e.task[t].state \notin Waiting
             /\ ~e.task[t].expired => Held(e, w, t) /\ q[w].up /\ q[w].pid = e.wk[w].pid
  <2>1. e.task[t].state \notin Waiting
    BY <1>1, <1>5 DEF Covered, Attended, Onward, Retires
  <2>2. ASSUME ~e.task[t].expired PROVE Held(e, w, t) /\ q[w].up /\ q[w].pid = e.wk[w].pid
    BY <1>4, <1>5, <2>2 DEF KeptRow, Retires
  <2> QED
    BY <2>1, <2>2
<1>6. Spent(e, z)
  BY <1>1, <1>2 DEF Covered, Spent, Onward
<1>7. ASSUME NEW key \in StopKeys, NEW w \in Workers, NEW t \in Tasks,
             Follows(z, key, w), q[w].exec = t, ~e.task[t].expired
      PROVE  Clear(e, key[2], z[key].tg[w], w, t)
  <2>1. KeptRow(d, e, w) /\ ~d.task[t].expired /\ p[w].exec = t
    BY <1>4, <1>7 DEF Retires
  <2>2. Clear(d, key[2], z[key].tg[w], w, t)
    BY <1>2, <1>7, <2>1 DEF Covered, Aimed
  <2> QED
    BY <2>1, <2>2 DEF Clear, KeptRow
<1>8. Attended(e, q)
  BY <1>5 DEF Attended
<1>9. Aimed(e, q, z)
  BY <1>7 DEF Aimed
<1> QED
  BY <1>3, <1>6, <1>8, <1>9 DEF Covered

\* update_run, claim_run's idle answer, stop_run and register_worker end runs.
LEMMA RunEndsSpares ==
  ASSUME NEW d \in Database, NEW U, NEW w, NEW r, NEW status, NEW assigned, NEW before
  PROVE  /\ Spares(d, EndRun(d, w, r, status), U)
         /\ Spares(d, EndRun(RaiseUncertain(d, r), w, r, status), U)
         /\ Spares(d, RunIdle(d, w), U)
         /\ Spares(d, [d EXCEPT !.wk[w].run = NoRun], U)
         /\ Spares(d, StoppedPlain(d, r, assigned, w), U)
         /\ Spares(d, InterruptRun(d, before, w), U)
<1> DEFINE wk == [d.wk EXCEPT ![w].run = NoRun]
<1>1. \A v \in Workers : wk[v] = d.wk[v] \/ wk[v] = [d.wk[v] EXCEPT !.run = NoRun]
  BY DEF Database
<1>2. ASSUME NEW e, e.task = d.task, e.wk = wk PROVE Spares(d, e, U)
  BY <1>1, <1>2, LosingRunsSpares
<1> HIDE DEF wk
<1>3. Spares(d, EndRun(d, w, r, status), U)
  <2> DEFINE e == EndRun(d, w, r, status)
  <2>1. e.task = d.task /\ e.wk = wk
    BY DEF EndRun, Database, wk
  <2> HIDE DEF e
  <2>2. Spares(d, e, U)
    BY <1>2, <2>1
  <2> QED
    BY <2>2 DEF e
<1>4. Spares(d, EndRun(RaiseUncertain(d, r), w, r, status), U)
  <2> DEFINE e == EndRun(RaiseUncertain(d, r), w, r, status)
  <2>1. e.task = d.task /\ e.wk = wk
    BY DEF EndRun, RaiseUncertain, Database, wk
  <2> HIDE DEF e
  <2>2. Spares(d, e, U)
    BY <1>2, <2>1
  <2> QED
    BY <2>2 DEF e
<1>5. Spares(d, [d EXCEPT !.wk[w].run = NoRun], U)
  <2> DEFINE e == [d EXCEPT !.wk[w].run = NoRun]
  <2>1. e.task = d.task /\ e.wk = wk
    BY DEF Database, wk
  <2> HIDE DEF e
  <2>2. Spares(d, e, U)
    BY <1>2, <2>1
  <2> QED
    BY <2>2 DEF e
<1>6. Spares(d, StoppedPlain(d, r, assigned, w), U)
  <2> DEFINE e == StoppedPlain(d, r, assigned, w)
  <2>1. e.task = d.task
        /\ e.wk = [v \in Workers |-> IF assigned /\ v = w /\ d.wk[v].run = r
                                     THEN [d.wk[v] EXCEPT !.run = NoRun] ELSE d.wk[v]]
    BY DEF StoppedPlain, Database
  <2> HIDE DEF e
  <2>2. \A v \in Workers : e.wk[v] = d.wk[v] \/ e.wk[v] = [d.wk[v] EXCEPT !.run = NoRun]
    BY <2>1
  <2>3. Spares(d, e, U)
    BY <2>1, <2>2, LosingRunsSpares
  <2> QED
    BY <2>3 DEF e
<1>7. Spares(d, InterruptRun(d, before, w), U)
  <2> DEFINE e == InterruptRun(d, before, w)
  <2>1. e = d \/ (e.task = d.task /\ e.wk = wk)
    BY DEF InterruptRun, Database, wk
  <2> HIDE DEF e
  <2>2. CASE e = d
    <3>1. \A v \in Workers : e.wk[v] = d.wk[v]
      BY <2>2
    <3> QED
      BY <2>2, <3>1, LosingRunsSpares DEF e
  <2>3. CASE e.task = d.task /\ e.wk = wk
    <3>1. Spares(d, e, U)
      BY <1>2, <2>3
    <3> QED
      BY <3>1 DEF e
  <2> QED
    BY <2>1, <2>2, <2>3
<1>8. Spares(d, RunIdle(d, w), U)
  BY <1>5 DEF RunIdle
<1> QED
  BY <1>3, <1>4, <1>5, <1>6, <1>7, <1>8

\* fail_stale_runs ends a run, or aborts its bundle and closes it if drained.
LEMMA FailStaleSpares ==
  ASSUME NEW d, LedgerInv(d), NEW r \in Runs
  PROVE  Spares(d, FailStale(d, r), {})
<1>1. CASE d.fan[r].state # "none"
  <2> DEFINE g == Abort(d, {r}, "failed", TRUE)
  <2>1. FailStale(d, r) = FinishAborted(g, {r})
    BY <1>1 DEF FailStale
  <2>2. {r} \in SUBSET Runs /\ "failed" \in TerminalStatus /\ TRUE \in BOOLEAN
    BY DEF TerminalStatus
  <2>3. g \in Database /\ Spares(d, g, {})
    BY <2>2, AbortKeeps, AbortSpares DEF LedgerInv
  <2> HIDE DEF g
  <2>4. Spares(g, FinishAborted(g, {r}), {})
    BY <2>2, <2>3, FinishAbortedSpares
  <2> QED
    BY <2>1, <2>3, <2>4, SparesCompose
<1>2. CASE d.fan[r].state = "none"
  <2> DEFINE w == d.run[r].worker
             e == FailStale(d, r)
  <2>1. d \in Database
    BY DEF LedgerInv
  <2>2. e.task = d.task /\ e.wk = [d.wk EXCEPT ![w].run = NoRun]
    BY <1>2, <2>1 DEF FailStale, Database
  <2> HIDE DEF e, w
  <2>3. \A v \in Workers : e.wk[v] = d.wk[v] \/ e.wk[v] = [d.wk[v] EXCEPT !.run = NoRun]
    BY <2>1, <2>2 DEF Database
  <2>4. Spares(d, e, {})
    BY <2>1, <2>2, <2>3, LosingRunsSpares
  <2> QED
    BY <2>4 DEF e
<1> QED
  BY <1>1, <1>2

\* claim_run assigns a run to a worker that holds no lease.
LEMMA AssignRunSpares ==
  ASSUME NEW d \in Database, NEW w \in Workers, NEW r, NeedsRun(d, w)
  PROVE  Spares(d, AssignRun(d, w, r), {})
<1> DEFINE e == AssignRun(d, w, r)
<1>1. e.task = d.task /\ e.wk = [d.wk EXCEPT ![w].run = r]
  BY DEF AssignRun, Database
<1> HIDE DEF e
<1>2. ASSUME NEW v \in Workers PROVE e.wk[v].task = d.wk[v].task /\ (v # w => e.wk[v] = d.wk[v])
  <2>1. d.wk[v] \in WorkerRow
    BY Rows
  <2> QED
    BY <1>1, <2>1 DEF Database, WorkerRow
<1>3. \A t \in Tasks : ~Held(d, w, t)
  BY NullAssumption DEF Held, NeedsRun
<1>4. \A t \in Tasks : Onward(d, e, t)
  BY <1>1 DEF Onward
<1>5. Spares(d, e, {})
  BY <1>1, <1>2, <1>3, <1>4 DEF Spares, Held, KeptRow
<1> QED
  BY <1>5 DEF e

\* report_task ends one task, of which the worker's row may be freed.
LEMMA FinishTaskSpares ==
  ASSUME NEW d \in Database, NEW w \in Workers, NEW t \in Tasks, NEW status \in TaskTerminal
  PROVE  Spares(d, FinishTask(d, w, t, status), {t})
<1> DEFINE task == IF d.wk[w].task = t THEN NoTask ELSE d.wk[w].task
           e == FinishTask(d, w, t, status)
<1>1. d.task[t] \in TaskRow /\ d.wk[w] \in WorkerRow
  BY Rows
<1>2. /\ e.task[t] = [d.task[t] EXCEPT !.state = status]
      /\ \A u \in Tasks \ {t} : e.task[u] = d.task[u]
      /\ e.wk[w] = [d.wk[w] EXCEPT !.task = task]
      /\ \A v \in Workers \ {w} : e.wk[v] = d.wk[v]
  BY <1>1 DEF FinishTask, Database
<1> HIDE DEF task, e
<1>3. /\ e.task[t].worker = d.task[t].worker /\ e.task[t].expired = d.task[t].expired
      /\ e.task[t].state \notin Fresh
  BY <1>1, <1>2 DEF TaskRow, TaskTerminal, Fresh, Waiting
<1>4. /\ e.wk[w].run = d.wk[w].run /\ e.wk[w].task = task
      /\ e.wk[w].pid = d.wk[w].pid /\ e.wk[w].fence = d.wk[w].fence
  BY <1>1, <1>2 DEF WorkerRow
<1>5. \A v \in Workers : \/ KeptRow(d, e, v)
                         \/ /\ e.wk[v].task \in {d.wk[v].task, NoTask}
                            /\ \A u \in Tasks : d.wk[v].task = u => u \in {t}
  BY <1>2, <1>4 DEF KeptRow, task
<1>6. Spares(d, e, {t})
  BY <1>2, <1>3, <1>5, SomeTasksSpares
<1> QED
  BY <1>6 DEF e

\* An acknowledged cancellation concerns its own task and the row that names it.
LEMMA AckCancelledSpares ==
  ASSUME NEW d \in Database, NEW w \in Workers, NEW t \in Tasks
  PROVE  Spares(d, AckCancelled(d, w, t), {t})
<1> DEFINE row == [d.task[t] EXCEPT !.state = "cancelled"]
           freed == [[d.wk[w] EXCEPT !.task = NoTask] EXCEPT !.fence = 0]
           e == AckCancelled(d, w, t)
<1>1. d.task[t] \in TaskRow /\ d.wk[w] \in WorkerRow
  BY Rows
<1>2. /\ e.task[t] = row
      /\ \A u \in Tasks \ {t} : e.task[u] = d.task[u]
      /\ e.wk[w] = IF d.wk[w].task = t THEN freed ELSE d.wk[w]
      /\ \A v \in Workers \ {w} : e.wk[v] = d.wk[v]
  BY <1>1 DEF AckCancelled, ReleaseWorker, Database
<1>3. /\ row.worker = d.task[t].worker /\ row.expired = d.task[t].expired
      /\ row.state \notin Fresh
  BY <1>1 DEF TaskRow, Fresh, Waiting
<1>4. freed.task = NoTask
  BY <1>1 DEF WorkerRow
<1> HIDE DEF row, freed, e
<1>5. \A v \in Workers : \/ KeptRow(d, e, v)
                         \/ /\ e.wk[v].task \in {d.wk[v].task, NoTask}
                            /\ \A u \in Tasks : d.wk[v].task = u => u \in {t}
  BY <1>2, <1>4 DEF KeptRow
<1>6. Spares(d, e, {t})
  BY <1>2, <1>3, <1>5, SomeTasksSpares
<1> QED
  BY <1>6 DEF e

\* A report concerns its own task: what it takes along was drained or is fenced.
LEMMA TaskReportedSpares ==
  ASSUME NEW d, LedgerInv(d), NEW w \in Workers, NEW t \in Tasks, NEW status \in TaskTerminal
  PROVE  Spares(d, TaskReported(d, w, t, status), {t})
<1> DEFINE e == TaskReported(d, w, t, status)
           g == FinishTask(d, w, t, status)
           Ack == status = "cancelled" /\ d.task[t].state = "cancelling"
<1>0. d \in Database
  BY DEF LedgerInv
<1>1. CASE Ack
  <2>1. e = AckCancelled(d, w, t)
    BY <1>1 DEF TaskReported, LeaseAccepts
  <2> QED
    BY <1>0, <2>1, AckCancelledSpares
<1>2. CASE ~Ack /\ LeaseAccepts(d, w, t) /\ status = "succeeded"
  <2>1. e = g
    BY <1>2 DEF TaskReported
  <2> QED
    BY <1>0, <2>1, FinishTaskSpares
<1>3. CASE ~Ack /\ LeaseAccepts(d, w, t) /\ status # "succeeded"
  <2>1. e = Abort(g, {RunOf[t]}, "failed", FALSE)
    BY <1>3 DEF TaskReported
  <2>2. g \in Database /\ Spares(d, g, {t})
    BY <1>0, <1>3, FinishTaskKeeps, FinishTaskSpares DEF LedgerInv
  <2>3. {RunOf[t]} \in SUBSET Runs
    BY ShapeAssumption
  <2> HIDE DEF e, g
  <2>4. Spares(g, e, {})
    BY <2>1, <2>2, <2>3, AbortSpares
  <2>5. Spares(g, e, {t})
    BY <2>4, SparesLess
  <2>6. Spares(d, e, {t})
    BY <2>2, <2>5, SparesCompose
  <2> QED
    BY <2>6 DEF e
<1>4. CASE ~Ack /\ ~LeaseAccepts(d, w, t)
  <2>1. e = d
    BY <1>4 DEF TaskReported
  <2>2. Spares(d, d, {t})
    BY RowsKeptSpares DEF KeptRow
  <2> QED
    BY <2>1, <2>2
<1> QED
  BY <1>1, <1>2, <1>3, <1>4

\* What a worker row names.
Named(d, w) == {t \in Tasks : d.wk[w].task = t}

\* Registration costs the former process of w what it held, and nobody else.
LEMMA RecoverWorkerSpares ==
  ASSUME NEW d, LedgerInv(d), NEW w \in Workers
  PROVE  Spares(d, RecoverWorker(d, w), Named(d, w))
<1> DEFINE U == Named(d, w)
           a == RecoverTask(d, w)
           b == RecoverBundle(a, w)
           c == [b EXCEPT !.wk[w].task = NoTask, !.wk[w].fence = 0]
           t == d.wk[w].task
           g == [d EXCEPT !.task[t].state = "failed"]
           r == a.wk[w].run
           h == Abort(a, {r}, "failed", TRUE)
<1>1. d \in Database /\ d.wk[w] \in WorkerRow
  BY Rows DEF LedgerInv
<1>2. LedgerInv(a)
  BY RecoverTaskKeeps
<1>3. LedgerInv(b)
  BY <1>2, RecoverBundleKeeps
<1>4. LedgerInv(c)
  BY <1>3, UnassignTask DEF WorkerUpdate
<1>5. Spares(d, a, U)
  <2>1. CASE ~LosesTask(d, w)
    <3>1. a = d
      BY <2>1 DEF RecoverTask
    <3>2. Spares(d, d, U)
      BY RowsKeptSpares DEF KeptRow
    <3> QED
      BY <3>1, <3>2
  <2>2. CASE LosesTask(d, w)
    <3>1. t \in Tasks /\ t \in U
      BY <1>1, <2>2 DEF LosesTask, WorkerRow, Named
    <3>2. d.task[t] \in TaskRow /\ RunOf[t] \in Runs
      BY <1>1, <3>1, Rows, ShapeAssumption
    <3>3. a = Abort(g, {RunOf[t]}, "failed", FALSE)
      BY <2>2 DEF RecoverTask
    <3> HIDE DEF t, U, a
    <3>4. /\ g.wk = d.wk /\ g.task[t] = [d.task[t] EXCEPT !.state = "failed"]
          /\ \A u \in Tasks \ {t} : g.task[u] = d.task[u]
      BY <1>1, <3>1 DEF Database
    <3>5. g \in Database
      BY <1>1, <3>1, <3>2 DEF Database, TaskRow, TaskTerminal
    <3> HIDE DEF g
    <3>6. /\ g.task[t].worker = d.task[t].worker /\ g.task[t].expired = d.task[t].expired
          /\ g.task[t].state \notin Fresh
      BY <3>2, <3>4 DEF TaskRow, Fresh, Waiting
    <3>7. \A v \in Workers : KeptRow(d, g, v)
      BY <3>4 DEF KeptRow
    <3>8. Spares(d, g, U)
      BY <3>1, <3>4, <3>6, <3>7, SomeTasksSpares
    <3>9. Spares(g, a, {})
      BY <3>2, <3>3, <3>5, AbortSpares
    <3>10. Spares(g, a, U)
      BY <3>9, SparesLess
    <3> QED
      BY <3>8, <3>10, SparesCompose
  <2> QED
    BY <2>1, <2>2
<1>6. Spares(a, b, U)
  <2>1. CASE ~LosesBundle(a, w)
    <3>1. b = a
      BY <2>1 DEF RecoverBundle
    <3> HIDE DEF a, U
    <3>2. Spares(a, a, U)
      BY RowsKeptSpares DEF KeptRow
    <3> QED
      BY <3>1, <3>2
  <2>2. CASE LosesBundle(a, w)
    <3>1. b = [h EXCEPT !.wk[w].run = NoRun]
      BY <2>2 DEF RecoverBundle
    <3> HIDE DEF a
    <3>2. r \in Runs
      <4>1. a.wk[w] \in WorkerRow
        BY <1>2, Rows DEF LedgerInv
      <4> QED
        BY <2>2, <4>1 DEF LosesBundle, WorkerRow
    <3>3. {r} \in SUBSET Runs /\ "failed" \in TerminalStatus /\ TRUE \in BOOLEAN
      BY <3>2 DEF TerminalStatus
    <3>4. h \in Database /\ Spares(a, h, {})
      BY <1>2, <3>3, AbortKeeps, AbortSpares DEF LedgerInv
    <3> HIDE DEF h, U, b
    <3>5. Spares(a, h, U)
      BY <3>4, SparesLess
    <3>6. Spares(h, b, U)
      BY <3>1, <3>4, RunEndsSpares
    <3> QED
      BY <3>5, <3>6, SparesCompose
  <2> QED
    BY <2>1, <2>2
<1> HIDE DEF a, b, U
<1>7. Spares(d, b, U)
  BY <1>5, <1>6, SparesCompose
<1>8. Spares(b, c, U)
  <2>1. b \in Database /\ b.wk[w] \in WorkerRow
    BY <1>3, Rows DEF LedgerInv
  <2>2. /\ c.task = b.task /\ \A v \in Workers \ {w} : c.wk[v] = b.wk[v]
        /\ c.wk[w] = [[b.wk[w] EXCEPT !.task = NoTask] EXCEPT !.fence = 0]
    BY <2>1 DEF Database
  <2>3. c.wk[w].task = NoTask
    BY <2>1, <2>2 DEF WorkerRow
  <2>4. \A u \in Tasks : b.wk[w].task = u => u \in U
    BY <1>7, NullAssumption DEF Spares, Named, U
  <2> HIDE DEF c
  <2>5. \A v \in Workers : \/ KeptRow(b, c, v)
                           \/ /\ c.wk[v].task \in {b.wk[v].task, NoTask}
                              /\ \A u \in Tasks : b.wk[v].task = u => u \in U
    BY <2>2, <2>3, <2>4 DEF KeptRow
  <2> QED
    BY <2>2, <2>5, SomeTasksSpares
<1> HIDE DEF c
<1>9. Spares(d, c, U)
  BY <1>7, <1>8, SparesCompose
<1>10. Spares(c, Reap(c), {})
  BY <1>4, ReapSpares
<1>11. Spares(c, Reap(c), U)
  BY <1>10, SparesLess
<1>12. RecoverWorker(d, w) = Reap(c)
  BY DEF RecoverWorker, a, b, c
<1> QED
  BY <1>9, <1>11, <1>12, SparesCompose DEF U

\* A new process takes from its predecessor the task its row names.
LEMMA RegisterSpares ==
  ASSUME NEW d, LedgerInv(d), NEW w \in Workers, NEW pid
  PROVE  Spares(d, [IF d.wk[w].pid = 0 THEN d ELSE InterruptRun(RecoverWorker(d, w), d, w)
                    EXCEPT !.wk[w].pid = pid], Named(d, w))
<1> DEFINE U == Named(d, w)
           a == RecoverWorker(d, w)
           b == InterruptRun(a, d, w)
           c == IF d.wk[w].pid = 0 THEN d ELSE b
           e == [c EXCEPT !.wk[w].pid = pid]
<1>1. d \in Database /\ LedgerInv(a) /\ Quiet(d, a)
  BY RecoverWorkerKeeps DEF LedgerInv
<1>2. Spares(d, a, U)
  BY RecoverWorkerSpares
<1> HIDE DEF a, U
<1>3. a \in Database
  BY <1>1 DEF LedgerInv
<1>4. LedgerInv(b) /\ Spares(a, b, U)
  BY <1>1, <1>3, InterruptRunKeeps, RunEndsSpares
<1> HIDE DEF b
<1>5. Spares(d, b, U)
  BY <1>2, <1>4, SparesCompose
<1>6. Spares(d, d, U)
  BY RowsKeptSpares DEF KeptRow
<1>7. LedgerInv(c) /\ Spares(d, c, U)
  BY <1>4, <1>5, <1>6
<1> HIDE DEF c
<1>8. Spares(c, e, U)
  <2>1. c \in Database /\ c.wk[w] \in WorkerRow
    BY <1>7, Rows DEF LedgerInv
  <2>2. /\ e.task = c.task /\ \A v \in Workers \ {w} : e.wk[v] = c.wk[v]
        /\ e.wk[w] = [c.wk[w] EXCEPT !.pid = pid]
    BY <2>1 DEF Database
  <2>3. e.wk[w].task = c.wk[w].task
    BY <2>1, <2>2 DEF WorkerRow
  <2>4. \A u \in Tasks : c.wk[w].task = u => u \in U
    BY <1>7, NullAssumption DEF Spares, Named, U
  <2> HIDE DEF e
  <2>5. \A v \in Workers : \/ KeptRow(c, e, v)
                           \/ /\ e.wk[v].task \in {c.wk[v].task, NoTask}
                              /\ \A u \in Tasks : c.wk[v].task = u => u \in U
    BY <2>2, <2>3, <2>4 DEF KeptRow
  <2> QED
    BY <2>2, <2>5, SomeTasksSpares
<1> HIDE DEF e
<1>9. Spares(d, e, U)
  BY <1>7, <1>8, SparesCompose
<1> QED
  BY <1>9 DEF a, b, c, e, U

\* A process downloads t under a lease that has not run out.
Downloaded(d, p, t) == \E w \in Workers : p[w].exec = t /\ ~d.task[t].expired
\* The settlement of a stop leaves alone what is still downloaded: a target that
\* Windows confirmed has lost its process, or has moved on.
LEMMA SettleSpares ==
  ASSUME NEW d \in Database, NEW p, Covered(d, p, stop), TargetsKnown(stop),
         NEW k, NEW r, <<k, r>> \in StopKeys, stop[<<k, r>>].phase = "stopping"
  PROVE  Spares(d, Settle(d, k, r), {t \in Tasks : ~Downloaded(d, p, t)})
<1> DEFINE key == <<k, r>>
           tg == stop[key].tg
           Done == {w \in Workers : Confirmed(tg[w])}
           Over(t) == d.task[t].state = "cancelling"
                        /\ \E w \in Done : tg[w].task = t /\ d.task[t].worker = w
           U == {t \in Tasks : ~Downloaded(d, p, t)}
           e == Settle(d, k, r)
<1>1. /\ \A t \in Tasks : d.task[t] \in TaskRow
      /\ \A w \in Workers : d.wk[w] \in WorkerRow
  BY Rows
<1>2. /\ e.task = [t \in Tasks |->
                     IF Over(t) THEN [d.task[t] EXCEPT !.state = "cancelled"] ELSE d.task[t]]
      /\ e.wk = [w \in Workers |->
                   IF w \in Done /\ d.wk[w].fence = tg[w].pid
                   THEN [d.wk[w] EXCEPT !.task = NoTask, !.fence = 0] ELSE d.wk[w]]
  BY DEF Settle, Database
<1>3. \A w \in Done : w \in Workers /\ Follows(stop, key, w) /\ tg[w].pid # 0 /\ Confirmed(tg[w])
  BY DEF Follows, Confirmed, TargetsKnown
<1>4. key \in StopKeys /\ key[2] = r
  OBVIOUS
<1>5. \A t \in Tasks : Over(t) => d.task[t].worker \in Done /\ tg[d.task[t].worker].task = t
  OBVIOUS
<1> HIDE DEF e, Done, Over, U, key
<1>6. ASSUME NEW t \in Tasks
      PROVE  /\ e.task[t].worker = d.task[t].worker /\ e.task[t].expired = d.task[t].expired
             /\ e.task[t].state = d.task[t].state \/ (Over(t) /\ e.task[t].state = "cancelled")
  <2>1. CASE Over(t)
    <3>1. e.task[t] = [d.task[t] EXCEPT !.state = "cancelled"]
      BY <1>2, <2>1
    <3> QED
      BY <1>1, <2>1, <3>1 DEF TaskRow
  <2>2. CASE ~Over(t)
    BY <1>2, <2>2
  <2> QED
    BY <2>1, <2>2
<1>7. \A t \in Tasks : Onward(d, e, t)
  BY <1>6 DEF Onward, Fresh, Waiting
<1>8. ASSUME NEW w \in Workers
      PROVE  /\ e.wk[w].task \in {d.wk[w].task, NoTask}
             /\ ~(w \in Done /\ d.wk[w].fence = tg[w].pid) => e.wk[w] = d.wk[w]
  <2>1. CASE w \in Done /\ d.wk[w].fence = tg[w].pid
    <3>1. e.wk[w] = [[d.wk[w] EXCEPT !.task = NoTask] EXCEPT !.fence = 0]
      BY <1>2, <2>1
    <3> QED
      BY <1>1, <2>1, <3>1 DEF WorkerRow
  <2>2. CASE ~(w \in Done /\ d.wk[w].fence = tg[w].pid)
    BY <1>2, <2>2
  <2> QED
    BY <2>1, <2>2
<1>9. ASSUME NEW w \in Workers, NEW t \in Tasks \ U, Held(d, w, t)
      PROVE  e.task[t].state \in TaskActive /\ KeptRow(d, e, w)
  <2>1. PICK v \in Workers : p[v].exec = t /\ ~d.task[t].expired
    BY DEF U, Downloaded
  <2>2. Held(d, v, t)
    BY <2>1 DEF Covered, Attended
  <2>3. v = w
    BY <1>9, <2>2 DEF Held
  <2>4. ASSUME w \in Done PROVE tg[w].task # t /\ d.wk[w].fence # tg[w].pid
    <3>1. Clear(d, r, tg[w], w, t)
      BY <1>3, <1>4, <2>1, <2>3, <2>4 DEF Covered, Aimed
    <3> QED
      BY <1>3, <1>9, <2>4, <3>1 DEF Clear, Held
  <2>5. ~Over(t)
    BY <1>5, <1>9, <2>4 DEF Held
  <2>6. e.task[t].state = d.task[t].state
    BY <1>6, <2>5
  <2>7. e.wk[w] = d.wk[w]
    BY <1>8, <2>4
  <2> QED
    BY <1>9, <2>6, <2>7 DEF Held, KeptRow
<1>10. Spares(d, e, U)
  BY <1>7, <1>8, <1>9 DEF Spares
<1> QED
  BY <1>10 DEF e, U

\* claim_task hands a task to a registered process that downloads nothing, of
\* a worker that is not latched, in a bundle that nobody stops.
LEMMA OfferCovered ==
  ASSUME NEW d, LedgerInv(d), NEW p \in [Workers -> ProcRow], Covered(d, p, stop),
         Agreed(d, StopsOf(stop)),
         NEW w \in Workers, p[w].up, p[w].pid = d.wk[w].pid, p[w].exec = NoTask,
         NEW R, NEW t \in TaskOffers(d, w, R)
  PROVE  Covered(AssignTask(d, w, t), [p EXCEPT ![w].exec = t], stop)
<1> DEFINE e == AssignTask(d, w, t)
           q == [p EXCEPT ![w].exec = t]
           row == [state |-> "claimed", worker |-> w, expired |-> FALSE]
<1>1. d \in Database /\ d.wk[w] \in WorkerRow
  BY Rows DEF LedgerInv
<1>2. t \in Tasks /\ ((d.wk[w].task = t /\ d.task[t].state = "claimed") \/ Claimable(d, w, t))
  BY <1>1, OffersClaimable
<1>3. d.wk[w].fence = 0
  BY DEF TaskOffers
<1>4. /\ q[w].exec = t /\ q[w].up = p[w].up /\ q[w].pid = p[w].pid
      /\ \A v \in Workers \ {w} : q[v] = p[v]
  BY DEF ProcRow
<1>5. \A key \in StopKeys, v \in Workers : Follows(stop, key, v) => d.fan[key[2]].state \in Ending
  <2>1. \A key \in StopKeys : stop[key].phase = "stopping" => key[2] \in StopsOf(stop)
    BY StopKeysAssumption DEF StopsOf
  <2> QED
    BY <2>1, StopKeysAssumption DEF Follows, Agreed
<1> HIDE DEF e, q
<1>6. /\ e.task[t].state = "claimed" /\ e.task[t].worker = w
      /\ \A u \in Tasks \ {t} : e.task[u] = d.task[u]
      /\ e.wk[w].task = t /\ e.wk[w].run = d.wk[w].run /\ e.wk[w].fence = 0
      /\ e.wk[w].pid = d.wk[w].pid
      /\ \A v \in Workers \ {w} : e.wk[v] = d.wk[v]
      /\ d.task[t].state \in Fresh /\ d.fan[RunOf[t]].state = "downloading"
      /\ d.wk[w].run \in {NoRun, RunOf[t]}
      /\ \A v \in Workers \ {w} : d.wk[v].task # t
      /\ e.task[t] = d.task[t] \/ d.task[t].state = "queued"
  <2>1. CASE d.wk[w].task = t /\ d.task[t].state = "claimed"
    <3>1. d.task[t].worker = w /\ Leased(d, t)
      BY <1>2, <2>1 DEF Covered, Taken, Agreed
    <3>2. e = d
      BY <2>1 DEF e, AssignTask
    <3>3. \A v \in Workers \ {w} : d.wk[v].task # t
      BY <1>2, <3>1 DEF Covered, Taken
    <3> QED
      BY <1>3, <2>1, <3>1, <3>2, <3>3 DEF Leased, Fresh
  <2>2. CASE ~(d.wk[w].task = t /\ d.task[t].state = "claimed")
    <3>1. /\ d.task[t].state = "queued" /\ d.fan[RunOf[t]].state = "downloading"
          /\ d.wk[w].run \in {NoRun, RunOf[t]}
      BY <1>2, <2>2 DEF Claimable, OwnsRun, HasSlot
    <3>2. /\ e.task = [d.task EXCEPT ![t] = row]
          /\ e.wk[w] = [d.wk[w] EXCEPT !.task = t]
          /\ \A v \in Workers \ {w} : e.wk[v] = d.wk[v]
      BY <1>1, <1>2, <2>2 DEF AssignTask, Database, e
    <3>3. /\ e.wk[w].run = d.wk[w].run /\ e.wk[w].task = t
          /\ e.wk[w].pid = d.wk[w].pid /\ e.wk[w].fence = 0
      BY <1>1, <1>3, <3>2 DEF WorkerRow
    <3>4. e.task[t] = row /\ \A u \in Tasks \ {t} : e.task[u] = d.task[u]
      BY <1>1, <1>2, <3>2 DEF Database
    <3>5. e.task[t].state = "claimed" /\ e.task[t].worker = w
      BY <3>4
    <3>6. \A v \in Workers : d.wk[v].task # t
      BY <1>2, <3>1 DEF Covered, Taken, Waiting
    <3> QED
      BY <3>1, <3>2, <3>3, <3>4, <3>5, <3>6 DEF Fresh, Waiting
  <2> QED
    BY <2>1, <2>2
<1>7. ASSUME NEW v \in Workers, NEW u \in Tasks, q[v].exec = u
      PROVE  \/ v = w /\ u = t
             \/ v # w /\ p[v].exec = u /\ e.wk[v] = d.wk[v] /\ q[v] = p[v] /\ e.task[u] = d.task[u]
  <2>1. CASE v = w
    BY <1>4, <1>7, <2>1
  <2>2. CASE v # w
    <3>1. p[v].exec = u /\ e.wk[v] = d.wk[v] /\ q[v] = p[v]
      BY <1>4, <1>6, <1>7, <2>2
    <3>2. d.task[u].state # "queued"
      BY <3>1 DEF Covered, Attended, Waiting
    <3> QED
      BY <1>6, <2>2, <3>1, <3>2
  <2> QED
    BY <2>1, <2>2
<1>8. Taken(e)
  <2> SUFFICES ASSUME NEW v \in Workers, NEW u \in Tasks, e.wk[v].task = u
               PROVE  e.task[u].worker = v /\ e.task[u].state \notin Waiting
    BY DEF Taken
  <2>1. CASE v = w
    BY <1>6, <2>1 DEF Waiting
  <2>2. CASE v # w
    <3>1. d.wk[v].task = u /\ u # t
      BY <1>6, <2>2
    <3> QED
      BY <1>6, <3>1 DEF Covered, Taken
  <2> QED
    BY <2>1, <2>2
<1>9. Held(e, w, t)
  BY <1>6 DEF Held, TaskActive
<1>10. Attended(e, q)
  <2> SUFFICES ASSUME NEW v \in Workers, NEW u \in Tasks, q[v].exec = u
               PROVE  /\ e.task[u].state \notin Waiting
                      /\ ~e.task[u].expired => Held(e, v, u) /\ q[v].up /\ q[v].pid = e.wk[v].pid
    BY DEF Attended
  <2>1. CASE v = w /\ u = t
    BY <1>4, <1>6, <1>9, <2>1 DEF Waiting
  <2>2. CASE v # w /\ p[v].exec = u /\ e.wk[v] = d.wk[v] /\ q[v] = p[v] /\ e.task[u] = d.task[u]
    BY <2>2 DEF Covered, Attended, Held
  <2> QED
    BY <1>7, <2>1, <2>2
<1>11. Spent(e, stop)
  BY <1>6 DEF Covered, Spent
<1>12. Aimed(e, q, stop)
  <2> SUFFICES ASSUME NEW key \in StopKeys, NEW v \in Workers, NEW u \in Tasks,
                      Follows(stop, key, v), q[v].exec = u, ~e.task[u].expired
               PROVE  Clear(e, key[2], stop[key].tg[v], v, u)
    BY DEF Aimed
  <2>1. CASE v = w /\ u = t
    <3>1. stop[key].tg[w].task # t
      BY <1>2, <1>6, <2>1 DEF Covered, Spent
    <3>2. RunOf[t] # key[2]
      BY <1>5, <1>6 DEF Ending
    <3> QED
      BY <1>6, <2>1, <3>1, <3>2 DEF Clear
  <2>2. CASE v # w /\ p[v].exec = u /\ e.wk[v] = d.wk[v] /\ q[v] = p[v] /\ e.task[u] = d.task[u]
    <3>1. Clear(d, key[2], stop[key].tg[v], v, u)
      BY <2>2 DEF Covered, Aimed
    <3> QED
      BY <2>2, <3>1 DEF Clear
  <2> QED
    BY <1>7, <2>1, <2>2
<1>13. Covered(e, q, stop)
  BY <1>8, <1>10, <1>11, <1>12 DEF Covered
<1> QED
  BY <1>13 DEF e, q

\* A stop learns what became of one target: only a kill of its own, or a worker
\* that is not the latched process any more, confirms it.
LEMMA ResultCovered ==
  ASSUME NEW d, NEW p, Covered(d, p, stop), stop \in [StopKeys -> StopRow],
         NEW key \in StopKeys, NEW w \in Workers, NEW res, stop[key].tg[w].res # "none",
         stop' = [stop EXCEPT ![key].tg[w].res = res],
         \/ res \notin {"stopped", "replaced"}
         \/ p[w].exec = NoTask
         \/ ~SameProcess(d, w, stop[key].tg[w])
  PROVE  Covered(d, p, stop')
<1> DEFINE old == stop[key].tg[w]
           new == [old EXCEPT !.res = res]
<1>1. stop[key] \in StopRow /\ stop[key].tg \in [Workers -> Target] /\ old \in Target
  BY DEF StopRow
<1>2. new.task = old.task /\ new.pid = old.pid /\ new.res = res
  BY <1>1 DEF Target
<1>3. /\ \A a \in StopKeys : stop'[a].phase = stop[a].phase
      /\ \A a \in StopKeys, v \in Workers : ~(a = key /\ v = w) => stop'[a].tg[v] = stop[a].tg[v]
      /\ stop'[key].tg[w] = new
  BY <1>1 DEF StopRow
<1>4. \A a \in StopKeys, v \in Workers :
        /\ Follows(stop', a, v) => Follows(stop, a, v)
        /\ stop'[a].tg[v].task = stop[a].tg[v].task
  BY <1>2, <1>3 DEF Follows
<1> HIDE DEF old, new
<1>5. ASSUME NEW a \in StopKeys, NEW v \in Workers, NEW t \in Tasks,
             Follows(stop', a, v), p[v].exec = t, ~d.task[t].expired
      PROVE  Clear(d, a[2], stop'[a].tg[v], v, t)
  <2>1. Clear(d, a[2], stop[a].tg[v], v, t)
    BY <1>4, <1>5 DEF Covered, Aimed
  <2>2. CASE ~(a = key /\ v = w)
    BY <1>3, <2>1, <2>2
  <2>3. CASE a = key /\ v = w
    <3>1. Clear(d, key[2], old, w, t) /\ t # NoTask
      BY <2>1, <2>3, NullAssumption DEF old
    <3>2. d.wk[w].fence = old.pid /\ old.pid = d.wk[w].pid => res \notin {"stopped", "replaced"}
      BY <1>5, <2>3, <3>1 DEF SameProcess, old
    <3>3. Clear(d, key[2], new, w, t)
      BY <1>2, <3>1, <3>2 DEF Clear, Confirmed
    <3> QED
      BY <1>3, <2>3, <3>3
  <2> QED
    BY <2>2, <2>3
<1>6. Aimed(d, p, stop')
  BY <1>5 DEF Aimed
<1>7. Spent(d, stop')
  BY <1>4 DEF Covered, Spent
<1> QED
  BY <1>6, <1>7 DEF Covered

\* The latch of a stop: whoever still downloads under a running lease downloads
\* for the stopped run, and no other stop has latched the same process.
LEMMA FenceCovered ==
  ASSUME BundleInv, Assigned, Covered(db, proc, stop), LatchNotShared',
         NEW k, NEW r \in Runs, <<k, r>> \in StopKeys, StopFence(k, r)
  PROVE  Covered(db', proc', stop')
<1> DEFINE key == <<k, r>>
           T == StopTargets(db, k, r)
           e == [db EXCEPT !.wk = [w \in Workers |-> IF w \in T
                   THEN [db.wk[w] EXCEPT !.fence = db.wk[w].pid] ELSE db.wk[w]]]
           Latched(w) == [task |-> db.wk[w].task, pid |-> db.wk[w].pid, res |-> "pending"]
           row == [phase |-> "stopping",
                   tg |-> [w \in Workers |-> IF w \in T THEN Latched(w) ELSE NoTarget]]
           z == stop'
<1>1. /\ db \in Database /\ stop \in [StopKeys -> StopRow] /\ key \in StopKeys /\ key[2] = r
      /\ Agreed(db, StopsOf(stop)) /\ \A w \in Workers : db.wk[w] \in WorkerRow
  BY Rows DEF BundleInv, TypeOK, Assigned
<1>2. stop[key].phase = "fencing" /\ db' = e /\ z = [stop EXCEPT ![key] = row] /\ proc' = proc
  BY DEF StopFence
<1>3. /\ e.task = db.task
      /\ e.wk = [w \in Workers |->
                   IF w \in T THEN [db.wk[w] EXCEPT !.fence = db.wk[w].pid] ELSE db.wk[w]]
  BY <1>1 DEF Database
<1>4. \A w \in T : \/ db.wk[w].run = r
                   \/ /\ db.wk[w].task # NoTask /\ RunOf[db.wk[w].task] = r
                      /\ db.task[db.wk[w].task].state = "cancelling"
  BY DEF StopTargets
<1>5. T \in SUBSET Workers
  BY DEF StopTargets
<1>6. /\ z[key].phase = "stopping"
      /\ \A w \in Workers : w \notin T => z[key].tg[w].res = "none"
      /\ \A w \in T : /\ z[key].tg[w].task = db.wk[w].task /\ z[key].tg[w].pid = db.wk[w].pid
                      /\ z[key].tg[w].res = "pending"
      /\ \A a \in StopKeys : a # key => z[a] = stop[a]
  BY <1>1, <1>2, <1>5 DEF NoTarget
<1>7. \A a, b \in StopKeys, w \in Workers :
        Follows(z, a, w) /\ Follows(z, b, w) /\ z[a].tg[w].pid = z[b].tg[w].pid => a[2] = b[2]
  BY DEF LatchNotShared, Follows
<1>8. db.fan[r].state \in Ending
  <2>1. r \in StopsOf(stop)
    BY <1>1, <1>2 DEF StopsOf
  <2> QED
    BY <1>1, <2>1 DEF Agreed
<1> HIDE DEF e, T, key, row, z
<1>9. ASSUME NEW w \in Workers
      PROVE  /\ e.wk[w].task = db.wk[w].task /\ e.wk[w].run = db.wk[w].run
             /\ e.wk[w].pid = db.wk[w].pid
             /\ e.wk[w].fence = IF w \in T THEN db.wk[w].pid ELSE db.wk[w].fence
  <2>1. CASE w \in T
    <3>1. e.wk[w] = [db.wk[w] EXCEPT !.fence = db.wk[w].pid]
      BY <1>3, <2>1
    <3> QED
      BY <1>1, <2>1, <3>1 DEF WorkerRow
  <2>2. CASE w \notin T
    BY <1>3, <2>2
  <2> QED
    BY <2>1, <2>2
<1>10. Taken(e)
  BY <1>3, <1>9 DEF Covered, Taken
<1>11. Attended(e, proc)
  BY <1>3, <1>9 DEF Covered, Attended, Held
<1>12. ASSUME NEW w \in T, NEW t \in Tasks, db.wk[w].task = t PROVE db.task[t].state \notin Fresh
  <2>1. db.task[t].worker = w /\ db.task[t].state \notin Waiting
    BY <1>5, <1>12 DEF Covered, Taken
  <2>2. ASSUME db.task[t].state = "claimed" PROVE FALSE
    <3>1. db.wk[w].run \in {NoRun, RunOf[t]} /\ db.fan[RunOf[t]].state = "downloading"
      BY <1>1, <2>1, <2>2 DEF Agreed, Leased
    <3>2. db.wk[w].run = r
      BY <1>4, <1>12, <2>2
    <3> QED
      BY <1>8, <3>1, <3>2, NullAssumption DEF Ending
  <2> QED
    BY <2>1, <2>2 DEF Fresh
<1>13. ASSUME NEW a \in StopKeys, NEW w \in Workers, NEW t \in Tasks,
              Follows(z, a, w), z[a].tg[w].task = t
       PROVE  e.task[t].state \notin Fresh
  <2>1. CASE a = key
    BY <1>3, <1>6, <1>12, <1>13, <2>1 DEF Follows
  <2>2. CASE a # key
    BY <1>3, <1>6, <1>13, <2>2 DEF Follows, Covered, Spent
  <2> QED
    BY <2>1, <2>2
<1>14. ASSUME NEW a \in StopKeys, NEW w \in Workers, NEW t \in Tasks,
              Follows(z, a, w), proc[w].exec = t, ~e.task[t].expired
       PROVE  Clear(e, a[2], z[a].tg[w], w, t)
  <2>1. Held(db, w, t)
    BY <1>3, <1>14 DEF Covered, Attended
  <2>2. w \in T => RunOf[t] = r
    BY <1>4, <2>1, NullAssumption DEF Held
  <2>3. CASE a = key
    <3>1. w \in T
      BY <1>6, <1>14, <2>3 DEF Follows
    <3> QED
      BY <1>1, <1>6, <1>9, <2>2, <2>3, <3>1 DEF Clear, Confirmed
  <2>4. CASE a # key
    <3>1. Follows(stop, a, w) /\ z[a].tg[w] = stop[a].tg[w]
      BY <1>6, <1>14, <2>4 DEF Follows
    <3>2. Clear(db, a[2], stop[a].tg[w], w, t)
      BY <1>3, <1>14, <3>1 DEF Covered, Aimed
    <3>3. CASE w \notin T
      BY <1>9, <3>1, <3>2, <3>3 DEF Clear
    <3>4. CASE w \in T
      <4>1. Follows(z, key, w)
        BY <1>6, <3>4 DEF Follows
      <4>2. z[a].tg[w].pid = db.wk[w].pid => a[2] = r
        BY <1>1, <1>6, <1>7, <1>14, <3>4, <4>1
      <4> QED
        BY <1>9, <2>2, <3>1, <3>2, <3>4, <4>2 DEF Clear
    <3> QED
      BY <3>3, <3>4
  <2> QED
    BY <2>3, <2>4
<1>15. Spent(e, z)
  BY <1>13 DEF Spent
<1>16. Aimed(e, proc, z)
  BY <1>14 DEF Aimed
<1>17. Covered(e, proc, z)
  BY <1>10, <1>11, <1>15, <1>16 DEF Covered
<1> QED
  BY <1>2, <1>17 DEF z

\* One process gives up its export or its token, ends, or starts with neither.
LEMMA RowRetires ==
  ASSUME NEW p \in [Workers -> ProcRow], NEW q, NEW w \in Workers, NEW row,
         q = [p EXCEPT ![w] = row],
         row.exec \in Tasks => row.exec = p[w].exec /\ row.up = p[w].up /\ row.pid = p[w].pid
  PROVE  Retires(p, q)
<1>1. ASSUME NEW v \in Workers, NEW t \in Tasks, q[v].exec = t
      PROVE  p[v].exec = t /\ q[v].up = p[v].up /\ q[v].pid = p[v].pid
  <2>1. q[v] = IF v = w THEN row ELSE p[v]
    OBVIOUS
  <2> QED
    BY <1>1, <2>1
<1> QED
  BY <1>1 DEF Retires

\* The ways in which a process gives up what it was doing.
LEMMA ProcessRetires ==
  ASSUME NEW p \in [Workers -> ProcRow], NEW q, NEW w \in Workers, NEW token,
         NEW exec, exec \in {p[w].exec, NoTask},
         \/ q = [p EXCEPT ![w].exec = exec]
         \/ q = [p EXCEPT ![w].token = token]
         \/ q = [p EXCEPT ![w].up = FALSE, ![w].exec = NoTask, ![w].token = NoRun]
  PROVE  Retires(p, q)
<1>1. p[w] \in ProcRow /\ NoTask \notin Tasks
  BY NullAssumption
<1>2. CASE q = [p EXCEPT ![w].exec = exec]
  <2> DEFINE row == [p[w] EXCEPT !.exec = exec]
  <2>1. row.exec = exec /\ row.up = p[w].up /\ row.pid = p[w].pid
    BY <1>1 DEF ProcRow
  <2>2. q = [p EXCEPT ![w] = row]
    BY <1>2
  <2> HIDE DEF row
  <2> QED
    BY <1>1, <2>1, <2>2, RowRetires
<1>3. CASE q = [p EXCEPT ![w].token = token]
  <2> DEFINE row == [p[w] EXCEPT !.token = token]
  <2>1. row.exec = p[w].exec /\ row.up = p[w].up /\ row.pid = p[w].pid
    BY <1>1 DEF ProcRow
  <2>2. q = [p EXCEPT ![w] = row]
    BY <1>3
  <2> HIDE DEF row
  <2> QED
    BY <2>1, <2>2, RowRetires
<1>4. CASE q = [p EXCEPT ![w].up = FALSE, ![w].exec = NoTask, ![w].token = NoRun]
  <2> DEFINE row == [[[p[w] EXCEPT !.up = FALSE] EXCEPT !.exec = NoTask] EXCEPT !.token = NoRun]
  <2>1. row.exec = NoTask
    BY <1>1 DEF ProcRow
  <2>2. q = [p EXCEPT ![w] = row]
    BY <1>4
  <2> HIDE DEF row
  <2> QED
    BY <1>1, <2>1, <2>2, RowRetires
<1> QED
  BY <1>2, <1>3, <1>4

\* A step that spares every held lease keeps the downloads covered.
LEMMA SparingStep ==
  ASSUME Covered(db, proc, stop), NEW e, Spares(db, e, {}), db' = e,
         Retires(proc, proc'), Ceases(stop, stop')
  PROVE  Covered(db', proc', stop')
<1> DEFINE q == proc'
           z == stop'
           U == {}
<1>1. Retires(proc, q) /\ Ceases(stop, z) /\ Spares(db, e, U)
  OBVIOUS
<1>2. \A w \in Workers, t \in U : q[w].exec = t => db.task[t].expired
  OBVIOUS
<1> HIDE DEF q, z, U
<1>3. Covered(e, q, z)
  BY <1>1, <1>2, SparesCovered
<1> QED
  BY <1>3 DEF q, z

\* Every action of a worker's main thread.
LEMMA WorkerCovered ==
  ASSUME BundleInv, Assigned, Covered(db, proc, stop), NEW w \in Workers, WorkerStep(w)
  PROVE  Covered(db', proc', stop')
<1> DEFINE d == Reap(db)
           S == StopsOf(stop)
<1>1. /\ LedgerInv(db) /\ db \in Database /\ Agreed(db, S)
      /\ proc \in [Workers -> ProcRow] /\ PidsKnown(proc)
  BY DEF BundleInv, LedgerInv, TypeOK, Assigned
<1>2. stop' = stop /\ Ceases(stop, stop')
  BY DEF WorkerStep, StartProcess, Crash, RegisterWorker, Unwind, FinalizerUnwinds, ClaimRunTask,
         ClaimRunHeld, ClaimRunNew, ClaimRunIdle, ReportTask, Ceases
<1>3. LedgerInv(d) /\ Spares(db, d, {}) /\ Agreed(d, S) /\ Narrow(db, d)
  BY <1>1, ReapKeeps, ReapSpares, ReapAgrees
<1> HIDE DEF S
<1>4. Spares(db, db, {}) /\ Retires(proc, proc)
  BY RowsKeptSpares DEF KeptRow, Retires
<1>5. d \in Database
  BY <1>3 DEF LedgerInv
<1> HIDE DEF d
<1>6. ASSUME NEW e, Spares(db, e, {}), db' = e, Retires(proc, proc') PROVE Covered(db', proc', stop')
  BY <1>2, <1>6, SparingStep
<1>7. ASSUME NEW e, Spares(d, e, {}), db' = e, proc' = proc PROVE Covered(db', proc', stop')
  <2>1. Spares(db, e, {})
    BY <1>3, <1>7, SparesCompose
  <2> QED
    BY <1>4, <1>6, <1>7, <2>1
<1>8. CASE StartProcess(w)
  <2> DEFINE pid == proc[w].pid + 1
             row == [NoProcess EXCEPT !.pid = pid, !.up = TRUE]
             q == proc'
  <2>1. q = [proc EXCEPT ![w] = row] /\ db' = db
    BY <1>8, Zenon DEF StartProcess
  <2> HIDE DEF pid
  <2>2. row.exec = NoTask
    BY DEF NoProcess
  <2> HIDE DEF row, q
  <2>3. Retires(proc, q)
    BY <1>1, <2>1, <2>2, NullAssumption, RowRetires
  <2> QED
    BY <1>4, <1>6, <2>1, <2>3 DEF q
<1>9. CASE Crash(w) \/ Unwind(w) \/ FinalizerUnwinds(w)
  <2> DEFINE q == proc'
             exec == NoTask
             token == NoRun
  <2>1. db' = db
    BY <1>9 DEF Crash, Unwind, FinalizerUnwinds
  <2>2. \/ q = [proc EXCEPT ![w].exec = exec]
        \/ q = [proc EXCEPT ![w].token = token]
        \/ q = [proc EXCEPT ![w].up = FALSE, ![w].exec = NoTask, ![w].token = NoRun]
    BY <1>9 DEF Crash, Unwind, FinalizerUnwinds, Killed
  <2>3. exec \in {proc[w].exec, NoTask}
    OBVIOUS
  <2> HIDE DEF q, exec, token
  <2>4. Retires(proc, q)
    BY <1>1, <2>2, <2>3, ProcessRetires
  <2> QED
    BY <1>4, <1>6, <2>1, <2>4 DEF q
<1>10. CASE RegisterWorker(w)
  <2> DEFINE U == Named(db, w)
             e == [IF db.wk[w].pid = 0 THEN db ELSE InterruptRun(RecoverWorker(db, w), db, w)
                   EXCEPT !.wk[w].pid = proc[w].pid]
  <2>1. db' = e /\ proc' = proc /\ stop' = stop /\ proc[w].up /\ db.wk[w].pid # proc[w].pid
    BY <1>2, <1>10 DEF RegisterWorker
  <2>2. Spares(db, e, U)
    BY <1>1, RegisterSpares
  <2>3. ASSUME NEW v \in Workers, NEW t \in U, proc[v].exec = t PROVE db.task[t].expired
    <3>1. t \in Tasks /\ db.wk[w].task = t
      BY DEF Named
    <3>2. ASSUME ~db.task[t].expired PROVE FALSE
      <4>1. Held(db, v, t) /\ proc[v].pid = db.wk[v].pid
        BY <2>3, <3>1, <3>2 DEF Covered, Attended
      <4>2. v = w
        BY <3>1, <4>1 DEF Covered, Taken, Held
      <4> QED
        BY <2>1, <4>1, <4>2
    <3> QED
      BY <3>2
  <2> HIDE DEF e, U
  <2>4. Covered(e, proc, stop)
    BY <1>4, <2>2, <2>3, SparesCovered DEF Ceases
  <2> QED
    BY <2>1, <2>4
<1>11. CASE ClaimRunTask(w)
  <2>1. PICK t \in TaskOffers(d, w, Runs) :
          db' = AssignTask(d, w, t) /\ proc' = [proc EXCEPT ![w].exec = t] /\ Idle(w)
    BY <1>11 DEF ClaimRunTask, Offer, d
  <2>2. Covered(d, proc, stop)
    BY <1>3, <1>4, SparesCovered DEF Ceases
  <2>3. proc[w].up /\ proc[w].pid = d.wk[w].pid /\ proc[w].exec = NoTask
    BY <1>3, <2>1 DEF Idle, Free, Registered, Narrow
  <2>4. Covered(AssignTask(d, w, t), [proc EXCEPT ![w].exec = t], stop)
    BY <1>1, <1>3, <2>1, <2>2, <2>3, OfferCovered DEF S
  <2> QED
    BY <1>2, <2>1, <2>4
<1>12. CASE ClaimRunHeld(w)
  <2>1. db' = d /\ proc' = proc
    BY <1>12 DEF ClaimRunHeld, Nothing, d
  <2> QED
    BY <1>3, <1>4, <1>6, <2>1
<1>13. CASE ClaimRunNew(w)
  <2>1. PICK r \in RunOffers(d, w) : db' = AssignRun(d, w, r) /\ proc' = proc /\ NeedsRun(d, w)
    BY <1>13 DEF ClaimRunNew, d
  <2>2. Spares(d, AssignRun(d, w, r), {})
    BY <1>5, <2>1, AssignRunSpares
  <2> QED
    BY <1>7, <2>1, <2>2
<1>14. CASE ClaimRunIdle(w)
  <2>1. db' = RunIdle(d, w) /\ proc' = proc
    BY <1>14 DEF ClaimRunIdle, Nothing, d
  <2>2. Spares(d, RunIdle(d, w), {})
    BY <1>5, RunEndsSpares
  <2> QED
    BY <1>7, <2>1, <2>2
<1>15. ASSUME NEW t \in Tasks, NEW status \in TaskTerminal, ReportTask(w, t, status) PROVE Covered(db', proc', stop')
  <2> DEFINE e == TaskReported(db, w, t, status)
             exec == IF proc[w].exec = t THEN NoTask ELSE proc[w].exec
             q == [proc EXCEPT ![w].exec = exec]
             U == {t}
  <2>1. db' = e /\ proc' = q /\ stop' = stop /\ db.task[t].worker = w
    BY <1>1, <1>2, <1>15 DEF ReportTask, ProcRow
  <2>2. Spares(db, e, U)
    BY <1>1, TaskReportedSpares
  <2>3. exec \in {proc[w].exec, NoTask} /\ exec # t
    BY NullAssumption
  <2>4. q[w].exec = exec
    BY <1>1 DEF ProcRow
  <2> HIDE DEF exec
  <2>5. Retires(proc, q)
    BY <1>1, <2>3, ProcessRetires
  <2> HIDE DEF q, e
  <2>6. ASSUME NEW v \in Workers, q[v].exec = t PROVE db.task[t].expired
    <3>1. v # w /\ proc[v].exec = t
      BY <2>3, <2>4, <2>5, <2>6 DEF Retires
    <3> QED
      BY <2>1, <3>1 DEF Covered, Attended, Held
  <2>7. \A v \in Workers, u \in U : q[v].exec = u => db.task[u].expired
    BY <2>6
  <2> HIDE DEF U
  <2>8. Covered(e, q, stop)
    BY <2>2, <2>5, <2>7, SparesCovered DEF Ceases
  <2> QED
    BY <2>1, <2>8
<1>16. Covered(db', proc', stop')
  BY <1>8, <1>9, <1>10, <1>11, <1>12, <1>13, <1>14, <1>15 DEF WorkerStep
<1> QED
  BY <1>16

\* A stop that has not begun to follow processes, or does so no longer.
LEMMA StopCeases ==
  ASSUME stop \in [StopKeys -> StopRow], NEW key \in StopKeys, NEW row, NEW phase, phase # "stopping",
         \/ stop' = [stop EXCEPT ![key].phase = phase]
         \/ stop' = [stop EXCEPT ![key] = row] /\ row.phase = phase
  PROVE  Ceases(stop, stop')
<1>1. stop[key] \in StopRow
  OBVIOUS
<1>2. CASE stop' = [stop EXCEPT ![key].phase = phase]
  <2> DEFINE new == [stop[key] EXCEPT !.phase = phase]
  <2>1. new.phase = phase
    BY <1>1 DEF StopRow
  <2>2. stop' = [stop EXCEPT ![key] = new]
    BY <1>2
  <2> HIDE DEF new
  <2> QED
    BY <2>1, <2>2 DEF Ceases
<1>3. CASE stop' = [stop EXCEPT ![key] = row] /\ row.phase = phase
  BY <1>3 DEF Ceases
<1> QED
  BY <1>2, <1>3

\* A process that takes or gives up a token downloads what it did.
LEMMA TokenRetires ==
  ASSUME NEW p \in [Workers -> ProcRow], NEW q, NEW w \in Workers, NEW token,
         q = [p EXCEPT ![w].token = token]
  PROVE  Retires(p, q)
<1> DEFINE exec == NoTask
<1>1. exec \in {p[w].exec, NoTask}
  OBVIOUS
<1>2. \/ q = [p EXCEPT ![w].exec = exec]
      \/ q = [p EXCEPT ![w].token = token]
      \/ q = [p EXCEPT ![w].up = FALSE, ![w].exec = NoTask, ![w].token = NoRun]
  OBVIOUS
<1> HIDE DEF exec
<1> QED
  BY <1>1, <1>2, ProcessRetires

\* Every action of a coordinator.
LEMMA CoordinatorCovered ==
  ASSUME BundleInv, Assigned, Covered(db, proc, stop), NEW w \in Workers, NEW r \in Runs,
         CoordinatorStep(w, r)
  PROVE  Covered(db', proc', stop')
<1> DEFINE d == Reap(db)
           S == StopsOf(stop)
           G == Covered(db', proc', stop')
<1> SUFFICES G
  OBVIOUS
<1>1. /\ LedgerInv(db) /\ db \in Database /\ Agreed(db, S)
      /\ proc \in [Workers -> ProcRow] /\ stop \in [StopKeys -> StopRow]
  BY DEF BundleInv, LedgerInv, TypeOK, Assigned
<1>2. LedgerInv(d) /\ Spares(db, d, {}) /\ Agreed(d, S) /\ Narrow(db, d)
  BY <1>1, ReapKeeps, ReapSpares, ReapAgrees
<1>3. d \in Database
  BY <1>2 DEF LedgerInv
<1> HIDE DEF d, S
<1>4. Spares(db, db, {}) /\ Retires(proc, proc) /\ Ceases(stop, stop)
  BY RowsKeptSpares DEF KeptRow, Retires, Ceases
<1>5. ASSUME NEW e, Spares(db, e, {}), db' = e, Retires(proc, proc'), Ceases(stop, stop') PROVE G
  BY <1>5, SparingStep
<1> HIDE DEF G
<1>6. ASSUME NEW e, db' = e, e.task = db.task, e.wk = db.wk, proc' = proc, stop' = stop PROVE G
  <2>1. Spares(db, e, {})
    BY <1>6, RowsKeptSpares DEF KeptRow
  <2> QED
    BY <1>4, <1>5, <1>6, <2>1
<1>7. ASSUME NEW e, Spares(db, e, {}), db' = e, NEW token, stop' = stop,
             proc' = [proc EXCEPT ![w].token = token]
      PROVE  G
  <2>1. Retires(proc, proc')
    <3> DEFINE q == proc'
    <3>1. q = [proc EXCEPT ![w].token = token]
      BY <1>7
    <3> HIDE DEF q
    <3>2. Retires(proc, q)
      BY <1>1, <3>1, TokenRetires
    <3> QED
      BY <3>2 DEF q
  <2> QED
    BY <1>4, <1>5, <1>7, <2>1
<1>8. ASSUME NEW done \in SUBSET (TasksOf(r) \cap Carried), Initialize(w, r, done) PROVE G
  <2> DEFINE e == Initialized(db, w, r, done)
  <2>1. db' = e /\ db.fan[r].state = "none" /\ stop' = stop /\ proc' = proc
    BY <1>8 DEF Initialize, Initialized
  <2>2. Spares(db, e, {})
    BY <1>1, <2>1, InitializeSpares
  <2> HIDE DEF e
  <2> QED
    BY <1>4, <1>5, <2>1, <2>2
<1>9. CASE ClaimOwnTask(w, r)
  <2>1. stop' = stop /\ Idle(w)
    BY <1>9 DEF ClaimOwnTask
  <2>2. CASE db' = d /\ proc' = proc
    BY <1>2, <1>4, <1>5, <2>1, <2>2
  <2>3. CASE \E t \in TaskOffers(d, w, {r}) : db' = AssignTask(d, w, t) /\ proc' = [proc EXCEPT ![w].exec = t]
    <3>1. PICK t \in TaskOffers(d, w, {r}) :
            db' = AssignTask(d, w, t) /\ proc' = [proc EXCEPT ![w].exec = t]
      BY <2>3
    <3>2. Covered(d, proc, stop)
      BY <1>2, <1>4, SparesCovered
    <3>3. proc[w].up /\ proc[w].pid = d.wk[w].pid /\ proc[w].exec = NoTask
      BY <1>2, <2>1 DEF Idle, Free, Registered, Narrow
    <3>4. Covered(AssignTask(d, w, t), [proc EXCEPT ![w].exec = t], stop)
      BY <1>1, <1>2, <3>1, <3>2, <3>3, OfferCovered DEF S
    <3> QED
      BY <2>1, <3>1, <3>4 DEF G
  <2> QED
    BY <1>9, <2>2, <2>3 DEF ClaimOwnTask, Nothing, Offer, d
<1>10. CASE Status(w, r)
  <2>1. db' = d /\ stop' = stop /\ proc' = proc
    BY <1>10 DEF Status, d
  <2> QED
    BY <1>2, <1>4, <1>5, <2>1
<1>11. CASE ClaimFinalizer(w, r)
  <2> DEFINE e == [d EXCEPT !.fan[r].state = "finalizing"]
  <2>1. db' = e /\ stop' = stop /\ proc' = [proc EXCEPT ![w].token = r]
    BY <1>11 DEF ClaimFinalizer, d
  <2>2. e.task = d.task /\ e.wk = d.wk
    BY <1>3 DEF Database
  <2> HIDE DEF e
  <2>3. Spares(d, e, {})
    BY <2>2, RowsKeptSpares DEF KeptRow
  <2>4. Spares(db, e, {})
    BY <1>2, <2>3, SparesCompose
  <2> QED
    BY <1>7, <2>1, <2>4
<1>12. CASE ReportRunning(w, r)
  <2> DEFINE e == [db EXCEPT !.run[r].status = "running"]
  <2>1. db' = e /\ stop' = stop /\ proc' = proc
    BY <1>12 DEF ReportRunning
  <2>2. e.task = db.task /\ e.wk = db.wk
    BY <1>1 DEF Database
  <2> HIDE DEF e
  <2> QED
    BY <1>6, <2>1, <2>2
<1>13. CASE ReportSqlInsertion(w, r)
  <2> DEFINE e == [db EXCEPT !.run[r].status = "running", !.fan[r].sqlStarted = TRUE]
  <2>1. (db' = db \/ db' = e) /\ stop' = stop /\ proc' = proc
    BY <1>13 DEF ReportSqlInsertion, FinalizerReports
  <2>2. e.task = db.task /\ e.wk = db.wk
    BY <1>1 DEF Database
  <2> HIDE DEF e
  <2> QED
    BY <1>6, <2>1, <2>2
<1>14. CASE ReportSqlCommit(w, r)
  <2>1. db' = db /\ stop' = stop /\ proc' = proc
    BY <1>14 DEF ReportSqlCommit, FinalizerReports
  <2> QED
    BY <1>6, <2>1
<1>15. CASE ReportSqlComplete(w, r)
  <2> DEFINE e == [db EXCEPT !.run[r].sqlComplete = TRUE]
  <2>1. (db' = db \/ db' = e) /\ stop' = stop /\ proc' = proc
    BY <1>15 DEF ReportSqlComplete, FinalizerReports
  <2>2. e.task = db.task /\ e.wk = db.wk
    BY <1>1 DEF Database
  <2> HIDE DEF e
  <2> QED
    BY <1>6, <2>1, <2>2
<1>16. CASE ReportSucceeded(w, r)
  <2> DEFINE e == EndRun(db, w, r, "succeeded")
  <2>1. (db' = db \/ db' = e) /\ stop' = stop /\ proc' = [proc EXCEPT ![w].token = NoRun]
    BY <1>16 DEF ReportSucceeded, FinalizerReports
  <2>2. Spares(db, e, {})
    BY <1>1, RunEndsSpares
  <2> HIDE DEF e
  <2> QED
    BY <1>4, <1>7, <2>1, <2>2
<1>17. CASE ReportFailed(w, r)
  <2> DEFINE e == EndRun(RaiseUncertain(db, r), w, r, "failed")
             token == IF proc[w].token = r THEN NoRun ELSE proc[w].token
  <2>1. db' = e /\ stop' = stop
    BY <1>17 DEF ReportFailed
  <2>2. proc' = [proc EXCEPT ![w].token = token]
    BY <1>17 DEF ReportFailed
  <2>3. Spares(db, e, {})
    BY <1>1, RunEndsSpares
  <2> HIDE DEF e, token
  <2> QED
    BY <1>7, <2>1, <2>2, <2>3
<1>18. CASE CoordinatorAbort(w, r)
  <2> DEFINE key == <<"abort", r>>
             phase == "fencing"
             e == Abort(db, {r}, "failed", FALSE)
             q == proc'
             token == NoRun
  <2>1. /\ key \in StopKeys /\ db' = e /\ stop' = [stop EXCEPT ![key].phase = phase]
        /\ q = [proc EXCEPT ![w].token = token]
    BY <1>18 DEF CoordinatorAbort
  <2>2. Spares(db, e, {})
    BY <1>1, AbortSpares
  <2>3. phase # "stopping"
    OBVIOUS
  <2> HIDE DEF e, key, q, token, phase
  <2>4. Ceases(stop, stop')
    BY <1>1, <2>1, <2>3, StopCeases
  <2>5. Retires(proc, q)
    BY <1>1, <2>1, TokenRetires
  <2> QED
    BY <1>5, <2>1, <2>2, <2>4, <2>5 DEF q
<1> QED
  BY <1>8, <1>9, <1>10, <1>11, <1>12, <1>13, <1>14, <1>15, <1>16, <1>17, <1>18 DEF CoordinatorStep

\* Every step of a stop procedure.
LEMMA StopCovered ==
  ASSUME BundleInv, Assigned, Covered(db, proc, stop), LatchNotShared',
         NEW k, NEW r \in Runs, <<k, r>> \in StopKeys, StopStep(k, r)
  PROVE  Covered(db', proc', stop')
<1> DEFINE key == <<k, r>>
           G == Covered(db', proc', stop')
<1> SUFFICES G
  OBVIOUS
<1>1. /\ LedgerInv(db) /\ db \in Database /\ TargetsKnown(stop)
      /\ proc \in [Workers -> ProcRow] /\ stop \in [StopKeys -> StopRow] /\ key \in StopKeys
  BY DEF BundleInv, LedgerInv, TypeOK, Assigned
<1>2. Spares(db, db, {}) /\ Retires(proc, proc) /\ Ceases(stop, stop)
  BY RowsKeptSpares DEF KeptRow, Retires, Ceases
<1>3. CASE StopFence(k, r)
  BY <1>3, FenceCovered
<1>4. ASSUME NEW w \in Workers, StopCheck(k, r, w) \/ StopFails(k, r, w) PROVE G
  <2> DEFINE res == IF StopFails(k, r, w) THEN "error"
                    ELSE IF SameProcess(db, w, stop[key].tg[w]) THEN "checked" ELSE "replaced"
  <2>1. /\ db' = db /\ proc' = proc /\ stop[key].tg[w].res # "none"
        /\ stop' = [stop EXCEPT ![key].tg[w].res = res]
    BY <1>4 DEF StopCheck, StopFails
  <2>2. res \notin {"stopped", "replaced"} \/ ~SameProcess(db, w, stop[key].tg[w])
    OBVIOUS
  <2> HIDE DEF res, key, G
  <2>3. Covered(db, proc, stop')
    BY <1>1, <2>1, <2>2, ResultCovered
  <2> QED
    BY <2>1, <2>3 DEF G
<1>5. ASSUME NEW w \in Workers, StopKill(k, r, w) PROVE G
  <2> DEFINE q == proc'
             res == "stopped"
             exec == NoTask
             token == NoRun
  <2>1. /\ db' = db /\ q = Killed(w) /\ stop[key].tg[w].res # "none"
        /\ stop' = [stop EXCEPT ![key].tg[w].res = res]
    BY <1>5 DEF StopKill
  <2>2. \/ q = [proc EXCEPT ![w].exec = exec]
        \/ q = [proc EXCEPT ![w].token = token]
        \/ q = [proc EXCEPT ![w].up = FALSE, ![w].exec = NoTask, ![w].token = NoRun]
    BY <2>1 DEF Killed
  <2>3. exec \in {proc[w].exec, NoTask}
    OBVIOUS
  <2>4. q[w].exec = NoTask
    <3>1. proc[w] \in ProcRow /\ q[w] = [[[proc[w] EXCEPT !.up = FALSE] EXCEPT !.exec = NoTask] EXCEPT !.token = NoRun]
      BY <1>1, <2>1 DEF Killed
    <3> QED
      BY <3>1 DEF ProcRow
  <2> HIDE DEF q, res, key, G, exec, token
  <2>5. Retires(proc, q)
    BY <1>1, <2>2, <2>3, ProcessRetires
  <2>6. Covered(db, q, stop)
    BY <1>2, <2>5, SparesCovered
  <2>7. Covered(db, q, stop')
    BY <1>1, <2>1, <2>4, <2>6, ResultCovered
  <2> QED
    BY <2>1, <2>7 DEF G, q
<1>6. CASE StopFinish(k, r)
  <2> DEFINE g == Settle(db, k, r)
             e == Reap(g)
             U == {t \in Tasks : ~Downloaded(db, proc, t)}
             row == IdleStop
             phase == "idle"
             z == stop'
  <2>1. /\ stop[key].phase \in {"stopping", "plain"} /\ z = [stop EXCEPT ![key] = row]
        /\ db' = (IF stop[key].phase = "plain" THEN db ELSE e) /\ proc' = proc
    BY <1>6 DEF StopFinish
  <2>2. row.phase = phase /\ phase # "stopping"
    BY DEF IdleStop
  <2> HIDE DEF row, phase, key, e
  <2>3. Ceases(stop, z)
    BY <1>1, <2>1, <2>2, StopCeases DEF z
  <2> HIDE DEF z
  <2>4. CASE stop[key].phase = "plain"
    <3>1. Covered(db, proc, z)
      BY <1>2, <2>3, SparesCovered
    <3> QED
      BY <2>1, <2>4, <3>1 DEF z
  <2>5. CASE stop[key].phase = "stopping"
    <3>1. Spares(db, g, U)
      BY <1>1, <2>5, SettleSpares DEF key
    <3>2. LedgerInv(g)
      BY <1>1, SettleKeeps
    <3>3. \A w \in Workers, t \in U : proc[w].exec = t => db.task[t].expired
      BY DEF Downloaded
    <3> HIDE DEF g, U
    <3>4. Spares(g, e, U)
      BY <3>2, ReapSpares, SparesLess DEF e
    <3>5. Spares(db, e, U)
      BY <3>1, <3>4, SparesCompose
    <3>6. Covered(e, proc, z)
      BY <1>2, <2>3, <3>3, <3>5, SparesCovered
    <3> QED
      BY <2>1, <2>5, <3>6 DEF z
  <2> QED
    BY <2>1, <2>4, <2>5
<1> QED
  BY <1>3, <1>4, <1>5, <1>6 DEF StopStep

\* What happens to a run without a worker's doing.
LEMMA RunCovered ==
  ASSUME BundleInv, Assigned, Covered(db, proc, stop), NEW r \in Runs, RunStep(r)
  PROVE  Covered(db', proc', stop')
<1> DEFINE G == Covered(db', proc', stop')
<1> SUFFICES G
  OBVIOUS
<1>1. LedgerInv(db) /\ db \in Database /\ stop \in [StopKeys -> StopRow]
  BY DEF BundleInv, LedgerInv, TypeOK
<1>2. proc' = proc
  BY DEF RunStep, QueueRun, StopBundle, StopPlain, SqlCommits, DeadlinePasses, FailStaleRun
<1>3. Ceases(stop, stop)
  BY DEF Ceases
<1>4. ASSUME NEW e, Spares(db, e, {}), db' = e, Ceases(stop, stop') PROVE G
  <2>1. Retires(proc, proc')
    BY <1>2 DEF Retires
  <2> QED
    BY <1>4, <2>1, SparingStep
<1> HIDE DEF G
<1>5. ASSUME NEW e, db' = e, e.task = db.task, e.wk = db.wk, stop' = stop PROVE G
  <2>1. Spares(db, e, {})
    BY <1>5, RowsKeptSpares DEF KeptRow
  <2> QED
    BY <1>3, <1>4, <1>5, <2>1
<1>6. CASE QueueRun(r)
  <2> DEFINE e == [db EXCEPT !.run[r].status = "queued"]
  <2>1. db' = e /\ stop' = stop
    BY <1>6 DEF QueueRun
  <2>2. e.task = db.task /\ e.wk = db.wk
    BY <1>1 DEF Database
  <2> HIDE DEF e
  <2> QED
    BY <1>5, <2>1, <2>2
<1>7. CASE StopBundle(r)
  <2> DEFINE key == <<"user", r>>
             phase == "fencing"
             e == Abort(db, {r}, "cancelled", FALSE)
  <2>1. key \in StopKeys /\ db' = e /\ stop' = [stop EXCEPT ![key].phase = phase]
    BY <1>7 DEF StopBundle
  <2>2. Spares(db, e, {}) /\ phase # "stopping"
    BY <1>1, AbortSpares
  <2> HIDE DEF e, key, phase
  <2>3. Ceases(stop, stop')
    BY <1>1, <2>1, <2>2, StopCeases
  <2> QED
    BY <1>4, <2>1, <2>2, <2>3
<1>8. CASE StopPlain(r)
  <2> DEFINE key == <<"user", r>>
             w == db.run[r].worker
             assigned == db.run[r].status \in RunActive /\ w # NoWorker
             target == [task |-> NoTask, pid |-> IF db.wk[w].run = r THEN db.wk[w].pid ELSE 0,
                        res |-> "checked"]
             row == [[stop[key] EXCEPT !.phase = "plain"] EXCEPT !.tg[w] = target]
             phase == "plain"
             e == StoppedPlain(db, r, assigned, w)
  <2>1. /\ db' = e /\ key \in StopKeys
        /\ stop' = IF ~assigned THEN stop ELSE
                     [stop EXCEPT ![key].phase = "plain", ![key].tg[w] = target]
    BY <1>8 DEF StopPlain, StoppedPlain
  <2>2. Spares(db, e, {})
    BY <1>1, RunEndsSpares
  <2>3. stop[key] \in StopRow
    BY <1>1, <2>1
  <2> HIDE DEF e, w, target, assigned
  <2>4. [stop EXCEPT ![key].phase = "plain", ![key].tg[w] = target] = [stop EXCEPT ![key] = row]
    BY <1>1, <2>1, <2>3 DEF StopRow
  <2>5. row.phase = phase /\ phase # "stopping"
    BY <2>3 DEF StopRow
  <2> HIDE DEF row, key, phase
  <2>6. stop' = stop \/ stop' = [stop EXCEPT ![key] = row]
    BY <2>1, <2>4
  <2>7. Ceases(stop, stop')
    BY <1>1, <1>3, <2>1, <2>5, <2>6, StopCeases
  <2> QED
    BY <1>4, <2>1, <2>2, <2>7
<1>9. CASE SqlCommits(r)
  <2>1. db' = db /\ stop' = stop
    BY <1>9 DEF SqlCommits
  <2> QED
    BY <1>5, <2>1
<1>10. CASE DeadlinePasses(r)
  <2> DEFINE e == [db EXCEPT !.fan[r].deadline = "passed"]
  <2>1. db' = e /\ stop' = stop
    BY <1>10 DEF DeadlinePasses
  <2>2. e.task = db.task /\ e.wk = db.wk
    BY <1>1 DEF Database
  <2> HIDE DEF e
  <2> QED
    BY <1>5, <2>1, <2>2
<1>11. CASE FailStaleRun(r)
  <2> DEFINE d == Reap(db)
             e == FailStale(d, r)
  <2>1. LedgerInv(d) /\ Spares(db, d, {})
    BY <1>1, ReapKeeps, ReapSpares
  <2>2. db' = e /\ stop' = stop
    BY <1>11 DEF FailStaleRun
  <2> HIDE DEF d
  <2>3. Spares(d, e, {})
    BY <2>1, FailStaleSpares
  <2> HIDE DEF e
  <2>4. Spares(db, e, {})
    BY <2>1, <2>3, SparesCompose
  <2> QED
    BY <1>3, <1>4, <2>2, <2>4
<1> QED
  BY <1>6, <1>7, <1>8, <1>9, <1>10, <1>11 DEF RunStep

\* Nothing is downloaded, held or stopped in the empty database.
LEMMA CoveredInit == ASSUME Init PROVE Covered(db, proc, stop)
<1>1. /\ \A w \in Workers : db.wk[w].task = NoTask /\ proc[w].exec = NoTask
      /\ \A key \in StopKeys : stop[key].phase = "idle"
  BY DEF Init, EmptyDatabase, NoProcess, IdleStop
<1>2. Taken(db) /\ Attended(db, proc)
  BY <1>1, NullAssumption DEF Taken, Attended
<1>3. Spent(db, stop) /\ Aimed(db, proc, stop)
  BY <1>1 DEF Spent, Aimed, Follows
<1> QED
  BY <1>2, <1>3 DEF Covered

\* A lease that runs out.
LEMMA ExpiryCovered ==
  ASSUME BundleInv, Covered(db, proc, stop), NEW t \in Tasks, LeaseExpires(t)
  PROVE  Covered(db', proc', stop')
<1> DEFINE row == [db.task[t] EXCEPT !.expired = TRUE]
           task == [db.task EXCEPT ![t] = row]
           e == [db EXCEPT !.task = task]
<1>1. db \in Database /\ db.task[t] \in TaskRow
  BY Rows DEF BundleInv, TypeOK
<1>2. db' = e /\ proc' = proc /\ stop' = stop
  BY <1>1 DEF LeaseExpires, Database
<1>3. row.state = db.task[t].state /\ row.worker = db.task[t].worker /\ row.expired
  BY <1>1 DEF TaskRow
<1> HIDE DEF row
<1>4. \A u \in Tasks : task[u] = IF u = t THEN row ELSE db.task[u]
  BY <1>1 DEF Database
<1> HIDE DEF task
<1>5. e.task = task /\ e.wk = db.wk
  BY <1>1 DEF Database
<1> HIDE DEF e
<1>6. \A u \in Tasks : Onward(db, e, u) /\ e.task[u].state = db.task[u].state
  BY <1>3, <1>4, <1>5 DEF Onward
<1>7. Spares(db, e, {})
  BY <1>5, <1>6 DEF Spares, Held, KeptRow
<1>8. Retires(proc, proc') /\ Ceases(stop, stop')
  BY <1>2 DEF Retires, Ceases
<1> QED
  BY <1>2, <1>7, <1>8, SparingStep

\* No two stops of different runs follow the same process of a worker, that is,
\* every latch belongs to one run (flow_parallel.py:434-444 latches a worker by
\* its process id and does not ask who latched it before): then a run keeps its
\* reservation as long as a process downloads for it under a running lease.
THEOREM CoverTheorem == Spec /\ []LatchNotShared => []ReservationCoversDownload
<1> DEFINE Inv == BundleInv /\ Assigned
           Cover == Covered(db, proc, stop)
<1>1. Init => Cover
  BY CoveredInit
<1>2. Inv /\ Cover /\ [Next]_vars /\ LatchNotShared' => Cover'
  <2> SUFFICES ASSUME Inv, Cover, [Next]_vars, LatchNotShared' PROVE Covered(db', proc', stop')
    OBVIOUS
  <2> DEFINE Goal == Covered(db', proc', stop')
  <2>1. LedgerInv(db) /\ db \in Database
    BY DEF BundleInv, LedgerInv
  <2>2. ASSUME NEW e, Spares(db, e, {}), db' = e, proc' = proc, stop' = stop PROVE Goal
    <3>1. Retires(proc, proc') /\ Ceases(stop, stop')
      BY <2>2 DEF Retires, Ceases
    <3> QED
      BY <2>2, <3>1, SparingStep
  <2>3. ASSUME NEW w \in Workers, WorkerStep(w) PROVE Goal
    BY <2>3, WorkerCovered
  <2>4. ASSUME NEW w \in Workers, NEW r \in Runs, CoordinatorStep(w, r) PROVE Goal
    BY <2>4, CoordinatorCovered
  <2>5. ASSUME NEW key \in StopKeys, StopStep(key[1], key[2]) PROVE Goal
    <3> DEFINE k == key[1]
               r == key[2]
    <3>1. r \in Runs /\ <<k, r>> \in StopKeys
      BY StopKeysAssumption
    <3> HIDE DEF k, r
    <3>2. StopStep(k, r)
      BY <2>5 DEF k, r
    <3> QED
      BY <3>1, <3>2, StopCovered
  <2>6. ASSUME NEW r \in Runs, RunStep(r) PROVE Goal
    BY <2>6, RunCovered
  <2>7. ASSUME NEW t \in Tasks, LeaseExpires(t) PROVE Goal
    BY <2>7, ExpiryCovered
  <2> HIDE DEF Goal
  <2>8. ASSUME NEW f \in Flows, AcknowledgeSqlReconciliation(f) PROVE Goal
    <3> DEFINE e == [db EXCEPT !.recon[f] = FALSE]
    <3>1. db' = e /\ stop' = stop /\ proc' = proc
      BY <2>8 DEF AcknowledgeSqlReconciliation
    <3>2. e.task = db.task /\ e.wk = db.wk
      BY <2>1 DEF Database
    <3> HIDE DEF e
    <3>3. Spares(db, e, {})
      BY <3>2, RowsKeptSpares DEF KeptRow
    <3> QED
      BY <2>2, <3>1, <3>3
  <2>9. ASSUME Watchdog PROVE Goal
    <3>1. db' = Reap(db) /\ stop' = stop /\ proc' = proc
      BY <2>9 DEF Watchdog
    <3>2. Spares(db, Reap(db), {})
      BY <2>1, ReapSpares
    <3> QED
      BY <2>2, <3>1, <3>2
  <2>10. CASE UNCHANGED vars
    BY <2>10 DEF vars
  <2>11. CASE Next
    <3>1. Goal
      BY <2>3, <2>4, <2>5, <2>6, <2>7, <2>8, <2>9, <2>11 DEF Next
    <3> QED
      BY <3>1 DEF Goal
  <2> QED
    BY <2>10, <2>11
<1>3. Inv /\ Cover => ReservationCoversDownload
  <2> SUFFICES ASSUME Inv, Cover, NEW w \in Workers, proc[w].exec # NoTask,
                      ~db.task[proc[w].exec].expired
               PROVE  db.run[RunOf[proc[w].exec]].status \in RunActive
    BY DEF ReservationCoversDownload
  <2>1. PICK t \in Tasks : proc[w].exec = t
    <3>1. proc[w] \in ProcRow
      BY DEF BundleInv, TypeOK
    <3> QED
      BY <3>1 DEF ProcRow
  <2>2. db.task[t].state \in TaskActive
    BY <2>1 DEF Covered, Attended, Held
  <2> QED
    BY <2>1, <2>2, ShapeAssumption DEF BundleInv, LedgerInv, TasksInsideRun
<1>4. Spec => []Inv
  BY AssignedTheorem
<1> QED
  BY <1>1, <1>2, <1>3, <1>4, PTL DEF Spec

\* In particular when one run is stopped, by its operator, its coordinator or
\* both, while the others go on.
THEOREM OneStopCoverTheorem ==
  ASSUME NEW q \in Runs, StopKeys \subseteq {"user", "abort"} \X {q}
  PROVE  Spec => []ReservationCoversDownload
<1>1. LatchNotShared
  BY DEF LatchNotShared
<1> QED
  BY <1>1, CoverTheorem, PTL

-----------------------------------------------------------------------------
(* Loads.  The ledger records that a load began when the insertion is       *)
(* reported, and nothing removes the record; what is recorded and never     *)
(* confirmed is fenced.  A load that is silent has begun without a record.  *)

\* No load begins for an append that has ended: a finalizer whose reports are
\* answered with "ignored" (flows.py:6617-6620) stops before its first statement.
LoadsInsideRun ==
  [][\A r \in Append : sql[r] = "none" /\ sql'[r] # "none" =>
       db.run[r].status \notin RunTerminal]_vars

\* Every append that was begun is on record.
Recorded == \A r \in Append : sql[r] # "none" => db.fan[r].sqlStarted

\* update_run ends a run, and the record of its load outlives it.
LEMMA EndRunRecords ==
  ASSUME NEW d \in Database, NEW w, NEW r \in Runs, NEW status
  PROVE  Records(d, EndRun(d, w, r, status))
<1> DEFINE state == IF d.fan[r].state = "none" THEN d.fan[r].state ELSE "complete"
           row == [d.fan[r] EXCEPT !.state = state]
           e == EndRun(d, w, r, status)
<1>1. d.fan[r] \in FanRow
  BY Rows
<1>2. row.sqlStarted = d.fan[r].sqlStarted
  BY <1>1 DEF FanRow
<1>3. e.fan = [d.fan EXCEPT ![r] = row]
  BY DEF EndRun, Database
<1> HIDE DEF row, e
<1>4. Records(d, e)
  BY <1>2, <1>3, LedgerRecords
<1> QED
  BY <1>4 DEF e

\* The watchdog fails a stale run and forgets no load.
LEMMA FailStaleRecords ==
  ASSUME NEW d, LedgerInv(d), NEW r \in Runs
  PROVE  Records(d, FailStale(d, r))
<1>1. d \in Database
  BY DEF LedgerInv
<1>2. CASE d.fan[r].state # "none"
  <2> DEFINE g == Abort(d, {r}, "failed", TRUE)
             e == FinishAborted(g, {r})
  <2>1. FailStale(d, r) = e
    BY <1>2 DEF FailStale
  <2>2. {r} \in SUBSET Runs /\ "failed" \in TerminalStatus /\ TRUE \in BOOLEAN
    BY DEF TerminalStatus
  <2>3. g \in Database /\ Records(d, g)
    BY <1>1, <2>2, AbortRows, AbortRecords DEF AbortEffect
  <2> HIDE DEF g
  <2>4. Records(g, e)
    BY <2>2, <2>3, FinishAbortedRecords
  <2> QED
    BY <2>1, <2>3, <2>4, RecordsCompose
<1>3. CASE d.fan[r].state = "none"
  <2> DEFINE e == FailStale(d, r)
  <2>1. e.fan = d.fan
    BY <1>1, <1>3 DEF FailStale, Database
  <2> HIDE DEF e
  <2>2. Records(d, e)
    BY <2>1, OthersRecord
  <2> QED
    BY <2>2 DEF e
<1> QED
  BY <1>2, <1>3

\* A confirmed stop halts the ledger row, and keeps the record of its load.
LEMMA SettleRecords ==
  ASSUME NEW d \in Database, NEW k, NEW r \in Runs
  PROVE  Records(d, Settle(d, k, r))
<1> DEFINE Done == {w \in Workers : Confirmed(stop[<<k, r>>].tg[w])}
           halted == d.fan[r].stopped \/ (k = "user" /\ d.fan[r].coordinator \in Done)
           row == [d.fan[r] EXCEPT !.stopped = halted]
           e == Settle(d, k, r)
<1>1. d.fan[r] \in FanRow
  BY Rows
<1>2. row.sqlStarted = d.fan[r].sqlStarted
  BY <1>1 DEF FanRow
<1>3. e.fan = [d.fan EXCEPT ![r] = row]
  BY DEF Settle, Database
<1> HIDE DEF row, e
<1>4. Records(d, e)
  BY <1>2, <1>3, LedgerRecords
<1> QED
  BY <1>4 DEF e

\* register_worker recovers a lost task or bundle without forgetting a load.
LEMMA RecoverWorkerRecords ==
  ASSUME NEW d, LedgerInv(d), NEW w \in Workers
  PROVE  Records(d, RecoverWorker(d, w))
<1> DEFINE t == d.wk[w].task
           g == [d EXCEPT !.task[t].state = "failed"]
           a == RecoverTask(d, w)
           r == a.wk[w].run
           h == Abort(a, {r}, "failed", TRUE)
           b == RecoverBundle(a, w)
           c == [b EXCEPT !.wk[w].task = NoTask, !.wk[w].fence = 0]
<1>1. d \in Database /\ LedgerInv(a) /\ LedgerInv(b)
  BY RecoverTaskKeeps, RecoverBundleKeeps DEF LedgerInv
<1>2. Records(d, a)
  <2>1. CASE ~LosesTask(d, w)
    BY <2>1 DEF RecoverTask, Records
  <2>2. CASE LosesTask(d, w)
    <3>1. t \in Tasks
      <4>1. d.wk[w] \in WorkerRow
        BY <1>1, Rows
      <4> QED
        BY <2>2, <4>1 DEF LosesTask, WorkerRow
    <3>2. {RunOf[t]} \in SUBSET Runs /\ "failed" \in TerminalStatus /\ FALSE \in BOOLEAN
      BY <3>1, ShapeAssumption DEF TerminalStatus
    <3>3. a = Abort(g, {RunOf[t]}, "failed", FALSE)
      BY <2>2 DEF RecoverTask
    <3>4. d.task[t] \in TaskRow
      BY <1>1, <3>1, Rows
    <3> HIDE DEF t, a
    <3>5. g \in Database /\ g.fan = d.fan
      BY <1>1, <3>1, <3>4 DEF Database, TaskRow, TaskTerminal
    <3> HIDE DEF g
    <3>6. Records(g, a)
      BY <3>2, <3>3, <3>5, AbortRecords
    <3> QED
      BY <3>5, <3>6 DEF Records
  <2> QED
    BY <2>1, <2>2
<1>3. a \in Database /\ a.wk[w] \in WorkerRow
  BY <1>1, Rows DEF LedgerInv
<1> HIDE DEF a
<1>4. Records(a, b)
  <2>1. CASE ~LosesBundle(a, w)
    BY <2>1 DEF RecoverBundle, Records
  <2>2. CASE LosesBundle(a, w)
    <3>1. r \in Runs
      BY <1>3, <2>2 DEF LosesBundle, WorkerRow
    <3>2. {r} \in SUBSET Runs /\ "failed" \in TerminalStatus /\ TRUE \in BOOLEAN
      BY <3>1 DEF TerminalStatus
    <3>3. b = [h EXCEPT !.wk[w].run = NoRun]
      BY <2>2 DEF RecoverBundle
    <3> HIDE DEF r, b
    <3>4. h \in Database /\ Records(a, h)
      BY <1>3, <3>2, AbortRows, AbortRecords DEF AbortEffect
    <3> HIDE DEF h
    <3>5. b.fan = h.fan
      BY <3>3, <3>4 DEF Database
    <3> QED
      BY <3>4, <3>5 DEF Records
  <2> QED
    BY <2>1, <2>2
<1>5. RecoverWorker(d, w) = Reap(c)
  BY DEF RecoverWorker, a
<1> HIDE DEF b
<1>6. LedgerInv(c) /\ c.fan = b.fan
  BY <1>1, UnassignTask DEF WorkerUpdate, LedgerInv, Database
<1> HIDE DEF c
<1>7. Records(c, Reap(c)) /\ Records(b, c)
  BY <1>6, ReapRecords, OthersRecord
<1> QED
  BY <1>2, <1>4, <1>5, <1>7, RecordsCompose

\* report_task ends a task, and aborts the bundle of a failed one, forgetting no load.
LEMMA TaskReportedRecords ==
  ASSUME NEW d, LedgerInv(d), NEW w \in Workers, NEW t \in Tasks, NEW status \in TaskTerminal
  PROVE  Records(d, TaskReported(d, w, t, status))
<1> DEFINE e == TaskReported(d, w, t, status)
           g == FinishTask(d, w, t, status)
           ack == AckCancelled(d, w, t)
           fenced == Abort(g, {RunOf[t]}, "failed", FALSE)
<1>1. d \in Database
  BY DEF LedgerInv
<1>2. g.fan = d.fan /\ ack.fan = d.fan
  BY <1>1 DEF FinishTask, AckCancelled, ReleaseWorker, Database
<1>3. e = d \/ e = g \/ e = ack \/ (LeaseAccepts(d, w, t) /\ e = fenced)
  <2> DEFINE Ack == status = "cancelled" /\ d.task[t].state = "cancelling"
             Fits == LeaseAccepts(d, w, t)
  <2>1. CASE Ack
    BY <2>1 DEF TaskReported, LeaseAccepts
  <2>2. CASE ~Ack /\ Fits /\ status = "succeeded"
    BY <2>2 DEF TaskReported
  <2>3. CASE ~Ack /\ Fits /\ status # "succeeded"
    BY <2>3 DEF TaskReported
  <2>4. CASE ~Ack /\ ~Fits
    BY <2>4 DEF TaskReported
  <2> QED
    BY <2>1, <2>2, <2>3, <2>4
<1>4. ASSUME LeaseAccepts(d, w, t) PROVE Records(d, fenced)
  <2>1. {RunOf[t]} \in SUBSET Runs /\ "failed" \in TerminalStatus /\ FALSE \in BOOLEAN
    BY ShapeAssumption DEF TerminalStatus
  <2>2. g \in Database
    BY <1>4, FinishTaskKeeps DEF LedgerInv
  <2> HIDE DEF g
  <2>3. Records(g, fenced)
    BY <2>1, <2>2, AbortRecords
  <2> HIDE DEF fenced
  <2> QED
    BY <1>2, <2>3 DEF Records
<1> HIDE DEF e, g, ack, fenced
<1>5. Records(d, e)
  BY <1>2, <1>3, <1>4 DEF Records
<1> QED
  BY <1>5 DEF e

\* A worker's steps forget no load.
LEMMA WorkerRecords ==
  ASSUME BundleInv, NEW w \in Workers, WorkerStep(w)
  PROVE  Records(db, db')
<1> DEFINE d == Reap(db)
<1>1. LedgerInv(db) /\ db \in Database
  BY DEF BundleInv, LedgerInv
<1>2. LedgerInv(d) /\ d \in Database /\ Records(db, d)
  BY <1>1, ReapKeeps, ReapRecords DEF LedgerInv
<1> HIDE DEF d
<1>3. ASSUME NEW e, db' = e, e.fan = d.fan PROVE Records(db, db')
  BY <1>2, <1>3 DEF Records
<1>4. ASSUME db' = db PROVE Records(db, db')
  BY <1>4 DEF Records
<1>5. CASE StartProcess(w) \/ Crash(w) \/ Unwind(w) \/ FinalizerUnwinds(w)
  BY <1>4, <1>5 DEF StartProcess, Crash, Unwind, FinalizerUnwinds
<1>6. CASE RegisterWorker(w)
  <2> DEFINE a == RecoverWorker(db, w)
             b == InterruptRun(a, db, w)
             c == IF db.wk[w].pid = 0 THEN db ELSE b
             e == [c EXCEPT !.wk[w].pid = proc[w].pid]
  <2>1. db' = e
    BY <1>6 DEF RegisterWorker
  <2>2. a \in Database /\ Records(db, a)
    BY <1>1, RecoverWorkerKeeps, RecoverWorkerRecords DEF LedgerInv
  <2> HIDE DEF a
  <2>3. b.fan = a.fan
    BY <2>2 DEF InterruptRun, Database
  <2>4. b \in [{"run", "fan", "task", "wk", "recon"} -> {b.run, b.fan, b.task, b.wk, b.recon}]
    BY <2>2 DEF InterruptRun, Database
  <2> HIDE DEF b
  <2>5. Records(db, c)
    BY <2>2, <2>3 DEF Records
  <2>6. e.fan = c.fan
    BY <1>1, <2>4 DEF Database
  <2> HIDE DEF c, e
  <2> QED
    BY <2>1, <2>5, <2>6 DEF Records
<1>7. CASE ClaimRunTask(w)
  <2>1. PICK t \in Tasks : db' = AssignTask(d, w, t)
    <3>1. PICK t \in TaskOffers(d, w, Runs) : db' = AssignTask(d, w, t)
      BY <1>7 DEF ClaimRunTask, Offer, d
    <3>2. t \in Tasks
      BY <1>2, <3>1, OffersClaimable, Rows
    <3> QED
      BY <3>1, <3>2
  <2>2. AssignTask(d, w, t).fan = d.fan
    BY <1>2 DEF AssignTask, Database
  <2> QED
    BY <1>3, <2>1, <2>2
<1>8. CASE ClaimRunHeld(w)
  BY <1>3, <1>8 DEF ClaimRunHeld, Nothing, d
<1>9. CASE ClaimRunNew(w)
  <2>1. PICK r : db' = AssignRun(d, w, r)
    BY <1>9 DEF ClaimRunNew, d
  <2>2. AssignRun(d, w, r).fan = d.fan
    BY <1>2 DEF AssignRun, Database
  <2> QED
    BY <1>3, <2>1, <2>2
<1>10. CASE ClaimRunIdle(w)
  <2>1. db' = RunIdle(d, w)
    BY <1>10 DEF ClaimRunIdle, Nothing, d
  <2>2. RunIdle(d, w).fan = d.fan
    BY <1>2 DEF RunIdle, Database
  <2> QED
    BY <1>3, <2>1, <2>2
<1>11. ASSUME NEW t \in Tasks, NEW status \in TaskTerminal, ReportTask(w, t, status)
       PROVE  Records(db, db')
  <2>1. db' = TaskReported(db, w, t, status)
    BY <1>11 DEF ReportTask
  <2>2. Records(db, TaskReported(db, w, t, status))
    BY <1>1, TaskReportedRecords
  <2> QED
    BY <2>1, <2>2
<1> QED
  BY <1>5, <1>6, <1>7, <1>8, <1>9, <1>10, <1>11 DEF WorkerStep

\* Nor do a coordinator's.
LEMMA CoordinatorRecords ==
  ASSUME BundleInv, NEW w \in Workers, NEW r \in Runs, CoordinatorStep(w, r)
  PROVE  Records(db, db')
<1> DEFINE d == Reap(db)
<1>1. LedgerInv(db) /\ db \in Database /\ db.fan[r] \in FanRow
  BY Rows DEF BundleInv, LedgerInv
<1>2. LedgerInv(d) /\ d \in Database /\ Records(db, d) /\ d.fan[r] \in FanRow
  BY <1>1, ReapKeeps, ReapRecords, Rows DEF LedgerInv
<1> HIDE DEF d
<1>3. ASSUME NEW e, db' = e, e.fan = d.fan \/ e.fan = db.fan PROVE Records(db, db')
  BY <1>2, <1>3 DEF Records
<1>4. ASSUME NEW e, Records(db, e), db' = e PROVE Records(db, db')
  BY <1>4
<1>5. ASSUME NEW done \in SUBSET (TasksOf(r) \cap Carried), Initialize(w, r, done)
      PROVE  Records(db, db')
  <2> DEFINE row == [[db.fan[r] EXCEPT !.state = "downloading"] EXCEPT !.coordinator = w]
             e == Initialized(db, w, r, done)
  <2>1. db' = e
    BY <1>5 DEF Initialize, Initialized
  <2>2. db.fan[r].sqlStarted => row.sqlStarted
    BY <1>1 DEF FanRow
  <2>3. e.fan = [db.fan EXCEPT ![r] = row]
    BY ZenonT(60), <1>1 DEF Initialized, Database
  <2> HIDE DEF row, e
  <2>4. Records(db, e)
    BY <1>1, <2>2, <2>3, LedgerRecords
  <2> QED
    BY <2>1, <2>4
<1>6. CASE ClaimOwnTask(w, r)
  <2>1. CASE db' = d
    BY <1>3, <2>1
  <2>2. CASE \E t \in TaskOffers(d, w, {r}) : db' = AssignTask(d, w, t)
    <3>1. PICK t : db' = AssignTask(d, w, t)
      BY <2>2
    <3>2. AssignTask(d, w, t).fan = d.fan
      BY <1>2 DEF AssignTask, Database
    <3> QED
      BY <1>3, <3>1, <3>2
  <2> QED
    BY <1>6, <2>1, <2>2 DEF ClaimOwnTask, Nothing, Offer, d
<1>7. CASE Status(w, r)
  BY <1>3, <1>7 DEF Status, d
<1>8. CASE ClaimFinalizer(w, r)
  <2> DEFINE row == [d.fan[r] EXCEPT !.state = "finalizing"]
             e == [d EXCEPT !.fan[r].state = "finalizing"]
  <2>1. db' = e
    BY <1>8 DEF ClaimFinalizer, d
  <2>2. d.fan[r].sqlStarted => row.sqlStarted
    BY <1>2 DEF FanRow
  <2>3. e.fan = [d.fan EXCEPT ![r] = row]
    BY <1>2 DEF Database
  <2> HIDE DEF row, e
  <2>4. Records(d, e)
    BY <1>2, <2>2, <2>3, LedgerRecords
  <2> QED
    BY <1>2, <2>1, <2>4 DEF Records
<1>9. CASE ReportRunning(w, r)
  <2> DEFINE e == [db EXCEPT !.run[r].status = "running"]
  <2>1. db' = e
    BY <1>9 DEF ReportRunning
  <2>2. e.fan = db.fan
    BY <1>1 DEF Database
  <2> HIDE DEF e
  <2> QED
    BY <1>3, <2>1, <2>2
<1>10. CASE ReportSqlInsertion(w, r)
  <2> DEFINE row == [db.fan[r] EXCEPT !.sqlStarted = TRUE]
             e == [db EXCEPT !.run[r].status = "running", !.fan[r].sqlStarted = TRUE]
  <2>1. db' = db \/ db' = e
    BY <1>10 DEF ReportSqlInsertion, FinalizerReports
  <2>2. row.sqlStarted
    BY <1>1 DEF FanRow
  <2>3. e.fan = [db.fan EXCEPT ![r] = row]
    BY <1>1 DEF Database
  <2> HIDE DEF row, e
  <2>4. Records(db, e)
    BY <1>1, <2>2, <2>3, LedgerRecords
  <2> QED
    BY <1>3, <2>1, <2>4
<1>11. CASE ReportSqlCommit(w, r)
  BY <1>3, <1>11 DEF ReportSqlCommit, FinalizerReports
<1>12. CASE ReportSqlComplete(w, r)
  <2> DEFINE e == [db EXCEPT !.run[r].sqlComplete = TRUE]
  <2>1. db' = db \/ db' = e
    BY <1>12 DEF ReportSqlComplete, FinalizerReports
  <2>2. e.fan = db.fan
    BY <1>1 DEF Database
  <2> HIDE DEF e
  <2> QED
    BY <1>3, <2>1, <2>2
<1>13. CASE ReportSucceeded(w, r)
  <2> DEFINE e == EndRun(db, w, r, "succeeded")
  <2>1. db' = db \/ db' = e
    BY <1>13 DEF ReportSucceeded, FinalizerReports
  <2>2. Records(db, e)
    BY <1>1, EndRunRecords
  <2> HIDE DEF e
  <2> QED
    BY <1>3, <2>1, <2>2
<1>14. CASE ReportFailed(w, r)
  <2> DEFINE a == RaiseUncertain(db, r)
             e == EndRun(a, w, r, "failed")
  <2>1. db' = e
    BY <1>14 DEF ReportFailed
  <2>2. a \in Database /\ a.fan = db.fan
    BY <1>1 DEF RaiseUncertain, Database
  <2> HIDE DEF a
  <2>3. Records(a, e)
    BY <2>2, EndRunRecords
  <2> HIDE DEF e
  <2> QED
    BY <2>1, <2>2, <2>3 DEF Records
<1>15. CASE CoordinatorAbort(w, r)
  <2> DEFINE e == Abort(db, {r}, "failed", FALSE)
  <2>1. {r} \in SUBSET Runs /\ "failed" \in TerminalStatus /\ FALSE \in BOOLEAN
    BY DEF TerminalStatus
  <2>2. Records(db, e)
    BY <1>1, <2>1, AbortRecords
  <2>3. db' = e
    BY <1>15 DEF CoordinatorAbort
  <2> HIDE DEF e
  <2> QED
    BY <2>2, <2>3
<1> QED
  BY <1>5, <1>6, <1>7, <1>8, <1>9, <1>10, <1>11, <1>12, <1>13, <1>14, <1>15 DEF CoordinatorStep

\* Nor does anything else.
LEMMA StepRecords ==
  ASSUME BundleInv, Next
  PROVE  Records(db, db')
<1>1. LedgerInv(db) /\ db \in Database
  BY DEF BundleInv, LedgerInv
<1>2. ASSUME NEW e, db' = e, e.fan = db.fan PROVE Records(db, db')
  BY <1>2 DEF Records
<1>3. ASSUME NEW e, db' = e, Records(db, e) PROVE Records(db, db')
  BY <1>3
<1>4. LedgerInv(Reap(db)) /\ Records(db, Reap(db))
  BY <1>1, ReapKeeps, ReapRecords
<1>5. ASSUME NEW k, NEW r \in Runs, StopStep(k, r) PROVE Records(db, db')
  <2>1. CASE StopFence(k, r)
    <3> DEFINE wk == [w \in Workers |-> IF w \in StopTargets(db, k, r)
                        THEN [db.wk[w] EXCEPT !.fence = db.wk[w].pid] ELSE db.wk[w]]
               e == [db EXCEPT !.wk = wk]
    <3>1. db' = e
      BY <2>1 DEF StopFence
    <3> HIDE DEF wk
    <3>2. e.fan = db.fan
      BY <1>1 DEF Database
    <3> HIDE DEF e
    <3> QED
      BY <1>2, <3>1, <3>2
  <2>2. CASE StopFinish(k, r)
    <3> DEFINE g == Settle(db, k, r)
    <3>1. db' = db \/ db' = Reap(g)
      BY <2>2 DEF StopFinish
    <3>2. LedgerInv(g) /\ Records(db, g)
      BY <1>1, SettleKeeps, SettleRecords
    <3> HIDE DEF g
    <3>3. Records(db, Reap(g))
      BY <3>2, ReapRecords, RecordsCompose
    <3> QED
      BY <1>2, <3>1, <3>3
  <2>3. ASSUME NEW w \in Workers, StopCheck(k, r, w) \/ StopKill(k, r, w) \/ StopFails(k, r, w)
        PROVE  Records(db, db')
    BY <1>2, <2>3 DEF StopCheck, StopKill, StopFails
  <2> QED
    BY <1>5, <2>1, <2>2, <2>3 DEF StopStep
<1>6. ASSUME NEW r \in Runs, RunStep(r) PROVE Records(db, db')
  <2>1. CASE QueueRun(r)
    <3> DEFINE e == [db EXCEPT !.run[r].status = "queued"]
    <3>1. db' = e /\ e.fan = db.fan
      BY <1>1, <2>1 DEF QueueRun, Database
    <3> HIDE DEF e
    <3> QED
      BY <1>2, <3>1
  <2>2. CASE StopBundle(r)
    <3> DEFINE e == Abort(db, {r}, "cancelled", FALSE)
    <3>1. {r} \in SUBSET Runs /\ "cancelled" \in TerminalStatus /\ FALSE \in BOOLEAN
      BY DEF TerminalStatus
    <3>2. Records(db, e) /\ db' = e
      BY <1>1, <2>2, <3>1, AbortRecords DEF StopBundle
    <3> HIDE DEF e
    <3> QED
      BY <3>2
  <2>3. CASE StopPlain(r)
    <3> DEFINE w == db.run[r].worker
               assigned == db.run[r].status \in RunActive /\ w # NoWorker
               e == StoppedPlain(db, r, assigned, w)
    <3>1. db' = e
      BY <2>3 DEF StopPlain, StoppedPlain
    <3> HIDE DEF assigned, w
    <3>2. e.fan = db.fan
      BY <1>1 DEF StoppedPlain, Database
    <3> HIDE DEF e
    <3> QED
      BY <1>2, <3>1, <3>2
  <2>4. CASE SqlCommits(r)
    BY <1>2, <2>4 DEF SqlCommits
  <2>5. CASE DeadlinePasses(r)
    <3> DEFINE row == [db.fan[r] EXCEPT !.deadline = "passed"]
               e == [db EXCEPT !.fan[r].deadline = "passed"]
    <3>1. db' = e /\ e.fan = [db.fan EXCEPT ![r] = row]
      BY <1>1, <2>5 DEF DeadlinePasses, Database
    <3>2. row.sqlStarted = db.fan[r].sqlStarted
      <4>1. db.fan[r] \in FanRow
        BY <1>1, Rows
      <4> QED
        BY <4>1 DEF FanRow
    <3> HIDE DEF row, e
    <3>3. Records(db, e)
      BY <1>1, <3>1, <3>2, LedgerRecords
    <3> QED
      BY <3>1, <3>3
  <2>6. CASE FailStaleRun(r)
    <3> DEFINE d == Reap(db)
               e == FailStale(d, r)
    <3>1. db' = e
      BY <2>6 DEF FailStaleRun
    <3> HIDE DEF d
    <3>2. Records(d, e) /\ Records(db, d)
      BY <1>4, FailStaleRecords DEF d
    <3> HIDE DEF e
    <3> QED
      BY <3>1, <3>2 DEF Records
  <2> QED
    BY <1>6, <2>1, <2>2, <2>3, <2>4, <2>5, <2>6 DEF RunStep
<1>7. ASSUME NEW t \in Tasks, LeaseExpires(t) PROVE Records(db, db')
  <2> DEFINE e == [db EXCEPT !.task[t].expired = TRUE]
  <2>1. db' = e /\ e.fan = db.fan
    BY <1>1, <1>7 DEF LeaseExpires, Database
  <2> HIDE DEF e
  <2> QED
    BY <1>2, <2>1
<1>8. ASSUME NEW f \in Flows, AcknowledgeSqlReconciliation(f) PROVE Records(db, db')
  <2> DEFINE e == [db EXCEPT !.recon[f] = FALSE]
  <2>1. db' = e /\ e.fan = db.fan
    BY <1>1, <1>8 DEF AcknowledgeSqlReconciliation, Database
  <2> HIDE DEF e
  <2> QED
    BY <1>2, <2>1
<1>9. CASE Watchdog
  BY <1>4, <1>9 DEF Watchdog
<1>10. ASSUME NEW key \in StopKeys, StopStep(key[1], key[2]) PROVE Records(db, db')
  <2>1. key[2] \in Runs
    BY StopKeysAssumption
  <2> QED
    BY <1>5, <1>10, <2>1
<1> QED
  BY <1>6, <1>7, <1>8, <1>9, <1>10, WorkerRecords, CoordinatorRecords DEF Next

\* Only the insertion report of a run begins its load.
LEMMA FirstLoad ==
  ASSUME BundleInv, Next, NEW r \in Runs, sql[r] = "none", sql'[r] # "none"
  PROVE  \E w \in Workers : ReportSqlInsertion(w, r)
<1> DEFINE Goal == \E w \in Workers : ReportSqlInsertion(w, r)
<1>1. sql \in [Runs -> SqlStage]
  BY DEF BundleInv, TypeOK
<1>2. ASSUME UNCHANGED sql PROVE Goal
  BY <1>2
<1>3. ASSUME NEW q \in Runs, NEW stage, sql' = [sql EXCEPT ![q] = stage]
      PROVE  r = q
  BY <1>1, <1>3
<1>4. ASSUME NEW w \in Workers, NEW q \in Runs, CoordinatorStep(w, q) PROVE Goal
  <2>1. CASE ReportSqlInsertion(w, q)
    <3>1. r = q
      BY <1>3, <2>1 DEF ReportSqlInsertion
    <3> QED
      BY <2>1, <3>1
  <2>2. CASE ReportSqlCommit(w, q)
    <3>1. r = q /\ sql[q] = "loading"
      BY <1>3, <2>2 DEF ReportSqlCommit
    <3> QED
      BY <3>1
  <2>3. CASE ReportSqlComplete(w, q)
    <3>1. r = q /\ sql[q] = "committed"
      BY <1>3, <2>3 DEF ReportSqlComplete
    <3> QED
      BY <3>1
  <2> HIDE DEF Goal
  <2> QED
    BY <1>2, <1>4, <2>1, <2>2, <2>3
       DEF CoordinatorStep, Initialize, ClaimOwnTask, Status, ClaimFinalizer, ReportRunning,
           ReportSucceeded, ReportFailed, CoordinatorAbort
<1>5. ASSUME NEW q \in Runs, RunStep(q) PROVE Goal
  <2>1. CASE SqlCommits(q)
    <3>1. r = q /\ sql[q] = "committing"
      BY <1>3, <2>1 DEF SqlCommits
    <3> QED
      BY <3>1
  <2> HIDE DEF Goal
  <2> QED
    BY <1>2, <1>5, <2>1
       DEF RunStep, QueueRun, StopBundle, StopPlain, DeadlinePasses, FailStaleRun
<1> HIDE DEF Goal
<1>6. ASSUME \/ \E w \in Workers : WorkerStep(w)
             \/ \E key \in StopKeys : StopStep(key[1], key[2])
             \/ \E t \in Tasks : LeaseExpires(t)
             \/ \E f \in Flows : AcknowledgeSqlReconciliation(f)
             \/ Watchdog
      PROVE  Goal
  BY ZenonT(60), <1>2, <1>6
     DEF WorkerStep, StartProcess, Crash, RegisterWorker, Unwind, FinalizerUnwinds, ClaimRunTask,
         ClaimRunHeld, ClaimRunNew, ClaimRunIdle, ReportTask, StopStep, StopFence, StopFinish,
         StopCheck, StopKill, StopFails, LeaseExpires, AcknowledgeSqlReconciliation, Watchdog
<1> QED
  BY <1>4, <1>5, <1>6 DEF Next, Goal

\* The report that begins the load of a run that has not ended is recorded.
LEMMA InsertionRecorded ==
  ASSUME BundleInv, NEW w \in Workers, NEW r \in Runs, ReportSqlInsertion(w, r),
         db.run[r].status \notin RunTerminal
  PROVE  db'.fan[r].sqlStarted
<1> DEFINE row == [db.fan[r] EXCEPT !.sqlStarted = TRUE]
           e == [db EXCEPT !.run[r].status = "running", !.fan[r].sqlStarted = TRUE]
<1>1. db \in Database /\ db.fan \in [Runs -> FanRow] /\ db.fan[r] \in FanRow
  BY DEF BundleInv, LedgerInv, Database
<1>2. db' = e
  BY DEF ReportSqlInsertion, FinalizerReports, Ignored
<1>3. row.sqlStarted
  BY <1>1 DEF FanRow
<1>4. e.fan = [db.fan EXCEPT ![r] = row]
  BY <1>1 DEF Database
<1> HIDE DEF row, e
<1> QED
  BY <1>1, <1>2, <1>3, <1>4

\* Invariant of the loads: as long as none begins for an append that has ended,
\* the ledger knows of every load that began, whoever rewrote it since.
THEOREM RecordTheorem == Spec /\ LoadsInsideRun => []Recorded
<1> DEFINE Inside == \A r \in Append : sql[r] = "none" /\ sql'[r] # "none" =>
                       db.run[r].status \notin RunTerminal
<1>1. Init => Recorded
  BY ShapeAssumption DEF Init, Recorded
<1>2. BundleInv /\ Recorded /\ [Next]_vars /\ [Inside]_vars => Recorded'
  <2> SUFFICES ASSUME BundleInv, Recorded, [Next]_vars, [Inside]_vars, NEW r \in Append,
                      sql'[r] # "none"
               PROVE  db'.fan[r].sqlStarted
    BY DEF Recorded
  <2>1. r \in Runs
    BY ShapeAssumption
  <2>2. CASE UNCHANGED vars
    BY <2>2 DEF vars, Recorded
  <2>3. CASE Next /\ sql[r] # "none"
    BY <2>1, <2>3, StepRecords DEF Records, Recorded
  <2>4. CASE Next /\ sql[r] = "none"
    <3>1. PICK w \in Workers : ReportSqlInsertion(w, r)
      BY <2>1, <2>4, FirstLoad
    <3>2. Inside
      BY <2>4 DEF vars
    <3>3. db.run[r].status \notin RunTerminal
      BY <2>4, <3>2
    <3> QED
      BY <2>1, <3>1, <3>3, InsertionRecorded
  <2> QED
    BY <2>2, <2>3, <2>4
<1>3. LoadsInsideRun => [][Inside]_vars
  BY PTL DEF LoadsInsideRun
<1> QED
  BY <1>1, <1>2, <1>3, BundleInvariant, PTL DEF Spec

\* No append that may be in the target leaves its flow open, whoever ended the
\* run, unless its load began after its run had ended: the finalizer that goes
\* on after an "ignored" answer is the only way to a silent commit.
THEOREM SilentCommitTheorem == Spec /\ LoadsInsideRun => []NoSilentCommit
<1>1. Recorded /\ NoBlindAppend => NoSilentCommit
  <2> SUFFICES ASSUME Recorded, NoBlindAppend, NEW r \in Append, MayHaveCommitted(r),
                      db.run[r].status \in {"failed", "cancelled"}, r \notin acked
               PROVE  db.recon[FlowOf[r]]
    BY DEF NoSilentCommit
  <2>1. db.fan[r].sqlStarted /\ ~db.run[r].sqlComplete
    BY DEF MayHaveCommitted, Recorded
  <2>2. UncertainAppend(r)
    BY <2>1 DEF UncertainAppend
  <2> QED
    BY <2>2 DEF NoBlindAppend
<1> QED
  BY <1>1, RecordTheorem, AppendTheorem, PTL

-----------------------------------------------------------------------------
(* Reservations.  ParallelBundle implements RunReservation: most handlers   *)
(* only take from a run, five give it something.                            *)

\* update_run with a failure ends an active run.
LEMMA EndRunTakes ==
  ASSUME NEW d, LedgerInv(d), NEW w \in Workers, NEW r \in Runs, d.run[r].status \in RunActive
  PROVE  TakesOnly(d, EndRun(d, w, r, "failed"))
<1> DEFINE row == [d.run[r] EXCEPT !.status = "failed"]
           state == IF d.fan[r].state = "none" THEN "none" ELSE "complete"
           ledger == [d.fan[r] EXCEPT !.state = state]
           e == EndRun(d, w, r, "failed")
<1>1. d \in Database /\ d.run[r] \in RunRow /\ d.fan[r] \in FanRow /\ d.wk[w] \in WorkerRow
  BY Rows DEF LedgerInv
<1>2. d.run \in [Runs -> RunRow] /\ d.fan \in [Runs -> FanRow] /\ d.wk \in [Workers -> WorkerRow]
  BY <1>1 DEF Database
<1>3. row.status = "failed" /\ ledger.state = state
  BY <1>1 DEF RunRow, FanRow
<1>4. /\ e.run = [d.run EXCEPT ![r] = row] /\ e.fan = [d.fan EXCEPT ![r] = ledger]
      /\ e.task = d.task /\ e.wk = [d.wk EXCEPT ![w].run = NoRun]
  BY <1>1 DEF EndRun, Database
<1> HIDE DEF row, ledger, e
<1>5. d.fan[r].state # "complete"
  BY DEF LedgerInv, LedgerEndsWithRun, RunActive, RunTerminal
<1>6. TakesRun(d, e, r)
  BY <1>2, <1>3, <1>4, <1>5 DEF TakesRun, RunActive, Ending
<1> HIDE DEF state
<1>7. \A v \in Workers : e.wk[v].run \in {d.wk[v].run, NoRun}
  BY <1>1, <1>2, <1>4 DEF WorkerRow
<1>8. TakesOnly(d, e)
  BY <1>1, <1>2, <1>4, <1>6, <1>7, OneRunTakes
<1> QED
  BY <1>8 DEF e

\* The watchdog ends a silent run, or aborts its bundle and ends it if drained.
LEMMA FailStaleTakes ==
  ASSUME NEW d, LedgerInv(d), Begun(d), NEW r \in Runs, d.run[r].status \in RunActive
  PROVE  TakesOnly(d, FailStale(d, r))
<1>1. d \in Database
  BY DEF LedgerInv
<1>2. CASE d.fan[r].state # "none"
  <2> DEFINE g == Abort(d, {r}, "failed", TRUE)
             e == FinishAborted(g, {r})
  <2>1. FailStale(d, r) = e
    BY <1>2 DEF FailStale
  <2>2. {r} \in SUBSET Runs /\ "failed" \in TerminalStatus /\ TRUE \in BOOLEAN
    BY DEF TerminalStatus
  <2>3. g \in Database /\ TakesOnly(d, g)
    BY <1>1, <2>2, AbortRows, PlainAbortTakes DEF AbortEffect
  <2> HIDE DEF g
  <2>4. TakesOnly(g, e)
    BY <2>2, <2>3, TakesBegun, FinishAbortedTakes
  <2> QED
    BY <2>1, <2>3, <2>4, TakesCompose
<1>3. CASE d.fan[r].state = "none"
  <2> DEFINE row == [d.run[r] EXCEPT !.status = "failed"]
             e == FailStale(d, r)
             v == d.run[r].worker
  <2>1. d.run[r] \in RunRow /\ d.run \in [Runs -> RunRow] /\ d.wk \in [Workers -> WorkerRow]
    BY <1>1 DEF Database
  <2>2. row.status = "failed"
    BY <2>1 DEF RunRow
  <2>3. /\ e.run = [d.run EXCEPT ![r] = row] /\ e.fan = d.fan /\ e.task = d.task
        /\ e.wk = [d.wk EXCEPT ![v].run = NoRun]
    BY <1>1, <1>3 DEF FailStale, Database
  <2> HIDE DEF row, e, v
  <2>4. \A w \in Workers : e.wk[w].run \in {d.wk[w].run, NoRun}
    BY <2>1, <2>3 DEF WorkerRow
  <2>5. TakesRun(d, e, r)
    BY <1>3, <2>1, <2>2, <2>3 DEF TakesRun, RunActive, Ending
  <2>6. TakesOnly(d, e)
    BY <1>1, <2>1, <2>3, <2>4, <2>5, OneRunTakes
  <2> QED
    BY <2>6 DEF e
<1> QED
  BY <1>2, <1>3

\* The last transaction of a stop.
LEMMA SettleTakes ==
  ASSUME NEW d \in Database, Draining(d), NEW k, NEW r \in Runs
  PROVE  TakesOnly(d, Settle(d, k, r))
<1> DEFINE tg == stop[<<k, r>>].tg
           Done == {w \in Workers : Confirmed(tg[w])}
           Over(t) == d.task[t].state = "cancelling" /\ \E w \in Done : tg[w].task = t /\ d.task[t].worker = w
           task == [t \in Tasks |-> IF Over(t) THEN [d.task[t] EXCEPT !.state = "cancelled"] ELSE d.task[t]]
           wk == [w \in Workers |-> IF w \in Done /\ d.wk[w].fence = tg[w].pid
                    THEN [d.wk[w] EXCEPT !.task = NoTask, !.fence = 0] ELSE d.wk[w]]
           halted == d.fan[r].stopped \/ (k = "user" /\ d.fan[r].coordinator \in Done)
           row == [d.fan[r] EXCEPT !.stopped = halted]
           e == Settle(d, k, r)
<1>1. d.fan[r] \in FanRow /\ d.fan \in [Runs -> FanRow]
  BY DEF Database
<1>2. row.state = d.fan[r].state
  BY <1>1 DEF FanRow
<1>3. e.fan = [d.fan EXCEPT ![r] = row] /\ e.run = d.run /\ e.task = task /\ e.wk = wk
  BY ZenonT(60), <1>1 DEF Settle, Database
<1>4. ASSUME NEW t \in Tasks
      PROVE  \/ task[t].state = d.task[t].state
             \/ d.task[t].state = "cancelling" /\ task[t].state = "cancelled"
  <2>1. d.task[t] \in TaskRow
    BY Rows
  <2>2. [d.task[t] EXCEPT !.state = "cancelled"].state = "cancelled"
    BY <2>1 DEF TaskRow
  <2>3. task[t] = d.task[t] \/ (Over(t) /\ task[t] = [d.task[t] EXCEPT !.state = "cancelled"])
    OBVIOUS
  <2> QED
    BY <2>2, <2>3
<1>5. ASSUME NEW w \in Workers PROVE wk[w].run = d.wk[w].run
  <2>1. d.wk[w] \in WorkerRow
    BY Rows
  <2>2. wk[w] = d.wk[w] \/ wk[w] = [d.wk[w] EXCEPT !.task = NoTask, !.fence = 0]
    OBVIOUS
  <2> QED
    BY <2>1, <2>2 DEF WorkerRow
<1> HIDE DEF task, wk, row, e
<1>6. TakesOnly(d, e)
  BY <1>1, <1>2, <1>3, <1>4, <1>5, CancelledTakes
<1> QED
  BY <1>6 DEF e

\* report_task: a cancellation is acknowledged.
LEMMA AckCancelledTakes ==
  ASSUME NEW d \in Database, Draining(d), NEW w, NEW t \in Tasks, d.task[t].state = "cancelling"
  PROVE  TakesOnly(d, AckCancelled(d, w, t))
<1> DEFINE row == [d.task[t] EXCEPT !.state = "cancelled"]
           e == AckCancelled(d, w, t)
<1>1. d.task[t] \in TaskRow /\ d.task \in [Tasks -> TaskRow] /\ d.wk \in [Workers -> WorkerRow]
  BY DEF Database
<1>2. row.state = "cancelled"
  BY <1>1 DEF TaskRow
<1>3. /\ e.run = d.run /\ e.fan = d.fan /\ e.task = [d.task EXCEPT ![t] = row]
      /\ e.wk = d.wk \/ e.wk = [d.wk EXCEPT ![w].task = NoTask, ![w].fence = 0]
  BY DEF AckCancelled, ReleaseWorker, Database
<1> HIDE DEF row, e
<1>4. \A v \in Workers : e.wk[v].run = d.wk[v].run
  BY <1>1, <1>3 DEF WorkerRow
<1>5. TakesOnly(d, e)
  BY <1>1, <1>2, <1>3, <1>4, CancelledTakes
<1> QED
  BY <1>5 DEF e

\* report_task, unless it delivers an export.
LEMMA TaskReportedTakes ==
  ASSUME NEW d, LedgerInv(d), Draining(d), NEW w \in Workers, NEW t \in Tasks,
         NEW status \in TaskTerminal, status # "succeeded" \/ ~LeaseAccepts(d, w, t)
  PROVE  TakesOnly(d, TaskReported(d, w, t, status))
<1> DEFINE e == TaskReported(d, w, t, status)
           g == FinishTask(d, w, t, status)
           Ack == status = "cancelled" /\ d.task[t].state = "cancelling"
<1>1. d \in Database /\ d.task[t] \in TaskRow /\ RunOf[t] \in Runs
  BY Rows, ShapeAssumption DEF LedgerInv
<1>2. CASE Ack
  <2>1. e = AckCancelled(d, w, t)
    BY <1>2 DEF TaskReported, LeaseAccepts
  <2> QED
    BY <1>1, <1>2, <2>1, AckCancelledTakes
<1>3. CASE ~Ack /\ LeaseAccepts(d, w, t)
  <2>1. status # "succeeded"
    BY <1>3
  <2>2. e = Abort(g, {RunOf[t]}, "failed", FALSE)
    BY <1>3, <2>1 DEF TaskReported
  <2>3. g \in Database
    BY <1>3, FinishTaskKeeps DEF LedgerInv
  <2> DEFINE row == [d.task[t] EXCEPT !.state = status]
             task == IF d.wk[w].task = t THEN NoTask ELSE d.wk[w].task
  <2>4. row.state = status
    BY <1>1 DEF TaskRow
  <2>5. /\ g.run = d.run /\ g.fan = d.fan /\ g.task = [d.task EXCEPT ![t] = row]
        /\ g.wk = [d.wk EXCEPT ![w].task = task]
    BY <1>1 DEF FinishTask, Database
  <2> HIDE DEF row, task, g
  <2>6. ASSUME NEW v \in Workers PROVE g.wk[v].run = d.wk[v].run
    <3>1. d.wk[v] \in WorkerRow /\ d.wk \in [Workers -> WorkerRow]
      BY <1>1 DEF Database
    <3> QED
      BY <2>5, <3>1 DEF WorkerRow
  <2>7. d.task[t].state = "claimed" /\ Abortable(d, RunOf[t])
    BY <1>3 DEF LeaseAccepts, Abortable
  <2>8. d.task \in [Tasks -> TaskRow]
    BY <1>1 DEF Database
  <2>9. ASSUME NEW u \in Tasks
        PROVE  \/ g.task[u].state = d.task[u].state
               \/ /\ RunOf[u] \in {RunOf[t]} /\ Abortable(d, RunOf[u])
                  /\ d.task[u].state \in TaskActive
                  /\ g.task[u].state \in {"failed", "cancelled"}
    BY <2>1, <2>4, <2>5, <2>7, <2>8 DEF TaskTerminal, TaskActive
  <2>10. {RunOf[t]} \in SUBSET Runs /\ "failed" \in TerminalStatus /\ FALSE \in BOOLEAN
    BY <1>1 DEF TerminalStatus
  <2>11. TakesOnly(d, Abort(g, {RunOf[t]}, "failed", FALSE))
    BY <1>1, <2>3, <2>5, <2>6, <2>9, <2>10, AbortTakes
  <2> QED
    BY <2>2, <2>11
<1>4. CASE ~Ack /\ ~LeaseAccepts(d, w, t)
  <2>1. e = d
    BY <1>4 DEF TaskReported
  <2>2. \A v \in Workers : d.wk[v].run \in {d.wk[v].run, NoRun}
    OBVIOUS
  <2>3. TakesOnly(d, d)
    BY <1>1, <2>2, SameTakes
  <2> QED
    BY <2>1, <2>3
<1> QED
  BY <1>2, <1>3, <1>4

\* recover_worker fails the lost lease, aborts the lost bundle and reaps.
LEMMA RecoverWorkerTakes ==
  ASSUME NEW d, LedgerInv(d), Begun(d), NEW w \in Workers
  PROVE  TakesOnly(d, RecoverWorker(d, w))
<1> DEFINE t == d.wk[w].task
           g == [d EXCEPT !.task[t].state = "failed"]
           a == RecoverTask(d, w)
           r == a.wk[w].run
           h == Abort(a, {r}, "failed", TRUE)
           b == RecoverBundle(a, w)
           c == [b EXCEPT !.wk[w].task = NoTask, !.wk[w].fence = 0]
<1>1. d \in Database /\ LedgerInv(a) /\ LedgerInv(b)
  BY RecoverTaskKeeps, RecoverBundleKeeps DEF LedgerInv
<1>2. TakesOnly(d, a)
  <2>1. CASE ~LosesTask(d, w)
    <3>1. a = d
      BY <2>1 DEF RecoverTask
    <3>2. \A v \in Workers : d.wk[v].run \in {d.wk[v].run, NoRun}
      OBVIOUS
    <3>3. TakesOnly(d, d)
      BY <1>1, <3>2, SameTakes
    <3> QED
      BY <3>1, <3>3
  <2>2. CASE LosesTask(d, w)
    <3> DEFINE row == [d.task[t] EXCEPT !.state = "failed"]
    <3>1. t \in Tasks /\ d.task[t].state \in TaskActive
      <4>1. d.wk[w] \in WorkerRow
        BY <1>1, Rows
      <4> QED
        BY <2>2, <4>1 DEF LosesTask, WorkerRow
    <3>2. {RunOf[t]} \in SUBSET Runs /\ "failed" \in TerminalStatus /\ FALSE \in BOOLEAN
      BY <3>1, ShapeAssumption DEF TerminalStatus
    <3>3. a = Abort(g, {RunOf[t]}, "failed", FALSE)
      BY <2>2 DEF RecoverTask
    <3>4. d.task[t] \in TaskRow /\ d.task \in [Tasks -> TaskRow]
      BY <1>1, <3>1, Rows DEF Database
    <3>5. Abortable(d, RunOf[t])
      BY <3>1 DEF LedgerInv, TasksInsideRun, Abortable
    <3> HIDE DEF t, a
    <3>6. row \in TaskRow /\ row.state = "failed"
      BY <3>4 DEF TaskRow, TaskTerminal
    <3>7. /\ g \in Database /\ g.run = d.run /\ g.fan = d.fan /\ g.wk = d.wk
          /\ g.task = [d.task EXCEPT ![t] = row]
      BY <1>1, <3>1, <3>6 DEF Database
    <3> HIDE DEF g, row
    <3>8. ASSUME NEW u \in Tasks
          PROVE  \/ g.task[u].state = d.task[u].state
                 \/ /\ RunOf[u] \in {RunOf[t]} /\ Abortable(d, RunOf[u])
                    /\ d.task[u].state \in TaskActive
                    /\ g.task[u].state \in {"failed", "cancelled"}
      BY <3>1, <3>4, <3>5, <3>6, <3>7
    <3>9. TakesOnly(d, Abort(g, {RunOf[t]}, "failed", FALSE))
      BY <1>1, <3>2, <3>7, <3>8, AbortTakes
    <3> QED
      BY <3>3, <3>9
  <2> QED
    BY <2>1, <2>2
<1>3. a \in Database /\ a.wk[w] \in WorkerRow
  BY <1>1, Rows DEF LedgerInv
<1> HIDE DEF a
<1>4. TakesOnly(a, b)
  <2>1. CASE ~LosesBundle(a, w)
    <3>1. b = a
      BY <2>1 DEF RecoverBundle
    <3>2. \A v \in Workers : a.wk[v].run \in {a.wk[v].run, NoRun}
      OBVIOUS
    <3>3. TakesOnly(a, a)
      BY <1>3, <3>2, SameTakes
    <3> QED
      BY <3>1, <3>3
  <2>2. CASE LosesBundle(a, w)
    <3>1. r \in Runs
      BY <1>3, <2>2 DEF LosesBundle, WorkerRow
    <3>2. {r} \in SUBSET Runs /\ "failed" \in TerminalStatus /\ TRUE \in BOOLEAN
      BY <3>1 DEF TerminalStatus
    <3>3. b = [h EXCEPT !.wk[w].run = NoRun]
      BY <2>2 DEF RecoverBundle
    <3> HIDE DEF r, b
    <3>4. h \in Database /\ TakesOnly(a, h)
      BY <1>3, <3>2, AbortRows, PlainAbortTakes DEF AbortEffect
    <3> HIDE DEF h
    <3>5. /\ b.run = h.run /\ b.fan = h.fan /\ b.task = h.task
          /\ b.wk = [h.wk EXCEPT ![w].run = NoRun] /\ h.wk \in [Workers -> WorkerRow]
      BY <3>3, <3>4 DEF Database
    <3>6. \A v \in Workers : b.wk[v].run \in {h.wk[v].run, NoRun}
      BY <3>5 DEF WorkerRow
    <3>7. TakesOnly(h, b)
      BY <3>4, <3>5, <3>6, SameTakes
    <3> QED
      BY <3>4, <3>7, TakesCompose
  <2> QED
    BY <2>1, <2>2
<1>5. RecoverWorker(d, w) = Reap(c)
  BY DEF RecoverWorker, a
<1> HIDE DEF b
<1>6. /\ LedgerInv(c) /\ c.run = b.run /\ c.fan = b.fan /\ c.task = b.task
      /\ b \in Database /\ b.wk \in [Workers -> WorkerRow]
  BY <1>1, UnassignTask DEF WorkerUpdate, LedgerInv, Database
<1>7. \A v \in Workers : c.wk[v].run \in {b.wk[v].run, NoRun}
  <2>1. c.wk = [b.wk EXCEPT ![w].task = NoTask, ![w].fence = 0]
    BY <1>6 DEF Database
  <2> QED
    BY <1>6, <2>1 DEF WorkerRow
<1> HIDE DEF c
<1>8. TakesOnly(b, c)
  BY <1>6, <1>7, SameTakes
<1>9. TakesOnly(d, c)
  BY <1>2, <1>4, <1>8, TakesCompose
<1>10. TakesOnly(c, Reap(c))
  BY <1>6, <1>9, TakesBegun, ReapTakes
<1> QED
  BY <1>5, <1>9, <1>10, TakesCompose

\* register_worker: a new process recovers what the old one held, and a run of
\* its that has no ledger fails.
LEMMA RegisterTakes ==
  ASSUME NEW d, LedgerInv(d), Coupled(d), NEW w \in Workers, NEW pid
  PROVE  TakesOnly(d, [IF d.wk[w].pid = 0 THEN d ELSE InterruptRun(RecoverWorker(d, w), d, w)
                       EXCEPT !.wk[w].pid = pid])
<1> DEFINE a == RecoverWorker(d, w)
           b == InterruptRun(a, d, w)
           c == IF d.wk[w].pid = 0 THEN d ELSE b
           e == [c EXCEPT !.wk[w].pid = pid]
           r == d.wk[w].run
<1>1. d \in Database /\ d.wk[w] \in WorkerRow
  BY Rows DEF LedgerInv
<1>2. LedgerInv(a) /\ a \in Database /\ Quiet(d, a) /\ TakesOnly(d, a)
  BY RecoverWorkerKeeps, RecoverWorkerTakes DEF LedgerInv, Coupled
<1>3. LedgerInv(b)
  BY <1>1, <1>2, InterruptRunKeeps
<1> HIDE DEF a
<1>4. TakesOnly(d, b)
  <2>1. CASE r = NoRun \/ d.fan[r].state # "none"
    BY <1>2, <2>1 DEF InterruptRun
  <2>2. CASE r # NoRun /\ d.fan[r].state = "none"
    <3> DEFINE status == IF a.run[r].status \in RunTerminal THEN a.run[r].status ELSE "failed"
               row == [a.run[r] EXCEPT !.status = status]
    <3>1. r \in Runs /\ d.run[r].status # "none"
      BY <1>1, <2>2 DEF WorkerRow, Coupled, Known
    <3>2. a.run[r].status # "none" /\ a.fan[r].state = "none"
      BY <1>2, <2>2, <3>1 DEF TakesOnly, TakesRun
    <3>3. a.run[r] \in RunRow /\ a.run \in [Runs -> RunRow] /\ a.wk \in [Workers -> WorkerRow]
      BY <1>2, <3>1 DEF Database
    <3>4. row.status = status
      BY <3>3 DEF RunRow
    <3>5. /\ b.run = [a.run EXCEPT ![r] = row] /\ b.fan = a.fan /\ b.task = a.task
          /\ b.wk = [a.wk EXCEPT ![w].run = NoRun]
      BY <1>2, <2>2 DEF InterruptRun, Database
    <3> HIDE DEF r, b, row
    <3>6. \A v \in Workers : b.wk[v].run \in {a.wk[v].run, NoRun}
      BY <3>3, <3>5 DEF WorkerRow
    <3>7. TakesRun(a, b, r)
      BY <3>1, <3>2, <3>3, <3>4, <3>5 DEF TakesRun, RunTerminal, Ending
    <3> HIDE DEF status
    <3>8. TakesOnly(a, b)
      BY <1>2, <3>1, <3>3, <3>5, <3>6, <3>7, OneRunTakes
    <3> QED
      BY <1>2, <3>8, TakesCompose
  <2> QED
    BY <2>1, <2>2
<1> HIDE DEF b
<1>5. c \in Database /\ TakesOnly(d, c)
  <2>1. \A v \in Workers : d.wk[v].run \in {d.wk[v].run, NoRun}
    OBVIOUS
  <2>2. TakesOnly(d, d)
    BY <1>1, <2>1, SameTakes
  <2> QED
    BY <1>1, <1>3, <1>4, <2>2 DEF LedgerInv
<1> HIDE DEF c
<1>6. /\ e.run = c.run /\ e.fan = c.fan /\ e.task = c.task
      /\ e.wk = [c.wk EXCEPT ![w].pid = pid] /\ c.wk \in [Workers -> WorkerRow]
  BY <1>5 DEF Database
<1>7. \A v \in Workers : e.wk[v].run \in {c.wk[v].run, NoRun}
  BY <1>6 DEF WorkerRow
<1> HIDE DEF e
<1>8. TakesOnly(c, e)
  BY <1>5, <1>6, <1>7, SameTakes
<1>9. TakesOnly(d, e)
  BY <1>5, <1>8, TakesCompose
<1> QED
  BY <1>9 DEF e, c, b, a

-----------------------------------------------------------------------------

\* What RunState and ExportState say of the rows of a run and of a task.
LEMMA RunStates ==
  ASSUME NEW d \in Database, NEW r \in Runs
  PROVE  /\ RunState(d)[r] \in {"idle", "open", "stopping", "succeeded", "lost"}
         /\ RunState(d)[r] = "idle" <=> d.run[r].status = "none"
         /\ RunState(d)[r] = "succeeded" <=> d.run[r].status = "succeeded"
         /\ RunState(d)[r] = "lost" <=> d.run[r].status \in {"failed", "cancelled"}
         /\ RunState(d)[r] = "stopping" <=>
              d.run[r].status \in Open /\ d.fan[r].state = "aborting"
         /\ RunState(d)[r] = "open" <=>
              d.run[r].status \in Open /\ d.fan[r].state # "aborting"
<1>1. d.run[r] \in RunRow
  BY Rows
<1>2. d.run[r].status \in {"none", "succeeded", "failed", "cancelled"} \cup Open
  BY <1>1 DEF RunRow, RunTerminal, RunActive, Open
<1>3. CASE d.run[r].status = "none"
  BY <1>3 DEF RunState, Open, RunActive
<1>4. CASE d.run[r].status = "succeeded"
  BY <1>4 DEF RunState, Open, RunActive
<1>5. CASE d.run[r].status \in {"failed", "cancelled"}
  BY <1>5 DEF RunState, Open, RunActive
<1>6. CASE d.run[r].status \in Open
  BY <1>6 DEF RunState, Open, RunActive
<1> QED
  BY <1>2, <1>3, <1>4, <1>5, <1>6

\* The state of an export on its reservation, from the state column of its task.
LEMMA ExportStates ==
  ASSUME NEW d \in Database, NEW t \in Tasks
  PROVE  /\ ExportState(d)[t] \in {"waiting", "leased", "done", "over"}
         /\ ExportState(d)[t] = "waiting" <=> d.task[t].state \in {"none", "queued"}
         /\ ExportState(d)[t] = "leased" <=> d.task[t].state \in TaskActive
         /\ ExportState(d)[t] = "done" <=> d.task[t].state = "succeeded"
         /\ ExportState(d)[t] = "over" <=> d.task[t].state \in {"failed", "cancelled"}
<1>1. d.task[t] \in TaskRow
  BY Rows
<1>2. d.task[t].state \in {"none", "queued", "succeeded", "failed", "cancelled"} \cup TaskActive
  BY <1>1 DEF TaskRow, TaskTerminal
<1>3. CASE d.task[t].state \in {"none", "queued"}
  BY <1>3 DEF ExportState, TaskActive
<1>4. CASE d.task[t].state \in TaskActive
  BY <1>4 DEF ExportState, TaskActive
<1>5. CASE d.task[t].state = "succeeded"
  BY <1>5 DEF ExportState, TaskActive
<1>6. CASE d.task[t].state \in {"failed", "cancelled"}
  BY <1>6 DEF ExportState, TaskActive
<1> QED
  BY <1>2, <1>3, <1>4, <1>5, <1>6

\* The steps of RunReservation for one run, over two databases.
SameExport(d, e, t) == ExportState(e)[t] = ExportState(d)[t]
RestsOn(d, e, r) ==
  /\ RunState(e)[r] = RunState(d)[r]
  /\ \A t \in TasksOf(r) : SameExport(d, e, t)
WithdrawsOn(d, e, r) ==
  /\ RunState(d)[r] \in {"open", "stopping"} /\ RunState(e)[r] \in {"stopping", "lost"}
  /\ \A t \in TasksOf(r) :
       \/ SameExport(d, e, t)
       \/ ExportState(d)[t] \in {"waiting", "leased"} /\ ExportState(e)[t] = "over"
  /\ RunState(e)[r] = "lost" => \A t \in TasksOf(r) : ExportState(e)[t] # "leased"
OpensOn(d, e, r) ==
  /\ RunState(d)[r] = "idle" /\ RunState(e)[r] = "open"
  /\ \A t \in TasksOf(r) : SameExport(d, e, t)
CarriesOn(d, e, r) ==
  /\ RunState(d)[r] = "open" /\ RunState(e)[r] = "open"
  /\ \A t \in TasksOf(r) :
       ExportState(d)[t] = "waiting" /\ ExportState(e)[t] \in {"waiting", "done"}
MovesOn(d, e, r, t, from, to) ==
  /\ RunState(d)[r] = "open" /\ RunState(e)[r] = "open"
  /\ ExportState(d)[t] = from /\ ExportState(e)[t] = to
  /\ \A u \in TasksOf(r) \ {t} : SameExport(d, e, u)
SucceedsOn(d, e, r) ==
  /\ RunState(d)[r] = "open" /\ RunState(e)[r] = "succeeded"
  /\ \A t \in TasksOf(r) : ExportState(d)[t] = "done" /\ SameExport(d, e, t)
GivesOn(d, e, r) ==
  \/ OpensOn(d, e, r) \/ CarriesOn(d, e, r) \/ SucceedsOn(d, e, r)
  \/ \E t \in TasksOf(r) :
       MovesOn(d, e, r, t, "waiting", "leased") \/ MovesOn(d, e, r, t, "leased", "done")

\* A rewrite that serves one run, the only one that is given anything.
Grants(d, e) ==
  /\ \E r \in Runs : GivesOn(d, e, r) /\ \A q \in Runs \ {r} : RestsOn(d, e, q)
  /\ \A t \in Tasks : e.task[t].state = "cancelling" => d.task[t].state = "cancelling"
  /\ \A r \in Runs : d.fan[r].state = "aborting" => e.fan[r].state = "aborting"
  /\ \A r \in Runs : d.run[r].status # "none" => e.run[r].status # "none"
  /\ \A w \in Workers : e.wk[w].run \in {d.wk[w].run, NoRun}
Reserves(d, e) == TakesOnly(d, e) \/ Grants(d, e) \/ Grants(Reap(d), e)

\* The step of the protocol that two databases show.
RestOrWithdraw(d, e) == \A r \in Runs : RestsOn(d, e, r) \/ WithdrawsOn(d, e, r)
OneServed(d, e) ==
  \E r \in Runs : /\ GivesOn(d, e, r)
                  /\ \A q \in Runs \ {r} : RestsOn(d, e, q) \/ WithdrawsOn(d, e, q)

\* A rewrite that only takes leaves every run alone or withdraws from it.
LEMMA TakesWithdraws ==
  ASSUME NEW d, NEW e, LedgerInv(d), LedgerInv(e), Keeps(d, e), Begun(d), TakesOnly(d, e)
  PROVE  RestOrWithdraw(d, e)
<1>1. d \in Database /\ e \in Database
  BY DEF LedgerInv
<1> SUFFICES ASSUME NEW r \in Runs PROVE RestsOn(d, e, r) \/ WithdrawsOn(d, e, r)
  BY DEF RestOrWithdraw
<1>2. TakesRun(d, e, r) /\ d.run[r] \in RunRow /\ e.run[r] \in RunRow
  BY <1>1, Rows DEF TakesOnly
<1>3. \A t \in TasksOf(r) : t \in Tasks /\ RunOf[t] = r
  BY DEF TasksOf
<1>4. ASSUME NEW t \in TasksOf(r), e.task[t].state = d.task[t].state PROVE SameExport(d, e, t)
  BY <1>1, <1>3, <1>4, ExportStates DEF SameExport
<1>5. ASSUME NEW t \in TasksOf(r)
      PROVE  \/ e.task[t].state = d.task[t].state
             \/ OverTask(d, e, t) /\ Abortable(d, r) /\ e.fan[r].state \in Ending
  BY <1>3 DEF TakesOnly, OverTask
<1>6. ASSUME ~Abortable(d, r), RunState(e)[r] = RunState(d)[r] PROVE RestsOn(d, e, r)
  BY <1>4, <1>5, <1>6 DEF RestsOn
<1>7. CASE d.run[r].status = "none"
  <2>1. ~Abortable(d, r)
    BY <1>7 DEF Begun, Abortable
  <2>2. RunState(d)[r] = "idle" /\ RunState(e)[r] = "idle"
    BY <1>1, <1>2, <1>7, RunStates DEF TakesRun
  <2> QED
    BY <1>6, <2>1, <2>2
<1>8. CASE d.run[r].status \in RunTerminal
  <2>1. ~Abortable(d, r) /\ e.run[r].status = d.run[r].status
    BY <1>8 DEF LedgerInv, LedgerEndsWithRun, Abortable, Keeps
  <2>2. RunState(e)[r] = RunState(d)[r]
    BY <1>8, <2>1 DEF RunState, RunTerminal, RunActive
  <2> QED
    BY <1>6, <2>1, <2>2
<1>9. CASE d.run[r].status \in Open
  <2>1. RunState(d)[r] \in {"open", "stopping"}
    BY <1>1, <1>9, RunStates
  <2>2. e.run[r].status \in Open \cup {"failed", "cancelled"}
    BY <1>2, <1>9 DEF TakesRun, RunRow, Open, RunActive, RunTerminal
  <2>3. ASSUME NEW t \in TasksOf(r)
        PROVE  \/ SameExport(d, e, t)
               \/ ExportState(d)[t] \in {"waiting", "leased"} /\ ExportState(e)[t] = "over"
    <3>1. CASE e.task[t].state = d.task[t].state
      BY <1>4, <3>1
    <3>2. CASE OverTask(d, e, t) /\ e.task[t].state = "cancelling"
      <4>1. d.task[t].state \in TaskActive /\ e.task[t].state \in TaskActive
        BY <3>2 DEF OverTask, TaskActive
      <4> QED
        BY <1>1, <1>3, <4>1, ExportStates DEF SameExport
    <3>3. CASE OverTask(d, e, t) /\ e.task[t].state # "cancelling"
      <4>1. /\ d.task[t].state \in {"none", "queued"} \/ d.task[t].state \in TaskActive
            /\ e.task[t].state \in {"failed", "cancelled"}
        BY <3>3 DEF OverTask
      <4> QED
        BY <1>1, <1>3, <4>1, ExportStates
    <3> QED
      BY <1>5, <3>1, <3>2, <3>3
  <2>4. ASSUME e.run[r].status \in {"failed", "cancelled"}, NEW t \in TasksOf(r)
        PROVE  ExportState(e)[t] # "leased"
    <3>1. e.task[t].state \notin TaskActive
      BY <1>3, <2>4 DEF LedgerInv, TasksInsideRun, RunActive
    <3> QED
      BY <1>1, <1>3, <3>1, ExportStates
  <2>5. CASE e.run[r].status \in {"failed", "cancelled"}
    <3>1. RunState(e)[r] = "lost"
      BY <1>1, <2>5, RunStates
    <3> QED
      BY <2>1, <2>3, <2>4, <2>5, <3>1 DEF WithdrawsOn
  <2>6. CASE e.run[r].status \in Open /\ e.fan[r].state = "aborting"
    <3>1. RunState(e)[r] = "stopping"
      BY <1>1, <2>6, RunStates
    <3> QED
      BY <2>1, <2>3, <3>1 DEF WithdrawsOn
  <2>7. CASE e.run[r].status \in Open /\ e.fan[r].state # "aborting"
    <3>1. e.fan[r].state \notin Ending
      BY <2>7 DEF LedgerInv, LedgerEndsWithRun, Open, RunActive, RunTerminal, Ending
    <3>2. d.fan[r].state # "aborting"
      BY <1>2, <3>1 DEF TakesRun
    <3>3. RunState(d)[r] = "open" /\ RunState(e)[r] = "open"
      BY <1>1, <1>9, <2>7, <3>2, RunStates
    <3>4. \A t \in TasksOf(r) : SameExport(d, e, t)
      BY <1>4, <1>5, <3>1
    <3> QED
      BY <3>3, <3>4 DEF RestsOn
  <2> QED
    BY <2>2, <2>5, <2>6, <2>7
<1>10. d.run[r].status \in {"none"} \cup Open \cup RunTerminal
  BY <1>2 DEF RunRow, Open
<1> QED
  BY <1>7, <1>8, <1>9, <1>10

\* A rewrite that takes before the one that serves does not take from the run
\* that is served.
LEMMA GrantServes ==
  ASSUME NEW d, NEW a, NEW e, RestOrWithdraw(d, a), Grants(a, e)
  PROVE  OneServed(d, e)
<1>1. PICK r \in Runs : GivesOn(a, e, r) /\ \A q \in Runs \ {r} : RestsOn(a, e, q)
  BY DEF Grants
<1>2. RunState(a)[r] \in {"idle", "open"}
  BY <1>1 DEF GivesOn, OpensOn, CarriesOn, SucceedsOn, MovesOn
<1>3. RestsOn(d, a, r)
  BY <1>2 DEF RestOrWithdraw, WithdrawsOn
<1>4. GivesOn(d, e, r)
  <2>1. RunState(a)[r] = RunState(d)[r] /\ \A t \in TasksOf(r) : ExportState(a)[t] = ExportState(d)[t]
    BY <1>3 DEF RestsOn, SameExport
  <2>2. CASE OpensOn(a, e, r)
    BY <2>1, <2>2 DEF GivesOn, OpensOn, SameExport
  <2>3. CASE CarriesOn(a, e, r)
    BY <2>1, <2>3 DEF GivesOn, CarriesOn, SameExport
  <2>4. CASE SucceedsOn(a, e, r)
    BY <2>1, <2>4 DEF GivesOn, SucceedsOn, SameExport
  <2>5. ASSUME NEW t \in TasksOf(r), NEW from, NEW to, MovesOn(a, e, r, t, from, to)
        PROVE  MovesOn(d, e, r, t, from, to)
    BY <2>1, <2>5 DEF MovesOn, SameExport
  <2> QED
    BY <1>1, <2>2, <2>3, <2>4, <2>5 DEF GivesOn
<1>5. ASSUME NEW q \in Runs \ {r} PROVE RestsOn(d, e, q) \/ WithdrawsOn(d, e, q)
  <2>1. RestsOn(a, e, q)
    BY <1>1
  <2>2. CASE RestsOn(d, a, q)
    BY <2>1, <2>2 DEF RestsOn, SameExport
  <2>3. CASE WithdrawsOn(d, a, q)
    <3>1. RunState(e)[q] = RunState(a)[q] /\ \A t \in TasksOf(q) : ExportState(e)[t] = ExportState(a)[t]
      BY <2>1 DEF RestsOn, SameExport
    <3> QED
      BY <2>3, <3>1 DEF WithdrawsOn, SameExport
  <2> QED
    BY <2>2, <2>3 DEF RestOrWithdraw
<1> QED
  BY <1>4, <1>5 DEF OneServed

\* Nothing that is served or taken leaves a cancelling task outside an ending
\* bundle, or a worker with a run that nobody asked for.
LEMMA CoupledKept ==
  ASSUME NEW d, NEW e, LedgerInv(d), LedgerInv(e), Coupled(d), Reserves(d, e)
  PROVE  Draining(e) /\ Known(e)
<1>1. ASSUME NEW a, NEW b, LedgerInv(b), TakesOnly(a, b), Draining(a) PROVE Draining(b)
  <2> SUFFICES ASSUME NEW t \in Tasks, b.task[t].state = "cancelling"
               PROVE  b.fan[RunOf[t]].state = "aborting"
    BY DEF Draining
  <2>1. RunOf[t] \in Runs /\ b.fan[RunOf[t]].state \in {"downloading", "aborting"}
    BY <1>1, ShapeAssumption DEF LedgerInv, TasksInsideRun, TaskActive
  <2>2. CASE b.task[t].state = a.task[t].state
    BY <1>1, <2>1, <2>2 DEF Draining, TakesOnly, TakesRun, Ending
  <2>3. CASE OverTask(a, b, t)
    BY <2>1, <2>3 DEF OverTask, Ending
  <2> QED
    BY <1>1, <2>2, <2>3 DEF TakesOnly
<1>2. ASSUME NEW a, NEW b, LedgerInv(a), Grants(a, b), Draining(a), Known(a)
      PROVE  Draining(b) /\ Known(b)
  <2>1. Draining(b)
    BY <1>2, ShapeAssumption DEF Draining, Grants
  <2>2. ASSUME NEW w \in Workers, b.wk[w].run # NoRun
        PROVE  b.run[b.wk[w].run].status # "none"
    <3>1. a.wk[w] \in WorkerRow /\ b.wk[w].run = a.wk[w].run
      BY <1>2, <2>2, Rows DEF LedgerInv, Grants
    <3>2. a.wk[w].run \in Runs /\ a.run[a.wk[w].run].status # "none"
      BY <1>2, <2>2, <3>1 DEF WorkerRow, Known
    <3> QED
      BY <1>2, <3>1, <3>2 DEF Grants
  <2> QED
    BY <2>1, <2>2 DEF Known
<1>3. CASE TakesOnly(d, e)
  BY <1>1, <1>3 DEF Coupled, TakesOnly
<1>4. CASE Grants(d, e)
  BY <1>2, <1>4 DEF Coupled
<1>5. CASE Grants(Reap(d), e)
  <2>1. LedgerInv(Reap(d)) /\ TakesOnly(d, Reap(d))
    BY ReapKeeps, ReapTakes DEF Coupled
  <2>2. Draining(Reap(d)) /\ Known(Reap(d))
    BY <1>1, <2>1 DEF Coupled, TakesOnly
  <2> QED
    BY <1>2, <1>5, <2>1, <2>2
<1> QED
  BY <1>3, <1>4, <1>5 DEF Reserves

\* Every transaction is a step of the protocol.
LEMMA ReservesStep ==
  ASSUME NEW d, NEW e, LedgerInv(d), LedgerInv(e), Keeps(d, e), Begun(d), Reserves(d, e)
  PROVE  RestOrWithdraw(d, e) \/ OneServed(d, e)
<1>1. CASE TakesOnly(d, e)
  BY <1>1, TakesWithdraws
<1>2. CASE Grants(d, e)
  <2>1. RestOrWithdraw(d, d)
    BY DEF RestOrWithdraw, RestsOn, SameExport
  <2> QED
    BY <1>2, <2>1, GrantServes
<1>3. CASE Grants(Reap(d), e)
  <2>1. LedgerInv(Reap(d)) /\ Keeps(d, Reap(d)) /\ TakesOnly(d, Reap(d))
    BY ReapKeeps, ReapTakes
  <2>2. RestOrWithdraw(d, Reap(d))
    BY <2>1, TakesWithdraws
  <2> QED
    BY <1>3, <2>2, GrantServes
<1> QED
  BY <1>1, <1>2, <1>3 DEF Reserves

\* claim_finalizer moves the ledger of a bundle that is still downloading.
LEMMA ClaimFinalizerTakes ==
  ASSUME NEW d \in Database, NEW w \in Workers, NEW r \in Runs, Finalizable(d, w, r)
  PROVE  TakesOnly(d, [d EXCEPT !.fan[r].state = "finalizing"])
<1> DEFINE e == [d EXCEPT !.fan[r].state = "finalizing"]
<1>1. d.fan \in [Runs -> FanRow] /\ d.fan[r].state \in {"downloading", "finalizing"}
  BY DEF Database, Finalizable
<1>2. /\ e.fan = [d.fan EXCEPT ![r].state = "finalizing"]
      /\ e.run = d.run /\ e.task = d.task /\ e.wk = d.wk
  BY DEF Database
<1> HIDE DEF e
<1>3. e.fan[r].state = "finalizing" /\ \A q \in Runs \ {r} : e.fan[q] = d.fan[q]
  BY <1>1, <1>2 DEF FanRow
<1>4. TakesRun(d, e, r)
  BY <1>1, <1>2, <1>3 DEF TakesRun
<1>5. TakesOnly(d, e)
  BY <1>2, <1>3, <1>4, OneRunTakes
<1> QED
  BY <1>5 DEF e

\* The coordinator's failed report, with the fence it may raise.
LEMMA ReportFailedTakes ==
  ASSUME NEW d, LedgerInv(d), NEW w \in Workers, NEW r \in Runs, d.run[r].status \in RunActive
  PROVE  TakesOnly(d, EndRun(RaiseUncertain(d, r), w, r, "failed"))
<1> DEFINE g == EndRun(d, w, r, "failed")
           e == EndRun(RaiseUncertain(d, r), w, r, "failed")
<1>1. d \in Database /\ TakesOnly(d, g)
  BY EndRunTakes DEF LedgerInv
<1>2. CASE RaiseUncertain(d, r) = d
  BY <1>1, <1>2
<1>3. CASE RaiseUncertain(d, r) # d
  <2>1. e = EndRun([d EXCEPT !.recon[FlowOf[r]] = TRUE], w, r, "failed")
    BY <1>3 DEF RaiseUncertain
  <2>2. /\ e.run = [d.run EXCEPT ![r].status = "failed"] /\ e.task = d.task
        /\ e.fan = [d.fan EXCEPT ![r].state = IF @ = "none" THEN @ ELSE "complete"]
        /\ e.wk = [d.wk EXCEPT ![w].run = NoRun]
    BY <1>1, <2>1 DEF EndRun, Database
  <2>3. /\ g.run = [d.run EXCEPT ![r].status = "failed"] /\ g.task = d.task
        /\ g.fan = [d.fan EXCEPT ![r].state = IF @ = "none" THEN @ ELSE "complete"]
        /\ g.wk = [d.wk EXCEPT ![w].run = NoRun]
    BY <1>1 DEF EndRun, Database
  <2> HIDE DEF e, g
  <2>4. /\ e.run = g.run /\ e.fan = g.fan /\ e.task = g.task /\ e.wk = g.wk
    BY <2>2, <2>3
  <2>5. TakesOnly(d, e)
    BY <1>1, <2>4 DEF TakesOnly, TakesRun, OverTask, Known
  <2> QED
    BY <2>5 DEF e
<1> QED
  BY <1>2, <1>3

-----------------------------------------------------------------------------
\* The five rewrites that give a run something.

\* A run whose status, ledger and tasks keep their states rests.
LEMMA RestRows ==
  ASSUME NEW d \in Database, NEW e \in Database, NEW q \in Runs,
         e.run[q].status = d.run[q].status, e.fan[q].state = d.fan[q].state,
         \A t \in TasksOf(q) : e.task[t].state = d.task[t].state
  PROVE  RestsOn(d, e, q)
<1>1. RunState(e)[q] = RunState(d)[q]
  BY RunStates
<1>2. ASSUME NEW t \in TasksOf(q) PROVE SameExport(d, e, t)
  <2>1. t \in Tasks /\ e.task[t].state = d.task[t].state
    BY DEF TasksOf
  <2> QED
    BY <2>1, ExportStates DEF SameExport
<1> QED
  BY <1>1, <1>2 DEF RestsOn

\* queue_flow_run_service opens the run it queues and touches no other.
LEMMA QueueGrants ==
  ASSUME NEW d, LedgerInv(d), Begun(d), NEW r \in Runs, MayQueue(d, r)
  PROVE  Grants(d, [d EXCEPT !.run[r].status = "queued"])
<1> DEFINE e == [d EXCEPT !.run[r].status = "queued"]
<1>1. d \in Database /\ d.run[r].status = "none" /\ e \in Database
  BY QueueKeeps DEF LedgerInv, MayQueue
<1>2. d.run \in [Runs -> RunRow] /\ d.fan \in [Runs -> FanRow] /\ d.fan[r].state = "none"
  BY <1>1 DEF Database, Begun
<1>3. /\ e.run = [d.run EXCEPT ![r].status = "queued"]
      /\ e.fan = d.fan /\ e.task = d.task /\ e.wk = d.wk
  BY <1>1 DEF Database
<1> HIDE DEF e
<1>4. e.run[r].status = "queued" /\ \A q \in Runs \ {r} : e.run[q] = d.run[q]
  BY <1>2, <1>3 DEF RunRow
<1>5. ASSUME NEW q \in Runs \ {r} PROVE RestsOn(d, e, q)
  BY <1>1, <1>3, <1>4, RestRows
<1>6. OpensOn(d, e, r)
  <2>1. RunState(d)[r] = "idle"
    BY <1>1, RunStates
  <2>2. RunState(e)[r] = "open"
    BY <1>1, <1>2, <1>3, <1>4, RunStates DEF Open
  <2>3. \A t \in TasksOf(r) : SameExport(d, e, t)
    BY <1>3 DEF SameExport, ExportState
  <2> QED
    BY <2>1, <2>2, <2>3 DEF OpensOn
<1>7. Grants(d, e)
  BY <1>1, <1>3, <1>4, <1>5, <1>6 DEF Grants, GivesOn
<1> QED
  BY <1>7 DEF e

\* claim_task leases one waiting export of an open run, or confirms a lease.
LEMMA AssignTaskGrants ==
  ASSUME NEW d, LedgerInv(d), NEW w \in Workers, NEW R, NEW t \in TaskOffers(d, w, R)
  PROVE  AssignTask(d, w, t) = d \/ Grants(d, AssignTask(d, w, t))
<1> DEFINE e == AssignTask(d, w, t)
           r == RunOf[t]
<1>1. /\ d \in Database /\ e \in Database /\ t \in Tasks /\ r \in Runs
      /\ (d.wk[w].task = t /\ d.task[t].state = "claimed") \/ Claimable(d, w, t)
  BY AssignTaskKeeps, OffersClaimable, ShapeAssumption DEF LedgerInv
<1>2. CASE d.wk[w].task = t /\ d.task[t].state = "claimed"
  BY <1>2 DEF AssignTask
<1>3. CASE ~(d.wk[w].task = t /\ d.task[t].state = "claimed")
  <2>1. /\ d.task[t].state = "queued"
        /\ d.fan[r].state = "downloading" /\ d.run[r].status \in RunActive
    BY <1>1, <1>3 DEF Claimable
  <2> HIDE DEF r
  <2>2. d.task \in [Tasks -> TaskRow] /\ d.wk \in [Workers -> WorkerRow]
    BY <1>1 DEF Database
  <2>3. /\ e.task = [d.task EXCEPT ![t] = [state |-> "claimed", worker |-> w, expired |-> FALSE]]
        /\ e.wk = [d.wk EXCEPT ![w].task = t] /\ e.run = d.run /\ e.fan = d.fan
    BY <1>1, <1>3 DEF AssignTask, Database
  <2> HIDE DEF e
  <2>4. e.task[t].state = "claimed" /\ \A u \in Tasks \ {t} : e.task[u] = d.task[u]
    BY <1>1, <2>2, <2>3
  <2>5. \A v \in Workers : e.wk[v].run = d.wk[v].run
    BY <2>2, <2>3 DEF WorkerRow
  <2>6. ASSUME NEW q \in Runs \ {r} PROVE RestsOn(d, e, q)
    <3>1. \A u \in TasksOf(q) : e.task[u].state = d.task[u].state
      BY <2>4 DEF TasksOf, r
    <3> QED
      BY <1>1, <2>3, <3>1, RestRows
  <2>7. MovesOn(d, e, r, t, "waiting", "leased")
    <3>1. RunState(d)[r] = "open" /\ RunState(e)[r] = "open"
      BY <1>1, <2>1, <2>3, RunStates DEF Open
    <3>2. ExportState(d)[t] = "waiting" /\ ExportState(e)[t] = "leased"
      BY <1>1, <2>1, <2>4, ExportStates DEF TaskActive
    <3>3. ASSUME NEW u \in TasksOf(r) \ {t} PROVE SameExport(d, e, u)
      <4>1. u \in Tasks /\ e.task[u].state = d.task[u].state
        BY <2>4 DEF TasksOf
      <4> QED
        BY <1>1, <4>1, ExportStates DEF SameExport
    <3> QED
      BY <3>1, <3>2, <3>3 DEF MovesOn
  <2>8. t \in TasksOf(r)
    BY <1>1 DEF TasksOf, r
  <2>9. \A u \in Tasks : e.task[u].state = "cancelling" => d.task[u].state = "cancelling"
    BY <2>4
  <2>10. Grants(d, e)
    BY <1>1, <2>3, <2>5, <2>6, <2>7, <2>8, <2>9 DEF Grants, GivesOn
  <2> QED
    BY <2>10 DEF e
<1> QED
  BY <1>2, <1>3

\* report_task delivers one leased export of an open run.
LEMMA DeliverGrants ==
  ASSUME NEW d, LedgerInv(d), NEW w \in Workers, NEW t \in Tasks, LeaseAccepts(d, w, t)
  PROVE  Grants(d, FinishTask(d, w, t, "succeeded"))
<1> DEFINE e == FinishTask(d, w, t, "succeeded")
           r == RunOf[t]
           row == [d.task[t] EXCEPT !.state = "succeeded"]
           task == IF d.wk[w].task = t THEN NoTask ELSE d.wk[w].task
<1>1. /\ d \in Database /\ e \in Database /\ r \in Runs
      /\ d.task[t].state = "claimed" /\ d.fan[r].state = "downloading"
      /\ d.run[r].status \in RunActive
  BY FinishTaskKeeps, ShapeAssumption
     DEF LedgerInv, TasksInsideRun, LeaseAccepts, TaskTerminal, TaskActive
<1> HIDE DEF r
<1>2. d.task \in [Tasks -> TaskRow] /\ d.wk \in [Workers -> WorkerRow]
  BY <1>1 DEF Database
<1>3. row.state = "succeeded"
  BY <1>2 DEF TaskRow
<1>4. /\ e.task = [d.task EXCEPT ![t] = row]
      /\ e.wk = [d.wk EXCEPT ![w].task = task] /\ e.run = d.run /\ e.fan = d.fan
  BY <1>1 DEF FinishTask, Database
<1> HIDE DEF e, row, task
<1>5. e.task[t].state = "succeeded" /\ \A u \in Tasks \ {t} : e.task[u] = d.task[u]
  BY <1>2, <1>3, <1>4
<1>6. \A v \in Workers : e.wk[v].run = d.wk[v].run
  BY <1>2, <1>4 DEF WorkerRow
<1>7. ASSUME NEW q \in Runs \ {r} PROVE RestsOn(d, e, q)
  <2>1. \A u \in TasksOf(q) : e.task[u].state = d.task[u].state
    BY <1>5 DEF TasksOf, r
  <2> QED
    BY <1>1, <1>4, <2>1, RestRows
<1>8. MovesOn(d, e, r, t, "leased", "done")
  <2>1. RunState(d)[r] = "open" /\ RunState(e)[r] = "open"
    BY <1>1, <1>4, RunStates DEF Open
  <2>2. ExportState(d)[t] = "leased" /\ ExportState(e)[t] = "done"
    BY <1>1, <1>5, ExportStates DEF TaskActive
  <2>3. ASSUME NEW u \in TasksOf(r) \ {t} PROVE SameExport(d, e, u)
    <3>1. u \in Tasks /\ e.task[u].state = d.task[u].state
      BY <1>5 DEF TasksOf
    <3> QED
      BY <1>1, <3>1, ExportStates DEF SameExport
  <2> QED
    BY <2>1, <2>2, <2>3 DEF MovesOn
<1>9. t \in TasksOf(r)
  BY DEF TasksOf, r
<1>10. \A u \in Tasks : e.task[u].state = "cancelling" => d.task[u].state = "cancelling"
  BY <1>5
<1>11. Grants(d, e)
  BY <1>1, <1>4, <1>6, <1>7, <1>8, <1>9, <1>10 DEF Grants, GivesOn
<1> QED
  BY <1>11 DEF e

\* initialize() queues the exports of a run and carries those it already has.
LEMMA InitializeGrants ==
  ASSUME NEW d, LedgerInv(d), NEW w \in Workers, NEW r \in Runs, NEW done,
         Owner(d, w, r), d.fan[r].state = "none"
  PROVE  Grants(d, Initialized(d, w, r, done))
<1> DEFINE e == Initialized(d, w, r, done)
           row == [d.run[r] EXCEPT !.status = "running"]
           ledger == [[d.fan[r] EXCEPT !.state = "downloading"] EXCEPT !.coordinator = w]
           task == [t \in Tasks |-> IF RunOf[t] # r THEN d.task[t] ELSE
                     [d.task[t] EXCEPT !.state = IF t \in done THEN "succeeded" ELSE "queued"]]
<1>1. d \in Database /\ e \in Database /\ d.run[r].status \in RunActive
  BY InitializeKeeps DEF LedgerInv, Owner
<1>2. d.run \in [Runs -> RunRow] /\ d.fan \in [Runs -> FanRow] /\ d.task \in [Tasks -> TaskRow]
  BY <1>1 DEF Database
<1>3. row.status = "running" /\ ledger.state = "downloading"
  BY <1>2 DEF RunRow, FanRow
<1>4. ASSUME NEW t \in Tasks
      PROVE  /\ RunOf[t] # r => task[t] = d.task[t]
             /\ RunOf[t] = r => task[t].state \in {"succeeded", "queued"}
  <2> DEFINE state == IF t \in done THEN "succeeded" ELSE "queued"
  <2>1. state \in {"succeeded", "queued"} /\ d.task[t] \in TaskRow
    BY <1>2
  <2>2. task[t] = IF RunOf[t] # r THEN d.task[t] ELSE [d.task[t] EXCEPT !.state = state]
    OBVIOUS
  <2> HIDE DEF state, task
  <2> QED
    BY <2>1, <2>2 DEF TaskRow
<1>5. /\ e.run = [d.run EXCEPT ![r] = row] /\ e.fan = [d.fan EXCEPT ![r] = ledger]
      /\ e.task = task /\ e.wk = d.wk
  BY ZenonT(60), <1>1 DEF Initialized, Database
<1> HIDE DEF e, row, ledger, task
<1>6. /\ e.run[r].status = "running" /\ e.fan[r].state = "downloading"
      /\ \A q \in Runs \ {r} : e.run[q] = d.run[q] /\ e.fan[q] = d.fan[q]
  BY <1>2, <1>3, <1>5
<1>7. \A t \in TasksOf(r) : t \in Tasks /\ d.task[t].state = "none"
                            /\ e.task[t].state \in {"succeeded", "queued"}
  BY <1>4, <1>5 DEF LedgerInv, TasksInsideRun, TasksOf
<1>8. ASSUME NEW q \in Runs \ {r} PROVE RestsOn(d, e, q)
  <2>1. \A t \in TasksOf(q) : e.task[t].state = d.task[t].state
    BY <1>4, <1>5 DEF TasksOf
  <2> QED
    BY <1>1, <1>6, <2>1, RestRows
<1>9. CarriesOn(d, e, r)
  <2>1. RunState(d)[r] = "open"
    BY <1>1, RunStates DEF Open
  <2>2. RunState(e)[r] = "open"
    BY <1>1, <1>6, RunStates DEF Open, RunActive
  <2>3. ASSUME NEW t \in TasksOf(r)
        PROVE  ExportState(d)[t] = "waiting" /\ ExportState(e)[t] \in {"waiting", "done"}
    BY <1>1, <1>7, ExportStates
  <2> QED
    BY <2>1, <2>2, <2>3 DEF CarriesOn
<1>10. \A t \in Tasks : e.task[t].state = "cancelling" => d.task[t].state = "cancelling"
  BY <1>4, <1>5
<1>11. /\ \A q \in Runs : d.fan[q].state = "aborting" => e.fan[q].state = "aborting"
       /\ \A q \in Runs : d.run[q].status # "none" => e.run[q].status # "none"
  BY <1>6
<1>12. Grants(d, e)
  BY <1>5, <1>8, <1>9, <1>10, <1>11 DEF Grants, GivesOn
<1> QED
  BY <1>12 DEF e

\* A finalizer's run succeeds with every export delivered.
LEMMA SucceedGrants ==
  ASSUME NEW d, LedgerInv(d), NEW w \in Workers, NEW r \in Runs,
         d.run[r].status \in RunActive, d.fan[r].state = "finalizing"
  PROVE  Grants(d, EndRun(d, w, r, "succeeded"))
<1> DEFINE e == EndRun(d, w, r, "succeeded")
           row == [d.run[r] EXCEPT !.status = "succeeded"]
           ledger == [d.fan[r] EXCEPT !.state = "complete"]
<1>1. d \in Database /\ AllSucceeded(d, r)
  BY DEF LedgerInv, FinalizedIsWhole
<1>2. \A t \in TasksOf(r) : t \in Tasks /\ d.task[t].state = "succeeded"
  BY <1>1 DEF AllSucceeded, TasksOf
<1>3. e \in Database
  <2>1. d.run[r].status \notin RunTerminal /\ \A t \in TasksOf(r) : d.task[t].state \notin TaskActive
    BY <1>2 DEF RunActive, RunTerminal, TaskActive
  <2> QED
    BY <1>1, <2>1, EndRunKeeps DEF LedgerInv
<1>4. /\ d.run \in [Runs -> RunRow] /\ d.fan \in [Runs -> FanRow] /\ d.wk \in [Workers -> WorkerRow]
  BY <1>1 DEF Database
<1>5. row.status = "succeeded" /\ ledger.state = "complete"
  BY <1>4 DEF RunRow, FanRow
<1>6. /\ e.run = [d.run EXCEPT ![r] = row] /\ e.fan = [d.fan EXCEPT ![r] = ledger]
      /\ e.task = d.task /\ e.wk = [d.wk EXCEPT ![w].run = NoRun]
  BY <1>1 DEF EndRun, Database
<1> HIDE DEF e, row, ledger
<1>7. /\ e.run[r].status = "succeeded"
      /\ \A q \in Runs \ {r} : e.run[q] = d.run[q] /\ e.fan[q] = d.fan[q]
  BY <1>4, <1>5, <1>6
<1>8. \A v \in Workers : e.wk[v].run \in {d.wk[v].run, NoRun}
  BY <1>4, <1>6 DEF WorkerRow
<1>9. ASSUME NEW q \in Runs \ {r} PROVE RestsOn(d, e, q)
  BY <1>1, <1>3, <1>6, <1>7, RestRows
<1>10. SucceedsOn(d, e, r)
  <2>1. RunState(d)[r] = "open"
    BY <1>1, RunStates DEF Open
  <2>2. RunState(e)[r] = "succeeded"
    BY <1>3, <1>7, RunStates
  <2>3. ASSUME NEW t \in TasksOf(r) PROVE ExportState(d)[t] = "done" /\ SameExport(d, e, t)
    BY <1>1, <1>2, <1>3, <1>6, ExportStates DEF SameExport
  <2> QED
    BY <2>1, <2>2, <2>3 DEF SucceedsOn
<1>11. Grants(d, e)
  <2>1. /\ \A q \in Runs : d.fan[q].state = "aborting" => e.fan[q].state = "aborting"
        /\ \A q \in Runs : d.run[q].status # "none" => e.run[q].status # "none"
    BY <1>7
  <2> QED
    BY <1>6, <1>8, <1>9, <1>10, <2>1 DEF Grants, GivesOn
<1> QED
  BY <1>11 DEF e

-----------------------------------------------------------------------------
\* Every action serves one run, or only takes.

\* The two rewrites after a reap() that take, or confirm what there is.
LEMMA ReapReserves ==
  ASSUME NEW d, LedgerInv(d), Begun(d), NEW e,
         e = Reap(d) \/ TakesOnly(Reap(d), e) \/ Grants(Reap(d), e)
  PROVE  Reserves(d, e)
<1>1. TakesOnly(d, Reap(d))
  BY ReapTakes
<1>2. CASE e = Reap(d)
  BY <1>1, <1>2 DEF Reserves
<1>3. CASE TakesOnly(Reap(d), e)
  <2>1. TakesOnly(d, e)
    BY <1>1, <1>3, TakesCompose
  <2> QED
    BY <2>1 DEF Reserves
<1>4. CASE Grants(Reap(d), e)
  BY <1>4 DEF Reserves
<1> QED
  BY <1>2, <1>3, <1>4

\* A step of a process or of a stop procedure that leaves the database alone.
LEMMA IdleReserves ==
  ASSUME NEW d \in Database
  PROVE  Reserves(d, d)
<1>1. TakesOnly(d, d)
  BY SameTakes
<1> QED
  BY <1>1 DEF Reserves

\* Registration, claims, task reports and restarts of one worker.
LEMMA WorkerReserves ==
  ASSUME BundleInv, Coupled(db), NEW w \in Workers, WorkerStep(w)
  PROVE  Reserves(db, db')
<1> DEFINE d == Reap(db)
<1>1. LedgerInv(db) /\ db \in Database /\ Begun(db) /\ Draining(db)
  BY DEF BundleInv, LedgerInv, Coupled
<1>2. LedgerInv(d) /\ d \in Database
  BY <1>1, ReapKeeps DEF LedgerInv
<1>3. ASSUME db' = d \/ TakesOnly(d, db') \/ Grants(d, db') PROVE Reserves(db, db')
  BY <1>1, <1>3, ReapReserves
<1> HIDE DEF d
<1>4. CASE StartProcess(w) \/ Crash(w) \/ Unwind(w) \/ FinalizerUnwinds(w)
  BY <1>1, <1>4, IdleReserves DEF StartProcess, Crash, Unwind, FinalizerUnwinds
<1>5. CASE RegisterWorker(w)
  <2>1. TakesOnly(db, db')
    BY <1>1, <1>5, RegisterTakes DEF RegisterWorker
  <2> QED
    BY <2>1 DEF Reserves
<1>6. CASE ClaimRunTask(w)
  <2>1. PICK t \in TaskOffers(d, w, Runs) : db' = AssignTask(d, w, t)
    BY <1>6 DEF ClaimRunTask, Offer, d
  <2> QED
    BY <1>2, <1>3, <2>1, AssignTaskGrants
<1>7. CASE ClaimRunHeld(w)
  BY <1>3, <1>7 DEF ClaimRunHeld, Nothing, d
<1>8. CASE ClaimRunNew(w)
  <2>1. PICK r \in RunOffers(d, w) : db' = AssignRun(d, w, r)
    BY <1>8 DEF ClaimRunNew, d
  <2> QED
    BY <1>2, <1>3, <2>1, AssignRunTakes
<1>9. CASE ClaimRunIdle(w)
  <2>1. db' = [d EXCEPT !.wk[w].run = NoRun]
    BY <1>9 DEF ClaimRunIdle, Nothing, RunIdle, d
  <2>2. /\ db'.run = d.run /\ db'.fan = d.fan /\ db'.task = d.task
        /\ db'.wk = [d.wk EXCEPT ![w].run = NoRun] /\ d.wk \in [Workers -> WorkerRow]
    BY <1>2, <2>1 DEF Database
  <2>3. \A v \in Workers : db'.wk[v].run \in {d.wk[v].run, NoRun}
    BY <2>2 DEF WorkerRow
  <2>4. TakesOnly(d, db')
    BY <1>2, <2>2, <2>3, SameTakes
  <2> QED
    BY <1>3, <2>4
<1>10. ASSUME NEW t \in Tasks, NEW status \in TaskTerminal, ReportTask(w, t, status)
       PROVE  Reserves(db, db')
  <2>1. db' = TaskReported(db, w, t, status)
    BY <1>10 DEF ReportTask
  <2>2. CASE status = "succeeded" /\ LeaseAccepts(db, w, t)
    <3>1. db' = FinishTask(db, w, t, "succeeded")
      BY <2>1, <2>2 DEF TaskReported
    <3> QED
      BY <1>1, <2>2, <3>1, DeliverGrants DEF Reserves
  <2>3. CASE status # "succeeded" \/ ~LeaseAccepts(db, w, t)
    BY <1>1, <2>1, <2>3, TaskReportedTakes DEF Reserves
  <2> QED
    BY <2>2, <2>3
<1> QED
  BY <1>4, <1>5, <1>6, <1>7, <1>8, <1>9, <1>10 DEF WorkerStep

\* What a coordinator asks for the run it holds, from initialize to its last report.
LEMMA CoordinatorReserves ==
  ASSUME BundleInv, Coupled(db), NEW w \in Workers, NEW r \in Runs, CoordinatorStep(w, r)
  PROVE  Reserves(db, db')
<1> DEFINE d == Reap(db)
<1>1. /\ LedgerInv(db) /\ db \in Database /\ Begun(db)
      /\ db.run \in [Runs -> RunRow] /\ db.fan \in [Runs -> FanRow]
  BY DEF BundleInv, LedgerInv, Coupled, Database
<1>2. LedgerInv(d) /\ d \in Database
  BY <1>1, ReapKeeps DEF LedgerInv
<1>3. ASSUME db' = d \/ TakesOnly(d, db') \/ Grants(d, db') PROVE Reserves(db, db')
  BY <1>1, <1>3, ReapReserves
<1>4. ASSUME db' = db PROVE Reserves(db, db')
  BY <1>1, <1>4, IdleReserves
<1>5. ASSUME Owner(db, w, r), db'.wk = db.wk, db'.task = db.task,
             db'.run[r].status \in RunActive, db'.fan[r].state = db.fan[r].state,
             \A q \in Runs \ {r} : db'.run[q] = db.run[q] /\ db'.fan[q] = db.fan[q]
      PROVE  Reserves(db, db')
  BY <1>1, <1>5, ProgressTakes DEF Owner, Reserves
<1> HIDE DEF d
<1>6. ASSUME NEW done \in SUBSET (TasksOf(r) \cap Carried), Initialize(w, r, done)
      PROVE  Reserves(db, db')
  <2>1. db' = Initialized(db, w, r, done) /\ Owner(db, w, r) /\ db.fan[r].state = "none"
    BY <1>6 DEF Initialize, Initialized
  <2> QED
    BY <1>1, <2>1, InitializeGrants DEF Reserves
<1>7. CASE ClaimOwnTask(w, r)
  <2>1. CASE db' = d
    BY <1>3, <2>1
  <2>2. CASE \E t \in TaskOffers(d, w, {r}) : db' = AssignTask(d, w, t)
    BY <1>2, <1>3, <2>2, AssignTaskGrants
  <2> QED
    BY <1>7, <2>1, <2>2 DEF ClaimOwnTask, Nothing, Offer, d
<1>8. CASE Status(w, r)
  BY <1>3, <1>8 DEF Status, d
<1>9. CASE ClaimFinalizer(w, r)
  <2>1. Finalizable(d, w, r) /\ db' = [d EXCEPT !.fan[r].state = "finalizing"]
    BY <1>9 DEF ClaimFinalizer, d
  <2> QED
    BY <1>2, <1>3, <2>1, ClaimFinalizerTakes
<1>10. CASE ReportRunning(w, r)
  <2>1. Owner(db, w, r) /\ db' = [db EXCEPT !.run[r].status = "running"]
    BY <1>10 DEF ReportRunning, MayReport
  <2>2. /\ db'.wk = db.wk /\ db'.task = db.task /\ db'.fan = db.fan
        /\ db'.run = [db.run EXCEPT ![r].status = "running"]
    BY <1>1, <2>1 DEF Database
  <2>3. db'.run[r].status = "running" /\ \A q \in Runs \ {r} : db'.run[q] = db.run[q]
    BY <1>1, <2>2 DEF RunRow
  <2> QED
    BY <1>5, <2>1, <2>2, <2>3 DEF RunActive
<1>11. CASE ReportSqlInsertion(w, r)
  <2>1. CASE db' # db
    <3>1. /\ Owner(db, w, r)
          /\ db' = [db EXCEPT !.run[r].status = "running", !.fan[r].sqlStarted = TRUE]
      BY <1>11, <2>1 DEF ReportSqlInsertion, FinalizerReports, MayReport
    <3>2. /\ db'.wk = db.wk /\ db'.task = db.task
          /\ db'.fan = [db.fan EXCEPT ![r].sqlStarted = TRUE]
          /\ db'.run = [db.run EXCEPT ![r].status = "running"]
      BY <1>1, <3>1 DEF Database
    <3>3. /\ db'.run[r].status = "running" /\ db'.fan[r].state = db.fan[r].state
          /\ \A q \in Runs \ {r} : db'.run[q] = db.run[q] /\ db'.fan[q] = db.fan[q]
      BY <1>1, <3>2 DEF RunRow, FanRow
    <3> QED
      BY <1>5, <3>1, <3>2, <3>3 DEF RunActive
  <2> QED
    BY <1>4, <2>1
<1>12. CASE ReportSqlCommit(w, r)
  BY <1>4, <1>12 DEF ReportSqlCommit, FinalizerReports
<1>13. CASE ReportSqlComplete(w, r)
  <2>1. CASE db' # db
    <3>1. Owner(db, w, r) /\ db' = [db EXCEPT !.run[r].sqlComplete = TRUE]
      BY <1>13, <2>1 DEF ReportSqlComplete, FinalizerReports, MayReport
    <3>2. /\ db'.wk = db.wk /\ db'.task = db.task /\ db'.fan = db.fan
          /\ db'.run = [db.run EXCEPT ![r].sqlComplete = TRUE]
      BY <1>1, <3>1 DEF Database
    <3>3. /\ db'.run[r].status = db.run[r].status
          /\ \A q \in Runs \ {r} : db'.run[q] = db.run[q]
      BY <1>1, <3>2 DEF RunRow
    <3> QED
      BY <1>5, <3>1, <3>2, <3>3 DEF Owner
  <2> QED
    BY <1>4, <2>1
<1>14. CASE ReportSucceeded(w, r)
  <2>1. CASE db' # db
    <3>1. /\ Owner(db, w, r) /\ HoldsToken(db, w, r) /\ db' = EndRun(db, w, r, "succeeded")
      BY <1>14, <2>1 DEF ReportSucceeded, FinalizerReports, MayReport
    <3> QED
      BY <1>1, <3>1, SucceedGrants DEF Owner, HoldsToken, Reserves
  <2> QED
    BY <1>4, <2>1
<1>15. CASE ReportFailed(w, r)
  <2>1. Owner(db, w, r) /\ db' = EndRun(RaiseUncertain(db, r), w, r, "failed")
    BY <1>15 DEF ReportFailed
  <2> QED
    BY <1>1, <2>1, ReportFailedTakes DEF Owner, Reserves
<1>16. CASE CoordinatorAbort(w, r)
  <2>1. {r} \in SUBSET Runs /\ "failed" \in TerminalStatus /\ FALSE \in BOOLEAN
    BY DEF TerminalStatus
  <2> QED
    BY <1>1, <1>16, <2>1, PlainAbortTakes DEF CoordinatorAbort, Reserves
<1> QED
  BY <1>6, <1>7, <1>8, <1>9, <1>10, <1>11, <1>12, <1>13, <1>14, <1>15, <1>16
     DEF CoordinatorStep

\* A stop's latch, checks, kills and settlement only take.
LEMMA StopReserves ==
  ASSUME BundleInv, Coupled(db), NEW k, NEW r \in Runs, StopStep(k, r)
  PROVE  Reserves(db, db')
<1>1. LedgerInv(db) /\ db \in Database /\ Begun(db) /\ Draining(db)
  BY DEF BundleInv, LedgerInv, Coupled
<1>2. CASE StopFence(k, r)
  <2> DEFINE S == StopTargets(db, k, r)
             wk == [w \in Workers |->
                     IF w \in S THEN [db.wk[w] EXCEPT !.fence = db.wk[w].pid] ELSE db.wk[w]]
  <2>1. db'.run = db.run /\ db'.fan = db.fan /\ db'.task = db.task /\ db'.wk = wk
    <3>1. db' = [db EXCEPT !.wk = wk]
      BY <1>2 DEF StopFence
    <3> HIDE DEF wk
    <3> QED
      BY <1>1, <3>1 DEF Database
  <2>2. ASSUME NEW w \in Workers PROVE wk[w].run = db.wk[w].run
    <3>1. db.wk[w] \in WorkerRow
      BY <1>1, Rows
    <3>2. wk[w] = db.wk[w] \/ wk[w] = [db.wk[w] EXCEPT !.fence = db.wk[w].pid]
      OBVIOUS
    <3> QED
      BY <3>1, <3>2 DEF WorkerRow
  <2> HIDE DEF wk
  <2>3. TakesOnly(db, db')
    BY <1>1, <2>1, <2>2, SameTakes
  <2> QED
    BY <2>3 DEF Reserves
<1>3. CASE StopFinish(k, r)
  <2> DEFINE g == Settle(db, k, r)
  <2>1. LedgerInv(g) /\ TakesOnly(db, g)
    BY <1>1, SettleKeeps, SettleTakes
  <2>2. db' = db \/ db' = Reap(g)
    BY <1>3 DEF StopFinish
  <2> HIDE DEF g
  <2>3. TakesOnly(db, Reap(g))
    BY <1>1, <2>1, TakesBegun, ReapTakes, TakesCompose
  <2> QED
    BY <1>1, <2>2, <2>3, IdleReserves DEF Reserves
<1>4. ASSUME NEW w \in Workers, StopCheck(k, r, w) \/ StopKill(k, r, w) \/ StopFails(k, r, w)
      PROVE  Reserves(db, db')
  BY <1>1, <1>4, IdleReserves DEF StopCheck, StopKill, StopFails
<1> QED
  BY <1>2, <1>3, <1>4 DEF StopStep

\* Queueing, stopping and the watchdog of one run.
LEMMA RunReserves ==
  ASSUME BundleInv, Coupled(db), NEW r \in Runs, RunStep(r)
  PROVE  Reserves(db, db')
<1>1. LedgerInv(db) /\ db \in Database /\ Begun(db)
  BY DEF BundleInv, LedgerInv, Coupled
<1>2. CASE QueueRun(r)
  BY <1>1, <1>2, QueueGrants DEF QueueRun, Reserves
<1>3. CASE StopBundle(r)
  <2>1. {r} \in SUBSET Runs /\ "cancelled" \in TerminalStatus /\ FALSE \in BOOLEAN
    BY DEF TerminalStatus
  <2> QED
    BY <1>1, <1>3, <2>1, PlainAbortTakes DEF StopBundle, Reserves
<1>4. CASE StopPlain(r)
  <2> DEFINE w == db.run[r].worker
             assigned == db.run[r].status \in RunActive /\ w # NoWorker
  <2>1. /\ db.run[r].status \in Open /\ db.fan[r].state = "none"
        /\ db' = StoppedPlain(db, r, assigned, w)
    BY <1>4 DEF StopPlain, StoppedPlain, Open
  <2> HIDE DEF w, assigned
  <2> QED
    BY <1>1, <2>1, StoppedPlainTakes DEF Reserves
<1>5. CASE SqlCommits(r)
  BY <1>1, <1>5, IdleReserves DEF SqlCommits
<1>6. CASE DeadlinePasses(r)
  BY <1>1, <1>6, ClockTakes DEF DeadlinePasses, Reserves
<1>7. CASE FailStaleRun(r)
  <2> DEFINE d == Reap(db)
  <2>1. LedgerInv(d) /\ TakesOnly(db, d)
    BY <1>1, ReapKeeps, ReapTakes
  <2>2. d.run[r].status \in RunActive /\ db' = FailStale(d, r)
    BY <1>7 DEF FailStaleRun
  <2> HIDE DEF d
  <2>3. TakesOnly(d, FailStale(d, r))
    BY <1>1, <2>1, <2>2, TakesBegun, FailStaleTakes
  <2> QED
    BY <2>1, <2>2, <2>3, TakesCompose DEF Reserves
<1> QED
  BY <1>2, <1>3, <1>4, <1>5, <1>6, <1>7 DEF RunStep

\* Every step of the specification.
LEMMA StepReserves ==
  ASSUME BundleInv, Coupled(db), [Next]_vars
  PROVE  Reserves(db, db')
<1>1. LedgerInv(db) /\ db \in Database /\ Begun(db)
  BY DEF BundleInv, LedgerInv, Coupled
<1>2. CASE UNCHANGED vars
  BY <1>1, <1>2, IdleReserves DEF vars
<1>3. ASSUME NEW w \in Workers, WorkerStep(w) PROVE Reserves(db, db')
  BY <1>3, WorkerReserves
<1>4. ASSUME NEW w \in Workers, NEW r \in Runs, CoordinatorStep(w, r) PROVE Reserves(db, db')
  BY <1>4, CoordinatorReserves
<1>5. ASSUME NEW key \in StopKeys, StopStep(key[1], key[2]) PROVE Reserves(db, db')
  <2>1. key[2] \in Runs
    BY StopKeysAssumption
  <2> QED
    BY <1>5, <2>1, StopReserves
<1>6. ASSUME NEW r \in Runs, RunStep(r) PROVE Reserves(db, db')
  BY <1>6, RunReserves
<1>7. ASSUME NEW t \in Tasks, LeaseExpires(t) PROVE Reserves(db, db')
  BY <1>1, <1>7, ClockTakes DEF LeaseExpires, Reserves
<1>8. ASSUME NEW f \in Flows, AcknowledgeSqlReconciliation(f) PROVE Reserves(db, db')
  BY <1>1, <1>8, ClockTakes DEF AcknowledgeSqlReconciliation, Reserves
<1>9. CASE Watchdog
  BY <1>1, <1>9, ReapReserves DEF Watchdog
<1> QED
  BY <1>2, <1>3, <1>4, <1>5, <1>6, <1>7, <1>8, <1>9 DEF Next

-----------------------------------------------------------------------------

\* The actions of RunReservation over the database and its next value.
LEMMA ReservationActions ==
  ASSUME NEW r \in Runs
  PROVE  /\ RestsOn(db, db', r) => Reservation!Rests(r)
         /\ WithdrawsOn(db, db', r) => Reservation!Withdraws(r)
         /\ GivesOn(db, db', r) => Reservation!Acts(r)
<1>1. Reservation!ExportsOf(r) = TasksOf(r)
  BY DEF Reservation!ExportsOf, TasksOf
<1>2. ASSUME NEW S \in SUBSET TasksOf(r), \A t \in S : SameExport(db, db', t)
      PROVE  Reservation!Keeps(S)
  BY <1>2 DEF Reservation!Keeps, SameExport
<1>3. ASSUME RestsOn(db, db', r) PROVE Reservation!Rests(r)
  BY <1>1, <1>2, <1>3 DEF Reservation!Rests, RestsOn
<1>4. ASSUME WithdrawsOn(db, db', r) PROVE Reservation!Withdraws(r)
  BY <1>1, <1>4 DEF Reservation!Withdraws, WithdrawsOn, SameExport
<1>5. ASSUME OpensOn(db, db', r) PROVE Reservation!Opens(r)
  BY <1>1, <1>2, <1>5 DEF Reservation!Opens, OpensOn
<1>6. ASSUME CarriesOn(db, db', r) PROVE Reservation!Carries(r)
  BY <1>1, <1>6 DEF Reservation!Carries, CarriesOn
<1>7. ASSUME SucceedsOn(db, db', r) PROVE Reservation!Succeeds(r)
  BY <1>1, <1>2, <1>7 DEF Reservation!Succeeds, SucceedsOn
<1>8. ASSUME NEW t \in TasksOf(r), MovesOn(db, db', r, t, "waiting", "leased")
      PROVE  Reservation!Leases(r, t)
  BY <1>1, <1>2, <1>8 DEF Reservation!Leases, MovesOn
<1>9. ASSUME NEW t \in TasksOf(r), MovesOn(db, db', r, t, "leased", "done")
      PROVE  Reservation!Delivers(r, t)
  BY <1>1, <1>2, <1>9 DEF Reservation!Delivers, MovesOn
<1>10. ASSUME GivesOn(db, db', r) PROVE Reservation!Acts(r)
  BY <1>1, <1>5, <1>6, <1>7, <1>8, <1>9, <1>10 DEF Reservation!Acts, GivesOn
<1> QED
  BY <1>3, <1>4, <1>10

\* RunState and ExportState are functions of the runs and of the tasks.
LEMMA StateFunctions ==
  ASSUME NEW d
  PROVE  /\ RunState(d) = [r \in Runs |-> RunState(d)[r]]
         /\ ExportState(d) = [t \in Tasks |-> ExportState(d)[t]]
<1> DEFINE State(r) ==
             CASE d.run[r].status = "none" -> "idle"
               [] d.run[r].status = "succeeded" -> "succeeded"
               [] d.run[r].status \in {"failed", "cancelled"} -> "lost"
               [] d.run[r].status \in {"queued"} \cup RunActive ->
                    IF d.fan[r].state = "aborting" THEN "stopping" ELSE "open"
           Export(t) ==
             CASE d.task[t].state \in {"none", "queued"} -> "waiting"
               [] d.task[t].state \in TaskActive -> "leased"
               [] d.task[t].state = "succeeded" -> "done"
               [] d.task[t].state \in {"failed", "cancelled"} -> "over"
<1>1. RunState(d) = [r \in Runs |-> State(r)] /\ ExportState(d) = [t \in Tasks |-> Export(t)]
  BY DEF RunState, ExportState
<1> HIDE DEF State, Export
<1> QED
  BY <1>1

\* A step in which every run rests is no step of the protocol.
LEMMA AllRest ==
  ASSUME db' \in Database, db \in Database, \A r \in Runs : RestsOn(db, db', r)
  PROVE  UNCHANGED Reservation!vars
<1>1. RunState(db') = RunState(db)
  <2>1. \A r \in Runs : RunState(db')[r] = RunState(db)[r]
    BY DEF RestsOn
  <2> QED
    BY <2>1, StateFunctions, Zenon
<1>2. ExportState(db') = ExportState(db)
  <2>1. ASSUME NEW t \in Tasks PROVE ExportState(db')[t] = ExportState(db)[t]
    <3>1. RunOf[t] \in Runs /\ t \in TasksOf(RunOf[t])
      BY ShapeAssumption DEF TasksOf
    <3> QED
      BY <3>1 DEF RestsOn, SameExport
  <2> QED
    BY <2>1, StateFunctions, Zenon
<1> QED
  BY <1>1, <1>2 DEF Reservation!vars

\* What the transactions do to runs and exports is a step of RunReservation.
LEMMA ReservationStep ==
  ASSUME db \in Database, db' \in Database, RestOrWithdraw(db, db') \/ OneServed(db, db')
  PROVE  [Reservation!Next]_(Reservation!vars)
<1>1. CASE OneServed(db, db')
  <2>1. PICK r \in Runs : /\ GivesOn(db, db', r)
                          /\ \A q \in Runs \ {r} : RestsOn(db, db', q) \/ WithdrawsOn(db, db', q)
    BY <1>1 DEF OneServed
  <2>2. /\ Reservation!Acts(r)
        /\ \A q \in Runs \ {r} : Reservation!Rests(q) \/ Reservation!Withdraws(q)
    BY <2>1, ReservationActions
  <2> QED
    BY <2>2 DEF Reservation!Next
<1>2. CASE RestOrWithdraw(db, db') /\ \E r \in Runs : WithdrawsOn(db, db', r)
  <2>1. PICK r \in Runs : WithdrawsOn(db, db', r)
    BY <1>2
  <2>2. Reservation!Acts(r)
    BY <2>1, ReservationActions DEF Reservation!Acts
  <2>3. \A q \in Runs \ {r} : Reservation!Rests(q) \/ Reservation!Withdraws(q)
    BY <1>2, ReservationActions DEF RestOrWithdraw
  <2> QED
    BY <2>2, <2>3 DEF Reservation!Next
<1>3. CASE RestOrWithdraw(db, db') /\ ~\E r \in Runs : WithdrawsOn(db, db', r)
  BY <1>3, AllRest DEF RestOrWithdraw
<1> QED
  BY <1>1, <1>2, <1>3

\* An empty database holds no run and no lease.
LEMMA ReservationInit ==
  ASSUME Init
  PROVE  Reservation!Init /\ Coupled(db)
<1>1. db = EmptyDatabase /\ db \in Database
  BY InitInv DEF Init, BundleInv, LedgerInv
<1>2. \A r \in Runs : db.run[r].status = "none" /\ db.fan[r].state = "none"
  BY <1>1 DEF EmptyDatabase
<1>3. \A t \in Tasks : db.task[t].state = "none"
  BY <1>1 DEF EmptyDatabase
<1>4. \A w \in Workers : db.wk[w].run = NoRun
  BY <1>1 DEF EmptyDatabase
<1>5. RunState(db) = [r \in Runs |-> "idle"]
  <2>1. \A r \in Runs : RunState(db)[r] = "idle"
    BY <1>1, <1>2, RunStates
  <2> QED
    BY <2>1, StateFunctions, Zenon
<1>6. ExportState(db) = [t \in Tasks |-> "waiting"]
  <2>1. \A t \in Tasks : ExportState(db)[t] = "waiting"
    BY <1>1, <1>3, ExportStates
  <2> QED
    BY <2>1, StateFunctions, Zenon
<1>7. Coupled(db)
  BY <1>2, <1>3, <1>4, ShapeAssumption DEF Coupled, Begun, Draining, Known
<1> QED
  BY <1>5, <1>6, <1>7 DEF Reservation!Init

\* Draining leases belong to ending bundles, and every current run of a worker
\* has been asked for.
THEOREM CoupledInvariant == Spec => [](BundleInv /\ Coupled(db))
<1> DEFINE Inv == BundleInv /\ Guarded(db, acked)
<1>1. Init => Coupled(db)
  BY ReservationInit
<1>2. Inv /\ Inv' /\ Coupled(db) /\ [Next]_vars => Coupled(db')
  <2> SUFFICES ASSUME Inv, Inv', Coupled(db), [Next]_vars PROVE Coupled(db')
    OBVIOUS
  <2>1. LedgerInv(db) /\ LedgerInv(db') /\ Begun(db')
    BY FencedBegun DEF BundleInv, Guarded
  <2>2. Reserves(db, db')
    BY StepReserves
  <2> QED
    BY <2>1, <2>2, CoupledKept DEF Coupled
<1>3. Spec => []Inv
  BY GuardTheorem
<1>4. Coupled(db)' <=> Coupled(db')
  OBVIOUS
<1> QED
  BY <1>1, <1>2, <1>3, <1>4, PTL DEF Spec

\* ParallelBundle implements RunReservation: each transaction of a handler, with
\* the reap, abort and finish_aborted calls inside it, gives to one run at most
\* and otherwise only takes.
THEOREM ReservationProtocolTheorem == Spec => ReservationProtocol
<1> DEFINE Inv == BundleInv /\ Coupled(db)
<1>1. Init => Reservation!Init
  BY ReservationInit
<1>2. Inv /\ Inv' /\ [Next]_vars => [Reservation!Next]_(Reservation!vars)
  <2> SUFFICES ASSUME Inv, Inv', [Next]_vars PROVE [Reservation!Next]_(Reservation!vars)
    OBVIOUS
  <2>1. LedgerInv(db) /\ LedgerInv(db') /\ db \in Database /\ db' \in Database /\ Begun(db)
    BY DEF BundleInv, LedgerInv, Coupled
  <2>2. Keeps(db, db')
    BY LedgerStep DEF Keeps, vars
  <2>3. Reserves(db, db')
    BY StepReserves
  <2>4. RestOrWithdraw(db, db') \/ OneServed(db, db')
    BY <2>1, <2>2, <2>3, ReservesStep
  <2> QED
    BY <2>1, <2>4, ReservationStep
<1>3. Spec => []Inv
  BY CoupledInvariant
<1> QED
  BY <1>1, <1>2, <1>3, PTL DEF Spec, ReservationProtocol, Reservation!Spec
=============================================================================
