----------------------------- MODULE ScanControl -----------------------------
(***************************************************************************)
(* How scanner work is started, stopped and recovered: app/scanner/jobs.py *)
(* and control.py, the jobs of app/routers/scanner.py and the Power BI     *)
(* refresh attempts of app/scanner/pbi_sync.py.                            *)
(*                                                                         *)
(* Jobs are rows; one pool thread executes their futures.  A Power BI      *)
(* attempt is a row and a process that reports to the server when it has   *)
(* fetched the metadata: a PowerShell script, which outlives a restart, or *)
(* a thread of the server.  Stopping raises a generation, which the work   *)
(* compares with the one it started under.                                 *)
(*                                                                         *)
(* Each action is one transaction, one critical section of the stop        *)
(* barrier or one operation of the pool.                                   *)
(*                                                                         *)
(*   generation, fenced   _CANCEL_GENERATION, _PBI_CALLBACKS_FENCED        *)
(*   jobs      scanner_jobs, the status by id (finished: also failed)      *)
(*   attempts  pbi_sync_runs with an attempt id, by id: launched,          *)
(*             completed, or over in any other way; late is history:       *)
(*             "yes" after a stop or a recovery that came later than the   *)
(*             work that launched it, "missed" when a restart could not    *)
(*             recover it                                                  *)
(*   pool      the futures that wait for the thread: job and generation    *)
(*   actor     the requests of Callers and the pool's thread               *)
(*   reports   the processes of attempts that have not reported yet        *)
(*   leaked    history: jobs whose future was cancelled by another         *)
(*             request, whose start raised, or whose last row, of the      *)
(*             thread or of a startup's recovery, could not be written     *)
(***************************************************************************)
EXTENDS Naturals, Sequences, FiniteSets

CONSTANTS
  Callers, Thread,
  MaxStops, MaxJobs, MaxAttempts, MaxRestarts, \* bounds: stops since a restart, rows, restarts
  Faults  \* "persist": a stop or the thread cannot write its transaction; "start": a start
          \* raises; "recovery": a recovery of the startup raises

ASSUME BoundsAssumption == {MaxStops, MaxJobs, MaxAttempts, MaxRestarts} \subseteq Nat
ASSUME ThreadAssumption == Thread \notin Callers

VARIABLES generation, fenced, jobs, attempts, pool, actor, reports, leaked, restarts
vars == <<generation, fenced, jobs, attempts, pool, actor, reports, leaked, restarts>>
control == <<generation, fenced>>

Active == {j \in DOMAIN jobs : jobs[j] \in {"queued", "running"}}
At(pc, for, job, gen) == [pc |-> pc, for |-> for, job |-> job, gen |-> gen, attempt |-> 0]
Idle == At("idle", "none", 0, 0)
Does(w, pc) == actor' = [actor EXCEPT ![w].pc = pc]
Ends(w) == actor' = [actor EXCEPT ![w] = Idle]

(***************************************************************************)
(* Starting and stopping.                                                  *)
(***************************************************************************)
\* The bounds apply where work begins, so that none hangs on them.
StopsLeft == generation + Cardinality({c \in Callers : actor[c].pc = "stop"}) < MaxStops
AttemptsLeft == Len(attempts) + Cardinality({w \in DOMAIN actor : actor[w].pc = "insert"}) < MaxAttempts

\* reserve_job: one row at a time is active.  Most jobs stop what exists
\* before they start, some run under the generation they find.
\* Mutant: only a running row is looked for.
ReserveBeside(c) ==
  /\ actor[c].pc = "idle" /\ (\A j \in DOMAIN jobs : jobs[j] # "running") /\ Len(jobs) < MaxJobs
  /\ jobs' = Append(jobs, "queued")
  /\ \E pc \in (IF StopsLeft THEN {"stop"} ELSE {}) \cup {"capture"} :
       actor' = [actor EXCEPT ![c] = At(pc, "start", Len(jobs) + 1, 0)]
  /\ UNCHANGED <<control, attempts, pool, reports, leaked, restarts>>
Reserve(c) ==
  /\ actor[c].pc = "idle" /\ Active = {} /\ Len(jobs) < MaxJobs
  /\ jobs' = Append(jobs, "queued")
  /\ \E pc \in (IF StopsLeft THEN {"stop"} ELSE {}) \cup {"capture"} :
       actor' = [actor EXCEPT ![c] = At(pc, "start", Len(jobs) + 1, 0)]
  /\ UNCHANGED <<control, attempts, pool, reports, leaked, restarts>>

\* The user stops everything, or launches a refresh outside the jobs.
Request(c) ==
  /\ actor[c].pc = "idle" /\ StopsLeft
  /\ \E for \in {"stop", "sync"} :
       actor' = [actor EXCEPT ![c] = At("stop", for, 0, 0)]
  /\ UNCHANGED <<control, jobs, attempts, pool, reports, leaked, restarts>>

\* Mutant: an outcome of its own.
StoppedUnknown(attempt) == [attempt EXCEPT !.st = IF @ = "launched" THEN "cancelled" ELSE @]
Stopped(attempt) == [attempt EXCEPT !.st = IF @ = "launched" THEN "over" ELSE @]
Late(rows, how) == [i \in DOMAIN rows |-> [rows[i] EXCEPT !.late = how]]

\* request_stop_existing_work, first under the barrier: the attempts stop, or
\* the fence goes up when that cannot be written; then the generation.
Publish(c) ==
  /\ actor[c].pc = "stop"
  /\ generation' = generation + 1
  /\ \/ fenced' = FALSE /\ attempts' = Late([i \in DOMAIN attempts |-> Stopped(attempts[i])], "yes")
     \/ "persist" \in Faults /\ fenced' = TRUE /\ attempts' = Late(attempts, "yes")
  /\ actor' = [actor EXCEPT ![c].pc = "rows", ![c].gen = generation']
  /\ UNCHANGED <<jobs, pool, reports, leaked, restarts>>

\* stop_active_jobs, without the caller's own job.
StopRows(c) ==
  /\ actor[c].pc = "rows"
  /\ \/ jobs' = [j \in DOMAIN jobs |-> IF j \in Active \ {actor[c].job} THEN "stopped" ELSE jobs[j]]
     \/ "persist" \in Faults /\ UNCHANGED jobs
  /\ Does(c, "kill")
  /\ UNCHANGED <<control, attempts, pool, reports, leaked, restarts>>

\* stop_pbi_sync_processes ends the scripts it finds; each call of the system
\* may fail or time out.
Kill(c) ==
  /\ actor[c].pc = "kill"
  /\ \/ \E killed \in SUBSET {r \in reports : r.at = "script"} : reports' = reports \ killed
        /\ Does(c, IF actor[c].for = "sync" THEN "launch" ELSE "cancel")
        /\ UNCHANGED leaked
     \/ /\ "start" \in Faults
        /\ leaked' = leaked \cup ({actor[c].job} \cap Active)
        /\ Ends(c) /\ UNCHANGED reports
  /\ UNCHANGED <<control, jobs, attempts, pool, restarts>>

\* _cancel_queued_jobs cancels every future that waits, whoever queued it.
Queued == {pool[k].job : k \in DOMAIN pool}
CancelQueued(c) ==
  /\ actor[c].pc = "cancel"
  /\ pool' = <<>> /\ leaked' = leaked \cup (Queued \cap Active)
  /\ IF actor[c].for = "start" THEN Does(c, "submit") ELSE Ends(c)
  /\ UNCHANGED <<control, jobs, attempts, reports, restarts>>

\* current_cancel_generation, for the jobs that stop nothing.
Capture(c) ==
  /\ actor[c].pc = "capture"
  /\ actor' = [actor EXCEPT ![c].pc = "submit", ![c].gen = generation]
  /\ UNCHANGED <<control, jobs, attempts, pool, reports, leaked, restarts>>

\* finish_job: "a concurrent stop always wins".
Finished(j, st) == IF j \in Active THEN [jobs EXCEPT ![j] = st] ELSE jobs
\* The job's last row, by its worker or, when that raises, by guarded_worker.
\* Each of these writes may raise.
Closes(j, st) ==
  \/ jobs' = Finished(j, st) /\ UNCHANGED leaked
  \/ "persist" \in Faults /\ leaked' = leaked \cup ({j} \cap Active) /\ UNCHANGED jobs

\* _submit_job.
Submit(c) ==
  /\ actor[c].pc = "submit"
  /\ pool' = Append(pool, [job |-> actor[c].job, gen |-> actor[c].gen])
  /\ Ends(c)
  /\ UNCHANGED <<control, jobs, attempts, reports, leaked, restarts>>
SubmitFails(c) ==
  /\ actor[c].pc = "submit" /\ "start" \in Faults
  /\ Closes(actor[c].job, "finished")
  /\ Ends(c)
  /\ UNCHANGED <<control, attempts, pool, reports, restarts>>

(***************************************************************************)
(* The pool's thread.                                                      *)
(***************************************************************************)
Take ==
  /\ actor[Thread].pc = "idle" /\ pool # <<>>
  /\ actor' = [actor EXCEPT ![Thread] = At("begin", "job", Head(pool).job, Head(pool).gen)]
  /\ pool' = Tail(pool)
  /\ UNCHANGED <<control, jobs, attempts, reports, leaked, restarts>>

\* mark_running; its answer is not looked at.  The metadata job and the full
\* scan launch an attempt and wait for it.
MarkRunning ==
  /\ actor[Thread].pc = "begin"
  /\ jobs' = Finished(actor[Thread].job, "running")
  /\ \E pc \in {"launch", "work"} : Does(Thread, pc)
  /\ UNCHANGED <<control, attempts, pool, reports, leaked, restarts>>
MarkFails ==
  /\ actor[Thread].pc = "begin" /\ "persist" \in Faults
  /\ Closes(actor[Thread].job, "finished")
  /\ Ends(Thread)
  /\ UNCHANGED <<control, attempts, pool, reports, restarts>>

Current(w) == actor[w].gen = generation
\* The rest of a job checks the generation from time to time.
Work ==
  /\ actor[Thread].pc = "work"
  /\ \E st \in IF Current(Thread) THEN {"finished"} ELSE {"finished", "stopped"} :
       Closes(actor[Thread].job, st)
  /\ Ends(Thread)
  /\ UNCHANGED <<control, attempts, pool, reports, restarts>>

\* ScannerWorkCancelled at a check before or during an attempt.
Cancelled(w) ==
  /\ actor[w].pc \in {"launch", "wait"} /\ ~Current(w)
  /\ IF w = Thread THEN Closes(actor[w].job, "stopped") ELSE UNCHANGED <<jobs, leaked>>
  /\ Ends(w)
  /\ UNCHANGED <<control, attempts, pool, reports, restarts>>

(***************************************************************************)
(* A Power BI refresh attempt.                                             *)
(***************************************************************************)
\* _active_attempt_row: the row is still launched and no newer row exists.
\* Mutant: a newer launch is not looked for.
AuthoritativeAlone(i) == attempts[i].st = "launched"
Authoritative(i) == attempts[i].st = "launched" /\ i = Len(attempts)
\* _record_sync_run of an attempt: refused behind the fence.
Recorded(i, st) ==
  IF ~fenced /\ Authoritative(i) THEN [attempts EXCEPT ![i].st = st] ELSE attempts
\* It logs and forgets that its transaction failed.
Records(i, st) ==
  attempts' \in {Recorded(i, st)} \cup (IF "persist" \in Faults THEN {attempts} ELSE {})

\* trigger_pbi_sync checks the generation, and may find nothing to launch or
\* not be able to store the launch.
Launch(w) ==
  /\ actor[w].pc = "launch" /\ Current(w)
  /\ \/ AttemptsLeft /\ Does(w, "insert")
     \/ IF w = Thread THEN Does(w, "work") ELSE Ends(w)
  /\ UNCHANGED <<control, jobs, attempts, pool, reports, leaked, restarts>>

\* The row of the launch, under the barrier; its commit lifts the fence.
InsertLaunch(w) ==
  /\ actor[w].pc = "insert"
  /\ attempts' = Append(attempts, [st |-> "launched", late |-> IF Current(w) THEN "no" ELSE "yes"])
  /\ fenced' = FALSE
  /\ actor' = [actor EXCEPT ![w].pc = "spawn", ![w].attempt = Len(attempts) + 1]
  /\ UNCHANGED <<generation, jobs, pool, reports, leaked, restarts>>

Awaits(w) == IF w = Thread THEN Does(w, "wait") ELSE Ends(w)
\* _launch_powershell_background, or the scheduled task of a desktop: a script,
\* after another check.
SpawnScript(w) ==
  /\ actor[w].pc = "spawn" /\ Current(w)
  /\ reports' = reports \cup {[attempt |-> actor[w].attempt, gen |-> 0, at |-> "script"]}
  /\ Awaits(w)
  /\ UNCHANGED <<control, jobs, attempts, pool, leaked, restarts>>
\* _launch_cached_account_sync: a thread that brings the generation along.
SpawnThread(w) ==
  /\ actor[w].pc = "spawn"
  /\ reports' = reports \cup {[attempt |-> actor[w].attempt, gen |-> actor[w].gen, at |-> "server"]}
  /\ Awaits(w)
  /\ UNCHANGED <<control, jobs, attempts, pool, leaked, restarts>>
SpawnFails(w) ==
  /\ actor[w].pc = "spawn"
  /\ Records(actor[w].attempt, "over")
  /\ Awaits(w)
  /\ UNCHANGED <<control, jobs, pool, reports, leaked, restarts>>

\* wait_for_pbi_sync_completion: the attempt ended, or the wait timed out.
WaitOver ==
  /\ actor[Thread].pc = "wait" /\ Current(Thread)
  /\ Records(actor[Thread].attempt, "over")
  /\ Does(Thread, "work")
  /\ UNCHANGED <<control, jobs, pool, reports, leaked, restarts>>

\* The script's payload reaches the server, under the generation of then.
Arrive(r) ==
  /\ r.at = "script"
  /\ reports' = (reports \ {r}) \cup {[r EXCEPT !.gen = generation, !.at = "server"]}
  /\ UNCHANGED <<control, jobs, attempts, pool, actor, leaked, restarts>>

\* import_pbi_data: the catalogue and the attempt in one transaction under the
\* barrier, behind the fence, the generation and the attempt's row.
Import(r) ==
  /\ r.at = "server"
  /\ reports' = reports \ {r}
  /\ \/ ~fenced /\ r.gen = generation /\ attempts' = Recorded(r.attempt, "completed")
     \/ (fenced \/ r.gen # generation) /\ Records(r.attempt, "over")
  /\ UNCHANGED <<control, jobs, pool, actor, leaked, restarts>>

\* The fetch fails and says so, or not.
ReportFails(r) ==
  /\ reports' = reports \ {r}
  /\ attempts' \in {Recorded(r.attempt, "over"), attempts}
  /\ UNCHANGED <<control, jobs, pool, actor, leaked, restarts>>

(***************************************************************************)
(* The server restarts.  Two recoveries precede its requests; the startup  *)
(* logs that one raised and goes on.                                       *)
(***************************************************************************)
\* recover_interrupted_jobs: no row stays active.
RecoverJobs ==
  \/ jobs' = [j \in DOMAIN jobs |-> IF j \in Active THEN "stopped" ELSE jobs[j]] /\ leaked' = {}
  \/ "recovery" \in Faults /\ leaked' = Active /\ UNCHANGED jobs
\* recover_interrupted_pbi_syncs: no attempt stays launched.
Recovered == Late([i \in DOMAIN attempts |-> Stopped(attempts[i])], "yes")
RecoverSyncs ==
  \/ attempts' = Recovered
  \/ "recovery" \in Faults /\ attempts' = Late(attempts, "missed")
Restart ==
  /\ restarts < MaxRestarts /\ restarts' = restarts + 1
  /\ generation' = 0 /\ fenced' = FALSE
  /\ RecoverJobs /\ RecoverSyncs
  /\ pool' = <<>> /\ actor' = [w \in DOMAIN actor |-> Idle]
  /\ reports' = {r \in reports : r.at = "script"}

Init ==
  /\ generation = 0 /\ fenced = FALSE
  /\ jobs = <<>> /\ attempts = <<>> /\ pool = <<>>
  /\ actor = [w \in Callers \cup {Thread} |-> Idle]
  /\ reports = {} /\ leaked = {} /\ restarts = 0

Start(c) == Publish(c) \/ StopRows(c) \/ Kill(c) \/ CancelQueued(c) \/ Capture(c) \/ Submit(c) \/ SubmitFails(c)
Refresh(w) == Launch(w) \/ InsertLaunch(w) \/ SpawnScript(w) \/ SpawnThread(w) \/ SpawnFails(w) \/ Cancelled(w)
Job == Take \/ MarkRunning \/ MarkFails \/ Work \/ WaitOver
Next ==
  \/ \E c \in Callers : Reserve(c) \/ Request(c) \/ Start(c)
  \/ \E w \in DOMAIN actor : Refresh(w)
  \/ Job
  \/ \E r \in reports : Arrive(r) \/ Import(r) \/ ReportFails(r)
  \/ Restart

Spec == Init /\ [][Next]_vars

(***************************************************************************)
(* Properties.                                                             *)
(***************************************************************************)
\* The values of the variables.
Status == {"queued", "running", "finished", "stopped"}
Attempt == [st : {"launched", "completed", "over"}, late : {"no", "yes", "missed"}]
Future == [job : {0} \cup DOMAIN jobs, gen : Nat]
Step == {"idle", "stop", "rows", "kill", "cancel", "capture", "submit",
         "begin", "work", "launch", "insert", "spawn", "wait"}
Doing == [pc : Step, for : {"none", "start", "stop", "sync", "job"}, job : {0} \cup DOMAIN jobs, gen : Nat,
          attempt : {0} \cup DOMAIN attempts]
Report == [attempt : DOMAIN attempts, gen : Nat, at : {"script", "server"}]
TypeOK ==
  /\ generation \in Nat /\ fenced \in BOOLEAN
  /\ jobs \in Seq(Status) /\ attempts \in Seq(Attempt)
  /\ pool \in Seq(Future)
  /\ actor \in [Callers \cup {Thread} -> Doing]
  /\ reports \subseteq Report /\ leaked \subseteq DOMAIN jobs

\* The catalogue is written only by the newest attempt, and by none whose
\* work was stopped, superseded or cut off by a restart that recovered it: not
\* when the stop could not be written, not when a newer launch lifts the fence,
\* not when the launch itself raced the stop, not after a restart resets the
\* generation (control.py:106-136, pbi_sync.py:542-563, 1661-1720).  A restart
\* whose recovery raised leaves the attempt launched and imports it.
OnlyCurrentImports ==
  [][\A i \in DOMAIN attempts :
       attempts[i].st = "launched" /\ attempts'[i].st = "completed"
         => attempts[i].late # "yes" /\ i = Len(attempts)]_vars

\* One row at most is active, and it keeps every other scan out.  It belongs
\* to a request, a future or the thread, or it leaked: its future was cancelled
\* by another request's _cancel_queued_jobs, its start raised, the thread could
\* not write how it ended, or the startup could not recover it
\* (routers/scanner.py:68-104, 122, 1013-1020, main.py:683-685).
Working == {actor[w].job : w \in DOMAIN actor} \cup Queued
OnlyLeaksBlock == (\A i, j \in Active : i = j) /\ Active \subseteq Working \cup leaked
=============================================================================
