------------------------------ MODULE AgentRuns ------------------------------
(***************************************************************************)
(* The durable AI investigations of app/ai/run_store.py and their executor *)
(* in app/ai/operations_agent.py.                                          *)
(*                                                                         *)
(* A run is bound to a snapshot of one alert: the revision of its evidence *)
(* and, for the automatic analyses, a hash of the context and of the AI    *)
(* configuration.  Two database triggers and every reader mark the runs    *)
(* of an older snapshot superseded, beside their status.  A thread pool of *)
(* one thread executes the runs; its queue does not survive a restart.     *)
(*                                                                         *)
(* Each action is one transaction or one read; what a caller read before   *)
(* its transaction may be stale in it.                                     *)
(*                                                                         *)
(*   alert     actions: open, evidence_revision, hash of the context       *)
(*   config    the fingerprint of the AI settings                          *)
(*   runs      agent_runs, by id; step (agent_steps): closed, open, or     *)
(*             refused: the write that should have closed it raised          *)
(*   queue     the futures that wait for the thread                        *)
(*   agent     the thread: what it executes, under which settings          *)
(*   caller    the requests and jobs that create or read runs              *)
(*   lost      runs in progress that nobody has in hand: the write that    *)
(*             should have ended them, or the recovery of startup, raised  *)
(***************************************************************************)
EXTENDS Naturals, Sequences, FiniteSets

CONSTANTS
  Alerts, Configs,
  Callers,      \* the enrichment job, requests of users
  MaxActive,    \* max_active
  MaxAttempts,  \* AUTO_ALERT_MAX_ATTEMPTS
  MaxRuns, MaxChanges, MaxRestarts, \* bounds: rows, changes of alert or settings, restarts
  Faults        \* "locked": the database refuses a write of the executor
                \* "recovery": recover_interrupted_runs raises

ASSUME BoundsAssumption ==
  MaxActive \in Nat /\ MaxAttempts \in Nat /\ MaxRuns \in Nat /\ MaxChanges \in Nat

VARIABLES alert, config, runs, queue, agent, caller, lost, changes, restarts
vars == <<alert, config, runs, queue, agent, caller, lost, changes, restarts>>
environment == <<alert, config, changes>>

Contexts == 0..MaxChanges
Terminal == {"completed", "failed", "cancelled"}
Live == {"queued", "running"}
NoAgent == [pc |-> "idle", run |-> 0, conf |-> CHOOSE c \in Configs : TRUE]
NoCaller == [pc |-> "idle", alert |-> CHOOSE a \in Alerts : TRUE, ctx |-> 0,
             conf |-> CHOOSE c \in Configs : TRUE, run |-> 0]

(***************************************************************************)
(* Supersession.                                                           *)
(***************************************************************************)
\* _supersession_reason_for_row: the alert closed or its evidence changed; for
\* an automatic analysis also its context, or the settings before it started.
Outdated(run, conf) ==
  \/ ~alert[run.alert].open \/ run.rev # alert[run.alert].rev
  \/ run.auto /\ (run.ctx # alert[run.alert].ctx \/ (run.st # "running" /\ run.conf # conf))

\* Mutant: superseded is a status.
RefreshedStatus(run, conf) == [run EXCEPT !.st = IF Outdated(run, conf) THEN "superseded" ELSE @]
\* _refresh_supersession: a mark stays.
Refreshed(run, conf) == [run EXCEPT !.sup = @ \/ Outdated(run, conf)]

\* The triggers: runs of another revision, runs of an alert that closes.
\* Mutant: only work in progress is superseded.
SupersedeLive(ids) ==
  runs' = [i \in DOMAIN runs |-> IF i \in ids /\ runs[i].st \in Live
                                 THEN [runs[i] EXCEPT !.sup = TRUE] ELSE runs[i]]
Supersede(ids) ==
  runs' = [i \in DOMAIN runs |-> IF i \in ids THEN [runs[i] EXCEPT !.sup = TRUE] ELSE runs[i]]
Bound(a) == {i \in DOMAIN runs : runs[i].alert = a}

Change == changes < MaxChanges /\ changes' = changes + 1
NewEvidence(a) ==
  /\ Change /\ alert[a].open
  /\ \E same \in BOOLEAN :
       alert' = [alert EXCEPT ![a].rev = @ + 1, ![a].ctx = IF same THEN @ ELSE changes']
  /\ Supersede({i \in Bound(a) : runs[i].rev # alert[a].rev + 1})
  /\ UNCHANGED <<config, queue, agent, caller, lost, restarts>>
\* Facts the analysis reads change without a new revision, perhaps back to
\* what they were.
NewContext(a) ==
  /\ Change
  /\ \E ctx \in Contexts \ {alert[a].ctx} : alert' = [alert EXCEPT ![a].ctx = ctx]
  /\ UNCHANGED <<config, runs, queue, agent, caller, lost, restarts>>
CloseAlert(a) ==
  /\ Change /\ alert[a].open
  /\ alert' = [alert EXCEPT ![a].open = FALSE]
  /\ Supersede(Bound(a))
  /\ UNCHANGED <<config, queue, agent, caller, lost, restarts>>
ReopenAlert(a) ==
  /\ Change /\ ~alert[a].open
  /\ alert' = [alert EXCEPT ![a].open = TRUE]
  /\ UNCHANGED <<config, runs, queue, agent, caller, lost, restarts>>
NewSettings ==
  /\ Change
  /\ \E c \in Configs \ {config} : config' = c
  /\ UNCHANGED <<alert, runs, queue, agent, caller, lost, restarts>>

(***************************************************************************)
(* Creating and reading runs.                                              *)
(***************************************************************************)
Active == {i \in DOMAIN runs : runs[i].st \in Live /\ ~runs[i].sup}
NewRun(auto, a, ctx, conf) ==
  [auto |-> auto, alert |-> a, rev |-> alert[a].rev, ctx |-> ctx, conf |-> conf,
   st |-> "queued", cancel |-> FALSE, sup |-> FALSE, step |-> "closed"]
Return(c) == caller' = [caller EXCEPT ![c] = NoCaller]

\* load_runtime_settings of a request or of the enrichment job, before the
\* transaction it is used in.
ReadSettings(c) ==
  /\ caller[c].pc = "idle"
  /\ \E pc \in {"analyse", "ask", "show"}, a \in Alerts :
       caller' = [caller EXCEPT ![c] = [NoCaller EXCEPT !.pc = pc, !.alert = a, !.conf = config]]
  /\ UNCHANGED <<environment, runs, queue, agent, lost, restarts>>

\* create_or_reuse_auto_alert_run hashes the context before its transaction.
ReadContext(c) ==
  /\ caller[c].pc = "analyse" /\ alert[caller[c].alert].open
  /\ caller' = [caller EXCEPT ![c].pc = "create", ![c].ctx = alert[caller[c].alert].ctx]
  /\ UNCHANGED <<environment, runs, queue, agent, lost, restarts>>

\* Its transaction supersedes the analyses of another context or of other
\* settings, and reuses a run of this snapshot, or retries it when it is due.
Supersedes(c, run) ==
  /\ run.auto /\ run.alert = caller[c].alert
  /\ run.ctx # caller[c].ctx \/ (run.conf # caller[c].conf /\ run.st # "running")
Marked(c) == [i \in DOMAIN runs |-> [runs[i] EXCEPT !.sup = @ \/ Supersedes(c, runs[i])]]
Attempts(c) ==
  {i \in DOMAIN runs : /\ runs[i].auto /\ ~Marked(c)[i].sup /\ runs[i].alert = caller[c].alert
                       /\ runs[i].rev = alert[caller[c].alert].rev
                       /\ runs[i].ctx = caller[c].ctx /\ runs[i].conf = caller[c].conf}
\* Mutant: failed attempts are not counted.
RetryableForever(c) == \A i \in Attempts(c) : runs[i].st \in {"failed", "cancelled"}
Retryable(c) == /\ \A i \in Attempts(c) : runs[i].st \in {"failed", "cancelled"}
                /\ Cardinality(Attempts(c)) < MaxAttempts
Slots(marked) == Cardinality({i \in DOMAIN marked : marked[i].st \in Live /\ ~marked[i].sup}) < MaxActive

Insert(c, marked, run) ==
  /\ Len(runs) < MaxRuns
  /\ runs' = Append(marked, run)
  /\ caller' = [caller EXCEPT ![c] = [NoCaller EXCEPT !.pc = "submit", !.run = Len(runs) + 1]]
CreateAuto(c) ==
  LET a == caller[c].alert IN
  /\ caller[c].pc = "create"
  /\ \/ ~alert[a].open /\ Return(c) /\ UNCHANGED runs
     \/ /\ alert[a].open
        /\ Attempts(c) # {} \/ ~Slots(Marked(c))   \* reused, not due yet, or too many
        /\ runs' = Marked(c) /\ Return(c)
     \/ /\ alert[a].open /\ Retryable(c) /\ Slots(Marked(c))
        /\ Insert(c, Marked(c), NewRun(TRUE, a, caller[c].ctx, caller[c].conf))
  /\ UNCHANGED <<environment, queue, agent, lost, restarts>>

\* create_or_reuse_run: a user asks about the run behind an alert.
CreateManual(c) ==
  LET a == caller[c].alert
      same == {i \in Active : ~runs[i].auto /\ runs[i].alert = a /\ runs[i].rev = alert[a].rev}
  IN /\ caller[c].pc = "ask"
     /\ \/ /\ alert[a].open /\ same = {} /\ Slots(runs)
           /\ Insert(c, runs, NewRun(FALSE, a, 0, caller[c].conf))
        \/ (~alert[a].open \/ same # {} \/ ~Slots(runs)) /\ Return(c) /\ UNCHANGED runs
     /\ UNCHANGED <<environment, queue, agent, lost, restarts>>

\* submit_run, after the transaction.
Submit(c) ==
  /\ caller[c].pc = "submit"
  /\ queue' = Append(queue, caller[c].run)
  /\ Return(c)
  /\ UNCHANGED <<environment, runs, agent, lost, restarts>>

\* get_run, for a page or before an e-mail quotes the analysis.
Show(c) ==
  /\ caller[c].pc = "show"
  /\ \E i \in DOMAIN runs : runs' = [runs EXCEPT ![i] = Refreshed(@, caller[c].conf)]
  /\ Return(c)
  /\ UNCHANGED <<environment, queue, agent, lost, restarts>>

\* request_cancel.
Cancel(i) ==
  /\ runs[i].st \in Live /\ ~runs[i].cancel
  /\ runs' = [runs EXCEPT ![i].cancel = TRUE, ![i].st = IF @ = "queued" THEN "cancelled" ELSE @]
  /\ UNCHANGED <<environment, queue, agent, caller, lost, restarts>>

(***************************************************************************)
(* The executor's thread.                                                  *)
(***************************************************************************)
Goto(pc) == agent' = [agent EXCEPT !.pc = pc]
Ends == agent' = NoAgent
Mine == runs[agent.run]
Update(run) == runs' = [runs EXCEPT ![agent.run] = run]
\* A query or a write of the thread raises: the handler of execute_run fails
\* the run (operations_agent.py:646).
Raises == "locked" \in Faults /\ Goto("fail") /\ UNCHANGED runs
\* The write that raises is the one that closes the step.
Refuses(run) == "locked" \in Faults /\ Goto("fail") /\ Update([run EXCEPT !.step = "refused"])
\* What the queries of a boundary check leave of the row.
Checked == IF Mine.cancel THEN Mine ELSE Refreshed(Mine, agent.conf)

\* execute_run reads the settings it will run under.
Begin ==
  /\ agent.pc = "idle" /\ queue # <<>>
  /\ agent' = [pc |-> "claim", run |-> Head(queue), conf |-> config]
  /\ queue' = Tail(queue)
  /\ UNCHANGED <<environment, runs, caller, lost, restarts>>

\* claim_run: a queued run of an older snapshot fails here.
Claim ==
  LET run == Refreshed(Mine, agent.conf) IN
  /\ agent.pc = "claim"
  /\ IF run.sup /\ run.st = "queued" THEN Update([run EXCEPT !.st = "failed"]) /\ Ends
     ELSE IF run.st = "queued" /\ ~run.cancel
     THEN Update([run EXCEPT !.st = "running", !.conf = agent.conf]) /\ Goto("check")
     ELSE Update(run) /\ Ends
  /\ UNCHANGED <<environment, queue, caller, lost, restarts>>

\* claim_run is outside the handler of execute_run, and fail_run is the
\* handler: when either raises, the row stays as it is.
WriteRaises ==
  /\ agent.pc \in {"claim", "fail"} /\ "locked" \in Faults
  /\ lost' = lost \cup {agent.run}
  /\ Ends
  /\ UNCHANGED <<environment, runs, queue, caller, restarts>>

\* _check_boundary: cancelled, superseded, or past the deadline.
Check ==
  /\ agent.pc = "check"
  /\ \/ ~Checked.cancel /\ ~Checked.sup /\ Update(Checked) /\ Goto("work")
     \/ Update(Checked) /\ Goto("fail")
     \/ Raises
  /\ UNCHANGED <<environment, queue, caller, lost, restarts>>

\* The model calls a read tool or submits its result, either under an audit
\* step; or the call fails or exhausts a budget.
Work ==
  /\ agent.pc = "work"
  /\ \/ \E pc \in {"tool", "result"} : Goto(pc) /\ Update([Mine EXCEPT !.step = "open"])
     \/ Goto("fail") /\ UNCHANGED runs
  /\ UNCHANGED <<environment, queue, caller, lost, restarts>>

\* _run_tool closes its step, whatever the tool did, unless finish_step raises.
Tool ==
  /\ agent.pc = "tool"
  /\ \/ Update([Mine EXCEPT !.step = "closed"]) /\ (Goto("check") \/ Goto("fail"))
     \/ Refuses(Mine)
  /\ UNCHANGED <<environment, queue, caller, lost, restarts>>

\* The result is validated against fresh evidence, then under a last boundary
\* check; its step is closed, whatever they say, unless finish_step raises.
\* Mutant: the step of a result that is refused stays open.
ResultOpen ==
  /\ agent.pc = "result"
  /\ \/ ~Checked.cancel /\ ~Checked.sup /\ Goto("complete") /\ Update([Checked EXCEPT !.step = "closed"])
     \/ Goto("fail") /\ Update(Checked)
  /\ UNCHANGED <<environment, queue, caller, lost, restarts>>
Result ==
  /\ agent.pc = "result"
  /\ \/ ~Checked.cancel /\ ~Checked.sup /\ Goto("complete") /\ Update([Checked EXCEPT !.step = "closed"])
     \/ \E run \in {Mine, Checked} :   \* the validation raised, or the boundary check
          \/ Update([run EXCEPT !.step = "closed"])
             /\ (Goto("work") \/ Goto("fail"))   \* an invalid result is handed back
          \/ Refuses(run)
  /\ UNCHANGED <<environment, queue, caller, lost, restarts>>

\* complete_run: the result of a superseded run is kept, marked.
\* Mutant: the flag of the last boundary check is trusted.
CompleteUnchecked ==
  /\ agent.pc = "complete"
  /\ Update([Refreshed(Mine, Mine.conf) EXCEPT !.st = IF @ = "running" THEN "completed" ELSE @])
  /\ Ends
  /\ UNCHANGED <<environment, queue, caller, lost, restarts>>
\* Mutant: the context is not looked at again.
CompleteUnrefreshed ==
  /\ agent.pc = "complete"
  /\ Update([Mine EXCEPT !.st = IF @ # "running" THEN @ ELSE IF Mine.cancel THEN "cancelled" ELSE "completed"])
  /\ Ends
  /\ UNCHANGED <<environment, queue, caller, lost, restarts>>
Complete ==
  LET run == Refreshed(Mine, Mine.conf) IN
  /\ agent.pc = "complete"
  /\ \/ /\ Update([run EXCEPT !.st = IF @ # "running" THEN @ ELSE IF run.cancel THEN "cancelled" ELSE "completed"])
        /\ Ends
     \/ Raises
  /\ UNCHANGED <<environment, queue, caller, lost, restarts>>

\* fail_run.
FailRun ==
  /\ agent.pc = "fail"
  /\ Update([Mine EXCEPT !.st = IF @ \in Terminal THEN @ ELSE IF Mine.cancel THEN "cancelled" ELSE "failed"])
  /\ Ends
  /\ UNCHANGED <<environment, queue, caller, lost, restarts>>

Agent == Begin \/ Claim \/ Check \/ Work \/ Tool \/ Result \/ Complete \/ FailRun

(***************************************************************************)
(* The process ends at any point; recover_interrupted_runs ends what was   *)
(* running and resubmits what was queued under the settings of startup.    *)
(* _run_optional_startup_step (main.py) goes on without it when it raises. *)
(***************************************************************************)
Recovered(run) ==
  LET r == IF run.st \in Live THEN Refreshed(run, config) ELSE run IN
  [r EXCEPT !.st = IF @ \notin Live THEN @ ELSE IF r.cancel THEN "cancelled"
                   ELSE IF r.sup \/ @ = "running" THEN "failed" ELSE @,
            !.step = IF r.st = "running" THEN "closed" ELSE @]
Waiting(recovered) == {i \in DOMAIN recovered : recovered[i].st = "queued"}
\* Mutant: queued rows are left to whoever created them.
ResubmittedNever(recovered) == {<<>>}
\* The queued rows by id.
Resubmitted(recovered) ==
  {q \in [1..Cardinality(Waiting(recovered)) -> Waiting(recovered)] :
     /\ \A k, l \in DOMAIN q : k < l => q[k] < q[l]
     /\ \A i \in Waiting(recovered) : \E k \in DOMAIN q : q[k] = i}
Restart ==
  /\ restarts < MaxRestarts
  /\ restarts' = restarts + 1
  /\ \/ /\ runs' = [i \in DOMAIN runs |-> Recovered(runs[i])]
        /\ queue' \in Resubmitted(runs')
        /\ lost' = {}
     \/ /\ "recovery" \in Faults
        /\ queue' = <<>> /\ lost' = {i \in DOMAIN runs : runs[i].st \in Live}
        /\ UNCHANGED runs
  /\ agent' = NoAgent
  /\ caller' = [c \in Callers |-> NoCaller]
  /\ UNCHANGED environment

Init ==
  /\ alert \in [Alerts -> [open : BOOLEAN, rev : {0}, ctx : {0}]]
  /\ config \in Configs
  /\ runs = <<>> /\ queue = <<>> /\ lost = {}
  /\ agent = NoAgent
  /\ caller = [c \in Callers |-> NoCaller]
  /\ changes = 0 /\ restarts = 0

Next ==
  \/ \E a \in Alerts : NewEvidence(a) \/ NewContext(a) \/ CloseAlert(a) \/ ReopenAlert(a)
  \/ NewSettings
  \/ \E c \in Callers : \/ ReadSettings(c) \/ ReadContext(c) \/ CreateAuto(c) \/ CreateManual(c)
                        \/ Submit(c) \/ Show(c)
  \/ \E i \in DOMAIN runs : Cancel(i)
  \/ Agent \/ WriteRaises \/ Restart

Spec == Init /\ [][Next]_vars

(***************************************************************************)
(* Properties.                                                             *)
(***************************************************************************)
\* The values of the variables.
Row == [auto : BOOLEAN, alert : Alerts, rev : 0..MaxChanges, ctx : Contexts, conf : Configs,
        st : Live \cup Terminal, cancel : BOOLEAN, sup : BOOLEAN, step : {"closed", "open", "refused"}]
TypeOK ==
  /\ alert \in [Alerts -> [open : BOOLEAN, rev : 0..MaxChanges, ctx : Contexts]]
  /\ config \in Configs
  /\ runs \in Seq(Row)
  /\ queue \in Seq(1..Len(runs)) /\ lost \subseteq 1..Len(runs)
  /\ agent.run \in 0..Len(runs)

\* A run that is not superseded belongs to the present revision of an open
\* alert: the triggers, the creating transactions and the readers leave no
\* moment at which an e-mail or a page could quote an older one.
CurrentRevision ==
  \A i \in DOMAIN runs : ~runs[i].sup =>
    alert[runs[i].alert].open /\ runs[i].rev = alert[runs[i].alert].rev

\* A cancellation that was accepted holds: the run does not complete.
CancelHolds == \A i \in DOMAIN runs : runs[i].cancel => runs[i].st # "completed"

\* One snapshot of an alert is analysed by one run at a time, and no more
\* often than the limit of attempts, whoever asks and whatever restarts.
Same(i, j) == runs[i].alert = runs[j].alert /\ runs[i].rev = runs[j].rev
              /\ runs[i].ctx = runs[j].ctx /\ runs[i].conf = runs[j].conf
Analyses(i) == {j \in DOMAIN runs : runs[j].auto /\ ~runs[j].sup /\ Same(i, j)}
BoundedAnalyses ==
  \A i \in DOMAIN runs : runs[i].auto =>
    /\ Cardinality({j \in Analyses(i) : runs[j].st \notin {"failed", "cancelled"}}) <= 1
    /\ Cardinality(Analyses(i)) <= MaxAttempts

\* An open step belongs to a run in progress, which the executor or the next
\* restart will close: no path out of a tool or a result, and no restart, ends
\* a run beside it (operations_agent.py:584).  Steps whose closing write was
\* refused are not promised anything.
StepsClosed ==
  \A i \in DOMAIN runs : runs[i].step = "open" => runs[i].st = "running" /\ (agent.run = i \/ i \in lost)

\* An analysis that completes unmarked describes the context of that moment:
\* what changed while the model was working is noticed in the transaction
\* that stores its result.
CompletesCurrent ==
  [][\A i \in DOMAIN runs :
       runs[i].st # "completed" /\ runs'[i].st = "completed" /\ runs[i].auto /\ ~runs'[i].sup
         => runs[i].ctx = alert[runs[i].alert].ctx]_vars

Submitting == {c \in Callers : caller[c].pc = "submit"}
\* No run is forgotten: one that has not ended is executed, waits for the
\* thread, or is about to be submitted, across restarts, cancellations and
\* reuse; otherwise the writes of its future failed (operations_agent.py:426),
\* or it was in progress at a startup whose recovery raised (main.py:755).
NoOrphan ==
  \A i \in DOMAIN runs : runs[i].st \in Live =>
    \/ agent.run = i \/ i \in lost
    \/ /\ runs[i].st = "queued"
       /\ i \in {queue[k] : k \in DOMAIN queue} \cup {caller[c].run : c \in Submitting}
=============================================================================
