------------------------------ MODULE Retention ------------------------------
(***************************************************************************)
(* Cleaning up run folders: app/flow_retention.py on a worker and the      *)
(* registration, results and pins of app/routers/flows.py on the server.   *)
(*                                                                         *)
(* Several flows save into one parent folder (one folder_key).  A run that *)
(* registers its folder there is handed operations on older folders; its   *)
(* worker renames each to a tombstone, deletes it and reports.  Resume and *)
(* Retry SQL reuse the files of earlier runs and pin them meanwhile.       *)
(*                                                                         *)
(* A server action is one transaction; the worker's reads, rename and      *)
(* rmtree are steps, since a worker whose run was failed goes on while the *)
(* next run is handed the same operations.                                 *)
(*                                                                         *)
(*   runs    flow_runs by id: uses = the runs whose folders the job reads, *)
(*           carried = the job's resume.completed (in = the run whose      *)
(*           folder the file lies in, as = its source_run_id),             *)
(*           pins = flow_run_source_refs, files = the runs whose folders   *)
(*           hold artifact_json                                            *)
(*   op      flow_retention_ops; a folder has one operation at most        *)
(*   disk    the folder of a run                                           *)
(*   proc    the worker process of a run: its list, the operation in hand  *)
(*   shared  folders whose operation two living processes held at once     *)
(***************************************************************************)
EXTENDS Naturals, Sequences, FiniteSets

CONSTANTS
  Flows,       \* flows that share the parent folder
  Keep,        \* RUN_FOLDER_KEEP
  MaxRuns,     \* bound: rows of flow_runs
  Interrupted, \* bound: runs that may be stopped, fall silent or lose their process
  HeldOpen,    \* bound: runs that may find a file of a folder held open
  Unmarked     \* bound: runs that may not be able to read a folder's marker

ASSUME RetentionBounds == Keep \in Nat \ {0} /\ MaxRuns \in Nat

VARIABLES runs, op, disk, proc, shared
vars == <<runs, op, disk, proc, shared>>

Ids == 1..MaxRuns
Pending == {"issued", "quarantined"}
NoOp == [st |-> "none", to |-> 0]
NoProc == [pc |-> "none", ops |-> {}, at |-> 0, saw |-> FALSE, results |-> {}]

Terminal(i) == runs[i].st # "active"
Busy(f) == \E i \in DOMAIN runs : runs[i].flow = f /\ ~Terminal(i)

(***************************************************************************)
(* The server's helpers.                                                   *)
(***************************************************************************)
\* _source_has_live_consumer.
Pinned(s) == \E c \in DOMAIN runs : ~Terminal(c) /\ s \in runs[c].pins
\* Mutant: a folder that is about to be removed is offered.
UnavailablePruned(s) == runs[s].folder = "pruned"
\* _source_folder_unavailable.
Unavailable(s) == runs[s].folder = "pruned" \/ op[s].st \in Pending

\* _release_retention_ops: what these runs have not reported waits for another.
Released(ops, ended) ==
  [s \in Ids |-> IF ops[s].st \in Pending /\ ops[s].to \in ended THEN [ops[s] EXCEPT !.to = 0] ELSE ops[s]]

Present(i) == {s \in DOMAIN runs : s = i \/ runs[s].folder = "present"}
\* Mutant: the folder of the registering run takes no place.
OutdatedAside(i) == {s \in Present(i) : Cardinality({q \in Present(i) : q > s}) >= Keep - 1}
\* Older than the newest Keep recorded folders.
Outdated(i) == {s \in Present(i) : Cardinality({q \in Present(i) : q > s}) >= Keep}
Handed(i, ops) == {s \in Ids : ops[s].st \in Pending /\ ops[s].to \in {0, i} /\ ~Pinned(s)}
Issued(i, ops) ==
  [s \in Ids |-> IF s \in Outdated(i) /\ Terminal(s) /\ ~Pinned(s) /\ ops[s].st = "none"
                 THEN [st |-> "issued", to |-> i] ELSE ops[s]]

(***************************************************************************)
(* Queueing runs.                                                          *)
(***************************************************************************)
NewRun(f, uses, carried, pins, retry) ==
  /\ Len(runs) < MaxRuns
  /\ runs' = Append(runs, [flow |-> f, st |-> "active", folder |-> "none", retry |-> retry,
                           uses |-> uses, carried |-> carried, pins |-> pins, files |-> {}])
  /\ UNCHANGED <<op, disk, proc, shared>>

Queue(f) == ~Busy(f) /\ NewRun(f, {}, {}, {}, FALSE)

\* The evidence a Resume of r finds: what r had carried, then its own files,
\* attributed to r wherever they lie, as far as they are not carried ones.  The
\* files of an SQL retry have lost their export view, so that they may not be
\* recognised as carried.
Lie(entries) == {e.in : e \in entries}
Evidence(r) ==
  LET carried == runs[r].carried
      saved == {[in |-> s, as |-> r] : s \in runs[r].files}
      unknown == {e \in saved : e.in \notin Lie(carried)}
  IN {carried \cup unknown} \cup (IF runs[r].retry THEN {carried \cup saved} ELSE {})
\* resume_run: the evidence whose attributed run's folder is not being removed.
Reusable(entries) == {e \in entries : ~Unavailable(e.as)}
Resumable(r) == runs[r].st = "failed" /\ ~Busy(runs[r].flow)
Resume(r) ==
  /\ Resumable(r)
  /\ \E entries \in Evidence(r) :
       LET carried == Reusable(entries) IN
       /\ entries # {}
       /\ NewRun(runs[r].flow, Lie(carried), carried, {r} \cup {e.as : e \in carried}, FALSE)

\* retry_run_sql copies the job with what it carried; files of a private store
\* are not probed by the server.
Retriable(r) == Terminal(r) /\ runs[r].files # {} /\ ~Unavailable(r) /\ ~Busy(runs[r].flow)
RetrySql(r) == Retriable(r) /\ NewRun(runs[r].flow, runs[r].files, runs[r].carried, {r}, TRUE)
\* Its worker finds every file and reports the source's files as its own.
RetryStarts(i) ==
  /\ runs[i].retry /\ ~Terminal(i) /\ runs[i].files = {}
  /\ \A s \in runs[i].uses : disk[s] = "folder"
  /\ runs' = [runs EXCEPT ![i].files = runs[i].uses]
  /\ UNCHANGED <<op, disk, proc, shared>>
RetryEnds(i) ==
  /\ runs[i].retry /\ ~Terminal(i)
  /\ \E st \in IF runs[i].files = {} THEN {"failed"} ELSE {"succeeded", "failed"} :
       runs' = [runs EXCEPT ![i].st = st]
  /\ UNCHANGED <<op, disk, proc, shared>>

\* The watchdog fails a silent run and releases its operations; stop_run does
\* not release them.  The process may be alive.
Interrupt(i) ==
  /\ i \in Interrupted /\ ~Terminal(i)
  /\ runs' = [runs EXCEPT ![i].st = "failed"]
  /\ op' \in {op, Released(op, {i})}
  /\ UNCHANGED <<disk, proc, shared>>

(***************************************************************************)
(* The worker of run i.                                                    *)
(***************************************************************************)
Goto(i, pc) == proc' = [proc EXCEPT ![i].pc = pc]

\* create_run_folder.
Create(i) ==
  /\ proc[i].pc = "none" /\ ~Terminal(i) /\ ~runs[i].retry
  /\ disk' = [disk EXCEPT ![i] = "folder"]
  /\ Goto(i, "register")
  /\ UNCHANGED <<runs, op, shared>>

\* register_run_folder reads the status before its transaction begins.
RegisterCheck(i) ==
  /\ proc[i].pc = "register"
  /\ Goto(i, IF Terminal(i) THEN "work" ELSE "record")
  /\ UNCHANGED <<runs, op, disk, shared>>

\* Its transaction records the folder and assigns the retention work.
Holds(j, s) == proc[j].pc # "done" /\ (s \in proc[j].ops \/ proc[j].at = s)
Register(i) ==
  LET ops == Issued(i, Released(op, {j \in DOMAIN runs : Terminal(j)}))
      mine == Handed(i, ops)
  IN /\ proc[i].pc = "record"
     /\ runs' = [runs EXCEPT ![i].folder = "present"]
     /\ op' = [s \in Ids |-> IF s \in mine THEN [ops[s] EXCEPT !.to = i] ELSE ops[s]]
     /\ proc' = [proc EXCEPT ![i].pc = "sweep", ![i].ops = mine]
     /\ shared' = shared \cup {s \in mine : \E j \in Ids \ {i} : Holds(j, s)}
     /\ UNCHANGED disk

\* execute_ops: one operation after the other.
Sees(i) ==
  /\ proc[i].pc = "sweep"
  /\ \E s \in proc[i].ops :
       proc' = [proc EXCEPT ![i].pc = "seen", ![i].ops = @ \ {s}, ![i].at = s,
                            ![i].saw = disk[s] = "folder"]
  /\ UNCHANGED <<runs, op, disk, shared>>
Result(i, outcome) ==
  proc' = [proc EXCEPT ![i].pc = "sweep", ![i].at = 0, ![i].saw = FALSE,
                       ![i].results = @ \cup {[op |-> proc[i].at, outcome |-> outcome]}]
\* Mutant: the tombstone is not looked for.
SeesTombstoneNot(i) ==
  /\ proc[i].pc = "seen"
  /\ IF proc[i].saw THEN Goto(i, "gate") ELSE Result(i, "deleted")
  /\ UNCHANGED <<runs, op, disk, shared>>
SeesTombstone(i) ==
  LET there == disk[proc[i].at] = "tombstone" IN
  /\ proc[i].pc = "seen"
  /\ \/ proc[i].saw /\ there /\ Result(i, "skipped")   \* ambiguous
     \/ proc[i].saw /\ ~there /\ Goto(i, "gate")
     \/ ~proc[i].saw /\ there /\ Goto(i, "reconcile")
     \/ ~proc[i].saw /\ ~there /\ Result(i, "deleted")
  /\ UNCHANGED <<runs, op, disk, shared>>

\* _gate_reason: a folder that is gone or unmarked is refused.
Gate(i) ==
  /\ proc[i].pc = "gate"
  /\ \/ disk[proc[i].at] = "folder" /\ Goto(i, "rename")
     \/ (disk[proc[i].at] # "folder" \/ i \in Unmarked) /\ Result(i, "skipped")
  /\ UNCHANGED <<runs, op, disk, shared>>
MoveAside(i) ==
  LET s == proc[i].at IN
  /\ proc[i].pc = "rename"
  /\ \/ disk[s] = "folder" /\ disk' = [disk EXCEPT ![s] = "tombstone"] /\ Goto(i, "remove")
     \/ (disk[s] # "folder" \/ i \in HeldOpen) /\ Result(i, "failed") /\ UNCHANGED disk
  /\ UNCHANGED <<runs, op, shared>>

\* _tombstone_gate_reason, then rmtree.
GateTombstone(i) ==
  /\ proc[i].pc = "reconcile"
  /\ IF disk[proc[i].at] = "tombstone" THEN Goto(i, "remove again") ELSE Result(i, "skipped")
  /\ UNCHANGED <<runs, op, disk, shared>>
Remove(i) ==
  LET s == proc[i].at IN
  /\ proc[i].pc \in {"remove", "remove again"}
  /\ \/ disk[s] = "tombstone" /\ disk' = [disk EXCEPT ![s] = "nothing"] /\ Result(i, "deleted")
     \/ /\ disk[s] # "tombstone" \/ i \in HeldOpen
        /\ Result(i, IF proc[i].pc = "remove" THEN "quarantined" ELSE "failed") /\ UNCHANGED disk
  /\ UNCHANGED <<runs, op, shared>>

\* Mutant: a failed operation is neither retried nor closed.
AfterFailed(o, outcome) ==
  CASE outcome = "deleted"     -> [o EXCEPT !.st = "done"]
    [] outcome = "quarantined" -> [o EXCEPT !.st = "quarantined"]
    [] outcome = "skipped"     -> [st |-> "abandoned", to |-> 0]
    [] OTHER                   -> [o EXCEPT !.st = "failed"]
\* The report of the results; _apply_retention_results of a run that has not ended.
After(o, outcome) ==
  CASE outcome = "deleted"     -> [o EXCEPT !.st = "done"]
    [] outcome = "quarantined" -> [o EXCEPT !.st = "quarantined"]
    [] outcome = "skipped"     -> [st |-> "abandoned", to |-> 0]
    [] OTHER                   -> [o EXCEPT !.to = 0]
Counts(i, s) == ~Terminal(i) /\ op[s].to = i /\ \E r \in proc[i].results : r.op = s
Outcome(i, s) == (CHOOSE r \in proc[i].results : r.op = s).outcome
Report(i) ==
  /\ proc[i].pc = "sweep" /\ proc[i].ops = {}
  /\ op' = [s \in Ids |-> IF Counts(i, s) THEN After(op[s], Outcome(i, s)) ELSE op[s]]
  /\ runs' = [s \in DOMAIN runs |->
       IF Counts(i, s) /\ Outcome(i, s) = "deleted" THEN [runs[s] EXCEPT !.folder = "pruned"] ELSE runs[s]]
  /\ proc' = [proc EXCEPT ![i] = [NoProc EXCEPT !.pc = "work"]]
  /\ UNCHANGED <<disk, shared>>

\* Its exports: new files, and with parallel downloads also those of the
\* Resume evidence that are still there.
Work(i) ==
  /\ proc[i].pc = "work"
  /\ IF Terminal(i) THEN UNCHANGED runs ELSE
       \E carried \in {{}, {s \in runs[i].uses : disk[s] = "folder"}} :
         runs' = [runs EXCEPT ![i].files = {i} \cup carried]
  /\ Goto(i, "finish")
  /\ UNCHANGED <<op, disk, shared>>

\* update_run, the terminal report.
Finish(i) ==
  /\ proc[i].pc = "finish"
  /\ IF Terminal(i) THEN UNCHANGED <<runs, op>> ELSE
       /\ \E st \in {"succeeded", "failed"} : runs' = [runs EXCEPT ![i].st = st]
       /\ op' = Released(op, {i})
  /\ proc' = [proc EXCEPT ![i] = [NoProc EXCEPT !.pc = "done"]]
  /\ UNCHANGED <<disk, shared>>

Crash(i) ==
  /\ i \in Interrupted /\ proc[i].pc \notin {"none", "done"}
  /\ proc' = [proc EXCEPT ![i] = [NoProc EXCEPT !.pc = "done"]]
  /\ UNCHANGED <<runs, op, disk, shared>>

Worker(i) ==
  \/ Create(i) \/ RegisterCheck(i) \/ Register(i)
  \/ Sees(i) \/ SeesTombstone(i) \/ Gate(i) \/ MoveAside(i) \/ GateTombstone(i) \/ Remove(i)
  \/ Report(i) \/ Work(i) \/ Finish(i) \/ Crash(i)

Init ==
  /\ runs = <<>>
  /\ op = [s \in Ids |-> NoOp]
  /\ disk = [s \in Ids |-> "nothing"]
  /\ proc = [s \in Ids |-> NoProc]
  /\ shared = {}

Next ==
  \/ \E f \in Flows : Queue(f)
  \/ \E r \in DOMAIN runs : Resume(r) \/ RetrySql(r) \/ RetryStarts(r) \/ RetryEnds(r) \/ Interrupt(r) \/ Worker(r)

Spec == Init /\ [][Next]_vars

(***************************************************************************)
(* Properties.                                                             *)
(***************************************************************************)
\* The values of the variables.
Row == [flow : Flows, st : {"active", "succeeded", "failed"}, folder : {"none", "present", "pruned"},
        retry : BOOLEAN, uses : SUBSET Ids, carried : SUBSET [in : Ids, as : Ids],
        pins : SUBSET Ids, files : SUBSET Ids]
Op == [st : {"none", "issued", "quarantined", "abandoned", "done"}, to : {0} \cup Ids]
Process == [pc : {"none", "register", "record", "sweep", "seen", "gate", "rename", "reconcile",
                  "remove", "remove again", "work", "finish", "done"},
            ops : SUBSET Ids, at : {0} \cup Ids, saw : BOOLEAN,
            results : SUBSET [op : Ids, outcome : {"deleted", "quarantined", "skipped", "failed"}]]
TypeOK ==
  /\ runs \in Seq(Row) /\ Len(runs) <= MaxRuns
  /\ op \in [Ids -> Op]
  /\ disk \in [Ids -> {"nothing", "folder", "tombstone"}]
  /\ proc \in [Ids -> Process]
  /\ shared \subseteq Ids

Recorded == {s \in DOMAIN runs : runs[s].folder # "none"}
\* The newest Keep recorded folders are on disk, whoever sweeps, however late
\* and however often (README.md:242, "keeps the newest three").
NewestKept ==
  \A s \in Recorded :
    Cardinality({q \in Recorded : q > s}) < Keep => disk[s] = "folder"

\* What the server believes is true: a folder it calls pruned has left nothing,
\* and of a folder that one process at a time worked on, a tombstone belongs to
\* an operation that will be handed out again (flow_retention.py:22-24), and
\* without one the folder is whole.
Accounted ==
  \A s \in Recorded :
    /\ runs[s].folder = "pruned" => disk[s] = "nothing"
    /\ s \notin shared =>
         /\ disk[s] = "tombstone" => op[s].st \in Pending
         /\ runs[s].folder = "present" /\ op[s].st \notin Pending => disk[s] = "folder"

\* No folder that a queued or running Resume reads from is moved or deleted,
\* nor that of the run whose SQL is retried: the pin and the operation exclude
\* each other although a late process may still hold the operation, along every
\* chain of Resumes and retries.  Left out: a folder known only through an SQL
\* retry, which attributes the files to itself, and an operation given up by one
\* process while another held it.
Reads(c) ==
  IF runs[c].retry THEN runs[c].uses \cap runs[c].pins
  ELSE Lie({e \in runs[c].carried : ~runs[e.as].retry})
GivenUp == {s \in shared : op[s].st = "abandoned"}
PinnedKept ==
  [][\A c \in DOMAIN runs : ~Terminal(c) =>
       \A s \in Reads(c) \ GivenUp : disk[s] = "folder" => disk'[s] = "folder"]_vars

\* "a queued resume or SQL retry references the run folders its files live in,
\* blocking retention assignment" (database.py:1475-1476).
FilesKept ==
  [][\A c \in DOMAIN runs : ~Terminal(c) => \A s \in runs[c].uses : disk[s] = "folder" => disk'[s] = "folder"]_vars
=============================================================================
