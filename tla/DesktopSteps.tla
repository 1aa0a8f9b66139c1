---------------------------- MODULE DesktopSteps ----------------------------
(***************************************************************************)
(* A script step in the signed-in Windows session: DesktopSession of       *)
(* app/flow_desktop_session.py on the worker, in another session, and the  *)
(* launcher of app/flow_desktop_host.py that Task Scheduler starts.        *)
(*                                                                         *)
(* They share one folder per request, in which each side only creates      *)
(* files: the worker a heartbeat, a cancelling claim or a withdrawal, the  *)
(* launcher its claim, that the script runs, its exit and the end of its   *)
(* output.  Either may disappear between two of its steps; signing out     *)
(* ends the launcher and the script with it.                               *)
(*                                                                         *)
(*   step   DesktopSession.run for a request: host = the launcher whose    *)
(*          script it follows or has ended, seen = its observer has been   *)
(*          started on that script, why = how it ended                     *)
(*   dir    the request's folder; "heartbeat" is among its files while     *)
(*          that file is younger than HEARTBEAT_TIMEOUT_SECONDS, "left" is *)
(*          a folder that open output files have kept from being removed   *)
(*   clock  what has passed of a request's two limits                      *)
(*   host   the launcher that the start of a request asked for: todo = the *)
(*          listed requests it has not tried, at = the one it is at        *)
(*   proc   the script a launcher started, and a process that started      *)
(***************************************************************************)
EXTENDS Naturals

CONSTANTS
  MaxRequests, \* bound: run steps submitted, in the order of their names
  Stoppable,   \* bound: requests whose run may be stopped
  ChildKinds,  \* what a script may start, see Child
  Spare,       \* bound: launchers started for requests that are gone since
  MaxFaults    \* bound: workers and launchers that disappear, sign-outs

VARIABLES step, dir, clock, host, proc, faults
vars == <<step, dir, clock, host, proc, faults>>

Requests == 1..MaxRequests
Hosts == 1..(MaxRequests + Spare)
Files == {"heartbeat", "withdrawn", "started", "result", "exit", "done"}
Waiting == {"submitted", "waiting", "starting", "withdrawn", "following", "ending"}
\* Where a launcher is: before it owns a request, before and after the start.
Looking == {"queued", "scan", "claim"}
Preparing == {"prepare", "hash"}
Running == {"popen", "loop", "drain"}
\* What the script started: a process in its tree that holds the output or
\* not, or one outside the tree that holds it.
Child == {"none", "held", "detached", "hidden"}
Tracked == {"held", "detached"}
ASSUME DesktopBounds ==
  /\ MaxRequests \in Nat /\ Spare \in Nat /\ MaxFaults \in Nat
  /\ ChildKinds \subseteq Child \ {"none"}

\* The owners of a claim that are no launcher.
Nobody == 0
Cancelled == MaxRequests + Spare + 1

NoStep == [pc |-> "none", why |-> "none", stop |-> FALSE, host |-> Nobody, seen |-> FALSE, code |-> "none"]
NoDir == [st |-> "none", claim |-> Nobody, files |-> {}, code |-> "none"]
NoClock == [late |-> 0, expired |-> FALSE]
NoHost == [pc |-> "off", todo |-> {}, at |-> Nobody, forced |-> FALSE]
NoProc == [script |-> "none", by |-> "none", child |-> "none"]

TypeOK ==
  /\ step \in [Requests -> [pc: {"none", "ended", "crashed"} \cup Waiting,
                            why: {"none", "stopped", "late", "unavailable", "refused", "lost", "failed", "returned"},
                            stop: BOOLEAN, host: Hosts \cup {Nobody}, seen: BOOLEAN, code: {"none", "ok", "failed"}]]
  /\ dir \in [Requests -> [st: {"none", "open", "left", "gone"}, claim: Hosts \cup {Nobody, Cancelled},
                           files: SUBSET Files, code: {"none", "ok", "failed"}]]
  /\ clock \in [Requests -> [late: 0..2, expired: BOOLEAN]]
  /\ host \in [Hosts -> [pc: {"off", "done", "out", "closed"} \cup Looking \cup Preparing \cup Running,
                            todo: SUBSET Requests, at: Requests \cup {Nobody}, forced: BOOLEAN]]
  /\ proc \in [Hosts -> [script: {"none", "running", "exited"},
                            by: {"none", "ok", "failed", "killed"}, child: Child]]
  /\ faults \in 0..MaxFaults

Init ==
  /\ step = [r \in Requests |-> NoStep]
  /\ dir = [r \in Requests |-> NoDir]
  /\ clock = [r \in Requests |-> NoClock]
  /\ host = [h \in Hosts |-> IF h \in Requests THEN NoHost ELSE [NoHost EXCEPT !.pc = "queued"]]
  /\ proc = [h \in Hosts |-> NoProc]
  /\ faults = 0

Exists(r) == dir[r].st \in {"open", "left"}
\* The launcher's open output files keep the folder.
HeldOpen(r) == \E h \in Hosts : host[h].at = r /\ host[h].pc \in Running
OutputHeld(h) == proc[h].script = "running" \/ proc[h].child \in {"held", "hidden"}
\* _overdue: the limit and its grace have passed or nobody renews the heartbeat.
Overdue(r) == clock[r].late = 2 \/ "heartbeat" \notin dir[r].files

Write(r, f) == [dir EXCEPT ![r].files = IF Exists(r) THEN @ \cup {f} ELSE @]
\* _end_tree and _kill_process_tree: what the observers saw start ends too.
Killed(p) == [p EXCEPT !.script = IF @ = "running" THEN "exited" ELSE @,
                       !.by = IF p.script = "running" THEN "killed" ELSE @,
                       !.child = IF @ \in Tracked THEN "none" ELSE @]
\* _kill_process_tree without an observer: the tree of a running script, and
\* nothing once the script has exited.
TreeKilled(p) == IF p.script = "running" THEN Killed(p) ELSE p

(***************************************************************************)
(* The worker: DesktopSession.run.                                         *)
(***************************************************************************)
Submit(r) ==
  /\ step[r].pc = "none"
  /\ \A s \in Requests : s < r => step[s].pc # "none"
  /\ step' = [step EXCEPT ![r].pc = "submitted"]
  /\ dir' = [dir EXCEPT ![r] = [NoDir EXCEPT !.st = "open", !.files = {"heartbeat"}]]
  /\ UNCHANGED <<clock, host, proc, faults>>

\* start_task: the task is queued; a signed-out session never starts it.
StartTask(r) ==
  /\ step[r].pc = "submitted"
  /\ step' = [step EXCEPT ![r].pc = "waiting"]
  /\ host' = [host EXCEPT ![r].pc = "queued"]
  /\ UNCHANGED <<dir, clock, proc, faults>>

\* The step is over for the worker; what is left is to remove the folder.
Ends(r, why, h) == step' = [step EXCEPT ![r] = [@ EXCEPT !.pc = "ending", !.why = why, !.host = h]]

\* _cancel: O_EXCL decides between the worker and a launcher.
Cancel(r) == [dir EXCEPT ![r].claim = IF @ = Nobody THEN Cancelled ELSE @]

\* start_task raises; when schtasks was too slow, the task starts all the same.
StartFails(r) ==
  /\ step[r].pc = "submitted"
  /\ Ends(r, "unavailable", Nobody)
  /\ dir' = Cancel(r)
  /\ \E pc \in {"off", "queued"} : host' = [host EXCEPT ![r].pc = pc]
  /\ UNCHANGED <<clock, proc, faults>>

SeeClaim(r) ==
  /\ step[r].pc = "waiting"
  /\ dir[r].claim # Nobody
  /\ step' = [step EXCEPT ![r].pc = "starting"]
  /\ UNCHANGED <<dir, clock, host, proc, faults>>

\* Why a worker gives up; Stop counts first, then the limit.
Pressed(r) == step[r].stop \/ clock[r].late > 0
Verdict(r) == IF step[r].stop THEN "stopped" ELSE IF clock[r].late > 0 THEN "late" ELSE "unavailable"

\* The wait in _launch ends without a claim: cancel, or follow whoever claimed
\* the request at this very moment and, after Stop or the limit, withdraw it.
GiveUpLaunch(r) ==
  /\ step[r].pc = "waiting"
  /\ Pressed(r) \/ clock[r].expired
  /\ IF dir[r].claim = Nobody
     THEN Ends(r, Verdict(r), Nobody) /\ dir' = Cancel(r)
     ELSE /\ step' = [step EXCEPT ![r].pc = "starting"]
          /\ dir' = IF Pressed(r) THEN Write(r, "withdrawn") ELSE dir
  /\ UNCHANGED <<clock, host, proc, faults>>

\* _follow waits for STARTED or RESULT.
SeeStarted(r) ==
  /\ step[r].pc = "starting"
  /\ "started" \in dir[r].files
  /\ step' = [step EXCEPT ![r] = [@ EXCEPT !.pc = "following", !.host = dir[r].claim, !.seen = TRUE]]
  /\ UNCHANGED <<dir, clock, host, proc, faults>>

SeeResult(r) ==
  /\ step[r].pc = "starting"
  /\ "started" \notin dir[r].files
  /\ "result" \in dir[r].files
  /\ Ends(r, "refused", Nobody)
  /\ UNCHANGED <<dir, clock, host, proc, faults>>

\* Stop, the limit, or 60 seconds without an answer: withdraw.
GiveUpStart(r) ==
  /\ step[r].pc = "starting"
  /\ dir[r].files \cap {"started", "result"} = {}
  /\ step' = [step EXCEPT ![r].pc = "withdrawn"]
  /\ dir' = Write(r, "withdrawn")
  /\ UNCHANGED <<clock, host, proc, faults>>

\* A start that raced the withdrawal is ended; nobody observed the script.
LateStart(r) ==
  /\ step[r].pc = "withdrawn"
  /\ "started" \in dir[r].files
  /\ Ends(r, Verdict(r), dir[r].claim)
  /\ proc' = [proc EXCEPT ![dir[r].claim] = TreeKilled(@)]
  /\ UNCHANGED <<dir, clock, host, faults>>

\* None within five seconds.
NoStart(r) ==
  /\ step[r].pc = "withdrawn"
  /\ "started" \notin dir[r].files
  /\ Ends(r, Verdict(r), Nobody)
  /\ UNCHANGED <<dir, clock, host, proc, faults>>

\* Mutant: the script's exit is taken for the end of its output.
ClosedAtExit(r) == TRUE
\* output_closed, or the launcher is gone after it recorded the exit.
OutputClosed(r) == "done" \in dir[r].files \/ host[step[r].host].pc \in {"done", "out", "closed"}

Return(r) ==
  /\ step[r].pc = "following"
  /\ "exit" \in dir[r].files
  /\ OutputClosed(r)
  /\ proc[step[r].host].child \notin Tracked
  /\ step' = [step EXCEPT ![r] = [@ EXCEPT !.pc = "ending", !.why = "returned", !.code = dir[r].code]]
  /\ UNCHANGED <<dir, clock, host, proc, faults>>

\* Stop or the limit while it follows, or a script gone without its exit code
\* for three seconds: the tree is ended first.
FailFollow(r) ==
  /\ step[r].pc = "following"
  /\ \/ Pressed(r) /\ Ends(r, Verdict(r), step[r].host)
     \/ /\ "exit" \notin dir[r].files
        /\ proc[step[r].host].script # "running"
        /\ Ends(r, "lost", step[r].host)
  /\ proc' = [proc EXCEPT ![step[r].host] = Killed(@)]
  /\ UNCHANGED <<dir, clock, host, faults>>

\* A callback raises what _follow does not catch (its server cannot be reached,
\* flow_worker.py:262): the tree is left alone, only the heartbeat goes.
CallbackRaises(r) ==
  /\ step[r].pc = "following"
  /\ Ends(r, "failed", Nobody)
  /\ UNCHANGED <<dir, clock, host, proc, faults>>

\* _discard after the heartbeat thread has ended: only open files stay.  Nobody
\* asks for Stop or a limit any more, so the model forgets them.
Ended(r) ==
  /\ step[r].pc = "ending"
  /\ step' = [step EXCEPT ![r] = [@ EXCEPT !.pc = "ended", !.stop = FALSE]]
  /\ clock' = [clock EXCEPT ![r] = NoClock]
\* Mutant: the files of a folder that cannot be removed stay.
DiscardNothing(r) ==
  /\ Ended(r)
  /\ UNCHANGED <<dir, host, proc, faults>>
Discard(r) ==
  /\ Ended(r)
  /\ dir' = [dir EXCEPT ![r] = [NoDir EXCEPT !.st = IF HeldOpen(r) THEN "left" ELSE "gone"]]
  /\ UNCHANGED <<host, proc, faults>>

(***************************************************************************)
(* The launcher: main, claim and run.                                      *)
(***************************************************************************)
Goes(h, pc) == host' = [host EXCEPT ![h].pc = pc]

\* claim lists the spool once; Task Scheduler starts the task while someone is
\* signed in.
ListSpool(h) ==
  /\ host[h].pc = "queued"
  /\ host' = [host EXCEPT ![h] = [@ EXCEPT !.pc = "scan", !.todo = {r \in Requests : Exists(r)}]]
  /\ UNCHANGED <<step, dir, clock, proc, faults>>

\* The oldest request it has not tried: readable and not expired?
Inspect(h) ==
  /\ host[h].pc = "scan"
  /\ \E r \in host[h].todo :
       /\ \A s \in host[h].todo : r <= s
       /\ IF dir[r].st = "open" /\ ~clock[r].expired
          THEN host' = [host EXCEPT ![h] = [@ EXCEPT !.pc = "claim", !.at = r]]
          ELSE host' = [host EXCEPT ![h].todo = @ \ {r}]
  /\ UNCHANGED <<step, dir, clock, proc, faults>>

NothingLeft(h) ==
  /\ host[h].pc = "scan"
  /\ host[h].todo = {}
  /\ Goes(h, "done")
  /\ UNCHANGED <<step, dir, clock, proc, faults>>

\* O_EXCL: the request is its own, or another's.
TakeClaim(h) ==
  LET r == host[h].at
  IN /\ host[h].pc = "claim"
     /\ IF Exists(r) /\ dir[r].claim = Nobody
        THEN /\ dir' = [dir EXCEPT ![r].claim = h]
             /\ Goes(h, "prepare")
        ELSE /\ host' = [host EXCEPT ![h] = [@ EXCEPT !.pc = "scan", !.at = Nobody, !.todo = host[h].todo \ {r}]]
             /\ UNCHANGED dir
     /\ UNCHANGED <<step, clock, proc, faults>>

CheckWithdrawn(h) ==
  /\ host[h].pc = "prepare"
  /\ Goes(h, IF "withdrawn" \in dir[host[h].at].files THEN "done" ELSE "hash")
  /\ UNCHANGED <<step, dir, clock, proc, faults>>

\* The script is read for its checksum, the output files are opened in the
\* request's folder and the script starts; what fails of it is the result.
StartScript(h) ==
  /\ host[h].pc = "hash"
  /\ \/ /\ Exists(host[h].at)
        /\ Goes(h, "popen")
        /\ proc' = [proc EXCEPT ![h].script = "running"]
        /\ UNCHANGED dir
     \/ /\ Goes(h, "done")
        /\ dir' = Write(host[h].at, "result")
        /\ UNCHANGED proc
  /\ UNCHANGED <<step, clock, faults>>

WriteStarted(h) ==
  /\ host[h].pc = "popen"
  /\ Goes(h, "loop")
  /\ dir' = Write(host[h].at, "started")
  /\ UNCHANGED <<step, clock, proc, faults>>

WithExit(h, by) ==
  LET r == host[h].at
  IN [Write(r, "exit") EXCEPT ![r].code = IF Exists(r) THEN IF by = "ok" THEN "ok" ELSE "failed" ELSE @]

\* The wait of a quarter of a second: the script has exited,
SeeExit(h) ==
  /\ host[h].pc = "loop"
  /\ proc[h].script = "exited"
  /\ dir' = WithExit(h, proc[h].by)
  /\ Goes(h, "drain")
  /\ UNCHANGED <<step, clock, proc, faults>>

\* or it is the launcher's to end.
EndOverdue(h) ==
  /\ host[h].pc = "loop"
  /\ proc[h].script = "running"
  /\ Overdue(host[h].at)
  /\ proc' = [proc EXCEPT ![h] = Killed(@)]
  /\ dir' = WithExit(h, "killed")
  /\ host' = [host EXCEPT ![h] = [@ EXCEPT !.pc = "drain", !.forced = TRUE]]
  /\ UNCHANGED <<step, clock, faults>>

\* Mutant: the limits apply to the script only.
EndOutputNever(h) == FALSE
\* The relays: the same limits while something else holds the output.
EndOutput(h) ==
  /\ host[h].pc = "drain"
  /\ ~host[h].forced
  /\ OutputHeld(h)
  /\ Overdue(host[h].at)
  /\ proc' = [proc EXCEPT ![h] = Killed(@)]
  /\ host' = [host EXCEPT ![h].forced = TRUE]
  /\ UNCHANGED <<step, dir, clock, faults>>

\* The output is over, or has not ended 30 seconds after the tree was ended.
Finish(h) ==
  /\ host[h].pc = "drain"
  /\ OutputHeld(h) => host[h].forced
  /\ Goes(h, "done")
  /\ dir' = Write(host[h].at, "done")
  /\ UNCHANGED <<step, clock, proc, faults>>

(***************************************************************************)
(* The script, time, and what disappears.                                  *)
(***************************************************************************)
\* One process at a time beside the script.
Spawn(h) ==
  /\ proc[h].script = "running"
  /\ proc[h].child = "none"
  /\ \E k \in ChildKinds : proc' = [proc EXCEPT ![h].child = k]
  /\ UNCHANGED <<step, dir, clock, host, faults>>

Exit(h) ==
  /\ proc[h].script = "running"
  /\ \E by \in {"ok", "failed"} : proc' = [proc EXCEPT ![h] = [@ EXCEPT !.script = "exited", !.by = by]]
  /\ UNCHANGED <<step, dir, clock, host, faults>>

ChildExits(h) ==
  /\ proc[h].child # "none"
  /\ proc' = [proc EXCEPT ![h].child = "none"]
  /\ UNCHANGED <<step, dir, clock, host, faults>>

RequestStop(r) ==
  /\ r \in Stoppable
  /\ step[r].pc \in Waiting
  /\ ~step[r].stop
  /\ step' = [step EXCEPT ![r].stop = TRUE]
  /\ UNCHANGED <<dir, clock, host, proc, faults>>

\* expires_at, 60 seconds after the request was submitted; nobody asks for it
\* once the request is claimed.
Expire(r) ==
  /\ dir[r].st = "open"
  /\ dir[r].claim = Nobody
  /\ ~clock[r].expired
  /\ clock' = [clock EXCEPT ![r].expired = TRUE]
  /\ UNCHANGED <<step, dir, host, proc, faults>>

\* The deadline, and the launcher's grace of 30 seconds after it; nobody asks
\* for them once the heartbeat is gone.
PassDeadline(r) ==
  /\ "heartbeat" \in dir[r].files
  /\ clock[r].late < 2
  /\ clock' = [clock EXCEPT ![r].late = @ + 1]
  /\ UNCHANGED <<step, dir, host, proc, faults>>

\* A heartbeat that nobody renews is two minutes old.
Silence(r) ==
  /\ step[r].pc = "crashed"
  /\ "heartbeat" \in dir[r].files
  /\ dir' = [dir EXCEPT ![r].files = @ \ {"heartbeat"}]
  /\ UNCHANGED <<step, clock, host, proc, faults>>

Fault == faults < MaxFaults /\ faults' = faults + 1

Crash(r) ==
  /\ step[r].pc \in Waiting
  /\ Fault
  /\ step' = [step EXCEPT ![r].pc = "crashed"]
  /\ UNCHANGED <<dir, clock, host, proc>>

CloseLauncher(h) ==
  /\ host[h].pc \in Looking \cup Preparing \cup Running
  /\ Fault
  /\ Goes(h, "closed")
  /\ UNCHANGED <<step, dir, clock, proc>>

SignOut ==
  /\ Fault
  /\ host' = [h \in Hosts |->
       IF host[h].pc \in Looking \cup Preparing \cup Running THEN [host[h] EXCEPT !.pc = "out"] ELSE host[h]]
  /\ proc' = [h \in Hosts |-> [Killed(proc[h]) EXCEPT !.child = "none"]]
  /\ UNCHANGED <<step, dir, clock>>

\* DesktopSession.run after the request is written, and run of the launcher.
Worker(r) ==
  \/ StartTask(r) \/ StartFails(r) \/ SeeClaim(r) \/ GiveUpLaunch(r) \/ SeeStarted(r) \/ SeeResult(r) \/ GiveUpStart(r)
  \/ LateStart(r) \/ NoStart(r) \/ Return(r) \/ FailFollow(r) \/ Discard(r)
Launcher(h) ==
  \/ Inspect(h) \/ NothingLeft(h) \/ TakeClaim(h) \/ CheckWithdrawn(h) \/ StartScript(h)
  \/ WriteStarted(h) \/ SeeExit(h) \/ EndOverdue(h) \/ EndOutput(h) \/ Finish(h)

Next ==
  \/ \E r \in Requests :
       \/ Submit(r) \/ Worker(r) \/ CallbackRaises(r)
       \/ RequestStop(r) \/ Expire(r) \/ PassDeadline(r) \/ Silence(r) \/ Crash(r)
  \/ \E h \in Hosts :
       \/ ListSpool(h) \/ Launcher(h) \/ Spawn(h) \/ Exit(h) \/ ChildExits(h) \/ CloseLauncher(h)
  \/ SignOut

Spec == Init /\ [][Next]_vars

\* Processes that live go on and time passes; nothing makes a script end, a
\* child exit, Task Scheduler start a task or anybody press Stop.
Fairness ==
  /\ \A r \in Requests : WF_vars(Worker(r)) /\ WF_vars(PassDeadline(r)) /\ WF_vars(Silence(r))
  /\ \A h \in Hosts : WF_vars(Launcher(h))
FairSpec == Spec /\ Fairness

(***************************************************************************)
(* Properties.                                                             *)
(***************************************************************************)
\* What a run reports of a script happened: its exit code is the script's own,
\* a zero one only when nobody ended it, and everything it printed was there,
\* unless its launcher was closed or gave the output up.
ReportIsTrue ==
  \A r \in Requests : step[r].why = "returned" =>
    LET h == step[r].host
    IN /\ proc[h].script = "exited"
       /\ (step[r].code = "ok") <=> (proc[h].by = "ok")
       /\ proc[h].child \in {"none"} \cup {k \in {"hidden"} : host[h].forced \/ host[h].pc = "closed"}

\* A script whose run has ended is over: with what it started when the worker
\* saw it start, else at the next look of a launcher that nobody closed.  Of a
\* start that raced its withdrawal, a process survives only when the script had
\* exited by itself.  A request cancelled before a launcher owned it never starts.
EndedIsOver ==
  \A r \in Requests, h \in Hosts : step[r].pc = "ended" /\ host[h].at = r /\ host[h].pc # "claim" =>
    IF step[r].host = h
    THEN /\ proc[h].script = "exited"
         /\ proc[h].child \in Tracked => ~step[r].seen /\ proc[h].by \in {"ok", "failed"}
    ELSE proc[h].script = "running" => host[h].pc = "closed" \/ (dir[r].st = "left" /\ Overdue(r))

\* A script never outlives its worker: it ends, with everything in its tree
\* that holds its output, whatever its worker or its launcher does, unless
\* both are gone.
Unattended(h) == host[h].pc = "closed" /\ step[host[h].at].pc \in {"ended", "crashed"}
ScriptsEnd ==
  \A h \in Hosts :
    (proc[h].script = "running" \/ proc[h].child = "held") ~>
      ((proc[h].script # "running" /\ proc[h].child # "held") \/ Unattended(h))

\* setup.ps1:768, each start claims one request: while everybody is well, a
\* request whose launcher has been started finds one.  Not checked by a run:
\* it fails with two requests, see the README.
EachStartServes ==
  \A r \in Requests : step[r].pc = "waiting" /\ dir[r].claim = Nobody /\ ~clock[r].expired =>
    \E h \in Requests : host[h].pc # "done" \/ step[h].why = "unavailable"
=============================================================================
