--------------------------- MODULE DesktopStepsProofs ---------------------------
(***************************************************************************)
(* Proofs about DesktopSteps, for any number of requests, spare launchers  *)
(* and faults, whatever scripts start and whoever presses Stop.            *)
(***************************************************************************)
EXTENDS DesktopSteps, TLAPS

USE DesktopBounds

(***************************************************************************)
(* The invariant.                                                          *)
(***************************************************************************)
Steps == [pc: {"none", "ended", "crashed"} \cup Waiting,
          why: {"none", "stopped", "late", "unavailable", "refused", "lost", "failed", "returned"},
          stop: BOOLEAN, host: Hosts \cup {Nobody}, seen: BOOLEAN, code: {"none", "ok", "failed"}]
Dirs == [st: {"none", "open", "left", "gone"}, claim: Hosts \cup {Nobody, Cancelled},
         files: SUBSET Files, code: {"none", "ok", "failed"}]
Launchers == [pc: {"off", "done", "out", "closed"} \cup Looking \cup Preparing \cup Running,
              todo: SUBSET Requests, at: Requests \cup {Nobody}, forced: BOOLEAN]
Procs == [script: {"none", "running", "exited"}, by: {"none", "ok", "failed", "killed"}, child: Child]

TypeInv ==
  /\ step \in [Requests -> Steps] /\ dir \in [Requests -> Dirs]
  /\ clock \in [Requests -> [late: 0..2, expired: BOOLEAN]]
  /\ host \in [Hosts -> Launchers] /\ proc \in [Hosts -> Procs]
  /\ faults \in 0..MaxFaults

\* The launcher that claimed a request, from the claim to the script's end.
Owns(h, r) ==
  /\ host[h].at = r
  /\ host[h].pc \in Preparing \/ proc[h].script # "none"

\* A launcher and its script.
HostInv(h) ==
  /\ host[h].pc \in {"off", "queued"} \cup Looking \cup Preparing => proc[h] = NoProc
  /\ host[h].pc \in {"claim"} \cup Preparing \cup Running => host[h].at \in Requests
  /\ host[h].at # Nobody => dir[host[h].at].st # "none"
  /\ \A r \in host[h].todo : dir[r].st # "none"
  /\ host[h].pc \in Running => proc[h].script # "none" /\ Exists(host[h].at)
  /\ proc[h].script # "none" => host[h].at \in Requests
  /\ proc[h].script = "none" => proc[h].child = "none"
  /\ proc[h].script = "running" => host[h].pc \in {"popen", "loop", "closed"} /\ proc[h].by = "none"
  /\ proc[h].child \in Tracked /\ proc[h].script = "exited" => proc[h].by \in {"ok", "failed"}

\* The folder of a request that its worker has not left.
OpenInv(r) ==
  LET h == dir[r].claim
  IN /\ \A g \in Hosts : Owns(g, r) => h = g
     /\ "started" \in dir[r].files =>
          /\ h \in Hosts /\ Owns(h, r)
          /\ host[h].pc \in {"loop", "drain", "done", "out", "closed"}
     /\ \A g \in Hosts : host[g].at = r /\ host[g].pc \in {"loop", "drain"} => "started" \in dir[r].files
     /\ "exit" \in dir[r].files =>
          /\ "started" \in dir[r].files
          /\ proc[h].script = "exited" /\ host[h].pc # "loop"
          /\ (dir[r].code = "ok") <=> (proc[h].by = "ok")
     /\ "started" \in dir[r].files /\ host[h].pc \in {"drain", "done"} => "exit" \in dir[r].files
     /\ "done" \in dir[r].files => "exit" \in dir[r].files
     /\ "exit" \in dir[r].files /\ ("done" \in dir[r].files \/ host[h].pc \in {"done", "out"}) =>
          (proc[h].child \in {"held", "hidden"} => host[h].forced)

DirInv(r) ==
  /\ dir[r].st = "none" <=> step[r].pc = "none"
  /\ dir[r].st = "open" <=> step[r].pc \in Waiting \cup {"crashed"}
  /\ dir[r].st # "open" => "heartbeat" \notin dir[r].files
  /\ dir[r].st = "open" => OpenInv(r)

\* The worker of a request.
StepInv(r) ==
  /\ step[r].pc \in {"none", "submitted"} => host[r].pc = "off"
  /\ step[r].pc = "following" => "started" \in dir[r].files /\ step[r].host = dir[r].claim /\ step[r].seen
  /\ step[r].pc \in {"none", "submitted", "waiting", "starting", "withdrawn"} => step[r].host = Nobody /\ ~step[r].seen
  /\ step[r].why # "none" => step[r].pc \in {"ending", "ended", "crashed"}
  /\ step[r].why # "none" /\ step[r].host # Nobody =>
       /\ host[step[r].host].at = r
       /\ proc[step[r].host].script = "exited"
       /\ proc[step[r].host].child \in Tracked => ~step[r].seen /\ proc[step[r].host].by \in {"ok", "failed"}
  /\ step[r].pc \in {"ending", "ended"} => step[r].why # "none"
  /\ step[r].why = "returned" => step[r].host # Nobody

DesktopInv ==
  /\ TypeInv
  /\ \A h \in Hosts : HostInv(h)
  /\ \A r \in Requests : DirInv(r)
  /\ \A r \in Requests : StepInv(r)
  /\ ReportIsTrue

\* Launchers are named like the requests they were started for, and nobody
\* else owns a claim under a launcher's name.
LEMMA Owners ==
  /\ Requests \subseteq Hosts
  /\ Nobody \notin Hosts /\ Cancelled \notin Hosts
BY DEF Requests, Hosts, Nobody, Cancelled

USE Owners

(***************************************************************************)
(* What the steps are made of.                                             *)
(***************************************************************************)
\* The worker of r goes on, or its step ends without an exit code.
StepGoes(r, pc) ==
  /\ step'[r].pc = pc
  /\ step'[r].why = step[r].why /\ step'[r].host = step[r].host /\ step'[r].code = step[r].code
  /\ step'[r].seen = step[r].seen
  /\ \A s \in Requests : s # r => step'[s] = step[s]
StepEnds(r, h) ==
  /\ step'[r].pc = "ending" /\ step'[r].why \notin {"none", "returned"} /\ step'[r].host = h
  /\ step'[r].seen = step[r].seen
  /\ \A s \in Requests : s # r => step'[s] = step[s]
\* A file appears in the folder of r, or somebody claims the request.
DirGets(r, f) ==
  /\ dir'[r].st = dir[r].st /\ dir'[r].claim = dir[r].claim /\ dir'[r].code = dir[r].code
  /\ dir'[r].files = IF Exists(r) THEN dir[r].files \cup {f} ELSE dir[r].files
  /\ \A s \in Requests : s # r => dir'[s] = dir[s]
DirClaimed(r, c) ==
  /\ dir'[r].st = dir[r].st /\ dir'[r].code = dir[r].code /\ dir'[r].files = dir[r].files
  /\ dir'[r].claim = c
  /\ \A s \in Requests : s # r => dir'[s] = dir[s]
\* A launcher goes on, or ends the tree of its script.
HostGoes(h, pc) ==
  /\ host'[h].pc = pc
  /\ host'[h].at = host[h].at /\ host'[h].todo = host[h].todo /\ host'[h].forced = host[h].forced
  /\ \A g \in Hosts : g # h => host'[g] = host[g]
ProcKilled(h) ==
  /\ proc'[h].script = (IF proc[h].script = "running" THEN "exited" ELSE proc[h].script)
  /\ proc'[h].by = (IF proc[h].script = "running" THEN "killed" ELSE proc[h].by)
  /\ proc'[h].child = (IF proc[h].child \in Tracked THEN "none" ELSE proc[h].child)
  /\ \A g \in Hosts : g # h => proc'[g] = proc[g]

\* The call of a worker goes on or crashes, without a verdict.
LEMMA Going ==
  ASSUME step \in [Requests -> Steps], NEW r \in Requests, NEW pc \in {"none", "ended", "crashed"} \cup Waiting,
         step' = [step EXCEPT ![r].pc = pc]
  PROVE  step' \in [Requests -> Steps] /\ StepGoes(r, pc)
<1>1. step' \in [Requests -> Steps]
  BY DEF Steps, Waiting
<1>2. StepGoes(r, pc)
  BY DEF Steps, StepGoes
<1> QED  BY <1>1, <1>2

\* The call of a worker ends with an error.
LEMMA Ending ==
  ASSUME step \in [Requests -> Steps], NEW r \in Requests, NEW h \in Hosts \cup {Nobody},
         NEW why \in {"stopped", "late", "unavailable", "refused", "lost", "failed"}, Ends(r, why, h)
  PROVE  step' \in [Requests -> Steps] /\ StepEnds(r, h)
<1>0. [step[r] EXCEPT !.pc = "ending", !.why = why, !.host = h] \in Steps
  BY DEF Steps, Waiting
<1>1. step' \in [Requests -> Steps]
  BY <1>0 DEF Ends
<1>2. StepEnds(r, h)
  BY DEF Steps, StepEnds, Ends
<1> QED  BY <1>1, <1>2

\* What a withdrawn request is reported as.
LEMMA Verdicts == ASSUME NEW r PROVE Verdict(r) \in {"stopped", "late", "unavailable"}
BY DEF Verdict

\* A file is created in a folder.
LEMMA Writing ==
  ASSUME dir \in [Requests -> Dirs], NEW r \in Requests, NEW f \in Files, dir' = Write(r, f)
  PROVE  dir' \in [Requests -> Dirs] /\ DirGets(r, f)
BY DEF Dirs, Write, DirGets

DirExits(h, by) ==
  LET r == host[h].at
  IN /\ dir'[r].st = dir[r].st /\ dir'[r].claim = dir[r].claim
     /\ dir'[r].files = IF Exists(r) THEN dir[r].files \cup {"exit"} ELSE dir[r].files
     /\ Exists(r) => dir'[r].code = IF by = "ok" THEN "ok" ELSE "failed"
     /\ \A s \in Requests : s # r => dir'[s] = dir[s]

\* The exit of a script is written to the folder of its request.
LEMMA Exiting ==
  ASSUME dir \in [Requests -> Dirs], NEW h \in Hosts, host[h].at \in Requests,
         NEW by \in {"none", "ok", "failed", "killed"}, dir' = WithExit(h, by)
  PROVE  dir' \in [Requests -> Dirs] /\ DirExits(h, by)
<1> DEFINE r == host[h].at
           row == IF Exists(r) THEN [dir[r] EXCEPT !.files = @ \cup {"exit"}] ELSE dir[r]
           code == IF Exists(r) THEN IF by = "ok" THEN "ok" ELSE "failed" ELSE dir[r].code
           new == [row EXCEPT !.code = code]
<1>1. r \in Requests /\ dir[r] \in Dirs
  OBVIOUS
<1>2. row \in Dirs /\ code \in {"none", "ok", "failed"}
  BY <1>1 DEF Dirs, Files
<1>3. /\ row.st = dir[r].st /\ row.claim = dir[r].claim
      /\ row.files = IF Exists(r) THEN dir[r].files \cup {"exit"} ELSE dir[r].files
  BY <1>1 DEF Dirs
<1>4. Write(r, "exit") = [dir EXCEPT ![r] = row]
  BY <1>1 DEF Write, Dirs
<1>5. dir' = [dir EXCEPT ![r] = new]
  <2>1. dir' = [Write(r, "exit") EXCEPT ![r].code = IF Exists(r) THEN IF by = "ok" THEN "ok" ELSE "failed" ELSE @]
    BY DEF WithExit
  <2>2. row.code = dir[r].code
    BY <1>1 DEF Dirs
  <2> HIDE DEF row
  <2>3. [dir EXCEPT ![r] = row][r] = row
    BY <1>1
  <2> QED  BY <1>1, <1>4, <2>1, <2>2, <2>3
<1>6. new \in Dirs /\ new.st = row.st /\ new.claim = row.claim /\ new.files = row.files /\ new.code = code
  <2> HIDE DEF row, code
  <2> QED  BY <1>2 DEF Dirs
<1> HIDE DEF new
<1>7. dir' \in [Requests -> Dirs] /\ dir'[r] = new /\ \A s \in Requests : s # r => dir'[s] = dir[s]
  BY <1>1, <1>5, <1>6
<1> QED  BY <1>3, <1>6, <1>7 DEF DirExits

\* A request is claimed, by a launcher or by its own worker.
LEMMA Claiming ==
  ASSUME dir \in [Requests -> Dirs], NEW r \in Requests, NEW c \in Hosts \cup {Nobody, Cancelled},
         dir' = [dir EXCEPT ![r].claim = c]
  PROVE  dir' \in [Requests -> Dirs] /\ DirClaimed(r, c)
<1>1. dir' \in [Requests -> Dirs]
  BY DEF Dirs
<1>2. DirClaimed(r, c)
  BY DEF Dirs, DirClaimed
<1> QED  BY <1>1, <1>2

\* A worker withdraws a request by claiming it first, if it can.
LEMMA Cancelling ==
  ASSUME dir \in [Requests -> Dirs], NEW r \in Requests, dir' = Cancel(r)
  PROVE  /\ dir' \in [Requests -> Dirs]
         /\ DirClaimed(r, IF dir[r].claim = Nobody THEN Cancelled ELSE dir[r].claim)
<1>1. dir' \in [Requests -> Dirs]
  BY DEF Dirs, Cancel
<1>2. DirClaimed(r, IF dir[r].claim = Nobody THEN Cancelled ELSE dir[r].claim)
  BY DEF Dirs, Cancel, DirClaimed
<1> QED  BY <1>1, <1>2

\* One launcher changes.
LEMMA HostRow ==
  ASSUME host \in [Hosts -> Launchers], NEW h \in Hosts, NEW row \in Launchers, host' = [host EXCEPT ![h] = row]
  PROVE  /\ host' \in [Hosts -> Launchers] /\ host'[h] = row
         /\ \A g \in Hosts : g # h => host'[g] = host[g]
OBVIOUS

\* One launcher takes its next step with its request as it was.
LEMMA HostGoing ==
  ASSUME host \in [Hosts -> Launchers], NEW h \in Hosts,
         NEW pc \in {"off", "done", "out", "closed"} \cup Looking \cup Preparing \cup Running, Goes(h, pc)
  PROVE  host' \in [Hosts -> Launchers] /\ HostGoes(h, pc)
<1>1. host' \in [Hosts -> Launchers]
  BY DEF Launchers, Goes, Looking, Preparing, Running
<1>2. HostGoes(h, pc)
  BY DEF Launchers, Goes, HostGoes
<1> QED  BY <1>1, <1>2

\* The tree of a script is killed; a process that left it may live.
LEMMA Killing ==
  ASSUME proc \in [Hosts -> Procs], NEW h \in Hosts, proc' = [proc EXCEPT ![h] = Killed(@)]
  PROVE  proc' \in [Hosts -> Procs] /\ ProcKilled(h)
<1>1. proc[h] \in Procs
  OBVIOUS
<1>2. /\ Killed(proc[h]) \in Procs
      /\ Killed(proc[h]).script = (IF proc[h].script = "running" THEN "exited" ELSE proc[h].script)
      /\ Killed(proc[h]).by = (IF proc[h].script = "running" THEN "killed" ELSE proc[h].by)
      /\ Killed(proc[h]).child = (IF proc[h].child \in Tracked THEN "none" ELSE proc[h].child)
  BY <1>1 DEF Procs, Child, Killed, Tracked
<1> QED  BY <1>2 DEF ProcKilled

USE DEF Waiting, Looking, Preparing, Running, Tracked

(***************************************************************************)
(* Steps of a launcher, of what it started, or against it.  AKeeps says    *)
(* that action A keeps the invariant.  A launcher's step changes one       *)
(* launcher, its script and the folder it is at, so LauncherStep leaves    *)
(* that launcher's and that folder's invariant to show; OpenFrame and      *)
(* OpenBefore settle the folder of another request and of one that the     *)
(* launcher has not started yet.                                           *)
(***************************************************************************)
\* What a step reports of a launcher does not change once its script is over.
Settled(g) ==
  proc[g].script = "exited" =>
    /\ host'[g].at = host[g].at /\ proc'[g].script = "exited" /\ proc'[g].by = proc[g].by
    /\ proc'[g].child \in {"none", proc[g].child}
    /\ (host[g].forced => host'[g].forced) /\ (host[g].pc = "closed" => host'[g].pc = "closed")

OnlyLauncher(h) == \A g \in Hosts : g # h => host'[g] = host[g] /\ proc'[g] = proc[g]

\* An open folder a launcher is not at keeps its invariant.
LEMMA OpenFrame ==
  ASSUME NEW r \in Requests, NEW h \in Hosts, OpenInv(r), dir'[r] = dir[r], OnlyLauncher(h),
         host[h].at # r, host'[h].at # r
  PROVE  OpenInv(r)'
BY DEF OpenInv, Owns, OnlyLauncher

\* So does the folder of a launcher that has started no script yet.
LEMMA OpenBefore ==
  ASSUME NEW r \in Requests, NEW h \in Hosts, OpenInv(r), dir'[r] = dir[r], OnlyLauncher(h),
         proc[h].script = "none", proc'[h].script = "none", host'[h].pc \notin {"loop", "drain"},
         host'[h].at = r /\ host'[h].pc \in Preparing => host[h].at = r /\ host[h].pc \in Preparing
  PROVE  OpenInv(r)'
BY DEF OpenInv, Owns, OnlyLauncher

\* A launcher's step keeps the invariant if it keeps its own part and its
\* folder's.
LEMMA LauncherStep ==
  ASSUME DesktopInv, NEW h \in Hosts, TypeInv', UNCHANGED step, OnlyLauncher(h), host[h].pc # "off",
         HostInv(h)', Settled(h),
         \A s \in Requests :
           /\ host[h].at # s /\ host'[h].at # s => dir'[s] = dir[s]
           /\ dir'[s].st = dir[s].st /\ dir[s].files \subseteq dir'[s].files
           /\ "heartbeat" \in dir'[s].files => "heartbeat" \in dir[s].files
           /\ dir[s].claim # Nobody => dir'[s].claim = dir[s].claim
           /\ (host[h].at = s \/ host'[h].at = s) /\ dir[s].st = "open" => OpenInv(s)'
  PROVE  DesktopInv'
<1>0. /\ \A g \in Hosts : HostInv(g)
      /\ \A s \in Requests : DirInv(s) /\ StepInv(s)
      /\ ReportIsTrue
      /\ \A s \in Requests : step[s].host \in Hosts \cup {Nobody}
      /\ \A g \in Hosts : host[g].at \in Requests \cup {Nobody} /\ host[g].todo \subseteq Requests
  BY DEF DesktopInv, TypeInv, Steps, Launchers
<1>1. \A g \in Hosts : HostInv(g)'
  BY <1>0 DEF HostInv, OnlyLauncher, Exists
<1>2. ASSUME NEW s \in Requests PROVE DirInv(s)'
  <2>1. dir[s].st = "open" => OpenInv(s)'
    BY <1>0, OpenFrame DEF DirInv
  <2> QED  BY <1>0, <2>1 DEF DirInv
<1>3. \A g \in Hosts : Settled(g)
  BY DEF Settled, OnlyLauncher
<1>4. ASSUME NEW s \in Requests PROVE StepInv(s)'
  <2>1. StepInv(s) /\ DirInv(s)
    BY <1>0
  <2>2. step[s].pc \in {"none", "submitted"} => host'[s].pc = "off"
    BY <2>1 DEF StepInv, OnlyLauncher
  <2>3. step[s].pc = "following" => "started" \in dir'[s].files /\ step[s].host = dir'[s].claim /\ step[s].seen
    BY <2>1 DEF StepInv, DirInv, OpenInv
  <2> QED  BY <1>0, <1>3, <2>1, <2>2, <2>3 DEF StepInv, Settled
<1>5. ReportIsTrue'
  BY <1>0, <1>3 DEF ReportIsTrue, StepInv, Settled
<1> QED  BY <1>1, <1>2, <1>4, <1>5 DEF DesktopInv

\* The launcher lists the spool, once.
LEMMA ListSpoolKeeps ==
  ASSUME DesktopInv, NEW h \in Hosts, ListSpool(h)
  PROVE  DesktopInv'
<1>0. /\ step \in [Requests -> Steps] /\ dir \in [Requests -> Dirs] /\ host \in [Hosts -> Launchers]
      /\ proc \in [Hosts -> Procs] /\ faults \in 0..MaxFaults
      /\ \A g \in Hosts : HostInv(g)
      /\ \A s \in Requests : DirInv(s)
  BY DEF DesktopInv, TypeInv
<1>a. /\ host[h].pc \in {"claim", "prepare", "hash", "popen", "loop", "drain"} => host[h].at \in Requests
      /\ host[h].at \in Requests \cup {Nobody} /\ host[h].todo \subseteq Requests
  BY <1>0 DEF HostInv, Launchers
<1>b. ASSUME NEW todo \in SUBSET Requests PROVE [host[h] EXCEPT !.pc = "scan", !.todo = todo] \in Launchers
  <2>1. host[h] \in Launchers
    BY <1>0
  <2> QED  BY <2>1 DEF Launchers
<1>1. /\ host[h].pc = "queued"
      /\ host' \in [Hosts -> Launchers]
      /\ host'[h].pc = "scan" /\ host'[h].at = host[h].at /\ host'[h].todo = {r \in Requests : Exists(r)}
      /\ \A g \in Hosts : g # h => host'[g] = host[g]
      /\ UNCHANGED <<step, dir, clock, proc, faults>>
  BY <1>0, <1>a, <1>b DEF ListSpool, Launchers
<1>2. TypeInv'
  BY <1>1 DEF DesktopInv, TypeInv
<1>3. OnlyLauncher(h) /\ host[h].pc # "off"
  BY <1>0, <1>1 DEF OnlyLauncher, HostInv, NoProc
<1>4. \A s \in Requests :
        /\ host[h].at # s /\ host'[h].at # s => dir'[s] = dir[s]
        /\ dir'[s].st = dir[s].st /\ dir[s].files \subseteq dir'[s].files
        /\ "heartbeat" \in dir'[s].files => "heartbeat" \in dir[s].files
        /\ dir[s].claim # Nobody => dir'[s].claim = dir[s].claim
  BY <1>0, <1>1, <1>a DEF HostInv, Exists
<1>5. HostInv(h)'
  BY <1>0, <1>a, <1>1, <1>4 DEF HostInv, Exists, NoProc
<1>6. Settled(h)
  BY <1>0, <1>1 DEF Settled, HostInv, NoProc
<1>7. ASSUME NEW s \in Requests, host[h].at = s \/ host'[h].at = s, dir[s].st = "open" PROVE OpenInv(s)'
  BY <1>0, <1>1, <1>3, <1>7, OpenBefore DEF HostInv, DirInv, NoProc
<1> QED  BY <1>1, <1>2, <1>3, <1>4, <1>5, <1>6, <1>7, LauncherStep

\* The launcher finds nothing left to claim and exits.
LEMMA NothingLeftKeeps ==
  ASSUME DesktopInv, NEW h \in Hosts, NothingLeft(h)
  PROVE  DesktopInv'
<1>0. /\ step \in [Requests -> Steps] /\ dir \in [Requests -> Dirs] /\ host \in [Hosts -> Launchers]
      /\ proc \in [Hosts -> Procs] /\ faults \in 0..MaxFaults
      /\ \A g \in Hosts : HostInv(g)
      /\ \A s \in Requests : DirInv(s)
  BY DEF DesktopInv, TypeInv
<1>a. /\ host[h].pc \in {"claim", "prepare", "hash", "popen", "loop", "drain"} => host[h].at \in Requests
      /\ host[h].at \in Requests \cup {Nobody} /\ host[h].todo \subseteq Requests
  BY <1>0 DEF HostInv, Launchers
<1>1. /\ host[h].pc = "scan"
      /\ host' \in [Hosts -> Launchers] /\ HostGoes(h, "done")
      /\ UNCHANGED <<step, dir, clock, proc, faults>>
  BY <1>0, <1>a, HostGoing DEF NothingLeft
<1>2. TypeInv'
  BY <1>1 DEF DesktopInv, TypeInv
<1>3. OnlyLauncher(h) /\ host[h].pc # "off"
  BY <1>0, <1>1 DEF OnlyLauncher, HostInv, NoProc, HostGoes
<1>4. \A s \in Requests :
        /\ host[h].at # s /\ host'[h].at # s => dir'[s] = dir[s]
        /\ dir'[s].st = dir[s].st /\ dir[s].files \subseteq dir'[s].files
        /\ "heartbeat" \in dir'[s].files => "heartbeat" \in dir[s].files
        /\ dir[s].claim # Nobody => dir'[s].claim = dir[s].claim
  BY <1>0, <1>1, <1>a DEF HostInv, Exists, HostGoes
<1>5. HostInv(h)'
  BY <1>0, <1>a, <1>1, <1>4 DEF HostInv, Exists, NoProc, HostGoes
<1>6. Settled(h)
  BY <1>0, <1>1 DEF Settled, HostInv, NoProc, HostGoes
<1>7. ASSUME NEW s \in Requests, host[h].at = s \/ host'[h].at = s, dir[s].st = "open" PROVE OpenInv(s)'
  BY <1>0, <1>1, <1>3, <1>7, OpenBefore DEF HostInv, DirInv, NoProc, HostGoes
<1> QED  BY <1>1, <1>2, <1>3, <1>4, <1>5, <1>6, <1>7, LauncherStep

\* The launcher looks for a withdrawal before it starts anything.
LEMMA CheckWithdrawnKeeps ==
  ASSUME DesktopInv, NEW h \in Hosts, CheckWithdrawn(h)
  PROVE  DesktopInv'
<1>0. /\ step \in [Requests -> Steps] /\ dir \in [Requests -> Dirs] /\ host \in [Hosts -> Launchers]
      /\ proc \in [Hosts -> Procs] /\ faults \in 0..MaxFaults
      /\ \A g \in Hosts : HostInv(g)
      /\ \A s \in Requests : DirInv(s)
  BY DEF DesktopInv, TypeInv
<1>a. /\ host[h].pc \in {"claim", "prepare", "hash", "popen", "loop", "drain"} => host[h].at \in Requests
      /\ host[h].at \in Requests \cup {Nobody} /\ host[h].todo \subseteq Requests
  BY <1>0 DEF HostInv, Launchers
<1>1. /\ host[h].pc = "prepare"
      /\ host' \in [Hosts -> Launchers] /\ (HostGoes(h, "done") \/ HostGoes(h, "hash"))
      /\ UNCHANGED <<step, dir, clock, proc, faults>>
  BY <1>0, <1>a, HostGoing DEF CheckWithdrawn
<1>2. TypeInv'
  BY <1>1 DEF DesktopInv, TypeInv
<1>3. OnlyLauncher(h) /\ host[h].pc # "off"
  BY <1>0, <1>1 DEF OnlyLauncher, HostInv, NoProc, HostGoes
<1>4. \A s \in Requests :
        /\ host[h].at # s /\ host'[h].at # s => dir'[s] = dir[s]
        /\ dir'[s].st = dir[s].st /\ dir[s].files \subseteq dir'[s].files
        /\ "heartbeat" \in dir'[s].files => "heartbeat" \in dir[s].files
        /\ dir[s].claim # Nobody => dir'[s].claim = dir[s].claim
  BY <1>0, <1>1, <1>a DEF HostInv, Exists, HostGoes
<1>5. HostInv(h)'
  BY <1>0, <1>a, <1>1, <1>4 DEF HostInv, Exists, NoProc, HostGoes
<1>6. Settled(h)
  BY <1>0, <1>1 DEF Settled, HostInv, NoProc, HostGoes
<1>7. ASSUME NEW s \in Requests, host[h].at = s \/ host'[h].at = s, dir[s].st = "open" PROVE OpenInv(s)'
  BY <1>0, <1>1, <1>3, <1>7, OpenBefore DEF HostInv, DirInv, NoProc, HostGoes
<1> QED  BY <1>1, <1>2, <1>3, <1>4, <1>5, <1>6, <1>7, LauncherStep

\* The launcher says that the script has started.
LEMMA WriteStartedKeeps ==
  ASSUME DesktopInv, NEW h \in Hosts, WriteStarted(h)
  PROVE  DesktopInv'
<1>0. /\ step \in [Requests -> Steps] /\ dir \in [Requests -> Dirs] /\ host \in [Hosts -> Launchers]
      /\ proc \in [Hosts -> Procs] /\ faults \in 0..MaxFaults
      /\ \A g \in Hosts : HostInv(g)
      /\ \A s \in Requests : DirInv(s)
  BY DEF DesktopInv, TypeInv
<1>a. /\ host[h].pc \in {"claim", "prepare", "hash", "popen", "loop", "drain"} => host[h].at \in Requests
      /\ host[h].at \in Requests \cup {Nobody} /\ host[h].todo \subseteq Requests
  BY <1>0 DEF HostInv, Launchers
<1>1. /\ host[h].pc = "popen"
      /\ host' \in [Hosts -> Launchers] /\ HostGoes(h, "loop")
      /\ dir' \in [Requests -> Dirs] /\ DirGets(host[h].at, "started")
      /\ UNCHANGED <<step, clock, proc, faults>>
  BY <1>0, <1>a, HostGoing, Writing DEF WriteStarted, Files
<1>2. TypeInv'
  BY <1>1 DEF DesktopInv, TypeInv
<1>3. OnlyLauncher(h) /\ host[h].pc # "off"
  BY <1>0, <1>1 DEF OnlyLauncher, HostInv, NoProc, HostGoes, DirGets
<1>4. \A s \in Requests :
        /\ host[h].at # s /\ host'[h].at # s => dir'[s] = dir[s]
        /\ dir'[s].st = dir[s].st /\ dir[s].files \subseteq dir'[s].files
        /\ "heartbeat" \in dir'[s].files => "heartbeat" \in dir[s].files
        /\ dir[s].claim # Nobody => dir'[s].claim = dir[s].claim
  BY <1>0, <1>1, <1>a DEF HostInv, Exists, HostGoes, DirGets
<1>5. HostInv(h)'
  BY <1>0, <1>a, <1>1, <1>4 DEF HostInv, Exists, NoProc, HostGoes
<1>6. Settled(h)
  BY <1>0, <1>1 DEF Settled, HostInv, NoProc, HostGoes, DirGets
<1>7. ASSUME NEW s \in Requests, host[h].at = s \/ host'[h].at = s, dir[s].st = "open" PROVE OpenInv(s)'
  BY <1>0, <1>1, <1>3, <1>7 DEF HostInv, DirInv, OpenInv, Owns, NoProc, Exists, OnlyLauncher, HostGoes, DirGets
<1> QED  BY <1>1, <1>2, <1>3, <1>4, <1>5, <1>6, <1>7, LauncherStep

\* The launcher writes the result and is done.
LEMMA FinishKeeps ==
  ASSUME DesktopInv, NEW h \in Hosts, Finish(h)
  PROVE  DesktopInv'
<1>0. /\ step \in [Requests -> Steps] /\ dir \in [Requests -> Dirs] /\ host \in [Hosts -> Launchers]
      /\ proc \in [Hosts -> Procs] /\ faults \in 0..MaxFaults
      /\ \A g \in Hosts : HostInv(g)
      /\ \A s \in Requests : DirInv(s)
  BY DEF DesktopInv, TypeInv
<1>a. /\ host[h].pc \in {"claim", "prepare", "hash", "popen", "loop", "drain"} => host[h].at \in Requests
      /\ host[h].at \in Requests \cup {Nobody} /\ host[h].todo \subseteq Requests
  BY <1>0 DEF HostInv, Launchers
<1>1. /\ host[h].pc = "drain" /\ (proc[h].script = "running" \/ proc[h].child \in {"held", "hidden"} => host[h].forced)
      /\ host' \in [Hosts -> Launchers] /\ HostGoes(h, "done")
      /\ dir' \in [Requests -> Dirs] /\ DirGets(host[h].at, "done")
      /\ UNCHANGED <<step, clock, proc, faults>>
  BY <1>0, <1>a, HostGoing, Writing DEF Finish, Files, OutputHeld
<1>2. TypeInv'
  BY <1>1 DEF DesktopInv, TypeInv
<1>3. OnlyLauncher(h) /\ host[h].pc # "off"
  BY <1>0, <1>1 DEF OnlyLauncher, HostInv, NoProc, HostGoes, DirGets
<1>4. \A s \in Requests :
        /\ host[h].at # s /\ host'[h].at # s => dir'[s] = dir[s]
        /\ dir'[s].st = dir[s].st /\ dir[s].files \subseteq dir'[s].files
        /\ "heartbeat" \in dir'[s].files => "heartbeat" \in dir[s].files
        /\ dir[s].claim # Nobody => dir'[s].claim = dir[s].claim
  BY <1>0, <1>1, <1>a DEF HostInv, Exists, HostGoes, DirGets
<1>5. HostInv(h)'
  BY <1>0, <1>a, <1>1, <1>4 DEF HostInv, Exists, NoProc, HostGoes
<1>6. Settled(h)
  BY <1>0, <1>1 DEF Settled, HostInv, NoProc, HostGoes, DirGets
<1>7. ASSUME NEW s \in Requests, host[h].at = s \/ host'[h].at = s, dir[s].st = "open" PROVE OpenInv(s)'
  BY <1>0, <1>1, <1>3, <1>7 DEF HostInv, DirInv, OpenInv, Owns, NoProc, Exists, OnlyLauncher, HostGoes, DirGets
<1> QED  BY <1>1, <1>2, <1>3, <1>4, <1>5, <1>6, <1>7, LauncherStep

\* The script starts a process beside itself.
LEMMA SpawnKeeps ==
  ASSUME DesktopInv, NEW h \in Hosts, Spawn(h)
  PROVE  DesktopInv'
<1>0. /\ step \in [Requests -> Steps] /\ dir \in [Requests -> Dirs] /\ host \in [Hosts -> Launchers]
      /\ proc \in [Hosts -> Procs] /\ faults \in 0..MaxFaults
      /\ \A g \in Hosts : HostInv(g)
      /\ \A s \in Requests : DirInv(s)
  BY DEF DesktopInv, TypeInv
<1>a. /\ host[h].pc \in {"claim", "prepare", "hash", "popen", "loop", "drain"} => host[h].at \in Requests
      /\ host[h].at \in Requests \cup {Nobody} /\ host[h].todo \subseteq Requests
  BY <1>0 DEF HostInv, Launchers
<1>1. /\ proc[h].script = "running"
      /\ proc' \in [Hosts -> Procs]
      /\ proc'[h].script = proc[h].script /\ proc'[h].by = proc[h].by
      /\ \A g \in Hosts : g # h => proc'[g] = proc[g]
      /\ UNCHANGED <<step, dir, clock, host, faults>>
  BY <1>0, <1>a DEF Spawn, Procs, Child
<1>2. TypeInv'
  BY <1>1 DEF DesktopInv, TypeInv
<1>3. OnlyLauncher(h) /\ host[h].pc # "off"
  BY <1>0, <1>1 DEF OnlyLauncher, HostInv, NoProc
<1>4. \A s \in Requests :
        /\ host[h].at # s /\ host'[h].at # s => dir'[s] = dir[s]
        /\ dir'[s].st = dir[s].st /\ dir[s].files \subseteq dir'[s].files
        /\ "heartbeat" \in dir'[s].files => "heartbeat" \in dir[s].files
        /\ dir[s].claim # Nobody => dir'[s].claim = dir[s].claim
  BY <1>0, <1>1, <1>a DEF HostInv, Exists
<1>5. HostInv(h)'
  BY <1>0, <1>a, <1>1, <1>4 DEF HostInv, Exists, NoProc
<1>6. Settled(h)
  BY <1>0, <1>1 DEF Settled, HostInv, NoProc
<1>7. ASSUME NEW s \in Requests, host[h].at = s \/ host'[h].at = s, dir[s].st = "open" PROVE OpenInv(s)'
  BY <1>0, <1>1, <1>3, <1>7 DEF HostInv, DirInv, OpenInv, Owns, NoProc, Exists, OnlyLauncher
<1> QED  BY <1>1, <1>2, <1>3, <1>4, <1>5, <1>6, <1>7, LauncherStep

\* The script exits by itself.
LEMMA ExitKeeps ==
  ASSUME DesktopInv, NEW h \in Hosts, Exit(h)
  PROVE  DesktopInv'
<1>0. /\ step \in [Requests -> Steps] /\ dir \in [Requests -> Dirs] /\ host \in [Hosts -> Launchers]
      /\ proc \in [Hosts -> Procs] /\ faults \in 0..MaxFaults
      /\ \A g \in Hosts : HostInv(g)
      /\ \A s \in Requests : DirInv(s)
  BY DEF DesktopInv, TypeInv
<1>a. /\ host[h].pc \in {"claim", "prepare", "hash", "popen", "loop", "drain"} => host[h].at \in Requests
      /\ host[h].at \in Requests \cup {Nobody} /\ host[h].todo \subseteq Requests
  BY <1>0 DEF HostInv, Launchers
<1>b. ASSUME NEW p \in {"ok", "failed"} PROVE [proc[h] EXCEPT !.script = "exited", !.by = p] \in Procs
  <2>1. proc[h] \in Procs
    BY <1>0
  <2> QED  BY <2>1 DEF Procs
<1>c. PICK by \in {"ok", "failed"} : proc' = [proc EXCEPT ![h] = [proc[h] EXCEPT !.script = "exited", !.by = by]]
  BY DEF Exit
<1>d. [proc[h] EXCEPT !.script = "exited", !.by = by] \in Procs
  BY <1>b
<1>1. /\ proc[h].script = "running"
      /\ proc' \in [Hosts -> Procs]
      /\ proc'[h].script = "exited" /\ proc'[h].child = proc[h].child /\ proc'[h].by \in {"ok", "failed"}
      /\ \A g \in Hosts : g # h => proc'[g] = proc[g]
      /\ UNCHANGED <<step, dir, clock, host, faults>>
  BY <1>0, <1>a, <1>c, <1>d DEF Exit, Procs
<1>2. TypeInv'
  BY <1>1 DEF DesktopInv, TypeInv
<1>3. OnlyLauncher(h) /\ host[h].pc # "off"
  BY <1>0, <1>1 DEF OnlyLauncher, HostInv, NoProc
<1>4. \A s \in Requests :
        /\ host[h].at # s /\ host'[h].at # s => dir'[s] = dir[s]
        /\ dir'[s].st = dir[s].st /\ dir[s].files \subseteq dir'[s].files
        /\ "heartbeat" \in dir'[s].files => "heartbeat" \in dir[s].files
        /\ dir[s].claim # Nobody => dir'[s].claim = dir[s].claim
  BY <1>0, <1>1, <1>a DEF HostInv, Exists
<1>5. HostInv(h)'
  BY <1>0, <1>a, <1>1, <1>4 DEF HostInv, Exists, NoProc
<1>6. Settled(h)
  BY <1>0, <1>1 DEF Settled, HostInv, NoProc
<1>7. ASSUME NEW s \in Requests, host[h].at = s \/ host'[h].at = s, dir[s].st = "open" PROVE OpenInv(s)'
  BY <1>0, <1>1, <1>3, <1>7 DEF HostInv, DirInv, OpenInv, Owns, NoProc, Exists, OnlyLauncher
<1> QED  BY <1>1, <1>2, <1>3, <1>4, <1>5, <1>6, <1>7, LauncherStep

\* The process the script started exits.
LEMMA ChildExitsKeeps ==
  ASSUME DesktopInv, NEW h \in Hosts, ChildExits(h)
  PROVE  DesktopInv'
<1>0. /\ step \in [Requests -> Steps] /\ dir \in [Requests -> Dirs] /\ host \in [Hosts -> Launchers]
      /\ proc \in [Hosts -> Procs] /\ faults \in 0..MaxFaults
      /\ \A g \in Hosts : HostInv(g)
      /\ \A s \in Requests : DirInv(s)
  BY DEF DesktopInv, TypeInv
<1>a. /\ host[h].pc \in {"claim", "prepare", "hash", "popen", "loop", "drain"} => host[h].at \in Requests
      /\ host[h].at \in Requests \cup {Nobody} /\ host[h].todo \subseteq Requests
  BY <1>0 DEF HostInv, Launchers
<1>1. /\ proc[h].child # "none"
      /\ proc' \in [Hosts -> Procs]
      /\ proc'[h].script = proc[h].script /\ proc'[h].by = proc[h].by /\ proc'[h].child = "none"
      /\ \A g \in Hosts : g # h => proc'[g] = proc[g]
      /\ UNCHANGED <<step, dir, clock, host, faults>>
  BY <1>0, <1>a DEF ChildExits, Procs, Child
<1>2. TypeInv'
  BY <1>1 DEF DesktopInv, TypeInv
<1>3. OnlyLauncher(h) /\ host[h].pc # "off"
  BY <1>0, <1>1 DEF OnlyLauncher, HostInv, NoProc
<1>4. \A s \in Requests :
        /\ host[h].at # s /\ host'[h].at # s => dir'[s] = dir[s]
        /\ dir'[s].st = dir[s].st /\ dir[s].files \subseteq dir'[s].files
        /\ "heartbeat" \in dir'[s].files => "heartbeat" \in dir[s].files
        /\ dir[s].claim # Nobody => dir'[s].claim = dir[s].claim
  BY <1>0, <1>1, <1>a DEF HostInv, Exists
<1>5. HostInv(h)'
  BY <1>0, <1>a, <1>1, <1>4 DEF HostInv, Exists, NoProc
<1>6. Settled(h)
  BY <1>0, <1>1 DEF Settled, HostInv, NoProc
<1>7. ASSUME NEW s \in Requests, host[h].at = s \/ host'[h].at = s, dir[s].st = "open" PROVE OpenInv(s)'
  BY <1>0, <1>1, <1>3, <1>7 DEF HostInv, DirInv, OpenInv, Owns, NoProc, Exists, OnlyLauncher
<1> QED  BY <1>1, <1>2, <1>3, <1>4, <1>5, <1>6, <1>7, LauncherStep

\* Somebody closes the launcher.
LEMMA CloseLauncherKeeps ==
  ASSUME DesktopInv, NEW h \in Hosts, CloseLauncher(h)
  PROVE  DesktopInv'
<1>0. /\ step \in [Requests -> Steps] /\ dir \in [Requests -> Dirs] /\ host \in [Hosts -> Launchers]
      /\ proc \in [Hosts -> Procs] /\ faults \in 0..MaxFaults
      /\ \A g \in Hosts : HostInv(g)
      /\ \A s \in Requests : DirInv(s)
  BY DEF DesktopInv, TypeInv
<1>a. /\ host[h].pc \in {"claim", "prepare", "hash", "popen", "loop", "drain"} => host[h].at \in Requests
      /\ host[h].at \in Requests \cup {Nobody} /\ host[h].todo \subseteq Requests
  BY <1>0 DEF HostInv, Launchers
<1>1. /\ host[h].pc \in Looking \cup Preparing \cup Running
      /\ host' \in [Hosts -> Launchers] /\ HostGoes(h, "closed")
      /\ UNCHANGED <<step, dir, clock, proc>> /\ faults' \in 0..MaxFaults
  BY <1>0, <1>a, HostGoing DEF CloseLauncher, Fault
<1>2. TypeInv'
  BY <1>1 DEF DesktopInv, TypeInv
<1>3. OnlyLauncher(h) /\ host[h].pc # "off"
  BY <1>0, <1>1 DEF OnlyLauncher, HostInv, NoProc, HostGoes
<1>4. \A s \in Requests :
        /\ host[h].at # s /\ host'[h].at # s => dir'[s] = dir[s]
        /\ dir'[s].st = dir[s].st /\ dir[s].files \subseteq dir'[s].files
        /\ "heartbeat" \in dir'[s].files => "heartbeat" \in dir[s].files
        /\ dir[s].claim # Nobody => dir'[s].claim = dir[s].claim
  BY <1>0, <1>1, <1>a DEF HostInv, Exists, HostGoes
<1>5. HostInv(h)'
  BY <1>0, <1>a, <1>1, <1>4 DEF HostInv, Exists, NoProc, HostGoes
<1>6. Settled(h)
  BY <1>0, <1>1 DEF Settled, HostInv, NoProc, HostGoes
<1>7. ASSUME NEW s \in Requests, host[h].at = s \/ host'[h].at = s, dir[s].st = "open" PROVE OpenInv(s)'
  <2>1. CASE host[h].pc \in Running
    BY <1>0, <1>1, <1>3, <1>7, <2>1 DEF HostInv, DirInv, OpenInv, Owns, NoProc, Exists, OnlyLauncher, HostGoes
  <2>2. CASE host[h].pc \in Looking \cup Preparing
    BY <1>0, <1>1, <1>3, <1>7, <2>2, OpenBefore DEF HostInv, DirInv, NoProc, HostGoes
  <2> QED  BY <1>1, <2>1, <2>2
<1> QED  BY <1>1, <1>2, <1>3, <1>4, <1>5, <1>6, <1>7, LauncherStep

\* The launcher ends what holds the output beyond the limits.
LEMMA EndOutputKeeps ==
  ASSUME DesktopInv, NEW h \in Hosts, EndOutput(h)
  PROVE  DesktopInv'
<1>0. /\ step \in [Requests -> Steps] /\ dir \in [Requests -> Dirs] /\ host \in [Hosts -> Launchers]
      /\ proc \in [Hosts -> Procs] /\ faults \in 0..MaxFaults
      /\ \A g \in Hosts : HostInv(g)
      /\ \A s \in Requests : DirInv(s)
  BY DEF DesktopInv, TypeInv
<1>a. /\ host[h].pc \in {"claim", "prepare", "hash", "popen", "loop", "drain"} => host[h].at \in Requests
      /\ host[h].at \in Requests \cup {Nobody} /\ host[h].todo \subseteq Requests
  BY <1>0 DEF HostInv, Launchers
<1>b. [host[h] EXCEPT !.forced = TRUE] \in Launchers
  <2>1. host[h] \in Launchers
    BY <1>0
  <2> QED  BY <2>1 DEF Launchers
<1>1. /\ host[h].pc = "drain"
      /\ proc' \in [Hosts -> Procs] /\ ProcKilled(h)
      /\ host' \in [Hosts -> Launchers]
      /\ host'[h].pc = host[h].pc /\ host'[h].at = host[h].at /\ host'[h].todo = host[h].todo /\ host'[h].forced
      /\ \A g \in Hosts : g # h => host'[g] = host[g]
      /\ UNCHANGED <<step, dir, clock, faults>>
  BY <1>0, <1>a, <1>b, Killing DEF EndOutput, Launchers
<1>2. TypeInv'
  BY <1>1 DEF DesktopInv, TypeInv
<1>3. OnlyLauncher(h) /\ host[h].pc # "off"
  BY <1>0, <1>1 DEF OnlyLauncher, HostInv, NoProc, ProcKilled
<1>4. \A s \in Requests :
        /\ host[h].at # s /\ host'[h].at # s => dir'[s] = dir[s]
        /\ dir'[s].st = dir[s].st /\ dir[s].files \subseteq dir'[s].files
        /\ "heartbeat" \in dir'[s].files => "heartbeat" \in dir[s].files
        /\ dir[s].claim # Nobody => dir'[s].claim = dir[s].claim
  BY <1>0, <1>1, <1>a DEF HostInv, Exists, ProcKilled
<1>5. HostInv(h)'
  BY <1>0, <1>a, <1>1, <1>4 DEF HostInv, Exists, NoProc, ProcKilled
<1>6. Settled(h)
  BY <1>0, <1>1 DEF Settled, HostInv, NoProc, ProcKilled
<1>7. ASSUME NEW s \in Requests, host[h].at = s \/ host'[h].at = s, dir[s].st = "open" PROVE OpenInv(s)'
  BY <1>0, <1>1, <1>3, <1>7 DEF HostInv, DirInv, OpenInv, Owns, NoProc, Exists, OnlyLauncher, ProcKilled
<1> QED  BY <1>1, <1>2, <1>3, <1>4, <1>5, <1>6, <1>7, LauncherStep

\* The launcher opens a request that it listed.
LEMMA InspectKeeps ==
  ASSUME DesktopInv, NEW h \in Hosts, Inspect(h)
  PROVE  DesktopInv'
<1>0. /\ step \in [Requests -> Steps] /\ dir \in [Requests -> Dirs] /\ host \in [Hosts -> Launchers]
      /\ proc \in [Hosts -> Procs] /\ faults \in 0..MaxFaults
      /\ \A g \in Hosts : HostInv(g)
      /\ \A s \in Requests : DirInv(s)
  BY DEF DesktopInv, TypeInv
<1>a. /\ host[h].pc \in {"claim", "prepare", "hash", "popen", "loop", "drain"} => host[h].at \in Requests
      /\ host[h].at \in Requests \cup {Nobody} /\ host[h].todo \subseteq Requests
  BY <1>0 DEF HostInv, Launchers
<1>b. ASSUME NEW r \in Requests PROVE /\ [host[h] EXCEPT !.pc = "claim", !.at = r] \in Launchers
                               /\ [host[h] EXCEPT !.todo = host[h].todo \ {r}] \in Launchers
  <2>1. host[h] \in Launchers
    BY <1>0
  <2> QED  BY <2>1 DEF Launchers
<1>c. PICK r \in host[h].todo :
        \/ host' = [host EXCEPT ![h] = [host[h] EXCEPT !.pc = "claim", !.at = r]]
        \/ host' = [host EXCEPT ![h] = [host[h] EXCEPT !.todo = host[h].todo \ {r}]]
  BY DEF Inspect
<1>d. r \in Requests
  BY <1>a
<1>1. /\ host[h].pc = "scan"
      /\ host' \in [Hosts -> Launchers]
      /\ \/ host'[h].pc = "scan" /\ host'[h].at = host[h].at
         \/ host'[h].pc = "claim" /\ host'[h].at \in host[h].todo
      /\ host'[h].todo \subseteq host[h].todo
      /\ \A g \in Hosts : g # h => host'[g] = host[g]
      /\ UNCHANGED <<step, dir, clock, proc, faults>>
  <2>0. host[h] \in Launchers /\ host[h].pc = "scan" /\ UNCHANGED <<step, dir, clock, proc, faults>>
    BY <1>0 DEF Inspect
  <2>1. CASE host' = [host EXCEPT ![h] = [host[h] EXCEPT !.pc = "claim", !.at = r]]
    <3> DEFINE row == [host[h] EXCEPT !.pc = "claim", !.at = r]
    <3>1. row \in Launchers /\ row.pc = "claim" /\ row.at = r /\ row.todo = host[h].todo
      BY <1>b, <1>d, <2>0 DEF Launchers
    <3> HIDE DEF row
    <3> QED  BY <1>0, <2>0, <2>1, <3>1, HostRow DEF row
  <2>2. CASE host' = [host EXCEPT ![h] = [host[h] EXCEPT !.todo = host[h].todo \ {r}]]
    <3> DEFINE row == [host[h] EXCEPT !.todo = host[h].todo \ {r}]
    <3>1. row \in Launchers /\ row.pc = "scan" /\ row.at = host[h].at /\ row.todo = host[h].todo \ {r}
      BY <1>b, <1>d, <2>0 DEF Launchers
    <3> HIDE DEF row
    <3> QED  BY <1>0, <2>0, <2>2, <3>1, HostRow DEF row
  <2> QED  BY <1>c, <2>1, <2>2
<1>2. TypeInv'
  BY <1>1 DEF DesktopInv, TypeInv
<1>3. OnlyLauncher(h) /\ host[h].pc # "off"
  BY <1>0, <1>1 DEF OnlyLauncher, HostInv, NoProc
<1>4. \A s \in Requests :
        /\ host[h].at # s /\ host'[h].at # s => dir'[s] = dir[s]
        /\ dir'[s].st = dir[s].st /\ dir[s].files \subseteq dir'[s].files
        /\ "heartbeat" \in dir'[s].files => "heartbeat" \in dir[s].files
        /\ dir[s].claim # Nobody => dir'[s].claim = dir[s].claim
  BY <1>0, <1>1, <1>a DEF HostInv, Exists
<1>5. HostInv(h)'
  BY <1>0, <1>a, <1>1, <1>4 DEF HostInv, Exists, NoProc
<1>6. Settled(h)
  BY <1>0, <1>1 DEF Settled, HostInv, NoProc
<1>7. ASSUME NEW s \in Requests, host[h].at = s \/ host'[h].at = s, dir[s].st = "open" PROVE OpenInv(s)'
  BY <1>0, <1>1, <1>3, <1>7, OpenBefore DEF HostInv, DirInv, NoProc
<1> QED  BY <1>1, <1>2, <1>3, <1>4, <1>5, <1>6, <1>7, LauncherStep

\* The launcher starts the script of the request it claimed.
LEMMA StartScriptKeeps ==
  ASSUME DesktopInv, NEW h \in Hosts, StartScript(h)
  PROVE  DesktopInv'
<1>0. /\ step \in [Requests -> Steps] /\ dir \in [Requests -> Dirs] /\ host \in [Hosts -> Launchers]
      /\ proc \in [Hosts -> Procs] /\ faults \in 0..MaxFaults
      /\ \A g \in Hosts : HostInv(g)
      /\ \A s \in Requests : DirInv(s)
  BY DEF DesktopInv, TypeInv
<1>a. /\ host[h].pc \in {"claim", "prepare", "hash", "popen", "loop", "drain"} => host[h].at \in Requests
      /\ host[h].at \in Requests \cup {Nobody} /\ host[h].todo \subseteq Requests
  BY <1>0 DEF HostInv, Launchers
<1>1. /\ host[h].pc = "hash"
      /\ host' \in [Hosts -> Launchers]
      /\ proc' \in [Hosts -> Procs]
      /\ dir' \in [Requests -> Dirs]
      /\ \A g \in Hosts : g # h => proc'[g] = proc[g]
      /\ \/ /\ Exists(host[h].at) /\ HostGoes(h, "popen") /\ dir' = dir
            /\ proc'[h].script = "running" /\ proc'[h].by = proc[h].by /\ proc'[h].child = proc[h].child
         \/ HostGoes(h, "done") /\ DirGets(host[h].at, "result") /\ proc' = proc
      /\ UNCHANGED <<step, clock, faults>>
  BY <1>0, <1>a, HostGoing, Writing DEF StartScript, Files, Procs
<1>2. TypeInv'
  BY <1>1 DEF DesktopInv, TypeInv
<1>3. OnlyLauncher(h) /\ host[h].pc # "off"
  BY <1>0, <1>1 DEF OnlyLauncher, HostInv, NoProc, HostGoes, DirGets
<1>4. \A s \in Requests :
        /\ host[h].at # s /\ host'[h].at # s => dir'[s] = dir[s]
        /\ dir'[s].st = dir[s].st /\ dir[s].files \subseteq dir'[s].files
        /\ "heartbeat" \in dir'[s].files => "heartbeat" \in dir[s].files
        /\ dir[s].claim # Nobody => dir'[s].claim = dir[s].claim
  BY <1>0, <1>1, <1>a DEF HostInv, Exists, HostGoes, DirGets
<1>5. HostInv(h)'
  <2>0. /\ HostInv(h) /\ host[h].at \in Requests /\ proc[h] = NoProc
        /\ host'[h].at = host[h].at /\ host'[h].todo = host[h].todo
    BY <1>0, <1>1, <1>a DEF HostInv, HostGoes
  <2>1. CASE HostGoes(h, "popen") /\ Exists(host[h].at) /\ dir' = dir
    <3>1. proc'[h].script = "running" /\ proc'[h].by = "none" /\ host'[h].pc = "popen"
      BY <1>1, <2>0, <2>1 DEF NoProc, HostGoes
    <3> QED  BY <2>0, <2>1, <3>1 DEF HostInv, Exists
  <2>2. CASE HostGoes(h, "done") /\ DirGets(host[h].at, "result") /\ proc' = proc
    <3>1. host'[h].pc = "done" /\ proc'[h] = NoProc
      BY <2>0, <2>2 DEF HostGoes
    <3>2. proc'[h].script = "none" /\ proc'[h].child = "none"
      BY <3>1 DEF NoProc
    <3> QED  BY <1>a, <2>0, <3>1, <3>2, <1>4 DEF HostInv
  <2> QED  BY <1>1, <2>1, <2>2
<1>6. Settled(h)
  BY <1>0, <1>1 DEF Settled, HostInv, NoProc, HostGoes, DirGets
<1>7. ASSUME NEW s \in Requests, host[h].at = s \/ host'[h].at = s, dir[s].st = "open" PROVE OpenInv(s)'
  BY <1>0, <1>1, <1>3, <1>7 DEF HostInv, DirInv, OpenInv, Owns, NoProc, Exists, OnlyLauncher, HostGoes, DirGets
<1> QED  BY <1>1, <1>2, <1>3, <1>4, <1>5, <1>6, <1>7, LauncherStep

\* The launcher creates the claim, or finds that another has.
LEMMA TakeClaimKeeps ==
  ASSUME DesktopInv, NEW h \in Hosts, TakeClaim(h)
  PROVE  DesktopInv'
<1>0. /\ step \in [Requests -> Steps] /\ dir \in [Requests -> Dirs] /\ host \in [Hosts -> Launchers]
      /\ proc \in [Hosts -> Procs] /\ faults \in 0..MaxFaults
      /\ \A g \in Hosts : HostInv(g)
      /\ \A s \in Requests : DirInv(s)
  BY DEF DesktopInv, TypeInv
<1>a. /\ host[h].pc \in {"claim", "prepare", "hash", "popen", "loop", "drain"} => host[h].at \in Requests
      /\ host[h].at \in Requests \cup {Nobody} /\ host[h].todo \subseteq Requests
  BY <1>0 DEF HostInv, Launchers
<1>b. ASSUME NEW r PROVE [host[h] EXCEPT !.pc = "scan", !.at = Nobody, !.todo = host[h].todo \ {r}] \in Launchers
  <2>1. host[h] \in Launchers
    BY <1>0
  <2> QED  BY <2>1 DEF Launchers
<1>1. /\ host[h].pc = "claim"
      /\ host' \in [Hosts -> Launchers]
      /\ dir' \in [Requests -> Dirs]
      /\ \A g \in Hosts : g # h => host'[g] = host[g]
      /\ host'[h].todo \subseteq host[h].todo
      /\ \/ /\ Exists(host[h].at) /\ dir[host[h].at].claim = Nobody /\ DirClaimed(host[h].at, h)
            /\ host'[h].pc = "prepare" /\ host'[h].at = host[h].at
         \/ host'[h].pc = "scan" /\ host'[h].at = Nobody /\ dir' = dir
      /\ UNCHANGED <<step, clock, proc, faults>>
  <2>0. /\ host[h] \in Launchers /\ host[h].pc = "claim" /\ host[h].at \in Requests
        /\ UNCHANGED <<step, clock, proc, faults>>
    BY <1>0, <1>a DEF TakeClaim
  <2>1. CASE Exists(host[h].at) /\ dir[host[h].at].claim = Nobody
    <3>1. dir' = [dir EXCEPT ![host[h].at].claim = h] /\ Goes(h, "prepare")
      BY <2>1 DEF TakeClaim
    <3> QED  BY <1>0, <2>0, <2>1, <3>1, Claiming, HostGoing DEF HostGoes
  <2>2. CASE ~(Exists(host[h].at) /\ dir[host[h].at].claim = Nobody)
    <3> DEFINE row == [host[h] EXCEPT !.pc = "scan", !.at = Nobody, !.todo = host[h].todo \ {host[h].at}]
    <3>1. host' = [host EXCEPT ![h] = row] /\ dir' = dir
      BY <2>2 DEF TakeClaim
    <3>2. row \in Launchers /\ row.pc = "scan" /\ row.at = Nobody /\ row.todo = host[h].todo \ {host[h].at}
      BY <1>b, <2>0 DEF Launchers
    <3> HIDE DEF row
    <3> QED  BY <1>0, <2>0, <3>1, <3>2, HostRow
  <2> QED  BY <2>1, <2>2
<1>2. TypeInv'
  BY <1>1 DEF DesktopInv, TypeInv
<1>3. OnlyLauncher(h) /\ host[h].pc # "off"
  BY <1>0, <1>1 DEF OnlyLauncher, HostInv, NoProc, DirClaimed
<1>4. \A s \in Requests :
        /\ host[h].at # s /\ host'[h].at # s => dir'[s] = dir[s]
        /\ dir'[s].st = dir[s].st /\ dir[s].files \subseteq dir'[s].files
        /\ "heartbeat" \in dir'[s].files => "heartbeat" \in dir[s].files
        /\ dir[s].claim # Nobody => dir'[s].claim = dir[s].claim
  BY <1>0, <1>1, <1>a DEF HostInv, Exists, DirClaimed
<1>5. HostInv(h)'
  BY <1>0, <1>a, <1>1, <1>4 DEF HostInv, Exists, NoProc, DirClaimed
<1>6. Settled(h)
  BY <1>0, <1>1 DEF Settled, HostInv, NoProc, DirClaimed
<1>7. ASSUME NEW s \in Requests, host[h].at = s \/ host'[h].at = s, dir[s].st = "open" PROVE OpenInv(s)'
  <2>1. proc[h] = NoProc /\ proc'[h] = NoProc
    BY <1>0, <1>1 DEF HostInv
  <2>2. OpenInv(s)
    BY <1>0, <1>7 DEF DirInv
  <2>3. CASE host'[h].pc = "scan" /\ host'[h].at = Nobody /\ dir' = dir
    BY <1>3, <2>1, <2>2, <2>3, OpenBefore DEF NoProc
  <2>4. CASE dir[s].claim = Nobody /\ DirClaimed(s, h) /\ host'[h].pc = "prepare" /\ host'[h].at = s
    BY <1>1, <1>3, <2>1, <2>2, <2>4 DEF OpenInv, Owns, NoProc, OnlyLauncher, DirClaimed
  <2> QED  BY <1>1, <1>7, <2>3, <2>4
<1> QED  BY <1>1, <1>2, <1>3, <1>4, <1>5, <1>6, <1>7, LauncherStep

\* The launcher sees that the script has exited.
LEMMA SeeExitKeeps ==
  ASSUME DesktopInv, NEW h \in Hosts, SeeExit(h)
  PROVE  DesktopInv'
<1>0. /\ step \in [Requests -> Steps] /\ dir \in [Requests -> Dirs] /\ host \in [Hosts -> Launchers]
      /\ proc \in [Hosts -> Procs] /\ faults \in 0..MaxFaults
      /\ \A g \in Hosts : HostInv(g)
      /\ \A s \in Requests : DirInv(s)
  BY DEF DesktopInv, TypeInv
<1>a. /\ host[h].pc \in {"claim", "prepare", "hash", "popen", "loop", "drain"} => host[h].at \in Requests
      /\ host[h].at \in Requests \cup {Nobody} /\ host[h].todo \subseteq Requests
  BY <1>0 DEF HostInv, Launchers
<1>1. /\ host[h].pc = "loop" /\ proc[h].script = "exited"
      /\ host' \in [Hosts -> Launchers] /\ HostGoes(h, "drain")
      /\ dir' \in [Requests -> Dirs] /\ DirExits(h, proc[h].by)
      /\ UNCHANGED <<step, clock, proc, faults>>
  BY <1>0, <1>a, HostGoing, Exiting DEF SeeExit, Procs
<1>2. TypeInv'
  BY <1>1 DEF DesktopInv, TypeInv
<1>3. OnlyLauncher(h) /\ host[h].pc # "off"
  BY <1>0, <1>1 DEF OnlyLauncher, HostInv, NoProc, HostGoes, DirExits
<1>4. \A s \in Requests :
        /\ host[h].at # s /\ host'[h].at # s => dir'[s] = dir[s]
        /\ dir'[s].st = dir[s].st /\ dir[s].files \subseteq dir'[s].files
        /\ "heartbeat" \in dir'[s].files => "heartbeat" \in dir[s].files
        /\ dir[s].claim # Nobody => dir'[s].claim = dir[s].claim
  BY <1>0, <1>1, <1>a DEF HostInv, Exists, HostGoes, DirExits
<1>5. HostInv(h)'
  BY <1>0, <1>a, <1>1, <1>4 DEF HostInv, Exists, NoProc, HostGoes, DirExits
<1>6. Settled(h)
  BY <1>0, <1>1 DEF Settled, HostInv, NoProc, HostGoes, DirExits
<1>7. ASSUME NEW s \in Requests, host[h].at = s \/ host'[h].at = s, dir[s].st = "open" PROVE OpenInv(s)'
  BY <1>0, <1>1, <1>3, <1>7 DEF HostInv, DirInv, OpenInv, Owns, NoProc, Exists, OnlyLauncher, HostGoes, DirExits
<1> QED  BY <1>1, <1>2, <1>3, <1>4, <1>5, <1>6, <1>7, LauncherStep

\* The launcher ends a script that is cancelled, overdue or without a heartbeat.
LEMMA EndOverdueKeeps ==
  ASSUME DesktopInv, NEW h \in Hosts, EndOverdue(h)
  PROVE  DesktopInv'
<1>0. /\ step \in [Requests -> Steps] /\ dir \in [Requests -> Dirs] /\ host \in [Hosts -> Launchers]
      /\ proc \in [Hosts -> Procs] /\ faults \in 0..MaxFaults
      /\ \A g \in Hosts : HostInv(g)
      /\ \A s \in Requests : DirInv(s)
  BY DEF DesktopInv, TypeInv
<1>a. /\ host[h].pc \in {"claim", "prepare", "hash", "popen", "loop", "drain"} => host[h].at \in Requests
      /\ host[h].at \in Requests \cup {Nobody} /\ host[h].todo \subseteq Requests
  BY <1>0 DEF HostInv, Launchers
<1>b. [host[h] EXCEPT !.pc = "drain", !.forced = TRUE] \in Launchers
  <2>1. host[h] \in Launchers
    BY <1>0
  <2> QED  BY <2>1 DEF Launchers
<1>c. /\ host' \in [Hosts -> Launchers]
      /\ host'[h].pc = "drain" /\ host'[h].at = host[h].at /\ host'[h].todo = host[h].todo /\ host'[h].forced
      /\ \A g \in Hosts : g # h => host'[g] = host[g]
  BY <1>0, <1>b DEF EndOverdue, Launchers
<1>1. /\ host[h].pc = "loop" /\ proc[h].script = "running"
      /\ host' \in [Hosts -> Launchers]
      /\ host'[h].pc = "drain" /\ host'[h].at = host[h].at /\ host'[h].todo = host[h].todo /\ host'[h].forced
      /\ \A g \in Hosts : g # h => host'[g] = host[g]
      /\ dir' \in [Requests -> Dirs] /\ DirExits(h, "killed")
      /\ proc' \in [Hosts -> Procs] /\ ProcKilled(h)
      /\ UNCHANGED <<step, clock, faults>>
  BY <1>0, <1>a, <1>c, Killing, Exiting DEF EndOverdue
<1>2. TypeInv'
  BY <1>1 DEF DesktopInv, TypeInv
<1>3. OnlyLauncher(h) /\ host[h].pc # "off"
  BY <1>0, <1>1 DEF OnlyLauncher, HostInv, NoProc, DirExits, ProcKilled
<1>4. \A s \in Requests :
        /\ host[h].at # s /\ host'[h].at # s => dir'[s] = dir[s]
        /\ dir'[s].st = dir[s].st /\ dir[s].files \subseteq dir'[s].files
        /\ "heartbeat" \in dir'[s].files => "heartbeat" \in dir[s].files
        /\ dir[s].claim # Nobody => dir'[s].claim = dir[s].claim
  BY <1>0, <1>1, <1>a DEF HostInv, Exists, DirExits, ProcKilled
<1>5. HostInv(h)'
  BY <1>0, <1>a, <1>1, <1>4 DEF HostInv, Exists, NoProc, DirExits, ProcKilled
<1>6. Settled(h)
  BY <1>0, <1>1 DEF Settled, HostInv, NoProc, DirExits, ProcKilled
<1>7. ASSUME NEW s \in Requests, host[h].at = s \/ host'[h].at = s, dir[s].st = "open" PROVE OpenInv(s)'
  BY <1>0, <1>1, <1>3, <1>7 DEF HostInv, DirInv, OpenInv, Owns, NoProc, Exists, OnlyLauncher, DirExits, ProcKilled
<1> QED  BY <1>1, <1>2, <1>3, <1>4, <1>5, <1>6, <1>7, LauncherStep

(***************************************************************************)
(* Steps of a worker.                                                      *)
(***************************************************************************)
LEMMA StepRow ==
  ASSUME step \in [Requests -> Steps], NEW r \in Requests, NEW row \in Steps, step' = [step EXCEPT ![r] = row]
  PROVE  /\ step' \in [Requests -> Steps] /\ step'[r] = row
         /\ \A s \in Requests : s # r => step'[s] = step[s]
OBVIOUS

\* One folder changes.
LEMMA DirRow ==
  ASSUME dir \in [Requests -> Dirs], NEW r \in Requests, NEW row \in Dirs, dir' = [dir EXCEPT ![r] = row]
  PROVE  /\ dir' \in [Requests -> Dirs] /\ dir'[r] = row
         /\ \A s \in Requests : s # r => dir'[s] = dir[s]
OBVIOUS

\* No folder appears unasked, and none goes while a launcher's files are open.
LEMMA FoldersKeep ==
  ASSUME NEW g \in Hosts, HostInv(g), host[g].at \in Requests \cup {Nobody}, host[g].todo \subseteq Requests,
         UNCHANGED <<host, proc>>,
         \A s \in Requests : dir[s].st # "none" => dir'[s].st # "none",
         host[g].pc \in Running => dir'[host[g].at].st \in {"open", "left"}
  PROVE  HostInv(g)'
BY DEF HostInv, Exists

\* A step of a worker that adds no report keeps the reports true.
LEMMA WorkerReports ==
  ASSUME DesktopInv, \A g \in Hosts : Settled(g),
         \A s \in Requests : step'[s].why = "returned" =>
           step[s].why = "returned" /\ step'[s].host = step[s].host /\ step'[s].code = step[s].code
  PROVE  ReportIsTrue'
<1>1. \A s \in Requests : StepInv(s) /\ step[s].host \in Hosts \cup {Nobody}
  BY DEF DesktopInv, TypeInv, Steps
<1> QED  BY <1>1 DEF DesktopInv, ReportIsTrue, StepInv, Settled

\* The worker sees the claim of a launcher.
LEMMA SeeClaimKeeps ==
  ASSUME DesktopInv, NEW r \in Requests, SeeClaim(r)
  PROVE  DesktopInv'
<1>0. /\ step \in [Requests -> Steps] /\ dir \in [Requests -> Dirs] /\ faults \in 0..MaxFaults
      /\ clock \in [Requests -> [late: 0..2, expired: BOOLEAN]]
      /\ \A g \in Hosts : HostInv(g) /\ host[g].at \in Requests \cup {Nobody} /\ host[g].todo \subseteq Requests
      /\ \A s \in Requests : DirInv(s) /\ StepInv(s)
      /\ \A g \in Hosts : host[g].pc \in Running => host[g].at \in Requests /\ dir[host[g].at].st \in {"open", "left"}
  BY DEF DesktopInv, TypeInv, Launchers, HostInv, Exists
<1>1. /\ step[r].pc = "waiting"
      /\ step' \in [Requests -> Steps] /\ StepGoes(r, "starting")
      /\ UNCHANGED <<dir, clock, host, proc, faults>>
  BY <1>0, Going DEF SeeClaim
<1>2. TypeInv'
  BY <1>1 DEF DesktopInv, TypeInv
<1>3. \A g \in Hosts : HostInv(g)'
  BY <1>0, <1>1 DEF HostInv, DirInv, Exists, StepGoes
<1>4. \A s \in Requests : DirInv(s)'
  BY <1>0, <1>1 DEF HostInv, DirInv, OpenInv, StepInv, Owns, Exists, StepGoes
<1>5. \A s \in Requests : StepInv(s)'
  BY <1>0, <1>1 DEF DirInv, OpenInv, StepInv, Exists, StepGoes
<1>6. ReportIsTrue'
  BY <1>0, <1>1, WorkerReports DEF Settled, StepInv, StepGoes
<1> QED  BY <1>2, <1>3, <1>4, <1>5, <1>6 DEF DesktopInv

\* The worker sees that the script has started.
LEMMA SeeStartedKeeps ==
  ASSUME DesktopInv, NEW r \in Requests, SeeStarted(r)
  PROVE  DesktopInv'
<1>0. /\ step \in [Requests -> Steps] /\ dir \in [Requests -> Dirs] /\ faults \in 0..MaxFaults
      /\ clock \in [Requests -> [late: 0..2, expired: BOOLEAN]]
      /\ \A g \in Hosts : HostInv(g) /\ host[g].at \in Requests \cup {Nobody} /\ host[g].todo \subseteq Requests
      /\ \A s \in Requests : DirInv(s) /\ StepInv(s)
      /\ \A g \in Hosts : host[g].pc \in Running => host[g].at \in Requests /\ dir[host[g].at].st \in {"open", "left"}
  BY DEF DesktopInv, TypeInv, Launchers, HostInv, Exists
<1>a. step[r].pc = "starting" /\ "started" \in dir[r].files /\ UNCHANGED <<dir, clock, host, proc, faults>>
  BY DEF SeeStarted
<1>b. dir[r].claim \in Hosts /\ step[r] \in Steps /\ step[r].why = "none"
  BY <1>0, <1>a DEF StepInv, DirInv, OpenInv, Steps
<1> DEFINE row == [step[r] EXCEPT !.pc = "following", !.host = dir[r].claim, !.seen = TRUE]
<1>c. row \in Steps /\ row.pc = "following" /\ row.host = dir[r].claim /\ row.why = step[r].why /\ row.seen
  BY <1>b DEF Steps
<1>d. step' = [step EXCEPT ![r] = row]
  BY DEF SeeStarted
<1> HIDE DEF row
<1>1. /\ step[r].pc = "starting" /\ "started" \in dir[r].files
      /\ step' \in [Requests -> Steps]
      /\ step'[r].pc = "following" /\ step'[r].host = dir[r].claim /\ step'[r].why = step[r].why /\ step'[r].seen
      /\ \A s \in Requests : s # r => step'[s] = step[s]
      /\ UNCHANGED <<dir, clock, host, proc, faults>>
  BY <1>0, <1>a, <1>b, <1>c, <1>d, StepRow
<1>2. TypeInv'
  BY <1>1 DEF DesktopInv, TypeInv
<1>3. \A g \in Hosts : HostInv(g)'
  BY <1>0, <1>1 DEF HostInv, DirInv, Exists
<1>4. \A s \in Requests : DirInv(s)'
  BY <1>0, <1>1 DEF HostInv, DirInv, OpenInv, StepInv, Owns, Exists
<1>5. \A s \in Requests : StepInv(s)'
  BY <1>0, <1>1 DEF DirInv, OpenInv, StepInv, Exists
<1>6. ReportIsTrue'
  BY <1>0, <1>1, WorkerReports DEF Settled, StepInv
<1> QED  BY <1>2, <1>3, <1>4, <1>5, <1>6 DEF DesktopInv

\* The worker sees the result.
LEMMA SeeResultKeeps ==
  ASSUME DesktopInv, NEW r \in Requests, SeeResult(r)
  PROVE  DesktopInv'
<1>0. /\ step \in [Requests -> Steps] /\ dir \in [Requests -> Dirs] /\ faults \in 0..MaxFaults
      /\ clock \in [Requests -> [late: 0..2, expired: BOOLEAN]]
      /\ \A g \in Hosts : HostInv(g) /\ host[g].at \in Requests \cup {Nobody} /\ host[g].todo \subseteq Requests
      /\ \A s \in Requests : DirInv(s) /\ StepInv(s)
      /\ \A g \in Hosts : host[g].pc \in Running => host[g].at \in Requests /\ dir[host[g].at].st \in {"open", "left"}
  BY DEF DesktopInv, TypeInv, Launchers, HostInv, Exists
<1>1. /\ step[r].pc = "starting"
      /\ step' \in [Requests -> Steps] /\ StepEnds(r, Nobody)
      /\ UNCHANGED <<dir, clock, host, proc, faults>>
  BY <1>0, Ending DEF SeeResult
<1>2. TypeInv'
  BY <1>1 DEF DesktopInv, TypeInv
<1>3. \A g \in Hosts : HostInv(g)'
  BY <1>0, <1>1 DEF HostInv, DirInv, Exists, StepEnds
<1>4. \A s \in Requests : DirInv(s)'
  BY <1>0, <1>1 DEF HostInv, DirInv, OpenInv, StepInv, Owns, Exists, StepEnds
<1>5. \A s \in Requests : StepInv(s)'
  BY <1>0, <1>1 DEF DirInv, OpenInv, StepInv, Exists, StepEnds
<1>6. ReportIsTrue'
  BY <1>0, <1>1, WorkerReports DEF Settled, StepInv, StepEnds
<1> QED  BY <1>2, <1>3, <1>4, <1>5, <1>6 DEF DesktopInv

\* The worker withdraws a claimed request that has not answered.
LEMMA GiveUpStartKeeps ==
  ASSUME DesktopInv, NEW r \in Requests, GiveUpStart(r)
  PROVE  DesktopInv'
<1>0. /\ step \in [Requests -> Steps] /\ dir \in [Requests -> Dirs] /\ faults \in 0..MaxFaults
      /\ clock \in [Requests -> [late: 0..2, expired: BOOLEAN]]
      /\ \A g \in Hosts : HostInv(g) /\ host[g].at \in Requests \cup {Nobody} /\ host[g].todo \subseteq Requests
      /\ \A s \in Requests : DirInv(s) /\ StepInv(s)
      /\ \A g \in Hosts : host[g].pc \in Running => host[g].at \in Requests /\ dir[host[g].at].st \in {"open", "left"}
  BY DEF DesktopInv, TypeInv, Launchers, HostInv, Exists
<1>1. /\ step[r].pc = "starting"
      /\ step' \in [Requests -> Steps] /\ StepGoes(r, "withdrawn")
      /\ dir' \in [Requests -> Dirs] /\ DirGets(r, "withdrawn")
      /\ UNCHANGED <<clock, host, proc, faults>>
  BY <1>0, Going, Writing DEF GiveUpStart, Files
<1>2. TypeInv'
  BY <1>1 DEF DesktopInv, TypeInv
<1>3. \A g \in Hosts : HostInv(g)'
  <2>1. \A s \in Requests : dir[s].st # "none" => dir'[s].st # "none"
    BY <1>0, <1>1 DEF DirInv, StepGoes, DirGets
  <2>2. \A g \in Hosts : host[g].pc \in Running => dir'[host[g].at].st \in {"open", "left"}
    BY <1>0, <1>1 DEF DirInv, StepGoes, DirGets, Exists
  <2> QED  BY <1>0, <1>1, <2>1, <2>2, FoldersKeep
<1>4. \A s \in Requests : DirInv(s)'
  BY <1>0, <1>1 DEF HostInv, DirInv, OpenInv, StepInv, Owns, Exists, StepGoes, DirGets
<1>5. \A s \in Requests : StepInv(s)'
  BY <1>0, <1>1 DEF DirInv, OpenInv, StepInv, Exists, StepGoes, DirGets
<1>6. ReportIsTrue'
  BY <1>0, <1>1, WorkerReports DEF Settled, StepInv, StepGoes, DirGets
<1> QED  BY <1>2, <1>3, <1>4, <1>5, <1>6 DEF DesktopInv

\* No start within five seconds after the withdrawal.
LEMMA NoStartKeeps ==
  ASSUME DesktopInv, NEW r \in Requests, NoStart(r)
  PROVE  DesktopInv'
<1>0. /\ step \in [Requests -> Steps] /\ dir \in [Requests -> Dirs] /\ faults \in 0..MaxFaults
      /\ clock \in [Requests -> [late: 0..2, expired: BOOLEAN]]
      /\ \A g \in Hosts : HostInv(g) /\ host[g].at \in Requests \cup {Nobody} /\ host[g].todo \subseteq Requests
      /\ \A s \in Requests : DirInv(s) /\ StepInv(s)
      /\ \A g \in Hosts : host[g].pc \in Running => host[g].at \in Requests /\ dir[host[g].at].st \in {"open", "left"}
  BY DEF DesktopInv, TypeInv, Launchers, HostInv, Exists
<1>1. /\ step[r].pc = "withdrawn"
      /\ step' \in [Requests -> Steps] /\ StepEnds(r, Nobody)
      /\ UNCHANGED <<dir, clock, host, proc, faults>>
  BY <1>0, Ending, Verdicts DEF NoStart
<1>2. TypeInv'
  BY <1>1 DEF DesktopInv, TypeInv
<1>3. \A g \in Hosts : HostInv(g)'
  BY <1>0, <1>1 DEF HostInv, DirInv, Exists, StepEnds
<1>4. \A s \in Requests : DirInv(s)'
  BY <1>0, <1>1 DEF HostInv, DirInv, OpenInv, StepInv, Owns, Exists, StepEnds
<1>5. \A s \in Requests : StepInv(s)'
  BY <1>0, <1>1 DEF DirInv, OpenInv, StepInv, Exists, StepEnds
<1>6. ReportIsTrue'
  BY <1>0, <1>1, WorkerReports DEF Settled, StepInv, StepEnds
<1> QED  BY <1>2, <1>3, <1>4, <1>5, <1>6 DEF DesktopInv

\* A callback of the worker raises while it follows the script.
LEMMA CallbackRaisesKeeps ==
  ASSUME DesktopInv, NEW r \in Requests, CallbackRaises(r)
  PROVE  DesktopInv'
<1>0. /\ step \in [Requests -> Steps] /\ dir \in [Requests -> Dirs] /\ faults \in 0..MaxFaults
      /\ clock \in [Requests -> [late: 0..2, expired: BOOLEAN]]
      /\ \A g \in Hosts : HostInv(g) /\ host[g].at \in Requests \cup {Nobody} /\ host[g].todo \subseteq Requests
      /\ \A s \in Requests : DirInv(s) /\ StepInv(s)
      /\ \A g \in Hosts : host[g].pc \in Running => host[g].at \in Requests /\ dir[host[g].at].st \in {"open", "left"}
  BY DEF DesktopInv, TypeInv, Launchers, HostInv, Exists
<1>1. /\ step[r].pc = "following"
      /\ step' \in [Requests -> Steps] /\ StepEnds(r, Nobody)
      /\ UNCHANGED <<dir, clock, host, proc, faults>>
  BY <1>0, Ending DEF CallbackRaises
<1>2. TypeInv'
  BY <1>1 DEF DesktopInv, TypeInv
<1>3. \A g \in Hosts : HostInv(g)'
  BY <1>0, <1>1 DEF HostInv, DirInv, Exists, StepEnds
<1>4. \A s \in Requests : DirInv(s)'
  BY <1>0, <1>1 DEF HostInv, DirInv, OpenInv, StepInv, Owns, Exists, StepEnds
<1>5. \A s \in Requests : StepInv(s)'
  BY <1>0, <1>1 DEF DirInv, OpenInv, StepInv, Exists, StepEnds
<1>6. ReportIsTrue'
  BY <1>0, <1>1, WorkerReports DEF Settled, StepInv, StepEnds
<1> QED  BY <1>2, <1>3, <1>4, <1>5, <1>6 DEF DesktopInv

\* The worker stops waiting for a claim: it cancels, or follows who just
\* claimed.
LEMMA GiveUpLaunchKeeps ==
  ASSUME DesktopInv, NEW r \in Requests, GiveUpLaunch(r)
  PROVE  DesktopInv'
<1>0. /\ step \in [Requests -> Steps] /\ dir \in [Requests -> Dirs] /\ faults \in 0..MaxFaults
      /\ clock \in [Requests -> [late: 0..2, expired: BOOLEAN]]
      /\ \A g \in Hosts : HostInv(g) /\ host[g].at \in Requests \cup {Nobody} /\ host[g].todo \subseteq Requests
      /\ \A s \in Requests : DirInv(s) /\ StepInv(s)
      /\ \A g \in Hosts : host[g].pc \in Running => host[g].at \in Requests /\ dir[host[g].at].st \in {"open", "left"}
  BY DEF DesktopInv, TypeInv, Launchers, HostInv, Exists
<1>1. /\ step[r].pc = "waiting"
      /\ \/ /\ step' \in [Requests -> Steps] /\ StepEnds(r, Nobody)
            /\ dir' \in [Requests -> Dirs]
            /\ DirClaimed(r, IF dir[r].claim = Nobody THEN Cancelled ELSE dir[r].claim)
         \/ /\ step' \in [Requests -> Steps] /\ StepGoes(r, "starting")
            /\ dir' \in [Requests -> Dirs]
            /\ DirGets(r, "withdrawn") \/ dir' = dir
      /\ UNCHANGED <<clock, host, proc, faults>>
  BY <1>0, Going, Ending, Verdicts, Writing, Cancelling DEF GiveUpLaunch, Files
<1>2. TypeInv'
  BY <1>1 DEF DesktopInv, TypeInv
<1>3. \A g \in Hosts : HostInv(g)'
  <2>1. \A s \in Requests : dir[s].st # "none" => dir'[s].st # "none"
    BY <1>0, <1>1 DEF DirInv, StepGoes, StepEnds, DirGets, DirClaimed
  <2>2. \A g \in Hosts : host[g].pc \in Running => dir'[host[g].at].st \in {"open", "left"}
    BY <1>0, <1>1 DEF DirInv, StepGoes, StepEnds, DirGets, Exists, DirClaimed
  <2> QED  BY <1>0, <1>1, <2>1, <2>2, FoldersKeep
<1>4. \A s \in Requests : DirInv(s)'
  BY <1>0, <1>1 DEF HostInv, DirInv, OpenInv, StepInv, Owns, Exists, StepGoes, StepEnds, DirGets, DirClaimed
<1>5. \A s \in Requests : StepInv(s)'
  BY <1>0, <1>1 DEF DirInv, OpenInv, StepInv, Exists, StepGoes, StepEnds, DirGets, DirClaimed
<1>6. ReportIsTrue'
  BY <1>0, <1>1, WorkerReports DEF Settled, StepInv, StepGoes, StepEnds, DirGets, DirClaimed
<1> QED  BY <1>2, <1>3, <1>4, <1>5, <1>6 DEF DesktopInv

\* Somebody presses Stop.
LEMMA RequestStopKeeps ==
  ASSUME DesktopInv, NEW r \in Requests, RequestStop(r)
  PROVE  DesktopInv'
<1>0. /\ step \in [Requests -> Steps] /\ dir \in [Requests -> Dirs] /\ faults \in 0..MaxFaults
      /\ clock \in [Requests -> [late: 0..2, expired: BOOLEAN]]
      /\ \A g \in Hosts : HostInv(g) /\ host[g].at \in Requests \cup {Nobody} /\ host[g].todo \subseteq Requests
      /\ \A s \in Requests : DirInv(s) /\ StepInv(s)
      /\ \A g \in Hosts : host[g].pc \in Running => host[g].at \in Requests /\ dir[host[g].at].st \in {"open", "left"}
  BY DEF DesktopInv, TypeInv, Launchers, HostInv, Exists
<1>a. step[r].pc \in Waiting /\ UNCHANGED <<dir, clock, host, proc, faults>> /\ step[r] \in Steps
  BY <1>0 DEF RequestStop
<1> DEFINE row == [step[r] EXCEPT !.stop = TRUE]
<1>c. row \in Steps /\ row.pc = step[r].pc /\ row.host = step[r].host /\ row.why = step[r].why /\ row.code = step[r].code
      /\ row.seen = step[r].seen
  BY <1>a DEF Steps
<1>d. step' = [step EXCEPT ![r] = row]
  BY DEF RequestStop
<1> HIDE DEF row
<1>1. /\ step[r].pc \in Waiting
      /\ step' \in [Requests -> Steps] /\ StepGoes(r, step[r].pc)
      /\ UNCHANGED <<dir, clock, host, proc, faults>>
  BY <1>0, <1>a, <1>c, <1>d, StepRow DEF StepGoes
<1>2. TypeInv'
  BY <1>1 DEF DesktopInv, TypeInv
<1>3. \A g \in Hosts : HostInv(g)'
  BY <1>0, <1>1 DEF HostInv, DirInv, Exists, StepGoes
<1>4. \A s \in Requests : DirInv(s)'
  BY <1>0, <1>1 DEF HostInv, DirInv, OpenInv, StepInv, Owns, Exists, StepGoes
<1>5. \A s \in Requests : StepInv(s)'
  BY <1>0, <1>1 DEF DirInv, OpenInv, StepInv, Exists, StepGoes
<1>6. ReportIsTrue'
  BY <1>0, <1>1, WorkerReports DEF Settled, StepInv, StepGoes
<1> QED  BY <1>2, <1>3, <1>4, <1>5, <1>6 DEF DesktopInv

\* The worker process dies.
LEMMA CrashKeeps ==
  ASSUME DesktopInv, NEW r \in Requests, Crash(r)
  PROVE  DesktopInv'
<1>0. /\ step \in [Requests -> Steps] /\ dir \in [Requests -> Dirs] /\ faults \in 0..MaxFaults
      /\ clock \in [Requests -> [late: 0..2, expired: BOOLEAN]]
      /\ \A g \in Hosts : HostInv(g) /\ host[g].at \in Requests \cup {Nobody} /\ host[g].todo \subseteq Requests
      /\ \A s \in Requests : DirInv(s) /\ StepInv(s)
      /\ \A g \in Hosts : host[g].pc \in Running => host[g].at \in Requests /\ dir[host[g].at].st \in {"open", "left"}
  BY DEF DesktopInv, TypeInv, Launchers, HostInv, Exists
<1>a. step[r].pc \in Waiting /\ UNCHANGED <<dir, clock, host, proc>> /\ step' = [step EXCEPT ![r].pc = "crashed"]
  BY DEF Crash
<1>c. faults' \in 0..MaxFaults
  BY <1>0 DEF Crash, Fault
<1>1. /\ step[r].pc \in Waiting
      /\ step' \in [Requests -> Steps] /\ StepGoes(r, "crashed")
      /\ UNCHANGED <<dir, clock, host, proc>> /\ faults' \in 0..MaxFaults
  BY <1>0, <1>a, <1>c, Going
<1>2. TypeInv'
  BY <1>1 DEF DesktopInv, TypeInv
<1>3. \A g \in Hosts : HostInv(g)'
  BY <1>0, <1>1 DEF HostInv, DirInv, Exists, StepGoes
<1>4. \A s \in Requests : DirInv(s)'
  BY <1>0, <1>1 DEF HostInv, DirInv, OpenInv, StepInv, Owns, Exists, StepGoes
<1>5. \A s \in Requests : StepInv(s)'
  BY <1>0, <1>1 DEF DirInv, OpenInv, StepInv, Exists, StepGoes
<1>6. ReportIsTrue'
  BY <1>0, <1>1, WorkerReports DEF Settled, StepInv, StepGoes
<1> QED  BY <1>2, <1>3, <1>4, <1>5, <1>6 DEF DesktopInv

\* The heartbeat of a worker that is gone grows old.
LEMMA SilenceKeeps ==
  ASSUME DesktopInv, NEW r \in Requests, Silence(r)
  PROVE  DesktopInv'
<1>0. /\ step \in [Requests -> Steps] /\ dir \in [Requests -> Dirs] /\ faults \in 0..MaxFaults
      /\ clock \in [Requests -> [late: 0..2, expired: BOOLEAN]]
      /\ \A g \in Hosts : HostInv(g) /\ host[g].at \in Requests \cup {Nobody} /\ host[g].todo \subseteq Requests
      /\ \A s \in Requests : DirInv(s) /\ StepInv(s)
      /\ \A g \in Hosts : host[g].pc \in Running => host[g].at \in Requests /\ dir[host[g].at].st \in {"open", "left"}
  BY DEF DesktopInv, TypeInv, Launchers, HostInv, Exists
<1>a. UNCHANGED <<step, clock, host, proc, faults>> /\ dir[r] \in Dirs
  BY <1>0 DEF Silence
<1> DEFINE row == [dir[r] EXCEPT !.files = dir[r].files \ {"heartbeat"}]
<1>c. /\ row \in Dirs /\ row.files = dir[r].files \ {"heartbeat"}
      /\ row.st = dir[r].st /\ row.claim = dir[r].claim /\ row.code = dir[r].code
  BY <1>a DEF Dirs
<1>d. dir' = [dir EXCEPT ![r] = row]
  BY DEF Silence
<1> HIDE DEF row
<1>1. /\ dir' \in [Requests -> Dirs]
      /\ dir'[r].st = dir[r].st /\ dir'[r].claim = dir[r].claim /\ dir'[r].code = dir[r].code
      /\ dir'[r].files = dir[r].files \ {"heartbeat"}
      /\ \A s \in Requests : s # r => dir'[s] = dir[s]
      /\ UNCHANGED <<step, clock, host, proc, faults>>
  BY <1>0, <1>a, <1>c, <1>d, DirRow
<1>2. TypeInv'
  BY <1>1 DEF DesktopInv, TypeInv
<1>3. \A g \in Hosts : HostInv(g)'
  <2>1. \A s \in Requests : dir[s].st # "none" => dir'[s].st # "none"
    BY <1>0, <1>1 DEF DirInv
  <2>2. \A g \in Hosts : host[g].pc \in Running => dir'[host[g].at].st \in {"open", "left"}
    BY <1>0, <1>1 DEF DirInv
  <2> QED  BY <1>0, <1>1, <2>1, <2>2, FoldersKeep
<1>4. \A s \in Requests : DirInv(s)'
  BY <1>0, <1>1 DEF HostInv, DirInv, OpenInv, StepInv, Owns, Exists
<1>5. \A s \in Requests : StepInv(s)'
  BY <1>0, <1>1 DEF DirInv, OpenInv, StepInv, Exists
<1>6. ReportIsTrue'
  BY <1>0, <1>1, WorkerReports DEF Settled, StepInv
<1> QED  BY <1>2, <1>3, <1>4, <1>5, <1>6 DEF DesktopInv

\* The worker creates the folder of its request.
LEMMA SubmitKeeps ==
  ASSUME DesktopInv, NEW r \in Requests, Submit(r)
  PROVE  DesktopInv'
<1>0. /\ step \in [Requests -> Steps] /\ dir \in [Requests -> Dirs] /\ faults \in 0..MaxFaults
      /\ clock \in [Requests -> [late: 0..2, expired: BOOLEAN]]
      /\ \A g \in Hosts : HostInv(g) /\ host[g].at \in Requests \cup {Nobody} /\ host[g].todo \subseteq Requests
      /\ \A s \in Requests : DirInv(s) /\ StepInv(s)
      /\ \A g \in Hosts : host[g].pc \in Running => host[g].at \in Requests /\ dir[host[g].at].st \in {"open", "left"}
  BY DEF DesktopInv, TypeInv, Launchers, HostInv, Exists
<1>1. /\ step[r].pc = "none"
      /\ step' \in [Requests -> Steps] /\ StepGoes(r, "submitted")
      /\ dir' \in [Requests -> Dirs]
      /\ dir'[r].st = "open" /\ dir'[r].claim = Nobody /\ dir'[r].files = {"heartbeat"}
      /\ \A s \in Requests : s # r => dir'[s] = dir[s]
      /\ UNCHANGED <<clock, host, proc, faults>>
  BY <1>0, Going DEF Submit, NoDir, Dirs, Files
<1>2. TypeInv'
  BY <1>1 DEF DesktopInv, TypeInv
<1>3. \A g \in Hosts : HostInv(g)'
  <2>1. \A s \in Requests : dir[s].st # "none" => dir'[s].st # "none"
    BY <1>0, <1>1 DEF DirInv, StepGoes
  <2>2. \A g \in Hosts : host[g].pc \in Running => dir'[host[g].at].st \in {"open", "left"}
    BY <1>0, <1>1 DEF DirInv, StepGoes
  <2> QED  BY <1>0, <1>1, <2>1, <2>2, FoldersKeep
<1>4. \A s \in Requests : DirInv(s)'
  BY <1>0, <1>1 DEF HostInv, DirInv, OpenInv, StepInv, Owns, Exists, StepGoes
<1>5. \A s \in Requests : StepInv(s)'
  BY <1>0, <1>1 DEF DirInv, OpenInv, StepInv, Exists, StepGoes
<1>6. ReportIsTrue'
  BY <1>0, <1>1, WorkerReports DEF Settled, StepInv, StepGoes
<1> QED  BY <1>2, <1>3, <1>4, <1>5, <1>6 DEF DesktopInv

\* The worker removes the folder, or leaves it while its files are open.
LEMMA DiscardKeeps ==
  ASSUME DesktopInv, NEW r \in Requests, Discard(r)
  PROVE  DesktopInv'
<1>0. /\ step \in [Requests -> Steps] /\ dir \in [Requests -> Dirs] /\ faults \in 0..MaxFaults
      /\ clock \in [Requests -> [late: 0..2, expired: BOOLEAN]]
      /\ \A g \in Hosts : HostInv(g) /\ host[g].at \in Requests \cup {Nobody} /\ host[g].todo \subseteq Requests
      /\ \A s \in Requests : DirInv(s) /\ StepInv(s)
      /\ \A g \in Hosts : host[g].pc \in Running => host[g].at \in Requests /\ dir[host[g].at].st \in {"open", "left"}
  BY DEF DesktopInv, TypeInv, Launchers, HostInv, Exists
<1>a. step[r].pc = "ending" /\ UNCHANGED <<host, proc, faults>> /\ step[r] \in Steps
  BY <1>0 DEF Discard, Ended
<1> DEFINE row == [step[r] EXCEPT !.pc = "ended", !.stop = FALSE]
           folder == [NoDir EXCEPT !.st = IF HeldOpen(r) THEN "left" ELSE "gone"]
<1>c. row \in Steps /\ row.pc = "ended" /\ row.host = step[r].host /\ row.why = step[r].why /\ row.code = step[r].code
      /\ row.seen = step[r].seen
  BY <1>a DEF Steps
<1>d. step' = [step EXCEPT ![r] = row] /\ dir' = [dir EXCEPT ![r] = folder]
  BY DEF Discard, Ended
<1>e. folder \in Dirs /\ folder.st = (IF HeldOpen(r) THEN "left" ELSE "gone") /\ folder.files = {}
  BY DEF Dirs, NoDir
<1>t. step \in [Requests -> Steps] /\ dir \in [Requests -> Dirs]
  BY <1>0
<1>f. clock' \in [Requests -> [late: 0..2, expired: BOOLEAN]]
  BY <1>0 DEF Discard, Ended, NoClock
<1> HIDE DEF row, folder
<1>1. /\ step[r].pc = "ending"
      /\ step' \in [Requests -> Steps]
      /\ step'[r].pc = "ended" /\ step'[r].why = step[r].why /\ step'[r].host = step[r].host /\ step'[r].code = step[r].code
      /\ step'[r].seen = step[r].seen
      /\ \A s \in Requests : s # r => step'[s] = step[s]
      /\ dir' \in [Requests -> Dirs]
      /\ dir'[r].st = (IF HeldOpen(r) THEN "left" ELSE "gone") /\ dir'[r].files = {}
      /\ \A s \in Requests : s # r => dir'[s] = dir[s]
      /\ clock' \in [Requests -> [late: 0..2, expired: BOOLEAN]]
      /\ UNCHANGED <<host, proc, faults>>
  BY <1>t, <1>a, <1>c, <1>d, <1>e, <1>f, StepRow, DirRow
<1>2. TypeInv'
  BY <1>1 DEF DesktopInv, TypeInv
<1>3. \A g \in Hosts : HostInv(g)'
  <2>1. \A s \in Requests : dir[s].st # "none" => dir'[s].st # "none"
    BY <1>0, <1>1 DEF DirInv, HeldOpen
  <2>2. \A g \in Hosts : host[g].pc \in Running => dir'[host[g].at].st \in {"open", "left"}
    BY <1>0, <1>1 DEF DirInv, HeldOpen
  <2> QED  BY <1>0, <1>1, <2>1, <2>2, FoldersKeep
<1>4. \A s \in Requests : DirInv(s)'
  <2>1. ASSUME NEW s \in Requests, s # r PROVE DirInv(s)'
    BY <1>0, <1>1, <2>1 DEF DirInv, OpenInv, Owns
  <2>2. DirInv(r)'
    <3>1. step[r].pc = "ending" /\ step'[r].pc = "ended" /\ dir'[r].st \in {"left", "gone"} /\ dir'[r].files = {}
      BY <1>1
    <3> QED  BY <3>1 DEF DirInv
  <2> QED  BY <2>1, <2>2
<1>5. \A s \in Requests : StepInv(s)'
  BY <1>0, <1>1 DEF DirInv, OpenInv, StepInv, Exists, HeldOpen
<1>6. ReportIsTrue'
  BY <1>0, <1>1, WorkerReports DEF Settled, StepInv, HeldOpen
<1> QED  BY <1>2, <1>3, <1>4, <1>5, <1>6 DEF DesktopInv

\* A request that nobody claimed expires.
LEMMA ExpireKeeps ==
  ASSUME DesktopInv, NEW r \in Requests, Expire(r)
  PROVE  DesktopInv'
<1>0. /\ step \in [Requests -> Steps] /\ dir \in [Requests -> Dirs] /\ faults \in 0..MaxFaults
      /\ clock \in [Requests -> [late: 0..2, expired: BOOLEAN]]
      /\ \A g \in Hosts : HostInv(g) /\ host[g].at \in Requests \cup {Nobody} /\ host[g].todo \subseteq Requests
      /\ \A s \in Requests : DirInv(s) /\ StepInv(s)
      /\ \A g \in Hosts : host[g].pc \in Running => host[g].at \in Requests /\ dir[host[g].at].st \in {"open", "left"}
  BY DEF DesktopInv, TypeInv, Launchers, HostInv, Exists
<1>1. /\ clock' \in [Requests -> [late: 0..2, expired: BOOLEAN]]
      /\ UNCHANGED <<step, dir, host, proc, faults>>
  BY <1>0 DEF Expire
<1>2. TypeInv'
  BY <1>1 DEF DesktopInv, TypeInv
<1>3. \A g \in Hosts : HostInv(g)'
  BY <1>0, <1>1 DEF HostInv, DirInv, Exists
<1>4. \A s \in Requests : DirInv(s)'
  BY <1>0, <1>1 DEF HostInv, DirInv, OpenInv, StepInv, Owns, Exists
<1>5. \A s \in Requests : StepInv(s)'
  BY <1>0, <1>1 DEF DirInv, OpenInv, StepInv, Exists
<1>6. ReportIsTrue'
  BY <1>0, <1>1, WorkerReports DEF Settled, StepInv
<1> QED  BY <1>2, <1>3, <1>4, <1>5, <1>6 DEF DesktopInv

\* The deadline passes, and then the launcher's grace.
LEMMA PassDeadlineKeeps ==
  ASSUME DesktopInv, NEW r \in Requests, PassDeadline(r)
  PROVE  DesktopInv'
<1>0. /\ step \in [Requests -> Steps] /\ dir \in [Requests -> Dirs] /\ faults \in 0..MaxFaults
      /\ clock \in [Requests -> [late: 0..2, expired: BOOLEAN]]
      /\ \A g \in Hosts : HostInv(g) /\ host[g].at \in Requests \cup {Nobody} /\ host[g].todo \subseteq Requests
      /\ \A s \in Requests : DirInv(s) /\ StepInv(s)
      /\ \A g \in Hosts : host[g].pc \in Running => host[g].at \in Requests /\ dir[host[g].at].st \in {"open", "left"}
  BY DEF DesktopInv, TypeInv, Launchers, HostInv, Exists
<1>1. /\ clock' \in [Requests -> [late: 0..2, expired: BOOLEAN]]
      /\ UNCHANGED <<step, dir, host, proc, faults>>
  BY <1>0 DEF PassDeadline
<1>2. TypeInv'
  BY <1>1 DEF DesktopInv, TypeInv
<1>3. \A g \in Hosts : HostInv(g)'
  BY <1>0, <1>1 DEF HostInv, DirInv, Exists
<1>4. \A s \in Requests : DirInv(s)'
  BY <1>0, <1>1 DEF HostInv, DirInv, OpenInv, StepInv, Owns, Exists
<1>5. \A s \in Requests : StepInv(s)'
  BY <1>0, <1>1 DEF DirInv, OpenInv, StepInv, Exists
<1>6. ReportIsTrue'
  BY <1>0, <1>1, WorkerReports DEF Settled, StepInv
<1> QED  BY <1>2, <1>3, <1>4, <1>5, <1>6 DEF DesktopInv

\* The task of r is asked for, or its worker gives up because that fails.
LEMMA TaskStep ==
  ASSUME DesktopInv, NEW r \in Requests, step[r].pc = "submitted", TypeInv',
         \/ StepGoes(r, "waiting") /\ dir' = dir
         \/ StepEnds(r, Nobody) /\ DirClaimed(r, IF dir[r].claim = Nobody THEN Cancelled ELSE dir[r].claim),
         NEW pc \in {"off", "queued"}, HostGoes(r, pc), UNCHANGED proc
  PROVE  DesktopInv'
<1>0. /\ \A g \in Hosts : HostInv(g) /\ host[g].at \in Requests \cup {Nobody} /\ host[g].todo \subseteq Requests
      /\ \A s \in Requests : DirInv(s) /\ StepInv(s)
  BY DEF DesktopInv, TypeInv, Launchers
<1>1. /\ host[r].pc = "off" /\ proc[r].script = "none" /\ dir[r].st = "open"
      /\ \A s \in Requests : dir'[s].st = dir[s].st /\ dir'[s].files = dir[s].files /\ dir'[s].code = dir[s].code
      /\ \A s \in Requests : s # r => dir'[s] = dir[s]
      /\ OnlyLauncher(r)
  BY <1>0 DEF HostInv, DirInv, StepInv, NoProc, DirClaimed, HostGoes, OnlyLauncher
<1>2. \A g \in Hosts : HostInv(g)'
  BY <1>0, <1>1 DEF HostInv, HostGoes, Exists
<1>3. \A g \in Hosts : Settled(g)
  BY <1>1 DEF Settled, HostGoes
<1>4. ASSUME NEW s \in Requests PROVE DirInv(s)'
  <2>1. CASE s # r
    <3>1. dir[s].st = "open" => OpenInv(s)'
      BY <1>0, <1>1, <2>1, OpenBefore DEF DirInv, HostGoes
    <3> QED  BY <1>0, <1>1, <2>1, <3>1 DEF DirInv, StepGoes, StepEnds
  <2>2. CASE s = r /\ dir' = dir
    <3>1. OpenInv(s)'
      BY <1>0, <1>1, <2>2, OpenBefore DEF DirInv, HostGoes
    <3> QED  BY <1>0, <1>1, <2>2, <3>1 DEF DirInv, StepGoes, StepEnds
  <2>3. CASE s = r /\ StepEnds(r, Nobody) /\ DirClaimed(r, IF dir[r].claim = Nobody THEN Cancelled ELSE dir[r].claim)
    <3>1. OpenInv(s)'
      BY <1>0, <1>1, <2>3 DEF DirInv, OpenInv, Owns, HostGoes, DirClaimed
    <3> QED  BY <1>0, <1>1, <2>3, <3>1 DEF DirInv, StepEnds
  <2> QED  BY <2>1, <2>2, <2>3
<1>5. ASSUME NEW s \in Requests PROVE StepInv(s)'
  <2>1. CASE s = r
    BY <1>0, <2>1 DEF StepInv, StepGoes, StepEnds
  <2>2. CASE s # r
    <3>1. step'[s] = step[s] /\ dir'[s] = dir[s] /\ host'[s] = host[s] /\ step[s].host \in Hosts \cup {Nobody}
      BY <1>1, <2>2 DEF StepGoes, StepEnds, HostGoes, DesktopInv, TypeInv, Steps
    <3> QED  BY <1>0, <1>3, <3>1 DEF StepInv, Settled
  <2> QED  BY <2>1, <2>2
<1>6. ReportIsTrue'
  BY <1>3, WorkerReports DEF StepGoes, StepEnds
<1> QED  BY <1>2, <1>4, <1>5, <1>6 DEF DesktopInv

\* Task Scheduler starts a launcher.
LEMMA StartTaskKeeps ==
  ASSUME DesktopInv, NEW r \in Requests, StartTask(r)
  PROVE  DesktopInv'
<1>0. step \in [Requests -> Steps] /\ host \in [Hosts -> Launchers]
  BY DEF DesktopInv, TypeInv
<1>1. /\ step[r].pc = "submitted" /\ UNCHANGED <<dir, clock, proc, faults>>
      /\ step' \in [Requests -> Steps] /\ StepGoes(r, "waiting")
      /\ host' \in [Hosts -> Launchers] /\ HostGoes(r, "queued")
  BY <1>0, Going, HostGoing DEF StartTask, Goes
<1>2. TypeInv'
  BY <1>1 DEF DesktopInv, TypeInv
<1> QED  BY <1>1, <1>2, TaskStep

\* Task Scheduler refuses to start one.
LEMMA StartFailsKeeps ==
  ASSUME DesktopInv, NEW r \in Requests, StartFails(r)
  PROVE  DesktopInv'
<1>0. step \in [Requests -> Steps] /\ dir \in [Requests -> Dirs] /\ host \in [Hosts -> Launchers]
  BY DEF DesktopInv, TypeInv
<1>1. PICK pc \in {"off", "queued"} : Goes(r, pc)
  BY DEF StartFails, Goes
<1>2. /\ step[r].pc = "submitted" /\ UNCHANGED <<clock, proc, faults>>
      /\ step' \in [Requests -> Steps] /\ StepEnds(r, Nobody)
      /\ dir' \in [Requests -> Dirs]
      /\ DirClaimed(r, IF dir[r].claim = Nobody THEN Cancelled ELSE dir[r].claim)
  BY <1>0, Ending, Cancelling DEF StartFails
<1>3. host' \in [Hosts -> Launchers] /\ HostGoes(r, pc)
  BY <1>0, <1>1, HostGoing
<1>4. TypeInv'
  BY <1>2, <1>3 DEF DesktopInv, TypeInv
<1> QED  BY <1>2, <1>3, <1>4, TaskStep

\* The worker of r ends the tree of its script, or comes too late for it.
LEMMA KillStep ==
  ASSUME DesktopInv, NEW r \in Requests, step[r].pc \in {"withdrawn", "following"}, "started" \in dir[r].files,
         StepEnds(r, dir[r].claim), TypeInv', UNCHANGED <<dir, host>>,
         \/ ProcKilled(dir[r].claim)
         \/ step[r].pc = "withdrawn" /\ proc[dir[r].claim].script # "running" /\ UNCHANGED proc
  PROVE  DesktopInv'
<1> DEFINE c == dir[r].claim
<1>0. /\ \A g \in Hosts : HostInv(g)
      /\ \A s \in Requests : DirInv(s) /\ StepInv(s)
  BY DEF DesktopInv
<1>1. /\ dir[r].st = "open" /\ OpenInv(r) /\ c \in Hosts /\ host[c].at = r /\ proc[c].script # "none"
      /\ c \in Hosts => proc[c] \in Procs
  BY <1>0 DEF DirInv, OpenInv, Owns, DesktopInv, TypeInv, HostInv
<1> HIDE DEF c
<1>2. /\ OnlyLauncher(c) /\ proc'[c].script = "exited"
      /\ proc'[c].child \in Tracked => ~step[r].seen /\ proc'[c].by \in {"ok", "failed"}
      /\ proc[c].script = "exited" => proc'[c].by = proc[c].by
      /\ proc'[c].child \in {"none", proc[c].child}
  <2>1. CASE ProcKilled(c)
    BY <1>1, <2>1 DEF ProcKilled, OnlyLauncher, Procs
  <2>2. CASE step[r].pc = "withdrawn" /\ proc[c].script # "running" /\ UNCHANGED proc
    <3>1. proc[c].script = "exited" /\ ~step[r].seen /\ HostInv(c)
      BY <1>0, <1>1, <2>2 DEF Procs, StepInv
    <3> QED BY <1>1, <2>2, <3>1 DEF OnlyLauncher, HostInv
  <2> QED BY <2>1, <2>2 DEF c
<1>3. \A g \in Hosts : HostInv(g)'
  BY <1>0, <1>1, <1>2 DEF HostInv, Exists, OnlyLauncher, NoProc
<1>4. \A g \in Hosts : Settled(g)
  BY <1>1, <1>2 DEF Settled, OnlyLauncher
<1>5. ASSUME NEW s \in Requests PROVE DirInv(s)'
  <2>1. CASE s # r
    <3>1. dir[s].st = "open" => OpenInv(s)'
      BY <1>0, <1>1, <1>2, <2>1, OpenFrame DEF DirInv
    <3> QED  BY <1>0, <2>1, <3>1 DEF DirInv, StepEnds
  <2>2. OpenInv(r)'
    BY <1>1, <1>2 DEF c, OpenInv, Owns, OnlyLauncher
  <2>3. DirInv(r)'
    BY <1>0, <1>1, <2>2 DEF DirInv, StepEnds
  <2> QED  BY <2>1, <2>3
<1>6. ASSUME NEW s \in Requests PROVE StepInv(s)'
  <2>1. CASE s = r
    BY <1>0, <1>1, <1>2, <2>1 DEF c, StepInv, StepEnds
  <2>2. CASE s # r
    <3>1. step'[s] = step[s] /\ step[s].host \in Hosts \cup {Nobody}
      BY <2>2 DEF StepEnds, DesktopInv, TypeInv, Steps
    <3> QED  BY <1>0, <1>4, <3>1 DEF StepInv, Settled
  <2> QED  BY <2>1, <2>2
<1>7. ReportIsTrue'
  BY <1>4, WorkerReports DEF StepEnds
<1> QED  BY <1>3, <1>5, <1>6, <1>7 DEF DesktopInv

\* A start that raced the withdrawal is ended.
LEMMA LateStartKeeps ==
  ASSUME DesktopInv, NEW r \in Requests, LateStart(r)
  PROVE  DesktopInv'
<1>0. step \in [Requests -> Steps] /\ proc \in [Hosts -> Procs] /\ DirInv(r) /\ StepInv(r)
  BY DEF DesktopInv, TypeInv
<1>1. /\ step[r].pc = "withdrawn" /\ "started" \in dir[r].files /\ UNCHANGED <<dir, clock, host, faults>>
      /\ proc' = [proc EXCEPT ![dir[r].claim] = TreeKilled(@)] /\ Ends(r, Verdict(r), dir[r].claim)
  BY DEF LateStart
<1>2. dir[r].claim \in Hosts
  BY <1>0, <1>1 DEF DirInv, OpenInv
<1> DEFINE c == dir[r].claim
           why == Verdict(r)
<1>3. step' \in [Requests -> Steps] /\ StepEnds(r, c)
  <2>1. Ends(r, why, c) /\ why \in {"stopped", "late", "unavailable", "refused", "lost", "failed"}
    BY <1>1, Verdicts
  <2>2. c \in Hosts
    BY <1>2
  <2> HIDE DEF c, why
  <2> QED  BY <1>0, <2>1, <2>2, Ending
<1>4. /\ proc' \in [Hosts -> Procs]
      /\ ProcKilled(c) \/ (proc[c].script # "running" /\ UNCHANGED proc)
  <2>1. proc' = [proc EXCEPT ![c] = TreeKilled(@)] /\ c \in Hosts
    BY <1>1, <1>2
  <2> HIDE DEF c
  <2>2. CASE proc[c].script = "running"
    <3>1. proc' = [proc EXCEPT ![c] = Killed(@)]
      BY <1>0, <2>1, <2>2 DEF TreeKilled
    <3> QED  BY <1>0, <2>1, <3>1, Killing
  <2>3. CASE proc[c].script # "running"
    <3>1. proc' = proc
      BY <1>0, <2>1, <2>3 DEF TreeKilled
    <3> QED  BY <1>0, <2>3, <3>1
  <2> QED  BY <2>2, <2>3
<1>5. TypeInv'
  BY <1>1, <1>3, <1>4 DEF DesktopInv, TypeInv
<1> QED  BY <1>1, <1>3, <1>4, <1>5, KillStep

\* Stop, the limit or a lost script while the worker follows: the tree is ended.
LEMMA FailFollowKeeps ==
  ASSUME DesktopInv, NEW r \in Requests, FailFollow(r)
  PROVE  DesktopInv'
<1>0. step \in [Requests -> Steps] /\ proc \in [Hosts -> Procs] /\ DirInv(r) /\ StepInv(r)
  BY DEF DesktopInv, TypeInv
<1>1. /\ step[r].pc = "following" /\ UNCHANGED <<dir, clock, host, faults>>
      /\ proc' = [proc EXCEPT ![step[r].host] = Killed(@)]
      /\ \E why \in {"stopped", "late", "unavailable", "lost"} : Ends(r, why, step[r].host)
  BY Verdicts DEF FailFollow
<1>2. "started" \in dir[r].files /\ step[r].host = dir[r].claim /\ dir[r].claim \in Hosts
  BY <1>0, <1>1 DEF StepInv, DirInv, OpenInv
<1>3. /\ step' \in [Requests -> Steps] /\ StepEnds(r, dir[r].claim)
      /\ proc' \in [Hosts -> Procs] /\ ProcKilled(dir[r].claim)
  <2> DEFINE c == step[r].host
  <2>1. PICK why \in {"stopped", "late", "unavailable", "lost"} : Ends(r, why, c)
    BY <1>1
  <2>2. proc' = [proc EXCEPT ![c] = Killed(@)] /\ c \in Hosts
    BY <1>1, <1>2
  <2>3. c = dir[r].claim
    BY <1>2
  <2> HIDE DEF c
  <2>4. step' \in [Requests -> Steps] /\ StepEnds(r, c)
    BY <1>0, <2>1, <2>2, Ending
  <2>5. proc' \in [Hosts -> Procs] /\ ProcKilled(c)
    BY <1>0, <2>2, Killing
  <2> QED  BY <2>3, <2>4, <2>5
<1>4. TypeInv'
  BY <1>1, <1>3 DEF DesktopInv, TypeInv
<1> QED  BY <1>1, <1>2, <1>3, <1>4, KillStep

\* The worker returns what the result says.
LEMMA ReturnKeeps ==
  ASSUME DesktopInv, NEW r \in Requests, Return(r)
  PROVE  DesktopInv'
<1> DEFINE h == step[r].host
           row == [step[r] EXCEPT !.pc = "ending", !.why = "returned", !.code = dir[r].code]
<1>0. /\ step \in [Requests -> Steps] /\ dir \in [Requests -> Dirs] /\ proc \in [Hosts -> Procs]
      /\ step[r] \in Steps /\ dir[r] \in Dirs
      /\ \A g \in Hosts : HostInv(g)
      /\ \A s \in Requests : DirInv(s) /\ StepInv(s)
      /\ ReportIsTrue
  BY DEF DesktopInv, TypeInv
<1>1. /\ step[r].pc = "following" /\ "exit" \in dir[r].files /\ OutputClosed(r) /\ proc[h].child \notin Tracked
      /\ step' = [step EXCEPT ![r] = row] /\ UNCHANGED <<dir, clock, host, proc, faults>>
  BY DEF Return
<1>2. /\ row \in Steps /\ row.pc = "ending" /\ row.why = "returned" /\ row.host = h /\ row.code = dir[r].code
      /\ row.seen = step[r].seen
  BY <1>0 DEF Steps, Dirs
<1> HIDE DEF row, h
<1>3. /\ step' \in [Requests -> Steps] /\ step'[r] = row
      /\ \A s \in Requests : s # r => step'[s] = step[s]
  BY <1>0, <1>1, <1>2, StepRow
<1>4. /\ h = dir[r].claim /\ h \in Hosts /\ OpenInv(r) /\ host[h].at = r /\ proc[h].script = "exited"
      /\ (dir[r].code = "ok") <=> (proc[h].by = "ok")
  BY <1>0, <1>1 DEF h, StepInv, DirInv, OpenInv, Owns
<1>5. proc[h].child \in {"none"} \cup {k \in {"hidden"} : host[h].forced \/ host[h].pc = "closed"}
  <2>1. proc[h].child \in {"none", "hidden"}
    BY <1>0, <1>1, <1>4 DEF Procs, Child
  <2>2. "done" \in dir[r].files \/ host[h].pc \in {"done", "out", "closed"}
    BY <1>1 DEF OutputClosed, h
  <2> QED  BY <1>1, <1>4, <2>1, <2>2 DEF OpenInv
<1>6. TypeInv'
  BY <1>1, <1>3 DEF DesktopInv, TypeInv
<1>7. \A g \in Hosts : HostInv(g)'
  BY <1>0, <1>1 DEF HostInv, Exists
<1>8. \A s \in Requests : DirInv(s)'
  BY <1>0, <1>1, <1>2, <1>3 DEF DirInv, OpenInv, Owns
<1>9. \A s \in Requests : StepInv(s)'
  BY <1>0, <1>1, <1>2, <1>3, <1>4 DEF StepInv
<1>10. ReportIsTrue'
  BY <1>0, <1>1, <1>2, <1>3, <1>4, <1>5 DEF ReportIsTrue
<1> QED  BY <1>6, <1>7, <1>8, <1>9, <1>10 DEF DesktopInv

\* The session ends, and launchers and scripts with it.
LEMMA SignOutKeeps ==
  ASSUME DesktopInv, SignOut
  PROVE  DesktopInv'
<1>0. /\ step \in [Requests -> Steps] /\ dir \in [Requests -> Dirs] /\ faults \in 0..MaxFaults
      /\ host \in [Hosts -> Launchers] /\ proc \in [Hosts -> Procs]
      /\ \A g \in Hosts : HostInv(g)
      /\ \A s \in Requests : DirInv(s) /\ StepInv(s)
      /\ \A s \in Requests : step[s].host \in Hosts \cup {Nobody}
  BY DEF DesktopInv, TypeInv, Steps
<1>1. UNCHANGED <<step, dir, clock>> /\ faults' \in 0..MaxFaults
  BY <1>0 DEF SignOut, Fault
<1>2. ASSUME NEW g \in Hosts
      PROVE  /\ host'[g] \in Launchers
             /\ host'[g].pc = (IF host[g].pc \in Looking \cup Preparing \cup Running THEN "out" ELSE host[g].pc)
             /\ host'[g].at = host[g].at /\ host'[g].todo = host[g].todo /\ host'[g].forced = host[g].forced
  <2> DEFINE row == [host[g] EXCEPT !.pc = "out"]
  <2>1. host[g] \in Launchers
    BY <1>0
  <2>2. row \in Launchers /\ row.pc = "out" /\ row.at = host[g].at /\ row.todo = host[g].todo /\ row.forced = host[g].forced
    BY <2>1 DEF Launchers
  <2>3. host'[g] = IF host[g].pc \in Looking \cup Preparing \cup Running THEN row ELSE host[g]
    BY DEF SignOut
  <2> HIDE DEF row
  <2> QED  BY <2>1, <2>2, <2>3
<1>3. ASSUME NEW g \in Hosts
      PROVE  /\ proc'[g] \in Procs /\ proc'[g].child = "none"
             /\ proc'[g].script = (IF proc[g].script = "running" THEN "exited" ELSE proc[g].script)
             /\ proc'[g].by = (IF proc[g].script = "running" THEN "killed" ELSE proc[g].by)
  <2>1. proc[g] \in Procs
    BY <1>0
  <2>2. proc'[g] = [Killed(proc[g]) EXCEPT !.child = "none"]
    BY DEF SignOut
  <2> QED  BY <2>1, <2>2 DEF Killed, Procs, Child
<1>4. host' \in [Hosts -> Launchers] /\ proc' \in [Hosts -> Procs]
  <2>1. host' = [g \in Hosts |-> host'[g]] /\ proc' = [g \in Hosts |-> proc'[g]]
    BY DEF SignOut
  <2> QED  BY <1>2, <1>3, <2>1
<1>5. TypeInv'
  BY <1>1, <1>4 DEF DesktopInv, TypeInv
<1>6. ASSUME NEW g \in Hosts PROVE HostInv(g)'
  BY <1>0, <1>1, <1>2, <1>3 DEF HostInv, Exists, NoProc, Procs
<1>7. \A g \in Hosts : Settled(g)
  BY <1>2, <1>3 DEF Settled
<1>8. ASSUME NEW s \in Requests PROVE DirInv(s)'
  <2>1. ASSUME dir[s].st = "open" PROVE OpenInv(s)'
    <3>1. OpenInv(s)
      BY <1>0, <2>1 DEF DirInv
    <3> DEFINE c == dir[s].claim
    <3>2. dir'[s] = dir[s]
      BY <1>1
    <3>3. ASSUME NEW g \in Hosts PROVE Owns(g, s)' => Owns(g, s)
      BY <1>2, <1>3 DEF Owns, Looking, Preparing, Running
    <3>4. CASE c \notin Hosts
      <4>1. dir[s].files \cap {"started", "exit", "done"} = {}
        BY <3>1, <3>4 DEF OpenInv
      <4>2. \A g \in Hosts : ~Owns(g, s)
        BY <3>1, <3>4 DEF OpenInv
      <4>3. \A g \in Hosts : host[g].at = s => host[g].pc \notin {"loop", "drain"}
        BY <3>1, <4>1 DEF OpenInv
      <4>4. \A g \in Hosts : host'[g].at = s => host'[g].pc \notin {"loop", "drain"}
        BY <1>2, <4>3 DEF Looking, Preparing, Running
      <4> QED  BY <3>2, <3>3, <4>1, <4>2, <4>4 DEF OpenInv
    <3>5. CASE c \in Hosts
      <4> HIDE DEF c
      <4>1. host[c].pc \in Preparing => proc[c].script = "none"
        BY <1>0, <3>5 DEF HostInv, NoProc
      <4>2. "started" \in dir[s].files => host'[c].at = s /\ proc'[c].script # "none" /\ host'[c].pc \in {"done", "out", "closed"}
        <5> SUFFICES ASSUME "started" \in dir[s].files
                     PROVE  host'[c].at = s /\ proc'[c].script # "none" /\ host'[c].pc \in {"done", "out", "closed"}
          OBVIOUS
        <5>1. Owns(c, s) /\ host[c].pc \in {"loop", "drain", "done", "out", "closed"}
          BY <3>1 DEF c, OpenInv
        <5>2. proc[c].script # "none"
          BY <5>1 DEF Owns, Preparing
        <5>3. host'[c].at = s /\ proc'[c].script # "none"
          BY <1>2, <1>3, <3>5, <5>1, <5>2 DEF Owns
        <5>4. host'[c].pc \in {"done", "out", "closed"}
          BY <1>2, <3>5, <5>1 DEF Looking, Preparing, Running
        <5> QED  BY <5>3, <5>4
      <4>3. \A g \in Hosts : host'[g].pc \notin {"loop", "drain"}
        BY <1>2 DEF Running
      <4>4. "exit" \in dir[s].files => proc'[c].script = "exited" /\ proc'[c].by = proc[c].by
        BY <1>3, <3>1, <3>5 DEF c, OpenInv
      <4>5. proc'[c].child = "none"
        BY <1>3, <3>5
      <4>6. "started" \in dir[s].files /\ host'[c].pc = "done" => "exit" \in dir[s].files
        BY <1>2, <3>1, <3>5 DEF c, OpenInv, Looking, Preparing, Running
      <4> QED  BY <3>1, <3>2, <3>3, <3>5, <4>2, <4>3, <4>4, <4>5, <4>6 DEF c, OpenInv, Owns
    <3> QED  BY <3>4, <3>5
  <2> QED  BY <1>0, <1>1, <2>1 DEF DirInv
<1>9. ASSUME NEW s \in Requests PROVE StepInv(s)'
  BY <1>0, <1>1, <1>2, <1>7 DEF StepInv, Settled
<1>10. ReportIsTrue'
  BY <1>1, <1>7, WorkerReports
<1> QED  BY <1>5, <1>6, <1>8, <1>9, <1>10 DEF DesktopInv

(***************************************************************************)
(* Theorems.                                                               *)
(***************************************************************************)
LEMMA InitHolds == Init => DesktopInv
<1> SUFFICES ASSUME Init PROVE DesktopInv
  OBVIOUS
<1>1. TypeInv
  <2>1. NoStep \in Steps /\ NoDir \in Dirs /\ NoClock \in [late: 0..2, expired: BOOLEAN] /\ NoProc \in Procs
    BY DEF NoStep, NoDir, NoClock, NoProc, Steps, Dirs, Procs, Child
  <2>2. NoHost \in Launchers /\ [NoHost EXCEPT !.pc = "queued"] \in Launchers
    BY DEF NoHost, Launchers, Looking
  <2>3. step \in [Requests -> Steps] /\ dir \in [Requests -> Dirs]
    BY <2>1 DEF Init
  <2>4. clock \in [Requests -> [late: 0..2, expired: BOOLEAN]] /\ proc \in [Hosts -> Procs] /\ faults \in 0..MaxFaults
    BY <2>1 DEF Init
  <2>5. host \in [Hosts -> Launchers]
    BY <2>2 DEF Init
  <2> QED  BY <2>3, <2>4, <2>5 DEF TypeInv
<1>2. \A h \in Hosts : HostInv(h)
  BY DEF Init, HostInv, NoHost, NoProc, Nobody
<1>3. \A r \in Requests : DirInv(r) /\ StepInv(r)
  BY DEF Init, DirInv, StepInv, NoStep, NoDir, NoHost
<1>4. ReportIsTrue
  BY DEF Init, ReportIsTrue, NoStep
<1> QED  BY <1>1, <1>2, <1>3, <1>4 DEF DesktopInv

\* Every step keeps the invariant.
LEMMA NextHolds == DesktopInv /\ [Next]_vars => DesktopInv'
<1> SUFFICES ASSUME DesktopInv, [Next]_vars PROVE DesktopInv'
  OBVIOUS
<1>1. CASE UNCHANGED vars
  BY <1>1 DEF vars, DesktopInv, TypeInv, HostInv, DirInv, OpenInv, Owns, StepInv, ReportIsTrue, Exists
<1>2. ASSUME NEW r \in Requests,
             Submit(r) \/ Worker(r) \/ CallbackRaises(r) \/ RequestStop(r) \/ Expire(r) \/ PassDeadline(r)
               \/ Silence(r) \/ Crash(r)
      PROVE  DesktopInv'
  <2>1. CASE Worker(r)
    BY <2>1, StartTaskKeeps, StartFailsKeeps, SeeClaimKeeps, GiveUpLaunchKeeps, SeeStartedKeeps, SeeResultKeeps,
       GiveUpStartKeeps, LateStartKeeps, NoStartKeeps, ReturnKeeps, FailFollowKeeps, DiscardKeeps DEF Worker
  <2> QED  BY <1>2, <2>1, SubmitKeeps, CallbackRaisesKeeps, RequestStopKeeps, ExpireKeeps, PassDeadlineKeeps,
              SilenceKeeps, CrashKeeps
<1>3. ASSUME NEW h \in Hosts,
             ListSpool(h) \/ Launcher(h) \/ Spawn(h) \/ Exit(h) \/ ChildExits(h) \/ CloseLauncher(h)
      PROVE  DesktopInv'
  <2>1. CASE Launcher(h)
    BY <2>1, InspectKeeps, NothingLeftKeeps, TakeClaimKeeps, CheckWithdrawnKeeps, StartScriptKeeps, WriteStartedKeeps,
       SeeExitKeeps, EndOverdueKeeps, EndOutputKeeps, FinishKeeps DEF Launcher
  <2> QED  BY <1>3, <2>1, ListSpoolKeeps, SpawnKeeps, ExitKeeps, ChildExitsKeeps, CloseLauncherKeeps
<1> QED  BY <1>1, <1>2, <1>3, SignOutKeeps DEF Next

\* The invariant holds of every worker, folder, launcher and script.
THEOREM DesktopInvariant == Spec => []DesktopInv
BY InitHolds, NextHolds, PTL DEF Spec

\* Type correctness.
THEOREM DesktopType == Spec => []TypeOK
<1>1. DesktopInv => TypeOK
  BY DEF DesktopInv, TypeInv, TypeOK, Steps, Dirs, Launchers, Procs
<1> QED  BY <1>1, DesktopInvariant, PTL

\* What a run reports of a script is the script's own exit, with its output
\* complete unless the launcher was closed or gave the output up.
THEOREM ReportTheorem == Spec => []ReportIsTrue
<1>1. DesktopInv => ReportIsTrue
  BY DEF DesktopInv
<1> QED  BY <1>1, DesktopInvariant, PTL

\* A script whose run has ended is over, or a launcher that nobody closed sees
\* at its next look that it has to end it; so is what it started, unless nobody
\* saw the script before it exited by itself (_kill_process_tree).
THEOREM EndedTheorem == Spec => []EndedIsOver
<1>1. ASSUME DesktopInv, NEW r \in Requests, NEW h \in Hosts, step[r].pc = "ended", host[h].at = r
      PROVE  IF step[r].host = h
             THEN /\ proc[h].script = "exited"
                  /\ proc[h].child \in Tracked => ~step[r].seen /\ proc[h].by \in {"ok", "failed"}
             ELSE proc[h].script = "running" => host[h].pc = "closed" \/ (dir[r].st = "left" /\ Overdue(r))
  <2>1. HostInv(h) /\ DirInv(r) /\ StepInv(r)
    BY <1>1 DEF DesktopInv
  <2>2. CASE step[r].host = h
    <3>1. step[r].host # Nobody
      BY <2>2
    <3> QED  BY <1>1, <2>1, <2>2, <3>1 DEF StepInv
  <2>3. CASE step[r].host # h
    BY <1>1, <2>1, <2>3 DEF HostInv, DirInv, Exists, Overdue
  <2> QED  BY <2>2, <2>3
<1>2. DesktopInv => EndedIsOver
  BY <1>1 DEF EndedIsOver
<1> QED  BY <1>2, DesktopInvariant, PTL
=============================================================================
