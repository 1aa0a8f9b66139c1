--------------------------- MODULE AgentRunsProofs ---------------------------
(***************************************************************************)
(* Proofs about AgentRuns, for any number of alerts, settings, callers,    *)
(* runs, changes and restarts and under every fault.                       *)
(***************************************************************************)
EXTENDS AgentRuns, FiniteSetTheorems, SequenceTheorems, TLAPS

USE BoundsAssumption

(***************************************************************************)
(* The invariant.                                                          *)
(***************************************************************************)
AgentSteps == {"idle", "claim", "check", "work", "tool", "result", "complete", "fail"}
CallerSteps == {"idle", "analyse", "create", "ask", "show", "submit"}
Agents == [pc : AgentSteps, run : {0} \cup DOMAIN runs, conf : Configs]
CallersType == [pc : CallerSteps, alert : Alerts \cup {NoCaller.alert}, ctx : Contexts, conf : Configs,
                run : {0} \cup DOMAIN runs]
Executing == {"check", "work", "tool", "result", "complete", "fail"}

TypeInv ==
  /\ TypeOK
  /\ changes \in 0..MaxChanges /\ (\A a \in Alerts : alert[a].rev <= changes)
  /\ agent \in Agents /\ (agent.run = 0 <=> agent.pc = "idle")
  /\ caller \in [Callers -> CallersType]
  /\ \A c \in Callers :
       /\ caller[c].pc \in {"analyse", "create", "ask", "show"} => caller[c].alert \in Alerts
       /\ caller[c].pc = "submit" => caller[c].run \in DOMAIN runs

\* What the thread executes is running.  An open step is the one in its hand,
\* or a run's that is still marked running although nobody executes it.
OpenAt(i) ==
  /\ runs[i].st = "running" /\ (i = agent.run \/ i \in lost)
  /\ i = agent.run => agent.pc \in {"tool", "result"}
AgentInv ==
  /\ agent.pc \in Executing => runs[agent.run].st = "running"
  /\ \A i \in DOMAIN runs : runs[i].step = "open" => OpenAt(i)
\* A cancellation is decided with the status.
CancelInv == \A i \in DOMAIN runs : runs[i].cancel => runs[i].st \notin {"queued", "completed"}
\* A run has one future: submitted once, executed once.
TicketInv ==
  /\ \A k \in DOMAIN queue : queue[k] # agent.run /\ runs[queue[k]].st # "running"
  /\ \A k, l \in DOMAIN queue : k # l => queue[k] # queue[l]
  /\ \A c \in Submitting :
       /\ caller[c].run # agent.run /\ runs[caller[c].run].st # "running"
       /\ \A k \in DOMAIN queue : queue[k] # caller[c].run
       /\ \A d \in Submitting : d # c => caller[d].run # caller[c].run
  /\ agent.pc = "claim" => runs[agent.run].st # "running"
RunsInv == TypeInv /\ AgentInv /\ CancelInv /\ TicketInv /\ CurrentRevision /\ NoOrphan

\* A function on 1..n is a sequence of length n.
LEMMA IsSeq ==
  ASSUME NEW S, NEW n \in Nat, NEW f \in [1..n -> S]
  PROVE  f \in Seq(S) /\ DOMAIN f = 1..n /\ Len(f) = n
BY SeqDef

\* Refreshing a row for new settings changes its mark only, and types it.
LEMMA RefreshedRow ==
  ASSUME NEW run \in Row, NEW conf
  PROVE  LET r == Refreshed(run, conf) IN
         /\ r \in Row /\ (r.sup <=> run.sup \/ Outdated(run, conf))
         /\ r.auto = run.auto /\ r.alert = run.alert /\ r.rev = run.rev /\ r.ctx = run.ctx
         /\ r.conf = run.conf /\ r.st = run.st /\ r.cancel = run.cancel /\ r.step = run.step
<1> DEFINE old == Outdated(run, conf)
<1>1. old \in BOOLEAN
  BY DEF Outdated
<1> HIDE DEF old
<1>2. Refreshed(run, conf) = [run EXCEPT !.sup = run.sup \/ old]
  BY DEF Refreshed, old
<1>3. (run.sup \/ old) \in BOOLEAN
  BY <1>1
<1> QED BY <1>2, <1>3 DEF Row, old

(***************************************************************************)
(* Steps that leave every row as it is, but for its mark.                  *)
(***************************************************************************)
Marks(i) ==
  /\ runs'[i] \in Row /\ (runs[i].sup => runs'[i].sup)
  /\ runs'[i].auto = runs[i].auto /\ runs'[i].alert = runs[i].alert /\ runs'[i].rev = runs[i].rev
  /\ runs'[i].st = runs[i].st /\ runs'[i].cancel = runs[i].cancel /\ runs'[i].step = runs[i].step
\* A step of alerts, settings or callers that only marks rows keeps the
\* invariant.
LEMMA MarksKeep ==
  ASSUME RunsInv, runs' \in Seq(Row), DOMAIN runs' = DOMAIN runs, \A i \in DOMAIN runs : Marks(i),
         UNCHANGED <<queue, agent, lost>>,
         config' \in Configs, alert' \in [Alerts -> [open : BOOLEAN, rev : 0..MaxChanges, ctx : Contexts]],
         changes' \in 0..MaxChanges, \A a \in Alerts : alert'[a].rev <= changes',
         \A i \in DOMAIN runs : ~runs'[i].sup =>
           alert'[runs[i].alert].open /\ runs[i].rev = alert'[runs[i].alert].rev,
         caller' \in [Callers -> CallersType],
         \A c \in Callers :
           /\ caller'[c].pc \in {"analyse", "create", "ask", "show"} => caller'[c].alert \in Alerts
           /\ caller[c].pc = "submit" <=> caller'[c].pc = "submit"
           /\ caller[c].pc = "submit" => caller'[c].run = caller[c].run
  PROVE  RunsInv'
<1>0. TypeInv /\ TypeOK /\ Len(runs') = Len(runs) /\ DOMAIN runs = 1..Len(runs) /\ Len(runs) \in Nat
  BY DEF RunsInv, TypeInv, TypeOK
<1>1. TypeOK'
  BY <1>0 DEF TypeOK
<1>2. CallersType' = CallersType /\ Agents' = Agents
  BY DEF CallersType, Agents
<1>3. TypeInv'
  BY <1>0, <1>1, <1>2 DEF TypeInv
<1>4. AgentInv' /\ CancelInv'
  <2>1. agent.pc \in Executing => agent.run \in DOMAIN runs
    BY <1>0 DEF TypeInv, Agents, Executing
  <2>a. ASSUME NEW i \in DOMAIN runs, runs'[i].step = "open" PROVE OpenAt(i)'
    <3>1. Marks(i) /\ agent' = agent /\ lost' = lost
      OBVIOUS
    <3>2. OpenAt(i)
      BY <2>a, <3>1 DEF RunsInv, AgentInv, Marks
    <3> QED BY <3>1, <3>2 DEF OpenAt, Marks
  <2>2. AgentInv'
    BY <2>1, <2>a DEF RunsInv, AgentInv, Marks
  <2>3. CancelInv'
    BY <1>0 DEF RunsInv, CancelInv, Marks
  <2> QED BY <2>2, <2>3
<1>5. Submitting' = Submitting
  BY DEF Submitting
<1>6. TicketInv'
  <2>1. \A k \in DOMAIN queue : queue[k] \in DOMAIN runs
    BY <1>0 DEF TypeOK
  <2>2. \A c \in Submitting : caller[c].run \in DOMAIN runs /\ caller'[c].run = caller[c].run
    BY <1>0 DEF TypeInv, Submitting
  <2>3. agent.pc = "claim" => agent.run \in DOMAIN runs
    BY <1>0 DEF TypeInv, Agents
  <2>4. TicketInv
    BY DEF RunsInv
  <2> QED BY <1>5, <2>1, <2>2, <2>3, <2>4 DEF TicketInv, Marks
<1>7. CurrentRevision'
  BY DEF CurrentRevision, Marks
<1>8. NoOrphan'
  BY <1>0, <1>5 DEF RunsInv, NoOrphan, Marks, Submitting
<1> QED BY <1>3, <1>4, <1>6, <1>7, <1>8 DEF RunsInv

(***************************************************************************)
(* Steps of the thread on the row in its hand.                             *)
(***************************************************************************)
AgentOnly == UNCHANGED <<alert, config, changes, queue, caller, lost>>
Keeps(new) ==
  /\ new \in Row /\ (Mine.sup => new.sup)
  /\ new.auto = Mine.auto /\ new.alert = Mine.alert /\ new.rev = Mine.rev /\ new.cancel = Mine.cancel
\* It goes on with a running row, or leaves a row that has ended.
Proceeds(new) ==
  /\ agent' \in Agents /\ agent'.pc # "claim" /\ (agent'.run = 0 <=> agent'.pc = "idle")
  /\ \/ agent'.run = agent.run /\ agent'.pc \in Executing /\ new.st = "running"
     \/ agent'.run = 0 /\ agent'.pc = "idle" /\ new.st \in Terminal
  /\ new.step = "open" => agent'.run = agent.run /\ agent'.pc \in {"tool", "result"}
  /\ new.cancel => new.st # "completed"
\* A step of the executor rewrites the run in hand only, and keeps the
\* invariant.
LEMMA AgentStep ==
  ASSUME RunsInv, agent.pc # "idle", NEW new, runs' = [runs EXCEPT ![agent.run] = new],
         Keeps(new), Proceeds(new), AgentOnly
  PROVE  RunsInv'
<1>0. /\ TypeInv /\ TypeOK /\ AgentInv /\ CancelInv /\ TicketInv /\ CurrentRevision /\ NoOrphan
      /\ runs \in Seq(Row) /\ DOMAIN runs = 1..Len(runs) /\ Len(runs) \in Nat
      /\ agent \in Agents /\ agent.run \in DOMAIN runs
      /\ \A k \in DOMAIN queue : queue[k] \in DOMAIN runs
      /\ \A c \in Submitting : caller[c].run \in DOMAIN runs
  BY DEF RunsInv, TypeInv, TypeOK, Agents, Submitting
<1>1. /\ runs' \in Seq(Row) /\ DOMAIN runs' = DOMAIN runs /\ Len(runs') = Len(runs)
      /\ runs'[agent.run] = new /\ \A i \in DOMAIN runs : i # agent.run => runs'[i] = runs[i]
  BY <1>0 DEF Keeps
<1>2. TypeOK'
  BY <1>0, <1>1 DEF TypeOK, AgentOnly, Proceeds, Agents
<1>3. CallersType' = CallersType /\ Agents' = Agents /\ Submitting' = Submitting
  BY <1>1 DEF CallersType, Agents, Submitting, AgentOnly
<1>4. TypeInv'
  BY <1>0, <1>1, <1>2, <1>3 DEF TypeInv, Proceeds, AgentOnly
<1>5. AgentInv'
  <2>1. agent'.pc \in Executing => runs'[agent'.run].st = "running"
    BY <1>0, <1>1 DEF Proceeds, Executing
  <2>2. ASSUME NEW i \in DOMAIN runs, runs'[i].step = "open" PROVE OpenAt(i)'
    <3>1. CASE i = agent.run
      BY <1>1, <2>2, <3>1 DEF Proceeds, OpenAt
    <3>2. CASE i # agent.run
      <4>1. runs'[i] = runs[i] /\ OpenAt(i) /\ lost' = lost /\ i # 0
        BY <1>0, <1>1, <2>2, <3>2 DEF AgentInv, AgentOnly
      <4> QED BY <3>2, <4>1 DEF OpenAt, Proceeds
    <3> QED BY <3>1, <3>2
  <2> QED BY <1>1, <2>1, <2>2 DEF AgentInv
<1>6. CancelInv'
  BY <1>0, <1>1 DEF CancelInv, Proceeds, Terminal, Keeps
<1>7. TicketInv'
  <2>1. agent'.run = agent.run \/ agent'.run = 0
    BY DEF Proceeds
  <2>2. 0 \notin DOMAIN runs
    BY <1>0
  <2>3. agent'.pc # "claim" /\ queue' = queue /\ caller' = caller
    BY DEF Proceeds, AgentOnly
  <2> QED BY <1>0, <1>1, <1>3, <2>1, <2>2, <2>3 DEF TicketInv
<1>8. CurrentRevision'
  BY <1>0, <1>1 DEF CurrentRevision, Keeps, AgentOnly, Mine
<1>9. NoOrphan'
  BY <1>0, <1>1, <1>3 DEF NoOrphan, Proceeds, AgentOnly, Live, Terminal
<1> QED BY <1>4, <1>5, <1>6, <1>7, <1>8, <1>9 DEF RunsInv

\* The row in the hand of the thread.
LEMMA InHand ==
  ASSUME RunsInv, agent.pc # "idle"
  PROVE  /\ Mine \in Row /\ agent \in Agents /\ agent.run \in DOMAIN runs /\ agent.run # 0
         /\ runs \in Seq(Row)
         /\ agent.pc \in Executing => Mine.st = "running"
         /\ agent.pc = "claim" => Mine.st # "running"
         /\ Mine.step = "open" => agent.pc \in {"tool", "result"}
         /\ Mine.cancel => Mine.st \notin {"queued", "completed"}
         /\ \A conf : Refreshed(Mine, conf) \in Row
BY RefreshedRow DEF RunsInv, TypeInv, TypeOK, AgentInv, OpenAt, CancelInv, TicketInv, Agents, Mine

\* The executor goes on with the run it has.
LEMMA Goes ==
  ASSUME RunsInv, agent.pc # "idle", NEW pc \in Executing, Goto(pc)
  PROVE  agent' \in Agents /\ agent'.pc = pc /\ agent'.run = agent.run
BY InHand DEF Goto, Agents, AgentSteps, Executing

\* The executor lets go of its run.
LEMMA Finishes ==
  ASSUME RunsInv, Ends
  PROVE  agent' \in Agents /\ agent'.pc = "idle" /\ agent'.run = 0
<1>1. config \in Configs
  BY DEF RunsInv, TypeInv, TypeOK
<1>2. (CHOOSE c \in Configs : TRUE) \in Configs
  BY <1>1
<1> QED BY <1>2 DEF Ends, NoAgent, Agents, AgentSteps

\* Every step of the thread on a row.
LEMMA ThreadStep ==
  ASSUME RunsInv, Claim \/ Check \/ Work \/ Tool \/ Result \/ Complete \/ FailRun
  PROVE  RunsInv'
<1>0. agent.pc # "idle" /\ AgentOnly
  BY DEF Claim, Check, Work, Tool, Result, Complete, FailRun, AgentOnly, environment
<1>a. ASSUME NEW conf PROVE /\ Keeps(Refreshed(Mine, conf)) /\ Refreshed(Mine, conf).st = Mine.st
                            /\ Refreshed(Mine, conf).step = Mine.step
  BY <1>0, InHand, RefreshedRow DEF Keeps
<1>b. Keeps(Mine)
  BY <1>0, InHand DEF Keeps
<1>c. ASSUME Raises, Mine.st = "running", Mine.step # "open" PROVE RunsInv'
  <2>1. Goto("fail") /\ runs' = [runs EXCEPT ![agent.run] = Mine]
    BY <1>0, <1>c, InHand DEF Raises, Mine
  <2>2. Proceeds(Mine)
    BY <1>0, <1>c, <2>1, Goes, InHand DEF Proceeds, Executing
  <2> QED BY <1>0, <1>b, <2>1, <2>2, AgentStep
<1>d. ASSUME NEW run, Keeps(run), run.st = "running", NEW step \in {"closed", "refused"},
             Update([run EXCEPT !.step = step]), NEW pc \in Executing, Goto(pc)
      PROVE  RunsInv'
  <2> DEFINE new == [run EXCEPT !.step = step]
  <2>1. Keeps(new) /\ new.st = "running" /\ new.step # "open"
    BY <1>d DEF Keeps, Row
  <2>2. runs' = [runs EXCEPT ![agent.run] = new]
    BY <1>d DEF Update
  <2> HIDE DEF new
  <2>3. Proceeds(new)
    BY <1>0, <1>d, <2>1, Goes, InHand DEF Proceeds, Executing
  <2> QED BY <1>0, <2>1, <2>2, <2>3, AgentStep
<1>1. CASE Claim
  <2> DEFINE run == Refreshed(Mine, agent.conf)
  <2>0. Keeps(run) /\ run.st = Mine.st /\ run.step # "open" /\ Mine.st # "running"
        /\ (Mine.st = "queued" => ~run.cancel)
    BY <1>0, <1>1, <1>a, InHand DEF Claim, Row, Keeps
  <2> HIDE DEF run
  <2>1. CASE run.sup /\ run.st = "queued"
    <3> DEFINE new == [run EXCEPT !.st = "failed"]
    <3>1. Keeps(new) /\ new.st = "failed" /\ new.step # "open"
      BY <2>0 DEF Keeps, Row, Terminal
    <3>2. runs' = [runs EXCEPT ![agent.run] = new] /\ Ends
      BY <1>1, <2>1 DEF Claim, Update, run
    <3> HIDE DEF new
    <3>3. Proceeds(new)
      BY <3>1, <3>2, Finishes DEF Proceeds, Terminal
    <3> QED BY <1>0, <3>1, <3>2, <3>3, AgentStep
  <2>2. CASE ~(run.sup /\ run.st = "queued") /\ run.st = "queued"
    <3> DEFINE new == [run EXCEPT !.st = "running", !.conf = agent.conf]
    <3>0. agent.conf \in Configs
      BY <1>0, InHand DEF Agents
    <3>1. Keeps(new) /\ new.st = "running" /\ new.step # "open"
      BY <2>0, <3>0 DEF Keeps, Row, Live
    <3>2. runs' = [runs EXCEPT ![agent.run] = new] /\ Goto("check")
      BY <1>1, <2>0, <2>2 DEF Claim, Update, run
    <3> HIDE DEF new
    <3>3. Proceeds(new)
      BY <1>0, <3>1, <3>2, Goes, InHand DEF Proceeds, Executing
    <3> QED BY <1>0, <3>1, <3>2, <3>3, AgentStep
  <2>3. CASE run.st # "queued"
    <3>1. runs' = [runs EXCEPT ![agent.run] = run] /\ Ends
      BY <1>1, <2>3 DEF Claim, Update, run
    <3>2. run.st \in Terminal /\ (run.cancel => run.st # "completed")
      BY <1>0, <2>0, <2>3, InHand DEF Keeps, Row, Live
    <3>3. Proceeds(run)
      BY <2>0, <3>1, <3>2, Finishes DEF Proceeds
    <3> QED BY <1>0, <2>0, <3>1, <3>3, AgentStep
  <2> QED BY <2>1, <2>2, <2>3
<1>2. CASE Check
  <2>1. Keeps(Checked) /\ Checked.st = "running" /\ Checked.step # "open"
    BY <1>0, <1>2, <1>a, <1>b, InHand DEF Check, Executing, Checked
  <2>2. CASE Update(Checked) /\ (Goto("work") \/ Goto("fail"))
    <3>1. runs' = [runs EXCEPT ![agent.run] = Checked]
      BY <2>2 DEF Update
    <3>2. Proceeds(Checked)
      BY <1>0, <2>1, <2>2, Goes, InHand DEF Proceeds, Executing
    <3> QED BY <1>0, <2>1, <3>1, <3>2, AgentStep
  <2>3. CASE Raises
    BY <1>0, <1>2, <1>c, <2>3, InHand DEF Check, Executing
  <2> QED BY <1>2, <2>2, <2>3 DEF Check
<1>3. CASE Work
  <2>1. Mine.st = "running" /\ Mine.step # "open"
    BY <1>0, <1>3, InHand DEF Work, Executing, Row
  <2>2. CASE Goto("fail") /\ UNCHANGED runs
    <3>1. Proceeds(Mine)
      BY <1>0, <2>1, <2>2, Goes, InHand DEF Proceeds, Executing
    <3>2. runs' = [runs EXCEPT ![agent.run] = Mine]
      BY <1>0, <2>2, InHand DEF Mine
    <3> QED BY <1>0, <1>b, <3>1, <3>2, AgentStep
  <2>3. ASSUME NEW pc \in {"tool", "result"}, Goto(pc), Update([Mine EXCEPT !.step = "open"]) PROVE RunsInv'
    <3> DEFINE new == [Mine EXCEPT !.step = "open"]
    <3>1. Keeps(new) /\ new.st = "running" /\ new.step = "open"
      BY <1>0, <2>1, InHand DEF Keeps, Row
    <3>2. runs' = [runs EXCEPT ![agent.run] = new]
      BY <2>3 DEF Update
    <3> HIDE DEF new
    <3>3. Proceeds(new)
      BY <1>0, <2>3, <3>1, Goes, InHand DEF Proceeds, Executing
    <3> QED BY <1>0, <3>1, <3>2, <3>3, AgentStep
  <2> QED BY <1>3, <2>2, <2>3 DEF Work
<1>4. CASE Tool
  <2>1. Mine.st = "running" /\ "check" \in Executing /\ "fail" \in Executing
    BY <1>0, <1>4, InHand DEF Tool, Executing
  <2> QED BY <1>4, <1>b, <1>d, <2>1 DEF Tool, Refuses
<1>5. CASE Result
  <2>1. /\ Keeps(Checked) /\ Checked.st = "running" /\ Mine.st = "running"
        /\ {"complete", "work", "fail"} \subseteq Executing
    BY <1>0, <1>5, <1>a, <1>b, InHand DEF Result, Executing, Checked
  <2> QED BY <1>5, <1>b, <1>d, <2>1 DEF Result, Refuses
<1>6. CASE Complete
  <2> DEFINE run == Refreshed(Mine, Mine.conf)
             new == [run EXCEPT !.st = IF @ # "running" THEN @ ELSE IF run.cancel THEN "cancelled" ELSE "completed"]
  <2>1. Keeps(run) /\ run.st = "running" /\ run.step # "open" /\ Mine.st = "running" /\ Mine.step # "open"
    BY <1>0, <1>6, <1>a, InHand DEF Complete, Executing, Row
  <2>2. CASE Raises
    BY <1>c, <2>1, <2>2
  <2>3. CASE Update(new) /\ Ends
    <3>1. runs' = [runs EXCEPT ![agent.run] = new]
      BY <2>3 DEF Update
    <3> HIDE DEF run
    <3>2. Keeps(new) /\ new.st = (IF run.cancel THEN "cancelled" ELSE "completed") /\ new.step # "open"
          /\ new.cancel = run.cancel
      BY <2>1 DEF Keeps, Row, Terminal
    <3> HIDE DEF new
    <3>3. Proceeds(new)
      BY <2>3, <3>2, Finishes DEF Proceeds, Terminal
    <3> QED BY <1>0, <3>1, <3>2, <3>3, AgentStep
  <2> QED BY <1>6, <2>2, <2>3 DEF Complete
<1>7. CASE FailRun
  <2> DEFINE new == [Mine EXCEPT !.st = IF @ \in Terminal THEN @ ELSE IF Mine.cancel THEN "cancelled" ELSE "failed"]
  <2>1. Mine.st = "running" /\ Mine.step # "open"
    BY <1>0, <1>7, InHand DEF FailRun, Executing, Row
  <2>2. runs' = [runs EXCEPT ![agent.run] = new] /\ Ends
    BY <1>7 DEF FailRun, Update
  <2>3. Keeps(new) /\ new.st \in {"cancelled", "failed"} /\ new.step # "open"
    BY <1>0, <2>1, InHand DEF Keeps, Row, Terminal
  <2> HIDE DEF new
  <2>4. Proceeds(new)
    BY <2>2, <2>3, Finishes DEF Proceeds, Terminal
  <2> QED BY <1>0, <2>2, <2>3, <2>4, AgentStep
<1> QED BY <1>1, <1>2, <1>3, <1>4, <1>5, <1>6, <1>7

\* The thread takes a run from its queue.
LEMMA BeginStep == ASSUME RunsInv, Begin PROVE RunsInv'
<1>0. /\ TypeInv /\ TypeOK /\ AgentInv /\ CancelInv /\ TicketInv /\ CurrentRevision /\ NoOrphan
      /\ runs' = runs /\ DOMAIN runs = 1..Len(runs) /\ Len(runs) \in Nat
      /\ queue \in Seq(1..Len(runs)) /\ queue # <<>> /\ queue' = Tail(queue)
      /\ agent.pc = "idle" /\ agent.run = 0 /\ config \in Configs
      /\ UNCHANGED <<alert, config, changes, caller, lost>>
  BY DEF RunsInv, TypeInv, TypeOK, Begin, environment
<1>1. /\ agent' = [pc |-> "claim", run |-> Head(queue), conf |-> config]
      /\ queue[1] = Head(queue) /\ 1 \in DOMAIN queue
  BY <1>0 DEF Begin
<1>2. agent'.pc = "claim" /\ agent'.run = queue[1] /\ queue[1] \in DOMAIN runs /\ agent' \in Agents
  BY <1>0, <1>1 DEF Agents, AgentSteps
<1>3. /\ queue' \in Seq(1..Len(runs)) /\ \A k \in DOMAIN queue' : k + 1 \in DOMAIN queue /\ queue'[k] = queue[k + 1]
      /\ \A k \in DOMAIN queue : k = 1 \/ (k - 1 \in DOMAIN queue' /\ queue'[k - 1] = queue[k])
      /\ DOMAIN queue \subseteq Nat \ {0} /\ DOMAIN queue' \subseteq Nat \ {0}
  BY <1>0
<1>4. CallersType' = CallersType /\ Agents' = Agents /\ Submitting' = Submitting
  BY <1>0 DEF CallersType, Agents, Submitting
<1>5. TypeInv'
  <2>1. TypeOK'
    BY <1>0, <1>2, <1>3 DEF TypeOK
  <2> QED BY <1>0, <1>2, <1>4, <2>1 DEF TypeInv
<1>6. AgentInv' /\ CancelInv' /\ CurrentRevision'
  <2>1. ASSUME NEW i \in DOMAIN runs, runs[i].step = "open" PROVE OpenAt(i)'
    <3>1. runs[i].st = "running" /\ (i = agent.run \/ i \in lost)
      BY <1>0, <2>1 DEF AgentInv, OpenAt
    <3>2. i # 0 /\ i # queue[1]
      BY <1>0, <1>1, <3>1 DEF TicketInv
    <3> QED BY <1>0, <1>2, <3>1, <3>2 DEF OpenAt
  <2>2. AgentInv'
    BY <1>0, <1>2, <2>1 DEF AgentInv, Executing
  <2> QED BY <1>0, <2>2 DEF CancelInv, CurrentRevision
<1>7. TicketInv'
  <2>1. \A k \in DOMAIN queue' : queue'[k] # agent'.run /\ runs'[queue'[k]].st # "running"
    BY <1>0, <1>2, <1>3 DEF TicketInv
  <2>2. \A k, l \in DOMAIN queue' : k # l => queue'[k] # queue'[l]
    <3> SUFFICES ASSUME NEW k \in DOMAIN queue', NEW l \in DOMAIN queue', k # l PROVE queue'[k] # queue'[l]
      OBVIOUS
    <3>1. k + 1 # l + 1
      BY <1>3
    <3> QED BY <1>0, <1>3, <3>1 DEF TicketInv
  <2>3. \A c \in Submitting :
         /\ caller'[c].run # agent'.run /\ runs'[caller'[c].run].st # "running"
         /\ \A k \in DOMAIN queue' : queue'[k] # caller'[c].run
         /\ \A d \in Submitting : d # c => caller'[d].run # caller'[c].run
    BY <1>0, <1>1, <1>2, <1>3 DEF TicketInv
  <2>4. runs'[agent'.run].st # "running"
    BY <1>0, <1>1, <1>2 DEF TicketInv
  <2> QED BY <1>4, <2>1, <2>2, <2>3, <2>4 DEF TicketInv
<1>8. NoOrphan'
  <2> SUFFICES ASSUME NEW i \in DOMAIN runs, runs[i].st \in Live
               PROVE  \/ agent'.run = i \/ i \in lost'
                      \/ /\ runs'[i].st = "queued"
                         /\ i \in {queue'[k] : k \in DOMAIN queue'} \cup {caller'[c].run : c \in Submitting'}
    BY <1>0 DEF NoOrphan
  <2>1. CASE \E k \in DOMAIN queue : i = queue[k] /\ runs[i].st = "queued"
    <3>1. PICK k \in DOMAIN queue : i = queue[k]
      BY <2>1
    <3>2. CASE k = 1
      BY <1>2, <3>1, <3>2
    <3>3. CASE k # 1
      <4>1. k - 1 \in DOMAIN queue' /\ queue'[k - 1] = i
        BY <1>3, <3>1, <3>3
      <4> QED BY <1>0, <2>1, <4>1
    <3> QED BY <3>2, <3>3
  <2>2. CASE i \in lost \/ (runs[i].st = "queued" /\ \E c \in Submitting : i = caller[c].run)
    BY <1>0, <1>4, <2>2
  <2> QED BY <1>0, <2>1, <2>2 DEF NoOrphan
<1> QED BY <1>5, <1>6, <1>7, <1>8 DEF RunsInv

\* A write of the thread raises.
LEMMA RaisesStep == ASSUME RunsInv, WriteRaises PROVE RunsInv'
<1>0. /\ TypeInv /\ TypeOK /\ AgentInv /\ CancelInv /\ TicketInv /\ CurrentRevision /\ NoOrphan
      /\ UNCHANGED <<alert, config, changes, runs, queue, caller>> /\ lost' = lost \cup {agent.run}
      /\ agent.pc \notin {"idle", "tool", "result"} /\ agent.run \in DOMAIN runs /\ 0 \notin DOMAIN runs
      /\ DOMAIN runs = 1..Len(runs) /\ \A k \in DOMAIN queue : queue[k] \in DOMAIN runs
      /\ \A c \in Submitting : caller[c].run \in DOMAIN runs
  BY DEF RunsInv, TypeInv, TypeOK, WriteRaises, environment, Agents, Submitting
<1>1. agent' \in Agents /\ agent'.pc = "idle" /\ agent'.run = 0
  BY Finishes DEF WriteRaises
<1>2. CallersType' = CallersType /\ Agents' = Agents /\ Submitting' = Submitting
  BY <1>0 DEF CallersType, Agents, Submitting
<1>3. TypeInv'
  <2>1. TypeOK'
    <3>1. lost' \subseteq 1..Len(runs)
      BY <1>0 DEF TypeOK
    <3>2. agent'.run \in 0..Len(runs)
      BY <1>1, <1>0 DEF TypeOK
    <3> QED BY <1>0, <3>1, <3>2 DEF TypeOK
  <2> QED BY <1>0, <1>1, <1>2, <2>1 DEF TypeInv
<1>4. AgentInv' /\ CancelInv' /\ CurrentRevision'
  BY <1>0, <1>1 DEF AgentInv, OpenAt, CancelInv, CurrentRevision, Executing
<1>5. TicketInv'
  BY <1>0, <1>1, <1>2 DEF TicketInv
<1>6. NoOrphan'
  BY <1>0, <1>1, <1>2 DEF NoOrphan
<1> QED BY <1>3, <1>4, <1>5, <1>6 DEF RunsInv

\* request_cancel.
LEMMA CancelStep == ASSUME RunsInv, NEW i \in DOMAIN runs, Cancel(i) PROVE RunsInv'
<1> DEFINE new == [runs[i] EXCEPT !.cancel = TRUE, !.st = IF @ = "queued" THEN "cancelled" ELSE @]
<1>0. /\ TypeInv /\ TypeOK /\ AgentInv /\ CancelInv /\ TicketInv /\ CurrentRevision /\ NoOrphan
      /\ UNCHANGED <<alert, config, changes, queue, caller, lost, agent>>
      /\ runs \in Seq(Row) /\ DOMAIN runs = 1..Len(runs) /\ Len(runs) \in Nat /\ runs[i].st \in Live
      /\ \A k \in DOMAIN queue : queue[k] \in DOMAIN runs
      /\ \A c \in Submitting : caller[c].run \in DOMAIN runs
      /\ (agent.pc # "idle" => agent.run \in DOMAIN runs) /\ runs[i] \in Row
  BY DEF RunsInv, TypeInv, TypeOK, Cancel, environment, Agents, Submitting
<1>1. /\ new \in Row /\ new.alert = runs[i].alert /\ new.rev = runs[i].rev /\ new.sup = runs[i].sup
      /\ new.step = runs[i].step /\ new.cancel = TRUE
      /\ new.st = IF runs[i].st = "queued" THEN "cancelled" ELSE "running"
  BY <1>0 DEF Row, Live, Terminal
<1>2. runs' = [runs EXCEPT ![i] = new]
  BY DEF Cancel
<1> HIDE DEF new
<1>3. /\ runs' \in Seq(Row) /\ DOMAIN runs' = DOMAIN runs /\ Len(runs') = Len(runs)
      /\ runs'[i] = new /\ \A j \in DOMAIN runs : j # i => runs'[j] = runs[j]
  BY <1>0, <1>1, <1>2
<1>4. CallersType' = CallersType /\ Agents' = Agents /\ Submitting' = Submitting
  BY <1>0, <1>3 DEF CallersType, Agents, Submitting
<1>5. TypeInv'
  <2>1. TypeOK'
    BY <1>0, <1>3 DEF TypeOK
  <2> QED BY <1>0, <1>3, <1>4, <2>1 DEF TypeInv
<1>6. AgentInv' /\ CancelInv' /\ CurrentRevision'
  BY SMTT(40), <1>0, <1>1, <1>3 DEF AgentInv, OpenAt, CancelInv, CurrentRevision, Executing
<1>7. TicketInv'
  <2>1. \A j \in DOMAIN runs : runs'[j].st = "running" => runs[j].st = "running"
    BY <1>0, <1>1, <1>3 DEF Live
  <2> QED BY <1>0, <1>4, <2>1 DEF TicketInv
<1>8. NoOrphan'
  BY <1>0, <1>1, <1>3, <1>4 DEF NoOrphan, Live
<1> QED BY <1>5, <1>6, <1>7, <1>8 DEF RunsInv

(***************************************************************************)
(* The alert and its settings change.                                      *)
(***************************************************************************)
LEMMA SupersedeRows ==
  ASSUME RunsInv, NEW ids, Supersede(ids)
  PROVE  /\ runs' \in Seq(Row) /\ DOMAIN runs' = DOMAIN runs
         /\ \A i \in DOMAIN runs : Marks(i) /\ (i \in ids => runs'[i].sup) /\ (i \notin ids => runs'[i] = runs[i])
<1>1. runs \in Seq(Row) /\ Len(runs) \in Nat /\ DOMAIN runs = 1..Len(runs)
  BY DEF RunsInv, TypeInv, TypeOK
<1>2. ASSUME NEW i \in DOMAIN runs
      PROVE  LET r == [runs[i] EXCEPT !.sup = TRUE] IN
             /\ r \in Row /\ r.sup = TRUE /\ r.auto = runs[i].auto /\ r.alert = runs[i].alert /\ r.rev = runs[i].rev
             /\ r.st = runs[i].st /\ r.cancel = runs[i].cancel /\ r.step = runs[i].step
  <2>1. runs[i] \in Row /\ TRUE \in BOOLEAN
    BY <1>1
  <2> QED BY <2>1 DEF Row
<1>3. \A i \in DOMAIN runs : runs[i] \in Row
  BY <1>1
<1>4. DOMAIN runs' = 1..Len(runs) /\ \A i \in DOMAIN runs :
        runs'[i] = IF i \in ids THEN [runs[i] EXCEPT !.sup = TRUE] ELSE runs[i]
  BY <1>1 DEF Supersede
<1>5. ASSUME NEW i \in DOMAIN runs PROVE
        runs'[i] \in Row /\ Marks(i) /\ (i \in ids => runs'[i].sup) /\ (i \notin ids => runs'[i] = runs[i])
  BY <1>2, <1>3, <1>4 DEF Marks
<1>6. runs' \in [1..Len(runs) -> Row]
  <2>1. runs' = [i \in 1..Len(runs) |-> IF i \in ids THEN [runs[i] EXCEPT !.sup = TRUE] ELSE runs[i]]
    BY <1>1 DEF Supersede
  <2> QED BY <1>1, <1>5, <2>1
<1> QED BY <1>1, <1>5, <1>6, IsSeq

\* Rows that stay keep their marks.
LEMMA SameRows ==
  ASSUME RunsInv, runs' = runs
  PROVE  runs' \in Seq(Row) /\ DOMAIN runs' = DOMAIN runs /\ \A i \in DOMAIN runs : Marks(i)
BY DEF RunsInv, TypeInv, TypeOK, Marks

\* The triggers on alerts and a change of the settings mark what they outdate.
LEMMA AlertStep ==
  ASSUME RunsInv,
         (\E a \in Alerts : NewEvidence(a) \/ NewContext(a) \/ CloseAlert(a) \/ ReopenAlert(a)) \/ NewSettings
  PROVE  RunsInv'
<1> DEFINE AlertSet == [open : BOOLEAN, rev : 0..MaxChanges, ctx : Contexts]
<1>0. /\ alert \in [Alerts -> AlertSet] /\ changes \in 0..MaxChanges /\ (\A a \in Alerts : alert[a].rev <= changes)
      /\ config \in Configs /\ caller \in [Callers -> CallersType] /\ CurrentRevision
      /\ \A i \in DOMAIN runs : runs[i].alert \in Alerts
      /\ \A c \in Callers :
           caller[c].pc \in {"analyse", "create", "ask", "show"} => caller[c].alert \in Alerts
  <2>1. TypeInv /\ TypeOK /\ CurrentRevision
    BY DEF RunsInv, TypeInv
  <2>2. \A i \in DOMAIN runs : runs[i].alert \in Alerts
    <3>1. \A i \in DOMAIN runs : runs[i] \in Row
      BY <2>1 DEF TypeOK
    <3> QED BY <3>1 DEF Row
  <2> QED BY <2>1, <2>2 DEF TypeInv, TypeOK
<1>1. ASSUME NEW a \in Alerts, NewEvidence(a) PROVE RunsInv'
  <2>0. PICK same \in BOOLEAN :
          alert' = [alert EXCEPT ![a].rev = @ + 1, ![a].ctx = IF same THEN @ ELSE changes']
    BY <1>1 DEF NewEvidence
  <2> DEFINE ctx == IF same THEN alert[a].ctx ELSE changes'
             n == alert[a].rev + 1
             new == [alert[a] EXCEPT !.rev = n, !.ctx = ctx]
  <2>1. changes' = changes + 1 /\ changes' \in 0..MaxChanges /\ n \in 0..MaxChanges /\ n <= changes'
    BY <1>0, <1>1 DEF NewEvidence, Change
  <2>2. alert' = [alert EXCEPT ![a] = new]
    BY <1>0, <2>0
  <2>3. Supersede({i \in Bound(a) : runs[i].rev # n})
    BY <1>1 DEF NewEvidence
  <2>4. n # alert[a].rev /\ alert[a].rev \in 0..MaxChanges
    BY <1>0
  <2>b. ctx \in Contexts
    BY <1>0, <2>1 DEF Contexts
  <2> HIDE DEF n, ctx
  <2>5. new \in AlertSet /\ new.rev = n
    BY <1>0, <2>1, <2>b
  <2> HIDE DEF new
  <2>6. alert' \in [Alerts -> AlertSet] /\ alert'[a] = new /\ \A b \in Alerts : b # a => alert'[b] = alert[b]
    BY <1>0, <2>2, <2>5
  <2>7. \A b \in Alerts : alert'[b].rev <= changes'
    BY <1>0, <2>1, <2>5, <2>6
  <2>8. \A i \in DOMAIN runs : ~runs'[i].sup =>
          alert'[runs[i].alert].open /\ runs[i].rev = alert'[runs[i].alert].rev
    <3> SUFFICES ASSUME NEW i \in DOMAIN runs, ~runs'[i].sup
                 PROVE  alert'[runs[i].alert].open /\ runs[i].rev = alert'[runs[i].alert].rev
      OBVIOUS
    <3>1. i \notin {j \in Bound(a) : runs[j].rev # n} /\ ~runs[i].sup
      BY <2>3, SupersedeRows DEF Marks
    <3>2. runs[i].alert # a
      BY <1>0, <2>4, <3>1 DEF Bound, CurrentRevision
    <3> QED BY <1>0, <2>6, <3>1, <3>2 DEF CurrentRevision
  <2>9. UNCHANGED <<queue, agent, lost, config, caller>>
    BY <1>1 DEF NewEvidence
  <2> QED BY <1>0, <2>1, <2>3, <2>6, <2>7, <2>8, <2>9, SupersedeRows, MarksKeep
<1>2. ASSUME NEW a \in Alerts, NewContext(a) PROVE RunsInv'
  <2>1. PICK ctx \in Contexts : alert' = [alert EXCEPT ![a].ctx = ctx]
    BY <1>2 DEF NewContext
  <2> DEFINE new == [alert[a] EXCEPT !.ctx = ctx]
  <2>2. alert' = [alert EXCEPT ![a] = new]
    BY <1>0, <2>1
  <2>3. new \in AlertSet /\ new.rev = alert[a].rev /\ new.open = alert[a].open
    BY <1>0
  <2> HIDE DEF new
  <2>4. /\ alert' \in [Alerts -> AlertSet]
        /\ \A b \in Alerts : alert'[b].rev = alert[b].rev /\ alert'[b].open = alert[b].open
    BY <1>0, <2>2, <2>3
  <2>5. UNCHANGED <<queue, agent, lost, config, caller, runs>> /\ changes' \in 0..MaxChanges /\ changes <= changes'
    BY <1>0, <1>2 DEF NewContext, Change
  <2>6. \A b \in Alerts : alert'[b].rev <= changes'
    BY <1>0, <2>4, <2>5
  <2> QED BY <1>0, <2>4, <2>5, <2>6, SameRows, MarksKeep DEF CurrentRevision
<1>3. ASSUME NEW a \in Alerts, CloseAlert(a) \/ ReopenAlert(a) PROVE RunsInv'
  <2>1. PICK open \in BOOLEAN : alert' = [alert EXCEPT ![a].open = open]
    BY <1>3 DEF CloseAlert, ReopenAlert
  <2> DEFINE new == [alert[a] EXCEPT !.open = open]
  <2>2. alert' = [alert EXCEPT ![a] = new]
    BY <1>0, <2>1
  <2>3. new \in AlertSet /\ new.rev = alert[a].rev
    BY <1>0
  <2> HIDE DEF new
  <2>4. /\ alert' \in [Alerts -> AlertSet]
        /\ \A b \in Alerts : alert'[b].rev = alert[b].rev /\ (b # a => alert'[b] = alert[b])
    BY <1>0, <2>2, <2>3
  <2>5. UNCHANGED <<queue, agent, lost, config, caller>> /\ changes' \in 0..MaxChanges /\ changes <= changes'
    BY <1>0, <1>3 DEF CloseAlert, ReopenAlert, Change
  <2>6. \A b \in Alerts : alert'[b].rev <= changes'
    BY <1>0, <2>4, <2>5
  <2>7. CASE CloseAlert(a)
    <3>1. Supersede(Bound(a))
      BY <2>7 DEF CloseAlert
    <3>2. \A i \in DOMAIN runs : ~runs'[i].sup => runs[i].alert # a /\ ~runs[i].sup
      BY <3>1, SupersedeRows DEF Bound, Marks
    <3> QED BY <1>0, <2>4, <2>5, <2>6, <3>1, <3>2, SupersedeRows, MarksKeep DEF CurrentRevision
  <2>8. CASE ReopenAlert(a)
    <3>1. runs' = runs /\ ~alert[a].open
      BY <2>8 DEF ReopenAlert
    <3>2. \A i \in DOMAIN runs : ~runs[i].sup => runs[i].alert # a
      BY <1>0, <3>1 DEF CurrentRevision
    <3> QED BY <1>0, <2>4, <2>5, <2>6, <3>1, <3>2, SameRows, MarksKeep DEF CurrentRevision
  <2> QED BY <1>3, <2>7, <2>8
<1>4. ASSUME NewSettings PROVE RunsInv'
  <2>1. UNCHANGED <<queue, agent, lost, alert, caller, runs>> /\ changes' \in 0..MaxChanges /\ changes <= changes'
        /\ config' \in Configs
    BY <1>0, <1>4 DEF NewSettings, Change
  <2>2. \A b \in Alerts : alert'[b].rev <= changes'
    BY <1>0, <2>1
  <2> QED BY <1>0, <2>1, <2>2, SameRows, MarksKeep DEF CurrentRevision
<1> QED BY <1>1, <1>2, <1>3, <1>4

(***************************************************************************)
(* Requests and the enrichment job.                                        *)
(***************************************************************************)
LEMMA NoCallerType ==
  ASSUME RunsInv PROVE NoCaller \in CallersType /\ NoCaller.pc = "idle" /\ NoCaller.run = 0
<1>1. (CHOOSE c \in Configs : TRUE) \in Configs
  BY DEF RunsInv, TypeInv, TypeOK
<1>2. 0 \in Contexts
  BY DEF Contexts
<1> DEFINE a0 == CHOOSE a \in Alerts : TRUE
<1>3. NoCaller.alert = a0
  BY DEF NoCaller
<1> HIDE DEF a0
<1> QED BY <1>1, <1>2, <1>3 DEF NoCaller, CallersType, CallerSteps, a0

\* What a caller's step has to show when it inserts no run.
LEMMA CallerKeeps ==
  ASSUME RunsInv, NEW c \in Callers, caller[c].pc # "submit",
         runs' \in Seq(Row), DOMAIN runs' = DOMAIN runs, \A i \in DOMAIN runs : Marks(i),
         UNCHANGED <<alert, config, changes, queue, agent, lost>>,
         NEW new \in CallersType, new.pc # "submit",
         new.pc \in {"analyse", "create", "ask", "show"} => new.alert \in Alerts,
         caller' = [caller EXCEPT ![c] = new]
  PROVE  RunsInv'
<1>0. /\ alert \in [Alerts -> [open : BOOLEAN, rev : 0..MaxChanges, ctx : Contexts]]
      /\ changes \in 0..MaxChanges /\ (\A a \in Alerts : alert[a].rev <= changes)
      /\ config \in Configs /\ caller \in [Callers -> CallersType] /\ CurrentRevision
      /\ \A d \in Callers :
           caller[d].pc \in {"analyse", "create", "ask", "show"} => caller[d].alert \in Alerts
  BY DEF RunsInv, TypeInv, TypeOK
<1>1. /\ caller' \in [Callers -> CallersType]
      /\ \A d \in Callers :
           /\ caller'[d].pc \in {"analyse", "create", "ask", "show"} => caller'[d].alert \in Alerts
           /\ caller[d].pc = "submit" <=> caller'[d].pc = "submit"
           /\ caller[d].pc = "submit" => caller'[d].run = caller[d].run
  BY <1>0
<1>2. \A i \in DOMAIN runs : ~runs'[i].sup =>
        alert'[runs[i].alert].open /\ runs[i].rev = alert'[runs[i].alert].rev
  BY <1>0 DEF CurrentRevision, Marks
<1> QED BY <1>0, <1>1, <1>2, MarksKeep

\* What the insertion of a run has to show.
LEMMA InsertKeeps ==
  ASSUME RunsInv, NEW c \in Callers, caller[c].pc # "submit",
         NEW marked \in Seq(Row), DOMAIN marked = DOMAIN runs,
         \A i \in DOMAIN runs : /\ runs[i].sup => marked[i].sup
                                /\ marked[i].alert = runs[i].alert /\ marked[i].rev = runs[i].rev
                                /\ marked[i].st = runs[i].st /\ marked[i].cancel = runs[i].cancel
                                /\ marked[i].step = runs[i].step,
         NEW run \in Row, run.st = "queued", ~run.cancel, run.step # "open",
         ~run.sup => alert[run.alert].open /\ run.rev = alert[run.alert].rev,
         Insert(c, marked, run),
         UNCHANGED <<alert, config, changes, queue, agent, lost>>
  PROVE  RunsInv'
<1> DEFINE n == Len(runs) + 1
           new == [NoCaller EXCEPT !.pc = "submit", !.run = n]
<1>0. /\ TypeInv /\ TypeOK /\ AgentInv /\ CancelInv /\ TicketInv /\ CurrentRevision /\ NoOrphan
      /\ DOMAIN runs = 1..Len(runs) /\ Len(runs) \in Nat
      /\ \A k \in DOMAIN queue : queue[k] \in DOMAIN runs
      /\ agent.run \in {0} \cup DOMAIN runs /\ agent \in Agents
      /\ \A d \in Submitting : caller[d].run \in DOMAIN runs
      /\ caller \in [Callers -> CallersType]
      /\ \A d \in Callers :
           caller[d].pc \in {"analyse", "create", "ask", "show"} => caller[d].alert \in Alerts
  <2>1. TypeInv /\ TypeOK
    BY DEF RunsInv, TypeInv
  <2>2. agent \in Agents => agent.run \in {0} \cup DOMAIN runs
    BY DEF Agents
  <2> QED BY <2>1, <2>2 DEF RunsInv, TypeInv, TypeOK, Submitting
<1>1. runs' = Append(marked, run) /\ caller' = [caller EXCEPT ![c] = new]
  BY DEF Insert
<1>2. Len(marked) = Len(runs)
  BY <1>0
<1>3. /\ runs' \in Seq(Row) /\ DOMAIN runs' = 1..n /\ Len(runs') = n /\ n \in Nat
      /\ n \notin DOMAIN runs /\ n # 0 /\ DOMAIN runs' = DOMAIN runs \cup {n}
      /\ runs'[n] = run /\ \A i \in DOMAIN runs : runs'[i] = marked[i]
  BY <1>0, <1>1, <1>2
<1> HIDE DEF n
<1>4. new \in CallersType' /\ new.pc = "submit" /\ new.run = n
  BY <1>3, NoCallerType DEF CallersType, CallerSteps
<1> HIDE DEF new
<1>5. CallersType \subseteq CallersType' /\ Agents \subseteq Agents'
  BY <1>3 DEF CallersType, Agents
<1>6. /\ caller' \in [Callers -> CallersType'] /\ caller'[c] = new
      /\ \A d \in Callers : d # c => caller'[d] = caller[d]
  BY <1>0, <1>1, <1>4, <1>5
<1>7. Submitting' = Submitting \cup {c} /\ c \notin Submitting
  BY <1>4, <1>6 DEF Submitting
<1>8. TypeInv'
  <2>1. 1..Len(runs) \subseteq 1..Len(runs') /\ 0..Len(runs) \subseteq 0..Len(runs')
    BY <1>0, <1>3 DEF n
  <2>2. queue' \in Seq(1..Len(runs'))
    <3>1. queue \in Seq(1..Len(runs)) /\ Len(queue) \in Nat /\ queue \in [1..Len(queue) -> 1..Len(runs')]
      BY <1>0, <2>1 DEF TypeOK
    <3> QED BY <3>1, IsSeq
  <2>3. TypeOK'
    BY <1>0, <1>3, <2>1, <2>2 DEF TypeOK
  <2>4. agent' \in Agents'
    BY <1>0, <1>5
  <2> QED BY <1>0, <1>3, <1>4, <1>6, <2>3, <2>4 DEF TypeInv
<1>a. \A i \in DOMAIN runs :
        /\ (runs[i].sup => runs'[i].sup) /\ runs'[i].alert = runs[i].alert /\ runs'[i].rev = runs[i].rev
        /\ runs'[i].st = runs[i].st /\ runs'[i].cancel = runs[i].cancel /\ runs'[i].step = runs[i].step
  BY <1>3
<1>b. /\ runs'[n].st = "queued" /\ ~runs'[n].cancel /\ runs'[n].step # "open"
      /\ (~runs'[n].sup => alert[runs'[n].alert].open /\ runs'[n].rev = alert[runs'[n].alert].rev)
  BY <1>3
<1>9. AgentInv'
  <2>1. agent.pc \in Executing => agent.run \in DOMAIN runs
    BY <1>0 DEF TypeInv, Executing
  <2>2. ASSUME NEW i \in DOMAIN runs, runs'[i].step = "open" PROVE OpenAt(i)'
    BY <1>0, <1>a, <2>2 DEF AgentInv, OpenAt
  <2> QED BY <1>0, <1>3, <1>a, <1>b, <2>1, <2>2 DEF AgentInv
<1>10. CancelInv' /\ CurrentRevision'
  <2>1. CancelInv'
    BY <1>0, <1>3, <1>a, <1>b DEF CancelInv
  <2>2. CurrentRevision'
    <3> SUFFICES ASSUME NEW i \in DOMAIN runs', ~runs'[i].sup
                 PROVE  alert'[runs'[i].alert].open /\ runs'[i].rev = alert'[runs'[i].alert].rev
      BY DEF CurrentRevision
    <3>1. CASE i = n
      BY <1>b, <3>1
    <3>2. CASE i \in DOMAIN runs
      <4>1. ~runs[i].sup /\ runs'[i].alert = runs[i].alert /\ runs'[i].rev = runs[i].rev
        BY <1>a, <3>2
      <4> QED BY <1>0, <3>2, <4>1 DEF CurrentRevision
    <3> QED BY <1>3, <3>1, <3>2
  <2> QED BY <2>1, <2>2
<1>11. TicketInv'
  <2>1. agent.pc = "claim" => agent.run \in DOMAIN runs
    BY <1>0 DEF TypeInv
  <2>2. \A d \in Submitting : d # c /\ caller'[d].run = caller[d].run
    BY <1>6, <1>7 DEF Submitting
  <2>3. caller'[c].run = n /\ runs'[n].st = "queued" /\ n # agent.run
    BY <1>0, <1>3, <1>4, <1>6
  <2> QED BY <1>0, <1>3, <1>7, <2>1, <2>2, <2>3 DEF TicketInv
<1>12. NoOrphan'
  <2>1. \A d \in Submitting : d # c /\ caller'[d].run = caller[d].run
    BY <1>6, <1>7 DEF Submitting
  <2>2. caller'[c].run = n /\ runs'[n].st = "queued"
    BY <1>3, <1>4, <1>6
  <2> SUFFICES ASSUME NEW i \in DOMAIN runs', runs'[i].st \in Live
               PROVE  \/ agent'.run = i \/ i \in lost'
                      \/ /\ runs'[i].st = "queued"
                         /\ i \in {queue'[k] : k \in DOMAIN queue'} \cup {caller'[d].run : d \in Submitting'}
    BY DEF NoOrphan
  <2>3. CASE i = n
    BY <1>7, <1>b, <2>2, <2>3
  <2>4. CASE i \in DOMAIN runs
    <3>1. runs'[i].st = runs[i].st
      BY <1>a, <2>4
    <3>2. {caller[d].run : d \in Submitting} \subseteq {caller'[d].run : d \in Submitting'}
      BY <1>7, <2>1
    <3>3. \/ agent.run = i \/ i \in lost
          \/ /\ runs[i].st = "queued"
             /\ i \in {queue[k] : k \in DOMAIN queue} \cup {caller[d].run : d \in Submitting}
      BY <1>0, <2>4, <3>1 DEF NoOrphan
    <3>4. queue' = queue /\ agent' = agent /\ lost' = lost
      OBVIOUS
    <3>5. CASE agent.run = i \/ i \in lost
      BY <3>4, <3>5
    <3>6. CASE runs[i].st = "queued" /\ i \in {queue[k] : k \in DOMAIN queue}
      BY <3>1, <3>4, <3>6
    <3>7. CASE runs[i].st = "queued" /\ i \in {caller[d].run : d \in Submitting}
      <4>1. i \in {caller'[d].run : d \in Submitting'}
        BY <3>2, <3>7
      <4> QED BY <3>1, <3>7, <4>1
    <3> QED BY <3>3, <3>5, <3>6, <3>7
  <2> QED BY <1>3, <2>3, <2>4
<1> QED BY <1>8, <1>9, <1>10, <1>11, <1>12 DEF RunsInv

\* A row that a caller marks, or refreshes.
LEMMA MarkedRows ==
  ASSUME RunsInv, NEW c \in Callers
  PROVE  /\ Marked(c) \in Seq(Row) /\ DOMAIN Marked(c) = DOMAIN runs
         /\ \A i \in DOMAIN runs :
              /\ Marked(c)[i] \in Row /\ (runs[i].sup => Marked(c)[i].sup)
              /\ Marked(c)[i].auto = runs[i].auto /\ Marked(c)[i].alert = runs[i].alert
              /\ Marked(c)[i].rev = runs[i].rev /\ Marked(c)[i].st = runs[i].st
              /\ Marked(c)[i].cancel = runs[i].cancel /\ Marked(c)[i].step = runs[i].step
<1>1. runs \in Seq(Row) /\ Len(runs) \in Nat /\ DOMAIN runs = 1..Len(runs)
  BY DEF RunsInv, TypeInv, TypeOK
<1>2. ASSUME NEW i \in DOMAIN runs
      PROVE  /\ Marked(c)[i] \in Row /\ (runs[i].sup => Marked(c)[i].sup)
             /\ Marked(c)[i].auto = runs[i].auto /\ Marked(c)[i].alert = runs[i].alert
             /\ Marked(c)[i].rev = runs[i].rev /\ Marked(c)[i].st = runs[i].st
             /\ Marked(c)[i].cancel = runs[i].cancel /\ Marked(c)[i].step = runs[i].step
  <2> DEFINE old == Supersedes(c, runs[i])
  <2>1. old \in BOOLEAN
    BY DEF Supersedes
  <2>2. Marked(c)[i] = [runs[i] EXCEPT !.sup = runs[i].sup \/ old]
    BY <1>1 DEF Marked
  <2> HIDE DEF old
  <2>3. (runs[i].sup \/ old) \in BOOLEAN
    BY <2>1
  <2>4. runs[i] \in Row
    BY <1>1
  <2> QED BY <2>2, <2>3, <2>4 DEF Row
<1>3. DOMAIN Marked(c) = 1..Len(runs) /\ Marked(c) \in [1..Len(runs) -> Row]
  <2>1. DOMAIN Marked(c) = 1..Len(runs)
    BY <1>1 DEF Marked
  <2>2. Marked(c) = [i \in 1..Len(runs) |-> Marked(c)[i]]
    BY <1>1 DEF Marked
  <2> QED BY <1>1, <1>2, <2>1, <2>2
<1> QED BY <1>1, <1>2, <1>3, IsSeq

\* A caller reads, creates a run in one transaction, or shows one.
LEMMA CallerStep ==
  ASSUME RunsInv, NEW c \in Callers,
         ReadSettings(c) \/ ReadContext(c) \/ CreateAuto(c) \/ CreateManual(c) \/ Show(c)
  PROVE  RunsInv'
<1>0. /\ alert \in [Alerts -> [open : BOOLEAN, rev : 0..MaxChanges, ctx : Contexts]]
      /\ config \in Configs /\ caller \in [Callers -> CallersType]
      /\ caller[c].pc # "submit" /\ UNCHANGED <<alert, config, changes, queue, agent, lost>>
      /\ (caller[c].pc \in {"analyse", "create", "ask", "show"} => caller[c].alert \in Alerts)
      /\ caller[c] \in CallersType
  <2>1. TypeInv /\ TypeOK
    BY DEF RunsInv, TypeInv
  <2> QED BY <2>1 DEF TypeInv, TypeOK, ReadSettings, ReadContext, CreateAuto, CreateManual, Show, environment
<1>a. ASSUME Return(c), runs' \in Seq(Row), DOMAIN runs' = DOMAIN runs, \A i \in DOMAIN runs : Marks(i)
      PROVE  RunsInv'
  BY <1>0, <1>a, NoCallerType, CallerKeeps DEF Return
<1>1. CASE ReadSettings(c)
  <2>1. PICK pc \in {"analyse", "ask", "show"}, a \in Alerts :
          caller' = [caller EXCEPT ![c] = [NoCaller EXCEPT !.pc = pc, !.alert = a, !.conf = config]]
    BY <1>1 DEF ReadSettings
  <2> DEFINE new == [NoCaller EXCEPT !.pc = pc, !.alert = a, !.conf = config]
  <2>2. new \in CallersType /\ new.pc = pc /\ new.alert = a
    BY <1>0, NoCallerType DEF CallersType, CallerSteps
  <2> HIDE DEF new
  <2>3. runs' = runs /\ caller' = [caller EXCEPT ![c] = new]
    BY <1>1, <2>1 DEF ReadSettings, new
  <2> QED BY <1>0, <2>2, <2>3, SameRows, CallerKeeps
<1>2. CASE ReadContext(c)
  <2> DEFINE new == [caller[c] EXCEPT !.pc = "create", !.ctx = alert[caller[c].alert].ctx]
  <2>1. caller[c].alert \in Alerts /\ alert[caller[c].alert].ctx \in Contexts
    BY <1>0, <1>2 DEF ReadContext
  <2>2. new \in CallersType /\ new.pc = "create" /\ new.alert = caller[c].alert
    BY <1>0, <2>1 DEF CallersType, CallerSteps
  <2>3. runs' = runs /\ caller' = [caller EXCEPT ![c] = new]
    BY <1>2 DEF ReadContext
  <2> HIDE DEF new
  <2> QED BY <1>0, <2>1, <2>2, <2>3, SameRows, CallerKeeps
<1>3. CASE CreateAuto(c)
  <2> DEFINE a == caller[c].alert
             run == NewRun(TRUE, a, caller[c].ctx, caller[c].conf)
  <2>1. CASE Return(c) /\ UNCHANGED runs
    BY <1>a, <2>1, SameRows
  <2>2. CASE Return(c) /\ runs' = Marked(c)
    BY <1>a, <2>2, MarkedRows DEF Marks
  <2>3. CASE alert[a].open /\ Insert(c, Marked(c), run)
    <3>1. a \in Alerts /\ alert[a].rev \in 0..MaxChanges
      BY <1>0, <1>3 DEF CreateAuto
    <3>2. caller[c].ctx \in Contexts /\ caller[c].conf \in Configs
      BY <1>0 DEF CallersType
    <3>3. run \in Row /\ run.st = "queued" /\ ~run.cancel /\ run.step # "open" /\ run.alert = a /\ run.rev = alert[a].rev
      BY <3>1, <3>2 DEF NewRun, Row, Live
    <3> HIDE DEF run
    <3> QED BY <1>0, <2>3, <3>3, MarkedRows, InsertKeeps
  <2> QED BY <1>3, <2>1, <2>2, <2>3 DEF CreateAuto
<1>4. CASE CreateManual(c)
  <2> DEFINE a == caller[c].alert
             run == NewRun(FALSE, a, 0, caller[c].conf)
  <2>1. CASE Return(c) /\ UNCHANGED runs
    BY <1>a, <2>1, SameRows
  <2>2. CASE alert[a].open /\ Insert(c, runs, run)
    <3>1. a \in Alerts /\ alert[a].rev \in 0..MaxChanges
      BY <1>0, <1>4 DEF CreateManual
    <3>2. 0 \in Contexts /\ caller[c].conf \in Configs
      BY <1>0 DEF CallersType, Contexts
    <3>3. run \in Row /\ run.st = "queued" /\ ~run.cancel /\ run.step # "open" /\ run.alert = a /\ run.rev = alert[a].rev
      BY <3>1, <3>2 DEF NewRun, Row, Live
    <3>4. runs \in Seq(Row)
      BY DEF RunsInv, TypeInv, TypeOK
    <3> HIDE DEF run
    <3> QED BY <1>0, <2>2, <3>3, <3>4, InsertKeeps
  <2> QED BY <1>4, <2>1, <2>2 DEF CreateManual
<1>5. CASE Show(c)
  <2>1. PICK i \in DOMAIN runs : runs' = [runs EXCEPT ![i] = Refreshed(runs[i], caller[c].conf)]
    BY <1>5 DEF Show
  <2>2. runs \in Seq(Row) /\ runs[i] \in Row
    BY DEF RunsInv, TypeInv, TypeOK
  <2> DEFINE new == Refreshed(runs[i], caller[c].conf)
  <2>3. new \in Row /\ (runs[i].sup => new.sup) /\ new.auto = runs[i].auto /\ new.alert = runs[i].alert
        /\ new.rev = runs[i].rev /\ new.st = runs[i].st /\ new.cancel = runs[i].cancel /\ new.step = runs[i].step
    BY <2>2, RefreshedRow
  <2> HIDE DEF new
  <2>4. runs' = [runs EXCEPT ![i] = new]
    BY <2>1 DEF new
  <2>5. runs' \in Seq(Row) /\ DOMAIN runs' = DOMAIN runs /\ \A j \in DOMAIN runs : Marks(j)
    BY <2>2, <2>3, <2>4 DEF Marks
  <2>6. Return(c)
    BY <1>5 DEF Show
  <2> QED BY <1>a, <2>5, <2>6
<1> QED BY SMTT(40), <1>1, <1>2, <1>3, <1>4, <1>5

\* submit_run.
LEMMA SubmitStep == ASSUME RunsInv, NEW c \in Callers, Submit(c) PROVE RunsInv'
<1> DEFINE n == caller[c].run
<1>0. /\ TypeInv /\ TypeOK /\ AgentInv /\ CancelInv /\ TicketInv /\ CurrentRevision /\ NoOrphan
      /\ DOMAIN runs = 1..Len(runs) /\ Len(runs) \in Nat
      /\ UNCHANGED <<alert, config, changes, runs, agent, lost>>
      /\ queue \in Seq(1..Len(runs)) /\ c \in Submitting /\ n \in DOMAIN runs
      /\ queue' = Append(queue, n) /\ caller' = [caller EXCEPT ![c] = NoCaller]
      /\ caller \in [Callers -> CallersType]
  BY DEF RunsInv, TypeInv, TypeOK, Submit, environment, Submitting, Return
<1>1. CallersType' = CallersType /\ Agents' = Agents
  BY <1>0 DEF CallersType, Agents
<1>2. /\ caller' \in [Callers -> CallersType] /\ caller'[c].pc = "idle"
      /\ \A d \in Callers : d # c => caller'[d] = caller[d]
  BY <1>0, NoCallerType
<1>3. Submitting' = Submitting \ {c}
  BY <1>2 DEF Submitting
<1> HIDE DEF n
<1>4. /\ queue' \in Seq(1..Len(runs)) /\ Len(queue) + 1 \in DOMAIN queue' /\ queue'[Len(queue) + 1] = n
      /\ DOMAIN queue' = DOMAIN queue \cup {Len(queue) + 1}
      /\ \A k \in DOMAIN queue : queue'[k] = queue[k]
  BY <1>0
<1>5. TypeInv'
  <2>1. TypeOK'
    BY <1>0, <1>4 DEF TypeOK
  <2> QED BY <1>0, <1>1, <1>2, <2>1 DEF TypeInv
<1>6. AgentInv' /\ CancelInv' /\ CurrentRevision'
  BY <1>0 DEF AgentInv, OpenAt, CancelInv, CurrentRevision
<1>7. TicketInv'
  <2>1. /\ n # agent.run /\ runs[n].st # "running" /\ \A k \in DOMAIN queue : queue[k] # n
        /\ \A d \in Submitting : d # c => caller[d].run # n
    BY <1>0 DEF TicketInv, n
  <2>2. \A d \in Submitting' : d \in Submitting /\ d # c /\ caller'[d] = caller[d]
    BY <1>2, <1>3 DEF Submitting
  <2>3. \A k, l \in DOMAIN queue' : k # l => queue'[k] # queue'[l]
    BY <1>0, <1>4, <2>1 DEF TicketInv
  <2>4. \A k \in DOMAIN queue' : queue'[k] # agent'.run /\ runs'[queue'[k]].st # "running"
    BY <1>0, <1>4, <2>1 DEF TicketInv
  <2>5. \A d \in Submitting' :
          /\ caller'[d].run # agent'.run /\ runs'[caller'[d].run].st # "running"
          /\ \A k \in DOMAIN queue' : queue'[k] # caller'[d].run
          /\ \A e \in Submitting' : e # d => caller'[e].run # caller'[d].run
    BY <1>0, <1>4, <2>1, <2>2 DEF TicketInv
  <2>6. agent'.pc = "claim" => runs'[agent'.run].st # "running"
    BY <1>0 DEF TicketInv
  <2> QED BY <2>3, <2>4, <2>5, <2>6 DEF TicketInv
<1>8. NoOrphan'
  <2>1. \A i : i \in {queue[k] : k \in DOMAIN queue} => i \in {queue'[k] : k \in DOMAIN queue'}
    BY <1>4
  <2>2. n \in {queue'[k] : k \in DOMAIN queue'}
    BY <1>4
  <2>3. \A i : i \in {caller[d].run : d \in Submitting} => i = n \/ i \in {caller'[d].run : d \in Submitting'}
    BY <1>2, <1>3 DEF n, Submitting
  <2> QED BY <1>0, <2>1, <2>2, <2>3 DEF NoOrphan
<1> QED BY <1>5, <1>6, <1>7, <1>8 DEF RunsInv

(***************************************************************************)
(* The restart.                                                            *)
(***************************************************************************)
LEMMA RecoveredRow ==
  ASSUME NEW run \in Row
  PROVE  LET new == Recovered(run) IN
         /\ new \in Row /\ (run.sup => new.sup) /\ new.alert = run.alert /\ new.rev = run.rev
         /\ new.cancel = run.cancel /\ new.st # "running"
         /\ new.st = "queued" => run.st = "queued" /\ ~run.cancel
         /\ new.st = "completed" => run.st = "completed"
         /\ new.step = "open" => run.step = "open" /\ run.st # "running"
<1> DEFINE r == IF run.st \in Live THEN Refreshed(run, config) ELSE run
           st == IF run.st \notin Live THEN run.st ELSE IF r.cancel THEN "cancelled"
                 ELSE IF r.sup \/ run.st = "running" THEN "failed" ELSE run.st
           step == IF r.st = "running" THEN "closed" ELSE r.step
<1>1. r \in Row /\ (run.sup => r.sup) /\ r.alert = run.alert /\ r.rev = run.rev /\ r.cancel = run.cancel
      /\ r.st = run.st /\ r.step = run.step
  BY RefreshedRow
<1>2. Recovered(run) = [r EXCEPT !.st = st, !.step = step]
  BY <1>1 DEF Recovered
<1>3. /\ st \in Live \cup Terminal /\ st # "running"
      /\ st = "queued" => run.st = "queued" /\ ~run.cancel
      /\ st = "completed" => run.st = "completed"
  BY <1>1 DEF Row, Live, Terminal
<1>4. step \in {"closed", "open", "refused"} /\ (step = "open" => run.step = "open" /\ run.st # "running")
  BY <1>1 DEF Row
<1> HIDE DEF r, st, step
<1> QED BY <1>1, <1>2, <1>3, <1>4 DEF Row

\* The queue after a restart holds every queued row once.
LEMMA ResubmittedRows ==
  ASSUME NEW n \in Nat, NEW rows \in [1..n -> Row], NEW q \in Resubmitted(rows)
  PROVE  /\ q \in Seq(1..n)
         /\ \A k \in DOMAIN q : q[k] \in 1..n /\ rows[q[k]].st = "queued"
         /\ \A k, l \in DOMAIN q : k # l => q[k] # q[l]
         /\ \A i \in 1..n : rows[i].st = "queued" => \E k \in DOMAIN q : q[k] = i
<1> DEFINE W == Waiting(rows)
<1>1. W \subseteq 1..n /\ \A i \in 1..n : i \in W <=> rows[i].st = "queued"
  BY DEF Waiting
<1>2. IsFiniteSet(W)
  BY <1>1, FS_Interval, FS_Subset
<1>3. Cardinality(W) \in Nat
  BY <1>2, FS_CardinalityType
<1>4. /\ q \in [1..Cardinality(W) -> W]
      /\ \A k, l \in DOMAIN q : k < l => q[k] < q[l]
      /\ \A i \in W : \E k \in DOMAIN q : q[k] = i
  BY DEF Resubmitted
<1> HIDE DEF W
<1>5. q \in Seq(W) /\ DOMAIN q = 1..Cardinality(W) /\ Len(q) = Cardinality(W)
  BY <1>3, <1>4, IsSeq
<1>6. q \in [1..Cardinality(W) -> 1..n]
  BY <1>1, <1>4
<1>7. q \in Seq(1..n)
  BY <1>3, <1>6, IsSeq
<1>8. ASSUME NEW k \in DOMAIN q, NEW l \in DOMAIN q, k # l PROVE q[k] # q[l]
  <2>1. k \in Nat /\ l \in Nat /\ q[k] \in Nat /\ q[l] \in Nat
    BY <1>3, <1>5, <1>6
  <2>2. k < l \/ l < k
    BY <1>8, <2>1
  <2> QED BY <1>4, <2>1, <2>2
<1>9. \A k \in DOMAIN q : q[k] \in 1..n /\ rows[q[k]].st = "queued"
  BY <1>1, <1>4, <1>5
<1> QED BY <1>1, <1>4, <1>7, <1>8, <1>9

\* recover_interrupted_runs and the resubmission after it, or neither.
LEMMA RestartStep == ASSUME RunsInv, Restart PROVE RunsInv'
<1>0. /\ TypeInv /\ TypeOK /\ AgentInv /\ CancelInv /\ CurrentRevision
      /\ runs \in Seq(Row) /\ DOMAIN runs = 1..Len(runs) /\ Len(runs) \in Nat /\ 0 \notin DOMAIN runs
      /\ \A i \in DOMAIN runs : runs[i] \in Row
      /\ UNCHANGED <<alert, config, changes>>
      /\ agent' = NoAgent /\ caller' = [c \in Callers |-> NoCaller]
  BY DEF RunsInv, TypeInv, TypeOK, Restart, environment
<1>1. agent' \in Agents /\ agent'.pc = "idle" /\ agent'.run = 0
  BY <1>0, Finishes DEF Ends
<1>2. caller' \in [Callers -> CallersType] /\ (\A c \in Callers : caller'[c].pc = "idle") /\ Submitting' = {}
  BY <1>0, NoCallerType DEF Submitting
<1>3. CASE runs' = [i \in DOMAIN runs |-> Recovered(runs[i])] /\ queue' \in Resubmitted(runs') /\ lost' = {}
  <2>1. /\ runs' \in [1..Len(runs) -> Row] /\ runs' \in Seq(Row) /\ DOMAIN runs' = DOMAIN runs
        /\ Len(runs') = Len(runs)
    <3>1. runs' \in [1..Len(runs) -> Row]
      BY <1>0, <1>3, RecoveredRow
    <3> QED BY <1>0, <3>1, IsSeq
  <2>2. \A i \in DOMAIN runs :
          /\ runs[i].sup => runs'[i].sup
          /\ runs'[i].alert = runs[i].alert /\ runs'[i].rev = runs[i].rev /\ runs'[i].cancel = runs[i].cancel
          /\ runs'[i].st # "running" /\ (runs'[i].st = "queued" => ~runs[i].cancel)
          /\ runs'[i].st = "completed" => runs[i].st = "completed"
          /\ runs'[i].step = "open" => runs[i].step = "open" /\ runs[i].st # "running"
    BY <1>0, <1>3, RecoveredRow
  <2>3. CallersType' = CallersType /\ Agents' = Agents
    BY <2>1 DEF CallersType, Agents
  <2>q. queue' \in Resubmitted(runs')
    BY <1>3
  <2>4. /\ queue' \in Seq(1..Len(runs))
        /\ \A k \in DOMAIN queue' : queue'[k] \in DOMAIN runs /\ runs'[queue'[k]].st = "queued"
        /\ \A k, l \in DOMAIN queue' : k # l => queue'[k] # queue'[l]
        /\ \A i \in DOMAIN runs : runs'[i].st = "queued" => \E k \in DOMAIN queue' : queue'[k] = i
    <3>1. Len(runs) \in Nat /\ DOMAIN runs = 1..Len(runs) /\ runs' \in [1..Len(runs) -> Row]
      BY <1>0, <2>1
    <3> QED BY <2>q, <3>1, ResubmittedRows
  <2>5. TypeInv'
    <3>1. TypeOK'
      BY <1>0, <1>1, <1>3, <2>1, <2>4 DEF TypeOK
    <3> QED BY <1>0, <1>1, <1>2, <2>3, <3>1 DEF TypeInv
  <2>6. AgentInv'
    <3>1. \A i \in DOMAIN runs : runs'[i].step # "open"
      BY <1>0, <2>2 DEF AgentInv, OpenAt
    <3> QED BY <1>1, <2>1, <3>1 DEF AgentInv, Executing
  <2>7. CancelInv' /\ CurrentRevision'
    <3>1. CancelInv'
      BY <1>0, <2>1, <2>2 DEF CancelInv
    <3>2. CurrentRevision'
      BY <1>0, <2>1, <2>2 DEF CurrentRevision
    <3> QED BY <3>1, <3>2
  <2>8. TicketInv'
    BY <1>0, <1>1, <1>2, <2>4 DEF TicketInv
  <2>9. NoOrphan'
    BY <2>1, <2>2, <2>4 DEF NoOrphan, Live
  <2> QED BY <2>5, <2>6, <2>7, <2>8, <2>9 DEF RunsInv
<1>4. CASE queue' = <<>> /\ lost' = {i \in DOMAIN runs : runs[i].st \in Live} /\ runs' = runs
  <2>1. CallersType' = CallersType /\ Agents' = Agents
    BY <1>4 DEF CallersType, Agents
  <2>2. TypeInv'
    <3>1. queue' \in Seq(1..Len(runs)) /\ lost' \subseteq 1..Len(runs) /\ agent'.run \in 0..Len(runs)
      BY <1>0, <1>1, <1>4
    <3>2. TypeOK'
      BY <1>0, <1>4, <3>1 DEF TypeOK
    <3> QED BY <1>0, <1>1, <1>2, <1>4, <2>1, <3>2 DEF TypeInv
  <2>3. AgentInv'
    BY <1>0, <1>1, <1>4 DEF AgentInv, OpenAt, Executing, Live
  <2>4. CancelInv' /\ CurrentRevision'
    BY <1>0, <1>4 DEF CancelInv, CurrentRevision
  <2>5. TicketInv'
    BY <1>1, <1>2, <1>4 DEF TicketInv
  <2>6. NoOrphan'
    BY <1>4 DEF NoOrphan
  <2> QED BY <2>2, <2>3, <2>4, <2>5, <2>6 DEF RunsInv
<1> QED BY <1>3, <1>4 DEF Restart

(***************************************************************************)
(* Theorems.                                                               *)
(***************************************************************************)
\* The invariant holds in every behaviour.
THEOREM RunsInvariant == Spec => []RunsInv
<1>1. Init => RunsInv
  <2> SUFFICES ASSUME Init PROVE RunsInv
    OBVIOUS
  <2>1. /\ runs = <<>> /\ queue = <<>> /\ lost = {} /\ agent = NoAgent /\ changes = 0 /\ config \in Configs
        /\ caller = [c \in Callers |-> NoCaller]
        /\ alert \in [Alerts -> [open : BOOLEAN, rev : {0}, ctx : {0}]]
    BY DEF Init
  <2>2. 0 \in Contexts /\ 0 \in 0..MaxChanges /\ (CHOOSE c \in Configs : TRUE) \in Configs
    BY <2>1 DEF Contexts
  <2>3. agent \in Agents /\ agent.pc = "idle" /\ agent.run = 0
    BY <2>1, <2>2 DEF NoAgent, Agents, AgentSteps
  <2>4. NoCaller \in CallersType /\ NoCaller.pc = "idle"
    <3> DEFINE a0 == CHOOSE a \in Alerts : TRUE
    <3>1. NoCaller.alert = a0
      BY DEF NoCaller
    <3> HIDE DEF a0
    <3> QED BY <2>2, <3>1 DEF NoCaller, CallersType, CallerSteps, a0
  <2> HIDE DEF NoCaller
  <2>5. caller \in [Callers -> CallersType] /\ \A c \in Callers : caller[c].pc = "idle"
    BY <2>1, <2>4
  <2>6. alert \in [Alerts -> [open : BOOLEAN, rev : 0..MaxChanges, ctx : Contexts]]
        /\ \A a \in Alerts : alert[a].rev <= changes
    BY <2>1, <2>2
  <2>7. runs \in Seq(Row) /\ queue \in Seq(1..Len(runs)) /\ DOMAIN runs = {} /\ DOMAIN queue = {} /\ Len(runs) = 0
    BY <2>1
  <2>8. TypeOK
    BY <2>1, <2>3, <2>6, <2>7 DEF TypeOK
  <2>9. TypeInv
    BY <2>1, <2>2, <2>3, <2>5, <2>6, <2>8 DEF TypeInv
  <2> QED BY <2>3, <2>5, <2>7, <2>9
          DEF RunsInv, AgentInv, CancelInv, TicketInv, CurrentRevision, NoOrphan, Submitting, Executing
<1>2. RunsInv /\ [Next]_vars => RunsInv'
  <2> SUFFICES ASSUME RunsInv, [Next]_vars PROVE RunsInv'
    OBVIOUS
  <2>1. CASE UNCHANGED vars
    <3>1. RunsInv
      OBVIOUS
    <3> QED BY <2>1, <3>1
        DEF vars, RunsInv, TypeInv, TypeOK, AgentInv, OpenAt, CancelInv, TicketInv, CurrentRevision, NoOrphan,
            Submitting, Agents, CallersType
  <2> QED BY <2>1, AlertStep, CallerStep, SubmitStep, CancelStep, BeginStep, ThreadStep, RaisesStep, RestartStep
          DEF Next, Agent
<1> QED BY <1>1, <1>2, PTL DEF Spec

\* Every variable has its type.
THEOREM RunsType == Spec => []TypeOK
<1>1. RunsInv => TypeOK
  BY DEF RunsInv, TypeInv
<1> QED BY <1>1, RunsInvariant, PTL

\* A run that is not superseded belongs to the present revision of an open alert.
THEOREM RevisionTheorem == Spec => []CurrentRevision
<1>1. RunsInv => CurrentRevision
  BY DEF RunsInv
<1> QED BY <1>1, RunsInvariant, PTL

\* A run whose cancellation was accepted does not complete.
THEOREM CancelTheorem == Spec => []CancelHolds
<1>1. RunsInv => CancelHolds
  BY DEF RunsInv, CancelInv, CancelHolds
<1> QED BY <1>1, RunsInvariant, PTL

\* An open audit step belongs to a run in progress, of the executor or lost.
THEOREM StepsTheorem == Spec => []StepsClosed
<1>1. RunsInv => StepsClosed
  BY DEF RunsInv, AgentInv, OpenAt, StepsClosed
<1> QED BY <1>1, RunsInvariant, PTL

\* A run that has not ended is executed, waits for the thread or is about to be
\* submitted, unless a write of its future failed or the recovery of a startup
\* left it.
THEOREM OrphanTheorem == Spec => []NoOrphan
<1>1. RunsInv => NoOrphan
  BY DEF RunsInv
<1> QED BY <1>1, RunsInvariant, PTL

(***************************************************************************)
(* How a row ages: its snapshot stays, its mark stays, a row that failed   *)
(* or was cancelled stays so, and one completes on its present context.    *)
(***************************************************************************)
Lapsed == {"failed", "cancelled"}
Ages(old, new) ==
  /\ new.auto = old.auto /\ new.alert = old.alert /\ new.rev = old.rev
  /\ old.auto => new.ctx = old.ctx /\ new.conf = old.conf
  /\ old.sup => new.sup
  /\ old.st \in Lapsed => new.st \in Lapsed
  /\ old.st # "completed" /\ new.st = "completed" /\ old.auto /\ ~new.sup => old.ctx = alert[old.alert].ctx
AllAge == \A i \in DOMAIN runs : i \in DOMAIN runs' /\ Ages(runs[i], runs'[i])

\* A row ages by a change of its mark, its step or its cancellation only.
LEMMA MarkAges ==
  ASSUME NEW old, NEW new,
         new.auto = old.auto, new.alert = old.alert, new.rev = old.rev, new.ctx = old.ctx, new.conf = old.conf,
         old.sup => new.sup, new.st = old.st
  PROVE  Ages(old, new)
BY DEF Ages

\* _refresh_supersession ages a row.
LEMMA RefreshedAges ==
  ASSUME NEW run \in Row, NEW conf
  PROVE  Ages(run, Refreshed(run, conf))
BY RefreshedRow, MarkAges

\* One row is replaced by an older one.
LEMMA OneAges ==
  ASSUME RunsInv, NEW i \in DOMAIN runs, NEW new, runs' = [runs EXCEPT ![i] = new], Ages(runs[i], new)
  PROVE  AllAge /\ DOMAIN runs' = DOMAIN runs
<1>1. runs \in Seq(Row)
  BY DEF RunsInv, TypeInv, TypeOK
<1>2. DOMAIN runs' = DOMAIN runs /\ runs'[i] = new /\ \A j \in DOMAIN runs : j # i => runs'[j] = runs[j]
  BY <1>1
<1>3. ASSUME NEW j \in DOMAIN runs, j # i PROVE Ages(runs[j], runs'[j])
  BY <1>2, <1>3 DEF Ages
<1> QED BY <1>2, <1>3 DEF AllAge

\* The thread claims a row of its own settings, and fails one of others.
LEMMA ClaimAges ==
  ASSUME RunsInv, Claim
  PROVE  AllAge /\ DOMAIN runs' = DOMAIN runs
<1> DEFINE run == Refreshed(Mine, agent.conf)
<1>0. agent.pc = "claim" /\ agent.pc # "idle" /\ Mine \in Row /\ agent.run \in DOMAIN runs /\ Mine = runs[agent.run]
  BY InHand DEF Claim, Mine
<1>1. /\ run \in Row /\ (run.sup <=> Mine.sup \/ Outdated(Mine, agent.conf))
      /\ run.auto = Mine.auto /\ run.alert = Mine.alert /\ run.rev = Mine.rev /\ run.ctx = Mine.ctx
      /\ run.conf = Mine.conf /\ run.st = Mine.st
  BY <1>0, RefreshedRow
<1>2. ~run.sup /\ run.st = "queued" /\ Mine.auto => Mine.conf = agent.conf
  BY <1>1 DEF Outdated
<1>3. \/ run.st = "queued" /\ runs' = [runs EXCEPT ![agent.run] = [run EXCEPT !.st = "failed"]]
      \/ run.st = "queued" /\ ~run.sup /\ runs' = [runs EXCEPT ![agent.run] = [run EXCEPT !.st = "running", !.conf = agent.conf]]
      \/ runs' = [runs EXCEPT ![agent.run] = run]
  BY DEF Claim, Update
<1> HIDE DEF run
<1>4. Ages(Mine, [run EXCEPT !.st = "failed"])
  BY <1>1 DEF Ages, Row, Lapsed
<1>5. ASSUME run.st = "queued", ~run.sup PROVE Ages(Mine, [run EXCEPT !.st = "running", !.conf = agent.conf])
  <2> DEFINE new == [run EXCEPT !.st = "running", !.conf = agent.conf]
  <2>1. /\ new.auto = Mine.auto /\ new.alert = Mine.alert /\ new.rev = Mine.rev /\ new.ctx = Mine.ctx
        /\ new.conf = agent.conf /\ new.st = "running" /\ (Mine.sup => new.sup)
    BY <1>1 DEF Row
  <2> HIDE DEF new
  <2>2. Ages(Mine, new)
    BY <1>1, <1>2, <1>5, <2>1 DEF Ages, Lapsed
  <2> QED BY <2>2 DEF new
<1>6. Ages(Mine, run)
  BY <1>1, MarkAges
<1> QED BY <1>0, <1>3, <1>4, <1>5, <1>6, OneAges

\* The other steps of the thread.
LEMMA ThreadAges ==
  ASSUME RunsInv, Check \/ Work \/ Tool \/ Result \/ Complete \/ FailRun
  PROVE  AllAge /\ DOMAIN runs' = DOMAIN runs
<1>0. agent.pc # "idle" /\ agent.pc \in Executing
  BY DEF Check, Work, Tool, Result, Complete, FailRun, Executing
<1>1. Mine \in Row /\ agent.run \in DOMAIN runs /\ Mine = runs[agent.run] /\ Mine.st = "running" /\ runs \in Seq(Row)
  BY <1>0, InHand DEF Mine
<1>2. ASSUME NEW conf
      PROVE  LET run == Refreshed(Mine, conf) IN
             /\ run \in Row /\ (run.sup <=> Mine.sup \/ Outdated(Mine, conf))
             /\ run.auto = Mine.auto /\ run.alert = Mine.alert /\ run.rev = Mine.rev /\ run.ctx = Mine.ctx
             /\ run.conf = Mine.conf /\ run.st = Mine.st
  BY <1>1, RefreshedRow
<1>3. ASSUME NEW new, runs' = [runs EXCEPT ![agent.run] = new], Ages(Mine, new)
      PROVE  AllAge /\ DOMAIN runs' = DOMAIN runs
  BY <1>1, <1>3, OneAges
<1>a. CASE runs' = runs
  BY <1>1, <1>a DEF AllAge, Ages
<1>b. ASSUME NEW run \in {Mine, Checked}, NEW step, Update([run EXCEPT !.step = step])
      PROVE  AllAge /\ DOMAIN runs' = DOMAIN runs
  <2> DEFINE new == [run EXCEPT !.step = step]
  <2>1. runs' = [runs EXCEPT ![agent.run] = new]
    BY <1>b DEF Update
  <2>2. /\ run \in Row /\ (Mine.sup => run.sup)
        /\ run.auto = Mine.auto /\ run.alert = Mine.alert /\ run.rev = Mine.rev /\ run.ctx = Mine.ctx
        /\ run.conf = Mine.conf /\ run.st = Mine.st
    BY <1>1, <1>2, <1>b DEF Checked
  <2>3. Ages(Mine, new)
    BY <2>2 DEF Row, Ages
  <2> HIDE DEF new
  <2> QED BY <1>3, <2>1, <2>3
<1>4. CASE Check
  <2>1. runs' = [runs EXCEPT ![agent.run] = Checked] \/ runs' = runs
    BY <1>4 DEF Check, Update, Raises
  <2>2. Ages(Mine, Checked)
    BY <1>1, <1>2, MarkAges DEF Checked
  <2> QED BY <1>3, <1>a, <2>1, <2>2
<1>5. CASE Work
  BY <1>5, <1>a, <1>b DEF Work
<1>6. CASE Tool
  BY <1>6, <1>b DEF Tool, Refuses
<1>7. CASE Result
  BY <1>7, <1>b DEF Result, Refuses
<1>8. CASE Complete
  <2> DEFINE run == Refreshed(Mine, Mine.conf)
             st == IF run.cancel THEN "cancelled" ELSE "completed"
             new == [run EXCEPT !.st = st]
  <2>1. /\ run \in Row /\ (run.sup <=> Mine.sup \/ Outdated(Mine, Mine.conf))
        /\ run.auto = Mine.auto /\ run.alert = Mine.alert /\ run.rev = Mine.rev /\ run.ctx = Mine.ctx
        /\ run.conf = Mine.conf /\ run.st = "running"
    BY <1>1, <1>2
  <2>2. \/ runs' = runs
        \/ runs' = [runs EXCEPT ![agent.run] = [run EXCEPT !.st = IF @ # "running" THEN @ ELSE IF run.cancel THEN "cancelled" ELSE "completed"]]
    BY <1>8 DEF Complete, Update, Raises
  <2>3. ~run.sup /\ Mine.auto => Mine.ctx = alert[Mine.alert].ctx
    BY <2>1 DEF Outdated
  <2> HIDE DEF run
  <2>4. runs' = runs \/ runs' = [runs EXCEPT ![agent.run] = new]
    BY <2>1, <2>2 DEF Row
  <2> HIDE DEF st
  <2>5. /\ (Mine.sup => new.sup) /\ (~new.sup => ~run.sup)
        /\ new.auto = Mine.auto /\ new.alert = Mine.alert /\ new.rev = Mine.rev /\ new.ctx = Mine.ctx
        /\ new.conf = Mine.conf
    BY <2>1 DEF Row
  <2> HIDE DEF new
  <2>6. Ages(Mine, new)
    BY <1>1, <2>3, <2>5 DEF Ages, Lapsed
  <2> QED BY <1>3, <1>a, <2>4, <2>6
<1>9. CASE FailRun
  <2> DEFINE st == IF Mine.cancel THEN "cancelled" ELSE "failed"
             new == [Mine EXCEPT !.st = st]
  <2>1. runs' = [runs EXCEPT ![agent.run] = [Mine EXCEPT !.st = IF @ \in Terminal THEN @ ELSE IF Mine.cancel THEN "cancelled" ELSE "failed"]]
    BY <1>9 DEF FailRun, Update
  <2>2. runs' = [runs EXCEPT ![agent.run] = new]
    BY <1>1, <2>1 DEF Row, Terminal
  <2>3. st \in Lapsed /\ st # "completed"
    BY DEF Lapsed
  <2> HIDE DEF st
  <2>4. Ages(Mine, new)
    BY <1>1, <2>3 DEF Row, Ages
  <2> QED BY <1>3, <2>2, <2>4
<1> QED BY <1>4, <1>5, <1>6, <1>7, <1>8, <1>9

\* The rows that a trigger marks.
LEMMA SupersedeAges ==
  ASSUME RunsInv, runs' = runs \/ \E ids : Supersede(ids)
  PROVE  AllAge /\ DOMAIN runs' = DOMAIN runs
<1>1. runs \in Seq(Row) /\ \A i \in DOMAIN runs : runs[i] \in Row
  BY DEF RunsInv, TypeInv, TypeOK
<1>2. ASSUME NEW i \in DOMAIN runs PROVE Ages(runs[i], runs[i]) /\ Ages(runs[i], [runs[i] EXCEPT !.sup = TRUE])
  <2>1. runs[i] \in Row
    BY <1>1
  <2> QED BY <2>1 DEF Row, Ages
<1>3. CASE runs' = runs
  BY <1>2, <1>3 DEF AllAge
<1>4. ASSUME NEW ids, Supersede(ids) PROVE AllAge /\ DOMAIN runs' = DOMAIN runs
  BY <1>2, <1>4 DEF AllAge, Supersede
<1> QED BY <1>3, <1>4

\* The rows that a creating transaction marks, before it inserts one or not.
LEMMA MarkingAges ==
  ASSUME RunsInv, NEW c \in Callers
  PROVE  /\ runs' = Marked(c) => AllAge /\ DOMAIN runs' = DOMAIN runs
         /\ \A run \in Row : runs' = Append(Marked(c), run) \/ runs' = Append(runs, run) =>
              /\ AllAge /\ DOMAIN runs' = DOMAIN runs \cup {Len(runs) + 1} /\ Len(runs) + 1 \notin DOMAIN runs
              /\ runs'[Len(runs) + 1] = run
<1>1. /\ runs \in Seq(Row) /\ \A i \in DOMAIN runs : runs[i] \in Row
      /\ Len(runs) \in Nat /\ DOMAIN runs = 1..Len(runs)
  BY DEF RunsInv, TypeInv, TypeOK
<1>2. ASSUME NEW i \in DOMAIN runs, NEW b PROVE Ages(runs[i], [runs[i] EXCEPT !.sup = @ \/ b]) /\ Ages(runs[i], runs[i])
  <2>1. runs[i] \in Row
    BY <1>1
  <2> QED BY <2>1 DEF Row, Ages
<1>3. /\ Marked(c) \in Seq(Row) /\ DOMAIN Marked(c) = DOMAIN runs
      /\ \A i \in DOMAIN runs : Ages(runs[i], Marked(c)[i])
  BY <1>2, MarkedRows DEF Marked
<1>4. runs' = Marked(c) => AllAge /\ DOMAIN runs' = DOMAIN runs
  BY <1>3 DEF AllAge
<1>5. ASSUME NEW old \in Seq(Row), DOMAIN old = DOMAIN runs, \A i \in DOMAIN runs : Ages(runs[i], old[i]),
             NEW run \in Row, runs' = Append(old, run)
      PROVE  /\ AllAge /\ DOMAIN runs' = DOMAIN runs \cup {Len(runs) + 1} /\ Len(runs) + 1 \notin DOMAIN runs
             /\ runs'[Len(runs) + 1] = run
  <2>1. Len(old) = Len(runs) /\ DOMAIN old = 1..Len(runs)
    BY <1>1, <1>5
  <2>2. /\ \A i \in DOMAIN runs : i \in DOMAIN runs' /\ runs'[i] = old[i]
        /\ DOMAIN runs' = DOMAIN runs \cup {Len(runs) + 1} /\ Len(runs) + 1 \notin DOMAIN runs
        /\ runs'[Len(runs) + 1] = run
    BY <1>1, <1>5, <2>1
  <2> QED BY <1>5, <2>2 DEF AllAge
<1>6. \A i \in DOMAIN runs : Ages(runs[i], runs[i])
  BY <1>2
<1> QED BY <1>1, <1>3, <1>4, <1>5, <1>6

\* A row after the recovery of startup.
LEMMA RecoveredAges ==
  ASSUME NEW run \in Row
  PROVE  Ages(run, Recovered(run))
<1> DEFINE r == IF run.st \in Live THEN Refreshed(run, config) ELSE run
           st == IF run.st \notin Live THEN run.st ELSE IF r.cancel THEN "cancelled"
                 ELSE IF r.sup \/ run.st = "running" THEN "failed" ELSE run.st
           step == IF r.st = "running" THEN "closed" ELSE r.step
           new == [r EXCEPT !.st = st, !.step = step]
<1>1. /\ r \in Row /\ (run.sup => r.sup) /\ r.auto = run.auto /\ r.alert = run.alert /\ r.rev = run.rev
      /\ r.ctx = run.ctx /\ r.conf = run.conf /\ r.st = run.st
  BY RefreshedRow
<1>2. Recovered(run) = new
  BY <1>1 DEF Recovered
<1>3. (run.st \in Lapsed => st \in Lapsed) /\ (st = "completed" => run.st = "completed")
  BY <1>1 DEF Row, Live, Terminal, Lapsed
<1> HIDE DEF r, st, step
<1>4. /\ new.auto = run.auto /\ new.alert = run.alert /\ new.rev = run.rev /\ new.ctx = run.ctx
      /\ new.conf = run.conf /\ new.st = st /\ (run.sup => new.sup)
  BY <1>1 DEF Row
<1> HIDE DEF new
<1>5. Ages(run, new)
  BY <1>3, <1>4 DEF Ages
<1> QED BY <1>2, <1>5

\* A row that a caller inserts: an analysis finds its attempts lapsed, and
\* fewer than the limit.
Inserted(run) ==
  run.auto => \E c \in Callers :
    /\ Retryable(c) /\ run.alert = caller[c].alert /\ run.rev = alert[caller[c].alert].rev
    /\ run.ctx = caller[c].ctx /\ run.conf = caller[c].conf
    /\ \A i \in DOMAIN runs : runs'[i] = Marked(c)[i]
Grown ==
  LET n == Len(runs) + 1 IN
  DOMAIN runs' = DOMAIN runs \cup {n} /\ n \notin DOMAIN runs /\ Inserted(runs'[n])
\* Every step ages the rows, and inserts one at most.
LEMMA NextAges ==
  ASSUME RunsInv, [Next]_vars
  PROVE  AllAge /\ (DOMAIN runs' = DOMAIN runs \/ Grown)
<1>1. CASE UNCHANGED vars
  BY <1>1, SupersedeAges DEF vars
<1>2. CASE (\E a \in Alerts : NewEvidence(a) \/ NewContext(a) \/ CloseAlert(a) \/ ReopenAlert(a)) \/ NewSettings
  BY <1>2, SupersedeAges DEF NewEvidence, NewContext, CloseAlert, ReopenAlert, NewSettings
<1>3. CASE Agent \/ WriteRaises
  <2>1. CASE Begin \/ WriteRaises
    BY <2>1, SupersedeAges DEF Begin, WriteRaises
  <2> QED BY <1>3, <2>1, ClaimAges, ThreadAges DEF Agent
<1>4. ASSUME NEW i \in DOMAIN runs, Cancel(i) PROVE AllAge /\ DOMAIN runs' = DOMAIN runs
  <2> DEFINE st == IF runs[i].st = "queued" THEN "cancelled" ELSE runs[i].st
             new == [runs[i] EXCEPT !.cancel = TRUE, !.st = st]
  <2>1. runs[i] \in Row /\ runs[i].st \in Live
    BY <1>4 DEF RunsInv, TypeInv, TypeOK, Cancel
  <2>2. runs' = [runs EXCEPT ![i] = new]
    BY <1>4 DEF Cancel
  <2>3. st \in {"cancelled", "running"}
    BY <2>1 DEF Live
  <2> HIDE DEF st
  <2>4. Ages(runs[i], new)
    BY <2>1, <2>3 DEF Row, Live, Lapsed, Ages
  <2> QED BY <2>2, <2>4, OneAges
<1>5. CASE Restart
  <2>1. /\ runs' = runs \/ runs' = [i \in DOMAIN runs |-> Recovered(runs[i])]
        /\ \A i \in DOMAIN runs : runs[i] \in Row
    BY <1>5 DEF RunsInv, TypeInv, TypeOK, Restart
  <2>2. CASE runs' = runs
    BY <2>2, SupersedeAges
  <2>3. CASE runs' = [i \in DOMAIN runs |-> Recovered(runs[i])]
    BY <2>1, <2>3, RecoveredAges DEF AllAge
  <2> QED BY <2>1, <2>2, <2>3
<1>6. ASSUME NEW c \in Callers, ReadSettings(c) \/ ReadContext(c) \/ Submit(c) PROVE AllAge /\ DOMAIN runs' = DOMAIN runs
  BY <1>6, SupersedeAges DEF ReadSettings, ReadContext, Submit
<1>7. ASSUME NEW c \in Callers, Show(c) PROVE AllAge /\ DOMAIN runs' = DOMAIN runs
  <2>1. PICK i \in DOMAIN runs : runs' = [runs EXCEPT ![i] = Refreshed(runs[i], caller[c].conf)]
    BY <1>7 DEF Show
  <2>2. runs[i] \in Row
    BY DEF RunsInv, TypeInv, TypeOK
  <2> QED BY <2>1, <2>2, RefreshedAges, OneAges
<1>8. TypeInv /\ alert \in [Alerts -> [open : BOOLEAN, rev : 0..MaxChanges, ctx : Contexts]]
      /\ \A c \in Callers : caller[c] \in CallersType
  BY DEF RunsInv, TypeInv, TypeOK
<1>9. ASSUME NEW c \in Callers, CreateAuto(c) PROVE AllAge /\ (DOMAIN runs' = DOMAIN runs \/ Grown)
  <2> DEFINE a == caller[c].alert
             run == NewRun(TRUE, a, caller[c].ctx, caller[c].conf)
  <2>1. CASE runs' = runs
    BY <2>1, SupersedeAges
  <2>2. CASE runs' = Marked(c)
    BY <2>2, MarkingAges
  <2>3. CASE Retryable(c) /\ runs' = Append(Marked(c), run)
    <3>1. a \in Alerts /\ alert[a].rev \in 0..MaxChanges /\ caller[c].ctx \in Contexts /\ caller[c].conf \in Configs
      BY <1>8, <1>9 DEF CreateAuto, TypeInv, CallersType
    <3>2. run \in Row /\ run.alert = a /\ run.rev = alert[a].rev /\ run.ctx = caller[c].ctx /\ run.conf = caller[c].conf
      BY <3>1 DEF NewRun, Row, Live
    <3> HIDE DEF run
    <3>3. /\ AllAge /\ DOMAIN runs' = DOMAIN runs \cup {Len(runs) + 1} /\ Len(runs) + 1 \notin DOMAIN runs
          /\ runs'[Len(runs) + 1] = run
      BY <2>3, <3>2, MarkingAges
    <3>4. \A i \in DOMAIN runs : runs'[i] = Marked(c)[i]
      <4>1. Marked(c) \in Seq(Row) /\ DOMAIN Marked(c) = DOMAIN runs
        BY MarkedRows
      <4>2. runs \in Seq(Row)
        BY <1>8 DEF TypeInv, TypeOK
      <4> QED BY <2>3, <3>2, <4>1, <4>2
    <3>5. Inserted(run)
      BY <2>3, <3>2, <3>4 DEF Inserted
    <3> QED BY <3>3, <3>5 DEF Grown
  <2> QED BY <1>9, <2>1, <2>2, <2>3 DEF CreateAuto, Insert
<1>10. ASSUME NEW c \in Callers, CreateManual(c) PROVE AllAge /\ (DOMAIN runs' = DOMAIN runs \/ Grown)
  <2> DEFINE a == caller[c].alert
             run == NewRun(FALSE, a, 0, caller[c].conf)
  <2>1. CASE runs' = runs
    BY <2>1, SupersedeAges
  <2>2. CASE runs' = Append(runs, run)
    <3>1. a \in Alerts /\ alert[a].rev \in 0..MaxChanges /\ 0 \in Contexts /\ caller[c].conf \in Configs
      BY <1>8, <1>10, BoundsAssumption DEF CreateManual, TypeInv, CallersType, Contexts
    <3>2. run \in Row /\ ~run.auto
      BY <3>1 DEF NewRun, Row, Live
    <3> HIDE DEF run
    <3>3. /\ AllAge /\ DOMAIN runs' = DOMAIN runs \cup {Len(runs) + 1} /\ Len(runs) + 1 \notin DOMAIN runs
          /\ runs'[Len(runs) + 1] = run
      BY <2>2, <3>2, MarkingAges
    <3> QED BY <3>2, <3>3 DEF Grown, Inserted
  <2> QED BY <1>10, <2>1, <2>2 DEF CreateManual, Insert
<1> QED BY <1>1, <1>2, <1>3, <1>4, <1>5, <1>6, <1>7, <1>9, <1>10 DEF Next

\* An analysis that completes unmarked describes the context of that moment:
\* complete_run looks at the alert again in the transaction that stores it.
THEOREM CompletionTheorem == Spec => CompletesCurrent
<1>1. ASSUME RunsInv, [Next]_vars
      PROVE  [\A i \in DOMAIN runs :
                 runs[i].st # "completed" /\ runs'[i].st = "completed" /\ runs[i].auto /\ ~runs'[i].sup
                   => runs[i].ctx = alert[runs[i].alert].ctx]_vars
  BY <1>1, NextAges DEF AllAge, Ages
<1> QED BY <1>1, RunsInvariant, PTL DEF Spec, CompletesCurrent


(***************************************************************************)
(* The analyses of one snapshot.                                           *)
(***************************************************************************)
Working(i) == {j \in Analyses(i) : runs[j].st \notin Lapsed}
BoundedAt(i) == Cardinality(Working(i)) <= 1 /\ Cardinality(Analyses(i)) <= MaxAttempts

\* A set of rows is finite.
LEMMA RowsFinite ==
  ASSUME RunsInv, NEW S, S \subseteq DOMAIN runs
  PROVE  IsFiniteSet(S) /\ Cardinality(S) \in Nat
<1>1. runs \in Seq(Row)
  BY DEF RunsInv, TypeInv, TypeOK
<1>2. Len(runs) \in Nat /\ DOMAIN runs = 1..Len(runs)
  BY <1>1
<1>3. IsFiniteSet(DOMAIN runs)
  BY <1>2, FS_Interval
<1> QED BY <1>3, FS_Subset, FS_CardinalityType

\* Analyses of a snapshot that a step adds nothing to.
LEMMA OldAnalyses ==
  ASSUME RunsInv, AllAge, NEW i \in DOMAIN runs, BoundedAt(i), runs[i].auto,
         \A j \in DOMAIN runs' : j \in Analyses(i)' => j \in DOMAIN runs
  PROVE  BoundedAt(i)'
<1>1. ASSUME NEW j \in Analyses(i)' PROVE j \in Analyses(i) /\ (runs'[j].st \notin Lapsed => runs[j].st \notin Lapsed)
  <2>1. /\ j \in DOMAIN runs' /\ runs'[j].auto /\ ~runs'[j].sup
        /\ runs'[i].alert = runs'[j].alert /\ runs'[i].rev = runs'[j].rev
        /\ runs'[i].ctx = runs'[j].ctx /\ runs'[i].conf = runs'[j].conf
    BY DEF Analyses, Same
  <2>2. j \in DOMAIN runs
    BY <2>1
  <2>3. Ages(runs[i], runs'[i]) /\ Ages(runs[j], runs'[j])
    BY <2>2 DEF AllAge
  <2>4. runs[j].auto /\ ~runs[j].sup /\ Same(i, j) /\ (runs'[j].st \notin Lapsed => runs[j].st \notin Lapsed)
    BY <2>1, <2>3 DEF Ages, Same
  <2> QED BY <2>2, <2>4 DEF Analyses
<1>2. Analyses(i)' \subseteq Analyses(i) /\ Working(i)' \subseteq Working(i)
  BY <1>1 DEF Working
<1>3. Analyses(i) \subseteq DOMAIN runs /\ Working(i) \subseteq DOMAIN runs
  BY DEF Analyses, Working
<1>4. /\ IsFiniteSet(Analyses(i)) /\ IsFiniteSet(Working(i))
      /\ Cardinality(Analyses(i)) \in Nat /\ Cardinality(Working(i)) \in Nat
  BY <1>3, RowsFinite
<1>5. Cardinality(Analyses(i)') <= Cardinality(Analyses(i)) /\ Cardinality(Working(i)') <= Cardinality(Working(i))
  BY <1>2, <1>4, FS_Subset
<1>6. Cardinality(Analyses(i)') \in Nat /\ Cardinality(Working(i)') \in Nat
  BY <1>2, <1>4, FS_Subset, FS_CardinalityType
<1>7. Cardinality(Working(i)) <= 1 /\ Cardinality(Analyses(i)) <= MaxAttempts
  BY DEF BoundedAt
<1>8. Cardinality(Working(i)') <= 1
  BY <1>4, <1>5, <1>6, <1>7
<1>9. Cardinality(Analyses(i)') <= MaxAttempts
  BY <1>4, <1>5, <1>6, <1>7, BoundsAssumption
<1> QED BY <1>8, <1>9 DEF BoundedAt

\* Analyses of the snapshot of a run that was inserted.
LEMMA NewAnalyses ==
  ASSUME RunsInv, AllAge, NEW n, n \notin DOMAIN runs, DOMAIN runs' = DOMAIN runs \cup {n},
         runs'[n].auto, Inserted(runs'[n]), NEW i \in DOMAIN runs', Same(i, n)'
  PROVE  BoundedAt(i)'
<1>1. PICK c \in Callers :
         /\ Retryable(c) /\ runs'[n].alert = caller[c].alert /\ runs'[n].rev = alert[caller[c].alert].rev
         /\ runs'[n].ctx = caller[c].ctx /\ runs'[n].conf = caller[c].conf
         /\ \A j \in DOMAIN runs : runs'[j] = Marked(c)[j]
  BY DEF Inserted
<1>2. PICK A : A = Attempts(c)
  OBVIOUS
<1>3. A \subseteq DOMAIN runs /\ Cardinality(A) < MaxAttempts /\ \A j \in A : runs[j].st \in Lapsed
  BY <1>1, <1>2 DEF Retryable, Attempts, Lapsed
<1>4. ASSUME NEW j \in Analyses(i)', j # n PROVE j \in A
  <2>1. /\ j \in DOMAIN runs' /\ runs'[j].auto /\ ~runs'[j].sup
        /\ runs'[j].alert = runs'[n].alert /\ runs'[j].rev = runs'[n].rev
        /\ runs'[j].ctx = runs'[n].ctx /\ runs'[j].conf = runs'[n].conf
    BY DEF Analyses, Same
  <2>2. j \in DOMAIN runs
    BY <1>4, <2>1
  <2>3. Ages(runs[j], runs'[j]) /\ runs'[j] = Marked(c)[j]
    BY <1>1, <2>2 DEF AllAge
  <2>4. /\ runs[j].auto /\ ~Marked(c)[j].sup /\ runs[j].alert = caller[c].alert
        /\ runs[j].rev = alert[caller[c].alert].rev /\ runs[j].ctx = caller[c].ctx /\ runs[j].conf = caller[c].conf
    BY <1>1, <2>1, <2>3 DEF Ages
  <2> QED BY <1>2, <2>2, <2>4 DEF Attempts
<1>5. ASSUME NEW j \in Working(i)' PROVE j = n
  <2>1. j \in Analyses(i)' /\ runs'[j].st \notin Lapsed
    BY DEF Working
  <2>2. CASE j # n
    <3>1. j \in A /\ j \in DOMAIN runs /\ runs[j].st \in Lapsed
      BY <1>3, <1>4, <2>1, <2>2
    <3>2. Ages(runs[j], runs'[j])
      BY <3>1 DEF AllAge
    <3> QED BY <2>1, <3>1, <3>2 DEF Ages
  <2> QED BY <2>2
<1>6. IsFiniteSet(A) /\ Cardinality(A) \in Nat
  BY <1>3, RowsFinite
<1>7. IsFiniteSet(A \cup {n}) /\ Cardinality(A \cup {n}) = Cardinality(A) + 1
  BY <1>3, <1>6, FS_AddElement
<1>8. Analyses(i)' \in SUBSET (A \cup {n})
  BY <1>4
<1>9. Cardinality(Analyses(i)') <= Cardinality(A) + 1 /\ Cardinality(Analyses(i)') \in Nat
  BY <1>7, <1>8, FS_Subset, FS_CardinalityType
<1>10. Cardinality(Analyses(i)') <= MaxAttempts
  BY <1>3, <1>6, <1>9, BoundsAssumption
<1>11. IsFiniteSet({n}) /\ Cardinality({n}) = 1 /\ Working(i)' \in SUBSET {n}
  BY <1>5, FS_Singleton
<1>12. Cardinality(Working(i)') <= 1
  BY <1>11, FS_Subset
<1> QED BY <1>10, <1>12 DEF BoundedAt

\* Every step keeps the bound.
LEMMA BoundedNext ==
  ASSUME RunsInv, [Next]_vars, \A i \in DOMAIN runs : runs[i].auto => BoundedAt(i)
  PROVE  (\A i \in DOMAIN runs : runs[i].auto => BoundedAt(i))'
<1>1. AllAge /\ (DOMAIN runs' = DOMAIN runs \/ Grown)
  BY NextAges
<1>2. ASSUME NEW i \in DOMAIN runs', runs'[i].auto PROVE BoundedAt(i)'
  <2>1. CASE DOMAIN runs' = DOMAIN runs
    <3>1. i \in DOMAIN runs /\ runs[i].auto
      BY <1>1, <1>2, <2>1 DEF AllAge, Ages
    <3> QED BY <1>1, <2>1, <3>1, OldAnalyses
  <2>2. CASE Grown
    <3>1. PICK n : n = Len(runs) + 1
      OBVIOUS
    <3>2. n \notin DOMAIN runs /\ DOMAIN runs' = DOMAIN runs \cup {n} /\ Inserted(runs'[n])
      BY <2>2, <3>1 DEF Grown
    <3>3. CASE runs'[n].auto /\ Same(i, n)'
      BY <1>1, <3>2, <3>3, NewAnalyses
    <3>4. CASE ~(runs'[n].auto /\ Same(i, n)')
      <4>1. i # n
        BY <1>2, <3>4 DEF Same
      <4>2. i \in DOMAIN runs /\ runs[i].auto
        BY <1>1, <1>2, <3>2, <4>1 DEF AllAge, Ages
      <4>3. n \notin Analyses(i)'
        BY <3>4 DEF Analyses
      <4> QED BY <1>1, <3>2, <4>2, <4>3, OldAnalyses
    <3> QED BY <3>3, <3>4
  <2> QED BY <1>1, <2>1, <2>2
<1> QED BY <1>2

\* One snapshot of an alert is analysed by one run at a time, and at most
\* MaxAttempts times (create_or_reuse_auto_alert_run).
THEOREM AnalysesTheorem == Spec => []BoundedAnalyses
<1> DEFINE B == \A i \in DOMAIN runs : runs[i].auto => BoundedAt(i)
<1>1. Init => B
  BY DEF Init
<1>2. RunsInv /\ B /\ [Next]_vars => B'
  BY BoundedNext
<1>3. B => BoundedAnalyses
  BY DEF BoundedAt, Working, BoundedAnalyses, Lapsed
<1> HIDE DEF B
<1> QED BY <1>1, <1>2, <1>3, RunsInvariant, PTL DEF Spec
=============================================================================
