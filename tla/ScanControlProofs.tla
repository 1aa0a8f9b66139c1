-------------------------- MODULE ScanControlProofs --------------------------
(***************************************************************************)
(* Proofs about ScanControl, for any number of requests, stops, jobs and   *)
(* attempts and under every fault.                                         *)
(***************************************************************************)
EXTENDS ScanControl, SequenceTheorems, TLAPS

USE ThreadAssumption

(***************************************************************************)
(* Types.                                                                  *)
(***************************************************************************)
LEMMA IsSeq ==
  ASSUME NEW S, NEW n \in Nat, NEW f \in [1..n -> S]
  PROVE  f \in Seq(S) /\ DOMAIN f = 1..n
BY SeqDef

\* Rows keep their number and their values when a status changes.
LEMMA LateType ==
  ASSUME NEW rows \in Seq(Attempt), NEW how \in {"no", "yes", "missed"}
  PROVE  Late(rows, how) \in Seq(Attempt) /\ DOMAIN Late(rows, how) = DOMAIN rows
<1>1. Len(rows) \in Nat /\ DOMAIN rows = 1..Len(rows) /\ \A i \in DOMAIN rows : rows[i] \in Attempt
  OBVIOUS
<1>2. Late(rows, how) \in [1..Len(rows) -> Attempt]
  BY <1>1 DEF Late, Attempt
<1> QED BY <1>1, <1>2, IsSeq

\* Stopping all attempts keeps one row for each.
LEMMA StoppedType ==
  ASSUME NEW rows \in Seq(Attempt), NEW stopped, stopped = [i \in DOMAIN rows |-> Stopped(rows[i])]
  PROVE  stopped \in Seq(Attempt) /\ DOMAIN stopped = DOMAIN rows
<1>1. Len(rows) \in Nat /\ DOMAIN rows = 1..Len(rows) /\ \A i \in DOMAIN rows : rows[i] \in Attempt
  OBVIOUS
<1>2. stopped \in [1..Len(rows) -> Attempt]
  BY <1>1 DEF Stopped, Attempt
<1> QED BY <1>1, <1>2, IsSeq

\* A report changes the row of its attempt only, and only while it is
\* authoritative.
LEMMA RecordedType ==
  ASSUME TypeOK, NEW i \in DOMAIN attempts, NEW st \in {"completed", "over"}
  PROVE  /\ Recorded(i, st) \in Seq(Attempt) /\ DOMAIN Recorded(i, st) = DOMAIN attempts
         /\ \A k \in DOMAIN attempts :
              Recorded(i, st)[k] = attempts[k]
                \/ (k = i /\ Authoritative(i) /\ ~fenced /\ Recorded(i, st)[k].st = st)
<1>1. Len(attempts) \in Nat /\ DOMAIN attempts = 1..Len(attempts) /\ \A k \in DOMAIN attempts : attempts[k] \in Attempt
  BY DEF TypeOK
<1>2. CASE ~fenced /\ Authoritative(i)
  <2> DEFINE row == [attempts[i] EXCEPT !.st = st]
  <2>2. row \in Attempt /\ row.st = st
    BY <1>1 DEF Attempt
  <2>3. Recorded(i, st) = [attempts EXCEPT ![i] = row]
    BY <1>2 DEF Recorded
  <2> HIDE DEF row
  <2>4. Recorded(i, st) \in [1..Len(attempts) -> Attempt]
    BY <1>1, <2>2, <2>3
  <2> QED BY <1>1, <1>2, <2>2, <2>3, <2>4, IsSeq
<1>3. CASE ~(~fenced /\ Authoritative(i))
  BY <1>1, <1>3 DEF Recorded, TypeOK
<1> QED BY <1>2, <1>3

\* Finishing a job changes its row only, and only while it is active.
LEMMA FinishedType ==
  ASSUME TypeOK, NEW j \in {0} \cup DOMAIN jobs, NEW st \in Status
  PROVE  /\ Finished(j, st) \in Seq(Status) /\ DOMAIN Finished(j, st) = DOMAIN jobs
         /\ \A k \in DOMAIN jobs : Finished(j, st)[k] = IF k = j /\ j \in Active THEN st ELSE jobs[k]
BY SMTT(40) DEF TypeOK, Finished, Active, Status

\* The last row of a job changes that row only, which is not active then or
\* has leaked.
LEMMA ClosesType ==
  ASSUME TypeOK, NEW j \in {0} \cup DOMAIN jobs, NEW st \in {"finished", "stopped"}, Closes(j, st)
  PROVE  /\ jobs' \in Seq(Status) /\ DOMAIN jobs' = DOMAIN jobs
         /\ leaked \subseteq leaked' /\ leaked' \subseteq DOMAIN jobs
         /\ Active' \subseteq Active /\ (j \in Active' => j \in leaked')
<1>1. CASE jobs' = Finished(j, st) /\ leaked' = leaked
  BY <1>1, FinishedType DEF TypeOK, Active, Status
<1>2. CASE leaked' = leaked \cup ({j} \cap Active) /\ jobs' = jobs
  BY <1>2 DEF TypeOK, Active
<1> QED BY <1>1, <1>2 DEF Closes

\* A record that may fail changes the row as above or leaves it.
LEMMA RecordsEither ==
  ASSUME NEW i, NEW st, Records(i, st)
  PROVE  attempts' = Recorded(i, st) \/ attempts' = attempts
BY DEF Records

\* Data of the old rows is data of the new ones.
LEMMA Grows ==
  ASSUME DOMAIN jobs \subseteq DOMAIN jobs', DOMAIN attempts \subseteq DOMAIN attempts'
  PROVE  /\ Doing \subseteq Doing' /\ Report \subseteq Report' /\ Future \subseteq Future'
         /\ \A s \in Seq(Future) : s \in Seq(Future')
<1>1. Doing \subseteq Doing' /\ Report \subseteq Report' /\ Future \subseteq Future'
  BY DEF Doing, Report, Future
<1>2. ASSUME NEW s \in Seq(Future) PROVE s \in Seq(Future')
  <2>1. Len(s) \in Nat /\ s \in [1..Len(s) -> Future']
    BY <1>1
  <2> QED BY <2>1, IsSeq
<1> QED BY <1>1, <1>2

\* A request or the thread takes its next step, with its job and attempt as
\* they were.
LEMMA MovesOn ==
  ASSUME TypeOK, NEW w \in Callers \cup {Thread}, NEW pc \in Step, Does(w, pc)
  PROVE  /\ actor' \in [Callers \cup {Thread} -> Doing]
         /\ actor'[w].pc = pc /\ actor'[w].job = actor[w].job /\ actor'[w].for = actor[w].for
         /\ actor'[w].gen = actor[w].gen /\ actor'[w].attempt = actor[w].attempt
         /\ \A v \in (Callers \cup {Thread}) \ {w} : actor'[v] = actor[v]
<1> DEFINE new == [actor[w] EXCEPT !.pc = pc]
<1>1. new \in Doing /\ new.pc = pc /\ new.job = actor[w].job /\ new.for = actor[w].for
      /\ new.gen = actor[w].gen /\ new.attempt = actor[w].attempt
  BY DEF TypeOK, Doing
<1>2. actor' = [actor EXCEPT ![w] = new]
  BY DEF Does
<1> HIDE DEF new
<1> QED BY <1>1, <1>2 DEF TypeOK

\* A request or the thread is done and holds no job.
LEMMA Stops ==
  ASSUME TypeOK, NEW w \in Callers \cup {Thread}, Ends(w)
  PROVE  /\ actor' \in [Callers \cup {Thread} -> Doing]
         /\ actor'[w].pc = "idle" /\ actor'[w].for = "none" /\ actor'[w].job = 0
         /\ \A v \in (Callers \cup {Thread}) \ {w} : actor'[v] = actor[v]
<1>1. Idle.pc = "idle" /\ Idle.job = 0 /\ Idle.for = "none" /\ Idle.gen = 0 /\ Idle.attempt = 0
  BY DEF Idle, At
<1>2. Idle \in Doing
  BY DEF Idle, At, Doing, Step
<1> HIDE DEF Idle
<1> QED BY <1>1, <1>2 DEF TypeOK, Ends

\* A worker that spawns or waits has inserted its attempt.
Launched == \A w \in DOMAIN actor :
  actor[w].pc \in {"spawn", "wait"} => actor[w].attempt \in DOMAIN attempts
TypeInv == TypeOK /\ Launched

\* What an action has to show about the values it changes.
LEMMA TypeKeeps ==
  ASSUME TypeInv,
         generation' \in Nat, fenced' \in BOOLEAN,
         jobs' \in Seq(Status), attempts' \in Seq(Attempt),
         DOMAIN jobs' = DOMAIN jobs, DOMAIN attempts' = DOMAIN attempts,
         pool' \in Seq(Future), actor' \in [Callers \cup {Thread} -> Doing],
         reports' \subseteq Report, leaked' \subseteq DOMAIN jobs,
         \A w \in Callers \cup {Thread} :
           actor'[w].pc \in {"spawn", "wait"} =>
             (actor[w].pc \in {"spawn", "wait"} /\ actor'[w].attempt = actor[w].attempt)
  PROVE  TypeInv'
<1>1. Doing' = Doing /\ Report' = Report /\ Future' = Future
  BY DEF Doing, Report, Future
<1>2. TypeOK'
  BY <1>1 DEF TypeOK
<1>3. Launched'
  BY DEF TypeInv, TypeOK, Launched
<1> QED BY <1>2, <1>3 DEF TypeInv

\* A worker that spawned its attempt waits or is done.
LEMMA AwaitsType ==
  ASSUME TypeOK, NEW w \in Callers \cup {Thread}, actor[w].pc = "spawn", Awaits(w)
  PROVE  /\ actor' \in [Callers \cup {Thread} -> Doing]
         /\ \A v \in Callers \cup {Thread} :
              \/ actor'[v] = actor[v]
              \/ v = w /\ actor'[v].pc = "idle" /\ v \in Callers /\ actor'[v].job = 0
              \/ v = w /\ v = Thread /\ actor'[v].pc = "wait" /\ actor'[v].job = actor[v].job
                 /\ actor'[v].attempt = actor[v].attempt
BY MovesOn, Stops DEF Awaits, Step

\* Every step keeps the types.
LEMMA TypeStep == ASSUME TypeInv, [Next]_vars PROVE TypeInv'
<1> USE DEF TypeInv
<1>0. /\ Len(jobs) \in Nat /\ DOMAIN jobs = 1..Len(jobs)
      /\ Len(attempts) \in Nat /\ DOMAIN attempts = 1..Len(attempts)
      /\ DOMAIN actor = Callers \cup {Thread}
      /\ \A w \in Callers \cup {Thread} : actor[w] \in Doing
  BY DEF TypeOK
<1>1. ASSUME NEW c \in Callers, Reserve(c) PROVE TypeInv'
  <2>1. PICK pc \in {"stop", "capture"} :
          actor' = [actor EXCEPT ![c] = At(pc, "start", Len(jobs) + 1, 0)]
    BY <1>1 DEF Reserve
  <2> DEFINE new == [pc |-> pc, for |-> "start", job |-> Len(jobs) + 1, gen |-> 0, attempt |-> 0]
  <2>2. /\ jobs' \in Seq(Status) /\ DOMAIN jobs' = 1..(Len(jobs) + 1)
        /\ attempts' = attempts /\ pool' = pool /\ reports' = reports /\ leaked' = leaked
        /\ generation' = generation /\ fenced' = fenced
    BY <1>0, <1>1 DEF Reserve, TypeOK, Status, control
  <2>3. At(pc, "start", Len(jobs) + 1, 0) = new
    BY DEF At
  <2>4. new \in Doing' /\ new.pc = pc
    BY <1>0, <2>2 DEF Doing, Step
  <2>5. DOMAIN jobs \subseteq DOMAIN jobs' /\ DOMAIN attempts \subseteq DOMAIN attempts'
    BY <1>0, <2>2
  <2> HIDE DEF new
  <2>6. actor' = [actor EXCEPT ![c] = new]
    BY <2>1, <2>3
  <2>7. actor' \in [Callers \cup {Thread} -> Doing']
    BY <1>0, <2>4, <2>5, <2>6, Grows DEF TypeOK
  <2>8. TypeOK'
    BY <2>2, <2>5, <2>7, Grows DEF TypeOK
  <2>9. Launched'
    BY <1>0, <2>2, <2>4, <2>6 DEF Launched, TypeOK
  <2> QED BY <2>8, <2>9
<1>2. ASSUME NEW c \in Callers, Request(c) PROVE TypeInv'
  <2>1. PICK for \in {"stop", "sync"} :
          actor' = [actor EXCEPT ![c] = At("stop", for, 0, 0)]
    BY <1>2 DEF Request
  <2> DEFINE new == [pc |-> "stop", for |-> for, job |-> 0, gen |-> 0, attempt |-> 0]
  <2>2. At("stop", for, 0, 0) = new
    BY DEF At
  <2>3. new \in Doing /\ new.pc = "stop"
    BY DEF Doing, Step
  <2>4. actor' = [actor EXCEPT ![c] = new]
    BY <2>1, <2>2
  <2> HIDE DEF new
  <2>5. actor' \in [Callers \cup {Thread} -> Doing]
        /\ \A w \in Callers \cup {Thread} : actor'[w] = actor[w] \/ actor'[w].pc = "stop"
    BY <2>3, <2>4 DEF TypeOK
  <2> QED BY <1>2, <2>5, TypeKeeps DEF Request, TypeOK, control
<1>3. ASSUME NEW c \in Callers, Publish(c) PROVE TypeInv'
  <2> DEFINE new == [actor[c] EXCEPT !.pc = "rows", !.gen = generation']
             stopped == [i \in DOMAIN attempts |-> Stopped(attempts[i])]
  <2>0. generation' = generation + 1 /\ (fenced' = FALSE \/ fenced' = TRUE)
    BY <1>3, Zenon DEF Publish
  <2>a. generation' \in Nat
    BY <2>0 DEF TypeOK
  <2>b. fenced' \in BOOLEAN
    BY <2>0, Zenon
  <2>1. generation' \in Nat /\ fenced' \in BOOLEAN
    BY <2>a, <2>b
  <2>2. new \in Doing /\ new.pc = "rows"
    BY <1>0, <2>1 DEF Doing, Step
  <2>3. actor' = [actor EXCEPT ![c] = new]
    BY <1>3 DEF Publish
  <2>4. stopped \in Seq(Attempt) /\ DOMAIN stopped = DOMAIN attempts
    BY StoppedType DEF TypeOK
  <2>5. attempts' \in {Late(attempts, "yes"), Late(stopped, "yes")}
    BY <1>3 DEF Publish
  <2> HIDE DEF new, stopped
  <2>6. attempts' \in Seq(Attempt) /\ DOMAIN attempts' = DOMAIN attempts
    BY <2>4, <2>5, LateType DEF TypeOK
  <2>7. actor' \in [Callers \cup {Thread} -> Doing]
        /\ \A w \in Callers \cup {Thread} : actor'[w] = actor[w] \/ actor'[w].pc = "rows"
    BY <2>2, <2>3 DEF TypeOK
  <2> QED BY <1>3, <2>1, <2>6, <2>7, TypeKeeps DEF Publish, TypeOK
<1>4. ASSUME NEW c \in Callers, StopRows(c) PROVE TypeInv'
  <2> DEFINE rows == [j \in DOMAIN jobs |-> IF j \in Active \ {actor[c].job} THEN "stopped" ELSE jobs[j]]
  <2>1. rows \in [1..Len(jobs) -> Status]
    BY <1>0 DEF TypeOK, Status
  <2>2. jobs' \in Seq(Status) /\ DOMAIN jobs' = DOMAIN jobs
    BY <1>0, <1>4, <2>1, IsSeq DEF StopRows, TypeOK
  <2>3. actor' \in [Callers \cup {Thread} -> Doing]
        /\ \A w \in Callers \cup {Thread} : actor'[w] = actor[w] \/ actor'[w].pc = "kill"
    BY <1>4, MovesOn DEF StopRows, Step
  <2> QED BY <1>4, <2>2, <2>3, TypeKeeps DEF StopRows, TypeOK, control
<1>5. ASSUME NEW c \in Callers, Kill(c) PROVE TypeInv'
  <2>1. Ends(c) \/ (\E pc \in {"launch", "cancel"} : Does(c, pc))
    BY <1>5 DEF Kill
  <2>2. actor' \in [Callers \cup {Thread} -> Doing]
        /\ \A w \in Callers \cup {Thread} :
             actor'[w] = actor[w] \/ actor'[w].pc \in {"idle", "launch", "cancel"}
    BY <2>1, MovesOn, Stops DEF Step
  <2>3. reports' \subseteq reports /\ leaked' \subseteq DOMAIN jobs
    BY <1>5 DEF Kill, TypeOK, Active
  <2> QED BY <1>5, <2>2, <2>3, TypeKeeps DEF Kill, TypeOK, control
<1>6. ASSUME NEW c \in Callers, CancelQueued(c) PROVE TypeInv'
  <2>1. Ends(c) \/ Does(c, "submit")
    BY <1>6 DEF CancelQueued
  <2>2. actor' \in [Callers \cup {Thread} -> Doing]
        /\ \A w \in Callers \cup {Thread} : actor'[w] = actor[w] \/ actor'[w].pc \in {"idle", "submit"}
    BY <2>1, MovesOn, Stops DEF Step
  <2>3. pool' \in Seq(Future) /\ leaked' \subseteq DOMAIN jobs
    BY <1>6 DEF CancelQueued, TypeOK, Active
  <2> QED BY <1>6, <2>2, <2>3, TypeKeeps DEF CancelQueued, TypeOK, control
<1>7. ASSUME NEW c \in Callers, Capture(c) PROVE TypeInv'
  <2> DEFINE new == [actor[c] EXCEPT !.pc = "submit", !.gen = generation]
  <2>1. new \in Doing /\ new.pc = "submit"
    BY ZenonT(60), <1>0 DEF Doing, Step, TypeOK
  <2>2. actor' = [actor EXCEPT ![c] = new]
    BY <1>7 DEF Capture
  <2> HIDE DEF new
  <2>3. actor' \in [Callers \cup {Thread} -> Doing]
        /\ \A w \in Callers \cup {Thread} : actor'[w] = actor[w] \/ actor'[w].pc = "submit"
    BY <2>1, <2>2 DEF TypeOK
  <2> QED BY <1>7, <2>3, TypeKeeps DEF Capture, TypeOK, control
<1>8. ASSUME NEW c \in Callers, Submit(c) PROVE TypeInv'
  <2> DEFINE future == [job |-> actor[c].job, gen |-> actor[c].gen]
  <2>1. future \in Future
    BY <1>0, <1>8 DEF Future, Doing
  <2> HIDE DEF future
  <2>2. pool' = Append(pool, future)
    BY <1>8 DEF Submit, future
  <2>3. pool' \in Seq(Future)
    BY <2>1, <2>2 DEF TypeOK
  <2>4. actor' \in [Callers \cup {Thread} -> Doing]
        /\ \A w \in Callers \cup {Thread} : actor'[w] = actor[w] \/ actor'[w].pc = "idle"
    BY <1>8, Stops DEF Submit
  <2> QED BY <1>8, <2>3, <2>4, TypeKeeps DEF Submit, TypeOK, control
<1>23. ASSUME NEW c \in Callers, SubmitFails(c) PROVE TypeInv'
  <2>1. jobs' \in Seq(Status) /\ DOMAIN jobs' = DOMAIN jobs /\ leaked' \subseteq DOMAIN jobs
    BY <1>0, <1>23, ClosesType DEF SubmitFails, Doing, TypeOK
  <2>2. actor' \in [Callers \cup {Thread} -> Doing]
        /\ \A w \in Callers \cup {Thread} : actor'[w] = actor[w] \/ actor'[w].pc = "idle"
    BY <1>23, Stops DEF SubmitFails
  <2> QED BY <1>23, <2>1, <2>2, TypeKeeps DEF SubmitFails, TypeOK, control
<1>9. ASSUME Take PROVE TypeInv'
  <2> DEFINE new == [pc |-> "begin", for |-> "job", job |-> Head(pool).job, gen |-> Head(pool).gen, attempt |-> 0]
  <2>1. pool \in Seq(Future) /\ pool # <<>>
    BY <1>9 DEF Take, TypeOK
  <2>2. Head(pool) \in Future /\ Tail(pool) \in Seq(Future)
    BY <2>1
  <2>3. new \in Doing /\ new.pc = "begin"
    BY <2>2 DEF Future, Doing, Step
  <2>4. actor' = [actor EXCEPT ![Thread] = new]
    BY <1>9 DEF Take, At
  <2> HIDE DEF new
  <2>5. actor' \in [Callers \cup {Thread} -> Doing]
        /\ \A w \in Callers \cup {Thread} : actor'[w] = actor[w] \/ actor'[w].pc = "begin"
    BY <2>3, <2>4 DEF TypeOK
  <2> QED BY <1>9, <2>2, <2>5, TypeKeeps DEF Take, TypeOK, control
<1>10. ASSUME MarkRunning PROVE TypeInv'
  <2>1. \E pc \in {"launch", "work"} : Does(Thread, pc)
    BY <1>10 DEF MarkRunning
  <2>2. actor' \in [Callers \cup {Thread} -> Doing]
        /\ \A w \in Callers \cup {Thread} : actor'[w] = actor[w] \/ actor'[w].pc \in {"launch", "work"}
    BY SMTT(40), <2>1, MovesOn DEF Step
  <2>3. jobs' \in Seq(Status) /\ DOMAIN jobs' = DOMAIN jobs
    BY <1>0, <1>10, FinishedType DEF MarkRunning, Doing, Status
  <2> QED BY <1>10, <2>2, <2>3, TypeKeeps DEF MarkRunning, TypeOK, control
<1>24. ASSUME MarkFails PROVE TypeInv'
  <2>1. jobs' \in Seq(Status) /\ DOMAIN jobs' = DOMAIN jobs /\ leaked' \subseteq DOMAIN jobs
    BY <1>0, <1>24, ClosesType DEF MarkFails, Doing
  <2>2. actor' \in [Callers \cup {Thread} -> Doing]
        /\ \A w \in Callers \cup {Thread} : actor'[w] = actor[w] \/ actor'[w].pc = "idle"
    BY <1>24, Stops DEF MarkFails
  <2> QED BY <1>24, <2>1, <2>2, TypeKeeps DEF MarkFails, TypeOK, control
<1>11. ASSUME Work PROVE TypeInv'
  <2>1. actor' \in [Callers \cup {Thread} -> Doing]
        /\ \A w \in Callers \cup {Thread} : actor'[w] = actor[w] \/ actor'[w].pc = "idle"
    BY <1>11, Stops DEF Work
  <2>2. PICK st \in {"finished", "stopped"} : Closes(actor[Thread].job, st)
    BY <1>11 DEF Work
  <2>3. jobs' \in Seq(Status) /\ DOMAIN jobs' = DOMAIN jobs /\ leaked' \subseteq DOMAIN jobs
    BY <1>0, <2>2, ClosesType DEF Doing
  <2> QED BY <1>11, <2>1, <2>3, TypeKeeps DEF Work, TypeOK, control
<1>12. ASSUME NEW w \in DOMAIN actor, Cancelled(w) PROVE TypeInv'
  <2>1. actor' \in [Callers \cup {Thread} -> Doing]
        /\ \A v \in Callers \cup {Thread} : actor'[v] = actor[v] \/ actor'[v].pc = "idle"
    BY <1>0, <1>12, Stops DEF Cancelled
  <2>2. jobs' \in Seq(Status) /\ DOMAIN jobs' = DOMAIN jobs /\ leaked' \subseteq DOMAIN jobs
    <3>1. CASE w = Thread
      BY <1>0, <1>12, <3>1, ClosesType DEF Cancelled, Doing
    <3>2. CASE w # Thread
      BY <1>12, <3>2 DEF Cancelled, TypeOK
    <3> QED BY <3>1, <3>2
  <2> QED BY <1>12, <2>1, <2>2, TypeKeeps DEF Cancelled, TypeOK, control
<1>13. ASSUME NEW w \in DOMAIN actor, Launch(w) PROVE TypeInv'
  <2>1. Ends(w) \/ (\E pc \in {"insert", "work"} : Does(w, pc))
    BY <1>13 DEF Launch
  <2>2. actor' \in [Callers \cup {Thread} -> Doing]
        /\ \A v \in Callers \cup {Thread} :
             actor'[v] = actor[v] \/ actor'[v].pc \in {"idle", "insert", "work"}
    BY <1>0, <2>1, MovesOn, Stops DEF Step
  <2> QED BY <1>13, <2>2, TypeKeeps DEF Launch, TypeOK, control
<1>14. ASSUME NEW w \in DOMAIN actor, InsertLaunch(w) PROVE TypeInv'
  <2> DEFINE n == Len(attempts) + 1
             row == [st |-> "launched", late |-> IF Current(w) THEN "no" ELSE "yes"]
             new == [actor[w] EXCEPT !.pc = "spawn", !.attempt = n]
  <2>1. row \in Attempt
    BY DEF Attempt, Current
  <2>2. attempts' = Append(attempts, row) /\ actor' = [actor EXCEPT ![w] = new]
    BY <1>14 DEF InsertLaunch
  <2> HIDE DEF row
  <2>3. attempts' \in Seq(Attempt) /\ DOMAIN attempts' = 1..n /\ n \in Nat
    BY <1>0, <2>1, <2>2 DEF TypeOK
  <2>4. DOMAIN attempts \subseteq DOMAIN attempts' /\ n \in DOMAIN attempts'
    BY <1>0, <2>3
  <2>5. jobs' = jobs /\ pool' = pool /\ reports' = reports /\ leaked' = leaked
        /\ generation' = generation /\ fenced' = FALSE
    BY <1>14 DEF InsertLaunch
  <2>6. actor[w] \in Doing'
    BY <1>0, <2>4, <2>5, Grows
  <2> HIDE DEF n
  <2>7. new \in Doing' /\ new.attempt = n
    BY <2>4, <2>6 DEF Doing, Step
  <2> HIDE DEF new
  <2>8. actor' \in [Callers \cup {Thread} -> Doing']
    BY <1>0, <2>2, <2>4, <2>5, <2>7, Grows DEF TypeOK
  <2>9. TypeOK'
    BY <2>3, <2>4, <2>5, <2>8, Grows DEF TypeOK
  <2>10. Launched'
    BY <1>0, <2>2, <2>4, <2>7 DEF Launched, TypeOK
  <2> QED BY <2>9, <2>10
<1>15. ASSUME NEW w \in DOMAIN actor, SpawnScript(w) PROVE TypeInv'
  <2> DEFINE report == [attempt |-> actor[w].attempt, gen |-> 0, at |-> "script"]
  <2>1. report \in Report
    BY <1>0, <1>15 DEF Report, SpawnScript, Launched
  <2>2. reports' = reports \cup {report}
    BY <1>15 DEF SpawnScript
  <2> HIDE DEF report
  <2>3. reports' \subseteq Report
    BY <2>1, <2>2 DEF TypeOK
  <2> QED BY <1>0, <1>15, <2>3, AwaitsType, TypeKeeps DEF SpawnScript, TypeOK, control
<1>16. ASSUME NEW w \in DOMAIN actor, SpawnThread(w) PROVE TypeInv'
  <2> DEFINE report == [attempt |-> actor[w].attempt, gen |-> actor[w].gen, at |-> "server"]
  <2>1. report \in Report
    BY <1>0, <1>16 DEF Report, SpawnThread, Launched, Doing
  <2>2. reports' = reports \cup {report}
    BY <1>16 DEF SpawnThread
  <2> HIDE DEF report
  <2>3. reports' \subseteq Report
    BY <2>1, <2>2 DEF TypeOK
  <2> QED BY <1>0, <1>16, <2>3, AwaitsType, TypeKeeps DEF SpawnThread, TypeOK, control
<1>17. ASSUME NEW w \in DOMAIN actor, SpawnFails(w) PROVE TypeInv'
  <2>1. attempts' \in Seq(Attempt) /\ DOMAIN attempts' = DOMAIN attempts
    BY <1>0, <1>17, RecordedType, RecordsEither DEF SpawnFails, Launched, TypeOK
  <2>2. actor[w].pc = "spawn" /\ Awaits(w)
    BY <1>17 DEF SpawnFails
  <2>3. /\ generation' = generation /\ fenced' = fenced /\ jobs' = jobs /\ pool' = pool
        /\ reports' = reports /\ leaked' = leaked
    BY <1>17 DEF SpawnFails, control
  <2> QED BY <1>0, <2>1, <2>2, <2>3, AwaitsType, TypeKeeps DEF TypeOK
<1>18. ASSUME WaitOver PROVE TypeInv'
  <2>1. attempts' \in Seq(Attempt) /\ DOMAIN attempts' = DOMAIN attempts
    BY <1>0, <1>18, RecordedType, RecordsEither DEF WaitOver, Launched, TypeOK
  <2>2. actor' \in [Callers \cup {Thread} -> Doing]
        /\ \A w \in Callers \cup {Thread} : actor'[w] = actor[w] \/ actor'[w].pc = "work"
    BY <1>18, MovesOn DEF WaitOver, Step
  <2> QED BY <1>18, <2>1, <2>2, TypeKeeps DEF WaitOver, TypeOK, control
<1>19. ASSUME NEW r \in reports, Arrive(r) PROVE TypeInv'
  <2> DEFINE report == [r EXCEPT !.gen = generation, !.at = "server"]
  <2>1. report \in Report
    BY DEF TypeOK, Report
  <2>2. reports' = (reports \ {r}) \cup {report}
    BY <1>19 DEF Arrive
  <2> HIDE DEF report
  <2>3. reports' \subseteq Report
    BY <2>1, <2>2 DEF TypeOK
  <2> QED BY <1>19, <2>3, TypeKeeps DEF Arrive, TypeOK, control
<1>20. ASSUME NEW r \in reports, Import(r) \/ ReportFails(r) PROVE TypeInv'
  <2>1. r.attempt \in DOMAIN attempts
    BY DEF TypeOK, Report
  <2>2. attempts' = attempts \/ \E st \in {"completed", "over"} : attempts' = Recorded(r.attempt, st)
    BY <1>20, RecordsEither DEF Import, ReportFails
  <2>3. attempts' \in Seq(Attempt) /\ DOMAIN attempts' = DOMAIN attempts
    BY <2>1, <2>2, RecordedType DEF TypeOK
  <2> QED BY <1>20, <2>3, TypeKeeps DEF Import, ReportFails, TypeOK, control
<1>21. ASSUME Restart PROVE TypeInv'
  <2> DEFINE stopped == [i \in DOMAIN attempts |-> Stopped(attempts[i])]
             rows == [j \in DOMAIN jobs |-> IF j \in Active THEN "stopped" ELSE jobs[j]]
  <2>1. stopped \in Seq(Attempt) /\ DOMAIN stopped = DOMAIN attempts
    BY StoppedType DEF TypeOK
  <2>2. attempts' = Late(stopped, "yes") \/ attempts' = Late(attempts, "missed")
    BY <1>21 DEF Restart, RecoverSyncs, Recovered
  <2> HIDE DEF stopped
  <2>3. attempts' \in Seq(Attempt) /\ DOMAIN attempts' = DOMAIN attempts
    BY <2>1, <2>2, LateType DEF TypeOK
  <2>4. rows \in [1..Len(jobs) -> Status]
    BY <1>0 DEF TypeOK, Status
  <2>5. jobs' \in Seq(Status) /\ DOMAIN jobs' = DOMAIN jobs /\ leaked' \subseteq DOMAIN jobs
    <3>1. CASE jobs' = rows /\ leaked' = {}
      BY <1>0, <2>4, <3>1, IsSeq
    <3>2. CASE jobs' = jobs /\ leaked' = Active
      BY <3>2 DEF TypeOK, Active
    <3> QED BY <1>21, <3>1, <3>2 DEF Restart, RecoverJobs
  <2>6. actor' = [w \in Callers \cup {Thread} |-> Idle]
    BY <1>0, <1>21 DEF Restart
  <2>7. Idle \in Doing /\ Idle.pc = "idle"
    BY DEF Idle, At, Doing, Step
  <2> HIDE DEF Idle
  <2>8. actor' \in [Callers \cup {Thread} -> Doing] /\ \A w \in Callers \cup {Thread} : actor'[w].pc = "idle"
    BY <2>6, <2>7
  <2>9. generation' \in Nat /\ pool' \in Seq(Future) /\ reports' \subseteq Report
    BY <1>21 DEF Restart, TypeOK
  <2>10. fenced' \in BOOLEAN
    BY <1>21 DEF Restart
  <2> QED BY <2>3, <2>5, <2>8, <2>9, <2>10, TypeKeeps
<1>22. ASSUME UNCHANGED vars PROVE TypeInv'
  BY <1>0, <1>22, TypeKeeps DEF vars, TypeOK
<1> QED
  BY <1>1, <1>2, <1>3, <1>4, <1>5, <1>6, <1>7, <1>8, <1>9, <1>10, <1>11, <1>12, <1>13, <1>14,
     <1>15, <1>16, <1>17, <1>18, <1>19, <1>20, <1>21, <1>22, <1>23, <1>24 DEF Next, Start, Refresh, Job

\* Nothing has been asked for at the start.
LEMMA InitType == Init => TypeInv
<1> SUFFICES ASSUME Init PROVE TypeInv
  OBVIOUS
<1>1. Idle \in Doing /\ Idle.pc = "idle"
  BY DEF Idle, At, Doing, Step
<1> HIDE DEF Idle
<1>2. jobs \in Seq(Status) /\ attempts \in Seq(Attempt) /\ pool \in Seq(Future)
      /\ reports \subseteq Report /\ leaked \subseteq DOMAIN jobs
  BY DEF Init
<1>3. actor \in [Callers \cup {Thread} -> Doing] /\ \A w \in Callers \cup {Thread} : actor[w].pc = "idle"
  BY <1>1 DEF Init
<1>4. generation \in Nat /\ fenced \in BOOLEAN
  BY DEF Init
<1> QED BY <1>2, <1>3, <1>4 DEF TypeInv, TypeOK, Launched

\* Every variable has its type.
THEOREM TypeCorrect == Spec => []TypeOK
<1>1. Init => TypeInv
  BY InitType
<1>2. TypeInv /\ [Next]_vars => TypeInv'
  BY TypeStep
<1>3. TypeInv => TypeOK
  BY DEF TypeInv
<1> QED BY <1>1, <1>2, <1>3, PTL DEF Spec

(***************************************************************************)
(* Who may import.                                                         *)
(***************************************************************************)
\* A late attempt that the guards of an import would let pass, if a report
\* came to them under the current generation ...
Exposed(i) == attempts[i].st = "launched" /\ attempts[i].late = "yes" /\ i = Len(attempts) /\ ~fenced
\* ... and none does.
Careful ==
  \A i \in DOMAIN attempts : Exposed(i) =>
    /\ \A r \in reports : r.attempt = i => r.at = "server" /\ r.gen # generation
    /\ \A w \in DOMAIN actor : actor[w].pc = "spawn" /\ actor[w].attempt = i => actor[w].gen # generation

\* Once all attempts are stopped none reads as launched.
LEMMA NothingLaunched ==
  \A i \in DOMAIN Late([k \in DOMAIN attempts |-> Stopped(attempts[k])], "yes") :
    TypeOK => Late([k \in DOMAIN attempts |-> Stopped(attempts[k])], "yes")[i].st # "launched"
<1> DEFINE stopped == [k \in DOMAIN attempts |-> Stopped(attempts[k])]
<1> SUFFICES ASSUME TypeOK, NEW i \in DOMAIN Late(stopped, "yes") PROVE Late(stopped, "yes")[i].st # "launched"
  OBVIOUS
<1>1. DOMAIN stopped = DOMAIN attempts /\ DOMAIN Late(stopped, "yes") = DOMAIN stopped
  BY DEF Late
<1>2. attempts[i] \in Attempt /\ stopped[i] = Stopped(attempts[i])
  BY <1>1 DEF TypeOK
<1>3. Stopped(attempts[i]) \in Attempt /\ Stopped(attempts[i]).st # "launched"
  BY <1>2 DEF Stopped, Attempt
<1> HIDE DEF stopped
<1>4. Late(stopped, "yes")[i] = [stopped[i] EXCEPT !.late = "yes"]
  BY <1>1 DEF Late
<1> QED BY <1>2, <1>3, <1>4 DEF Attempt

\* A launched attempt that becomes late has not completed.
LEMMA CutsNothing ==
  ASSUME TypeOK, NEW i \in DOMAIN attempts, attempts[i].st = "launched", NEW how \in {"yes", "missed"}
  PROVE  /\ Late(attempts, how)[i].st # "completed"
         /\ Late([k \in DOMAIN attempts |-> Stopped(attempts[k])], how)[i].st # "completed"
<1> DEFINE stopped == [k \in DOMAIN attempts |-> Stopped(attempts[k])]
<1>1. attempts[i] \in Attempt /\ stopped[i] = Stopped(attempts[i]) /\ DOMAIN stopped = DOMAIN attempts
  BY DEF TypeOK
<1>2. stopped[i] \in Attempt /\ stopped[i].st # "completed"
  BY <1>1 DEF Stopped, Attempt
<1> HIDE DEF stopped
<1>3. Late(attempts, how)[i] = [attempts[i] EXCEPT !.late = how] /\ Late(stopped, how)[i] = [stopped[i] EXCEPT !.late = how]
  BY <1>1 DEF Late
<1>4. Late(attempts, how)[i].st # "completed" /\ Late(stopped, how)[i].st # "completed"
  BY <1>1, <1>2, <1>3 DEF Attempt
<1> QED BY <1>4 DEF stopped

\* An attempt that a restart's recovery missed is not exposed.
LEMMA MissedHides ==
  ASSUME TypeOK
  PROVE  \A i \in DOMAIN Late(attempts, "missed") : Late(attempts, "missed")[i].late = "missed"
<1> SUFFICES ASSUME NEW i \in DOMAIN Late(attempts, "missed") PROVE Late(attempts, "missed")[i].late = "missed"
  OBVIOUS
<1>1. i \in DOMAIN attempts /\ Late(attempts, "missed")[i] = [attempts[i] EXCEPT !.late = "missed"]
  BY DEF Late
<1>2. attempts[i] \in Attempt
  BY <1>1 DEF TypeOK
<1> QED BY <1>1, <1>2 DEF Attempt

\* A step that exposes no attempt, and brings no current report to one.
LEMMA CarefulKeeps ==
  ASSUME TypeInv, TypeInv', Careful, generation' = generation, fenced' = fenced,
         DOMAIN attempts' = DOMAIN attempts,
         \A i \in DOMAIN attempts :
           attempts'[i].st = "launched" =>
             attempts[i].st = "launched" /\ attempts'[i].late = attempts[i].late,
         \A r \in reports' :
           \/ r \in reports
           \/ r.attempt \in DOMAIN attempts
              /\ (Exposed(r.attempt) => r.at = "server" /\ r.gen # generation),
         \A w \in Callers \cup {Thread} :
           actor'[w].pc = "spawn" =>
             actor[w].pc = "spawn" /\ actor'[w].attempt = actor[w].attempt /\ actor'[w].gen = actor[w].gen
  PROVE  Careful'
<1>1. Len(attempts') = Len(attempts)
  BY DEF TypeInv, TypeOK
<1>2. \A i \in DOMAIN attempts : Exposed(i)' => Exposed(i)
  BY <1>1 DEF Exposed
<1>3. DOMAIN actor = Callers \cup {Thread} /\ DOMAIN actor' = Callers \cup {Thread}
  BY DEF TypeInv, TypeOK
<1>4. ASSUME NEW i \in DOMAIN attempts, Exposed(i) PROVE
        /\ \A r \in reports' : r.attempt = i => r.at = "server" /\ r.gen # generation
        /\ \A w \in DOMAIN actor' : actor'[w].pc = "spawn" /\ actor'[w].attempt = i => actor'[w].gen # generation
  BY <1>3, <1>4 DEF Careful
<1> QED BY <1>2, <1>4 DEF Careful

\* A late attempt that reads as launched keeps a guard of the import against it.
LEMMA CarefulStep == ASSUME TypeInv, TypeInv', Careful, [Next]_vars PROVE Careful'
<1>0. /\ Len(attempts) \in Nat /\ DOMAIN attempts = 1..Len(attempts)
      /\ DOMAIN actor = Callers \cup {Thread}
      /\ TypeOK /\ Launched
      /\ attempts \in Seq(Attempt) /\ actor \in [Callers \cup {Thread} -> Doing]
  BY DEF TypeInv, TypeOK
<1> DEFINE Still(w) == actor'[w].pc = "spawn" =>
             actor[w].pc = "spawn" /\ actor'[w].attempt = actor[w].attempt /\ actor'[w].gen = actor[w].gen
<1>1. ASSUME NEW c \in Callers, Reserve(c) \/ Request(c) \/ Capture(c) PROVE Careful'
  <2>1. ASSUME NEW w \in Callers \cup {Thread} PROVE Still(w)
    <3>1. \E new : actor' = [actor EXCEPT ![c] = new] /\ new.pc # "spawn"
      <4>1. ASSUME NEW pc \in {"stop", "capture"}, NEW for, NEW job PROVE At(pc, for, job, 0).pc # "spawn"
        BY DEF At
      <4>2. [actor[c] EXCEPT !.pc = "submit", !.gen = generation].pc # "spawn"
        BY <1>0 DEF Doing
      <4>3. CASE Reserve(c)
        <5>1. PICK pc \in {"stop", "capture"} : actor' = [actor EXCEPT ![c] = At(pc, "start", Len(jobs) + 1, 0)]
          BY <4>3 DEF Reserve
        <5> QED BY <4>1, <5>1
      <4>4. CASE Request(c)
        BY <4>1, <4>4 DEF Request
      <4>5. CASE Capture(c)
        BY <4>2, <4>5 DEF Capture
      <4> QED BY <1>1, <4>3, <4>4, <4>5
    <3> QED BY <1>0, <3>1
  <2> QED BY <1>1, <2>1, CarefulKeeps DEF Reserve, Request, Capture, control
<1>2. ASSUME NEW c \in Callers, Publish(c) PROVE Careful'
  <2>1. fenced' = TRUE \/ attempts' = Late([i \in DOMAIN attempts |-> Stopped(attempts[i])], "yes")
    BY <1>2, Zenon DEF Publish
  <2> QED BY <1>0, <2>1, NothingLaunched DEF Careful, Exposed
<1>3. ASSUME NEW c \in Callers, StopRows(c) \/ Kill(c) \/ CancelQueued(c) \/ Submit(c) \/ SubmitFails(c) PROVE Careful'
  <2>1. ASSUME NEW w \in Callers \cup {Thread} PROVE Still(w)
    <3>1. Ends(c) \/ \E pc \in {"kill", "launch", "cancel", "submit"} : Does(c, pc)
      BY <1>3 DEF StopRows, Kill, CancelQueued, Submit, SubmitFails
    <3>2. CASE Ends(c)
      BY <1>0, <3>2, Stops
    <3>3. ASSUME NEW pc \in {"kill", "launch", "cancel", "submit"}, Does(c, pc) PROVE Still(w)
      <4>1. pc \in Step /\ pc # "spawn"
        BY DEF Step
      <4> QED BY <1>0, <3>3, <4>1, MovesOn
    <3> QED BY <3>1, <3>2, <3>3
  <2> QED BY <1>3, <2>1, CarefulKeeps DEF StopRows, Kill, CancelQueued, Submit, SubmitFails, control
<1>4. ASSUME Take PROVE Careful'
  <2>1. \A w \in Callers \cup {Thread} : Still(w)
    BY <1>0, <1>4 DEF Take, At
  <2> QED BY <1>4, <2>1, CarefulKeeps DEF Take, control
<1>5. ASSUME MarkRunning \/ MarkFails \/ Work PROVE Careful'
  <2>1. \A w \in Callers \cup {Thread} : Still(w)
    BY <1>0, <1>5, MovesOn, Stops DEF MarkRunning, MarkFails, Work, Step
  <2> QED BY <1>5, <2>1, CarefulKeeps DEF MarkRunning, MarkFails, Work, control
<1>6. ASSUME NEW v \in DOMAIN actor, Cancelled(v) \/ Launch(v) PROVE Careful'
  <2>1. \A w \in Callers \cup {Thread} : Still(w)
    BY <1>0, <1>6, MovesOn, Stops DEF Cancelled, Launch, Step
  <2> QED BY <1>6, <2>1, CarefulKeeps DEF Cancelled, Launch, control
<1>7. ASSUME NEW v \in DOMAIN actor, InsertLaunch(v) PROVE Careful'
  <2> DEFINE n == Len(attempts) + 1
             row == [st |-> "launched", late |-> IF Current(v) THEN "no" ELSE "yes"]
             new == [actor[v] EXCEPT !.pc = "spawn", !.attempt = n]
  <2>1. attempts' = Append(attempts, row) /\ actor' = [actor EXCEPT ![v] = new]
    BY <1>7 DEF InsertLaunch
  <2>2. (row.late = "yes" <=> ~Current(v)) /\ new.gen = actor[v].gen
    BY <1>0 DEF Doing
  <2> HIDE DEF row, new
  <2>3. Len(attempts') = n /\ attempts'[n] = row /\ n \in Nat /\ n \notin DOMAIN attempts
    BY <1>0, <2>1
  <2>4. reports' = reports /\ generation' = generation
    BY <1>7 DEF InsertLaunch
  <2>5. \A r \in reports' : r.attempt # n
    BY <2>3, <2>4, <1>0 DEF TypeOK, Report
  <2>6. \A w \in Callers \cup {Thread} :
          w # v /\ actor'[w].pc = "spawn" => actor'[w].attempt # n
    BY <1>0, <2>1, <2>3 DEF Launched
  <2>7. actor'[v] = new /\ DOMAIN actor' = Callers \cup {Thread}
    BY <1>0, <2>1
  <2> HIDE DEF n
  <2> QED BY <1>0, <2>2, <2>3, <2>4, <2>5, <2>6, <2>7 DEF Careful, Exposed, Current
<1>8. ASSUME NEW v \in DOMAIN actor, SpawnScript(v) \/ SpawnThread(v) PROVE Careful'
  <2>1. \A w \in Callers \cup {Thread} : Still(w)
    BY <1>0, <1>8, AwaitsType DEF SpawnScript, SpawnThread
  <2>2. actor[v].attempt \in DOMAIN attempts
    BY <1>0, <1>8 DEF Launched, SpawnScript, SpawnThread
  <2>3. ASSUME NEW r \in reports', r \notin reports
        PROVE  r.attempt \in DOMAIN attempts /\ (Exposed(r.attempt) => r.at = "server" /\ r.gen # generation)
    <3>1. actor[v].pc = "spawn" /\ (SpawnScript(v) => actor[v].gen = generation)
      BY <1>8 DEF SpawnScript, SpawnThread, Current
    <3>2. Exposed(actor[v].attempt) => actor[v].gen # generation
      BY <1>0, <2>2, <3>1 DEF Careful
    <3> DEFINE script == [attempt |-> actor[v].attempt, gen |-> 0, at |-> "script"]
               thread == [attempt |-> actor[v].attempt, gen |-> actor[v].gen, at |-> "server"]
    <3>3. script.attempt = actor[v].attempt /\ thread.attempt = actor[v].attempt
          /\ thread.at = "server" /\ thread.gen = actor[v].gen
      OBVIOUS
    <3>4. reports' = reports \cup {thread} \/ (SpawnScript(v) /\ reports' = reports \cup {script})
      BY <1>8 DEF SpawnScript, SpawnThread
    <3> HIDE DEF script, thread
    <3>5. CASE reports' = reports \cup {thread}
      <4>1. r = thread
        BY <2>3, <3>5
      <4>2. r.attempt = actor[v].attempt /\ r.at = "server" /\ r.gen = actor[v].gen
        BY <3>3, <4>1
      <4> QED BY <2>2, <3>2, <4>2 DEF Exposed
    <3>6. CASE SpawnScript(v) /\ reports' = reports \cup {script}
      <4>1. ~Exposed(actor[v].attempt)
        BY <3>1, <3>2, <3>6
      <4>2. r = script
        BY <2>3, <3>6
      <4>3. r.attempt = actor[v].attempt
        BY <3>3, <4>2
      <4> QED BY <2>2, <4>1, <4>3 DEF Exposed
    <3> QED BY <3>4, <3>5, <3>6
  <2> QED BY <1>8, <2>1, <2>3, CarefulKeeps DEF SpawnScript, SpawnThread, control
<1>9. ASSUME NEW v \in DOMAIN actor, SpawnFails(v) PROVE Careful'
  <2>1. \A w \in Callers \cup {Thread} : Still(w)
    BY <1>0, <1>9, AwaitsType DEF SpawnFails
  <2>2. actor[v].attempt \in DOMAIN attempts
        /\ (attempts' = Recorded(actor[v].attempt, "over") \/ attempts' = attempts)
    BY <1>0, <1>9, RecordsEither DEF Launched, SpawnFails
  <2> QED BY <1>0, <1>9, <2>1, <2>2, RecordedType, CarefulKeeps DEF SpawnFails, control
<1>10. ASSUME WaitOver PROVE Careful'
  <2>1. \A w \in Callers \cup {Thread} : Still(w)
    BY <1>0, <1>10, MovesOn DEF WaitOver, Step
  <2>2. actor[Thread].attempt \in DOMAIN attempts
        /\ (attempts' = Recorded(actor[Thread].attempt, "over") \/ attempts' = attempts)
    BY <1>0, <1>10, RecordsEither DEF Launched, WaitOver
  <2> QED BY <1>0, <1>10, <2>1, <2>2, RecordedType, CarefulKeeps DEF WaitOver, control
<1>11. ASSUME NEW r \in reports, Arrive(r) PROVE Careful'
  <2> DEFINE report == [r EXCEPT !.gen = generation, !.at = "server"]
  <2>1. report.attempt = r.attempt /\ r.attempt \in DOMAIN attempts /\ r.at = "script"
    BY <1>0, <1>11 DEF TypeOK, Report, Arrive
  <2>2. reports' = (reports \ {r}) \cup {report}
    BY <1>11 DEF Arrive
  <2> HIDE DEF report
  <2>3. ~Exposed(r.attempt)
    BY <2>1 DEF Careful
  <2> QED BY <1>11, <2>1, <2>2, <2>3, CarefulKeeps DEF Arrive, control
<1>12. ASSUME NEW r \in reports, Import(r) \/ ReportFails(r) PROVE Careful'
  <2>1. r.attempt \in DOMAIN attempts
    BY <1>0 DEF TypeOK, Report
  <2>2. attempts' = attempts \/ \E st \in {"completed", "over"} : attempts' = Recorded(r.attempt, st)
    BY <1>12, RecordsEither DEF Import, ReportFails
  <2>3. reports' \subseteq reports /\ actor' = actor /\ generation' = generation /\ fenced' = fenced
    BY <1>12 DEF Import, ReportFails, control
  <2> QED BY <1>0, <2>1, <2>2, <2>3, RecordedType, CarefulKeeps
<1>13. ASSUME Restart PROVE Careful'
  BY <1>0, <1>13, NothingLaunched, MissedHides DEF Restart, RecoverSyncs, Recovered, Careful, Exposed
<1>14. ASSUME UNCHANGED vars PROVE Careful'
  BY <1>14 DEF vars, Careful, Exposed
<1> QED
  BY <1>1, <1>2, <1>3, <1>4, <1>5, <1>6, <1>7, <1>8, <1>9, <1>10, <1>11, <1>12, <1>13, <1>14
  DEF Next, Start, Refresh, Job

\* The catalogue is written only by the newest attempt, and by none whose
\* work was stopped, superseded or cut off by a restart that recovered it.
THEOREM ImportTheorem == Spec => OnlyCurrentImports
<1> DEFINE Checked == \A i \in DOMAIN attempts :
             attempts[i].st = "launched" /\ attempts'[i].st = "completed"
               => attempts[i].late # "yes" /\ i = Len(attempts)
           Inv == TypeInv /\ Careful
<1>1. Init => Inv
  <2>1. Init => Careful
    BY DEF Init, Careful
  <2> QED BY <2>1, InitType
<1>2. Inv /\ [Next]_vars => Inv'
  BY TypeStep, CarefulStep
<1>3. Inv /\ [Next]_vars => [Checked]_vars
  <2> SUFFICES ASSUME TypeInv, Careful, [Next]_vars,
                      NEW i \in DOMAIN attempts,
                      attempts[i].st = "launched", attempts'[i].st = "completed"
               PROVE  attempts[i].late # "yes" /\ i = Len(attempts)
    OBVIOUS
  <2>0. TypeOK /\ Launched /\ attempts \in Seq(Attempt) /\ DOMAIN actor = Callers \cup {Thread}
    BY DEF TypeInv, TypeOK
  <2>1. PICK r \in reports : Import(r) /\ attempts' = Recorded(r.attempt, "completed")
                             /\ ~fenced /\ r.gen = generation
    <3>1. \A j \in DOMAIN attempts : Recorded(j, "over")[i].st # "completed"
      BY <2>0, RecordedType
    <3>2. attempts' # attempts
      OBVIOUS
    <3>3. ~\E c \in Callers : Publish(c)
      BY <2>0, CutsNothing DEF Publish
    <3>4. ~\E w \in DOMAIN actor : InsertLaunch(w)
      <4> SUFFICES ASSUME NEW w \in DOMAIN actor, InsertLaunch(w) PROVE FALSE
        OBVIOUS
      <4>1. PICK row \in Attempt : attempts' = Append(attempts, row)
        BY DEF InsertLaunch, Attempt, Current
      <4> QED BY <2>0, <4>1
    <3>5. ~\E w \in DOMAIN actor : SpawnFails(w)
      BY <2>0, <3>1, <3>2, RecordsEither DEF SpawnFails, Launched
    <3>6. ~WaitOver
      BY <2>0, <3>1, <3>2, RecordsEither DEF WaitOver, Launched
    <3>7. \A r \in reports : r.attempt \in DOMAIN attempts
      BY <2>0 DEF TypeOK, Report
    <3>8. ~\E r \in reports : ReportFails(r)
      BY <3>1, <3>2, <3>7 DEF ReportFails
    <3>9. ~Restart
      BY <2>0, CutsNothing DEF Restart, RecoverSyncs, Recovered
    <3>10. \E r \in reports : Import(r)
      BY <3>2, <3>3, <3>4, <3>5, <3>6, <3>8, <3>9
      DEF Next, Start, Refresh, Job, vars, Reserve, Request, StopRows, Kill, CancelQueued, Capture, Submit,
          SubmitFails, Take, MarkRunning, MarkFails, Work, Cancelled, Launch, SpawnScript, SpawnThread, Arrive
    <3> QED BY <3>1, <3>2, <3>7, <3>10, RecordsEither DEF Import
  <2>2. r.attempt \in DOMAIN attempts
    BY <2>0 DEF TypeOK, Report
  <2>3. i = r.attempt /\ Authoritative(i)
    BY <2>0, <2>1, <2>2, RecordedType
  <2> QED BY <2>1, <2>3 DEF Careful, Exposed, Authoritative
<1> HIDE DEF Inv, Checked
<1> SUFFICES Spec => [][Checked]_vars
  BY DEF OnlyCurrentImports, Checked
<1> QED BY <1>1, <1>2, <1>3, PTL DEF Spec

(***************************************************************************)
(* Who keeps the one active row.                                           *)
(***************************************************************************)
One == \A i, j \in Active : i = j
Owned == Active \subseteq Working \cup leaked
\* A request that waits for nothing of its job, or starts none, holds none.
Holds(worker, isThread) ==
  /\ worker.pc = "idle" => worker.job = 0
  /\ ~isThread /\ (worker.for # "start" \/ worker.pc \in {"launch", "insert", "spawn", "wait"})
       => worker.job = 0
Owners == \A w \in Callers \cup {Thread} : Holds(actor[w], w = Thread)
BlockInv == One /\ Owned /\ Owners

\* A step of one worker that makes no row active and drops none that is.
LEMMA BlockKeeps ==
  ASSUME TypeInv, TypeInv', BlockInv, Active' \subseteq Active,
         NEW w \in Callers \cup {Thread},
         \A v \in (Callers \cup {Thread}) \ {w} : actor'[v] = actor[v],
         Holds(actor'[w], w = Thread),
         \A j \in Active' : j \in {actor[w].job} \cup Queued \cup leaked =>
           j \in {actor'[w].job} \cup Queued' \cup leaked'
  PROVE  BlockInv'
<1>1. DOMAIN actor = Callers \cup {Thread} /\ DOMAIN actor' = Callers \cup {Thread}
  BY DEF TypeInv, TypeOK
<1>2. One' /\ Owners'
  BY DEF BlockInv, One, Owners
<1>3. ASSUME NEW j \in Active' PROVE j \in (Working \cup leaked)'
  <2>1. (\E v \in Callers \cup {Thread} : j = actor[v].job) \/ j \in Queued \/ j \in leaked
    BY <1>1, <1>3 DEF BlockInv, Owned, Working
  <2>2. (\E v \in Callers \cup {Thread} : j = actor'[v].job) \/ j \in Queued' \/ j \in leaked'
    BY <1>3, <2>1
  <2> QED BY <1>1, <2>2 DEF Working
<1> QED BY <1>2, <1>3 DEF BlockInv, Owned

\* The rows of the jobs that wait and of those that ran.
LEMMA QueuedKeeps ==
  ASSUME TypeInv
  PROVE  /\ pool' = pool => Queued' = Queued
         /\ pool' = <<>> => Queued' = {}
         /\ \A f : pool' = Append(pool, f) => Queued' = Queued \cup {f.job}
         /\ pool # <<>> /\ pool' = Tail(pool) => Queued \subseteq Queued' \cup {Head(pool).job}
<1>1. pool \in Seq(Future) /\ Len(pool) \in Nat /\ DOMAIN pool = 1..Len(pool)
  BY DEF TypeInv, TypeOK
<1>2. pool' = pool => Queued' = Queued
  BY DEF Queued
<1>3. pool' = <<>> => Queued' = {}
  BY DEF Queued
<1>4. ASSUME NEW f, pool' = Append(pool, f) PROVE Queued' = Queued \cup {f.job}
  <2>1. DOMAIN pool' = 1..(Len(pool) + 1) /\ pool'[Len(pool) + 1] = f
        /\ \A k \in DOMAIN pool : pool'[k] = pool[k]
    BY <1>1, <1>4
  <2> QED BY <1>1, <2>1 DEF Queued
<1>5. ASSUME pool # <<>>, pool' = Tail(pool) PROVE Queued \subseteq Queued' \cup {Head(pool).job}
  <2>1. ASSUME NEW k \in DOMAIN pool PROVE pool[k].job \in Queued' \cup {Head(pool).job}
    <3>1. CASE k = 1
      BY <1>1, <1>5, <3>1
    <3>2. CASE k # 1
      <4>1. k - 1 \in DOMAIN pool' /\ pool'[k - 1] = pool[k]
        BY <1>1, <1>5, <3>2
      <4> QED BY <4>1 DEF Queued
    <3> QED BY <3>1, <3>2
  <2> QED BY <2>1 DEF Queued
<1> QED BY <1>2, <1>3, <1>4, <1>5

\* Each step leaves one active job at most, with an owner or leaked.
LEMMA BlockStep == ASSUME TypeInv, TypeInv', BlockInv, [Next]_vars PROVE BlockInv'
<1>0. /\ TypeOK /\ DOMAIN actor = Callers \cup {Thread}
      /\ DOMAIN jobs = 1..Len(jobs) /\ Len(jobs) \in Nat /\ 0 \notin DOMAIN jobs
      /\ Active \subseteq DOMAIN jobs
      /\ actor \in [Callers \cup {Thread} -> Doing]
      /\ \A w \in Callers \cup {Thread} : Holds(actor[w], w = Thread) /\ actor[w].job \in {0} \cup DOMAIN jobs
  BY DEF TypeInv, TypeOK, BlockInv, Owners, Doing, Active
<1>a. jobs' = jobs => Active' = Active
  BY DEF Active
<1>1. ASSUME NEW c \in Callers, Reserve(c) PROVE BlockInv'
  <2>1. PICK pc \in {"stop", "capture"} : actor' = [actor EXCEPT ![c] = At(pc, "start", Len(jobs) + 1, 0)]
    BY <1>1 DEF Reserve
  <2>2. Active' = {Len(jobs) + 1}
    <3>1. Active = {} /\ jobs \in Seq(Status) /\ jobs' = Append(jobs, "queued")
      BY <1>0, <1>1 DEF Reserve, TypeOK
    <3> QED BY <1>0, <3>1 DEF Active
  <2> DEFINE new == At(pc, "start", Len(jobs) + 1, 0)
  <2>3. new.job = Len(jobs) + 1 /\ new.pc \in {"stop", "capture"} /\ new.for = "start"
    BY DEF At
  <2> HIDE DEF new
  <2>4. actor' = [actor EXCEPT ![c] = new]
    BY <2>1 DEF new
  <2>5. DOMAIN actor' = Callers \cup {Thread} /\ actor'[c] = new
        /\ \A v \in (Callers \cup {Thread}) \ {c} : actor'[v] = actor[v]
    BY <1>0, <2>4
  <2>6. Holds(new, c = Thread)
    BY <2>3 DEF Holds
  <2> QED BY <1>0, <2>2, <2>3, <2>5, <2>6 DEF BlockInv, One, Owned, Owners, Working
<1>2. ASSUME NEW c \in Callers, Request(c) PROVE BlockInv'
  <2>1. PICK for \in {"stop", "sync"} : actor' = [actor EXCEPT ![c] = At("stop", for, 0, 0)]
    BY <1>2 DEF Request
  <2> DEFINE new == At("stop", for, 0, 0)
  <2>2. new.job = 0 /\ new.pc = "stop"
    BY DEF At
  <2> HIDE DEF new
  <2>3. actor'[c] = new /\ \A v \in (Callers \cup {Thread}) \ {c} : actor'[v] = actor[v]
    BY <1>0, <2>1 DEF new
  <2>4. Active' = Active /\ leaked' = leaked /\ Queued' = Queued /\ actor[c].job = 0
    BY <1>0, <1>2, <1>a, QueuedKeeps DEF Request, Holds
  <2>5. Holds(actor'[c], c = Thread)
    BY <2>2, <2>3 DEF Holds
  <2> QED BY <1>0, <2>3, <2>4, <2>5, BlockKeeps
<1>3. ASSUME NEW c \in Callers, Publish(c) \/ Capture(c) PROVE BlockInv'
  <2> DEFINE rows == [actor[c] EXCEPT !.pc = "rows", !.gen = generation']
             submit == [actor[c] EXCEPT !.pc = "submit", !.gen = generation]
  <2>1. /\ rows.job = actor[c].job /\ rows.for = actor[c].for /\ rows.pc = "rows"
        /\ submit.job = actor[c].job /\ submit.for = actor[c].for /\ submit.pc = "submit"
    BY <1>0 DEF Doing
  <2>2. actor' = [actor EXCEPT ![c] = rows] \/ actor' = [actor EXCEPT ![c] = submit]
    BY <1>3 DEF Publish, Capture
  <2> HIDE DEF rows, submit
  <2>3. /\ actor'[c].job = actor[c].job /\ actor'[c].for = actor[c].for /\ actor'[c].pc \in {"rows", "submit"}
        /\ \A v \in (Callers \cup {Thread}) \ {c} : actor'[v] = actor[v]
    BY <1>0, <2>1, <2>2
  <2>4. Active' = Active /\ leaked' = leaked /\ Queued' = Queued
    BY <1>3, <1>a, QueuedKeeps DEF Publish, Capture
  <2>5. Holds(actor'[c], c = Thread)
    BY <1>0, <2>3 DEF Holds
  <2> QED BY <2>3, <2>4, <2>5, BlockKeeps
<1>4. ASSUME NEW c \in Callers, StopRows(c) PROVE BlockInv'
  <2>1. Active' \subseteq Active
    BY <1>0, <1>4 DEF StopRows, Active
  <2>2. leaked' = leaked /\ Queued' = Queued /\ Does(c, "kill")
    BY <1>4, QueuedKeeps DEF StopRows
  <2>3. actor'[c].job = actor[c].job /\ Holds(actor'[c], c = Thread)
        /\ \A v \in (Callers \cup {Thread}) \ {c} : actor'[v] = actor[v]
    BY <1>0, <2>2, MovesOn DEF Holds, Step
  <2> QED BY <2>1, <2>2, <2>3, BlockKeeps
<1>5. ASSUME NEW c \in Callers, Kill(c) PROVE BlockInv'
  <2>1. Active' = Active /\ Queued' = Queued
    BY <1>5, <1>a, QueuedKeeps DEF Kill
  <2>2. CASE Ends(c)
    <3>1. actor'[c].pc = "idle" /\ actor'[c].for = "none" /\ actor'[c].job = 0
          /\ \A v \in (Callers \cup {Thread}) \ {c} : actor'[v] = actor[v]
      BY <1>0, <2>2, Stops
    <3>2. leaked' = leaked \cup ({actor[c].job} \cap Active)
      <4>1. actor[c].pc # "idle"
        BY <1>5 DEF Kill
      <4>2. \A pc \in {"launch", "cancel"} : ~Does(c, pc)
        BY <1>0, <3>1, MovesOn DEF Step
      <4> QED BY <1>5, <4>2 DEF Kill
    <3>3. Holds(actor'[c], c = Thread)
      BY <3>1 DEF Holds
    <3> QED BY <2>1, <3>1, <3>2, <3>3, BlockKeeps
  <2>3. CASE ~Ends(c)
    <3>1. Does(c, IF actor[c].for = "sync" THEN "launch" ELSE "cancel") /\ leaked' = leaked
      BY <1>5, <2>3 DEF Kill
    <3>2. actor'[c].job = actor[c].job /\ Holds(actor'[c], c = Thread)
          /\ \A v \in (Callers \cup {Thread}) \ {c} : actor'[v] = actor[v]
      BY <1>0, <3>1, MovesOn DEF Holds, Step
    <3> QED BY <2>1, <3>1, <3>2, BlockKeeps
  <2> QED BY <2>2, <2>3
<1>6. ASSUME NEW c \in Callers, CancelQueued(c) PROVE BlockInv'
  <2>1. Active' = Active /\ leaked' = leaked \cup (Queued \cap Active)
    BY <1>6, <1>a DEF CancelQueued
  <2>2. CASE actor[c].for = "start"
    <3>1. Does(c, "submit")
      BY <1>6, <2>2 DEF CancelQueued
    <3>2. actor'[c].job = actor[c].job /\ Holds(actor'[c], c = Thread)
          /\ \A v \in (Callers \cup {Thread}) \ {c} : actor'[v] = actor[v]
      BY <1>0, <2>2, <3>1, MovesOn DEF Holds, Step
    <3> QED BY <2>1, <3>2, BlockKeeps
  <2>3. CASE actor[c].for # "start"
    <3>1. Ends(c) /\ actor[c].job = 0
      BY <1>0, <1>6, <2>3 DEF CancelQueued, Holds
    <3>2. Holds(actor'[c], c = Thread) /\ \A v \in (Callers \cup {Thread}) \ {c} : actor'[v] = actor[v]
      BY <1>0, <3>1, Stops DEF Holds
    <3> QED BY <1>0, <2>1, <3>1, <3>2, BlockKeeps
  <2> QED BY <2>2, <2>3
<1>7. ASSUME NEW c \in Callers, Submit(c) PROVE BlockInv'
  <2> DEFINE future == [job |-> actor[c].job, gen |-> actor[c].gen]
  <2>1. pool' = Append(pool, future) /\ future.job = actor[c].job
    BY <1>7 DEF Submit
  <2> HIDE DEF future
  <2>2. Active' = Active /\ leaked' = leaked /\ Queued' = Queued \cup {actor[c].job}
    BY <1>7, <1>a, <2>1, QueuedKeeps DEF Submit
  <2>3. Holds(actor'[c], c = Thread) /\ \A v \in (Callers \cup {Thread}) \ {c} : actor'[v] = actor[v]
    BY <1>0, <1>7, Stops DEF Holds, Submit
  <2> QED BY <2>2, <2>3, BlockKeeps
<1>20. ASSUME NEW c \in Callers, SubmitFails(c) PROVE BlockInv'
  <2>1. /\ Active' \subseteq Active /\ leaked \subseteq leaked'
        /\ (actor[c].job \in Active' => actor[c].job \in leaked')
    BY <1>0, <1>20, ClosesType DEF SubmitFails
  <2>2. Queued' = Queued
    BY <1>20, QueuedKeeps DEF SubmitFails
  <2>3. Holds(actor'[c], c = Thread) /\ \A v \in (Callers \cup {Thread}) \ {c} : actor'[v] = actor[v]
    BY <1>0, <1>20, Stops DEF Holds, SubmitFails
  <2> QED BY <2>1, <2>2, <2>3, BlockKeeps
<1>8. ASSUME Take PROVE BlockInv'
  <2> DEFINE new == At("begin", "job", Head(pool).job, Head(pool).gen)
  <2>1. new.job = Head(pool).job /\ new.pc = "begin"
    BY DEF At
  <2>2. actor' = [actor EXCEPT ![Thread] = new]
    BY <1>8 DEF Take
  <2> HIDE DEF new
  <2>3. actor'[Thread] = new /\ \A v \in (Callers \cup {Thread}) \ {Thread} : actor'[v] = actor[v]
    BY <1>0, <2>2
  <2>4. Active' = Active /\ leaked' = leaked /\ Queued \subseteq Queued' \cup {Head(pool).job}
        /\ actor[Thread].job = 0
    BY <1>0, <1>8, <1>a, QueuedKeeps DEF Take, Holds
  <2>5. Holds(actor'[Thread], Thread = Thread)
    BY <2>1, <2>3 DEF Holds
  <2> QED BY <1>0, <2>1, <2>3, <2>4, <2>5, BlockKeeps
<1>9. ASSUME MarkRunning PROVE BlockInv'
  <2>1. PICK pc \in {"launch", "work"} : Does(Thread, pc)
    BY <1>9 DEF MarkRunning
  <2>2. actor'[Thread].job = actor[Thread].job /\ Holds(actor'[Thread], Thread = Thread)
        /\ \A v \in (Callers \cup {Thread}) \ {Thread} : actor'[v] = actor[v]
    BY <1>0, <2>1, MovesOn DEF Holds, Step
  <2>3. Active' \subseteq Active
    BY <1>0, <1>9, FinishedType DEF MarkRunning, Active, Status
  <2>4. leaked' = leaked /\ Queued' = Queued
    BY <1>9, QueuedKeeps DEF MarkRunning
  <2> QED BY <2>2, <2>3, <2>4, BlockKeeps
<1>10. ASSUME Work \/ MarkFails PROVE BlockInv'
  <2>1. PICK st \in {"finished", "stopped"} : Closes(actor[Thread].job, st)
    BY <1>10 DEF Work, MarkFails
  <2>2. /\ Active' \subseteq Active /\ leaked \subseteq leaked'
        /\ (actor[Thread].job \in Active' => actor[Thread].job \in leaked')
    BY <1>0, <2>1, ClosesType
  <2>3. Holds(actor'[Thread], Thread = Thread)
        /\ \A v \in (Callers \cup {Thread}) \ {Thread} : actor'[v] = actor[v]
    BY <1>0, <1>10, Stops DEF Holds, Work, MarkFails
  <2>4. Queued' = Queued
    BY <1>10, QueuedKeeps DEF Work, MarkFails
  <2> QED BY <2>2, <2>3, <2>4, BlockKeeps
<1>11. ASSUME NEW w \in Callers \cup {Thread}, Cancelled(w) PROVE BlockInv'
  <2>1. Holds(actor'[w], w = Thread)
        /\ \A v \in (Callers \cup {Thread}) \ {w} : actor'[v] = actor[v]
    BY <1>0, <1>11, Stops DEF Holds, Cancelled
  <2>2. Queued' = Queued
    BY <1>11, QueuedKeeps DEF Cancelled
  <2>3. CASE w = Thread
    <3>1. /\ Active' \subseteq Active /\ leaked \subseteq leaked'
          /\ (actor[w].job \in Active' => actor[w].job \in leaked')
      BY <1>0, <1>11, <2>3, ClosesType DEF Cancelled
    <3> QED BY <2>1, <2>2, <3>1, BlockKeeps
  <2>4. CASE w # Thread
    <3>1. actor[w].job = 0 /\ Active' = Active /\ leaked' = leaked
      BY <1>0, <1>11, <1>a, <2>4 DEF Cancelled, Holds
    <3> QED BY <1>0, <2>1, <2>2, <3>1, BlockKeeps
  <2> QED BY <2>3, <2>4
<1>12. ASSUME NEW w \in Callers \cup {Thread}, Launch(w) PROVE BlockInv'
  <2>1. leaked' = leaked /\ Queued' = Queued /\ Active' = Active /\ actor[w].pc = "launch"
    BY <1>12, <1>a, QueuedKeeps DEF Launch
  <2>2. CASE w = Thread
    <3>1. PICK pc \in {"insert", "work"} : Does(w, pc)
      BY <1>12, <2>2 DEF Launch
    <3>2. actor'[w].job = actor[w].job /\ Holds(actor'[w], w = Thread)
          /\ \A v \in (Callers \cup {Thread}) \ {w} : actor'[v] = actor[v]
      BY <1>0, <2>2, <3>1, MovesOn DEF Holds, Step
    <3> QED BY <2>1, <3>2, BlockKeeps
  <2>3. CASE w # Thread
    <3>1. actor[w].job = 0 /\ (Ends(w) \/ Does(w, "insert"))
      BY <1>0, <1>12, <2>1, <2>3 DEF Launch, Holds
    <3>2. actor'[w].job = 0 /\ Holds(actor'[w], w = Thread)
          /\ \A v \in (Callers \cup {Thread}) \ {w} : actor'[v] = actor[v]
      BY <1>0, <3>1, MovesOn, Stops DEF Holds, Step
    <3> QED BY <2>1, <3>1, <3>2, BlockKeeps
  <2> QED BY <2>2, <2>3
<1>13. ASSUME NEW w \in Callers \cup {Thread}, InsertLaunch(w) PROVE BlockInv'
  <2> DEFINE n == Len(attempts) + 1
             new == [actor[w] EXCEPT !.pc = "spawn", !.attempt = n]
  <2>1. actor' = [actor EXCEPT ![w] = new]
    BY <1>13 DEF InsertLaunch
  <2> HIDE DEF n
  <2>2. new.job = actor[w].job /\ new.for = actor[w].for /\ new.pc = "spawn"
    BY <1>0 DEF Doing
  <2> HIDE DEF new
  <2>3. actor'[w] = new /\ \A v \in (Callers \cup {Thread}) \ {w} : actor'[v] = actor[v]
    BY <1>0, <2>1
  <2>4. leaked' = leaked /\ Queued' = Queued /\ Active' = Active /\ actor[w].pc = "insert"
    BY <1>13, <1>a, QueuedKeeps DEF InsertLaunch
  <2>5. Holds(actor'[w], w = Thread)
    BY <1>0, <2>2, <2>3, <2>4 DEF Holds
  <2> QED BY <2>2, <2>3, <2>4, <2>5, BlockKeeps
<1>14. ASSUME NEW w \in Callers \cup {Thread}, SpawnScript(w) \/ SpawnThread(w) \/ SpawnFails(w) PROVE BlockInv'
  <2>1. leaked' = leaked /\ Queued' = Queued /\ Active' = Active /\ actor[w].pc = "spawn" /\ Awaits(w)
    BY <1>14, <1>a, QueuedKeeps DEF SpawnScript, SpawnThread, SpawnFails
  <2>2. CASE w = Thread
    <3>1. Does(w, "wait")
      BY <2>1, <2>2 DEF Awaits
    <3>2. actor'[w].job = actor[w].job /\ Holds(actor'[w], w = Thread)
          /\ \A v \in (Callers \cup {Thread}) \ {w} : actor'[v] = actor[v]
      BY <1>0, <2>2, <3>1, MovesOn DEF Holds, Step
    <3> QED BY <2>1, <3>2, BlockKeeps
  <2>3. CASE w # Thread
    <3>1. actor[w].job = 0 /\ Ends(w)
      BY <1>0, <2>1, <2>3 DEF Awaits, Holds
    <3>2. Holds(actor'[w], w = Thread)
          /\ \A v \in (Callers \cup {Thread}) \ {w} : actor'[v] = actor[v]
      BY <1>0, <3>1, Stops DEF Holds
    <3> QED BY <1>0, <2>1, <3>1, <3>2, BlockKeeps
  <2> QED BY <2>2, <2>3
<1>15. ASSUME WaitOver PROVE BlockInv'
  <2>1. leaked' = leaked /\ Queued' = Queued /\ Active' = Active /\ Does(Thread, "work")
    BY <1>15, <1>a, QueuedKeeps DEF WaitOver
  <2>2. actor'[Thread].job = actor[Thread].job /\ Holds(actor'[Thread], Thread = Thread)
        /\ \A v \in (Callers \cup {Thread}) \ {Thread} : actor'[v] = actor[v]
    BY <1>0, <2>1, MovesOn DEF Holds, Step
  <2> QED BY <2>1, <2>2, BlockKeeps
<1>16. ASSUME jobs' = jobs, pool' = pool, actor' = actor, leaked' = leaked PROVE BlockInv'
  BY <1>16 DEF BlockInv, One, Owned, Owners, Active, Working, Queued
<1>17. ASSUME Restart PROVE BlockInv'
  <2>1. Active' \subseteq Active /\ Active' \subseteq leaked'
    BY <1>0, <1>17 DEF Restart, RecoverJobs, Active
  <2>2. actor' = [w \in Callers \cup {Thread} |-> Idle] /\ Idle.job = 0
    BY <1>0, <1>17 DEF Restart, Idle, At
  <2> HIDE DEF Idle
  <2>3. Owners'
    BY <2>2 DEF Owners, Holds
  <2> QED BY <2>1, <2>3 DEF BlockInv, One, Owned
<1>18. ASSUME NEW r \in reports, Arrive(r) \/ Import(r) \/ ReportFails(r) PROVE BlockInv'
  BY <1>16, <1>18 DEF Arrive, Import, ReportFails
<1>19. ASSUME UNCHANGED vars PROVE BlockInv'
  BY <1>16, <1>19 DEF vars
<1> QED
  BY <1>0, <1>1, <1>2, <1>3, <1>4, <1>5, <1>6, <1>7, <1>8, <1>9, <1>10, <1>11, <1>12, <1>13, <1>14,
     <1>15, <1>17, <1>18, <1>19, <1>20 DEF Next, Start, Refresh, Job

\* One row at most is active, and something still works for it, unless its
\* future was cancelled by another request, its start raised, its last row could
\* not be written, or a startup could not recover it.
THEOREM BlockTheorem == Spec => []OnlyLeaksBlock
<1> DEFINE Inv == TypeInv /\ BlockInv
<1>1. Init => Inv
  <2> SUFFICES ASSUME Init PROVE BlockInv
    BY InitType
  <2>1. Active = {} /\ actor = [w \in Callers \cup {Thread} |-> Idle] /\ Idle.job = 0
    BY DEF Init, Active, Idle, At
  <2> HIDE DEF Idle
  <2> QED BY <2>1 DEF BlockInv, One, Owned, Owners, Holds
<1>2. Inv /\ [Next]_vars => Inv'
  BY TypeStep, BlockStep
<1>3. Inv => OnlyLeaksBlock
  BY DEF BlockInv, One, Owned, OnlyLeaksBlock
<1> HIDE DEF Inv
<1> QED BY <1>1, <1>2, <1>3, PTL DEF Spec
=============================================================================
