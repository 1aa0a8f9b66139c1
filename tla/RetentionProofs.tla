--------------------------- MODULE RetentionProofs ---------------------------
(***************************************************************************)
(* Proofs about Retention, for any number of flows, runs and kept folders, *)
(* whichever runs are interrupted and whatever is held open or unmarked.   *)
(***************************************************************************)
EXTENDS Retention, FiniteSetTheorems, SequenceTheorems, TLAPS

USE RetentionBounds

(***************************************************************************)
(* The invariant.                                                          *)
(***************************************************************************)
Knows(i, s) == Holds(i, s) \/ \E r \in proc[i].results : r.op = s
Older(rs, s) == {q \in DOMAIN rs : rs[q].folder # "none" /\ q > s}

\* A process takes up an operation once, and has one in hand from looking at
\* the folder until its outcome.
Sweeping == {"seen", "gate", "rename", "reconcile", "remove", "remove again"}
ProcInv ==
  \A i \in Ids :
    /\ proc[i].pc # "none" => i \in DOMAIN runs
    /\ proc[i].pc \notin Sweeping \cup {"sweep"} => proc[i].ops = {} /\ proc[i].results = {}
    /\ proc[i].at # 0 <=> proc[i].pc \in Sweeping
    /\ proc[i].at \notin proc[i].ops
    /\ \A r \in proc[i].results : r.op \notin proc[i].ops /\ r.op # proc[i].at
    /\ proc[i].pc \in {"register", "record"} => disk[i] = "folder"
    /\ i \in DOMAIN runs /\ runs[i].folder # "none" => proc[i].pc \notin {"none", "register", "record"}

\* Operations exist for old recorded folders only, and say what became of them.
OpInv ==
  \A s \in Ids :
    /\ op[s].st # "none" => s \in Recorded /\ Cardinality(Older(runs, s)) >= Keep
    /\ s \in Recorded /\ op[s].st = "none" => disk[s] = "folder"
    /\ op[s].st = "done" <=> s \in DOMAIN runs /\ runs[s].folder = "pruned"
    /\ op[s].st = "done" => disk[s] = "nothing"
    /\ op[s].st = "abandoned" => op[s].to = 0
    /\ s \notin shared /\ op[s].st = "abandoned" => disk[s] = "folder"

\* A process knows of pending operations; what one process at a time works on
\* is held by one, and nobody else has been handed it.
HoldInv ==
  \A i, s \in Ids :
    /\ Knows(i, s) => op[s].st # "none" /\ (op[s].to = i => op[s].st \in Pending)
    /\ Holds(i, s) /\ s \notin shared =>
         op[s].st \in Pending /\ op[s].to \in {0, i} /\ \A j \in Ids : Holds(j, s) => j = i

\* What a process has seen is still so, unless it shares the folder.
SeenHere(p, d) ==
  LET s == p.at IN
  /\ p.pc = "seen" /\ ~p.saw => d[s] # "folder"
  /\ p.pc = "seen" /\ p.saw /\ s \notin shared => d[s] = "folder"
  /\ p.pc \in {"gate", "rename"} /\ s \notin shared => d[s] = "folder"
  /\ p.pc \in {"reconcile", "remove", "remove again"} /\ s \notin shared => d[s] = "tombstone"
Seen(i, p, d) ==
  /\ SeenHere(p, d)
  /\ \A r \in p.results :
       /\ r.outcome = "deleted" => d[r.op] = "nothing"
       /\ r.outcome = "skipped" /\ r.op \notin shared /\ op[r.op].to = i => d[r.op] = "folder"
SeenInv == \A i \in Ids : Seen(i, proc[i], disk)

\* What a live run reads is pinned and not handed out.
PinInv ==
  \A c \in DOMAIN runs : ~Terminal(c) =>
    Reads(c) \subseteq runs[c].pins /\ \A s \in Reads(c) : op[s].st \in {"none", "abandoned"}

\* What a run carries is attributed to a run, and lies in its folder unless
\* that run is an SQL retry; an ordinary run's files are its own or carried.
EntryInv ==
  \A c \in DOMAIN runs :
    /\ \A e \in runs[c].carried : e.as \in DOMAIN runs /\ (runs[e.as].retry \/ e.in = e.as)
    /\ ~runs[c].retry => runs[c].uses = Lie(runs[c].carried) /\ runs[c].files \subseteq {c} \cup runs[c].uses

RetentionInv == TypeOK /\ ProcInv /\ OpInv /\ HoldInv /\ SeenInv /\ PinInv /\ EntryInv

\* A row that keeps its job and gains no files but its own and those it reads.
KeepsJob(i, new, old) ==
  /\ new.uses = old.uses /\ new.carried = old.carried /\ new.pins = old.pins /\ new.retry = old.retry
  /\ new.files \subseteq {i} \cup old.uses \cup old.files
\* Rows that keep their jobs read the same folders.
LEMMA SameReads ==
  ASSUME RetentionInv, DOMAIN runs \subseteq DOMAIN runs',
         \A j \in DOMAIN runs : KeepsJob(j, runs'[j], runs[j]), NEW c \in DOMAIN runs
  PROVE  Reads(c)' = Reads(c)
<1>1. runs \in Seq(Row) /\ EntryInv /\ runs'[c].retry = runs[c].retry /\ runs'[c].carried = runs[c].carried
      /\ runs'[c].uses = runs[c].uses /\ runs'[c].pins = runs[c].pins
  BY DEF RetentionInv, TypeOK, KeepsJob
<1>2. \A e \in runs[c].carried : e.as \in DOMAIN runs /\ runs'[e.as].retry = runs[e.as].retry
  BY <1>1 DEF EntryInv, KeepsJob
<1>3. {e \in runs'[c].carried : ~runs'[e.as].retry} = {e \in runs[c].carried : ~runs[e.as].retry}
  BY <1>1, <1>2
<1> QED BY <1>1, <1>3 DEF Reads, Lie

\* Folders that a run reads are those of runs.
LEMMA ReadsIds ==
  ASSUME RetentionInv, NEW c \in DOMAIN runs
  PROVE  Reads(c) \subseteq Ids
<1>1. runs \in Seq(Row)
  BY DEF RetentionInv, TypeOK
<1>2. runs[c] \in Row
  BY <1>1
<1>3. runs[c].uses \subseteq Ids /\ \A e \in runs[c].carried : e.in \in Ids
  BY <1>2 DEF Row
<1> QED BY <1>3 DEF Reads, Lie

\* The entries of rows that keep their jobs stay as they are.
LEMMA SameEntries ==
  ASSUME RetentionInv, DOMAIN runs' = DOMAIN runs,
         \A j \in DOMAIN runs : KeepsJob(j, runs'[j], runs[j])
  PROVE  EntryInv'
<1> SUFFICES ASSUME NEW c \in DOMAIN runs PROVE EntryInv!(c)'
  BY DEF EntryInv
<1>1. EntryInv!(c) /\ KeepsJob(c, runs'[c], runs[c])
  BY DEF RetentionInv, EntryInv
<1>2. \A e \in runs[c].carried : runs'[e.as].retry = runs[e.as].retry
  BY <1>1 DEF KeepsJob
<1> QED BY <1>1, <1>2 DEF KeepsJob

\* Rows that stay keep their jobs.
LEMMA SameJobs ==
  ASSUME UNCHANGED runs
  PROVE  \A j \in DOMAIN runs : KeepsJob(j, runs'[j], runs[j])
BY DEF KeepsJob

(***************************************************************************)
(* Steps of a worker between two of its calls.                             *)
(***************************************************************************)
Sweeps(p) == p.pc \in Sweeping \cup {"sweep"}
\* A step of a sweeping worker that touches the folder in hand only, in the way
\* what it saw allows.
LEMMA SweepStep ==
  ASSUME RetentionInv, NEW i \in DOMAIN runs, Sweeps(proc[i]),
         NEW p \in Process, Sweeps(p), proc' = [proc EXCEPT ![i] = p],
         p.at # 0 <=> p.pc \in Sweeping, p.at \notin p.ops,
         \A r \in p.results : r.op \notin p.ops /\ r.op # p.at,
         \A s \in Ids : s \in p.ops \/ p.at = s => Holds(i, s),
         \A r \in p.results : Knows(i, r.op),
         disk' \in [Ids -> {"nothing", "folder", "tombstone"}],
         \A s \in Ids : \/ disk'[s] = disk[s]
                        \/ s = proc[i].at /\ disk[s] = "folder" /\ disk'[s] = "tombstone"
                        \/ s = proc[i].at /\ disk[s] = "tombstone" /\ disk'[s] = "nothing",
         Seen(i, p, disk'), UNCHANGED <<runs, op, shared>>
  PROVE  RetentionInv'
<1>0. /\ TypeOK /\ ProcInv /\ OpInv /\ HoldInv /\ SeenInv /\ PinInv
      /\ i \in Ids /\ proc \in [Ids -> Process] /\ DOMAIN runs \subseteq Ids
      /\ proc'[i] = p /\ \A j \in Ids : j # i => proc'[j] = proc[j]
  BY DEF RetentionInv, TypeOK, Ids
<1>1. TypeOK'
  BY <1>0 DEF TypeOK
<1>2. Recorded' = Recorded
  BY DEF Recorded
<1>3. \A j, s \in Ids : (Holds(j, s)' => Holds(j, s)) /\ (Knows(j, s)' => Knows(j, s))
  <2> SUFFICES ASSUME NEW j \in Ids, NEW s \in Ids
               PROVE  (Holds(j, s)' => Holds(j, s)) /\ (Knows(j, s)' => Knows(j, s))
    OBVIOUS
  <2>1. CASE j # i
    BY <2>1, <1>0 DEF Knows, Holds
  <2>2. CASE j = i
    <3>1. Holds(i, s)' => Holds(i, s)
      BY <1>0 DEF Holds
    <3>2. (\E r \in p.results : r.op = s) => Knows(i, s)
      OBVIOUS
    <3> QED BY <2>2, <3>1, <3>2, <1>0 DEF Knows
  <2> QED BY <2>1, <2>2
<1>4. \A s \in Ids : disk'[s] # disk[s] =>
        /\ Holds(i, s) /\ s \in Recorded /\ op[s].st \notin {"none", "done"}
        /\ s \notin shared => op[s].st # "abandoned"
  <2> SUFFICES ASSUME NEW s \in Ids, disk'[s] # disk[s]
               PROVE  /\ Holds(i, s) /\ s \in Recorded /\ op[s].st \notin {"none", "done"}
                      /\ s \notin shared => op[s].st # "abandoned"
    OBVIOUS
  <2>1. proc[i].at = s /\ disk[s] # "nothing" /\ disk'[s] # "folder"
    OBVIOUS
  <2>2. Holds(i, s) /\ Knows(i, s)
    BY <1>0, <2>1 DEF Holds, Knows, Sweeps, Sweeping
  <2>3. op[s].st # "none" /\ (s \notin shared => op[s].st \in Pending)
    BY <1>0, <2>2 DEF HoldInv
  <2> QED BY <1>0, <2>1, <2>2, <2>3 DEF OpInv, Pending
<1>5. ProcInv'
  <2> SUFFICES ASSUME NEW j \in Ids PROVE ProcInv!(j)'
    BY DEF ProcInv
  <2>1. ProcInv!(j) /\ j \in Ids
    BY <1>0 DEF ProcInv
  <2>2. CASE j = i
    BY <1>0, <2>1, <2>2 DEF Sweeps, Sweeping
  <2>3. CASE j # i
    <3>1. proc'[j] = proc[j]
      BY <1>0, <2>3
    <3>2. disk'[j] # disk[j] => j \in DOMAIN runs /\ runs[j].folder # "none"
      BY <1>4, <2>1 DEF Recorded
    <3> QED BY <2>1, <3>1, <3>2
  <2> QED BY <2>2, <2>3
<1>6. OpInv'
  <2> SUFFICES ASSUME NEW s \in Ids PROVE OpInv!(s)'
    BY DEF OpInv
  <2>1. OpInv!(s) /\ s \in Ids
    BY <1>0 DEF OpInv
  <2>2. Older(runs', s) = Older(runs, s)
    OBVIOUS
  <2> QED BY <1>2, <1>4, <2>1, <2>2
<1>7. HoldInv'
  BY <1>0, <1>3 DEF HoldInv
<1>8. SeenInv'
  <2> SUFFICES ASSUME NEW j \in Ids PROVE Seen(j, proc[j], disk)'
    BY DEF SeenInv
  <2>1. CASE j = i
    BY <2>1, <1>0 DEF Seen, SeenHere
  <2>2. CASE j # i
    <3>1. Seen(j, proc[j], disk) /\ proc'[j] = proc[j] /\ proc[j] \in Process
      BY <1>0, <2>2 DEF SeenInv
    <3>2. \A s \in Ids : disk'[s] # disk[s] =>
            /\ disk[s] # "nothing" /\ disk'[s] # "folder"
            /\ s \notin shared => ~Holds(j, s) /\ op[s].to # j
      BY <1>0, <1>4, <2>2 DEF HoldInv, Ids
    <3>3. proc[j].at # 0 => Holds(j, proc[j].at) /\ proc[j].at \in Ids
      BY <1>0, <3>1 DEF ProcInv, Holds, Process, Sweeping
    <3>4. proc[j].pc \in Sweeping => proc[j].at # 0
      BY <1>0 DEF ProcInv
    <3>5. \A r \in proc[j].results : r.op \in Ids
      BY <3>1 DEF Process
    <3>6. \A r \in proc[j].results :
            /\ r.outcome = "deleted" => disk'[r.op] = "nothing"
            /\ r.outcome = "skipped" /\ r.op \notin shared /\ op[r.op].to = j => disk'[r.op] = "folder"
      BY <3>1, <3>2, <3>5 DEF Seen
    <3>7. CASE proc[j].pc \in Sweeping
      <4>1. /\ proc[j].at \in Ids
            /\ \/ disk'[proc[j].at] = disk[proc[j].at]
               \/ proc[j].at \in shared /\ disk'[proc[j].at] # "folder"
        BY <3>2, <3>3, <3>4, <3>7
      <4>2. SeenHere(proc[j], disk)'
        <5>1. SeenHere(proc[j], disk) /\ proc'[j] = proc[j] /\ shared' = shared
          BY <3>1 DEF Seen
        <5> DEFINE s == proc[j].at
        <5>2. CASE disk'[s] = disk[s]
          BY <5>1, <5>2 DEF SeenHere
        <5>3. CASE s \in shared /\ disk'[s] # "folder"
          BY <5>1, <5>3 DEF SeenHere
        <5> QED BY <4>1, <5>2, <5>3
      <4> QED BY <3>1, <3>6, <4>2 DEF Seen, SeenHere
    <3>8. CASE proc[j].pc \notin Sweeping
      BY <3>1, <3>6, <3>8 DEF Seen, SeenHere, Sweeping
    <3> QED BY <3>7, <3>8
  <2> QED BY <2>1, <2>2
<1>9. PinInv' /\ EntryInv'
  BY <1>0, SameJobs, SameEntries DEF PinInv, Reads, Terminal
<1> QED BY <1>1, <1>5, <1>6, <1>7, <1>8, <1>9 DEF RetentionInv

\* The disk, as far as the process of run i may touch it.
Touches(i) ==
  /\ disk' \in [Ids -> {"nothing", "folder", "tombstone"}]
  /\ \A s \in Ids : \/ disk'[s] = disk[s]
                    \/ s = proc[i].at /\ disk[s] = "folder" /\ disk'[s] = "tombstone"
                    \/ s = proc[i].at /\ disk[s] = "tombstone" /\ disk'[s] = "nothing"
\* No run has the id 0, which stands for no operation in hand.
LEMMA IdsPositive == 0 \notin Ids
BY DEF Ids

\* A sweeping worker holds the operation in hand and saw its folder truly.
LEMMA InHand ==
  ASSUME RetentionInv, NEW i \in DOMAIN runs, proc[i].pc \in Sweeping
  PROVE  /\ i \in Ids /\ proc[i] \in Process /\ proc[i].at \in Ids /\ Holds(i, proc[i].at)
         /\ disk \in [Ids -> {"nothing", "folder", "tombstone"}]
         /\ Seen(i, proc[i], disk)
<1>1. i \in Ids /\ proc[i] \in Process /\ disk \in [Ids -> {"nothing", "folder", "tombstone"}]
  BY DEF RetentionInv, TypeOK, Ids
<1>2. proc[i].at # 0 /\ Seen(i, proc[i], disk)
  BY <1>1 DEF RetentionInv, ProcInv, SeenInv
<1> QED BY <1>1, <1>2 DEF Process, Holds, Sweeping

\* A worker notes an outcome that the folder bears out.
LEMMA ResultStep ==
  ASSUME RetentionInv, NEW i \in DOMAIN runs, proc[i].pc \in Sweeping,
         NEW outcome \in {"deleted", "quarantined", "skipped", "failed"}, Result(i, outcome),
         Touches(i), UNCHANGED <<runs, op, shared>>,
         outcome = "deleted" => disk'[proc[i].at] = "nothing",
         outcome = "skipped" /\ proc[i].at \notin shared => disk'[proc[i].at] = "folder"
  PROVE  RetentionInv'
<1> DEFINE new == [op |-> proc[i].at, outcome |-> outcome]
           p == [proc[i] EXCEPT !.pc = "sweep", !.at = 0, !.saw = FALSE, !.results = @ \cup {new}]
<1>0. /\ i \in Ids /\ proc[i] \in Process /\ proc[i].at \in Ids /\ Holds(i, proc[i].at)
      /\ Seen(i, proc[i], disk) /\ proc \in [Ids -> Process]
  BY InHand DEF RetentionInv, TypeOK
<1>1. p \in Process /\ proc' = [proc EXCEPT ![i] = p]
  <2>1. new \in [op : Ids, outcome : {"deleted", "quarantined", "skipped", "failed"}]
    BY <1>0
  <2> QED BY <1>0, <2>1 DEF Process, Result
<1>2. /\ p.pc = "sweep" /\ p.at = 0 /\ p.ops = proc[i].ops /\ p.results = proc[i].results \cup {new}
  BY <1>0 DEF Process
<1>3. /\ proc[i].at \notin proc[i].ops /\ proc[i].ops \subseteq Ids
      /\ \A r \in proc[i].results : r.op \notin proc[i].ops /\ r.op \in Ids /\ r.op # proc[i].at
  BY <1>0 DEF RetentionInv, ProcInv, Process
<1>4. \A r \in p.results : r.op \notin p.ops /\ r.op # p.at
  BY <1>0, <1>2, <1>3, IdsPositive
<1>5. /\ \A s \in Ids : s \in p.ops \/ p.at = s => Holds(i, s)
      /\ \A r \in p.results : Knows(i, r.op)
  <2>1. \A s \in Ids : s \in p.ops \/ p.at = s => Holds(i, s)
    BY <1>0, <1>2, IdsPositive DEF Holds, Sweeping
  <2>2. \A r \in proc[i].results : Knows(i, r.op)
    BY DEF Knows
  <2>3. Knows(i, new.op)
    BY <1>0 DEF Knows
  <2> QED BY <1>2, <2>1, <2>2, <2>3
<1>6. \A r \in p.results :
        /\ r.outcome = "deleted" => disk'[r.op] = "nothing"
        /\ r.outcome = "skipped" /\ r.op \notin shared /\ op[r.op].to = i => disk'[r.op] = "folder"
  BY <1>0, <1>2, <1>3 DEF Seen, Touches
<1>7. Seen(i, p, disk')
  BY <1>2, <1>6 DEF Seen, SeenHere
<1>8. Sweeps(p) /\ Sweeps(proc[i]) /\ (p.at # 0 <=> p.pc \in Sweeping) /\ p.at \notin p.ops
  BY <1>2, <1>3, IdsPositive DEF Sweeps, Sweeping
<1> HIDE DEF p
<1> QED BY <1>1, <1>4, <1>5, <1>7, <1>8, SweepStep DEF Touches

\* A worker goes on to its next look at the folder in hand.
LEMMA GotoStep ==
  ASSUME RetentionInv, NEW i \in DOMAIN runs, proc[i].pc \in Sweeping,
         NEW pc \in Sweeping, Goto(i, pc), Touches(i), UNCHANGED <<runs, op, shared>>,
         SeenHere([proc[i] EXCEPT !.pc = pc], disk')
  PROVE  RetentionInv'
<1> DEFINE p == [proc[i] EXCEPT !.pc = pc]
<1>0. /\ i \in Ids /\ proc[i] \in Process /\ proc[i].at \in Ids /\ Holds(i, proc[i].at)
      /\ Seen(i, proc[i], disk) /\ proc \in [Ids -> Process]
  BY InHand DEF RetentionInv, TypeOK
<1>1. p \in Process /\ proc' = [proc EXCEPT ![i] = p]
  BY <1>0 DEF Process, Goto, Sweeping
<1>2. p.pc = pc /\ p.at = proc[i].at /\ p.ops = proc[i].ops /\ p.results = proc[i].results
  BY <1>0 DEF Process
<1>3. /\ proc[i].at \notin proc[i].ops /\ proc[i].at # 0
      /\ \A r \in proc[i].results : r.op \notin proc[i].ops /\ r.op \in Ids /\ r.op # proc[i].at
  BY <1>0 DEF RetentionInv, ProcInv, Process
<1>4. /\ \A s \in Ids : s \in p.ops \/ p.at = s => Holds(i, s)
      /\ \A r \in p.results : Knows(i, r.op)
  BY <1>0, <1>2 DEF Holds, Knows, Sweeping
<1>5. Seen(i, p, disk')
  BY <1>0, <1>2, <1>3 DEF Seen, Touches
<1>6. Sweeps(p) /\ Sweeps(proc[i]) /\ (p.at # 0 <=> p.pc \in Sweeping) /\ p.at \notin p.ops
  BY <1>2, <1>3 DEF Sweeps
<1>7. \A r \in p.results : r.op \notin p.ops /\ r.op # p.at
  BY <1>2, <1>3
<1> HIDE DEF p
<1> QED BY <1>1, <1>4, <1>5, <1>6, <1>7, SweepStep DEF Touches

(***************************************************************************)
(* The sweep, action by action.                                            *)
(***************************************************************************)
LEMMA SeesKeeps ==
  ASSUME RetentionInv, NEW i \in DOMAIN runs, Sees(i)
  PROVE  RetentionInv'
<1>0. i \in Ids /\ proc[i] \in Process /\ proc \in [Ids -> Process] /\ ProcInv /\ SeenInv
  BY DEF RetentionInv, TypeOK, Ids
<1>1. PICK s \in proc[i].ops :
        proc' = [proc EXCEPT ![i].pc = "seen", ![i].ops = @ \ {s}, ![i].at = s,
                             ![i].saw = disk[s] = "folder"]
  BY DEF Sees
<1> DEFINE p == [proc[i] EXCEPT !.pc = "seen", !.ops = @ \ {s}, !.at = s, !.saw = disk[s] = "folder"]
<1>2. s \in Ids /\ s # 0
  <2>1. proc[i].ops \subseteq Ids
    BY <1>0 DEF Process
  <2> QED BY <2>1, IdsPositive
<1>3. p \in Process /\ proc' = [proc EXCEPT ![i] = p]
  BY <1>0, <1>1, <1>2 DEF Process
<1>4. /\ p.pc = "seen" /\ p.at = s /\ p.ops = proc[i].ops \ {s} /\ p.results = proc[i].results
      /\ (p.saw <=> disk[s] = "folder")
  BY <1>0 DEF Process
<1>5. /\ proc[i].pc = "sweep"
      /\ \A r \in proc[i].results : r.op \notin proc[i].ops
      /\ UNCHANGED <<runs, op, disk, shared>>
  BY <1>0 DEF ProcInv, Sees
<1>6. /\ \A q \in Ids : q \in p.ops \/ p.at = q => Holds(i, q)
      /\ \A r \in p.results : Knows(i, r.op)
  BY <1>4, <1>5 DEF Holds, Knows
<1>7. Seen(i, p, disk')
  BY <1>0, <1>4, <1>5 DEF SeenInv, Seen, SeenHere
<1>8. Sweeps(p) /\ Sweeps(proc[i]) /\ (p.at # 0 <=> p.pc \in Sweeping) /\ p.at \notin p.ops
  BY <1>2, <1>4, <1>5 DEF Sweeps, Sweeping
<1>9. disk' \in [Ids -> {"nothing", "folder", "tombstone"}]
  BY <1>5 DEF RetentionInv, TypeOK
<1> HIDE DEF p
<1> QED BY <1>3, <1>4, <1>5, <1>6, <1>7, <1>8, <1>9, SweepStep

\* The worker looks for the tombstone beside the folder it saw or missed.
LEMMA SeesTombstoneKeeps ==
  ASSUME RetentionInv, NEW i \in DOMAIN runs, SeesTombstone(i)
  PROVE  RetentionInv'
<1>0. proc[i].pc = "seen" /\ proc[i].pc \in Sweeping /\ UNCHANGED <<runs, op, disk, shared>>
  BY DEF SeesTombstone, Sweeping
<1> DEFINE s == proc[i].at
<1>1. s \in Ids /\ proc[i] \in Process /\ SeenHere(proc[i], disk) /\ disk[s] \in {"nothing", "folder", "tombstone"}
  BY <1>0, InHand DEF Seen
<1>2. Touches(i)
  BY <1>0 DEF Touches, RetentionInv, TypeOK
<1>3. CASE proc[i].saw /\ disk[s] = "tombstone" /\ Result(i, "skipped")
  BY <1>0, <1>1, <1>2, <1>3, ResultStep DEF SeenHere
<1>4. CASE proc[i].saw /\ disk[s] # "tombstone" /\ Goto(i, "gate")
  <2>1. SeenHere([proc[i] EXCEPT !.pc = "gate"], disk')
    BY <1>0, <1>1, <1>4 DEF SeenHere, Process
  <2> QED BY <1>0, <1>2, <1>4, <2>1, GotoStep DEF Sweeping
<1>5. CASE ~proc[i].saw /\ disk[s] = "tombstone" /\ Goto(i, "reconcile")
  <2>1. SeenHere([proc[i] EXCEPT !.pc = "reconcile"], disk')
    BY <1>0, <1>1, <1>5 DEF SeenHere, Process
  <2> QED BY <1>0, <1>2, <1>5, <2>1, GotoStep DEF Sweeping
<1>6. CASE ~proc[i].saw /\ disk[s] # "tombstone" /\ Result(i, "deleted")
  BY <1>0, <1>1, <1>2, <1>6, ResultStep DEF SeenHere
<1> QED BY <1>3, <1>4, <1>5, <1>6 DEF SeesTombstone

\* The marker of a folder is read before the folder is touched.
LEMMA GateKeeps ==
  ASSUME RetentionInv, NEW i \in DOMAIN runs, Gate(i)
  PROVE  RetentionInv'
<1>0. proc[i].pc = "gate" /\ proc[i].pc \in Sweeping /\ UNCHANGED <<runs, op, disk, shared>>
  BY DEF Gate, Sweeping
<1>1. proc[i].at \in Ids /\ proc[i] \in Process /\ SeenHere(proc[i], disk)
  BY <1>0, InHand DEF Seen
<1>2. Touches(i)
  BY <1>0 DEF Touches, RetentionInv, TypeOK
<1>3. CASE disk[proc[i].at] = "folder" /\ Goto(i, "rename")
  <2>1. SeenHere([proc[i] EXCEPT !.pc = "rename"], disk')
    BY <1>0, <1>1, <1>3 DEF SeenHere, Process
  <2> QED BY <1>0, <1>2, <1>3, <2>1, GotoStep DEF Sweeping
<1>4. CASE Result(i, "skipped")
  BY <1>0, <1>1, <1>2, <1>4, ResultStep DEF SeenHere
<1> QED BY <1>3, <1>4 DEF Gate

\* The rename of a folder to its tombstone.
LEMMA MoveAsideKeeps ==
  ASSUME RetentionInv, NEW i \in DOMAIN runs, MoveAside(i)
  PROVE  RetentionInv'
<1>0. proc[i].pc = "rename" /\ proc[i].pc \in Sweeping /\ UNCHANGED <<runs, op, shared>>
  BY DEF MoveAside, Sweeping
<1> DEFINE s == proc[i].at
<1>1. s \in Ids /\ proc[i] \in Process /\ disk \in [Ids -> {"nothing", "folder", "tombstone"}]
  BY <1>0, InHand
<1>2. CASE disk[s] = "folder" /\ disk' = [disk EXCEPT ![s] = "tombstone"] /\ Goto(i, "remove")
  <2>1. Touches(i)
    BY <1>1, <1>2 DEF Touches
  <2>2. SeenHere([proc[i] EXCEPT !.pc = "remove"], disk')
    BY <1>1, <1>2 DEF SeenHere, Process
  <2> QED BY <1>0, <1>2, <2>1, <2>2, GotoStep DEF Sweeping
<1>3. CASE Result(i, "failed") /\ UNCHANGED disk
  BY <1>0, <1>1, <1>3, ResultStep DEF Touches
<1> QED BY <1>2, <1>3 DEF MoveAside

\* The marker inside a tombstone is read before the tombstone is removed.
LEMMA GateTombstoneKeeps ==
  ASSUME RetentionInv, NEW i \in DOMAIN runs, GateTombstone(i)
  PROVE  RetentionInv'
<1>0. proc[i].pc = "reconcile" /\ proc[i].pc \in Sweeping /\ UNCHANGED <<runs, op, disk, shared>>
  BY DEF GateTombstone, Sweeping
<1>1. proc[i].at \in Ids /\ proc[i] \in Process /\ SeenHere(proc[i], disk)
  BY <1>0, InHand DEF Seen
<1>2. Touches(i)
  BY <1>0 DEF Touches, RetentionInv, TypeOK
<1>3. CASE disk[proc[i].at] = "tombstone" /\ Goto(i, "remove again")
  <2>1. SeenHere([proc[i] EXCEPT !.pc = "remove again"], disk')
    BY <1>0, <1>1, <1>3 DEF SeenHere, Process
  <2> QED BY <1>0, <1>2, <1>3, <2>1, GotoStep DEF Sweeping
<1>4. CASE disk[proc[i].at] # "tombstone" /\ Result(i, "skipped")
  BY <1>0, <1>1, <1>2, <1>4, ResultStep DEF SeenHere
<1> QED BY <1>3, <1>4 DEF GateTombstone

\* An attempt of rmtree at a tombstone.
LEMMA RemoveKeeps ==
  ASSUME RetentionInv, NEW i \in DOMAIN runs, Remove(i)
  PROVE  RetentionInv'
<1>0. proc[i].pc \in {"remove", "remove again"} /\ proc[i].pc \in Sweeping /\ UNCHANGED <<runs, op, shared>>
  BY DEF Remove, Sweeping
<1> DEFINE s == proc[i].at
<1>1. s \in Ids /\ proc[i] \in Process /\ disk \in [Ids -> {"nothing", "folder", "tombstone"}]
  BY <1>0, InHand
<1>2. CASE disk[s] = "tombstone" /\ disk' = [disk EXCEPT ![s] = "nothing"] /\ Result(i, "deleted")
  <2>1. Touches(i)
    BY <1>1, <1>2 DEF Touches
  <2> QED BY <1>0, <1>1, <1>2, <2>1, ResultStep
<1>3. CASE Result(i, IF proc[i].pc = "remove" THEN "quarantined" ELSE "failed") /\ UNCHANGED disk
  <2>1. Touches(i)
    BY <1>1, <1>3 DEF Touches
  <2> QED BY <1>0, <1>3, <2>1, ResultStep
<1> QED BY <1>2, <1>3 DEF Remove
(***************************************************************************)
(* Steps that hand out and remove nothing: rows end or gain files,         *)
(* operations are released, processes are left without operations.         *)
(***************************************************************************)
Idle(i, p) ==
  /\ i \in DOMAIN runs /\ proc[i].pc # "none"
  /\ p.pc \in {"record", "work", "finish", "done"} /\ (p.pc = "record" => proc[i].pc = "register")
  /\ p.ops = {} /\ p.at = 0 /\ p.results = {}
KeepsRow(i, new, old) ==
  /\ KeepsJob(i, new, old) /\ new.folder = old.folder
  /\ old.st # "active" => new.st # "active"
\* A step that hands out no operation, touches no folder and leaves processes
\* idle.
LEMMA QuietStep ==
  ASSUME RetentionInv,
         proc' \in [Ids -> Process], \A i \in Ids : proc'[i] = proc[i] \/ Idle(i, proc'[i]),
         runs' \in Seq(Row), DOMAIN runs' = DOMAIN runs, Len(runs') = Len(runs),
         \A i \in DOMAIN runs : KeepsRow(i, runs'[i], runs[i]),
         op' \in [Ids -> Op], \A s \in Ids : op'[s].st = op[s].st /\ op'[s].to \in {0, op[s].to},
         UNCHANGED <<disk, shared>>
  PROVE  RetentionInv'
<1>0. TypeOK /\ ProcInv /\ OpInv /\ HoldInv /\ SeenInv /\ PinInv /\ DOMAIN runs \subseteq Ids
  BY DEF RetentionInv, TypeOK, Ids
<1>1. TypeOK'
  BY <1>0 DEF TypeOK
<1>2. Recorded' = Recorded /\ \A s \in Ids : Older(runs', s) = Older(runs, s)
  BY DEF Recorded, Older, KeepsRow
<1>3. \A j, s \in Ids : (Holds(j, s)' => Holds(j, s)) /\ (Knows(j, s)' => Knows(j, s))
  BY IdsPositive DEF Holds, Knows, Idle
<1>4. ProcInv'
  <2> SUFFICES ASSUME NEW i \in Ids PROVE ProcInv!(i)'
    BY DEF ProcInv
  <2>1. ProcInv!(i) /\ (i \in DOMAIN runs => runs'[i].folder = runs[i].folder)
    BY <1>0 DEF ProcInv, KeepsRow
  <2>2. CASE proc'[i] = proc[i]
    BY <2>1, <2>2
  <2>3. CASE Idle(i, proc'[i])
    BY <2>1, <2>3 DEF Idle, Sweeping
  <2> QED BY <2>2, <2>3
<1>5. OpInv'
  <2> SUFFICES ASSUME NEW s \in Ids PROVE OpInv!(s)'
    BY DEF OpInv
  <2>1. OpInv!(s) /\ op'[s].st = op[s].st /\ op'[s].to \in {0, op[s].to}
    BY <1>0 DEF OpInv
  <2>2. s \in DOMAIN runs => runs'[s].folder = runs[s].folder
    BY DEF KeepsRow
  <2> QED BY <1>2, <2>1, <2>2
<1>6. HoldInv'
  <2> SUFFICES ASSUME NEW i \in Ids, NEW s \in Ids PROVE HoldInv!(i, s)'
    BY DEF HoldInv
  <2>1. HoldInv!(i, s) /\ op'[s].st = op[s].st /\ op'[s].to \in {0, op[s].to} /\ i # 0
    BY <1>0, IdsPositive DEF HoldInv
  <2> QED BY <1>3, <2>1
<1>7. SeenInv'
  <2> SUFFICES ASSUME NEW i \in Ids PROVE Seen(i, proc[i], disk)'
    BY DEF SeenInv
  <2>1. Seen(i, proc[i], disk) /\ i # 0 /\ proc'[i] \in Process
    BY <1>0, IdsPositive DEF SeenInv
  <2>2. CASE proc'[i] = proc[i]
    <3>1. SeenHere(proc[i], disk)'
      BY <2>1, <2>2 DEF Seen, SeenHere
    <3>2. \A r \in proc[i].results : r.op \in Ids
      <4>1. proc[i] \in Process
        BY <2>1, <2>2
      <4> QED BY <4>1 DEF Process
    <3> QED BY <2>1, <2>2, <3>1, <3>2 DEF Seen
  <2>3. CASE Idle(i, proc'[i])
    BY <2>3 DEF Idle, Seen, SeenHere
  <2> QED BY <2>2, <2>3
<1>8. PinInv'
  <2> SUFFICES ASSUME NEW c \in DOMAIN runs', ~Terminal(c)'
               PROVE  (Reads(c) \subseteq runs[c].pins /\ \A s \in Reads(c) : op[s].st \in {"none", "abandoned"})'
    BY DEF PinInv
  <2>1. \A j \in DOMAIN runs : KeepsJob(j, runs'[j], runs[j])
    BY DEF KeepsRow
  <2>2. c \in DOMAIN runs /\ ~Terminal(c) /\ runs'[c].pins = runs[c].pins
    BY DEF Terminal, KeepsRow, KeepsJob
  <2>3. Reads(c)' = Reads(c) /\ Reads(c) \subseteq Ids
    BY <2>1, <2>2, SameReads, ReadsIds
  <2> QED BY <1>0, <2>2, <2>3 DEF PinInv
<1>9. EntryInv'
  BY SameEntries DEF KeepsRow
<1> QED BY <1>1, <1>4, <1>5, <1>6, <1>7, <1>8, <1>9 DEF RetentionInv
\* A function on 1..n is a sequence of length n.
LEMMA IsSeq ==
  ASSUME NEW S, NEW n \in Nat, NEW f \in [1..n -> S]
  PROVE  f \in Seq(S) /\ DOMAIN f = 1..n /\ Len(f) = n
BY SeqDef

\* One row gets a new value.
LEMMA OneRow ==
  ASSUME RetentionInv, NEW i \in DOMAIN runs, NEW new \in Row, KeepsRow(i, new, runs[i]),
         runs' = [runs EXCEPT ![i] = new]
  PROVE  /\ runs' \in Seq(Row) /\ DOMAIN runs' = DOMAIN runs /\ Len(runs') = Len(runs)
         /\ \A j \in DOMAIN runs : KeepsRow(j, runs'[j], runs[j])
<1>1. runs \in Seq(Row) /\ DOMAIN runs = 1..Len(runs) /\ Len(runs) \in Nat
  BY DEF RetentionInv, TypeOK
<1>2. runs' \in [1..Len(runs) -> Row]
  BY <1>1
<1>3. \A j \in DOMAIN runs : KeepsRow(j, runs[j], runs[j])
  BY DEF KeepsRow, KeepsJob
<1> QED BY <1>1, <1>2, <1>3, IsSeq

\* Releasing the operations of ended runs changes who holds them, not where
\* they stand.
LEMMA ReleasedKeeps ==
  ASSUME RetentionInv, NEW ended
  PROVE  LET ops == Released(op, ended) IN
         ops \in [Ids -> Op] /\ \A s \in Ids : ops[s].st = op[s].st /\ ops[s].to \in {0, op[s].to}
<1>1. op \in [Ids -> Op]
  BY DEF RetentionInv, TypeOK
<1>2. \A s \in Ids : LET o == [op[s] EXCEPT !.to = 0] IN o \in Op /\ o.st = op[s].st /\ o.to = 0
  BY <1>1 DEF Op
<1> QED BY <1>1, <1>2 DEF Released

\* The row, the process and the id of a run are well typed.
LEMMA RowOf ==
  ASSUME RetentionInv, NEW i \in DOMAIN runs
  PROVE  i \in Ids /\ runs[i] \in Row /\ proc[i] \in Process /\ op \in [Ids -> Op] /\ proc \in [Ids -> Process]
<1>1. runs \in Seq(Row) /\ i \in 1..Len(runs) /\ Len(runs) <= MaxRuns /\ Len(runs) \in Nat
  BY DEF RetentionInv, TypeOK
<1> QED BY <1>1 DEF RetentionInv, TypeOK, Ids

\* A process without operations has none in hand and no results.
LEMMA NoProcIdle ==
  ASSUME NEW pc \in {"none", "register", "record", "sweep", "work", "finish", "done"}
  PROVE  LET p == [NoProc EXCEPT !.pc = pc] IN
         p \in Process /\ p.pc = pc /\ p.ops = {} /\ p.at = 0 /\ p.results = {}
BY DEF NoProc, Process

\* A process without operations goes on.
LEMMA GoesIdle ==
  ASSUME RetentionInv, NEW i \in DOMAIN runs, proc[i].pc \in {"register", "record", "work", "finish"},
         NEW pc \in {"record", "work", "finish"}, pc = "record" => proc[i].pc = "register", Goto(i, pc)
  PROVE  proc' \in [Ids -> Process] /\ \A j \in Ids : proc'[j] = proc[j] \/ Idle(j, proc'[j])
<1> DEFINE p == [proc[i] EXCEPT !.pc = pc]
<1>1. i \in Ids /\ proc[i] \in Process /\ proc \in [Ids -> Process] /\ ProcInv
  BY RowOf DEF RetentionInv
<1>2. proc[i].ops = {} /\ proc[i].results = {} /\ proc[i].at = 0
  BY <1>1 DEF ProcInv, Sweeping
<1>3. p \in Process /\ p.pc = pc /\ p.ops = {} /\ p.results = {} /\ p.at = 0
  BY <1>1, <1>2 DEF Process
<1>4. proc' = [proc EXCEPT ![i] = p]
  BY <1>1 DEF Goto, Process
<1>5. Idle(i, p)
  BY <1>3 DEF Idle
<1> QED BY <1>1, <1>3, <1>4, <1>5

\* A process forgets everything and ends.
LEMMA GoesDone ==
  ASSUME RetentionInv, NEW i \in DOMAIN runs, proc[i].pc # "none",
         proc' = [proc EXCEPT ![i] = [NoProc EXCEPT !.pc = "done"]]
  PROVE  proc' \in [Ids -> Process] /\ \A j \in Ids : proc'[j] = proc[j] \/ Idle(j, proc'[j])
<1>1. i \in Ids /\ proc \in [Ids -> Process]
  BY RowOf
<1> DEFINE p == [NoProc EXCEPT !.pc = "done"]
<1>2. p \in Process /\ p.pc = "done" /\ p.ops = {} /\ p.at = 0 /\ p.results = {}
  BY NoProcIdle
<1>3. Idle(i, p)
  BY <1>2 DEF Idle
<1> QED BY <1>1, <1>2, <1>3

\* Rows that stay are kept.
LEMMA SameRuns ==
  ASSUME RetentionInv, UNCHANGED runs
  PROVE  /\ runs' \in Seq(Row) /\ DOMAIN runs' = DOMAIN runs /\ Len(runs') = Len(runs)
         /\ \A j \in DOMAIN runs : KeepsRow(j, runs'[j], runs[j])
BY DEF RetentionInv, TypeOK, KeepsRow, KeepsJob
\* Operations that stay are kept.
LEMMA SameOp ==
  ASSUME RetentionInv, UNCHANGED op
  PROVE  op' \in [Ids -> Op] /\ \A s \in Ids : op'[s].st = op[s].st /\ op'[s].to \in {0, op[s].to}
BY DEF RetentionInv, TypeOK
\* Processes that stay are kept.
LEMMA SameProc ==
  ASSUME RetentionInv, UNCHANGED proc
  PROVE  proc' \in [Ids -> Process] /\ \A i \in Ids : proc'[i] = proc[i] \/ Idle(i, proc'[i])
BY DEF RetentionInv, TypeOK

\* A run that ends keeps its flow, its files and its sources.
LEMMA EndedRow ==
  ASSUME RetentionInv, NEW i \in DOMAIN runs, NEW st \in {"succeeded", "failed"}
  PROVE  LET r == [runs[i] EXCEPT !.st = st] IN r \in Row /\ KeepsRow(i, r, runs[i])
BY RowOf DEF Row, KeepsRow, KeepsJob

\* A retry of the SQL load takes its source's files for its own.
LEMMA RetryStartsKeeps ==
  ASSUME RetentionInv, NEW i \in DOMAIN runs, RetryStarts(i)
  PROVE  RetentionInv'
<1> DEFINE r == [runs[i] EXCEPT !.files = runs[i].uses]
<1>1. runs' = [runs EXCEPT ![i] = r] /\ UNCHANGED <<op, disk, proc, shared>>
  BY DEF RetryStarts
<1>2. r \in Row /\ KeepsRow(i, r, runs[i])
  BY RowOf DEF Row, KeepsRow, KeepsJob
<1> HIDE DEF r
<1> QED BY <1>1, <1>2, OneRow, SameOp, SameProc, QuietStep

\* A retry of the SQL load ends.
LEMMA RetryEndsKeeps ==
  ASSUME RetentionInv, NEW i \in DOMAIN runs, RetryEnds(i)
  PROVE  RetentionInv'
<1>1. PICK st \in {"succeeded", "failed"} : runs' = [runs EXCEPT ![i] = [runs[i] EXCEPT !.st = st]]
  BY DEF RetryEnds
<1>2. UNCHANGED <<op, disk, proc, shared>>
  BY DEF RetryEnds
<1> QED BY <1>1, <1>2, EndedRow, OneRow, SameOp, SameProc, QuietStep

\* The watchdog or a stop ends a run whose process may go on.
LEMMA InterruptKeeps ==
  ASSUME RetentionInv, NEW i \in DOMAIN runs, Interrupt(i)
  PROVE  RetentionInv'
<1>1. runs' = [runs EXCEPT ![i] = [runs[i] EXCEPT !.st = "failed"]] /\ UNCHANGED <<disk, proc, shared>>
  BY DEF Interrupt
<1>2. op' \in [Ids -> Op] /\ \A s \in Ids : op'[s].st = op[s].st /\ op'[s].to \in {0, op[s].to}
  <2>1. CASE op' = op
    BY <2>1, SameOp
  <2>2. CASE op' = Released(op, {i})
    BY <2>2, ReleasedKeeps
  <2> QED BY <2>1, <2>2 DEF Interrupt
<1>3. LET r == [runs[i] EXCEPT !.st = "failed"] IN r \in Row /\ KeepsRow(i, r, runs[i])
  BY EndedRow
<1> QED BY <1>1, <1>2, <1>3, OneRow, SameProc, QuietStep

\* register_run_folder reads the status before its transaction.
LEMMA RegisterCheckKeeps ==
  ASSUME RetentionInv, NEW i \in DOMAIN runs, RegisterCheck(i)
  PROVE  RetentionInv'
<1>1. proc[i].pc = "register" /\ UNCHANGED <<runs, op, disk, shared>>
  BY DEF RegisterCheck
<1>2. proc' \in [Ids -> Process] /\ \A j \in Ids : proc'[j] = proc[j] \/ Idle(j, proc'[j])
  BY <1>1, GoesIdle DEF RegisterCheck
<1> QED BY <1>1, <1>2, SameRuns, SameOp, QuietStep

\* The exports of a run are recorded, new and carried ones.
LEMMA WorkKeeps ==
  ASSUME RetentionInv, NEW i \in DOMAIN runs, Work(i)
  PROVE  RetentionInv'
<1>1. proc[i].pc = "work" /\ Goto(i, "finish") /\ UNCHANGED <<op, disk, shared>>
  BY DEF Work
<1>2. proc' \in [Ids -> Process] /\ \A j \in Ids : proc'[j] = proc[j] \/ Idle(j, proc'[j])
  BY <1>1, GoesIdle
<1>3. CASE UNCHANGED runs
  BY <1>1, <1>2, <1>3, SameRuns, SameOp, QuietStep
<1>4. CASE ~Terminal(i)
  <2>1. PICK carried \in {{}, {s \in runs[i].uses : disk[s] = "folder"}} :
          runs' = [runs EXCEPT ![i] = [runs[i] EXCEPT !.files = {i} \cup carried]]
    BY <1>4 DEF Work
  <2>2. LET r == [runs[i] EXCEPT !.files = {i} \cup carried] IN r \in Row /\ KeepsRow(i, r, runs[i])
    <3>1. {i} \cup carried \in SUBSET Ids /\ carried \subseteq runs[i].uses
      BY RowOf DEF Row
    <3> QED BY <3>1, RowOf DEF Row, KeepsRow, KeepsJob
  <2> QED BY <1>1, <1>2, <2>1, <2>2, OneRow, SameOp, QuietStep
<1> QED BY <1>3, <1>4 DEF Work

\* The terminal report of a run releases its operations.
LEMMA FinishKeeps ==
  ASSUME RetentionInv, NEW i \in DOMAIN runs, Finish(i)
  PROVE  RetentionInv'
<1>1. /\ proc[i].pc = "finish" /\ UNCHANGED <<disk, shared>>
      /\ proc' = [proc EXCEPT ![i] = [NoProc EXCEPT !.pc = "done"]]
  BY DEF Finish
<1>2. proc' \in [Ids -> Process] /\ \A j \in Ids : proc'[j] = proc[j] \/ Idle(j, proc'[j])
  BY <1>1, GoesDone
<1>3. CASE Terminal(i)
  BY <1>1, <1>2, <1>3, SameRuns, SameOp, QuietStep DEF Finish
<1>4. CASE ~Terminal(i)
  <2>1. PICK st \in {"succeeded", "failed"} : runs' = [runs EXCEPT ![i] = [runs[i] EXCEPT !.st = st]]
    BY <1>4 DEF Finish
  <2>2. op' = Released(op, {i})
    BY <1>4 DEF Finish
  <2>3. LET r == [runs[i] EXCEPT !.st = st] IN r \in Row /\ KeepsRow(i, r, runs[i])
    BY EndedRow
  <2> QED BY <1>1, <1>2, <2>1, <2>2, <2>3, OneRow, ReleasedKeeps, QuietStep
<1> QED BY <1>3, <1>4

\* A worker process dies.
LEMMA CrashKeeps ==
  ASSUME RetentionInv, NEW i \in DOMAIN runs, Crash(i)
  PROVE  RetentionInv'
<1>1. /\ proc[i].pc # "none" /\ UNCHANGED <<runs, op, disk, shared>>
      /\ proc' = [proc EXCEPT ![i] = [NoProc EXCEPT !.pc = "done"]]
  BY DEF Crash
<1> QED BY <1>1, GoesDone, SameRuns, SameOp, QuietStep
(***************************************************************************)
(* New runs.                                                               *)
(***************************************************************************)
LEMMA NewRunKeeps ==
  ASSUME RetentionInv, NEW f \in Flows, NEW uses \in SUBSET Ids, NEW pins \in SUBSET Ids,
         NEW carried \in SUBSET [in : Ids, as : Ids],
         NEW retry \in BOOLEAN, NewRun(f, uses, carried, pins, retry),
         \A e \in carried : e.as \in DOMAIN runs /\ (runs[e.as].retry \/ e.in = e.as),
         retry \/ (uses = Lie(carried) /\ \A e \in carried : e.as \in pins),
         retry => \A s \in uses \cap pins : op[s].st \in {"none", "abandoned"},
         ~retry => \A e \in carried : op[e.as].st \in {"none", "abandoned"}
  PROVE  RetentionInv'
<1> DEFINE n == Len(runs) + 1
           new == [flow |-> f, st |-> "active", folder |-> "none", retry |-> retry,
                   uses |-> uses, carried |-> carried, pins |-> pins, files |-> {}]
<1>0. /\ TypeOK /\ ProcInv /\ OpInv /\ HoldInv /\ SeenInv /\ PinInv /\ EntryInv
      /\ runs \in Seq(Row) /\ Len(runs) \in Nat /\ DOMAIN runs = 1..Len(runs) /\ n \in Ids
      /\ n \notin DOMAIN runs /\ UNCHANGED <<op, disk, proc, shared>>
  BY DEF RetentionInv, TypeOK, NewRun, Ids
<1>1. new \in Row
  BY DEF Row
<1>2. runs' = Append(runs, new) /\ Len(runs) < MaxRuns
  BY DEF NewRun
<1>3. /\ runs' \in Seq(Row) /\ Len(runs') = n /\ DOMAIN runs' = 1..n /\ runs'[n] = new
      /\ \A i \in DOMAIN runs : runs'[i] = runs[i]
  BY <1>0, <1>1, <1>2
<1>4. DOMAIN runs' = DOMAIN runs \cup {n}
  BY <1>0, <1>3
<1> HIDE DEF new
<1>5. /\ new.folder = "none" /\ new.uses = uses /\ new.pins = pins /\ new.retry = retry /\ new.st = "active"
      /\ new.carried = carried /\ new.files = {}
  BY DEF new
<1> HIDE DEF n
<1>6. TypeOK'
  BY <1>0, <1>2, <1>3 DEF TypeOK, n
<1>7. Recorded' = Recorded /\ \A s \in Ids : Older(runs', s) = Older(runs, s)
  BY <1>3, <1>4, <1>5 DEF Recorded, Older
<1>8. ProcInv'
  BY <1>0, <1>3, <1>4, <1>5, ZenonT(60) DEF ProcInv
<1>9. OpInv'
  <2> SUFFICES ASSUME NEW s \in Ids PROVE OpInv!(s)'
    BY DEF OpInv
  <2>1. OpInv!(s)
    BY <1>0 DEF OpInv
  <2>2. s \in DOMAIN runs' /\ runs'[s].folder = "pruned" <=> s \in DOMAIN runs /\ runs[s].folder = "pruned"
    BY <1>3, <1>4, <1>5
  <2> QED BY <1>0, <1>7, <2>1, <2>2
<1>10. HoldInv'
  BY <1>0 DEF HoldInv, Knows, Holds
<1>11. SeenInv'
  BY <1>0 DEF SeenInv, Seen, SeenHere
<1>12. PinInv'
  <2> SUFFICES ASSUME NEW c \in DOMAIN runs', ~Terminal(c)'
               PROVE  (Reads(c) \subseteq runs[c].pins /\ \A s \in Reads(c) : op[s].st \in {"none", "abandoned"})'
    BY DEF PinInv
  <2>1. CASE c = n
    <3>1. runs'[c] = new
      BY <1>3, <2>1
    <3>2. CASE retry
      BY <1>0, <1>5, <3>1, <3>2 DEF Reads
    <3>3. CASE ~retry
      <4>1. \A e \in carried : ~runs'[e.as].retry => e.in = e.as
        BY <1>3
      <4>2. Reads(c)' = Lie({e \in carried : ~runs'[e.as].retry})
        BY <1>5, <3>1, <3>3 DEF Reads, Lie
      <4>3. \A s \in Reads(c)' : \E e \in carried : s = e.as
        BY <4>1, <4>2 DEF Lie
      <4> QED BY <1>0, <1>5, <3>1, <3>3, <4>3
    <3> QED BY <3>2, <3>3
  <2>2. CASE c \in DOMAIN runs
    <3>1. runs'[c] = runs[c] /\ \A j \in DOMAIN runs : KeepsJob(j, runs'[j], runs[j])
      BY <1>3, <2>2 DEF KeepsJob
    <3>2. Reads(c)' = Reads(c)
      BY <1>4, <2>2, <3>1, SameReads
    <3> QED BY <1>0, <2>2, <3>1, <3>2 DEF PinInv, Terminal
  <2> QED BY <1>4, <2>1, <2>2
<1>13. EntryInv'
  <2> SUFFICES ASSUME NEW c \in DOMAIN runs' PROVE EntryInv!(c)'
    BY DEF EntryInv
  <2>1. CASE c = n
    <3>1. runs'[c] = new
      BY <1>3, <2>1
    <3> QED BY <1>3, <1>4, <1>5, <3>1
  <2>2. CASE c \in DOMAIN runs
    <3>1. EntryInv!(c) /\ runs'[c] = runs[c]
      BY <1>0, <1>3, <2>2 DEF EntryInv
    <3>2. \A e \in runs[c].carried : e.as \in DOMAIN runs /\ runs'[e.as] = runs[e.as]
      BY <1>3, <3>1
    <3> QED BY <1>4, <3>1, <3>2
  <2> QED BY <1>4, <2>1, <2>2
<1> QED BY <1>6, <1>8, <1>9, <1>10, <1>11, <1>12, <1>13 DEF RetentionInv

\* A folder that a Resume may read has no pending operation.
LEMMA Usable ==
  ASSUME RetentionInv, NEW s \in Ids, ~Unavailable(s)
  PROVE  op[s].st \in {"none", "abandoned"}
<1>1. op[s].st \in {"none", "issued", "quarantined", "abandoned", "done"} /\ OpInv
  BY DEF RetentionInv, TypeOK, Op
<1> QED BY <1>1 DEF Unavailable, OpInv, Pending

\* A run is queued for a flow.
LEMMA QueueKeeps ==
  ASSUME RetentionInv, NEW f \in Flows, Queue(f)
  PROVE  RetentionInv'
<1>1. /\ NewRun(f, {}, {}, {}, FALSE) /\ {} \in SUBSET Ids /\ FALSE \in BOOLEAN
      /\ {} \in SUBSET [in : Ids, as : Ids] /\ Lie({}) = {}
  BY DEF Queue, Lie
<1> QED BY <1>1, NewRunKeeps

\* What a run offers to a Resume is attributed to a run.
LEMMA EvidenceOf ==
  ASSUME RetentionInv, NEW r \in DOMAIN runs, NEW entries \in Evidence(r)
  PROVE  /\ entries \in SUBSET [in : Ids, as : Ids]
         /\ \A e \in entries : e.as \in DOMAIN runs /\ (runs[e.as].retry \/ e.in = e.as)
<1> DEFINE carried == runs[r].carried
           saved == {[in |-> s, as |-> r] : s \in runs[r].files}
           unknown == {e \in saved : e.in \notin Lie(carried)}
<1>1. /\ runs[r] \in Row /\ r \in Ids
      /\ \A e \in carried : e.as \in DOMAIN runs /\ (runs[e.as].retry \/ e.in = e.as)
      /\ ~runs[r].retry => runs[r].files \subseteq {r} \cup Lie(carried)
  BY RowOf DEF RetentionInv, EntryInv
<1>2. carried \in SUBSET [in : Ids, as : Ids] /\ runs[r].files \subseteq Ids /\ saved \in SUBSET [in : Ids, as : Ids]
  BY <1>1 DEF Row
<1>3. \A e \in saved : e.as = r /\ e.in \in runs[r].files
  OBVIOUS
<1>4. CASE runs[r].retry
  <2>1. entries \subseteq carried \cup saved
    BY DEF Evidence
  <2> QED BY <1>1, <1>2, <1>3, <1>4, <2>1
<1>5. CASE ~runs[r].retry
  <2>1. entries = carried \cup unknown
    BY <1>5 DEF Evidence
  <2>2. \A e \in unknown : e.in = r /\ e.as = r
    BY <1>1, <1>3, <1>5
  <2> QED BY <1>1, <1>2, <2>1, <2>2
<1> QED BY <1>4, <1>5

\* A Resume pins the runs its files are attributed to.
LEMMA ResumeKeeps ==
  ASSUME RetentionInv, NEW r \in DOMAIN runs, Resume(r)
  PROVE  RetentionInv'
<1>1. PICK entries \in Evidence(r) :
        NewRun(runs[r].flow, Lie(Reusable(entries)), Reusable(entries),
               {r} \cup {e.as : e \in Reusable(entries)}, FALSE)
  BY DEF Resume
<1> DEFINE carried == Reusable(entries)
           uses == Lie(carried)
           pins == {r} \cup {e.as : e \in carried}
<1>2. runs[r].flow \in Flows /\ r \in Ids
  BY RowOf DEF Row
<1>3. /\ carried \in SUBSET [in : Ids, as : Ids]
      /\ \A e \in carried : e.as \in DOMAIN runs /\ (runs[e.as].retry \/ e.in = e.as) /\ ~Unavailable(e.as)
  BY EvidenceOf DEF Reusable
<1>4. \A e \in carried : op[e.as].st \in {"none", "abandoned"}
  <2> TAKE e \in carried
  <2>1. e.as \in Ids /\ ~Unavailable(e.as)
    BY <1>3
  <2> QED BY <2>1, Usable
<1>5. uses \in SUBSET Ids /\ pins \in SUBSET Ids /\ \A e \in carried : e.as \in pins
  BY <1>2, <1>3 DEF Lie
<1>6. NewRun(runs[r].flow, uses, carried, pins, FALSE) /\ uses = Lie(carried)
  BY <1>1
<1>7. \A e \in carried : e.as \in DOMAIN runs /\ (runs[e.as].retry \/ e.in = e.as)
  BY <1>3
<1>8. carried \in SUBSET [in : Ids, as : Ids]
  BY <1>3
<1> HIDE DEF carried, uses, pins
<1> DEFINE f == runs[r].flow
<1>9. f \in Flows /\ NewRun(f, uses, carried, pins, FALSE)
  BY <1>2, <1>6
<1> HIDE DEF f
<1> QED BY <1>4, <1>5, <1>6, <1>7, <1>8, <1>9, NewRunKeeps

\* A retry of the SQL load pins its source run.
LEMMA RetrySqlKeeps ==
  ASSUME RetentionInv, NEW r \in DOMAIN runs, RetrySql(r)
  PROVE  RetentionInv'
<1>1. runs[r] \in Row /\ r \in Ids
  BY RowOf
<1>2. /\ runs[r].files \in SUBSET Ids /\ {r} \in SUBSET Ids /\ runs[r].flow \in Flows
      /\ runs[r].carried \in SUBSET [in : Ids, as : Ids]
  BY <1>1 DEF Row
<1>3. \A s \in runs[r].files \cap {r} : op[s].st \in {"none", "abandoned"}
  BY <1>1, Usable DEF RetrySql, Retriable
<1> DEFINE f == runs[r].flow
           uses == runs[r].files
           carried == runs[r].carried
           pins == {r}
<1>4. NewRun(f, uses, carried, pins, TRUE)
  BY DEF RetrySql
<1>5. \A e \in carried : e.as \in DOMAIN runs /\ (runs[e.as].retry \/ e.in = e.as)
  BY DEF RetentionInv, EntryInv
<1>6. /\ f \in Flows /\ uses \in SUBSET Ids /\ pins \in SUBSET Ids
      /\ carried \in SUBSET [in : Ids, as : Ids]
      /\ \A s \in uses \cap pins : op[s].st \in {"none", "abandoned"}
  BY <1>2, <1>3
<1> HIDE DEF f, uses, carried, pins
<1> QED BY <1>4, <1>5, <1>6, NewRunKeeps

\* A worker creates the folder of its run.
LEMMA CreateKeeps ==
  ASSUME RetentionInv, NEW i \in DOMAIN runs, Create(i)
  PROVE  RetentionInv'
<1>0. /\ TypeOK /\ ProcInv /\ OpInv /\ HoldInv /\ SeenInv /\ PinInv /\ i \in Ids
      /\ proc[i] \in Process /\ proc \in [Ids -> Process] /\ disk \in [Ids -> {"nothing", "folder", "tombstone"}]
      /\ proc[i].pc = "none" /\ disk' = [disk EXCEPT ![i] = "folder"] /\ UNCHANGED <<runs, op, shared>>
  BY RowOf DEF RetentionInv, TypeOK, Create
<1> DEFINE p == [proc[i] EXCEPT !.pc = "register"]
<1>1. proc[i].ops = {} /\ proc[i].results = {} /\ proc[i].at = 0 /\ runs[i].folder = "none"
  BY <1>0 DEF ProcInv, Sweeping
<1>2. p \in Process /\ p.pc = "register" /\ p.ops = {} /\ p.results = {} /\ p.at = 0
  BY <1>0, <1>1 DEF Process
<1>3. proc' = [proc EXCEPT ![i] = p]
  BY <1>0 DEF Create, Goto
<1> HIDE DEF p
<1>4. proc'[i] = p /\ \A j \in Ids : j # i => proc'[j] = proc[j] /\ disk'[j] = disk[j]
  BY <1>0, <1>3
<1>5. disk'[i] = "folder"
  BY <1>0
<1>6. TypeOK'
  BY <1>0, <1>2, <1>3 DEF TypeOK
<1>7. op[i].st = "none" /\ i \notin Recorded
  BY <1>0, <1>1 DEF OpInv, Recorded
<1>8. \A j, s \in Ids : (Holds(j, s)' => Holds(j, s)) /\ (Knows(j, s)' => Knows(j, s))
  BY <1>2, <1>4, IdsPositive DEF Holds, Knows
<1>9. ProcInv'
  <2> SUFFICES ASSUME NEW j \in Ids PROVE ProcInv!(j)'
    BY DEF ProcInv
  <2>1. ProcInv!(j)
    BY <1>0 DEF ProcInv
  <2>2. CASE j = i
    BY <1>0, <1>1, <1>2, <1>4, <1>5, <2>2, IdsPositive DEF Sweeping
  <2>3. CASE j # i
    BY <1>0, <1>4, <2>1, <2>3
  <2> QED BY <2>2, <2>3
<1>10. OpInv'
  <2> SUFFICES ASSUME NEW s \in Ids PROVE OpInv!(s)'
    BY DEF OpInv
  <2>1. OpInv!(s) /\ Older(runs', s) = Older(runs, s) /\ Recorded' = Recorded
    BY <1>0 DEF OpInv, Recorded
  <2>2. CASE s = i
    BY <1>0, <1>5, <1>7, <2>1, <2>2
  <2>3. CASE s # i
    BY <1>0, <1>4, <2>1, <2>3
  <2> QED BY <2>2, <2>3
<1>11. HoldInv'
  BY <1>0, <1>8 DEF HoldInv
<1>12. SeenInv'
  <2> SUFFICES ASSUME NEW j \in Ids PROVE Seen(j, proc[j], disk)'
    BY DEF SeenInv
  <2>1. CASE j = i
    BY <1>2, <1>4, <2>1 DEF Seen, SeenHere
  <2>2. CASE j # i
    <3>1. proc'[j] = proc[j] /\ Seen(j, proc[j], disk) /\ proc[j] \in Process
      BY <1>0, <1>4, <2>2 DEF SeenInv
    <3>2. ~Knows(j, i)
      BY <1>0, <1>7 DEF HoldInv
    <3>3. \A r \in proc[j].results : r.op \in Ids /\ r.op # i
      BY <3>1, <3>2 DEF Process, Knows
    <3>4. proc[j].at = i => proc[j].pc \notin Sweeping
      BY <3>2 DEF Knows, Holds, Sweeping
    <3>5. CASE proc[j].pc \in Sweeping
      <4>1. proc[j].at # i /\ proc[j].at \in Ids
        BY <1>0, <3>1, <3>4, <3>5 DEF ProcInv, Process
      <4>2. disk'[proc[j].at] = disk[proc[j].at]
        BY <1>4, <4>1
      <4> QED BY <1>0, <1>4, <3>1, <3>3, <4>2 DEF Seen, SeenHere
    <3>6. CASE proc[j].pc \notin Sweeping
      BY <1>0, <1>4, <3>1, <3>3, <3>6 DEF Seen, SeenHere, Sweeping
    <3> QED BY <3>5, <3>6
  <2> QED BY <2>1, <2>2
<1>13. PinInv' /\ EntryInv'
  BY <1>0, SameJobs, SameEntries DEF PinInv, Reads, Terminal
<1> QED BY <1>6, <1>9, <1>10, <1>11, <1>12, <1>13 DEF RetentionInv
(***************************************************************************)
(* Registration.                                                           *)
(***************************************************************************)
LEMMA RegisterKeeps ==
  ASSUME RetentionInv, NEW i \in DOMAIN runs, Register(i)
  PROVE  RetentionInv'
<1> DEFINE row == [runs[i] EXCEPT !.folder = "present"]
           rel == Released(op, {j \in DOMAIN runs : Terminal(j)})
           ops == Issued(i, rel)
           mine == Handed(i, ops)
           p == [proc[i] EXCEPT !.pc = "sweep", !.ops = mine]
<1>0. /\ TypeOK /\ ProcInv /\ OpInv /\ HoldInv /\ SeenInv /\ PinInv /\ i \in Ids
      /\ runs[i] \in Row /\ proc[i] \in Process /\ op \in [Ids -> Op] /\ proc \in [Ids -> Process]
      /\ proc[i].pc = "record" /\ disk' = disk
      /\ runs \in Seq(Row) /\ DOMAIN runs = 1..Len(runs) /\ Len(runs) \in Nat /\ DOMAIN runs \subseteq Ids
  BY RowOf DEF RetentionInv, TypeOK, Register, Ids
<1>1. /\ runs' = [runs EXCEPT ![i] = row]
      /\ op' = [s \in Ids |-> IF s \in mine THEN [ops[s] EXCEPT !.to = i] ELSE ops[s]]
      /\ proc' = [proc EXCEPT ![i].pc = "sweep", ![i].ops = mine]
      /\ shared' = shared \cup {s \in mine : \E j \in Ids \ {i} : Holds(j, s)}
  BY DEF Register
<1>2. rel \in [Ids -> Op] /\ \A s \in Ids : rel[s].st = op[s].st /\ rel[s].to \in {0, op[s].to}
  BY ReleasedKeeps
<1> HIDE DEF rel
\* What is issued is an old folder without an operation that nobody reads.
<1> DEFINE Fresh(s) == s \in Outdated(i) /\ Terminal(s) /\ ~Pinned(s) /\ op[s].st = "none"
<1>3. /\ ops \in [Ids -> Op]
      /\ \A s \in Ids : Fresh(s) => ops[s] = [st |-> "issued", to |-> i]
      /\ \A s \in Ids : ~Fresh(s) => ops[s].st = op[s].st /\ ops[s].to \in {0, op[s].to}
  BY <1>0, <1>2 DEF Issued, Op
<1> HIDE DEF ops, Fresh
<1>4. mine \subseteq Ids /\ \A s \in mine : ops[s].st \in Pending /\ ~Pinned(s)
  BY DEF Handed
<1> HIDE DEF mine
<1>5. /\ op' \in [Ids -> Op]
      /\ \A s \in Ids : op'[s].st = ops[s].st
      /\ \A s \in mine : op'[s].to = i
      /\ \A s \in Ids \ mine : op'[s].to = ops[s].to
  <2>1. \A s \in Ids : LET o == [ops[s] EXCEPT !.to = i] IN o \in Op /\ o.st = ops[s].st /\ o.to = i
    <3> TAKE s \in Ids
    <3>1. ops[s] \in Op
      BY <1>3
    <3> QED BY <1>0, <3>1 DEF Op
  <2> QED BY <1>1, <1>3, <1>4, <2>1
<1>6. row \in Row /\ row.folder = "present" /\ KeepsJob(i, row, runs[i]) /\ row.st = runs[i].st
  BY <1>0 DEF Row, KeepsJob
<1> HIDE DEF row
<1>7. /\ runs' \in Seq(Row) /\ DOMAIN runs' = DOMAIN runs /\ Len(runs') = Len(runs)
      /\ runs'[i] = row /\ \A j \in DOMAIN runs : j # i => runs'[j] = runs[j]
  <2>1. runs' \in [1..Len(runs) -> Row]
    BY <1>0, <1>1, <1>6
  <2> QED BY <1>0, <1>1, <2>1, IsSeq
<1>8. proc[i].ops = {} /\ proc[i].results = {} /\ proc[i].at = 0 /\ disk[i] = "folder" /\ runs[i].folder = "none"
  BY <1>0 DEF ProcInv, Sweeping, Row
<1>9. p \in Process /\ p.pc = "sweep" /\ p.ops = mine /\ p.at = 0 /\ p.results = {}
  BY <1>0, <1>4, <1>8 DEF Process
<1>10. proc' = [proc EXCEPT ![i] = p]
  BY <1>0, <1>1 DEF Process
<1> HIDE DEF p
<1>11. proc'[i] = p /\ \A j \in Ids : j # i => proc'[j] = proc[j]
  BY <1>0, <1>10
<1>12. shared \subseteq shared' /\ shared' \subseteq Ids
  BY <1>0, <1>1, <1>4 DEF TypeOK
<1>13. Recorded' = Recorded \cup {i}
  BY <1>0, <1>6, <1>7 DEF Recorded
<1>14. \A s \in Ids : IsFiniteSet(Older(runs', s)) /\ Older(runs, s) \subseteq Older(runs', s)
  <2> TAKE s \in Ids
  <2>1. Older(runs', s) \subseteq 1..Len(runs) /\ IsFiniteSet(1..Len(runs))
    BY <1>0, <1>7, FS_Interval DEF Older
  <2>2. Older(runs, s) \subseteq Older(runs', s)
    BY <1>6, <1>7 DEF Older
  <2> QED BY <2>1, <2>2, FS_Subset
<1>15. \A s \in Ids : Cardinality(Older(runs, s)) >= Keep => Cardinality(Older(runs', s)) >= Keep
  <2> TAKE s \in Ids
  <2>1. /\ IsFiniteSet(Older(runs, s)) /\ Cardinality(Older(runs, s)) <= Cardinality(Older(runs', s))
    BY <1>14, FS_Subset
  <2>2. Cardinality(Older(runs, s)) \in Nat /\ Cardinality(Older(runs', s)) \in Nat
    BY <1>14, <2>1, FS_CardinalityType
  <2> QED BY <2>1, <2>2
<1>16. \A s \in Ids : Fresh(s) => s \in Recorded' /\ Cardinality(Older(runs', s)) >= Keep
  <2> SUFFICES ASSUME NEW s \in Ids, Fresh(s)
               PROVE  s \in Recorded' /\ Cardinality(Older(runs', s)) >= Keep
    OBVIOUS
  <2> DEFINE kept == {q \in Present(i) : q > s}
  <2>1. s \in Present(i) /\ Cardinality(kept) >= Keep
    BY DEF Fresh, Outdated
  <2>2. kept \subseteq Older(runs', s)
    BY <1>6, <1>7 DEF Present, Older
  <2> HIDE DEF kept
  <2>3. IsFiniteSet(kept) /\ Cardinality(kept) <= Cardinality(Older(runs', s))
    BY <1>14, <2>2, FS_Subset
  <2>4. Cardinality(kept) \in Nat /\ Cardinality(Older(runs', s)) \in Nat
    BY <1>14, <2>3, FS_CardinalityType
  <2>5. s \in Recorded'
    BY <1>13, <2>1 DEF Present, Recorded
  <2> QED BY <2>1, <2>3, <2>4, <2>5
<1>17. TypeOK'
  BY <1>0, <1>5, <1>7, <1>9, <1>10, <1>12 DEF TypeOK
<1>18. ProcInv'
  <2> SUFFICES ASSUME NEW j \in Ids PROVE ProcInv!(j)'
    BY DEF ProcInv
  <2>1. ProcInv!(j)
    BY <1>0 DEF ProcInv
  <2>2. CASE j = i
    BY <1>0, <1>4, <1>7, <1>9, <1>11, <2>2, IdsPositive DEF Sweeping
  <2>3. CASE j # i
    BY <1>0, <1>7, <1>11, <2>1, <2>3
  <2> QED BY <2>2, <2>3
<1>19. op[i].st = "none" /\ i \notin Recorded
  BY <1>0, <1>8 DEF OpInv, Recorded
<1>20. OpInv'
  <2> SUFFICES ASSUME NEW s \in Ids PROVE OpInv!(s)'
    BY DEF OpInv
  <2>1. OpInv!(s) /\ op[s] \in Op
    BY <1>0 DEF OpInv
  <2>2. s \in DOMAIN runs' /\ runs'[s].folder = "pruned" <=> s \in DOMAIN runs /\ runs[s].folder = "pruned"
    BY <1>0, <1>6, <1>7, <1>8
  <2>3. CASE Fresh(s)
    <3>1. op[s].st = "none" /\ op'[s].st = "issued"
      BY <1>3, <1>5, <2>3 DEF Fresh
    <3> QED BY <1>16, <2>1, <2>2, <2>3, <3>1
  <2>4. CASE ~Fresh(s)
    <3>1. op'[s].st = op[s].st
      BY <1>3, <1>5, <2>4
    <3>2. op[s].st = "abandoned" => op'[s].to = 0
      BY <1>3, <1>4, <1>5, <2>1, <2>4, <3>1 DEF Pending
    <3>3. s \in Recorded' /\ op[s].st = "none" => disk[s] = "folder"
      BY <1>8, <1>13, <2>1
    <3> QED BY <1>0, <1>12, <1>13, <1>15, <2>1, <2>2, <3>1, <3>2, <3>3
  <2> QED BY <2>3, <2>4
\* Whoever knew of an operation knows one that existed and was not issued now.
<1>21. \A j, s \in Ids : Knows(j, s) =>
         j # i /\ op'[s].st = op[s].st /\ (s \notin mine => op'[s].to \in {0, op[s].to})
  <2> SUFFICES ASSUME NEW j \in Ids, NEW s \in Ids, Knows(j, s)
               PROVE  j # i /\ op'[s].st = op[s].st /\ (s \notin mine => op'[s].to \in {0, op[s].to})
    OBVIOUS
  <2>1. j # i
    BY <1>8, IdsPositive DEF Knows, Holds
  <2>2. ~Fresh(s)
    BY <1>0 DEF HoldInv, Fresh
  <2> QED BY <1>3, <1>5, <2>1, <2>2
<1>22. \A j, s \in Ids : /\ Holds(j, s)' <=> (IF j = i THEN s \in mine ELSE Holds(j, s))
                         /\ Knows(j, s)' <=> (IF j = i THEN s \in mine ELSE Knows(j, s))
  BY <1>9, <1>11, IdsPositive DEF Holds, Knows
<1>23. HoldInv'
  <2> SUFFICES ASSUME NEW j \in Ids, NEW s \in Ids PROVE HoldInv!(j, s)'
    BY DEF HoldInv
  <2>1. HoldInv!(j, s) /\ (\A k \in Ids : Holds(k, s) => Knows(k, s)) /\ j # 0 /\ i # 0
    BY <1>0, IdsPositive DEF HoldInv, Knows
  <2>2. CASE j = i
    <3>1. s \in mine => op'[s].st \in Pending /\ op'[s].to = i
      BY <1>4, <1>5
    <3>2. s \in mine /\ s \notin shared' => \A k \in Ids : Holds(k, s)' => k = i
      BY <1>1, <1>22
    <3> QED BY <1>22, <2>2, <3>1, <3>2 DEF Pending
  <2>3. CASE j # i
    <3>1. Knows(j, s) => op'[s].st # "none" /\ (op'[s].to = j => op'[s].st \in Pending)
      BY <1>5, <1>21, <2>1, <2>3
    <3>2. ASSUME Holds(j, s), s \notin shared'
          PROVE  op'[s].st \in Pending /\ op'[s].to \in {0, j} /\ \A k \in Ids : Holds(k, s)' => k = j
      <4>1. s \notin shared /\ s \notin mine
        BY <1>0, <1>1, <2>3, <3>2
      <4> QED BY <1>21, <1>22, <2>1, <2>3, <3>2, <4>1
    <3> QED BY <1>22, <2>3, <3>1, <3>2
  <2> QED BY <2>2, <2>3
<1>24. SeenInv'
  <2> SUFFICES ASSUME NEW j \in Ids PROVE Seen(j, proc[j], disk)'
    BY DEF SeenInv
  <2>1. CASE j = i
    BY <1>9, <1>11, <2>1 DEF Seen, SeenHere
  <2>2. CASE j # i
    <3>1. proc'[j] = proc[j] /\ Seen(j, proc[j], disk) /\ proc[j] \in Process
      BY <1>0, <1>11, <2>2 DEF SeenInv
    <3>2. SeenHere(proc[j], disk)'
      BY <1>0, <1>12, <3>1 DEF Seen, SeenHere
    <3>3. \A r \in proc[j].results : r.op \in Ids /\ Knows(j, r.op)
      BY <3>1 DEF Process, Knows
    <3>4. \A r \in proc[j].results : op'[r.op].to = j => op[r.op].to = j
      BY <1>5, <1>21, <2>2, <3>3, IdsPositive
    <3> QED BY <1>0, <1>12, <3>1, <3>2, <3>4 DEF Seen
  <2> QED BY <2>1, <2>2
<1>25. \A j \in DOMAIN runs : KeepsJob(j, runs'[j], runs[j])
  BY <1>6, <1>7 DEF KeepsJob
<1>26. PinInv'
  <2> SUFFICES ASSUME NEW c \in DOMAIN runs', ~Terminal(c)'
               PROVE  (Reads(c) \subseteq runs[c].pins /\ \A s \in Reads(c) : op[s].st \in {"none", "abandoned"})'
    BY DEF PinInv
  <2>1. c \in DOMAIN runs /\ ~Terminal(c) /\ runs'[c].pins = runs[c].pins /\ Reads(c)' = Reads(c)
    BY <1>6, <1>7, <1>25, SameReads DEF Terminal, KeepsJob
  <2>2. Reads(c) \subseteq runs[c].pins /\ \A s \in Reads(c) : op[s].st \in {"none", "abandoned"}
    BY <1>0, <2>1 DEF PinInv
  <2>3. \A s \in Reads(c) : Pinned(s)
    BY <2>1, <2>2 DEF Pinned
  <2>4. Reads(c) \subseteq Ids
    BY <2>1, ReadsIds
  <2>5. \A s \in Reads(c) : op'[s].st = op[s].st
    BY <1>3, <1>5, <2>3, <2>4 DEF Fresh
  <2> QED BY <2>1, <2>2, <2>5
<1>27. EntryInv'
  BY <1>7, <1>25, SameEntries
<1> QED BY <1>17, <1>18, <1>20, <1>23, <1>24, <1>26, <1>27 DEF RetentionInv
(***************************************************************************)
(* The report.                                                             *)
(***************************************************************************)
Outcomes == {"deleted", "quarantined", "skipped", "failed"}
\* The row of an operation after a reported outcome.
LEMMA AfterOf ==
  ASSUME NEW o \in Op, NEW outcome \in Outcomes, o.st \in Pending
  PROVE  LET a == After(o, outcome) IN
         /\ a \in Op /\ a.st # "none" /\ a.to \in {0, o.to}
         /\ (a.st = "done" <=> outcome = "deleted") /\ (a.st = "abandoned" <=> outcome = "skipped")
         /\ a.st = "abandoned" => a.to = 0
<1>1. CASE outcome = "deleted"
  BY <1>1 DEF After, Op, Pending
<1>2. CASE outcome = "quarantined"
  BY <1>2 DEF After, Op, Pending
<1>3. CASE outcome = "skipped"
  BY <1>3 DEF After, Op, Pending
<1>4. CASE outcome = "failed"
  BY <1>4 DEF After, Op, Pending
<1> QED BY <1>1, <1>2, <1>3, <1>4 DEF Outcomes

\* The server records a worker's results.
LEMMA ReportKeeps ==
  ASSUME RetentionInv, NEW i \in DOMAIN runs, Report(i)
  PROVE  RetentionInv'
<1> DEFINE p == [NoProc EXCEPT !.pc = "work"]
           Gone(s) == Counts(i, s) /\ Outcome(i, s) = "deleted"
<1>0. /\ TypeOK /\ ProcInv /\ OpInv /\ HoldInv /\ SeenInv /\ PinInv /\ i \in Ids
      /\ proc[i] \in Process /\ op \in [Ids -> Op] /\ proc \in [Ids -> Process]
      /\ proc[i].pc = "sweep" /\ UNCHANGED <<disk, shared>>
      /\ runs \in Seq(Row) /\ DOMAIN runs = 1..Len(runs) /\ Len(runs) \in Nat /\ DOMAIN runs \subseteq Ids
  BY RowOf DEF RetentionInv, TypeOK, Report, Ids
<1>1. /\ op' = [s \in Ids |-> IF Counts(i, s) THEN After(op[s], Outcome(i, s)) ELSE op[s]]
      /\ runs' = [s \in DOMAIN runs |-> IF Gone(s) THEN [runs[s] EXCEPT !.folder = "pruned"] ELSE runs[s]]
      /\ proc' = [proc EXCEPT ![i] = p]
  BY DEF Report
<1>2. p \in Process /\ p.pc = "work" /\ p.ops = {} /\ p.at = 0 /\ p.results = {}
  BY NoProcIdle
<1> HIDE DEF p
<1>3. proc'[i] = p /\ \A j \in Ids : j # i => proc'[j] = proc[j]
  BY <1>0, <1>1
\* What counts was pending, in this process's hands and as it says.
<1>4. \A s \in Ids : Counts(i, s) =>
        /\ op[s].st \in Pending /\ op[s].to = i /\ s \in Recorded /\ runs[s].folder # "pruned"
        /\ Outcome(i, s) \in Outcomes
        /\ Outcome(i, s) = "deleted" => disk[s] = "nothing"
        /\ Outcome(i, s) = "skipped" /\ s \notin shared => disk[s] = "folder"
  <2> SUFFICES ASSUME NEW s \in Ids, Counts(i, s)
               PROVE  /\ op[s].st \in Pending /\ op[s].to = i /\ s \in Recorded /\ runs[s].folder # "pruned"
                      /\ Outcome(i, s) \in Outcomes
                      /\ Outcome(i, s) = "deleted" => disk[s] = "nothing"
                      /\ Outcome(i, s) = "skipped" /\ s \notin shared => disk[s] = "folder"
    OBVIOUS
  <2>1. PICK r \in proc[i].results : r.op = s /\ Outcome(i, s) = r.outcome
    BY DEF Counts, Outcome
  <2>2. Knows(i, s) /\ op[s].to = i
    BY <2>1 DEF Knows, Counts
  <2>3. op[s].st \in Pending
    BY <1>0, <2>2 DEF HoldInv
  <2>4. s \in Recorded /\ runs[s].folder # "pruned"
    BY <1>0, <2>3 DEF OpInv, Pending, Recorded
  <2>5. Outcome(i, s) \in Outcomes
    BY <1>0, <2>1 DEF Process, Outcomes
  <2>6. Seen(i, proc[i], disk)
    BY <1>0 DEF SeenInv
  <2> QED BY <2>1, <2>2, <2>3, <2>4, <2>5, <2>6 DEF Seen
<1>5. \A s \in Ids :
        /\ op'[s] \in Op
        /\ ~Counts(i, s) => op'[s] = op[s]
        /\ Counts(i, s) =>
             /\ op'[s].st # "none" /\ op'[s].to \in {0, i}
             /\ (op'[s].st = "done" <=> Gone(s)) /\ (op'[s].st = "abandoned" <=> Outcome(i, s) = "skipped")
             /\ op'[s].st = "abandoned" => op'[s].to = 0
  BY <1>0, <1>1, <1>4, AfterOf
<1>6. \A s \in DOMAIN runs :
        /\ runs'[s] \in Row /\ KeepsJob(s, runs'[s], runs[s]) /\ runs'[s].st = runs[s].st
        /\ runs'[s].folder = IF Gone(s) THEN "pruned" ELSE runs[s].folder
  <2> TAKE s \in DOMAIN runs
  <2>1. runs[s] \in Row /\ runs'[s] = IF Gone(s) THEN [runs[s] EXCEPT !.folder = "pruned"] ELSE runs[s]
    BY <1>1, RowOf
  <2> HIDE DEF Gone
  <2> QED BY <2>1 DEF Row, KeepsJob
<1>7. runs' \in Seq(Row) /\ DOMAIN runs' = DOMAIN runs /\ Len(runs') = Len(runs)
  <2>1. DOMAIN runs' = 1..Len(runs)
    BY <1>0, <1>1
  <2>2. runs' \in [1..Len(runs) -> Row]
    BY <1>0, <1>1, <1>6, <2>1
  <2> QED BY <1>0, <2>1, <2>2, IsSeq
<1>8. \A s \in DOMAIN runs : runs'[s].folder = "none" <=> runs[s].folder = "none"
  BY <1>0, <1>4, <1>6 DEF Recorded
<1>9. Recorded' = Recorded /\ \A s \in Ids : Older(runs', s) = Older(runs, s)
  BY <1>7, <1>8 DEF Recorded, Older
<1>10. TypeOK'
  <2>1. op' \in [Ids -> Op]
    BY <1>1, <1>5
  <2> QED BY <1>0, <1>1, <1>2, <1>7, <2>1 DEF TypeOK
<1>11. \A j, s \in Ids : (Holds(j, s)' => j # i /\ Holds(j, s)) /\ (Knows(j, s)' => j # i /\ Knows(j, s))
  BY <1>2, <1>3, IdsPositive DEF Holds, Knows
<1>12. ProcInv'
  <2> SUFFICES ASSUME NEW j \in Ids PROVE ProcInv!(j)'
    BY DEF ProcInv
  <2>1. ProcInv!(j)
    BY <1>0 DEF ProcInv
  <2>2. CASE j = i
    BY <1>0, <1>2, <1>3, <1>7, <2>2, IdsPositive DEF Sweeping
  <2>3. CASE j # i
    BY <1>0, <1>3, <1>7, <1>8, <2>1, <2>3
  <2> QED BY <2>2, <2>3
<1>13. OpInv'
  <2> SUFFICES ASSUME NEW s \in Ids PROVE OpInv!(s)'
    BY DEF OpInv
  <2>1. OpInv!(s)
    BY <1>0 DEF OpInv
  <2>2. CASE Counts(i, s)
    <3>1. s \in Recorded /\ Cardinality(Older(runs, s)) >= Keep
      BY <1>4, <2>1, <2>2 DEF Pending
    <3>2. s \in DOMAIN runs' /\ (runs'[s].folder = "pruned" <=> Gone(s))
      BY <1>4, <1>6, <1>7, <2>2, <3>1 DEF Recorded
    <3> HIDE DEF Gone
    <3>3. Gone(s) => disk[s] = "nothing"
      BY <1>4 DEF Gone
    <3> QED BY <1>0, <1>4, <1>5, <1>9, <2>2, <3>1, <3>2, <3>3
  <2>3. CASE ~Counts(i, s)
    <3>1. op'[s] = op[s] /\ (s \in DOMAIN runs => runs'[s].folder = runs[s].folder)
      BY <1>5, <1>6, <2>3
    <3> QED BY <1>0, <1>7, <1>9, <2>1, <3>1
  <2> QED BY <2>2, <2>3
<1>14. HoldInv'
  <2> SUFFICES ASSUME NEW j \in Ids, NEW s \in Ids PROVE HoldInv!(j, s)'
    BY DEF HoldInv
  <2>1. HoldInv!(j, s) /\ j # 0
    BY <1>0, IdsPositive DEF HoldInv
  <2>2. CASE Counts(i, s)
    <3>1. Holds(j, s)' => s \in shared'
      BY <1>0, <1>4, <1>11, <2>1, <2>2, IdsPositive
    <3> QED BY <1>5, <1>11, <2>1, <2>2, <3>1
  <2>3. CASE ~Counts(i, s)
    BY <1>0, <1>5, <1>11, <2>1, <2>3
  <2> QED BY <2>2, <2>3
<1>15. SeenInv'
  <2> SUFFICES ASSUME NEW j \in Ids PROVE Seen(j, proc[j], disk)'
    BY DEF SeenInv
  <2>1. CASE j = i
    BY <1>2, <1>3, <2>1 DEF Seen, SeenHere
  <2>2. CASE j # i
    <3>1. proc'[j] = proc[j] /\ Seen(j, proc[j], disk) /\ proc[j] \in Process
      BY <1>0, <1>3, <2>2 DEF SeenInv
    <3>2. SeenHere(proc[j], disk)'
      BY <1>0, <3>1 DEF Seen, SeenHere
    <3>3. \A r \in proc[j].results : r.op \in Ids
      BY <3>1 DEF Process
    <3>4. \A r \in proc[j].results : op'[r.op].to = j => op[r.op].to = j
      BY <1>5, <2>2, <3>3, IdsPositive
    <3> QED BY <1>0, <3>1, <3>2, <3>4 DEF Seen
  <2> QED BY <2>1, <2>2
<1>16. \A j \in DOMAIN runs : KeepsJob(j, runs'[j], runs[j])
  BY <1>6
<1>17. PinInv'
  <2> SUFFICES ASSUME NEW c \in DOMAIN runs', ~Terminal(c)'
               PROVE  (Reads(c) \subseteq runs[c].pins /\ \A s \in Reads(c) : op[s].st \in {"none", "abandoned"})'
    BY DEF PinInv
  <2>1. c \in DOMAIN runs /\ ~Terminal(c) /\ runs'[c].pins = runs[c].pins /\ Reads(c)' = Reads(c)
    BY <1>6, <1>7, <1>16, SameReads DEF Terminal, KeepsJob
  <2>2. Reads(c) \subseteq runs[c].pins /\ \A s \in Reads(c) : op[s].st \in {"none", "abandoned"}
    BY <1>0, <2>1 DEF PinInv
  <2>3. Reads(c) \subseteq Ids
    BY <2>1, ReadsIds
  <2>4. \A s \in Reads(c) : op'[s] = op[s]
    BY <1>4, <1>5, <2>2, <2>3 DEF Pending
  <2> QED BY <2>1, <2>2, <2>4
<1>18. EntryInv'
  BY <1>7, <1>16, SameEntries
<1> QED BY <1>10, <1>12, <1>13, <1>14, <1>15, <1>17, <1>18 DEF RetentionInv

(***************************************************************************)
(* The theorems.                                                           *)
(***************************************************************************)
LEMMA InitInv == Init => RetentionInv
<1> SUFFICES ASSUME Init PROVE RetentionInv
  OBVIOUS
<1>1. /\ runs = <<>> /\ DOMAIN runs = {} /\ Len(runs) = 0 /\ runs \in Seq(Row) /\ Recorded = {}
      /\ \A s \in Ids : op[s] = NoOp /\ disk[s] = "nothing" /\ proc[s] = NoProc
      /\ shared = {}
  BY DEF Init, Recorded
<1>2. /\ NoProc \in Process /\ NoProc.pc = "none" /\ NoProc.ops = {} /\ NoProc.at = 0 /\ NoProc.results = {}
      /\ NoOp \in Op /\ NoOp.st = "none" /\ NoOp.to = 0
  BY DEF NoProc, Process, NoOp, Op
<1>3. TypeOK
  BY <1>1, <1>2 DEF TypeOK, Init
<1>4. ProcInv /\ PinInv /\ EntryInv
  BY <1>1, <1>2, IdsPositive DEF ProcInv, PinInv, EntryInv, Sweeping
<1>5. OpInv
  BY <1>1, <1>2 DEF OpInv
<1>6. HoldInv /\ SeenInv
  BY <1>1, <1>2, IdsPositive, ZenonT(60) DEF HoldInv, Knows, Holds, SeenInv, Seen, SeenHere
<1> QED BY <1>3, <1>4, <1>5, <1>6 DEF RetentionInv

\* Stuttering keeps the invariant.
LEMMA StutterInv == RetentionInv /\ UNCHANGED vars => RetentionInv'
<1> SUFFICES ASSUME RetentionInv, UNCHANGED vars PROVE RetentionInv'
  OBVIOUS
<1>1. UNCHANGED <<runs, op, disk, proc, shared>>
  BY DEF vars
<1> QED BY <1>1, SameRuns, SameOp, SameProc, QuietStep

\* Every step keeps the invariant.
LEMMA NextInv == RetentionInv /\ [Next]_vars => RetentionInv'
<1> SUFFICES ASSUME RetentionInv, [Next]_vars PROVE RetentionInv'
  OBVIOUS
<1>1. CASE \E f \in Flows : Queue(f)
  BY <1>1, QueueKeeps
<1>2. ASSUME NEW i \in DOMAIN runs, Worker(i) PROVE RetentionInv'
  BY <1>2, CreateKeeps, RegisterCheckKeeps, RegisterKeeps, SeesKeeps, SeesTombstoneKeeps, GateKeeps,
     MoveAsideKeeps, GateTombstoneKeeps, RemoveKeeps, ReportKeeps, WorkKeeps, FinishKeeps, CrashKeeps
     DEF Worker
<1>3. ASSUME NEW r \in DOMAIN runs, Resume(r) \/ RetrySql(r) \/ RetryStarts(r) \/ RetryEnds(r) \/ Interrupt(r)
      PROVE  RetentionInv'
  BY <1>3, ResumeKeeps, RetrySqlKeeps, RetryStartsKeeps, RetryEndsKeeps, InterruptKeeps
<1>4. CASE UNCHANGED vars
  BY <1>4, StutterInv
<1> QED BY <1>1, <1>2, <1>3, <1>4 DEF Next

\* The invariant holds in every reachable state.
THEOREM RetentionInvariant == Spec => []RetentionInv
BY InitInv, NextInv, PTL DEF Spec

\* The variables keep their types.
THEOREM RetentionType == Spec => []TypeOK
<1>1. RetentionInv => TypeOK
  BY DEF RetentionInv
<1> QED BY <1>1, RetentionInvariant, PTL

\* Whatever number of folders is kept, the newest of them are on disk: an
\* operation is only ever recorded for a folder with that many newer ones, and
\* the number of newer recorded folders never falls (_assign_retention_ops).
THEOREM NewestTheorem == Spec => []NewestKept
<1>1. RetentionInv => NewestKept
  <2> SUFFICES ASSUME RetentionInv, NEW s \in Recorded,
                      Cardinality({q \in Recorded : q > s}) < Keep
               PROVE  disk[s] = "folder"
    BY DEF NewestKept
  <2>1. s \in Ids /\ OpInv
    BY RowOf DEF Recorded, RetentionInv
  <2>2. Older(runs, s) = {q \in Recorded : q > s}
    BY DEF Older, Recorded
  <2>3. Older(runs, s) \subseteq 1..Len(runs) /\ IsFiniteSet(1..Len(runs))
    <3>1. DOMAIN runs = 1..Len(runs) /\ Len(runs) \in Nat
      BY DEF RetentionInv, TypeOK
    <3> QED BY <3>1, FS_Interval DEF Older
  <2>4. Cardinality(Older(runs, s)) \in Nat
    BY <2>3, FS_Subset, FS_CardinalityType
  <2>5. op[s].st = "none"
    BY <2>1, <2>2, <2>4 DEF OpInv
  <2> QED BY <2>1, <2>5 DEF OpInv
<1> QED BY <1>1, RetentionInvariant, PTL

\* The server's record of a folder agrees with the disk, whatever crashed or
\* was reported late, unless two processes worked on the folder at once
\* (execute_ops, _apply_retention_results).
THEOREM AccountTheorem == Spec => []Accounted
<1>1. RetentionInv => Accounted
  <2> SUFFICES ASSUME RetentionInv, NEW s \in Recorded
               PROVE  /\ runs[s].folder = "pruned" => disk[s] = "nothing"
                      /\ s \notin shared =>
                           /\ disk[s] = "tombstone" => op[s].st \in Pending
                           /\ runs[s].folder = "present" /\ op[s].st \notin Pending => disk[s] = "folder"
    BY DEF Accounted
  <2>1. s \in Ids /\ s \in DOMAIN runs /\ OpInv /\ op[s] \in Op
    BY RowOf DEF Recorded, RetentionInv, TypeOK
  <2>2. op[s].st \in {"none", "issued", "quarantined", "abandoned", "done"}
    BY <2>1 DEF Op
  <2> QED BY <2>1, <2>2 DEF OpInv, Pending
<1> QED BY <1>1, RetentionInvariant, PTL

\* No step moves or deletes a folder that a live Resume reads from, nor the
\* folder of the run whose SQL is retried (_source_has_live_consumer,
\* _source_folder_unavailable).
THEOREM PinTheorem == Spec => PinnedKept
<1> DEFINE Kept == \A c \in DOMAIN runs : ~Terminal(c) =>
                     \A s \in Reads(c) \ GivenUp : disk[s] = "folder" => disk'[s] = "folder"
<1>1. ASSUME RetentionInv, [Next]_vars PROVE Kept
  <2> SUFFICES ASSUME NEW c \in DOMAIN runs, ~Terminal(c), NEW s \in Reads(c) \ GivenUp,
                      disk[s] = "folder", disk'[s] # "folder"
               PROVE  FALSE
    OBVIOUS
  <2>1. s \in Ids /\ disk \in [Ids -> {"nothing", "folder", "tombstone"}]
    BY <1>1, ReadsIds DEF RetentionInv, TypeOK
  <2>2. PICK i \in DOMAIN runs : proc[i].pc \in Sweeping /\ proc[i].at = s
    <3>1. PICK i \in DOMAIN runs : Create(i) \/ MoveAside(i) \/ Remove(i)
      BY <1>1, <2>1, ZenonT(60) DEF Next, Worker, vars, Queue, Resume, RetrySql, NewRun, RetryStarts, RetryEnds, Interrupt,
         RegisterCheck, Register, Sees, SeesTombstone, Gate, GateTombstone, Report, Work, Finish, Crash
    <3>2. i \in Ids
      BY <1>1, RowOf
    <3>3. ~Create(i)
      BY <2>1, <3>2 DEF Create
    <3>4. CASE MoveAside(i)
      BY <2>1, <3>2, <3>4 DEF MoveAside, Sweeping
    <3>5. CASE Remove(i)
      BY <2>1, <3>2, <3>5 DEF Remove, Sweeping
    <3> QED BY <3>1, <3>3, <3>4, <3>5
  <2>3. i \in Ids /\ Holds(i, s) /\ Knows(i, s)
    BY <1>1, <2>2, RowOf DEF Holds, Knows, Sweeping
  <2>4. op[s].st # "none" /\ (s \notin shared => op[s].st \in Pending)
    BY <1>1, <2>1, <2>3 DEF RetentionInv, HoldInv
  <2>5. op[s].st \in {"none", "abandoned"}
    BY <1>1 DEF RetentionInv, PinInv
  <2> QED BY <2>4, <2>5 DEF GivenUp, Pending
<1>2. RetentionInv /\ [Next]_vars => [Kept]_vars
  BY <1>1
<1> QED BY <1>2, RetentionInvariant, PTL DEF Spec, PinnedKept
=============================================================================
