------------------------- MODULE DirectPublishProofs -------------------------
(***************************************************************************)
(* While no journal write fails, DirectPublish implements AtomicBundle for *)
(* any runs, bundles and faults: whatever the publisher was doing when it  *)
(* died, Recovered moves in the steps of AtomicBundle only.                *)
(***************************************************************************)
EXTENDS DirectPublish, TLAPS

HasFile(q, f) == temp[q][f] # Nothing \/ backup[q][f] # Nothing
Footprint(q) == journal[q] # Nothing \/ scratch[q] # Nothing \/ \E f \in Files : HasFile(q, f)

WriteSteps == {"write", "flush", "rename"}
OwnSteps == WriteSteps \cup {"copy", "fill", "swap", "install", "commit"}
LoopSteps == {"undo", "drop", "clean"}
ReconcileSteps == {"load"} \cup LoopSteps
Size(r) == Len(Bundle[r])
Entry(r, i) == Bundle[r][i]

\* Where the publisher may be, and with which entry in hand.
Control ==
  /\ pub.run = NoRun <=> pub.step = "idle"
  /\ pub.run # NoRun => outcome[pub.run] = "open"
  /\ pub.step \in ReconcileSteps =>
       pub.of \in Runs /\ (IF pub.why = "target" THEN pub.of # pub.run ELSE pub.of = pub.run)
  /\ pub.step \in WriteSteps =>
       /\ pub.next \in {"copy", "swap", "install", "commit", "load"}
       /\ pub.next = "copy" <=> pub.record.state = "preparing"
       /\ pub.next = "load" <=> pub.record.state = "committed"
       /\ pub.next = "load" => pub.of = pub.run /\ pub.why = "cleanup"
  /\ pub.step \in {"copy", "fill"} => pub.record.state = "preparing"
  /\ pub.step \in {"swap", "install", "commit"} => pub.record.state = "prepared"
  /\ pub.step \in OwnSteps => pub.at \in 1..Size(pub.run)
  /\ pub.step = "undo" => pub.at <= Size(pub.of)
  /\ pub.step = "drop" => pub.at \in 1..Size(pub.of)
  /\ pub.step = "clean" => pub.at \in 1..(Size(pub.of) + 1)

\* One run at a time has files of its own in the folder.
Owning == pub.step \in OwnSteps \/ (pub.step \in ReconcileSteps /\ pub.why # "target")
Visiting == pub.step \in {"promote",
     "reconcile"} \/ (pub.step \in ReconcileSteps /\ pub.why = "target")
Isolation ==
  /\ \A p, q \in Runs : Footprint(p) /\ Footprint(q) => p = q
  /\ Owning => \A q \in Runs : Footprint(q) => q = pub.run
  /\ Visiting => ~Footprint(pub.run)
  /\ Visiting /\ pub.step # "promote" => \A q \in Runs : scratch[q] = Nothing
  /\ pub.step = "check" => \A q \in Runs : ~Footprint(q)
  /\ \A q \in Runs : outcome[q] = "none" => ~Footprint(q)

\* What a journal vouches for.
Journals ==
  /\ \A q \in Runs : journal[q] # Torn
  /\ \A q \in Runs, f \in Files : HasFile(q, f) => journal[q] # Nothing /\ f \in FilesOf(q)
  /\ Owning => scratch[pub.run] = IF pub.step = "flush" THEN Torn ELSE
                                   IF pub.step = "rename" THEN pub.record ELSE Nothing
  /\ pub.step \in OwnSteps =>
       IF pub.step \in WriteSteps /\ pub.record.state = "preparing"
       THEN journal[pub.run] = Nothing
       ELSE /\ journal[pub.run] # Nothing
            /\ journal[pub.run].had = pub.record.had
            /\ journal[pub.run].state # "committed"
  /\ pub.step \in {"undo",
       "drop"} => journal[pub.of] # Nothing /\ journal[pub.of].state # "committed"
  /\ pub.step = "clean" => journal[pub.of] # Nothing /\ journal[pub.of].state = "committed"

\* A file of an undecided bundle: moved aside, untouched, or new.
EntrySound(q, f, had) ==
  IF backup[q][f] # Nothing THEN f \in had /\ dest[f] \in {Nothing, q}
  ELSE IF f \in had THEN dest[f] # Nothing ELSE dest[f] \in {Nothing, q}
Entries ==
  /\ \A q \in Runs : Pending(q) => \A f \in FilesOf(q) : EntrySound(q, f, Decisive(q).had)
  /\ pub.step \in OwnSteps => \A f \in FilesOf(pub.run) : EntrySound(pub.run, f, pub.record.had)

\* How far the publication is: installed entries, then staged ones.
Swapping == pub.step \in {"swap",
     "install"} \/ (pub.step \in WriteSteps /\ pub.next \in {"swap", "install"})
Aside == pub.step = "install" \/ (pub.step \in WriteSteps /\ pub.next = "install")
Complete == pub.step = "commit" \/ (pub.step \in WriteSteps /\ pub.next \in {"commit", "load"})
Staged(r, i) ==
  /\ temp[r][Entry(r, i)] = r
  /\ backup[r][Entry(r, i)] = Nothing
  /\ Entry(r, i) \notin pub.record.had => dest[Entry(r, i)] = Nothing
Staging == pub.step \in {"copy", "fill"} \/ (pub.step \in WriteSteps /\ pub.next = "copy")
Unmoved(r, i) ==
  /\ backup[r][Entry(r, i)] = Nothing
  /\ Entry(r, i) \notin pub.record.had => dest[Entry(r, i)] = Nothing
Progress ==
  /\ Staging => \A i \in 1..Size(pub.run) :
       Unmoved(pub.run, i) /\ (i < pub.at => temp[pub.run][Entry(pub.run, i)] = pub.run)
  /\ Swapping => \A i \in 1..Size(pub.run) :
       /\ i < pub.at => dest[Entry(pub.run, i)] = pub.run
       /\ i > pub.at => Staged(pub.run, i)
  /\ Swapping =>
       /\ temp[pub.run][Entry(pub.run, pub.at)] = pub.run
       /\ IF Aside THEN dest[Entry(pub.run, pub.at)] = Nothing ELSE Unmoved(pub.run, pub.at)
  /\ Complete => \A i \in 1..Size(pub.run) : dest[Entry(pub.run, i)] = pub.run

\* How far a rollback or a cleanup is.
Undone(q, i) ==
  /\ backup[q][Entry(q, i)] = Nothing
  /\ Entry(q, i) \notin journal[q].had => dest[Entry(q, i)] = Nothing
Loops ==
  /\ pub.step \in {"undo", "drop"} /\ ~pub.failed => \A i \in 1..Size(pub.of) :
       i > pub.at => Undone(pub.of, i) /\ temp[pub.of][Entry(pub.of, i)] = Nothing
  /\ pub.step = "drop" => Undone(pub.of, pub.at)
  /\ pub.step = "clean" => \A i \in 1..Size(pub.of) :
       i < pub.at => ~HasFile(pub.of, Entry(pub.of, i))

PublishInv == TypeOK /\ Control /\ Isolation /\ Journals /\ Entries /\ Progress /\ Loops

-----------------------------------------------------------------------------
\* Facts about bundles, journals and publishers.

\* A bundle lists files of the folder, each of them once.
LEMMA BundleFacts ==
  \A r \in Runs :
    /\ Len(Bundle[r]) \in Nat /\ Len(Bundle[r]) >= 1
    /\ \A i \in 1..Len(Bundle[r]) : Bundle[r][i] \in Files /\ Bundle[r][i] \in FilesOf(r)
    /\ \A i, j \in 1..Len(Bundle[r]) : Bundle[r][i] = Bundle[r][j] => i = j
    /\ \A f \in FilesOf(r) : f \in Files /\ \E i \in 1..Len(Bundle[r]) : f = Bundle[r][i]
<1> SUFFICES ASSUME NEW r \in Runs PROVE
    /\ Len(Bundle[r]) \in Nat /\ Len(Bundle[r]) >= 1
    /\ \A i \in 1..Len(Bundle[r]) : Bundle[r][i] \in Files /\ Bundle[r][i] \in FilesOf(r)
    /\ \A i, j \in 1..Len(Bundle[r]) : Bundle[r][i] = Bundle[r][j] => i = j
    /\ \A f \in FilesOf(r) : f \in Files /\ \E i \in 1..Len(Bundle[r]) : f = Bundle[r][i]
  OBVIOUS
<1>1. Bundle[r] \in Seq(Files) /\ Bundle[r] # <<>>
  BY PublishShape
<1>2. DOMAIN Bundle[r] = 1..Len(Bundle[r]) /\ Len(Bundle[r]) \in Nat /\ Len(Bundle[r]) >= 1
  BY <1>1
<1>3. \A i \in 1..Len(Bundle[r]) : Bundle[r][i] \in Files
  BY <1>1
<1>4. \A i, j \in 1..Len(Bundle[r]) : Bundle[r][i] = Bundle[r][j] => i = j
  BY <1>2, PublishShape
<1>5. FilesOf(r) = {Bundle[r][i] : i \in 1..Len(Bundle[r])}
  BY <1>2 DEF FilesOf
<1> QED
  BY <1>2, <1>3, <1>4, <1>5

\* The fields of a publisher that has not started.
LEMMA IdleFacts ==
  /\ IdlePublisher \in Publisher /\ IdlePublisher.run = NoRun /\ IdlePublisher.step = "idle"
  /\ IdlePublisher.at = 0 /\ IdlePublisher.why = "target" /\ IdlePublisher.of = NoRun
BY DEF IdlePublisher, NoRecord, Publisher, JournalRecord, Step

\* A journal changes its state and keeps had_destination.
LEMMA RecordFacts ==
  ASSUME NEW rec \in JournalRecord, NEW s \in {"preparing", "prepared", "committed"}
  PROVE  LET new == [rec EXCEPT !.state = s] IN
           new \in JournalRecord /\ new.state = s /\ new.had = rec.had
BY DEF JournalRecord

\* A publisher on its way into _write_journal.
LEMMA WritingFacts ==
  ASSUME TypeOK, NEW rec \in JournalRecord, NEW s \in Step, NEW i \in Nat
  PROVE  LET p == Writing(rec, s, i) IN
           /\ p \in Publisher /\ p.run = pub.run /\ p.step = "write" /\ p.record = rec
           /\ p.next = s /\ p.at = i /\ p.of = pub.of /\ p.why = pub.why /\ p.failed = pub.failed
BY ZenonT(60) DEF Writing, TypeOK, Publisher, Step

\* A publisher that moves to another step stays a publisher.
LEMMA PubStep == ASSUME TypeOK, NEW s \in Step PROVE [pub EXCEPT !.step = s] \in Publisher
BY DEF TypeOK, Publisher, Step
\* A publisher in its except clause.
LEMMA RescueFacts ==
  ASSUME TypeOK, pub.run # NoRun
  PROVE  /\ Rescue \in Publisher /\ Rescue.run = pub.run /\ Rescue.step = "load"
         /\ Rescue.of = pub.run /\ Rescue.why = "rescue" /\ Rescue.record = pub.record
BY ZenonT(60) DEF Rescue, TypeOK, Publisher, Step
\* The three callers reconcile_journal can raise into.
LEMMA RaisesForms ==
  ASSUME Raises, pub.why \in {"target", "cleanup", "rescue"}
  PROVE  \/ pub.why = "target" /\ Ends("refused")
         \/ pub.why = "cleanup" /\ Goes(Rescue)
         \/ pub.why = "rescue" /\ Ends("stuck")
BY DEF Raises
\* The three callers reconcile_journal can return to.
LEMMA RemoveForms ==
  ASSUME RemoveJournal, pub.why \in {"target", "cleanup", "rescue"}
  PROVE  \/ pub.why = "target" /\ Goes([pub EXCEPT !.step = "reconcile"])
         \/ pub.why = "cleanup" /\ Ends("published")
         \/ pub.why = "rescue" /\ Ends("restored")
BY DEF RemoveJournal

\* What an OSError does while journal writes succeed: to the except clause, to the
\* next entry, or out of reconcile_journal.
LEMMA FailureForms ==
  ASSUME OperationFails, "journal" \notin Faults, TypeOK, Control
  PROVE  \/ pub.step \in {"copy", "fill", "swap", "install"} /\ Goes(Rescue)
         \/ pub.step \in {"undo", "drop"} /\ pub.at > 0 /\
              Goes([pub EXCEPT !.step = "undo", !.at = @ - 1, !.failed = TRUE])
         \/ pub.step \in {"undo", "clean"} /\ Raises
<1> DEFINE fault == FaultOf(pub.step)
<1>1. CASE pub.step \in {"copy", "fill"}
  <2>1. fault = "copy"
    BY <1>1 DEF FaultOf
  <2> QED
    BY <1>1, <2>1 DEF OperationFails
<1>2. CASE pub.step \in {"swap", "install"}
  <2>1. fault = "swap"
    BY <1>2 DEF FaultOf
  <2> QED
    BY <1>2, <2>1 DEF OperationFails
<1>3. CASE pub.step \in {"undo", "drop"}
  <2>1. fault = "undo"
    BY <1>3 DEF FaultOf
  <2>2. CASE pub.at > 0
    BY <1>3, <2>1, <2>2 DEF OperationFails
  <2>3. CASE ~(pub.at > 0)
    <3>1. pub.step = "undo"
      BY <1>3, <2>3 DEF Control
    <3> QED
      BY <3>1, <2>1, <2>3 DEF OperationFails
  <2> QED
    BY <2>2, <2>3
<1>4. CASE pub.step = "clean"
  <2>1. fault = "cleanup"
    BY <1>4 DEF FaultOf
  <2> QED
    BY <1>4, <2>1 DEF OperationFails
<1>5. CASE pub.step \in WriteSteps
  <2>1. fault = "journal"
    BY <1>5 DEF FaultOf, WriteSteps
  <2> QED
    BY <1>5, <2>1 DEF OperationFails, Mismatch, At, WriteSteps
<1>6. CASE pub.step \notin {"copy", "fill", "swap", "install", "undo", "drop", "clean",
     "write", "flush", "rename"}
  <2>1. fault = "none"
    BY <1>6 DEF FaultOf
  <2> QED
    BY <1>6, <2>1, PublishShape DEF OperationFails, Mismatch, At
<1> QED
  BY <1>1, <1>2, <1>3, <1>4, <1>5, <1>6 DEF WriteSteps

-----------------------------------------------------------------------------
\* The invariant, step by step.

\* A publication may end anywhere: what it leaves on disk is sound.
LEMMA EndsKeeps ==
  ASSUME PublishInv, pub.run # NoRun, UNCHANGED disk,
         NEW o \in {"published", "restored", "stuck", "refused", "failed", "lost"}, Ends(o)
  PROVE  PublishInv'
<1> USE DEF Ends, disk, WriteSteps, OwnSteps, LoopSteps, ReconcileSteps
<1>types. TypeOK'
  BY IdleFacts DEF PublishInv, TypeOK, Publisher
<1>control. Control'
  BY IdleFacts DEF Control
<1>isolation. Isolation'
  BY IdleFacts DEF PublishInv, Isolation, Owning, Visiting, Footprint, HasFile
<1>journals. Journals'
  BY IdleFacts DEF PublishInv, Journals, Owning, HasFile
<1>entries. Entries'
  <2>1. ASSUME NEW q \in Runs, Pending(q)' PROVE \A f \in FilesOf(q) : EntrySound(q, f,
       Decisive(q).had)'
    <3>1. CASE q = pub.run /\ pub.step = "rename"
      BY <2>1, <3>1, PublishNulls, NullJournals, IdleFacts DEF PublishInv, Entries, EntrySound,
           Pending, Decisive, IsJournal, Journals, Owning, TypeOK, Publisher
    <3>2. CASE ~(q = pub.run /\ pub.step = "rename")
      <4>1. Decisive(q)' = Decisive(q)
        BY <3>2, IdleFacts, PublishNulls DEF PublishInv, Decisive, IsJournal, Journals,
             Control, Isolation, Owning, Visiting, Footprint, TypeOK, Publisher, Step
      <4> QED
        BY <2>1, <4>1 DEF PublishInv, Entries, EntrySound, Pending
    <3> QED
      BY <3>1, <3>2
  <2> QED
    BY <2>1, IdleFacts DEF Entries
<1>progress. Progress'
  BY IdleFacts DEF Progress, Swapping, Complete, Staging
<1>loops. Loops'
  BY IdleFacts DEF Loops
<1> QED
  BY <1>types, <1>control, <1>isolation, <1>journals, <1>entries, <1>progress, <1>loops
       DEF PublishInv

\* The except clause may be entered from every step after the first journal write.
LEMMA RescueKeeps ==
  ASSUME PublishInv, pub.run # NoRun, UNCHANGED disk, Goes(Rescue), Owning,
       pub.step \notin {"flush", "rename"}
  PROVE  PublishInv'
<1> USE DEF Goes, disk, WriteSteps, OwnSteps
<1>types. TypeOK'
  BY RescueFacts DEF PublishInv, TypeOK
<1>control. Control'
  BY RescueFacts DEF PublishInv, Control, Publisher
<1>isolation. Isolation'
  BY RescueFacts DEF PublishInv, Isolation, Visiting, Footprint, HasFile
<1>journals. Journals'
  BY RescueFacts DEF PublishInv, Journals, HasFile
<1>entries. Entries'
  BY RescueFacts DEF PublishInv, Entries, EntrySound, Pending, Decisive, IsJournal
<1>progress. Progress'
  BY RescueFacts DEF PublishInv, Progress, Swapping, Complete, Staging
<1>loops. Loops'
  BY RescueFacts DEF PublishInv, Loops
<1> QED
  BY <1>types, <1>control, <1>isolation, <1>journals, <1>entries, <1>progress, <1>loops
       DEF PublishInv

\* StartPublish preserves the invariant.
LEMMA StepStartPublish ==
  ASSUME PublishInv, NEW r \in Runs, StartPublish(r)
  PROVE  PublishInv'
<1> USE DEF disk, WriteSteps, OwnSteps, LoopSteps, ReconcileSteps
<1>next. pub' \in Publisher /\ pub'.run = r /\ pub'.step = "promote" /\ pub'.why = "target"
  BY IdleFacts DEF StartPublish, Publisher, Step
<1>types. TypeOK'
  BY <1>next DEF PublishInv, StartPublish, TypeOK
<1>control. Control'
  BY PublishNulls DEF PublishInv, StartPublish, Control, TypeOK
<1>isolation. Isolation'
  BY DEF PublishInv, StartPublish, Isolation, Owning, Footprint, HasFile
<1>journals. Journals'
  BY DEF PublishInv, StartPublish, Journals, Owning, HasFile
<1>entries. Entries'
  BY BundleFacts, PublishNulls, IdleFacts, <1>next DEF PublishInv, StartPublish, Entries,
       EntrySound, Pending, Decisive, IsJournal, Isolation, Journals, Control, Footprint,
            HasFile
<1>progress. Progress'
  BY DEF StartPublish, Progress, Swapping, Complete, Staging
<1>loops. Loops'
  BY DEF StartPublish, Loops
<1> QED
  BY <1>types, <1>control, <1>isolation, <1>journals, <1>entries, <1>progress, <1>loops
       DEF PublishInv

\* ReconcileNext preserves the invariant.
LEMMA StepReconcileNext ==
  ASSUME PublishInv, NEW r \in Runs, ReconcileNext(r)
  PROVE  PublishInv'
<1> USE DEF At, disk, Unreconciled, WriteSteps, OwnSteps
<1>next. /\ pub' \in Publisher /\ pub'.run = pub.run /\ pub'.step = "load"
      /\ pub'.of = r /\ pub'.why = "target"
  BY DEF ReconcileNext, PublishInv, TypeOK, Publisher, Step
<1>types. TypeOK'
  BY <1>next DEF PublishInv, ReconcileNext, TypeOK
<1>control. Control'
  BY <1>next DEF PublishInv, ReconcileNext, Control, Isolation, Visiting, Footprint, TypeOK,
       Publisher
<1>isolation. Isolation'
  BY DEF PublishInv, ReconcileNext, Isolation, Owning, Visiting, Footprint, HasFile
<1>journals. Journals'
  BY DEF PublishInv, ReconcileNext, Journals, Owning, HasFile
<1>entries. Entries'
  BY DEF PublishInv, ReconcileNext, Entries, EntrySound, Pending, Decisive
<1>progress. Progress'
  BY DEF ReconcileNext, Progress, Swapping, Complete, Staging
<1>loops. Loops'
  BY DEF ReconcileNext, Loops
<1> QED
  BY <1>types, <1>control, <1>isolation, <1>journals, <1>entries, <1>progress, <1>loops
       DEF PublishInv

\* Promote preserves the invariant.
LEMMA StepPromote ==
  ASSUME PublishInv, NEW r \in Runs, Promote(r)
  PROVE  PublishInv'
<1> USE DEF At, Promotable, WriteSteps
<1>types. TypeOK'
  BY DEF PublishInv, Promote, TypeOK, JournalFile
<1>control. Control'
  BY DEF PublishInv, Promote, Control
<1>isolation. Isolation'
  BY DEF PublishInv, Promote, Isolation, Owning, Visiting, Footprint, HasFile
<1>journals. Journals'
  BY DEF PublishInv, Promote, Journals, Owning, HasFile
<1>entries. Entries'
  <2>1. pub.run # r
    BY DEF Promote, PublishInv, Isolation, Visiting, Footprint
  <2>2. ASSUME NEW q \in Runs PROVE Decisive(q)' = Decisive(q)
    BY <2>1, PublishNulls, NullJournals DEF Promote, PublishInv, Decisive, IsJournal, TypeOK,
         JournalFile, Isolation, Footprint
  <2> QED
    BY <2>2 DEF PublishInv, Promote, Entries, EntrySound, Pending
<1>progress. Progress'
  BY DEF Promote, Progress, Swapping, Complete, Staging
<1>loops. Loops'
  BY DEF Promote, Loops
<1> QED
  BY <1>types, <1>control, <1>isolation, <1>journals, <1>entries, <1>progress, <1>loops
       DEF PublishInv

\* Promoted preserves the invariant.
LEMMA StepPromoted ==
  ASSUME PublishInv, Promoted
  PROVE  PublishInv'
<1> USE DEF At, Goto, disk, Promotable, WriteSteps, OwnSteps, LoopSteps, ReconcileSteps
<1>types. TypeOK'
  BY PubStep DEF PublishInv, Promoted, TypeOK, Step
<1>control. Control'
  BY DEF PublishInv, Promoted, Control
<1>isolation. Isolation'
  BY DEF PublishInv, Promoted, Isolation, Owning, Visiting, Footprint, HasFile
<1>journals. Journals'
  BY DEF PublishInv, Promoted, Journals, HasFile, TypeOK, Publisher
<1>entries. Entries'
  BY DEF PublishInv, Promoted, Entries, EntrySound, Pending, Decisive
<1>progress. Progress'
  BY DEF Promoted, Progress, Swapping, Complete, Staging
<1>loops. Loops'
  BY DEF Promoted, Loops
<1> QED
  BY <1>types, <1>control, <1>isolation, <1>journals, <1>entries, <1>progress, <1>loops
       DEF PublishInv

\* Reconciled preserves the invariant.
LEMMA StepReconciled ==
  ASSUME PublishInv, Reconciled
  PROVE  PublishInv'
<1> USE DEF At, Goto, disk, Unreconciled, WriteSteps, OwnSteps, LoopSteps, ReconcileSteps
<1>types. TypeOK'
  BY PubStep DEF PublishInv, Reconciled, TypeOK, Step
<1>control. Control'
  BY DEF PublishInv, Reconciled, Control
<1>isolation. Isolation'
  BY DEF PublishInv, Reconciled, Isolation, Visiting, Footprint, HasFile, Journals
<1>journals. Journals'
  BY DEF PublishInv, Reconciled, Journals, Owning, HasFile
<1>entries. Entries'
  BY DEF PublishInv, Reconciled, Entries, EntrySound, Pending, Decisive
<1>progress. Progress'
  BY DEF Reconciled, Progress, Swapping, Complete, Staging
<1>loops. Loops'
  BY DEF Reconciled, Loops
<1> QED
  BY <1>types, <1>control, <1>isolation, <1>journals, <1>entries, <1>progress, <1>loops
       DEF PublishInv

\* WriteScratch preserves the invariant.
LEMMA StepWriteScratch ==
  ASSUME PublishInv, WriteScratch
  PROVE  PublishInv'
<1> USE DEF At, Goto, WriteSteps, OwnSteps, LoopSteps, ReconcileSteps
<1>ids. pub.run \in Runs
  BY DEF PublishInv, TypeOK, Publisher, WriteScratch
<1>types. TypeOK'
  <2>1. pub' \in Publisher
    BY PubStep DEF PublishInv, WriteScratch, Step
  <2>2. pub.record \in JournalRecord
    BY DEF PublishInv, TypeOK, Publisher
  <2> QED
    BY <2>1, <2>2, <1>ids DEF PublishInv, WriteScratch, TypeOK, JournalFile
<1>control. Control'
  BY DEF PublishInv, WriteScratch, Control
<1>isolation. Isolation'
  BY DEF PublishInv, WriteScratch, Isolation, Control, Owning, Visiting, Footprint, HasFile
<1>journals. Journals'
  BY DEF PublishInv, WriteScratch, Journals, HasFile, TypeOK, Publisher
<1>entries. Entries'
  BY DEF PublishInv, WriteScratch, Entries, EntrySound, Pending, Decisive, IsJournal
<1>progress. Progress'
  BY DEF PublishInv, WriteScratch, Progress, Swapping, Aside, Complete, Staged, Staging, Unmoved
<1>loops. Loops'
  BY DEF WriteScratch, Loops
<1> QED
  BY <1>types, <1>control, <1>isolation, <1>journals, <1>entries, <1>progress, <1>loops
       DEF PublishInv

\* FlushScratch preserves the invariant.
LEMMA StepFlushScratch ==
  ASSUME PublishInv, FlushScratch
  PROVE  PublishInv'
<1> USE DEF At, Goto, WriteSteps, OwnSteps, LoopSteps, ReconcileSteps
<1>ids. pub.run \in Runs
  BY DEF PublishInv, TypeOK, Publisher, FlushScratch
<1>types. TypeOK'
  <2>1. pub' \in Publisher
    BY PubStep DEF PublishInv, FlushScratch, Step
  <2>2. pub.record \in JournalRecord
    BY DEF PublishInv, TypeOK, Publisher
  <2> QED
    BY <2>1, <2>2, <1>ids DEF PublishInv, FlushScratch, TypeOK, JournalFile
<1>control. Control'
  BY DEF PublishInv, FlushScratch, Control
<1>isolation. Isolation'
  BY DEF PublishInv, FlushScratch, Isolation, Owning, Visiting, Footprint, HasFile, Journals
<1>journals. Journals'
  BY DEF PublishInv, FlushScratch, Journals, HasFile, TypeOK, Publisher
<1>entries. Entries'
  BY DEF PublishInv, FlushScratch, Entries, EntrySound, Pending, Decisive, Isolation, Journals,
       Control, Owning, Footprint, HasFile
<1>progress. Progress'
  BY DEF PublishInv, FlushScratch, Progress, Swapping, Aside, Complete, Staged, Staging, Unmoved
<1>loops. Loops'
  BY DEF FlushScratch, Loops
<1> QED
  BY <1>types, <1>control, <1>isolation, <1>journals, <1>entries, <1>progress, <1>loops
       DEF PublishInv

\* RenameScratch preserves the invariant.
LEMMA StepRenameScratch ==
  ASSUME PublishInv, RenameScratch
  PROVE  PublishInv'
<1> USE DEF At, Goto, WriteSteps, OwnSteps, LoopSteps, ReconcileSteps
<1>ids. pub.run \in Runs
  BY DEF PublishInv, TypeOK, Publisher, RenameScratch
<1>types. TypeOK'
  <2>1. pub' \in Publisher
    BY PubStep DEF PublishInv, RenameScratch, TypeOK, Publisher
  <2>2. pub.record \in JournalRecord
    BY DEF PublishInv, TypeOK, Publisher
  <2> QED
    BY <2>1, <2>2, <1>ids DEF PublishInv, RenameScratch, TypeOK, JournalFile
<1>control. Control'
  BY DEF PublishInv, RenameScratch, Control, TypeOK, Publisher, JournalRecord
<1>isolation. Isolation'
  BY DEF PublishInv, RenameScratch, Isolation, Control, Owning, Visiting, Footprint, HasFile
<1>journals. Journals'
  BY NullJournals DEF PublishInv, RenameScratch, Journals, Control, Owning, HasFile, TypeOK,
       Publisher
<1>entries. Entries'
  BY DEF PublishInv, RenameScratch, Entries, EntrySound, Pending, Decisive, Isolation,
       Journals, Control, Owning, Footprint
<1>progress. Progress'
  BY DEF PublishInv, RenameScratch, Progress, Swapping, Aside, Complete, Staged, Staging,
       Unmoved, Control
<1>loops. Loops'
  BY DEF PublishInv, RenameScratch, Loops, Control
<1> QED
  BY <1>types, <1>control, <1>isolation, <1>journals, <1>entries, <1>progress, <1>loops
       DEF PublishInv

\* CopyStarts preserves the invariant.
LEMMA StepCopyStarts ==
  ASSUME PublishInv, CopyStarts
  PROVE  PublishInv'
<1> USE DEF At, Goto, Here, WriteSteps, OwnSteps, LoopSteps, ReconcileSteps, Size
<1>ids. pub.run \in Runs
  BY DEF PublishInv, TypeOK, Publisher, CopyStarts
<1>here. Here \in Files /\ Here \in FilesOf(pub.run) /\ pub.at \in 1..Len(Bundle[pub.run])
  BY <1>ids, BundleFacts DEF PublishInv, Control, CopyStarts
<1>types. TypeOK'
  <2>1. pub' \in Publisher
    BY PubStep DEF PublishInv, CopyStarts, Step
  <2>2. pub.record \in JournalRecord
    BY DEF PublishInv, TypeOK, Publisher
  <2> QED
    BY <2>1, <2>2, <1>ids, <1>here DEF PublishInv, CopyStarts, TypeOK, JournalFile
<1>control. Control'
  BY DEF PublishInv, CopyStarts, Control
<1>isolation. Isolation'
  BY DEF PublishInv, CopyStarts, Isolation, Visiting, Footprint, HasFile, Journals, TypeOK,
       Publisher
<1>journals. Journals'
  BY BundleFacts DEF PublishInv, CopyStarts, Journals, Control, Owning, HasFile
<1>entries. Entries'
  BY DEF PublishInv, CopyStarts, Entries, EntrySound, Pending, Decisive
<1>progress. Progress'
  BY PublishNulls DEF PublishInv, CopyStarts, Progress, Swapping, Complete, Staging, Unmoved,
       TypeOK
<1>loops. Loops'
  BY DEF CopyStarts, Loops
<1> QED
  BY <1>types, <1>control, <1>isolation, <1>journals, <1>entries, <1>progress, <1>loops
       DEF PublishInv

\* Only a destination the journal knows of is moved aside.
LEMMA StepBackUp ==
  ASSUME PublishInv, BackUp
  PROVE  PublishInv'
<1> USE DEF At, Here, WriteSteps, OwnSteps, LoopSteps, ReconcileSteps, Size, Entry
<1>ids. pub.run \in Runs /\ pub.at \in Nat /\ pub.record \in JournalRecord
  BY DEF PublishInv, TypeOK, Publisher, BackUp
<1>here. Here \in Files /\ Here \in FilesOf(pub.run) /\ pub.at \in 1..Len(Bundle[pub.run])
  BY <1>ids, BundleFacts DEF PublishInv, Control, BackUp
<1>next. /\ pub' \in Publisher /\ pub'.run = pub.run /\ pub'.step = "write"
      /\ pub'.next = "install" /\ pub'.at = pub.at /\ pub'.of = pub.of /\ pub'.why = pub.why
      /\ pub'.record = pub.record
  BY <1>ids, WritingFacts DEF PublishInv, BackUp, Step
<1>types. TypeOK'
  BY <1>next, <1>ids, <1>here DEF PublishInv, BackUp, TypeOK, Content
<1>control. Control'
  BY SMTT(60) DEF PublishInv, BackUp, Writing, Control
<1>isolation. Isolation'
  BY SMTT(60) DEF PublishInv, BackUp, Writing, Isolation, Visiting, Footprint, HasFile, Journals,
       TypeOK, Publisher
<1>journals. Journals'
  BY BundleFacts DEF PublishInv, BackUp, Writing, Journals, Control, Owning, HasFile
<1>entries. Entries'
  <2>1. ASSUME NEW f \in FilesOf(pub.run) PROVE EntrySound(pub.run, f, pub.record.had)'
    <3>1. Here \in pub.record.had
      BY <1>ids, <1>here DEF BackUp, PublishInv, Progress, Swapping, Unmoved
    <3>2. /\ dest'[f] = IF f = Here THEN Nothing ELSE dest[f]
          /\ backup'[pub.run][f] = IF f = Here THEN dest[Here] ELSE backup[pub.run][f]
      BY <1>ids, <1>here, BundleFacts DEF BackUp, PublishInv, TypeOK
    <3>3. EntrySound(pub.run, f, pub.record.had)
      BY DEF BackUp, PublishInv, Entries
    <3>4. dest[Here] # Nothing /\ pub'.run = pub.run /\ pub'.record = pub.record
      BY <1>next DEF BackUp
    <3> QED
      BY SMTT(60), <3>1, <3>2, <3>3, <3>4 DEF EntrySound
  <2>2. \A q \in Runs : Pending(q)' => q = pub.run /\ Decisive(q).had' = pub.record.had
    BY SMTT(60), <1>ids, <1>next, PublishNulls, NullJournals DEF BackUp, PublishInv, Pending, Decisive,
         IsJournal, Isolation, Owning, Footprint, Journals
  <2> QED
    BY <2>1, <2>2, <1>next DEF Entries, EntrySound
<1>progress. Progress'
  BY SMTT(60), BundleFacts DEF PublishInv, BackUp, Writing, Progress, Swapping, Aside, Complete, Staged,
       Staging, Control, TypeOK, Publisher
<1>loops. Loops'
  BY DEF BackUp, Writing, Loops
<1> QED
  BY <1>types, <1>control, <1>isolation, <1>journals, <1>entries, <1>progress, <1>loops
       DEF PublishInv

\* The installed prefix grows by the entry in hand.
LEMMA StepInstall ==
  ASSUME PublishInv, Install
  PROVE  PublishInv'
<1> USE DEF At, Here, Last, WriteSteps, OwnSteps, LoopSteps, ReconcileSteps, Size, Entry
<1>ids. pub.run \in Runs /\ pub.at \in Nat /\ pub.record \in JournalRecord
  BY DEF PublishInv, TypeOK, Publisher, Install
<1>here. Here \in Files /\ Here \in FilesOf(pub.run) /\ pub.at \in 1..Len(Bundle[pub.run])
  BY <1>ids, BundleFacts DEF PublishInv, Control, Install
<1>next. /\ pub' \in Publisher /\ pub'.run = pub.run /\ pub'.step = "write" /\ pub'.record = pub.record
      /\ pub'.of = pub.of /\ pub'.why = pub.why
      /\ IF Last THEN pub'.next = "commit" /\ pub'.at = pub.at ELSE pub'.next = "swap" /\ pub'.at = pub.at + 1
  BY <1>ids, WritingFacts DEF PublishInv, Install, Step
<1>ready. temp[pub.run][Here] = pub.run
  BY SMTT(60) DEF PublishInv, Install, Progress, Swapping
<1>types. TypeOK'
  BY <1>next, <1>ids, <1>here, <1>ready DEF PublishInv, Install, TypeOK, Content
<1>control. Control'
  BY SMTT(60) DEF PublishInv, Install, Writing, Control
<1>isolation. Isolation'
  BY DEF PublishInv, Install, Writing, Isolation, Visiting, Footprint, HasFile, Journals,
       TypeOK, Publisher
<1>journals. Journals'
  BY SMTT(60) DEF PublishInv, Install, Writing, Journals, Control, Owning, HasFile
<1>entries. Entries'
  BY SMTT(60), <1>ready DEF PublishInv, Install, Writing, Entries, EntrySound, Pending, Decisive,
       IsJournal, Isolation, Footprint, HasFile, Progress, Swapping, Aside, TypeOK, Publisher
<1>progress. Progress'
  <2> DEFINE E(i) == Bundle[pub.run][i]
  <2>1. ASSUME NEW i \in 1..Len(Bundle[pub.run]), i < pub.at + 1 PROVE dest'[E(i)] = pub.run
    <3>1. CASE i = pub.at
      BY <3>1, <1>ids, <1>here, <1>ready DEF Install, PublishInv, TypeOK
    <3>2. CASE i < pub.at
      <4>1. dest[E(i)] = pub.run
        BY <3>2 DEF Install, PublishInv, Progress, Swapping
      <4>2. E(i) # Here
        BY SMTT(60), <3>2, <1>ids, <1>here, BundleFacts
      <4> QED
        BY <4>1, <4>2 DEF Install, PublishInv, TypeOK
    <3> QED
      BY <2>1, <3>1, <3>2, <1>ids, BundleFacts
  <2>2. ASSUME NEW i \in 1..Len(Bundle[pub.run]), i > pub.at PROVE Staged(pub.run, i)'
    <3>1. Staged(pub.run, i)
      BY <2>2 DEF Install, PublishInv, Progress, Swapping
    <3>2. E(i) # Here /\ E(i) \in Files
      BY <2>2, <1>ids, <1>here, BundleFacts
    <3> QED
      BY <3>1, <3>2, <1>next, <1>ids DEF Install, Staged, PublishInv, TypeOK
  <2>3. CASE Last
    BY SMTT(60), <2>1, <2>3, <1>next, <1>ids, <1>here, BundleFacts DEF Progress, Swapping, Staging,
         Complete
  <2>4. CASE ~Last
    <3>1. PICK j \in 1..Len(Bundle[pub.run]) : j = pub.at + 1
      BY <2>4, <1>ids, <1>here, BundleFacts
    <3>2. Staged(pub.run, j)'
      BY <2>2, <3>1, <1>ids
    <3> QED
      BY SMTT(60), <2>1, <2>2, <2>4, <3>1, <3>2, <1>next, <1>ids, <1>here DEF Progress, Swapping, Aside,
           Staging, Complete, Staged, Unmoved
  <2> QED
    BY <2>3, <2>4
<1>loops. Loops'
  BY DEF Install, Writing, Loops
<1> QED
  BY <1>types, <1>control, <1>isolation, <1>journals, <1>entries, <1>progress, <1>loops
       DEF PublishInv

\* A verified temporary extends the staged prefix; the last one is followed by "prepared".
LEMMA StepCopyEnds ==
  ASSUME PublishInv, CopyEnds
  PROVE  PublishInv'
<1> USE DEF At, Here, Last, CopyVerified, WriteSteps, OwnSteps, LoopSteps, ReconcileSteps,
     Size, Entry
<1>ids. pub.run \in Runs /\ pub.at \in Nat /\ pub.record \in JournalRecord
  BY DEF PublishInv, TypeOK, Publisher, CopyEnds
<1>here. Here \in Files /\ Here \in FilesOf(pub.run) /\ pub.at \in 1..Len(Bundle[pub.run])
  BY <1>ids, BundleFacts DEF PublishInv, Control, CopyEnds
<1>next. /\ pub' \in Publisher /\ pub'.run = pub.run
      /\ IF Last
         THEN /\ pub'.step = "write" /\ pub'.next = "swap" /\ pub'.at = 1
              /\ pub'.record.state = "prepared" /\ pub'.record.had = pub.record.had
         ELSE pub'.step = "copy" /\ pub'.at = pub.at + 1 /\ pub'.record = pub.record
  <2>1. CASE Last
    <3> DEFINE rec == [pub.record EXCEPT !.state = "prepared"]
    <3>1. rec \in JournalRecord /\ rec.state = "prepared" /\ rec.had = pub.record.had
      BY <1>ids, RecordFacts
    <3>2. pub' = Writing(rec, "swap", 1)
      BY <2>1 DEF CopyEnds
    <3> HIDE DEF rec
    <3> QED
      BY <2>1, <3>1, <3>2, WritingFacts DEF PublishInv, Step
  <2>2. CASE ~Last
    <3> DEFINE n == pub.at + 1
    <3>1. n \in Nat
      BY <1>ids
    <3>2. pub' = [pub EXCEPT !.step = "copy", !.at = n]
      BY <2>2 DEF CopyEnds
    <3> HIDE DEF n
    <3>3. /\ pub' \in Publisher /\ pub'.run = pub.run /\ pub'.step = "copy"
          /\ pub'.at = n /\ pub'.record = pub.record
      BY <3>1, <3>2 DEF PublishInv, TypeOK, Publisher, Step
    <3> QED
      BY <2>2, <3>3 DEF n
  <2> QED
    BY <2>1, <2>2
<1>types. TypeOK'
  BY <1>next, <1>ids, <1>here DEF PublishInv, CopyEnds, TypeOK, Content
<1>control. Control'
  BY DEF PublishInv, CopyEnds, Writing, Control
<1>isolation. Isolation'
  BY DEF PublishInv, CopyEnds, Writing, Isolation, Visiting, Footprint, HasFile, Journals,
       TypeOK, Publisher
<1>journals. Journals'
  BY BundleFacts DEF PublishInv, CopyEnds, Writing, Journals, Control, Owning, HasFile
<1>entries. Entries'
  BY SMTT(60) DEF PublishInv, CopyEnds, Writing, Entries, EntrySound, Pending, Decisive
<1>progress. Progress'
  BY SMTT(60), BundleFacts, PublishNulls DEF PublishInv, CopyEnds, Writing, Progress, Swapping, Aside,
       Complete, Staged, Staging, Unmoved, Entries, EntrySound, Journals, HasFile, TypeOK,
            Publisher, JournalRecord
<1>loops. Loops'
  BY DEF CopyEnds, Writing, Loops
<1> QED
  BY <1>types, <1>control, <1>isolation, <1>journals, <1>entries, <1>progress, <1>loops
       DEF PublishInv

\* Commit preserves the invariant.
LEMMA StepCommit ==
  ASSUME PublishInv, Commit
  PROVE  PublishInv'
<1> USE DEF At, Here, disk, WriteSteps, OwnSteps, Size
<1>ids. pub.run \in Runs /\ pub.at \in Nat /\ pub.record \in JournalRecord
  BY DEF PublishInv, TypeOK, Publisher, Commit
<1>here. Here \in Files /\ Here \in FilesOf(pub.run) /\ pub.at \in 1..Len(Bundle[pub.run])
  BY <1>ids, BundleFacts DEF PublishInv, Control, Commit
<1>next. /\ pub' \in Publisher /\ pub'.run = pub.run /\ pub'.step = "write" /\ pub'.next = "load"
      /\ pub'.at = pub.at /\ pub'.of = pub.run /\ pub'.why = "cleanup"
      /\ pub'.record.state = "committed" /\ pub'.record.had = pub.record.had
  <2> DEFINE rec == [pub.record EXCEPT !.state = "committed"]
             p == Writing(rec, "load", pub.at)
  <2>1. rec \in JournalRecord /\ rec.state = "committed" /\ rec.had = pub.record.had
    BY <1>ids, RecordFacts
  <2> HIDE DEF rec
  <2>2. /\ p \in Publisher /\ p.run = pub.run /\ p.step = "write" /\ p.record = rec
        /\ p.next = "load" /\ p.at = pub.at
    BY <1>ids, <2>1, WritingFacts DEF PublishInv, Step
  <2>3. pub' = [p EXCEPT !.of = pub.run, !.why = "cleanup"]
    BY DEF Commit, rec
  <2> HIDE DEF p
  <2> QED
    BY <1>ids, <2>1, <2>2, <2>3 DEF Publisher
<1>types. TypeOK'
  BY <1>next, <1>ids DEF PublishInv, Commit, TypeOK
<1>control. Control'
  BY DEF PublishInv, Commit, Writing, Control, TypeOK, Publisher, JournalRecord
<1>isolation. Isolation'
  BY DEF PublishInv, Commit, Writing, Isolation, Visiting, Footprint, HasFile, Journals,
       TypeOK, Publisher
<1>journals. Journals'
  BY DEF PublishInv, Commit, Writing, Journals, Owning, HasFile, TypeOK, Publisher,
       JournalRecord
<1>entries. Entries'
  BY DEF PublishInv, Commit, Writing, Entries, EntrySound, Pending, Decisive, Journals, TypeOK,
       Publisher, JournalRecord
<1>progress. Progress'
  BY DEF PublishInv, Commit, Writing, Progress, Swapping, Complete, Staging
<1>loops. Loops'
  BY DEF Commit, Writing, Loops
<1> QED
  BY <1>types, <1>control, <1>isolation, <1>journals, <1>entries, <1>progress, <1>loops
       DEF PublishInv

\* Clean preserves the invariant.
LEMMA StepClean ==
  ASSUME PublishInv, Clean
  PROVE  PublishInv'
<1> USE DEF At, File, Cleaning, WriteSteps, OwnSteps, LoopSteps, ReconcileSteps, Size, Entry
<1>ids. pub.of \in Runs /\ pub.at \in 1..Len(Bundle[pub.of]) /\ pub.at \in Nat
  BY BundleFacts DEF PublishInv, Control, TypeOK, Publisher, Clean
<1>here. File \in Files /\ File \in FilesOf(pub.of)
  BY <1>ids, BundleFacts
<1>next. pub' \in Publisher /\ pub' = [pub EXCEPT !.at = pub.at + 1]
  <2> DEFINE n == pub.at + 1
  <2>1. n \in Nat
    BY <1>ids
  <2>2. pub' = [pub EXCEPT !.at = n]
    BY DEF Clean
  <2> HIDE DEF n
  <2>3. pub' \in Publisher
    BY <2>1, <2>2 DEF PublishInv, TypeOK, Publisher
  <2> QED
    BY <2>2, <2>3 DEF n
<1>decided. Decisive(pub.of).state = "committed"
  BY PublishNulls DEF PublishInv, Clean, Decisive, IsJournal, Isolation, Journals, Control,
       Owning, Visiting, Footprint
<1>types. TypeOK'
  BY <1>next, <1>ids, <1>here DEF PublishInv, Clean, TypeOK, Content
<1>control. Control'
  BY DEF PublishInv, Clean, Control
<1>isolation. Isolation'
  BY DEF PublishInv, Clean, Isolation, Owning, Visiting, Footprint, HasFile
<1>journals. Journals'
  BY DEF PublishInv, Clean, Journals, Owning, HasFile
<1>entries. Entries'
  <2>1. ASSUME NEW q \in Runs PROVE Pending(q)' => FALSE
    BY <1>decided, <1>ids, <1>next, PublishNulls DEF PublishInv, Clean, Pending, Decisive,
         IsJournal, Isolation, Journals, Footprint, TypeOK, Publisher
  <2> QED
    BY <2>1, <1>next DEF Entries, Clean, PublishInv, TypeOK, Publisher
<1>progress. Progress'
  BY DEF Clean, Progress, Swapping, Complete, Staging
<1>loops. Loops'
  BY <1>here DEF PublishInv, Clean, Loops, Control, HasFile, TypeOK, Publisher
<1> QED
  BY <1>types, <1>control, <1>isolation, <1>journals, <1>entries, <1>progress, <1>loops
       DEF PublishInv

\* A new file makes way: it is the run's own.
LEMMA StepUndoInstall ==
  ASSUME PublishInv, UndoInstall
  PROVE  PublishInv'
<1> USE DEF At, Goto, File, Held, Unneeded, WriteSteps, OwnSteps, LoopSteps, ReconcileSteps,
     Size, Entry
<1>ids. pub.of \in Runs /\ pub.at \in 1..Len(Bundle[pub.of]) /\ pub.at \in Nat
  BY BundleFacts DEF PublishInv, Control, TypeOK, Publisher, UndoInstall
<1>here. File \in Files /\ File \in FilesOf(pub.of)
  BY <1>ids, BundleFacts
<1>next. /\ pub' \in Publisher /\ pub'.run = pub.run /\ pub'.of = pub.of /\ pub'.why = pub.why
      /\ pub'.at = pub.at /\ pub'.failed = pub.failed /\ pub'.step = IF Held THEN "undo" ELSE "drop"
  BY <1>ids DEF PublishInv, UndoInstall, TypeOK, Publisher, Step
<1>decided. /\ Pending(pub.of) /\ Decisive(pub.of) = journal[pub.of]
      /\ \A q \in Runs : Decisive(q)' = Decisive(q) /\ (Pending(q)' => q = pub.of)
  BY <1>ids, <1>next, PublishNulls, NullJournals DEF PublishInv, UndoInstall, Pending,
       Decisive, IsJournal, Isolation, Journals, Control, Owning, Visiting, Footprint, TypeOK,
            JournalFile
<1>entry. EntrySound(pub.of, File, journal[pub.of].had)
  BY <1>decided, <1>here, <1>ids DEF PublishInv, Entries
<1>types. TypeOK'
  BY <1>next, <1>ids, <1>here DEF PublishInv, UndoInstall, TypeOK, Content
<1>control. Control'
  BY <1>next DEF PublishInv, UndoInstall, Control, Publisher
<1>isolation. Isolation'
  BY SMTT(60) DEF PublishInv, UndoInstall, Isolation, Owning, Visiting, Footprint, HasFile, TypeOK,
       Publisher
<1>journals. Journals'
  BY <1>next DEF PublishInv, UndoInstall, Journals, Owning, HasFile
<1>entries. Entries'
  <2>1. ASSUME NEW f \in FilesOf(pub.of) PROVE EntrySound(pub.of, f, journal[pub.of].had)'
    BY SMTT(60), <1>ids, <1>here, <1>next, <1>decided, PublishNulls, BundleFacts DEF PublishInv,
         UndoInstall, Entries, EntrySound, TypeOK
  <2> QED
    BY SMTT(60), <2>1, <1>decided, <1>next, <1>ids DEF UndoInstall, Entries, EntrySound, Pending
<1>progress. Progress'
  BY SMTT(60) DEF PublishInv, UndoInstall, Progress, Swapping, Aside, Complete, Staging, TypeOK,
       Publisher
<1>loops. Loops'
  BY SMTT(60), <1>ids, <1>here, <1>next DEF PublishInv, UndoInstall, Loops, Undone, TypeOK, Publisher
<1> QED
  BY <1>types, <1>control, <1>isolation, <1>journals, <1>entries, <1>progress, <1>loops
       DEF PublishInv

\* A backup returns to a name that is free.
LEMMA StepRestore ==
  ASSUME PublishInv, Restore
  PROVE  PublishInv'
<1> USE DEF At, Goto, File, WriteSteps, OwnSteps, LoopSteps, ReconcileSteps, Size, Entry
<1>ids. pub.of \in Runs /\ pub.at \in 1..Len(Bundle[pub.of]) /\ pub.at \in Nat
  BY BundleFacts DEF PublishInv, Control, TypeOK, Publisher, Restore
<1>here. File \in Files /\ File \in FilesOf(pub.of)
  BY <1>ids, BundleFacts
<1>next. /\ pub' \in Publisher /\ pub'.run = pub.run /\ pub'.of = pub.of /\ pub'.why = pub.why
      /\ pub'.at = pub.at /\ pub'.failed = pub.failed /\ pub'.step = "drop"
  BY <1>ids DEF PublishInv, Restore, TypeOK, Publisher, Step
<1>decided. /\ Pending(pub.of) /\ Decisive(pub.of) = journal[pub.of]
      /\ \A q \in Runs : Decisive(q)' = Decisive(q) /\ (Pending(q)' => q = pub.of)
  BY <1>ids, <1>next, PublishNulls, NullJournals DEF PublishInv, Restore, Pending, Decisive,
       IsJournal, Isolation, Journals, Control, Owning, Visiting, Footprint, TypeOK, JournalFile
<1>entry. EntrySound(pub.of, File, journal[pub.of].had)
  BY <1>decided, <1>here, <1>ids DEF PublishInv, Entries
<1>types. TypeOK'
  BY <1>next, <1>ids, <1>here DEF PublishInv, Restore, TypeOK, Content
<1>control. Control'
  BY DEF PublishInv, Restore, Control, TypeOK, Publisher
<1>isolation. Isolation'
  BY DEF PublishInv, Restore, Isolation, Owning, Visiting, Footprint, HasFile
<1>journals. Journals'
  BY DEF PublishInv, Restore, Journals, Owning, HasFile
<1>entries. Entries'
  <2>1. ASSUME NEW f \in FilesOf(pub.of) PROVE EntrySound(pub.of, f, journal[pub.of].had)'
    BY <1>ids, <1>here, <1>next, <1>decided, PublishNulls, BundleFacts DEF PublishInv, Restore,
         Entries, EntrySound, TypeOK
  <2>2. \A q \in Runs : Pending(q)' => q = pub.of /\ pub.of' = pub.of /\ Decisive(q)' = journal[pub.of]'
    BY <1>decided, <1>next DEF Restore
  <2> QED
    BY <2>1, <2>2, <1>next, <1>ids DEF Entries, EntrySound
<1>progress. Progress'
  BY DEF Restore, Progress, Swapping, Complete, Staging
<1>loops. Loops'
  <2>1. Undone(pub.of, pub.at)'
    BY <1>ids, <1>here, <1>entry DEF Restore, EntrySound, Undone, PublishInv, TypeOK
  <2>2. ASSUME ~pub.failed, NEW i \in 1..Len(Bundle[pub.of]), i > pub.at
        PROVE  (Undone(pub.of, i) /\ temp[pub.of][Bundle[pub.of][i]] = Nothing)'
    BY SMTT(60), <2>2, <1>ids, <1>here, <1>next, BundleFacts DEF Restore, Undone, PublishInv, Loops,
         TypeOK
  <2> QED
    BY <2>1, <2>2, <1>next DEF Loops, Undone
<1> QED
  BY <1>types, <1>control, <1>isolation, <1>journals, <1>entries, <1>progress, <1>loops
       DEF PublishInv

\* An entry is undone before the rollback turns to the one before it.
LEMMA StepDropTemporary ==
  ASSUME PublishInv, DropTemporary
  PROVE  PublishInv'
<1> USE DEF At, File, Held, Unneeded, WriteSteps, OwnSteps, LoopSteps, ReconcileSteps, Size,
     Entry
<1>ids. pub.of \in Runs /\ pub.at \in 1..Len(Bundle[pub.of]) /\ pub.at \in Nat
  BY BundleFacts DEF PublishInv, Control, TypeOK, Publisher, DropTemporary
<1>here. File \in Files /\ File \in FilesOf(pub.of)
  BY <1>ids, BundleFacts
<1>next. /\ pub' \in Publisher /\ pub'.run = pub.run /\ pub'.of = pub.of /\ pub'.why = pub.why
      /\ pub'.at = pub.at - 1 /\ pub'.failed = pub.failed /\ pub'.step = "undo"
  <2> DEFINE n == pub.at - 1
  <2>1. n \in Nat
    BY <1>ids
  <2>2. pub' = [pub EXCEPT !.step = "undo", !.at = n]
    BY DEF DropTemporary
  <2> HIDE DEF n
  <2>3. /\ pub' \in Publisher /\ pub'.run = pub.run /\ pub'.of = pub.of /\ pub'.why = pub.why
        /\ pub'.at = n /\ pub'.failed = pub.failed /\ pub'.step = "undo"
    BY <2>1, <2>2 DEF PublishInv, TypeOK, Publisher, Step
  <2> QED
    BY <2>3 DEF n
<1>decided. /\ Pending(pub.of) /\ Decisive(pub.of) = journal[pub.of]
      /\ \A q \in Runs : Decisive(q)' = Decisive(q) /\ (Pending(q)' => q = pub.of)
  BY <1>ids, <1>next, PublishNulls, NullJournals DEF PublishInv, DropTemporary, Pending,
       Decisive, IsJournal, Isolation, Journals, Control, Owning, Visiting, Footprint, TypeOK,
            JournalFile
<1>entry. EntrySound(pub.of, File, journal[pub.of].had)
  BY <1>decided, <1>here, <1>ids DEF PublishInv, Entries
<1>types. TypeOK'
  BY <1>next, <1>ids, <1>here DEF PublishInv, DropTemporary, TypeOK, Content
<1>control. Control'
  BY SMTT(60) DEF PublishInv, DropTemporary, Control, TypeOK, Publisher
<1>isolation. Isolation'
  BY SMTT(60), <1>ids, <1>here DEF PublishInv, DropTemporary, Isolation, Owning, Visiting, Footprint,
       HasFile, TypeOK, Publisher
<1>journals. Journals'
  BY SMTT(60) DEF PublishInv, DropTemporary, Journals, Owning, HasFile
<1>entries. Entries'
  <2>1. ASSUME NEW f \in FilesOf(pub.of) PROVE EntrySound(pub.of, f, journal[pub.of].had)'
    BY <1>ids, <1>here, <1>next, <1>decided, PublishNulls, BundleFacts DEF PublishInv,
         DropTemporary, Entries, EntrySound, TypeOK
  <2> QED
    BY SMTT(60), <2>1, <1>decided, <1>next, <1>ids DEF DropTemporary, Entries, EntrySound, Pending
<1>progress. Progress'
  BY <1>next DEF Progress, Swapping, Staging, Complete
<1>loops. Loops'
  <2>1. Undone(pub.of, pub.at) /\ backup' = backup /\ dest' = dest /\ journal' = journal
    BY <1>ids, <1>here, <1>entry DEF DropTemporary, EntrySound, Undone, PublishInv, Loops
  <2>2. ASSUME ~pub.failed, NEW i \in 1..Len(Bundle[pub.of]), i >= pub.at
        PROVE  (Undone(pub.of, i) /\ temp[pub.of][Bundle[pub.of][i]] = Nothing)'
    <3>1. CASE i = pub.at
      BY SMTT(60), <2>1, <3>1, <1>ids, <1>here, <1>next DEF DropTemporary, Undone, PublishInv, TypeOK
    <3>2. CASE i > pub.at
      BY <2>1, <2>2, <3>2, <1>ids, <1>here, <1>next, BundleFacts DEF DropTemporary, Undone,
           PublishInv, Loops, TypeOK
    <3> QED
      BY <2>2, <3>1, <3>2, <1>ids, BundleFacts
  <2> QED
    BY SMTT(60), <2>2, <1>next, <1>ids DEF Loops
<1> QED
  BY <1>types, <1>control, <1>isolation, <1>journals, <1>entries, <1>progress, <1>loops
       DEF PublishInv

\* The journal goes only when no temporary and no backup is left.
LEMMA StepRemoveJournal ==
  ASSUME PublishInv, RemoveJournal
  PROVE  PublishInv'
<1> USE DEF At, Ends, Goes, Cleaning, EntriesDone, WriteSteps, OwnSteps, LoopSteps,
     ReconcileSteps, Size, Entry
<1>ids. pub.of \in Runs /\ pub.run \in Runs /\ pub.run # NoRun /\ pub.at \in Nat
  BY DEF RemoveJournal, PublishInv, Control, TypeOK, Publisher
<1>empty. \A f \in Files : ~HasFile(pub.of, f)
  <2>1. ASSUME NEW i \in 1..Len(Bundle[pub.of]) PROVE ~HasFile(pub.of, Bundle[pub.of][i])
    <3>1. Len(Bundle[pub.of]) \in Nat
      BY <1>ids, BundleFacts
    <3>2. CASE pub.step = "clean" /\ pub.at > Len(Bundle[pub.of])
      BY <1>ids, <3>1, <3>2 DEF PublishInv, Loops
    <3>3. CASE pub.step = "undo" /\ pub.at = 0 /\ ~pub.failed
      BY <1>ids, <3>1, <3>3 DEF PublishInv, Loops, Undone, HasFile
    <3> QED
      BY <1>ids, <3>1, <3>2, <3>3 DEF RemoveJournal
  <2> QED
    BY <2>1, <1>ids, BundleFacts DEF PublishInv, Journals
<1>ready. \A q \in Runs : scratch[q] = Nothing
  BY <1>ids DEF RemoveJournal, PublishInv, Control, Isolation, Journals, Owning, Visiting,
       Footprint
<1>next. /\ pub' \in Publisher
      /\ \/ /\ pub.why = "target" /\ pub'.step = "reconcile" /\ pub'.run = pub.run
            /\ UNCHANGED outcome
         \/ /\ pub.why # "target" /\ pub'.step = "idle" /\ pub'.run = NoRun
            /\ \E o \in {"published", "restored"} : outcome' = [outcome EXCEPT ![pub.run] = o]
  <2>1. CASE pub.why = "target"
    <3>1. pub' = [pub EXCEPT !.step = "reconcile"] /\ UNCHANGED outcome
      BY <2>1, RemoveForms DEF PublishInv, TypeOK, Publisher
    <3> QED
      BY <2>1, <3>1 DEF PublishInv, TypeOK, Publisher, Step
  <2>2. CASE pub.why # "target"
    BY <2>2, RemoveForms, IdleFacts DEF PublishInv, TypeOK, Publisher
  <2> QED
    BY <2>1, <2>2
<1>disk. journal' = [journal EXCEPT ![pub.of] = Nothing] /\ UNCHANGED <<dest, temp, backup,
     scratch>>
  BY DEF RemoveJournal
<1>own. pub.why # "target" => pub.of = pub.run
  BY DEF RemoveJournal, PublishInv, Control
<1>types. TypeOK'
  BY <1>next, <1>ids, <1>disk DEF PublishInv, TypeOK, JournalFile
<1>control. Control'
  BY <1>next, <1>ids, PublishNulls DEF RemoveJournal, PublishInv, Control, TypeOK, Publisher
<1>isolation. Isolation'
  BY <1>next, <1>ids, <1>empty, <1>ready, <1>disk, PublishNulls DEF RemoveJournal, PublishInv,
       Isolation, Owning, Visiting, Footprint, HasFile, Control, TypeOK, Publisher
<1>journals. Journals'
  BY <1>next, <1>ids, <1>empty, <1>disk, PublishNulls DEF PublishInv, Journals, Owning,
       HasFile, TypeOK
<1>entries. Entries'
  BY <1>next, <1>ids, <1>ready, <1>disk, PublishNulls DEF RemoveJournal, PublishInv, Entries,
       Pending, Decisive, IsJournal, Isolation, Footprint, Journals, TypeOK
<1>progress. Progress'
  BY <1>next DEF Progress, Swapping, Staging, Complete
<1>loops. Loops'
  BY <1>next DEF Loops
<1> QED
  BY <1>types, <1>control, <1>isolation, <1>journals, <1>entries, <1>progress, <1>loops
       DEF PublishInv

\* The first journal records which destinations exist; nothing is staged yet.
LEMMA CheckPasses ==
  ASSUME PublishInv, At("check"), UNCHANGED disk,
         \A f \in FilesOf(pub.run) : temp[pub.run][f] = Nothing /\ backup[pub.run][f] = Nothing,
         Goes(Writing([state |-> "preparing",
              had |-> {f \in FilesOf(pub.run) : dest[f] # Nothing}], "copy", 1))
  PROVE  PublishInv'
<1> USE DEF At, Goes, disk, OwnSteps, LoopSteps, ReconcileSteps, Size, Entry
<1> DEFINE rec == [state |-> "preparing", had |-> {f \in FilesOf(pub.run) : dest[f] # Nothing}]
<1>ids. pub.run \in Runs /\ pub.run # NoRun
  BY DEF PublishInv, TypeOK, Publisher
<1>1. rec \in JournalRecord /\ rec.state = "preparing" /\ rec.had = {f \in FilesOf(pub.run) : dest[f] # Nothing}
  BY <1>ids, BundleFacts DEF JournalRecord
<1> HIDE DEF rec
<1>next. /\ pub' \in Publisher /\ pub'.run = pub.run /\ pub'.step = "write" /\ pub'.next = "copy"
      /\ pub'.at = 1 /\ pub'.record = rec
  BY <1>1, WritingFacts DEF PublishInv, Step, rec
<1>clear. \A q \in Runs : ~Footprint(q)
  BY DEF PublishInv, Isolation
<1>types. TypeOK'
  BY <1>next DEF PublishInv, TypeOK
<1>control. Control'
  BY <1>next, <1>1, <1>ids, BundleFacts DEF PublishInv, Control, TypeOK
<1>isolation. Isolation'
  BY <1>next, <1>clear, <1>ids DEF PublishInv, Isolation, Owning, Visiting, Footprint, HasFile
<1>journals. Journals'
  BY <1>next, <1>1, <1>clear, <1>ids DEF PublishInv, Journals, Owning, Footprint, HasFile
<1>entries. Entries'
  <2>1. ASSUME NEW q \in Runs PROVE ~Pending(q)'
    BY <1>clear DEF Pending, Decisive, IsJournal, Footprint
  <2>2. \A f \in FilesOf(pub.run) : EntrySound(pub.run, f, rec.had)
    BY <1>1, <1>ids DEF EntrySound
  <2> QED
    BY <2>1, <2>2, <1>next DEF Entries, EntrySound
<1>progress. Progress'
  <2>1. \A i \in 1..Len(Bundle[pub.run]) : Unmoved(pub.run, i)'
    BY <1>next, <1>1, <1>ids, BundleFacts DEF Unmoved
  <2>2. ~Swapping' /\ ~Complete'
    BY <1>next DEF Swapping, Complete
  <2>3. \A i \in 1..Len(Bundle[pub.run]) : ~(i < 1)
    BY <1>ids, BundleFacts
  <2> QED
    BY <2>1, <2>2, <2>3, <1>next DEF Progress
<1>loops. Loops'
  BY <1>next DEF Loops
<1> QED
  BY <1>types, <1>control, <1>isolation, <1>journals, <1>entries, <1>progress, <1>loops
       DEF PublishInv

\* Check preserves the invariant.
LEMMA StepCheck == ASSUME PublishInv, Check PROVE PublishInv'
<1>1. pub.run # NoRun /\ UNCHANGED disk
  BY DEF Check, At
<1>2. CASE \E f \in FilesOf(pub.run) : temp[pub.run][f] # Nothing \/ backup[pub.run][f] # Nothing
  <2>1. Ends("failed")
    BY <1>2 DEF Check
  <2> QED
    BY <1>1, <2>1, EndsKeeps
<1>3. CASE \A f \in FilesOf(pub.run) : temp[pub.run][f] = Nothing /\ backup[pub.run][f] = Nothing
  <2>1. Goes(Writing([state |-> "preparing",
       had |-> {f \in FilesOf(pub.run) : dest[f] # Nothing}], "copy", 1))
    BY <1>3 DEF Check
  <2> QED
    BY <1>1, <1>3, <2>1, CheckPasses DEF Check
<1> QED
  BY <1>2, <1>3

\* An exception of reconcile_journal leaves the disk as it is.
LEMMA RaisesKeeps ==
  ASSUME PublishInv, UNCHANGED disk, Raises, pub.run # NoRun, pub.step \in {"load", "undo",
       "clean"}
  PROVE  PublishInv'
<1>1. CASE pub.why = "target" /\ Ends("refused")
  BY <1>1, EndsKeeps
<1>2. CASE pub.why = "cleanup" /\ Goes(Rescue)
  BY <1>2, RescueKeeps DEF Owning, ReconcileSteps, LoopSteps
<1>3. CASE pub.why = "rescue" /\ Ends("stuck")
  BY <1>3, EndsKeeps
<1> QED
  BY <1>1, <1>2, <1>3, RaisesForms DEF PublishInv, TypeOK, Publisher

\* A loaded journal opens a rollback or, when committed, a cleanup.
LEMMA LoopBegins ==
  ASSUME PublishInv, At("load"), UNCHANGED disk, journal[pub.of] \notin {Nothing, Torn},
         Goes(IF journal[pub.of].state = "committed"
              THEN [pub EXCEPT !.step = "clean", !.at = 1, !.failed = FALSE]
              ELSE [pub EXCEPT !.step = "undo", !.at = Len(Bundle[pub.of]), !.failed = FALSE])
  PROVE  PublishInv'
<1> USE DEF At, Goes, disk, WriteSteps, OwnSteps, ReconcileSteps, Size
<1>ids. pub.of \in Runs /\ Len(Bundle[pub.of]) \in Nat /\ Len(Bundle[pub.of]) >= 1
  BY BundleFacts DEF PublishInv, Control
<1>next. /\ pub' \in Publisher /\ pub'.run = pub.run /\ pub'.of = pub.of /\ pub'.why = pub.why
      /\ IF journal[pub.of].state = "committed" THEN pub'.step = "clean" /\ pub'.at = 1
         ELSE pub'.step = "undo" /\ pub'.at = Len(Bundle[pub.of])
  <2>1. CASE journal[pub.of].state = "committed"
    BY <2>1, <1>ids DEF PublishInv, TypeOK, Publisher, Step
  <2>2. CASE journal[pub.of].state # "committed"
    BY <2>2, <1>ids DEF PublishInv, TypeOK, Publisher, Step
  <2> QED
    BY <2>1, <2>2
<1>types. TypeOK'
  BY <1>next DEF PublishInv, TypeOK
<1>control. Control'
  BY <1>next, <1>ids DEF PublishInv, Control, TypeOK
<1>isolation. Isolation'
  BY <1>next, <1>ids DEF PublishInv, Isolation, Owning, Visiting, Footprint, HasFile
<1>journals. Journals'
  BY <1>next, <1>ids DEF PublishInv, Journals, Owning, HasFile
<1>entries. Entries'
  BY <1>next, <1>ids DEF PublishInv, Entries, EntrySound, Pending, Decisive, IsJournal
<1>progress. Progress'
  BY <1>next DEF Progress, Swapping, Staging, Complete
<1>loops. Loops'
  BY <1>next, <1>ids DEF Loops
<1> QED
  BY <1>types, <1>control, <1>isolation, <1>journals, <1>entries, <1>progress, <1>loops
       DEF PublishInv

\* A failing entry is noted and the rollback goes on.
LEMMA SkipsEntry ==
  ASSUME PublishInv, UNCHANGED disk, pub.run # NoRun, pub.step \in {"undo", "drop"}, pub.at > 0,
         Goes([pub EXCEPT !.step = "undo", !.at = @ - 1, !.failed = TRUE])
  PROVE  PublishInv'
<1> USE DEF Goes, disk, WriteSteps, OwnSteps, LoopSteps, ReconcileSteps, Size
<1>ids. pub.of \in Runs /\ Len(Bundle[pub.of]) \in Nat /\ pub.at \in Nat
  BY BundleFacts DEF PublishInv, Control, TypeOK, Publisher
<1>next. /\ pub' \in Publisher /\ pub'.run = pub.run /\ pub'.of = pub.of /\ pub'.why = pub.why
      /\ pub'.step = "undo" /\ pub'.at = pub.at - 1 /\ pub'.failed
  <2> DEFINE n == pub.at - 1
  <2>1. n \in Nat
    BY <1>ids
  <2>2. pub' = [pub EXCEPT !.step = "undo", !.at = n, !.failed = TRUE]
    OBVIOUS
  <2> HIDE DEF n
  <2>3. /\ pub' \in Publisher /\ pub'.run = pub.run /\ pub'.of = pub.of /\ pub'.why = pub.why
        /\ pub'.at = n /\ pub'.failed /\ pub'.step = "undo"
    BY ZenonT(60), <2>1, <2>2 DEF PublishInv, TypeOK, Publisher, Step
  <2> QED
    BY <2>3 DEF n
<1>types. TypeOK'
  BY <1>next DEF PublishInv, TypeOK
<1>control. Control'
  BY <1>next, <1>ids DEF PublishInv, Control, TypeOK
<1>isolation. Isolation'
  BY <1>next, <1>ids DEF PublishInv, Isolation, Owning, Visiting, Footprint, HasFile
<1>journals. Journals'
  BY <1>next, <1>ids DEF PublishInv, Journals, Owning, HasFile
<1>entries. Entries'
  BY <1>next, <1>ids DEF PublishInv, Entries, EntrySound, Pending, Decisive, IsJournal
<1>progress. Progress'
  BY <1>next DEF Progress, Swapping, Staging, Complete
<1>loops. Loops'
  BY <1>next, <1>ids DEF Loops
<1> QED
  BY <1>types, <1>control, <1>isolation, <1>journals, <1>entries, <1>progress, <1>loops
       DEF PublishInv

\* LoadJournal preserves the invariant.
LEMMA StepLoadJournal == ASSUME PublishInv, LoadJournal PROVE PublishInv'
<1>1. pub.run # NoRun /\ pub.step = "load" /\ UNCHANGED disk
  BY DEF LoadJournal, At
<1>2. CASE journal[pub.of] \in {Nothing, Torn}
  <2>1. Raises
    BY <1>2 DEF LoadJournal
  <2> QED
    BY <1>1, <2>1, RaisesKeeps
<1>3. CASE journal[pub.of] \notin {Nothing, Torn}
  BY <1>1, <1>3, LoopBegins DEF LoadJournal
<1> QED
  BY <1>2, <1>3

\* OperationFails preserves the invariant.
LEMMA StepOperationFails ==
  ASSUME "journal" \notin Faults, PublishInv, OperationFails
  PROVE  PublishInv'
<1>1. pub.run # NoRun /\ UNCHANGED disk
  BY DEF OperationFails
<1>2. CASE pub.step \in {"copy", "fill", "swap", "install"} /\ Goes(Rescue)
  BY <1>1, <1>2, RescueKeeps DEF Owning, OwnSteps
<1>3. CASE /\ pub.step \in {"undo", "drop"} /\ pub.at > 0
           /\ Goes([pub EXCEPT !.step = "undo", !.at = @ - 1, !.failed = TRUE])
  BY <1>1, <1>3, SkipsEntry
<1>4. CASE pub.step \in {"undo", "clean"} /\ Raises
  BY <1>1, <1>4, RaisesKeeps
<1> QED
  BY <1>2, <1>3, <1>4, FailureForms DEF PublishInv

\* The steps that only end a publication or raise.
LEMMA StepEnd ==
  ASSUME PublishInv,
         RetainJournal \/ Crash \/ \E r \in Runs : RefuseTorn(r)
  PROVE  PublishInv'
<1>1. CASE RetainJournal
  BY <1>1, RaisesKeeps DEF RetainJournal, At
<1>2. CASE Crash
  BY <1>2, EndsKeeps DEF Crash
<1>3. CASE \E r \in Runs : RefuseTorn(r)
  BY <1>3, EndsKeeps DEF RefuseTorn, At
<1> QED
  BY <1>1, <1>2, <1>3

\* An empty folder without publisher satisfies the invariant.
LEMMA InitInv == Init => PublishInv
<1> SUFFICES ASSUME Init PROVE PublishInv
  OBVIOUS
<1>1. /\ pub.run = NoRun /\ pub.step = "idle"
      /\ pub \in Publisher
  BY IdleFacts DEF Init
<1>2. \A q \in Runs : ~Footprint(q) /\ scratch[q] = Nothing /\ journal[q] = Nothing
  BY DEF Init, Footprint, HasFile
<1>3. TypeOK
  BY <1>1, PublishShape DEF Init, TypeOK, Content, JournalFile
<1>4. Control
  BY <1>1 DEF Control, ReconcileSteps, LoopSteps, OwnSteps, WriteSteps
<1>5. Isolation
  BY <1>1, <1>2 DEF Isolation, Owning, Visiting, OwnSteps, WriteSteps, ReconcileSteps, LoopSteps
<1>6. Journals
  BY <1>1, <1>2, PublishNulls DEF Journals, Footprint, Owning, OwnSteps, WriteSteps,
       ReconcileSteps, LoopSteps
<1>7. Entries
  BY <1>1, <1>2 DEF Entries, Pending, Decisive, IsJournal, OwnSteps, WriteSteps
<1>8. Progress /\ Loops
  BY <1>1 DEF Progress, Loops, Swapping, Staging, Complete, WriteSteps
<1> QED
  BY <1>3, <1>4, <1>5, <1>6, <1>7, <1>8 DEF PublishInv

\* The invariant is inductive as long as no journal write fails.
LEMMA StepInv ==
  ASSUME "journal" \notin Faults, PublishInv, [Next]_vars
  PROVE  PublishInv'
<1>1. CASE UNCHANGED vars
  BY <1>1 DEF vars, PublishInv, TypeOK, Control, Isolation, Journals, Entries, Progress, Loops,
       Footprint, HasFile,
    Owning, Visiting, EntrySound, Pending, Decisive, Swapping, Aside, Complete, Staged,
         Staging, Unmoved, Undone
<1> QED
  BY <1>1, StepStartPublish, StepPromote, StepEnd, StepReconcileNext, StepPromoted,
       StepReconciled, StepCheck,
     StepWriteScratch, StepFlushScratch, StepRenameScratch, StepCopyStarts, StepCopyEnds,
          StepBackUp,
     StepInstall, StepCommit, StepLoadJournal, StepClean, StepUndoInstall, StepRestore,
     StepDropTemporary, StepRemoveJournal, StepOperationFails
  DEF Next

\* Every reachable state of a publication satisfies the invariant, while no journal
\* write fails (flow_publish.py, publish_bundle and reconcile_target).
THEOREM PublishInvariant ==
  ASSUME "journal" \notin Faults
  PROVE  Spec => []PublishInv
<1>1. Init => PublishInv
  BY InitInv
<1>2. PublishInv /\ [Next]_vars => PublishInv'
  BY StepInv
<1> QED
  BY <1>1, <1>2, PTL DEF Spec

\* The folder, its journals and the publisher are well typed in every reachable state,
\* while no journal write fails (flow_publish.py, publish_bundle and reconcile_target).
THEOREM PublishType ==
  ASSUME "journal" \notin Faults
  PROVE  Spec => []TypeOK
<1>1. PublishInv => TypeOK
  BY DEF PublishInv
<1> QED
  BY <1>1, PublishInvariant, PTL

\* No publication starts over the leftovers of another: reconcile_target runs to the
\* end before the first journal of a run is written.
THEOREM OneTransactionTheorem ==
  ASSUME "journal" \notin Faults
  PROVE  Spec => []OneTransaction
<1>1. PublishInv => OneTransaction
  BY DEF PublishInv, Isolation, Footprint, HasFile, OneTransaction, Leftover
<1> QED
  BY <1>1, PublishInvariant, PTL

-----------------------------------------------------------------------------
\* Refinement of AtomicBundle.

\* What reconciling run q would make of the folder.
Restored(q) ==
  [f \in Files |->
     IF f \notin FilesOf(q) THEN dest[f]
     ELSE IF backup[q][f] # Nothing THEN backup[q][f]
     ELSE IF f \notin Decisive(q).had THEN Nothing ELSE dest[f]]
RecoveredIs ==
  /\ \A q \in Runs : Pending(q) => Recovered = Restored(q)
  /\ (\A q \in Runs : ~Pending(q)) => Recovered = dest

\* At most one run is undecided, so Recovered needs no choice: it is the folder as the
\* journal of that run restores it, or the folder itself.
LEMMA RecoveredForm == PublishInv => RecoveredIs
<1> SUFFICES ASSUME PublishInv PROVE RecoveredIs
  OBVIOUS
<1>1. ASSUME NEW p \in Runs, NEW q \in Runs, Pending(p), Pending(q) PROVE p = q
  BY <1>1 DEF PublishInv, Isolation, Footprint, Pending, Decisive, IsJournal
<1>2. ASSUME NEW q \in Runs, Pending(q) PROVE Recovered = Restored(q)
  <2> SUFFICES ASSUME NEW f \in Files PROVE Recovered[f] = Restored(q)[f]
    BY DEF Recovered, Restored
  <2>1. CASE backup[q][f] # Nothing
    <3>1. f \in FilesOf(q)
      BY <2>1, <1>2 DEF PublishInv, Journals, HasFile
    <3>2. q = CHOOSE p \in Runs : Pending(p) /\ backup[p][f] # Nothing
      BY <1>1, <1>2, <2>1
    <3> QED
      BY <1>2, <2>1, <3>1, <3>2 DEF Recovered, Restored
  <2>2. CASE backup[q][f] = Nothing
    <3>1. ~\E p \in Runs : Pending(p) /\ backup[p][f] # Nothing
      BY <1>1, <1>2, <2>2
    <3>2. (\E p \in Runs : Pending(p) /\ f \in FilesOf(p) \ Decisive(p).had)
            <=> f \in FilesOf(q) /\ f \notin Decisive(q).had
      BY <1>1, <1>2
    <3> QED
      BY <2>2, <3>1, <3>2 DEF Recovered, Restored
  <2> QED
    BY <2>1, <2>2
<1>3. ASSUME \A q \in Runs : ~Pending(q) PROVE Recovered = dest
  BY <1>3 DEF Recovered, PublishInv, TypeOK
<1> QED
  BY <1>2, <1>3 DEF RecoveredIs

\* The same in the next state.
LEMMA RecoveredFormNext == PublishInv' => RecoveredIs'
BY RecoveredForm, PTL

\* Steps that touch neither destinations nor backups nor what the journals decide.
LEMMA SameDecision ==
  ASSUME PublishInv, PublishInv', UNCHANGED <<dest, backup>>,
         \A q \in Runs : Decisive(q)' = Decisive(q)
  PROVE  Recovered' = Recovered
<1>1. \A q \in Runs : (Pending(q)' <=> Pending(q)) /\ Restored(q)' = Restored(q)
  BY DEF Pending, Restored
<1>2. RecoveredIs /\ RecoveredIs'
  BY RecoveredForm, RecoveredFormNext
<1> QED
  BY <1>1, <1>2 DEF RecoveredIs

\* Steps that move files of a run which stays undecided.
LEMMA SameRestored ==
  ASSUME PublishInv, PublishInv', NEW q \in Runs, Pending(q), Pending(q)',
         \A f \in Files : Restored(q)[f]' = Restored(q)[f]
  PROVE  Recovered' = Recovered
<1>1. Restored(q)' = Restored(q)
  BY DEF Restored
<1>2. RecoveredIs /\ RecoveredIs'
  BY RecoveredForm, RecoveredFormNext
<1> QED
  BY <1>1, <1>2 DEF RecoveredIs

\* A publication that ends anywhere but at the rename of its journal decides nothing.
LEMMA EndsDecides ==
  ASSUME PublishInv, pub.run # NoRun, UNCHANGED disk, pub'.run = NoRun, pub.step # "rename"
  PROVE  \A q \in Runs : Decisive(q)' = Decisive(q)
BY PublishNulls, NullJournals DEF PublishInv, disk, Decisive, IsJournal, Journals, Control,
     Isolation, Owning, Visiting,
   Footprint, OwnSteps, WriteSteps, ReconcileSteps, LoopSteps, TypeOK, Publisher, Step

\* Starting, promoting, checking, staging and opening journals decide nothing.
LEMMA AtomicQuiet ==
  ASSUME PublishInv, PublishInv',
         \/ \E r \in Runs : StartPublish(r) \/ Promote(r) \/ RefuseTorn(r) \/ ReconcileNext(r)
         \/ Promoted \/ Reconciled \/ Check \/ WriteScratch \/ FlushScratch
         \/ CopyStarts \/ CopyEnds \/ Commit \/ DropTemporary
  PROVE  Recovered' = Recovered
<1> USE DEF At, Goto, Goes, Ends, disk
<1>1. ASSUME NEW r \in Runs, StartPublish(r) PROVE Recovered' = Recovered
  <2>1. UNCHANGED disk /\ pub.run = NoRun /\ pub'.run = r /\ journal[r] = Nothing /\ scratch[r] = Nothing
    BY <1>1, IdleFacts DEF StartPublish, PublishInv, Isolation, Footprint, Publisher
  <2>2. \A q \in Runs : Decisive(q)' = Decisive(q)
    BY <2>1, PublishNulls DEF Decisive, IsJournal
  <2> QED
    BY <2>1, <2>2, SameDecision
<1>2. ASSUME NEW r \in Runs, Promote(r) PROVE Recovered' = Recovered
  <2>1. pub.run # r
    BY <1>2 DEF Promote, Promotable, PublishInv, Isolation, Visiting, Footprint
  <2>2. \A q \in Runs : Decisive(q)' = Decisive(q)
    BY <1>2, <2>1, PublishNulls, NullJournals DEF Promote, Promotable, PublishInv, Decisive,
         IsJournal, TypeOK, JournalFile, Isolation, Footprint
  <2> QED
    BY <1>2, <2>2, SameDecision DEF Promote
<1>3. ASSUME NEW r \in Runs, RefuseTorn(r) PROVE Recovered' = Recovered
  BY <1>3, EndsDecides, SameDecision, IdleFacts DEF RefuseTorn
<1>4. ASSUME NEW r \in Runs, ReconcileNext(r) PROVE Recovered' = Recovered
  BY <1>4, SameDecision DEF ReconcileNext, Decisive, PublishInv, TypeOK, Publisher
<1>5. CASE Promoted \/ Reconciled
  BY <1>5, SameDecision DEF Promoted, Reconciled, Decisive, PublishInv, TypeOK, Publisher
<1>6. CASE Check
  <2>1. CASE \E f \in FilesOf(pub.run) : temp[pub.run][f] # Nothing \/ backup[pub.run][f] # Nothing
    BY <1>6, <2>1, EndsDecides, SameDecision, IdleFacts DEF Check
  <2>2. CASE ~\E f \in FilesOf(pub.run) : temp[pub.run][f] # Nothing \/ backup[pub.run][f] # Nothing
    <3>1. pub'.run = pub.run /\ UNCHANGED disk
      BY <1>6, <2>2 DEF Check, Writing, PublishInv, TypeOK, Publisher
    <3> QED
      BY <3>1, SameDecision DEF Decisive
  <2> QED
    BY <2>1, <2>2
<1>7. CASE WriteScratch \/ FlushScratch
  <2>1. /\ pub'.run = pub.run /\ UNCHANGED <<dest, backup, journal>>
        /\ \A q \in Runs : q # pub.run => scratch'[q] = scratch[q]
    BY <1>7 DEF WriteScratch, FlushScratch, PublishInv, TypeOK, Publisher
  <2> QED
    BY <2>1, SameDecision DEF Decisive
<1>8. CASE CopyStarts \/ CopyEnds \/ Commit \/ DropTemporary
  <2>1. pub'.run = pub.run /\ UNCHANGED <<dest, backup, journal, scratch>>
    BY ZenonT(60), <1>8 DEF CopyStarts, CopyEnds, Commit, DropTemporary, Writing, PublishInv, TypeOK,
         Publisher
  <2> QED
    BY <2>1, SameDecision DEF Decisive
<1> QED
  BY <1>1, <1>2, <1>3, <1>4, <1>5, <1>6, <1>7, <1>8

\* Loading a journal, failing and dying outside a journal rename decide nothing.
LEMMA AtomicControl ==
  ASSUME "journal" \notin Faults, PublishInv, PublishInv',
         \/ LoadJournal \/ RetainJournal \/ OperationFails
         \/ Crash /\ pub.step # "rename"
  PROVE  Recovered' = Recovered
<1> USE DEF At, Goes, Ends, disk
<1>1. pub.run # NoRun /\ UNCHANGED disk
  BY DEF LoadJournal, RetainJournal, OperationFails, Crash
<1>2. (pub'.run = NoRun /\ pub.step # "rename") \/ pub'.run = pub.run
  <2>1. ASSUME Raises PROVE pub'.run = NoRun \/ pub'.run = pub.run
    BY <2>1, <1>1, RaisesForms, RescueFacts, IdleFacts DEF PublishInv, TypeOK, Publisher
  <2>2. CASE LoadJournal
    BY ZenonT(60), <2>1, <2>2 DEF LoadJournal, PublishInv, TypeOK, Publisher
  <2>3. CASE RetainJournal
    BY <2>1, <2>3 DEF RetainJournal
  <2>4. CASE OperationFails
    BY ZenonT(60), <2>1, <2>4, <1>1, FailureForms, RescueFacts DEF PublishInv, TypeOK, Publisher
  <2>5. CASE Crash /\ pub.step # "rename"
    BY <2>5, IdleFacts DEF Crash
  <2> QED
    BY <2>2, <2>3, <2>4, <2>5
<1>3. CASE pub'.run = pub.run
  BY <1>1, <1>3, SameDecision DEF Decisive
<1>4. CASE pub'.run = NoRun /\ pub.step # "rename"
  BY <1>1, <1>4, EndsDecides, SameDecision
<1> QED
  BY <1>2, <1>3, <1>4

\* Moving a destination aside and installing the new file can both be undone.
LEMMA AtomicSwap ==
  ASSUME PublishInv, PublishInv', BackUp \/ Install
  PROVE  Recovered' = Recovered
<1> USE DEF At, Here, Entry, Size
<1>next. PICK q \in Runs : q = pub.run
  BY DEF BackUp, Install, PublishInv, TypeOK, Publisher
<1>1. /\ q \in Runs /\ Here \in Files /\ Here \in FilesOf(q)
      /\ pub.step \in {"swap", "install"} /\ pub.run # NoRun
  BY <1>next, BundleFacts DEF BackUp, Install, PublishInv, TypeOK, Publisher, Control, OwnSteps
<1>2. /\ pub'.run = q /\ UNCHANGED <<journal, scratch>>
  BY ZenonT(60), <1>next DEF BackUp, Install, Writing, PublishInv, TypeOK, Publisher
<1>3. /\ Pending(q) /\ Decisive(q) = journal[q] /\ Decisive(q)' = journal[q] /\ Pending(q)'
      /\ journal[q].had = pub.record.had
  BY <1>next, <1>1, <1>2 DEF PublishInv, Journals, Pending, Decisive, IsJournal, OwnSteps,
       WriteSteps
<1>4. EntrySound(q, Here, journal[q].had)
  BY <1>next, <1>1, <1>3 DEF PublishInv, Entries
<1>5. ASSUME NEW f \in Files PROVE Restored(q)[f]' = Restored(q)[f]
  <2>1. CASE f # Here
    <3>1. dest'[f] = dest[f] /\ backup'[q][f] = backup[q][f]
      BY SMTT(60), <1>next, <2>1, <1>1 DEF BackUp, Install, PublishInv, TypeOK
    <3> QED
      BY SMTT(60), <1>next, <3>1, <1>2, <1>3 DEF Restored
  <2>2. CASE f = Here /\ BackUp
    <3>1. dest[f] # Nothing /\ backup'[q][f] = dest[f] /\ backup[q][f] = Nothing
      BY ZenonT(60), <1>next, <2>2, <1>1 DEF BackUp, PublishInv, TypeOK, Progress, Swapping, Aside, Unmoved
    <3>2. f \in journal[q].had
      BY <1>next, <2>2, <3>1, <1>1, <1>3 DEF BackUp, PublishInv, Progress, Swapping, Aside,
           Unmoved
    <3> QED
      BY SMTT(60), <1>next, <3>1, <3>2, <1>1, <1>2, <1>3, <2>2 DEF Restored
  <2>3. CASE f = Here /\ Install
    <3>1. dest[f] = Nothing /\ backup' = backup
      BY <1>next, <2>3 DEF Install, PublishInv, Progress, Swapping, Aside
    <3>2. backup[q][f] # Nothing \/ f \notin journal[q].had
      BY <1>next, <2>3, <3>1, <1>4 DEF EntrySound
    <3> QED
      BY <1>next, <3>1, <3>2, <1>1, <1>2, <1>3, <2>3 DEF Restored
  <2> QED
    BY <1>next, <2>1, <2>2, <2>3
<1> QED
  BY <1>next, <1>1, <1>3, <1>5, SameRestored

\* A rollback moves the folder towards what it will be.
LEMMA AtomicUndo ==
  ASSUME PublishInv, PublishInv', UndoInstall \/ Restore
  PROVE  Recovered' = Recovered
<1> USE DEF At, File, Held, Unneeded, Size
<1>next. PICK q \in Runs : q = pub.of
  BY SMTT(60) DEF UndoInstall, Restore, Clean, RemoveJournal, PublishInv, Control, ReconcileSteps,
       LoopSteps
<1>1. /\ q \in Runs /\ File \in Files /\ File \in FilesOf(q) /\ pub.step = "undo" /\ pub.run # NoRun
  BY <1>next, BundleFacts DEF UndoInstall, Restore, PublishInv, Control, TypeOK, Publisher,
       ReconcileSteps, LoopSteps
<1>2. pub'.run = pub.run /\ UNCHANGED <<journal, scratch>>
  BY DEF UndoInstall, Restore, Goto, PublishInv, TypeOK, Publisher
<1>3. scratch[q] = Nothing
  BY <1>next, <1>1 DEF PublishInv, Isolation, Journals, Control, Owning, Visiting, Footprint,
       ReconcileSteps, LoopSteps
<1>4. Pending(q) /\ Decisive(q) = journal[q] /\ Decisive(q)' = journal[q] /\ Pending(q)'
  BY <1>next, <1>1, <1>2, <1>3 DEF PublishInv, Journals, Pending, Decisive, IsJournal
<1>5. EntrySound(q, File, journal[q].had)
  BY <1>next, <1>1, <1>4 DEF PublishInv, Entries
<1>6. ASSUME NEW f \in Files PROVE Restored(q)[f]' = Restored(q)[f]
  <2>1. CASE f # File
    <3>1. dest'[f] = dest[f] /\ backup'[q][f] = backup[q][f]
      BY SMTT(60), <1>next, <2>1, <1>1 DEF UndoInstall, Restore, PublishInv, TypeOK
    <3> QED
      BY SMTT(60), <1>next, <3>1, <1>2, <1>4 DEF Restored
  <2>2. CASE f = File /\ UndoInstall
    <3>1. backup' = backup /\ (backup[q][f] # Nothing \/ f \notin journal[q].had)
      BY SMTT(60), <1>next, <2>2 DEF UndoInstall
    <3> QED
      BY <1>next, <3>1, <1>1, <1>2, <1>4, <2>2 DEF Restored
  <2>3. CASE f = File /\ Restore
    <3>1. backup[q][f] # Nothing /\ dest'[f] = backup[q][f] /\ backup'[q][f] = Nothing
      BY <1>next, <2>3, <1>1 DEF Restore, PublishInv, TypeOK
    <3>2. f \in journal[q].had
      BY <1>next, <2>3, <3>1, <1>5 DEF EntrySound
    <3> QED
      BY SMTT(60), <1>next, <3>1, <3>2, <1>1, <1>2, <1>4, <2>3 DEF Restored
  <2> QED
    BY <1>next, <2>1, <2>2, <2>3
<1> QED
  BY SMTT(60), <1>next, <1>1, <1>4, <1>6, SameRestored

\* Cleaning up and removing a journal leave the folder as it is.
LEMMA AtomicSettled ==
  ASSUME PublishInv, PublishInv', Clean \/ RemoveJournal
  PROVE  Recovered' = Recovered
<1> USE DEF At, Cleaning, EntriesDone, Entry, Size
<1>next. PICK q \in Runs : q = pub.of
  BY DEF UndoInstall, Restore, Clean, RemoveJournal, PublishInv, Control, ReconcileSteps,
       LoopSteps
<1>1. /\ q \in Runs /\ pub.step \in {"undo", "clean"} /\ pub.run # NoRun /\ dest' = dest
      /\ journal[q] # Nothing /\ pub.why \in {"target", "cleanup", "rescue"}
  BY <1>next DEF Clean, RemoveJournal, PublishInv, Control, Journals, TypeOK, Publisher,
       ReconcileSteps, LoopSteps
<1>2. \A p \in Runs : scratch[p] = Nothing /\ scratch'[p] = Nothing
  BY ZenonT(60), <1>next, <1>1 DEF Clean, RemoveJournal, PublishInv, Isolation, Journals, Control, Owning,
       Visiting, Footprint, ReconcileSteps, LoopSteps
<1>3. \A p \in Runs : Decisive(p) = journal[p] /\ Decisive(p)' = journal'[p] /\ (journal[p] # Nothing => p = q)
  BY <1>next, <1>1, <1>2 DEF PublishInv, Isolation, Footprint, Decisive, IsJournal
<1>4. \A p \in Runs : ~Pending(p)'
  <2>1. CASE Clean
    BY <1>next, <2>1, <1>1, <1>3 DEF Clean, PublishInv, Journals, Pending, IsJournal
  <2>2. CASE RemoveJournal
    BY <1>next, <2>2, <1>1, <1>3 DEF RemoveJournal, PublishInv, TypeOK, Pending, IsJournal
  <2> QED
    BY <1>next, <2>1, <2>2
<1>5. Recovered' = dest
  BY <1>next, <1>1, <1>4, RecoveredFormNext DEF RecoveredIs
<1>6. CASE pub.step = "clean"
  <2>1. \A p \in Runs : ~Pending(p)
    BY <1>next, <1>3, <1>6 DEF PublishInv, Journals, Pending, IsJournal
  <2> QED
    BY <1>next, <1>5, <2>1, RecoveredForm DEF RecoveredIs
<1>7. CASE pub.step = "undo"
  <2>1. Pending(q) /\ Recovered = Restored(q)
    BY <1>next, <1>1, <1>3, <1>7, RecoveredForm DEF PublishInv, Journals, Pending, IsJournal,
         RecoveredIs
  <2>2. \A i \in 1..Len(Bundle[q]) : Undone(q, i)
    BY <1>next, <1>1, <1>7, BundleFacts DEF Clean, RemoveJournal, PublishInv, Loops, TypeOK,
         Publisher
  <2>3. ASSUME NEW f \in Files PROVE Restored(q)[f] = dest[f]
    BY <1>next, <1>1, <1>3, <2>2, BundleFacts DEF Restored, Undone
  <2>4. Restored(q) = dest
    BY <1>next, <2>3 DEF Restored, PublishInv, TypeOK
  <2> QED
    BY <1>next, <1>5, <2>1, <2>4
<1> QED
  BY <1>next, <1>1, <1>6, <1>7

\* The rename of a committed journal publishes the bundle; a crash before the rename
\* does so too, because the flushed scratch will be promoted.
LEMMA AtomicDecision ==
  ASSUME PublishInv, PublishInv', RenameScratch \/ (Crash /\ pub.step = "rename")
  PROVE  Recovered' = Recovered \/ Atomic!Next
<1> USE DEF At, Entry, Size
<1>next. PICK q \in Runs : q = pub.run
  BY DEF RenameScratch, Crash, PublishInv, TypeOK, Publisher
<1>1. /\ pub.step = "rename" /\ scratch[q] = pub.record /\ pub.record \in JournalRecord
      /\ dest' = dest /\ backup' = backup
  BY <1>next DEF RenameScratch, Crash, disk, PublishInv, Journals, Owning, OwnSteps,
       WriteSteps, TypeOK, Publisher
<1>2. Decisive(q) = journal[q] /\ Decisive(q)' = pub.record /\ IsJournal(pub.record)
  <2>1. IsJournal(pub.record)
    BY <1>1, NullJournals DEF IsJournal
  <2>2. CASE RenameScratch
    <3>1. journal'[q] = pub.record /\ scratch'[q] = Nothing
      BY <1>next, <1>1, <2>2 DEF RenameScratch, PublishInv, TypeOK
    <3> QED
      BY <1>next, <2>1, <3>1 DEF Decisive, IsJournal
  <2>3. CASE Crash
    <3>1. scratch' = scratch /\ pub'.run = NoRun
      BY <2>3, IdleFacts DEF Crash, Ends, disk
    <3> QED
      BY <1>next, <1>1, <2>1, <3>1, PublishNulls DEF Decisive
  <2> QED
    BY <2>2, <2>3
<1>3. \A p \in Runs : p # q => ~Pending(p) /\ ~Pending(p)'
  <2> SUFFICES ASSUME NEW p \in Runs, p # q PROVE ~Pending(p) /\ ~Pending(p)'
    OBVIOUS
  <2>1. journal[p] = Nothing /\ scratch[p] = Nothing
    BY <1>next, <1>1 DEF PublishInv, Isolation, Owning, OwnSteps, WriteSteps, Footprint
  <2>2. journal'[p] = Nothing /\ scratch'[p] = Nothing
    BY <1>next, <2>1 DEF RenameScratch, Crash, disk, PublishInv, TypeOK
  <2> QED
    BY <2>1, <2>2 DEF Pending, Decisive, IsJournal
<1>4. RecoveredIs /\ RecoveredIs'
  BY RecoveredForm, RecoveredFormNext
<1>5. CASE pub.record.state = "preparing"
  <2>1. Pending(q)' /\ ~Pending(q)
    BY <1>next, <1>1, <1>2, <1>5 DEF Pending, IsJournal, PublishInv, Journals, OwnSteps,
         WriteSteps
  <2>2. Recovered = dest /\ Recovered' = Restored(q)'
    BY <1>3, <1>4, <2>1 DEF RecoveredIs
  <2>3. \A i \in 1..Len(Bundle[q]) : Unmoved(q, i)
    BY <1>next, <1>1, <1>5 DEF PublishInv, Control, Progress, Staging, WriteSteps
  <2>4. ASSUME NEW f \in Files PROVE Restored(q)[f]' = dest[f]
    BY <1>1, <1>2, <2>3, BundleFacts DEF Restored, Unmoved
  <2>5. Restored(q)' = dest
    BY <1>1, <2>4 DEF Restored, PublishInv, TypeOK
  <2> QED
    BY <2>2, <2>5
<1>6. CASE pub.record.state = "prepared"
  <2>1. Pending(q)' /\ Pending(q) /\ journal[q].had = pub.record.had
    BY <1>next, <1>1, <1>2, <1>6 DEF Pending, IsJournal, PublishInv, Journals, OwnSteps,
         WriteSteps
  <2>2. ASSUME NEW f \in Files PROVE Restored(q)[f]' = Restored(q)[f]
    BY <1>1, <1>2, <2>1 DEF Restored
  <2> QED
    BY <2>1, <2>2, SameRestored
<1>7. CASE pub.record.state = "committed"
  <2>1. ~Pending(q)' /\ Pending(q)
    BY <1>next, <1>1, <1>2, <1>7 DEF Pending, IsJournal, PublishInv, Journals, OwnSteps,
         WriteSteps
  <2>2. Recovered = Restored(q) /\ Recovered' = dest
    BY <1>1, <1>3, <1>4, <2>1 DEF RecoveredIs
  <2>3. \A i \in 1..Len(Bundle[q]) : dest[Bundle[q][i]] = q
    BY <1>next, <1>1, <1>7 DEF PublishInv, Control, Progress, Complete, WriteSteps
  <2>4. ASSUME NEW f \in Files PROVE dest[f] = IF f \in FilesOf(q) THEN q ELSE Recovered[f]
    BY <2>2, <2>3, BundleFacts DEF Restored
  <2>5. dest = [f \in Files |-> IF f \in FilesOf(q) THEN q ELSE Recovered[f]]
    BY <2>4 DEF PublishInv, TypeOK
  <2>6. Atomic!FilesOf(q) = FilesOf(q)
    BY DEF Atomic!FilesOf, FilesOf
  <2>7. Atomic!Publish(q)
    BY <2>2, <2>5, <2>6 DEF Atomic!Publish
  <2> QED
    BY <2>7 DEF Atomic!Next
<1> QED
  BY <1>1, <1>5, <1>6, <1>7 DEF JournalRecord

\* The folder is what it was before the first run.
LEMMA AtomicInit == Init => Atomic!Init
<1> SUFFICES ASSUME Init PROVE Atomic!Init
  OBVIOUS
<1>1. \A q \in Runs : ~Pending(q)
  BY DEF Init, Pending, Decisive, IsJournal
<1>2. Recovered = dest
  BY <1>1, InitInv, RecoveredForm DEF RecoveredIs
<1> QED
  BY <1>2 DEF Init, Atomic!Init

\* Every step publishes one bundle whole or changes nothing.
LEMMA AtomicStep ==
  ASSUME "journal" \notin Faults, PublishInv, PublishInv', [Next]_vars
  PROVE  [Atomic!Next]_Recovered
<1>1. CASE UNCHANGED vars
  BY <1>1, SameDecision DEF vars, Decisive
<1>2. CASE Crash
  BY <1>2, AtomicControl, AtomicDecision
<1> QED
  BY <1>1, <1>2, AtomicQuiet, AtomicControl, AtomicSwap, AtomicUndo, AtomicSettled,
       AtomicDecision DEF Next

\* Direct publication is atomic: for any runs, bundles, crashes and failing copies,
\* renames and restores the recovered folder moves from bundle to bundle in single steps.
THEOREM AtomicTheorem ==
  ASSUME "journal" \notin Faults
  PROVE  Spec => AtomicPublication
<1>1. PublishInv /\ PublishInv' /\ [Next]_vars => [Atomic!Next]_Recovered
  BY AtomicStep
<1> QED
  BY <1>1, AtomicInit, PublishInvariant, PTL DEF Spec, AtomicPublication, Atomic!Spec

-----------------------------------------------------------------------------
\* The report of a publication.

\* Nothing of the run is in the folder, neither in place nor moved aside.
Untouched(r) == \A f \in Files : dest[f] # r /\ \A q \in Runs : backup[q][f] # r

\* What the run put in place it did not put over a file that it has not kept.
Revocable(had) == \A f \in Files :
  dest[f] = pub.run /\ backup[pub.run][f] = Nothing => f \notin had

\* What a publisher's own files and its journal say while it is still there to report:
\* its files appear where it may take them back, and while it cleans up all are in place.
Told ==
  /\ \A r \in Runs : outcome[r] = "none" => Untouched(r)
  /\ pub.run # NoRun => \A q \in Runs, f \in Files : backup[q][f] # pub.run
  /\ Visiting \/ pub.step = "check" => \A f \in Files : dest[f] # pub.run
  /\ pub.step \in OwnSteps => Revocable(pub.record.had)
  /\ pub.step \in ReconcileSteps /\ pub.why = "rescue" =>
       /\ pub.step # "clean"
       /\ journal[pub.run] # Nothing /\ journal[pub.run].state # "committed"
       /\ Revocable(journal[pub.run].had)
  /\ pub.step \in ReconcileSteps /\ pub.why = "cleanup" =>
       /\ pub.step \in {"load", "clean"}
       /\ journal[pub.run] # Nothing /\ journal[pub.run].state = "committed"
       /\ \A i \in 1..Size(pub.run) : dest[Entry(pub.run, i)] = pub.run

\* Who is at work: no step belongs to two parts of a publication.
LEMMA ToldParts ==
  ASSUME PublishInv, pub.run # NoRun
  PROVE  /\ pub.run \in Runs /\ outcome[pub.run] = "open"
         /\ pub.step \in ReconcileSteps /\ pub.why # "target" => pub.of = pub.run
BY DEF PublishInv, TypeOK, Publisher, Control

\* A publication that ends leaves only runs that have not started to speak of.
LEMMA ToldEnds ==
  ASSUME PublishInv, Told, pub.run # NoRun, UNCHANGED <<dest, backup>>,
         NEW o \in {"published", "restored", "stuck", "refused", "failed", "lost"}, Ends(o)
  PROVE  Told'
<1>1. pub'.run = NoRun /\ pub'.step = "idle"
  BY IdleFacts DEF Ends
<1>2. \A r \in Runs : outcome'[r] = "none" => outcome[r] = "none"
  BY DEF Ends, PublishInv, TypeOK
<1> QED
  BY <1>1, <1>2 DEF Told, Untouched, Visiting, OwnSteps, WriteSteps, ReconcileSteps, LoopSteps

\* A failing step enters the except clause with what it may take back.
LEMMA ToldRescue ==
  ASSUME PublishInv, Told, UNCHANGED disk, Goes(Rescue), pub.run # NoRun,
         pub.step \in {"copy", "fill", "swap", "install"}
  PROVE  Told'
<1>1. pub'.run = pub.run /\ pub'.step = "load" /\ pub'.why = "rescue"
  BY RescueFacts DEF Goes, PublishInv
<1>2. /\ journal[pub.run] # Nothing /\ journal[pub.run].had = pub.record.had
      /\ journal[pub.run].state # "committed"
  BY DEF PublishInv, Journals, OwnSteps, WriteSteps
<1> QED
  BY <1>1, <1>2 DEF Told, Untouched, Revocable, Visiting, OwnSteps, WriteSteps,
       ReconcileSteps, LoopSteps, Goes, disk

\* reconcile_journal raises: into the end of the publication, since a cleanup does not
\* fail and finds its journal.
LEMMA ToldRaises ==
  ASSUME PublishInv, Told, pub.run # NoRun, UNCHANGED disk, Raises,
         pub.step \in ReconcileSteps,
         pub.step # "clean",
         pub.step = "load" => journal[pub.of] \in {Nothing, Torn}
  PROVE  Told'
<1>1. pub.why # "cleanup"
  BY ToldParts DEF PublishInv, Journals, Told
<1>2. pub.why \in {"target", "rescue"}
  BY <1>1 DEF PublishInv, TypeOK, Publisher
<1>3. Ends("refused") \/ Ends("stuck")
  BY <1>2, RaisesForms
<1> QED
  BY <1>3, ToldEnds DEF disk

\* StartPublish, Promote, Promoted, Reconciled and ReconcileNext keep what is told.
LEMMA ToldVisits ==
  ASSUME PublishInv, Told,
         \/ \E q \in Runs : StartPublish(q) \/ Promote(q) \/ ReconcileNext(q)
         \/ Promoted \/ Reconciled
  PROVE  Told'
<1> USE DEF Visiting, OwnSteps, WriteSteps, ReconcileSteps, LoopSteps, disk, At, Goto
<1>1. ASSUME NEW r \in Runs, StartPublish(r) PROVE Told'
  <2>1. pub'.run = r /\ pub'.step = "promote"
    BY <1>1, IdleFacts DEF StartPublish, Publisher
  <2>2. \A q \in Runs : outcome'[q] = "none" => outcome[q] = "none"
    BY <1>1 DEF StartPublish, PublishInv, TypeOK
  <2>3. Untouched(r)
    BY <1>1 DEF Told, StartPublish
  <2> QED
    BY <1>1, <2>1, <2>2, <2>3 DEF StartPublish, Told, Untouched
<1>2. ASSUME NEW r \in Runs, Promote(r) PROVE Told'
  BY <1>2 DEF Promote, Told, Untouched
<1>3. ASSUME NEW r \in Runs, ReconcileNext(r) PROVE Told'
  <2>1. pub'.run = pub.run /\ pub'.step = "load" /\ pub'.why = "target"
    BY <1>3 DEF ReconcileNext, PublishInv, TypeOK, Publisher
  <2> QED
    BY <1>3, <2>1 DEF ReconcileNext, Told, Untouched
<1>4. CASE Promoted \/ Reconciled
  <2>1. pub'.run = pub.run /\ pub'.step \in {"reconcile", "check"} /\ pub.step \in {"promote", "reconcile"}
    BY <1>4 DEF Promoted, Reconciled, PublishInv, TypeOK, Publisher
  <2> QED
    BY <1>4, <2>1 DEF Promoted, Reconciled, Told, Untouched
<1> QED
  BY <1>1, <1>2, <1>3, <1>4

\* Check, journal writes and staging keep what is told.
LEMMA ToldWrites ==
  ASSUME PublishInv, Told,
         WriteScratch \/ FlushScratch \/ CopyStarts \/ CopyEnds \/ Commit
  PROVE  Told'
<1> USE DEF Visiting, OwnSteps, WriteSteps, ReconcileSteps, LoopSteps, disk, At, Goto
<1>1. CASE WriteScratch \/ FlushScratch \/ CopyStarts
  <2>1. /\ pub.step \in OwnSteps /\ pub'.run = pub.run /\ pub'.step \in {"flush", "rename", "fill"}
        /\ pub'.record = pub.record /\ UNCHANGED <<dest, backup, outcome>>
    BY <1>1 DEF WriteScratch, FlushScratch, CopyStarts, PublishInv, TypeOK, Publisher
  <2> QED
    BY <2>1 DEF Told, Untouched, Revocable
<1>2. CASE CopyEnds
  <2>1. pub.record \in JournalRecord /\ pub.at \in Nat
    BY DEF PublishInv, TypeOK, Publisher
  <2>2. pub'.run = pub.run /\ pub'.step \in {"write", "copy"} /\ pub'.record.had = pub.record.had
    <3>1. CASE Last
      <4> DEFINE rec == [pub.record EXCEPT !.state = "prepared"]
      <4>1. rec \in JournalRecord /\ rec.had = pub.record.had
        BY <2>1, RecordFacts
      <4>2. pub' = Writing(rec, "swap", 1)
        BY <1>2, <3>1 DEF CopyEnds
      <4> HIDE DEF rec
      <4> QED
        BY <4>1, <4>2, WritingFacts DEF PublishInv, Step
    <3>2. CASE ~Last
      BY <1>2, <3>2 DEF CopyEnds, PublishInv, TypeOK, Publisher
    <3> QED
      BY <3>1, <3>2
  <2>3. pub.step \in OwnSteps /\ UNCHANGED <<dest, backup, outcome>>
    BY <1>2 DEF CopyEnds
  <2> QED
    BY <2>2, <2>3 DEF Told, Untouched, Revocable
<1>3. CASE Commit
  <2>1. pub.record \in JournalRecord /\ pub.at \in Nat
    BY DEF PublishInv, TypeOK, Publisher
  <2> DEFINE rec == [pub.record EXCEPT !.state = "committed"]
             p == Writing(rec, "load", pub.at)
  <2>2. rec \in JournalRecord /\ rec.had = pub.record.had
    BY <2>1, RecordFacts
  <2> HIDE DEF rec
  <2>3. p \in Publisher /\ p.run = pub.run /\ p.step = "write" /\ p.record = rec
    BY <2>1, <2>2, WritingFacts DEF PublishInv, Step
  <2>6. pub' = [p EXCEPT !.of = pub.run, !.why = "cleanup"]
    BY <1>3 DEF Commit, rec
  <2> HIDE DEF p
  <2>4. pub'.run = pub.run /\ pub'.step = "write" /\ pub'.record.had = pub.record.had
    BY <2>2, <2>3, <2>6 DEF Publisher
  <2>5. pub.step \in OwnSteps /\ UNCHANGED <<dest, backup, outcome>>
    BY <1>3 DEF Commit
  <2> QED
    BY <2>4, <2>5 DEF Told, Untouched, Revocable
<1> QED
  BY <1>1, <1>2, <1>3

\* The rename of a journal: of a committed one only once every file is in place.
LEMMA ToldRename == ASSUME PublishInv, Told, RenameScratch PROVE Told'
<1> USE DEF Visiting, OwnSteps, WriteSteps, ReconcileSteps, LoopSteps, At, Goto
<1>1. /\ pub.step = "rename" /\ pub'.run = pub.run /\ pub'.step = pub.next /\ pub'.record = pub.record
      /\ pub'.why = pub.why /\ UNCHANGED <<dest, backup, outcome>>
      /\ journal' = [journal EXCEPT ![pub.run] = scratch[pub.run]]
      /\ pub.run \in Runs /\ pub.record \in JournalRecord
  BY DEF RenameScratch, PublishInv, TypeOK, Publisher
<1>2. pub.next \in {"copy", "swap", "install", "commit", "load"}
  BY <1>1 DEF PublishInv, Control
<1>3. pub.next = "load" => /\ pub.record.state = "committed" /\ pub.why = "cleanup"
                           /\ \A i \in 1..Size(pub.run) : dest[Entry(pub.run, i)] = pub.run
  BY <1>1 DEF PublishInv, Control, Progress, Complete
<1>4. journal'[pub.run] = pub.record /\ journal'[pub.run] # Nothing
  BY <1>1, NullJournals DEF PublishInv, Journals, Owning, TypeOK
<1> QED
  BY <1>1, <1>2, <1>3, <1>4 DEF Told, Untouched, Revocable

\* Check: nothing of the run is in the folder, so it may take back what it will install.
LEMMA ToldCheck == ASSUME PublishInv, Told, Check PROVE Told'
<1> USE DEF At, disk
<1>1. pub.run # NoRun /\ pub.step = "check" /\ pub.run \in Runs /\ UNCHANGED <<dest, backup>>
  BY DEF Check, PublishInv, TypeOK, Publisher
<1>2. CASE Ends("failed")
  BY <1>1, <1>2, ToldEnds
<1>3. CASE Goes(Writing([state |-> "preparing",
                   had |-> {f \in FilesOf(pub.run) : dest[f] # Nothing}], "copy", 1))
  <2> DEFINE rec == [state |-> "preparing", had |-> {f \in FilesOf(pub.run) : dest[f] # Nothing}]
  <2>1. rec \in JournalRecord
    BY <1>1, BundleFacts DEF JournalRecord
  <2> HIDE DEF rec
  <2>2. pub'.run = pub.run /\ pub'.step = "write" /\ UNCHANGED outcome
    BY <1>3, <2>1, WritingFacts DEF Goes, PublishInv, Step, rec
  <2>3. \A f \in Files : dest[f] # pub.run
    BY <1>1 DEF Told
  <2> QED
    BY <1>1, <2>2, <2>3 DEF Told, Untouched, Revocable, Visiting, OwnSteps, WriteSteps,
         ReconcileSteps, LoopSteps
<1> QED
  BY <1>2, <1>3 DEF Check

\* A file that is moved aside is not the publisher's own.
LEMMA ToldBackUp == ASSUME PublishInv, Told, BackUp PROVE Told'
<1> USE DEF Visiting, OwnSteps, WriteSteps, ReconcileSteps, LoopSteps, At
<1>1. /\ pub.step = "swap" /\ pub.run \in Runs /\ pub.run # NoRun
      /\ pub.at \in 1..Size(pub.run) /\ pub.record \in JournalRecord /\ pub.at \in Nat
  BY DEF BackUp, PublishInv, TypeOK, Publisher, Control
<1>2. Here \in Files /\ Here \in FilesOf(pub.run)
  BY <1>1, BundleFacts DEF Here, Size
<1>3. pub'.run = pub.run /\ pub'.step = "write" /\ pub'.record = pub.record /\ UNCHANGED outcome
  BY <1>1, WritingFacts DEF BackUp, PublishInv, Step
<1>4. backup[pub.run][Here] = Nothing /\ Here \in pub.record.had
  BY <1>1 DEF BackUp, PublishInv, Progress, Swapping, Aside, Unmoved, Entry, Here
<1>5. dest[Here] # pub.run
  BY <1>1, <1>2, <1>4 DEF Told, Revocable
<1>6. /\ dest' = [dest EXCEPT ![Here] = Nothing]
      /\ backup' = [backup EXCEPT ![pub.run][Here] = dest[Here]]
  BY DEF BackUp
<1>7. \A f \in Files : dest'[f] = IF f = Here THEN Nothing ELSE dest[f]
  BY <1>6 DEF PublishInv, TypeOK
<1>8. \A q \in Runs, f \in Files :
        backup'[q][f] = IF q = pub.run /\ f = Here THEN dest[Here] ELSE backup[q][f]
  BY <1>6 DEF PublishInv, TypeOK
<1>9. \A r \in Runs : outcome'[r] = "none" => Untouched(r)'
  BY <1>2, <1>3, <1>7, <1>8, PublishNulls DEF Told, Untouched
<1>10. \A q \in Runs, f \in Files : backup'[q][f] # pub.run
  BY <1>1, <1>5, <1>8 DEF Told
<1>11. Revocable(pub.record.had)'
  BY <1>1, <1>3, <1>7, <1>8, PublishNulls DEF Told, Revocable
<1> QED
  BY <1>3, <1>9, <1>10, <1>11 DEF Told

\* A file that is installed replaced nothing, or what it replaced is aside.
LEMMA ToldInstall == ASSUME PublishInv, Told, Install PROVE Told'
<1> USE DEF Visiting, OwnSteps, WriteSteps, ReconcileSteps, LoopSteps, At
<1>1. /\ pub.step \in {"swap", "install"} /\ pub.run \in Runs /\ pub.run # NoRun
      /\ pub.at \in 1..Size(pub.run) /\ pub.record \in JournalRecord /\ pub.at \in Nat
      /\ outcome[pub.run] = "open"
  BY DEF Install, PublishInv, TypeOK, Publisher, Control
<1>2. Here \in Files /\ Here \in FilesOf(pub.run)
  BY <1>1, BundleFacts DEF Here, Size
<1>3. pub'.run = pub.run /\ pub'.step = "write" /\ pub'.record = pub.record /\ UNCHANGED outcome
  <2>1. CASE Last
    BY <1>1, <2>1, WritingFacts DEF Install, PublishInv, Step
  <2>2. CASE ~Last
    BY <1>1, <2>2, WritingFacts DEF Install, PublishInv, Step
  <2> QED
    BY <2>1, <2>2
<1>4. dest[Here] = Nothing
  BY <1>1 DEF Install, PublishInv, Progress, Swapping, Aside, Entry, Here
<1>5. temp[pub.run][Here] = pub.run
  BY <1>1 DEF PublishInv, Progress, Swapping, Entry, Here
<1>6. backup[pub.run][Here] = Nothing => Here \notin pub.record.had
  BY <1>1, <1>2, <1>4 DEF PublishInv, Entries, EntrySound
<1>7. dest' = [dest EXCEPT ![Here] = temp[pub.run][Here]] /\ UNCHANGED backup
  BY DEF Install
<1>8. \A f \in Files : dest'[f] = IF f = Here THEN pub.run ELSE dest[f]
  BY <1>5, <1>7 DEF PublishInv, TypeOK
<1>9. \A r \in Runs : outcome'[r] = "none" => Untouched(r)'
  BY <1>1, <1>3, <1>7, <1>8 DEF Told, Untouched
<1>10. Revocable(pub.record.had)'
  BY <1>1, <1>3, <1>6, <1>7, <1>8 DEF Told, Revocable
<1> QED
  BY <1>1, <1>3, <1>7, <1>9, <1>10 DEF Told

\* The loops of reconcile_journal keep the publisher's own files away from what another
\* run left, and take its own back by the journal.
LEMMA ToldLoops ==
  ASSUME PublishInv, Told, Clean \/ UndoInstall \/ Restore \/ DropTemporary
  PROVE  Told'
<1> USE DEF Visiting, OwnSteps, WriteSteps, ReconcileSteps, LoopSteps, At, Goto
<1>1. /\ pub.run \in Runs /\ pub.run # NoRun /\ pub.of \in Runs /\ pub.at \in Nat
      /\ pub.step \in {"undo", "drop", "clean"} /\ outcome[pub.run] = "open"
      /\ pub.step # "clean" => pub.why # "cleanup"
  BY DEF Clean, Cleaning, UndoInstall, Restore, DropTemporary, PublishInv, TypeOK, Publisher,
       Control, Told
<1>2. pub.at \in 1..Len(Bundle[pub.of])
  BY <1>1, BundleFacts DEF Clean, Cleaning, UndoInstall, Restore, DropTemporary, PublishInv,
       Control, Size
<1>3. File \in Files
  BY <1>1, <1>2, BundleFacts DEF File
<1>4. /\ pub'.run = pub.run /\ pub'.why = pub.why /\ pub'.of = pub.of
      /\ IF Clean THEN pub'.step = "clean" ELSE pub'.step \in {"undo", "drop"}
      /\ Clean <=> pub.step = "clean"
      /\ UNCHANGED <<journal, outcome>>
  BY <1>1 DEF Clean, Cleaning, UndoInstall, Restore, DropTemporary, PublishInv, TypeOK, Publisher
<1>5. \A f \in Files :
        \/ dest'[f] = dest[f]
        \/ pub.step = "undo" /\ dest'[f] \in {Nothing, backup[pub.of][f]}
  <2>1. CASE UNCHANGED dest
    BY <2>1
  <2>2. CASE UndoInstall
    BY <1>3, <2>2 DEF UndoInstall, PublishInv, TypeOK
  <2>3. CASE Restore
    BY <1>3, <2>3 DEF Restore, PublishInv, TypeOK
  <2> QED
    BY <2>1, <2>2, <2>3 DEF Clean, DropTemporary
<1>6. \A q \in Runs, f \in Files : backup'[q][f] = backup[q][f] \/ backup'[q][f] = Nothing
  <2>1. CASE UNCHANGED backup
    BY <2>1
  <2>2. CASE backup' = [backup EXCEPT ![pub.of][File] = Nothing]
    BY <1>1, <1>3, <2>2 DEF PublishInv, TypeOK
  <2> QED
    BY <2>1, <2>2 DEF Clean, UndoInstall, Restore, DropTemporary
<1>7. \A f \in Files : backup'[pub.of][f] # backup[pub.of][f] /\ pub.step # "clean" =>
        dest'[f] = backup[pub.of][f]
  BY <1>1, <1>3 DEF Clean, Cleaning, UndoInstall, Restore, DropTemporary, PublishInv, TypeOK
<1>8. \A r \in Runs : outcome'[r] = "none" => Untouched(r)'
  BY <1>1, <1>4, <1>5, <1>6, PublishNulls DEF Told, Untouched
<1>9. \A q \in Runs, f \in Files : backup'[q][f] # pub.run
  BY <1>1, <1>6, PublishNulls DEF Told
<1>10. pub.why = "target" => \A f \in Files : dest'[f] # pub.run
  BY <1>1, <1>5, PublishNulls DEF Told
<1>11. pub.why = "rescue" => Revocable(journal[pub.run].had)'
  <2> SUFFICES ASSUME pub.why = "rescue", NEW f \in Files, dest'[f] = pub.run,
                      backup'[pub.run][f] = Nothing
               PROVE  f \notin journal[pub.run].had
    BY <1>4 DEF Revocable
  <2>1. pub.of = pub.run /\ pub.step # "clean" /\ Revocable(journal[pub.run].had)
    BY <1>1 DEF PublishInv, Control, Told
  <2>2. dest[f] = pub.run /\ backup'[pub.run][f] = backup[pub.run][f]
    BY <1>1, <1>5, <1>7, <2>1, PublishNulls DEF Told
  <2> QED
    BY <2>1, <2>2 DEF Revocable
<1>12. pub.why = "cleanup" => UNCHANGED dest
  BY <1>1 DEF Clean, Cleaning, UndoInstall, Restore, DropTemporary
<1> QED
  BY <1>1, <1>4, <1>8, <1>9, <1>10, <1>11, <1>12 DEF Told

\* Opening a journal, the next entry and the end of the loops keep what is told.
LEMMA ToldTurns ==
  ASSUME "journal" \notin Faults, "cleanup" \notin Faults, PublishInv, Told,
         LoadJournal \/ RemoveJournal \/ RetainJournal \/ OperationFails
  PROVE  Told'
<1> USE DEF At, disk
<1>0. pub.run # NoRun /\ pub.run \in Runs
  BY DEF LoadJournal, RemoveJournal, EntriesDone, Cleaning, RetainJournal, OperationFails,
       PublishInv, TypeOK, Publisher
<1>1. CASE LoadJournal
  <2>1. pub.step = "load" /\ UNCHANGED disk
    BY <1>1 DEF LoadJournal
  <2>2. CASE journal[pub.of] \in {Nothing, Torn}
    <3>1. Raises
      BY <1>1, <2>2 DEF LoadJournal
    <3> QED
      BY <1>0, <2>1, <2>2, <3>1, ToldRaises DEF ReconcileSteps
  <2>3. CASE journal[pub.of] \notin {Nothing, Torn}
    <3>1. /\ pub'.run = pub.run /\ pub'.why = pub.why /\ pub'.of = pub.of /\ UNCHANGED outcome
          /\ pub'.step = IF journal[pub.of].state = "committed" THEN "clean" ELSE "undo"
      BY <1>1, <2>3 DEF LoadJournal, Goes, PublishInv, TypeOK, Publisher
    <3>2. pub.why # "target" => pub.of = pub.run
      BY <1>0, <2>1, ToldParts DEF ReconcileSteps
    <3> QED
      BY <2>1, <3>1, <3>2 DEF Told, Untouched, Revocable, Visiting, OwnSteps, WriteSteps,
           ReconcileSteps, LoopSteps
  <2> QED
    BY <2>2, <2>3
<1>2. CASE RemoveJournal
  <2>1. UNCHANGED <<dest, backup>> /\ pub.step \in {"clean", "undo"}
    BY <1>2 DEF RemoveJournal, EntriesDone, Cleaning
  <2>2. CASE Ends("published") \/ Ends("restored")
    BY <1>0, <2>1, <2>2, ToldEnds
  <2>3. CASE pub.why = "target" /\ Goes([pub EXCEPT !.step = "reconcile"])
    <3>1. pub'.run = pub.run /\ pub'.step = "reconcile" /\ UNCHANGED outcome
      BY <2>3 DEF Goes, PublishInv, TypeOK, Publisher
    <3> QED
      BY <2>1, <2>3, <3>1 DEF Told, Untouched, Visiting, OwnSteps, WriteSteps,
           ReconcileSteps, LoopSteps
  <2> QED
    BY <1>2, <2>2, <2>3, RemoveForms DEF PublishInv, TypeOK, Publisher
<1>3. CASE RetainJournal
  BY <1>0, <1>3, ToldRaises DEF RetainJournal, ReconcileSteps, LoopSteps
<1>4. CASE OperationFails
  <2>1. UNCHANGED disk /\ pub.step # "clean"
    BY <1>4 DEF OperationFails, Mismatch, FaultOf
  <2>2. CASE pub.step \in {"copy", "fill", "swap", "install"} /\ Goes(Rescue)
    BY <1>0, <2>1, <2>2, ToldRescue
  <2>3. CASE /\ pub.step \in {"undo", "drop"} /\ pub.at > 0
             /\ Goes([pub EXCEPT !.step = "undo", !.at = @ - 1, !.failed = TRUE])
    <3>1. pub'.run = pub.run /\ pub'.step = "undo" /\ pub'.why = pub.why /\ UNCHANGED outcome
      BY <2>3 DEF Goes, PublishInv, TypeOK, Publisher
    <3> QED
      BY <2>1, <2>3, <3>1 DEF Told, Untouched, Revocable, Visiting, OwnSteps, WriteSteps,
           ReconcileSteps, LoopSteps
  <2>4. CASE pub.step \in {"undo", "clean"} /\ Raises
    BY <1>0, <2>1, <2>4, ToldRaises DEF ReconcileSteps, LoopSteps
  <2> QED
    BY <1>4, <2>2, <2>3, <2>4, FailureForms DEF PublishInv
<1> QED
  BY <1>1, <1>2, <1>3, <1>4

\* Every step keeps what is told.
LEMMA ToldStep ==
  ASSUME "journal" \notin Faults, "cleanup" \notin Faults, PublishInv, Told, [Next]_vars
  PROVE  Told'
<1>1. CASE UNCHANGED vars
  BY <1>1 DEF vars, Told, Untouched, Revocable, Visiting
<1>2. CASE Crash
  BY <1>2, ToldEnds DEF Crash, disk
<1>3. ASSUME NEW r \in Runs, RefuseTorn(r) PROVE Told'
  BY <1>3, ToldEnds DEF RefuseTorn, At, disk
<1> QED
  BY <1>1, <1>2, <1>3, ToldVisits, ToldWrites, ToldRename, ToldCheck, ToldBackUp, ToldInstall,
     ToldLoops, ToldTurns DEF Next

\* Only a cleanup that came to its end reports a publication, and only an except clause
\* a rollback: one that came to its end, or one whose journal stays.
LEMMA ReportForms ==
  ASSUME "journal" \notin Faults, "cleanup" \notin Faults, PublishInv, Told, [Next]_vars,
         NEW r \in Runs, outcome'[r] # outcome[r],
         outcome'[r] \in {"published", "restored", "stuck"}
  PROVE  /\ r = pub.run /\ r # NoRun /\ pub'.run = NoRun /\ pub.step \in ReconcileSteps
         /\ \/ RemoveJournal /\ pub.why = "cleanup" /\ outcome'[r] = "published"
            \/ RemoveJournal /\ pub.why = "rescue" /\ outcome'[r] = "restored"
            \/ UNCHANGED disk /\ pub.why = "rescue" /\ outcome'[r] = "stuck"
<1> DEFINE Goal == /\ r = pub.run /\ r # NoRun /\ pub'.run = NoRun /\ pub.step \in ReconcileSteps
                   /\ \/ RemoveJournal /\ pub.why = "cleanup" /\ outcome'[r] = "published"
                      \/ RemoveJournal /\ pub.why = "rescue" /\ outcome'[r] = "restored"
                      \/ UNCHANGED disk /\ pub.why = "rescue" /\ outcome'[r] = "stuck"
<1> SUFFICES Goal
  OBVIOUS
<1>0. pub.why \in {"target", "cleanup", "rescue"} /\ outcome \in [Runs ->
       {"none", "open", "published", "restored", "stuck", "refused", "failed", "lost"}]
  BY DEF PublishInv, TypeOK, Publisher
<1>1. ASSUME NEW o, Ends(o) PROVE r = pub.run /\ outcome'[r] = o /\ pub'.run = NoRun
  BY <1>1, <1>0, IdleFacts DEF Ends
<1>2. ASSUME Raises, UNCHANGED disk, pub.step \in ReconcileSteps, pub.run # NoRun PROVE Goal
  <2>1. \/ pub.why = "target" /\ Ends("refused")
        \/ pub.why = "cleanup" /\ Goes(Rescue)
        \/ pub.why = "rescue" /\ Ends("stuck")
    BY <1>0, <1>2, RaisesForms
  <2>2. ~Ends("refused") /\ ~Goes(Rescue)
    BY <1>1 DEF Goes
  <2> QED
    BY <1>1, <1>2, <2>1, <2>2
<1>3. CASE RemoveJournal
  <2>1. pub.step \in ReconcileSteps /\ pub.run # NoRun
    BY <1>3 DEF RemoveJournal, EntriesDone, Cleaning, At, ReconcileSteps, LoopSteps
  <2>2. \/ pub.why = "target" /\ Goes([pub EXCEPT !.step = "reconcile"])
        \/ pub.why = "cleanup" /\ Ends("published")
        \/ pub.why = "rescue" /\ Ends("restored")
    BY <1>0, <1>3, RemoveForms
  <2>3. pub.why # "target"
    BY <2>2 DEF Goes
  <2> QED
    BY <1>1, <1>3, <2>1, <2>2, <2>3
<1>4. CASE RetainJournal
  BY <1>2, <1>4 DEF RetainJournal, At, ReconcileSteps, LoopSteps
<1>5. CASE OperationFails
  <2>1. UNCHANGED disk /\ pub.run # NoRun
    BY <1>5 DEF OperationFails
  <2>2. \/ outcome' = outcome
        \/ pub.step \in {"undo", "clean"} /\ Raises
    BY <1>5, FailureForms DEF PublishInv, Goes
  <2> QED
    BY <1>2, <2>1, <2>2 DEF ReconcileSteps, LoopSteps
<1>6. CASE LoadJournal
  <2>1. UNCHANGED disk /\ pub.run # NoRun /\ pub.step = "load"
    BY <1>6 DEF LoadJournal, At
  <2>2. Raises
    BY <1>6 DEF LoadJournal, Goes
  <2> QED
    BY <1>2, <2>1, <2>2 DEF ReconcileSteps
<1>7. CASE Check
  <2>1. ~Ends("failed")
    BY <1>1
  <2>2. UNCHANGED outcome
    BY <1>7, <2>1 DEF Check, Goes
  <2> QED
    BY <2>2
<1>8. CASE Crash \/ \E q \in Runs : RefuseTorn(q)
  <2>1. Ends("lost") \/ Ends("refused")
    BY <1>8 DEF Crash, RefuseTorn
  <2> QED
    BY <1>1, <2>1
<1>9. ASSUME NEW q \in Runs, StartPublish(q) PROVE Goal
  <2>1. outcome'[r] = "open" \/ outcome'[r] = outcome[r]
    BY <1>0, <1>9 DEF StartPublish
  <2> QED
    BY <2>1
<1>10. CASE \/ \E q \in Runs : Promote(q) \/ ReconcileNext(q)
            \/ Promoted \/ Reconciled \/ WriteScratch \/ FlushScratch \/ RenameScratch
            \/ CopyStarts \/ CopyEnds \/ BackUp \/ Install \/ Commit
            \/ Clean \/ UndoInstall \/ Restore \/ DropTemporary \/ UNCHANGED vars
  <2>1. UNCHANGED outcome
    BY <1>10 DEF Promote, ReconcileNext, Promoted, Reconciled, WriteScratch, FlushScratch,
       RenameScratch, CopyStarts, CopyEnds, BackUp, Install, Commit, Clean, UndoInstall,
       Restore, DropTemporary, vars
  <2> QED
    BY <2>1
<1> HIDE DEF Goal
<1>11. \/ RemoveJournal \/ RetainJournal \/ OperationFails \/ LoadJournal \/ Check \/ Crash
       \/ \E q \in Runs : StartPublish(q) \/ RefuseTorn(q) \/ Promote(q) \/ ReconcileNext(q)
       \/ Promoted \/ Reconciled \/ WriteScratch \/ FlushScratch \/ RenameScratch
       \/ CopyStarts \/ CopyEnds \/ BackUp \/ Install \/ Commit
       \/ Clean \/ UndoInstall \/ Restore \/ DropTemporary \/ UNCHANGED vars
  BY DEF Next
<1> QED
  BY <1>3, <1>4, <1>5, <1>6, <1>7, <1>8, <1>9, <1>10, <1>11

\* A published run left its files in place and nothing else behind.
LEMMA PublishedTold ==
  ASSUME PublishInv, PublishInv', Told, RemoveJournal, pub.why = "cleanup",
         NEW r \in Runs, r = pub.run, pub.run # NoRun, pub.step \in ReconcileSteps
  PROVE  ~Leftover(r)' /\ \A f \in FilesOf(r) : dest'[f] = r
<1>1. pub.of = r
  BY ToldParts
<1>2. pub.step = "clean" /\ \A i \in 1..Size(r) : dest[Entry(r, i)] = r
  BY DEF Told, RemoveJournal, EntriesDone, At
<1>3. dest' = dest /\ journal'[r] = Nothing
  BY <1>1 DEF RemoveJournal, PublishInv, TypeOK
<1>4. \A f \in FilesOf(r) : dest'[f] = r
  BY <1>2, <1>3, BundleFacts DEF Size, Entry
<1>5. \A f \in Files : ~HasFile(r, f)'
  BY <1>3 DEF PublishInv, Journals
<1> QED
  BY <1>3, <1>4, <1>5 DEF Leftover, HasFile

\* A run that was rolled back to the end is not in the folder.
LEMMA RestoredTold ==
  ASSUME PublishInv, PublishInv', Told, RemoveJournal, pub.why = "rescue",
         pub.run # NoRun, pub.step \in ReconcileSteps
  PROVE  \A f \in FilesOf(pub.run) : Recovered'[f] # pub.run
<1>1. pub.run \in Runs /\ pub.of = pub.run
  BY ToldParts
<1>2. /\ pub.step = "undo" /\ pub.at = 0 /\ ~pub.failed /\ Revocable(journal[pub.run].had)
  BY DEF Told, RemoveJournal, EntriesDone, At
<1>3. dest' = dest /\ journal'[pub.run] = Nothing /\ UNCHANGED scratch
  BY <1>1 DEF RemoveJournal, PublishInv, TypeOK
<1>4. \A q \in Runs : journal'[q] = Nothing /\ scratch'[q] = Nothing
  BY <1>1, <1>2, <1>3 DEF RemoveJournal, PublishInv, TypeOK, Isolation, Journals, Owning,
       Footprint, ReconcileSteps, LoopSteps
<1>5. \A q \in Runs : ~Pending(q)'
  BY <1>4 DEF Pending, Decisive, IsJournal
<1>6. Recovered' = dest
  BY <1>3, <1>5, RecoveredFormNext DEF RecoveredIs
<1>7. ASSUME NEW i \in 1..Size(pub.run) PROVE dest[Entry(pub.run, i)] # pub.run
  <2>1. Undone(pub.run, i)
    BY <1>1, <1>2, <1>7, BundleFacts DEF PublishInv, Loops, Size
  <2>2. Entry(pub.run, i) \in Files
    BY <1>1, BundleFacts DEF Entry, Size
  <2> QED
    BY <1>1, <1>2, <2>1, <2>2, PublishNulls DEF Undone, Revocable
<1> QED
  BY <1>1, <1>6, <1>7, BundleFacts DEF Size, Entry

\* A run whose rollback failed keeps the journal by which the next reconciliation
\* takes it back.
LEMMA StuckTold ==
  ASSUME PublishInv, PublishInv', Told, UNCHANGED disk, pub'.run = NoRun, pub.why = "rescue",
         pub.run # NoRun, pub.step \in ReconcileSteps
  PROVE  \A f \in FilesOf(pub.run) : Recovered'[f] # pub.run
<1>1. pub.run \in Runs
  BY ToldParts
<1>2. /\ journal[pub.run] # Nothing /\ journal[pub.run] # Torn
      /\ journal[pub.run].state # "committed" /\ Revocable(journal[pub.run].had)
      /\ scratch[pub.run] = Nothing
  BY <1>1 DEF Told, PublishInv, Journals, Owning, ReconcileSteps, LoopSteps
<1>3. UNCHANGED <<dest, backup, journal, scratch>>
  BY DEF disk
<1>4. PICK p \in Runs : p = pub.run
  BY <1>1
<1>5. Decisive(p)' = journal[p] /\ Pending(p)'
  BY <1>2, <1>3, <1>4 DEF Pending, Decisive, IsJournal
<1>6. Recovered' = Restored(p)'
  BY <1>5, RecoveredFormNext DEF RecoveredIs
<1>7. \A q \in Runs, f \in Files : backup[q][f] # p
  BY <1>4 DEF Told
<1> QED
  BY <1>2, <1>3, <1>4, <1>5, <1>6, <1>7, BundleFacts, PublishNulls DEF Restored, Revocable

\* A caller is told what happened (flow_publish.py, publish_bundle), as long as journals
\* can be written and a cleanup does not fail; section 6 of the README has both cases.
THEOREM OutcomeTheorem ==
  ASSUME "journal" \notin Faults, "cleanup" \notin Faults
  PROVE  Spec => OutcomeTruthful
<1> DEFINE Truthful ==
      \A r \in Runs :
       /\ outcome'[r] = "published" /\ outcome[r] # "published" =>
            ~Leftover(r)' /\ \A f \in FilesOf(r) : dest'[f] = r
       /\ outcome'[r] \in {"restored", "stuck"} /\ outcome[r] = "open" =>
            \A f \in FilesOf(r) : Recovered'[f] # r
<1>1. Init => Told
  <2> SUFFICES ASSUME Init PROVE Told
    OBVIOUS
  <2>1. pub.run = NoRun /\ pub.step = "idle"
    BY IdleFacts DEF Init
  <2>2. \A r \in Runs : Untouched(r)
    BY PublishNulls DEF Init, Untouched
  <2> QED
    BY <2>1, <2>2 DEF Told, Visiting, OwnSteps, WriteSteps, ReconcileSteps, LoopSteps
<1>2. PublishInv /\ Told /\ [Next]_vars => Told'
  BY ToldStep
<1>3. PublishInv /\ PublishInv' /\ Told /\ [Next]_vars => [Truthful]_vars
  <2> SUFFICES ASSUME PublishInv, PublishInv', Told, [Next]_vars, NEW r \in Runs,
                      outcome'[r] # outcome[r],
                      outcome'[r] \in {"published", "restored", "stuck"}
               PROVE  /\ outcome'[r] = "published" =>
                           ~Leftover(r)' /\ \A f \in FilesOf(r) : dest'[f] = r
                      /\ outcome'[r] \in {"restored", "stuck"} =>
                           \A f \in FilesOf(r) : Recovered'[f] # r
    BY DEF Truthful
  <2>1. /\ r = pub.run /\ r # NoRun /\ pub'.run = NoRun /\ pub.step \in ReconcileSteps
        /\ \/ RemoveJournal /\ pub.why = "cleanup" /\ outcome'[r] = "published"
           \/ RemoveJournal /\ pub.why = "rescue" /\ outcome'[r] = "restored"
           \/ UNCHANGED disk /\ pub.why = "rescue" /\ outcome'[r] = "stuck"
    BY ReportForms
  <2>2. CASE RemoveJournal /\ pub.why = "cleanup" /\ outcome'[r] = "published"
    BY <2>1, <2>2, PublishedTold
  <2>3. CASE RemoveJournal /\ pub.why = "rescue" /\ outcome'[r] = "restored"
    BY <2>1, <2>3, RestoredTold
  <2>4. CASE UNCHANGED disk /\ pub.why = "rescue" /\ outcome'[r] = "stuck"
    BY <2>1, <2>4, StuckTold
  <2> QED
    BY <2>1, <2>2, <2>3, <2>4
<1>4. Spec => []PublishInv
  BY PublishInvariant
<1> QED
  BY <1>1, <1>2, <1>3, <1>4, PTL DEF Spec, OutcomeTruthful, Truthful
=============================================================================
