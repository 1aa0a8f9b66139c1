---------------------------- MODULE DirectPublish ----------------------------
(***************************************************************************)
(* Direct publication (app/flow_publish.py): a run's deliverables replace  *)
(* the files of a shared target folder under an ownership journal.  Every  *)
(* operation on the file system is a step of its own, the process may die  *)
(* between any two of them, and the next publisher of the folder promotes  *)
(* and reconciles what it left.  The server's folder lock admits one       *)
(* publisher at a time; nobody else touches the files of a bundle.         *)
(*                                                                         *)
(* The entry flags backed_up and installed are written for the reader of a *)
(* journal only; a journal is abstracted to its state and had_destination. *)
(***************************************************************************)
EXTENDS Naturals, Sequences

CONSTANTS
  Runs, Files, NoRun,
  Nothing,   \* no such file
  Torn,      \* a file whose writer has not finished
  Before,    \* what a destination held before any of the runs
  Bundle,    \* run -> its deliverables, in publication order
  Existing,  \* the destinations that exist at first
  Faults     \* the operations that may raise OSError

ASSUME PublishNulls ==
  /\ NoRun \notin Runs
  /\ {Nothing, Torn, Before} \cap Runs = {}
  /\ Nothing # Torn /\ Nothing # Before /\ Torn # Before
ASSUME PublishShape ==
  /\ Existing \subseteq Files
  /\ Bundle \in [Runs -> Seq(Files)]
  /\ \A r \in Runs : Bundle[r] # <<>>
  /\ \A r \in Runs : \A i, j \in DOMAIN Bundle[r] : Bundle[r][i] = Bundle[r][j] => i = j
  /\ Faults \subseteq {"copy", "journal", "swap", "undo", "cleanup"}

VARIABLES
  dest,     \* the target folder's files
  temp,     \* run -> file -> its temporary copy
  backup,   \* run -> file -> what the run moved aside
  journal,  \* run -> its journal file
  scratch,  \* run -> the .tmp that will replace its journal
  pub,      \* the publisher
  outcome   \* run -> what publish_bundle told its caller

disk == <<dest, temp, backup, journal, scratch>>
vars == <<dest, temp, backup, journal, scratch, pub, outcome>>

FilesOf(r) == {Bundle[r][i] : i \in DOMAIN Bundle[r]}

Content == Runs \cup {Before, Nothing}
JournalRecord == [state : {"preparing", "prepared", "committed"}, had : SUBSET Files]
JournalFile == JournalRecord \cup {Nothing, Torn}
ASSUME NullJournals == {Nothing, Torn} \cap JournalRecord = {}
Step == {"idle", "promote", "reconcile", "check", "write", "flush", "rename", "copy",
         "fill", "swap", "install", "commit", "load", "undo", "drop", "clean"}
Publisher == [
  run    : Runs \cup {NoRun},    \* whose publish_bundle it is
  step   : Step,
  at     : Nat,                  \* entry in hand
  next   : Step,                 \* what follows the journal write
  record : JournalRecord,        \* the journal in memory
  of     : Runs \cup {NoRun},    \* the journal being reconciled ...
  why    : {"target", "cleanup", "rescue"}, \* ... and by which call
  failed : BOOLEAN]              \* some entry could not be restored

TypeOK ==
  /\ dest \in [Files -> Content]
  /\ temp \in [Runs -> [Files -> Content \cup {Torn}]]
  /\ backup \in [Runs -> [Files -> Content]]
  /\ journal \in [Runs -> JournalFile]
  /\ scratch \in [Runs -> JournalFile]
  /\ pub \in Publisher
  /\ outcome \in [Runs -> {"none", "open", "published", "restored", "stuck",
                           "refused", "failed", "lost"}]

NoRecord == [state |-> "preparing", had |-> {}]
IdlePublisher == [run |-> NoRun, step |-> "idle", at |-> 0, next |-> "idle",
                  record |-> NoRecord, of |-> NoRun, why |-> "target", failed |-> FALSE]

Init ==
  /\ dest = [f \in Files |-> IF f \in Existing THEN Before ELSE Nothing]
  /\ temp = [r \in Runs |-> [f \in Files |-> Nothing]]
  /\ backup = [r \in Runs |-> [f \in Files |-> Nothing]]
  /\ journal = [r \in Runs |-> Nothing]
  /\ scratch = [r \in Runs |-> Nothing]
  /\ pub = IdlePublisher
  /\ outcome = [r \in Runs |-> "none"]

-----------------------------------------------------------------------------
(* Control. *)

At(step) == pub.run # NoRun /\ pub.step = step
Goto(step) == pub' = [pub EXCEPT !.step = step]
Here == Bundle[pub.run][pub.at]   \* the file of the entry in hand
Last == pub.at = Len(Bundle[pub.run])

\* publish_bundle ends.
Ends(result) ==
  /\ pub' = IdlePublisher
  /\ outcome' = [outcome EXCEPT ![pub.run] = result]
Goes(p) == pub' = p /\ UNCHANGED outcome

\* The except clause: reconcile the run's own journal.
Rescue == [pub EXCEPT !.step = "load", !.of = pub.run, !.why = "rescue"]

\* reconcile_journal raises, into the call it was made by.
Raises ==
  CASE pub.why = "target"  -> Ends("refused")
    [] pub.why = "cleanup" -> Goes(Rescue)
    [] pub.why = "rescue"  -> Ends("stuck")

\* _write_journal, then on to a step for the entry numbered at.
Writing(record, next, at) ==
  [pub EXCEPT !.step = "write", !.record = record, !.next = next, !.at = at]

StartPublish(r) ==
  /\ pub.run = NoRun
  /\ outcome[r] = "none"
  /\ pub' = [IdlePublisher EXCEPT !.run = r, !.step = "promote"]
  /\ outcome' = [outcome EXCEPT ![r] = "open"]
  /\ UNCHANGED disk

-----------------------------------------------------------------------------
(* reconcile_target: promote the scratch journals, reconcile the journals. *)

Promotable == {q \in Runs : scratch[q] # Nothing}
Promote(q) ==
  /\ At("promote")
  /\ q \in Promotable
  /\ scratch[q] # Torn
  /\ journal' = [journal EXCEPT ![q] = scratch[q]]
  /\ scratch' = [scratch EXCEPT ![q] = Nothing]
  /\ UNCHANGED <<dest, temp, backup, pub, outcome>>

\* _load_journal of a scratch that was never finished: "unreadable".
RefuseTorn(q) ==
  /\ At("promote")
  /\ scratch[q] = Torn
  /\ Ends("refused")
  /\ UNCHANGED disk

Promoted ==
  /\ At("promote")
  /\ Promotable = {}
  /\ Goto("reconcile")
  /\ UNCHANGED <<disk, outcome>>

\* Mutant: a publisher looks for its own journal only.
UnreconciledOwn == {q \in {pub.run} : journal[q] # Nothing}
Unreconciled == {q \in Runs : journal[q] # Nothing}
ReconcileNext(q) ==
  /\ At("reconcile")
  /\ q \in Unreconciled
  /\ pub' = [pub EXCEPT !.step = "load", !.of = q, !.why = "target"]
  /\ UNCHANGED <<disk, outcome>>
Reconciled ==
  /\ At("reconcile")
  /\ Unreconciled = {}
  /\ Goto("check")
  /\ UNCHANGED <<disk, outcome>>

-----------------------------------------------------------------------------
(* publish_bundle. *)

\* The entries are built; staging files without a journal are not touched.
Check ==
  /\ At("check")
  /\ IF \E f \in FilesOf(pub.run) : temp[pub.run][f] # Nothing \/ backup[pub.run][f] # Nothing
     THEN Ends("failed")
     ELSE Goes(Writing([state |-> "preparing",
                        had |-> {f \in FilesOf(pub.run) : dest[f] # Nothing}], "copy", 1))
  /\ UNCHANGED disk

\* _write_journal: open and write the scratch, flush it, replace the journal.
WriteScratch ==
  /\ At("write")
  /\ scratch' = [scratch EXCEPT ![pub.run] = Torn]
  /\ Goto("flush")
  /\ UNCHANGED <<dest, temp, backup, journal, outcome>>
FlushScratch ==
  /\ At("flush")
  /\ scratch' = [scratch EXCEPT ![pub.run] = pub.record]
  /\ Goto("rename")
  /\ UNCHANGED <<dest, temp, backup, journal, outcome>>

RenameScratch ==
  /\ At("rename")
  /\ journal' = [journal EXCEPT ![pub.run] = scratch[pub.run]]
  /\ scratch' = [scratch EXCEPT ![pub.run] = Nothing]
  /\ Goto(pub.next)
  /\ UNCHANGED <<dest, temp, backup, outcome>>

\* _copy_verified: the temporary is created, filled and read back.
\* Mutant: the temporary is not read back.
CopyUnverified == Torn
CopyVerified == pub.run
CopyStarts ==
  /\ At("copy")
  /\ temp[pub.run][Here] = Nothing
  /\ temp' = [temp EXCEPT ![pub.run][Here] = Torn]
  /\ Goto("fill")
  /\ UNCHANGED <<dest, backup, journal, scratch, outcome>>
CopyEnds ==
  /\ At("fill")
  /\ temp' = [temp EXCEPT ![pub.run][Here] = CopyVerified]
  /\ pub' = IF Last THEN Writing([pub.record EXCEPT !.state = "prepared"], "swap", 1)
            ELSE [pub EXCEPT !.step = "copy", !.at = @ + 1]
  /\ UNCHANGED <<dest, backup, journal, scratch, outcome>>

\* An existing destination is moved aside and the move journaled.
BackUp ==
  /\ At("swap")
  /\ dest[Here] # Nothing
  /\ backup' = [backup EXCEPT ![pub.run][Here] = dest[Here]]
  /\ dest' = [dest EXCEPT ![Here] = Nothing]
  /\ pub' = Writing(pub.record, "install", pub.at)
  /\ UNCHANGED <<temp, journal, scratch, outcome>>

\* The new file takes the name; after the last one "committed" is journaled.
Install ==
  /\ At("install") \/ (At("swap") /\ dest[Here] = Nothing)
  /\ dest' = [dest EXCEPT ![Here] = temp[pub.run][Here]]
  /\ temp' = [temp EXCEPT ![pub.run][Here] = Nothing]
  /\ pub' = IF Last THEN Writing(pub.record, "commit", pub.at)
            ELSE Writing(pub.record, "swap", pub.at + 1)
  /\ UNCHANGED <<backup, journal, scratch, outcome>>
Commit ==
  /\ At("commit")
  /\ pub' = [Writing([pub.record EXCEPT !.state = "committed"], "load", pub.at)
             EXCEPT !.of = pub.run, !.why = "cleanup"]
  /\ UNCHANGED <<disk, outcome>>

-----------------------------------------------------------------------------
(* reconcile_journal. *)

File == Bundle[pub.of][pub.at]   \* of the entry being reconciled
Held == backup[pub.of][File] # Nothing

LoadJournal ==
  /\ At("load")
  /\ IF journal[pub.of] \in {Nothing, Torn} THEN Raises ELSE
       Goes(IF journal[pub.of].state = "committed"
            THEN [pub EXCEPT !.step = "clean", !.at = 1, !.failed = FALSE]
            ELSE [pub EXCEPT !.step = "undo", !.at = Len(Bundle[pub.of]), !.failed = FALSE])
  /\ UNCHANGED disk

\* Committed: every temporary (none is left by then) and backup goes.
\* Mutant: the loop stops before the last entry.
CleaningShort == At("clean") /\ pub.at < Len(Bundle[pub.of])
Cleaning == At("clean") /\ pub.at <= Len(Bundle[pub.of])
Clean ==
  /\ Cleaning
  /\ temp' = [temp EXCEPT ![pub.of][File] = Nothing]
  /\ backup' = [backup EXCEPT ![pub.of][File] = Nothing]
  /\ pub' = [pub EXCEPT !.at = @ + 1]
  /\ UNCHANGED <<dest, journal, scratch, outcome>>

\* Not committed, entries in reverse: the new file makes way ...
\* Mutant: a file that replaced nothing is kept.
UnneededHeld == Held /\ dest[File] # Nothing
Unneeded == dest[File] # Nothing /\ (Held \/ File \notin journal[pub.of].had)
UndoInstall ==
  /\ At("undo") /\ pub.at > 0
  /\ Unneeded /\ dest[File] = pub.of
  /\ dest' = [dest EXCEPT ![File] = Nothing]
  /\ IF Held THEN UNCHANGED pub ELSE Goto("drop")
  /\ UNCHANGED <<temp, backup, journal, scratch, outcome>>
\* ... the backup returns ...
Restore ==
  /\ At("undo") /\ pub.at > 0
  /\ Held /\ dest[File] = Nothing
  /\ dest' = [dest EXCEPT ![File] = backup[pub.of][File]]
  /\ backup' = [backup EXCEPT ![pub.of][File] = Nothing]
  /\ Goto("drop")
  /\ UNCHANGED <<temp, journal, scratch, outcome>>
\* ... or nothing had been changed, and the temporary goes.
DropTemporary ==
  /\ At("drop") \/ (At("undo") /\ pub.at > 0 /\ ~Held /\ ~Unneeded)
  /\ temp' = [temp EXCEPT ![pub.of][File] = Nothing]
  /\ pub' = [pub EXCEPT !.step = "undo", !.at = @ - 1]
  /\ UNCHANGED <<dest, backup, journal, scratch, outcome>>

\* All entries are done; the journal goes last, unless one of them failed.
EntriesDone == (At("clean") /\ ~Cleaning) \/ (At("undo") /\ pub.at = 0 /\ ~pub.failed)
RemoveJournal ==
  /\ EntriesDone
  /\ journal' = [journal EXCEPT ![pub.of] = Nothing]
  /\ CASE pub.why = "target"  -> Goes([pub EXCEPT !.step = "reconcile"])
       [] pub.why = "cleanup" -> Ends("published")
       [] pub.why = "rescue"  -> Ends("restored")
  /\ UNCHANGED <<dest, temp, backup, scratch>>
RetainJournal ==
  /\ At("undo") /\ pub.at = 0 /\ pub.failed
  /\ Raises
  /\ UNCHANGED disk

-----------------------------------------------------------------------------
(* OSError, and the death of the process. *)

FaultOf(step) ==
  CASE step \in {"copy", "fill"}             -> "copy"
    [] step \in {"write", "flush", "rename"} -> "journal"
    [] step \in {"swap", "install"}          -> "swap"
    [] step \in {"undo", "drop"}             -> "undo"
    [] step = "clean"                        -> "cleanup"
    [] OTHER                                 -> "none"

\* The new file is not as the journal describes it: it stays.
Mismatch == At("undo") /\ pub.at > 0 /\ Unneeded /\ dest[File] # pub.of

\* The first journal write is outside the try; an entry that cannot be
\* restored is noted and the others are tried.
OperationFails ==
  LET fault == FaultOf(pub.step)
      first == pub.record.state = "preparing" IN
  /\ pub.run # NoRun
  /\ fault \in Faults \/ Mismatch
  /\ CASE fault = "journal" /\ first             -> Ends("failed")
       [] fault = "journal" /\ ~first            -> Goes(Rescue)
       [] fault \in {"copy", "swap"}             -> Goes(Rescue)
       [] fault = "undo" /\ pub.at > 0           ->
            Goes([pub EXCEPT !.step = "undo", !.at = @ - 1, !.failed = TRUE])
       [] OTHER                                  -> Raises
  /\ UNCHANGED disk

Crash ==
  /\ pub.run # NoRun
  /\ Ends("lost")
  /\ UNCHANGED disk

-----------------------------------------------------------------------------
Next ==
  \/ \E r \in Runs : StartPublish(r) \/ Promote(r) \/ RefuseTorn(r) \/ ReconcileNext(r)
  \/ Promoted \/ Reconciled \/ Check
  \/ WriteScratch \/ FlushScratch \/ RenameScratch
  \/ CopyStarts \/ CopyEnds \/ BackUp \/ Install \/ Commit
  \/ LoadJournal \/ Clean
  \/ UndoInstall \/ Restore \/ DropTemporary \/ RemoveJournal \/ RetainJournal
  \/ OperationFails \/ Crash

Spec == Init /\ [][Next]_vars

-----------------------------------------------------------------------------
(* Properties. *)

\* The journal that decides about run q: its scratch, unless the process that
\* wrote it is still there to act on the journal itself.
IsJournal(j) == j \notin {Nothing, Torn}
Decisive(q) == IF IsJournal(scratch[q]) /\ pub.run # q THEN scratch[q] ELSE journal[q]
Pending(q) == IsJournal(Decisive(q)) /\ Decisive(q).state # "committed"

\* The target folder as the next reconciliation would leave it.
Recovered ==
  [f \in Files |->
     IF \E q \in Runs : Pending(q) /\ backup[q][f] # Nothing
     THEN backup[CHOOSE q \in Runs : Pending(q) /\ backup[q][f] # Nothing][f]
     ELSE IF \E q \in Runs : Pending(q) /\ f \in FilesOf(q) \ Decisive(q).had
     THEN Nothing
     ELSE dest[f]]

\* Publication replaces bundles in single steps (flow_publish.py:364,
\* "Atomically replace one validated direct-output bundle with rollback"):
\* whatever was renamed, torn or undone when the process died.
Atomic == INSTANCE AtomicBundle WITH content <- Recovered
AtomicPublication == Atomic!Spec

\* No publication starts over the leftovers of another: two runs never both
\* have files of their own in the folder, so no rollback undoes the work of a
\* later run.
Leftover(q) ==
  journal[q] # Nothing \/ \E f \in Files : temp[q][f] # Nothing \/ backup[q][f] # Nothing
OneTransaction == \A p, q \in Runs : Leftover(p) /\ Leftover(q) => p = q

\* What the caller is told is what happened: a published run left its files
\* in place and nothing else behind; a failed one is not in the folder
\* (flow_publish.py:3-8, "a normal failure restores the prior bundle").
OutcomeTruthful ==
  [][\A r \in Runs :
       /\ outcome'[r] = "published" /\ outcome[r] # "published" =>
            ~Leftover(r)' /\ \A f \in FilesOf(r) : dest'[f] = r
       /\ outcome'[r] \in {"restored", "stuck"} /\ outcome[r] = "open" =>
            \A f \in FilesOf(r) : Recovered'[f] # r]_vars

\* A dead publisher does not close the folder: without faults of the disk the
\* next one reconciles what it left (flow_publish.py:3-8, "an interrupted
\* restore can be reconciled by the next serialized publisher").
NeverRefused == Faults = {} => \A r \in Runs : outcome[r] # "refused"
=============================================================================
