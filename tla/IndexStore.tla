------------------------------ MODULE IndexStore ------------------------------
(***************************************************************************)
(* The index database on disk and the commands that replace it (init and    *)
(* rebuild, through a temporary database and a rename) or change it in     *)
(* place (update, through one transaction of a sqlite3 child process).     *)
(*                                                                         *)
(* The lock of IndexLock is taken as exclusive here; a stale lock counts   *)
(* as no lock.  SQLite is modelled from how src/ uses it: a transaction    *)
(* saves the old value of a row in the rollback journal, a file beside the *)
(* database, before it changes the row; whoever opens a database whose     *)
(* journal has no living writer plays the journal back first.              *)
(***************************************************************************)
EXTENDS Naturals, FiniteSets

CONSTANTS
    Procs,      \* commands that run at the same time
    Files,      \* tracked files; an index has one row per file
    Values,     \* what a row can hold, "no row" included
    Snapshots,  \* complete contents of an index, functions from Files to Values
    EmptyIndex, \* the snapshot init installs
    NoIndex,    \* there is no index file
    NoProc,     \* nobody
    Ops,        \* kinds of commands that run
    Faults,     \* kinds of faults that happen
    MaxFaults   \* bound on their number in a behaviour

ASSUME SnapshotsOk ==
    /\ Snapshots \subseteq [Files -> Values]
    /\ EmptyIndex \in Snapshots
    /\ NoIndex \notin [Files -> Values]
ASSUME NobodyRuns == NoProc \notin Procs
ASSUME OpsOk == Ops \subseteq {"init", "rebuild", "update"}
ASSUME FaultsOk == Faults \subseteq {"io", "kill", "power"} /\ MaxFaults \in Nat

VARIABLES
    \* The directory of the index.
    rows,     \* content of the file at the database path, NoIndex if none
    journal,  \* old rows in the journal at its path, empty if there is none
    writer,   \* child whose journal that is, NoProc if the child is gone
    temp,     \* does the temporary database of a command exist?
    \* The commands.
    lock,     \* living command that holds the index lock
    pc,       \* where each command is
    kind,     \* what each command does
    target,   \* snapshot each command has to install
    \* The sqlite3 child of each update.
    child,    \* its state
    base,     \* rows the update had loaded when it started the child
    sent,     \* is "commit" in the pipe of the child?
    on,       \* file it has open: the one at the path, or one renamed over
    todo,     \* rows it has yet to change
    image,    \* old rows in its journal, which it keeps open
    \* Faults and history.
    faults,   \* number of faults so far
    dropped,  \* a journal was deleted that was needed to restore the index
    overlap,  \* the child of a killed update was alive when another command
              \* read the index or put another file in its place
    cut       \* has a process been killed, or the machine stopped?

disk     == <<rows, journal, writer>>
commands == <<lock, pc, kind, target>>
memory   == <<base, sent, on, todo, image>>
children == <<child, memory>>
vars == <<disk, temp, commands, children, faults, dropped, overlap, cut>>

NoRows == [f \in {} |-> f]

PartialRows == UNION {[D -> Values] : D \in SUBSET Files}

(* Every variable has its type, and a command at work is the one the lock    *)
(* names: no two build at a time.                                            *)
TypeOK ==
    /\ rows \in [Files -> Values] \cup {NoIndex}
    /\ journal \in PartialRows
    /\ writer \in Procs \cup {NoProc}
    /\ temp \in [Procs -> BOOLEAN]
    /\ lock \in Procs \cup {NoProc}
    /\ \A p \in Procs : pc[p] # "idle" => lock = p
    /\ pc \in [Procs -> {"idle", "build", "sidecars", "rename", "load", "feed",
                         "wait", "done", "failed"}]
    /\ kind \in [Procs -> {"init", "rebuild", "update"}]
    /\ target \in [Procs -> Snapshots]
    /\ base \in [Procs -> [Files -> Values]]
    /\ sent \in [Procs -> BOOLEAN]
    /\ child \in [Procs -> {"none", "started", "txn", "ok", "failed"}]
    /\ on \in [Procs -> {"path", "replaced"}]
    /\ todo \in [Procs -> SUBSET Files]
    /\ image \in [Procs -> PartialRows]
    /\ faults \in 0..MaxFaults
    /\ dropped \in BOOLEAN
    /\ overlap \in BOOLEAN
    /\ cut \in BOOLEAN

Init ==
    /\ rows \in Snapshots \cup {NoIndex}
    /\ journal = NoRows
    /\ writer = NoProc
    /\ temp = [p \in Procs |-> FALSE]
    /\ lock = NoProc
    /\ pc = [p \in Procs |-> "idle"]
    /\ kind = [p \in Procs |-> "rebuild"]
    /\ target = [p \in Procs |-> EmptyIndex]
    /\ base = [p \in Procs |-> EmptyIndex]
    /\ sent = [p \in Procs |-> FALSE]
    /\ child = [p \in Procs |-> "none"]
    /\ on = [p \in Procs |-> "path"]
    /\ todo = [p \in Procs |-> {}]
    /\ image = [p \in Procs |-> NoRows]
    /\ faults = 0
    /\ dropped = FALSE
    /\ overlap = FALSE
    /\ cut = FALSE

-----------------------------------------------------------------------------
(* SQLite.                                                                 *)

\* r with the rows of old put back.
Restore(old, r) == [f \in Files |-> IF f \in DOMAIN old THEN old[f] ELSE r[f]]

\* Children in a transaction on the file at the database path: at most one,
\* since "begin immediate" takes the write lock of the file.
Writers == {q \in Procs : child[q] = "txn" /\ on[q] = "path"}

\* What a query sees.  A transaction is isolated while its process lives; a
\* journal without a writer on the file at the path is hot, whichever file it
\* was written for, and is played back.
Visible ==
    IF rows = NoIndex THEN NoIndex
    ELSE Restore(IF Writers = {} THEN journal
                 ELSE image[CHOOSE q \in Writers : TRUE], rows)

Hot == rows # NoIndex /\ Writers = {} /\ journal # NoRows

\* Opening the database plays back a hot journal and deletes it.
PlayBack ==
    IF Hot THEN rows' = Visible /\ journal' = NoRows /\ writer' = NoProc
           ELSE UNCHANGED disk

Query == Hot /\ PlayBack /\ UNCHANGED <<temp, commands, children, faults, dropped, overlap, cut>>

-----------------------------------------------------------------------------

Fault(k) == k \in Faults /\ faults < MaxFaults /\ faults' = faults + 1

Goto(p, label) == pc' = [pc EXCEPT ![p] = label]

\* What a command had in memory goes with its process.
ForgetCommand(p) ==
    /\ kind' = [kind EXCEPT ![p] = "rebuild"]
    /\ target' = [target EXCEPT ![p] = EmptyIndex]

\* Children whose command was killed.
Orphans == {q \in Procs : pc[q] = "idle" /\ child[q] \in {"started", "txn"}}

NoteOverlap == overlap' = (overlap \/ Orphans # {})

\* Mutant of MayLock: the file is opened whether it exists or not.
LocksAnyway == TRUE

\* The lock is there to be had: IndexLock says how.
MayLock == lock = NoProc

\* A command gets the lock and knows from here on what it will install.
\* update refuses to start without an index, init has nothing to do with one.
Start(p, k) ==
    /\ pc[p] = "idle" /\ child[p] = "none" /\ MayLock
    /\ k = "update" => rows # NoIndex
    /\ k = "init" => rows = NoIndex
    /\ lock' = p
    /\ kind' = [kind EXCEPT ![p] = k]
    /\ \E s \in (IF k = "init" THEN {EmptyIndex} ELSE Snapshots) :
           target' = [target EXCEPT ![p] = s]
    /\ temp' = [temp EXCEPT ![p] = @ \/ k # "update"]
    /\ Goto(p, IF k = "update" THEN "load" ELSE "build")
    /\ UNCHANGED <<disk, children, faults, dropped, overlap, cut>>

\* The deferred release of the lock, after everything else.
Finish(p) ==
    /\ pc[p] \in {"done", "failed"}
    /\ lock' = NoProc
    /\ Goto(p, "idle")
    /\ ForgetCommand(p)
    /\ UNCHANGED <<disk, temp, children, faults, dropped, overlap, cut>>

-----------------------------------------------------------------------------
(* init and rebuild: a temporary database, then installBuiltDB.             *)

\* Mutant of DropTemp: the deferred removal looks at the wrong flag.
KeepTemp(p) == UNCHANGED temp

\* The deferred removeDBFiles of a temporary database that is not installed.
DropTemp(p) == temp' = [temp EXCEPT ![p] = FALSE]

Build(p) ==
    /\ pc[p] = "build"
    /\ Goto(p, "sidecars")
    /\ UNCHANGED <<disk, temp, lock, kind, target, children, faults,
                   dropped, overlap, cut>>

\* Mutant of DeleteJournal: "-journal" is not among the suffixes.
LeaveJournal == UNCHANGED <<journal, writer>>

DeleteJournal == journal' = NoRows /\ writer' = NoProc

\* The sidecars of the installed database go first ...
RemoveSidecars(p) ==
    /\ pc[p] = "sidecars"
    /\ dropped' = (dropped \/ Hot)
    /\ NoteOverlap
    /\ DeleteJournal
    /\ Goto(p, "rename")
    /\ UNCHANGED <<rows, temp, lock, kind, target, children, faults, cut>>

\* ... then the temporary database takes its path.  Processes that have the
\* old file open keep it.
Rename(p) ==
    /\ pc[p] = "rename"
    /\ NoteOverlap
    /\ rows' = target[p]
    /\ on' = [q \in Procs |-> IF child[q] = "txn" THEN "replaced" ELSE on[q]]
    /\ temp' = [temp EXCEPT ![p] = FALSE]
    /\ dropped' = FALSE
    /\ Goto(p, "done")
    /\ UNCHANGED <<journal, writer, lock, kind, target, child, base, sent, todo,
                   image, faults, cut>>

\* Any failure removes the temporary database, and nothing else.
ReplaceFails(p) ==
    /\ pc[p] \in {"build", "sidecars", "rename"}
    /\ Fault("io")
    /\ DropTemp(p)
    /\ Goto(p, "failed")
    /\ UNCHANGED <<disk, lock, kind, target, children, dropped, overlap, cut>>

-----------------------------------------------------------------------------
(* update: one transaction of a sqlite3 child fed through a pipe.           *)

\* Mutant of Outdated: rows of files that are gone are not deleted.
ChangedOrNew(p) ==
    {f \in Files : target[p][f] \notin {Visible[f], EmptyIndex[f]}}

\* Rows that differ from the states loaded.
Outdated(p) == {f \in Files : Visible[f] # target[p][f]}

\* The states of the indexed files are read by a sqlite3 of their own, then
\* the child is started.  Rows equal to the states read are not written.
Load(p) ==
    /\ pc[p] = "load"
    /\ PlayBack
    /\ NoteOverlap
    /\ base' = [base EXCEPT ![p] = Visible]
    /\ todo' = [todo EXCEPT ![p] = Outdated(p)]
    /\ child' = [child EXCEPT ![p] = "started"]
    /\ on' = [on EXCEPT ![p] = "path"]
    /\ image' = [image EXCEPT ![p] = NoRows]
    /\ sent' = [sent EXCEPT ![p] = FALSE]
    /\ Goto(p, "feed")
    /\ UNCHANGED <<temp, lock, kind, target, faults, dropped, cut>>

\* The read gives up when a writer keeps the database locked.
LoadFails(p) ==
    /\ pc[p] = "load"
    /\ \/ Writers # {} /\ UNCHANGED faults
       \/ Fault("io")
    /\ Goto(p, "failed")
    /\ UNCHANGED <<disk, temp, lock, kind, target, children, dropped,
                   overlap, cut>>

\* The last statement goes into the pipe, which is then closed.
SendCommit(p) ==
    /\ pc[p] = "feed"
    /\ sent' = [sent EXCEPT ![p] = TRUE]
    /\ Goto(p, "wait")
    /\ UNCHANGED <<disk, temp, lock, kind, target, child, base, on, todo, image,
                   faults, dropped, overlap, cut>>

\* An error of the scan closes the pipe without a commit.
FeedFails(p) ==
    /\ pc[p] = "feed"
    /\ Fault("io")
    /\ Goto(p, "wait")
    /\ UNCHANGED <<disk, temp, lock, kind, target, children, dropped,
                   overlap, cut>>

\* Mutant of Outcome: the exit status of the child is ignored.
Regardless(p) == "done"

Outcome(p) == IF child[p] = "ok" THEN "done" ELSE "failed"

Wait(p) ==
    /\ pc[p] = "wait"
    /\ child[p] \in {"ok", "failed"}
    /\ Goto(p, Outcome(p))
    /\ child' = [child EXCEPT ![p] = "none"]
    /\ UNCHANGED <<disk, temp, lock, kind, target, memory, faults, dropped, overlap, cut>>

-----------------------------------------------------------------------------
(* The child.  Nobody waits for the child of a killed command.              *)

ForgetChild(p) ==
    /\ base' = [base EXCEPT ![p] = EmptyIndex]
    /\ sent' = [sent EXCEPT ![p] = FALSE]
    /\ on' = [on EXCEPT ![p] = "path"]
    /\ todo' = [todo EXCEPT ![p] = {}]
    /\ image' = [image EXCEPT ![p] = NoRows]

ChildEnds(p, result) ==
    /\ ForgetChild(p)
    /\ IF pc[p] = "idle"
         THEN child' = [child EXCEPT ![p] = "none"] /\ ForgetCommand(p)
         ELSE child' = [child EXCEPT ![p] = result] /\ UNCHANGED <<kind, target>>

OthersUnchanged == UNCHANGED <<temp, lock, pc, dropped, overlap, cut>>

ChildBegin(p) ==
    /\ child[p] = "started"
    /\ Writers = {}
    /\ PlayBack
    /\ child' = [child EXCEPT ![p] = "txn"]
    /\ UNCHANGED <<memory, kind, target, faults>>
    /\ OthersUnchanged

\* .timeout is over and the other writer still has its lock.
ChildTimesOut(p) ==
    /\ child[p] = "started"
    /\ Writers # {}
    /\ ChildEnds(p, "failed")
    /\ UNCHANGED <<disk, faults>>
    /\ OthersUnchanged

\* The old row goes to the journal before the row is changed in the file.  The
\* journal is created by path, unless the database is no longer at its path.
ChildWrite(p, f) ==
    /\ child[p] = "txn"
    /\ f \in todo[p]
    /\ on[p] = "path" \/ image[p] # NoRows
    /\ LET saved == [g \in DOMAIN image[p] \cup {f} |->
                       IF g \in DOMAIN image[p] THEN image[p][g]
                       ELSE IF on[p] = "path" THEN rows[g] ELSE base[p][g]]
           mine  == image[p] = NoRows \/ writer = p
       IN /\ image' = [image EXCEPT ![p] = saved]
          /\ journal' = (IF mine THEN saved ELSE journal)
          /\ writer' = (IF mine THEN p ELSE writer)
    /\ rows' = (IF on[p] = "path" THEN [rows EXCEPT ![f] = target[p][f]] ELSE rows)
    /\ todo' = [todo EXCEPT ![p] = @ \ {f}]
    /\ UNCHANGED <<child, base, sent, on, kind, target, faults>>
    /\ OthersUnchanged

\* Deleting the journal, by path, is what commits.
ChildCommit(p) ==
    /\ child[p] = "txn"
    /\ sent[p]
    /\ todo[p] = {}
    /\ on[p] = "path" \/ image[p] # NoRows
    /\ journal' = NoRows
    /\ writer' = NoProc
    /\ ChildEnds(p, "ok")
    /\ UNCHANGED <<rows, faults>>
    /\ OthersUnchanged

UndoTransaction(p) ==
    /\ rows' = (IF p \in Writers THEN Restore(image[p], rows) ELSE rows)
    /\ IF child[p] = "txn" THEN journal' = NoRows /\ writer' = NoProc
                           ELSE UNCHANGED <<journal, writer>>
    /\ ChildEnds(p, "failed")

\* Mutant of EndOfFile: only the end of a successful update closes the pipe.
ClosedAfterCommit(p) == sent[p]

\* The pipe is closed in any case: after the commit, by the deferred Close of a
\* command that fails, by the kernel when the command is killed.
EndOfFile(p) == pc[p] # "feed"

\* End of file without a commit, because the command failed or was killed, or
\* the database is not at its path any more when the journal is created.
ChildRollsBack(p) ==
    /\ child[p] \in {"started", "txn"}
    /\ \/ ~sent[p] /\ EndOfFile(p)
       \/ child[p] = "txn" /\ on[p] = "replaced" /\ image[p] = NoRows
    /\ UndoTransaction(p)
    /\ UNCHANGED faults
    /\ OthersUnchanged

\* A failing statement, which .bail makes the last one.
ChildBails(p) ==
    /\ child[p] \in {"started", "txn"}
    /\ Fault("io")
    /\ UndoTransaction(p)
    /\ OthersUnchanged

-----------------------------------------------------------------------------
(* Processes that die.                                                     *)

\* A signal ends the command: no deferred function runs, its child lives on.
KillCommand(p) ==
    /\ pc[p] # "idle"
    /\ Fault("kill")
    /\ Goto(p, "idle")
    /\ lock' = NoProc
    /\ IF child[p] \in {"started", "txn"}
         THEN UNCHANGED <<child, kind, target>>
         ELSE child' = [child EXCEPT ![p] = "none"] /\ ForgetCommand(p)
    /\ cut' = TRUE
    /\ UNCHANGED <<disk, temp, memory, dropped, overlap>>

\* A signal ends the child: the journal stays.
KillChild(p) ==
    /\ child[p] \in {"started", "txn"}
    /\ Fault("kill")
    /\ writer' = (IF writer = p THEN NoProc ELSE writer)
    /\ ChildEnds(p, "failed")
    /\ cut' = TRUE
    /\ UNCHANGED <<rows, journal, temp, lock, pc, dropped, overlap>>

\* The machine stops.
PowerLoss ==
    /\ Fault("power")
    /\ lock' = NoProc
    /\ pc' = [p \in Procs |-> "idle"]
    /\ kind' = [p \in Procs |-> "rebuild"]
    /\ target' = [p \in Procs |-> EmptyIndex]
    /\ child' = [p \in Procs |-> "none"]
    /\ base' = [p \in Procs |-> EmptyIndex]
    /\ sent' = [p \in Procs |-> FALSE]
    /\ on' = [p \in Procs |-> "path"]
    /\ todo' = [p \in Procs |-> {}]
    /\ image' = [p \in Procs |-> NoRows]
    /\ writer' = NoProc
    /\ cut' = TRUE
    /\ UNCHANGED <<rows, journal, temp, dropped, overlap>>

-----------------------------------------------------------------------------

Step(p) ==
    \/ Finish(p) \/ Build(p) \/ RemoveSidecars(p) \/ Rename(p)
    \/ Load(p) \/ LoadFails(p) \/ SendCommit(p) \/ Wait(p)

ChildStep(p) ==
    \/ ChildBegin(p) \/ ChildTimesOut(p) \/ ChildCommit(p) \/ ChildRollsBack(p)
    \/ \E f \in Files : ChildWrite(p, f)

Failure(p) ==
    ReplaceFails(p) \/ FeedFails(p) \/ ChildBails(p) \/ KillCommand(p) \/ KillChild(p)

Next ==
    \/ Query \/ PowerLoss
    \/ \E p \in Procs : \/ \E k \in Ops : Start(p, k)
                        \/ Step(p) \/ ChildStep(p) \/ Failure(p)

Spec == Init /\ [][Next]_vars

\* Processes that can run do.
Fairness == \A p \in Procs : WF_vars(Step(p)) /\ WF_vars(ChildStep(p))

FairSpec == Spec /\ Fairness

-----------------------------------------------------------------------------
(* Properties.                                                             *)

(* A query never sees a mixture of two indexes: what docs/COMMANDS/         *)
(* rebuild.md calls atomic replacement.  The code does not keep this when   *)
(* the machine stops: see WholeUnlessExposed.                               *)
Whole == Visible \in Snapshots \cup {NoIndex}

(* There are only two ways to a mixed index: installBuiltDB has deleted the *)
(* hot journal of a dead update and has not renamed yet, or the sqlite3 of  *)
(* a killed update was still at work when another command went on.          *)
WholeUnlessExposed == ~dropped /\ ~overlap => Whole

(* A command that is about to report success has installed exactly what it  *)
(* scanned, whatever journal, failed command or mixture it found before it. *)
SuccessInstalls ==
    \A p \in Procs : pc[p] = "done" /\ ~overlap => Visible = target[p]

(* A command that is about to report success leaves its index to everybody  *)
(* who comes after it.  The code does not keep this: the lock names the     *)
(* command only, so a rebuild can get it while the sqlite3 of a killed      *)
(* update still writes: see SuccessInstalls.                                *)
SuccessIsExact == \A p \in Procs : pc[p] = "done" => Visible = target[p]

(* Short of kills and power losses, no error path leaves a temporary        *)
(* database, or a journal without a transaction, behind.                    *)
NothingLeftBehind ==
    ~cut =>
    /\ \A p \in Procs : temp[p] => pc[p] \in {"build", "sidecars", "rename"}
    /\ journal # NoRows => Writers # {}

(* Every command ends and so does every child, its command killed or not:   *)
(* nobody waits for ever for the lock of the database.                      *)
EverythingEnds ==
    \A p \in Procs : pc[p] # "idle" \/ child[p] # "none"
                         ~> pc[p] = "idle" /\ child[p] = "none"

-----------------------------------------------------------------------------
(* Refinement: a command has applied its snapshot once its child has        *)
(* committed or its temporary database has been renamed.  A killed update    *)
(* still runs as long as its child does.                                    *)

Gone(p) == pc[p] = "idle" /\ child[p] = "none"

Progress ==
    [p \in Procs |-> IF Gone(p) THEN "idle"
                     ELSE IF pc[p] = "done" \/ child[p] = "ok" THEN "applied"
                     ELSE IF pc[p] = "failed" THEN "failed"
                     ELSE "running"]

Goal == [p \in Procs |-> IF Gone(p) THEN NoIndex ELSE target[p]]

Atomic == INSTANCE AtomicIndex WITH index <- Visible, op <- Progress, goal <- Goal

(* The files, journals and processes implement the atomic index, whatever    *)
(* fails or is killed and whenever the machine stops, except while one of    *)
(* the two exposures of WholeUnlessExposed lasts.                           *)
ImplementsAtomicIndex ==
    /\ Atomic!Init
    /\ [][~dropped' /\ ~overlap' => Atomic!Next]_(Atomic!vars)
==============================================================================
