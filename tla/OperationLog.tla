----------------------------- MODULE OperationLog -----------------------------
(***************************************************************************)
(* The log of init, rebuild and update beside the index                    *)
(* (src/operation_logs.go): a command makes a recorder when it begins,     *)
(* works under the index lock, reports, gives the lock back and records    *)
(* its run by a sqlite3 child that inserts a row and prunes the oldest in   *)
(* one transaction.  Commands record beside each other, since the lock of  *)
(* the index is free by then; SQLite lets one of them write at a time and   *)
(* the others wait five seconds.  A run that cannot be recorded is lost     *)
(* with a warning.                                                         *)
(***************************************************************************)
EXTENDS Naturals, FiniteSets

CONSTANTS
    Commands,   \* slots, each of which runs one command after another
    Nobody,     \* holder of a free lock
    Outsider,   \* a sqlite3 shell of a user that has the log open
    Kept,       \* maxStoredBuildRuns: rows the log keeps
    MaxRuns,    \* bound on the commands of a behaviour
    MaxFaults   \* bound on its failing calls and kills

ASSUME NamesOk ==
    Nobody \notin Commands \cup {Outsider} /\ Outsider \notin Commands
ASSUME BoundsOk == Kept \in Nat \ {0} /\ MaxRuns \in Nat /\ MaxFaults \in Nat

VARIABLES
    index,     \* is there an index at the database path?
    lock,      \* holder of the index lock
    pc,        \* next step of each command
    rec,       \* its recorder, and the error it is to end with
    table,     \* is there a log file, and does it have its table?
    log,       \* rows of the table, as committed
    writer,    \* holder of the write lock of the log
    draft,     \* rows as the transaction of the writer sees them
    runs,      \* number of commands so far
    faults,    \* number of faults so far
    \* History variables, sets of runs or rows.
    changed,   \* runs that made, replaced or updated the index
    mute,      \* runs that could not print their result
    ended,     \* runs that ended without a warning
    recorded   \* rows committed so far

workVars == <<index, lock, changed, mute>>
logVars == <<table, log, writer, draft, ended, recorded>>
vars == <<workVars, pc, rec, logVars, runs, faults>>

Operations == {"init", "rebuild", "update"}
Runs == 1..MaxRuns

Recorders == [run : 0..MaxRuns, op : Operations,
              status : {"succeeded", "skipped"}, err : BOOLEAN]
NoRecorder == [run |-> 0, op |-> "update", status |-> "succeeded", err |-> FALSE]

\* started_at, finished_at and the paths are left out.
Rows == [id : Nat \ {0}, run : Runs, op : Operations,
         status : {"succeeded", "failed", "skipped"}]

\* Steps of the sqlite3 child within its transaction.
Writing == {"insert", "prune", "commit"}

(* Every variable has its type, the log is never longer than it may be, and  *)
(* the holders of the two locks are where a holder can be.                   *)
TypeOK ==
    /\ index \in BOOLEAN
    /\ lock \in Commands \cup {Nobody}
    /\ pc \in [Commands -> {"idle", "stat", "lock", "work", "report", "release",
                            "open", "begin"} \cup Writing]
    /\ rec \in [Commands -> Recorders]
    /\ table \in {"absent", "bare", "ready"}
    /\ log \subseteq Rows /\ IsFiniteSet(log) /\ Cardinality(log) <= Kept
    /\ writer \in Commands \cup {Nobody, Outsider}
    /\ draft \subseteq Rows
    /\ runs \in 0..MaxRuns /\ faults \in 0..MaxFaults
    /\ changed \subseteq Runs /\ mute \subseteq Runs
    /\ ended \subseteq Runs /\ recorded \subseteq Rows
    /\ \A p \in Commands : lock = p => pc[p] \in {"work", "report", "release"}
    /\ \A p \in Commands : writer = p <=> pc[p] \in Writing

Init ==
    /\ index \in BOOLEAN
    /\ lock = Nobody
    /\ pc = [p \in Commands |-> "idle"]
    /\ rec = [p \in Commands |-> NoRecorder]
    /\ table = "absent" /\ log = {}
    /\ writer = Nobody /\ draft = {}
    /\ runs = 0 /\ faults = 0
    /\ changed = {} /\ mute = {} /\ ended = {} /\ recorded = {}

-----------------------------------------------------------------------------

Goto(p, label) == pc' = [pc EXCEPT ![p] = label]

Fault == faults < MaxFaults /\ faults' = faults + 1

Errs(p) == rec' = [rec EXCEPT ![p].err = TRUE]
Skips(p) == rec' = [rec EXCEPT ![p].status = "skipped"]

\* The process is gone.
Ends(p) == Goto(p, "idle") /\ rec' = [rec EXCEPT ![p] = NoRecorder]

\* beginBuildRun, once root and database are known.
Start(p) ==
    /\ pc[p] = "idle" /\ runs < MaxRuns
    /\ \E o \in Operations :
          rec' = [rec EXCEPT ![p] = [NoRecorder EXCEPT !.run = runs + 1, !.op = o]]
    /\ runs' = runs + 1
    /\ Goto(p, "stat")
    /\ UNCHANGED <<workVars, logVars, faults>>

\* An init that finds an index only writes the configuration: no recorder.
\* An update that finds none skips if somebody is at work, or fails.
Stat(p) ==
    /\ pc[p] = "stat"
    /\ \/ /\ rec[p].op = "rebuild" \/ index = (rec[p].op = "update")
          /\ Goto(p, "lock") /\ UNCHANGED rec
       \/ rec[p].op = "init" /\ index /\ Ends(p)
       \/ rec[p].op = "update" /\ ~index /\ lock # Nobody /\ Skips(p) /\ Goto(p, "report")
       \/ rec[p].op = "update" /\ ~index /\ lock = Nobody /\ Errs(p) /\ Goto(p, "open")
    /\ UNCHANGED <<workVars, logVars, runs, faults>>

\* A held lock makes rebuild and update skip, and init fail.
Acquire(p) ==
    /\ pc[p] = "lock"
    /\ \/ lock = Nobody /\ lock' = p /\ Goto(p, "work") /\ UNCHANGED rec
       \/ /\ lock # Nobody /\ rec[p].op # "init"
          /\ Skips(p) /\ Goto(p, "report") /\ UNCHANGED lock
       \/ /\ lock # Nobody /\ rec[p].op = "init"
          /\ Errs(p) /\ Goto(p, "open") /\ UNCHANGED lock
    /\ UNCHANGED <<index, changed, mute, logVars, runs, faults>>

\* The directory or the lock file cannot be made.
AcquireFails(p) ==
    /\ pc[p] = "lock" /\ Fault
    /\ Errs(p) /\ Goto(p, "open")
    /\ UNCHANGED <<workVars, logVars, runs>>

\* The work under the lock.  An init that finds an index now leaves it alone.
Work(p) ==
    /\ pc[p] = "work"
    /\ index' = TRUE
    /\ changed' = IF rec[p].op = "init" /\ index THEN changed
                  ELSE changed \cup {rec[p].run}
    /\ Goto(p, "report")
    /\ UNCHANGED <<lock, rec, mute, logVars, runs, faults>>

\* init and rebuild install their database as the last thing that may fail.  The
\* sqlite3 of an update may commit and then be killed before it exits, which
\* makes the update fail with its work done.
WorkFails(p) ==
    /\ pc[p] = "work" /\ Fault
    /\ \/ UNCHANGED changed
       \/ rec[p].op = "update" /\ changed' = changed \cup {rec[p].run}
    /\ Errs(p) /\ Goto(p, "release")
    /\ UNCHANGED <<index, lock, mute, logVars, runs>>

\* The result or the notice of the skip is printed.  The text format ignores
\* errors; writeJSON returns them, and the command fails with its work done.
Report(p) ==
    /\ pc[p] = "report"
    /\ Goto(p, IF lock = p THEN "release" ELSE "open")
    /\ \/ UNCHANGED <<rec, mute, faults>>
       \/ Fault /\ Errs(p) /\ mute' = mute \cup {rec[p].run}
    /\ UNCHANGED <<index, lock, changed, logVars, runs>>

\* The deferred release runs before the deferred finish.
Release(p) ==
    /\ pc[p] = "release"
    /\ lock' = Nobody
    /\ Goto(p, "open")
    /\ UNCHANGED <<index, rec, changed, mute, logVars, runs, faults>>

-----------------------------------------------------------------------------
(* The sqlite3 child of recordBuildRun.                                     *)

\* Mutant of Outcome: the error of the command is not looked at.
AsNoted(p) == rec[p].status

\* The status that finish gives the row.
Outcome(p) == IF rec[p].err THEN "failed" ELSE rec[p].status

\* Mutant of MayWrite: no begin immediate, the rows are read before the write
\* lock is held.
Unguarded(p) == TRUE

\* The write lock of the log.
MayWrite(p) == writer = Nobody

\* The file is made first, and the table in it by a transaction of its own.
OpenLog(p) ==
    /\ pc[p] = "open"
    /\ \/ table = "absent" /\ table' = "bare" /\ UNCHANGED pc
       \/ table = "bare" /\ MayWrite(p) /\ table' = "ready" /\ Goto(p, "begin")
       \/ table = "ready" /\ Goto(p, "begin") /\ UNCHANGED table
    /\ UNCHANGED <<workVars, rec, log, writer, draft, ended, recorded, runs, faults>>

BeginImmediate(p) ==
    /\ pc[p] = "begin" /\ MayWrite(p)
    /\ writer' = p /\ draft' = log
    /\ Goto(p, "insert")
    /\ UNCHANGED <<workVars, rec, table, log, ended, recorded, runs, faults>>

\* An integer primary key without autoincrement: one more than the largest.
FreshId(rows) ==
    IF rows = {} THEN 1
    ELSE 1 + (CHOOSE i \in {r.id : r \in rows} : \A r \in rows : r.id <= i)

NewRow(p, rows) == [id |-> FreshId(rows), run |-> rec[p].run, op |-> rec[p].op,
                    status |-> Outcome(p)]

Insert(p) ==
    /\ pc[p] = "insert"
    /\ draft' = draft \cup {NewRow(p, draft)}
    /\ Goto(p, "prune")
    /\ UNCHANGED <<workVars, rec, table, log, writer, ended, recorded, runs, faults>>

\* Rows of a set with a larger id than r.
Newer(r, rows) == {s \in rows : s.id > r.id}

\* Mutant of Newest: the order by clause is ascending.
Oldest(rows) == {r \in rows : Cardinality({s \in rows : s.id < r.id}) < Kept}

\* Mutant of Newest: off by one.
OneTooMany(rows) == {r \in rows : Cardinality(Newer(r, rows)) <= Kept}

\* The newest rows of a set, as many as are kept.
Newest(rows) == {r \in rows : Cardinality(Newer(r, rows)) < Kept}

Prune(p) ==
    /\ pc[p] = "prune"
    /\ draft' = Newest(draft)
    /\ Goto(p, "commit")
    /\ UNCHANGED <<workVars, rec, table, log, writer, ended, recorded, runs, faults>>

\* Commit, the end of the child and of the command.
CommitLog(p) ==
    /\ pc[p] = "commit"
    /\ log' = draft
    /\ recorded' = recorded \cup {r \in draft : r.run = rec[p].run}
    /\ ended' = ended \cup {rec[p].run}
    /\ writer' = Nobody /\ draft' = {}
    /\ Ends(p)
    /\ UNCHANGED <<workVars, table, runs, faults>>

\* Mutant of AfterTimeout: it is tried again.
TryAgain(p) == UNCHANGED <<pc, rec>>

AfterTimeout(p) == Ends(p)

\* busy_timeout has passed: a warning, and the end of the command.
TimesOut(p) ==
    /\ pc[p] = "begin" \/ (pc[p] = "open" /\ table = "bare")
    /\ writer # Nobody
    /\ AfterTimeout(p)
    /\ UNCHANGED <<workVars, logVars, runs, faults>>

\* The child fails or is killed: its transaction is rolled back, with a
\* warning if the command is still there.
ChildFails(p) ==
    /\ pc[p] \in {"open", "begin"} \cup Writing /\ Fault
    /\ Ends(p)
    /\ IF writer = p THEN writer' = Nobody /\ draft' = {}
                     ELSE UNCHANGED <<writer, draft>>
    /\ UNCHANGED <<workVars, table, log, ended, recorded, runs>>

\* The command is killed before it records: its lock counts as free, since it
\* is stale.  Later the child goes on alone, which makes no difference.
Crash(p) ==
    /\ pc[p] \in {"stat", "lock", "work", "report", "release"} /\ Fault
    /\ Ends(p)
    /\ lock' = IF lock = p THEN Nobody ELSE lock
    /\ UNCHANGED <<index, changed, mute, logVars, runs>>

\* A user keeps the log locked, for as long as it pleases; no row changes.
OutsiderLocks ==
    /\ writer = Nobody /\ table = "ready"
    /\ writer' = Outsider
    /\ UNCHANGED <<workVars, pc, rec, table, log, draft, ended, recorded, runs, faults>>

OutsiderUnlocks ==
    /\ writer = Outsider
    /\ writer' = Nobody
    /\ UNCHANGED <<workVars, pc, rec, table, log, draft, ended, recorded, runs, faults>>

Step(p) ==
    \/ Stat(p) \/ Acquire(p) \/ Work(p) \/ Report(p) \/ Release(p)
    \/ OpenLog(p) \/ BeginImmediate(p) \/ Insert(p) \/ Prune(p) \/ CommitLog(p)
    \/ TimesOut(p)

Next ==
    \/ OutsiderLocks \/ OutsiderUnlocks
    \/ \E p \in Commands :
          \/ Start(p) \/ Step(p)
          \/ AcquireFails(p) \/ WorkFails(p) \/ ChildFails(p) \/ Crash(p)

Spec == Init /\ [][Next]_vars

\* The scheduler runs every process that can run.  Nothing is assumed of the
\* outsider.
FairSpec == Spec /\ \A p \in Commands : WF_vars(Step(p))

\* Mutant of Logs: ordered by id without desc.
LogsById(limit) == {r \in log : Cardinality({s \in log : s.id < r.id}) < limit}

\* cmdLogs: the newest rows, no more than asked for.
Logs(limit) == {r \in log : Cardinality(Newer(r, log)) < limit}

-----------------------------------------------------------------------------
(* Properties.                                                             *)

(* A run that ended without a warning is in the log until as many newer     *)
(* runs as the log keeps are in it, whoever recorded at the same time: no    *)
(* row is lost to another writer or to the pruning.                         *)
RunsStay ==
    /\ \A n \in ended : \E r \in recorded : r.run = n
    /\ \A r \in recorded \ log :
          Cardinality(log) = Kept /\ \A s \in log : r.id < s.id

(* What logs prints has no gaps: a run it leaves out is older than each one  *)
(* it prints, and it prints as many as there are or were asked for.         *)
LogsHasNoGaps ==
    \A limit \in 1..Kept :
        LET shown == Logs(limit) IN
        /\ \A r \in recorded \ shown : \A s \in shown : r.id < s.id
        /\ Cardinality(shown) < limit => recorded = shown

(* An id stands for one run, for good, though SQLite gives the ids of        *)
(* deleted rows again: a newer row has a larger one than any before it.     *)
IdsGrow ==
    [][\A r \in recorded' \ recorded : \A s \in recorded : r.id > s.id]_vars

(* The status tells what became of the index.  A run that succeeded changed  *)
(* it, unless it was an init that found another one's index; one that was    *)
(* skipped did not; an init or rebuild that failed did only if all that      *)
(* failed was the printing of its result.  A failed update tells nothing.   *)
StatusIsTrue ==
    \A r \in recorded :
        /\ r.status = "succeeded" => r.op = "init" \/ r.run \in changed
        /\ r.status = "skipped" => r.op # "init" /\ r.run \notin changed
        /\ r.status = "failed" => r.op = "update" \/ r.run \notin changed \ mute

(* A command ends whatever becomes of the log, even if a user keeps it       *)
(* locked for good.                                                         *)
EveryCommandEnds == \A p \in Commands : pc[p] # "idle" ~> pc[p] = "idle"

(* A failed command has left the index alone.  The code does not keep this: *)
(* an error while the result is printed makes a run that has replaced the   *)
(* index a failed one, and so does the death of the sqlite3 that committed. *)
FailedLeavesIndex ==
    \A r \in recorded : r.status = "failed" => r.run \notin changed

(* Only the creation of a database records an init that succeeded.  The code *)
(* does not keep this: an init makes its recorder before it has the lock,    *)
(* and when it then finds the index of another command it still records.     *)
InitCreates ==
    \A r \in recorded : r.op = "init" /\ r.status = "succeeded" => r.run \in changed

(* logs answers as soon as there is a log file.  The code does not keep      *)
(* this: the file is there before its table, and may stay so.               *)
LogsAnswers == table # "bare"
==============================================================================
