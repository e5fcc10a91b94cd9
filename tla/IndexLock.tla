------------------------------ MODULE IndexLock ------------------------------
(***************************************************************************)
(* The advisory lock file <index-db>.lock of src/lock.go and the way every *)
(* command of mzci goes through it.                                        *)
(*                                                                         *)
(* A command runs as an operating-system process.  The lock is a file: it  *)
(* is created with O_EXCL, filled with the pid of its creator in a second  *)
(* system call, and unlinked by path.  A process that meets a lock reads   *)
(* it, probes the recorded pid with signal 0 and, when that process is     *)
(* gone, unlinks the path.  Each of these system calls is one action, so   *)
(* that every interleaving of two commands is covered.                     *)
(***************************************************************************)
EXTENDS Naturals, FiniteSets

CONSTANTS
    Procs,      \* slots in which commands run, one process at a time in each
    Pids,       \* process ids the kernel hands out
    PidReuse,   \* may a new process get the pid recorded in the lock file?
    MaxFaults,  \* bound on the crashes and failing system calls of a behaviour
    Absent,     \* content of the lock path: there is no file
    Empty,      \* content of the lock path: created, not yet written
    NoProc,     \* creator of no file, or of a file whose creator has died
    NoPid       \* process id and command of a slot in which nothing runs

ASSUME FaultBound == MaxFaults \in Nat
ASSUME Sentinels ==
    /\ Absent \notin Pids
    /\ Empty \notin Pids
    /\ Absent # Empty
    /\ NoProc \notin Procs
    /\ NoPid \notin Pids
ASSUME ReuseFlag == PidReuse \in BOOLEAN

VARIABLES
    lock,     \* content of the lock path: Absent, Empty or the pid recorded
    db,       \* does the index database exist?
    pc,       \* next system call of each process
    cmd,      \* command each process runs
    pid,      \* process id of each running process, NoPid in a free slot
    seen,     \* lock content each process last read
    attempt,  \* iteration of the loop of acquireIndexLock, 0 or 1
    faults,   \* crashes and I/O failures so far
    \* History variables: they record what happened and guard nothing.
    creator,  \* running process that created the file now at the lock path
    intact,   \* is the file each process last read still the one at the path?
    raced     \* has a stale lock been "removed" that was another file by then?

vars == <<lock, db, pc, cmd, pid, seen, attempt, faults, creator, intact, raced>>

Builders == {"init", "rebuild", "update"}
Commands == Builders \cup {"query"}
Contents == {Absent, Empty} \cup Pids

\* Where a process can be: in acquireIndexLock, in its critical section, in
\* readActiveIndexLock (update calls it twice: the first time "pre"), elsewhere.
Acquiring == {"open", "read", "check", "remove"}
Owning    == {"write", "restat", "held", "release"}
Peeking   == {"prePeek", "preCheck", "preRemove", "peek", "peekCheck", "peekRemove"}
Labels    == {"idle", "stat", "exit"} \cup Acquiring \cup Owning \cup Peeking

Running(n) == \E q \in Procs : pid[q] = n

\* Processes between the creation of a lock file and its removal.
Owners == {p \in Procs : pc[p] \in Owning}

(* Every variable has its type; attempts stay below the bound of the loop in *)
(* acquireIndexLock.                                                         *)
TypeOK ==
    /\ lock \in Contents
    /\ db \in BOOLEAN
    /\ pc \in [Procs -> Labels]
    /\ cmd \in [Procs -> Commands \cup {NoPid}]
    /\ pid \in [Procs -> Pids \cup {NoPid}]
    /\ seen \in [Procs -> Contents]
    /\ attempt \in [Procs -> 0..1]
    /\ faults \in 0..MaxFaults
    /\ creator \in Procs \cup {NoProc}
    /\ intact \in [Procs -> BOOLEAN]
    /\ raced \in BOOLEAN

Init ==
    /\ lock = Absent
    /\ db \in BOOLEAN
    /\ pc = [p \in Procs |-> "idle"]
    /\ cmd = [p \in Procs |-> NoPid]
    /\ pid = [p \in Procs |-> NoPid]
    /\ seen = [p \in Procs |-> Absent]
    /\ attempt = [p \in Procs |-> 0]
    /\ faults = 0
    /\ creator = NoProc
    /\ intact = [p \in Procs |-> FALSE]
    /\ raced = FALSE

-----------------------------------------------------------------------------
(* Building blocks.                                                        *)

Goto(p, label) == pc' = [pc EXCEPT ![p] = label]

Fault == faults < MaxFaults /\ faults' = faults + 1

\* os.Remove of the lock path: whatever file is there now goes.
Unlink ==
    /\ lock' = Absent
    /\ creator' = NoProc
    /\ intact' = [q \in Procs |-> FALSE]

LockUnchanged == UNCHANGED <<lock, creator, intact>>

\* os.ReadFile of the lock path by p.
ReadLock(p) ==
    /\ seen' = [seen EXCEPT ![p] = lock]
    /\ intact' = [intact EXCEPT ![p] = lock # Absent]
    /\ UNCHANGED <<lock, creator>>

\* What was read goes out of scope.
Forget(p) ==
    /\ seen' = [seen EXCEPT ![p] = Absent]
    /\ intact' = [intact EXCEPT ![p] = FALSE]

\* Mutants of IsStale: a lock without a pid counts as stale; no lock ever does.
StaleWithoutPid(content) == ~Running(content)
NeverStale(content) == FALSE

\* isStaleIndexLock: a lock without a valid pid is never stale; otherwise
\* localProcessRunning decides (a process owned by somebody else is running).
IsStale(content) == content \in Pids /\ ~Running(content)

\* Mutant of Refused: the command waits for the lock.
TryAgain(p) == Goto(p, "open")

\* What follows errIndexLocked: rebuild and update call printLockSkipped,
\* which goes through readActiveIndexLock; init returns the error.
Refused(p) == Goto(p, IF cmd[p] = "init" THEN "exit" ELSE "peek")

-----------------------------------------------------------------------------
(* A new process.                                                          *)

FreePids ==
    {n \in Pids : ~Running(n) /\ (PidReuse \/ n # lock)}

Start(p, c) ==
    /\ pc[p] = "idle"
    /\ \E n \in FreePids : pid' = [pid EXCEPT ![p] = n]
    /\ cmd' = [cmd EXCEPT ![p] = c]
    /\ Goto(p, CASE c \in {"init", "update"} -> "stat"
                 [] c = "rebuild" -> "open"
                 [] c = "query" -> "peek")
    /\ LockUnchanged
    /\ UNCHANGED <<db, seen, attempt, faults, raced>>

\* The stat of the database that precedes locking: init has nothing to do when
\* it exists; update, when it does not, reads the lock instead of taking it.
Stat(p) ==
    /\ pc[p] = "stat"
    /\ Goto(p, CASE cmd[p] = "init" -> (IF db THEN "exit" ELSE "open")
                 [] cmd[p] = "update" -> (IF db THEN "open" ELSE "prePeek")
                 [] OTHER -> "exit")
    /\ LockUnchanged
    /\ UNCHANGED <<db, cmd, pid, seen, attempt, faults, raced>>

-----------------------------------------------------------------------------
(* acquireIndexLock, one system call at a time.                            *)

\* Mutant of MayCreate: O_EXCL is forgotten.
MayTruncate == TRUE

\* O_CREATE with O_EXCL makes a file only where there is none.
MayCreate == lock = Absent

OpenExcl(p) ==
    /\ pc[p] = "open"
    /\ \/ /\ MayCreate
          /\ lock' = Empty
          /\ creator' = p
          /\ attempt' = [attempt EXCEPT ![p] = 0]
          /\ Goto(p, "write")
          /\ UNCHANGED intact
       \/ /\ ~MayCreate
          /\ Goto(p, "read")
          /\ LockUnchanged
          /\ UNCHANGED attempt
    /\ UNCHANGED <<db, cmd, pid, seen, faults, raced>>

\* Any error but EEXIST ends the command.
OpenFails(p) ==
    /\ pc[p] = "open"
    /\ Fault
    /\ Goto(p, "exit")
    /\ LockUnchanged
    /\ UNCHANGED <<db, cmd, pid, seen, attempt, raced>>

\* The lock can be gone again: then the command is refused all the same.
AcquireRead(p) ==
    /\ pc[p] = "read"
    /\ ReadLock(p)
    /\ IF lock = Absent THEN Refused(p) ELSE Goto(p, "check")
    /\ UNCHANGED <<db, cmd, pid, attempt, faults, raced>>

AcquireReadFails(p) ==
    /\ pc[p] = "read"
    /\ Fault
    /\ Refused(p)
    /\ LockUnchanged
    /\ UNCHANGED <<db, cmd, pid, seen, attempt, raced>>

AcquireCheck(p) ==
    /\ pc[p] = "check"
    /\ \/ IsStale(seen[p]) /\ Goto(p, "remove") /\ UNCHANGED <<seen, intact>>
       \/ ~IsStale(seen[p]) /\ Refused(p) /\ Forget(p)
    /\ UNCHANGED <<lock, creator, db, cmd, pid, attempt, faults, raced>>

\* Mutant of MayRetry: the bound of the loop is off by one.
RetriesTwice(p) == attempt[p] + 1 <= 2

\* The loop counts attempts from 0 and stops before 2.
MayRetry(p) == attempt[p] + 1 < 2

\* Unlink what is at the path and try once more; the second time is the last.
AcquireRemove(p) ==
    /\ pc[p] = "remove"
    /\ raced' = (raced \/ (lock # Absent /\ ~intact[p]))
    /\ Unlink
    /\ IF MayRetry(p)
         THEN Goto(p, "open") /\ attempt' = [attempt EXCEPT ![p] = @ + 1]
         ELSE Refused(p) /\ UNCHANGED attempt
    /\ seen' = [seen EXCEPT ![p] = Absent]
    /\ UNCHANGED <<db, cmd, pid, faults>>

AcquireRemoveFails(p) ==
    /\ pc[p] = "remove"
    /\ lock # Absent
    /\ Fault
    /\ Refused(p)
    /\ Forget(p)
    /\ UNCHANGED <<lock, creator, db, cmd, pid, attempt, raced>>

\* writeIndexLockFile.  The descriptor stays valid when the path has been
\* unlinked meanwhile: then the text reaches a file no path leads to.
WriteLock(p) ==
    /\ pc[p] = "write"
    /\ lock' = (IF creator = p THEN pid[p] ELSE lock)
    /\ Goto(p, IF cmd[p] = "init" THEN "restat" ELSE "held")
    /\ UNCHANGED <<db, cmd, pid, seen, attempt, faults, creator, intact, raced>>

WriteLockFails(p) ==
    /\ pc[p] = "write"
    /\ Fault
    /\ Unlink
    /\ Goto(p, "exit")
    /\ UNCHANGED <<db, cmd, pid, seen, attempt, raced>>

-----------------------------------------------------------------------------
(* The critical section.                                                   *)

\* init looks at the database again once it holds the lock.
Restat(p) ==
    /\ pc[p] = "restat"
    /\ Goto(p, IF db THEN "release" ELSE "held")
    /\ LockUnchanged
    /\ UNCHANGED <<db, cmd, pid, seen, attempt, faults, raced>>

\* init and rebuild create or replace the database, update changes it in place.
Build(p) ==
    /\ pc[p] = "held"
    /\ db' = TRUE
    /\ Goto(p, "release")
    /\ LockUnchanged
    /\ UNCHANGED <<cmd, pid, seen, attempt, faults, raced>>

BuildFails(p) ==
    /\ pc[p] = "held"
    /\ Fault
    /\ Goto(p, "release")
    /\ LockUnchanged
    /\ UNCHANGED <<db, cmd, pid, seen, attempt, raced>>

\* release unlinks the path without looking whose file it is.
Release(p) ==
    /\ pc[p] = "release"
    /\ Unlink
    /\ Goto(p, "exit")
    /\ UNCHANGED <<db, cmd, pid, seen, attempt, faults, raced>>

\* The error of os.Remove is dropped.
ReleaseFails(p) ==
    /\ pc[p] = "release"
    /\ Fault
    /\ Goto(p, "exit")
    /\ LockUnchanged
    /\ UNCHANGED <<db, cmd, pid, seen, attempt, raced>>

-----------------------------------------------------------------------------
(* readActiveIndexLock: queries, the skip notice and update without a       *)
(* database.                                                               *)

\* Three system calls, told apart by the labels.  locked is where the caller
\* goes when there is an active lock.
PeekRead(p, here, check) ==
    /\ pc[p] = here
    /\ ReadLock(p)
    /\ Goto(p, IF lock = Absent THEN "exit" ELSE check)
    /\ UNCHANGED <<db, cmd, pid, attempt, faults, raced>>

PeekCheck(p, here, remove, locked) ==
    /\ pc[p] = here
    /\ \/ IsStale(seen[p]) /\ Goto(p, remove) /\ UNCHANGED <<seen, intact>>
       \/ ~IsStale(seen[p]) /\ Goto(p, locked) /\ Forget(p)
    /\ UNCHANGED <<lock, creator, db, cmd, pid, attempt, faults, raced>>

PeekRemove(p, here) ==
    /\ pc[p] = here
    /\ raced' = (raced \/ (lock # Absent /\ ~intact[p]))
    /\ Unlink
    /\ Goto(p, "exit")
    /\ seen' = [seen EXCEPT ![p] = Absent]
    /\ UNCHANGED <<db, cmd, pid, attempt, faults>>

Peek(p) ==
    \/ PeekRead(p, "peek", "peekCheck")
    \/ PeekCheck(p, "peekCheck", "peekRemove", "exit")
    \/ PeekRemove(p, "peekRemove")

\* update without a database: a lock makes it skip, which prints the notice.
Precheck(p) ==
    \/ PeekRead(p, "prePeek", "preCheck")
    \/ PeekCheck(p, "preCheck", "preRemove", "peek")
    \/ PeekRemove(p, "preRemove")

\* The read or the removal fails; the callers give up.
PeekFails(p) ==
    /\ pc[p] \in {"peek", "prePeek", "peekRemove", "preRemove"}
    /\ lock # Absent
    /\ Fault
    /\ Goto(p, "exit")
    /\ Forget(p)
    /\ UNCHANGED <<lock, creator, db, cmd, pid, attempt, raced>>

-----------------------------------------------------------------------------
(* The end of a process, by itself or by a signal or power loss.           *)

Dies(p) ==
    /\ Goto(p, "idle")
    /\ cmd' = [cmd EXCEPT ![p] = NoPid]
    /\ pid' = [pid EXCEPT ![p] = NoPid]
    /\ seen' = [seen EXCEPT ![p] = Absent]
    /\ attempt' = [attempt EXCEPT ![p] = 0]
    /\ intact' = [intact EXCEPT ![p] = FALSE]
    /\ creator' = (IF creator = p THEN NoProc ELSE creator)
    /\ UNCHANGED <<lock, db, raced>>

Exit(p) == pc[p] = "exit" /\ Dies(p) /\ UNCHANGED faults

Crash(p) == pc[p] \notin {"idle", "exit"} /\ Fault /\ Dies(p)

-----------------------------------------------------------------------------

\* The steps a process takes by itself, without a fault.
Step(p) ==
    \/ Stat(p) \/ OpenExcl(p) \/ AcquireRead(p) \/ AcquireCheck(p)
    \/ AcquireRemove(p) \/ WriteLock(p) \/ Restat(p) \/ Build(p) \/ Release(p)
    \/ Peek(p) \/ Precheck(p) \/ Exit(p)

Failure(p) ==
    \/ OpenFails(p) \/ AcquireReadFails(p) \/ AcquireRemoveFails(p)
    \/ WriteLockFails(p) \/ BuildFails(p) \/ ReleaseFails(p)
    \/ PeekFails(p) \/ Crash(p)

Next == \E p \in Procs :
    \/ \E c \in Commands : Start(p, c)
    \/ Step(p)
    \/ Failure(p)

Spec == Init /\ [][Next]_vars

\* The scheduler runs every process that can run, and users keep querying.
Fairness ==
    /\ \A p \in Procs : WF_vars(Step(p))
    /\ SF_vars(\E p \in Procs : Start(p, "query"))

FairSpec == Spec /\ Fairness

-----------------------------------------------------------------------------
(* Properties.                                                             *)

(* Two commands never both own the lock, from the creation of its file to   *)
(* its removal.  The code does not keep this: see MutexUnlessRaced.         *)
Mutex == \A p, q \in Owners : p = q

(* The reclaim race is the only way to lose exclusion: as long as nobody    *)
(* has unlinked a file other than the one it judged stale, at most one      *)
(* command owns the lock, and the file at the path is its own.  Crashes,    *)
(* failing system calls, reused pids and unconditional releases alone       *)
(* cannot break it.                                                         *)
MutexUnlessRaced ==
    ~raced => /\ Mutex
              /\ \A p \in Owners : creator = p

(* isStaleIndexLock is right about the file it read: when a process is      *)
(* about to unlink the very file it judged, no living process made it, even *)
(* if pids are reused between the reading and the probing.                  *)
VerdictSound ==
    \A p \in Procs :
        pc[p] \in {"remove", "preRemove", "peekRemove"} /\ intact[p]
            => seen[p] \in Pids /\ creator = NoProc

(* A lock left without a pid is malformed and nobody removes it, short of   *)
(* the reclaim race: commands stay locked out rather than guess.            *)
MalformedKept ==
    [][lock = Empty /\ creator = NoProc /\ ~raced' => lock' = Empty]_vars

(* Every command ends, whatever happens to the lock: a command that meets   *)
(* one never waits for it and retries once at most.                         *)
EveryCommandEnds == \A p \in Procs : pid[p] # NoPid ~> pid[p] = NoPid

(* A lock whose creator died after writing it does not stay: some later     *)
(* query reclaims it, provided the kernel does not reuse the pid at once.   *)
StaleReclaimed ==
    \A n \in Pids : lock = n /\ creator = NoProc ~> lock # n
==============================================================================
