--------------------------- MODULE IndexLockProofs ---------------------------
(***************************************************************************)
(* Proofs about IndexLock, for any number of processes and pids, any bound *)
(* on the faults, with and without the reuse of pids.                      *)
(***************************************************************************)
EXTENDS IndexLock, TLAPS

Removing == {"remove", "preRemove", "peekRemove"}

\* Running processes have pids of their own; free slots have none.
PidsOk ==
    /\ \A p \in Procs : pid[p] = NoPid <=> pc[p] = "idle"
    /\ \A p, q \in Procs : pid[p] \in Pids /\ pid[p] = pid[q] => p = q

\* The creator of the file at the path still runs, and the pid in the file,
\* once written, is its pid.
CreatorOk ==
    creator \in Procs =>
        /\ pc[creator] \in Owning \cup {"exit"}
        /\ lock # Absent
        /\ lock \in Pids => lock = pid[creator]
        /\ pc[creator] = "write" => lock = Empty

\* What a process has read stays true of the file it has read.
SeenOk ==
    \A p \in Procs :
        /\ intact[p] => lock # Absent /\ (seen[p] \in Pids => lock = seen[p])
        /\ pc[p] \in Removing => seen[p] \in Pids
        /\ pc[p] \in Removing /\ intact[p] => creator = NoProc

OwnersOk == ~raced => \A p \in Owners : creator = p

IInv == TypeOK /\ PidsOk /\ CreatorOk /\ SeenOk /\ OwnersOk

-----------------------------------------------------------------------------

(* One step of one process, with the choice of a command made explicit.    *)
LEMMA NextCases ==
    ASSUME [Next]_vars
    PROVE  \/ \E p \in Procs, c \in Commands : Start(p, c)
           \/ \E p \in Procs : Step(p)
           \/ \E p \in Procs : Failure(p)
           \/ UNCHANGED vars
  BY DEF Next

LEMMA TypeStep ==
    ASSUME TypeOK, PidsOk, [Next]_vars
    PROVE  TypeOK'
<1> USE FaultBound, Sentinels DEF TypeOK, Goto, LockUnchanged, Labels,
        Acquiring, Owning, Peeking, Contents, Commands, Builders
<1>1. ASSUME NEW p \in Procs, NEW c \in Commands, Start(p, c) PROVE TypeOK'
  BY <1>1 DEF Start, FreePids
<1>2. ASSUME NEW p \in Procs, Step(p) PROVE TypeOK'
  <2>1. CASE Stat(p) BY <2>1 DEF Stat
  <2>2. CASE OpenExcl(p) BY <2>2 DEF OpenExcl, MayCreate
  <2>3. CASE AcquireRead(p) BY <2>3 DEF AcquireRead, ReadLock, Refused
  <2>4. CASE AcquireCheck(p) BY <2>4 DEF AcquireCheck, Forget, Refused
  <2>5. CASE AcquireRemove(p) BY <2>5 DEF AcquireRemove, MayRetry, Unlink, Refused
  <2>6. CASE WriteLock(p) BY <2>6 DEF WriteLock, PidsOk
  <2>7. CASE Restat(p) BY <2>7 DEF Restat
  <2>8. CASE Build(p) BY <2>8 DEF Build
  <2>9. CASE Release(p) BY <2>9 DEF Release, Unlink
  <2>10. CASE Peek(p)
    <3>1. CASE PeekRead(p, "peek", "peekCheck") BY <3>1 DEF PeekRead, ReadLock
    <3>2. CASE PeekCheck(p, "peekCheck", "peekRemove", "exit")
      BY <3>2 DEF PeekCheck, Forget
    <3>3. CASE PeekRemove(p, "peekRemove") BY <3>3 DEF PeekRemove, Unlink
    <3> QED BY <2>10, <3>1, <3>2, <3>3 DEF Peek
  <2>11. CASE Precheck(p)
    <3>1. CASE PeekRead(p, "prePeek", "preCheck") BY <3>1 DEF PeekRead, ReadLock
    <3>2. CASE PeekCheck(p, "preCheck", "preRemove", "peek")
      BY <3>2 DEF PeekCheck, Forget
    <3>3. CASE PeekRemove(p, "preRemove") BY <3>3 DEF PeekRemove, Unlink
    <3> QED BY <2>11, <3>1, <3>2, <3>3 DEF Precheck
  <2>12. CASE Exit(p) BY <2>12 DEF Exit, Dies
  <2> QED BY <1>2, <2>1, <2>2, <2>3, <2>4, <2>5, <2>6, <2>7, <2>8, <2>9,
             <2>10, <2>11, <2>12 DEF Step
<1>3. ASSUME NEW p \in Procs, Failure(p) PROVE TypeOK'
  <2> USE DEF Fault
  <2>1. CASE OpenFails(p) BY <2>1 DEF OpenFails
  <2>2. CASE AcquireReadFails(p) BY <2>2 DEF AcquireReadFails, Refused
  <2>3. CASE AcquireRemoveFails(p) BY <2>3 DEF AcquireRemoveFails, Refused, Forget
  <2>4. CASE WriteLockFails(p) BY <2>4 DEF WriteLockFails, Unlink
  <2>5. CASE BuildFails(p) BY <2>5 DEF BuildFails
  <2>6. CASE ReleaseFails(p) BY <2>6 DEF ReleaseFails
  <2>7. CASE PeekFails(p) BY <2>7 DEF PeekFails, Forget
  <2>8. CASE Crash(p) BY <2>8 DEF Crash, Dies
  <2> QED BY <1>3, <2>1, <2>2, <2>3, <2>4, <2>5, <2>6, <2>7, <2>8 DEF Failure
<1>4. CASE UNCHANGED vars
  BY <1>4 DEF vars
<1> QED BY <1>1, <1>2, <1>3, <1>4, NextCases

LEMMA PidsStep ==
    ASSUME TypeOK, PidsOk, [Next]_vars
    PROVE  PidsOk'
<1> USE Sentinels DEF TypeOK, PidsOk, Goto, LockUnchanged, Labels
<1>1. ASSUME NEW p \in Procs, NEW c \in Commands, Start(p, c) PROVE PidsOk'
  BY <1>1 DEF Start, FreePids, Running, Commands, Builders
<1>2. ASSUME NEW p \in Procs, Step(p), ~Exit(p) PROVE PidsOk'
  <2>1. pid' = pid
    BY <1>2 DEF Step, Stat, OpenExcl, AcquireRead, AcquireCheck, AcquireRemove,
       WriteLock, Restat, Build, Release, Peek, Precheck, PeekRead, PeekCheck,
       PeekRemove
  <2>2. \E l \in Labels \ {"idle"} : pc[p] # "idle" /\ pc' = [pc EXCEPT ![p] = l]
    BY <1>2 DEF Step, Stat, OpenExcl, AcquireRead, AcquireCheck, AcquireRemove,
       WriteLock, Restat, Build, Release, Peek, Precheck, PeekRead, PeekCheck,
       PeekRemove, Refused, Acquiring, Owning, Peeking
  <2> QED BY <2>1, <2>2
<1>3. ASSUME NEW p \in Procs, Failure(p), ~Crash(p) PROVE PidsOk'
  <2>1. pid' = pid
    BY <1>3 DEF Failure, OpenFails, AcquireReadFails, AcquireRemoveFails,
       WriteLockFails, BuildFails, ReleaseFails, PeekFails
  <2>2. pc[p] # "idle"
    BY <1>3 DEF Failure, OpenFails, AcquireReadFails, AcquireRemoveFails,
       WriteLockFails, BuildFails, ReleaseFails, PeekFails
  <2>3. \E l \in {"exit", "peek", "release"} : pc' = [pc EXCEPT ![p] = l]
    BY <1>3 DEF Failure, OpenFails, AcquireReadFails, AcquireRemoveFails,
       WriteLockFails, BuildFails, ReleaseFails, PeekFails, Refused
  <2> QED BY <2>1, <2>2, <2>3
<1>4. ASSUME NEW p \in Procs, Exit(p) \/ Crash(p) PROVE PidsOk'
  BY <1>4 DEF Exit, Crash, Dies
<1>5. CASE UNCHANGED vars
  BY <1>5 DEF vars
<1> QED BY <1>1, <1>2, <1>3, <1>4, <1>5, NextCases

(* Every variable keeps its type: contents of the lock path, labels, pids. *)
THEOREM TypeCorrect == Spec => [](TypeOK /\ PidsOk)
<1>1. Init => TypeOK /\ PidsOk
  <2> SUFFICES ASSUME Init PROVE TypeOK /\ PidsOk
    OBVIOUS
  <2>1. pc \in [Procs -> Labels] /\ faults \in 0..MaxFaults
    BY FaultBound DEF Init, Labels
  <2>2. TypeOK
    <3>1. raced \in BOOLEAN /\ intact \in [Procs -> BOOLEAN]
      BY DEF Init
    <3>2. cmd \in [Procs -> Commands \cup {NoPid}] /\ pid \in [Procs -> Pids \cup {NoPid}]
      BY DEF Init
    <3>3. seen \in [Procs -> Contents] /\ attempt \in [Procs -> 0..1]
      BY DEF Init, Contents
    <3>4. lock \in Contents /\ db \in BOOLEAN /\ creator \in Procs \cup {NoProc}
      BY DEF Init, Contents
    <3> QED BY <2>1, <3>1, <3>2, <3>3, <3>4 DEF TypeOK
  <2>3. PidsOk
    BY Sentinels DEF Init, PidsOk
  <2> QED BY <2>2, <2>3
<1>2. TypeOK /\ PidsOk /\ [Next]_vars => (TypeOK /\ PidsOk)'
  BY TypeStep, PidsStep
<1> QED BY <1>1, <1>2, PTL DEF Spec

(* The type invariant of the lock protocol by itself.                      *)
THEOREM TypesHold == Spec => []TypeOK
  BY TypeCorrect, PTL

-----------------------------------------------------------------------------
(* The three parts about the lock file, action by action.                  *)

LockParts == CreatorOk /\ SeenOk /\ OwnersOk

LEMMA StepKeepsLockParts ==
    ASSUME IInv, NEW p \in Procs, Step(p)
    PROVE  LockParts'
<1> USE Sentinels DEF IInv, TypeOK, PidsOk, LockParts, CreatorOk, SeenOk, OwnersOk,
        Owners, Owning, Removing, Goto, LockUnchanged, Contents
<1>1. CASE Stat(p) BY <1>1 DEF Stat
<1>2. CASE OpenExcl(p) BY <1>2 DEF OpenExcl, MayCreate
<1>3. CASE AcquireRead(p) BY <1>3 DEF AcquireRead, ReadLock, Refused
<1>4. CASE AcquireCheck(p) BY <1>4 DEF AcquireCheck, Forget, Refused, IsStale, Running
<1>5. CASE AcquireRemove(p)
  <2>1. pc[p] = "remove" /\ lock' = Absent /\ creator' = NoProc
    BY <1>5 DEF AcquireRemove, Unlink
  <2>2. \E l \in {"open", "exit", "peek"} : pc' = [pc EXCEPT ![p] = l]
    BY <1>5 DEF AcquireRemove, Refused
  <2>3. CreatorOk'
    BY <2>1
  <2>4. SeenOk'
    BY <1>5, <2>1, <2>2 DEF AcquireRemove, Unlink
  <2>5. OwnersOk'
    <3>1. ASSUME ~raced' PROVE Owners = {}
      BY <3>1, <1>5, <2>1 DEF AcquireRemove
    <3> QED BY <3>1, <2>2
  <2> QED BY <2>3, <2>4, <2>5
<1>6. CASE WriteLock(p) BY <1>6 DEF WriteLock
<1>7. CASE Restat(p) BY <1>7 DEF Restat
<1>8. CASE Build(p) BY <1>8 DEF Build
<1>9. CASE Release(p) BY <1>9 DEF Release, Unlink
<1>10. CASE Peek(p)
  <2>1. CASE PeekRead(p, "peek", "peekCheck") BY <2>1 DEF PeekRead, ReadLock
  <2>2. CASE PeekCheck(p, "peekCheck", "peekRemove", "exit")
    BY <2>2 DEF PeekCheck, Forget, IsStale, Running
  <2>3. CASE PeekRemove(p, "peekRemove") BY <2>3 DEF PeekRemove, Unlink
  <2> QED BY <1>10, <2>1, <2>2, <2>3 DEF Peek
<1>11. CASE Precheck(p)
  <2>1. CASE PeekRead(p, "prePeek", "preCheck") BY <2>1 DEF PeekRead, ReadLock
  <2>2. CASE PeekCheck(p, "preCheck", "preRemove", "peek")
    BY <2>2 DEF PeekCheck, Forget, IsStale, Running
  <2>3. CASE PeekRemove(p, "preRemove") BY <2>3 DEF PeekRemove, Unlink
  <2> QED BY <1>11, <2>1, <2>2, <2>3 DEF Precheck
<1>12. CASE Exit(p) BY <1>12 DEF Exit, Dies
<1> QED BY <1>1, <1>2, <1>3, <1>4, <1>5, <1>6, <1>7, <1>8, <1>9, <1>10, <1>11, <1>12 DEF Step

LEMMA FailureKeepsLockParts ==
    ASSUME IInv, NEW p \in Procs, Failure(p)
    PROVE  LockParts'
<1> USE Sentinels DEF IInv, TypeOK, PidsOk, LockParts, CreatorOk, SeenOk, OwnersOk,
        Owners, Owning, Removing, Goto, LockUnchanged, Contents
<1>1. CASE OpenFails(p) BY <1>1 DEF OpenFails
<1>2. CASE AcquireReadFails(p) BY <1>2 DEF AcquireReadFails, Refused
<1>3. CASE AcquireRemoveFails(p) BY <1>3 DEF AcquireRemoveFails, Refused, Forget
<1>4. CASE WriteLockFails(p) BY <1>4 DEF WriteLockFails, Unlink
<1>5. CASE BuildFails(p) BY <1>5 DEF BuildFails
<1>6. CASE ReleaseFails(p) BY <1>6 DEF ReleaseFails
<1>7. CASE PeekFails(p) BY <1>7 DEF PeekFails, Forget
<1>8. CASE Crash(p) BY <1>8 DEF Crash, Dies
<1> QED BY <1>1, <1>2, <1>3, <1>4, <1>5, <1>6, <1>7, <1>8 DEF Failure

LEMMA LockPartsStep ==
    ASSUME IInv, [Next]_vars
    PROVE  LockParts'
<1>1. ASSUME NEW p \in Procs, NEW c \in Commands, Start(p, c) PROVE LockParts'
  BY <1>1, Sentinels DEF Start, IInv, TypeOK, PidsOk, LockParts, CreatorOk,
     SeenOk, OwnersOk, Owners, Owning, Removing, Goto, LockUnchanged, Contents,
     Commands, Builders
<1>2. CASE UNCHANGED vars
  BY <1>2 DEF vars, IInv, LockParts, CreatorOk, SeenOk, OwnersOk, Owners
<1> QED BY <1>1, <1>2, NextCases, StepKeepsLockParts, FailureKeepsLockParts

(* The inductive invariant holds of every reachable state.                 *)
THEOREM Inductive == Spec => []IInv
<1>1. Init /\ TypeOK /\ PidsOk => IInv
  BY Sentinels DEF Init, IInv, CreatorOk, SeenOk, OwnersOk, Owners, Owning, Removing
<1>2. IInv /\ [Next]_vars => IInv'
  BY TypeStep, PidsStep, LockPartsStep DEF IInv, LockParts
<1> QED BY <1>1, <1>2, TypeCorrect, PTL DEF Spec

-----------------------------------------------------------------------------

(* As long as no process has unlinked a lock other than the one it judged   *)
(* stale, two commands never own the lock of lock.go together: neither      *)
(* crashes, nor failing system calls, nor reused pids break exclusion.      *)
THEOREM ExclusionUnlessRaced == Spec => []MutexUnlessRaced
<1>1. IInv => MutexUnlessRaced
  BY DEF IInv, OwnersOk, MutexUnlessRaced, Mutex
<1> QED BY <1>1, Inductive, PTL

(* A process about to unlink the very file it judged stale is right: no     *)
(* running process created that file.                                       *)
THEOREM StaleVerdictsAreSound == Spec => []VerdictSound
<1>1. IInv => VerdictSound
  BY DEF IInv, SeenOk, VerdictSound, Removing
<1> QED BY <1>1, Inductive, PTL

(* A lock file left without a pid stays for ever, short of the race.        *)
THEOREM MalformedLocksStay == Spec => MalformedKept
<1> DEFINE Kept == lock = Empty /\ creator = NoProc /\ ~raced' => lock' = Empty
<1>1. IInv /\ [Next]_vars => Kept
  <2> SUFFICES ASSUME IInv, [Next]_vars, lock = Empty, creator = NoProc, ~raced'
               PROVE  lock' = Empty
    OBVIOUS
  <2> USE Sentinels DEF IInv, TypeOK, SeenOk, OwnersOk, Owners, Owning, Removing,
          LockUnchanged
  <2>1. ASSUME NEW p \in Procs, NEW c \in Commands, Start(p, c) PROVE lock' = Empty
    BY <2>1 DEF Start
  <2>2. ASSUME NEW p \in Procs, Step(p) PROVE lock' = Empty
    BY <2>2 DEF Step, Stat, OpenExcl, MayCreate, AcquireRead, AcquireCheck, AcquireRemove,
       WriteLock, Restat, Build, Release, Peek, Precheck, PeekRead, PeekCheck,
       PeekRemove, ReadLock, Exit, Dies
  <2>3. ASSUME NEW p \in Procs, Failure(p) PROVE lock' = Empty
    BY <2>3 DEF Failure, OpenFails, AcquireReadFails, AcquireRemoveFails,
       WriteLockFails, BuildFails, ReleaseFails, PeekFails, Crash, Dies
  <2> QED BY <2>1, <2>2, <2>3, NextCases DEF vars
<1> QED BY <1>1, Inductive, PTL DEF Spec, MalformedKept
==============================================================================
