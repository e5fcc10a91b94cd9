------------------------------ MODULE InitConfig ------------------------------
(***************************************************************************)
(* init: the project configuration it writes, the empty index it makes if   *)
(* there is none, and the roll-back of the configuration when it fails     *)
(* after writing it (cmdInit in src/cmd_build.go).                         *)
(*                                                                         *)
(* The lock covers the index only.  Other inits write the configuration at *)
(* any time; a rebuild (Builder) takes the lock and makes the index.       *)
(***************************************************************************)
EXTENDS Naturals

CONSTANTS
    Inits,      \* init commands that run at the same time
    Builder,    \* holder of the lock that is no init
    NoProc,     \* holder of a free lock
    Configs,    \* contents of the configuration file
    None,       \* there is no configuration file
    MaxFaults   \* bound on the failing system calls and kills of a behaviour

ASSUME NamesOk == Builder \notin Inits /\ NoProc \notin Inits \cup {Builder}
ASSUME NoneOk == None \notin Configs
ASSUME BoundOk == MaxFaults \in Nat

VARIABLES
    config,    \* content of .manazashi.toml, or None
    db,        \* does the index exist?
    lock,      \* holder of the index lock
    pc,        \* next step of each init
    force,     \* is each init run with --force?
    want,      \* configuration each init is to write
    old,       \* configuration each init found, to be restored
    faults,    \* number of faults so far
    \* History variables.
    before,    \* configuration at the start of the behaviour
    disturbed, \* has another init changed the configuration meanwhile?
    warned     \* has a roll-back failed?

vars == <<config, db, lock, pc, force, want, old, faults, before, disturbed, warned>>

Files == Configs \cup {None}

(* Every variable has its type; an init that has the lock is between taking  *)
(* it and its deferred release.                                              *)
TypeOK ==
    /\ config \in Files
    /\ db \in BOOLEAN
    /\ lock \in Inits \cup {Builder, NoProc}
    /\ pc \in [Inits -> {"idle", "read", "write", "stat", "lock", "restat",
                         "create", "undo", "refused", "ok", "unprinted", "failed"}]
    /\ force \in [Inits -> BOOLEAN]
    /\ want \in [Inits -> Configs]
    /\ old \in [Inits -> Files]
    /\ \A p \in Inits : lock = p => pc[p] \in {"restat", "create", "undo", "ok", "unprinted", "failed"}
    /\ faults \in 0..MaxFaults
    /\ before \in Files
    /\ disturbed \in [Inits -> BOOLEAN]
    /\ warned \in BOOLEAN

Init ==
    /\ config \in Files /\ before = config
    /\ db \in BOOLEAN
    /\ lock = NoProc
    /\ pc = [p \in Inits |-> "idle"]
    /\ force = [p \in Inits |-> FALSE]
    /\ want \in [Inits -> Configs]
    /\ old = [p \in Inits |-> None]
    /\ faults = 0
    /\ disturbed = [p \in Inits |-> FALSE]
    /\ warned = FALSE

-----------------------------------------------------------------------------

Goto(p, label) == pc' = [pc EXCEPT ![p] = label]

Fault == faults < MaxFaults /\ faults' = faults + 1

\* What a step leaves alone that is not about the configuration.
ConfigUnchanged == UNCHANGED <<config, disturbed>>
RunUnchanged == UNCHANGED <<force, want, old, before>>

\* The file at the path is replaced or removed by p.
Put(p, content) ==
    /\ config' = content
    /\ disturbed' = [q \in Inits |-> disturbed[q] \/ (q # p /\ pc[q] # "idle")]

Start(p) ==
    /\ pc[p] = "idle"
    /\ \E f \in BOOLEAN : force' = [force EXCEPT ![p] = f]
    /\ \E c \in Configs : want' = [want EXCEPT ![p] = c]
    /\ Goto(p, "read")
    /\ ConfigUnchanged
    /\ UNCHANGED <<db, lock, old, faults, before, warned>>

\* readExistingConfig; only --force may replace a configuration, and only one
\* that could be read.
ReadConfig(p) ==
    /\ pc[p] = "read"
    /\ \/ /\ old' = [old EXCEPT ![p] = config]
          /\ Goto(p, IF config # None /\ ~force[p] THEN "refused" ELSE "write")
          /\ UNCHANGED faults
       \/ Goto(p, "refused") /\ Fault /\ UNCHANGED old
    /\ ConfigUnchanged
    /\ UNCHANGED <<db, lock, force, want, before, warned>>

\* writeFileAtomically: the new file is there, or the old one is untouched.
WriteConfig(p) ==
    /\ pc[p] = "write"
    /\ \/ Put(p, want[p]) /\ Goto(p, "stat") /\ UNCHANGED faults
       \/ ConfigUnchanged /\ Goto(p, "failed") /\ Fault
    /\ RunUnchanged
    /\ UNCHANGED <<db, lock, warned>>

\* An index that exists is left alone, without the lock.
Stat(p) ==
    /\ pc[p] = "stat"
    /\ Goto(p, IF db THEN "ok" ELSE "lock")
    /\ ConfigUnchanged /\ RunUnchanged
    /\ UNCHANGED <<db, lock, faults, warned>>

AfterRefusal == "undo"

\* A lock somebody holds makes init fail.
Acquire(p) ==
    /\ pc[p] = "lock"
    /\ \/ lock = NoProc /\ lock' = p /\ Goto(p, "restat")
       \/ lock # NoProc /\ UNCHANGED lock /\ Goto(p, AfterRefusal)
    /\ ConfigUnchanged /\ RunUnchanged
    /\ UNCHANGED <<db, faults, warned>>

\* Mutant of AfterLock: the first look at the index is relied on.
CreateAnyway == "create"

\* The index may have been made since the first look.
AfterLock == IF db THEN "ok" ELSE "create"

Restat(p) ==
    /\ pc[p] = "restat"
    /\ Goto(p, AfterLock)
    /\ ConfigUnchanged /\ RunUnchanged
    /\ UNCHANGED <<db, lock, faults, warned>>

\* createEmptyIndexDB.
Create(p) ==
    /\ pc[p] = "create"
    /\ db' = TRUE
    /\ Goto(p, "ok")
    /\ ConfigUnchanged /\ RunUnchanged
    /\ UNCHANGED <<lock, faults, warned>>

\* Mutant of AfterError: the error is returned without rolling back.
GiveUp == "failed"

AfterError == "undo"

\* Any error after the configuration has been written.
StepFails(p) ==
    /\ pc[p] \in {"stat", "lock", "restat", "create"}
    /\ Fault
    /\ Goto(p, AfterError)
    /\ ConfigUnchanged /\ RunUnchanged
    /\ UNCHANGED <<db, lock, warned>>

\* Mutant of Previous: the configuration is removed in any case.
Removed(p) == None

Previous(p) == old[p]

\* rollbackConfig; its own failure is only a warning.
Undo(p) ==
    /\ pc[p] = "undo"
    /\ \/ Put(p, Previous(p)) /\ UNCHANGED <<faults, warned>>
       \/ Fault /\ warned' = TRUE /\ ConfigUnchanged
    /\ Goto(p, "failed")
    /\ RunUnchanged
    /\ UNCHANGED <<db, lock>>

\* Mutant of Unlock: the deferred release is missing.
KeepLock(p) == UNCHANGED lock

Unlock(p) == lock' = IF lock = p THEN NoProc ELSE lock

Forget(p) ==
    /\ Goto(p, "idle")
    /\ Unlock(p)
    /\ force' = [force EXCEPT ![p] = FALSE]
    /\ old' = [old EXCEPT ![p] = None]
    /\ disturbed' = [disturbed EXCEPT ![p] = FALSE]
    /\ UNCHANGED <<config, db, want, before, warned>>

\* The result cannot be printed: init returns the error, and rolls nothing back.
ReportFails(p) ==
    /\ pc[p] = "ok"
    /\ Fault
    /\ Goto(p, "unprinted")
    /\ ConfigUnchanged /\ RunUnchanged
    /\ UNCHANGED <<db, lock, warned>>

\* The deferred release, and the end of the process.
Exit(p) ==
    /\ pc[p] \in {"refused", "ok", "unprinted", "failed"}
    /\ Forget(p)
    /\ UNCHANGED faults

\* A kill; its lock counts as free, since it is stale.
Crash(p) == pc[p] # "idle" /\ Fault /\ Forget(p)

\* A rebuild takes the lock and ends, with or without an index.
BuilderLocks ==
    /\ lock = NoProc
    /\ lock' = Builder
    /\ UNCHANGED <<config, db, pc, force, want, old, faults, before, disturbed, warned>>

BuilderEnds ==
    /\ lock = Builder
    /\ lock' = NoProc
    /\ db' \in {db, TRUE}
    /\ UNCHANGED <<config, pc, force, want, old, faults, before, disturbed, warned>>

Next ==
    \/ BuilderLocks \/ BuilderEnds
    \/ \E p \in Inits :
          \/ Start(p) \/ ReadConfig(p) \/ WriteConfig(p) \/ Stat(p) \/ Acquire(p)
          \/ Restat(p) \/ Create(p) \/ StepFails(p) \/ Undo(p)
          \/ ReportFails(p) \/ Exit(p) \/ Crash(p)

Spec == Init /\ [][Next]_vars

-----------------------------------------------------------------------------
(* Properties.                                                             *)

(* init never resets an index, though it looks for one before it has the    *)
(* lock: one that a rebuild or another init made meanwhile stays.           *)
IndexIsKept == \A p \in Inits : pc[p] = "create" => ~db

(* A configuration that was there is never lost, whatever inits overlap,    *)
(* fail and get killed: what a roll-back brings back is a configuration.    *)
ConfigIsKept == before # None => config # None

(* Unless another init has changed the configuration meanwhile, an init is   *)
(* all or nothing.  One that gets as far as its report leaves its            *)
(* configuration and an index, and that also when it ends with an error for  *)
(* want of printing it; one that fails before leaves the configuration it    *)
(* found, absent or not, as long as no roll-back has failed.                 *)
UndisturbedIsAllOrNothing ==
    \A p \in Inits : ~disturbed[p] =>
        /\ pc[p] \in {"ok", "unprinted"} => config = want[p] /\ db
        /\ pc[p] = "failed" /\ ~warned => config = old[p]

(* An init that reports success leaves a configuration.  The code does not  *)
(* keep this: the configuration is written and rolled back outside the      *)
(* lock, so an init that loses the race for the lock removes the file of    *)
(* the one that wins it.                                                    *)
SuccessIsConfigured == \A p \in Inits : pc[p] = "ok" => config # None
==============================================================================
