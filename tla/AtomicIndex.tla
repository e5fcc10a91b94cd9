----------------------------- MODULE AtomicIndex -----------------------------
(***************************************************************************)
(* What the commands that change the index promise: the index is always    *)
(* one whole snapshot (or does not exist yet), and each init, rebuild or   *)
(* update replaces it by its own snapshot in one step or leaves it alone.  *)
(* A command reports success only after that step and failure only without *)
(* it.  A command that is cut off reports nothing.                         *)
(* IndexStore implements this specification as far as its faults allow.    *)
(***************************************************************************)
CONSTANTS
    Procs,      \* commands that run at the same time
    Snapshots,  \* complete contents of an index
    NoIndex     \* there is no index yet

VARIABLES
    index,  \* what a query sees
    op,     \* progress of each command
    goal    \* snapshot each running command is to install

vars == <<index, op, goal>>

TypeOK ==
    /\ index \in Snapshots \cup {NoIndex}
    /\ op \in [Procs -> {"idle", "running", "applied", "failed"}]
    /\ goal \in [Procs -> Snapshots \cup {NoIndex}]

Init ==
    /\ index \in Snapshots \cup {NoIndex}
    /\ op = [p \in Procs |-> "idle"]
    /\ goal = [p \in Procs |-> NoIndex]

Move(p, from, to) == op[p] = from /\ op' = [op EXCEPT ![p] = to]

Begin(p) ==
    /\ Move(p, "idle", "running")
    /\ \E s \in Snapshots : goal' = [goal EXCEPT ![p] = s]
    /\ UNCHANGED index

Apply(p) ==
    /\ Move(p, "running", "applied")
    /\ index' = goal[p]
    /\ UNCHANGED goal

\* A command that was cut off may leave a child that finishes its work.
ApplyCut(p) ==
    /\ Move(p, "running", "idle")
    /\ index' = goal[p]
    /\ goal' = [goal EXCEPT ![p] = NoIndex]

Fail(p) == Move(p, "running", "failed") /\ UNCHANGED <<index, goal>>

\* Commands end; what they applied stays.
Finish(K) ==
    /\ op' = [p \in Procs |-> IF p \in K THEN "idle" ELSE op[p]]
    /\ goal' = [p \in Procs |-> IF p \in K THEN NoIndex ELSE goal[p]]
    /\ UNCHANGED index

Next ==
    \/ \E p \in Procs : Begin(p) \/ Apply(p) \/ ApplyCut(p) \/ Fail(p)
    \/ \E K \in SUBSET Procs : Finish(K)

Spec == Init /\ [][Next]_vars
==============================================================================
