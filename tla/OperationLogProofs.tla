-------------------------- MODULE OperationLogProofs --------------------------
(***************************************************************************)
(* Proofs about OperationLog: however many commands record at a time, for  *)
(* every number of rows kept, no run is lost, ids grow, logs has no gaps   *)
(* and a status tells what became of the index.                            *)
(***************************************************************************)
EXTENDS OperationLog, Integers, FiniteSetTheorems, WellFoundedInduction, TLAPS

\* Ids tell rows apart.
Keyed(rows) == \A r, s \in rows : r.id = s.id => r = s

\* A set of rows as it may be in the table or in a transaction.
IsTable(rows) == IsFiniteSet(rows) /\ rows \subseteq Rows /\ Keyed(rows)

-----------------------------------------------------------------------------
(* The order of the rows.                                                    *)

\* Among finitely many things, one has the largest rank: one with the fewest
\* things above it, in the sense of inclusion.
LEMMA Topmost ==
    ASSUME NEW T, IsFiniteSet(T), T # {}, NEW rank \in [T -> Int]
    PROVE  \E r \in T : \A s \in T : rank[s] <= rank[r]
<1>. DEFINE above(r) == {s \in T : rank[s] > rank[r]}
            sets == {above(r) : r \in T}
<1>1. \A r \in T : above(r) \in FiniteSubsetsOf(T)
  <2>. TAKE r \in T
  <2>1. above(r) \subseteq T
    OBVIOUS
  <2>2. IsFiniteSet(above(r))
    BY <2>1, FS_Subset
  <2>. QED  BY <2>1, <2>2 DEF FiniteSubsetsOf
<1>2. sets \subseteq FiniteSubsetsOf(T) /\ sets # {}
  <2>. HIDE DEF above
  <2>. QED  BY <1>1
<1>3. PICK A \in sets : \A B \in sets : <<B, A>> \notin StrictSubsetOrdering(T)
  <2>. HIDE DEF sets
  <2>. QED  BY <1>2, FS_StrictSubsetOrderingWellFounded, WFMin
<1>4. PICK r \in T : A = above(r)
  OBVIOUS
<1>5. ASSUME NEW s \in T, ~(rank[s] <= rank[r]) PROVE FALSE
  <2>1. above(s) \subseteq A /\ s \in A /\ s \notin above(s)
    BY <1>4, <1>5
  <2>2. <<above(s), A>> \in StrictSubsetOrdering(T)
    BY <2>1, <1>4 DEF StrictSubsetOrdering
  <2>. QED  BY <1>3, <2>2
<1>. QED  BY <1>5

LEMMA NewestRow ==
    ASSUME NEW rows, IsTable(rows), NEW T \in SUBSET rows, T # {}
    PROVE  \E r \in T : \A s \in T : s.id <= r.id
<1>. DEFINE rank == [r \in T |-> r.id]
<1>1. IsFiniteSet(T) /\ rank \in [T -> Int]
  BY FS_Subset DEF IsTable, Rows
<1>2. \E r \in T : \A s \in T : rank[s] <= rank[r]
  BY <1>1, Topmost
<1>. QED  BY <1>2

LEMMA OldestRow ==
    ASSUME NEW rows, IsTable(rows), rows # {}
    PROVE  \E r \in rows : \A s \in rows : r.id <= s.id
<1>. DEFINE rank == [r \in rows |-> -r.id]
<1>1. \A r \in rows : r.id \in Nat
  BY DEF IsTable, Rows
<1>2. IsFiniteSet(rows) /\ rank \in [rows -> Int]
  BY <1>1 DEF IsTable
<1>3. \E r \in rows : \A s \in rows : rank[s] <= rank[r]
  BY <1>2, Topmost
<1>. QED  BY <1>1, <1>3

\* The key that SQLite gives is larger than all in the table.
LEMMA FreshIdIsLarger ==
    ASSUME NEW rows, IsTable(rows)
    PROVE  FreshId(rows) \in Nat \ {0} /\ \A r \in rows : r.id < FreshId(rows)
<1>1. CASE rows = {}
  BY <1>1 DEF FreshId
<1>2. CASE rows # {}
  <2>. DEFINE ids == {r.id : r \in rows}
              top == CHOOSE i \in ids : \A r \in rows : r.id <= i
  <2>1. \E i \in ids : \A r \in rows : r.id <= i
    BY <1>2, NewestRow
  <2>2. top \in ids /\ \A r \in rows : r.id <= top
    BY <2>1
  <2>3. top \in Nat /\ \A r \in rows : r.id \in Nat
    BY <2>2 DEF IsTable, Rows
  <2>4. FreshId(rows) = 1 + top
    BY <1>2 DEF FreshId
  <2>. HIDE DEF top
  <2>. QED  BY <2>2, <2>3, <2>4
<1>. QED  BY <1>1, <1>2

\* The rows above one row of a table, counted.
LEMMA NewerRows ==
    ASSUME NEW rows, IsTable(rows), NEW r \in rows
    PROVE  /\ IsFiniteSet(Newer(r, rows))
           /\ Cardinality(Newer(r, rows)) \in Nat
           /\ Newer(r, rows) \subseteq rows \ {r}
           /\ Cardinality(rows) \in Nat
           /\ IsFiniteSet(rows \ {r})
           /\ Cardinality(rows \ {r}) = Cardinality(rows) - 1
           /\ Cardinality(Newer(r, rows)) <= Cardinality(rows) - 1
<1>1. r.id \in Nat
  BY DEF IsTable, Rows
<1>2. Newer(r, rows) \subseteq rows \ {r}
  BY <1>1 DEF Newer
<1>3. IsFiniteSet(rows \ {r}) /\ Cardinality(rows \ {r}) = Cardinality(rows) - 1
  BY FS_RemoveElement DEF IsTable
<1>4. IsFiniteSet(Newer(r, rows))
      /\ Cardinality(Newer(r, rows)) <= Cardinality(rows \ {r})
  BY <1>2, <1>3, FS_Subset
<1>. QED  BY <1>2, <1>3, <1>4, FS_CardinalityType DEF IsTable

\* One row above all others is added to a table that is not too long, and the
\* rows that are not among the newest are taken out: the new one stays, and a
\* row that goes leaves a full table of newer rows.
LEMMA PrunedTable ==
    ASSUME NEW rows, IsTable(rows), Cardinality(rows) <= Kept,
           NEW n \in Rows, \A r \in rows : r.id < n.id
    PROVE  LET all == rows \cup {n} IN
           /\ IsTable(Newest(all)) /\ Newest(all) \subseteq all
           /\ n \in Newest(all)
           /\ Cardinality(Newest(all)) <= Kept
           /\ \A r \in all \ Newest(all) :
                 /\ Cardinality(Newest(all)) = Kept
                 /\ \A s \in Newest(all) : r.id < s.id
<1>. DEFINE all == rows \cup {n}
            left == Newest(all)
<1>0. Kept \in Nat /\ Kept > 0
  BY BoundsOk
<1>1. IsTable(all) /\ n \notin rows
  <2>1. \A r \in all : r.id \in Nat
    BY DEF IsTable, Rows
  <2>2. Keyed(all) /\ n \notin rows
    BY <2>1 DEF Keyed, IsTable
  <2>. QED  BY <2>2, FS_AddElement DEF IsTable
<1>2. Cardinality(all) \in Nat /\ Cardinality(all) <= Kept + 1
  BY <1>0, <1>1, FS_AddElement, FS_CardinalityType DEF IsTable
<1>3. left \subseteq all /\ IsTable(left)
  <2>1. left \subseteq all
    BY DEF Newest
  <2>. QED  BY <1>1, <2>1, FS_Subset DEF IsTable, Keyed
<1>4. n \in left
  <2>1. \A s \in all : ~(s.id > n.id)
    BY DEF IsTable, Rows
  <2>2. Newer(n, all) = {}
    BY <2>1 DEF Newer
  <2>. QED  BY <1>0, <2>2, FS_EmptySet DEF Newest
<1>5. \A r \in all : r \in left <=> Cardinality(Newer(r, all)) < Kept
  BY DEF Newest
<1>6. \A r \in all :
         /\ Newer(r, all) \subseteq all \ {r}
         /\ IsFiniteSet(all \ {r}) /\ Cardinality(all \ {r}) = Cardinality(all) - 1
         /\ Cardinality(Newer(r, all)) \in Nat
         /\ Cardinality(Newer(r, all)) <= Cardinality(all) - 1
  BY <1>1, NewerRows
<1>. HIDE DEF all, left
<1>7. ASSUME NEW r \in all \ left
      PROVE  Cardinality(left) = Kept /\ \A s \in left : r.id < s.id
  <2>1. ~(Cardinality(Newer(r, all)) < Kept)
    BY <1>5
  <2>2. Cardinality(Newer(r, all)) = Kept /\ Cardinality(all \ {r}) = Kept
    BY <1>0, <1>2, <1>6, <2>1
  <2>3. Newer(r, all) = all \ {r}
    BY <1>6, <2>2, FS_Subset
  <2>4. ASSUME NEW q \in all \ {r} PROVE q \in left
    <3>1. r \notin Newer(q, all)
      <4>1. q.id > r.id /\ q.id \in Nat /\ r.id \in Nat
        BY <2>3, <1>1 DEF Newer, IsTable, Rows
      <4>. QED  BY <4>1 DEF Newer
    <3>2. IsFiniteSet(all \ {r}) /\ Cardinality(all \ {r}) = Kept
      BY <1>6, <2>2
    <3>3. IsFiniteSet((all \ {r}) \ {q}) /\ Cardinality((all \ {r}) \ {q}) = Kept - 1
      BY <3>2, FS_RemoveElement
    <3>4. Newer(q, all) \subseteq (all \ {r}) \ {q}
      BY <1>6, <3>1
    <3>5. Cardinality(Newer(q, all)) <= Cardinality((all \ {r}) \ {q})
      BY <3>3, <3>4, FS_Subset
    <3>6. Cardinality(Newer(q, all)) < Kept
      <4>. DEFINE above == Cardinality(Newer(q, all))
      <4>1. above \in Nat /\ above <= Kept - 1
        BY <1>6, <3>3, <3>5
      <4>. HIDE DEF above
      <4>2. above < Kept
        BY <1>0, <4>1
      <4>. QED  BY <4>2 DEF above
    <3>. QED  BY <1>5, <3>6
  <2>5. left = all \ {r}
    BY <2>4, <1>3
  <2>6. Cardinality(left) = Kept
    BY <2>5, <2>2
  <2>. QED  BY <2>3, <2>5, <2>6, <1>1 DEF Newer, IsTable, Rows
<1>8. Cardinality(left) <= Kept
  <2>1. CASE left # all
    BY <1>0, <2>1, <1>3, <1>7
  <2>2. CASE left = all
    <3>1. PICK r \in all : \A s \in all : r.id <= s.id
      BY <1>1, <1>3, <1>4, OldestRow
    <3>2. all \ {r} \subseteq Newer(r, all)
      BY <1>1, <3>1 DEF IsTable, Keyed, Rows, Newer
    <3>3. Newer(r, all) = all \ {r}
      BY <3>2, <1>6
    <3>4. Cardinality(all \ {r}) < Kept
      BY <1>5, <2>2, <3>3
    <3>5. Cardinality(all) - 1 < Kept
      BY <1>6, <3>4
    <3>. QED  BY <1>0, <1>2, <2>2, <3>5
  <2>. QED  BY <2>1, <2>2
<1>. QED  BY <1>3, <1>4, <1>7, <1>8 DEF all, left

-----------------------------------------------------------------------------
(* The inductive invariant.                                                  *)

Active(p) == pc[p] # "idle"

\* A run has a number of its own, which no row of another command bears.
Numbered ==
    /\ \A p \in Commands : Active(p) => rec[p].run \in 1..runs
    /\ \A p, q \in Commands :
          Active(p) /\ Active(q) /\ rec[p].run = rec[q].run => p = q
    /\ \A r \in recorded :
          /\ r.run \in 1..runs
          /\ \A p \in Commands : Active(p) => r.run # rec[p].run
    /\ changed \subseteq 1..runs

\* What is in the table, and what has gone from it.
TableOk ==
    /\ Keyed(log) /\ log \subseteq recorded
    /\ RunsStay

\* The transaction of the writer, step by step.  Nobody else changes the table.
DraftOk ==
    \A p \in Commands :
        /\ pc[p] = "insert" => draft = log
        /\ pc[p] = "prune" => draft = log \cup {NewRow(p, log)}
        /\ pc[p] = "commit" => draft = Newest(log \cup {NewRow(p, log)})

\* What a command has noted is true of what it has done so far.
NoteOk(p) ==
    IF pc[p] \in {"stat", "lock", "work"}
    THEN ~rec[p].err /\ rec[p].status = "succeeded" /\ rec[p].run \notin changed
    ELSE /\ rec[p].status = "skipped" => rec[p].op # "init" /\ rec[p].run \notin changed
         /\ rec[p].status = "succeeded" /\ ~rec[p].err =>
               rec[p].op = "init" \/ rec[p].run \in changed
         /\ rec[p].err => rec[p].op = "update" \/ rec[p].run \notin changed \ mute

NotesOk == \A p \in Commands : Active(p) => NoteOk(p)

IInv == TypeOK /\ Numbered /\ TableOk /\ DraftOk /\ NotesOk /\ StatusIsTrue

LEMMA InitInv == Init => IInv
<1>. SUFFICES ASSUME Init PROVE IInv
  OBVIOUS
<1>. USE DEF Init
<1>1. TypeOK
  BY NamesOk, BoundsOk, FS_EmptySet
     DEF TypeOK, Recorders, NoRecorder, Operations, Writing, Rows
<1>. QED
  BY <1>1 DEF IInv, Numbered, Active, TableOk, Keyed, RunsStay, DraftOk, NotesOk, StatusIsTrue

\* The row a command is to write is one, and above those in the table.
LEMMA NewRowFits ==
    ASSUME TypeOK, Numbered, TableOk, NEW p \in Commands, Active(p)
    PROVE  /\ IsTable(log)
           /\ NewRow(p, log) \in Rows
           /\ NewRow(p, log).run = rec[p].run
           /\ \A r \in log : r.id < NewRow(p, log).id
<1>1. IsTable(log)
  BY DEF TypeOK, TableOk, IsTable
<1>2. FreshId(log) \in Nat \ {0} /\ \A r \in log : r.id < FreshId(log)
  BY <1>1, FreshIdIsLarger
<1>3. rec[p].run \in Runs /\ rec[p].op \in Operations
      /\ Outcome(p) \in {"succeeded", "failed", "skipped"}
  BY BoundsOk DEF TypeOK, Numbered, Recorders, Runs, Outcome
<1>. QED  BY <1>1, <1>2, <1>3 DEF NewRow, Rows

\* A commit adds the row of its command to the log, and takes out only older
\* ones, when the log is full.
LEMMA CommitAddsRow ==
    ASSUME IInv, NEW p \in Commands, CommitLog(p)
    PROVE  LET n == NewRow(p, log) IN
           /\ n \in Rows /\ n.run = rec[p].run /\ n \in log'
           /\ recorded' = recorded \cup {n}
           /\ IsTable(log') /\ log' \subseteq log \cup {n}
           /\ Cardinality(log') <= Kept
           /\ \A r \in (log \cup {n}) \ log' :
                 Cardinality(log') = Kept /\ \A s \in log' : r.id < s.id
           /\ \A r \in log : r.id < n.id
<1>. DEFINE n == NewRow(p, log)
<1>1. Active(p) /\ draft = Newest(log \cup {n}) /\ log' = draft
  BY DEF IInv, DraftOk, CommitLog, Active
<1>2. IsTable(log) /\ n \in Rows /\ n.run = rec[p].run /\ \A r \in log : r.id < n.id
  BY <1>1, NewRowFits DEF IInv
<1>3. Cardinality(log) <= Kept
  BY DEF IInv, TypeOK
<1>. HIDE DEF n
<1>4. /\ IsTable(log') /\ log' \subseteq log \cup {n} /\ n \in log'
      /\ Cardinality(log') <= Kept
      /\ \A r \in (log \cup {n}) \ log' :
            Cardinality(log') = Kept /\ \A s \in log' : r.id < s.id
  BY <1>1, <1>2, <1>3, PrunedTable
<1>5. recorded' = recorded \cup {n}
  <2>1. recorded' = recorded \cup {r \in draft : r.run = rec[p].run}
    BY DEF CommitLog
  <2>2. \A r \in log : r.run # rec[p].run
    BY <1>1 DEF IInv, TableOk, Numbered
  <2>. QED  BY <2>1, <2>2, <1>1, <1>2, <1>4
<1>. QED  BY <1>2, <1>4, <1>5 DEF n

\* Ids grow: what is recorded now is above all that was recorded.
LEMMA IdsGrowStep ==
    ASSUME IInv, NEW p \in Commands, CommitLog(p)
    PROVE  \A s \in recorded : NewRow(p, log).id > s.id
<1>. DEFINE n == NewRow(p, log)
<1>1. n \in Rows /\ \A r \in log : r.id < n.id
  BY CommitAddsRow
<1>2. \A s \in recorded : s.id \in Nat
  BY DEF IInv, TypeOK, Rows
<1>. HIDE DEF n
<1>3. ASSUME NEW s \in recorded \ log PROVE n.id > s.id
  <2>1. Cardinality(log) = Kept /\ \A r \in log : s.id < r.id
    BY DEF IInv, TableOk, RunsStay
  <2>2. PICK r \in log : TRUE
    BY <2>1, BoundsOk, FS_EmptySet
  <2>3. s.id < r.id /\ r.id < n.id /\ r.id \in Nat
    BY <1>1, <1>2, <2>1, <2>2 DEF IInv, TypeOK, Rows
  <2>. QED  BY <1>1, <1>2, <2>3 DEF Rows
<1>. QED  BY <1>1, <1>2, <1>3 DEF n, Rows

-----------------------------------------------------------------------------
(* Every step preserves it.                                                  *)

LEMMA RecorderSteps ==
    ASSUME TypeOK, NEW p \in Commands,
           \/ UNCHANGED rec \/ Errs(p) \/ Skips(p)
           \/ rec' = [rec EXCEPT ![p] = NoRecorder]
    PROVE  rec' \in [Commands -> Recorders]
<1>. USE BoundsOk DEF TypeOK, Recorders
<1>1. CASE UNCHANGED rec  BY <1>1
<1>2. CASE Errs(p)  BY <1>2 DEF Errs
<1>3. CASE Skips(p)  BY <1>3 DEF Skips
<1>4. CASE rec' = [rec EXCEPT ![p] = NoRecorder]
  BY <1>4 DEF NoRecorder, Operations
<1>. QED  BY <1>1, <1>2, <1>3, <1>4

LEMMA TypeStep ==
    ASSUME IInv, [Next]_vars
    PROVE  TypeOK'
<1>. USE NamesOk, BoundsOk DEF TypeOK, Writing, Goto, Ends, workVars, logVars
<1>0. TypeOK
  BY DEF IInv
<1>1. CASE UNCHANGED vars  BY <1>0, <1>1 DEF vars
<1>2. CASE OutsiderLocks  BY <1>0, <1>2 DEF OutsiderLocks
<1>3. CASE OutsiderUnlocks  BY <1>0, <1>3 DEF OutsiderUnlocks
<1>4. ASSUME NEW p \in Commands, Start(p) PROVE TypeOK'
  <2>1. PICK o \in Operations :
            rec' = [rec EXCEPT ![p] = [NoRecorder EXCEPT !.run = runs + 1, !.op = o]]
    BY <1>4 DEF Start
  <2>2. runs + 1 \in 0..MaxRuns
    BY <1>0, <1>4 DEF Start
  <2>3. rec' \in [Commands -> Recorders]
    BY <1>0, <2>1, <2>2 DEF Recorders, NoRecorder
  <2>. QED  BY <1>0, <1>4, <2>2, <2>3 DEF Start
<1>5. ASSUME NEW p \in Commands, Stat(p) PROVE TypeOK'
  <2>1. rec' \in [Commands -> Recorders]
    BY <1>0, <1>5, RecorderSteps DEF Stat
  <2>. QED  BY <1>0, <1>5, <2>1 DEF Stat
<1>6. ASSUME NEW p \in Commands, Acquire(p) PROVE TypeOK'
  <2>1. rec' \in [Commands -> Recorders]
    BY <1>0, <1>6, RecorderSteps DEF Acquire
  <2>. QED  BY <1>0, <1>6, <2>1 DEF Acquire
<1>7. ASSUME NEW p \in Commands, AcquireFails(p) PROVE TypeOK'
  <2>1. rec' \in [Commands -> Recorders]
    BY <1>0, <1>7, RecorderSteps DEF AcquireFails
  <2>2. faults' \in 0..MaxFaults
    BY <1>0, <1>7 DEF AcquireFails, Fault
  <2>. QED  BY <1>0, <1>7, <2>1, <2>2 DEF AcquireFails
<1>8. ASSUME NEW p \in Commands, Work(p) PROVE TypeOK'
  <2>1. rec[p].run \in Runs
    BY <1>0, <1>8 DEF Work, IInv, Numbered, Active, Runs
  <2>. QED  BY <1>0, <1>8, <2>1 DEF Work
<1>9. ASSUME NEW p \in Commands, WorkFails(p) PROVE TypeOK'
  <2>1. rec' \in [Commands -> Recorders]
    BY <1>0, <1>9, RecorderSteps DEF WorkFails
  <2>2. faults' \in 0..MaxFaults
    BY <1>0, <1>9 DEF WorkFails, Fault
  <2>3. rec[p].run \in Runs
    BY <1>0, <1>9 DEF WorkFails, IInv, Numbered, Active, Runs
  <2>. QED  BY <1>0, <1>9, <2>1, <2>2, <2>3 DEF WorkFails
<1>10. ASSUME NEW p \in Commands, Report(p) PROVE TypeOK'
  <2>1. rec' \in [Commands -> Recorders]
    BY <1>0, <1>10, RecorderSteps DEF Report
  <2>2. rec[p].run \in Runs
    BY <1>0, <1>10 DEF Report, IInv, Numbered, Active, Runs
  <2>3. faults' \in 0..MaxFaults
    BY <1>0, <1>10 DEF Report, Fault
  <2>. QED  BY <1>0, <1>10, <2>1, <2>2, <2>3 DEF Report
<1>11. ASSUME NEW p \in Commands, Release(p) PROVE TypeOK'  BY <1>0, <1>11 DEF Release
<1>12. ASSUME NEW p \in Commands, OpenLog(p) PROVE TypeOK'  BY <1>0, <1>12 DEF OpenLog
<1>13. ASSUME NEW p \in Commands, BeginImmediate(p) PROVE TypeOK'
  BY <1>0, <1>13 DEF BeginImmediate, MayWrite
<1>14. ASSUME NEW p \in Commands, Insert(p) PROVE TypeOK'
  <2>1. Active(p) /\ draft' = log \cup {NewRow(p, log)}
    BY <1>14 DEF Insert, Active, IInv, DraftOk
  <2>2. draft' \subseteq Rows
    BY <1>0, <2>1, NewRowFits DEF IInv
  <2>. QED  BY <1>0, <1>14, <2>2 DEF Insert
<1>15. ASSUME NEW p \in Commands, Prune(p) PROVE TypeOK'
  <2>1. draft' \subseteq draft
    BY <1>15 DEF Prune, Newest
  <2>. QED  BY <1>0, <1>15, <2>1 DEF Prune
<1>16. ASSUME NEW p \in Commands, CommitLog(p) PROVE TypeOK'
  <2>1. /\ log' \subseteq Rows /\ IsFiniteSet(log') /\ Cardinality(log') <= Kept
        /\ recorded' \subseteq Rows
    BY <1>0, <1>16, CommitAddsRow DEF IsTable
  <2>2. ended' \subseteq Runs
    <3>1. rec[p].run \in 1..runs
      BY <1>16 DEF CommitLog, IInv, Numbered, Active
    <3>2. rec[p].run \in Runs
      BY <1>0, <3>1 DEF Runs
    <3>. QED  BY <1>0, <1>16, <3>2 DEF CommitLog
  <2>3. rec' \in [Commands -> Recorders]
    BY <1>0, <1>16, RecorderSteps DEF CommitLog
  <2>4. /\ UNCHANGED <<index, lock, changed, mute, table, runs, faults>>
        /\ pc' = [pc EXCEPT ![p] = "idle"] /\ pc[p] = "commit"
        /\ writer' = Nobody /\ draft' = {}
    BY <1>16 DEF CommitLog
  <2>. QED  BY <1>0, <2>1, <2>2, <2>3, <2>4
<1>17. ASSUME NEW p \in Commands, TimesOut(p) PROVE TypeOK'
  <2>1. rec' \in [Commands -> Recorders]
    BY <1>0, <1>17, RecorderSteps DEF TimesOut, AfterTimeout
  <2>. QED  BY <1>0, <1>17, <2>1 DEF TimesOut, AfterTimeout
<1>18. ASSUME NEW p \in Commands, ChildFails(p) PROVE TypeOK'
  <2>1. rec' \in [Commands -> Recorders]
    BY <1>0, <1>18, RecorderSteps DEF ChildFails
  <2>2. faults' \in 0..MaxFaults
    BY <1>0, <1>18 DEF ChildFails, Fault
  <2>. QED  BY <1>0, <1>18, <2>1, <2>2 DEF ChildFails
<1>19. ASSUME NEW p \in Commands, Crash(p) PROVE TypeOK'
  <2>1. rec' \in [Commands -> Recorders]
    BY <1>0, <1>19, RecorderSteps DEF Crash
  <2>2. faults' \in 0..MaxFaults
    BY <1>0, <1>19 DEF Crash, Fault
  <2>. QED  BY <1>0, <1>19, <2>1, <2>2 DEF Crash
<1>. QED
  BY <1>1, <1>2, <1>3, <1>4, <1>5, <1>6, <1>7, <1>8, <1>9, <1>10, <1>11, <1>12,
     <1>13, <1>14, <1>15, <1>16, <1>17, <1>18, <1>19 DEF Next, Step

\* A step of one command.
Acts(p) == Start(p) \/ Step(p) \/ AcquireFails(p) \/ WorkFails(p) \/ ChildFails(p) \/ Crash(p)

\* It leaves the others where they are.
LEMMA OthersStay ==
    ASSUME TypeOK, NEW p \in Commands, Acts(p), NEW q \in Commands, q # p
    PROVE  pc'[q] = pc[q] /\ rec'[q] = rec[q]
<1>. USE DEF TypeOK, Goto, Ends, Errs, Skips
<1>1. CASE Start(p)  BY <1>1 DEF Start
<1>2. CASE Stat(p) \/ Acquire(p) \/ Work(p) \/ Report(p) \/ Release(p)
  BY <1>2 DEF Stat, Acquire, Work, Report, Release
<1>3. CASE OpenLog(p) \/ BeginImmediate(p) \/ Insert(p) \/ Prune(p) \/ CommitLog(p)
  BY <1>3 DEF OpenLog, BeginImmediate, Insert, Prune, CommitLog
<1>4. CASE TimesOut(p) \/ AcquireFails(p) \/ WorkFails(p) \/ ChildFails(p) \/ Crash(p)
  BY <1>4 DEF TimesOut, AfterTimeout, AcquireFails, WorkFails, ChildFails, Crash
<1>. QED  BY <1>1, <1>2, <1>3, <1>4 DEF Acts, Step

\* But for its start it keeps the number of its run, as long as it is there;
\* it records at its commit only, and may note that it changed the index.
LEMMA NumberStays ==
    ASSUME IInv, NEW p \in Commands, Acts(p), ~Start(p), ~CommitLog(p)
    PROVE  /\ Active(p)
           /\ Active(p)' => rec'[p].run = rec[p].run
           /\ UNCHANGED <<runs, recorded, log, ended>>
           /\ changed' \subseteq changed \cup {rec[p].run}
<1>. USE DEF IInv, TypeOK, Active, Goto, Ends, Errs, Skips, workVars, logVars, Recorders
<1>1. CASE Stat(p)  BY <1>1 DEF Stat
<1>2. CASE Acquire(p) \/ Work(p) \/ Report(p) \/ Release(p)
  BY <1>2 DEF Acquire, Work, Report, Release
<1>3. CASE OpenLog(p) \/ BeginImmediate(p) \/ Insert(p) \/ Prune(p)
  BY <1>3 DEF OpenLog, BeginImmediate, Insert, Prune
<1>4. CASE TimesOut(p) \/ AcquireFails(p) \/ WorkFails(p)
  BY <1>4 DEF TimesOut, AfterTimeout, AcquireFails, WorkFails
<1>5. CASE ChildFails(p) \/ Crash(p)
  BY <1>5 DEF ChildFails, Crash, Writing
<1>. QED  BY <1>1, <1>2, <1>3, <1>4, <1>5 DEF Acts, Step

LEMMA NumberedStep ==
    ASSUME IInv, [Next]_vars
    PROVE  Numbered'
<1>. USE DEF IInv, Numbered, Active
<1>0. runs \in Nat
  BY BoundsOk DEF TypeOK
<1>1. CASE UNCHANGED vars  BY <1>1 DEF vars, workVars, logVars
<1>2. CASE OutsiderLocks \/ OutsiderUnlocks
  BY <1>2 DEF OutsiderLocks, OutsiderUnlocks, workVars
<1>3. ASSUME NEW p \in Commands, Start(p) PROVE Numbered'
  <2>1. pc'[p] = "stat" /\ rec'[p].run = runs + 1 /\ runs' = runs + 1
        /\ UNCHANGED <<recorded, changed>>
    BY <1>3 DEF Start, Goto, TypeOK, NoRecorder, Recorders, workVars, logVars
  <2>2. \A q \in Commands \ {p} : pc'[q] = pc[q] /\ rec'[q] = rec[q]
    BY <1>3, OthersStay DEF Acts
  <2>. QED  BY <1>0, <2>1, <2>2
<1>4. ASSUME NEW p \in Commands, CommitLog(p) PROVE Numbered'
  <2>1. pc[p] # "idle" /\ pc'[p] = "idle" /\ UNCHANGED <<runs, changed>>
    BY <1>4 DEF CommitLog, Ends, Goto, TypeOK, workVars
  <2>2. \A q \in Commands \ {p} : pc'[q] = pc[q] /\ rec'[q] = rec[q]
    BY <1>4, OthersStay DEF Acts, Step
  <2>3. \A r \in recorded' : r \in recorded \/ r.run = rec[p].run
    BY <1>4, CommitAddsRow
  <2>. QED  BY <2>1, <2>2, <2>3
<1>5. ASSUME NEW p \in Commands, Acts(p), ~Start(p), ~CommitLog(p) PROVE Numbered'
  <2>1. \A q \in Commands \ {p} : pc'[q] = pc[q] /\ rec'[q] = rec[q]
    BY <1>5, OthersStay
  <2>2. /\ Active(p)
        /\ Active(p)' => rec'[p].run = rec[p].run
        /\ UNCHANGED <<runs, recorded, log, ended>>
        /\ changed' \subseteq changed \cup {rec[p].run}
    BY <1>5, NumberStays
  <2>. QED  BY <2>1, <2>2
<1>. QED  BY <1>1, <1>2, <1>3, <1>4, <1>5 DEF Next, Acts

LEMMA TableStep ==
    ASSUME IInv, [Next]_vars
    PROVE  TableOk'
<1>. USE DEF IInv, TableOk, RunsStay, Keyed
<1>1. CASE UNCHANGED vars  BY <1>1 DEF vars, logVars
<1>2. CASE OutsiderLocks \/ OutsiderUnlocks  BY <1>2 DEF OutsiderLocks, OutsiderUnlocks
<1>3. ASSUME NEW p \in Commands, Start(p) PROVE TableOk'
  BY <1>3 DEF Start, logVars
<1>4. ASSUME NEW p \in Commands, CommitLog(p) PROVE TableOk'
  <2>. DEFINE n == NewRow(p, log)
  <2>1. n.run = rec[p].run /\ n \in log' /\ recorded' = recorded \cup {n}
        /\ IsTable(log') /\ log' \subseteq log \cup {n} /\ \A r \in log : r.id < n.id
    BY <1>4, CommitAddsRow
  <2>2. \A r \in (log \cup {n}) \ log' :
           Cardinality(log') = Kept /\ \A s \in log' : r.id < s.id
    BY <1>4, CommitAddsRow
  <2>3. \A s \in recorded : n.id > s.id
    BY <1>4, IdsGrowStep
  <2>4. \A r \in recorded \cup {n} : r.id \in Nat
    BY <1>4, CommitAddsRow DEF TypeOK, Rows
  <2>. HIDE DEF n
  <2>5. log' \subseteq recorded' /\ \A r, s \in log' : r.id = s.id => r = s
    BY <2>1 DEF IsTable
  <2>6. \A m \in ended' : \E r \in recorded' : r.run = m
    BY <1>4, <2>1 DEF CommitLog
  <2>7. ASSUME NEW r \in recorded' \ log'
        PROVE  Cardinality(log') = Kept /\ \A s \in log' : r.id < s.id
    <3>1. CASE r \in log \cup {n}  BY <2>2, <3>1
    <3>2. CASE r \in recorded \ log
      <4>1. Cardinality(log) = Kept /\ \A s \in log : r.id < s.id
        BY <3>2
      <4>2. \A s \in log' : r.id < s.id
        BY <4>1, <2>1, <2>3, <2>4, <3>2
      <4>3. CASE \E s \in log : s \notin log'  BY <4>2, <4>3, <2>2
      <4>4. CASE log \subseteq log'
        <5>1. log' = log \cup {n} /\ n \notin log
          BY <4>4, <2>1, <2>4
        <5>2. IsFiniteSet(log) /\ Cardinality(log') <= Kept /\ Kept \in Nat
          BY <1>4, CommitAddsRow, BoundsOk DEF TypeOK
        <5>3. Cardinality(log \cup {n}) = Kept + 1
          BY <4>1, <5>1, <5>2, FS_AddElement
        <5>. QED  BY <5>1, <5>2, <5>3
      <4>. QED  BY <4>2, <4>3, <4>4
    <3>. QED  BY <2>1, <3>1, <3>2
  <2>. QED  BY <2>5, <2>6, <2>7
<1>5. ASSUME NEW p \in Commands, Acts(p), ~Start(p), ~CommitLog(p) PROVE TableOk'
  BY <1>5, NumberStays
<1>. QED  BY <1>1, <1>2, <1>3, <1>4, <1>5 DEF Next, Acts

LEMMA DraftStep ==
    ASSUME IInv, [Next]_vars
    PROVE  DraftOk'
<1>. USE NamesOk DEF IInv, DraftOk, Writing, TypeOK
<1>1. CASE UNCHANGED vars  BY <1>1 DEF vars, logVars, NewRow, Outcome
<1>2. CASE OutsiderLocks \/ OutsiderUnlocks
  BY <1>2 DEF OutsiderLocks, OutsiderUnlocks, NewRow, Outcome
<1>3. ASSUME NEW p \in Commands, Acts(p), UNCHANGED <<log, draft>>, pc'[p] \notin Writing
      PROVE  DraftOk'
  <2>1. \A q \in Commands \ {p} : pc'[q] = pc[q] /\ rec'[q] = rec[q]
    BY <1>3, OthersStay
  <2>2. ASSUME NEW q \in Commands, pc'[q] \in Writing
        PROVE  pc'[q] = pc[q] /\ NewRow(q, log)' = NewRow(q, log)
    BY <1>3, <2>1, <2>2 DEF NewRow, Outcome
  <2>. QED  BY <1>3, <2>2
<1>4. ASSUME NEW p \in Commands, Acts(p), writer = p \/ writer = Nobody, pc'[p] \notin Writing
      PROVE  DraftOk'
  <2>1. \A q \in Commands \ {p} : pc'[q] = pc[q]
    BY <1>4, OthersStay
  <2>2. \A q \in Commands : pc'[q] \notin Writing
    BY <1>4, <2>1
  <2>. QED  BY <2>2
<1>5. ASSUME NEW p \in Commands, BeginImmediate(p) \/ Insert(p) \/ Prune(p)
      PROVE  DraftOk'
  <2>1. \A q \in Commands \ {p} : pc'[q] \notin Writing
    BY <1>5, OthersStay DEF Acts, Step, BeginImmediate, Insert, Prune, MayWrite
  <2>2. NewRow(p, log)' = NewRow(p, log)
    BY <1>5 DEF BeginImmediate, Insert, Prune, NewRow, Outcome
  <2>3. CASE BeginImmediate(p)  BY <2>1, <2>3 DEF BeginImmediate, Goto
  <2>4. CASE Insert(p)
    <3>1. pc'[p] = "prune" /\ draft' = log \cup {NewRow(p, log)} /\ log' = log
      BY <2>4 DEF Insert, Goto
    <3>. QED  BY <2>1, <2>2, <3>1
  <2>5. CASE Prune(p)
    <3>1. pc'[p] = "commit" /\ draft' = Newest(log \cup {NewRow(p, log)}) /\ log' = log
      BY <2>5 DEF Prune, Goto
    <3>. QED  BY <2>1, <2>2, <3>1
  <2>. QED  BY <1>5, <2>3, <2>4, <2>5
<1>6. ASSUME NEW p \in Commands, Start(p) \/ Stat(p) \/ Acquire(p) \/ Work(p) \/ Report(p) \/ Release(p)
      PROVE  DraftOk'
  BY <1>3, <1>6 DEF Acts, Step, Start, Stat, Acquire, Work, Report, Release, Goto, Ends, logVars
<1>7. ASSUME NEW p \in Commands, OpenLog(p) \/ TimesOut(p) \/ AcquireFails(p) \/ WorkFails(p) \/ Crash(p)
      PROVE  DraftOk'
  BY <1>3, <1>7 DEF Acts, Step, OpenLog, TimesOut, AfterTimeout, AcquireFails, WorkFails, Crash, Goto, Ends, logVars
<1>8. ASSUME NEW p \in Commands, CommitLog(p) PROVE DraftOk'
  BY <1>4, <1>8 DEF Acts, Step, CommitLog, Goto, Ends
<1>9. ASSUME NEW p \in Commands, ChildFails(p) PROVE DraftOk'
  BY <1>3, <1>4, <1>9 DEF Acts, ChildFails, Goto, Ends
<1>. QED  BY <1>1, <1>2, <1>5, <1>6, <1>7, <1>8, <1>9 DEF Next, Step

\* What one command notes is not touched by another, whose run has another
\* number.
LEMMA OthersNotes ==
    ASSUME IInv, NEW p \in Commands, Acts(p), NEW new \in SUBSET {rec[p].run},
           changed' = changed \cup new, mute \subseteq mute', Active(p) \/ new = {},
           NEW q \in Commands \ {p}, Active(q)'
    PROVE  NoteOk(q)'
<1>1. pc'[q] = pc[q] /\ rec'[q] = rec[q]
  BY OthersStay DEF IInv
<1>2. rec[q].run \notin new
  BY <1>1 DEF IInv, Numbered, Active
<1>3. NoteOk(q)
  BY <1>1 DEF IInv, NotesOk, Active
<1>. QED  BY <1>1, <1>2, <1>3 DEF NoteOk

LEMMA NotesStep ==
    ASSUME IInv, [Next]_vars
    PROVE  NotesOk'
<1>. USE DEF IInv, NotesOk, Active, TypeOK, Recorders, Goto, Ends, Errs, Skips, Writing
<1>1. CASE UNCHANGED vars  BY <1>1 DEF vars, workVars, NoteOk
<1>2. CASE OutsiderLocks \/ OutsiderUnlocks
  BY <1>2 DEF OutsiderLocks, OutsiderUnlocks, workVars, NoteOk
<1>3. ASSUME NEW p \in Commands, Acts(p), UNCHANGED changed, mute \subseteq mute',
             Active(p)' => NoteOk(p)'
      PROVE  NotesOk'
  <2>1. \A q \in Commands \ {p} : Active(q)' => NoteOk(q)'
    <3>. DEFINE new == {}
    <3>1. changed' = changed \cup new /\ new \subseteq {rec[p].run}
      BY <1>3
    <3>. QED  BY <1>3, <3>1, OthersNotes
  <2>. QED  BY <1>3, <2>1
<1>4. ASSUME NEW p \in Commands, Start(p) PROVE NotesOk'
  <2>1. rec[p].run \notin {} /\ runs + 1 \notin changed
    BY BoundsOk DEF Numbered
  <2>2. NoteOk(p)' /\ UNCHANGED <<changed, mute>>
    BY <1>4, <2>1 DEF Start, NoRecorder, NoteOk, workVars
  <2>. QED  BY <1>3, <1>4, <2>2 DEF Acts
<1>5. ASSUME NEW p \in Commands, Stat(p) PROVE NotesOk'
  <2>1. (Active(p)' => NoteOk(p)') /\ UNCHANGED <<changed, mute>>
    BY <1>5 DEF Stat, NoRecorder, NoteOk, workVars
  <2>. QED  BY <1>3, <1>5, <2>1 DEF Acts, Step
<1>6. ASSUME NEW p \in Commands, Acquire(p) PROVE NotesOk'
  <2>1. NoteOk(p)' /\ UNCHANGED <<changed, mute>>
    BY <1>6 DEF Acquire, NoteOk
  <2>. QED  BY <1>3, <1>6, <2>1 DEF Acts, Step
<1>7. ASSUME NEW p \in Commands, AcquireFails(p) PROVE NotesOk'
  <2>1. NoteOk(p)' /\ UNCHANGED <<changed, mute>>
    BY <1>7 DEF AcquireFails, NoteOk, workVars
  <2>. QED  BY <1>3, <1>7, <2>1 DEF Acts
<1>12. ASSUME NEW p \in Commands, WorkFails(p) PROVE NotesOk'
  <2>1. PICK new \in SUBSET {rec[p].run} :
           changed' = changed \cup new /\ (rec[p].op # "update" => new = {})
    BY <1>12 DEF WorkFails
  <2>2. NoteOk(p)' /\ mute' = mute
    BY <1>12, <2>1 DEF WorkFails, NoteOk
  <2>3. Active(p) /\ Acts(p)
    BY <1>12 DEF Acts, WorkFails
  <2>4. \A q \in Commands \ {p} : Active(q)' => NoteOk(q)'
    BY <2>1, <2>2, <2>3, OthersNotes
  <2>. QED  BY <2>2, <2>4
<1>8. ASSUME NEW p \in Commands, Work(p) PROVE NotesOk'
  <2>. DEFINE new == IF rec[p].op = "init" /\ index THEN {} ELSE {rec[p].run}
  <2>1. changed' = changed \cup new /\ new \subseteq {rec[p].run} /\ mute' = mute
    BY <1>8 DEF Work
  <2>2. NoteOk(p)'
    BY <1>8 DEF Work, NoteOk
  <2>3. Active(p) /\ Acts(p)
    BY <1>8 DEF Acts, Step, Work
  <2>. HIDE DEF new
  <2>4. \A q \in Commands \ {p} : Active(q)' => NoteOk(q)'
    BY <2>1, <2>3, OthersNotes
  <2>. QED  BY <2>2, <2>4
<1>9. ASSUME NEW p \in Commands, Report(p) PROVE NotesOk'
  <2>1. NoteOk(p)' /\ UNCHANGED changed /\ mute \subseteq mute'
    BY <1>9 DEF Report, NoteOk
  <2>. QED  BY <1>3, <1>9, <2>1 DEF Acts, Step
<1>10. ASSUME NEW p \in Commands,
              Release(p) \/ OpenLog(p) \/ BeginImmediate(p) \/ Insert(p) \/ Prune(p)
       PROVE  NotesOk'
  <2>1. NoteOk(p)' /\ UNCHANGED <<changed, mute>>
    BY <1>10 DEF Release, OpenLog, BeginImmediate, Insert, Prune, NoteOk, workVars
  <2>. QED  BY <1>3, <1>10, <2>1 DEF Acts, Step
<1>11. ASSUME NEW p \in Commands,
              CommitLog(p) \/ TimesOut(p) \/ ChildFails(p) \/ Crash(p)
       PROVE  NotesOk'
  <2>1. ~Active(p)' /\ UNCHANGED <<changed, mute>>
    BY <1>11 DEF CommitLog, TimesOut, AfterTimeout, ChildFails, Crash, workVars
  <2>. QED  BY <1>3, <1>11, <2>1 DEF Acts, Step
<1>. QED
  BY <1>1, <1>2, <1>4, <1>5, <1>6, <1>7, <1>8, <1>9, <1>10, <1>11, <1>12 DEF Next, Step

LEMMA StatusStep ==
    ASSUME IInv, [Next]_vars
    PROVE  StatusIsTrue'
<1>. USE DEF IInv, StatusIsTrue
<1>1. CASE UNCHANGED vars  BY <1>1 DEF vars, workVars, logVars
<1>2. CASE OutsiderLocks \/ OutsiderUnlocks
  BY <1>2 DEF OutsiderLocks, OutsiderUnlocks, workVars
<1>3. ASSUME NEW p \in Commands, Start(p) PROVE StatusIsTrue'
  BY <1>3 DEF Start, workVars, logVars
<1>4. ASSUME NEW p \in Commands, CommitLog(p) PROVE StatusIsTrue'
  <2>. DEFINE n == NewRow(p, log)
  <2>1. recorded' = recorded \cup {n} /\ UNCHANGED <<changed, mute>>
    BY <1>4, CommitAddsRow DEF CommitLog, workVars
  <2>2. NoteOk(p) /\ pc[p] = "commit" /\ rec[p].status \in {"succeeded", "skipped"}
    BY <1>4 DEF CommitLog, NotesOk, Active, TypeOK, Recorders
  <2>3. n.run = rec[p].run /\ n.op = rec[p].op /\ n.status = Outcome(p)
    BY DEF NewRow
  <2>. HIDE DEF n
  <2>4. /\ n.status = "succeeded" => n.op = "init" \/ n.run \in changed
        /\ n.status = "skipped" => n.op # "init" /\ n.run \notin changed
        /\ n.status = "failed" => n.op = "update" \/ n.run \notin changed \ mute
    BY <2>2, <2>3 DEF NoteOk, Outcome
  <2>. QED  BY <2>1, <2>4
<1>5. ASSUME NEW p \in Commands, Acts(p), ~Start(p), ~CommitLog(p) PROVE StatusIsTrue'
  <2>1. \A r \in recorded : r.run # rec[p].run
    BY <1>5, NumberStays DEF Numbered
  <2>2. changed' \subseteq changed \cup {rec[p].run} /\ recorded' = recorded
    BY <1>5, NumberStays
  <2>3. changed \subseteq changed' /\ mute \subseteq mute'
    BY <1>5 DEF Acts, Step, Stat, Acquire, Work, Report, Release, OpenLog, BeginImmediate,
         Insert, Prune, TimesOut, AcquireFails, WorkFails, ChildFails, Crash, workVars
  <2>. QED  BY <2>1, <2>2, <2>3
<1>. QED  BY <1>1, <1>2, <1>3, <1>4, <1>5 DEF Next, Acts

THEOREM Invariance == Spec => []IInv
<1>1. Init => IInv
  BY InitInv
<1>2. IInv /\ [Next]_vars => IInv'
  BY TypeStep, NumberedStep, TableStep, DraftStep, NotesStep, StatusStep DEF IInv
<1>. QED  BY <1>1, <1>2, PTL DEF Spec

-----------------------------------------------------------------------------
(* The theorems.                                                             *)

(* For any number of commands, every variable keeps its type and the log is  *)
(* never longer than recordBuildRun lets it be.                              *)
THEOREM TypesHold == Spec => []TypeOK
<1>1. IInv => TypeOK
  BY DEF IInv
<1>. QED  BY <1>1, Invariance, PTL

(* However many commands record at once, no run that was recorded without a  *)
(* warning leaves the log before the log is full of newer ones.              *)
THEOREM RunsAlwaysStay == Spec => []RunsStay
<1>1. IInv => RunsStay
  BY DEF IInv, TableOk
<1>. QED  BY <1>1, Invariance, PTL

(* The status recordBuildRun writes is true of what the command did to the   *)
(* index, and says nothing of an update that failed.                         *)
THEOREM StatusIsAlwaysTrue == Spec => []StatusIsTrue
<1>1. IInv => StatusIsTrue
  BY DEF IInv
<1>. QED  BY <1>1, Invariance, PTL

(* The ids SQLite gives grow with every run, although those of the deleted    *)
(* rows are free.                                                            *)
THEOREM IdsAlwaysGrow == Spec => IdsGrow
<1>1. IInv /\ [Next]_vars =>
         [\A r \in recorded' \ recorded : \A s \in recorded : r.id > s.id]_vars
  <2>. SUFFICES ASSUME IInv, Next
                PROVE  \A r \in recorded' \ recorded : \A s \in recorded : r.id > s.id
    OBVIOUS
  <2>1. ASSUME NEW p \in Commands, CommitLog(p)
        PROVE  \A r \in recorded' \ recorded : \A s \in recorded : r.id > s.id
    BY <2>1, CommitAddsRow, IdsGrowStep
  <2>2. CASE UNCHANGED recorded  BY <2>2
  <2>3. (\E p \in Commands : CommitLog(p)) \/ UNCHANGED recorded
    BY NumberStays DEF Next, Acts, OutsiderLocks, OutsiderUnlocks, Start, logVars
  <2>. QED  BY <2>1, <2>2, <2>3
<1>. QED  BY <1>1, Invariance, PTL DEF Spec, IdsGrow

(* Whatever the limit, cmdLogs leaves out only runs older than all it prints, *)
(* and none as long as it prints fewer than asked for.                       *)
THEOREM LogsNeverHasGaps == Spec => []LogsHasNoGaps
<1>1. ASSUME IInv, NEW limit \in 1..Kept
      PROVE  /\ \A r \in recorded \ Logs(limit) : \A s \in Logs(limit) : r.id < s.id
             /\ Cardinality(Logs(limit)) < limit => recorded = Logs(limit)
  <2>. DEFINE shown == Logs(limit)
  <2>0. limit \in Nat /\ limit <= Kept /\ Kept \in Nat
    BY BoundsOk
  <2>1. IsTable(log) /\ log \subseteq recorded
    BY <1>1 DEF IInv, TypeOK, TableOk, IsTable
  <2>2. \A r \in recorded : r.id \in Nat
    BY <1>1 DEF IInv, TypeOK, Rows
  <2>3. \A r \in log :
           /\ r \in shown <=> Cardinality(Newer(r, log)) < limit
           /\ IsFiniteSet(Newer(r, log)) /\ Cardinality(Newer(r, log)) \in Nat
    BY <2>1, NewerRows DEF Logs
  <2>4. shown \subseteq log /\ IsFiniteSet(shown) /\ Cardinality(shown) \in Nat
    BY <2>1, FS_Subset, FS_CardinalityType DEF Logs, IsTable
  <2>5. \A r \in recorded \ log :
           Cardinality(log) = Kept /\ \A s \in log : r.id < s.id
    BY <1>1 DEF IInv, TableOk, RunsStay
  <2>. HIDE DEF shown
  <2>6. ASSUME NEW r \in log \ shown, NEW s \in shown PROVE r.id < s.id
    <3>1. CASE r.id >= s.id
      <4>1. Newer(r, log) \subseteq Newer(s, log)
        BY <2>1, <2>2, <2>4, <3>1 DEF Newer
      <4>2. Cardinality(Newer(r, log)) <= Cardinality(Newer(s, log))
        BY <2>3, <2>4, <4>1, FS_Subset
      <4>3. Cardinality(Newer(s, log)) < limit /\ Cardinality(Newer(s, log)) \in Nat
            /\ ~(Cardinality(Newer(r, log)) < limit) /\ Cardinality(Newer(r, log)) \in Nat
        BY <2>3, <2>4
      <4>. QED  BY <2>0, <4>2, <4>3
    <3>. QED  BY <2>1, <2>2, <2>4, <3>1
  <2>7. ASSUME Cardinality(shown) < limit PROVE recorded = shown
    <3>1. ASSUME log \ shown # {} PROVE FALSE
      <4>1. PICK r \in log \ shown : \A s \in log \ shown : s.id <= r.id
        BY <2>1, <3>1, NewestRow
      <4>2. Newer(r, log) \subseteq shown
        BY <2>1, <2>2, <4>1 DEF Newer
      <4>3. Cardinality(Newer(r, log)) <= Cardinality(shown)
        BY <2>4, <4>2, FS_Subset
      <4>4. Cardinality(Newer(r, log)) < limit
        BY <2>0, <2>3, <2>4, <2>7, <4>3
      <4>. QED  BY <2>3, <4>1, <4>4
    <3>2. shown = log
      BY <2>4, <3>1
    <3>. QED  BY <2>0, <2>1, <2>4, <2>5, <2>7, <3>2
  <2>. QED  BY <2>5, <2>4, <2>6, <2>7 DEF shown
<1>2. IInv => LogsHasNoGaps
  BY <1>1 DEF LogsHasNoGaps
<1>. QED  BY <1>2, Invariance, PTL
==============================================================================
