--------------------------- MODULE IndexStoreProofs ---------------------------
(***************************************************************************)
(* Proofs about IndexStore: for any number of commands, files and faults,  *)
(* a query sees a whole index unless one of the two exposures has happened, *)
(* success means that the new index is there, errors leave nothing behind, *)
(* and IndexStore implements AtomicIndex.                                  *)
(***************************************************************************)
EXTENDS IndexStore, TLAPS

USE SnapshotsOk, NobodyRuns, OpsOk, FaultsOk

IsLive(p) == child[p] \in {"started", "txn"}

\* What a process that opens the database alone would see: the file, with the
\* journal beside it played back.
Stored == IF rows = NoIndex THEN NoIndex ELSE Restore(journal, rows)

\* Without an index there is no update.
UpdatesHaveIndex ==
    rows = NoIndex =>
        \A p \in Procs : child[p] = "none" /\ pc[p] \notin {"load", "feed", "wait", "done"}

\* Where a command is and what its child may be.
ChildFits ==
    \A p \in Procs :
        /\ pc[p] \in {"build", "sidecars", "rename", "load", "done", "failed"} =>
              child[p] = "none"
        /\ child[p] \in {"ok", "failed"} => pc[p] \in {"feed", "wait"}

\* While a child is at work no other is, and other commands have not got far.
OneChild ==
    \A p, q \in Procs : IsLive(p) /\ p # q =>
        /\ ~IsLive(q)
        /\ pc[q] \in {"idle", "build", "sidecars", "load", "failed"}

\* Its journal has the old value of each row that it has changed, and nothing
\* else has changed since it was started.
ChildRestores ==
    \A p \in Procs : IsLive(p) =>
        /\ on[p] = "path"
        /\ journal = image[p]
        /\ image[p] # NoRows => writer = p
        /\ child[p] = "started" => image[p] = NoRows
        /\ \A f \in Files :
              /\ f \in DOMAIN image[p] => image[p][f] = base[p][f]
              /\ f \notin DOMAIN image[p] => rows[f] = base[p][f]

\* It has still to change the rows that differ from what it is to install.
ChildAdvances ==
    \A p \in Procs : IsLive(p) =>
        \A f \in Files \ todo[p] : rows[f] = target[p][f]

\* What has been installed is there, and stays.
Installed ==
    \A p \in Procs :
        /\ pc[p] = "rename" => journal = NoRows
        /\ child[p] = "ok" \/ pc[p] = "done" => rows = target[p] /\ journal = NoRows

StoredIsWhole == ~dropped => Stored \in Snapshots \cup {NoIndex}

\* Short of kills there are no orphans, and no journal without a child.
NobodyCut ==
    ~cut => /\ ~overlap
            /\ \A p \in Procs : pc[p] = "idle" => child[p] = "none"
            /\ \A p \in Procs : temp[p] => pc[p] \in {"build", "sidecars", "rename"}
            /\ journal # NoRows => \E p \in Procs : child[p] = "txn"

Shape == TypeOK /\ UpdatesHaveIndex /\ ChildFits

Undisturbed == OneChild /\ ChildRestores /\ ChildAdvances /\ Installed /\ StoredIsWhole

Quiet == ~overlap => Undisturbed

IndInv == Shape /\ Quiet /\ NobodyCut

-----------------------------------------------------------------------------
(* Rows, journals and what is visible.                                       *)

LEMMA PartialFacts ==
    ASSUME NEW old \in PartialRows
    PROVE  /\ DOMAIN old \subseteq Files
           /\ \A f \in DOMAIN old : old[f] \in Values
<1>1. PICK D \in SUBSET Files : old \in [D -> Values]
  BY DEF PartialRows
<1>. QED  BY <1>1

LEMMA PartialIntro ==
    ASSUME NEW D \in SUBSET Files, NEW old \in [D -> Values]
    PROVE  old \in PartialRows
BY DEF PartialRows

LEMMA NoRowsFacts == NoRows \in PartialRows /\ DOMAIN NoRows = {}
<1>1. NoRows \in [{} -> Values] /\ DOMAIN NoRows = {}
  BY DEF NoRows
<1>. QED  BY <1>1, PartialIntro

LEMMA RestoreType ==
    ASSUME NEW old \in PartialRows, NEW r \in [Files -> Values]
    PROVE  Restore(old, r) \in [Files -> Values]
BY PartialFacts DEF Restore

LEMMA RestoreNothing ==
    ASSUME NEW r \in [Files -> Values]
    PROVE  Restore(NoRows, r) = r
BY NoRowsFacts DEF Restore

LEMMA VisibleType ==
    TypeOK => /\ Visible \in [Files -> Values] \cup {NoIndex}
              /\ rows # NoIndex => Visible \in [Files -> Values]
<1>. SUFFICES ASSUME TypeOK, rows # NoIndex PROVE Visible \in [Files -> Values]
  BY DEF Visible
<1>1. rows \in [Files -> Values]
  BY DEF TypeOK
<1>2. CASE Writers = {}
  BY <1>1, <1>2, RestoreType DEF Visible, TypeOK
<1>3. CASE Writers # {}
  <2>1. (CHOOSE q \in Writers : TRUE) \in Procs
    BY <1>3 DEF Writers
  <2>2. image[CHOOSE q \in Writers : TRUE] \in PartialRows
    BY <2>1 DEF TypeOK
  <2>. QED  BY <1>1, <1>3, <2>2, RestoreType DEF Visible
<1>. QED  BY <1>2, <1>3

LEMMA PlayBackType ==
    TypeOK /\ PlayBack => /\ rows' \in [Files -> Values] \cup {NoIndex}
                          /\ rows' = NoIndex <=> rows = NoIndex
                          /\ journal' \in PartialRows /\ writer' \in Procs \cup {NoProc}
<1>. SUFFICES ASSUME TypeOK, PlayBack
              PROVE  /\ rows' \in [Files -> Values] \cup {NoIndex}
                     /\ rows' = NoIndex <=> rows = NoIndex
                     /\ journal' \in PartialRows /\ writer' \in Procs \cup {NoProc}
  OBVIOUS
<1>1. NoIndex \notin [Files -> Values]
  OBVIOUS
<1>2. CASE Hot
  <2>1. rows # NoIndex /\ rows' = Visible /\ journal' = NoRows /\ writer' = NoProc
    BY <1>2 DEF PlayBack, Hot
  <2>2. Visible \in [Files -> Values]
    BY <2>1, VisibleType
  <2>. QED  BY <1>1, <2>1, <2>2, NoRowsFacts
<1>3. CASE ~Hot
  BY <1>3 DEF PlayBack, TypeOK, disk
<1>. QED  BY <1>2, <1>3

LEMMA OverlapType == TypeOK /\ NoteOverlap => overlap' \in BOOLEAN
BY DEF TypeOK, NoteOverlap

\* A command that moves on holds the lock, and keeps it.
LEMMA GotoType ==
    ASSUME TypeOK, NEW p \in Procs, pc[p] # "idle", UNCHANGED lock,
           NEW l \in {"idle", "build", "sidecars", "rename", "load", "feed",
                      "wait", "done", "failed"}, Goto(p, l)
    PROVE  /\ \A q \in Procs : pc'[q] # "idle" => lock' = q
           /\ pc' \in [Procs -> {"idle", "build", "sidecars", "rename", "load", "feed",
                                 "wait", "done", "failed"}]
           /\ lock' \in Procs \cup {NoProc}
BY DEF TypeOK, Goto

LEMMA FaultType == ASSUME TypeOK, NEW k, Fault(k) PROVE faults' \in 0..MaxFaults
BY DEF TypeOK, Fault

LEMMA ForgetCommandType ==
    ASSUME TypeOK, NEW p \in Procs, ForgetCommand(p) \/ UNCHANGED <<kind, target>>
    PROVE  kind' \in [Procs -> {"init", "rebuild", "update"}] /\ target' \in [Procs -> Snapshots]
<1>1. kind \in [Procs -> {"init", "rebuild", "update"}] /\ target \in [Procs -> Snapshots]
  BY DEF TypeOK
<1>. QED  BY <1>1 DEF ForgetCommand

\* What a child leaves behind when it ends.
LEMMA ChildEndsType ==
    ASSUME TypeOK, NEW p \in Procs, NEW r \in {"ok", "failed"}, ChildEnds(p, r)
    PROVE  /\ base' \in [Procs -> [Files -> Values]] /\ sent' \in [Procs -> BOOLEAN]
           /\ on' \in [Procs -> {"path", "replaced"}] /\ todo' \in [Procs -> SUBSET Files]
           /\ image' \in [Procs -> PartialRows]
           /\ child' \in [Procs -> {"none", "started", "txn", "ok", "failed"}]
           /\ kind' \in [Procs -> {"init", "rebuild", "update"}]
           /\ target' \in [Procs -> Snapshots]
<1>1. EmptyIndex \in [Files -> Values]
  OBVIOUS
<1>2. kind' \in [Procs -> {"init", "rebuild", "update"}] /\ target' \in [Procs -> Snapshots]
  BY ForgetCommandType DEF ChildEnds
<1>3. child' \in [Procs -> {"none", "started", "txn", "ok", "failed"}]
  BY DEF ChildEnds, TypeOK
<1>4. sent' \in [Procs -> BOOLEAN]
  BY DEF ChildEnds, ForgetChild, TypeOK
<1>. QED  BY <1>1, <1>2, <1>3, <1>4, NoRowsFacts DEF ChildEnds, ForgetChild, TypeOK

LEMMA TypeStep == Shape /\ [Next]_vars => TypeOK'
<1>. SUFFICES ASSUME Shape, TypeOK, [Next]_vars PROVE TypeOK'
  BY DEF Shape
<1>1. CASE Query
  BY <1>1, PlayBackType DEF Query, TypeOK, commands, children, memory
<1>2. CASE PowerLoss
  <2>1. faults' \in 0..MaxFaults
    BY <1>2, FaultType DEF PowerLoss
  <2>2. sent' \in [Procs -> BOOLEAN] /\ base' \in [Procs -> [Files -> Values]]
    BY <1>2 DEF PowerLoss
  <2>. QED  BY <1>2, <2>1, <2>2, NoRowsFacts DEF PowerLoss, TypeOK
<1>3. ASSUME NEW p \in Procs, NEW k \in Ops, Start(p, k) PROVE TypeOK'
  <2>1. target' \in [Procs -> Snapshots] /\ kind' \in [Procs -> {"init", "rebuild", "update"}]
    BY <1>3 DEF Start, TypeOK
  <2>2. temp' \in [Procs -> BOOLEAN]
    BY <1>3 DEF Start, TypeOK
  <2>3. \A q \in Procs : pc'[q] # "idle" => lock' = q
    BY <1>3 DEF Start, MayLock, Goto, TypeOK
  <2>4. pc' \in [Procs -> {"idle", "build", "sidecars", "rename", "load", "feed",
                          "wait", "done", "failed"}]
    BY <1>3 DEF Start, Goto, TypeOK
  <2>5. UNCHANGED <<disk, children, faults, dropped, overlap, cut>> /\ lock' \in Procs
    BY <1>3 DEF Start
  <2>6. UNCHANGED <<rows, journal, writer, child, base, sent, on, todo, image, faults,
                    dropped, overlap, cut>>
    BY <2>5 DEF disk, children, memory
  <2>. QED  BY <2>1, <2>2, <2>3, <2>4, <2>5, <2>6 DEF TypeOK
<1>4. ASSUME NEW p \in Procs, Finish(p) \/ Build(p) PROVE TypeOK'
  <2>1. kind' \in [Procs -> {"init", "rebuild", "update"}] /\ target' \in [Procs -> Snapshots]
    BY <1>4, ForgetCommandType DEF Finish, Build
  <2>2. \A q \in Procs : pc'[q] # "idle" => lock' = q
    <3>1. pc[p] # "idle" /\ lock = p
      BY <1>4 DEF Finish, Build, TypeOK
    <3>2. CASE Build(p)
      BY <3>1, <3>2, GotoType DEF Build
    <3>3. CASE Finish(p)
      <4>1. \A q \in Procs \ {p} : pc[q] = "idle"
        BY <3>1 DEF TypeOK
      <4>. QED  BY <3>3, <4>1 DEF Finish, Goto, TypeOK
    <3>. QED  BY <1>4, <3>2, <3>3
  <2>3. pc' \in [Procs -> {"idle", "build", "sidecars", "rename", "load", "feed",
                          "wait", "done", "failed"}]
    BY <1>4 DEF Finish, Build, Goto, TypeOK
  <2>4. lock' \in {lock, NoProc}
    BY <1>4 DEF Finish, Build
  <2>5. UNCHANGED <<rows, journal, writer, temp, child, base, sent, on, todo, image, faults,
                    dropped, overlap, cut>>
    BY <1>4 DEF Finish, Build, disk, children, memory
  <2>. QED  BY <2>1, <2>2, <2>3, <2>4, <2>5 DEF TypeOK
<1>5. ASSUME NEW p \in Procs, RemoveSidecars(p) PROVE TypeOK'
  BY <1>5, NoRowsFacts DEF RemoveSidecars, NoteOverlap, DeleteJournal, Goto, TypeOK, children, memory
<1>6. ASSUME NEW p \in Procs, Rename(p) PROVE TypeOK'
  <2>1. rows' \in [Files -> Values] /\ temp' \in [Procs -> BOOLEAN]
    BY <1>6 DEF Rename, TypeOK
  <2>2. on' \in [Procs -> {"path", "replaced"}]
    BY <1>6 DEF Rename, TypeOK
  <2>3. pc[p] = "rename" /\ UNCHANGED lock /\ Goto(p, "done") /\ overlap' \in BOOLEAN
    BY <1>6, OverlapType DEF Rename
  <2>4. /\ UNCHANGED <<journal, writer, kind, target, child, base, sent, todo, image, faults, cut>>
        /\ dropped' = FALSE
    BY <1>6 DEF Rename
  <2>. QED  BY <2>1, <2>2, <2>3, <2>4, GotoType DEF TypeOK
<1>7. ASSUME NEW p \in Procs, ReplaceFails(p) \/ FeedFails(p) \/ LoadFails(p) PROVE TypeOK'
  <2>1. faults' \in 0..MaxFaults
    BY <1>7, FaultType DEF ReplaceFails, FeedFails, LoadFails, TypeOK
  <2>2. temp' \in [Procs -> BOOLEAN]
    BY <1>7 DEF ReplaceFails, DropTemp, FeedFails, LoadFails, TypeOK
  <2>3. pc[p] # "idle" /\ UNCHANGED lock /\ \E l \in {"wait", "failed"} : Goto(p, l)
    BY <1>7 DEF ReplaceFails, FeedFails, LoadFails
  <2>4. UNCHANGED <<rows, journal, writer, kind, target, child, base, sent, on, todo, image,
                    dropped, overlap, cut>>
    BY <1>7 DEF ReplaceFails, FeedFails, LoadFails, disk, children, memory
  <2>. QED  BY <2>1, <2>2, <2>3, <2>4, GotoType DEF TypeOK
<1>8. ASSUME NEW p \in Procs, Load(p) PROVE TypeOK'
  <2>1. rows # NoIndex
    BY <1>8 DEF Load, Shape, UpdatesHaveIndex
  <2>2. base' \in [Procs -> [Files -> Values]]
    BY <1>8, <2>1, VisibleType DEF Load, TypeOK
  <2>3. todo' \in [Procs -> SUBSET Files] /\ sent' \in [Procs -> BOOLEAN]
    BY <1>8 DEF Load, Outdated, TypeOK
  <2>4. image' \in [Procs -> PartialRows]
    BY <1>8, NoRowsFacts DEF Load, TypeOK
  <2>5. child' \in [Procs -> {"none", "started", "txn", "ok", "failed"}]
    BY <1>8 DEF Load, TypeOK
  <2>6. on' \in [Procs -> {"path", "replaced"}]
    BY <1>8 DEF Load, TypeOK
  <2>7. /\ pc[p] = "load" /\ Goto(p, "feed") /\ PlayBack /\ overlap' \in BOOLEAN
        /\ UNCHANGED <<temp, lock, kind, target, faults, dropped, cut>>
    BY <1>8, OverlapType DEF Load
  <2>. QED  BY <2>2, <2>3, <2>4, <2>5, <2>6, <2>7, PlayBackType, GotoType DEF TypeOK
<1>9. ASSUME NEW p \in Procs, SendCommit(p) \/ Wait(p) PROVE TypeOK'
  <2>1. sent' \in [Procs -> BOOLEAN]
    BY <1>9 DEF SendCommit, Wait, TypeOK, memory
  <2>2. child' \in [Procs -> {"none", "started", "txn", "ok", "failed"}]
    BY <1>9 DEF SendCommit, Wait, TypeOK
  <2>3. pc[p] # "idle" /\ UNCHANGED lock /\ \E l \in {"wait", "done", "failed"} : Goto(p, l)
    BY <1>9 DEF SendCommit, Wait, Outcome
  <2>4. UNCHANGED <<rows, journal, writer, temp, kind, target, base, on, todo, image, faults,
                    dropped, overlap, cut>>
    BY <1>9 DEF SendCommit, Wait, disk, memory
  <2>. QED  BY <2>1, <2>2, <2>3, <2>4, GotoType DEF TypeOK
<1>10. ASSUME NEW p \in Procs, ChildBegin(p) PROVE TypeOK'
  BY <1>10, PlayBackType DEF ChildBegin, OthersUnchanged, TypeOK, memory
<1>11. ASSUME NEW p \in Procs, ChildTimesOut(p) \/ ChildCommit(p) PROVE TypeOK'
  <2>1. /\ UNCHANGED <<rows, faults>>
        /\ journal' \in PartialRows /\ writer' \in Procs \cup {NoProc}
    BY <1>11, NoRowsFacts DEF ChildTimesOut, ChildCommit, disk, TypeOK
  <2>2. OthersUnchanged /\ (ChildEnds(p, "ok") \/ ChildEnds(p, "failed"))
    BY <1>11 DEF ChildTimesOut, ChildCommit
  <2>. QED  BY <2>1, <2>2, ChildEndsType DEF OthersUnchanged, TypeOK
<1>12. ASSUME NEW p \in Procs, ChildRollsBack(p) \/ ChildBails(p) PROVE TypeOK'
  <2>1. faults' \in 0..MaxFaults
    BY <1>12, FaultType DEF ChildRollsBack, ChildBails, TypeOK
  <2>2. rows # NoIndex /\ rows \in [Files -> Values]
    BY <1>12 DEF ChildRollsBack, ChildBails, Shape, UpdatesHaveIndex, TypeOK
  <2>3. rows' \in [Files -> Values]
    BY <1>12, <2>2, RestoreType DEF ChildRollsBack, ChildBails, UndoTransaction, TypeOK
  <2>4. journal' \in PartialRows /\ writer' \in Procs \cup {NoProc}
    BY <1>12, NoRowsFacts DEF ChildRollsBack, ChildBails, UndoTransaction, TypeOK
  <2>5. OthersUnchanged /\ ChildEnds(p, "failed")
    BY <1>12 DEF ChildRollsBack, ChildBails, UndoTransaction
  <2>. QED  BY <2>1, <2>3, <2>4, <2>5, ChildEndsType DEF OthersUnchanged, TypeOK
<1>13. ASSUME NEW p \in Procs, NEW f \in Files, ChildWrite(p, f) PROVE TypeOK'
  <2>. DEFINE saved == [g \in DOMAIN image[p] \cup {f} |->
                          IF g \in DOMAIN image[p] THEN image[p][g]
                          ELSE IF on[p] = "path" THEN rows[g] ELSE base[p][g]]
  <2>1. rows \in [Files -> Values] /\ base[p] \in [Files -> Values] /\ image[p] \in PartialRows
    BY <1>13 DEF ChildWrite, Shape, UpdatesHaveIndex, TypeOK
  <2>2. saved \in [DOMAIN image[p] \cup {f} -> Values] /\ DOMAIN image[p] \cup {f} \subseteq Files
    BY <2>1, PartialFacts
  <2>3. saved \in PartialRows
    BY <2>2, PartialIntro
  <2>4. /\ image' = [image EXCEPT ![p] = saved]
        /\ journal' \in {saved, journal} /\ writer' \in {p, writer}
    BY <1>13 DEF ChildWrite
  <2>5. target[p][f] \in Values
    BY <1>13 DEF TypeOK
  <2>6. rows' \in [Files -> Values]
    BY <1>13, <2>1, <2>5 DEF ChildWrite
  <2>7. todo' \in [Procs -> SUBSET Files]
    BY <1>13 DEF ChildWrite, TypeOK
  <2>8. UNCHANGED <<child, base, sent, on, kind, target, faults, temp, lock, pc,
                    dropped, overlap, cut>>
    BY <1>13 DEF ChildWrite, OthersUnchanged
  <2>. HIDE DEF saved
  <2>9. image' \in [Procs -> PartialRows] /\ journal' \in PartialRows
    BY <2>3, <2>4 DEF TypeOK
  <2>. QED  BY <2>4, <2>6, <2>7, <2>8, <2>9 DEF TypeOK
<1>14. ASSUME NEW p \in Procs, KillCommand(p) PROVE TypeOK'
  <2>1. faults' \in 0..MaxFaults
    BY <1>14, FaultType DEF KillCommand
  <2>2. kind' \in [Procs -> {"init", "rebuild", "update"}] /\ target' \in [Procs -> Snapshots]
    BY <1>14, ForgetCommandType DEF KillCommand
  <2>. QED  BY <1>14, <2>1, <2>2 DEF KillCommand, Goto, TypeOK, disk, memory
<1>15. ASSUME NEW p \in Procs, KillChild(p) PROVE TypeOK'
  <2>1. faults' \in 0..MaxFaults
    BY <1>15, FaultType DEF KillChild
  <2>. QED  BY <1>15, <2>1, ChildEndsType DEF KillChild, TypeOK
<1>16. CASE UNCHANGED vars
  BY <1>16 DEF vars, disk, commands, children, memory, TypeOK
<1>. QED
  BY <1>1, <1>2, <1>3, <1>4, <1>5, <1>6, <1>7, <1>8, <1>9, <1>10, <1>11, <1>12, <1>13,
     <1>14, <1>15, <1>16 DEF Next, Step, ChildStep, Failure

-----------------------------------------------------------------------------
(* The shape of a state.                                                     *)

\* An index that exists does not go away.
LEMMA IndexExists == Shape /\ [Next]_vars /\ rows' = NoIndex => rows = NoIndex
<1>. SUFFICES ASSUME Shape, [Next]_vars, rows' = NoIndex PROVE rows = NoIndex
  OBVIOUS
<1>1. NoIndex \notin [Files -> Values] /\ rows' \notin [Files -> Values]
  OBVIOUS
<1>2. PlayBack => rows = NoIndex
  BY PlayBackType DEF Shape
<1>3. ASSUME NEW p \in Procs, Rename(p) PROVE FALSE
  BY <1>1, <1>3 DEF Rename, Shape, TypeOK
<1>4. ASSUME NEW p \in Procs, child[p] \in {"started", "txn"} PROVE rows \in [Files -> Values]
  BY <1>4 DEF Shape, UpdatesHaveIndex, TypeOK
<1>5. ASSUME NEW p \in Procs, ChildRollsBack(p) \/ ChildBails(p) PROVE FALSE
  <2>1. rows \in [Files -> Values] /\ image[p] \in PartialRows
    BY <1>4, <1>5 DEF ChildRollsBack, ChildBails, Shape, TypeOK
  <2>2. rows' \in {rows, Restore(image[p], rows)}
    BY <1>5 DEF ChildRollsBack, ChildBails, UndoTransaction
  <2>. QED  BY <1>1, <2>1, <2>2, RestoreType
<1>6. ASSUME NEW p \in Procs, NEW f \in Files, ChildWrite(p, f) PROVE FALSE
  <2>1. rows \in [Files -> Values] /\ target[p][f] \in Values
    BY <1>4, <1>6 DEF ChildWrite, Shape, TypeOK
  <2>2. rows' \in {rows, [rows EXCEPT ![f] = target[p][f]]}
    BY <1>6 DEF ChildWrite
  <2>. QED  BY <1>1, <2>1, <2>2
<1>7. CASE UNCHANGED rows
  BY <1>7
<1>8. ASSUME NEW p \in Procs, ChildCommit(p) \/ ChildTimesOut(p) \/ KillChild(p) \/ KillCommand(p)
             \/ ReplaceFails(p) \/ FeedFails(p)
      PROVE  UNCHANGED rows
  BY <1>8 DEF ChildCommit, ChildTimesOut, KillChild, KillCommand, ReplaceFails, FeedFails, disk
<1>9. ASSUME NEW p \in Procs, Finish(p) \/ Build(p) \/ RemoveSidecars(p) \/ LoadFails(p)
             \/ SendCommit(p) \/ Wait(p)
      PROVE  UNCHANGED rows
  BY <1>9 DEF Finish, Build, RemoveSidecars, LoadFails, SendCommit, Wait, disk
<1>10. ASSUME NEW p \in Procs, NEW k \in Ops, Start(p, k) PROVE UNCHANGED rows
  BY <1>10 DEF Start, disk
<1>11. PowerLoss \/ UNCHANGED vars => UNCHANGED rows
  BY DEF PowerLoss, vars, disk
<1>12. ASSUME NEW p \in Procs, Load(p) \/ ChildBegin(p) PROVE PlayBack
  BY <1>12 DEF Load, ChildBegin
<1>13. Query => PlayBack
  BY DEF Query
<1>. QED
  BY <1>2, <1>3, <1>5, <1>6, <1>7, <1>8, <1>9, <1>10, <1>11, <1>12, <1>13
     DEF Next, Step, ChildStep, Failure

LEMMA ChildFitsStep == Shape /\ [Next]_vars => UpdatesHaveIndex' /\ ChildFits'
<1>. DEFINE Fits(p) ==
       /\ pc'[p] \in {"build", "sidecars", "rename", "load", "done", "failed"} => child'[p] = "none"
       /\ child'[p] \in {"ok", "failed"} => pc'[p] \in {"feed", "wait"}
       /\ rows' = NoIndex =>
            child'[p] = "none" /\ pc'[p] \notin {"load", "feed", "wait", "done"}
<1>. DEFINE Same(q) == pc'[q] = pc[q] /\ child'[q] = child[q]
<1>. SUFFICES ASSUME Shape, [Next]_vars PROVE \A p \in Procs : Fits(p)
  BY DEF UpdatesHaveIndex, ChildFits
<1>0. /\ pc \in [Procs -> {"idle", "build", "sidecars", "rename", "load", "feed",
                          "wait", "done", "failed"}]
      /\ child \in [Procs -> {"none", "started", "txn", "ok", "failed"}]
      /\ rows' = NoIndex => rows = NoIndex
      /\ UpdatesHaveIndex /\ ChildFits
  BY IndexExists DEF Shape, TypeOK
<1>1. ASSUME NEW q \in Procs, Same(q) PROVE Fits(q)
  BY <1>0, <1>1 DEF UpdatesHaveIndex, ChildFits
<1>2. CASE UNCHANGED <<pc, child>>
  BY <1>1, <1>2
<1>3. ASSUME NEW p \in Procs, Fits(p), \A q \in Procs \ {p} : Same(q) PROVE \A q \in Procs : Fits(q)
  BY <1>1, <1>3
<1>4. ASSUME NEW p \in Procs, NEW k \in Ops, Start(p, k) PROVE \A q \in Procs : Fits(q)
  <2>1. child' = child /\ child[p] = "none" /\ UNCHANGED rows
    BY <1>4 DEF Start, children, disk
  <2>2. /\ \A q \in Procs \ {p} : pc'[q] = pc[q]
        /\ IF k = "update" THEN pc'[p] = "load" /\ rows # NoIndex ELSE pc'[p] = "build"
    BY <1>0, <1>4 DEF Start, Goto
  <2>3. Fits(p)
    BY <2>1, <2>2
  <2>. QED  BY <1>3, <2>1, <2>2, <2>3
<1>5. ASSUME NEW p \in Procs,
             Finish(p) \/ Build(p) \/ RemoveSidecars(p) \/ ReplaceFails(p) \/ LoadFails(p)
      PROVE  \A q \in Procs : Fits(q)
  <2>1. pc[p] \in {"build", "sidecars", "rename", "load", "done", "failed"} /\ child' = child
    BY <1>5 DEF Finish, Build, RemoveSidecars, ReplaceFails, LoadFails, children
  <2>2. \E l \in {"idle", "sidecars", "rename", "failed"} : pc' = [pc EXCEPT ![p] = l]
    BY <1>5 DEF Finish, Build, RemoveSidecars, ReplaceFails, LoadFails, Goto
  <2>3. Fits(p)
    BY <1>0, <2>1, <2>2 DEF ChildFits
  <2>. QED  BY <1>0, <1>3, <2>1, <2>2, <2>3
<1>6. ASSUME NEW p \in Procs, Rename(p) PROVE \A q \in Procs : Fits(q)
  <2>1. /\ pc[p] = "rename" /\ pc' = [pc EXCEPT ![p] = "done"] /\ child' = child
        /\ rows' # NoIndex
    BY <1>6 DEF Rename, Goto, Shape, TypeOK
  <2>2. Fits(p)
    BY <1>0, <2>1 DEF ChildFits
  <2>. QED  BY <1>0, <1>3, <2>1, <2>2
<1>7. ASSUME NEW p \in Procs, Load(p) PROVE \A q \in Procs : Fits(q)
  <2>1. /\ pc[p] = "load" /\ pc' = [pc EXCEPT ![p] = "feed"]
        /\ child' = [child EXCEPT ![p] = "started"]
    BY <1>7 DEF Load, Goto
  <2>2. Fits(p)
    BY <1>0, <2>1 DEF UpdatesHaveIndex
  <2>. QED  BY <1>0, <1>3, <2>1, <2>2
<1>8. ASSUME NEW p \in Procs, SendCommit(p) \/ FeedFails(p) PROVE \A q \in Procs : Fits(q)
  <2>1. pc[p] = "feed" /\ pc' = [pc EXCEPT ![p] = "wait"] /\ child' = child
    BY <1>8 DEF SendCommit, FeedFails, Goto, children
  <2>2. Fits(p)
    BY <1>0, <2>1 DEF UpdatesHaveIndex
  <2>. QED  BY <1>0, <1>3, <2>1, <2>2
<1>9. ASSUME NEW p \in Procs, Wait(p) PROVE \A q \in Procs : Fits(q)
  <2>1. /\ pc[p] = "wait" /\ child' = [child EXCEPT ![p] = "none"]
        /\ \E l \in {"done", "failed"} : pc' = [pc EXCEPT ![p] = l]
    BY <1>9 DEF Wait, Outcome, Goto
  <2>2. Fits(p)
    BY <1>0, <2>1 DEF UpdatesHaveIndex
  <2>. QED  BY <1>0, <1>3, <2>1, <2>2
<1>10. ASSUME NEW p \in Procs, ChildBegin(p) PROVE \A q \in Procs : Fits(q)
  <2>1. child[p] = "started" /\ child' = [child EXCEPT ![p] = "txn"] /\ pc' = pc
    BY <1>10 DEF ChildBegin, OthersUnchanged
  <2>2. Fits(p)
    BY <1>0, <2>1 DEF UpdatesHaveIndex, ChildFits
  <2>. QED  BY <1>0, <1>3, <2>1, <2>2
<1>11. ASSUME NEW p \in Procs, NEW r \in {"ok", "failed"}, IsLive(p), ChildEnds(p, r), pc' = pc
       PROVE  \A q \in Procs : Fits(q)
  <2>1. /\ pc[p] \in {"idle", "feed", "wait"} /\ rows # NoIndex
        /\ \E c \in {"none", r} : child' = [child EXCEPT ![p] = c] /\ (c # "none" => pc[p] # "idle")
    BY <1>0, <1>11 DEF ChildEnds, IsLive, UpdatesHaveIndex, ChildFits
  <2>2. Fits(p)
    BY <1>0, <1>11, <2>1
  <2>. QED  BY <1>0, <1>3, <1>11, <2>1, <2>2
<1>12. ASSUME NEW p \in Procs, KillCommand(p) PROVE \A q \in Procs : Fits(q)
  <2>1. /\ pc' = [pc EXCEPT ![p] = "idle"]
        /\ \/ child' = child /\ child[p] \in {"started", "txn"}
           \/ child' = [child EXCEPT ![p] = "none"]
    BY <1>12 DEF KillCommand, Goto
  <2>2. Fits(p)
    BY <1>0, <2>1 DEF UpdatesHaveIndex
  <2>. QED  BY <1>0, <1>3, <2>1, <2>2
<1>13. CASE PowerLoss
  BY <1>13 DEF PowerLoss
<1>14. ASSUME NEW p \in Procs, ChildTimesOut(p) \/ ChildCommit(p) \/ ChildRollsBack(p)
              \/ ChildBails(p) \/ KillChild(p)
       PROVE  IsLive(p) /\ pc' = pc /\ \E r \in {"ok", "failed"} : ChildEnds(p, r)
  BY <1>14 DEF ChildTimesOut, ChildCommit, ChildRollsBack, ChildBails, KillChild, UndoTransaction,
               OthersUnchanged, IsLive
<1>15. ASSUME NEW p \in Procs, NEW f \in Files, ChildWrite(p, f) PROVE UNCHANGED <<pc, child>>
  BY <1>15 DEF ChildWrite, OthersUnchanged
<1>16. Query \/ UNCHANGED vars => UNCHANGED <<pc, child>>
  BY DEF Query, vars, commands, children
<1>. HIDE DEF Fits, Same
<1>. QED
  BY <1>2, <1>4, <1>5, <1>6, <1>7, <1>8, <1>9, <1>10, <1>11, <1>12, <1>13, <1>14, <1>15, <1>16
     DEF Next, Step, ChildStep, Failure

-----------------------------------------------------------------------------
(* Errors alone leave nothing behind.                                        *)

Replaces == {"build", "sidecars", "rename"}

LEMMA NobodyCutStep == Shape /\ NobodyCut /\ [Next]_vars => NobodyCut'
<1>. DEFINE Clean(p) == /\ pc'[p] = "idle" => child'[p] = "none"
                        /\ temp'[p] => pc'[p] \in Replaces
<1>. DEFINE Same(q) == pc'[q] = pc[q] /\ child'[q] = child[q] /\ temp'[q] = temp[q]
<1>. DEFINE Owned == journal' # NoRows => \E p \in Procs : child'[p] = "txn"
<1>. DEFINE Good == ~overlap' /\ (\A p \in Procs : Clean(p)) /\ Owned
<1>. SUFFICES ASSUME Shape, NobodyCut, [Next]_vars, ~cut' PROVE Good
  BY DEF NobodyCut, Replaces
<1>0. /\ pc \in [Procs -> {"idle", "build", "sidecars", "rename", "load", "feed",
                          "wait", "done", "failed"}]
      /\ child \in [Procs -> {"none", "started", "txn", "ok", "failed"}]
      /\ temp \in [Procs -> BOOLEAN]
      /\ ChildFits
  BY DEF Shape, TypeOK
<1>1. CASE cut
  <2>1. \A p \in Procs : ~KillCommand(p) /\ ~KillChild(p)
    BY DEF KillCommand, KillChild
  <2>2. ~PowerLoss
    BY DEF PowerLoss
  <2>3. cut' = cut
    BY <2>1, <2>2 DEF Next, Step, ChildStep, Failure, Query, Start, Finish, Build, RemoveSidecars,
                      Rename, ReplaceFails, Load, LoadFails, SendCommit, FeedFails, Wait, ChildBegin,
                      ChildTimesOut, ChildWrite, ChildCommit, ChildRollsBack, ChildBails,
                      OthersUnchanged, vars
  <2>. QED  BY <1>1, <2>3
<1>. SUFFICES ASSUME ~cut PROVE Good
  BY <1>1
<1>2. /\ ~overlap
      /\ \A p \in Procs : pc[p] = "idle" => child[p] = "none"
      /\ \A p \in Procs : temp[p] => pc[p] \in Replaces
      /\ journal # NoRows => \E p \in Procs : child[p] = "txn"
  BY DEF NobodyCut, Replaces
<1>3. NoteOverlap => ~overlap'
  BY <1>2 DEF NoteOverlap, Orphans
<1>4. ASSUME NEW p \in Procs, Clean(p), \A q \in Procs \ {p} : Same(q)
      PROVE  \A q \in Procs : Clean(q)
  BY <1>2, <1>4
<1>5. ASSUME UNCHANGED <<pc, child, temp>> PROVE \A q \in Procs : Clean(q)
  BY <1>2, <1>5
<1>6. ASSUME NEW p \in Procs, child[p] # "txn", \A q \in Procs \ {p} : child'[q] = child[q],
             journal' \in {journal, NoRows}
      PROVE  Owned
  BY <1>2, <1>6
<1>7. PlayBack => journal' \in {journal, NoRows}
  BY DEF PlayBack, disk
<1>8. CASE Query
  <2>1. UNCHANGED <<pc, child, temp, overlap>> /\ journal' \in {journal, NoRows}
    BY <1>7, <1>8 DEF Query, commands, children
  <2>. QED  BY <1>2, <1>5, <2>1
<1>9. CASE PowerLoss \/ UNCHANGED vars
  <2>1. UNCHANGED <<pc, child, temp, overlap, journal>>
    BY <1>9 DEF PowerLoss, vars, commands, children, disk
  <2>. QED  BY <1>2, <1>5, <2>1
<1>10. ASSUME NEW p \in Procs, NEW k \in Ops, Start(p, k) PROVE Good
  <2>1. /\ pc[p] = "idle" /\ UNCHANGED <<journal, child, overlap>>
        /\ temp' = [temp EXCEPT ![p] = @ \/ k # "update"]
        /\ pc' = [pc EXCEPT ![p] = IF k = "update" THEN "load" ELSE "build"]
    BY <1>10 DEF Start, Goto, disk, children
  <2>2. ~temp[p]
    BY <1>2, <2>1 DEF Replaces
  <2>3. CASE k = "update"
    <3>1. temp'[p] = FALSE /\ pc'[p] = "load"
      BY <1>0, <2>1, <2>2, <2>3
    <3>. QED  BY <1>0, <1>2, <1>4, <2>1, <3>1
  <2>4. CASE k # "update"
    <3>1. pc'[p] = "build"
      BY <1>0, <2>1, <2>4
    <3>. QED  BY <1>0, <1>2, <1>4, <2>1, <3>1 DEF Replaces
  <2>. QED  BY <2>3, <2>4
<1>11. ASSUME NEW p \in Procs, Finish(p) \/ Build(p) \/ RemoveSidecars(p) \/ LoadFails(p)
       PROVE  Good
  <2>1. child[p] = "none" /\ UNCHANGED <<child, temp>> /\ journal' \in {journal, NoRows} /\ ~overlap'
    BY <1>0, <1>2, <1>3, <1>11
       DEF Finish, Build, RemoveSidecars, LoadFails, ChildFits, children, disk, DeleteJournal
  <2>2. \/ pc[p] \notin Replaces /\ \E l \in {"idle", "failed"} : pc' = [pc EXCEPT ![p] = l]
        \/ \E l \in Replaces : pc' = [pc EXCEPT ![p] = l]
    BY <1>11 DEF Finish, Build, RemoveSidecars, LoadFails, Goto, Replaces
  <2>3. Clean(p)
    BY <1>0, <1>2, <2>1, <2>2
  <2>. QED  BY <1>0, <1>4, <1>6, <2>1, <2>2, <2>3
<1>12. ASSUME NEW p \in Procs, Rename(p) \/ ReplaceFails(p) PROVE Good
  <2>1. /\ child[p] = "none" /\ UNCHANGED <<child, journal>> /\ ~overlap'
        /\ temp' = [temp EXCEPT ![p] = FALSE]
        /\ \E l \in {"done", "failed"} : pc' = [pc EXCEPT ![p] = l]
    BY <1>0, <1>2, <1>3, <1>12 DEF Rename, ReplaceFails, DropTemp, Goto, ChildFits, children, disk
  <2>2. Clean(p)
    BY <1>0, <2>1
  <2>. QED  BY <1>0, <1>4, <1>6, <2>1, <2>2
<1>13. ASSUME NEW p \in Procs, Load(p) \/ SendCommit(p) \/ FeedFails(p) \/ Wait(p) PROVE Good
  <2>1. /\ pc[p] \in {"load", "feed", "wait"} /\ UNCHANGED temp /\ ~overlap'
        /\ \E l \in {"feed", "wait", "done", "failed"} : pc' = [pc EXCEPT ![p] = l]
    BY <1>2, <1>3, <1>13 DEF Load, SendCommit, FeedFails, Wait, Outcome, Goto, children
  <2>2. ~temp[p]
    BY <1>2, <2>1 DEF Replaces
  <2>3. Clean(p)
    BY <1>0, <2>1, <2>2
  <2>4. \/ UNCHANGED <<child, journal>>
        \/ /\ child[p] # "txn" /\ journal' \in {journal, NoRows}
           /\ \E c \in {"started", "none"} : child' = [child EXCEPT ![p] = c]
    BY <1>0, <1>7, <1>13 DEF Load, SendCommit, FeedFails, Wait, ChildFits, children, disk
  <2>5. \A q \in Procs \ {p} : child'[q] = child[q]
    BY <1>0, <2>4
  <2>6. Owned
    BY <1>2, <1>6, <2>4, <2>5
  <2>7. \A q \in Procs \ {p} : pc'[q] = pc[q]
    BY <1>0, <2>1
  <2>. QED  BY <1>4, <2>1, <2>3, <2>5, <2>6, <2>7
<1>14. ASSUME NEW p \in Procs, ChildBegin(p) PROVE Good
  <2>1. child' = [child EXCEPT ![p] = "txn"] /\ child[p] = "started" /\ UNCHANGED <<pc, temp, overlap>>
    BY <1>14 DEF ChildBegin, OthersUnchanged
  <2>2. Clean(p) /\ child'[p] = "txn"
    BY <1>0, <1>2, <2>1
  <2>. QED  BY <1>0, <1>2, <1>4, <2>1, <2>2
<1>15. ASSUME NEW p \in Procs, NEW f \in Files, ChildWrite(p, f) PROVE Good
  <2>1. child[p] = "txn" /\ UNCHANGED <<child, pc, temp, overlap>>
    BY <1>15 DEF ChildWrite, OthersUnchanged
  <2>. QED  BY <1>2, <1>5, <2>1
<1>16. ASSUME NEW p \in Procs,
              ChildTimesOut(p) \/ ChildCommit(p) \/ ChildRollsBack(p) \/ ChildBails(p)
       PROVE  Good
  <2>1. /\ child[p] \in {"started", "txn"} /\ UNCHANGED <<pc, temp, overlap>>
        /\ \E r \in {"ok", "failed"} : ChildEnds(p, r)
    BY <1>16 DEF ChildTimesOut, ChildCommit, ChildRollsBack, ChildBails, UndoTransaction,
                 OthersUnchanged
  <2>2. pc[p] # "idle"
    BY <1>2, <2>1
  <2>3. \E r \in {"ok", "failed"} : child' = [child EXCEPT ![p] = r]
    BY <2>1, <2>2 DEF ChildEnds
  <2>4. Clean(p)
    BY <1>2, <2>1, <2>2
  <2>5. journal' = NoRows \/ (child[p] = "started" /\ journal' = journal)
    BY <2>1, <1>16 DEF ChildTimesOut, ChildCommit, ChildRollsBack, ChildBails, UndoTransaction, disk
  <2>6. \A q \in Procs \ {p} : child'[q] = child[q]
    BY <1>0, <2>3
  <2>7. ASSUME child[p] = "started" PROVE Owned
    BY <1>6, <2>5, <2>6, <2>7
  <2>8. ASSUME journal' = NoRows PROVE Owned
    BY <2>8
  <2>9. Owned
    BY <2>5, <2>7, <2>8
  <2>. QED  BY <1>2, <1>4, <2>1, <2>4, <2>6, <2>9
<1>17. ASSUME NEW p \in Procs, KillCommand(p) \/ KillChild(p) PROVE FALSE
  BY <1>17 DEF KillCommand, KillChild
<1>. HIDE DEF Good, Clean, Same, Owned
<1>. QED
  BY <1>8, <1>9, <1>10, <1>11, <1>12, <1>13, <1>14, <1>15, <1>16, <1>17
     DEF Next, Step, ChildStep, Failure

-----------------------------------------------------------------------------
(* What is stored, while no orphan has been overtaken.                       *)

LEMMA VisibleIsStored == Shape /\ ChildRestores => Visible = Stored
<1>. SUFFICES ASSUME Shape, ChildRestores, Writers # {} PROVE Visible = Stored
  BY DEF Visible, Stored
<1>. DEFINE w == CHOOSE q \in Writers : TRUE
<1>1. w \in Procs /\ IsLive(w)
  BY DEF Writers, IsLive
<1>2. image[w] = journal
  BY <1>1 DEF ChildRestores
<1>. QED  BY <1>2 DEF Visible, Stored

\* Opening the database changes the files, not what is stored, and leaves no
\* journal unless somebody is in a transaction.
LEMMA PlayBackKeeps ==
    Shape /\ ChildRestores /\ PlayBack =>
        /\ Stored' = Stored
        /\ Writers = {} /\ rows # NoIndex => journal' = NoRows /\ rows' = Stored
        /\ UNCHANGED disk \/ (Hot /\ journal' = NoRows)
<1>. SUFFICES ASSUME Shape, ChildRestores, PlayBack
              PROVE  /\ Stored' = Stored
                     /\ Writers = {} /\ rows # NoIndex => journal' = NoRows /\ rows' = Stored
                     /\ UNCHANGED disk \/ (Hot /\ journal' = NoRows)
  OBVIOUS
<1>1. rows # NoIndex => rows \in [Files -> Values] /\ Visible \in [Files -> Values]
  BY VisibleType DEF Shape, TypeOK
<1>2. CASE Hot
  <2>1. rows' = Stored /\ journal' = NoRows /\ rows' \in [Files -> Values]
    BY <1>1, <1>2, VisibleIsStored DEF PlayBack, Hot
  <2>2. rows' # NoIndex
    BY <2>1
  <2>3. Stored' = Restore(NoRows, rows')
    BY <2>1, <2>2 DEF Stored
  <2>. QED  BY <1>2, <2>1, <2>3, RestoreNothing
<1>3. CASE ~Hot
  <2>1. UNCHANGED disk /\ Stored' = Stored
    BY <1>3 DEF PlayBack, Stored, disk
  <2>2. ASSUME Writers = {}, rows # NoIndex PROVE journal = NoRows /\ rows = Stored
    BY <1>1, <1>3, <2>2, RestoreNothing DEF Hot, Stored
  <2>. QED  BY <2>1, <2>2 DEF disk
<1>. QED  BY <1>2, <1>3

\* A query would restore what the child of an update has found.
LEMMA LiveStored ==
    ASSUME Shape, ChildRestores, NEW p \in Procs, IsLive(p)
    PROVE  rows \in [Files -> Values] /\ Stored = base[p]
<1>1. rows # NoIndex /\ rows \in [Files -> Values] /\ base[p] \in [Files -> Values]
  BY DEF Shape, UpdatesHaveIndex, TypeOK, IsLive
<1>2. \A f \in Files : Restore(journal, rows)[f] = base[p][f]
  BY DEF Restore, ChildRestores
<1>3. Stored = Restore(journal, rows) /\ Restore(journal, rows) = [f \in Files |-> Restore(journal, rows)[f]]
  BY <1>1 DEF Stored, Restore
<1>. QED  BY <1>1, <1>2, <1>3

\* Nobody replaces, or reads, the index of a child that is at work.
LEMMA NobodyIsLive ==
    ASSUME Shape, Orphans = {}, NEW p \in Procs, pc[p] \in {"sidecars", "rename", "load"},
           NEW q \in Procs
    PROVE  ~IsLive(q)
<1>1. q = p => child[q] = "none"
  BY DEF Shape, ChildFits
<1>2. lock = p /\ (pc[q] # "idle" => lock = q)
  BY DEF Shape, TypeOK
<1>. QED  BY <1>1, <1>2 DEF IsLive, Orphans

\* While a child is at work every other command is somewhere harmless.
LEMMA OthersWait ==
    ASSUME Shape, OneChild, NEW p \in Procs, IsLive(p), NEW q \in Procs
    PROVE  /\ pc[q] \notin {"rename", "done"} /\ child[q] # "ok"
           /\ q # p => ~IsLive(q)
BY DEF Shape, ChildFits, OneChild, IsLive

\* A step that leaves the disk, and the children at work, alone.
LEMMA ElsewhereStep ==
    ASSUME Shape, Undisturbed, TypeOK', NEW p \in Procs, ~IsLive(p),
           UNCHANGED <<rows, journal, writer, base, on, todo, image, dropped>>,
           NEW l \in {"idle", "build", "sidecars", "load", "done", "failed"},
           pc' = [pc EXCEPT ![p] = l],
           NEW c \in {child[p], "none"}, child' = [child EXCEPT ![p] = c],
           \A q \in Procs \ {p} : target'[q] = target[q],
           child'[p] = "ok" \/ l = "done" => child[p] = "ok" /\ target' = target,
           l = "done" => pc[p] = "wait"
    PROVE  Undisturbed'
<1>1. \A q \in Procs \ {p} : pc'[q] = pc[q] /\ child'[q] = child[q] /\ target'[q] = target[q]
  BY DEF Shape, TypeOK
<1>2. pc'[p] = l /\ child'[p] = c
  BY DEF Shape, TypeOK
<1>3. ~IsLive(p)' /\ \A q \in Procs \ {p} : IsLive(q)' <=> IsLive(q)
  BY <1>1, <1>2 DEF IsLive
<1>4. OneChild'
  <2>. SUFFICES ASSUME NEW x \in Procs, NEW q \in Procs, IsLive(x)', x # q
                PROVE  ~IsLive(q)' /\ pc'[q] \in {"idle", "build", "sidecars", "load", "failed"}
    BY DEF OneChild
  <2>1. x # p /\ IsLive(x)
    BY <1>3
  <2>2. pc[q] # "wait" /\ ~IsLive(q) /\ pc[q] \in {"idle", "build", "sidecars", "load", "failed"}
    BY <2>1 DEF Undisturbed, OneChild
  <2>. QED  BY <1>1, <1>2, <1>3, <2>2
<1>5. ChildRestores'
  BY <1>1, <1>3 DEF Undisturbed, ChildRestores, IsLive
<1>6. ChildAdvances'
  BY <1>1, <1>3 DEF Undisturbed, ChildAdvances
<1>7. Installed'
  <2>. SUFFICES ASSUME NEW q \in Procs
                PROVE  /\ pc'[q] = "rename" => journal' = NoRows
                       /\ child'[q] = "ok" \/ pc'[q] = "done" =>
                             rows' = target'[q] /\ journal' = NoRows
    BY DEF Installed
  <2>1. CASE q = p
    BY <1>2, <2>1 DEF Undisturbed, Installed
  <2>2. CASE q # p
    BY <1>1, <2>2 DEF Undisturbed, Installed
  <2>. QED  BY <2>1, <2>2
<1>8. StoredIsWhole'
  BY DEF Undisturbed, StoredIsWhole, Stored
<1>. QED  BY <1>4, <1>5, <1>6, <1>7, <1>8 DEF Undisturbed

\* A step after which the only child is gone.
LEMMA EndStep ==
    ASSUME Shape, Undisturbed, NEW p \in Procs, IsLive(p), NEW c \in {"none", "ok", "failed"},
           child' = [child EXCEPT ![p] = c], pc' = pc, UNCHANGED dropped,
           c = "ok" => rows' = target'[p] /\ journal' = NoRows,
           Stored' \in {Stored} \cup Snapshots
    PROVE  Undisturbed'
<1>1. \A q \in Procs : child'[q] = (IF q = p THEN c ELSE child[q])
  BY DEF Shape, TypeOK
<1>2. \A q \in Procs : ~IsLive(q)' /\ pc'[q] \notin {"rename", "done"}
  BY <1>1, OthersWait DEF Undisturbed, IsLive
<1>3. \A q \in Procs : child'[q] = "ok" => q = p /\ c = "ok"
  BY <1>1, OthersWait DEF Undisturbed
<1>4. OneChild' /\ ChildRestores' /\ ChildAdvances'
  BY <1>2 DEF OneChild, ChildRestores, ChildAdvances
<1>5. Installed'
  BY <1>2, <1>3 DEF Installed
<1>6. StoredIsWhole'
  BY DEF Undisturbed, StoredIsWhole
<1>. QED  BY <1>4, <1>5, <1>6 DEF Undisturbed

LEMMA ReplaceStep ==
    ASSUME Shape, Undisturbed, TypeOK', ~overlap', NEW p \in Procs,
           RemoveSidecars(p) \/ Rename(p)
    PROVE  Undisturbed'
<1>1. pc[p] \in {"sidecars", "rename"} /\ NoteOverlap /\ child' = child
  BY DEF RemoveSidecars, Rename, children
<1>2. \A q \in Procs : ~IsLive(q)
  BY <1>1, NobodyIsLive DEF NoteOverlap
<1>3. \A q \in Procs \ {p} : pc'[q] = "idle"
  <2>1. pc[p] # "idle" /\ lock = p /\ UNCHANGED lock
    BY <1>1 DEF RemoveSidecars, Rename, Shape, TypeOK
  <2>. QED  BY <2>1 DEF TypeOK
<1>4. child[p] = "none" /\ \A q \in Procs \ {p} : child[q] # "ok"
  <2>1. \A q \in Procs \ {p} : pc[q] = "idle"
    BY <1>1 DEF Shape, TypeOK
  <2>. QED  BY <1>1, <2>1 DEF Shape, ChildFits
<1>5. OneChild' /\ ChildRestores' /\ ChildAdvances'
  BY <1>1, <1>2 DEF OneChild, ChildRestores, ChildAdvances, IsLive
<1>6. \A q \in Procs : child'[q] # "ok"
  BY <1>1, <1>4
<1>7. CASE RemoveSidecars(p)
  <2>1. pc'[p] = "rename" /\ journal' = NoRows /\ rows' = rows /\ dropped' = (dropped \/ Hot)
    BY <1>7 DEF RemoveSidecars, Goto, DeleteJournal, Shape, TypeOK
  <2>2. Installed'
    BY <1>3, <1>6, <2>1 DEF Installed
  <2>3. Writers = {}
    BY <1>2 DEF Writers, IsLive
  <2>4. Hot \/ Stored' = Stored
    BY <2>1, <2>3 DEF Hot, Stored
  <2>5. dropped' \in BOOLEAN /\ (~dropped' => ~dropped /\ ~Hot)
    BY <2>1 DEF TypeOK
  <2>6. StoredIsWhole'
    BY <2>4, <2>5 DEF Undisturbed, StoredIsWhole
  <2>. QED  BY <1>5, <2>2, <2>6 DEF Undisturbed
<1>8. CASE Rename(p)
  <2>1. pc[p] = "rename" /\ pc'[p] = "done" /\ rows' = target[p] /\ UNCHANGED <<journal, target>>
    BY <1>8 DEF Rename, Goto, Shape, TypeOK
  <2>2. journal = NoRows
    BY <2>1 DEF Undisturbed, Installed
  <2>3. Installed'
    BY <1>3, <1>6, <2>1, <2>2 DEF Installed
  <2>4. target[p] \in Snapshots /\ target[p] \in [Files -> Values]
    BY DEF Shape, TypeOK
  <2>5. Stored' = Restore(NoRows, target[p])
    BY <2>1, <2>2, <2>4 DEF Stored
  <2>6. StoredIsWhole'
    BY <2>4, <2>5, RestoreNothing DEF StoredIsWhole
  <2>. QED  BY <1>5, <2>3, <2>6 DEF Undisturbed
<1>. QED  BY <1>7, <1>8

LEMMA LoadStep ==
    ASSUME Shape, Undisturbed, TypeOK', ~overlap', NEW p \in Procs, Load(p)
    PROVE  Undisturbed'
<1>1. pc[p] = "load" /\ NoteOverlap /\ PlayBack /\ Goto(p, "feed") /\ UNCHANGED <<lock, target, dropped>>
  BY DEF Load
<1>2. \A q \in Procs : ~IsLive(q)
  BY <1>1, NobodyIsLive DEF NoteOverlap
<1>3. Writers = {} /\ rows # NoIndex
  BY <1>1, <1>2 DEF Writers, IsLive, Shape, UpdatesHaveIndex
<1>4. journal' = NoRows /\ rows' = Visible /\ Stored' = Stored
  BY <1>1, <1>3, PlayBackKeeps, VisibleIsStored DEF Undisturbed
<1>5. /\ pc'[p] = "feed" /\ child'[p] = "started" /\ on'[p] = "path" /\ image'[p] = NoRows
      /\ base'[p] = Visible /\ todo'[p] = Outdated(p)
      /\ \A q \in Procs \ {p} : child'[q] = child[q]
  BY DEF Load, Goto, Shape, TypeOK
<1>6. \A q \in Procs \ {p} : pc'[q] = "idle" /\ ~IsLive(q)' /\ child'[q] # "ok"
  <2>1. \A q \in Procs \ {p} : pc[q] = "idle" /\ pc'[q] = pc[q]
    BY <1>1 DEF Goto, Shape, TypeOK
  <2>. QED  BY <1>2, <1>5, <2>1 DEF IsLive, Shape, ChildFits
<1>7. OneChild'
  BY <1>6 DEF OneChild
<1>8. ChildRestores'
  BY <1>4, <1>5, <1>6, NoRowsFacts DEF ChildRestores
<1>9. ChildAdvances'
  BY <1>1, <1>4, <1>5, <1>6 DEF ChildAdvances, Outdated
<1>10. Installed'
  BY <1>5, <1>6 DEF Installed
<1>11. StoredIsWhole'
  BY <1>1, <1>4 DEF Undisturbed, StoredIsWhole
<1>. QED  BY <1>7, <1>8, <1>9, <1>10, <1>11 DEF Undisturbed

LEMMA WriteStep ==
    ASSUME Shape, Shape', Undisturbed, NEW p \in Procs, NEW f \in Files, ChildWrite(p, f)
    PROVE  Undisturbed'
<1>. DEFINE saved == [g \in DOMAIN image[p] \cup {f} |->
                        IF g \in DOMAIN image[p] THEN image[p][g]
                        ELSE IF on[p] = "path" THEN rows[g] ELSE base[p][g]]
<1>1. IsLive(p) /\ UNCHANGED <<child, pc, base, on, target, dropped>>
  BY DEF ChildWrite, OthersUnchanged, IsLive
<1>2. \A q \in Procs : /\ pc[q] \notin {"rename", "done"} /\ child[q] # "ok"
                       /\ q # p => ~IsLive(q)
  BY <1>1, OthersWait DEF Undisturbed
<1>3. /\ on[p] = "path" /\ rows \in [Files -> Values]
      /\ image[p] # NoRows => writer = p
      /\ \A g \in Files : /\ g \in DOMAIN image[p] => image[p][g] = base[p][g]
                          /\ g \notin DOMAIN image[p] => rows[g] = base[p][g]
  BY <1>1, LiveStored DEF Undisturbed, ChildRestores
<1>4. /\ child[p] = "txn" /\ f \in todo[p] /\ image' = [image EXCEPT ![p] = saved]
      /\ journal' = saved /\ writer' = p
      /\ rows' = [rows EXCEPT ![f] = target[p][f]]
      /\ todo' = [todo EXCEPT ![p] = @ \ {f}]
  BY <1>3 DEF ChildWrite
<1>5. image'[p] = saved /\ todo'[p] = todo[p] \ {f}
  BY <1>4 DEF Shape, TypeOK
<1>6. \A g \in Files : g \in DOMAIN saved => saved[g] = base[p][g]
  BY <1>3
<1>7. \A g \in Files : g \notin DOMAIN saved => rows'[g] = base[p][g]
  BY <1>3, <1>4
<1>. HIDE DEF saved
<1>8. \A q \in Procs : IsLive(q)' => q = p
  BY <1>1, <1>2 DEF IsLive
<1>9. OneChild'
  BY <1>1, <1>8 DEF Undisturbed, OneChild, IsLive
<1>10. ChildRestores'
  <2>1. child'[p] = "txn" /\ on'[p] = "path" /\ base'[p] = base[p]
    BY <1>1, <1>3, <1>4
  <2>2. SUFFICES /\ on'[p] = "path" /\ journal' = image'[p] /\ writer' = p
                 /\ child'[p] # "started"
                 /\ \A g \in Files :
                       /\ g \in DOMAIN image'[p] => image'[p][g] = base'[p][g]
                       /\ g \notin DOMAIN image'[p] => rows'[g] = base'[p][g]
    BY <1>8 DEF ChildRestores
  <2>. QED  BY <1>4, <1>5, <1>6, <1>7, <2>1
<1>11. ChildAdvances'
  <2>. SUFFICES ASSUME NEW g \in Files \ todo'[p] PROVE rows'[g] = target[p][g]
    BY <1>1, <1>8 DEF ChildAdvances
  <2>1. CASE g = f
    BY <1>3, <1>4, <2>1
  <2>2. CASE g # f
    BY <1>1, <1>3, <1>4, <1>5, <2>2 DEF Undisturbed, ChildAdvances
  <2>. QED  BY <2>1, <2>2
<1>12. Installed'
  BY <1>1, <1>2 DEF Installed
<1>13. StoredIsWhole'
  <2>1. Stored = base[p]
    BY <1>1, LiveStored DEF Undisturbed
  <2>2. rows' # NoIndex /\ rows' \in [Files -> Values]
    <3>1. target[p][f] \in Values
      BY DEF Shape, TypeOK
    <3>2. rows' \in [Files -> Values]
      BY <1>3, <1>4, <3>1
    <3>. QED  BY <3>2
  <2>3. base[p] \in [Files -> Values]
    BY DEF Shape, TypeOK
  <2>4. \A g \in Files : Restore(saved, rows')[g] = base[p][g]
    BY <1>6, <1>7 DEF Restore
  <2>5. Restore(saved, rows') = base[p]
    BY <2>3, <2>4 DEF Restore
  <2>. QED  BY <1>1, <1>4, <2>1, <2>2, <2>5 DEF Undisturbed, StoredIsWhole, Stored
<1>. QED  BY <1>9, <1>10, <1>11, <1>12, <1>13 DEF Undisturbed

\* A child that does not commit leaves what it found.
LEMMA UndoKeepsStored ==
    ASSUME Shape, Undisturbed, NEW p \in Procs,
           ChildRollsBack(p) \/ ChildBails(p) \/ KillChild(p)
    PROVE  Stored' = Stored
<1>1. IsLive(p)
  BY DEF ChildRollsBack, ChildBails, KillChild, IsLive
<1>2. /\ rows \in [Files -> Values] /\ rows # NoIndex /\ image[p] \in PartialRows
      /\ on[p] = "path" /\ journal = image[p] /\ Stored = Restore(image[p], rows)
  BY <1>1, LiveStored DEF Undisturbed, ChildRestores, Shape, TypeOK, Stored
<1>3. CASE UNCHANGED <<rows, journal>>
  BY <1>3 DEF Stored
<1>4. CASE KillChild(p)
  BY <1>3, <1>4 DEF KillChild
<1>5. CASE child[p] = "txn" /\ ~KillChild(p)
  <2>1. p \in Writers
    BY <1>2, <1>5 DEF Writers
  <2>2. rows' = Restore(image[p], rows) /\ journal' = NoRows
    BY <1>5, <2>1 DEF ChildRollsBack, ChildBails, UndoTransaction
  <2>3. rows' \in [Files -> Values]
    BY <1>2, <2>2, RestoreType
  <2>4. Stored' = Restore(NoRows, rows')
    BY <2>2, <2>3 DEF Stored
  <2>. QED  BY <1>2, <2>2, <2>3, <2>4, RestoreNothing
<1>6. CASE child[p] # "txn" /\ ~KillChild(p)
  <2>1. p \notin Writers
    BY <1>6 DEF Writers
  <2>2. UNCHANGED <<rows, journal>>
    BY <1>6, <2>1 DEF ChildRollsBack, ChildBails, UndoTransaction
  <2>. QED  BY <1>3, <2>2
<1>. QED  BY <1>4, <1>5, <1>6

\* A child that commits has changed every row that it had to.
LEMMA CommitInstalls ==
    ASSUME Shape, Undisturbed, NEW p \in Procs, ChildCommit(p)
    PROVE  rows' = target[p] /\ journal' = NoRows /\ Stored' = target[p] /\ Stored' \in Snapshots
<1>1. IsLive(p) /\ todo[p] = {} /\ journal' = NoRows /\ rows' = rows
  BY DEF ChildCommit, IsLive
<1>2. rows \in [Files -> Values] /\ rows # NoIndex
  BY <1>1, LiveStored DEF Undisturbed
<1>3. target[p] \in Snapshots /\ target[p] \in [Files -> Values]
  BY DEF Shape, TypeOK
<1>4. \A f \in Files : rows[f] = target[p][f]
  BY <1>1 DEF Undisturbed, ChildAdvances
<1>5. rows = target[p]
  BY <1>2, <1>3, <1>4
<1>6. Stored' = rows
  BY <1>1, <1>2, RestoreNothing DEF Stored
<1>. QED  BY <1>1, <1>3, <1>5, <1>6

LEMMA ChildEndStep ==
    ASSUME Shape, Undisturbed, NEW p \in Procs,
           ChildTimesOut(p) \/ ChildCommit(p) \/ ChildRollsBack(p) \/ ChildBails(p) \/ KillChild(p)
    PROVE  Undisturbed'
<1>1. IsLive(p) /\ UNCHANGED <<pc, dropped>>
  BY DEF ChildTimesOut, ChildCommit, ChildRollsBack, ChildBails, KillChild, OthersUnchanged, IsLive
<1>2. ~ChildTimesOut(p)
  BY <1>1, OthersWait DEF ChildTimesOut, Writers, IsLive, Undisturbed
<1>3. CASE ChildCommit(p)
  <2>1. /\ ChildEnds(p, "ok") /\ rows' = target[p] /\ journal' = NoRows
        /\ Stored' \in Snapshots
    BY <1>3, CommitInstalls DEF ChildCommit
  <2>2. CASE pc[p] = "idle"
    <3>1. child' = [child EXCEPT ![p] = "none"]
      BY <2>1, <2>2 DEF ChildEnds
    <3>. QED  BY <1>1, <2>1, <3>1, EndStep
  <2>3. CASE pc[p] # "idle"
    <3>1. child' = [child EXCEPT ![p] = "ok"] /\ target' = target
      BY <2>1, <2>3 DEF ChildEnds
    <3>. QED  BY <1>1, <2>1, <3>1, EndStep
  <2>. QED  BY <2>2, <2>3
<1>4. CASE ~ChildCommit(p)
  <2>1. ChildRollsBack(p) \/ ChildBails(p) \/ KillChild(p)
    BY <1>2, <1>4
  <2>2. ChildEnds(p, "failed")
    BY <2>1 DEF ChildRollsBack, ChildBails, KillChild, UndoTransaction
  <2>3. \E c \in {"none", "failed"} : child' = [child EXCEPT ![p] = c]
    BY <2>2 DEF ChildEnds
  <2>4. Stored' = Stored
    BY <2>1, UndoKeepsStored
  <2>. QED  BY <1>1, <2>3, <2>4, EndStep
<1>. QED  BY <1>3, <1>4

LEMMA QuietStep == Shape /\ Shape' /\ Quiet /\ [Next]_vars => Quiet'
<1>. SUFFICES ASSUME Shape, Shape', Quiet, [Next]_vars, ~overlap' PROVE Undisturbed'
  BY DEF Quiet
<1>1. Undisturbed
  <2>1. ~overlap
    BY DEF Next, Step, ChildStep, Failure, Query, PowerLoss, Start, Finish, Build, RemoveSidecars,
           Rename, ReplaceFails, Load, LoadFails, SendCommit, FeedFails, Wait, ChildBegin,
           ChildTimesOut, ChildWrite, ChildCommit, ChildRollsBack, ChildBails, KillCommand,
           KillChild, OthersUnchanged, NoteOverlap, vars
  <2>. QED  BY <2>1 DEF Quiet
<1>2. /\ pc \in [Procs -> {"idle", "build", "sidecars", "rename", "load", "feed",
                          "wait", "done", "failed"}]
      /\ child \in [Procs -> {"none", "started", "txn", "ok", "failed"}]
      /\ target \in [Procs -> Snapshots]
      /\ TypeOK'
  BY DEF Shape, TypeOK
<1>3. CASE Query
  <2>1. Hot /\ PlayBack /\ UNCHANGED <<pc, child, target, todo, base, on, image, dropped>>
    BY <1>3 DEF Query, commands, children, memory
  <2>2. Writers = {} /\ journal # NoRows
    BY <2>1 DEF Hot
  <2>3. \A q \in Procs : ~IsLive(q)
    BY <1>1, <2>2 DEF Writers, IsLive, Undisturbed, ChildRestores
  <2>4. \A q \in Procs : pc[q] \notin {"rename", "done"} /\ child[q] # "ok"
    BY <1>1, <2>2 DEF Undisturbed, Installed
  <2>5. Stored' = Stored
    BY <1>1, <2>1, PlayBackKeeps DEF Undisturbed
  <2>6. OneChild' /\ ChildRestores' /\ ChildAdvances' /\ Installed'
    BY <2>1, <2>3, <2>4 DEF OneChild, ChildRestores, ChildAdvances, Installed, IsLive
  <2>7. StoredIsWhole'
    BY <1>1, <2>1, <2>5 DEF Undisturbed, StoredIsWhole
  <2>. QED  BY <2>6, <2>7 DEF Undisturbed
<1>4. CASE PowerLoss
  <2>1. /\ UNCHANGED <<rows, journal, dropped>>
        /\ \A q \in Procs : pc'[q] = "idle" /\ child'[q] = "none"
    BY <1>4 DEF PowerLoss
  <2>2. OneChild' /\ ChildRestores' /\ ChildAdvances' /\ Installed'
    BY <2>1 DEF OneChild, ChildRestores, ChildAdvances, Installed, IsLive
  <2>3. StoredIsWhole'
    BY <1>1, <2>1 DEF Undisturbed, StoredIsWhole, Stored
  <2>. QED  BY <2>2, <2>3 DEF Undisturbed
<1>5. ASSUME NEW p \in Procs, NEW k \in Ops, Start(p, k) PROVE Undisturbed'
  <2>1. /\ pc[p] = "idle" /\ child[p] = "none"
        /\ UNCHANGED <<rows, journal, writer, child, base, on, todo, image, dropped>>
    BY <1>5 DEF Start, disk, children, memory
  <2>2. /\ \E l \in {"load", "build"} : pc' = [pc EXCEPT ![p] = l]
        /\ \A q \in Procs \ {p} : target'[q] = target[q]
    BY <1>2, <1>5 DEF Start, Goto
  <2>3. child' = [child EXCEPT ![p] = "none"] /\ ~IsLive(p)
    BY <1>2, <2>1 DEF IsLive
  <2>. QED  BY <1>1, <1>2, <2>1, <2>2, <2>3, ElsewhereStep
<1>6. ASSUME NEW p \in Procs, Finish(p) \/ Build(p) \/ ReplaceFails(p) \/ LoadFails(p)
      PROVE  Undisturbed'
  <2>1. /\ child[p] = "none"
        /\ UNCHANGED <<rows, journal, writer, child, base, on, todo, image, dropped>>
    BY <1>6 DEF Finish, Build, ReplaceFails, LoadFails, Shape, ChildFits, disk, children, memory
  <2>2. \E l \in {"idle", "sidecars", "failed"} : pc' = [pc EXCEPT ![p] = l]
    BY <1>6 DEF Finish, Build, ReplaceFails, LoadFails, Goto
  <2>3. \A q \in Procs \ {p} : target'[q] = target[q]
    BY <1>2, <1>6 DEF Finish, Build, ReplaceFails, LoadFails, ForgetCommand
  <2>4. child' = [child EXCEPT ![p] = "none"] /\ ~IsLive(p)
    BY <1>2, <2>1 DEF IsLive
  <2>. QED  BY <1>1, <1>2, <2>1, <2>2, <2>3, <2>4, ElsewhereStep
<1>7. ASSUME NEW p \in Procs, Wait(p) PROVE Undisturbed'
  <2>1. /\ pc[p] = "wait" /\ child[p] \in {"ok", "failed"} /\ target' = target
        /\ child' = [child EXCEPT ![p] = "none"]
        /\ UNCHANGED <<rows, journal, writer, base, on, todo, image, dropped>>
    BY <1>7 DEF Wait, disk, memory
  <2>2. child'[p] = "none" /\ ~IsLive(p)
    BY <1>2, <2>1 DEF IsLive
  <2>3. CASE child[p] = "ok"
    <3>1. pc' = [pc EXCEPT ![p] = "done"]
      BY <1>7, <2>3 DEF Wait, Outcome, Goto
    <3>. QED  BY <1>1, <1>2, <2>1, <2>2, <2>3, <3>1, ElsewhereStep
  <2>4. CASE child[p] # "ok"
    <3>1. pc' = [pc EXCEPT ![p] = "failed"]
      BY <1>7, <2>4 DEF Wait, Outcome, Goto
    <3>. QED  BY <1>1, <1>2, <2>1, <2>2, <3>1, ElsewhereStep
  <2>. QED  BY <2>3, <2>4
<1>8. ASSUME NEW p \in Procs, NEW l \in {"idle", "wait"}, pc' = [pc EXCEPT ![p] = l],
             l = "wait" => pc[p] = "feed",
             UNCHANGED <<rows, journal, writer, child, target, base, on, todo, image, dropped>>
      PROVE  Undisturbed'
  <2>1. \A q \in Procs : pc'[q] = (IF q = p THEN l ELSE pc[q])
    BY <1>2, <1>8
  <2>2. \A q \in Procs : IsLive(q)' <=> IsLive(q)
    BY <1>8 DEF IsLive
  <2>3. OneChild'
    BY <1>1, <1>8, <2>1, <2>2 DEF Undisturbed, OneChild
  <2>4. ChildRestores' /\ ChildAdvances'
    BY <1>1, <1>8, <2>2 DEF Undisturbed, ChildRestores, ChildAdvances
  <2>5. Installed'
    BY <1>1, <1>8, <2>1 DEF Undisturbed, Installed
  <2>6. StoredIsWhole'
    BY <1>1, <1>8 DEF Undisturbed, StoredIsWhole, Stored
  <2>. QED  BY <2>3, <2>4, <2>5, <2>6 DEF Undisturbed
<1>9. ASSUME NEW p \in Procs, SendCommit(p) \/ FeedFails(p) PROVE Undisturbed'
  <2>1. /\ pc[p] = "feed" /\ pc' = [pc EXCEPT ![p] = "wait"]
        /\ UNCHANGED <<rows, journal, writer, child, target, base, on, todo, image, dropped>>
    BY <1>9 DEF SendCommit, FeedFails, Goto, disk, children, memory
  <2>. QED  BY <1>8, <2>1
<1>10. ASSUME NEW p \in Procs, KillCommand(p) PROVE Undisturbed'
  <2>1. /\ pc' = [pc EXCEPT ![p] = "idle"]
        /\ UNCHANGED <<rows, journal, writer, base, on, todo, image, dropped>>
    BY <1>10 DEF KillCommand, Goto, disk, memory
  <2>2. CASE IsLive(p)
    <3>1. UNCHANGED <<child, target>>
      BY <1>10, <2>2 DEF KillCommand, IsLive
    <3>. QED  BY <1>8, <2>1, <3>1
  <2>3. CASE ~IsLive(p)
    <3>1. /\ child' = [child EXCEPT ![p] = "none"] /\ child'[p] = "none"
          /\ \A q \in Procs \ {p} : target'[q] = target[q]
      BY <1>2, <1>10, <2>3 DEF KillCommand, IsLive, ForgetCommand
    <3>. QED  BY <1>1, <1>2, <2>1, <2>3, <3>1, ElsewhereStep
  <2>. QED  BY <2>2, <2>3
<1>11. ASSUME NEW p \in Procs, ChildBegin(p) PROVE Undisturbed'
  <2>1. child[p] = "started" /\ IsLive(p) /\ PlayBack /\ child' = [child EXCEPT ![p] = "txn"]
    BY <1>11 DEF ChildBegin, IsLive
  <2>2. journal = NoRows
    BY <1>1, <2>1 DEF Undisturbed, ChildRestores
  <2>3. UNCHANGED disk
    BY <2>1, <2>2 DEF PlayBack, Hot
  <2>4. UNCHANGED <<rows, journal, writer, pc, target, base, on, todo, image, dropped>>
    BY <1>11, <2>3 DEF ChildBegin, OthersUnchanged, memory, disk
  <2>5. \A q \in Procs : child'[q] = (IF q = p THEN "txn" ELSE child[q])
    BY <1>2, <2>1
  <2>6. \A q \in Procs : IsLive(q)' <=> IsLive(q)
    BY <2>1, <2>5 DEF IsLive
  <2>7. OneChild'
    BY <1>1, <2>4, <2>6 DEF Undisturbed, OneChild
  <2>8. ChildRestores'
    BY <1>1, <2>4, <2>5, <2>6 DEF Undisturbed, ChildRestores
  <2>9. ChildAdvances' /\ StoredIsWhole'
    BY <1>1, <2>4, <2>6 DEF Undisturbed, ChildAdvances, StoredIsWhole, Stored
  <2>10. Installed'
    BY <1>1, <2>4, <2>5 DEF Undisturbed, Installed
  <2>. QED  BY <2>7, <2>8, <2>9, <2>10 DEF Undisturbed
<1>12. CASE UNCHANGED vars
  <2>1. UNCHANGED <<rows, journal, writer, pc, child, target, base, on, todo, image, dropped>>
    BY <1>12 DEF vars, disk, commands, children, memory
  <2>2. OneChild' /\ ChildRestores' /\ ChildAdvances' /\ Installed' /\ StoredIsWhole'
    BY <1>1, <2>1 DEF Undisturbed, OneChild, ChildRestores, ChildAdvances, Installed, StoredIsWhole,
                      Stored, IsLive
  <2>. QED  BY <2>2 DEF Undisturbed
<1>. QED
  BY <1>1, <1>2, <1>3, <1>4, <1>5, <1>6, <1>7, <1>9, <1>10, <1>11, <1>12,
     ReplaceStep, LoadStep, WriteStep, ChildEndStep
     DEF Next, Step, ChildStep, Failure

-----------------------------------------------------------------------------
(* The theorems.                                                             *)

LEMMA Initially == Init => IndInv
<1>. SUFFICES ASSUME Init PROVE IndInv
  OBVIOUS
<1>1. TypeOK
  <2>1. /\ rows \in [Files -> Values] \cup {NoIndex} /\ journal \in PartialRows
        /\ base \in [Procs -> [Files -> Values]] /\ image \in [Procs -> PartialRows]
    BY NoRowsFacts DEF Init
  <2>2. /\ temp \in [Procs -> BOOLEAN] /\ sent \in [Procs -> BOOLEAN]
        /\ faults \in 0..MaxFaults
    BY DEF Init
  <2>. QED  BY <2>1, <2>2 DEF Init, TypeOK
<1>2. Shape
  BY <1>1 DEF Init, Shape, UpdatesHaveIndex, ChildFits
<1>3. \A p \in Procs : ~IsLive(p) /\ pc[p] = "idle" /\ child[p] = "none"
  BY DEF Init, IsLive
<1>4. OneChild /\ ChildRestores /\ ChildAdvances /\ Installed
  BY <1>3 DEF OneChild, ChildRestores, ChildAdvances, Installed
<1>5. StoredIsWhole
  BY RestoreNothing DEF Init, StoredIsWhole, Stored
<1>6. NobodyCut
  BY <1>3 DEF Init, NobodyCut
<1>. QED  BY <1>2, <1>4, <1>5, <1>6 DEF IndInv, Quiet, Undisturbed

LEMMA StepKeeps == IndInv /\ [Next]_vars => IndInv'
<1>. SUFFICES ASSUME IndInv, [Next]_vars PROVE IndInv'
  OBVIOUS
<1>1. Shape'
  BY TypeStep, ChildFitsStep DEF IndInv, Shape
<1>. QED  BY <1>1, QuietStep, NobodyCutStep DEF IndInv

\* Invariance of the inductive invariant, for any number of commands, files
\* and faults.
THEOREM Invariance == Spec => []IndInv
BY Initially, StepKeeps, PTL DEF Spec

\* Every variable keeps its type, and two commands are never at work together.
THEOREM TypesHold == Spec => []TypeOK
<1>1. IndInv => TypeOK
  BY DEF IndInv, Shape
<1>. QED  BY <1>1, Invariance, PTL

\* Whatever fails, is killed or is cut off by a power loss: as long as no hot
\* journal has been deleted and no orphan overtaken, a query sees one whole
\* index.
THEOREM AlwaysWhole == Spec => []WholeUnlessExposed
<1>1. IndInv => WholeUnlessExposed
  BY VisibleIsStored
     DEF IndInv, Quiet, Undisturbed, StoredIsWhole, WholeUnlessExposed, Whole
<1>. QED  BY <1>1, Invariance, PTL

\* A command reports success only when its index is the one that is there,
\* unless the child of a killed update was overtaken.
THEOREM SuccessIsInstalled == Spec => []SuccessInstalls
<1>1. IndInv => SuccessInstalls
  <2>. SUFFICES ASSUME IndInv, NEW p \in Procs, pc[p] = "done", ~overlap
                PROVE  Visible = target[p]
    BY DEF SuccessInstalls
  <2>1. rows = target[p] /\ journal = NoRows /\ Visible = Stored
    BY VisibleIsStored DEF IndInv, Quiet, Undisturbed, Installed
  <2>2. target[p] \in [Files -> Values]
    BY DEF IndInv, Shape, TypeOK
  <2>. QED  BY <2>1, <2>2, RestoreNothing DEF Stored
<1>. QED  BY <1>1, Invariance, PTL

\* Without kills and power losses no error path leaves a temporary database, or
\* a journal without a transaction, behind.
THEOREM ErrorsLeaveNothing == Spec => []NothingLeftBehind
<1>1. IndInv => NothingLeftBehind
  <2>. SUFFICES ASSUME IndInv, ~cut
                PROVE  /\ \A p \in Procs : temp[p] => pc[p] \in {"build", "sidecars", "rename"}
                       /\ journal # NoRows => Writers # {}
    BY DEF NothingLeftBehind
  <2>1. /\ \A p \in Procs : temp[p] => pc[p] \in {"build", "sidecars", "rename"}
        /\ journal # NoRows => \E p \in Procs : child[p] = "txn"
        /\ ChildRestores
    BY DEF IndInv, NobodyCut, Quiet, Undisturbed
  <2>2. \A p \in Procs : child[p] = "txn" => p \in Writers
    BY <2>1 DEF ChildRestores, IsLive, Writers
  <2>. QED  BY <2>1, <2>2
<1>. QED  BY <1>1, Invariance, PTL

-----------------------------------------------------------------------------
(* IndexStore implements AtomicIndex: every step of the files, journals and  *)
(* processes is a step of the atomic index or none, while neither exposure   *)
(* of WholeUnlessExposed lasts.                                              *)

\* The state of the invariant proved in IndexStoreProofs, away from orphans.
Calm == Shape /\ Undisturbed

LEMMA CalmFacts ==
    Calm => /\ Visible = Stored
            /\ \A p \in Procs : IsLive(p) => Stored = base[p]
BY VisibleIsStored, LiveStored DEF Calm, Undisturbed

LEMMA CalmFactsNext ==
    Calm' => /\ Visible' = Stored'
             /\ \A p \in Procs : IsLive(p)' => Stored' = base'[p]
<1>1. (Calm => /\ Visible = Stored
               /\ \A p \in Procs : IsLive(p) => Stored = base[p])'
  BY CalmFacts, PTL
<1>. QED  BY <1>1

\* A step of one command leaves the others where they are.
LEMMA OneMoves ==
    ASSUME NEW p \in Procs,
           \A q \in Procs \ {p} :
               pc'[q] = pc[q] /\ child'[q] = child[q] /\ target'[q] = target[q]
    PROVE  /\ Progress' = [Progress EXCEPT ![p] = Progress'[p]]
           /\ Goal' = [Goal EXCEPT ![p] = Goal'[p]]
BY DEF Progress, Goal, Gone

LEMMA ProgressOf ==
    ASSUME NEW p \in Procs
    PROVE  /\ Progress[p] = (IF pc[p] = "idle" /\ child[p] = "none" THEN "idle"
                             ELSE IF pc[p] = "done" \/ child[p] = "ok" THEN "applied"
                             ELSE IF pc[p] = "failed" THEN "failed" ELSE "running")
           /\ Goal[p] = (IF pc[p] = "idle" /\ child[p] = "none" THEN NoIndex ELSE target[p])
           /\ Progress'[p] = (IF pc'[p] = "idle" /\ child'[p] = "none" THEN "idle"
                              ELSE IF pc'[p] = "done" \/ child'[p] = "ok" THEN "applied"
                              ELSE IF pc'[p] = "failed" THEN "failed" ELSE "running")
           /\ Goal'[p] = (IF pc'[p] = "idle" /\ child'[p] = "none" THEN NoIndex
                          ELSE target'[p])
BY DEF Progress, Goal, Gone

\* How the step of one command appears in the atomic index.
Appears(p) ==
    \/ Visible' = Visible /\ Progress'[p] = Progress[p] /\ Goal'[p] = Goal[p]
    \/ /\ Visible' = Visible /\ Progress[p] = "idle" /\ Progress'[p] = "running"
       /\ Goal'[p] \in Snapshots
    \/ /\ Visible' = Goal[p] /\ Progress[p] = "running" /\ Progress'[p] = "applied"
       /\ Goal'[p] = Goal[p]
    \/ /\ Visible' = Goal[p] /\ Progress[p] = "running" /\ Progress'[p] = "idle"
       /\ Goal'[p] = NoIndex
    \/ /\ Visible' = Visible /\ Progress[p] = "running" /\ Progress'[p] = "failed"
       /\ Goal'[p] = Goal[p]
    \/ Visible' = Visible /\ Progress'[p] = "idle" /\ Goal'[p] = NoIndex

LEMMA AppearsIsStep ==
    ASSUME NEW p \in Procs, Appears(p),
           Progress' = [Progress EXCEPT ![p] = Progress'[p]],
           Goal' = [Goal EXCEPT ![p] = Goal'[p]]
    PROVE  [Atomic!Next]_(Atomic!vars)
<1>0. /\ Progress = [q \in Procs |-> Progress[q]] /\ Goal = [q \in Procs |-> Goal[q]]
  BY DEF Progress, Goal
<1>1. CASE Visible' = Visible /\ Progress'[p] = Progress[p] /\ Goal'[p] = Goal[p]
  <2>1. Progress' = Progress /\ Goal' = Goal
    BY <1>0, <1>1
  <2>. QED  BY <1>1, <2>1 DEF Atomic!vars
<1>2. CASE /\ Visible' = Visible /\ Progress[p] = "idle" /\ Progress'[p] = "running"
           /\ Goal'[p] \in Snapshots
  <2>1. Atomic!Begin(p)
    BY <1>2 DEF Atomic!Begin, Atomic!Move
  <2>. QED  BY <2>1 DEF Atomic!Next
<1>3. CASE /\ Visible' = Goal[p] /\ Progress[p] = "running" /\ Progress'[p] = "applied"
           /\ Goal'[p] = Goal[p]
  <2>1. Goal' = Goal
    BY <1>0, <1>3
  <2>2. Atomic!Apply(p)
    BY <1>3, <2>1 DEF Atomic!Apply, Atomic!Move
  <2>. QED  BY <2>2 DEF Atomic!Next
<1>4. CASE /\ Visible' = Goal[p] /\ Progress[p] = "running" /\ Progress'[p] = "idle"
           /\ Goal'[p] = NoIndex
  <2>1. Atomic!ApplyCut(p)
    BY <1>4 DEF Atomic!ApplyCut, Atomic!Move
  <2>. QED  BY <2>1 DEF Atomic!Next
<1>5. CASE /\ Visible' = Visible /\ Progress[p] = "running" /\ Progress'[p] = "failed"
           /\ Goal'[p] = Goal[p]
  <2>1. Goal' = Goal
    BY <1>0, <1>5
  <2>2. Atomic!Fail(p)
    BY <1>5, <2>1 DEF Atomic!Fail, Atomic!Move
  <2>. QED  BY <2>2 DEF Atomic!Next
<1>6. CASE Visible' = Visible /\ Progress'[p] = "idle" /\ Goal'[p] = NoIndex
  <2>1. /\ Progress' = [q \in Procs |-> IF q \in {p} THEN "idle" ELSE Progress[q]]
        /\ Goal' = [q \in Procs |-> IF q \in {p} THEN NoIndex ELSE Goal[q]]
    BY <1>0, <1>6
  <2>2. Atomic!Finish({p})
    BY <1>6, <2>1 DEF Atomic!Finish
  <2>3. {p} \in SUBSET Procs
    OBVIOUS
  <2>. QED  BY <2>2, <2>3 DEF Atomic!Next
<1>. QED  BY <1>1, <1>2, <1>3, <1>4, <1>5, <1>6 DEF Appears

-----------------------------------------------------------------------------
(* Each action in turn.                                                      *)

LEMMA CalmStep ==
    ASSUME Calm, Calm', [Next]_vars, ~dropped', ~overlap'
    PROVE  [Atomic!Next]_(Atomic!vars)
<1>. DEFINE Refines == [Atomic!Next]_(Atomic!vars)
<1>. DEFINE Elsewhere(p) == \A q \in Procs \ {p} :
                pc'[q] = pc[q] /\ child'[q] = child[q] /\ target'[q] = target[q]
<1>. SUFFICES Refines
  OBVIOUS
<1>0. /\ pc \in [Procs -> {"idle", "build", "sidecars", "rename", "load", "feed",
                          "wait", "done", "failed"}]
      /\ child \in [Procs -> {"none", "started", "txn", "ok", "failed"}]
      /\ target \in [Procs -> Snapshots]
      /\ ChildFits /\ UpdatesHaveIndex
  BY DEF Calm, Shape, TypeOK
<1>1. Visible = Stored /\ Visible' = Stored'
  BY CalmFacts, CalmFactsNext
<1>2. ASSUME UNCHANGED <<rows, journal>> PROVE Visible' = Visible
  BY <1>1, <1>2 DEF Stored
<1>3. PlayBack => Visible' = Visible
  BY <1>1, PlayBackKeeps DEF Calm, Undisturbed
<1>4. ASSUME NEW p \in Procs, Elsewhere(p), Appears(p) PROVE Refines
  BY <1>4, OneMoves, AppearsIsStep
<1>5. ASSUME UNCHANGED <<pc, child, target>>, Visible' = Visible PROVE Refines
  BY <1>5 DEF Progress, Goal, Gone, Atomic!vars
<1>6. CASE Query
  BY <1>3, <1>5, <1>6 DEF Query, commands, children
<1>7. CASE PowerLoss
  <2>1. Visible' = Visible
    BY <1>2, <1>7 DEF PowerLoss
  <2>2. \A q \in Procs : pc'[q] = "idle" /\ child'[q] = "none"
    BY <1>7 DEF PowerLoss
  <2>3. /\ Progress' = [q \in Procs |-> IF q \in Procs THEN "idle" ELSE Progress[q]]
        /\ Goal' = [q \in Procs |-> IF q \in Procs THEN NoIndex ELSE Goal[q]]
    BY <2>2 DEF Progress, Goal, Gone
  <2>4. Atomic!Finish(Procs) /\ Procs \in SUBSET Procs
    BY <2>1, <2>3 DEF Atomic!Finish
  <2>. QED  BY <2>4 DEF Atomic!Next
<1>8. ASSUME NEW p \in Procs, NEW k \in Ops, Start(p, k) PROVE Refines
  <2>1. /\ pc[p] = "idle" /\ child[p] = "none" /\ UNCHANGED child /\ Visible' = Visible
        /\ \E l \in {"load", "build"} : pc' = [pc EXCEPT ![p] = l]
        /\ \E s \in Snapshots : target' = [target EXCEPT ![p] = s]
    BY <1>2, <1>8, SnapshotsOk DEF Start, Goto, children, disk
  <2>2. Elsewhere(p) /\ pc'[p] \in {"load", "build"} /\ target'[p] \in Snapshots
    BY <1>0, <2>1
  <2>3. Appears(p)
    BY <2>1, <2>2, ProgressOf DEF Appears
  <2>. QED  BY <1>4, <2>2, <2>3
<1>9. ASSUME NEW p \in Procs, Finish(p) PROVE Refines
  <2>1. /\ pc[p] \in {"done", "failed"} /\ UNCHANGED child /\ Visible' = Visible
        /\ pc' = [pc EXCEPT ![p] = "idle"] /\ target' = [target EXCEPT ![p] = EmptyIndex]
    BY <1>2, <1>9 DEF Finish, ForgetCommand, Goto, children, disk
  <2>2. Elsewhere(p) /\ pc'[p] = "idle" /\ child'[p] = "none"
    BY <1>0, <2>1 DEF ChildFits
  <2>3. Appears(p)
    BY <2>1, <2>2, ProgressOf DEF Appears
  <2>. QED  BY <1>4, <2>2, <2>3
<1>10. ASSUME NEW p \in Procs,
              Build(p) \/ RemoveSidecars(p) \/ Load(p) \/ SendCommit(p) \/ FeedFails(p)
       PROVE  Refines
  <2>1. /\ pc[p] \in {"build", "sidecars", "load", "feed"} /\ UNCHANGED target
        /\ \E l \in {"sidecars", "rename", "feed", "wait"} : pc' = [pc EXCEPT ![p] = l]
    BY <1>10 DEF Build, RemoveSidecars, Load, SendCommit, FeedFails, Goto
  <2>2. \/ UNCHANGED child
        \/ child[p] = "none" /\ child' = [child EXCEPT ![p] = "started"]
    BY <1>0, <1>10 DEF Build, RemoveSidecars, Load, SendCommit, FeedFails, ChildFits, children
  <2>3. Visible' = Visible
    <3>1. CASE RemoveSidecars(p)
      <4>1. ~Hot /\ journal' = NoRows /\ rows' = rows
        BY <3>1 DEF RemoveSidecars, DeleteJournal
      <4>2. Writers = {}
        <5>1. pc[p] = "sidecars" /\ Orphans = {}
          BY <3>1 DEF RemoveSidecars, NoteOverlap
        <5>2. \A q \in Procs : ~IsLive(q)
          BY <5>1, NobodyIsLive DEF Calm
        <5>. QED  BY <5>2 DEF Writers, IsLive
      <4>3. rows = NoIndex \/ journal = NoRows
        BY <4>1, <4>2 DEF Hot
      <4>. QED  BY <1>1, <4>1, <4>3 DEF Stored
    <3>2. CASE Load(p)
      BY <1>3, <3>2 DEF Load
    <3>3. CASE Build(p) \/ SendCommit(p) \/ FeedFails(p)
      BY <1>2, <3>3 DEF Build, SendCommit, FeedFails, disk
    <3>. QED  BY <1>10, <3>1, <3>2, <3>3
  <2>4. Elsewhere(p) /\ pc'[p] \in {"sidecars", "rename", "feed", "wait"}
    BY <1>0, <2>1, <2>2
  <2>5. \/ child'[p] = child[p]
        \/ child[p] = "none" /\ child'[p] = "started"
    BY <1>0, <2>2
  <2>6. Appears(p)
    BY <2>1, <2>3, <2>4, <2>5, ProgressOf DEF Appears
  <2>. QED  BY <1>4, <2>4, <2>6
<1>11. ASSUME NEW p \in Procs, Rename(p) PROVE Refines
  <2>1. /\ pc[p] = "rename" /\ child[p] = "none" /\ UNCHANGED <<child, target, journal>>
        /\ rows' = target[p] /\ pc' = [pc EXCEPT ![p] = "done"]
    BY <1>0, <1>11 DEF Rename, Goto, ChildFits
  <2>2. journal = NoRows
    BY <2>1 DEF Calm, Undisturbed, Installed
  <2>3. target[p] \in [Files -> Values] /\ target[p] # NoIndex
    BY <1>0, SnapshotsOk
  <2>4. Visible' = target[p]
    BY <1>1, <2>1, <2>2, <2>3, RestoreNothing DEF Stored
  <2>5. Elsewhere(p) /\ pc'[p] = "done"
    BY <1>0, <2>1
  <2>6. Appears(p)
    BY <2>1, <2>4, <2>5, ProgressOf DEF Appears
  <2>. QED  BY <1>4, <2>5, <2>6
<1>12. ASSUME NEW p \in Procs, ReplaceFails(p) \/ LoadFails(p) PROVE Refines
  <2>1. /\ pc[p] \in {"build", "sidecars", "rename", "load"} /\ child[p] = "none"
        /\ UNCHANGED <<child, target>> /\ pc' = [pc EXCEPT ![p] = "failed"] /\ Visible' = Visible
    BY <1>0, <1>2, <1>12 DEF ReplaceFails, LoadFails, Goto, ChildFits, children, disk
  <2>2. Elsewhere(p) /\ pc'[p] = "failed"
    BY <1>0, <2>1
  <2>3. Appears(p)
    BY <2>1, <2>2, ProgressOf DEF Appears
  <2>. QED  BY <1>4, <2>2, <2>3
<1>13. ASSUME NEW p \in Procs, Wait(p) PROVE Refines
  <2>1. /\ pc[p] = "wait" /\ child[p] \in {"ok", "failed"} /\ UNCHANGED target
        /\ child' = [child EXCEPT ![p] = "none"]
        /\ pc' = [pc EXCEPT ![p] = IF child[p] = "ok" THEN "done" ELSE "failed"]
        /\ Visible' = Visible
    BY <1>2, <1>13 DEF Wait, Outcome, Goto, disk
  <2>2. /\ Elsewhere(p) /\ child'[p] = "none"
        /\ pc'[p] = (IF child[p] = "ok" THEN "done" ELSE "failed")
    BY <1>0, <2>1
  <2>3. Appears(p)
    BY <2>1, <2>2, ProgressOf DEF Appears
  <2>. QED  BY <1>4, <2>2, <2>3
<1>14. ASSUME NEW p \in Procs, ChildBegin(p) PROVE Refines
  <2>1. /\ child[p] = "started" /\ UNCHANGED <<pc, target>> /\ Visible' = Visible
        /\ child' = [child EXCEPT ![p] = "txn"]
    BY <1>3, <1>14 DEF ChildBegin, OthersUnchanged
  <2>2. Elsewhere(p) /\ child'[p] = "txn"
    BY <1>0, <2>1
  <2>3. Appears(p)
    BY <2>1, <2>2, ProgressOf DEF Appears
  <2>. QED  BY <1>4, <2>2, <2>3
<1>15. ASSUME NEW p \in Procs, NEW f \in Files, ChildWrite(p, f) PROVE Refines
  <2>1. UNCHANGED <<pc, child, target, base>> /\ IsLive(p) /\ IsLive(p)'
    BY <1>15 DEF ChildWrite, OthersUnchanged, IsLive
  <2>2. Visible = base[p] /\ Visible' = base'[p]
    BY <1>1, <2>1, CalmFacts, CalmFactsNext
  <2>. QED  BY <1>5, <2>1, <2>2
<1>16. ASSUME NEW p \in Procs, IsLive(p), NEW r \in {"ok", "failed"}, ChildEnds(p, r), pc' = pc
       PROVE  /\ Elsewhere(p) /\ Progress[p] = "running" /\ Goal[p] = target[p]
              /\ IF pc[p] = "idle" THEN Progress'[p] = "idle" /\ Goal'[p] = NoIndex
                 ELSE /\ Goal'[p] = Goal[p]
                      /\ Progress'[p] = IF r = "ok" THEN "applied" ELSE "running"
  <2>1. pc[p] \in {"idle", "feed", "wait"} /\ child[p] \in {"started", "txn"}
    BY <1>0, <1>16 DEF ChildFits, IsLive
  <2>2. CASE pc[p] = "idle"
    <3>1. child' = [child EXCEPT ![p] = "none"] /\ target' = [target EXCEPT ![p] = EmptyIndex]
      BY <1>16, <2>2 DEF ChildEnds, ForgetCommand
    <3>2. Elsewhere(p) /\ child'[p] = "none"
      BY <1>0, <1>16, <3>1
    <3>. QED  BY <1>16, <2>1, <2>2, <3>2, ProgressOf
  <2>3. CASE pc[p] # "idle"
    <3>1. child' = [child EXCEPT ![p] = r] /\ target' = target
      BY <1>16, <2>3 DEF ChildEnds
    <3>2. Elsewhere(p) /\ child'[p] = r
      BY <1>0, <1>16, <3>1
    <3>. QED  BY <1>16, <2>1, <2>3, <3>1, <3>2, ProgressOf
  <2>. QED  BY <2>2, <2>3
<1>17. ASSUME NEW p \in Procs, ChildCommit(p) PROVE Refines
  <2>1. IsLive(p) /\ ChildEnds(p, "ok") /\ pc' = pc /\ Visible' = target[p]
    BY <1>1, <1>17, CommitInstalls DEF ChildCommit, OthersUnchanged, IsLive, Calm
  <2>2. Elsewhere(p) /\ Appears(p)
    BY <1>16, <2>1 DEF Appears
  <2>. QED  BY <1>4, <2>2
<1>18. ASSUME NEW p \in Procs, ChildRollsBack(p) \/ ChildBails(p) \/ KillChild(p) PROVE Refines
  <2>1. IsLive(p) /\ ChildEnds(p, "failed") /\ pc' = pc
    BY <1>18 DEF ChildRollsBack, ChildBails, KillChild, UndoTransaction, OthersUnchanged, IsLive
  <2>2. Visible' = Visible
    BY <1>1, <1>18, UndoKeepsStored DEF Calm
  <2>3. Elsewhere(p) /\ Appears(p)
    BY <1>16, <2>1, <2>2 DEF Appears
  <2>. QED  BY <1>4, <2>3
<1>19. ASSUME NEW p \in Procs, ChildTimesOut(p) PROVE Refines
  BY <1>19, OthersWait DEF ChildTimesOut, Writers, IsLive, Calm, Undisturbed
<1>20. ASSUME NEW p \in Procs, KillCommand(p) PROVE Refines
  <2>1. /\ pc[p] # "idle" /\ pc' = [pc EXCEPT ![p] = "idle"] /\ Visible' = Visible
    BY <1>2, <1>20 DEF KillCommand, Goto, disk
  <2>2. CASE IsLive(p)
    <3>1. UNCHANGED <<child, target>> /\ child[p] \in {"started", "txn"}
      BY <1>20, <2>2 DEF KillCommand, IsLive
    <3>2. Elsewhere(p) /\ pc'[p] = "idle" /\ pc[p] \notin {"done", "failed"}
      BY <1>0, <2>1, <3>1 DEF ChildFits
    <3>3. Appears(p)
      BY <2>1, <3>1, <3>2, ProgressOf DEF Appears
    <3>. QED  BY <1>4, <3>2, <3>3
  <2>3. CASE ~IsLive(p)
    <3>1. child' = [child EXCEPT ![p] = "none"] /\ target' = [target EXCEPT ![p] = EmptyIndex]
      BY <1>20, <2>3 DEF KillCommand, IsLive, ForgetCommand
    <3>2. Elsewhere(p) /\ pc'[p] = "idle" /\ child'[p] = "none"
      BY <1>0, <2>1, <3>1
    <3>3. Appears(p)
      BY <2>1, <3>2, ProgressOf DEF Appears
    <3>. QED  BY <1>4, <3>2, <3>3
  <2>. QED  BY <2>2, <2>3
<1>21. CASE UNCHANGED vars
  BY <1>2, <1>5, <1>21 DEF vars, disk, commands, children
<1>. HIDE DEF Refines
<1>. QED
  BY <1>6, <1>7, <1>8, <1>9, <1>10, <1>11, <1>12, <1>13, <1>14, <1>15, <1>17, <1>18, <1>19,
     <1>20, <1>21 DEF Next, Step, ChildStep, Failure

\* The files, journals and processes implement the atomic index.
THEOREM Refinement == Spec => ImplementsAtomicIndex
<1>1. Init => Atomic!Init
  <2>. SUFFICES ASSUME Init PROVE Atomic!Init
    OBVIOUS
  <2>1. Visible \in Snapshots \cup {NoIndex}
    BY Initially, VisibleIsStored
       DEF IndInv, Quiet, Undisturbed, StoredIsWhole, Init
  <2>2. \A p \in Procs : pc[p] = "idle" /\ child[p] = "none"
    BY DEF Init
  <2>3. Progress = [p \in Procs |-> "idle"] /\ Goal = [p \in Procs |-> NoIndex]
    BY <2>2 DEF Progress, Goal, Gone
  <2>. QED  BY <2>1, <2>3 DEF Atomic!Init
<1>2. IndInv /\ IndInv' /\ [Next]_vars
         => [~dropped' /\ ~overlap' => Atomic!Next]_(Atomic!vars)
  <2>. SUFFICES ASSUME IndInv, IndInv', [Next]_vars, ~dropped', ~overlap'
                PROVE  [Atomic!Next]_(Atomic!vars)
    OBVIOUS
  <2>1. ~overlap
    BY DEF Next, Step, ChildStep, Failure, Query, PowerLoss, Start, Finish, Build, RemoveSidecars,
           Rename, ReplaceFails, Load, LoadFails, SendCommit, FeedFails, Wait, ChildBegin,
           ChildTimesOut, ChildWrite, ChildCommit, ChildRollsBack, ChildBails, KillCommand,
           KillChild, OthersUnchanged, NoteOverlap, vars
  <2>2. Calm /\ Calm'
    BY <2>1 DEF Calm, IndInv, Quiet
  <2>. QED  BY <2>2, CalmStep
<1>. QED  BY <1>1, <1>2, Invariance, PTL DEF Spec, ImplementsAtomicIndex
=============================================================================
