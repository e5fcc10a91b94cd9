--------------------------- MODULE FreshnessProofs ---------------------------
(***************************************************************************)
(* Proofs about Freshness: for any number of files, commits and user       *)
(* actions, updates that read candidates only leave what a rebuild would   *)
(* leave, what is recorded describes the rows, and an index that status    *)
(* calls up to date is so, short of the exceptions the properties name.    *)
(***************************************************************************)
EXTENDS Freshness, TLAPS

USE BlobsOk, RevsOk, BoundsOk

\* What a command collects is empty when it begins.
Fresh ==
    /\ phase \in {"idle", "candidates"} => list = {} /\ seen = {}
    /\ phase = "list" => seen = {}

\* The recorded commits exist.
RevsExist ==
    /\ meta.rev \in made \cup {Unborn}
    /\ newMeta.rev \in made \cup {Unborn}

\* Only init skips the walk, and it has no rows to commit.
InitHasNoRows ==
    /\ phase \in {"candidates", "list", "scan"} => newMeta.at = "none"
    /\ phase \in {"meta", "commit"} /\ newMeta.at = "init" => next = Nothing

\* The record of a clean checkout has no dirty files.
CleanHasNoHash ==
    /\ ~meta.dirty => DOMAIN meta.hash = {}
    /\ ~newMeta.dirty => DOMAIN newMeta.hash = {}

\* The running command will leave the index untainted.
Trusted == ~touched /\ (full \/ ~tainted)

\* Until its files are listed, an update is to leave all rows as they are.
NextIsRows == phase = "candidates" => next = rows

\* What is no candidate is as it should be already.
OthersCurrent ==
    phase \in {"list", "scan"} /\ Trusted =>
        \A f \in Files \ cand : next[f] = Expected[f]

\* Candidates are listed and read as they are, as long as nobody acts.
CandidatesCurrent ==
    phase = "scan" /\ ~touched =>
        \A f \in cand :
            /\ f \in list => staged[f] # None
            /\ f \in seen => next[f] = Expected[f]
            /\ f \notin seen \cup list => Expected[f] = None

\* After the walk the result is that of a rebuild,
NextIsExpected ==
    phase \in {"meta", "commit"} /\ newMeta.at # "init" /\ Trusted => next = Expected

\* and is recorded as it is.
RecordIsTrue ==
    phase = "commit" /\ ~touched =>
        /\ newMeta.at \in {"init", "unborn", "commit"}
        /\ newMeta.at = "unborn" => head = Unborn
        /\ newMeta.at = "commit" => newMeta.rev = head
        /\ newMeta.dirty = Dirty
        /\ newMeta.hash = DirtyHash

CommandInv ==
    /\ NextIsRows /\ OthersCurrent /\ CandidatesCurrent
    /\ InitHasNoRows /\ NextIsExpected /\ RecordIsTrue

IndInv ==
    /\ TypeOK /\ Fresh /\ RevsExist /\ CleanHasNoHash
    /\ CommandInv /\ UndisturbedIsExact /\ MetaDescribesRows

-----------------------------------------------------------------------------
(* The checkout.                                                             *)

LEMMA TreeType == TypeOK => TreeOf(head) \in Snapshot /\ TreeOf(meta.rev) \in Snapshot
<1>1. Nothing \in Snapshot
  BY DEF Nothing, Snapshot, Contents
<1>2. TypeOK /\ head # Unborn => head \in Revs
  BY DEF TypeOK
<1>3. TypeOK /\ meta.rev # Unborn => meta.rev \in Revs
  BY DEF TypeOK, Metas
<1>. QED  BY <1>1, <1>2, <1>3 DEF TypeOK, TreeOf

LEMMA ExpectedType == TypeOK => Expected \in Snapshot
BY DEF TypeOK, Expected, Snapshot, Contents

LEMMA DirtyType == DirtyPaths \subseteq Files /\ Dirty \in BOOLEAN
BY DEF DirtyPaths, Unstaged, Uncommitted, Differ, Dirty

LEMMA HashType == TypeOK => DirtyHash \in Hashes /\ DOMAIN DirtyHash = DirtyPaths
<1>. SUFFICES ASSUME TypeOK PROVE DirtyHash \in Hashes /\ DOMAIN DirtyHash = DirtyPaths
  OBVIOUS
<1>1. \A f \in DirtyPaths :
        (IF f \in Named(DirtyPaths) THEN Expected[f] ELSE None) \in Contents
  BY ExpectedType, DirtyType DEF Snapshot, Contents
<1>2. DirtyHash \in [DirtyPaths -> Contents]
  BY <1>1 DEF DirtyHash
<1>3. [DirtyPaths -> Contents] \in {[D -> Contents] : D \in SUBSET Files}
  BY DirtyType
<1>. QED  BY <1>2, <1>3 DEF Hashes

\* A file that is not dirty is as in the commit HEAD points to.
LEMMA CleanFile ==
    ASSUME TypeOK, NEW f \in Files, f \notin DirtyPaths
    PROVE  Expected[f] = TreeOf(head)[f]
<1>1. f \notin Unstaged /\ f \notin Uncommitted
  BY DEF DirtyPaths
<1>2. staged[f] = None \/ work[f] = staged[f]
  BY <1>1 DEF Unstaged
<1>3. staged[f] = TreeOf(head)[f]
  BY <1>1 DEF Uncommitted, Differ
<1>. QED  BY <1>2, <1>3 DEF Expected

\* At the top level Git and the index give files the same names.
LEMMA HashIsExpected ==
    ASSUME RootIsTop, NEW f \in DirtyPaths
    PROVE  DirtyHash[f] = Expected[f]
BY DEF DirtyHash, Named

-----------------------------------------------------------------------------
(* Types.                                                                    *)

LEMMA UserType ==
    ASSUME TypeOK, User
    PROVE  /\ work' \in Snapshot /\ staged' \in Snapshot
           /\ head' \in made' \cup {Unborn} /\ made' \subseteq Revs
           /\ tree' \in [Revs -> Snapshot]
           /\ acts' \in 0..MaxActs /\ touched' \in BOOLEAN /\ settled' \in BOOLEAN
           /\ UNCHANGED <<database, command, tainted>>
<1>1. UserActs
  BY DEF User, Add, Untrack, Edit, CommitStaged, Switch, Orphan
<1>2. acts' \in 0..MaxActs
  BY <1>1 DEF UserActs, TypeOK
<1>3. touched' \in BOOLEAN /\ settled' \in BOOLEAN /\ UNCHANGED <<database, command, tainted>>
  BY <1>1 DEF UserActs
<1>4. ASSUME NEW f \in Files, NEW b \in Contents, Edit(f, b)
      PROVE  /\ work' \in Snapshot
             /\ UNCHANGED <<staged, head, made, tree>>
  BY <1>4 DEF Edit, TypeOK, Snapshot
<1>5. ASSUME NEW f \in Files, Add(f) \/ Untrack(f)
      PROVE  /\ staged' \in Snapshot
             /\ UNCHANGED <<work, head, made, tree>>
  BY <1>5 DEF Add, Untrack, TypeOK, Snapshot, Contents
<1>6. ASSUME NEW r \in Revs, CommitStaged(r)
      PROVE  /\ head' \in made' /\ made' \subseteq Revs
             /\ tree' \in [Revs -> Snapshot]
             /\ UNCHANGED <<work, staged>>
  BY <1>6 DEF CommitStaged, TypeOK
<1>7. ASSUME NEW r \in Revs, Switch(r)
      PROVE  /\ head' \in made' /\ work' \in Snapshot /\ staged' \in Snapshot
             /\ UNCHANGED <<made, tree>>
  BY <1>7 DEF Switch, TypeOK, Snapshot
<1>8. ASSUME Orphan
      PROVE  /\ head' = Unborn /\ work' \in Snapshot /\ staged' \in Snapshot
             /\ UNCHANGED <<made, tree>>
  BY <1>8 DEF Orphan, TypeOK, Snapshot, Contents, Nothing
<1>. QED  BY <1>2, <1>3, <1>4, <1>5, <1>6, <1>7, <1>8 DEF User, TypeOK

LEMMA EmptyType == Nothing \in Snapshot /\ EmptyMeta \in Metas
<1>1. Nothing \in Snapshot
  BY DEF Nothing, Snapshot, Contents
<1>2. NoHash \in [{} -> Contents]
  BY DEF NoHash
<1>3. NoHash \in Hashes
  BY <1>2 DEF Hashes
<1>. QED  BY <1>1, <1>3 DEF EmptyMeta, Metas, Records

LEMMA ForgetType ==
    Forget => /\ full' \in BOOLEAN /\ cand' \subseteq Files /\ list' \subseteq cand'
              /\ seen' \subseteq cand' /\ next' \in Snapshot /\ newMeta' \in Metas
              /\ touched' \in BOOLEAN
BY EmptyType DEF Forget

LEMMA TypeStep == TypeOK /\ Fresh /\ [Next]_vars => TypeOK'
<1>. SUFFICES ASSUME TypeOK, Fresh, [Next]_vars PROVE TypeOK'
  OBVIOUS
<1>1. CASE User
  BY <1>1, UserType DEF TypeOK, database, command
<1>2. CASE BeginInit
  <2>1. newMeta' \in Metas
    BY <1>2, EmptyType DEF BeginInit, Begin, Metas, Records
  <2>. QED  BY <1>2, <2>1, EmptyType DEF BeginInit, Begin, TypeOK, checkout, database
<1>3. CASE BeginRebuild
  BY <1>3, EmptyType DEF BeginRebuild, Begin, TypeOK, checkout, database
<1>12. CASE BeginUpdate
  <2>1. newMeta' \in Metas
    BY <1>12 DEF BeginUpdate, Begin, TypeOK, Metas, Records
  <2>. QED  BY <1>12, <2>1 DEF BeginUpdate, Begin, TypeOK, checkout, database
<1>4. CASE Candidates
  <2>1. full' \in BOOLEAN
    BY <1>4, Zenon DEF Candidates, WalksAll, TypeOK
  <2>2. cand' \subseteq Files
    BY <1>4, DirtyType DEF Candidates, Named, Differ
  <2>3. list' = {} /\ seen' = {}
    BY <1>4 DEF Candidates, Fresh
  <2>. QED  BY <1>4, <2>1, <2>2, <2>3 DEF Candidates, Go, TypeOK, checkout, database
<1>5. CASE List
  BY <1>5 DEF List, Go, Listed, TypeOK, checkout, database
<1>6. ASSUME NEW f \in Files, Scan(f) PROVE TypeOK'
  BY <1>6 DEF Scan, Go, TypeOK, Snapshot, checkout, database
<1>7. CASE RemoveUnseen
  BY <1>7 DEF RemoveUnseen, Go, TypeOK, Snapshot, Contents, checkout, database
<1>8. CASE RecordMeta
  <2>1. newMeta' \in Metas
    BY <1>8, HashType, DirtyType DEF RecordMeta, Metas, Records, TypeOK
  <2>. QED  BY <1>8, <2>1 DEF RecordMeta, Go, TypeOK, checkout, database
<1>9. CASE Install
  <2>1. tainted' \in BOOLEAN /\ settled' \in BOOLEAN
    BY <1>9, Zenon DEF Install, TypeOK
  <2>. QED  BY <1>9, <2>1, ForgetType DEF Install, TypeOK, checkout
<1>10. CASE Abort
  BY <1>10, ForgetType DEF Abort, TypeOK, checkout, database
<1>11. CASE UNCHANGED vars
  BY <1>11 DEF vars, checkout, database, command, TypeOK
<1>. QED
  BY <1>1, <1>2, <1>3, <1>4, <1>5, <1>6, <1>7, <1>8, <1>9, <1>10, <1>11, <1>12
     DEF Next, Indexer

-----------------------------------------------------------------------------
(* The invariant.                                                            *)

LEMMA Initially == Init => IndInv
<1>. SUFFICES ASSUME Init PROVE IndInv
  OBVIOUS
<1>1. TypeOK
  <2>1. head \in made \cup {Unborn} /\ made \subseteq Revs /\ tree \in [Revs -> Snapshot]
    BY EmptyType DEF Init
  <2>2. acts \in 0..MaxActs
    BY DEF Init
  <2>. QED  BY <2>1, <2>2, EmptyType DEF Init, TypeOK
<1>2. Expected = Nothing
  BY DEF Init, Expected, Nothing
<1>3. UndisturbedIsExact
  BY <1>2 DEF Init, UndisturbedIsExact
<1>4. MetaDescribesRows
  BY DEF Init, MetaDescribesRows, EmptyMeta
<1>5. Fresh /\ RevsExist /\ CleanHasNoHash
  BY DEF Init, Fresh, RevsExist, CleanHasNoHash, EmptyMeta, NoHash
<1>6. CommandInv
  BY DEF Init, CommandInv, NextIsRows, OthersCurrent, CandidatesCurrent,
             InitHasNoRows, NextIsExpected,
         RecordIsTrue
<1>. QED  BY <1>1, <1>3, <1>4, <1>5, <1>6 DEF IndInv

\* Whatever the user does, the running command is not trusted any more, and
\* commits that exist stay as they are.
LEMMA UserStep == IndInv /\ User => IndInv'
<1>. SUFFICES ASSUME IndInv, User PROVE IndInv'
  OBVIOUS
<1>1. /\ touched' = (phase # "idle") /\ settled' = FALSE
      /\ UNCHANGED <<database, command, tainted>>
  BY DEF User, Add, Untrack, Edit, CommitStaged, Switch, Orphan, UserActs
<1>2. UNCHANGED <<rows, meta, phase, full, cand, list, seen, next, newMeta, tainted>>
  BY <1>1 DEF database, command
<1>3. made \subseteq made' /\ \A r \in made : tree'[r] = tree[r]
  <2>1. ASSUME NEW r \in Revs, CommitStaged(r)
        PROVE  made \subseteq made' /\ \A q \in made : tree'[q] = tree[q]
    BY <2>1 DEF CommitStaged, IndInv, TypeOK
  <2>2. ASSUME Orphan \/ \E r \in Revs : Switch(r)
        PROVE  made' = made /\ tree' = tree
    BY <2>2 DEF Switch, Orphan
  <2>3. ASSUME NEW f \in Files, Add(f) \/ Untrack(f) \/ \E b \in Contents : Edit(f, b)
        PROVE  made' = made /\ tree' = tree
    BY <2>3 DEF Add, Untrack, Edit
  <2>. QED  BY <2>1, <2>2, <2>3 DEF User
<1>4. TypeOK'
  BY TypeStep DEF IndInv, Next
<1>5. Fresh' /\ RevsExist' /\ CleanHasNoHash'
  BY <1>2, <1>3 DEF IndInv, Fresh, RevsExist, CleanHasNoHash
<1>6. UndisturbedIsExact'
  BY <1>1 DEF UndisturbedIsExact
<1>7. MetaDescribesRows'
  <2>1. TreeOf(meta.rev)' = TreeOf(meta.rev)
    BY <1>2, <1>3 DEF TreeOf, IndInv, RevsExist
  <2>. QED  BY <1>2, <2>1 DEF IndInv, MetaDescribesRows, Described
<1>8. CommandInv'
  BY <1>1, <1>2 DEF IndInv, CommandInv, NextIsRows, OthersCurrent, CandidatesCurrent,
                   InitHasNoRows, NextIsExpected, RecordIsTrue, Trusted
<1>. QED  BY <1>4, <1>5, <1>6, <1>7, <1>8 DEF IndInv

\* A step of a command that does not end it leaves the checkout, the database
\* and what is known of both alone.
LEMMA WorkStep ==
    ASSUME IndInv, UNCHANGED <<checkout, database, tainted, settled>>
    PROVE  /\ Expected' = Expected /\ DirtyHash' = DirtyHash /\ Dirty' = Dirty
           /\ UndisturbedIsExact' /\ MetaDescribesRows'
           /\ (meta.rev \in made \cup {Unborn})'
           /\ (~meta.dirty => DOMAIN meta.hash = {})'
<1>1. UNCHANGED <<work, staged, head, made, tree, rows, meta>>
  BY DEF checkout, database
<1>2. Expected' = Expected /\ Unstaged' = Unstaged /\ TreeOf(head)' = TreeOf(head)
      /\ TreeOf(meta.rev)' = TreeOf(meta.rev)
  BY <1>1 DEF Expected, Unstaged, TreeOf
<1>3. DirtyPaths' = DirtyPaths
  BY <1>1, <1>2 DEF DirtyPaths, Uncommitted, Differ
<1>. QED  BY <1>1, <1>2, <1>3 DEF IndInv, UndisturbedIsExact, MetaDescribesRows,
                                Described, Dirty, DirtyHash, Named, RevsExist, CleanHasNoHash

\* Candidates suffice: what is none is, in the index, as a rebuild would find
\* it.  The record describes the rows, and it is of a clean checkout.
LEMMA OthersAreCurrent ==
    ASSUME IndInv, RootIsTop, ~tainted, ~WalksAll, NEW f \in Files,
           f \notin Named(Differ(TreeOf(meta.rev), TreeOf(head)) \cup DirtyPaths)
    PROVE  rows[f] = Expected[f]
<1>1. f \notin DirtyPaths /\ TreeOf(meta.rev)[f] = TreeOf(head)[f]
  BY DEF Named, Differ
<1>2. DOMAIN meta.hash = {}
  BY DEF WalksAll, IndInv, CleanHasNoHash
<1>3. meta.at = "commit"
  BY DEF WalksAll, IndInv, MetaDescribesRows, TypeOK, Metas, Records
<1>4. rows[f] = TreeOf(meta.rev)[f]
  BY <1>2, <1>3 DEF IndInv, MetaDescribesRows, Described
<1>. QED  BY <1>1, <1>4, CleanFile DEF IndInv

LEMMA BeginStep ==
    ASSUME IndInv, RootIsTop, BeginInit \/ BeginRebuild \/ BeginUpdate \/ Candidates
    PROVE  IndInv'
<1>1. TypeOK'
  BY TypeStep DEF IndInv, Next, Indexer
<1>2. UNCHANGED <<checkout, database, tainted, settled>>
  BY DEF BeginInit, BeginRebuild, BeginUpdate, Begin, Candidates, Go
<1>3. list' = {} \/ phase' = "meta"
  BY DEF BeginInit, BeginRebuild, BeginUpdate, Begin, Candidates, IndInv, Fresh
<1>4. UNCHANGED <<head, made, rows, meta>> /\ seen' = {}
  BY <1>2 DEF checkout, database, BeginInit, BeginRebuild, BeginUpdate, Begin, Candidates,
              IndInv, Fresh
<1>5. /\ newMeta'.rev \in made \cup {Unborn}
      /\ ~newMeta'.dirty => DOMAIN newMeta'.hash = {}
  <2>1. CASE BeginInit \/ BeginRebuild
    BY <2>1 DEF BeginInit, BeginRebuild, Begin, EmptyMeta, NoHash
  <2>2. CASE BeginUpdate
    BY <2>2 DEF BeginUpdate, Begin, IndInv, TypeOK, Metas, RevsExist, CleanHasNoHash
  <2>3. CASE Candidates
    BY <2>3 DEF Candidates, IndInv, RevsExist, CleanHasNoHash
  <2>. QED  BY <2>1, <2>2, <2>3
<1>6. Fresh' /\ RevsExist' /\ CleanHasNoHash'
  BY <1>2, <1>3, <1>4, <1>5, WorkStep DEF IndInv, Fresh, RevsExist, CleanHasNoHash
<1>7. NextIsRows' /\ OthersCurrent'
  <2>1. CASE BeginInit
    BY <2>1 DEF BeginInit, Begin, NextIsRows, OthersCurrent
  <2>2. CASE BeginRebuild
    BY <2>2, <1>4 DEF BeginRebuild, Begin, NextIsRows, OthersCurrent
  <2>3. CASE BeginUpdate
    BY <2>3, <1>4 DEF BeginUpdate, Begin, NextIsRows, OthersCurrent
  <2>4. CASE Candidates
    <3>1. next' = rows /\ phase' = "list" /\ touched' = touched
      BY <2>4 DEF Candidates, Go, IndInv, CommandInv, NextIsRows
    <3>2. CASE WalksAll
      BY <2>4, <3>1, <3>2 DEF Candidates, OthersCurrent, NextIsRows
    <3>3. CASE ~WalksAll
      <4>1. full' = FALSE /\ tainted' = tainted /\ Expected' = Expected
            /\ cand' = Named(Differ(TreeOf(meta.rev), TreeOf(head)) \cup DirtyPaths)
        BY <2>4, <3>3, <1>2, WorkStep DEF Candidates
      <4>2. ~tainted => \A f \in Files \ cand' : rows[f] = Expected[f]
        BY <3>3, <4>1, OthersAreCurrent
      <4>. QED  BY <3>1, <4>1, <4>2 DEF OthersCurrent, Trusted, NextIsRows
    <3>. QED  BY <3>2, <3>3
  <2>. QED  BY <2>1, <2>2, <2>3, <2>4
<1>8. InitHasNoRows' /\ NextIsExpected'
  <2>1. CASE BeginInit
    BY <2>1 DEF BeginInit, Begin, InitHasNoRows, NextIsExpected, EmptyMeta
  <2>2. CASE BeginRebuild
    BY <2>2 DEF BeginRebuild, Begin, InitHasNoRows, NextIsExpected, EmptyMeta
  <2>3. CASE BeginUpdate
    BY <2>3 DEF BeginUpdate, Begin, InitHasNoRows, NextIsExpected, IndInv, TypeOK, Metas
  <2>4. CASE Candidates
    BY <2>4 DEF Candidates, Go, IndInv, CommandInv, InitHasNoRows, NextIsExpected
  <2>. QED  BY <2>1, <2>2, <2>3, <2>4
<1>9. phase' \notin {"scan", "commit"}
  BY DEF BeginInit, BeginRebuild, BeginUpdate, Begin, Candidates, Go
<1>10. CommandInv'
  BY <1>7, <1>8, <1>9 DEF CommandInv, CandidatesCurrent, RecordIsTrue
<1>. QED  BY <1>1, <1>2, <1>6, <1>10, WorkStep DEF IndInv

LEMMA ListStep == ASSUME IndInv, List PROVE IndInv'
<1>1. TypeOK'
  BY TypeStep DEF IndInv, Next, Indexer
<1>2. UNCHANGED <<checkout, database, tainted, settled>>
  BY DEF List, Go
<1>3. /\ list' = Listed /\ phase = "list" /\ phase' = "scan" /\ seen = {}
      /\ UNCHANGED <<full, cand, seen, next, newMeta, touched, staged, head, made>>
  BY DEF List, Go, checkout, IndInv, Fresh
<1>4. Fresh' /\ RevsExist' /\ CleanHasNoHash'
  BY <1>2, <1>3, WorkStep DEF IndInv, Fresh, RevsExist, CleanHasNoHash
<1>5. Expected' = Expected
  BY <1>2, WorkStep
<1>6. OthersCurrent'
  BY <1>2, <1>3, <1>5 DEF IndInv, CommandInv, OthersCurrent, Trusted
<1>7. CandidatesCurrent'
  <2>1. ASSUME NEW f \in cand
        PROVE  /\ f \in Listed => staged[f] # None
               /\ f \notin Listed => Expected[f] = None
    BY <2>1 DEF Listed, Expected, IndInv, TypeOK
  <2>. QED  BY <1>3, <1>5, <2>1 DEF CandidatesCurrent
<1>8. NextIsRows' /\ InitHasNoRows' /\ NextIsExpected' /\ RecordIsTrue'
  BY <1>3 DEF NextIsRows, InitHasNoRows, NextIsExpected, RecordIsTrue, IndInv, CommandInv
<1>. QED  BY <1>1, <1>2, <1>4, <1>6, <1>7, <1>8, WorkStep DEF IndInv, CommandInv

LEMMA ScanStep == ASSUME IndInv, NEW g \in Files, Scan(g) PROVE IndInv'
<1>1. TypeOK'
  BY TypeStep DEF IndInv, Next, Indexer
<1>2. UNCHANGED <<checkout, database, tainted, settled>>
  BY DEF Scan, Go
<1>3. /\ g \in list /\ list' = list \ {g} /\ phase = "scan" /\ phase' = "scan"
      /\ UNCHANGED <<full, cand, newMeta, touched, staged, head, made>>
  BY DEF Scan, Go, checkout
<1>4. Fresh' /\ RevsExist' /\ CleanHasNoHash'
  BY <1>2, <1>3, WorkStep DEF IndInv, Fresh, RevsExist, CleanHasNoHash
<1>5. Expected' = Expected
  BY <1>2, WorkStep
<1>6. g \in cand
  BY <1>3 DEF IndInv, TypeOK
<1>7. \A f \in Files : f # g => next'[f] = next[f] /\ (f \in seen' <=> f \in seen)
  BY DEF Scan, IndInv, TypeOK, Snapshot
<1>8. OthersCurrent'
  BY <1>2, <1>3, <1>5, <1>6, <1>7 DEF IndInv, CommandInv, OthersCurrent, Trusted
<1>9. ~touched => /\ g \in seen' => next'[g] = Expected[g]
                  /\ g \notin seen' => Expected[g] = None
  <2>. SUFFICES ASSUME ~touched
                PROVE  /\ g \in seen' => next'[g] = Expected[g]
                       /\ g \notin seen' => Expected[g] = None
    OBVIOUS
  <2>1. staged[g] # None /\ (g \in seen => next[g] = Expected[g])
    BY <1>3, <1>6 DEF IndInv, CommandInv, CandidatesCurrent
  <2>2. Expected[g] = work[g]
    BY <2>1 DEF Expected
  <2>3. CASE work[g] = None
    BY <2>1, <2>2, <2>3 DEF Scan
  <2>4. CASE work[g] # None
    BY <2>2, <2>4 DEF Scan, IndInv, TypeOK, Snapshot
  <2>. QED  BY <2>3, <2>4
<1>10. CandidatesCurrent'
  <2>1. cand \subseteq Files
    BY DEF IndInv, TypeOK
  <2>. QED  BY <1>3, <1>5, <1>7, <1>9, <2>1 DEF IndInv, CommandInv, CandidatesCurrent
<1>11. NextIsRows' /\ InitHasNoRows' /\ NextIsExpected' /\ RecordIsTrue'
  BY <1>3 DEF NextIsRows, InitHasNoRows, NextIsExpected, RecordIsTrue, IndInv, CommandInv
<1>. QED  BY <1>1, <1>2, <1>4, <1>8, <1>10, <1>11, WorkStep DEF IndInv, CommandInv

LEMMA RemoveStep == ASSUME IndInv, RemoveUnseen PROVE IndInv'
<1>1. TypeOK'
  BY TypeStep DEF IndInv, Next, Indexer
<1>2. UNCHANGED <<checkout, database, tainted, settled>>
  BY DEF RemoveUnseen, Go
<1>3. /\ list = {} /\ phase = "scan" /\ phase' = "meta"
      /\ next' = [f \in Files |-> IF f \in cand \ seen THEN None ELSE next[f]]
      /\ UNCHANGED <<full, cand, list, seen, newMeta, touched, head, made>>
  BY DEF RemoveUnseen, Go, checkout
<1>4. Fresh' /\ RevsExist' /\ CleanHasNoHash'
  BY <1>2, <1>3, WorkStep DEF IndInv, Fresh, RevsExist, CleanHasNoHash
<1>5. Expected' = Expected
  BY <1>2, WorkStep
<1>6. NextIsExpected'
  <2>. SUFFICES ASSUME Trusted PROVE next' = Expected
    BY <1>2, <1>3, <1>5 DEF NextIsExpected, Trusted
  <2>1. \A f \in Files : next'[f] = Expected[f]
    BY <1>3 DEF IndInv, CommandInv, OthersCurrent, CandidatesCurrent, Trusted
  <2>2. next' \in Snapshot /\ Expected \in Snapshot
    BY <1>1, ExpectedType DEF IndInv, TypeOK
  <2>. QED  BY <2>1, <2>2 DEF Snapshot
<1>7. /\ NextIsRows' /\ OthersCurrent' /\ CandidatesCurrent'
      /\ InitHasNoRows' /\ RecordIsTrue'
  BY <1>3 DEF NextIsRows, OthersCurrent, CandidatesCurrent, InitHasNoRows, RecordIsTrue,
              IndInv, CommandInv
<1>. QED  BY <1>1, <1>2, <1>4, <1>6, <1>7, WorkStep DEF IndInv, CommandInv

LEMMA RecordStep == ASSUME IndInv, RecordMeta PROVE IndInv'
<1>1. TypeOK'
  BY TypeStep DEF IndInv, Next, Indexer
<1>2. UNCHANGED <<checkout, database, tainted, settled>>
  BY DEF RecordMeta, Go
<1>3. /\ phase = "meta" /\ phase' = "commit"
      /\ newMeta'.at = (IF newMeta.at = "init" THEN "init"
                        ELSE IF head = Unborn THEN "unborn" ELSE "commit")
      /\ newMeta'.rev = (IF head = Unborn THEN newMeta.rev ELSE head)
      /\ newMeta'.dirty = Dirty /\ newMeta'.hash = DirtyHash
      /\ UNCHANGED <<full, cand, list, seen, next, touched, head, made, meta>>
  BY DEF RecordMeta, Go, checkout, database
<1>4. ~Dirty => DOMAIN DirtyHash = {}
  BY HashType DEF IndInv, Dirty
<1>5. Fresh' /\ RevsExist' /\ CleanHasNoHash'
  BY <1>3, <1>4 DEF IndInv, TypeOK, Fresh, RevsExist, CleanHasNoHash
<1>6. InitHasNoRows' /\ NextIsExpected'
  BY <1>2, <1>3, WorkStep DEF IndInv, CommandInv, InitHasNoRows, NextIsExpected, Trusted
<1>7. RecordIsTrue'
  BY <1>2, <1>3, WorkStep DEF RecordIsTrue
<1>8. NextIsRows' /\ OthersCurrent' /\ CandidatesCurrent'
  BY <1>3 DEF NextIsRows, OthersCurrent, CandidatesCurrent
<1>. QED  BY <1>1, <1>2, <1>5, <1>6, <1>7, <1>8, WorkStep DEF IndInv, CommandInv

\* A trusted command installs what a rebuild would find, with a record of it;
\* init installs no rows.
LEMMA InstallStep == ASSUME IndInv, RootIsTop, Install PROVE IndInv'
<1>1. TypeOK'
  BY TypeStep DEF IndInv, Next, Indexer
<1>2. /\ phase = "commit" /\ phase' = "idle" /\ rows' = next /\ meta' = newMeta
      /\ newMeta.at = "init" => ~tainted' /\ ~settled'
      /\ newMeta.at # "init" => /\ tainted' = (touched \/ (tainted /\ ~full))
                                /\ settled' = ~touched
      /\ list' = {} /\ seen' = {} /\ newMeta' = EmptyMeta
      /\ UNCHANGED <<work, staged, head, made, tree>>
  BY DEF Install, Forget, checkout
<1>3. Fresh' /\ RevsExist' /\ CleanHasNoHash'
  BY <1>2 DEF IndInv, Fresh, RevsExist, CleanHasNoHash, EmptyMeta, NoHash
<1>4. CommandInv'
  BY <1>2 DEF CommandInv, NextIsRows, OthersCurrent, CandidatesCurrent, InitHasNoRows,
              NextIsExpected, RecordIsTrue
<1>5. Expected' = Expected /\ Expected \in Snapshot
  BY <1>2, ExpectedType DEF Expected, IndInv
<1>6. newMeta.at # "init" /\ ~tainted' => ~touched /\ rows' = Expected
  BY <1>2 DEF Trusted, IndInv, CommandInv, NextIsExpected
<1>7. UndisturbedIsExact'
  BY <1>2, <1>5, <1>6 DEF UndisturbedIsExact
<1>8. MetaDescribesRows'
  <2>1. CASE newMeta.at = "init"
    BY <1>2, <2>1 DEF MetaDescribesRows, IndInv, CommandInv, InitHasNoRows
  <2>2. CASE newMeta.at # "init"
    <3>. SUFFICES ASSUME ~tainted'
                  PROVE  /\ newMeta.at # "none"
                         /\ newMeta.at = "commit" => rows' = Described'
                         /\ newMeta.at = "unborn" => rows' = Nothing \/ newMeta.dirty
      BY <1>2, <2>2 DEF MetaDescribesRows
    <3>1. /\ newMeta.at \in {"unborn", "commit"}
          /\ newMeta.at = "unborn" => head = Unborn
          /\ newMeta.at = "commit" => newMeta.rev = head
          /\ newMeta.dirty = Dirty /\ newMeta.hash = DirtyHash
      BY <1>2, <1>6, <2>2 DEF IndInv, CommandInv, RecordIsTrue
    <3>2. DOMAIN DirtyHash = DirtyPaths
      BY HashType DEF IndInv
    <3>3. \A f \in Files :
             Expected[f] = IF f \in DirtyPaths THEN DirtyHash[f] ELSE TreeOf(head)[f]
      BY CleanFile, HashIsExpected DEF IndInv
    <3>4. ASSUME newMeta.at = "commit" PROVE rows' = Described'
      <4>1. Described' = [f \in Files |-> IF f \in DirtyPaths THEN DirtyHash[f]
                                          ELSE TreeOf(head)[f]]
        BY <1>2, <3>1, <3>2, <3>4 DEF Described, TreeOf
      <4>. QED  BY <1>5, <1>6, <2>2, <3>3, <4>1 DEF Snapshot
    <3>5. ASSUME newMeta.at = "unborn", ~newMeta.dirty PROVE rows' = Nothing
      <4>1. DirtyPaths = {} /\ TreeOf(head) = Nothing
        BY <3>1, <3>5 DEF Dirty, TreeOf
      <4>2. \A f \in Files : Expected[f] = Nothing[f]
        BY <3>3, <4>1
      <4>. QED  BY <1>5, <1>6, <2>2, <4>2 DEF Snapshot, Nothing
    <3>. QED  BY <3>1, <3>4, <3>5
  <2>. QED  BY <2>1, <2>2
<1>. QED  BY <1>1, <1>3, <1>4, <1>7, <1>8 DEF IndInv

LEMMA AbortStep == ASSUME IndInv, Abort PROVE IndInv'
<1>1. TypeOK'
  BY TypeStep DEF IndInv, Next, Indexer
<1>2. UNCHANGED <<checkout, database, tainted, settled>>
  BY DEF Abort
<1>3. /\ phase' = "idle" /\ list' = {} /\ seen' = {} /\ newMeta' = EmptyMeta
  BY DEF Abort, Forget
<1>4. Fresh' /\ RevsExist' /\ CleanHasNoHash'
  BY <1>2, <1>3, WorkStep DEF Fresh, RevsExist, CleanHasNoHash, EmptyMeta, NoHash
<1>5. CommandInv'
  BY <1>3 DEF CommandInv, NextIsRows, OthersCurrent, CandidatesCurrent,
             InitHasNoRows, NextIsExpected,
             RecordIsTrue
<1>. QED  BY <1>1, <1>2, <1>4, <1>5, WorkStep DEF IndInv

-----------------------------------------------------------------------------

(* The inductive invariant, with the root at the top level of the work tree: *)
(* the record describes the rows, files that are no candidates are current,  *)
(* and so are candidates once they have been read.                           *)
THEOREM Inductive == ASSUME RootIsTop PROVE Spec => []IndInv
<1>1. IndInv /\ [Next]_vars => IndInv'
  <2>. SUFFICES ASSUME IndInv, [Next]_vars PROVE IndInv'
    OBVIOUS
  <2>1. CASE UNCHANGED vars
    BY <2>1 DEF vars, checkout, database, command, IndInv, TypeOK, Fresh, RevsExist,
       CleanHasNoHash, CommandInv, NextIsRows, OthersCurrent, CandidatesCurrent,
       InitHasNoRows, NextIsExpected, RecordIsTrue, Trusted, UndisturbedIsExact,
       MetaDescribesRows, Described, Expected, Dirty, DirtyHash, DirtyPaths, Unstaged, Uncommitted, Differ, TreeOf, Named
  <2>. QED  BY <2>1, UserStep, BeginStep, ListStep, ScanStep, RemoveStep, RecordStep,
               InstallStep, AbortStep DEF Next, Indexer
<1>. QED  BY Initially, <1>1, PTL DEF Spec

(* Every variable has its type.                                              *)
THEOREM TypesHold == Spec => []TypeOK
<1>1. Init => TypeOK /\ Fresh
  BY Initially DEF IndInv
<1>2. TypeOK /\ Fresh /\ [Next]_vars => Fresh'
  BY DEF Fresh, Next, User, Add, Untrack, Edit, CommitStaged, Switch, Orphan, UserActs, Indexer,
         BeginInit, BeginRebuild, BeginUpdate, Begin, Candidates, List, Scan, RemoveUnseen,
         RecordMeta, Install, Abort, Forget, Go, database, command, vars
<1>. QED  BY <1>1, <1>2, TypeStep, PTL DEF Spec

(* An update that reads candidates only leaves what a rebuild would leave, as *)
(* long as the user does nothing meanwhile and no command since the last      *)
(* full walk has been disturbed.                                              *)
THEOREM UpdatesAreExact == ASSUME RootIsTop PROVE Spec => []UndisturbedIsExact
<1>1. IndInv => UndisturbedIsExact
  BY DEF IndInv
<1>. QED  BY Inductive, <1>1, PTL

(* A record that updates rely on describes the rows: the recorded commit and  *)
(* hashes do, short of init's and those made while HEAD was unborn.           *)
THEOREM RecordsDescribeRows == ASSUME RootIsTop PROVE Spec => []MetaDescribesRows
<1>1. IndInv => MetaDescribesRows
  BY DEF IndInv
<1>. QED  BY Inductive, <1>1, PTL

(* An index that status calls up to date is what a rebuild would make now,    *)
(* unless init made it, or it was made while HEAD was unborn, or of a dirty    *)
(* checkout that has become clean.                                           *)
THEOREM NotStaleIsTrue == ASSUME RootIsTop PROVE Spec => []NotStaleIsExact
<1>1. IndInv => NotStaleIsExact
  <2>. SUFFICES ASSUME IndInv, ~Unknown, ~Stale, ~tainted, meta.at = "commit",
                       meta.dirty => Dirty
                PROVE  rows = Expected
    BY DEF NotStaleIsExact
  <2>1. head = meta.rev
    BY DEF Stale
  <2>2. DOMAIN DirtyHash = DirtyPaths
    BY HashType DEF IndInv
  <2>3. DOMAIN meta.hash = DirtyPaths /\ \A f \in DirtyPaths : meta.hash[f] = Expected[f]
    <3>1. CASE Dirty
      BY <3>1, <2>2, HashIsExpected DEF Stale
    <3>2. CASE ~Dirty
      BY <3>2 DEF IndInv, CleanHasNoHash, Dirty
    <3>. QED  BY <3>1, <3>2
  <2>4. rows \in Snapshot /\ Expected \in Snapshot
    BY ExpectedType DEF IndInv, TypeOK
  <2>5. \A f \in Files : rows[f] = Expected[f]
    BY <2>1, <2>3, CleanFile DEF IndInv, MetaDescribesRows, Described
  <2>. QED  BY <2>4, <2>5 DEF Snapshot
<1>. QED  BY Inductive, <1>1, PTL
=============================================================================
