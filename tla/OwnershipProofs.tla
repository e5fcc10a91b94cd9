--------------------------- MODULE OwnershipProofs ---------------------------
(***************************************************************************)
(* Proofs about Ownership: for every number of checkouts, every history    *)
(* and every choice of settings, an index is of one make, holds the        *)
(* content of the checkout whose command ran last, and stays open to it.   *)
(***************************************************************************)
EXTENDS Ownership, TLAPS

USE OwnershipAssumption

\* A row comes with a meta table.
RowsHaveMeta == meta = Nothing => row = Nothing

\* meta says the work tree was clean at a commit: the row is of that commit,
\* in whichever checkout it was read.  This is why reading the differences
\* between commits and the dirty files is enough.
CleanMeansCommitted ==
    meta # Nothing /\ row # Nothing /\ ~meta.dirty =>
        meta.rev # NoRev /\ row.blob = TreeOf[meta.rev]

\* After a successful command nothing has changed: meta says what it found.
SettledMeta ==
    settled # Nothing =>
        /\ meta # Nothing
        /\ meta.root = settled
        /\ meta.settings = settings[settled]
        /\ head[settled] # NoRev => meta.rev = head[settled]

IndInv ==
    TypeOK /\ RowsHaveMeta /\ OneMake /\ CleanMeansCommitted
    /\ OwnContent /\ SettledMeta

-----------------------------------------------------------------------------

\* What a command records is a meta table.
LEMMA RecordedIsMeta ==
    ASSUME TypeOK, NEW c \in Roots, NEW old \in Metas \cup {Nothing},
           NEW fts \in BOOLEAN
    PROVE  /\ Recorded(c, old, fts) \in Metas
           /\ Recorded(c, old, fts) # Nothing
<1>1. head[c] \in Revs \cup {NoRev} /\ settings[c] \in Settings
  BY DEF TypeOK
<1>2. IsDirty(c) \in BOOLEAN
  BY DEF IsDirty
<1>3. old # Nothing => old.rev \in Revs \cup {NoRev}
  BY DEF Metas
<1>4. Recorded(c, old, fts) \in Metas
  BY <1>1, <1>2, <1>3 DEF Recorded, Metas
<1>. QED  BY <1>4

\* A row made of a checkout is a row.
LEMMA ScannedIsRow ==
    ASSUME TypeOK, NEW c \in Roots
    PROVE  /\ [blob |-> content[c], settings |-> settings[c]] \in Rows
           /\ [blob |-> content[c], settings |-> settings[c]] # Nothing
<1>1. [blob |-> content[c], settings |-> settings[c]] \in Rows
  BY DEF TypeOK, Rows
<1>. QED  BY <1>1

\* What a checkout holds when Git calls it clean.
LEMMA CleanCheckout ==
    ASSUME NEW c \in Roots, ~IsDirty(c)
    PROVE  head[c] # NoRev /\ content[c] = TreeOf[head[c]]
BY DEF IsDirty

\* An accepted update does not change the settings of the index.
LEMMA AcceptedSettings ==
    ASSUME NEW c \in Roots, NEW adopt \in BOOLEAN, Accepted(c, adopt)
    PROVE  meta.settings = settings[c]
BY DEF Accepted, Compatible, RebuildRequired

\* The rows of candidates suffice: a file that is no candidate has, in the
\* index, the content it has in the work tree.
LEMMA NoCandidateIsCurrent ==
    ASSUME IndInv, NEW c \in Roots, meta # Nothing, ~IsCandidate(c)
    PROVE  row # Nothing /\ row.blob = content[c]
<1>1. row # Nothing /\ ~meta.dirty /\ ~IsDirty(c)
      /\ TreeOf[meta.rev] = TreeOf[head[c]]
  BY DEF IsCandidate, WalksAll
<1>2. row.blob = TreeOf[meta.rev]
  BY <1>1 DEF IndInv, CleanMeansCommitted
<1>. QED  BY <1>1, <1>2, CleanCheckout

-----------------------------------------------------------------------------
(* The initial states and the steps.                                         *)

LEMMA InitInv == Init => IndInv
<1>. SUFFICES ASSUME Init PROVE IndInv
  OBVIOUS
<1>1. TypeOK
  BY DEF Init, TypeOK
<1>. QED
  BY <1>1 DEF Init, IndInv, RowsHaveMeta, OneMake, CleanMeansCommitted,
              OwnContent, SettledMeta

\* The user changes neither meta nor the row, and unsettles.
LEMMA UserInv ==
    ASSUME IndInv, Acts, TypeOK'
    PROVE  IndInv'
BY DEF Acts, IndInv, RowsHaveMeta, OneMake, CleanMeansCommitted, OwnContent,
       SettledMeta

\* init records the default settings, and makes no row.
LEMMA InitProjectInv ==
    ASSUME IndInv, NEW c \in Roots, InitProject(c)
    PROVE  IndInv'
<1>. USE DEF IndInv
<1>1. CASE meta = Nothing
  <2>1. Recorded(c, Nothing, fts5) \in Metas
    BY RecordedIsMeta DEF TypeOK
  <2>2. meta' \in Metas /\ meta' # Nothing
    BY <1>1, <2>1 DEF InitProject, Metas
  <2>3. TypeOK'
    BY <2>2 DEF TypeOK, InitProject
  <2>4. row' = Nothing /\ settled' = Nothing
    BY <1>1 DEF InitProject, RowsHaveMeta
  <2>. QED
    BY <2>2, <2>3, <2>4
    DEF RowsHaveMeta, OneMake, CleanMeansCommitted, OwnContent, SettledMeta
<1>2. CASE meta # Nothing
  <2>1. UNCHANGED <<meta, row>> /\ settled' = Nothing
    BY <1>2 DEF InitProject
  <2>2. TypeOK'
    BY <2>1 DEF TypeOK, InitProject
  <2>. QED
    BY <2>1, <2>2
    DEF RowsHaveMeta, OneMake, CleanMeansCommitted, OwnContent, SettledMeta
<1>. QED  BY <1>1, <1>2

\* A rebuild starts afresh: nothing of the index before it matters.
LEMMA RebuildInv ==
    ASSUME IndInv, NEW c \in Roots, Rebuild(c)
    PROVE  IndInv'
<1>. USE DEF IndInv
<1>1. meta' \in Metas /\ meta' # Nothing
  BY RecordedIsMeta DEF Rebuild, TypeOK
<1>2. row' \in Rows /\ row' # Nothing
  BY ScannedIsRow DEF Rebuild
<1>3. TypeOK'
  BY <1>1, <1>2 DEF TypeOK, Rebuild, user
<1>4. /\ meta'.root = c /\ meta'.rev = head[c] /\ meta'.dirty = IsDirty(c)
      /\ meta'.settings = settings[c]
      /\ row'.blob = content[c] /\ row'.settings = settings[c]
  BY DEF Rebuild, Recorded
<1>5. UNCHANGED <<head, content, settings>> /\ settled' = c
  BY DEF Rebuild, user
<1>6. CleanMeansCommitted'
  BY <1>4, CleanCheckout DEF CleanMeansCommitted
<1>. QED
  BY <1>1, <1>2, <1>3, <1>4, <1>5, <1>6
  DEF RowsHaveMeta, OneMake, OwnContent, SettledMeta

\* An update keeps the row of a file that is no candidate, or whose hash has
\* not changed.
LEMMA UpdateInv ==
    ASSUME IndInv, NEW c \in Roots, NEW adopt \in BOOLEAN, Update(c, adopt)
    PROVE  IndInv'
<1>. USE DEF IndInv
<1>. DEFINE rewrites ==
        IsCandidate(c) /\ (row = Nothing \/ row.blob # content[c])
<1>1. meta # Nothing /\ meta \in Metas /\ meta.settings = settings[c]
  BY AcceptedSettings DEF Update, TypeOK
<1>2. meta' \in Metas /\ meta' # Nothing
  <2>1. meta.fts \in BOOLEAN
    BY <1>1 DEF Metas
  <2>. QED  BY <1>1, <2>1, RecordedIsMeta DEF Update
<1>3. /\ meta'.root = c /\ meta'.dirty = IsDirty(c)
      /\ meta'.settings = settings[c]
      /\ head[c] # NoRev => meta'.rev = head[c]
  BY DEF Update, Recorded
<1>4. row' # Nothing /\ row' \in Rows
      /\ row'.blob = content[c] /\ row'.settings = settings[c]
  <2>1. CASE rewrites
    BY <2>1, ScannedIsRow DEF Update
  <2>2. CASE ~rewrites
    <3>1. row # Nothing /\ row.blob = content[c]
      BY <2>2, <1>1, NoCandidateIsCurrent
    <3>2. row' = row
      BY <2>2 DEF Update
    <3>3. row.settings = settings[c]
      BY <3>1, <1>1 DEF OneMake
    <3>. QED  BY <3>1, <3>2, <3>3 DEF TypeOK
  <2>. QED  BY <2>1, <2>2
<1>5. UNCHANGED user /\ settled' = c
  BY DEF Update
<1>6. TypeOK'
  BY <1>2, <1>4, <1>5 DEF TypeOK, user
<1>7. CleanMeansCommitted'
  BY <1>3, <1>4, CleanCheckout DEF CleanMeansCommitted
<1>. QED
  BY <1>2, <1>3, <1>4, <1>5, <1>6, <1>7
  DEF RowsHaveMeta, OneMake, OwnContent, SettledMeta, user

LEMMA NextInv == IndInv /\ [Next]_vars => IndInv'
<1>. SUFFICES ASSUME IndInv, [Next]_vars PROVE IndInv'
  OBVIOUS
<1>. USE DEF IndInv
<1>1. ASSUME NEW c \in Roots, Edit(c) PROVE IndInv'
  <2>1. TypeOK'
    BY <1>1 DEF Edit, Acts, TypeOK
  <2>. QED  BY <1>1, <2>1, UserInv DEF Edit
<1>2. ASSUME NEW c \in Roots, Commit(c) PROVE IndInv'
  <2>1. TypeOK'
    BY <1>2 DEF Commit, Acts, TypeOK
  <2>. QED  BY <1>2, <2>1, UserInv DEF Commit
<1>3. ASSUME NEW c \in Roots, Checkout(c) PROVE IndInv'
  <2>1. TypeOK'
    BY <1>3 DEF Checkout, Acts, TypeOK
  <2>. QED  BY <1>3, <2>1, UserInv DEF Checkout
<1>4. ASSUME NEW c \in Roots, NEW d \in Roots, Fetch(c, d) PROVE IndInv'
  <2>1. TypeOK'
    BY <1>4 DEF Fetch, Acts, TypeOK
  <2>. QED  BY <1>4, <2>1, UserInv DEF Fetch
<1>5. ASSUME NEW c \in Roots, Prune(c) PROVE IndInv'
  <2>1. TypeOK'
    BY <1>5 DEF Prune, Acts, TypeOK
  <2>. QED  BY <1>5, <2>1, UserInv DEF Prune
<1>6. ASSUME NEW c \in Roots, Reconfigure(c) PROVE IndInv'
  <2>1. TypeOK'
    BY <1>6 DEF Reconfigure, Acts, TypeOK
  <2>. QED  BY <1>6, <2>1, UserInv DEF Reconfigure
<1>7. CASE ReplaceSqlite
  <2>1. TypeOK'
    BY <1>7 DEF ReplaceSqlite, Acts, TypeOK
  <2>. QED  BY <1>7, <2>1, UserInv DEF ReplaceSqlite
<1>8. CASE UNCHANGED vars
  BY <1>8 DEF vars, user, TypeOK, RowsHaveMeta, OneMake, CleanMeansCommitted,
              OwnContent, SettledMeta
<1>. QED
  BY <1>1, <1>2, <1>3, <1>4, <1>5, <1>6, <1>7, <1>8, InitProjectInv,
     RebuildInv, UpdateInv
  DEF Next

THEOREM Inductive == Spec => []IndInv
BY InitInv, NextInv, PTL DEF Spec

-----------------------------------------------------------------------------
(* The properties.                                                           *)

(* However many checkouts, commits and configurations: the rows of an index   *)
(* were made with the settings its meta table records.                        *)
THEOREM OneMakeAlways == Spec => []OneMake
<1>1. IndInv => OneMake
  BY DEF IndInv
<1>. QED  BY Inductive, <1>1, PTL

(* Whoever ran the last command has its own content in the index, adopted or  *)
(* not, all files read or candidates only.                                    *)
THEOREM OwnContentAlways == Spec => []OwnContent
<1>1. IndInv => OwnContent
  BY DEF IndInv
<1>. QED  BY Inductive, <1>1, PTL

(* Whoever ran the last command may update without --adopt, if it has a       *)
(* commit: what it recorded is its root, its settings and a commit that its   *)
(* repository has.                                                            *)
THEOREM OwnerIsAcceptedAlways == Spec => []OwnerIsAccepted
<1>1. IndInv => OwnerIsAccepted
  <2>. SUFFICES ASSUME IndInv, settled # Nothing, head[settled] # NoRev
                PROVE  Accepted(settled, FALSE)
    BY DEF OwnerIsAccepted
  <2>1. /\ meta.root = settled /\ meta.settings = settings[settled]
        /\ meta.rev = head[settled]
    BY DEF IndInv, SettledMeta
  <2>2. head[settled] \in objects[settled]
    BY DEF IndInv, TypeOK
  <2>. QED
    BY <2>1, <2>2
    DEF Accepted, Compatible, RebuildRequired, RequiresAdopt, OtherCheckout,
        UnknownHistory
<1>. QED  BY Inductive, <1>1, PTL

(* Every variable keeps its type, and a checkout has the commit it is at.     *)
THEOREM TypesHold == Spec => []TypeOK
<1>1. IndInv => TypeOK
  BY DEF IndInv
<1>. QED  BY Inductive, <1>1, PTL
============================================================================
