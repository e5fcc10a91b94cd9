------------------------------ MODULE Freshness ------------------------------
(***************************************************************************)
(* How the index follows the checkout: what init, rebuild and update read  *)
(* of Git and of the files (src/git.go, src/cmd_build.go), what they       *)
(* record of it in the meta table (src/db.go) and how status compares that *)
(* record with the checkout (src/cmd_status.go).                           *)
(*                                                                         *)
(* The user edits, stages, commits and checks out while a command runs.    *)
(* One command runs at a time (IndexLock), and its result appears in one   *)
(* step (IndexStore).                                                      *)
(***************************************************************************)
EXTENDS Naturals, FiniteSets

CONSTANTS
    Files,      \* paths below the root
    Blobs,      \* contents of files
    None,       \* content of a file that is not there, not staged, not indexed
    Revs,       \* commits the user can make: a bound of the model
    Unborn,     \* HEAD before the first commit
    RootIsTop,  \* is the root the top level of the work tree?
    MaxActs     \* bound on the number of user actions in a behaviour

ASSUME BlobsOk == None \notin Blobs
ASSUME RevsOk == Unborn \notin Revs
ASSUME BoundsOk == RootIsTop \in BOOLEAN /\ MaxActs \in Nat

VARIABLES
    \* The checkout.
    work,      \* file contents in the work tree
    staged,    \* contents in Git's index, which decides what is tracked
    head,      \* commit HEAD points to
    made,      \* commits that exist
    tree,      \* contents of each commit
    \* The index database.
    rows,      \* content each indexed file had when it was scanned
    meta,      \* vcs_revision, vcs_dirty, vcs_dirty_hash, and how it was recorded
    \* The command that runs.
    phase,     \* its next step
    full,      \* does it walk all files, or candidates only?
    cand,      \* files it walks
    list,      \* files listed and not yet scanned
    seen,      \* files scanned
    next,      \* rows it is going to commit
    newMeta,   \* metadata it is going to commit
    \* Bound and history.
    acts,      \* user actions so far
    touched,   \* has the user acted since the command began?
    tainted,   \* did a command overlap a user action, uncorrected since?
    settled    \* has nothing happened since an undisturbed command?

checkout == <<work, staged, head, made, tree>>
database == <<rows, meta>>
command  == <<phase, full, cand, list, seen, next, newMeta>>
vars == <<checkout, database, command, acts, touched, tainted, settled>>

Contents == Blobs \cup {None}
Snapshot == [Files -> Contents]
Nothing  == [f \in Files |-> None]

NoHash == [f \in {} |-> None]
Hashes == UNION {[D -> Contents] : D \in SUBSET Files}

\* How the metadata was recorded: not yet, there being no database, by init
\* (last_operation), or by rebuild or update when HEAD was unborn or pointed to
\* a commit (history, which the database does not keep).
Records == {"none", "init", "unborn", "commit"}
Metas == [at : Records, rev : Revs \cup {Unborn}, dirty : BOOLEAN, hash : Hashes]

(* Every variable has its type; what update lists and has seen are           *)
(* candidates.                                                               *)
TypeOK ==
    /\ work \in Snapshot
    /\ staged \in Snapshot
    /\ head \in made \cup {Unborn}
    /\ made \subseteq Revs
    /\ tree \in [Revs -> Snapshot]
    /\ rows \in Snapshot
    /\ meta \in Metas
    /\ phase \in {"idle", "candidates", "list", "scan", "meta", "commit"}
    /\ full \in BOOLEAN
    /\ cand \subseteq Files
    /\ list \subseteq cand
    /\ seen \subseteq cand
    /\ next \in Snapshot
    /\ newMeta \in Metas
    /\ acts \in 0..MaxActs
    /\ touched \in BOOLEAN
    /\ tainted \in BOOLEAN
    /\ settled \in BOOLEAN

\* The meta table of a new database.
EmptyMeta == [at |-> "none", rev |-> Unborn, dirty |-> FALSE, hash |-> NoHash]

\* A new repository without an index.

Init ==
    /\ work = Nothing /\ staged = Nothing
    /\ head = Unborn /\ made = {} /\ tree = [r \in Revs |-> Nothing]
    /\ rows = Nothing /\ meta = EmptyMeta
    /\ phase = "idle" /\ full = FALSE
    /\ cand = {} /\ list = {} /\ seen = {}
    /\ next = Nothing /\ newMeta = EmptyMeta
    /\ acts = 0
    /\ touched = FALSE /\ tainted = FALSE /\ settled = TRUE

-----------------------------------------------------------------------------
(* Git.                                                                    *)

TreeOf(r) == IF r = Unborn THEN Nothing ELSE tree[r]

Differ(s, t) == {f \in Files : s[f] # t[f]}

\* git diff and git diff --cached; git status says dirty when there is one.
Unstaged == {f \in Files : staged[f] # None /\ work[f] # staged[f]}
Uncommitted == Differ(staged, TreeOf(head))
DirtyPaths == Unstaged \cup Uncommitted
Dirty == DirtyPaths # {}

\* Tracked files that are there, with their contents: what a walk of all files
\* indexes.
Expected ==
    [f \in Files |-> IF staged[f] = None THEN None ELSE work[f]]

\* git diff names paths from the top level of the work tree, ls-files and the
\* index from the root: below the top level no candidate names a file.
Named(paths) == IF RootIsTop THEN paths ELSE {}

-----------------------------------------------------------------------------
(* The user.                                                               *)

UserActs ==
    /\ acts < MaxActs
    /\ acts' = acts + 1
    /\ touched' = (phase # "idle")
    /\ settled' = FALSE
    /\ UNCHANGED <<database, command, tainted>>

\* Writes or deletes a file.
Edit(f, b) ==
    /\ work[f] # b
    /\ work' = [work EXCEPT ![f] = b]
    /\ UNCHANGED <<staged, head, made, tree>>
    /\ UserActs

\* git add, of a deleted file too.
Add(f) ==
    /\ staged[f] # work[f]
    /\ staged' = [staged EXCEPT ![f] = work[f]]
    /\ UNCHANGED <<work, head, made, tree>>
    /\ UserActs

\* git rm --cached.
Untrack(f) ==
    /\ staged[f] # None
    /\ staged' = [staged EXCEPT ![f] = None]
    /\ UNCHANGED <<work, head, made, tree>>
    /\ UserActs

CommitStaged(r) ==
    /\ r \notin made
    /\ Uncommitted # {}
    /\ made' = made \cup {r}
    /\ tree' = [tree EXCEPT ![r] = staged]
    /\ head' = r
    /\ UNCHANGED <<work, staged>>
    /\ UserActs

\* git checkout of a commit, or git reset --hard; untracked files stay and are
\* not overwritten.
Switch(r) ==
    /\ r \in made
    /\ r # head => ~Dirty
    /\ r # head \/ Dirty
    /\ \A f \in Files : staged[f] = None /\ TreeOf(head)[f] = None /\ work[f] # None
                            => tree[r][f] = None
    /\ head' = r
    /\ staged' = tree[r]
    /\ work' = [f \in Files |->
                  IF staged[f] = None /\ tree[r][f] = None THEN work[f] ELSE tree[r][f]]
    /\ UNCHANGED <<made, tree>>
    /\ UserActs

\* To a branch without commits: git checkout --orphan keeps what is tracked,
\* git switch --orphan removes it.
Orphan ==
    /\ head # Unborn
    /\ head' = Unborn
    /\ \/ UNCHANGED <<work, staged>>
       \/ /\ ~Dirty
          /\ staged' = Nothing
          /\ work' = [f \in Files |-> IF staged[f] = None THEN work[f] ELSE None]
    /\ UNCHANGED <<made, tree>>
    /\ UserActs

User ==
    \/ \E f \in Files : Add(f) \/ Untrack(f) \/ \E b \in Contents : Edit(f, b)
    \/ \E r \in Revs : CommitStaged(r) \/ Switch(r)
    \/ Orphan

-----------------------------------------------------------------------------
(* init, rebuild and update.                                               *)

Begin(first, start, record) ==
    /\ phase = "idle"
    /\ phase' = first
    /\ next' = start
    /\ newMeta' = record
    /\ seen' = {}
    /\ touched' = FALSE
    /\ UNCHANGED <<checkout, database, list, acts, tainted, settled>>

\* init makes a database without rows, in a repository of any history.
BeginInit ==
    /\ meta.at = "none"
    /\ Begin("meta", Nothing, [EmptyMeta EXCEPT !.at = "init"])
    /\ UNCHANGED <<full, cand>>

\* rebuild walks everything into an empty database.
BeginRebuild ==
    /\ Begin("list", Nothing, EmptyMeta)
    /\ full' = TRUE
    /\ cand' = Files

\* update changes the database there is.
BeginUpdate ==
    /\ meta.at # "none"
    /\ Begin("candidates", rows, [meta EXCEPT !.at = "none"])
    /\ UNCHANGED <<full, cand>>

Go(to) == phase' = to /\ UNCHANGED <<checkout, database, acts, touched, tainted, settled>>

\* Mutant of WalksAll: an index without rows is taken for one of no files.
WalksAllUnlessClean == meta.dirty \/ meta.rev = Unborn \/ head = Unborn

\* updateCandidatePaths: the difference between the recorded commit and the
\* present one and what is dirty now, provided there are rows and the record is
\* of a clean checkout; everything otherwise.
WalksAll ==
    rows = Nothing \/ meta.dirty \/ meta.rev = Unborn \/ head = Unborn

Candidates ==
    /\ phase = "candidates"
    /\ full' = WalksAll
    /\ cand' = (IF WalksAll THEN Files
                ELSE Named(Differ(TreeOf(meta.rev), TreeOf(head)) \cup DirtyPaths))
    /\ Go("list")
    /\ UNCHANGED <<list, seen, next, newMeta>>

\* Mutant of Listed: ls-files is not given the candidates.
Tracked == {f \in Files : staged[f] # None}

Listed == {f \in cand : staged[f] # None}

\* git ls-files.
List ==
    /\ phase = "list"
    /\ list' = Listed
    /\ Go("scan")
    /\ UNCHANGED <<full, cand, seen, next, newMeta>>

\* A file that cannot be read is passed over.
Scan(f) ==
    /\ phase = "scan"
    /\ f \in list
    /\ list' = list \ {f}
    /\ IF work[f] = None
         THEN UNCHANGED <<seen, next>>
         ELSE seen' = seen \cup {f} /\ next' = [next EXCEPT ![f] = work[f]]
    /\ Go("scan")
    /\ UNCHANGED <<full, cand, newMeta>>

\* Rows of walked files that were not seen are deleted.
RemoveUnseen ==
    /\ phase = "scan"
    /\ list = {}
    /\ next' = [f \in Files |-> IF f \in cand \ seen THEN None ELSE next[f]]
    /\ Go("meta")
    /\ UNCHANGED <<full, cand, list, seen, newMeta>>

\* Mutant of DirtyHash: what is staged is not looked at.
UnstagedHash ==
    [f \in Unstaged |-> IF f \in Named(Unstaged) THEN Expected[f] ELSE None]

\* currentDirtyHash stands for the dirty files and what each would be indexed
\* as; candidates that ls-files does not know count as missing.
DirtyHash ==
    [f \in DirtyPaths |-> IF f \in Named(DirtyPaths) THEN Expected[f] ELSE None]

\* writeOperationMetaSQL, after the scan if there is one: the present HEAD and
\* what is dirty, whatever the rows are.  An empty value leaves the old one.
RecordMeta ==
    /\ phase = "meta"
    /\ newMeta' = [at    |-> IF newMeta.at = "init" THEN "init"
                            ELSE IF head = Unborn THEN "unborn" ELSE "commit",
                   rev   |-> IF head = Unborn THEN newMeta.rev ELSE head,
                   dirty |-> Dirty,
                   hash  |-> DirtyHash]
    /\ Go("commit")
    /\ UNCHANGED <<full, cand, list, seen, next>>

Forget ==
    /\ full' = FALSE /\ cand' = {} /\ list' = {} /\ seen' = {}
    /\ next' = Nothing /\ newMeta' = EmptyMeta
    /\ touched' = FALSE

Install ==
    /\ phase = "commit"
    /\ phase' = "idle"
    /\ rows' = next
    /\ meta' = newMeta
    /\ tainted' = (newMeta.at # "init" /\ (touched \/ (tainted /\ ~full)))
    /\ settled' = (newMeta.at # "init" /\ ~touched)
    /\ Forget
    /\ UNCHANGED <<checkout, acts>>

\* A command that fails or is killed leaves the database as it was.
Abort ==
    /\ phase # "idle"
    /\ phase' = "idle"
    /\ Forget
    /\ UNCHANGED <<checkout, database, acts, tainted, settled>>

Indexer ==
    \/ BeginInit \/ BeginRebuild \/ BeginUpdate \/ Candidates \/ List
    \/ \E f \in Files : Scan(f)
    \/ RemoveUnseen \/ RecordMeta \/ Install \/ Abort

Next == User \/ Indexer

Spec == Init /\ [][Next]_vars

-----------------------------------------------------------------------------
(* index_stale, as status computes it from the record and the checkout.    *)

Unknown == meta.rev = Unborn

\* Mutant of Stale: the hash is not compared.
StaleByFlag == head # meta.rev \/ (Dirty /\ ~meta.dirty)

Stale ==
    \/ head # meta.rev
    \/ Dirty /\ (~meta.dirty \/ DirtyHash # meta.hash)

-----------------------------------------------------------------------------
(* Properties.                                                             *)

(* update and rebuild leave exactly the tracked files with their present    *)
(* contents when the user does nothing meanwhile.  The code does not keep   *)
(* this after a disturbed update: see UndisturbedIsExact.                   *)
QuietIsExact == settled => rows = Expected

(* As long as commands are not disturbed by the user, or a full walk has    *)
(* come after the last one that was, every update leaves what a rebuild     *)
(* would leave, although it reads candidates only.                          *)
UndisturbedIsExact == settled /\ ~tainted => rows = Expected

\* What the metadata says the rows are: the commit, and over it the dirty files
\* whose hash is kept.
Described ==
    [f \in Files |-> IF f \in DOMAIN meta.hash THEN meta.hash[f]
                     ELSE TreeOf(meta.rev)[f]]

(* A record that the next update relies on to leave out files describes the *)
(* rows.  One made by init, or while HEAD was unborn, does not, its commit   *)
(* being that of no row or of older ones: then there are no rows or it says  *)
(* dirty, and the next update walks all files.                              *)
MetaDescribesRows ==
    ~tainted =>
        /\ meta.at = "commit" => rows = Described
        /\ meta.at \in {"none", "init"} => rows = Nothing
        /\ meta.at = "unborn" => rows = Nothing \/ meta.dirty

(* When status says the index is not stale, the index is what a rebuild     *)
(* would make now.  The code does not keep this: see NotStaleIsExact.       *)
NotStaleMeansExact == ~Unknown /\ ~Stale /\ ~tainted => rows = Expected

(* It keeps it but for three records: that of init, which names HEAD beside  *)
(* no rows; one made while HEAD was unborn, which keeps the commit of an     *)
(* older one; and one of a dirty checkout that is clean at the same commit   *)
(* now.                                                                      *)
NotStaleIsExact ==
    ~Unknown /\ ~Stale /\ ~tainted /\ meta.at = "commit" /\ (meta.dirty => Dirty)
        => rows = Expected

(* An update, here one of candidates only, makes no uncommitted change      *)
(* searchable: so docs/COMMANDS/status.md says.  The code does not keep     *)
(* this: it scans the work tree.                                            *)
UncommittedNotIndexed ==
    phase = "commit" /\ ~full =>
        \A f \in Files : next[f] # None => \E r \in made : next[f] = tree[r][f]
==============================================================================
