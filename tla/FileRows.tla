------------------------------ MODULE FileRows ------------------------------
(***************************************************************************)
(* The tables of the index: what rebuild and update write for each file    *)
(* (src/index.go, src/sql, the loops of src/cmd_build.go).                 *)
(*                                                                         *)
(* The tables point to each other by file id and by path, and nothing but  *)
(* the order of the statements keeps them consistent: foreign keys are off *)
(* in the sqlite3 shell, so the cascades of the schema never happen, and   *)
(* an id of a deleted row is given out again.                              *)
(*                                                                         *)
(* One command runs at a time (IndexLock), its transaction is atomic       *)
(* (IndexStore), and every update walks all files (Freshness is about      *)
(* candidates).                                                            *)
(***************************************************************************)
EXTENDS Decoding, Naturals, FiniteSets, Bags

CONSTANTS
    Paths,      \* paths of files, numbered in the order of Git and SQLite
    Blobs,      \* contents: a record of Sources with the lines of its text
    Fallbacks,  \* encoding.fallbacks of the configuration
    Fts,        \* does the database have FTS5 tables?
    Gone,       \* no regular file at a path
    MaxActs     \* bound on the number of user actions in a behaviour

ASSUME RowAssumption ==
    /\ Paths \subseteq Nat \ {0} /\ IsFiniteSet(Paths)
    /\ \A b \in Blobs : b.lines \in Seq({"def", "use", "part", "other"})
    /\ Fallbacks \in Seq(Encodings)
    /\ Fts \in BOOLEAN
    /\ MaxActs \in Nat
    /\ Gone \notin Blobs

VARIABLES
    work,       \* contents of the tracked files
    unmerged,   \* paths that a merge has left in conflict
    iconv,      \* is the command iconv installed?
    db,         \* tables of the index
    op,         \* command that runs: "none", "rebuild" or "update"
    todo,       \* lines of Git's list it has not yet walked
    txn,        \* tables as its transaction has made them
    existing,   \* file states update has loaded
    seen,       \* paths it has scanned
    nextId,     \* file id a rebuild gives next
    acts,       \* user actions so far
    quiet,      \* history: has the user done nothing since the command began?
    exact,      \* history: has nothing happened since a quiet command?
    moved,      \* history: has iconv come or gone since a quiet rebuild?
    rejected    \* history: has sqlite3 ever refused a statement?

user    == <<work, unmerged, iconv>>
command == <<op, todo, txn, existing, seen, nextId>>
rowVars == <<user, db, command, acts, quiet, exact, moved, rejected>>

-----------------------------------------------------------------------------
(* Tables.  files is keyed by id, lines by file id and line, file_metrics   *)
(* by file id; symbols is the set of its rows; fts counts the rows of the   *)
(* FTS5 tables, which have no key, by the insertion that made them.         *)

EmptyTables == [files |-> <<>>, lines |-> <<>>, symbols |-> {},
                metrics |-> <<>>, fts |-> EmptyBag]

NoTables == [file |-> "none"]       \* no database

Ids(t) == DOMAIN t.files
IdsOf(t, P) == {i \in Ids(t) : t.files[i].path \in P}
IsIndexed(row) == row.as.status = "indexed"

\* id integer primary key: one more than the largest, whatever was deleted.
FreshId(t) == 1 + Max(Ids(t) \cup {0})

\* Lines with a symbol in them, of the one name that queries ask for.
SymbolLines(blob) == {n \in DOMAIN blob.lines : blob.lines[n] = "def"}

\* The statements of file_index_delete_fts.sql and file_index_delete.sql, for
\* each file of P.
DeleteFts(t, P) ==
    IF Fts THEN [t EXCEPT !.fts = RestrictDomain(@, LAMBDA r : r.path \notin P)]
           ELSE t
DeleteLines(t, P) ==
    [t EXCEPT !.lines = RestrictDomain(@, LAMBDA k : k[1] \notin IdsOf(t, P))]
DeleteSymbols(t, P) == [t EXCEPT !.symbols = {s \in @ : s.path \notin P}]
DeleteMetrics(t, P) ==
    [t EXCEPT !.metrics = RestrictValues(@, LAMBDA r : r.path \notin P)]
DeleteFile(t, P) ==
    [t EXCEPT !.files = RestrictValues(@, LAMBDA r : r.path \notin P)]

\* Mutant of DeleteRows: the file goes first, so no line finds its id.
DeleteRowsFileFirst(t, P) ==
    DeleteMetrics(DeleteSymbols(DeleteLines(DeleteFile(DeleteFts(t, P), P),
                                            P), P), P)

DeleteRows(t, P) ==
    DeleteFile(DeleteMetrics(DeleteSymbols(DeleteLines(DeleteFts(t, P), P),
                                           P), P), P)

\* Do the keys and unique columns of the schema admit the rows of a file?
Admits(t, id, p, blob, as) ==
    /\ id \notin Ids(t)
    /\ IdsOf(t, {p}) = {}
    /\ as.status = "indexed" =>
          /\ id \notin DOMAIN t.metrics
          /\ \A i \in DOMAIN t.metrics : t.metrics[i].path # p
          /\ \A n \in DOMAIN blob.lines : <<id, n>> \notin DOMAIN t.lines

\* New rows in a table that is keyed.
With(table, rows) ==
    [k \in DOMAIN table \cup DOMAIN rows |->
        IF k \in DOMAIN table THEN table[k] ELSE rows[k]]

InsertRows(t, id, p, blob, as) ==
    LET file == [t EXCEPT !.files =
                    With(@, [i \in {id} |-> [path |-> p, blob |-> blob, as |-> as]])]
    IN  IF as.status # "indexed" THEN file
        ELSE [file EXCEPT
                !.lines = With(@, [k \in {id} \X DOMAIN blob.lines |->
                                      blob.lines[k[2]]]),
                !.symbols = @ \cup
                    {[file |-> id, path |-> p, line |-> n] :
                        n \in SymbolLines(blob)},
                !.metrics = With(@, [i \in {id} |-> [path |-> p,
                                                     count |-> Len(blob.lines)]]),
                !.fts = IF Fts THEN @ (+) SetToBag({[path |-> p, blob |-> blob]})
                               ELSE @]

-----------------------------------------------------------------------------
(* The user, at any time.                                                    *)

Acts ==
    /\ acts < MaxActs
    /\ acts' = acts + 1
    /\ quiet' = FALSE
    /\ exact' = FALSE
    /\ UNCHANGED <<db, command, rejected>>

\* A file changes, comes or goes; with that its conflict is resolved.
Edit(p) ==
    /\ Acts
    /\ \E b \in (Blobs \cup {Gone}) \ {work[p]} : work' = [work EXCEPT ![p] = b]
    /\ unmerged' = unmerged \ {p}
    /\ UNCHANGED <<iconv, moved>>

\* A merge leaves the file with markers in it, and two stages in Git's index.
MergeConflict(p) ==
    /\ Acts
    /\ p \notin unmerged /\ work[p] # Gone
    /\ unmerged' = unmerged \cup {p}
    /\ UNCHANGED <<work, iconv, moved>>

ToggleIconv ==
    /\ Acts
    /\ iconv' = ~iconv
    /\ moved' = TRUE
    /\ UNCHANGED <<work, unmerged>>

-----------------------------------------------------------------------------
(* rebuild and update.                                                       *)

\* git ls-files names an unmerged path once for each of its stages, two here.
Listing == {e \in Paths \X {1, 2} : e[2] = 2 => e[1] \in unmerged}

\* The list is in the order of the paths.
IsNext(e) == \A f \in todo : e[1] < f[1] \/ (e[1] = f[1] /\ e[2] <= f[2])

\* What scanFileIndexCore makes of a file.
Scanned(p) == Decode(work[p], Fallbacks, iconv)
IsScanned(p) == work[p] # Gone /\ Scanned(p).status # "notText"

Begin(o) ==
    /\ op = "none"
    /\ op' = o
    /\ todo' = Listing
    /\ seen' = {}
    /\ quiet' = TRUE
    /\ UNCHANGED <<user, db, acts, exact, rejected>>

BeginRebuild ==
    /\ Begin("rebuild")
    /\ txn' = EmptyTables
    /\ nextId' = 1
    /\ UNCHANGED <<existing, moved>>

BeginUpdate ==
    /\ db # NoTables
    /\ Begin("update")
    /\ txn' = db
    /\ existing' = [p \in {db.files[i].path : i \in Ids(db)} |->
                        (CHOOSE i \in Ids(db) : db.files[i].path = p)]
    /\ UNCHANGED <<nextId, moved>>

\* Mutant of SameHash: the path is enough.
SamePath(p) == p \in DOMAIN existing

\* loadIndexedFileStates maps a path to the hash of the content it had.
SameHash(p) ==
    p \in DOMAIN existing /\ db.files[existing[p]].blob = work[p]

\* The command is over, for good or ill.
Ends ==
    /\ op' = "none"
    /\ todo' = {}
    /\ txn' = NoTables
    /\ existing' = <<>>
    /\ seen' = {}
    /\ nextId' = 0

\* What the callback of the walk does with the line e of the list.
Walk(e) ==
    LET p == e[1]
        t == IF op = "update" THEN DeleteRows(txn, {p}) ELSE txn
        id == IF op = "update" THEN FreshId(t) ELSE nextId
        same == op = "update" /\ SameHash(p)
    IN  /\ op # "none" /\ IsNext(e)
        /\ UNCHANGED <<user, acts, quiet, exact, moved>>
        /\ \/ /\ ~IsScanned(p)
              /\ todo' = todo \ {e}
              /\ UNCHANGED <<db, op, txn, existing, seen, nextId, rejected>>
           \/ /\ IsScanned(p) /\ same
              /\ todo' = todo \ {e}
              /\ seen' = seen \cup {p}
              /\ UNCHANGED <<db, op, txn, existing, nextId, rejected>>
           \/ /\ IsScanned(p) /\ ~same
              /\ Admits(t, id, p, work[p], Scanned(p))
              /\ txn' = InsertRows(t, id, p, work[p], Scanned(p))
              /\ todo' = todo \ {e}
              /\ seen' = seen \cup {p}
              /\ nextId' = nextId + (IF op = "rebuild" THEN 1 ELSE 0)
              /\ UNCHANGED <<db, op, existing, rejected>>
           \* .bail on: sqlite3 exits, and the command fails without a commit.
           \/ /\ IsScanned(p) /\ ~same
              /\ ~Admits(t, id, p, work[p], Scanned(p))
              /\ Ends
              /\ rejected' = TRUE
              /\ UNCHANGED db

\* The rows of files that were there and have not been seen.
RemoveUnseen(t) == DeleteRows(t, DOMAIN existing \ seen)

Commit ==
    /\ op # "none" /\ todo = {}
    /\ db' = (IF op = "update" THEN RemoveUnseen(txn) ELSE txn)
    /\ exact' = quiet
    /\ moved' = (moved /\ ~(op = "rebuild" /\ quiet))
    /\ Ends
    /\ UNCHANGED <<user, acts, quiet, rejected>>

\* Git, the file system or sqlite3 fails: the transaction is undone.
Abort ==
    /\ op # "none"
    /\ Ends
    /\ UNCHANGED <<user, db, acts, quiet, exact, moved, rejected>>

-----------------------------------------------------------------------------

RowInit ==
    /\ work \in [Paths -> Blobs \cup {Gone}]
    /\ unmerged = {}
    /\ iconv \in BOOLEAN
    /\ db \in {NoTables, EmptyTables}      \* init makes an empty database
    /\ op = "none" /\ todo = {} /\ txn = NoTables
    /\ existing = <<>> /\ seen = {} /\ nextId = 0
    /\ acts = 0
    /\ quiet = FALSE /\ exact = FALSE /\ moved = FALSE /\ rejected = FALSE

RowNext ==
    \/ \E p \in Paths : Edit(p) \/ MergeConflict(p)
    \/ ToggleIconv
    \/ BeginRebuild \/ BeginUpdate \/ Commit \/ Abort
    \/ \E e \in todo : Walk(e)

-----------------------------------------------------------------------------
(* Properties.                                                               *)

IsTables(t) ==
    /\ \A i \in Ids(t) : i \in Nat \ {0} /\ t.files[i].path \in Paths
                                        /\ t.files[i].blob \in Blobs
    /\ DOMAIN t.lines \subseteq (Nat \ {0}) \X (Nat \ {0})
    /\ DOMAIN t.metrics \subseteq Nat \ {0}
    /\ \A s \in t.symbols : s.file \in Nat \ {0} /\ s.path \in Paths
    /\ IsABag(t.fts)

(* Every variable has its type, and what a command works with is there as    *)
(* long as it runs.                                                          *)
RowTypeOK ==
    /\ work \in [Paths -> Blobs \cup {Gone}]
    /\ unmerged \subseteq {p \in Paths : work[p] # Gone}
    /\ op \in {"none", "rebuild", "update"}
    /\ op = "none" <=> txn = NoTables
    /\ \A t \in {db, txn} \ {NoTables} : IsTables(t)
    /\ todo \subseteq Paths \X {1, 2} /\ (op = "none" => todo = {})
    /\ DOMAIN existing \cup seen \subseteq Paths
    /\ op = "update" => Range(existing) \subseteq Ids(db)
    /\ nextId \in Nat /\ acts \in 0..MaxActs
    /\ {iconv, quiet, exact, moved, rejected} \subseteq BOOLEAN

Agree(t) ==
    LET indexed == {i \in Ids(t) : IsIndexed(t.files[i])} IN
    /\ \A i, j \in Ids(t) : t.files[i].path = t.files[j].path => i = j
    /\ DOMAIN t.lines = UNION {{i} \X DOMAIN t.files[i].blob.lines : i \in indexed}
    /\ \A k \in DOMAIN t.lines : t.lines[k] = t.files[k[1]].blob.lines[k[2]]
    /\ t.symbols = UNION {
          {[file |-> i, path |-> t.files[i].path, line |-> n] :
              n \in SymbolLines(t.files[i].blob)} : i \in indexed}
    /\ t.metrics = [i \in indexed |->
          [path |-> t.files[i].path, count |-> Len(t.files[i].blob.lines)]]
    /\ Fts => t.fts = [r \in {[path |-> t.files[i].path, blob |-> t.files[i].blob] :
                                  i \in indexed} |-> 1]

(* The tables tell one story: the rows of lines, symbols, file_metrics and   *)
(* FTS5 are those of the files that are there with status indexed, each      *)
(* once, under the id and the path of their file, and a skipped file has no  *)
(* row but its own.  This is what show, outline, defs, stats and refs rely   *)
(* on when they join tables, some by file id and some by path.               *)
TablesAgree == db # NoTables => Agree(db)

(* A command during which nobody touched the files leaves the rows that the  *)
(* files call for: as many as there are, of their contents, decoded as a     *)
(* rebuild would decode them.  update compares hashes of the bytes, which    *)
(* say nothing of iconv: it holds as long as iconv neither comes nor goes.   *)
QuietCommandIsExact ==
    exact /\ ~moved =>
        {<<r.path, r.blob, r.as>> : r \in Range(db.files)} =
        {<<p, work[p], Scanned(p)>> : p \in {q \in Paths : IsScanned(q)}}

(* What is indexed as text is text, by the strongest evidence there is:      *)
(* the encoding it was read in is one its bytes are valid in; it is the one  *)
(* of its byte order mark or declaration if it has one, else UTF-8 if it is  *)
(* valid, and a guess of the configuration only then.                        *)
TextIsFaithful ==
    db # NoTables => \A i \in Ids(db) :
        LET b == db.files[i].blob
            e == db.files[i].as.encoding
        IN  IsIndexed(db.files[i]) =>
              /\ e \in b.valid
              /\ b.bom # NoEncoding => e = b.bom
              /\ b.bom = NoEncoding /\ b.declared # NoEncoding => e = b.declared
              /\ b.bom = NoEncoding /\ b.declared = NoEncoding =>
                    e = Utf8 \/ (Utf8 \notin b.valid /\ e \in Range(Fallbacks))

(* What is indexed without iconv is indexed the same with it: a missing      *)
(* iconv leaves files out, it never has one read in another encoding.  So a  *)
(* text in the index does not depend on the machine that indexed it.         *)
IconvOnlyAdds ==
    db # NoTables => \A i \in Ids(db) :
        IsIndexed(db.files[i]) =>
            db.files[i].as = Decode(db.files[i].blob, Fallbacks, TRUE)

(* docs/COMMANDS/rebuild.md promises an index of the current Git-tracked     *)
(* files and lists the errors: missing sqlite3, invalid options, failure of  *)
(* Git, of the creation or of the installation.  So sqlite3 never refuses a  *)
(* statement that rebuild or update sends.  It does: see the run             *)
(* rows_conflict.                                                            *)
NothingRejected == ~rejected

(* An update as well as a rebuild leaves what a rebuild would, whatever      *)
(* happens between commands.                                                 *)
AlwaysExact ==
    exact =>
        {<<r.path, r.blob, r.as>> : r \in Range(db.files)} =
        {<<p, work[p], Scanned(p)>> : p \in {q \in Paths : IsScanned(q)}}
=============================================================================
