# Verification of mzci

TLA+ models of mzci (package `manazashi`), the tool that keeps an index of the
files of a Git checkout in a SQLite database and answers queries from it. TLC
checks the models on small instances, TLAPS proves the main results for every
value of the constants.

## The system

mzci is a command-line program: every command is a process of its own, and
commands meet only in the file system. All concurrency is therefore between
processes, through files, and every hard behaviour is of that kind.

| Component | Keeps | Operations | Talks to |
|---|---|---|---|
| Index lock (`lock.go`) | the file `<db>.lock`: operation, root, pid, start time | acquire (with removal of a stale lock), release, look | every command; the process table, through signal 0 |
| Index store (`db.go`, `cmd_build.go`) | the database, its journal, temporary databases | init and rebuild: build a temporary database, remove sidecars, rename; update: one transaction of a `sqlite3` child | `sqlite3` child processes, through pipes; the lock |
| Freshness (`git.go`, `cmd_build.go`, `cmd_status.go`) | rows of files, and of `meta`: commit, dirty flag, hash of the dirty files | walk of all files or of candidates, recording, `index_stale` | Git, through child processes; the work tree |
| init (`cmd_build.go`) | `.manazashi.toml` | write, create an empty index, roll back | the lock, the store |
| Compatibility (`cmd_build.go`, `cmd_status.go`) | `meta`: schema, source, hash, root, configuration | accept, refuse, adopt | update, status |
| Operation log (`operation_logs.go`) | `<db>.logs.sqlite`, the newest 1000 runs | record and prune, list | every build command |
| File rows (`index.go`, `sql/`) | tables files, lines, symbols, file_metrics, FTS | delete and insert the rows of one file | rebuild, update |
| Decoding (`encoding.go`), metrics (`metrics.go`), symbols (`internal/symbols`) | nothing: functions of a file's contents | decode, count, extract | the walk |
| Queries (`cmd_query.go`, `cmd_refs.go`) | nothing | one `sqlite3` call each; refs several | the lock, the store |
| Configuration, dispatch, output | nothing | look up, parse, print | |

What makes each part correct, and what is hard about it:

* **Lock.** At most one of init, rebuild and update works on an index. A lock
  left by a dead process is removed, a live or unreadable one is not. Hard: a
  lock is read, judged and unlinked in separate system calls, pids are reused,
  processes die anywhere.
* **Store.** A query sees one whole index, the old or the new one, whatever
  fails; success means the new one is there; nothing stays behind on error
  paths. Hard: two ways to change one file, journals that belong to a path,
  child processes that outlive their commands, machines that stop.
* **Freshness.** update, which reads candidates only, leaves what a rebuild
  would leave; status says rightly whether it is worth while. Hard: the result
  depends on what every earlier command recorded, and the user works on the
  files while they are read.
* **init.** All or nothing: configuration and index, or what was there before.
  Hard: the configuration is outside the lock.
* **Compatibility.** An update refuses an index of other settings or, without
  `--adopt`, of another checkout; what it accepts it brings up to date. Hard:
  rows outlive any number of updates, histories are fetched and pruned, empty
  values are not recorded.
* **File rows.** The tables agree with each other. Hard: no foreign keys, ids
  that are given out again, statements of two commands for the same file.
* **Decoding.** No file is read in a wrong encoding. Hard: contradicting
  evidence, a converter that may be missing.
* **Operation log.** A run that ended without a warning is in the log, with a
  status that is true of the index. Hard: commands record when they have given
  the lock back, so several at once, and prune what they do not know of.
* **Metrics.** The counts are those of the text. Hard: a comment that is not
  closed changes the meaning of every line after it.
* **Queries.** One answer from one index, with the lines of the file it names.
  Hard: several calls of `sqlite3`, and reasons that are looked up in the work
  tree when the index has already answered.

`PROJECT.json` lists the hazards one by one, each at its line, with the
properties that are about it.

## The modules

| Module | Models |
|---|---|
| `IndexLock` | the lock file, one action per system call |
| `IndexLockProofs` | the proofs about it |
| `AtomicIndex` | what a build promises: one snapshot replaced by another in one step |
| `IndexStore` | database, journal, temporary databases, commands and `sqlite3` children; implements `AtomicIndex` |
| `Freshness` | checkout, index, metadata, one command at a time and a user |
| `InitConfig` | init beside other inits and a rebuild |
| `FreshnessProofs`, `InitConfigProofs`, `IndexStoreProofs` | the proofs about them; the last has the refinement of `AtomicIndex` too |
| `OperationLog` | the log of the builds: recorders, the transaction that inserts and prunes, `logs` |
| `OperationLogProofs` | the proofs about it |
| `Decoding` | which encoding of a file is tried when, and what comes of it |
| `Unicode` | byte order marks, UTF-16 and UTF-32, down to the bytes |
| `SourceLines` | lines of a text and their metrics |
| `FileRows` | the tables, as rebuild and update write them file by file; uses `Decoding` |
| `Refs` | the paged query, composed with `FileRows` |
| `Queries` | refs, show and files `--explain`, beside the commands that write; composes `Refs` and `FileRows` |
| `QueriesProofs` | the proofs about `Decoding` and `FileRows`, and from them about `Refs` and `Queries` |
| `IndexedText` | what the texts of an index go through; composes `Queries`, `Unicode` and `SourceLines` |
| `IndexedTextProofs` | the proofs about `Unicode` and `SourceLines` |
| `Ownership` | one index shared by several checkouts: settings, roots, histories, `--adopt` |
| `OwnershipProofs` | the proofs about it |
| `MC...` | instances of each for TLC |

They fit together by assumption and guarantee: `IndexStore` takes the lock as
exclusive, which is what `IndexLock` is about; `Freshness` takes the effect of
a command as one step, which is what `IndexStore` is about; `InitConfig` takes
the lock as one variable and the index as a flag. `FileRows` takes lock and
transaction from the first two, as does `Ownership`, where a whole command is
one step; what they add is what the rows of a command are, and over which
index and for whom it works. `OperationLog` takes the lock as exclusive and the
work under it as one step. `Unicode` and `SourceLines` are functions: the first
fills in what `Decoding` knows of bytes, the second what becomes of a text that
was decoded.

### IndexLock

A slot of `Procs` runs one process after another, each with a command and a pid.
`lock` is the content of the lock path: no file, a file without a pid, or a pid
(`parseIndexLock` finds the pid or does not; nothing else of the text matters
to the protocol). `acquireIndexLock` is `OpenExcl`, `AcquireRead`,
`AcquireCheck` (`isStaleIndexLock`, that is signal 0) and `AcquireRemove`, then
back to `OpenExcl` with `attempt` 1; `writeIndexLockFile` is `WriteLock`, a
system call after the creation. `readActiveIndexLock` is `PeekRead`,
`PeekCheck`, `PeekRemove`; queries and the skip notice run it from label
`peek`, an update that finds no database from `prePeek` first. `Build` is the
critical section. Every system call may fail (`...Fails`), every process may
die (`Crash`); both count against `MaxFaults`. A write that fails half-way is
`WriteLockFails`: the code removes the file.

`creator`, `intact` and `raced` are history variables. They record which living
process made the file at the path, whether the file a process has read is the
one still there, and whether somebody has unlinked another file than the one
it judged. No guard reads them.

The lock is not exclusive. TLC finds (run `lock_race`, no fault needed): a query
reads a live lock; its owner releases it and exits; another command makes its
lock; the query probes the pid it has read, finds no such process and unlinks
the path; a third command takes the lock too. What does hold is
`MutexUnlessRaced`: this race is the only way. It is proved.

### IndexStore

A snapshot is a function from files to values of their rows. `rows` is the file
at the database path, `journal` the rollback journal beside it, `writer` the
child it belongs to. SQLite is external and modelled from how the code uses
it: a transaction saves a row in the journal before it changes the row,
deletes the journal to commit, and whoever opens a database whose journal has
no living writer plays it back first. A journal belongs to a *path*: a
database renamed into that path inherits it. A process that has the old file
open keeps it (`on`), and notices that the file has moved when it creates its
journal only.

`Build`, `RemoveSidecars`, `Rename` are `runRebuild`/`createEmptyIndexDB` and
`installBuiltDB`; `Load` to `Wait` are `runUpdate`, the `Child...` actions its
`sqlite3`. `ChildWrite` is the delete-and-insert of one file. `ChildRollsBack`
is end of file without a commit: the deferred `Close` of a failed update, or
the death of a killed one.

Two things break atomic replacement, and the model shows that there are no
others (`WholeUnlessExposed`):

* `installBuiltDB` deletes the journal of the old database and then renames. If
  that journal was hot, because an update was cut off, and the machine stops
  between the two calls, half an update stays (`IndexStorePower.cfg`).
* The `sqlite3` of a killed update may still be writing. The lock names the pid
  of mzci only, so it counts as stale. `IndexStoreOrphan.cfg` shows a rebuild
  that reports success beside the journal of such a child.

`AtomicIndex` has one step for each thing a command may appear to do: begin,
apply its snapshot, fail, end, and be cut off and still apply it, which is what
the child of a killed update does when its commit is in the pipe already.
`Progress` and `Goal` map to it; `Visible`, what a query sees, is its index. The
refinement holds whatever fails, is killed or stops, while neither exposure
lasts, and again after the first has passed.

`dropped`, `overlap` and `cut` are history variables. They say that a needed
journal was deleted, that an orphan was at work when another command went on,
and that a process was ever killed.

### Freshness

`work`, `staged`, `head`, `made`, `tree` are the checkout, Git's index and its
commits; `Edit`, `Add`, `Untrack`, `CommitStaged`, `Switch`, `Orphan` the user,
at any time. A command takes the steps of `runRebuild`/`runUpdate`: candidates
from Git, list of files, one file at a time, removal of unseen rows, metadata,
commit; or, if there is no database, those of init, which has no rows to write
and records the present commit all the same (`createEmptyIndexDB`). HEAD may
lose its commit again (`git checkout --orphan`); a record made then keeps the
commit of the one before it, since empty values are not written. `Stale` is
`currentIndexStale`. `DirtyHash` stands for the hash by the function it is a hash
of: files that differ and their contents; two hashes are equal when these are.

`touched`, `tainted` and `settled` are history: did the user act during the
command, does the index go back to such a command without a full walk since,
has nothing happened since an update or rebuild. So is `meta.at`: was the record
made by init, at an unborn HEAD, or at a commit? A record that update relies on
to leave out files is one made at a commit, and describes the rows; beside the
others there are no rows or the record says dirty, so that the next update walks
everything (`MetaDescribesRows`).

Deviations from the documents that TLC finds here:

* A change between the scan of a file and the recording of the metadata is
  taken for indexed, and later undisturbed updates do not correct it (run
  `freshness_race`).
* Below the top level of the work tree, `git diff` and `git ls-files` name files
  from different directories: update finds no candidates (run
  `freshness_subdir`).
* `status` calls an index fresh that is not, in three ways (`NotStaleMeansExact`,
  `FreshnessStatus.cfg`; `docs/COMMANDS/status.md:56-57`): the empty index that
  init has made in a clean repository with commits, since the record names HEAD;
  an index that was recorded while HEAD was unborn, when HEAD is back at the
  commit of the record before and as much is dirty as then, or nothing; and one
  made of a dirty checkout that is clean at the same commit now.
  `NotStaleIsExact` says that there is no fourth.
* `docs/COMMANDS/status.md:58-59` says that update does not make uncommitted
  changes searchable; it does (`FreshnessUncommitted.cfg`).

### InitConfig

`cmdInit` step by step: read the configuration, write it, look for the index,
take the lock, look again, create, roll back on any error of these steps. An
error while the report is printed comes after them (`ReportFails`): init ends
with an error, and its configuration and index stay. `Builder` stands for
a rebuild, which may hold the lock and make the index. An init that is refused
the lock rolls back and so removes the configuration of the one that holds it
(`InitConfigRace.cfg`).

### OperationLog

A command makes a recorder (`Start`), looks for an index and takes the lock or
is refused (`Stat`, `Acquire`), works (`Work`), prints (`Report`), gives the
lock back (`Release`) and records. `OpenLog` to `CommitLog` are the `sqlite3` of
`recordBuildRun`: it creates the file and the table, waits five seconds for the
write lock (`BeginImmediate` or `TimesOut`), inserts (`Insert`), prunes
(`Prune`) and commits. `draft` is the table as the open transaction sees it. A
row keeps its id, the run it is of and its status; times and paths are left out.
`FreshId` gives the id that SQLite gives an `integer primary key`, one more than
the largest there is. A user with a shell of its own may keep the log locked for
good (`OutsiderLocks`). Commands are killed before they record; a child killed
while it writes is `ChildFails`. `WorkFails` is any error under the lock. For an
update it may come with a changed index: its `sqlite3` may be killed after it has
committed and before it exits.

`changed`, `mute`, `ended` and `recorded` are history: the runs that changed the
index, those that could not print, those that ended without a warning, and all
rows ever committed.

Deviations:

* `docs/DESIGNS/lifecycle.md:69` says that failed operations leave the installed
  index unchanged; a run whose result cannot be printed, or an update whose
  `sqlite3` is killed after its commit, is recorded as failed when it has changed
  the index (`OperationLogOutput.cfg`).
* `docs/COMMANDS/init.md:51` says that only the creation of a new database
  records an init operation. An init that finds, when it has the lock, the index
  that another command has made meanwhile records a success
  (`OperationLogInit.cfg`).
* A `sqlite3` that is killed, or times out, between the creation of the log and
  that of its table leaves a file that `logs` cannot read
  (`OperationLogBare.cfg`). The next build makes the table.

### Decoding, Unicode, SourceLines, FileRows, Refs

`Decoding` is `decodeSource`. A file is what that function can tell about its
bytes: mark, declaration, NUL, and the encodings the bytes are valid in.
`Convert` is `decodeNamed` with `runIconv`; `DecodeMarked`, `DecodeDeclared` and
`DecodeFallback` are its branches.

`Unicode` goes down to the bytes where Go's `encoding.go` does: `Candidates` is
the order of the marks in `unicodeBOM`, `Decode16` and `Decode32` are
`decodeUTF16` and `decodeUTF32`. A text is a sequence of code points. They are
compared to the encodings themselves (`EncodeWide`), in both directions: what is
encoded is read back, and bytes that can be read are those of what was read. One
text cannot be read back by any program: in UTF-16LE, NUL after the mark makes
the mark of UTF-32LE (`IsAmbiguous`), and `unicodeBOM` looks for that one first.

`SourceLines` is `splitLines` and `computeFileMetrics`. A text is a sequence of
tokens: line ends, blanks, code and the delimiters of comments, which the
languages write differently. It is compared to `Reading`, which goes through the
text once, token by token. They agree on ordinary texts (`IsOrdinary`), and there
are two kinds of others. In a text that is not tidy something follows a block
comment in its line, as in `/* x */ y`: `isCommentOnlyLine` takes this line for
a comment. In a text that is not plain a comment to the end of the line, after
code, holds the opener of a block, as in `x // a/*`: `isCommentOnlyLine` looks for
an opener anywhere in a line of code, so it opens a block (`metrics.go:55-58`), and
all lines up to the next closer count as comments (`QueriesOpeners.cfg`). The
metrics are called lightweight and approximate (`docs/COMMANDS/metrics.md:59`).

`FileRows` has the tables of `sql/schema.sql` with their keys. `DeleteRows` and
`InsertRows` are the statements of `writeFileIndexDeleteSQL` and
`writeFileIndexInsertSQL`, `Admits` the keys and unique columns they must not
break, `FreshId` the id that SQLite gives where rebuild does not give one.
`Walk` is the callback of the walk, for rebuild or update, one line of the list
of Git at a time: `todo` is the set of the lines left, a path and the how-manieth
time it is listed, and `IsNext` their order. `Commit` removes unseen files and
commits. The user edits,
leaves a merge in conflict and installs or removes iconv at any time. `quiet`,
`exact`, `moved` and `rejected` are history.

`Refs` runs `loadRefsResult` beside it: `AskDefinitions` is the call of
`loadExactDefinitions`, `AskPage` one turn of the loop of
`loadReferenceCandidates`. Rows are sets, and `limit` and `offset` of a query are
about the `Rank` of a row in its set, the number of rows before it; a candidate
remembers in `at` the page it came from, so the order of an answer is `Before`,
page by page, and its agreement with the order of the rows is a thing to be
shown. `indexes` is history: the databases there have been
since the query began.

### Queries

`Queries` adds the two queries that go to several sources. `AskShow` is
`resolveIndexedPath` for show, whose lines `AskLines` reads in a call of its own
by another pattern (`show.sql`); `AskFiles` is the search of files and `Explain`
the explanation of what it did not find; `StatRequest` is the end of
`resolveIndexedPath`, which asks the file system and Git. An argument is one of
the paths or another text, and goes two ways: `resolveIndexedPath` cleans it
(`Cleaned`), while the search of files and `show.sql` take it as it is, the
latter without a slash it begins with (`Unslashed`). What an argument occurs in,
what ends in it, and what ends in it after a slash, are constants, and so are the
lengths of the paths, by which matches are ordered. `QueryAssumption` says what
is so of any texts: a path is clean and ends in itself; what ends in a text after
a slash ends in it, and holds it; an absolute argument is no path when cleaned.
It says nothing of how the matches of an argument and of its cleaned form are
related.

Git tracks the files of the model. Where there is none, `os.Stat` may find
nothing, or fail, or find something else that Git tracks (a directory, a link)
or not; so each of the reasons "missing", "unknown", "excluded" and "untracked"
arises. JSON only is modelled: the text output of show is the same call without
the resolution, and files without `--explain`, defs, outline, stats and metrics
are one call of `sqlite3`. files `--language` narrows the search as `--status`
does and is not modelled beside it. `rested` is history: has anything happened
to the files since the last undisturbed command?

Deviations:

* Git lists a path in conflict once for each stage. update deletes before it
  inserts; rebuild inserts twice, and `sqlite3` refuses (run `rows_conflict`).
* A command that commits between two pages shifts them (run `refs_snapshot`).
* update takes a file with the same hash for current. A file that was skipped
  for want of iconv stays skipped when iconv is installed (`QueriesIconv.cfg`),
  or until it changes or the index is rebuilt.
* show takes any path that ends in the argument for its lines, be it in the
  middle of a name, but only whole names for the path it prints: asked for
  `b.go` it names `x/b.go` and prints the lines of `ab.go`, which is shorter
  (`QueriesShow.cfg`; `docs/DESIGNS/navigation-diagnostics.md:59`). The two calls
  also order their matches differently: of two equally long paths the resolution
  takes the first by name (`cmd_query.go`), `sql/show.sql:5` any. And only the
  resolution cleans its argument: `show ./b.go` finds `b.go` and prints no
  lines. `ShowIsTrue` claims that the lines are those of the named file for
  arguments for which none of this matters: clean ones, of which `IsSharp` holds.
  Of all arguments it claims that the named file is what the cleaned argument
  names, that the lines are one file's or none, and that the reason is so.
* files `--explain ./b.go` finds nothing and gives no reason although `b.go` is
  indexed, since the search takes the argument as it is and the explanation
  finds the cleaned one; and so does files `--explain --status skipped b.go`
  (`QueriesReason.cfg`; `docs/DESIGNS/navigation-diagnostics.md:30`).
  `ExplanationIsTrue` says that with `--status indexed` the first is the only case.
* An absolute argument, also of a file below the root, gives "unknown"
  (`cmd_query.go:417`).

### Ownership

Several checkouts (`Roots`), each with a repository (`objects`), a commit, a file
and settings, share one database. Settings are everything that makes
`rebuildRequired` but FTS5: schema, source, hash, size limit, ignored
directories, fallbacks; they change with the configuration, the options and the
tool. `RebuildRequired`, `OtherCheckout` and `UnknownHistory` are
`checkUpdateCompatibility`, `Accepted` is `validateUpdateCompatibility`,
`WalksAll` and `IsCandidate` are `updateCandidatePaths`, `Recorded` is
`writeOperationMetaSQL`, which leaves out empty values. The user edits, commits,
checks out, fetches from the other checkout, prunes, changes settings and
replaces `sqlite3`, without bound: the state is finite.

Deviations:

* On an unborn branch the commit recorded by somebody else stays in `meta`, so an
  adoption does not last (`OwnershipUnborn.cfg`; `docs/COMMANDS/update.md:17`).
* `status` asks what `sqlite3` can do, update what the database has, so status
  calls for a rebuild where update succeeds (`OwnershipFts.cfg`;
  `src/README.md:227` says it reports whether update can proceed).

## The runs

| Run | Checks | Shows | Instance |
|---|---|---|---|
| `lock` | `TypeOK`, `MutexUnlessRaced`, `VerdictSound`, `MalformedKept`, `EveryCommandEnds`, `StaleReclaimed` | exclusion short of the race; a file judged stale has no living creator; locks without a pid stay; nobody waits; stale locks go away | 2 processes, 3 pids, 1 fault, fair |
| `lock_race` | `Mutex` | violated | 2 processes, no fault |
| `store` | `TypeOK`, `WholeUnlessExposed`, `SuccessInstalls`, `NothingLeftBehind`, `ImplementsAtomicIndex`, `EverythingEnds` | the two exposures are the only ones, and apart from them the files implement the atomic index; success is true; errors clean up; every process ends | 2 commands, 2 files, 2 snapshots, 2 faults of any kind, fair |
| `operation_log` | `TypeOK`, `RunsStay`, `LogsHasNoGaps`, `StatusIsTrue`, `IdsGrow`, `EveryCommandEnds` | no run is lost to another writer or to the pruning; ids grow; a status is true, but for failed updates; a locked log keeps nobody | 2 commands at a time, 3 runs, 2 rows kept, 1 fault, fair |
| `freshness` | `TypeOK`, `UndisturbedIsExact`, `MetaDescribesRows`, `NotStaleIsExact` | candidates suffice; a record that is relied on is right; so is status, short of three exceptions | 2 files, 2 contents, 2 commits, 7 user actions |
| `freshness_race` | `QuietIsExact` | violated | 6 user actions |
| `freshness_subdir` | `UndisturbedIsExact` | violated below the top level | 6 user actions |
| `init_config` | `TypeOK`, `IndexIsKept`, `ConfigIsKept`, `UndisturbedIsAllOrNothing` | all or nothing, up to the report; nothing lost | 2 inits, a builder, 2 faults |
| `queries` | `TypeOK`, `TablesAgree`, `QuietCommandIsExact`, `TextIsFaithful`, `IconvOnlyAdds`, `QuietAnswerIsExact`, `ShowIsTrue`, `ExplanationIsTrue`, `WideTextIsRead`, `TextIsCounted` | tables agree; an undisturbed command writes what the files call for; evidence decides about encodings, down to the bytes; pages meet; what is shown and explained of files at rest is true; lines are counted rightly | 2 files of 5 kinds or gone, 3 fallbacks, page of 2, limit of 3, 1 user action; arguments `b.go`, `./b.go`, `/b.go`; texts of 2 code points, 4 bytes, 3 lines |
| `rows_conflict` | `NothingRejected` | violated | 3 kinds of files |
| `refs_snapshot` | `AnswerIsSnapshot` | violated | 3 kinds of files |
| `ownership` | `TypeOK`, `OneMake`, `OwnContent`, `OwnerIsAccepted` | an index is of one make and of its last user, and stays open to it | 2 checkouts, 2 commits, 2 contents, 2 settings, no bound on steps |

More configurations are kept beside the runs. `IndexLockSafety.cfg` checks the
invariants of the lock with three processes and reuse of pids,
`IndexStoreErrors.cfg` and `IndexStoreUpdates.cfg` the refinement of
`AtomicIndex` with a third snapshot, under errors, and without rebuilds under
errors and power losses; all pass. The others reproduce the further deviations
named above, each is violated: `IndexStorePower.cfg`, `IndexStoreOrphan.cfg`,
`FreshnessStatus.cfg`, `FreshnessUncommitted.cfg`, `InitConfigRace.cfg`,
`OperationLogOutput.cfg`, `OperationLogInit.cfg`, `OperationLogBare.cfg`,
`QueriesIconv.cfg`, `QueriesShow.cfg`, `QueriesReason.cfg`,
`QueriesOpeners.cfg`, `OwnershipUnborn.cfg` (`AdoptionLasts`),
`OwnershipFts.cfg`.

Bounds. The lock race needs a remover, the owner of the judged lock, a new
owner and an intruder, some of them one after another in one slot: two slots
have room for every role, and the proof covers any number. Two builds hold
the lock of the store one after the other, or one and an orphan: two slots
are enough. Mixtures need two files, and show when two snapshots differ in
both. A third snapshot, in the configurations beside the run, lets an update
leave a row alone, a row come and go and a rebuild install neither the old nor
the target of the update. Every fault of the store is one step, and the worst cases
found need two. In `Freshness` the shortest way from an exact index to a wrong
one takes four user actions (make, stage and commit a file, disturb), so seven
leave room for a disturbed command, a repair and another change.
Two rows kept and three runs prune once, and once more when a row was lost; two
commands at a time are the writer and the one that waits for it.
In `queries` every assignment of the kinds of contents to the two files is an
initial state, with or without iconv and an empty index, so one user action
reaches every pair of states of the work tree that a command can meet before
and after; the largest id is deleted and given out again when the second file
changes. A file of three lines is longer than a page, and two files have more
matching lines than the limit. The kinds are: plain text,
declared text that happens to be valid UTF-8, text that two fallbacks fit, marked
text whose declaration agrees, no text at all, and no file. One path, `x/b.go`,
ends in the other, `b.go`. The arguments are the shorter path, where both patterns
match both; `./b.go`, which only cleaned names anything; and `/b.go`, which show
takes for the path and files for an absolute one that occurs in `x/b.go`. The code points of
`Unicode` are NUL and those beside the surrogates and at the ends of the planes,
the bytes lie on both sides of every bound that is tested; four bytes are a pair of
units, whole or not. Two lines are enough to leave a block open and to close it, the third
shows what comes after; `x // a/*` is among them, so that the exemption of
such texts is needed.
In `ownership`, one commit and one content each would hide whose they are; two
checkouts are the owner and the other.
`PidReuse` is off in `lock`: a kernel that hands the pid of a dead
owner to somebody else at once keeps the lock alive for as long.

Fairness. `lock`, `store` and `operation_log` assume weak fairness of the steps
of each process, which any scheduler gives to a process that can run; system
calls do not block here, since no command waits for a lock. `StaleReclaimed`
further assumes that users keep starting queries. Nothing is assumed about
faults, or about the user who keeps the log locked: the five seconds of
`.timeout` end every wait, and `TimesOut` is a step like any other.

Every property of a passing run has a mutant: an operator next to the one it
replaces (a forgotten `O_EXCL`, a forgotten suffix, an ignored exit status and so
on) under which TLC finds the property violated.

## The proofs

`IndexLockProofs` proves, for any number of processes and pids, any bound on
the faults, with and without reuse of pids, from the assumptions that the
sentinel values are distinct from pids and processes:

* `TypesHold`: `Spec => []TypeOK`.
* `ExclusionUnlessRaced`: `Spec => []MutexUnlessRaced`.
* `StaleVerdictsAreSound`: `Spec => []VerdictSound`.
* `MalformedLocksStay`: `Spec => MalformedKept`.

The invariants are not inductive. `IInv` adds what makes them so: running
processes have different pids (`PidsOk`); the creator of the file at the path
still runs between creation and exit, and the file holds its pid or nothing
(`CreatorOk`); what a process has read is what the file still holds as long as
it is the same file, and a file judged stale has no creator (`SeenOk`); owners
are creators until the race (`OwnersOk`). The argument: a verdict is about a
pid that nobody had when it was probed; had the creator of that very file been
alive, it would have had that pid. So unlinking the file one has judged harms
no owner, and only unlinking another one can.

Types and pids are proved first (`TypeStep`, `PidsStep`), then the parts about
the file, action by action.

`OwnershipProofs` proves, for any set of checkouts, commits, contents and
settings, from the assumption that every commit has a content:

* `OneMakeAlways`: `Spec => []OneMake`.
* `OwnContentAlways`: `Spec => []OwnContent`.
* `OwnerIsAcceptedAlways`: `Spec => []OwnerIsAccepted`.
* `TypesHold`: `Spec => []TypeOK`.

`IndInv` adds to them that metadata which calls the work tree clean names the
commit the row is of (`CleanMeansCommitted`), whichever checkout recorded it, and
that nothing has changed since the last command if nothing has happened
(`SettledMeta`). The argument is in `NoCandidateIsCurrent`: a file that is no
candidate was clean when it was recorded and is clean now, and the two commits
agree on it; so the row is right even if it was read in another checkout.

`IndexStoreProofs` proves, for any number of commands, files, snapshots and
faults of any kind:

* `TypesHold`: `Spec => []TypeOK`.
* `AlwaysWhole`: `Spec => []WholeUnlessExposed`.
* `SuccessIsInstalled`: `Spec => []SuccessInstalls`.
* `ErrorsLeaveNothing`: `Spec => []NothingLeftBehind`.

* `Refinement`: `Spec => ImplementsAtomicIndex`.

`IndInv` has three parts. `Shape` is the types and what a child may be where its command is.
`Quiet` says that until an orphan has overlapped another command there is at most
one child at work (`OneChild`), its journal has the old value of every row it has
changed (`ChildRestores`), what it has still to change is what differs from its
target (`ChildAdvances`), what was installed is there (`Installed`), and the
file with its journal played back is a whole snapshot (`StoredIsWhole`).
`NobodyCut` says that before the first kill there are no orphans. The argument
for the mixture is that file and journal together never change until the commit
deletes the journal, and then the file alone is the target; a kill at any point
leaves both. The refinement follows from the same invariant: `Appears` lists the
six ways one step of one command can look from outside, `CalmStep` finds the
right one for each action.

`FreshnessProofs` proves, for any number of files, commits, contents and user
actions:

* `TypesHold`: `Spec => []TypeOK`.
* `UpdatesAreExact`: `Spec => []UndisturbedIsExact`.
* `RecordsDescribeRows`: `Spec => []MetaDescribesRows`.
* `NotStaleIsTrue`: `Spec => []NotStaleIsExact`.

All but the first assume `RootIsTop`, that the root is the top level of the work
tree: run `freshness_subdir` shows that they do not hold otherwise. The work of
init is among the steps, so the record of an index need not describe its rows:
`InitHasNoRows` says that beside such a record there are none. The invariant
follows a command through its phases: what is no candidate is as it should be
before anything is read (`OthersCurrent`), candidates are read as they are
(`CandidatesCurrent`), so the result is that of a rebuild (`NextIsExpected`) and
is recorded as what it is (`RecordIsTrue`). The step that matters is the first:
a file is no candidate if it is clean now, was clean or has the same hash in the
record, and is the same in both commits, hence its row, which the record
describes, is right.

`InitConfigProofs` proves, for any number of inits, configurations and faults,
`TypesHold`, `IndexStays` (`IndexIsKept`), `ConfigStays` (`ConfigIsKept`) and
`AllOrNothing` (`UndisturbedIsAllOrNothing`: configuration and index once the
report is due, printed or not, the old configuration after a failure before).
Who makes an index holds the lock
(`MakersHoldLock`), who has read a configuration knows what to restore
(`KnowsPrevious`), and the file is what an undisturbed init thinks it is
(`FileAsExpected`).

`OperationLogProofs` proves, for any number of commands, runs, faults and rows
kept:

* `TypesHold`: `Spec => []TypeOK`.
* `RunsAlwaysStay`: `Spec => []RunsStay`.
* `StatusIsAlwaysTrue`: `Spec => []StatusIsTrue`.
* `LogsNeverHasGaps`: `Spec => []LogsHasNoGaps`.
* `IdsAlwaysGrow`: `Spec => IdsGrow`.

The draft of the writer is the table, or the table with one newer row, or that
with its oldest row gone; what is recorded and not in the table is older than
what is. `StatusIsTrue` says of a failed init or rebuild that it left the index
alone, unless printing was all that failed, and nothing of a failed update. That a finite set of rows has a newest and an oldest one is proved from
the well-foundedness of strict inclusion (`Topmost`).

`QueriesProofs` begins with the tables, under commands and queries. For any files,
contents, encodings, fallbacks and user actions it proves:

* `TablesAlwaysAgree`: `Spec => []TablesAgree`.
* `TextsAreFaithful`: `Spec => []TextIsFaithful`.
* `IconvNeverChanges`: `Spec => []IconvOnlyAdds`.
* `QuietCommandsAreExact`: `Spec => []QuietCommandIsExact`.
* `RowTypesHold`: `Spec => []RowTypeOK`.

The invariant (`RowsInv`) says of the transaction of a running command what is
claimed of the index: its tables agree and every file was read by `Decode`.
`DeleteAgrees` goes through the five deletes and needs their order, since lines
are found by the id of their file; `InsertAgrees` through the inserts and needs
only what the keys admit, so that it does not matter that ids are given out
again. That a file is read with iconv as it was without is `IconvAdds`: the first
fallback that is tried is the smallest index that is not invalid
(`SmallestIndex`), and installing iconv makes none valid before it, since one that
could not be tried would have ended the search.

For commands that nobody disturbed, `FilesInv` adds the types of what update has
loaded (`Loaded`), and `ExactInv` follows the walk: a path that is to be scanned
is either seen or still on the list (`ScannedSoFar`); the files of the
transaction are those that were there and those seen, and each row is of its
content in the work tree or one update has not come to (`RowsSoFar`); rows were
read with iconv as it is now unless iconv has moved since (`Current`). At the end
of the list these meet: what was there and was not seen is removed, and the rest
is what a scan of the work tree gives (`ExactRows`). That a row with the same hash
is left alone is right for that reason only, since `Decode` of the same content
with the same iconv is the same.

Then come the queries, for any files, contents, arguments, page sizes, limits and
interleavings of queries with commands and the user:

* `QuietAnswersAreExact`: `Spec => []QuietAnswerIsExact`.
* `ShowTellsTruth`: `Spec => []ShowIsTrue`.
* `ExplanationsAreTrue`: `Spec => []ExplanationIsTrue`.
* `TypesHold`: `Spec => []TypeOK`.

They begin with ranks. In a finite set with an order (`Orders`) ranks are
different for different elements (`RankIsOrder`), and no number below the size of
the set is left out (`RanksAreDense`), which is the one place where a sorted
sequence would have been needed. Hence a page that is not full is the last
(`LastPage`), a candidate's rank among the candidates is what the pages before
it contribute (`RankInSegment`), and cutting after each page what is above the
limit is the same as cutting once (`FirstFew`). `RefsInv` says, while `indexes`
has one member, that the definitions are those of this index and the candidates
the first `Limit` of those among the rows before `offset`; `PageRead` and
`AnswerRead` are its step and its end. It says nothing of a query that has seen
two indexes, rightly (run `refs_snapshot`).

For show and files, `AnswerInv` has the types of the answer at each label and
`RightInv` what is true of it while the index rests: `ShowRight` and
`ExplainRight` say for each label what the calls that are still to come may
rely on. `IndexAtRest` turns `ExactInv` into the form they need: the rows are the
scans of the work tree. `BestOf` shows that the order of the matches has a first
one, `SharpIsBest` that for an argument that is clean and sharp the pattern
of `show.sql` picks the same. While nothing happens to the files (`RestLasts`), the later calls see what
the earlier saw.

`IndexedTextProofs` proves, for texts and bytes of any length:

* `EncodingsAgree`: `Misread = {} /\ MisreadBytes = {}`.
* `WideTextsAreRead`: `Spec => []WideTextIsRead`, which it gives at once.
* `LinesAreCounted`: on every ordinary sequence of tokens, of any length,
  `ComputeFileMetrics(SplitLines(text))` is what the reader counts.
* `TextsAreCounted`: `Spec => []TextIsCounted`, which it gives at once.

`LinesAreCounted` excludes texts that are not ordinary, as it must
(`QueriesOpeners.cfg`). The module assumes of the constants that the bytes are bytes, that the texts are sequences of
code points without surrogates (`UnicodeAssumption`) and that the passages are
sequences of tokens (`PassagesOk`). The induction is one over
numbers, and by hand: a set of numbers that has 0 and the successor of each of its
members is `Nat` (`Counting`, again from the well-foundedness of strict inclusion).
With it the recursive functions are what their definitions say (`EncodedIs`,
`RunesAre`). One unit is two bytes and back (`EncodedUnit`, `DecodedUnit`), a code
point beyond the first plane is a pair and back (`PairOfUnit`, `UnitOfPair`). For
UTF-16 the bytes from the unit i on are then those of the text from some code point
on, counted from the end, in both directions (`ReadBack16`, `BytesBack16`); in
UTF-32 every code point has its four bytes (`EncodedAt32`). That a mark is not taken
for another needs the order of `Candidates` for UTF-32LE only, and that the text is
not ambiguous for UTF-16LE (`MarkFound`).

For the lines there are three functions on the side of the code, each over what the
one before it makes: line breaks are replaced, the text is split, the lines are
counted. On the other side the reader makes one pass. `InStep` is the invariant of
the induction over the tokens: as long as the text is ordinary, the counts are those of
the lines that are complete, and `ReadLine` says what the state tells of the line
that is not: whether it is blank, what it begins with, and whether a block is open
in it, both where the line began in a block (`ReadInBlock`) and where it did not
(`ReadInCode`). `TokenInStep` and `BreakInStep` keep it. At the end of a line what
`isCommentOnlyLine` finds in the trimmed line is what the reader has seen
(`LineEnds`, from `TrimmedIs`). `Kept` relates a pass that is under way to what it
ends with: feeds stay as they are, and so do all lines but the last.

Checked by TLC only:

* liveness (`EveryCommandEnds` of the lock and of the log, `StaleReclaimed`,
  `EverythingEnds`), which the prover does not handle;
* that `unicodeBOM` and the lines of a text are as `Decoding` and `FileRows` take
  them: each kind of contents there carries its lines as a value.

## Not modelled

Symbol extraction is walks over syntax trees of a parser library and regular
expressions, one language at a time: what it is right about is the grammar of
each language. The text output of show and the queries that are one call of
`sqlite3` (files without `--explain`, defs, outline, stats, metrics, search),
configuration lookup and TOML decoding, dispatch and output are sequential
formatting around one call. What queries do to the lock is in `IndexLock`, what
they see in `IndexStore`.

Abstracted in what is modelled: the text of the lock file other than its pid;
the contents of rows (one value per file); WAL files, which mzci never creates;
size limits, ignored directories and binary extensions of the walk, which
choose files and do not change with time; two commands of a user at once in
`Freshness`, which the lock excludes.

## Plan

1. Lock, with its proof of exclusion (done).
2. Store: refinement of `AtomicIndex`, proofs of it and of the invariants (done).
3. Freshness, with proofs (done).
4. init, with proofs (done).
5. Ownership, with proofs (done).
6. Decoding, tables, references, with proofs of `TablesAgree`, `TextIsFaithful` and
   `IconvOnlyAdds`, `QuietCommandIsExact` and the types (done).
7. `OperationLog`, with proofs (done).
8. `Unicode`, `SourceLines`, `Queries` (done), with proofs of `QuietAnswerIsExact`,
   `ShowIsTrue`, `ExplanationIsTrue`, the types, `WideTextIsRead` and
   `TextIsCounted` (done).
9. The branch that is recorded and the counts that status prints.
