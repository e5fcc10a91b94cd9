------------------------------ MODULE Ownership ------------------------------
(***************************************************************************)
(* Which checkout an index belongs to, and with which settings it was made *)
(* (the checks of src/cmd_build.go and src/cmd_status.go, the meta table of *)
(* src/db.go).                                                             *)
(*                                                                         *)
(* One database is shared by several checkouts, through --db, or by one    *)
(* path after another.  A command runs as one step: IndexLock, IndexStore  *)
(* and Freshness are about what happens within.  Every checkout has one    *)
(* tracked file; update decides about each file by itself.                 *)
(***************************************************************************)
EXTENDS FiniteSets

CONSTANTS
    Roots,      \* checkouts, by their root paths
    Revs,       \* commits
    TreeOf,     \* content of the file in each commit
    Blobs,      \* contents of the file
    Settings,   \* schema, file source, hash, size limit, ignored directories
                \* and encoding fallbacks together
    Default,    \* the settings that init writes
    NoRev,      \* no commit: an unborn branch, or no entry in meta
    Nothing     \* no index, no row, no checkout

Metas == [root : Roots, rev : Revs \cup {NoRev}, dirty : BOOLEAN,
          settings : Settings, fts : BOOLEAN]
Rows == [blob : Blobs, settings : Settings]

ASSUME OwnershipAssumption ==
    /\ TreeOf \in [Revs -> Blobs]
    /\ Default \in Settings
    /\ NoRev \notin Revs
    /\ Nothing \notin Roots \cup Metas \cup Rows

VARIABLES
    head,       \* commit each checkout is at
    objects,    \* commits whose objects its repository has
    content,    \* its file, as it is in the work tree
    settings,   \* what its configuration and the tool it runs say
    fts5,       \* does the sqlite3 command have FTS5?
    meta,       \* the meta table, or Nothing where there is no index
    row,        \* content and settings of the indexed file, or Nothing
    settled     \* history: the checkout whose successful command was the
                \* last thing to happen, or Nothing

user == <<head, objects, content, settings, fts5>>
vars == <<user, meta, row, settled>>

(* Every variable has its type; a checkout has the commit it is at; an entry *)
(* of meta is a value the program could have written, or is not there.       *)
TypeOK ==
    /\ head \in [Roots -> Revs \cup {NoRev}]
    /\ objects \in [Roots -> SUBSET Revs]
    /\ \A c \in Roots : head[c] \in objects[c] \cup {NoRev}
    /\ content \in [Roots -> Blobs]
    /\ settings \in [Roots -> Settings]
    /\ fts5 \in BOOLEAN
    /\ meta \in Metas \cup {Nothing}
    /\ row \in Rows \cup {Nothing}
    /\ settled \in Roots \cup {Nothing}

Init ==
    /\ head \in [Roots -> Revs \cup {NoRev}]
    /\ objects = [c \in Roots |-> {head[c]} \ {NoRev}]
    /\ content \in [Roots -> Blobs]
    /\ settings \in [Roots -> Settings]
    /\ fts5 \in BOOLEAN
    /\ meta = Nothing /\ row = Nothing /\ settled = Nothing

-----------------------------------------------------------------------------
(* The user.                                                                 *)

Acts == settled' = Nothing /\ UNCHANGED <<meta, row>>

Edit(c) ==
    /\ Acts
    /\ \E b \in Blobs \ {content[c]} : content' = [content EXCEPT ![c] = b]
    /\ UNCHANGED <<head, objects, settings, fts5>>

Commit(c) ==
    /\ Acts
    /\ \E r \in Revs \ {head[c]} :
          /\ TreeOf[r] = content[c]
          /\ head' = [head EXCEPT ![c] = r]
          /\ objects' = [objects EXCEPT ![c] = @ \cup {r}]
    /\ UNCHANGED <<content, settings, fts5>>

Checkout(c) ==
    /\ Acts
    /\ \E r \in objects[c] :
          /\ head' = [head EXCEPT ![c] = r]
          /\ content' = [content EXCEPT ![c] = TreeOf[r]]
    /\ UNCHANGED <<objects, settings, fts5>>

Fetch(c, d) ==
    /\ Acts
    /\ objects' = [objects EXCEPT ![c] = @ \cup objects[d]]
    /\ UNCHANGED <<head, content, settings, fts5>>

\* git gc after a rewrite of history
Prune(c) ==
    /\ Acts
    /\ objects' = [objects EXCEPT ![c] = @ \cap {head[c]}]
    /\ UNCHANGED <<head, content, settings, fts5>>

Reconfigure(c) ==
    /\ Acts
    /\ \E g \in Settings \ {settings[c]} :
          settings' = [settings EXCEPT ![c] = g]
    /\ UNCHANGED <<head, objects, content, fts5>>

ReplaceSqlite ==
    /\ Acts
    /\ fts5' = ~fts5
    /\ UNCHANGED <<head, objects, content, settings>>

-----------------------------------------------------------------------------
(* What the commands look at.                                                *)

IsDirty(c) == head[c] = NoRev \/ content[c] # TreeOf[head[c]]

\* checkUpdateCompatibility of checkout c, told of FTS5 by its caller.
RebuildRequired(c, fts) == meta.settings # settings[c] \/ meta.fts # fts

OtherCheckout(c)  == meta.root # c
UnknownHistory(c) == meta.rev # NoRev /\ meta.rev \notin objects[c]
RequiresAdopt(c)  == OtherCheckout(c) \/ UnknownHistory(c)

Compatible(c, fts) == ~RebuildRequired(c, fts) /\ ~RequiresAdopt(c)

\* Mutant of Accepted: --adopt lets every index pass.
AcceptedAnyway(c, adopt) ==
    adopt \/ Compatible(c, meta.fts)

\* validateUpdateCompatibility.  runUpdate asks the database for its FTS5
\* tables, which are there just when meta says so.
Accepted(c, adopt) ==
    \/ Compatible(c, meta.fts)
    \/ adopt /\ ~RebuildRequired(c, meta.fts)

\* Mutant of WalksAll: that the work tree was dirty is forgotten.
WalksAllWhenUnknown(c) ==
    \/ row = Nothing
    \/ meta.rev = NoRev
    \/ head[c] = NoRev
    \/ meta.rev # head[c] /\ meta.rev \notin objects[c]

\* updateCandidatePaths: no candidates, but all files?
WalksAll(c) ==
    \/ row = Nothing
    \/ meta.dirty \/ meta.rev = NoRev
    \/ head[c] = NoRev
    \/ meta.rev # head[c] /\ meta.rev \notin objects[c]

IsCandidate(c) ==
    \/ WalksAll(c)
    \/ IsDirty(c)
    \/ TreeOf[meta.rev] # TreeOf[head[c]]

-----------------------------------------------------------------------------
(* The commands.                                                             *)

\* Mutant of Recorded: an entry that has no new value is not written, and the
\* root is taken for one.
RecordedKeepingRoot(c, old, fts) ==
    [root |-> IF old = Nothing THEN c ELSE old.root,
     rev |-> IF head[c] = NoRev /\ old # Nothing THEN old.rev ELSE head[c],
     dirty |-> IsDirty(c), settings |-> settings[c], fts |-> fts]

\* Mutant of Recorded: an entry without a value is written all the same.
RecordedEmpty(c, old, fts) ==
    [root |-> c,
     rev |-> IF head[c] = NoRev THEN Nothing ELSE head[c],
     dirty |-> IsDirty(c), settings |-> settings[c], fts |-> fts]

\* writeOperationMetaSQL over the entries that are there.  An empty value is
\* not written: on an unborn branch the commit of an earlier command stays.
Recorded(c, old, fts) ==
    [root |-> c,
     rev |-> IF head[c] = NoRev /\ old # Nothing THEN old.rev ELSE head[c],
     dirty |-> IsDirty(c),
     settings |-> settings[c],
     fts |-> fts]

\* init: the default settings for the project, and an empty index if there is
\* none.
InitProject(c) ==
    /\ settings' = [settings EXCEPT ![c] = Default]
    /\ IF meta = Nothing
       THEN meta' = [Recorded(c, Nothing, fts5) EXCEPT !.settings = Default]
       ELSE UNCHANGED meta
    /\ settled' = Nothing
    /\ UNCHANGED <<head, objects, content, fts5, row>>

Rebuild(c) ==
    /\ meta' = Recorded(c, Nothing, fts5)
    /\ row' = [blob |-> content[c], settings |-> settings[c]]
    /\ settled' = c
    /\ UNCHANGED user

\* A row whose hash is the same stays as it is.
Update(c, adopt) ==
    /\ meta # Nothing /\ Accepted(c, adopt)
    /\ LET rewrites == IsCandidate(c) /\ (row = Nothing \/ row.blob # content[c])
       IN  /\ rewrites /\ meta.fts => fts5     \* else sqlite3 fails
           /\ row' = IF rewrites
                     THEN [blob |-> content[c], settings |-> settings[c]]
                     ELSE row
    /\ meta' = Recorded(c, meta, meta.fts)
    /\ settled' = c
    /\ UNCHANGED user

Next ==
    \/ \E c \in Roots :
          \/ Edit(c) \/ Commit(c) \/ Checkout(c) \/ Prune(c) \/ Reconfigure(c)
          \/ \E d \in Roots \ {c} : Fetch(c, d)
          \/ InitProject(c) \/ Rebuild(c)
          \/ \E adopt \in BOOLEAN : Update(c, adopt)
    \/ ReplaceSqlite

Spec == Init /\ [][Next]_vars

-----------------------------------------------------------------------------
(* Properties.                                                               *)

(* An index is of one make: its rows were made with the settings that meta   *)
(* records, through any sequence of changes of configuration, adoptions and  *)
(* updates.  update keeps rows whose hash has not changed, so nothing but    *)
(* the refusal of other settings protects them.                              *)
OneMake == row # Nothing => row.settings = meta.settings

(* Whoever runs a command has the index of its own checkout afterwards, even *)
(* if it adopted the index of another one and read candidates only.          *)
OwnContent == settled # Nothing => row # Nothing /\ row.blob = content[settled]

(* A checkout that has run a command successfully may go on updating: the    *)
(* next update is accepted without --adopt, if the checkout has a commit.    *)
OwnerIsAccepted ==
    settled # Nothing /\ head[settled] # NoRev => Accepted(settled, FALSE)

(* docs/COMMANDS/update.md:17: --adopt permits an index of unknown history   *)
(* to become owned by this checkout.  On an unborn branch it does not: the   *)
(* unknown commit stays in meta.                                             *)
AdoptionLasts == settled # Nothing => Accepted(settled, FALSE)

(* README.md:227: status reports whether update can safely proceed.  It      *)
(* reports what sqlite3 can do, update asks what the database has.           *)
StatusIsRight ==
    meta # Nothing => \A c \in Roots :
        Compatible(c, fts5) <=> Accepted(c, FALSE)
=============================================================================
