-------------------------------- MODULE Queries --------------------------------
(***************************************************************************)
(* The queries beside the commands that write the index: refs (Refs), and  *)
(* the two that look for a file, show and files --explain                  *)
(* (src/cmd_query.go), in JSON.                                            *)
(*                                                                         *)
(* show asks sqlite3 for the file, and in a call of its own for its lines,  *)
(* by another pattern.  Both commands tell why they found nothing, from     *)
(* the work tree and Git, which need not be as they were when the index     *)
(* was made.  The queries in text, outline, defs, stats and metrics are one *)
(* call of sqlite3 and see one index.                                      *)
(*                                                                         *)
(* An argument is one of Paths or another text; what it matches is given    *)
(* by constants.  Each command hands it on in two forms: as it is (show     *)
(* without the slash it begins with), and cleaned, so that ./b.go is b.go.  *)
(***************************************************************************)
EXTENDS Refs

NoPath == 0

CONSTANTS
    Requests,   \* arguments, numbers too; those of Paths are exact
    Unslashed,  \* each of them without a slash that it begins with,
    Cleaned,    \* and as filepath.Clean makes it, without ./
    Outside,    \* absolute ones, ".", and those that begin with ../ then
    Statuses,   \* values of files --status
    Holding,    \* for each argument, the paths it occurs in,
    EndsIn,     \* the paths that end in it,
    Under,      \* and those that end in it after a slash
    PathLength, \* length of each path
    Line,       \* --line of show
    Context     \* --context of show

ASSUME QueryAssumption ==
    /\ Unslashed \in [Requests -> Requests] /\ Cleaned \in [Requests -> Requests]
    /\ \A r \in Requests \cap Paths : Cleaned[r] = r
    /\ \A r \in Outside \cap Requests : Cleaned[r] \notin Paths
    /\ Holding \in [Requests -> SUBSET Paths]
    /\ EndsIn \in [Requests -> SUBSET Paths]
    /\ Under \in [Requests -> SUBSET Paths]
    /\ \A r \in Requests : Under[r] \subseteq EndsIn[r] /\ EndsIn[r] \subseteq Holding[r]
    /\ \A r \in Requests \cap Paths : r \in EndsIn[r] \ Under[r]
    /\ PathLength \in [Paths -> Nat]
    /\ Statuses \subseteq {"indexed", "skipped", "all"}
    /\ NoPath \notin Paths \cup Requests
    /\ Line \in Nat \ {0} /\ Context \in Nat

VARIABLES
    answer,     \* of show or files, as far as it is known
    rested      \* history: since a command that nobody disturbed and until now,
                \* have the files and iconv been as they were?

vars == <<rowVars, query, answer, rested>>

\* An answer of which no more is known than the question.
Asked(to, r, any) ==
    [to |-> to, request |-> r, path |-> NoPath, found |-> any,
     reason |-> "null", lines |-> <<>>]

NoAnswer == Asked("none", NoPath, FALSE)

\* The paths of a table, all or of a status.
Stored(t) == {t.files[i].path : i \in Ids(t)}
StatusOf(t, p) == (CHOOSE r \in Range(t.files) : r.path = p).as.status
WithStatus(t, s) == {p \in Stored(t) : s \in {"all", StatusOf(t, p)}}

\* order by case when path = r then 0 else 1 end, length(path)
Nearer(r, p, q) == q # r /\ (p = r \/ PathLength[p] < PathLength[q])

\* ... and then by path, limit 1
Best(r, matches) ==
    CHOOSE p \in matches : \A q \in matches \ {p} :
        Nearer(r, p, q) \/ (~Nearer(r, q, p) /\ p < q)

\* Mutant of Window: one line too few.
WindowBefore == Max({Line - Context, 1})..(Line + Context - 1)

Window == Max({Line - Context, 1})..(Line + Context)

\* select ... from lines ... where line between START and END: texts by number.
LinesOf(t, p) ==
    LET i == CHOOSE j \in Ids(t) : t.files[j].path = p
    IN  [n \in {m \in Window : <<i, m>> \in DOMAIN t.lines} |-> t.lines[<<i, n>>]]

-----------------------------------------------------------------------------

\* Mutant of Fitting: the argument is not cleaned.
FittingRaw(r) == {r} \cup Under[r]

\* The paths that an argument stands for, cleaned: whole names only.
Fitting(r) == {Cleaned[r]} \cup Under[Cleaned[r]]

\* The row that resolveIndexedPath asks for first.
Resolve(new) ==
    LET matches == Stored(db) \cap Fitting(new.request)
        p == Best(Cleaned[new.request], matches)
    IN  /\ indexes' = indexes \cup {db}
        /\ \/ matches = {} /\ pc' = "stat" /\ answer' = new
           \/ /\ matches # {} /\ StatusOf(db, p) = "skipped"
              /\ pc' = "told"
              /\ answer' = [new EXCEPT !.reason = "skipped",
                                       !.path = IF new.to = "show" THEN p ELSE NoPath]
           \/ /\ matches # {} /\ StatusOf(db, p) = "indexed"
              /\ IF new.to = "show"
                 THEN pc' = "lines" /\ answer' = [new EXCEPT !.path = p, !.found = TRUE]
                 ELSE pc' = "told" /\ answer' = new

\* show in JSON.
AskShow(r) ==
    /\ pc = "idle" /\ db # NoTables
    /\ Resolve(Asked("show", Unslashed[r], FALSE))
    /\ rested' = (exact /\ ~moved)
    /\ UNCHANGED <<rowVars, definitions, offset, found>>

\* show.sql, which has a pattern of its own: the argument, not cleaned, that
\* the path ends in, be it after a slash or not.  Of the equally short ones, any.
AskLines ==
    /\ pc = "lines"
    /\ LET r == answer.request
           matches == Stored(db) \cap (EndsIn[r])
           first == {p \in matches : \A q \in matches : ~Nearer(r, q, p)}
       IN  \/ matches = {} /\ UNCHANGED answer
           \/ \E p \in first : answer' = [answer EXCEPT !.lines = LinesOf(db, p)]
    /\ pc' = "told"
    /\ indexes' = indexes \cup {db}
    /\ UNCHANGED <<rowVars, definitions, offset, found, rested>>

\* files --explain: the search, and an explanation if it finds nothing.
AskFiles(r) ==
    /\ pc = "idle" /\ db # NoTables
    /\ \E s \in Statuses :
          LET any == WithStatus(db, s) \cap Holding[r] # {}
          IN  answer' = Asked("files", r, any) /\ pc' = (IF any THEN "told" ELSE "explain")
    /\ indexes' = {db}
    /\ rested' = (exact /\ ~moved)
    /\ UNCHANGED <<rowVars, definitions, offset, found>>

Explain ==
    /\ pc = "explain"
    /\ Resolve(answer)
    /\ UNCHANGED <<rowVars, definitions, offset, found, rested>>

\* What os.Stat found, and whether git ls-files --error-unmatch found it too.
Reason(r, stat, tracked) ==
    IF r \in Outside \/ stat = "error" THEN "unknown"
    ELSE IF stat = "nothing" THEN "missing"
    ELSE IF tracked THEN "excluded" ELSE "untracked"

\* A regular file that Git tracks.  Where there is none there may be nothing, a
\* directory, a link or a file that Git does not know; and there may be no
\* telling, if a file is taken for a directory, say.
IsFile(c) == c \in Paths /\ work[c] # Gone

\* The end of resolveIndexedPath, in an index with a root.
StatRequest ==
    /\ pc = "stat"
    /\ \E stat \in {"there", "nothing", "error"}, tracked \in BOOLEAN :
          /\ IsFile(Cleaned[answer.request]) => stat = "there" /\ tracked
          /\ answer' = [answer EXCEPT !.reason = Reason(answer.request, stat, tracked)]
    /\ pc' = "told"
    /\ UNCHANGED <<rowVars, definitions, offset, found, indexes, rested>>

Tell ==
    /\ pc = "told"
    /\ pc' = "idle" /\ answer' = NoAnswer /\ indexes' = {}
    /\ rested' = FALSE
    /\ UNCHANGED <<rowVars, definitions, offset, found>>

Init ==
    /\ RowInit /\ RefsInit
    /\ pc = "idle" /\ indexes = {} /\ answer = NoAnswer /\ rested = FALSE

\* The index changes under a query when a command commits.
RowStep ==
    /\ RowNext
    /\ indexes' = IF pc \in {"page", "lines", "explain"} THEN indexes \cup {db'}
                  ELSE indexes
    /\ rested' = (rested /\ exact' /\ ~moved')
    /\ UNCHANGED <<pc, definitions, offset, found, answer>>

Next ==
    \/ RowStep
    \/ RefsNext /\ UNCHANGED <<answer, rested>>
    \/ \E r \in Requests : AskShow(r) \/ AskFiles(r)
    \/ AskLines \/ Explain \/ StatRequest \/ Tell

Spec == Init /\ [][Next]_vars

-----------------------------------------------------------------------------
(* Properties.                                                               *)

(* Every variable has its type, and a query has seen an index.               *)
TypeOK ==
    /\ RowTypeOK /\ RefsTypeOK
    /\ pc \in {"idle", "page", "done", "stat", "lines", "explain", "told"}
    /\ pc = "idle" <=> indexes = {}
    /\ pc \in {"stat", "lines", "explain", "told"} <=> answer # NoAnswer
    /\ rested \in BOOLEAN
    /\ answer.request \in Requests \cup {NoPath}
    /\ answer.path \in Paths \cup {NoPath}
    /\ answer.reason \in
          {"null", "skipped", "missing", "untracked", "excluded", "unknown"}

AtRest == pc = "told" /\ rested

\* No path ends in the argument in the middle of a name, and of those that end
\* in it no two are equally long.
IsSharp(r) ==
    /\ EndsIn[r] = Under[r] \cup ({r} \cap Paths)
    /\ \A p, q \in Under[r] : PathLength[p] = PathLength[q] => p = q

\* Files that an index of now has, those of them that a cleaned argument names,
\* and the lines around the one asked for.
IndexedNow(p) == IsScanned(p) /\ Scanned(p).status = "indexed"
NamedBy(c) == {p \in Paths : p \in {c} \cup Under[c] /\ IsScanned(p)}
LinesNow(p) ==
    [n \in {m \in DOMAIN work[p].lines : Line - Context <= m /\ m <= Line + Context} |->
        work[p].lines[n]]

\* The reason of an answer is so of the files.
IsReason(r) ==
    /\ answer.reason = "skipped" => \E p \in NamedBy(Cleaned[r]) : ~IndexedNow(p)
    /\ answer.reason \notin {"null", "skipped"} =>
          /\ NamedBy(Cleaned[r]) = {}
          /\ r \in Outside => answer.reason = "unknown"
          /\ IsFile(Cleaned[r]) => answer.reason = "excluded"

(* Of files at rest show tells the truth, from the index alone.  The path it  *)
(* names is that of a file of the work tree whose name is what is asked for,  *)
(* cleaned, or ends in it, and the very one if that is indexed; or there is   *)
(* none, or it could not be decoded, and the reason given is so.  Its lines   *)
(* are those of a file that ends in the argument as it was given, or none.    *)
(* They are the named file's if the argument was clean and sharp.             *)
ShowIsTrue ==
    AtRest /\ answer.to = "show" =>
        LET r == answer.request
            p == answer.path
            all == NamedBy(Cleaned[r])
        IN  /\ answer.found =>
                  /\ p \in all /\ IndexedNow(p) /\ (Cleaned[r] \in all => p = Cleaned[r])
                  /\ r = Cleaned[r] /\ IsSharp(r) => answer.lines = LinesNow(p)
                  /\ \/ DOMAIN answer.lines = {}
                     \/ \E q \in EndsIn[r] : IndexedNow(q) /\ answer.lines = LinesNow(q)
            /\ ~answer.found => answer.reason # "null" /\ IsReason(r)

(* The same of files --explain for indexed files: nothing is found only if   *)
(* no path that holds the text is indexed, and the reason given is so.  There *)
(* is one, unless the text was not clean, and cleaned it names an indexed     *)
(* file.                                                                     *)
ExplanationIsTrue ==
    AtRest /\ answer.to = "files" /\ Statuses = {"indexed"} =>
        LET r == answer.request IN
        /\ answer.found <=> \E p \in Holding[r] : IndexedNow(p)
        /\ ~answer.found => IsReason(r)
        /\ ~answer.found /\ answer.reason = "null" =>
              r # Cleaned[r] /\ \E p \in NamedBy(Cleaned[r]) : IndexedNow(p)

(* docs/DESIGNS/navigation-diagnostics.md:59: the path that show names is    *)
(* that of the lines it prints.  It is not if another path ends in the text   *)
(* in the middle of a name and is shorter, though nothing moves; and there    *)
(* are no lines if the text is not clean.                                    *)
LinesAreOfPath ==
    pc = "told" /\ answer.found /\ answer.to = "show" /\ Cardinality(indexes) = 1 =>
        \A t \in indexes : answer.lines = LinesOf(t, answer.path)

(* docs/DESIGNS/navigation-diagnostics.md:30: without matches there is a     *)
(* reason.  There is none if --status leaves an indexed file out, or if an    *)
(* indexed file is asked for by a text that is not clean.                    *)
EmptyHasReason ==
    pc = "told" /\ answer.to = "files" /\ ~answer.found => answer.reason # "null"
==============================================================================
