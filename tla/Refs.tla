-------------------------------- MODULE Refs --------------------------------
(***************************************************************************)
(* mzci refs NAME (src/cmd_refs.go) beside the commands of FileRows.       *)
(*                                                                         *)
(* refs asks for the definitions in one call of sqlite3 and then for the   *)
(* lines, page by page, in a call each.  Nothing holds the index still     *)
(* between the calls.                                                      *)
(*                                                                         *)
(* A line is "def" (it defines the name), "use" (the name occurs in it as  *)
(* an identifier), "part" (it occurs inside a longer one only) or "other". *)
(***************************************************************************)
EXTENDS FileRows

CONSTANTS
    PageSize,   \* batchSize
    Limit       \* --limit

ASSUME RefsAssumption == PageSize \in Nat \ {0} /\ Limit \in Nat \ {0}

VARIABLES
    pc,         \* "idle", "page" or "done"; other queries have more (Queries)
    definitions,\* path and line of each definition
    offset,     \* rows skipped so far
    found,      \* candidates so far, each with the offset of its page
    indexes     \* history: contents of the database since the query began

query == <<pc, definitions, offset, found, indexes>>

NoRefs ==
    /\ definitions' = {} /\ offset' = 0
    /\ found' = {} /\ indexes' = {}

-----------------------------------------------------------------------------
(* What the calls of sqlite3 return.                                         *)

\* select ... from symbols where name = NAME
DefinitionRows(t) == {[path |-> s.path, line |-> s.line] : s \in t.symbols}

\* select ... from lines join files ... where instr(...)
MatchingRows(t) ==
    {[path |-> t.files[k[1]].path, line |-> k[2], text |-> t.lines[k]] :
        k \in {l \in DOMAIN t.lines : /\ l[1] \in Ids(t)
                                      /\ t.lines[l] # "other"}}

\* order by path, line; and in an answer, page by page.
Earlier(a, b) == a.path < b.path \/ (a.path = b.path /\ a.line < b.line)
Before(a, b) == a.at < b.at \/ (a.at = b.at /\ Earlier(a.row, b.row))

\* How many rows come before one.
Rank(row, rows) == Cardinality({r \in rows : Earlier(r, row)})

\* ... limit PageSize offset start
Page(t, start) ==
    LET rows == MatchingRows(t)
    IN  {r \in rows : start <= Rank(r, rows) /\ Rank(r, rows) < start + PageSize}

-----------------------------------------------------------------------------
(* The command.                                                              *)

\* loadExactDefinitions
AskDefinitions ==
    /\ pc = "idle" /\ db # NoTables
    /\ pc' = "page"
    /\ definitions' = DefinitionRows(db)
    /\ offset' = 0
    /\ found' = {}
    /\ indexes' = {db}
    /\ UNCHANGED rowVars

\* containsIdentifier, and no definition on the line
IsCandidate(row) ==
    /\ row.text \in {"def", "use"}
    /\ [path |-> row.path, line |-> row.line] \notin definitions

\* Mutant of FirstOf: one too many.
FirstAndNext(all) == {c \in all : Cardinality({d \in all : Before(d, c)}) <= Limit}

\* Candidates are appended until there are Limit.
FirstOf(all) == {c \in all : Cardinality({d \in all : Before(d, c)}) < Limit}

\* Mutant of Complete: a page with few candidates is taken for the last one.
CompleteWhenFew(all, raw) ==
    Cardinality(all) >= Limit \/ Cardinality({r \in raw : IsCandidate(r)}) < PageSize

\* Enough candidates, or no more rows.
Complete(all, raw) == Cardinality(all) >= Limit \/ Cardinality(raw) < PageSize

\* One turn of the loop of loadReferenceCandidates.
AskPage ==
    /\ pc = "page"
    /\ LET raw == Page(db, offset)
           all == found \cup {[at |-> offset, row |-> r] : r \in {q \in raw : IsCandidate(q)}}
       IN  /\ found' = FirstOf(all)
           /\ pc' = IF Complete(all, raw) THEN "done" ELSE "page"
    /\ offset' = offset + PageSize
    /\ UNCHANGED <<rowVars, definitions, indexes>>

Answer == pc = "done" /\ pc' = "idle" /\ NoRefs /\ UNCHANGED rowVars

RefsInit == definitions = {} /\ offset = 0 /\ found = {}

RefsNext == AskDefinitions \/ AskPage \/ Answer

-----------------------------------------------------------------------------
(* Properties.                                                               *)

(* Every variable has its type, and an answer has no more than Limit lines.  *)
RefsTypeOK ==
    /\ offset \in Nat /\ Cardinality(found) <= Limit
    /\ \A c \in found : c.at < offset
    /\ \A r \in definitions \cup {c.row : c \in found} :
          r.path \in Paths /\ r.line \in Nat \ {0}
    /\ \A t \in indexes : IsTables(t)

\* The answer that the index t calls for.
AnswerOf(t) ==
    LET uses == {r \in MatchingRows(t) : r.text = "use"}
    IN  {r \in uses : Rank(r, uses) < Limit}

\* The answer in the order of its rows, each once.
Answers(t) ==
    /\ {c.row : c \in found} = AnswerOf(t)
    /\ \A c, d \in found : Before(c, d) <=> Earlier(c.row, d.row)
    /\ \A c, d \in found : c.row = d.row => c = d

(* An answer made while the index stayed as it was is the answer that the    *)
(* index calls for: the first Limit lines that use the name and do not       *)
(* define it, in order of path and line, none lost or repeated where pages   *)
(* meet.                                                                     *)
QuietAnswerIsExact ==
    pc = "done" /\ Cardinality(indexes) = 1 => \A t \in indexes : Answers(t)

(* docs/COMMANDS/refs.md:78: the result is a snapshot of the index.  It is  *)
(* not, if a command commits between two pages.                              *)
AnswerIsSnapshot ==
    pc = "done" => \E t \in indexes : Answers(t)
=============================================================================
