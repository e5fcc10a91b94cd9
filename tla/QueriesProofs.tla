----------------------------- MODULE QueriesProofs -----------------------------
(***************************************************************************)
(* Proofs about FileRows, Refs and Queries, for any files, contents,        *)
(* fallbacks, requests and interleavings.  First the rows: the tables of   *)
(* an index agree, what is indexed as text has been read by the strongest  *)
(* evidence, with iconv or without, and a command that nothing disturbs    *)
(* writes what the files call for.  Then the queries: an answer of refs    *)
(* made of one index is the one that the index calls for, and of files at  *)
(* rest show and files --explain tell the truth.                           *)
(***************************************************************************)
EXTENDS Integers, FiniteSetTheorems, FunctionTheorems, WellFoundedInduction, Queries, TLAPS

\* A value with the five tables.
HasTables(t) ==
    t = [files |-> t.files, lines |-> t.lines, symbols |-> t.symbols,
         metrics |-> t.metrics, fts |-> t.fts]

-----------------------------------------------------------------------------
(* The statements.                                                           *)

\* u is what deleting the files of P leaves of t.
Deleted(t, P, u) ==
    /\ HasTables(u)
    /\ u.files = [i \in Ids(t) \ IdsOf(t, P) |-> t.files[i]]
    /\ u.lines = [k \in {l \in DOMAIN t.lines : l[1] \notin IdsOf(t, P)} |-> t.lines[k]]
    /\ u.symbols = {s \in t.symbols : s.path \notin P}
    /\ u.metrics = [i \in {j \in DOMAIN t.metrics : t.metrics[j].path \notin P} |->
                       t.metrics[i]]
    /\ u.fts = IF Fts THEN [r \in {q \in DOMAIN t.fts : q.path \notin P} |-> t.fts[r]]
               ELSE t.fts

LEMMA DeletedRows ==
    ASSUME NEW t, HasTables(t), NEW P, NEW u, u = DeleteRows(t, P)
    PROVE  Deleted(t, P, u)
<1>. DEFINE t1 == DeleteFts(t, P)
            t2 == DeleteLines(t1, P)
            t3 == DeleteSymbols(t2, P)
            t4 == DeleteMetrics(t3, P)
<1>1. /\ HasTables(t1) /\ t1.files = t.files /\ t1.lines = t.lines
      /\ t1.symbols = t.symbols /\ t1.metrics = t.metrics
      /\ t1.fts = IF Fts THEN [r \in {q \in DOMAIN t.fts : q.path \notin P} |-> t.fts[r]]
                  ELSE t.fts
  BY DEF DeleteFts, HasTables, RestrictDomain, Restrict
<1>2. /\ HasTables(t2) /\ t2.files = t1.files /\ t2.symbols = t1.symbols
      /\ t2.metrics = t1.metrics /\ t2.fts = t1.fts
      /\ t2.lines = [k \in {l \in DOMAIN t1.lines : l[1] \notin IdsOf(t1, P)} |-> t1.lines[k]]
  <2>. HIDE DEF t1
  <2>. QED  BY <1>1 DEF DeleteLines, HasTables, RestrictDomain, Restrict
<1>3. IdsOf(t1, P) = IdsOf(t, P) /\ Ids(t1) = Ids(t)
  BY <1>1 DEF IdsOf, Ids
<1>4. /\ HasTables(t3) /\ t3.files = t2.files /\ t3.lines = t2.lines
      /\ t3.metrics = t2.metrics /\ t3.fts = t2.fts
      /\ t3.symbols = {s \in t2.symbols : s.path \notin P}
  <2>. DEFINE symbols == {s \in t2.symbols : s.path \notin P}
  <2>1. t3 = [t2 EXCEPT !.symbols = symbols]
    BY DEF DeleteSymbols
  <2>. HIDE DEF t2, t3, symbols
  <2>2. /\ HasTables(t3) /\ t3.files = t2.files /\ t3.lines = t2.lines
        /\ t3.metrics = t2.metrics /\ t3.fts = t2.fts /\ t3.symbols = symbols
    BY <1>2, <2>1 DEF HasTables
  <2>. QED  BY <2>2 DEF symbols
<1>5. /\ HasTables(t4) /\ t4.files = t3.files /\ t4.lines = t3.lines
      /\ t4.symbols = t3.symbols /\ t4.fts = t3.fts
      /\ t4.metrics = [i \in {j \in DOMAIN t3.metrics : t3.metrics[j].path \notin P} |->
                          t3.metrics[i]]
  <2>. HIDE DEF t3
  <2>. QED  BY <1>4 DEF DeleteMetrics, HasTables, RestrictValues, Restrict
<1>7. u = DeleteFile(t4, P)
  BY DEF DeleteRows
<1>6. /\ HasTables(u) /\ u.lines = t4.lines /\ u.symbols = t4.symbols
      /\ u.metrics = t4.metrics /\ u.fts = t4.fts
      /\ u.files = [i \in {j \in DOMAIN t4.files : t4.files[j].path \notin P} |-> t4.files[i]]
  <2>. HIDE DEF t4
  <2>. QED  BY <1>5, <1>7 DEF DeleteFile, HasTables, RestrictValues, Restrict
<1>8. {j \in DOMAIN t.files : t.files[j].path \notin P} = Ids(t) \ IdsOf(t, P)
  BY DEF Ids, IdsOf
<1>. HIDE DEF t1, t2, t3, t4
<1>. QED  BY <1>1, <1>2, <1>3, <1>4, <1>5, <1>6, <1>8 DEF Deleted

\* u is t with the rows of a file.
Inserted(t, id, p, blob, as, u) ==
    /\ HasTables(u)
    /\ u.files = [i \in Ids(t) \cup {id} |->
                     IF i = id THEN [path |-> p, blob |-> blob, as |-> as] ELSE t.files[i]]
    /\ as.status # "indexed" =>
          /\ u.lines = t.lines /\ u.symbols = t.symbols
          /\ u.metrics = t.metrics /\ u.fts = t.fts
    /\ as.status = "indexed" =>
          /\ u.lines = [k \in DOMAIN t.lines \cup ({id} \X DOMAIN blob.lines) |->
                           IF k \in DOMAIN t.lines THEN t.lines[k] ELSE blob.lines[k[2]]]
          /\ u.symbols = t.symbols \cup
                 {[file |-> id, path |-> p, line |-> n] : n \in SymbolLines(blob)}
          /\ u.metrics = [i \in DOMAIN t.metrics \cup {id} |->
                            IF i = id THEN [path |-> p, count |-> Len(blob.lines)]
                            ELSE t.metrics[i]]
          /\ u.fts = IF Fts THEN t.fts (+) SetToBag({[path |-> p, blob |-> blob]}) ELSE t.fts

LEMMA InsertedRows ==
    ASSUME NEW t, HasTables(t), NEW id, NEW p, NEW blob, NEW as,
           Admits(t, id, p, blob, as), NEW u, u = InsertRows(t, id, p, blob, as)
    PROVE  Inserted(t, id, p, blob, as, u)
<1>. DEFINE row == [path |-> p, blob |-> blob, as |-> as]
            files == With(t.files, [i \in {id} |-> row])
            lines == With(t.lines, [k \in {id} \X DOMAIN blob.lines |-> blob.lines[k[2]]])
            metrics == With(t.metrics, [i \in {id} |-> [path |-> p,
                                                        count |-> Len(blob.lines)]])
            file == [t EXCEPT !.files = files]
<1>1. files = [i \in Ids(t) \cup {id} |-> IF i = id THEN row ELSE t.files[i]]
  <2>1. id \notin DOMAIN t.files
    BY DEF Admits, Ids
  <2>. HIDE DEF row
  <2>. QED  BY <2>1 DEF Ids, With
<1>2. lines = [k \in DOMAIN t.lines \cup ({id} \X DOMAIN blob.lines) |->
                  IF k \in DOMAIN t.lines THEN t.lines[k] ELSE blob.lines[k[2]]]
  BY DEF With
<1>3. as.status = "indexed" =>
        metrics = [i \in DOMAIN t.metrics \cup {id} |->
                      IF i = id THEN [path |-> p, count |-> Len(blob.lines)]
                      ELSE t.metrics[i]]
  BY DEF Admits, With
<1>4. /\ HasTables(file) /\ file.files = files /\ file.lines = t.lines
      /\ file.symbols = t.symbols /\ file.metrics = t.metrics /\ file.fts = t.fts
  <2>. HIDE DEF files
  <2>. QED  BY DEF HasTables
<1>5. u =
        IF as.status # "indexed" THEN file
        ELSE [file EXCEPT
                !.lines = lines,
                !.symbols = file.symbols \cup
                    {[file |-> id, path |-> p, line |-> n] : n \in SymbolLines(blob)},
                !.metrics = metrics,
                !.fts = IF Fts THEN file.fts (+) SetToBag({[path |-> p, blob |-> blob]})
                               ELSE file.fts]
  BY <1>4 DEF InsertRows
<1>. HIDE DEF file, files, lines, metrics
<1>6. CASE as.status # "indexed"
  BY <1>1, <1>4, <1>5, <1>6 DEF Inserted
<1>7. CASE as.status = "indexed"
  BY <1>1, <1>2, <1>3, <1>4, <1>5, <1>7 DEF HasTables, Inserted
<1>. QED  BY <1>6, <1>7

-----------------------------------------------------------------------------
(* The tables agree.                                                         *)

\* The parts of Agree.
IndexedIds(t) == {i \in Ids(t) : IsIndexed(t.files[i])}
KeysOf(t, i) == {i} \X DOMAIN t.files[i].blob.lines
LineKeys(t) == UNION {KeysOf(t, i) : i \in IndexedIds(t)}
RowsOf(t, i) ==
    {[file |-> i, path |-> t.files[i].path, line |-> n] : n \in SymbolLines(t.files[i].blob)}
SymbolRows(t) == UNION {RowsOf(t, i) : i \in IndexedIds(t)}
MetricRows(t) ==
    [i \in IndexedIds(t) |->
        [path |-> t.files[i].path, count |-> Len(t.files[i].blob.lines)]]
FtsKeys(t) == {[path |-> t.files[i].path, blob |-> t.files[i].blob] : i \in IndexedIds(t)}

LEMMA AgreeParts ==
    ASSUME NEW t
    PROVE  Agree(t) <=>
             /\ \A i, j \in Ids(t) : t.files[i].path = t.files[j].path => i = j
             /\ DOMAIN t.lines = LineKeys(t)
             /\ \A k \in DOMAIN t.lines : t.lines[k] = t.files[k[1]].blob.lines[k[2]]
             /\ t.symbols = SymbolRows(t)
             /\ t.metrics = MetricRows(t)
             /\ Fts => t.fts = [r \in FtsKeys(t) |-> 1]
BY DEF Agree, IndexedIds, KeysOf, LineKeys, RowsOf, SymbolRows, MetricRows, FtsKeys

LEMMA LineKey ==
    ASSUME NEW t, NEW k
    PROVE  /\ k \in LineKeys(t) <=> \E i \in IndexedIds(t) : k \in KeysOf(t, i)
           /\ \A i : k \in KeysOf(t, i) <=>
                         \E n \in DOMAIN t.files[i].blob.lines : k = <<i, n>>
BY DEF LineKeys, KeysOf

LEMMA SymbolRow ==
    ASSUME NEW t, NEW s
    PROVE  /\ s \in SymbolRows(t) <=> \E i \in IndexedIds(t) : s \in RowsOf(t, i)
           /\ \A i : s \in RowsOf(t, i) <=>
                         \E n \in SymbolLines(t.files[i].blob) :
                             s = [file |-> i, path |-> t.files[i].path, line |-> n]
BY DEF SymbolRows, RowsOf

LEMMA EmptyAgrees == HasTables(EmptyTables) /\ Agree(EmptyTables)
<1>1. HasTables(EmptyTables)
  BY DEF HasTables, EmptyTables
<1>2. Ids(EmptyTables) = {} /\ IndexedIds(EmptyTables) = {}
  BY DEF Ids, EmptyTables, IndexedIds
<1>3. DOMAIN EmptyTables.lines = {} /\ EmptyTables.symbols = {}
  BY DEF EmptyTables
<1>4. EmptyTables.metrics = [i \in {} |-> [path |-> EmptyTables.files[i].path,
                               count |-> Len(EmptyTables.files[i].blob.lines)]]
  BY DEF EmptyTables
<1>5. EmptyTables.fts = [r \in {} |-> 1]
  BY DEF EmptyTables, EmptyBag, SetToBag
<1>6. LineKeys(EmptyTables) = {} /\ SymbolRows(EmptyTables) = {} /\ FtsKeys(EmptyTables) = {}
  BY <1>2 DEF LineKeys, SymbolRows, FtsKeys
<1>. QED  BY <1>1, <1>2, <1>3, <1>4, <1>5, <1>6, AgreeParts DEF MetricRows

LEMMA DeleteAgrees ==
    ASSUME NEW t, HasTables(t), Agree(t), NEW P
    PROVE  HasTables(DeleteRows(t, P)) /\ Agree(DeleteRows(t, P))
<1>. DEFINE out == IdsOf(t, P)
<1>. SUFFICES ASSUME NEW u, u = DeleteRows(t, P) PROVE HasTables(u) /\ Agree(u)
  OBVIOUS
<1>1. /\ HasTables(u)
      /\ u.files = [i \in Ids(t) \ out |-> t.files[i]]
      /\ u.lines = [k \in {l \in DOMAIN t.lines : l[1] \notin out} |-> t.lines[k]]
      /\ u.symbols = {s \in t.symbols : s.path \notin P}
      /\ u.metrics = [i \in {j \in DOMAIN t.metrics : t.metrics[j].path \notin P} |->
                         t.metrics[i]]
      /\ Fts => u.fts = [r \in {q \in DOMAIN t.fts : q.path \notin P} |-> t.fts[r]]
  <2>1. Deleted(t, P, u)
    BY DeletedRows
  <2>. QED  BY <2>1 DEF Deleted
<1>2. /\ \A i, j \in Ids(t) : t.files[i].path = t.files[j].path => i = j
      /\ DOMAIN t.lines = LineKeys(t)
      /\ \A k \in DOMAIN t.lines : t.lines[k] = t.files[k[1]].blob.lines[k[2]]
      /\ t.symbols = SymbolRows(t)
      /\ t.metrics = MetricRows(t)
      /\ Fts => t.fts = [r \in FtsKeys(t) |-> 1]
  BY AgreeParts
<1>3. Ids(u) = Ids(t) \ out /\ \A i \in Ids(u) : u.files[i] = t.files[i]
  BY <1>1 DEF Ids
<1>4. IndexedIds(u) = IndexedIds(t) \ out
  BY <1>3 DEF IndexedIds
<1>5. \A i \in IndexedIds(t) : i \in out <=> t.files[i].path \in P
  BY DEF IndexedIds, IdsOf
<1>6. \A i \in IndexedIds(u) : i \in IndexedIds(t) /\ u.files[i] = t.files[i]
  BY <1>3, <1>4 DEF IndexedIds
<1>. HIDE DEF out
<1>7. DOMAIN u.lines = LineKeys(u)
  <2>1. ASSUME NEW k PROVE k \in DOMAIN u.lines <=> k \in LineKeys(u)
    <3>1. k \in DOMAIN u.lines <=> k \in LineKeys(t) /\ k[1] \notin out
      BY <1>1, <1>2
    <3>2. \A i : k \in KeysOf(t, i) => k[1] = i
      BY DEF KeysOf
    <3>3. k \in LineKeys(t) <=> \E i \in IndexedIds(t) : k \in KeysOf(t, i)
      BY LineKey
    <3>4. k \in LineKeys(u) <=> \E i \in IndexedIds(u) : k \in KeysOf(u, i)
      BY LineKey
    <3>5. \A i \in IndexedIds(u) : KeysOf(u, i) = KeysOf(t, i)
      BY <1>6 DEF KeysOf
    <3>. QED  BY <1>4, <3>1, <3>2, <3>3, <3>4, <3>5
  <2>. QED  BY <2>1
<1>8. \A k \in DOMAIN u.lines : u.lines[k] = u.files[k[1]].blob.lines[k[2]]
  <2>. TAKE k \in DOMAIN u.lines
  <2>1. k \in DOMAIN t.lines /\ u.lines[k] = t.lines[k]
    BY <1>1
  <2>2. k[1] \in IndexedIds(u)
    BY <1>7, LineKey
  <2>. QED  BY <1>2, <1>6, <2>1, <2>2
<1>9. u.symbols = SymbolRows(u)
  <2>1. ASSUME NEW s PROVE s \in u.symbols <=> s \in SymbolRows(u)
    <3>1. s \in u.symbols <=> s \in SymbolRows(t) /\ s.path \notin P
      BY <1>1, <1>2
    <3>2. \A i : s \in RowsOf(t, i) => s.path = t.files[i].path
      BY DEF RowsOf
    <3>3. s \in SymbolRows(t) <=> \E i \in IndexedIds(t) : s \in RowsOf(t, i)
      BY SymbolRow
    <3>4. s \in SymbolRows(u) <=> \E i \in IndexedIds(u) : s \in RowsOf(u, i)
      BY SymbolRow
    <3>5. \A i \in IndexedIds(u) : RowsOf(u, i) = RowsOf(t, i)
      BY <1>6 DEF RowsOf
    <3>. QED  BY <1>4, <1>5, <3>1, <3>2, <3>3, <3>4, <3>5
  <2>. QED  BY <2>1
<1>10. u.metrics = MetricRows(u)
  <2>1. {j \in DOMAIN t.metrics : t.metrics[j].path \notin P} = IndexedIds(u)
    BY <1>2, <1>4, <1>5 DEF MetricRows
  <2>2. u.metrics = [i \in IndexedIds(u) |-> t.metrics[i]]
    BY <1>1, <2>1
  <2>3. \A i \in IndexedIds(u) :
          t.metrics[i] = [path |-> u.files[i].path, count |-> Len(u.files[i].blob.lines)]
    BY <1>2, <1>6 DEF MetricRows
  <2>. QED  BY <2>2, <2>3 DEF MetricRows
<1>11. Fts => u.fts = [r \in FtsKeys(u) |-> 1]
  <2>. SUFFICES ASSUME Fts PROVE u.fts = [r \in FtsKeys(u) |-> 1]
    OBVIOUS
  <2>1. {q \in FtsKeys(t) : q.path \notin P} = FtsKeys(u)
    BY <1>4, <1>5, <1>6 DEF FtsKeys
  <2>. QED  BY <1>1, <1>2, <2>1
<1>12. \A i, j \in Ids(u) : u.files[i].path = u.files[j].path => i = j
  BY <1>2, <1>3
<1>13. Agree(u)
  BY <1>7, <1>8, <1>9, <1>10, <1>11, <1>12, AgreeParts
<1>. QED  BY <1>1, <1>13

LEMMA InsertAgrees ==
    ASSUME NEW t, HasTables(t), Agree(t), NEW id, NEW p, NEW blob, NEW as,
           Admits(t, id, p, blob, as)
    PROVE  /\ HasTables(InsertRows(t, id, p, blob, as))
           /\ Agree(InsertRows(t, id, p, blob, as))
<1>. SUFFICES ASSUME NEW u, u = InsertRows(t, id, p, blob, as)
              PROVE  HasTables(u) /\ Agree(u)
  OBVIOUS
<1>. DEFINE row == [path |-> p, blob |-> blob, as |-> as]
<1>1. Inserted(t, id, p, blob, as, u)
  BY InsertedRows
<1>2. /\ HasTables(u)
      /\ u.files = [i \in Ids(t) \cup {id} |-> IF i = id THEN row ELSE t.files[i]]
  BY <1>1 DEF Inserted
<1>3. /\ \A i, j \in Ids(t) : t.files[i].path = t.files[j].path => i = j
      /\ DOMAIN t.lines = LineKeys(t)
      /\ \A k \in DOMAIN t.lines : t.lines[k] = t.files[k[1]].blob.lines[k[2]]
      /\ t.symbols = SymbolRows(t)
      /\ t.metrics = MetricRows(t)
      /\ Fts => t.fts = [r \in FtsKeys(t) |-> 1]
  BY AgreeParts
<1>4. /\ id \notin Ids(t)
      /\ \A i \in Ids(t) : t.files[i].path # p
  BY DEF Admits, IdsOf
<1>5. /\ Ids(u) = Ids(t) \cup {id} /\ u.files[id] = row
      /\ \A i \in Ids(t) : u.files[i] = t.files[i]
  <2>. HIDE DEF row
  <2>. QED  BY <1>2, <1>4 DEF Ids
<1>10. u.files[id].path = p /\ u.files[id].blob = blob /\ u.files[id].as = as
  BY <1>5
<1>. HIDE DEF row
<1>6. \A i, j \in Ids(u) : u.files[i].path = u.files[j].path => i = j
  <2>. SUFFICES ASSUME NEW i \in Ids(u), NEW j \in Ids(u),
                       u.files[i].path = u.files[j].path
                PROVE  i = j
    OBVIOUS
  <2>1. CASE i = id /\ j # id
    BY <1>4, <1>5, <1>10, <2>1
  <2>2. CASE i # id /\ j = id
    BY <1>4, <1>5, <1>10, <2>2
  <2>3. CASE i # id /\ j # id
    <3>1. \A k, l \in Ids(t) : t.files[k].path = t.files[l].path => k = l
      BY <1>3
    <3>. QED  BY <1>5, <2>3, <3>1
  <2>. QED  BY <2>1, <2>2, <2>3
<1>7. \A i \in IndexedIds(t) : i \in Ids(t) /\ u.files[i] = t.files[i] /\ i # id
  BY <1>4, <1>5 DEF IndexedIds
<1>11. \A i \in IndexedIds(t) : KeysOf(u, i) = KeysOf(t, i) /\ RowsOf(u, i) = RowsOf(t, i)
  BY <1>7 DEF KeysOf, RowsOf
<1>8. CASE as.status # "indexed"
  <2>1. /\ u.lines = t.lines /\ u.symbols = t.symbols
        /\ u.metrics = t.metrics /\ u.fts = t.fts
    BY <1>1, <1>8 DEF Inserted
  <2>2. IndexedIds(u) = IndexedIds(t)
    BY <1>4, <1>5, <1>8, <1>10 DEF IndexedIds, IsIndexed
  <2>3. LineKeys(u) = LineKeys(t)
    <3>1. ASSUME NEW k PROVE k \in LineKeys(u) <=> k \in LineKeys(t)
      <4>1. k \in LineKeys(t) <=> \E i \in IndexedIds(t) : k \in KeysOf(t, i)
        BY LineKey
      <4>2. k \in LineKeys(u) <=> \E i \in IndexedIds(u) : k \in KeysOf(u, i)
        BY LineKey
      <4>. QED  BY <1>11, <2>2, <4>1, <4>2
    <3>. QED  BY <3>1
  <2>4. SymbolRows(u) = SymbolRows(t)
    <3>1. ASSUME NEW s PROVE s \in SymbolRows(u) <=> s \in SymbolRows(t)
      <4>1. s \in SymbolRows(t) <=> \E i \in IndexedIds(t) : s \in RowsOf(t, i)
        BY SymbolRow
      <4>2. s \in SymbolRows(u) <=> \E i \in IndexedIds(u) : s \in RowsOf(u, i)
        BY SymbolRow
      <4>. QED  BY <1>11, <2>2, <4>1, <4>2
    <3>. QED  BY <3>1
  <2>5. MetricRows(u) = MetricRows(t)
    BY <1>7, <2>2 DEF MetricRows
  <2>6. FtsKeys(u) = FtsKeys(t)
    BY <1>7, <2>2 DEF FtsKeys
  <2>7. \A k \in DOMAIN u.lines : u.lines[k] = u.files[k[1]].blob.lines[k[2]]
    <3>. TAKE k \in DOMAIN u.lines
    <3>1. k[1] \in IndexedIds(t)
      BY <1>3, <2>1, LineKey
    <3>. QED  BY <1>3, <1>7, <2>1, <3>1
  <2>. QED  BY <1>2, <1>3, <1>6, <2>1, <2>3, <2>4, <2>5, <2>6, <2>7, AgreeParts
<1>9. CASE as.status = "indexed"
  <2>1. u.lines = [k \in DOMAIN t.lines \cup ({id} \X DOMAIN blob.lines) |->
                      IF k \in DOMAIN t.lines THEN t.lines[k] ELSE blob.lines[k[2]]]
    BY <1>1, <1>9 DEF Inserted
  <2>2. u.symbols = t.symbols \cup
            {[file |-> id, path |-> p, line |-> n] : n \in SymbolLines(blob)}
    BY <1>1, <1>9 DEF Inserted
  <2>3. u.metrics = [i \in DOMAIN t.metrics \cup {id} |->
                       IF i = id THEN [path |-> p, count |-> Len(blob.lines)]
                       ELSE t.metrics[i]]
    BY <1>1, <1>9 DEF Inserted
  <2>4. Fts => u.fts = t.fts (+) SetToBag({[path |-> p, blob |-> blob]})
    BY <1>1, <1>9 DEF Inserted
  <2>5. IndexedIds(u) = IndexedIds(t) \cup {id}
    BY <1>4, <1>5, <1>9, <1>10 DEF IndexedIds, IsIndexed
  <2>7. DOMAIN u.lines = LineKeys(u)
    <3>1. ASSUME NEW k PROVE k \in DOMAIN u.lines <=> k \in LineKeys(u)
      <4>1. k \in DOMAIN u.lines <=> k \in LineKeys(t) \/ k \in {id} \X DOMAIN blob.lines
        BY <1>3, <2>1
      <4>2. k \in KeysOf(u, id) <=> k \in {id} \X DOMAIN blob.lines
        BY <1>10 DEF KeysOf
      <4>3. k \in LineKeys(t) <=> \E i \in IndexedIds(t) : k \in KeysOf(t, i)
        BY LineKey
      <4>4. k \in LineKeys(u) <=> \E i \in IndexedIds(u) : k \in KeysOf(u, i)
        BY LineKey
      <4>. QED  BY <1>11, <2>5, <4>1, <4>2, <4>3, <4>4
    <3>. QED  BY <3>1
  <2>8. \A k \in DOMAIN u.lines : u.lines[k] = u.files[k[1]].blob.lines[k[2]]
    <3>. TAKE k \in DOMAIN u.lines
    <3>1. CASE k \in DOMAIN t.lines
      <4>1. k[1] \in IndexedIds(t)
        BY <1>3, <3>1, LineKey
      <4>. QED  BY <1>3, <1>7, <2>1, <3>1, <4>1
    <3>2. CASE k \notin DOMAIN t.lines
      <4>1. k \in {id} \X DOMAIN blob.lines /\ u.lines[k] = blob.lines[k[2]]
        BY <2>1, <3>2
      <4>. QED  BY <1>10, <4>1
    <3>. QED  BY <3>1, <3>2
  <2>9. u.symbols = SymbolRows(u)
    <3>1. ASSUME NEW s PROVE s \in u.symbols <=> s \in SymbolRows(u)
      <4>1. s \in u.symbols <=>
              \/ s \in SymbolRows(t)
              \/ s \in {[file |-> id, path |-> p, line |-> n] : n \in SymbolLines(blob)}
        BY <1>3, <2>2
      <4>2. RowsOf(u, id) = {[file |-> id, path |-> p, line |-> n] : n \in SymbolLines(blob)}
        BY <1>10 DEF RowsOf
      <4>3. s \in SymbolRows(t) <=> \E i \in IndexedIds(t) : s \in RowsOf(t, i)
        BY SymbolRow
      <4>4. s \in SymbolRows(u) <=> \E i \in IndexedIds(u) : s \in RowsOf(u, i)
        BY SymbolRow
      <4>. QED  BY <1>11, <2>5, <4>1, <4>2, <4>3, <4>4
    <3>. QED  BY <3>1
  <2>10. u.metrics = MetricRows(u)
    <3>1. u.metrics = [i \in IndexedIds(u) |->
                         IF i = id THEN [path |-> p, count |-> Len(blob.lines)]
                         ELSE t.metrics[i]]
      BY <1>3, <2>3, <2>5 DEF MetricRows
    <3>2. \A i \in IndexedIds(u) :
            (IF i = id THEN [path |-> p, count |-> Len(blob.lines)] ELSE t.metrics[i]) =
            [path |-> u.files[i].path, count |-> Len(u.files[i].blob.lines)]
      <4>. TAKE i \in IndexedIds(u)
      <4>1. CASE i = id
        BY <1>10, <4>1
      <4>2. CASE i # id
        <5>1. i \in IndexedIds(t)
          BY <2>5, <4>2
        <5>2. t.metrics[i] = [path |-> t.files[i].path, count |-> Len(t.files[i].blob.lines)]
          BY <1>3, <5>1 DEF MetricRows
        <5>. QED  BY <1>7, <4>2, <5>1, <5>2
      <4>. QED  BY <4>1, <4>2
    <3>. QED  BY <3>1, <3>2 DEF MetricRows
  <2>11. Fts => u.fts = [r \in FtsKeys(u) |-> 1]
    <3>. SUFFICES ASSUME Fts PROVE u.fts = [r \in FtsKeys(u) |-> 1]
      OBVIOUS
    <3>. DEFINE new == [path |-> p, blob |-> blob]
    <3>1. new \notin FtsKeys(t)
      BY <1>4, <1>7 DEF FtsKeys
    <3>2. FtsKeys(u) = FtsKeys(t) \cup {new}
      BY <1>7, <1>10, <2>5 DEF FtsKeys
    <3>. HIDE DEF new
    <3>3. u.fts = t.fts (+) SetToBag({new})
      BY <2>4 DEF new
    <3>4. /\ u.fts = [r \in FtsKeys(t) \cup {new} |-> u.fts[r]]
          /\ \A r \in FtsKeys(t) : u.fts[r] = 1 + 0
          /\ u.fts[new] = 0 + 1
      <4>1. t.fts = [r \in FtsKeys(t) |-> 1]
        BY <1>3
      <4>. QED  BY <3>1, <3>3, <4>1 DEF (+), SetToBag
    <3>5. \A r \in FtsKeys(u) : u.fts[r] = 1
      <4>1. 1 + 0 = 1 /\ 0 + 1 = 1
        OBVIOUS
      <4>. QED  BY <3>2, <3>4, <4>1, Zenon
    <3>6. u.fts = [r \in FtsKeys(u) |-> u.fts[r]]
      BY <3>2, <3>4
    <3>. QED  BY <3>5, <3>6
  <2>. QED  BY <1>2, <1>6, <2>7, <2>8, <2>9, <2>10, <2>11, AgreeParts
<1>. QED  BY <1>8, <1>9

-----------------------------------------------------------------------------
(* Encodings.                                                                *)

\* A finite set has an element that none comes before, in any order.
LEMMA FirstOfFinite ==
    ASSUME NEW S, IsFiniteSet(S), S # {}, NEW R,
           \A x \in S : <<x, x>> \notin R,
           \A x, y, z \in S : <<x, y>> \in R /\ <<y, z>> \in R => <<x, z>> \in R
    PROVE  \E x \in S : \A y \in S : <<y, x>> \notin R
<1>. DEFINE below(x) == {y \in S : <<y, x>> \in R}
            sets == {below(x) : x \in S}
<1>1. \A A \in SUBSET S : A \in FiniteSubsetsOf(S)
  BY FS_Subset DEF FiniteSubsetsOf
<1>2. sets \subseteq FiniteSubsetsOf(S) /\ sets # {}
  <2>1. \A x \in S : below(x) \in SUBSET S
    OBVIOUS
  <2>. HIDE DEF below
  <2>. QED  BY <1>1, <2>1
<1>3. PICK A \in sets : \A B \in sets : <<B, A>> \notin StrictSubsetOrdering(S)
  <2>. HIDE DEF sets
  <2>. QED  BY <1>2, FS_StrictSubsetOrderingWellFounded, WFMin
<1>4. PICK x \in S : A = below(x)
  OBVIOUS
<1>5. ASSUME NEW y \in S, <<y, x>> \in R PROVE FALSE
  <2>1. below(y) \subseteq A /\ y \in A /\ y \notin below(y)
    BY <1>4, <1>5
  <2>2. <<below(y), A>> \in StrictSubsetOrdering(S)
    BY <2>1, <1>4 DEF StrictSubsetOrdering
  <2>. QED  BY <1>3, <2>2
<1>. QED  BY <1>5

\* The two ends of a finite set of numbers, which are what Min and Max choose.
LEMMA Smallest ==
    ASSUME NEW S, IsFiniteSet(S), S \subseteq Int, S # {}
    PROVE  Min(S) \in S /\ \A x \in S : Min(S) <= x
<1>. DEFINE R == {e \in S \X S : e[1] < e[2]}
<1>1. \A x, y \in S : <<x, y>> \in R <=> x < y
  OBVIOUS
<1>. HIDE DEF R
<1>2. \E x \in S : \A y \in S : <<y, x>> \notin R
  <2>1. \A x \in S : <<x, x>> \notin R
    BY <1>1
  <2>2. ASSUME NEW x \in S, NEW y \in S, NEW z \in S, <<x, y>> \in R, <<y, z>> \in R
        PROVE  <<x, z>> \in R
    BY <1>1, <2>2
  <2>3. \A x, y, z \in S : <<x, y>> \in R /\ <<y, z>> \in R => <<x, z>> \in R
    BY <2>2
  <2>. QED  BY <2>1, <2>3, FirstOfFinite, Zenon
<1>3. \E x \in S : \A y \in S : x <= y
  <2>1. \A x, y \in S : x \in Int /\ y \in Int /\ (~(y < x) => x <= y)
    OBVIOUS
  <2>. QED  BY <1>1, <1>2, <2>1, Zenon
<1>. QED  BY <1>3 DEF Min

LEMMA Largest ==
    ASSUME NEW S, IsFiniteSet(S), S \subseteq Int, S # {}
    PROVE  Max(S) \in S /\ \A x \in S : x <= Max(S)
<1>. DEFINE R == {e \in S \X S : e[1] > e[2]}
<1>1. \A x, y \in S : <<x, y>> \in R <=> x > y
  OBVIOUS
<1>. HIDE DEF R
<1>2. \E x \in S : \A y \in S : <<y, x>> \notin R
  <2>1. \A x \in S : <<x, x>> \notin R
    BY <1>1
  <2>2. ASSUME NEW x \in S, NEW y \in S, NEW z \in S, <<x, y>> \in R, <<y, z>> \in R
        PROVE  <<x, z>> \in R
    BY <1>1, <2>2
  <2>3. \A x, y, z \in S : <<x, y>> \in R /\ <<y, z>> \in R => <<x, z>> \in R
    BY <2>2
  <2>. QED  BY <2>1, <2>3, FirstOfFinite, Zenon
<1>3. \E x \in S : \A y \in S : x >= y
  <2>1. \A x, y \in S : x \in Int /\ y \in Int /\ (~(y > x) => x >= y)
    OBVIOUS
  <2>. QED  BY <1>1, <1>2, <2>1, Zenon
<1>4. Max(S) \in S /\ \A y \in S : Max(S) >= y
  BY <1>3 DEF Max
<1>5. \A y \in S : y \in Int
  OBVIOUS
<1>. QED  BY <1>4, <1>5

LEMMA SmallestIndex ==
    ASSUME NEW n \in Nat, NEW S \in SUBSET (1..n), S # {}
    PROVE  Min(S) \in S /\ \A x \in S : Min(S) <= x
<1>1. IsFiniteSet(S) /\ S \subseteq Int
  <2>1. 1 \in Int /\ n \in Int
    OBVIOUS
  <2>2. S \subseteq Int
    BY <2>1
  <2>. QED  BY <2>1, <2>2, FS_Interval, FS_Subset
<1>. QED  BY <1>1, Smallest

\* What the first fallback that may be tried is, iconv installed or not.
FirstFallback(src, ic) ==
    SelectInSeq(Fallbacks, LAMBDA e : Convert(src, e, ic) # "invalid")

LEMMA FallbackFound ==
    ASSUME NEW src, NEW ic \in BOOLEAN, FirstFallback(src, ic) # 0
    PROVE  /\ FirstFallback(src, ic) \in 1..Len(Fallbacks)
           /\ Convert(src, Fallbacks[FirstFallback(src, ic)], ic) # "invalid"
           /\ \A i \in 1..Len(Fallbacks) :
                 Convert(src, Fallbacks[i], ic) # "invalid" => FirstFallback(src, ic) <= i
<1>. DEFINE I == {i \in 1..Len(Fallbacks) : Convert(src, Fallbacks[i], ic) # "invalid"}
<1>1. FirstFallback(src, ic) = IF I # {} THEN Min(I) ELSE 0
  BY DEF FirstFallback, SelectInSeq
<1>2. Len(Fallbacks) \in Nat
  BY RowAssumption
<1>3. I # {} /\ FirstFallback(src, ic) = Min(I)
  BY <1>1
<1>4. Min(I) \in I /\ \A x \in I : Min(I) <= x
  BY <1>2, <1>3, SmallestIndex
<1>. QED  BY <1>3, <1>4

LEMMA FallbackMissed ==
    ASSUME NEW src, NEW ic \in BOOLEAN,
           NEW i \in 1..Len(Fallbacks), Convert(src, Fallbacks[i], ic) # "invalid"
    PROVE  FirstFallback(src, ic) # 0
<1>. DEFINE I == {j \in 1..Len(Fallbacks) : Convert(src, Fallbacks[j], ic) # "invalid"}
<1>1. FirstFallback(src, ic) = IF I # {} THEN Min(I) ELSE 0
  BY DEF FirstFallback, SelectInSeq
<1>2. Len(Fallbacks) \in Nat /\ I # {}
  BY RowAssumption
<1>3. Min(I) \in I
  BY <1>2, SmallestIndex
<1>. QED  BY <1>1, <1>2, <1>3

\* DecodeFallback indexes what it reads in the first fallback.
LEMMA FallbackRead ==
    ASSUME NEW src, NEW ic \in BOOLEAN,
           DecodeFallback(src, Fallbacks, ic).status = "indexed"
    PROVE  LET first == FirstFallback(src, ic)
           IN  /\ first # 0 /\ Convert(src, Fallbacks[first], ic) = "text"
               /\ DecodeFallback(src, Fallbacks, ic) = Indexed(Fallbacks[first], "fallback")
<1>. DEFINE first == FirstFallback(src, ic)
            read == first # 0 /\ Convert(src, Fallbacks[first], ic) = "text"
<1>1. DecodeFallback(src, Fallbacks, ic) =
        CASE Fallbacks = <<>> -> Skipped(NoEncoding, "none", "encoding_unknown")
          [] Fallbacks # <<>> /\ first = 0 ->
                Skipped(NoEncoding, "fallback", "conversion_failed")
          [] read -> Indexed(Fallbacks[first], "fallback")
          [] OTHER -> Skipped(Fallbacks[first], "fallback", "transcoder_unavailable")
  BY DEF DecodeFallback, FirstFallback
<1>2. first # 0 => Fallbacks # <<>>
  <2>1. Len(<<>>) = 0
    OBVIOUS
  <2>. QED  BY <2>1, FallbackFound
<1>3. \A e, o, r : Skipped(e, o, r).status = "skipped"
  BY DEF Skipped
<1>. HIDE DEF first, read
<1>4. read
  BY <1>1, <1>3
<1>. QED  BY <1>1, <1>2, <1>4 DEF read, first

LEMMA Converted ==
    ASSUME NEW src, NEW e, NEW ic \in BOOLEAN
    PROVE  /\ Convert(src, e, ic) = "text" <=> e \in src.valid /\ (e \in Internal \/ ic)
           /\ Convert(src, e, ic) = "invalid" <=>
                 e \notin src.valid /\ (e \in Internal \/ ic)
BY DEF Convert

\* The conditions of TextIsFaithful.
LEMMA DecodeFaithful ==
    ASSUME NEW src, NEW ic \in BOOLEAN,
           NEW e, e = Decode(src, Fallbacks, ic).encoding,
           Decode(src, Fallbacks, ic).status = "indexed"
    PROVE  /\ e \in src.valid
           /\ src.bom # NoEncoding => e = src.bom
           /\ src.bom = NoEncoding /\ src.declared # NoEncoding => e = src.declared
           /\ src.bom = NoEncoding /\ src.declared = NoEncoding =>
                 e = Utf8 \/ (Utf8 \notin src.valid /\ e \in Range(Fallbacks))
<1>1. CASE src.bom # NoEncoding
  <2>1. Decode(src, Fallbacks, ic) = DecodeMarked(src)
    BY <1>1 DEF Decode
  <2>. QED  BY <1>1, <2>1 DEF DecodeMarked, Skipped, NotText, Indexed
<1>2. CASE src.bom = NoEncoding /\ src.nul
  <2>1. Decode(src, Fallbacks, ic) = NotText
    BY <1>2 DEF Decode
  <2>. QED  BY <2>1 DEF NotText
<1>3. CASE src.bom = NoEncoding /\ ~src.nul /\ src.declared # NoEncoding
  <2>1. Decode(src, Fallbacks, ic) = DecodeDeclared(src, ic)
    BY <1>3 DEF Decode
  <2>2. e = src.declared /\ Convert(src, src.declared, ic) = "text"
    BY <2>1 DEF DecodeDeclared, Convert, Skipped, Indexed
  <2>. QED  BY <1>3, <2>2, Converted
<1>4. CASE /\ src.bom = NoEncoding /\ ~src.nul /\ src.declared = NoEncoding
           /\ Utf8 \in src.valid
  <2>1. Decode(src, Fallbacks, ic) = Indexed(Utf8, "utf8")
    BY <1>4 DEF Decode
  <2>. QED  BY <1>4, <2>1 DEF Indexed
<1>5. CASE /\ src.bom = NoEncoding /\ ~src.nul /\ src.declared = NoEncoding
           /\ Utf8 \notin src.valid
  <2>. DEFINE first == FirstFallback(src, ic)
  <2>1. Decode(src, Fallbacks, ic) = DecodeFallback(src, Fallbacks, ic)
    BY <1>5 DEF Decode
  <2>2. /\ first # 0 /\ Convert(src, Fallbacks[first], ic) = "text"
        /\ e = Fallbacks[first]
    BY <2>1, FallbackRead DEF Indexed
  <2>3. first \in 1..Len(Fallbacks)
    BY <2>2, FallbackFound
  <2>4. Fallbacks[first] \in Range(Fallbacks)
    BY <2>3, RowAssumption DEF Range
  <2>. QED  BY <1>5, <2>2, <2>4, Converted
<1>. QED  BY <1>1, <1>2, <1>3, <1>4, <1>5

\* What is read without iconv is read the same with it.
LEMMA IconvAdds ==
    ASSUME NEW src,
           Decode(src, Fallbacks, FALSE).status = "indexed"
    PROVE  Decode(src, Fallbacks, TRUE) = Decode(src, Fallbacks, FALSE)
<1>1. CASE \/ src.bom # NoEncoding
           \/ src.nul
           \/ src.declared = NoEncoding /\ Utf8 \in src.valid
  BY <1>1 DEF Decode
<1>2. CASE src.bom = NoEncoding /\ ~src.nul /\ src.declared # NoEncoding
  <2>1. \A ic \in BOOLEAN : Decode(src, Fallbacks, ic) = DecodeDeclared(src, ic)
    BY <1>2 DEF Decode
  <2>2. Convert(src, src.declared, FALSE) = "text"
    <3>1. DecodeDeclared(src, FALSE).status = "indexed"
      BY <2>1
    <3>. QED  BY <3>1 DEF DecodeDeclared, Convert, Skipped
  <2>3. Convert(src, src.declared, TRUE) = "text"
    BY <2>2, Converted
  <2>. QED  BY <2>1, <2>2, <2>3 DEF DecodeDeclared
<1>3. CASE /\ src.bom = NoEncoding /\ ~src.nul /\ src.declared = NoEncoding
           /\ Utf8 \notin src.valid
  <2>. DEFINE first == FirstFallback(src, FALSE)
              second == FirstFallback(src, TRUE)
  <2>1. \A ic \in BOOLEAN : Decode(src, Fallbacks, ic) = DecodeFallback(src, Fallbacks, ic)
    BY <1>3 DEF Decode
  <2>2. /\ first # 0 /\ Convert(src, Fallbacks[first], FALSE) = "text"
        /\ DecodeFallback(src, Fallbacks, FALSE) = Indexed(Fallbacks[first], "fallback")
    BY <2>1, FallbackRead
  <2>3. /\ first \in 1..Len(Fallbacks)
        /\ \A i \in 1..Len(Fallbacks) :
              Convert(src, Fallbacks[i], FALSE) # "invalid" => first <= i
    BY <2>2, FallbackFound
  <2>4. Convert(src, Fallbacks[first], TRUE) = "text"
    BY <2>2, Converted
  <2>5. second # 0
    BY <2>3, <2>4, FallbackMissed
  <2>6. /\ second \in 1..Len(Fallbacks)
        /\ Convert(src, Fallbacks[second], TRUE) # "invalid"
        /\ second <= first
    BY <2>3, <2>4, <2>5, FallbackFound
  <2>7. Convert(src, Fallbacks[second], FALSE) # "invalid"
    BY <2>6, Converted
  <2>8. second = first
    <3>1. first <= second
      BY <2>3, <2>6, <2>7
    <3>2. Len(Fallbacks) \in Nat
      BY RowAssumption
    <3>. HIDE DEF first, second
    <3>3. first \in Int /\ second \in Int
      BY <2>3, <2>6, <3>2
    <3>. QED  BY <2>6, <3>1, <3>3
  <2>9. DecodeFallback(src, Fallbacks, TRUE) = Indexed(Fallbacks[first], "fallback")
    <3>1. Fallbacks # <<>>
      <4>1. Len(<<>>) = 0
        OBVIOUS
      <4>. HIDE DEF first
      <4>2. Len(Fallbacks) # 0
        BY <2>3
      <4>. QED  BY <4>1, <4>2
    <3>. QED  BY <2>4, <2>8, <2>2, <3>1 DEF DecodeFallback, FirstFallback
  <2>. QED  BY <2>1, <2>2, <2>9
<1>. QED  BY <1>1, <1>2, <1>3

-----------------------------------------------------------------------------
(* The inductive invariant: not only of the index, but of what a command     *)
(* has made of it so far.                                                    *)

\* Each file has been read by Decode, with iconv or without.
AllRead(t) ==
    \A i \in Ids(t) : \E ic \in BOOLEAN :
        t.files[i].as = Decode(t.files[i].blob, Fallbacks, ic)

NoFts(t) == ~Fts => t.fts = EmptyBag

Sound(t) == HasTables(t) /\ Agree(t) /\ AllRead(t) /\ NoFts(t)

RowsInv ==
    /\ iconv \in BOOLEAN
    /\ db # NoTables => Sound(db)
    /\ op # "none" => Sound(txn)

LEMMA EmptySound == Sound(EmptyTables)
BY EmptyAgrees DEF Sound, AllRead, NoFts, Ids, EmptyTables

LEMMA DeleteSound ==
    ASSUME NEW t, Sound(t), NEW P
    PROVE  Sound(DeleteRows(t, P))
<1>. SUFFICES ASSUME NEW u, u = DeleteRows(t, P) PROVE Sound(u)
  OBVIOUS
<1>1. HasTables(u) /\ Agree(u)
  BY DeleteAgrees DEF Sound
<1>2. Deleted(t, P, u)
  BY DeletedRows DEF Sound
<1>5. u.files = [i \in Ids(t) \ IdsOf(t, P) |-> t.files[i]] /\ (~Fts => u.fts = t.fts)
  BY <1>2 DEF Deleted
<1>3. \A i \in Ids(u) : i \in Ids(t) /\ u.files[i] = t.files[i]
  BY <1>5 DEF Ids
<1>4. AllRead(u) /\ NoFts(u)
  BY <1>3, <1>5 DEF Sound, AllRead, NoFts
<1>. QED  BY <1>1, <1>4 DEF Sound

LEMMA InsertSound ==
    ASSUME NEW t, Sound(t), NEW id, NEW p, NEW blob, NEW ic \in BOOLEAN, NEW as,
           as = Decode(blob, Fallbacks, ic), Admits(t, id, p, blob, as)
    PROVE  Sound(InsertRows(t, id, p, blob, as))
<1>. SUFFICES ASSUME NEW u, u = InsertRows(t, id, p, blob, as) PROVE Sound(u)
  OBVIOUS
<1>1. HasTables(u) /\ Agree(u)
  BY InsertAgrees DEF Sound
<1>2. Inserted(t, id, p, blob, as, u)
  BY InsertedRows DEF Sound
<1>3. u.files = [i \in Ids(t) \cup {id} |->
                   IF i = id THEN [path |-> p, blob |-> blob, as |-> as] ELSE t.files[i]]
  BY <1>2 DEF Inserted
<1>7. ~Fts => u.fts = t.fts
  BY <1>2 DEF Inserted
<1>4. Ids(u) = Ids(t) \cup {id}
  BY <1>3 DEF Ids
<1>5. ASSUME NEW i \in Ids(u)
      PROVE  \E c \in BOOLEAN : u.files[i].as = Decode(u.files[i].blob, Fallbacks, c)
  <2>1. CASE i = id
    <3>1. u.files[i].as = as /\ u.files[i].blob = blob
      BY <1>3, <1>4, <2>1
    <3>. QED  BY <3>1
  <2>2. CASE i # id
    <3>1. i \in Ids(t) /\ u.files[i] = t.files[i]
      BY <1>3, <1>4, <2>2
    <3>. QED  BY <3>1 DEF Sound, AllRead
  <2>. QED  BY <2>1, <2>2
<1>6. AllRead(u) /\ NoFts(u)
  BY <1>5, <1>7 DEF Sound, AllRead, NoFts
<1>. QED  BY <1>1, <1>6 DEF Sound

LEMMA RowsInit == Init => RowsInv
BY EmptySound DEF Init, RowInit, RowsInv

LEMMA RowsStep == RowsInv /\ [Next]_vars => RowsInv'
<1>. SUFFICES ASSUME RowsInv, [Next]_vars PROVE RowsInv'
  OBVIOUS
<1>. USE DEF RowsInv
<1>1. CASE UNCHANGED rowVars
  <2>1. UNCHANGED <<iconv, db, op, txn>>
    BY <1>1 DEF rowVars, user, command
  <2>2. (Sound(db)' <=> Sound(db)) /\ (Sound(txn)' <=> Sound(txn))
    BY <2>1 DEF Sound, HasTables, Agree, AllRead, NoFts, Ids, IsIndexed, SymbolLines
  <2>. QED  BY <2>1, <2>2
<1>2. CASE RowNext
  <2>1. ASSUME NEW p \in Paths, Edit(p) \/ MergeConflict(p) PROVE RowsInv'
    BY <2>1 DEF Edit, MergeConflict, Acts, command
  <2>2. CASE ToggleIconv
    BY <2>2 DEF ToggleIconv, Acts, command
  <2>3. CASE BeginRebuild
    BY <2>3, EmptySound DEF BeginRebuild, Begin, user
  <2>4. CASE BeginUpdate
    BY <2>4 DEF BeginUpdate, Begin, user
  <2>5. ASSUME NEW e \in todo, Walk(e) PROVE RowsInv'
    <3>. DEFINE p == e[1]
                t == IF op = "update" THEN DeleteRows(txn, {p}) ELSE txn
                id == IF op = "update" THEN FreshId(t) ELSE nextId
    <3>1. op # "none" /\ UNCHANGED iconv
      BY <2>5 DEF Walk, user
    <3>2. Sound(t)
      BY <3>1, DeleteSound
    <3>3. CASE UNCHANGED <<db, op, txn>>
      <4>. HIDE DEF p, t, id
      <4>1. Sound(db)' <=> Sound(db)
        BY <3>3 DEF Sound, HasTables, Agree, AllRead, NoFts, Ids, IsIndexed, SymbolLines
      <4>2. Sound(txn)' <=> Sound(txn)
        BY <3>3 DEF Sound, HasTables, Agree, AllRead, NoFts, Ids, IsIndexed, SymbolLines
      <4>. QED  BY <3>1, <3>3, <4>1, <4>2
    <3>4. CASE /\ UNCHANGED <<db, op>>
               /\ Admits(t, id, p, work[p], Scanned(p))
               /\ txn' = InsertRows(t, id, p, work[p], Scanned(p))
      <4>1. Sound(InsertRows(t, id, p, work[p], Scanned(p)))
        <5>. HIDE DEF p, t, id
        <5>. QED  BY <3>2, <3>4, InsertSound DEF Scanned
      <4>. HIDE DEF t, id, p
      <4>2. Sound(txn)'
        BY <3>4, <4>1
      <4>. QED  BY <3>1, <3>4, <4>2
    <3>5. CASE Ends /\ UNCHANGED db
      BY <3>1, <3>5 DEF Ends
    <3>6. \/ UNCHANGED <<db, op, txn>>
          \/ /\ UNCHANGED <<db, op>>
             /\ Admits(t, id, p, work[p], Scanned(p))
             /\ txn' = InsertRows(t, id, p, work[p], Scanned(p))
          \/ Ends /\ UNCHANGED db
      BY <2>5 DEF Walk
    <3>. QED  BY <3>3, <3>4, <3>5, <3>6
  <2>6. CASE Commit
    BY <2>6, DeleteSound DEF Commit, Ends, RemoveUnseen, user
  <2>7. CASE Abort
    BY <2>7 DEF Abort, Ends, user
  <2>. QED  BY <1>2, <2>1, <2>2, <2>3, <2>4, <2>5, <2>6, <2>7 DEF RowNext
<1>3. CASE Next /\ ~RowNext
  <2>1. UNCHANGED rowVars
    BY <1>3 DEF Next, RowStep, RefsNext, AskDefinitions, AskPage, Answer, AskShow, AskFiles,
                AskLines, Explain, StatRequest, Tell
  <2>. QED  BY <1>1, <2>1
<1>. QED  BY <1>1, <1>2, <1>3 DEF vars

LEMMA RowsAlways == Spec => []RowsInv
<1>. QED  BY RowsInit, RowsStep, PTL DEF Spec

-----------------------------------------------------------------------------
(* Types, and what a command works with.                                     *)

FilesTyped(t) ==
    /\ IsFiniteSet(Ids(t)) /\ Ids(t) \subseteq Nat \ {0}
    /\ \A i \in Ids(t) : t.files[i].path \in Paths /\ t.files[i].blob \in Blobs

\* What update has loaded are the rows of the index, by path.
Loaded ==
    op = "update" =>
        /\ db # NoTables
        /\ DOMAIN existing = Stored(db)
        /\ \A p \in DOMAIN existing :
              existing[p] \in Ids(db) /\ db.files[existing[p]].path = p

Basics ==
    /\ work \in [Paths -> Blobs \cup {Gone}]
    /\ unmerged \subseteq {p \in Paths : work[p] # Gone}
    /\ op \in {"none", "rebuild", "update"}
    /\ op = "none" => txn = NoTables /\ todo = {} /\ existing = <<>>
    /\ op = "rebuild" => existing = <<>> /\ nextId # 0
    /\ todo \subseteq Paths \X {1, 2}
    /\ DOMAIN existing \cup seen \subseteq Paths
    /\ nextId \in Nat /\ acts \in 0..MaxActs
    /\ {iconv, quiet, exact, moved, rejected} \subseteq BOOLEAN

FilesInv ==
    /\ RowsInv /\ Basics /\ Loaded
    /\ db # NoTables => FilesTyped(db)
    /\ op # "none" => FilesTyped(txn)

LEMMA HaveTables ==
    ASSUME NEW t, HasTables(t)
    PROVE  t # NoTables
<1>1. "files" \in DOMAIN t
  BY DEF HasTables
<1>2. "files" \notin DOMAIN NoTables
  BY DEF NoTables
<1>. QED  BY <1>1, <1>2

LEMMA NewId ==
    ASSUME NEW t, FilesTyped(t)
    PROVE  FreshId(t) \in Nat \ {0}
<1>. DEFINE ids == Ids(t) \cup {0}
<1>1. IsFiniteSet(ids) /\ ids # {} /\ ids \subseteq Nat /\ ids \subseteq Int
  BY FS_AddElement DEF FilesTyped
<1>. HIDE DEF ids
<1>2. Max(ids) \in Nat
  <2>1. Max(ids) \in ids
    BY <1>1, Largest
  <2>. QED  BY <1>1, <2>1
<1>. QED  BY <1>2 DEF FreshId, ids

\* What deleting and inserting do to the files.
LEMMA FilesDeleted ==
    ASSUME NEW t, HasTables(t), NEW P, NEW u, u = DeleteRows(t, P)
    PROVE  /\ Ids(u) = {i \in Ids(t) : t.files[i].path \notin P}
           /\ \A i \in Ids(u) : u.files[i] = t.files[i]
<1>1. Deleted(t, P, u)
  BY DeletedRows
<1>2. u.files = [i \in Ids(t) \ IdsOf(t, P) |-> t.files[i]]
  BY <1>1 DEF Deleted
<1>. QED  BY <1>2 DEF Ids, IdsOf

\* u has a row in place of the row that t may have of its path.
Replaced(t, p, id, row, u) ==
    LET others == {i \in Ids(t) : t.files[i].path # p}
    IN  /\ id \notin others
        /\ Ids(u) = others \cup {id}
        /\ u.files[id] = row
        /\ \A i \in others : u.files[i] = t.files[i]

LEMMA FileReplaced ==
    ASSUME NEW t, HasTables(t), NEW p, NEW v, v \in {t, DeleteRows(t, {p})},
           NEW id, NEW blob, NEW as, Admits(v, id, p, blob, as),
           NEW u, u = InsertRows(v, id, p, blob, as), HasTables(v)
    PROVE  Replaced(t, p, id, [path |-> p, blob |-> blob, as |-> as], u)
<1>. DEFINE others == {i \in Ids(t) : t.files[i].path # p}
            row == [path |-> p, blob |-> blob, as |-> as]
<1>1. Ids(v) = others /\ \A i \in others : v.files[i] = t.files[i]
  <2>1. CASE v = t
    BY <2>1 DEF Admits, IdsOf
  <2>2. CASE v = DeleteRows(t, {p})
    BY <2>2, FilesDeleted
  <2>. QED  BY <2>1, <2>2
<1>2. Inserted(v, id, p, blob, as, u)
  BY InsertedRows
<1>3. u.files = [i \in Ids(v) \cup {id} |-> IF i = id THEN row ELSE v.files[i]]
  BY <1>2 DEF Inserted
<1>4. id \notin Ids(v)
  BY DEF Admits
<1>. HIDE DEF others, row
<1>5. /\ Ids(u) = others \cup {id} /\ u.files[id] = row
      /\ \A i \in others : u.files[i] = t.files[i]
  BY <1>1, <1>3, <1>4 DEF Ids
<1>. QED  BY <1>1, <1>4, <1>5 DEF Replaced, others, row

LEMMA ReplacedTyped ==
    ASSUME NEW t, FilesTyped(t), NEW p \in Paths, NEW id \in Nat \ {0},
           NEW row, row.path = p, row.blob \in Blobs, NEW u, Replaced(t, p, id, row, u)
    PROVE  FilesTyped(u)
<1>. DEFINE others == {i \in Ids(t) : t.files[i].path # p}
<1>1. /\ Ids(u) = others \cup {id} /\ u.files[id] = row
      /\ \A i \in others : u.files[i] = t.files[i]
  BY DEF Replaced
<1>2. IsFiniteSet(others \cup {id})
  BY FS_Subset, FS_AddElement DEF FilesTyped
<1>. QED  BY <1>1, <1>2 DEF FilesTyped

LEMMA DeletedTyped ==
    ASSUME NEW t, HasTables(t), FilesTyped(t), NEW P
    PROVE  FilesTyped(DeleteRows(t, P))
<1>1. /\ Ids(DeleteRows(t, P)) = {i \in Ids(t) : t.files[i].path \notin P}
      /\ \A i \in Ids(DeleteRows(t, P)) : DeleteRows(t, P).files[i] = t.files[i]
  BY FilesDeleted
<1>2. IsFiniteSet(Ids(DeleteRows(t, P)))
  BY <1>1, FS_Subset DEF FilesTyped
<1>. QED  BY <1>1, <1>2 DEF FilesTyped

\* The four things that can come of a line of the list.
LEMMA Walked ==
    ASSUME FilesInv, op # "none", NEW e \in todo, Walk(e)
    PROVE  LET p == e[1]
               same == op = "update" /\ SameHash(p)
           IN  /\ p \in Paths
               /\ UNCHANGED <<user, db, acts, quiet, exact, moved>>
               /\ \/ /\ ~IsScanned(p)
                     /\ todo' = todo \ {e}
                     /\ UNCHANGED <<op, txn, existing, seen, nextId, rejected>>
                  \/ /\ IsScanned(p) /\ same
                     /\ todo' = todo \ {e} /\ seen' = seen \cup {p}
                     /\ UNCHANGED <<op, txn, existing, nextId, rejected>>
                  \/ /\ IsScanned(p) /\ ~same
                     /\ todo' = todo \ {e} /\ seen' = seen \cup {p}
                     /\ \E id \in Nat \ {0} :
                           Replaced(txn, p, id,
                                    [path |-> p, blob |-> work[p], as |-> Scanned(p)], txn')
                     /\ nextId' \in Nat /\ (op = "rebuild" => nextId' # 0)
                     /\ UNCHANGED <<op, existing, rejected>>
                  \/ Ends /\ rejected' = TRUE
<1>. DEFINE p == e[1]
            same == op = "update" /\ SameHash(p)
            t == IF op = "update" THEN DeleteRows(txn, {p}) ELSE txn
            id == IF op = "update" THEN FreshId(t) ELSE nextId
            row == [path |-> p, blob |-> work[p], as |-> Scanned(p)]
<1>1. p \in Paths
  BY DEF FilesInv, Basics
<1>2. UNCHANGED <<user, db, acts, quiet, exact, moved>>
  BY DEF Walk, Ends
<1>3. HasTables(t) /\ HasTables(txn) /\ t \in {txn, DeleteRows(txn, {p})} /\ FilesTyped(t)
  <2>1. HasTables(txn) /\ FilesTyped(txn)
    BY DEF FilesInv, RowsInv, Sound
  <2>2. HasTables(DeleteRows(txn, {p})) /\ FilesTyped(DeleteRows(txn, {p}))
    BY <2>1, DeletedTyped, DeleteAgrees DEF FilesInv, RowsInv, Sound
  <2>. QED  BY <2>1, <2>2
<1>4. id \in Nat \ {0}
  <2>1. FreshId(t) \in Nat \ {0}
    BY <1>3, NewId
  <2>. HIDE DEF t
  <2>. QED  BY <2>1 DEF FilesInv, Basics
<1>5. \/ /\ ~IsScanned(p)
         /\ todo' = todo \ {e}
         /\ UNCHANGED <<op, txn, existing, seen, nextId, rejected>>
      \/ /\ IsScanned(p) /\ same
         /\ todo' = todo \ {e} /\ seen' = seen \cup {p}
         /\ UNCHANGED <<op, txn, existing, nextId, rejected>>
      \/ /\ IsScanned(p) /\ ~same
         /\ todo' = todo \ {e} /\ seen' = seen \cup {p}
         /\ Admits(t, id, p, work[p], Scanned(p))
         /\ txn' = InsertRows(t, id, p, work[p], Scanned(p))
         /\ nextId' = nextId + (IF op = "rebuild" THEN 1 ELSE 0)
         /\ UNCHANGED <<op, existing, rejected>>
      \/ Ends /\ rejected' = TRUE
  BY DEF Walk
<1>6. ASSUME Admits(t, id, p, work[p], Scanned(p)),
             txn' = InsertRows(t, id, p, work[p], Scanned(p))
      PROVE  Replaced(txn, p, id, row, txn')
  <2>. HIDE DEF t, id, p
  <2>. QED  BY <1>3, <1>6, FileReplaced DEF row
<1>7. ASSUME nextId' = nextId + (IF op = "rebuild" THEN 1 ELSE 0)
      PROVE  nextId' \in Nat /\ (op = "rebuild" => nextId' # 0)
  BY <1>7 DEF FilesInv, Basics
<1>. HIDE DEF p, t, id, same, row
<1>8. \/ /\ ~IsScanned(p)
         /\ todo' = todo \ {e}
         /\ UNCHANGED <<op, txn, existing, seen, nextId, rejected>>
      \/ /\ IsScanned(p) /\ same
         /\ todo' = todo \ {e} /\ seen' = seen \cup {p}
         /\ UNCHANGED <<op, txn, existing, nextId, rejected>>
      \/ /\ IsScanned(p) /\ ~same
         /\ todo' = todo \ {e} /\ seen' = seen \cup {p}
         /\ \E i \in Nat \ {0} : Replaced(txn, p, i, row, txn')
         /\ nextId' \in Nat /\ (op = "rebuild" => nextId' # 0)
         /\ UNCHANGED <<op, existing, rejected>>
      \/ Ends /\ rejected' = TRUE
  BY <1>4, <1>5, <1>6, <1>7
<1>. QED  BY <1>1, <1>2, <1>8 DEF p, same, row

LEMMA FilesInit == Init => FilesInv
<1>. SUFFICES ASSUME Init PROVE FilesInv
  OBVIOUS
<1>1. RowsInv
  BY RowsInit
<1>2. Ids(EmptyTables) = {}
  BY DEF Ids, EmptyTables
<1>3. FilesTyped(EmptyTables)
  BY <1>2, FS_EmptySet DEF FilesTyped
<1>4. DOMAIN existing = {}
  BY DEF Init, RowInit
<1>5. Basics /\ Loaded
  <2>1. 0 \in 0..MaxActs
    BY RowAssumption
  <2>2. seen = {} /\ unmerged = {} /\ todo = {}
    BY DEF Init, RowInit
  <2>3. /\ work \in [Paths -> Blobs \cup {Gone}] /\ op = "none" /\ txn = NoTables
        /\ existing = <<>> /\ nextId = 0 /\ acts = 0
        /\ iconv \in BOOLEAN /\ quiet = FALSE /\ exact = FALSE /\ moved = FALSE
        /\ rejected = FALSE
    BY DEF Init, RowInit
  <2>. QED  BY <1>4, <2>1, <2>2, <2>3 DEF Basics, Loaded
<1>. QED  BY <1>1, <1>3, <1>5 DEF Init, RowInit, FilesInv

\* The steps of the other queries.
LEMMA QueriesLeaveRows == Next /\ ~RowNext => UNCHANGED rowVars
BY DEF Next, RowStep, RefsNext, AskDefinitions, AskPage, Answer, AskShow, AskFiles,
       AskLines, Explain, StatRequest, Tell

LEMMA FilesStep == FilesInv /\ [Next]_vars => FilesInv'
<1>. SUFFICES ASSUME FilesInv, [Next]_vars PROVE FilesInv'
  OBVIOUS
<1>0. RowsInv'
  BY RowsStep DEF FilesInv
<1>. SUFFICES /\ Basics' /\ Loaded'
              /\ db' # NoTables => FilesTyped(db')
              /\ op' # "none" => FilesTyped(txn')
  BY <1>0 DEF FilesInv
<1>1. /\ Basics /\ Loaded
      /\ db # NoTables => FilesTyped(db) /\ HasTables(db)
      /\ op # "none" => FilesTyped(txn) /\ HasTables(txn)
  BY DEF FilesInv, RowsInv, Sound
<1>. DEFINE goal == /\ Basics' /\ Loaded'
                    /\ db' # NoTables => FilesTyped(db')
                    /\ op' # "none" => FilesTyped(txn')
<1>2. CASE UNCHANGED rowVars
  <2>1. UNCHANGED <<work, unmerged, iconv, db, op, todo, txn, existing, seen, nextId, acts,
                    quiet, exact, moved, rejected>>
    BY <1>2 DEF rowVars, user, command
  <2>. QED  BY <1>1, <2>1 DEF Basics, Loaded
<1>3. CASE RowNext
  <2>1. ASSUME NEW p \in Paths, Edit(p) \/ MergeConflict(p) PROVE goal
    <3>1. /\ UNCHANGED <<db, op, todo, txn, existing, seen, nextId, rejected, iconv, moved>>
          /\ quiet' = FALSE /\ exact' = FALSE /\ acts' \in 0..MaxActs
      BY <1>1, <2>1, RowAssumption DEF Edit, MergeConflict, Acts, command, Basics
    <3>2. /\ work' \in [Paths -> Blobs \cup {Gone}]
          /\ unmerged' \subseteq {q \in Paths : work'[q] # Gone}
      BY <1>1, <2>1 DEF Edit, MergeConflict, Basics
    <3>. QED  BY <1>1, <3>1, <3>2 DEF Basics, Loaded
  <2>2. CASE ToggleIconv
    <3>1. /\ UNCHANGED <<db, op, todo, txn, existing, seen, nextId, rejected, work, unmerged>>
          /\ quiet' = FALSE /\ exact' = FALSE /\ acts' \in 0..MaxActs
          /\ moved' = TRUE /\ iconv' \in BOOLEAN
      BY <1>1, <2>2, RowAssumption DEF ToggleIconv, Acts, command, Basics
    <3>. QED  BY <1>1, <3>1 DEF Basics, Loaded
  <2>3. CASE BeginRebuild
    <3>1. /\ UNCHANGED <<work, unmerged, iconv, db, acts, exact, rejected, existing, moved>>
          /\ op' = "rebuild" /\ todo' = Listing /\ seen' = {} /\ quiet' = TRUE
          /\ txn' = EmptyTables /\ nextId' = 1 /\ op = "none"
      BY <2>3 DEF BeginRebuild, Begin, user
    <3>2. FilesTyped(EmptyTables)
      <4>1. Ids(EmptyTables) = {}
        BY DEF Ids, EmptyTables
      <4>. QED  BY <4>1, FS_EmptySet DEF FilesTyped
    <3>. QED  BY <1>1, <3>1, <3>2 DEF Basics, Loaded, Listing
  <2>4. CASE BeginUpdate
    <3>1. /\ UNCHANGED <<work, unmerged, iconv, db, acts, exact, rejected, nextId, moved>>
          /\ op' = "update" /\ todo' = Listing /\ seen' = {} /\ quiet' = TRUE
          /\ txn' = db /\ op = "none" /\ db # NoTables
          /\ existing' = [p \in Stored(db) |-> CHOOSE i \in Ids(db) : db.files[i].path = p]
      BY <2>4 DEF BeginUpdate, Begin, user, Stored
    <3>2. \A p \in Stored(db) : \E i \in Ids(db) : db.files[i].path = p
      BY DEF Stored
    <3>3. Loaded'
      BY <3>1, <3>2 DEF Loaded
    <3>4. Stored(db) \subseteq Paths
      BY <1>1, <3>1 DEF Stored, FilesTyped
    <3>. QED  BY <1>1, <3>1, <3>3, <3>4 DEF Basics, Listing
  <2>5. ASSUME NEW e \in todo, Walk(e) PROVE goal
    <3>. DEFINE p == e[1]
                row == [path |-> p, blob |-> work[p], as |-> Scanned(p)]
    <3>1. op # "none"
      BY <2>5 DEF Walk
    <3>2. p \in Paths /\ UNCHANGED <<work, unmerged, iconv, db, acts, quiet, exact, moved>>
      BY <2>5, <3>1, Walked DEF user
    <3>3. CASE UNCHANGED <<op, txn, existing, nextId, rejected>> /\ todo' \subseteq todo
               /\ seen' \subseteq seen \cup {p}
      <4>. HIDE DEF p
      <4>. QED  BY <1>1, <3>2, <3>3 DEF Basics, Loaded
    <3>4. CASE /\ IsScanned(p) /\ todo' \subseteq todo /\ seen' = seen \cup {p}
               /\ \E id \in Nat \ {0} : Replaced(txn, p, id, row, txn')
               /\ nextId' \in Nat /\ (op = "rebuild" => nextId' # 0)
               /\ UNCHANGED <<op, existing, rejected>>
      <4>1. row.path = p /\ row.blob \in Blobs
        BY <1>1, <3>2, <3>4 DEF IsScanned, Basics
      <4>. HIDE DEF p, row
      <4>2. FilesTyped(txn')
        BY <1>1, <3>1, <3>2, <3>4, <4>1, ReplacedTyped
      <4>. QED  BY <1>1, <3>2, <3>4, <4>2 DEF Basics, Loaded
    <3>5. CASE Ends /\ rejected' = TRUE
      <4>1. DOMAIN existing' = {}
        BY <3>5 DEF Ends
      <4>. HIDE DEF p
      <4>. QED  BY <1>1, <3>2, <3>5, <4>1 DEF Basics, Loaded, Ends
    <3>. QED  BY <2>5, <3>1, <3>3, <3>4, <3>5, Walked
  <2>6. CASE Commit
    <3>1. /\ UNCHANGED <<work, unmerged, iconv, acts, quiet, rejected>> /\ op # "none"
          /\ exact' = quiet /\ moved' \in BOOLEAN /\ Ends
          /\ db' \in {txn, RemoveUnseen(txn)}
      BY <1>1, <2>6 DEF Commit, user, Basics
    <3>2. FilesTyped(RemoveUnseen(txn)) /\ FilesTyped(txn)
      BY <1>1, <3>1, DeletedTyped DEF RemoveUnseen
    <3>3. FilesTyped(db')
      BY <3>1, <3>2
    <3>4. DOMAIN existing' = {}
      BY <3>1 DEF Ends
    <3>. QED  BY <1>1, <3>1, <3>3, <3>4 DEF Basics, Loaded, Ends
  <2>7. CASE Abort
    <3>1. UNCHANGED <<work, unmerged, iconv, db, acts, quiet, exact, moved, rejected>> /\ Ends
      BY <2>7 DEF Abort, user
    <3>2. DOMAIN existing' = {}
      BY <3>1 DEF Ends
    <3>. QED  BY <1>1, <3>1, <3>2 DEF Basics, Loaded, Ends
  <2>. QED  BY <1>3, <2>1, <2>2, <2>3, <2>4, <2>5, <2>6, <2>7 DEF RowNext
<1>. QED  BY <1>2, <1>3, QueriesLeaveRows DEF vars

LEMMA FilesAlways == Spec => []FilesInv
<1>. QED  BY FilesInit, FilesStep, PTL DEF Spec

-----------------------------------------------------------------------------
(* Rows and files.                                                           *)

ReadWith(t, ic) ==
    \A i \in Ids(t) : t.files[i].as = Decode(t.files[i].blob, Fallbacks, ic)

\* Rows of texts that were read while iconv was as it is now.
Current ==
    /\ db # NoTables /\ ~moved => ReadWith(db, iconv)
    /\ op # "none" /\ (~moved \/ (op = "rebuild" /\ quiet)) => ReadWith(txn, iconv)

\* What a quiet command has scanned, and has still to walk.
ScannedSoFar ==
    op # "none" /\ quiet =>
        /\ \A p \in seen : IsScanned(p)
        /\ \A p \in Paths \ seen : IsScanned(p) => \E k \in {1, 2} : <<p, k>> \in todo

\* A row is of a file that a quiet command has scanned, and then of its content,
\* or is one of those that were there.
RowsSoFar ==
    op # "none" /\ quiet =>
        /\ Stored(txn) = DOMAIN existing \cup seen
        /\ \A i \in Ids(txn) :
              LET p == txn.files[i].path IN
              \/ txn.files[i].blob = work[p]
              \/ p \notin seen /\ txn.files[i].blob = db.files[existing[p]].blob

ExactRows ==
    exact => /\ db # NoTables
             /\ Stored(db) = {p \in Paths : IsScanned(p)}
             /\ \A i \in Ids(db) : db.files[i].blob = work[db.files[i].path]

ExactInv == FilesInv /\ Current /\ ScannedSoFar /\ RowsSoFar /\ ExactRows

LEMMA ExactInit == Init => ExactInv
<1>. SUFFICES ASSUME Init PROVE ExactInv
  OBVIOUS
<1>1. FilesInv
  BY FilesInit
<1>2. ReadWith(EmptyTables, iconv)
  BY DEF ReadWith, Ids, EmptyTables
<1>. QED
  BY <1>1, <1>2 DEF Init, RowInit, ExactInv, Current, ScannedSoFar, RowsSoFar, ExactRows

LEMMA ReplacedStored ==
    ASSUME NEW t, NEW p, NEW id, NEW row, row.path = p, NEW u, Replaced(t, p, id, row, u)
    PROVE  Stored(u) = Stored(t) \cup {p}
BY DEF Replaced, Stored

LEMMA DeletedStored ==
    ASSUME NEW t, HasTables(t), NEW P
    PROVE  Stored(DeleteRows(t, P)) = Stored(t) \ P
BY FilesDeleted DEF Stored

LEMMA ExactStep == ExactInv /\ [Next]_vars => ExactInv'
<1>. SUFFICES ASSUME ExactInv, [Next]_vars PROVE ExactInv'
  OBVIOUS
<1>0. FilesInv'
  BY FilesStep DEF ExactInv
<1>. DEFINE goal == Current' /\ ScannedSoFar' /\ RowsSoFar' /\ ExactRows'
<1>. SUFFICES goal
  BY <1>0 DEF ExactInv
<1>1. /\ Basics /\ Loaded /\ Current /\ ScannedSoFar /\ RowsSoFar /\ ExactRows
      /\ db # NoTables => FilesTyped(db) /\ HasTables(db) /\ Agree(db)
      /\ op # "none" => FilesTyped(txn) /\ HasTables(txn)
  BY DEF ExactInv, FilesInv, RowsInv, Sound
<1>2. CASE UNCHANGED rowVars
  <2>1. UNCHANGED <<work, unmerged, iconv, db, op, todo, txn, existing, seen, nextId, acts,
                    quiet, exact, moved, rejected>>
    BY <1>2 DEF rowVars, user, command
  <2>. QED
    BY <1>1, <2>1 DEF Current, ScannedSoFar, RowsSoFar, ExactRows, IsScanned, Scanned
<1>3. CASE RowNext
  <2>1. ASSUME NEW p \in Paths, Edit(p) \/ MergeConflict(p) PROVE goal
    <3>1. /\ UNCHANGED <<db, op, todo, txn, existing, seen, iconv, moved>>
          /\ quiet' = FALSE /\ exact' = FALSE
      BY <2>1 DEF Edit, MergeConflict, Acts, command
    <3>. QED  BY <1>1, <3>1 DEF Current, ScannedSoFar, RowsSoFar, ExactRows
  <2>2. CASE ToggleIconv
    <3>1. UNCHANGED <<db, op, txn>> /\ quiet' = FALSE /\ exact' = FALSE /\ moved' = TRUE
      BY <2>2 DEF ToggleIconv, Acts, command
    <3>. QED  BY <1>1, <3>1 DEF Current, ScannedSoFar, RowsSoFar, ExactRows
  <2>3. CASE BeginRebuild
    <3>1. /\ UNCHANGED <<work, unmerged, iconv, db, exact, existing, moved>>
          /\ op' = "rebuild" /\ todo' = Listing /\ seen' = {} /\ quiet' = TRUE
          /\ txn' = EmptyTables /\ op = "none"
      BY <2>3 DEF BeginRebuild, Begin, user
    <3>2. Ids(EmptyTables) = {} /\ DOMAIN existing = {}
      BY <1>1, <3>1 DEF Ids, EmptyTables, Basics
    <3>3. Current'
      BY <1>1, <3>1, <3>2 DEF Current, ReadWith
    <3>4. ScannedSoFar'
      <4>1. \A p \in Paths : <<p, 1>> \in Listing
        BY DEF Listing
      <4>. QED  BY <3>1, <4>1 DEF ScannedSoFar
    <3>5. RowsSoFar'
      BY <3>1, <3>2 DEF RowsSoFar, Stored
    <3>6. ExactRows'
      BY <1>1, <3>1 DEF ExactRows, IsScanned, Scanned
    <3>. QED  BY <3>3, <3>4, <3>5, <3>6
  <2>4. CASE BeginUpdate
    <3>1. /\ UNCHANGED <<work, unmerged, iconv, db, exact, moved>>
          /\ op' = "update" /\ todo' = Listing /\ seen' = {} /\ quiet' = TRUE
          /\ txn' = db /\ op = "none" /\ db # NoTables
      BY <2>4 DEF BeginUpdate, Begin, user
    <3>2. Current'
      BY <1>1, <3>1 DEF Current
    <3>3. ScannedSoFar'
      <4>1. \A p \in Paths : <<p, 1>> \in Listing
        BY DEF Listing
      <4>. QED  BY <3>1, <4>1 DEF ScannedSoFar
    <3>4. RowsSoFar'
      <4>1. Loaded'
        BY <1>0 DEF FilesInv
      <4>2. DOMAIN existing' = Stored(db)
        BY <3>1, <4>1 DEF Loaded
      <4>3. ASSUME NEW i \in Ids(db) PROVE existing'[db.files[i].path] = i
        <5>1. db.files[i].path \in Stored(db)
          BY DEF Stored
        <5>2. \A j, k \in Ids(db) : db.files[j].path = db.files[k].path => j = k
          BY <1>1, <3>1 DEF Agree
        <5>. QED  BY <3>1, <4>1, <4>2, <5>1, <5>2 DEF Loaded
      <4>. QED  BY <3>1, <4>2, <4>3 DEF RowsSoFar
    <3>5. ExactRows'
      BY <1>1, <3>1 DEF ExactRows, IsScanned, Scanned
    <3>. QED  BY <3>2, <3>3, <3>4, <3>5
  <2>5. ASSUME NEW e \in todo, Walk(e) PROVE goal
    <3>. DEFINE p == e[1]
                row == [path |-> p, blob |-> work[p], as |-> Scanned(p)]
                same == op = "update" /\ SameHash(p)
    <3>1. op # "none"
      BY <2>5 DEF Walk
    <3>2. p \in Paths /\ UNCHANGED <<work, unmerged, iconv, db, acts, quiet, exact, moved>>
      BY <2>5, <3>1, Walked DEF user, ExactInv
    <3>3. \A q : (IsScanned(q)' <=> IsScanned(q)) /\ Scanned(q)' = Scanned(q)
      BY <3>2 DEF IsScanned, Scanned
    <3>4. ExactRows'
      BY <1>1, <3>2, <3>3 DEF ExactRows
    <3>5. ASSUME todo' = todo \ {e}, op' = op, seen' = seen \/ (IsScanned(p) /\ seen' = seen \cup {p}),
                 IsScanned(p) => p \in seen'
          PROVE  ScannedSoFar'
      <4>1. \A q \in Paths, k \in {1, 2} : <<q, k>> \in todo /\ <<q, k>> # e => <<q, k>> \in todo'
        BY <3>5
      <4>2. \A q, k : <<q, k>> = e => q = p
        OBVIOUS
      <4>. HIDE DEF p
      <4>. QED  BY <1>1, <3>1, <3>2, <3>3, <3>5, <4>1, <4>2 DEF ScannedSoFar
    <3>6. CASE /\ ~IsScanned(p)
               /\ todo' = todo \ {e}
               /\ UNCHANGED <<op, txn, existing, seen, nextId, rejected>>
      <4>1. ScannedSoFar'
        BY <3>5, <3>6
      <4>. HIDE DEF p
      <4>. QED  BY <1>1, <3>2, <3>4, <3>6, <4>1 DEF Current, RowsSoFar
    <3>7. CASE /\ IsScanned(p) /\ same
               /\ todo' = todo \ {e} /\ seen' = seen \cup {p}
               /\ UNCHANGED <<op, txn, existing, nextId, rejected>>
      <4>1. ScannedSoFar'
        BY <3>5, <3>7
      <4>2. p \in DOMAIN existing /\ db.files[existing[p]].blob = work[p]
        BY <3>7 DEF SameHash
      <4>. HIDE DEF p
      <4>3. RowsSoFar'
        BY <1>1, <3>1, <3>2, <3>7, <4>2 DEF RowsSoFar
      <4>. QED  BY <1>1, <3>2, <3>4, <3>7, <4>1, <4>3 DEF Current
    <3>8. CASE /\ IsScanned(p)
               /\ todo' = todo \ {e} /\ seen' = seen \cup {p}
               /\ \E id \in Nat \ {0} : Replaced(txn, p, id, row, txn')
               /\ UNCHANGED <<op, existing, rejected>>
      <4>1. ScannedSoFar'
        BY <3>5, <3>8
      <4>2. PICK id \in Nat \ {0} : Replaced(txn, p, id, row, txn')
        BY <3>8
      <4>. HIDE DEF p, goal
      <4>8. row.path = p /\ row.blob = work[p] /\ row.as = Scanned(p)
        OBVIOUS
      <4>. HIDE DEF row
      <4>3. row.path = p /\ row.blob = work[p] /\ row.as = Decode(work[p], Fallbacks, iconv)
        BY <4>8 DEF Scanned
      <4>4. Stored(txn') = Stored(txn) \cup {p}
        <5>1. row.path = p /\ Replaced(txn, p, id, row, txn')
          BY <4>2, <4>8
        <5>. QED  BY <5>1, ReplacedStored, Zenon
      <4>5. \A i \in Ids(txn') :
              \/ txn'.files[i] = row
              \/ i \in Ids(txn) /\ txn.files[i].path # p /\ txn'.files[i] = txn.files[i]
        BY <4>2 DEF Replaced
      <4>6. RowsSoFar'
        BY <1>1, <3>1, <3>2, <3>8, <4>3, <4>4, <4>5 DEF RowsSoFar
      <4>7. Current'
        BY <1>1, <3>1, <3>2, <3>8, <4>3, <4>5 DEF Current, ReadWith
      <4>. QED  BY <3>4, <4>1, <4>6, <4>7 DEF goal
    <3>9. CASE Ends
      <4>. HIDE DEF p
      <4>. QED  BY <1>1, <3>2, <3>4, <3>9 DEF Current, ScannedSoFar, RowsSoFar, Ends
    <3>10. \/ /\ ~IsScanned(p)
              /\ todo' = todo \ {e}
              /\ UNCHANGED <<op, txn, existing, seen, nextId, rejected>>
           \/ /\ IsScanned(p) /\ same
              /\ todo' = todo \ {e} /\ seen' = seen \cup {p}
              /\ UNCHANGED <<op, txn, existing, nextId, rejected>>
           \/ /\ IsScanned(p)
              /\ todo' = todo \ {e} /\ seen' = seen \cup {p}
              /\ \E id \in Nat \ {0} : Replaced(txn, p, id, row, txn')
              /\ UNCHANGED <<op, existing, rejected>>
           \/ Ends
      BY <2>5, <3>1, Walked DEF ExactInv
    <3>. HIDE DEF p, row, same, goal
    <3>. QED  BY <3>6, <3>7, <3>8, <3>9, <3>10
  <2>6. CASE Commit
    <3>1. /\ UNCHANGED <<work, unmerged, iconv, acts, quiet, rejected>>
          /\ op # "none" /\ todo = {} /\ exact' = quiet /\ Ends
          /\ moved' = (moved /\ ~(op = "rebuild" /\ quiet))
          /\ db' = (IF op = "update" THEN RemoveUnseen(txn) ELSE txn)
      BY <2>6 DEF Commit, user
    <3>2. /\ Ids(db') \subseteq Ids(txn)
          /\ \A i \in Ids(db') : db'.files[i] = txn.files[i]
          /\ quiet => Stored(db') = seen
      <4>1. CASE op = "update"
        <5>1. db' = DeleteRows(txn, DOMAIN existing \ seen)
          BY <3>1, <4>1 DEF RemoveUnseen
        <5>2. Stored(db') = Stored(txn) \ (DOMAIN existing \ seen)
          BY <1>1, <3>1, <5>1, DeletedStored
        <5>3. /\ Ids(db') \subseteq Ids(txn)
              /\ \A i \in Ids(db') : db'.files[i] = txn.files[i]
          BY <1>1, <3>1, <5>1, FilesDeleted
        <5>4. quiet => Stored(txn) = DOMAIN existing \cup seen
          BY <1>1, <3>1 DEF RowsSoFar
        <5>5. quiet => Stored(db') = seen
          BY <5>2, <5>4
        <5>. QED  BY <5>3, <5>5
      <4>2. CASE op = "rebuild"
        <5>1. db' = txn /\ DOMAIN existing = {}
          BY <1>1, <3>1, <4>2 DEF Basics
        <5>. QED  BY <1>1, <3>1, <5>1 DEF RowsSoFar
      <4>. QED  BY <1>1, <3>1, <4>1, <4>2 DEF Basics
    <3>3. Current'
      <4>1. ~moved' => ReadWith(db', iconv')
        BY <1>1, <3>1, <3>2 DEF Current, ReadWith, Basics
      <4>. QED  BY <3>1, <4>1 DEF Current, Ends
    <3>4. ExactRows'
      <4>1. \A q : IsScanned(q)' <=> IsScanned(q)
        BY <3>1 DEF IsScanned, Scanned
      <4>. SUFFICES ASSUME exact' PROVE ExactRows'
        BY DEF ExactRows
      <4>2. db' # NoTables
        <5>1. HasTables(db')
          BY <1>1, <3>1, DeleteAgrees DEF ExactInv, FilesInv, RowsInv, Sound, RemoveUnseen
        <5>. QED  BY <5>1, HaveTables
      <4>3. seen = {q \in Paths : IsScanned(q)}
        BY <1>1, <3>1 DEF ScannedSoFar, Basics
      <4>4. \A i \in Ids(db') : db'.files[i].blob = work[db'.files[i].path]
        <5>. TAKE i \in Ids(db')
        <5>1. db'.files[i].path \in seen
          BY <3>1, <3>2 DEF Stored
        <5>. QED  BY <1>1, <3>1, <3>2, <5>1 DEF RowsSoFar
      <4>. QED  BY <3>1, <3>2, <4>1, <4>2, <4>3, <4>4 DEF ExactRows
    <3>. QED  BY <3>1, <3>3, <3>4 DEF ScannedSoFar, RowsSoFar, Ends
  <2>7. CASE Abort
    <3>1. UNCHANGED <<work, unmerged, iconv, db, acts, quiet, exact, moved, rejected>> /\ Ends
      BY <2>7 DEF Abort, user
    <3>. QED
      BY <1>1, <3>1 DEF Ends, Current, ScannedSoFar, RowsSoFar, ExactRows, IsScanned, Scanned
  <2>. QED  BY <1>3, <2>1, <2>2, <2>3, <2>4, <2>5, <2>6, <2>7 DEF RowNext
<1>. QED  BY <1>2, <1>3, QueriesLeaveRows DEF vars

LEMMA ExactAlways == Spec => []ExactInv
<1>. QED  BY ExactInit, ExactStep, PTL DEF Spec

-----------------------------------------------------------------------------
(* Results.                                                                  *)

(* However the user's edits, merges and machine interleave with rebuilds and  *)
(* updates that end, fail or are refused by sqlite3, the tables of a         *)
(* committed index tell one story: ids given out again and cascades that     *)
(* never happen leave no row without its file.                               *)
THEOREM TablesAlwaysAgree == Spec => []TablesAgree
<1>1. RowsInv => TablesAgree
  BY DEF RowsInv, Sound, TablesAgree
<1>. QED  BY <1>1, RowsAlways, PTL

(* For any fallbacks, what is indexed as text was read in an encoding its    *)
(* bytes are valid in, by the strongest evidence there is.                   *)
THEOREM TextsAreFaithful == Spec => []TextIsFaithful
<1>1. RowsInv => TextIsFaithful
  <2>. SUFFICES ASSUME RowsInv, db # NoTables, NEW i \in Ids(db), IsIndexed(db.files[i])
                PROVE  LET b == db.files[i].blob
                           e == db.files[i].as.encoding
                       IN  /\ e \in b.valid
                           /\ b.bom # NoEncoding => e = b.bom
                           /\ b.bom = NoEncoding /\ b.declared # NoEncoding => e = b.declared
                           /\ b.bom = NoEncoding /\ b.declared = NoEncoding =>
                                 e = Utf8 \/ (Utf8 \notin b.valid /\ e \in Range(Fallbacks))
    BY DEF TextIsFaithful
  <2>1. PICK ic \in BOOLEAN :
           db.files[i].as = Decode(db.files[i].blob, Fallbacks, ic)
    BY DEF RowsInv, Sound, AllRead
  <2>. QED  BY <2>1, DecodeFaithful DEF IsIndexed
<1>. QED  BY <1>1, RowsAlways, PTL

(* For any fallbacks and any comings and goings of iconv, a text in the      *)
(* index is the one that a machine with iconv reads.                         *)
THEOREM IconvNeverChanges == Spec => []IconvOnlyAdds
<1>1. RowsInv => IconvOnlyAdds
  <2>. SUFFICES ASSUME RowsInv, db # NoTables, NEW i \in Ids(db), IsIndexed(db.files[i])
                PROVE  db.files[i].as = Decode(db.files[i].blob, Fallbacks, TRUE)
    BY DEF IconvOnlyAdds
  <2>1. PICK ic \in BOOLEAN :
           db.files[i].as = Decode(db.files[i].blob, Fallbacks, ic)
    BY DEF RowsInv, Sound, AllRead
  <2>. QED  BY <2>1, IconvAdds DEF IsIndexed
<1>. QED  BY <1>1, RowsAlways, PTL

(* For any files, contents and user actions, a command that nobody disturbed  *)
(* leaves exactly the rows that the files call for, and each text decoded as *)
(* a rebuild would, as long as iconv neither comes nor goes.                 *)
THEOREM QuietCommandsAreExact == Spec => []QuietCommandIsExact
<1>1. ExactInv => QuietCommandIsExact
  <2>. SUFFICES ASSUME ExactInv, exact, ~moved
                PROVE  {<<r.path, r.blob, r.as>> : r \in Range(db.files)} =
                       {<<p, work[p], Scanned(p)>> : p \in {q \in Paths : IsScanned(q)}}
    BY DEF QuietCommandIsExact
  <2>1. /\ Stored(db) = {p \in Paths : IsScanned(p)}
        /\ \A i \in Ids(db) : /\ db.files[i].blob = work[db.files[i].path]
                              /\ db.files[i].as = Scanned(db.files[i].path)
    BY DEF ExactInv, ExactRows, Current, ReadWith, Scanned
  <2>2. {<<r.path, r.blob, r.as>> : r \in Range(db.files)} =
        {<<db.files[i].path, db.files[i].blob, db.files[i].as>> : i \in Ids(db)}
    BY DEF Range, Ids
  <2>3. {<<p, work[p], Scanned(p)>> : p \in Stored(db)} =
        {<<db.files[i].path, work[db.files[i].path], Scanned(db.files[i].path)>> : i \in Ids(db)}
    BY DEF Stored
  <2>. QED  BY <2>1, <2>2, <2>3
<1>. QED  BY <1>1, ExactAlways, PTL

\* Tables whose files are typed are tables of the type.
LEMMA TablesTyped ==
    ASSUME NEW t, Sound(t), FilesTyped(t)
    PROVE  IsTables(t)
<1>1. /\ DOMAIN t.lines = LineKeys(t) /\ t.symbols = SymbolRows(t)
      /\ t.metrics = MetricRows(t) /\ (Fts => t.fts = [r \in FtsKeys(t) |-> 1])
      /\ ~Fts => t.fts = EmptyBag
  BY AgreeParts DEF Sound, NoFts
<1>2. \A i \in IndexedIds(t) :
        i \in Nat \ {0} /\ t.files[i].path \in Paths /\ t.files[i].blob \in Blobs
  BY DEF IndexedIds, FilesTyped
<1>3. \A b \in Blobs : DOMAIN b.lines \subseteq Nat \ {0}
  <2>1. \A b \in Blobs : DOMAIN b.lines = 1..Len(b.lines)
    BY RowAssumption
  <2>. QED  BY <2>1
<1>4. DOMAIN t.lines \subseteq (Nat \ {0}) \X (Nat \ {0})
  BY <1>1, <1>2, <1>3, LineKey DEF LineKeys, KeysOf
<1>5. DOMAIN t.metrics \subseteq Nat \ {0}
  BY <1>1, <1>2 DEF MetricRows
<1>6. \A s \in t.symbols : s.file \in Nat \ {0} /\ s.path \in Paths
  BY <1>1, <1>2, SymbolRow DEF SymbolRows, RowsOf
<1>7. IsABag(t.fts)
  <2>1. PICK S : t.fts = [r \in S |-> 1]
    BY <1>1, RowAssumption DEF EmptyBag, SetToBag
  <2>2. 1 \in {n \in Nat : n > 0}
    OBVIOUS
  <2>. QED  BY <2>1, <2>2 DEF IsABag
<1>. QED  BY <1>4, <1>5, <1>6, <1>7 DEF IsTables, FilesTyped

(* Every variable of the tables and the commands keeps its type, and a        *)
(* command has what it works with as long as it runs.                        *)
THEOREM RowTypesHold == Spec => []RowTypeOK
<1>1. FilesInv => RowTypeOK
  <2>. SUFFICES ASSUME FilesInv PROVE RowTypeOK
    OBVIOUS
  <2>1. op # "none" => txn # NoTables
    BY HaveTables DEF FilesInv, RowsInv, Sound
  <2>2. \A t \in {db, txn} \ {NoTables} : IsTables(t)
    BY TablesTyped DEF FilesInv, RowsInv, Basics
  <2>3. op = "update" => Range(existing) \subseteq Ids(db)
    BY DEF FilesInv, Loaded, Range
  <2>. QED  BY <2>1, <2>2, <2>3 DEF FilesInv, Basics, RowTypeOK
<1>. QED  BY <1>1, FilesAlways, PTL

-----------------------------------------------------------------------------
(* Ranks in a finite set with an order.                                      *)

Orders(R, S) ==
    /\ \A x \in S : <<x, x>> \notin R
    /\ \A x, y, z \in S : <<x, y>> \in R /\ <<y, z>> \in R => <<x, z>> \in R
    /\ \A x, y \in S : x # y => <<x, y>> \in R \/ <<y, x>> \in R

Below(x, S, R) == {y \in S : <<y, x>> \in R}

RankIn(x, S, R) == Cardinality(Below(x, S, R))

LEMMA RankIsOrder ==
    ASSUME NEW S, IsFiniteSet(S), NEW R, Orders(R, S), NEW x \in S, NEW y \in S
    PROVE  /\ RankIn(x, S, R) \in 0..(Cardinality(S) - 1)
           /\ <<x, y>> \in R <=> RankIn(x, S, R) < RankIn(y, S, R)
           /\ RankIn(x, S, R) = RankIn(y, S, R) => x = y
<1>1. ASSUME NEW z \in S
      PROVE  /\ IsFiniteSet(Below(z, S, R)) /\ RankIn(z, S, R) \in Nat
             /\ RankIn(z, S, R) < Cardinality(S)
  <2>1. Below(z, S, R) \in SUBSET S /\ z \notin Below(z, S, R)
    BY DEF Below, Orders
  <2>2. IsFiniteSet(Below(z, S, R)) /\ Cardinality(Below(z, S, R)) <= Cardinality(S)
        /\ (Cardinality(S) = Cardinality(Below(z, S, R)) => S = Below(z, S, R))
    BY <2>1, FS_Subset
  <2>3. Cardinality(S) \in Nat /\ Cardinality(Below(z, S, R)) \in Nat
    BY <2>2, FS_CardinalityType
  <2>. QED  BY <2>1, <2>2, <2>3 DEF RankIn
<1>2. Cardinality(S) \in Nat
  BY FS_CardinalityType
<1>3. ASSUME NEW a \in S, NEW b \in S, <<a, b>> \in R
      PROVE  RankIn(a, S, R) < RankIn(b, S, R)
  <2>1. /\ Below(a, S, R) \in SUBSET Below(b, S, R)
        /\ a \in Below(b, S, R) /\ a \notin Below(a, S, R)
    BY <1>3 DEF Below, Orders
  <2>2. /\ Cardinality(Below(a, S, R)) <= Cardinality(Below(b, S, R))
        /\ Cardinality(Below(b, S, R)) = Cardinality(Below(a, S, R)) =>
              Below(b, S, R) = Below(a, S, R)
    BY <1>1, <2>1, FS_Subset
  <2>3. RankIn(a, S, R) \in Nat /\ RankIn(b, S, R) \in Nat
    BY <1>1
  <2>. QED  BY <2>1, <2>2, <2>3 DEF RankIn
<1>4. RankIn(x, S, R) \in Nat /\ RankIn(y, S, R) \in Nat /\ RankIn(x, S, R) < Cardinality(S)
  BY <1>1
<1>5. x # y => <<x, y>> \in R \/ <<y, x>> \in R
  BY DEF Orders
<1>6. x = y => <<x, y>> \notin R
  BY DEF Orders
<1>7. /\ <<x, y>> \in R => RankIn(x, S, R) < RankIn(y, S, R)
      /\ <<y, x>> \in R => RankIn(y, S, R) < RankIn(x, S, R)
  BY <1>3
<1>. QED  BY <1>2, <1>4, <1>5, <1>6, <1>7

\* Every rank below the number of elements is one's.
LEMMA RanksAreDense ==
    ASSUME NEW S, IsFiniteSet(S), NEW R, Orders(R, S), NEW k \in 0..(Cardinality(S) - 1)
    PROVE  \E x \in S : RankIn(x, S, R) = k
<1>. DEFINE T == 0..(Cardinality(S) - 1)
            f == [x \in S |-> RankIn(x, S, R)]
<1>1. Cardinality(S) \in Nat
  BY FS_CardinalityType
<1>2. IsFiniteSet(T) /\ Cardinality(T) = Cardinality(S)
  <2>1. 0 \in Int /\ Cardinality(S) - 1 \in Int
    BY <1>1
  <2>2. Cardinality(T) = IF 0 > Cardinality(S) - 1 THEN 0 ELSE (Cardinality(S) - 1) - 0 + 1
    BY <2>1, FS_Interval
  <2>. QED  BY <1>1, <2>1, <2>2, FS_Interval
<1>3. f \in [S -> T] /\ IsInjective(f)
  <2>1. \A x \in S : RankIn(x, S, R) \in T
    BY RankIsOrder
  <2>2. \A x, y \in S : RankIn(x, S, R) = RankIn(y, S, R) => x = y
    BY RankIsOrder
  <2>. HIDE DEF T
  <2>. QED  BY <2>1, <2>2 DEF IsInjective
<1>. HIDE DEF T, f
<1>4. f \in Surjection(S, T)
  BY <1>2, <1>3, FS_Injection DEF Injection
<1>. QED  BY <1>4 DEF Surjection, T, f

\* No more than n elements have a rank of n from a on, and as many, if there are.
LEMMA RanksOfPage ==
    ASSUME NEW S, IsFiniteSet(S), NEW R, Orders(R, S), NEW a \in Nat, NEW n \in Nat,
           NEW P, P = {x \in S : a <= RankIn(x, S, R) /\ RankIn(x, S, R) < a + n}
    PROVE  /\ IsFiniteSet(P) /\ Cardinality(P) <= n
           /\ a + n <= Cardinality(S) => Cardinality(P) = n
<1>. DEFINE T == a..(a + n - 1)
            f == [x \in P |-> RankIn(x, S, R)]
<1>1. IsFiniteSet(T) /\ Cardinality(T) = n
  <2>1. a \in Int /\ a + n - 1 \in Int
    OBVIOUS
  <2>2. Cardinality(T) = IF a > a + n - 1 THEN 0 ELSE (a + n - 1) - a + 1
    BY <2>1, FS_Interval
  <2>. QED  BY <2>1, <2>2, FS_Interval
<1>2. \A x \in P : x \in S /\ RankIn(x, S, R) \in T
  <2>1. Cardinality(S) \in Nat
    BY FS_CardinalityType
  <2>. TAKE x \in P
  <2>2. RankIn(x, S, R) \in 0..(Cardinality(S) - 1)
    BY RankIsOrder
  <2>. QED  BY <2>1, <2>2
<1>3. f \in [P -> T] /\ IsInjective(f)
  <2>1. \A x, y \in S : RankIn(x, S, R) = RankIn(y, S, R) => x = y
    BY RankIsOrder
  <2>. HIDE DEF T
  <2>. QED  BY <1>2, <2>1 DEF IsInjective
<1>4. a + n <= Cardinality(S) => f \in Surjection(P, T)
  <2>1. Cardinality(S) \in Nat
    BY FS_CardinalityType
  <2>. SUFFICES ASSUME a + n <= Cardinality(S), NEW k \in T PROVE \E x \in P : f[x] = k
    BY <1>3 DEF Surjection
  <2>2. k \in 0..(Cardinality(S) - 1)
    BY <2>1
  <2>3. PICK x \in S : RankIn(x, S, R) = k
    BY <2>2, RanksAreDense
  <2>4. x \in P
    BY <2>3
  <2>. QED  BY <2>3, <2>4
<1>. HIDE DEF T, f
<1>5. f \in Injection(P, T)
  BY <1>3 DEF Injection
<1>. QED  BY <1>1, <1>4, <1>5, FS_Injection

\* What comes before is in a part of the set that is closed downwards.
LEMMA RankInSegment ==
    ASSUME NEW S, NEW R, NEW T \in SUBSET S,
           \A x \in T, y \in S : <<y, x>> \in R => y \in T,
           NEW x \in T
    PROVE  RankIn(x, T, R) = RankIn(x, S, R)
<1>1. Below(x, T, R) = Below(x, S, R)
  BY DEF Below
<1>. QED  BY <1>1 DEF RankIn

\* f takes one order to the other.
Keeps(f, S, R, Q) == \A a, b \in S : <<a, b>> \in R <=> <<f[a], f[b]>> \in Q

\* Ranks are those of the images in another set.
LEMMA RankOfImage ==
    ASSUME NEW S, NEW R, NEW T, NEW Q, NEW f, NEW x \in S,
           IsFiniteSet(S), f \in Bijection(S, T), Keeps(f, S, R, Q)
    PROVE  RankIn(x, S, R) = RankIn(f[x], T, Q)
<1>. DEFINE U == Below(x, S, R)
            V == Below(f[x], T, Q)
            g == [y \in U |-> f[y]]
<1>1. /\ f \in [S -> T] /\ \A a, b \in S : f[a] = f[b] => a = b
      /\ \A b \in T : \E a \in S : f[a] = b
  BY Fun_BijectionProperties
<1>2. \A y \in S : y \in U <=> f[y] \in V
  BY <1>1 DEF Below, Keeps
<1>3. U \subseteq S /\ V \subseteq T /\ IsFiniteSet(U)
  BY FS_Subset DEF Below
<1>. HIDE DEF U, V
<1>4. g \in [U -> V] /\ IsInjective(g)
  BY <1>1, <1>2, <1>3 DEF IsInjective
<1>5. \A b \in V : \E a \in U : g[a] = b
  BY <1>1, <1>2, <1>3
<1>6. g \in Bijection(U, V)
  BY <1>4, <1>5 DEF Bijection, Injection, Surjection
<1>7. Cardinality(V) = Cardinality(U)
  BY <1>3, <1>6, FS_Bijection DEF ExistsBijection
<1>. QED  BY <1>7 DEF RankIn, U, V

LEMMA RangeIsFinite ==
    ASSUME NEW f, IsFiniteSet(DOMAIN f), f = [x \in DOMAIN f |-> f[x]]
    PROVE  IsFiniteSet(Range(f))
<1>1. f \in Surjection(DOMAIN f, Range(f))
  BY DEF Surjection, Range
<1>. QED  BY <1>1, FS_Surjection

-----------------------------------------------------------------------------
(* The rows that refs reads.                                                 *)

EarlierIn(S) == {e \in S \X S : Earlier(e[1], e[2])}
BeforeIn(S) == {e \in S \X S : Before(e[1], e[2])}

\* A line of a file and where it is.
LineRow(t, i, n) ==
    [path |-> t.files[i].path, line |-> n, text |-> t.files[i].blob.lines[n]]

Proper(t) == Sound(t) /\ FilesTyped(t)

LEMMA RowsAreLines ==
    ASSUME NEW t, Proper(t), NEW r \in MatchingRows(t)
    PROVE  \E i \in IndexedIds(t) : \E n \in DOMAIN t.files[i].blob.lines : r = LineRow(t, i, n)
<1>1. PICK k \in DOMAIN t.lines :
         r = [path |-> t.files[k[1]].path, line |-> k[2], text |-> t.lines[k]]
  BY DEF MatchingRows
<1>2. DOMAIN t.lines = LineKeys(t) /\ t.lines[k] = t.files[k[1]].blob.lines[k[2]]
  BY AgreeParts DEF Proper, Sound
<1>3. PICK i \in IndexedIds(t) : \E n \in DOMAIN t.files[i].blob.lines : k = <<i, n>>
  BY <1>2, LineKey
<1>4. PICK n \in DOMAIN t.files[i].blob.lines : k = <<i, n>>
  BY <1>3
<1>5. r = LineRow(t, i, n)
  BY <1>1, <1>2, <1>4 DEF LineRow
<1>. QED  BY <1>5

LEMMA RowsAreFinite ==
    ASSUME NEW t, Proper(t)
    PROVE  IsFiniteSet(MatchingRows(t))
<1>. DEFINE keys == [i \in IndexedIds(t) |-> KeysOf(t, i)]
<1>1. IsFiniteSet(IndexedIds(t))
  <2>1. IndexedIds(t) \subseteq Ids(t)
    BY DEF IndexedIds
  <2>. QED  BY <2>1, FS_Subset DEF Proper, FilesTyped
<1>2. ASSUME NEW i \in IndexedIds(t) PROVE IsFiniteSet(KeysOf(t, i))
  <2>1. DOMAIN t.files[i].blob.lines = 1..Len(t.files[i].blob.lines)
        /\ Len(t.files[i].blob.lines) \in Nat
    BY RowAssumption DEF Proper, FilesTyped, IndexedIds
  <2>2. IsFiniteSet(DOMAIN t.files[i].blob.lines)
    <3>1. 1 \in Int /\ Len(t.files[i].blob.lines) \in Int
      BY <2>1
    <3>. QED  BY <2>1, <3>1, FS_Interval
  <2>3. IsFiniteSet({i})
    BY FS_Singleton
  <2>. QED  BY <2>2, <2>3, FS_Product DEF KeysOf
<1>3. IsFiniteSet(Range(keys)) /\ Range(keys) = {KeysOf(t, i) : i \in IndexedIds(t)}
  <2>1. DOMAIN keys = IndexedIds(t) /\ keys = [i \in DOMAIN keys |-> keys[i]]
    OBVIOUS
  <2>2. IsFiniteSet(Range(keys))
    <3>. HIDE DEF keys
    <3>. QED  BY <1>1, <2>1, RangeIsFinite
  <2>. QED  BY <2>2 DEF Range
<1>4. IsFiniteSet(LineKeys(t))
  BY <1>2, <1>3, FS_UNION DEF LineKeys
<1>. DEFINE K == {l \in DOMAIN t.lines : l[1] \in Ids(t) /\ t.lines[l] # "other"}
            rows == [k \in K |-> [path |-> t.files[k[1]].path, line |-> k[2],
                                  text |-> t.lines[k]]]
<1>5. IsFiniteSet(K)
  <2>1. K \subseteq LineKeys(t)
    BY AgreeParts DEF Proper, Sound
  <2>. QED  BY <1>4, <2>1, FS_Subset
<1>6. DOMAIN rows = K /\ rows = [k \in DOMAIN rows |-> rows[k]] /\ Range(rows) = MatchingRows(t)
  BY DEF MatchingRows, Range
<1>. HIDE DEF K, rows
<1>. QED  BY <1>5, <1>6, RangeIsFinite

LEMMA RowFacts ==
    ASSUME NEW t, Proper(t), NEW r \in MatchingRows(t)
    PROVE  /\ r.path \in Paths /\ r.line \in Nat \ {0}
           /\ \A q \in MatchingRows(t) : r.path = q.path /\ r.line = q.line => r = q
           /\ [path |-> r.path, line |-> r.line] \in DefinitionRows(t) <=> r.text = "def"
<1>1. PICK i \in IndexedIds(t) :
         \E n \in DOMAIN t.files[i].blob.lines : r = LineRow(t, i, n)
  BY RowsAreLines
<1>2. PICK n \in DOMAIN t.files[i].blob.lines : r = LineRow(t, i, n)
  BY <1>1
<1>3. r.path = t.files[i].path /\ r.line = n /\ r.text = t.files[i].blob.lines[n]
  BY <1>2 DEF LineRow
<1>4. /\ t.files[i].path \in Paths /\ t.files[i].blob \in Blobs
      /\ \A j \in IndexedIds(t) : t.files[j].path = t.files[i].path => j = i
  BY DEF Proper, FilesTyped, Sound, Agree, IndexedIds
<1>5. n \in Nat \ {0}
  <2>1. DOMAIN t.files[i].blob.lines = 1..Len(t.files[i].blob.lines)
    BY <1>4, RowAssumption
  <2>. QED  BY <2>1
<1>6. ASSUME NEW q \in MatchingRows(t), r.path = q.path, r.line = q.line
      PROVE  r = q
  <2>1. PICK j \in IndexedIds(t) :
           \E m \in DOMAIN t.files[j].blob.lines : q = LineRow(t, j, m)
    BY RowsAreLines
  <2>2. PICK m \in DOMAIN t.files[j].blob.lines : q = LineRow(t, j, m)
    BY <2>1
  <2>3. q.path = t.files[j].path /\ q.line = m
    BY <2>2 DEF LineRow
  <2>4. j = i /\ m = n
    BY <1>3, <1>4, <1>6, <2>3
  <2>. QED  BY <1>2, <2>2, <2>4
<1>7. [path |-> r.path, line |-> r.line] \in DefinitionRows(t) <=> r.text = "def"
  <2>. DEFINE place == [path |-> t.files[i].path, line |-> n]
  <2>1. t.symbols = SymbolRows(t)
    BY AgreeParts DEF Proper, Sound
  <2>2. place \in DefinitionRows(t) <=>
          \E s \in SymbolRows(t) : s.path = t.files[i].path /\ s.line = n
    BY <2>1 DEF DefinitionRows
  <2>3. ASSUME NEW s \in SymbolRows(t), s.path = t.files[i].path, s.line = n
        PROVE  t.files[i].blob.lines[n] = "def"
    <3>1. PICK j \in IndexedIds(t) : s \in RowsOf(t, j)
      BY SymbolRow
    <3>2. PICK m \in SymbolLines(t.files[j].blob) :
             s = [file |-> j, path |-> t.files[j].path, line |-> m]
      BY <3>1, SymbolRow
    <3>3. j = i /\ m = n
      BY <1>4, <2>3, <3>2
    <3>. QED  BY <3>2, <3>3 DEF SymbolLines
  <2>4. ASSUME t.files[i].blob.lines[n] = "def"
        PROVE  \E s \in SymbolRows(t) : s.path = t.files[i].path /\ s.line = n
    <3>. DEFINE s == [file |-> i, path |-> t.files[i].path, line |-> n]
    <3>1. n \in SymbolLines(t.files[i].blob)
      BY <2>4 DEF SymbolLines
    <3>2. s \in RowsOf(t, i)
      BY <3>1 DEF RowsOf
    <3>3. s \in SymbolRows(t)
      BY <3>2 DEF SymbolRows
    <3>. QED  BY <3>3
  <2>. QED  BY <1>3, <2>2, <2>3, <2>4
<1>. QED  BY <1>3, <1>4, <1>5, <1>6, <1>7

\* Rank is the rank in the order of the rows.
LEMMA RowsInOrder ==
    ASSUME NEW t, Proper(t), NEW S \in SUBSET MatchingRows(t)
    PROVE  /\ IsFiniteSet(S) /\ Orders(EarlierIn(MatchingRows(t)), S)
           /\ \A x, y \in MatchingRows(t) :
                 <<x, y>> \in EarlierIn(MatchingRows(t)) <=> Earlier(x, y)
           /\ \A x \in MatchingRows(t) :
                 Rank(x, S) = RankIn(x, S, EarlierIn(MatchingRows(t)))
<1>. DEFINE M == MatchingRows(t)
            R == EarlierIn(M)
<1>1. IsFiniteSet(S)
  BY RowsAreFinite, FS_Subset
<1>2. \A x, y \in M : <<x, y>> \in R <=> Earlier(x, y)
  BY DEF EarlierIn
<1>3. \A x \in M : x.path \in Nat /\ x.line \in Nat
  BY RowFacts, RowAssumption
<1>4. \A x, y \in M : x.path = y.path /\ x.line = y.line => x = y
  BY RowFacts
<1>5. \A x \in M : Rank(x, S) = RankIn(x, S, R)
  <2>. TAKE x \in M
  <2>1. Below(x, S, R) = {r \in S : Earlier(r, x)}
    BY <1>2 DEF Below
  <2>. QED  BY <2>1 DEF Rank, RankIn
<1>. HIDE DEF M, R
<1>6. ASSUME NEW x \in M PROVE ~Earlier(x, x)
  BY <1>3 DEF Earlier
<1>7. ASSUME NEW x \in M, NEW y \in M, NEW z \in M, Earlier(x, y), Earlier(y, z)
      PROVE  Earlier(x, z)
  BY <1>3, <1>7 DEF Earlier
<1>8. ASSUME NEW x \in M, NEW y \in M, x # y PROVE Earlier(x, y) \/ Earlier(y, x)
  BY <1>3, <1>4, <1>8 DEF Earlier
<1>9. S \subseteq M
  BY DEF M
<1>10. Orders(R, S)
  BY <1>2, <1>6, <1>7, <1>8, <1>9 DEF Orders
<1>. QED  BY <1>1, <1>2, <1>5, <1>10 DEF M, R

\* A row comes before another if its rank is less.
LEMMA RankOfRow ==
    ASSUME NEW t, Proper(t), NEW x \in MatchingRows(t), NEW y \in MatchingRows(t)
    PROVE  /\ Rank(x, MatchingRows(t)) \in Nat
           /\ Rank(x, MatchingRows(t)) < Cardinality(MatchingRows(t))
           /\ Earlier(x, y) <=> Rank(x, MatchingRows(t)) < Rank(y, MatchingRows(t))
<1>. DEFINE M == MatchingRows(t)
            R == EarlierIn(M)
<1>1. /\ IsFiniteSet(M) /\ Orders(R, M)
      /\ <<x, y>> \in R <=> Earlier(x, y)
      /\ Rank(x, M) = RankIn(x, M, R) /\ Rank(y, M) = RankIn(y, M, R)
  BY RowsInOrder
<1>2. Cardinality(M) \in Nat
  BY <1>1, FS_CardinalityType
<1>3. /\ RankIn(x, M, R) \in 0..(Cardinality(M) - 1)
      /\ <<x, y>> \in R <=> RankIn(x, M, R) < RankIn(y, M, R)
  BY <1>1, RankIsOrder
<1>. HIDE DEF M, R
<1>. QED  BY <1>1, <1>2, <1>3 DEF M

\* A page that is not full is the last one.
LEMMA LastPage ==
    ASSUME NEW t, Proper(t), NEW start \in Nat, Cardinality(Page(t, start)) < PageSize,
           NEW q \in MatchingRows(t)
    PROVE  Rank(q, MatchingRows(t)) < start + PageSize
<1>. DEFINE M == MatchingRows(t)
            R == EarlierIn(M)
<1>1. IsFiniteSet(M) /\ Orders(R, M) /\ \A x \in M : Rank(x, M) = RankIn(x, M, R)
  BY RowsInOrder
<1>2. Page(t, start) = {x \in M : start <= RankIn(x, M, R) /\ RankIn(x, M, R) < start + PageSize}
  BY <1>1 DEF Page
<1>3. PageSize \in Nat
  BY RefsAssumption
<1>4. /\ Cardinality(Page(t, start)) \in Nat /\ Cardinality(M) \in Nat
      /\ start + PageSize <= Cardinality(M) => Cardinality(Page(t, start)) = PageSize
  <2>. HIDE DEF M, R
  <2>. QED  BY <1>1, <1>2, <1>3, RanksOfPage, FS_CardinalityType
<1>5. Rank(q, M) \in Nat /\ Rank(q, M) < Cardinality(M)
  BY RankOfRow
<1>. HIDE DEF M, R
<1>. QED  BY <1>3, <1>4, <1>5 DEF M

-----------------------------------------------------------------------------
(* Candidates.                                                               *)

\* The candidates that refs has are told apart by page and place.
CandidatesTyped(F, start) ==
    /\ IsFiniteSet(F)
    /\ \A c \in F : /\ c.at \in Nat /\ c.at < start
                    /\ c.row.path \in Paths /\ c.row.line \in Nat \ {0}
    /\ \A c, d \in F :
          c.at = d.at /\ c.row.path = d.row.path /\ c.row.line = d.row.line => c = d

\* Pages and rows are in the same order, and no row is there twice.
InOrder(F) ==
    /\ \A c, d \in F : Before(c, d) <=> Earlier(c.row, d.row)
    /\ \A c, d \in F : c.row = d.row => c = d

\* While the index is t, the candidates of the pages so far.
Reading(t) ==
    /\ definitions = DefinitionRows(t)
    /\ InOrder(found)
    /\ {c.row : c \in found} =
          {q \in MatchingRows(t) : IsCandidate(q) /\ Rank(q, MatchingRows(t)) < offset}

\* Those of a page.
NewOf(t) == {[at |-> offset, row |-> r] : r \in {q \in Page(t, offset) : IsCandidate(q)}}

LEMMA NewTyped ==
    ASSUME NEW t, Proper(t), offset \in Nat, CandidatesTyped(found, offset)
    PROVE  CandidatesTyped(found \cup NewOf(t), offset + PageSize)
<1>. DEFINE P == {q \in Page(t, offset) : IsCandidate(q)}
            new == [r \in P |-> [at |-> offset, row |-> r]]
<1>1. P \subseteq MatchingRows(t)
  BY DEF Page
<1>2. IsFiniteSet(P)
  BY <1>1, RowsAreFinite, FS_Subset
<1>3. IsFiniteSet(NewOf(t))
  <2>1. DOMAIN new = P /\ new = [r \in DOMAIN new |-> new[r]] /\ Range(new) = NewOf(t)
    BY DEF NewOf, Range
  <2>. HIDE DEF P, new
  <2>. QED  BY <1>2, <2>1, RangeIsFinite
<1>4. IsFiniteSet(found \cup NewOf(t))
  BY <1>3, FS_Union DEF CandidatesTyped
<1>5. PageSize \in Nat \ {0}
  BY RefsAssumption
<1>6. \A c \in NewOf(t) : c.at = offset /\ c.row \in MatchingRows(t) /\ c = [at |-> offset, row |-> c.row]
  BY <1>1 DEF NewOf
<1>7. ASSUME NEW c \in found \cup NewOf(t)
      PROVE  /\ c.at \in Nat /\ c.at < offset + PageSize
             /\ c.row.path \in Paths /\ c.row.line \in Nat \ {0}
  <2>1. CASE c \in found
    BY <1>5, <2>1 DEF CandidatesTyped
  <2>2. CASE c \in NewOf(t)
    <3>1. c.at = offset /\ c.row \in MatchingRows(t)
      BY <1>6, <2>2
    <3>2. c.row.path \in Paths /\ c.row.line \in Nat \ {0}
      BY <3>1, RowFacts
    <3>. QED  BY <1>5, <3>1, <3>2
  <2>. QED  BY <2>1, <2>2
<1>8. ASSUME NEW c \in found \cup NewOf(t), NEW d \in found \cup NewOf(t),
             c.at = d.at, c.row.path = d.row.path, c.row.line = d.row.line
      PROVE  c = d
  <2>1. CASE c \in found /\ d \in found
    BY <1>8, <2>1 DEF CandidatesTyped
  <2>2. CASE c \in NewOf(t) /\ d \in NewOf(t)
    <3>1. c.row = d.row
      BY <1>6, <1>8, <2>2, RowFacts
    <3>. QED  BY <1>6, <2>2, <3>1
  <2>3. \A f \in found : f.at \in Nat /\ f.at # offset
    BY DEF CandidatesTyped
  <2>4. CASE c \in found /\ d \in NewOf(t)
    <3>1. c.at # d.at
      BY <1>6, <2>3, <2>4
    <3>. QED  BY <1>8, <3>1
  <2>5. CASE c \in NewOf(t) /\ d \in found
    <3>1. c.at # d.at
      BY <1>6, <2>3, <2>5
    <3>. QED  BY <1>8, <3>1
  <2>. QED  BY <1>8, <2>1, <2>2, <2>4, <2>5
<1>. QED  BY <1>4, <1>7, <1>8 DEF CandidatesTyped

LEMMA CandidatesInOrder ==
    ASSUME NEW F, NEW start \in Nat, CandidatesTyped(F, start)
    PROVE  /\ Orders(BeforeIn(F), F)
           /\ \A c \in F : Cardinality({d \in F : Before(d, c)}) = RankIn(c, F, BeforeIn(F))
<1>1. \A c, d \in F : <<c, d>> \in BeforeIn(F) <=> Before(c, d)
  BY DEF BeforeIn
<1>2. \A c \in F : c.at \in Nat /\ c.row.path \in Nat /\ c.row.line \in Nat
  BY RowAssumption DEF CandidatesTyped
<1>3. ASSUME NEW c \in F PROVE ~Before(c, c)
  BY <1>2 DEF Before, Earlier
<1>4. ASSUME NEW c \in F, NEW d \in F, NEW e \in F, Before(c, d), Before(d, e)
      PROVE  Before(c, e)
  BY <1>2, <1>4 DEF Before, Earlier
<1>5. ASSUME NEW c \in F, NEW d \in F, c # d PROVE Before(c, d) \/ Before(d, c)
  BY <1>2, <1>5 DEF Before, Earlier, CandidatesTyped
<1>6. Orders(BeforeIn(F), F)
  BY <1>1, <1>3, <1>4, <1>5 DEF Orders
<1>7. ASSUME NEW c \in F
      PROVE  Cardinality({d \in F : Before(d, c)}) = RankIn(c, F, BeforeIn(F))
  <2>1. Below(c, F, BeforeIn(F)) = {d \in F : Before(d, c)}
    BY <1>1 DEF Below
  <2>. QED  BY <2>1 DEF RankIn
<1>. QED  BY <1>6, <1>7

\* FirstOf leaves Limit candidates, all if there are not more.
LEMMA FirstFew ==
    ASSUME NEW F, NEW start \in Nat, CandidatesTyped(F, start)
    PROVE  /\ FirstOf(F) \subseteq F /\ CandidatesTyped(FirstOf(F), start)
           /\ Cardinality(FirstOf(F)) <= Limit
           /\ Cardinality(F) < Limit => FirstOf(F) = F
<1>. DEFINE R == BeforeIn(F)
<1>1. IsFiniteSet(F) /\ Cardinality(F) \in Nat /\ Limit \in Nat
  BY FS_CardinalityType, RefsAssumption DEF CandidatesTyped
<1>2. Orders(R, F) /\ FirstOf(F) = {c \in F : RankIn(c, F, R) < Limit}
  BY CandidatesInOrder DEF FirstOf
<1>3. ASSUME NEW c \in F PROVE RankIn(c, F, R) \in 0..(Cardinality(F) - 1)
  BY <1>1, <1>2, RankIsOrder
<1>. HIDE DEF R
<1>4. FirstOf(F) = {c \in F : 0 <= RankIn(c, F, R) /\ RankIn(c, F, R) < 0 + Limit}
  BY <1>1, <1>2, <1>3
<1>5. IsFiniteSet(FirstOf(F)) /\ Cardinality(FirstOf(F)) <= Limit
  BY <1>1, <1>2, <1>4, RanksOfPage
<1>6. Cardinality(F) < Limit => FirstOf(F) = F
  <2>. SUFFICES ASSUME Cardinality(F) < Limit, NEW c \in F PROVE RankIn(c, F, R) < Limit
    BY <1>2
  <2>. QED  BY <1>1, <1>3
<1>. QED  BY <1>2, <1>5, <1>6 DEF CandidatesTyped

\* A page more, and what has been read is in order.
LEMMA PageRead ==
    ASSUME NEW t, Proper(t), offset \in Nat, CandidatesTyped(found, offset), Reading(t),
           NEW all, all = found \cup NewOf(t)
    PROVE  /\ InOrder(all)
           /\ {c.row : c \in all} =
                 {q \in MatchingRows(t) :
                     IsCandidate(q) /\ Rank(q, MatchingRows(t)) < offset + PageSize}
<1>. DEFINE M == MatchingRows(t)
<1>1. PageSize \in Nat \ {0}
  BY RefsAssumption
<1>2. \A q \in M : Rank(q, M) \in Nat
  BY RankOfRow
<1>3. ASSUME NEW c \in NewOf(t)
      PROVE  /\ c.at = offset /\ c.row \in M /\ IsCandidate(c.row)
             /\ offset <= Rank(c.row, M) /\ Rank(c.row, M) < offset + PageSize
             /\ c = [at |-> offset, row |-> c.row]
  BY DEF NewOf, Page
<1>4. ASSUME NEW q \in M, IsCandidate(q),
             offset <= Rank(q, M), Rank(q, M) < offset + PageSize
      PROVE  \E c \in NewOf(t) : c.row = q
  <2>1. q \in Page(t, offset)
    BY <1>4 DEF Page
  <2>2. [at |-> offset, row |-> q] \in NewOf(t)
    BY <1>4, <2>1 DEF NewOf
  <2>. QED  BY <2>2
<1>. HIDE DEF M
<1>5. {c.row : c \in found} = {q \in M : IsCandidate(q) /\ Rank(q, M) < offset}
  BY DEF Reading, M
<1>6. \A c \in found : c.row \in M /\ Rank(c.row, M) < offset /\ IsCandidate(c.row)
  BY <1>5
<1>7. {c.row : c \in all} = {q \in M : IsCandidate(q) /\ Rank(q, M) < offset + PageSize}
  <2>1. ASSUME NEW c \in all
        PROVE  c.row \in M /\ IsCandidate(c.row) /\ Rank(c.row, M) < offset + PageSize
    <3>1. CASE c \in found
      BY <1>1, <1>2, <1>6, <3>1
    <3>. QED  BY <1>3, <3>1
  <2>2. ASSUME NEW q \in M, IsCandidate(q), Rank(q, M) < offset + PageSize
        PROVE  \E c \in all : c.row = q
    <3>1. CASE Rank(q, M) < offset
      BY <1>5, <2>2, <3>1
    <3>2. CASE ~(Rank(q, M) < offset)
      <4>1. offset <= Rank(q, M)
        BY <1>2, <3>2
      <4>. QED  BY <1>4, <2>2, <4>1
    <3>. QED  BY <3>1, <3>2
  <2>. QED  BY <2>1, <2>2
<1>8. ASSUME NEW c \in found, NEW d \in NewOf(t)
      PROVE  /\ Before(c, d) /\ Earlier(c.row, d.row) /\ c.row # d.row
             /\ ~Before(d, c) /\ ~Earlier(d.row, c.row)
  <2>1. c.row \in M /\ d.row \in M /\ Rank(c.row, M) < offset /\ offset <= Rank(d.row, M)
    BY <1>3, <1>6
  <2>2. Rank(c.row, M) \in Nat /\ Rank(d.row, M) \in Nat
    BY <1>2, <2>1
  <2>3. /\ Earlier(c.row, d.row) <=> Rank(c.row, M) < Rank(d.row, M)
        /\ Earlier(d.row, c.row) <=> Rank(d.row, M) < Rank(c.row, M)
    BY <2>1, RankOfRow DEF M
  <2>4. Rank(c.row, M) < Rank(d.row, M) /\ ~(Rank(d.row, M) < Rank(c.row, M))
    BY <2>1, <2>2
  <2>5. c.at \in Nat /\ c.at < offset /\ d.at = offset
    BY <1>3 DEF CandidatesTyped
  <2>6. Before(c, d) /\ ~Before(d, c)
    BY <2>5 DEF Before
  <2>. QED  BY <2>3, <2>4, <2>6
<1>9. ASSUME NEW c \in NewOf(t), NEW d \in NewOf(t)
      PROVE  (Before(c, d) <=> Earlier(c.row, d.row)) /\ (c.row = d.row => c = d)
  <2>1. c.at = offset /\ d.at = offset /\ ~(offset < offset)
    BY <1>3
  <2>2. Before(c, d) <=> Earlier(c.row, d.row)
    BY <2>1 DEF Before
  <2>. QED  BY <1>3, <2>2
<1>10. InOrder(all)
  <2>1. ASSUME NEW c \in all, NEW d \in all
        PROVE  (Before(c, d) <=> Earlier(c.row, d.row)) /\ (c.row = d.row => c = d)
    <3>1. CASE c \in found /\ d \in found
      BY <3>1 DEF Reading, InOrder
    <3>. QED  BY <1>8, <1>9, <3>1
  <2>. QED  BY <2>1 DEF InOrder
<1>. QED  BY <1>7, <1>10 DEF M

\* The answer, when the last page has been read or there are enough candidates.
LEMMA AnswerRead ==
    ASSUME NEW t, Proper(t), offset \in Nat, CandidatesTyped(found, offset), Reading(t),
           NEW all, all = found \cup NewOf(t), Complete(all, Page(t, offset))
    PROVE  {c.row : c \in FirstOf(all)} = AnswerOf(t) /\ InOrder(FirstOf(all))
<1>. DEFINE M == MatchingRows(t)
            R == EarlierIn(M)
            C == {r \in M : r.text = "use"}
            A == {r \in C : Rank(r, M) < offset + PageSize}
            f == [c \in all |-> c.row]
<1>1. \A q \in M : IsCandidate(q) <=> q.text = "use"
  BY RowFacts DEF IsCandidate, Reading
<1>2. InOrder(all) /\ {c.row : c \in all} = A
  BY <1>1, PageRead
<1>3. CandidatesTyped(all, offset + PageSize) /\ offset + PageSize \in Nat
  BY NewTyped, RefsAssumption
<1>4. /\ Orders(BeforeIn(all), all) /\ IsFiniteSet(all)
      /\ \A c \in all : Cardinality({d \in all : Before(d, c)}) = RankIn(c, all, BeforeIn(all))
  BY <1>3, CandidatesInOrder DEF CandidatesTyped
<1>5. A \subseteq C /\ C \subseteq M
  OBVIOUS
<1>6. /\ \A x, y \in M : <<x, y>> \in R <=> Earlier(x, y)
      /\ \A x \in M : Rank(x, C) = RankIn(x, C, R)
      /\ IsFiniteSet(C)
  BY <1>5, RowsInOrder
<1>7. f \in Bijection(all, A)
  <2>1. f \in [all -> A]
    BY <1>2
  <2>2. IsInjective(f)
    BY <1>2 DEF InOrder, IsInjective
  <2>3. \A a \in A : \E c \in all : f[c] = a
    BY <1>2
  <2>. QED  BY <2>1, <2>2, <2>3 DEF Bijection, Injection, Surjection
<1>8. \A c, d \in all : <<c, d>> \in BeforeIn(all) <=> <<f[c], f[d]>> \in R
  <2>. TAKE c, d \in all
  <2>1. f[c] = c.row /\ f[d] = d.row /\ c.row \in M /\ d.row \in M
    BY <1>2, <1>5
  <2>2. <<c, d>> \in BeforeIn(all) <=> Before(c, d)
    BY DEF BeforeIn
  <2>. HIDE DEF f, M, R
  <2>. QED  BY <1>2, <1>6, <2>1, <2>2 DEF InOrder
<1>9. \A x \in A, y \in C : <<y, x>> \in R => y \in A
  <2>. SUFFICES ASSUME NEW x \in A, NEW y \in C, <<y, x>> \in R PROVE y \in A
    OBVIOUS
  <2>1. x \in M /\ y \in M /\ Earlier(y, x) /\ Rank(x, M) < offset + PageSize
    BY <1>6
  <2>2. Rank(y, M) < Rank(x, M) /\ Rank(y, M) \in Nat /\ Rank(x, M) \in Nat
    BY <2>1, RankOfRow
  <2>3. Rank(y, M) < offset + PageSize
    BY <1>3, <2>1, <2>2
  <2>. QED  BY <2>3
<1>10. ASSUME NEW c \in all
       PROVE  Cardinality({d \in all : Before(d, c)}) = Rank(c.row, C)
  <2>1. f[c] = c.row /\ c.row \in A /\ c.row \in M
    BY <1>2, <1>5
  <2>. HIDE DEF M, R, C, A, f
  <2>2. RankIn(c, all, BeforeIn(all)) = RankIn(f[c], A, R)
    <3>1. Keeps(f, all, BeforeIn(all), R)
      BY <1>8 DEF Keeps
    <3>. QED  BY <1>4, <1>7, <3>1, RankOfImage
  <2>3. RankIn(c.row, A, R) = RankIn(c.row, C, R)
    BY <1>5, <1>9, <2>1, RankInSegment
  <2>. QED  BY <1>4, <1>6, <2>1, <2>2, <2>3
<1>11. ASSUME NEW r \in C, Rank(r, C) < Limit PROVE r \in A
  <2>. SUFFICES ASSUME ~(Rank(r, M) < offset + PageSize) PROVE FALSE
    OBVIOUS
  <2>1. CASE Cardinality(Page(t, offset)) < PageSize
    BY <2>1, LastPage
  <2>2. CASE Cardinality(all) >= Limit
    <3>1. ASSUME NEW x \in A PROVE Earlier(x, r)
      <4>1. x \in M /\ r \in M /\ Rank(x, M) < offset + PageSize
        OBVIOUS
      <4>2. /\ Rank(x, M) \in Nat /\ Rank(r, M) \in Nat
            /\ Earlier(x, r) <=> Rank(x, M) < Rank(r, M)
        BY <4>1, RankOfRow
      <4>3. Rank(x, M) < Rank(r, M)
        BY <1>3, <4>1, <4>2
      <4>. QED  BY <4>2, <4>3
    <3>2. A \in SUBSET {x \in C : Earlier(x, r)}
      BY <3>1
    <3>3. IsFiniteSet({x \in C : Earlier(x, r)})
      BY <1>6, FS_Subset
    <3>. HIDE DEF A
    <3>4. Cardinality(A) <= Rank(r, C) /\ Rank(r, C) \in Nat /\ Cardinality(A) \in Nat
      BY <3>2, <3>3, FS_Subset, FS_CardinalityType DEF Rank
    <3>5. Cardinality(A) = Cardinality(all)
      BY <1>4, <1>7, FS_Bijection DEF ExistsBijection
    <3>6. Limit \in Nat
      BY RefsAssumption
    <3>. QED  BY <1>11, <2>2, <3>4, <3>5, <3>6
  <2>. QED  BY <2>1, <2>2 DEF Complete
<1>12. {c.row : c \in FirstOf(all)} = {r \in C : Rank(r, C) < Limit}
  <2>1. FirstOf(all) = {c \in all : Rank(c.row, C) < Limit}
    BY <1>10 DEF FirstOf
  <2>. HIDE DEF C, A
  <2>2. ASSUME NEW r \in C, Rank(r, C) < Limit PROVE \E c \in FirstOf(all) : c.row = r
    <3>1. r \in A
      BY <1>11, <2>2
    <3>2. PICK c \in all : c.row = r
      BY <1>2, <3>1
    <3>. QED  BY <2>1, <2>2, <3>2
  <2>3. \A c \in FirstOf(all) : c.row \in C /\ Rank(c.row, C) < Limit
    <3>1. \A c \in all : c.row \in C
      BY <1>2, <1>5
    <3>. QED  BY <2>1, <3>1
  <2>. QED  BY <2>2, <2>3
<1>13. InOrder(FirstOf(all))
  BY <1>2 DEF InOrder, FirstOf
<1>. QED  BY <1>12, <1>13 DEF AnswerOf

-----------------------------------------------------------------------------
(* refs.                                                                     *)

\* Where a query is and what it has seen.
Seen ==
    /\ pc \in {"idle", "page", "done", "stat", "lines", "explain", "told"}
    /\ pc = "idle" <=> indexes = {}
    /\ \A t \in indexes : Proper(t)
    /\ pc \in {"page", "lines", "explain"} => db \in indexes

RefsInv ==
    /\ Seen
    /\ offset \in Nat /\ CandidatesTyped(found, offset) /\ Cardinality(found) <= Limit
    /\ \A d \in definitions : d.path \in Paths /\ d.line \in Nat \ {0}
    /\ pc = "page" => \A t : indexes = {t} => Reading(t)
    /\ pc = "done" => \A t : indexes = {t} =>
                            {c.row : c \in found} = AnswerOf(t) /\ InOrder(found)

LEMMA IndexIsProper ==
    ASSUME FilesInv, db # NoTables
    PROVE  Proper(db)
BY DEF FilesInv, RowsInv, Proper

LEMMA ProperIsIndex ==
    ASSUME NEW t, Proper(t)
    PROVE  t # NoTables
BY HaveTables DEF Proper, Sound

\* An index never goes.
LEMMA IndexStaysProper ==
    ASSUME FilesInv, FilesInv', db # NoTables, RowNext
    PROVE  Proper(db')
<1>1. CASE UNCHANGED db
  BY <1>1, IndexIsProper
<1>2. CASE Commit
  <2>1. op # "none" /\ db' \in {txn, RemoveUnseen(txn)}
    BY <1>2 DEF Commit
  <2>2. Sound(txn)
    BY <2>1 DEF FilesInv, RowsInv
  <2>3. Sound(RemoveUnseen(txn))
    BY <2>2, DeleteSound DEF RemoveUnseen
  <2>4. Sound(db')
    BY <2>1, <2>2, <2>3
  <2>5. db' # NoTables
    BY <2>4, HaveTables DEF Sound
  <2>. QED  BY <2>4, <2>5 DEF FilesInv, Proper
<1>3. UNCHANGED db \/ Commit
  BY DEF RowNext, Edit, MergeConflict, ToggleIconv, Acts, BeginRebuild, BeginUpdate, Begin,
         Walk, Abort
<1>. QED  BY <1>1, <1>2, <1>3

LEMMA NoCandidates ==
    ASSUME NEW start \in Nat
    PROVE  CandidatesTyped({}, start) /\ Cardinality({}) <= Limit /\ InOrder({})
<1>1. IsFiniteSet({}) /\ Cardinality({}) = 0
  BY FS_EmptySet
<1>2. 0 <= Limit
  BY RefsAssumption
<1>. QED  BY <1>1, <1>2 DEF CandidatesTyped, InOrder

LEMMA DefinitionsTyped ==
    ASSUME NEW t, Proper(t), NEW d \in DefinitionRows(t)
    PROVE  d.path \in Paths /\ d.line \in Nat \ {0}
<1>1. PICK s \in SymbolRows(t) : d = [path |-> s.path, line |-> s.line]
  BY AgreeParts DEF DefinitionRows, Proper, Sound
<1>2. PICK i \in IndexedIds(t) : s \in RowsOf(t, i)
  BY SymbolRow
<1>3. PICK n \in SymbolLines(t.files[i].blob) :
         s = [file |-> i, path |-> t.files[i].path, line |-> n]
  BY <1>2, SymbolRow
<1>4. t.files[i].path \in Paths /\ t.files[i].blob \in Blobs
  BY DEF Proper, FilesTyped, IndexedIds
<1>5. n \in 1..Len(t.files[i].blob.lines)
  BY <1>4, RowAssumption DEF SymbolLines
<1>. QED  BY <1>1, <1>3, <1>4, <1>5

\* The first page is still to come.
LEMMA DefinitionsAsked ==
    ASSUME FilesInv, RefsInv, AskDefinitions
    PROVE  RefsInv'
<1>1. /\ pc' = "page" /\ definitions' = DefinitionRows(db) /\ offset' = 0 /\ found' = {}
      /\ indexes' = {db} /\ db # NoTables
  BY DEF AskDefinitions
<1>2. db' = db
  BY DEF AskDefinitions, rowVars
<1>3. Proper(db)
  BY <1>1, IndexIsProper
<1>4. ASSUME NEW t, indexes' = {t} PROVE Reading(t)'
  <2>1. t = db
    BY <1>1, <1>4
  <2>2. \A q \in MatchingRows(t) : ~(Rank(q, MatchingRows(t)) < 0)
    BY <1>3, <2>1, RankOfRow
  <2>3. InOrder({})
    BY NoCandidates
  <2>4. {c.row : c \in found'} =
           {q \in MatchingRows(t) : IsCandidate(q)' /\ Rank(q, MatchingRows(t)) < offset'}
    BY <1>1, <2>2
  <2>. QED  BY <1>1, <2>1, <2>3, <2>4 DEF Reading
<1>5. CandidatesTyped({}, 0) /\ Cardinality({}) <= Limit
  BY NoCandidates
<1>. QED  BY <1>1, <1>2, <1>3, <1>4, <1>5, DefinitionsTyped DEF RefsInv, Seen

LEMMA PageAsked ==
    ASSUME FilesInv, RefsInv, AskPage
    PROVE  RefsInv'
<1>. DEFINE all == found \cup NewOf(db)
            start == offset + PageSize
<1>1. /\ pc = "page" /\ offset' = start /\ found' = FirstOf(all)
      /\ pc' = IF Complete(all, Page(db, offset)) THEN "done" ELSE "page"
      /\ UNCHANGED <<db, definitions, indexes>>
  BY DEF AskPage, NewOf, rowVars
<1>2. /\ db \in indexes /\ Proper(db) /\ offset \in Nat /\ CandidatesTyped(found, offset)
      /\ \A t : indexes = {t} => Reading(t)
  BY <1>1 DEF RefsInv, Seen
<1>3. start \in Nat /\ CandidatesTyped(all, start)
  BY <1>2, NewTyped, RefsAssumption
<1>. HIDE DEF all, start
<1>4. /\ CandidatesTyped(FirstOf(all), start) /\ Cardinality(FirstOf(all)) <= Limit
      /\ Cardinality(all) < Limit => FirstOf(all) = all
  BY <1>3, FirstFew
<1>5. ASSUME NEW t, indexes = {t}, Complete(all, Page(db, offset))
      PROVE  {c.row : c \in found'} = AnswerOf(t) /\ InOrder(found')
  <2>1. t = db /\ Reading(t)
    BY <1>2, <1>5
  <2>. QED  BY <1>1, <1>2, <1>5, <2>1, AnswerRead DEF all
<1>6. ASSUME NEW t, indexes = {t}, ~Complete(all, Page(db, offset))
      PROVE  Reading(t)'
  <2>1. t = db /\ Reading(t)
    BY <1>2, <1>6
  <2>2. found' = all
    <3>1. Cardinality(all) \in Nat /\ Limit \in Nat
      BY <1>3, FS_CardinalityType, RefsAssumption DEF CandidatesTyped
    <3>. QED  BY <1>1, <1>4, <1>6, <3>1 DEF Complete
  <2>3. /\ InOrder(all)
        /\ {c.row : c \in all} =
              {q \in MatchingRows(t) :
                  IsCandidate(q) /\ Rank(q, MatchingRows(t)) < offset + PageSize}
    BY <1>2, <2>1, PageRead DEF all
  <2>4. \A q : IsCandidate(q)' <=> IsCandidate(q)
    BY <1>1 DEF IsCandidate
  <2>. QED  BY <1>1, <2>1, <2>2, <2>3, <2>4 DEF Reading, start
<1>7. Seen'
  BY <1>1, <1>2 DEF RefsInv, Seen
<1>8. /\ offset' \in Nat /\ CandidatesTyped(found', offset') /\ Cardinality(found') <= Limit
      /\ \A d \in definitions' : d.path \in Paths /\ d.line \in Nat \ {0}
  BY <1>1, <1>3, <1>4 DEF RefsInv
<1>9. /\ pc' = "page" => \A t : indexes' = {t} => Reading(t)'
      /\ pc' = "done" => \A t : indexes' = {t} =>
                               {c.row : c \in found'} = AnswerOf(t) /\ InOrder(found')
  BY <1>1, <1>5, <1>6
<1>. QED  BY <1>7, <1>8, <1>9 DEF RefsInv

\* Commands run beside a query.
LEMMA RowsBesideQuery ==
    ASSUME FilesInv, FilesInv', RefsInv, RowStep
    PROVE  RefsInv'
<1>1. /\ RowNext /\ UNCHANGED <<pc, definitions, offset, found>>
      /\ indexes' = IF pc \in {"page", "lines", "explain"} THEN indexes \cup {db'} ELSE indexes
  BY DEF RowStep
<1>2. pc \in {"page", "lines", "explain"} => Proper(db')
  BY <1>1, ProperIsIndex, IndexStaysProper DEF RefsInv, Seen
<1>3. Seen'
  BY <1>1, <1>2 DEF RefsInv, Seen
<1>4. ASSUME NEW t, indexes' = {t}, pc \in {"page", "done"} PROVE indexes = {t}
  <2>1. indexes # {} /\ indexes \subseteq indexes'
    BY <1>1, <1>4 DEF RefsInv, Seen
  <2>. QED  BY <1>4, <2>1
<1>5. \A t : Reading(t)' <=> Reading(t)
  BY <1>1 DEF Reading, IsCandidate
<1>. QED  BY <1>1, <1>3, <1>4, <1>5 DEF RefsInv

\* The other queries.
LEMMA OtherQueries ==
    ASSUME FilesInv, RefsInv,
           \/ \E r \in Requests : AskShow(r) \/ AskFiles(r)
           \/ AskLines \/ Explain \/ StatRequest \/ Tell
    PROVE  RefsInv'
<1>1. UNCHANGED <<definitions, offset, found>> /\ pc' \notin {"page", "done"}
  BY DEF AskShow, AskFiles, AskLines, Explain, StatRequest, Tell, Resolve
<1>2. UNCHANGED db
  BY DEF AskShow, AskFiles, AskLines, Explain, StatRequest, Tell, rowVars
<1>3. Seen'
  <2>1. ASSUME NEW r \in Requests, AskShow(r) PROVE Seen'
    <3>1. /\ db # NoTables /\ indexes' = indexes \cup {db}
          /\ pc' \in {"stat", "told", "lines"}
      BY <2>1 DEF AskShow, Resolve
    <3>. QED  BY <1>2, <3>1, IndexIsProper DEF RefsInv, Seen
  <2>2. ASSUME NEW r \in Requests, AskFiles(r) PROVE Seen'
    <3>1. db # NoTables /\ indexes' = {db} /\ pc' \in {"told", "explain"}
      BY <2>2 DEF AskFiles
    <3>. QED  BY <1>2, <3>1, IndexIsProper DEF RefsInv, Seen
  <2>3. CASE AskLines
    <3>1. pc = "lines" /\ pc' = "told" /\ indexes' = indexes \cup {db}
      BY <2>3 DEF AskLines
    <3>. QED  BY <1>2, <3>1 DEF RefsInv, Seen
  <2>4. CASE Explain
    <3>1. /\ pc = "explain" /\ indexes' = indexes \cup {db}
          /\ pc' \in {"stat", "told", "lines"}
      BY <2>4 DEF Explain, Resolve
    <3>. QED  BY <1>2, <3>1 DEF RefsInv, Seen
  <2>5. CASE StatRequest
    <3>1. pc = "stat" /\ pc' = "told" /\ UNCHANGED indexes
      BY <2>5 DEF StatRequest
    <3>. QED  BY <1>2, <3>1 DEF RefsInv, Seen
  <2>6. CASE Tell
    <3>1. pc' = "idle" /\ indexes' = {}
      BY <2>6 DEF Tell
    <3>. QED  BY <3>1 DEF Seen
  <2>. QED  BY <2>1, <2>2, <2>3, <2>4, <2>5, <2>6
<1>. QED  BY <1>1, <1>3 DEF RefsInv

LEMMA RefsStart == Init => RefsInv
<1>. SUFFICES ASSUME Init PROVE RefsInv
  OBVIOUS
<1>1. /\ pc = "idle" /\ indexes = {} /\ definitions = {} /\ offset = 0 /\ found = {}
  BY DEF Init, RefsInit
<1>2. CandidatesTyped({}, 0) /\ Cardinality({}) <= Limit
  BY NoCandidates
<1>. QED  BY <1>1, <1>2 DEF RefsInv, Seen

LEMMA RefsStep == FilesInv /\ FilesInv' /\ RefsInv /\ [Next]_vars => RefsInv'
<1>. SUFFICES ASSUME FilesInv, FilesInv', RefsInv, [Next]_vars PROVE RefsInv'
  OBVIOUS
<1>1. CASE UNCHANGED vars
  <2>1. UNCHANGED <<db, pc, definitions, offset, found, indexes>>
    BY <1>1 DEF vars, rowVars, query
  <2>. QED  BY <2>1 DEF RefsInv, Seen, Reading, IsCandidate
<1>2. CASE Answer
  <2>1. pc' = "idle" /\ definitions' = {} /\ offset' = 0 /\ found' = {} /\ indexes' = {}
    BY <1>2 DEF Answer, NoRefs
  <2>2. CandidatesTyped({}, 0) /\ Cardinality({}) <= Limit
    BY NoCandidates
  <2>. QED  BY <2>1, <2>2 DEF RefsInv, Seen
<1>. QED
  BY <1>1, <1>2, RowsBesideQuery, DefinitionsAsked, PageAsked, OtherQueries DEF Next, RefsNext

\* A query sees finitely many indexes.
LEMMA SeenFinite == IsFiniteSet(indexes) /\ [Next]_vars => IsFiniteSet(indexes')
<1>. SUFFICES ASSUME IsFiniteSet(indexes), [Next]_vars PROVE IsFiniteSet(indexes')
  OBVIOUS
<1>. DEFINE sees == {indexes, {}, {db}, indexes \cup {db}, indexes \cup {db'}}
<1>0. IsFiniteSet({}) /\ \A t : IsFiniteSet({t}) /\ IsFiniteSet(indexes \cup {t})
  BY FS_EmptySet, FS_Singleton, FS_AddElement
<1>1. CASE RowStep
  <2>1. indexes' \in sees
    BY <1>1 DEF RowStep
  <2>. QED  BY <2>1, <1>0
<1>2. CASE RefsNext \/ UNCHANGED vars
  <2>1. indexes' \in sees
    BY <1>2 DEF RefsNext, AskDefinitions, AskPage, Answer, NoRefs, vars, query
  <2>. QED  BY <2>1, <1>0
<1>3. ASSUME NEW r \in Requests, AskShow(r) \/ AskFiles(r)
      PROVE  IsFiniteSet(indexes')
  <2>1. AskShow(r) => indexes' = indexes \cup {db}
    BY DEF AskShow, Resolve
  <2>2. AskFiles(r) => indexes' = {db}
    BY DEF AskFiles
  <2>. QED  BY <1>3, <2>1, <2>2, <1>0
<1>4. CASE AskLines \/ Explain \/ StatRequest \/ Tell
  <2>1. AskLines => indexes' = indexes \cup {db}
    BY DEF AskLines
  <2>2. Explain => indexes' = indexes \cup {db}
    BY DEF Explain, Resolve
  <2>3. StatRequest => indexes' = indexes
    BY DEF StatRequest
  <2>4. Tell => indexes' = {}
    BY DEF Tell
  <2>. QED  BY <1>4, <2>1, <2>2, <2>3, <2>4, <1>0
<1>. QED  BY <1>1, <1>2, <1>3, <1>4 DEF Next

QueryInv == ExactInv /\ RefsInv /\ IsFiniteSet(indexes)

LEMMA QueryInit == Init => QueryInv
BY ExactInit, RefsStart, FS_EmptySet DEF QueryInv, Init

LEMMA QueryStep == QueryInv /\ [Next]_vars => QueryInv'
BY ExactStep, RefsStep, SeenFinite DEF QueryInv, ExactInv

LEMMA QueryAlways == Spec => []QueryInv
BY QueryInit, QueryStep, PTL DEF Spec

(* For any files, page size, limit and interleaving with commands, an answer  *)
(* of refs during which the index stayed as it was is the one that the index *)
(* calls for: the first Limit lines that use the name and do not define it,  *)
(* none lost or repeated where pages meet.                                   *)
THEOREM QuietAnswersAreExact == Spec => []QuietAnswerIsExact
<1>1. QueryInv => QuietAnswerIsExact
  <2>. SUFFICES ASSUME QueryInv, pc = "done", Cardinality(indexes) = 1, NEW t \in indexes
                PROVE  Answers(t)
    BY DEF QuietAnswerIsExact
  <2>1. indexes = {t}
    <3>1. PICK x : indexes = {x}
      BY FS_Singleton DEF QueryInv
    <3>. QED  BY <3>1
  <2>2. {c.row : c \in found} = AnswerOf(t) /\ InOrder(found)
    BY <2>1 DEF QueryInv, RefsInv
  <2>. QED  BY <2>2 DEF Answers, InOrder
<1>. QED  BY <1>1, QueryAlways, PTL

-----------------------------------------------------------------------------
(* The file that a text names.                                               *)

\* The order in which Resolve prefers paths.
Preferred(r, p, q) == Nearer(r, p, q) \/ (~Nearer(r, q, p) /\ p < q)

LEMMA BestOf ==
    ASSUME NEW r, NEW S \in SUBSET Paths, S # {}
    PROVE  /\ Best(r, S) \in S
           /\ \A q \in S \ {Best(r, S)} : Preferred(r, Best(r, S), q)
           /\ r \in S => Best(r, S) = r
<1>. DEFINE R == {e \in S \X S : Preferred(r, e[1], e[2])}
<1>1. \A p, q \in S : <<p, q>> \in R <=> Preferred(r, p, q)
  OBVIOUS
<1>2. IsFiniteSet(S) /\ \A p \in S : p \in Nat /\ PathLength[p] \in Nat
  BY RowAssumption, QueryAssumption, FS_Subset
<1>. HIDE DEF R
<1>3. ASSUME NEW p \in S PROVE ~Preferred(r, p, p)
  BY <1>2 DEF Preferred, Nearer
<1>4. ASSUME NEW p \in S, NEW q \in S, NEW s \in S, Preferred(r, p, q), Preferred(r, q, s)
      PROVE  Preferred(r, p, s)
  BY <1>2, <1>4 DEF Preferred, Nearer
<1>5. ASSUME NEW p \in S, NEW q \in S, p # q
      PROVE  Preferred(r, p, q) \/ Preferred(r, q, p)
  BY <1>2, <1>5 DEF Preferred, Nearer
<1>6. \E p \in S : \A q \in S : <<q, p>> \notin R
  <2>1. \A p \in S : <<p, p>> \notin R
    BY <1>1, <1>3
  <2>2. \A p, q, s \in S : <<p, q>> \in R /\ <<q, s>> \in R => <<p, s>> \in R
    BY <1>1, <1>4
  <2>. QED  BY <1>2, <2>1, <2>2, FirstOfFinite
<1>7. \E p \in S : \A q \in S \ {p} : Preferred(r, p, q)
  BY <1>1, <1>5, <1>6
<1>8. Best(r, S) \in S /\ \A q \in S \ {Best(r, S)} : Preferred(r, Best(r, S), q)
  BY <1>7 DEF Best, Preferred
<1>9. ASSUME r \in S, Best(r, S) # r PROVE FALSE
  <2>1. Preferred(r, Best(r, S), r)
    BY <1>8, <1>9
  <2>. QED  BY <1>9, <2>1 DEF Preferred, Nearer
<1>. QED  BY <1>8, <1>9

\* If the argument is sharp, show.sql and Resolve take the same file.
LEMMA SharpIsBest ==
    ASSUME NEW r \in Requests, IsSharp(r), NEW S \in SUBSET Paths,
           S = S \cap ({r} \cup Under[r]), NEW p \in S, \A q \in S : ~Nearer(r, q, p)
    PROVE  p = Best(r, S)
<1>. DEFINE b == Best(r, S)
<1>. SUFFICES ASSUME p # b PROVE FALSE
  OBVIOUS
<1>1. b \in S /\ Preferred(r, b, p)
  BY BestOf
<1>. HIDE DEF b
<1>2. ~Nearer(r, b, p) /\ ~Nearer(r, p, b)
  BY <1>1 DEF Preferred
<1>3. PathLength[b] \in Nat /\ PathLength[p] \in Nat
  BY <1>1, QueryAssumption
<1>4. p # r /\ b # r /\ PathLength[p] = PathLength[b]
  BY <1>2, <1>3 DEF Nearer
<1>5. p \in Under[r] /\ b \in Under[r]
  BY <1>1, <1>4
<1>. QED  BY <1>4, <1>5 DEF IsSharp

-----------------------------------------------------------------------------
(* Files at rest.                                                            *)

\* A file of the work tree w, read with iconv or without: is it scanned, and is
\* it indexed?  What a cleaned argument names, and the lines that show asks for.
StatusIn(w, ic, p) == Decode(w[p], Fallbacks, ic).status
IsIn(w, ic, p) == w[p] # Gone /\ StatusIn(w, ic, p) # "notText"
IndexedIn(w, ic, p) == IsIn(w, ic, p) /\ StatusIn(w, ic, p) = "indexed"
Named(w, ic, c) == {q \in Paths : q \in {c} \cup Under[c] /\ IsIn(w, ic, q)}
Shown(w, p) ==
    [n \in {m \in DOMAIN w[p].lines : Line - Context <= m /\ m <= Line + Context} |->
        w[p].lines[n]]

\* At rest the index says of each path what the work tree does.
LEMMA IndexAtRest ==
    ASSUME ExactInv, exact, ~moved
    PROVE  /\ Stored(db) = {p \in Paths : IsIn(work, iconv, p)}
           /\ \A p \in Stored(db) : StatusOf(db, p) = StatusIn(work, iconv, p)
           /\ \A p \in Paths : IndexedIn(work, iconv, p) => LinesOf(db, p) = Shown(work, p)
           /\ \A p \in Stored(db) :
                 ~IndexedIn(work, iconv, p) => DOMAIN LinesOf(db, p) = {}
<1>1. /\ db # NoTables /\ Sound(db) /\ FilesTyped(db)
      /\ Stored(db) = {p \in Paths : IsIn(work, iconv, p)}
      /\ \A i \in Ids(db) : db.files[i].blob = work[db.files[i].path]
      /\ \A i \in Ids(db) : db.files[i].as = Scanned(db.files[i].path)
  BY DEF ExactInv, ExactRows, Current, ReadWith, FilesInv, RowsInv, Scanned,
         IsScanned, IsIn, StatusIn
<1>2. ASSUME NEW p \in Stored(db)
      PROVE  StatusOf(db, p) = StatusIn(work, iconv, p)
  <2>1. \E r \in Range(db.files) : r.path = p
    BY DEF Stored, Ids, Range
  <2>. DEFINE row == CHOOSE r \in Range(db.files) : r.path = p
  <2>2. row \in Range(db.files) /\ row.path = p
    BY <2>1
  <2>. HIDE DEF row
  <2>3. PICK i \in Ids(db) : row = db.files[i]
    BY <2>2 DEF Range, Ids
  <2>4. row.as = Scanned(p)
    BY <1>1, <2>2, <2>3
  <2>. QED  BY <2>4 DEF StatusOf, row, StatusIn, Scanned
<1>3. ASSUME NEW p \in Paths, IndexedIn(work, iconv, p)
      PROVE  LinesOf(db, p) = Shown(work, p)
  <2>. DEFINE i == CHOOSE j \in Ids(db) : db.files[j].path = p
  <2>1. i \in Ids(db) /\ db.files[i].path = p
    <3>1. p \in Stored(db)
      BY <1>1, <1>3 DEF IndexedIn
    <3>. QED  BY <3>1 DEF Stored
  <2>. HIDE DEF i
  <2>2. /\ i \in IndexedIds(db) /\ db.files[i].blob = work[p]
    BY <1>1, <1>3, <2>1 DEF IndexedIds, IsIndexed, IndexedIn, StatusIn, Scanned
  <2>3. \A m : <<i, m>> \in DOMAIN db.lines <=> m \in DOMAIN work[p].lines
    <3>1. DOMAIN db.lines = LineKeys(db)
      BY <1>1, AgreeParts DEF Sound
    <3>2. ASSUME NEW m, m \in DOMAIN work[p].lines PROVE <<i, m>> \in LineKeys(db)
      BY <2>2, <3>2, LineKey
    <3>3. ASSUME NEW m, <<i, m>> \in LineKeys(db) PROVE m \in DOMAIN work[p].lines
      <4>1. PICK j \in IndexedIds(db) : <<i, m>> \in KeysOf(db, j)
        BY <3>3, LineKey
      <4>2. j = i /\ m \in DOMAIN db.files[j].blob.lines
        BY <4>1 DEF KeysOf
      <4>. QED  BY <2>2, <4>2
    <3>. QED  BY <3>1, <3>2, <3>3
  <2>4. \A m \in DOMAIN work[p].lines : db.lines[<<i, m>>] = work[p].lines[m]
    <3>1. \A k \in DOMAIN db.lines : db.lines[k] = db.files[k[1]].blob.lines[k[2]]
      BY <1>1, AgreeParts DEF Sound
    <3>. TAKE m \in DOMAIN work[p].lines
    <3>2. <<i, m>> \in DOMAIN db.lines /\ <<i, m>>[1] = i /\ <<i, m>>[2] = m
      BY <2>3
    <3>. QED  BY <2>2, <3>1, <3>2
  <2>5. \A m \in DOMAIN work[p].lines :
           m \in Window <=> Line - Context <= m /\ m <= Line + Context
    <3>1. \A m \in DOMAIN work[p].lines : m \in Nat \ {0}
      <4>1. work[p] \in Blobs
        BY <1>1, <2>1, <2>2 DEF FilesTyped
      <4>2. DOMAIN work[p].lines = 1..Len(work[p].lines)
        BY <4>1, RowAssumption
      <4>. QED  BY <4>2
    <3>2. Line \in Nat \ {0} /\ Context \in Nat
      BY QueryAssumption
    <3>. DEFINE S == {Line - Context, 1}
    <3>3. IsFiniteSet(S) /\ S \subseteq Int /\ S # {}
      <4>1. IsFiniteSet({1}) /\ S = {1} \cup {Line - Context}
        BY FS_Singleton
      <4>2. IsFiniteSet({1} \cup {Line - Context})
        BY <4>1, FS_AddElement, Zenon
      <4>. QED  BY <3>2, <4>1, <4>2
    <3>4. Max(S) \in S /\ \A x \in S : x <= Max(S)
      <4>. HIDE DEF S
      <4>. QED  BY <3>3, Largest
    <3>5. Max(S) \in {Line - Context, 1} /\ Line - Context <= Max(S) /\ 1 <= Max(S)
      BY <3>4
    <3>6. Window = Max(S)..(Line + Context)
      BY DEF Window
    <3>. HIDE DEF S
    <3>. QED  BY <3>1, <3>2, <3>5, <3>6
  <2>6. {m \in Window : <<i, m>> \in DOMAIN db.lines} =
        {m \in DOMAIN work[p].lines : Line - Context <= m /\ m <= Line + Context}
    BY <2>3, <2>5
  <2>7. LinesOf(db, p) =
           [n \in {m \in Window : <<i, m>> \in DOMAIN db.lines} |-> db.lines[<<i, n>>]]
    BY DEF LinesOf, i
  <2>. QED  BY <2>4, <2>6, <2>7 DEF Shown
<1>4. ASSUME NEW p \in Stored(db), ~IndexedIn(work, iconv, p)
      PROVE  DOMAIN LinesOf(db, p) = {}
  <2>. DEFINE i == CHOOSE j \in Ids(db) : db.files[j].path = p
  <2>1. i \in Ids(db) /\ db.files[i].path = p
    BY DEF Stored
  <2>. HIDE DEF i
  <2>2. i \notin IndexedIds(db)
    BY <1>1, <1>4, <2>1 DEF IndexedIds, IsIndexed, IndexedIn, StatusIn, Scanned
  <2>3. \A m : <<i, m>> \notin DOMAIN db.lines
    <3>1. DOMAIN db.lines = LineKeys(db)
      BY <1>1, AgreeParts DEF Sound
    <3>2. ASSUME NEW m, <<i, m>> \in LineKeys(db) PROVE FALSE
      <4>1. PICK j \in IndexedIds(db) : <<i, m>> \in KeysOf(db, j)
        BY <3>2, LineKey
      <4>2. j = i
        BY <4>1 DEF KeysOf
      <4>. QED  BY <2>2, <4>1, <4>2
    <3>. QED  BY <3>1, <3>2
  <2>4. LinesOf(db, p) =
           [n \in {m \in Window : <<i, m>> \in DOMAIN db.lines} |-> db.lines[<<i, n>>]]
    BY DEF LinesOf, i
  <2>5. {m \in Window : <<i, m>> \in DOMAIN db.lines} = {}
    BY <2>3
  <2>. QED  BY <2>4, <2>5
<1>. QED  BY <1>1, <1>2, <1>3, <1>4

-----------------------------------------------------------------------------
(* Answers of show and files.                                                *)

AnswerTyped(a) ==
    /\ a = [to |-> a.to, request |-> a.request, path |-> a.path,
            found |-> a.found, reason |-> a.reason, lines |-> a.lines]
    /\ a.to \in {"none", "show", "files"} /\ a.request \in Requests \cup {NoPath}
    /\ a.path \in Paths \cup {NoPath} /\ a.found \in BOOLEAN
    /\ a.reason \in {"null", "skipped", "missing", "untracked", "excluded", "unknown"}

\* The indexed paths among which Resolve looks.
Matching(r) == Stored(db) \cap Fitting(r)

LEMMA StoredPaths == FilesInv /\ db # NoTables => Stored(db) \in SUBSET Paths
BY DEF FilesInv, FilesTyped, Stored

\* What Resolve makes of the answer new: r is the argument and p the first path.
Resolves(new, r, p) ==
    /\ AnswerTyped(answer') /\ answer'.to = new.to /\ answer'.request = r
    /\ Matching(r) # {} =>
          p \in Matching(r) /\ (Cleaned[r] \in Matching(r) => p = Cleaned[r])
    /\ \/ Matching(r) = {} /\ pc' = "stat" /\ answer' = new
       \/ /\ Matching(r) # {} /\ StatusOf(db, p) = "skipped" /\ pc' = "told"
          /\ answer'.reason = "skipped" /\ answer'.found = new.found
          /\ new.to = "show" => answer'.path = p
       \/ /\ Matching(r) # {} /\ StatusOf(db, p) = "indexed" /\ pc' = "lines"
          /\ new.to = "show" /\ answer'.path = p /\ answer'.found = TRUE
          /\ answer'.lines = new.lines
       \/ /\ Matching(r) # {} /\ StatusOf(db, p) = "indexed" /\ pc' = "told"
          /\ new.to # "show" /\ answer' = new

LEMMA Resolved ==
    ASSUME FilesInv, db # NoTables, NEW new, AnswerTyped(new), Resolve(new),
           NEW r, r = new.request, NEW p, p = Best(Cleaned[r], Matching(r))
    PROVE  Resolves(new, r, p)
<1>1. Matching(r) \in SUBSET Paths
  BY StoredPaths DEF Matching
<1>2. Matching(r) # {} =>
         p \in Matching(r) /\ (Cleaned[r] \in Matching(r) => p = Cleaned[r])
  BY <1>1, BestOf
<1>. DEFINE skipped == [new EXCEPT !.reason = "skipped",
                                   !.path = IF new.to = "show" THEN p ELSE NoPath]
            shown == [new EXCEPT !.path = p, !.found = TRUE]
<1>3. \/ Matching(r) = {} /\ pc' = "stat" /\ answer' = new
      \/ /\ Matching(r) # {} /\ StatusOf(db, p) = "skipped" /\ pc' = "told"
         /\ answer' = skipped
      \/ /\ Matching(r) # {} /\ StatusOf(db, p) = "indexed" /\ pc' = "lines"
         /\ new.to = "show" /\ answer' = shown
      \/ /\ Matching(r) # {} /\ StatusOf(db, p) = "indexed" /\ pc' = "told"
         /\ new.to # "show" /\ answer' = new
  BY DEF Resolve, Matching
<1>4. ASSUME Matching(r) # {}
      PROVE  /\ AnswerTyped(skipped) /\ skipped.to = new.to /\ skipped.request = new.request
             /\ skipped.reason = "skipped" /\ skipped.found = new.found
             /\ new.to = "show" => skipped.path = p
  <2>. DEFINE at == IF new.to = "show" THEN p ELSE NoPath
  <2>1. at \in Paths \cup {NoPath} /\ (new.to = "show" => at = p)
    BY <1>1, <1>2, <1>4
  <2>2. skipped = [new EXCEPT !.reason = "skipped", !.path = at]
    OBVIOUS
  <2>. HIDE DEF at, skipped
  <2>3. skipped = [to |-> new.to, request |-> new.request, path |-> at,
                   found |-> new.found, reason |-> "skipped", lines |-> new.lines]
    BY <2>2 DEF AnswerTyped
  <2>. QED  BY <2>1, <2>3 DEF AnswerTyped
<1>5. ASSUME Matching(r) # {}
      PROVE  /\ AnswerTyped(shown) /\ shown.to = new.to /\ shown.request = new.request
             /\ shown.path = p /\ shown.found = TRUE /\ shown.lines = new.lines
  <2>1. p \in Paths
    BY <1>1, <1>2, <1>5
  <2>. DEFINE at == [new EXCEPT !.path = p]
  <2>2. at = [to |-> new.to, request |-> new.request, path |-> p,
              found |-> new.found, reason |-> new.reason, lines |-> new.lines]
    BY DEF AnswerTyped
  <2>3. shown = [at EXCEPT !.found = TRUE]
    OBVIOUS
  <2>. HIDE DEF at, shown
  <2>4. shown = [to |-> new.to, request |-> new.request, path |-> p,
                 found |-> TRUE, reason |-> new.reason, lines |-> new.lines]
    BY <2>2, <2>3
  <2>. QED  BY <2>1, <2>4 DEF AnswerTyped
<1>. HIDE DEF skipped, shown
<1>. QED  BY <1>2, <1>3, <1>4, <1>5 DEF Resolves

LEMMA AskedTyped ==
    ASSUME NEW r \in Requests, NEW to \in {"show", "files"}, NEW any \in BOOLEAN
    PROVE  /\ AnswerTyped(Asked(to, r, any))
           /\ Asked(to, r, any).to = to /\ Asked(to, r, any).request = r
BY DEF AnswerTyped, Asked

\* The argument that show hands on.
LEMMA HandedOn ==
    ASSUME NEW r \in Requests
    PROVE  Unslashed[r] \in Requests
BY QueryAssumption

AnswerInv ==
    /\ AnswerTyped(answer) /\ rested \in BOOLEAN
    /\ pc \in {"idle", "page", "done"} => answer = NoAnswer
    /\ pc \in {"stat", "lines", "explain", "told"} =>
          answer.to \in {"show", "files"} /\ answer.request \in Requests
    /\ pc = "lines" => answer.to = "show"
    /\ pc = "explain" => answer.to = "files"
    /\ rested => exact /\ ~moved

LEMMA NoAnswerTyped == AnswerTyped(NoAnswer)
BY DEF AnswerTyped, NoAnswer, Asked

LEMMA AnswerInit == Init => AnswerInv
BY NoAnswerTyped DEF Init, AnswerInv

\* A query that asks for lines or an explanation has an index.
LEMMA IndexIsThere ==
    ASSUME QueryInv, pc \in {"page", "lines", "explain"}
    PROVE  db # NoTables /\ FilesInv
<1>1. db \in indexes /\ Proper(db)
  BY DEF QueryInv, RefsInv, Seen
<1>. QED  BY <1>1, ProperIsIndex DEF QueryInv, ExactInv

LEMMA AnswerStep == QueryInv /\ QueryInv' /\ AnswerInv /\ [Next]_vars => AnswerInv'
<1>. SUFFICES ASSUME QueryInv, QueryInv', AnswerInv, [Next]_vars PROVE AnswerInv'
  OBVIOUS
<1>1. {exact, moved, exact', moved'} \subseteq BOOLEAN /\ FilesInv
  BY DEF QueryInv, ExactInv, FilesInv, Basics
<1>2. CASE RowStep
  <2>1. UNCHANGED <<pc, answer>> /\ rested' = (rested /\ exact' /\ ~moved')
    BY <1>2 DEF RowStep
  <2>. QED  BY <1>1, <2>1 DEF AnswerInv
<1>3. CASE RefsNext /\ UNCHANGED <<answer, rested>>
  <2>1. pc \in {"idle", "page", "done"} /\ pc' \in {"idle", "page", "done"} /\ UNCHANGED rowVars
    BY <1>3 DEF RefsNext, AskDefinitions, AskPage, Answer
  <2>. QED  BY <1>3, <2>1 DEF AnswerInv, rowVars
<1>4. ASSUME NEW a \in Requests, AskShow(a) PROVE AnswerInv'
  <2>. DEFINE r == Unslashed[a]
  <2>1. /\ Resolve(Asked("show", r, FALSE)) /\ db # NoTables
        /\ rested' = (exact /\ ~moved) /\ UNCHANGED rowVars
    BY <1>4 DEF AskShow
  <2>5. r \in Requests
    BY HandedOn
  <2>. HIDE DEF r
  <2>2. AnswerTyped(Asked("show", r, FALSE))
    BY <2>5, AskedTyped
  <2>3. /\ Asked("show", r, FALSE).to = "show" /\ Asked("show", r, FALSE).request = r
    BY <2>5, AskedTyped
  <2>4. /\ AnswerTyped(answer') /\ answer'.to = "show" /\ answer'.request = r
        /\ pc' \in {"stat", "lines", "told"}
    <3>1. Resolves(Asked("show", r, FALSE), r, Best(Cleaned[r], Matching(r)))
      BY <1>1, <2>1, <2>2, <2>3, Resolved
    <3>. QED  BY <2>3, <3>1 DEF Resolves
  <2>. QED  BY <1>1, <2>1, <2>4, <2>5 DEF AnswerInv, rowVars
<1>5. ASSUME NEW r \in Requests, AskFiles(r) PROVE AnswerInv'
  <2>1. PICK b \in BOOLEAN : answer' = Asked("files", r, b) /\ pc' \in {"told", "explain"}
    <3>1. PICK s \in Statuses :
            LET any == WithStatus(db, s) \cap Holding[r] # {}
            IN  answer' = Asked("files", r, any) /\ pc' = (IF any THEN "told" ELSE "explain")
      BY <1>5 DEF AskFiles
    <3>. DEFINE any == WithStatus(db, s) \cap Holding[r] # {}
    <3>2. any \in BOOLEAN
      OBVIOUS
    <3>. HIDE DEF any
    <3>. QED  BY <3>1, <3>2 DEF any
  <2>2. rested' = (exact /\ ~moved) /\ UNCHANGED rowVars
    BY <1>5 DEF AskFiles
  <2>3. AnswerTyped(answer') /\ answer'.to = "files" /\ answer'.request = r
    BY <2>1, AskedTyped
  <2>. QED  BY <1>1, <2>1, <2>2, <2>3 DEF AnswerInv, rowVars
<1>6. CASE AskLines
  <2>1. pc = "lines" /\ pc' = "told" /\ UNCHANGED <<rowVars, rested>>
    BY <1>6 DEF AskLines
  <2>2. AnswerTyped(answer') /\ answer'.to = answer.to /\ answer'.request = answer.request
    <3>1. answer' = answer \/ \E p : answer' = [answer EXCEPT !.lines = LinesOf(db, p)]
      BY <1>6 DEF AskLines
    <3>2. ASSUME NEW x
          PROVE  LET a == [answer EXCEPT !.lines = x] IN
                 AnswerTyped(a) /\ a.to = answer.to /\ a.request = answer.request
      BY DEF AnswerInv, AnswerTyped
    <3>. QED  BY <3>1, <3>2 DEF AnswerInv
  <2>. QED  BY <2>1, <2>2 DEF AnswerInv, rowVars
<1>7. CASE Explain
  <2>1. pc = "explain" /\ Resolve(answer) /\ UNCHANGED <<rowVars, rested>>
    BY <1>7 DEF Explain
  <2>2. db # NoTables /\ FilesInv
    BY <2>1, IndexIsThere
  <2>3. answer.to = "files" /\ AnswerTyped(answer) /\ answer.request \in Requests
    BY <2>1 DEF AnswerInv
  <2>4. /\ AnswerTyped(answer') /\ answer'.to = "files" /\ answer'.request = answer.request
        /\ pc' \in {"stat", "told"}
    <3>1. Resolves(answer, answer.request, Best(Cleaned[answer.request], Matching(answer.request)))
      BY <2>1, <2>2, <2>3, Resolved
    <3>. QED  BY <2>3, <3>1 DEF Resolves
  <2>. QED  BY <2>1, <2>3, <2>4 DEF AnswerInv, rowVars
<1>8. CASE StatRequest
  <2>1. pc = "stat" /\ pc' = "told" /\ UNCHANGED <<rowVars, rested>>
    BY <1>8 DEF StatRequest
  <2>2. \E x \in {"missing", "untracked", "excluded", "unknown"} :
           answer' = [answer EXCEPT !.reason = x]
    BY <1>8 DEF StatRequest, Reason
  <2>3. ASSUME NEW x \in {"missing", "untracked", "excluded", "unknown"}
        PROVE  LET a == [answer EXCEPT !.reason = x] IN
               AnswerTyped(a) /\ a.to = answer.to /\ a.request = answer.request
    BY DEF AnswerInv, AnswerTyped
  <2>4. AnswerTyped(answer') /\ answer'.to = answer.to /\ answer'.request = answer.request
    BY <2>1, <2>2, <2>3
  <2>. QED  BY <2>1, <2>4 DEF AnswerInv, rowVars
<1>9. CASE Tell
  <2>1. pc' = "idle" /\ answer' = NoAnswer /\ rested' = FALSE
    BY <1>9 DEF Tell
  <2>. QED  BY <2>1, NoAnswerTyped DEF AnswerInv
<1>10. CASE UNCHANGED vars
  <2>1. UNCHANGED <<rowVars, pc, answer, rested>>
    BY <1>10 DEF vars, query
  <2>. QED  BY <2>1 DEF AnswerInv, rowVars
<1>. QED  BY <1>2, <1>3, <1>4, <1>5, <1>6, <1>7, <1>8, <1>9, <1>10 DEF Next

\* What is so of show and of files --explain in the work tree w, as far as they
\* have come.
ReasonIn(w, ic, a) ==
    LET r == a.request
        c == Cleaned[a.request]
    IN  /\ a.reason = "skipped" => \E p \in Named(w, ic, c) : ~IndexedIn(w, ic, p)
        /\ a.reason \notin {"null", "skipped"} =>
              /\ Named(w, ic, c) = {}
              /\ r \in Outside => a.reason = "unknown"
              /\ c \in Paths /\ w[c] # Gone => a.reason = "excluded"

ShowRight(w, ic, at, a) ==
    LET r == a.request
        c == Cleaned[a.request]
        p == a.path
        all == Named(w, ic, c)
    IN  /\ at = "stat" => ~a.found /\ all = {}
        /\ at = "lines" =>
              /\ a.found /\ p \in all /\ p = Best(c, all) /\ IndexedIn(w, ic, p)
              /\ DOMAIN a.lines = {}
        /\ at = "told" /\ a.found =>
              /\ p \in all /\ IndexedIn(w, ic, p) /\ (c \in all => p = c)
              /\ r = c /\ IsSharp(r) => a.lines = Shown(w, p)
              /\ \/ DOMAIN a.lines = {}
                 \/ \E q \in EndsIn[r] : IndexedIn(w, ic, q) /\ a.lines = Shown(w, q)
        /\ at = "told" /\ ~a.found => a.reason # "null" /\ ReasonIn(w, ic, a)

ExplainRight(w, ic, at, a) ==
    LET r == a.request
        c == Cleaned[a.request]
        any == \E p \in Holding[r] : IndexedIn(w, ic, p)
    IN  /\ at = "explain" => ~a.found /\ ~any /\ a.reason = "null"
        /\ at = "stat" => ~a.found /\ ~any /\ Named(w, ic, c) = {}
        /\ at = "told" =>
              /\ a.found <=> any
              /\ ~a.found => ReasonIn(w, ic, a)
              /\ ~a.found /\ a.reason = "null" =>
                    r # c /\ \E p \in Named(w, ic, c) : IndexedIn(w, ic, p)

RightInv ==
    rested =>
        /\ answer.to = "show" => ShowRight(work, iconv, pc, answer)
        /\ answer.to = "files" /\ Statuses = {"indexed"} =>
              ExplainRight(work, iconv, pc, answer)

LEMMA MatchingAtRest ==
    ASSUME ExactInv, exact, ~moved, NEW r
    PROVE  Matching(r) = Named(work, iconv, Cleaned[r])
BY IndexAtRest DEF Matching, Fitting, Named

LEMMA ShowResolved ==
    ASSUME QueryInv, exact, ~moved, db # NoTables, NEW r \in Requests,
           Resolve(Asked("show", r, FALSE))
    PROVE  ShowRight(work, iconv, pc', answer')
<1>. DEFINE c == Cleaned[r]
            all == Named(work, iconv, c)
            p == Best(c, all)
            new == Asked("show", r, FALSE)
<1>1. /\ FilesInv /\ ExactInv /\ Matching(r) = all
      /\ \A q \in Stored(db) : StatusOf(db, q) = StatusIn(work, iconv, q)
  BY IndexAtRest, MatchingAtRest DEF QueryInv, ExactInv
<1>2. /\ new.request = r /\ new.to = "show" /\ new.found = FALSE /\ AnswerTyped(new)
      /\ DOMAIN new.lines = {}
  <2>1. /\ new.request = r /\ new.to = "show" /\ new.found = FALSE
        /\ new.lines = <<>>
    BY DEF Asked
  <2>2. DOMAIN <<>> = {}
    OBVIOUS
  <2>. QED  BY <2>1, <2>2, AskedTyped
<1>. HIDE DEF new
<1>3. /\ answer'.request = r
      /\ all # {} => p \in all /\ (c \in all => p = c)
      /\ \/ all = {} /\ pc' = "stat" /\ answer' = new
         \/ /\ all # {} /\ StatusOf(db, p) = "skipped" /\ pc' = "told"
            /\ answer'.reason = "skipped" /\ answer'.found = FALSE /\ answer'.path = p
         \/ /\ all # {} /\ StatusOf(db, p) = "indexed" /\ pc' = "lines"
            /\ answer'.path = p /\ answer'.found = TRUE /\ DOMAIN answer'.lines = {}
  <2>1. Resolve(new) /\ r = new.request /\ p = Best(Cleaned[r], Matching(r))
    BY <1>1, <1>2 DEF new
  <2>. HIDE DEF p, all
  <2>2. Resolves(new, r, p)
    BY <1>1, <1>2, <2>1, Resolved
  <2>. QED  BY <1>1, <1>2, <2>2 DEF Resolves
<1>4. \A q \in all : StatusOf(db, q) = StatusIn(work, iconv, q) /\ IsIn(work, iconv, q)
  BY <1>1 DEF Named, Matching
<1>5. all # {} => (IndexedIn(work, iconv, p) <=> StatusOf(db, p) = "indexed")
  BY <1>3, <1>4 DEF IndexedIn
<1>. HIDE DEF p, all
<1>6. ShowRight(work, iconv, pc', answer')
  <2>. DEFINE a == answer'
  <2>1. /\ a.request = r /\ all = Named(work, iconv, Cleaned[a.request])
        /\ p = Best(Cleaned[a.request], all)
    BY <1>3 DEF all, p
  <2>2. CASE all = {} /\ pc' = "stat" /\ a = new
    BY <1>2, <2>1, <2>2 DEF ShowRight
  <2>3. CASE /\ all # {} /\ StatusOf(db, p) = "skipped" /\ pc' = "told"
             /\ a.reason = "skipped" /\ a.found = FALSE /\ a.path = p
    <3>1. ReasonIn(work, iconv, a)
      BY <1>3, <1>5, <2>1, <2>3 DEF ReasonIn
    <3>. QED  BY <2>3, <3>1 DEF ShowRight
  <2>4. CASE /\ all # {} /\ StatusOf(db, p) = "indexed" /\ pc' = "lines"
             /\ a.path = p /\ a.found = TRUE /\ DOMAIN a.lines = {}
    BY <1>3, <1>5, <2>1, <2>4 DEF ShowRight
  <2>. QED  BY <1>3, <2>2, <2>3, <2>4
<1>. QED  BY <1>6

LEMMA LinesRight ==
    ASSUME QueryInv, AnswerInv, RightInv, rested, AskLines
    PROVE  ShowRight(work, iconv, "told", answer')
<1>. DEFINE r == answer.request
            c == Cleaned[r]
            all == Named(work, iconv, c)
            matches == Stored(db) \cap (EndsIn[r])
<1>1. /\ pc = "lines" /\ answer.to = "show" /\ r \in Requests /\ exact /\ ~moved
      /\ AnswerTyped(answer) /\ ExactInv
  BY DEF AskLines, AnswerInv, QueryInv
<1>2. /\ answer.found /\ answer.path \in all /\ answer.path = Best(c, all)
      /\ IndexedIn(work, iconv, answer.path) /\ DOMAIN answer.lines = {}
  BY <1>1 DEF RightInv, ShowRight
<1>3. /\ Stored(db) = {p \in Paths : IsIn(work, iconv, p)}
      /\ \A p \in Paths : IndexedIn(work, iconv, p) => LinesOf(db, p) = Shown(work, p)
      /\ \A p \in Stored(db) : ~IndexedIn(work, iconv, p) => DOMAIN LinesOf(db, p) = {}
  BY <1>1, IndexAtRest
<1>4. all \in SUBSET Paths /\ (c \in all => answer.path = c)
  <2>1. all \in SUBSET Paths
    BY DEF Named
  <2>. HIDE DEF all
  <2>. QED  BY <1>2, <2>1, BestOf
<1>5. \/ matches = {} /\ UNCHANGED answer
      \/ \E p \in {q \in matches : \A s \in matches : ~Nearer(r, s, q)} :
            answer' = [answer EXCEPT !.lines = LinesOf(db, p)]
  BY DEF AskLines
<1>6. r = c /\ IsSharp(r) => matches = all /\ all = all \cap ({r} \cup Under[r])
  BY <1>3 DEF IsSharp, Named
<1>7. matches \subseteq Stored(db) /\ matches \subseteq EndsIn[r] /\ matches \subseteq Paths
  BY <1>3
<1>8. ASSUME NEW b, AnswerTyped(b), b.request = r, b.found, b.path = answer.path,
             r = c /\ IsSharp(r) => b.lines = Shown(work, b.path),
             \/ DOMAIN b.lines = {}
             \/ \E q \in EndsIn[r] : IndexedIn(work, iconv, q) /\ b.lines = Shown(work, q)
      PROVE  ShowRight(work, iconv, "told", b)
  BY <1>2, <1>4, <1>8 DEF ShowRight
<1>. HIDE DEF r, c, all, matches
<1>9. CASE matches = {} /\ UNCHANGED answer
  BY <1>1, <1>2, <1>6, <1>8, <1>9 DEF r
<1>10. CASE \E p \in {q \in matches : \A s \in matches : ~Nearer(r, s, q)} :
              answer' = [answer EXCEPT !.lines = LinesOf(db, p)]
  <2>1. PICK p \in matches : /\ \A s \in matches : ~Nearer(r, s, p)
                             /\ answer' = [answer EXCEPT !.lines = LinesOf(db, p)]
    BY <1>10
  <2>2. /\ AnswerTyped(answer') /\ answer'.request = r /\ answer'.path = answer.path
        /\ answer'.found /\ answer'.lines = LinesOf(db, p)
    BY <1>1, <1>2, <2>1 DEF AnswerTyped, r
  <2>3. ASSUME r = c, IsSharp(r) PROVE answer'.lines = Shown(work, answer'.path)
    <3>1. p = Best(r, all)
      BY <1>1, <1>4, <1>6, <2>1, <2>3, SharpIsBest
    <3>. QED  BY <1>2, <1>3, <1>7, <2>2, <2>3, <3>1
  <2>4. \/ DOMAIN answer'.lines = {}
        \/ \E q \in EndsIn[r] : IndexedIn(work, iconv, q) /\ answer'.lines = Shown(work, q)
    <3>1. p \in Stored(db) /\ p \in EndsIn[r] /\ p \in Paths
      BY <1>7, <2>1
    <3>2. CASE IndexedIn(work, iconv, p)
      BY <1>3, <2>2, <3>1, <3>2
    <3>3. CASE ~IndexedIn(work, iconv, p)
      BY <1>3, <2>2, <3>1, <3>3
    <3>. QED  BY <3>2, <3>3
  <2>. QED  BY <1>8, <2>2, <2>3, <2>4
<1>. QED  BY <1>5, <1>9, <1>10

LEMMA StatRight ==
    ASSUME AnswerInv, RightInv, rested, StatRequest
    PROVE  /\ answer.to = "show" => ShowRight(work, iconv, "told", answer')
           /\ answer.to = "files" /\ Statuses = {"indexed"} =>
                 ExplainRight(work, iconv, "told", answer')
<1>. DEFINE r == answer.request
            c == Cleaned[r]
<1>1. pc = "stat" /\ AnswerTyped(answer) /\ r \in Requests
  BY DEF StatRequest, AnswerInv
<1>2. PICK x \in {"missing", "untracked", "excluded", "unknown"} :
         /\ answer' = [answer EXCEPT !.reason = x]
         /\ r \in Outside => x = "unknown"
         /\ IsFile(c) => r \in Outside \/ x = "excluded"
  BY DEF StatRequest, Reason
<1>3. IsFile(c) => r \notin Outside
  BY <1>1, QueryAssumption DEF IsFile
<1>4. /\ answer'.request = r /\ answer'.found = answer.found /\ answer'.reason = x
  BY <1>1, <1>2 DEF AnswerTyped
<1>5. ASSUME Named(work, iconv, c) = {}
      PROVE  ReasonIn(work, iconv, answer')
  BY <1>2, <1>3, <1>4, <1>5 DEF ReasonIn, IsFile
<1>6. x # "null"
  BY <1>2
<1>. HIDE DEF r, c
<1>7. ASSUME answer.to = "show"
      PROVE  ShowRight(work, iconv, "told", answer')
  <2>1. ~answer.found /\ Named(work, iconv, c) = {}
    BY <1>1, <1>7 DEF RightInv, ShowRight, r, c
  <2>. QED  BY <1>4, <1>5, <1>6, <2>1 DEF ShowRight
<1>8. ASSUME answer.to = "files", Statuses = {"indexed"}
      PROVE  ExplainRight(work, iconv, "told", answer')
  <2>1. /\ ~answer.found /\ Named(work, iconv, c) = {}
        /\ ~ \E p \in Holding[r] : IndexedIn(work, iconv, p)
    BY <1>1, <1>8 DEF RightInv, ExplainRight, r, c
  <2>. QED  BY <1>4, <1>5, <1>6, <2>1 DEF ExplainRight
<1>. QED  BY <1>7, <1>8

LEMMA FilesAsked ==
    ASSUME QueryInv, exact, ~moved, NEW r \in Requests, AskFiles(r), Statuses = {"indexed"}
    PROVE  ExplainRight(work, iconv, pc', answer')
<1>. DEFINE any == \E p \in Holding[r] : IndexedIn(work, iconv, p)
            hits == WithStatus(db, "indexed") \cap Holding[r]
<1>1. answer' = Asked("files", r, hits # {}) /\ pc' = (IF hits # {} THEN "told" ELSE "explain")
  BY DEF AskFiles
<1>2. /\ Stored(db) = {p \in Paths : IsIn(work, iconv, p)}
      /\ \A p \in Stored(db) : StatusOf(db, p) = StatusIn(work, iconv, p)
  BY IndexAtRest DEF QueryInv
<1>3. Holding[r] \subseteq Paths
  BY QueryAssumption
<1>4. hits # {} <=> any
  BY <1>2, <1>3 DEF WithStatus, IndexedIn
<1>. HIDE DEF hits
<1>5. /\ answer'.request = r /\ answer'.reason = "null"
      /\ answer'.found <=> hits # {}
  BY <1>1 DEF Asked
<1>. QED  BY <1>1, <1>4, <1>5 DEF ExplainRight

LEMMA ExplainResolved ==
    ASSUME QueryInv, AnswerInv, RightInv, rested, Explain, Statuses = {"indexed"}
    PROVE  ExplainRight(work, iconv, pc', answer')
<1>. DEFINE r == answer.request
            c == Cleaned[r]
            all == Named(work, iconv, c)
            p == Best(c, all)
<1>1. /\ pc = "explain" /\ answer.to = "files" /\ r \in Requests /\ exact /\ ~moved
      /\ AnswerTyped(answer) /\ ExactInv /\ Resolve(answer)
  BY DEF Explain, AnswerInv, QueryInv
<1>2. /\ ~answer.found /\ answer.reason = "null"
      /\ ~ \E q \in Holding[r] : IndexedIn(work, iconv, q)
  BY <1>1 DEF RightInv, ExplainRight
<1>3. FilesInv /\ db # NoTables /\ Matching(r) = all
  BY <1>1, IndexIsThere, MatchingAtRest
<1>4. Resolves(answer, r, p)
  BY <1>1, <1>3, Resolved
<1>5. r = c => all \subseteq Holding[r]
  BY <1>1, QueryAssumption DEF Named
<1>6. \A q \in all : /\ IsIn(work, iconv, q)
                     /\ IndexedIn(work, iconv, q) <=> StatusOf(db, q) = "indexed"
  <2>1. \A q \in all : StatusOf(db, q) = StatusIn(work, iconv, q) /\ IsIn(work, iconv, q)
    BY <1>1, IndexAtRest DEF Named
  <2>. HIDE DEF all
  <2>. QED  BY <2>1 DEF IndexedIn
<1>. HIDE DEF r, c, all, p
<1>7. /\ all # {} => p \in all
      /\ \/ all = {} /\ pc' = "stat" /\ answer' = answer
         \/ /\ all # {} /\ StatusOf(db, p) = "skipped" /\ pc' = "told"
            /\ answer'.reason = "skipped" /\ answer'.found = answer.found
            /\ answer'.request = r
         \/ all # {} /\ StatusOf(db, p) = "indexed" /\ pc' = "told" /\ answer' = answer
  BY <1>1, <1>3, <1>4 DEF Resolves
<1>8. CASE all = {} /\ pc' = "stat" /\ answer' = answer
  BY <1>2, <1>8 DEF ExplainRight, all, r, c
<1>9. CASE /\ all # {} /\ StatusOf(db, p) = "skipped" /\ pc' = "told"
           /\ answer'.reason = "skipped" /\ answer'.found = answer.found
           /\ answer'.request = r
  <2>1. ReasonIn(work, iconv, answer')
    BY <1>6, <1>7, <1>9 DEF ReasonIn, all, c
  <2>. QED  BY <1>2, <1>9, <2>1 DEF ExplainRight
<1>10. CASE all # {} /\ StatusOf(db, p) = "indexed" /\ pc' = "told" /\ answer' = answer
  <2>1. p \in all /\ IndexedIn(work, iconv, p)
    BY <1>6, <1>7, <1>10
  <2>2. r # c
    BY <1>2, <1>5, <2>1
  <2>3. ReasonIn(work, iconv, answer)
    BY <1>2 DEF ReasonIn
  <2>. QED  BY <1>2, <1>10, <2>1, <2>2, <2>3 DEF ExplainRight, all, r, c
<1>. QED  BY <1>7, <1>8, <1>9, <1>10

\* Files at rest do not change under a query.
LEMMA RestLasts ==
    ASSUME AnswerInv, RowNext, rested, exact', ~moved'
    PROVE  UNCHANGED <<work, iconv>>
<1>1. ASSUME NEW p \in Paths, Edit(p) \/ MergeConflict(p) PROVE FALSE
  BY <1>1 DEF Edit, MergeConflict, Acts
<1>2. CASE ToggleIconv
  BY <1>2 DEF ToggleIconv, Acts
<1>3. CASE BeginRebuild \/ BeginUpdate
  BY <1>3 DEF BeginRebuild, BeginUpdate, Begin, user
<1>4. CASE Commit \/ Abort
  BY <1>4 DEF Commit, Abort, user
<1>5. ASSUME NEW e \in todo, Walk(e) PROVE UNCHANGED <<work, iconv>>
  BY <1>5 DEF Walk, user
<1>. QED  BY <1>1, <1>2, <1>3, <1>4, <1>5 DEF RowNext

LEMMA RightStep ==
    QueryInv /\ AnswerInv /\ AnswerInv' /\ RightInv /\ [Next]_vars => RightInv'
<1>. SUFFICES ASSUME QueryInv, AnswerInv, AnswerInv', RightInv, [Next]_vars, rested'
              PROVE  /\ answer'.to = "show" => ShowRight(work', iconv', pc', answer')
                     /\ answer'.to = "files" /\ Statuses = {"indexed"} =>
                           ExplainRight(work', iconv', pc', answer')
  BY DEF RightInv
<1>1. exact' /\ ~moved' /\ AnswerTyped(answer)
  BY DEF AnswerInv
<1>2. ASSUME UNCHANGED <<work, iconv, pc, answer>>, rested PROVE RightInv'
  BY <1>2 DEF RightInv
<1>3. CASE RowStep
  <2>1. RowNext /\ UNCHANGED <<pc, answer>> /\ rested
    BY <1>3 DEF RowStep
  <2>2. UNCHANGED <<work, iconv>>
    BY <1>1, <2>1, RestLasts
  <2>. QED  BY <1>2, <2>1, <2>2 DEF RightInv
<1>4. CASE UNCHANGED vars
  <2>1. UNCHANGED <<work, iconv, pc, answer>> /\ rested
    BY <1>4 DEF vars, rowVars, user, query
  <2>. QED  BY <1>2, <2>1 DEF RightInv
<1>5. CASE RefsNext /\ UNCHANGED <<answer, rested>>
  <2>1. answer' = NoAnswer
    BY <1>5 DEF RefsNext, AskDefinitions, AskPage, Answer, AnswerInv
  <2>2. NoAnswer.to = "none"
    BY DEF NoAnswer, Asked
  <2>. QED  BY <2>1, <2>2
<1>6. CASE Tell
  BY <1>6 DEF Tell
<1>7. ASSUME NEW a \in Requests, AskShow(a)
      PROVE  /\ answer'.to = "show" /\ ShowRight(work', iconv', pc', answer')
  <2>. DEFINE r == Unslashed[a]
  <2>1. /\ Resolve(Asked("show", r, FALSE)) /\ db # NoTables /\ exact /\ ~moved
        /\ UNCHANGED <<work, iconv>>
    BY <1>7 DEF AskShow, rowVars, user
  <2>4. r \in Requests
    BY HandedOn
  <2>. HIDE DEF r
  <2>2. ShowRight(work, iconv, pc', answer')
    BY <2>1, <2>4, ShowResolved
  <2>3. answer'.to = "show"
    <3>1. /\ AnswerTyped(Asked("show", r, FALSE)) /\ Asked("show", r, FALSE).to = "show"
          /\ Asked("show", r, FALSE).request = r
      BY <2>4, AskedTyped
    <3>2. Resolves(Asked("show", r, FALSE), r, Best(Cleaned[r], Matching(r)))
      BY <2>1, <3>1, Resolved DEF QueryInv, ExactInv
    <3>. QED  BY <3>1, <3>2 DEF Resolves
  <2>. QED  BY <2>1, <2>2, <2>3
<1>8. ASSUME NEW r \in Requests, AskFiles(r)
      PROVE  /\ answer'.to = "files"
             /\ Statuses = {"indexed"} => ExplainRight(work', iconv', pc', answer')
  <2>1. exact /\ ~moved /\ UNCHANGED <<work, iconv>>
    BY <1>8 DEF AskFiles, rowVars, user
  <2>2. \E any : answer' = Asked("files", r, any)
    BY <1>8 DEF AskFiles
  <2>3. answer'.to = "files"
    BY <2>2 DEF Asked
  <2>. QED  BY <1>8, <2>1, <2>3, FilesAsked
<1>9. CASE AskLines
  <2>1. /\ pc = "lines" /\ pc' = "told" /\ answer.to = "show" /\ rested
        /\ UNCHANGED <<work, iconv>>
    BY <1>9 DEF AskLines, AnswerInv, rowVars, user
  <2>2. answer'.to = answer.to /\ answer'.request = answer.request
    <3>1. answer' = answer \/ \E p : answer' = [answer EXCEPT !.lines = LinesOf(db, p)]
      BY <1>9 DEF AskLines
    <3>. QED  BY <1>1, <3>1 DEF AnswerTyped
  <2>. QED  BY <1>9, <2>1, <2>2, LinesRight
<1>10. CASE Explain
  <2>1. rested /\ answer.to = "files" /\ UNCHANGED <<work, iconv>>
    BY <1>10 DEF Explain, AnswerInv, rowVars, user
  <2>2. answer'.to = "files"
    <3>1. pc = "explain" /\ Resolve(answer)
      BY <1>10 DEF Explain
    <3>2. db # NoTables /\ FilesInv
      BY <3>1, IndexIsThere
    <3>3. Resolves(answer, answer.request, Best(Cleaned[answer.request], Matching(answer.request)))
      BY <1>1, <3>1, <3>2, Resolved
    <3>. QED  BY <2>1, <3>3 DEF Resolves
  <2>. QED  BY <1>10, <2>1, <2>2, ExplainResolved
<1>11. CASE StatRequest
  <2>1. /\ rested /\ pc' = "told" /\ UNCHANGED <<work, iconv>>
        /\ \E x : answer' = [answer EXCEPT !.reason = x]
    BY <1>11 DEF StatRequest, rowVars, user
  <2>2. answer'.to = answer.to /\ answer'.request = answer.request
    BY <1>1, <2>1 DEF AnswerTyped
  <2>. QED  BY <1>11, <2>1, <2>2, StatRight
<1>. QED  BY <1>3, <1>4, <1>5, <1>6, <1>7, <1>8, <1>9, <1>10, <1>11 DEF Next

LEMMA AnswersAlways == Spec => [](QueryInv /\ AnswerInv /\ RightInv)
<1>1. Init => RightInv
  BY DEF Init, RightInv
<1>. QED  BY <1>1, QueryInit, QueryStep, AnswerInit, AnswerStep, RightStep, PTL DEF Spec

(* For any files, argument, paths that match it and interleaving with        *)
(* commands: of files at rest show tells the truth.  The path it names is    *)
(* one that the argument, cleaned, stands for, or the reason it gives is so. *)
(* The lines it prints are those of a file that ends in the argument as it    *)
(* was given, if any; and those of the file it names if the argument was     *)
(* clean, no path ends in it in the middle of a name, and no two of those    *)
(* that end in it are equally long.                                          *)
THEOREM ShowTellsTruth == Spec => []ShowIsTrue
<1>1. AnswerInv /\ RightInv => ShowIsTrue
  <2>. SUFFICES ASSUME AnswerInv, RightInv, AtRest, answer.to = "show"
                PROVE  ShowIsTrue
    BY DEF ShowIsTrue
  <2>1. ShowRight(work, iconv, "told", answer)
    BY DEF RightInv, AtRest
  <2>2. ASSUME NEW c PROVE NamedBy(c) = Named(work, iconv, c)
    BY DEF NamedBy, Named, IsIn, StatusIn, IsScanned, Scanned
  <2>3. ASSUME NEW q
        PROVE  /\ IndexedNow(q) <=> IndexedIn(work, iconv, q)
               /\ LinesNow(q) = Shown(work, q)
    BY DEF IndexedNow, IndexedIn, IsIn, StatusIn, IsScanned, Scanned, LinesNow, Shown
  <2>4. ReasonIn(work, iconv, answer) => IsReason(answer.request)
    BY <2>2, <2>3 DEF ReasonIn, IsReason, IsFile
  <2>. QED  BY <2>1, <2>2, <2>3, <2>4 DEF ShowRight, ShowIsTrue
<1>. QED  BY <1>1, AnswersAlways, PTL

(* The same of files --explain for indexed files: of files at rest it finds   *)
(* nothing only if no path that holds the text is indexed, and the reason it *)
(* gives is so.  It gives none only if the text was not clean.               *)
THEOREM ExplanationsAreTrue == Spec => []ExplanationIsTrue
<1>1. RightInv => ExplanationIsTrue
  <2>. SUFFICES ASSUME RightInv, AtRest, answer.to = "files", Statuses = {"indexed"}
                PROVE  ExplanationIsTrue
    BY DEF ExplanationIsTrue
  <2>1. ExplainRight(work, iconv, "told", answer)
    BY DEF RightInv, AtRest
  <2>2. ASSUME NEW c PROVE NamedBy(c) = Named(work, iconv, c)
    BY DEF NamedBy, Named, IsIn, StatusIn, IsScanned, Scanned
  <2>3. ASSUME NEW q PROVE IndexedNow(q) <=> IndexedIn(work, iconv, q)
    BY DEF IndexedNow, IndexedIn, IsIn, StatusIn, IsScanned, Scanned
  <2>4. ReasonIn(work, iconv, answer) => IsReason(answer.request)
    BY <2>2, <2>3 DEF ReasonIn, IsReason, IsFile
  <2>. QED  BY <2>1, <2>2, <2>3, <2>4 DEF ExplainRight, ExplanationIsTrue
<1>. QED  BY <1>1, AnswersAlways, PTL

(* Every variable keeps its type, an answer of refs has no more than Limit   *)
(* lines, and a query has seen an index.                                     *)
THEOREM TypesHold == Spec => []TypeOK
<1>1. QueryInv /\ AnswerInv /\ RowTypeOK => TypeOK
  <2>. SUFFICES ASSUME QueryInv, AnswerInv, RowTypeOK PROVE TypeOK
    OBVIOUS
  <2>1. RefsTypeOK
    <3>1. \A t \in indexes : IsTables(t)
      BY TablesTyped DEF QueryInv, RefsInv, Seen, Proper
    <3>. QED  BY <3>1 DEF QueryInv, RefsInv, CandidatesTyped, RefsTypeOK
  <2>2. /\ pc \in {"idle", "page", "done", "stat", "lines", "explain", "told"}
        /\ pc = "idle" <=> indexes = {}
    BY DEF QueryInv, RefsInv, Seen
  <2>3. NoAnswer.to = "none"
    BY DEF NoAnswer, Asked
  <2>4. pc \in {"stat", "lines", "explain", "told"} <=> answer # NoAnswer
    BY <2>2, <2>3 DEF AnswerInv
  <2>. QED  BY <2>1, <2>2, <2>4 DEF TypeOK, AnswerInv, AnswerTyped
<1>. QED  BY <1>1, AnswersAlways, RowTypesHold, PTL

================================================================================
