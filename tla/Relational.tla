----------------------------- MODULE Relational -----------------------------
(***************************************************************************)
(* A RelationalDatabase of one process: the table catalog (database.ts,    *)
(* persist.ts), statements (executor.ts, sql.ts), one Transaction          *)
(* (transaction.ts) and the catalog file (catalog_store.ts), which alone   *)
(* survives a crash of the process.                                        *)
(*                                                                         *)
(* Every call runs to its end before the next one starts, except that the  *)
(* process can die between the file operations of saveCatalog.             *)
(***************************************************************************)
EXTENDS Queries

CONSTANTS
    Names,     \* table names
    Sessions,  \* what applications use of the library (inputs and bounds, see Session)
    MaxTxOps   \* longest buffer (bound)

\* The definitions [name, cols] declared, the rows, keys and patches passed, the
\* SQL writes, the operations buffered, the queries and joins run, the columns
\* they aggregate and the targets they compare these with, whether the catalog
\* is saved, and the most rows a table gets (bound).
Session == {"schemas", "rows", "keys", "patches", "statements", "txOps",
            "queries", "joins", "columns", "targets", "saves", "maxRows"}

\* TxOp, and what the parsers of the statements return.
IsOperation(op) ==
    \/ op.kind = "insert" /\ IsRow(op.row)
    \/ op.kind = "update" /\ IsRow(op.patch)
    \/ op.kind = "delete"

SqlColumns ==
    [name : ColumnNames, type : {"num", "str"}, flags : SUBSET {"UNIQUE", "PRIMARY KEY", "NOT NULL"}]

IsStatement(s) ==
    /\ s.kind = "insert" => s.cols \in Seq(ColumnNames) /\ s.vals \in Seq(Cells)
    /\ s.kind = "update" => IsRow(s.sets)
    /\ s.kind = "create" => s.table \in Names /\ s.cols \in Seq(SqlColumns)

\* What a QueryBuilder holds when it runs; a star is no column.
IsQuery(q) ==
    /\ q = [where |-> q.where, order |-> q.order, dir |-> q.dir, offset |-> q.offset,
            limit |-> q.limit, select |-> q.select]
    /\ IsFiniteSet(q.where) /\ None \notin q.where
    /\ q.dir \in {"asc", "desc"}
    /\ IsFiniteSet(q.select) /\ q.select \subseteq ColumnNames \ {"*", "COUNT(*)"}

IsJoin(p) ==
    /\ p = [left |-> p.left, right |-> p.right, on |-> p.on, leftKey |-> p.leftKey,
            rightKey |-> p.rightKey, where |-> p.where, limit |-> p.limit, cols |-> p.cols]
    /\ p.on = <<p.on[1], p.on[2]>>

ASSUME SessionAssumption ==
    /\ MaxTxOps \in Nat
    /\ \A s \in Sessions :
         /\ DOMAIN s = Session /\ s.maxRows \in Nat /\ s.saves \in BOOLEAN /\ s.targets \subseteq Int
         /\ \A d \in s.schemas : d.name \in Names /\ d.cols \in Seq(ColumnDefs)
         /\ \A row \in s.rows \cup s.patches : IsRow(row)
         /\ \A x \in s.statements : IsStatement(x)
         /\ \A op \in s.txOps : IsOperation(op)
         /\ (\A q \in s.queries : IsQuery(q)) /\ \A p \in s.joins : IsJoin(p)

VARIABLES
    use,     \* the session
    order,   \* table names in creation order
    tables,  \* the tables: name -> table
    ops,     \* the transaction's buffer
    file,    \* the catalog file: None, or a document
    tmp,     \* the temporary file while saveCatalog runs: None, Torn, or a document
    pc,      \* "idle", or where saveCatalog is
    saved    \* history: the definitions of the last save that completed

db == <<order, tables>>
disk == <<file, tmp, pc, saved>>
vars == <<use, db, ops, disk>>

Torn == [torn |-> TRUE]
Doc(defs) == [tables |-> defs]

Init ==
    /\ use \in Sessions
    /\ order = <<>> /\ tables = <<>>
    /\ ops = <<>>
    /\ file = None /\ tmp = None /\ pc = "idle" /\ saved = None

Ready == pc = "idle"
Has(name) == name \in DOMAIN tables

-----------------------------------------------------------------------------
(* The catalog. *)

createTable(d, name, cols) ==
    IF name \in DOMAIN d.tables \/ ~ValidSchema(cols) THEN d
    ELSE [order |-> Append(d.order, name), tables |-> Put(d.tables, name, NewTable(cols))]

CreateTable(name, cols) ==
    LET d == createTable([order |-> order, tables |-> tables], name, cols)
    IN  /\ Ready
        /\ order' = d.order /\ tables' = d.tables
        /\ UNCHANGED <<use, ops, disk>>

DropTable_KeepsName(name) ==
    /\ Ready
    /\ tables' = [n \in DOMAIN tables \ {name} |-> tables[n]]
    /\ UNCHANGED <<use, order, ops, disk>>

DropTable(name) ==
    /\ Ready
    /\ order' = IF Has(name) THEN RemoveAt(order, CHOOSE i \in DOMAIN order : order[i] = name) ELSE order
    /\ tables' = [n \in DOMAIN tables \ {name} |-> tables[n]]
    /\ UNCHANGED <<use, ops, disk>>

-----------------------------------------------------------------------------
(* Single calls on a table. *)

\* One buffered or direct operation against the tables.
Perform(tabs, op) ==
    LET t == tabs[op.table]
        out == CASE op.kind = "insert" -> insert(t, op.row)
                 [] op.kind = "update" -> update(t, op.pk, op.patch)
                 [] op.kind = "delete" -> delete(t, op.pk)
    IN  IF op.table \notin DOMAIN tabs THEN [tables |-> tabs, res |-> "error"]
        ELSE [tables |-> [tabs EXCEPT ![op.table] = out.table], res |-> out.res]

Room(tabs) == \A n \in DOMAIN tabs : Len(tabs[n].rows) <= use.maxRows

Apply(out) ==
    /\ Room(out.tables)
    /\ tables' = out.tables
    /\ UNCHANGED <<use, order, ops, disk>>

Insert(name, row) ==
    Ready /\ Apply(Perform(tables, [kind |-> "insert", table |-> name, row |-> row]))

Update(name, pk, patch) ==
    Ready /\ Apply(Perform(tables, [kind |-> "update", table |-> name, pk |-> pk, patch |-> patch]))

Delete(name, pk) ==
    Ready /\ Apply(Perform(tables, [kind |-> "delete", table |-> name, pk |-> pk]))

-----------------------------------------------------------------------------
(* SQL writes.  A statement stands for its text: what each parser takes    *)
(* from it, or refuses.                                                    *)

\* parseInsert wants as many values as columns.
ParsesInsert(s) == s.cols # <<>> /\ Len(s.cols) = Len(s.vals)

\* The n-th value goes to the n-th column; the last assignment of a column wins.
InsertRow(s) ==
    [c \in Range(s.cols) |-> s.vals[Max({i \in DOMAIN s.cols : s.cols[i] = c})]]

\* parseUpdate and parseDelete want a WHERE clause.
ParsesWhere(s) == s.where # None

\* parseCreateTable: a primary key is unique and never nullable.
ParsedColumn(c) ==
    [name |-> c.name, type |-> c.type, primaryKey |-> "PRIMARY KEY" \in c.flags,
     unique |-> c.flags \cap {"UNIQUE", "PRIMARY KEY"} # {},
     nullable |-> c.flags \cap {"NOT NULL", "PRIMARY KEY"} = {}]

SqlInsert(s) ==
    /\ Ready /\ s.kind = "insert"
    /\ Apply(IF ParsesInsert(s)
             THEN Perform(tables, [kind |-> "insert", table |-> s.table, row |-> InsertRow(s)])
             ELSE [tables |-> tables, res |-> "error"])

\* One operation after another, until one throws.
Then(a, op) ==
    LET out == Perform(a.tables, op)
    IN  IF a.res = "error" THEN a
        ELSE [out EXCEPT !.res = IF @ = "error" THEN "error" ELSE "ok"]

Done(tabs, batch) ==
    LET done[n \in 0 .. Len(batch)] ==
          IF n = 0 THEN [tables |-> tabs, res |-> "ok"] ELSE Then(done[n - 1], batch[n])
    IN  done

Run(tabs, batch) == Done(tabs, batch)[Len(batch)]

\* The rows are collected before the first one is written.
SqlEach(s) ==
    LET hits == scan(tables[s.table], singleWhere(s.where))
        pk(i) == Cell(hits[i], PrimaryKey(tables[s.table].cols))
        write(i) == IF s.kind = "delete" THEN [kind |-> "delete", table |-> s.table, pk |-> pk(i)]
                    ELSE [kind |-> "update", table |-> s.table, pk |-> pk(i), patch |-> s.sets]
    IN  IF ~ParsesWhere(s) \/ ~Has(s.table) THEN [tables |-> tables, res |-> "error"]
        ELSE Run(tables, [i \in DOMAIN hits |-> write(i)])

SqlUpdate(s) == Ready /\ s.kind = "update" /\ Apply(SqlEach(s))

SqlDelete(s) == Ready /\ s.kind = "delete" /\ Apply(SqlEach(s))

SqlCreate(s) == s.kind = "create" /\ CreateTable(s.table, [i \in DOMAIN s.cols |-> ParsedColumn(s.cols[i])])

-----------------------------------------------------------------------------
(* The transaction. *)

Buffer(op) ==
    /\ Ready /\ Len(ops) < MaxTxOps
    /\ ops' = Append(ops, op)
    /\ UNCHANGED <<use, db, disk>>

Rollback ==
    /\ Ready /\ ops # <<>>
    /\ ops' = <<>>
    /\ UNCHANGED <<use, db, disk>>

InsertedPk(op) == String(Cell(op.row, PrimaryKey(tables[op.table].cols)))

\* The pre-pass: the tables exist, and the inserted keys are new to the
\* tables as they stand and to the batch.
PrePass(batch) ==
    /\ \A i \in DOMAIN batch :
         /\ Has(batch[i].table)
         /\ batch[i].kind = "insert" => InsertedPk(batch[i]) \notin Keys(tables[batch[i].table])
    /\ \A i, j \in DOMAIN batch :
         i # j /\ batch[i].kind = "insert" /\ batch[j].kind = "insert" /\ batch[i].table = batch[j].table
            => InsertedPk(batch[i]) # InsertedPk(batch[j])

Commit_Backwards ==
    LET out == Run(tables, Reverse(ops))
    IN  /\ Ready /\ ops # <<>>
        /\ IF PrePass(ops)
           THEN /\ tables' = out.tables
                /\ ops' = IF out.res = "error" THEN ops ELSE <<>>
           ELSE UNCHANGED <<tables, ops>>
        /\ UNCHANGED <<use, order, disk>>

Commit ==
    LET out == Run(tables, ops)
    IN  /\ Ready /\ ops # <<>>
        /\ IF PrePass(ops)
           THEN /\ Room(out.tables)
                /\ tables' = out.tables
                /\ ops' = IF out.res = "error" THEN ops ELSE <<>>
           ELSE UNCHANGED <<tables, ops>>
        /\ UNCHANGED <<use, order, disk>>

-----------------------------------------------------------------------------
(* The catalog file. *)

\* A stored column keeps the flags that are set.
StoredFlags(c) == {f \in {"nullable", "primaryKey", "unique"} : c[f]}

StoredColumn(c) == [name |-> c.name, type |-> c.type, flags |-> StoredFlags(c)]

LoadedColumn(c) ==
    [name |-> c.name, type |-> c.type, nullable |-> "nullable" \in c.flags,
     primaryKey |-> "primaryKey" \in c.flags, unique |-> "unique" \in c.flags]

snapshotCatalog ==
    [i \in DOMAIN order |->
        [name |-> order[i],
         columns |-> [j \in DOMAIN tables[order[i]].cols |-> StoredColumn(tables[order[i]].cols[j])]]]

Definitions(d) == [i \in DOMAIN d.order |-> [name |-> d.order[i], cols |-> d.tables[d.order[i]].cols]]

SaveBegin_InPlace ==
    /\ Ready /\ use.saves
    /\ file' = Torn /\ pc' = "write"
    /\ UNCHANGED <<use, db, ops, tmp, saved>>

\* saveCatalog: the temporary file is truncated, written, and renamed.  One
\* that a failed save leaves behind is truncated before anybody reads it, so
\* it is not kept.
SaveBegin ==
    /\ Ready /\ use.saves
    /\ tmp' = Torn /\ pc' = "write"
    /\ UNCHANGED <<use, db, ops, file, saved>>

SaveWrite ==
    /\ pc = "write"
    /\ \/ tmp' = Doc(snapshotCatalog) /\ pc' = "rename"
       \/ pc' = "idle" /\ tmp' = None             \* the write threw
    /\ UNCHANGED <<use, db, ops, file, saved>>

SaveRename ==
    /\ pc = "rename" /\ pc' = "idle" /\ tmp' = None
    /\ \/ file' = tmp /\ saved' = [defs |-> Definitions([order |-> order, tables |-> tables])]
       \/ UNCHANGED <<file, saved>>             \* the rename threw
    /\ UNCHANGED <<use, db, ops>>

\* bootCatalog: the database after so many of the loaded definitions.
LoadedColumns(columns) == [j \in DOMAIN columns |-> LoadedColumn(columns[j])]

Booted(d, defs) ==
    LET booted[n \in 0 .. Len(defs)] ==
          IF n = 0 THEN d ELSE createTable(booted[n - 1], defs[n].name, LoadedColumns(defs[n].columns))
    IN  booted

\* restoreCatalog: loadCatalogDefs, which throws on a torn file, then
\* bootCatalog into the database d.
restoreCatalog(d) ==
    IF file \in {None, Torn} THEN d ELSE Booted(d, file.tables)[Len(file.tables)]

Restore ==
    LET d == restoreCatalog([order |-> order, tables |-> tables])
    IN  /\ Ready
        /\ order' = d.order /\ tables' = d.tables
        /\ UNCHANGED <<use, ops, disk>>

\* The process dies; another starts with an empty database.
Crash ==
    /\ order' = <<>> /\ tables' = <<>> /\ ops' = <<>>
    /\ pc' = "idle" /\ tmp' = None
    /\ UNCHANGED <<use, file, saved>>

-----------------------------------------------------------------------------
Next ==
    \/ \E d \in use.schemas : CreateTable(d.name, d.cols)
    \/ \E n \in Names :
         \/ DropTable(n)
         \/ \E row \in use.rows : Insert(n, row)
         \/ \E pk \in use.keys : Delete(n, pk) \/ \E patch \in use.patches : Update(n, pk, patch)
    \/ \E s \in use.statements : SqlInsert(s) \/ SqlUpdate(s) \/ SqlDelete(s) \/ SqlCreate(s)
    \/ \E op \in use.txOps : Buffer(op)
    \/ Commit \/ Rollback
    \/ SaveBegin \/ SaveWrite \/ SaveRename \/ Restore \/ Crash

Spec == Init /\ [][Next]_vars

-----------------------------------------------------------------------------
(* Properties. *)

\* Types of all variables; the catalog's two structures have the same names,
\* each once.
TypeOK ==
    /\ use \in Sessions
    /\ Range(order) = DOMAIN tables /\ IsInjective(order)
    /\ ops \in Seq(use.txOps) /\ Len(ops) <= MaxTxOps
    /\ pc \in {"idle", "write", "rename"}
    /\ Range(order) \subseteq Names
    /\ \A n \in DOMAIN tables : ValidSchema(tables[n].cols) /\ Len(tables[n].rows) <= use.maxRows

\* The secondary maps say exactly what the rows say: no stale entry, no
\* missing one, no empty set left behind, whatever mix of inserts, updates,
\* deletes, statements and commits ran or threw (indexRow, deindexRow).
SecondaryMatchesRows ==
    \A n \in DOMAIN tables :
        LET t == tables[n]
            Held(c) == {String(Cell(t.rows[i].row, c)) : i \in DOMAIN t.rows}
        IN  \A c \in Mapped(t.cols) :
              t.secondary[c] = [v \in Held(c) |->
                  {t.rows[i].pk : i \in {j \in DOMAIN t.rows : String(Cell(t.rows[j].row, c)) = v}}]

\* Every row is stored under its own primary key, and under no other.
KeyedByPk ==
    \A n \in DOMAIN tables :
        LET t == tables[n]
        IN  /\ \A i \in DOMAIN t.rows : t.rows[i].pk = encodePk(Cell(t.rows[i].row, PrimaryKey(t.cols)))
            /\ Cardinality(Keys(t)) = count(t)

\* No sequence of calls stores a row that insert would refuse as invalid.
RowsValid ==
    \A n \in DOMAIN tables : \A i \in DOMAIN tables[n].rows :
        validateRow(tables[n].cols, tables[n].rows[i].row)

\* What is looked up: any cell but the texts 'null' and 'undefined', which a
\* map files with the cells that are null or missing.
Values == {Num(n) : n \in CellNumbers} \cup {Str(x) : x \in CellTexts \ {NullText, UndefinedText}}

\* A maintained map answers what a full scan answers: lookupByColumn,
\* assertUnique with and without an excluded row, and assertForeignKey.
ScanAgreesWithMap ==
    \A n \in DOMAIN tables : \A c \in Mapped(tables[n].cols), v \in Values :
        LET t == tables[n]
            m == t.secondary[c]
            held == IF String(v) \in DOMAIN m THEN m[String(v)] ELSE {}
            typed == \E d \in Range(t.cols) : d.name = c /\ d.type = v.t
        IN  typed =>
              /\ Range(lookupByColumn(t, c, v)) = held
              /\ assertUnique(t, c, v, Undef) <=> held = {}
              /\ \A pk \in {k \in use.keys : IsKey(k)} : assertUnique(t, c, v, pk) <=> held \subseteq {encodePk(pk)}
              /\ c = PrimaryKey(t.cols) => (assertForeignKey(t, v) <=> held # {})

TxPk(op) == IF op.kind = "insert" THEN InsertedPk(op) ELSE encodePk(op.pk)

\* What the last operation naming a key of a table asked for; nothing else moved.
LastWordOn(n, pk) ==
    LET named == {i \in DOMAIN ops : ops[i].table = n /\ TxPk(ops[i]) = pk}
        final == ops[Max(named)]
        now   == tables'[n].rows[At(tables'[n], pk)].row
    IN  IF named = {}
        THEN /\ pk \in Keys(tables[n]) <=> pk \in Keys(tables'[n])
             /\ pk \in Keys(tables[n]) => now = tables[n].rows[At(tables[n], pk)].row
        ELSE CASE final.kind = "delete" -> pk \notin Keys(tables'[n])
               [] final.kind = "insert" -> pk \in Keys(tables'[n]) /\ now = final.row
               [] final.kind = "update" -> pk \in Keys(tables'[n]) =>
                      \A c \in DOMAIN final.patch : now[c] = final.patch[c]

\* The first operations, but not all, are done.
ProperPrefix ==
    \E k \in 0 .. Len(ops) - 1 :
        /\ k > 0 => PrePass(ops)
        /\ tables' = Run(tables, SubSeq(ops, 1, k)).tables

\* A commit that returns did what its last operation on each key says and
\* touched no row the batch does not name.  One that throws keeps the buffer
\* and leaves the effect of a proper prefix of it, of nothing if the pre-pass
\* refused (the code's own comments promise more: see NoPartialApply and
\* BufferCleared below).
CommitEffects ==
    [][/\ Commit /\ ops' # <<>> => ProperPrefix
       /\ Commit /\ ops' = <<>> =>
            \A n \in DOMAIN tables :
              \A pk \in Keys(tables[n]) \cup Keys(tables'[n]) \cup {TxPk(o) : o \in Range(ops)} :
                LastWordOn(n, pk)]_vars

\* At every moment, one between two file operations of a save included, a new
\* process gets from restoreCatalog the definitions of the last save that
\* completed: no torn file, no lost flag, the same order.
CatalogRestored ==
    saved # None => Definitions(restoreCatalog([order |-> <<>>, tables |-> <<>>])) = saved.defs

-----------------------------------------------------------------------------
(* Reads against reference definitions, over every table reached.          *)

\* Cells that JavaScript's comparison orders: all texts, or numbers and nulls.
Ordered(cells) == (\A v \in cells : v.t = "str") \/ \A v \in cells : v.t \in {"num", "null"}

\* Filter, sort, offset, limit and projection compose: the pages of any size
\* tile the unpaged result, which holds exactly the matching rows, in the
\* order asked for, ties in scan order; count is its length, and a SELECT
\* statement answers what the builder's query answers.  (Nulls among texts, and
\* missing cells, have no order to come out in.)
SelectsMatch ==
    \A n \in DOMAIN tables, q \in use.queries :
        LET t     == tables[n]
            rows  == scan(t, q.where)
            Pos(r) == CHOOSE i \in DOMAIN rows : rows[i] = r
            Page(from, k) == all(t, [q EXCEPT !.offset = from, !.limit = k])
            full  == Page(0, None)
            shown == IF q.select = {} THEN full ELSE all(t, [q EXCEPT !.select = {}, !.offset = 0, !.limit = None])
            ordered == q.order # "" /\ Ordered({Cell(r, q.order) : r \in Range(rows)})
        IN  /\ Len(full) = queryCount(t, q) /\ Range(shown) = Range(rows)
            /\ ordered => \A i, j \in DOMAIN shown : i < j =>
                 \/ Before(q.order, q.dir, shown[i], shown[j])
                 \/ ~Before(q.order, q.dir, shown[j], shown[i]) /\ Pos(shown[i]) < Pos(shown[j])
            /\ q.order = "" => shown = rows
            /\ \A k \in 1 .. 2 :
                 full = Page(0, [n |-> k]) \o Page(k, [n |-> k]) \o Page(2 * k, None)
            /\ Cardinality(q.where) <= 1 =>
                 LET s == [where |-> IF q.where = {} THEN None ELSE CHOOSE c \in q.where : TRUE, order |-> q.order,
                           dir |-> IF q.dir = "asc" THEN "" ELSE q.dir, limit |-> [n |-> 2],
                           cols |-> IF q.select = {} THEN <<"*">> ELSE SetToSeq(q.select)]
                 IN  /\ executeSelect(t, s) = Page(0, s.limit)
                     /\ executeSelect(t, [s EXCEPT !.cols = <<"COUNT(*)">>]) = <<[count |-> Num(Len(rows))]>>
            /\ q.select # {} => full = [i \in DOMAIN shown |-> Project(shown[i], q.select)]

\* The nested loop: for each right row in turn, the left rows whose key cells
\* render like its own; the pairs of their positions.
Matches(l, row, p) == Positions({j \in DOMAIN l : String(Cell(row, p.rightKey)) = String(Cell(l[j], p.leftKey))}, Len(l))

NestedLoop(l, r, p) ==
    LET hits[i \in 0 .. Len(r)] ==
          LET js == Matches(l, r[i], p)
          IN  IF i = 0 THEN <<>> ELSE hits[i - 1] \o [m \in DOMAIN js |-> [right |-> i, left |-> js[m]]]
    IN  hits[Len(r)]

\* The hash join is the nested loop, the right table outside (see
\* JoinInLeftOrder below); executeJoin filters the merged rows, whose
\* cells are the right row's where it has them, and refuses a statement whose
\* ON clause names the tables the other way round.
JoinIsNestedLoop ==
    \A p \in use.joins : Has(p.left) /\ Has(p.right) =>
        LET l == scan(tables[p.left], {})
            r == scan(tables[p.right], {})
            hits == NestedLoop(l, r, p)
            Merged(x) == [c \in DOMAIN r[x.right] \cup DOMAIN l[x.left] |->
                            IF c \in DOMAIN r[x.right] THEN r[x.right][c] ELSE l[x.left][c]]
            kept == Picked(hits, {i \in DOMAIN hits : matchesWhere(Merged(hits[i]), singleWhere(p.where))})
        IN  /\ hashJoin(tables[p.left], tables[p.right], p.leftKey, p.rightKey) =
                  [i \in DOMAIN hits |-> [left |-> l[hits[i].left], right |-> r[hits[i].right]]]
            /\ executeJoin(tables[p.left], tables[p.right], [p EXCEPT !.limit = None, !.cols = <<"*">>]) =
                  IF p.on[1] = p.left /\ p.on[2] = p.right
                  THEN [rows |-> [i \in DOMAIN kept |-> Merged(kept[i])]] ELSE None

\* The magnitudes of a column's numbers, added up: no sum of some is larger.
Weight(rows, col) ==
    LET w[n \in 0 .. Len(rows)] ==
          IF n = 0 THEN 0
          ELSE w[n - 1] + (IF Cell(rows[n], col).t = "num" THEN Magnitude(Cell(rows[n], col).v) ELSE 0)
    IN  w[Len(rows)]

\* The columnar kernels answer what the row predicates and aggregates answer,
\* cells that are null or missing included, on every operator and target: the
\* same rows; the same sum, as long as nothing is rounded, unless ne selected a
\* cell without a number, which makes the kernel's sum NaN; the same minimum and
\* maximum, unless ne selected rows and no number, where the kernel answers
\* infinity.  On cells that are words, the uint32 kernel compares with the
\* target's low word.
PushdownAgrees ==
    \A n \in DOMAIN tables, col \in use.columns :
        LET t    == tables[n]
            rows == scan(t, {})
            c    == columnize(rows, col)
            Agg(rs, fn) == Num(aggregate(rs, fn, col))
            IsNum(r) == Cell(r, col).t = "num"
            Filled(rs) == \A r \in Range(rs) : IsNum(r)
            Blank(rs)  == rs # <<>> /\ \A r \in Range(rs) : ~IsNum(r)
            words == \A r \in Range(rows) : IsNum(r) /\ Cell(r, col).v \in 0 .. Word32 - 1
        IN  /\ \A op \in {"eq", "ne", "gt", "gte", "lt", "lte"}, x \in use.targets :
                 LET sel == pushFilterF64(c.values, op, x)
                     hit == scan(t, {[col |-> col, op |-> op, val |-> Num(x)]})
                 IN  /\ [i \in DOMAIN sel |-> rows[sel[i]]] = hit
                     /\ words => pushFilterU32([i \in DOMAIN rows |-> rows[i][col].v], op, x) =
                                    pushFilterF64(c.values, op, x % Word32)
                     /\ Weight(hit, col) <= Exact =>
                          pushSumSelected(c.values, sel) = IF Filled(hit) THEN Agg(hit, "sum") ELSE NaN
                     /\ pushMinSelected(c.values, sel) = IF Blank(hit) THEN Infinity(1) ELSE Agg(hit, "min")
                     /\ pushMaxSelected(c.values, sel) = IF Blank(hit) THEN Infinity(-1) ELSE Agg(hit, "max")
            /\ Weight(rows, col) <= Exact =>
                 /\ pushSumSelected(c.values, c.valid) = Agg(rows, "sum")
                 /\ Filled(rows) => pushSum(c.values) = Agg(rows, "sum")
            /\ pushMinSelected(c.values, c.valid) = Agg(rows, "min")
            /\ pushMaxSelected(c.values, c.valid) = Agg(rows, "max")
            /\ c.valid # <<>> => aggregate(rows, "avg", col) = <<aggregate(rows, "sum", col), Len(c.valid)>>

\* The sum of a column that floats cannot hold exactly is compensated: Kahan's
\* loses less than the last place of the column's weight, however many of the
\* additions are rounded (a plain sum loses up to half a place for each).
SumIsCompensated ==
    \A n \in DOMAIN tables, col \in use.columns :
        LET rows  == scan(tables[n], {})
            c     == columnize(rows, col)
            total == MapThenSumSet(LAMBDA i : Cell(rows[i], col).v, Range(c.valid))
        IN  Magnitude(pushSumSelected(c.values, c.valid).v - total) < Grain(Weight(rows, col))

-----------------------------------------------------------------------------
(* What comments of the code say and the code does not do.                 *)

\* RelationalTransaction "validates, then applies atomically (no partial
\* apply)": a commit that throws has applied nothing.
NoPartialApply == ops' # <<>> => tables' = tables

\* commit: "The buffer is cleared either way".
BufferCleared == ops' = <<>>

\* docs/relational/query-api.md on insert: "Enforces `NOT NULL` and `UNIQUE`".
UniqueEnforced ==
    \A n \in DOMAIN tables : \A c \in Range(tables[n].cols) : \A i, j \in DOMAIN tables[n].rows :
        LET v == Cell(tables[n].rows[i].row, c.name)
        IN  c.unique /\ i # j /\ v \notin {Null, Undef} => Cell(tables[n].rows[j].row, c.name) # v

\* offset: "A negative value is treated as 0."
NegativeOffsetIsZero ==
    \A n \in DOMAIN tables, q \in use.queries :
        all(tables[n], [q EXCEPT !.offset = -1]) = all(tables[n], [q EXCEPT !.offset = 0])

\* hashJoin: "Every matching pair, left rows in scan order."
JoinInLeftOrder ==
    \A p \in use.joins : Has(p.left) /\ Has(p.right) =>
        LET l   == scan(tables[p.left], {})
            out == hashJoin(tables[p.left], tables[p.right], p.leftKey, p.rightKey)
            LeftAt(pair) == CHOOSE i \in DOMAIN l : l[i] = pair.left
        IN  \A i, j \in DOMAIN out : i < j => LeftAt(out[i]) <= LeftAt(out[j])

\* pushMinSelected: "0 rather than NaN or infinity, matching `aggregate`", for
\* whatever filter made the selection.
SelectedMinMatches ==
    \A n \in DOMAIN tables, col \in use.columns, x \in use.targets :
        LET values == columnize(scan(tables[n], {}), col).values
            hit    == scan(tables[n], {[col |-> col, op |-> "ne", val |-> Num(x)]})
        IN  pushMinSelected(values, pushFilterF64(values, "ne", x)) = Num(aggregate(hit, "min", col))

\* At every commit one of these comments, at least, is right.  (A commit that
\* violates this contradicts all six of them.)
CommentsHold ==
    [][Commit => \/ NoPartialApply \/ BufferCleared
                 \/ UniqueEnforced \/ NegativeOffsetIsZero \/ JoinInLeftOrder \/ SelectedMinMatches]_vars

=============================================================================
