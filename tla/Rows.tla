-------------------------------- MODULE Rows --------------------------------
(***************************************************************************)
(* Cells, rows, schemas and one in-memory table of the relational layer:   *)
(* codec.ts, utils.ts, column.ts, schema.ts and table.ts.                  *)
(*                                                                         *)
(* A cell is a record [t, v]: Num(n) is the number n, Str(x) the text x.   *)
(* Texts are integers in lexicographic order, so that x < y is JavaScript's*)
(* comparison of two strings.  A row is a function on the keys it has;     *)
(* reading another key gives Undef.                                        *)
(***************************************************************************)
EXTENDS Integers, Sequences, SequencesExt, FiniteSets

CONSTANTS
    MaxColumns,     \* one bit of the null bitmap per column
    ColumnNames,    \* the identifiers columns have
    CellNumbers,    \* the numbers and the texts that cells hold
    CellTexts,
    Spelling,       \* String(n): the text of a number
    NumberOf,       \* Number(x): the set of the number a text reads as, {} for NaN
    EmptyText,      \* the texts '', 'null' and 'undefined'
    NullText,
    UndefinedText

ASSUME ColumnAssumption == MaxColumns \in Nat \ {0}

\* What String and Number do: a number is read back from its spelling, '' reads
\* as 0, and the texts 'null' and 'undefined' as no number.
ASSUME TextAssumption ==
    /\ CellNumbers \subseteq Int /\ CellTexts \subseteq Int
    /\ Spelling \in [CellNumbers -> CellTexts]
    /\ NumberOf \in [CellTexts -> SUBSET Int]
    /\ \A n \in CellNumbers : NumberOf[Spelling[n]] = {n} /\ Spelling[n] # EmptyText
    /\ {EmptyText, NullText, UndefinedText} \subseteq CellTexts
    /\ NumberOf[EmptyText] = {0} /\ NumberOf[NullText] = {} /\ NumberOf[UndefinedText] = {}
    /\ NullText # UndefinedText

Num(n) == [t |-> "num", v |-> n]
Str(x) == [t |-> "str", v |-> x]
Null   == [t |-> "null", v |-> 0]
Undef  == [t |-> "undef", v |-> 0]
EmptyStr == Str(EmptyText)

\* What a cell may hold, what a column definition says, and a row.
Cells == {Num(n) : n \in CellNumbers} \cup {Str(x) : x \in CellTexts} \cup {Null, Undef}
ColumnDefs == [name : ColumnNames, type : {"num", "str"}, primaryKey : BOOLEAN, unique : BOOLEAN, nullable : BOOLEAN]
IsRow(r) == r \in [DOMAIN r -> Cells] /\ DOMAIN r \subseteq ColumnNames

\* Map.set, and { ...row, ...patch }.
Put(m, k, v) == [x \in DOMAIN m \cup {k} |-> IF x = k THEN v ELSE m[x]]
Merge(row, patch) == [c \in DOMAIN row \cup DOMAIN patch |-> IF c \in DOMAIN patch THEN patch[c] ELSE row[c]]

Cell(row, col) == IF col \in DOMAIN row THEN row[col] ELSE Undef

\* String(x): a number and its spelling become the same text, and so do null
\* and the text 'null'.
Text(x) == [t |-> "text", v |-> x]

String(x) ==
    CASE x.t = "num"   -> Text(Spelling[x.v])
      [] x.t = "str"   -> Text(x.v)
      [] x.t = "null"  -> Text(NullText)
      [] x.t = "undef" -> Text(UndefinedText)

\* encodePk throws for anything that is no key.
IsKey(x) == x.t \in {"num", "str"}
encodePk(x) == String(x)

-----------------------------------------------------------------------------
(* Schemas. *)

validateColumn(c) == ~(c.primaryKey /\ c.nullable)

\* The constructor of RelationalSchema accepts these columns.
ValidSchema(cols) ==
    /\ Len(cols) \in 1 .. MaxColumns
    /\ \A i \in DOMAIN cols : validateColumn(cols[i])
    /\ \A i, j \in DOMAIN cols : i # j => cols[i].name # cols[j].name
    /\ Cardinality({i \in DOMAIN cols : cols[i].primaryKey}) = 1

PrimaryKey(cols) == (CHOOSE c \in Range(cols) : c.primaryKey).name

\* The columns a table keeps a secondary map for.
Mapped(cols) == {c.name : c \in {d \in Range(cols) : d.unique \/ d.primaryKey}}

\* validateRow: a missing cell passes unless it is the key's, an explicit null
\* only where the column is nullable, and every other cell has its column's type.
validateRow(cols, row) ==
    /\ \A c \in Range(cols) :
         LET v == Cell(row, c.name)
         IN  \/ v = Undef /\ ~c.primaryKey
             \/ v = Null /\ c.nullable
             \/ v.t = c.type
    /\ Cell(row, PrimaryKey(cols)) \notin {Null, Undef, EmptyStr}

-----------------------------------------------------------------------------
(* A table: its columns, the row Map in insertion order, and per mapped    *)
(* column a Map from rendered value to the keys of the rows holding it.    *)

NewTable(cols) == [cols |-> cols, rows |-> <<>>, secondary |-> [c \in Mapped(cols) |-> [v \in {} |-> {}]]]

Keys(t) == {t.rows[i].pk : i \in DOMAIN t.rows}
At(t, pk) == CHOOSE i \in DOMAIN t.rows : t.rows[i].pk = pk

indexRow(secondary, pk, row) ==
    [c \in DOMAIN secondary |->
        LET v == String(Cell(row, c))
            held == IF v \in DOMAIN secondary[c] THEN secondary[c][v] ELSE {}
        IN  Put(secondary[c], v, held \cup {pk})]

deindexRow(secondary, pk, row) ==
    [c \in DOMAIN secondary |->
        LET v == String(Cell(row, c))
            m == secondary[c]
        IN  IF v \notin DOMAIN m THEN m
            ELSE IF m[v] = {pk} THEN [w \in DOMAIN m \ {v} |-> m[w]]
            ELSE [m EXCEPT ![v] = @ \ {pk}]]

\* Every write answers the table afterwards and how the call ended.
Threw(t) == [table |-> t, res |-> "error"]
Gave(t, res) == [table |-> t, res |-> res]

insert(t, row) ==
    LET pk == encodePk(Cell(row, PrimaryKey(t.cols)))
    IN  IF ~validateRow(t.cols, row) \/ pk \in Keys(t) THEN Threw(t)
        ELSE Gave([t EXCEPT !.rows = Append(@, [pk |-> pk, row |-> row]),
                            !.secondary = indexRow(@, pk, row)], "ok")

update_KeepOldEntry(t, pkValue, patch) ==
    LET pk == encodePk(pkValue)
        i == At(t, pk)
        next == Merge(t.rows[i].row, patch)
    IN  IF ~IsKey(pkValue) THEN Threw(t)
        ELSE IF pk \notin Keys(t) THEN Gave(t, "null")
        ELSE IF ~validateRow(t.cols, next) \/ encodePk(next[PrimaryKey(t.cols)]) # pk THEN Threw(t)
        ELSE Gave([t EXCEPT !.rows[i].row = next, !.secondary = indexRow(@, pk, next)], "ok")

update_ChecksPatch(t, pkValue, patch) ==
    LET pk == encodePk(pkValue)
        i == At(t, pk)
        next == Merge(t.rows[i].row, patch)
    IN  IF pk \notin Keys(t) THEN Gave(t, "null")
        ELSE IF Cell(patch, PrimaryKey(t.cols)) \notin {Undef, t.rows[i].row[PrimaryKey(t.cols)]} THEN Threw(t)
        ELSE Gave([t EXCEPT !.rows[i].row = next,
                            !.secondary = indexRow(deindexRow(@, pk, t.rows[i].row), pk, next)], "ok")

update_MovesKey(t, pkValue, patch) ==
    LET pk == encodePk(pkValue)
        i == At(t, pk)
        next == Merge(t.rows[i].row, patch)
    IN  IF ~IsKey(pkValue) THEN Threw(t)
        ELSE IF pk \notin Keys(t) THEN Gave(t, "null")
        ELSE IF ~validateRow(t.cols, next) THEN Threw(t)
        ELSE Gave([t EXCEPT !.rows[i].row = next,
                            !.secondary = indexRow(deindexRow(@, pk, t.rows[i].row), pk, next)], "ok")

update(t, pkValue, patch) ==
    LET pk == encodePk(pkValue)
        i == At(t, pk)
        moved == Cell(patch, PrimaryKey(t.cols))
        next == Merge(t.rows[i].row, patch)
    IN  IF ~IsKey(pkValue) THEN Threw(t)
        ELSE IF pk \notin Keys(t) THEN Gave(t, "null")
        ELSE IF moved # Undef /\ (~IsKey(moved) \/ encodePk(moved) # pk) THEN Threw(t)
        ELSE IF ~validateRow(t.cols, next) THEN Threw(t)
        ELSE Gave([t EXCEPT !.rows[i].row = next,
                            !.secondary = indexRow(deindexRow(@, pk, t.rows[i].row), pk, next)], "ok")

delete_KeepsEntry(t, pkValue) ==
    LET pk == encodePk(pkValue)
    IN  IF pk \notin Keys(t) THEN Gave(t, "false") ELSE Gave([t EXCEPT !.rows = RemoveAt(@, At(t, pk))], "ok")

delete(t, pkValue) ==
    LET pk == encodePk(pkValue)
        i == At(t, pk)
    IN  IF ~IsKey(pkValue) THEN Threw(t)
        ELSE IF pk \notin Keys(t) THEN Gave(t, "false")
        ELSE Gave([t EXCEPT !.rows = RemoveAt(@, i),
                            !.secondary = deindexRow(@, pk, t.rows[i].row)], "ok")

\* The row under a key, or nothing.
findByPk(t, pkValue) == {t.rows[i].row : i \in {j \in DOMAIN t.rows : t.rows[j].pk = encodePk(pkValue)}}

count(t) == Len(t.rows)

=============================================================================
