--------------------------- MODULE CatalogRecord ---------------------------
(***************************************************************************)
(* The byte format of a table descriptor (relational/catalog_record.ts): a *)
(* header of magic, version and column count, the table's name, and one    *)
(* fixed-width record per column.  A name is its UTF-8 bytes.                *)
(***************************************************************************)
EXTENDS Integers, Sequences, SequencesExt, FiniteSets

CONSTANTS
    NameField,      \* bytes reserved for a name
    MaxCatalogCols  \* most columns a descriptor holds

ASSUME CatalogRecordAssumption ==
    NameField \in 1 .. 255 /\ MaxCatalogCols \in 1 .. 255

Magic == <<84, 65, 67, 84>>    \* "TACT"
Version == <<1, 0>>
HeaderLen == 8

Types == <<"bool", "int8", "int16", "int32", "int64", "uint8", "uint16", "uint32",
           "float32", "float64", "string", "bytes", "timestamp_ms">>

catalogEncodedLen(count) == HeaderLen + 1 + NameField + count * (NameField + 3)

flagsOf_NoUnique(c) == (IF c.nullable THEN 1 ELSE 0) + (IF c.primaryKey THEN 2 ELSE 0)

flagsOf(c) ==
    (IF c.nullable THEN 1 ELSE 0) + (IF c.primaryKey THEN 2 ELSE 0) + (IF c.unique THEN 4 ELSE 0)

\* A length byte, the name, and zeros up to the end of the field.
NameBytes(name) ==
    <<Len(name)>> \o name \o [i \in 1 .. NameField - Len(name) |-> 0]

ColumnBytes(c) ==
    NameBytes(c.name) \o <<(CHOOSE i \in DOMAIN Types : Types[i] = c.type) - 1, flagsOf(c)>>

\* The length JavaScript gives a string of these bytes: a character of four
\* bytes counts twice, any other once.
Utf16Length(bytes) ==
    Cardinality({i \in DOMAIN bytes : bytes[i] \notin 128 .. 191})
        + Cardinality({i \in DOMAIN bytes : bytes[i] >= 240})

\* encodeCatalogRecord throws for anything else: a column's name is measured in
\* bytes, the table's in UTF-16 units, so all its bytes need is to end inside
\* the buffer.
Encodable(table, columns) ==
    /\ Utf16Length(table) \in 1 .. NameField
    /\ Len(columns) \in 1 .. MaxCatalogCols
    /\ HeaderLen + 1 + Len(table) <= catalogEncodedLen(Len(columns))
    /\ \A i \in DOMAIN columns : Len(columns[i].name) \in 1 .. NameField

\* The table's name is stored first and the columns over it; the padding of a
\* column's name is not stored at all.
encodeCatalogRecord(table, columns) ==
    LET width  == NameField + 3
        first  == HeaderLen + 1 + NameField
        header == Magic \o Version \o <<Len(columns), 0, Len(table) % 256>> \o table
        Before(k) == IF k \in DOMAIN header THEN header[k] ELSE 0
        Stored(q) ==
            LET c == columns[(q - 1) \div width + 1]
                j == ((q - 1) % width) + 1
            IN  IF j \in Len(c.name) + 2 .. NameField + 1 THEN Before(first + q) ELSE ColumnBytes(c)[j]
    IN  [k \in 1 .. first + Len(columns) * width |-> IF k <= first THEN Before(k) ELSE Stored(k - first)]

-----------------------------------------------------------------------------
Corrupt == [corrupt |-> TRUE]

NameIn(field) == SubSeq(field, 2, 1 + field[1])

\* The bytes of the i-th column record.
ColumnIn(buf, i) ==
    LET off == catalogEncodedLen(i - 1) IN SubSeq(buf, off + 1, off + NameField + 3)

\* A name that fills its field with zeros behind it, a known type, no reserved flag.
ValidColumn(b) ==
    /\ b[1] \in 1 .. NameField
    /\ \A j \in b[1] + 2 .. NameField + 1 : b[j] = 0
    /\ b[NameField + 2] + 1 \in DOMAIN Types
    /\ b[NameField + 3] < 8

DecodedColumn(b) ==
    LET flags == b[NameField + 3]
    IN  [name |-> NameIn(b), type |-> Types[b[NameField + 2] + 1],
         nullable |-> flags % 2 = 1, primaryKey |-> (flags \div 2) % 2 = 1, unique |-> (flags \div 4) % 2 = 1]

decodeCatalogRecord(buf) ==
    LET count == buf[7] + 256 * buf[8]
        ok == /\ Len(buf) > HeaderLen + NameField
              /\ SubSeq(buf, 1, 4) = Magic /\ SubSeq(buf, 5, 6) = Version
              /\ count \in 1 .. MaxCatalogCols
              /\ Len(buf) >= catalogEncodedLen(count)
              /\ buf[9] \in 1 .. NameField
              /\ \A i \in 1 .. count : ValidColumn(ColumnIn(buf, i))
    IN  IF ~ok THEN Corrupt
        ELSE [table |-> NameIn(SubSeq(buf, 9, 9 + NameField)),
              columns |-> [i \in 1 .. count |-> DecodedColumn(ColumnIn(buf, i))]]

=============================================================================
