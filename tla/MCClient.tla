------------------------------ MODULE MCClient ------------------------------
(* Two clients of one small arena.                                         *)
EXTENDS Client

CONSTANTS c1, c2, k1, k2, bad, long, t1, p1, s3, s9, big, nil

Cap == 2
Start == RingOffset + ringBytes(Cap) + 8
Table(records, artGap, strings, gap) ==
    [arenaBytes |-> Start + records + artGap + 40 + 8 + strings + gap,
     ringCapacity |-> Cap, recordStart |-> Start, recordBytes |-> records,
     artRoot |-> Start + records + artGap, artBytes |-> 40,
     stringStart |-> Start + records + artGap + 40, stringBytes |-> 8 + strings]
Segment(t) == [mapped |-> t.arenaBytes, magic |-> TRUE, version |-> 4, table |-> t]

Good == Segment(Table(32, 8, 40, 12))
\* Built for a larger mapping; an older layout; records reaching into the index.
Shrunk == [Good EXCEPT !.mapped = @ - 8]
Old == [Good EXCEPT !.version = 3]
Folded == Segment([Table(32, 8, 40, 12) EXCEPT !.recordBytes = 48])

\* Every record of up to four fields: each field is aligned to its width, ends
\* before the next one starts, and the record is a whole number of units.
ASSUME SchemasPack ==
    \A types \in UNION {[1 .. n -> FieldType] : n \in 1 .. 4} :
        LET at == fieldOffset(types)
        IN  /\ \A i \in DOMAIN types : at[i] % fieldAlign(types[i]) = 0
            /\ \A i, j \in DOMAIN types : i < j => at[i] + fieldSize(types[i]) <= at[j]
            /\ \A i \in DOMAIN types : at[i] + fieldSize(types[i]) <= totalSize(types)
            /\ totalSize(types) % Unit = 0

FourSegments == {Good, Shrunk, Old, Folded}
Roomy == Segment(Table(32, 8, 60, 12))
OneSegment == {Roomy}

TwoClients == {c1, c2}
TwoKeys == {k1, k2}
OneInvalid == {bad}
OneOverlong == {long}
OneTable == {t1}
OnePk == {p1}
ThreeStrings == {s3, s9, nil, big}
Lengths == [s \in ThreeStrings |-> CASE s = s3 -> 3 [] s = s9 -> 9 [] s = big -> 60 [] OTHER -> 0]
Bits == {0, 1}

Text(v, pk) == [value |-> v, pk |-> pk]
e1 == Text(<<97>>, <<120>>)            \* a: x
e2 == Text(<<97>>, <<121>>)            \* a: y
e3 == Text(<<97, 98>>, <<120>>)        \* ab: x
n3 == Text(padU32Hex(3), <<120>>)
n4 == Text(padU32Hex(4), <<121>>)
FiveEntries == {e1, e2, e3, n3, n4}
\* A value with the separator in it, and a primary key of U+10000.
f1 == Text(<<97, SECONDARY_SEP, 98>>, <<121>>)
f2 == Text(<<97>>, <<65536>>)
OddEntries == {f1, f2}

Do(op, k, data) == [op |-> op, key |-> k, data |-> data]
num(v) == [field |-> "num", value |-> v]
str(v) == [field |-> "str", value |-> v]
cols(v) == [field |-> "cols", value |-> v]

Column(name, type, flags) ==
    [name |-> name, type |-> type, nullable |-> "nullable" \in flags,
     primaryKey |-> "pk" \in flags, unique |-> "unique" \in flags]
One == <<Column(<<105>>, "uint32", {"pk", "unique"})>>
Two == <<Column(<<105>>, "string", {"pk"}), Column(<<97, 98>>, "timestamp_ms", {"nullable", "unique"})>>
TableName == [t \in Tables |-> <<116>>]
\* One character of three bytes (U+4E2D).
WideName == [t \in Tables |-> <<228, 184, 173>>]

Pair(s, t) == [c \in Clients |-> IF c = c1 THEN s ELSE t]

\* Two keys, one set of allocators.
Inserts ==
    Pair(<<Do("insert", k1, <<str(s3)>>)>>,
         <<Do("insert", k2, <<str(s9)>>), Do("find", k2, <<>>)>>)
\* One key written and read by both.
Updates ==
    Pair(<<Do("insert", k1, <<str(s3)>>), Do("update", k1, <<str(s9)>>)>>,
         <<Do("update", k1, <<num(1)>>), Do("find", k1, <<>>)>>)
Upserts ==
    Pair(<<Do("upsert", k2, <<str(s3)>>), Do("delete", k2, <<>>), Do("find", k2, <<>>)>>,
         <<Do("upsert", k2, <<num(1)>>)>>)
\* Catalog records.
Catalogs ==
    Pair(<<Do("save", t1, <<cols(One)>>), Do("save", t1, <<cols(Two)>>)>>,
         <<Do("load", t1, <<>>), Do("load", t1, <<>>), Do("insert", k1, <<str(s3)>>)>>)
\* A unique secondary index, of text and of numbers, and mirrored keys.
Uniques ==
    Pair(<<Do("insert", k1, <<>>), Do("add", e1, <<>>), Do("remove", e1, <<>>)>>,
         <<Do("add", e2, <<>>), Do("add", e3, <<>>)>>)
Numerics ==
    Pair(<<Do("insert", k1, <<>>), Do("add", n3, <<>>)>>, <<Do("add", n4, <<>>)>>)
Mirrors ==
    Pair(<<Do("insert", k1, <<>>), Do("mirror", p1, <<>>), Do("unmirror", p1, <<>>)>>,
         <<Do("insert", k2, <<num(BadValue)>>), Do("upsert", k2, <<num(1)>>)>>)
\* Refused keys, values and allocations.
Refusals ==
    Pair(<<Do("insert", k1, <<str(nil)>>), Do("update", k1, <<str(big)>>), Do("update", k1, <<str(s3)>>)>>,
         <<Do("insert", bad, <<>>), Do("find", bad, <<>>), Do("insert", long, <<>>), Do("find", long, <<>>),
           Do("delete", long, <<>>)>>)
Exhausted ==
    Pair(<<Do("insert", k1, <<>>), Do("insert", k1, <<>>)>>, <<Do("insert", k2, <<>>), Do("save", t1, <<cols(<<>>)>>)>>)

\* All that the code's comments are wrong about: odd entries, a table with a
\* wide name, and a string too large for the region before one that fits.
Odd ==
    Pair(<<Do("insert", k1, <<>>), Do("add", f2, <<>>), Do("add", f1, <<>>),
           Do("save", t1, <<cols(One)>>), Do("load", t1, <<>>)>>,
         <<Do("insert", k2, <<>>), Do("update", k2, <<str(big)>>), Do("update", k2, <<str(s3)>>)>>)
OnlyOdd == {Odd}

Scripts == {Inserts, Updates, Upserts, Catalogs, Uniques, Numerics, Mirrors, Refusals, Exhausted}

=============================================================================
