---------------------------- MODULE MCRelational ----------------------------
(* Two tables with two rows each, and the calls that reach every branch.   *)
EXTENDS Relational

\* Numbers of one digit, which are their own spelling; Str(-1) is '', then come
\* the digits, 'a', 'b', 'null' and 'undefined', in lexicographic order.
SomeNumbers == {0, 1, 2, 3, 8}
TextA == 49
TextB == 50
NullCode == 100
UndefinedCode == 101
MinusOne == -1
SomeTexts == {MinusOne, TextA, TextB, NullCode, UndefinedCode} \cup SomeNumbers
DigitOf == [n \in SomeNumbers |-> n]
NumberRead == [x \in SomeTexts |-> IF x = MinusOne THEN {0} ELSE {x} \cap SomeNumbers]

Column(name, type, flags) ==
    [name |-> name, type |-> type, primaryKey |-> "pk" \in flags,
     unique |-> "unique" \in flags, nullable |-> "nullable" \in flags]

Users == <<Column("id", "num", {"pk"}), Column("k", "num", {"unique", "nullable"})>>
Orders == <<Column("id", "str", {"pk", "unique"}), Column("v", "num", {"nullable"})>>
Keyless == <<Column("v", "num", {})>>

SomeColumns == {"id", "k", "v"}
TwoNames == {"u", "o"}
Def(name, cols) == [name |-> name, cols |-> cols]
ThreeSchemas == {Def("u", Users), Def("o", Orders), Def("o", Keyless)}

r1 == [id |-> Num(1), k |-> Num(1)]
r2 == [id |-> Num(2), k |-> Num(1)]
r3 == [id |-> Num(2)]
s1 == [id |-> Str(1), v |-> Num(2)]
noKey == [k |-> Num(1)]
SomeRows == {r1, r3, s1, noKey}
SomeKeys == {Num(1), Str(2), Null}
SomePatches == {[k |-> Num(2)], [k |-> Null], [id |-> Num(2)], [k |-> Str(1)]}

Cond(col, op, val) == [col |-> col, op |-> op, val |-> val]
SqlColumn(name, type, flags) == [name |-> name, type |-> type, flags |-> flags]
SomeStatements ==
    { [kind |-> "insert", table |-> "u", cols |-> <<"id", "k">>, vals |-> <<Num(2), Num(1)>>],
      [kind |-> "insert", table |-> "u", cols |-> <<"id", "k">>, vals |-> <<Num(2)>>],
      [kind |-> "update", table |-> "u", sets |-> [id |-> Num(1)], where |-> Cond("id", "gte", Num(1))],
      [kind |-> "update", table |-> "u", sets |-> [k |-> Num(1)], where |-> Cond("k", "ne", Num(1))],
      [kind |-> "delete", table |-> "u", where |-> Cond("k", "eq", Num(1))],
      [kind |-> "delete", table |-> "u", where |-> None],
      [kind |-> "create", table |-> "o", cols |-> <<SqlColumn("id", "str", {"PRIMARY KEY"}), SqlColumn("v", "num", {})>>] }

SomeTxOps ==
    { [kind |-> "insert", table |-> "u", row |-> r2],
      [kind |-> "update", table |-> "u", pk |-> Num(2), patch |-> [k |-> Num(2)]],
      [kind |-> "delete", table |-> "u", pk |-> Num(1)],
      [kind |-> "insert", table |-> "u", row |-> noKey] }

Writes ==
    [schemas |-> ThreeSchemas, rows |-> SomeRows, keys |-> SomeKeys, patches |-> SomePatches,
     statements |-> SomeStatements, txOps |-> SomeTxOps, queries |-> {}, joins |-> {},
     columns |-> {}, targets |-> {}, saves |-> TRUE, maxRows |-> 2]

-----------------------------------------------------------------------------
(* For the reads: tables of three rows, with null and missing cells.       *)

ReadSchemas == {Def("u", Users), Def("o", Orders)}
UserRows == {[id |-> Num(i), k |-> x] : i \in 1 .. 3, x \in {Num(1), Num(8), Null}} \cup {[id |-> Num(2)]}
OrderRows == {[id |-> Str(i), v |-> Num(i)] : i \in 1 .. 2} \cup {[id |-> Str(1), v |-> Num(8)]}
ReadRows == UserRows \cup OrderRows

Query(clause, by, way, shown) ==
    [where |-> clause, order |-> by, dir |-> way, offset |-> 0, limit |-> None, select |-> shown]
SomeQueries ==
    { Query({}, "", "asc", {}),
      Query({}, "k", "asc", {}),
      Query({}, "k", "desc", {"id"}),
      Query({Cond("k", "ne", Num(1))}, "id", "desc", {"k", "v"}),
      Query({Cond("k", "in", {Num(1), Null}), Cond("id", "gt", Num(1))}, "k", "asc", {}) }

Join(left, right, leftKey, rightKey, where) ==
    [left |-> left, right |-> right, on |-> <<left, right>>, leftKey |-> leftKey, rightKey |-> rightKey,
     where |-> where, limit |-> None, cols |-> <<"*">>]
SomeJoins ==
    { Join("u", "o", "k", "v", None), Join("o", "u", "id", "id", None),
      [Join("u", "o", "k", "v", None) EXCEPT !.on = <<"o", "u">>],
      Join("u", "u", "k", "k", Cond("id", "gte", Num(2))) }

Reads ==
    [schemas |-> ReadSchemas, rows |-> ReadRows, keys |-> {Num(1)}, patches |-> {},
     statements |-> {}, txOps |-> {}, queries |-> SomeQueries, joins |-> SomeJoins,
     columns |-> {"k", "v"}, targets |-> {0, 1, 8, 17}, saves |-> FALSE, maxRows |-> 3]

-----------------------------------------------------------------------------
(* A nullable column of texts, one of which reads as a number and one 'null'. *)

Notes == <<Column("id", "num", {"pk"}), Column("v", "str", {"unique", "nullable"})>>
NoteRows == {[id |-> Num(i), v |-> x] : i \in 1 .. 3, x \in {Str(1), Str(TextB), Str(NullCode), Null}}

Texts ==
    [Reads EXCEPT !.schemas = {Def("o", Notes)}, !.rows = NoteRows,
                  !.queries = {Query({}, "v", "asc", {}), Query({}, "v", "desc", {"v"})},
                  !.joins = {Join("o", "o", "v", "v", None), Join("o", "o", "v", "id", None)},
                  !.columns = {"v"}]

\* All that the comments are wrong about: equal values in a unique column, a
\* self-join on them, a row without a number, and a batch that throws halfway.
Disputed ==
    [Reads EXCEPT !.schemas = {Def("u", Users)}, !.rows = {r1, r2, [id |-> Num(3)]},
                  !.queries = {Query({}, "", "asc", {})}, !.joins = {Join("u", "u", "k", "k", None)},
                  !.columns = {"k"}, !.targets = {1},
                  !.txOps = {[kind |-> "update", table |-> "u", pk |-> Num(2), patch |-> [k |-> x]] : x \in {Null, Str(1)}}]

WritesAndReads == {Writes, Reads, Texts}
OnlyDisputed == {Disputed}

=============================================================================
