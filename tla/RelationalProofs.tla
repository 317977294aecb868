-------------------------- MODULE RelationalProofs --------------------------
(***************************************************************************)
(* The tables, batches, catalog file and reads of Relational.              *)
(***************************************************************************)
EXTENDS Relational, FiniteSetTheorems, SequenceTheorems, WellFoundedInduction, TLAPS

-----------------------------------------------------------------------------
(* Induction, on sets of naturals.                                         *)

LEMMA LeastNatural ==
    ASSUME NEW S, S \subseteq Nat, S # {}
    PROVE  \E n \in S : \A m \in S : n <= m
<1> DEFINE Less == {ss \in Nat \X Nat : ss[1] < ss[2]}
<1>1. IsWellFoundedOn(Less, Nat)
  BY NatLessThanWellFounded, Zenon DEF OpToRel
<1> HIDE DEF Less
<1>2. PICK x \in S : \A y \in S : <<y, x>> \notin Less
  BY <1>1, WFMin
<1>3. \A y \in S : ~(y < x)
  BY <1>2 DEF Less
<1> QED
  BY <1>3

LEMMA InductionOnSets ==
    ASSUME NEW S, S \subseteq Nat, 0 \in S, \A n \in S : n + 1 \in S
    PROVE  \A n \in Nat : n \in S
<1> SUFFICES ASSUME Nat \ S # {} PROVE FALSE
  OBVIOUS
<1>1. PICK n \in Nat \ S : \A m \in Nat \ S : n <= m
  BY LeastNatural
<1>2. n # 0 /\ n - 1 \in Nat
  BY <1>1
<1>3. n - 1 \in S
  BY <1>1, <1>2
<1> QED
  BY <1>1, <1>2, <1>3

\* Max of a non-empty set of positions.
LEMMA MaxPosition ==
    ASSUME NEW n \in Nat, NEW S, S \subseteq 1 .. n, S # {}
    PROVE  Max(S) \in S /\ \A i \in S : i <= Max(S)
<1> DEFINE U == {m \in Nat : \A i \in S : i <= m}
<1>1. U \subseteq Nat /\ n \in U
  OBVIOUS
<1>2. PICK m \in U : \A k \in U : m <= k
  BY <1>1, LeastNatural
<1>3. m \in S
  <2> SUFFICES ASSUME m \notin S PROVE FALSE
    OBVIOUS
  <2>1. \A i \in S : i <= m - 1
    BY <1>2
  <2>2. PICK i : i \in S
    OBVIOUS
  <2>3. m \in Nat /\ i \in Nat /\ 1 <= i /\ i <= m - 1
    BY <1>2, <2>1, <2>2
  <2>4. m - 1 \in U
    BY <2>1, <2>3
  <2> QED
    BY <1>2, <2>3, <2>4
<1>4. m \in S /\ \A i \in S : m >= i
  BY <1>2, <1>3
<1>5. Max(S) \in S /\ \A i \in S : Max(S) >= i
  BY <1>4 DEF Max
<1> QED
  BY <1>5

-----------------------------------------------------------------------------
(* The entries of one secondary map.                                       *)

\* What the map of column c holds for the rows at the positions P.
Rendered(rows, i, c) == String(Cell(rows[i].row, c))
Holding(rows, P, c, v) == {rows[i].pk : i \in {j \in P : Rendered(rows, j, c) = v}}

\* No two of the positions hold the same key.
Apart(rows, P) == \A j, k \in P : rows[j].pk = rows[k].pk => j = k

Entries(rows, P, c) == [v \in {Rendered(rows, i, c) : i \in P} |-> Holding(rows, P, c, v)]

\* What a map holds under v, and the map without pk there.
Held(m, v) == IF v \in DOMAIN m THEN m[v] ELSE {}
Dropped(m, v, pk) == IF m[v] = {pk} THEN [w \in DOMAIN m \ {v} |-> m[w]] ELSE [m EXCEPT ![v] = @ \ {pk}]

LEMMA EntriesGrow ==
    ASSUME NEW rows, NEW P, NEW i, NEW c, NEW v, v = Rendered(rows, i, c),
           NEW m, m = Entries(rows, P, c),
           NEW held, held = Held(m, v)
    PROVE  Put(m, v, held \cup {rows[i].pk}) = Entries(rows, P \cup {i}, c)
<1> DEFINE Q == P \cup {i}
           D == {Rendered(rows, j, c) : j \in P}
           E == {Rendered(rows, j, c) : j \in Q}
<1>1. E = D \cup {v}
  OBVIOUS
<1>2. DOMAIN m = D /\ \A w \in D : m[w] = Holding(rows, P, c, w)
  BY DEF Entries
<1>3. \A w : w # v => Holding(rows, Q, c, w) = Holding(rows, P, c, w)
  BY DEF Holding
<1>4. held = Holding(rows, P, c, v)
  BY <1>2 DEF Holding, Held
<1>5. Holding(rows, Q, c, v) = held \cup {rows[i].pk}
  BY <1>4 DEF Holding
<1> HIDE DEF D, E, Q
<1>6. \A w \in E : (IF w = v THEN held \cup {rows[i].pk} ELSE m[w]) = Holding(rows, Q, c, w)
  BY <1>1, <1>2, <1>3, <1>5
<1>7. Put(m, v, held \cup {rows[i].pk}) = [w \in E |-> Holding(rows, Q, c, w)]
  BY <1>1, <1>2, <1>6 DEF Put
<1> QED
  BY <1>7 DEF Entries, E, Q

LEMMA EntriesShrink ==
    ASSUME NEW rows, NEW P, NEW Q, NEW i, NEW c, NEW v, NEW m,
           i \in P, Q = P \ {i}, Apart(rows, P), v = Rendered(rows, i, c), m = Entries(rows, P, c)
    PROVE  /\ v \in DOMAIN m
           /\ Dropped(m, v, rows[i].pk) = Entries(rows, Q, c)
<1> DEFINE D == {Rendered(rows, j, c) : j \in P}
           E == {Rendered(rows, j, c) : j \in Q}
<1>1. DOMAIN m = D /\ (\A w \in D : m[w] = Holding(rows, P, c, w)) /\ m = [w \in D |-> m[w]]
  BY DEF Entries
<1>2. v \in D
  OBVIOUS
<1>3. \A w : w # v => Holding(rows, Q, c, w) = Holding(rows, P, c, w)
  BY DEF Holding
<1>4. Holding(rows, Q, c, v) = Holding(rows, P, c, v) \ {rows[i].pk}
  BY DEF Holding, Apart
<1>5. D \ {v} \subseteq E /\ E \subseteq D
  OBVIOUS
<1>6. m[v] = {rows[i].pk} <=> v \notin E
  <2> HIDE DEF D
  <2>0. m[v] = Holding(rows, P, c, v)
    BY <1>1, <1>2
  <2>1. rows[i].pk \in m[v]
    BY <2>0 DEF Holding
  <2>2. ASSUME NEW j \in Q, Rendered(rows, j, c) = v PROVE m[v] # {rows[i].pk}
    <3>1. rows[j].pk \in m[v] /\ rows[j].pk # rows[i].pk
      BY <2>0, <2>2 DEF Holding, Apart
    <3> QED
      BY <3>1
  <2>3. ASSUME v \notin E, NEW x \in m[v] PROVE x = rows[i].pk
    <3>1. PICK j \in P : x = rows[j].pk /\ Rendered(rows, j, c) = v
      BY <2>0, <2>3 DEF Holding
    <3>2. j = i
      BY <2>3, <3>1
    <3> QED
      BY <3>1, <3>2
  <2> QED
    BY <2>1, <2>2, <2>3
<1> HIDE DEF D, E
<1>7. CASE v \notin E
  <2>1. E = D \ {v}
    BY <1>5, <1>7
  <2>2. [w \in DOMAIN m \ {v} |-> m[w]] = [w \in E |-> Holding(rows, Q, c, w)]
    BY <1>1, <1>3, <2>1
  <2> QED
    BY <1>1, <1>2, <1>6, <1>7, <2>2 DEF Entries, E, Dropped
<1>8. CASE v \in E
  <2>1. E = D
    BY <1>5, <1>8
  <2>2. [m EXCEPT ![v] = @ \ {rows[i].pk}] = [w \in E |-> IF w = v THEN m[v] \ {rows[i].pk} ELSE m[w]]
    BY <1>1, <2>1
  <2>3. \A w \in E : (IF w = v THEN m[v] \ {rows[i].pk} ELSE m[w]) = Holding(rows, Q, c, w)
    BY <1>1, <1>2, <1>3, <1>4, <2>1
  <2>4. [m EXCEPT ![v] = @ \ {rows[i].pk}] = [w \in E |-> Holding(rows, Q, c, w)]
    BY <2>2, <2>3
  <2> QED
    BY <1>1, <1>2, <1>6, <1>8, <2>4 DEF Entries, E, Dropped
<1> QED
  BY <1>7, <1>8

\* Positions matter only for the rows at them.
LEMMA EntriesAgree ==
    ASSUME NEW r, NEW s, NEW P, NEW c, \A i \in P : r[i] = s[i]
    PROVE  Entries(r, P, c) = Entries(s, P, c)
BY DEF Entries, Holding, Rendered

LEMMA EntriesMove ==
    ASSUME NEW r, NEW s, NEW P, NEW Q, NEW c, NEW f,
           \A i \in P : f[i] \in Q /\ r[i] = s[f[i]],
           \A j \in Q : \E i \in P : j = f[i]
    PROVE  Entries(r, P, c) = Entries(s, Q, c)
<1>1. {Rendered(r, i, c) : i \in P} = {Rendered(s, j, c) : j \in Q}
  <2>1. \A i \in P : f[i] \in Q /\ Rendered(r, i, c) = Rendered(s, f[i], c)
    BY DEF Rendered
  <2> QED
    BY <2>1
<1>2. ASSUME NEW v PROVE Holding(r, P, c, v) = Holding(s, Q, c, v)
  <2>1. ASSUME NEW i \in P, Rendered(r, i, c) = v PROVE f[i] \in Q /\ Rendered(s, f[i], c) = v /\ r[i].pk = s[f[i]].pk
    BY <2>1 DEF Rendered
  <2>2. ASSUME NEW j \in Q, Rendered(s, j, c) = v PROVE \E i \in P : Rendered(r, i, c) = v /\ r[i].pk = s[j].pk
    BY <2>2 DEF Rendered
  <2>3. Holding(r, P, c, v) \subseteq Holding(s, Q, c, v)
    BY <2>1 DEF Holding
  <2>4. Holding(s, Q, c, v) \subseteq Holding(r, P, c, v)
    BY <2>2 DEF Holding
  <2> QED
    BY <2>3, <2>4
<1> QED
  BY <1>1, <1>2 DEF Entries

-----------------------------------------------------------------------------
(* One table.                                                              *)

Secondaries(cols, rows, P) == [c \in Mapped(cols) |-> Entries(rows, P, c)]

LEMMA IndexRow ==
    ASSUME NEW cols, NEW rows, NEW P, NEW Q, NEW i, NEW s,
           Q = P \cup {i}, s = Secondaries(cols, rows, P)
    PROVE  indexRow(s, rows[i].pk, rows[i].row) = Secondaries(cols, rows, Q)
<1>1. indexRow(s, rows[i].pk, rows[i].row) =
        [c \in Mapped(cols) |->
            Put(s[c], Rendered(rows, i, c), Held(s[c], Rendered(rows, i, c)) \cup {rows[i].pk})]
  BY DEF indexRow, Rendered, Secondaries, Held
<1>2. ASSUME NEW c \in Mapped(cols)
      PROVE  Put(s[c], Rendered(rows, i, c), Held(s[c], Rendered(rows, i, c)) \cup {rows[i].pk}) =
               Entries(rows, Q, c)
  <2>1. s[c] = Entries(rows, P, c)
    BY DEF Secondaries
  <2> QED
    BY <2>1, EntriesGrow
<1> QED
  BY <1>1, <1>2 DEF Secondaries

LEMMA DeindexRow ==
    ASSUME NEW cols, NEW rows, NEW P, NEW Q, NEW i, NEW s,
           i \in P, Q = P \ {i}, Apart(rows, P), s = Secondaries(cols, rows, P)
    PROVE  deindexRow(s, rows[i].pk, rows[i].row) = Secondaries(cols, rows, Q)
<1>1. deindexRow(s, rows[i].pk, rows[i].row) =
        [c \in Mapped(cols) |-> IF Rendered(rows, i, c) \notin DOMAIN s[c] THEN s[c]
                                ELSE Dropped(s[c], Rendered(rows, i, c), rows[i].pk)]
  BY DEF deindexRow, Rendered, Secondaries, Dropped
<1>2. ASSUME NEW c \in Mapped(cols)
      PROVE  /\ Rendered(rows, i, c) \in DOMAIN s[c]
             /\ Dropped(s[c], Rendered(rows, i, c), rows[i].pk) = Entries(rows, Q, c)
  <2>1. s[c] = Entries(rows, P, c)
    BY DEF Secondaries
  <2>2. PICK v, m : v = Rendered(rows, i, c) /\ m = Entries(rows, P, c)
    OBVIOUS
  <2>3. v \in DOMAIN m /\ Dropped(m, v, rows[i].pk) = Entries(rows, Q, c)
    BY <2>2, EntriesShrink
  <2> QED
    BY <2>1, <2>2, <2>3
<1> QED
  BY <1>1, <1>2 DEF Secondaries

Texts == [t : {"text"}, v : Int]
AllRows == UNION {[S -> Cells] : S \in SUBSET ColumnNames}
Entry == [pk : Texts, row : AllRows]

LEMMA RowIsRow == \A r : IsRow(r) <=> r \in AllRows
BY DEF IsRow, AllRows

LEMMA CellIsCell ==
    ASSUME NEW r \in AllRows, NEW c
    PROVE  Cell(r, c) \in Cells
BY DEF AllRows, Cell, Cells, Undef

LEMMA KeyIsText ==
    ASSUME NEW x \in Cells
    PROVE  /\ IsKey(x) => encodePk(x) \in Texts
           /\ IsKey(x) <=> x \notin {Null, Undef}
<1>1. CASE \E n \in CellNumbers : x = Num(n)
  <2>1. x.t = "num" /\ x.v \in CellNumbers /\ x # Null /\ x # Undef
    BY <1>1 DEF Num, Null, Undef
  <2>2. Spelling[x.v] \in Int
    BY <2>1, TextAssumption
  <2>3. encodePk(x) = Text(Spelling[x.v])
    BY <2>1 DEF encodePk, String
  <2> QED
    BY <2>1, <2>2, <2>3 DEF IsKey, Text, Texts
<1>2. CASE \E y \in CellTexts : x = Str(y)
  <2>1. x.t = "str" /\ x.v \in Int /\ x # Null /\ x # Undef
    BY <1>2, TextAssumption DEF Str, Null, Undef
  <2>2. encodePk(x) = Text(x.v)
    BY <2>1 DEF encodePk, String
  <2> QED
    BY <2>1, <2>2 DEF IsKey, Text, Texts
<1>3. CASE x \in {Null, Undef}
  BY <1>3 DEF IsKey, Null, Undef
<1> QED
  BY <1>1, <1>2, <1>3 DEF Cells

\* The row has its schema's columns and is stored under its own key.
RowFits(cols, e) == validateRow(cols, e.row) /\ e.pk = encodePk(Cell(e.row, PrimaryKey(cols)))

IsTable(t) ==
    /\ t \in [cols : Seq(ColumnDefs), rows : Seq(Entry), secondary : {Secondaries(t.cols, t.rows, DOMAIN t.rows)}]
    /\ ValidSchema(t.cols)
    /\ \A i \in DOMAIN t.rows : RowFits(t.cols, t.rows[i])
    /\ Apart(t.rows, DOMAIN t.rows)

LEMMA NewTableWorks ==
    ASSUME NEW cols \in Seq(ColumnDefs), ValidSchema(cols)
    PROVE  IsTable(NewTable(cols)) /\ NewTable(cols).cols = cols /\ NewTable(cols).rows = <<>>
<1> DEFINE t == NewTable(cols)
<1>1. t = [cols |-> cols, rows |-> <<>>, secondary |-> [c \in Mapped(cols) |-> [v \in {} |-> {}]]]
  BY DEF NewTable
<1>2. DOMAIN t.rows = {} /\ t.rows = <<>> /\ t.rows \in Seq(Entry)
  BY <1>1
<1>3. \A c : Entries(t.rows, {}, c) = [v \in {} |-> {}]
  BY DEF Entries
<1>4. t.secondary = Secondaries(t.cols, t.rows, DOMAIN t.rows)
  BY <1>1, <1>2, <1>3 DEF Secondaries
<1> QED
  BY <1>1, <1>2, <1>4 DEF IsTable, Apart

\* At finds the one row under a key.
LEMMA AtFinds ==
    ASSUME NEW t, IsTable(t), NEW pk
    PROVE  /\ pk \in Keys(t) => At(t, pk) \in DOMAIN t.rows /\ t.rows[At(t, pk)].pk = pk
           /\ \A i \in DOMAIN t.rows : t.rows[i].pk \in Keys(t) /\ At(t, t.rows[i].pk) = i
<1>1. pk \in Keys(t) => At(t, pk) \in DOMAIN t.rows /\ t.rows[At(t, pk)].pk = pk
  BY DEF Keys, At
<1>2. ASSUME NEW i \in DOMAIN t.rows PROVE t.rows[i].pk \in Keys(t) /\ At(t, t.rows[i].pk) = i
  <2>1. At(t, t.rows[i].pk) \in DOMAIN t.rows /\ t.rows[At(t, t.rows[i].pk)].pk = t.rows[i].pk
    BY DEF At
  <2> QED
    BY <2>1 DEF Keys, IsTable, Apart
<1> QED
  BY <1>1, <1>2

LEMMA ValidRowKey ==
    ASSUME NEW cols, NEW row \in AllRows, validateRow(cols, row)
    PROVE  IsKey(Cell(row, PrimaryKey(cols))) /\ encodePk(Cell(row, PrimaryKey(cols))) \in Texts
BY CellIsCell, KeyIsText DEF validateRow

\* The table t with other rows and secondary maps.
With(t, r, s) == [t EXCEPT !.rows = r, !.secondary = s]

LEMMA TableWrite ==
    ASSUME NEW t, IsTable(t), NEW r, NEW s
    PROVE  With(t, r, s) = [cols |-> t.cols, rows |-> r, secondary |-> s]
<1>1. t \in [cols : Seq(ColumnDefs), rows : Seq(Entry), secondary : {t.secondary}]
  BY DEF IsTable
<1>2. PICK v : v = [t EXCEPT !.rows = r]
  OBVIOUS
<1>3. v = [cols |-> t.cols, rows |-> r, secondary |-> t.secondary]
  BY <1>1, <1>2
<1>4. [v EXCEPT !.secondary = s] = [cols |-> t.cols, rows |-> r, secondary |-> s]
  BY <1>3
<1>5. With(t, r, s) = [v EXCEPT !.secondary = s]
  BY <1>2 DEF With
<1> QED
  BY <1>4, <1>5

\* Rows that fit, with secondary maps to match, make a table.
LEMMA MakeTable ==
    ASSUME NEW t, IsTable(t), NEW rows \in Seq(Entry), Apart(rows, DOMAIN rows),
           \A i \in DOMAIN rows : RowFits(t.cols, rows[i]),
           NEW s, s = Secondaries(t.cols, rows, DOMAIN rows),
           NEW u, u = With(t, rows, s)
    PROVE  IsTable(u) /\ u.cols = t.cols /\ u.rows = rows
<1>1. u = [cols |-> t.cols, rows |-> rows, secondary |-> s]
  BY TableWrite
<1>2. u.cols = t.cols /\ u.rows = rows /\ t.cols \in Seq(ColumnDefs) /\ ValidSchema(t.cols)
  BY <1>1 DEF IsTable
<1>3. u \in [cols : Seq(ColumnDefs), rows : Seq(Entry), secondary : {Secondaries(u.cols, u.rows, DOMAIN u.rows)}]
  BY <1>1, <1>2
<1> QED
  BY <1>2, <1>3 DEF IsTable

LEMMA InsertWorks ==
    ASSUME NEW t, IsTable(t), NEW row \in AllRows, NEW pk, pk = encodePk(Cell(row, PrimaryKey(t.cols)))
    PROVE  \/ insert(t, row) = Threw(t)
           \/ /\ insert(t, row).res = "ok" /\ pk \notin Keys(t)
              /\ IsTable(insert(t, row).table) /\ insert(t, row).table.cols = t.cols
              /\ insert(t, row).table.rows = Append(t.rows, [pk |-> pk, row |-> row])
<1> SUFFICES ASSUME validateRow(t.cols, row), pk \notin Keys(t)
             PROVE  /\ insert(t, row).res = "ok"
                    /\ IsTable(insert(t, row).table) /\ insert(t, row).table.cols = t.cols
                    /\ insert(t, row).table.rows = Append(t.rows, [pk |-> pk, row |-> row])
  BY DEF insert
<1> DEFINE e == [pk |-> pk, row |-> row]
           P == DOMAIN t.rows
           n == Len(t.rows) + 1
<1>1. t.rows \in Seq(Entry) /\ t.cols \in Seq(ColumnDefs) /\ t.secondary = Secondaries(t.cols, t.rows, P)
  BY DEF IsTable
<1>2. pk \in Texts /\ e \in Entry
  BY ValidRowKey DEF Entry
<1>3. PICK rows : rows = Append(t.rows, e)
  OBVIOUS
<1>4. /\ rows \in Seq(Entry) /\ Len(t.rows) \in Nat /\ P = 1 .. Len(t.rows) /\ DOMAIN rows = 1 .. n
      /\ DOMAIN rows = P \cup {n} /\ rows[n] = e /\ \A i \in P : rows[i] = t.rows[i]
  BY <1>1, <1>2, <1>3
<1>5. t.secondary = Secondaries(t.cols, rows, P)
  BY <1>1, <1>4, EntriesAgree DEF Secondaries
<1>6. indexRow(t.secondary, rows[n].pk, rows[n].row) = Secondaries(t.cols, rows, DOMAIN rows)
  BY <1>4, <1>5, IndexRow
<1>7. \A i \in DOMAIN rows : RowFits(t.cols, rows[i])
  BY <1>4 DEF RowFits, IsTable
<1>8. Apart(rows, DOMAIN rows)
  <2>1. \A i \in P : rows[i].pk # pk
    BY <1>4 DEF Keys
  <2>2. Apart(rows, P)
    BY <1>4 DEF Apart, IsTable
  <2> QED
    BY SMTT(60), <1>4, <2>1, <2>2 DEF Apart
<1>9. indexRow(t.secondary, pk, row) = Secondaries(t.cols, rows, DOMAIN rows)
  <2>1. rows[n].pk = pk /\ rows[n].row = row
    BY <1>4
  <2> QED
    BY <1>6, <2>1
<1>10. PICK s : s = indexRow(t.secondary, pk, row)
  OBVIOUS
<1>11. PICK u : u = With(t, rows, s)
  OBVIOUS
<1>12. insert(t, row) = [table |-> u, res |-> "ok"]
  BY <1>3, <1>10, <1>11 DEF insert, Gave, With
<1>13. IsTable(u) /\ u.cols = t.cols /\ u.rows = rows
  BY <1>4, <1>7, <1>8, <1>9, <1>10, <1>11, MakeTable
<1> QED
  BY <1>3, <1>12, <1>13

Patched(rows, i, pk, patch) == [rows EXCEPT ![i] = [pk |-> pk, row |-> Merge(rows[i].row, patch)]]

LEMMA UpdateWorks ==
    ASSUME NEW t, IsTable(t), NEW pkValue, NEW pk, pk = encodePk(pkValue), NEW patch \in AllRows,
           NEW i, i = At(t, pk)
    PROVE  \/ update(t, pkValue, patch) = Threw(t)
           \/ update(t, pkValue, patch) = Gave(t, "null") /\ pk \notin Keys(t)
           \/ /\ update(t, pkValue, patch).res = "ok" /\ pk \in Keys(t)
              /\ IsTable(update(t, pkValue, patch).table) /\ update(t, pkValue, patch).table.cols = t.cols
              /\ update(t, pkValue, patch).table.rows = Patched(t.rows, i, pk, patch)
<1> DEFINE P == DOMAIN t.rows
           moved == Cell(patch, PrimaryKey(t.cols))
<1>0. PICK next : next = Merge(t.rows[i].row, patch)
  BY SMTT(60)
<1> SUFFICES ASSUME pk \in Keys(t), moved = Undef \/ (IsKey(moved) /\ encodePk(moved) = pk), validateRow(t.cols, next),
                    IsKey(pkValue)
             PROVE  /\ update(t, pkValue, patch).res = "ok"
                    /\ IsTable(update(t, pkValue, patch).table) /\ update(t, pkValue, patch).table.cols = t.cols
                    /\ update(t, pkValue, patch).table.rows = [t.rows EXCEPT ![i] = [pk |-> pk, row |-> next]]
  BY <1>0 DEF update, Patched
<1>1. t.rows \in Seq(Entry) /\ t.secondary = Secondaries(t.cols, t.rows, P) /\ Apart(t.rows, P)
  BY DEF IsTable
<1>2. i \in P /\ t.rows[i].pk = pk /\ t.rows[i] \in Entry /\ RowFits(t.cols, t.rows[i])
  BY <1>1, AtFinds DEF IsTable
<1>3. pk \in Texts /\ next \in AllRows
  <2>1. pk \in Texts /\ t.rows[i].row \in AllRows
    BY <1>2 DEF Entry
  <2>2. PICK S \in SUBSET ColumnNames : t.rows[i].row \in [S -> Cells]
    BY <2>1 DEF AllRows
  <2>3. PICK T \in SUBSET ColumnNames : patch \in [T -> Cells]
    BY DEF AllRows
  <2>4. next \in [S \cup T -> Cells] /\ S \cup T \in SUBSET ColumnNames
    BY <1>0, <2>2, <2>3 DEF Merge
  <2> QED
    BY <2>1, <2>4 DEF AllRows
<1>4. encodePk(Cell(next, PrimaryKey(t.cols))) = pk
  <2>1. CASE PrimaryKey(t.cols) \in DOMAIN patch
    <3>1. Cell(next, PrimaryKey(t.cols)) = moved
      BY <1>0, <2>1 DEF Merge, Cell
    <3>2. moved # Undef
      BY <3>1 DEF validateRow
    <3> QED
      BY <3>1, <3>2
  <2>2. CASE PrimaryKey(t.cols) \notin DOMAIN patch
    <3>1. Cell(next, PrimaryKey(t.cols)) = Cell(t.rows[i].row, PrimaryKey(t.cols))
      BY <1>0, <2>2 DEF Merge, Cell
    <3> QED
      BY <1>2, <3>1 DEF RowFits
  <2> QED
    BY <2>1, <2>2
<1>5. PICK e : e = [pk |-> pk, row |-> next]
  OBVIOUS
<1>6. e \in Entry /\ e.pk = pk /\ e.row = next /\ RowFits(t.cols, e)
  BY <1>3, <1>4, <1>5 DEF Entry, RowFits
<1>7. PICK rows : rows = [t.rows EXCEPT ![i] = e]
  OBVIOUS
<1>8. /\ rows \in Seq(Entry) /\ DOMAIN rows = P /\ rows[i] = e
      /\ \A j \in P \ {i} : rows[j] = t.rows[j]
  BY <1>1, <1>2, <1>6, <1>7
<1>9. \A j \in DOMAIN rows : RowFits(t.cols, rows[j]) /\ rows[j].pk = t.rows[j].pk
  <2>1. ASSUME NEW j \in P, j # i PROVE RowFits(t.cols, rows[j]) /\ rows[j].pk = t.rows[j].pk
    BY <1>8, <2>1 DEF IsTable
  <2> QED
    BY <1>2, <1>6, <1>8, <2>1
<1>10. Apart(rows, DOMAIN rows)
  BY <1>1, <1>8, <1>9 DEF Apart
<1>11. PICK Q : Q = P \ {i}
  OBVIOUS
<1>12. PICK cut : cut = deindexRow(t.secondary, pk, t.rows[i].row)
  OBVIOUS
<1>13. cut = Secondaries(t.cols, rows, Q)
  <2>1. deindexRow(t.secondary, t.rows[i].pk, t.rows[i].row) = Secondaries(t.cols, t.rows, Q)
    BY <1>1, <1>2, <1>11, DeindexRow
  <2>2. Secondaries(t.cols, t.rows, Q) = Secondaries(t.cols, rows, Q)
    BY <1>8, <1>11, EntriesAgree DEF Secondaries
  <2> QED
    BY <1>2, <1>12, <2>1, <2>2
<1>14. PICK s : s = indexRow(cut, pk, next)
  OBVIOUS
<1>15. s = Secondaries(t.cols, rows, DOMAIN rows)
  <2>1. DOMAIN rows = Q \cup {i}
    BY <1>2, <1>8, <1>11
  <2>2. indexRow(cut, rows[i].pk, rows[i].row) = Secondaries(t.cols, rows, DOMAIN rows)
    BY <1>13, <2>1, IndexRow
  <2> QED
    BY <1>6, <1>8, <1>14, <2>2
<1>16. PICK u : u = With(t, rows, s)
  OBVIOUS
<1>17. update(t, pkValue, patch) = [table |-> u, res |-> "ok"]
  <2>1. update(t, pkValue, patch) =
          [table |-> [t EXCEPT !.rows[i].row = next, !.secondary = indexRow(deindexRow(@, pk, t.rows[i].row), pk, next)],
           res |-> "ok"]
    BY <1>0 DEF update, Gave
  <2>2. rows = [t.rows EXCEPT ![i].row = next]
    <3>1. [t.rows[i] EXCEPT !.row = next] = e
      BY <1>2, <1>5 DEF Entry
    <3> QED
      BY <1>7, <3>1
  <2>3. u = [t EXCEPT !.rows[i].row = next, !.secondary = indexRow(deindexRow(@, pk, t.rows[i].row), pk, next)]
    BY <1>12, <1>14, <1>16, <2>2 DEF With
  <2> QED
    BY <2>1, <2>3
<1>18. IsTable(u) /\ u.cols = t.cols /\ u.rows = rows
  BY <1>8, <1>9, <1>10, <1>15, <1>16, MakeTable
<1> QED
  BY <1>5, <1>7, <1>17, <1>18

\* What RemoveAt leaves.
LEMMA RemoveAtFacts ==
    ASSUME NEW T, NEW s \in Seq(T), NEW i \in DOMAIN s, NEW r, r = RemoveAt(s, i)
    PROVE  /\ r \in Seq(T) /\ Len(s) \in Nat /\ DOMAIN s = 1 .. Len(s)
           /\ DOMAIN r = 1 .. Len(s) - 1 /\ Len(r) = Len(s) - 1
           /\ \A j \in DOMAIN r : r[j] = IF j < i THEN s[j] ELSE s[j + 1]
<1> DEFINE a == SubSeq(s, 1, i - 1)
           b == SubSeq(s, i + 1, Len(s))
<1>1. Len(s) \in Nat /\ DOMAIN s = 1 .. Len(s) /\ i \in 1 .. Len(s)
  OBVIOUS
<1>2. a \in Seq(T) /\ Len(a) = i - 1 /\ \A j \in 1 .. i - 1 : a[j] = s[j]
  BY <1>1
<1>3. b \in Seq(T) /\ Len(b) = Len(s) - i /\ \A j \in 1 .. Len(s) - i : b[j] = s[i + j]
  BY SMTT(60), <1>1
<1>4. r = a \o b
  BY DEF RemoveAt
<1> HIDE DEF a, b
<1>5. r \in Seq(T) /\ Len(r) = Len(s) - 1 /\ DOMAIN r = 1 .. Len(s) - 1
  <2>1. r \in Seq(T) /\ Len(r) = Len(a) + Len(b) /\ DOMAIN r = 1 .. Len(r)
    BY SMTT(60), <1>2, <1>3, <1>4
  <2>2. Len(a) + Len(b) = Len(s) - 1
    BY <1>1, <1>2, <1>3
  <2> QED
    BY <2>1, <2>2
<1>6. ASSUME NEW j \in DOMAIN r PROVE r[j] = IF j < i THEN s[j] ELSE s[j + 1]
  <2>1. j \in 1 .. Len(s) - 1
    BY <1>5
  <2>2. r[j] = IF j <= Len(a) THEN a[j] ELSE b[j - Len(a)]
    BY <1>1, <1>2, <1>3, <1>4, <2>1
  <2>3. CASE j < i
    BY <1>1, <1>2, <2>1, <2>2, <2>3
  <2>4. CASE ~(j < i)
    <3>1. j - Len(a) \in 1 .. Len(s) - i /\ i + (j - Len(a)) = j + 1 /\ ~(j <= Len(a))
      BY <1>1, <1>2, <2>1, <2>4
    <3> QED
      BY <1>3, <2>2, <2>4, <3>1
  <2> QED
    BY <2>3, <2>4
<1> QED
  BY <1>1, <1>5, <1>6

\* f says where in s the elements of r were, all but the i-th.
Moves(f, r, s, i) ==
    /\ \A j \in DOMAIN r : f[j] \in DOMAIN s /\ f[j] # i /\ r[j] = s[f[j]]
    /\ \A k \in DOMAIN s : k # i => \E j \in DOMAIN r : k = f[j]
    /\ \A j, k \in DOMAIN r : f[j] = f[k] => j = k

LEMMA RemoveAtMoves ==
    ASSUME NEW T, NEW s \in Seq(T), NEW i \in DOMAIN s, NEW r, r = RemoveAt(s, i)
    PROVE  \E f : Moves(f, r, s, i)
<1>1. /\ Len(s) \in Nat /\ DOMAIN s = 1 .. Len(s) /\ i \in 1 .. Len(s) /\ DOMAIN r = 1 .. Len(s) - 1
      /\ \A j \in DOMAIN r : r[j] = IF j < i THEN s[j] ELSE s[j + 1]
  BY RemoveAtFacts
<1>2. PICK f : f = [j \in DOMAIN r |-> IF j < i THEN j ELSE j + 1]
  OBVIOUS
<1>3. \A j \in DOMAIN r : f[j] \in DOMAIN s /\ f[j] # i /\ r[j] = s[f[j]]
  BY <1>1, <1>2
<1>4. ASSUME NEW k \in DOMAIN s, k # i PROVE \E j \in DOMAIN r : k = f[j]
  <2>1. CASE k < i
    <3>1. k \in DOMAIN r /\ f[k] = k
      BY <1>1, <1>2, <2>1
    <3> QED
      BY <3>1
  <2>2. CASE k > i
    <3>1. k - 1 \in DOMAIN r /\ f[k - 1] = k
      BY <1>1, <1>2, <2>2
    <3> QED
      BY <3>1
  <2> QED
    BY <1>1, <1>4, <2>1, <2>2
<1>5. \A j, k \in DOMAIN r : f[j] = f[k] => j = k
  BY <1>1, <1>2
<1>6. Moves(f, r, s, i)
  BY <1>3, <1>4, <1>5 DEF Moves
<1> QED
  BY <1>6

LEMMA DeleteWorks ==
    ASSUME NEW t, IsTable(t), NEW pkValue, NEW pk, pk = encodePk(pkValue), NEW i, i = At(t, pk)
    PROVE  \/ delete(t, pkValue) = Threw(t)
           \/ delete(t, pkValue) = Gave(t, "false") /\ pk \notin Keys(t)
           \/ /\ delete(t, pkValue).res = "ok" /\ pk \in Keys(t)
              /\ IsTable(delete(t, pkValue).table) /\ delete(t, pkValue).table.cols = t.cols
              /\ delete(t, pkValue).table.rows = RemoveAt(t.rows, i)
<1> SUFFICES ASSUME pk \in Keys(t), IsKey(pkValue)
             PROVE  /\ delete(t, pkValue).res = "ok"
                    /\ IsTable(delete(t, pkValue).table) /\ delete(t, pkValue).table.cols = t.cols
                    /\ delete(t, pkValue).table.rows = RemoveAt(t.rows, i)
  BY DEF delete
<1> DEFINE P == DOMAIN t.rows
<1>1. t.rows \in Seq(Entry) /\ t.secondary = Secondaries(t.cols, t.rows, P) /\ Apart(t.rows, P)
  BY DEF IsTable
<1>2. i \in P /\ t.rows[i].pk = pk
  BY AtFinds
<1>3. PICK rows : rows = RemoveAt(t.rows, i)
  OBVIOUS
<1>4. rows \in Seq(Entry)
  BY <1>1, <1>2, <1>3, RemoveAtFacts
<1>5. PICK f : Moves(f, rows, t.rows, i)
  BY <1>1, <1>2, <1>3, RemoveAtMoves
<1>6. Apart(rows, DOMAIN rows) /\ \A j \in DOMAIN rows : RowFits(t.cols, rows[j])
  BY SMTT(60), <1>1, <1>5 DEF Apart, IsTable, Moves
<1>7. PICK Q : Q = P \ {i}
  OBVIOUS
<1>8. PICK s : s = deindexRow(t.secondary, pk, t.rows[i].row)
  OBVIOUS
<1>9. s = Secondaries(t.cols, rows, DOMAIN rows)
  <2>1. deindexRow(t.secondary, t.rows[i].pk, t.rows[i].row) = Secondaries(t.cols, t.rows, Q)
    BY <1>1, <1>2, <1>7, DeindexRow
  <2>2. ASSUME NEW c PROVE Entries(rows, DOMAIN rows, c) = Entries(t.rows, Q, c)
    <3>1. \A j \in DOMAIN rows : f[j] \in Q /\ rows[j] = t.rows[f[j]]
      BY <1>5, <1>7 DEF Moves
    <3>2. \A k \in Q : \E j \in DOMAIN rows : k = f[j]
      BY <1>5, <1>7 DEF Moves
    <3> QED
      BY <3>1, <3>2, EntriesMove
  <2>3. Secondaries(t.cols, t.rows, Q) = Secondaries(t.cols, rows, DOMAIN rows)
    BY <2>2 DEF Secondaries
  <2> QED
    BY <1>2, <1>8, <2>1, <2>3
<1>10. PICK u : u = With(t, rows, s)
  OBVIOUS
<1>11. delete(t, pkValue) = [table |-> u, res |-> "ok"]
  BY <1>3, <1>8, <1>10 DEF delete, Gave, With
<1>12. IsTable(u) /\ u.cols = t.cols /\ u.rows = rows
  BY <1>4, <1>6, <1>9, <1>10, MakeTable
<1> QED
  BY <1>3, <1>11, <1>12

-----------------------------------------------------------------------------
(* Operations and batches of them.                                         *)

IsTables(tabs) == tabs = [n \in DOMAIN tabs |-> tabs[n]] /\ \A n \in DOMAIN tabs : IsTable(tabs[n])

\* The same tables, with other rows.
SameTables(tabs, u) == DOMAIN u = DOMAIN tabs /\ \A n \in DOMAIN tabs : u[n].cols = tabs[n].cols

\* What the operation alone makes of its table.
Outcome(t, op) ==
    CASE op.kind = "insert" -> insert(t, op.row)
      [] op.kind = "update" -> update(t, op.pk, op.patch)
      [] op.kind = "delete" -> delete(t, op.pk)

LEMMA OutcomeWorks ==
    ASSUME NEW t, IsTable(t), NEW op, IsOperation(op), NEW out, out = Outcome(t, op)
    PROVE  /\ IsTable(out.table) /\ out.table.cols = t.cols
           /\ out.res = "error" => out.table = t
<1>1. CASE op.kind = "insert"
  <2>1. op.row \in AllRows /\ out = insert(t, op.row)
    BY <1>1, RowIsRow DEF IsOperation, Outcome
  <2>2. PICK pk : pk = encodePk(Cell(op.row, PrimaryKey(t.cols)))
    OBVIOUS
  <2>3. \/ out = Threw(t)
        \/ out.res = "ok" /\ IsTable(out.table) /\ out.table.cols = t.cols
    BY ZenonT(60), <2>1, <2>2, InsertWorks
  <2> QED
    BY <2>3 DEF Threw
<1>2. CASE op.kind = "update"
  <2>1. op.patch \in AllRows /\ out = update(t, op.pk, op.patch)
    BY <1>2, RowIsRow DEF IsOperation, Outcome
  <2>2. PICK v, pk, i : v = op.pk /\ pk = encodePk(v) /\ i = At(t, pk)
    OBVIOUS
  <2>3. \/ out = Threw(t) \/ out = Gave(t, "null")
        \/ out.res = "ok" /\ IsTable(out.table) /\ out.table.cols = t.cols
    BY <2>1, <2>2, UpdateWorks
  <2> QED
    BY <2>3 DEF Threw, Gave
<1>3. CASE op.kind = "delete"
  <2>1. out = delete(t, op.pk)
    BY <1>3 DEF Outcome
  <2>2. PICK v, pk, i : v = op.pk /\ pk = encodePk(v) /\ i = At(t, pk)
    OBVIOUS
  <2>3. \/ out = Threw(t) \/ out = Gave(t, "false")
        \/ out.res = "ok" /\ IsTable(out.table) /\ out.table.cols = t.cols
    BY <2>1, <2>2, DeleteWorks
  <2> QED
    BY <2>3 DEF Threw, Gave
<1> QED
  BY <1>1, <1>2, <1>3 DEF IsOperation

LEMMA PerformWorks ==
    ASSUME NEW tabs, IsTables(tabs), NEW op, IsOperation(op), NEW out, out = Perform(tabs, op)
    PROVE  /\ IsTables(out.tables) /\ SameTables(tabs, out.tables)
           /\ out.res = "error" => out.tables = tabs
           /\ out.res # "error" => /\ op.table \in DOMAIN tabs
                                   /\ out.res = Outcome(tabs[op.table], op).res
                                   /\ out.tables[op.table] = Outcome(tabs[op.table], op).table
                                   /\ \A n \in DOMAIN tabs : n # op.table => out.tables[n] = tabs[n]
           /\ out = [tables |-> out.tables, res |-> out.res]
<1>1. CASE op.table \notin DOMAIN tabs
  <2>1. out = [tables |-> tabs, res |-> "error"]
    BY <1>1 DEF Perform
  <2> QED
    BY <2>1 DEF SameTables
<1>2. CASE op.table \in DOMAIN tabs
  <2>1. PICK n, t, o : n = op.table /\ t = tabs[n] /\ o = Outcome(t, op)
    OBVIOUS
  <2>2. out = [tables |-> [tabs EXCEPT ![n] = o.table], res |-> o.res]
    BY <1>2, <2>1 DEF Perform, Outcome
  <2>3. IsTable(t)
    BY <1>2, <2>1 DEF IsTables
  <2>4. IsTable(o.table) /\ o.table.cols = t.cols /\ (o.res = "error" => o.table = t)
    BY <2>1, <2>3, OutcomeWorks
  <2>5. PICK u : u = [tabs EXCEPT ![n] = o.table]
    OBVIOUS
  <2>6. /\ DOMAIN u = DOMAIN tabs /\ u[n] = o.table /\ u = [m \in DOMAIN tabs |-> u[m]]
        /\ \A m \in DOMAIN tabs : m # n => u[m] = tabs[m]
    BY <1>2, <2>1, <2>5 DEF IsTables
  <2>7. o.res = "error" => u = tabs
    BY <2>1, <2>4, <2>6 DEF IsTables
  <2>8. IsTables(u) /\ SameTables(tabs, u)
    BY <2>1, <2>4, <2>6 DEF IsTables, SameTables
  <2> QED
    BY <1>2, <2>1, <2>2, <2>5, <2>6, <2>7, <2>8
<1> QED
  BY <1>1, <1>2

IsBatch(batch) == Len(batch) \in Nat /\ \A i \in 1 .. Len(batch) : IsOperation(batch[i])

Start(tabs) == [tables |-> tabs, res |-> "ok"]

LEMMA DoneExists ==
    ASSUME NEW tabs, NEW batch, Len(batch) \in Nat
    PROVE  \E g : g = [n \in 0 .. Len(batch) |-> IF n = 0 THEN Start(tabs) ELSE Then(g[n - 1], batch[n])]
<1> DEFINE Runs(g, n) == g = [k \in 0 .. n |-> IF k = 0 THEN Start(tabs) ELSE Then(g[k - 1], batch[k])]
           S == {n \in Nat : \E g : Runs(g, n)}
<1>1. 0 \in S
  <2> DEFINE g == [k \in 0 .. 0 |-> Start(tabs)]
  <2>1. Runs(g, 0)
    OBVIOUS
  <2> QED
    BY <2>1
<1>2. ASSUME NEW n \in S PROVE n + 1 \in S
  <2>1. PICK g : Runs(g, n)
    BY <1>2
  <2> DEFINE h == [k \in 0 .. n + 1 |-> IF k = n + 1 THEN Then(g[n], batch[n + 1]) ELSE g[k]]
  <2>2. ASSUME NEW k \in 0 .. n + 1
        PROVE  h[k] = IF k = 0 THEN Start(tabs) ELSE Then(h[k - 1], batch[k])
    BY <2>1
  <2>3. h = [k \in 0 .. n + 1 |-> h[k]]
    OBVIOUS
  <2> HIDE DEF h
  <2> DEFINE body(k) == IF k = 0 THEN Start(tabs) ELSE Then(h[k - 1], batch[k])
  <2>4. \A k \in 0 .. n + 1 : h[k] = body(k)
    BY <2>2
  <2> HIDE DEF body
  <2>5. h = [k \in 0 .. n + 1 |-> body(k)]
    BY <2>3, <2>4
  <2>6. Runs(h, n + 1)
    BY <2>5 DEF body
  <2> HIDE DEF Runs
  <2> QED
    BY <2>6
<1>3. Len(batch) \in S
  BY <1>1, <1>2, InductionOnSets
<1> QED
  BY <1>3

LEMMA DoneEquation ==
    ASSUME NEW tabs, NEW batch, Len(batch) \in Nat
    PROVE  /\ Done(tabs, batch)[0] = Start(tabs)
           /\ \A k \in 1 .. Len(batch) : Done(tabs, batch)[k] = Then(Done(tabs, batch)[k - 1], batch[k])
<1> DEFINE done == Done(tabs, batch)
           body(g) == [k \in 0 .. Len(batch) |-> IF k = 0 THEN Start(tabs) ELSE Then(g[k - 1], batch[k])]
<1>0. done = body(done)
  <2>1. \E g : g = body(g)
    BY DoneExists
  <2>2. done = CHOOSE g : g = body(g)
    BY DEF Done, Start
  <2> HIDE DEF done, body
  <2> QED
    BY <2>1, <2>2
<1>1. done = [k \in 0 .. Len(batch) |-> IF k = 0 THEN Start(tabs) ELSE Then(done[k - 1], batch[k])]
  BY <1>0
<1> HIDE DEF done
<1>2. done[0] = Start(tabs)
  BY <1>1
<1>3. ASSUME NEW k \in 1 .. Len(batch) PROVE done[k] = Then(done[k - 1], batch[k])
  BY <1>1
<1> QED
  BY <1>2, <1>3 DEF done

LEMMA ThenWorks ==
    ASSUME NEW a, IsTables(a.tables), NEW op, IsOperation(op), NEW b, b = Then(a, op),
           NEW out, out = Perform(a.tables, op)
    PROVE  /\ a.res = "error" => b = a
           /\ a.res # "error" => /\ b.tables = out.tables
                                 /\ b.res \in {"ok", "error"}
                                 /\ b.res = "error" <=> out.res = "error"
<1> SUFFICES ASSUME a.res # "error"
             PROVE  b.tables = out.tables /\ b.res \in {"ok", "error"} /\ (b.res = "error" <=> out.res = "error")
  BY DEF Then
<1>1. out = [tables |-> out.tables, res |-> out.res]
  BY PerformWorks
<1>2. PICK r : r = IF out.res = "error" THEN "error" ELSE "ok"
  OBVIOUS
<1>3. b = [out EXCEPT !.res = r]
  BY <1>2 DEF Then
<1>4. b = [tables |-> out.tables, res |-> r]
  BY <1>1, <1>3
<1> QED
  BY <1>2, <1>4

\* Whatever a batch does, tables stay tables.
LEMMA DoneWorks ==
    ASSUME NEW tabs, IsTables(tabs), NEW batch, IsBatch(batch)
    PROVE  \A k \in 0 .. Len(batch) :
              /\ IsTables(Done(tabs, batch)[k].tables) /\ SameTables(tabs, Done(tabs, batch)[k].tables)
              /\ Done(tabs, batch)[k].res \in {"ok", "error"}
<1> DEFINE done == Done(tabs, batch)
           Good(k) == IsTables(done[k].tables) /\ SameTables(tabs, done[k].tables) /\ done[k].res \in {"ok", "error"}
           S == {k \in Nat : k <= Len(batch) => Good(k)}
<1>0. Len(batch) \in Nat
  BY DEF IsBatch
<1>1. 0 \in S
  <2>1. done[0] = Start(tabs)
    BY <1>0, DoneEquation
  <2>2. Good(0)
    BY <2>1 DEF Start, SameTables
  <2> QED
    BY <2>2
<1>2. ASSUME NEW k \in S PROVE k + 1 \in S
  <2> SUFFICES ASSUME k + 1 <= Len(batch) PROVE Good(k + 1)
    OBVIOUS
  <2>1. Good(k) /\ k + 1 \in 1 .. Len(batch) /\ (k + 1) - 1 = k
    BY <1>0, <1>2
  <2>2. PICK a, b, op : a = done[k] /\ b = done[k + 1] /\ op = batch[k + 1]
    OBVIOUS
  <2>3. b = Then(a, op) /\ IsOperation(op) /\ IsTables(a.tables) /\ SameTables(tabs, a.tables)
    <3>1. done[k + 1] = Then(done[(k + 1) - 1], batch[k + 1])
      BY <1>0, <2>1, DoneEquation
    <3> QED
      BY <2>1, <2>2, <3>1 DEF IsBatch
  <2>4. PICK out : out = Perform(a.tables, op)
    OBVIOUS
  <2>5. IsTables(out.tables) /\ SameTables(a.tables, out.tables)
    BY <2>3, <2>4, PerformWorks
  <2>6. /\ a.res = "error" => b = a
        /\ a.res # "error" => b.tables = out.tables /\ b.res \in {"ok", "error"}
    BY <2>3, <2>4, ThenWorks
  <2>7. SameTables(tabs, out.tables)
    BY <2>3, <2>5 DEF SameTables
  <2> QED
    BY <2>1, <2>2, <2>5, <2>6, <2>7
<1> HIDE DEF S
<1>3. \A k \in Nat : k \in S
  <2>1. S \subseteq Nat
    BY DEF S
  <2> QED
    BY <1>1, <1>2, <2>1, InductionOnSets
<1> QED
  BY <1>0, <1>3 DEF S

LEMMA RunWorks ==
    ASSUME NEW tabs, IsTables(tabs), NEW batch, IsBatch(batch), NEW out, out = Run(tabs, batch)
    PROVE  IsTables(out.tables) /\ SameTables(tabs, out.tables) /\ out.res \in {"ok", "error"}
<1>1. Len(batch) \in 0 .. Len(batch)
  BY DEF IsBatch
<1> QED
  BY <1>1, DoneWorks DEF Run

-----------------------------------------------------------------------------
(* The catalog and its file.                                               *)

IsCatalog(d) ==
    /\ d.order \in Seq(Names) /\ Range(d.order) = DOMAIN d.tables /\ IsInjective(d.order)
    /\ IsTables(d.tables)

Bounded(tabs, max) == \A n \in DOMAIN tabs : Len(tabs[n].rows) <= max

LEMMA CreateWorks ==
    ASSUME NEW d, IsCatalog(d), NEW name \in Names, NEW cols \in Seq(ColumnDefs),
           NEW e, e = createTable(d, name, cols)
    PROVE  /\ IsCatalog(e) /\ \A max \in Nat : Bounded(d.tables, max) => Bounded(e.tables, max)
           /\ name \notin DOMAIN d.tables /\ ValidSchema(cols) =>
                /\ e.order = Append(d.order, name)
                /\ DOMAIN e.tables = DOMAIN d.tables \cup {name}
                /\ e.tables[name].cols = cols
                /\ \A n \in DOMAIN d.tables : e.tables[n] = d.tables[n]
<1> SUFFICES ASSUME name \notin DOMAIN d.tables, ValidSchema(cols)
             PROVE  /\ IsCatalog(e) /\ \A max \in Nat : Bounded(d.tables, max) => Bounded(e.tables, max)
                    /\ e.order = Append(d.order, name)
                    /\ DOMAIN e.tables = DOMAIN d.tables \cup {name}
                    /\ e.tables[name].cols = cols
                    /\ \A n \in DOMAIN d.tables : e.tables[n] = d.tables[n]
  BY DEF createTable
<1>1. e.order = Append(d.order, name) /\ e.tables = Put(d.tables, name, NewTable(cols))
  BY DEF createTable
<1>2. /\ DOMAIN e.tables = DOMAIN d.tables \cup {name} /\ e.tables = [n \in DOMAIN e.tables |-> e.tables[n]]
      /\ e.tables[name] = NewTable(cols) /\ \A n \in DOMAIN d.tables : e.tables[n] = d.tables[n]
  BY <1>1 DEF Put
<1>3. IsTable(NewTable(cols)) /\ NewTable(cols).cols = cols /\ Len(NewTable(cols).rows) = 0
  BY NewTableWorks
<1>4. IsTables(e.tables) /\ \A max \in Nat : Bounded(d.tables, max) => Bounded(e.tables, max)
  BY <1>2, <1>3 DEF IsTables, Bounded, IsCatalog
<1>5. e.order \in Seq(Names) /\ Range(e.order) = DOMAIN e.tables /\ IsInjective(e.order)
  <2>1. PICK o, p : o = d.order /\ p = e.order
    OBVIOUS
  <2>2. o \in Seq(Names) /\ p = Append(o, name) /\ Range(o) = DOMAIN d.tables /\ IsInjective(o)
    BY <1>1, <2>1 DEF IsCatalog
  <2>3. /\ p \in Seq(Names) /\ Len(o) \in Nat /\ DOMAIN o = 1 .. Len(o) /\ DOMAIN p = 1 .. Len(o) + 1
        /\ p[Len(o) + 1] = name /\ \A i \in 1 .. Len(o) : p[i] = o[i]
    BY <2>2
  <2>4. Range(p) = Range(o) \cup {name}
    BY <2>3 DEF Range
  <2>5. \A i \in 1 .. Len(o) : p[i] # name
    BY <2>2, <2>3 DEF Range
  <2>6. IsInjective(p)
    BY <2>2, <2>3, <2>5 DEF IsInjective
  <2> QED
    BY <1>2, <2>1, <2>2, <2>3, <2>4, <2>6
<1> QED
  BY <1>1, <1>2, <1>3, <1>4, <1>5 DEF IsCatalog

\* Definitions a catalog can have, and what the file says of them.
Described == [name : Names, cols : Seq(ColumnDefs)]

GoodDefs(defs) ==
    /\ defs \in Seq(Described)
    /\ \A i \in DOMAIN defs : ValidSchema(defs[i].cols)
    /\ \A i, j \in DOMAIN defs : defs[i].name = defs[j].name => i = j

StoredColumns(cols) == [j \in DOMAIN cols |-> StoredColumn(cols[j])]
Stored(defs) == [i \in DOMAIN defs |-> [name |-> defs[i].name, columns |-> StoredColumns(defs[i].cols)]]

\* No flag of a column is lost on the way to the file and back.
LEMMA ColumnsComeBack ==
    ASSUME NEW cols \in Seq(ColumnDefs)
    PROVE  LoadedColumns(StoredColumns(cols)) = cols
<1>1. ASSUME NEW c \in ColumnDefs PROVE LoadedColumn(StoredColumn(c)) = c
  <2>1. PICK s, f : s = StoredColumn(c) /\ f = StoredFlags(c)
    OBVIOUS
  <2>2. s.name = c.name /\ s.type = c.type /\ s.flags = f
    BY <2>1 DEF StoredColumn
  <2>3. /\ "nullable" \in f <=> c.nullable
        /\ "primaryKey" \in f <=> c.primaryKey
        /\ "unique" \in f <=> c.unique
    BY <2>1 DEF StoredFlags
  <2>4. c.nullable \in BOOLEAN /\ c.primaryKey \in BOOLEAN /\ c.unique \in BOOLEAN
    BY DEF ColumnDefs
  <2>5. ("nullable" \in f) = c.nullable /\ ("primaryKey" \in f) = c.primaryKey /\ ("unique" \in f) = c.unique
    BY <2>3, <2>4
  <2>6. LoadedColumn(s) = [name |-> c.name, type |-> c.type, nullable |-> c.nullable,
                           primaryKey |-> c.primaryKey, unique |-> c.unique]
    BY <2>2, <2>5, Zenon DEF LoadedColumn
  <2>7. c = [name |-> c.name, type |-> c.type, nullable |-> c.nullable,
             primaryKey |-> c.primaryKey, unique |-> c.unique]
    BY DEF ColumnDefs
  <2> QED
    BY <2>1, <2>6, <2>7
<1>2. cols = [j \in DOMAIN cols |-> cols[j]] /\ \A j \in DOMAIN cols : cols[j] \in ColumnDefs
  OBVIOUS
<1>3. LoadedColumns(StoredColumns(cols)) = [j \in DOMAIN cols |-> LoadedColumn(StoredColumn(cols[j]))]
  BY DEF LoadedColumns, StoredColumns
<1> QED
  BY <1>1, <1>2, <1>3

\* The tables of a stored catalog are created along g.
BootsAlong(g, d, defs) ==
    g = [n \in 0 .. Len(defs) |->
           IF n = 0 THEN d ELSE createTable(g[n - 1], defs[n].name, LoadedColumns(defs[n].columns))]

LEMMA BootedExists ==
    ASSUME NEW d, NEW defs, Len(defs) \in Nat
    PROVE  \E g : BootsAlong(g, d, defs)
<1> DEFINE step(e, n) == createTable(e, defs[n].name, LoadedColumns(defs[n].columns))
           Boots(g, n) == g = [k \in 0 .. n |-> IF k = 0 THEN d ELSE step(g[k - 1], k)]
           S == {n \in Nat : \E g : Boots(g, n)}
<1>0. S = {n \in Nat : \E g : g = [k \in 0 .. n |-> IF k = 0 THEN d ELSE step(g[k - 1], k)]}
  OBVIOUS
<1> HIDE DEF step
<1>1. 0 \in S
  <2> DEFINE g == [k \in 0 .. 0 |-> d]
  <2>1. Boots(g, 0)
    OBVIOUS
  <2> QED
    BY <2>1
<1>2. ASSUME NEW n \in S PROVE n + 1 \in S
  <2>1. PICK g : Boots(g, n)
    BY <1>2
  <2> DEFINE h == [k \in 0 .. n + 1 |-> IF k = n + 1 THEN step(g[n], n + 1) ELSE g[k]]
  <2>2. ASSUME NEW k \in 0 .. n + 1
        PROVE  h[k] = IF k = 0 THEN d ELSE step(h[k - 1], k)
    BY <2>1
  <2>3. h = [k \in 0 .. n + 1 |-> h[k]]
    OBVIOUS
  <2> HIDE DEF h
  <2> DEFINE body(k) == IF k = 0 THEN d ELSE step(h[k - 1], k)
  <2>4. \A k \in 0 .. n + 1 : h[k] = body(k)
    BY <2>2
  <2> HIDE DEF body
  <2>5. h = [k \in 0 .. n + 1 |-> body(k)]
    BY <2>3, <2>4
  <2>6. Boots(h, n + 1)
    BY <2>5 DEF body
  <2> HIDE DEF Boots
  <2> QED
    BY <2>6
<1>3. Len(defs) \in S
  BY <1>1, <1>2, InductionOnSets
<1>4. PICK g : g = [k \in 0 .. Len(defs) |-> IF k = 0 THEN d ELSE step(g[k - 1], k)]
  BY <1>3
<1> QED
  BY <1>4 DEF step, BootsAlong

LEMMA BootedEquation ==
    ASSUME NEW d, NEW defs, Len(defs) \in Nat
    PROVE  /\ Booted(d, defs)[0] = d
           /\ \A k \in 1 .. Len(defs) :
                 Booted(d, defs)[k] =
                   createTable(Booted(d, defs)[k - 1], defs[k].name, LoadedColumns(defs[k].columns))
<1> DEFINE booted == Booted(d, defs)
           body(g) == [n \in 0 .. Len(defs) |->
                         IF n = 0 THEN d ELSE createTable(g[n - 1], defs[n].name, LoadedColumns(defs[n].columns))]
<1>0. booted = body(booted)
  <2>0. PICK boots : BootsAlong(boots, d, defs)
    BY BootedExists
  <2>1. boots = body(boots)
    BY <2>0 DEF BootsAlong
  <2>2. booted = CHOOSE g : g = body(g)
    BY DEF Booted
  <2> HIDE DEF booted, body
  <2> QED
    BY <2>1, <2>2
<1>1. booted = [k \in 0 .. Len(defs) |->
                   IF k = 0 THEN d ELSE createTable(booted[k - 1], defs[k].name, LoadedColumns(defs[k].columns))]
  BY <1>0
<1> HIDE DEF booted
<1>2. booted[0] = d
  BY <1>1
<1>3. ASSUME NEW k \in 1 .. Len(defs)
      PROVE  booted[k] = createTable(booted[k - 1], defs[k].name, LoadedColumns(defs[k].columns))
  BY <1>1
<1> QED
  BY <1>2, <1>3 DEF booted

\* One definition of a stored catalog.
LEMMA BootStep ==
    ASSUME NEW d, NEW defs, GoodDefs(defs), NEW k \in Nat, k + 1 \in DOMAIN defs,
           NEW w, w = Stored(defs)
    PROVE  /\ Len(w) = Len(defs) /\ Len(defs) \in Nat /\ DOMAIN defs = 1 .. Len(defs)
           /\ defs[k + 1].name \in Names /\ defs[k + 1].cols \in Seq(ColumnDefs) /\ ValidSchema(defs[k + 1].cols)
           /\ Booted(d, w)[k + 1] = createTable(Booted(d, w)[k], defs[k + 1].name, defs[k + 1].cols)
<1>1. defs \in Seq(Described) /\ Len(defs) \in Nat /\ DOMAIN defs = 1 .. Len(defs) /\ defs[k + 1] \in Described
  BY DEF GoodDefs
<1>2. Len(w) = Len(defs) /\ w[k + 1] = [name |-> defs[k + 1].name, columns |-> StoredColumns(defs[k + 1].cols)]
  BY <1>1 DEF Stored
<1>3. defs[k + 1].name \in Names /\ defs[k + 1].cols \in Seq(ColumnDefs) /\ ValidSchema(defs[k + 1].cols)
  BY <1>1 DEF GoodDefs, Described
<1>4. LoadedColumns(w[k + 1].columns) = defs[k + 1].cols
  BY <1>2, <1>3, ColumnsComeBack
<1>5. k + 1 \in 1 .. Len(w) /\ (k + 1) - 1 = k
  BY <1>1, <1>2
<1>6. Booted(d, w)[k + 1] = createTable(Booted(d, w)[(k + 1) - 1], w[k + 1].name, LoadedColumns(w[k + 1].columns))
  BY <1>1, <1>2, <1>5, BootedEquation
<1> QED
  BY <1>1, <1>2, <1>3, <1>4, <1>5, <1>6

LEMMA BootWorks ==
    ASSUME NEW d, IsCatalog(d), NEW max \in Nat, Bounded(d.tables, max), NEW defs, GoodDefs(defs),
           NEW w, w = Stored(defs)
    PROVE  IsCatalog(Booted(d, w)[Len(w)]) /\ Bounded(Booted(d, w)[Len(w)].tables, max)
<1> DEFINE b == Booted(d, w)
           Good(k) == IsCatalog(b[k]) /\ Bounded(b[k].tables, max)
           S == {k \in Nat : k <= Len(defs) => Good(k)}
<1>0. Len(w) = Len(defs) /\ Len(defs) \in Nat /\ DOMAIN defs = 1 .. Len(defs)
  BY DEF Stored, GoodDefs
<1>1. 0 \in S
  <2>1. b[0] = d
    BY <1>0, BootedEquation
  <2> QED
    BY <2>1
<1>2. ASSUME NEW k \in S PROVE k + 1 \in S
  <2> SUFFICES ASSUME k + 1 <= Len(defs) PROVE Good(k + 1)
    OBVIOUS
  <2>1. Good(k) /\ k \in Nat /\ k + 1 \in DOMAIN defs
    BY <1>0, <1>2
  <2>2. PICK a, e, name, cols : a = b[k] /\ e = b[k + 1] /\ name = defs[k + 1].name /\ cols = defs[k + 1].cols
    OBVIOUS
  <2>3. name \in Names /\ cols \in Seq(ColumnDefs) /\ e = createTable(a, name, cols)
    BY <2>1, <2>2, BootStep
  <2>4. IsCatalog(a) /\ Bounded(a.tables, max)
    BY <2>1, <2>2
  <2>5. IsCatalog(e) /\ Bounded(e.tables, max)
    BY <2>3, <2>4, CreateWorks
  <2> QED
    BY <2>2, <2>5
<1> HIDE DEF S
<1>3. \A k \in Nat : k \in S
  <2>1. S \subseteq Nat
    BY DEF S
  <2> QED
    BY <1>1, <1>2, <2>1, InductionOnSets
<1>4. Len(defs) \in S
  BY <1>0, <1>3
<1> QED
  BY <1>0, <1>4 DEF S

Empty == [order |-> <<>>, tables |-> <<>>]

LEMMA EmptyIsCatalog == IsCatalog(Empty) /\ \A max \in Nat : Bounded(Empty.tables, max)
<1>1. Empty.order = <<>> /\ Empty.tables = <<>> /\ DOMAIN <<>> = {}
  BY DEF Empty
<1>2. <<>> \in Seq(Names) /\ Range(<<>>) = {} /\ IsInjective(<<>>)
  BY <1>1 DEF Range, IsInjective
<1>3. <<>> = [n \in {} |-> <<>>[n]]
  OBVIOUS
<1> QED
  BY <1>1, <1>2, <1>3 DEF IsCatalog, IsTables, Bounded

\* A stored catalog boots into the database it was stored from, row data aside.
LEMMA BootRestores ==
    ASSUME NEW defs, GoodDefs(defs), NEW w, w = Stored(defs)
    PROVE  Definitions(Booted(Empty, w)[Len(w)]) = defs
<1> DEFINE b == Booted(Empty, w)
           Upto(k) == /\ IsCatalog(b[k]) /\ Len(b[k].order) = k
                      /\ \A i \in 1 .. k : b[k].order[i] = defs[i].name /\ b[k].tables[defs[i].name].cols = defs[i].cols
           S == {k \in Nat : k <= Len(defs) => Upto(k)}
<1>0. Len(w) = Len(defs) /\ Len(defs) \in Nat /\ DOMAIN defs = 1 .. Len(defs) /\ defs \in Seq(Described)
  BY DEF Stored, GoodDefs
<1>1. 0 \in S
  <2>1. b[0] = Empty
    BY <1>0, BootedEquation
  <2>2. Len(Empty.order) = 0
    BY SMTT(60) DEF Empty
  <2> QED
    BY <2>1, <2>2, EmptyIsCatalog
<1>2. ASSUME NEW k \in S PROVE k + 1 \in S
  <2> SUFFICES ASSUME k + 1 <= Len(defs) PROVE Upto(k + 1)
    OBVIOUS
  <2>1. Upto(k) /\ k \in Nat /\ k + 1 \in DOMAIN defs
    BY <1>0, <1>2
  <2>2. PICK a, e, name, cols : a = b[k] /\ e = b[k + 1] /\ name = defs[k + 1].name /\ cols = defs[k + 1].cols
    OBVIOUS
  <2>3. /\ name \in Names /\ cols \in Seq(ColumnDefs) /\ ValidSchema(cols)
        /\ e = createTable(a, name, cols)
    BY <2>1, <2>2, BootStep
  <2>4. /\ IsCatalog(a) /\ Len(a.order) = k
        /\ \A i \in 1 .. k : a.order[i] = defs[i].name /\ a.tables[defs[i].name].cols = defs[i].cols
    BY <2>1, <2>2
  <2>5. a.order \in Seq(Names) /\ DOMAIN a.order = 1 .. k /\ DOMAIN a.tables = {a.order[i] : i \in 1 .. k}
    <3>1. a.order \in Seq(Names) /\ DOMAIN a.tables = Range(a.order)
      BY <2>4 DEF IsCatalog
    <3>2. DOMAIN a.order = 1 .. k
      BY <2>4, <3>1
    <3> QED
      BY <3>1, <3>2 DEF Range
  <2>6. name \notin DOMAIN a.tables
    <3>1. \A i \in 1 .. k : defs[i].name # name
      BY <1>0, <2>1, <2>2 DEF GoodDefs
    <3>2. name \in DOMAIN a.tables => \E i \in 1 .. k : name = defs[i].name
      BY <2>4, <2>5
    <3> QED
      BY <3>1, <3>2
  <2>7. /\ IsCatalog(e) /\ e.order = Append(a.order, name) /\ e.tables[name].cols = cols
        /\ \A n \in DOMAIN a.tables : e.tables[n] = a.tables[n]
    BY <2>3, <2>4, <2>6, CreateWorks
  <2>8. Len(e.order) = k + 1 /\ e.order[k + 1] = name /\ \A i \in 1 .. k : e.order[i] = a.order[i]
    BY <2>1, <2>4, <2>5, <2>7
  <2>9. ASSUME NEW i \in 1 .. k + 1
         PROVE  e.order[i] = defs[i].name /\ e.tables[defs[i].name].cols = defs[i].cols
    <3>1. CASE i = k + 1
      BY <2>2, <2>7, <2>8, <3>1
    <3>2. CASE i # k + 1
      <4>1. i \in 1 .. k
        BY <2>1, <3>2
      <4>2. a.order[i] = defs[i].name /\ a.tables[defs[i].name].cols = defs[i].cols /\ a.order[i] \in DOMAIN a.tables
        BY <2>4, <2>5, <4>1
      <4> QED
        BY <2>7, <2>8, <4>1, <4>2
    <3> QED
      BY <3>1, <3>2
  <2> QED
    BY <2>2, <2>7, <2>8, <2>9
<1> HIDE DEF S
<1>3. \A k \in Nat : k \in S
  <2>1. S \subseteq Nat
    BY DEF S
  <2> QED
    BY <1>1, <1>2, <2>1, InductionOnSets
<1>4. Upto(Len(defs))
  BY <1>0, <1>3 DEF S
<1>5. PICK e : e = b[Len(w)]
  OBVIOUS
<1>6. /\ DOMAIN e.order = 1 .. Len(defs)
      /\ \A i \in 1 .. Len(defs) : e.order[i] = defs[i].name /\ e.tables[defs[i].name].cols = defs[i].cols
  BY <1>0, <1>4, <1>5 DEF IsCatalog
<1>7. Definitions(e) = [i \in 1 .. Len(defs) |-> [name |-> defs[i].name, cols |-> defs[i].cols]]
  BY <1>6 DEF Definitions
<1>8. defs = [i \in 1 .. Len(defs) |-> defs[i]]
  BY <1>0
<1>9. ASSUME NEW i \in 1 .. Len(defs) PROVE defs[i] = [name |-> defs[i].name, cols |-> defs[i].cols]
  <2>1. defs[i] \in Described
    BY <1>0
  <2> QED
    BY <2>1 DEF Described
<1>10. Definitions(e) = defs
  BY <1>7, <1>8, <1>9
<1> QED
  BY <1>5, <1>10

-----------------------------------------------------------------------------
(* Loops over an array, and the scan.                                      *)

\* g follows a loop with the steps F, and does so from base through values of E.
StepsIn(F, n, E) == F \in [1 .. n -> [E -> E]]
Follows(g, F, n) == \A k \in 1 .. n : g[k] = F[k][g[k - 1]]
Loop(g, F, n, E, base) == g \in [0 .. n -> E] /\ g[0] = base /\ Follows(g, F, n)

LEMMA LoopExists ==
    ASSUME NEW n \in Nat, NEW E, NEW base \in E, NEW F, StepsIn(F, n, E)
    PROVE  \E g : Loop(g, F, n, E, base)
<1> DEFINE Runs(g, m) == g \in [0 .. m -> E] /\ g[0] = base /\ \A k \in 1 .. m : g[k] = F[k][g[k - 1]]
           S == {m \in Nat : m <= n => \E g : Runs(g, m)}
<1>1. 0 \in S
  <2> DEFINE g == [k \in 0 .. 0 |-> base]
  <2>1. Runs(g, 0)
    OBVIOUS
  <2> QED
    BY <2>1
<1>2. ASSUME NEW m \in S PROVE m + 1 \in S
  <2>1. ASSUME m + 1 <= n PROVE \E h : Runs(h, m + 1)
    <3>1. PICK g : Runs(g, m)
      BY <1>2, <2>1
    <3>2. m \in Nat /\ g[m] \in E /\ m + 1 \in 1 .. n
      BY <2>1, <3>1
    <3>3. PICK e : e = F[m + 1][g[m]]
      OBVIOUS
    <3>4. e \in E
      BY <3>2, <3>3 DEF StepsIn
    <3> DEFINE h == [k \in 0 .. m + 1 |-> IF k = m + 1 THEN e ELSE g[k]]
    <3>5. h \in [0 .. m + 1 -> E] /\ h[0] = base /\ h[m + 1] = e /\ \A k \in 0 .. m : h[k] = g[k]
      BY <3>1, <3>2, <3>4
    <3> HIDE DEF h
    <3>6. ASSUME NEW k \in 1 .. m + 1 PROVE h[k] = F[k][h[k - 1]]
      <4>1. CASE k = m + 1
        BY <3>2, <3>3, <3>5, <4>1
      <4>2. CASE k # m + 1
        <5>1. k \in 1 .. m /\ k - 1 \in 0 .. m /\ k \in 0 .. m
          BY <3>2, <4>2
        <5> QED
          BY <3>1, <3>5, <5>1
      <4> QED
        BY <4>1, <4>2
    <3> QED
      BY <3>5, <3>6
  <2>2. m + 1 \in Nat
    OBVIOUS
  <2> HIDE DEF Runs
  <2> QED
    BY <2>1, <2>2
<1> HIDE DEF S
<1>3. n \in S
  <2>1. S \subseteq Nat
    BY DEF S
  <2> QED
    BY <1>1, <1>2, <2>1, InductionOnSets
<1>4. PICK g : Runs(g, n)
  BY <1>3 DEF S
<1>5. Loop(g, F, n, E, base)
  BY <1>4 DEF Loop, Follows
<1> QED
  BY <1>5

\* The values of such a loop are determined.
LEMMA LoopUnique ==
    ASSUME NEW n \in Nat, NEW F, NEW g, NEW h, g[0] = h[0], Follows(g, F, n), Follows(h, F, n)
    PROVE  g[n] = h[n]
<1> DEFINE S == {m \in Nat : m <= n => g[m] = h[m]}
<1>1. 0 \in S
  OBVIOUS
<1>2. ASSUME NEW m \in S PROVE m + 1 \in S
  <2> SUFFICES ASSUME m + 1 <= n PROVE g[m + 1] = h[m + 1]
    OBVIOUS
  <2>1. g[m] = h[m] /\ m + 1 \in 1 .. n /\ (m + 1) - 1 = m
    BY <1>2
  <2>2. g[m + 1] = F[m + 1][g[(m + 1) - 1]] /\ h[m + 1] = F[m + 1][h[(m + 1) - 1]]
    BY <2>1 DEF Follows
  <2> QED
    BY <2>1, <2>2
<1> HIDE DEF S
<1>3. n \in S
  <2>1. S \subseteq Nat
    BY DEF S
  <2> QED
    BY <1>1, <1>2, <2>1, InductionOnSets
<1> QED
  BY <1>3 DEF S

\* Positions, as such a loop.
Finds(S, n) == [k \in 1 .. n |-> [e \in Seq(Nat) |-> IF k \in S THEN Append(e, k) ELSE e]]
Found(g, S, n) == g[0] = <<>> /\ \A k \in 1 .. n : g[k] = IF k \in S THEN Append(g[k - 1], k) ELSE g[k - 1]

\* Whatever satisfies the equations of the loop is the loop.
LEMMA FindsLoops ==
    ASSUME NEW S, NEW n \in Nat, NEW g, Found(g, S, n)
    PROVE  Follows(g, Finds(S, n), n) /\ \A k \in 0 .. n : g[k] \in Seq(Nat)
<1> DEFINE T == {m \in Nat : m <= n => g[m] \in Seq(Nat)}
<1>1. 0 \in T
  <2>1. g[0] = <<>> /\ <<>> \in Seq(Nat)
    BY DEF Found
  <2> QED
    BY <2>1
<1>2. ASSUME NEW m \in T PROVE m + 1 \in T
  <2> SUFFICES ASSUME m + 1 <= n PROVE g[m + 1] \in Seq(Nat)
    OBVIOUS
  <2>1. g[m] \in Seq(Nat) /\ m + 1 \in 1 .. n /\ (m + 1) - 1 = m
    BY <1>2
  <2>2. g[m + 1] = IF m + 1 \in S THEN Append(g[(m + 1) - 1], m + 1) ELSE g[(m + 1) - 1]
    BY <2>1 DEF Found
  <2>3. Append(g[m], m + 1) \in Seq(Nat)
    BY <2>1
  <2> QED
    BY <2>1, <2>2, <2>3
<1> HIDE DEF T
<1>3. \A m \in Nat : m \in T
  <2>1. T \subseteq Nat
    BY DEF T
  <2> QED
    BY <1>1, <1>2, <2>1, InductionOnSets
<1>4. \A k \in 0 .. n : g[k] \in Seq(Nat)
  BY <1>3 DEF T
<1>5. ASSUME NEW k \in 1 .. n PROVE g[k] = Finds(S, n)[k][g[k - 1]]
  <2>1. g[k - 1] \in Seq(Nat)
    BY <1>4
  <2>2. g[k] = IF k \in S THEN Append(g[k - 1], k) ELSE g[k - 1]
    BY DEF Found
  <2> QED
    BY <2>1, <2>2 DEF Finds
<1> QED
  BY <1>4, <1>5 DEF Follows

LEMMA PositionsLoop ==
    ASSUME NEW S, NEW n \in Nat
    PROVE  \E g : Found(g, S, n) /\ g[n] = Positions(S, n)
<1> DEFINE F == Finds(S, n)
           E == Seq(Nat)
           body(g) == [k \in 0 .. n |->
                         IF k = 0 THEN <<>> ELSE IF k \in S THEN Append(g[k - 1], k) ELSE g[k - 1]]
           found == CHOOSE g : g = body(g)
<1>1. StepsIn(F, n, E) /\ <<>> \in E
  <2>1. \A e \in Seq(Nat), k \in 1 .. n : Append(e, k) \in Seq(Nat)
    OBVIOUS
  <2> QED
    BY <2>1 DEF Finds, StepsIn
<1>2. PICK g : Loop(g, F, n, E, <<>>)
  <2> HIDE DEF F, E
  <2> QED
    BY <1>1, LoopExists, Zenon
<1>3. g = [k \in 0 .. n |-> g[k]] /\ g[0] = <<>>
  BY <1>2 DEF Loop
<1>4. ASSUME NEW k \in 1 .. n PROVE g[k] = IF k \in S THEN Append(g[k - 1], k) ELSE g[k - 1]
  <2>1. g[k - 1] \in Seq(Nat) /\ g[k] = F[k][g[k - 1]]
    BY <1>2 DEF Loop, Follows
  <2> QED
    BY <2>1 DEF Finds
<1>5. g = body(g)
  <2> DEFINE value(k) == IF k = 0 THEN <<>> ELSE IF k \in S THEN Append(g[k - 1], k) ELSE g[k - 1]
  <2>1. ASSUME NEW k \in 0 .. n PROVE g[k] = value(k)
    <3>1. CASE k = 0
      BY <1>3, <3>1
    <3>2. CASE k # 0
      BY <1>4, <3>2
    <3> QED
      BY <3>1, <3>2
  <2> HIDE DEF value
  <2>2. g = [k \in 0 .. n |-> value(k)]
    BY <1>3, <2>1, Zenon
  <2> QED
    BY <2>2 DEF value
<1>6. found = body(found)
  <2> HIDE DEF body
  <2> QED
    BY <1>5
<1>7. Positions(S, n) = found[n]
  BY DEF Positions
<1> HIDE DEF found
<1>8. Found(found, S, n)
  <2>1. found = [k \in 0 .. n |->
                   IF k = 0 THEN <<>> ELSE IF k \in S THEN Append(found[k - 1], k) ELSE found[k - 1]]
    BY <1>6
  <2> DEFINE value(k) == IF k \in S THEN Append(found[k - 1], k) ELSE found[k - 1]
  <2>2. found = [k \in 0 .. n |-> IF k = 0 THEN <<>> ELSE value(k)]
    BY <2>1
  <2> HIDE DEF value
  <2>3. found[0] = <<>> /\ \A k \in 1 .. n : found[k] = value(k)
    BY <2>2
  <2> QED
    BY <2>3 DEF Found, value
<1> QED
  BY <1>7, <1>8

LEMMA PositionsStep ==
    ASSUME NEW S
    PROVE  /\ Positions(S, 0) = <<>>
           /\ \A n \in Nat : Positions(S, n + 1) = IF n + 1 \in S THEN Append(Positions(S, n), n + 1) ELSE Positions(S, n)
<1>1. Positions(S, 0) = <<>>
  <2>1. 0 \in Nat
    OBVIOUS
  <2>2. PICK g : Found(g, S, 0) /\ g[0] = Positions(S, 0)
    BY <2>1, PositionsLoop
  <2> QED
    BY <2>2 DEF Found
<1>2. ASSUME NEW n \in Nat
      PROVE  Positions(S, n + 1) = IF n + 1 \in S THEN Append(Positions(S, n), n + 1) ELSE Positions(S, n)
  <2>1. PICK g : Found(g, S, n + 1) /\ g[n + 1] = Positions(S, n + 1)
    <3>1. n + 1 \in Nat
      OBVIOUS
    <3> QED
      BY <3>1, PositionsLoop
  <2>2. PICK h : Found(h, S, n) /\ h[n] = Positions(S, n)
    BY PositionsLoop
  <2>3. Found(g, S, n)
    BY <2>1 DEF Found
  <2>4. g[n] = h[n]
    <3>1. Follows(g, Finds(S, n), n) /\ Follows(h, Finds(S, n), n)
      BY <2>2, <2>3, FindsLoops
    <3>2. g[0] = h[0]
      BY <2>1, <2>2 DEF Found
    <3> QED
      BY <3>1, <3>2, LoopUnique, Zenon
  <2>5. n + 1 \in 1 .. n + 1 /\ (n + 1) - 1 = n
    OBVIOUS
  <2>6. g[n + 1] = IF n + 1 \in S THEN Append(g[(n + 1) - 1], n + 1) ELSE g[(n + 1) - 1]
    BY <2>1, <2>5 DEF Found
  <2> QED
    BY <2>1, <2>2, <2>4, <2>5, <2>6
<1> QED
  BY <1>1, <1>2

\* at lists the members of S up to n, each once and in order.
Lists(at, S, n) ==
    /\ at \in Seq(Nat) /\ Len(at) <= n /\ (Len(at) = n => 1 .. n \subseteq S)
    /\ \A i \in 1 .. Len(at) : at[i] \in 1 .. n /\ at[i] \in S
    /\ \A k \in 1 .. n : k \in S => \E i \in 1 .. Len(at) : at[i] = k
    /\ \A i, j \in 1 .. Len(at) : i < j => at[i] < at[j]
    /\ 1 .. n \subseteq S => Len(at) = n /\ \A i \in 1 .. n : at[i] = i

LEMMA PositionsList ==
    ASSUME NEW S, NEW n \in Nat
    PROVE  Lists(Positions(S, n), S, n)
<1> DEFINE T == {m \in Nat : Lists(Positions(S, m), S, m)}
<1>1. 0 \in T
  <2>1. Positions(S, 0) = <<>> /\ <<>> \in Seq(Nat) /\ Len(<<>>) = 0 /\ 1 .. 0 = {}
    BY PositionsStep
  <2>2. Lists(<<>>, S, 0)
    BY <2>1 DEF Lists
  <2> QED
    BY <2>1, <2>2
<1>2. ASSUME NEW m \in T PROVE m + 1 \in T
  <2>1. PICK a, b : a = Positions(S, m) /\ b = Positions(S, m + 1)
    OBVIOUS
  <2>2. m \in Nat /\ Lists(a, S, m) /\ b = IF m + 1 \in S THEN Append(a, m + 1) ELSE a
    BY <1>2, <2>1, PositionsStep
  <2>3. a \in Seq(Nat) /\ Len(a) \in Nat /\ 1 .. m + 1 = (1 .. m) \cup {m + 1}
    BY <2>2 DEF Lists
  <2>4. CASE m + 1 \in S
    <3>1. /\ b \in Seq(Nat) /\ Len(b) = Len(a) + 1 /\ b[Len(a) + 1] = m + 1
          /\ \A i \in 1 .. Len(a) : b[i] = a[i]
      BY <2>2, <2>3, <2>4
    <3>2. Len(b) <= m + 1 /\ (Len(b) = m + 1 => 1 .. m + 1 \subseteq S)
      BY <2>2, <2>3, <2>4, <3>1 DEF Lists
    <3>3. \A i \in 1 .. Len(b) : b[i] \in 1 .. m + 1 /\ b[i] \in S
      BY <2>2, <2>3, <2>4, <3>1 DEF Lists
    <3>4. ASSUME NEW k \in 1 .. m + 1, k \in S PROVE \E i \in 1 .. Len(b) : b[i] = k
      <4>1. CASE k = m + 1
        BY <2>3, <3>1, <4>1
      <4>2. CASE k # m + 1
        <5>1. PICK i \in 1 .. Len(a) : a[i] = k
          BY <2>2, <3>4, <4>2 DEF Lists
        <5> QED
          BY <2>3, <3>1, <5>1
      <4> QED
        BY <4>1, <4>2
    <3>5. \A i, j \in 1 .. Len(b) : i < j => b[i] < b[j]
      <4> SUFFICES ASSUME NEW i \in 1 .. Len(b), NEW j \in 1 .. Len(b), i < j PROVE b[i] < b[j]
        OBVIOUS
      <4>1. i \in 1 .. Len(a) /\ a[i] \in 1 .. m
        BY <2>2, <2>3, <3>1 DEF Lists
      <4>2. CASE j = Len(a) + 1
        BY <2>2, <3>1, <4>1, <4>2
      <4>3. CASE j # Len(a) + 1
        <5>1. j \in 1 .. Len(a)
          <6>1. Len(b) = Len(a) + 1 /\ Len(a) \in Nat
            BY <2>3, <3>1
          <6> QED
            BY <4>3, <6>1
        <5>2. a[i] < a[j]
          BY <2>2, <4>1, <5>1 DEF Lists
        <5> QED
          BY <3>1, <4>1, <5>1, <5>2
      <4> QED
        BY <4>2, <4>3
    <3>6. ASSUME 1 .. m + 1 \subseteq S PROVE Len(b) = m + 1 /\ \A i \in 1 .. m + 1 : b[i] = i
      <4>1. Len(a) = m /\ \A i \in 1 .. m : a[i] = i
        BY <2>2, <2>3, <3>6 DEF Lists
      <4> QED
        BY <2>3, <3>1, <4>1
    <3>7. m + 1 \in Nat /\ Len(b) \in Nat
      BY <2>2, <2>3, <3>1
    <3>8. Lists(b, S, m + 1)
      BY <3>1, <3>2, <3>3, <3>4, <3>5, <3>6, <3>7 DEF Lists
    <3> QED
      BY <2>1, <3>7, <3>8
  <2>5. CASE m + 1 \notin S
    <3>1. b = a
      BY <2>2, <2>5
    <3>2. Lists(a, S, m + 1)
      BY <2>2, <2>3, <2>5 DEF Lists
    <3> QED
      BY <2>1, <2>2, <3>1, <3>2
  <2> QED
    BY <2>4, <2>5
<1>3. n \in T
  BY <1>1, <1>2, InductionOnSets
<1> QED
  BY <1>3

LEMMA PickedWorks ==
    ASSUME NEW A, NEW s \in Seq(A), NEW S, NEW at, at = Positions(S, Len(s)), NEW p, p = Picked(s, S)
    PROVE  /\ p \in Seq(A) /\ Len(p) = Len(at) /\ DOMAIN p = 1 .. Len(at) /\ Lists(at, S, Len(s))
           /\ \A i \in 1 .. Len(at) : at[i] \in DOMAIN s /\ p[i] = s[at[i]]
           /\ Range(p) = {s[i] : i \in {j \in DOMAIN s : j \in S}}
           /\ DOMAIN s \subseteq S => p = s
<1>1. Len(s) \in Nat /\ DOMAIN s = 1 .. Len(s) /\ s = [i \in 1 .. Len(s) |-> s[i]]
  OBVIOUS
<1>2. Lists(at, S, Len(s))
  BY <1>1, PositionsList
<1>3. at \in Seq(Nat) /\ Len(at) \in Nat /\ DOMAIN at = 1 .. Len(at)
  BY <1>2 DEF Lists
<1>4. p = [i \in 1 .. Len(at) |-> s[at[i]]]
  BY <1>3 DEF Picked
<1>5. \A i \in 1 .. Len(at) : at[i] \in DOMAIN s /\ at[i] \in S
  BY <1>1, <1>2 DEF Lists
<1>6. p \in Seq(A) /\ Len(p) = Len(at) /\ DOMAIN p = 1 .. Len(at)
  BY <1>1, <1>3, <1>4, <1>5
<1>7. Range(p) = {s[i] : i \in {j \in DOMAIN s : j \in S}}
  <2>1. Range(p) = {s[at[i]] : i \in 1 .. Len(at)}
    BY <1>4 DEF Range
  <2>2. \A k \in DOMAIN s : k \in S => \E i \in 1 .. Len(at) : at[i] = k
    BY <1>1, <1>2 DEF Lists
  <2> QED
    BY <1>5, <2>1, <2>2
<1>8. ASSUME DOMAIN s \subseteq S PROVE p = s
  <2>1. Len(at) = Len(s) /\ \A i \in 1 .. Len(s) : at[i] = i
    BY <1>1, <1>2, <1>8 DEF Lists
  <2> QED
    BY <1>1, <1>4, <2>1
<1> QED
  BY <1>2, <1>4, <1>5, <1>6, <1>7, <1>8

\* The scan answers the rows that match and no others.
MatchingRows(t, where, P) == {t.rows[i].row : i \in {j \in P : matchesWhere(t.rows[j].row, where)}}

\* The rows of a table, without their keys.
RowsOf(t) == [i \in DOMAIN t.rows |-> t.rows[i].row]

LEMMA RowsOfTable ==
    ASSUME NEW t, IsTable(t), NEW rows, rows = RowsOf(t)
    PROVE  /\ rows \in Seq(AllRows) /\ Len(rows) = Len(t.rows) /\ DOMAIN rows = DOMAIN t.rows
           /\ \A i \in DOMAIN rows : rows[i] = t.rows[i].row
<1>1. t.rows \in Seq(Entry) /\ Len(t.rows) \in Nat /\ DOMAIN t.rows = 1 .. Len(t.rows)
  BY DEF IsTable
<1>2. ASSUME NEW i \in DOMAIN t.rows PROVE t.rows[i].row \in AllRows
  <2>1. t.rows[i] \in Entry
    BY <1>1
  <2> QED
    BY <2>1 DEF Entry
<1> QED
  BY <1>1, <1>2 DEF RowsOf

LEMMA ScanWorks ==
    ASSUME NEW t, IsTable(t), NEW where, NEW hits, hits = scan(t, where)
    PROVE  hits \in Seq(AllRows) /\ Range(hits) = MatchingRows(t, where, DOMAIN t.rows)
<1>1. PICK rows, S : rows = RowsOf(t) /\ S = {i \in DOMAIN rows : matchesWhere(rows[i], where)}
  OBVIOUS
<1>2. /\ rows \in Seq(AllRows) /\ DOMAIN rows = DOMAIN t.rows
      /\ \A i \in DOMAIN rows : rows[i] = t.rows[i].row
  BY <1>1, RowsOfTable
<1>3. hits = Picked(rows, S)
  BY <1>1 DEF scan, RowsOf
<1>4. hits \in Seq(AllRows) /\ Range(hits) = {rows[i] : i \in {j \in DOMAIN rows : j \in S}}
  BY <1>2, <1>3, PickedWorks
<1>5. {rows[i] : i \in {j \in DOMAIN rows : j \in S}} = MatchingRows(t, where, DOMAIN t.rows)
  BY <1>1, <1>2 DEF MatchingRows
<1> QED
  BY <1>4, <1>5

-----------------------------------------------------------------------------
(* The inductive invariant.                                                *)

Database == [order |-> order, tables |-> tables]

VarsTyped ==
    /\ use \in Sessions
    /\ ops \in Seq(use.txOps) /\ Len(ops) <= MaxTxOps
    /\ pc \in {"idle", "write", "rename"}

CatalogInv == IsCatalog(Database) /\ Bounded(tables, use.maxRows)

\* The file is the last catalog whose save completed; a temporary file about
\* to replace it is the present one.
FileInv ==
    /\ saved = None => file = None
    /\ saved # None => GoodDefs(saved.defs) /\ file = Doc(Stored(saved.defs))
    /\ pc = "rename" => tmp = Doc(snapshotCatalog)

RelInv == VarsTyped /\ CatalogInv /\ FileInv

LEMMA SessionFacts ==
    ASSUME use \in Sessions
    PROVE  /\ use.maxRows \in Nat /\ MaxTxOps \in Nat
           /\ \A d \in use.schemas : d.name \in Names /\ d.cols \in Seq(ColumnDefs)
           /\ \A row \in use.rows : row \in AllRows
           /\ \A patch \in use.patches : patch \in AllRows
           /\ \A x \in use.statements : IsStatement(x)
           /\ \A op \in use.txOps : IsOperation(op)
<1>1. \A row \in use.rows \cup use.patches : IsRow(row)
  BY SessionAssumption
<1>2. \A row \in use.rows \cup use.patches : row \in AllRows
  BY <1>1, RowIsRow
<1> QED
  BY <1>2, SessionAssumption

\* A catalog's definitions are good, and the snapshot stores them.
LEMMA CatalogDefs ==
    ASSUME CatalogInv
    PROVE  GoodDefs(Definitions(Database)) /\ snapshotCatalog = Stored(Definitions(Database))
<1> PICK defs : defs = Definitions(Database)
  OBVIOUS
<1>1. /\ order \in Seq(Names) /\ DOMAIN order = 1 .. Len(order) /\ Len(order) \in Nat
      /\ Range(order) = DOMAIN tables /\ IsInjective(order) /\ IsTables(tables)
  BY DEF CatalogInv, IsCatalog, Database
<1>2. /\ defs = [i \in DOMAIN order |-> [name |-> order[i], cols |-> tables[order[i]].cols]]
      /\ DOMAIN defs = 1 .. Len(order)
  BY <1>1 DEF Definitions, Database
<1>3. \A i \in DOMAIN order : order[i] \in Names /\ IsTable(tables[order[i]])
  BY <1>1 DEF Range, IsTables
<1>4. \A i \in DOMAIN order : /\ defs[i].name = order[i] /\ defs[i].cols = tables[order[i]].cols
                              /\ defs[i] \in Described /\ ValidSchema(defs[i].cols)
  BY <1>2, <1>3 DEF IsTable, Described
<1>5. GoodDefs(defs)
  BY <1>1, <1>2, <1>4 DEF GoodDefs, IsInjective
<1>6. snapshotCatalog = Stored(defs)
  BY <1>2, <1>4 DEF snapshotCatalog, Stored, StoredColumns
<1> QED
  BY <1>5, <1>6

LEMMA RelInit == Init => RelInv
<1> SUFFICES ASSUME Init PROVE RelInv
  OBVIOUS
<1>1. VarsTyped
  <2>1. ops = <<>> /\ <<>> \in Seq(use.txOps) /\ Len(<<>>) = 0 /\ use \in Sessions /\ pc = "idle"
    BY DEF Init
  <2> QED
    BY <2>1, SessionFacts DEF VarsTyped
<1>2. CatalogInv
  BY <1>1, EmptyIsCatalog, SessionFacts DEF Init, Database, Empty, CatalogInv, VarsTyped
<1>3. FileInv
  BY DEF Init, FileInv
<1> QED
  BY <1>1, <1>2, <1>3 DEF RelInv

\* The same tables with other rows are the same catalog.
LEMMA RowsChange ==
    ASSUME CatalogInv, order' = order, use' = use, IsTables(tables'), SameTables(tables, tables'),
           Bounded(tables', use.maxRows)
    PROVE  CatalogInv'
BY DEF CatalogInv, IsCatalog, Database, SameTables

LEMMA ApplyWorks ==
    ASSUME RelInv, Ready, NEW out, Apply(out), IsTables(out.tables), SameTables(tables, out.tables)
    PROVE  RelInv'
<1>1. CatalogInv'
  BY RowsChange DEF RelInv, Apply, Room, Bounded
<1>2. FileInv'
  BY DEF RelInv, FileInv, Apply, disk, Ready
<1> QED
  BY <1>1, <1>2 DEF RelInv, VarsTyped, Apply, disk

\* The row of a parsed INSERT.
LEMMA InsertRowWorks ==
    ASSUME NEW s, IsStatement(s), s.kind = "insert", ParsesInsert(s)
    PROVE  InsertRow(s) \in AllRows
<1>1. /\ s.cols \in Seq(ColumnNames) /\ s.vals \in Seq(Cells) /\ Len(s.cols) = Len(s.vals)
      /\ DOMAIN s.cols = 1 .. Len(s.cols) /\ DOMAIN s.vals = 1 .. Len(s.cols) /\ Len(s.cols) \in Nat
  BY DEF IsStatement, ParsesInsert
<1>2. ASSUME NEW c \in Range(s.cols)
      PROVE  c \in ColumnNames /\ s.vals[Max({i \in DOMAIN s.cols : s.cols[i] = c})] \in Cells
  <2>1. PICK S : S = {i \in DOMAIN s.cols : s.cols[i] = c}
    OBVIOUS
  <2>2. S \subseteq 1 .. Len(s.cols) /\ S # {}
    BY <1>1, <2>1 DEF Range
  <2>3. Max(S) \in S
    BY <1>1, <2>2, MaxPosition
  <2>4. c \in ColumnNames
    BY <1>1 DEF Range
  <2>5. s.vals[Max(S)] \in Cells
    <3>1. PICK v, m : v = s.vals /\ m = Max(S)
      OBVIOUS
    <3>2. v \in Seq(Cells) /\ m \in 1 .. Len(v)
      BY <1>1, <2>2, <2>3, <3>1
    <3>3. v[m] \in Cells
      BY <3>2
    <3> QED
      BY <3>1, <3>3
  <2> QED
    BY <2>1, <2>4, <2>5
<1>3. InsertRow(s) \in [Range(s.cols) -> Cells]
  BY <1>2 DEF InsertRow
<1>4. Range(s.cols) \in SUBSET ColumnNames
  BY <1>2
<1> QED
  BY <1>3, <1>4 DEF AllRows

LEMMA ParsedColumnWorks ==
    ASSUME NEW c \in SqlColumns
    PROVE  ParsedColumn(c) \in ColumnDefs
<1>1. c.name \in ColumnNames /\ c.type \in {"num", "str"}
  BY DEF SqlColumns
<1> QED
  BY <1>1 DEF ParsedColumn, ColumnDefs

\* The operations an UPDATE or DELETE statement comes to.
LEMMA SqlEachWorks ==
    ASSUME CatalogInv, NEW s, IsStatement(s), s.kind \in {"update", "delete"}, NEW out, out = SqlEach(s)
    PROVE  IsTables(out.tables) /\ SameTables(tables, out.tables)
<1>0. IsTables(tables) /\ SameTables(tables, tables)
  BY DEF CatalogInv, IsCatalog, Database, SameTables
<1>1. CASE ~ParsesWhere(s) \/ ~Has(s.table)
  BY <1>0, <1>1 DEF SqlEach
<1>2. CASE ParsesWhere(s) /\ Has(s.table)
  <2> DEFINE pk(h) == Cell(h, PrimaryKey(tables[s.table].cols))
             write(h) == IF s.kind = "delete" THEN [kind |-> "delete", table |-> s.table, pk |-> pk(h)]
                         ELSE [kind |-> "update", table |-> s.table, pk |-> pk(h), patch |-> s.sets]
  <2>1. PICK hits : hits = scan(tables[s.table], singleWhere(s.where))
    OBVIOUS
  <2>2. PICK batch : batch = [i \in DOMAIN hits |-> write(hits[i])]
    OBVIOUS
  <2>3. out = Run(tables, batch)
    BY <1>2, <2>1, <2>2 DEF SqlEach
  <2>4. IsTable(tables[s.table])
    BY <1>0, <1>2 DEF IsTables, Has
  <2>5. hits \in Seq(AllRows)
    BY <2>1, <2>4, ScanWorks
  <2>6. ASSUME NEW h PROVE IsOperation(write(h))
    BY DEF IsStatement, IsOperation
  <2> HIDE DEF write, pk
  <2>7. Len(batch) \in Nat /\ \A i \in 1 .. Len(batch) : batch[i] = write(hits[i])
    BY <2>2, <2>5
  <2>8. IsBatch(batch)
    BY <2>6, <2>7 DEF IsBatch
  <2> QED
    BY <1>0, <2>3, <2>8, RunWorks
<1> QED
  BY <1>1, <1>2

-----------------------------------------------------------------------------
(* Every action.                                                           *)

\* One operation of an application, at once or buffered.
LEMMA OperationWorks ==
    ASSUME RelInv, Ready, NEW op, IsOperation(op), Apply(Perform(tables, op))
    PROVE  RelInv'
<1>1. IsTables(tables)
  BY DEF RelInv, CatalogInv, IsCatalog, Database
<1>2. PICK out : out = Perform(tables, op)
  OBVIOUS
<1>3. IsTables(out.tables) /\ SameTables(tables, out.tables)
  BY <1>1, <1>2, PerformWorks
<1> QED
  BY <1>2, <1>3, ApplyWorks

LEMMA CreateTableWorks ==
    ASSUME RelInv, NEW name \in Names, NEW cols \in Seq(ColumnDefs), CreateTable(name, cols)
    PROVE  RelInv'
<1>1. PICK d : d = createTable(Database, name, cols)
  OBVIOUS
<1>2. order' = d.order /\ tables' = d.tables /\ Ready /\ UNCHANGED <<use, ops, disk>>
  BY <1>1 DEF CreateTable, Database
<1>3. IsCatalog(Database) /\ Bounded(tables, use.maxRows) /\ use.maxRows \in Nat
  BY SessionFacts DEF RelInv, CatalogInv, VarsTyped
<1>4. IsCatalog(d) /\ Bounded(d.tables, use.maxRows)
  BY <1>1, <1>3, CreateWorks DEF Database
<1>5. CatalogInv'
  BY <1>2, <1>4 DEF CatalogInv, IsCatalog, Database
<1>6. FileInv'
  BY <1>2 DEF RelInv, FileInv, disk, Ready
<1> QED
  BY <1>2, <1>5, <1>6 DEF RelInv, VarsTyped, disk

LEMMA DropTableWorks ==
    ASSUME RelInv, NEW name \in Names, DropTable(name)
    PROVE  RelInv'
<1>1. /\ order \in Seq(Names) /\ Range(order) = DOMAIN tables /\ IsInjective(order) /\ IsTables(tables)
      /\ Bounded(tables, use.maxRows)
  BY DEF RelInv, CatalogInv, IsCatalog, Database
<1>2. tables' = [n \in DOMAIN tables \ {name} |-> tables[n]] /\ Ready /\ UNCHANGED <<use, ops, disk>>
  BY DEF DropTable
<1>3. IsTables(tables') /\ Bounded(tables', use.maxRows)
  BY <1>1, <1>2 DEF IsTables, Bounded
<1>4. order' \in Seq(Names) /\ Range(order') = DOMAIN tables' /\ IsInjective(order')
  <2>1. CASE ~Has(name)
    <3>1. order' = order /\ DOMAIN tables' = DOMAIN tables
      BY <1>2, <2>1 DEF DropTable, Has
    <3> QED
      BY <1>1, <3>1 DEF Range, IsInjective
  <2>2. CASE Has(name)
    <3>1. PICK o, i, r : o = order /\ i = (CHOOSE j \in DOMAIN order : order[j] = name) /\ r = RemoveAt(o, i)
      OBVIOUS
    <3>2. i \in DOMAIN o /\ o[i] = name
      BY <1>1, <2>2, <3>1 DEF Has, Range
    <3>3. order' = r
      BY <2>2, <3>1 DEF DropTable
    <3>4. o \in Seq(Names) /\ Range(o) = DOMAIN tables /\ IsInjective(o)
      BY <1>1, <3>1
    <3>5. r \in Seq(Names)
      BY <3>1, <3>2, <3>4, RemoveAtFacts
    <3>6. PICK f : Moves(f, r, o, i)
      BY <3>1, <3>2, <3>4, RemoveAtMoves
    <3>7. IsInjective(r)
      BY <3>4, <3>6 DEF Moves, IsInjective
    <3>8. Range(r) = Range(o) \ {name}
      <4>1. \A j \in DOMAIN r : r[j] \in Range(o) /\ r[j] # name
        BY <3>2, <3>4, <3>6 DEF Moves, Range, IsInjective
      <4>2. \A k \in DOMAIN o : o[k] # name => \E j \in DOMAIN r : o[k] = r[j]
        BY <3>2, <3>6 DEF Moves
      <4> QED
        BY <4>1, <4>2 DEF Range
    <3> QED
      BY <1>2, <3>3, <3>4, <3>5, <3>7, <3>8
  <2> QED
    BY <2>1, <2>2
<1>5. CatalogInv'
  BY <1>2, <1>3, <1>4 DEF CatalogInv, IsCatalog, Database
<1>6. FileInv'
  BY <1>2 DEF RelInv, FileInv, disk, Ready
<1> QED
  BY <1>2, <1>5, <1>6 DEF RelInv, VarsTyped, disk

LEMMA StatementWorks ==
    ASSUME RelInv, NEW s, IsStatement(s), SqlInsert(s) \/ SqlUpdate(s) \/ SqlDelete(s) \/ SqlCreate(s)
    PROVE  RelInv'
<1>0. IsTables(tables) /\ SameTables(tables, tables) /\ CatalogInv
  BY DEF RelInv, CatalogInv, IsCatalog, Database, SameTables
<1>1. CASE SqlInsert(s)
  <2>1. CASE ParsesInsert(s)
    <3>1. PICK op : op = [kind |-> "insert", table |-> s.table, row |-> InsertRow(s)]
      OBVIOUS
    <3>2. InsertRow(s) \in AllRows
      BY <1>1, <2>1, InsertRowWorks DEF SqlInsert
    <3>3. IsOperation(op)
      BY <3>1, <3>2, RowIsRow DEF IsOperation
    <3>4. Ready /\ Apply(Perform(tables, op))
      BY <1>1, <2>1, <3>1 DEF SqlInsert
    <3> QED
      BY <3>3, <3>4, OperationWorks
  <2>2. CASE ~ParsesInsert(s)
    <3>1. PICK out : out = [tables |-> tables, res |-> "error"]
      OBVIOUS
    <3>2. Ready /\ Apply(out)
      BY <1>1, <2>2, <3>1 DEF SqlInsert
    <3> QED
      BY <1>0, <3>1, <3>2, ApplyWorks
  <2> QED
    BY <2>1, <2>2
<1>2. CASE SqlUpdate(s) \/ SqlDelete(s)
  <2>1. PICK out : out = SqlEach(s)
    OBVIOUS
  <2>2. Ready /\ Apply(out) /\ s.kind \in {"update", "delete"}
    BY <1>2, <2>1 DEF SqlUpdate, SqlDelete
  <2>3. IsTables(out.tables) /\ SameTables(tables, out.tables)
    BY <1>0, <2>1, <2>2, SqlEachWorks
  <2> QED
    BY <2>2, <2>3, ApplyWorks
<1>3. CASE SqlCreate(s)
  <2>1. PICK cols : cols = [i \in DOMAIN s.cols |-> ParsedColumn(s.cols[i])]
    OBVIOUS
  <2>2. s.table \in Names /\ s.cols \in Seq(SqlColumns) /\ CreateTable(s.table, cols)
    BY <1>3, <2>1 DEF SqlCreate, IsStatement
  <2>3. Len(s.cols) \in Nat /\ DOMAIN s.cols = 1 .. Len(s.cols) /\ \A i \in 1 .. Len(s.cols) : s.cols[i] \in SqlColumns
    BY <2>2
  <2>4. \A i \in 1 .. Len(s.cols) : ParsedColumn(s.cols[i]) \in ColumnDefs
    BY <2>3, ParsedColumnWorks
  <2>5. cols \in Seq(ColumnDefs)
    BY <2>1, <2>3, <2>4
  <2> QED
    BY <2>2, <2>5, CreateTableWorks
<1> QED
  BY <1>1, <1>2, <1>3

LEMMA CommitWorks ==
    ASSUME RelInv, Commit
    PROVE  RelInv'
<1>1. PICK batch, out : batch = ops /\ out = Run(tables, batch)
  OBVIOUS
<1>2. /\ Ready /\ UNCHANGED <<use, order, disk>>
      /\ \/ Room(out.tables) /\ tables' = out.tables /\ (ops' = ops \/ ops' = <<>>)
         \/ UNCHANGED <<tables, ops>>
  BY <1>1 DEF Commit
<1>3. CatalogInv /\ IsTables(tables) /\ SameTables(tables, tables)
  BY DEF RelInv, CatalogInv, IsCatalog, Database, SameTables
<1>4. VarsTyped'
  <2>1. <<>> \in Seq(use.txOps) /\ Len(<<>>) = 0 /\ MaxTxOps \in Nat
    BY SessionFacts DEF RelInv, VarsTyped
  <2>2. (ops' = ops \/ ops' = <<>>) /\ use' = use /\ pc' = pc
    BY <1>2 DEF disk
  <2>3. use \in Sessions /\ ops \in Seq(use.txOps) /\ Len(ops) <= MaxTxOps /\ pc \in {"idle", "write", "rename"}
    BY DEF RelInv, VarsTyped
  <2>4. ops' \in Seq(use.txOps) /\ Len(ops') <= MaxTxOps
    <3>1. CASE ops' = ops
      BY <2>3, <3>1
    <3>2. CASE ops' = <<>>
      BY <2>1, <3>2
    <3> QED
      BY <2>2, <3>1, <3>2
  <2> QED
    BY <2>2, <2>3, <2>4 DEF VarsTyped
<1>5. IsBatch(batch)
  <2>1. batch \in Seq(use.txOps) /\ \A op \in use.txOps : IsOperation(op)
    BY <1>1, SessionFacts DEF RelInv, VarsTyped
  <2>2. Len(batch) \in Nat /\ \A i \in 1 .. Len(batch) : batch[i] \in use.txOps
    BY <2>1
  <2> QED
    BY <2>1, <2>2 DEF IsBatch
<1>6. IsTables(out.tables) /\ SameTables(tables, out.tables)
  BY <1>1, <1>3, <1>5, RunWorks
<1>7. CatalogInv'
  <2>1. CASE Room(out.tables) /\ tables' = out.tables
    BY <1>2, <1>3, <1>6, <2>1, RowsChange DEF Room, Bounded
  <2>2. CASE tables' = tables
    BY <1>2, <1>3, <2>2 DEF CatalogInv, Database
  <2> QED
    BY <1>2, <2>1, <2>2
<1>8. FileInv'
  BY <1>2 DEF RelInv, FileInv, disk, Ready
<1> QED
  BY <1>4, <1>7, <1>8 DEF RelInv

LEMMA SaveWorks ==
    ASSUME RelInv, SaveBegin \/ SaveWrite \/ SaveRename
    PROVE  RelInv'
<1>1. UNCHANGED <<use, order, tables, ops>> /\ CatalogInv /\ VarsTyped /\ FileInv
  BY DEF RelInv, SaveBegin, SaveWrite, SaveRename, db
<1>2. CatalogInv' /\ Database' = Database /\ snapshotCatalog' = snapshotCatalog
  BY <1>1 DEF CatalogInv, Database, snapshotCatalog
<1>3. VarsTyped'
  BY <1>1 DEF VarsTyped, SaveBegin, SaveWrite, SaveRename
<1>4. FileInv'
  <2>1. CASE SaveBegin
    BY <1>1, <2>1 DEF SaveBegin, FileInv
  <2>2. CASE SaveWrite
    BY <1>1, <1>2, <2>2 DEF SaveWrite, FileInv
  <2>3. CASE SaveRename
    <3>1. PICK defs, t : defs = Definitions(Database) /\ t = tmp
      OBVIOUS
    <3>2. GoodDefs(defs) /\ t = Doc(Stored(defs))
      <4>1. pc = "rename" /\ tmp = Doc(snapshotCatalog)
        BY <1>1, <2>3 DEF SaveRename, FileInv
      <4> QED
        BY <1>1, <3>1, <4>1, CatalogDefs
    <3>3. \/ file' = t /\ saved' = [defs |-> defs]
          \/ UNCHANGED <<file, saved>>
      BY <2>3, <3>1 DEF SaveRename, Database
    <3>4. CASE file' = t /\ saved' = [defs |-> defs]
      <4>1. saved' # None /\ saved'.defs = defs
        BY <3>4 DEF None
      <4> QED
        BY <2>3, <3>2, <3>4, <4>1 DEF FileInv, SaveRename
    <3>5. CASE UNCHANGED <<file, saved>>
      BY <1>1, <2>3, <3>5 DEF FileInv, SaveRename
    <3> QED
      BY <3>3, <3>4, <3>5
  <2> QED
    BY <2>1, <2>2, <2>3
<1> QED
  BY <1>2, <1>3, <1>4 DEF RelInv

\* What is in the file, when there is one.
LEMMA FileFacts ==
    ASSUME FileInv
    PROVE  /\ file \in {None, Torn} => saved = None
           /\ file \notin {None, Torn} => /\ saved # None /\ GoodDefs(saved.defs)
                                          /\ file.tables = Stored(saved.defs)
<1>1. \A w : Doc(w) # None /\ Doc(w) # Torn /\ Doc(w).tables = w
  BY DEF Doc, None, Torn
<1>2. None # Torn
  BY DEF None, Torn
<1>3. CASE saved = None
  BY <1>3 DEF FileInv
<1>4. CASE saved # None
  BY <1>1, <1>4 DEF FileInv
<1> QED
  BY <1>3, <1>4

LEMMA RestoreWorks ==
    ASSUME RelInv, Restore
    PROVE  RelInv'
<1>1. PICK d : d = restoreCatalog(Database)
  OBVIOUS
<1>2. order' = d.order /\ tables' = d.tables /\ Ready /\ UNCHANGED <<use, ops, disk>>
  BY <1>1 DEF Restore, Database
<1>3. IsCatalog(Database) /\ Bounded(Database.tables, use.maxRows) /\ use.maxRows \in Nat
  BY SessionFacts DEF RelInv, CatalogInv, VarsTyped, Database
<1>4. IsCatalog(d) /\ Bounded(d.tables, use.maxRows)
  <2>1. CASE file \in {None, Torn}
    BY <1>1, <1>3, <2>1 DEF restoreCatalog
  <2>2. CASE file \notin {None, Torn}
    <3>1. PICK defs, w : defs = saved.defs /\ w = Stored(defs)
      OBVIOUS
    <3>2. GoodDefs(defs) /\ file.tables = w
      BY <2>2, <3>1, FileFacts DEF RelInv
    <3>3. d = Booted(Database, w)[Len(w)]
      BY <1>1, <2>2, <3>2 DEF restoreCatalog
    <3> QED
      BY <1>3, <3>1, <3>2, <3>3, BootWorks
  <2> QED
    BY <2>1, <2>2
<1>5. CatalogInv'
  BY <1>2, <1>4 DEF CatalogInv, IsCatalog, Database
<1>6. FileInv'
  BY <1>2 DEF RelInv, FileInv, disk, Ready
<1> QED
  BY <1>2, <1>5, <1>6 DEF RelInv, VarsTyped, disk

LEMMA CrashWorks ==
    ASSUME RelInv, Crash
    PROVE  RelInv'
<1>1. order' = <<>> /\ tables' = <<>> /\ ops' = <<>> /\ pc' = "idle" /\ UNCHANGED <<use, file, saved>>
  BY DEF Crash
<1>2. CatalogInv'
  <2>1. Database' = Empty
    BY <1>1 DEF Database, Empty
  <2>2. use.maxRows \in Nat
    BY SessionFacts DEF RelInv, VarsTyped
  <2> QED
    BY <1>1, <2>1, <2>2, EmptyIsCatalog DEF CatalogInv, Empty
<1>3. FileInv'
  BY <1>1 DEF RelInv, FileInv
<1>4. VarsTyped'
  <2>1. <<>> \in Seq(use.txOps) /\ Len(<<>>) = 0 /\ MaxTxOps \in Nat
    BY SessionFacts DEF RelInv, VarsTyped
  <2> QED
    BY <1>1, <2>1 DEF RelInv, VarsTyped
<1> QED
  BY <1>2, <1>3, <1>4 DEF RelInv

LEMMA RelNext == RelInv /\ [Next]_vars => RelInv'
<1> SUFFICES ASSUME RelInv, [Next]_vars PROVE RelInv'
  OBVIOUS
<1>0. use \in Sessions
  BY DEF RelInv, VarsTyped
<1>1. ASSUME NEW d \in use.schemas, CreateTable(d.name, d.cols) PROVE RelInv'
  <2>1. d.name \in Names /\ d.cols \in Seq(ColumnDefs)
    BY <1>0, <1>1, SessionFacts
  <2> QED
    BY <1>1, <2>1, CreateTableWorks
<1>2. ASSUME NEW n \in Names, DropTable(n) PROVE RelInv'
  BY <1>2, DropTableWorks
<1>3. ASSUME NEW n \in Names, NEW row \in use.rows, Insert(n, row) PROVE RelInv'
  <2>1. PICK op : op = [kind |-> "insert", table |-> n, row |-> row]
    OBVIOUS
  <2>2. IsOperation(op)
    BY <1>0, <1>3, <2>1, SessionFacts, RowIsRow DEF IsOperation
  <2> QED
    BY <1>3, <2>1, <2>2, OperationWorks DEF Insert
<1>4. ASSUME NEW n \in Names, NEW pk \in use.keys, Delete(n, pk) PROVE RelInv'
  <2>1. PICK op : op = [kind |-> "delete", table |-> n, pk |-> pk]
    OBVIOUS
  <2>2. IsOperation(op)
    BY <2>1 DEF IsOperation
  <2> QED
    BY <1>4, <2>1, <2>2, OperationWorks DEF Delete
<1>5. ASSUME NEW n \in Names, NEW pk \in use.keys, NEW patch \in use.patches, Update(n, pk, patch) PROVE RelInv'
  <2>1. PICK op : op = [kind |-> "update", table |-> n, pk |-> pk, patch |-> patch]
    OBVIOUS
  <2>2. IsOperation(op)
    BY <1>0, <1>5, <2>1, SessionFacts, RowIsRow DEF IsOperation
  <2> QED
    BY <1>5, <2>1, <2>2, OperationWorks DEF Update
<1>6. ASSUME NEW s \in use.statements, SqlInsert(s) \/ SqlUpdate(s) \/ SqlDelete(s) \/ SqlCreate(s) PROVE RelInv'
  BY <1>0, <1>6, SessionFacts, StatementWorks
<1>7. ASSUME NEW op \in use.txOps, Buffer(op) PROVE RelInv'
  <2>1. ops' = Append(ops, op) /\ Len(ops) < MaxTxOps /\ UNCHANGED <<use, order, tables, file, tmp, pc, saved>>
    BY <1>7 DEF Buffer, db, disk
  <2>2. ops' \in Seq(use.txOps) /\ Len(ops') <= MaxTxOps
    <3>1. ops \in Seq(use.txOps) /\ MaxTxOps \in Nat
      BY <1>0, SessionFacts DEF RelInv, VarsTyped
    <3> QED
      BY <2>1, <3>1
  <2> QED
    BY <2>1, <2>2 DEF RelInv, VarsTyped, CatalogInv, Database, FileInv, snapshotCatalog
<1>8. CASE Rollback
  <2>1. <<>> \in Seq(use.txOps) /\ Len(<<>>) = 0 /\ MaxTxOps \in Nat
    BY <1>0, SessionFacts
  <2> QED
    BY <1>8, <2>1 DEF Rollback, db, disk, RelInv, VarsTyped, CatalogInv, Database, FileInv, snapshotCatalog
<1>9. CASE Commit
  BY <1>9, CommitWorks
<1>10. CASE SaveBegin \/ SaveWrite \/ SaveRename
  BY <1>10, SaveWorks
<1>11. CASE Restore
  BY <1>11, RestoreWorks
<1>12. CASE Crash
  BY <1>12, CrashWorks
<1>13. CASE UNCHANGED vars
  BY <1>13 DEF vars, db, disk, RelInv, VarsTyped, CatalogInv, Database, FileInv, snapshotCatalog
<1> QED
  BY <1>1, <1>2, <1>3, <1>4, <1>5, <1>6, <1>7, <1>8, <1>9, <1>10, <1>11, <1>12, <1>13 DEF Next

\* The inductive invariant of the relational layer: a typed session and
\* buffer; tables whose rows fit their columns, each under its own key once,
\* with the secondary maps the rows give, in an order that names each once; and
\* a file that stores the last catalog saved (database.ts, table.ts,
\* transaction.ts, catalog_store.ts).
THEOREM RelationalInvariant == Spec => []RelInv
<1>1. Init => RelInv
  BY RelInit
<1>2. RelInv /\ [Next]_vars => RelInv'
  BY RelNext
<1> QED
  BY <1>1, <1>2, PTL DEF Spec

\* Types of all variables; the catalog's two structures have the same names,
\* each once (database.ts).
THEOREM RelationalTypeCorrect == Spec => []TypeOK
<1>1. RelInv => TypeOK
  <2> SUFFICES ASSUME RelInv PROVE TypeOK
    OBVIOUS
  <2>1. order \in Seq(Names) /\ Range(order) = DOMAIN tables /\ IsInjective(order) /\ IsTables(tables)
        /\ Bounded(tables, use.maxRows)
    BY DEF RelInv, CatalogInv, IsCatalog, Database
  <2>2. Range(order) \subseteq Names
    <3>1. \A i \in DOMAIN order : order[i] \in Names
      BY <2>1
    <3> QED
      BY <3>1 DEF Range
  <2>3. \A n \in DOMAIN tables : ValidSchema(tables[n].cols) /\ Len(tables[n].rows) <= use.maxRows
    BY <2>1 DEF IsTables, IsTable, Bounded
  <2> QED
    BY <2>1, <2>2, <2>3 DEF TypeOK, RelInv, VarsTyped
<1> QED
  BY <1>1, RelationalInvariant, PTL

\* The secondary maps say exactly what the rows say, whatever mix of inserts,
\* updates, deletes, statements and commits ran or threw (indexRow, deindexRow).
THEOREM SecondaryMapsExact == Spec => []SecondaryMatchesRows
<1>1. RelInv => SecondaryMatchesRows
  <2> SUFFICES ASSUME RelInv, NEW n \in DOMAIN tables, NEW c \in Mapped(tables[n].cols), NEW t, t = tables[n]
               PROVE  t.secondary[c] = [v \in {String(Cell(t.rows[i].row, c)) : i \in DOMAIN t.rows} |->
                        {t.rows[i].pk : i \in {j \in DOMAIN t.rows : String(Cell(t.rows[j].row, c)) = v}}]
    BY DEF SecondaryMatchesRows
  <2>1. IsTable(t)
    BY DEF RelInv, CatalogInv, IsCatalog, Database, IsTables
  <2>2. t.secondary[c] = Entries(t.rows, DOMAIN t.rows, c)
    BY <2>1 DEF IsTable, Secondaries
  <2> QED
    BY <2>2 DEF Entries, Holding, Rendered
<1> QED
  BY <1>1, RelationalInvariant, PTL

\* As many keys as rows.
LEMMA KeysCounted ==
    ASSUME NEW t, IsTable(t)
    PROVE  Cardinality(Keys(t)) = count(t)
<1>1. t.rows \in Seq(Entry) /\ Len(t.rows) \in Nat /\ DOMAIN t.rows = 1 .. Len(t.rows) /\ Apart(t.rows, DOMAIN t.rows)
  BY DEF IsTable
<1>2. PICK f : f = [i \in 1 .. Len(t.rows) |-> t.rows[i].pk]
  OBVIOUS
<1>3. f \in Bijection(1 .. Len(t.rows), Keys(t))
  <2>1. f \in [1 .. Len(t.rows) -> Keys(t)]
    BY <1>1, <1>2 DEF Keys
  <2>2. \A i, j \in 1 .. Len(t.rows) : f[i] = f[j] => i = j
    BY <1>1, <1>2 DEF Apart
  <2>3. \A k \in Keys(t) : \E i \in 1 .. Len(t.rows) : f[i] = k
    BY <1>1, <1>2 DEF Keys
  <2> QED
    BY <2>1, <2>2, <2>3 DEF Bijection, Injection, Surjection, IsInjective
<1>4. IsFiniteSet(1 .. Len(t.rows)) /\ Cardinality(1 .. Len(t.rows)) = Len(t.rows)
  BY <1>1, FS_Interval
<1>5. Cardinality(Keys(t)) = Cardinality(1 .. Len(t.rows))
  BY <1>3, <1>4, FS_Bijection DEF ExistsBijection
<1> QED
  BY <1>4, <1>5 DEF count

\* Every row is stored under its own primary key, and under no other (insert,
\* update, delete of table.ts).
THEOREM RowsUnderTheirKeys == Spec => []KeyedByPk
<1>1. RelInv => KeyedByPk
  <2> SUFFICES ASSUME RelInv, NEW n \in DOMAIN tables, NEW t, t = tables[n]
               PROVE  /\ \A i \in DOMAIN t.rows : t.rows[i].pk = encodePk(Cell(t.rows[i].row, PrimaryKey(t.cols)))
                      /\ Cardinality(Keys(t)) = count(t)
    BY DEF KeyedByPk
  <2>1. IsTable(t)
    BY DEF RelInv, CatalogInv, IsCatalog, Database, IsTables
  <2>2. \A i \in DOMAIN t.rows : t.rows[i].pk = encodePk(Cell(t.rows[i].row, PrimaryKey(t.cols)))
    BY <2>1 DEF IsTable, RowFits
  <2> QED
    BY <2>1, <2>2, KeysCounted
<1> QED
  BY <1>1, RelationalInvariant, PTL

\* No sequence of calls stores a row that validateRow would refuse.
THEOREM StoredRowsValid == Spec => []RowsValid
<1>1. RelInv => RowsValid
  BY DEF RelInv, CatalogInv, IsCatalog, Database, IsTables, IsTable, RowFits, RowsValid
<1> QED
  BY <1>1, RelationalInvariant, PTL

\* At every moment a new process gets from restoreCatalog the definitions of
\* the last save that completed (saveCatalog, loadCatalogDefs, bootCatalog).
THEOREM CatalogSurvives == Spec => []CatalogRestored
<1>1. RelInv => CatalogRestored
  <2> SUFFICES ASSUME RelInv, saved # None PROVE Definitions(restoreCatalog(Empty)) = saved.defs
    BY DEF CatalogRestored, Empty
  <2>1. PICK defs, w : defs = saved.defs /\ w = Stored(defs)
    OBVIOUS
  <2>2. file \notin {None, Torn}
    BY FileFacts DEF RelInv
  <2>3. GoodDefs(defs) /\ file.tables = w
    BY <2>1, <2>2, FileFacts DEF RelInv
  <2>4. restoreCatalog(Empty) = Booted(Empty, w)[Len(w)]
    BY <2>2, <2>3 DEF restoreCatalog
  <2>5. Definitions(Booted(Empty, w)[Len(w)]) = defs
    BY <2>1, <2>3, BootRestores
  <2> QED
    BY <2>1, <2>4, <2>5
<1> QED
  BY <1>1, RelationalInvariant, PTL

-----------------------------------------------------------------------------
(* The maps and the scans.                                                 *)

\* v is a value of the type of column c, and the keys of the rows that hold it.
Typed(t, c, v) == v \in Values /\ \E d \in Range(t.cols) : d.name = c /\ d.type = v.t

Holders(t, c, v) == {t.rows[i].pk : i \in {j \in DOMAIN t.rows : Cell(t.rows[j].row, c) = v}}

LEMMA CellForms ==
    ASSUME NEW x \in Cells
    PROVE  /\ x.t = "num" => x.v \in CellNumbers /\ x = Num(x.v) /\ String(x) = Text(Spelling[x.v])
           /\ x.t = "str" => x.v \in CellTexts /\ x = Str(x.v) /\ String(x) = Text(x.v)
<1>1. CASE \E n \in CellNumbers : x = Num(n)
  BY <1>1 DEF Num, String
<1>2. CASE \E y \in CellTexts : x = Str(y)
  BY <1>2 DEF Str, String
<1>3. CASE x \in {Null, Undef}
  BY <1>3 DEF Null, Undef
<1> QED
  BY <1>1, <1>2, <1>3 DEF Cells

\* Among the values of one type, null and undefined, String is one to one.
LEMMA StringTells ==
    ASSUME NEW x \in Cells, NEW v \in Values, x \in {Null, Undef} \/ x.t = v.t
    PROVE  String(x) = String(v) <=> x = v
<1>1. v \in Cells /\ v.t \in {"num", "str"} /\ (v.t = "str" => v.v \notin {NullText, UndefinedText})
  BY DEF Values, Cells, Num, Str
<1>2. \A y, z : (Text(y) = Text(z) <=> y = z) /\ (Num(y) = Num(z) <=> y = z) /\ (Str(y) = Str(z) <=> y = z)
  BY DEF Text, Num, Str
<1>3. \A m, n \in CellNumbers : Spelling[m] = Spelling[n] => m = n
  <2> SUFFICES ASSUME NEW m \in CellNumbers, NEW n \in CellNumbers, Spelling[m] = Spelling[n] PROVE m = n
    OBVIOUS
  <2>1. NumberOf[Spelling[m]] = {m} /\ NumberOf[Spelling[n]] = {n}
    BY TextAssumption
  <2> QED
    BY <2>1
<1>4. CASE x \in {Null, Undef}
  <2>1. \E y \in {NullText, UndefinedText} : String(x) = Text(y)
    BY <1>4 DEF String, Null, Undef
  <2>2. v.t = "num" => Spelling[v.v] \notin {NullText, UndefinedText}
    <3> SUFFICES ASSUME v.t = "num" PROVE NumberOf[Spelling[v.v]] = {v.v} /\ NumberOf[NullText] = {} /\ NumberOf[UndefinedText] = {}
      OBVIOUS
    <3>1. v.v \in CellNumbers
      BY <1>1, CellForms
    <3> QED
      BY <3>1, TextAssumption
  <2>3. \E z : String(v) = Text(z) /\ z \notin {NullText, UndefinedText}
    BY <1>1, <2>2, CellForms
  <2>4. String(x) # String(v)
    BY <1>2, <2>1, <2>3
  <2>5. x # v
    BY <1>1, <1>4 DEF Null, Undef
  <2> QED
    BY <2>4, <2>5
<1>5. CASE x.t = v.t /\ v.t = "num"
  <2>1. /\ x.v \in CellNumbers /\ x = Num(x.v) /\ String(x) = Text(Spelling[x.v])
        /\ v.v \in CellNumbers /\ v = Num(v.v) /\ String(v) = Text(Spelling[v.v])
    BY <1>1, <1>5, CellForms
  <2>2. x = v <=> x.v = v.v
    BY <1>2, <2>1
  <2>3. String(x) = String(v) <=> Spelling[x.v] = Spelling[v.v]
    BY <1>2, <2>1
  <2> QED
    BY <1>3, <2>1, <2>2, <2>3
<1>6. CASE x.t = v.t /\ v.t = "str"
  <2>1. x = Str(x.v) /\ String(x) = Text(x.v) /\ v = Str(v.v) /\ String(v) = Text(v.v)
    BY <1>1, <1>6, CellForms
  <2> QED
    BY <1>2, <2>1
<1> QED
  BY <1>1, <1>4, <1>5, <1>6

\* A typed column holds a value exactly where it holds the value's text.
LEMMA TextsTell ==
    ASSUME NEW t, IsTable(t), NEW c, NEW v, Typed(t, c, v), NEW i \in DOMAIN t.rows
    PROVE  String(Cell(t.rows[i].row, c)) = String(v) <=> Cell(t.rows[i].row, c) = v
<1>1. PICK x : x = Cell(t.rows[i].row, c)
  OBVIOUS
<1>2. t.rows[i] \in Entry /\ validateRow(t.cols, t.rows[i].row)
  BY DEF IsTable, RowFits
<1>3. x \in Cells
  BY <1>1, <1>2, CellIsCell DEF Entry
<1>4. x \in {Null, Undef} \/ x.t = v.t
  BY <1>1, <1>2 DEF validateRow, Typed
<1>5. String(x) = String(v) <=> x = v
  BY <1>3, <1>4, StringTells DEF Typed
<1> QED
  BY <1>1, <1>5

\* The map.
LEMMA MapAnswers ==
    ASSUME NEW t, IsTable(t), NEW c \in Mapped(t.cols), NEW v, Typed(t, c, v), NEW m, m = t.secondary[c]
    PROVE  Held(m, String(v)) = Holders(t, c, v) /\ Holders(t, c, v) \subseteq Texts
<1>1. m = Entries(t.rows, DOMAIN t.rows, c)
  BY DEF IsTable, Secondaries
<1>2. Held(m, String(v)) = Holding(t.rows, DOMAIN t.rows, c, String(v))
  <2>1. /\ DOMAIN m = {Rendered(t.rows, i, c) : i \in DOMAIN t.rows}
        /\ \A w \in DOMAIN m : m[w] = Holding(t.rows, DOMAIN t.rows, c, w)
    BY <1>1 DEF Entries
  <2>2. String(v) \notin DOMAIN m => Holding(t.rows, DOMAIN t.rows, c, String(v)) = {}
    BY <2>1 DEF Holding
  <2> QED
    BY <2>1, <2>2 DEF Held
<1>3. \A i \in DOMAIN t.rows : Rendered(t.rows, i, c) = String(v) <=> Cell(t.rows[i].row, c) = v
  BY TextsTell DEF Rendered
<1>4. Holding(t.rows, DOMAIN t.rows, c, String(v)) = Holders(t, c, v)
  BY <1>3 DEF Holding, Holders
<1>5. \A i \in DOMAIN t.rows : t.rows[i].pk \in Texts
  <2>1. \A i \in DOMAIN t.rows : t.rows[i] \in Entry
    BY DEF IsTable
  <2> QED
    BY <2>1 DEF Entry
<1>6. Holders(t, c, v) \subseteq Texts
  BY <1>5 DEF Holders
<1> QED
  BY <1>2, <1>4, <1>6

LEMMA KeysRendered ==
    ASSUME NEW t, IsTable(t)
    PROVE  \A i \in DOMAIN t.rows : t.rows[i].pk = String(Cell(t.rows[i].row, PrimaryKey(t.cols)))
BY DEF IsTable, RowFits, encodePk

\* The scans.
LEMMA LookupAgrees ==
    ASSUME NEW t, IsTable(t), NEW c, NEW v
    PROVE  Range(lookupByColumn(t, c, v)) = Holders(t, c, v)
<1>1. PICK where, hits : where = {[col |-> c, op |-> "eq", val |-> v]} /\ hits = scan(t, where)
  OBVIOUS
<1>2. \A row : matchesWhere(row, where) <=> Cell(row, c) = v
  BY <1>1 DEF matchesWhere, Check
<1>3. Range(hits) = MatchingRows(t, where, DOMAIN t.rows)
  BY <1>1, ScanWorks
<1>4. lookupByColumn(t, c, v) = [i \in DOMAIN hits |-> String(Cell(hits[i], PrimaryKey(t.cols)))]
  BY <1>1 DEF lookupByColumn
<1>5. ASSUME NEW k
      PROVE  k \in Range(lookupByColumn(t, c, v)) <=> \E r \in Range(hits) : k = String(Cell(r, PrimaryKey(t.cols)))
  BY <1>4 DEF Range
<1>6. ASSUME NEW r
      PROVE  r \in Range(hits) <=> \E i \in DOMAIN t.rows : r = t.rows[i].row /\ Cell(r, c) = v
  BY <1>2, <1>3 DEF MatchingRows
<1>7. ASSUME NEW k
      PROVE  k \in Holders(t, c, v) <=> \E i \in DOMAIN t.rows : k = t.rows[i].pk /\ Cell(t.rows[i].row, c) = v
  BY DEF Holders
<1>8. \A k : k \in Range(lookupByColumn(t, c, v)) <=> k \in Holders(t, c, v)
  BY <1>5, <1>6, <1>7, KeysRendered
<1> QED
  BY <1>8

LEMMA UniqueAgrees ==
    ASSUME NEW t, IsTable(t), NEW c, NEW v, NEW x
    PROVE  assertUnique(t, c, v, x) <=> \A k \in Holders(t, c, v) : x # Undef /\ k = String(x)
<1>1. PICK hits : hits = scan(t, {})
  OBVIOUS
<1>2. \A row : matchesWhere(row, {})
  BY DEF matchesWhere
<1>3. Range(hits) = MatchingRows(t, {}, DOMAIN t.rows)
  BY <1>1, ScanWorks
<1>4. \A r : r \in Range(hits) <=> \E i \in DOMAIN t.rows : r = t.rows[i].row
  BY <1>2, <1>3 DEF MatchingRows
<1>5. assertUnique(t, c, v, x) <=>
        \A r \in Range(hits) : (x # Undef /\ String(Cell(r, PrimaryKey(t.cols))) = String(x)) \/ Cell(r, c) # v
  BY <1>1 DEF assertUnique
<1>6. assertUnique(t, c, v, x) <=>
        \A i \in DOMAIN t.rows : (x # Undef /\ t.rows[i].pk = String(x)) \/ Cell(t.rows[i].row, c) # v
  BY <1>4, <1>5, KeysRendered
<1> QED
  BY <1>6 DEF Holders

\* A key lookup.
LEMMA ForeignKeyAgrees ==
    ASSUME NEW t, IsTable(t), NEW c, c = PrimaryKey(t.cols), NEW v, Typed(t, c, v)
    PROVE  assertForeignKey(t, v) <=> Holders(t, c, v) # {}
<1>1. \A i \in DOMAIN t.rows : String(Cell(t.rows[i].row, c)) = String(v) <=> Cell(t.rows[i].row, c) = v
  BY TextsTell
<1>2. findByPk(t, v) # {} <=> \E i \in DOMAIN t.rows : t.rows[i].pk = String(v)
  BY DEF findByPk, encodePk
<1>3. findByPk(t, v) # {} <=> \E i \in DOMAIN t.rows : Cell(t.rows[i].row, c) = v
  BY <1>1, <1>2, KeysRendered
<1>4. IsKey(v)
  BY DEF Typed, IsKey, Values, Num, Str
<1> QED
  BY <1>3, <1>4 DEF assertForeignKey, Holders

\* A maintained map answers what a full scan answers (lookupByColumn of
\* secondary_index.ts, assertUnique of constraints.ts, assertForeignKey of
\* validator.ts).
THEOREM ScansAgree == Spec => []ScanAgreesWithMap
<1>1. RelInv => ScanAgreesWithMap
  <2> DEFINE Agree(t, c, v, held) ==
               /\ Range(lookupByColumn(t, c, v)) = held
               /\ assertUnique(t, c, v, Undef) <=> held = {}
               /\ \A pk \in {k \in use.keys : IsKey(k)} : assertUnique(t, c, v, pk) <=> held \subseteq {encodePk(pk)}
               /\ c = PrimaryKey(t.cols) => (assertForeignKey(t, v) <=> held # {})
  <2> SUFFICES ASSUME RelInv, NEW n \in DOMAIN tables, NEW c \in Mapped(tables[n].cols),
                      NEW v \in Values, \E d \in Range(tables[n].cols) : d.name = c /\ d.type = v.t
               PROVE  Agree(tables[n], c, v, Held(tables[n].secondary[c], String(v)))
    BY Zenon DEF ScanAgreesWithMap, Held
  <2> PICK t, held : t = tables[n] /\ held = Held(t.secondary[c], String(v))
    OBVIOUS
  <2> HIDE DEF Agree
  <2>1. IsTable(t)
    BY DEF RelInv, CatalogInv, IsCatalog, Database, IsTables
  <2>2. Typed(t, c, v)
    BY DEF Typed
  <2>3. held = Holders(t, c, v) /\ held \subseteq Texts
    BY <2>1, <2>2, MapAnswers
  <2>4. Range(lookupByColumn(t, c, v)) = held
    BY <2>1, <2>3, LookupAgrees
  <2>5. assertUnique(t, c, v, Undef) <=> held = {}
    BY <2>1, <2>3, UniqueAgrees
  <2>6. ASSUME NEW pk, IsKey(pk) PROVE assertUnique(t, c, v, pk) <=> held \subseteq {encodePk(pk)}
    <3>1. pk # Undef
      BY <2>6 DEF IsKey, Undef
    <3> QED
      BY <2>1, <2>3, <3>1, UniqueAgrees DEF encodePk
  <2>7. c = PrimaryKey(t.cols) => (assertForeignKey(t, v) <=> held # {})
    BY <2>1, <2>2, <2>3, ForeignKeyAgrees
  <2>8. Agree(t, c, v, held)
    BY <2>4, <2>5, <2>6, <2>7 DEF Agree
  <2> QED
    BY <2>8
<1> QED
  BY <1>1, RelationalInvariant, PTL

-----------------------------------------------------------------------------
(* What a commit leaves.                                                   *)

\* The row under a key, and the key an operation is about.
RowAt(t, pk) == t.rows[At(t, pk)].row
KeyOf(cols, op) == IF op.kind = "insert" THEN encodePk(Cell(op.row, PrimaryKey(cols))) ELSE encodePk(op.pk)

\* From t to u nothing changed under pk.
Kept(t, u, pk) ==
    /\ pk \in Keys(t) <=> pk \in Keys(u)
    /\ pk \in Keys(t) => RowAt(u, pk) = RowAt(t, pk)

\* Under pk, u is what the operation asked for.
Took(u, op, pk) ==
    /\ op.kind = "delete" => pk \notin Keys(u)
    /\ op.kind = "insert" => pk \in Keys(u) /\ RowAt(u, pk) = op.row
    /\ op.kind = "update" => (pk \in Keys(u) => \A c \in DOMAIN op.patch : RowAt(u, pk)[c] = op.patch[c])

LEMMA RowFound ==
    ASSUME NEW t, IsTable(t), NEW i \in DOMAIN t.rows, NEW pk, pk = t.rows[i].pk
    PROVE  pk \in Keys(t) /\ RowAt(t, pk) = t.rows[i].row
BY AtFinds DEF RowAt

LEMMA KeptBy ==
    ASSUME NEW t, IsTable(t), NEW u, IsTable(u), NEW pk,
           \A i \in DOMAIN t.rows : t.rows[i].pk = pk => \E j \in DOMAIN u.rows : u.rows[j] = t.rows[i],
           \A j \in DOMAIN u.rows : u.rows[j].pk = pk => \E i \in DOMAIN t.rows : t.rows[i].pk = pk
    PROVE  Kept(t, u, pk)
<1>1. ASSUME pk \in Keys(t) PROVE pk \in Keys(u) /\ RowAt(u, pk) = RowAt(t, pk)
  <2>1. PICK i \in DOMAIN t.rows : t.rows[i].pk = pk
    BY <1>1 DEF Keys
  <2>2. PICK j \in DOMAIN u.rows : u.rows[j] = t.rows[i]
    BY <2>1
  <2> QED
    BY <2>1, <2>2, RowFound
<1>2. ASSUME pk \in Keys(u) PROVE pk \in Keys(t)
  <2>1. PICK j \in DOMAIN u.rows : u.rows[j].pk = pk
    BY <1>2 DEF Keys
  <2>2. PICK i \in DOMAIN t.rows : t.rows[i].pk = pk
    BY <2>1
  <2> QED
    BY <2>2 DEF Keys
<1> QED
  BY <1>1, <1>2 DEF Kept

LEMMA InsertTakes ==
    ASSUME NEW t, IsTable(t), NEW row \in AllRows, NEW pk, pk = encodePk(Cell(row, PrimaryKey(t.cols))),
           NEW u, u = insert(t, row).table, insert(t, row).res # "error"
    PROVE  /\ pk \in Keys(u) /\ RowAt(u, pk) = row
           /\ \A k : k # pk => Kept(t, u, k)
<1>1. PICK e : e = [pk |-> pk, row |-> row]
  OBVIOUS
<1>2. IsTable(u) /\ u.rows = Append(t.rows, e)
  <2>1. insert(t, row) # Threw(t)
    BY DEF Threw
  <2> QED
    BY <1>1, <2>1, InsertWorks
<1>3. t.rows \in Seq(Entry) /\ Len(t.rows) \in Nat /\ DOMAIN t.rows = 1 .. Len(t.rows)
  BY DEF IsTable
<1>4. /\ DOMAIN u.rows = 1 .. Len(t.rows) + 1 /\ u.rows[Len(t.rows) + 1] = e
      /\ \A i \in 1 .. Len(t.rows) : u.rows[i] = t.rows[i]
  <2>1. PICK r : r = t.rows
    OBVIOUS
  <2>2. r \in Seq(Entry) /\ u.rows = Append(r, e) /\ Len(r) \in Nat
    BY <1>2, <1>3, <2>1
  <2>3. /\ DOMAIN Append(r, e) = 1 .. Len(r) + 1 /\ Append(r, e)[Len(r) + 1] = e
        /\ \A i \in 1 .. Len(r) : Append(r, e)[i] = r[i]
    BY <2>2
  <2> QED
    BY <2>1, <2>2, <2>3
<1>5. pk \in Keys(u) /\ RowAt(u, pk) = row
  <2>1. Len(t.rows) + 1 \in DOMAIN u.rows /\ u.rows[Len(t.rows) + 1].pk = pk /\ u.rows[Len(t.rows) + 1].row = row
    BY <1>1, <1>3, <1>4
  <2> QED
    BY <1>2, <2>1, RowFound
<1>6. ASSUME NEW k, k # pk PROVE Kept(t, u, k)
  <2>1. \A i \in DOMAIN t.rows : \E j \in DOMAIN u.rows : u.rows[j] = t.rows[i]
    <3>1. \A i \in DOMAIN t.rows : i \in DOMAIN u.rows
      BY <1>3, <1>4
    <3> QED
      BY <1>3, <1>4, <3>1
  <2>2. ASSUME NEW j \in DOMAIN u.rows, u.rows[j].pk = k PROVE \E i \in DOMAIN t.rows : t.rows[i].pk = k
    <3>1. j # Len(t.rows) + 1
      BY <1>1, <1>4, <1>6, <2>2
    <3>2. j \in 1 .. Len(t.rows)
      BY <1>3, <1>4, <3>1
    <3> QED
      BY <1>3, <1>4, <2>2, <3>2
  <2> QED
    BY <1>2, <2>1, <2>2, KeptBy
<1> QED
  BY <1>5, <1>6

LEMMA UpdateTakes ==
    ASSUME NEW t, IsTable(t), NEW v, NEW pk, pk = encodePk(v), NEW patch \in AllRows,
           NEW u, u = update(t, v, patch).table, update(t, v, patch).res # "error"
    PROVE  /\ pk \in Keys(u) => \A c \in DOMAIN patch : RowAt(u, pk)[c] = patch[c]
           /\ \A k : k # pk => Kept(t, u, k)
<1>1. PICK i : i = At(t, pk)
  OBVIOUS
<1>2. CASE update(t, v, patch) = Gave(t, "null") /\ pk \notin Keys(t)
  <2>1. u = t
    BY <1>2 DEF Gave
  <2> QED
    BY <1>2, <2>1 DEF Kept
<1>3. CASE pk \in Keys(t) /\ IsTable(u) /\ u.rows = Patched(t.rows, i, pk, patch)
  <2>1. i \in DOMAIN t.rows /\ t.rows[i].pk = pk
    BY <1>1, <1>3, AtFinds
  <2>2. t.rows \in Seq(Entry)
    BY DEF IsTable
  <2>3. PICK e : e = [pk |-> pk, row |-> Merge(t.rows[i].row, patch)]
    OBVIOUS
  <2>4. DOMAIN u.rows = DOMAIN t.rows /\ u.rows[i] = e /\ \A j \in DOMAIN t.rows : j # i => u.rows[j] = t.rows[j]
    BY <1>3, <2>1, <2>2, <2>3 DEF Patched
  <2>5. RowAt(u, pk) = Merge(t.rows[i].row, patch)
    <3>1. u.rows[i].pk = pk /\ u.rows[i].row = Merge(t.rows[i].row, patch) /\ i \in DOMAIN u.rows
      BY <2>1, <2>3, <2>4
    <3> QED
      BY <1>3, <3>1, RowFound
  <2>6. \A c \in DOMAIN patch : RowAt(u, pk)[c] = patch[c]
    BY <2>5 DEF Merge
  <2>7. ASSUME NEW k, k # pk PROVE Kept(t, u, k)
    <3>1. \A j \in DOMAIN t.rows : t.rows[j].pk = k => \E l \in DOMAIN u.rows : u.rows[l] = t.rows[j]
      BY <2>1, <2>4, <2>7
    <3>2. \A l \in DOMAIN u.rows : u.rows[l].pk = k => \E j \in DOMAIN t.rows : t.rows[j].pk = k
      BY <2>3, <2>4, <2>7
    <3> QED
      BY <1>3, <3>1, <3>2, KeptBy
  <2> QED
    BY <2>6, <2>7
<1>4. update(t, v, patch) # Threw(t)
  BY DEF Threw
<1> QED
  BY <1>1, <1>2, <1>3, <1>4, UpdateWorks

LEMMA DeleteTakes ==
    ASSUME NEW t, IsTable(t), NEW v, NEW pk, pk = encodePk(v),
           NEW u, u = delete(t, v).table, delete(t, v).res # "error"
    PROVE  pk \notin Keys(u) /\ \A k : k # pk => Kept(t, u, k)
<1>1. PICK i : i = At(t, pk)
  OBVIOUS
<1>2. CASE delete(t, v) = Gave(t, "false") /\ pk \notin Keys(t)
  <2>1. u = t
    BY <1>2 DEF Gave
  <2> QED
    BY <1>2, <2>1 DEF Kept
<1>3. CASE pk \in Keys(t) /\ IsTable(u) /\ u.rows = RemoveAt(t.rows, i)
  <2>1. i \in DOMAIN t.rows /\ t.rows[i].pk = pk
    BY <1>1, <1>3, AtFinds
  <2>2. t.rows \in Seq(Entry) /\ Apart(t.rows, DOMAIN t.rows)
    BY DEF IsTable
  <2>3. PICK f : Moves(f, u.rows, t.rows, i)
    BY <1>3, <2>1, <2>2, RemoveAtMoves
  <2>4. pk \notin Keys(u)
    <3>1. \A j \in DOMAIN u.rows : u.rows[j].pk # pk
      BY <2>1, <2>2, <2>3 DEF Moves, Apart
    <3> QED
      BY <3>1 DEF Keys
  <2>5. ASSUME NEW k, k # pk PROVE Kept(t, u, k)
    <3>1. ASSUME NEW j \in DOMAIN t.rows, t.rows[j].pk = k PROVE \E l \in DOMAIN u.rows : u.rows[l] = t.rows[j]
      <4>1. j # i
        BY <2>1, <2>5, <3>1
      <4>2. PICK l \in DOMAIN u.rows : j = f[l]
        BY <2>3, <4>1 DEF Moves
      <4>3. u.rows[l] = t.rows[f[l]]
        BY <2>3 DEF Moves
      <4> QED
        BY <4>2, <4>3
    <3>2. \A l \in DOMAIN u.rows : u.rows[l].pk = k => \E j \in DOMAIN t.rows : t.rows[j].pk = k
      BY <2>3 DEF Moves
    <3> QED
      BY <1>3, <3>1, <3>2, KeptBy
  <2> QED
    BY <2>4, <2>5
<1>4. delete(t, v) # Threw(t)
  BY DEF Threw
<1> QED
  BY <1>1, <1>2, <1>3, <1>4, DeleteWorks

\* An operation that returns did what it says, under its own key.
LEMMA OutcomeTakes ==
    ASSUME NEW t, IsTable(t), NEW op, IsOperation(op), Outcome(t, op).res # "error",
           NEW u, u = Outcome(t, op).table, NEW pk, pk = KeyOf(t.cols, op)
    PROVE  Took(u, op, pk) /\ \A k : k # pk => Kept(t, u, k)
<1>1. CASE op.kind = "insert"
  <2>1. PICK row : row = op.row
    OBVIOUS
  <2>2. row \in AllRows /\ Outcome(t, op) = insert(t, row) /\ pk = encodePk(Cell(row, PrimaryKey(t.cols)))
    BY <1>1, <2>1, RowIsRow DEF IsOperation, Outcome, KeyOf
  <2>3. pk \in Keys(u) /\ RowAt(u, pk) = row /\ \A k : k # pk => Kept(t, u, k)
    BY <2>2, InsertTakes
  <2> QED
    BY <1>1, <2>1, <2>3 DEF Took
<1>2. CASE op.kind = "update"
  <2>1. PICK v, patch : v = op.pk /\ patch = op.patch
    OBVIOUS
  <2>2. patch \in AllRows /\ Outcome(t, op) = update(t, v, patch) /\ pk = encodePk(v)
    BY <1>2, <2>1, RowIsRow DEF IsOperation, Outcome, KeyOf
  <2>3. /\ pk \in Keys(u) => \A c \in DOMAIN patch : RowAt(u, pk)[c] = patch[c]
        /\ \A k : k # pk => Kept(t, u, k)
    BY <2>2, UpdateTakes
  <2> QED
    BY <1>2, <2>1, <2>3 DEF Took
<1>3. CASE op.kind = "delete"
  <2>1. PICK v : v = op.pk
    OBVIOUS
  <2>2. Outcome(t, op) = delete(t, v) /\ pk = encodePk(v)
    BY <1>3, <2>1 DEF Outcome, KeyOf
  <2>3. pk \notin Keys(u) /\ \A k : k # pk => Kept(t, u, k)
    BY <2>2, DeleteTakes
  <2> QED
    BY <1>3, <2>3 DEF Took
<1> QED
  BY <1>1, <1>2, <1>3 DEF IsOperation

LEMMA KeptAfter ==
    ASSUME NEW t, NEW u, NEW w, NEW pk, Kept(u, w, pk)
    PROVE  /\ Kept(t, u, pk) => Kept(t, w, pk)
           /\ \A op : Took(u, op, pk) => Took(w, op, pk)
BY DEF Kept, Took

\* One more operation of a batch.
LEMMA DoneStep ==
    ASSUME NEW tabs, IsTables(tabs), NEW batch, IsBatch(batch), NEW k \in Nat, k + 1 <= Len(batch),
           NEW a, a = Done(tabs, batch)[k], NEW b, b = Done(tabs, batch)[k + 1], NEW op, op = batch[k + 1]
    PROVE  /\ IsTables(a.tables) /\ SameTables(tabs, a.tables) /\ a.res \in {"ok", "error"}
           /\ IsTables(b.tables) /\ SameTables(tabs, b.tables) /\ b.res \in {"ok", "error"}
           /\ IsOperation(op) /\ b = Then(a, op)
<1>1. Len(batch) \in Nat /\ k \in 0 .. Len(batch) /\ k + 1 \in 1 .. Len(batch) /\ k + 1 \in 0 .. Len(batch)
      /\ (k + 1) - 1 = k
  BY DEF IsBatch
<1>2. Done(tabs, batch)[k + 1] = Then(Done(tabs, batch)[(k + 1) - 1], batch[k + 1])
  BY <1>1, DoneEquation
<1>3. IsOperation(op)
  BY <1>1 DEF IsBatch
<1> QED
  BY <1>1, <1>2, <1>3, DoneWorks

\* A batch that throws leaves what it had done before.
LEMMA DoneFails ==
    ASSUME NEW tabs, IsTables(tabs), NEW batch, IsBatch(batch), Run(tabs, batch).res = "error"
    PROVE  \E k \in 0 .. Len(batch) - 1 : Run(tabs, batch).tables = Done(tabs, batch)[k].tables
<1> DEFINE done == Done(tabs, batch)
           Good(k) == done[k].res = "error" => \E j \in 0 .. k - 1 : done[k].tables = done[j].tables
           S == {k \in Nat : k <= Len(batch) => Good(k)}
<1>0. Len(batch) \in Nat
  BY DEF IsBatch
<1>1. 0 \in S
  <2>1. done[0] = Start(tabs)
    BY <1>0, DoneEquation
  <2>2. Good(0)
    BY <2>1 DEF Start
  <2> QED
    BY <2>2
<1>2. ASSUME NEW k \in S PROVE k + 1 \in S
  <2> SUFFICES ASSUME k + 1 <= Len(batch), done[k + 1].res = "error"
               PROVE  \E j \in 0 .. (k + 1) - 1 : done[k + 1].tables = done[j].tables
    OBVIOUS
  <2>1. Good(k) /\ k \in Nat
    BY <1>0, <1>2
  <2>2. PICK a, b, op : a = done[k] /\ b = done[k + 1] /\ op = batch[k + 1]
    OBVIOUS
  <2>3. IsTables(a.tables) /\ IsOperation(op) /\ b = Then(a, op)
    BY <2>1, <2>2, DoneStep
  <2>4. PICK out : out = Perform(a.tables, op)
    OBVIOUS
  <2>5. CASE a.res = "error"
    <3>1. b = a
      BY <2>3, <2>4, <2>5, ThenWorks
    <3>2. PICK j \in 0 .. k - 1 : done[k].tables = done[j].tables
      BY <2>1, <2>2, <2>5
    <3>3. j \in 0 .. (k + 1) - 1 /\ done[k + 1].tables = done[j].tables
      BY <2>1, <2>2, <3>1, <3>2
    <3> QED
      BY <3>3
  <2>6. CASE a.res # "error"
    <3>1. b.tables = out.tables /\ out.res = "error"
      BY <2>2, <2>3, <2>4, <2>6, ThenWorks
    <3>2. out.tables = a.tables
      BY <2>3, <2>4, <3>1, PerformWorks
    <3>3. k \in 0 .. (k + 1) - 1 /\ done[k + 1].tables = done[k].tables
      BY <2>1, <2>2, <3>1, <3>2
    <3> QED
      BY <3>3
  <2> QED
    BY <2>5, <2>6
<1> HIDE DEF S
<1>3. \A k \in Nat : k \in S
  <2>1. S \subseteq Nat
    BY DEF S
  <2> QED
    BY <1>1, <1>2, <2>1, InductionOnSets
<1>4. Good(Len(batch))
  BY <1>0, <1>3 DEF S
<1> QED
  BY <1>4 DEF Run

\* A prefix of a batch, alone, does what it does in the batch.
LEMMA PrefixRuns ==
    ASSUME NEW tabs, NEW batch, Len(batch) \in Nat, NEW head, NEW n \in Nat, n <= Len(batch), Len(head) = n,
           \A i \in 1 .. n : head[i] = batch[i]
    PROVE  Run(tabs, head) = Done(tabs, batch)[n]
<1> DEFINE S == {k \in Nat : k <= n => Done(tabs, head)[k] = Done(tabs, batch)[k]}
<1>1. 0 \in S
  <2>1. Done(tabs, head)[0] = Start(tabs) /\ Done(tabs, batch)[0] = Start(tabs)
    BY DoneEquation
  <2> QED
    BY <2>1
<1>2. ASSUME NEW k \in S PROVE k + 1 \in S
  <2> SUFFICES ASSUME k + 1 <= n PROVE Done(tabs, head)[k + 1] = Done(tabs, batch)[k + 1]
    OBVIOUS
  <2>1. k + 1 \in 1 .. Len(head) /\ k + 1 \in 1 .. Len(batch) /\ (k + 1) - 1 = k /\ head[k + 1] = batch[k + 1]
    BY <1>2
  <2>2. Done(tabs, head)[k] = Done(tabs, batch)[k]
    BY <1>2
  <2>3. Done(tabs, head)[k + 1] = Then(Done(tabs, head)[(k + 1) - 1], head[k + 1])
    BY ZenonT(60), <2>1, DoneEquation
  <2>4. Done(tabs, batch)[k + 1] = Then(Done(tabs, batch)[(k + 1) - 1], batch[k + 1])
    BY <2>1, DoneEquation
  <2> QED
    BY <2>1, <2>2, <2>3, <2>4
<1> HIDE DEF S
<1>3. \A k \in Nat : k \in S
  <2>1. S \subseteq Nat
    BY DEF S
  <2> QED
    BY <1>1, <1>2, <2>1, InductionOnSets
<1>4. Done(tabs, head)[n] = Done(tabs, batch)[n]
  BY <1>3 DEF S
<1> QED
  BY <1>4 DEF Run

\* The operations among the first k about key pk of table n.
About(tabs, op, n, pk) == op.table = n /\ KeyOf(tabs[n].cols, op) = pk
Naming(tabs, batch, k, n, pk) == {i \in 1 .. k : About(tabs, batch[i], n, pk)}

\* t became u: untouched where nothing names pk, else as the last one naming it says.
Settled(t, u, batch, named, pk) ==
    /\ named = {} => Kept(t, u, pk)
    /\ \A i \in named : (\A j \in named : j <= i) => Took(u, batch[i], pk)

\* A batch that returns did what its last operation on each key says.
LEMMA BatchSettles ==
    ASSUME NEW tabs, IsTables(tabs), NEW batch, IsBatch(batch), Run(tabs, batch).res # "error",
           NEW n \in DOMAIN tabs, NEW pk
    PROVE  Settled(tabs[n], Run(tabs, batch).tables[n], batch, Naming(tabs, batch, Len(batch), n, pk), pk)
<1> DEFINE done == Done(tabs, batch)
           Good(k) == done[k].res # "error" => Settled(tabs[n], done[k].tables[n], batch, Naming(tabs, batch, k, n, pk), pk)
           S == {k \in Nat : k <= Len(batch) => Good(k)}
<1>0. Len(batch) \in Nat
  BY DEF IsBatch
<1>1. 0 \in S
  <2>1. done[0] = Start(tabs)
    BY <1>0, DoneEquation
  <2>2. done[0].tables[n] = tabs[n] /\ Naming(tabs, batch, 0, n, pk) = {}
    BY <2>1 DEF Start, Naming
  <2>3. Settled(tabs[n], tabs[n], batch, {}, pk)
    BY DEF Settled, Kept
  <2>4. Good(0)
    BY <2>2, <2>3
  <2> QED
    BY <2>4
<1>2. ASSUME NEW k \in S PROVE k + 1 \in S
  <2> SUFFICES ASSUME k + 1 <= Len(batch), done[k + 1].res # "error"
               PROVE  Settled(tabs[n], done[k + 1].tables[n], batch, Naming(tabs, batch, k + 1, n, pk), pk)
    OBVIOUS
  <2>1. Good(k) /\ k \in Nat
    BY <1>0, <1>2
  <2>2. PICK a, b, op : a = done[k] /\ b = done[k + 1] /\ op = batch[k + 1]
    OBVIOUS
  <2>3. IsTables(a.tables) /\ SameTables(tabs, a.tables) /\ IsOperation(op) /\ b = Then(a, op)
    BY <2>1, <2>2, DoneStep
  <2>4. PICK out : out = Perform(a.tables, op)
    OBVIOUS
  <2>5. a.res # "error" /\ b.tables = out.tables /\ out.res # "error"
    BY <2>2, <2>3, <2>4, ThenWorks
  <2>6. /\ op.table \in DOMAIN a.tables
        /\ out.res = Outcome(a.tables[op.table], op).res
        /\ out.tables[op.table] = Outcome(a.tables[op.table], op).table
        /\ \A m \in DOMAIN a.tables : m # op.table => out.tables[m] = a.tables[m]
    BY <2>3, <2>4, <2>5, PerformWorks
  <2>7. PICK t, u, w, old, new : /\ t = tabs[n] /\ u = a.tables[n] /\ w = b.tables[n]
                                 /\ old = Naming(tabs, batch, k, n, pk) /\ new = Naming(tabs, batch, k + 1, n, pk)
    OBVIOUS
  <2>8. Settled(t, u, batch, old, pk)
    BY <2>1, <2>2, <2>5, <2>7
  <2>9. n \in DOMAIN a.tables /\ IsTable(u) /\ u.cols = t.cols
    BY <2>3, <2>7 DEF IsTables, SameTables
  <2>10. /\ old \subseteq 1 .. k
         /\ About(tabs, op, n, pk) => new = old \cup {k + 1}
         /\ ~About(tabs, op, n, pk) => new = old
    <3>1. 1 .. k + 1 = (1 .. k) \cup {k + 1}
      BY <2>1
    <3> QED
      BY <2>2, <2>7, <3>1 DEF Naming
  <2>11. op.table = n => Took(w, op, KeyOf(t.cols, op)) /\ \A x : x # KeyOf(t.cols, op) => Kept(u, w, x)
    <3> SUFFICES ASSUME op.table = n PROVE Took(w, op, KeyOf(t.cols, op)) /\ \A x : x # KeyOf(t.cols, op) => Kept(u, w, x)
      OBVIOUS
    <3>1. Outcome(u, op).res # "error" /\ w = Outcome(u, op).table
      BY <2>5, <2>6, <2>7
    <3>2. PICK x : x = KeyOf(u.cols, op)
      OBVIOUS
    <3>3. IsTable(u) /\ IsOperation(op) /\ Outcome(u, op).res # "error" /\ w = Outcome(u, op).table
      BY <2>3, <2>9, <3>1
    <3>4. Took(w, op, x) /\ \A y : y # x => Kept(u, w, y)
      BY <3>2, <3>3, OutcomeTakes
    <3> QED
      BY <2>9, <3>2, <3>4
  <2>12. Settled(t, w, batch, new, pk)
    <3>1. CASE About(tabs, op, n, pk)
      <4>1. Took(w, op, pk) /\ new = old \cup {k + 1} /\ old \subseteq 1 .. k /\ op = batch[k + 1]
        BY <2>2, <2>7, <2>10, <2>11, <3>1 DEF About
      <4>2. ASSUME NEW i \in new, \A j \in new : j <= i PROVE i = k + 1
        <5>1. k + 1 <= i /\ (i = k + 1 \/ i \in 1 .. k)
          BY <4>1, <4>2
        <5> QED
          BY <2>1, <5>1
      <4>3. new # {}
        BY <4>1
      <4> QED
        BY <4>1, <4>2, <4>3 DEF Settled
    <3>2. CASE ~About(tabs, op, n, pk)
      <4>1. Kept(u, w, pk)
        <5>1. CASE op.table = n
          BY <2>7, <2>11, <3>2, <5>1 DEF About
        <5>2. CASE op.table # n
          <6>1. w = u
            BY <2>5, <2>6, <2>7, <2>9, <5>2
          <6> QED
            BY <6>1 DEF Kept
        <5> QED
          BY <5>1, <5>2
      <4>2. new = old
        BY <2>10, <3>2
      <4> QED
        BY <2>8, <4>1, <4>2, KeptAfter DEF Settled
    <3> QED
      BY <3>1, <3>2
  <2> QED
    BY <2>2, <2>7, <2>12
<1> HIDE DEF S
<1>3. \A k \in Nat : k \in S
  <2>1. S \subseteq Nat
    BY DEF S
  <2> QED
    BY <1>1, <1>2, <2>1, InductionOnSets
<1>4. Good(Len(batch))
  BY <1>0, <1>3 DEF S
<1> QED
  BY <1>4 DEF Run

\* The buffer is a batch; an operation's key does not depend on the rows.
LEMMA BufferIsBatch ==
    ASSUME RelInv
    PROVE  /\ IsTables(tables) /\ IsBatch(ops) /\ Len(ops) \in Nat /\ DOMAIN ops = 1 .. Len(ops)
           /\ \A op : TxPk(op) = KeyOf(tables[op.table].cols, op)
<1>1. ops \in Seq(use.txOps) /\ \A op \in use.txOps : IsOperation(op)
  BY SessionFacts DEF RelInv, VarsTyped
<1>2. Len(ops) \in Nat /\ DOMAIN ops = 1 .. Len(ops) /\ \A i \in 1 .. Len(ops) : ops[i] \in use.txOps
  BY <1>1
<1>3. IsBatch(ops)
  BY <1>1, <1>2 DEF IsBatch
<1>4. \A op : TxPk(op) = KeyOf(tables[op.table].cols, op)
  BY DEF TxPk, InsertedPk, KeyOf, encodePk
<1> QED
  BY <1>2, <1>3, <1>4 DEF RelInv, CatalogInv, IsCatalog, Database

LEMMA CommitThrows ==
    ASSUME RelInv, Commit, ops' # <<>>
    PROVE  \E k \in 0 .. Len(ops) - 1 : (k > 0 => PrePass(ops)) /\ tables' = Run(tables, SubSeq(ops, 1, k)).tables
<1>1. PICK batch : batch = ops
  OBVIOUS
<1>2. IsTables(tables) /\ IsBatch(batch) /\ Len(batch) \in Nat /\ DOMAIN batch = 1 .. Len(batch) /\ batch # <<>>
  BY <1>1, BufferIsBatch DEF Commit
<1>3. batch \in Seq(use.txOps)
  BY <1>1 DEF RelInv, VarsTyped
<1>4. Len(batch) > 0
  BY <1>2, <1>3
<1>5. ASSUME NEW k \in 0 .. Len(batch) - 1 PROVE Run(tables, SubSeq(batch, 1, k)) = Done(tables, batch)[k]
  <2>1. k \in Nat /\ k <= Len(batch)
    BY <1>2, <1>5
  <2>2. Len(SubSeq(batch, 1, k)) = k /\ \A i \in 1 .. k : SubSeq(batch, 1, k)[i] = batch[i]
    BY <1>2, <1>3, <2>1
  <2>3. PICK head : head = SubSeq(batch, 1, k)
    OBVIOUS
  <2> QED
    BY <1>2, <2>1, <2>2, <2>3, PrefixRuns
<1>6. CASE PrePass(ops)
  <2>1. Run(tables, batch).res = "error" /\ tables' = Run(tables, batch).tables
    BY <1>1, <1>6 DEF Commit
  <2>2. PICK k \in 0 .. Len(batch) - 1 : Run(tables, batch).tables = Done(tables, batch)[k].tables
    BY <1>2, <2>1, DoneFails
  <2> QED
    BY <1>1, <1>5, <1>6, <2>1, <2>2
<1>7. CASE ~PrePass(ops)
  <2>1. tables' = tables
    BY <1>7 DEF Commit
  <2>2. Done(tables, batch)[0] = Start(tables) /\ Start(tables).tables = tables
    BY <1>2, DoneEquation DEF Start
  <2>3. 0 \in 0 .. Len(batch) - 1
    BY <1>2, <1>4
  <2>4. Run(tables, SubSeq(batch, 1, 0)).tables = tables
    BY <1>5, <2>2, <2>3
  <2> QED
    BY <1>1, <2>1, <2>3, <2>4
<1> QED
  BY <1>6, <1>7

LEMMA CommitReturns ==
    ASSUME RelInv, Commit, ops' = <<>>, NEW n \in DOMAIN tables, NEW pk, NEW named,
           named = {i \in DOMAIN ops : ops[i].table = n /\ TxPk(ops[i]) = pk}
    PROVE  /\ named = {} => Kept(tables[n], tables'[n], pk)
           /\ named # {} => Max(named) \in DOMAIN ops /\ Took(tables'[n], ops[Max(named)], pk)
<1>1. PICK batch, out : batch = ops /\ out = Run(tables, batch)
  OBVIOUS
<1>2. /\ IsTables(tables) /\ IsBatch(batch) /\ Len(batch) \in Nat /\ DOMAIN batch = 1 .. Len(batch)
      /\ \A op : TxPk(op) = KeyOf(tables[op.table].cols, op)
  BY <1>1, BufferIsBatch
<1>3. out.res # "error" /\ tables' = out.tables
  BY <1>1 DEF Commit
<1>4. named = Naming(tables, batch, Len(batch), n, pk)
  BY <1>1, <1>2 DEF Naming, About
<1>5. Settled(tables[n], out.tables[n], batch, named, pk)
  BY <1>1, <1>2, <1>3, <1>4, BatchSettles
<1>6. ASSUME named # {} PROVE Max(named) \in DOMAIN ops /\ Took(tables'[n], ops[Max(named)], pk)
  <2>1. named \subseteq 1 .. Len(batch)
    BY <1>1, <1>2
  <2>2. Max(named) \in named /\ \A j \in named : j <= Max(named)
    BY <1>2, <1>6, <2>1, MaxPosition
  <2> QED
    BY <1>1, <1>2, <1>3, <1>5, <2>1, <2>2 DEF Settled
<1> QED
  BY <1>3, <1>5, <1>6 DEF Settled

\* A commit that returns did what its last operation on each key says and
\* touched no row the batch does not name; one that throws leaves the effect of
\* a proper prefix, of nothing if the pre-pass refused (commit of transaction.ts).
THEOREM CommitsAreExact == Spec => CommitEffects
<1>1. ASSUME RelInv, Commit, ops' = <<>>, NEW n \in DOMAIN tables, NEW pk PROVE LastWordOn(n, pk)
  <2>1. PICK named, final, u : /\ named = {i \in DOMAIN ops : ops[i].table = n /\ TxPk(ops[i]) = pk}
                               /\ final = ops[Max(named)] /\ u = tables'[n]
    OBVIOUS
  <2>2. named = {} => Kept(tables[n], u, pk)
    BY <1>1, <2>1, CommitReturns
  <2>3. named # {} => Max(named) \in DOMAIN ops /\ Took(u, final, pk)
    BY <1>1, <2>1, CommitReturns
  <2>4. named # {} => final.kind \in {"insert", "update", "delete"}
    BY <1>1, <2>1, <2>3, BufferIsBatch DEF IsBatch, IsOperation
  <2>5. PICK now : now = RowAt(u, pk)
    OBVIOUS
  <2>6. LastWordOn(n, pk) <=>
          IF named = {}
          THEN /\ pk \in Keys(tables[n]) <=> pk \in Keys(u)
               /\ pk \in Keys(tables[n]) => now = RowAt(tables[n], pk)
          ELSE CASE final.kind = "delete" -> pk \notin Keys(u)
                 [] final.kind = "insert" -> pk \in Keys(u) /\ now = final.row
                 [] final.kind = "update" -> pk \in Keys(u) => \A c \in DOMAIN final.patch : now[c] = final.patch[c]
    BY <2>1, <2>5 DEF LastWordOn, RowAt
  <2>7. CASE named = {}
    BY <2>2, <2>5, <2>6, <2>7 DEF Kept
  <2>8. CASE named # {}
    BY <2>3, <2>4, <2>5, <2>6, <2>8 DEF Took
  <2> QED
    BY <2>7, <2>8
<1>2. ASSUME RelInv, Commit, ops' # <<>> PROVE ProperPrefix
  BY <1>2, CommitThrows DEF ProperPrefix
<1>3. RelInv /\ [Next]_vars =>
        [/\ Commit /\ ops' # <<>> => ProperPrefix
         /\ Commit /\ ops' = <<>> =>
              \A n \in DOMAIN tables :
                \A pk \in Keys(tables[n]) \cup Keys(tables'[n]) \cup {TxPk(o) : o \in Range(ops)} :
                  LastWordOn(n, pk)]_vars
  BY <1>1, <1>2
<1> QED
  BY <1>3, RelationalInvariant, PTL DEF Spec, CommitEffects

-----------------------------------------------------------------------------
(* Columns against rows.                                                   *)

Zero == [sum |-> 0, count |-> 0, min |-> 0, max |-> 0]
\* The aggregation of rows goes through g.
Adding(g, rows, col) ==
    g[0] = Zero /\ \A k \in 1 .. Len(rows) : g[k] = Add(g[k - 1], Cell(rows[k], col))

LEMMA AccumulatedLoop ==
    ASSUME NEW rows \in Seq(AllRows), NEW col
    PROVE  \E g : Adding(g, rows, col) /\ g[Len(rows)] = Accumulated(rows, col)
<1> DEFINE n == Len(rows)
           body(g) == [k \in 0 .. n |-> IF k = 0 THEN [sum |-> 0, count |-> 0, min |-> 0, max |-> 0]
                                        ELSE Add(g[k - 1], Cell(rows[k], col))]
           acc == CHOOSE g : g = body(g)
<1>1. n \in Nat
  OBVIOUS
<1> DEFINE Upto(g, m) == /\ g = [k \in 0 .. m |-> g[k]] /\ g[0] = Zero
                         /\ \A k \in 1 .. m : g[k] = Add(g[k - 1], Cell(rows[k], col))
           T == {m \in Nat : \E g : Upto(g, m)}
<1>2. \A m \in Nat : m \in T
  <2>1. 0 \in T
    <3>1. PICK g : g = [k \in 0 .. 0 |-> Zero]
      OBVIOUS
    <3>2. g[0] = Zero /\ g = [k \in 0 .. 0 |-> g[k]]
      BY <3>1
    <3> QED
      BY <3>2
  <2>2. ASSUME NEW m \in T PROVE m + 1 \in T
    <3>1. m \in Nat
      BY <2>2
    <3>2. PICK g : Upto(g, m)
      BY <2>2
    <3>3. PICK x : x = Add(g[m], Cell(rows[m + 1], col))
      OBVIOUS
    <3>4. PICK e : e = [k \in 0 .. m + 1 |-> IF k = m + 1 THEN x ELSE g[k]]
      OBVIOUS
    <3>5. e[m + 1] = x /\ \A k \in 0 .. m : e[k] = g[k]
      BY <3>1, <3>4
    <3>6. ASSUME NEW k \in 1 .. m + 1 PROVE e[k] = Add(e[k - 1], Cell(rows[k], col))
      <4>1. CASE k = m + 1
        <5>1. k - 1 = m /\ m \in 0 .. m
          BY <3>1, <4>1
        <5> QED
          BY <3>3, <3>5, <4>1, <5>1
      <4>2. CASE k # m + 1
        <5>1. k \in 1 .. m /\ k \in 0 .. m /\ k - 1 \in 0 .. m
          BY <3>1, <4>2
        <5> QED
          BY <3>2, <3>5, <5>1
      <4> QED
        BY <4>1, <4>2
    <3>7. e = [k \in 0 .. m + 1 |-> e[k]] /\ e[0] = Zero
      <4>1. 0 \in 0 .. m
        BY <3>1
      <4> QED
        BY <3>2, <3>4, <3>5, <4>1
    <3>8. Upto(e, m + 1)
      BY <3>6, <3>7
    <3> HIDE DEF Upto
    <3> QED
      BY <3>1, <3>8
  <2> HIDE DEF T
  <2>3. T \subseteq Nat
    BY DEF T
  <2> QED
    BY <2>1, <2>2, <2>3, InductionOnSets
<1>3. PICK g : Upto(g, n)
  BY <1>1, <1>2
<1> HIDE DEF n
<1> DEFINE value(h, k) == IF k = 0 THEN Zero ELSE Add(h[k - 1], Cell(rows[k], col))
<1>4. g = body(g)
  <2>1. g = [k \in 0 .. n |-> g[k]] /\ g[0] = Zero
    BY <1>3
  <2>2. ASSUME NEW k \in 1 .. n PROVE g[k] = Add(g[k - 1], Cell(rows[k], col))
    BY <1>3
  <2>3. ASSUME NEW k \in 0 .. n PROVE g[k] = value(g, k)
    <3>1. CASE k = 0
      BY <2>1, <3>1
    <3>2. CASE k # 0
      <4>1. k \in 1 .. n
        BY <1>1, <3>2
      <4> QED
        BY <2>2, <3>2, <4>1
    <3> QED
      BY <3>1, <3>2
  <2> HIDE DEF value
  <2>4. g = [k \in 0 .. n |-> value(g, k)]
    BY <2>1, <2>3, Zenon
  <2> QED
    BY <2>4 DEF value, Zero
<1>5. acc = body(acc)
  <2> HIDE DEF body
  <2> QED
    BY <1>4
<1>6. Accumulated(rows, col) = acc[n]
  BY DEF Accumulated, n
<1> HIDE DEF acc
<1>7. acc = [k \in 0 .. n |-> value(acc, k)]
  BY <1>5 DEF Zero
<1>8. acc[0] = Zero /\ \A k \in 1 .. n : acc[k] = Add(acc[k - 1], Cell(rows[k], col))
  <2>1. \A k \in 0 .. n : acc[k] = value(acc, k)
    <3> HIDE DEF value
    <3> QED
      BY <1>7
  <2> QED
    BY <1>1, <2>1
<1> QED
  BY <1>6, <1>8 DEF Adding, n

\* The sum of cells goes through g.
Summing(g, cells) ==
    g[0] = [sum |-> 0, c |-> 0] /\ \A k \in 1 .. Len(cells) : g[k] = KahanStep(g[k - 1], cells[k])

NumCells == [t : {"num"}, v : Int]

LEMMA CellNumber ==
    ASSUME NEW v \in Cells
    PROVE  v.t = "num" => v = Num(v.v) /\ v \in NumCells /\ v.v \in CellNumbers /\ v.v \in Int
BY TextAssumption DEF Cells, NumCells, Num, Str, Null, Undef

LEMMA KahanLoop ==
    ASSUME NEW cells \in Seq(NumCells)
    PROVE  \E g : Summing(g, cells) /\ KahanSum(cells) = Num(g[Len(cells)].sum)
<1> DEFINE n == Len(cells)
           zero == [sum |-> 0, c |-> 0]
           body(g) == [k \in 0 .. n |-> IF k = 0 THEN [sum |-> 0, c |-> 0] ELSE KahanStep(g[k - 1], cells[k])]
           acc == CHOOSE g : g = body(g)
<1>1. n \in Nat
  OBVIOUS
<1> HIDE DEF zero
<1> DEFINE Upto(g, m) == /\ g = [k \in 0 .. m |-> g[k]] /\ g[0] = zero
                         /\ \A k \in 1 .. m : g[k] = KahanStep(g[k - 1], cells[k])
           T == {m \in Nat : \E g : Upto(g, m)}
<1>2. \A m \in Nat : m \in T
  <2>1. 0 \in T
    <3>1. PICK g : g = [k \in 0 .. 0 |-> zero]
      OBVIOUS
    <3>2. g[0] = zero /\ g = [k \in 0 .. 0 |-> g[k]]
      BY <3>1
    <3> QED
      BY <3>2
  <2>2. ASSUME NEW m \in T PROVE m + 1 \in T
    <3>1. m \in Nat
      BY <2>2
    <3>2. PICK g : Upto(g, m)
      BY <2>2
    <3>3. PICK x : x = KahanStep(g[m], cells[m + 1])
      OBVIOUS
    <3>4. PICK e : e = [k \in 0 .. m + 1 |-> IF k = m + 1 THEN x ELSE g[k]]
      OBVIOUS
    <3>5. e[m + 1] = x /\ \A k \in 0 .. m : e[k] = g[k]
      BY <3>1, <3>4
    <3>6. ASSUME NEW k \in 1 .. m + 1 PROVE e[k] = KahanStep(e[k - 1], cells[k])
      <4>1. CASE k = m + 1
        <5>1. k - 1 = m /\ m \in 0 .. m
          BY <3>1, <4>1
        <5> QED
          BY <3>3, <3>5, <4>1, <5>1
      <4>2. CASE k # m + 1
        <5>1. k \in 1 .. m /\ k \in 0 .. m /\ k - 1 \in 0 .. m
          BY <3>1, <4>2
        <5> QED
          BY <3>2, <3>5, <5>1
      <4> QED
        BY <4>1, <4>2
    <3>7. e = [k \in 0 .. m + 1 |-> e[k]] /\ e[0] = zero
      <4>1. 0 \in 0 .. m
        BY <3>1
      <4> QED
        BY <3>2, <3>4, <3>5, <4>1
    <3>8. Upto(e, m + 1)
      BY <3>6, <3>7
    <3> HIDE DEF Upto
    <3> QED
      BY <3>1, <3>8
  <2> HIDE DEF T
  <2>3. T \subseteq Nat
    BY DEF T
  <2> QED
    BY <2>1, <2>2, <2>3, InductionOnSets
<1>3. PICK g : Upto(g, n)
  BY <1>1, <1>2
<1> HIDE DEF n
<1> USE DEF zero
<1> DEFINE value(h, k) == IF k = 0 THEN zero ELSE KahanStep(h[k - 1], cells[k])
<1>4. g = body(g)
  <2>1. g = [k \in 0 .. n |-> g[k]] /\ g[0] = zero
    BY <1>3
  <2>2. ASSUME NEW k \in 1 .. n PROVE g[k] = KahanStep(g[k - 1], cells[k])
    BY <1>3
  <2>3. ASSUME NEW k \in 0 .. n PROVE g[k] = value(g, k)
    <3>1. CASE k = 0
      BY <2>1, <3>1
    <3>2. CASE k # 0
      <4>1. k \in 1 .. n
        BY <1>1, <3>2
      <4> QED
        BY <2>2, <3>2, <4>1
    <3> QED
      BY <3>1, <3>2
  <2> HIDE DEF value
  <2>4. g = [k \in 0 .. n |-> value(g, k)]
    BY <2>1, <2>3, Zenon
  <2> QED
    BY <2>4 DEF value
<1>5. acc = body(acc)
  <2> HIDE DEF body
  <2> QED
    BY <1>4
<1>6. NaN \notin Range(cells)
  <2>1. \A x \in NumCells : x # NaN
    BY DEF NumCells, NaN
  <2> QED
    BY <2>1 DEF Range
<1>7. KahanSum(cells) = Num(acc[n].sum)
  BY <1>6 DEF KahanSum, n
<1> HIDE DEF acc
<1>8. acc = [k \in 0 .. n |-> value(acc, k)]
  BY <1>5
<1>9. acc[0] = zero /\ \A k \in 1 .. n : acc[k] = KahanStep(acc[k - 1], cells[k])
  <2>1. \A k \in 0 .. n : acc[k] = value(acc, k)
    <3> HIDE DEF value
    <3> QED
      BY <1>8
  <2> QED
    BY <1>1, <2>1
<1> QED
  BY <1>7, <1>9 DEF Summing, n

\* The weight of a column goes through g.
CellWeight(row, col) == IF Cell(row, col).t = "num" THEN Magnitude(Cell(row, col).v) ELSE 0
Weighing(g, rows, col) ==
    g[0] = 0 /\ \A k \in 1 .. Len(rows) : g[k] = g[k - 1] + CellWeight(rows[k], col)

LEMMA WeightLoop ==
    ASSUME NEW rows \in Seq(AllRows), NEW col
    PROVE  \E g : Weighing(g, rows, col) /\ g[Len(rows)] = Weight(rows, col)
<1> DEFINE n == Len(rows)
           body(g) == [k \in 0 .. n |-> IF k = 0 THEN 0
                                        ELSE g[k - 1] + (IF Cell(rows[k], col).t = "num" THEN Magnitude(Cell(rows[k], col).v) ELSE 0)]
           wt == CHOOSE g : g = body(g)
<1>1. n \in Nat
  OBVIOUS
<1> DEFINE Upto(g, m) == /\ g = [k \in 0 .. m |-> g[k]] /\ g[0] = 0
                         /\ \A k \in 1 .. m : g[k] = g[k - 1] + CellWeight(rows[k], col)
           T == {m \in Nat : \E g : Upto(g, m)}
<1>2. \A m \in Nat : m \in T
  <2>1. 0 \in T
    <3>1. PICK g : g = [k \in 0 .. 0 |-> 0]
      OBVIOUS
    <3>2. g[0] = 0 /\ g = [k \in 0 .. 0 |-> g[k]]
      BY <3>1
    <3> QED
      BY <3>2
  <2>2. ASSUME NEW m \in T PROVE m + 1 \in T
    <3>1. m \in Nat
      BY <2>2
    <3>2. PICK g : Upto(g, m)
      BY <2>2
    <3>3. PICK x : x = g[m] + CellWeight(rows[m + 1], col)
      OBVIOUS
    <3>4. PICK e : e = [k \in 0 .. m + 1 |-> IF k = m + 1 THEN x ELSE g[k]]
      OBVIOUS
    <3>5. e[m + 1] = x /\ \A k \in 0 .. m : e[k] = g[k]
      BY <3>1, <3>4
    <3>6. ASSUME NEW k \in 1 .. m + 1 PROVE e[k] = e[k - 1] + CellWeight(rows[k], col)
      <4>1. CASE k = m + 1
        <5>1. k - 1 = m /\ m \in 0 .. m
          BY <3>1, <4>1
        <5> QED
          BY <3>3, <3>5, <4>1, <5>1
      <4>2. CASE k # m + 1
        <5>1. k \in 1 .. m /\ k \in 0 .. m /\ k - 1 \in 0 .. m
          BY <3>1, <4>2
        <5> QED
          BY <3>2, <3>5, <5>1
      <4> QED
        BY <4>1, <4>2
    <3>7. e = [k \in 0 .. m + 1 |-> e[k]] /\ e[0] = 0
      <4>1. 0 \in 0 .. m
        BY <3>1
      <4> QED
        BY <3>2, <3>4, <3>5, <4>1
    <3>8. Upto(e, m + 1)
      BY <3>6, <3>7
    <3> HIDE DEF Upto
    <3> QED
      BY <3>1, <3>8
  <2> HIDE DEF T
  <2>3. T \subseteq Nat
    BY DEF T
  <2> QED
    BY <2>1, <2>2, <2>3, InductionOnSets
<1>3. PICK g : Upto(g, n)
  BY <1>1, <1>2
<1> HIDE DEF n
<1> DEFINE value(h, k) == IF k = 0 THEN 0 ELSE h[k - 1] + CellWeight(rows[k], col)
<1>4. g = body(g)
  <2>1. g = [k \in 0 .. n |-> g[k]] /\ g[0] = 0
    BY <1>3
  <2>2. ASSUME NEW k \in 1 .. n PROVE g[k] = g[k - 1] + CellWeight(rows[k], col)
    BY <1>3
  <2>3. ASSUME NEW k \in 0 .. n PROVE g[k] = value(g, k)
    <3>1. CASE k = 0
      BY <2>1, <3>1
    <3>2. CASE k # 0
      <4>1. k \in 1 .. n
        BY <1>1, <3>2
      <4> QED
        BY <2>2, <3>2, <4>1
    <3> QED
      BY <3>1, <3>2
  <2> HIDE DEF value
  <2>4. g = [k \in 0 .. n |-> value(g, k)]
    BY <2>1, <2>3, Zenon
  <2> QED
    BY <2>4 DEF value, CellWeight
<1>5. wt = body(wt)
  <2> HIDE DEF body
  <2> QED
    BY <1>4
<1>6. Weight(rows, col) = wt[n]
  BY DEF Weight, n
<1> HIDE DEF wt
<1>7. wt = [k \in 0 .. n |-> value(wt, k)]
  BY <1>5 DEF CellWeight
<1>8. wt[0] = 0 /\ \A k \in 1 .. n : wt[k] = wt[k - 1] + CellWeight(rows[k], col)
  <2>1. \A k \in 0 .. n : wt[k] = value(wt, k)
    <3> HIDE DEF value
    <3> QED
      BY <1>7
  <2> QED
    BY <1>1, <2>1
<1> QED
  BY <1>6, <1>8 DEF Weighing, n

\* A sum that is no larger than Exact is not rounded.
LEMMA SmallSums ==
    ASSUME NEW s \in Int, NEW v \in Int, NEW w \in Nat, Magnitude(s) <= w, w + Magnitude(v) <= Exact
    PROVE  /\ Rounded(s + v) = s + v /\ Magnitude(s + v) <= w + Magnitude(v)
           /\ KahanStep([sum |-> s, c |-> 0], Num(v)) = [sum |-> s + v, c |-> 0]
<1>1. Exact \in Nat /\ Magnitude(v) \in Nat
  BY WordAssumption DEF Magnitude
<1>2. Magnitude(s + v) <= w + Magnitude(v) /\ Magnitude(s + v) <= Exact /\ Magnitude(v) <= Exact
  BY <1>1 DEF Magnitude
<1>3. Rounded(s + v) = s + v /\ Rounded(v) = v
  BY <1>2 DEF Rounded
<1>4. v - 0 = v /\ (s + v) - s = v /\ v - v = 0
  OBVIOUS
<1>5. Rounded(0) = 0
  BY <1>1 DEF Rounded, Magnitude
<1>6. KahanStep([sum |-> s, c |-> 0], Num(v)) = [sum |-> s + v, c |-> 0]
  <2>1. PICK a, x : a = [sum |-> s, c |-> 0] /\ x = Num(v)
    OBVIOUS
  <2>2. a.sum = s /\ a.c = 0 /\ x.v = v
    BY <2>1 DEF Num
  <2>3. PICK y, t : y = Rounded(x.v - a.c) /\ t = Rounded(a.sum + y)
    OBVIOUS
  <2>4. y = v /\ t = s + v
    BY <1>3, <1>4, <2>2, <2>3
  <2>5. KahanStep(a, x) = [sum |-> t, c |-> Rounded(Rounded(t - a.sum) - y)]
    BY <2>3 DEF KahanStep
  <2>6. Rounded(t - a.sum) = v
    BY <1>3, <1>4, <2>2, <2>4
  <2>7. Rounded(Rounded(t - a.sum) - y) = 0
    BY <1>4, <1>5, <2>4, <2>6
  <2> QED
    BY <2>1, <2>4, <2>5, <2>7
<1> QED
  BY <1>2, <1>3, <1>6

\* Over rows that all hold a number in the column, the two loops agree as long as
\* nothing is rounded, and the running minimum and maximum are those of the cells.
CellsOf(rows, col) == [i \in DOMAIN rows |-> Cell(rows[i], col)]

LEMMA LoopsAgree ==
    ASSUME NEW rows \in Seq(AllRows), NEW col, NEW cells, cells = CellsOf(rows, col),
           \A i \in DOMAIN rows : Cell(rows[i], col).t = "num",
           NEW a, a = Accumulated(rows, col)
    PROVE  /\ cells \in Seq(NumCells) /\ Len(cells) = Len(rows) /\ a.count = Len(rows)
           /\ Weight(rows, col) <= Exact => KahanSum(cells) = Num(a.sum)
           /\ Len(rows) = 0 => a = Zero
           /\ Len(rows) > 0 => /\ a.min \in Numbers(cells) /\ \A x \in Numbers(cells) : a.min <= x
                               /\ a.max \in Numbers(cells) /\ \A x \in Numbers(cells) : a.max >= x
<1> DEFINE n == Len(rows)
<1>1. n \in Nat /\ DOMAIN rows = 1 .. n /\ \A i \in 1 .. n : rows[i] \in AllRows
  OBVIOUS
<1>2. \A x \in Cells : x.t = "num" => x \in NumCells
  BY CellNumber
<1>3. /\ cells \in Seq(NumCells) /\ Len(cells) = n /\ DOMAIN cells = 1 .. n
      /\ \A i \in 1 .. n : cells[i] = Cell(rows[i], col) /\ cells[i] \in Cells /\ cells[i] \in NumCells
                           /\ cells[i].t = "num" /\ cells[i].v \in Int
  <2>1. \A i \in 1 .. n : Cell(rows[i], col) \in Cells /\ Cell(rows[i], col) \in NumCells
    BY <1>1, <1>2, CellIsCell
  <2>2. \A x \in NumCells : x.t = "num" /\ x.v \in Int
    BY DEF NumCells
  <2>3. cells = [i \in 1 .. n |-> Cell(rows[i], col)]
    BY <1>1 DEF CellsOf
  <2> QED
    BY <1>1, <2>1, <2>2, <2>3
<1>4. PICK g : Adding(g, rows, col) /\ g[n] = a
  BY AccumulatedLoop
<1>5. PICK h : Summing(h, cells) /\ KahanSum(cells) = Num(h[n].sum)
  BY <1>3, KahanLoop
<1>0. PICK wt : Weighing(wt, rows, col) /\ wt[n] = Weight(rows, col)
  BY WeightLoop
<1> DEFINE Extreme(k) == /\ \E i \in 1 .. k : cells[i].v = g[k].min
                         /\ \E i \in 1 .. k : cells[i].v = g[k].max
                         /\ \A i \in 1 .. k : g[k].min <= cells[i].v /\ g[k].max >= cells[i].v
           Same(k) == wt[k] <= Exact => /\ h[k] = [sum |-> g[k].sum, c |-> 0]
                                       /\ g[k].sum \in Int /\ Magnitude(g[k].sum) <= wt[k]
           Good(k) == /\ g[k].count = k /\ g[k].min \in Int /\ g[k].max \in Int
                      /\ wt[k] \in Nat /\ Same(k)
                      /\ k > 0 => Extreme(k)
           T == {k \in Nat : k <= n => Good(k)}
<1>6. 0 \in T
  <2>1. g[0] = Zero /\ h[0] = [sum |-> 0, c |-> 0] /\ wt[0] = 0
    BY <1>0, <1>4, <1>5 DEF Adding, Summing, Weighing
  <2>2. Zero.count = 0 /\ Zero.sum = 0 /\ Zero.min = 0 /\ Zero.max = 0 /\ Magnitude(0) = 0
    BY DEF Zero, Magnitude
  <2> QED
    BY <2>1, <2>2
<1>7. ASSUME NEW k \in T PROVE k + 1 \in T
  <2> SUFFICES ASSUME k + 1 <= n PROVE Good(k + 1)
    OBVIOUS
  <2>1. Good(k) /\ k \in Nat /\ k + 1 \in 1 .. n /\ (k + 1) - 1 = k
    BY <1>7
  <2>2. PICK b, c, v, l, u : /\ b = g[k] /\ c = g[k + 1] /\ v = cells[k + 1].v
                             /\ l = (IF b.count = 0 \/ v < b.min THEN v ELSE b.min)
                             /\ u = (IF b.count = 0 \/ v > b.max THEN v ELSE b.max)
    OBVIOUS
  <2>3. c = Add(b, cells[k + 1]) /\ h[k + 1] = KahanStep(h[k], cells[k + 1])
    <3>1. g[k + 1] = Add(g[(k + 1) - 1], Cell(rows[k + 1], col))
      BY <1>4, <2>1 DEF Adding
    <3>2. h[k + 1] = KahanStep(h[(k + 1) - 1], cells[k + 1])
      BY <1>3, <1>5, <2>1 DEF Summing
    <3> QED
      BY <1>3, <2>1, <2>2, <3>1, <3>2
  <2>4. c = [sum |-> Rounded(b.sum + v), count |-> b.count + 1, min |-> l, max |-> u]
    <3>1. cells[k + 1].t = "num"
      BY <1>3, <2>1
    <3> QED
      BY <2>2, <2>3, <3>1 DEF Add
  <2>5. b.count = k /\ b.min \in Int /\ b.max \in Int /\ v \in Int
    BY <1>3, <2>1, <2>2
  <2>6. /\ l \in Int /\ l <= v /\ (k > 0 => l <= b.min) /\ (l = v \/ (k > 0 /\ l = b.min))
        /\ u \in Int /\ u >= v /\ (k > 0 => u >= b.max) /\ (u = v \/ (k > 0 /\ u = b.max))
    <3>1. PICK x, y : x = b.min /\ y = b.max
      OBVIOUS
    <3>2. k \in Nat /\ x \in Int /\ y \in Int /\ v \in Int
      BY <2>1, <2>5, <3>1
    <3>3. l = (IF k = 0 \/ v < x THEN v ELSE x) /\ u = (IF k = 0 \/ v > y THEN v ELSE y)
      BY <2>2, <2>5, <3>1
    <3>4. l \in Int /\ l <= v /\ (k > 0 => l <= x) /\ (l = v \/ (k > 0 /\ l = x))
      BY <3>2, <3>3
    <3>5. u \in Int /\ u >= v /\ (k > 0 => u >= y) /\ (u = v \/ (k > 0 /\ u = y))
      BY <3>2, <3>3
    <3> QED
      BY <3>1, <3>4, <3>5
  <2>7. c.count = k + 1 /\ c.sum = Rounded(b.sum + v) /\ c.min = l /\ c.max = u /\ l \in Int /\ u \in Int
    BY <2>1, <2>4, <2>5, <2>6
  <2>8. wt[k + 1] \in Nat /\ Same(k + 1)
    <3>1. PICK p, q, s : p = wt[k] /\ q = wt[k + 1] /\ s = b.sum
      OBVIOUS
    <3>2. p \in Nat /\ Magnitude(v) \in Nat /\ Exact \in Nat
      BY <2>1, <2>5, <3>1, WordAssumption DEF Magnitude
    <3>3. q = p + Magnitude(v)
      <4>1. wt[k + 1] = wt[(k + 1) - 1] + CellWeight(rows[k + 1], col)
        BY <1>0, <2>1 DEF Weighing
      <4>2. CellWeight(rows[k + 1], col) = Magnitude(v)
        BY <1>3, <2>1, <2>2 DEF CellWeight
      <4> QED
        BY <2>1, <3>1, <4>1, <4>2
    <3>4. ASSUME q <= Exact
          PROVE  h[k + 1] = [sum |-> c.sum, c |-> 0] /\ c.sum \in Int /\ Magnitude(c.sum) <= q
      <4>1. p <= Exact /\ p + Magnitude(v) <= Exact
        BY <3>2, <3>3, <3>4
      <4>2. h[k] = [sum |-> s, c |-> 0] /\ s \in Int /\ Magnitude(s) <= p
        BY <2>1, <2>2, <3>1, <4>1
      <4>3. cells[k + 1] = Num(v)
        BY <1>3, <2>1, <2>2 DEF NumCells, Num
      <4>4. /\ Rounded(s + v) = s + v /\ Magnitude(s + v) <= p + Magnitude(v)
            /\ KahanStep([sum |-> s, c |-> 0], Num(v)) = [sum |-> s + v, c |-> 0]
        BY <2>5, <3>2, <4>1, <4>2, SmallSums
      <4>5. c.sum = s + v /\ h[k + 1] = [sum |-> s + v, c |-> 0] /\ s + v \in Int
        BY <2>3, <2>5, <2>7, <3>1, <4>2, <4>3, <4>4
      <4> QED
        BY <3>3, <4>4, <4>5
    <3>5. q \in Nat
      BY <3>2, <3>3
    <3> QED
      BY <2>2, <3>1, <3>4, <3>5
  <2>9. \E i \in 1 .. k + 1 : cells[i].v = l
    <3>1. CASE l = v
      BY <2>1, <2>2, <3>1
    <3>2. CASE k > 0 /\ l = b.min
      <4>1. PICK i \in 1 .. k : cells[i].v = g[k].min
        BY <2>1, <3>2
      <4> QED
        BY <2>1, <2>2, <3>2, <4>1
    <3> QED
      BY <2>6, <3>1, <3>2
  <2>10. \E i \in 1 .. k + 1 : cells[i].v = u
    <3>1. CASE u = v
      BY <2>1, <2>2, <3>1
    <3>2. CASE k > 0 /\ u = b.max
      <4>1. PICK i \in 1 .. k : cells[i].v = g[k].max
        BY <2>1, <3>2
      <4> QED
        BY <2>1, <2>2, <3>2, <4>1
    <3> QED
      BY <2>6, <3>1, <3>2
  <2>11. ASSUME NEW i \in 1 .. k + 1 PROVE l <= cells[i].v /\ u >= cells[i].v
    <3>1. CASE i = k + 1
      BY <2>2, <2>6, <3>1
    <3>2. CASE i # k + 1
      <4>1. i \in 1 .. k /\ k > 0 /\ i \in 1 .. n
        BY <2>1, <3>2
      <4>2. b.min <= cells[i].v /\ b.max >= cells[i].v /\ cells[i].v \in Int
        BY <1>3, <2>1, <2>2, <4>1
      <4>3. PICK x, y, w : x = b.min /\ y = b.max /\ w = cells[i].v
        OBVIOUS
      <4> HIDE DEF T, Good, Same, Extreme
      <4>4. /\ x \in Int /\ y \in Int /\ w \in Int /\ l \in Int /\ u \in Int
            /\ x <= w /\ y >= w /\ l <= x /\ u >= y
        BY <2>5, <2>6, <4>1, <4>2, <4>3
      <4>5. l <= w /\ u >= w
        BY <4>4
      <4> QED
        BY <4>3, <4>5, Zenon
    <3> QED
      BY <3>1, <3>2
  <2>12. Extreme(k + 1)
    BY <2>2, <2>7, <2>9, <2>10, <2>11
  <2> HIDE DEF Extreme, Same
  <2> QED
    BY <2>2, <2>7, <2>8, <2>12
<1> HIDE DEF T
<1>8. \A k \in Nat : k \in T
  <2>1. T \subseteq Nat
    BY DEF T
  <2> QED
    BY <1>6, <1>7, <2>1, InductionOnSets
<1>9. Good(n)
  <2> HIDE DEF Good
  <2>1. n \in T /\ n <= n
    BY <1>1, <1>8
  <2> QED
    BY <2>1 DEF T
<1>10. a.count = n /\ (Weight(rows, col) <= Exact => KahanSum(cells) = Num(a.sum))
  <2>1. a.count = n
    BY <1>4, <1>9
  <2>2. ASSUME Weight(rows, col) <= Exact PROVE KahanSum(cells) = Num(a.sum)
    <3>1. Same(n) /\ wt[n] <= Exact
      BY <1>0, <1>9, <2>2
    <3>2. h[n] = [sum |-> g[n].sum, c |-> 0]
      BY <3>1
    <3>3. h[n].sum = a.sum
      BY <1>4, <3>2
    <3> QED
      BY <1>5, <3>3
  <2> QED
    BY <2>1, <2>2
<1>11. ASSUME n > 0
       PROVE /\ a.min \in Numbers(cells) /\ \A x \in Numbers(cells) : a.min <= x
             /\ a.max \in Numbers(cells) /\ \A x \in Numbers(cells) : a.max >= x
  <2>1. Numbers(cells) = {cells[i].v : i \in 1 .. n}
    <3>1. \A x \in NumCells : x # NaN
      BY DEF NumCells, NaN
    <3>2. Range(cells) = {cells[i] : i \in 1 .. n}
      BY <1>3 DEF Range
    <3> QED
      BY <1>3, <3>1, <3>2 DEF Numbers
  <2>2. Extreme(n)
    BY <1>9, <1>11
  <2> QED
    BY <1>4, <2>1, <2>2
<1>12. n = 0 => a = Zero
  BY <1>4 DEF Adding
<1> QED
  BY <1>3, <1>10, <1>11, <1>12

\* The positions found so far stay where they are.
LEMMA PositionsPrefix ==
    ASSUME NEW S, NEW m \in Nat, NEW n \in Nat, m <= n
    PROVE  \A i \in 1 .. Len(Positions(S, m)) :
              i \in 1 .. Len(Positions(S, n)) /\ Positions(S, n)[i] = Positions(S, m)[i]
<1> DEFINE Stays(k) == \A i \in 1 .. Len(Positions(S, m)) :
                         i \in 1 .. Len(Positions(S, k)) /\ Positions(S, k)[i] = Positions(S, m)[i]
           T == {d \in Nat : Stays(m + d)}
<1>1. 0 \in T
  <2>1. m + 0 = m
    OBVIOUS
  <2>2. Stays(m)
    OBVIOUS
  <2> HIDE DEF Stays
  <2> QED
    BY <2>1, <2>2
<1>2. ASSUME NEW d \in T PROVE d + 1 \in T
  <2>1. PICK k, a, b : k = m + d /\ a = Positions(S, k) /\ b = Positions(S, k + 1)
    OBVIOUS
  <2>2. k \in Nat /\ d \in Nat /\ m + (d + 1) = k + 1
    BY <1>2, <2>1
  <2>3. b = IF k + 1 \in S THEN Append(a, k + 1) ELSE a
    BY <2>1, <2>2, PositionsStep
  <2>4. a \in Seq(Nat) /\ Len(a) \in Nat
    BY <2>1, <2>2, PositionsList DEF Lists
  <2>5. ASSUME NEW i \in 1 .. Len(a) PROVE i \in 1 .. Len(b) /\ b[i] = a[i]
    BY <2>2, <2>3, <2>4
  <2>6. \A i \in 1 .. Len(Positions(S, m)) : i \in 1 .. Len(a) /\ a[i] = Positions(S, m)[i]
    BY <1>2, <2>1
  <2>7. Stays(k + 1)
    BY <2>1, <2>5, <2>6
  <2> HIDE DEF Stays
  <2> QED
    BY <2>2, <2>7
<1> HIDE DEF T
<1>3. \A d \in Nat : d \in T
  <2>1. T \subseteq Nat
    BY DEF T
  <2> QED
    BY <1>1, <1>2, <2>1, InductionOnSets
<1>4. n - m \in Nat /\ m + (n - m) = n
  OBVIOUS
<1>5. Stays(m + (n - m))
  <2> HIDE DEF Stays
  <2> QED
    BY <1>3, <1>4 DEF T
<1>6. Stays(n)
  <2> HIDE DEF Stays
  <2> QED
    BY <1>4, <1>5
<1> QED
  BY <1>6

\* Aggregating the rows that hold a number is aggregating all rows.
LEMMA SkipsWork ==
    ASSUME NEW rows \in Seq(AllRows), NEW col, NEW S, S = {i \in DOMAIN rows : Cell(rows[i], col).t = "num"}
    PROVE  Accumulated(rows, col) = Accumulated(Picked(rows, S), col)
<1> DEFINE n == Len(rows)
           found(k) == Positions(S, k)
           some == Picked(rows, S)
<1>1. n \in Nat /\ DOMAIN rows = 1 .. n
  OBVIOUS
<1>2. /\ some \in Seq(AllRows) /\ Len(some) = Len(found(n)) /\ Lists(found(n), S, n)
      /\ \A i \in 1 .. Len(found(n)) : some[i] = rows[found(n)[i]]
  BY PickedWorks
<1>3. PICK g : Adding(g, rows, col) /\ g[n] = Accumulated(rows, col)
  BY AccumulatedLoop
<1>4. PICK h : Adding(h, some, col) /\ h[Len(some)] = Accumulated(some, col)
  <2> HIDE DEF some
  <2> QED
    BY <1>2, AccumulatedLoop
<1> DEFINE T == {k \in Nat : k <= n => g[k] = h[Len(found(k))]}
<1> HIDE DEF some
<1>5. 0 \in T
  <2>1. found(0) = <<>> /\ Len(<<>>) = 0
    BY PositionsStep
  <2>2. g[0] = h[0]
    BY <1>3, <1>4 DEF Adding
  <2> QED
    BY <2>1, <2>2
<1>6. ASSUME NEW k \in T PROVE k + 1 \in T
  <2> SUFFICES ASSUME k + 1 <= n PROVE g[k + 1] = h[Len(found(k + 1))]
    OBVIOUS
  <2>1. g[k] = h[Len(found(k))] /\ k \in Nat /\ k + 1 \in 1 .. n /\ (k + 1) - 1 = k
    BY <1>6
  <2>2. PICK a, b, v : a = found(k) /\ b = found(k + 1) /\ v = Cell(rows[k + 1], col)
    OBVIOUS
  <2>3. b = IF k + 1 \in S THEN Append(a, k + 1) ELSE a
    BY <2>1, <2>2, PositionsStep
  <2>4. a \in Seq(Nat) /\ Len(a) \in Nat
    BY <2>1, <2>2, PositionsList DEF Lists
  <2>5. g[k + 1] = Add(g[k], v)
    <3>1. g[k + 1] = Add(g[(k + 1) - 1], Cell(rows[k + 1], col))
      BY <1>3, <2>1 DEF Adding
    <3> QED
      BY <2>1, <2>2, <3>1
  <2>6. CASE k + 1 \in S
    <3>1. Len(b) = Len(a) + 1 /\ b[Len(a) + 1] = k + 1 /\ Len(b) \in 1 .. Len(b) /\ Len(b) - 1 = Len(a)
      BY <2>1, <2>3, <2>4, <2>6
    <3>2. Len(b) \in 1 .. Len(found(n)) /\ found(n)[Len(b)] = k + 1
      <4>1. k + 1 \in Nat /\ n \in Nat /\ k + 1 <= n
        BY <1>1, <2>1
      <4>2. \A i \in 1 .. Len(found(k + 1)) : i \in 1 .. Len(found(n)) /\ found(n)[i] = found(k + 1)[i]
        BY <4>1, PositionsPrefix
      <4> QED
        BY <2>2, <3>1, <4>2
    <3>3. h[Len(b)] = Add(h[Len(b) - 1], Cell(some[Len(b)], col)) /\ some[Len(b)] = rows[k + 1]
      <4>1. Len(b) \in 1 .. Len(some)
        BY <1>2, <3>2
      <4> QED
        BY <1>2, <1>4, <3>2, <4>1 DEF Adding
    <3> QED
      BY <2>1, <2>2, <2>5, <3>1, <3>3
  <2>7. CASE k + 1 \notin S
    <3>1. v.t # "num"
      BY <1>1, <2>1, <2>2, <2>7
    <3>2. g[k + 1] = g[k]
      BY <2>5, <3>1 DEF Add
    <3> QED
      BY <2>1, <2>2, <2>3, <2>7, <3>2
  <2> QED
    BY <2>6, <2>7
<1> HIDE DEF T
<1>7. \A k \in Nat : k \in T
  <2>1. T \subseteq Nat
    BY DEF T
  <2> QED
    BY <1>5, <1>6, <2>1, InductionOnSets
<1>8. g[n] = h[Len(found(n))]
  BY <1>1, <1>7 DEF T
<1> QED
  BY <1>2, <1>3, <1>4, <1>8 DEF some

\* Min and Max of a set that has them.
LEMMA LeastOf ==
    ASSUME NEW S, S \subseteq Int, NEW m \in S, \A x \in S : m <= x
    PROVE  Min(S) = m
<1>1. \E y \in S : \A x \in S : y <= x
  OBVIOUS
<1>2. PICK y : y = Min(S)
  OBVIOUS
<1>3. y \in S /\ \A x \in S : y <= x
  BY <1>1, <1>2 DEF Min
<1>4. y \in Int /\ m \in Int /\ y <= m /\ m <= y
  BY <1>3
<1> QED
  BY <1>2, <1>4

LEMMA GreatestOf ==
    ASSUME NEW S, S \subseteq Int, NEW m \in S, \A x \in S : m >= x
    PROVE  Max(S) = m
<1>1. \E y \in S : \A x \in S : y >= x
  OBVIOUS
<1>2. PICK y : y = Max(S)
  OBVIOUS
<1>3. y \in S /\ \A x \in S : y >= x
  BY <1>1, <1>2 DEF Max
<1>4. y \in Int /\ m \in Int /\ y <= m /\ m <= y
  BY <1>3
<1> QED
  BY <1>2, <1>4

LEMMA AggregateIs ==
    ASSUME NEW rows, NEW col, NEW a, a = Accumulated(rows, col), a.count \in Nat
    PROVE  /\ a.count = 0 => \A fn \in {"sum", "avg", "min", "max"} : aggregate(rows, fn, col) = 0
           /\ a.count > 0 => /\ aggregate(rows, "sum", col) = a.sum
                             /\ aggregate(rows, "avg", col) = << a.sum, a.count >>
                             /\ aggregate(rows, "min", col) = a.min
                             /\ aggregate(rows, "max", col) = a.max
<1>2. ASSUME a.count = 0, NEW fn \in {"sum", "avg", "min", "max"} PROVE aggregate(rows, fn, col) = 0
  BY <1>2 DEF aggregate
<1>3. ASSUME a.count > 0
      PROVE  /\ aggregate(rows, "sum", col) = a.sum /\ aggregate(rows, "avg", col) = << a.sum, a.count >>
             /\ aggregate(rows, "min", col) = a.min /\ aggregate(rows, "max", col) = a.max
  <2>1. a.count # 0
    BY <1>3
  <2> QED
    BY <1>3, <2>1 DEF aggregate
<1> QED
  BY <1>2, <1>3

\* What columnize makes of a column.
LEMMA ColumnizeWorks ==
    ASSUME NEW rows \in Seq(AllRows), NEW col, NEW values, values = columnize(rows, col).values
    PROVE  /\ values \in Seq(Cells \cup {NaN}) /\ Len(values) = Len(rows) /\ DOMAIN values = DOMAIN rows
           /\ \A i \in DOMAIN rows : values[i] = IF Cell(rows[i], col).t = "num" THEN Cell(rows[i], col) ELSE NaN
<1>1. Len(rows) \in Nat /\ DOMAIN rows = 1 .. Len(rows)
  OBVIOUS
<1>2. PICK v, c : v = [i \in DOMAIN rows |-> Cell(rows[i], col)] /\ c = [i \in DOMAIN rows |-> IF v[i].t = "num" THEN v[i] ELSE NaN]
  OBVIOUS
<1>3. PICK valid : columnize(rows, col) = [values |-> c, valid |-> valid]
  BY <1>2, Zenon DEF columnize
<1>4. values = c
  BY <1>3
<1>5. \A i \in DOMAIN rows : v[i] = Cell(rows[i], col) /\ v[i] \in Cells
  BY <1>2, CellIsCell
<1>6. \A i \in DOMAIN rows : c[i] = (IF v[i].t = "num" THEN v[i] ELSE NaN) /\ c[i] \in Cells \cup {NaN}
  BY <1>2, <1>5
<1>7. DOMAIN c = 1 .. Len(rows) /\ Len(c) = Len(rows) /\ c \in Seq(Cells \cup {NaN})
  BY <1>1, <1>2, <1>6
<1> QED
  BY <1>1, <1>4, <1>5, <1>6, <1>7

LEMMA ColumnizeValid ==
    ASSUME NEW rows \in Seq(AllRows), NEW col, NEW S, S = {i \in DOMAIN rows : Cell(rows[i], col).t = "num"}
    PROVE  columnize(rows, col).valid = Positions(S, Len(rows))
<1>1. PICK v, T : v = [i \in DOMAIN rows |-> Cell(rows[i], col)] /\ T = {i \in DOMAIN rows : v[i].t = "num"}
  OBVIOUS
<1>2. T = S
  BY <1>1
<1>3. PICK values, valid : columnize(rows, col) = [values |-> values, valid |-> valid] /\ valid = Positions(T, Len(rows))
  BY <1>1, Zenon DEF columnize
<1> QED
  BY <1>2, <1>3

\* A number of rows, or none, has a number in the column.
Filled(rows, col) == \A r \in Range(rows) : Cell(r, col).t = "num"
Blank(rows, col) == rows # <<>> /\ \A r \in Range(rows) : ~(Cell(r, col).t = "num")
Counted(rows, col) == {i \in DOMAIN rows : Cell(rows[i], col).t = "num"}
FloatsOf(rows, col) == [i \in DOMAIN rows |-> IF Cell(rows[i], col).t = "num" THEN Cell(rows[i], col) ELSE NaN]

\* Rows without a number weigh nothing.
LEMMA WeightsAreNat ==
    ASSUME NEW rows \in Seq(AllRows), NEW col, NEW g, Weighing(g, rows, col)
    PROVE  \A k \in Nat : k <= Len(rows) => g[k] \in Nat
<1> DEFINE T == {k \in Nat : k <= Len(rows) => g[k] \in Nat}
<1>1. 0 \in T
  BY DEF Weighing
<1>2. ASSUME NEW k \in T PROVE k + 1 \in T
  <2> SUFFICES ASSUME k + 1 <= Len(rows) PROVE g[k + 1] \in Nat
    OBVIOUS
  <2>1. k \in Nat /\ Len(rows) \in Nat /\ k + 1 \in 1 .. Len(rows) /\ (k + 1) - 1 = k /\ g[k] \in Nat
    BY <1>2
  <2>2. g[k + 1] = g[k] + CellWeight(rows[k + 1], col)
    BY <2>1 DEF Weighing
  <2>3. CellWeight(rows[k + 1], col) \in Nat
    <3>1. rows[k + 1] \in AllRows
      BY <2>1
    <3>2. PICK v : v = Cell(rows[k + 1], col)
      OBVIOUS
    <3>3. v.t = "num" => v.v \in Int
      BY <3>1, <3>2, CellIsCell, CellNumber
    <3> QED
      BY <3>2, <3>3 DEF CellWeight, Magnitude
  <2> QED
    BY <2>1, <2>2, <2>3
<1> HIDE DEF T
<1>3. T \subseteq Nat
  BY DEF T
<1>4. \A k \in Nat : k \in T
  BY <1>1, <1>2, <1>3, InductionOnSets
<1> QED
  BY <1>4 DEF T

LEMMA WeightSkips ==
    ASSUME NEW rows \in Seq(AllRows), NEW col, NEW S, S = {i \in DOMAIN rows : Cell(rows[i], col).t = "num"}
    PROVE  Weight(Picked(rows, S), col) = Weight(rows, col)
<1> DEFINE n == Len(rows)
           found(k) == Positions(S, k)
           some == Picked(rows, S)
<1>1. n \in Nat /\ DOMAIN rows = 1 .. n
  OBVIOUS
<1>2. /\ some \in Seq(AllRows) /\ Len(some) = Len(found(n)) /\ Lists(found(n), S, n)
      /\ \A i \in 1 .. Len(found(n)) : some[i] = rows[found(n)[i]]
  BY PickedWorks
<1>3. PICK g : Weighing(g, rows, col) /\ g[n] = Weight(rows, col)
  BY WeightLoop
<1>4. PICK h : Weighing(h, some, col) /\ h[Len(some)] = Weight(some, col)
  <2> HIDE DEF some
  <2> QED
    BY <1>2, WeightLoop
<1>0. \A k \in Nat : k <= n => g[k] \in Nat
  BY <1>3, WeightsAreNat
<1> DEFINE T == {k \in Nat : k <= n => g[k] = h[Len(found(k))]}
<1> HIDE DEF some
<1>5. 0 \in T
  <2>1. found(0) = <<>> /\ Len(<<>>) = 0
    BY PositionsStep
  <2>2. g[0] = h[0]
    BY <1>3, <1>4 DEF Weighing
  <2> QED
    BY <2>1, <2>2
<1>6. ASSUME NEW k \in T PROVE k + 1 \in T
  <2> SUFFICES ASSUME k + 1 <= n PROVE g[k + 1] = h[Len(found(k + 1))]
    OBVIOUS
  <2>1. g[k] = h[Len(found(k))] /\ k \in Nat /\ k + 1 \in 1 .. n /\ (k + 1) - 1 = k
    BY <1>6
  <2>2. PICK a, b, v : a = found(k) /\ b = found(k + 1) /\ v = CellWeight(rows[k + 1], col)
    OBVIOUS
  <2>3. b = IF k + 1 \in S THEN Append(a, k + 1) ELSE a
    BY <2>1, <2>2, PositionsStep
  <2>4. a \in Seq(Nat) /\ Len(a) \in Nat
    BY <2>1, <2>2, PositionsList DEF Lists
  <2>5. g[k + 1] = g[k] + v
    <3>1. g[k + 1] = g[(k + 1) - 1] + CellWeight(rows[k + 1], col)
      BY <1>3, <2>1 DEF Weighing
    <3> QED
      BY <2>1, <2>2, <3>1
  <2>6. CASE k + 1 \in S
    <3>1. Len(b) = Len(a) + 1 /\ b[Len(a) + 1] = k + 1 /\ Len(b) \in 1 .. Len(b) /\ Len(b) - 1 = Len(a)
      BY <2>1, <2>3, <2>4, <2>6
    <3>2. Len(b) \in 1 .. Len(found(n)) /\ found(n)[Len(b)] = k + 1
      <4>1. k + 1 \in Nat /\ n \in Nat /\ k + 1 <= n
        BY <1>1, <2>1
      <4>2. \A i \in 1 .. Len(found(k + 1)) : i \in 1 .. Len(found(n)) /\ found(n)[i] = found(k + 1)[i]
        BY <4>1, PositionsPrefix
      <4> QED
        BY <2>2, <3>1, <4>2
    <3>3. h[Len(b)] = h[Len(b) - 1] + CellWeight(some[Len(b)], col) /\ some[Len(b)] = rows[k + 1]
      <4>1. Len(b) \in 1 .. Len(some)
        BY <1>2, <3>2
      <4> QED
        BY <1>2, <1>4, <3>2, <4>1 DEF Weighing
    <3> QED
      BY <2>1, <2>2, <2>5, <3>1, <3>3
  <2>7. CASE k + 1 \notin S
    <3>1. v = 0
      BY <1>1, <2>1, <2>2, <2>7 DEF CellWeight
    <3>2. g[k] \in Int
      BY <1>0, <2>1
    <3>3. g[k + 1] = g[k]
      BY <2>5, <3>1, <3>2
    <3> QED
      BY <2>1, <2>2, <2>3, <2>7, <3>3
  <2> QED
    BY <2>6, <2>7
<1> HIDE DEF T
<1>7. \A k \in Nat : k \in T
  <2>1. T \subseteq Nat
    BY DEF T
  <2> QED
    BY <1>5, <1>6, <2>1, InductionOnSets
<1>8. g[n] = h[Len(found(n))]
  BY <1>1, <1>7 DEF T
<1> QED
  BY <1>2, <1>3, <1>4, <1>8 DEF some

\* The cells a selection of a column reads.
LEMMA SelectedCells ==
    ASSUME NEW rows \in Seq(AllRows), NEW col, NEW values, values = columnize(rows, col).values,
           NEW S, NEW sel, sel = Positions(S, Len(rows)), NEW hit, hit = Picked(rows, S)
    PROVE  hit \in Seq(AllRows) /\ Selected(values, sel) = FloatsOf(hit, col)
<1>1. /\ hit \in Seq(AllRows) /\ Len(hit) = Len(sel) /\ DOMAIN hit = 1 .. Len(sel) /\ Lists(sel, S, Len(rows))
      /\ \A i \in 1 .. Len(sel) : sel[i] \in DOMAIN rows /\ hit[i] = rows[sel[i]]
  BY PickedWorks
<1>2. /\ Len(rows) \in Nat /\ Len(sel) \in Nat /\ DOMAIN sel = 1 .. Len(sel)
      /\ \A i \in 1 .. Len(sel) : sel[i] \in 1 .. Len(rows)
  BY <1>1 DEF Lists
<1>3. /\ Len(values) = Len(rows)
      /\ \A i \in DOMAIN rows : values[i] = IF Cell(rows[i], col).t = "num" THEN Cell(rows[i], col) ELSE NaN
  BY ColumnizeWorks
<1>4. {i \in DOMAIN sel : sel[i] > Len(values)} = {}
  BY <1>2, <1>3
<1>5. Selected(values, sel) = [i \in 1 .. Len(sel) |-> values[sel[i]]]
  BY <1>4 DEF Selected
<1>6. \A i \in 1 .. Len(sel) : values[sel[i]] = IF Cell(hit[i], col).t = "num" THEN Cell(hit[i], col) ELSE NaN
  BY <1>1, <1>3
<1> QED
  BY <1>1, <1>5, <1>6 DEF FloatsOf

\* The kernel's sum of the cells of rows is the aggregate's, as long as nothing
\* is rounded, and NaN as soon as one has no number.
SumAgrees(rows, col) ==
    Weight(rows, col) <= Exact =>
        KahanSum(FloatsOf(rows, col)) = IF Filled(rows, col) THEN Num(aggregate(rows, "sum", col)) ELSE NaN

LEMMA SumsAgree ==
    ASSUME NEW rows \in Seq(AllRows), NEW col
    PROVE  SumAgrees(rows, col)
<1>1. PICK cells, a : cells = FloatsOf(rows, col) /\ a = Accumulated(rows, col)
  OBVIOUS
<1>2. Len(rows) \in Nat /\ DOMAIN rows = 1 .. Len(rows) /\ Range(rows) = {rows[i] : i \in DOMAIN rows}
  BY DEF Range
<1>3. CASE ~Filled(rows, col)
  <2>1. PICK i \in DOMAIN rows : Cell(rows[i], col).t # "num"
    BY <1>2, <1>3 DEF Filled
  <2>2. cells[i] = NaN /\ i \in DOMAIN cells
    BY <1>1, <2>1 DEF FloatsOf
  <2>3. NaN \in Range(cells)
    BY <2>2 DEF Range
  <2>4. KahanSum(cells) = NaN
    BY <2>3 DEF KahanSum
  <2> QED
    BY <1>1, <1>3, <2>4 DEF SumAgrees
<1>4. CASE Filled(rows, col)
  <2>1. \A i \in DOMAIN rows : Cell(rows[i], col).t = "num"
    BY <1>2, <1>4 DEF Filled
  <2>2. cells = CellsOf(rows, col)
    BY <1>1, <2>1 DEF FloatsOf, CellsOf
  <2>3. /\ a.count = Len(rows) /\ (Len(rows) = 0 => a = Zero)
        /\ Weight(rows, col) <= Exact => KahanSum(cells) = Num(a.sum)
    BY <1>1, <2>1, <2>2, LoopsAgree
  <2>4. aggregate(rows, "sum", col) = a.sum
    <3>1. CASE Len(rows) = 0
      <4>1. a.count = 0 /\ a.sum = 0 /\ a.count \in Nat
        BY <2>3, <3>1 DEF Zero
      <4> QED
        BY <1>1, <4>1, AggregateIs
    <3>2. CASE Len(rows) # 0
      <4>1. a.count > 0 /\ a.count \in Nat
        BY <1>2, <2>3, <3>2
      <4> QED
        BY <1>1, <4>1, AggregateIs
    <3> QED
      BY <3>1, <3>2
  <2> QED
    BY <1>1, <1>4, <2>3, <2>4 DEF SumAgrees
<1> QED
  BY <1>3, <1>4

\* The kernel's minimum and maximum of the cells of rows are the aggregate's,
\* unless there are rows and no number.
Least(cells) == IF cells = <<>> THEN Num(0) ELSE IF Numbers(cells) = {} THEN Infinity(1) ELSE Num(Min(Numbers(cells)))
Greatest(cells) == IF cells = <<>> THEN Num(0) ELSE IF Numbers(cells) = {} THEN Infinity(-1) ELSE Num(Max(Numbers(cells)))

ExtremesAgree(rows, col) ==
    /\ Least(FloatsOf(rows, col)) = IF Blank(rows, col) THEN Infinity(1) ELSE Num(aggregate(rows, "min", col))
    /\ Greatest(FloatsOf(rows, col)) = IF Blank(rows, col) THEN Infinity(-1) ELSE Num(aggregate(rows, "max", col))

LEMMA ExtremesAre ==
    ASSUME NEW rows \in Seq(AllRows), NEW col
    PROVE  ExtremesAgree(rows, col)
<1>1. PICK S, some, a, floats, cells : /\ S = Counted(rows, col) /\ some = Picked(rows, S) /\ a = Accumulated(some, col)
                                       /\ floats = FloatsOf(rows, col) /\ cells = CellsOf(some, col)
  OBVIOUS
<1>2. Len(rows) \in Nat /\ DOMAIN rows = 1 .. Len(rows) /\ Range(rows) = {rows[i] : i \in DOMAIN rows}
  BY DEF Range
<1>3. a = Accumulated(rows, col)
  BY <1>1, SkipsWork DEF Counted
<1>4. PICK at : at = Positions(S, Len(rows))
  OBVIOUS
<1>5. /\ some \in Seq(AllRows) /\ DOMAIN some = 1 .. Len(at) /\ Lists(at, S, Len(rows)) /\ Len(some) = Len(at)
      /\ \A i \in 1 .. Len(at) : at[i] \in DOMAIN rows /\ some[i] = rows[at[i]]
  BY <1>1, <1>4, PickedWorks
<1>6. \A i \in DOMAIN some : Cell(some[i], col).t = "num"
  <2>1. \A i \in 1 .. Len(at) : at[i] \in S
    BY <1>5 DEF Lists
  <2> QED
    BY <1>1, <1>5, <2>1 DEF Counted
<1>7. /\ cells \in Seq(NumCells) /\ Len(cells) = Len(some) /\ a.count = Len(some)
      /\ Len(some) > 0 => /\ a.min \in Numbers(cells) /\ \A x \in Numbers(cells) : a.min <= x
                          /\ a.max \in Numbers(cells) /\ \A x \in Numbers(cells) : a.max >= x
  BY <1>1, <1>5, <1>6, LoopsAgree
<1>8. Len(some) \in Nat /\ a.count \in Nat
  BY <1>5, <1>7
<1>9. Numbers(cells) = {cells[i].v : i \in DOMAIN cells}
  <2>1. \A x \in NumCells : x # NaN
    BY DEF NumCells, NaN
  <2>2. Range(cells) = {cells[i] : i \in DOMAIN cells} /\ \A i \in DOMAIN cells : cells[i] \in NumCells
    BY <1>7 DEF Range
  <2> QED
    BY <2>1, <2>2 DEF Numbers
<1>10. DOMAIN cells = DOMAIN some /\ \A i \in DOMAIN cells : cells[i] = Cell(some[i], col)
  BY <1>1 DEF CellsOf
<1>11. Numbers(floats) = {floats[i].v : i \in S}
  <2>1. /\ Range(floats) = {floats[i] : i \in DOMAIN rows} /\ S \subseteq DOMAIN rows
        /\ \A i \in S : floats[i] = Cell(rows[i], col) /\ floats[i].t = "num"
        /\ \A i \in DOMAIN rows : i \notin S => floats[i] = NaN
    BY <1>1 DEF FloatsOf, Range, Counted
  <2>2. \A i \in S : floats[i] # NaN
    BY <2>1 DEF NaN
  <2>3. Range(floats) \ {NaN} = {floats[i] : i \in S}
    BY <2>1, <2>2
  <2> QED
    BY <2>3 DEF Numbers
<1>12. Numbers(floats) = Numbers(cells)
  <2>1. ASSUME NEW i \in S PROVE floats[i].v \in Numbers(cells)
    <3>1. PICK k \in 1 .. Len(at) : at[k] = i
      BY <1>1, <1>2, <1>5 DEF Lists, Counted
    <3>2. some[k] = rows[i] /\ k \in DOMAIN cells
      BY <1>5, <1>10, <3>1
    <3>3. cells[k] = Cell(rows[i], col) /\ floats[i] = Cell(rows[i], col)
      BY <1>1, <1>10, <3>2 DEF FloatsOf, Counted
    <3> QED
      BY <1>9, <3>2, <3>3
  <2>2. ASSUME NEW k \in DOMAIN cells PROVE cells[k].v \in Numbers(floats)
    <3>1. k \in 1 .. Len(at) /\ at[k] \in S /\ some[k] = rows[at[k]]
      BY <1>5, <1>10 DEF Lists
    <3>2. cells[k] = Cell(rows[at[k]], col) /\ floats[at[k]] = Cell(rows[at[k]], col)
      BY <1>1, <1>10, <3>1 DEF FloatsOf, Counted
    <3> QED
      BY <1>11, <3>1, <3>2
  <2> QED
    BY <1>9, <1>11, <2>1, <2>2
<1>13. Blank(rows, col) <=> rows # <<>> /\ S = {}
  BY <1>1, <1>2 DEF Blank, Counted
<1>14. S = {} <=> Len(some) = 0
  <2>1. ASSUME NEW i \in S PROVE Len(some) # 0
    <3>1. PICK k \in 1 .. Len(at) : at[k] = i
      BY <1>1, <1>2, <1>5 DEF Lists, Counted
    <3> QED
      BY <1>5, <1>8, <3>1
  <2>2. ASSUME Len(some) # 0 PROVE S # {}
    <3>1. 1 \in 1 .. Len(at)
      BY <1>5, <1>8, <2>2
    <3> QED
      BY <1>5, <3>1 DEF Lists
  <2> QED
    BY <2>1, <2>2
<1>15. floats = <<>> <=> rows = <<>>
  <2>1. DOMAIN floats = DOMAIN rows
    BY <1>1 DEF FloatsOf
  <2>2. DOMAIN <<>> = {} /\ (rows = <<>> <=> DOMAIN rows = {})
    BY <1>2
  <2>3. floats = [i \in DOMAIN rows |-> floats[i]]
    BY <1>1 DEF FloatsOf
  <2>4. ASSUME DOMAIN rows = {} PROVE floats = <<>>
    BY <2>3, <2>4
  <2> QED
    BY <2>1, <2>2, <2>4
<1>16. CASE Len(some) = 0
  <2>1. S = {} /\ Numbers(floats) = {}
    BY <1>11, <1>14, <1>16
  <2>2. aggregate(rows, "min", col) = 0 /\ aggregate(rows, "max", col) = 0
    <3>1. a.count = 0
      BY <1>7, <1>16
    <3> QED
      BY <1>3, <1>8, <3>1, AggregateIs
  <2> QED
    BY <1>1, <1>13, <1>15, <2>1, <2>2 DEF ExtremesAgree, Least, Greatest
<1>17. CASE Len(some) # 0
  <2>1. S # {} /\ rows # <<>> /\ Len(some) > 0 /\ a.count > 0
    <3>1. S # {} /\ Len(some) > 0
      BY <1>8, <1>14, <1>17
    <3>2. \E i : i \in DOMAIN rows
      BY <1>1, <3>1 DEF Counted
    <3> QED
      BY <1>2, <1>7, <3>1, <3>2
  <2>2. aggregate(rows, "min", col) = a.min /\ aggregate(rows, "max", col) = a.max
    BY <1>3, <1>8, <2>1, AggregateIs
  <2>3. Numbers(cells) \subseteq Int
    <3>1. \A i \in DOMAIN cells : cells[i] \in NumCells
      BY <1>7
    <3> QED
      BY <1>9, <3>1 DEF NumCells
  <2>4. Min(Numbers(cells)) = a.min
    BY <1>7, <2>1, <2>3, LeastOf
  <2>5. Max(Numbers(cells)) = a.max
    BY <1>7, <2>1, <2>3, GreatestOf
  <2>6. Numbers(floats) # {} /\ floats # <<>> /\ ~Blank(rows, col)
    BY <1>7, <1>12, <1>13, <1>15, <2>1
  <2> QED
    BY <1>1, <1>12, <2>2, <2>4, <2>5, <2>6 DEF ExtremesAgree, Least, Greatest
<1> QED
  BY <1>16, <1>17

\* The kernels on selected positions agree with the aggregates of the rows there.
SelectionAgrees(values, sel, hit, col) ==
    /\ Weight(hit, col) <= Exact =>
         pushSumSelected(values, sel) = IF Filled(hit, col) THEN Num(aggregate(hit, "sum", col)) ELSE NaN
    /\ pushMinSelected(values, sel) = IF Blank(hit, col) THEN Infinity(1) ELSE Num(aggregate(hit, "min", col))
    /\ pushMaxSelected(values, sel) = IF Blank(hit, col) THEN Infinity(-1) ELSE Num(aggregate(hit, "max", col))

LEMMA SelectedAgrees ==
    ASSUME NEW rows \in Seq(AllRows), NEW col, NEW values, values = columnize(rows, col).values,
           NEW S, NEW sel, sel = Positions(S, Len(rows)), NEW hit, hit = Picked(rows, S)
    PROVE  SelectionAgrees(values, sel, hit, col)
<1>1. PICK cells : cells = FloatsOf(hit, col)
  OBVIOUS
<1>2. hit \in Seq(AllRows) /\ Selected(values, sel) = cells
  BY <1>1, SelectedCells
<1>3. SumAgrees(hit, col) /\ ExtremesAgree(hit, col)
  BY <1>2, SumsAgree, ExtremesAre
<1>4. pushSumSelected(values, sel) = KahanSum(cells)
  BY <1>2 DEF pushSumSelected
<1>5. pushMinSelected(values, sel) = Least(cells)
  BY <1>2 DEF pushMinSelected, Least
<1>6. pushMaxSelected(values, sel) = Greatest(cells)
  BY <1>2 DEF pushMaxSelected, Greatest
<1> QED
  BY <1>1, <1>3, <1>4, <1>5, <1>6, Zenon DEF SelectionAgrees, SumAgrees, ExtremesAgree

\* A filter on a column selects what a filter on the rows matches.
Comparisons == {"eq", "ne", "gt", "gte", "lt", "lte"}
Hits(rows, col, op, x) == {i \in DOMAIN rows : matchesWhere(rows[i], {[col |-> col, op |-> op, val |-> Num(x)]})}

LEMMA FiltersAgree ==
    ASSUME NEW rows \in Seq(AllRows), NEW col, NEW op \in Comparisons, NEW x \in Int
    PROVE  pushFilterF64(columnize(rows, col).values, op, x) = Positions(Hits(rows, col, op, x), Len(rows))
<1>0. PICK values, S : values = columnize(rows, col).values /\ S = Hits(rows, col, op, x)
  OBVIOUS
<1>2. /\ Len(values) = Len(rows) /\ DOMAIN values = DOMAIN rows
      /\ \A i \in DOMAIN rows : values[i] = IF Cell(rows[i], col).t = "num" THEN Cell(rows[i], col) ELSE NaN
  BY <1>0, ColumnizeWorks
<1>3. S = {i \in DOMAIN rows : Check(Cell(rows[i], col), op, Num(x))}
  BY <1>0 DEF matchesWhere, Hits
<1>4. ASSUME NEW v \in Cells
      PROVE  /\ v.t = "num" => (Check(v, op, Num(x)) <=> Compare(v.v, op, x)) /\ (cmpF64(v, op, x) <=> Compare(v.v, op, x))
             /\ v.t # "num" => (Check(v, op, Num(x)) <=> op = "ne") /\ (cmpF64(NaN, op, x) <=> op = "ne")
  <2>1. v.t = "num" => v = Num(v.v) /\ v # NaN
    BY DEF Cells, Num, Str, Null, Undef, NaN
  <2>2. v.t # "num" => v # Num(x)
    BY DEF Num
  <2>3. Num(x).t = "num" /\ Num(x).v = x /\ \A y : Num(y) = Num(x) <=> y = x
    BY DEF Num
  <2>4. ASSUME v.t = "num" PROVE Check(v, op, Num(x)) <=> Compare(v.v, op, x)
    BY <2>1, <2>3, <2>4 DEF Check, Compare, Comparisons
  <2>5. ASSUME v.t # "num" PROVE Check(v, op, Num(x)) <=> op = "ne"
    BY <2>2, <2>5 DEF Check, Comparisons
  <2> QED
    BY <2>1, <2>4, <2>5 DEF cmpF64
<1>5. \A i \in DOMAIN rows : Cell(rows[i], col) \in Cells
  BY CellIsCell
<1>6. {i \in DOMAIN values : cmpF64(values[i], op, x)} = S
  <2>1. ASSUME NEW i \in DOMAIN rows PROVE cmpF64(values[i], op, x) <=> Check(Cell(rows[i], col), op, Num(x))
    BY <1>2, <1>4, <1>5
  <2> QED
    BY <1>2, <1>3, <2>1
<1> QED
  BY <1>0, <1>2, <1>6 DEF pushFilterF64

\* On numbers the two filters differ in the target only.
LEMMA WordsAgree ==
    ASSUME NEW rows \in Seq(AllRows), NEW col, Filled(rows, col), NEW op, NEW x,
           NEW values, values = columnize(rows, col).values, NEW us, us = [i \in DOMAIN rows |-> rows[i][col].v]
    PROVE  pushFilterU32(us, op, x) = pushFilterF64(values, op, x % Word32)
<1>1. PICK y : y = x % Word32
  OBVIOUS
<1>2. /\ Len(values) = Len(rows) /\ DOMAIN values = DOMAIN rows
      /\ \A i \in DOMAIN rows : values[i] = IF Cell(rows[i], col).t = "num" THEN Cell(rows[i], col) ELSE NaN
  BY ColumnizeWorks
<1>3. Len(rows) \in Nat /\ DOMAIN rows = 1 .. Len(rows) /\ Len(us) = Len(rows) /\ DOMAIN us = DOMAIN rows
  OBVIOUS
<1>4. ASSUME NEW i \in DOMAIN rows PROVE cmpU32(us[i], op, y) <=> cmpF64(values[i], op, y)
  <2>1. Cell(rows[i], col).t = "num"
    BY DEF Filled, Range
  <2>2. Cell(rows[i], col) # Undef /\ values[i] = Cell(rows[i], col)
    BY <1>2, <2>1 DEF Undef
  <2>3. us[i] = values[i].v
    BY <2>2 DEF Cell
  <2>4. values[i] # NaN
    BY <2>1, <2>2 DEF NaN
  <2> QED
    BY <2>3, <2>4 DEF cmpU32, cmpF64
<1>5. {i \in DOMAIN us : cmpU32(us[i], op, y)} = {i \in DOMAIN values : cmpF64(values[i], op, y)}
  BY <1>2, <1>3, <1>4
<1>6. Positions({i \in DOMAIN us : cmpU32(us[i], op, y)}, Len(us)) = Positions({i \in DOMAIN values : cmpF64(values[i], op, y)}, Len(values))
  BY <1>2, <1>3, <1>5
<1> QED
  BY <1>1, <1>6 DEF pushFilterU32, pushFilterF64

LEMMA ScanPicks ==
    ASSUME NEW t, IsTable(t), NEW rows, rows = RowsOf(t), NEW where
    PROVE  /\ scan(t, where) = Picked(rows, {i \in DOMAIN rows : matchesWhere(rows[i], where)})
           /\ where = {} => scan(t, where) = rows
<1>1. scan(t, where) = Picked(rows, {i \in DOMAIN rows : matchesWhere(rows[i], where)})
  BY DEF scan, RowsOf
<1>2. ASSUME where = {} PROVE scan(t, where) = rows
  <2>1. DOMAIN rows \subseteq {i \in DOMAIN rows : matchesWhere(rows[i], where)}
    BY <1>2 DEF matchesWhere
  <2>2. rows \in Seq(AllRows)
    BY RowsOfTable
  <2> QED
    BY <1>1, <2>1, <2>2, PickedWorks
<1> QED
  BY <1>1, <1>2

\* What PushdownAgrees says of one filter, and of one column.
FilterAgrees(t, rows, c, col, op, x) ==
    LET sel == pushFilterF64(c.values, op, x)
        hit == scan(t, {[col |-> col, op |-> op, val |-> Num(x)]})
    IN  /\ [i \in DOMAIN sel |-> rows[sel[i]]] = hit
        /\ Filled(rows, col) => pushFilterU32([i \in DOMAIN rows |-> rows[i][col].v], op, x) =
                                  pushFilterF64(c.values, op, x % Word32)
        /\ SelectionAgrees(c.values, sel, hit, col)

ColumnAgrees(rows, c, col) ==
    /\ Weight(rows, col) <= Exact =>
         /\ pushSumSelected(c.values, c.valid) = Num(aggregate(rows, "sum", col))
         /\ Filled(rows, col) => pushSum(c.values) = Num(aggregate(rows, "sum", col))
    /\ pushMinSelected(c.values, c.valid) = Num(aggregate(rows, "min", col))
    /\ pushMaxSelected(c.values, c.valid) = Num(aggregate(rows, "max", col))
    /\ c.valid # <<>> => aggregate(rows, "avg", col) = << aggregate(rows, "sum", col), Len(c.valid) >>

LEMMA FilterWorks ==
    ASSUME NEW t, IsTable(t), NEW rows, rows = RowsOf(t), NEW col, NEW c, c = columnize(rows, col),
           NEW op \in Comparisons, NEW x \in Int
    PROVE  FilterAgrees(t, rows, c, col, op, x)
<1>1. rows \in Seq(AllRows)
  BY RowsOfTable
<1>2. PICK where, S, values : /\ where = {[col |-> col, op |-> op, val |-> Num(x)]}
                              /\ S = Hits(rows, col, op, x)
                              /\ values = c.values
  OBVIOUS
<1>3. PICK sel, hit, us : /\ sel = pushFilterF64(values, op, x) /\ hit = scan(t, where)
                          /\ us = [i \in DOMAIN rows |-> rows[i][col].v]
  OBVIOUS
<1>4. values = columnize(rows, col).values
  BY <1>2
<1>5. sel = Positions(S, Len(rows))
  BY <1>1, <1>2, <1>3, <1>4, FiltersAgree
<1>6. hit = Picked(rows, S)
  BY <1>2, <1>3, ScanPicks DEF Hits
<1>7. [i \in DOMAIN sel |-> rows[sel[i]]] = hit
  BY <1>5, <1>6 DEF Picked
<1>8. SelectionAgrees(values, sel, hit, col)
  BY <1>1, <1>4, <1>5, <1>6, SelectedAgrees
<1>9. Filled(rows, col) => pushFilterU32(us, op, x) = pushFilterF64(values, op, x % Word32)
  BY <1>1, <1>3, <1>4, WordsAgree
<1> QED
  BY <1>2, <1>3, <1>7, <1>8, <1>9, Zenon DEF FilterAgrees

LEMMA ColumnWorks ==
    ASSUME NEW rows \in Seq(AllRows), NEW col, NEW c, c = columnize(rows, col)
    PROVE  ColumnAgrees(rows, c, col)
<1>1. PICK S, some, a, values, sel : /\ S = Counted(rows, col) /\ some = Picked(rows, S) /\ a = Accumulated(rows, col)
                                     /\ values = c.values /\ sel = c.valid
  OBVIOUS
<1>2. sel = Positions(S, Len(rows)) /\ values = columnize(rows, col).values
  BY <1>1, ColumnizeValid DEF Counted
<1>3. /\ some \in Seq(AllRows) /\ Len(some) = Len(sel) /\ DOMAIN some = 1 .. Len(sel) /\ Lists(sel, S, Len(rows))
      /\ \A i \in 1 .. Len(sel) : sel[i] \in DOMAIN rows /\ some[i] = rows[sel[i]]
  BY <1>1, <1>2, PickedWorks
<1>4. sel \in Seq(Nat) /\ Len(sel) \in Nat /\ \A i \in DOMAIN some : Cell(some[i], col).t = "num"
  <2>1. sel \in Seq(Nat) /\ \A i \in 1 .. Len(sel) : sel[i] \in S
    BY <1>3 DEF Lists
  <2>2. ASSUME NEW i \in DOMAIN some PROVE Cell(some[i], col).t = "num"
    <3>1. some[i] = rows[sel[i]] /\ sel[i] \in S
      BY <1>3, <2>1
    <3> QED
      BY <1>1, <3>1 DEF Counted
  <2> QED
    BY <1>3, <2>1, <2>2
<1>5. Filled(some, col) /\ ~Blank(some, col)
  <2>1. Filled(some, col)
    BY <1>4 DEF Filled, Range
  <2>2. ASSUME some # <<>> PROVE \E r \in Range(some) : Cell(r, col).t = "num"
    <3>1. 1 \in DOMAIN some
      BY <1>3, <1>4, <2>2
    <3> QED
      BY <1>4, <3>1 DEF Range
  <2> QED
    BY <2>1, <2>2 DEF Blank
<1>6. Weight(some, col) = Weight(rows, col)
  BY <1>1, WeightSkips DEF Counted
<1>7. a = Accumulated(some, col)
  BY <1>1, SkipsWork DEF Counted
<1>8. a.count = Len(some)
  <2>1. PICK cells : cells = CellsOf(some, col)
    OBVIOUS
  <2> QED
    BY <1>3, <1>4, <1>7, <2>1, LoopsAgree
<1>9. \A fn \in {"sum", "min", "max"} : aggregate(rows, fn, col) = aggregate(some, fn, col)
  <2>1. a.count \in Nat
    BY <1>3, <1>4, <1>8
  <2>2. /\ a.count = 0 => \A fn \in {"sum", "avg", "min", "max"} : aggregate(rows, fn, col) = 0
        /\ a.count > 0 => /\ aggregate(rows, "sum", col) = a.sum
                          /\ aggregate(rows, "min", col) = a.min
                          /\ aggregate(rows, "max", col) = a.max
    BY <1>1, <2>1, AggregateIs
  <2>3. /\ a.count = 0 => \A fn \in {"sum", "avg", "min", "max"} : aggregate(some, fn, col) = 0
        /\ a.count > 0 => /\ aggregate(some, "sum", col) = a.sum
                          /\ aggregate(some, "min", col) = a.min
                          /\ aggregate(some, "max", col) = a.max
    BY <1>7, <2>1, AggregateIs
  <2> QED
    BY <2>1, <2>2, <2>3
<1>10. SelectionAgrees(values, sel, some, col)
  BY <1>1, <1>2, SelectedAgrees
<1>11. /\ Weight(rows, col) <= Exact => pushSumSelected(values, sel) = Num(aggregate(rows, "sum", col))
       /\ pushMinSelected(values, sel) = Num(aggregate(rows, "min", col))
       /\ pushMaxSelected(values, sel) = Num(aggregate(rows, "max", col))
  BY <1>5, <1>6, <1>9, <1>10 DEF SelectionAgrees
<1>12. ASSUME sel # <<>>
       PROVE  aggregate(rows, "avg", col) = << aggregate(rows, "sum", col), Len(sel) >>
  <2>1. a.count = Len(sel) /\ a.count > 0 /\ a.count \in Nat
    BY <1>3, <1>4, <1>8, <1>12
  <2>2. aggregate(rows, "sum", col) = a.sum /\ aggregate(rows, "avg", col) = << a.sum, a.count >>
    BY <1>1, <2>1, AggregateIs
  <2> QED
    BY <2>1, <2>2
<1>13. ASSUME Filled(rows, col), Weight(rows, col) <= Exact PROVE pushSum(values) = Num(aggregate(rows, "sum", col))
  <2>1. values = FloatsOf(rows, col)
    <3>1. /\ values \in Seq(Cells \cup {NaN}) /\ DOMAIN values = DOMAIN rows
          /\ \A i \in DOMAIN rows : values[i] = IF Cell(rows[i], col).t = "num" THEN Cell(rows[i], col) ELSE NaN
      BY <1>2, ColumnizeWorks
    <3>2. values = [i \in DOMAIN rows |-> values[i]]
      BY <3>1
    <3> QED
      BY <3>1, <3>2 DEF FloatsOf
  <2>2. SumAgrees(rows, col)
    BY SumsAgree
  <2> QED
    BY <1>13, <2>1, <2>2 DEF SumAgrees, pushSum
<1> QED
  BY <1>1, <1>11, <1>12, <1>13, Zenon DEF ColumnAgrees

\* The same, written as PushdownAgrees writes it.
FilterExact(t, rows, c, col, op, x) ==
    LET Agg(rs, fn) == Num(aggregate(rs, fn, col))
        IsNum(r) == Cell(r, col).t = "num"
        Whole(rs) == \A r \in Range(rs) : IsNum(r)
        Void(rs)  == rs # <<>> /\ \A r \in Range(rs) : ~IsNum(r)
        words == \A r \in Range(rows) : IsNum(r) /\ Cell(r, col).v \in 0 .. Word32 - 1
        sel == pushFilterF64(c.values, op, x)
        hit == scan(t, {[col |-> col, op |-> op, val |-> Num(x)]})
    IN  /\ [i \in DOMAIN sel |-> rows[sel[i]]] = hit
        /\ words => pushFilterU32([i \in DOMAIN rows |-> rows[i][col].v], op, x) =
                       pushFilterF64(c.values, op, x % Word32)
        /\ Weight(hit, col) <= Exact =>
             pushSumSelected(c.values, sel) = IF Whole(hit) THEN Agg(hit, "sum") ELSE NaN
        /\ pushMinSelected(c.values, sel) = IF Void(hit) THEN Infinity(1) ELSE Agg(hit, "min")
        /\ pushMaxSelected(c.values, sel) = IF Void(hit) THEN Infinity(-1) ELSE Agg(hit, "max")

ColumnExact(t, rows, c, col) ==
    LET Agg(rs, fn) == Num(aggregate(rs, fn, col))
        IsNum(r) == Cell(r, col).t = "num"
        Whole(rs) == \A r \in Range(rs) : IsNum(r)
    IN  /\ \A op \in {"eq", "ne", "gt", "gte", "lt", "lte"}, x \in use.targets : FilterExact(t, rows, c, col, op, x)
        /\ Weight(rows, col) <= Exact =>
             /\ pushSumSelected(c.values, c.valid) = Agg(rows, "sum")
             /\ Whole(rows) => pushSum(c.values) = Agg(rows, "sum")
        /\ pushMinSelected(c.values, c.valid) = Agg(rows, "min")
        /\ pushMaxSelected(c.values, c.valid) = Agg(rows, "max")
        /\ c.valid # <<>> => aggregate(rows, "avg", col) = << aggregate(rows, "sum", col), Len(c.valid) >>

\* The columnar kernels answer what scan and aggregate answer, for every table,
\* operator and target: pushFilterF64 and pushFilterU32, pushSum and
\* pushSumSelected where no sum is rounded, pushMinSelected and pushMaxSelected.
THEOREM PushdownIsExact == Spec => []PushdownAgrees
<1>1. RelInv => PushdownAgrees
  <2> SUFFICES ASSUME RelInv PROVE PushdownAgrees
    OBVIOUS
  <2>0. use.targets \subseteq Int
    BY SessionAssumption DEF RelInv, VarsTyped, TypeOK
  <2>1. ASSUME NEW n \in DOMAIN tables, NEW col \in use.columns, NEW t, t = tables[n],
               NEW rows, rows = scan(t, {}), NEW c, c = columnize(rows, col)
        PROVE  ColumnAgrees(rows, c, col) /\ \A op \in Comparisons, x \in use.targets : FilterAgrees(t, rows, c, col, op, x)
    <3>1. IsTable(t)
      BY <2>1 DEF RelInv, CatalogInv, IsCatalog, IsTables, Database
    <3>2. rows = RowsOf(t)
      <4>1. PICK r : r = RowsOf(t)
        OBVIOUS
      <4>2. scan(t, {}) = r
        BY <3>1, <4>1, ScanPicks
      <4> QED
        BY <2>1, <4>1, <4>2
    <3>3. rows \in Seq(AllRows)
      BY <3>1, <3>2, RowsOfTable
    <3>4. ColumnAgrees(rows, c, col)
      BY <2>1, <3>3, ColumnWorks
    <3>5. \A op \in Comparisons, x \in Int : FilterAgrees(t, rows, c, col, op, x)
      BY <2>1, <3>1, <3>2, FilterWorks
    <3> QED
      BY <2>0, <3>4, <3>5
  <2>2. ASSUME NEW n \in DOMAIN tables, NEW col \in use.columns, NEW t, t = tables[n],
               NEW rows, rows = scan(t, {}), NEW c, c = columnize(rows, col)
        PROVE  ColumnExact(t, rows, c, col)
    <3>1. ColumnAgrees(rows, c, col)
      BY <2>1, <2>2
    <3>2. ASSUME NEW op \in Comparisons, NEW x \in use.targets PROVE FilterAgrees(t, rows, c, col, op, x)
      BY <2>1, <2>2
    <3>3. ASSUME NEW op \in Comparisons, NEW x \in use.targets PROVE FilterExact(t, rows, c, col, op, x)
      BY <3>2, Zenon DEF FilterAgrees, FilterExact, SelectionAgrees, Filled, Blank
    <3> QED
      BY <3>1, <3>3, Zenon DEF ColumnExact, ColumnAgrees, Comparisons, Filled
  <2>3. ASSUME NEW n \in DOMAIN tables, NEW col \in use.columns
        PROVE  ColumnExact(tables[n], scan(tables[n], {}), columnize(scan(tables[n], {}), col), col)
    BY <2>2, Zenon
  <2> QED
    BY <2>3, ZenonT(60) DEF PushdownAgrees, ColumnExact, FilterExact
<1> QED
  BY <1>1, RelationalInvariant, PTL

-----------------------------------------------------------------------------
(* The join.                                                               *)

Renderings == {String(x) : x \in Cells}
HashMaps == UNION {[D -> Seq(AllRows)] : D \in SUBSET Renderings}

\* The rows a map holds under a text, after one more row.
LEMMA HashRowWorks ==
    ASSUME NEW m \in HashMaps, NEW row \in AllRows, NEW key
    PROVE  /\ HashRow(m, row, key) \in HashMaps
           /\ \A k : Under(m, k) \in Seq(AllRows)
           /\ \A k : Under(HashRow(m, row, key), k) =
                      IF k = String(Cell(row, key)) THEN Append(Under(m, k), row) ELSE Under(m, k)
<1>0. PICK text : text = String(Cell(row, key))
  OBVIOUS
<1>1. PICK D \in SUBSET Renderings : m \in [D -> Seq(AllRows)]
  BY DEF HashMaps
<1>2. text \in Renderings
  BY <1>0, CellIsCell DEF Renderings
<1>3. \A k : Under(m, k) \in Seq(AllRows)
  BY <1>1 DEF Under
<1>4. PICK u : u = Append(Under(m, text), row)
  OBVIOUS
<1>5. u \in Seq(AllRows)
  BY <1>3, <1>4
<1>6. HashRow(m, row, key) = [x \in D \cup {text} |-> IF x = text THEN u ELSE m[x]]
  BY <1>0, <1>1, <1>4 DEF HashRow, Put
<1>7. HashRow(m, row, key) \in [D \cup {text} -> Seq(AllRows)] /\ D \cup {text} \in SUBSET Renderings
  BY <1>1, <1>2, <1>5, <1>6
<1>8. ASSUME NEW k
      PROVE  Under(HashRow(m, row, key), k) = IF k = text THEN Append(Under(m, k), row) ELSE Under(m, k)
  BY <1>1, <1>4, <1>6 DEF Under
<1> QED
  BY <1>0, <1>3, <1>7, <1>8 DEF HashMaps

\* The map of the left rows is built along g.
Hashing(g, rows, key) ==
    g[0] = <<>> /\ \A k \in 1 .. Len(rows) : g[k] = HashRow(g[k - 1], rows[k], key)

LEMMA HashedLoop ==
    ASSUME NEW rows \in Seq(AllRows), NEW key
    PROVE  \E g : Hashing(g, rows, key) /\ g[Len(rows)] = Hashed(rows, key)
<1> DEFINE n == Len(rows)
           F == [k \in 1 .. n |-> [m \in HashMaps |-> HashRow(m, rows[k], key)]]
           body(g) == [k \in 0 .. n |-> IF k = 0 THEN <<>> ELSE HashRow(g[k - 1], rows[k], key)]
           map == CHOOSE g : g = body(g)
<1>1. n \in Nat /\ <<>> \in HashMaps /\ \A k \in 1 .. n : rows[k] \in AllRows
  <2>1. \A D \in SUBSET Renderings : \A m \in [D -> Seq(AllRows)] : m \in HashMaps
    BY DEF HashMaps
  <2>2. {} \in SUBSET Renderings /\ <<>> \in [{} -> Seq(AllRows)]
    OBVIOUS
  <2>3. <<>> \in HashMaps
    BY <2>1, <2>2, Zenon
  <2> QED
    BY <2>3
<1>2. StepsIn(F, n, HashMaps)
  <2>1. ASSUME NEW k \in 1 .. n, NEW m \in HashMaps PROVE HashRow(m, rows[k], key) \in HashMaps
    <3>1. rows[k] \in AllRows
      BY <1>1
    <3> QED
      BY <3>1, HashRowWorks
  <2> QED
    BY <2>1 DEF StepsIn
<1>3. PICK g : Loop(g, F, n, HashMaps, <<>>)
  <2> HIDE DEF F, n
  <2> QED
    BY <1>1, <1>2, LoopExists, Zenon
<1> HIDE DEF n
<1> DEFINE value(h, k) == IF k = 0 THEN <<>> ELSE HashRow(h[k - 1], rows[k], key)
<1>4. g = body(g)
  <2>1. g = [k \in 0 .. n |-> g[k]] /\ g[0] = <<>>
    BY <1>3 DEF Loop
  <2>2. ASSUME NEW k \in 1 .. n PROVE g[k] = HashRow(g[k - 1], rows[k], key)
    <3>1. g[k - 1] \in HashMaps /\ g[k] = F[k][g[k - 1]]
      BY <1>1, <1>3 DEF Loop, Follows
    <3> QED
      BY <3>1
  <2>3. ASSUME NEW k \in 0 .. n PROVE g[k] = value(g, k)
    <3>1. CASE k = 0
      BY <2>1, <3>1
    <3>2. CASE k # 0
      <4>1. k \in 1 .. n
        BY <1>1, <3>2
      <4> QED
        BY <2>2, <3>2, <4>1
    <3> QED
      BY <3>1, <3>2
  <2> HIDE DEF value
  <2>4. g = [k \in 0 .. n |-> value(g, k)]
    BY <2>1, <2>3, Zenon
  <2> QED
    BY <2>4 DEF value
<1>5. map = body(map)
  <2> HIDE DEF body
  <2> QED
    BY <1>4
<1>6. Hashed(rows, key) = map[n]
  BY DEF Hashed, n
<1> HIDE DEF map
<1>7. map = [k \in 0 .. n |-> value(map, k)]
  BY <1>5
<1>8. map[0] = <<>> /\ \A k \in 1 .. n : map[k] = HashRow(map[k - 1], rows[k], key)
  <2>1. \A k \in 0 .. n : map[k] = value(map, k)
    <3> HIDE DEF value
    <3> QED
      BY <1>7
  <2> QED
    BY <1>1, <2>1
<1> QED
  BY <1>6, <1>8 DEF Hashing, n

\* What a list of positions picks.
PickAt(s, at) == [i \in DOMAIN at |-> s[at[i]]]

LEMMA AppendPicks ==
    ASSUME NEW A, NEW s \in Seq(A), NEW at \in Seq(DOMAIN s), NEW j \in DOMAIN s
    PROVE  PickAt(s, Append(at, j)) = Append(PickAt(s, at), s[j]) /\ PickAt(s, at) \in Seq(A)
<1>1. DOMAIN s = 1 .. Len(s) /\ \A i \in DOMAIN s : s[i] \in A
  OBVIOUS
<1>2. PICK x, b : x = PickAt(s, at) /\ b = Append(at, j)
  OBVIOUS
<1>3. x = [i \in 1 .. Len(at) |-> s[at[i]]] /\ x \in Seq(A) /\ Len(x) = Len(at)
  <2>1. Len(at) \in Nat /\ DOMAIN at = 1 .. Len(at) /\ \A i \in 1 .. Len(at) : s[at[i]] \in A
    BY <1>1
  <2>2. x = [i \in 1 .. Len(at) |-> s[at[i]]]
    BY <1>2, <2>1 DEF PickAt
  <2> QED
    BY <2>1, <2>2
<1>4. /\ DOMAIN b = 1 .. Len(at) + 1 /\ b[Len(at) + 1] = j
      /\ \A i \in 1 .. Len(at) : b[i] = at[i]
  BY <1>2
<1>5. PickAt(s, b) = [i \in 1 .. Len(at) + 1 |-> s[b[i]]]
  BY <1>4 DEF PickAt
<1>6. /\ Append(x, s[j]) = [i \in 1 .. Len(at) + 1 |-> Append(x, s[j])[i]]
      /\ Append(x, s[j])[Len(at) + 1] = s[j] /\ \A i \in 1 .. Len(at) : Append(x, s[j])[i] = s[at[i]]
  BY <1>3
<1>7. \A i \in 1 .. Len(at) + 1 : s[b[i]] = Append(x, s[j])[i]
  <2>1. \A i \in 1 .. Len(at) + 1 : i = Len(at) + 1 \/ i \in 1 .. Len(at)
    OBVIOUS
  <2> QED
    BY <1>4, <1>6, <2>1
<1>8. PickAt(s, b) = Append(x, s[j])
  BY <1>5, <1>6, <1>7
<1> QED
  BY <1>2, <1>3, <1>8

\* Under a text the map holds the rows with that text, in order.
LEMMA HashedWorks ==
    ASSUME NEW rows \in Seq(AllRows), NEW key, NEW text,
           NEW S, S = {j \in DOMAIN rows : text = String(Cell(rows[j], key))}
    PROVE  Hashed(rows, key) \in HashMaps /\ Under(Hashed(rows, key), text) = PickAt(rows, Positions(S, Len(rows)))
<1> DEFINE n == Len(rows)
<1>1. n \in Nat /\ DOMAIN rows = 1 .. n /\ \A k \in 1 .. n : rows[k] \in AllRows
  OBVIOUS
<1>2. PICK g : Hashing(g, rows, key) /\ g[n] = Hashed(rows, key)
  BY HashedLoop
<1> DEFINE Good(k) == g[k] \in HashMaps /\ Under(g[k], text) = PickAt(rows, Positions(S, k))
           T == {k \in Nat : k <= n => Good(k)}
<1>3. 0 \in T
  <2>1. g[0] = <<>> /\ Positions(S, 0) = <<>>
    BY <1>2, PositionsStep DEF Hashing
  <2>2. <<>> \in [{} -> Seq(AllRows)] /\ {} \in SUBSET Renderings
    OBVIOUS
  <2>3. Under(<<>>, text) = <<>> /\ PickAt(rows, <<>>) = <<>>
    BY DEF Under, PickAt
  <2> QED
    BY <2>1, <2>2, <2>3 DEF HashMaps
<1>4. ASSUME NEW k \in T PROVE k + 1 \in T
  <2> SUFFICES ASSUME k + 1 <= n PROVE Good(k + 1)
    OBVIOUS
  <2>1. Good(k) /\ k \in Nat /\ k + 1 \in 1 .. n /\ (k + 1) - 1 = k /\ k <= n
    BY <1>4
  <2>2. PICK m, row, at, t : m = g[k] /\ row = rows[k + 1] /\ at = Positions(S, k) /\ t = String(Cell(row, key))
    OBVIOUS
  <2>3. g[k + 1] = HashRow(m, row, key)
    <3>1. g[k + 1] = HashRow(g[(k + 1) - 1], rows[k + 1], key)
      BY <1>2, <2>1 DEF Hashing
    <3> QED
      BY <2>1, <2>2, <3>1
  <2>4. m \in HashMaps /\ row \in AllRows /\ Under(m, text) = PickAt(rows, at)
    BY <1>1, <2>1, <2>2
  <2>5. /\ HashRow(m, row, key) \in HashMaps
        /\ Under(HashRow(m, row, key), text) = IF text = t THEN Append(Under(m, text), row) ELSE Under(m, text)
    <3>1. /\ HashRow(m, row, key) \in HashMaps
          /\ \A k2 : Under(HashRow(m, row, key), k2) =
                       IF k2 = String(Cell(row, key)) THEN Append(Under(m, k2), row) ELSE Under(m, k2)
      BY <2>4, HashRowWorks
    <3> QED
      BY <2>2, <3>1
  <2>6. Positions(S, k + 1) = (IF k + 1 \in S THEN Append(at, k + 1) ELSE at) /\ (k + 1 \in S <=> text = t)
    BY <1>1, <2>1, <2>2, PositionsStep
  <2>7. at \in Seq(DOMAIN rows)
    <3>1. Lists(at, S, k)
      BY <2>1, <2>2, PositionsList
    <3>2. at \in Seq(Nat) /\ \A i \in 1 .. Len(at) : at[i] \in 1 .. k
      BY <3>1 DEF Lists
    <3>3. Len(at) \in Nat /\ at = [i \in 1 .. Len(at) |-> at[i]]
      BY <3>2
    <3>4. \A i \in 1 .. k : i \in DOMAIN rows
      BY <1>1, <2>1
    <3>5. \A i \in 1 .. Len(at) : at[i] \in DOMAIN rows
      BY <3>2, <3>4
    <3> QED
      BY <3>3, <3>5
  <2>8. PickAt(rows, Append(at, k + 1)) = Append(PickAt(rows, at), row)
    <3>1. k + 1 \in DOMAIN rows /\ rows[k + 1] = row
      BY <1>1, <2>1, <2>2
    <3> QED
      BY <2>7, <3>1, AppendPicks
  <2> QED
    BY <2>3, <2>4, <2>5, <2>6, <2>8
<1> HIDE DEF T
<1>5. \A k \in Nat : k \in T
  <2>1. T \subseteq Nat
    BY DEF T
  <2> QED
    BY <1>3, <1>4, <2>1, InductionOnSets
<1>6. Good(n)
  BY <1>1, <1>5 DEF T
<1> QED
  BY <1>2, <1>6

\* The pairs of a list of left rows with a right row, and of positions.
JoinRows == [left : AllRows, right : AllRows]
JoinHits == [right : Nat, left : Nat]
Nest(js, i) == [m \in DOMAIN js |-> [right |-> i, left |-> js[m]]]

LEMMA PairsWork ==
    /\ \A hits \in Seq(AllRows), row \in AllRows : Pairs(hits, row) \in Seq(JoinRows)
    /\ \A js \in Seq(Nat), i \in Nat : Nest(js, i) \in Seq(JoinHits)
<1>1. ASSUME NEW hits \in Seq(AllRows), NEW row \in AllRows PROVE Pairs(hits, row) \in Seq(JoinRows)
  <2>1. Len(hits) \in Nat /\ DOMAIN hits = 1 .. Len(hits) /\ \A i \in DOMAIN hits : hits[i] \in AllRows
    OBVIOUS
  <2>2. Pairs(hits, row) = [i \in 1 .. Len(hits) |-> [left |-> hits[i], right |-> row]]
    BY <2>1 DEF Pairs
  <2>3. \A i \in 1 .. Len(hits) : [left |-> hits[i], right |-> row] \in JoinRows
    BY <2>1 DEF JoinRows
  <2> QED
    BY <2>1, <2>2, <2>3
<1>2. ASSUME NEW js \in Seq(Nat), NEW i \in Nat PROVE Nest(js, i) \in Seq(JoinHits)
  <2>1. Len(js) \in Nat /\ DOMAIN js = 1 .. Len(js) /\ \A m \in DOMAIN js : js[m] \in Nat
    OBVIOUS
  <2>2. Nest(js, i) = [m \in 1 .. Len(js) |-> [right |-> i, left |-> js[m]]]
    BY <2>1 DEF Nest
  <2>3. \A m \in 1 .. Len(js) : [right |-> i, left |-> js[m]] \in JoinHits
    BY <2>1 DEF JoinHits
  <2> QED
    BY <2>1, <2>2, <2>3
<1> QED
  BY <1>1, <1>2

\* The right rows probe the map along g.
Probing(g, map, rows, key) ==
    g[0] = <<>> /\ \A k \in 1 .. Len(rows) : g[k] = g[k - 1] \o Pairs(Under(map, String(Cell(rows[k], key))), rows[k])

LEMMA ProbedLoop ==
    ASSUME NEW rows \in Seq(AllRows), NEW key, NEW map, \A k : Under(map, k) \in Seq(AllRows)
    PROVE  \E g : Probing(g, map, rows, key) /\ g[Len(rows)] = Probed(map, rows, key)
<1> DEFINE n == Len(rows)
           E == Seq(JoinRows)
           more(k) == Pairs(Under(map, String(Cell(rows[k], key))), rows[k])
           F == [k \in 1 .. n |-> [e \in E |-> e \o more(k)]]
           body(g) == [k \in 0 .. n |-> IF k = 0 THEN <<>> ELSE g[k - 1] \o Pairs(Under(map, String(Cell(rows[k], key))), rows[k])]
           out == CHOOSE g : g = body(g)
<1>1. n \in Nat /\ <<>> \in E /\ \A k \in 1 .. n : more(k) \in E
  <2>1. \A k \in 1 .. n : rows[k] \in AllRows
    OBVIOUS
  <2> QED
    BY <2>1, PairsWork
<1>2. StepsIn(F, n, E)
  <2>1. \A e \in E, k \in 1 .. n : e \o more(k) \in E
    <3> HIDE DEF more
    <3> QED
      BY <1>1
  <2> HIDE DEF more, E
  <2> QED
    BY <2>1 DEF StepsIn
<1>3. PICK g : Loop(g, F, n, E, <<>>)
  <2> HIDE DEF F, n, E
  <2> QED
    BY <1>1, <1>2, LoopExists, Zenon
<1> HIDE DEF n, E
<1> DEFINE value(h, k) == IF k = 0 THEN <<>> ELSE h[k - 1] \o more(k)
<1>4. g = body(g)
  <2>1. g = [k \in 0 .. n |-> g[k]] /\ g[0] = <<>>
    BY <1>3 DEF Loop
  <2>2. ASSUME NEW k \in 1 .. n PROVE g[k] = g[k - 1] \o more(k)
    <3> HIDE DEF more
    <3>1. k - 1 \in 0 .. n /\ k \in 1 .. n
      BY <1>1
    <3>2. g[k - 1] \in E
      <4> HIDE DEF F, E
      <4> QED
        BY <1>3, <3>1 DEF Loop
    <3>3. g[k] = F[k][g[k - 1]]
      <4> HIDE DEF F
      <4> QED
        BY <1>3, <3>1 DEF Loop, Follows
    <3> QED
      BY <3>1, <3>2, <3>3
  <2>3. ASSUME NEW k \in 0 .. n PROVE g[k] = value(g, k)
    <3> HIDE DEF more
    <3>1. CASE k = 0
      BY <2>1, <3>1
    <3>2. CASE k # 0
      <4>1. k \in 1 .. n
        BY <1>1, <3>2
      <4> QED
        BY <2>2, <3>2, <4>1
    <3> QED
      BY <3>1, <3>2
  <2> HIDE DEF value
  <2>4. g = [k \in 0 .. n |-> value(g, k)]
    BY <2>1, <2>3, Zenon
  <2> QED
    BY <2>4 DEF value
<1>5. out = body(out)
  <2> HIDE DEF body
  <2> QED
    BY <1>4
<1>6. Probed(map, rows, key) = out[n]
  BY DEF Probed, n
<1> HIDE DEF out
<1>7. out = [k \in 0 .. n |-> value(out, k)]
  BY <1>5
<1>8. out[0] = <<>> /\ \A k \in 1 .. n : out[k] = out[k - 1] \o more(k)
  <2>1. \A k \in 0 .. n : out[k] = value(out, k)
    <3> HIDE DEF value
    <3> QED
      BY <1>7
  <2> HIDE DEF more
  <2>2. 0 \in 0 .. n /\ \A k \in 1 .. n : k \in 0 .. n /\ k # 0
    BY <1>1
  <2> QED
    BY <2>1, <2>2, Zenon
<1> QED
  BY <1>6, <1>8 DEF Probing, n

\* The nested loop goes along g.
Nesting(g, l, r, p) == g[0] = <<>> /\ \A k \in 1 .. Len(r) : g[k] = g[k - 1] \o Nest(Matches(l, r[k], p), k)

LEMMA NestedLoopLoop ==
    ASSUME NEW l \in Seq(AllRows), NEW r \in Seq(AllRows), NEW p
    PROVE  \E g : Nesting(g, l, r, p) /\ g[Len(r)] = NestedLoop(l, r, p) /\ \A k \in 0 .. Len(r) : g[k] \in Seq(JoinHits)
<1> DEFINE n == Len(r)
           E == Seq(JoinHits)
           more(k) == Nest(Matches(l, r[k], p), k)
           F == [k \in 1 .. n |-> [e \in E |-> e \o more(k)]]
           body(g) == [i \in 0 .. n |->
                         LET js == Matches(l, r[i], p)
                         IN  IF i = 0 THEN <<>> ELSE g[i - 1] \o [m \in DOMAIN js |-> [right |-> i, left |-> js[m]]]]
           hits == CHOOSE g : g = body(g)
<1>1. n \in Nat /\ <<>> \in E /\ \A k \in 1 .. n : more(k) \in E
  <2>1. ASSUME NEW k \in 1 .. n PROVE more(k) \in E
    <3>1. PICK S : S = {j \in DOMAIN l : String(Cell(r[k], p.rightKey)) = String(Cell(l[j], p.leftKey))}
      OBVIOUS
    <3>2. Lists(Positions(S, Len(l)), S, Len(l))
      BY PositionsList
    <3>3. Matches(l, r[k], p) \in Seq(Nat) /\ k \in Nat
      BY <3>1, <3>2 DEF Lists, Matches
    <3> QED
      BY <3>3, PairsWork
  <2> HIDE DEF more
  <2> QED
    BY <2>1
<1>2. StepsIn(F, n, E)
  <2>1. \A e \in E, k \in 1 .. n : e \o more(k) \in E
    <3> HIDE DEF more
    <3> QED
      BY <1>1
  <2> HIDE DEF more, E
  <2> QED
    BY <2>1 DEF StepsIn
<1>3. PICK g : Loop(g, F, n, E, <<>>)
  <2> HIDE DEF F, n, E
  <2> QED
    BY <1>1, <1>2, LoopExists, Zenon
<1> HIDE DEF n, E
<1> DEFINE value(h, k) == IF k = 0 THEN <<>> ELSE h[k - 1] \o more(k)
<1>4. g = [k \in 0 .. n |-> value(g, k)]
  <2>1. g = [k \in 0 .. n |-> g[k]] /\ g[0] = <<>>
    BY <1>3 DEF Loop
  <2>2. ASSUME NEW k \in 1 .. n PROVE g[k] = g[k - 1] \o more(k)
    <3> HIDE DEF more
    <3>1. k - 1 \in 0 .. n /\ k \in 1 .. n
      BY <1>1
    <3>2. g[k - 1] \in E
      <4> HIDE DEF F, E
      <4> QED
        BY <1>3, <3>1 DEF Loop
    <3>3. g[k] = F[k][g[k - 1]]
      <4> HIDE DEF F
      <4> QED
        BY <1>3, <3>1 DEF Loop, Follows
    <3> QED
      BY <3>1, <3>2, <3>3
  <2>3. ASSUME NEW k \in 0 .. n PROVE g[k] = value(g, k)
    <3> HIDE DEF more
    <3>1. CASE k = 0
      BY <2>1, <3>1
    <3>2. CASE k # 0
      <4>1. k \in 1 .. n
        BY <1>1, <3>2
      <4> QED
        BY <2>2, <3>2, <4>1
    <3> QED
      BY <3>1, <3>2
  <2> HIDE DEF value
  <2> QED
    BY <2>1, <2>3, Zenon
<1>5. hits = body(hits)
  <2>1. g = body(g)
    BY <1>4, Zenon DEF Nest
  <2> HIDE DEF body
  <2> QED
    BY <2>1
<1>6. NestedLoop(l, r, p) = hits[n]
  BY DEF NestedLoop, n
<1> HIDE DEF hits
<1>7. hits = [k \in 0 .. n |-> value(hits, k)]
  BY <1>5 DEF Nest
<1>8. hits[0] = <<>> /\ \A k \in 1 .. n : hits[k] = hits[k - 1] \o more(k)
  <2>1. \A k \in 0 .. n : hits[k] = value(hits, k)
    <3> HIDE DEF value
    <3> QED
      BY <1>7
  <2> HIDE DEF more
  <2>2. 0 \in 0 .. n /\ \A k \in 1 .. n : k \in 0 .. n /\ k # 0
    BY <1>1
  <2> QED
    BY <2>1, <2>2, Zenon
<1> DEFINE T == {k \in Nat : k <= n => hits[k] \in E}
<1>9. 0 \in T
  BY <1>1, <1>8
<1>10. ASSUME NEW k \in T PROVE k + 1 \in T
  <2> SUFFICES ASSUME k + 1 <= n PROVE hits[k + 1] \in E
    OBVIOUS
  <2>1. hits[k] \in E /\ k + 1 \in 1 .. n /\ (k + 1) - 1 = k
    BY <1>1, <1>10
  <2>2. hits[k + 1] = hits[k] \o more(k + 1) /\ more(k + 1) \in E
    BY <1>1, <1>8, <2>1
  <2> HIDE DEF more
  <2> QED
    BY <2>1, <2>2 DEF E
<1> HIDE DEF T
<1>11. \A k \in Nat : k \in T
  <2>1. T \subseteq Nat
    BY DEF T
  <2> QED
    BY <1>9, <1>10, <2>1, InductionOnSets
<1>12. \A k \in 0 .. n : hits[k] \in E
  BY <1>1, <1>11 DEF T
<1> QED
  BY <1>6, <1>8, <1>12 DEF Nesting, n, E

\* What the pairs of positions stand for.
View(hits, l, r) == [x \in DOMAIN hits |-> [left |-> l[hits[x].left], right |-> r[hits[x].right]]]

LEMMA ViewJoins ==
    ASSUME NEW l, NEW r, NEW a \in Seq(JoinHits), NEW b \in Seq(JoinHits)
    PROVE  View(a \o b, l, r) = View(a, l, r) \o View(b, l, r)
<1>1. /\ Len(a) \in Nat /\ DOMAIN a = 1 .. Len(a) /\ Len(b) \in Nat /\ DOMAIN b = 1 .. Len(b)
      /\ DOMAIN (a \o b) = 1 .. Len(a) + Len(b)
      /\ \A x \in 1 .. Len(a) + Len(b) : (a \o b)[x] = IF x <= Len(a) THEN a[x] ELSE b[x - Len(a)]
  OBVIOUS
<1> DEFINE see(x) == [left |-> l[x.left], right |-> r[x.right]]
<1>2. /\ View(a, l, r) = [x \in 1 .. Len(a) |-> see(a[x])]
      /\ View(b, l, r) = [x \in 1 .. Len(b) |-> see(b[x])]
      /\ View(a \o b, l, r) = [x \in 1 .. Len(a) + Len(b) |-> see((a \o b)[x])]
  BY <1>1 DEF View
<1> HIDE DEF see
<1>3. PICK va, vb, vc, c : va = View(a, l, r) /\ vb = View(b, l, r) /\ vc = View(a \o b, l, r) /\ c = a \o b
  OBVIOUS
<1>4. PICK V : \A x \in JoinHits : see(x) \in V
  <2>1. \A x \in JoinHits : see(x) \in {see(y) : y \in JoinHits}
    OBVIOUS
  <2> QED
    BY <2>1
<1>5. ASSUME NEW s \in Seq(JoinHits), NEW v, v = [x \in 1 .. Len(s) |-> see(s[x])]
      PROVE  v \in Seq(V) /\ Len(v) = Len(s)
  <2>1. Len(s) \in Nat /\ \A x \in 1 .. Len(s) : s[x] \in JoinHits
    OBVIOUS
  <2>2. \A x \in 1 .. Len(s) : see(s[x]) \in V
    BY <1>4, <2>1
  <2> QED
    BY <1>5, <2>1, <2>2
<1>6. ASSUME NEW x \in 1 .. Len(a) + Len(b) PROVE vc[x] = IF x <= Len(a) THEN va[x] ELSE vb[x - Len(a)]
  <2>1. vc[x] = see(c[x])
    BY <1>2, <1>3
  <2>2. CASE x <= Len(a)
    <3>1. x \in 1 .. Len(a) /\ c[x] = a[x]
      BY <1>1, <1>3, <2>2
    <3> QED
      BY <1>2, <1>3, <2>1, <2>2, <3>1
  <2>3. CASE ~(x <= Len(a))
    <3>1. x - Len(a) \in 1 .. Len(b) /\ c[x] = b[x - Len(a)]
      BY <1>1, <1>3, <2>3
    <3> QED
      BY <1>2, <1>3, <2>1, <2>3, <3>1
  <2> QED
    BY <2>2, <2>3
<1>7. c \in Seq(JoinHits) /\ Len(c) = Len(a) + Len(b)
  BY <1>1, <1>3
<1>8. va \in Seq(V) /\ Len(va) = Len(a) /\ vb \in Seq(V) /\ Len(vb) = Len(b)
  BY <1>2, <1>3, <1>5
<1>9. vc \in Seq(V) /\ Len(vc) = Len(a) + Len(b)
  <2>1. vc = [x \in 1 .. Len(c) |-> see(c[x])]
    BY <1>2, <1>3, <1>7
  <2> QED
    BY <1>5, <1>7, <2>1
<1>10. /\ va \o vb \in Seq(V) /\ Len(va \o vb) = Len(a) + Len(b)
       /\ \A x \in 1 .. Len(a) + Len(b) : (va \o vb)[x] = IF x <= Len(a) THEN va[x] ELSE vb[x - Len(a)]
  <2>1. va \in Seq(V) /\ vb \in Seq(V)
    BY <1>8
  <2>2. /\ va \o vb \in Seq(V) /\ Len(va \o vb) = Len(va) + Len(vb)
        /\ \A x \in 1 .. Len(va) + Len(vb) : (va \o vb)[x] = IF x <= Len(va) THEN va[x] ELSE vb[x - Len(va)]
    BY <2>1, ConcatProperties, Zenon
  <2>3. Len(va) = Len(a) /\ Len(vb) = Len(b)
    BY <1>8
  <2> QED
    BY <2>2, <2>3, Zenon
<1>11. vc = va \o vb
  BY <1>6, <1>9, <1>10, SeqEqual
<1> QED
  BY <1>3, <1>11

\* One right row: what the map holds under its text, against the nested loop's turn.
LEMMA TurnAgrees ==
    ASSUME NEW l \in Seq(AllRows), NEW r \in Seq(AllRows), NEW p, NEW i \in DOMAIN r,
           NEW js, js = Matches(l, r[i], p),
           NEW u, u = Under(Hashed(l, p.leftKey), String(Cell(r[i], p.rightKey)))
    PROVE  Pairs(u, r[i]) = View(Nest(js, i), l, r) /\ u \in Seq(AllRows) /\ Nest(js, i) \in Seq(JoinHits)
<1>1. PICK text, S : text = String(Cell(r[i], p.rightKey)) /\ S = {j \in DOMAIN l : text = String(Cell(l[j], p.leftKey))}
  OBVIOUS
<1>2. js = Positions(S, Len(l))
  BY <1>1 DEF Matches
<1>3. u = PickAt(l, js)
  BY <1>1, <1>2, HashedWorks
<1>4. Lists(js, S, Len(l)) /\ Len(l) \in Nat /\ DOMAIN l = 1 .. Len(l)
  BY <1>2, PositionsList
<1>5. js \in Seq(Nat) /\ Len(js) \in Nat /\ DOMAIN js = 1 .. Len(js) /\ \A m \in 1 .. Len(js) : js[m] \in DOMAIN l
  BY <1>4 DEF Lists
<1>6. u = [m \in 1 .. Len(js) |-> l[js[m]]]
  BY <1>3, <1>5 DEF PickAt
<1>7. u \in Seq(AllRows) /\ DOMAIN u = 1 .. Len(js)
  BY <1>5, <1>6
<1>8. Pairs(u, r[i]) = [m \in 1 .. Len(js) |-> [left |-> l[js[m]], right |-> r[i]]]
  BY <1>6, <1>7 DEF Pairs
<1>9. PICK nest : nest = Nest(js, i)
  OBVIOUS
<1>10. nest = [m \in 1 .. Len(js) |-> [right |-> i, left |-> js[m]]]
  BY <1>5, <1>9 DEF Nest
<1>11. View(nest, l, r) = [m \in 1 .. Len(js) |-> [left |-> l[js[m]], right |-> r[i]]]
  BY <1>10 DEF View
<1>12. nest \in Seq(JoinHits)
  <2>1. i \in Nat
    OBVIOUS
  <2> QED
    BY <1>5, <1>9, <2>1, PairsWork
<1> QED
  BY <1>7, <1>8, <1>9, <1>11, <1>12

LEMMA ProbesNest ==
    ASSUME NEW l \in Seq(AllRows), NEW r \in Seq(AllRows), NEW p
    PROVE  /\ Probed(Hashed(l, p.leftKey), r, p.rightKey) = View(NestedLoop(l, r, p), l, r)
           /\ NestedLoop(l, r, p) \in Seq(JoinHits)
<1> DEFINE n == Len(r)
<1>1. n \in Nat /\ DOMAIN r = 1 .. n /\ \A k \in 1 .. n : r[k] \in AllRows
  OBVIOUS
<1>2. PICK map : map = Hashed(l, p.leftKey)
  OBVIOUS
<1>3. \A k : Under(map, k) \in Seq(AllRows)
  <2>1. map \in HashMaps
    <3>1. PICK text, S : S = {j \in DOMAIN l : text = String(Cell(l[j], p.leftKey))}
      OBVIOUS
    <3> QED
      BY <1>2, <3>1, HashedWorks
  <2> QED
    BY <2>1 DEF HashMaps, Under
<1>4. PICK g : Probing(g, map, r, p.rightKey) /\ g[n] = Probed(map, r, p.rightKey)
  BY <1>3, ProbedLoop
<1>5. PICK h : Nesting(h, l, r, p) /\ h[n] = NestedLoop(l, r, p) /\ \A k \in 0 .. n : h[k] \in Seq(JoinHits)
  BY NestedLoopLoop
<1> DEFINE T == {k \in Nat : k <= n => g[k] = View(h[k], l, r)}
<1>6. 0 \in T
  BY <1>4, <1>5 DEF Probing, Nesting, View
<1>7. ASSUME NEW k \in T PROVE k + 1 \in T
  <2> SUFFICES ASSUME k + 1 <= n PROVE g[k + 1] = View(h[k + 1], l, r)
    OBVIOUS
  <2>1. g[k] = View(h[k], l, r) /\ k + 1 \in 1 .. n /\ (k + 1) - 1 = k /\ h[k] \in Seq(JoinHits) /\ k + 1 \in DOMAIN r
    BY <1>1, <1>5, <1>7
  <2>2. PICK i, js, u : i = k + 1 /\ js = Matches(l, r[i], p) /\ u = Under(map, String(Cell(r[i], p.rightKey)))
    OBVIOUS
  <2>3. g[i] = g[k] \o Pairs(u, r[i])
    BY <1>4, <2>1, <2>2 DEF Probing
  <2>4. h[i] = h[k] \o Nest(js, i)
    BY <1>5, <2>1, <2>2 DEF Nesting
  <2>5. Pairs(u, r[i]) = View(Nest(js, i), l, r) /\ Nest(js, i) \in Seq(JoinHits)
    <3>1. i \in DOMAIN r /\ js = Matches(l, r[i], p) /\ u = Under(Hashed(l, p.leftKey), String(Cell(r[i], p.rightKey)))
      BY <1>2, <2>1, <2>2
    <3> QED
      BY <3>1, TurnAgrees
  <2>6. View(h[k] \o Nest(js, i), l, r) = View(h[k], l, r) \o View(Nest(js, i), l, r)
    BY <2>1, <2>5, ViewJoins
  <2> QED
    BY <2>1, <2>2, <2>3, <2>4, <2>5, <2>6, Zenon
<1> HIDE DEF T
<1>8. \A k \in Nat : k \in T
  <2>1. T \subseteq Nat
    BY DEF T
  <2> QED
    BY <1>6, <1>7, <2>1, InductionOnSets
<1>9. g[n] = View(h[n], l, r) /\ h[n] \in Seq(JoinHits)
  BY <1>1, <1>5, <1>8 DEF T
<1> QED
  BY <1>2, <1>4, <1>5, <1>9

\* What JoinIsNestedLoop says of one join of two lists of rows.
JoinAgreesOn(hits, l, r, p, pairs, answer) ==
    LET Merged(x) == [c \in DOMAIN r[x.right] \cup DOMAIN l[x.left] |->
                        IF c \in DOMAIN r[x.right] THEN r[x.right][c] ELSE l[x.left][c]]
        kept == Picked(hits, {i \in DOMAIN hits : matchesWhere(Merged(hits[i]), singleWhere(p.where))})
    IN  /\ pairs = [i \in DOMAIN hits |-> [left |-> l[hits[i].left], right |-> r[hits[i].right]]]
        /\ answer = IF p.on[1] = p.left /\ p.on[2] = p.right
                    THEN [rows |-> [i \in DOMAIN kept |-> Merged(kept[i])]] ELSE None

JoinAgrees(l, r, p, pairs, answer) == JoinAgreesOn(NestedLoop(l, r, p), l, r, p, pairs, answer)

LEMMA JoinWorks ==
    ASSUME NEW tl, IsTable(tl), NEW tr, IsTable(tr), NEW l, l = RowsOf(tl), NEW r, r = RowsOf(tr), NEW p, IsJoin(p)
    PROVE  JoinAgrees(l, r, p, hashJoin(tl, tr, p.leftKey, p.rightKey),
                      executeJoin(tl, tr, [p EXCEPT !.limit = None, !.cols = <<"*">>]))
<1>1. l \in Seq(AllRows) /\ r \in Seq(AllRows)
  BY RowsOfTable
<1>2. scan(tl, {}) = l /\ scan(tr, {}) = r
  BY ScanPicks
<1>3. PICK hits, pairs : hits = NestedLoop(l, r, p) /\ pairs = hashJoin(tl, tr, p.leftKey, p.rightKey)
  OBVIOUS
<1>4. pairs = View(hits, l, r) /\ hits \in Seq(JoinHits)
  <2>1. pairs = Probed(Hashed(l, p.leftKey), r, p.rightKey)
    BY <1>2, <1>3 DEF hashJoin
  <2> QED
    BY <1>1, <1>3, <2>1, ProbesNest
<1> DEFINE Merged(x) == [c \in DOMAIN r[x.right] \cup DOMAIN l[x.left] |->
                           IF c \in DOMAIN r[x.right] THEN r[x.right][c] ELSE l[x.left][c]]
           where == singleWhere(p.where)
           K == {i \in DOMAIN hits : matchesWhere(Merged(hits[i]), where)}
           at == Positions(K, Len(hits))
<1>5. PICK s : s = [p EXCEPT !.limit = None, !.cols = <<"*">>]
  OBVIOUS
<1>6. /\ s.leftKey = p.leftKey /\ s.rightKey = p.rightKey /\ s.where = p.where /\ s.limit = None /\ s.cols = <<"*">>
      /\ s.on = p.on /\ s.left = p.left /\ s.right = p.right
  BY <1>5 DEF IsJoin
<1>7. ParsesJoin(s) <=> p.on[1] = p.left /\ p.on[2] = p.right
  <2>1. p.on = << p.on[1], p.on[2] >>
    BY DEF IsJoin
  <2> QED
    BY <1>6, <2>1 DEF ParsesJoin
<1> DEFINE merged == [i \in DOMAIN pairs |-> Merge(pairs[i].left, pairs[i].right)]
<1>8. Len(hits) \in Nat /\ DOMAIN hits = 1 .. Len(hits)
  BY <1>4
<1>9. merged = [i \in 1 .. Len(hits) |-> Merged(hits[i])]
  <2>1. DOMAIN pairs = 1 .. Len(hits)
        /\ \A i \in 1 .. Len(hits) : pairs[i].left = l[hits[i].left] /\ pairs[i].right = r[hits[i].right]
    BY <1>4, <1>8 DEF View
  <2>2. ASSUME NEW i \in 1 .. Len(hits) PROVE Merge(pairs[i].left, pairs[i].right) = Merged(hits[i])
    <3>1. Merge(pairs[i].left, pairs[i].right) = Merge(l[hits[i].left], r[hits[i].right])
      BY <2>1
    <3>2. PICK a, b : a = l[hits[i].left] /\ b = r[hits[i].right]
      OBVIOUS
    <3>3. DOMAIN a \cup DOMAIN b = DOMAIN b \cup DOMAIN a
      OBVIOUS
    <3>4. Merge(a, b) = [c \in DOMAIN b \cup DOMAIN a |-> IF c \in DOMAIN b THEN b[c] ELSE a[c]]
      BY <3>3 DEF Merge
    <3> QED
      BY <3>1, <3>2, <3>4
  <2> HIDE DEF Merged
  <2> QED
    BY <2>1, <2>2
<1> HIDE DEF Merged, merged, where
<1>10. DOMAIN merged = DOMAIN hits /\ \A i \in DOMAIN hits : merged[i] = Merged(hits[i])
  BY <1>8, <1>9
<1>11. {i \in DOMAIN merged : matchesWhere(merged[i], where)} = K
  BY <1>10
<1>12. Len(merged) = Len(hits)
  BY <1>8, <1>9
<1>13. Picked(merged, K) = [i \in DOMAIN at |-> merged[at[i]]] /\ Picked(hits, K) = [i \in DOMAIN at |-> hits[at[i]]]
  BY <1>12 DEF Picked
<1>14. \A i \in DOMAIN at : at[i] \in DOMAIN hits
  <2>1. Lists(at, K, Len(hits))
    BY <1>8, PositionsList
  <2> QED
    BY <1>8, <2>1 DEF Lists
<1> HIDE DEF at
<1> DEFINE kept == Picked(hits, K)
<1>15. Picked(merged, K) = [i \in DOMAIN kept |-> Merged(kept[i])]
  BY <1>10, <1>13, <1>14
<1>16. hashJoin(tl, tr, s.leftKey, s.rightKey) = pairs
  BY <1>3, <1>6
<1>17. executeJoin(tl, tr, s) = IF ParsesJoin(s) THEN [rows |-> Picked(merged, K)] ELSE None
  <2>1. executeJoin(tl, tr, s) =
          IF ~ParsesJoin(s) THEN None
          ELSE [rows |-> Picked(merged, {i \in DOMAIN merged : matchesWhere(merged[i], singleWhere(s.where))})]
    BY <1>6, <1>16, Zenon DEF executeJoin, merged
  <2> HIDE DEF K
  <2> QED
    BY <1>6, <1>11, <2>1 DEF where
<1>18. pairs = [i \in DOMAIN hits |-> [left |-> l[hits[i].left], right |-> r[hits[i].right]]]
  BY <1>4 DEF View
<1>19. executeJoin(tl, tr, s) = IF p.on[1] = p.left /\ p.on[2] = p.right
                               THEN [rows |-> [i \in DOMAIN kept |-> Merged(kept[i])]] ELSE None
  BY <1>7, <1>15, <1>17, Zenon
<1>20. JoinAgreesOn(hits, l, r, p, pairs, executeJoin(tl, tr, s))
  BY <1>18, <1>19, Zenon DEF JoinAgreesOn, Merged, where
<1> QED
  BY <1>3, <1>5, <1>20 DEF JoinAgrees

\* hashJoin hashes the left table and probes it with the right one; executeJoin
\* merges, filters and refuses: the nested loop over the two scans, for any
\* two tables reached.
THEOREM JoinsAreExact == Spec => []JoinIsNestedLoop
<1>1. RelInv => JoinIsNestedLoop
  <2> SUFFICES ASSUME RelInv PROVE JoinIsNestedLoop
    OBVIOUS
  <2>1. ASSUME NEW p \in use.joins, Has(p.left), Has(p.right),
               NEW l, l = scan(tables[p.left], {}), NEW r, r = scan(tables[p.right], {})
        PROVE  JoinAgrees(l, r, p, hashJoin(tables[p.left], tables[p.right], p.leftKey, p.rightKey),
                 executeJoin(tables[p.left], tables[p.right], [p EXCEPT !.limit = None, !.cols = <<"*">>]))
    <3>1. PICK tl, tr : tl = tables[p.left] /\ tr = tables[p.right]
      OBVIOUS
    <3>2. IsTable(tl) /\ IsTable(tr)
      BY <2>1, <3>1 DEF RelInv, CatalogInv, IsCatalog, IsTables, Database, Has
    <3>3. l = RowsOf(tl) /\ r = RowsOf(tr)
      <4>1. scan(tl, {}) = RowsOf(tl) /\ scan(tr, {}) = RowsOf(tr)
        BY <3>2, ScanPicks
      <4> QED
        BY <2>1, <3>1, <4>1
    <3>4. IsJoin(p)
      BY <2>1, SessionAssumption DEF RelInv, VarsTyped, TypeOK
    <3>5. JoinAgrees(l, r, p, hashJoin(tl, tr, p.leftKey, p.rightKey),
                     executeJoin(tl, tr, [p EXCEPT !.limit = None, !.cols = <<"*">>]))
      BY <3>2, <3>3, <3>4, JoinWorks
    <3> QED
      BY <3>1, <3>5
  <2>2. ASSUME NEW p \in use.joins, Has(p.left), Has(p.right)
        PROVE  JoinAgrees(scan(tables[p.left], {}), scan(tables[p.right], {}), p,
                 hashJoin(tables[p.left], tables[p.right], p.leftKey, p.rightKey),
                 executeJoin(tables[p.left], tables[p.right], [p EXCEPT !.limit = None, !.cols = <<"*">>]))
    BY <2>1, <2>2, Zenon
  <2> QED
    BY <2>2, ZenonT(60) DEF JoinIsNestedLoop, JoinAgrees, JoinAgreesOn
<1> QED
  BY <1>1, RelationalInvariant, PTL

-----------------------------------------------------------------------------
(* The sort.                                                               *)

\* An initial segment of positions is as long as its cardinality says.
LEMMA PrefixCounts ==
    ASSUME NEW m \in Nat, NEW A, A \subseteq 1 .. m, \A i \in A, j \in 1 .. m : j < i => j \in A
    PROVE  A = 1 .. Cardinality(A)
<1>1. CASE A = {}
  BY <1>1, FS_EmptySet
<1>2. CASE A # {}
  <2>1. PICK x : x = Max(A)
    OBVIOUS
  <2>2. x \in A /\ \A i \in A : i <= x
    BY <1>2, <2>1, MaxPosition
  <2>3. x \in 1 .. m /\ A \subseteq 1 .. x
    BY <2>2
  <2>4. 1 .. x \subseteq A
    <3> SUFFICES ASSUME NEW j \in 1 .. x PROVE j \in A
      OBVIOUS
    <3>1. j \in 1 .. m /\ (j = x \/ j < x)
      BY <2>3
    <3> QED
      BY <2>2, <3>1
  <2>5. A = 1 .. x
    BY <2>3, <2>4, Zenon
  <2>6. x \in Nat
    BY <2>3
  <2>7. Cardinality(1 .. x) = x
    BY <2>6, FS_Interval
  <2> QED
    BY <2>5, <2>7
<1> QED
  BY <1>1, <1>2

LEMMA AheadBounded ==
    ASSUME NEW done \in Seq(AllRows), NEW r, NEW by, NEW dir
    PROVE  Ahead(done, r, by, dir) \in 0 .. Len(done)
<1>1. PICK n, A : n = Len(done) /\ A = {i \in DOMAIN done : ~Before(by, dir, r, done[i])}
  OBVIOUS
<1>2. n \in Nat /\ A \subseteq 1 .. n
  BY <1>1
<1>3. IsFiniteSet(1 .. n) /\ Cardinality(1 .. n) = n
  BY <1>2, FS_Interval
<1>4. IsFiniteSet(A) /\ Cardinality(A) <= n
  BY <1>2, <1>3, FS_Subset
<1>5. Cardinality(A) \in Nat
  BY <1>4, FS_CardinalityType
<1> QED
  BY <1>1, <1>2, <1>4, <1>5 DEF Ahead

\* e is done with r behind its first k rows.
IsPlaced(e, done, k, r) ==
    /\ e \in Seq(AllRows) /\ Len(e) = Len(done) + 1
    /\ \A i \in 1 .. k : e[i] = done[i]
    /\ e[k + 1] = r
    /\ \A i \in k + 1 .. Len(done) : e[i + 1] = done[i]

LEMMA PlacedWorks ==
    ASSUME NEW done \in Seq(AllRows), NEW r \in AllRows, NEW k \in 0 .. Len(done)
    PROVE  IsPlaced(Placed(done, k, r), done, k, r)
<1>0. PICK e : e = Placed(done, k, r)
  OBVIOUS
<1>1. PICK n, a, b, c, d : /\ n = Len(done) /\ a = SubSeq(done, 1, k) /\ b = << r >> /\ c = SubSeq(done, k + 1, n)
                           /\ d = a \o b
  OBVIOUS
<1>2. n \in Nat /\ k \in Nat /\ k <= n /\ DOMAIN done = 1 .. n
  BY <1>1
<1>3. a \in Seq(AllRows) /\ Len(a) = k /\ \A i \in 1 .. k : a[i] = done[i]
  <2>1. \A i \in 1 .. k : done[i] \in AllRows
    BY <1>2
  <2> QED
    BY <1>1, <1>2, <2>1, SubSeqProperties
<1>4. c \in Seq(AllRows) /\ Len(c) = n - k /\ \A i \in 1 .. n - k : c[i] = done[k + i]
  <2>1. \A i \in k + 1 .. n : done[i] \in AllRows
    BY <1>2
  <2>2. k + 1 \in Int /\ n \in Int
    BY <1>2
  <2>3. /\ c \in Seq(AllRows) /\ Len(c) = (IF k + 1 <= n THEN n - (k + 1) + 1 ELSE 0)
        /\ \A i \in 1 .. n - (k + 1) + 1 : c[i] = done[(k + 1) + i - 1]
    BY <1>1, <2>1, <2>2, SubSeqProperties
  <2>4. \A i \in 1 .. n - k : i \in 1 .. n - (k + 1) + 1 /\ (k + 1) + i - 1 = k + i
    BY <1>2
  <2>5. (IF k + 1 <= n THEN n - (k + 1) + 1 ELSE 0) = n - k
    BY <1>2
  <2> QED
    BY <2>3, <2>4, <2>5
<1>5. b \in Seq(AllRows) /\ Len(b) = 1 /\ b[1] = r
  BY <1>1
<1>6. d \in Seq(AllRows) /\ Len(d) = k + 1 /\ (\A i \in 1 .. k : d[i] = done[i]) /\ d[k + 1] = r
  BY <1>1, <1>2, <1>3, <1>5
<1>7. e = d \o c
  BY <1>0, <1>1 DEF Placed
<1>8. /\ e \in Seq(AllRows) /\ Len(e) = n + 1 /\ (\A i \in 1 .. k + 1 : e[i] = d[i])
      /\ \A i \in 1 .. n - k : e[(k + 1) + i] = c[i]
  <2>1. /\ d \o c \in Seq(AllRows) /\ Len(d \o c) = Len(d) + Len(c)
        /\ \A i \in 1 .. Len(d) + Len(c) : (d \o c)[i] = IF i <= Len(d) THEN d[i] ELSE c[i - Len(d)]
    BY <1>4, <1>6, ConcatProperties, Zenon
  <2>2. Len(d) = k + 1 /\ Len(c) = n - k
    BY <1>4, <1>6
  <2>3. /\ e \in Seq(AllRows) /\ Len(e) = n + 1
        /\ \A i \in 1 .. n + 1 : e[i] = IF i <= k + 1 THEN d[i] ELSE c[i - (k + 1)]
    <3>1. (k + 1) + (n - k) = n + 1
      BY <1>2
    <3> QED
      BY <1>7, <2>1, <2>2, <3>1
  <2>4. \A i \in 1 .. k + 1 : e[i] = d[i]
    BY <1>2, <2>3
  <2>5. ASSUME NEW i \in 1 .. n - k PROVE e[(k + 1) + i] = c[i]
    <3>1. (k + 1) + i \in 1 .. n + 1 /\ ~((k + 1) + i <= k + 1) /\ ((k + 1) + i) - (k + 1) = i
      BY <1>2
    <3> QED
      BY <2>3, <3>1
  <2> QED
    BY <2>3, <2>4, <2>5
<1>9. \A i \in 1 .. k : e[i] = done[i]
  BY <1>2, <1>6, <1>8
<1>10. e[k + 1] = r
  BY <1>2, <1>6, <1>8
<1>11. ASSUME NEW i \in k + 1 .. n PROVE e[i + 1] = done[i]
  <2>1. i - k \in 1 .. n - k /\ (k + 1) + (i - k) = i + 1 /\ k + (i - k) = i
    BY <1>2
  <2> QED
    BY <1>4, <1>8, <2>1
<1> QED
  BY <1>0, <1>1, <1>8, <1>9, <1>10, <1>11 DEF IsPlaced

\* The rows are sorted along g.
Sorting(g, rows, by, dir) ==
    g[0] = <<>> /\ \A k \in 1 .. Len(rows) : g[k] = Placed(g[k - 1], Ahead(g[k - 1], rows[k], by, dir), rows[k])

LEMMA SortedLoop ==
    ASSUME NEW rows \in Seq(AllRows), NEW by, NEW dir
    PROVE  \E g : Sorting(g, rows, by, dir) /\ g[Len(rows)] = SortRows(rows, by, dir)
<1> DEFINE n == Len(rows)
           E == Seq(AllRows)
           step(e, k) == Placed(e, Ahead(e, rows[k], by, dir), rows[k])
           F == [k \in 1 .. n |-> [e \in E |-> step(e, k)]]
           body(g) == [k \in 0 .. n |-> IF k = 0 THEN <<>> ELSE Placed(g[k - 1], Ahead(g[k - 1], rows[k], by, dir), rows[k])]
           done == CHOOSE g : g = body(g)
<1>1. n \in Nat /\ <<>> \in E
  OBVIOUS
<1>2. StepsIn(F, n, E)
  <2>1. ASSUME NEW e \in E, NEW k \in 1 .. n PROVE step(e, k) \in E
    <3>1. rows[k] \in AllRows /\ Ahead(e, rows[k], by, dir) \in 0 .. Len(e)
      BY AheadBounded
    <3>2. PICK a, p : a = Ahead(e, rows[k], by, dir) /\ p = Placed(e, a, rows[k])
      OBVIOUS
    <3>3. p \in E
      BY <3>1, <3>2, PlacedWorks DEF IsPlaced
    <3> QED
      BY <3>2, <3>3
  <2> HIDE DEF step, E
  <2> QED
    BY <2>1 DEF StepsIn
<1>3. PICK g : Loop(g, F, n, E, <<>>)
  <2> HIDE DEF F, n, E
  <2> QED
    BY <1>1, <1>2, LoopExists, Zenon
<1> HIDE DEF n, E
<1> DEFINE value(h, k) == IF k = 0 THEN <<>> ELSE step(h[k - 1], k)
<1>4. g = body(g)
  <2>1. g = [k \in 0 .. n |-> g[k]] /\ g[0] = <<>>
    BY <1>3 DEF Loop
  <2>2. ASSUME NEW k \in 1 .. n PROVE g[k] = step(g[k - 1], k)
    <3> HIDE DEF step
    <3>1. k - 1 \in 0 .. n /\ k \in 1 .. n
      BY <1>1
    <3>2. g[k - 1] \in E
      <4> HIDE DEF F
      <4> QED
        BY <1>3, <3>1 DEF Loop
    <3>3. g[k] = F[k][g[k - 1]]
      <4> HIDE DEF F
      <4> QED
        BY <1>3, <3>1 DEF Loop, Follows
    <3> QED
      BY <3>1, <3>2, <3>3
  <2>3. ASSUME NEW k \in 0 .. n PROVE g[k] = value(g, k)
    <3> HIDE DEF step
    <3>1. CASE k = 0
      BY <2>1, <3>1
    <3>2. CASE k # 0
      <4>1. k \in 1 .. n
        BY <1>1, <3>2
      <4> QED
        BY <2>2, <3>2, <4>1
    <3> QED
      BY <3>1, <3>2
  <2> HIDE DEF value
  <2>4. g = [k \in 0 .. n |-> value(g, k)]
    BY <2>1, <2>3, Zenon
  <2> QED
    BY <2>4 DEF value
<1>5. done = body(done)
  <2> HIDE DEF body
  <2> QED
    BY <1>4
<1>6. SortRows(rows, by, dir) = done[n]
  BY DEF SortRows, n
<1> HIDE DEF done
<1>7. done = [k \in 0 .. n |-> value(done, k)]
  BY <1>5
<1>8. done[0] = <<>> /\ \A k \in 1 .. n : done[k] = step(done[k - 1], k)
  <2>1. \A k \in 0 .. n : done[k] = value(done, k)
    <3> HIDE DEF value
    <3> QED
      BY <1>7
  <2> HIDE DEF step
  <2>2. 0 \in 0 .. n /\ \A k \in 1 .. n : k \in 0 .. n /\ k # 0
    BY <1>1
  <2> QED
    BY <2>1, <2>2, Zenon
<1> QED
  BY <1>6, <1>8 DEF Sorting, n

\* Two rows with texts to sort by, or with numbers and nulls, and what they are
\* sorted by.
Alike(a, b, by) ==
    \/ Cell(a, by).t = "str" /\ Cell(b, by).t = "str"
    \/ Cell(a, by).t \in {"num", "null"} /\ Cell(b, by).t \in {"num", "null"}

Rank(r, by, dir) == IF dir = "asc" THEN Cell(r, by).v ELSE 0 - Cell(r, by).v

LEMMA RankTells ==
    ASSUME NEW a \in AllRows, NEW b \in AllRows, NEW by, NEW dir, Alike(a, b, by)
    PROVE  /\ Rank(a, by, dir) \in Int /\ Rank(b, by, dir) \in Int
           /\ Before(by, dir, a, b) <=> Rank(a, by, dir) < Rank(b, by, dir)
<1>1. PICK x, y : x = Cell(a, by) /\ y = Cell(b, by)
  OBVIOUS
<1>2. x \in Cells /\ y \in Cells
  BY <1>1, CellIsCell
<1>3. \A c \in Cells : /\ c.t \in {"num", "str", "null"} => c.v \in Int
                       /\ c.t = "null" => c.v = 0
  BY TextAssumption DEF Cells, Num, Str, Null, Undef
<1>4. (x.t = "str" /\ y.t = "str") \/ (x.t \in {"num", "null"} /\ y.t \in {"num", "null"})
  BY <1>1 DEF Alike
<1>5. x.v \in Int /\ y.v \in Int
  BY <1>2, <1>3, <1>4
<1>6. \A c \in Cells : c.t \in {"num", "null"} => AsNumber(c) = {c.v}
  BY <1>3 DEF AsNumber
<1>7. (JsLess(x, y) <=> x.v < y.v) /\ (JsLess(y, x) <=> y.v < x.v)
  <2>1. CASE x.t = "str" /\ y.t = "str"
    BY <2>1 DEF JsLess
  <2>2. CASE x.t \in {"num", "null"} /\ y.t \in {"num", "null"}
    <3>1. AsNumber(x) = {x.v} /\ AsNumber(y) = {y.v} /\ x.t # "str" /\ y.t # "str"
      BY <1>2, <1>6, <2>2
    <3> QED
      BY <3>1 DEF JsLess
  <2> QED
    BY <1>4, <2>1, <2>2
<1>8. CASE dir = "asc"
  BY <1>1, <1>5, <1>7, <1>8 DEF Rank, Before
<1>9. CASE dir # "asc"
  <2>1. Rank(a, by, dir) = 0 - x.v /\ Rank(b, by, dir) = 0 - y.v /\ (Before(by, dir, a, b) <=> JsLess(y, x))
    BY <1>1, <1>9 DEF Rank, Before
  <2> QED
    BY <1>5, <1>7, <2>1
<1> QED
  BY <1>8, <1>9

\* The first m rows, and no others, are in d.
Holds(d, rows, m) ==
    /\ d \in Seq(AllRows) /\ Len(d) = m
    /\ \A i \in 1 .. m : \E a \in 1 .. m : d[i] = rows[a]
    /\ \A a \in 1 .. m : \E i \in 1 .. m : d[i] = rows[a]

\* Smaller ranks come first, and equal ones in the order of the rows.
Ranked(d, rows, m, by, dir) ==
    \A i, j \in 1 .. m, a, b \in 1 .. m :
        i < j /\ d[i] = rows[a] /\ d[j] = rows[b] =>
            \/ Rank(rows[a], by, dir) < Rank(rows[b], by, dir)
            \/ Rank(rows[a], by, dir) = Rank(rows[b], by, dir) /\ a < b

\* The sort is an order on these rows, and each is there once.
Sortable(rows, by) ==
    /\ \A i, j \in 1 .. Len(rows) : Alike(rows[i], rows[j], by)
    /\ \A i, j \in 1 .. Len(rows) : rows[i] = rows[j] => i = j

LEMMA PlacedHolds ==
    ASSUME NEW rows \in Seq(AllRows), NEW m \in Nat, m + 1 \in 1 .. Len(rows), NEW d, Holds(d, rows, m), NEW k \in 0 .. m
    PROVE  Holds(Placed(d, k, rows[m + 1]), rows, m + 1)
<1>1. PICK r, e : r = rows[m + 1] /\ e = Placed(d, k, rows[m + 1])
  OBVIOUS
<1>2. r \in AllRows /\ d \in Seq(AllRows) /\ Len(d) = m /\ k \in Nat /\ k <= m
  BY <1>1 DEF Holds
<1>3. /\ e \in Seq(AllRows) /\ Len(e) = m + 1
      /\ \A i \in 1 .. k : e[i] = d[i]
      /\ e[k + 1] = r
      /\ \A i \in k + 1 .. m : e[i + 1] = d[i]
  <2>1. k \in 0 .. Len(d) /\ e = Placed(d, k, r)
    BY <1>1, <1>2
  <2>2. /\ e \in Seq(AllRows) /\ Len(e) = Len(d) + 1
        /\ \A i \in 1 .. k : e[i] = d[i]
        /\ e[k + 1] = r
        /\ \A i \in k + 1 .. Len(d) : e[i + 1] = d[i]
    <3>1. IsPlaced(Placed(d, k, r), d, k, r)
      BY <1>2, <2>1, PlacedWorks
    <3> QED
      BY <2>1, <3>1 DEF IsPlaced
  <2> QED
    BY <1>2, <2>2
<1>4. ASSUME NEW i \in 1 .. m + 1 PROVE \E a \in 1 .. m + 1 : e[i] = rows[a]
  <2>1. CASE i <= k
    <3>1. i \in 1 .. k /\ i \in 1 .. m
      BY <1>2, <2>1
    <3>2. PICK a \in 1 .. m : d[i] = rows[a]
      BY <3>1 DEF Holds
    <3>3. a \in 1 .. m + 1 /\ e[i] = d[i]
      BY <1>3, <3>1
    <3> QED
      BY <3>2, <3>3
  <2>2. CASE i = k + 1
    <3>1. m + 1 \in 1 .. m + 1 /\ e[i] = rows[m + 1]
      BY <1>1, <1>3, <2>2
    <3> QED
      BY <3>1
  <2>3. CASE i > k + 1
    <3>1. PICK j : j = i - 1
      OBVIOUS
    <3>2. j \in k + 1 .. m /\ j \in 1 .. m /\ i = j + 1
      BY <1>2, <2>3, <3>1
    <3>3. PICK a \in 1 .. m : d[j] = rows[a]
      BY <3>2 DEF Holds
    <3>4. a \in 1 .. m + 1 /\ e[i] = d[j]
      BY <1>3, <3>2
    <3> QED
      BY <3>3, <3>4
  <2> QED
    BY <1>2, <2>1, <2>2, <2>3
<1>5. ASSUME NEW a \in 1 .. m + 1 PROVE \E i \in 1 .. m + 1 : e[i] = rows[a]
  <2>1. CASE a = m + 1
    <3>1. k + 1 \in 1 .. m + 1 /\ e[k + 1] = rows[a]
      BY <1>1, <1>2, <1>3, <2>1
    <3> QED
      BY <3>1
  <2>2. CASE a # m + 1
    <3>1. a \in 1 .. m
      BY <2>2
    <3>2. PICK i \in 1 .. m : d[i] = rows[a]
      BY <3>1 DEF Holds
    <3>3. CASE i <= k
      <4>1. i \in 1 .. k /\ i \in 1 .. m + 1
        BY <1>2, <3>3
      <4>2. e[i] = d[i]
        BY <1>3, <4>1
      <4> QED
        BY <3>2, <4>1, <4>2
    <3>4. CASE ~(i <= k)
      <4>1. i \in k + 1 .. m /\ i + 1 \in 1 .. m + 1
        BY <1>2, <3>4
      <4>2. e[i + 1] = d[i]
        BY <1>3, <4>1
      <4> QED
        BY <3>2, <4>1, <4>2
    <3> QED
      BY <3>3, <3>4
  <2> QED
    BY <2>1, <2>2
<1>6. Holds(e, rows, m + 1)
  BY <1>3, <1>4, <1>5 DEF Holds
<1> QED
  BY <1>1, <1>6

\* A row is placed behind those whose rank is not greater.
LEMMA PlacedOrdered ==
    ASSUME NEW rows \in Seq(AllRows), NEW m \in Nat, m + 1 \in 1 .. Len(rows), NEW by, NEW dir, Sortable(rows, by),
           NEW d, Holds(d, rows, m), Ranked(d, rows, m, by, dir)
    PROVE  Ranked(Placed(d, Ahead(d, rows[m + 1], by, dir), rows[m + 1]), rows, m + 1, by, dir)
<1>1. PICK r, k, e : r = rows[m + 1] /\ k = Ahead(d, rows[m + 1], by, dir) /\ e = Placed(d, k, rows[m + 1])
  OBVIOUS
<1>2. r \in AllRows /\ d \in Seq(AllRows) /\ Len(d) = m /\ DOMAIN d = 1 .. m
  BY <1>1 DEF Holds
<1>3. k \in 0 .. m /\ k \in Nat /\ k <= m
  <2>1. k \in 0 .. Len(d)
    BY <1>1, <1>2, AheadBounded
  <2> QED
    BY <1>2, <2>1
<1>4. /\ e \in Seq(AllRows) /\ Len(e) = m + 1
      /\ \A i \in 1 .. k : e[i] = d[i]
      /\ e[k + 1] = r
      /\ \A i \in k + 1 .. m : e[i + 1] = d[i]
  <2>1. k \in 0 .. Len(d) /\ e = Placed(d, k, r)
    BY <1>1, <1>2, <1>3
  <2>2. /\ e \in Seq(AllRows) /\ Len(e) = Len(d) + 1
        /\ \A i \in 1 .. k : e[i] = d[i]
        /\ e[k + 1] = r
        /\ \A i \in k + 1 .. Len(d) : e[i + 1] = d[i]
    <3>1. IsPlaced(Placed(d, k, r), d, k, r)
      BY <1>2, <2>1, PlacedWorks
    <3> QED
      BY <2>1, <3>1 DEF IsPlaced
  <2> QED
    BY <1>2, <2>2
<1> DEFINE rk(x) == Rank(x, by, dir)
<1>5. \A a \in 1 .. Len(rows) : rows[a] \in AllRows /\ rk(rows[a]) \in Int
  <2> SUFFICES ASSUME NEW a \in 1 .. Len(rows) PROVE rows[a] \in AllRows /\ rk(rows[a]) \in Int
    OBVIOUS
  <2>1. rows[a] \in AllRows /\ Alike(rows[a], rows[a], by)
    BY DEF Sortable
  <2> QED
    BY <2>1, RankTells
<1>6. \A a \in 1 .. m + 1 : a \in 1 .. Len(rows) /\ a \in Nat
  OBVIOUS
<1>7. \A i \in 1 .. m : \E a \in 1 .. m : d[i] = rows[a]
  BY DEF Holds
<1>8. \A i \in 1 .. m : rk(d[i]) \in Int /\ (Before(by, dir, r, d[i]) <=> rk(r) < rk(d[i]))
  <2> SUFFICES ASSUME NEW i \in 1 .. m PROVE rk(d[i]) \in Int /\ (Before(by, dir, r, d[i]) <=> rk(r) < rk(d[i]))
    OBVIOUS
  <2>1. PICK a \in 1 .. m : d[i] = rows[a]
    BY <1>7
  <2>2. a \in 1 .. Len(rows) /\ rows[a] \in AllRows
    BY <1>5, <1>6, <2>1
  <2>3. Alike(r, d[i], by) /\ d[i] \in AllRows
    BY <1>1, <2>1, <2>2 DEF Sortable
  <2> QED
    BY <1>2, <2>3, RankTells
<1>9. rk(r) \in Int
  BY <1>1, <1>5
<1> DEFINE A == {i \in 1 .. m : ~Before(by, dir, r, d[i])}
<1>10. \A i \in 1 .. m : i \in A <=> rk(d[i]) <= rk(r)
  <2> HIDE DEF rk
  <2> QED
    BY <1>8, <1>9
<1>11. \A i \in A, j \in 1 .. m : j < i => j \in A
  <2> SUFFICES ASSUME NEW i \in A, NEW j \in 1 .. m, j < i PROVE j \in A
    OBVIOUS
  <2>1. PICK a \in 1 .. m, b \in 1 .. m : d[j] = rows[a] /\ d[i] = rows[b]
    BY <1>7
  <2>2. rk(rows[a]) < rk(rows[b]) \/ rk(rows[a]) = rk(rows[b])
    BY <2>1 DEF Ranked
  <2> HIDE DEF rk, A
  <2>3. rk(d[j]) <= rk(d[i]) /\ rk(d[i]) <= rk(r)
    BY <1>8, <1>10, <2>1, <2>2 DEF A
  <2> QED
    BY <1>8, <1>9, <1>10, <2>3 DEF A
<1>12. A = 1 .. k
  <2>1. k = Cardinality(A)
    BY <1>1, <1>2 DEF Ahead
  <2>2. A = 1 .. Cardinality(A)
    <3>1. PICK B : B = A
      OBVIOUS
    <3>2. B \subseteq 1 .. m /\ \A i \in B, j \in 1 .. m : j < i => j \in B
      BY <1>11, <3>1
    <3>3. B = 1 .. Cardinality(B)
      BY <3>2, PrefixCounts
    <3> QED
      BY <3>1, <3>3
  <2> QED
    BY <2>1, <2>2
<1>13. \A i \in 1 .. m : i <= k <=> rk(d[i]) <= rk(r)
  <2> HIDE DEF rk, A
  <2>1. \A i \in 1 .. m : i \in A <=> i <= k
    BY <1>3, <1>12
  <2> QED
    BY <1>10, <2>1
<1>14. \A x, y \in 1 .. Len(rows) : rows[x] = rows[y] => x = y
  BY DEF Sortable
<1> HIDE DEF A, rk
<1>15. ASSUME NEW i \in 1 .. m + 1, NEW j \in 1 .. m + 1, NEW a \in 1 .. m + 1, NEW b \in 1 .. m + 1,
              i < j, e[i] = rows[a], e[j] = rows[b]
       PROVE  rk(rows[a]) < rk(rows[b]) \/ (rk(rows[a]) = rk(rows[b]) /\ a < b)
  <2>1. ASSUME NEW x \in 1 .. m + 1, x # k + 1, NEW c \in 1 .. m + 1, e[x] = rows[c]
        PROVE  \E y \in 1 .. m : /\ y = (IF x <= k THEN x ELSE x - 1) /\ d[y] = rows[c] /\ c \in 1 .. m
    <3>1. PICK y : y = IF x <= k THEN x ELSE x - 1
      OBVIOUS
    <3>2. y \in 1 .. m /\ e[x] = d[y]
      <4>1. CASE x <= k
        BY <1>3, <1>4, <3>1, <4>1
      <4>2. CASE ~(x <= k)
        <5>1. y \in k + 1 .. m /\ y + 1 = x /\ y \in 1 .. m
          BY <1>3, <2>1, <3>1, <4>2
        <5> QED
          BY <1>4, <5>1
      <4> QED
        BY <4>1, <4>2
    <3>3. PICK z \in 1 .. m : d[y] = rows[z]
      BY <1>7, <3>2
    <3>4. z = c
      <4>1. z \in 1 .. Len(rows) /\ c \in 1 .. Len(rows)
        BY <1>6, <2>1
      <4> QED
        BY <1>14, <2>1, <3>2, <3>3, <4>1
    <3> QED
      BY <3>1, <3>2, <3>3, <3>4
  <2>2. m + 1 \in 1 .. Len(rows) /\ a \in 1 .. Len(rows) /\ b \in 1 .. Len(rows)
    BY <1>6
  <2>3. CASE i = k + 1
    <3>1. j # k + 1 /\ ~(j <= k)
      BY <1>3, <1>15, <2>3
    <3>2. j - 1 \in 1 .. m /\ d[j - 1] = rows[b]
      BY <1>15, <2>1, <3>1
    <3>3. a = m + 1
      BY <1>1, <1>4, <1>14, <1>15, <2>2, <2>3
    <3>4. ~(j - 1 <= k)
      BY <1>3, <1>15, <2>3
    <3>5. rk(rows[b]) \in Int /\ ~(rk(rows[b]) <= rk(r))
      BY <1>8, <1>13, <3>2, <3>4
    <3>6. rows[a] = r
      BY <1>1, <3>3
    <3> QED
      BY <1>9, <3>5, <3>6
  <2>4. CASE j = k + 1
    <3>1. i # k + 1 /\ i <= k
      BY <1>3, <1>15, <2>4
    <3>2. i \in 1 .. m /\ d[i] = rows[a] /\ a \in 1 .. m
      BY <1>15, <2>1, <3>1
    <3>3. b = m + 1
      BY <1>1, <1>4, <1>14, <1>15, <2>2, <2>4
    <3>4. rk(rows[a]) \in Int /\ rk(rows[a]) <= rk(r) /\ a < b
      BY <1>8, <1>13, <3>1, <3>2, <3>3
    <3>5. rows[b] = r
      BY <1>1, <3>3
    <3> QED
      BY <1>9, <3>4, <3>5
  <2>5. CASE i # k + 1 /\ j # k + 1
    <3>1. PICK x \in 1 .. m : x = (IF i <= k THEN i ELSE i - 1) /\ d[x] = rows[a] /\ a \in 1 .. m
      BY <1>15, <2>1, <2>5
    <3>2. PICK y \in 1 .. m : y = (IF j <= k THEN j ELSE j - 1) /\ d[y] = rows[b] /\ b \in 1 .. m
      BY <1>15, <2>1, <2>5
    <3>3. x < y
      BY <1>3, <1>15, <2>5, <3>1, <3>2
    <3>4. \/ Rank(rows[a], by, dir) < Rank(rows[b], by, dir)
          \/ Rank(rows[a], by, dir) = Rank(rows[b], by, dir) /\ a < b
      <4>1. d[x] = rows[a] /\ d[y] = rows[b] /\ a \in 1 .. m /\ b \in 1 .. m
        BY <3>1, <3>2
      <4> QED
        BY <3>3, <4>1, Zenon DEF Ranked
    <3> QED
      BY <3>4 DEF rk
  <2> QED
    BY <2>3, <2>4, <2>5
<1>16. Ranked(e, rows, m + 1, by, dir)
  BY <1>15 DEF Ranked, rk
<1> QED
  BY <1>1, <1>16

LEMMA SortWorks ==
    ASSUME NEW rows \in Seq(AllRows), NEW by, NEW dir
    PROVE  /\ Holds(SortRows(rows, by, dir), rows, Len(rows))
           /\ Sortable(rows, by) => Ranked(SortRows(rows, by, dir), rows, Len(rows), by, dir)
<1>1. PICK g : Sorting(g, rows, by, dir) /\ g[Len(rows)] = SortRows(rows, by, dir)
  BY SortedLoop
<1> DEFINE T == {m \in Nat : m <= Len(rows) => Holds(g[m], rows, m) /\ (Sortable(rows, by) => Ranked(g[m], rows, m, by, dir))}
<1>2. Len(rows) \in Nat
  OBVIOUS
<1>3. 0 \in T
  <2>1. g[0] = <<>> /\ <<>> \in Seq(AllRows) /\ Len(<<>>) = 0 /\ 1 .. 0 = {}
    BY <1>1 DEF Sorting
  <2>2. Holds(<<>>, rows, 0) /\ Ranked(<<>>, rows, 0, by, dir)
    BY <2>1 DEF Holds, Ranked
  <2> QED
    BY <2>1, <2>2
<1>4. ASSUME NEW m \in T PROVE m + 1 \in T
  <2> SUFFICES ASSUME m + 1 <= Len(rows)
               PROVE  Holds(g[m + 1], rows, m + 1) /\ (Sortable(rows, by) => Ranked(g[m + 1], rows, m + 1, by, dir))
    OBVIOUS
  <2>1. m \in Nat /\ m <= Len(rows) /\ m + 1 \in 1 .. Len(rows) /\ (m + 1) - 1 = m
    BY <1>2
  <2>2. PICK d : d = g[m]
    OBVIOUS
  <2>3. Holds(d, rows, m) /\ (Sortable(rows, by) => Ranked(d, rows, m, by, dir))
    BY <2>1, <2>2
  <2>4. g[m + 1] = Placed(d, Ahead(d, rows[m + 1], by, dir), rows[m + 1])
    BY <1>1, <2>1, <2>2 DEF Sorting
  <2>5. rows[m + 1] \in AllRows /\ Ahead(d, rows[m + 1], by, dir) \in 0 .. m
    <3>1. d \in Seq(AllRows) /\ Len(d) = m
      BY <2>3 DEF Holds
    <3>2. Ahead(d, rows[m + 1], by, dir) \in 0 .. Len(d)
      BY <3>1, AheadBounded
    <3> QED
      BY <2>1, <3>1, <3>2
  <2>6. Holds(g[m + 1], rows, m + 1)
    BY <2>1, <2>3, <2>4, <2>5, PlacedHolds
  <2>7. ASSUME Sortable(rows, by) PROVE Ranked(g[m + 1], rows, m + 1, by, dir)
    BY <2>1, <2>3, <2>4, <2>7, PlacedOrdered
  <2> QED
    BY <2>6, <2>7
<1> HIDE DEF T
<1>5. T \subseteq Nat
  BY DEF T
<1>6. Len(rows) \in T
  BY <1>2, <1>3, <1>4, <1>5, InductionOnSets
<1>7. Holds(g[Len(rows)], rows, Len(rows)) /\ (Sortable(rows, by) => Ranked(g[Len(rows)], rows, Len(rows), by, dir))
  BY <1>2, <1>6 DEF T
<1> QED
  BY <1>1, <1>7
-----------------------------------------------------------------------------
(* Pages.                                                                  *)

\* The results of one query, step by step.
SortedBy(rows, by, dir) == IF by = "" THEN rows ELSE SortRows(rows, by, dir)

Paged(s, offset, limit) ==
    LET rest == IF offset = 0 THEN s ELSE Slice(s, offset, Len(s))
    IN  IF limit = None THEN rest ELSE Slice(rest, 0, limit.n)

Shown(s, select) == IF select = {} THEN s ELSE [i \in DOMAIN s |-> Project(s[i], select)]

LEMMA AllIs ==
    ASSUME NEW t, NEW q
    PROVE  all(t, q) = Shown(Paged(SortedBy(scan(t, q.where), q.order, q.dir), q.offset, q.limit), q.select)
BY DEF all, Shown, Paged, SortedBy

\* As much of n as s has.
Within(n, s) == IF n <= Len(s) THEN n ELSE Len(s)

LEMMA BoundIs ==
    ASSUME NEW A, NEW s \in Seq(A), NEW n \in Nat
    PROVE  Bound(s, n) = Within(n, s)
<1>1. PICK l : l = Len(s)
  OBVIOUS
<1>2. l \in Nat
  BY <1>1
<1>3. Bound(s, n) = Min({n, l})
  <2>1. ~(n < 0)
    OBVIOUS
  <2> QED
    BY <1>1, <2>1 DEF Bound
<1>4. Min({n, l}) = IF n <= l THEN n ELSE l
  <2>1. PICK x : x = Min({n, l})
    OBVIOUS
  <2>2. \E y \in {n, l} : \A z \in {n, l} : y <= z
    <3>1. n <= n /\ l <= l /\ (n <= l \/ l <= n)
      BY <1>2
    <3> QED
      BY <3>1
  <2>3. x \in {n, l} /\ \A z \in {n, l} : x <= z
    BY <2>1, <2>2, Zenon DEF Min
  <2> QED
    BY <1>2, <2>1, <2>3
<1> QED
  BY <1>1, <1>3, <1>4 DEF Within

\* A piece of s.
IsPiece(e, s, a, b) ==
    /\ e = SubSeq(s, a + 1, b)
    /\ Len(e) = b - a
    /\ \A i \in 1 .. b - a : e[i] = s[a + i]

LEMMA PieceWorks ==
    ASSUME NEW A, NEW s \in Seq(A), NEW a \in Nat, NEW b \in Nat, a <= b, b <= Len(s)
    PROVE  SubSeq(s, a + 1, b) \in Seq(A) /\ IsPiece(SubSeq(s, a + 1, b), s, a, b)
<1>1. \A i \in a + 1 .. b : s[i] \in A
  OBVIOUS
<1>2. PICK m, e : m = a + 1 /\ e = SubSeq(s, a + 1, b)
  OBVIOUS
<1>3. m \in Int /\ b \in Int
  BY <1>2
<1>4. e \in Seq(A) /\ Len(e) = (IF m <= b THEN b - m + 1 ELSE 0) /\ \A i \in 1 .. b - m + 1 : e[i] = s[m + i - 1]
  BY <1>1, <1>2, <1>3, SubSeqProperties
<1>5. (IF m <= b THEN b - m + 1 ELSE 0) = b - a
  BY <1>2
<1>6. ASSUME NEW i \in 1 .. b - a PROVE e[i] = s[a + i]
  <2>1. i \in 1 .. b - m + 1 /\ m + i - 1 = a + i
    BY <1>2
  <2> QED
    BY <1>4, <2>1
<1> QED
  BY <1>2, <1>4, <1>5, <1>6 DEF IsPiece

LEMMA SliceIs ==
    ASSUME NEW A, NEW s \in Seq(A), NEW m \in Nat, NEW n \in Nat
    PROVE  Slice(s, m, n) = SubSeq(s, Within(m, s) + 1, Within(n, s))
BY BoundIs DEF Slice

LEMMA PagedWorks ==
    ASSUME NEW A, NEW s \in Seq(A), NEW m \in Nat, NEW n \in Nat
    PROVE  /\ Paged(s, m, None) = SubSeq(s, Within(m, s) + 1, Len(s))
           /\ Paged(s, m, [n |-> n]) = SubSeq(s, Within(m, s) + 1, Within(m + n, s))
<1>1. PICK l, a, b : l = Len(s) /\ a = Within(m, s) /\ b = Within(m + n, s)
  OBVIOUS
<1>2. l \in Nat /\ a \in Nat /\ b \in Nat /\ a <= b /\ b <= l /\ Within(l, s) = l
  BY <1>1 DEF Within
<1>3. PICK rest : rest = SubSeq(s, a + 1, l)
  OBVIOUS
<1>4. rest \in Seq(A) /\ Len(rest) = l - a /\ \A i \in 1 .. l - a : rest[i] = s[a + i]
  <2>1. a <= l /\ l <= Len(s)
    BY <1>1, <1>2
  <2>2. rest \in Seq(A) /\ IsPiece(rest, s, a, l)
    BY <1>2, <1>3, <2>1, PieceWorks
  <2> QED
    BY <2>2 DEF IsPiece
<1>5. (IF m = 0 THEN s ELSE Slice(s, m, Len(s))) = rest
  <2>1. CASE m = 0
    <3>1. a = 0
      BY <1>1, <1>2, <2>1 DEF Within
    <3>2. SubSeq(s, 1, Len(s)) = s
      BY SubSeqFull
    <3>3. a + 1 = 1
      BY <3>1
    <3> QED
      BY <1>1, <1>3, <2>1, <3>2, <3>3
  <2>2. CASE m # 0
    <3>1. Slice(s, m, l) = SubSeq(s, Within(m, s) + 1, Within(l, s))
      BY <1>2, SliceIs
    <3> QED
      BY <1>1, <1>2, <1>3, <2>2, <3>1
  <2> QED
    BY <2>1, <2>2
<1>6. PICK limit : limit = [n |-> n]
  OBVIOUS
<1>7. limit # None /\ limit.n = n
  <2>1. DOMAIN limit = {"n"} /\ DOMAIN None = {"none"}
    BY <1>6 DEF None
  <2> QED
    BY <1>6, <2>1
<1>8. Paged(s, m, None) = rest /\ Paged(s, m, limit) = Slice(rest, 0, n)
  BY <1>5, <1>7 DEF Paged
<1>9. Slice(rest, 0, n) = SubSeq(s, a + 1, b)
  <2>1. PICK c : c = Within(n, rest)
    OBVIOUS
  <2>2. c \in Nat /\ c <= l - a /\ c = b - a
    <3>1. a = (IF m <= l THEN m ELSE l) /\ b = (IF m + n <= l THEN m + n ELSE l)
      BY <1>1 DEF Within
    <3>2. c = IF n <= l - a THEN n ELSE l - a
      BY <1>4, <2>1 DEF Within
    <3> QED
      BY <1>2, <3>1, <3>2
  <2>3. Slice(rest, 0, n) = SubSeq(rest, 1, c)
    <3>1. Within(0, rest) + 1 = 1
      BY <1>4 DEF Within
    <3>2. Slice(rest, 0, n) = SubSeq(rest, Within(0, rest) + 1, Within(n, rest))
      BY <1>4, SliceIs
    <3> QED
      BY <2>1, <3>1, <3>2
  <2>4. PICK x, y : x = SubSeq(rest, 0 + 1, c) /\ y = SubSeq(s, a + 1, b)
    OBVIOUS
  <2>5. x \in Seq(A) /\ Len(x) = c - 0 /\ \A i \in 1 .. c - 0 : x[i] = rest[0 + i]
    <3>1. 0 \in Nat /\ 0 <= c /\ c <= Len(rest)
      BY <1>4, <2>2
    <3> QED
      BY <1>4, <2>2, <2>4, <3>1, PieceWorks DEF IsPiece
  <2>6. y \in Seq(A) /\ Len(y) = b - a /\ \A i \in 1 .. b - a : y[i] = s[a + i]
    <3>1. y \in Seq(A) /\ IsPiece(y, s, a, b)
      <4>1. b <= Len(s)
        BY <1>1, <1>2
      <4> QED
        BY <1>2, <2>4, <4>1, PieceWorks
    <3> QED
      BY <3>1 DEF IsPiece
  <2>7. ASSUME NEW i \in 1 .. c PROVE x[i] = y[i]
    <3>1. i \in 1 .. c - 0 /\ 0 + i = i /\ i \in 1 .. l - a /\ i \in 1 .. b - a
      BY <1>2, <2>2
    <3> QED
      BY <1>4, <2>5, <2>6, <3>1
  <2>8. Len(x) = c /\ Len(y) = c
    BY <2>2, <2>5, <2>6
  <2>9. x = y
    BY <2>5, <2>6, <2>7, <2>8, SeqEqual
  <2>10. 0 + 1 = 1
    OBVIOUS
  <2> QED
    BY <2>3, <2>4, <2>9, <2>10
<1> QED
  BY <1>1, <1>3, <1>6, <1>8, <1>9

\* Three pages of any length, the last one open, are the whole.
LEMMA PagesTile ==
    ASSUME NEW A, NEW s \in Seq(A), NEW k \in Nat
    PROVE  /\ Paged(s, 0, None) = s
           /\ Paged(s, 0, [n |-> k]) \in Seq(A) /\ Paged(s, k, [n |-> k]) \in Seq(A) /\ Paged(s, 2 * k, None) \in Seq(A)
           /\ s = Paged(s, 0, [n |-> k]) \o Paged(s, k, [n |-> k]) \o Paged(s, 2 * k, None)
<1>1. PICK l, a, b : l = Len(s) /\ a = Within(k, s) /\ b = Within(2 * k, s)
  OBVIOUS
<1>2. l \in Nat /\ a \in Nat /\ b \in Nat /\ a <= b /\ b <= l /\ 0 \in Nat /\ 2 * k \in Nat /\ 2 * k = k + k /\ 0 + k = k
  BY <1>1 DEF Within
<1>3. Within(0, s) = 0
  BY <1>1, <1>2 DEF Within
<1>4. Paged(s, 0, None) = SubSeq(s, 0 + 1, l)
  <2>1. Paged(s, 0, None) = SubSeq(s, Within(0, s) + 1, Len(s))
    BY <1>2, PagedWorks, Zenon
  <2> QED
    BY <1>1, <1>3, <2>1
<1>5. Paged(s, 0, [n |-> k]) = SubSeq(s, 0 + 1, a)
  <2>1. Paged(s, 0, [n |-> k]) = SubSeq(s, Within(0, s) + 1, Within(0 + k, s))
    BY <1>2, PagedWorks, Zenon
  <2> QED
    BY <1>1, <1>2, <1>3, <2>1
<1>6. Paged(s, k, [n |-> k]) = SubSeq(s, a + 1, b)
  <2>1. Paged(s, k, [n |-> k]) = SubSeq(s, Within(k, s) + 1, Within(k + k, s))
    BY PagedWorks, Zenon
  <2> QED
    BY <1>1, <1>2, <2>1
<1>7. Paged(s, 2 * k, None) = SubSeq(s, b + 1, l)
  <2>1. Paged(s, 2 * k, None) = SubSeq(s, Within(2 * k, s) + 1, Len(s))
    BY <1>2, PagedWorks, Zenon
  <2> QED
    BY <1>1, <2>1
<1>8. 0 + 1 = 1
  OBVIOUS
<1>9. SubSeq(s, 1, l) = s
  BY <1>1, SubSeqFull
<1>10. SubSeq(s, 1, a) \o SubSeq(s, a + 1, b) = SubSeq(s, 1, b)
  <2>1. 1 \in 1 .. Len(s) + 1 /\ a \in 1 - 1 .. Len(s) /\ b \in a .. Len(s)
    BY <1>1, <1>2
  <2> QED
    BY <2>1, ConcatAdjacentSubSeq
<1>11. SubSeq(s, 1, b) \o SubSeq(s, b + 1, l) = SubSeq(s, 1, l)
  <2>1. 1 \in 1 .. Len(s) + 1 /\ b \in 1 - 1 .. Len(s) /\ l \in b .. Len(s)
    BY <1>1, <1>2
  <2> QED
    BY <2>1, ConcatAdjacentSubSeq
<1>12. SubSeq(s, 0 + 1, a) \in Seq(A) /\ SubSeq(s, a + 1, b) \in Seq(A) /\ SubSeq(s, b + 1, l) \in Seq(A)
  BY <1>1, <1>2, PieceWorks
<1> QED
  BY <1>4, <1>5, <1>6, <1>7, <1>8, <1>9, <1>10, <1>11, <1>12, Zenon
-----------------------------------------------------------------------------
(* Selects.                                                                *)

LEMMA ShownLength ==
    ASSUME NEW s \in Seq(AllRows), NEW select
    PROVE  Len(Shown(s, select)) = Len(s)
<1>1. PICK v : v = Shown(s, select)
  OBVIOUS
<1>2. Len(s) \in Nat /\ DOMAIN s = 1 .. Len(s)
  OBVIOUS
<1>3. CASE select = {}
  BY <1>3 DEF Shown
<1>4. CASE select # {}
  <2>1. v = [i \in 1 .. Len(s) |-> Project(s[i], select)]
    BY <1>1, <1>2, <1>4 DEF Shown
  <2> QED
    BY <1>1, <1>2, <2>1
<1> QED
  BY <1>3, <1>4

LEMMA ShownJoins ==
    ASSUME NEW a \in Seq(AllRows), NEW b \in Seq(AllRows), NEW select
    PROVE  Shown(a \o b, select) = Shown(a, select) \o Shown(b, select)
<1>1. CASE select = {}
  BY <1>1 DEF Shown
<1>2. CASE select # {}
  <2> DEFINE see(x) == Project(x, select)
  <2>1. PICK c, va, vb, vc : c = a \o b /\ va = Shown(a, select) /\ vb = Shown(b, select) /\ vc = Shown(a \o b, select)
    OBVIOUS
  <2>2. /\ Len(a) \in Nat /\ DOMAIN a = 1 .. Len(a) /\ Len(b) \in Nat /\ DOMAIN b = 1 .. Len(b)
        /\ c \in Seq(AllRows) /\ Len(c) = Len(a) + Len(b) /\ DOMAIN c = 1 .. Len(a) + Len(b)
        /\ \A x \in 1 .. Len(a) + Len(b) : c[x] = IF x <= Len(a) THEN a[x] ELSE b[x - Len(a)]
    BY <2>1
  <2>3. /\ va = [x \in 1 .. Len(a) |-> see(a[x])]
        /\ vb = [x \in 1 .. Len(b) |-> see(b[x])]
        /\ vc = [x \in 1 .. Len(a) + Len(b) |-> see(c[x])]
    BY <1>2, <2>1, <2>2 DEF Shown
  <2> HIDE DEF see
  <2>4. PICK V : \A x \in AllRows : see(x) \in V
    <3>1. \A x \in AllRows : see(x) \in {see(y) : y \in AllRows}
      OBVIOUS
    <3> QED
      BY <3>1
  <2>5. ASSUME NEW s \in Seq(AllRows), NEW v, v = [x \in 1 .. Len(s) |-> see(s[x])]
        PROVE  v \in Seq(V) /\ Len(v) = Len(s)
    <3>1. Len(s) \in Nat /\ \A x \in 1 .. Len(s) : s[x] \in AllRows
      OBVIOUS
    <3>2. \A x \in 1 .. Len(s) : see(s[x]) \in V
      BY <2>4, <3>1
    <3> QED
      BY <2>5, <3>1, <3>2
  <2>6. va \in Seq(V) /\ Len(va) = Len(a) /\ vb \in Seq(V) /\ Len(vb) = Len(b)
    BY <2>3, <2>5
  <2>7. vc \in Seq(V) /\ Len(vc) = Len(a) + Len(b)
    <3>1. vc = [x \in 1 .. Len(c) |-> see(c[x])]
      BY <2>2, <2>3
    <3> QED
      BY <2>2, <2>5, <3>1
  <2>8. ASSUME NEW x \in 1 .. Len(a) + Len(b) PROVE vc[x] = IF x <= Len(a) THEN va[x] ELSE vb[x - Len(a)]
    <3>1. vc[x] = see(c[x])
      BY <2>3
    <3>2. CASE x <= Len(a)
      <4>1. x \in 1 .. Len(a) /\ c[x] = a[x]
        BY <2>2, <3>2
      <4> QED
        BY <2>3, <3>1, <3>2, <4>1
    <3>3. CASE ~(x <= Len(a))
      <4>1. x - Len(a) \in 1 .. Len(b) /\ c[x] = b[x - Len(a)]
        BY <2>2, <3>3
      <4> QED
        BY <2>3, <3>1, <3>3, <4>1
    <3> QED
      BY <3>2, <3>3
  <2>9. /\ va \o vb \in Seq(V) /\ Len(va \o vb) = Len(a) + Len(b)
        /\ \A x \in 1 .. Len(a) + Len(b) : (va \o vb)[x] = IF x <= Len(a) THEN va[x] ELSE vb[x - Len(a)]
    <3>1. /\ va \o vb \in Seq(V) /\ Len(va \o vb) = Len(va) + Len(vb)
          /\ \A x \in 1 .. Len(va) + Len(vb) : (va \o vb)[x] = IF x <= Len(va) THEN va[x] ELSE vb[x - Len(va)]
      BY <2>6, ConcatProperties, Zenon
    <3>2. Len(va) = Len(a) /\ Len(vb) = Len(b)
      BY <2>6
    <3> QED
      BY <3>1, <3>2, Zenon
  <2>10. vc = va \o vb
    BY <2>7, <2>8, <2>9, SeqEqual
  <2> QED
    BY <2>1, <2>10
<1> QED
  BY <1>1, <1>2

\* A scan answers no row twice: its keys tell the rows apart.
LEMMA ScanDistinct ==
    ASSUME NEW t, IsTable(t), NEW where, NEW hits, hits = scan(t, where)
    PROVE  hits \in Seq(AllRows) /\ \A i, j \in 1 .. Len(hits) : hits[i] = hits[j] => i = j
<1>1. PICK rows, S, at : /\ rows = RowsOf(t) /\ S = {i \in DOMAIN rows : matchesWhere(rows[i], where)}
                         /\ at = Positions(S, Len(rows))
  OBVIOUS
<1>2. /\ rows \in Seq(AllRows) /\ DOMAIN rows = DOMAIN t.rows
      /\ \A i \in DOMAIN rows : rows[i] = t.rows[i].row
  BY <1>1, RowsOfTable
<1>3. hits = Picked(rows, S)
  BY <1>1, ScanPicks
<1>4. /\ hits \in Seq(AllRows) /\ Len(hits) = Len(at) /\ Lists(at, S, Len(rows))
      /\ \A i \in 1 .. Len(at) : at[i] \in DOMAIN rows /\ hits[i] = rows[at[i]]
  BY <1>1, <1>2, <1>3, PickedWorks
<1>5. \A i, j \in DOMAIN rows : rows[i] = rows[j] => i = j
  <2> SUFFICES ASSUME NEW i \in DOMAIN rows, NEW j \in DOMAIN rows, rows[i] = rows[j] PROVE i = j
    OBVIOUS
  <2>1. t.rows[i].pk = t.rows[j].pk
    BY <1>2 DEF IsTable, RowFits
  <2> QED
    BY <1>2, <2>1 DEF IsTable, Apart
<1>6. ASSUME NEW i \in 1 .. Len(hits), NEW j \in 1 .. Len(hits), hits[i] = hits[j] PROVE i = j
  <2>1. Len(at) \in Nat /\ i \in 1 .. Len(at) /\ j \in 1 .. Len(at)
    BY <1>4 DEF Lists
  <2>2. at[i] = at[j]
    BY <1>4, <1>5, <1>6, <2>1
  <2>3. at[i] \in Nat /\ at[j] \in Nat
    BY <1>4, <2>1 DEF Lists
  <2>4. ~(i < j) /\ ~(j < i)
    BY <1>4, <2>1, <2>2, <2>3 DEF Lists
  <2> QED
    BY <2>1, <2>4
<1> QED
  BY <1>4, <1>6

\* The columns of a statement name the columns of the set.
LEMMA SequenceOfSet ==
    ASSUME NEW S, IsFiniteSet(S), NEW s, s = SetToSeq(S)
    PROVE  Range(s) = S
<1>1. PICK n : n = Cardinality(S)
  OBVIOUS
<1>2. n \in Nat
  BY <1>1, FS_CardinalityType
<1>3. PICK f : f \in [1 .. n -> S] /\ IsInjective(f)
  <2>1. ExistsBijection(1 .. n, S)
    BY <1>1, FS_CardinalityType
  <2>2. PICK f : f \in Bijection(1 .. n, S)
    BY <2>1 DEF ExistsBijection
  <2> QED
    BY <2>2 DEF Bijection, Injection
<1>4. s \in [1 .. n -> S] /\ IsInjective(s)
  <2>1. \E g \in [1 .. n -> S] : IsInjective(g)
    BY <1>3
  <2> QED
    BY <1>1, <2>1, Zenon DEF SetToSeq
<1>5. s \in Surjection(1 .. n, S)
  <2>1. IsFiniteSet(1 .. n) /\ Cardinality(1 .. n) = n
    BY <1>2, FS_Interval
  <2>2. s \in Injection(1 .. n, S)
    BY <1>4 DEF Injection
  <2> QED
    BY <1>1, <2>1, <2>2, FS_Injection
<1> QED
  BY <1>4, <1>5 DEF Surjection, Range

LEMMA OnlyMember ==
    ASSUME NEW S, IsFiniteSet(S), Cardinality(S) <= 1, NEW c \in S
    PROVE  S = {c}
<1>1. ASSUME NEW d \in S, d # c PROVE FALSE
  <2>1. IsFiniteSet({c}) /\ Cardinality({c}) = 1
    BY FS_Singleton
  <2>2. IsFiniteSet({c} \cup {d}) /\ Cardinality({c} \cup {d}) = Cardinality({c}) + 1
    BY <1>1, <2>1, FS_AddElement
  <2>3. Cardinality({c} \cup {d}) <= Cardinality(S)
    BY <1>1, FS_Subset
  <2>4. Cardinality(S) \in Nat
    BY FS_CardinalityType
  <2> QED
    BY <2>1, <2>2, <2>3, <2>4
<1> QED
  BY <1>1

\* The statement that asks what the query asks, for two rows.
StatementOf(q) ==
    [where |-> IF q.where = {} THEN None ELSE CHOOSE c \in q.where : TRUE, order |-> q.order,
     dir |-> IF q.dir = "asc" THEN "" ELSE q.dir, limit |-> [n |-> 2],
     cols |-> IF q.select = {} THEN <<"*">> ELSE SetToSeq(q.select)]

LEMMA StatementAsks ==
    ASSUME NEW q, IsQuery(q), Cardinality(q.where) <= 1, NEW s, s = StatementOf(q)
    PROVE  /\ singleWhere(s.where) = q.where
           /\ s.cols # <<"COUNT(*)">>
           /\ (IF s.cols = <<"*">> THEN {} ELSE Range(s.cols)) = q.select
           /\ s.order # "" => (IF s.dir = "" /\ s.order # "" THEN "asc" ELSE s.dir) = q.dir
<1>1. /\ s.where = (IF q.where = {} THEN None ELSE CHOOSE c \in q.where : TRUE)
      /\ s.dir = (IF q.dir = "asc" THEN "" ELSE q.dir)
      /\ s.cols = (IF q.select = {} THEN <<"*">> ELSE SetToSeq(q.select))
  BY DEF StatementOf
<1>2. singleWhere(s.where) = q.where
  <2>1. CASE q.where = {}
    BY <1>1, <2>1 DEF singleWhere
  <2>2. CASE q.where # {}
    <3>1. s.where \in q.where /\ s.where # None
      <4>1. s.where = CHOOSE c \in q.where : TRUE
        BY <1>1, <2>2
      <4>2. s.where \in q.where
        BY <2>2, <4>1, Zenon
      <4> QED
        BY <4>2 DEF IsQuery
    <3>2. q.where = {s.where}
      BY <3>1, OnlyMember DEF IsQuery
    <3> QED
      BY <3>1, <3>2 DEF singleWhere
  <2> QED
    BY <2>1, <2>2
<1>3. <<"*">>[1] = "*" /\ <<"COUNT(*)">>[1] = "COUNT(*)" /\ Range(<<"*">>) = {"*"} /\ Range(<<"COUNT(*)">>) = {"COUNT(*)"}
  BY DEF Range
<1>4. /\ s.cols # <<"COUNT(*)">>
      /\ (IF s.cols = <<"*">> THEN {} ELSE Range(s.cols)) = q.select
  <2>1. CASE q.select = {}
    BY <1>1, <1>3, <2>1
  <2>2. CASE q.select # {}
    <3>1. s.cols = SetToSeq(q.select)
      BY <1>1, <2>2
    <3>2. Range(s.cols) = q.select
      BY <3>1, SequenceOfSet DEF IsQuery
    <3>3. "*" \notin Range(s.cols) /\ "COUNT(*)" \notin Range(s.cols)
      BY <3>2 DEF IsQuery
    <3>4. s.cols # <<"*">> /\ s.cols # <<"COUNT(*)">>
      BY <1>3, <3>3
    <3> QED
      BY <3>2, <3>4
  <2> QED
    BY <2>1, <2>2
<1>5. s.order # "" => (IF s.dir = "" /\ s.order # "" THEN "asc" ELSE s.dir) = q.dir
  <2>1. q.dir \in {"asc", "desc"}
    BY DEF IsQuery
  <2> QED
    BY <1>1, <2>1
<1> QED
  BY <1>2, <1>4, <1>5

LEMMA ExecuteSelectIs ==
    ASSUME NEW t, NEW q, IsQuery(q), Cardinality(q.where) <= 1, NEW rows, rows = scan(t, q.where)
    PROVE  /\ executeSelect(t, StatementOf(q)) =
                Shown(Paged(SortedBy(rows, q.order, q.dir), 0, [n |-> 2]), q.select)
           /\ executeSelect(t, [StatementOf(q) EXCEPT !.cols = <<"COUNT(*)">>]) = <<[count |-> Num(Len(rows))]>>
<1>1. PICK s, z : s = StatementOf(q) /\ z = [StatementOf(q) EXCEPT !.cols = <<"COUNT(*)">>]
  OBVIOUS
<1>2. PICK dir : dir = IF s.dir = "" /\ s.order # "" THEN "asc" ELSE s.dir
  OBVIOUS
<1>3. /\ singleWhere(s.where) = q.where
      /\ s.cols # <<"COUNT(*)">>
      /\ (IF s.cols = <<"*">> THEN {} ELSE Range(s.cols)) = q.select
      /\ s.order # "" => dir = q.dir
  BY <1>1, <1>2, StatementAsks
<1>4. s.order = q.order /\ s.limit = [n |-> 2] /\ z.where = s.where /\ z.cols = <<"COUNT(*)">>
  BY <1>1 DEF StatementOf
<1>5. PICK plan, zplan : plan = parseSelect(s) /\ zplan = parseSelect(z)
  OBVIOUS
<1>6. /\ plan.where = s.where /\ plan.order = q.order /\ plan.limit = [n |-> 2] /\ plan.cols = s.cols /\ plan.dir = dir
      /\ zplan.where = s.where /\ zplan.cols = <<"COUNT(*)">>
  BY <1>1, <1>2, <1>4, <1>5 DEF parseSelect, StatementOf
<1> DEFINE asked(p) == [where |-> singleWhere(p.where), order |-> p.order, dir |-> p.dir, offset |-> 0,
                        limit |-> p.limit, select |-> IF p.cols = <<"*">> THEN {} ELSE Range(p.cols)]
<1>7. /\ executeSelect(t, s) = IF isCountStar(plan.cols) THEN <<[count |-> Num(queryCount(t, asked(plan)))]>> ELSE all(t, asked(plan))
      /\ executeSelect(t, z) = IF isCountStar(zplan.cols) THEN <<[count |-> Num(queryCount(t, asked(zplan)))]>> ELSE all(t, asked(zplan))
  BY <1>5, Zenon DEF executeSelect
<1>8. PICK a, b : a = asked(plan) /\ b = asked(zplan)
  OBVIOUS
<1>9. /\ a.where = q.where /\ a.order = q.order /\ a.dir = dir /\ a.offset = 0 /\ a.limit = [n |-> 2] /\ a.select = q.select
      /\ b.where = q.where
  BY <1>3, <1>6, <1>8
<1> HIDE DEF asked
<1>10. executeSelect(t, s) = all(t, a)
  BY <1>3, <1>6, <1>7, <1>8 DEF isCountStar
<1>11. executeSelect(t, z) = <<[count |-> Num(queryCount(t, b))]>>
  BY <1>6, <1>7, <1>8 DEF isCountStar
<1>12. SortedBy(rows, q.order, dir) = SortedBy(rows, q.order, q.dir)
  BY <1>3, <1>4 DEF SortedBy
<1>13. all(t, a) = Shown(Paged(SortedBy(rows, q.order, dir), 0, [n |-> 2]), q.select)
  <2>1. all(t, a) = Shown(Paged(SortedBy(scan(t, a.where), a.order, a.dir), a.offset, a.limit), a.select)
    BY AllIs
  <2> QED
    BY <1>9, <2>1
<1>14. queryCount(t, b) = Len(rows)
  BY <1>9 DEF queryCount
<1> QED
  BY <1>1, <1>10, <1>11, <1>12, <1>13, <1>14

\* What SelectsMatch says of one query.
SelectAgrees(t, q, rows, full, shown) ==
    LET Pos(r) == CHOOSE i \in DOMAIN rows : rows[i] = r
        Page(from, k) == all(t, [q EXCEPT !.offset = from, !.limit = k])
        ordered == q.order # "" /\ Ordered({Cell(r, q.order) : r \in Range(rows)})
    IN  /\ Len(full) = queryCount(t, q) /\ Range(shown) = Range(rows)
        /\ ordered => \A i, j \in DOMAIN shown : i < j =>
             \/ Before(q.order, q.dir, shown[i], shown[j])
             \/ ~Before(q.order, q.dir, shown[j], shown[i]) /\ Pos(shown[i]) < Pos(shown[j])
        /\ q.order = "" => shown = rows
        /\ \A k \in 1 .. 2 :
             full = Page(0, [n |-> k]) \o Page(k, [n |-> k]) \o Page(2 * k, None)
        /\ Cardinality(q.where) <= 1 =>
             LET s == [where |-> IF q.where = {} THEN None ELSE CHOOSE c \in q.where : TRUE, order |-> q.order,
                       dir |-> IF q.dir = "asc" THEN "" ELSE q.dir, limit |-> [n |-> 2],
                       cols |-> IF q.select = {} THEN <<"*">> ELSE SetToSeq(q.select)]
             IN  /\ executeSelect(t, s) = Page(0, s.limit)
                 /\ executeSelect(t, [s EXCEPT !.cols = <<"COUNT(*)">>]) = <<[count |-> Num(Len(rows))]>>
        /\ q.select # {} => full = [i \in DOMAIN shown |-> Project(shown[i], q.select)]

\* What all answers for one page, and for all rows unprojected.
SamePage(t, q, from, k) ==
    all(t, [q EXCEPT !.offset = from, !.limit = k]) =
      Shown(Paged(SortedBy(scan(t, q.where), q.order, q.dir), from, k), q.select)

SameRows(t, q) ==
    all(t, [q EXCEPT !.select = {}, !.offset = 0, !.limit = None]) =
      Paged(SortedBy(scan(t, q.where), q.order, q.dir), 0, None)

LEMMA PageIs ==
    ASSUME NEW t, NEW q, IsQuery(q), NEW from, NEW k
    PROVE  SamePage(t, q, from, k)
<1>1. PICK a : a = [q EXCEPT !.offset = from, !.limit = k]
  OBVIOUS
<1>2. /\ a.where = q.where /\ a.order = q.order /\ a.dir = q.dir
      /\ a.offset = from /\ a.limit = k /\ a.select = q.select
  BY <1>1 DEF IsQuery
<1>3. all(t, a) = Shown(Paged(SortedBy(scan(t, a.where), a.order, a.dir), a.offset, a.limit), a.select)
  BY AllIs
<1> QED
  BY <1>1, <1>2, <1>3 DEF SamePage

LEMMA RowsAre ==
    ASSUME NEW t, NEW q, IsQuery(q)
    PROVE  SameRows(t, q)
<1>1. PICK a : a = [q EXCEPT !.select = {}, !.offset = 0, !.limit = None]
  OBVIOUS
<1>2. a.where = q.where /\ a.order = q.order /\ a.dir = q.dir /\ a.offset = 0 /\ a.limit = None /\ a.select = {}
  BY <1>1 DEF IsQuery
<1>3. all(t, a) = Shown(Paged(SortedBy(scan(t, a.where), a.order, a.dir), a.offset, a.limit), a.select)
  BY AllIs
<1>4. all(t, a) = Paged(SortedBy(scan(t, q.where), q.order, q.dir), 0, None)
  BY <1>2, <1>3 DEF Shown
<1> QED
  BY <1>1, <1>4 DEF SameRows

\* The sorted rows: as many, the same, and in order.
SortsTo(s, rows, by, dir) ==
    /\ s \in Seq(AllRows) /\ Len(s) = Len(rows) /\ DOMAIN s = 1 .. Len(rows) /\ Range(s) = Range(rows)
    /\ by # "" /\ Sortable(rows, by) => Ranked(s, rows, Len(rows), by, dir)
    /\ Holds(s, rows, Len(rows))

LEMMA SortedByWorks ==
    ASSUME NEW rows \in Seq(AllRows), NEW by, NEW dir
    PROVE  SortsTo(SortedBy(rows, by, dir), rows, by, dir)
<1>0. PICK s : s = SortedBy(rows, by, dir)
  OBVIOUS
<1>1. Len(rows) \in Nat /\ DOMAIN rows = 1 .. Len(rows)
  OBVIOUS
<1>2. Holds(s, rows, Len(rows)) /\ (by # "" /\ Sortable(rows, by) => Ranked(s, rows, Len(rows), by, dir))
  <2>1. CASE by = ""
    <3>1. s = rows
      BY <1>0, <2>1 DEF SortedBy
    <3> QED
      BY <1>1, <2>1, <3>1 DEF Holds
  <2>2. CASE by # ""
    <3>1. s = SortRows(rows, by, dir)
      BY <1>0, <2>2 DEF SortedBy
    <3> QED
      BY <3>1, SortWorks
  <2> QED
    BY <2>1, <2>2
<1>3. s \in Seq(AllRows) /\ Len(s) = Len(rows) /\ DOMAIN s = 1 .. Len(rows)
  <2>1. s \in Seq(AllRows) /\ Len(s) = Len(rows)
    BY <1>2, Zenon DEF Holds
  <2> QED
    BY <2>1
<1>4. Range(s) = Range(rows)
  <2>1. /\ \A i \in 1 .. Len(rows) : \E a \in 1 .. Len(rows) : s[i] = rows[a]
        /\ \A a \in 1 .. Len(rows) : \E i \in 1 .. Len(rows) : s[i] = rows[a]
    BY <1>2, Zenon DEF Holds
  <2>2. Range(s) \subseteq Range(rows)
    <3>1. \A i \in 1 .. Len(rows) : s[i] \in Range(rows)
      <4> SUFFICES ASSUME NEW i \in 1 .. Len(rows) PROVE s[i] \in Range(rows)
        OBVIOUS
      <4>1. PICK a \in 1 .. Len(rows) : s[i] = rows[a]
        BY <2>1
      <4> QED
        BY <1>1, <4>1 DEF Range
    <3> QED
      BY <1>3, <3>1 DEF Range
  <2>3. Range(rows) \subseteq Range(s)
    <3>1. \A a \in 1 .. Len(rows) : rows[a] \in Range(s)
      <4> SUFFICES ASSUME NEW a \in 1 .. Len(rows) PROVE rows[a] \in Range(s)
        OBVIOUS
      <4>1. PICK i \in 1 .. Len(rows) : s[i] = rows[a]
        BY <2>1
      <4> QED
        BY <1>3, <4>1 DEF Range
    <3> QED
      BY <1>1, <3>1 DEF Range
  <2> QED
    BY <2>2, <2>3
<1>5. SortsTo(s, rows, by, dir)
  BY <1>2, <1>3, <1>4, Zenon DEF SortsTo
<1> QED
  BY <1>0, <1>5

LEMMA SelectWorks ==
    ASSUME NEW t, IsTable(t), NEW q, IsQuery(q)
    PROVE  SelectAgrees(t, q, scan(t, q.where), all(t, [q EXCEPT !.offset = 0, !.limit = None]),
             IF q.select = {} THEN all(t, [q EXCEPT !.offset = 0, !.limit = None])
             ELSE all(t, [q EXCEPT !.select = {}, !.offset = 0, !.limit = None]))
<1>0. PICK rows : rows = scan(t, q.where)
  OBVIOUS
<1>1. rows \in Seq(AllRows) /\ \A i, j \in 1 .. Len(rows) : rows[i] = rows[j] => i = j
  BY <1>0, ScanDistinct
<1>2. Len(rows) \in Nat /\ DOMAIN rows = 1 .. Len(rows)
  BY <1>1
<1>3. PICK s, full, shown :
        /\ s = SortedBy(rows, q.order, q.dir)
        /\ full = all(t, [q EXCEPT !.offset = 0, !.limit = None])
        /\ shown = IF q.select = {} THEN all(t, [q EXCEPT !.offset = 0, !.limit = None])
                   ELSE all(t, [q EXCEPT !.select = {}, !.offset = 0, !.limit = None])
  OBVIOUS
<1>4. /\ s \in Seq(AllRows) /\ Len(s) = Len(rows) /\ DOMAIN s = 1 .. Len(rows) /\ Range(s) = Range(rows)
      /\ q.order # "" /\ Sortable(rows, q.order) => Ranked(s, rows, Len(rows), q.order, q.dir)
      /\ Holds(s, rows, Len(rows))
  <2>1. SortsTo(s, rows, q.order, q.dir)
    BY <1>1, <1>3, SortedByWorks
  <2> QED
    BY <2>1, Zenon DEF SortsTo
<1>5. \A from, k : all(t, [q EXCEPT !.offset = from, !.limit = k]) = Shown(Paged(s, from, k), q.select)
  <2> SUFFICES ASSUME NEW from, NEW k
               PROVE  all(t, [q EXCEPT !.offset = from, !.limit = k]) = Shown(Paged(s, from, k), q.select)
    OBVIOUS
  <2>1. all(t, [q EXCEPT !.offset = from, !.limit = k]) =
          Shown(Paged(SortedBy(scan(t, q.where), q.order, q.dir), from, k), q.select)
    <3>1. SamePage(t, q, from, k)
      BY PageIs
    <3> QED
      BY <3>1 DEF SamePage
  <2>2. s = SortedBy(scan(t, q.where), q.order, q.dir)
    BY <1>0, <1>3
  <2> QED
    BY <2>1, <2>2, Zenon
<1>6. Paged(s, 0, None) = s
  BY <1>4, 0 \in Nat, PagesTile
<1>7. full = Shown(s, q.select)
  BY <1>3, <1>5, <1>6, Zenon
<1>8. shown = s
  <2>1. CASE q.select = {}
    BY <1>3, <1>7, <2>1 DEF Shown
  <2>2. CASE q.select # {}
    <3>1. all(t, [q EXCEPT !.select = {}, !.offset = 0, !.limit = None]) = Paged(s, 0, None)
      <4>1. all(t, [q EXCEPT !.select = {}, !.offset = 0, !.limit = None]) =
              Paged(SortedBy(scan(t, q.where), q.order, q.dir), 0, None)
        <5>1. SameRows(t, q)
          BY RowsAre
        <5> QED
          BY <5>1 DEF SameRows
      <4> QED
        BY <1>0, <1>3, <4>1, Zenon
    <3> QED
      BY <1>3, <1>6, <2>2, <3>1, Zenon
  <2> QED
    BY <2>1, <2>2
<1>9. Len(full) = queryCount(t, q) /\ Range(shown) = Range(rows)
  <2>1. Len(full) = Len(s)
    BY <1>4, <1>7, ShownLength
  <2> QED
    BY <1>0, <1>4, <1>8, <2>1 DEF queryCount
<1> DEFINE Pos(r) == CHOOSE i \in DOMAIN rows : rows[i] = r
<1>10. \A a \in 1 .. Len(rows) : Pos(rows[a]) = a
  <2> SUFFICES ASSUME NEW a \in 1 .. Len(rows) PROVE Pos(rows[a]) = a
    OBVIOUS
  <2>1. a \in DOMAIN rows /\ \A i \in DOMAIN rows : rows[i] = rows[a] => i = a
    BY <1>1, <1>2
  <2>2. Pos(rows[a]) \in DOMAIN rows /\ rows[Pos(rows[a])] = rows[a]
    BY <2>1, Zenon
  <2> QED
    BY <2>1, <2>2
<1>11. ASSUME q.order # "", Ordered({Cell(r, q.order) : r \in Range(rows)}), NEW i \in DOMAIN shown, NEW j \in DOMAIN shown, i < j
       PROVE  \/ Before(q.order, q.dir, shown[i], shown[j])
              \/ ~Before(q.order, q.dir, shown[j], shown[i]) /\ Pos(shown[i]) < Pos(shown[j])
  <2>1. i \in 1 .. Len(rows) /\ j \in 1 .. Len(rows)
    <3>1. DOMAIN shown = 1 .. Len(rows)
      BY <1>4, <1>8, Zenon
    <3> QED
      BY <3>1, Zenon
  <2>2. PICK a \in 1 .. Len(rows), b \in 1 .. Len(rows) : s[i] = rows[a] /\ s[j] = rows[b]
    <3>1. \A x \in 1 .. Len(rows) : \E y \in 1 .. Len(rows) : s[x] = rows[y]
      BY <1>4, Zenon DEF Holds
    <3> QED
      BY <2>1, <3>1, Zenon
  <2>3. \A x, y \in 1 .. Len(rows) : Alike(rows[x], rows[y], q.order)
    <3>1. \A x \in 1 .. Len(rows) : Cell(rows[x], q.order) \in {Cell(r, q.order) : r \in Range(rows)}
      BY <1>2 DEF Range
    <3>2. PICK C : C = {Cell(r, q.order) : r \in Range(rows)}
      OBVIOUS
    <3>3. (\A v \in C : v.t = "str") \/ \A v \in C : v.t \in {"num", "null"}
      BY <1>11, <3>2 DEF Ordered
    <3>4. \A x \in 1 .. Len(rows) : Cell(rows[x], q.order) \in C
      BY <3>1, <3>2
    <3> QED
      BY <3>3, <3>4 DEF Alike
  <2>4. Sortable(rows, q.order)
    BY <1>1, <2>3 DEF Sortable
  <2>5. \/ Rank(rows[a], q.order, q.dir) < Rank(rows[b], q.order, q.dir)
        \/ Rank(rows[a], q.order, q.dir) = Rank(rows[b], q.order, q.dir) /\ a < b
    <3>1. Ranked(s, rows, Len(rows), q.order, q.dir)
      BY <1>4, <1>11, <2>4
    <3>2. i < j
      BY <1>11
    <3>3. s[i] = rows[a] /\ s[j] = rows[b] /\ a \in 1 .. Len(rows) /\ b \in 1 .. Len(rows)
      BY <2>2
    <3>4. ASSUME NEW m, NEW u, NEW v, Ranked(s, rows, m, u, v), i \in 1 .. m, j \in 1 .. m, a \in 1 .. m, b \in 1 .. m
          PROVE  \/ Rank(rows[a], u, v) < Rank(rows[b], u, v)
                 \/ Rank(rows[a], u, v) = Rank(rows[b], u, v) /\ a < b
      BY <3>2, <3>3, <3>4, Zenon DEF Ranked
    <3> QED
      BY <2>1, <3>1, <3>3, <3>4
  <2>6. /\ rows[a] \in AllRows /\ rows[b] \in AllRows
        /\ Alike(rows[a], rows[b], q.order) /\ Alike(rows[b], rows[a], q.order)
    BY <1>1, <2>3
  <2>7. /\ Rank(rows[a], q.order, q.dir) \in Int /\ Rank(rows[b], q.order, q.dir) \in Int
        /\ Before(q.order, q.dir, rows[a], rows[b]) <=> Rank(rows[a], q.order, q.dir) < Rank(rows[b], q.order, q.dir)
        /\ Before(q.order, q.dir, rows[b], rows[a]) <=> Rank(rows[b], q.order, q.dir) < Rank(rows[a], q.order, q.dir)
    BY <2>6, RankTells
  <2>8. shown[i] = rows[a] /\ shown[j] = rows[b] /\ Pos(shown[i]) = a /\ Pos(shown[j]) = b
    <3>1. shown[i] = rows[a] /\ shown[j] = rows[b]
      BY <1>8, <2>2
    <3> HIDE DEF Pos
    <3> QED
      BY <1>10, <3>1
  <2> HIDE DEF Pos
  <2>9. CASE Rank(rows[a], q.order, q.dir) < Rank(rows[b], q.order, q.dir)
    BY <2>7, <2>8, <2>9
  <2>10. CASE Rank(rows[a], q.order, q.dir) = Rank(rows[b], q.order, q.dir) /\ a < b
    <3>1. ~Before(q.order, q.dir, rows[b], rows[a])
      BY <2>7, <2>10
    <3> QED
      BY <2>8, <2>10, <3>1
  <2> QED
    BY <2>5, <2>9, <2>10
<1>12. q.order = "" => shown = rows
  BY <1>3, <1>8 DEF SortedBy
<1> DEFINE Page(from, k) == all(t, [q EXCEPT !.offset = from, !.limit = k])
<1>13. ASSUME NEW k \in 1 .. 2 PROVE full = Page(0, [n |-> k]) \o Page(k, [n |-> k]) \o Page(2 * k, None)
  <2>1. PICK a, b, c : a = Paged(s, 0, [n |-> k]) /\ b = Paged(s, k, [n |-> k]) /\ c = Paged(s, 2 * k, None)
    OBVIOUS
  <2>2. a \in Seq(AllRows) /\ b \in Seq(AllRows) /\ c \in Seq(AllRows) /\ s = a \o b \o c
    <3>1. k \in Nat
      OBVIOUS
    <3>2. /\ Paged(s, 0, [n |-> k]) \in Seq(AllRows) /\ Paged(s, k, [n |-> k]) \in Seq(AllRows)
          /\ Paged(s, 2 * k, None) \in Seq(AllRows)
          /\ s = Paged(s, 0, [n |-> k]) \o Paged(s, k, [n |-> k]) \o Paged(s, 2 * k, None)
      BY <1>4, <3>1, PagesTile, Zenon
    <3>3. a \in Seq(AllRows) /\ b \in Seq(AllRows) /\ c \in Seq(AllRows)
      BY <2>1, <3>2, Zenon
    <3>4. s = a \o b \o c
      BY <2>1, <3>2
    <3> QED
      BY <3>3, <3>4
  <2>3. a \o b \in Seq(AllRows)
    BY <2>2, ConcatProperties
  <2>4. Shown(s, q.select) = Shown(a, q.select) \o Shown(b, q.select) \o Shown(c, q.select)
    <3>0. PICK ab : ab = a \o b
      OBVIOUS
    <3>1. Shown(a \o b \o c, q.select) = Shown(a \o b, q.select) \o Shown(c, q.select)
      <4>1. Shown(ab \o c, q.select) = Shown(ab, q.select) \o Shown(c, q.select)
        BY <2>2, <2>3, <3>0, ShownJoins
      <4> QED
        BY <3>0, <4>1
    <3>2. Shown(a \o b, q.select) = Shown(a, q.select) \o Shown(b, q.select)
      BY <2>2, ShownJoins
    <3> QED
      BY <2>2, <3>1, <3>2, Zenon
  <2>5. /\ Page(0, [n |-> k]) = Shown(a, q.select) /\ Page(k, [n |-> k]) = Shown(b, q.select)
        /\ Page(2 * k, None) = Shown(c, q.select)
    BY <1>5, <2>1, Zenon
  <2> HIDE DEF Page
  <2> QED
    BY <1>7, <2>4, <2>5, Zenon
<1>14. ASSUME Cardinality(q.where) <= 1
       PROVE  /\ executeSelect(t, StatementOf(q)) = Page(0, StatementOf(q).limit)
              /\ executeSelect(t, [StatementOf(q) EXCEPT !.cols = <<"COUNT(*)">>]) = <<[count |-> Num(Len(rows))]>>
  <2>1. StatementOf(q).limit = [n |-> 2]
    BY DEF StatementOf
  <2>2. Page(0, [n |-> 2]) = Shown(Paged(s, 0, [n |-> 2]), q.select)
    BY <1>5, Zenon
  <2>3. /\ executeSelect(t, StatementOf(q)) = Shown(Paged(s, 0, [n |-> 2]), q.select)
        /\ executeSelect(t, [StatementOf(q) EXCEPT !.cols = <<"COUNT(*)">>]) = <<[count |-> Num(Len(rows))]>>
    BY <1>0, <1>3, <1>14, ExecuteSelectIs
  <2> HIDE DEF Page
  <2> QED
    BY <2>1, <2>2, <2>3, Zenon
<1>15. q.select # {} => full = [i \in DOMAIN shown |-> Project(shown[i], q.select)]
  BY <1>7, <1>8 DEF Shown
<1>16. SelectAgrees(t, q, rows, full, shown)
  <2>1. q.order # "" /\ Ordered({Cell(r, q.order) : r \in Range(rows)}) =>
          \A i, j \in DOMAIN shown : i < j =>
             \/ Before(q.order, q.dir, shown[i], shown[j])
             \/ ~Before(q.order, q.dir, shown[j], shown[i]) /\ Pos(shown[i]) < Pos(shown[j])
    <3> HIDE DEF Pos
    <3> QED
      BY <1>11
  <2>2. \A k \in 1 .. 2 : full = Page(0, [n |-> k]) \o Page(k, [n |-> k]) \o Page(2 * k, None)
    <3> HIDE DEF Page
    <3> QED
      BY <1>13
  <2> QED
    BY <1>9, <1>12, <1>14, <1>15, <2>1, <2>2, ZenonT(60) DEF SelectAgrees, StatementOf
<1> QED
  BY <1>0, <1>3, <1>16, Zenon

\* scan, sort, slice and project compose into what a query promises, and
\* executeSelect asks the same: the rows that match, stably ordered, in pages
\* that tile, for any query on any table reached.
THEOREM SelectsAreExact == Spec => []SelectsMatch
<1>1. RelInv => SelectsMatch
  <2> SUFFICES ASSUME RelInv PROVE SelectsMatch
    OBVIOUS
  <2>1. ASSUME NEW n \in DOMAIN tables, NEW q \in use.queries
        PROVE  SelectAgrees(tables[n], q, scan(tables[n], q.where),
                 all(tables[n], [q EXCEPT !.offset = 0, !.limit = None]),
                 IF q.select = {} THEN all(tables[n], [q EXCEPT !.offset = 0, !.limit = None])
                 ELSE all(tables[n], [q EXCEPT !.select = {}, !.offset = 0, !.limit = None]))
    <3>1. PICK t, rows : t = tables[n] /\ rows = scan(tables[n], q.where)
      OBVIOUS
    <3>2. IsTable(t)
      BY <3>1 DEF RelInv, CatalogInv, IsCatalog, IsTables, Database
    <3>3. IsQuery(q)
      BY SessionAssumption DEF RelInv, VarsTyped, TypeOK
    <3>4. SelectAgrees(t, q, rows, all(t, [q EXCEPT !.offset = 0, !.limit = None]),
            IF q.select = {} THEN all(t, [q EXCEPT !.offset = 0, !.limit = None])
            ELSE all(t, [q EXCEPT !.select = {}, !.offset = 0, !.limit = None]))
      BY <3>1, <3>2, <3>3, SelectWorks
    <3> QED
      BY <3>1, <3>4, Zenon
  <2> QED
    BY <2>1, ZenonT(60) DEF SelectsMatch, SelectAgrees
<1> QED
  BY <1>1, RelationalInvariant, PTL

=============================================================================
