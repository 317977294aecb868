------------------------------- MODULE Queries -------------------------------
(***************************************************************************)
(* Reading a table: filter.ts, query.ts, aggregation.ts, join.ts,          *)
(* pushdown.ts, secondary_index.ts, constraints.ts, validator.ts and the   *)
(* read statements of executor.ts.                                         *)
(***************************************************************************)
EXTENDS Rows, FiniteSetsExt

CONSTANTS
    Word32,    \* 2^32, the modulus of a uint32 cell
    Exact      \* 2^53, the last of the integers that are all floats

ASSUME WordAssumption == Word32 \in Nat \ {0} /\ Exact \in Nat \ {0}

None == [none |-> TRUE]

-----------------------------------------------------------------------------
(* Loops over an array are functions of the number of elements done.       *)

\* The members of S among the first n positions, in order.
Positions(S, n) ==
    LET found[k \in 0 .. n] ==
          IF k = 0 THEN <<>> ELSE IF k \in S THEN Append(found[k - 1], k) ELSE found[k - 1]
    IN  found[n]

\* What a filter keeps of s if it keeps the positions S.
Picked(s, S) == LET at == Positions(S, Len(s)) IN [i \in DOMAIN at |-> s[at[i]]]

-----------------------------------------------------------------------------
(* Filters.  A clause is a set of conditions [col, op, val], AND-ed.       *)

\* The comparison of two numbers that an operator names.
Compare(a, op, b) ==
    CASE op = "eq" -> a = b [] op = "ne" -> a # b
      [] op = "gt" -> a > b [] op = "gte" -> a >= b
      [] op = "lt" -> a < b [] op = "lte" -> a <= b

\* One check of compilePerColumn: eq and ne are ===, the others want numbers.
Check(v, op, val) ==
    CASE op = "eq" -> v = val
      [] op = "ne" -> v # val
      [] op = "in" -> v \in val
      [] OTHER     -> v.t = "num" /\ Compare(v.v, op, val.v)

matchesWhere(row, where) == \A c \in where : Check(Cell(row, c.col), c.op, c.val)

scan(t, where) ==
    LET rows == [i \in DOMAIN t.rows |-> t.rows[i].row]
    IN  Picked(rows, {i \in DOMAIN rows : matchesWhere(rows[i], where)})

\* singleWhere: the clause of a statement with at most one condition.
singleWhere(cond) == IF cond = None THEN {} ELSE {cond}

-----------------------------------------------------------------------------
(* QueryBuilder. *)

\* The number a cell compares as: null as 0, undefined and most texts as NaN.
AsNumber(a) ==
    CASE a.t = "num"   -> {a.v}
      [] a.t = "str"   -> NumberOf[a.v]
      [] a.t = "null"  -> {0}
      [] a.t = "undef" -> {}

\* JavaScript's a < b: two texts lexicographically, anything else as numbers.
JsLess(a, b) ==
    IF a.t = "str" /\ b.t = "str" THEN a.v < b.v
    ELSE \E m \in AsNumber(a), n \in AsNumber(b) : m < n

Before(by, dir, a, b) ==
    IF dir = "asc" THEN JsLess(Cell(a, by), Cell(b, by)) ELSE JsLess(Cell(b, by), Cell(a, by))

\* Array.sort is stable: a row goes behind the rows that are not after it.
\* (Where a cell is missing from a row, or null in a column of texts, the
\* comparison is no order, and what comes out is the JavaScript engine's
\* choice; this is one such choice.)
Ahead_Unstable(done, r, by, dir) == Cardinality({i \in DOMAIN done : Before(by, dir, done[i], r)})

Ahead(done, r, by, dir) == Cardinality({i \in DOMAIN done : ~Before(by, dir, r, done[i])})

Placed(done, k, r) == SubSeq(done, 1, k) \o <<r>> \o SubSeq(done, k + 1, Len(done))

SortRows(rows, by, dir) ==
    LET done[n \in 0 .. Len(rows)] ==
          IF n = 0 THEN <<>>
          ELSE Placed(done[n - 1], Ahead(done[n - 1], rows[n], by, dir), rows[n])
    IN  done[Len(rows)]

\* Array.slice: a negative bound counts from the end.
Bound(s, n) == IF n < 0 THEN Max({Len(s) + n, 0}) ELSE Min({n, Len(s)})
Slice(s, from, to) == SubSeq(s, Bound(s, from) + 1, Bound(s, to))

Project(row, cols) == [c \in cols |-> Cell(row, c)]

all(t, q) ==
    LET rows   == scan(t, q.where)
        sorted == IF q.order = "" THEN rows ELSE SortRows(rows, q.order, q.dir)
        rest   == IF q.offset = 0 THEN sorted ELSE Slice(sorted, q.offset, Len(sorted))
        page   == IF q.limit = None THEN rest ELSE Slice(rest, 0, q.limit.n)
    IN  IF q.select = {} THEN page ELSE [i \in DOMAIN page |-> Project(page[i], q.select)]

queryCount(t, q) == Len(scan(t, q.where))

-----------------------------------------------------------------------------
(* Floats.  Every number of a column and every sum is an integer; those up *)
(* to Exact are floats, larger ones are rounded to the grain floats have   *)
(* at their size, ties to even.                                            *)

Magnitude(n) == IF n < 0 THEN -n ELSE n

Grain(n) == 2 ^ Min({k \in 0 .. Magnitude(n) \div Exact : Magnitude(n) <= Exact * 2 ^ k})

Nearest(n, g) ==
    LET low  == (n \div g) * g
        down == \/ 2 * (n % g) < g
                \/ 2 * (n % g) = g /\ (n \div g) % 2 = 0
    IN  IF down THEN low ELSE low + g

Rounded(n) == IF Magnitude(n) <= Exact THEN n ELSE Nearest(n, Grain(n))

-----------------------------------------------------------------------------
(* Aggregation in one pass; avg is the pair of sum and count.              *)

Add(a, v) ==
    IF v.t # "num" THEN a
    ELSE [sum |-> Rounded(a.sum + v.v), count |-> a.count + 1,
          min |-> IF a.count = 0 \/ v.v < a.min THEN v.v ELSE a.min,
          max |-> IF a.count = 0 \/ v.v > a.max THEN v.v ELSE a.max]

Accumulated(rows, col) ==
    LET acc[n \in 0 .. Len(rows)] ==
          IF n = 0 THEN [sum |-> 0, count |-> 0, min |-> 0, max |-> 0] ELSE Add(acc[n - 1], Cell(rows[n], col))
    IN  acc[Len(rows)]

aggregate(rows, fn, col) ==
    LET acc == Accumulated(rows, col)
    IN  CASE fn = "count" -> Len(rows)
          [] fn # "count" /\ acc.count = 0 -> 0
          [] fn = "sum" /\ acc.count > 0 -> acc.sum
          [] fn = "avg" /\ acc.count > 0 -> <<acc.sum, acc.count>>
          [] fn = "min" /\ acc.count > 0 -> acc.min
          [] fn = "max" /\ acc.count > 0 -> acc.max

-----------------------------------------------------------------------------
(* Hash join: the left table is hashed, the right one probes.              *)

Under(m, k) == IF k \in DOMAIN m THEN m[k] ELSE <<>>

HashRow_LastOnly(m, row, key) == Put(m, String(Cell(row, key)), <<row>>)

HashRow(m, row, key) ==
    LET k == String(Cell(row, key)) IN Put(m, k, Append(Under(m, k), row))

Hashed(rows, key) ==
    LET map[n \in 0 .. Len(rows)] == IF n = 0 THEN <<>> ELSE HashRow(map[n - 1], rows[n], key)
    IN  map[Len(rows)]

Pairs(hits, row) == [i \in DOMAIN hits |-> [left |-> hits[i], right |-> row]]

Probed(map, rows, key) ==
    LET out[n \in 0 .. Len(rows)] ==
          IF n = 0 THEN <<>> ELSE out[n - 1] \o Pairs(Under(map, String(Cell(rows[n], key))), rows[n])
    IN  out[Len(rows)]

hashJoin(left, right, leftKey, rightKey) ==
    Probed(Hashed(scan(left, {}), leftKey), scan(right, {}), rightKey)

\* parseJoin: the ON clause names the FROM table first, then the JOIN table.
ParsesJoin(s) == s.on = <<s.left, s.right>>

\* executeJoin: the right row wins; filter, then project, then limit.
executeJoin(left, right, s) ==
    LET pairs  == hashJoin(left, right, s.leftKey, s.rightKey)
        merged == [i \in DOMAIN pairs |-> Merge(pairs[i].left, pairs[i].right)]
        kept   == Picked(merged, {i \in DOMAIN merged : matchesWhere(merged[i], singleWhere(s.where))})
        shown  == IF s.cols = <<"*">> THEN kept
                  ELSE [i \in DOMAIN kept |-> Project(kept[i], Range(s.cols))]
    IN  IF ~ParsesJoin(s) THEN None
        ELSE [rows |-> IF s.limit = None THEN shown ELSE Slice(shown, 0, s.limit.n)]

\* parseSelect: an ORDER BY without a direction is ascending.
parseSelect(s) == [s EXCEPT !.dir = IF @ = "" /\ s.order # "" THEN "asc" ELSE @]

isCountStar(cols) == cols = <<"COUNT(*)">>

\* executeSelect: COUNT(*) drops every clause but the WHERE.
executeSelect(t, s) ==
    LET plan == parseSelect(s)
        q == [where |-> singleWhere(plan.where), order |-> plan.order, dir |-> plan.dir, offset |-> 0,
              limit |-> plan.limit, select |-> IF plan.cols = <<"*">> THEN {} ELSE Range(plan.cols)]
    IN  IF isCountStar(plan.cols) THEN <<[count |-> Num(queryCount(t, q))]>> ELSE all(t, q)

-----------------------------------------------------------------------------
(* Columnar kernels.  NaN compares equal, less or greater to nothing.      *)

NaN == [t |-> "nan", v |-> 0]

cmpF64(v, op, target) == IF v = NaN THEN op = "ne" ELSE Compare(v.v, op, target)

\* The cells of a column, and the positions that hold numbers.
columnize_Dropping(rows, col) ==
    LET v == [i \in DOMAIN rows |-> Cell(rows[i], col)]
        cells == Picked(v, {i \in DOMAIN v : v[i].t = "num"})
    IN  [values |-> cells, valid |-> [i \in DOMAIN cells |-> i]]

columnize(rows, col) ==
    LET v == [i \in DOMAIN rows |-> Cell(rows[i], col)]
    IN  [values |-> [i \in DOMAIN rows |-> IF v[i].t = "num" THEN v[i] ELSE NaN],
         valid  |-> Positions({i \in DOMAIN rows : v[i].t = "num"}, Len(rows))]

pushFilterF64(values, op, target) ==
    Positions({i \in DOMAIN values : cmpF64(values[i], op, target)}, Len(values))

cmpU32(v, op, target) == Compare(v, op, target)

\* The target is taken modulo the word.
pushFilterU32(values, op, target) ==
    Positions({i \in DOMAIN values : cmpU32(values[i], op, target % Word32)}, Len(values))

\* A position past the end stops the walk.
Selected(values, sel) ==
    LET past == {i \in DOMAIN sel : sel[i] > Len(values)}
        stop == IF past = {} THEN Len(sel) ELSE Min(past) - 1
    IN  [i \in 1 .. stop |-> values[sel[i]]]

KahanStep_Plain(a, v) == [sum |-> Rounded(a.sum + v.v), c |-> 0]

\* Kahan's sum: c is what the rounded additions have lost so far.
KahanStep(a, v) ==
    LET y == Rounded(v.v - a.c)
        s == Rounded(a.sum + y)
    IN  [sum |-> s, c |-> Rounded(Rounded(s - a.sum) - y)]

KahanSum(cells) ==
    LET acc[n \in 0 .. Len(cells)] == IF n = 0 THEN [sum |-> 0, c |-> 0] ELSE KahanStep(acc[n - 1], cells[n])
    IN  IF NaN \in Range(cells) THEN NaN ELSE Num(acc[Len(cells)].sum)

pushSum(values) == KahanSum(values)

pushSumSelected(values, sel) == KahanSum(Selected(values, sel))

\* The running minimum starts at infinity, and a NaN never replaces it.
Infinity(sign) == [t |-> "inf", v |-> sign]
Numbers(cells) == {v.v : v \in Range(cells) \ {NaN}}

pushMinSelected(values, sel) ==
    LET cells == Selected(values, sel)
    IN  IF cells = <<>> THEN Num(0)
        ELSE IF Numbers(cells) = {} THEN Infinity(1) ELSE Num(Min(Numbers(cells)))

pushMaxSelected(values, sel) ==
    LET cells == Selected(values, sel)
    IN  IF cells = <<>> THEN Num(0)
        ELSE IF Numbers(cells) = {} THEN Infinity(-1) ELSE Num(Max(Numbers(cells)))

-----------------------------------------------------------------------------
(* Lookups and checks over a scan. *)

lookupByColumn(t, col, value) ==
    LET hits == scan(t, {[col |-> col, op |-> "eq", val |-> value]})
    IN  [i \in DOMAIN hits |-> String(Cell(hits[i], PrimaryKey(t.cols)))]

\* assertUnique returns; the row excluded may hold the value.
assertUnique(t, col, value, excludePk) ==
    \A r \in Range(scan(t, {})) :
        \/ excludePk # Undef /\ String(Cell(r, PrimaryKey(t.cols))) = String(excludePk)
        \/ Cell(r, col) # value

assertForeignKey(parent, value) == IsKey(value) /\ findByPk(parent, value) # {}

=============================================================================
