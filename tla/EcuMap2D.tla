------------------------------ MODULE EcuMap2D ------------------------------
(***************************************************************************)
(* Two-dimensional lookup tables (core/ecu_map.c) and their construction   *)
(* from lists (cpp/jetecu/Map.cpp).  Keys and values are integers; the     *)
(* result of a lookup is the exact quotient [num, den].                    *)
(***************************************************************************)
EXTENDS EcuMap

CONSTANTS
  Tables,     \* the arguments a table is constructed from
  Queries,    \* the keys that are looked up
  MaxRows,    \* MAP2D_MAX_ROWS
  MaxCols     \* MAP2D_MAX_COLS

ASSUME Map2DAssumption ==
  /\ Queries \subseteq Int /\ MaxRows \in Nat \ {0} /\ MaxCols \in Nat \ {0}
  /\ \A t \in Tables : /\ t.rowKeys \in Seq(Int) /\ t.colKeys \in Seq(Int)
                         /\ t.values \in Seq(Seq(Int))

VARIABLES
  table,      \* ecu_map2d_t: its keys and its matrix
  query,      \* the last <<row_key, col_key>>; empty before the first
  result      \* what it returned

mapVars == <<table, query, result>>

Zero == [num |-> 0, den |-> 1]
Empty == [rowKeys |-> <<>>, colKeys |-> <<>>, values |-> <<>>]

MapInit == table = Empty /\ query = <<>> /\ result = Zero

-----------------------------------------------------------------------------
FirstN(s, n) == SubSeq(s, 1, IF Len(s) < n THEN Len(s) ELSE n)

(* The value of a row list at a column; what the lists leave out is 0.     *)
Cell(values, r, c) ==
  IF r \in DOMAIN values /\ c \in DOMAIN values[r] THEN values[r][c] ELSE 0

(* Map2D::Map2D: keys and values past the capacity are dropped.            *)
Build(t) ==
  LET rows == FirstN(t.rowKeys, MaxRows)
      cols == FirstN(t.colKeys, MaxCols)
  IN /\ table' = [rowKeys |-> rows, colKeys |-> cols,
                  values |-> [r \in DOMAIN rows |->
                               [c \in DOMAIN cols |-> Cell(t.values, r, c)]]]
     /\ query' = <<>> /\ result' = Zero

At(i) == [lo |-> i, hi |-> i, num |-> 0, den |-> 1]
Between(keys, i, k) ==
  IF keys[i + 1] > keys[i]
  THEN [lo |-> i, hi |-> i + 1, num |-> k - keys[i], den |-> keys[i + 1] - keys[i]]
  ELSE [lo |-> i, hi |-> i + 1, num |-> 0, den |-> 1]

(* find_interval: the first pair of neighbouring keys that holds k, and    *)
(* how far between them it lies.                                           *)
Interval(keys, k) ==
  LET n == Len(keys)
      holds == {i \in 1 .. n - 1 : keys[i] <= k /\ k <= keys[i + 1]}
  IN IF n < 2 \/ k <= keys[1] THEN At(1)
     ELSE IF k >= keys[n] \/ holds = {} THEN At(n)
     ELSE Between(keys, CHOOSE i \in holds : \A j \in holds : i <= j, k)

(* lerp.                                                                   *)
Blend(p, a, b) == (p.den - p.num) * a + p.num * b

Lookup2Faulty(t, row, col) ==
  LET r == Interval(t.rowKeys, row)
      c == Interval(t.colKeys, col)
      Line(i) == Blend(c, t.values[i][c.lo], t.values[r.lo][c.hi])
  IN IF t.rowKeys = <<>> \/ t.colKeys = <<>> THEN Zero
     ELSE [num |-> Blend(r, Line(r.lo), Line(r.hi)), den |-> r.den * c.den]

(* ecu_map2d_lookup.  Lookup2Faulty takes a corner of the wrong row; no    *)
(* specification uses it.                                                  *)
Lookup2(t, row, col) ==
  LET r == Interval(t.rowKeys, row)
      c == Interval(t.colKeys, col)
      Line(i) == Blend(c, t.values[i][c.lo], t.values[i][c.hi])
  IN IF t.rowKeys = <<>> \/ t.colKeys = <<>> THEN Zero
     ELSE [num |-> Blend(r, Line(r.lo), Line(r.hi)), den |-> r.den * c.den]

Look(row, col) ==
  /\ query' = <<row, col>> /\ result' = Lookup2(table, row, col)
  /\ UNCHANGED table

MapNext ==
  \/ \E t \in Tables : Build(t)
  \/ \E row, col \in Queries : Look(row, col)

MapSpec == MapInit /\ [][MapNext]_mapVars

-----------------------------------------------------------------------------
(* Properties.                                                             *)

(* The points of row r as a one-dimensional table.                         *)
RowMap(r) ==
  [c \in DOMAIN table.colKeys |-> [x |-> table.colKeys[c], y |-> table.values[r][c]]]

Transposed(t) ==
  [rowKeys |-> t.colKeys, colKeys |-> t.rowKeys,
   values |-> [c \in DOMAIN t.colKeys |-> [r \in DOMAIN t.rowKeys |-> t.values[r][c]]]]

(* The two lookups are separate code: on the key of a row, and outside of  *)
(* all of them, the bilinear one agrees with the linear one on that row,   *)
(* the row being the one that a linear lookup among the row keys finds.    *)
RowsAgree ==
  LET keys == table.rowKeys
      row == Lookup([r \in DOMAIN keys |-> [x |-> keys[r], y |-> r]], query[1])
      settled == \/ \E r \in DOMAIN keys : keys[r] = query[1]
                 \/ \A r \in DOMAIN keys : keys[r] < query[1]
                 \/ \A r \in DOMAIN keys : keys[r] > query[1]
  IN (query # <<>> /\ keys # <<>> /\ settled) =>
       result.num \div result.den = Lookup(RowMap(row), query[2])

(* Rows and columns are treated alike: the transposed table, asked with    *)
(* the keys swapped, gives the same value.                                 *)
Symmetric ==
  query # <<>> =>
    LET other == Lookup2(Transposed(table), query[2], query[1])
    IN result.num * other.den = other.num * result.den

(* The bilinear lookup is pinned to the linear one on the lines of the     *)
(* table, in both directions.                                              *)
LookupsAgree == RowsAgree /\ Symmetric
=============================================================================
