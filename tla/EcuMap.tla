------------------------------- MODULE EcuMap -------------------------------
(***************************************************************************)
(* One-dimensional lookup tables (core/ecu_map.c): a sequence of points    *)
(* [x, y] with ascending x, read with linear interpolation and held flat   *)
(* outside.  Values are integers; the quotient is rounded down.            *)
(***************************************************************************)
EXTENDS Integers, Sequences

Point == [x : Int, y : Int]

Interpolate(p, q, x) ==
  IF q.x = p.x THEN p.y ELSE p.y + ((x - p.x) * (q.y - p.y)) \div (q.x - p.x)

(* ecu_map1d_lookup: the first interval that holds x is used.              *)
Lookup(map, x) ==
  LET n == Len(map)
      Holds(i) == map[i].x <= x /\ x <= map[i + 1].x
  IN IF n = 0 THEN 0
     ELSE IF x <= map[1].x THEN map[1].y
     ELSE IF x >= map[n].x THEN map[n].y
     ELSE IF \E i \in 1 .. n - 1 : Holds(i)
          THEN LET i == CHOOSE i \in 1 .. n - 1 :
                          Holds(i) /\ \A j \in 1 .. i - 1 : ~Holds(j)
               IN Interpolate(map[i], map[i + 1], x)
          ELSE map[n].y
=============================================================================
