------------------------------- MODULE MCX87 -------------------------------
(* Instances of X87Deferred for TLC: two register values, one bit of        *)
(* condition codes and of control word.  Subtraction and division are not   *)
(* commutative, so that a swapped operand shows.                            *)
EXTENDS X87Deferred

MCF(op, x, y) ==
    CASE op = "add" -> IF x = y THEN 0 ELSE 1
      [] op = "mul" -> IF x = 1 /\ y = 1 THEN 1 ELSE 0
      [] op = "sub" -> IF x = 1 /\ y = 0 THEN 1 ELSE 0
      [] op = "div" -> IF x = 0 /\ y = 1 THEN 0 ELSE 1
MCU(op, x) == IF op \in {"chs", "trans"} THEN 1 - x
              ELSE IF op = "abs" THEN 1 ELSE x
MCRound(c, x) == IF c = 1 THEN x ELSE 0
MCCmp(x, y) == IF x = 1 /\ y = 0 THEN 1 ELSE 0
MCCond(f) == f = 1
=============================================================================
