-------------------------------- MODULE Loop --------------------------------
(***************************************************************************)
(* A loop over a sequence: Step takes the state of the loop and the next   *)
(* element to the state after that turn.                                   *)
(***************************************************************************)
EXTENDS Integers, Sequences

CONSTANT Step(_, _)

\* The state before the first turn and after each one, and after the last.
Turns(s, q) == LET t[k \in 0..Len(q)] == IF k = 0 THEN s ELSE Step(t[k - 1], q[k]) IN t
Over(s, q) == Turns(s, q)[Len(q)]
=============================================================================
