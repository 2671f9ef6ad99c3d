---------------------------- MODULE RegisterFile ----------------------------
(***************************************************************************)
(* What the guest sees of ST(0) .. ST(N - 1) between two movements of TOP: *)
(* a register is stored to, or ST(0) is exchanged with another.            *)
(***************************************************************************)
EXTENDS Naturals
CONSTANTS N, Value
VARIABLE file

Depth == 0..(N - 1)
Init == file \in [Depth -> Value]
Store(d, v) == file' = [file EXCEPT ![d] = v]
Exchange(d) == file' = [file EXCEPT ![0] = file[d], ![d] = file[0]]
Next == \E d \in Depth : Exchange(d) \/ \E v \in Value : Store(d, v)
Spec == Init /\ [][Next]_file
=============================================================================
