------------------------------ MODULE GprLease ------------------------------
(***************************************************************************)
(* What the x87 translator promises about the scratch GPRs it keeps while  *)
(* another translator works: a register it relies on is on lease and holds *)
(* the value it is leased for; a step of the other translator leaves it    *)
(* alone; and enough registers stay off lease for the other one to work.   *)
(***************************************************************************)
EXTENDS Integers, FiniteSets

CONSTANTS
    Regs,       \* the scratch registers
    MinFree     \* registers the other translator can count on

VARIABLES
    lease,      \* the value each leased register is kept for
    val,        \* what the registers hold
    turn        \* "ours" or "rosetta"
vars == <<lease, val, turn>>

Honoured(l, v) == \A g \in DOMAIN l : v[g] = l[g]

Init == DOMAIN lease = {} /\ turn = "ours"
\* The x87 translator may end leases and take out new ones.
Ours ==
    /\ turn = "ours"
    /\ DOMAIN lease' \subseteq Regs /\ Honoured(lease', val')
    /\ turn' = "rosetta" => Cardinality(Regs \ DOMAIN lease') >= MinFree
\* The other one does as it likes with the registers off lease.
Theirs ==
    /\ turn = "rosetta" /\ turn' = "ours"
    /\ lease' = lease /\ \A g \in DOMAIN lease : val'[g] = val[g]
Next == Ours \/ Theirs
Spec == Init /\ [][Next]_vars
=============================================================================
