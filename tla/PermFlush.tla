------------------------------ MODULE PermFlush ------------------------------
(***************************************************************************)
(* Deferred exchanges, in detail.  FXCH is recorded in a permutation, and  *)
(* the accesses that follow go through it.  Before TOP moves, and at the   *)
(* end of a run, emit_x87_perm_flush writes the permutation back to memory *)
(* cycle by cycle, with one register that keeps the first value of the     *)
(* cycle.  X87Deferred has the net effect in one step; here the flush is   *)
(* the loop of the code, one load and store at a time.                     *)
(***************************************************************************)
EXTENDS Naturals
CONSTANTS N, Value  \* number of x87 registers (8), what a register may hold
ASSUME RegistersAssumption == N \in Nat \ {0}

VARIABLES
    st,          \* X87State's registers, by depth below TOP
    perm,        \* X87Cache::perm
    perm_dirty,
    pc,          \* "run" between flushes; "scan" and "walk" in the two loops
    i, j,        \* the first depth of the cycle, and the depth to be stored
    visited, save \* (locals of the flush: at their first values outside it)
vars == <<st, perm, perm_dirty, pc, i, j, visited, save>>

Depth == 0..(N - 1)
Identity == [d \in Depth |-> d]

Init ==
    /\ st \in [Depth -> Value] /\ perm = Identity /\ perm_dirty = FALSE
    /\ pc = "run" /\ i = 0 /\ j = 0 /\ visited = {} /\ save = st[0]

resolve_depth(d) == IF perm_dirty THEN perm[d] ELSE d

\* A translation that stores to ST(d).
emit_store_st(d, v) ==
    /\ pc = "run" /\ st' = [st EXCEPT ![resolve_depth(d)] = v]
    /\ UNCHANGED <<perm, perm_dirty, pc, i, j, visited, save>>

\* FXCH ST(d) in a run, deferred.
MUT_translate_fxch(d) ==
    /\ pc = "run"
    /\ perm' = [perm EXCEPT ![0] = perm[d]] /\ perm_dirty' = TRUE
    /\ UNCHANGED <<st, pc, i, j, visited, save>>
translate_fxch(d) ==
    /\ pc = "run"
    /\ IF d = 0 THEN UNCHANGED <<perm, perm_dirty>>
       ELSE perm' = [perm EXCEPT ![0] = perm[d], ![d] = perm[0]] /\ perm_dirty' = TRUE
    /\ UNCHANGED <<st, pc, i, j, visited, save>>

(***************************************************************************)
(* emit_x87_perm_flush and the reset_perm that follows it.                 *)
(***************************************************************************)
Flush ==
    /\ pc = "run" /\ perm_dirty
    /\ pc' = "scan" /\ UNCHANGED <<st, perm, perm_dirty, i, j, visited, save>>
Skip ==
    /\ pc = "scan" /\ i < N /\ (i \in visited \/ perm[i] = i)
    /\ i' = i + 1 /\ UNCHANGED <<st, perm, perm_dirty, pc, j, visited, save>>
StartCycle ==
    /\ pc = "scan" /\ i < N /\ i \notin visited /\ perm[i] # i
    /\ save' = st[i] /\ visited' = visited \cup {i} /\ j' = i /\ pc' = "walk"
    /\ UNCHANGED <<st, perm, perm_dirty, i>>
MUT_Rotate ==
    /\ pc = "walk" /\ perm[j] # i
    /\ st' = [st EXCEPT ![perm[j]] = st[j]]
    /\ visited' = visited \cup {perm[j]} /\ j' = perm[j]
    /\ UNCHANGED <<perm, perm_dirty, pc, i, save>>
Rotate ==
    /\ pc = "walk" /\ perm[j] # i
    /\ st' = [st EXCEPT ![j] = st[perm[j]]]
    /\ visited' = visited \cup {perm[j]} /\ j' = perm[j]
    /\ UNCHANGED <<perm, perm_dirty, pc, i, save>>
CloseCycle ==
    /\ pc = "walk" /\ perm[j] = i
    /\ st' = [st EXCEPT ![j] = save] /\ i' = i + 1 /\ pc' = "scan"
    /\ UNCHANGED <<perm, perm_dirty, j, visited, save>>
reset_perm ==
    /\ pc = "scan" /\ i = N
    /\ perm' = Identity /\ perm_dirty' = FALSE /\ pc' = "run"
    /\ i' = 0 /\ j' = 0 /\ visited' = {} /\ save' = st[0]
    /\ UNCHANGED st

InFlush == Skip \/ StartCycle \/ Rotate \/ CloseCycle \/ reset_perm
Next ==
    \/ \E d \in Depth : translate_fxch(d) \/ \E v \in Value : emit_store_st(d, v)
    \/ Flush \/ InFlush

\* The flush is straight-line code of the compiler: once begun, it goes on.
Spec == Init /\ [][Next]_vars /\ WF_vars(InFlush)

(***************************************************************************)
(* Properties.                                                             *)
(***************************************************************************)
\* The map stays a permutation through every sequence of exchanges and
\* flushes, and is the identity when it is not dirty, so that resolve_depth
\* may skip it.
PermutationKept ==
    /\ perm \in [Depth -> Depth]
    /\ \A d, e \in Depth : perm[d] = perm[e] => d = e
    /\ ~perm_dirty => perm = Identity

\* What the guest would find in ST(d): between flushes what resolve_depth
\* reads.  During one, a depth that was stored holds its value, the value the
\* cycle began with is in the register, and the others are where perm says.
Stored == IF pc = "walk" THEN visited \ {j} ELSE visited
View ==
    [d \in Depth |->
        CASE pc = "run" -> st[resolve_depth(d)]
          [] pc # "run" /\ d \in Stored -> st[d]
          [] pc = "walk" /\ d \notin Stored /\ perm[d] = i -> save
          [] OTHER -> st[perm[d]]]

\* The deferred exchanges and their write-back implement exchanges done on the
\* spot: each translation is that operation of RegisterFile, and the flush is
\* invisible: none of its steps overwrites a value that is still to be read.
File == INSTANCE RegisterFile WITH file <- View
Simulates ==
    \/ \E d \in Depth : translate_fxch(d) /\ File!Exchange(d)
    \/ \E d \in Depth, v \in Value : emit_store_st(d, v) /\ File!Store(d, v)
    \/ (Flush \/ InFlush) /\ UNCHANGED View
ExchangesKept == File!Init /\ [][Simulates]_vars

\* The inner loop of the flush, which stops only when it is back at the first
\* depth of its cycle, comes to an end.
FlushEnds == (pc # "run") ~> (pc = "run")
=============================================================================
