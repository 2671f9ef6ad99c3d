--------------------------- MODULE PermFlushProofs ---------------------------
(***************************************************************************)
(* For every number of registers and every domain of values, the map of    *)
(* deferred exchanges stays a permutation and its write-back, cycle by     *)
(* cycle, is invisible to the guest.                                       *)
(***************************************************************************)
EXTENDS PermFlush, TLAPS

Typed ==
    /\ st \in [Depth -> Value] /\ perm_dirty \in BOOLEAN
    /\ pc \in {"run", "scan", "walk"} /\ i \in 0..N /\ j \in Depth
    /\ visited \subseteq Depth /\ save \in Value

\* Between flushes the locals are at their first values.
AtRest == pc = "run" => visited = {} /\ i = 0
\* Depths below i are settled, in or out of a cycle.
Settled == \A k \in Depth : k < i => k \in visited \/ perm[k] = k
\* Between two cycles nothing that remains to be stored reads a stored depth.
Closed == pc = "scan" => \A k \in Depth : k \notin visited => perm[k] \notin visited
\* Inside one, only the depth that closes the cycle does, and it reads save.
Open ==
    pc = "walk" =>
        /\ i \in visited /\ j \in visited
        /\ \A k \in Depth : (k \notin visited \/ k = j) /\ perm[k] # i => perm[k] \notin visited
IInv == Typed /\ PermutationKept /\ AtRest /\ Settled /\ Closed /\ Open

LEMMA ZeroIsDepth == 0 \in Depth /\ 0 \in 0..N /\ Depth \subseteq Nat
BY RegistersAssumption DEF Depth

LEMMA InitIInv == Init => IInv
<1> SUFFICES ASSUME Init PROVE IInv OBVIOUS
<1> USE DEF Init
<1>0. st[0] \in Value BY ZeroIsDepth
<1>1. Typed BY <1>0, ZeroIsDepth DEF Typed
<1>2. PermutationKept BY DEF PermutationKept, Identity
<1>3. Settled BY ZeroIsDepth DEF Settled
<1>4. AtRest /\ Closed /\ Open BY DEF AtRest, Closed, Open
<1> QED BY <1>1, <1>2, <1>3, <1>4 DEF IInv

\* The exchange of two entries of a permutation is a permutation.
LEMMA Swap ==
    ASSUME IInv, NEW d \in Depth, translate_fxch(d)
    PROVE  IInv'
<1>1. CASE d = 0
  BY <1>1 DEF translate_fxch, IInv, Typed, PermutationKept, AtRest, Settled, Closed, Open
<1>2. CASE d # 0
  <2>1. Typed' BY <1>2 DEF translate_fxch, IInv, Typed
  <2>2. perm' = [perm EXCEPT ![0] = perm[d], ![d] = perm[0]] /\ perm_dirty' = TRUE
    BY <1>2 DEF translate_fxch
  <2>3. PermutationKept'
    BY <1>2, <2>2, ZeroIsDepth DEF IInv, PermutationKept
  <2>4. AtRest' /\ Settled' /\ Closed' /\ Open'
    BY ZeroIsDepth DEF translate_fxch, IInv, AtRest, Settled, Closed, Open
  <2> QED BY <2>1, <2>3, <2>4 DEF IInv
<1> QED BY <1>1, <1>2

LEMMA StoreStep ==
    ASSUME IInv, NEW d \in Depth, NEW v \in Value, emit_store_st(d, v)
    PROVE  IInv'
BY DEF emit_store_st, resolve_depth, IInv, Typed, PermutationKept, AtRest, Settled, Closed, Open

\* A step of the flush that leaves the map alone.
LEMMA MapUnchanged ==
    ASSUME PermutationKept, UNCHANGED <<perm, perm_dirty>> PROVE PermutationKept'
BY DEF PermutationKept

LEMMA FlushStep ==
    ASSUME IInv, Flush PROVE IInv'
<1> USE DEF Flush, IInv
<1>1. PermutationKept' BY MapUnchanged
<1> QED BY <1>1, ZeroIsDepth DEF Typed, AtRest, Settled, Closed, Open

LEMMA SkipStep ==
    ASSUME IInv, Skip PROVE IInv'
<1> USE DEF Skip, IInv
<1>1. PermutationKept' BY MapUnchanged
<1>2. Typed' BY RegistersAssumption DEF Typed
<1>3. Settled' BY ZeroIsDepth DEF Typed, Settled
<1> QED BY <1>1, <1>2, <1>3 DEF AtRest, Closed, Open

LEMMA StartStep ==
    ASSUME IInv, StartCycle PROVE IInv'
<1> USE DEF StartCycle, IInv
<1>1. PermutationKept' BY MapUnchanged
<1>2. i \in Depth BY RegistersAssumption DEF Typed, Depth
<1>3. Typed' BY <1>2 DEF Typed
<1>4. Settled' BY DEF Settled
<1>5. Open' BY <1>2 DEF Closed, Open
<1> QED BY <1>1, <1>3, <1>4, <1>5 DEF AtRest, Closed

LEMMA RotateStep ==
    ASSUME IInv, Rotate PROVE IInv'
<1> USE DEF Rotate, IInv
<1>1. PermutationKept' BY MapUnchanged
<1>2. j \in Depth /\ perm[j] \in Depth BY DEF Typed, PermutationKept
<1>3. Typed' BY <1>2 DEF Typed
<1>4. Settled' BY DEF Settled
<1>5. Open' BY <1>2 DEF Open, PermutationKept
<1> QED BY <1>1, <1>3, <1>4, <1>5 DEF AtRest, Closed

LEMMA CloseStep ==
    ASSUME IInv, CloseCycle PROVE IInv'
<1> USE DEF CloseCycle, IInv
<1>1. PermutationKept' BY MapUnchanged
<1>2. i \in Depth BY DEF Typed, Open
<1>3. Typed' BY <1>2, RegistersAssumption DEF Typed, Depth
<1>4. Settled' BY <1>2, ZeroIsDepth DEF Settled, Open
<1>5. Closed' BY <1>2 DEF Typed, Closed, Open, PermutationKept
<1> QED BY <1>1, <1>3, <1>4, <1>5 DEF AtRest, Open

LEMMA ResetStep ==
    ASSUME IInv, reset_perm PROVE IInv'
<1> USE DEF reset_perm, IInv
<1>1. PermutationKept' BY DEF PermutationKept, Identity
<1>0. st[0] \in Value BY ZeroIsDepth DEF Typed
<1>2. Typed' BY <1>0, ZeroIsDepth DEF Typed
<1> QED BY <1>1, <1>2, ZeroIsDepth DEF AtRest, Settled, Closed, Open

LEMMA Inductive == IInv /\ [Next]_vars => IInv'
<1> SUFFICES ASSUME IInv, [Next]_vars PROVE IInv' OBVIOUS
<1>1. CASE Next
  BY <1>1, Swap, StoreStep, FlushStep, SkipStep, StartStep, RotateStep, CloseStep, ResetStep
  DEF Next, InFlush
<1>2. CASE UNCHANGED vars
  BY <1>2 DEF vars, IInv, Typed, PermutationKept, AtRest, Settled, Closed, Open
<1> QED BY <1>1, <1>2

\* FXCH and the flush keep X87Cache::perm a permutation, the identity when
\* perm_dirty is clear.
THEOREM Permutation == Spec => []PermutationKept
<1>1. IInv => PermutationKept BY DEF IInv
<1> QED BY <1>1, InitIInv, Inductive, PTL DEF Spec

(***************************************************************************)
(* The view, by the place in the flush.                                    *)
(***************************************************************************)
LEMMA ViewRun ==
    ASSUME IInv, pc = "run" PROVE View = [d \in Depth |-> st[perm[d]]]
<1> SUFFICES ASSUME NEW d \in Depth
             PROVE  st[resolve_depth(d)] = st[perm[d]]
  BY DEF View
<1> QED BY DEF resolve_depth, IInv, PermutationKept, Identity
LEMMA ViewScan ==
    ASSUME pc = "scan"
    PROVE  View = [d \in Depth |-> IF d \in visited THEN st[d] ELSE st[perm[d]]]
BY DEF View, Stored
LEMMA ViewWalk ==
    ASSUME pc = "walk"
    PROVE  View = [d \in Depth |->
               IF d \in visited \ {j} THEN st[d] ELSE IF perm[d] = i THEN save ELSE st[perm[d]]]
BY DEF View, Stored
LEMMA ViewRunNext ==
    ASSUME IInv', pc' = "run" PROVE View' = [d \in Depth |-> st'[perm'[d]]]
<1> SUFFICES ASSUME NEW d \in Depth
             PROVE  st'[resolve_depth(d)'] = st'[perm'[d]]
  BY DEF View
<1> QED BY DEF resolve_depth, IInv, PermutationKept, Identity
LEMMA ViewScanNext ==
    ASSUME pc' = "scan"
    PROVE  View' = [d \in Depth |-> IF d \in visited' THEN st'[d] ELSE st'[perm'[d]]]
BY DEF View, Stored
LEMMA ViewWalkNext ==
    ASSUME pc' = "walk"
    PROVE  View' = [d \in Depth |->
               IF d \in visited' \ {j'} THEN st'[d] ELSE IF perm'[d] = i' THEN save' ELSE st'[perm'[d]]]
BY DEF View, Stored

LEMMA FxchExchanges ==
    ASSUME IInv, NEW d \in Depth, translate_fxch(d) PROVE File!Exchange(d)
<1>1. IInv' BY Swap
<1>2. View = [e \in Depth |-> st[perm[e]]] BY ViewRun DEF translate_fxch
<1>3. View' = [e \in Depth |-> st'[perm'[e]]] BY <1>1, ViewRunNext DEF translate_fxch
<1>4. st' = st /\ perm' = [perm EXCEPT ![0] = perm[d], ![d] = perm[0]]
  BY DEF translate_fxch, IInv, PermutationKept
<1> QED BY <1>2, <1>3, <1>4, ZeroIsDepth DEF File!Exchange, IInv, PermutationKept

LEMMA StoreStores ==
    ASSUME IInv, NEW d \in Depth, NEW v \in Value, emit_store_st(d, v) PROVE File!Store(d, v)
<1>1. IInv' BY StoreStep
<1>2. View = [e \in Depth |-> st[perm[e]]] BY ViewRun DEF emit_store_st
<1>3. View' = [e \in Depth |-> st'[perm'[e]]] BY <1>1, ViewRunNext DEF emit_store_st
<1>4. resolve_depth(d) = perm[d] BY DEF resolve_depth, IInv, PermutationKept, Identity
<1>5. st' = [st EXCEPT ![perm[d]] = v] /\ perm' = perm BY <1>4 DEF emit_store_st
<1> QED BY <1>2, <1>3, <1>5 DEF File!Store, IInv, Typed, PermutationKept

LEMMA FlushInvisible ==
    ASSUME IInv, Flush \/ InFlush PROVE UNCHANGED View
<1>1. CASE Flush
  BY <1>1, ViewRun, ViewScanNext DEF Flush, IInv, AtRest
<1>2. CASE Skip
  BY <1>2, ViewScan, ViewScanNext DEF Skip
<1>3. CASE StartCycle
  <2>1. View = [d \in Depth |-> IF d \in visited THEN st[d] ELSE st[perm[d]]]
    BY <1>3, ViewScan DEF StartCycle
  <2>2. View' = [d \in Depth |-> IF d \in visited THEN st[d] ELSE IF perm[d] = i THEN st[i] ELSE st[perm[d]]]
    BY <1>3, ViewWalkNext DEF StartCycle
  <2> QED BY <2>1, <2>2
<1>4. CASE Rotate
  <2> DEFINE n == perm[j]
  <2>1. View = [d \in Depth |->
            IF d \in visited \ {j} THEN st[d] ELSE IF perm[d] = i THEN save ELSE st[perm[d]]]
    BY <1>4, ViewWalk DEF Rotate
  <2>2. n \in Depth /\ n # i /\ n \notin visited /\ j \in visited /\ j \in Depth
    BY <1>4 DEF Rotate, IInv, Typed, Open, PermutationKept
  <2>3. st' = [st EXCEPT ![j] = st[n]] /\ visited' \ {j'} = visited
    BY <1>4, <2>2 DEF Rotate
  <2>4. View' = [d \in Depth |->
            IF d \in visited THEN st'[d] ELSE IF perm[d] = i THEN save ELSE st'[perm[d]]]
    BY <1>4, <2>3, ViewWalkNext DEF Rotate
  <2>5. \A d \in Depth : View'[d] = View[d]
    <3> SUFFICES ASSUME NEW d \in Depth PROVE View'[d] = View[d] OBVIOUS
    <3>1. CASE d = j BY <3>1, <2>1, <2>2, <2>3, <2>4 DEF IInv, Typed
    <3>2. CASE d \in visited \ {j} BY <3>2, <2>1, <2>3, <2>4 DEF IInv, Typed
    <3>3. CASE d \notin visited /\ perm[d] = i BY <3>3, <2>1, <2>4
    <3>4. CASE d \notin visited /\ perm[d] # i
      <4>1. perm[d] # j /\ perm[d] \in Depth
        BY <1>4, <3>4, <2>2 DEF Rotate, IInv, Open, PermutationKept
      <4> QED BY <3>4, <4>1, <2>1, <2>3, <2>4 DEF IInv, Typed
    <3> QED BY <3>1, <3>2, <3>3, <3>4
  <2> QED BY <2>1, <2>4, <2>5
<1>5. CASE CloseCycle
  <2>1. View = [d \in Depth |->
            IF d \in visited \ {j} THEN st[d] ELSE IF perm[d] = i THEN save ELSE st[perm[d]]]
    BY <1>5, ViewWalk DEF CloseCycle
  <2>2. View' = [d \in Depth |-> IF d \in visited THEN st'[d] ELSE st'[perm[d]]]
    BY <1>5, ViewScanNext DEF CloseCycle
  <2>3. st' = [st EXCEPT ![j] = save] /\ perm[j] = i /\ j \in visited /\ j \in Depth
    BY <1>5 DEF CloseCycle, IInv, Typed, Open
  <2>4. \A d \in Depth : View'[d] = View[d]
    <3> SUFFICES ASSUME NEW d \in Depth PROVE View'[d] = View[d] OBVIOUS
    <3>1. CASE d \in visited BY <3>1, <2>1, <2>2, <2>3 DEF IInv, Typed
    <3>2. CASE d \notin visited
      <4>1. perm[d] # i BY <3>2, <2>3 DEF IInv, PermutationKept
      <4>2. perm[d] # j /\ perm[d] \in Depth
        BY <1>5, <3>2, <4>1, <2>3 DEF CloseCycle, IInv, Open, PermutationKept
      <4> QED BY <3>2, <4>1, <4>2, <2>1, <2>2, <2>3 DEF IInv, Typed
    <3> QED BY <3>1, <3>2
  <2> QED BY <2>1, <2>2, <2>4
<1>6. CASE reset_perm
  <2>1. IInv' BY <1>6, ResetStep
  <2>2. View = [d \in Depth |-> IF d \in visited THEN st[d] ELSE st[perm[d]]]
    BY <1>6, ViewScan DEF reset_perm
  <2>3. View' = [d \in Depth |-> st'[perm'[d]]] BY <1>6, <2>1, ViewRunNext DEF reset_perm
  <2>4. st' = st /\ perm' = Identity BY <1>6 DEF reset_perm
  <2>5. View' = [d \in Depth |-> st[d]] BY <2>3, <2>4 DEF Identity
  <2>6. \A d \in Depth : d \in visited \/ perm[d] = d
    BY <1>6, RegistersAssumption DEF reset_perm, IInv, Settled, Depth
  <2> QED BY <2>2, <2>5, <2>6
<1> QED BY <1>1, <1>2, <1>3, <1>4, <1>5, <1>6 DEF InFlush

LEMMA NextSimulates == IInv /\ [Next]_vars => [Simulates]_vars
BY FxchExchanges, StoreStores, FlushInvisible DEF Next, Simulates, InFlush

LEMMA InitFile == Init => File!Init
<1> SUFFICES ASSUME Init PROVE View \in [Depth -> Value] BY DEF File!Init, File!Depth, Depth
<1> QED BY DEF Init, View, resolve_depth

\* FXCH recorded in perm and written back by emit_x87_perm_flush is FXCH done
\* on the spot, whatever the number of registers, their values and the order
\* of exchanges, stores and flushes.
THEOREM Exchanges == Spec => ExchangesKept
<1> QED BY InitIInv, Inductive, NextSimulates, InitFile, PTL DEF Spec, ExchangesKept

\* So the deferral implements a register file without any.
THEOREM Refinement == Spec => File!Spec
<1>1. [Simulates]_vars => [File!Next]_View
  <2>1. File!Depth = Depth BY DEF File!Depth, Depth
  <2>2. Simulates => File!Next \/ UNCHANGED View
    BY <2>1 DEF Simulates, File!Next
  <2>3. UNCHANGED vars => UNCHANGED View
    BY DEF vars, View, Stored, resolve_depth
  <2> QED BY <2>2, <2>3
<1> QED BY <1>1, Exchanges, PTL DEF ExchangesKept, File!Spec
=============================================================================
