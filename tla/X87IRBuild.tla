----------------------------- MODULE X87IRBuild -----------------------------
(***************************************************************************)
(* X87IR::Context and X87IR::build: a run of x87 instructions becomes a    *)
(* row of nodes (SSA values and side effects) and a map slot[d] from stack *)
(* depths to nodes.  Loads of the same operand share a node until a store  *)
(* may have changed it, constants share a node, FXCH only permutes the     *)
(* slot map.                                                               *)
(*                                                                         *)
(* Node ids count from 0, as in the code: node id is nodes[id + 1].  A     *)
(* failing call leaves what it had done so far in the context and clears   *)
(* c.ok; the calls after it do nothing.  c.r is the id the last call       *)
(* returned.                                                               *)
(***************************************************************************)
EXTENDS X87Guest
LOCAL INSTANCE SequencesExt

CONSTANTS
    MaxNodes,       \* kMaxNodes
    CseSlots,       \* kMemCSESlots
    ConstSlots,     \* kConstF64Slots
    Config          \* the switches of RosettaConfig that are on

ASSUME MaxNodesAssumption == MaxNodes \in Nat

Popped == -100      \* the sentinel of Context::pop
NoNode == -1

\* Node: op, the flags, inputs[3], and what the union and aux carry.
Node(op, a, b) ==
    [op |-> op, dead |-> FALSE, f32 |-> FALSE, fused |-> FALSE, trunc |-> FALSE,
     in |-> <<a, b, NoNode>>, d |-> 0, v |-> 0, m |-> NoMem, k |-> "none"]
Nd(c, id) == c.nodes[id + 1]
Ids(c) == 0..(Len(c.nodes) - 1)

InitContext ==
    [nodes |-> << >>, ok |-> TRUE, r |-> NoNode,
     slot |-> [d \in Depth |-> -(d + 1)], td |-> 0,
     read |-> [d \in Depth |-> NoNode],
     cse |-> << >>, csenext |-> 0, narIn |-> NoNode, narNode |-> NoNode,
     zero |-> NoNode, one |-> NoNode, consts |-> << >>, constnext |-> 0,
     fcmp |-> NoNode, fcomi |-> NoNode, written |-> {}, consumed |-> 0]

Fail(c) == [c EXCEPT !.ok = FALSE, !.r = NoNode]
Return(c, id) == IF c.ok THEN [c EXCEPT !.r = id] ELSE c

MUT_add_node(c, n) ==
    IF ~c.ok \/ Len(c.nodes) > MaxNodes THEN Fail(c)
    ELSE [c EXCEPT !.nodes = Append(@, n), !.r = Len(c.nodes)]
add_node(c, n) ==
    IF ~c.ok \/ Len(c.nodes) >= MaxNodes THEN Fail(c)
    ELSE [c EXCEPT !.nodes = Append(@, n), !.r = Len(c.nodes)]

\* The node of ST(d): an initial slot is read the first time it is needed.
resolve(c, d) ==
    LET val == c.slot[d]
        e == -(val + 1)
        new == add_node(c, [Node("ReadSt", NoNode, NoNode) EXCEPT !.d = e])
    IN  IF ~c.ok THEN c
        ELSE IF val >= 0 THEN Return(c, val)
        ELSE IF e \notin Depth THEN Fail(c)
        ELSE IF c.read[e] >= 0
             THEN [c EXCEPT !.slot[d] = c.read[e], !.r = c.read[e]]
        ELSE IF ~new.ok THEN new
        ELSE [new EXCEPT !.read[e] = new.r, !.slot[d] = new.r]

push(c, id) ==
    IF ~c.ok THEN c
    ELSE [c EXCEPT !.td = @ - 1,
                   !.slot = [d \in Depth |-> IF d = 0 THEN id ELSE c.slot[d - 1]]]
pop(c) ==
    IF ~c.ok THEN c
    ELSE [c EXCEPT !.td = @ + 1,
                   !.slot = [d \in Depth |->
                                IF d = N - 1 THEN Popped ELSE c.slot[d + 1]]]
set_slot(c, d, id) == IF c.ok THEN [c EXCEPT !.slot[d] = id] ELSE c

(***************************************************************************)
(* The table of loaded operands.                                           *)
(***************************************************************************)
MUT_mem_operands_no_alias(a, b) ==
    a.seg = 0 /\ b.seg = 0 /\ a.base = b.base /\ a.disp # b.disp
mem_operands_no_alias(a, b) ==
    /\ a.seg = 0 /\ b.seg = 0 /\ a.base = b.base
    /\ a.disp + a.w <= b.disp \/ b.disp + b.w <= a.disp
mem_operand_uses_reg(m, r) == m.base = r

\* Eviction moves the entries that stay to the front: s.kept, for the store
\* to s.m or the write of register s.m.
keep_no_alias(s, e) ==
    IF mem_operands_no_alias(e.m, s.m) THEN [s EXCEPT !.kept = Append(@, e)] ELSE s
keep_other_reg(s, e) ==
    IF mem_operand_uses_reg(e.m, s.m) THEN s ELSE [s EXCEPT !.kept = Append(@, e)]
AliasScan == INSTANCE Loop WITH Step <- keep_no_alias
RegScan == INSTANCE Loop WITH Step <- keep_other_reg
Kept(c, t) == IF c.ok THEN [c EXCEPT !.cse = t.kept, !.csenext = 0] ELSE c
mem_cse_evict_may_alias(c, m) ==
    Kept(c, AliasScan!Over([kept |-> << >>, m |-> m], c.cse))
mem_cse_evict_reg(c, r) == Kept(c, RegScan!Over([kept |-> << >>, m |-> r], c.cse))
mem_cse_lookup(c, m, kind) ==
    SelectInSeq(c.cse, LAMBDA e : e.kind = kind /\ e.m = m)

\* Insert into a table of `cap` entries: append, then overwrite in rotation.
Rotate(table, next, cap, e) ==
    IF Len(table) < cap THEN <<Append(table, e), next>>
    ELSE <<[table EXCEPT ![next + 1] = e], (next + 1) % cap>>
mem_cse_insert(c, m, kind, id) ==
    LET t == Rotate(c.cse, c.csenext, CseSlots, [m |-> m, kind |-> kind, id |-> id])
    IN  IF c.ok THEN [c EXCEPT !.cse = t[1], !.csenext = t[2]] ELSE c

(***************************************************************************)
(* Constants and loads.  An absolute operand lies in memory that is mapped *)
(* read-only; promotion reads its value at translation time.               *)
(***************************************************************************)
build_const(c, v) ==
    LET hit == SelectInSeq(c.consts, LAMBDA e : e.v = v)
        new == add_node(c, [Node("ConstF64", NoNode, NoNode) EXCEPT !.v = v])
        t == Rotate(c.consts, c.constnext, ConstSlots, [v |-> v, id |-> new.r])
    IN  IF hit # 0 THEN Return(c, c.consts[hit].id)
        ELSE IF ~new.ok THEN new
        ELSE [new EXCEPT !.consts = t[1], !.constnext = t[2]]
const_node_for_bits(c, v) ==
    LET z == add_node(c, Node("ConstZero", NoNode, NoNode))
        o == add_node(c, Node("ConstOne", NoNode, NoNode))
    IN  IF v = Zero THEN IF c.zero >= 0 THEN Return(c, c.zero)
                         ELSE [z EXCEPT !.zero = z.r]
        ELSE IF v = One THEN IF c.one >= 0 THEN Return(c, c.one)
                             ELSE [o EXCEPT !.one = o.r]
        ELSE build_const(c, v)

Load(c, m, op) ==
    LET hit == mem_cse_lookup(c, m, op)
        ld == add_node(c, [Node(op, NoNode, NoNode) EXCEPT !.m = m])
        id == IF op = "LoadF32Raw" THEN add_node(ld, Node("CvtF32ToF64", ld.r, NoNode))
              ELSE ld
    IN  IF hit # 0 THEN Return(c, c.cse[hit].id)
        ELSE mem_cse_insert(id, m, op, id.r)
\* g is the guest at the start of the run: read-only memory never changes.
build_fp_load(c, g, m) ==
    IF "const_promote" \in Config /\ m.base = "abs"
    THEN const_node_for_bits(c, FpAt(g, m))
    ELSE Load(c, m, IF m.w = 1 THEN "LoadF32Raw" ELSE "LoadF64")
build_int_load(c, m) == Load(c, m, IF m.w = 1 THEN "LoadI32" ELSE "LoadI64")

(***************************************************************************)
(* Stores.  A stored value is forwarded to later loads of the operand; for *)
(* f32 what is forwarded is the narrowed value.                            *)
(***************************************************************************)
build_fp_store(c, m, val) ==
    LET wide == Nd(c, val).op = "CvtF32ToF64"
        cvt == add_node(c, Node("CvtF64ToF32", val, NoNode))
        nar == IF m.w = 2 THEN Return(c, val)
               ELSE IF wide THEN Return(c, Nd(c, val).in[1])
               ELSE IF c.narIn = val THEN Return(c, c.narNode)
               ELSE IF ~cvt.ok THEN cvt
               ELSE [cvt EXCEPT !.narIn = val, !.narNode = cvt.r]
        st == add_node(nar, [Node(IF m.w = 1 THEN "StoreF32Raw" ELSE "StoreF64",
                                  nar.r, NoNode) EXCEPT !.m = m])
        ev == mem_cse_evict_may_alias(st, m)
        fwd == add_node(ev, Node("CvtF32ToF64", nar.r, NoNode))
    IN  IF ~st.ok THEN st
        ELSE IF m.w = 2 THEN mem_cse_insert(ev, m, "LoadF64", val)
        ELSE IF wide THEN mem_cse_insert(ev, m, "LoadF32Raw", val)
        ELSE IF fwd.ok THEN mem_cse_insert(fwd, m, "LoadF32Raw", fwd.r)
        ELSE ev
build_int_store(c, m, val, trunc) ==
    LET st == add_node(c, [Node(IF m.w = 1 THEN "StoreI32" ELSE "StoreI64", val, NoNode)
                             EXCEPT !.m = m, !.trunc = trunc])
    IN  mem_cse_evict_may_alias(st, m)

(***************************************************************************)
(* Arithmetic and comparisons.                                             *)
(***************************************************************************)
ArithNode(k) ==
    CASE k = "add" -> "FAdd" [] k = "mul" -> "FMul"
      [] k \in {"sub", "subr"} -> "FSub" [] k \in {"div", "divr"} -> "FDiv"
\* dst := dst op src, or src op dst for the reversed forms.
Binary(c, k, dst, src, d) ==
    LET id == add_node(c, IF k \in {"subr", "divr"}
                          THEN Node(ArithNode(k), src, dst)
                          ELSE Node(ArithNode(k), dst, src))
    IN  set_slot(id, d, id.r)
build_arith(c, g, in) ==
    LET a == resolve(c, in.i)
        b == IF in.m.w = 0 THEN resolve(a, in.j) ELSE build_fp_load(a, g, in.m)
    IN  Binary(b, in.k, a.r, b.r, in.i)
build_iarith(c, in) ==
    LET a == resolve(c, 0)
        b == build_int_load(a, in.m)
    IN  Binary(b, in.k, a.r, b.r, 0)
build_arithp(c, in) ==
    LET a == resolve(c, in.i)
        b == resolve(a, 0)
    IN  pop(Binary(b, in.k, a.r, b.r, in.i))

Compare(c, op, lhs, rhs) ==
    LET id == add_node(c, Node(op, lhs, rhs))
    IN  IF id.ok THEN [id EXCEPT !.fcmp = id.r] ELSE id
build_fcom(c, g, in) ==
    LET a == resolve(c, 0)
        b == IF in.op = "fcompp" THEN resolve(a, 1)
             ELSE IF in.m.w = 0 THEN resolve(a, in.j)
             ELSE build_fp_load(a, g, in.m)
        cmp == Compare(b, "FCmp", a.r, b.r)
    IN  CASE in.op = "fcom" -> cmp
          [] in.op = "fcomp" -> pop(cmp)
          [] in.op = "fcompp" -> pop(pop(cmp))
build_ficom(c, in) ==
    LET a == resolve(c, 0)
        b == build_int_load(a, in.m)
        cmp == Compare(b, "FCmp", a.r, b.r)
    IN  IF in.op = "ficomp" THEN pop(cmp) ELSE cmp
build_fcomi(c, in) ==
    LET a == resolve(c, 0)
        b == resolve(a, in.j)
        id == add_node(b, Node("FComI", a.r, b.r))
        cmp == IF id.ok THEN [id EXCEPT !.fcomi = id.r] ELSE id
    IN  IF in.op = "fcomip" THEN pop(cmp) ELSE cmp
build_fcmov(c, in) ==
    LET a == resolve(c, 0)
        b == resolve(a, in.j)
        id == add_node(b, Node("FCSel", a.r, b.r))
    IN  IF c.fcomi < 0 THEN Fail(c) ELSE set_slot(id, 0, id.r)

Unary(c, op) ==
    LET a == resolve(c, 0)
        id == add_node(a, Node(op, a.r, NoNode))
    IN  IF op = "FNeg" /\ a.ok /\ Nd(a, a.r).op = "FNeg"
        THEN set_slot(a, 0, Nd(a, a.r).in[1])
        ELSE set_slot(id, 0, id.r)

\* Both slots are resolved; the results of the two calls are not looked at.
build_fxch(c, j) ==
    LET a == [resolve(c, 0) EXCEPT !.ok = TRUE]
        b == [resolve(a, j) EXCEPT !.ok = TRUE]
    IN  [b EXCEPT !.slot = [@ EXCEPT ![0] = b.slot[j], ![j] = b.slot[0]]]

\* FSTSW AX: the compare, the destination and top_delta, all in inputs[].
build_fstsw(c) ==
    LET id == add_node(c, [Node("FStsw", c.fcmp, 0) EXCEPT !.in[3] = c.td])
    IN  mem_cse_evict_reg(id, "ax")

build_cw(c, in) ==
    LET id == add_node(c, [Node(IF in.op = "fldcw" THEN "StoreCW" ELSE "LoadCW",
                                NoNode, NoNode) EXCEPT !.m = in.m])
    IN  IF in.op = "fldcw" THEN id ELSE mem_cse_evict_may_alias(id, in.m)

(***************************************************************************)
(* Guest integer moves inside a run (transparent_int).                     *)
(***************************************************************************)
GuestNode(op) ==
    CASE op = "mov_rr" -> "GuestMovRR" [] op = "mov_ri" -> "GuestMovRI"
      [] op = "lea" -> "GuestLea" [] op = "ext" -> "GuestExt"
      [] op = "mov_rm" -> "GuestLoad" [] op = "mov_mr" -> "GuestStoreR"
      [] op = "mov_mi" -> "GuestStoreI"
build_guest_int(c, in) ==
    LET id == add_node(c, [Node(GuestNode(in.op), NoNode, NoNode)
                             EXCEPT !.m = in.m, !.k = in.k, !.v = in.v])
    IN  IF "transparent_int" \notin Config THEN Fail(c)
        ELSE IF in.op \in {"mov_mr", "mov_mi"}
        THEN IF in.m.seg # 0 THEN Fail(c) ELSE mem_cse_evict_may_alias(id, in.m)
        ELSE IF in.op \in {"lea", "mov_rm"} /\ in.m.seg # 0 THEN Fail(c)
        ELSE IF ~id.ok THEN id
        ELSE mem_cse_evict_reg([id EXCEPT !.written = @ \cup {in.k}], in.k)

(***************************************************************************)
(* One turn of the loop of X87IR::build, and the permutation carried into  *)
(* the run by deferred FXCHs.                                              *)
(***************************************************************************)
build_store(c, in) ==
    LET a == resolve(c, 0)
        s == IF ~a.ok THEN a
             ELSE IF in.m.w = 0 THEN (IF in.i # 0 THEN set_slot(a, in.i, a.r) ELSE a)
             ELSE IF in.op \in {"fst", "fstp"} THEN build_fp_store(a, in.m, a.r)
             ELSE build_int_store(a, in.m, a.r, in.op = "fisttp")
    IN  IF in.op \in {"fstp", "fistp", "fisttp"} THEN pop(s) ELSE s
build_load(c, g, in) ==
    LET v == CASE in.op = "fldc" -> const_node_for_bits(c, in.v)
               [] in.op = "fild" -> build_int_load(c, in.m)
               [] in.op = "fld" -> IF in.m.w = 0 THEN resolve(c, in.j)
                                   ELSE build_fp_load(c, g, in.m)
    IN  push(v, v.r)

build_instr(c, g, in) ==
    CASE in.op \in {"fldc", "fld", "fild"} -> build_load(c, g, in)
      [] in.op \in {"fst", "fstp", "fist", "fistp", "fisttp"} -> build_store(c, in)
      [] in.op = "farith" -> build_arith(c, g, in)
      [] in.op = "fiarith" -> build_iarith(c, in)
      [] in.op = "farithp" -> build_arithp(c, in)
      [] in.op = "fchs" -> Unary(c, "FNeg")
      [] in.op = "fabs" -> Unary(c, "FAbs")
      [] in.op = "fsqrt" -> Unary(c, "FSqrt")
      [] in.op = "frndint" -> Unary(c, "FRndInt")
      [] in.op = "fxch" -> build_fxch(c, in.j)
      [] in.op \in {"fcom", "fcomp", "fcompp"} -> build_fcom(c, g, in)
      [] in.op \in {"ficom", "ficomp"} -> build_ficom(c, in)
      [] in.op \in {"fcomi", "fcomip"} -> build_fcomi(c, in)
      [] in.op = "fcmov" -> build_fcmov(c, in)
      [] in.op = "ftst" -> LET a == resolve(c, 0)
                           IN  Compare(a, "FTst", a.r, NoNode)
      [] in.op = "fstsw" -> build_fstsw(c)
      [] in.op \in {"fldcw", "fnstcw"} -> build_cw(c, in)
      [] in.op \in GuestOps -> build_guest_int(c, in)
      [] in.op = "fnop" -> c
      [] OTHER -> Fail(c)

fold_slot(s, d) ==
    IF s.perm[d] # d THEN [s EXCEPT !.c = resolve(s.c, d)] ELSE s
PermScan == INSTANCE Loop WITH Step <- fold_slot
fold_perm(c, perm) ==
    PermScan!Over([c |-> [c EXCEPT !.slot = [d \in Depth |-> -(perm[d] + 1)]], perm |-> perm],
                  [i \in 1..N |-> i - 1]).c
=============================================================================
