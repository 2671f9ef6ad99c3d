----------------------------- MODULE X87IRLower -----------------------------
(***************************************************************************)
(* X87IR::lower: what the nodes of a context mean, the plans made for      *)
(* them, the register pressure estimated before and the registers used     *)
(* while they are emitted.                                                 *)
(*                                                                         *)
(* Lowering allocates host registers for the nodes one after the other.    *)
(* Host floating-point registers are modelled one by one, general ones by  *)
(* their number.  Displacements are small enough to fold into any access.  *)
(***************************************************************************)
EXTENDS X87IROptimize
LOCAL INSTANCE SequencesExt
LOCAL INSTANCE FiniteSetsExt

CONSTANTS
    FprPool,        \* number of scratch floating-point registers
    GprPool,        \* number of scratch general registers
    PairMaxSkip,    \* kPairMaxSkip
    AddrSlots       \* kAddrCacheSlots
ASSUME FprPoolAssumption == FprPool \in Nat
\* Xbase, Wd_top and Xst_base of the cache take three of them.
ASSUME GprPoolAssumption == GprPool \in Nat /\ GprPool >= 3
ASSUME AddrSlotsAssumption == AddrSlots \in Nat

(***************************************************************************)
(* Entry.  e.g is the guest as it should look; e.perm the deferred FXCHs,  *)
(* e.push and e.pop the deferred tag updates, e.memtop the TOP in memory   *)
(* (stale when e.dirty), e.cached whether the cache holds base and TOP.    *)
(***************************************************************************)
Below(top, k) == Phys(top, N - k)
\* The machine the emitted code starts on: TOP is in its register.
Image(x) ==
    LET a == x.g.fpu
        under(s) == CHOOSE d \in Depth : Phys(a.top, x.perm[d]) = s
    IN  [x.g EXCEPT
           !.fpu.st = [s \in Slot |-> ST(a, under(s))],
           !.fpu.tag = [s \in Slot |->
                /\ \A k \in 0..(x.push - 1) : s # Phys(a.top, k)
                /\ a.tag[s] \/ \E k \in 1..x.pop : s = Below(a.top, k)]]

(***************************************************************************)
(* What a node computes and does, given its inputs' values and the control *)
(* word in force for rounding.                                             *)
(***************************************************************************)
Pure == {"ReadSt", "ConstZero", "ConstOne", "ConstF64", "CvtF32ToF64", "CvtF64ToF32",
         "FAdd", "FSub", "FMul", "FDiv", "FNMul", "FMAdd", "FMSub", "FNMSub",
         "FNeg", "FAbs", "FSqrt", "FCSel"}
FpLoads == {"LoadF64", "LoadF32Raw"}
FpStores == {"StoreF64", "StoreF32Raw"}
IntLoads == {"LoadI32", "LoadI64"}
IntStores == {"StoreI32", "StoreI64"}
Producers == Pure \cup FpLoads \cup IntLoads \cup {"FRndInt"}
Reusers == (Pure \ {"ReadSt", "ConstZero", "ConstOne", "ConstF64"}) \cup {"FRndInt"}
GuestMem == {"GuestLoad", "GuestStoreR", "GuestStoreI"}
Accesses == FpLoads \cup FpStores \cup IntLoads \cup IntStores \cup
            {"StoreCW", "LoadCW"} \cup GuestMem

Single(n, v) == IF n.f32 THEN Nar(v) ELSE v
NodeValue(g, n, v, rc) ==
    CASE n.op = "ReadSt"      -> ST(g.fpu, n.d)
      [] n.op \in FpLoads     -> FpAt(g, n.m)
      [] n.op \in IntLoads    -> IntAt(g, n.m)
      [] n.op = "ConstZero"   -> Zero
      [] n.op = "ConstOne"    -> One
      [] n.op = "ConstF64"    -> n.v
      [] n.op = "CvtF32ToF64" -> v[1]
      [] n.op = "CvtF64ToF32" -> Nar(v[1])
      [] n.op = "FAdd"        -> Single(n, F("add", v[1], v[2]))
      [] n.op = "FSub"        -> Single(n, F("sub", v[1], v[2]))
      [] n.op = "FMul"        -> Single(n, F("mul", v[1], v[2]))
      [] n.op = "FDiv"        -> Single(n, F("div", v[1], v[2]))
      [] n.op = "FNMul"       -> Single(n, U("chs", F("mul", v[1], v[2])))
      [] n.op = "FMAdd"       -> Single(n, F("add", v[3], F("mul", v[1], v[2])))
      [] n.op = "FMSub"       -> Single(n, F("sub", v[3], F("mul", v[1], v[2])))
      [] n.op = "FNMSub"      -> Single(n, F("sub", F("mul", v[1], v[2]), v[3]))
      [] n.op = "FNeg"        -> Single(n, U("chs", v[1]))
      [] n.op = "FAbs"        -> Single(n, U("abs", v[1]))
      [] n.op = "FSqrt"       -> Single(n, U("sqrt", v[1]))
      [] n.op = "FRndInt"     -> Round(rc, v[1])
      [] n.op = "FCSel"       -> IF Cond(g.fpu.nzcv) THEN v[2] ELSE v[1]

GuestOp(n) == CHOOSE op \in GuestOps : GuestNode(op) = n.op
CmpValue(n, v) == Cmp(v[1], IF n.op = "FTst" THEN Zero ELSE v[2])
\* FSTSW patches TOP into the word it read when TOP moved or is stale there.
StswTop(x, top, td) ==
    IF td # 0 THEN (top + td) % N ELSE IF x.dirty THEN top ELSE x.memtop
NodeEffect(x, g, n, v, rc) ==
    CASE n.op \in FpStores  -> Put(g, "f", n.m, v[1])
      [] n.op \in IntStores -> Put(g, "i", n.m, IF n.trunc THEN U("trunc", v[1])
                                                 ELSE Round(rc, v[1]))
      [] n.op = "FComI"     -> [g EXCEPT !.fpu.nzcv = CmpValue(n, v)]
      [] IsCompare(n)       -> [g EXCEPT !.fpu.cc = CmpValue(n, v)]
      [] n.op = "StoreCW"   -> [g EXCEPT !.fpu.cw = CwAt(g, n.m)]
      [] n.op = "LoadCW"    -> Put(g, "cw", n.m, g.fpu.cw)
      [] n.op = "FStsw"     -> SetReg(g, "ax",
                                 StatusWord(StswTop(x, g.fpu.top, n.in[3]), g.fpu.cc))
      [] n.op \in {GuestNode(op) : op \in GuestOps} ->
            ExecGuest(g, [op |-> GuestOp(n), k |-> n.k, v |-> n.v, m |-> n.m])
      [] OTHER              -> g

(***************************************************************************)
(* The epilogue: TOP, the stack values that changed place or value, the    *)
(* tags of what was pushed and popped, deferred updates included.          *)
(***************************************************************************)
Writeback(c, d) ==
    /\ c.slot[d] >= 0
    /\ ~(Nd(c, c.slot[d]).op = "ReadSt" /\ Nd(c, c.slot[d]).d = d + c.td)
MaxZero(k) == IF k > 0 THEN k ELSE 0
set_valid(x, c) == MaxZero(x.push - c.td)
set_empty(x, c) == MaxZero(c.td + x.pop - x.push)
\* held: the values of the nodes that a register holds.
epilogue(x, c, g, top0, held) ==
    LET top == (top0 + c.td) % N
        stored == {d \in Depth : Writeback(c, d) /\ c.slot[d] \in DOMAIN held}
        at(s) == {d \in stored : (top + d) % N = s}
        valid == {(top + k) % N : k \in 0..(set_valid(x, c) - 1)}
        empty == {(top - k) % N : k \in 1..set_empty(x, c)}
    IN  [g EXCEPT
           !.fpu.top = IF c.td # 0 \/ x.dirty THEN top ELSE x.memtop,
           !.fpu.st = [s \in Slot |-> IF at(s) = {} THEN @[s]
                                      ELSE held[c.slot[CHOOSE d \in at(s) : TRUE]]],
           !.fpu.tag = [s \in Slot |-> s \in valid \/ (@[s] /\ s \notin empty)]]

\* The meaning of a context: its live nodes in order, then the epilogue.
Inputs(n, V(_)) == [j \in 1..3 |-> V(n.in[j])]
meaning_node(s, i) ==
    LET n == Nd(s.c, i)
        v == Inputs(n, LAMBDA id : IF id \in Ids(s.c) THEN s.val[id] ELSE Zero)
    IN  IF n.dead THEN s
        ELSE IF n.op \in Producers
        THEN [s EXCEPT !.val[i] = NodeValue(s.g, n, v, s.g.fpu.cw)]
        ELSE [s EXCEPT !.g = NodeEffect(s.x, s.g, n, v, s.g.fpu.cw)]
MeaningScan == INSTANCE Loop WITH Step <- meaning_node
Meaning(x, c) ==
    LET end == MeaningScan!Over(
                   [x |-> x, c |-> c, g |-> Image(x), val |-> [i \in Ids(c) |-> Zero]], IdSeq(c))
    IN  epilogue(x, c, end.g, end.g.fpu.top, end.val)

(***************************************************************************)
(* Plans: guest bases kept in a register for the whole run, accesses that  *)
(* pair up, the rounding mode kept in a register, flags saved once.        *)
(***************************************************************************)
LiveNodes(c) == {i \in Ids(c) : Live(c, i)}
HasOp(c, ops) == \E i \in LiveNodes(c) : Nd(c, i).op \in ops
IsAccess(n) == n.op \in Accesses
addr_operand_base_cacheable(m) == m.base \in GReg /\ m.seg = 0

MUT_plan_addr_cache(c) ==
    LET uses(r) == {i \in LiveNodes(c) : IsAccess(Nd(c, i)) /\ Nd(c, i).m.base = r}
    IN  SetToSeq({r \in GReg : Cardinality(uses(r)) >= 2})
\* Bases by how often they are used, at least twice; none with an FS/GS operand.
plan_addr_cache(c) ==
    LET counted == {i \in LiveNodes(c) :
                      /\ IsAccess(Nd(c, i))
                      /\ addr_operand_base_cacheable(Nd(c, i).m)
                      /\ ~(Nd(c, i).m.base = "ax" /\ HasOp(c, {"FStsw"}))
                      /\ Nd(c, i).m.base \notin c.written}
        uses(r) == {i \in counted : Nd(c, i).m.base = r}
        keys == {r \in GReg : Cardinality(uses(r)) >= 2}
        before(r, s) == \/ Cardinality(uses(r)) > Cardinality(uses(s))
                        \/ /\ Cardinality(uses(r)) = Cardinality(uses(s))
                           /\ Min(uses(r)) < Min(uses(s))
        ranked(k) == CHOOSE r \in keys : Cardinality({s \in keys : before(s, r)}) = k - 1
    IN  IF \E i \in LiveNodes(c) : IsAccess(Nd(c, i)) /\ Nd(c, i).m.seg # 0
        THEN << >>
        ELSE [k \in 1..Min({AddrSlots, Cardinality(keys)}) |-> ranked(k)]

pair_node_skippable(op, load) ==
    \/ op \in Pure \cup {"GuestMovRR", "GuestMovRI", "GuestLea", "GuestExt"}
    \/ load /\ op \in FpLoads \cup IntLoads \cup {"GuestLoad"}
pair_disp_ok(m) == m.disp % m.w = 0

\* p.with[i] is the partner emitted together with node i, p.skip the partners.
Between(c, i, j) == {l \in LiveNodes(c) : i < l /\ l < j}
Pairable(n, bases) ==
    addr_operand_base_cacheable(n.m) /\ n.m.base \in bases /\ pair_disp_ok(n.m)
Partners(p, i) ==
    LET c == p.c
        n == Nd(c, i)
    IN  {j \in LiveNodes(c) :
          /\ j > i /\ Nd(c, j).op = n.op
          /\ Nd(c, j).m.base = n.m.base /\ Pairable(Nd(c, j), p.bases)
          /\ Nd(c, j).m.disp \in {n.m.disp + n.m.w, n.m.disp - n.m.w}
          /\ j \notin p.skip /\ p.with[j] < 0
          /\ \A l \in Between(c, i, j) : pair_node_skippable(Nd(c, l).op, n.op \in FpLoads)
          /\ Cardinality(Between(c, i, j)) <= PairMaxSkip}
pair_lead(p, i) ==
    LET n == Nd(p.c, i)
        j == Min(Partners(p, i))
    IN  IF \/ n.dead \/ n.op \notin FpLoads \cup FpStores \/ ~Pairable(n, p.bases)
           \/ i \in p.skip \/ p.with[i] >= 0 \/ Partners(p, i) = {}
        THEN p
        ELSE IF n.op \in FpLoads THEN [p EXCEPT !.with[i] = j, !.skip = @ \cup {j}]
        ELSE [p EXCEPT !.with[j] = i, !.skip = @ \cup {i}]
PairScan == INSTANCE Loop WITH Step <- pair_lead
compute_pairs(c, bases) ==
    PairScan!Over([c |-> c, bases |-> bases, with |-> [i \in Ids(c) |-> NoNode], skip |-> {}],
                  IdSeq(c))

\* The last node, or the epilogue, that reads a node's register; a store that
\* its partner performs is read there.
LastUse(c, p) ==
    LET plain(id) == {NoNode} \cup {i \in LiveNodes(c) : \E j \in 1..3 : Nd(c, i).in[j] = id}
                     \cup {Len(c.nodes) : d \in {x \in Depth : c.slot[x] = id}}
        sunk(id) == {i \in LiveNodes(c) : /\ Nd(c, i).op \in FpStores /\ p.with[i] >= 0
                                          /\ Nd(c, p.with[i]).in[1] = id}
    IN  [id \in Ids(c) |-> Max(plain(id) \cup sunk(id))]

Rounds(n) == n.op = "FRndInt" \/ (n.op \in IntStores /\ ~n.trunc)
rc_cached(c) == Cardinality({i \in LiveNodes(c) : Rounds(Nd(c, i))}) >= 2
Compares(c) == {i \in LiveNodes(c) : IsCompare(Nd(c, i))}
NzcvUser(c) == HasOp(c, {"FComI", "FCSel"})
nzcv_skip(c, dead) == dead /\ ~NzcvUser(c) /\ Compares(c) # {}
nzcv_hoist(c, dead) ==
    ~nzcv_skip(c, dead) /\ ~NzcvUser(c) /\ Cardinality(Compares(c)) >= 2

\* The guest's flags are dead when an instruction that sets them all comes
\* before any that reads some; the end of the block counts as a reader.
nzcv_dead_after_run(s) ==
    \E i \in DOMAIN s : /\ s[i] \in {"def", "shift_imm"}
                        /\ \A j \in 1..(i - 1) : s[j] \in {"neutral", "shift_zero"}

\* TOP = 0 at entry gets a copy of the code with constant slots, if it pays.
top0_specialize(c) ==
    LET reads == {i \in LiveNodes(c) : Nd(c, i).op = "ReadSt" /\ Nd(c, i).d > 0}
        writes == {d \in Depth \ {0} : Writeback(c, d)}
    IN  2 * Cardinality(reads) + 2 * Cardinality(writes) + (IF c.td # 0 THEN 3 ELSE 0) >= 4

(***************************************************************************)
(* Register pressure, as estimated before lowering.                        *)
(***************************************************************************)
MUT_peak_live_fprs(c) ==
    Cardinality({d \in Depth : c.slot[d] >= 0})
\* s.hold are the nodes that hold a register; s.p and s.lu the pairs that all
\* bases would allow and the last uses.
HeldDying(s, i) == {j \in 1..3 : Nd(s.c, i).in[j] \in s.hold /\ s.lu[Nd(s.c, i).in[j]] = i}
Taken(s, S) ==
    LET held == s.hold \cup S IN [s EXCEPT !.hold = held, !.peak = Max({@, Cardinality(held)})]
fpr_output(s, i) ==
    IF Nd(s.c, i).op \notin Producers THEN s
    ELSE IF Nd(s.c, i).op \in Reusers /\ HeldDying(s, i) # {}
    THEN [s EXCEPT !.hold = (@ \ {Nd(s.c, i).in[Min(HeldDying(s, i))]}) \cup {i}]
    ELSE Taken(s, {i})
fpr_partner(s, i) ==
    IF Nd(s.c, i).op \in FpLoads /\ s.p.with[i] >= 0 THEN Taken(s, {s.p.with[i]}) ELSE s
fpr_node(s, i) ==
    LET t == IF i \in s.p.skip THEN s ELSE fpr_partner(fpr_output(s, i), i)
    IN  IF Nd(s.c, i).dead THEN s ELSE [t EXCEPT !.hold = {x \in @ : s.lu[x] # i}]
FprScan == INSTANCE Loop WITH Step <- fpr_node
FprStart(c, p) == [c |-> c, p |-> p, lu |-> LastUse(c, p), hold |-> {}, peak |-> 0]
peak_live_fprs(c) == FprScan!Over(FprStart(c, compute_pairs(c, GReg)), IdSeq(c)).peak

\* General registers a node takes while it is emitted; addr is the number
\* its address takes, rc whether the rounding mode is in a register.
Transient(n, addr, rc, saves) ==
    CASE n.op \in FpLoads \cup FpStores \cup {"LoadI64", "GuestLoad", "GuestStoreR"} -> addr
      [] n.op \in {"LoadI32", "StoreCW", "LoadCW", "GuestStoreI"} \cup IntStores -> 1 + addr
      [] n.op = "FRndInt" -> IF rc THEN 0 ELSE 1
      [] IsCompare(n) -> IF saves THEN 4 ELSE 3
      [] n.op = "FComI" -> 3
      [] n.op = "FStsw" -> 2
      [] n.op = "GuestLea" -> 1
      [] OTHER -> 0
Pinned(x, c) == (IF x.cached THEN 1 ELSE 4) + (IF rc_cached(c) THEN 1 ELSE 0)
\* Registers held across nodes: packed condition codes and the saved flags.
FusedIn(c, S) == {l \in S : Live(c, l) /\ Nd(c, l).fused}
HeldAt(c, i, hoist) ==
    Cardinality({l \in FusedIn(c, 0..(i - 1)) : IsCompare(Nd(c, l))})
    - Cardinality({l \in FusedIn(c, 0..i) : Nd(c, l).op = "FStsw"})
    + (IF hoist /\ Min(Compares(c)) <= i /\ i <= Max(Compares(c)) THEN 1 ELSE 0)
EntryDeferred(x) == x.dirty \/ x.push > 0 \/ x.pop > 0
MUT_peak_live_gprs(x, c, dead) ==
    Pinned(x, c) + Max({2} \cup {Transient(Nd(c, i), 1, rc_cached(c), FALSE) : i \in LiveNodes(c)})
peak_live_gprs(x, c, dead) ==
    LET hoist == nzcv_hoist(c, dead)
        saves == ~hoist /\ ~nzcv_skip(c, dead)
        node(i) == HeldAt(c, i, hoist) + Transient(Nd(c, i), 1, rc_cached(c), saves)
        tail == IF c.td # 0 \/ EntryDeferred(x)
                THEN {HeldAt(c, Len(c.nodes), FALSE) + 2} ELSE {}
    IN  Pinned(x, c) + Max({0} \cup {node(i) : i \in LiveNodes(c)} \cup tail)
GprAvailable(x) == IF x.cached THEN GprPool - 3 ELSE GprPool

(***************************************************************************)
(* Lowering: one node.                                                     *)
(***************************************************************************)
NoReg == -1
\* FPRState and the host state the emitted code works on.
StartLower(x, c, p) ==
    [g |-> Image(x), known |-> top0_specialize(c) /\ x.g.fpu.top = 0,
     fpr |-> [r \in 0..(FprPool - 1) |-> Zero], free |-> 0..(FprPool - 1),
     nf |-> [i \in Ids(c) |-> NoReg], packed |-> [i \in Ids(c) |-> NoReg],
     saved |-> NoReg, rc |-> NoReg, gprs |-> 0, starved |-> FALSE,
     base |-> [r \in ToSet(p.bases) |-> x.g.reg[r]]]
Top(x) == IF x.known THEN 0 ELSE x.g.fpu.top
Fpr(x, id) == IF id >= 0 /\ x.nf[id] >= 0 THEN x.fpr[x.nf[id]] ELSE Zero

\* The operand through a cached base, or as it is.
Cached(p, n) == IsAccess(n) /\ addr_operand_base_cacheable(n.m) /\ n.m.base \in ToSet(p.bases)
Addressed(x, p, n) ==
    IF Cached(p, n)
    THEN [n EXCEPT !.m.base = "abs", !.m.disp = @ + x.base[n.m.base]] ELSE n

alloc_free_fpr(x, id) ==
    IF x.free = {} THEN [x EXCEPT !.starved = TRUE]
    ELSE [x EXCEPT !.nf[id] = Min(x.free), !.free = @ \ {Min(x.free)}]
free_fpr(x, id) == [x EXCEPT !.free = @ \cup {x.nf[id]}, !.nf[id] = NoReg]
Dying(x, c, p, i) ==
    {j \in 1..3 : LET id == Nd(c, i).in[j]
                  IN  id \in Ids(c) /\ p.last[id] = i /\ x.nf[id] >= 0}
\* The output register: a dying input's if the operation may, else a new one.
OutputFpr(x, c, p, i) ==
    LET id == Nd(c, i).in[Min(Dying(x, c, p, i))]
    IN  IF Nd(c, i).op \in Reusers /\ Dying(x, c, p, i) # {}
        THEN [x EXCEPT !.nf[i] = x.nf[id], !.nf[id] = NoReg]
        ELSE alloc_free_fpr(x, i)
free_dead_inputs(x, c, p, i) ==
    LET dead(y) == Dying(y, c, p, i)
        step(y, j) == IF j \in dead(y) THEN free_fpr(y, Nd(c, i).in[j]) ELSE y
    IN  step(step(step(x, 1), 2), 3)
Hold(x, id, v) == IF x.nf[id] >= 0 THEN [x EXCEPT !.fpr[x.nf[id]] = v] ELSE x

\* The rounding mode: loaded once into its register and kept by FLDCW.
RcOf(x, p, n) == IF p.rc /\ Rounds(n) /\ x.rc # NoReg THEN x.rc ELSE x.g.fpu.cw
MUT_RcAfter(x, p, n, g) ==
    IF ~p.rc THEN NoReg
    ELSE IF Rounds(n) /\ x.rc = NoReg THEN x.g.fpu.cw ELSE x.rc
RcAfter(x, p, n, g) ==
    IF ~p.rc THEN NoReg
    ELSE IF n.op = "StoreCW" THEN g.fpu.cw
    ELSE IF Rounds(n) /\ x.rc = NoReg THEN x.g.fpu.cw ELSE x.rc

\* FCMP changes the host flags: saved around it, around all, or not at all.
Flags(x, p, i, cmp) ==
    LET saved == IF x.saved = NoReg THEN x.g.fpu.nzcv ELSE x.saved
    IN  CASE p.skip -> [x EXCEPT !.g.fpu.nzcv = cmp]
          [] p.hoist -> IF i = p.lastcmp
                        THEN [x EXCEPT !.g.fpu.nzcv = saved, !.saved = NoReg]
                        ELSE [x EXCEPT !.g.fpu.nzcv = cmp, !.saved = saved]
          [] OTHER -> x
EmitCompare(x, p, n, i, cmp) ==
    LET y == Flags(x, p, i, cmp)
    IN  IF n.fused THEN [y EXCEPT !.packed[i] = cmp]
        ELSE [y EXCEPT !.g.fpu.cc = cmp]
\* A fused FSTSW merges the codes its compare kept; a register given back
\* before reads as the zero register.
EmitFstsw(x, e0, n) ==
    LET id == n.in[1]
        cc == IF ~n.fused THEN x.g.fpu.cc
              ELSE IF x.packed[id] = NoReg THEN 0 ELSE x.packed[id]
        y == IF n.fused THEN [x EXCEPT !.g.fpu.cc = cc, !.packed[id] = NoReg] ELSE x
    IN  [y EXCEPT !.g = SetReg(@, "ax", StatusWord(StswTop(e0, Top(x), n.in[3]), cc))]

ReadStKnown(x, n) == IF x.known THEN x.g.fpu.st[n.d % N] ELSE ST(x.g.fpu, n.d)
\* General registers in use while node i is emitted.
AddrCost(p, n, paired) ==
    IF Cached(p, n) \/ paired THEN 0
    ELSE CASE n.m.seg = 0 -> 1 [] n.m.seg = 1 -> 2 [] n.m.seg = 2 -> 3
Demand(x, e0, c, p, i) ==
    Pinned(e0, c) + Len(p.bases)
    + Cardinality({l \in Ids(c) : x.packed[l] # NoReg /\
                                  ~(Nd(c, i).op = "FStsw" /\ Nd(c, i).fused /\ Nd(c, i).in[1] = l)})
    + (IF x.saved # NoReg \/ (p.hoist /\ IsCompare(Nd(c, i))) THEN 1 ELSE 0)
    + Transient(Nd(c, i), AddrCost(p, Nd(c, i), p.with[i] >= 0), p.rc, ~p.hoist /\ ~p.skip)

EmitNode(x, e0, c, p, i) ==
    LET n == Addressed(x, p, Nd(c, i))
        w == p.with[i]
        v == Inputs(n, LAMBDA id : Fpr(x, id))
        out == OutputFpr(x, c, p, i)
        pair == IF n.op \in FpLoads /\ w >= 0
                THEN Hold(alloc_free_fpr(out, w), w,
                          NodeValue(x.g, Addressed(x, p, Nd(c, w)), v, 0))
                ELSE out
        val == IF n.op = "ReadSt" THEN ReadStKnown(x, n)
               ELSE NodeValue(x.g, n, v, RcOf(x, p, n))
        twin == Addressed(x, p, Nd(c, w))
        sunk == Nd(c, w).in[1]
        stored == [x EXCEPT !.g = NodeEffect(e0, NodeEffect(e0, x.g, n, v, 0), twin,
                                             <<Fpr(x, sunk), Zero, Zero>>, 0)]
        g == NodeEffect(e0, x.g, n, v, RcOf(x, p, n))
    IN  CASE n.op \in Producers -> [Hold(pair, i, val) EXCEPT !.rc = RcAfter(x, p, n, x.g)]
          [] IsCompare(n) -> EmitCompare(x, p, n, i, CmpValue(n, v))
          [] n.op = "FStsw" -> EmitFstsw(x, e0, n)
          [] n.op \in FpStores /\ w >= 0 ->
                IF sunk # n.in[1] /\ p.last[sunk] = i /\ x.nf[sunk] >= 0
                THEN free_fpr(stored, sunk) ELSE stored
          [] OTHER -> [x EXCEPT !.g = g, !.rc = RcAfter(x, p, n, g)]

LowerOne(x, e0, c, p, i) ==
    IF Nd(c, i).dead THEN x
    ELSE IF i \in p.pairskip THEN free_dead_inputs(x, c, p, i)
    ELSE free_dead_inputs([EmitNode(x, e0, c, p, i) EXCEPT !.gprs = Demand(x, e0, c, p, i)],
                          c, p, i)
=============================================================================
