--------------------------- MODULE X87IROptimize ---------------------------
(***************************************************************************)
(* The passes of X87IR::optimize, each from a context to a context.  A     *)
(* pass walks the nodes with a table of use counts that it keeps up to     *)
(* date as it rewrites: s.c is the context, s.u the counts.  The counts    *)
(* and the rewrites take every non-negative inputs[] entry for a node id.  *)
(*                                                                         *)
(* Zero has one bit pattern here, so the fold of FAdd(x, -0.0) never       *)
(* fires; f32 arithmetic is f64 arithmetic followed by Nar.                *)
(***************************************************************************)
EXTENDS X87IRBuild
LOCAL INSTANCE SequencesExt

CONSTANT Pow2(_)    \* the constants whose reciprocal is exact

\* The ids from the first to the last, and from the last to the first.
IdSeq(c) == [x \in 1..Len(c.nodes) |-> x - 1]
IdSeqDown(c) == [x \in 1..Len(c.nodes) |-> Len(c.nodes) - x]

Live(c, id) == id \in Ids(c) /\ ~Nd(c, id).dead
UseCount(c) ==
    [id \in Ids(c) |->
        Cardinality({d \in Depth : c.slot[d] = id}) +
        Cardinality({p \in Ids(c) \X (1..3) :
                        ~Nd(c, p[1]).dead /\ Nd(c, p[1]).in[p[2]] = id})]
Counted(c) == [c |-> c, u |-> UseCount(c)]
Bump(u, id, n) == IF id \in DOMAIN u THEN [u EXCEPT ![id] = @ + n] ELSE u
Kill(c, id) == [c EXCEPT !.nodes[id + 1].dead = TRUE]
KillAll(c, S) ==
    [c EXCEPT !.nodes = [x \in DOMAIN c.nodes |->
        [c.nodes[x] EXCEPT !.dead = @ \/ (x - 1) \in S]]]
Rewrite(c, id, op, in) ==
    [c EXCEPT !.nodes[id + 1].op = op, !.nodes[id + 1].in = in]

IsCompare(n) == n.op \in {"FCmp", "FTst"}
SideEffects == {"StoreF64", "StoreF32Raw", "StoreI32", "StoreI64", "FCmp", "FTst",
                "FStsw", "FComI", "StoreCW", "LoadCW"} \cup
               {GuestNode(op) : op \in GuestOps}

\* A compare whose result is replaced before any FSTSW reads it.
pass_dead_compares(c) ==
    LET live == {i \in Ids(c) : Live(c, i)}
    IN  KillAll(c, {i \in live :
            /\ IsCompare(Nd(c, i))
            /\ \E j \in live :
                 /\ j > i /\ IsCompare(Nd(c, j))
                 /\ \A l \in live : i < l /\ l < j => Nd(c, l).op # "FStsw"})

(***************************************************************************)
(* Constant arithmetic: x*1, 1*x, x/1, x-0 become x; division by a power   *)
(* of two becomes a multiplication; comparing with 0 becomes FTST.         *)
(***************************************************************************)
const_is(c, id, v) ==
    /\ Live(c, id)
    /\ \/ v = One /\ Nd(c, id).op = "ConstOne"
       \/ v = Zero /\ Nd(c, id).op = "ConstZero"
       \/ Nd(c, id).op = "ConstF64" /\ Nd(c, id).v = v

\* Every use of i, in inputs and slots, becomes a use of keep.
Replace(c, i, keep) ==
    [c EXCEPT
        !.nodes = [x \in DOMAIN c.nodes |->
            IF c.nodes[x].dead THEN c.nodes[x]
            ELSE [c.nodes[x] EXCEPT !.in =
                    [j \in 1..3 |-> IF @[j] = i THEN keep ELSE @[j]]]],
        !.slot = [d \in Depth |-> IF @[d] = i THEN keep ELSE @[d]]]
DropUse(s, id) ==
    LET u == Bump(s.u, id, -1)
    IN  [c |-> IF u[id] = 0 THEN Kill(s.c, id) ELSE s.c, u |-> u]
MUT_fold_to(s, i, keep, const) ==
    DropUse([c |-> Kill([Replace(s.c, i, keep) EXCEPT !.slot = s.c.slot], i),
             u |-> [Bump(s.u, keep, s.u[i] - 1) EXCEPT ![i] = 0]], const)
fold_to(s, i, keep, const) ==
    DropUse([c |-> Kill(Replace(s.c, i, keep), i),
             u |-> [Bump(s.u, keep, s.u[i] - 1) EXCEPT ![i] = 0]], const)

const_arith(s, i) ==
    LET n == Nd(s.c, i)
        a == n.in[1]
        b == n.in[2]
        div == LET v == Nd(s.c, b).v IN
               [s EXCEPT !.c = [Rewrite(s.c, i, "FMul", n.in)
                                  EXCEPT !.nodes[b + 1].v = F("div", One, v)]]
    IN  IF n.dead THEN s ELSE
        CASE n.op \in {"FMul", "FDiv"} /\ const_is(s.c, b, One) -> fold_to(s, i, a, b)
          [] n.op = "FMul" /\ const_is(s.c, a, One) /\ ~const_is(s.c, b, One)
                -> fold_to(s, i, b, a)
          [] n.op = "FSub" /\ const_is(s.c, b, Zero) -> fold_to(s, i, a, b)
          [] n.op = "FDiv" /\ Live(s.c, b) /\ ~const_is(s.c, b, One) ->
                IF /\ Nd(s.c, b).op = "ConstF64" /\ s.u[b] = 1
                   /\ \/ Pow2(Nd(s.c, b).v)
                      \/ "fast_recip_div" \in Config /\ Nd(s.c, b).v # Zero
                THEN div ELSE s
          [] n.op = "FCmp" /\ const_is(s.c, b, Zero) ->
                DropUse([s EXCEPT !.c = Rewrite(s.c, i, "FTst", <<a, NoNode, n.in[3]>>)], b)
          [] OTHER -> s
ConstArith == INSTANCE Loop WITH Step <- const_arith
pass_const_arith(c) == ConstArith!Over(Counted(c), IdSeq(c)).c

MUT_dse(s, i) ==
    LET n == Nd(s.c, i)
        dec(u, j) == Bump(u, n.in[j], -1)
    IN  IF n.dead \/ n.op \in SideEffects \ {"StoreCW", "LoadCW"} \/ s.u[i] # 0 THEN s
        ELSE [c |-> Kill(s.c, i), u |-> dec(dec(dec(s.u, 1), 2), 3)]
\* A value node without uses is dead, and no longer uses its inputs.
dse(s, i) ==
    LET n == Nd(s.c, i)
        dec(u, j) == Bump(u, n.in[j], -1)
    IN  IF n.dead \/ n.op \in SideEffects \/ s.u[i] # 0 THEN s
        ELSE [c |-> Kill(s.c, i), u |-> dec(dec(dec(s.u, 1), 2), 3)]
Dse == INSTANCE Loop WITH Step <- dse
pass_dse(c) == Dse!Over(Counted(c), IdSeqDown(c) \o IdSeqDown(c)).c

(***************************************************************************)
(* Negations into their consumer, and multiply-add.                        *)
(***************************************************************************)
SingleUse(s, id, op) == Live(s.c, id) /\ Nd(s.c, id).op = op /\ s.u[id] = 1
\* Node i takes over the inputs of its only-used input x, which dies.
Absorb(s, i, x, op, in) ==
    [c |-> Kill(Rewrite(s.c, i, op, in), x),
     u |-> Bump(Bump([s.u EXCEPT ![x] = 0], Nd(s.c, x).in[1], 1), Nd(s.c, x).in[2], 1)]

fneg_fold(s, i) ==
    LET n == Nd(s.c, i)
        a == n.in[1]
        b == n.in[2]
    IN  IF n.dead THEN s ELSE
        CASE n.op \in {"FAdd", "FSub"} /\ SingleUse(s, b, "FNeg") ->
                Absorb(s, i, b, IF n.op = "FAdd" THEN "FSub" ELSE "FAdd",
                       <<a, Nd(s.c, b).in[1], n.in[3]>>)
          [] n.op = "FAdd" /\ ~SingleUse(s, b, "FNeg") /\ SingleUse(s, a, "FNeg") ->
                Absorb(s, i, a, "FSub", <<b, Nd(s.c, a).in[1], n.in[3]>>)
          [] n.op = "FNeg" /\ SingleUse(s, a, "FMul") ->
                Absorb(s, i, a, "FNMul", <<Nd(s.c, a).in[1], Nd(s.c, a).in[2], n.in[3]>>)
          [] OTHER -> s
FnegFold == INSTANCE Loop WITH Step <- fneg_fold
pass_fneg_fold(c) == FnegFold!Over(Counted(c), IdSeq(c)).c

MUT_FmaOp(op, mulFirst) ==
    IF op = "FAdd" THEN "FMAdd" ELSE IF mulFirst THEN "FMSub" ELSE "FNMSub"
FmaOp(op, mulFirst) ==
    IF op = "FAdd" THEN "FMAdd" ELSE IF mulFirst THEN "FNMSub" ELSE "FMSub"
Fuse(s, i, muls) ==
    LET n == Nd(s.c, i)
        fuse(x, other, first) ==
            Absorb(s, i, x, FmaOp(n.op, first),
                   <<Nd(s.c, x).in[1], Nd(s.c, x).in[2], other>>)
    IN  IF n.dead \/ n.op \notin {"FAdd", "FSub"} THEN s
        ELSE IF n.in[1] \in muls THEN fuse(n.in[1], n.in[2], TRUE)
        ELSE IF n.in[2] \in muls THEN fuse(n.in[2], n.in[1], FALSE)
        ELSE s
fma(s, i) == Fuse(s, i, {x \in Ids(s.c) : SingleUse(s, x, "FMul")})
Fma == INSTANCE Loop WITH Step <- fma
pass_fma(c) == Fma!Over(Counted(c), IdSeq(c)).c

(***************************************************************************)
(* f32: an f64 operation on widened values that is only narrowed again     *)
(* runs in f32; with f32_arith, whole chains of them do.                   *)
(***************************************************************************)
Arity(op) ==
    CASE op \in {"FAdd", "FSub", "FMul", "FDiv", "FNMul"} -> 2
      [] op \in {"FNeg", "FAbs", "FSqrt"} -> 1
      [] OTHER -> 0
f32_narrowable_op(op) == Arity(op) > 0

f32_narrow(s, i) ==
    LET n == Nd(s.c, i)
        x == n.in[1]
        xn == Nd(s.c, x)
        ar == Arity(xn.op)
        wide(j) == Live(s.c, xn.in[j]) /\ Nd(s.c, xn.in[j]).op = "CvtF32ToF64"
        raw(j) == IF j <= ar THEN Nd(s.c, xn.in[j]).in[1] ELSE NoNode
        flip == [c |-> Kill([Rewrite(s.c, i, xn.op, <<raw(1), raw(2), n.in[3]>>)
                                EXCEPT !.nodes[i + 1].f32 = TRUE], x),
                 u |-> [s.u EXCEPT ![x] = 0]]
        unwrap(t, j) == LET d == DropUse(t, xn.in[j]) IN [d EXCEPT !.u = Bump(@, raw(j), 1)]
    IN  IF /\ ~n.dead /\ n.op = "CvtF64ToF32"
           /\ Live(s.c, x) /\ ~xn.f32 /\ ar > 0 /\ s.u[x] = 1
           /\ \A j \in 1..ar : wide(j)
        THEN IF ar = 1 THEN unwrap(flip, 1) ELSE unwrap(unwrap(flip, 1), 2)
        ELSE s
F32Narrow == INSTANCE Loop WITH Step <- f32_narrow
pass_f32_narrow(c) == F32Narrow!Over(Counted(c), IdSeq(c)).c

\* The largest set of arithmetic nodes whose inputs are f32, ConstZero or in
\* the set, and which only narrowings and members of the set consume.
F32Input(c, id, E) ==
    /\ Live(c, id)
    /\ id \in E \/ Nd(c, id).op \in {"CvtF32ToF64", "ConstZero"} \/ Nd(c, id).f32
Ineligible(c, E) ==
    {i \in E : \/ \E j \in 1..Arity(Nd(c, i).op) : ~F32Input(c, Nd(c, i).in[j], E)
              \/ \E l \in Ids(c) : /\ Live(c, l) /\ l \notin E
                                   /\ Nd(c, l).op # "CvtF64ToF32"
                                   /\ \E j \in 1..3 : Nd(c, l).in[j] = i}
\* Every round but the last ones drops a node: one per node is enough.
f32_round(s, i) == [s EXCEPT !.set = @ \ Ineligible(s.c, @)]
F32Rounds == INSTANCE Loop WITH Step <- f32_round
Eligible(c, E) == F32Rounds!Over([c |-> c, set |-> E], IdSeq(c)).set

\* A narrowing of what is f32 already gives way to its input.
bypass(s, i) ==
    IF i \in s.copies
    THEN [s EXCEPT !.c = Kill([Replace(s.c, i, Nd(s.c, i).in[1]) EXCEPT !.slot = s.c.slot], i)]
    ELSE s
Bypass == INSTANCE Loop WITH Step <- bypass
pass_f32_chain(c) ==
    LET E == Eligible(c, {i \in Ids(c) : /\ Live(c, i) /\ ~Nd(c, i).f32
                                         /\ f32_narrowable_op(Nd(c, i).op)
                                         /\ \A d \in Depth : c.slot[d] # i})
        source(i, j) ==
            LET x == Nd(c, i).in[j]
            IN  IF j <= Arity(Nd(c, i).op) /\ Nd(c, x).op = "CvtF32ToF64"
                THEN Nd(c, x).in[1] ELSE x
        flipped == [c EXCEPT !.nodes = [x \in DOMAIN c.nodes |->
            IF x - 1 \in E
            THEN [c.nodes[x] EXCEPT !.f32 = TRUE,
                                    !.in = [j \in 1..3 |-> source(x - 1, j)]]
            ELSE c.nodes[x]]]
        copies == {i \in Ids(c) : Live(c, i) /\ Nd(c, i).op = "CvtF64ToF32"
                                  /\ Nd(c, i).in[1] \in E}
    IN  Bypass!Over([c |-> flipped, copies |-> copies], IdSeq(c)).c

f32_fma(s, i) ==
    IF ~Nd(s.c, i).f32 THEN s
    ELSE Fuse(s, i, {x \in Ids(s.c) : SingleUse(s, x, "FMul") /\ Nd(s.c, x).f32})
F32Fma == INSTANCE Loop WITH Step <- f32_fma
pass_f32_fma(c) == F32Fma!Over(Counted(c), IdSeq(c)).c

\* An FSTSW whose compare is the last one before it takes the condition
\* codes from the register the compare left them in.
Clean(c, i, f) == \A l \in (f + 1)..(i - 1) : Live(c, l) => ~IsCompare(Nd(c, l))
FusedPairs(c) ==
    {<<i, Nd(c, i).in[1]>> :
        i \in {l \in Ids(c) : /\ Live(c, l) /\ Nd(c, l).op = "FStsw"
                              /\ Nd(c, l).in[1] \in Ids(c)
                              /\ IsCompare(Nd(c, Nd(c, l).in[1]))
                              /\ Clean(c, l, Nd(c, l).in[1])}}
pass_fcom_fstsw_fusion(c) ==
    LET S == UNION {{p[1], p[2]} : p \in FusedPairs(c)}
    IN  [c EXCEPT !.nodes = [x \in DOMAIN c.nodes |->
            [c.nodes[x] EXCEPT !.fused = @ \/ (x - 1) \in S]]]

\* The passes in the order X87IR::optimize runs them.
Passes ==
    LET f32 == "f32_narrow" \in Config
    IN  <<"dead_compares", "const_arith", "dse", "fneg_fold">> \o
        (IF f32 /\ "f32_arith" \in Config
         THEN <<"f32_narrow", "f32_chain", "f32_fma", "fma", "dse">>
         ELSE <<"fma">> \o IF f32 THEN <<"f32_narrow", "dse">> ELSE << >>) \o
        <<"fcom_fstsw_fusion">>
optimize(c, pass) ==
    CASE pass = "dead_compares" -> pass_dead_compares(c)
      [] pass = "const_arith" -> pass_const_arith(c)
      [] pass = "dse" -> pass_dse(c)
      [] pass = "fneg_fold" -> pass_fneg_fold(c)
      [] pass = "fma" -> pass_fma(c)
      [] pass = "f32_narrow" -> pass_f32_narrow(c)
      [] pass = "f32_chain" -> pass_f32_chain(c)
      [] pass = "f32_fma" -> pass_f32_fma(c)
      [] pass = "fcom_fstsw_fusion" -> pass_fcom_fstsw_fusion(c)
=============================================================================
