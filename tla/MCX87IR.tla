------------------------------ MODULE MCX87IR ------------------------------
(***************************************************************************)
(* Instances of X87CompileRun for TLC.  Values are residues modulo 143 and *)
(* f32 values residues modulo 11, so that narrowing loses information and  *)
(* commutes with arithmetic; a different instruction sequence computes a   *)
(* different number unless it must be equal.                               *)
(***************************************************************************)
EXTENDS X87CompileRun, TLC

MCVal == 0..142
Inverse143 ==
    [y \in MCVal |-> CHOOSE z \in MCVal :
        /\ (z * y) % 11 = (IF y % 11 = 0 THEN 0 ELSE 1) /\ (y % 11 = 0 => z % 11 = 0)
        /\ (z * y) % 13 = (IF y % 13 = 0 THEN 0 ELSE 1) /\ (y % 13 = 0 => z % 13 = 0)]
MCF(op, x, y) ==
    CASE op = "add" -> (x + y) % 143 [] op = "sub" -> (x - y) % 143
      [] op = "mul" -> (x * y) % 143 [] op = "div" -> (x * Inverse143[y]) % 143
MCU(op, x) ==
    CASE op = "chs" -> (-x) % 143 [] op = "abs" -> (x * x) % 143
      [] op = "sqrt" -> (x * x * x + 2) % 143 [] OTHER -> (5 * x + 1) % 143
MCRound(c, x) == (3 * x + 1 + c) % 143
MCCmp(x, y) == IF x = y THEN 1 ELSE IF x < y THEN 0 ELSE 2
MCCond(c) == c = 1
MCNar(x) == x % 11
MCPow2(x) == x \in {2, 4}
MCReinterpret(k, w, s) ==
    LET sum == s[1][4] + (IF w = 2 THEN 7 * s[2][4] ELSE 0) + s[1][3] + 3 * s[1][2]
    IN  IF k = "cw" THEN sum % 2 ELSE IF k = "g" THEN sum % 12
        ELSE IF k = "f" /\ w = 1 THEN sum % 11 ELSE sum % 143

\* Guest memory: words 0..19 below registers and displacements, read-only
\* constants 1.0, 0.0, 2.0 and 5.0 from 20 on.
MCMem ==
    [x \in 0..27 |->
        CASE x \in {20, 21} -> <<"f", 2, x - 19, 1>> [] x \in {22, 23} -> <<"f", 2, x - 21, 0>>
          [] x \in {24, 25} -> <<"f", 2, x - 23, 2>> [] x \in {26, 27} -> <<"f", 2, x - 25, 5>>
          [] x \in 0..3 -> <<"f", 1, 1, x + 5>>
          [] x = 4 -> <<"cw", 1, 1, 1>>
          [] x \in 5..7 -> <<"i", 1, 1, 40 + x>>
          [] OTHER -> <<"f", 2, 1 + (x % 2), 50 + (x \div 2)>>]
MCReg == [ax |-> 8, bx |-> 8, cx |-> 0]
Stack(top, used) ==
    [top |-> top, tag |-> [s \in Slot |-> \E d \in 0..(used - 1) : Phys(top, d) = s],
     st |-> [s \in Slot |-> <<17, 38, 101, 60>>[s + 1]], cc |-> 2, cw |-> 0, nzcv |-> 1,
     out |-> NoOut]
Entry(top, used) ==
    [g |-> [fpu |-> Stack(top, used), mem |-> MCMem, reg |-> MCReg],
     perm |-> [d \in Depth |-> d], push |-> 0, pop |-> 0, dirty |-> FALSE, memtop |-> top,
     cached |-> FALSE]
Plain == Entry(0, 2)
Mid == Entry(1, 2)
\* In the middle of a cache run: a push and an FXCH deferred; a pop deferred.
AfterPush ==
    [Entry(2, 2) EXCEPT !.perm = (0 :> 1) @@ (1 :> 0) @@ @, !.push = 1, !.dirty = TRUE,
                        !.memtop = (2 + 1) % N, !.cached = TRUE]
AfterPop == [Entry(1, 2) EXCEPT !.pop = 1, !.dirty = TRUE, !.memtop = 0, !.cached = TRUE]
AllEntries == {Plain, AfterPush, AfterPop}
TwoEntries == {Plain, AfterPush}

I(op, k, i, j, v, m) == [op |-> op, k |-> k, i |-> i, j |-> j, v |-> v, m |-> m]
X(op) == I(op, "none", 0, 0, 0, NoMem)
R(op, k, i, j) == I(op, k, i, j, 0, NoMem)
M(op, k, m) == I(op, k, 0, 0, 0, m)
At(base, disp, w) == [base |-> base, disp |-> disp, w |-> w, seg |-> 0]
Seg(base, disp, w, seg) == [base |-> base, disp |-> disp, w |-> w, seg |-> seg]

ArithInstrs ==
    {R("farithp", "add", 1, 0), R("farithp", "subr", 1, 0), R("farith", "mul", 0, 1),
     R("farith", "sub", 0, 1), M("farith", "div", At("abs", 24, 2)),
     I("fchs", "chs", 0, 0, 0, NoMem), R("fld", "none", 0, 0), R("fxch", "none", 0, 1),
     M("farith", "mul", At("abs", 20, 2)), R("fst", "none", 1, 0)}
F32Instrs ==
    {M("fld", "none", At("cx", 0, 1)), M("farith", "mul", At("cx", 1, 1)),
     M("farith", "sub", At("cx", 0, 1)), R("farithp", "add", 1, 0),
     M("fstp", "none", At("cx", 0, 1)), M("fst", "none", At("cx", 2, 1)),
     I("fchs", "chs", 0, 0, 0, NoMem), I("fldc", "none", 0, 0, 0, NoMem),
     I("fsqrt", "sqrt", 0, 0, 0, NoMem)}
MemInstrs ==
    {M("fld", "none", At("bx", 0, 2)), M("fld", "none", At("bx", 2, 2)),
     M("fstp", "none", At("bx", 0, 2)), M("fst", "none", At("bx", 2, 2)),
     M("fstp", "none", At("bx", 1, 1)), M("fld", "none", At("bx", 1, 1)),
     M("farith", "add", At("ax", 0, 2)), M("fild", "none", At("bx", 3, 1)),
     M("fistp", "none", At("bx", 3, 1)), R("farith", "sub", 0, 1)}
CompareInstrs ==
    {R("fcom", "none", 0, 1), M("fcomp", "none", At("abs", 22, 2)), X("fcompp"), X("ftst"),
     X("fstsw"), R("fcomi", "none", 0, 1), R("fcmov", "none", 0, 1),
     M("ficom", "none", At("ax", 1, 1)), M("fld", "none", At("ax", 0, 2)),
     R("fld", "none", 0, 1)}
ControlInstrs ==
    {M("fldcw", "none", At("cx", 4, 1)), M("fnstcw", "none", At("cx", 5, 1)), X("frndint"),
     M("fistp", "none", At("cx", 5, 1)), M("fist", "none", At("cx", 6, 1)),
     M("fisttp", "none", At("cx", 6, 2)), M("fild", "none", At("cx", 5, 1)),
     R("fld", "none", 0, 1), X("fnop")}
GuestInstrs ==
    {I("mov_ri", "bx", 0, 0, 6, NoMem), I("mov_rr", "bx", 0, 0, 0, At("ax", 0, 1)),
     I("lea", "cx", 0, 0, 0, At("bx", 2, 1)), I("ext", "ax", 0, 0, 4, At("ax", 0, 1)),
     I("mov_rm", "bx", 0, 0, 0, At("bx", 3, 1)), I("mov_mr", "bx", 0, 0, 0, At("bx", 0, 1)),
     I("mov_mi", "none", 0, 0, 9, At("bx", 3, 1)),
     M("fld", "none", At("bx", 0, 2)), M("fld", "none", At("bx", 2, 2)),
     M("fstp", "none", At("bx", 2, 2))}
ShortAfter == {<<"neutral">>}
AfterClasses == {<<"neutral", "def">>, <<"shift_zero", "reader", "def">>, <<"shift_cl">>}

Suite(es, ins, n, single, following) ==
    [entries |-> es, instrs |-> ins, len |-> n, once |-> single, after |-> following]
ValueSuites ==
    [arith   |-> Suite(TwoEntries, ArithInstrs, 4, {}, ShortAfter),
     f32     |-> Suite({AfterPush}, F32Instrs, 4, {}, ShortAfter),
     compare |-> Suite(AllEntries, CompareInstrs, 3, {"fstsw"}, AfterClasses),
     control |-> Suite(AllEntries, ControlInstrs, 4, {}, ShortAfter)]
MemorySuites ==
    [memory |-> Suite(TwoEntries, MemInstrs, 4, {}, ShortAfter),
     guest  |-> Suite(AllEntries, GuestInstrs, 4, {}, ShortAfter)]
\* Two FSTSW after one compare.
TwiceSuites ==
    [twice |-> Suite(AllEntries, {R("fcom", "none", 0, 1), X("fstsw"), X("fnop")}, 3, {}, ShortAfter)]
=============================================================================
