------------------------------ MODULE MCX87Run ------------------------------
(***************************************************************************)
(* Instances of X87Run: blocks put together from a few instructions.       *)
(***************************************************************************)
EXTENDS X87Run, TLC

In(op, o) == [op |-> op, o |-> o, live |-> {}, lock |-> FALSE]
R32(r) == RegOp(r, "w32")
AtBx == MemOp("bx", "none", FALSE, TRUE, FALSE)
AtBxCx == MemOp("bx", "cx", TRUE, TRUE, FALSE)
AtGs == MemOp("bx", "none", FALSE, TRUE, TRUE)

FldDx == In("fld", <<MemOp("dx", "none", FALSE, TRUE, FALSE)>>)
FldBx == In("fld", <<AtBx>>)
FstpBxCx == In("fstp", <<AtBxCx>>)
Fistp == In("fistp", <<AtBxCx>>)
Fadd == In("fadd", << >>)
Fldcw == In("fldcw", <<AtBx>>)
Fstsw == In("fstsw", << >>)
Fsin == In("fsin", << >>)
MovBx == In("mov", <<R32("bx"), R32("dx")>>)
MovCx == In("mov", <<R32("cx"), AtBxCx>>)
Cmovp == In("cmovcc", <<[Plain("cc") EXCEPT !.hard = TRUE], R32("dx"), AtBx>>)
Setcc == In("setcc", <<Plain("cc"), RegOp("bx", "lo8")>>)
Cdq == In("cdq", << >>)
Push == In("push", <<Plain("lit")>>)
MovGs == In("mov", <<R32("dx"), AtGs>>)
Incr == In("inc", <<Plain("rip")>>)

Lines(S, n) == [1..n -> S]
RunBlocks ==
    {Lines({FldBx, Fistp, Fldcw, MovBx, Cmovp, MovGs}, n) : n \in 1..5}
        \cup {{<<FldBx, FldBx>> \o s \o <<FldBx, FldBx>> : s \in Lines({Fistp, MovCx, Cdq, Fadd}, n)} : n \in 1..4}
        \cup {Lines({FldBx, Fstsw, Fsin, Fadd, MovCx}, n) : n \in 1..5}
        \cup {Lines({FldBx, Incr, MovGs, Fsin}, n) : n \in 1..5}
        \cup {{<<FldBx, FldBx, Push>> \o s \o <<FldBx>> : s \in Lines({FldBx, MovBx, Fstsw}, n)} : n \in 1..3}
\* Every kind of gap the gate admits, but writes that gap_written_gpr_mask misses.
Flags == {{}, {"zf"}, {"of", "cf", "zf", "sf"}}
AnyReg == {RegOp("bx", c) : c \in {"lo8", "hi8", "w16", "w32", "w64"}} \cup {R32("cx"), R32("sp")}
AnyMem == {AtBx, AtBxCx, MemOp("bx", "none", FALSE, FALSE, FALSE), Plain("abs"), Plain("rip")}
AnyLit == {Plain("zero"), Plain("one"), Plain("lit"), [Plain("lit") EXCEPT !.hard = TRUE]}
Cc(h) == [Plain("cc") EXCEPT !.hard = h]
With(ops, fl, args) == {[op |-> p, o |-> a, live |-> f, lock |-> FALSE] : p \in ops, f \in fl, a \in args}
RmArgs == (AnyReg \X (AnyReg \cup AnyMem \cup AnyLit)) \cup (AnyMem \X (AnyReg \cup AnyLit))
AnyGap ==
    With({"mov", "cmp", "add", "xor", "sbb", "test"}, Flags, RmArgs)
        \cup With({"lea", "movzx"}, {{}}, AnyReg \X AnyMem)
        \cup With(Shifts, Flags, (AnyReg \cup AnyMem) \X ({RegOp("cx", "lo8")} \cup AnyLit))
        \cup With({"inc", "not", "mul", "imul", "push", "pop", "pushd"}, Flags,
                    {<<x>> : x \in AnyReg \cup AnyMem})
        \cup With({"imul"}, Flags, AnyReg \X (AnyReg \cup AnyMem))
        \cup With({"setcc"}, {{}}, {<<Cc(FALSE), x>> : x \in AnyMem})
        \cup With({"cmovcc"}, {{}}, {<<Cc(h), R32("cx"), x>> : h \in BOOLEAN, x \in AnyReg \cup AnyMem})
        \cup With({"nop", "cbw", "cwd", "cdq"}, {{}}, {<< >>})
        \cup With({"movss", "addss"}, {{}}, {<<RegOp("x0", c), RegOp("x1", "xmm"), x>> : c \in {"xmm", "ymm"}, x \in AnyMem})
GapBlocks == {{<<FldBx, FldBx, g, FldBx, FldBx>> : g \in AnyGap},
              {<<FldDx, FldDx, g, Fistp, Fistp>> : g \in AnyGap}}
AllBlocks == RunBlocks \cup GapBlocks
StaleBlocks == {{<<FldBx, FldBx, s, FldBx, FldBx>> : s \in {Cdq, Setcc, Push}}}
=============================================================================
