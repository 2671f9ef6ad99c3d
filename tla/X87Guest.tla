------------------------------ MODULE X87Guest ------------------------------
(***************************************************************************)
(* The guest machine an x87 run executes on: the register stack of         *)
(* X87Stack, the memory words and the general registers its operands name. *)
(* Exec is the meaning of one instruction, taken by itself; a run means    *)
(* its instructions one after the other.  This is the reference the        *)
(* whole-run compiler is compared with.                                    *)
(*                                                                         *)
(* Memory is a row of 32-bit words.  A word remembers what was written:    *)
(* the kind of datum, its width in words, which of its words this is and   *)
(* the value, so that a load that does not match the last store sees the   *)
(* bits of something else (Reinterpret).                                   *)
(***************************************************************************)
EXTENDS X87Stack, FiniteSets

CONSTANTS
    One,                    \* 1.0
    Nar(_),                 \* f64 -> f32; f32 values widen to themselves
    Reinterpret(_, _, _),   \* the bits of words s read as a datum (k, w)
    GReg,                   \* the guest's general registers, "ax" among them
    RegMod,                 \* general registers hold 0..RegMod-1
    MemTop                  \* the last word of memory

NoMem == [base |-> "none", disp |-> 0, w |-> 0, seg |-> 0]

\* The effective address: a register and a displacement, or an absolute one.
EA(g, m) == IF m.base = "abs" THEN m.disp ELSE g.reg[m.base] + m.disp

ReadMem(mem, k, w, a) ==
    LET s == [j \in 1..w |-> mem[a + j - 1]]
    IN  IF \A j \in 1..w : s[j] = <<k, w, j, s[1][4]>>
        THEN s[1][4] ELSE Reinterpret(k, w, s)

WriteMem(mem, k, w, a, v) ==
    [x \in DOMAIN mem |->
        IF x \in a..(a + w - 1) THEN <<k, w, x - a + 1, v>> ELSE mem[x]]

Narrowed(w, v) == IF w = 1 THEN Nar(v) ELSE v
FpAt(g, m) == ReadMem(g.mem, "f", m.w, EA(g, m))
IntAt(g, m) == ReadMem(g.mem, "i", m.w, EA(g, m))
CwAt(g, m) == ReadMem(g.mem, "cw", 1, EA(g, m))
Put(g, k, m, v) == [g EXCEPT !.mem = WriteMem(@, k, m.w, EA(g, m), v)]
SetReg(g, r, v) == [g EXCEPT !.reg[r] = v % RegMod]
StatusWord(top, cc) == top + N * cc

(***************************************************************************)
(* Instructions: [op, k, i, j, v, m].  k is the operation of an arithmetic *)
(* instruction or the register a guest instruction writes, i and j are     *)
(* stack depths, v a constant, m the memory operand (NoMem: a register     *)
(* operand).                                                               *)
(***************************************************************************)
Operand(g, in) ==
    IF in.m.w = 0 THEN Reg(in.j) ELSE [kind |-> "val", v |-> FpAt(g, in.m)]
IntOperand(g, in) == [kind |-> "val", v |-> IntAt(g, in.m)]
On(g, a) == [g EXCEPT !.fpu = a]
Popping == {"fstp", "fistp", "fisttp", "fcomp", "ficomp", "fcomip"}
PopIf(in, a) == IF in.op \in Popping THEN Pop(a) ELSE a

\* The x87 instructions; guest integer moves follow in ExecGuest.
ExecX87(g, in) ==
    LET a == g.fpu IN
    CASE in.op = "fldc"    -> On(g, FLD(a, [kind |-> "val", v |-> in.v]))
      [] in.op = "fld"     -> On(g, FLD(a, Operand(g, in)))
      [] in.op = "fild"    -> On(g, FLD(a, IntOperand(g, in)))
      [] in.op \in {"fst", "fstp"} ->
            IF in.m.w = 0 THEN On(g, PopIf(in, FSTReg(a, in.i)))
            ELSE On(Put(g, "f", in.m, Narrowed(in.m.w, ST(a, 0))), PopIf(in, a))
      [] in.op \in {"fist", "fistp"} ->
            On(Put(g, "i", in.m, Round(a.cw, ST(a, 0))), PopIf(in, a))
      [] in.op = "fisttp"  -> On(Put(g, "i", in.m, U("trunc", ST(a, 0))), Pop(a))
      [] in.op = "farith"  -> On(g, FARITH(a, in.k, in.i, Operand(g, in)))
      [] in.op = "fiarith" -> On(g, FARITH(a, in.k, 0, IntOperand(g, in)))
      [] in.op = "farithp" -> On(g, FARITHP(a, in.k, in.i))
      [] in.op \in {"fchs", "fabs", "fsqrt"} -> On(g, FUNARY(a, in.k))
      [] in.op = "frndint" -> On(g, FRNDINT(a))
      [] in.op = "fxch"    -> On(g, FXCH(a, in.j))
      [] in.op \in {"fcom", "fcomp"} -> On(g, PopIf(in, FCOM(a, Operand(g, in))))
      [] in.op = "fcompp"  -> On(g, Pop(Pop(FCOM(a, Reg(1)))))
      [] in.op \in {"ficom", "ficomp"} ->
            On(g, PopIf(in, FCOM(a, IntOperand(g, in))))
      [] in.op \in {"fcomi", "fcomip"} -> On(g, PopIf(in, FCOMI(a, in.j)))
      [] in.op = "fcmov"   -> On(g, FCMOV(a, in.j))
      [] in.op = "ftst"    -> On(g, FTST(a))
      [] in.op = "fstsw"   -> [g EXCEPT !.reg["ax"] = StatusWord(a.top, a.cc)]
      [] in.op = "fldcw"   -> On(g, FLDCW(a, CwAt(g, in.m)))
      [] in.op = "fnstcw"  -> Put(g, "cw", in.m, a.cw)
      [] OTHER             -> g

GuestOps == {"mov_rr", "mov_ri", "lea", "ext", "mov_rm", "mov_mr", "mov_mi"}
ExecGuest(g, in) ==
    CASE in.op = "mov_rr" -> SetReg(g, in.k, g.reg[in.m.base])
      [] in.op = "mov_ri" -> SetReg(g, in.k, in.v)
      [] in.op = "lea"    -> SetReg(g, in.k, EA(g, in.m))
      [] in.op = "ext"    -> SetReg(g, in.k, g.reg[in.m.base] % in.v)
      [] in.op = "mov_rm" -> SetReg(g, in.k, ReadMem(g.mem, "g", 1, EA(g, in.m)))
      [] in.op = "mov_mr" -> Put(g, "g", in.m, g.reg[in.k])
      [] in.op = "mov_mi" -> Put(g, "g", in.m, in.v)

Exec(g, in) == IF in.op \in GuestOps THEN ExecGuest(g, in) ELSE ExecX87(g, in)

\* A well-behaved guest reads registers in use and pushes onto empty ones.
Reads(in) ==
    CASE in.op \in {"fldc", "fild", "fstsw", "fldcw", "fnstcw", "fnop"} -> {}
      [] in.op \in GuestOps -> {}
      [] in.op = "fld" -> IF in.m.w = 0 THEN {in.j} ELSE {}
      [] in.op \in {"fst", "fstp", "farithp"} -> {0, in.i}
      [] in.op = "farith" -> {0, in.i, in.j}
      [] in.op = "fcompp" -> {0, 1}
      [] OTHER -> {0, in.j}
Legal(g, in) ==
    /\ \A d \in Reads(in) :
            (d > 0 /\ in.op \in {"fst", "fstp"}) \/ InUse(g.fpu, d)
    /\ in.op \in {"fldc", "fld", "fild"} => CanPush(g.fpu, 1)
=============================================================================
