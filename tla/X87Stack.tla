------------------------------ MODULE X87Stack ------------------------------
(***************************************************************************)
(* The x87 register stack as the guest sees it.  This is what the JIT      *)
(* promises to implement: every instruction takes effect at once, on one   *)
(* state, with nothing cached and nothing deferred.  The stack discipline  *)
(* (push, pop, ST(i) addressing, tags) is the one of the runtime's own     *)
(* X87State class, which executes one instruction at a time on memory.     *)
(*                                                                         *)
(* Numbers are abstract: F(op, x, y) is the double-precision operation,    *)
(* Cmp(x, y) the packed C3/C2/C0 result of a comparison, and a rounding    *)
(* instruction depends on the control word.                                *)
(***************************************************************************)
EXTENDS Integers, Sequences

CONSTANTS
    N,              \* number of stack registers (8 on the hardware)
    Val,            \* the values a register can hold
    Zero,           \* 0.0, what X87State::pop leaves in the popped slot
    CC,             \* the condition-code values C3/C2/C0 can take
    CW,             \* the control words (rounding modes)
    F(_, _, _),     \* binary arithmetic: F(op, x, y), op in {"add",...}
    U(_, _),        \* unary arithmetic: U(op, x)
    Round(_, _),    \* Round(cw, x): rounding to an integer
    Cmp(_, _),      \* condition codes of comparing x with y
    Cond(_),        \* the FCMOV condition evaluated on the flags
    EmptyCC         \* the condition codes FXAM reports for an empty register

BinOps == {"add", "sub", "mul", "div"}
UnOps  == {"chs", "abs", "sqrt", "trunc", "trans"}

ASSUME NAssumption == N \in Nat \ {0, 1}
ASSUME ZeroAssumption == Zero \in Val
ASSUME EmptyAssumption == EmptyCC \in CC
ASSUME FAssumption ==
    \A op \in BinOps, x, y \in Val : F(op, x, y) \in Val
ASSUME UAssumption == \A op \in UnOps, x \in Val : U(op, x) \in Val
ASSUME RoundAssumption == \A c \in CW, x \in Val : Round(c, x) \in Val
ASSUME CmpAssumption == \A x, y \in Val : Cmp(x, y) \in CC
ASSUME CondAssumption == \A c \in CC : Cond(c) \in BOOLEAN
\* FXCH followed by FADDP or FMULP drops the exchange.
ASSUME CommutativeAssumption ==
    \A x, y \in Val : /\ F("add", x, y) = F("add", y, x)
                      /\ F("mul", x, y) = F("mul", y, x)

Slot  == 0..(N - 1)
Depth == 0..(N - 1)

\* What an instruction shows the guest besides the stack: a value stored to
\* memory, a status word (TOP and condition codes), a control word.
NoOut == [kind |-> "none"]
OutVal(v) == [kind |-> "value", v |-> v]
OutSW(t, c) == [kind |-> "sw", top |-> t, cc |-> c]
OutCW(c) == [kind |-> "cw", cw |-> c]
Outs == {NoOut} \cup {OutVal(v) : v \in Val} \cup
        {OutSW(t, c) : t \in Slot, c \in CC} \cup {OutCW(c) : c \in CW}

State == [top : Slot, tag : [Slot -> BOOLEAN], st : [Slot -> Val],
          cc : CC, cw : CW, nzcv : CC, out : Outs]

(***************************************************************************)
(* Addressing and the two stack movements.  tag[s] is TRUE when the tag    *)
(* word marks slot s in use (anything but kEmpty).  Phys is the code's     *)
(* (top + d) & 7, written without a remainder: top and d are below N.      *)
(***************************************************************************)
Phys(top, d) == IF top + d >= N THEN top + d - N ELSE top + d
ST(a, d) == a.st[Phys(a.top, d)]
InUse(a, d) == a.tag[Phys(a.top, d)]
SetST(a, d, v) == [a EXCEPT !.st[Phys(a.top, d)] = v]
Quiet(a) == [a EXCEPT !.out = NoOut]
Emit(a, o) == [a EXCEPT !.out = o]

Push(a, v) ==
    LET t == Phys(a.top, N - 1)
    IN  [a EXCEPT !.top = t, !.tag[t] = TRUE, !.st[t] = v]

Pop(a) ==
    [a EXCEPT !.top = Phys(a.top, 1), !.tag[a.top] = FALSE,
              !.st[a.top] = Zero]

(***************************************************************************)
(* Instructions.  An arithmetic mnemonic names an operation and the order  *)
(* of its operands: the "r" forms swap them.                               *)
(***************************************************************************)
ArithOps == {"add", "sub", "subr", "mul", "div", "divr"}
Arith(op, d, s) ==
    CASE op = "subr" -> F("sub", s, d)
      [] op = "divr" -> F("div", s, d)
      [] OTHER -> F(op, d, s)
\* The mnemonic that exchanging the operands turns op into.
Swapped(op) ==
    CASE op = "sub" -> "subr" [] op = "subr" -> "sub"
      [] op = "div" -> "divr" [] op = "divr" -> "div" [] OTHER -> op

\* An operand is a memory or immediate value, or a register.
Src == [kind : {"val"}, v : Val] \cup [kind : {"reg"}, d : Depth]
Reg(i) == [kind |-> "reg", d |-> i]
Value(a, src) == IF src.kind = "val" THEN src.v ELSE ST(a, src.d)

FLD(a, src) == Push(a, Value(a, src))
FARITH(a, op, i, src) == SetST(a, i, Arith(op, ST(a, i), Value(a, src)))
FARITHP(a, op, i) == Pop(FARITH(a, op, i, Reg(0)))
FUNARY(a, op) == SetST(a, 0, U(op, ST(a, 0)))
FRNDINT(a) == SetST(a, 0, Round(a.cw, ST(a, 0)))
FST(a) == Emit(a, OutVal(ST(a, 0)))
FIST(a) == Emit(a, OutVal(Round(a.cw, ST(a, 0))))
FISTTP(a) == Pop(Emit(a, OutVal(U("trunc", ST(a, 0)))))
FSTReg(a, i) == SetST(a, i, ST(a, 0))
FXCH(a, i) == SetST(SetST(a, 0, ST(a, i)), i, ST(a, 0))
FCOM(a, src) == [a EXCEPT !.cc = Cmp(ST(a, 0), Value(a, src))]
FTST(a) == [a EXCEPT !.cc = Cmp(ST(a, 0), Zero)]
FCOMI(a, i) == [a EXCEPT !.nzcv = Cmp(ST(a, 0), ST(a, i))]
FCMOV(a, i) == IF Cond(a.nzcv) THEN SetST(a, 0, ST(a, i)) ELSE a
FXAM(a) ==
    [a EXCEPT !.cc = IF InUse(a, 0) THEN Cmp(ST(a, 0), Zero) ELSE EmptyCC]
FSTSW(a) == Emit(a, OutSW(a.top, a.cc))
FLDCW(a, c) == [a EXCEPT !.cw = c]
FNSTCW(a) == Emit(a, OutCW(a.cw))

(***************************************************************************)
(* The instructions the runtime library executes on the X87State in        *)
(* memory, one for each way they use the stack.                            *)
(***************************************************************************)
RuntimeOps == {"f2xm1", "fscale", "fxam", "fsincos", "fyl2x"}

RuntimeOp(a, k) ==
    CASE k = "f2xm1" -> FUNARY(a, "trans")
      [] k = "fscale" -> FARITH(a, "mul", 0, Reg(1))
      [] k = "fxam" -> FXAM(a)
      [] k = "fsincos" -> FLD(FUNARY(a, "trans"), Reg(0))
      [] k = "fyl2x" -> FARITHP(a, "mul", 1)

(***************************************************************************)
(* What a well-behaved guest program respects: it reads registers that are *)
(* in use and pushes onto registers that are empty.                        *)
(***************************************************************************)
CanPush(a, n) == \A k \in 1..n : ~InUse(a, N - k)
Readable(a, src) == src.kind = "reg" => InUse(a, src.d)
RuntimeOK(a, k) ==
    CASE k = "fxam" -> TRUE
      [] k = "fsincos" -> InUse(a, 0) /\ CanPush(a, 1)
      [] k = "f2xm1" -> InUse(a, 0)
      [] OTHER -> InUse(a, 0) /\ InUse(a, 1)

\* Power-on state of X87State.
InitState(c, f, w) ==
    [top |-> 0, tag |-> [s \in Slot |-> FALSE], st |-> [s \in Slot |-> Zero],
     cc |-> c, cw |-> w, nzcv |-> f, out |-> NoOut]
=============================================================================
