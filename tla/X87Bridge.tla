----------------------------- MODULE X87Bridge -----------------------------
(***************************************************************************)
(* Integer instructions between x87 instructions.  Rosetta translates them *)
(* with its own allocator while the X87Cache keeps registers pinned, so    *)
(* two questions are asked of each: how many scratch GPRs that takes       *)
(* (gap_gpr_demand, X87BridgeDemand.cpp), and which guest registers it     *)
(* writes (gap_written_gpr_mask, X87Cache.cpp).                            *)
(*                                                                         *)
(* An instruction is [op, o, live, lock]: its opcode, its operands in      *)
(* Rosetta's order, the flags it sets that are read later and its LOCK     *)
(* prefix.  Operands:                                                      *)
(*   reg  a register, of class lo8, hi8, w16, w32, w64, xmm or ymm         *)
(*   mem  base and index registers, far: the displacement or the scale     *)
(*        does not fit a load, a store or an add; the data has 32 bits     *)
(*   abs, rip   absolute and RIP-relative memory                           *)
(*   lit  a positive literal, hard: not an immediate of the AArch64        *)
(*        instruction; zero and one are literals too                       *)
(*   seg, cc    a segment register, a condition code (hard: parity)        *)
(***************************************************************************)
EXTENDS Integers, Sequences, FiniteSets

NoGuestReg == "none"
RegOp(r, c) == [kind |-> "reg", reg |-> r, cls |-> c]
MemOp(b, x, far, a32, seg) ==
    [kind |-> "mem", base |-> b, index |-> x, far |-> far, a32 |-> a32, seg |-> seg]
Plain(k) == [kind |-> k, hard |-> FALSE]

MemKinds == {"mem", "abs", "rip"}
IsReg(o) == o.kind = "reg"
IsGpr(o) == IsReg(o) /\ o.cls \notin {"xmm", "ymm"}
IsArch(o) == IsReg(o) /\ o.cls \in {"w32", "w64"}
IsWide(o) == IsReg(o) /\ o.cls = "w64"
IsSmall(o) == IsReg(o) /\ o.cls \in {"lo8", "hi8", "w16"}
SameReg(x, y) == IsReg(x) /\ x = y
Live(in, flags) == in.live \cap flags # {}
\* The literal is an immediate of the instruction (0 is no bit mask).
alu_addimm_encodable(o) == o.kind \in {"zero", "one"} \/ (o.kind = "lit" /\ ~o.hard)
alu_is_bitmask_immediate(o) == o.kind = "one" \/ (o.kind = "lit" /\ ~o.hard)
IsLiteral(o) == o.kind \in {"zero", "one", "lit"}

(***************************************************************************)
(* Costs.  A helper of Rosetta's translator takes `peak` scratch GPRs at   *)
(* most and leaves `held` of them taken; a free gives registers back.      *)
(***************************************************************************)
Cost(p, h) == [peak |-> p, held |-> h]
Nothing == Cost(0, 0)
FreeOne == Cost(0, -1)
When(b, c) == IF b THEN c ELSE Nothing

Demand(s) ==
    LET running[i \in 0..Len(s)] == IF i = 0 THEN 0 ELSE running[i - 1] + s[i].held
        peaks == {0} \cup {running[i - 1] + s[i].peak : i \in DOMAIN s}
    IN  CHOOSE x \in peaks : \A y \in peaks : y <= x

\* The address of a load or store: nothing when it fits the instruction.
mov_prefetch_allocs(m) == IF m.far THEN 1 ELSE 0
AddrAllocs(m) == IF m.a32 THEN 1 ELSE mov_prefetch_allocs(m)
Spill(o, h) ==
    CASE o.kind = "mem" -> Cost(AddrAllocs(o), h * AddrAllocs(o))
      [] o.kind = "abs" -> Cost(1, h)
      [] o.kind = "rip" -> Cost(2, h)
      [] OTHER          -> Nothing

alloc_dst_gpr_cost(o) == IF IsArch(o) THEN Nothing ELSE Cost(1, 1)

\* The value of an operand in a register.
Fetch(o, hi8) ==
    CASE o.kind = "reg"           -> When(hi8 /\ o.cls = "hi8", Cost(1, 1))
      [] o.kind \in {"mem", "abs"} -> Cost(1, 1)
      [] o.kind = "rip"           -> Cost(2, 1)
      [] OTHER                    -> Cost(1, 1)
mov_read_cost(o, arch) ==
    CASE o.kind = "mem" /\ arch        -> Spill(o, 1)
      [] o.kind = "lit" /\ arch        -> Nothing
      [] OTHER                         -> Fetch(o, ~arch)
movext_read_cost(o, arch) ==
    CASE o.kind = "reg" -> Nothing
      [] o.kind \in {"mem", "abs"} -> When(arch, Spill(o, 1))
      [] OTHER -> IF arch THEN Cost(2, 1) ELSE Cost(1, 1)
alu_read_cost(o, extend, wide) ==
    IF IsReg(o) THEN When(\/ o.cls = "hi8"
                          \/ extend /\ o.cls \in {"lo8", "w16"}
                          \/ extend /\ wide /\ o.cls = "w32", Cost(1, 1))
    ELSE Fetch(o, TRUE)
push_read_cost(o) == IF IsReg(o) THEN When(o.cls = "w16", Cost(1, 1)) ELSE Fetch(o, FALSE)

(***************************************************************************)
(* Families.                                                               *)
(***************************************************************************)
demand_mov_movnti(in) ==
    IF IsReg(in.o[1]) /\ in.o[1].cls = "w16" /\ in.o[2].kind = "lit" THEN 0
    ELSE Demand(<<mov_read_cost(in.o[2], IsArch(in.o[1])), Spill(in.o[1], 0)>>)
demand_lea(in) ==
    LET s == in.o[2]
        addr == IF s.kind = "rip" THEN Cost(1, 0)
                ELSE When(s.kind = "mem" /\ s.far /\ IsArch(in.o[1]), Cost(1, 0))
    IN  Demand(<<alloc_dst_gpr_cost(in.o[1]), addr>>)
demand_movzx_movsx_movsxd(in) ==
    Demand(<<alloc_dst_gpr_cost(in.o[1]), movext_read_cost(in.o[2], IsArch(in.o[1]))>>)
\* A YMM destination is flushed to the thread context.
Flush(dst, src) ==
    When(IsReg(dst) /\ dst.cls = "ymm", IF src.kind = "rip" THEN Cost(2, 0) ELSE Cost(1, 0))
demand_sse_mov_scalar(in) ==
    IF ~IsReg(in.o[1]) THEN Demand(<<Spill(in.o[1], 1)>>)
    ELSE Demand(<<Spill(in.o[2], 1), Flush(in.o[1], in.o[2])>>)
demand_sse_arith(in) == Demand(<<Spill(in.o[3], 1), Flush(in.o[1], in.o[3])>>)

\* The operands are read extended.
alu_extend_nonzero(in) ==
    CASE in.op \in {"add", "adc", "sbb"} -> Live(in, {"of", "cf"})
      [] in.op \in {"sub", "cmp", "inc", "dec", "neg"} -> Live(in, {"of", "cf", "zf"})
      [] in.op \in {"or", "xor"} -> Live(in, {"sf"})
      [] in.op \in {"and", "test"} -> Live(in, {"of", "cf", "zf", "sf"}) /\ ~IsLiteral(in.o[2])
      [] OTHER -> FALSE
Logical == {"and", "or", "xor"}
\* Read, modify, write of dst with src; a memory destination keeps what was
\* read until it is written.
RmwCost(in, second) ==
    LET dst == in.o[1]
        mem == dst.kind \in {"mem", "abs"}
        read(o) == alu_read_cost(o, alu_extend_nonzero(in), IsWide(dst))
    IN  IF dst.kind = "rip" THEN 5 + IF second THEN read(in.o[2]).peak ELSE 0
        ELSE Demand(<<alloc_dst_gpr_cost(dst), read(dst), When(second, read(in.o[2])),
                      When(second /\ ~mem, FreeOne), When(~mem, FreeOne), Spill(dst, 0)>>)

demand_alu_binary(in) ==
    LET dst == in.o[1]
        src == in.o[2]
        logical == in.op \in Logical
        second == CASE IsReg(src)      -> logical \/ src.cls \notin {"lo8", "w16"}
                    [] IsLiteral(src)  -> IF logical THEN ~alu_is_bitmask_immediate(src)
                                          ELSE ~alu_addimm_encodable(src)
                    [] OTHER           -> TRUE
        read(o) == alu_read_cost(o, alu_extend_nonzero(in), IsWide(dst))
        temp == IsSmall(dst) /\ Live(in, {"af", "pf", "of", "sf"})
    IN  CASE in.op = "xor" /\ SameReg(dst, src) -> 0
          [] in.op = "cmp" -> Demand(<<When(temp, Cost(1, 1)), read(dst), When(second, read(src))>>)
          [] OTHER -> RmwCost(in, second)

demand_adc_sbb(in) ==
    IF in.op = "sbb" /\ SameReg(in.o[1], in.o[2]) THEN alloc_dst_gpr_cost(in.o[1]).peak
    ELSE RmwCost(in, in.op = "sbb" \/ in.live # {} \/ in.o[2].kind # "zero")

demand_test(in) ==
    LET x == in.o[1]
        y == in.o[2]
        second == IF IsLiteral(y) THEN ~alu_is_bitmask_immediate(y) ELSE ~SameReg(x, y)
        read(o) == alu_read_cost(o, alu_extend_nonzero(in), IsWide(x))
        hi8 == IsReg(x) /\ x.cls = "hi8" /\ alu_is_bitmask_immediate(y)
    IN  CASE in.live = {"zf"} /\ (SameReg(x, y) \/ hi8) -> 0
          [] x.kind = "rip" -> 2 + IF second THEN read(y).peak ELSE 0
          [] OTHER -> Demand(<<read(x), When(second, read(y))>>)

demand_alu_unary(in) ==
    LET t == in.o[1]
        read == alu_read_cost(t, alu_extend_nonzero(in), IsWide(t))
        carry == in.op \in {"inc", "dec"} /\ "cf" \in in.live
    IN  CASE t.kind = "rip" -> 5 + IF carry THEN 1 ELSE 0
          [] in.op = "not"  -> Demand(<<read, alloc_dst_gpr_cost(t), Spill(t, 0)>>)
          [] OTHER -> Demand(<<alloc_dst_gpr_cost(t), read, When(carry, Cost(1, 1)),
                               When(IsReg(t), FreeOne), Spill(t, 0)>>)

demand_push_pop(in) ==
    LET o == in.o[1]
        sp == IsReg(o) /\ o.reg = "sp"
        slot == IF IsArch(o) /\ ~sp THEN Nothing ELSE Cost(1, 1)
    IN  CASE in.op \in {"push", "pop"} /\ IsReg(o) /\ ~sp -> 0
          [] in.op \in {"push", "pushd", "pushw"} ->
                Demand(<<push_read_cost(o), When(sp /\ o.cls # "w16", Cost(1, 1))>>)
          [] OTHER -> Demand(<<slot, Spill(o, 0)>>)

\* Parity conditions are computed in three more registers.
demand_cmovcc(in) ==
    LET read == Fetch(in.o[3], TRUE)
        dst == alloc_dst_gpr_cost(in.o[2])
    IN  IF in.o[1].hard THEN read.peak + dst.held + 3 ELSE Demand(<<read, dst>>)
demand_setcc(in) == Demand(<<Cost(1, 1), Spill(in.o[2], 0)>>)
demand_extends(in) == IF in.op \in {"cbw", "cwd"} THEN 1 ELSE 0

\* Shifts and rotates charge every register they ever take.  A register of 32
\* or 64 bits shifted in place is copied first when its old bits are flags.
ShiftEvents(in) ==
    LET b == in.o[2].kind
        oc == Live(in, {"of", "cf"})
        any == in.live # {}
        le16 == IF IsSmall(in.o[1]) THEN 2 ELSE 0
        top == IF b = "one" THEN {"of", "cf"} ELSE {"cf"}
    IN  IF IsLiteral(in.o[2])
        THEN CASE in.op = "shl" -> IF b # "zero" /\ Live(in, top) THEN 2 ELSE 0
               [] in.op = "shr" -> IF b = "zero" THEN 0
                                   ELSE Cardinality(in.live \cap top) + (IF Live(in, top) THEN 1 ELSE 0)
               [] in.op = "sar" -> IF b = "zero" THEN 0
                                   ELSE (IF "cf" \in in.live THEN 1 ELSE 0) + (IF Live(in, top) THEN 1 ELSE 0)
               [] in.op = "rol" -> 2 + IF oc /\ b # "zero" THEN 1 ELSE 0
               [] in.op = "ror" -> le16 + IF oc /\ b # "zero" THEN 2 ELSE 0
        ELSE CASE in.op \in {"shl", "shr", "sar"} -> (IF any THEN 1 ELSE 0) + (IF oc THEN 1 ELSE 0)
               [] in.op = "rol" -> (IF oc THEN 2 ELSE 0) + (IF le16 = 2 THEN 2 ELSE 1)
               [] in.op = "ror" -> (IF oc THEN 3 ELSE 0) + le16
shifts_dup_events(in) ==
    LET literal == IsLiteral(in.o[2])
        flags == IF in.op \in {"rol", "ror"} /\ literal /\ in.o[2].kind # "one" THEN {"cf"}
                 ELSE {"of", "cf"}
        copies == ~(literal /\ in.op \in {"shl", "shr", "sar"})
    IN  IF copies /\ IsArch(in.o[1]) /\ Live(in, flags) THEN 1 ELSE 0
shifts_nz_events(in) ==
    IF /\ in.op \in {"shl", "shr", "sar"} /\ in.o[2].kind # "zero"
       /\ "sf" \in in.live /\ IsSmall(in.o[1]) THEN 1 ELSE 0
demand_shifts(in) ==
    LET t == in.o[1]
        read == IF IsReg(t) THEN IF IsSmall(t) THEN 1 ELSE 0 ELSE IF t.kind = "rip" THEN 2 ELSE 1
    IN  read + alloc_dst_gpr_cost(t).peak + Spill(t, 0).peak
             + ShiftEvents(in) + shifts_dup_events(in) + shifts_nz_events(in)

\* So do the multiplications; o holds one, two or three operands.
mul_read_events(o, wide) ==
    IF o.kind = "mem" THEN IF o.far /\ o.index = NoGuestReg THEN 2 ELSE 1
    ELSE alu_read_cost(o, TRUE, wide).peak
demand_mul_imul(in) ==
    LET n == Len(in.o)
        d == in.o[1]
        oc == Live(in, {"of", "cf"})
        wide == IsWide(d) \/ (~IsSmall(d) /\ oc)
        acc == IF IsSmall(d) \/ (~IsWide(d) /\ wide) THEN 1 ELSE 0
        reads == IF n = 1 THEN acc + mul_read_events(d, wide)
                 ELSE 1 + mul_read_events(in.o[n - 1], wide) + mul_read_events(in.o[n], wide)
        high == CASE IsSmall(d) -> 1
                  [] IsWide(d)  -> IF oc /\ (n = 2 \/ (n = 1 /\ d.kind # "mem")) THEN 1 ELSE 0
                  [] OTHER      -> IF oc THEN 1 ELSE 0
        flags == CASE ~oc -> 0 [] IsSmall(d) /\ in.op = "imul" -> 4 [] OTHER -> 2
    IN  reads + high + flags

(***************************************************************************)
(* The gate.                                                               *)
(***************************************************************************)
Refused == 99
lockable_rmw == {"add", "sub", "and", "or", "xor", "adc", "sbb", "inc", "dec", "neg", "not", "xchg"}
Unary == {"inc", "dec", "neg", "not"}
Shifts == {"shl", "shr", "sar", "rol", "ror"}
SseArith == {"addss", "mulsd", "sqrtss"}        \* and their like
Extends == {"cbw", "cwde", "cdqe", "cwd", "cdq", "cqo"}
Alu == {"add", "sub", "and", "or", "xor", "cmp"}
PushPop == {"push", "pop", "pushd", "popd", "pushw", "popw"}

gap_gpr_demand(in) ==
    CASE \E i \in DOMAIN in.o : \/ in.o[i].kind = "seg"
                                \/ in.o[i].kind = "mem" /\ in.o[i].seg -> Refused
      [] /\ in.lock /\ in.op \in lockable_rmw
         /\ \E i \in DOMAIN in.o : in.o[i].kind \in MemKinds -> Refused
      [] in.lock /\ in.op \in Unary \cup {"adc", "sbb"} -> Refused
      [] in.op \in {"mov", "movnti"}            -> demand_mov_movnti(in)
      [] in.op = "lea"                          -> demand_lea(in)
      [] in.op \in {"movss", "movsd"}           -> demand_sse_mov_scalar(in)
      [] in.op \in Alu                          -> demand_alu_binary(in)
      [] in.op \in {"movzx", "movsx", "movsxd"} -> demand_movzx_movsx_movsxd(in)
      [] in.op \in PushPop                      -> demand_push_pop(in)
      [] in.op \in Unary                        -> demand_alu_unary(in)
      [] in.op = "cmovcc"                       -> demand_cmovcc(in)
      [] in.op \in {"nop", "wait"}              -> 0
      [] in.op \in Extends                      -> demand_extends(in)
      [] in.op = "setcc"                        -> demand_setcc(in)
      [] in.op \in {"adc", "sbb"}               -> demand_adc_sbb(in)
      [] in.op \in Shifts                       -> demand_shifts(in)
      [] in.op = "test"                         -> demand_test(in)
      [] in.op \in {"mul", "imul"}              -> demand_mul_imul(in)
      [] in.op \in SseArith       -> demand_sse_arith(in)
      [] OTHER                                  -> Refused

Named(in, i) == IF Len(in.o) >= i /\ IsGpr(in.o[i]) THEN {in.o[i].reg} ELSE {}
gap_written_gpr_mask(in) ==
    CASE in.op \in {"nop", "cmp"}               -> {}
      [] in.op \in {"cbw", "cwde", "cdqe"}      -> {"ax"}
      [] in.op \in {"cwd", "cdq"}               -> {"dx"}
      [] in.op = "mul" \/ (in.op = "imul" /\ Len(in.o) <= 1) -> {"ax", "dx"}
      [] in.op = "xchg"                         -> Named(in, 1) \cup Named(in, 2)
      [] in.op \in {"push", "pop", "pushd", "popd"} -> {"sp"} \cup Named(in, 1)
      [] OTHER                                  -> Named(in, 1)

\* What the instruction really writes.  setcc and cmovcc name the condition
\* first and the destination second.
GuestWrites(in) ==
    CASE in.op \in {"nop", "wait", "cmp", "test"}    -> {}
      [] in.op \in {"push", "pushd", "pushw"} -> {"sp"}
      [] in.op \in {"mul", "imul"} /\ Len(in.o) = 1 ->
            {"ax"} \cup IF IsReg(in.o[1]) /\ in.o[1].cls \in {"lo8", "hi8"} THEN {} ELSE {"dx"}
      [] in.op \in {"pop", "popd", "popw"} -> {"sp"} \cup Named(in, 1)
      [] in.op \in {"setcc", "cmovcc"}     -> Named(in, 2)
      [] in.op \in {"cbw", "cwde", "cdqe"} -> {"ax"}
      [] in.op \in {"cwd", "cdq", "cqo"}   -> {"dx"}
      [] in.op = "xchg"                    -> Named(in, 1) \cup Named(in, 2)
      [] OTHER                             -> Named(in, 1)
=============================================================================
