---------------------------- MODULE X87Deferred ----------------------------
(***************************************************************************)
(* The per-instruction x87 translator of rosetta_core: the cross-          *)
(* instruction cache of X87Cache (TOP held in a register, TOP write-back,  *)
(* tag updates and FXCH deferred), the translate_* functions and the       *)
(* peephole fusions try_fuse_*.                                            *)
(*                                                                         *)
(* jit is one record: the guest's X87State in memory (top, tag, st, cc,    *)
(* cw), the host flags that hold the guest's EFLAGS (nzcv), what the last  *)
(* instruction showed the guest (out), and the cache (wtop ... run).  A    *)
(* translation-time decision and the run-time effect of the code emitted   *)
(* for it are one step: within a run the code is straight-line.  fpu is    *)
(* the architectural machine of X87Stack executing the same instructions.  *)
(*                                                                         *)
(* A translator function is an operator from a jit record to a jit record  *)
(* with the name of the C++ function.                                      *)
(***************************************************************************)
EXTENDS X87Stack

CONSTANTS
    MaxRun,     \* bound on the length of a run lookahead may report
    DeferFXCH,  \* FALSE when disable_deferred_fxch is configured
    Shapes      \* program shapes admitted beyond the baseline, see below

AllShapes == {"push_after_flush", "fstsw_ends_run", "sw_mid_batch",
              "m80_live_flags", "fuse_disabled_op"}

ASSUME MaxRunAssumption == MaxRun \in Nat
ASSUME DeferAssumption == DeferFXCH \in BOOLEAN
ASSUME ShapesAssumption == Shapes \subseteq AllShapes

VARIABLES jit, fpu
vars == <<jit, fpu>>

Perms == {p \in [Depth -> Depth] : \A a, b \in Depth : p[a] = p[b] => a = b}
IdPerm == [d \in Depth |-> d]

JitState ==
    [top : Slot, tag : [Slot -> BOOLEAN], st : [Slot -> Val], cc : CC, cw : CW,
     nzcv : CC, out : Outs,
     wtop : Slot,                   \* the cached TOP register (top_gpr)
     gprs_valid : BOOLEAN,          \* the cache registers are loaded
     top_dirty : BOOLEAN,           \* wtop is newer than memory's TOP
     npush : 0..N,                  \* deferred_push_count
     npop : 0..N,                   \* deferred_pop_count
     perm : [Depth -> Depth],       \* logical depth -> physical depth
     perm_dirty : BOOLEAN,
     run : 0..MaxRun]               \* run_remaining

(***************************************************************************)
(* X87Cache: the state machine of the run counter.                         *)
(***************************************************************************)
reset_perm(j) == [j EXCEPT !.perm = IdPerm, !.perm_dirty = FALSE]

invalidate(j) ==
    reset_perm([j EXCEPT !.gprs_valid = FALSE, !.top_dirty = FALSE,
                         !.npush = 0, !.npop = 0, !.run = 0])

set_run(j, n) == IF n >= 2 THEN [j EXCEPT !.run = n] ELSE j

\* Mutant: expiry leaves the cache registers marked valid.
tickKeepsCache(j, c) ==
    IF j.run > c THEN [j EXCEPT !.run = @ - c]
    ELSE [j EXCEPT !.run = 0, !.top_dirty = FALSE, !.npush = 0, !.npop = 0]

\* c calls of tick().  On expiry the deferred work is forgotten, not done;
\* the permutation is left alone.
tick(j, c) ==
    IF j.run = 0 THEN j
    ELSE IF j.run > c THEN [j EXCEPT !.run = @ - c]
    ELSE [j EXCEPT !.run = 0, !.gprs_valid = FALSE, !.top_dirty = FALSE,
                   !.npush = 0, !.npop = 0]

(***************************************************************************)
(* The emitted memory accesses.  Dist(t, s) is the depth of slot s when    *)
(* TOP is t.                                                               *)
(***************************************************************************)
Dist(t, s) == IF s >= t THEN s - t ELSE s - t + N
\* Mutant: the increment of TOP is not masked.
UpUnmasked(t) == t + 1
Up(t) == Phys(t, 1)
Down(t) == Phys(t, N - 1)

emit_store_top(j) == [j EXCEPT !.top = j.wtop]

emit_x87_tag_set_valid_batch(j, n) ==
    [j EXCEPT !.tag =
        [s \in Slot |-> IF Dist(j.wtop, s) < n THEN TRUE ELSE j.tag[s]]]

emit_x87_tag_set_empty_batch(j, n) ==
    [j EXCEPT !.tag =
        [s \in Slot |-> IF Dist(j.wtop, s) >= N - n THEN FALSE ELSE j.tag[s]]]

resolve_depth(j, d) == IF j.perm_dirty THEN j.perm[d] ELSE d

emit_load_st(j, d) == j.st[Phys(j.wtop, resolve_depth(j, d))]
emit_store_st(j, d, v) ==
    [j EXCEPT !.st[Phys(j.wtop, resolve_depth(j, d))] = v]

\* emit_x87_perm_flush: ST(d) receives ST(perm[d]).
perm_flush_before_stack_change(j) ==
    IF j.perm_dirty
    THEN reset_perm([j EXCEPT !.st =
            [s \in Slot |-> j.st[Phys(j.wtop, j.perm[Dist(j.wtop, s)])]]])
    ELSE j

\* The eager forms, used outside a run: memory is updated on the spot.
emit_x87_push(j) ==
    emit_x87_tag_set_valid_batch(
        emit_store_top([j EXCEPT !.wtop = Down(@)]), 1)
emit_x87_pop_n(j, n) ==
    emit_x87_tag_set_empty_batch(
        emit_store_top([j EXCEPT !.wtop = Phys(@, n)]), n)

(***************************************************************************)
(* TranslatorX87Internal.hpp: preamble, epilogue and the flushes.          *)
(***************************************************************************)
x87_begin(j) ==
    IF j.run > 0 /\ j.gprs_valid THEN j
    ELSE [j EXCEPT !.wtop = j.top, !.gprs_valid = @ \/ j.run > 0]

x87_flush_top(j) ==
    IF j.top_dirty THEN [emit_store_top(j) EXCEPT !.top_dirty = FALSE] ELSE j

x87_flush_deferred_pops(j) ==
    IF j.npop > 0
    THEN [emit_x87_tag_set_empty_batch(j, j.npop) EXCEPT !.npop = 0]
    ELSE j

x87_flush_deferred_pushes(j) ==
    IF j.npush > 0
    THEN [emit_x87_tag_set_valid_batch(j, j.npush) EXCEPT !.npush = 0]
    ELSE j

x87_flush_tags(j) == x87_flush_deferred_pushes(x87_flush_deferred_pops(j))

\* The four flushes in the order x87_end and force_release perform them.
FlushAll(j) ==
    x87_flush_top(x87_flush_tags(perm_flush_before_stack_change(j)))

\* Mutant: the last instruction of a run is not recognised.
x87_endLate(j, consumed) == IF j.run < consumed THEN FlushAll(j) ELSE j
x87_end(j, consumed) == IF j.run <= consumed THEN FlushAll(j) ELSE j

x87_cache_force_release(j) ==
    invalidate(IF j.gprs_valid THEN FlushAll(j) ELSE j)

(***************************************************************************)
(* Stack movements.  A push leaves its tag and its TOP for later; a pop    *)
(* cancels the most recent deferred push, or is deferred itself.           *)
(***************************************************************************)
DeferPush(j) ==
    [j EXCEPT !.wtop = Down(@), !.top_dirty = TRUE, !.npush = @ + 1]

\* Mutant: a pending exchange survives the move of TOP.
x87_pushKeepsPerm(j) ==
    IF j.run > 0
    THEN LET a == x87_flush_deferred_pops(j)
             c == IF a.npush = 0 THEN x87_flush_top(a) ELSE a
         IN  DeferPush(c)
    ELSE emit_x87_push(j)

\* Mutant: the pops still pending are left to the next flush.
x87_pushKeepsPops(j) ==
    IF j.run > 0
    THEN DeferPush(perm_flush_before_stack_change(
             IF j.npush = 0 THEN x87_flush_top(j) ELSE j))
    ELSE emit_x87_push(j)

x87_push(j) ==
    IF j.run > 0
    THEN LET a == x87_flush_deferred_pops(j)
             b == IF a.npush >= N THEN x87_flush_deferred_pushes(a) ELSE a
             c == IF b.npush = 0 THEN x87_flush_top(b) ELSE b
         IN  DeferPush(perm_flush_before_stack_change(c))
    ELSE emit_x87_push(j)

\* Mutant: cancelling any push counts as cancelling the whole batch.
CancelPushClean(j) ==
    [j EXCEPT !.wtop = Up(@), !.npush = @ - 1, !.top_dirty = FALSE]

CancelPush(j) ==
    LET k == [j EXCEPT !.wtop = Up(@), !.npush = @ - 1]
    IN  IF k.top_dirty THEN [k EXCEPT !.top_dirty = (k.npush # 0)]
        ELSE emit_store_top(k)

DeferPop(j) ==
    [j EXCEPT !.wtop = Up(@), !.npop = @ + 1, !.top_dirty = TRUE]

x87_pop(j) ==
    IF j.run > 0
    THEN LET k == perm_flush_before_stack_change(j)
         IN  IF k.npush > 0 THEN CancelPush(k) ELSE DeferPop(k)
    ELSE [emit_x87_pop_n(j, 1) EXCEPT !.top_dirty = FALSE]

x87_pop_n(j, n) ==
    LET k == x87_flush_tags(j)
    IN  IF k.run > 0
        THEN LET l == perm_flush_before_stack_change(k)
             IN  emit_x87_tag_set_empty_batch(
                     [l EXCEPT !.wtop = Phys(@, n), !.top_dirty = TRUE], n)
        ELSE [emit_x87_pop_n(k, n) EXCEPT !.top_dirty = FALSE]

PopIf(j, n) ==
    CASE n = 0 -> j [] n = 1 -> x87_pop(j) [] OTHER -> x87_pop_n(j, n)

(***************************************************************************)
(* TranslatorX87.cpp: one operator per translate_* function (families that *)
(* differ only in the value they load or compute share one).  Emit records *)
(* what the instruction stores for the guest.                              *)
(***************************************************************************)
emit_fld_value(j, src) ==
    IF src.kind = "val" THEN src.v ELSE emit_load_st(j, src.d)

\* fldz, fld1, fldl2e ... fldpi, fild, fld m32 / m64 / ST(i): a register
\* operand is read before the push moves TOP.
translate_fld(j, src) ==
    LET b == x87_begin(j)
    IN  x87_end(emit_store_st(x87_push(b), 0, emit_fld_value(b, src)), 1)

\* fld m80: the cache is released and the runtime routine pushes on memory.
translate_fld_m80(j, src) == FLD(x87_cache_force_release(j), src)

\* fadd, fsub(r), fmul, fdiv(r) and, with dst = 0, their integer forms.
translate_arith(j, op, dst, src) ==
    LET b == x87_begin(j)
        r == Arith(op, emit_load_st(b, dst), emit_fld_value(b, src))
    IN  x87_end(emit_store_st(b, dst, r), 1)

\* faddp, fsub(r)p, fmulp, fdiv(r)p.
translate_arithp(j, op, dst) ==
    LET b == x87_begin(j)
        r == Arith(op, emit_load_st(b, dst), emit_load_st(b, 0))
    IN  x87_end(x87_pop(emit_store_st(b, dst, r)), 1)

\* fchs, fabs, fsqrt.
translate_unary(j, op) ==
    LET b == x87_begin(j)
    IN  x87_end(emit_store_st(b, 0, U(op, emit_load_st(b, 0))), 1)

translate_frndint(j) ==
    LET b == x87_begin(j)
    IN  x87_end(emit_store_st(b, 0, Round(b.cw, emit_load_st(b, 0))), 1)

\* fst / fstp m32, m64; npop is the number of registers popped.
translate_fst(j, npop) ==
    LET b == x87_begin(j)
    IN  x87_end(PopIf(Emit(b, OutVal(emit_load_st(b, 0))), npop), 1)

\* fstp m80: the inline conversion compares the exponent with 0x7FF unless
\* it is zero, and that compare leaves the host flags f behind.
translate_fst_m80(j, f) ==
    LET b == x87_begin(j)
        o == [Emit(b, OutVal(emit_load_st(b, 0))) EXCEPT !.nzcv = f]
    IN  x87_end(x87_pop(o), 1)

\* fst / fstp ST(i).
translate_fst_reg(j, i, npop) ==
    LET b == x87_begin(j)
        m == IF i = 0 THEN b ELSE emit_store_st(b, i, emit_load_st(b, 0))
    IN  x87_end(PopIf(m, npop), 1)

translate_fist(j, npop) ==
    LET b == x87_begin(j)
        r == Round(b.cw, emit_load_st(b, 0))
    IN  x87_end(PopIf(Emit(b, OutVal(r)), npop), 1)

translate_fisttp(j) ==
    LET b == x87_begin(j)
    IN  x87_end(x87_pop(Emit(b, OutVal(U("trunc", emit_load_st(b, 0))))), 1)

\* fcom, fucom, ficom and their popping forms.
translate_fcom(j, src, npop) ==
    LET b == x87_begin(j)
        r == Cmp(emit_load_st(b, 0), emit_fld_value(b, src))
    IN  x87_end(PopIf([b EXCEPT !.cc = r], npop), 1)

translate_ftst(j) ==
    LET b == x87_flush_top(x87_flush_tags(x87_begin(j)))
    IN  x87_end([b EXCEPT !.cc = Cmp(emit_load_st(b, 0), Zero)], 1)
\* fcomi, fcomip, fucomi, fucomip: the flags are the guest's.
translate_fcomi(j, i, npop) ==
    LET b == x87_begin(j)
        r == Cmp(emit_load_st(b, 0), emit_load_st(b, i))
    IN  x87_end(PopIf([b EXCEPT !.nzcv = r], npop), 1)

translate_fcmov(j, i) ==
    LET b == x87_flush_top(x87_flush_tags(x87_begin(j)))
        v == IF Cond(b.nzcv) THEN emit_load_st(b, i) ELSE emit_load_st(b, 0)
    IN  x87_end(emit_store_st(b, 0, v), 1)

\* Neither x87_begin nor x87_end: the status word is read from memory after
\* TOP and the deferred pushes (only those) have been written back.
translate_fstsw(j) ==
    LET b == IF j.run > 0 /\ j.gprs_valid
             THEN x87_flush_deferred_pushes(x87_flush_top(j)) ELSE j
    IN  Emit(b, OutSW(b.top, b.cc))

SwapPerm(j, i) ==
    [j EXCEPT !.perm[0] = j.perm[i], !.perm[i] = j.perm[0],
              !.perm_dirty = TRUE]
SwapSlots(j, i) ==
    [j EXCEPT !.st[j.wtop] = j.st[Phys(j.wtop, i)],
              !.st[Phys(j.wtop, i)] = j.st[j.wtop]]

\* Inside a run an exchange is recorded in the permutation.
translate_fxch(j, i) ==
    LET b == x87_begin(j)
    IN  x87_end(CASE i = 0 -> b
                  [] i # 0 /\ b.run > 0 /\ DeferFXCH -> SwapPerm(b, i)
                  [] OTHER -> SwapSlots(b, i), 1)

translate_fldcw(j, c) ==
    x87_end([x87_flush_top(x87_begin(j)) EXCEPT !.cw = c], 1)

translate_fnstcw(j) ==
    LET b == x87_begin(j) IN x87_end(Emit(b, OutCW(b.cw)), 1)

translate_fnop(j) == x87_end(x87_begin(j), 1)
\* Everything deferred is written back, then TOP follows the routine that
\* Rosetta is about to call.
runtime_keepalive_flush(j, delta) ==
    IF ~j.gprs_valid THEN j
    ELSE LET k == FlushAll(j)
         IN  [k EXCEPT !.wtop = CASE delta = -1 -> Down(@)
                                  [] delta = 1 -> Up(@)
                                  [] OTHER -> @]

(***************************************************************************)
(* TranslatorX87Fusion.cpp: one operator per try_fuse_*.  The net-zero     *)
(* fusions leave TOP dirty while a batch of pushes is pending.             *)
(***************************************************************************)
NetZeroFlush(j) ==
    IF j.npush > 0 /\ j.top_dirty THEN j ELSE x87_flush_top(j)

\* fld src; f<op>p ST(1).
try_fuse_fld_arithp(j, src, op) ==
    LET b == NetZeroFlush(x87_begin(j))
        r == Arith(op, emit_load_st(b, 0), emit_fld_value(b, src))
    IN  x87_end(emit_store_st(b, 0, r), 2)

\* fxch ST(1); f<op>p ST(1): the exchange is absorbed by the operand order,
\* its tick is borrowed while the arithmetic is translated.
try_fuse_fxch_arithp(j, op) ==
    LET b == IF j.run > 0 THEN [j EXCEPT !.run = @ - 1] ELSE j
        k == translate_arithp(b, Swapped(op), 1)
    IN  IF j.run > 0 /\ k.run > 0 THEN [k EXCEPT !.run = @ + 1] ELSE k

\* fld src; fstp m32 / m64.
try_fuse_fld_fstp(j, src) ==
    LET b == NetZeroFlush(x87_begin(j))
    IN  x87_end(Emit(b, OutVal(emit_fld_value(b, src))), 2)

\* fld src; fstp ST(1).
try_fuse_fld_fstp_reg(j, src) ==
    LET b == NetZeroFlush(x87_begin(j))
    IN  x87_end(emit_store_st(b, 0, emit_fld_value(b, src)), 2)

\* fxch ST(1); fstp ST(1) discards the old ST(1).
try_fuse_fxch_fstp(j) == x87_end(x87_pop(x87_flush_top(x87_begin(j))), 2)

\* fcom src; fstsw ax.  AX is patched with TOP after the pops.
try_fuse_fcom_fstsw(j, src, npop) ==
    LET b == x87_begin(j)
        r == Cmp(emit_load_st(b, 0), emit_fld_value(b, src))
        f == [x87_flush_top(b) EXCEPT !.cc = r]
        k == PopIf(f, npop)
        ax == OutSW(IF npop = 0 THEN f.top ELSE k.wtop, r)
    IN  x87_end(Emit(k, ax), 2)

\* fld src; f<op> y; fstp m, where y is memory or ST(1), the old ST(0).
FldArith(b, src, op, y) ==
    Arith(op, emit_fld_value(b, src), emit_fld_value(b, y))

try_fuse_fld_arith_fstp(j, src, op, y) ==
    LET b == NetZeroFlush(x87_begin(j))
    IN  x87_end(Emit(b, OutVal(FldArith(b, src, op, y))), 3)

\* The same with fstp ST(1).
try_fuse_fld_arith_fstp_reg(j, src, op, y) ==
    LET b == NetZeroFlush(x87_begin(j))
    IN  x87_end(emit_store_st(b, 0, FldArith(b, src, op, y)), 3)

\* fld src; f<op> y; f<op2>p ST(1).
try_fuse_fld_arith_arithp(j, src, op, y, op2) ==
    LET b == NetZeroFlush(x87_begin(j))
        r == Arith(op2, emit_load_st(b, 0), FldArith(b, src, op, y))
    IN  x87_end(emit_store_st(b, 0, r), 3)

\* fld src; fcomp ST(1).
try_fuse_fld_fcomp(j, src) ==
    LET b == NetZeroFlush(x87_begin(j))
        r == Cmp(emit_fld_value(b, src), emit_load_st(b, 0))
    IN  x87_end([b EXCEPT !.cc = r], 2)

\* fld src; fcomp y; fstsw ax: AX is the status word in memory, with the
\* new condition codes.
try_fuse_fld_fcomp_fstsw(j, src, y) ==
    LET b == NetZeroFlush(x87_begin(j))
        r == Cmp(emit_fld_value(b, src), emit_fld_value(b, y))
    IN  x87_end(Emit([b EXCEPT !.cc = r], OutSW(b.top, r)), 3)

\* fld src; fcompp; fstsw ax.
try_fuse_fld_fcompp_fstsw(j, src) ==
    LET b == x87_begin(j)
        r == Cmp(emit_fld_value(b, src), emit_load_st(b, 0))
        k == x87_pop([x87_flush_top(b) EXCEPT !.cc = r])
    IN  x87_end(Emit(k, OutSW(k.wtop, r)), 3)

\* fld s1; fld s2; fucompp [; fstsw ax].  Seen from the old TOP the second
\* load's ST(k) is ST(k - 1), and its ST(0) is the first value.
SecondFld(b, s1, s2) ==
    CASE s2.kind = "reg" /\ s2.d = 0 -> emit_fld_value(b, s1)
      [] s2.kind = "reg" /\ s2.d # 0 -> emit_load_st(b, s2.d - 1)
      [] OTHER -> s2.v

try_fuse_fld_fld_fucompp(j, s1, s2, has_fstsw) ==
    LET b == NetZeroFlush(x87_begin(j))
        r == Cmp(SecondFld(b, s1, s2), emit_fld_value(b, s1))
        k == [b EXCEPT !.cc = r]
    IN  IF has_fstsw THEN x87_end(Emit(k, OutSW(k.top, r)), 4)
        ELSE x87_end(k, 3)

\* f<op>p ST(1); fstp m.
try_fuse_arithp_fstp(j, op) ==
    LET b == x87_begin(j)
        r == Arith(op, emit_load_st(b, 1), emit_load_st(b, 0))
    IN  x87_end(x87_pop_n(Emit(b, OutVal(r)), 2), 2)

\* f<op> y; fstp m.
try_fuse_arith_fstp(j, op, y) ==
    LET b == x87_begin(j)
        r == Arith(op, emit_load_st(b, 0), emit_fld_value(b, y))
    IN  x87_end(x87_pop(Emit(b, OutVal(r))), 2)

\* fmul y; fadd(sub, subr)p ST(1), as one multiply-add.
try_fuse_arith_faddp(j, y, op) ==
    LET b == x87_begin(j)
        m == Arith("mul", emit_load_st(b, 0), emit_fld_value(b, y))
        r == Arith(op, emit_load_st(b, 1), m)
    IN  x87_end(x87_pop(emit_store_st(b, 1, r)), 2)

\* fstp m; fld src and fstp ST(i); fld src: the load replaces ST(0), and a
\* register operand is one deeper than the instruction says.
Deeper(src) == IF src.kind = "reg" THEN Reg(src.d + 1) ELSE src

try_fuse_fstp_fld(j, src) ==
    LET b == NetZeroFlush(x87_begin(j))
        o == Emit(b, OutVal(emit_load_st(b, 0)))
    IN  x87_end(emit_store_st(o, 0, emit_fld_value(o, Deeper(src))), 2)

try_fuse_fstp_reg_fld(j, i, src) ==
    LET b == NetZeroFlush(x87_begin(j))
        m == IF i = 0 THEN b ELSE emit_store_st(b, i, emit_load_st(b, 0))
    IN  x87_end(emit_store_st(m, 0, emit_fld_value(m, Deeper(src))), 2)
(***************************************************************************)
(* Translator::translate_instruction.  Entry is the cache when the next    *)
(* instruction is looked at: outside a run, lookahead picks a new one.     *)
(* Step ends it: c instructions were consumed, and the architectural       *)
(* machine executed the same ones from A, reaching a.                      *)
(***************************************************************************)
Entry == IF jit.run = 0 THEN {Quiet(set_run(jit, n)) : n \in 0..MaxRun}
         ELSE {Quiet(jit)}
A == Quiet(fpu)
Step(k, c, a) == jit' = tick(k, c) /\ fpu' = a

\* lookahead covers the instructions a fusion consumes, unless it is off
\* (run = 0) or the later ones are disabled one by one.
Fits(j, c) == j.run = 0 \/ j.run >= c \/ "fuse_disabled_op" \in Shapes

\* The program shapes outside the baseline.
\* - a push while TOP was written back in the middle of a batch of pushes;
PushOK(j) ==
    (j.npush > 0 => j.top_dirty) \/ "push_after_flush" \in Shapes
\* - fstsw as the last instruction of a run with pops or exchanges pending;
FstswOK(j) ==
    \/ j.run = 1 => j.npop = 0 /\ ~j.perm_dirty
    \/ "fstsw_ends_run" \in Shapes
\* - a net-zero fusion that reads the status word with pushes pending;
StatusOK(j) == ~(j.npush > 0 /\ j.top_dirty) \/ "sw_mid_batch" \in Shapes

Mem == [kind : {"val"}, v : Val]
Old == Mem \cup {Reg(0)}       \* memory, or ST(0) as it was before a load

(***************************************************************************)
(* The switch over opcodes, one action for each translate function.        *)
(***************************************************************************)
Fld == \E j \in Entry, src \in Src :
    /\ PushOK(j) /\ CanPush(A, 1) /\ Readable(A, src)
    /\ Step(translate_fld(j, src), 1, FLD(A, src))

FldM80 == \E j \in Entry, src \in Mem :
    /\ CanPush(A, 1)
    /\ Step(translate_fld_m80(j, src), 1, FLD(A, src))

Arithmetic == \E j \in Entry, op \in ArithOps, i \in Depth, src \in Src :
    /\ i = 0 \/ src = Reg(0)
    /\ InUse(A, i) /\ Readable(A, src)
    /\ Step(translate_arith(j, op, i, src), 1, FARITH(A, op, i, src))

ArithmeticPop == \E j \in Entry, op \in ArithOps, i \in Depth :
    /\ InUse(A, 0) /\ InUse(A, i)
    /\ Step(translate_arithp(j, op, i), 1, FARITHP(A, op, i))

Unary == \E j \in Entry, op \in {"chs", "abs", "sqrt"} :
    InUse(A, 0) /\ Step(translate_unary(j, op), 1, FUNARY(A, op))

Frndint == \E j \in Entry :
    InUse(A, 0) /\ Step(translate_frndint(j), 1, FRNDINT(A))

PopN(a, n) == CASE n = 0 -> a [] n = 1 -> Pop(a) [] OTHER -> Pop(Pop(a))

Fst == \E j \in Entry, n \in {0, 1} :
    InUse(A, 0) /\ Step(translate_fst(j, n), 1, PopN(FST(A), n))

\* In the baseline the guest does not use its flags after fstp m80.
FstM80 == \E j \in Entry, f \in CC :
    /\ InUse(A, 0)
    /\ Step(translate_fst_m80(j, f), 1,
            IF "m80_live_flags" \in Shapes THEN Pop(FST(A))
            ELSE [Pop(FST(A)) EXCEPT !.nzcv = f])

FstReg == \E j \in Entry, i \in Depth, n \in {0, 1} :
    /\ InUse(A, 0) /\ InUse(A, i)
    /\ Step(translate_fst_reg(j, i, n), 1, PopN(FSTReg(A, i), n))

Fist == \E j \in Entry, n \in {0, 1} :
    InUse(A, 0) /\ Step(translate_fist(j, n), 1, PopN(FIST(A), n))

Fisttp == \E j \in Entry :
    InUse(A, 0) /\ Step(translate_fisttp(j), 1, FISTTP(A))

Fcom == \E j \in Entry, src \in Src, n \in 0..2 :
    /\ n = 2 => src = Reg(1)
    /\ InUse(A, 0) /\ Readable(A, src)
    /\ Step(translate_fcom(j, src, n), 1, PopN(FCOM(A, src), n))

Ftst == \E j \in Entry : InUse(A, 0) /\ Step(translate_ftst(j), 1, FTST(A))

Fcomi == \E j \in Entry, i \in Depth, n \in {0, 1} :
    /\ InUse(A, 0) /\ InUse(A, i)
    /\ Step(translate_fcomi(j, i, n), 1, PopN(FCOMI(A, i), n))

Fcmov == \E j \in Entry, i \in Depth :
    /\ InUse(A, 0) /\ InUse(A, i)
    /\ Step(translate_fcmov(j, i), 1, FCMOV(A, i))

Fstsw == \E j \in Entry : FstswOK(j) /\ Step(translate_fstsw(j), 1, FSTSW(A))

Fxch == \E j \in Entry, i \in Depth :
    /\ InUse(A, 0) /\ InUse(A, i)
    /\ Step(translate_fxch(j, i), 1, FXCH(A, i))

Fldcw == \E j \in Entry, c \in CW :
    Step(translate_fldcw(j, c), 1, FLDCW(A, c))

Fnstcw == \E j \in Entry : Step(translate_fnstcw(j), 1, FNSTCW(A))

Fnop == \E j \in Entry : Step(translate_fnop(j), 1, A)
(***************************************************************************)
(* try_peephole: the fused sequences.  The architectural machine executes  *)
(* the instructions one after the other.                                   *)
(***************************************************************************)
FldArithp == \E j \in Entry, src \in Src, op \in ArithOps :
    /\ Fits(j, 2) /\ CanPush(A, 1) /\ Readable(A, src) /\ InUse(A, 0)
    /\ Step(try_fuse_fld_arithp(j, src, op), 2, FARITHP(FLD(A, src), op, 1))

FxchArithp == \E j \in Entry, op \in ArithOps :
    /\ Fits(j, 2) /\ InUse(A, 0) /\ InUse(A, 1)
    /\ Step(try_fuse_fxch_arithp(j, op), 2, FARITHP(FXCH(A, 1), op, 1))

FldFstp == \E j \in Entry, src \in Src :
    /\ Fits(j, 2) /\ CanPush(A, 1) /\ Readable(A, src)
    /\ Step(try_fuse_fld_fstp(j, src), 2, Pop(FST(FLD(A, src))))

FldFstpReg == \E j \in Entry, src \in Src :
    /\ Fits(j, 2) /\ CanPush(A, 1) /\ Readable(A, src) /\ InUse(A, 0)
    /\ Step(try_fuse_fld_fstp_reg(j, src), 2, Pop(FSTReg(FLD(A, src), 1)))

FxchFstp == \E j \in Entry :
    /\ Fits(j, 2) /\ InUse(A, 0) /\ InUse(A, 1)
    /\ Step(try_fuse_fxch_fstp(j), 2, Pop(FSTReg(FXCH(A, 1), 1)))

FcomFstsw == \E j \in Entry, src \in Src, n \in 0..2 :
    /\ n = 2 => src = Reg(1)
    /\ Fits(j, 2) /\ InUse(A, 0) /\ Readable(A, src)
    /\ Step(try_fuse_fcom_fstsw(j, src, n), 2, FSTSW(PopN(FCOM(A, src), n)))

FldArithFstp == \E j \in Entry, src \in Src, op \in ArithOps, y \in Old :
    /\ Fits(j, 3) /\ CanPush(A, 1) /\ Readable(A, src) /\ Readable(A, y)
    /\ Step(try_fuse_fld_arith_fstp(j, src, op, y), 3,
            Pop(FST(FARITH(FLD(A, src), op, 0, Deeper(y)))))

FldArithFstpReg == \E j \in Entry, src \in Src, op \in ArithOps, y \in Old :
    /\ Fits(j, 3) /\ CanPush(A, 1) /\ Readable(A, src) /\ InUse(A, 0)
    /\ Step(try_fuse_fld_arith_fstp_reg(j, src, op, y), 3,
            Pop(FSTReg(FARITH(FLD(A, src), op, 0, Deeper(y)), 1)))

FldArithArithp ==
  \E j \in Entry, src \in Src, op, op2 \in ArithOps, y \in Old :
    /\ Fits(j, 3) /\ CanPush(A, 1) /\ Readable(A, src) /\ InUse(A, 0)
    /\ Step(try_fuse_fld_arith_arithp(j, src, op, y, op2), 3,
            FARITHP(FARITH(FLD(A, src), op, 0, Deeper(y)), op2, 1))

FldFcomp == \E j \in Entry, src \in Src :
    /\ Fits(j, 2) /\ CanPush(A, 1) /\ Readable(A, src) /\ InUse(A, 0)
    /\ Step(try_fuse_fld_fcomp(j, src), 2, Pop(FCOM(FLD(A, src), Reg(1))))

FldFcompFstsw == \E j \in Entry, src \in Src, y \in Old :
    /\ Fits(j, 3) /\ StatusOK(j)
    /\ CanPush(A, 1) /\ Readable(A, src) /\ Readable(A, y)
    /\ Step(try_fuse_fld_fcomp_fstsw(j, src, y), 3,
            FSTSW(Pop(FCOM(FLD(A, src), Deeper(y)))))

FldFcomppFstsw == \E j \in Entry, src \in Src :
    /\ Fits(j, 3) /\ CanPush(A, 1) /\ Readable(A, src) /\ InUse(A, 0)
    /\ Step(try_fuse_fld_fcompp_fstsw(j, src), 3,
            FSTSW(PopN(FCOM(FLD(A, src), Reg(1)), 2)))

FldFldFucompp == \E j \in Entry, s1, s2 \in Src, sw \in BOOLEAN :
    /\ Fits(j, IF sw THEN 4 ELSE 3) /\ (sw => StatusOK(j))
    /\ CanPush(A, 2) /\ Readable(A, s1) /\ Readable(FLD(A, s1), s2)
    /\ LET a == PopN(FCOM(FLD(FLD(A, s1), s2), Reg(1)), 2)
       IN  Step(try_fuse_fld_fld_fucompp(j, s1, s2, sw),
                IF sw THEN 4 ELSE 3, IF sw THEN FSTSW(a) ELSE a)

ArithpFstp == \E j \in Entry, op \in ArithOps :
    /\ Fits(j, 2) /\ InUse(A, 0) /\ InUse(A, 1)
    /\ Step(try_fuse_arithp_fstp(j, op), 2, Pop(FST(FARITHP(A, op, 1))))

ArithFstp == \E j \in Entry, op \in ArithOps, y \in Src :
    /\ Fits(j, 2) /\ InUse(A, 0) /\ Readable(A, y)
    /\ Step(try_fuse_arith_fstp(j, op, y), 2, Pop(FST(FARITH(A, op, 0, y))))

ArithFaddp == \E j \in Entry, y \in Src, op \in {"add", "sub", "subr"} :
    /\ Fits(j, 2) /\ InUse(A, 0) /\ InUse(A, 1) /\ Readable(A, y)
    /\ Step(try_fuse_arith_faddp(j, y, op), 2,
            FARITHP(FARITH(A, "mul", 0, y), op, 1))

FstpFld == \E j \in Entry, src \in Src :
    /\ Fits(j, 2) /\ InUse(A, 0) /\ Readable(Pop(A), src)
    /\ Step(try_fuse_fstp_fld(j, src), 2, FLD(Pop(FST(A)), src))

FstpRegFld == \E j \in Entry, i \in Depth, src \in Src :
    /\ Fits(j, 2) /\ InUse(A, 0) /\ InUse(A, i) /\ Readable(Pop(A), src)
    /\ Step(try_fuse_fstp_reg_fld(j, i, src), 2, FLD(Pop(FSTReg(A, i)), src))

(***************************************************************************)
(* Instructions Rosetta translates itself.                                 *)
(***************************************************************************)
runtime_keepalive_top_delta(k) ==
    CASE k = "fsincos" -> -1 [] k = "fyl2x" -> 1 [] OTHER -> 0

\* A transcendental kept inside a run.
Keepalive == \E j \in Entry, k \in RuntimeOps :
    /\ j.run > 0 /\ RuntimeOK(A, k)
    /\ LET f == runtime_keepalive_flush(j, runtime_keepalive_top_delta(k))
       IN  Step(RuntimeOp(f, k), 1, RuntimeOp(A, k))

\* An integer instruction bridged by the run; it is never the last one.
Bridge == \E j \in Entry, f \in CC :
    /\ jit.run >= 2
    /\ Step([j EXCEPT !.nzcv = f], 1, [A EXCEPT !.nzcv = f])

\* An unsupported or disabled x87 instruction: the cache is invalidated and
\* Rosetta's runtime routine works on memory.
HandBack == \E k \in RuntimeOps :
    /\ jit.run = 0 /\ RuntimeOK(A, k)
    /\ jit' = RuntimeOp(invalidate(Quiet(jit)), k)
    /\ fpu' = RuntimeOp(A, k)

\* Any other instruction, or the next block.
Leave == \E f \in CC :
    /\ jit.run = 0
    /\ jit' = [invalidate(Quiet(jit)) EXCEPT !.nzcv = f]
    /\ fpu' = [A EXCEPT !.nzcv = f]

Init == \E c, f \in CC, w \in CW :
    /\ fpu = InitState(c, f, w)
    /\ jit = [top |-> 0, tag |-> [s \in Slot |-> FALSE],
              st |-> [s \in Slot |-> Zero], cc |-> c, cw |-> w, nzcv |-> f,
              out |-> NoOut, wtop |-> 0, gprs_valid |-> FALSE,
              top_dirty |-> FALSE, npush |-> 0, npop |-> 0,
              perm |-> IdPerm, perm_dirty |-> FALSE, run |-> 0]

Single == \/ Fld \/ FldM80 \/ Arithmetic \/ ArithmeticPop \/ Unary \/ Frndint
          \/ Fst \/ FstM80 \/ FstReg \/ Fist \/ Fisttp \/ Fcom \/ Ftst \/ Fcomi
          \/ Fcmov \/ Fstsw \/ Fxch \/ Fldcw \/ Fnstcw \/ Fnop
Fused == \/ FldArithp \/ FxchArithp \/ FldFstp \/ FldFstpReg \/ FxchFstp
         \/ FcomFstsw \/ FldArithFstp \/ FldArithFstpReg \/ FldArithArithp
         \/ FldFcomp \/ FldFcompFstsw \/ FldFcomppFstsw \/ FldFldFucompp
         \/ ArithpFstp \/ ArithFstp \/ ArithFaddp \/ FstpFld \/ FstpRegFld
Rosetta == Keepalive \/ Bridge \/ HandBack \/ Leave

Next == Single \/ Fused \/ Rosetta
Spec == Init /\ [][Next]_vars
(***************************************************************************)
(* What the cache stands for: the stack the guest would see if everything  *)
(* deferred were written back.  A register the guest cannot read counts as *)
(* Zero: the JIT does not clear a popped slot, the runtime does.           *)
(***************************************************************************)
Image(t, tags, vals, j) ==
    [top |-> t, tag |-> tags,
     st |-> [s \in Slot |-> IF tags[s] THEN vals[s] ELSE Zero],
     cc |-> j.cc, cw |-> j.cw, nzcv |-> j.nzcv, out |-> j.out]

Tags(b) ==
    [s \in Slot |-> \/ Dist(b.wtop, s) < b.npush
                    \/ Dist(b.wtop, s) < N - b.npop /\ b.tag[s]]
Vals(b) == [s \in Slot |-> emit_load_st(b, Dist(b.wtop, s))]

View(j) == LET b == x87_begin(j) IN Image(b.wtop, Tags(b), Vals(b), j)
MemoryImage(j) == Image(j.top, j.tag, j.st, j)

(***************************************************************************)
(* Properties.                                                             *)
(***************************************************************************)
\* Every field of the cache and of the X87State stays in its range: TOP is a
\* slot, no more than N pushes or pops are pending, the run is not negative.
TypeOK == jit \in JitState /\ fpu \in State

\* The deferral of x87_push, x87_pop, x87_pop_n and translate_fxch, through
\* every translate_* and try_fuse_*, is invisible: the X87State the cache
\* stands for, the guest's flags and whatever the last instruction stored
\* are those of a machine that executes each instruction at once.
Coherent == View(jit) = fpu

\* When no run is active, the X87State in memory is the guest's: x87_end has
\* written back TOP, the tags and the permutation before tick() forgets them.
MemoryCurrentAtRunEnd == jit.run = 0 => MemoryImage(jit) = fpu

\* The comments of x87_push and x87_pop: while TOP is dirty in a batch of
\* pushes, memory holds the TOP from before the batch; while it is not dirty,
\* memory is correct.
TopBaseline ==
    jit.run > 0 /\ jit.gprs_valid =>
        IF ~jit.top_dirty THEN jit.top = jit.wtop
        ELSE jit.npush > 0 => jit.top = Phys(jit.wtop, jit.npush)

\* x87_push flushes deferred pops and x87_pop cancels pushes first, so that a
\* tag update of either kind never overlaps one of the other; a pending push
\* is of a slot that memory still marks empty, a pending pop of one that
\* memory still marks in use.
TagsDisjoint ==
    /\ jit.npush = 0 \/ jit.npop = 0
    /\ \A s \in Slot :
         /\ Dist(jit.wtop, s) < jit.npush => ~jit.tag[s]
         /\ Dist(jit.wtop, s) >= N - jit.npop => jit.tag[s]

\* Outside a run nothing is deferred and no exchange is pending.
NothingDeferredOutsideRun ==
    jit.run = 0 => /\ ~jit.gprs_valid /\ ~jit.top_dirty /\ ~jit.perm_dirty
                   /\ jit.npush = 0 /\ jit.npop = 0 /\ jit.perm = IdPerm

\* Consuming the last instruction of a run, a fusion included, writes back the
\* dirty TOP: the borrowed tick of fxch_arithp does not lose it.
TopCurrentAtRunEnd == jit.run = 0 => jit.top = fpu.top
=============================================================================
