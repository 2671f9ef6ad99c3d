--------------------------- MODULE X87CompileRun ---------------------------
(***************************************************************************)
(* X87IR::compile_run: build, optimise, gate on register pressure, plan,   *)
(* and lower, for one run of guest instructions entered with whatever the  *)
(* X87Cache has deferred.  `guest` executes the same instructions one by   *)
(* one; the run is right when the code it became leaves what `guest` left. *)
(***************************************************************************)
EXTENDS X87IRLower
LOCAL INSTANCE SequencesExt
LOCAL INSTANCE FiniteSetsExt

CONSTANT
    Suites          \* by name: the entry states, the instructions and the longest
                    \* length of the runs, the opcodes a run holds at most one of,
                    \* and what may follow a run, as classes of instructions

\* A stack register is named by its depth, an operation by its mnemonic; a
\* memory operand has 32 or 64 bits (the builder leaves m80 to others).
Operands(in) ==
    /\ in.i \in Depth /\ in.j \in Depth /\ in.m.w \in 0..2
    /\ in.op \in {"farith", "fiarith", "farithp"} => in.k \in BinOps \cup {"subr", "divr"}
ASSUME SuitesAssumption ==
    \A x \in DOMAIN Suites :
        /\ Suites[x].len \in Nat
        /\ \A y \in Suites[x].entries : y.perm \in [Depth -> Depth]
        /\ \A in \in Suites[x].instrs : Operands(in)

VARIABLES
    suite,          \* the kind of run this is
    phase,          \* "build", "optimize", "lower", "done" or "declined"
    e,              \* how the run was entered
    guest,          \* the guest after the instructions consumed so far
    ctx,            \* X87IR::Context
    pc,             \* the pass, then the node, that comes next
    plan,           \* what was decided before lowering
    h,              \* the host while the emitted code runs
    after,          \* the instructions after the run
    seen            \* the opcodes of `once` the run already holds
vars == <<suite, phase, e, guest, ctx, pc, plan, h, after, seen>>
NoPlan == [bases |-> << >>]

Init ==
    /\ suite \in DOMAIN Suites /\ e \in Suites[suite].entries
    /\ phase = "build" /\ pc = 1 /\ plan = NoPlan /\ h = [starved |-> FALSE, gprs |-> 0]
    /\ guest = e.g /\ ctx = fold_perm(InitContext, e.perm) /\ after = << >> /\ seen = {}

\* An instruction joins the run, or ends it when the builder cannot take it.
Build(in) ==
    LET new == build_instr(ctx, e.g, in)
    IN  /\ phase = "build" /\ ctx.consumed < Suites[suite].len /\ Legal(guest, in)
        /\ in.op \notin seen
        /\ IF new.ok
           THEN /\ ctx' = [new EXCEPT !.consumed = @ + 1]
                /\ guest' = Exec(guest, in) /\ seen' = (seen \cup {in.op}) \cap Suites[suite].once
                /\ phase' = phase
           ELSE /\ ctx' = [new EXCEPT !.ok = TRUE] /\ UNCHANGED <<guest, seen>>
                /\ phase' = IF ctx.consumed >= 2 THEN "optimize" ELSE "declined"
        /\ UNCHANGED <<suite, e, pc, plan, h, after>>
EndOfRun ==
    /\ phase = "build" /\ ctx.consumed > 0
    /\ phase' = IF ctx.consumed >= 2 THEN "optimize" ELSE "declined"
    /\ UNCHANGED <<suite, e, guest, ctx, pc, plan, h, after, seen>>

Optimize ==
    /\ phase = "optimize" /\ pc <= Len(Passes)
    /\ ctx' = optimize(ctx, Passes[pc]) /\ pc' = pc + 1
    /\ UNCHANGED <<suite, phase, e, guest, plan, h, after, seen>>

\* Pressure gates, then the base plan cut down to the registers left.
Gate(s) ==
    LET dead == nzcv_dead_after_run(s)
        peak == peak_live_gprs(e, ctx, dead)
        bases == plan_addr_cache(ctx)
        fit == {k \in 0..Len(bases) : peak + k <= GprAvailable(e)}
        used == SubSeq(bases, 1, Max(fit))
        p == compute_pairs(ctx, ToSet(used))
        decided == [bases |-> used, with |-> p.with, pairskip |-> p.skip,
                    last |-> LastUse(ctx, p), rc |-> rc_cached(ctx),
                    skip |-> nzcv_skip(ctx, dead), hoist |-> nzcv_hoist(ctx, dead),
                    lastcmp |-> IF Compares(ctx) = {} THEN NoNode ELSE Max(Compares(ctx))]
    IN  /\ phase = "optimize" /\ pc > Len(Passes)
        /\ after' = s
        /\ IF peak_live_fprs(ctx) > FprPool \/ peak > GprAvailable(e)
           THEN phase' = "declined" /\ UNCHANGED <<plan, h, pc>>
           ELSE /\ phase' = "lower" /\ plan' = decided /\ pc' = 0
                /\ h' = StartLower(e, ctx, decided)
        /\ UNCHANGED <<suite, e, guest, ctx, seen>>

LowerNode ==
    /\ phase = "lower" /\ pc < Len(ctx.nodes)
    /\ h' = LowerOne(h, e, ctx, plan, pc) /\ pc' = pc + 1
    /\ UNCHANGED <<suite, phase, e, guest, ctx, plan, after, seen>>
Finish ==
    /\ phase = "lower" /\ pc = Len(ctx.nodes)
    /\ h' = [h EXCEPT !.g = epilogue(e, ctx, @, Top(h),
                  [id \in {x \in Ids(ctx) : h.nf[x] >= 0} |-> Fpr(h, id)])]
    /\ phase' = "done"
    /\ UNCHANGED <<suite, e, guest, ctx, pc, plan, after, seen>>

Next == \/ \E in \in Suites[suite].instrs : Build(in)
        \/ EndOfRun \/ Optimize
        \/ \E s \in Suites[suite].after : Gate(s)
        \/ LowerNode \/ Finish
Spec == Init /\ [][Next]_vars

(***************************************************************************)
(* Properties.                                                             *)
(***************************************************************************)
\* What the guest can tell of two machines: registers in use, not the rest.
SameFpu(a, b) ==
    /\ a.top = b.top /\ a.tag = b.tag /\ a.cc = b.cc /\ a.cw = b.cw
    /\ \A s \in Slot : a.tag[s] => a.st[s] = b.st[s]
SameGuest(a, b) == SameFpu(a.fpu, b.fpu) /\ a.mem = b.mem /\ a.reg = b.reg

\* The context and the counters have the shape the code relies on: nodes
\* within kMaxNodes, slots name nodes, initial depths or popped entries, the
\* plan and the host registers exist once lowering starts.
TypeOK ==
    /\ phase \in {"build", "optimize", "lower", "done", "declined"}
    /\ Len(ctx.nodes) <= MaxNodes /\ ctx.consumed \in 0..Suites[suite].len
    /\ \A d \in Depth : ctx.slot[d] \in Ids(ctx) \cup {-(k + 1) : k \in Depth} \cup {Popped}
    /\ phase \in {"lower", "done"} =>
          /\ h.free \subseteq 0..(FprPool - 1)
          /\ \A i \in Ids(ctx) : h.nf[i] \in {NoReg} \cup 0..(FprPool - 1)

\* While the run is built, and after every optimisation pass, the nodes of
\* the context and the epilogue do what the instructions consumed so far do:
\* build_* with its load table and constant promotion, const_arith, fneg_fold,
\* fma, f32 narrowing and dse never change what the guest sees.
MeaningKept == phase \in {"build", "optimize"} => SameGuest(Meaning(e, ctx), guest)

\* The code X87IR::lower emits - with reused registers, paired accesses, cached
\* bases, a cached rounding mode, hoisted flags and the TOP = 0 copy - leaves
\* the guest as its instructions one by one would, flags included unless no
\* instruction after the run reads them.
FlagsLive(s) ==
    \A i \in DOMAIN s : s[i] \in {"def", "shift_imm"} => \E j \in 1..(i - 1) : s[j] = "reader"
LoweredRight ==
    phase = "done" => /\ SameGuest(h.g, guest)
                      /\ FlagsLive(after) => h.g.fpu.nzcv = guest.fpu.nzcv

\* alloc_free_fpr and alloc_free_gpr assert that a register is left:
\* peak_live_fprs and peak_live_gprs must never let a run through that needs
\* more registers than the pool has.
FprPoolSuffices == ~h.starved
GprPoolSuffices == h.gprs <= GprAvailable(e)

\* Every node a live node or a stack slot uses is alive and computed before,
\* in the width it is used in: a pass that kills, moves or narrows a value
\* rewires all its uses (FSTSW's inputs are a destination and a depth).
IsF32(n) == n.op \in {"LoadF32Raw", "CvtF64ToF32", "ConstZero"} \/ n.f32
WantsF32(n, j) == n.f32 \/ n.op \in {"CvtF32ToF64", "StoreF32Raw"}
UsesAlive ==
    phase \in {"build", "optimize", "lower"} =>
      /\ \A i \in LiveNodes(ctx), j \in 1..3 :
            LET n == Nd(ctx, i)
            IN  n.in[j] >= 0 /\ n.op # "FStsw" =>
                  /\ n.in[j] < i /\ Live(ctx, n.in[j])
                  /\ WantsF32(n, j) => IsF32(Nd(ctx, n.in[j]))
                  /\ ~WantsF32(n, j) => ~IsF32(Nd(ctx, n.in[j])) \/ Nd(ctx, n.in[j]).op = "ConstZero"
      /\ \A d \in Depth : ctx.slot[d] >= 0 => Live(ctx, ctx.slot[d])

\* A pass keeps every store, flag write, control-word access and guest move
\* where it is and with its operand; only a compare may go, and then another
\* compare follows it before the next FSTSW.
EffectsOf(c) ==
    LET kept == {x \in DOMAIN c.nodes : /\ ~c.nodes[x].dead /\ ~IsCompare(c.nodes[x])
                                        /\ c.nodes[x].op \in SideEffects}
    IN  [x \in kept |-> <<c.nodes[x].op, c.nodes[x].m>>]
FollowedBy(c, i, j) ==
    j >= i /\ \A l \in LiveNodes(c) : i < l /\ l < j => Nd(c, l).op # "FStsw"
EffectsKept ==
    [][phase = "optimize" =>
          /\ EffectsOf(ctx') = EffectsOf(ctx)
          /\ \A i \in Compares(ctx) : \E j \in Compares(ctx') : FollowedBy(ctx, i, j)]_vars
=============================================================================
