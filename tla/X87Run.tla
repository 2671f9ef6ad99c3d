------------------------------- MODULE X87Run -------------------------------
(***************************************************************************)
(* Translator::translate_instruction as it manages registers: runs of x87  *)
(* instructions found by lookahead, integer instructions bridged inside    *)
(* them, runtime routines kept inside them, and the scratch GPRs that the  *)
(* X87Cache pins in between: three for the x87 state, up to two more for   *)
(* base addresses and the rounding mode that one compiled run leaves to    *)
(* the next.                                                               *)
(*                                                                         *)
(* The generated code is straight-line, so translating in order is also    *)
(* executing in order: `val` is what each scratch GPR holds at that point  *)
(* of the generated code.  `owed` says that TOP, tags or an exchange have  *)
(* not been written to memory yet (X87Deferred says what exactly).         *)
(***************************************************************************)
EXTENDS X87Bridge

CONSTANTS
    Config,         \* the options that are on
    Disabled,       \* x87 opcodes disabled by the configuration
    MaxBridgeGap,   \* kMaxBridgeGap
    Blocks,         \* sets of blocks of instructions
    Transients      \* GPRs a compiled run may need beyond the ones it keeps

MaxBridgeDemand == 4        \* kMaxBridgeDemand
CarrySlots == 1..2          \* kMaxCarried
AddrSlots == 3              \* kAddrCacheSlots
Scratch == 0..7             \* x22..x29
X87Pins == {0, 1, 6}        \* base, TOP and register file address
TmpGpr == 2                 \* Wd_tmp
TlsGpr == 7                 \* x29, taken by number for GS operands
CallClobbers == {5, 7}      \* x27, x29
SinglePeak == 5             \* Wd_tmp and emit_fcom_cc_pack

\* Blocks are finite.
ASSUME BlocksAssumption == \A bs \in Blocks : \A b \in bs : Len(b) \in Nat
ASSUME TransientsAssumption == Transients \subseteq Nat
ASSUME GapAssumption == MaxBridgeGap \in Nat

NoGpr == -1
NoKey == [base |-> NoGuestReg, index |-> NoGuestReg, a32 |-> FALSE]
Tagged(s) == [base |-> s, index |-> s, a32 |-> FALSE]
Junk == Tagged("junk")          \* what a scratch GPR may hold, besides the
X87Val == Tagged("x87")         \* address a key stands for
RcVal == Tagged("rc")
Empty == [key |-> NoKey, gpr |-> NoGpr]

VARIABLES
    code, idx,      \* the block and the instruction to translate
    prev,           \* cache.prev_block is this block
    rem,            \* run_remaining
    valid,          \* gprs_valid
    base, rc,       \* carried_base, carried_rc_gpr
    free,           \* free_gpr_mask
    val,            \* what the scratch GPRs hold
    owed,           \* deferred work that memory does not have
    turn,           \* "ours", or "rosetta" translating code[idx]
    short           \* an allocation found no register
vars == <<code, idx, prev, rem, valid, base, rc, free, val, owed, turn, short>>

(***************************************************************************)
(* Instructions.                                                           *)
(***************************************************************************)
Handled == {"fld", "fstp", "fadd", "fistp", "fldcw", "fstsw"}
\* Only opcodes with a translation can be disabled (opcode_to_id_local).
ASSUME DisabledAssumption == Disabled \subseteq Handled
Rounders == {"fistp"}
KeepaliveDelta == [f \in {"fsin", "fptan", "fpatan"} |->
                    CASE f = "fsin" -> 0 [] f = "fptan" -> -1 [] f = "fpatan" -> 1]
IsKeepalive(in) == in.op \in DOMAIN KeepaliveDelta
Inlined == {"mov", "lea", "movzx", "nop"}       \* transparent_int

run_member(in) ==
    IF in.op \in Handled THEN in.op \notin Disabled
    ELSE "runtime_keepalive" \in Config /\ IsKeepalive(in)
\* The instruction can be crossed inside a run.
Bridgeable(in) ==
    /\ in.op \notin Handled /\ ~IsKeepalive(in)
    /\ gap_gpr_demand(in) \in 0..MaxBridgeDemand
Writes(in) ==
    IF in.op = "fstsw" THEN {"ax"} ELSE IF in.op \in Handled THEN {} ELSE GuestWrites(in)

\* A stretch of c from i that starts and ends with a member and
\* crosses nothing but short gaps of bridgeable instructions.
IsRun(c, i, n) ==
    /\ n > 0 => run_member(c[i]) /\ run_member(c[i + n - 1])
    /\ \A k \in i..(i + n - 1) :
          \/ run_member(c[k])
          \/ /\ "run_bridge" \in Config /\ Bridgeable(c[k])
             /\ \E m \in i..(k - 1) : run_member(c[m]) /\ k - m <= MaxBridgeGap
IsLongestRun(c, i, n) ==
    /\ n \in 0..(Len(c) - i + 1) /\ IsRun(c, i, n)
    /\ \A m \in (n + 1)..(Len(c) - i + 1) : ~IsRun(c, i, m)

\* How the code finds it: groups of members, and gaps that land on a member.
MemberPlaces(c) == {k \in 1..Len(c) : run_member(c[k])}
GapPlaces(c) == {k \in 1..Len(c) : Bridgeable(c[k])}
\* How many places in a row are in S, from each place on.
Stretch(c, S) ==
    LET f[k \in 1..(Len(c) + 1)] == IF k \in S THEN 1 + f[k + 1] ELSE 0 IN f
\* The gap at j, no further than it may be bridged.
GapWidth(c, j) ==
    LET n == Stretch(c, GapPlaces(c))[j] IN IF n <= MaxBridgeGap THEN n ELSE MaxBridgeGap
\* The run goes on behind the gap at j.
GoesOn(c, j) ==
    "run_bridge" \in Config /\ GapWidth(c, j) > 0 /\ j + GapWidth(c, j) \in MemberPlaces(c)
ScanFrom(c) ==
    LET scan[k \in 1..(Len(c) + 1)] ==
            LET g == Stretch(c, MemberPlaces(c))[k]
                w == GapWidth(c, k + g)
            IN  IF g = 0 \/ ~GoesOn(c, k + g) THEN g ELSE g + w + scan[k + g + w]
    IN  scan
MUT_lookahead(c, i) ==
    IF i \in MemberPlaces(c) THEN Stretch(c, MemberPlaces(c) \cup GapPlaces(c))[i] ELSE 0
lookahead(c, i) == ScanFrom(c)[i]

(***************************************************************************)
(* X87Cache.                                                               *)
(***************************************************************************)
NoBases == [s \in CarrySlots |-> Empty]
Uses(key, regs) == key.base \in regs \/ key.index \in regs
CarriedGprs(b, r) == ({b[s].gpr : s \in CarrySlots} \cup {r}) \ {NoGpr}
pinned_mask(v, b, r) == (IF v THEN X87Pins ELSE {}) \cup CarriedGprs(b, r)
MUT_carried_drop_written(b, regs) ==
    [s \in CarrySlots |-> IF b[s].key.base \in regs THEN Empty ELSE b[s]]
carried_drop_written(b, regs) ==
    [s \in CarrySlots |-> IF Uses(b[s].key, regs) THEN Empty ELSE b[s]]

\* The cache when an instruction is looked at: a new block forgets, and
\* without a run one is looked for.
Entered(n) ==
    IF prev /\ rem > 0 THEN n = rem
    ELSE \E l \in 0..(Len(code) - idx + 1) :
            /\ IsLongestRun(code, idx, l)
            /\ n = IF l >= 2 /\ "disable_x87_cache" \notin Config THEN l ELSE 0
EntryValid == prev /\ valid
EntryBase == IF prev THEN base ELSE NoBases
EntryRc == IF prev THEN rc ELSE NoGpr
EntryFree(n) ==
    (IF prev THEN free ELSE Scratch)
        \ (IF n > 0 THEN pinned_mask(EntryValid, EntryBase, EntryRc) ELSE {})

\* tick, k times, and the mask that goes with it.
Keep(n, k, v, b, r) ==
    LET on == n > k IN
    /\ rem' = IF on THEN n - k ELSE 0
    /\ valid' = (on /\ v)
    /\ base' = IF on THEN b ELSE NoBases
    /\ rc' = IF on THEN r ELSE NoGpr
    /\ free' = Scratch \ (IF on THEN pinned_mask(v, b, r) ELSE {})
Forget ==
    /\ rem' = 0 /\ valid' = FALSE /\ base' = NoBases /\ rc' = NoGpr /\ free' = Scratch

(***************************************************************************)
(* A compiled run (X87IR::compile_run, lower) of k instructions, as far as *)
(* it concerns the pool: t is what its nodes need beyond what it keeps.    *)
(* compile_run may always decline, and the instruction is then translated  *)
(* by itself.                                                              *)
(***************************************************************************)
Members(k) == idx..(idx + k - 1)
CanCompile(k) ==
    \A j \in Members(k) : \/ code[j].op \in Handled
                          \/ "transparent_int" \in Config /\ code[j].op \in Inlined
MemOf(in) == {i \in DOMAIN in.o : in.o[i].kind = "mem"}
KeyOf(o) == [base |-> o.base, index |-> o.index, a32 |-> o.a32]
KeysOf(in) == {KeyOf(in.o[i]) : i \in MemOf(in)}
\* An address that is a 64-bit guest register itself takes no register.
Direct(key) == ~key.a32 /\ key.index = NoGuestReg
guest_written_mask(k) ==
    UNION {Named(code[j], 1) : j \in {x \in Members(k) : code[x].op \in Inlined}}
RunWrites(k) ==
    guest_written_mask(k) \cup IF \E j \in Members(k) : code[j].op = "fstsw" THEN {"ax"} ELSE {}
plan_addr_cache(k) ==
    IF \E j \in Members(k) : \E i \in MemOf(code[j]) : code[j].o[i].seg THEN {}
    ELSE {key \in UNION {KeysOf(code[j]) : j \in Members(k)} :
            /\ ~Direct(key) /\ ~Uses(key, RunWrites(k))
            /\ \E j, m \in Members(k) : j # m /\ key \in KeysOf(code[j]) /\ key \in KeysOf(code[m])}
rc_cached(k) == \E j, m \in Members(k) : j # m /\ {code[j].op, code[m].op} \subseteq Rounders

Hit(b, key) == \E s \in CarrySlots : b[s].gpr # NoGpr /\ b[s].key = key
GprOf(b, key) == b[CHOOSE s \in CarrySlots : b[s].gpr # NoGpr /\ b[s].key = key].gpr
LowestOf(S) == CHOOSE g \in S : \A x \in S : g <= x

peak_live_gprs(k, t) ==
    (IF EntryValid THEN 1 ELSE 4) + (IF rc_cached(k) THEN 1 ELSE 0) + t
\* Carried registers are given up when the run does not fit beside them.
Crowded(n, k, t) == peak_live_gprs(k, t) > Cardinality(EntryFree(n))
PoolFor(n, k, t) ==
    EntryFree(n) \cup IF Crowded(n, k, t) THEN CarriedGprs(EntryBase, EntryRc) ELSE {}
BasesFor(n, k, t) == IF Crowded(n, k, t) THEN NoBases ELSE EntryBase
RcFor(n, k, t) == IF Crowded(n, k, t) THEN NoGpr ELSE EntryRc
MUT_FixedGprs == IF EntryValid THEN {} ELSE X87Pins
FixedGprs == {TmpGpr} \cup IF EntryValid THEN {} ELSE X87Pins

\* A register for each planned base that is not carried, then one for RC.
Assignments(pool, new) ==
    {a \in [new -> pool] : \A x, y \in new : a[x] = a[y] => x = y}
\* Where a planned base is, and the bases of this run that may be carried on.
AtGpr(b, a, key) == IF key \in DOMAIN a THEN a[key] ELSE GprOf(b, key)
Mine(b, a, plan) ==
    {[key |-> key, gpr |-> AtGpr(b, a, key)] : key \in {x \in plan : AtGpr(b, a, x) # TlsGpr}}
RcGpr(k, r, pool) ==
    IF r # NoGpr THEN r ELSE IF rc_cached(k) /\ pool # {} THEN LowestOf(pool) ELSE NoGpr

\* What is carried on: this run's bases first, then older ones still good.
OldBases(b, k) ==
    {b[s] : s \in {x \in CarrySlots : b[x].gpr # NoGpr /\ ~Uses(b[x].key, RunWrites(k))}}
Carry(nb, planned, old) ==
    /\ nb \in [CarrySlots -> planned \cup old \cup {Empty}]
    /\ nb[1].gpr = nb[2].gpr => nb[1] = Empty
    /\ nb[1] = Empty => nb[2] = Empty
    /\ nb[2] = Empty => planned \cup old \subseteq {nb[1], Empty}
    /\ (\E s \in CarrySlots : nb[s] \in old \ planned) => planned \subseteq {nb[1], nb[2]}

\* What the registers carried on hold: an address whose registers the run really
\* writes is junk.
Held(nb, new, k, g) ==
    LET s == CHOOSE x \in CarrySlots : nb[x].gpr = g
    IN  IF Uses(nb[s].key, UNION {Writes(code[j]) : j \in Members(k)}) THEN Junk
        ELSE IF nb[s].key \in new THEN nb[s].key ELSE val[g]
HeldRc(k, r, g) ==
    IF r = g /\ ~(\E j \in Members(k) : code[j].op = "fldcw") THEN val[g] ELSE RcVal

CompileRun(n, k, t) ==
    LET b == BasesFor(n, k, t)
        r == RcFor(n, k, t)
        pool == PoolFor(n, k, t)
        rest == pool \ FixedGprs
        peak == peak_live_gprs(k, t)
        on == "bridge_carry" \in Config /\ n > k
    IN  /\ "disable_x87_ir" \notin Config
        /\ n >= 2 /\ k \in 2..n /\ CanCompile(k) /\ peak <= Cardinality(pool)
        /\ \E plan \in SUBSET plan_addr_cache(k) :
           LET new == {key \in plan : ~Hit(b, key)} IN
           /\ Cardinality(plan) <= AddrSlots /\ peak + Cardinality(new) <= Cardinality(pool)
           /\ \E a \in Assignments(rest, new) :
              LET left == rest \ {a[key] : key \in new}
                  w == RcGpr(k, r, left)
                  mine == Mine(b, a, plan)
              IN  \E nb \in [CarrySlots -> mine \cup OldBases(b, k) \cup {Empty}] :
                  LET nr == IF on /\ nb[2] = Empty /\ w # TlsGpr THEN w ELSE NoGpr IN
                  /\ IF on THEN Carry(nb, mine, OldBases(b, k)) ELSE nb = NoBases
                  /\ Keep(n, k, TRUE, nb, nr)
                  /\ short' = (\/ ~(FixedGprs \subseteq pool)
                               \/ Cardinality(left \ {w}) < t)
                  /\ val' = [g \in Scratch |->
                        IF n <= k THEN Junk
                        ELSE IF g \in X87Pins THEN X87Val
                        ELSE IF g \in CarriedGprs(nb, NoGpr) THEN Held(nb, new, k, g)
                        ELSE IF g = nr THEN HeldRc(k, r, g) ELSE Junk]
        /\ owed' = FALSE /\ idx' = idx + k /\ turn' = "ours"

(***************************************************************************)
(* One instruction, or a fused pair, by itself.                            *)
(***************************************************************************)
MUT_Single(n, k) ==
    /\ k \in 1..2 /\ idx + k - 1 <= Len(code)
    /\ \A j \in Members(k) : code[j].op \in Handled
    /\ code[idx].op \notin Disabled
    /\ \E v \in {EntryValid, TRUE} :
        /\ Keep(n, k, v, EntryBase, EntryRc)
        /\ val' = [g \in Scratch |-> IF g \in X87Pins /\ n > k /\ v THEN X87Val ELSE Junk]
    /\ owed' \in BOOLEAN /\ (n <= k => ~owed')
    /\ short' = FALSE
    /\ idx' = idx + k /\ turn' = "ours"
Single(n, k) ==
    LET pool == EntryFree(n) \cup CarriedGprs(EntryBase, EntryRc)
        fixed == IF EntryValid THEN {} ELSE X87Pins
    IN  /\ k \in 1..2 /\ idx + k - 1 <= Len(code)
        /\ \A j \in Members(k) : code[j].op \in Handled
        /\ code[idx].op \notin Disabled
        /\ \E v \in {EntryValid, TRUE} :
            /\ Keep(n, k, v, NoBases, NoGpr)
            /\ val' = [g \in Scratch |-> IF g \in X87Pins /\ n > k /\ v THEN X87Val ELSE Junk]
        /\ owed' \in BOOLEAN /\ (n <= k => ~owed')
        /\ short' = (Cardinality(pool \ fixed) < SinglePeak)
        /\ idx' = idx + k /\ turn' = "ours"

(***************************************************************************)
(* Instructions handed back to Rosetta.                                    *)
(***************************************************************************)
MUT_Keepalive(n) ==
    /\ n > 0 /\ "runtime_keepalive" \in Config /\ IsKeepalive(code[idx])
    /\ Keep(n, 1, EntryValid, NoBases, NoGpr)
    /\ turn' = "rosetta" /\ UNCHANGED <<idx, val, owed, short>>
Keepalive(n) ==
    /\ n > 0 /\ "runtime_keepalive" \in Config /\ IsKeepalive(code[idx])
    /\ Keep(n, 1, EntryValid, NoBases, NoGpr)
    /\ owed' = FALSE /\ turn' = "rosetta" /\ UNCHANGED <<idx, val, short>>

\* Bases the gap rewrites are dropped; all carried registers are given up
\* when they would leave Rosetta no register to spare.  A compile_run that
\* starts at the gap and declines may have given them up before (lost).
MUT_Tight(need, pins) == Cardinality(Scratch \ pins) < need
Tight(need, pins) == Cardinality(Scratch \ pins) <= need
Bridge(n, lost) ==
    LET in == code[idx]
        kept == carried_drop_written(EntryBase, gap_written_gpr_mask(in))
        tight == lost \/ Tight(gap_gpr_demand(in), pinned_mask(EntryValid, kept, EntryRc))
    IN  /\ n > 0 /\ "run_bridge" \in Config /\ Bridgeable(in)
        /\ lost => n >= 2 /\ "transparent_int" \in Config /\ in.op \in Inlined
        /\ Keep(n, 1, EntryValid, IF tight THEN NoBases ELSE kept,
                IF tight THEN NoGpr ELSE EntryRc)
        /\ turn' = "rosetta" /\ UNCHANGED <<idx, val, owed, short>>

HandBack(n) ==
    /\ \/ code[idx].op \in Disabled
       \/ /\ code[idx].op \notin Handled
          /\ ~(n > 0 /\ "runtime_keepalive" \in Config /\ IsKeepalive(code[idx]))
          /\ ~(n > 0 /\ "run_bridge" \in Config /\ Bridgeable(code[idx]))
    /\ Forget
    /\ turn' = "rosetta" /\ UNCHANGED <<idx, val, owed, short>>

Translate ==
    /\ turn = "ours" /\ idx <= Len(code)
    /\ \E n \in 0..Len(code) :
          /\ Entered(n)
          /\ \/ \E k \in 2..n, t \in Transients : CompileRun(n, k, t)
             \/ \E k \in 1..2 : Single(n, k)
             \/ \E lost \in BOOLEAN : Bridge(n, lost)
             \/ Keepalive(n) \/ HandBack(n)
    /\ prev' = TRUE /\ UNCHANGED code

\* Rosetta's own translation takes registers from the mask it finds, and may
\* leave the mask as it was or reset it.
Rosetta ==
    LET in == code[idx]
        lost == free \cup IF IsKeepalive(in) THEN CallClobbers ELSE {}
    IN  /\ turn = "rosetta"
        /\ val' = [g \in Scratch |->
                    IF g \in lost \/ Uses(val[g], Writes(in)) THEN Junk ELSE val[g]]
        /\ short' = (rem > 0 /\ Bridgeable(in) /\ Cardinality(free) <= gap_gpr_demand(in))
        /\ free' \in {free, Scratch}
        /\ idx' = idx + 1 /\ turn' = "ours"
        /\ UNCHANGED <<code, prev, rem, valid, base, rc, owed>>

\* The block is done; another one is entered, from code that leaves anything in
\* the scratch registers.
LeaveBlock ==
    /\ turn = "ours" /\ idx > Len(code) /\ code # << >>
    /\ code' = << >> /\ idx' = 1 /\ val' = [g \in Scratch |-> Junk]
    /\ UNCHANGED <<prev, rem, valid, base, rc, free, owed, turn, short>>
EnterBlock ==
    /\ code = << >>
    /\ \E bs \in Blocks : code' \in bs
    /\ prev' = FALSE
    /\ UNCHANGED <<idx, rem, valid, base, rc, free, val, owed, turn, short>>

Init ==
    /\ code = << >> /\ idx = 1 /\ prev = FALSE
    /\ rem = 0 /\ valid = FALSE /\ base = NoBases /\ rc = NoGpr /\ free = Scratch
    /\ val = [g \in Scratch |-> Junk] /\ owed = FALSE /\ turn = "ours" /\ short = FALSE

Next == Translate \/ Rosetta \/ LeaveBlock \/ EnterBlock
Spec == Init /\ [][Next]_vars

(***************************************************************************)
(* Properties.                                                             *)
(***************************************************************************)
\* What a scratch register may be kept for or hold.
Keys ==
    {NoKey, Junk, X87Val, RcVal}
        \cup UNION {UNION {UNION {KeysOf(b[j]) : j \in 1..Len(b)} : b \in bs} : bs \in Blocks}
\* The cache and the masks have their types; a carried register is a scratch
\* register that no translation takes by number.
TypeOK ==
    /\ idx \in Nat \ {0} /\ rem \in Nat
    /\ prev \in BOOLEAN /\ valid \in BOOLEAN /\ owed \in BOOLEAN /\ short \in BOOLEAN
    /\ turn \in {"ours", "rosetta"}
    /\ free \subseteq Scratch /\ val \in [Scratch -> Keys]
    /\ base \in [CarrySlots -> [key : Keys, gpr : {NoGpr} \cup Scratch]]
    /\ rc \in {NoGpr} \cup Scratch
    /\ CarriedGprs(base, rc) \cap (X87Pins \cup {TmpGpr, TlsGpr}) = {}

\* A pinned register still holds what the next compiled run takes it for: the
\* x87 state, the base address of its key with the guest registers as they
\* are now, the rounding mode now in force.
PinsCurrent ==
    /\ valid => \A g \in X87Pins : val[g] = X87Val
    /\ \A s \in CarrySlots : base[s].gpr # NoGpr => val[base[s].gpr] = base[s].key
    /\ rc # NoGpr => val[rc] = RcVal

\* No allocation finds the pool empty: not in a compiled run beside carried
\* registers, not in a single translation, and Rosetta's translation of a
\* bridged instruction keeps one register to spare.
PoolSuffices == ~short

\* Deferred work never outlives its run: a run ends on an x87 instruction,
\* inside its block, and nothing in it hands back in between.
FlushedAtRunEnd == rem = 0 \/ idx > Len(code) => ~owed

\* The scan for the length of a run finds the longest one.
LookaheadExact ==
    turn = "ours" /\ idx <= Len(code) => IsLongestRun(code, idx, lookahead(code, idx))

\* The pinned registers are leases: the allocator contract of GprLease, with
\* the three free registers the contract was audited for.
PurposeOf(g) ==
    IF valid /\ g \in X87Pins THEN X87Val
    ELSE IF g = rc THEN RcVal
    ELSE base[CHOOSE s \in CarrySlots : base[s].gpr = g].key
Leases == [g \in pinned_mask(valid, base, rc) |-> PurposeOf(g)]
Lease == INSTANCE GprLease WITH Regs <- Scratch, MinFree <- 3, lease <- Leases
LeaseKept == Lease!Spec
=============================================================================
