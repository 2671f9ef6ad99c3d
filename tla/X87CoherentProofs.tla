------------------------- MODULE X87CoherentProofs -------------------------
(***************************************************************************)
(* Every translate_* and try_fuse_* implements the guest instructions it   *)
(* consumes, for every stack size, value domain and run length, and for    *)
(* the baseline program shapes.  The first lemmas are about the building   *)
(* blocks; then they are put together, handler by handler, into the        *)
(* inductive invariant and the theorems about Spec.                        *)
(***************************************************************************)
EXTENDS X87Deferred, TLAPS

(***************************************************************************)
(* The TOP relation, and the other facts about a cache b in the middle of  *)
(* a handler (after x87_begin).                                            *)
(***************************************************************************)
TopOK(b) == IF ~b.top_dirty THEN b.top = b.wtop
            ELSE b.npush > 0 => b.top = Phys(b.wtop, b.npush)

PermOK(b) == /\ b.perm \in Perms
             /\ ~b.perm_dirty => b.perm = IdPerm
             /\ ~DeferFXCH => ~b.perm_dirty

TagOK(b) == /\ b.npush = 0 \/ b.npop = 0
            /\ \A s \in Slot : /\ Dist(b.wtop, s) < b.npush => ~b.tag[s]
                               /\ Dist(b.wtop, s) >= N - b.npop => b.tag[s]

Idle(b) == ~b.top_dirty /\ b.npush = 0 /\ b.npop = 0 /\ ~b.perm_dirty

JOK(b) == /\ b \in JitState
          /\ TopOK(b) /\ PermOK(b) /\ TagOK(b)
          /\ b.run = 0 => Idle(b) /\ ~b.gprs_valid
          /\ b.run > 0 => b.gprs_valid

(***************************************************************************)
(* b stands for the architectural state a.                                 *)
(***************************************************************************)
TagOf(b, s) == \/ Dist(b.wtop, s) < b.npush
               \/ Dist(b.wtop, s) < N - b.npop /\ b.tag[s]
Rep(b, a) ==
    /\ JOK(b) /\ a \in State
    /\ a.top = b.wtop /\ a.cc = b.cc /\ a.cw = b.cw /\ a.nzcv = b.nzcv
    /\ a.out = b.out
    /\ \A s \in Slot : /\ a.tag[s] <=> TagOf(b, s)
                       /\ a.tag[s] => a.st[s] = emit_load_st(b, Dist(b.wtop, s))
                       /\ ~a.tag[s] => a.st[s] = Zero

(***************************************************************************)
(* Addressing.                                                             *)
(***************************************************************************)
\* Slot addressing, the code's (top + depth) & 7: a depth below TOP is a slot.
LEMMA PhysIn ==
    ASSUME NEW t \in Slot, NEW d \in Depth
    PROVE  Phys(t, d) \in Slot /\ Dist(t, Phys(t, d)) = d
BY NAssumption DEF Phys, Dist, Slot, Depth

\* Dist is the depth of a slot: it inverts the addressing.
LEMMA DistIn ==
    ASSUME NEW t \in Slot, NEW s \in Slot
    PROVE  /\ Dist(t, s) \in Depth /\ Phys(t, Dist(t, s)) = s
           /\ Dist(t, s) \in Int /\ 0 <= Dist(t, s) /\ Dist(t, s) < N
BY NAssumption DEF Phys, Dist, Slot, Depth

\* Moving TOP by one, as push and pop do, moves every other slot by one.
LEMMA UpDown ==
    ASSUME NEW t \in Slot
    PROVE  /\ Up(t) \in Slot /\ Down(t) \in Slot
           /\ Up(Down(t)) = t /\ Down(Up(t)) = t
           /\ \A s \in Slot :
                /\ Dist(Up(t), s) = IF s = t THEN N - 1 ELSE Dist(t, s) - 1
                /\ Dist(Down(t), s) =
                     IF s = Down(t) THEN 0 ELSE Dist(t, s) + 1
                /\ Dist(t, s) = 0 <=> s = t
                /\ Dist(t, s) = N - 1 <=> s = Down(t)
BY NAssumption DEF Phys, Dist, Slot, Depth, Up, Down

(***************************************************************************)
(* The flushes change what is in memory and not what b stands for.         *)
(***************************************************************************)
\* x87_flush_top writes TOP back and changes nothing the guest can see.
LEMMA FlushTop ==
    ASSUME NEW b, NEW a, Rep(b, a)
    PROVE  /\ Rep(x87_flush_top(b), a)
           /\ ~x87_flush_top(b).top_dirty
           /\ x87_flush_top(b).top = b.wtop
           /\ x87_flush_top(b).run = b.run /\ x87_flush_top(b).wtop = b.wtop
           /\ x87_flush_top(b).gprs_valid = b.gprs_valid
           /\ x87_flush_top(b).npush = b.npush /\ x87_flush_top(b).npop = b.npop
           /\ x87_flush_top(b).perm_dirty = b.perm_dirty
BY DEF Rep, JOK, JitState, TopOK, PermOK, TagOK, Idle, TagOf, x87_flush_top,
       emit_store_top, emit_load_st, resolve_depth
\* Kept by the tag flushes: everything but the tags and the two counters.
SameButTags(k, b) ==
    /\ k.top = b.top /\ k.wtop = b.wtop /\ k.st = b.st /\ k.run = b.run
    /\ k.top_dirty = b.top_dirty /\ k.perm = b.perm
    /\ k.perm_dirty = b.perm_dirty /\ k.gprs_valid = b.gprs_valid
    /\ k.cc = b.cc /\ k.cw = b.cw /\ k.nzcv = b.nzcv /\ k.out = b.out

\* A cache that differs from b only in the tags and the counters, and gives
\* every slot the same tag, stands for the same state.
LEMMA Retag ==
    ASSUME NEW b, NEW a, NEW k, Rep(b, a), k \in JitState, SameButTags(k, b),
           TagOK(k), b.npush = 0 => k.npush = 0, b.npop = 0 => k.npop = 0,
           TopOK(k), \A s \in Slot : TagOf(k, s) <=> TagOf(b, s)
    PROVE  Rep(k, a)
<1>1. JOK(k)
  BY DEF Rep, JOK, SameButTags, PermOK, Idle
<1>2. \A s \in Slot : emit_load_st(k, Dist(k.wtop, s))
                       = emit_load_st(b, Dist(b.wtop, s))
  BY DEF SameButTags, emit_load_st, resolve_depth
<1>3. \A s \in Slot : a.tag[s] <=> TagOf(k, s)
  BY DEF Rep
<1> QED
  BY <1>1, <1>2, <1>3 DEF Rep, SameButTags

\* x87_flush_deferred_pops marks the popped slots empty.
LEMMA FlushPops ==
    ASSUME NEW b, NEW a, Rep(b, a)
    PROVE  /\ Rep(x87_flush_deferred_pops(b), a)
           /\ SameButTags(x87_flush_deferred_pops(b), b)
           /\ x87_flush_deferred_pops(b).npop = 0
           /\ x87_flush_deferred_pops(b).npush = b.npush
<1> DEFINE k == x87_flush_deferred_pops(b)
<1> DEFINE tags == [s \in Slot |-> IF Dist(b.wtop, s) >= N - b.npop THEN FALSE
                                   ELSE b.tag[s]]
<1>1. b \in JitState /\ TagOK(b) /\ TopOK(b)
  BY DEF Rep, JOK
<1>2. tags \in [Slot -> BOOLEAN]
  BY <1>1 DEF JitState
<1>3. CASE b.npop = 0
  <2>1. k = b
    BY <1>3 DEF x87_flush_deferred_pops
  <2> QED
    BY <1>3, <2>1 DEF SameButTags
<1>4. CASE b.npop # 0
  <2>1. k = [b EXCEPT !.tag = tags, !.npop = 0]
    BY <1>1, <1>4 DEF x87_flush_deferred_pops, emit_x87_tag_set_empty_batch,
       JitState
  <2> HIDE DEF k
  <2>2. k \in JitState /\ k.npop = 0 /\ k.npush = b.npush /\ k.tag = tags
    <3> HIDE DEF tags
    <3>1. k.npop = 0 /\ k.npush = b.npush /\ k.tag = tags
      BY <1>1, <2>1 DEF JitState
    <3>2. 0 \in 0..N
      BY NAssumption
    <3>3. k \in JitState
      BY <1>1, <1>2, <2>1, <3>2 DEF JitState
    <3> QED BY <3>1, <3>3
  <2>3. SameButTags(k, b)
    BY <1>1, <2>1 DEF JitState, SameButTags
  <2>4. b.npush = 0 /\ b.npop \in 0..N
    BY <1>1, <1>4 DEF TagOK, JitState
  <2>5. \A s \in Slot : k.tag[s] <=> (Dist(b.wtop, s) < N - b.npop /\ b.tag[s])
    BY <1>1, <2>2, <2>4, DistIn, NAssumption DEF JitState
  <2>6. \A s \in Slot : TagOf(k, s) <=> TagOf(b, s)
    BY <1>1, <2>2, <2>3, <2>4, <2>5, DistIn, NAssumption
       DEF TagOf, SameButTags, JitState
  <2>7. TagOK(k)
    BY <1>1, <2>2, <2>3, <2>4, DistIn, NAssumption
       DEF TagOK, SameButTags, JitState
  <2>8. TopOK(k)
    BY <1>1, <2>2, <2>3 DEF TopOK, SameButTags
  <2>9. Rep(k, a)
    BY <2>2, <2>3, <2>4, <2>6, <2>7, <2>8, Retag
  <2> QED
    BY <2>2, <2>3, <2>9 DEF k
<1> QED
  BY <1>1, <1>3, <1>4

\* x87_flush_deferred_pushes marks the pushed slots in use.
LEMMA FlushPushes ==
    ASSUME NEW b, NEW a, Rep(b, a)
    PROVE  /\ Rep(x87_flush_deferred_pushes(b), a)
           /\ SameButTags(x87_flush_deferred_pushes(b), b)
           /\ x87_flush_deferred_pushes(b).npop = b.npop
           /\ x87_flush_deferred_pushes(b).npush = 0
<1> DEFINE k == x87_flush_deferred_pushes(b)
<1> DEFINE tags == [s \in Slot |-> IF Dist(b.wtop, s) < b.npush THEN TRUE
                                   ELSE b.tag[s]]
<1>1. b \in JitState /\ TagOK(b) /\ TopOK(b)
  BY DEF Rep, JOK
<1>2. tags \in [Slot -> BOOLEAN]
  BY <1>1 DEF JitState
<1>3. CASE b.npush = 0
  <2>1. k = b
    BY <1>3 DEF x87_flush_deferred_pushes
  <2> QED
    BY <1>3, <2>1 DEF SameButTags
<1>4. CASE b.npush # 0
  <2>1. k = [b EXCEPT !.tag = tags, !.npush = 0]
    BY <1>1, <1>4 DEF x87_flush_deferred_pushes, emit_x87_tag_set_valid_batch,
       JitState
  <2> HIDE DEF k
  <2>2. k \in JitState /\ k.npush = 0 /\ k.npop = b.npop /\ k.tag = tags
    <3> HIDE DEF tags
    <3>1. k.npush = 0 /\ k.npop = b.npop /\ k.tag = tags
      BY <1>1, <2>1 DEF JitState
    <3>2. 0 \in 0..N
      BY NAssumption
    <3>3. k \in JitState
      BY <1>1, <1>2, <2>1, <3>2 DEF JitState
    <3> QED BY <3>1, <3>3
  <2>3. SameButTags(k, b)
    BY <1>1, <2>1 DEF JitState, SameButTags
  <2>4. b.npop = 0 /\ b.npush \in 0..N
    BY <1>1, <1>4 DEF TagOK, JitState
  <2>5. \A s \in Slot : k.tag[s] <=> (Dist(b.wtop, s) < b.npush \/ b.tag[s])
    BY <1>1, <2>2, <2>4, DistIn, NAssumption DEF JitState
  <2>6. \A s \in Slot : TagOf(k, s) <=> TagOf(b, s)
    BY <1>1, <2>2, <2>3, <2>4, <2>5, DistIn, NAssumption
       DEF TagOf, SameButTags, JitState
  <2>7. TagOK(k)
    BY <1>1, <2>2, <2>3, <2>4, DistIn, NAssumption
       DEF TagOK, SameButTags, JitState
  <2>8. TopOK(k)
    BY <1>1, <2>2, <2>3 DEF TopOK, SameButTags
  <2>9. Rep(k, a)
    BY <2>2, <2>3, <2>4, <2>6, <2>7, <2>8, Retag
  <2> QED
    BY <2>2, <2>3, <2>9 DEF k
<1> QED
  BY <1>1, <1>3, <1>4
\* x87_flush_tags leaves no tag update pending.
LEMMA FlushTags ==
    ASSUME NEW b, NEW a, Rep(b, a)
    PROVE  /\ Rep(x87_flush_tags(b), a)
           /\ SameButTags(x87_flush_tags(b), b)
           /\ x87_flush_tags(b).npush = 0 /\ x87_flush_tags(b).npop = 0
<1> DEFINE k == x87_flush_deferred_pops(b)
<1>1. Rep(k, a) /\ SameButTags(k, b) /\ k.npop = 0
  BY FlushPops
<1>2. x87_flush_tags(b) = x87_flush_deferred_pushes(k)
  BY DEF x87_flush_tags
<1> HIDE DEF k
<1>3. /\ Rep(x87_flush_deferred_pushes(k), a)
      /\ SameButTags(x87_flush_deferred_pushes(k), k)
      /\ x87_flush_deferred_pushes(k).npop = 0
      /\ x87_flush_deferred_pushes(k).npush = 0
  BY <1>1, FlushPushes
<1> QED
  BY <1>1, <1>2, <1>3 DEF SameButTags

\* Kept by the permutation flush: everything but the registers themselves.
SameButPerm(k, b) ==
    /\ k.top = b.top /\ k.wtop = b.wtop /\ k.tag = b.tag /\ k.run = b.run
    /\ k.top_dirty = b.top_dirty /\ k.npush = b.npush /\ k.npop = b.npop
    /\ k.gprs_valid = b.gprs_valid
    /\ k.cc = b.cc /\ k.cw = b.cw /\ k.nzcv = b.nzcv /\ k.out = b.out

\* emit_x87_perm_flush moves each register to the place the permutation says
\* and forgets the permutation: the guest sees the same registers.
LEMMA PermFlush ==
    ASSUME NEW b, NEW a, Rep(b, a)
    PROVE  /\ Rep(perm_flush_before_stack_change(b), a)
           /\ SameButPerm(perm_flush_before_stack_change(b), b)
           /\ ~perm_flush_before_stack_change(b).perm_dirty
<1> DEFINE k == perm_flush_before_stack_change(b)
<1> DEFINE vals == [s \in Slot |->
                      b.st[Phys(b.wtop, b.perm[Dist(b.wtop, s)])]]
<1>1. b \in JitState /\ JOK(b)
  BY DEF Rep, JOK
<1>2. CASE ~b.perm_dirty
  <2>1. k = b
    BY <1>2 DEF perm_flush_before_stack_change
  <2> QED
    BY <1>2, <2>1 DEF SameButPerm
<1>3. CASE b.perm_dirty
  <2>1. k = [b EXCEPT !.st = vals, !.perm = IdPerm, !.perm_dirty = FALSE]
    BY <1>1, <1>3 DEF perm_flush_before_stack_change, reset_perm, JitState
  <2>2. \A s \in Slot : b.perm[Dist(b.wtop, s)] \in Depth
    BY <1>1, DistIn DEF JitState
  <2>3. vals \in [Slot -> Val]
    BY <1>1, <2>2, PhysIn DEF JitState
  <2>4. \A s \in Slot : vals[s] = emit_load_st(b, Dist(b.wtop, s))
    BY <1>3 DEF emit_load_st, resolve_depth
  <2> HIDE DEF k, vals
  <2>5. IdPerm \in [Depth -> Depth] /\ IdPerm \in Perms
    BY DEF IdPerm, Perms
  <2>6. k \in JitState /\ k.perm = IdPerm /\ ~k.perm_dirty /\ k.st = vals
    BY <1>1, <2>1, <2>3, <2>5 DEF JitState
  <2>7. SameButPerm(k, b)
    BY <1>1, <2>1 DEF JitState, SameButPerm
  <2>8. JOK(k)
    BY <1>1, <2>5, <2>6, <2>7 DEF JOK, TopOK, PermOK, TagOK, Idle, SameButPerm
  <2>9. \A s \in Slot : emit_load_st(k, Dist(k.wtop, s)) = vals[s]
    BY <1>1, <2>6, <2>7, DistIn
       DEF emit_load_st, resolve_depth, SameButPerm, JitState
  <2>10. \A s \in Slot : TagOf(k, s) <=> TagOf(b, s)
    BY <2>7 DEF SameButPerm, TagOf
  <2>11. Rep(k, a)
    BY <2>4, <2>7, <2>8, <2>9, <2>10 DEF Rep, SameButPerm
  <2> QED
    BY <2>6, <2>7, <2>11 DEF k
<1> QED
  BY <1>2, <1>3

\* x87_end and x87_cache_force_release write everything back: afterwards
\* nothing is deferred, memory's TOP is the guest's, and the guest sees no
\* difference.
LEMMA FlushAllRep ==
    ASSUME NEW b, NEW a, Rep(b, a)
    PROVE  /\ Rep(FlushAll(b), a)
           /\ Idle(FlushAll(b)) /\ FlushAll(b).top = FlushAll(b).wtop
           /\ FlushAll(b).run = b.run /\ FlushAll(b).gprs_valid = b.gprs_valid
<1> DEFINE p == perm_flush_before_stack_change(b)
           t == x87_flush_tags(p)
           k == x87_flush_top(t)
<1>1. Rep(p, a) /\ SameButPerm(p, b) /\ ~p.perm_dirty
  BY PermFlush
<1> HIDE DEF p
<1>2. Rep(t, a) /\ SameButTags(t, p) /\ t.npush = 0 /\ t.npop = 0
  BY <1>1, FlushTags
<1> HIDE DEF t
<1>3. /\ Rep(k, a) /\ ~k.top_dirty /\ k.top = t.wtop /\ k.run = t.run
      /\ k.npush = t.npush /\ k.npop = t.npop /\ k.perm_dirty = t.perm_dirty
      /\ k.wtop = t.wtop /\ k.gprs_valid = t.gprs_valid
  BY <1>2, FlushTop
<1>4. FlushAll(b) = k
  BY DEF FlushAll, k, t, p
<1> HIDE DEF k
<1> QED
  BY <1>1, <1>2, <1>3, <1>4 DEF Idle, SameButTags, SameButPerm
(***************************************************************************)
(* Reading and writing ST(d), and the stack movements.                     *)
(***************************************************************************)
\* Through the permutation different depths are different registers.
LEMMA Resolve ==
    ASSUME NEW b, JOK(b)
    PROVE  /\ \A d \in Depth : resolve_depth(b, d) \in Depth
           /\ \A d, e \in Depth :
                resolve_depth(b, d) = resolve_depth(b, e) => d = e
BY DEF JOK, PermOK, Perms, resolve_depth, JitState

\* emit_load_st through the permutation reads the guest's ST(d).
LEMMA LoadRep ==
    ASSUME NEW b, NEW a, Rep(b, a), NEW d \in Depth, InUse(a, d)
    PROVE  emit_load_st(b, d) = ST(a, d) /\ ST(a, d) \in Val
<1>1. b.wtop \in Slot /\ a.top = b.wtop /\ a.st \in [Slot -> Val]
  BY DEF Rep, JOK, JitState, State
<1>2. Phys(b.wtop, d) \in Slot /\ Dist(b.wtop, Phys(b.wtop, d)) = d
  BY <1>1, PhysIn
<1> QED
  BY <1>1, <1>2 DEF Rep, InUse, ST

\* emit_store_st writes the guest's ST(d) and no other register.
LEMMA StoreRep ==
    ASSUME NEW b, NEW a, Rep(b, a), NEW d \in Depth, InUse(a, d), NEW v \in Val
    PROVE  /\ Rep(emit_store_st(b, d, v), SetST(a, d, v))
           /\ emit_store_st(b, d, v).run = b.run
<1> DEFINE k == emit_store_st(b, d, v)
           c == SetST(a, d, v)
           r == Phys(b.wtop, resolve_depth(b, d))
           s0 == Phys(b.wtop, d)
<1>1. b \in JitState /\ JOK(b) /\ a \in State /\ a.top = b.wtop
  BY DEF Rep, JOK
<1>2. r \in Slot /\ s0 \in Slot /\ Dist(b.wtop, s0) = d
  BY <1>1, Resolve, PhysIn DEF JitState
<1>3. k = [b EXCEPT !.st = [b.st EXCEPT ![r] = v]]
  BY <1>1 DEF emit_store_st, JitState
<1>4. c = [a EXCEPT !.st = [a.st EXCEPT ![s0] = v]]
  BY <1>1 DEF SetST, State
<1>5. \A s \in Slot : Phys(b.wtop, resolve_depth(b, Dist(b.wtop, s))) = r
                       <=> s = s0
  <2> SUFFICES ASSUME NEW s \in Slot
               PROVE  Phys(b.wtop, resolve_depth(b, Dist(b.wtop, s))) = r
                      <=> s = s0
    OBVIOUS
  <2>1. b.wtop \in Slot
    BY <1>1 DEF JitState
  <2>2. Dist(b.wtop, s) \in Depth /\ Phys(b.wtop, Dist(b.wtop, s)) = s
    BY <2>1, DistIn
  <2>3. /\ resolve_depth(b, Dist(b.wtop, s)) \in Depth
        /\ resolve_depth(b, d) \in Depth
        /\ resolve_depth(b, Dist(b.wtop, s)) = resolve_depth(b, d)
             => Dist(b.wtop, s) = d
    BY <1>1, <2>2, Resolve
  <2>4. Phys(b.wtop, resolve_depth(b, Dist(b.wtop, s))) = r
         => resolve_depth(b, Dist(b.wtop, s)) = resolve_depth(b, d)
    BY <2>1, <2>3, PhysIn
  <2> QED
    BY <1>2, <2>2, <2>3, <2>4
<1> HIDE DEF k, c, r, s0
<1>6. SameButPerm(k, b) /\ k.perm = b.perm /\ k.perm_dirty = b.perm_dirty
  BY <1>1, <1>3 DEF JitState, SameButPerm
<1>7. k \in JitState /\ k.st = [b.st EXCEPT ![r] = v]
  BY <1>1, <1>2, <1>3 DEF JitState
<1>8. JOK(k)
  BY <1>1, <1>6, <1>7 DEF JOK, TopOK, PermOK, TagOK, Idle, SameButPerm
<1>9. /\ c \in State /\ c.st = [a.st EXCEPT ![s0] = v] /\ c.top = a.top
      /\ c.tag = a.tag /\ c.cc = a.cc /\ c.cw = a.cw /\ c.nzcv = a.nzcv
      /\ c.out = a.out
  BY <1>1, <1>2, <1>4 DEF State
<1>10. \A s \in Slot : emit_load_st(k, Dist(k.wtop, s)) =
                        IF s = s0 THEN v ELSE emit_load_st(b, Dist(b.wtop, s))
  <2> SUFFICES ASSUME NEW s \in Slot
               PROVE  emit_load_st(k, Dist(k.wtop, s)) =
                        IF s = s0 THEN v ELSE emit_load_st(b, Dist(b.wtop, s))
    OBVIOUS
  <2>1. resolve_depth(k, Dist(k.wtop, s)) = resolve_depth(b, Dist(b.wtop, s))
    BY <1>6 DEF resolve_depth, SameButPerm
  <2>2. Phys(b.wtop, resolve_depth(b, Dist(b.wtop, s))) \in Slot
    BY <1>1, DistIn, Resolve, PhysIn DEF JitState
  <2> QED
    BY <1>1, <1>2, <1>5, <1>6, <1>7, <2>1, <2>2
       DEF emit_load_st, SameButPerm, JitState
<1>11. a.tag[s0] /\ a.st \in [Slot -> Val]
  BY <1>1 DEF InUse, State, s0
<1>12. \A s \in Slot : TagOf(k, s) <=> TagOf(b, s)
  BY <1>6 DEF SameButPerm, TagOf
<1>13. Rep(k, c)
  BY <1>6, <1>8, <1>9, <1>10, <1>11, <1>12 DEF Rep, SameButPerm
<1> QED
  BY <1>6, <1>13 DEF k, c, SameButPerm
\* The arithmetic of a batch: after one more push memory's TOP is one deeper.
LEMMA BatchTop ==
    ASSUME NEW t \in Slot, NEW n \in 0..N, n < N
    PROVE  /\ Phys(Down(t), n + 1) = Phys(t, n)
           /\ Phys(t, 0) = t
           /\ n > 0 => Phys(Up(t), n - 1) = Phys(t, n)
BY NAssumption DEF Phys, Down, Up, Slot

\* The last step of a push, shared by the deferred and the eager form: k is a
\* cache whose TOP moved down onto a slot that was empty, and which now holds
\* v in it and counts it in use.
LEMMA PushCore ==
    ASSUME NEW p, NEW a, NEW k, NEW v \in Val, Rep(p, a), ~InUse(a, N - 1),
           ~p.perm_dirty, JOK(k), k.wtop = Down(p.wtop), ~k.perm_dirty,
           k.st = [p.st EXCEPT ![Down(p.wtop)] = v],
           k.cc = p.cc, k.cw = p.cw, k.nzcv = p.nzcv, k.out = p.out,
           \A s \in Slot : TagOf(k, s) <=> (s = Down(p.wtop) \/ TagOf(p, s))
    PROVE  Rep(k, Push(a, v))
<1> DEFINE t == Down(p.wtop)
           c == Push(a, v)
<1>1. p \in JitState /\ a \in State /\ a.top = p.wtop /\ p.wtop \in Slot
  BY DEF Rep, JOK, JitState
<1>2. t \in Slot
  BY <1>1, UpDown
<1>3. Phys(a.top, N - 1) = t
  BY <1>1 DEF Down
<1>4. c = [a EXCEPT !.top = t, !.tag = [a.tag EXCEPT ![t] = TRUE],
                    !.st = [a.st EXCEPT ![t] = v]]
  BY <1>1, <1>3 DEF Push, State
<1> HIDE DEF t, c
<1>5. /\ c \in State /\ c.top = t /\ c.tag = [a.tag EXCEPT ![t] = TRUE]
      /\ c.st = [a.st EXCEPT ![t] = v]
      /\ c.cc = a.cc /\ c.cw = a.cw /\ c.nzcv = a.nzcv /\ c.out = a.out
  BY <1>1, <1>2, <1>4 DEF State
<1>6. \A s \in Slot : /\ emit_load_st(k, Dist(k.wtop, s)) = k.st[s]
                      /\ emit_load_st(p, Dist(p.wtop, s)) = p.st[s]
  <2>1. k.wtop \in Slot
    BY <1>2 DEF t
  <2> QED
    BY <1>1, <2>1, DistIn DEF emit_load_st, resolve_depth
<1>7. p.st \in [Slot -> Val] /\ a.st \in [Slot -> Val]
      /\ a.tag \in [Slot -> BOOLEAN]
  BY <1>1 DEF JitState, State
<1>8. \A s \in Slot : k.st[s] = IF s = t THEN v ELSE p.st[s]
  BY <1>2, <1>7 DEF t
<1>9. \A s \in Slot : /\ c.tag[s] <=> (s = t \/ a.tag[s])
                      /\ c.st[s] = IF s = t THEN v ELSE a.st[s]
  BY <1>2, <1>5, <1>7
<1>10. \A s \in Slot : /\ c.tag[s] <=> TagOf(k, s)
                       /\ c.tag[s] => c.st[s] = emit_load_st(k, Dist(k.wtop, s))
                       /\ ~c.tag[s] => c.st[s] = Zero
  <2> SUFFICES ASSUME NEW s \in Slot
               PROVE  /\ c.tag[s] <=> TagOf(k, s)
                      /\ c.tag[s] => c.st[s] = k.st[s]
                      /\ ~c.tag[s] => c.st[s] = Zero
    BY <1>6
  <2>1. /\ a.tag[s] <=> TagOf(p, s)
        /\ a.tag[s] => a.st[s] = p.st[s]
        /\ ~a.tag[s] => a.st[s] = Zero
    BY <1>6 DEF Rep
  <2>2. TagOf(k, s) <=> (s = t \/ TagOf(p, s))
    BY DEF t
  <2> QED
    BY <1>8, <1>9, <2>1, <2>2
<1>11. /\ c.top = k.wtop /\ c.cc = k.cc /\ c.cw = k.cw /\ c.nzcv = k.nzcv
       /\ c.out = k.out
  BY <1>5 DEF Rep, t
<1>12. Rep(k, c)
  BY <1>5, <1>10, <1>11 DEF Rep
<1> QED
  BY <1>12 DEF c

\* A pop: TOP moved up, the old top slot counts as empty, nothing else moved.
LEMMA PopCore ==
    ASSUME NEW p, NEW a, NEW k, Rep(p, a), InUse(a, 0),
           ~p.perm_dirty, JOK(k), k.wtop = Up(p.wtop), ~k.perm_dirty,
           k.st = p.st,
           k.cc = p.cc, k.cw = p.cw, k.nzcv = p.nzcv, k.out = p.out,
           \A s \in Slot : TagOf(k, s) <=> (s # p.wtop /\ TagOf(p, s))
    PROVE  Rep(k, Pop(a))
<1> DEFINE t == p.wtop
           c == Pop(a)
<1>1. p \in JitState /\ a \in State /\ a.top = t /\ t \in Slot
  BY DEF Rep, JOK, JitState
<1>2. Up(t) \in Slot
  BY <1>1, UpDown
<1>3. c = [a EXCEPT !.top = Up(t), !.tag = [a.tag EXCEPT ![t] = FALSE],
                    !.st = [a.st EXCEPT ![t] = Zero]]
  BY <1>1 DEF Pop, State, Up
<1> HIDE DEF t, c
<1>4. /\ c \in State /\ c.top = Up(t) /\ c.tag = [a.tag EXCEPT ![t] = FALSE]
      /\ c.st = [a.st EXCEPT ![t] = Zero]
      /\ c.cc = a.cc /\ c.cw = a.cw /\ c.nzcv = a.nzcv /\ c.out = a.out
  BY <1>1, <1>2, <1>3, ZeroAssumption DEF State
<1>5. \A s \in Slot : /\ emit_load_st(k, Dist(k.wtop, s)) = k.st[s]
                      /\ emit_load_st(p, Dist(p.wtop, s)) = p.st[s]
  BY <1>1, <1>2, DistIn DEF emit_load_st, resolve_depth, t
<1>6. a.st \in [Slot -> Val] /\ a.tag \in [Slot -> BOOLEAN]
  BY <1>1 DEF State
<1>7. \A s \in Slot : /\ c.tag[s] <=> (s # t /\ a.tag[s])
                      /\ c.st[s] = IF s = t THEN Zero ELSE a.st[s]
  BY <1>1, <1>4, <1>6
<1>8. \A s \in Slot : /\ c.tag[s] <=> TagOf(k, s)
                      /\ c.tag[s] => c.st[s] = emit_load_st(k, Dist(k.wtop, s))
                      /\ ~c.tag[s] => c.st[s] = Zero
  <2> SUFFICES ASSUME NEW s \in Slot
               PROVE  /\ c.tag[s] <=> TagOf(k, s)
                      /\ c.tag[s] => c.st[s] = k.st[s]
                      /\ ~c.tag[s] => c.st[s] = Zero
    BY <1>5
  <2>1. /\ a.tag[s] <=> TagOf(p, s)
        /\ a.tag[s] => a.st[s] = p.st[s]
        /\ ~a.tag[s] => a.st[s] = Zero
    BY <1>5 DEF Rep
  <2>2. TagOf(k, s) <=> (s # t /\ TagOf(p, s))
    BY DEF t
  <2> QED
    BY <1>7, <2>1, <2>2
<1>9. /\ c.top = k.wtop /\ c.cc = k.cc /\ c.cw = k.cw /\ c.nzcv = k.nzcv
      /\ c.out = k.out
  BY <1>4 DEF Rep, t
<1>10. Rep(k, c)
  BY <1>4, <1>8, <1>9 DEF Rep
<1> QED
  BY <1>10 DEF c
\* Any x87_push followed by the store to ST(0), inside a run or not, is the
\* architectural push, provided that a pending batch has not had its TOP
\* written back in the middle.
LEMMA PushRep ==
    ASSUME NEW b, NEW a, NEW v \in Val, Rep(b, a), ~InUse(a, N - 1),
           b.npush > 0 => b.top_dirty
    PROVE  /\ Rep(emit_store_st(x87_push(b), 0, v), Push(a, v))
           /\ emit_store_st(x87_push(b), 0, v).run = b.run
<1>1. b \in JitState /\ JOK(b) /\ b.run \in Nat
  BY MaxRunAssumption DEF Rep, JOK, JitState
<1>2. CASE b.run > 0
  <2> DEFINE f == x87_flush_deferred_pops(b)
             g == IF f.npush >= N THEN x87_flush_deferred_pushes(f) ELSE f
             h == IF g.npush = 0 THEN x87_flush_top(g) ELSE g
             p == perm_flush_before_stack_change(h)
             q == DeferPush(p)
             k == emit_store_st(q, 0, v)
  <2>1. x87_push(b) = q
    BY <1>2 DEF x87_push
  <2>2. Rep(f, a) /\ SameButTags(f, b) /\ f.npop = 0 /\ f.npush = b.npush
    BY FlushPops
  <2> HIDE DEF f
  <2>3. /\ Rep(g, a) /\ g.npop = 0 /\ g.run = b.run
        /\ g.npush < N /\ (g.npush > 0 => g.top_dirty)
    <3>1. CASE f.npush >= N
      BY <3>1, <2>2, FlushPushes, NAssumption DEF SameButTags
    <3>2. CASE ~(f.npush >= N)
      <4>1. f.npush \in 0..N
        BY <2>2 DEF Rep, JOK, JitState
      <4> QED
        BY <3>2, <4>1, <2>2, NAssumption DEF SameButTags
    <3> QED
      BY <3>1, <3>2
  <2> HIDE DEF g
  <2>4. /\ Rep(h, a) /\ h.npop = 0 /\ h.run = b.run /\ h.npush < N
        /\ (h.npush > 0 => h.top_dirty) /\ (h.npush = 0 => h.top = h.wtop)
    BY <2>3, FlushTop
  <2> HIDE DEF h
  <2>5. /\ Rep(p, a) /\ SameButPerm(p, h) /\ ~p.perm_dirty
    BY <2>4, PermFlush
  <2> HIDE DEF p
  <2>6. /\ p \in JitState /\ JOK(p) /\ p.npop = 0 /\ p.npush < N
        /\ p.npush \in 0..N /\ p.wtop \in Slot /\ p.run = b.run
        /\ p.top = Phys(p.wtop, p.npush) /\ p.perm = IdPerm
    <3>1. p \in JitState /\ JOK(p) /\ p.npush \in 0..N /\ p.wtop \in Slot
      BY <2>5 DEF Rep, JOK, JitState
    <3>2. p.npop = 0 /\ p.npush < N /\ p.run = b.run /\ p.perm = IdPerm
      BY <2>4, <2>5, <3>1 DEF SameButPerm, JOK, PermOK
    <3>3. p.top = Phys(p.wtop, p.npush)
      BY <2>4, <2>5, <3>1, <3>2, BatchTop DEF SameButPerm, JOK, TopOK
    <3> QED
      BY <3>1, <3>2, <3>3
  <2>7. k = [p EXCEPT !.wtop = Down(p.wtop), !.top_dirty = TRUE,
                      !.npush = p.npush + 1,
                      !.st = [p.st EXCEPT ![Down(p.wtop)] = v]]
    <3>1. q = [p EXCEPT !.wtop = Down(p.wtop), !.top_dirty = TRUE,
                        !.npush = p.npush + 1]
      BY <2>6 DEF DeferPush, JitState
    <3>2. Down(p.wtop) \in Slot /\ Phys(Down(p.wtop), 0) = Down(p.wtop)
      BY <2>6, UpDown, NAssumption, BatchTop
    <3> HIDE DEF q
    <3>3. q.wtop = Down(p.wtop) /\ q.st = p.st /\ ~q.perm_dirty
      BY <2>5, <2>6, <3>1 DEF JitState
    <3>4. k = [q EXCEPT !.st = [p.st EXCEPT ![Down(p.wtop)] = v]]
      BY <2>6, <3>1, <3>2, <3>3 DEF emit_store_st, resolve_depth, JitState
    <3> QED
      BY <2>6, <3>1, <3>4 DEF JitState
  <2> HIDE DEF k, q
  <2>8. Down(p.wtop) \in Slot /\ p.npush + 1 \in 0..N
    BY <2>6, UpDown, NAssumption
  <2>9. /\ k \in JitState /\ k.wtop = Down(p.wtop) /\ k.top_dirty = TRUE
        /\ k.npush = p.npush + 1 /\ k.npop = 0 /\ k.tag = p.tag
        /\ k.st = [p.st EXCEPT ![Down(p.wtop)] = v] /\ k.top = p.top
        /\ k.perm = p.perm /\ k.perm_dirty = p.perm_dirty /\ k.run = p.run
        /\ k.gprs_valid = p.gprs_valid /\ k.cc = p.cc /\ k.cw = p.cw
        /\ k.nzcv = p.nzcv /\ k.out = p.out
    BY <2>6, <2>7, <2>8 DEF JitState
  <2>10. ~p.tag[Down(p.wtop)]
    <3>1. Phys(a.top, N - 1) = Down(p.wtop) /\ ~a.tag[Down(p.wtop)]
      BY <2>5 DEF Rep, Down, InUse
    <3>2. Dist(p.wtop, Down(p.wtop)) < N
      BY <2>6, <2>8, DistIn
    <3>3. ~TagOf(p, Down(p.wtop))
      BY <2>5, <2>8, <3>1 DEF Rep
    <3>4. Dist(p.wtop, Down(p.wtop)) < N - p.npop
      BY <2>6, <3>2, NAssumption
    <3> QED
      BY <3>3, <3>4 DEF TagOf
  <2>11. \A s \in Slot : TagOf(k, s) <=> (s = Down(p.wtop) \/ TagOf(p, s))
    BY <2>6, <2>9, UpDown, DistIn, NAssumption DEF TagOf
  <2>12. JOK(k)
    <3>1. TopOK(k)
      BY <2>6, <2>9, BatchTop DEF TopOK
    <3>2. TagOK(k)
      BY <2>6, <2>9, <2>10, UpDown, DistIn, NAssumption DEF TagOK, JOK
    <3>3. PermOK(k)
      BY <2>6, <2>9 DEF JOK, PermOK
    <3> QED
      BY <1>2, <2>6, <2>9, <3>1, <3>2, <3>3 DEF JOK
  <2>13. Rep(k, Push(a, v))
    BY <2>5, <2>9, <2>11, <2>12, PushCore
  <2> QED
    BY <2>1, <2>6, <2>9, <2>13 DEF k
<1>3. CASE b.run = 0
  <2> DEFINE t == Down(b.wtop)
             tags == [s \in Slot |-> IF Dist(t, s) < 1 THEN TRUE ELSE b.tag[s]]
             q == x87_push(b)
             k == emit_store_st(q, 0, v)
  <2>1. /\ b.wtop \in Slot /\ b.top = b.wtop /\ ~b.perm_dirty /\ ~b.top_dirty
        /\ b.npush = 0 /\ b.npop = 0 /\ b.perm = IdPerm /\ ~b.gprs_valid
    BY <1>1, <1>3 DEF JOK, Idle, TopOK, PermOK, JitState
  <2>2. t \in Slot /\ Phys(t, 0) = t
    BY <2>1, UpDown, NAssumption, BatchTop
  <2>3. tags \in [Slot -> BOOLEAN]
    BY <1>1 DEF JitState
  <2>4. \A s \in Slot : tags[s] <=> (s = t \/ b.tag[s])
    <3> SUFFICES ASSUME NEW s \in Slot
                 PROVE  tags[s] <=> (s = t \/ b.tag[s])
      OBVIOUS
    <3> HIDE DEF t
    <3>1. Dist(t, s) < 1 <=> s = t
      <4>1. Dist(t, s) = 0 <=> s = t
        BY <2>2, UpDown
      <4> QED
        BY <2>2, <4>1, DistIn
    <3> QED
      BY <3>1
  <2>5. q = [b EXCEPT !.wtop = t, !.top = t, !.tag = tags]
    BY <1>1, <1>3 DEF x87_push, emit_x87_push, emit_store_top,
       emit_x87_tag_set_valid_batch, JitState
  <2> HIDE DEF q, tags
  <2>6. q.wtop = t /\ q.st = b.st /\ ~q.perm_dirty
    BY <1>1, <2>1, <2>5 DEF JitState
  <2>7. k = [q EXCEPT !.st = [b.st EXCEPT ![t] = v]]
    BY <1>1, <2>2, <2>5, <2>6 DEF emit_store_st, resolve_depth, JitState
  <2>8. k = [b EXCEPT !.wtop = t, !.top = t, !.tag = tags,
                      !.st = [b.st EXCEPT ![t] = v]]
    BY <1>1, <2>5, <2>7 DEF JitState
  <2> HIDE DEF k
  <2>9. /\ k \in JitState /\ k.wtop = t /\ k.top = t /\ k.tag = tags
        /\ k.st = [b.st EXCEPT ![t] = v] /\ k.npush = 0 /\ k.npop = 0
        /\ k.top_dirty = b.top_dirty /\ k.perm = b.perm
        /\ k.perm_dirty = b.perm_dirty /\ k.run = b.run
        /\ k.gprs_valid = b.gprs_valid /\ k.cc = b.cc /\ k.cw = b.cw
        /\ k.nzcv = b.nzcv /\ k.out = b.out
    BY <1>1, <2>1, <2>2, <2>3, <2>8 DEF JitState
  <2>10. \A s \in Slot : TagOf(k, s) <=> (s = t \/ TagOf(b, s))
    BY <2>1, <2>2, <2>4, <2>9, DistIn, NAssumption DEF TagOf
  <2>11. JOK(k)
    <3>1. TagOK(k)
      BY <2>2, <2>9, DistIn, NAssumption DEF TagOK
    <3> QED
      BY <1>1, <1>3, <2>1, <2>9, <3>1 DEF JOK, TopOK, PermOK, Idle
  <2>12. Rep(k, Push(a, v))
    BY <2>1, <2>9, <2>10, <2>11, PushCore
  <2> QED
    BY <2>9, <2>12 DEF k, q
<1> QED
  BY <1>1, <1>2, <1>3

\* The slot above a batch of n pushes, seen from the one below its TOP.
LEMMA BatchUp ==
    ASSUME NEW t \in Slot, NEW n \in 0..N, n > 0
    PROVE  Phys(t, n) = Phys(Up(t), n - 1)
BY NAssumption DEF Phys, Slot, Up

\* Popping two registers moves TOP as popping one twice.
LEMMA UpUp ==
    ASSUME NEW t \in Slot
    PROVE  Phys(t, 2) = Up(Up(t))
BY NAssumption DEF Phys, Slot, Up

\* Every x87_pop of a register in use, whether it cancels a push, is deferred
\* or takes effect at once, is the architectural pop.
LEMMA PopRep ==
    ASSUME NEW b, NEW a, Rep(b, a), InUse(a, 0)
    PROVE  Rep(x87_pop(b), Pop(a)) /\ x87_pop(b).run = b.run
<1> DEFINE p == perm_flush_before_stack_change(b)
           t == p.wtop
<1>1. Rep(p, a) /\ SameButPerm(p, b) /\ ~p.perm_dirty
  BY PermFlush
<1> HIDE DEF p
<1>2. /\ p \in JitState /\ JOK(p) /\ p.npush \in 0..N /\ p.npop \in 0..N
      /\ t \in Slot /\ p.run = b.run /\ p.perm = IdPerm /\ p.run \in Nat
      /\ p.tag \in [Slot -> BOOLEAN] /\ a.top = t
  BY <1>1, MaxRunAssumption DEF Rep, JOK, JitState, PermOK, SameButPerm
<1>3. TagOf(p, t) /\ Dist(t, t) = 0
  <2>1. Phys(t, 0) = t
    BY <1>2, BatchTop, NAssumption
  <2>2. Dist(t, t) = 0
    BY <1>2, UpDown
  <2>3. a.tag[t]
    BY <1>2, <2>1 DEF InUse
  <2> QED
    BY <1>1, <1>2, <2>2, <2>3 DEF Rep
<1>4. Up(t) \in Slot
  BY <1>2, UpDown
<1>5. CASE b.run > 0 /\ p.npush > 0
  <2> DEFINE k == CancelPush(p)
             top == IF p.top_dirty THEN p.top ELSE Up(t)
             dirty == p.top_dirty /\ p.npush - 1 # 0
  <2>1. x87_pop(b) = k
    BY <1>5 DEF x87_pop, p
  <2>2. k = [p EXCEPT !.wtop = Up(t), !.npush = p.npush - 1, !.top = top,
                      !.top_dirty = dirty]
    <3>1. CASE p.top_dirty
      BY <1>2, <3>1 DEF CancelPush, JitState
    <3>2. CASE ~p.top_dirty
      BY <1>2, <3>2 DEF CancelPush, emit_store_top, JitState
    <3> QED
      BY <3>1, <3>2
  <2>3. top \in Slot /\ dirty \in BOOLEAN
    BY <1>2, <1>4 DEF JitState
  <2>4. p.npush - 1 \in 0..N
    BY <1>2, <1>5, NAssumption
  <2> HIDE DEF k, top, dirty
  <2>5. /\ k \in JitState /\ k.wtop = Up(t) /\ k.npush = p.npush - 1
        /\ k.top = top /\ k.top_dirty = dirty /\ k.npop = p.npop
        /\ k.tag = p.tag /\ k.st = p.st /\ k.perm = p.perm
        /\ k.perm_dirty = p.perm_dirty /\ k.run = p.run
        /\ k.gprs_valid = p.gprs_valid /\ k.cc = p.cc /\ k.cw = p.cw
        /\ k.nzcv = p.nzcv /\ k.out = p.out
    BY <1>2, <1>4, <2>2, <2>3, <2>4 DEF JitState
  <2>6. /\ p.npop = 0 /\ ~p.tag[t]
        /\ \A s \in Slot : Dist(t, s) < p.npush => ~p.tag[s]
    BY <1>2, <1>3, <1>5 DEF JOK, TagOK
  <2>7. TopOK(k)
    <3>1. ~p.top_dirty => p.top = t
      BY <1>2 DEF JOK, TopOK
    <3>2. p.top_dirty => p.top = Phys(t, p.npush)
      BY <1>2, <1>5 DEF JOK, TopOK
    <3>3. Phys(t, p.npush) = Phys(Up(t), p.npush - 1)
      BY <1>2, <1>5, NAssumption, BatchUp
    <3>4. Phys(Up(t), 0) = Up(t)
      BY <1>4, BatchTop, NAssumption
    <3> QED
      BY <2>5, <3>1, <3>2, <3>3, <3>4 DEF TopOK, top, dirty
  <2>8. TagOK(k)
    BY <1>2, <1>5, <2>5, <2>6, UpDown, DistIn, NAssumption DEF TagOK
  <2>9. JOK(k)
    BY <1>2, <1>5, <2>5, <2>7, <2>8 DEF JOK, PermOK
  <2>10. \A s \in Slot : TagOf(k, s) <=> (s # t /\ TagOf(p, s))
    BY <1>2, <1>5, <2>5, <2>6, UpDown, DistIn, NAssumption DEF TagOf
  <2> QED
    BY <1>1, <1>2, <2>1, <2>5, <2>9, <2>10, PopCore
<1>6. CASE b.run > 0 /\ ~(p.npush > 0)
  <2> DEFINE k == DeferPop(p)
  <2>1. x87_pop(b) = k
    BY <1>6 DEF x87_pop, p
  <2>2. k = [p EXCEPT !.wtop = Up(t), !.npop = p.npop + 1, !.top_dirty = TRUE]
    BY <1>2 DEF DeferPop, JitState
  <2>3. p.npush = 0 /\ p.npop < N /\ p.tag[t] /\ p.npop + 1 \in 0..N
    BY <1>2, <1>3, <1>6, NAssumption DEF TagOf
  <2> HIDE DEF k
  <2>4. /\ k \in JitState /\ k.wtop = Up(t) /\ k.npush = p.npush
        /\ k.top = p.top /\ k.top_dirty = TRUE /\ k.npop = p.npop + 1
        /\ k.tag = p.tag /\ k.st = p.st /\ k.perm = p.perm
        /\ k.perm_dirty = p.perm_dirty /\ k.run = p.run
        /\ k.gprs_valid = p.gprs_valid /\ k.cc = p.cc /\ k.cw = p.cw
        /\ k.nzcv = p.nzcv /\ k.out = p.out
    BY <1>2, <1>4, <2>2, <2>3 DEF JitState
  <2>5. \A s \in Slot : Dist(t, s) >= N - p.npop => p.tag[s]
    BY <1>2 DEF JOK, TagOK
  <2>6. TagOK(k)
    BY <1>2, <1>4, <2>3, <2>4, <2>5, UpDown, DistIn, NAssumption DEF TagOK
  <2>7. JOK(k)
    BY <1>2, <1>6, <2>3, <2>4, <2>6 DEF JOK, PermOK, TopOK
  <2>8. \A s \in Slot : TagOf(k, s) <=> (s # t /\ TagOf(p, s))
    BY <1>2, <1>4, <2>3, <2>4, UpDown, DistIn, NAssumption DEF TagOf
  <2> QED
    BY <1>1, <1>2, <2>1, <2>4, <2>7, <2>8, PopCore
<1>7. CASE ~(b.run > 0)
  <2> DEFINE k == x87_pop(b)
             tags == [s \in Slot |-> IF Dist(Up(t), s) >= N - 1 THEN FALSE
                                     ELSE b.tag[s]]
  <2>1. /\ b \in JitState /\ b.run = 0 /\ Idle(b) /\ ~b.gprs_valid
        /\ b.perm = IdPerm /\ b.top = b.wtop /\ b.wtop \in Slot
    BY <1>2, <1>7, MaxRunAssumption DEF Rep, JOK, JitState, Idle, TopOK, PermOK
  <2>2. p = b
    BY <2>1 DEF p, perm_flush_before_stack_change, Idle
  <2>3. k = [b EXCEPT !.wtop = Up(t), !.top = Up(t), !.tag = tags,
                      !.top_dirty = FALSE]
    BY <1>7, <2>1, <2>2 DEF x87_pop, emit_x87_pop_n, emit_store_top,
       emit_x87_tag_set_empty_batch, JitState, Up
  <2>4. tags \in [Slot -> BOOLEAN]
    BY <2>1 DEF JitState
  <2>5. \A s \in Slot : tags[s] <=> (s # t /\ b.tag[s])
    <3> SUFFICES ASSUME NEW s \in Slot
                 PROVE  tags[s] <=> (s # t /\ b.tag[s])
      OBVIOUS
    <3>1. Dist(Up(t), s) >= N - 1 <=> s = t
      BY <1>2, UpDown, DistIn, NAssumption
    <3> HIDE DEF t
    <3> QED
      BY <3>1
  <2> HIDE DEF k, tags
  <2>6. /\ k \in JitState /\ k.wtop = Up(t) /\ k.npush = 0 /\ k.npop = 0
        /\ k.top = Up(t) /\ ~k.top_dirty /\ k.tag = tags /\ k.st = b.st
        /\ k.perm = b.perm /\ k.perm_dirty = b.perm_dirty /\ k.run = b.run
        /\ k.gprs_valid = b.gprs_valid /\ k.cc = b.cc /\ k.cw = b.cw
        /\ k.nzcv = b.nzcv /\ k.out = b.out
    BY <1>4, <2>1, <2>3, <2>4 DEF JitState, Idle
  <2>7. TagOK(k)
    BY <1>4, <2>6, DistIn, NAssumption DEF TagOK
  <2>8. JOK(k)
    BY <1>2, <2>1, <2>2, <2>6, <2>7 DEF JOK, PermOK, TopOK, Idle
  <2>9. \A s \in Slot : TagOf(k, s) <=> (s # t /\ TagOf(b, s))
    BY <1>2, <1>4, <2>1, <2>2, <2>5, <2>6, DistIn, NAssumption DEF TagOf, Idle
  <2> QED
    BY <1>1, <1>2, <2>1, <2>2, <2>6, <2>8, <2>9, PopCore DEF k, Idle
<1> QED
  BY <1>5, <1>6, <1>7

\* ST(0) is popped and its tag cleared on the spot; memory's TOP becomes x.
Emptied(l, x, d) ==
    [l EXCEPT !.wtop = Up(l.wtop), !.tag = [l.tag EXCEPT ![l.wtop] = FALSE],
              !.top = x, !.top_dirty = d]

\* Clearing the tag of ST(0) with nothing deferred is the architectural pop.
LEMMA EmptyRep ==
    ASSUME NEW l, NEW a, NEW x \in Slot, NEW d \in BOOLEAN, Rep(l, a),
           InUse(a, 0), ~l.perm_dirty, l.npush = 0, l.npop = 0,
           ~d => x = Up(l.wtop), l.run = 0 => ~d
    PROVE  /\ Rep(Emptied(l, x, d), Pop(a))
           /\ Emptied(l, x, d).run = l.run /\ ~Emptied(l, x, d).perm_dirty
           /\ Emptied(l, x, d).npush = 0 /\ Emptied(l, x, d).npop = 0
           /\ Emptied(l, x, d).wtop = Up(l.wtop)
<1> DEFINE k == Emptied(l, x, d)
           t == l.wtop
           tags == [l.tag EXCEPT ![t] = FALSE]
<1>1. /\ l \in JitState /\ JOK(l) /\ t \in Slot /\ l.tag \in [Slot -> BOOLEAN]
      /\ Up(t) \in Slot
  BY UpDown DEF Rep, JOK, JitState
<1>2. /\ tags \in [Slot -> BOOLEAN]
      /\ \A s \in Slot : tags[s] <=> (s # t /\ l.tag[s])
  BY <1>1
<1>3. k = [l EXCEPT !.wtop = Up(t), !.tag = tags, !.top = x, !.top_dirty = d]
  BY DEF Emptied
<1> HIDE DEF k, tags
<1>4. /\ k \in JitState /\ k.wtop = Up(t) /\ k.npush = 0 /\ k.npop = 0
      /\ k.top = x /\ k.top_dirty = d /\ k.tag = tags /\ k.st = l.st
      /\ k.perm = l.perm /\ k.perm_dirty = l.perm_dirty /\ k.run = l.run
      /\ k.gprs_valid = l.gprs_valid /\ k.cc = l.cc /\ k.cw = l.cw
      /\ k.nzcv = l.nzcv /\ k.out = l.out
  BY <1>1, <1>2, <1>3 DEF JitState
<1>5. TagOK(k)
  BY <1>1, <1>4, DistIn, NAssumption DEF TagOK
<1>6. TopOK(k) /\ PermOK(k)
  BY <1>1, <1>4 DEF TopOK, PermOK, JOK
<1>7. JOK(k)
  BY <1>1, <1>4, <1>5, <1>6 DEF JOK, Idle
<1>8. \A s \in Slot : TagOf(k, s) <=> (s # t /\ TagOf(l, s))
  BY <1>1, <1>2, <1>4, DistIn, NAssumption DEF TagOf
<1> QED
  BY <1>1, <1>4, <1>7, <1>8, PopCore DEF k

\* x87_pop_n of two registers in use is two architectural pops.
LEMMA PopTwoRep ==
    ASSUME NEW b, NEW a, Rep(b, a), InUse(a, 0), InUse(Pop(a), 0)
    PROVE  Rep(x87_pop_n(b, 2), Pop(Pop(a))) /\ x87_pop_n(b, 2).run = b.run
<1> DEFINE f == x87_flush_tags(b)
           l == IF f.run > 0 THEN perm_flush_before_stack_change(f) ELSE f
           d == f.run > 0
           t == l.wtop
           x == IF d THEN l.top ELSE Up(t)
           y == IF d THEN l.top ELSE Up(Up(t))
           m == Emptied(l, x, d)
           tags == [s \in Slot |-> IF Dist(Phys(t, 2), s) >= N - 2 THEN FALSE
                                   ELSE l.tag[s]]
<1>1. Rep(f, a) /\ f.npush = 0 /\ f.npop = 0 /\ f.run = b.run
  BY FlushTags DEF SameButTags
<1> HIDE DEF f
<1>2. /\ Rep(l, a) /\ ~l.perm_dirty /\ l.run = b.run
      /\ l.npush = 0 /\ l.npop = 0
  <2>1. CASE f.run > 0
    BY <1>1, <2>1, PermFlush DEF SameButPerm
  <2>2. CASE ~(f.run > 0)
    BY <1>1, <2>2, MaxRunAssumption DEF Rep, JOK, JitState, Idle
  <2> QED
    BY <2>1, <2>2
<1>3. x87_pop_n(b, 2) = [l EXCEPT !.wtop = Phys(t, 2), !.tag = tags, !.top = y,
                                  !.top_dirty = d]
  <2>1. f \in JitState /\ l \in JitState
    BY <1>1, <1>2 DEF Rep, JOK
  <2>2. CASE f.run > 0
    BY <2>1, <2>2 DEF x87_pop_n, emit_x87_tag_set_empty_batch, JitState, f
  <2>3. CASE ~(f.run > 0)
    <3>1. l = f /\ y = Up(Up(t)) /\ d = FALSE
      BY <2>3
    <3>2. x87_pop_n(b, 2) = [emit_x87_pop_n(f, 2) EXCEPT !.top_dirty = FALSE]
      BY <2>3 DEF x87_pop_n, f
    <3> HIDE DEF l, y, d
    <3>3. Phys(t, 2) = Up(Up(t))
      BY <2>1, UpUp DEF JitState
    <3> DEFINE u == Phys(f.wtop, 2)
               e == [f EXCEPT !.wtop = u, !.top = u]
    <3>4. emit_x87_pop_n(f, 2) = emit_x87_tag_set_empty_batch(e, 2)
      BY <2>1 DEF emit_x87_pop_n, emit_store_top, JitState
    <3>5. e.wtop = u /\ e.tag = f.tag
      BY <2>1 DEF JitState
    <3>6. emit_x87_tag_set_empty_batch(e, 2) = [e EXCEPT !.tag = tags]
      BY <3>1, <3>5 DEF emit_x87_tag_set_empty_batch
    <3> HIDE DEF tags
    <3>7. t = f.wtop /\ u = Phys(t, 2) /\ u = y
      BY <3>1, <3>3
    <3> HIDE DEF u, t
    <3>8. x87_pop_n(b, 2) = [f EXCEPT !.wtop = u, !.tag = tags, !.top = u,
                                      !.top_dirty = FALSE]
      BY <2>1, <3>2, <3>4, <3>6 DEF JitState
    <3> QED
      BY <3>1, <3>7, <3>8
  <2> QED
    BY <2>2, <2>3
<1>4. l \in JitState /\ t \in Slot /\ Up(t) \in Slot /\ Up(Up(t)) \in Slot
  BY <1>2, UpDown DEF Rep, JOK, JitState
<1>5. /\ x \in Slot /\ y \in Slot /\ d \in BOOLEAN
      /\ l.run = 0 => ~d
  BY <1>1, <1>2, <1>4 DEF JitState
<1>6. /\ ~d => x = Up(t)
      /\ ~d => y = Up(Up(t))
  OBVIOUS
<1>7. Rep(m, Pop(a)) /\ m.run = l.run /\ ~m.perm_dirty /\ m.npush = 0
      /\ m.npop = 0 /\ m.wtop = Up(t)
  <2> HIDE DEF x, d, l
  <2> QED
    BY <1>2, <1>5, <1>6, EmptyRep
<1>8. /\ Rep(Emptied(m, y, d), Pop(Pop(a)))
      /\ Emptied(m, y, d).run = l.run
  <2> HIDE DEF m, y, d, l
  <2> QED
    BY <1>2, <1>5, <1>6, <1>7, EmptyRep
<1>9. Phys(t, 2) = Up(Up(t))
  BY <1>4, UpUp
<1>10. [[l.tag EXCEPT ![t] = FALSE] EXCEPT ![Up(t)] = FALSE] = tags
  <2> HIDE DEF t, l
  <2>1. \A s \in Slot : Dist(Up(Up(t)), s) >= N - 2 <=> s = t \/ s = Up(t)
    BY <1>4, UpDown, DistIn, NAssumption
  <2> QED
    BY <1>4, <1>9, <2>1 DEF JitState
<1>11. Emptied(m, y, d) = x87_pop_n(b, 2)
  <2> HIDE DEF l, x, y, d, tags
  <2> QED
    BY <1>3, <1>4, <1>9, <1>10 DEF Emptied, JitState
<1> QED
  BY <1>2, <1>8, <1>11

(***************************************************************************)
(* The architectural machine.                                              *)
(***************************************************************************)
\* Every mnemonic computes a value.
LEMMA ArithIn ==
    ASSUME NEW op \in ArithOps, NEW x \in Val, NEW y \in Val
    PROVE  Arith(op, x, y) \in Val
BY FAssumption DEF ArithOps, Arith, BinOps

\* Exchanging the operands and the mnemonic gives the same result.
LEMMA ArithSwap ==
    ASSUME NEW op \in ArithOps, NEW x \in Val, NEW y \in Val
    PROVE  Swapped(op) \in ArithOps /\ Arith(Swapped(op), x, y) = Arith(op, y, x)
BY CommutativeAssumption DEF ArithOps, Arith, Swapped

\* Seen from a TOP one lower, every register is one deeper.
LEMMA DownPhys ==
    ASSUME NEW t \in Slot, NEW d \in Depth, d + 1 \in Depth
    PROVE  /\ Phys(Down(t), d + 1) = Phys(t, d)
           /\ Phys(t, d) # Down(t) /\ Phys(t, d) \in Slot
BY NAssumption DEF Down, Phys, Depth, Slot

\* What a push does to the registers and to later operations.
LEMMA PushST ==
    ASSUME NEW a \in State, NEW v \in Val
    PROVE  /\ Push(a, v) \in State
           /\ ST(Push(a, v), 0) = v /\ InUse(Push(a, v), 0)
           /\ \A w \in Val : SetST(Push(a, v), 0, w) = Push(a, w)
           /\ \A d \in Depth : d + 1 \in Depth =>
                /\ ST(Push(a, v), d + 1) = ST(a, d)
                /\ InUse(Push(a, v), d + 1) <=> InUse(a, d)
                /\ \A w \in Val :
                     SetST(Push(a, v), d + 1, w) = Push(SetST(a, d, w), v)
<1> DEFINE t == Down(a.top)
           p == Push(a, v)
<1>1. /\ a.top \in Slot /\ t \in Slot /\ a.tag \in [Slot -> BOOLEAN]
      /\ a.st \in [Slot -> Val]
  BY UpDown DEF State
<1>2. p = [a EXCEPT !.top = t, !.tag = [a.tag EXCEPT ![t] = TRUE],
                    !.st = [a.st EXCEPT ![t] = v]]
  BY DEF Push, Down
<1> HIDE DEF t, p
<1>3. /\ p \in State /\ p.top = t /\ p.tag = [a.tag EXCEPT ![t] = TRUE]
      /\ p.st = [a.st EXCEPT ![t] = v]
  BY <1>1, <1>2 DEF State
<1>4. Phys(t, 0) = t
  BY <1>1, BatchTop, NAssumption
<1>5. ASSUME NEW d \in Depth, d + 1 \in Depth
      PROVE  Phys(t, d + 1) = Phys(a.top, d) /\ Phys(a.top, d) # t
                /\ Phys(a.top, d) \in Slot
  BY <1>1, <1>5, DownPhys DEF t
<1>6. ST(p, 0) = v /\ InUse(p, 0)
  BY <1>1, <1>3, <1>4 DEF ST, InUse
<1>7. ASSUME NEW w \in Val PROVE SetST(p, 0, w) = Push(a, w)
  <2>1. Push(a, w) = [a EXCEPT !.top = t, !.tag = [a.tag EXCEPT ![t] = TRUE],
                    !.st = [a.st EXCEPT ![t] = w]]
    BY DEF Push, Down, t
  <2>2. SetST(p, 0, w) = [p EXCEPT !.st = [p.st EXCEPT ![t] = w]]
    BY <1>3, <1>4 DEF SetST
  <2>3. [p.st EXCEPT ![t] = w] = [a.st EXCEPT ![t] = w]
    BY <1>1, <1>3
  <2> QED
    BY <1>2, <2>1, <2>2, <2>3 DEF State
<1>8. ASSUME NEW d \in Depth, d + 1 \in Depth
      PROVE  /\ ST(p, d + 1) = ST(a, d)
             /\ InUse(p, d + 1) <=> InUse(a, d)
             /\ \A w \in Val : SetST(p, d + 1, w) = Push(SetST(a, d, w), v)
  <2> DEFINE u == Phys(a.top, d)
  <2>1. Phys(t, d + 1) = u /\ u # t /\ u \in Slot
    BY <1>5, <1>8
  <2>2. ST(p, d + 1) = ST(a, d) /\ (InUse(p, d + 1) <=> InUse(a, d))
    BY <1>1, <1>3, <2>1 DEF ST, InUse
  <2>3. ASSUME NEW w \in Val
        PROVE  SetST(p, d + 1, w) = Push(SetST(a, d, w), v)
    <3> DEFINE q == SetST(a, d, w)
    <3>1. /\ q = [a EXCEPT !.st = [a.st EXCEPT ![u] = w]]
          /\ q \in State /\ q.top = a.top /\ q.tag = a.tag
          /\ q.st = [a.st EXCEPT ![u] = w]
      BY <1>1, <2>1 DEF SetST, State
    <3> HIDE DEF q, u
    <3>2. Push(q, v) = [q EXCEPT !.top = t, !.tag = [a.tag EXCEPT ![t] = TRUE],
                                 !.st = [q.st EXCEPT ![t] = v]]
      BY <3>1 DEF Push, Down, t
    <3>3. SetST(p, d + 1, w) = [p EXCEPT !.st = [p.st EXCEPT ![u] = w]]
      BY <1>3, <2>1 DEF SetST
    <3>4. [q.st EXCEPT ![t] = v] = [p.st EXCEPT ![u] = w]
      BY <1>1, <1>3, <2>1, <3>1
    <3> DEFINE tg == [a.tag EXCEPT ![t] = TRUE]
               sv == [p.st EXCEPT ![u] = w]
    <3> HIDE DEF tg, sv
    <3>5. /\ Push(q, v) = [a EXCEPT !.top = t, !.tag = tg, !.st = sv]
          /\ SetST(p, d + 1, w) = [a EXCEPT !.top = t, !.tag = tg, !.st = sv]
      BY <1>2, <3>1, <3>2, <3>3, <3>4 DEF State, tg, sv
    <3> QED
      BY <3>5 DEF q
  <2> QED
    BY <2>2, <2>3
<1> QED
  BY <1>3, <1>6, <1>7, <1>8 DEF p

\* A register that is not in use holds Zero.
Cleared(a) == a \in State /\ \A s \in Slot : ~a.tag[s] => a.st[s] = Zero

\* Popping what was pushed onto an empty register restores the stack.
LEMMA PopPush ==
    ASSUME NEW a, Cleared(a), NEW v \in Val, ~InUse(a, N - 1)
    PROVE  Pop(Push(a, v)) = a
<1> DEFINE t == Down(a.top)
           p == Push(a, v)
<1>1. /\ a.top \in Slot /\ t \in Slot /\ a.tag \in [Slot -> BOOLEAN]
      /\ a.st \in [Slot -> Val] /\ a \in State
  BY UpDown DEF State, Cleared
<1>2. p = [a EXCEPT !.top = t, !.tag = [a.tag EXCEPT ![t] = TRUE],
                    !.st = [a.st EXCEPT ![t] = v]]
  BY DEF Push, Down
<1>3. ~a.tag[t] /\ a.st[t] = Zero
  BY <1>1 DEF InUse, Down, Cleared
<1>4. Phys(t, 1) = a.top
  BY <1>1, UpDown DEF Up
<1> HIDE DEF t, p
<1>5. /\ p.top = t /\ p.tag = [a.tag EXCEPT ![t] = TRUE]
      /\ p.st = [a.st EXCEPT ![t] = v]
  BY <1>1, <1>2 DEF State
<1>6. Pop(p) = [p EXCEPT !.top = a.top, !.tag = [p.tag EXCEPT ![t] = FALSE],
                         !.st = [p.st EXCEPT ![t] = Zero]]
  BY <1>4, <1>5 DEF Pop
<1>7. [p.tag EXCEPT ![t] = FALSE] = a.tag
  BY <1>1, <1>3, <1>5
<1>8. [p.st EXCEPT ![t] = Zero] = a.st
  BY <1>1, <1>3, <1>5
<1> QED
  BY <1>1, <1>2, <1>6, <1>7, <1>8 DEF State, p

(***************************************************************************)
(* Parts of the state that are never cached.                               *)
(***************************************************************************)
\* A cache that differs from b in cc, cw, nzcv and out alone stands for the
\* state that differs in the same way.
LEMMA Recolour ==
    ASSUME NEW b, NEW a, NEW c \in CC, NEW w \in CW, NEW f \in CC,
           NEW o \in Outs, Rep(b, a)
    PROVE  Rep([b EXCEPT !.cc = c, !.cw = w, !.nzcv = f, !.out = o],
               [a EXCEPT !.cc = c, !.cw = w, !.nzcv = f, !.out = o])
<1> DEFINE k == [b EXCEPT !.cc = c, !.cw = w, !.nzcv = f, !.out = o]
           e == [a EXCEPT !.cc = c, !.cw = w, !.nzcv = f, !.out = o]
<1>1. b \in JitState /\ JOK(b) /\ a \in State
  BY DEF Rep, JOK
<1>2. /\ k \in JitState /\ k.wtop = b.wtop /\ k.npush = b.npush
      /\ k.npop = b.npop /\ k.top = b.top /\ k.top_dirty = b.top_dirty
      /\ k.tag = b.tag /\ k.st = b.st /\ k.perm = b.perm
      /\ k.perm_dirty = b.perm_dirty /\ k.run = b.run
      /\ k.gprs_valid = b.gprs_valid /\ k.cc = c /\ k.cw = w
      /\ k.nzcv = f /\ k.out = o
  BY <1>1 DEF JitState
<1>3. /\ e \in State /\ e.top = a.top /\ e.tag = a.tag /\ e.st = a.st
      /\ e.cc = c /\ e.cw = w /\ e.nzcv = f /\ e.out = o
  BY <1>1 DEF State
<1> HIDE DEF k, e
<1>4. JOK(k)
  BY <1>1, <1>2 DEF JOK, TopOK, PermOK, TagOK, Idle
<1>5. \A s \in Slot : /\ TagOf(k, s) <=> TagOf(b, s)
                      /\ emit_load_st(k, Dist(k.wtop, s))
                           = emit_load_st(b, Dist(b.wtop, s))
  BY <1>2 DEF TagOf, emit_load_st, resolve_depth
<1>6. Rep(k, e)
  BY <1>2, <1>3, <1>4, <1>5 DEF Rep
<1> QED
  BY <1>6 DEF k, e

\* What an instruction stores for the guest.
LEMMA EmitRep ==
    ASSUME NEW b, NEW a, NEW o \in Outs, Rep(b, a)
    PROVE  /\ Rep(Emit(b, o), Emit(a, o))
           /\ Emit(b, o).run = b.run /\ Emit(b, o).wtop = b.wtop
<1>1. b \in JitState /\ a \in State /\ a.cc = b.cc /\ a.cw = b.cw
      /\ a.nzcv = b.nzcv
  BY DEF Rep, JOK
<1>2. b.cc \in CC /\ b.cw \in CW /\ b.nzcv \in CC
  BY <1>1 DEF JitState
<1>3. Emit(b, o) = [b EXCEPT !.cc = b.cc, !.cw = b.cw, !.nzcv = b.nzcv,
                             !.out = o]
  BY <1>1 DEF Emit, JitState
<1>4. Emit(a, o) = [a EXCEPT !.cc = b.cc, !.cw = b.cw, !.nzcv = b.nzcv,
                             !.out = o]
  BY <1>1 DEF Emit, State
<1>5. Rep(Emit(b, o), Emit(a, o))
  <2>1. Rep([b EXCEPT !.cc = b.cc, !.cw = b.cw, !.nzcv = b.nzcv, !.out = o],
            [a EXCEPT !.cc = b.cc, !.cw = b.cw, !.nzcv = b.nzcv, !.out = o])
    BY <1>2, Recolour
  <2> QED
    BY <1>3, <1>4, <2>1
<1> QED
  BY <1>1, <1>5 DEF Emit, JitState

\* The condition codes of a comparison.
LEMMA CcRep ==
    ASSUME NEW b, NEW a, NEW c \in CC, Rep(b, a)
    PROVE  /\ Rep([b EXCEPT !.cc = c], [a EXCEPT !.cc = c])
           /\ [b EXCEPT !.cc = c].run = b.run
           /\ [b EXCEPT !.cc = c].wtop = b.wtop
           /\ [b EXCEPT !.cc = c].top = b.top
<1>1. b \in JitState /\ a \in State /\ a.out = b.out /\ a.cw = b.cw
      /\ a.nzcv = b.nzcv
  BY DEF Rep, JOK
<1>2. b.out \in Outs /\ b.cw \in CW /\ b.nzcv \in CC
  BY <1>1 DEF JitState
<1>3. [b EXCEPT !.cc = c] = [b EXCEPT !.cc = c, !.cw = b.cw,
                                      !.nzcv = b.nzcv, !.out = b.out]
  BY <1>1 DEF JitState
<1>4. [a EXCEPT !.cc = c] = [a EXCEPT !.cc = c, !.cw = b.cw,
                                      !.nzcv = b.nzcv, !.out = b.out]
  BY <1>1 DEF State
<1>5. Rep([b EXCEPT !.cc = c], [a EXCEPT !.cc = c])
  <2>1. Rep([b EXCEPT !.cc = c, !.cw = b.cw, !.nzcv = b.nzcv, !.out = b.out],
            [a EXCEPT !.cc = c, !.cw = b.cw, !.nzcv = b.nzcv, !.out = b.out])
    BY <1>2, Recolour
  <2> QED
    BY <1>3, <1>4, <2>1
<1> QED
  BY <1>1, <1>5 DEF JitState

\* The flags an instruction leaves for the guest.
LEMMA NzcvRep ==
    ASSUME NEW b, NEW a, NEW f \in CC, Rep(b, a)
    PROVE  /\ Rep([b EXCEPT !.nzcv = f], [a EXCEPT !.nzcv = f])
           /\ [b EXCEPT !.nzcv = f].run = b.run
<1>1. b \in JitState /\ a \in State /\ a.out = b.out /\ a.cw = b.cw
      /\ a.cc = b.cc
  BY DEF Rep, JOK
<1>2. b.out \in Outs /\ b.cw \in CW /\ b.cc \in CC
  BY <1>1 DEF JitState
<1>3. [b EXCEPT !.nzcv = f] = [b EXCEPT !.cc = b.cc, !.cw = b.cw,
                                        !.nzcv = f, !.out = b.out]
  BY <1>1 DEF JitState
<1>4. [a EXCEPT !.nzcv = f] = [a EXCEPT !.cc = b.cc, !.cw = b.cw,
                                        !.nzcv = f, !.out = b.out]
  BY <1>1 DEF State
<1>5. Rep([b EXCEPT !.nzcv = f], [a EXCEPT !.nzcv = f])
  <2>1. Rep([b EXCEPT !.cc = b.cc, !.cw = b.cw, !.nzcv = f, !.out = b.out],
            [a EXCEPT !.cc = b.cc, !.cw = b.cw, !.nzcv = f, !.out = b.out])
    BY <1>2, Recolour
  <2> QED
    BY <1>3, <1>4, <2>1
<1> QED
  BY <1>1, <1>5 DEF JitState

\* The control word.
LEMMA CwRep ==
    ASSUME NEW b, NEW a, NEW w \in CW, Rep(b, a)
    PROVE  /\ Rep([b EXCEPT !.cw = w], [a EXCEPT !.cw = w])
           /\ [b EXCEPT !.cw = w].run = b.run
<1>1. b \in JitState /\ a \in State /\ a.out = b.out /\ a.nzcv = b.nzcv
      /\ a.cc = b.cc
  BY DEF Rep, JOK
<1>2. b.out \in Outs /\ b.nzcv \in CC /\ b.cc \in CC
  BY <1>1 DEF JitState
<1>3. [b EXCEPT !.cw = w] = [b EXCEPT !.cc = b.cc, !.cw = w,
                                      !.nzcv = b.nzcv, !.out = b.out]
  BY <1>1 DEF JitState
<1>4. [a EXCEPT !.cw = w] = [a EXCEPT !.cc = b.cc, !.cw = w,
                                      !.nzcv = b.nzcv, !.out = b.out]
  BY <1>1 DEF State
<1>5. Rep([b EXCEPT !.cw = w], [a EXCEPT !.cw = w])
  <2>1. Rep([b EXCEPT !.cc = b.cc, !.cw = w, !.nzcv = b.nzcv, !.out = b.out],
            [a EXCEPT !.cc = b.cc, !.cw = w, !.nzcv = b.nzcv, !.out = b.out])
    BY <1>2, Recolour
  <2> QED
    BY <1>3, <1>4, <2>1
<1> QED
  BY <1>1, <1>5 DEF JitState

\* Operand fetch, emit_fld_value: memory or a register in use.
LEMMA ValueRep ==
    ASSUME NEW b, NEW a, Rep(b, a), NEW src \in Src, Readable(a, src)
    PROVE  emit_fld_value(b, src) = Value(a, src) /\ Value(a, src) \in Val
<1>1. CASE src \in [kind : {"val"}, v : Val]
  BY <1>1 DEF emit_fld_value, Value
<1>2. CASE src \in [kind : {"reg"}, d : Depth]
  <2>1. src.kind # "val" /\ src.d \in Depth /\ InUse(a, src.d)
    BY <1>2 DEF Readable
  <2> QED
    BY <2>1, LoadRep DEF emit_fld_value, Value
<1> QED
  BY <1>1, <1>2 DEF Src

(***************************************************************************)
(* The boundary between instructions.  Between two handlers the cache      *)
(* registers may not be loaded yet; then nothing is deferred.  Between(j,  *)
(* a) is the inductive invariant of Spec, with j = jit and a = fpu.        *)
(***************************************************************************)
Between(j, a) == /\ j \in JitState
                 /\ ~j.gprs_valid => Idle(j)
                 /\ Rep(x87_begin(j), a)

\* The net-zero fusions write TOP back, or leave a batch's baseline alone.
LEMMA NetZeroRep ==
    ASSUME NEW b, NEW a, Rep(b, a)
    PROVE  /\ Rep(NetZeroFlush(b), a) /\ NetZeroFlush(b).run = b.run
           /\ NetZeroFlush(b).wtop = b.wtop
           /\ ~(b.npush > 0 /\ b.top_dirty) => NetZeroFlush(b).top = b.wtop
BY FlushTop DEF NetZeroFlush

\* x87_end leaves nothing deferred when the run ends with this instruction.
LEMMA EndRep ==
    ASSUME NEW k, NEW a, Rep(k, a), NEW c \in Nat
    PROVE  /\ Rep(x87_end(k, c), a)
           /\ x87_end(k, c).run = k.run
           /\ x87_end(k, c).run <= c => Idle(x87_end(k, c))
BY FlushAllRep DEF x87_end

\* A cache whose registers are loaded, or that defers nothing, is a boundary
\* state.
LEMMA RepBetween ==
    ASSUME NEW k, NEW a, Rep(k, a)
    PROVE  Between(k, a)
<1>1. k \in JitState /\ JOK(k)
  BY DEF Rep, JOK
<1>2. x87_begin(k) = k
  <2>1. CASE k.run > 0
    BY <1>1, <2>1 DEF x87_begin, JOK
  <2>2. CASE ~(k.run > 0)
    <3>1. k.run = 0 /\ ~k.gprs_valid /\ k.top = k.wtop
      BY <1>1, <2>2, MaxRunAssumption DEF JOK, JitState, Idle, TopOK
    <3>2. k.gprs_valid = (k.gprs_valid \/ k.run > 0)
      BY <1>1, <3>1 DEF JitState
    <3>3. x87_begin(k) = [k EXCEPT !.wtop = k.wtop, !.gprs_valid = k.gprs_valid]
      BY <3>1, <3>2 DEF x87_begin
    <3> QED
      BY <1>1, <3>3 DEF JitState
  <2> QED
    BY <2>1, <2>2
<1> QED
  BY <1>1, <1>2, MaxRunAssumption DEF Between, JOK, JitState

\* tick() loses nothing when the last instruction of a run left nothing.
LEMMA TickRep ==
    ASSUME NEW k, NEW a, Rep(k, a), NEW c \in Nat, c > 0,
           k.run <= c => Idle(k)
    PROVE  Between(tick(k, c), a)
<1>1. k \in JitState /\ JOK(k) /\ k.run \in 0..MaxRun /\ k.run \in Nat
  BY MaxRunAssumption DEF Rep, JOK, JitState
<1>2. CASE k.run = 0
  BY <1>2, RepBetween DEF tick
<1>3. CASE k.run > c
  <2> DEFINE m == tick(k, c)
  <2>1. k.run - c \in 0..MaxRun /\ k.run - c > 0
    BY <1>1, <1>3, MaxRunAssumption
  <2>2. m = [k EXCEPT !.run = k.run - c]
    BY <1>1, <1>3 DEF tick
  <2> HIDE DEF m
  <2>3. /\ m \in JitState /\ m.wtop = k.wtop /\ m.npush = k.npush
        /\ m.npop = k.npop /\ m.top = k.top /\ m.top_dirty = k.top_dirty
        /\ m.tag = k.tag /\ m.st = k.st /\ m.perm = k.perm
        /\ m.perm_dirty = k.perm_dirty /\ m.run = k.run - c
        /\ m.gprs_valid = k.gprs_valid /\ m.cc = k.cc /\ m.cw = k.cw
        /\ m.nzcv = k.nzcv /\ m.out = k.out
    BY <1>1, <2>1, <2>2 DEF JitState
  <2>4. JOK(m)
    BY <1>1, <1>3, <2>1, <2>3 DEF JOK, TopOK, PermOK, TagOK, Idle
  <2>5. \A s \in Slot : /\ TagOf(m, s) <=> TagOf(k, s)
                        /\ emit_load_st(m, Dist(m.wtop, s))
                             = emit_load_st(k, Dist(k.wtop, s))
    BY <2>3 DEF TagOf, emit_load_st, resolve_depth
  <2>6. Rep(m, a)
    BY <2>3, <2>4, <2>5 DEF Rep
  <2> QED
    BY <2>6, RepBetween DEF m
<1>4. CASE k.run # 0 /\ ~(k.run > c)
  <2> DEFINE m == tick(k, c)
             n == x87_begin(m)
  <2>1. Idle(k) /\ k.top = k.wtop
    BY <1>1, <1>4 DEF JOK, TopOK, Idle
  <2>2. m = [k EXCEPT !.run = 0, !.gprs_valid = FALSE, !.top_dirty = FALSE,
                      !.npush = 0, !.npop = 0]
    BY <1>4 DEF tick
  <2> HIDE DEF m
  <2>3. /\ m \in JitState /\ m.wtop = k.wtop /\ m.npush = k.npush
        /\ m.npop = k.npop /\ m.top = k.top /\ ~m.top_dirty
        /\ m.tag = k.tag /\ m.st = k.st /\ m.perm = k.perm
        /\ m.perm_dirty = k.perm_dirty /\ m.run = 0
        /\ ~m.gprs_valid /\ m.cc = k.cc /\ m.cw = k.cw
        /\ m.nzcv = k.nzcv /\ m.out = k.out
    <3>1. k.npush = 0 /\ k.npop = 0
      BY <1>1, <2>1 DEF JitState, Idle
    <3>2. 0 \in 0..N /\ 0 \in 0..MaxRun
      BY MaxRunAssumption, NAssumption
    <3>3. m \in JitState
      BY <1>1, <2>2, <3>2 DEF JitState
    <3> QED
      BY <1>1, <2>2, <3>1, <3>3 DEF JitState
  <2>4. JOK(m)
    BY <1>1, <1>4, <2>1, <2>3 DEF JOK, TopOK, PermOK, TagOK, Idle
  <2>5. \A s \in Slot : /\ TagOf(m, s) <=> TagOf(k, s)
                        /\ emit_load_st(m, Dist(m.wtop, s))
                             = emit_load_st(k, Dist(k.wtop, s))
    BY <2>3 DEF TagOf, emit_load_st, resolve_depth
  <2>6. Rep(m, a)
    BY <2>3, <2>4, <2>5 DEF Rep
  <2> QED
    BY <2>6, RepBetween DEF m
<1> QED
  BY <1>1, <1>2, <1>3, <1>4

\* The end of a handler: x87_end, then the ticks of translate_instruction.
LEMMA Finish ==
    ASSUME NEW k, NEW a, Rep(k, a), NEW c \in Nat, c > 0
    PROVE  Between(tick(x87_end(k, c), c), a)
BY EndRep, TickRep

\* The start of a handler: whatever run lookahead reports, x87_begin yields
\* a cache that stands for the guest's state.
LEMMA Start ==
    ASSUME Between(jit, fpu), NEW j \in Entry
    PROVE  /\ Between(j, A) /\ Rep(x87_begin(j), A)
           /\ x87_begin(j).npush = j.npush
           /\ x87_begin(j).top_dirty = j.top_dirty
           /\ x87_begin(j).run = j.run
<1>1. PICK r \in 0..MaxRun : /\ j = [jit EXCEPT !.out = NoOut, !.run = r]
                             /\ jit.run > 0 => r = jit.run
  <2>1. jit \in JitState /\ jit.run \in 0..MaxRun
    BY DEF Between, JitState
  <2>2. CASE jit.run = 0
    <3>1. PICK n \in 0..MaxRun : j = Quiet(set_run(jit, n))
      BY <2>2 DEF Entry
    <3>2. CASE n >= 2
      <4>1. j = [jit EXCEPT !.out = NoOut, !.run = n]
        BY <2>1, <3>1, <3>2 DEF Quiet, set_run, JitState
      <4>2. ~(jit.run > 0)
        BY <2>2
      <4> QED
        BY <4>1, <4>2
    <3>3. CASE ~(n >= 2)
      <4>1. j = [jit EXCEPT !.out = NoOut, !.run = jit.run]
        BY <2>1, <3>1, <3>3 DEF Quiet, set_run, JitState
      <4> QED
        BY <2>1, <2>2, <4>1
    <3> QED
      BY <3>2, <3>3
  <2>3. CASE jit.run # 0
    <3>1. j = [jit EXCEPT !.out = NoOut, !.run = jit.run]
      BY <2>1, <2>3 DEF Quiet, Entry, JitState
    <3> QED
      BY <2>1, <3>1
  <2> QED
    BY <2>2, <2>3
<1> DEFINE b == x87_begin(jit)
           k == x87_begin(j)
<1>2. /\ jit \in JitState /\ Rep(b, fpu)
      /\ ~jit.gprs_valid => Idle(jit)
      /\ jit.run \in Nat /\ NoOut \in Outs
  BY MaxRunAssumption DEF Between, JitState, Outs
<1>3. /\ j \in JitState /\ j.npush = jit.npush /\ j.wtop = jit.wtop
      /\ j.npop = jit.npop /\ j.top = jit.top /\ j.top_dirty = jit.top_dirty
      /\ j.tag = jit.tag /\ j.st = jit.st /\ j.perm = jit.perm
      /\ j.perm_dirty = jit.perm_dirty /\ j.run = r
      /\ j.gprs_valid = jit.gprs_valid /\ j.cc = jit.cc /\ j.cw = jit.cw
      /\ j.nzcv = jit.nzcv /\ j.out = NoOut
  BY <1>1, <1>2 DEF JitState
<1>4. /\ b \in JitState /\ b.npush = jit.npush /\ b.npop = jit.npop
      /\ b.top = jit.top /\ b.top_dirty = jit.top_dirty /\ b.tag = jit.tag
      /\ b.st = jit.st /\ b.perm = jit.perm /\ b.perm_dirty = jit.perm_dirty
      /\ b.run = jit.run /\ b.cc = jit.cc /\ b.cw = jit.cw
      /\ b.nzcv = jit.nzcv /\ b.out = jit.out
  BY <1>2 DEF x87_begin, JitState
<1>5. /\ k \in JitState /\ k.npush = j.npush /\ k.npop = j.npop
      /\ k.top = j.top /\ k.top_dirty = j.top_dirty /\ k.tag = j.tag
      /\ k.st = j.st /\ k.perm = j.perm /\ k.perm_dirty = j.perm_dirty
      /\ k.run = j.run /\ k.cc = j.cc /\ k.cw = j.cw
      /\ k.nzcv = j.nzcv /\ k.out = j.out
  BY <1>3 DEF x87_begin, JitState
<1>6. /\ JOK(b) /\ fpu \in State
      /\ jit.run = 0 => ~jit.gprs_valid
  <2>1. JOK(b) /\ fpu \in State
    BY <1>2 DEF Rep
  <2>2. jit.run = 0 => ~b.gprs_valid
    BY <1>4, <2>1 DEF JOK
  <2> QED
    BY <1>2, <2>1, <2>2 DEF x87_begin, JitState
<1>7. /\ k.wtop = b.wtop
      /\ k.run = 0 => ~k.gprs_valid
      /\ k.run > 0 => k.gprs_valid
  <2>1. CASE jit.run > 0 /\ jit.gprs_valid
    BY <1>1, <1>3, <2>1 DEF x87_begin
  <2>2. CASE ~(jit.run > 0 /\ jit.gprs_valid)
    <3>1. ~jit.gprs_valid /\ ~j.gprs_valid
      BY <1>2, <1>3, <1>6, <2>2
    <3>2. b.wtop = jit.top /\ k.wtop = j.top
      BY <1>2, <1>3, <3>1 DEF x87_begin, JitState
    <3>3. /\ k.run = 0 => ~k.gprs_valid
          /\ k.run > 0 => k.gprs_valid
      <4>1. k = [j EXCEPT !.wtop = j.top,
                          !.gprs_valid = (j.gprs_valid \/ j.run > 0)]
        BY <3>1 DEF x87_begin
      <4>2. k.gprs_valid <=> (j.gprs_valid \/ j.run > 0)
        BY <1>3, <4>1 DEF JitState
      <4>3. k.run = 0 => ~(j.run > 0)
        BY <1>5
      <4> QED
        BY <1>5, <3>1, <4>2, <4>3
    <3> QED
      BY <1>3, <3>2, <3>3
  <2> QED
    BY <2>1, <2>2
<1> HIDE DEF b, k
<1>8. /\ A \in State /\ A.top = fpu.top /\ A.tag = fpu.tag /\ A.st = fpu.st
      /\ A.cc = fpu.cc /\ A.cw = fpu.cw /\ A.nzcv = fpu.nzcv /\ A.out = NoOut
  BY <1>2, <1>6 DEF A, Quiet, State
<1>9. JOK(k)
  <2>1. k.run = 0 => Idle(k)
    BY <1>1, <1>2, <1>3, <1>4, <1>5, <1>6 DEF JOK, Idle
  <2>2. TopOK(k) /\ PermOK(k) /\ TagOK(k)
    BY <1>3, <1>4, <1>5, <1>6, <1>7 DEF JOK, TopOK, PermOK, TagOK
  <2> QED
    BY <1>5, <1>7, <2>1, <2>2 DEF JOK
<1>10. \A s \in Slot : /\ TagOf(k, s) <=> TagOf(b, s)
                       /\ emit_load_st(k, Dist(k.wtop, s))
                            = emit_load_st(b, Dist(b.wtop, s))
  BY <1>3, <1>4, <1>5, <1>7 DEF TagOf, emit_load_st, resolve_depth
<1>11. Rep(k, A)
  BY <1>2, <1>3, <1>4, <1>5, <1>7, <1>8, <1>9, <1>10 DEF Rep
<1>12. ~j.gprs_valid => Idle(j)
  BY <1>2, <1>3 DEF Idle
<1> QED
  BY <1>3, <1>5, <1>11, <1>12 DEF Between, k

(***************************************************************************)
(* One lemma for each translate_* function.                                *)
(***************************************************************************)
\* What a pop does to the registers below.
LEMMA PopST ==
    ASSUME NEW a \in State, NEW d \in Depth, d + 1 \in Depth
    PROVE  /\ InUse(Pop(a), d) <=> InUse(a, d + 1)
           /\ ST(Pop(a), d) = ST(a, d + 1)
<1> DEFINE t == a.top
<1>1. t \in Slot /\ a.tag \in [Slot -> BOOLEAN] /\ a.st \in [Slot -> Val]
  BY DEF State
<1>2. /\ Pop(a).top = Up(t) /\ Pop(a).tag = [a.tag EXCEPT ![t] = FALSE]
      /\ Pop(a).st = [a.st EXCEPT ![t] = Zero]
  BY DEF Pop, State, Up
<1> HIDE DEF t
<1>3. Phys(Up(t), d) = Phys(t, d + 1) /\ Phys(t, d + 1) \in Slot
      /\ Phys(t, d + 1) # t
  BY <1>1, NAssumption DEF Up, Phys, Slot, Depth
<1> QED
  BY <1>1, <1>2, <1>3 DEF InUse, ST, t

\* Storing to a register, or anything outside the stack, moves no register.
LEMMA SetInUse ==
    ASSUME NEW a \in State, NEW d \in Depth, NEW e, NEW v \in Val
    PROVE  /\ InUse(SetST(a, d, v), e) <=> InUse(a, e)
           /\ SetST(a, d, v) \in State
BY PhysIn DEF InUse, SetST, State

\* The registers the popping forms of an instruction pop.
LEMMA PopIfRep ==
    ASSUME NEW b, NEW a, Rep(b, a), NEW n \in 0..2,
           n > 0 => InUse(a, 0), n = 2 => InUse(a, 1)
    PROVE  Rep(PopIf(b, n), PopN(a, n)) /\ PopIf(b, n).run = b.run
<1>1. CASE n = 0
  BY <1>1 DEF PopIf, PopN
<1>2. CASE n = 1
  BY <1>2, PopRep DEF PopIf, PopN
<1>3. CASE n = 2
  <2>1. a \in State /\ 0 \in Depth /\ 0 + 1 \in Depth /\ 0 + 1 = 1
    BY NAssumption DEF Rep, Depth
  <2>2. InUse(Pop(a), 0)
    BY <1>3, <2>1, PopST
  <2> QED
    BY <1>3, <2>2, PopTwoRep DEF PopIf, PopN
<1> QED
  BY <1>1, <1>2, <1>3

\* translate_fld and the constant and integer loads.
LEMMA StepFld ==
    ASSUME Between(jit, fpu), Shapes = {}, Fld
    PROVE  Between(jit', fpu')
<1>1. PICK j \in Entry, src \in Src :
         /\ PushOK(j) /\ CanPush(A, 1) /\ Readable(A, src)
         /\ Step(translate_fld(j, src), 1, FLD(A, src))
  BY DEF Fld
<1> DEFINE b == x87_begin(j)
<1>2. Rep(b, A) /\ (b.npush > 0 => b.top_dirty)
  BY <1>1, Start DEF PushOK
<1> HIDE DEF b
<1>3. ~InUse(A, N - 1)
  BY <1>1 DEF CanPush
<1>4. emit_fld_value(b, src) = Value(A, src) /\ Value(A, src) \in Val
  BY <1>1, <1>2, ValueRep
<1>5. Rep(emit_store_st(x87_push(b), 0, emit_fld_value(b, src)), FLD(A, src))
  BY <1>2, <1>3, <1>4, PushRep DEF FLD
<1> QED
  BY <1>1, <1>5, Finish DEF Step, translate_fld, b

\* translate_fadd, fsub, fmul, fdiv and the integer forms.
LEMMA StepArithmetic ==
    ASSUME Between(jit, fpu), Arithmetic
    PROVE  Between(jit', fpu')
<1>1. PICK j \in Entry, op \in ArithOps, i \in Depth, src \in Src :
         /\ InUse(A, i) /\ Readable(A, src)
         /\ Step(translate_arith(j, op, i, src), 1, FARITH(A, op, i, src))
  BY DEF Arithmetic
<1> DEFINE b == x87_begin(j)
           r == Arith(op, emit_load_st(b, i), emit_fld_value(b, src))
<1>2. Rep(b, A)
  BY <1>1, Start
<1> HIDE DEF b
<1>3. r = Arith(op, ST(A, i), Value(A, src)) /\ r \in Val
  BY <1>1, <1>2, ValueRep, LoadRep, ArithIn
<1> HIDE DEF r
<1>4. Rep(emit_store_st(b, i, r), FARITH(A, op, i, src))
  BY <1>1, <1>2, <1>3, StoreRep DEF FARITH
<1> QED
  BY <1>1, <1>4, Finish DEF Step, translate_arith, b, r

\* translate_faddp and the other popping forms.
LEMMA ArithpRep ==
    ASSUME NEW b, NEW a, Rep(b, a), NEW op \in ArithOps, NEW i \in Depth,
           InUse(a, 0), InUse(a, i)
    PROVE  LET r == Arith(op, emit_load_st(b, i), emit_load_st(b, 0))
               k == x87_pop(emit_store_st(b, i, r))
           IN  Rep(k, FARITHP(a, op, i)) /\ k.run = b.run
<1> DEFINE r == Arith(op, emit_load_st(b, i), emit_load_st(b, 0))
<1>1. 0 \in Depth /\ a \in State
  BY NAssumption DEF Depth, Rep
<1>2. r = Arith(op, ST(a, i), ST(a, 0)) /\ r \in Val
  BY <1>1, LoadRep, ArithIn
<1>3. Value(a, Reg(0)) = ST(a, 0)
  BY DEF Value, Reg
<1> HIDE DEF r
<1>4. /\ Rep(emit_store_st(b, i, r), SetST(a, i, r))
      /\ emit_store_st(b, i, r).run = b.run
  BY <1>2, StoreRep
<1>5. InUse(SetST(a, i, r), 0)
  BY <1>1, <1>2, SetInUse
<1>6. Pop(SetST(a, i, r)) = FARITHP(a, op, i)
  BY <1>2, <1>3 DEF FARITHP, FARITH
<1>7. /\ Rep(x87_pop(emit_store_st(b, i, r)), FARITHP(a, op, i))
      /\ x87_pop(emit_store_st(b, i, r)).run = b.run
  BY <1>4, <1>5, <1>6, PopRep
<1> QED
  BY <1>7 DEF r

\* translate_faddp, fsubp, fmulp, fdivp and the reversed forms.
LEMMA StepArithmeticPop ==
    ASSUME Between(jit, fpu), ArithmeticPop
    PROVE  Between(jit', fpu')
<1>1. PICK j \in Entry, op \in ArithOps, i \in Depth :
         /\ InUse(A, 0) /\ InUse(A, i)
         /\ Step(translate_arithp(j, op, i), 1, FARITHP(A, op, i))
  BY DEF ArithmeticPop
<1>2. Rep(x87_begin(j), A)
  BY <1>1, Start
<1> QED
  BY <1>1, <1>2, ArithpRep, Finish DEF Step, translate_arithp

\* Depth 0 and 1 exist, and every kind of output is one.
LEMMA Basics ==
    /\ 0 \in Depth /\ 1 \in Depth /\ NoOut \in Outs
    /\ \A v \in Val : OutVal(v) \in Outs
    /\ \A t \in Slot, c \in CC : OutSW(t, c) \in Outs
    /\ \A c \in CW : OutCW(c) \in Outs
BY NAssumption DEF Depth, Outs

\* translate_fchs, fabs, fsqrt.
LEMMA StepUnary ==
    ASSUME Between(jit, fpu), Unary
    PROVE  Between(jit', fpu')
<1>1. PICK j \in Entry, op \in {"chs", "abs", "sqrt"} :
         InUse(A, 0) /\ Step(translate_unary(j, op), 1, FUNARY(A, op))
  BY DEF Unary
<1> DEFINE b == x87_begin(j)
           r == U(op, emit_load_st(b, 0))
<1>2. Rep(b, A)
  BY <1>1, Start
<1> HIDE DEF b
<1>3. r = U(op, ST(A, 0)) /\ r \in Val
  BY <1>1, <1>2, Basics, LoadRep, UAssumption DEF UnOps
<1> HIDE DEF r
<1>4. Rep(emit_store_st(b, 0, r), FUNARY(A, op))
  BY <1>1, <1>2, <1>3, Basics, StoreRep DEF FUNARY
<1> QED
  BY <1>1, <1>4, Finish DEF Step, translate_unary, b, r

\* Rounding to an integer under the control word.
LEMMA RoundRep ==
    ASSUME NEW b, NEW a, Rep(b, a), InUse(a, 0)
    PROVE  /\ Round(b.cw, emit_load_st(b, 0)) = Round(a.cw, ST(a, 0))
           /\ Round(a.cw, ST(a, 0)) \in Val
<1>1. emit_load_st(b, 0) = ST(a, 0) /\ ST(a, 0) \in Val
  BY Basics, LoadRep
<1>2. a.cw = b.cw /\ a.cw \in CW
  BY DEF Rep, State
<1> QED
  BY <1>1, <1>2, RoundAssumption

\* translate_frndint.
LEMMA StepFrndint ==
    ASSUME Between(jit, fpu), Frndint
    PROVE  Between(jit', fpu')
<1>1. PICK j \in Entry :
         InUse(A, 0) /\ Step(translate_frndint(j), 1, FRNDINT(A))
  BY DEF Frndint
<1> DEFINE b == x87_begin(j)
           r == Round(b.cw, emit_load_st(b, 0))
<1>2. Rep(b, A)
  BY <1>1, Start
<1> HIDE DEF b
<1>3. r = Round(A.cw, ST(A, 0)) /\ r \in Val
  BY <1>1, <1>2, RoundRep
<1> HIDE DEF r
<1>4. Rep(emit_store_st(b, 0, r), FRNDINT(A))
  BY <1>1, <1>2, <1>3, Basics, StoreRep DEF FRNDINT
<1> QED
  BY <1>1, <1>4, Finish DEF Step, translate_frndint, b, r

\* Storing a value for the guest and then popping.
LEMMA EmitPopRep ==
    ASSUME NEW b, NEW a, Rep(b, a), NEW o \in Outs, NEW n \in 0..2,
           InUse(a, 0), n = 2 => InUse(a, 1)
    PROVE  Rep(PopIf(Emit(b, o), n), PopN(Emit(a, o), n))
<1>1. Rep(Emit(b, o), Emit(a, o))
  BY EmitRep
<1>2. InUse(Emit(a, o), 0) /\ (n = 2 => InUse(Emit(a, o), 1))
  BY DEF Emit, InUse, Rep, State
<1> QED
  BY <1>1, <1>2, PopIfRep

\* translate_fst, memory operand.
LEMMA StepFst ==
    ASSUME Between(jit, fpu), Fst
    PROVE  Between(jit', fpu')
<1>1. PICK j \in Entry, n \in {0, 1} :
         InUse(A, 0) /\ Step(translate_fst(j, n), 1, PopN(FST(A), n))
  BY DEF Fst
<1> DEFINE b == x87_begin(j)
           o == OutVal(emit_load_st(b, 0))
<1>2. Rep(b, A) /\ n \in 0..2 /\ n # 2
  BY <1>1, Start
<1> HIDE DEF b
<1>3. o = OutVal(ST(A, 0)) /\ o \in Outs
  BY <1>1, <1>2, Basics, LoadRep
<1> HIDE DEF o
<1>4. Rep(PopIf(Emit(b, o), n), PopN(FST(A), n))
  BY <1>1, <1>2, <1>3, EmitPopRep DEF FST
<1> QED
  BY <1>1, <1>4, Finish DEF Step, translate_fst, b, o

\* translate_fist and fistp.
LEMMA StepFist ==
    ASSUME Between(jit, fpu), Fist
    PROVE  Between(jit', fpu')
<1>1. PICK j \in Entry, n \in {0, 1} :
         InUse(A, 0) /\ Step(translate_fist(j, n), 1, PopN(FIST(A), n))
  BY DEF Fist
<1> DEFINE b == x87_begin(j)
           o == OutVal(Round(b.cw, emit_load_st(b, 0)))
<1>2. Rep(b, A) /\ n \in 0..2 /\ n # 2
  BY <1>1, Start
<1> HIDE DEF b
<1>3. o = OutVal(Round(A.cw, ST(A, 0))) /\ o \in Outs
  BY <1>1, <1>2, Basics, RoundRep
<1> HIDE DEF o
<1>4. Rep(PopIf(Emit(b, o), n), PopN(FIST(A), n))
  BY <1>1, <1>2, <1>3, EmitPopRep DEF FIST
<1> QED
  BY <1>1, <1>4, Finish DEF Step, translate_fist, b, o

\* translate_fisttp.
LEMMA StepFisttp ==
    ASSUME Between(jit, fpu), Fisttp
    PROVE  Between(jit', fpu')
<1>1. PICK j \in Entry : InUse(A, 0) /\ Step(translate_fisttp(j), 1, FISTTP(A))
  BY DEF Fisttp
<1> DEFINE b == x87_begin(j)
           o == OutVal(U("trunc", emit_load_st(b, 0)))
<1>2. Rep(b, A)
  BY <1>1, Start
<1> HIDE DEF b
<1>3. o = OutVal(U("trunc", ST(A, 0))) /\ o \in Outs
  BY <1>1, <1>2, Basics, LoadRep, UAssumption DEF UnOps
<1> HIDE DEF o
<1>4. Rep(PopIf(Emit(b, o), 1), PopN(Emit(A, o), 1))
  BY <1>1, <1>2, <1>3, EmitPopRep
<1>5. Rep(x87_pop(Emit(b, o)), FISTTP(A))
  BY <1>3, <1>4 DEF PopIf, PopN, FISTTP
<1> QED
  BY <1>1, <1>5, Finish DEF Step, translate_fisttp, b, o

\* translate_fst, 80-bit operand: the flags are the ones the compare leaves.
LEMMA StepFstM80 ==
    ASSUME Between(jit, fpu), Shapes = {}, FstM80
    PROVE  Between(jit', fpu')
<1>1. PICK j \in Entry, f \in CC :
         /\ InUse(A, 0)
         /\ Step(translate_fst_m80(j, f), 1, [Pop(FST(A)) EXCEPT !.nzcv = f])
  BY DEF FstM80
<1> DEFINE b == x87_begin(j)
           o == OutVal(emit_load_st(b, 0))
           e == [Emit(b, o) EXCEPT !.nzcv = f]
<1>2. Rep(b, A) /\ A \in State
  BY <1>1, Start DEF Rep
<1> HIDE DEF b
<1>3. o = OutVal(ST(A, 0)) /\ o \in Outs
  BY <1>1, <1>2, Basics, LoadRep
<1> HIDE DEF o
<1>4. Rep(e, [FST(A) EXCEPT !.nzcv = f])
  BY <1>2, <1>3, EmitRep, NzcvRep DEF FST
<1>5. /\ InUse([FST(A) EXCEPT !.nzcv = f], 0)
      /\ Pop([FST(A) EXCEPT !.nzcv = f]) = [Pop(FST(A)) EXCEPT !.nzcv = f]
  BY <1>1, <1>2 DEF FST, Emit, InUse, State, Pop
<1>6. Rep(x87_pop(e), [Pop(FST(A)) EXCEPT !.nzcv = f])
  <2> HIDE DEF e
  <2> QED
    BY <1>4, <1>5, PopRep
<1> QED
  BY <1>1, <1>6, Finish DEF Step, translate_fst_m80, b, o

\* fst ST(i): copying ST(0), to itself when i = 0.
LEMMA CopyRep ==
    ASSUME NEW b, NEW a, Rep(b, a), NEW i \in Depth, InUse(a, 0), InUse(a, i)
    PROVE  LET m == IF i = 0 THEN b ELSE emit_store_st(b, i, emit_load_st(b, 0))
           IN  Rep(m, FSTReg(a, i)) /\ m.run = b.run
<1>1. emit_load_st(b, 0) = ST(a, 0) /\ ST(a, 0) \in Val /\ a \in State
  BY Basics, LoadRep DEF Rep
<1>2. CASE i = 0
  <2>1. FSTReg(a, 0) = a
    BY <1>1, Basics, PhysIn DEF FSTReg, SetST, ST, State
  <2> QED
    BY <1>2, <2>1
<1>3. CASE i # 0
  BY <1>1, <1>3, StoreRep DEF FSTReg
<1> QED
  BY <1>2, <1>3

\* translate_fst, register operand.
LEMMA StepFstReg ==
    ASSUME Between(jit, fpu), FstReg
    PROVE  Between(jit', fpu')
<1>1. PICK j \in Entry, i \in Depth, n \in {0, 1} :
         /\ InUse(A, 0) /\ InUse(A, i)
         /\ Step(translate_fst_reg(j, i, n), 1, PopN(FSTReg(A, i), n))
  BY DEF FstReg
<1> DEFINE b == x87_begin(j)
           m == IF i = 0 THEN b ELSE emit_store_st(b, i, emit_load_st(b, 0))
<1>2. Rep(b, A) /\ n \in 0..2 /\ n # 2 /\ A \in State
  BY <1>1, Start DEF Rep
<1> HIDE DEF b
<1>3. Rep(m, FSTReg(A, i))
  BY <1>1, <1>2, CopyRep
<1>4. InUse(FSTReg(A, i), 0)
  BY <1>1, <1>2, Basics, SetInUse, LoadRep DEF FSTReg
<1> HIDE DEF m
<1>5. Rep(PopIf(m, n), PopN(FSTReg(A, i), n))
  BY <1>2, <1>3, <1>4, PopIfRep
<1> QED
  BY <1>1, <1>5, Finish DEF Step, translate_fst_reg, b, m

\* translate_fcom, fucom, ficom and their popping forms.
LEMMA StepFcom ==
    ASSUME Between(jit, fpu), Fcom
    PROVE  Between(jit', fpu')
<1>1. PICK j \in Entry, src \in Src, n \in 0..2 :
         /\ n = 2 => src = Reg(1)
         /\ InUse(A, 0) /\ Readable(A, src)
         /\ Step(translate_fcom(j, src, n), 1, PopN(FCOM(A, src), n))
  BY DEF Fcom
<1> DEFINE b == x87_begin(j)
           r == Cmp(emit_load_st(b, 0), emit_fld_value(b, src))
<1>2. Rep(b, A) /\ A \in State
  BY <1>1, Start DEF Rep
<1> HIDE DEF b
<1>3. r = Cmp(ST(A, 0), Value(A, src)) /\ r \in CC
  BY <1>1, <1>2, Basics, LoadRep, ValueRep, CmpAssumption
<1> HIDE DEF r
<1>4. Rep([b EXCEPT !.cc = r], FCOM(A, src))
  BY <1>2, <1>3, CcRep DEF FCOM
<1>5. InUse(FCOM(A, src), 0) /\ (n = 2 => InUse(FCOM(A, src), 1))
  BY <1>1, <1>2 DEF FCOM, InUse, State, Readable, Reg
<1>6. Rep(PopIf([b EXCEPT !.cc = r], n), PopN(FCOM(A, src), n))
  BY <1>4, <1>5, PopIfRep
<1> QED
  BY <1>1, <1>6, Finish DEF Step, translate_fcom, b, r

\* translate_ftst.
LEMMA StepFtst ==
    ASSUME Between(jit, fpu), Ftst
    PROVE  Between(jit', fpu')
<1>1. PICK j \in Entry : InUse(A, 0) /\ Step(translate_ftst(j), 1, FTST(A))
  BY DEF Ftst
<1> DEFINE b == x87_flush_top(x87_flush_tags(x87_begin(j)))
           r == Cmp(emit_load_st(b, 0), Zero)
<1>2. Rep(b, A)
  BY <1>1, Start, FlushTags, FlushTop
<1> HIDE DEF b
<1>3. r = Cmp(ST(A, 0), Zero) /\ r \in CC
  BY <1>1, <1>2, Basics, LoadRep, CmpAssumption, ZeroAssumption
<1> HIDE DEF r
<1>4. Rep([b EXCEPT !.cc = r], FTST(A))
  BY <1>2, <1>3, CcRep DEF FTST
<1> QED
  BY <1>1, <1>4, Finish DEF Step, translate_ftst, b, r

\* translate_fcomi and fcomip.
LEMMA StepFcomi ==
    ASSUME Between(jit, fpu), Fcomi
    PROVE  Between(jit', fpu')
<1>1. PICK j \in Entry, i \in Depth, n \in {0, 1} :
         /\ InUse(A, 0) /\ InUse(A, i)
         /\ Step(translate_fcomi(j, i, n), 1, PopN(FCOMI(A, i), n))
  BY DEF Fcomi
<1> DEFINE b == x87_begin(j)
           r == Cmp(emit_load_st(b, 0), emit_load_st(b, i))
<1>2. Rep(b, A) /\ A \in State /\ n \in 0..2 /\ n # 2
  BY <1>1, Start DEF Rep
<1> HIDE DEF b
<1>3. r = Cmp(ST(A, 0), ST(A, i)) /\ r \in CC
  BY <1>1, <1>2, Basics, LoadRep, CmpAssumption
<1> HIDE DEF r
<1>4. Rep([b EXCEPT !.nzcv = r], FCOMI(A, i))
  BY <1>2, <1>3, NzcvRep DEF FCOMI
<1>5. InUse(FCOMI(A, i), 0)
  BY <1>1, <1>2 DEF FCOMI, InUse, State
<1>6. Rep(PopIf([b EXCEPT !.nzcv = r], n), PopN(FCOMI(A, i), n))
  BY <1>2, <1>4, <1>5, PopIfRep
<1> QED
  BY <1>1, <1>6, Finish DEF Step, translate_fcomi, b, r

\* translate_fcmov.
LEMMA StepFcmov ==
    ASSUME Between(jit, fpu), Fcmov
    PROVE  Between(jit', fpu')
<1>1. PICK j \in Entry, i \in Depth :
         /\ InUse(A, 0) /\ InUse(A, i)
         /\ Step(translate_fcmov(j, i), 1, FCMOV(A, i))
  BY DEF Fcmov
<1> DEFINE b == x87_flush_top(x87_flush_tags(x87_begin(j)))
           v == IF Cond(b.nzcv) THEN emit_load_st(b, i) ELSE emit_load_st(b, 0)
<1>2. Rep(b, A) /\ A \in State /\ A.nzcv = b.nzcv
  BY <1>1, Start, FlushTags, FlushTop DEF Rep
<1> HIDE DEF b
<1>3. /\ v = IF Cond(A.nzcv) THEN ST(A, i) ELSE ST(A, 0)
      /\ v \in Val
  BY <1>1, <1>2, Basics, LoadRep
<1>4. FCMOV(A, i) = SetST(A, 0, v)
  <2>1. SetST(A, 0, ST(A, 0)) = A
    BY <1>2, Basics, PhysIn DEF SetST, ST, State
  <2> QED
    BY <1>3, <2>1 DEF FCMOV
<1> HIDE DEF v
<1>5. Rep(emit_store_st(b, 0, v), FCMOV(A, i))
  BY <1>1, <1>2, <1>3, <1>4, Basics, StoreRep
<1> QED
  BY <1>1, <1>5, Finish DEF Step, translate_fcmov, b, v

\* translate_fldcw.
LEMMA StepFldcw ==
    ASSUME Between(jit, fpu), Fldcw
    PROVE  Between(jit', fpu')
<1>1. PICK j \in Entry, c \in CW : Step(translate_fldcw(j, c), 1, FLDCW(A, c))
  BY DEF Fldcw
<1> DEFINE b == x87_flush_top(x87_begin(j))
<1>2. Rep(b, A)
  BY <1>1, Start, FlushTop
<1> HIDE DEF b
<1>3. Rep([b EXCEPT !.cw = c], FLDCW(A, c))
  BY <1>2, CwRep DEF FLDCW
<1> QED
  BY <1>1, <1>3, Finish DEF Step, translate_fldcw, b

\* translate_fnstcw.
LEMMA StepFnstcw ==
    ASSUME Between(jit, fpu), Fnstcw
    PROVE  Between(jit', fpu')
<1>1. PICK j \in Entry : Step(translate_fnstcw(j), 1, FNSTCW(A))
  BY DEF Fnstcw
<1> DEFINE b == x87_begin(j)
<1>2. Rep(b, A) /\ A.cw = b.cw /\ A.cw \in CW
  BY <1>1, Start DEF Rep, State
<1> HIDE DEF b
<1>3. Rep(Emit(b, OutCW(b.cw)), FNSTCW(A))
  BY <1>2, Basics, EmitRep DEF FNSTCW
<1> QED
  BY <1>1, <1>3, Finish DEF Step, translate_fnstcw, b

\* translate_fnop.
LEMMA StepFnop ==
    ASSUME Between(jit, fpu), Fnop
    PROVE  Between(jit', fpu')
BY Start, Finish DEF Fnop, Step, translate_fnop

(***************************************************************************)
(* The state in memory, when nothing is deferred: what Rosetta's runtime   *)
(* routines read and write.                                                *)
(***************************************************************************)
MemRep(m, a) ==
    /\ m \in JitState /\ Idle(m) /\ PermOK(m) /\ a \in State
    /\ m.top = a.top /\ m.cc = a.cc /\ m.cw = a.cw /\ m.nzcv = a.nzcv
    /\ m.out = a.out
    /\ m.gprs_valid => m.run > 0
    /\ \A s \in Slot : /\ a.tag[s] <=> m.tag[s]
                       /\ a.tag[s] => a.st[s] = m.st[s]
                       /\ ~a.tag[s] => a.st[s] = Zero
SameCache(k, m) ==
    k.wtop = m.wtop /\ k.gprs_valid = m.gprs_valid /\ k.run = m.run

\* When nothing is deferred, memory holds the guest's state.
LEMMA BetweenMem ==
    ASSUME NEW j, NEW a, Between(j, a), Idle(j)
    PROVE  MemRep(j, a) /\ (j.gprs_valid => j.wtop = j.top)
<1> DEFINE b == x87_begin(j)
<1>1. j \in JitState /\ Rep(b, a)
  BY DEF Between
<1>2. /\ b.npush = j.npush /\ b.npop = j.npop
      /\ b.top = j.top /\ b.top_dirty = j.top_dirty /\ b.tag = j.tag
      /\ b.st = j.st /\ b.perm = j.perm /\ b.perm_dirty = j.perm_dirty
      /\ b.run = j.run /\ b.cc = j.cc /\ b.cw = j.cw
      /\ b.nzcv = j.nzcv /\ b.out = j.out
  BY <1>1 DEF x87_begin, JitState
<1>3. JOK(b) /\ b.wtop = b.top /\ b.wtop \in Slot
  BY <1>1, <1>2 DEF Rep, JOK, TopOK, Idle, JitState
<1>4. j.run > 0 /\ j.gprs_valid => j.wtop = b.wtop
  BY DEF x87_begin
<1>5. j.gprs_valid => j.run > 0
  <2>1. b.run = 0 => ~b.gprs_valid
    BY <1>3 DEF JOK
  <2>2. j.run = 0 => ~j.gprs_valid
    BY <1>1, <1>2, <2>1 DEF x87_begin, JitState
  <2> QED
    BY <1>1, <2>2, MaxRunAssumption DEF JitState
<1> HIDE DEF b
<1>6. PermOK(j)
  BY <1>2, <1>3 DEF JOK, PermOK
<1>7. \A s \in Slot : /\ TagOf(b, s) <=> j.tag[s]
                      /\ emit_load_st(b, Dist(b.wtop, s)) = j.st[s]
  BY <1>2, <1>3, DistIn, NAssumption DEF TagOf, Idle, emit_load_st, resolve_depth
<1> QED
  BY <1>1, <1>2, <1>3, <1>4, <1>5, <1>6, <1>7 DEF MemRep, Rep

\* Conversely, memory that holds the guest's state is a boundary state.
LEMMA MemBetween ==
    ASSUME NEW m, NEW a, MemRep(m, a), m.gprs_valid => m.wtop = m.top
    PROVE  Between(m, a)
<1> DEFINE b == x87_begin(m)
<1>1. m \in JitState /\ m.top \in Slot
  BY DEF MemRep, JitState
<1>2. /\ b \in JitState /\ b.npush = m.npush /\ b.npop = m.npop
      /\ b.top = m.top /\ b.top_dirty = m.top_dirty /\ b.tag = m.tag
      /\ b.st = m.st /\ b.perm = m.perm /\ b.perm_dirty = m.perm_dirty
      /\ b.run = m.run /\ b.cc = m.cc /\ b.cw = m.cw
      /\ b.nzcv = m.nzcv /\ b.out = m.out
  BY <1>1 DEF x87_begin, JitState
<1>3. b.wtop = b.top
  BY <1>1, <1>2 DEF x87_begin, JitState
<1>4. b.gprs_valid <=> (b.run > 0)
  <2>1. CASE m.run > 0 /\ m.gprs_valid
    BY <1>2, <2>1 DEF x87_begin
  <2>2. CASE ~(m.run > 0 /\ m.gprs_valid)
    <3>1. b = [m EXCEPT !.wtop = m.top,
                        !.gprs_valid = (m.gprs_valid \/ m.run > 0)]
      BY <2>2 DEF x87_begin
    <3>2. ~m.gprs_valid
      BY <2>2 DEF MemRep
    <3>3. b.gprs_valid <=> (m.gprs_valid \/ m.run > 0)
      BY <1>1, <3>1 DEF JitState
    <3> QED
      BY <1>2, <3>2, <3>3
  <2> QED
    BY <2>1, <2>2
<1> HIDE DEF b
<1>5. /\ b.run = 0 => ~b.gprs_valid
      /\ b.run > 0 => b.gprs_valid
  BY <1>4
<1>6. Idle(b) /\ PermOK(b)
  BY <1>2 DEF MemRep, Idle, PermOK
<1>7. TagOK(b) /\ TopOK(b)
  BY <1>1, <1>2, <1>3, <1>6, DistIn, NAssumption DEF TagOK, TopOK, Idle
<1>8. JOK(b)
  BY <1>2, <1>5, <1>6, <1>7 DEF JOK
<1>9. \A s \in Slot : /\ TagOf(b, s) <=> m.tag[s]
                      /\ emit_load_st(b, Dist(b.wtop, s)) = m.st[s]
  BY <1>1, <1>2, <1>3, <1>6, DistIn, NAssumption
     DEF TagOf, Idle, emit_load_st, resolve_depth
<1>10. Rep(b, a)
  BY <1>2, <1>3, <1>8, <1>9 DEF MemRep, Rep
<1> QED
  BY <1>1, <1>10 DEF Between, MemRep, b

\* tick() keeps memory as it is.
LEMMA TickMem ==
    ASSUME NEW m, NEW a, MemRep(m, a), m.gprs_valid => m.wtop = m.top,
           NEW c \in Nat, c > 0
    PROVE  Between(tick(m, c), a)
<1> DEFINE k == tick(m, c)
<1>1. m \in JitState /\ m.run \in 0..MaxRun /\ Idle(m)
  BY DEF MemRep, JitState
<1>2. /\ k \in JitState /\ k.wtop = m.wtop /\ k.top = m.top /\ k.tag = m.tag
      /\ k.st = m.st /\ k.perm = m.perm /\ k.perm_dirty = m.perm_dirty
      /\ k.cc = m.cc /\ k.cw = m.cw /\ k.nzcv = m.nzcv /\ k.out = m.out
      /\ ~k.top_dirty /\ k.npush = 0 /\ k.npop = 0
      /\ k.gprs_valid => m.gprs_valid /\ k.run > 0
  <2>1. CASE m.run = 0
    BY <1>1, <2>1 DEF tick, Idle, MemRep
  <2>2. CASE m.run > c
    <3>1. m.run - c \in 0..MaxRun /\ m.run - c > 0
      BY <1>1, <2>2, MaxRunAssumption
    <3>2. k = [m EXCEPT !.run = m.run - c]
      BY <1>1, <2>2 DEF tick
    <3> HIDE DEF k
    <3> QED
      BY <1>1, <3>1, <3>2 DEF JitState, Idle
  <2>3. CASE m.run # 0 /\ ~(m.run > c)
    <3>1. 0 \in 0..N /\ 0 \in 0..MaxRun
      BY MaxRunAssumption, NAssumption
    <3>2. k = [m EXCEPT !.run = 0, !.gprs_valid = FALSE, !.top_dirty = FALSE,
                        !.npush = 0, !.npop = 0]
      BY <2>3 DEF tick
    <3> HIDE DEF k
    <3>3. k \in JitState
      BY <1>1, <3>1, <3>2 DEF JitState
    <3> QED
      BY <1>1, <3>2, <3>3 DEF JitState
  <2> QED
    BY <2>1, <2>2, <2>3
<1> HIDE DEF k
<1>3. MemRep(k, a) /\ (k.gprs_valid => k.wtop = k.top)
  BY <1>1, <1>2 DEF MemRep, Idle, PermOK
<1> QED
  BY <1>3, MemBetween DEF k

\* Reading the state in memory.
LEMMA MemST ==
    ASSUME NEW m, NEW a, MemRep(m, a), NEW d \in Depth
    PROVE  /\ InUse(m, d) <=> InUse(a, d)
           /\ InUse(a, d) => ST(m, d) = ST(a, d) /\ ST(a, d) \in Val
<1>1. a.top \in Slot /\ m.top = a.top /\ a.st \in [Slot -> Val]
  BY DEF MemRep, State
<1>2. Phys(a.top, d) \in Slot
  BY <1>1, PhysIn
<1> QED
  BY <1>1, <1>2 DEF MemRep, InUse, ST

\* A cache that differs from m in memory alone, and the guest's state after
\* the same change.
Written(k, m, t, g, v, c) ==
    k = [m EXCEPT !.top = t, !.tag = g, !.st = v, !.cc = c]
Reached(e, a, t, g, v, c) ==
    /\ e \in State /\ e.top = t /\ e.cc = c
    /\ e.cw = a.cw /\ e.nzcv = a.nzcv /\ e.out = a.out
    /\ \A s \in Slot : /\ e.tag[s] <=> g[s]
                       /\ e.tag[s] => e.st[s] = v[s]
                       /\ ~e.tag[s] => e.st[s] = Zero

\* They stand for each other.
LEMMA MemUpdate ==
    ASSUME NEW m, NEW a, NEW e, MemRep(m, a), NEW t \in Slot,
           NEW g, g \in [Slot -> BOOLEAN], NEW v, v \in [Slot -> Val],
           NEW c \in CC, NEW k, Written(k, m, t, g, v, c),
           Reached(e, a, t, g, v, c)
    PROVE  MemRep(k, e) /\ SameCache(k, m) /\ k.top = t
<1>1. m \in JitState
  BY DEF MemRep
<1>2. /\ k \in JitState /\ k.wtop = m.wtop /\ k.top = t /\ k.tag = g
      /\ k.st = v /\ k.perm = m.perm /\ k.perm_dirty = m.perm_dirty
      /\ k.cc = c /\ k.cw = m.cw /\ k.nzcv = m.nzcv /\ k.out = m.out
      /\ k.top_dirty = m.top_dirty /\ k.npush = m.npush /\ k.npop = m.npop
      /\ k.gprs_valid = m.gprs_valid /\ k.run = m.run
  BY <1>1 DEF JitState, Written
<1> QED
  BY <1>2 DEF MemRep, Idle, PermOK, SameCache, Reached

\* Storing to a register in memory.
LEMMA MemSet ==
    ASSUME NEW m, NEW a, MemRep(m, a), NEW d \in Depth, InUse(a, d),
           NEW x \in Val
    PROVE  /\ MemRep(SetST(m, d, x), SetST(a, d, x))
           /\ SameCache(SetST(m, d, x), m) /\ SetST(m, d, x).top = m.top
<1> DEFINE u == Phys(a.top, d)
           k == SetST(m, d, x)
           e == SetST(a, d, x)
           v == [m.st EXCEPT ![u] = x]
<1>1. /\ m \in JitState /\ a \in State /\ m.top = a.top /\ m.top \in Slot
      /\ u \in Slot /\ m.tag \in [Slot -> BOOLEAN] /\ m.st \in [Slot -> Val]
      /\ m.cc \in CC /\ m.cc = a.cc /\ a.tag[u] /\ a.st \in [Slot -> Val]
  BY PhysIn DEF MemRep, JitState, InUse, State
<1>2. k = [m EXCEPT !.top = m.top, !.tag = m.tag, !.st = v, !.cc = m.cc]
  BY <1>1 DEF SetST, JitState
<1>3. v \in [Slot -> Val]
  BY <1>1
<1>4. /\ e \in State /\ e.top = m.top /\ e.cc = m.cc /\ e.cw = a.cw
      /\ e.nzcv = a.nzcv /\ e.out = a.out /\ e.tag = a.tag
      /\ e.st = [a.st EXCEPT ![u] = x]
  BY <1>1 DEF SetST, State
<1> HIDE DEF k, e
<1>5. \A s \in Slot : /\ e.tag[s] <=> m.tag[s]
                      /\ e.tag[s] => e.st[s] = v[s]
                      /\ ~e.tag[s] => e.st[s] = Zero
  BY <1>1, <1>4 DEF MemRep
<1> HIDE DEF v
<1>6. Written(k, m, m.top, m.tag, v, m.cc)
  BY <1>2 DEF Written
<1>7. Reached(e, a, m.top, m.tag, v, m.cc)
  BY <1>4, <1>5 DEF Reached
<1>8. MemRep(k, e) /\ SameCache(k, m) /\ k.top = m.top
  BY <1>1, <1>3, <1>6, <1>7, MemUpdate
<1> QED
  BY <1>8 DEF k, e

\* Pushing on the stack in memory.
LEMMA MemPush ==
    ASSUME NEW m, NEW a, MemRep(m, a), NEW x \in Val
    PROVE  /\ MemRep(Push(m, x), Push(a, x))
           /\ SameCache(Push(m, x), m) /\ Push(m, x).top = Down(m.top)
<1> DEFINE u == Down(m.top)
           k == Push(m, x)
           e == Push(a, x)
           g == [m.tag EXCEPT ![u] = TRUE]
           v == [m.st EXCEPT ![u] = x]
<1>1. /\ m \in JitState /\ a \in State /\ m.top = a.top /\ m.top \in Slot
      /\ u \in Slot /\ m.tag \in [Slot -> BOOLEAN] /\ m.st \in [Slot -> Val]
      /\ m.cc \in CC /\ m.cc = a.cc /\ a.st \in [Slot -> Val]
      /\ a.tag \in [Slot -> BOOLEAN]
  BY UpDown DEF MemRep, JitState, State
<1>2. k = [m EXCEPT !.top = u, !.tag = g, !.st = v, !.cc = m.cc]
  BY <1>1 DEF Push, JitState, Down
<1>3. v \in [Slot -> Val] /\ g \in [Slot -> BOOLEAN]
  BY <1>1
<1>4. /\ e \in State /\ e.top = u /\ e.cc = m.cc /\ e.cw = a.cw
      /\ e.nzcv = a.nzcv /\ e.out = a.out
      /\ e.tag = [a.tag EXCEPT ![u] = TRUE] /\ e.st = [a.st EXCEPT ![u] = x]
  BY <1>1 DEF Push, State, Down
<1> HIDE DEF k, e, u
<1>5. \A s \in Slot : /\ e.tag[s] <=> g[s]
                      /\ e.tag[s] => e.st[s] = v[s]
                      /\ ~e.tag[s] => e.st[s] = Zero
  BY <1>1, <1>4 DEF MemRep
<1> HIDE DEF v, g
<1>6. Written(k, m, u, g, v, m.cc)
  BY <1>2 DEF Written
<1>7. Reached(e, a, u, g, v, m.cc)
  BY <1>4, <1>5 DEF Reached
<1>8. MemRep(k, e) /\ SameCache(k, m) /\ k.top = u
  BY <1>1, <1>3, <1>6, <1>7, MemUpdate
<1> QED
  BY <1>8 DEF k, e, u

\* Popping the stack in memory.
LEMMA MemPop ==
    ASSUME NEW m, NEW a, MemRep(m, a)
    PROVE  /\ MemRep(Pop(m), Pop(a))
           /\ SameCache(Pop(m), m) /\ Pop(m).top = Up(m.top)
<1> DEFINE u == m.top
           k == Pop(m)
           e == Pop(a)
           g == [m.tag EXCEPT ![u] = FALSE]
           v == [m.st EXCEPT ![u] = Zero]
<1>1. /\ m \in JitState /\ a \in State /\ m.top = a.top /\ m.top \in Slot
      /\ Up(u) \in Slot /\ m.tag \in [Slot -> BOOLEAN] /\ m.st \in [Slot -> Val]
      /\ m.cc \in CC /\ m.cc = a.cc /\ a.st \in [Slot -> Val]
      /\ a.tag \in [Slot -> BOOLEAN]
  BY UpDown DEF MemRep, JitState, State
<1>2. k = [m EXCEPT !.top = Up(u), !.tag = g, !.st = v, !.cc = m.cc]
  BY <1>1 DEF Pop, JitState, Up
<1>3. v \in [Slot -> Val] /\ g \in [Slot -> BOOLEAN]
  BY <1>1, ZeroAssumption
<1>4. /\ e \in State /\ e.top = Up(u) /\ e.cc = m.cc /\ e.cw = a.cw
      /\ e.nzcv = a.nzcv /\ e.out = a.out
      /\ e.tag = [a.tag EXCEPT ![u] = FALSE] /\ e.st = [a.st EXCEPT ![u] = Zero]
  BY <1>1, ZeroAssumption DEF Pop, State, Up
<1> HIDE DEF k, e, u
<1>5. \A s \in Slot : /\ e.tag[s] <=> g[s]
                      /\ e.tag[s] => e.st[s] = v[s]
                      /\ ~e.tag[s] => e.st[s] = Zero
  BY <1>1, <1>4 DEF MemRep
<1> HIDE DEF v, g
<1>6. Written(k, m, Up(u), g, v, m.cc)
  BY <1>2 DEF Written
<1>7. Reached(e, a, Up(u), g, v, m.cc)
  BY <1>4, <1>5 DEF Reached
<1>8. MemRep(k, e) /\ SameCache(k, m) /\ k.top = Up(u)
  BY <1>1, <1>3, <1>6, <1>7, MemUpdate
<1> QED
  BY <1>8 DEF k, e, u

\* The parts of the state in memory that are not the stack.
LEMMA MemRecolour ==
    ASSUME NEW m, NEW a, MemRep(m, a), NEW c \in CC, NEW f \in CC,
           NEW o \in Outs
    PROVE  MemRep([m EXCEPT !.cc = c, !.nzcv = f, !.out = o],
                  [a EXCEPT !.cc = c, !.nzcv = f, !.out = o])
<1> DEFINE k == [m EXCEPT !.cc = c, !.nzcv = f, !.out = o]
           e == [a EXCEPT !.cc = c, !.nzcv = f, !.out = o]
<1>1. m \in JitState /\ a \in State
  BY DEF MemRep
<1>2. /\ k \in JitState /\ k.wtop = m.wtop /\ k.top = m.top /\ k.tag = m.tag
      /\ k.st = m.st /\ k.perm = m.perm /\ k.perm_dirty = m.perm_dirty
      /\ k.cc = c /\ k.cw = m.cw /\ k.nzcv = f /\ k.out = o
      /\ k.top_dirty = m.top_dirty /\ k.npush = m.npush /\ k.npop = m.npop
      /\ k.gprs_valid = m.gprs_valid /\ k.run = m.run
  BY <1>1 DEF JitState
<1>3. /\ e \in State /\ e.top = a.top /\ e.cc = c /\ e.cw = a.cw
      /\ e.nzcv = f /\ e.out = o /\ e.tag = a.tag /\ e.st = a.st
  BY <1>1 DEF State
<1> HIDE DEF k, e
<1>4. MemRep(k, e)
  BY <1>2, <1>3 DEF MemRep, Idle, PermOK
<1> QED
  BY <1>4 DEF k, e

\* The flags alone, and the condition codes alone.
LEMMA MemFlags ==
    ASSUME NEW m, NEW a, MemRep(m, a), NEW c \in CC
    PROVE  /\ MemRep([m EXCEPT !.nzcv = c], [a EXCEPT !.nzcv = c])
           /\ SameCache([m EXCEPT !.nzcv = c], m)
           /\ [m EXCEPT !.nzcv = c].top = m.top
           /\ MemRep([m EXCEPT !.cc = c], [a EXCEPT !.cc = c])
           /\ SameCache([m EXCEPT !.cc = c], m)
           /\ [m EXCEPT !.cc = c].top = m.top
<1>1. /\ m \in JitState /\ a \in State /\ m.cc = a.cc /\ m.out = a.out
      /\ m.nzcv = a.nzcv
  BY DEF MemRep
<1>2. m.cc \in CC /\ m.out \in Outs /\ m.nzcv \in CC
  BY <1>1 DEF JitState
<1>3. /\ [m EXCEPT !.nzcv = c] = [m EXCEPT !.cc = m.cc, !.nzcv = c,
                                           !.out = m.out]
      /\ [m EXCEPT !.cc = c] = [m EXCEPT !.cc = c, !.nzcv = m.nzcv,
                                         !.out = m.out]
  BY <1>1 DEF JitState
<1>4. /\ [a EXCEPT !.nzcv = c] = [a EXCEPT !.cc = m.cc, !.nzcv = c,
                                           !.out = m.out]
      /\ [a EXCEPT !.cc = c] = [a EXCEPT !.cc = c, !.nzcv = m.nzcv,
                                         !.out = m.out]
  BY <1>1 DEF State
<1>5. MemRep([m EXCEPT !.cc = m.cc, !.nzcv = c, !.out = m.out],
             [a EXCEPT !.cc = m.cc, !.nzcv = c, !.out = m.out])
  BY <1>2, MemRecolour
<1>6. MemRep([m EXCEPT !.cc = c, !.nzcv = m.nzcv, !.out = m.out],
             [a EXCEPT !.cc = c, !.nzcv = m.nzcv, !.out = m.out])
  BY <1>2, MemRecolour
<1>7. /\ SameCache([m EXCEPT !.nzcv = c], m) /\ [m EXCEPT !.nzcv = c].top = m.top
      /\ SameCache([m EXCEPT !.cc = c], m) /\ [m EXCEPT !.cc = c].top = m.top
  BY <1>1 DEF JitState, SameCache
<1>8. MemRep([m EXCEPT !.nzcv = c], [a EXCEPT !.nzcv = c])
  BY <1>3, <1>4, <1>5
<1>9. MemRep([m EXCEPT !.cc = c], [a EXCEPT !.cc = c])
  BY <1>3, <1>4, <1>6
<1> QED
  BY <1>7, <1>8, <1>9

\* A runtime routine called with current memory does to it what the
\* instruction does to the guest's state, and moves TOP by its delta.
LEMMA MemRuntime ==
    ASSUME NEW m, NEW a, MemRep(m, a), NEW k \in RuntimeOps, RuntimeOK(a, k)
    PROVE  /\ MemRep(RuntimeOp(m, k), RuntimeOp(a, k))
           /\ SameCache(RuntimeOp(m, k), m)
           /\ LET d == runtime_keepalive_top_delta(k)
              IN  RuntimeOp(m, k).top = CASE d = -1 -> Down(m.top)
                                          [] d = 1 -> Up(m.top)
                                          [] OTHER -> m.top
<1>1. CASE k = "f2xm1"
  <2>1. ST(m, 0) = ST(a, 0) /\ ST(a, 0) \in Val /\ InUse(a, 0)
    BY <1>1, Basics, MemST DEF RuntimeOK
  <2>2. U("trans", ST(a, 0)) \in Val
    BY <2>1, UAssumption DEF UnOps
  <2> QED
    BY <1>1, <2>1, <2>2, Basics, MemSet
       DEF RuntimeOp, FUNARY, runtime_keepalive_top_delta
<1>2. CASE k = "fscale"
  <2>1. /\ ST(m, 0) = ST(a, 0) /\ ST(a, 0) \in Val /\ InUse(a, 0)
        /\ ST(m, 1) = ST(a, 1) /\ ST(a, 1) \in Val
    BY <1>2, Basics, MemST DEF RuntimeOK
  <2>2. Arith("mul", ST(a, 0), ST(a, 1)) \in Val
    BY <2>1, ArithIn DEF ArithOps
  <2>3. /\ FARITH(m, "mul", 0, Reg(1)) = SetST(m, 0, Arith("mul", ST(a, 0), ST(a, 1)))
        /\ FARITH(a, "mul", 0, Reg(1)) = SetST(a, 0, Arith("mul", ST(a, 0), ST(a, 1)))
    BY <2>1 DEF FARITH, Value, Reg
  <2> QED
    BY <1>2, <2>1, <2>2, <2>3, Basics, MemSet
       DEF RuntimeOp, runtime_keepalive_top_delta
<1>3. CASE k = "fxam"
  <2> DEFINE c == IF InUse(a, 0) THEN Cmp(ST(a, 0), Zero) ELSE EmptyCC
  <2>1. c \in CC /\ FXAM(a) = [a EXCEPT !.cc = c] /\ FXAM(m) = [m EXCEPT !.cc = c]
    BY Basics, MemST, CmpAssumption, EmptyAssumption, ZeroAssumption DEF FXAM
  <2> HIDE DEF c
  <2>2. MemRep(FXAM(m), FXAM(a)) /\ SameCache(FXAM(m), m) /\ FXAM(m).top = m.top
    <3>1. /\ MemRep([m EXCEPT !.cc = c], [a EXCEPT !.cc = c])
          /\ SameCache([m EXCEPT !.cc = c], m) /\ [m EXCEPT !.cc = c].top = m.top
      BY <2>1, MemFlags
    <3> QED
      BY <2>1, <3>1
  <2> QED
    BY <1>3, <2>2 DEF RuntimeOp, runtime_keepalive_top_delta
<1>4. CASE k = "fsincos"
  <2> DEFINE x == U("trans", ST(a, 0))
             n == SetST(m, 0, x)
             e == SetST(a, 0, x)
  <2>1. ST(m, 0) = ST(a, 0) /\ ST(a, 0) \in Val /\ InUse(a, 0)
    BY <1>4, Basics, MemST DEF RuntimeOK
  <2>2. x \in Val
    BY <2>1, UAssumption DEF UnOps
  <2>3. FUNARY(m, "trans") = n /\ FUNARY(a, "trans") = e
    BY <2>1 DEF FUNARY
  <2> HIDE DEF x
  <2>4. MemRep(n, e) /\ SameCache(n, m) /\ n.top = m.top
    BY <2>1, <2>2, Basics, MemSet
  <2>5. InUse(e, 0)
    BY <2>1, <2>2, Basics, SetInUse DEF MemRep
  <2> HIDE DEF n, e
  <2>6. ST(n, 0) = ST(e, 0) /\ ST(e, 0) \in Val
    BY <2>4, <2>5, Basics, MemST
  <2>7. /\ RuntimeOp(m, k) = Push(n, ST(e, 0))
        /\ RuntimeOp(a, k) = Push(e, ST(e, 0))
    BY <1>4, <2>3, <2>6 DEF RuntimeOp, FLD, Value, Reg
  <2>8. /\ MemRep(Push(n, ST(e, 0)), Push(e, ST(e, 0)))
        /\ SameCache(Push(n, ST(e, 0)), n)
        /\ Push(n, ST(e, 0)).top = Down(n.top)
    BY <2>4, <2>6, MemPush
  <2> QED
    BY <1>4, <2>4, <2>7, <2>8 DEF SameCache, runtime_keepalive_top_delta
<1>5. CASE k = "fyl2x"
  <2> DEFINE x == Arith("mul", ST(a, 1), ST(a, 0))
             n == SetST(m, 1, x)
             e == SetST(a, 1, x)
  <2>1. /\ ST(m, 0) = ST(a, 0) /\ ST(a, 0) \in Val /\ InUse(a, 1)
        /\ ST(m, 1) = ST(a, 1) /\ ST(a, 1) \in Val
    BY <1>5, Basics, MemST DEF RuntimeOK
  <2>2. x \in Val
    BY <2>1, ArithIn DEF ArithOps
  <2>3. RuntimeOp(m, k) = Pop(n) /\ RuntimeOp(a, k) = Pop(e)
    BY <1>5, <2>1 DEF RuntimeOp, FARITHP, FARITH, Value, Reg
  <2> HIDE DEF x
  <2>4. MemRep(n, e) /\ SameCache(n, m) /\ n.top = m.top
    BY <2>1, <2>2, Basics, MemSet
  <2> HIDE DEF n, e
  <2>5. MemRep(Pop(n), Pop(e)) /\ SameCache(Pop(n), n) /\ Pop(n).top = Up(n.top)
    BY <2>4, MemPop
  <2> QED
    BY <1>5, <2>3, <2>4, <2>5 DEF SameCache, runtime_keepalive_top_delta
<1> QED
  BY <1>1, <1>2, <1>3, <1>4, <1>5 DEF RuntimeOps

(***************************************************************************)
(* Leaving the cache, and the instructions Rosetta executes.               *)
(***************************************************************************)
\* Loaded cache registers mean an active run.
LEMMA Loaded ==
    ASSUME NEW j, NEW a, Between(j, a), j.gprs_valid
    PROVE  Rep(j, a) /\ j.run > 0
<1> DEFINE b == x87_begin(j)
<1>1. j \in JitState /\ Rep(b, a) /\ JOK(b) /\ b.run = j.run
  BY DEF Between, Rep, x87_begin, JitState
<1>2. b.run = 0 => ~b.gprs_valid
  BY <1>1 DEF JOK
<1>3. j.run = 0 => ~j.gprs_valid
  BY <1>1, <1>2 DEF x87_begin, JitState
<1>4. j.run > 0
  BY <1>1, <1>3, MaxRunAssumption DEF JitState
<1> QED
  BY <1>1, <1>4 DEF x87_begin

\* invalidate() after everything was written back.
LEMMA InvalidateMem ==
    ASSUME NEW j, NEW a, MemRep(j, a)
    PROVE  /\ MemRep(invalidate(j), a) /\ invalidate(j).run = 0
           /\ ~invalidate(j).gprs_valid
<1> DEFINE k == invalidate(j)
<1>1. j \in JitState
  BY DEF MemRep
<1>2. /\ 0 \in 0..N /\ 0 \in 0..MaxRun /\ IdPerm \in Perms
      /\ IdPerm \in [Depth -> Depth]
  BY MaxRunAssumption, NAssumption DEF IdPerm, Perms
<1>3. k = [j EXCEPT !.gprs_valid = FALSE, !.top_dirty = FALSE, !.npush = 0,
                    !.npop = 0, !.run = 0, !.perm = IdPerm, !.perm_dirty = FALSE]
  BY <1>1 DEF invalidate, reset_perm, JitState
<1> HIDE DEF k
<1>4. k \in JitState
  BY <1>1, <1>2, <1>3 DEF JitState
<1>5. /\ k.wtop = j.wtop /\ k.top = j.top /\ k.tag = j.tag
      /\ k.st = j.st /\ k.perm = IdPerm /\ ~k.perm_dirty
      /\ k.cc = j.cc /\ k.cw = j.cw /\ k.nzcv = j.nzcv /\ k.out = j.out
      /\ ~k.top_dirty /\ k.npush = 0 /\ k.npop = 0
      /\ ~k.gprs_valid /\ k.run = 0
  BY <1>1, <1>3 DEF JitState
<1> QED
  BY <1>2, <1>4, <1>5 DEF MemRep, Idle, PermOK, k

\* x87_cache_force_release leaves the guest's state in memory.
LEMMA ForceRelease ==
    ASSUME NEW j, NEW a, Between(j, a)
    PROVE  /\ MemRep(x87_cache_force_release(j), a)
           /\ x87_cache_force_release(j).run = 0
           /\ ~x87_cache_force_release(j).gprs_valid
<1>1. CASE j.gprs_valid
  <2>1. Rep(FlushAll(j), a) /\ Idle(FlushAll(j))
    BY <1>1, Loaded, FlushAllRep
  <2>2. MemRep(FlushAll(j), a)
    BY <2>1, RepBetween, BetweenMem
  <2> QED
    BY <1>1, <2>2, InvalidateMem DEF x87_cache_force_release
<1>2. CASE ~j.gprs_valid
  <2>1. MemRep(j, a)
    BY <1>2, BetweenMem DEF Between
  <2> QED
    BY <1>2, <2>1, InvalidateMem DEF x87_cache_force_release
<1> QED
  BY <1>1, <1>2

\* translate_fld, 80-bit operand.
LEMMA StepFldM80 ==
    ASSUME Between(jit, fpu), FldM80
    PROVE  Between(jit', fpu')
<1>1. PICK j \in Entry, src \in Mem :
         Step(translate_fld_m80(j, src), 1, FLD(A, src))
  BY DEF FldM80
<1> DEFINE m == x87_cache_force_release(j)
           k == Push(m, src.v)
<1>2. src.v \in Val /\ FLD(m, src) = k /\ FLD(A, src) = Push(A, src.v)
  BY DEF Mem, FLD, Value
<1>3. MemRep(m, A) /\ m.run = 0 /\ ~m.gprs_valid
  BY <1>1, Start, ForceRelease
<1> HIDE DEF m
<1>4. MemRep(k, Push(A, src.v)) /\ SameCache(k, m)
  BY <1>2, <1>3, MemPush
<1> HIDE DEF k
<1>5. Between(k, Push(A, src.v)) /\ k.run = 0
  BY <1>3, <1>4, MemBetween DEF SameCache
<1> QED
  BY <1>1, <1>2, <1>5 DEF Step, translate_fld_m80, tick, m

\* Outside a run nothing is deferred.
LEMMA Outside ==
    ASSUME Between(jit, fpu), jit.run = 0
    PROVE  MemRep(Quiet(jit), A)
<1>1. Quiet(jit) = Quiet(set_run(jit, 0)) /\ 0 \in 0..MaxRun
  BY MaxRunAssumption DEF set_run
<1>2. Quiet(jit) \in Entry
  BY <1>1 DEF Entry
<1>3. Between(Quiet(jit), A)
  BY <1>2, Start
<1>4. jit.gprs_valid => jit.run > 0
  BY Loaded
<1>5. Idle(Quiet(jit))
  BY <1>4 DEF Between, Idle, Quiet, JitState
<1> QED
  BY <1>3, <1>5, BetweenMem

\* An instruction handed back to Rosetta.
LEMMA StepHandBack ==
    ASSUME Between(jit, fpu), HandBack
    PROVE  Between(jit', fpu')
<1>1. PICK k \in RuntimeOps :
         /\ jit.run = 0 /\ RuntimeOK(A, k)
         /\ jit' = RuntimeOp(invalidate(Quiet(jit)), k)
         /\ fpu' = RuntimeOp(A, k)
  BY DEF HandBack
<1> DEFINE m == invalidate(Quiet(jit))
<1>2. MemRep(m, A) /\ ~m.gprs_valid
  BY <1>1, Outside, InvalidateMem
<1> HIDE DEF m
<1>3. MemRep(RuntimeOp(m, k), RuntimeOp(A, k)) /\ SameCache(RuntimeOp(m, k), m)
  BY <1>1, <1>2, MemRuntime
<1> QED
  BY <1>1, <1>2, <1>3, MemBetween DEF SameCache, m

\* Any other instruction.
LEMMA StepLeave ==
    ASSUME Between(jit, fpu), Leave
    PROVE  Between(jit', fpu')
<1>1. PICK f \in CC :
         /\ jit.run = 0
         /\ jit' = [invalidate(Quiet(jit)) EXCEPT !.nzcv = f]
         /\ fpu' = [A EXCEPT !.nzcv = f]
  BY DEF Leave
<1> DEFINE m == invalidate(Quiet(jit))
<1>2. MemRep(m, A) /\ ~m.gprs_valid
  BY <1>1, Outside, InvalidateMem
<1> HIDE DEF m
<1>3. /\ MemRep([m EXCEPT !.nzcv = f], [A EXCEPT !.nzcv = f])
      /\ SameCache([m EXCEPT !.nzcv = f], m)
  BY <1>2, MemFlags
<1>4. jit' = [m EXCEPT !.nzcv = f]
  BY <1>1 DEF m
<1>5. MemRep(jit', fpu') /\ SameCache(jit', m)
  BY <1>1, <1>3, <1>4
<1> QED
  BY <1>2, <1>5, MemBetween DEF SameCache

\* A bridged integer instruction.
LEMMA StepBridge ==
    ASSUME Between(jit, fpu), Bridge
    PROVE  Between(jit', fpu')
<1>1. PICK j \in Entry, f \in CC :
         /\ jit.run >= 2
         /\ Step([j EXCEPT !.nzcv = f], 1, [A EXCEPT !.nzcv = f])
  BY DEF Bridge
<1>2. j = Quiet(jit) /\ jit \in JitState /\ jit.run \in Nat
  BY <1>1, MaxRunAssumption DEF Entry, Between, JitState
<1>3. j.run = jit.run
  BY <1>2 DEF Quiet, JitState
<1>4. Between(j, A)
  BY <1>1, Start
<1> DEFINE k == [j EXCEPT !.nzcv = f]
           e == [A EXCEPT !.nzcv = f]
<1>5. CASE j.gprs_valid
  <2>1. Rep(j, A)
    BY <1>4, <1>5, Loaded
  <2>2. /\ Rep(k, e)
        /\ k.run = j.run
    BY <2>1, NzcvRep
  <2>3. ~(k.run <= 1)
    BY <1>1, <1>2, <1>3, <2>2
  <2>4. Between(tick(k, 1), e)
    <3> HIDE DEF k, e
    <3> QED
      BY <2>2, <2>3, TickRep
  <2> QED
    BY <1>1, <2>4 DEF Step
<1>6. CASE ~j.gprs_valid
  <2>1. MemRep(j, A)
    BY <1>4, <1>6, BetweenMem DEF Between
  <2>2. /\ MemRep(k, e)
        /\ SameCache(k, j)
    BY <2>1, MemFlags
  <2>3. ~k.gprs_valid
    BY <1>6, <2>2 DEF SameCache
  <2>4. Between(tick(k, 1), e)
    <3> HIDE DEF k, e
    <3> QED
      BY <2>2, <2>3, TickMem
  <2> QED
    BY <1>1, <2>4 DEF Step
<1> QED
  BY <1>5, <1>6

\* Moving the TOP register alone leaves memory as it is.
LEMMA MemMove ==
    ASSUME NEW m, NEW a, MemRep(m, a), NEW t \in Slot
    PROVE  LET k == [m EXCEPT !.wtop = t]
           IN  /\ MemRep(k, a) /\ k.wtop = t /\ k.top = m.top
               /\ k.run = m.run /\ k.gprs_valid = m.gprs_valid
<1> DEFINE k == [m EXCEPT !.wtop = t]
<1>1. m \in JitState
  BY DEF MemRep
<1>2. /\ k \in JitState /\ k.wtop = t /\ k.top = m.top /\ k.tag = m.tag
      /\ k.st = m.st /\ k.perm = m.perm /\ k.perm_dirty = m.perm_dirty
      /\ k.cc = m.cc /\ k.cw = m.cw /\ k.nzcv = m.nzcv /\ k.out = m.out
      /\ k.top_dirty = m.top_dirty /\ k.npush = m.npush /\ k.npop = m.npop
      /\ k.gprs_valid = m.gprs_valid /\ k.run = m.run
  BY <1>1 DEF JitState
<1> HIDE DEF k
<1>3. /\ MemRep(k, a) /\ k.wtop = t /\ k.top = m.top
      /\ k.run = m.run /\ k.gprs_valid = m.gprs_valid
  BY <1>2 DEF MemRep, Idle, PermOK
<1> QED
  BY <1>3 DEF k

\* A transcendental kept inside a run.
LEMMA StepKeepalive ==
    ASSUME Between(jit, fpu), Keepalive
    PROVE  Between(jit', fpu')
<1>1. PICK j \in Entry, k \in RuntimeOps :
         /\ RuntimeOK(A, k)
         /\ LET f == runtime_keepalive_flush(j, runtime_keepalive_top_delta(k))
            IN  Step(RuntimeOp(f, k), 1, RuntimeOp(A, k))
  BY DEF Keepalive
<1> DEFINE d == runtime_keepalive_top_delta(k)
           f == runtime_keepalive_flush(j, d)
           n == RuntimeOp(f, k)
<1>2. Between(j, A)
  BY <1>1, Start
<1>3. MemRep(n, RuntimeOp(A, k)) /\ (n.gprs_valid => n.wtop = n.top)
  <2>1. CASE ~j.gprs_valid
    <3>1. f = j /\ MemRep(f, A)
      BY <1>2, <2>1, BetweenMem DEF Between, runtime_keepalive_flush
    <3> HIDE DEF f
    <3>2. MemRep(n, RuntimeOp(A, k)) /\ SameCache(n, f)
      BY <1>1, <3>1, MemRuntime
    <3> QED
      BY <2>1, <3>1, <3>2 DEF SameCache
  <2>2. CASE j.gprs_valid
    <3> DEFINE l == FlushAll(j)
               t == CASE d = -1 -> Down(l.wtop)
                      [] d = 1 -> Up(l.wtop)
                      [] OTHER -> l.wtop
    <3>1. Rep(l, A) /\ Idle(l) /\ l.top = l.wtop
      BY <1>2, <2>2, Loaded, FlushAllRep
    <3>2. f = [l EXCEPT !.wtop = t]
      BY <2>2 DEF runtime_keepalive_flush
    <3> HIDE DEF f, l, d
    <3>3. MemRep(l, A) /\ l.wtop \in Slot
      BY <3>1, RepBetween, BetweenMem DEF Rep, JOK, JitState
    <3>4. t \in Slot
      <4>1. Up(l.wtop) \in Slot /\ Down(l.wtop) \in Slot
        BY <3>3, UpDown
      <4> QED
        BY <3>3, <4>1
    <3> HIDE DEF t
    <3>5. MemRep(f, A) /\ f.wtop = t /\ f.top = l.top
      BY <3>2, <3>3, <3>4, MemMove
    <3>6. /\ MemRep(n, RuntimeOp(A, k)) /\ SameCache(n, f)
          /\ n.top = CASE d = -1 -> Down(f.top)
                       [] d = 1 -> Up(f.top)
                       [] OTHER -> f.top
      BY <1>1, <3>5, MemRuntime DEF d
    <3>7. n.top = t
      BY <3>1, <3>5, <3>6 DEF t
    <3> QED
      BY <3>5, <3>6, <3>7 DEF SameCache
  <2> QED
    BY <2>1, <2>2
<1> HIDE DEF n
<1> QED
  BY <1>1, <1>3, TickMem DEF Step, n, f, d

\* translate_fstsw: the status word in memory is current when it is read.
LEMMA StepFstsw ==
    ASSUME Between(jit, fpu), Shapes = {}, Fstsw
    PROVE  Between(jit', fpu')
<1>1. PICK j \in Entry :
         FstswOK(j) /\ Step(translate_fstsw(j), 1, FSTSW(A))
  BY DEF Fstsw
<1>2. Between(j, A)
  BY <1>1, Start
<1> DEFINE k == translate_fstsw(j)
<1>3. CASE j.gprs_valid
  <2> DEFINE g == x87_flush_top(j)
             b == x87_flush_deferred_pushes(g)
  <2>1. Rep(j, A) /\ j.run > 0
    BY <1>2, <1>3, Loaded
  <2>2. /\ Rep(g, A) /\ ~g.top_dirty /\ g.top = g.wtop /\ g.run = j.run
        /\ g.npop = j.npop /\ g.perm_dirty = j.perm_dirty
    BY <2>1, FlushTop
  <2>3. k = Emit(b, OutSW(b.top, b.cc))
    BY <1>3, <2>1 DEF translate_fstsw
  <2> HIDE DEF g
  <2>4. Rep(b, A) /\ SameButTags(b, g) /\ b.npush = 0 /\ b.npop = g.npop
    BY <2>2, FlushPushes
  <2> HIDE DEF b
  <2>5. b.top = A.top /\ b.cc = A.cc /\ A.top \in Slot /\ A.cc \in CC
    BY <2>2, <2>4 DEF SameButTags, Rep, State
  <2> DEFINE o == OutSW(b.top, b.cc)
  <2>6. o \in Outs /\ FSTSW(A) = Emit(A, o)
    BY <2>5, Basics DEF FSTSW
  <2>7. Rep(Emit(b, o), Emit(A, o)) /\ Emit(b, o).run = b.run
    <3> HIDE DEF o
    <3> QED
      BY <2>4, <2>6, EmitRep
  <2>8. Emit(b, o).run <= 1 => Idle(Emit(b, o))
    <3>1. b.run = j.run /\ j.run \in Nat
      BY <2>1, <2>2, <2>4, MaxRunAssumption DEF SameButTags, Rep, JOK, JitState
    <3>2. b.run <= 1 => Idle(b)
      BY <1>1, <2>1, <2>2, <2>4, <3>1 DEF FstswOK, Idle, SameButTags
    <3>3. Idle(b) => Idle(Emit(b, o))
      BY <2>4 DEF Idle, Emit, Rep, JOK, JitState
    <3> QED
      BY <2>7, <3>2, <3>3
  <2>9. Between(tick(Emit(b, o), 1), Emit(A, o))
    BY <2>7, <2>8, TickRep
  <2> QED
    BY <1>1, <2>3, <2>6, <2>9 DEF Step
<1>4. CASE ~j.gprs_valid
  <2>1. MemRep(j, A)
    BY <1>2, <1>4, BetweenMem DEF Between
  <2> DEFINE o == OutSW(j.top, j.cc)
  <2>2. /\ j.top = A.top /\ j.cc = A.cc /\ A.top \in Slot /\ A.cc \in CC
        /\ A.nzcv = j.nzcv /\ A.nzcv \in CC /\ A \in State /\ j \in JitState
    BY <2>1 DEF MemRep, State
  <2>3. o \in Outs /\ FSTSW(A) = Emit(A, o) /\ k = Emit(j, o)
    BY <1>4, <2>2, Basics DEF FSTSW, translate_fstsw
  <2> HIDE DEF o, k
  <2>4. /\ k = [j EXCEPT !.cc = j.cc, !.nzcv = j.nzcv, !.out = o]
        /\ FSTSW(A) = [A EXCEPT !.cc = j.cc, !.nzcv = j.nzcv, !.out = o]
    BY <2>2, <2>3 DEF Emit, JitState, State
  <2>5. MemRep([j EXCEPT !.cc = j.cc, !.nzcv = j.nzcv, !.out = o],
               [A EXCEPT !.cc = j.cc, !.nzcv = j.nzcv, !.out = o])
    BY <2>1, <2>2, <2>3, MemRecolour
  <2>6. MemRep(k, FSTSW(A))
    BY <2>4, <2>5
  <2>7. ~k.gprs_valid
    BY <1>4, <2>2, <2>3 DEF Emit, JitState
  <2> QED
    BY <1>1, <2>6, <2>7, TickMem DEF Step, k
<1> QED
  BY <1>3, <1>4

\* Only ST(0) is at TOP, and only ST(d) at depth d.
LEMMA DepthOnly ==
    ASSUME NEW t \in Slot, NEW d \in Depth
    PROVE  /\ Dist(t, t) = 0 /\ Dist(t, Phys(t, d)) = d /\ Phys(t, d) \in Slot
           /\ d # 0 => Phys(t, d) # t
           /\ \A s \in Slot : Dist(t, s) \in Depth
           /\ \A s \in Slot : s # t => Dist(t, s) # 0
           /\ \A s \in Slot : s # Phys(t, d) => Dist(t, s) # d
BY NAssumption DEF Phys, Dist, Slot, Depth

\* What fxch does to the guest's state.
LEMMA FxchIs ==
    ASSUME NEW a \in State, NEW i \in Depth, i # 0
    PROVE  LET s0 == a.top
               si == Phys(a.top, i)
               e == FXCH(a, i)
           IN  /\ e \in State /\ e.top = a.top /\ e.tag = a.tag
               /\ e.cc = a.cc /\ e.cw = a.cw /\ e.nzcv = a.nzcv
               /\ e.out = a.out /\ s0 \in Slot /\ si \in Slot /\ si # s0
               /\ e.st = [a.st EXCEPT ![s0] = a.st[si], ![si] = a.st[s0]]
<1>1. a.top \in Slot /\ Phys(a.top, 0) = a.top
  BY BatchTop, NAssumption DEF State
<1>2. Phys(a.top, i) \in Slot /\ Phys(a.top, i) # a.top
  BY <1>1, DepthOnly
<1> DEFINE s0 == a.top
           si == Phys(a.top, i)
           v == [a.st EXCEPT ![s0] = a.st[si], ![si] = a.st[s0]]
<1>3. FXCH(a, i) = [a EXCEPT !.st = v]
  <2> DEFINE f == SetST(a, 0, ST(a, i))
  <2>1. f = [a EXCEPT !.st = [a.st EXCEPT ![s0] = a.st[si]]]
    BY <1>1 DEF SetST, ST
  <2>2. f.top = s0 /\ f.st = [a.st EXCEPT ![s0] = a.st[si]]
    BY <2>1 DEF State
  <2> HIDE DEF f
  <2>3. SetST(f, i, ST(a, 0)) = [f EXCEPT !.st = v]
    BY <1>1, <2>2 DEF SetST, ST
  <2> QED
    BY <2>1, <2>3 DEF FXCH, State, f
<1>4. v \in [Slot -> Val]
  BY <1>1, <1>2 DEF State
<1> HIDE DEF v
<1>5. /\ FXCH(a, i) \in State /\ FXCH(a, i).st = v
      /\ FXCH(a, i).top = a.top /\ FXCH(a, i).tag = a.tag
      /\ FXCH(a, i).cc = a.cc /\ FXCH(a, i).cw = a.cw
      /\ FXCH(a, i).nzcv = a.nzcv /\ FXCH(a, i).out = a.out
  BY <1>3, <1>4 DEF State
<1> QED
  BY <1>1, <1>2, <1>5 DEF v

\* An exchange recorded in the permutation.
LEMMA SwapPermRep ==
    ASSUME NEW b, NEW a, Rep(b, a), NEW i \in Depth, i # 0, b.run > 0,
           DeferFXCH, InUse(a, 0), InUse(a, i)
    PROVE  Rep(SwapPerm(b, i), FXCH(a, i))
<1> DEFINE k == SwapPerm(b, i)
           e == FXCH(a, i)
           s0 == a.top
           si == Phys(a.top, i)
           q == [b.perm EXCEPT ![0] = b.perm[i], ![i] = b.perm[0]]
<1>1. /\ b \in JitState /\ JOK(b) /\ a \in State /\ a.top = b.wtop
      /\ b.perm \in Perms /\ b.perm \in [Depth -> Depth] /\ 0 \in Depth
  BY Basics DEF Rep, JOK, JitState, PermOK
<1>2. /\ e \in State /\ e.top = a.top /\ e.tag = a.tag
      /\ e.cc = a.cc /\ e.cw = a.cw /\ e.nzcv = a.nzcv
      /\ e.out = a.out /\ s0 \in Slot /\ si \in Slot /\ si # s0
      /\ e.st = [a.st EXCEPT ![s0] = a.st[si], ![si] = a.st[s0]]
  BY <1>1, FxchIs
<1>3. q \in [Depth -> Depth] /\ q \in Perms
  BY <1>1 DEF Perms
<1>4. k = [b EXCEPT !.perm = q, !.perm_dirty = TRUE]
  BY <1>1 DEF SwapPerm, JitState
<1>5. \A d \in Depth : resolve_depth(b, d) = b.perm[d]
  BY <1>1 DEF resolve_depth, JOK, PermOK, IdPerm
<1> HIDE DEF k, e
<1>6. /\ k \in JitState /\ k.wtop = b.wtop /\ k.npush = b.npush
      /\ k.npop = b.npop /\ k.top = b.top /\ k.top_dirty = b.top_dirty
      /\ k.tag = b.tag /\ k.st = b.st /\ k.perm = q
      /\ k.perm_dirty /\ k.run = b.run
      /\ k.gprs_valid = b.gprs_valid /\ k.cc = b.cc /\ k.cw = b.cw
      /\ k.nzcv = b.nzcv /\ k.out = b.out
  <2> HIDE DEF q
  <2> QED
    BY <1>1, <1>3, <1>4 DEF JitState
<1>7. JOK(k)
  BY <1>1, <1>3, <1>6 DEF JOK, TopOK, PermOK, TagOK, Idle
<1>8. \A s \in Slot : TagOf(k, s) <=> TagOf(b, s)
  BY <1>6 DEF TagOf
<1>9. \A d \in Depth : emit_load_st(k, d) = b.st[Phys(b.wtop, q[d])]
  BY <1>6 DEF emit_load_st, resolve_depth
<1>10. \A d \in Depth : emit_load_st(b, d) = b.st[Phys(b.wtop, b.perm[d])]
  BY <1>5 DEF emit_load_st
<1>11. /\ emit_load_st(k, 0) = emit_load_st(b, i)
       /\ emit_load_st(k, i) = emit_load_st(b, 0)
       /\ \A d \in Depth : d # 0 /\ d # i => emit_load_st(k, d) = emit_load_st(b, d)
  BY <1>1, <1>9, <1>10
<1> HIDE DEF q
<1>12. /\ Dist(b.wtop, s0) = 0 /\ Dist(b.wtop, si) = i
       /\ \A s \in Slot : s # s0 /\ s # si =>
             Dist(b.wtop, s) # 0 /\ Dist(b.wtop, s) # i /\ Dist(b.wtop, s) \in Depth
  <2>1. b.wtop \in Slot /\ s0 = b.wtop /\ si = Phys(b.wtop, i)
    BY <1>1 DEF JitState
  <2> HIDE DEF s0, si
  <2> QED
    BY <2>1, DepthOnly
<1>13. a.tag[s0] /\ a.tag[si]
  BY <1>1, BatchTop, NAssumption DEF InUse, State
<1>14. \A s \in Slot :
          a.tag[s] => e.st[s] = emit_load_st(k, Dist(b.wtop, s))
  <2>1. \A s \in Slot : a.tag[s] => a.st[s] = emit_load_st(b, Dist(b.wtop, s))
    BY DEF Rep
  <2>2. a.st \in [Slot -> Val]
    BY <1>1 DEF State
  <2> HIDE DEF s0, si
  <2> QED
    BY <1>2, <1>11, <1>12, <1>13, <2>1, <2>2
<1>15. \A s \in Slot : ~a.tag[s] => e.st[s] = Zero
  <2>1. a.st \in [Slot -> Val]
    BY <1>1 DEF State
  <2> HIDE DEF s0, si
  <2> QED
    BY <1>2, <1>13, <2>1 DEF Rep
<1>16. Rep(k, e)
  BY <1>1, <1>2, <1>6, <1>7, <1>8, <1>14, <1>15 DEF Rep
<1> QED
  BY <1>16 DEF k, e

\* An exchange performed on the spot.
LEMMA SwapSlotsRep ==
    ASSUME NEW b, NEW a, Rep(b, a), NEW i \in Depth, i # 0, ~b.perm_dirty,
           InUse(a, 0), InUse(a, i)
    PROVE  Rep(SwapSlots(b, i), FXCH(a, i))
<1>1. /\ b \in JitState /\ a \in State /\ a.top = b.wtop /\ b.wtop \in Slot
      /\ Phys(b.wtop, 0) = b.wtop /\ 0 \in Depth
  BY Basics, BatchTop, NAssumption DEF Rep, JOK, JitState
<1>2. /\ emit_load_st(b, i) = ST(a, i) /\ ST(a, i) \in Val
      /\ emit_load_st(b, 0) = ST(a, 0) /\ ST(a, 0) \in Val
  BY <1>1, LoadRep
<1> DEFINE c == emit_store_st(b, 0, ST(a, i))
           f == SetST(a, 0, ST(a, i))
<1>3. Rep(c, f)
  BY <1>1, <1>2, StoreRep
<1>4. InUse(f, i)
  BY <1>1, <1>2, SetInUse
<1>5. Rep(emit_store_st(c, i, ST(a, 0)), SetST(f, i, ST(a, 0)))
  <2> HIDE DEF c, f
  <2> QED
    BY <1>2, <1>3, <1>4, StoreRep
<1>6. emit_store_st(c, i, ST(a, 0)) = SwapSlots(b, i)
  <2>1. c = [b EXCEPT !.st = [b.st EXCEPT ![b.wtop] = ST(a, i)]]
    BY <1>1 DEF emit_store_st, resolve_depth
  <2>2. c.wtop = b.wtop /\ ~c.perm_dirty /\ c.st = [b.st EXCEPT ![b.wtop] = ST(a, i)]
    BY <1>1, <2>1 DEF JitState
  <2>3. ST(a, 0) = b.st[b.wtop] /\ ST(a, i) = b.st[Phys(b.wtop, i)]
    BY <1>1, <1>2 DEF emit_load_st, resolve_depth
  <2> HIDE DEF c
  <2>4. emit_store_st(c, i, ST(a, 0))
          = [c EXCEPT !.st = [c.st EXCEPT ![Phys(b.wtop, i)] = ST(a, 0)]]
    BY <2>2 DEF emit_store_st, resolve_depth
  <2> QED
    BY <1>1, <2>1, <2>2, <2>3, <2>4 DEF SwapSlots, JitState
<1>7. SetST(f, i, ST(a, 0)) = FXCH(a, i)
  BY DEF FXCH
<1> QED
  BY <1>5, <1>6, <1>7

\* translate_fxch.
LEMMA StepFxch ==
    ASSUME Between(jit, fpu), Fxch
    PROVE  Between(jit', fpu')
<1>1. PICK j \in Entry, i \in Depth :
         /\ InUse(A, 0) /\ InUse(A, i)
         /\ Step(translate_fxch(j, i), 1, FXCH(A, i))
  BY DEF Fxch
<1> DEFINE b == x87_begin(j)
           k == CASE i = 0 -> b
                  [] i # 0 /\ b.run > 0 /\ DeferFXCH -> SwapPerm(b, i)
                  [] OTHER -> SwapSlots(b, i)
<1>2. Rep(b, A) /\ A \in State /\ b \in JitState
  BY <1>1, Start DEF Rep, JOK
<1> HIDE DEF b
<1>3. CASE i = 0
  <2>1. FXCH(A, 0) = A
    BY <1>2, Basics, PhysIn DEF FXCH, SetST, ST, State
  <2>2. Rep(k, FXCH(A, i))
    BY <1>2, <1>3, <2>1
  <2> QED
    BY <1>1, <2>2, Finish DEF Step, translate_fxch, b
<1>4. CASE i # 0 /\ b.run > 0 /\ DeferFXCH
  <2>1. Rep(k, FXCH(A, i))
    BY <1>1, <1>2, <1>4, SwapPermRep
  <2> QED
    BY <1>1, <2>1, Finish DEF Step, translate_fxch, b
<1>5. CASE i # 0 /\ ~(b.run > 0 /\ DeferFXCH)
  <2>1. ~b.perm_dirty
    BY <1>2, <1>5, MaxRunAssumption DEF Rep, JOK, JitState, Idle, PermOK
  <2>2. Rep(k, FXCH(A, i))
    BY <1>1, <1>2, <1>5, <2>1, SwapSlotsRep
  <2> QED
    BY <1>1, <2>2, Finish DEF Step, translate_fxch, b
<1> QED
  BY <1>3, <1>4, <1>5

(***************************************************************************)
(* What the fused sequences do to the guest's state.                       *)
(***************************************************************************)
\* The guest's state is cleared where it is empty.
LEMMA RepCleared ==
    ASSUME NEW b, NEW a, Rep(b, a)
    PROVE  Cleared(a) /\ a \in State
BY DEF Rep, Cleared

\* Storing to a register in use keeps it so.
LEMMA ClearedSet ==
    ASSUME NEW a, Cleared(a), NEW d \in Depth, InUse(a, d), NEW x \in Val
    PROVE  /\ Cleared(SetST(a, d, x))
           /\ \A e : InUse(SetST(a, d, x), e) <=> InUse(a, e)
<1>1. a \in State /\ SetST(a, d, x) \in State
  BY SetInUse DEF Cleared
<1>2. /\ SetST(a, d, x).tag = a.tag
      /\ SetST(a, d, x).st = [a.st EXCEPT ![Phys(a.top, d)] = x]
      /\ a.st \in [Slot -> Val] /\ Phys(a.top, d) \in Slot
      /\ a.tag[Phys(a.top, d)]
  BY <1>1, PhysIn DEF SetST, State, InUse
<1> QED
  BY <1>1, <1>2, SetInUse DEF Cleared

\* Push a value, change the register below it, pop.
LEMMA PopUnder ==
    ASSUME NEW a, Cleared(a), ~InUse(a, N - 1), InUse(a, 0),
           NEW v \in Val, NEW x \in Val
    PROVE  Pop(SetST(Push(a, v), 1, x)) = SetST(a, 0, x)
<1>1. a \in State /\ 0 \in Depth /\ 0 + 1 \in Depth /\ 0 + 1 = 1
  BY Basics DEF Cleared
<1>2. SetST(Push(a, v), 1, x) = Push(SetST(a, 0, x), v)
  BY <1>1, PushST
<1>3. Cleared(SetST(a, 0, x)) /\ ~InUse(SetST(a, 0, x), N - 1)
  BY <1>1, ClearedSet
<1> QED
  BY <1>2, <1>3, PopPush

\* Pushing what follows a pop replaces ST(0).
LEMMA PushPop ==
    ASSUME NEW a \in State, InUse(a, 0), NEW x \in Val
    PROVE  Push(Pop(a), x) = SetST(a, 0, x)
<1> DEFINE t == a.top
           p == Pop(a)
<1>1. /\ t \in Slot /\ a.tag \in [Slot -> BOOLEAN] /\ a.st \in [Slot -> Val]
      /\ Phys(t, 0) = t /\ Down(Up(t)) = t /\ Up(t) \in Slot
  BY UpDown, BatchTop, NAssumption DEF State
<1>2. p = [a EXCEPT !.top = Up(t), !.tag = [a.tag EXCEPT ![t] = FALSE],
                    !.st = [a.st EXCEPT ![t] = Zero]]
  BY DEF Pop, Up
<1>3. a.tag[t]
  BY <1>1 DEF InUse
<1> HIDE DEF t, p
<1>4. /\ p.top = Up(t) /\ p.tag = [a.tag EXCEPT ![t] = FALSE]
      /\ p.st = [a.st EXCEPT ![t] = Zero]
  BY <1>2 DEF State
<1>5. Push(p, x) = [p EXCEPT !.top = t, !.tag = [p.tag EXCEPT ![t] = TRUE],
                             !.st = [p.st EXCEPT ![t] = x]]
  BY <1>1, <1>4 DEF Push, Down
<1>6. [p.tag EXCEPT ![t] = TRUE] = a.tag
  BY <1>1, <1>3, <1>4
<1>7. [p.st EXCEPT ![t] = x] = [a.st EXCEPT ![t] = x]
  BY <1>1, <1>4
<1> DEFINE w == [a.st EXCEPT ![t] = x]
<1> HIDE DEF w
<1>8. Push(p, x) = [a EXCEPT !.top = t, !.tag = a.tag, !.st = w]
  BY <1>2, <1>5, <1>6, <1>7 DEF State, w
<1>9. SetST(a, 0, x) = [a EXCEPT !.top = t, !.tag = a.tag, !.st = w]
  BY <1>1 DEF SetST, State, t, w
<1> QED
  BY <1>8, <1>9 DEF p

\* A pop commutes with what is outside the stack, and forgets ST(0).
LEMMA PopCommutes ==
    ASSUME NEW a \in State
    PROVE  /\ \A o : Pop(Emit(a, o)) = Emit(Pop(a), o)
           /\ \A c : Pop([a EXCEPT !.cc = c]) = [Pop(a) EXCEPT !.cc = c]
           /\ \A x \in Val : Pop(SetST(a, 0, x)) = Pop(a)
           /\ Pop(a) \in State /\ Pop(a).cc = a.cc
<1> DEFINE t == a.top
<1>1. /\ t \in Slot /\ a.tag \in [Slot -> BOOLEAN] /\ a.st \in [Slot -> Val]
      /\ Phys(t, 0) = t /\ Up(t) \in Slot
  BY UpDown, BatchTop, NAssumption DEF State
<1>2. \A o : Pop(Emit(a, o)) = Emit(Pop(a), o)
  BY DEF Pop, Emit, State
<1>3. \A c : Pop([a EXCEPT !.cc = c]) = [Pop(a) EXCEPT !.cc = c]
  BY DEF Pop, State
<1>4. Pop(a) \in State /\ Pop(a).cc = a.cc
  BY <1>1, ZeroAssumption DEF Pop, State, Up
<1>5. ASSUME NEW x \in Val PROVE Pop(SetST(a, 0, x)) = Pop(a)
  <2> DEFINE s == SetST(a, 0, x)
             g == [a.tag EXCEPT ![t] = FALSE]
  <2>1. s = [a EXCEPT !.st = [a.st EXCEPT ![t] = x]]
    BY <1>1 DEF SetST
  <2>2. s.top = t /\ s.tag = a.tag /\ s.st = [a.st EXCEPT ![t] = x]
    BY <2>1 DEF State
  <2> HIDE DEF s
  <2>3. Pop(s) = [s EXCEPT !.top = Up(t), !.tag = g,
                           !.st = [s.st EXCEPT ![t] = Zero]]
    BY <2>2 DEF Pop, Up
  <2>4. [s.st EXCEPT ![t] = Zero] = [a.st EXCEPT ![t] = Zero]
    BY <1>1, <2>2
  <2>5. Pop(a) = [a EXCEPT !.top = Up(t), !.tag = g,
                           !.st = [a.st EXCEPT ![t] = Zero]]
    BY DEF Pop, Up
  <2> QED
    BY <2>1, <2>3, <2>4, <2>5 DEF State, s
<1> QED
  BY <1>2, <1>3, <1>4, <1>5

\* Stores to two different registers, in either order, then a pop.
LEMMA SetSet ==
    ASSUME NEW a \in State, NEW x \in Val, NEW y \in Val
    PROVE  /\ Pop(SetST(SetST(a, 0, x), 1, y)) = Pop(SetST(a, 1, y))
           /\ ST(SetST(a, 0, x), 0) = x /\ ST(SetST(a, 0, x), 1) = ST(a, 1)
           /\ ST(SetST(a, 1, y), 1) = y /\ ST(SetST(a, 1, y), 0) = ST(a, 0)
           /\ SetST(SetST(a, 1, x), 1, y) = SetST(a, 1, y)
<1> DEFINE s0 == a.top
           s1 == Phys(s0, 1)
<1>1. /\ s0 \in Slot /\ s1 \in Slot /\ s1 # s0 /\ a.st \in [Slot -> Val]
      /\ Phys(s0, 0) = s0 /\ Phys(s0, 1) = s1 /\ a.top = s0
  <2>1. s0 \in Slot /\ a.st \in [Slot -> Val]
    BY DEF State
  <2>2. Phys(s0, 0) = s0
    BY <2>1, BatchTop, NAssumption
  <2> HIDE DEF s0
  <2>3. s1 \in Slot /\ s1 # s0
    BY <2>1, Basics, DepthOnly
  <2> QED
    BY <2>1, <2>2, <2>3 DEF s0
<1> HIDE DEF s0, s1
<1>2. ASSUME NEW z \in Val, NEW d \in {0, 1}, NEW u \in Slot, u = Phys(s0, d)
      PROVE  /\ SetST(a, d, z) = [a EXCEPT !.st = [a.st EXCEPT ![u] = z]]
             /\ SetST(a, d, z) \in State /\ SetST(a, d, z).top = s0
             /\ SetST(a, d, z).st = [a.st EXCEPT ![u] = z]
  BY <1>1, <1>2 DEF SetST, State
<1>3. /\ SetST(a, 0, x) = [a EXCEPT !.st = [a.st EXCEPT ![s0] = x]]
      /\ SetST(a, 0, x).st = [a.st EXCEPT ![s0] = x]
      /\ SetST(a, 0, x) \in State /\ SetST(a, 0, x).top = s0
      /\ SetST(a, 1, x) = [a EXCEPT !.st = [a.st EXCEPT ![s1] = x]]
      /\ SetST(a, 1, x).st = [a.st EXCEPT ![s1] = x]
      /\ SetST(a, 1, x) \in State /\ SetST(a, 1, x).top = s0
      /\ SetST(a, 1, y) = [a EXCEPT !.st = [a.st EXCEPT ![s1] = y]]
      /\ SetST(a, 1, y).st = [a.st EXCEPT ![s1] = y]
      /\ SetST(a, 1, y) \in State /\ SetST(a, 1, y).top = s0
  BY <1>1, <1>2
<1>4. /\ ST(SetST(a, 0, x), 0) = x /\ ST(SetST(a, 0, x), 1) = ST(a, 1)
      /\ ST(SetST(a, 1, y), 1) = y /\ ST(SetST(a, 1, y), 0) = ST(a, 0)
  <2> DEFINE c == SetST(a, 0, x)
             d == SetST(a, 1, y)
  <2> HIDE DEF c, d
  <2>1. ST(c, 0) = x /\ ST(c, 1) = ST(a, 1) /\ ST(d, 1) = y /\ ST(d, 0) = ST(a, 0)
    BY <1>1, <1>3 DEF ST, c, d
  <2> QED
    BY <2>1 DEF c, d
<1>5. SetST(SetST(a, 0, x), 1, y) = SetST(SetST(a, 1, y), 0, x)
  <2> DEFINE c == SetST(a, 0, x)
             d == SetST(a, 1, y)
  <2>1. /\ SetST(c, 1, y) = [c EXCEPT !.st = [c.st EXCEPT ![s1] = y]]
        /\ SetST(d, 0, x) = [d EXCEPT !.st = [d.st EXCEPT ![s0] = x]]
    BY <1>1, <1>3 DEF SetST
  <2>2. [c.st EXCEPT ![s1] = y] = [d.st EXCEPT ![s0] = x]
    <3>1. /\ c.st = [a.st EXCEPT ![s0] = x]
          /\ d.st = [a.st EXCEPT ![s1] = y]
      BY <1>3
    <3> HIDE DEF c, d
    <3> QED
      BY <1>1, <3>1
  <2>3. /\ c = [a EXCEPT !.st = [a.st EXCEPT ![s0] = x]]
        /\ d = [a EXCEPT !.st = [a.st EXCEPT ![s1] = y]]
    BY <1>3
  <2> HIDE DEF c, d
  <2> DEFINE w == [c.st EXCEPT ![s1] = y]
  <2> HIDE DEF w
  <2>4. SetST(c, 1, y) = [a EXCEPT !.st = w] /\ SetST(d, 0, x) = [a EXCEPT !.st = w]
    <3>1. SetST(c, 1, y) = [c EXCEPT !.st = w] /\ SetST(d, 0, x) = [d EXCEPT !.st = w]
      BY <2>1, <2>2 DEF w
    <3> QED
      BY <2>3, <3>1 DEF State
  <2> QED
    BY <2>4 DEF c, d
<1>6. Pop(SetST(SetST(a, 1, y), 0, x)) = Pop(SetST(a, 1, y))
  BY <1>3, PopCommutes
<1>7. SetST(SetST(a, 1, x), 1, y) = SetST(a, 1, y)
  <2> DEFINE c == SetST(a, 1, x)
  <2>1. SetST(c, 1, y) = [c EXCEPT !.st = [c.st EXCEPT ![s1] = y]]
    BY <1>1, <1>3 DEF SetST
  <2>2. [c.st EXCEPT ![s1] = y] = [a.st EXCEPT ![s1] = y]
    BY <1>1, <1>3
  <2>3. c = [a EXCEPT !.st = [a.st EXCEPT ![s1] = x]]
    BY <1>3
  <2> HIDE DEF c
  <2>4. SetST(c, 1, y) = [a EXCEPT !.st = [a.st EXCEPT ![s1] = y]]
    BY <2>1, <2>2, <2>3 DEF State
  <2> QED
    BY <1>3, <2>4 DEF c
<1> QED
  BY <1>4, <1>5, <1>6, <1>7

(***************************************************************************)
(* One lemma for each try_fuse_* function.                                 *)
(***************************************************************************)
\* The start of a net-zero fusion.
LEMMA NetZeroStart ==
    ASSUME Between(jit, fpu), NEW j \in Entry
    PROVE  LET b == NetZeroFlush(x87_begin(j))
           IN  /\ Rep(b, A) /\ Cleared(A) /\ A \in State
               /\ A.top = b.wtop /\ A.top \in Slot
               /\ ~(j.npush > 0 /\ j.top_dirty) => b.top = A.top
BY Start, NetZeroRep, RepCleared DEF Rep, State

\* A load that is popped again leaves nothing but what was computed.
LEMMA LoadIs ==
    ASSUME NEW a, Cleared(a), CanPush(a, 1), NEW v \in Val
    PROVE  /\ Push(a, v) \in State /\ Pop(Push(a, v)) = a /\ ~InUse(a, N - 1)
           /\ ST(Push(a, v), 0) = v /\ ST(Push(a, v), 1) = ST(a, 0)
           /\ InUse(Push(a, v), 1) <=> InUse(a, 0)
           /\ \A w \in Val : SetST(Push(a, v), 0, w) = Push(a, w)
           /\ \A o : Pop(Emit(Push(a, v), o)) = Emit(a, o)
           /\ \A c : Pop([Push(a, v) EXCEPT !.cc = c]) = [a EXCEPT !.cc = c]
<1>1. a \in State /\ 0 \in Depth /\ 0 + 1 \in Depth /\ 0 + 1 = 1
  BY Basics DEF Cleared
<1>2. ~InUse(a, N - 1)
  BY DEF CanPush
<1>3. /\ Push(a, v) \in State /\ ST(Push(a, v), 0) = v
      /\ \A w \in Val : SetST(Push(a, v), 0, w) = Push(a, w)
      /\ ST(Push(a, v), 1) = ST(a, 0)
      /\ InUse(Push(a, v), 1) <=> InUse(a, 0)
  BY <1>1, PushST
<1>4. Pop(Push(a, v)) = a
  BY <1>2, PopPush
<1> QED
  BY <1>2, <1>3, <1>4, PopCommutes

\* try_fuse_fld_arithp.
LEMMA StepFldArithp ==
    ASSUME Between(jit, fpu), FldArithp
    PROVE  Between(jit', fpu')
<1>1. PICK j \in Entry, src \in Src, op \in ArithOps :
         /\ CanPush(A, 1) /\ Readable(A, src) /\ InUse(A, 0)
         /\ Step(try_fuse_fld_arithp(j, src, op), 2,
                 FARITHP(FLD(A, src), op, 1))
  BY DEF FldArithp
<1> DEFINE b == NetZeroFlush(x87_begin(j))
           v == Value(A, src)
           r == Arith(op, emit_load_st(b, 0), emit_fld_value(b, src))
<1>2. Rep(b, A) /\ Cleared(A)
  BY NetZeroStart
<1> HIDE DEF b
<1>3. /\ emit_fld_value(b, src) = v /\ v \in Val
      /\ emit_load_st(b, 0) = ST(A, 0) /\ ST(A, 0) \in Val
  BY <1>1, <1>2, ValueRep, LoadRep, Basics
<1> HIDE DEF v
<1>4. r = Arith(op, ST(A, 0), v) /\ r \in Val
  BY <1>3, ArithIn
<1> HIDE DEF r
<1>5. FARITHP(FLD(A, src), op, 1) = Pop(SetST(Push(A, v), 1, r))
  BY <1>1, <1>2, <1>3, <1>4, LoadIs DEF FARITHP, FARITH, FLD, Value, Reg, v
<1>6. FARITHP(FLD(A, src), op, 1) = SetST(A, 0, r)
  BY <1>1, <1>2, <1>3, <1>4, <1>5, LoadIs, PopUnder
<1>7. Rep(emit_store_st(b, 0, r), SetST(A, 0, r))
  BY <1>1, <1>2, <1>4, Basics, StoreRep
<1> QED
  BY <1>1, <1>6, <1>7, Finish DEF Step, try_fuse_fld_arithp, b, r

\* try_fuse_fld_fstp, memory destination.
LEMMA StepFldFstp ==
    ASSUME Between(jit, fpu), FldFstp
    PROVE  Between(jit', fpu')
<1>1. PICK j \in Entry, src \in Src :
         /\ CanPush(A, 1) /\ Readable(A, src)
         /\ Step(try_fuse_fld_fstp(j, src), 2, Pop(FST(FLD(A, src))))
  BY DEF FldFstp
<1> DEFINE b == NetZeroFlush(x87_begin(j))
           v == Value(A, src)
<1>2. Rep(b, A) /\ Cleared(A)
  BY NetZeroStart
<1> HIDE DEF b
<1>3. emit_fld_value(b, src) = v /\ v \in Val
  BY <1>1, <1>2, ValueRep
<1> HIDE DEF v
<1>4. Pop(FST(FLD(A, src))) = Emit(A, OutVal(v))
  BY <1>1, <1>2, <1>3, LoadIs DEF FST, FLD, v
<1>5. Rep(Emit(b, OutVal(v)), Emit(A, OutVal(v)))
  BY <1>2, <1>3, Basics, EmitRep
<1> QED
  BY <1>1, <1>3, <1>4, <1>5, Finish DEF Step, try_fuse_fld_fstp, b

\* try_fuse_fld_fstp, fstp ST(1).
LEMMA StepFldFstpReg ==
    ASSUME Between(jit, fpu), FldFstpReg
    PROVE  Between(jit', fpu')
<1>1. PICK j \in Entry, src \in Src :
         /\ CanPush(A, 1) /\ Readable(A, src) /\ InUse(A, 0)
         /\ Step(try_fuse_fld_fstp_reg(j, src), 2,
                 Pop(FSTReg(FLD(A, src), 1)))
  BY DEF FldFstpReg
<1> DEFINE b == NetZeroFlush(x87_begin(j))
           v == Value(A, src)
<1>2. Rep(b, A) /\ Cleared(A)
  BY NetZeroStart
<1> HIDE DEF b
<1>3. emit_fld_value(b, src) = v /\ v \in Val
  BY <1>1, <1>2, ValueRep
<1> HIDE DEF v
<1>4. Pop(FSTReg(FLD(A, src), 1)) = Pop(SetST(Push(A, v), 1, v))
  BY <1>1, <1>2, <1>3, LoadIs DEF FSTReg, FLD, v
<1>5. Pop(FSTReg(FLD(A, src), 1)) = SetST(A, 0, v)
  BY <1>1, <1>2, <1>3, <1>4, LoadIs, PopUnder
<1>6. Rep(emit_store_st(b, 0, v), SetST(A, 0, v))
  BY <1>1, <1>2, <1>3, Basics, StoreRep
<1> QED
  BY <1>1, <1>3, <1>5, <1>6, Finish DEF Step, try_fuse_fld_fstp_reg, b

\* fld src; f<op> y: the loaded register holds the result.
LEMMA FldArithIs ==
    ASSUME NEW b, NEW a, Rep(b, a), CanPush(a, 1), NEW src \in Src,
           Readable(a, src), NEW op \in ArithOps, NEW y \in Old,
           Readable(a, y)
    PROVE  LET w == FldArith(b, src, op, y)
           IN  /\ w \in Val
               /\ FARITH(FLD(a, src), op, 0, Deeper(y)) = Push(a, w)
<1> DEFINE v == Value(a, src)
           w == FldArith(b, src, op, y)
<1>1. Cleared(a)
  BY RepCleared
<1>2. emit_fld_value(b, src) = v /\ v \in Val
  BY ValueRep
<1>3. y \in Src
  BY Basics DEF Old, Mem, Src, Reg
<1>4. emit_fld_value(b, y) = Value(a, y) /\ Value(a, y) \in Val
  BY <1>3, ValueRep
<1>5. w = Arith(op, v, Value(a, y)) /\ w \in Val
  BY <1>2, <1>4, ArithIn DEF FldArith
<1> HIDE DEF v
<1>6. Value(Push(a, v), Deeper(y)) = Value(a, y)
  <2>1. CASE y \in Mem
    BY <2>1 DEF Mem, Deeper, Value
  <2>2. CASE y = Reg(0)
    <3>1. Deeper(y) = Reg(1)
      BY <2>2 DEF Deeper, Reg
    <3>2. ST(Push(a, v), 1) = ST(a, 0)
      BY <1>1, <1>2, LoadIs
    <3> QED
      BY <2>2, <3>1, <3>2 DEF Value, Reg
  <2> QED
    BY <2>1, <2>2 DEF Old
<1> HIDE DEF w
<1>7. FARITH(FLD(a, src), op, 0, Deeper(y)) = SetST(Push(a, v), 0, w)
  BY <1>1, <1>2, <1>5, <1>6, LoadIs DEF FARITH, FLD, v
<1>8. FARITH(FLD(a, src), op, 0, Deeper(y)) = Push(a, w)
  BY <1>1, <1>2, <1>5, <1>7, LoadIs
<1> QED
  BY <1>5, <1>8 DEF w

\* try_fuse_fld_arith_fstp, memory destination.
LEMMA StepFldArithFstp ==
    ASSUME Between(jit, fpu), FldArithFstp
    PROVE  Between(jit', fpu')
<1>1. PICK j \in Entry, src \in Src, op \in ArithOps, y \in Old :
         /\ CanPush(A, 1) /\ Readable(A, src) /\ Readable(A, y)
         /\ Step(try_fuse_fld_arith_fstp(j, src, op, y), 3,
                 Pop(FST(FARITH(FLD(A, src), op, 0, Deeper(y)))))
  BY DEF FldArithFstp
<1> DEFINE b == NetZeroFlush(x87_begin(j))
           w == FldArith(b, src, op, y)
<1>2. Rep(b, A) /\ Cleared(A)
  BY NetZeroStart
<1> HIDE DEF b
<1>3. w \in Val /\ FARITH(FLD(A, src), op, 0, Deeper(y)) = Push(A, w)
  BY <1>1, <1>2, FldArithIs
<1> HIDE DEF w
<1>4. Pop(FST(Push(A, w))) = Emit(A, OutVal(w))
  BY <1>1, <1>2, <1>3, LoadIs DEF FST
<1>5. Rep(Emit(b, OutVal(w)), Emit(A, OutVal(w)))
  BY <1>2, <1>3, Basics, EmitRep
<1> QED
  BY <1>1, <1>3, <1>4, <1>5, Finish DEF Step, try_fuse_fld_arith_fstp, b, w

\* ST(0) is one of the operands y can name.
LEMMA OldReadable ==
    ASSUME NEW y \in Old, InUse(A, 0)
    PROVE  Readable(A, y)
BY DEF Old, Mem, Reg, Readable

\* try_fuse_fld_arith_fstp, fstp ST(1).
LEMMA StepFldArithFstpReg ==
    ASSUME Between(jit, fpu), FldArithFstpReg
    PROVE  Between(jit', fpu')
<1>1. PICK j \in Entry, src \in Src, op \in ArithOps, y \in Old :
         /\ CanPush(A, 1) /\ Readable(A, src) /\ InUse(A, 0)
         /\ Step(try_fuse_fld_arith_fstp_reg(j, src, op, y), 3,
                 Pop(FSTReg(FARITH(FLD(A, src), op, 0, Deeper(y)), 1)))
  BY DEF FldArithFstpReg
<1> DEFINE b == NetZeroFlush(x87_begin(j))
           w == FldArith(b, src, op, y)
<1>2. Rep(b, A) /\ Cleared(A)
  BY NetZeroStart
<1> HIDE DEF b
<1>3. w \in Val /\ FARITH(FLD(A, src), op, 0, Deeper(y)) = Push(A, w)
  BY <1>1, <1>2, OldReadable, FldArithIs
<1> HIDE DEF w
<1>4. Pop(FSTReg(Push(A, w), 1)) = Pop(SetST(Push(A, w), 1, w))
  BY <1>1, <1>2, <1>3, LoadIs DEF FSTReg
<1>5. Pop(FSTReg(Push(A, w), 1)) = SetST(A, 0, w)
  BY <1>1, <1>2, <1>3, <1>4, LoadIs, PopUnder
<1>6. Rep(emit_store_st(b, 0, w), SetST(A, 0, w))
  BY <1>1, <1>2, <1>3, Basics, StoreRep
<1> QED
  BY <1>1, <1>3, <1>5, <1>6, Finish DEF Step, try_fuse_fld_arith_fstp_reg, b, w

\* try_fuse_fld_arith_arithp.
LEMMA StepFldArithArithp ==
    ASSUME Between(jit, fpu), FldArithArithp
    PROVE  Between(jit', fpu')
<1>1. PICK j \in Entry, src \in Src, op \in ArithOps, op2 \in ArithOps,
           y \in Old :
         /\ CanPush(A, 1) /\ Readable(A, src) /\ InUse(A, 0)
         /\ Step(try_fuse_fld_arith_arithp(j, src, op, y, op2), 3,
                 FARITHP(FARITH(FLD(A, src), op, 0, Deeper(y)), op2, 1))
  BY DEF FldArithArithp
<1> DEFINE b == NetZeroFlush(x87_begin(j))
           w == FldArith(b, src, op, y)
           r == Arith(op2, emit_load_st(b, 0), w)
<1>2. Rep(b, A) /\ Cleared(A)
  BY NetZeroStart
<1> HIDE DEF b
<1>3. w \in Val /\ FARITH(FLD(A, src), op, 0, Deeper(y)) = Push(A, w)
  BY <1>1, <1>2, OldReadable, FldArithIs
<1> HIDE DEF w
<1>4. r = Arith(op2, ST(A, 0), w) /\ r \in Val
  BY <1>1, <1>2, <1>3, LoadRep, ArithIn, Basics
<1> HIDE DEF r
<1>5. FARITHP(Push(A, w), op2, 1) = Pop(SetST(Push(A, w), 1, r))
  BY <1>1, <1>2, <1>3, <1>4, LoadIs DEF FARITHP, FARITH, Value, Reg
<1>6. FARITHP(Push(A, w), op2, 1) = SetST(A, 0, r)
  BY <1>1, <1>2, <1>3, <1>4, <1>5, LoadIs, PopUnder
<1>7. Rep(emit_store_st(b, 0, r), SetST(A, 0, r))
  BY <1>1, <1>2, <1>4, Basics, StoreRep
<1> QED
  BY <1>1, <1>3, <1>6, <1>7, Finish DEF Step, try_fuse_fld_arith_arithp, b, w, r

\* try_fuse_fld_fcomp.
LEMMA StepFldFcomp ==
    ASSUME Between(jit, fpu), FldFcomp
    PROVE  Between(jit', fpu')
<1>1. PICK j \in Entry, src \in Src :
         /\ CanPush(A, 1) /\ Readable(A, src) /\ InUse(A, 0)
         /\ Step(try_fuse_fld_fcomp(j, src), 2,
                 Pop(FCOM(FLD(A, src), Reg(1))))
  BY DEF FldFcomp
<1> DEFINE b == NetZeroFlush(x87_begin(j))
           v == Value(A, src)
           r == Cmp(emit_fld_value(b, src), emit_load_st(b, 0))
<1>2. Rep(b, A) /\ Cleared(A)
  BY NetZeroStart
<1> HIDE DEF b
<1>3. /\ emit_fld_value(b, src) = v /\ v \in Val
      /\ emit_load_st(b, 0) = ST(A, 0) /\ ST(A, 0) \in Val
  BY <1>1, <1>2, ValueRep, LoadRep, Basics
<1> HIDE DEF v
<1>4. r = Cmp(v, ST(A, 0)) /\ r \in CC
  BY <1>3, CmpAssumption
<1> HIDE DEF r
<1>5. Pop(FCOM(FLD(A, src), Reg(1))) = Pop([Push(A, v) EXCEPT !.cc = r])
  BY <1>1, <1>2, <1>3, <1>4, LoadIs DEF FCOM, FLD, Value, Reg, v
<1>6. Pop(FCOM(FLD(A, src), Reg(1))) = [A EXCEPT !.cc = r]
  <2>1. Pop([Push(A, v) EXCEPT !.cc = r]) = [A EXCEPT !.cc = r]
    BY <1>1, <1>2, <1>3, LoadIs
  <2> QED
    BY <1>5, <2>1
<1>7. Rep([b EXCEPT !.cc = r], [A EXCEPT !.cc = r])
  BY <1>2, <1>4, CcRep
<1>8. Rep([b EXCEPT !.cc = r], Pop(FCOM(FLD(A, src), Reg(1))))
  BY <1>6, <1>7
<1> QED
  BY <1>1, <1>8, Finish DEF Step, try_fuse_fld_fcomp, b, r

\* try_fuse_fld_fcomp_fstsw: AX is current when no batch of pushes is pending.
LEMMA StepFldFcompFstsw ==
    ASSUME Between(jit, fpu), Shapes = {}, FldFcompFstsw
    PROVE  Between(jit', fpu')
<1>1. PICK j \in Entry, src \in Src, y \in Old :
         /\ StatusOK(j)
         /\ CanPush(A, 1) /\ Readable(A, src) /\ Readable(A, y)
         /\ Step(try_fuse_fld_fcomp_fstsw(j, src, y), 3,
                 FSTSW(Pop(FCOM(FLD(A, src), Deeper(y)))))
  BY DEF FldFcompFstsw
<1> DEFINE b == NetZeroFlush(x87_begin(j))
           v == Value(A, src)
           r == Cmp(emit_fld_value(b, src), emit_fld_value(b, y))
           o == OutSW(b.top, r)
           e == [A EXCEPT !.cc = r]
           k == [b EXCEPT !.cc = r]
<1>2. /\ Rep(b, A) /\ Cleared(A) /\ b.top = A.top /\ A.top \in Slot
      /\ A \in State
  BY <1>1, NetZeroStart DEF StatusOK
<1> HIDE DEF b
<1>3. y \in Src
  BY Basics DEF Old, Mem, Src, Reg
<1>4. /\ emit_fld_value(b, src) = v /\ v \in Val
      /\ emit_fld_value(b, y) = Value(A, y) /\ Value(A, y) \in Val
  BY <1>1, <1>2, <1>3, ValueRep
<1> HIDE DEF v
<1>5. r = Cmp(v, Value(A, y)) /\ r \in CC
  BY <1>4, CmpAssumption
<1>6. Value(Push(A, v), Deeper(y)) = Value(A, y)
  <2>1. CASE y \in Mem
    BY <2>1 DEF Mem, Deeper, Value
  <2>2. CASE y = Reg(0)
    <3>1. Deeper(y) = Reg(1)
      BY <2>2 DEF Deeper, Reg
    <3>2. ST(Push(A, v), 1) = ST(A, 0)
      BY <1>1, <1>2, <1>4, LoadIs
    <3> QED
      BY <2>2, <3>1, <3>2 DEF Value, Reg
  <2> QED
    BY <2>1, <2>2 DEF Old
<1> HIDE DEF r
<1>7. Pop(FCOM(FLD(A, src), Deeper(y))) = Pop([Push(A, v) EXCEPT !.cc = r])
  BY <1>1, <1>2, <1>4, <1>5, <1>6, LoadIs DEF FCOM, FLD, v
<1>8. Pop(FCOM(FLD(A, src), Deeper(y))) = e
  BY <1>1, <1>2, <1>4, <1>7, LoadIs
<1>9. FSTSW(e) = Emit(e, o) /\ o \in Outs
  <2>1. e.top = b.top /\ e.cc = r
    BY <1>2, <1>5 DEF State
  <2> QED
    BY <1>2, <1>5, <2>1, Basics DEF FSTSW
<1>10. Rep(k, e)
  BY <1>2, <1>5, CcRep
<1> HIDE DEF k, e, o
<1>11. Rep(Emit(k, o), FSTSW(e))
  BY <1>9, <1>10, EmitRep
<1> QED
  BY <1>1, <1>8, <1>11, Finish
     DEF Step, try_fuse_fld_fcomp_fstsw, b, r, k, o

\* A popping form keeps the condition codes it set.
LEMMA PopNCc ==
    ASSUME NEW a \in State, NEW n \in 0..2
    PROVE  PopN(a, n).cc = a.cc
<1>1. Pop(a) \in State /\ Pop(a).cc = a.cc
  BY PopCommutes
<1>2. Pop(Pop(a)).cc = a.cc
  BY <1>1, PopCommutes
<1> QED
  BY <1>1, <1>2 DEF PopN

\* try_fuse_fcom_fstsw: AX carries TOP as it is after the pops.
LEMMA StepFcomFstsw ==
    ASSUME Between(jit, fpu), FcomFstsw
    PROVE  Between(jit', fpu')
<1>1. PICK j \in Entry, src \in Src, n \in 0..2 :
         /\ n = 2 => src = Reg(1)
         /\ InUse(A, 0) /\ Readable(A, src)
         /\ Step(try_fuse_fcom_fstsw(j, src, n), 2,
                 FSTSW(PopN(FCOM(A, src), n)))
  BY DEF FcomFstsw
<1> DEFINE b == x87_begin(j)
           r == Cmp(emit_load_st(b, 0), emit_fld_value(b, src))
           g == x87_flush_top(b)
           f == [g EXCEPT !.cc = r]
           k == PopIf(f, n)
           e == PopN(FCOM(A, src), n)
           t == IF n = 0 THEN f.top ELSE k.wtop
<1>2. Rep(b, A) /\ A \in State /\ b.wtop = A.top
  BY <1>1, Start DEF Rep
<1> HIDE DEF b
<1>3. r = Cmp(ST(A, 0), Value(A, src)) /\ r \in CC
  BY <1>1, <1>2, Basics, LoadRep, ValueRep, CmpAssumption
<1>4. Rep(g, A) /\ g.top = A.top
  BY <1>2, FlushTop
<1> HIDE DEF r, g
<1>5. Rep(f, FCOM(A, src)) /\ f.top = A.top
  BY <1>3, <1>4, CcRep DEF FCOM
<1>6. /\ InUse(FCOM(A, src), 0) /\ (n = 2 => InUse(FCOM(A, src), 1))
      /\ FCOM(A, src).cc = r /\ FCOM(A, src) \in State
      /\ FCOM(A, src).top = A.top
  BY <1>1, <1>2, <1>3 DEF FCOM, InUse, State, Readable, Reg
<1> HIDE DEF f
<1>7. Rep(k, e)
  BY <1>5, <1>6, PopIfRep
<1>8. e.cc = r
  BY <1>6, PopNCc
<1>9. n = 0 => e = FCOM(A, src)
  BY DEF PopN
<1> HIDE DEF k, e
<1>10. e.top = k.wtop /\ e.top \in Slot
  BY <1>7 DEF Rep, State
<1>11. t = e.top
  BY <1>5, <1>6, <1>9, <1>10
<1> HIDE DEF t
<1>12. FSTSW(e) = Emit(e, OutSW(t, r)) /\ OutSW(t, r) \in Outs
  BY <1>3, <1>8, <1>10, <1>11, Basics DEF FSTSW
<1>13. Rep(Emit(k, OutSW(t, r)), FSTSW(e))
  BY <1>7, <1>12, EmitRep
<1> QED
  BY <1>1, <1>13, Finish DEF Step, try_fuse_fcom_fstsw, b, r, g, f, k, e, t

\* try_fuse_fld_fcompp_fstsw: one pop is left.
LEMMA StepFldFcomppFstsw ==
    ASSUME Between(jit, fpu), FldFcomppFstsw
    PROVE  Between(jit', fpu')
<1>1. PICK j \in Entry, src \in Src :
         /\ CanPush(A, 1) /\ Readable(A, src) /\ InUse(A, 0)
         /\ Step(try_fuse_fld_fcompp_fstsw(j, src), 3,
                 FSTSW(PopN(FCOM(FLD(A, src), Reg(1)), 2)))
  BY DEF FldFcomppFstsw
<1> DEFINE b == x87_begin(j)
           v == Value(A, src)
           r == Cmp(emit_fld_value(b, src), emit_load_st(b, 0))
           g == x87_flush_top(b)
           f == [g EXCEPT !.cc = r]
           c == [A EXCEPT !.cc = r]
           k == x87_pop(f)
           e == Pop(c)
<1>2. Rep(b, A) /\ A \in State /\ Cleared(A)
  BY <1>1, Start, RepCleared
<1> HIDE DEF b
<1>3. /\ emit_fld_value(b, src) = v /\ v \in Val
      /\ emit_load_st(b, 0) = ST(A, 0) /\ ST(A, 0) \in Val
  BY <1>1, <1>2, ValueRep, LoadRep, Basics
<1> HIDE DEF v
<1>4. r = Cmp(v, ST(A, 0)) /\ r \in CC
  BY <1>3, CmpAssumption
<1>5. Rep(g, A)
  BY <1>2, FlushTop
<1> HIDE DEF r, g
<1>6. Rep(f, c)
  BY <1>4, <1>5, CcRep
<1>7. c \in State /\ InUse(c, 0) /\ c.cc = r
  BY <1>1, <1>2, <1>4 DEF State, InUse
<1>8. FCOM(FLD(A, src), Reg(1)) = [Push(A, v) EXCEPT !.cc = r]
  BY <1>1, <1>2, <1>3, <1>4, LoadIs DEF FCOM, FLD, Value, Reg, v
<1>9. Pop([Push(A, v) EXCEPT !.cc = r]) = c
  BY <1>1, <1>2, <1>3, LoadIs
<1> HIDE DEF c, f
<1>10. PopN(FCOM(FLD(A, src), Reg(1)), 2) = e
  BY <1>8, <1>9 DEF PopN
<1>11. Rep(k, e) /\ e.cc = r
  BY <1>6, <1>7, PopRep, PopCommutes
<1> HIDE DEF k, e
<1>12. FSTSW(e) = Emit(e, OutSW(k.wtop, r)) /\ OutSW(k.wtop, r) \in Outs
  BY <1>4, <1>11, Basics DEF FSTSW, Rep, State
<1>13. Rep(Emit(k, OutSW(k.wtop, r)), FSTSW(e))
  BY <1>11, <1>12, EmitRep
<1> QED
  BY <1>1, <1>10, <1>13, Finish
     DEF Step, try_fuse_fld_fcompp_fstsw, b, r, g, f, k

\* try_fuse_fxch_fstp: the exchange and the store cancel out.
LEMMA StepFxchFstp ==
    ASSUME Between(jit, fpu), FxchFstp
    PROVE  Between(jit', fpu')
<1>1. PICK j \in Entry :
         /\ InUse(A, 0) /\ InUse(A, 1)
         /\ Step(try_fuse_fxch_fstp(j), 2, Pop(FSTReg(FXCH(A, 1), 1)))
  BY DEF FxchFstp
<1> DEFINE b == x87_begin(j)
           x == ST(A, 1)
           c == SetST(A, 0, x)
<1>2. Rep(b, A) /\ A \in State /\ x \in Val /\ ST(A, 0) \in Val
  BY <1>1, Start, LoadRep, Basics DEF Rep
<1>3. c \in State /\ ST(c, 0) = x /\ ST(c, 1) = x
  BY <1>2, SetSet, SetInUse, Basics
<1>4. FXCH(A, 1) = SetST(c, 1, ST(A, 0))
  BY DEF FXCH
<1> HIDE DEF c
<1>5. ST(SetST(c, 1, ST(A, 0)), 0) = x
  BY <1>2, <1>3, SetSet
<1>6. SetST(SetST(c, 1, ST(A, 0)), 1, x) = SetST(c, 1, x)
  BY <1>2, <1>3, SetSet
<1>7. SetST(c, 1, x) = c
  BY <1>3, Basics, PhysIn DEF SetST, ST, State
<1>8. Pop(c) = Pop(A)
  BY <1>2, PopCommutes DEF c
<1>9. Pop(FSTReg(FXCH(A, 1), 1)) = Pop(A)
  BY <1>4, <1>5, <1>6, <1>7, <1>8 DEF FSTReg
<1>10. Rep(x87_pop(x87_flush_top(b)), Pop(A))
  BY <1>1, <1>2, FlushTop, PopRep
<1> QED
  BY <1>1, <1>9, <1>10, Finish DEF Step, try_fuse_fxch_fstp

\* The second of two loads, seen from before the first.
LEMMA SecondIs ==
    ASSUME NEW b, NEW a, Rep(b, a), NEW s1 \in Src, NEW s2 \in Src,
           Readable(a, s1), CanPush(a, 1), Readable(FLD(a, s1), s2)
    PROVE  /\ SecondFld(b, s1, s2) = Value(FLD(a, s1), s2)
           /\ Value(FLD(a, s1), s2) \in Val
<1> DEFINE v == Value(a, s1)
           p == Push(a, v)
<1>1. Cleared(a) /\ a \in State
  BY RepCleared
<1>2. emit_fld_value(b, s1) = v /\ v \in Val
  BY ValueRep
<1>3. FLD(a, s1) = p
  BY DEF FLD
<1> HIDE DEF v
<1>4. CASE s2 \in [kind : {"val"}, v : Val]
  BY <1>4 DEF SecondFld, Value
<1>5. CASE s2 \in [kind : {"reg"}, d : Depth] /\ s2.d = 0
  <2>1. s2.kind = "reg"
    BY <1>5
  <2> QED
    BY <1>1, <1>2, <1>3, <1>5, <2>1, LoadIs DEF SecondFld, Value
<1>6. CASE s2 \in [kind : {"reg"}, d : Depth] /\ s2.d # 0
  <2> DEFINE d == s2.d - 1
  <2>1. s2.kind = "reg" /\ d \in Depth /\ d + 1 \in Depth /\ d + 1 = s2.d
    BY <1>6, NAssumption DEF Depth
  <2>2. InUse(p, s2.d)
    BY <1>3, <2>1 DEF Readable
  <2> HIDE DEF d
  <2>3. InUse(a, d) /\ ST(p, s2.d) = ST(a, d)
    BY <1>1, <1>2, <2>1, <2>2, PushST
  <2>4. emit_load_st(b, d) = ST(a, d) /\ ST(a, d) \in Val
    BY <2>1, <2>3, LoadRep
  <2> QED
    BY <1>3, <1>6, <2>1, <2>3, <2>4 DEF SecondFld, Value, d
<1> QED
  BY <1>4, <1>5, <1>6 DEF Src

\* try_fuse_fld_fld_fucompp, with and without fstsw.
LEMMA StepFldFldFucompp ==
    ASSUME Between(jit, fpu), Shapes = {}, FldFldFucompp
    PROVE  Between(jit', fpu')
<1>1. PICK j \in Entry, s1 \in Src, s2 \in Src, sw \in BOOLEAN :
         /\ sw => StatusOK(j)
         /\ CanPush(A, 2) /\ Readable(A, s1) /\ Readable(FLD(A, s1), s2)
         /\ LET a == PopN(FCOM(FLD(FLD(A, s1), s2), Reg(1)), 2)
            IN  Step(try_fuse_fld_fld_fucompp(j, s1, s2, sw),
                     IF sw THEN 4 ELSE 3, IF sw THEN FSTSW(a) ELSE a)
  BY DEF FldFldFucompp
<1> DEFINE b == NetZeroFlush(x87_begin(j))
           v1 == Value(A, s1)
           p == Push(A, v1)
           v2 == Value(p, s2)
           r == Cmp(SecondFld(b, s1, s2), emit_fld_value(b, s1))
           k == [b EXCEPT !.cc = r]
           e == [A EXCEPT !.cc = r]
           a2 == PopN(FCOM(FLD(FLD(A, s1), s2), Reg(1)), 2)
<1>2. /\ Rep(b, A) /\ Cleared(A) /\ A.top \in Slot /\ A \in State
      /\ sw => b.top = A.top
  BY <1>1, NetZeroStart DEF StatusOK
<1> HIDE DEF b
<1>3. CanPush(A, 1) /\ ~InUse(A, N - 2)
  BY <1>1 DEF CanPush
<1>4. FLD(A, s1) = p
  BY DEF FLD
<1>5. emit_fld_value(b, s1) = v1 /\ v1 \in Val
  BY <1>1, <1>2, ValueRep
<1>6. SecondFld(b, s1, s2) = v2 /\ v2 \in Val
  BY <1>1, <1>2, <1>3, <1>4, SecondIs
<1>7. r = Cmp(v2, v1) /\ r \in CC
  BY <1>5, <1>6, CmpAssumption
<1> HIDE DEF v1, v2, r
<1>8. p \in State /\ Pop(p) = A /\ ST(p, 0) = v1
  BY <1>2, <1>3, <1>5, LoadIs
<1>9. ~InUse(p, N - 1)
  <2> DEFINE d == N - 2
  <2>1. d \in Depth /\ d + 1 \in Depth /\ d + 1 = N - 1
    BY NAssumption DEF Depth
  <2> HIDE DEF d
  <2>2. InUse(p, d + 1) <=> InUse(A, d)
    BY <1>2, <1>5, <2>1, PushST
  <2> QED
    BY <1>3, <2>1, <2>2 DEF d
<1>10. Cleared(p)
  <2> DEFINE u == Down(A.top)
  <2>1. /\ p.tag = [A.tag EXCEPT ![u] = TRUE] /\ p.st = [A.st EXCEPT ![u] = v1]
        /\ u \in Slot /\ A.tag \in [Slot -> BOOLEAN] /\ A.st \in [Slot -> Val]
    BY <1>2, UpDown DEF Push, Down, State
  <2> HIDE DEF u, p
  <2> QED
    BY <1>2, <1>8, <2>1 DEF Cleared
<1> HIDE DEF p
<1>11. CanPush(p, 1)
  BY <1>9 DEF CanPush
<1>12. FCOM(FLD(FLD(A, s1), s2), Reg(1)) = [Push(p, v2) EXCEPT !.cc = r]
  BY <1>4, <1>6, <1>7, <1>8, <1>10, <1>11, LoadIs DEF FCOM, FLD, Value, Reg, v2
<1>13. Pop([Push(p, v2) EXCEPT !.cc = r]) = [p EXCEPT !.cc = r]
  BY <1>6, <1>10, <1>11, LoadIs
<1>14. Pop([p EXCEPT !.cc = r]) = e
  BY <1>8, PopCommutes
<1>15. a2 = e
  BY <1>12, <1>13, <1>14 DEF PopN
<1>16. Rep(k, e)
  BY <1>2, <1>7, CcRep
<1>17. e.top = A.top /\ e.cc = r /\ k.top = b.top
  BY <1>2, <1>7, CcRep DEF State
<1> HIDE DEF k, e, a2
<1>18. CASE sw
  <2>1. FSTSW(e) = Emit(e, OutSW(k.top, r)) /\ OutSW(k.top, r) \in Outs
    BY <1>2, <1>7, <1>17, <1>18, Basics DEF FSTSW
  <2>2. Rep(Emit(k, OutSW(k.top, r)), FSTSW(e))
    BY <1>16, <2>1, EmitRep
  <2>3. Step(try_fuse_fld_fld_fucompp(j, s1, s2, sw), 4, FSTSW(e))
    BY <1>1, <1>15, <1>18 DEF a2
  <2>4. try_fuse_fld_fld_fucompp(j, s1, s2, sw)
           = x87_end(Emit(k, OutSW(k.top, r)), 4)
    BY <1>18 DEF try_fuse_fld_fld_fucompp, b, r, k
  <2> QED
    BY <2>2, <2>3, <2>4, Finish DEF Step
<1>19. CASE ~sw
  <2>1. Step(try_fuse_fld_fld_fucompp(j, s1, s2, sw), 3, e)
    BY <1>1, <1>15, <1>19 DEF a2
  <2>2. try_fuse_fld_fld_fucompp(j, s1, s2, sw) = x87_end(k, 3)
    BY <1>19 DEF try_fuse_fld_fld_fucompp, b, r, k
  <2> QED
    BY <1>16, <2>1, <2>2, Finish DEF Step
<1> QED
  BY <1>18, <1>19

\* try_fuse_arithp_fstp: the sum is stored and both operands popped.
LEMMA StepArithpFstp ==
    ASSUME Between(jit, fpu), ArithpFstp
    PROVE  Between(jit', fpu')
<1>1. PICK j \in Entry, op \in ArithOps :
         /\ InUse(A, 0) /\ InUse(A, 1)
         /\ Step(try_fuse_arithp_fstp(j, op), 2, Pop(FST(FARITHP(A, op, 1))))
  BY DEF ArithpFstp
<1> DEFINE b == x87_begin(j)
           r == Arith(op, emit_load_st(b, 1), emit_load_st(b, 0))
           s == SetST(A, 1, r)
           o == OutVal(r)
<1>2. Rep(b, A) /\ A \in State
  BY <1>1, Start DEF Rep
<1> HIDE DEF b
<1>3. r = Arith(op, ST(A, 1), ST(A, 0)) /\ r \in Val
  BY <1>1, <1>2, LoadRep, ArithIn, Basics
<1> HIDE DEF r
<1>4. FARITHP(A, op, 1) = Pop(s) /\ s \in State /\ ST(s, 1) = r
  BY <1>2, <1>3, SetSet, SetInUse, Basics DEF FARITHP, FARITH, Value, Reg
<1>5. 0 \in Depth /\ 0 + 1 \in Depth /\ 0 + 1 = 1
  BY Basics
<1>6. ST(Pop(s), 0) = r /\ Pop(s) \in State
  BY <1>4, <1>5, PopST, PopCommutes
<1>7. Pop(Pop(s)) = Pop(Pop(A))
  <2>1. Pop(s) = SetST(Pop(A), 0, r)
    <3> DEFINE t == A.top
               u == Up(t)
               g == [A.tag EXCEPT ![t] = FALSE]
               w == [[A.st EXCEPT ![u] = r] EXCEPT ![t] = Zero]
    <3>1. /\ t \in Slot /\ u \in Slot /\ Phys(u, 0) = u /\ u # t
          /\ A.st \in [Slot -> Val]
      <4>1. t \in Slot /\ A.st \in [Slot -> Val]
        BY <1>2 DEF State
      <4> HIDE DEF t
      <4>2. 1 \in Depth /\ u = Phys(t, 1)
        BY <1>5 DEF Up
      <4>3. u \in Slot /\ u # t
        BY <4>1, <4>2, DepthOnly
      <4> HIDE DEF u
      <4>4. Phys(u, 0) = u
        BY <4>3, NAssumption DEF Phys, Slot
      <4> QED
        BY <4>1, <4>3, <4>4
    <3>2. s = [A EXCEPT !.st = [A.st EXCEPT ![u] = r]]
      BY DEF SetST, Up
    <3>3. s.top = t /\ s.tag = A.tag /\ s.st = [A.st EXCEPT ![u] = r]
      BY <1>2, <3>2 DEF State
    <3> HIDE DEF s
    <3>4. Pop(s) = [s EXCEPT !.top = u, !.tag = g, !.st = w]
      BY <3>3 DEF Pop, Up
    <3>5. Pop(A) = [A EXCEPT !.top = u, !.tag = g, !.st = [A.st EXCEPT ![t] = Zero]]
      BY DEF Pop, Up
    <3>6. Pop(A).top = u /\ Pop(A).st = [A.st EXCEPT ![t] = Zero]
      BY <1>2, <3>5 DEF State
    <3>7. SetST(Pop(A), 0, r)
            = [Pop(A) EXCEPT !.st = [[A.st EXCEPT ![t] = Zero] EXCEPT ![u] = r]]
      BY <3>1, <3>6 DEF SetST
    <3>8. [[A.st EXCEPT ![t] = Zero] EXCEPT ![u] = r] = w
      <4> HIDE DEF t, u
      <4> QED
        BY <3>1
    <3> HIDE DEF w, g
    <3>9. /\ Pop(s) = [A EXCEPT !.top = u, !.tag = g, !.st = w]
          /\ SetST(Pop(A), 0, r) = [A EXCEPT !.top = u, !.tag = g, !.st = w]
      BY <1>2, <3>2, <3>4, <3>5, <3>7, <3>8 DEF State
    <3> QED
      BY <3>9
  <2> QED
    BY <1>2, <1>3, <2>1, PopCommutes
<1>8. Pop(FST(Pop(s))) = Emit(Pop(Pop(A)), o)
  BY <1>6, <1>7, PopCommutes DEF FST
<1>9. Emit(Pop(Pop(A)), o) = Pop(Pop(Emit(A, o)))
  BY <1>2, PopCommutes
<1> HIDE DEF s, o
<1>10. o \in Outs
  BY <1>3, Basics DEF o
<1>11. Rep(PopIf(Emit(b, o), 2), PopN(Emit(A, o), 2))
  BY <1>1, <1>2, <1>10, EmitPopRep
<1>12. Rep(x87_pop_n(Emit(b, o), 2), Pop(FST(FARITHP(A, op, 1))))
  BY <1>4, <1>8, <1>9, <1>11 DEF PopIf, PopN
<1> QED
  BY <1>1, <1>12, Finish DEF Step, try_fuse_arithp_fstp, b, r, o

\* try_fuse_arith_fstp: the result is stored and not kept.
LEMMA StepArithFstp ==
    ASSUME Between(jit, fpu), ArithFstp
    PROVE  Between(jit', fpu')
<1>1. PICK j \in Entry, op \in ArithOps, y \in Src :
         /\ InUse(A, 0) /\ Readable(A, y)
         /\ Step(try_fuse_arith_fstp(j, op, y), 2, Pop(FST(FARITH(A, op, 0, y))))
  BY DEF ArithFstp
<1> DEFINE b == x87_begin(j)
           r == Arith(op, emit_load_st(b, 0), emit_fld_value(b, y))
           s == SetST(A, 0, r)
           o == OutVal(r)
<1>2. Rep(b, A) /\ A \in State
  BY <1>1, Start DEF Rep
<1> HIDE DEF b
<1>3. r = Arith(op, ST(A, 0), Value(A, y)) /\ r \in Val
  BY <1>1, <1>2, LoadRep, ValueRep, ArithIn, Basics
<1> HIDE DEF r
<1>4. FARITH(A, op, 0, y) = s /\ s \in State /\ ST(s, 0) = r /\ Pop(s) = Pop(A)
  BY <1>2, <1>3, SetSet, SetInUse, PopCommutes, Basics DEF FARITH
<1>5. Pop(FST(s)) = Pop(Emit(A, o))
  BY <1>2, <1>4, PopCommutes DEF FST
<1> HIDE DEF s, o
<1>6. o \in Outs
  BY <1>3, Basics DEF o
<1>7. Rep(PopIf(Emit(b, o), 1), PopN(Emit(A, o), 1))
  BY <1>1, <1>2, <1>6, EmitPopRep
<1>8. Rep(x87_pop(Emit(b, o)), Pop(FST(FARITH(A, op, 0, y))))
  BY <1>4, <1>5, <1>7 DEF PopIf, PopN
<1> QED
  BY <1>1, <1>8, Finish DEF Step, try_fuse_arith_fstp, b, r, o

\* try_fuse_arith_faddp: the product never reaches ST(0).
LEMMA StepArithFaddp ==
    ASSUME Between(jit, fpu), ArithFaddp
    PROVE  Between(jit', fpu')
<1>1. PICK j \in Entry, y \in Src, op \in {"add", "sub", "subr"} :
         /\ InUse(A, 0) /\ InUse(A, 1) /\ Readable(A, y)
         /\ Step(try_fuse_arith_faddp(j, y, op), 2,
                 FARITHP(FARITH(A, "mul", 0, y), op, 1))
  BY DEF ArithFaddp
<1> DEFINE b == x87_begin(j)
           m == Arith("mul", emit_load_st(b, 0), emit_fld_value(b, y))
           r == Arith(op, emit_load_st(b, 1), m)
           s == SetST(A, 0, m)
<1>2. Rep(b, A) /\ A \in State /\ "mul" \in ArithOps /\ op \in ArithOps
  BY <1>1, Start DEF Rep, ArithOps
<1> HIDE DEF b
<1>3. m = Arith("mul", ST(A, 0), Value(A, y)) /\ m \in Val
  BY <1>1, <1>2, LoadRep, ValueRep, ArithIn, Basics
<1> HIDE DEF m
<1>4. r = Arith(op, ST(A, 1), m) /\ r \in Val
  BY <1>1, <1>2, <1>3, LoadRep, ArithIn, Basics
<1> HIDE DEF r
<1>5. FARITH(A, "mul", 0, y) = s /\ ST(s, 0) = m /\ ST(s, 1) = ST(A, 1)
  BY <1>2, <1>3, SetSet DEF FARITH
<1>6. FARITHP(s, op, 1) = Pop(SetST(s, 1, r))
  BY <1>4, <1>5 DEF FARITHP, FARITH, Value, Reg
<1>7. Pop(SetST(s, 1, r)) = Pop(SetST(A, 1, r))
  BY <1>2, <1>3, <1>4, SetSet
<1> HIDE DEF s
<1>8. Rep(emit_store_st(b, 1, r), SetST(A, 1, r)) /\ InUse(SetST(A, 1, r), 0)
  BY <1>1, <1>2, <1>4, StoreRep, SetInUse, Basics
<1>9. Rep(x87_pop(emit_store_st(b, 1, r)), FARITHP(FARITH(A, "mul", 0, y), op, 1))
  BY <1>5, <1>6, <1>7, <1>8, PopRep
<1> QED
  BY <1>1, <1>9, Finish DEF Step, try_fuse_arith_faddp, b, m, r

\* The operand of a load that follows a pop, seen from before the pop.
LEMMA DeeperIs ==
    ASSUME NEW b, NEW a, Rep(b, a), NEW src \in Src, Readable(Pop(a), src)
    PROVE  /\ emit_fld_value(b, Deeper(src)) = Value(Pop(a), src)
           /\ Value(Pop(a), src) \in Val
<1>1. CASE src \in [kind : {"val"}, v : Val]
  BY <1>1 DEF emit_fld_value, Deeper, Value
<1>2. CASE src \in [kind : {"reg"}, d : Depth]
  <2> DEFINE d == src.d
  <2>1. src.kind = "reg" /\ d \in Depth /\ InUse(Pop(a), d) /\ a \in State
    BY <1>2 DEF Readable, Rep
  <2>2. Deeper(src) = Reg(d + 1)
    BY <2>1 DEF Deeper
  <2> HIDE DEF d
  <2>3. d + 1 \in Depth
    <3>1. CASE d = N - 1
      <4>1. Phys(Up(a.top), N - 1) = a.top /\ a.top \in Slot
        BY <2>1, UpDown DEF Down, State
      <4>2. ~InUse(Pop(a), N - 1)
        BY <2>1, <4>1 DEF InUse, Pop, State, Up
      <4> QED
        BY <2>1, <3>1, <4>2
    <3>2. CASE d # N - 1
      BY <2>1, <3>2, NAssumption DEF Depth
    <3> QED
      BY <3>1, <3>2
  <2>4. InUse(a, d + 1) /\ ST(Pop(a), d) = ST(a, d + 1)
    BY <2>1, <2>3, PopST
  <2>5. emit_load_st(b, d + 1) = ST(a, d + 1) /\ ST(a, d + 1) \in Val
    BY <2>3, <2>4, LoadRep
  <2>6. emit_fld_value(b, Deeper(src)) = emit_load_st(b, d + 1)
    BY <2>2 DEF emit_fld_value, Reg
  <2>7. Value(Pop(a), src) = ST(Pop(a), d)
    BY <2>1 DEF Value, d
  <2> QED
    BY <2>4, <2>5, <2>6, <2>7
<1> QED
  BY <1>1, <1>2 DEF Src

\* A pop followed by a load: the register popped is overwritten in place.
LEMMA ReplaceTop ==
    ASSUME NEW b, NEW a, Rep(b, a), InUse(a, 0), NEW src \in Src,
           Readable(Pop(a), src)
    PROVE  Rep(emit_store_st(b, 0, emit_fld_value(b, Deeper(src))),
               FLD(Pop(a), src))
<1> DEFINE w == Value(Pop(a), src)
<1>1. emit_fld_value(b, Deeper(src)) = w /\ w \in Val
  BY DeeperIs
<1>2. FLD(Pop(a), src) = Push(Pop(a), w)
  BY DEF FLD
<1> HIDE DEF w
<1>3. Push(Pop(a), w) = SetST(a, 0, w)
  BY <1>1, PushPop DEF Rep
<1>4. Rep(emit_store_st(b, 0, w), SetST(a, 0, w))
  BY <1>1, StoreRep, Basics
<1> QED
  BY <1>1, <1>2, <1>3, <1>4

\* try_fuse_fstp_fld, memory form: the value is stored, then replaced.
LEMMA StepFstpFld ==
    ASSUME Between(jit, fpu), FstpFld
    PROVE  Between(jit', fpu')
<1>1. PICK j \in Entry, src \in Src :
         /\ InUse(A, 0) /\ Readable(Pop(A), src)
         /\ Step(try_fuse_fstp_fld(j, src), 2, FLD(Pop(FST(A)), src))
  BY DEF FstpFld
<1> DEFINE b == NetZeroFlush(x87_begin(j))
           x == OutVal(emit_load_st(b, 0))
           o == Emit(b, x)
<1>2. Rep(b, A) /\ A \in State
  BY NetZeroStart
<1> HIDE DEF b
<1>3. x = OutVal(ST(A, 0)) /\ x \in Outs
  BY <1>1, <1>2, LoadRep, Basics
<1> HIDE DEF x
<1>4. Rep(o, Emit(A, x)) /\ FST(A) = Emit(A, x)
  BY <1>2, <1>3, EmitRep DEF FST
<1>5. InUse(Emit(A, x), 0)
  BY <1>1, <1>2 DEF InUse, Emit, State
<1>6. Pop(Emit(A, x)) = Emit(Pop(A), x) /\ Pop(A) \in State
  BY <1>2, PopCommutes
<1>7. Readable(Pop(Emit(A, x)), src)
  BY <1>1, <1>6 DEF Readable, InUse, Emit, State
<1> HIDE DEF o
<1>8. Rep(emit_store_st(o, 0, emit_fld_value(o, Deeper(src))),
          FLD(Pop(FST(A)), src))
  BY <1>4, <1>5, <1>7, ReplaceTop
<1> QED
  BY <1>1, <1>8, Finish DEF Step, try_fuse_fstp_fld, b, x, o

\* try_fuse_fstp_fld, register form: ST(i) takes the value.
LEMMA StepFstpRegFld ==
    ASSUME Between(jit, fpu), FstpRegFld
    PROVE  Between(jit', fpu')
<1>1. PICK j \in Entry, i \in Depth, src \in Src :
         /\ InUse(A, 0) /\ InUse(A, i) /\ Readable(Pop(A), src)
         /\ Step(try_fuse_fstp_reg_fld(j, i, src), 2, FLD(Pop(FSTReg(A, i)), src))
  BY DEF FstpRegFld
<1> DEFINE b == NetZeroFlush(x87_begin(j))
           m == IF i = 0 THEN b ELSE emit_store_st(b, i, emit_load_st(b, 0))
           c == FSTReg(A, i)
<1>2. Rep(b, A) /\ A \in State
  BY NetZeroStart
<1> HIDE DEF b
<1>3. Rep(m, c)
  BY <1>1, <1>2, CopyRep
<1>4. c \in State /\ c.top = A.top /\ c.tag = A.tag
  BY <1>2, <1>3 DEF Rep, FSTReg, SetST, State
<1> HIDE DEF c, m
<1>5. InUse(c, 0)
  BY <1>1, <1>4 DEF InUse
<1>6. Pop(c).top = Pop(A).top /\ Pop(c).tag = Pop(A).tag
  BY <1>2, <1>4 DEF Pop, State
<1>7. Readable(Pop(c), src)
  BY <1>1, <1>6 DEF Readable, InUse
<1>8. Rep(emit_store_st(m, 0, emit_fld_value(m, Deeper(src))), FLD(Pop(c), src))
  BY <1>3, <1>5, <1>7, ReplaceTop
<1> QED
  BY <1>1, <1>8, Finish DEF Step, try_fuse_fstp_reg_fld, b, m, c

\* What the cache stands for does not depend on how much of the run is left.
LEMMA ReRun ==
    ASSUME NEW b, NEW a, Rep(b, a), b.run > 0, NEW r \in 1..MaxRun
    PROVE  /\ Rep([b EXCEPT !.run = r], a)
           /\ [b EXCEPT !.run = r].run = r
           /\ Idle([b EXCEPT !.run = r]) <=> Idle(b)
<1> DEFINE c == [b EXCEPT !.run = r]
<1>1. b \in JitState /\ b.gprs_valid /\ a \in State
  BY DEF Rep, JOK
<1>2. /\ c.run = r /\ c.wtop = b.wtop /\ c.top = b.top /\ c.tag = b.tag
      /\ c.st = b.st /\ c.cc = b.cc /\ c.cw = b.cw /\ c.nzcv = b.nzcv
      /\ c.out = b.out /\ c.npush = b.npush /\ c.npop = b.npop
      /\ c.perm = b.perm /\ c.top_dirty = b.top_dirty
      /\ c.perm_dirty = b.perm_dirty /\ c.gprs_valid = b.gprs_valid
  BY <1>1 DEF JitState
<1>3. c \in JitState
  BY <1>1, MaxRunAssumption DEF JitState
<1> HIDE DEF c
<1>4. Idle(c) <=> Idle(b)
  BY <1>2 DEF Idle
<1>5. TopOK(c) /\ PermOK(c) /\ TagOK(c)
  BY <1>2 DEF Rep, JOK, TopOK, PermOK, TagOK
<1>6. r > 0 /\ r # 0
  OBVIOUS
<1>7. JOK(c)
  BY <1>1, <1>2, <1>3, <1>5, <1>6 DEF JOK
<1>8. \A d : emit_load_st(c, d) = emit_load_st(b, d)
  BY <1>2 DEF emit_load_st, resolve_depth
<1>9. \A s : TagOf(c, s) <=> TagOf(b, s)
  BY <1>2 DEF TagOf
<1>10. Rep(c, a)
  BY <1>2, <1>7, <1>8, <1>9 DEF Rep
<1> QED
  BY <1>2, <1>4, <1>10 DEF c

\* fxch; f<op>p is f<op>p with the operands exchanged.
LEMMA FxchArithpIs ==
    ASSUME NEW a \in State, NEW op \in ArithOps
    PROVE  FARITHP(FXCH(a, 1), op, 1) = FARITHP(a, Swapped(op), 1)
<1> DEFINE x == ST(a, 0)
           y == ST(a, 1)
           e == SetST(a, 0, y)
           r == Arith(op, x, y)
<1>1. x \in Val /\ y \in Val
  BY PhysIn, Basics DEF ST, State
<1>2. e \in State /\ ST(e, 0) = y
  BY <1>1, SetInUse, SetSet, Basics
<1>3. FXCH(a, 1) = SetST(e, 1, x)
  BY DEF FXCH
<1> HIDE DEF x, y, e
<1>4. ST(SetST(e, 1, x), 1) = x /\ ST(SetST(e, 1, x), 0) = y
  BY <1>1, <1>2, SetSet
<1>5. r \in Val /\ r = Arith(Swapped(op), y, x)
  BY <1>1, ArithIn, ArithSwap
<1>6. FARITHP(FXCH(a, 1), op, 1) = Pop(SetST(SetST(e, 1, x), 1, r))
  BY <1>3, <1>4 DEF FARITHP, FARITH, Value, Reg
<1> HIDE DEF r
<1>7. SetST(SetST(e, 1, x), 1, r) = SetST(e, 1, r)
  BY <1>1, <1>2, <1>5, SetSet
<1>8. Pop(SetST(e, 1, r)) = Pop(SetST(a, 1, r))
  BY <1>1, <1>5, SetSet DEF e
<1>9. FARITHP(a, Swapped(op), 1) = Pop(SetST(a, 1, r))
  BY <1>5 DEF FARITHP, FARITH, Value, Reg, x, y
<1> QED
  BY <1>6, <1>7, <1>8, <1>9

\* try_fuse_fxch_arithp: one instruction of the run is taken back before the
\* delegated translation ends it and returned afterwards.
LEMMA StepFxchArithp ==
    ASSUME Between(jit, fpu), Shapes = {}, FxchArithp
    PROVE  Between(jit', fpu')
<1>1. PICK j \in Entry, op \in ArithOps :
         /\ Fits(j, 2) /\ InUse(A, 0) /\ InUse(A, 1)
         /\ Step(try_fuse_fxch_arithp(j, op), 2, FARITHP(FXCH(A, 1), op, 1))
  BY DEF FxchArithp
<1> DEFINE q == Swapped(op)
           c == FARITHP(A, q, 1)
           b == x87_begin(j)
<1>2. /\ Rep(b, A) /\ A \in State /\ b.run = j.run /\ j \in JitState
      /\ j.run = 0 \/ j.run >= 2
  BY <1>1, Start DEF Rep, Between, Fits
<1>3. q \in ArithOps /\ fpu' = c /\ jit' = tick(try_fuse_fxch_arithp(j, op), 2)
  BY <1>1, <1>2, ArithIn, ArithSwap, FxchArithpIs, Basics DEF Step, ArithOps, Swapped
<1> HIDE DEF q, c
<1>4. CASE j.run = 0
  <2> DEFINE r == Arith(q, emit_load_st(b, 1), emit_load_st(b, 0))
             m == x87_pop(emit_store_st(b, 1, r))
  <2>1. Rep(m, c) /\ m.run = b.run
    BY <1>1, <1>2, <1>3, ArithpRep, Basics DEF c
  <2>2. try_fuse_fxch_arithp(j, op) = x87_end(m, 1)
    BY <1>4 DEF try_fuse_fxch_arithp, translate_arithp, q
  <2> HIDE DEF m
  <2>3. /\ Rep(x87_end(m, 1), c) /\ x87_end(m, 1).run = 0
        /\ Idle(x87_end(m, 1))
    BY <1>2, <1>4, <2>1, EndRep
  <2> QED
    BY <1>3, <2>2, <2>3, TickRep
<1>5. CASE j.run >= 2
  <2> DEFINE p == [j EXCEPT !.run = j.run - 1]
             n == x87_begin(p)
             r == Arith(q, emit_load_st(n, 1), emit_load_st(n, 0))
             m == x87_pop(emit_store_st(n, 1, r))
             e == x87_end(m, 1)
             z == [e EXCEPT !.run = j.run]
  <2>1. j.run - 1 \in 1..MaxRun /\ j.run \in 1..MaxRun /\ j.run > 0
    BY <1>2, <1>5, MaxRunAssumption DEF JitState
  <2>2. n = [b EXCEPT !.run = j.run - 1]
    <3>1. p.run = j.run - 1 /\ p.gprs_valid = j.gprs_valid /\ p.top = j.top
      BY <1>2 DEF JitState
    <3>2. CASE j.gprs_valid
      BY <1>2, <2>1, <3>1, <3>2 DEF x87_begin
    <3>3. CASE ~j.gprs_valid
      <4>1. b = [j EXCEPT !.wtop = j.top, !.gprs_valid = TRUE]
        BY <1>2, <2>1, <3>3 DEF x87_begin, JitState
      <4>2. n = [p EXCEPT !.wtop = j.top, !.gprs_valid = TRUE]
        <5>1. ~p.gprs_valid /\ p.run > 0 /\ p \in JitState
          BY <1>2, <2>1, <3>1, <3>3, MaxRunAssumption DEF JitState
        <5>2. p.top = j.top
          BY <3>1
        <5> HIDE DEF p
        <5> QED
          BY <5>1, <5>2 DEF x87_begin, JitState
      <4> HIDE DEF b, n
      <4> QED
        BY <1>2, <4>1, <4>2 DEF JitState
    <3> QED
      BY <3>2, <3>3
  <2> HIDE DEF b, n
  <2>3. Rep(n, A) /\ n.run = j.run - 1
    BY <1>2, <2>1, <2>2, ReRun
  <2>4. Rep(m, c) /\ m.run = j.run - 1
    BY <1>1, <1>3, <2>3, ArithpRep, Basics DEF c
  <2> HIDE DEF m
  <2>5. /\ Rep(e, c) /\ e.run = j.run - 1
        /\ j.run - 1 <= 1 => Idle(e)
    BY <2>4, EndRep
  <2>6. translate_arithp(p, q, 1) = e
    BY DEF translate_arithp, n, m
  <2> HIDE DEF e
  <2>7. Rep(z, c) /\ z.run = j.run /\ (j.run <= 2 => Idle(z))
    BY <2>1, <2>5, ReRun
  <2>8. try_fuse_fxch_arithp(j, op) = z
    <3>1. j.run > 0 /\ e.run > 0 /\ e.run + 1 = j.run
      BY <2>1, <2>5
    <3>2. p = [j EXCEPT !.run = @ - 1]
      OBVIOUS
    <3> HIDE DEF p
    <3>3. try_fuse_fxch_arithp(j, op) = [e EXCEPT !.run = e.run + 1]
      BY <2>6, <3>1, <3>2 DEF try_fuse_fxch_arithp, q
    <3> QED
      BY <3>1, <3>3
  <2> HIDE DEF z
  <2> QED
    BY <1>3, <2>7, <2>8, TickRep
<1> QED
  BY <1>2, <1>4, <1>5

(***************************************************************************)
(* The invariant holds initially, is kept by every step and implies what   *)
(* the runs check.                                                         *)
(***************************************************************************)
\* An X87State just constructed, with no cache.
LEMMA InitBetween ==
    ASSUME Init
    PROVE  Between(jit, fpu)
<1>1. PICK c \in CC, f \in CC, w \in CW :
         /\ fpu = InitState(c, f, w)
         /\ jit = [top |-> 0, tag |-> [s \in Slot |-> FALSE],
                   st |-> [s \in Slot |-> Zero], cc |-> c, cw |-> w, nzcv |-> f,
                   out |-> NoOut, wtop |-> 0, gprs_valid |-> FALSE,
                   top_dirty |-> FALSE, npush |-> 0, npop |-> 0,
                   perm |-> IdPerm, perm_dirty |-> FALSE, run |-> 0]
  BY DEF Init
<1>2. 0 \in Slot /\ Zero \in Val /\ 0 \in 0..N /\ 0 \in 0..MaxRun
  BY NAssumption, ZeroAssumption, MaxRunAssumption DEF Slot
<1>3. IdPerm \in [Depth -> Depth] /\ IdPerm \in Perms /\ NoOut \in Outs
  BY Basics DEF IdPerm, Perms
<1>4. fpu \in State
  BY <1>1, <1>2, <1>3 DEF State, InitState
<1>5. jit \in JitState
  BY <1>1, <1>2, <1>3 DEF JitState
<1>6. Idle(jit) /\ ~jit.gprs_valid
  BY <1>1 DEF Idle
<1>7. PermOK(jit)
  BY <1>1, <1>3 DEF PermOK
<1>8. \A s \in Slot : ~jit.tag[s] /\ ~fpu.tag[s] /\ fpu.st[s] = Zero
  BY <1>1 DEF InitState
<1>9. /\ jit.top = fpu.top /\ jit.cc = fpu.cc /\ jit.cw = fpu.cw
      /\ jit.nzcv = fpu.nzcv /\ jit.out = fpu.out
  BY <1>1 DEF InitState
<1>10. MemRep(jit, fpu)
  BY <1>4, <1>5, <1>6, <1>7, <1>8, <1>9 DEF MemRep
<1> QED
  BY <1>6, <1>10, MemBetween

\* Every step of translate_instruction keeps the invariant.
LEMMA NextBetween ==
    ASSUME Between(jit, fpu), Shapes = {}, [Next]_vars
    PROVE  Between(jit', fpu')
<1>1. CASE Single
  BY <1>1, StepFld, StepFldM80, StepArithmetic, StepArithmeticPop, StepUnary,
     StepFrndint, StepFst, StepFstM80, StepFstReg, StepFist, StepFisttp,
     StepFcom, StepFtst, StepFcomi, StepFcmov, StepFstsw, StepFxch, StepFldcw,
     StepFnstcw, StepFnop DEF Single
<1>2. CASE Fused
  BY <1>2, StepFldArithp, StepFxchArithp, StepFldFstp, StepFldFstpReg,
     StepFxchFstp, StepFcomFstsw, StepFldArithFstp, StepFldArithFstpReg,
     StepFldArithArithp, StepFldFcomp, StepFldFcompFstsw, StepFldFcomppFstsw,
     StepFldFldFucompp, StepArithpFstp, StepArithFstp, StepArithFaddp,
     StepFstpFld, StepFstpRegFld DEF Fused
<1>3. CASE Rosetta
  BY <1>3, StepKeepalive, StepBridge, StepHandBack, StepLeave DEF Rosetta
<1>4. CASE UNCHANGED vars
  BY <1>4 DEF vars
<1> QED
  BY <1>1, <1>2, <1>3, <1>4 DEF Next

\* A state that a cache stands for is the one its View shows.
LEMMA BetweenCoherent ==
    ASSUME Between(jit, fpu)
    PROVE  Coherent
<1> DEFINE b == x87_begin(jit)
<1>1. Rep(b, fpu) /\ fpu \in State /\ jit \in JitState
  BY DEF Between, Rep
<1>2. /\ b.cc = jit.cc /\ b.cw = jit.cw /\ b.nzcv = jit.nzcv
      /\ b.out = jit.out
  BY <1>1 DEF x87_begin, JitState
<1>3. View(jit) = Image(b.wtop, Tags(b), Vals(b), jit)
  BY DEF View
<1> HIDE DEF b
<1>4. Tags(b) = fpu.tag
  <2>1. Tags(b) = [s \in Slot |-> TagOf(b, s)]
    BY DEF Tags, TagOf
  <2>2. \A s \in Slot : fpu.tag[s] <=> TagOf(b, s)
    BY <1>1 DEF Rep
  <2>3. \A s \in Slot : TagOf(b, s) \in BOOLEAN
    BY DEF TagOf
  <2>4. fpu.tag \in [Slot -> BOOLEAN]
    BY <1>1 DEF State
  <2> HIDE DEF Tags
  <2> QED
    BY <2>1, <2>2, <2>3, <2>4
<1>5. [s \in Slot |-> IF fpu.tag[s] THEN Vals(b)[s] ELSE Zero] = fpu.st
  <2>1. \A s \in Slot : fpu.st[s] = IF fpu.tag[s] THEN Vals(b)[s] ELSE Zero
    BY <1>1 DEF Rep, Vals
  <2>2. fpu.st \in [Slot -> Val]
    BY <1>1 DEF State
  <2> QED
    BY <2>1, <2>2
<1>6. /\ fpu.top = b.wtop /\ fpu.cc = jit.cc /\ fpu.cw = jit.cw
      /\ fpu.nzcv = jit.nzcv /\ fpu.out = jit.out
  BY <1>1, <1>2 DEF Rep
<1>7. fpu = [top |-> fpu.top, tag |-> fpu.tag, st |-> fpu.st, cc |-> fpu.cc,
             cw |-> fpu.cw, nzcv |-> fpu.nzcv, out |-> fpu.out]
  BY <1>1 DEF State
<1> QED
  BY <1>3, <1>4, <1>5, <1>6, <1>7 DEF Coherent, Image

\* Between instructions the cache is loaded and inside a run, or idle.
LEMMA LoadedOrIdle ==
    ASSUME Between(jit, fpu)
    PROVE  \/ jit.run > 0 /\ jit.gprs_valid /\ x87_begin(jit) = jit
           \/ ~jit.gprs_valid /\ Idle(jit) /\ MemRep(jit, fpu)
<1>1. jit \in JitState /\ Rep(x87_begin(jit), fpu)
  BY DEF Between
<1>2. CASE jit.gprs_valid
  <2>1. CASE jit.run > 0
    BY <1>2, <2>1 DEF x87_begin
  <2>2. CASE jit.run = 0
    <3>1. x87_begin(jit).gprs_valid /\ x87_begin(jit).run = 0
      BY <1>1, <1>2, <2>2 DEF x87_begin, JitState
    <3> QED
      BY <1>1, <3>1 DEF Rep, JOK
  <2> QED
    BY <1>1, <1>2, <2>1, <2>2, MaxRunAssumption DEF JitState
<1>3. CASE ~jit.gprs_valid
  BY <1>3, BetweenMem DEF Between
<1> QED
  BY <1>2, <1>3

\* With an idle cache memory holds the guest's X87State.
LEMMA BetweenMemory ==
    ASSUME Between(jit, fpu)
    PROVE  MemoryCurrentAtRunEnd
<1> SUFFICES ASSUME jit.run = 0
             PROVE  MemoryImage(jit) = fpu
  BY DEF MemoryCurrentAtRunEnd
<1>1. MemRep(jit, fpu) /\ fpu \in State /\ jit \in JitState
  BY LoadedOrIdle DEF MemRep
<1>2. jit.tag = fpu.tag
  BY <1>1 DEF MemRep, State, JitState
<1>3. [s \in Slot |-> IF jit.tag[s] THEN jit.st[s] ELSE Zero] = fpu.st
  <2>1. \A s \in Slot : fpu.st[s] = IF jit.tag[s] THEN jit.st[s] ELSE Zero
    BY <1>1 DEF MemRep
  <2>2. fpu.st \in [Slot -> Val]
    BY <1>1 DEF State
  <2> QED
    BY <2>1, <2>2
<1>4. fpu = [top |-> fpu.top, tag |-> fpu.tag, st |-> fpu.st, cc |-> fpu.cc,
             cw |-> fpu.cw, nzcv |-> fpu.nzcv, out |-> fpu.out]
  BY <1>1 DEF State
<1>5. /\ jit.top = fpu.top /\ jit.cc = fpu.cc /\ jit.cw = fpu.cw
      /\ jit.nzcv = fpu.nzcv /\ jit.out = fpu.out
  BY <1>1 DEF MemRep
<1> QED
  BY <1>2, <1>3, <1>4, <1>5 DEF MemoryImage, Image

\* The bookkeeping of the cache.
LEMMA BetweenCache ==
    ASSUME Between(jit, fpu)
    PROVE  TopBaseline /\ TagsDisjoint /\ NothingDeferredOutsideRun
<1>1. CASE jit.run > 0 /\ jit.gprs_valid /\ x87_begin(jit) = jit
  <2>1. TopOK(jit) /\ TagOK(jit)
    BY <1>1 DEF Between, Rep, JOK
  <2> QED
    BY <1>1, <2>1 DEF TopOK, TagOK, TopBaseline, TagsDisjoint,
                      NothingDeferredOutsideRun
<1>2. CASE ~jit.gprs_valid /\ Idle(jit) /\ MemRep(jit, fpu)
  <2>1. jit.perm = IdPerm /\ jit.wtop \in Slot
    BY <1>2 DEF MemRep, PermOK, Idle, JitState
  <2>2. \A s \in Slot : ~(Dist(jit.wtop, s) < 0) /\ ~(Dist(jit.wtop, s) >= N - 0)
    BY <2>1, DistIn, NAssumption
  <2> QED
    BY <1>2, <2>1, <2>2 DEF Idle, TopBaseline, TagsDisjoint,
                            NothingDeferredOutsideRun
<1> QED
  BY <1>1, <1>2, LoadedOrIdle

\* Between is an invariant of every program outside the named shapes.
LEMMA Invariant ==
    ASSUME Shapes = {}
    PROVE  Spec => []Between(jit, fpu)
<1>1. Init => Between(jit, fpu)
  BY InitBetween
<1>2. Between(jit, fpu) /\ [Next]_vars => Between(jit, fpu)'
  BY NextBetween
<1> QED
  BY <1>1, <1>2, PTL DEF Spec

\* Type correctness of the translator's cache and of the X87State: at most N
\* pushes and pops are pending in x87_push and x87_pop, and TOP, the tags and
\* run_remaining stay in range, whatever the sequence of translate_* calls.
THEOREM TypeCorrect ==
    ASSUME Shapes = {}
    PROVE  Spec => []TypeOK
<1>1. Between(jit, fpu) => TypeOK
  BY DEF Between, Rep, TypeOK
<1> QED
  BY <1>1, Invariant, PTL

\* The deferral of TOP, of the tags and of exchanges by x87_push, x87_pop and
\* translate_fxch is invisible to the guest, through every translate_* and
\* every try_fuse_*: for every register count, run length, value domain and
\* arithmetic, the cache stands for the state of the machine that executes
\* each instruction at once.
THEOREM Coherence ==
    ASSUME Shapes = {}
    PROVE  Spec => []Coherent
<1>1. Between(jit, fpu) => Coherent
  BY BetweenCoherent
<1> QED
  BY <1>1, Invariant, PTL

\* x87_end writes everything back before tick() forgets it: outside a run the
\* X87State in memory is the guest's, which is what Rosetta's own translation
\* and the runtime library read.
THEOREM MemoryCurrent ==
    ASSUME Shapes = {}
    PROVE  Spec => []MemoryCurrentAtRunEnd
<1>1. Between(jit, fpu) => MemoryCurrentAtRunEnd
  BY BetweenMemory
<1> QED
  BY <1>1, Invariant, PTL

\* The baseline that the pop cancellation of x87_pop relies on.
THEOREM Baseline ==
    ASSUME Shapes = {}
    PROVE  Spec => []TopBaseline
<1>1. Between(jit, fpu) => TopBaseline
  BY BetweenCache
<1> QED
  BY <1>1, Invariant, PTL

\* The batches of x87_flush_tags never touch a slot twice, and each is of
\* slots whose tag in memory it really changes.
THEOREM TagBatches ==
    ASSUME Shapes = {}
    PROVE  Spec => []TagsDisjoint
<1>1. Between(jit, fpu) => TagsDisjoint
  BY BetweenCache
<1> QED
  BY <1>1, Invariant, PTL

\* A new run never inherits deferred work of an earlier one.
THEOREM CleanStart ==
    ASSUME Shapes = {}
    PROVE  Spec => []NothingDeferredOutsideRun
<1>1. Between(jit, fpu) => NothingDeferredOutsideRun
  BY BetweenCache
<1> QED
  BY <1>1, Invariant, PTL
=============================================================================
