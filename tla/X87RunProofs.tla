---------------------------- MODULE X87RunProofs ----------------------------
(***************************************************************************)
(* Runs, for every block, every configuration and every demand of the      *)
(* bridged instructions: deferred work is written back before its run      *)
(* ends, the scan for the length of a run is exact, a pinned register is   *)
(* never stale as long as gap_written_gpr_mask tells the truth about the   *)
(* instructions that are bridged, and no allocation finds the pool of      *)
(* scratch registers empty.                                                *)
(***************************************************************************)
EXTENDS X87Run, WellFoundedInduction, FiniteSetTheorems, TLAPS

(***************************************************************************)
(* Induction with a set in the place of a predicate, from the fact that    *)
(* the natural numbers are well-founded.                                   *)
(***************************************************************************)

\* A set of natural numbers that is not empty has a least element.
LEMMA LeastNatural == ASSUME NEW T, T \subseteq Nat, T # {} PROVE \E x \in T : \A y \in T : x <= y
<1> DEFINE R == OpToRel(<, Nat)
<1>1. IsWellFoundedOn(R, Nat) BY NatLessThanWellFounded
<1>2. \A y, x \in Nat : y < x => <<y, x>> \in R BY DEF OpToRel
<1> HIDE DEF R
<1>3. PICK x \in T : \A y \in T : ~(<<y, x>> \in R) BY <1>1, WFMin
<1>4. ASSUME NEW y \in T PROVE x <= y
  <2>1. x \in Nat /\ y \in Nat OBVIOUS
  <2>2. ~(y < x) BY <1>2, <1>3, <2>1
  <2> QED BY <2>1, <2>2
<1> QED BY <1>3, <1>4

\* A set that has 0 and with each number the next one has them all.
LEMMA Upward ==
    ASSUME NEW S, 0 \in S, \A n \in Nat : n \in S => n + 1 \in S PROVE Nat \subseteq S
<1> SUFFICES ASSUME Nat \ S # {} PROVE FALSE OBVIOUS
<1>1. PICK n \in Nat \ S : \A m \in Nat \ S : n <= m BY LeastNatural
<1>2. n # 0 /\ n - 1 \in Nat BY <1>1
<1>3. n - 1 \in S BY <1>1, <1>2
<1> QED BY <1>2, <1>3

\* From the end of a sequence to its beginning.
LEMMA Downward ==
    ASSUME NEW N \in Nat, NEW S, \A k \in 1..N : (\A x \in (k + 1)..N : x \in S) => k \in S
    PROVE  1..N \subseteq S
<1> SUFFICES ASSUME 1..N \ S # {} PROVE FALSE OBVIOUS
<1> DEFINE T == {n \in 0..N : N - n \in 1..N /\ N - n \notin S}
<1>1. T \subseteq Nat OBVIOUS
<1>2. T # {}
  <2>1. PICK k \in 1..N : k \notin S OBVIOUS
  <2>2. N - k \in 0..N /\ N - (N - k) = k OBVIOUS
  <2>3. N - k \in T BY <2>1, <2>2
  <2> QED BY <2>3
<1>3. PICK n \in T : \A m \in T : n <= m BY <1>1, <1>2, LeastNatural
<1>4. n \in 0..N /\ N - n \in 1..N /\ N - n \notin S BY <1>3
<1>5. ASSUME NEW x \in (N - n + 1)..N PROVE x \in S
  <2>1. N - x \in 0..N /\ N - (N - x) = x /\ ~(n <= N - x) /\ x \in 1..N BY <1>4
  <2> QED BY <1>3, <2>1
<1> QED BY <1>4, <1>5

\* f adds D up along nx, from each place to the first one in Stop.
SumsUp(f, N, D, Stop, nx) ==
    f = [k \in 1..N |-> IF k \in Stop THEN D[k] ELSE D[k] + f[nx[k]]]

\* A function that refers to itself only further on exists.
LEMMA DownRecursion ==
    ASSUME NEW N \in Nat, NEW D \in [1..N -> Nat], NEW Stop, NEW nx,
           \A k \in 1..N : k \notin Stop => nx[k] \in (k + 1)..N
    PROVE  \E f : SumsUp(f, N, D, Stop, nx)
<1> DEFINE Good(f, m) == \A k \in m..N : f[k] = IF k \in Stop THEN D[k] ELSE D[k] + f[nx[k]]
           P(d) == d <= N => \E f \in [1..N -> Nat] : Good(f, N + 1 - d)
           Set == {d \in Nat : P(d)}
<1>1. P(0)
  <2>1. [k \in 1..N |-> 0] \in [1..N -> Nat] OBVIOUS
  <2>2. Good([k \in 1..N |-> 0], N + 1 - 0) OBVIOUS
  <2> QED BY <2>1, <2>2
<1>2. ASSUME NEW d \in Nat, P(d) PROVE P(d + 1)
  <2>0. SUFFICES ASSUME d + 1 <= N
                 PROVE  \E f \in [1..N -> Nat] : Good(f, N + 1 - (d + 1))
    OBVIOUS
  <2>9. d <= N BY <2>0
  <2>1. PICK f \in [1..N -> Nat] : Good(f, N + 1 - d) BY <1>2, <2>9
  <2> DEFINE m == N - d
             v == IF m \in Stop THEN D[m] ELSE D[m] + f[nx[m]]
             g == [k \in 1..N |-> IF k = m THEN v ELSE f[k]]
  <2>2. m \in 1..N /\ N + 1 - (d + 1) = m /\ N + 1 - d = m + 1 BY <2>0
  <2>a. m \notin Stop => nx[m] \in (m + 1)..N BY <2>2
  <2>b. D[m] \in Nat /\ (m \notin Stop => f[nx[m]] \in Nat) BY <2>2, <2>a
  <2>c. v \in Nat BY <2>b
  <2>d. v = IF m \in Stop THEN D[m] ELSE D[m] + f[nx[m]] OBVIOUS
  <2>e. \A k \in (m + 1)..N : f[k] = IF k \in Stop THEN D[k] ELSE D[k] + f[nx[k]]
    BY <2>1, <2>2 DEF Good
  <2> HIDE DEF v
  <2>3. g \in [1..N -> Nat] BY <2>2, <2>c
  <2>f. g[m] = v /\ \A k \in 1..N : k # m => g[k] = f[k] BY <2>2
  <2> HIDE DEF g, m
  <2>4. ASSUME NEW k \in m..N
        PROVE  g[k] = IF k \in Stop THEN D[k] ELSE D[k] + g[nx[k]]
    <3>1. k \in 1..N BY <2>2
    <3>4. CASE k = m
      <4>1. m \notin Stop => g[nx[m]] = f[nx[m]] BY <2>2, <2>a, <2>f
      <4> QED BY <4>1, <3>4, <2>f, <2>d
    <3>3. CASE k # m
      <4>1. k \in (m + 1)..N BY <3>3, <2>2, <3>1
      <4>2. k \notin Stop => nx[k] \in 1..N /\ nx[k] # m BY <3>1, <4>1, <2>2
      <4>3. k \notin Stop => g[nx[k]] = f[nx[k]] BY <4>2, <2>f
      <4>4. g[k] = f[k] BY <3>1, <3>3, <2>f
      <4> QED BY <2>e, <4>1, <4>3, <4>4
    <3> QED BY <3>4, <3>3
  <2>5. Good(g, m) BY <2>4 DEF Good
  <2> QED BY <2>2, <2>3, <2>5
<1>3. P(N)
  <2> HIDE DEF P
  <2>1. 0 \in Set BY <1>1
  <2>2. ASSUME NEW d \in Nat, d \in Set PROVE d + 1 \in Set BY <1>2, <2>2
  <2> HIDE DEF Set
  <2>3. N \in Set BY <2>1, <2>2, Upward
  <2> QED BY <2>3 DEF Set
<1>4. N <= N /\ N + 1 - N = 1 OBVIOUS
<1>5. \E f \in [1..N -> Nat] : Good(f, 1)
  <2> HIDE DEF Good
  <2> QED BY <1>3, <1>4
<1> QED BY <1>5 DEF SumsUp

\* And its values are numbers.
LEMMA DownNatural ==
    ASSUME NEW N \in Nat, NEW D \in [1..N -> Nat], NEW Stop, NEW nx, NEW h,
           SumsUp(h, N, D, Stop, nx),
           \A k \in 1..N : k \notin Stop => nx[k] \in (k + 1)..N
    PROVE  h \in [1..N -> Nat]
<1> DEFINE S == {k \in 1..N : h[k] \in Nat}
<1>1. h = [k \in 1..N |-> IF k \in Stop THEN D[k] ELSE D[k] + h[nx[k]]] BY DEF SumsUp
<1>2. \A k \in 1..N : h[k] = IF k \in Stop THEN D[k] ELSE D[k] + h[nx[k]] BY <1>1
<1>3. ASSUME NEW k \in 1..N, \A x \in (k + 1)..N : x \in S PROVE k \in S
  <2>1. k \notin Stop => h[nx[k]] \in Nat BY <1>3
  <2> QED BY <1>2, <2>1
<1>4. 1..N \subseteq S
  <2> HIDE DEF S
  <2> QED BY <1>3, Downward
<1>5. h = [k \in 1..N |-> h[k]] BY <1>1
<1> QED BY <1>4, <1>5

(***************************************************************************)
(* The length of a run, and what is owed inside it.                        *)
(***************************************************************************)

\* What a run may hold, and where the rest of the current one begins.
Crossed(in) == run_member(in) \/ ("run_bridge" \in Config /\ Bridgeable(in))
Here == IF turn = "rosetta" THEN idx + 1 ELSE idx
\* From i on there are n instructions of a run, the last of them a member.
RunFrom(c, i, n) ==
    /\ i + n - 1 <= Len(c) /\ run_member(c[i + n - 1])
    /\ \A k \in i..(i + n - 1) : Crossed(c[k])

\* The inductive invariant: what is left of a run lies inside the block and
\* ends with a member, and only inside a run is anything owed.
Shape == idx \in Nat \ {0} /\ rem \in Nat /\ Len(code) \in Nat /\ turn \in {"ours", "rosetta"}
Ahead == rem > 0 => prev /\ RunFrom(code, Here, rem)
Debt == owed => rem > 0
IInv == Shape /\ Ahead /\ Debt

LEMMA EmptyLen == Len(<< >>) = 0
OBVIOUS

LEMMA InitInv == Init => IInv
BY EmptyLen DEF Init, IInv, Shape, Ahead, Debt

\* The run an instruction is looked at in.
LEMMA EnteredTail ==
    ASSUME IInv, turn = "ours", NEW n, Entered(n)
    PROVE  /\ n \in Nat
           /\ n > 0 => RunFrom(code, idx, n)
           /\ n = 0 => rem = 0
           /\ ~(prev /\ rem > 0) => rem = 0
<1>1. CASE prev /\ rem > 0
  BY <1>1 DEF Entered, IInv, Shape, Ahead, Here
<1>2. CASE ~(prev /\ rem > 0)
  <2>1. rem = 0 BY <1>2 DEF IInv, Shape, Ahead
  <2>2. PICK l \in 0..(Len(code) - idx + 1) :
            /\ IsLongestRun(code, idx, l)
            /\ n = IF l >= 2 /\ "disable_x87_cache" \notin Config THEN l ELSE 0
    BY <1>2 DEF Entered
  <2>3. l \in Nat /\ idx + l - 1 <= Len(code) BY <2>2 DEF IInv, Shape
  <2>4. n \in Nat /\ (n > 0 => n = l) BY <2>2, <2>3
  <2>5. l > 0 => RunFrom(code, idx, l)
    BY <2>2, <2>3 DEF IsLongestRun, IsRun, RunFrom, Crossed
  <2> QED BY <2>1, <2>4, <2>5
<1> QED BY <1>1, <1>2

\* Consuming k instructions of a run leaves the rest of it, or ends it.
LEMMA TailRest ==
    ASSUME NEW c, NEW i \in Nat, NEW n \in Nat, NEW k \in 1..n, RunFrom(c, i, n), k < n
    PROVE  RunFrom(c, i + k, n - k)
BY DEF RunFrom

LEMMA KeepRest ==
    ASSUME NEW n \in Nat, NEW k \in Nat \ {0}, NEW v, NEW b, NEW r, Keep(n, k, v, b, r)
    PROVE  /\ rem' \in Nat /\ (rem' > 0 => rem' = n - k /\ k < n)
           /\ n > k => rem' > 0
BY DEF Keep

LEMMA StepOurs == ASSUME IInv, Translate PROVE IInv'
<1> USE DEF IInv
<1>1. PICK n \in 0..Len(code) :
        /\ Entered(n)
        /\ \/ \E k \in 2..n, t \in Transients : CompileRun(n, k, t)
           \/ \E k \in 1..2 : Single(n, k)
           \/ \E lost \in BOOLEAN : Bridge(n, lost)
           \/ Keepalive(n) \/ HandBack(n)
  BY DEF Translate
<1>2. turn = "ours" /\ idx <= Len(code) /\ code' = code /\ prev' = TRUE BY DEF Translate
<1>3. /\ n \in Nat /\ (n > 0 => RunFrom(code, idx, n))
      /\ n = 0 => rem = 0
  BY <1>1, <1>2, EnteredTail
<1>4. n > 0 => Crossed(code[idx]) BY <1>3 DEF RunFrom, Shape
<1>5. ~owed \/ n > 0 BY <1>3 DEF Debt
\* A step that consumes k instructions itself.
<1>6. ASSUME NEW k \in Nat \ {0}, rem' \in Nat, rem' > 0 => rem' = n - k /\ k < n,
             idx' = idx + k, turn' = "ours"
      PROVE  Shape' /\ Ahead'
  <2>1. Shape' BY <1>2, <1>6 DEF Shape
  <2>2. ASSUME rem' > 0 PROVE RunFrom(code, idx + k, n - k)
    <3>1. k \in 1..n /\ k < n /\ n > 0 BY <1>3, <1>6, <2>2
    <3> QED BY <3>1, <1>3, TailRest DEF Shape
  <2>3. rem' > 0 => RunFrom(code', Here', rem') BY <2>2, <1>2, <1>6 DEF Here
  <2> QED BY <2>1, <2>3, <1>2 DEF Ahead
\* A step that leaves one instruction to Rosetta.
<1>7. ASSUME rem' \in Nat, rem' > 0 => rem' = n - 1 /\ 1 < n, idx' = idx, turn' = "rosetta"
      PROVE  Shape' /\ Ahead'
  <2>1. Shape' BY <1>2, <1>7 DEF Shape
  <2>2. ASSUME rem' > 0 PROVE RunFrom(code, idx + 1, n - 1)
    <3>1. 1 \in 1..n /\ 1 < n /\ n > 0 BY <1>3, <1>7, <2>2
    <3> QED BY <3>1, <1>3, TailRest DEF Shape
  <2>3. rem' > 0 => RunFrom(code', Here', rem') BY <2>2, <1>2, <1>7 DEF Here
  <2> QED BY <2>1, <2>3, <1>2 DEF Ahead
<1>8. ASSUME NEW k \in 2..n, NEW t \in Transients, CompileRun(n, k, t) PROVE IInv'
  <2>1. /\ idx' = idx + k /\ turn' = "ours" /\ ~owed' BY <1>8 DEF CompileRun
  <2>2. PICK nb, nr : Keep(n, k, TRUE, nb, nr) BY <1>8 DEF CompileRun
  <2>3. k \in Nat \ {0} BY <1>3
  <2>4. rem' \in Nat /\ (rem' > 0 => rem' = n - k /\ k < n) BY <2>2, <2>3, <1>3, KeepRest
  <2> QED BY <2>1, <2>3, <2>4, <1>6 DEF Debt
<1>9. ASSUME NEW k \in 1..2, Single(n, k) PROVE IInv'
  <2>1. idx' = idx + k /\ turn' = "ours" /\ (n <= k => ~owed') /\ k \in Nat \ {0}
    BY <1>9 DEF Single
  <2>2. PICK v : Keep(n, k, v, NoBases, NoGpr) BY <1>9 DEF Single
  <2>3. /\ rem' \in Nat /\ (rem' > 0 => rem' = n - k /\ k < n)
        /\ n > k => rem' > 0
    BY <2>1, <2>2, <1>3, KeepRest
  <2>4. owed' => n > k BY <2>1, <1>3
  <2> QED BY <2>1, <2>3, <2>4, <1>6 DEF Debt
<1>10. ASSUME NEW lost \in BOOLEAN, Bridge(n, lost) PROVE IInv'
  <2>1. n > 0 /\ Bridgeable(code[idx]) /\ idx' = idx /\ turn' = "rosetta" /\ owed' = owed
    BY <1>10 DEF Bridge
  <2>2. PICK b, r : Keep(n, 1, EntryValid, b, r) BY <1>10 DEF Bridge
  <2>3. /\ rem' \in Nat /\ (rem' > 0 => rem' = n - 1 /\ 1 < n)
        /\ n > 1 => rem' > 0
    BY <2>2, <1>3, KeepRest
  <2>4. n # 1 BY <2>1, <1>3 DEF RunFrom, Bridgeable, run_member, Shape
  <2>5. n > 1 BY <2>1, <2>4, <1>3
  <2> QED BY <2>1, <2>3, <2>5, <1>7 DEF Debt
<1>11. ASSUME Keepalive(n) PROVE IInv'
  <2>1. idx' = idx /\ turn' = "rosetta" /\ ~owed' /\ Keep(n, 1, EntryValid, NoBases, NoGpr)
    BY <1>11 DEF Keepalive
  <2>2. rem' \in Nat /\ (rem' > 0 => rem' = n - 1 /\ 1 < n) BY <2>1, <1>3, KeepRest
  <2> QED BY <2>1, <2>2, <1>7 DEF Debt
<1>12. ASSUME HandBack(n) PROVE IInv'
  <2>1. idx' = idx /\ turn' = "rosetta" /\ owed' = owed /\ rem' = 0 BY <1>12 DEF HandBack, Forget
  <2>2. n = 0
    BY <1>12, <1>3, <1>4, DisabledAssumption DEF HandBack, Crossed, run_member, Bridgeable
  <2>3. ~owed' BY <2>1, <2>2, <1>5
  <2> QED BY <2>1, <2>3, <1>7 DEF Debt
<1> QED BY <1>1, <1>8, <1>9, <1>10, <1>11, <1>12

LEMMA StepOthers ==
    ASSUME IInv, Rosetta \/ LeaveBlock \/ EnterBlock \/ UNCHANGED vars PROVE IInv'
<1>1. CASE Rosetta
  <2>1. idx' = idx + 1 /\ turn = "rosetta" /\ turn' = "ours" /\ UNCHANGED <<code, prev, rem, owed>>
    BY <1>1 DEF Rosetta
  <2>2. Here' = Here BY <2>1 DEF Here
  <2> QED BY <2>1, <2>2 DEF IInv, Shape, Ahead, Debt
<1>2. CASE LeaveBlock
  <2>1. rem = 0 BY <1>2 DEF LeaveBlock, IInv, Shape, Ahead, Here, RunFrom
  <2> QED BY <1>2, <2>1, EmptyLen DEF LeaveBlock, IInv, Shape, Ahead, Debt
<1>3. CASE EnterBlock
  <2>1. rem = 0 BY <1>3, EmptyLen DEF EnterBlock, IInv, Shape, Ahead, Here, RunFrom
  <2>2. Len(code') \in Nat BY <1>3, BlocksAssumption DEF EnterBlock
  <2> QED BY <1>3, <2>1, <2>2 DEF EnterBlock, IInv, Shape, Ahead, Debt
<1>4. CASE UNCHANGED vars
  BY <1>4 DEF vars, IInv, Shape, Ahead, Here, Debt
<1> QED BY <1>1, <1>2, <1>3, <1>4

LEMMA Invariance == Spec => []IInv
<1>1. IInv /\ [Next]_vars => IInv' BY StepOurs, StepOthers DEF Next
<1> QED BY InitInv, <1>1, PTL DEF Spec

\* Nothing deferred outlives its run or its block: translate_instruction never
\* leaves TOP, tags or exchanges unwritten for Rosetta, whatever the block holds,
\* wherever the scan of lookahead stops and whichever opcodes are disabled.
THEOREM Flushed == Spec => []FlushedAtRunEnd
<1>1. IInv => FlushedAtRunEnd
  BY DEF IInv, Shape, Ahead, Debt, Here, RunFrom, FlushedAtRunEnd
<1> QED BY <1>1, Invariance, PTL

(***************************************************************************)
(* Types.  A carried register is never one that is taken by number.        *)
(***************************************************************************)
Carriable == {NoGpr, 3, 4, 5}
Bases == [CarrySlots -> [key : Keys, gpr : Carriable]]
Pool ==
    /\ prev \in BOOLEAN /\ valid \in BOOLEAN /\ owed \in BOOLEAN /\ short \in BOOLEAN
    /\ free \subseteq Scratch /\ val \in [Scratch -> Keys]
    /\ base \in Bases /\ rc \in Carriable
Operands == \A j \in 1..Len(code) : KeysOf(code[j]) \subseteq Keys
TInv == IInv /\ Pool /\ Operands

LEMMA TagsAreKeys ==
    Junk \in Keys /\ X87Val \in Keys /\ RcVal \in Keys /\ NoKey \in Keys
BY DEF Keys

LEMMA NoBasesTyped == NoBases \in Bases /\ Empty \in [key : Keys, gpr : Carriable]
BY TagsAreKeys DEF NoBases, Bases, Empty, Carriable

LEMMA CarriableGprs ==
    ASSUME NEW b \in Bases, NEW r \in Carriable
    PROVE  CarriedGprs(b, r) \subseteq {3, 4, 5}
BY DEF Bases, Carriable, CarriedGprs, NoGpr, CarrySlots

LEMMA LowestIn == ASSUME NEW S \in SUBSET Scratch, S # {} PROVE LowestOf(S) \in S
<1>1. \E g \in S : \A x \in S : g <= x
  <2>1. CASE 0 \in S BY <2>1 DEF Scratch
  <2>2. CASE 0 \notin S /\ 1 \in S BY <2>2 DEF Scratch
  <2>3. CASE S \cap 0..1 = {} /\ 2 \in S BY <2>3 DEF Scratch
  <2>4. CASE S \cap 0..2 = {} /\ 3 \in S BY <2>4 DEF Scratch
  <2>5. CASE S \cap 0..3 = {} /\ 4 \in S BY <2>5 DEF Scratch
  <2>6. CASE S \cap 0..4 = {} /\ 5 \in S BY <2>6 DEF Scratch
  <2>7. CASE S \cap 0..5 = {} /\ 6 \in S BY <2>7 DEF Scratch
  <2>8. CASE S \cap 0..6 = {}
    <3>1. \A x \in S : x = 7 BY <2>8 DEF Scratch
    <3> QED BY <3>1
  <2> QED BY <2>1, <2>2, <2>3, <2>4, <2>5, <2>6, <2>7, <2>8 DEF Scratch
<1> QED BY <1>1 DEF LowestOf

LEMMA KeepTypes ==
    ASSUME NEW n \in Nat, NEW k \in Nat, NEW v \in BOOLEAN, NEW b \in Bases,
           NEW r \in Carriable, Keep(n, k, v, b, r)
    PROVE  valid' \in BOOLEAN /\ base' \in Bases /\ rc' \in Carriable /\ free' \subseteq Scratch
BY NoBasesTyped DEF Keep, Carriable

\* The registers a compiled run may give to bases and to the rounding mode.
LEMMA RestOfPool ==
    ASSUME TInv, NEW n \in Nat, n >= 2, NEW k, NEW t
    PROVE  /\ BasesFor(n, k, t) \in Bases /\ RcFor(n, k, t) \in Carriable
           /\ PoolFor(n, k, t) \ FixedGprs \subseteq {3, 4, 5, TlsGpr}
<1>1. EntryBase \in Bases /\ EntryRc \in Carriable
  BY NoBasesTyped DEF EntryBase, EntryRc, TInv, Pool, Carriable
<1>2. CarriedGprs(EntryBase, EntryRc) \subseteq {3, 4, 5} BY <1>1, CarriableGprs
<1>3. EntryFree(n) \subseteq Scratch /\ (EntryValid => EntryFree(n) \cap X87Pins = {})
  BY DEF EntryFree, pinned_mask, TInv, Pool
<1>4. PoolFor(n, k, t) \subseteq EntryFree(n) \cup {3, 4, 5} BY <1>2 DEF PoolFor
<1>5. PoolFor(n, k, t) \ FixedGprs \subseteq {3, 4, 5, TlsGpr}
  BY <1>3, <1>4 DEF FixedGprs, Scratch, X87Pins, TmpGpr, TlsGpr
<1> QED BY <1>1, <1>5, NoBasesTyped DEF BasesFor, RcFor, Carriable

LEMMA CompileTypes ==
    ASSUME TInv, NEW n \in Nat, n > 0 => RunFrom(code, idx, n), NEW k \in 2..n, NEW t,
           CompileRun(n, k, t)
    PROVE  /\ valid' \in BOOLEAN /\ base' \in Bases /\ rc' \in Carriable /\ free' \subseteq Scratch
           /\ val' \in [Scratch -> Keys] /\ short' \in BOOLEAN
<1> DEFINE b == BasesFor(n, k, t)
           r == RcFor(n, k, t)
           pool == PoolFor(n, k, t)
           rest == pool \ FixedGprs
           on == "bridge_carry" \in Config /\ n > k
<1>1. /\ n >= 2 /\ k \in Nat
      /\ b \in Bases /\ r \in Carriable /\ rest \subseteq {3, 4, 5, TlsGpr}
  BY RestOfPool DEF CompileRun
<1>2. PICK plan \in SUBSET plan_addr_cache(k) :
        \E a \in Assignments(rest, {key \in plan : ~Hit(b, key)}) :
           LET new == {key \in plan : ~Hit(b, key)}
               left == rest \ {a[key] : key \in new}
               w == RcGpr(k, r, left)
               mine == Mine(b, a, plan)
           IN  \E nb \in [CarrySlots -> mine \cup OldBases(b, k) \cup {Empty}] :
               LET nr == IF on /\ nb[2] = Empty /\ w # TlsGpr THEN w ELSE NoGpr IN
               /\ IF on THEN Carry(nb, mine, OldBases(b, k)) ELSE nb = NoBases
               /\ Keep(n, k, TRUE, nb, nr)
               /\ short' = (\/ ~(FixedGprs \subseteq pool)
                            \/ Cardinality(left \ {w}) < t)
               /\ val' = [g \in Scratch |->
                     IF n <= k THEN Junk
                     ELSE IF g \in X87Pins THEN X87Val
                     ELSE IF g \in CarriedGprs(nb, NoGpr) THEN Held(nb, new, k, g)
                     ELSE IF g = nr THEN HeldRc(k, r, g) ELSE Junk]
  BY DEF CompileRun
<1> DEFINE new == {key \in plan : ~Hit(b, key)}
<1> DEFINE Left(a) == rest \ {a[key] : key \in new}
           W(a) == RcGpr(k, r, Left(a))
           Nr(a, x) == IF on /\ x[2] = Empty /\ W(a) # TlsGpr THEN W(a) ELSE NoGpr
<1>3. PICK a \in Assignments(rest, new) :
        \E nb \in [CarrySlots -> Mine(b, a, plan) \cup OldBases(b, k) \cup {Empty}] :
           /\ IF on THEN Carry(nb, Mine(b, a, plan), OldBases(b, k)) ELSE nb = NoBases
           /\ Keep(n, k, TRUE, nb, Nr(a, nb))
           /\ short' = (\/ ~(FixedGprs \subseteq pool)
                        \/ Cardinality(Left(a) \ {W(a)}) < t)
           /\ val' = [g \in Scratch |->
                 IF n <= k THEN Junk
                 ELSE IF g \in X87Pins THEN X87Val
                 ELSE IF g \in CarriedGprs(nb, NoGpr) THEN Held(nb, new, k, g)
                 ELSE IF g = Nr(a, nb) THEN HeldRc(k, r, g) ELSE Junk]
  BY <1>2
<1>10. PICK nb \in [CarrySlots -> Mine(b, a, plan) \cup OldBases(b, k) \cup {Empty}] :
        /\ Keep(n, k, TRUE, nb, Nr(a, nb))
        /\ short' = (\/ ~(FixedGprs \subseteq pool)
                     \/ Cardinality(Left(a) \ {W(a)}) < t)
        /\ val' = [g \in Scratch |->
              IF n <= k THEN Junk
              ELSE IF g \in X87Pins THEN X87Val
              ELSE IF g \in CarriedGprs(nb, NoGpr) THEN Held(nb, new, k, g)
              ELSE IF g = Nr(a, nb) THEN HeldRc(k, r, g) ELSE Junk]
  BY <1>3
<1> DEFINE nr == Nr(a, nb)
<1>11. short' \in BOOLEAN BY <1>10
<1>4. plan \subseteq Keys
  <2>1. \A j \in Members(k) : KeysOf(code[j]) \subseteq Keys
    BY <1>1 DEF Members, TInv, Operands, IInv, Shape, RunFrom
  <2>2. plan_addr_cache(k) \subseteq UNION {KeysOf(code[j]) : j \in Members(k)}
    BY DEF plan_addr_cache
  <2> QED BY <2>1, <2>2
<1>5. Mine(b, a, plan) \subseteq [key : Keys, gpr : Carriable]
  <2>1. ASSUME NEW key \in plan, AtGpr(b, a, key) # TlsGpr
        PROVE  AtGpr(b, a, key) \in Carriable
    <3>1. DOMAIN a = new /\ \A x \in new : a[x] \in rest BY <1>3 DEF Assignments
    <3>2. CASE key \in new BY <3>1, <3>2, <2>1, <1>1 DEF AtGpr, Carriable
    <3>3. CASE key \notin new
      <4>1. \E s \in CarrySlots : b[s].gpr # NoGpr /\ b[s].key = key BY <3>3 DEF Hit
      <4>2. GprOf(b, key) \in Carriable BY <4>1, <1>1 DEF GprOf, Bases
      <4> QED BY <3>1, <3>3, <4>2 DEF AtGpr
    <3> QED BY <3>2, <3>3
  <2> QED BY <2>1, <1>4 DEF Mine
<1>6. OldBases(b, k) \subseteq [key : Keys, gpr : Carriable] BY <1>1 DEF OldBases, Bases
<1>7. nb \in Bases BY <1>10, <1>5, <1>6, NoBasesTyped DEF Bases
<1>8. nr \in Carriable
  <2>1. Left(a) \subseteq {3, 4, 5, TlsGpr} /\ Left(a) \in SUBSET Scratch
    BY <1>1 DEF TlsGpr, Scratch
  <2>2. Left(a) # {} => LowestOf(Left(a)) \in Left(a) BY <2>1, LowestIn
  <2> HIDE DEF Left
  <2>3. W(a) = TlsGpr \/ W(a) \in Carriable BY <2>1, <2>2, <1>1 DEF RcGpr, Carriable
  <2> QED BY <2>3 DEF Carriable
<1>9. val' \in [Scratch -> Keys]
  <2>1. val \in [Scratch -> Keys] BY DEF TInv, Pool
  <2>2. ASSUME NEW g \in Scratch, g \in CarriedGprs(nb, NoGpr) PROVE Held(nb, new, k, g) \in Keys
    <3>1. \E s \in CarrySlots : nb[s].gpr = g BY <2>2 DEF CarriedGprs
    <3>2. \A s \in CarrySlots : nb[s].key \in Keys BY <1>7 DEF Bases
    <3> QED BY <2>1, <3>1, <3>2, TagsAreKeys DEF Held
  <2>3. ASSUME NEW g \in Scratch PROVE HeldRc(k, r, g) \in Keys
    BY <2>1, TagsAreKeys DEF HeldRc
  <2> QED BY <1>10, <2>2, <2>3, TagsAreKeys
<1> QED BY <1>1, <1>10, <1>11, <1>7, <1>8, <1>9, KeepTypes

LEMMA DropTyped == ASSUME NEW b \in Bases, NEW S PROVE carried_drop_written(b, S) \in Bases
BY NoBasesTyped DEF carried_drop_written, Bases

LEMMA TypesOurs == ASSUME TInv, Translate PROVE Pool' /\ Operands'
<1>1. PICK n \in 0..Len(code) :
        /\ Entered(n)
        /\ \/ \E k \in 2..n, t \in Transients : CompileRun(n, k, t)
           \/ \E k \in 1..2 : Single(n, k)
           \/ \E lost \in BOOLEAN : Bridge(n, lost)
           \/ Keepalive(n) \/ HandBack(n)
  BY DEF Translate
<1>2. turn = "ours" /\ code' = code /\ prev' = TRUE BY DEF Translate
<1>3. n \in Nat /\ (n > 0 => RunFrom(code, idx, n)) BY <1>1, <1>2, EnteredTail DEF TInv
<1>4. /\ EntryValid \in BOOLEAN /\ EntryBase \in Bases /\ EntryRc \in Carriable
  BY NoBasesTyped DEF EntryValid, EntryBase, EntryRc, TInv, Pool, Carriable
<1>5. NoGpr \in Carriable BY DEF Carriable
<1>6. Operands' BY <1>2 DEF TInv, Operands
<1>7. /\ val \in [Scratch -> Keys] /\ owed \in BOOLEAN /\ short \in BOOLEAN BY DEF TInv, Pool
<1>8. ASSUME NEW k \in 2..n, NEW t \in Transients, CompileRun(n, k, t) PROVE Pool'
  <2>1. owed' = FALSE BY <1>8 DEF CompileRun
  <2> QED BY <1>2, <1>3, <1>8, <2>1, CompileTypes DEF Pool
<1>9. ASSUME NEW k \in 1..2, Single(n, k) PROVE Pool'
  <2>1. owed' \in BOOLEAN /\ short' \in BOOLEAN /\ k \in Nat BY <1>9 DEF Single
  <2>2. PICK v \in {EntryValid, TRUE} :
          /\ Keep(n, k, v, NoBases, NoGpr)
          /\ val' = [g \in Scratch |-> IF g \in X87Pins /\ n > k /\ v THEN X87Val ELSE Junk]
    BY <1>9 DEF Single
  <2>3. val' \in [Scratch -> Keys] BY <2>2, TagsAreKeys
  <2>4. v \in BOOLEAN BY <1>4
  <2>5. valid' \in BOOLEAN /\ base' \in Bases /\ rc' \in Carriable /\ free' \subseteq Scratch
    BY <2>1, <2>2, <2>4, <1>3, <1>5, NoBasesTyped, KeepTypes
  <2> QED BY <1>2, <2>1, <2>3, <2>5 DEF Pool
<1>10. ASSUME NEW lost \in BOOLEAN, Bridge(n, lost) PROVE Pool'
  <2> DEFINE kept == carried_drop_written(EntryBase, gap_written_gpr_mask(code[idx]))
  <2>1. UNCHANGED <<val, owed, short>> BY <1>10 DEF Bridge
  <2>2. kept \in Bases BY <1>4, DropTyped
  <2>3. PICK x \in {NoBases, kept}, r \in {NoGpr, EntryRc} : Keep(n, 1, EntryValid, x, r)
    BY <1>10 DEF Bridge
  <2>4. x \in Bases /\ r \in Carriable BY <2>2, <1>4, <1>5, NoBasesTyped
  <2>5. valid' \in BOOLEAN /\ base' \in Bases /\ rc' \in Carriable /\ free' \subseteq Scratch
    BY <2>3, <2>4, <1>3, <1>4, KeepTypes
  <2> QED BY <1>2, <1>7, <2>1, <2>5 DEF Pool
<1>11. ASSUME Keepalive(n) PROVE Pool'
  <2>1. owed' = FALSE /\ UNCHANGED <<val, short>> /\ Keep(n, 1, EntryValid, NoBases, NoGpr)
    BY <1>11 DEF Keepalive
  <2>2. valid' \in BOOLEAN /\ base' \in Bases /\ rc' \in Carriable /\ free' \subseteq Scratch
    BY <2>1, <1>3, <1>4, <1>5, NoBasesTyped, KeepTypes
  <2> QED BY <1>2, <1>7, <2>1, <2>2 DEF Pool
<1>12. ASSUME HandBack(n) PROVE Pool'
  <2>1. /\ UNCHANGED <<val, owed, short>>
        /\ valid' = FALSE /\ base' = NoBases /\ rc' = NoGpr /\ free' = Scratch
    BY <1>12 DEF HandBack, Forget
  <2> QED BY <1>2, <1>5, <1>7, <2>1, NoBasesTyped DEF Pool
<1> QED BY <1>1, <1>6, <1>8, <1>9, <1>10, <1>11, <1>12

LEMMA TypesOthers ==
    ASSUME TInv, Rosetta \/ LeaveBlock \/ EnterBlock \/ UNCHANGED vars PROVE Pool' /\ Operands'
<1> USE DEF TInv
<1>1. CASE Rosetta
  <2>1. /\ UNCHANGED <<code, prev, valid, base, rc, owed>> /\ free' \in {free, Scratch}
        /\ short' \in BOOLEAN /\ val' \in [Scratch -> Keys]
    BY <1>1, TagsAreKeys DEF Rosetta, Pool
  <2> QED BY <2>1 DEF Pool, Operands
<1>2. CASE LeaveBlock
  <2>1. code' = << >> /\ val' \in [Scratch -> Keys] BY <1>2, TagsAreKeys DEF LeaveBlock
  <2>2. Operands' BY <2>1, EmptyLen DEF Operands
  <2> QED BY <1>2, <2>1, <2>2 DEF LeaveBlock, Pool
<1>3. CASE EnterBlock
  <2>1. Operands' BY <1>3 DEF EnterBlock, Operands, Keys
  <2> QED BY <1>3, <2>1 DEF EnterBlock, Pool
<1>4. CASE UNCHANGED vars BY <1>4 DEF vars, Pool, Operands
<1> QED BY <1>1, <1>2, <1>3, <1>4

LEMMA InitTypes == Init => TInv
<1>1. ASSUME Init PROVE Pool /\ Operands
  <2>1. val \in [Scratch -> Keys] BY <1>1, TagsAreKeys DEF Init
  <2>2. Operands BY <1>1, EmptyLen DEF Init, Operands
  <2> QED BY <1>1, <2>1, <2>2, NoBasesTyped DEF Init, Pool, Carriable
<1> QED BY <1>1, InitInv DEF TInv

LEMMA TypesStep == TInv /\ [Next]_vars => TInv'
BY StepOurs, StepOthers, TypesOurs, TypesOthers DEF Next, TInv

\* The masks and the cache keep their types through every translation, and a
\* carried register is never one that a compiled run or a GS operand takes by
\* number.
THEOREM TypeCorrect == Spec => []TypeOK
<1>1. ASSUME TInv PROVE TypeOK
  <2>1. base \in [CarrySlots -> [key : Keys, gpr : {NoGpr} \cup Scratch]]
    BY <1>1 DEF TInv, Pool, Bases, Carriable, Scratch
  <2>2. CarriedGprs(base, rc) \cap (X87Pins \cup {TmpGpr, TlsGpr}) = {}
    <3>1. CarriedGprs(base, rc) \subseteq {3, 4, 5} BY <1>1, CarriableGprs DEF TInv, Pool
    <3> QED BY <3>1 DEF X87Pins, TmpGpr, TlsGpr
  <2> QED BY <1>1, <2>1, <2>2 DEF TypeOK, TInv, Pool, IInv, Shape, Carriable, Scratch
<1> QED BY <1>1, InitTypes, TypesStep, PTL DEF Spec

(***************************************************************************)
(* How long a run is.                                                      *)
(***************************************************************************)
\* The functions that lookahead is made of exist, so they satisfy their
\* equations.
LEMMA StretchEquation ==
    ASSUME NEW c, Len(c) \in Nat, NEW T, T \subseteq 1..Len(c)
    PROVE  /\ Stretch(c, T) \in [1..(Len(c) + 1) -> Nat]
           /\ \A k \in 1..(Len(c) + 1) :
                 Stretch(c, T)[k] = IF k \in T THEN 1 + Stretch(c, T)[k + 1] ELSE 0
<1> DEFINE N == Len(c) + 1
           Stop == {k \in 1..N : k \notin T}
           D == [k \in 1..N |-> IF k \in T THEN 1 ELSE 0]
           nx == [k \in 1..N |-> k + 1]
           E(f) == f = [k \in 1..N |-> IF k \in T THEN 1 + f[k + 1] ELSE 0]
           h == Stretch(c, T)
<1>1. N \in Nat /\ D \in [1..N -> Nat] OBVIOUS
<1>2. \A k \in 1..N : k \notin Stop => nx[k] \in (k + 1)..N OBVIOUS
<1>3. PICK f : SumsUp(f, N, D, Stop, nx)
  <2> HIDE DEF N, Stop, D, nx
  <2> QED BY <1>1, <1>2, DownRecursion
<1>4. \E g : E(g) BY <1>3 DEF SumsUp
<1>5. h = CHOOSE g : E(g) BY DEF Stretch
<1>6. E(h) BY <1>4, <1>5, Zenon
<1>7. SumsUp(h, N, D, Stop, nx)
  <2> HIDE DEF h
  <2> QED BY <1>6 DEF SumsUp
<1>9. h \in [1..N -> Nat]
  <2> HIDE DEF N, Stop, D, nx, h
  <2> QED BY <1>1, <1>2, <1>7, DownNatural
<1>10. \A k \in 1..N : h[k] = IF k \in T THEN 1 + h[k + 1] ELSE 0
  <2> HIDE DEF h
  <2> QED BY <1>6
<1> QED BY <1>9, <1>10

\* It counts: all of the places are in T, and the one behind them is not.
LEMMA StretchCounts ==
    ASSUME NEW c, Len(c) \in Nat, NEW T, T \subseteq 1..Len(c)
    PROVE  \A k \in 1..(Len(c) + 1) :
              /\ Stretch(c, T)[k] \in Nat /\ k + Stretch(c, T)[k] <= Len(c) + 1
              /\ k + Stretch(c, T)[k] \notin T
              /\ \A x \in k..(k + Stretch(c, T)[k] - 1) : x \in T
<1> DEFINE N == Len(c) + 1
           f == Stretch(c, T)
           P(k) == /\ f[k] \in Nat /\ k + f[k] <= N /\ k + f[k] \notin T
                   /\ \A x \in k..(k + f[k] - 1) : x \in T
           S == {k \in 1..N : P(k)}
<1>1. N \in Nat OBVIOUS
<1>2. f \in [1..N -> Nat] /\ \A k \in 1..N : f[k] = IF k \in T THEN 1 + f[k + 1] ELSE 0
  BY StretchEquation
<1> HIDE DEF f
<1>3. ASSUME NEW k \in 1..N, \A x \in (k + 1)..N : x \in S PROVE k \in S
  <2>1. CASE k \in T
    <3>1. k + 1 \in S BY <1>3, <2>1
    <3>2. f[k] = 1 + f[k + 1] BY <1>2, <2>1
    <3>3. P(k) BY <3>1, <3>2, <2>1
    <3> QED BY <3>3
  <2>2. CASE k \notin T
    <3>1. f[k] = 0 BY <1>2, <2>2
    <3> QED BY <3>1, <2>2
  <2> QED BY <2>1, <2>2
<1>4. 1..N \subseteq S
  <2> HIDE DEF S, N
  <2> QED BY <1>1, <1>3, Downward
<1> QED BY <1>4 DEF f

\* Runs and longest runs, of the members M and the gaps G among 1..L.
RunIn(M, G, i, n) ==
    /\ n > 0 => i \in M /\ i + n - 1 \in M
    /\ \A k \in i..(i + n - 1) :
          k \in M \/ (k \in G /\ \E m \in i..(k - 1) : m \in M /\ k - m <= MaxBridgeGap)
Longest(M, G, L, i, n) ==
    n \in 0..(L - i + 1) /\ RunIn(M, G, i, n) /\ \A m \in (n + 1)..(L - i + 1) : ~RunIn(M, G, i, m)

\* g members from i on, then w that can be crossed.
Leg(M, G, L, i, g, w) ==
    /\ g \in Nat /\ w \in Nat /\ w <= MaxBridgeGap /\ i + g + w <= L + 1
    /\ i + g \notin M
    /\ \A x \in i..(i + g - 1) : x \in M
    /\ \A x \in (i + g)..(i + g + w - 1) : x \in G

\* A run ends where the gap is too long, or ends on what is no member.
LEMMA RunEnds ==
    ASSUME NEW L \in Nat, NEW M \in SUBSET (1..L), NEW G \in SUBSET (1..L), M \cap G = {},
           NEW i \in 1..(L + 1), NEW g, NEW w, Leg(M, G, L, i, g, w),
           w < MaxBridgeGap => i + g + w \notin G,
           g = 0 \/ i + g + w \notin M
    PROVE  Longest(M, G, L, i, g)
<1> USE GapAssumption DEF Leg
<1>1. g \in 0..(L - i + 1) OBVIOUS
<1>2. RunIn(M, G, i, g)
  <2>1. g > 0 => i \in M /\ i + g - 1 \in M
    <3>1. g > 0 => i \in i..(i + g - 1) /\ i + g - 1 \in i..(i + g - 1) OBVIOUS
    <3> QED BY <3>1
  <2>2. \A k \in i..(i + g - 1) : k \in M OBVIOUS
  <2> QED BY <2>1, <2>2 DEF RunIn
<1>3. ASSUME NEW m \in (g + 1)..(L - i + 1), RunIn(M, G, i, m) PROVE FALSE
  <2>1. i \in M /\ i + m - 1 \in M BY <1>3 DEF RunIn
  <2>2. g # 0 /\ i + g + w \notin M BY <2>1
  <2>3. i + m - 1 > i + g + w
    <3>1. i + m - 1 \notin (i + g)..(i + g + w - 1) BY <2>1
    <3> QED BY <2>1, <2>2, <3>1
  <2>4. i + g + w \in i..(i + m - 1) BY <2>3
  <2>5. PICK b \in i..(i + g + w - 1) : b \in M /\ i + g + w - b <= MaxBridgeGap
    BY <1>3, <2>2, <2>4 DEF RunIn
  <2>6. i + g + w \in G BY <1>3, <2>2, <2>4 DEF RunIn
  <2>7. b \notin (i + g)..(i + g + w - 1) BY <2>5
  <2>8. b <= i + g - 1 BY <2>7
  <2> QED BY <2>5, <2>6, <2>8
<1> QED BY <1>1, <1>2, <1>3 DEF Longest

\* Behind a gap that lands on a member the rest of the run is a run, and the
\* longest one from there.
LEMMA RunContinues ==
    ASSUME NEW L \in Nat, NEW M \in SUBSET (1..L), NEW G \in SUBSET (1..L), M \cap G = {},
           NEW i \in 1..(L + 1), NEW g, NEW w, Leg(M, G, L, i, g, w), g # 0,
           i + g + w \in M, NEW s, Longest(M, G, L, i + g + w, s)
    PROVE  Longest(M, G, L, i, g + w + s)
<1> DEFINE t == i + g + w
<1> USE GapAssumption DEF Leg
<1>1. t \in 1..L /\ t \in M /\ t > i OBVIOUS
<1>2. /\ s \in 0..(L - t + 1) /\ RunIn(M, G, t, s)
      /\ \A m \in (s + 1)..(L - t + 1) : ~RunIn(M, G, t, m)
  BY DEF Longest
<1>3. s > 0
  <2>1. t + 1 - 1 = t /\ \A k \in t..(t + 1 - 1) : k = t BY <1>1
  <2>9. RunIn(M, G, t, 1)
    <3> HIDE DEF t
    <3> QED BY <1>1, <2>1 DEF RunIn
  <2> QED BY <1>1, <1>2, <2>9
<1>4. g + w + s \in 0..(L - i + 1) BY <1>1, <1>2
<1>5. RunIn(M, G, i, g + w + s)
  <2>1. i \in M BY <1>1
  <2>2. i + (g + w + s) - 1 = t + s - 1 BY <1>2
  <2>3. t + s - 1 \in M BY <1>2, <1>3 DEF RunIn
  <2>4. ASSUME NEW k \in i..(t + s - 1)
        PROVE  k \in M \/ (k \in G /\ \E m \in i..(k - 1) : m \in M /\ k - m <= MaxBridgeGap)
    <3>1. CASE k < i + g
      <4>1. k \in i..(i + g - 1) BY <3>1
      <4>2. k \in M BY <4>1
      <4> QED BY <4>2, Zenon
    <3>2. CASE k >= i + g /\ k < t
      <4>1. k \in G BY <3>2
      <4>2. i + g - 1 \in M /\ i + g - 1 \in i..(k - 1) /\ k - (i + g - 1) <= MaxBridgeGap
        BY <3>2
      <4> QED BY <4>1, <4>2
    <3>3. CASE k >= t
      <4>1. k \in t..(t + s - 1) BY <3>3
      <4>2. k \in M \/ (k \in G /\ \E m \in t..(k - 1) : m \in M /\ k - m <= MaxBridgeGap)
        BY <1>2, <4>1 DEF RunIn
      <4> QED BY <1>1, <4>2
    <3> QED BY <1>2, <3>1, <3>2, <3>3
  <2> HIDE DEF t
  <2> QED BY <2>1, <2>2, <2>3, <2>4 DEF RunIn
<1>6. ASSUME NEW m \in (g + w + s + 1)..(L - i + 1), RunIn(M, G, i, m) PROVE FALSE
  <2> DEFINE r == m - (g + w)
  <2>1. r \in (s + 1)..(L - t + 1) /\ t + r - 1 = i + m - 1 BY <1>2
  <2>2. t + r - 1 \in M BY <1>6, <2>1, <1>2 DEF RunIn
  <2>3. ASSUME NEW k \in t..(t + r - 1)
        PROVE  k \in M \/ (k \in G /\ \E b \in t..(k - 1) : b \in M /\ k - b <= MaxBridgeGap)
    <3>1. k \in i..(i + m - 1) BY <1>1, <2>1
    <3>2. CASE k \in M BY <3>2, Zenon
    <3>3. CASE k \notin M
      <4>1. k \in G BY <1>6, <3>1, <3>3 DEF RunIn
      <4>2. PICK b \in i..(k - 1) : b \in M /\ k - b <= MaxBridgeGap
        BY <1>6, <3>1, <3>3 DEF RunIn
      <4>3. k # t BY <1>1, <3>3
      <4>4. CASE b >= t BY <4>1, <4>2, <4>4
      <4>5. CASE b < t
        <5>1. t \in t..(k - 1) /\ k - t <= MaxBridgeGap BY <4>2, <4>3, <4>5, <1>1
        <5> QED BY <4>1, <5>1, <1>1
      <4> QED BY <4>4, <4>5, <1>1
    <3> QED BY <3>2, <3>3
  <2>4. RunIn(M, G, t, r)
    <3> HIDE DEF t, r
    <3> QED BY <1>1, <2>2, <2>3 DEF RunIn
  <2> QED BY <1>2, <2>1, <2>4
<1> QED BY <1>4, <1>5, <1>6 DEF Longest

\* The gap the scan may cross, and the leg it makes with a group of members.
LEMMA GapAt ==
    ASSUME NEW c, Len(c) \in Nat, NEW j \in 1..(Len(c) + 1)
    PROVE  /\ GapWidth(c, j) \in Nat /\ GapWidth(c, j) <= MaxBridgeGap
           /\ j + GapWidth(c, j) <= Len(c) + 1
           /\ \A x \in j..(j + GapWidth(c, j) - 1) : x \in GapPlaces(c)
           /\ GapWidth(c, j) < MaxBridgeGap => j + GapWidth(c, j) \notin GapPlaces(c)
<1> DEFINE n == Stretch(c, GapPlaces(c))[j]
<1>1. GapPlaces(c) \subseteq 1..Len(c) BY DEF GapPlaces
<1>2. /\ n \in Nat /\ j + n <= Len(c) + 1 /\ j + n \notin GapPlaces(c)
      /\ \A x \in j..(j + n - 1) : x \in GapPlaces(c)
  BY <1>1, StretchCounts
<1>3. GapWidth(c, j) = IF n <= MaxBridgeGap THEN n ELSE MaxBridgeGap BY DEF GapWidth
<1> HIDE DEF n
<1> QED BY <1>2, <1>3, GapAssumption

LEMMA GroupAt ==
    ASSUME NEW c, Len(c) \in Nat, NEW k \in 1..(Len(c) + 1),
           NEW g, g = Stretch(c, MemberPlaces(c))[k], NEW w, w = GapWidth(c, k + g)
    PROVE  /\ k + g \in 1..(Len(c) + 1)
           /\ Leg(MemberPlaces(c), GapPlaces(c), Len(c), k, g, w)
           /\ Leg(MemberPlaces(c), {}, Len(c), k, g, 0)
           /\ w < MaxBridgeGap => k + g + w \notin GapPlaces(c)
<1>1. MemberPlaces(c) \subseteq 1..Len(c) BY DEF MemberPlaces
<1>2. /\ g \in Nat /\ k + g <= Len(c) + 1 /\ k + g \notin MemberPlaces(c)
      /\ \A x \in k..(k + g - 1) : x \in MemberPlaces(c)
  BY <1>1, StretchCounts
<1>3. k + g \in 1..(Len(c) + 1) BY <1>2
<1>4. /\ w \in Nat /\ w <= MaxBridgeGap /\ k + g + w <= Len(c) + 1
      /\ \A x \in (k + g)..(k + g + w - 1) : x \in GapPlaces(c)
      /\ w < MaxBridgeGap => k + g + w \notin GapPlaces(c)
  BY <1>3, GapAt
<1>5. Leg(MemberPlaces(c), GapPlaces(c), Len(c), k, g, w) BY <1>2, <1>4 DEF Leg
<1>6. Leg(MemberPlaces(c), {}, Len(c), k, g, 0)
  <2>1. 0 \in Nat /\ 0 <= MaxBridgeGap /\ k + g + 0 = k + g BY <1>2, GapAssumption
  <2>2. \A x \in (k + g)..(k + g + 0 - 1) : x \in {} BY <1>2
  <2> QED BY <1>2, <2>1, <2>2 DEF Leg
<1> QED BY <1>3, <1>4, <1>5, <1>6

LEMMA ScanEquation ==
    ASSUME NEW c, Len(c) \in Nat, NEW k \in 1..(Len(c) + 1),
           NEW g, g = Stretch(c, MemberPlaces(c))[k], NEW w, w = GapWidth(c, k + g)
    PROVE  ScanFrom(c)[k] = IF g = 0 \/ ~GoesOn(c, k + g) THEN g
                            ELSE g + w + ScanFrom(c)[k + g + w]
<1> DEFINE N == Len(c) + 1
           G(x) == Stretch(c, MemberPlaces(c))[x]
           W(x) == GapWidth(c, x + G(x))
           Stop == {x \in 1..N : G(x) = 0 \/ ~GoesOn(c, x + G(x))}
           D == [x \in 1..N |-> IF x \in Stop THEN G(x) ELSE G(x) + W(x)]
           nx == [x \in 1..N |-> x + G(x) + W(x)]
           E(f) == f = [x \in 1..N |->
                         IF G(x) = 0 \/ ~GoesOn(c, x + G(x)) THEN G(x)
                         ELSE G(x) + W(x) + f[x + G(x) + W(x)]]
           h == ScanFrom(c)
<1>1. ASSUME NEW x \in 1..N
      PROVE  G(x) \in Nat /\ W(x) \in Nat /\ (x \notin Stop => x + G(x) + W(x) \in (x + 1)..N)
  <2>1. G(x) \in Nat /\ W(x) \in Nat /\ x + G(x) + W(x) <= N BY GroupAt DEF Leg
  <2>2. x \notin Stop => G(x) # 0 OBVIOUS
  <2> HIDE DEF G, W
  <2> QED BY <2>1, <2>2
<1>2. N \in Nat /\ D \in [1..N -> Nat]
  <2> HIDE DEF G, W, Stop
  <2> QED BY <1>1
<1>3. \A x \in 1..N : x \notin Stop => nx[x] \in (x + 1)..N
  <2> HIDE DEF G, W, Stop
  <2> QED BY <1>1
<1>4. PICK f : SumsUp(f, N, D, Stop, nx)
  <2> HIDE DEF N, Stop, D, nx
  <2> QED BY <1>2, <1>3, DownRecursion
<1>5. E(f)
  <2> HIDE DEF G, W
  <2> QED BY <1>4 DEF SumsUp
<1>6. h = CHOOSE x : E(x) BY DEF ScanFrom
<1>7. \E x : E(x) BY <1>5
<1>8. E(h) BY <1>6, <1>7, Zenon
<1>9. h[k] = IF G(k) = 0 \/ ~GoesOn(c, k + G(k)) THEN G(k)
             ELSE G(k) + W(k) + h[k + G(k) + W(k)]
  <2> HIDE DEF h, G, W
  <2> QED BY <1>8
<1> QED BY <1>9

\* The gaps, where the configuration lets a run cross them.
Crossable(c) == IF "run_bridge" \in Config THEN GapPlaces(c) ELSE {}

\* The scan finds the longest run from every place of a block.
LEMMA ScanLongest ==
    ASSUME NEW c, Len(c) \in Nat
    PROVE  \A k \in 1..(Len(c) + 1) :
              Longest(MemberPlaces(c), Crossable(c), Len(c), k, ScanFrom(c)[k])
<1> DEFINE L == Len(c)
           N == L + 1
           M == MemberPlaces(c)
           X == Crossable(c)
           h == ScanFrom(c)
           S == {k \in 1..N : Longest(M, X, L, k, h[k])}
<1>1. L \in Nat /\ N \in Nat /\ M \in SUBSET (1..L) /\ X \in SUBSET (1..L)
  BY DEF MemberPlaces, GapPlaces, Crossable
<1>2. M \cap X = {} BY DEF MemberPlaces, GapPlaces, Crossable, run_member, Bridgeable
<1>3. ASSUME NEW k \in 1..N, \A x \in (k + 1)..N : x \in S PROVE k \in S
  <2> DEFINE g == Stretch(c, MemberPlaces(c))[k]
             w == GapWidth(c, k + g)
  <2>1. /\ k + g \in 1..N /\ Leg(M, GapPlaces(c), L, k, g, w) /\ Leg(M, {}, L, k, g, 0)
        /\ w < MaxBridgeGap => k + g + w \notin GapPlaces(c)
    BY GroupAt
  <2>2. h[k] = IF g = 0 \/ ~GoesOn(c, k + g) THEN g ELSE g + w + h[k + g + w]
    BY ScanEquation
  <2>3. GoesOn(c, k + g) <=> "run_bridge" \in Config /\ w > 0 /\ k + g + w \in M
    BY DEF GoesOn
  <2>4. X = IF "run_bridge" \in Config THEN GapPlaces(c) ELSE {} BY DEF Crossable
  <2>5. g \in Nat /\ w \in Nat /\ k + g \notin M /\ k + g + w <= L + 1 BY <2>1 DEF Leg
  <2> HIDE DEF L, N, M, X, h, g, w
  <2>6. SUFFICES Longest(M, X, L, k, h[k]) OBVIOUS
  <2>7. k \in 1..(L + 1) BY DEF N
  <2>8. CASE "run_bridge" \notin Config
    <3>1. X = {} /\ h[k] = g BY <2>2, <2>3, <2>4, <2>8
    <3>2. k + g + 0 = k + g /\ k + g + 0 \notin X /\ k + g + 0 \notin M BY <2>5, <2>7, <3>1
    <3>3. Leg(M, X, L, k, g, 0) BY <2>1, <3>1
    <3>4. Longest(M, X, L, k, g) BY <1>1, <1>2, <2>7, <3>2, <3>3, RunEnds
    <3> QED BY <3>1, <3>4
  <2>9. CASE "run_bridge" \in Config /\ (g = 0 \/ ~GoesOn(c, k + g))
    <3>1. X = GapPlaces(c) /\ h[k] = g BY <2>2, <2>4, <2>9
    <3>2. g = 0 \/ k + g + w \notin M
      <4>1. w = 0 => k + g + w = k + g BY <2>5, <2>7
      <4> QED BY <2>3, <2>5, <2>9, <4>1
    <3>3. Leg(M, X, L, k, g, w) /\ (w < MaxBridgeGap => k + g + w \notin X) BY <2>1, <3>1
    <3>4. Longest(M, X, L, k, g) BY <1>1, <1>2, <2>7, <3>2, <3>3, RunEnds
    <3> QED BY <3>1, <3>4
  <2>10. CASE "run_bridge" \in Config /\ g # 0 /\ GoesOn(c, k + g)
    <3>1. X = GapPlaces(c) /\ h[k] = g + w + h[k + g + w] BY <2>2, <2>4, <2>10
    <3>2. k + g + w \in (k + 1)..N BY <2>5, <2>7, <2>10 DEF N
    <3>3. k + g + w \in M BY <2>3, <2>10
    <3>4. Longest(M, X, L, k + g + w, h[k + g + w]) BY <1>3, <3>2
    <3>5. Leg(M, X, L, k, g, w) BY <2>1, <3>1
    <3>6. Longest(M, X, L, k, g + w + h[k + g + w])
      BY <1>1, <1>2, <2>7, <2>10, <3>3, <3>4, <3>5, RunContinues
    <3> QED BY <3>1, <3>6
  <2> QED BY <2>8, <2>9, <2>10
<1>4. 1..N \subseteq S
  <2> HIDE DEF S, N
  <2> QED BY <1>1, <1>3, Downward
<1> QED BY <1>4

\* Inside a block, RunIn says what IsRun says.
LEMMA SameRuns ==
    ASSUME NEW c, Len(c) \in Nat, NEW i \in 1..Len(c), NEW n \in 0..(Len(c) - i + 1)
    PROVE  IsRun(c, i, n) <=> RunIn(MemberPlaces(c), Crossable(c), i, n)
<1>1. \A k \in i..(i + n - 1) : k \in 1..Len(c) OBVIOUS
<1>2. n > 0 => i \in i..(i + n - 1) /\ i + n - 1 \in i..(i + n - 1) OBVIOUS
<1>3. \A k \in 1..Len(c) :
         /\ run_member(c[k]) <=> k \in MemberPlaces(c)
         /\ "run_bridge" \in Config /\ Bridgeable(c[k]) <=> k \in Crossable(c)
  BY DEF MemberPlaces, GapPlaces, Crossable
<1>4. \A k \in i..(i + n - 1) : \A m \in i..(k - 1) : m \in 1..Len(c) OBVIOUS
<1> QED BY <1>1, <1>2, <1>3, <1>4 DEF IsRun, RunIn

\* Whatever block is translated, the length that the scan of lookahead returns
\* is the length of the longest run.
THEOREM Lookahead == Spec => []LookaheadExact
<1>1. ASSUME IInv PROVE LookaheadExact
  <2> SUFFICES ASSUME idx <= Len(code) PROVE IsLongestRun(code, idx, ScanFrom(code)[idx])
    BY DEF LookaheadExact, lookahead
  <2>1. Len(code) \in Nat /\ idx \in 1..Len(code) BY <1>1 DEF IInv, Shape
  <2> DEFINE n == ScanFrom(code)[idx]
  <2>2. Longest(MemberPlaces(code), Crossable(code), Len(code), idx, n)
    <3>1. idx \in 1..(Len(code) + 1) BY <2>1
    <3> QED BY <2>1, <3>1, ScanLongest
  <2> HIDE DEF n
  <2>3. n \in 0..(Len(code) - idx + 1) BY <2>2 DEF Longest
  <2>4. IsRun(code, idx, n) BY <2>1, <2>2, <2>3, SameRuns DEF Longest
  <2>5. \A m \in (n + 1)..(Len(code) - idx + 1) : ~IsRun(code, idx, m)
    <3>1. \A m \in (n + 1)..(Len(code) - idx + 1) : m \in 0..(Len(code) - idx + 1)
      BY <2>1, <2>3
    <3> QED BY <2>1, <2>2, <3>1, SameRuns DEF Longest
  <2> QED BY <2>3, <2>4, <2>5 DEF IsLongestRun, n
<1>2. IInv /\ [Next]_vars => IInv' BY StepOurs, StepOthers DEF Next
<1> QED BY <1>1, <1>2, InitInv, PTL DEF Spec

(***************************************************************************)
(* Pinned registers and the pool of scratch registers.                     *)
(***************************************************************************)

\* When c[j] is bridged and changes an address used before it, the mask names
\* a register of that address.  (And no guest register is called as a tag is.)
HonestAt(c, j) ==
    /\ Bridgeable(c[j]) =>
          \A i \in 1..(j - 1) : \A key \in KeysOf(c[i]) :
              Uses(key, GuestWrites(c[j])) => Uses(key, gap_written_gpr_mask(c[j]))
    /\ Writes(c[j]) \cap {"x87", "rc"} = {}
Honest == \A bs \in Blocks : \A b \in bs : \A j \in 1..Len(b) : HonestAt(b, j)
HonestCode == \A j \in 1..Len(code) : HonestAt(code, j)

\* Outside a run nothing is pinned; carried registers differ from each other,
\* and the rounding mode is carried in the place of a second address.
Idle == rem = 0 => ~valid /\ base = NoBases /\ rc = NoGpr
Distinct ==
    /\ base[1].gpr = base[2].gpr => base[1].gpr = NoGpr
    /\ rc # NoGpr => base[1].gpr # rc /\ base[2].gpr = NoGpr
\* Rosetta is given none of the pinned registers, and an instruction that
\* writes no register of a carried address.
Lent ==
    turn = "rosetta" =>
        /\ idx <= Len(code)
        /\ pinned_mask(valid, base, rc) \cap free = {}
        /\ \A s \in CarrySlots : base[s].gpr # NoGpr => ~Uses(base[s].key, Writes(code[idx]))
        /\ IsKeepalive(code[idx]) => CarriedGprs(base, rc) = {}
\* A carried address is one that an earlier instruction of the block used.
Local ==
    \A s \in CarrySlots :
        base[s].gpr # NoGpr => \E i \in 1..(idx - 1) : base[s].key \in KeysOf(code[i])
Kept == Idle /\ Distinct /\ Lent /\ Local /\ PinsCurrent
PInv == TInv /\ HonestCode /\ Kept

LEMMA TagsDiffer ==
    ASSUME NEW S, S \cap {"x87", "rc"} = {} PROVE ~Uses(X87Val, S) /\ ~Uses(RcVal, S)
BY DEF Uses, X87Val, RcVal, Tagged

LEMMA NothingKept ==
    /\ CarriedGprs(NoBases, NoGpr) = {}
    /\ \A s \in CarrySlots : NoBases[s].gpr = NoGpr /\ NoBases[s] = Empty
BY DEF CarriedGprs, NoBases, Empty

\* A step after which nothing is pinned.
LEMMA Forgotten ==
    ASSUME ~valid', base' = NoBases, rc' = NoGpr, turn' = "rosetta" => idx' <= Len(code')
    PROVE  Kept'
BY NothingKept DEF Kept, Idle, Distinct, Lent, Local, PinsCurrent, pinned_mask, CarrySlots

\* What the cache holds when an instruction is looked at is current.
LEMMA EntryCurrent ==
    ASSUME PInv
    PROVE  /\ EntryValid => \A g \in X87Pins : val[g] = X87Val
           /\ \A s \in CarrySlots :
                EntryBase[s].gpr # NoGpr => val[EntryBase[s].gpr] = EntryBase[s].key
           /\ EntryRc # NoGpr => val[EntryRc] = RcVal
           /\ EntryBase[1].gpr = EntryBase[2].gpr => EntryBase[1].gpr = NoGpr
           /\ EntryRc # NoGpr => EntryBase[1].gpr # EntryRc /\ EntryBase[2].gpr = NoGpr
           /\ EntryBase \in Bases /\ EntryRc \in Carriable /\ EntryValid \in BOOLEAN
           /\ \A s \in CarrySlots : EntryBase[s].gpr # NoGpr =>
                \E i \in 1..(idx - 1) : EntryBase[s].key \in KeysOf(code[i])
<1>1. CASE prev
  BY <1>1 DEF EntryValid, EntryBase, EntryRc, PInv, Kept, PinsCurrent, Distinct, Local, TInv, Pool
<1>2. CASE ~prev
  BY <1>2, NothingKept, NoBasesTyped DEF EntryValid, EntryBase, EntryRc, CarrySlots, Carriable
<1>3. prev \in BOOLEAN BY DEF PInv, TInv, Pool
<1> QED BY <1>1, <1>2

LEMMA BridgeKeeps ==
    ASSUME PInv, idx \in 1..Len(code), NEW n \in Nat, NEW lost \in BOOLEAN,
           Bridge(n, lost), code' = code
    PROVE  Kept'
<1> DEFINE in == code[idx]
           kept == carried_drop_written(EntryBase, gap_written_gpr_mask(in))
<1>1. Bridgeable(in) /\ UNCHANGED <<val, idx>> /\ turn' = "rosetta" BY DEF Bridge
<1>2. PICK x \in {NoBases, kept}, r \in {NoGpr, EntryRc} : Keep(n, 1, EntryValid, x, r)
  BY DEF Bridge
<1>3. /\ Writes(in) = GuestWrites(in)
      /\ \A i \in 1..(idx - 1) : \A key \in KeysOf(code[i]) :
            Uses(key, GuestWrites(in)) => Uses(key, gap_written_gpr_mask(in))
  BY <1>1 DEF PInv, HonestCode, HonestAt, Writes, Bridgeable, Handled
<1>4. \A s \in CarrySlots :
         x[s].gpr # NoGpr => /\ x[s] = EntryBase[s]
                             /\ ~Uses(x[s].key, gap_written_gpr_mask(in))
  <2>1. CASE x = NoBases BY <2>1, NothingKept
  <2>2. CASE x = kept BY <2>2 DEF carried_drop_written, Empty
  <2> QED BY <1>2, <2>1, <2>2
<1>5. \A s \in CarrySlots : x[s].gpr # NoGpr => ~Uses(x[s].key, Writes(in))
  BY <1>3, <1>4, EntryCurrent
<1>6. ~IsKeepalive(in) BY <1>1 DEF Bridgeable
<1>8. CASE n > 1
  <2>1. /\ rem' = n - 1 /\ valid' = EntryValid /\ base' = x /\ rc' = r
        /\ free' = Scratch \ pinned_mask(EntryValid, x, r)
    BY <1>2, <1>8, EntryCurrent DEF Keep
  <2>2. PinsCurrent' BY <2>1, <1>1, <1>2, <1>4, EntryCurrent DEF PinsCurrent
  <2>3. Distinct' BY <2>1, <1>2, <1>4, EntryCurrent DEF Distinct, CarrySlots
  <2>4. Lent' BY <2>1, <1>1, <1>5, <1>6 DEF Lent
  <2>5. rem' # 0 BY <2>1, <1>8
  <2>6. Idle' BY <2>5 DEF Idle
  <2>7. Local' BY <2>1, <1>1, <1>4, EntryCurrent DEF Local
  <2> QED BY <2>2, <2>3, <2>4, <2>6, <2>7 DEF Kept
<1>9. CASE ~(n > 1)
  <2>1. ~valid' /\ base' = NoBases /\ rc' = NoGpr BY <1>2, <1>9 DEF Keep
  <2>2. idx' <= Len(code') BY <1>1 DEF PInv, TInv, IInv, Shape
  <2> QED BY <2>1, <2>2, Forgotten
<1> QED BY <1>8, <1>9

LEMMA KeepaliveKeeps ==
    ASSUME PInv, idx \in 1..Len(code), NEW n \in Nat, Keepalive(n), code' = code
    PROVE  Kept'
<1>1. UNCHANGED <<val, idx>> /\ turn' = "rosetta" /\ Keep(n, 1, EntryValid, NoBases, NoGpr)
  BY DEF Keepalive
<1>3. CASE n > 1
  <2>1. /\ rem' = n - 1 /\ valid' = EntryValid /\ base' = NoBases /\ rc' = NoGpr
        /\ free' = Scratch \ pinned_mask(EntryValid, NoBases, NoGpr)
    BY <1>1, <1>3, EntryCurrent DEF Keep
  <2>2. PinsCurrent' BY <2>1, <1>1, NothingKept, EntryCurrent DEF PinsCurrent
  <2>3. Distinct' BY <2>1, NothingKept DEF Distinct, CarrySlots
  <2>4. Lent' BY <2>1, <1>1, NothingKept DEF Lent
  <2>5. rem' # 0 BY <2>1, <1>3
  <2>6. Idle' BY <2>5 DEF Idle
  <2>7. Local' BY <2>1, NothingKept DEF Local
  <2> QED BY <2>2, <2>3, <2>4, <2>6, <2>7 DEF Kept
<1>4. CASE ~(n > 1)
  <2>1. ~valid' /\ base' = NoBases /\ rc' = NoGpr BY <1>1, <1>4 DEF Keep
  <2>2. idx' <= Len(code') BY <1>1 DEF PInv, TInv, IInv, Shape
  <2> QED BY <2>1, <2>2, Forgotten
<1> QED BY <1>3, <1>4

LEMMA SingleKeeps ==
    ASSUME PInv, NEW n \in Nat, NEW k \in 1..2, Single(n, k) PROVE Kept'
<1>1. turn' = "ours" BY DEF Single
<1>2. PICK v \in {EntryValid, TRUE} :
        /\ Keep(n, k, v, NoBases, NoGpr)
        /\ val' = [g \in Scratch |-> IF g \in X87Pins /\ n > k /\ v THEN X87Val ELSE Junk]
  BY DEF Single
<1>3. v \in BOOLEAN BY EntryCurrent
<1>5. CASE n > k
  <2>1. rem' = n - k /\ valid' = v /\ base' = NoBases /\ rc' = NoGpr BY <1>2, <1>3, <1>5 DEF Keep
  <2>2. \A g \in X87Pins : g \in Scratch BY DEF X87Pins, Scratch
  <2>3. PinsCurrent' BY <2>1, <2>2, <1>2, <1>5, NothingKept DEF PinsCurrent
  <2>4. Distinct' BY <2>1, NothingKept DEF Distinct, CarrySlots
  <2>5. rem' # 0 BY <2>1, <1>5
  <2>6. Idle' /\ Lent' BY <2>5, <1>1 DEF Idle, Lent
  <2>7. Local' BY <2>1, NothingKept DEF Local
  <2> QED BY <2>3, <2>4, <2>6, <2>7 DEF Kept
<1>6. CASE ~(n > k) BY <1>1, <1>2, <1>6, Forgotten DEF Keep
<1> QED BY <1>5, <1>6

\* A compiled run writes no guest register that RunWrites does not name.
LEMMA WritesNamed ==
    ASSUME NEW k \in Nat, CanCompile(k)
    PROVE  UNION {Writes(code[j]) : j \in Members(k)} \subseteq RunWrites(k)
<1> SUFFICES ASSUME NEW j \in Members(k) PROVE Writes(code[j]) \subseteq RunWrites(k)
  OBVIOUS
<1>2. CASE code[j].op = "fstsw" BY <1>2 DEF RunWrites, Writes, Handled
<1>3. CASE code[j].op \in Handled \ {"fstsw"} BY <1>3 DEF Writes
<1>4. CASE code[j].op \in Inlined
  <2>1. Writes(code[j]) = GuestWrites(code[j]) BY <1>4 DEF Writes, Inlined, Handled
  <2>2. Named(code[j], 1) \subseteq guest_written_mask(k) BY <1>4 DEF guest_written_mask
  <2>3. GuestWrites(code[j]) \subseteq Named(code[j], 1) BY <1>4 DEF GuestWrites, Inlined
  <2> QED BY <2>1, <2>2, <2>3 DEF RunWrites
<1> QED BY <1>2, <1>3, <1>4 DEF CanCompile, Handled

\* The bases and the rounding mode a compiled run starts from.
LEMMA StartsCurrent ==
    ASSUME PInv, NEW n, NEW k, NEW t
    PROVE  LET b == BasesFor(n, k, t) r == RcFor(n, k, t) IN
           /\ \A s \in CarrySlots : b[s].gpr # NoGpr => val[b[s].gpr] = b[s].key
           /\ r # NoGpr => val[r] = RcVal
           /\ b[1].gpr = b[2].gpr => b[1].gpr = NoGpr
           /\ r # NoGpr => b[1].gpr # r /\ b[2].gpr = NoGpr
           /\ b \in Bases /\ r \in Carriable
           /\ \A s \in CarrySlots : b[s].gpr # NoGpr =>
                \E i \in 1..(idx - 1) : b[s].key \in KeysOf(code[i])
<1>1. CASE Crowded(n, k, t)
  BY <1>1, NothingKept, NoBasesTyped DEF BasesFor, RcFor, CarrySlots, Carriable
<1>2. CASE ~Crowded(n, k, t) BY <1>2, EntryCurrent DEF BasesFor, RcFor
<1> QED BY <1>1, <1>2

\* A register it takes is none of those it keeps.
LEMMA PoolApart ==
    ASSUME PInv, NEW n \in Nat, n > 0, NEW k, NEW t
    PROVE  PoolFor(n, k, t) \cap CarriedGprs(BasesFor(n, k, t), RcFor(n, k, t)) = {}
<1>1. CASE Crowded(n, k, t) BY <1>1, NothingKept DEF BasesFor, RcFor
<1>2. CASE ~Crowded(n, k, t)
  <2>1. PoolFor(n, k, t) = EntryFree(n) BY <1>2 DEF PoolFor
  <2>2. EntryFree(n) \cap CarriedGprs(EntryBase, EntryRc) = {} BY DEF EntryFree, pinned_mask
  <2> QED BY <1>2, <2>1, <2>2 DEF BasesFor, RcFor
<1> QED BY <1>1, <1>2

LEMMA CompileKeeps ==
    ASSUME PInv, TInv', NEW n \in Nat, n > 0 => RunFrom(code, idx, n), NEW k \in 2..n, NEW t,
           CompileRun(n, k, t), n > k, code' = code
    PROVE  Kept'
<1> DEFINE b == BasesFor(n, k, t)
           r == RcFor(n, k, t)
           rest == PoolFor(n, k, t) \ FixedGprs
           on == "bridge_carry" \in Config /\ n > k
<1>1. PICK plan \in SUBSET plan_addr_cache(k) :
        \E a \in Assignments(rest, {key \in plan : ~Hit(b, key)}) :
           LET new == {key \in plan : ~Hit(b, key)}
               left == rest \ {a[key] : key \in new}
               w == RcGpr(k, r, left)
               mine == Mine(b, a, plan)
           IN  \E nb \in [CarrySlots -> mine \cup OldBases(b, k) \cup {Empty}] :
               LET nr == IF on /\ nb[2] = Empty /\ w # TlsGpr THEN w ELSE NoGpr IN
               /\ IF on THEN Carry(nb, mine, OldBases(b, k)) ELSE nb = NoBases
               /\ Keep(n, k, TRUE, nb, nr)
               /\ val' = [g \in Scratch |->
                     IF n <= k THEN Junk
                     ELSE IF g \in X87Pins THEN X87Val
                     ELSE IF g \in CarriedGprs(nb, NoGpr) THEN Held(nb, new, k, g)
                     ELSE IF g = nr THEN HeldRc(k, r, g) ELSE Junk]
  BY DEF CompileRun
<1> DEFINE new == {key \in plan : ~Hit(b, key)}
<1> DEFINE Left(a) == rest \ {a[key] : key \in new}
           W(a) == RcGpr(k, r, Left(a))
           Nr(a, x) == IF on /\ x[2] = Empty /\ W(a) # TlsGpr THEN W(a) ELSE NoGpr
<1>2. PICK a \in Assignments(rest, new) :
        \E nb \in [CarrySlots -> Mine(b, a, plan) \cup OldBases(b, k) \cup {Empty}] :
           /\ IF on THEN Carry(nb, Mine(b, a, plan), OldBases(b, k)) ELSE nb = NoBases
           /\ Keep(n, k, TRUE, nb, Nr(a, nb))
           /\ val' = [g \in Scratch |->
                 IF n <= k THEN Junk
                 ELSE IF g \in X87Pins THEN X87Val
                 ELSE IF g \in CarriedGprs(nb, NoGpr) THEN Held(nb, new, k, g)
                 ELSE IF g = Nr(a, nb) THEN HeldRc(k, r, g) ELSE Junk]
  BY <1>1
<1>3. PICK nb \in [CarrySlots -> Mine(b, a, plan) \cup OldBases(b, k) \cup {Empty}] :
        /\ IF on THEN Carry(nb, Mine(b, a, plan), OldBases(b, k)) ELSE nb = NoBases
        /\ Keep(n, k, TRUE, nb, Nr(a, nb))
        /\ val' = [g \in Scratch |->
              IF n <= k THEN Junk
              ELSE IF g \in X87Pins THEN X87Val
              ELSE IF g \in CarriedGprs(nb, NoGpr) THEN Held(nb, new, k, g)
              ELSE IF g = Nr(a, nb) THEN HeldRc(k, r, g) ELSE Junk]
  BY <1>2
<1> DEFINE nr == Nr(a, nb)
<1>4. /\ rem' # 0 /\ valid' /\ base' = nb /\ rc' = nr /\ turn' = "ours"
      /\ n \in Nat /\ k \in Nat /\ ~(n <= k) /\ CanCompile(k)
  <2>1. turn' = "ours" /\ CanCompile(k) BY DEF CompileRun
  <2>2. k \in Nat /\ ~(n <= k) /\ n - k # 0 OBVIOUS
  <2>3. Keep(n, k, TRUE, nb, nr) BY <1>3
  <2> HIDE DEF nr
  <2>4. rem' = n - k /\ valid' = TRUE /\ base' = nb /\ rc' = nr BY <2>2, <2>3 DEF Keep
  <2> QED BY <2>1, <2>2, <2>4
<1>5. nb \in Bases /\ nr \in Carriable BY <1>4 DEF TInv, Pool
<1>6. /\ b \in Bases /\ r \in Carriable
      /\ \A s \in CarrySlots : b[s].gpr # NoGpr => val[b[s].gpr] = b[s].key /\ b[s].gpr # r
      /\ r # NoGpr => val[r] = RcVal
      /\ \A s \in CarrySlots : b[s].gpr # NoGpr =>
           \E i \in 1..(idx - 1) : b[s].key \in KeysOf(code[i])
  BY StartsCurrent DEF CarrySlots
<1>7. /\ \A g \in rest : g # r /\ \A s \in CarrySlots : g # b[s].gpr
      /\ NoGpr \notin rest /\ rest \in SUBSET Scratch
  <2>1. rest \subseteq {3, 4, 5, TlsGpr} BY RestOfPool DEF PInv
  <2>2. rest \cap CarriedGprs(b, r) = {} BY PoolApart
  <2>3. NoGpr \notin rest /\ rest \in SUBSET Scratch BY <2>1 DEF NoGpr, TlsGpr, Scratch
  <2> QED BY <2>2, <2>3 DEF CarriedGprs
<1>8. DOMAIN a = new /\ \A x \in new : a[x] \in rest BY <1>2 DEF Assignments
<1> HIDE DEF b, r, rest, on
<1>9. ASSUME NEW s \in CarrySlots, nb[s].gpr # NoGpr
      PROVE  /\ ~Uses(nb[s].key, RunWrites(k))
             /\ nb[s].key \in new \/ val[nb[s].gpr] = nb[s].key
             /\ \/ nb[s].gpr \in {a[x] : x \in new}
                \/ \E x \in CarrySlots : b[x].gpr # NoGpr /\ nb[s].gpr = b[x].gpr
             /\ \/ \E i \in Members(k) : nb[s].key \in KeysOf(code[i])
                \/ \E i \in 1..(idx - 1) : nb[s].key \in KeysOf(code[i])
  <2>1. nb[s] \in Mine(b, a, plan) \cup OldBases(b, k) BY <1>9, <1>3 DEF Empty
  <2>2. CASE nb[s] \in OldBases(b, k) BY <2>2, <1>6 DEF OldBases
  <2>3. CASE nb[s] \in Mine(b, a, plan)
    <3>1. nb[s].key \in plan /\ nb[s].gpr = AtGpr(b, a, nb[s].key) BY <2>3 DEF Mine
    <3>2. /\ ~Uses(nb[s].key, RunWrites(k))
          /\ \E i \in Members(k) : nb[s].key \in KeysOf(code[i])
      BY <3>1, <1>1 DEF plan_addr_cache
    <3>3. CASE nb[s].key \in new BY <3>1, <3>2, <3>3, <1>8 DEF AtGpr
    <3>4. CASE nb[s].key \notin new
      <4>1. nb[s].gpr = GprOf(b, nb[s].key) BY <3>1, <3>4, <1>8 DEF AtGpr
      <4>2. \E x \in CarrySlots : b[x].gpr # NoGpr /\ b[x].key = nb[s].key
        BY <3>1, <3>4 DEF Hit
      <4>3. \E x \in CarrySlots : /\ b[x].gpr # NoGpr /\ b[x].key = nb[s].key
                                  /\ nb[s].gpr = b[x].gpr
        BY <4>1, <4>2 DEF GprOf
      <4> QED BY <3>2, <4>3, <1>6
    <3> QED BY <3>3, <3>4
  <2> QED BY <2>1, <2>2, <2>3
<1>10. nb[1].gpr = nb[2].gpr => nb[1].gpr = NoGpr
  BY <1>3, NothingKept DEF Carry, Empty, CarrySlots
<1>11. nr # NoGpr => nb[1].gpr # nr /\ nb[2].gpr = NoGpr
  <2> SUFFICES ASSUME nr # NoGpr PROVE nb[1].gpr # nr /\ nb[2].gpr = NoGpr OBVIOUS
  <2>1. nb[2].gpr = NoGpr /\ nr = RcGpr(k, r, Left(a)) BY DEF Empty
  <2>2. nr = r \/ (nr \in Left(a) /\ r = NoGpr)
    <3>1. Left(a) \in SUBSET Scratch BY <1>7
    <3>2. Left(a) # {} => LowestOf(Left(a)) \in Left(a) BY <3>1, LowestIn
    <3> HIDE DEF Left
    <3> QED BY <2>1, <3>2 DEF RcGpr
  <2>3. SUFFICES ASSUME nb[1].gpr # NoGpr PROVE nb[1].gpr # nr BY <2>1
  <2>4. \/ nb[1].gpr \in {a[x] : x \in new}
        \/ \E x \in CarrySlots : b[x].gpr # NoGpr /\ nb[1].gpr = b[x].gpr
    BY <1>9, <2>3 DEF CarrySlots
  <2> QED BY <2>2, <2>4, <1>6, <1>7, <1>8
<1>12. Distinct' BY <1>4, <1>10, <1>11 DEF Distinct
<1>13. Idle' /\ Lent' BY <1>4 DEF Idle, Lent
<1>14. \A s \in CarrySlots : nb[s].gpr # NoGpr => val'[nb[s].gpr] = nb[s].key
  <2> SUFFICES ASSUME NEW s \in CarrySlots, nb[s].gpr # NoGpr
               PROVE  val'[nb[s].gpr] = nb[s].key
    OBVIOUS
  <2> DEFINE g == nb[s].gpr
  <2>1. g \in Scratch /\ g \notin X87Pins BY <1>5 DEF Bases, Carriable, Scratch, X87Pins
  <2>2. g \in CarriedGprs(nb, NoGpr) BY DEF CarriedGprs
  <2>3. val'[g] = Held(nb, new, k, g) BY <1>3, <1>4, <2>1, <2>2
  <2>4. (CHOOSE x \in CarrySlots : nb[x].gpr = g) = s BY <1>10 DEF CarrySlots
  <2>6. ~Uses(nb[s].key, UNION {Writes(code[j]) : j \in Members(k)})
    BY <1>9, <1>4, WritesNamed DEF Uses
  <2>7. nb[s].key \in new \/ val[g] = nb[s].key BY <1>9
  <2> QED BY <2>3, <2>4, <2>6, <2>7 DEF Held
<1>15. nr # NoGpr => val'[nr] = RcVal
  <2> SUFFICES ASSUME nr # NoGpr PROVE val'[nr] = RcVal OBVIOUS
  <2>1. nr \in Scratch /\ nr \notin X87Pins BY <1>5 DEF Carriable, Scratch, X87Pins
  <2>2. nr \notin CarriedGprs(nb, NoGpr) BY <1>11 DEF CarriedGprs, CarrySlots
  <2> HIDE DEF nr
  <2>3. val'[nr] = HeldRc(k, r, nr) BY <1>3, <1>4, <2>1, <2>2 DEF nr
  <2> QED BY <2>3, <1>6 DEF HeldRc
<1>16. \A g \in X87Pins : val'[g] = X87Val BY <1>3, <1>4 DEF X87Pins, Scratch
<1>17. Local'
  <2>1. idx' = idx + k /\ idx \in Nat \ {0} BY DEF CompileRun, PInv, TInv, IInv, Shape
  <2>2. Members(k) \subseteq 1..(idx' - 1) /\ 1..(idx - 1) \subseteq 1..(idx' - 1)
    BY <1>4, <2>1 DEF Members
  <2> QED BY <1>4, <1>9, <2>2 DEF Local
<1> QED BY <1>4, <1>12, <1>13, <1>14, <1>15, <1>16, <1>17 DEF Kept, PinsCurrent

\* The steps of the translator.
LEMMA KeptOurs == ASSUME PInv, Translate, TInv' PROVE Kept'
<1>1. PICK n \in 0..Len(code) :
        /\ Entered(n)
        /\ \/ \E k \in 2..n, t \in Transients : CompileRun(n, k, t)
           \/ \E k \in 1..2 : Single(n, k)
           \/ \E lost \in BOOLEAN : Bridge(n, lost)
           \/ Keepalive(n) \/ HandBack(n)
  BY DEF Translate
<1>2. idx \in 1..Len(code) /\ turn = "ours" /\ code' = code /\ IInv /\ TInv
  BY DEF Translate, PInv, TInv, IInv, Shape
<1>3. n \in Nat /\ (n > 0 => RunFrom(code, idx, n)) BY <1>1, <1>2, EnteredTail
<1>4. ASSUME NEW k \in 2..n, NEW t \in Transients, CompileRun(n, k, t) PROVE Kept'
  <2>1. CASE n > k BY <1>2, <1>3, <1>4, <2>1, CompileKeeps
  <2>2. CASE ~(n > k)
    <3>1. turn' = "ours" /\ \E x, r : Keep(n, k, TRUE, x, r) BY <1>4 DEF CompileRun
    <3>2. ~valid' /\ base' = NoBases /\ rc' = NoGpr BY <2>2, <3>1 DEF Keep
    <3> QED BY <3>1, <3>2, Forgotten
  <2> QED BY <2>1, <2>2
<1>5. ASSUME HandBack(n) PROVE Kept'
  <2>1. idx' <= Len(code') BY <1>2, <1>5 DEF HandBack, IInv, Shape
  <2> QED BY <1>5, <2>1, Forgotten DEF HandBack, Forget
<1> QED BY <1>1, <1>2, <1>3, <1>4, <1>5, SingleKeeps, BridgeKeeps, KeepaliveKeeps

\* Rosetta leaves alone what it was not given.
LEMMA KeptRosetta == ASSUME PInv, Rosetta PROVE Kept'
<1> DEFINE in == code[idx]
           lost == free \cup IF IsKeepalive(in) THEN CallClobbers ELSE {}
<1>1. /\ turn = "rosetta" /\ turn' = "ours"
      /\ UNCHANGED <<rem, valid, base, rc>>
      /\ val' = [g \in Scratch |->
                   IF g \in lost \/ Uses(val[g], Writes(in)) THEN Junk ELSE val[g]]
  BY DEF Rosetta
<1>2. /\ pinned_mask(valid, base, rc) \cap free = {}
      /\ \A s \in CarrySlots : base[s].gpr # NoGpr => ~Uses(base[s].key, Writes(in))
      /\ IsKeepalive(in) => CarriedGprs(base, rc) = {}
      /\ in = code[idx] /\ idx \in 1..Len(code)
  BY <1>1 DEF PInv, Kept, Lent, TInv, IInv, Shape
<1>3. PinsCurrent /\ base \in Bases /\ rc \in Carriable BY DEF PInv, Kept, TInv, Pool
<1>4. ~Uses(X87Val, Writes(in)) /\ ~Uses(RcVal, Writes(in))
  BY <1>2, TagsDiffer DEF PInv, HonestCode, HonestAt
<1>5. pinned_mask(valid, base, rc) \cap lost = {}
  <2>1. X87Pins \cap CallClobbers = {} BY DEF X87Pins, CallClobbers
  <2> QED BY <1>2, <2>1 DEF pinned_mask
<1> HIDE DEF lost, in
<1>6. valid => \A g \in X87Pins : val'[g] = X87Val
  <2>1. X87Pins \subseteq Scratch BY DEF X87Pins, Scratch
  <2> QED BY <1>1, <1>3, <1>4, <1>5, <2>1 DEF PinsCurrent, pinned_mask
<1>7. ASSUME NEW s \in CarrySlots, base[s].gpr # NoGpr PROVE val'[base[s].gpr] = base[s].key
  <2>1. base[s].gpr \in Scratch BY <1>3, <1>7 DEF Bases, Carriable, Scratch
  <2>2. base[s].gpr \notin lost BY <1>5, <1>7 DEF pinned_mask, CarriedGprs
  <2> QED BY <1>1, <1>2, <1>3, <1>7, <2>1, <2>2 DEF PinsCurrent
<1>8. ASSUME rc # NoGpr PROVE val'[rc] = RcVal
  <2>1. rc \in Scratch BY <1>3, <1>8 DEF Carriable, Scratch
  <2>2. rc \notin lost BY <1>5, <1>8 DEF pinned_mask, CarriedGprs
  <2> QED BY <1>1, <1>3, <1>4, <1>8, <2>1, <2>2 DEF PinsCurrent
<1>9. Idle' /\ Distinct' BY <1>1 DEF PInv, Kept, Idle, Distinct
<1>10. Lent' BY <1>1 DEF Lent
<1>11. PinsCurrent' BY <1>1, <1>6, <1>7, <1>8 DEF PinsCurrent
<1>12. Local'
  <2>1. idx' = idx + 1 /\ code' = code /\ idx \in Nat
    BY DEF Rosetta, PInv, TInv, IInv, Shape
  <2>2. 1..(idx - 1) \subseteq 1..(idx' - 1) BY <2>1
  <2> QED BY <1>1, <2>1, <2>2 DEF PInv, Kept, Local
<1> QED BY <1>9, <1>10, <1>11, <1>12 DEF Kept

\* Between blocks nothing is pinned.
LEMMA BetweenBlocks == ASSUME PInv, LeaveBlock \/ EnterBlock PROVE rem = 0 /\ turn = "ours"
<1>1. /\ idx \in Nat \ {0} /\ rem \in Nat /\ Len(code) \in Nat /\ turn \in {"ours", "rosetta"}
      /\ rem > 0 => RunFrom(code, Here, rem)
      /\ turn = "rosetta" => idx <= Len(code)
  BY DEF PInv, TInv, IInv, Shape, Ahead, Kept, Lent
<1>2. idx > Len(code) BY <1>1, EmptyLen DEF LeaveBlock, EnterBlock
<1>3. turn = "ours" BY <1>1, <1>2
<1> QED BY <1>1, <1>2, <1>3 DEF RunFrom, Here

LEMMA KeptBlocks == ASSUME PInv, LeaveBlock \/ EnterBlock PROVE Kept'
<1>1. rem = 0 /\ turn = "ours" BY BetweenBlocks
<1>2. ~valid /\ base = NoBases /\ rc = NoGpr BY <1>1 DEF PInv, Kept, Idle
<1>3. ~valid' /\ base' = NoBases /\ rc' = NoGpr /\ turn' = "ours"
  BY <1>1, <1>2 DEF LeaveBlock, EnterBlock
<1> QED BY <1>3, Forgotten

LEMMA HonestStep == ASSUME HonestCode, Honest, [Next]_vars PROVE HonestCode'
<1>1. ASSUME code' = code PROVE HonestCode' BY <1>1 DEF HonestCode
<1>2. ASSUME code' = << >> PROVE HonestCode' BY <1>2, EmptyLen DEF HonestCode
<1>3. CASE EnterBlock BY <1>3 DEF EnterBlock, HonestCode, Honest
<1> QED BY <1>1, <1>2, <1>3 DEF Next, Translate, Rosetta, LeaveBlock, vars

LEMMA PInvariance == ASSUME Honest PROVE Spec => []PInv
<1>1. Init => PInv
  <2> SUFFICES ASSUME Init PROVE PInv OBVIOUS
  <2>1. TInv BY InitTypes
  <2>2. HonestCode BY EmptyLen DEF Init, HonestCode
  <2>3. Kept
    BY NothingKept DEF Init, Kept, Idle, Distinct, Lent, Local, PinsCurrent, CarrySlots
  <2> QED BY <2>1, <2>2, <2>3 DEF PInv
<1>2. PInv /\ [Next]_vars => PInv'
  <2> SUFFICES ASSUME PInv, [Next]_vars PROVE PInv' OBVIOUS
  <2>1. TInv' BY TypesStep DEF PInv
  <2>2. HonestCode' BY HonestStep DEF PInv
  <2>3. ASSUME UNCHANGED vars PROVE Kept'
    BY <2>3 DEF vars, PInv, Kept, Idle, Distinct, Lent, Local, PinsCurrent
  <2>4. Kept' BY <2>1, <2>3, KeptOurs, KeptRosetta, KeptBlocks DEF Next
  <2> QED BY <2>1, <2>2, <2>4 DEF PInv
<1> QED BY <1>1, <1>2, PTL DEF Spec

\* Where gap_written_gpr_mask tells the truth about the bridged instructions, a
\* pinned register holds what the next compiled run takes it for, in any
\* configuration and any order of runs, gaps and runtime calls.
THEOREM Pins == ASSUME Honest PROVE Spec => []PinsCurrent
<1>1. PInv => PinsCurrent BY DEF PInv, Kept
<1> QED BY <1>1, PInvariance, PTL

(***************************************************************************)
(* Pinned registers are leases.                                            *)
(***************************************************************************)
Backed == DOMAIN Leases \subseteq Scratch /\ Lease!Honoured(Leases, val)
Spare == Cardinality(Scratch \ DOMAIN Leases) >= 3

LEMMA PinsBacked == PInv => Backed
<1> SUFFICES ASSUME PInv PROVE Backed OBVIOUS
<1>1. PinsCurrent /\ base \in Bases /\ rc \in Carriable BY DEF PInv, Kept, TInv, Pool
<1>2. DOMAIN Leases = pinned_mask(valid, base, rc) BY DEF Leases
<1>3. CarriedGprs(base, rc) \subseteq {3, 4, 5} BY <1>1, CarriableGprs
<1>4. DOMAIN Leases \subseteq Scratch BY <1>2, <1>3 DEF pinned_mask, X87Pins, Scratch
<1>5. ASSUME NEW g \in DOMAIN Leases PROVE val[g] = Leases[g]
  <2>1. Leases[g] = PurposeOf(g) BY <1>2 DEF Leases
  <2>2. CASE valid /\ g \in X87Pins BY <1>1, <2>1, <2>2 DEF PurposeOf, PinsCurrent
  <2>3. CASE ~(valid /\ g \in X87Pins) /\ g = rc
    <3>1. rc # NoGpr BY <1>4, <2>3 DEF Scratch, NoGpr
    <3> QED BY <1>1, <2>1, <2>3, <3>1 DEF PurposeOf, PinsCurrent
  <2>4. CASE ~(valid /\ g \in X87Pins) /\ g # rc
    <3>1. g # NoGpr /\ \E s \in CarrySlots : base[s].gpr = g
      BY <1>2, <1>4, <2>4 DEF pinned_mask, CarriedGprs, Scratch, NoGpr
    <3>2. PICK s \in CarrySlots : base[s].gpr = g /\ PurposeOf(g) = base[s].key
      BY <3>1, <2>4 DEF PurposeOf
    <3> QED BY <1>1, <2>1, <3>1, <3>2 DEF PinsCurrent
  <2> QED BY <2>2, <2>3, <2>4
<1> QED BY <1>4, <1>5 DEF Backed, Lease!Honoured

\* Two registers are carried at most: one of three is free, and the two that
\* are taken by number are.
LEMMA PinsSpare == PInv => Spare
<1> SUFFICES ASSUME PInv PROVE Spare OBVIOUS
<1>1. base \in Bases /\ rc \in Carriable /\ Distinct BY DEF PInv, Kept, TInv, Pool
<1>2. PICK x \in {3, 4, 5} : x # rc /\ x # base[1].gpr /\ x # base[2].gpr
  <2>1. rc = NoGpr \/ base[2].gpr = NoGpr BY <1>1 DEF Distinct
  <2> QED BY <2>1 DEF NoGpr
<1>3. {2, 7, x} \subseteq Scratch \ DOMAIN Leases
  <2>1. CarriedGprs(base, rc) \subseteq {3, 4, 5} BY <1>1, CarriableGprs
  <2>2. x \notin CarriedGprs(base, rc) BY <1>2 DEF CarriedGprs, CarrySlots
  <2>3. DOMAIN Leases = pinned_mask(valid, base, rc) BY DEF Leases
  <2> QED BY <1>2, <2>1, <2>2, <2>3 DEF pinned_mask, X87Pins, Scratch
<1>4. IsFiniteSet({2, 7, x}) /\ Cardinality({2, 7, x}) = 3
  <2>1. IsFiniteSet({2}) /\ Cardinality({2}) = 1 BY FS_Singleton
  <2>2. IsFiniteSet({2, 7}) /\ Cardinality({2, 7}) = 2
    <3>1. {2, 7} = {2} \cup {7} /\ 7 \notin {2} OBVIOUS
    <3> QED BY <2>1, <3>1, FS_AddElement
  <2>3. {2, 7, x} = {2, 7} \cup {x} /\ x \notin {2, 7} BY <1>2
  <2> QED BY <2>2, <2>3, FS_AddElement
<1>5. IsFiniteSet(Scratch \ DOMAIN Leases)
  <2>1. 0 \in Int /\ 7 \in Int OBVIOUS
  <2>2. IsFiniteSet(0..7) BY <2>1, FS_Interval, Zenon
  <2> QED BY <2>2, FS_Difference DEF Scratch
<1>6. /\ Cardinality({2, 7, x}) <= Cardinality(Scratch \ DOMAIN Leases)
      /\ Cardinality(Scratch \ DOMAIN Leases) \in Nat
  BY <1>3, <1>5, FS_Subset, FS_CardinalityType
<1> QED BY <1>4, <1>6 DEF Spare

\* The pinned registers of the cache implement the contract of GprLease: what
\* is on lease is intact whenever it is looked at, Rosetta touches no leased
\* register, and it is always left three.
THEOREM Leased == ASSUME Honest PROVE Spec => LeaseKept
<1>1. Init => Lease!Init
  <2> SUFFICES ASSUME Init PROVE Lease!Init OBVIOUS
  <2>1. pinned_mask(valid, base, rc) = {} BY NothingKept DEF Init, pinned_mask
  <2>2. DOMAIN Leases = {} BY <2>1 DEF Leases
  <2> QED BY <2>2 DEF Init, Lease!Init
<1>2. PInv /\ Backed /\ Backed' /\ Spare' /\ [Next]_vars => [Lease!Next]_(Lease!vars)
  <2> SUFFICES ASSUME PInv, Backed, Backed', Spare', [Next]_vars
               PROVE  [Lease!Next]_(Lease!vars)
    OBVIOUS
  <2>1. ASSUME turn = "ours" PROVE Lease!Next
    <3>1. DOMAIN Leases' \subseteq Scratch /\ Lease!Honoured(Leases', val')
      BY DEF Backed, Lease!Honoured
    <3>2. Cardinality(Scratch \ DOMAIN Leases') >= 3 BY DEF Spare
    <3>3. Lease!Cardinality(Scratch \ DOMAIN Leases') = Cardinality(Scratch \ DOMAIN Leases')
      BY DEF Cardinality, Lease!Cardinality, IsFiniteSet, Lease!IsFiniteSet
    <3> QED BY <2>1, <3>1, <3>2, <3>3 DEF Lease!Next, Lease!Ours
  <2>2. CASE Rosetta
    <3>1. Leases' = Leases BY <2>2 DEF Rosetta, Leases, pinned_mask, CarriedGprs, PurposeOf
    <3>2. \A g \in DOMAIN Leases : val'[g] = val[g] BY <3>1 DEF Backed, Lease!Honoured
    <3> QED BY <2>2, <3>1, <3>2 DEF Rosetta, Lease!Next, Lease!Theirs
  <2>3. CASE LeaveBlock \/ EnterBlock BY <2>1, <2>3, BetweenBlocks
  <2>4. CASE UNCHANGED vars
    BY <2>4 DEF vars, Lease!vars, Leases, pinned_mask, CarriedGprs, PurposeOf
  <2> QED BY <2>1, <2>2, <2>3, <2>4 DEF Next, Translate
<1> QED BY <1>1, <1>2, PInvariance, PinsBacked, PinsSpare, PTL DEF Spec, LeaseKept, Lease!Spec

(***************************************************************************)
(* The pool.  What is not pinned is in the mask, and a bridged instruction *)
(* is handed over with more registers than it needs.                       *)
(***************************************************************************)
Masked == Scratch \ pinned_mask(valid, base, rc) \subseteq free
Ample ==
    turn = "rosetta" /\ rem > 0 /\ Bridgeable(code[idx]) =>
        Cardinality(free) > gap_gpr_demand(code[idx])
FInv == TInv /\ Masked /\ Ample /\ ~short

LEMMA ScratchFinite == IsFiniteSet(Scratch) /\ Cardinality(Scratch) = 8
<1>1. 0 \in Int /\ 7 \in Int OBVIOUS
<1>2. IsFiniteSet(0..7) /\ Cardinality(0..7) = IF 0 > 7 THEN 0 ELSE 7 - 0 + 1
  BY <1>1, FS_Interval, Zenon
<1> QED BY <1>2 DEF Scratch

LEMMA PartFinite ==
    ASSUME NEW S \in SUBSET Scratch PROVE IsFiniteSet(S) /\ Cardinality(S) \in Nat
BY ScratchFinite, FS_Subset, FS_CardinalityType

LEMMA Counts ==
    /\ IsFiniteSet(X87Pins) /\ Cardinality(X87Pins) = 3
    /\ IsFiniteSet(FixedGprs) /\ Cardinality(FixedGprs) = IF EntryValid THEN 1 ELSE 4
<1>2. IsFiniteSet({0}) /\ Cardinality({0}) = 1 /\ IsFiniteSet({2}) /\ Cardinality({2}) = 1
  BY FS_Singleton
<1>3. IsFiniteSet({0, 1}) /\ Cardinality({0, 1}) = 2
  <2>1. {0, 1} = {0} \cup {1} /\ 1 \notin {0} OBVIOUS
  <2> QED BY <1>2, <2>1, FS_AddElement
<1>4. IsFiniteSet(X87Pins) /\ Cardinality(X87Pins) = 3
  <2>1. X87Pins = {0, 1} \cup {6} /\ 6 \notin {0, 1} BY DEF X87Pins
  <2> QED BY <1>3, <2>1, FS_AddElement
<1>5. CASE EntryValid BY <1>2, <1>4, <1>5 DEF FixedGprs, TmpGpr
<1>6. CASE ~EntryValid
  <2>1. FixedGprs = X87Pins \cup {2} /\ 2 \notin X87Pins
    BY <1>6 DEF FixedGprs, X87Pins, TmpGpr
  <2> QED BY <1>4, <1>6, <2>1, FS_AddElement
<1> QED BY <1>5, <1>6

\* Five registers are left when only the x87 state is pinned.
LEMMA FiveLeft ==
    ASSUME NEW S \in SUBSET Scratch, Scratch \ X87Pins \subseteq S PROVE Cardinality(S) >= 5
<1>1. X87Pins \cap Scratch = X87Pins BY DEF X87Pins, Scratch
<1>2. Cardinality(Scratch \ X87Pins) = 5
  <2>1. Cardinality(Scratch \ X87Pins) = Cardinality(Scratch) - Cardinality(Scratch \cap X87Pins)
    BY ScratchFinite, FS_Difference
  <2> QED BY <1>1, <2>1, Counts, ScratchFinite
<1>3. Cardinality(Scratch \ X87Pins) <= Cardinality(S) BY FS_Subset, PartFinite
<1> QED BY <1>2, <1>3, PartFinite

\* Of the registers a compiled run may choose from, t are left for its nodes
\* once the bases and the rounding mode have theirs.
LEMMA RoomLeft ==
    ASSUME NEW pool \in SUBSET Scratch, FixedGprs \subseteq pool, NEW new,
           NEW a \in Assignments(pool \ FixedGprs, new), NEW k, NEW t \in Nat, NEW r,
           r \notin pool, peak_live_gprs(k, t) + Cardinality(new) <= Cardinality(pool),
           NEW img, \A g : g \in img <=> \E key \in new : g = a[key],
           NEW left, left = (pool \ FixedGprs) \ img
    PROVE  Cardinality(left \ {RcGpr(k, r, left)}) >= t
<1> DEFINE rest == pool \ FixedGprs
           w == RcGpr(k, r, left)
           q == IF rc_cached(k) THEN 1 ELSE 0
<1>1. a \in [new -> rest] /\ (\A x, y \in new : a[x] = a[y] => x = y) BY DEF Assignments
<1>2. IsFiniteSet(new) /\ Cardinality(img) = Cardinality(new) /\ img \subseteq rest
  <2>1. a \in Injection(new, rest) BY <1>1 DEF Injection, IsInjective
  <2>2. IsFiniteSet(new) BY <2>1, PartFinite, FS_Injection
  <2>3. a \in Bijection(new, img) BY <1>1 DEF Bijection, Injection, Surjection, IsInjective
  <2>4. ExistsBijection(new, img) BY <2>3 DEF ExistsBijection
  <2> QED BY <1>1, <2>2, <2>4, FS_Bijection
<1>3. Cardinality(rest) = Cardinality(pool) - Cardinality(FixedGprs)
  <2>1. pool \cap FixedGprs = FixedGprs OBVIOUS
  <2> QED BY <2>1, PartFinite, FS_Difference
<1>4. Cardinality(left) = Cardinality(rest) - Cardinality(new)
  <2>1. rest \cap img = img BY <1>2
  <2>2. IsFiniteSet(rest) BY PartFinite
  <2>3. Cardinality(rest \ img) = Cardinality(rest) - Cardinality(rest \cap img)
    BY <2>2, FS_Difference
  <2> QED BY <1>2, <2>1, <2>3
<1>5. /\ Cardinality(pool) \in Nat /\ Cardinality(new) \in Nat
      /\ Cardinality(left) \in Nat /\ IsFiniteSet(left)
  BY <1>2, PartFinite, FS_CardinalityType
<1>6. Cardinality(left) >= q + t /\ q \in {0, 1} /\ (rc_cached(k) => q = 1)
  BY <1>3, <1>4, <1>5, Counts DEF peak_live_gprs
<1> SUFFICES Cardinality(left \ {w}) >= t OBVIOUS
<1> HIDE DEF q, w
<1>7. CASE w \in left
  <2>1. rc_cached(k)
    <3>1. r \notin left OBVIOUS
    <3>2. NoGpr \notin left BY DEF NoGpr, Scratch
    <3> QED BY <1>7, <3>1, <3>2 DEF RcGpr, w
  <2>2. Cardinality(left \ {w}) = Cardinality(left) - 1 BY <1>5, <1>7, FS_RemoveElement
  <2> QED BY <1>5, <1>6, <2>1, <2>2
<1>8. CASE w \notin left
  <2>1. Cardinality(left \ {w}) = Cardinality(left) BY <1>5, <1>8, FS_RemoveElement
  <2> QED BY <1>5, <1>6, <2>1
<1> QED BY <1>7, <1>8

\* The registers an instruction may be translated with.
LEMMA EntryPool ==
    ASSUME FInv, NEW n \in Nat
    PROVE  /\ EntryFree(n) \subseteq Scratch
           /\ CarriedGprs(EntryBase, EntryRc) \subseteq {3, 4, 5}
           /\ FixedGprs \subseteq EntryFree(n)
           /\ Scratch \ X87Pins \subseteq EntryFree(n) \cup CarriedGprs(EntryBase, EntryRc)
<1>1. EntryBase \in Bases /\ EntryRc \in Carriable
  BY NoBasesTyped DEF EntryBase, EntryRc, FInv, TInv, Pool, Carriable
<1>2. CarriedGprs(EntryBase, EntryRc) \subseteq {3, 4, 5} BY <1>1, CarriableGprs
<1>3. /\ EntryFree(n) \subseteq Scratch
      /\ Scratch \ pinned_mask(EntryValid, EntryBase, EntryRc) \subseteq EntryFree(n)
  <2>1. CASE prev
    BY <2>1 DEF EntryFree, EntryValid, EntryBase, EntryRc, FInv, Masked, TInv, Pool
  <2>2. CASE ~prev BY <2>2 DEF EntryFree
  <2> QED BY <2>1, <2>2
<1>4. FixedGprs \subseteq Scratch \ pinned_mask(EntryValid, EntryBase, EntryRc)
  BY <1>2 DEF FixedGprs, TmpGpr, X87Pins, Scratch, pinned_mask
<1> QED BY <1>2, <1>3, <1>4 DEF pinned_mask

\* No translation of ours is short of registers.
LEMMA PoolOurs ==
    ASSUME FInv, NEW n \in Nat, NEW k, NEW t \in Nat,
           CompileRun(n, k, t) \/ Single(n, k)
    PROVE  ~short'
<1>1. CASE Single(n, k)
  <2> DEFINE pool == EntryFree(n) \cup CarriedGprs(EntryBase, EntryRc)
             fixed == IF EntryValid THEN {} ELSE X87Pins
  <2>1. Cardinality(pool \ fixed) >= 5
    <3>1. pool \ fixed \in SUBSET Scratch BY EntryPool DEF Scratch
    <3>2. Scratch \ X87Pins \subseteq pool \ fixed BY EntryPool
    <3> QED BY <3>1, <3>2, FiveLeft
  <2>2. Cardinality(pool \ fixed) \in Nat
    <3>1. pool \ fixed \in SUBSET Scratch BY EntryPool DEF Scratch
    <3> QED BY <3>1, PartFinite
  <2>3. short' = (Cardinality(pool \ fixed) < SinglePeak) BY <1>1 DEF Single
  <2> HIDE DEF pool, fixed
  <2>4. ~(Cardinality(pool \ fixed) < SinglePeak) BY <2>1, <2>2 DEF SinglePeak
  <2> QED BY <2>3, <2>4
<1>2. CASE CompileRun(n, k, t)
  <2> DEFINE b == BasesFor(n, k, t)
             r == RcFor(n, k, t)
             pool == PoolFor(n, k, t)
             rest == pool \ FixedGprs
             on == "bridge_carry" \in Config /\ n > k
  <2>1. PICK plan \in SUBSET plan_addr_cache(k) :
        LET new == {key \in plan : ~Hit(b, key)} IN
        /\ peak_live_gprs(k, t) + Cardinality(new) <= Cardinality(pool)
        /\ \E a \in Assignments(rest, new) :
           LET left == rest \ {a[key] : key \in new}
               w == RcGpr(k, r, left)
               mine == Mine(b, a, plan)
           IN  \E nb \in [CarrySlots -> mine \cup OldBases(b, k) \cup {Empty}] :
               short' = (\/ ~(FixedGprs \subseteq pool)
                         \/ Cardinality(left \ {w}) < t)
    BY <1>2 DEF CompileRun
  <2> DEFINE new == {key \in plan : ~Hit(b, key)}
  <2>2. PICK a \in Assignments(rest, new) :
           short' = (\/ ~(FixedGprs \subseteq pool)
                     \/ Cardinality((rest \ {a[key] : key \in new})
                          \ {RcGpr(k, r, rest \ {a[key] : key \in new})}) < t)
    BY <2>1
  <2>3. pool \in SUBSET Scratch /\ FixedGprs \subseteq pool
    BY EntryPool DEF PoolFor, Scratch
  <2>4. r \notin pool
    <3>1. n > 0 BY <1>2 DEF CompileRun
    <3>2. CASE Crowded(n, k, t) BY <2>3, <3>2 DEF RcFor, NoGpr, Scratch
    <3>3. CASE ~Crowded(n, k, t)
      BY <2>3, <3>1, <3>3 DEF RcFor, PoolFor, EntryFree, pinned_mask, CarriedGprs, NoGpr, Scratch
    <3> QED BY <3>2, <3>3
  <2> DEFINE left == rest \ {a[key] : key \in new}
  <2>5. Cardinality(left \ {RcGpr(k, r, left)}) >= t
    <3>1. peak_live_gprs(k, t) + Cardinality(new) <= Cardinality(pool) BY <2>1
    <3>2. a \in Assignments(pool \ FixedGprs, new) BY <2>2
    <3> DEFINE img == {a[key] : key \in new}
    <3>3. /\ left = (pool \ FixedGprs) \ img
          /\ \A g : g \in img <=> \E key \in new : g = a[key]
      OBVIOUS
    <3> HIDE DEF new, pool, r, left, img
    <3> QED BY <2>3, <2>4, <3>1, <3>2, <3>3, RoomLeft
  <2>6. Cardinality(left \ {RcGpr(k, r, left)}) \in Nat BY <2>3, PartFinite
  <2> HIDE DEF left, pool
  <2> QED BY <2>2, <2>3, <2>5, <2>6 DEF left
<1> QED BY <1>1, <1>2

LEMMA KeepMasks ==
    ASSUME NEW n \in Nat, NEW k \in Nat, NEW v \in BOOLEAN, NEW b, NEW r, Keep(n, k, v, b, r)
    PROVE  Masked'
<1>1. CASE n > k
  BY <1>1 DEF Keep, Masked
<1>2. CASE ~(n > k)
  BY <1>2 DEF Keep, Masked
<1> QED BY <1>1, <1>2

\* A bridged instruction is handed over with a register to spare: either the
\* pinned ones leave it that, or only the x87 state stays pinned.
LEMMA BridgeAmple ==
    ASSUME FInv, NEW n \in Nat, NEW lost \in BOOLEAN, Bridge(n, lost), code' = code
    PROVE  Ample'
<1> DEFINE in == code[idx]
           kept == carried_drop_written(EntryBase, gap_written_gpr_mask(in))
           tight == lost \/ Tight(gap_gpr_demand(in), pinned_mask(EntryValid, kept, EntryRc))
<1>1. /\ idx' = idx /\ gap_gpr_demand(in) \in 0..MaxBridgeDemand
      /\ Keep(n, 1, EntryValid, IF tight THEN NoBases ELSE kept, IF tight THEN NoGpr ELSE EntryRc)
  BY DEF Bridge, Bridgeable
<1>2. SUFFICES ASSUME rem' > 0 PROVE Cardinality(free') > gap_gpr_demand(in)
  BY <1>1 DEF Ample
<1>3. n > 1 BY <1>1, <1>2 DEF Keep
<1>4. CASE tight
  <2>1. free' = Scratch \ pinned_mask(EntryValid, NoBases, NoGpr) BY <1>1, <1>3, <1>4 DEF Keep
  <2>2. Scratch \ X87Pins \subseteq free' /\ free' \in SUBSET Scratch
    BY <2>1, NothingKept DEF pinned_mask
  <2>3. Cardinality(free') >= 5 /\ Cardinality(free') \in Nat BY <2>2, FiveLeft, PartFinite
  <2> QED BY <1>1, <2>3 DEF MaxBridgeDemand
<1>5. CASE ~tight
  <2>1. free' = Scratch \ pinned_mask(EntryValid, kept, EntryRc) BY <1>1, <1>3, <1>5 DEF Keep
  <2>2. ~(Cardinality(free') <= gap_gpr_demand(in)) BY <1>5, <2>1 DEF Tight
  <2>3. Cardinality(free') \in Nat BY <2>1, PartFinite
  <2> QED BY <1>1, <2>2, <2>3 DEF MaxBridgeDemand
<1> QED BY <1>4, <1>5

LEMMA PoolStep == ASSUME FInv, Translate PROVE Masked' /\ Ample' /\ ~short'
<1>1. PICK n \in 0..Len(code) :
        /\ Entered(n)
        /\ \/ \E k \in 2..n, t \in Transients : CompileRun(n, k, t)
           \/ \E k \in 1..2 : Single(n, k)
           \/ \E lost \in BOOLEAN : Bridge(n, lost)
           \/ Keepalive(n) \/ HandBack(n)
  BY DEF Translate
<1>2. n \in Nat /\ EntryValid \in BOOLEAN /\ code' = code
  BY DEF Translate, FInv, TInv, IInv, Shape, Pool, EntryValid
<1>3. ASSUME NEW k \in 2..n, NEW t \in Transients, CompileRun(n, k, t)
      PROVE  Masked' /\ Ample' /\ ~short'
  <2>1. k \in Nat /\ t \in Nat BY <1>2, TransientsAssumption
  <2>2. turn' = "ours" /\ \E x, r : Keep(n, k, TRUE, x, r) BY <1>3 DEF CompileRun
  <2>3. Masked' BY <1>2, <2>1, <2>2, KeepMasks
  <2>4. Ample' BY <2>2 DEF Ample
  <2> QED BY <1>2, <1>3, <2>1, <2>3, <2>4, PoolOurs
<1>4. ASSUME NEW k \in 1..2, Single(n, k) PROVE Masked' /\ Ample' /\ ~short'
  <2>1. turn' = "ours" /\ \E v \in {EntryValid, TRUE} : Keep(n, k, v, NoBases, NoGpr)
    BY <1>4 DEF Single
  <2>2. Masked'
    <3>1. PICK v \in BOOLEAN : Keep(n, k, v, NoBases, NoGpr) BY <1>2, <2>1
    <3>2. k \in Nat BY <1>4
    <3> QED BY <1>2, <3>1, <3>2, KeepMasks
  <2>3. Ample' BY <2>1 DEF Ample
  <2>4. ~short'
    <3>1. 0 \in Nat OBVIOUS
    <3> QED BY <1>2, <1>4, <3>1, PoolOurs
  <2> QED BY <2>2, <2>3, <2>4
<1>5. ASSUME NEW lost \in BOOLEAN, Bridge(n, lost) PROVE Masked' /\ Ample' /\ ~short'
  <2>1. short' = short /\ \E x, r : Keep(n, 1, EntryValid, x, r) BY <1>5 DEF Bridge
  <2>2. Masked' BY <1>2, <2>1, KeepMasks
  <2> QED BY <1>2, <1>5, <2>1, <2>2, BridgeAmple DEF FInv
<1>6. ASSUME Keepalive(n) PROVE Masked' /\ Ample' /\ ~short'
  <2>1. /\ short' = short /\ idx' = idx /\ Keep(n, 1, EntryValid, NoBases, NoGpr)
        /\ IsKeepalive(code[idx])
    BY <1>6 DEF Keepalive
  <2>2. Masked' BY <1>2, <2>1, KeepMasks
  <2>3. Ample' BY <1>2, <2>1 DEF Ample, Bridgeable
  <2> QED BY <2>1, <2>2, <2>3 DEF FInv
<1>7. ASSUME HandBack(n) PROVE Masked' /\ Ample' /\ ~short'
  <2>1. short' = short /\ rem' = 0 /\ free' = Scratch BY <1>7 DEF HandBack, Forget
  <2> QED BY <2>1 DEF Masked, Ample, FInv
<1> QED BY <1>1, <1>3, <1>4, <1>5, <1>6, <1>7

\* alloc_free_gpr never finds the pool empty: a compiled run that passed its
\* gate has its registers beside the carried ones, a single translation has
\* five, and Rosetta keeps one to spare on every bridged instruction, in every
\* block and configuration and for any demand of a run's nodes.
THEOREM Suffices == Spec => []PoolSuffices
<1>1. Init => FInv
  BY InitTypes DEF Init, FInv, Masked, Ample
<1>2. FInv /\ [Next]_vars => FInv'
  <2> SUFFICES ASSUME FInv, [Next]_vars PROVE FInv' OBVIOUS
  <2>1. TInv' BY TypesStep DEF FInv
  <2>2. CASE Translate BY <2>1, <2>2, PoolStep DEF FInv
  <2>3. CASE Rosetta
    <3>1. Masked'
      <4>1. /\ free' \in {free, Scratch} /\ UNCHANGED <<valid, base, rc>>
        BY <2>3 DEF Rosetta
      <4>2. pinned_mask(valid, base, rc)' = pinned_mask(valid, base, rc)
        BY <4>1 DEF pinned_mask, CarriedGprs
      <4> QED BY <4>1, <4>2 DEF Masked, FInv
    <3>2. Ample' BY <2>3 DEF Rosetta, Ample
    <3>3. ~(rem > 0 /\ Bridgeable(code[idx]) /\ Cardinality(free) <= gap_gpr_demand(code[idx]))
      <4>1. Cardinality(free) \in Nat BY PartFinite DEF FInv, TInv, Pool
      <4>2. Bridgeable(code[idx]) => gap_gpr_demand(code[idx]) \in 0..MaxBridgeDemand
        BY DEF Bridgeable
      <4>3. turn = "rosetta" BY <2>3 DEF Rosetta
      <4> QED BY <4>1, <4>2, <4>3 DEF FInv, Ample, MaxBridgeDemand
    <3>4. ~short' BY <2>3, <3>3 DEF Rosetta
    <3> QED BY <2>1, <3>1, <3>2, <3>4 DEF FInv
  <2>4. CASE LeaveBlock
    BY <2>1, <2>4 DEF LeaveBlock, FInv, Masked, Ample, pinned_mask, CarriedGprs
  <2>5. CASE EnterBlock
    <3>1. rem = 0
      <4>1. /\ idx \in Nat \ {0} /\ rem \in Nat /\ turn \in {"ours", "rosetta"}
            /\ Len(code) = 0 /\ (rem > 0 => RunFrom(code, Here, rem))
        BY <2>5, EmptyLen DEF EnterBlock, FInv, TInv, IInv, Shape, Ahead
      <4> QED BY <4>1 DEF RunFrom, Here
    <3> QED BY <2>1, <2>5, <3>1 DEF EnterBlock, FInv, Masked, Ample, pinned_mask, CarriedGprs
  <2>6. CASE UNCHANGED vars
    BY <2>1, <2>6 DEF vars, FInv, Masked, Ample, pinned_mask, CarriedGprs
  <2> QED BY <2>2, <2>3, <2>4, <2>5, <2>6 DEF Next
<1>3. FInv => PoolSuffices BY DEF FInv, PoolSuffices
<1> QED BY <1>1, <1>2, <1>3, PTL DEF Spec
=============================================================================
