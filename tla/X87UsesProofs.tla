-------------------------- MODULE X87UsesProofs --------------------------
(***************************************************************************)
(* The passes of X87IROptimize keep every use alive: what a live node or a *)
(* slot names is alive and has the width it is used in, and an FSTSW names *)
(* a live compare.  A pass kills what its table of use counts says is not  *)
(* used; the table never says less than there is.                          *)
(***************************************************************************)
EXTENDS X87ContextProofs, FiniteSetTheorems
LOCAL INSTANCE SequencesExt
LOCAL INSTANCE FiniteSetsExt

Wants(n) == n.f32 \/ n.op \in WideOps
\* Node id is alive and has the width n takes.
Serves(c, n, id) == Live(c, id) /\ (IF Wants(n) THEN IsF32(Nd(c, id)) ELSE Wide(Nd(c, id)))
Served(c, n) == \A j \in 1..3 : n.op # "FStsw" /\ n.in[j] >= 0 => Serves(c, n, n.in[j])
Uses(c) ==
    /\ \A i \in Ids(c) : Exact(Nd(c, i)) /\ (Live(c, i) => Served(c, Nd(c, i)))
    /\ \A d \in Depth : c.slot[d] >= 0 => Live(c, c.slot[d]) /\ Wide(Nd(c, c.slot[d]))
\* Node f is the compare whose codes the FSTSW n, node k, reads.
Names(c, n, k, f) ==
    \/ f = -1 /\ ~n.fused
    \/ /\ f \in 0..(k - 1) /\ Live(c, f) /\ IsCompare(Nd(c, f))
       /\ n.fused => Nd(c, f).fused
Handed(c) ==
    \A k \in Ids(c) :
        Live(c, k) /\ Nd(c, k).op = "FStsw" => Names(c, Nd(c, k), k, Nd(c, k).in[1])
Sound(c) == Uses(c) /\ Handed(c)

\* How often n uses node id.
Once(x, id) == IF x = id THEN 1 ELSE 0
UsesOf(n, id) ==
    IF n.dead THEN 0 ELSE Once(n.in[1], id) + Once(n.in[2], id) + Once(n.in[3], id)
Covers(c, u) ==
    /\ DOMAIN u = Ids(c)
    /\ \A id \in Ids(c) : u[id] \in Int /\ UseCount(c)[id] <= u[id]

(***************************************************************************)
(* Counting uses.                                                          *)
(***************************************************************************)
\* A set with one more element, if P.
LEMMA AddIf ==
    ASSUME NEW S, IsFiniteSet(S), NEW x, x \notin S, NEW T, NEW P \in BOOLEAN,
           T = S \cup (IF P THEN {x} ELSE {})
    PROVE  IsFiniteSet(T) /\ Cardinality(T) = Cardinality(S) + (IF P THEN 1 ELSE 0)
<1>1. Cardinality(S) \in Nat BY FS_CardinalityType
<1>2. CASE P
  <2>1. T = S \cup {x} BY <1>2
  <2> QED BY <1>1, <1>2, <2>1, FS_AddElement
<1>3. CASE ~P
  <2>1. T = S BY <1>3
  <2> QED BY <1>1, <1>3, <2>1
<1> QED BY <1>2, <1>3

SlotUses(c, id) == {d \in Depth : c.slot[d] = id}
NodeUses(c, id) == {p \in Ids(c) \X (1..3) : ~Nd(c, p[1]).dead /\ Nd(c, p[1]).in[p[2]] = id}
\* The uses by nodes other than i.
Others(c, i, id) == {p \in NodeUses(c, id) : p[1] # i}

\* The uses are finitely many.
LEMMA UsesFinite ==
    ASSUME NEW c, Whole(c), NEW id
    PROVE  /\ IsFiniteSet(SlotUses(c, id)) /\ Cardinality(SlotUses(c, id)) \in Nat
           /\ IsFiniteSet(NodeUses(c, id)) /\ Cardinality(NodeUses(c, id)) \in Nat
<1>1. Len(c.nodes) \in Nat BY LenNat DEF Whole
<1>2. IsFiniteSet(Depth) BY FS_Interval, NAssumption DEF Depth
<1>3. IsFiniteSet(Ids(c)) BY <1>1, FS_Interval DEF Ids
<1>4. IsFiniteSet(1..3)
  <2>1. 1 \in Int /\ 3 \in Int OBVIOUS
  <2> QED BY <2>1, FS_Interval
<1>5. IsFiniteSet(Ids(c) \X (1..3)) BY <1>3, <1>4, FS_Product
<1>6. SlotUses(c, id) \subseteq Depth BY DEF SlotUses
<1>7. NodeUses(c, id) \subseteq Ids(c) \X (1..3) BY DEF NodeUses
<1>8. IsFiniteSet(SlotUses(c, id)) BY <1>2, <1>6, FS_Subset
<1>9. IsFiniteSet(NodeUses(c, id)) BY <1>5, <1>7, FS_Subset
<1> QED BY <1>8, <1>9, FS_CardinalityType

\* UseCount counts them.
LEMMA UseCountIs ==
    ASSUME NEW c, NEW id \in Ids(c)
    PROVE  UseCount(c)[id] = Cardinality(SlotUses(c, id)) + Cardinality(NodeUses(c, id))
BY DEF UseCount, SlotUses, NodeUses

\* Those of node i and those of the others.
LEMMA UsesSplit ==
    ASSUME NEW c, Whole(c), NEW i \in Ids(c), NEW id
    PROVE  /\ IsFiniteSet(Others(c, i, id)) /\ Cardinality(Others(c, i, id)) \in Nat
           /\ Cardinality(NodeUses(c, id)) =
                Cardinality(Others(c, i, id)) + UsesOf(Nd(c, i), id)
<1> DEFINE n == Nd(c, i)
           P(j) == ~n.dead /\ n.in[j] = id
           S == Others(c, i, id)
           S1 == S \cup (IF P(1) THEN {<<i, 1>>} ELSE {})
           S2 == S1 \cup (IF P(2) THEN {<<i, 2>>} ELSE {})
           S3 == S2 \cup (IF P(3) THEN {<<i, 3>>} ELSE {})
<1>1. IsFiniteSet(S) /\ Cardinality(S) \in Nat
  BY UsesFinite, FS_Subset, FS_CardinalityType DEF Others
<1>2. \A j \in 1..3 : <<i, j>> \notin S BY DEF Others
<1>3. n.dead \in BOOLEAN
  <2>1. Len(c.nodes) \in Nat BY LenNat DEF Whole
  <2>2. i + 1 \in 1..Len(c.nodes) BY <2>1 DEF Ids
  <2> QED BY <2>2, FitsAt DEF NodeFits, Nd
<1>4. \A j \in 1..3 : P(j) \in BOOLEAN BY <1>3
<1>5. NodeUses(c, id) = S3
  <2>1. ASSUME NEW p \in NodeUses(c, id) PROVE p \in S3
    <3>1. PICK x \in Ids(c), j \in 1..3 : p = <<x, j>> BY <2>1 DEF NodeUses
    <3>2. ~Nd(c, x).dead /\ Nd(c, x).in[j] = id BY <2>1, <3>1 DEF NodeUses
    <3>3. CASE x # i BY <2>1, <3>1, <3>3 DEF Others
    <3>4. CASE x = i
      <4>1. P(j) BY <3>2, <3>4
      <4>2. j = 1 \/ j = 2 \/ j = 3 OBVIOUS
      <4> QED BY <3>1, <3>4, <4>1, <4>2
    <3> QED BY <3>3, <3>4
  <2>2. ASSUME NEW p \in S3 PROVE p \in NodeUses(c, id)
    <3>1. p \in S \/ \E j \in 1..3 : p = <<i, j>> /\ P(j) BY <2>2
    <3>2. CASE p \in S BY <3>2 DEF Others
    <3>3. CASE \E j \in 1..3 : p = <<i, j>> /\ P(j) BY <3>3 DEF NodeUses
    <3> QED BY <3>1, <3>2, <3>3
  <2> HIDE DEF S3
  <2> QED BY <2>1, <2>2
<1>6. <<i, 1>> \notin S /\ <<i, 2>> \notin S1 /\ <<i, 3>> \notin S2
  <2>1. <<i, 2>> # <<i, 1>> /\ <<i, 3>> # <<i, 1>> /\ <<i, 3>> # <<i, 2>> OBVIOUS
  <2> HIDE DEF S
  <2> QED BY <1>2, <2>1
<1>7. IsFiniteSet(S1) /\ Cardinality(S1) = Cardinality(S) + (IF P(1) THEN 1 ELSE 0)
  <2> HIDE DEF S, P
  <2> QED BY <1>1, <1>4, <1>6, AddIf
<1>8. IsFiniteSet(S2) /\ Cardinality(S2) = Cardinality(S1) + (IF P(2) THEN 1 ELSE 0)
  <2> HIDE DEF S1, P
  <2> QED BY <1>4, <1>6, <1>7, AddIf
<1>9. IsFiniteSet(S3) /\ Cardinality(S3) = Cardinality(S2) + (IF P(3) THEN 1 ELSE 0)
  <2> HIDE DEF S2, P
  <2> QED BY <1>4, <1>6, <1>8, AddIf
<1>10. UsesOf(n, id) = (IF P(1) THEN 1 ELSE 0) + (IF P(2) THEN 1 ELSE 0) + (IF P(3) THEN 1 ELSE 0)
  BY DEF UsesOf, Once
<1> HIDE DEF P, S, S1, S2, S3, n
<1> QED BY <1>1, <1>5, <1>7, <1>8, <1>9, <1>10 DEF S, n

\* The node of an id.
LEMMA AtId ==
    ASSUME NEW c, Whole(c), NEW i \in Ids(c)
    PROVE  /\ Len(c.nodes) \in Nat /\ i \in Int /\ i >= 0 /\ i < Len(c.nodes)
           /\ i + 1 \in 1..Len(c.nodes) /\ (i + 1) - 1 = i
           /\ NodeFits(Nd(c, i), i) /\ Nd(c, i).dead \in BOOLEAN
           /\ Nd(c, i).in \in [1..3 -> Int]
           /\ Nd(c, i).in[1] \in Int /\ Nd(c, i).in[2] \in Int /\ Nd(c, i).in[3] \in Int
<1>1. Len(c.nodes) \in Nat BY LenNat DEF Whole
<1>2. i + 1 \in 1..Len(c.nodes) /\ (i + 1) - 1 = i /\ i \in Int /\ i >= 0 /\ i < Len(c.nodes)
  BY <1>1 DEF Ids
<1>3. NodeFits(Nd(c, i), i) BY <1>2, FitsAt DEF Nd
<1>4. Nd(c, i).in \in [1..3 -> Int] BY <1>3 DEF NodeFits
<1> QED BY <1>1, <1>2, <1>3, <1>4 DEF NodeFits

\* b is c with another node i.
Altered(c, b, i) ==
    /\ Whole(c) /\ Whole(b) /\ Len(b.nodes) = Len(c.nodes) /\ b.slot = c.slot /\ i \in Ids(c)
    /\ \A x \in Ids(c) : x # i => Nd(b, x) = Nd(c, x)

\* A count changes by what the node uses before and after.
LEMMA AlteredCount ==
    ASSUME NEW c, NEW b, NEW i, Altered(c, b, i)
    PROVE  /\ Ids(b) = Ids(c)
           /\ \A id \in Ids(c) :
                /\ UseCount(c)[id] \in Nat /\ UseCount(b)[id] \in Nat
                /\ UsesOf(Nd(c, i), id) \in Nat /\ UsesOf(Nd(b, i), id) \in Nat
                /\ UsesOf(Nd(c, i), id) <= UseCount(c)[id]
                /\ UseCount(b)[id] =
                     (UseCount(c)[id] - UsesOf(Nd(c, i), id)) + UsesOf(Nd(b, i), id)
<1>1. Ids(b) = Ids(c) /\ i \in Ids(c) /\ i \in Ids(b) /\ Whole(c) /\ Whole(b)
  BY DEF Altered, Ids
<1>2. ASSUME NEW id \in Ids(c)
      PROVE  /\ UseCount(c)[id] \in Nat /\ UseCount(b)[id] \in Nat
             /\ UsesOf(Nd(c, i), id) \in Nat /\ UsesOf(Nd(b, i), id) \in Nat
             /\ UsesOf(Nd(c, i), id) <= UseCount(c)[id]
             /\ UseCount(b)[id] =
                  (UseCount(c)[id] - UsesOf(Nd(c, i), id)) + UsesOf(Nd(b, i), id)
  <2>1. SlotUses(b, id) = SlotUses(c, id) BY DEF Altered, SlotUses
  <2>2. Others(b, i, id) = Others(c, i, id) BY <1>1 DEF Altered, Others, NodeUses
  <2>3. /\ UseCount(c)[id] = Cardinality(SlotUses(c, id)) + Cardinality(NodeUses(c, id))
        /\ UseCount(b)[id] = Cardinality(SlotUses(b, id)) + Cardinality(NodeUses(b, id))
    BY <1>1, UseCountIs
  <2>4. /\ Cardinality(SlotUses(c, id)) \in Nat /\ Cardinality(Others(c, i, id)) \in Nat
        /\ Cardinality(NodeUses(c, id)) = Cardinality(Others(c, i, id)) + UsesOf(Nd(c, i), id)
    BY <1>1, UsesFinite, UsesSplit
  <2>5. Cardinality(NodeUses(b, id)) = Cardinality(Others(b, i, id)) + UsesOf(Nd(b, i), id)
    BY <1>1, UsesSplit
  <2>6. UsesOf(Nd(c, i), id) \in Nat /\ UsesOf(Nd(b, i), id) \in Nat BY DEF UsesOf, Once
  <2> QED BY <2>1, <2>2, <2>3, <2>4, <2>5, <2>6
<1> QED BY <1>1, <1>2

\* Counts are natural numbers, and a node counted 0 times is not used.
LEMMA Unused ==
    ASSUME NEW c, Whole(c), NEW id \in Ids(c)
    PROVE  /\ UseCount(c)[id] \in Nat
           /\ UseCount(c)[id] <= 0 =>
                /\ \A d \in Depth : c.slot[d] # id
                /\ \A i \in Ids(c) : Live(c, i) => \A j \in 1..3 : Nd(c, i).in[j] # id
<1>1. UseCount(c)[id] = Cardinality(SlotUses(c, id)) + Cardinality(NodeUses(c, id))
  BY UseCountIs
<1>2. /\ IsFiniteSet(SlotUses(c, id)) /\ Cardinality(SlotUses(c, id)) \in Nat
      /\ IsFiniteSet(NodeUses(c, id)) /\ Cardinality(NodeUses(c, id)) \in Nat
  BY UsesFinite
<1>3. ASSUME UseCount(c)[id] <= 0
      PROVE  /\ \A d \in Depth : c.slot[d] # id
             /\ \A i \in Ids(c) : Live(c, i) => \A j \in 1..3 : Nd(c, i).in[j] # id
  <2>1. Cardinality(SlotUses(c, id)) = 0 /\ Cardinality(NodeUses(c, id)) = 0 BY <1>1, <1>2, <1>3
  <2>2. SlotUses(c, id) = {} BY <1>2, <2>1, FS_EmptySet
  <2>3. NodeUses(c, id) = {} BY <1>2, <2>1, FS_EmptySet
  <2>4. \A d \in Depth : c.slot[d] # id BY <2>2 DEF SlotUses
  <2>5. ASSUME NEW i \in Ids(c), Live(c, i), NEW j \in 1..3 PROVE Nd(c, i).in[j] # id
    <3>1. <<i, j>> \notin NodeUses(c, id) BY <2>3
    <3>2. ~Nd(c, i).dead BY <2>5 DEF Live
    <3> QED BY <3>1, <3>2 DEF NodeUses
  <2> QED BY <2>4, <2>5
<1> QED BY <1>1, <1>2, <1>3

(***************************************************************************)
(* What one change of a context keeps.                                     *)
(***************************************************************************)
\* Marks of a node and what they mean.
LikeNode(n, m) ==
    /\ Wide(n) => Wide(m)
    /\ IsF32(n) => IsF32(m)
    /\ IsCompare(n) => IsCompare(m)
    /\ n.fused => m.fused

\* A node that serves, serves after a node became one like it.
LEMMA ServesStill ==
    ASSUME NEW c, NEW b, NEW i, Altered(c, b, i), LikeNode(Nd(c, i), Nd(b, i)), ~Nd(b, i).dead,
           NEW n, NEW id, Serves(c, n, id)
    PROVE  Serves(b, n, id)
<1>1. Ids(b) = Ids(c) /\ id \in Ids(c) BY DEF Altered, Ids, Serves, Live
<1>2. CASE id = i BY <1>1, <1>2 DEF Serves, Live, LikeNode
<1>3. CASE id # i
  <2>1. Nd(b, id) = Nd(c, id) BY <1>1, <1>3 DEF Altered
  <2> QED BY <1>1, <2>1 DEF Serves, Live
<1> QED BY <1>2, <1>3

\* A live node is rewritten.
LEMMA AlterSound ==
    ASSUME NEW c, NEW b, NEW i, Altered(c, b, i), Sound(c), ~Nd(b, i).dead,
           LikeNode(Nd(c, i), Nd(b, i)), Nd(b, i).op # "FStsw", Exact(Nd(b, i)), Served(c, Nd(b, i))
    PROVE  Sound(b)
<1>1. Ids(b) = Ids(c) /\ i \in Ids(c) BY DEF Altered, Ids
<1>2. ASSUME NEW x \in Ids(b)
      PROVE  Exact(Nd(b, x)) /\ (Live(b, x) => Served(b, Nd(b, x)))
  <2>1. CASE x = i
    <3>1. Served(b, Nd(b, i)) BY ServesStill DEF Served
    <3> QED BY <2>1, <3>1
  <2>2. CASE x # i
    <3>1. Nd(b, x) = Nd(c, x) BY <1>1, <2>2 DEF Altered
    <3>2. Exact(Nd(c, x)) /\ (Live(c, x) => Served(c, Nd(c, x))) BY <1>1 DEF Sound, Uses
    <3>3. Live(b, x) => Live(c, x) BY <1>1, <3>1 DEF Live
    <3>4. Live(b, x) => Served(b, Nd(c, x)) BY <3>2, <3>3, ServesStill DEF Served
    <3> QED BY <3>1, <3>2, <3>4
  <2> QED BY <2>1, <2>2
<1>3. ASSUME NEW d \in Depth, b.slot[d] >= 0
      PROVE  Live(b, b.slot[d]) /\ Wide(Nd(b, b.slot[d]))
  <2> DEFINE id == c.slot[d]
  <2>1. b.slot[d] = id BY DEF Altered
  <2>2. Live(c, id) /\ Wide(Nd(c, id)) BY <1>3, <2>1 DEF Sound, Uses
  <2> HIDE DEF id
  <2>3. CASE id = i BY <1>1, <2>1, <2>2, <2>3 DEF Live, LikeNode
  <2>4. CASE id # i
    <3>1. Nd(b, id) = Nd(c, id) BY <2>2, <2>4 DEF Altered, Live
    <3> QED BY <1>1, <2>1, <2>2, <3>1 DEF Live
  <2> QED BY <2>3, <2>4
<1>4. ASSUME NEW k \in Ids(b), Live(b, k), Nd(b, k).op = "FStsw"
      PROVE  Names(b, Nd(b, k), k, Nd(b, k).in[1])
  <2>1. k # i BY <1>4
  <2>2. Nd(b, k) = Nd(c, k) BY <1>1, <2>1 DEF Altered
  <2> DEFINE f == Nd(c, k).in[1]
  <2>3. Names(c, Nd(c, k), k, f) BY <1>1, <1>4, <2>2 DEF Sound, Handed, Live
  <2> HIDE DEF f
  <2>4. Live(c, f) => Live(b, f) /\ (f # i => Nd(b, f) = Nd(c, f)) BY <1>1 DEF Altered, Live
  <2>5. Names(b, Nd(c, k), k, f)
    <3>1. CASE f = i BY <2>3, <2>4, <3>1 DEF Names, LikeNode
    <3>2. CASE f # i BY <2>3, <2>4, <3>2 DEF Names
    <3> QED BY <3>1, <3>2
  <2> QED BY <2>2, <2>5 DEF f
<1> QED BY <1>2, <1>3, <1>4 DEF Sound, Uses, Handed

\* A node that is not used dies.
LEMMA KillSound ==
    ASSUME NEW c, NEW b, NEW i, Altered(c, b, i), Sound(c), Nd(b, i).dead = TRUE,
           Exact(Nd(b, i)), UseCount(c)[i] <= 0, ~IsCompare(Nd(c, i))
    PROVE  Sound(b)
<1>1. Ids(b) = Ids(c) /\ i \in Ids(c) /\ Whole(c) BY DEF Altered, Ids
<1>2. /\ \A d \in Depth : c.slot[d] # i
      /\ \A x \in Ids(c) : Live(c, x) => \A j \in 1..3 : Nd(c, x).in[j] # i
  BY <1>1, Unused
<1>3. \A x \in Ids(c) : x # i => Nd(b, x) = Nd(c, x) /\ (Live(b, x) <=> Live(c, x))
  BY <1>1 DEF Altered, Live
<1>4. ~Live(b, i) BY DEF Live
<1>5. ASSUME NEW x \in Ids(b)
      PROVE  Exact(Nd(b, x)) /\ (Live(b, x) => Served(b, Nd(b, x)))
  <2>1. CASE x = i BY <1>4, <2>1
  <2>2. CASE x # i
    <3>1. Exact(Nd(c, x)) /\ (Live(c, x) => Served(c, Nd(c, x))) BY <1>1 DEF Sound, Uses
    <3>2. ASSUME Live(c, x), NEW j \in 1..3, Nd(c, x).op # "FStsw", Nd(c, x).in[j] >= 0
          PROVE  Serves(b, Nd(c, x), Nd(c, x).in[j])
      <4> DEFINE id == Nd(c, x).in[j]
      <4>1. Serves(c, Nd(c, x), id) BY <3>1, <3>2 DEF Served
      <4>2. id # i BY <1>1, <1>2, <3>2
      <4> HIDE DEF id
      <4>3. id \in Ids(c) BY <4>1 DEF Serves, Live
      <4>4. Serves(b, Nd(c, x), id) BY <1>3, <4>1, <4>2, <4>3 DEF Serves
      <4> QED BY <4>4 DEF id
    <3>3. Live(c, x) => Served(b, Nd(c, x)) BY <3>2 DEF Served
    <3> QED BY <1>1, <1>3, <2>2, <3>1, <3>3
  <2> QED BY <2>1, <2>2
<1>6. ASSUME NEW d \in Depth, b.slot[d] >= 0
      PROVE  Live(b, b.slot[d]) /\ Wide(Nd(b, b.slot[d]))
  <2> DEFINE id == c.slot[d]
  <2>1. b.slot[d] = id /\ id # i BY <1>2 DEF Altered
  <2>2. Live(c, id) /\ Wide(Nd(c, id)) BY <1>6, <2>1 DEF Sound, Uses
  <2> HIDE DEF id
  <2>3. id \in Ids(c) BY <2>2 DEF Live
  <2> QED BY <1>3, <2>1, <2>2, <2>3
<1>7. ASSUME NEW k \in Ids(b), Live(b, k), Nd(b, k).op = "FStsw"
      PROVE  Names(b, Nd(b, k), k, Nd(b, k).in[1])
  <2>1. k # i BY <1>4, <1>7
  <2>2. Nd(b, k) = Nd(c, k) /\ Live(c, k) BY <1>1, <1>3, <1>7, <2>1
  <2> DEFINE f == Nd(c, k).in[1]
  <2>3. Names(c, Nd(c, k), k, f) BY <1>1, <1>7, <2>2 DEF Sound, Handed
  <2> HIDE DEF f
  <2>4. Live(c, f) /\ f # i => Live(b, f) /\ Nd(b, f) = Nd(c, f) BY <1>3 DEF Live
  <2>5. Names(b, Nd(c, k), k, f) BY <2>3, <2>4 DEF Names
  <2> QED BY <2>2, <2>5 DEF f
<1> QED BY <1>5, <1>6, <1>7 DEF Sound, Uses, Handed

(***************************************************************************)
(* The changes the passes are made of.                                     *)
(***************************************************************************)
\* One node of a context is put in place of another.
LEMMA PutNode ==
    ASSUME NEW c, Whole(c), NEW i \in Ids(c), NEW b, Refit(c, b), NEW m,
           b.slot = c.slot, b.nodes = [c.nodes EXCEPT ![i + 1] = m]
    PROVE  Altered(c, b, i) /\ Nd(b, i) = m
<1>1. Len(c.nodes) \in Nat /\ DOMAIN c.nodes = 1..Len(c.nodes) BY RowFacts DEF Whole, Nodes
<1>2. i + 1 \in 1..Len(c.nodes) BY AtId
<1>3. Nd(b, i) = m BY <1>1, <1>2 DEF Nd
<1>4. ASSUME NEW x \in Ids(c), x # i PROVE Nd(b, x) = Nd(c, x)
  <2>1. x + 1 \in 1..Len(c.nodes) /\ x \in Int /\ i \in Int BY AtId
  <2>2. x + 1 # i + 1 BY <1>4, <2>1
  <2> QED BY <1>1, <2>1, <2>2 DEF Nd
<1> QED BY <1>3, <1>4 DEF Altered, Refit

\* A mark is set, and nothing else of the node changes.
Marked(n, m, dead, f32) ==
    m.op = n.op /\ m.in = n.in /\ m.dead = dead /\ m.f32 = f32 /\ m.fused = n.fused
\* Killing a node.
LEMMA KillIs ==
    ASSUME NEW c, Whole(c), NEW i \in Ids(c)
    PROVE  /\ Altered(c, Kill(c, i), i) /\ Refit(c, Kill(c, i))
           /\ Marked(Nd(c, i), Nd(Kill(c, i), i), TRUE, Nd(c, i).f32)
<1> DEFINE b == Kill(c, i)
           m == [c.nodes[i + 1] EXCEPT !.dead = TRUE]
<1>1. b.slot = c.slot /\ b.nodes = [c.nodes EXCEPT ![i + 1] = m]
  BY DEF Whole, CtxFields, Kill
<1>2. Marked(Nd(c, i), m, TRUE, Nd(c, i).f32)
  <2>1. NodeFits(Nd(c, i), i) BY AtId
  <2> QED BY <2>1 DEF NodeFits, NodeFields, Marked, Nd
<1>3. Refit(c, b) BY KillRefit
<1> HIDE DEF b, m
<1>4. Altered(c, b, i) /\ Nd(b, i) = m BY <1>1, <1>3, PutNode
<1> QED BY <1>2, <1>3, <1>4 DEF b

\* Rewriting a node.
LEMMA RewriteIs ==
    ASSUME NEW c, Whole(c), NEW i \in Ids(c), NEW op, NEW in, Shape(op, in, i)
    PROVE  LET b == Rewrite(c, i, op, in)
               m == Nd(b, i)
           IN  /\ Altered(c, b, i) /\ Refit(c, b)
               /\ m.op = op /\ m.in = in /\ m.dead = Nd(c, i).dead /\ m.f32 = Nd(c, i).f32
               /\ m.fused = Nd(c, i).fused
<1> DEFINE b == Rewrite(c, i, op, in)
           m == [c.nodes[i + 1] EXCEPT !.op = op, !.in = in]
<1>0. Len(c.nodes) \in Nat /\ DOMAIN c.nodes = 1..Len(c.nodes) BY RowFacts DEF Whole, Nodes
<1>1. i + 1 \in 1..Len(c.nodes) BY AtId
<1>2. b.slot = c.slot BY DEF Whole, CtxFields, Rewrite
<1>3. b.nodes = [[c.nodes EXCEPT ![i + 1].op = op] EXCEPT ![i + 1].in = in]
  BY DEF Whole, CtxFields, Rewrite
<1>4. b.nodes = [c.nodes EXCEPT ![i + 1] = m] BY <1>0, <1>1, <1>3
<1>5. /\ m.op = op /\ m.in = in /\ m.dead = Nd(c, i).dead /\ m.f32 = Nd(c, i).f32
      /\ m.fused = Nd(c, i).fused
  <2>1. NodeFits(Nd(c, i), i) BY AtId
  <2> QED BY <2>1 DEF NodeFits, NodeFields, Nd
<1>6. Refit(c, b) BY RewriteRefit
<1> HIDE DEF b, m
<1>7. Altered(c, b, i) /\ Nd(b, i) = m BY <1>2, <1>4, <1>6, PutNode
<1> QED BY <1>5, <1>6, <1>7 DEF b

\* Setting the width, or the constant, of a node.
LEMMA FlagIs ==
    ASSUME NEW c, Whole(c), NEW i \in Ids(c), NEW y
    PROVE  LET b == [c EXCEPT !.nodes[i + 1].f32 = TRUE]
               a == [c EXCEPT !.nodes[i + 1].v = y]
           IN  /\ Altered(c, b, i) /\ Refit(c, b)
               /\ Marked(Nd(c, i), Nd(b, i), Nd(c, i).dead, TRUE)
               /\ Altered(c, a, i) /\ Refit(c, a)
               /\ Marked(Nd(c, i), Nd(a, i), Nd(c, i).dead, Nd(c, i).f32)
<1> DEFINE b == [c EXCEPT !.nodes[i + 1].f32 = TRUE]
           a == [c EXCEPT !.nodes[i + 1].v = y]
           m == [c.nodes[i + 1] EXCEPT !.f32 = TRUE]
           k == [c.nodes[i + 1] EXCEPT !.v = y]
<1>1. b.slot = c.slot /\ b.nodes = [c.nodes EXCEPT ![i + 1] = m] BY DEF Whole, CtxFields
<1>2. a.slot = c.slot /\ a.nodes = [c.nodes EXCEPT ![i + 1] = k] BY DEF Whole, CtxFields
<1>3. NodeFits(Nd(c, i), i) BY AtId
<1>4. Marked(Nd(c, i), m, Nd(c, i).dead, TRUE) BY <1>3 DEF NodeFits, NodeFields, Marked, Nd
<1>5. Marked(Nd(c, i), k, Nd(c, i).dead, Nd(c, i).f32)
  BY <1>3 DEF NodeFits, NodeFields, Marked, Nd
<1>6. Refit(c, b) /\ Refit(c, a) BY FlagRefit
<1> HIDE DEF a, b, m, k
<1>7. Altered(c, b, i) /\ Nd(b, i) = m BY <1>1, <1>6, PutNode
<1>8. Altered(c, a, i) /\ Nd(a, i) = k BY <1>2, <1>6, PutNode
<1> QED BY <1>4, <1>5, <1>6, <1>7, <1>8 DEF a, b

\* b is c with every use of i, by nodes, and by slots if they are moved, a use
\* of keep.
Replaced(c, b, i, keep) ==
    /\ Whole(c) /\ Whole(b) /\ Len(b.nodes) = Len(c.nodes)
    /\ \A x \in Ids(c) :
         /\ Nd(b, x).op = Nd(c, x).op /\ Nd(b, x).dead = Nd(c, x).dead
         /\ Nd(b, x).f32 = Nd(c, x).f32 /\ Nd(b, x).fused = Nd(c, x).fused
         /\ \A j \in 1..3 : Nd(b, x).in[j] =
              IF ~Nd(c, x).dead /\ Nd(c, x).in[j] = i THEN keep ELSE Nd(c, x).in[j]

Moved(c, b, i, keep) ==
    \A d \in Depth : b.slot[d] = IF c.slot[d] = i THEN keep ELSE c.slot[d]
ReplaceInputs(c, i, keep) == [Replace(c, i, keep) EXCEPT !.slot = c.slot]

\* Replace does so.
LEMMA ReplaceIs ==
    ASSUME NEW c, Whole(c), NEW i, i \in Ids(c), NEW keep, keep \in 0..(i - 1)
    PROVE  /\ Replaced(c, Replace(c, i, keep), i, keep) /\ Refit(c, Replace(c, i, keep))
           /\ Moved(c, Replace(c, i, keep), i, keep)
           /\ Replaced(c, ReplaceInputs(c, i, keep), i, keep)
           /\ Refit(c, ReplaceInputs(c, i, keep)) /\ ReplaceInputs(c, i, keep).slot = c.slot
<1> DEFINE b == Replace(c, i, keep)
           a == [b EXCEPT !.slot = c.slot]
           m(x) == [c.nodes[x] EXCEPT !.in = [j \in 1..3 |-> IF @[j] = i THEN keep ELSE @[j]]]
           f == [x \in DOMAIN c.nodes |-> IF c.nodes[x].dead THEN c.nodes[x] ELSE m(x)]
           t == [d \in Depth |-> IF c.slot[d] = i THEN keep ELSE c.slot[d]]
<1>0. Len(c.nodes) \in Nat /\ DOMAIN c.nodes = 1..Len(c.nodes) BY RowFacts DEF Whole, Nodes
<1>1. b.nodes = f /\ b.slot = t /\ a.nodes = f /\ a.slot = c.slot
  BY DEF Whole, CtxFields, Replace
<1>2. Refit(c, b) /\ Refit(c, a) BY ReplaceRefit
<1>9. a = ReplaceInputs(c, i, keep) BY DEF ReplaceInputs
<1>3. \A d \in Depth : t[d] = IF c.slot[d] = i THEN keep ELSE c.slot[d] OBVIOUS
<1>4. ASSUME NEW x \in Ids(c)
      PROVE  /\ f[x + 1].op = Nd(c, x).op /\ f[x + 1].dead = Nd(c, x).dead
             /\ f[x + 1].f32 = Nd(c, x).f32 /\ f[x + 1].fused = Nd(c, x).fused
             /\ \A j \in 1..3 : f[x + 1].in[j] =
                  IF ~Nd(c, x).dead /\ Nd(c, x).in[j] = i THEN keep ELSE Nd(c, x).in[j]
  <2>1. x + 1 \in 1..Len(c.nodes) /\ NodeFits(Nd(c, x), x) BY AtId
  <2>2. f[x + 1] = IF c.nodes[x + 1].dead THEN c.nodes[x + 1] ELSE m(x + 1) BY <1>0, <2>1
  <2>3. DOMAIN Nd(c, x) = NodeFields BY <2>1 DEF NodeFits
  <2>4. CASE Nd(c, x).dead
    <3>1. f[x + 1] = Nd(c, x) BY <2>2, <2>4 DEF Nd
    <3> HIDE DEF f, m
    <3> QED BY <2>4, <3>1
  <2>5. CASE ~Nd(c, x).dead
    <3>1. f[x + 1] = m(x + 1) BY <2>2, <2>5 DEF Nd
    <3>2. /\ m(x + 1).op = Nd(c, x).op /\ m(x + 1).dead = Nd(c, x).dead
          /\ m(x + 1).f32 = Nd(c, x).f32 /\ m(x + 1).fused = Nd(c, x).fused
      BY <2>3 DEF Nd, NodeFields
    <3>3. m(x + 1).in = [j \in 1..3 |-> IF Nd(c, x).in[j] = i THEN keep ELSE Nd(c, x).in[j]]
      BY <2>3 DEF Nd, NodeFields
    <3> HIDE DEF f, m
    <3> QED BY <2>5, <3>1, <3>2, <3>3
  <2> QED BY <2>4, <2>5
<1>5. \A x \in Ids(c) : Nd(b, x) = f[x + 1] /\ Nd(a, x) = f[x + 1]
  <2> HIDE DEF a, b, f
  <2> QED BY <1>1 DEF Nd
<1> HIDE DEF a, b, f, t, m
<1>6. Replaced(c, b, i, keep) BY <1>2, <1>4, <1>5 DEF Replaced, Refit
<1>7. Replaced(c, a, i, keep) BY <1>2, <1>4, <1>5 DEF Replaced, Refit
<1>8. Moved(c, b, i, keep) BY <1>1, <1>3 DEF Moved
<1> QED BY <1>1, <1>2, <1>6, <1>7, <1>8, <1>9 DEF b

\* Two sets without a common element, put together.
LEMMA Apart ==
    ASSUME NEW S, IsFiniteSet(S), NEW T, IsFiniteSet(T), S \cap T = {}
    PROVE  Cardinality(S \cup T) = Cardinality(S) + Cardinality(T)
<1>1. Cardinality(S \cup T) = Cardinality(S) + Cardinality(T) - Cardinality(S \cap T)
  BY FS_Union
<1>2. Cardinality(S \cap T) = 0 BY FS_EmptySet
<1>3. Cardinality(S) \in Nat /\ Cardinality(T) \in Nat BY FS_CardinalityType
<1> QED BY <1>1, <1>2, <1>3

\* The uses of i become uses of keep.
LEMMA ReplaceCount ==
    ASSUME NEW c, NEW b, NEW i \in Ids(c), NEW keep \in Ids(c), keep # i,
           Replaced(c, b, i, keep), Moved(c, b, i, keep)
    PROVE  /\ Ids(b) = Ids(c)
           /\ \A id \in Ids(c) : UseCount(c)[id] \in Nat /\ UseCount(b)[id] \in Nat
           /\ UseCount(b)[i] = 0
           /\ UseCount(b)[keep] = UseCount(c)[keep] + UseCount(c)[i]
           /\ \A id \in Ids(c) : id # i /\ id # keep => UseCount(b)[id] = UseCount(c)[id]
<1>1. Whole(c) /\ Whole(b) /\ Ids(b) = Ids(c) BY DEF Replaced, Ids
<1>2. ASSUME NEW x \in Ids(c), NEW j \in 1..3, NEW id
      PROVE  <<x, j>> \in NodeUses(b, id) <=>
                ~Nd(c, x).dead /\ id = IF Nd(c, x).in[j] = i THEN keep ELSE Nd(c, x).in[j]
  <2>1. Nd(b, x).dead = Nd(c, x).dead BY DEF Replaced
  <2>2. Nd(b, x).in[j] = IF ~Nd(c, x).dead /\ Nd(c, x).in[j] = i THEN keep ELSE Nd(c, x).in[j]
    BY DEF Replaced
  <2>3. <<x, j>> \in NodeUses(b, id) <=> ~Nd(b, x).dead /\ Nd(b, x).in[j] = id
    BY <1>1 DEF NodeUses
  <2> QED BY <2>1, <2>2, <2>3
<1>3. ASSUME NEW x \in Ids(c), NEW j \in 1..3, NEW id
      PROVE  <<x, j>> \in NodeUses(c, id) <=> ~Nd(c, x).dead /\ Nd(c, x).in[j] = id
  BY DEF NodeUses
<1>4. \A id : NodeUses(b, id) \subseteq Ids(c) \X (1..3) /\ NodeUses(c, id) \subseteq Ids(c) \X (1..3)
  BY <1>1 DEF NodeUses
<1>5. NodeUses(b, i) = {} /\ SlotUses(b, i) = {}
  <2>1. ASSUME NEW p \in NodeUses(b, i) PROVE FALSE
    <3>1. PICK x \in Ids(c), j \in 1..3 : p = <<x, j>> BY <1>4, <2>1
    <3> QED BY <1>2, <2>1, <3>1
  <2>2. SlotUses(b, i) = {} BY DEF SlotUses, Moved
  <2> QED BY <2>1, <2>2
<1>6. /\ NodeUses(b, keep) = NodeUses(c, keep) \cup NodeUses(c, i)
      /\ NodeUses(c, keep) \cap NodeUses(c, i) = {}
  <2>1. ASSUME NEW p \in NodeUses(b, keep) PROVE p \in NodeUses(c, keep) \cup NodeUses(c, i)
    <3>1. PICK x \in Ids(c), j \in 1..3 : p = <<x, j>> BY <1>4, <2>1
    <3>2. ~Nd(c, x).dead /\ keep = IF Nd(c, x).in[j] = i THEN keep ELSE Nd(c, x).in[j]
      BY <1>2, <2>1, <3>1
    <3>3. <<x, j>> \in NodeUses(c, keep) \/ <<x, j>> \in NodeUses(c, i) BY <1>3, <3>2
    <3> QED BY <3>1, <3>3
  <2>2. ASSUME NEW p \in NodeUses(c, keep) \cup NodeUses(c, i)
        PROVE  p \in NodeUses(b, keep) /\ ~(p \in NodeUses(c, keep) /\ p \in NodeUses(c, i))
    <3>1. PICK x \in Ids(c), j \in 1..3 : p = <<x, j>> BY <1>4, <2>2
    <3>2. ~Nd(c, x).dead /\ (Nd(c, x).in[j] = keep \/ Nd(c, x).in[j] = i) BY <1>3, <2>2, <3>1
    <3>3. keep = IF Nd(c, x).in[j] = i THEN keep ELSE Nd(c, x).in[j] BY <3>2
    <3>4. <<x, j>> \in NodeUses(b, keep) BY <1>2, <3>2, <3>3
    <3>5. <<x, j>> \in NodeUses(c, keep) => Nd(c, x).in[j] = keep BY <1>3
    <3>6. <<x, j>> \in NodeUses(c, i) => Nd(c, x).in[j] = i BY <1>3
    <3> QED BY <3>1, <3>4, <3>5, <3>6
  <2> QED BY <2>1, <2>2
<1>7. /\ SlotUses(b, keep) = SlotUses(c, keep) \cup SlotUses(c, i)
      /\ SlotUses(c, keep) \cap SlotUses(c, i) = {}
  BY DEF SlotUses, Moved
<1>8. ASSUME NEW id \in Ids(c), id # i, id # keep
      PROVE  NodeUses(b, id) = NodeUses(c, id) /\ SlotUses(b, id) = SlotUses(c, id)
  <2>1. ASSUME NEW p \in NodeUses(b, id) PROVE p \in NodeUses(c, id)
    <3>1. PICK x \in Ids(c), j \in 1..3 : p = <<x, j>> BY <1>4, <2>1
    <3>2. ~Nd(c, x).dead /\ id = IF Nd(c, x).in[j] = i THEN keep ELSE Nd(c, x).in[j]
      BY <1>2, <2>1, <3>1
    <3>3. Nd(c, x).in[j] = id BY <1>8, <3>2
    <3>4. <<x, j>> \in NodeUses(c, id) BY <1>3, <3>2, <3>3
    <3> QED BY <3>1, <3>4
  <2>2. ASSUME NEW p \in NodeUses(c, id) PROVE p \in NodeUses(b, id)
    <3>1. PICK x \in Ids(c), j \in 1..3 : p = <<x, j>> BY <1>4, <2>2
    <3>2. ~Nd(c, x).dead /\ Nd(c, x).in[j] = id BY <1>3, <2>2, <3>1
    <3>3. id = IF Nd(c, x).in[j] = i THEN keep ELSE Nd(c, x).in[j] BY <1>8, <3>2
    <3>4. <<x, j>> \in NodeUses(b, id) BY <1>2, <3>2, <3>3
    <3> QED BY <3>1, <3>4
  <2>3. SlotUses(b, id) = SlotUses(c, id) BY <1>8 DEF SlotUses, Moved
  <2> QED BY <2>1, <2>2, <2>3
<1>9. \A id \in Ids(c) :
        /\ UseCount(c)[id] = Cardinality(SlotUses(c, id)) + Cardinality(NodeUses(c, id))
        /\ UseCount(b)[id] = Cardinality(SlotUses(b, id)) + Cardinality(NodeUses(b, id))
        /\ UseCount(c)[id] \in Nat /\ UseCount(b)[id] \in Nat
  BY <1>1, UseCountIs, Unused
<1>10. UseCount(b)[i] = 0
  <2>1. Cardinality({}) = 0 BY FS_EmptySet
  <2> QED BY <1>5, <1>9, <2>1
<1>11. UseCount(b)[keep] = UseCount(c)[keep] + UseCount(c)[i]
  <2>1. /\ IsFiniteSet(SlotUses(c, keep)) /\ Cardinality(SlotUses(c, keep)) \in Nat
        /\ IsFiniteSet(NodeUses(c, keep)) /\ Cardinality(NodeUses(c, keep)) \in Nat
        /\ IsFiniteSet(SlotUses(c, i)) /\ Cardinality(SlotUses(c, i)) \in Nat
        /\ IsFiniteSet(NodeUses(c, i)) /\ Cardinality(NodeUses(c, i)) \in Nat
    BY <1>1, UsesFinite
  <2>2. Cardinality(SlotUses(b, keep)) = Cardinality(SlotUses(c, keep)) + Cardinality(SlotUses(c, i))
    BY <1>7, <2>1, Apart
  <2>3. Cardinality(NodeUses(b, keep)) = Cardinality(NodeUses(c, keep)) + Cardinality(NodeUses(c, i))
    BY <1>6, <2>1, Apart
  <2> QED BY <1>9, <2>1, <2>2, <2>3
<1>12. \A id \in Ids(c) : id # i /\ id # keep => UseCount(b)[id] = UseCount(c)[id]
  BY <1>8, <1>9
<1> QED BY <1>1, <1>9, <1>10, <1>11, <1>12

\* What i served, keep serves.
LEMMA ReplaceSound ==
    ASSUME NEW c, NEW b, NEW i \in Ids(c), NEW keep \in Ids(c), Replaced(c, b, i, keep),
           Moved(c, b, i, keep), Sound(c), Live(c, keep), keep < i,
           Wide(Nd(c, i)) => Wide(Nd(c, keep)), IsF32(Nd(c, i)) => IsF32(Nd(c, keep)),
           ~IsCompare(Nd(c, i))
    PROVE  Sound(b)
<1>1. Ids(b) = Ids(c) /\ Whole(c) /\ Whole(b) BY DEF Replaced, Ids
<1>2. ASSUME NEW x \in Ids(c)
      PROVE  /\ Nd(b, x).op = Nd(c, x).op /\ Nd(b, x).dead = Nd(c, x).dead
             /\ Nd(b, x).f32 = Nd(c, x).f32 /\ Nd(b, x).fused = Nd(c, x).fused
             /\ (Live(b, x) <=> Live(c, x)) /\ (Wide(Nd(b, x)) <=> Wide(Nd(c, x)))
             /\ (IsF32(Nd(b, x)) <=> IsF32(Nd(c, x)))
             /\ (IsCompare(Nd(b, x)) <=> IsCompare(Nd(c, x)))
             /\ (Wants(Nd(b, x)) <=> Wants(Nd(c, x)))
  BY <1>1 DEF Replaced, Live, Wide, IsF32, IsCompare, Wants
<1>3. keep \in Int /\ i \in Int /\ keep >= 0 BY <1>1, AtId
<1>4. ASSUME NEW x \in Ids(b)
      PROVE  Exact(Nd(b, x)) /\ (Live(b, x) => Served(b, Nd(b, x)))
  <2> DEFINE n == Nd(c, x)
             m == Nd(b, x)
  <2>1. Exact(n) /\ (Live(c, x) => Served(c, n)) BY <1>1 DEF Sound, Uses
  <2>2. /\ m.op = n.op /\ m.f32 = n.f32 /\ (Live(b, x) <=> Live(c, x)) /\ (Wants(m) <=> Wants(n))
    BY <1>1, <1>2
  <2>3. \A j \in 1..3 : m.in[j] = IF ~n.dead /\ n.in[j] = i THEN keep ELSE n.in[j]
    BY <1>1 DEF Replaced
  <2> HIDE DEF n, m
  <2>4. \A j \in 1..3 : n.in[j] = -1 => m.in[j] = -1 BY <1>3, <2>3
  <2>5. 1 \in 1..3 /\ 2 \in 1..3 /\ 3 \in 1..3 OBVIOUS
  <2>6. Exact(m) BY <2>1, <2>2, <2>4, <2>5 DEF Exact
  <2>7. ASSUME Live(c, x), NEW j \in 1..3, m.op # "FStsw", m.in[j] >= 0
        PROVE  Serves(b, m, m.in[j])
    <3> DEFINE id == n.in[j]
    <3>1. id >= 0 BY <1>3, <2>3, <2>7
    <3>2. Serves(c, n, id) BY <2>1, <2>2, <2>7, <3>1 DEF Served
    <3>3. m.in[j] = IF ~n.dead /\ id = i THEN keep ELSE id BY <2>3
    <3> HIDE DEF id
    <3>4. Live(c, id) /\ id \in Ids(c) BY <3>2 DEF Serves, Live
    <3>5. CASE m.in[j] = id
      BY <1>2, <2>2, <3>2, <3>4, <3>5 DEF Serves
    <3>6. CASE id = i /\ m.in[j] = keep
      <4>1. Serves(c, n, keep) BY <3>2, <3>6 DEF Serves
      <4> QED BY <1>2, <2>2, <3>6, <4>1 DEF Serves
    <3> QED BY <3>3, <3>5, <3>6
  <2> QED BY <2>2, <2>6, <2>7 DEF Served, m
<1>5. ASSUME NEW d \in Depth, b.slot[d] >= 0
      PROVE  Live(b, b.slot[d]) /\ Wide(Nd(b, b.slot[d]))
  <2> DEFINE id == c.slot[d]
  <2>1. b.slot[d] = IF id = i THEN keep ELSE id BY DEF Moved
  <2>2. id >= 0 => Live(c, id) /\ Wide(Nd(c, id)) BY DEF Sound, Uses
  <2> HIDE DEF id
  <2>3. CASE id = i
    <3>1. Wide(Nd(c, keep)) BY <1>3, <2>2, <2>3, AtId, <1>1
    <3> QED BY <1>2, <2>1, <2>3, <3>1
  <2>4. CASE id # i
    <3>1. Live(c, id) /\ Wide(Nd(c, id)) /\ id \in Ids(c) BY <1>5, <2>1, <2>2, <2>4 DEF Live
    <3> QED BY <1>2, <2>1, <2>4, <3>1
  <2> QED BY <2>3, <2>4
<1>6. ASSUME NEW k \in Ids(b), Live(b, k), Nd(b, k).op = "FStsw"
      PROVE  Names(b, Nd(b, k), k, Nd(b, k).in[1])
  <2> DEFINE f == Nd(c, k).in[1]
  <2>1. Names(c, Nd(c, k), k, f) BY <1>1, <1>2, <1>6 DEF Sound, Handed
  <2>2. f # i BY <1>3, <2>1 DEF Names
  <2>3. Nd(b, k).in[1] = f
    <3>1. 1 \in 1..3 OBVIOUS
    <3> QED BY <1>1, <2>2, <3>1 DEF Replaced
  <2>4. Nd(b, k).fused = Nd(c, k).fused BY <1>1, <1>2
  <2> HIDE DEF f
  <2>5. Live(c, f) => f \in Ids(c) BY DEF Live
  <2> QED BY <1>2, <2>1, <2>3, <2>4, <2>5 DEF Names
<1> QED BY <1>4, <1>5, <1>6 DEF Sound, Uses, Handed

(***************************************************************************)
(* The steps of the passes: the table of counts stays no less than what    *)
(* there is.                                                               *)
(***************************************************************************)
Tidy(s) == DOMAIN s = {"c", "u"} /\ Whole(s.c) /\ Sound(s.c) /\ Covers(s.c, s.u)

\* One count changes.
LEMMA BumpIs ==
    ASSUME NEW u, NEW id, NEW n \in Int, \A x \in DOMAIN u : u[x] \in Int
    PROVE  /\ DOMAIN Bump(u, id, n) = DOMAIN u
           /\ \A x \in DOMAIN u : /\ Bump(u, id, n)[x] = IF x = id THEN u[x] + n ELSE u[x]
                                  /\ Bump(u, id, n)[x] \in Int
BY DEF Bump

\* Which values a compare can be, or a dead node.
LEMMA ValueKinds ==
    /\ \A n : IsCompare(n) => ~Wide(n) /\ (n.f32 = FALSE => ~IsF32(n)) /\ n.op \notin Values
    /\ \A n : Exact(n) /\ IsCompare(n) => ~IsF32(n)
    /\ "FStsw" \notin Values /\ "FStsw" \notin Doubles /\ "FStsw" \notin Singular
<1>1. \A op \in {"FCmp", "FTst", "FStsw"} :
        op \notin Producers /\ op \notin Values /\ op \notin Singular /\ op \notin Narrows \cup {"ConstZero"}
  BY DEF Producers, Pure, FpLoads, IntLoads, Values, Singular, Ternary, Narrows
<1>2. ASSUME NEW n, IsCompare(n) PROVE n.op \in {"FCmp", "FTst"} BY <1>2 DEF IsCompare
<1>3. ASSUME NEW n, IsCompare(n) PROVE ~Wide(n) /\ n.op \notin Values
  BY <1>1, <1>2, <1>3 DEF Wide, Doubles
<1>4. ASSUME NEW n, IsCompare(n), n.f32 = FALSE PROVE ~IsF32(n)
  BY <1>1, <1>2, <1>4 DEF IsF32, Narrows
<1>5. ASSUME NEW n, IsCompare(n), Exact(n) PROVE ~IsF32(n)
  BY <1>1, <1>2, <1>5 DEF IsF32, Narrows, Exact
<1> QED BY <1>1, <1>3, <1>4, <1>5 DEF Doubles

\* A node that is not used is killed.
LEMMA KillStep ==
    ASSUME NEW c, Whole(c), Sound(c), NEW u, Covers(c, u), NEW i \in Ids(c),
           UseCount(c)[i] <= 0, ~IsCompare(Nd(c, i))
    PROVE  LET b == Kill(c, i)
           IN  /\ Refit(c, b) /\ Sound(b) /\ Covers(b, u) /\ Ids(b) = Ids(c)
               /\ \A id \in Ids(c) :
                    ~Nd(c, i).dead =>
                        UseCount(b)[id] = UseCount(c)[id] -
                          (Once(Nd(c, i).in[1], id) + Once(Nd(c, i).in[2], id)
                             + Once(Nd(c, i).in[3], id))
<1> DEFINE b == Kill(c, i)
           n == Nd(c, i)
           m == Nd(b, i)
<1>1. Altered(c, b, i) /\ Refit(c, b) /\ Marked(n, m, TRUE, n.f32) BY KillIs
<1>2. Exact(n) BY DEF Sound, Uses
<1> HIDE DEF b
<1>3. m.dead = TRUE /\ Exact(m) BY <1>1, <1>2 DEF Marked, Exact
<1>4. Sound(b) BY <1>1, <1>3, KillSound
<1>5. ASSUME NEW id \in Ids(c)
      PROVE  /\ UseCount(b)[id] = UseCount(c)[id] - UsesOf(n, id)
             /\ UsesOf(n, id) \in Nat /\ UseCount(c)[id] \in Nat
  <2>1. UsesOf(m, id) = 0 BY <1>3 DEF UsesOf
  <2>2. /\ UseCount(c)[id] \in Nat /\ UsesOf(n, id) \in Nat
        /\ UseCount(b)[id] = (UseCount(c)[id] - UsesOf(n, id)) + UsesOf(m, id)
    BY <1>1, AlteredCount
  <2> QED BY <2>1, <2>2
<1>6. Ids(b) = Ids(c) BY <1>1, AlteredCount
<1>7. Covers(b, u) BY <1>5, <1>6 DEF Covers
<1>8. ASSUME NEW id \in Ids(c), ~n.dead
      PROVE  UsesOf(n, id) = Once(n.in[1], id) + Once(n.in[2], id) + Once(n.in[3], id)
  BY <1>8 DEF UsesOf
<1> HIDE DEF n
<1> QED BY <1>1, <1>4, <1>5, <1>6, <1>7, <1>8 DEF b, n

\* One use fewer, and the node dies with its last.
LEMMA DropUseStep ==
    ASSUME NEW s, Whole(s.c), Sound(s.c), DOMAIN s.u = Ids(s.c), NEW id \in Ids(s.c),
           \A x \in Ids(s.c) : /\ s.u[x] \in Int
                               /\ UseCount(s.c)[x] <= IF x = id THEN s.u[x] - 1 ELSE s.u[x],
           ~IsCompare(Nd(s.c, id))
    PROVE  /\ Tidy(DropUse(s, id)) /\ Refit(s.c, DropUse(s, id).c)
           /\ \A x \in Ids(s.c) : DropUse(s, id).u[x] = IF x = id THEN s.u[x] - 1 ELSE s.u[x]
           /\ \A x \in Ids(s.c) : UseCount(DropUse(s, id).c)[x] <= UseCount(s.c)[x]
<1> DEFINE u == Bump(s.u, id, -1)
           b == IF u[id] = 0 THEN Kill(s.c, id) ELSE s.c
<1>1. DropUse(s, id) = [c |-> b, u |-> u] BY DEF DropUse
<1>2. -1 \in Int /\ \A x \in Ids(s.c) : s.u[x] + -1 = s.u[x] - 1 OBVIOUS
<1>3. DOMAIN u = Ids(s.c) /\ \A x \in Ids(s.c) : /\ u[x] = IF x = id THEN s.u[x] - 1 ELSE s.u[x]
                                                 /\ u[x] \in Int
  BY <1>2, BumpIs
<1> HIDE DEF u
<1>4. Covers(s.c, u) BY <1>3 DEF Covers
<1>5. Refit(s.c, b) /\ Sound(b) /\ Covers(b, u) /\ \A x \in Ids(s.c) : UseCount(b)[x] <= UseCount(s.c)[x]
  <2>1. CASE u[id] = 0
    <3>1. UseCount(s.c)[id] <= 0 BY <1>3, <2>1
    <3>2. b = Kill(s.c, id) BY <2>1
    <3>3. Refit(s.c, b) /\ Sound(b) /\ Covers(b, u) BY <1>4, <3>1, <3>2, KillStep
    <3>4. Altered(s.c, b, id) /\ Nd(b, id).dead = TRUE BY <3>2, KillIs DEF Marked
    <3>5. ASSUME NEW x \in Ids(s.c) PROVE UseCount(b)[x] <= UseCount(s.c)[x]
      <4>1. UsesOf(Nd(b, id), x) = 0 BY <3>4 DEF UsesOf
      <4>2. /\ UseCount(s.c)[x] \in Nat /\ UsesOf(Nd(s.c, id), x) \in Nat
            /\ UseCount(b)[x] = (UseCount(s.c)[x] - UsesOf(Nd(s.c, id), x)) + UsesOf(Nd(b, id), x)
        BY <3>4, AlteredCount
      <4> QED BY <4>1, <4>2
    <3> QED BY <3>3, <3>5
  <2>2. CASE u[id] # 0
    <3>1. \A x \in Ids(s.c) : UseCount(s.c)[x] \in Nat BY Unused
    <3> QED BY <1>4, <2>2, <3>1, RefitSelf
  <2> QED BY <2>1, <2>2
<1> HIDE DEF b
<1> QED BY <1>1, <1>3, <1>5 DEF Tidy, Refit

\* A node that is folded to one of its inputs; the other is a constant.
LEMMA FoldToStep ==
    ASSUME NEW s, Tidy(s), NEW i \in Ids(s.c), Live(s.c, i),
           NEW keep \in Ids(s.c), NEW const \in Ids(s.c),
           \/ Nd(s.c, i).in[1] = keep /\ Nd(s.c, i).in[2] = const
           \/ Nd(s.c, i).in[1] = const /\ Nd(s.c, i).in[2] = keep,
           keep < i, const < i, Nd(s.c, i).op \in {"FMul", "FDiv", "FSub"},
           Nd(s.c, const).op \in Values
    PROVE  Tidy(fold_to(s, i, keep, const)) /\ Refit(s.c, fold_to(s, i, keep, const).c)
<1> DEFINE c == s.c
           n == Nd(c, i)
           r == Replace(c, i, keep)
           k == Kill(r, i)
           v == Bump(s.u, keep, s.u[i] - 1)
           w == [v EXCEPT ![i] = 0]
           t == [c |-> k, u |-> w]
<1>0. fold_to(s, i, keep, const) = DropUse(t, const) BY DEF fold_to
<1>1. Whole(c) /\ Sound(c) /\ Covers(c, s.u) BY DEF Tidy
<1>2. i \in Int /\ keep \in Int /\ keep >= 0 /\ const \in Int /\ const # i /\ keep # i
      /\ keep \in 0..(i - 1)
  BY <1>1, AtId
<1>3. /\ Replaced(c, r, i, keep) /\ Refit(c, r) /\ Moved(c, r, i, keep)
  <2>1. i \in Ids(c) OBVIOUS
  <2> HIDE DEF c
  <2>2. keep \in 0..(i - 1) BY <1>2
  <2> QED BY <1>1, <2>1, <2>2, ReplaceIs
<1>4. Exact(n) /\ Served(c, n) /\ n.in[1] \in Int /\ n.in[2] \in Int /\ ~n.dead
  BY <1>1, AtId DEF Sound, Uses, Live
<1>5. n.op # "FStsw" /\ n.op \notin WideOps /\ ~IsCompare(n) /\ n.op \in Doubles
      /\ n.op \notin Narrows \cup {"ConstZero"}
  BY DEF WideOps, IsCompare, Doubles, Producers, Pure, Narrows
<1> HIDE DEF r, k, n, c, v, w
<1>6. Serves(c, n, keep)
  <2>1. 1 \in 1..3 /\ 2 \in 1..3 OBVIOUS
  <2> QED BY <1>2, <1>4, <1>5, <2>1 DEF Served, n, c
<1>7. /\ Live(c, keep) /\ (Wide(n) => Wide(Nd(c, keep))) /\ (IsF32(n) => IsF32(Nd(c, keep)))
  BY <1>5, <1>6 DEF Serves, Wants, Wide, IsF32, Narrows
<1>8. Sound(r) BY <1>1, <1>2, <1>3, <1>5, <1>7, ReplaceSound DEF c, n
<1>9. /\ Ids(r) = Ids(c) /\ Whole(r)
      /\ \A id \in Ids(c) : UseCount(c)[id] \in Nat /\ UseCount(r)[id] \in Nat
      /\ UseCount(r)[i] = 0 /\ UseCount(r)[keep] = UseCount(c)[keep] + UseCount(c)[i]
      /\ \A id \in Ids(c) : id # i /\ id # keep => UseCount(r)[id] = UseCount(c)[id]
  <2>1. Whole(r) BY <1>3 DEF Refit
  <2>2. i \in Ids(c) /\ keep \in Ids(c) BY DEF c
  <2>3. keep # i BY <1>2
  <2>4. Moved(c, r, i, keep) BY <1>3
  <2>5. Replaced(c, r, i, keep) BY <1>3
  <2>6. /\ Ids(r) = Ids(c)
        /\ \A id \in Ids(c) : UseCount(c)[id] \in Nat /\ UseCount(r)[id] \in Nat
        /\ UseCount(r)[i] = 0
        /\ UseCount(r)[keep] = UseCount(c)[keep] + UseCount(c)[i]
        /\ \A id \in Ids(c) : id # i /\ id # keep => UseCount(r)[id] = UseCount(c)[id]
    BY <2>2, <2>3, <2>4, <2>5, ReplaceCount, Zenon
  <2> QED BY <2>1, <2>6
<1>10. /\ ~Nd(r, i).dead /\ Nd(r, i).op = n.op
       /\ Nd(r, i).in[1] = n.in[1] /\ Nd(r, i).in[2] = n.in[2] /\ Nd(r, i).in[3] \in Int
  <2>1. 1 \in 1..3 /\ 2 \in 1..3 /\ n.in[1] # i /\ n.in[2] # i BY <1>2 DEF n, c
  <2>2. i \in Ids(r) BY <1>9 DEF c
  <2> QED BY <1>3, <1>4, <1>9, <2>1, <2>2, AtId DEF Replaced, n, c
<1>11. ~IsCompare(Nd(r, i)) BY <1>5, <1>10 DEF IsCompare
<1> DEFINE A == Once(keep, keep) + Once(const, keep)
<1>12. /\ Refit(r, k) /\ Sound(k) /\ Ids(k) = Ids(c)
       /\ \A id \in Ids(c) : UseCount(k)[id] = UseCount(r)[id] -
             (Once(n.in[1], id) + Once(n.in[2], id) + Once(Nd(r, i).in[3], id))
  <2>0. DOMAIN UseCount(r) = Ids(r) BY DEF UseCount
  <2>1. Covers(r, UseCount(r)) BY <1>9, <2>0 DEF Covers
  <2>2. i \in Ids(r) BY <1>9 DEF c
  <2>3. UseCount(r)[i] <= 0 BY <1>9
  <2> QED BY <1>8, <1>9, <1>10, <1>11, <2>1, <2>2, <2>3, KillStep DEF k
<1>13. /\ DOMAIN w = Ids(c)
       /\ \A id \in Ids(c) : /\ w[id] \in Int
                             /\ w[id] = IF id = i THEN 0
                                        ELSE IF id = keep THEN s.u[id] + (s.u[i] - 1) ELSE s.u[id]
  <2>1. DOMAIN s.u = Ids(c) /\ \A x \in Ids(c) : s.u[x] \in Int BY <1>1 DEF Covers
  <2>2. s.u[i] - 1 \in Int BY <2>1 DEF c
  <2>3. DOMAIN v = Ids(c) /\ \A x \in Ids(c) : /\ v[x] = IF x = keep THEN s.u[x] + (s.u[i] - 1) ELSE s.u[x]
                                               /\ v[x] \in Int
    BY <2>1, <2>2, BumpIs DEF v
  <2> QED BY <2>3 DEF w
<1>14. ASSUME NEW x \in Ids(c)
       PROVE  UseCount(k)[x] <= IF x = const THEN w[x] - 1 ELSE w[x]
  <2> DEFINE q == Once(Nd(r, i).in[3], x)
  <2>1. q \in Nat /\ Once(keep, x) \in Nat /\ Once(const, x) \in Nat BY DEF Once
  <2>2. UseCount(k)[x] = UseCount(r)[x] - (Once(keep, x) + Once(const, x) + q)
    BY <1>12, <2>1 DEF n, c
  <2>3. /\ UseCount(c)[x] \in Nat /\ UseCount(r)[x] \in Nat /\ s.u[x] \in Int /\ UseCount(c)[x] <= s.u[x]
        /\ UseCount(c)[i] \in Nat /\ s.u[i] \in Int /\ UseCount(c)[i] <= s.u[i]
    BY <1>1, <1>9 DEF Covers, c
  <2> HIDE DEF q
  <2>4. CASE x = i
    <3>1. Once(keep, x) = 0 /\ Once(const, x) = 0 BY <1>2, <2>4 DEF Once
    <3> QED BY <1>2, <1>9, <1>13, <2>1, <2>2, <2>4, <3>1
  <2>5. CASE x = keep /\ x = const
    <3>1. Once(keep, x) = 1 /\ Once(const, x) = 1 BY <2>5 DEF Once
    <3> QED BY <1>2, <1>9, <1>13, <2>1, <2>2, <2>3, <2>5, <3>1
  <2>6. CASE x = keep /\ x # const
    <3>1. Once(keep, x) = 1 BY <2>6 DEF Once
    <3> QED BY <1>2, <1>9, <1>13, <2>1, <2>2, <2>3, <2>6, <3>1
  <2>7. CASE x # i /\ x # keep
    <3>1. Once(const, x) = IF x = const THEN 1 ELSE 0 BY DEF Once
    <3>2. w[x] = s.u[x] /\ UseCount(r)[x] = UseCount(c)[x] BY <1>9, <1>13, <2>7
    <3> QED BY <2>1, <2>2, <2>3, <3>1, <3>2
  <2> QED BY <2>4, <2>5, <2>6, <2>7
<1>15. ~IsCompare(Nd(k, const))
  <2>1. Altered(r, k, i)
    <3>1. i \in Ids(r) BY <1>9 DEF c
    <3> QED BY <1>9, <3>1, KillIs DEF k
  <2>2. Nd(k, const) = Nd(r, const) BY <1>2, <1>9, <2>1 DEF Altered, c
  <2>3. Nd(r, const).op = Nd(c, const).op BY <1>3 DEF Replaced, c
  <2>4. Nd(k, const).op \in Values BY <2>2, <2>3 DEF c
  <2> QED BY <2>4, ValueKinds
<1>16. t.c = k /\ t.u = w OBVIOUS
<1> HIDE DEF t
<1>17. Whole(k) /\ Refit(c, k) BY <1>3, <1>12, RefitTrans DEF Refit
<1>18. Tidy(DropUse(t, const)) /\ Refit(t.c, DropUse(t, const).c)
  <2>1. const \in Ids(t.c) BY <1>12, <1>16 DEF c
  <2> QED BY <1>12, <1>13, <1>14, <1>15, <1>16, <1>17, <2>1, DropUseStep
<1> QED BY <1>0, <1>16, <1>17, <1>18, RefitTrans DEF c

\* How often inputs name a node.
Sum(in, id) == Once(in[1], id) + Once(in[2], id) + Once(in[3], id)
\* No input beyond those the operation takes.
Trim(op, in) ==
    /\ op \notin AtLeast1 => in[1] = -1
    /\ op \notin AtLeast2 => in[2] = -1
    /\ op \notin Ternary => in[3] = -1
\* The inputs serve an operation of this width.
Fed(c, op, f32, in) ==
    \A j \in 1..3 : in[j] >= 0 =>
        /\ Live(c, in[j])
        /\ IF f32 \/ op \in WideOps THEN IsF32(Nd(c, in[j])) ELSE Wide(Nd(c, in[j]))

\* Sums are natural numbers.
LEMMA SumNat == \A in, id : Sum(in, id) \in Nat BY DEF Sum, Once

\* What a live node of a sound context is.
LEMMA SoundNode ==
    ASSUME NEW c, Sound(c), NEW i, Live(c, i)
    PROVE  /\ i \in Ids(c) /\ ~Nd(c, i).dead /\ Exact(Nd(c, i)) /\ Nd(c, i).f32 \in BOOLEAN
           /\ Nd(c, i).op # "FStsw" => /\ Trim(Nd(c, i).op, Nd(c, i).in)
                                       /\ Fed(c, Nd(c, i).op, Nd(c, i).f32, Nd(c, i).in)
<1>1. i \in Ids(c) /\ ~Nd(c, i).dead BY DEF Live
<1>2. Exact(Nd(c, i)) /\ Served(c, Nd(c, i)) BY <1>1 DEF Sound, Uses
<1>3. Nd(c, i).f32 \in BOOLEAN BY <1>2 DEF Exact
<1>4. Nd(c, i).op # "FStsw" => Trim(Nd(c, i).op, Nd(c, i).in) BY <1>2 DEF Exact, Trim
<1>5. Nd(c, i).op # "FStsw" => Fed(c, Nd(c, i).op, Nd(c, i).f32, Nd(c, i).in)
  BY <1>2 DEF Served, Serves, Wants, Fed
<1> QED BY <1>1, <1>2, <1>3, <1>4, <1>5

\* A live value or compare is rewritten.
LEMMA RewriteTidy ==
    ASSUME NEW c, Whole(c), Sound(c), NEW i, Live(c, i), NEW op, NEW in, Shape(op, in, i),
           Trim(op, in), Fed(c, op, Nd(c, i).f32, in), op # "FStsw",
           Nd(c, i).f32 => op \in Singular,
           \/ Nd(c, i).op \in Singular /\ op \in Singular
           \/ IsCompare(Nd(c, i)) /\ op \in {"FCmp", "FTst"}
    PROVE  LET b == Rewrite(c, i, op, in)
           IN  /\ Altered(c, b, i) /\ Refit(c, b) /\ Sound(b) /\ Ids(b) = Ids(c)
               /\ Nd(b, i).op = op /\ Nd(b, i).in = in /\ ~Nd(b, i).dead
               /\ \A id \in Ids(c) :
                    /\ UseCount(c)[id] \in Nat /\ UseCount(b)[id] \in Nat
                    /\ UseCount(b)[id] = (UseCount(c)[id] - Sum(Nd(c, i).in, id)) + Sum(in, id)
<1> DEFINE b == Rewrite(c, i, op, in)
           n == Nd(c, i)
           m == Nd(b, i)
<1>1. i \in Ids(c) /\ ~n.dead /\ Exact(n) /\ n.f32 \in BOOLEAN BY SoundNode
<1>2. /\ Altered(c, b, i) /\ Refit(c, b)
      /\ m.op = op /\ m.in = in /\ m.dead = n.dead /\ m.f32 = n.f32 /\ m.fused = n.fused
  BY <1>1, RewriteIs
<1> HIDE DEF b, n, m
<1>3. Exact(m) BY <1>1, <1>2 DEF Exact, Trim, n
<1>4. Served(c, m) BY <1>2 DEF Served, Serves, Wants, Fed, n
<1>5. LikeNode(n, m)
  <2>1. CASE n.op \in Singular /\ op \in Singular
    <3>1. \A x \in Singular : x \in Doubles /\ x \notin {"LoadF32Raw", "CvtF64ToF32", "ConstZero"}
                              /\ x \notin {"FCmp", "FTst"}
      BY DEF Singular, Ternary, Doubles, Producers, Pure, Narrows
    <3> QED BY <1>2, <2>1, <3>1 DEF LikeNode, Wide, IsF32, IsCompare
  <2>2. CASE IsCompare(n) /\ op \in {"FCmp", "FTst"}
    <3>1. ~Wide(n) /\ ~IsF32(n) BY <1>1, <2>2, ValueKinds
    <3> QED BY <1>2, <2>2, <3>1 DEF LikeNode, IsCompare
  <2> QED BY <2>1, <2>2 DEF n
<1>6. Sound(b)
  <2>1. ~m.dead /\ m.op # "FStsw" BY <1>1, <1>2
  <2> QED BY <1>2, <1>3, <1>4, <1>5, <2>1, AlterSound DEF n, m
<1>7. ASSUME NEW id \in Ids(c)
      PROVE  /\ UseCount(c)[id] \in Nat /\ UseCount(b)[id] \in Nat
             /\ UseCount(b)[id] = (UseCount(c)[id] - Sum(n.in, id)) + Sum(in, id)
  <2>1. UsesOf(n, id) = Sum(n.in, id) /\ UsesOf(m, id) = Sum(in, id)
    BY <1>1, <1>2 DEF UsesOf, Sum
  <2>2. /\ UseCount(c)[id] \in Nat /\ UseCount(b)[id] \in Nat
        /\ UseCount(b)[id] = (UseCount(c)[id] - UsesOf(n, id)) + UsesOf(m, id)
    BY <1>2, AlteredCount DEF n, m
  <2> QED BY <2>1, <2>2
<1>8. Ids(b) = Ids(c) BY <1>2, AlteredCount
<1> QED BY <1>1, <1>2, <1>6, <1>7, <1>8 DEF b, n, m

\* A value without uses dies, and no longer uses its inputs.
LEMMA DseTidy == ASSUME NEW s, Tidy(s), NEW i \in Ids(s.c) PROVE Tidy(dse(s, i))
<1> DEFINE c == s.c
           n == Nd(c, i)
           dec(u, j) == Bump(u, n.in[j], -1)
           b == Kill(c, i)
           u1 == dec(s.u, 1)
           u2 == dec(u1, 2)
           u3 == dec(u2, 3)
<1>1. Whole(c) /\ Sound(c) /\ Covers(c, s.u) BY DEF Tidy
<1>2. CASE n.dead \/ n.op \in SideEffects \/ s.u[i] # 0
  <2>1. dse(s, i) = s BY <1>2 DEF dse
  <2> QED BY <2>1
<1>3. CASE ~(n.dead \/ n.op \in SideEffects \/ s.u[i] # 0)
  <2>1. dse(s, i) = [c |-> b, u |-> u3] BY <1>3 DEF dse
  <2>2. UseCount(c)[i] <= 0 BY <1>1, <1>3 DEF Covers
  <2>3. ~IsCompare(n) BY <1>3 DEF SideEffects, IsCompare
  <2>4. /\ Refit(c, b) /\ Sound(b) /\ Ids(b) = Ids(c)
        /\ \A id \in Ids(c) : UseCount(b)[id] = UseCount(c)[id] -
             (Once(n.in[1], id) + Once(n.in[2], id) + Once(n.in[3], id))
    BY <1>1, <1>3, <2>2, <2>3, KillStep
  <2>5. \A id \in Ids(c) : UseCount(c)[id] \in Nat BY <1>1, Unused
  <2>6. DOMAIN s.u = Ids(c) /\ \A x \in Ids(c) : s.u[x] \in Int /\ UseCount(c)[x] <= s.u[x]
    BY <1>1 DEF Covers
  <2> HIDE DEF b, n, c
  <2>7. -1 \in Int OBVIOUS
  <2>8. DOMAIN u1 = Ids(c) /\ \A x \in Ids(c) : u1[x] = s.u[x] - Once(n.in[1], x) /\ u1[x] \in Int
    <3>1. DOMAIN u1 = Ids(c) /\ \A x \in Ids(c) : /\ u1[x] = IF x = n.in[1] THEN s.u[x] + (-1) ELSE s.u[x]
                                                  /\ u1[x] \in Int
      BY <2>6, <2>7, BumpIs
    <3> HIDE DEF u1
    <3> QED BY <2>6, <3>1 DEF Once
  <2> HIDE DEF u1
  <2>9. DOMAIN u2 = Ids(c) /\ \A x \in Ids(c) : u2[x] = u1[x] - Once(n.in[2], x) /\ u2[x] \in Int
    <3>1. DOMAIN u2 = Ids(c) /\ \A x \in Ids(c) : /\ u2[x] = IF x = n.in[2] THEN u1[x] + (-1) ELSE u1[x]
                                                  /\ u2[x] \in Int
      BY <2>7, <2>8, BumpIs
    <3> HIDE DEF u2
    <3> QED BY <2>8, <3>1 DEF Once
  <2> HIDE DEF u2
  <2>10. DOMAIN u3 = Ids(c) /\ \A x \in Ids(c) : u3[x] = u2[x] - Once(n.in[3], x) /\ u3[x] \in Int
    <3>1. DOMAIN u3 = Ids(c) /\ \A x \in Ids(c) : /\ u3[x] = IF x = n.in[3] THEN u2[x] + (-1) ELSE u2[x]
                                                  /\ u3[x] \in Int
      BY <2>7, <2>9, BumpIs
    <3> HIDE DEF u3
    <3> QED BY <2>9, <3>1 DEF Once
  <2> HIDE DEF u3
  <2>11. ASSUME NEW x \in Ids(c) PROVE u3[x] \in Int /\ UseCount(b)[x] <= u3[x]
    <3>1. Once(n.in[1], x) \in Nat /\ Once(n.in[2], x) \in Nat /\ Once(n.in[3], x) \in Nat
      BY DEF Once
    <3> QED BY <2>4, <2>5, <2>6, <2>8, <2>9, <2>10, <3>1
  <2>12. Covers(b, u3) BY <2>4, <2>10, <2>11 DEF Covers
  <2>13. Whole(b) BY <2>4 DEF Refit
  <2> QED BY <2>1, <2>4, <2>12, <2>13 DEF Tidy
<1> QED BY <1>2, <1>3

\* Inputs of which each is one of n's or of x's.
Taken2(in, a, b) ==
    \A j \in 1..3 : in[j] >= 0 => \E k \in 1..3 : in[j] = a[k] \/ in[j] = b[k]
\* in uses what a and b use, without one use of x.
Swaps(c, in, a, b, x) ==
    /\ \A id \in Ids(c) : id # x => Sum(in, id) <= Sum(a, id) + (Once(b[1], id) + Once(b[2], id))
    /\ Sum(in, x) <= Sum(a, x) - 1

\* Node i takes over the inputs of its input x, which only it uses.
LEMMA AbsorbTidy ==
    ASSUME NEW s, Tidy(s), NEW i, Live(s.c, i), NEW x, Live(s.c, x), s.u[x] = 1,
           NEW op \in Singular, NEW in, Shape(op, in, i), Trim(op, in),
           Nd(s.c, i).op \in {"FAdd", "FSub", "FNeg"}, Nd(s.c, x).op \in {"FMul", "FNeg"},
           \E k \in 1..3 : Nd(s.c, i).in[k] = x, x < i,
           Taken2(in, Nd(s.c, i).in, Nd(s.c, x).in), Swaps(s.c, in, Nd(s.c, i).in, Nd(s.c, x).in, x)
    PROVE  Tidy(Absorb(s, i, x, op, in))
<1> DEFINE c == s.c
           n == Nd(c, i)
           m == Nd(c, x)
           b == Rewrite(c, i, op, in)
           k == Kill(b, x)
           u0 == [s.u EXCEPT ![x] = 0]
           u1 == Bump(u0, m.in[1], 1)
           u2 == Bump(u1, m.in[2], 1)
<1>0. Absorb(s, i, x, op, in) = [c |-> k, u |-> u2] BY DEF Absorb
<1>1. Whole(c) /\ Sound(c) /\ Covers(c, s.u) BY DEF Tidy
<1>2. /\ i \in Ids(c) /\ ~n.dead /\ Exact(n) /\ n.f32 \in BOOLEAN
      /\ x \in Ids(c) /\ ~m.dead /\ Exact(m) /\ m.f32 \in BOOLEAN
      /\ Fed(c, n.op, n.f32, n.in) /\ Fed(c, m.op, m.f32, m.in)
  BY <1>1, SoundNode
<1>3. n.op \notin WideOps /\ m.op \notin WideOps /\ op \notin WideOps /\ op # "FStsw"
      /\ n.op \in Singular /\ m.op \in Singular /\ ~IsCompare(m)
      /\ m.op \notin {"LoadF32Raw", "CvtF64ToF32", "ConstZero"}
  BY DEF WideOps, Singular, Ternary, IsCompare
<1>4. x \in Int /\ i \in Int /\ x >= 0 BY <1>1, <1>2, AtId
<1>5. n.f32 = m.f32
  <2>1. PICK j \in 1..3 : n.in[j] = x OBVIOUS
  <2>2. IF n.f32 THEN IsF32(m) ELSE Wide(m) BY <1>2, <1>3, <1>4, <2>1 DEF Fed
  <2> QED BY <1>2, <1>3, <2>2 DEF IsF32, Wide
<1>6. Fed(c, op, n.f32, in)
  <2>1. ASSUME NEW j \in 1..3, in[j] >= 0
        PROVE  Live(c, in[j]) /\ IF n.f32 THEN IsF32(Nd(c, in[j])) ELSE Wide(Nd(c, in[j]))
    <3>1. PICK l \in 1..3 : in[j] = n.in[l] \/ in[j] = m.in[l] BY <2>1 DEF Taken2
    <3>2. CASE in[j] = n.in[l] BY <1>2, <1>3, <2>1, <3>2 DEF Fed
    <3>3. CASE in[j] = m.in[l] BY <1>2, <1>3, <1>5, <2>1, <3>3 DEF Fed
    <3> QED BY <3>1, <3>2, <3>3
  <2> QED BY <1>3, <2>1 DEF Fed
<1> HIDE DEF b
<1>7. /\ Altered(c, b, i) /\ Refit(c, b) /\ Sound(b) /\ Ids(b) = Ids(c)
      /\ \A id \in Ids(c) :
           /\ UseCount(c)[id] \in Nat /\ UseCount(b)[id] \in Nat
           /\ UseCount(b)[id] = (UseCount(c)[id] - Sum(n.in, id)) + Sum(in, id)
  <2>1. Live(c, i) /\ (n.f32 => op \in Singular) OBVIOUS
  <2> HIDE DEF c
  <2> QED BY <1>1, <1>3, <1>6, <2>1, RewriteTidy DEF b, n
<1>8. Nd(b, x) = m /\ Whole(b) BY <1>2, <1>4, <1>7 DEF Altered
<1>9. DOMAIN s.u = Ids(c) /\ \A y \in Ids(c) : s.u[y] \in Int /\ UseCount(c)[y] <= s.u[y]
  BY <1>1 DEF Covers
<1>10. UseCount(b)[x] <= 0
  <2>1. UseCount(c)[x] <= 1 BY <1>2, <1>9
  <2>2. Sum(in, x) <= Sum(n.in, x) - 1 BY DEF Swaps
  <2>3. Sum(in, x) \in Nat /\ Sum(n.in, x) \in Nat BY SumNat
  <2>4. /\ UseCount(c)[x] \in Nat
        /\ UseCount(b)[x] = (UseCount(c)[x] - Sum(n.in, x)) + Sum(in, x)
    BY <1>2, <1>7
  <2> QED BY <2>1, <2>2, <2>3, <2>4
<1>11. /\ Refit(b, k) /\ Sound(k) /\ Ids(k) = Ids(c)
       /\ \A id \in Ids(c) : UseCount(k)[id] = UseCount(b)[id] - Sum(m.in, id)
  <2>0. DOMAIN UseCount(b) = Ids(b) BY DEF UseCount
  <2>1. Covers(b, UseCount(b)) BY <1>7, <2>0 DEF Covers
  <2>2. x \in Ids(b) /\ ~IsCompare(Nd(b, x)) /\ ~Nd(b, x).dead BY <1>2, <1>3, <1>7, <1>8
  <2>3. /\ Refit(b, k) /\ Sound(k) /\ Ids(k) = Ids(b)
        /\ \A id \in Ids(b) : UseCount(k)[id] = UseCount(b)[id] -
             (Once(Nd(b, x).in[1], id) + Once(Nd(b, x).in[2], id) + Once(Nd(b, x).in[3], id))
    BY <1>7, <1>8, <1>10, <2>1, <2>2, KillStep
  <2> HIDE DEF k, m
  <2> QED BY <1>7, <1>8, <2>3 DEF Sum
<1> HIDE DEF k, n, m, c
<1>12. DOMAIN u0 = Ids(c) /\ \A y \in Ids(c) : u0[y] = (IF y = x THEN 0 ELSE s.u[y]) /\ u0[y] \in Int
  BY <1>9
<1> HIDE DEF u0
<1>13. DOMAIN u1 = Ids(c) /\ \A y \in Ids(c) : u1[y] = u0[y] + Once(m.in[1], y) /\ u1[y] \in Int
  <2>1. DOMAIN u1 = Ids(c) /\ \A y \in Ids(c) : /\ u1[y] = IF y = m.in[1] THEN u0[y] + 1 ELSE u0[y]
                                                /\ u1[y] \in Int
    BY <1>12, BumpIs
  <2> HIDE DEF u1
  <2> QED BY <1>12, <2>1 DEF Once
<1> HIDE DEF u1
<1>14. DOMAIN u2 = Ids(c) /\ \A y \in Ids(c) : u2[y] = u1[y] + Once(m.in[2], y) /\ u2[y] \in Int
  <2>1. DOMAIN u2 = Ids(c) /\ \A y \in Ids(c) : /\ u2[y] = IF y = m.in[2] THEN u1[y] + 1 ELSE u1[y]
                                                /\ u2[y] \in Int
    BY <1>13, BumpIs
  <2> HIDE DEF u2
  <2> QED BY <1>13, <2>1 DEF Once
<1> HIDE DEF u2
<1>15. ASSUME NEW y \in Ids(c) PROVE u2[y] \in Int /\ UseCount(k)[y] <= u2[y]
  <2>1. /\ Once(m.in[1], y) \in Nat /\ Once(m.in[2], y) \in Nat /\ Sum(m.in, y) \in Nat
        /\ Sum(in, y) \in Nat /\ Sum(n.in, y) \in Nat
    BY SumNat DEF Once
  <2>2. u2[y] \in Int /\ u2[y] = (u0[y] + Once(m.in[1], y)) + Once(m.in[2], y)
    BY <1>13, <1>14
  <2>3. /\ UseCount(c)[y] \in Nat /\ UseCount(b)[y] \in Nat
        /\ UseCount(b)[y] = (UseCount(c)[y] - Sum(n.in, y)) + Sum(in, y)
        /\ UseCount(k)[y] = UseCount(b)[y] - Sum(m.in, y)
    BY <1>7, <1>11
  <2>4. CASE y = x
    <3>1. u0[y] = 0 BY <1>12, <2>4
    <3>2. UseCount(b)[y] <= 0 BY <1>10, <2>4
    <3> QED BY <2>1, <2>2, <2>3, <3>1, <3>2
  <2>5. CASE y # x
    <3>1. u0[y] = s.u[y] BY <1>12, <2>5
    <3>2. Sum(in, y) <= Sum(n.in, y) + (Once(m.in[1], y) + Once(m.in[2], y))
      BY <2>5 DEF Swaps, c, n, m
    <3>3. s.u[y] \in Int /\ UseCount(c)[y] <= s.u[y] BY <1>9
    <3> QED BY <2>1, <2>2, <2>3, <3>1, <3>2, <3>3
  <2> QED BY <2>4, <2>5
<1>16. Covers(k, u2) BY <1>11, <1>14, <1>15 DEF Covers
<1>17. Whole(k) BY <1>11 DEF Refit
<1> QED BY <1>0, <1>11, <1>16, <1>17 DEF Tidy

\* The elements of a triple.
LEMMA Triple ==
    ASSUME NEW x, NEW y, NEW z
    PROVE  /\ <<x, y, z>>[1] = x /\ <<x, y, z>>[2] = y /\ <<x, y, z>>[3] = z
           /\ \A id : Sum(<<x, y, z>>, id) = Once(x, id) + Once(y, id) + Once(z, id)
BY DEF Sum

\* Node i has the inputs x and w and maybe z; x, which only i uses, has m1 and
\* m2; i takes them over.
LEMMA AbsorbAt ==
    ASSUME NEW s, Tidy(s), NEW i, Live(s.c, i), NEW x, Live(s.c, x), s.u[x] = 1,
           NEW op \in Singular, NEW y1, NEW y2, NEW y3, Shape(op, <<y1, y2, y3>>, i),
           Trim(op, <<y1, y2, y3>>),
           Nd(s.c, i).op \in {"FAdd", "FSub", "FNeg"}, Nd(s.c, x).op \in {"FMul", "FNeg"}, x < i,
           NEW w, \/ Nd(s.c, i).in[1] = x /\ Nd(s.c, i).in[2] = w
                  \/ Nd(s.c, i).in[1] = w /\ Nd(s.c, i).in[2] = x,
           NEW z, z = Nd(s.c, i).in[3],
           NEW m1, m1 = Nd(s.c, x).in[1], NEW m2, m2 = Nd(s.c, x).in[2],
           \/ y1 = w /\ y2 = m1 /\ y3 = z
           \/ y1 = m1 /\ y2 = m2 /\ y3 = z
           \/ y1 = m1 /\ y2 = m2 /\ y3 = w
    PROVE  Tidy(Absorb(s, i, x, op, <<y1, y2, y3>>))
<1> DEFINE in == <<y1, y2, y3>>
           n == Nd(s.c, i)
           m == Nd(s.c, x)
<1>1. Whole(s.c) /\ Sound(s.c) BY DEF Tidy
<1>2. x \in Ids(s.c) BY DEF Live
<1>3. x \in Int /\ x >= 0 BY <1>1, <1>2, AtId
<1>4. m1 # x /\ m2 # x
  <2>1. m.op # "FStsw" OBVIOUS
  <2>2. m.in[1] < x /\ m.in[2] < x /\ m.in[1] \in Int /\ m.in[2] \in Int
    BY <1>1, <1>2, <2>1, AtId DEF NodeFits
  <2> QED BY <1>3, <2>2
<1>5. /\ in[1] = y1 /\ in[2] = y2 /\ in[3] = y3
      /\ \A id : Sum(in, id) = Once(y1, id) + Once(y2, id) + Once(y3, id)
  BY Triple
<1>6. \A id : Sum(n.in, id) = Once(x, id) + Once(w, id) + Once(z, id) BY DEF Sum, Once
<1>7. ASSUME NEW id
      PROVE  /\ Once(x, id) \in Nat /\ Once(w, id) \in Nat /\ Once(z, id) \in Nat
             /\ Once(m1, id) \in Nat /\ Once(m2, id) \in Nat
             /\ Sum(in, id) <= (Once(w, id) + Once(z, id)) + (Once(m1, id) + Once(m2, id))
  <2>1. /\ Once(x, id) \in Nat /\ Once(w, id) \in Nat /\ Once(z, id) \in Nat
        /\ Once(m1, id) \in Nat /\ Once(m2, id) \in Nat
    BY DEF Once
  <2> HIDE DEF in
  <2> QED BY <1>5, <2>1
<1> HIDE DEF in
<1>8. Swaps(s.c, in, n.in, m.in, x)
  <2>1. ASSUME NEW id \in Ids(s.c), id # x
        PROVE  Sum(in, id) <= Sum(n.in, id) + (Once(m.in[1], id) + Once(m.in[2], id))
    <3>1. Sum(n.in, id) = Once(x, id) + Once(w, id) + Once(z, id) BY <1>6
    <3>2. Once(m.in[1], id) = Once(m1, id) /\ Once(m.in[2], id) = Once(m2, id) OBVIOUS
    <3> DEFINE p == Once(w, id)
               q == Once(z, id)
               r == Once(m1, id)
               t == Once(m2, id)
               v == Once(x, id)
               total == Sum(in, id)
               was == Sum(n.in, id)
    <3>3. p \in Nat /\ q \in Nat /\ r \in Nat /\ t \in Nat /\ v \in Nat BY <1>7
    <3>4. total <= (p + q) + (r + t) BY <1>7
    <3>5. was = v + p + q BY <3>1
    <3>6. total \in Nat
      <4>1. total = Once(y1, id) + Once(y2, id) + Once(y3, id) BY <1>5
      <4> QED BY <4>1 DEF Once
    <3>7. total <= was + (r + t)
      <4> HIDE DEF p, q, r, t, v, total, was
      <4> QED BY <3>3, <3>4, <3>5, <3>6
    <3> QED BY <3>2, <3>7
  <2>2. Sum(in, x) <= Sum(n.in, x) - 1
    <3>1. Once(x, x) = 1 /\ Once(m1, x) = 0 /\ Once(m2, x) = 0 BY <1>4 DEF Once
    <3>2. Sum(n.in, x) = Once(x, x) + Once(w, x) + Once(z, x) BY <1>6
    <3> HIDE DEF n, m
    <3> QED BY <1>7, <3>1, <3>2
  <2> QED BY <2>1, <2>2 DEF Swaps
<1>9. Taken2(in, n.in, m.in)
  <2>1. 1 \in 1..3 /\ 2 \in 1..3 /\ 3 \in 1..3 /\ \A j \in 1..3 : j = 1 \/ j = 2 \/ j = 3
    OBVIOUS
  <2>2. \E k \in 1..3 : w = n.in[k] BY <2>1
  <2>3. /\ \E k \in 1..3 : z = n.in[k]
        /\ \E k \in 1..3 : m1 = m.in[k]
        /\ \E k \in 1..3 : m2 = m.in[k]
    BY <2>1
  <2> HIDE DEF n, m
  <2>4. ASSUME NEW j \in 1..3 PROVE in[j] \in {w, z, m1, m2} BY <1>5, <2>1
  <2> QED BY <2>2, <2>3, <2>4 DEF Taken2
<1>10. \E k \in 1..3 : n.in[k] = x
  <2>1. 1 \in 1..3 /\ 2 \in 1..3 OBVIOUS
  <2> QED BY <2>1
<1>11. Shape(op, in, i) /\ Trim(op, in) BY DEF in
<1>12. Tidy(Absorb(s, i, x, op, in)) BY <1>8, <1>9, <1>10, <1>11, AbsorbTidy
<1> QED BY <1>12 DEF in

\* A turn of pass_fneg_fold.
LEMMA FnegTidy == ASSUME NEW s, Tidy(s), NEW i \in Ids(s.c) PROVE Tidy(fneg_fold(s, i))
<1> DEFINE n == Nd(s.c, i)
           a == n.in[1]
           b == n.in[2]
           z == n.in[3]
           op1 == IF n.op = "FAdd" THEN "FSub" ELSE "FAdd"
           r1 == Absorb(s, i, b, op1, <<a, Nd(s.c, b).in[1], z>>)
           r2 == Absorb(s, i, a, "FSub", <<b, Nd(s.c, a).in[1], z>>)
           r3 == Absorb(s, i, a, "FNMul", <<Nd(s.c, a).in[1], Nd(s.c, a).in[2], z>>)
           p1 == SingleUse(s, b, "FNeg")
           p2 == SingleUse(s, a, "FNeg")
           p3 == SingleUse(s, a, "FMul")
           new == fneg_fold(s, i)
           o == n.op
<1>0. Whole(s.c) /\ Sound(s.c) BY DEF Tidy
<1>1. new = IF n.dead THEN s ELSE
            CASE o \in {"FAdd", "FSub"} /\ p1 -> r1
              [] o = "FAdd" /\ ~p1 /\ p2 -> r2
              [] o = "FNeg" /\ p3 -> r3
              [] OTHER -> s
  BY DEF fneg_fold
<1>2. \/ new = s
      \/ ~n.dead /\ o \in {"FAdd", "FSub"} /\ p1 /\ new = r1
      \/ ~n.dead /\ o = "FAdd" /\ p2 /\ new = r2
      \/ ~n.dead /\ o = "FNeg" /\ p3 /\ new = r3
  <2> HIDE DEF new, p1, p2, p3, r1, r2, r3, o
  <2> QED BY <1>1
<1>3. n.dead \in BOOLEAN BY <1>0, AtId
<1>4. i \in Int /\ i >= 0 BY <1>0, AtId
<1>5. /\ {"FAdd", "FSub", "FMul", "FNMul"} \subseteq AtLeast2 /\ AtLeast2 \subseteq AtLeast1
      /\ "FNeg" \in AtLeast1 /\ "FNeg" \notin AtLeast2
      /\ {"FAdd", "FSub", "FNMul", "FNeg"} \cap Ternary = {}
      /\ {"FAdd", "FSub", "FNMul"} \subseteq Singular
  BY DEF AtLeast1, AtLeast2, Ternary, Singular
<1>6. /\ o \in AtLeast1 => a \in 0..(i - 1) /\ z \in (-1)..(i - 1)
      /\ o \in AtLeast2 => a \in 0..(i - 1) /\ b \in 0..(i - 1)
  BY <1>0, InputsOf
<1>7. ~n.dead /\ o \in {"FAdd", "FSub", "FNeg"} => Live(s.c, i) /\ z = -1
  <2>1. ~n.dead => Live(s.c, i) BY DEF Live
  <2>2. ~n.dead /\ o # "FStsw" => Trim(o, n.in) BY <1>0, <2>1, SoundNode
  <2> QED BY <1>5, <2>1, <2>2 DEF Trim
<1>8. ASSUME ~n.dead, o \in {"FAdd", "FSub"}, p1 PROVE Tidy(r1)
  <2> DEFINE x == Nd(s.c, b).in[1]
  <2>1. b \in Ids(s.c) /\ Nd(s.c, b).op = "FNeg" /\ Live(s.c, b) /\ s.u[b] = 1
    BY <1>8 DEF SingleUse, Live
  <2>2. a \in 0..(i - 1) /\ b \in 0..(i - 1) /\ z \in (-1)..(i - 1) BY <1>5, <1>6, <1>8
  <2>3. x \in 0..(i - 1)
    <3>1. b < i BY <1>4, <2>2
    <3> HIDE DEF b
    <3> QED BY <1>0, <1>4, <1>5, <2>1, <3>1, Below2
  <2>4. op1 \in {"FAdd", "FSub"} BY <1>8
  <2>5. op1 \notin Ternary /\ op1 \in AtLeast1 /\ op1 \in AtLeast2 /\ op1 \in Singular
    BY <1>5, <2>4
  <2>6. Live(s.c, i) /\ z = -1 /\ n.op \in {"FAdd", "FSub", "FNeg"} /\ b < i
    BY <1>4, <1>7, <1>8, <2>2
  <2> HIDE DEF a, b, z, x, op1
  <2>7. Shape(op1, <<a, x, z>>, i) BY <1>4, <2>2, <2>3, <2>5, ShapeIn
  <2>8. Trim(op1, <<a, x, z>>) BY <2>5, <2>6, Triple DEF Trim
  <2> QED BY <2>1, <2>5, <2>6, <2>7, <2>8, AbsorbAt DEF a, b, z, x
<1>9. ASSUME ~n.dead, o = "FAdd", p2 PROVE Tidy(r2)
  <2> DEFINE x == Nd(s.c, a).in[1]
  <2>1. a \in Ids(s.c) /\ Nd(s.c, a).op = "FNeg" /\ Live(s.c, a) /\ s.u[a] = 1
    BY <1>9 DEF SingleUse, Live
  <2>2. a \in 0..(i - 1) /\ b \in 0..(i - 1) /\ z \in (-1)..(i - 1) BY <1>5, <1>6, <1>9
  <2>3. x \in 0..(i - 1)
    <3>1. a < i BY <1>4, <2>2
    <3> HIDE DEF a
    <3> QED BY <1>0, <1>4, <1>5, <2>1, <3>1, Below2
  <2>5. "FSub" \notin Ternary /\ "FSub" \in AtLeast1 /\ "FSub" \in AtLeast2 /\ "FSub" \in Singular
    BY <1>5
  <2>6. Live(s.c, i) /\ z = -1 /\ n.op \in {"FAdd", "FSub", "FNeg"} /\ a < i
    BY <1>4, <1>7, <1>9, <2>2
  <2> HIDE DEF a, b, z, x
  <2>7. Shape("FSub", <<b, x, z>>, i) BY <1>4, <2>2, <2>3, <2>5, ShapeIn
  <2>8. Trim("FSub", <<b, x, z>>) BY <2>5, <2>6, Triple DEF Trim
  <2> QED BY <2>1, <2>5, <2>6, <2>7, <2>8, AbsorbAt DEF a, b, z, x
<1>10. ASSUME ~n.dead, o = "FNeg", p3 PROVE Tidy(r3)
  <2> DEFINE x == Nd(s.c, a).in[1]
             y == Nd(s.c, a).in[2]
  <2>1. a \in Ids(s.c) /\ Nd(s.c, a).op = "FMul" /\ Live(s.c, a) /\ s.u[a] = 1
    BY <1>10 DEF SingleUse, Live
  <2>2. a \in 0..(i - 1) /\ z \in (-1)..(i - 1) BY <1>5, <1>6, <1>10
  <2>3. x \in 0..(i - 1) /\ y \in 0..(i - 1)
    <3>1. a < i BY <1>4, <2>2
    <3> HIDE DEF a
    <3> QED BY <1>0, <1>4, <1>5, <2>1, <3>1, Below2
  <2>5. /\ "FNMul" \notin Ternary /\ "FNMul" \in AtLeast1 /\ "FNMul" \in AtLeast2
        /\ "FNMul" \in Singular
    BY <1>5
  <2>6. Live(s.c, i) /\ z = -1 /\ n.op \in {"FAdd", "FSub", "FNeg"} /\ a < i
    BY <1>4, <1>7, <1>10, <2>2
  <2> HIDE DEF a, b, z, x, y
  <2>7. Shape("FNMul", <<x, y, z>>, i) BY <1>4, <2>2, <2>3, <2>5, ShapeIn
  <2>8. Trim("FNMul", <<x, y, z>>) BY <2>5, <2>6, Triple DEF Trim
  <2> QED BY <2>1, <2>5, <2>6, <2>7, <2>8, AbsorbAt DEF a, b, z, x, y
<1> HIDE DEF new, p1, p2, p3, r1, r2, r3, o
<1>11. Tidy(new) BY <1>2, <1>8, <1>9, <1>10
<1> QED BY <1>11 DEF new

\* A product fused into a sum.
LEMMA FuseTidy ==
    ASSUME NEW s, Tidy(s), NEW i \in Ids(s.c), NEW muls,
           \A x \in muls : SingleUse(s, x, "FMul")
    PROVE  Tidy(Fuse(s, i, muls))
<1> DEFINE n == Nd(s.c, i)
           a == n.in[1]
           b == n.in[2]
           r(x, y, f) == Absorb(s, i, x, FmaOp(n.op, f), <<Nd(s.c, x).in[1], Nd(s.c, x).in[2], y>>)
           new == Fuse(s, i, muls)
           o == n.op
<1>0. Whole(s.c) /\ Sound(s.c) BY DEF Tidy
<1>1. \/ new = s
      \/ ~n.dead /\ o \in {"FAdd", "FSub"} /\ a \in muls /\ new = r(a, b, TRUE)
      \/ ~n.dead /\ o \in {"FAdd", "FSub"} /\ b \in muls /\ new = r(b, a, FALSE)
  BY DEF Fuse
<1>3. i \in Int /\ i >= 0 BY <1>0, AtId
<1>4. {"FAdd", "FSub", "FMul"} \subseteq AtLeast2 BY DEF AtLeast2
<1>5. o \in {"FAdd", "FSub"} => a \in 0..(i - 1) /\ b \in 0..(i - 1) BY <1>0, <1>4, InputsOf
<1>6. ASSUME NEW x \in 0..(i - 1), NEW y \in 0..(i - 1), x \in muls, NEW f, ~n.dead,
             o \in {"FAdd", "FSub"}, (a = x /\ b = y) \/ (a = y /\ b = x)
      PROVE  Tidy(r(x, y, f))
  <2> DEFINE v == Nd(s.c, x).in[1]
             w == Nd(s.c, x).in[2]
             op == FmaOp(n.op, f)
  <2>1. x \in Ids(s.c) /\ Nd(s.c, x).op = "FMul" /\ Live(s.c, x) /\ s.u[x] = 1
    BY <1>6 DEF SingleUse, Live
  <2>2. v \in 0..(i - 1) /\ w \in 0..(i - 1) BY <1>0, <1>3, <1>4, <2>1, Below2
  <2>3. op \in Ternary BY DEF FmaOp, Ternary
  <2>4. op \in Singular /\ op \in AtLeast1 /\ op \in AtLeast2
    BY <2>3 DEF Singular, AtLeast1, AtLeast2
  <2>5. Live(s.c, i) /\ n.op \in {"FAdd", "FSub", "FNeg"} /\ x < i BY <1>3, <1>6 DEF Live
  <2>9. y \in (-1)..(i - 1) /\ y >= 0 BY <1>3
  <2> HIDE DEF v, w, op
  <2>6. Shape(op, <<v, w, y>>, i) BY <1>3, <2>2, <2>9, ShapeIn
  <2>7. Trim(op, <<v, w, y>>) BY <2>3, <2>4 DEF Trim
  <2>8. Tidy(Absorb(s, i, x, op, <<v, w, y>>))
    BY <1>6, <2>1, <2>4, <2>5, <2>6, <2>7, AbsorbAt DEF v, w
  <2> QED BY <2>8 DEF v, w, op
<1> HIDE DEF new, a, b, r, o
<1>7. Tidy(new) BY <1>1, <1>5, <1>6
<1> QED BY <1>7 DEF new

\* A turn of pass_fma and of pass_f32_fma.
LEMMA FmaTidy ==
    ASSUME NEW s, Tidy(s), NEW i \in Ids(s.c) PROVE Tidy(fma(s, i)) /\ Tidy(f32_fma(s, i))
<1> DEFINE m1 == {x \in Ids(s.c) : SingleUse(s, x, "FMul")}
           m2 == {x \in Ids(s.c) : SingleUse(s, x, "FMul") /\ Nd(s.c, x).f32}
<1>1. \A x \in m1 : SingleUse(s, x, "FMul") OBVIOUS
<1>2. \A x \in m2 : SingleUse(s, x, "FMul") OBVIOUS
<1>3. fma(s, i) = Fuse(s, i, m1) BY DEF fma
<1>4. f32_fma(s, i) = s \/ f32_fma(s, i) = Fuse(s, i, m2) BY DEF f32_fma
<1> HIDE DEF m1, m2
<1>5. Tidy(Fuse(s, i, m1)) /\ Tidy(Fuse(s, i, m2)) BY <1>1, <1>2, FuseTidy
<1> QED BY <1>3, <1>4, <1>5


\* What a node stands for may change without any use noticing.
LEMMA RevalueTidy ==
    ASSUME NEW c, Whole(c), Sound(c), NEW u, Covers(c, u), NEW b, Live(c, b), NEW y,
           Nd(c, b).op # "FStsw"
    PROVE  LET r == [c EXCEPT !.nodes[b + 1].v = y] IN Whole(r) /\ Sound(r) /\ Covers(r, u)
<1> DEFINE r == [c EXCEPT !.nodes[b + 1].v = y]
           n == Nd(c, b)
           m == Nd(r, b)
<1>1. b \in Ids(c) /\ ~n.dead /\ Exact(n) BY SoundNode
<1>2. Altered(c, r, b) /\ Refit(c, r) /\ Marked(n, m, n.dead, n.f32) BY <1>1, FlagIs
<1> HIDE DEF r
<1>3. m.op = n.op /\ m.in = n.in /\ m.dead = n.dead /\ m.f32 = n.f32 /\ m.fused = n.fused
  BY <1>2 DEF Marked
<1>4. Served(c, n)
  <2>1. Uses(c) BY DEF Sound
  <2> HIDE DEF n
  <2> QED BY <1>1, <2>1 DEF Uses, n
<1> HIDE DEF n, m
<1>5. LikeNode(n, m) /\ Exact(m) /\ Served(c, m)
  <2>1. LikeNode(n, m) BY <1>3 DEF LikeNode, Wide, IsF32, IsCompare
  <2>2. Exact(m) BY <1>1, <1>3 DEF Exact
  <2>3. Served(c, m) BY <1>3, <1>4 DEF Served, Serves, Wants
  <2> QED BY <2>1, <2>2, <2>3
<1>6. n.op # "FStsw" BY DEF n
<1>7. Sound(r) BY <1>1, <1>2, <1>3, <1>5, <1>6, AlterSound DEF n, m
<1>8. \A id : UsesOf(m, id) = UsesOf(n, id) BY <1>3 DEF UsesOf
<1>9. Covers(r, u)
  <2>1. Ids(r) = Ids(c) BY <1>2, AlteredCount
  <2>2. ASSUME NEW id \in Ids(c) PROVE UseCount(r)[id] = UseCount(c)[id]
    <3>1. /\ UseCount(c)[id] \in Nat /\ UseCount(r)[id] \in Nat
          /\ UsesOf(n, id) \in Nat
          /\ UseCount(r)[id] = (UseCount(c)[id] - UsesOf(n, id)) + UsesOf(m, id)
      BY <1>2, AlteredCount DEF n, m
    <3>2. UsesOf(m, id) = UsesOf(n, id) BY <1>8
    <3> QED BY <3>1, <3>2
  <2> QED BY <2>1, <2>2 DEF Covers
<1> QED BY <1>2, <1>7, <1>9 DEF Refit, r

\* A division that becomes a multiplication by the reciprocal.
LEMMA RecipTidy ==
    ASSUME NEW s, Tidy(s), NEW i, Live(s.c, i), Nd(s.c, i).op = "FDiv",
           NEW b, Live(s.c, b), Nd(s.c, b).op = "ConstF64", NEW y
    PROVE  LET r == Rewrite(s.c, i, "FMul", Nd(s.c, i).in)
           IN  Tidy([s EXCEPT !.c = [r EXCEPT !.nodes[b + 1].v = y]])
<1> DEFINE n == Nd(s.c, i)
           r == Rewrite(s.c, i, "FMul", n.in)
           t == [r EXCEPT !.nodes[b + 1].v = y]
<1>1. Whole(s.c) /\ Sound(s.c) /\ Covers(s.c, s.u) /\ DOMAIN s = {"c", "u"} BY DEF Tidy
<1>2. i \in Ids(s.c) /\ b \in Ids(s.c) BY DEF Live
<1>3. /\ {"FDiv", "FMul"} \subseteq AtLeast1 /\ {"FDiv", "FMul"} \subseteq AtLeast2
      /\ "FDiv" \notin Ternary /\ "FMul" \notin Ternary
      /\ "FDiv" \notin WideOps /\ "FMul" \notin WideOps
      /\ "FDiv" \in Singular /\ "FMul" \in Singular
  BY DEF AtLeast1, AtLeast2, Ternary, WideOps, Singular
<1>4. Shape("FMul", n.in, i)
  <2>1. NodeFits(n, i) BY <1>1, <1>2, AtId
  <2>2. n.op = "FDiv" OBVIOUS
  <2> HIDE DEF n
  <2> QED BY <1>3, <2>1, <2>2 DEF Shape, NodeFits
<1>5. Trim("FMul", n.in) /\ Fed(s.c, "FMul", n.f32, n.in)
  <2>1. Trim("FDiv", n.in) /\ Fed(s.c, "FDiv", n.f32, n.in) BY <1>1, SoundNode
  <2> HIDE DEF n
  <2>2. Trim("FMul", n.in) BY <1>3, <2>1 DEF Trim
  <2> QED BY <1>3, <2>1, <2>2 DEF Fed
<1>6. /\ Altered(s.c, r, i) /\ Refit(s.c, r) /\ Sound(r) /\ Ids(r) = Ids(s.c)
      /\ Nd(r, i).op = "FMul"
      /\ \A id \in Ids(s.c) :
           /\ UseCount(s.c)[id] \in Nat /\ UseCount(r)[id] \in Nat
           /\ UseCount(r)[id] = (UseCount(s.c)[id] - Sum(n.in, id)) + Sum(n.in, id)
  BY <1>1, <1>3, <1>4, <1>5, RewriteTidy
<1>7. b # i
  <2>1. Nd(s.c, i).op # Nd(s.c, b).op OBVIOUS
  <2> QED BY <2>1
<1>8. Nd(r, b) = Nd(s.c, b) BY <1>2, <1>6, <1>7 DEF Altered
<1> HIDE DEF r
<1>9. Live(r, b) /\ Nd(r, b).op # "FStsw" BY <1>6, <1>8 DEF Live
<1>10. Covers(r, s.u)
  <2>1. ASSUME NEW id \in Ids(s.c) PROVE UseCount(r)[id] <= s.u[id]
    <3>1. Sum(n.in, id) \in Nat BY SumNat
    <3>2. s.u[id] \in Int /\ UseCount(s.c)[id] <= s.u[id] BY <1>1 DEF Covers
    <3> DEFINE k == Sum(n.in, id)
    <3>3. /\ UseCount(s.c)[id] \in Nat /\ UseCount(r)[id] \in Nat
          /\ UseCount(r)[id] = (UseCount(s.c)[id] - k) + k
      BY <1>6
    <3>4. k \in Nat BY <3>1
    <3> HIDE DEF k
    <3> QED BY <3>2, <3>3, <3>4
  <2> QED BY <1>1, <1>6, <2>1 DEF Covers
<1>11. Whole(t) /\ Sound(t) /\ Covers(t, s.u) BY <1>6, <1>9, <1>10, RevalueTidy DEF Refit
<1> HIDE DEF t
<1>12. /\ [s EXCEPT !.c = t].c = t /\ [s EXCEPT !.c = t].u = s.u
       /\ DOMAIN [s EXCEPT !.c = t] = {"c", "u"}
  BY <1>1
<1> QED BY <1>11, <1>12 DEF Tidy, t, r

\* A comparison with zero that becomes a test.
LEMMA TestTidy ==
    ASSUME NEW s, Tidy(s), NEW i, Live(s.c, i), Nd(s.c, i).op = "FCmp",
           NEW a, a = Nd(s.c, i).in[1], NEW b, b = Nd(s.c, i).in[2],
           Live(s.c, b), Nd(s.c, b).op \in Values
    PROVE  LET t == [s EXCEPT !.c = Rewrite(s.c, i, "FTst", <<a, NoNode, Nd(s.c, i).in[3]>>)]
           IN  Tidy(DropUse(t, b))
<1> DEFINE n == Nd(s.c, i)
           in == <<a, NoNode, n.in[3]>>
           r == Rewrite(s.c, i, "FTst", in)
           t == [s EXCEPT !.c = r]
<1>1. Whole(s.c) /\ Sound(s.c) /\ Covers(s.c, s.u) /\ DOMAIN s = {"c", "u"} BY DEF Tidy
<1>2. i \in Ids(s.c) /\ b \in Ids(s.c) BY DEF Live
<1>3. /\ "FCmp" \in AtLeast1 /\ "FTst" \in AtLeast1 /\ "FCmp" \in AtLeast2
      /\ "FTst" \notin AtLeast2 /\ "FTst" \notin Ternary /\ "FCmp" \notin Ternary
      /\ "FTst" \notin WideOps /\ "FCmp" \notin WideOps /\ "FCmp" \notin Singular
  BY DEF AtLeast1, AtLeast2, Ternary, WideOps, Singular
<1>4. n.in[3] = -1 /\ n.f32 = FALSE /\ Fed(s.c, "FCmp", n.f32, n.in)
  <2>1. Trim("FCmp", n.in) /\ Fed(s.c, "FCmp", n.f32, n.in) /\ Exact(n) BY <1>1, SoundNode
  <2>2. n.op = "FCmp" OBVIOUS
  <2> HIDE DEF n
  <2> QED BY <1>3, <2>1, <2>2 DEF Trim, Exact
<1>5. i \in Int /\ i >= 0 /\ a \in 0..(i - 1) /\ b \in 0..(i - 1)
  BY <1>1, <1>2, <1>3, AtId, InputsOf
<1>6. in[1] = a /\ in[2] = -1 /\ in[3] = -1 BY <1>4 DEF NoNode
<1>7. Shape("FTst", in, i)
  <2>1. /\ a \in Int /\ a >= 0 /\ a < i /\ a >= -1 /\ NoNode \in Int /\ NoNode >= -1 /\ NoNode < i
    BY <1>5 DEF NoNode
  <2>2. n.in[3] \in Int /\ n.in[3] >= -1 /\ n.in[3] < i BY <1>4, <1>5
  <2> HIDE DEF n
  <2> QED BY <1>3, <1>5, <2>1, <2>2, ShapeOf
<1>8. \A id \in Ids(s.c) : Sum(in, id) = Once(a, id) /\ Sum(n.in, id) = Once(a, id) + Once(b, id)
  <2> SUFFICES ASSUME NEW id \in Ids(s.c)
               PROVE  Sum(in, id) = Once(a, id) /\ Sum(n.in, id) = Once(a, id) + Once(b, id)
    OBVIOUS
  <2>1. id # -1 BY <1>1, AtId
  <2>2. Once(-1, id) = 0 BY <2>1 DEF Once
  <2>3. Sum(in, id) = Once(a, id) + Once(-1, id) + Once(-1, id)
    <3> HIDE DEF in
    <3> QED BY <1>6 DEF Sum
  <2>4. Sum(n.in, id) = Once(a, id) + Once(b, id) + Once(-1, id) BY <1>4 DEF Sum
  <2>5. Once(a, id) \in Nat /\ Once(b, id) \in Nat BY DEF Once
  <2> HIDE DEF in, n
  <2> QED BY <2>2, <2>3, <2>4, <2>5
<1>9. Trim("FTst", in) /\ Fed(s.c, "FTst", n.f32, in)
  <2>1. a = n.in[1] /\ 1 \in 1..3 OBVIOUS
  <2> HIDE DEF in, n
  <2>2. Trim("FTst", in) BY <1>3, <1>6 DEF Trim
  <2>3. \A j \in 1..3 : in[j] >= 0 => in[j] = n.in[1]
    <3>1. \A j \in 1..3 : j = 1 \/ j = 2 \/ j = 3 OBVIOUS
    <3> QED BY <1>6, <2>1, <3>1
  <2> QED BY <1>3, <1>4, <2>1, <2>2, <2>3 DEF Fed
<1> HIDE DEF in
<1>10. /\ Altered(s.c, r, i) /\ Refit(s.c, r) /\ Sound(r) /\ Ids(r) = Ids(s.c)
       /\ \A id \in Ids(s.c) :
            /\ UseCount(s.c)[id] \in Nat /\ UseCount(r)[id] \in Nat
            /\ UseCount(r)[id] = (UseCount(s.c)[id] - Sum(n.in, id)) + Sum(in, id)
  <2>1. IsCompare(Nd(s.c, i)) /\ "FTst" # "FStsw" /\ "FTst" \in {"FCmp", "FTst"} BY DEF IsCompare
  <2>2. ~Nd(s.c, i).f32 BY <1>4
  <2> QED BY <1>1, <1>7, <1>9, <2>1, <2>2, RewriteTidy
<1>11. ~IsCompare(Nd(r, b))
  <2>1. b # i BY <1>5
  <2>2. Nd(r, b) = Nd(s.c, b) BY <1>2, <1>10, <2>1 DEF Altered
  <2> QED BY <2>2, ValueKinds
<1> HIDE DEF r
<1>12. t.c = r /\ t.u = s.u BY <1>1
<1> HIDE DEF t
<1>13. ASSUME NEW x \in Ids(s.c)
       PROVE  s.u[x] \in Int /\ UseCount(r)[x] <= IF x = b THEN s.u[x] - 1 ELSE s.u[x]
  <2>1. s.u[x] \in Int /\ UseCount(s.c)[x] <= s.u[x] BY <1>1 DEF Covers
  <2>2. Sum(in, x) = Once(a, x) /\ Sum(n.in, x) = Once(a, x) + Once(b, x) BY <1>8
  <2>3. Once(a, x) \in Nat /\ Once(b, x) = (IF x = b THEN 1 ELSE 0) BY DEF Once
  <2>4. /\ UseCount(s.c)[x] \in Nat /\ UseCount(r)[x] \in Nat
        /\ UseCount(r)[x] = (UseCount(s.c)[x] - Sum(n.in, x)) + Sum(in, x)
    BY <1>10
  <2> HIDE DEF n
  <2> QED BY <2>1, <2>2, <2>3, <2>4
<1>14. Tidy(DropUse(t, b))
  <2>1. Whole(t.c) /\ Sound(t.c) BY <1>10, <1>12 DEF Refit
  <2>2. DOMAIN t.u = Ids(t.c) BY <1>1, <1>10, <1>12 DEF Covers
  <2>3. b \in Ids(t.c) /\ ~IsCompare(Nd(t.c, b)) BY <1>2, <1>10, <1>11, <1>12
  <2>4. \A x \in Ids(t.c) : /\ t.u[x] \in Int
                            /\ UseCount(t.c)[x] <= IF x = b THEN t.u[x] - 1 ELSE t.u[x]
    BY <1>10, <1>12, <1>13
  <2> QED BY <2>1, <2>2, <2>3, <2>4, DropUseStep
<1> QED BY <1>14 DEF t, r, in

\* A turn of pass_const_arith.
LEMMA ConstArithTidy == ASSUME NEW s, Tidy(s), NEW i \in Ids(s.c) PROVE Tidy(const_arith(s, i))
<1> DEFINE n == Nd(s.c, i)
           a == n.in[1]
           b == n.in[2]
           y == F("div", One, Nd(s.c, b).v)
           rw == Rewrite(s.c, i, "FMul", n.in)
           div == [s EXCEPT !.c = [rw EXCEPT !.nodes[b + 1].v = y]]
           ts == [s EXCEPT !.c = Rewrite(s.c, i, "FTst", <<a, NoNode, n.in[3]>>)]
           tst == DropUse(ts, b)
           new == const_arith(s, i)
           o == n.op
           ca == Live(s.c, a) /\ Nd(s.c, a).op \in Values
           cb == Live(s.c, b) /\ Nd(s.c, b).op \in Values
           cd == Live(s.c, b) /\ Nd(s.c, b).op = "ConstF64"
           f1 == fold_to(s, i, a, b)
           f2 == fold_to(s, i, b, a)
<1>1. Whole(s.c) BY DEF Tidy
<1>2. \/ ~n.dead /\ o \in {"FMul", "FDiv", "FSub"} /\ cb /\ new = f1
      \/ ~n.dead /\ o \in {"FMul", "FDiv", "FSub"} /\ ca /\ new = f2
      \/ ~n.dead /\ o = "FDiv" /\ cd /\ new = div
      \/ ~n.dead /\ o = "FCmp" /\ cb /\ new = tst
      \/ new = s
  <2> DEFINE p1 == n.dead
             p2 == const_is(s.c, b, One)
             p3 == const_is(s.c, a, One)
             p4 == const_is(s.c, b, Zero)
             p5 == Live(s.c, b)
             p6 == /\ Nd(s.c, b).op = "ConstF64" /\ s.u[b] = 1
                   /\ \/ Pow2(Nd(s.c, b).v)
                      \/ "fast_recip_div" \in Config /\ Nd(s.c, b).v # Zero
  <2>1. new = IF p1 THEN s ELSE
              CASE o \in {"FMul", "FDiv"} /\ p2 -> f1
                [] o = "FMul" /\ p3 /\ ~p2 -> f2
                [] o = "FSub" /\ p4 -> f1
                [] o = "FDiv" /\ p5 /\ ~p2 -> IF p6 THEN div ELSE s
                [] o = "FCmp" /\ p4 -> tst
                [] OTHER -> s
    BY DEF const_arith
  <2>2. (p2 => cb) /\ (p3 => ca) /\ (p4 => cb) /\ (p5 /\ p6 => cd) BY DEF const_is, Values
  <2> HIDE DEF new, p1, p2, p3, p4, p5, p6, f1, f2, div, tst, o, ca, cb, cd
  <2>3. \/ ~p1 /\ o \in {"FMul", "FDiv", "FSub"} /\ cb /\ new = f1
        \/ ~p1 /\ o \in {"FMul", "FDiv", "FSub"} /\ ca /\ new = f2
        \/ ~p1 /\ o = "FDiv" /\ cd /\ new = div
        \/ ~p1 /\ o = "FCmp" /\ cb /\ new = tst
        \/ new = s
    BY <2>1, <2>2
  <2> QED BY <2>3 DEF p1
<1>3. ~n.dead => Live(s.c, i) BY DEF Live
<1>4. ASSUME ~n.dead, o \in {"FMul", "FDiv", "FSub"}
      PROVE  /\ cb => Tidy(f1)
             /\ ca => Tidy(f2)
  <2>1. o \in AtLeast2 BY <1>4 DEF AtLeast2
  <2>2. a \in 0..(i - 1) /\ b \in 0..(i - 1) /\ i \in Int /\ i < Len(s.c.nodes)
        /\ Len(s.c.nodes) \in Nat
    BY <1>1, <2>1, InputsOf, AtId
  <2>3. a \in Ids(s.c) /\ b \in Ids(s.c) /\ a < i /\ b < i
    <3> HIDE DEF n, a, b
    <3> QED BY <2>2 DEF Ids
  <2>4. Live(s.c, i) BY <1>3, <1>4
  <2>5. Nd(s.c, i).in[1] = a /\ Nd(s.c, i).in[2] = b /\ Nd(s.c, i).op \in {"FMul", "FDiv", "FSub"}
    BY <1>4
  <2> HIDE DEF n, a, b
  <2>6. ASSUME cb PROVE Tidy(f1)
    <3>1. Nd(s.c, b).op \in Values BY <2>6
    <3> QED BY <2>3, <2>4, <2>5, <3>1, FoldToStep
  <2>7. ASSUME ca PROVE Tidy(f2)
    <3>1. Nd(s.c, a).op \in Values BY <2>7
    <3> QED BY <2>3, <2>4, <2>5, <3>1, FoldToStep
  <2> QED BY <2>6, <2>7
<1>5. ASSUME ~n.dead, o = "FDiv", cd PROVE Tidy(div)
  <2>1. Live(s.c, i) /\ Nd(s.c, i).op = "FDiv" BY <1>3, <1>5
  <2>2. Live(s.c, b) /\ Nd(s.c, b).op = "ConstF64" BY <1>5
  <2> HIDE DEF b, y
  <2> QED BY <2>1, <2>2, RecipTidy
<1>6. ASSUME ~n.dead, o = "FCmp", cb PROVE Tidy(tst)
  <2>1. Live(s.c, i) /\ Nd(s.c, i).op = "FCmp" BY <1>3, <1>6
  <2>2. Live(s.c, b) /\ Nd(s.c, b).op \in Values BY <1>6
  <2>3. a = Nd(s.c, i).in[1] /\ b = Nd(s.c, i).in[2] OBVIOUS
  <2> HIDE DEF a, b
  <2> QED BY <2>1, <2>2, <2>3, TestTidy
<1> HIDE DEF new, f1, f2, div, tst, o, n, a, b, ca, cb, cd
<1>7. Tidy(new) BY <1>2, <1>4, <1>5, <1>6
<1> QED BY <1>7 DEF new

(***************************************************************************)
(* A narrowing takes over the operation it narrows.  On the way the table  *)
(* says too little of the values under the widenings; each of them is      *)
(* counted again before the next turn.                                     *)
(***************************************************************************)
Unwrap(t, w, r) == [DropUse(t, w) EXCEPT !.u = Bump(@, r, 1)]
\* The table has the nodes of the context.
Indexed(t) == DOMAIN t = {"c", "u"} /\ DOMAIN t.u = Ids(t.c) /\ \A x \in Ids(t.c) : t.u[x] \in Int

\* A use that goes when the table is right about the node used.
LEMMA DropAt ==
    ASSUME NEW t, Whole(t.c), Sound(t.c), Indexed(t), NEW w \in Ids(t.c),
           UseCount(t.c)[w] <= t.u[w] - 1, ~IsCompare(Nd(t.c, w))
    PROVE  LET d == DropUse(t, w)
           IN  /\ Indexed(d) /\ Refit(t.c, d.c) /\ Sound(d.c) /\ Ids(d.c) = Ids(t.c)
               /\ \A x \in Ids(t.c) :
                    /\ d.u[x] = t.u[x] - Once(w, x)
                    /\ UseCount(t.c)[x] \in Nat /\ UseCount(d.c)[x] \in Nat
                    /\ UseCount(d.c)[x] <= UseCount(t.c)[x]
                    /\ Nd(d.c, x).op = Nd(t.c, x).op
<1> DEFINE c == t.c
           v == [x \in Ids(c) |-> IF x = w THEN t.u[w] ELSE UseCount(c)[x]]
           s == [c |-> c, u |-> v]
           d == DropUse(t, w)
           g == DropUse(s, w)
<1>0. s.c = c /\ s.u = v OBVIOUS
<1>1. \A x \in Ids(c) : UseCount(c)[x] \in Nat BY Unused
<1>2. DOMAIN v = Ids(c) /\ v[w] = t.u[w] /\ \A x \in Ids(c) : x # w => v[x] = UseCount(c)[x]
  OBVIOUS
<1>3. DOMAIN t.u = Ids(c) /\ \A x \in Ids(c) : t.u[x] \in Int BY DEF Indexed
<1> HIDE DEF v
<1>4. ASSUME NEW x \in Ids(c)
      PROVE  v[x] \in Int /\ UseCount(c)[x] <= IF x = w THEN v[x] - 1 ELSE v[x]
  BY <1>1, <1>2, <1>3
<1> HIDE DEF s
<1>5. Tidy(g) /\ Refit(c, g.c) /\ \A x \in Ids(c) : UseCount(g.c)[x] <= UseCount(c)[x]
  <2>1. Whole(s.c) /\ Sound(s.c) /\ DOMAIN s.u = Ids(s.c) BY <1>0, <1>2
  <2>2. \A x \in Ids(s.c) : /\ s.u[x] \in Int
                            /\ UseCount(s.c)[x] <= IF x = w THEN s.u[x] - 1 ELSE s.u[x]
    BY <1>0, <1>4
  <2>3. w \in Ids(s.c) /\ ~IsCompare(Nd(s.c, w)) BY <1>0
  <2> QED BY <1>0, <2>1, <2>2, <2>3, DropUseStep
<1> DEFINE b == Bump(t.u, w, -1)
           z == Bump(v, w, -1)
<1>6. /\ DOMAIN b = Ids(c) /\ \A x \in Ids(c) : b[x] \in Int /\ b[x] = IF x = w THEN t.u[x] - 1 ELSE t.u[x]
  <2>1. -1 \in Int OBVIOUS
  <2> HIDE DEF b
  <2> QED BY <1>3, <2>1, BumpIs DEF b
<1>7. z[w] = v[w] - 1
  <2>1. -1 \in Int /\ \A x \in DOMAIN v : v[x] \in Int BY <1>2, <1>4
  <2> QED BY <1>2, <2>1, BumpIs
<1>8. b[w] = z[w] BY <1>2, <1>6, <1>7
<1>9. d = [c |-> IF b[w] = 0 THEN Kill(c, w) ELSE c, u |-> b] BY DEF DropUse
<1>10. g = [c |-> IF z[w] = 0 THEN Kill(c, w) ELSE c, u |-> z] BY <1>0 DEF DropUse
<1> HIDE DEF b, z
<1>11. d.c = g.c /\ d.u = b /\ DOMAIN d = {"c", "u"} /\ (d.c = c \/ d.c = Kill(c, w))
  BY <1>8, <1>9, <1>10
<1> HIDE DEF d, g
<1>12. Ids(d.c) = Ids(c) /\ Sound(d.c) /\ Refit(c, d.c) /\ Whole(d.c)
  BY <1>5, <1>11 DEF Refit, Ids, Tidy
<1>13. ASSUME NEW x \in Ids(c) PROVE Nd(d.c, x).op = Nd(c, x).op
  <2>1. CASE d.c = c BY <2>1
  <2>2. CASE d.c = Kill(c, w)
    <3>1. Altered(c, Kill(c, w), w) /\ Nd(Kill(c, w), w).op = Nd(c, w).op
      BY KillIs DEF Marked
    <3>2. x # w => Nd(Kill(c, w), x) = Nd(c, x) BY <3>1 DEF Altered
    <3> QED BY <2>2, <3>1, <3>2
  <2> QED BY <1>11, <2>1, <2>2
<1>14. Indexed(d) BY <1>6, <1>11, <1>12 DEF Indexed
<1>15. ASSUME NEW x \in Ids(c)
       PROVE  /\ d.u[x] = t.u[x] - Once(w, x)
              /\ UseCount(c)[x] \in Nat /\ UseCount(d.c)[x] \in Nat
              /\ UseCount(d.c)[x] <= UseCount(c)[x]
  <2>1. d.u[x] = t.u[x] - Once(w, x) BY <1>3, <1>6, <1>11 DEF Once
  <2>2. UseCount(d.c)[x] \in Nat BY <1>12, Unused
  <2> QED BY <1>1, <1>5, <1>11, <2>1, <2>2
<1> QED BY <1>12, <1>13, <1>14, <1>15 DEF d

\* The use of a widening is replaced by one of what it widens.
LEMMA UnwrapStep ==
    ASSUME NEW t, Whole(t.c), Sound(t.c), Indexed(t), NEW w \in Ids(t.c),
           UseCount(t.c)[w] <= t.u[w] - 1, ~IsCompare(Nd(t.c, w)), NEW r
    PROVE  LET d == Unwrap(t, w, r)
           IN  /\ Indexed(d) /\ Refit(t.c, d.c) /\ Sound(d.c) /\ Ids(d.c) = Ids(t.c)
               /\ \A x \in Ids(t.c) :
                    /\ d.u[x] = (t.u[x] - Once(w, x)) + Once(r, x)
                    /\ UseCount(t.c)[x] \in Nat /\ UseCount(d.c)[x] \in Nat
                    /\ UseCount(d.c)[x] <= UseCount(t.c)[x]
                    /\ Nd(d.c, x).op = Nd(t.c, x).op
<1> DEFINE c == t.c
           d == DropUse(t, w)
           g == [d EXCEPT !.u = Bump(@, r, 1)]
<1>1. /\ Indexed(d) /\ Refit(c, d.c) /\ Sound(d.c) /\ Ids(d.c) = Ids(c)
      /\ \A x \in Ids(c) :
           /\ d.u[x] = t.u[x] - Once(w, x)
           /\ UseCount(c)[x] \in Nat /\ UseCount(d.c)[x] \in Nat
           /\ UseCount(d.c)[x] <= UseCount(c)[x]
           /\ Nd(d.c, x).op = Nd(c, x).op
  BY DropAt
<1> HIDE DEF d
<1>2. g.c = d.c /\ g.u = Bump(d.u, r, 1) /\ DOMAIN g = {"c", "u"} BY <1>1 DEF Indexed
<1>3. Unwrap(t, w, r) = g BY DEF Unwrap, d
<1> HIDE DEF g
<1> DEFINE b == Bump(d.u, r, 1)
<1>4. /\ DOMAIN b = Ids(c) /\ \A x \in Ids(c) : b[x] \in Int /\ b[x] = IF x = r THEN d.u[x] + 1 ELSE d.u[x]
  <2>1. 1 \in Int /\ DOMAIN d.u = Ids(c) /\ \A x \in DOMAIN d.u : d.u[x] \in Int
    BY <1>1 DEF Indexed
  <2> HIDE DEF b
  <2> QED BY <2>1, BumpIs DEF b
<1> HIDE DEF b
<1>5. g.u = b BY <1>2 DEF b
<1>6. Indexed(g) BY <1>1, <1>2, <1>4, <1>5 DEF Indexed
<1>7. ASSUME NEW x \in Ids(c) PROVE g.u[x] = (t.u[x] - Once(w, x)) + Once(r, x)
  <2>1. t.u[x] \in Int /\ Once(w, x) \in Nat BY DEF Indexed, Once
  <2>2. d.u[x] = t.u[x] - Once(w, x) BY <1>1
  <2>3. Once(r, x) = IF x = r THEN 1 ELSE 0 BY DEF Once
  <2> QED BY <1>4, <1>5, <2>1, <2>2, <2>3
<1> QED BY <1>1, <1>2, <1>3, <1>6, <1>7

\* Two changes of one node.
LEMMA AlteredTrans ==
    ASSUME NEW c, NEW b, NEW a, NEW i, Altered(c, b, i), Altered(b, a, i) PROVE Altered(c, a, i)
<1>1. Ids(b) = Ids(c) BY AlteredCount
<1> QED BY <1>1 DEF Altered

\* What a widening widens is alive, has a float's width and is no widening.
LEMMA UnderWidening ==
    ASSUME NEW c, Whole(c), Sound(c), NEW w, Live(c, w), Nd(c, w).op = "CvtF32ToF64",
           NEW y, y = Nd(c, w).in[1]
    PROVE  /\ y \in Ids(c) /\ y \in Int /\ y >= 0 /\ y < w /\ Live(c, y) /\ IsF32(Nd(c, y))
           /\ Nd(c, y).op # "CvtF32ToF64" /\ ~IsCompare(Nd(c, w)) /\ w \in Ids(c) /\ w \in Int
<1>1. w \in Ids(c) BY DEF Live
<1>2. "CvtF32ToF64" \in AtLeast1 /\ "CvtF32ToF64" \in WideOps /\ "CvtF32ToF64" \notin Singular
  BY DEF AtLeast1, WideOps, Singular, Ternary
<1>3. w \in Int /\ y \in 0..(w - 1) BY <1>1, <1>2, InputsOf
<1>4. y \in Int /\ y >= 0 /\ y < w BY <1>3
<1>5. Fed(c, Nd(c, w).op, Nd(c, w).f32, Nd(c, w).in) BY SoundNode
<1>6. Live(c, y) /\ IsF32(Nd(c, y))
  <2>1. 1 \in 1..3 OBVIOUS
  <2> QED BY <1>2, <1>4, <1>5, <2>1 DEF Fed
<1>7. y \in Ids(c) BY <1>6 DEF Live
<1>8. Nd(c, y).op # "CvtF32ToF64"
  <2>1. Exact(Nd(c, y)) BY <1>6, SoundNode
  <2> QED BY <1>2, <1>6, <2>1 DEF Exact, IsF32
<1>9. ~IsCompare(Nd(c, w)) BY DEF IsCompare
<1> QED BY <1>1, <1>3, <1>4, <1>6, <1>7, <1>8, <1>9

\* Node i, a narrowing of x that nothing else uses, becomes the operation x
\* was, on the values under x's widened inputs w1 and w2; x dies.
Widens(c, op, w2, y2) ==
    \/ Arity(op) = 1 /\ y2 = -1
    \/ Arity(op) = 2 /\ Live(c, w2) /\ Nd(c, w2).op = "CvtF32ToF64" /\ y2 = Nd(c, w2).in[1]
Flip(s, i, x, op, in) ==
    [c |-> Kill([Rewrite(s.c, i, op, in) EXCEPT !.nodes[i + 1].f32 = TRUE], x),
     u |-> [s.u EXCEPT ![x] = 0]]
Narrowing(s, i, x, op, z, w1, w2, y1, y2) ==
    /\ Tidy(s) /\ Live(s.c, i) /\ Nd(s.c, i).op = "CvtF64ToF32"
    /\ x = Nd(s.c, i).in[1] /\ z = Nd(s.c, i).in[3]
    /\ Live(s.c, x) /\ s.u[x] = 1 /\ op = Nd(s.c, x).op
    /\ w1 = Nd(s.c, x).in[1] /\ Live(s.c, w1) /\ Nd(s.c, w1).op = "CvtF32ToF64"
    /\ w2 = Nd(s.c, x).in[2] /\ y1 = Nd(s.c, w1).in[1] /\ Widens(s.c, op, w2, y2)
\* Rewired and killed, the context is sound again, and the table still covers
\* its uses but for those of the values w1 and w2 that now go to y1 and y2.
LEMMA NarrowFlip ==
    ASSUME NEW s, NEW i, NEW x, NEW op, NEW z, NEW w1, NEW w2, NEW y1, NEW y2,
           Narrowing(s, i, x, op, z, w1, w2, y1, y2)
    PROVE  LET t == Flip(s, i, x, op, <<y1, y2, z>>)
           IN  /\ Indexed(t) /\ Refit(s.c, t.c) /\ Sound(t.c) /\ Ids(t.c) = Ids(s.c)
               /\ \A id \in Ids(s.c) :
                    /\ UseCount(t.c)[id] \in Nat
                    /\ UseCount(t.c)[id] + Once(w1, id) + Once(w2, id)
                         <= t.u[id] + Once(y1, id) + Once(y2, id)
                    /\ id # i => Nd(t.c, id).op = Nd(s.c, id).op
<1> DEFINE c == s.c
           n == Nd(c, i)
           xn == Nd(c, x)
           in == <<y1, y2, z>>
           rw == Rewrite(c, i, op, in)
           mk == [rw EXCEPT !.nodes[i + 1].f32 = TRUE]
           kl == Kill(mk, x)
           m == Nd(mk, i)
           t == Flip(s, i, x, op, in)
<1>0. /\ Tidy(s) /\ Live(c, i) /\ n.op = "CvtF64ToF32" /\ x = n.in[1] /\ z = n.in[3]
      /\ Live(c, x) /\ s.u[x] = 1 /\ op = xn.op /\ w1 = xn.in[1] /\ w2 = xn.in[2]
      /\ Live(c, w1) /\ Nd(c, w1).op = "CvtF32ToF64" /\ y1 = Nd(c, w1).in[1]
      /\ Widens(c, op, w2, y2)
  BY DEF Narrowing
<1>1. Whole(c) /\ Sound(c) /\ Covers(c, s.u) /\ DOMAIN s = {"c", "u"} BY <1>0 DEF Tidy
<1>2. i \in Ids(c) /\ x \in Ids(c) /\ ~n.dead /\ ~xn.dead BY <1>0 DEF Live
<1>3. Arity(op) \in {1, 2} BY <1>0 DEF Widens
<1>4. /\ op \in AtLeast1 /\ op \notin Ternary /\ op \in Singular /\ (op \in AtLeast2 <=> Arity(op) = 2)
      /\ op \notin WideOps /\ op # "FStsw" /\ op \notin {"FCmp", "FTst"}
  <2>1. op \in {"FAdd", "FSub", "FMul", "FDiv", "FNMul", "FNeg", "FAbs", "FSqrt"}
    BY <1>3 DEF Arity
  <2>2. op \in Singular /\ op \notin WideOps /\ op # "FStsw" /\ op \notin {"FCmp", "FTst"}
    BY <2>1 DEF Singular, WideOps
  <2> QED BY <1>3, <2>2, ArityFacts
<1>5. /\ "CvtF64ToF32" \in AtLeast1 /\ "CvtF64ToF32" \notin AtLeast2
      /\ "CvtF64ToF32" \notin Ternary /\ "CvtF64ToF32" \notin Doubles
  BY DEF AtLeast1, AtLeast2, Ternary, Doubles, Narrows
<1>6. i \in Int /\ i >= 0 /\ x \in Int /\ x >= 0 /\ x < i /\ n.in[2] = -1 /\ z = -1
  <2>1. i \in Int /\ i >= 0 /\ x \in 0..(i - 1) BY <1>0, <1>1, <1>2, <1>5, AtId, InputsOf
  <2>2. Trim(n.op, n.in) BY <1>0, <1>1, SoundNode
  <2>3. n.in[2] = -1 /\ z = -1 BY <1>0, <1>5, <2>2 DEF Trim
  <2> QED BY <2>1, <2>3
<1>7. w1 \in Int /\ w2 \in Int /\ w1 < x /\ w2 < x /\ xn.in[3] = -1 /\ (Arity(op) = 1 => w2 = -1)
  <2>1. \A j \in 1..3 : xn.in[j] \in Int /\ xn.in[j] < x BY <1>0, <1>1, <1>2, <1>4, InputsOf
  <2>2. 1 \in 1..3 /\ 2 \in 1..3 OBVIOUS
  <2>3. Trim(op, xn.in) BY <1>0, <1>1, <1>4, SoundNode
  <2>4. xn.in[3] = -1 /\ (Arity(op) = 1 => w2 = -1) BY <1>0, <1>4, <2>3 DEF Trim
  <2> QED BY <1>0, <2>1, <2>2, <2>4
<1>8. y1 \in Int /\ y1 >= 0 /\ y1 < w1 /\ Live(c, y1) /\ IsF32(Nd(c, y1)) BY <1>0, <1>1, UnderWidening
<1>9. \/ Arity(op) = 1 /\ y2 = -1 /\ w2 = -1
      \/ Arity(op) = 2 /\ y2 \in Int /\ y2 >= 0 /\ y2 < w2 /\ Live(c, y2) /\ IsF32(Nd(c, y2))
  <2>0. Widens(c, op, w2, y2) BY <1>0
  <2> HIDE DEF c, n, xn
  <2>1. CASE Arity(op) = 1 BY <1>7, <2>0, <2>1 DEF Widens
  <2>2. CASE Arity(op) = 2
    <3>1. Live(c, w2) /\ Nd(c, w2).op = "CvtF32ToF64" /\ y2 = Nd(c, w2).in[1]
      BY <2>0, <2>2 DEF Widens
    <3>2. y2 \in Int /\ y2 >= 0 /\ y2 < w2 /\ Live(c, y2) /\ IsF32(Nd(c, y2))
      BY <1>1, <3>1, UnderWidening
    <3> QED BY <2>2, <3>2
  <2> QED BY <1>3, <2>1, <2>2
<1>10. in[1] = y1 /\ in[2] = y2 /\ in[3] = -1 BY <1>6
<1>11. Shape(op, in, i)
  <2>1. /\ y1 >= -1 /\ y1 < i /\ y2 \in Int /\ y2 >= -1 /\ y2 < i
        /\ z \in Int /\ z >= -1 /\ z < i
    BY <1>6, <1>7, <1>8, <1>9
  <2>2. op \in AtLeast2 => y2 >= 0 BY <1>4, <1>9
  <2>3. op \in Ternary => z >= 0 BY <1>4
  <2>4. op \in AtLeast1 => y1 >= 0 BY <1>8
  <2> HIDE DEF n, xn
  <2> QED BY <1>6, <1>8, <2>1, <2>2, <2>3, <2>4, ShapeOf
<1>12. Altered(c, rw, i) /\ Refit(c, rw) /\ Nd(rw, i).op = op /\ Nd(rw, i).in = in
       /\ Nd(rw, i).dead = n.dead /\ Nd(rw, i).fused = n.fused
  <2> HIDE DEF in
  <2> QED BY <1>1, <1>2, <1>11, RewriteIs
<1> HIDE DEF rw, in
<1>13. Altered(rw, mk, i) /\ Refit(rw, mk) /\ Marked(Nd(rw, i), m, Nd(rw, i).dead, TRUE)
  <2>1. Whole(rw) /\ i \in Ids(rw) BY <1>2, <1>12 DEF Refit, Ids
  <2> QED BY <2>1, FlagIs
<1> HIDE DEF mk
<1>14. /\ Altered(c, mk, i) /\ Refit(c, mk) /\ Ids(mk) = Ids(c)
       /\ m.op = op /\ m.in = in /\ m.dead = n.dead /\ m.f32 = TRUE /\ m.fused = n.fused
  BY <1>12, <1>13, AlteredTrans, RefitTrans DEF Marked, Refit, Ids
<1>15. n.in[3] = -1 /\ n.op = "CvtF64ToF32" /\ xn.op = op /\ x = n.in[1] /\ w1 = xn.in[1] /\ w2 = xn.in[2]
  BY <1>0, <1>6 DEF n, xn
<1> HIDE DEF m, n, xn
<1>16. Sound(mk)
  <2>1. LikeNode(n, m) BY <1>5, <1>14, <1>15 DEF LikeNode, Wide, IsF32, IsCompare
  <2>2. Exact(m)
    <3>1. op \notin AtLeast2 => y2 = -1 BY <1>4, <1>9
    <3> QED BY <1>4, <1>10, <1>14, <3>1 DEF Exact
  <2>3. Served(c, m)
    <3>1. ASSUME NEW j \in 1..3, m.in[j] >= 0 PROVE Live(c, m.in[j]) /\ IsF32(Nd(c, m.in[j]))
      <4>1. j = 1 \/ j = 2 \/ j = 3 OBVIOUS
      <4>2. m.in[j] = y1 \/ (m.in[j] = y2 /\ y2 # -1)
        BY <1>10, <1>14, <3>1, <4>1
      <4> QED BY <1>8, <1>9, <4>2
    <3> QED BY <1>14, <3>1 DEF Served, Serves, Wants
  <2>4. ~m.dead /\ m.op # "FStsw" BY <1>2, <1>4, <1>14 DEF n
  <2> QED BY <1>1, <1>14, <2>1, <2>2, <2>3, <2>4, AlterSound DEF n, m
<1>17. ASSUME NEW id \in Ids(c)
       PROVE  /\ UseCount(c)[id] \in Nat /\ UseCount(mk)[id] \in Nat
              /\ UseCount(mk)[id] = (UseCount(c)[id] - Once(x, id)) + (Once(y1, id) + Once(y2, id))
  <2>1. id # -1 BY <1>1, AtId
  <2>2. Once(-1, id) = 0 BY <2>1 DEF Once
  <2>3. UsesOf(n, id) = Once(x, id) + Once(-1, id) + Once(-1, id)
    BY <1>2, <1>6, <1>15 DEF UsesOf
  <2>4. UsesOf(m, id) = Once(y1, id) + Once(y2, id) + Once(-1, id)
    BY <1>2, <1>10, <1>14 DEF UsesOf
  <2>5. /\ UseCount(c)[id] \in Nat /\ UseCount(mk)[id] \in Nat
        /\ UseCount(mk)[id] = (UseCount(c)[id] - UsesOf(n, id)) + UsesOf(m, id)
    BY <1>14, AlteredCount DEF n, m
  <2>6. Once(x, id) \in Nat /\ Once(y1, id) \in Nat /\ Once(y2, id) \in Nat BY DEF Once
  <2> QED BY <2>2, <2>3, <2>4, <2>5, <2>6
<1>18. UseCount(mk)[x] <= 0
  <2>1. Once(x, x) = 1 /\ Once(y1, x) = 0 /\ Once(y2, x) = 0
    <3>1. y1 # x /\ y2 # x BY <1>6, <1>7, <1>8, <1>9
    <3> QED BY <3>1 DEF Once
  <2>2. UseCount(c)[x] <= 1 BY <1>0, <1>1, <1>2 DEF Covers
  <2> QED BY <1>2, <1>17, <2>1, <2>2
<1>19. Nd(mk, x) = xn /\ ~xn.dead
  <2>1. x # i BY <1>6
  <2> QED BY <1>2, <1>14, <2>1 DEF Altered, xn
<1> DEFINE v == UseCount(mk)
<1>20. Covers(mk, v)
  <2>1. DOMAIN v = Ids(mk) BY DEF UseCount
  <2>2. \A id \in Ids(mk) : v[id] \in Nat BY <1>14, <1>17
  <2> HIDE DEF v
  <2>3. \A id \in Ids(mk) : v[id] \in Int /\ v[id] <= v[id] BY <2>2
  <2> QED BY <2>1, <2>3 DEF Covers, v
<1>21. /\ Refit(mk, kl) /\ Sound(kl) /\ Ids(kl) = Ids(c)
       /\ \A id \in Ids(c) : UseCount(kl)[id] =
            UseCount(mk)[id] - (Once(xn.in[1], id) + Once(xn.in[2], id) + Once(xn.in[3], id))
  <2>1. Whole(mk) /\ x \in Ids(mk) BY <1>2, <1>14 DEF Refit
  <2>2. ~IsCompare(Nd(mk, x)) BY <1>4, <1>15, <1>19 DEF IsCompare
  <2> HIDE DEF v
  <2>3. /\ Refit(mk, kl) /\ Sound(kl) /\ Ids(kl) = Ids(mk)
        /\ \A id \in Ids(mk) : ~Nd(mk, x).dead => UseCount(kl)[id] = UseCount(mk)[id] -
             (Once(Nd(mk, x).in[1], id) + Once(Nd(mk, x).in[2], id) + Once(Nd(mk, x).in[3], id))
    BY <1>16, <1>18, <1>20, <2>1, <2>2, KillStep
  <2> QED BY <1>14, <1>19, <2>3
<1>22. Nd(kl, x).op = xn.op /\ \A id \in Ids(c) : id # x => Nd(kl, id) = Nd(mk, id)
  <2>1. Whole(mk) /\ x \in Ids(mk) BY <1>2, <1>14 DEF Refit
  <2>2. Altered(mk, kl, x) /\ Nd(kl, x).op = Nd(mk, x).op BY <2>1, KillIs DEF Marked
  <2> QED BY <1>14, <1>19, <2>2 DEF Altered
<1> HIDE DEF kl
<1>23. t = [c |-> kl, u |-> [s.u EXCEPT ![x] = 0]] BY DEF Flip, kl, mk, rw, in
<1>24. t.c = kl /\ t.u = [s.u EXCEPT ![x] = 0] /\ DOMAIN t = {"c", "u"} BY <1>23
<1> HIDE DEF t
<1>25. /\ DOMAIN t.u = Ids(c)
       /\ \A id \in Ids(c) : t.u[id] \in Int /\ t.u[id] = IF id = x THEN 0 ELSE s.u[id]
  BY <1>1, <1>2, <1>24 DEF Covers
<1>26. Indexed(t) /\ Refit(c, t.c) /\ Sound(t.c) /\ Ids(t.c) = Ids(c)
  <2>1. Refit(c, kl) BY <1>14, <1>21, RefitTrans
  <2> QED BY <1>21, <1>24, <1>25, <2>1 DEF Indexed
<1>27. ASSUME NEW id \in Ids(c)
       PROVE  /\ UseCount(kl)[id] \in Nat
              /\ UseCount(kl)[id] + Once(w1, id) + Once(w2, id)
                   <= t.u[id] + Once(y1, id) + Once(y2, id)
  <2>1. UseCount(kl)[id] \in Nat
    <3>1. Whole(kl) /\ id \in Ids(kl) BY <1>21 DEF Refit
    <3> QED BY <3>1, Unused
  <2>2. Once(xn.in[3], id) = 0
    <3>1. id # -1 BY <1>1, AtId
    <3> QED BY <1>7, <3>1 DEF Once, xn
  <2>3. UseCount(kl)[id] = UseCount(mk)[id] - (Once(w1, id) + Once(w2, id) + Once(xn.in[3], id))
    BY <1>15, <1>21
  <2>4. /\ Once(x, id) = (IF id = x THEN 1 ELSE 0) /\ Once(w1, id) \in Nat /\ Once(w2, id) \in Nat
        /\ Once(y1, id) \in Nat /\ Once(y2, id) \in Nat
    BY DEF Once
  <2>5. s.u[id] \in Int /\ UseCount(c)[id] <= s.u[id] BY <1>1 DEF Covers
  <2>6. UseCount(mk)[id] \in Nat /\ UseCount(c)[id] \in Nat
        /\ UseCount(mk)[id] = (UseCount(c)[id] - Once(x, id)) + (Once(y1, id) + Once(y2, id))
    BY <1>17
  <2>7. t.u[id] = IF id = x THEN 0 ELSE s.u[id] BY <1>25
  <2>8. CASE id = x
    <3>1. UseCount(mk)[id] <= 0 BY <1>18, <2>8
    <3> QED BY <2>1, <2>2, <2>3, <2>4, <2>6, <2>7, <2>8, <3>1
  <2>9. CASE id # x BY <2>1, <2>2, <2>3, <2>4, <2>5, <2>6, <2>7, <2>9
  <2> QED BY <2>8, <2>9
<1>28. ASSUME NEW id \in Ids(c), id # i PROVE Nd(kl, id).op = Nd(c, id).op
  <2>1. id # x => Nd(kl, id) = Nd(c, id) BY <1>14, <1>22, <1>28 DEF Altered
  <2>2. id = x => Nd(kl, id).op = Nd(c, id).op BY <1>22 DEF xn
  <2> QED BY <2>1, <2>2
<1> QED BY <1>24, <1>26, <1>27, <1>28 DEF t, in

\* The table is right again once both uses are counted.
LEMMA NarrowDone ==
    ASSUME NEW s, NEW i, NEW x, NEW op, NEW z, NEW w1, NEW w2, NEW y1, NEW y2,
           Narrowing(s, i, x, op, z, w1, w2, y1, y2)
    PROVE  LET t == Flip(s, i, x, op, <<y1, y2, z>>)
               d == Unwrap(t, w1, y1)
           IN  /\ Arity(op) = 1 => Tidy(d)
               /\ Arity(op) = 2 => Tidy(Unwrap(d, w2, y2))
<1> DEFINE c == s.c
           t == Flip(s, i, x, op, <<y1, y2, z>>)
           d == Unwrap(t, w1, y1)
           g == Unwrap(d, w2, y2)
<1>0. /\ Whole(c) /\ Sound(c) /\ Live(c, i) /\ Nd(c, i).op = "CvtF64ToF32" /\ Live(c, x)
      /\ Live(c, w1) /\ Nd(c, w1).op = "CvtF32ToF64" /\ y1 = Nd(c, w1).in[1]
      /\ Widens(c, op, w2, y2) /\ w2 = Nd(c, x).in[2] /\ op = Nd(c, x).op
  BY DEF Narrowing, Tidy
<1>1. /\ Indexed(t) /\ Refit(c, t.c) /\ Sound(t.c) /\ Ids(t.c) = Ids(c)
      /\ \A id \in Ids(c) :
           /\ UseCount(t.c)[id] \in Nat
           /\ UseCount(t.c)[id] + Once(w1, id) + Once(w2, id)
                <= t.u[id] + Once(y1, id) + Once(y2, id)
           /\ id # i => Nd(t.c, id).op = Nd(c, id).op
  BY NarrowFlip
<1> HIDE DEF t
<1>2. /\ w1 \in Ids(c) /\ w1 # i /\ y1 # w1
      /\ Nd(c, y1).op # "CvtF32ToF64" /\ y1 \in Ids(c)
  BY <1>0, UnderWidening
<1>3. \/ Arity(op) = 1 /\ y2 = -1 /\ w2 = -1
      \/ /\ Arity(op) = 2 /\ w2 \in Ids(c) /\ w2 # i /\ y2 # w2 /\ y2 \in Ids(c)
         /\ Nd(c, w2).op = "CvtF32ToF64" /\ Nd(c, y2).op # "CvtF32ToF64"
  <2>1. CASE Arity(op) = 1
    <3>1. y2 = -1 BY <1>0, <2>1 DEF Widens
    <3>2. op \notin AtLeast2 /\ op # "FStsw"
      <4>1. op \notin AtLeast2 /\ op \in AtLeast1 BY <2>1, ArityFacts
      <4> QED BY <4>1 DEF AtLeast1, AtLeast2, Ternary
    <3>3. Trim(op, Nd(c, x).in) BY <1>0, <3>2, SoundNode
    <3> QED BY <1>0, <2>1, <3>1, <3>2, <3>3 DEF Trim
  <2>2. CASE Arity(op) = 2
    <3>1. Live(c, w2) /\ Nd(c, w2).op = "CvtF32ToF64" /\ y2 = Nd(c, w2).in[1]
      BY <1>0, <2>2 DEF Widens
    <3>2. w2 \in Ids(c) /\ w2 # i /\ y2 # w2 /\ Nd(c, y2).op # "CvtF32ToF64" /\ y2 \in Ids(c)
      BY <1>0, <3>1, UnderWidening
    <3> QED BY <2>2, <3>1, <3>2
  <2>3. Arity(op) = 1 \/ Arity(op) = 2 BY <1>0 DEF Widens
  <2> QED BY <2>1, <2>2, <2>3
<1>4. \A id \in Ids(c) : /\ Once(w1, id) \in Nat /\ Once(w2, id) \in Nat /\ Once(y1, id) \in Nat
                         /\ Once(y2, id) \in Nat /\ t.u[id] \in Int
  BY <1>1 DEF Once, Indexed
<1>5. Once(w1, w1) = 1 /\ Once(y1, w1) = 0 /\ Once(y2, w1) = 0
  <2>1. y1 # w1 /\ y2 # w1
    <3>1. w1 # -1 BY <1>0, <1>2, AtId
    <3> QED BY <1>0, <1>2, <1>3, <3>1
  <2> QED BY <2>1 DEF Once
<1>6. UseCount(t.c)[w1] <= t.u[w1] - 1
  <2>1. /\ UseCount(t.c)[w1] \in Nat
        /\ UseCount(t.c)[w1] + Once(w1, w1) + Once(w2, w1)
             <= t.u[w1] + Once(y1, w1) + Once(y2, w1)
    BY <1>1, <1>2
  <2>2. Once(w2, w1) \in Nat /\ t.u[w1] \in Int BY <1>2, <1>4
  <2> QED BY <1>5, <2>1, <2>2
<1>7. /\ Indexed(d) /\ Refit(t.c, d.c) /\ Sound(d.c) /\ Ids(d.c) = Ids(c)
      /\ \A id \in Ids(c) :
           /\ d.u[id] = (t.u[id] - Once(w1, id)) + Once(y1, id)
           /\ UseCount(d.c)[id] \in Nat
           /\ UseCount(d.c)[id] <= UseCount(t.c)[id]
           /\ Nd(d.c, id).op = Nd(t.c, id).op
  <2>1. Whole(t.c) /\ w1 \in Ids(t.c) /\ ~IsCompare(Nd(t.c, w1))
    BY <1>0, <1>1, <1>2 DEF Refit, IsCompare
  <2>2. /\ Indexed(d) /\ Refit(t.c, d.c) /\ Sound(d.c) /\ Ids(d.c) = Ids(t.c)
        /\ \A id \in Ids(t.c) :
           /\ d.u[id] = (t.u[id] - Once(w1, id)) + Once(y1, id)
           /\ UseCount(t.c)[id] \in Nat /\ UseCount(d.c)[id] \in Nat
           /\ UseCount(d.c)[id] <= UseCount(t.c)[id]
           /\ Nd(d.c, id).op = Nd(t.c, id).op
    BY <1>1, <1>6, <2>1, UnwrapStep
  <2> QED BY <1>1, <2>2
<1> HIDE DEF d
<1>8. ASSUME NEW id \in Ids(c)
      PROVE  /\ d.u[id] \in Int
             /\ UseCount(d.c)[id] + Once(w2, id) <= d.u[id] + Once(y2, id)
  <2>1. /\ UseCount(t.c)[id] \in Nat
        /\ UseCount(t.c)[id] + Once(w1, id) + Once(w2, id)
             <= t.u[id] + Once(y1, id) + Once(y2, id)
    BY <1>1
  <2>2. /\ d.u[id] = (t.u[id] - Once(w1, id)) + Once(y1, id)
        /\ UseCount(d.c)[id] \in Nat /\ UseCount(d.c)[id] <= UseCount(t.c)[id]
    BY <1>7
  <2>3. /\ Once(w1, id) \in Nat /\ Once(w2, id) \in Nat /\ Once(y1, id) \in Nat
        /\ Once(y2, id) \in Nat /\ t.u[id] \in Int
    BY <1>4
  <2> QED BY <2>1, <2>2, <2>3
<1>9. ASSUME Arity(op) = 1 PROVE Tidy(d)
  <2>1. ASSUME NEW id \in Ids(c) PROVE UseCount(d.c)[id] <= d.u[id]
    <3>1. id # -1 BY <1>0, AtId
    <3>2. Once(w2, id) = 0 /\ Once(y2, id) = 0 BY <1>3, <1>9, <3>1 DEF Once
    <3> QED BY <1>7, <1>8, <3>2
  <2> QED BY <1>7, <1>8, <2>1 DEF Tidy, Covers, Indexed, Refit
<1>10. ASSUME Arity(op) = 2 PROVE Tidy(g)
  <2>1. /\ w2 \in Ids(c) /\ w2 # i /\ y2 # w2 /\ Nd(c, w2).op = "CvtF32ToF64"
    BY <1>3, <1>10
  <2>2. Once(w2, w2) = 1 /\ Once(y2, w2) = 0 BY <2>1 DEF Once
  <2>3. UseCount(d.c)[w2] <= d.u[w2] - 1
    <3>1. /\ d.u[w2] \in Int /\ UseCount(d.c)[w2] \in Nat
          /\ UseCount(d.c)[w2] + Once(w2, w2) <= d.u[w2] + Once(y2, w2)
      BY <1>7, <1>8, <2>1
    <3> QED BY <2>2, <3>1
  <2>4. Whole(d.c) /\ w2 \in Ids(d.c) /\ ~IsCompare(Nd(d.c, w2))
    BY <1>1, <1>7, <2>1 DEF Refit, IsCompare
  <2>5. /\ Indexed(g) /\ Refit(d.c, g.c) /\ Sound(g.c) /\ Ids(g.c) = Ids(d.c)
        /\ \A id \in Ids(d.c) :
             /\ g.u[id] = (d.u[id] - Once(w2, id)) + Once(y2, id)
             /\ UseCount(d.c)[id] \in Nat /\ UseCount(g.c)[id] \in Nat
             /\ UseCount(g.c)[id] <= UseCount(d.c)[id]
    BY <1>7, <2>3, <2>4, UnwrapStep
  <2> HIDE DEF g
  <2>6. ASSUME NEW id \in Ids(c) PROVE g.u[id] \in Int /\ UseCount(g.c)[id] <= g.u[id]
    <3>1. d.u[id] \in Int /\ UseCount(d.c)[id] + Once(w2, id) <= d.u[id] + Once(y2, id)
      BY <1>8
    <3>2. /\ g.u[id] = (d.u[id] - Once(w2, id)) + Once(y2, id)
          /\ UseCount(d.c)[id] \in Nat /\ UseCount(g.c)[id] \in Nat
          /\ UseCount(g.c)[id] <= UseCount(d.c)[id]
      BY <1>7, <2>5
    <3>3. Once(w2, id) \in Nat /\ Once(y2, id) \in Nat BY <1>4
    <3> QED BY <3>1, <3>2, <3>3
  <2> QED BY <1>7, <2>5, <2>6 DEF Tidy, Covers, Indexed, Refit
<1> QED BY <1>9, <1>10 DEF d, t

\* A turn of pass_f32_narrow.
LEMMA NarrowTidy == ASSUME NEW s, Tidy(s), NEW i \in Ids(s.c) PROVE Tidy(f32_narrow(s, i))
<1> DEFINE n == Nd(s.c, i)
           x == n.in[1]
           xn == Nd(s.c, x)
           ar == Arity(xn.op)
           wide(j) == Live(s.c, xn.in[j]) /\ Nd(s.c, xn.in[j]).op = "CvtF32ToF64"
           raw(j) == IF j <= ar THEN Nd(s.c, xn.in[j]).in[1] ELSE NoNode
           y1 == raw(1)
           y2 == raw(2)
           w1 == xn.in[1]
           w2 == xn.in[2]
           z == n.in[3]
           flip == Flip(s, i, x, xn.op, <<y1, y2, z>>)
           u1 == Unwrap(flip, w1, y1)
           u2 == Unwrap(u1, w2, y2)
           cond == /\ ~n.dead /\ n.op = "CvtF64ToF32"
                   /\ Live(s.c, x) /\ ~xn.f32 /\ ar > 0 /\ s.u[x] = 1
                   /\ \A j \in 1..ar : wide(j)
           new == f32_narrow(s, i)
<1>1. new = IF cond THEN IF ar = 1 THEN u1 ELSE u2 ELSE s
  BY DEF f32_narrow, Unwrap, Flip
<1>2. ASSUME cond PROVE Narrowing(s, i, x, xn.op, z, w1, w2, y1, y2) /\ ar \in {1, 2}
  <2>1. ar \in {1, 2} BY <1>2, ArityFacts
  <2>2. Live(s.c, i) BY <1>2 DEF Live
  <2>3. 1 \in 1..ar /\ (ar = 2 => 2 \in 1..ar) /\ (ar = 1 => ~(2 <= ar))
    <3> HIDE DEF ar
    <3> QED BY <2>1
  <2>4. wide(1) /\ y1 = Nd(s.c, w1).in[1]
    <3>1. 1 <= ar
      <4> HIDE DEF ar
      <4> QED BY <2>1
    <3> QED BY <1>2, <2>3, <3>1
  <2>5. Widens(s.c, xn.op, w2, y2)
    <3>1. CASE ar = 1
      <4>1. y2 = -1 BY <2>3, <3>1 DEF NoNode
      <4> QED BY <3>1, <4>1 DEF Widens
    <3>2. CASE ar = 2
      <4>1. wide(2) BY <1>2, <2>3, <3>2
      <4>2. y2 = Nd(s.c, w2).in[1] BY <3>2
      <4> QED BY <3>2, <4>1, <4>2 DEF Widens
    <3> QED BY <2>1, <3>1, <3>2
  <2>6. n.op = "CvtF64ToF32" /\ Live(s.c, x) /\ s.u[x] = 1 BY <1>2
  <2> HIDE DEF y1, y2
  <2> QED BY <2>1, <2>2, <2>4, <2>5, <2>6 DEF Narrowing
<1>3. ASSUME cond PROVE Tidy(IF ar = 1 THEN u1 ELSE u2)
  <2> DEFINE op == xn.op
  <2>1. Narrowing(s, i, x, op, z, w1, w2, y1, y2) /\ Arity(op) \in {1, 2} BY <1>2, <1>3
  <2> HIDE DEF op, x, z, w1, w2, y1, y2
  <2>2. /\ Arity(op) = 1 => Tidy(Unwrap(Flip(s, i, x, op, <<y1, y2, z>>), w1, y1))
        /\ Arity(op) = 2 => Tidy(Unwrap(Unwrap(Flip(s, i, x, op, <<y1, y2, z>>), w1, y1), w2, y2))
    BY <2>1, NarrowDone
  <2>3. (ar = 1 => Tidy(u1)) /\ (ar = 2 => Tidy(u2)) BY <2>2 DEF op
  <2>4. ar \in {1, 2} BY <2>1 DEF op
  <2> HIDE DEF u1, u2, ar
  <2> QED BY <2>3, <2>4
<1> HIDE DEF cond, new, u1, u2, ar
<1>4. Tidy(new) BY <1>1, <1>3
<1> QED BY <1>4 DEF new

(***************************************************************************)
(* The passes that walk the nodes with the table.                          *)
(***************************************************************************)
GoodPass(c, s) == Tidy(s) /\ PassWell(c, s)
CAu == INSTANCE LoopProofs WITH Step <- const_arith, Good <- GoodPass
DSu == INSTANCE LoopProofs WITH Step <- dse, Good <- GoodPass
FNu == INSTANCE LoopProofs WITH Step <- fneg_fold, Good <- GoodPass
FMu == INSTANCE LoopProofs WITH Step <- fma, Good <- GoodPass
NRu == INSTANCE LoopProofs WITH Step <- f32_narrow, Good <- GoodPass
SFu == INSTANCE LoopProofs WITH Step <- f32_fma, Good <- GoodPass

\* A pass starts with the table that is right.
LEMMA CountedTidy == ASSUME NEW c, Whole(c), Sound(c) PROVE Tidy(Counted(c))
<1>1. Counted(c) = [c |-> c, u |-> UseCount(c)] BY DEF Counted
<1>2. DOMAIN UseCount(c) = Ids(c) BY DEF UseCount
<1>3. \A id \in Ids(c) : UseCount(c)[id] \in Nat BY Unused
<1>4. Covers(c, UseCount(c))
  <2> DEFINE u == UseCount(c)
  <2>1. DOMAIN u = Ids(c) /\ \A id \in Ids(c) : u[id] \in Nat BY <1>2, <1>3
  <2> HIDE DEF u
  <2>2. \A id \in Ids(c) : u[id] \in Int /\ u[id] <= u[id] BY <2>1
  <2> QED BY <2>1, <2>2 DEF Covers, u
<1> QED BY <1>1, <1>4 DEF Tidy

\* The passes that scan the nodes with the table keep every use.
LEMMA ScansSound ==
    ASSUME NEW c, Whole(c), Sound(c)
    PROVE  /\ Sound(pass_const_arith(c)) /\ Sound(pass_dse(c)) /\ Sound(pass_fneg_fold(c))
           /\ Sound(pass_fma(c)) /\ Sound(pass_f32_narrow(c)) /\ Sound(pass_f32_fma(c))
<1> DEFINE s0 == Counted(c)
           q == IdSeq(c)
           r == IdSeqDown(c) \o IdSeqDown(c)
<1>1. Len(q) \in Nat /\ \A k \in 1..Len(q) : q[k] \in Ids(c) BY IdSeqs
<1>2. Len(r) \in Nat /\ \A k \in 1..Len(r) : r[k] \in Ids(c) BY IdSeqs
<1>3. GoodPass(c, s0) BY CountedWell, CountedTidy DEF GoodPass
<1>4. /\ pass_const_arith(c) = ConstArith!Over(s0, q).c /\ pass_dse(c) = Dse!Over(s0, r).c
      /\ pass_fneg_fold(c) = FnegFold!Over(s0, q).c /\ pass_fma(c) = Fma!Over(s0, q).c
      /\ pass_f32_narrow(c) = F32Narrow!Over(s0, q).c /\ pass_f32_fma(c) = F32Fma!Over(s0, q).c
  BY DEF pass_const_arith, pass_dse, pass_fneg_fold, pass_fma, pass_f32_narrow, pass_f32_fma
<1> HIDE DEF s0, q, r
<1>5. ASSUME NEW x, GoodPass(c, x), NEW i \in Ids(c)
      PROVE  /\ GoodPass(c, const_arith(x, i)) /\ GoodPass(c, dse(x, i))
             /\ GoodPass(c, fneg_fold(x, i)) /\ GoodPass(c, fma(x, i))
             /\ GoodPass(c, f32_narrow(x, i)) /\ GoodPass(c, f32_fma(x, i))
  <2>0. PassWell(c, x) /\ Tidy(x) BY <1>5 DEF GoodPass
  <2>1. Whole(x.c) /\ i \in Ids(x.c) /\ DOMAIN x = {"c", "u"} BY <1>5, <2>0, PassWhole
  <2>2. Fit(x, const_arith(x, i)) BY <2>1, ConstArithStep DEF Fit
  <2>3. /\ Fit(x, dse(x, i)) /\ Fit(x, fneg_fold(x, i)) /\ Fit(x, fma(x, i))
        /\ Fit(x, f32_narrow(x, i)) /\ Fit(x, f32_fma(x, i))
    BY <2>1, DseStep, FnegStep, FmaSteps, NarrowStep
  <2>4. /\ Tidy(const_arith(x, i)) /\ Tidy(dse(x, i)) /\ Tidy(fneg_fold(x, i))
        /\ Tidy(fma(x, i)) /\ Tidy(f32_narrow(x, i)) /\ Tidy(f32_fma(x, i))
    BY <2>0, <2>1, ConstArithTidy, DseTidy, FnegTidy, FmaTidy, NarrowTidy
  <2> QED BY <2>0, <2>2, <2>3, <2>4, FitWell DEF GoodPass
<1>6. GoodPass(c, CAu!Over(s0, q)) BY <1>1, <1>3, <1>5, CAu!LoopKeeps
<1>7. GoodPass(c, DSu!Over(s0, r)) BY <1>2, <1>3, <1>5, DSu!LoopKeeps
<1>8. GoodPass(c, FNu!Over(s0, q)) BY <1>1, <1>3, <1>5, FNu!LoopKeeps
<1>9. GoodPass(c, FMu!Over(s0, q)) BY <1>1, <1>3, <1>5, FMu!LoopKeeps
<1>10. GoodPass(c, NRu!Over(s0, q)) BY <1>1, <1>3, <1>5, NRu!LoopKeeps
<1>11. GoodPass(c, SFu!Over(s0, q)) BY <1>1, <1>3, <1>5, SFu!LoopKeeps
<1>12. CAu!Over(s0, q) = ConstArith!Over(s0, q)
  BY DEF CAu!Over, ConstArith!Over, CAu!Turns, ConstArith!Turns
<1>13. DSu!Over(s0, r) = Dse!Over(s0, r) BY DEF DSu!Over, Dse!Over, DSu!Turns, Dse!Turns
<1>14. FNu!Over(s0, q) = FnegFold!Over(s0, q)
  BY DEF FNu!Over, FnegFold!Over, FNu!Turns, FnegFold!Turns
<1>15. FMu!Over(s0, q) = Fma!Over(s0, q) BY DEF FMu!Over, Fma!Over, FMu!Turns, Fma!Turns
<1>16. NRu!Over(s0, q) = F32Narrow!Over(s0, q)
  BY DEF NRu!Over, F32Narrow!Over, NRu!Turns, F32Narrow!Turns
<1>17. SFu!Over(s0, q) = F32Fma!Over(s0, q)
  BY DEF SFu!Over, F32Fma!Over, SFu!Turns, F32Fma!Turns
<1> QED BY <1>4, <1>6, <1>7, <1>8, <1>9, <1>10, <1>11, <1>12, <1>13, <1>14, <1>15, <1>16, <1>17
        DEF GoodPass, Tidy

(***************************************************************************)
(* The compares.                                                           *)
(***************************************************************************)
\* What node i of a context that was just built is like.
LEMMA NewNode ==
    ASSUME NEW c, Built(c), NEW i \in Ids(c)
    PROVE  New(c, Nd(c, i), i) /\ Live(c, i) /\ ~Nd(c, i).dead
<1>1. Whole(c) /\ News(c) BY DEF Built
<1>2. i + 1 \in 1..Len(c.nodes) /\ (i + 1) - 1 = i BY <1>1, AtId
<1>3. New(c, c.nodes[i + 1], (i + 1) - 1) BY <1>1, <1>2 DEF News
<1>4. New(c, Nd(c, i), i) BY <1>2, <1>3 DEF Nd
<1> QED BY <1>4 DEF New, Live

\* While a run is built every use is alive.
LEMMA BuiltSound == ASSUME NEW c, Built(c) PROVE Sound(c)
<1>1. Whole(c) /\ Mapped(c) BY DEF Built
<1>2. ASSUME NEW i \in Ids(c) PROVE Exact(Nd(c, i)) /\ Served(c, Nd(c, i))
  <2> DEFINE n == Nd(c, i)
  <2>1. New(c, n, i) BY NewNode
  <2>2. ASSUME NEW j \in 1..3, n.op # "FStsw", n.in[j] >= 0 PROVE Serves(c, n, n.in[j])
    <3> DEFINE x == n.in[j]
    <3>1. x \in Sources(c, n.op) /\ n.f32 = FALSE BY <2>1, <2>2 DEF New
    <3>2. x \in Ids(c) /\ IF n.op \in WideOps THEN IsF32(Nd(c, x)) ELSE Wide(Nd(c, x))
      BY <3>1 DEF Sources, Wides, Singles
    <3>3. Live(c, x) BY <3>2, NewNode
    <3> HIDE DEF n, x
    <3>4. Serves(c, n, x) BY <3>1, <3>2, <3>3 DEF Serves, Wants
    <3> QED BY <3>4 DEF x
  <2> HIDE DEF n
  <2>3. Served(c, n) BY <2>2 DEF Served
  <2> QED BY <2>1, <2>3 DEF New, n
<1>3. ASSUME NEW d \in Depth, c.slot[d] >= 0 PROVE Live(c, c.slot[d]) /\ Wide(Nd(c, c.slot[d]))
  <2>1. c.slot[d] \in Wides(c) BY <1>1, <1>3 DEF Mapped
  <2> QED BY <2>1, NewNode DEF Wides
<1>4. ASSUME NEW k \in Ids(c), Nd(c, k).op = "FStsw" PROVE Names(c, Nd(c, k), k, Nd(c, k).in[1])
  <2> DEFINE n == Nd(c, k)
             f == n.in[1]
  <2>1. New(c, n, k) BY NewNode
  <2>2. Follows(c, k, f) /\ n.fused = FALSE BY <1>4, <2>1 DEF New
  <2>3. k \in Int /\ k >= 0 /\ k < Len(c.nodes) /\ Len(c.nodes) \in Nat BY <1>1, AtId
  <2> HIDE DEF n, f
  <2>4. CASE f = -1 BY <2>2, <2>4 DEF Names, n, f
  <2>5. CASE f # -1
    <3>1. f \in 0..(k - 1) /\ \A l \in f..(k - 1) : IsCompare(Nd(c, l)) <=> l = f
      BY <2>2, <2>5 DEF Follows
    <3>2. f \in f..(k - 1) /\ f \in Ids(c) BY <2>3, <3>1 DEF Ids
    <3>3. IsCompare(Nd(c, f)) /\ Live(c, f) BY <3>1, <3>2, NewNode
    <3> QED BY <2>2, <3>1, <3>3 DEF Names, n, f
  <2> QED BY <2>4, <2>5
<1>5. Uses(c) BY <1>2, <1>3 DEF Uses
<1>6. Handed(c) BY <1>4 DEF Handed
<1> QED BY <1>5, <1>6 DEF Sound

\* Nodes of b have the operation, the inputs and the width they have in c.
Remarked(c, b) ==
    /\ Whole(c) /\ Whole(b) /\ Ids(b) = Ids(c) /\ b.slot = c.slot
    /\ \A x \in Ids(c) : Nd(b, x).op = Nd(c, x).op /\ Nd(b, x).in = Nd(c, x).in
                         /\ Nd(b, x).f32 = Nd(c, x).f32

\* Only compares died, or nothing.
LEMMA RemarkedUses ==
    ASSUME NEW c, NEW b, Remarked(c, b), Uses(c),
           \A x \in Ids(c) : Live(b, x) => Live(c, x),
           \A x \in Ids(c) : Live(c, x) /\ ~Live(b, x) => IsCompare(Nd(c, x))
    PROVE  Uses(b)
<1>1. ASSUME NEW x, Live(c, x), ~IsCompare(Nd(c, x))
      PROVE  /\ Live(b, x) /\ (Wide(Nd(c, x)) => Wide(Nd(b, x)))
             /\ IsF32(Nd(c, x)) => IsF32(Nd(b, x))
  <2>1. x \in Ids(c) BY <1>1 DEF Live
  <2> QED BY <1>1, <2>1 DEF Remarked, Wide, IsF32
<1>2. ASSUME NEW i \in Ids(c) PROVE Exact(Nd(b, i)) /\ (Live(b, i) => Served(b, Nd(b, i)))
  <2>1. Nd(b, i).op = Nd(c, i).op /\ Nd(b, i).in = Nd(c, i).in /\ Nd(b, i).f32 = Nd(c, i).f32
    BY DEF Remarked
  <2>2. Exact(Nd(c, i)) BY DEF Uses
  <2>3. Exact(Nd(b, i)) BY <2>1, <2>2 DEF Exact
  <2>4. ASSUME Live(b, i), NEW j \in 1..3, Nd(b, i).op # "FStsw", Nd(b, i).in[j] >= 0
        PROVE  Serves(b, Nd(b, i), Nd(b, i).in[j])
    <3> DEFINE n == Nd(c, i)
               x == n.in[j]
    <3>1. Served(c, n) BY <2>4 DEF Uses
    <3>2. Serves(c, n, x) BY <2>1, <2>4, <3>1 DEF Served
    <3>3. Live(c, x) /\ x \in Ids(c) BY <3>2 DEF Serves, Live
    <3>4. Exact(Nd(c, x)) BY <3>3 DEF Uses
    <3>5. ~IsCompare(Nd(c, x)) BY <3>2, <3>4, ValueKinds DEF Serves
    <3>6. Nd(b, i).in[j] = x /\ (Wants(Nd(b, i)) <=> Wants(n)) BY <2>1 DEF Wants
    <3> HIDE DEF n, x
    <3>7. /\ Live(b, x) /\ (Wide(Nd(c, x)) => Wide(Nd(b, x)))
          /\ IsF32(Nd(c, x)) => IsF32(Nd(b, x))
      BY <1>1, <3>3, <3>5
    <3> QED BY <3>2, <3>6, <3>7 DEF Serves
  <2> QED BY <2>3, <2>4 DEF Served
<1>3. ASSUME NEW d \in Depth, b.slot[d] >= 0 PROVE Live(b, b.slot[d]) /\ Wide(Nd(b, b.slot[d]))
  <2>1. b.slot[d] = c.slot[d] BY DEF Remarked
  <2>2. Live(c, c.slot[d]) /\ Wide(Nd(c, c.slot[d])) BY <1>3, <2>1 DEF Uses
  <2>3. ~IsCompare(Nd(c, c.slot[d])) BY <2>2, ValueKinds
  <2> QED BY <1>1, <2>1, <2>2, <2>3
<1>4. Ids(b) = Ids(c) BY DEF Remarked
<1> QED BY <1>2, <1>3, <1>4 DEF Uses

\* pass_dead_compares never kills the compare an FSTSW names.
LEMMA DeadComparesSound == ASSUME NEW c, Built(c) PROVE Sound(pass_dead_compares(c))
<1> DEFINE live == {i \in Ids(c) : Live(c, i)}
           S == {i \in live : /\ IsCompare(Nd(c, i))
                              /\ \E j \in live :
                                   /\ j > i /\ IsCompare(Nd(c, j))
                                   /\ \A l \in live : i < l /\ l < j => Nd(c, l).op # "FStsw"}
           b == pass_dead_compares(c)
           f == [x \in DOMAIN c.nodes |-> [c.nodes[x] EXCEPT !.dead = @ \/ (x - 1) \in S]]
<1>0. Whole(c) /\ Sound(c) BY BuiltSound DEF Built
<1>1. Tabled(c) /\ DOMAIN c.nodes = 1..Len(c.nodes) /\ Len(c.nodes) \in Nat
  BY <1>0, WholeTabled, LenNat DEF Whole
<1>2. b = [c EXCEPT !.nodes = f] BY DEF pass_dead_compares, KillAll
<1>3. Refit(c, b) BY <1>0, KillAllRefit DEF pass_dead_compares
<1>4. live = Ids(c) BY NewNode
<1>5. \A i \in Ids(c) : i \in S =>
         /\ IsCompare(Nd(c, i))
         /\ \E j \in Ids(c) : /\ j > i /\ IsCompare(Nd(c, j))
                              /\ \A l \in Ids(c) : i < l /\ l < j => Nd(c, l).op # "FStsw"
  BY <1>4
<1> HIDE DEF S, live, b
<1>6. b.nodes = f /\ b.slot = c.slot
  <2>1. "nodes" \in DOMAIN c BY <1>1 DEF Tabled
  <2> HIDE DEF f
  <2> QED BY <1>2, <2>1
<1>7. ASSUME NEW x \in Ids(c)
      PROVE  /\ Nd(b, x).op = Nd(c, x).op /\ Nd(b, x).in = Nd(c, x).in
             /\ Nd(b, x).f32 = Nd(c, x).f32 /\ Nd(b, x).fused = Nd(c, x).fused
             /\ Nd(b, x).dead = (x \in S)
  <2> DEFINE n == c.nodes[x + 1]
             v == n.dead \/ ((x + 1) - 1) \in S
  <2>1. x + 1 \in DOMAIN c.nodes /\ (x + 1) - 1 = x BY <1>0, <1>1, AtId
  <2>2. DOMAIN n = NodeFields BY <1>1, <2>1 DEF Tabled
  <2>3. f[x + 1] = [n EXCEPT !.dead = v] BY <2>1
  <2>4. n = Nd(c, x) /\ Nd(b, x) = f[x + 1] BY <1>6 DEF Nd
  <2>5. n.dead = FALSE
    <3>1. New(c, Nd(c, x), x) BY NewNode
    <3> QED BY <2>4, <3>1 DEF New
  <2>6. v = (x \in S) BY <2>1, <2>5
  <2> HIDE DEF n, f, v
  <2>7. /\ f[x + 1].op = n.op /\ f[x + 1].in = n.in /\ f[x + 1].f32 = n.f32
        /\ f[x + 1].fused = n.fused /\ f[x + 1].dead = v
    BY <2>2, <2>3 DEF NodeFields
  <2> QED BY <2>4, <2>6, <2>7
<1> HIDE DEF f
<1>8. Ids(b) = Ids(c) /\ Whole(b) BY <1>3 DEF Refit, Ids
<1>9. \A x \in Ids(c) : Live(c, x) /\ (Live(b, x) <=> x \notin S)
  BY <1>7, <1>8, NewNode DEF Live
<1>10. Uses(b)
  <2>1. Remarked(c, b) BY <1>0, <1>6, <1>7, <1>8 DEF Remarked
  <2>2. Uses(c) BY <1>0 DEF Sound
  <2>3. \A x \in Ids(c) : Live(c, x) /\ ~Live(b, x) => IsCompare(Nd(c, x)) BY <1>5, <1>9
  <2>4. \A x \in Ids(c) : Live(b, x) => Live(c, x) BY <1>9
  <2> QED BY <2>1, <2>2, <2>3, <2>4, RemarkedUses
<1>11. ASSUME NEW k \in Ids(c), Nd(c, k).op = "FStsw", NEW g, g = Nd(c, k).in[1], g # -1
       PROVE  g \in 0..(k - 1) /\ g \in Ids(c) /\ IsCompare(Nd(c, g)) /\ g \notin S
  <2>1. Follows(c, k, g) BY <1>11, NewNode DEF New
  <2>2. k \in Int /\ k >= 0 /\ k < Len(c.nodes) BY <1>0, AtId
  <2>3. g \in 0..(k - 1) /\ \A l \in g..(k - 1) : IsCompare(Nd(c, l)) <=> l = g
    BY <1>11, <2>1 DEF Follows
  <2>4. g \in g..(k - 1) /\ g \in Ids(c) BY <1>1, <2>2, <2>3 DEF Ids
  <2>5. ASSUME g \in S PROVE FALSE
    <3>1. PICK j \in Ids(c) : /\ j > g /\ IsCompare(Nd(c, j))
                              /\ \A l \in Ids(c) : g < l /\ l < j => Nd(c, l).op # "FStsw"
      BY <1>5, <2>4, <2>5
    <3>2. j \in Int BY <1>0, AtId
    <3>3. ~(j < k)
      <4>1. ASSUME j < k PROVE FALSE
        <5>1. j \in g..(k - 1) /\ j # g BY <2>2, <2>3, <3>1, <3>2, <4>1
        <5> QED BY <2>3, <3>1, <5>1
      <4> QED BY <4>1
    <3>4. j # k BY <1>11, <3>1 DEF IsCompare
    <3>5. g < k /\ k < j BY <2>2, <2>3, <3>2, <3>3, <3>4
    <3> QED BY <1>11, <3>1, <3>5
  <2> QED BY <2>3, <2>4, <2>5
<1>12. ASSUME NEW k \in Ids(c), Nd(b, k).op = "FStsw"
       PROVE  Names(b, Nd(b, k), k, Nd(b, k).in[1])
  <2> DEFINE g == Nd(c, k).in[1]
  <2>1. /\ Nd(c, k).op = "FStsw" /\ Nd(b, k).in[1] = g
        /\ Nd(b, k).fused = FALSE
    <3>1. New(c, Nd(c, k), k) BY NewNode
    <3> QED BY <1>7, <1>12, <3>1 DEF New
  <2> HIDE DEF g
  <2>2. CASE g = -1 BY <2>1, <2>2 DEF Names
  <2>3. CASE g # -1
    <3>1. g \in 0..(k - 1) /\ g \in Ids(c) /\ IsCompare(Nd(c, g)) /\ g \notin S
      BY <1>11, <2>1, <2>3 DEF g
    <3>2. Live(b, g) /\ IsCompare(Nd(b, g)) BY <1>7, <1>9, <3>1 DEF IsCompare
    <3> QED BY <2>1, <3>1, <3>2 DEF Names
  <2> QED BY <2>2, <2>3
<1>13. Handed(b) BY <1>8, <1>12 DEF Handed
<1> QED BY <1>10, <1>13 DEF Sound, b

\* pass_fcom_fstsw_fusion marks a compare with each FSTSW it marks.
LEMMA FusionSound == ASSUME NEW c, Whole(c), Sound(c) PROVE Sound(pass_fcom_fstsw_fusion(c))
<1> DEFINE S == UNION {{p[1], p[2]} : p \in FusedPairs(c)}
           m(x) == [c.nodes[x] EXCEPT !.fused = @ \/ (x - 1) \in S]
           f == [x \in DOMAIN c.nodes |-> m(x)]
           b == pass_fcom_fstsw_fusion(c)
           P == {l \in Ids(c) : /\ Live(c, l) /\ Nd(c, l).op = "FStsw"
                                /\ Nd(c, l).in[1] \in Ids(c)
                                /\ IsCompare(Nd(c, Nd(c, l).in[1]))
                                /\ Clean(c, l, Nd(c, l).in[1])}
<1>1. Tabled(c) /\ DOMAIN c.nodes = 1..Len(c.nodes) /\ Len(c.nodes) \in Nat
  BY WholeTabled, LenNat DEF Whole
<1>2. b = [c EXCEPT !.nodes = f] BY DEF pass_fcom_fstsw_fusion
<1>3. FusedPairs(c) = {<<i, Nd(c, i).in[1]>> : i \in P} BY DEF FusedPairs
<1>4. \A x : x \in S <=> \E i \in P : x = i \/ x = Nd(c, i).in[1]
  <2> HIDE DEF P
  <2>1. \A p \in FusedPairs(c) : \E i \in P : p[1] = i /\ p[2] = Nd(c, i).in[1] BY <1>3
  <2>2. \A i \in P : <<i, Nd(c, i).in[1]>> \in FusedPairs(c) BY <1>3
  <2>3. ASSUME NEW x, x \in S PROVE \E i \in P : x = i \/ x = Nd(c, i).in[1]
    <3>1. PICK p \in FusedPairs(c) : x \in {p[1], p[2]} BY <2>3
    <3> QED BY <2>1, <3>1
  <2>4. ASSUME NEW i \in P PROVE i \in S /\ Nd(c, i).in[1] \in S
    <3> DEFINE p == <<i, Nd(c, i).in[1]>>
    <3>1. p \in FusedPairs(c) BY <2>2
    <3>2. p[1] = i /\ p[2] = Nd(c, i).in[1] OBVIOUS
    <3> HIDE DEF p
    <3>3. p[1] \in S /\ p[2] \in S BY <3>1
    <3> QED BY <3>2, <3>3
  <2> HIDE DEF S
  <2> QED BY <2>3, <2>4
<1>5. Refit(c, b) BY KillAllRefit DEF pass_fcom_fstsw_fusion
<1>6. \A i \in P : Nd(c, i).op = "FStsw" /\ IsCompare(Nd(c, Nd(c, i).in[1])) /\ Nd(c, i).in[1] \in Ids(c)
  OBVIOUS
<1> HIDE DEF S, b, P
<1>7. b.nodes = f /\ b.slot = c.slot
  <2>1. "nodes" \in DOMAIN c BY <1>1 DEF Tabled
  <2> HIDE DEF f
  <2> QED BY <1>2, <2>1
<1>8. ASSUME NEW x \in Ids(c)
      PROVE  /\ Nd(b, x).op = Nd(c, x).op /\ Nd(b, x).in = Nd(c, x).in
             /\ Nd(b, x).f32 = Nd(c, x).f32 /\ Nd(b, x).dead = Nd(c, x).dead
             /\ Nd(b, x).fused <=> Nd(c, x).fused \/ x \in S
  <2> DEFINE n == c.nodes[x + 1]
             v == n.fused \/ ((x + 1) - 1) \in S
  <2>1. x + 1 \in DOMAIN c.nodes /\ (x + 1) - 1 = x BY <1>1, AtId
  <2>2. DOMAIN n = NodeFields BY <1>1, <2>1 DEF Tabled
  <2>3. f[x + 1] = [n EXCEPT !.fused = v] BY <2>1
  <2>4. n = Nd(c, x) /\ Nd(b, x) = f[x + 1] BY <1>7 DEF Nd
  <2>5. v <=> n.fused \/ x \in S BY <2>1
  <2> HIDE DEF n, f, v, m
  <2>6. /\ f[x + 1].op = n.op /\ f[x + 1].in = n.in /\ f[x + 1].f32 = n.f32
        /\ f[x + 1].dead = n.dead /\ f[x + 1].fused = v
    BY <2>2, <2>3 DEF NodeFields
  <2>7. f[x + 1].fused <=> n.fused \/ x \in S BY <2>5, <2>6, Zenon
  <2> QED BY <2>4, <2>6, <2>7
<1> HIDE DEF f
<1>9. Ids(b) = Ids(c) /\ Whole(b) BY <1>5 DEF Refit, Ids
<1>10. \A x \in Ids(c) : Live(b, x) <=> Live(c, x) BY <1>8, <1>9 DEF Live
<1>11. Uses(b)
  <2>1. Remarked(c, b) BY <1>7, <1>8, <1>9 DEF Remarked
  <2>2. Uses(c) BY DEF Sound
  <2> QED BY <1>10, <2>1, <2>2, RemarkedUses
<1>12. ASSUME NEW k \in Ids(c), Live(b, k), Nd(b, k).op = "FStsw"
       PROVE  Names(b, Nd(b, k), k, Nd(b, k).in[1])
  <2> DEFINE g == Nd(c, k).in[1]
  <2>1. Live(c, k) /\ Nd(c, k).op = "FStsw" /\ Nd(b, k).in[1] = g BY <1>8, <1>10, <1>12
  <2>2. Names(c, Nd(c, k), k, g) BY <2>1 DEF Sound, Handed
  <2>3. k \in S => g \in S /\ g \in Ids(c)
    <3>1. ASSUME k \in S PROVE g \in S /\ g \in Ids(c)
      <4>1. PICK i \in P : k = i \/ k = Nd(c, i).in[1] BY <1>4, <3>1
      <4>2. k = i BY <1>6, <2>1, <4>1 DEF IsCompare
      <4>3. g \in S BY <1>4, <4>1, <4>2
      <4> QED BY <1>6, <4>1, <4>2, <4>3
    <3> QED BY <3>1
  <2> HIDE DEF g
  <2>4. CASE g = -1
    <3>1. -1 \notin Ids(c) BY <1>1 DEF Ids
    <3>2. k \notin S /\ ~Nd(c, k).fused
      <4>1. ~(g \in 0..(k - 1)) BY <2>4
      <4> QED BY <2>2, <2>3, <2>4, <3>1, <4>1 DEF Names
    <3> QED BY <1>8, <2>1, <2>4, <3>2 DEF Names
  <2>5. CASE g # -1
    <3>1. /\ g \in 0..(k - 1) /\ Live(c, g) /\ IsCompare(Nd(c, g))
          /\ Nd(c, k).fused => Nd(c, g).fused
      BY <2>2, <2>5 DEF Names
    <3>2. g \in Ids(c) BY <3>1 DEF Live
    <3>3. Live(b, g) /\ IsCompare(Nd(b, g)) BY <1>8, <1>10, <3>1, <3>2 DEF IsCompare
    <3>4. Nd(b, k).fused => Nd(b, g).fused BY <1>8, <2>3, <3>1, <3>2
    <3> QED BY <2>1, <3>1, <3>3, <3>4 DEF Names
  <2> QED BY <2>4, <2>5
<1>13. Handed(b) BY <1>9, <1>12 DEF Handed
<1> QED BY <1>11, <1>13 DEF Sound, b

(***************************************************************************)
(* Chains of f32 arithmetic.                                               *)
(***************************************************************************)
RoundWell(c, s) == DOMAIN s = {"c", "set"} /\ s.c = c /\ s.set \subseteq Ids(c)
RD == INSTANCE LoopProofs WITH Step <- f32_round, Good <- RoundWell

\* After one round per node no member of the set is ineligible: a round that
\* is not the last drops one.
LEMMA EligibleFixed ==
    ASSUME NEW c, Whole(c), NEW E0, E0 \subseteq Ids(c)
    PROVE  Eligible(c, E0) \subseteq E0 /\ Ineligible(c, Eligible(c, E0)) = {}
<1> DEFINE s0 == [c |-> c, set |-> E0]
           q == IdSeq(c)
           T == RD!Turns(s0, q)
           L == Len(c.nodes)
           G(k) == /\ DOMAIN T[k] = {"c", "set"} /\ T[k].c = c /\ T[k].set \subseteq E0
                   /\ Ineligible(c, T[k].set) = {} \/ Cardinality(T[k].set) <= L - k
           S == {k \in Nat : k <= L => G(k)}
<1>1. L \in Nat /\ Len(q) = L BY LenNat DEF Whole, IdSeq
<1>2. T[0] = s0 /\ \A k \in 1..L : T[k] = f32_round(T[k - 1], q[k])
  <2>1. Len(q) \in Nat BY <1>1
  <2> HIDE DEF s0, q
  <2>2. /\ RD!Turns(s0, q)[0] = s0
        /\ \A k \in 1..Len(q) : RD!Turns(s0, q)[k] = f32_round(RD!Turns(s0, q)[k - 1], q[k])
    BY <2>1, RD!TurnsFollow
  <2> QED BY <1>1, <2>2
<1>3. Eligible(c, E0) = T[L].set
  <2>1. RD!Over(s0, q) = F32Rounds!Over(s0, q)
    BY DEF RD!Over, F32Rounds!Over, RD!Turns, F32Rounds!Turns
  <2>2. RD!Over(s0, q) = T[Len(q)] BY DEF RD!Over
  <2>3. Eligible(c, E0) = F32Rounds!Over(s0, q).set BY DEF Eligible
  <2> HIDE DEF T, s0, q
  <2> QED BY <1>1, <2>1, <2>2, <2>3
<1>4. s0.c = c /\ s0.set = E0 /\ DOMAIN s0 = {"c", "set"} OBVIOUS
<1> HIDE DEF T, s0, q, L
<1>5. IsFiniteSet(E0) /\ Cardinality(E0) \in Nat /\ Cardinality(E0) <= L
  <2>1. Ids(c) = 0..(L - 1) BY DEF Ids, L
  <2>2. 0 \in Int /\ L - 1 \in Int BY <1>1
  <2>3. IsFiniteSet(Ids(c)) /\ Cardinality(Ids(c)) = IF 0 > L - 1 THEN 0 ELSE (L - 1) - 0 + 1
    BY <2>1, <2>2, FS_Interval
  <2>4. Cardinality(Ids(c)) = L BY <1>1, <2>3
  <2>5. IsFiniteSet(E0) /\ Cardinality(E0) <= Cardinality(Ids(c)) BY <2>3, FS_Subset
  <2>6. Cardinality(E0) \in Nat BY <2>5, FS_CardinalityType
  <2> QED BY <2>4, <2>5, <2>6
<1>6. 0 \in S
  <2>1. G(0) BY <1>1, <1>2, <1>4, <1>5
  <2> HIDE DEF G
  <2> QED BY <2>1
<1>7. ASSUME NEW k \in Nat, k \in S PROVE k + 1 \in S
  <2> SUFFICES ASSUME k + 1 <= L PROVE G(k + 1)
    <3> HIDE DEF G
    <3> QED OBVIOUS
  <2> DEFINE s == T[k]
             A == s.set
             B == A \ Ineligible(c, A)
             t == T[k + 1]
  <2>1. G(k)
    <3> HIDE DEF G
    <3>1. k <= L BY <1>1
    <3> QED BY <1>7, <3>1
  <2>2. t = f32_round(s, q[k + 1])
    <3>1. k + 1 \in 1..L /\ (k + 1) - 1 = k BY <1>1
    <3> QED BY <1>2, <3>1
  <2>3. DOMAIN s = {"c", "set"} /\ s.c = c /\ A \subseteq E0 BY <2>1
  <2>4. t = [s EXCEPT !.set = A \ Ineligible(s.c, A)] BY <2>2 DEF f32_round
  <2> HIDE DEF s, t
  <2>5. DOMAIN t = {"c", "set"} /\ t.c = c /\ t.set = B BY <2>3, <2>4
  <2>6. Ineligible(c, A) = {} \/ Cardinality(A) <= L - k BY <2>1 DEF s
  <2>7. IsFiniteSet(A) /\ Cardinality(A) \in Nat
    BY <1>5, <2>3, FS_Subset, FS_CardinalityType
  <2>8. Ineligible(c, A) \subseteq A BY DEF Ineligible
  <2> HIDE DEF A
  <2>9. CASE Ineligible(c, A) = {}
    <3>1. B = A BY <2>9
    <3> QED BY <2>3, <2>5, <2>9, <3>1 DEF t
  <2>10. CASE Ineligible(c, A) # {}
    <3>1. B \subseteq A /\ B # A BY <2>8, <2>10
    <3> HIDE DEF B
    <3>2. IsFiniteSet(B) /\ Cardinality(B) <= Cardinality(A)
          /\ (Cardinality(B) = Cardinality(A) => B = A)
      BY <2>7, <3>1, FS_Subset
    <3>3. Cardinality(B) \in Nat BY <3>2, FS_CardinalityType
    <3>4. Cardinality(B) <= L - (k + 1) BY <1>1, <2>6, <2>7, <2>10, <3>1, <3>2, <3>3
    <3>5. B \subseteq E0 BY <2>3, <3>1
    <3> QED BY <2>5, <3>4, <3>5 DEF t
  <2> QED BY <2>9, <2>10
<1>8. G(L)
  <2> HIDE DEF G
  <2>1. L \in S
    <3> HIDE DEF S
    <3> QED BY <1>1, <1>6, <1>7, RD!Upward
  <2> QED BY <1>1, <2>1
<1> DEFINE A == T[L].set
<1>9. A \subseteq E0 /\ (Ineligible(c, A) = {} \/ Cardinality(A) <= 0) BY <1>1, <1>8
<1> HIDE DEF A, G
<1>10. Cardinality(A) <= 0 => A = {}
  <2>1. IsFiniteSet(A) /\ Cardinality(A) \in Nat BY <1>5, <1>9, FS_Subset, FS_CardinalityType
  <2>2. Cardinality(A) <= 0 => Cardinality(A) = 0 BY <2>1
  <2> QED BY <2>1, <2>2, FS_EmptySet
<1>11. A = {} => Ineligible(c, A) = {} BY DEF Ineligible
<1> QED BY <1>3, <1>9, <1>10, <1>11 DEF A

ChainSet(c) == {i \in Ids(c) : /\ Live(c, i) /\ ~Nd(c, i).f32
                               /\ f32_narrowable_op(Nd(c, i).op)
                               /\ \A d \in Depth : c.slot[d] # i}
\* b is c with the nodes of E in f32.
Flips(c, b, E) ==
    /\ Whole(c) /\ Whole(b) /\ Ids(b) = Ids(c) /\ b.slot = c.slot
    /\ \A x \in Ids(c) :
         /\ Nd(b, x).op = Nd(c, x).op /\ Nd(b, x).dead = Nd(c, x).dead
         /\ Nd(b, x).fused = Nd(c, x).fused
         /\ x \in E => Nd(b, x).f32 = TRUE /\ Nd(b, x).in = ChainInputs(c, x)
         /\ x \notin E => Nd(b, x) = Nd(c, x)
\* Every use is alive, but for the narrowings C of what is f32 already: they
\* die in turn, the first k have.
Bridged(c, C, k) ==
    /\ \A i \in Ids(c) : Exact(Nd(c, i)) /\ (Live(c, i) /\ i \notin C => Served(c, Nd(c, i)))
    /\ \A d \in Depth : c.slot[d] >= 0 => Live(c, c.slot[d]) /\ Wide(Nd(c, c.slot[d]))
    /\ Handed(c)
    /\ \A i \in C : /\ i \in Ids(c) /\ Nd(c, i).op = "CvtF64ToF32"
                    /\ i < k => Nd(c, i).dead
                    /\ i >= k => Live(c, i) /\ Live(c, Nd(c, i).in[1])
                                 /\ Nd(c, Nd(c, i).in[1]).f32 = TRUE
Copies(c, E) == {i \in Ids(c) : Live(c, i) /\ Nd(c, i).op = "CvtF64ToF32" /\ Nd(c, i).in[1] \in E}

\* What a member of the chain is.
Member(c, i, op, in) ==
    /\ i \in Ids(c) /\ Live(c, i) /\ Nd(c, i).f32 = FALSE
    /\ \A d \in Depth : c.slot[d] # i
    /\ Arity(op) \in {1, 2} /\ op \in Singular /\ op # "FStsw" /\ op \notin {"FCmp", "FTst"}
    /\ op \notin {"CvtF64ToF32", "CvtF32ToF64", "ConstZero"}
    /\ op \notin AtLeast2 <=> Arity(op) = 1
    /\ op \in AtLeast1 /\ op \notin Ternary
    /\ \A j \in 1..3 : ~(j <= Arity(op)) => in[j] = -1
\* The operations that f32_chain picks are members.
LEMMA ChainMember ==
    ASSUME NEW c, Whole(c), Sound(c), NEW E, E \subseteq ChainSet(c), NEW i \in E
    PROVE  Member(c, i, Nd(c, i).op, Nd(c, i).in)
<1> DEFINE n == Nd(c, i)
           op == n.op
<1>1. /\ i \in Ids(c) /\ Live(c, i) /\ ~n.f32 /\ Arity(op) > 0 /\ \A d \in Depth : c.slot[d] # i
  BY DEF ChainSet, f32_narrowable_op
<1>2. op \in {"FAdd", "FSub", "FMul", "FDiv", "FNMul", "FNeg", "FAbs", "FSqrt"}
  <2> HIDE DEF op
  <2> QED BY <1>1 DEF Arity
<1>3. /\ op \in Singular /\ op # "FStsw" /\ op \notin {"FCmp", "FTst"}
      /\ op \notin {"CvtF64ToF32", "CvtF32ToF64", "ConstZero"}
  <2> HIDE DEF op
  <2> QED BY <1>2 DEF Singular
<1>4. Arity(op) \in {1, 2} BY <1>1, ArityFacts
<1>5. (op \notin AtLeast2 <=> Arity(op) = 1) /\ op \in AtLeast1 /\ op \notin Ternary
  BY <1>4, ArityFacts
<1>6. n.f32 = FALSE BY <1>1, SoundNode
<1>7. Trim(op, n.in) BY <1>1, <1>3, SoundNode
<1>8. ASSUME NEW j \in 1..3, ~(j <= Arity(op)) PROVE n.in[j] = -1
  <2>1. j = 1 \/ j = 2 \/ j = 3 OBVIOUS
  <2> HIDE DEF n, op
  <2>2. j = 3 \/ (j = 2 /\ Arity(op) = 1) BY <1>4, <1>8, <2>1
  <2> QED BY <1>5, <1>7, <2>2 DEF Trim
<1> QED BY <1>1, <1>3, <1>4, <1>5, <1>6, <1>8 DEF Member

\* In the context whose chains run in f32 only the narrowings of chain
\* members are fed the wrong width.
LEMMA FlipBridged ==
    ASSUME NEW c, Sound(c), NEW b, NEW E, Flips(c, b, E), E \subseteq ChainSet(c),
           Ineligible(c, E) = {}
    PROVE  Bridged(b, Copies(c, E), 0)
<1> DEFINE C == Copies(c, E)
<1>1. Whole(c) /\ Whole(b) /\ Ids(b) = Ids(c) /\ b.slot = c.slot BY DEF Flips
<1>0. ASSUME NEW i \in E PROVE Member(c, i, Nd(c, i).op, Nd(c, i).in) BY <1>1, ChainMember
<1>2. ASSUME NEW x \in Ids(c)
      PROVE  /\ Live(b, x) <=> Live(c, x)
             /\ Nd(b, x).op = Nd(c, x).op /\ Nd(b, x).dead = Nd(c, x).dead
             /\ Nd(b, x).fused = Nd(c, x).fused
             /\ x \in E => Nd(b, x).f32 = TRUE /\ Nd(b, x).in = ChainInputs(c, x)
             /\ x \notin E => Nd(b, x) = Nd(c, x)
             /\ IsF32(Nd(c, x)) => IsF32(Nd(b, x))
  <2>1. /\ Nd(b, x).op = Nd(c, x).op /\ Nd(b, x).dead = Nd(c, x).dead
        /\ Nd(b, x).fused = Nd(c, x).fused
        /\ x \in E => Nd(b, x).f32 = TRUE /\ Nd(b, x).in = ChainInputs(c, x)
        /\ x \notin E => Nd(b, x) = Nd(c, x)
    BY DEF Flips
  <2>2. IsF32(Nd(c, x)) => IsF32(Nd(b, x)) BY <2>1 DEF IsF32
  <2>3. Live(b, x) <=> Live(c, x) BY <1>1, <2>1 DEF Live
  <2> QED BY <2>1, <2>2, <2>3
<1>3. ASSUME NEW x \in Ids(c)
      PROVE  Exact(Nd(c, x)) /\ (Live(c, x) => Served(c, Nd(c, x)))
  BY DEF Sound, Uses
<1>4. ASSUME NEW i \in E, NEW j \in 1..3, ChainInputs(c, i)[j] >= 0
      PROVE  Live(b, ChainInputs(c, i)[j]) /\ IsF32(Nd(b, ChainInputs(c, i)[j]))
  <2> DEFINE n == Nd(c, i)
             x == n.in[j]
             y == ChainInputs(c, i)[j]
             ar == Arity(n.op)
  <2>1. y = IF j <= ar /\ Nd(c, x).op = "CvtF32ToF64" THEN Nd(c, x).in[1] ELSE x
    BY DEF ChainInputs
  <2>2. j <= ar
    <3>1. ~(j <= ar) => x = -1 BY <1>0 DEF Member
    <3> HIDE DEF x, y, ar
    <3>2. ~(j <= ar) => y = -1 BY <2>1, <3>1
    <3>3. y >= 0 BY <1>4 DEF y
    <3> QED BY <3>2, <3>3
  <2>3. F32Input(c, x, E)
    <3>1. ar \in {1, 2} BY <1>0 DEF Member
    <3>2. j \in 1..ar
      <4> HIDE DEF ar
      <4> QED BY <2>2, <3>1
    <3> QED BY <3>2 DEF Ineligible
  <2>4. x \in Ids(c) /\ Live(c, x) BY <2>3 DEF F32Input, Live
  <2>5. CASE Nd(c, x).op = "CvtF32ToF64"
    <3>1. y = Nd(c, x).in[1]
      <4> HIDE DEF x, y, ar
      <4> QED BY <2>1, <2>2, <2>5
    <3> HIDE DEF x, y
    <3>2. y \in Ids(c) /\ Live(c, y) /\ IsF32(Nd(c, y)) BY <1>1, <2>4, <2>5, <3>1, UnderWidening
    <3>3. Live(b, y) /\ IsF32(Nd(b, y)) BY <1>2, <3>2
    <3> QED BY <3>3 DEF y
  <2>6. CASE Nd(c, x).op # "CvtF32ToF64"
    <3>1. y = x
      <4> HIDE DEF x, y, ar
      <4> QED BY <2>1, <2>6
    <3> HIDE DEF x, y
    <3>2. x \in E \/ Nd(c, x).op = "ConstZero" \/ Nd(c, x).f32 BY <2>3, <2>6 DEF F32Input
    <3>3. IsF32(Nd(b, x)) BY <1>2, <2>4, <3>2 DEF IsF32
    <3>4. Live(b, y) /\ IsF32(Nd(b, y)) BY <1>2, <2>4, <3>1, <3>3
    <3> QED BY <3>4 DEF y
  <2> QED BY <2>5, <2>6
<1>5. ASSUME NEW i \in E PROVE i \in Ids(c) /\ Exact(Nd(b, i)) /\ Served(b, Nd(b, i))
  <2> DEFINE n == Nd(c, i)
             m == Nd(b, i)
             in == ChainInputs(c, i)
  <2>1. /\ i \in Ids(c) /\ Arity(n.op) \in {1, 2} /\ n.op \in Singular /\ n.op # "FStsw"
        /\ n.op \notin AtLeast2 <=> Arity(n.op) = 1
        /\ n.op \in AtLeast1 /\ n.op \notin Ternary
        /\ \A j \in 1..3 : ~(j <= Arity(n.op)) => n.in[j] = -1
    BY <1>0 DEF Member
  <2>2. m.op = n.op /\ m.f32 = TRUE /\ m.in = in BY <1>2, <2>1
  <2>3. ASSUME NEW j \in 1..3, ~(j <= Arity(n.op)) PROVE in[j] = -1
    <3>1. n.in[j] = -1 BY <2>1, <2>3
    <3> QED BY <2>3, <3>1 DEF ChainInputs
  <2>4. in[3] = -1 /\ (Arity(n.op) = 1 => in[2] = -1)
    <3>1. 3 \in 1..3 /\ 2 \in 1..3 OBVIOUS
    <3> HIDE DEF n, in
    <3>2. ~(3 <= Arity(n.op)) /\ (Arity(n.op) = 1 => ~(2 <= Arity(n.op))) BY <2>1
    <3> QED BY <2>3, <3>1, <3>2
  <2> HIDE DEF n, in
  <2>5. Exact(m) BY <2>1, <2>2, <2>4 DEF Exact
  <2>6. ASSUME NEW j \in 1..3, m.in[j] >= 0 PROVE Serves(b, m, m.in[j])
    <3>1. Live(b, in[j]) /\ IsF32(Nd(b, in[j])) BY <1>4, <2>2, <2>6 DEF in
    <3> HIDE DEF m
    <3> QED BY <2>2, <3>1 DEF Serves, Wants
  <2>7. Served(b, m) BY <2>6 DEF Served
  <2> QED BY <2>1, <2>5, <2>7
<1>6. ASSUME NEW i \in Ids(c), i \notin E
      PROVE  Exact(Nd(b, i)) /\ (Live(b, i) /\ i \notin C => Served(b, Nd(b, i)))
  <2> DEFINE n == Nd(c, i)
  <2>1. Nd(b, i) = n /\ Exact(n) BY <1>2, <1>3, <1>6
  <2>2. ASSUME Live(b, i), i \notin C, NEW j \in 1..3, n.op # "FStsw", n.in[j] >= 0
        PROVE  Serves(b, n, n.in[j])
    <3> DEFINE x == n.in[j]
    <3>1. Live(c, i) BY <1>2, <2>2
    <3>2. Serves(c, n, x) BY <1>3, <2>2, <3>1 DEF Served
    <3>3. x \in Ids(c) BY <3>2 DEF Serves, Live
    <3>4. x \notin E
      <4>1. CASE n.op = "CvtF64ToF32"
        <5>1. n.in[1] \notin E BY <2>2, <3>1, <4>1 DEF Copies
        <5>2. "CvtF64ToF32" \notin AtLeast2 /\ "CvtF64ToF32" \notin Ternary
          BY DEF AtLeast2, Ternary
        <5>3. n.in[2] = -1 /\ n.in[3] = -1
          <6> HIDE DEF n
          <6> QED BY <2>1, <4>1, <5>2 DEF Exact
        <5>4. j = 1 \/ j = 2 \/ j = 3 OBVIOUS
        <5>5. ~(-1 >= 0) OBVIOUS
        <5>6. j = 1 BY <2>2, <5>3, <5>4, <5>5
        <5> QED BY <5>1, <5>6
      <4>2. CASE n.op # "CvtF64ToF32"
        <5>1. ASSUME x \in E PROVE FALSE
          <6>1. x \in Ineligible(c, E) BY <1>6, <3>1, <4>2, <5>1 DEF Ineligible
          <6> QED BY <6>1
        <5> QED BY <5>1
      <4> QED BY <4>1, <4>2
    <3> HIDE DEF n, x
    <3>5. Nd(b, x) = Nd(c, x) /\ (Live(b, x) <=> Live(c, x)) BY <1>2, <3>3, <3>4
    <3>6. Serves(b, n, x) BY <3>2, <3>5 DEF Serves
    <3> QED BY <3>6 DEF x
  <2> HIDE DEF n, C
  <2> QED BY <2>1, <2>2 DEF Served
<1>7. ASSUME NEW d \in Depth, b.slot[d] >= 0 PROVE Live(b, b.slot[d]) /\ Wide(Nd(b, b.slot[d]))
  <2> DEFINE x == c.slot[d]
  <2>1. b.slot[d] = x BY <1>1
  <2>2. Live(c, x) /\ Wide(Nd(c, x)) BY <1>7, <2>1 DEF Sound, Uses
  <2>3. x \notin E BY <1>0 DEF Member
  <2>4. x \in Ids(c) BY <2>2 DEF Live
  <2> HIDE DEF x
  <2> QED BY <1>2, <2>1, <2>2, <2>3, <2>4
<1>8. ASSUME NEW k \in Ids(c), Live(b, k), Nd(b, k).op = "FStsw"
      PROVE  Names(b, Nd(b, k), k, Nd(b, k).in[1])
  <2> DEFINE g == Nd(c, k).in[1]
  <2>1. k \notin E
    <3>1. Nd(c, k).op = "FStsw" BY <1>2, <1>8
    <3> QED BY <1>0, <1>1, <3>1 DEF Member
  <2>2. Nd(b, k) = Nd(c, k) /\ Live(c, k) BY <1>2, <1>8, <2>1
  <2>3. Names(c, Nd(c, k), k, g) BY <1>8, <2>2 DEF Sound, Handed
  <2> HIDE DEF g
  <2>4. CASE g = -1 /\ ~Nd(c, k).fused BY <2>2, <2>4 DEF Names, g
  <2>5. CASE /\ g \in 0..(k - 1) /\ Live(c, g) /\ IsCompare(Nd(c, g))
             /\ Nd(c, k).fused => Nd(c, g).fused
    <3>1. g \in Ids(c) BY <2>5 DEF Live
    <3>2. Live(b, g) /\ IsCompare(Nd(b, g)) /\ Nd(b, g).fused = Nd(c, g).fused
      BY <1>2, <2>5, <3>1 DEF IsCompare
    <3>3. Names(b, Nd(b, k), k, g) BY <2>2, <2>5, <3>2 DEF Names
    <3> QED BY <2>2, <3>3 DEF g
  <2> QED BY <2>3, <2>4, <2>5 DEF Names
<1>9. ASSUME NEW i \in C
      PROVE  /\ i \in Ids(b) /\ Nd(b, i).op = "CvtF64ToF32" /\ i \in Int /\ ~(i < 0)
             /\ Live(b, i) /\ Live(b, Nd(b, i).in[1]) /\ Nd(b, Nd(b, i).in[1]).f32 = TRUE
  <2>1. i \in Ids(c) /\ Live(c, i) /\ Nd(c, i).op = "CvtF64ToF32" /\ Nd(c, i).in[1] \in E
    BY DEF Copies
  <2>2. i \notin E BY <1>0, <1>1, <2>1 DEF Member
  <2> DEFINE x == Nd(c, i).in[1]
  <2>3. x \in Ids(c) /\ Live(c, x) /\ x \in E BY <1>0, <1>1, <2>1 DEF Member
  <2>4. Nd(b, i) = Nd(c, i) /\ Live(b, i) BY <1>2, <2>1, <2>2
  <2> HIDE DEF x
  <2>5. Live(b, x) /\ Nd(b, x).f32 = TRUE BY <1>2, <2>3
  <2>6. i \in Int /\ ~(i < 0) BY <1>1, <2>1, AtId
  <2> QED BY <1>1, <2>1, <2>4, <2>5, <2>6 DEF x
<1>10. Handed(b) BY <1>1, <1>8 DEF Handed
<1> HIDE DEF C
<1>11. \A i \in Ids(b) : Exact(Nd(b, i)) /\ (Live(b, i) /\ i \notin C => Served(b, Nd(b, i)))
  BY <1>1, <1>5, <1>6
<1> QED BY <1>7, <1>9, <1>10, <1>11 DEF Bridged, C

\* A narrowing gives way to its input and dies.
LEMMA BridgeStep ==
    ASSUME NEW c, Whole(c), NEW C, NEW k, Bridged(c, C, k), k \in C
    PROVE  LET b == Kill(ReplaceInputs(c, k, Nd(c, k).in[1]), k)
           IN  Whole(b) /\ Ids(b) = Ids(c) /\ Bridged(b, C, k + 1)
<1> DEFINE keep == Nd(c, k).in[1]
           r == ReplaceInputs(c, k, keep)
           b == Kill(r, k)
<1>1. /\ k \in Ids(c) /\ Nd(c, k).op = "CvtF64ToF32" /\ k \in Int /\ k >= 0
  <2>1. k \in Ids(c) /\ Nd(c, k).op = "CvtF64ToF32" BY DEF Bridged
  <2> QED BY <2>1, AtId
<1>2. Live(c, k) /\ Live(c, keep) /\ Nd(c, keep).f32 = TRUE BY <1>1 DEF Bridged
<1>3. keep \in 0..(k - 1)
  <2>1. "CvtF64ToF32" \in AtLeast1 BY DEF AtLeast1
  <2> QED BY <1>1, <2>1, InputsOf
<1>4. keep \in Ids(c) /\ keep # k BY <1>1, <1>2, <1>3 DEF Live
<1> HIDE DEF keep
<1>5. Replaced(c, r, k, keep) /\ Refit(c, r) /\ r.slot = c.slot BY <1>1, <1>3, ReplaceIs
<1> HIDE DEF r
<1>6. Whole(r) /\ Ids(r) = Ids(c) BY <1>5 DEF Refit, Ids
<1>7. Altered(r, b, k) /\ Refit(r, b) /\ Marked(Nd(r, k), Nd(b, k), TRUE, Nd(r, k).f32)
  BY <1>1, <1>6, KillIs
<1> HIDE DEF b
<1>8. Whole(b) /\ Ids(b) = Ids(c) /\ b.slot = c.slot
  BY <1>5, <1>6, <1>7 DEF Refit, Ids, Altered
<1>9. ASSUME NEW x \in Ids(c)
      PROVE  /\ Nd(b, x).op = Nd(c, x).op /\ Nd(b, x).f32 = Nd(c, x).f32
             /\ Nd(b, x).fused = Nd(c, x).fused
             /\ x # k => Nd(b, x).dead = Nd(c, x).dead
             /\ x = k => Nd(b, x).dead = TRUE
             /\ \A j \in 1..3 : Nd(b, x).in[j] =
                  IF ~Nd(c, x).dead /\ Nd(c, x).in[j] = k THEN keep ELSE Nd(c, x).in[j]
  <2>1. /\ Nd(r, x).op = Nd(c, x).op /\ Nd(r, x).dead = Nd(c, x).dead
        /\ Nd(r, x).f32 = Nd(c, x).f32 /\ Nd(r, x).fused = Nd(c, x).fused
        /\ \A j \in 1..3 : Nd(r, x).in[j] =
             IF ~Nd(c, x).dead /\ Nd(c, x).in[j] = k THEN keep ELSE Nd(c, x).in[j]
    BY <1>5 DEF Replaced
  <2>2. CASE x # k
    <3>1. Nd(b, x) = Nd(r, x) BY <1>6, <1>7, <2>2 DEF Altered
    <3> QED BY <2>1, <2>2, <3>1
  <2>3. CASE x = k
    <3>1. /\ Nd(b, x).op = Nd(r, x).op /\ Nd(b, x).in = Nd(r, x).in /\ Nd(b, x).dead = TRUE
          /\ Nd(b, x).f32 = Nd(r, x).f32 /\ Nd(b, x).fused = Nd(r, x).fused
      BY <1>7, <2>3 DEF Marked
    <3> QED BY <2>1, <2>3, <3>1
  <2> QED BY <2>2, <2>3
<1>10. ASSUME NEW x, Live(c, x), x # k PROVE Live(b, x)
  <2>1. x \in Ids(c) /\ ~Nd(c, x).dead BY <1>10 DEF Live
  <2> QED BY <1>8, <1>9, <1>10, <2>1 DEF Live
<1>11. ASSUME NEW x, Live(b, x) PROVE x \in Ids(c) /\ Live(c, x) /\ x # k
  <2>1. x \in Ids(c) /\ ~Nd(b, x).dead BY <1>8, <1>11 DEF Live
  <2>2. x # k BY <1>9, <2>1
  <2> QED BY <1>9, <2>1, <2>2 DEF Live
<1>12. ASSUME NEW i \in Ids(c)
       PROVE  Exact(Nd(b, i)) /\ (Live(b, i) /\ i \notin C => Served(b, Nd(b, i)))
  <2> DEFINE n == Nd(c, i)
             m == Nd(b, i)
  <2>1. /\ m.op = n.op /\ m.f32 = n.f32
        /\ \A j \in 1..3 : m.in[j] = IF ~n.dead /\ n.in[j] = k THEN keep ELSE n.in[j]
    BY <1>9
  <2>2. Exact(n) /\ (Live(c, i) /\ i \notin C => Served(c, n)) BY DEF Bridged
  <2> HIDE DEF n, m
  <2>3. \A j \in 1..3 : n.in[j] = -1 => m.in[j] = -1
    <3>1. -1 # k BY <1>1
    <3> QED BY <2>1, <3>1
  <2>4. Exact(m)
    <3>1. 1 \in 1..3 /\ 2 \in 1..3 /\ 3 \in 1..3 OBVIOUS
    <3> QED BY <2>1, <2>2, <2>3, <3>1 DEF Exact
  <2>5. ASSUME Live(b, i), i \notin C, NEW j \in 1..3, m.op # "FStsw", m.in[j] >= 0
        PROVE  Serves(b, m, m.in[j])
    <3>1. Live(c, i) /\ ~n.dead BY <1>11, <2>5 DEF Live, n
    <3>2. Served(c, n) BY <2>2, <2>5, <3>1
    <3>3. n.op # "FStsw" /\ (Wants(m) <=> Wants(n)) BY <2>1, <2>5 DEF Wants
    <3>4. CASE n.in[j] = k
      <4>1. m.in[j] = keep /\ n.in[j] >= 0 BY <1>1, <2>1, <3>1, <3>4
      <4>2. Serves(c, n, k) BY <3>2, <3>3, <3>4, <4>1 DEF Served
      <4>3. Wants(n)
        <5>1. ~Wide(Nd(c, k)) BY <1>1 DEF Wide, Doubles, Narrows
        <5> QED BY <4>2, <5>1 DEF Serves
      <4>4. Live(b, keep) /\ IsF32(Nd(b, keep)) BY <1>2, <1>4, <1>9, <1>10 DEF IsF32
      <4> QED BY <3>3, <4>1, <4>3, <4>4 DEF Serves
    <3>5. CASE n.in[j] # k
      <4> DEFINE x == n.in[j]
      <4>1. m.in[j] = x BY <2>1, <3>5
      <4>2. Serves(c, n, x) BY <2>5, <3>2, <3>3, <4>1 DEF Served
      <4>3. x \in Ids(c) /\ Live(c, x) BY <4>2 DEF Serves, Live
      <4> HIDE DEF x
      <4>4. Live(b, x) BY <1>10, <3>5, <4>3 DEF x
      <4>5. (Wide(Nd(c, x)) => Wide(Nd(b, x))) /\ (IsF32(Nd(c, x)) => IsF32(Nd(b, x)))
        BY <1>9, <4>3 DEF Wide, IsF32
      <4> QED BY <3>3, <4>1, <4>2, <4>4, <4>5 DEF Serves
    <3> QED BY <3>4, <3>5
  <2>6. Live(b, i) /\ i \notin C => Served(b, m) BY <2>5 DEF Served
  <2> QED BY <2>4, <2>6 DEF m
<1>13. ASSUME NEW d \in Depth, b.slot[d] >= 0 PROVE Live(b, b.slot[d]) /\ Wide(Nd(b, b.slot[d]))
  <2> DEFINE x == c.slot[d]
  <2>1. b.slot[d] = x BY <1>8
  <2>2. Live(c, x) /\ Wide(Nd(c, x)) BY <1>13, <2>1 DEF Bridged
  <2>3. x # k
    <3>1. ~Wide(Nd(c, k)) BY <1>1 DEF Wide, Doubles, Narrows
    <3> QED BY <2>2, <3>1
  <2>4. x \in Ids(c) BY <2>2 DEF Live
  <2> HIDE DEF x
  <2>5. Live(b, x) /\ Wide(Nd(b, x)) BY <1>9, <1>10, <2>2, <2>3, <2>4 DEF Wide
  <2> QED BY <2>1, <2>5
<1>14. ASSUME NEW l \in Ids(c), Live(b, l), Nd(b, l).op = "FStsw"
       PROVE  Names(b, Nd(b, l), l, Nd(b, l).in[1])
  <2> DEFINE g == Nd(c, l).in[1]
  <2>1. Live(c, l) /\ l # k /\ Nd(c, l).op = "FStsw" BY <1>9, <1>11, <1>14
  <2>2. Names(c, Nd(c, l), l, g) BY <2>1 DEF Bridged, Handed
  <2> HIDE DEF g
  <2>3. g # k
    <3>1. ~IsCompare(Nd(c, k)) BY <1>1 DEF IsCompare
    <3>2. k # -1 BY <1>1
    <3> QED BY <2>2, <3>1, <3>2 DEF Names
  <2>4. Nd(b, l).in[1] = g /\ Nd(b, l).fused = Nd(c, l).fused
    <3>1. 1 \in 1..3 OBVIOUS
    <3> QED BY <1>9, <2>3, <3>1 DEF g
  <2>5. CASE g = -1 /\ ~Nd(c, l).fused BY <2>4, <2>5 DEF Names
  <2>6. CASE /\ g \in 0..(l - 1) /\ Live(c, g) /\ IsCompare(Nd(c, g))
             /\ Nd(c, l).fused => Nd(c, g).fused
    <3>1. g \in Ids(c) BY <2>6 DEF Live
    <3>2. Live(b, g) /\ IsCompare(Nd(b, g)) /\ Nd(b, g).fused = Nd(c, g).fused
      BY <1>9, <1>10, <2>3, <2>6, <3>1 DEF IsCompare
    <3> QED BY <2>4, <2>6, <3>2 DEF Names
  <2> QED BY <2>2, <2>5, <2>6 DEF Names
<1>15. ASSUME NEW i \in C
       PROVE  /\ i \in Ids(b) /\ Nd(b, i).op = "CvtF64ToF32"
              /\ i < k + 1 => Nd(b, i).dead
              /\ i >= k + 1 => Live(b, i) /\ Live(b, Nd(b, i).in[1])
                               /\ Nd(b, Nd(b, i).in[1]).f32 = TRUE
  <2>1. /\ i \in Ids(c) /\ Nd(c, i).op = "CvtF64ToF32"
        /\ i < k => Nd(c, i).dead
        /\ i >= k => Live(c, i) /\ Live(c, Nd(c, i).in[1]) /\ Nd(c, Nd(c, i).in[1]).f32 = TRUE
    BY DEF Bridged
  <2>2. i \in Int BY <2>1, AtId
  <2>3. i < k + 1 => Nd(b, i).dead
    <3>1. i < k + 1 => i < k \/ i = k BY <1>1, <2>2
    <3> QED BY <1>9, <2>1, <3>1
  <2>4. ASSUME i >= k + 1
        PROVE  Live(b, i) /\ Live(b, Nd(b, i).in[1]) /\ Nd(b, Nd(b, i).in[1]).f32 = TRUE
    <3> DEFINE x == Nd(c, i).in[1]
    <3>1. i >= k /\ i # k BY <1>1, <2>2, <2>4
    <3>2. Live(c, i) /\ Live(c, x) /\ Nd(c, x).f32 = TRUE BY <2>1, <3>1
    <3>3. Nd(b, i).in[1] = IF ~Nd(c, i).dead /\ x = k THEN keep ELSE x
      <4>1. 1 \in 1..3 OBVIOUS
      <4> QED BY <1>9, <2>1, <4>1
    <3>4. ~Nd(c, i).dead /\ x \in Ids(c) BY <3>2 DEF Live
    <3> HIDE DEF x
    <3>5. CASE x = k BY <1>2, <1>4, <1>9, <1>10, <3>1, <3>2, <3>3, <3>4, <3>5
    <3>6. CASE x # k BY <1>9, <1>10, <3>1, <3>2, <3>3, <3>4, <3>6
    <3> QED BY <3>5, <3>6
  <2> QED BY <1>8, <1>9, <2>1, <2>3, <2>4
<1>16. Handed(b) BY <1>8, <1>14 DEF Handed
<1>17. Bridged(b, C, k + 1) BY <1>8, <1>12, <1>13, <1>15, <1>16 DEF Bridged
<1> QED BY <1>8, <1>17 DEF b, r, keep

\* When the last narrowing is dead every use is alive.
LEMMA BridgeEnd ==
    ASSUME NEW c, Whole(c), NEW C, Bridged(c, C, Len(c.nodes)) PROVE Sound(c)
<1>1. ASSUME NEW i \in Ids(c), Live(c, i) PROVE i \notin C
  <2>1. i < Len(c.nodes) BY AtId
  <2>2. ~Nd(c, i).dead BY <1>1 DEF Live
  <2> QED BY <2>1, <2>2 DEF Bridged
<1>2. \A i \in Ids(c) : Exact(Nd(c, i)) /\ (Live(c, i) => Served(c, Nd(c, i)))
  BY <1>1 DEF Bridged
<1>3. Uses(c) BY <1>2 DEF Uses, Bridged
<1> QED BY <1>3 DEF Sound, Bridged

\* The loop over the narrowings.
LEMMA BypassSound ==
    ASSUME NEW c, Whole(c), NEW C, Bridged(c, C, 0), NEW q, q = IdSeq(c)
    PROVE  Sound(Bypass!Over([c |-> c, copies |-> C], q).c)
<1> DEFINE s0 == [c |-> c, copies |-> C]
           T == BP!Turns(s0, q)
           L == Len(c.nodes)
           G(k) == /\ DOMAIN T[k] = {"c", "copies"} /\ T[k].copies = C /\ Whole(T[k].c)
                   /\ Ids(T[k].c) = Ids(c) /\ Bridged(T[k].c, C, k)
           S == {k \in Nat : k <= L => G(k)}
<1>1. L \in Nat /\ Len(q) = L /\ \A k \in 1..L : q[k] = k - 1 BY LenNat DEF Whole, IdSeq
<1>2. s0.c = c /\ s0.copies = C /\ DOMAIN s0 = {"c", "copies"} OBVIOUS
<1> HIDE DEF s0, L
<1>3. T[0] = s0 /\ \A k \in 1..L : T[k] = bypass(T[k - 1], q[k])
  <2>1. Len(q) \in Nat BY <1>1
  <2>2. /\ BP!Turns(s0, q)[0] = s0
        /\ \A k \in 1..Len(q) : BP!Turns(s0, q)[k] = bypass(BP!Turns(s0, q)[k - 1], q[k])
    BY <2>1, BP!TurnsFollow
  <2> QED BY <1>1, <2>2
<1>4. Bypass!Over(s0, q) = T[L]
  <2>1. BP!Over(s0, q) = Bypass!Over(s0, q) BY DEF BP!Over, Bypass!Over, BP!Turns, Bypass!Turns
  <2>2. BP!Over(s0, q) = T[Len(q)] BY DEF BP!Over
  <2> HIDE DEF T
  <2> QED BY <1>1, <2>1, <2>2
<1> HIDE DEF T
<1>5. 0 \in S
  <2>1. G(0) BY <1>2, <1>3
  <2> HIDE DEF G
  <2> QED BY <2>1
<1>6. ASSUME NEW k \in Nat, k \in S PROVE k + 1 \in S
  <2> SUFFICES ASSUME k + 1 <= L PROVE G(k + 1)
    <3> HIDE DEF G
    <3> QED OBVIOUS
  <2> DEFINE s == T[k]
             t == T[k + 1]
  <2>1. G(k)
    <3> HIDE DEF G
    <3>1. k <= L BY <1>1
    <3> QED BY <1>6, <3>1
  <2>2. t = bypass(s, k)
    <3>1. k + 1 \in 1..L /\ (k + 1) - 1 = k BY <1>1
    <3>2. t = bypass(s, q[k + 1]) BY <1>3, <3>1
    <3> QED BY <1>1, <3>1, <3>2
  <2>3. /\ DOMAIN s = {"c", "copies"} /\ s.copies = C /\ Whole(s.c)
        /\ Ids(s.c) = Ids(c) /\ Bridged(s.c, C, k)
    BY <2>1
  <2> HIDE DEF s, t
  <2>4. CASE k \in C
    <3> DEFINE b == Kill(ReplaceInputs(s.c, k, Nd(s.c, k).in[1]), k)
    <3>1. t = [s EXCEPT !.c = b] BY <2>2, <2>3, <2>4 DEF bypass, ReplaceInputs
    <3>2. Whole(b) /\ Ids(b) = Ids(s.c) /\ Bridged(b, C, k + 1) BY <2>3, <2>4, BridgeStep
    <3> HIDE DEF b
    <3>3. t.c = b /\ t.copies = C /\ DOMAIN t = {"c", "copies"} BY <2>3, <3>1
    <3> QED BY <2>3, <3>2, <3>3 DEF t
  <2>5. CASE k \notin C
    <3>1. t = s BY <2>2, <2>3, <2>5 DEF bypass
    <3>2. Bridged(s.c, C, k + 1)
      <4>1. ASSUME NEW i \in C
            PROVE  /\ i < k + 1 => Nd(s.c, i).dead
                   /\ i >= k + 1 => Live(s.c, i) /\ Live(s.c, Nd(s.c, i).in[1])
                                    /\ Nd(s.c, Nd(s.c, i).in[1]).f32 = TRUE
        <5>1. i \in Ids(s.c) /\ i # k BY <2>3, <2>5 DEF Bridged
        <5>2. i \in Int BY <2>3, <5>1, AtId
        <5>3. (i < k + 1 => i < k) /\ (i >= k + 1 => i >= k) BY <5>1, <5>2
        <5> QED BY <2>3, <5>3 DEF Bridged
      <4> QED BY <2>3, <4>1 DEF Bridged
    <3> QED BY <2>3, <3>1, <3>2 DEF t
  <2> QED BY <2>4, <2>5
<1>7. G(L)
  <2> HIDE DEF G
  <2>1. L \in S
    <3> HIDE DEF S
    <3> QED BY <1>1, <1>5, <1>6, BP!Upward
  <2> QED BY <1>1, <2>1
<1> DEFINE b == T[L].c
<1>8. Whole(b) /\ Ids(b) = Ids(c) /\ Bridged(b, C, L) BY <1>7
<1> HIDE DEF b
<1>9. Len(b.nodes) = L
  <2>1. Len(b.nodes) \in Nat BY <1>8, LenNat DEF Whole
  <2>2. 0..(Len(b.nodes) - 1) = 0..(L - 1) BY <1>8 DEF Ids, L
  <2>3. ~(Len(b.nodes) < L)
    <3>1. ASSUME Len(b.nodes) < L PROVE FALSE
      <4>1. L - 1 \in 0..(L - 1) /\ L - 1 \notin 0..(Len(b.nodes) - 1) BY <1>1, <2>1, <3>1
      <4> QED BY <2>2, <4>1
    <3> QED BY <3>1
  <2>4. ~(L < Len(b.nodes))
    <3>1. ASSUME L < Len(b.nodes) PROVE FALSE
      <4> DEFINE p == Len(b.nodes) - 1
      <4>1. p \in 0..(Len(b.nodes) - 1) /\ p \notin 0..(L - 1) BY <1>1, <2>1, <3>1
      <4> QED BY <2>2, <4>1
    <3> QED BY <3>1
  <2> QED BY <1>1, <2>1, <2>3, <2>4
<1>10. Sound(b) BY <1>8, <1>9, BridgeEnd
<1> QED BY <1>4, <1>10 DEF b, s0

\* pass_f32_chain keeps every use.
LEMMA ChainSound == ASSUME NEW c, Whole(c), Sound(c) PROVE Sound(pass_f32_chain(c))
<1> DEFINE E0 == {i \in Ids(c) : /\ Live(c, i) /\ ~Nd(c, i).f32
                                 /\ f32_narrowable_op(Nd(c, i).op)
                                 /\ \A d \in Depth : c.slot[d] # i}
           E == Eligible(c, E0)
           source(i, j) ==
               LET x == Nd(c, i).in[j]
               IN  IF j <= Arity(Nd(c, i).op) /\ Nd(c, x).op = "CvtF32ToF64"
                   THEN Nd(c, x).in[1] ELSE x
           m(x) == [c.nodes[x] EXCEPT !.f32 = TRUE, !.in = [j \in 1..3 |-> source(x - 1, j)]]
           f == [x \in DOMAIN c.nodes |-> IF x - 1 \in E THEN m(x) ELSE c.nodes[x]]
           flipped == [c EXCEPT !.nodes = f]
           C == {i \in Ids(c) : Live(c, i) /\ Nd(c, i).op = "CvtF64ToF32"
                                /\ Nd(c, i).in[1] \in E}
           s0 == [c |-> flipped, copies |-> C]
           q == IdSeq(c)
<1>1. pass_f32_chain(c) = Bypass!Over(s0, q).c BY DEF pass_f32_chain
<1>2. E0 = ChainSet(c) /\ C = Copies(c, E) BY DEF ChainSet, Copies
<1>3. E \subseteq ChainSet(c) /\ Ineligible(c, E) = {}
  <2>1. E0 \subseteq Ids(c) OBVIOUS
  <2> HIDE DEF E0
  <2> QED BY <1>2, <2>1, EligibleFixed
<1> HIDE DEF E, E0
<1>4. Len(c.nodes) \in Nat /\ DOMAIN c.nodes = 1..Len(c.nodes) /\ Tabled(c)
  BY RowFacts, WholeTabled DEF Whole, Nodes
<1>5. ASSUME NEW x \in 1..Len(c.nodes)
      PROVE  /\ NodeFits(f[x], x - 1) /\ f[x].op = c.nodes[x].op
             /\ f[x].dead = c.nodes[x].dead /\ f[x].fused = c.nodes[x].fused
             /\ x - 1 \in E => f[x].f32 = TRUE /\ f[x].in = ChainInputs(c, x - 1)
             /\ x - 1 \notin E => f[x] = c.nodes[x]
  <2> DEFINE i == x - 1
             in == ChainInputs(c, i)
             n == c.nodes[x]
  <2>1. i \in Ids(c) /\ Nd(c, i) = n BY <1>4 DEF Ids, Nd
  <2>2. [j \in 1..3 |-> source(i, j)] = ChainInputs(c, i) BY DEF ChainInputs
  <2>3. m(x) = [n EXCEPT !.f32 = TRUE, !.in = in] BY <2>2
  <2>4. f[x] = IF i \in E THEN m(x) ELSE n BY <1>4
  <2>5. DOMAIN n = NodeFields BY <1>4 DEF Tabled
  <2>6. ChainNode(c, i) = m(x) BY <2>1, <2>3 DEF ChainNode
  <2> HIDE DEF m, f, i, in, n
  <2>7. /\ m(x).f32 = TRUE /\ m(x).in = in /\ m(x).op = n.op /\ m(x).dead = n.dead
        /\ m(x).fused = n.fused
    BY <2>3, <2>5 DEF NodeFields
  <2>8. NodeFits(m(x), i) BY <2>1, <2>6, FlippedFits
  <2>9. NodeFits(n, i) BY FitsAt DEF i, n
  <2>10. CASE i \in E BY <2>4, <2>7, <2>8, <2>10 DEF i, in, n
  <2>11. CASE i \notin E BY <2>4, <2>9, <2>11 DEF i, n
  <2> QED BY <2>10, <2>11
<1>6. Same(c, flipped, {"nodes"}) /\ flipped.nodes = f /\ flipped.slot = c.slot
  BY DEF Same, Whole, CtxFields
<1>7. flipped.nodes = [x \in 1..Len(c.nodes) |-> f[x]] BY <1>4, <1>6
<1> HIDE DEF f, m, flipped
<1>8. Refit(c, flipped)
  <2>1. \A x \in 1..Len(c.nodes) : NodeFits(f[x], x - 1) BY <1>5
  <2> QED BY <2>1, <1>6, <1>7, Revised
<1>9. Flips(c, flipped, E)
  <2>1. Whole(flipped) /\ Ids(flipped) = Ids(c) BY <1>8 DEF Refit, Ids
  <2>2. ASSUME NEW i \in Ids(c)
        PROVE  /\ Nd(flipped, i).op = Nd(c, i).op /\ Nd(flipped, i).dead = Nd(c, i).dead
               /\ Nd(flipped, i).fused = Nd(c, i).fused
               /\ i \in E => Nd(flipped, i).f32 = TRUE /\ Nd(flipped, i).in = ChainInputs(c, i)
               /\ i \notin E => Nd(flipped, i) = Nd(c, i)
    <3>1. i + 1 \in 1..Len(c.nodes) /\ (i + 1) - 1 = i BY AtId
    <3>2. Nd(flipped, i) = f[i + 1] /\ Nd(c, i) = c.nodes[i + 1] BY <1>6 DEF Nd
    <3> QED BY <1>5, <3>1, <3>2
  <2> QED BY <1>6, <2>1, <2>2 DEF Flips
<1>10. Bridged(flipped, Copies(c, E), 0) BY <1>3, <1>9, FlipBridged
<1>11. q = IdSeq(flipped) BY <1>8 DEF IdSeq, Refit
<1> HIDE DEF q, C
<1>12. Sound(Bypass!Over([c |-> flipped, copies |-> C], q).c)
  BY <1>2, <1>8, <1>10, <1>11, BypassSound DEF Refit
<1> QED BY <1>1, <1>12

\* Every pass keeps every use; the first is run on what was just built.
LEMMA OptimizeSound ==
    ASSUME NEW c, Whole(c), Sound(c), NEW p \in PassNames, p = "dead_compares" => Built(c)
    PROVE  Sound(optimize(c, p))
<1>1. CASE p = "dead_compares"
  <2>1. optimize(c, p) = pass_dead_compares(c) BY <1>1 DEF optimize
  <2> QED BY <1>1, <2>1, DeadComparesSound
<1>2. CASE p # "dead_compares"
  <2>1. optimize(c, p) \in {pass_const_arith(c), pass_dse(c), pass_fneg_fold(c), pass_fma(c),
                            pass_f32_narrow(c), pass_f32_chain(c), pass_f32_fma(c),
                            pass_fcom_fstsw_fusion(c)}
    BY <1>2 DEF optimize, PassNames
  <2> QED BY <2>1, ScansSound, ChainSound, FusionSound
<1> QED BY <1>1, <1>2

\* pass_dead_compares is the first pass and no other.
LEMMA FirstPass ==
    \A k \in 1..Len(Passes) : Passes[k] = "dead_compares" <=> k = 1
<1> DEFINE R == PassNames \ {"dead_compares"}
           a == <<"dead_compares">>
           a2 == <<"const_arith", "dse", "fneg_fold">>
           b == <<"f32_narrow", "f32_chain", "f32_fma", "fma", "dse">>
           d == <<"fma">>
           l == <<"f32_narrow", "dse">>
           z == <<"fcom_fstsw_fusion">>
           f32 == "f32_narrow" \in Config
           m == IF f32 THEN l ELSE << >>
           mid == IF f32 /\ "f32_arith" \in Config THEN b ELSE d \o m
           rest == a2 \o (mid \o z)
<1>1. a2 \in Seq(R) /\ b \in Seq(R) /\ d \in Seq(R) /\ l \in Seq(R) /\ z \in Seq(R)
      /\ << >> \in Seq(R)
  BY DEF PassNames
<1>2. <<"dead_compares", "const_arith", "dse", "fneg_fold">> = a \o a2 OBVIOUS
<1>3. Passes = (a \o a2) \o mid \o z BY <1>2 DEF Passes
<1>4. a \in Seq(PassNames) /\ Len(a) = 1 /\ a[1] = "dead_compares" BY DEF PassNames
<1> HIDE DEF a2, b, d, l, z, a
<1>5. m \in Seq(R) BY <1>1
<1> HIDE DEF m
<1>6. d \o m \in Seq(R) BY <1>1, <1>5
<1>7. mid \in Seq(R) BY <1>1, <1>6
<1> HIDE DEF mid
<1>8. mid \o z \in Seq(R) BY <1>1, <1>7
<1>9. rest \in Seq(R) BY <1>1, <1>8
<1>10. Passes = a \o rest
  <2>1. a \in Seq(PassNames) /\ a2 \in Seq(PassNames) /\ mid \in Seq(PassNames)
        /\ z \in Seq(PassNames)
    BY <1>1, <1>4, <1>7
  <2> HIDE DEF R
  <2>2. a \o a2 \in Seq(PassNames) /\ mid \o z \in Seq(PassNames) BY <2>1, ConcatProperties
  <2>3. ((a \o a2) \o mid) \o z = (a \o a2) \o (mid \o z) BY <2>1, <2>2, ConcatAssociative
  <2>4. (a \o a2) \o (mid \o z) = a \o (a2 \o (mid \o z)) BY <2>1, <2>2, ConcatAssociative
  <2> QED BY <1>3, <2>3, <2>4
<1> HIDE DEF rest
<1>11. Len(rest) \in Nat /\ \A k \in 1..Len(rest) : rest[k] \in R BY <1>9
<1>12. /\ Len(a \o rest) = Len(a) + Len(rest)
      /\ \A i \in 1..(Len(a) + Len(rest)) : (a \o rest)[i] =
           IF i <= Len(a) THEN a[i] ELSE rest[i - Len(a)]
  <2>1. rest \in Seq(PassNames)
    <3>1. R \subseteq PassNames OBVIOUS
    <3> HIDE DEF R
    <3> QED BY <1>9, <3>1
  <2> HIDE DEF R
  <2> QED BY <1>4, <2>1, ConcatProperties
<1> HIDE DEF R
<1> SUFFICES ASSUME NEW k \in 1..Len(Passes) PROVE Passes[k] = "dead_compares" <=> k = 1
  OBVIOUS
<1>13. Len(Passes) = 1 + Len(rest) BY <1>4, <1>10, <1>12
<1>14. CASE k = 1
  <2>1. (a \o rest)[1] = a[1] BY <1>4, <1>11, <1>12
  <2> QED BY <1>4, <1>10, <1>14, <2>1
<1>15. CASE k # 1
  <2>1. k - 1 \in 1..Len(rest) BY <1>11, <1>13, <1>15
  <2>2. (a \o rest)[k] = rest[k - 1]
    <3>1. k \in 1..(Len(a) + Len(rest)) /\ ~(k <= Len(a)) /\ k - Len(a) = k - 1
      BY <1>4, <1>11, <1>13, <1>15
    <3> QED BY <1>12, <3>1
  <2>3. rest[k - 1] \in R BY <1>11, <2>1
  <2> QED BY <1>10, <1>15, <2>2, <2>3 DEF R
<1> QED BY <1>14, <1>15
=============================================================================
