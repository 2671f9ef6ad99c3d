------------------------- MODULE X87CompileProofs -------------------------
(***************************************************************************)
(* X87IR::compile_run: its types, that the passes keep every effect and    *)
(* every use, and that the estimates of peak_live_fprs and peak_live_gprs  *)
(* bound what lowering needs.                                              *)
(*                                                                         *)
(* The estimate and the lowering walk the same nodes.  Lowering pairs only *)
(* accesses through cached bases, the estimate those through any base, so  *)
(* the two differ in which loads come early and in how late a stored value *)
(* is read.  Tracks compares them before every node: what lowering holds,  *)
(* the estimate holds.                                                     *)
(***************************************************************************)
EXTENDS X87UsesProofs
LOCAL INSTANCE SequencesExt
LOCAL INSTANCE FiniteSetsExt

\* The greatest of some bounded integers is one of them.
LEMMA MaxIn ==
    ASSUME NEW I, I \subseteq Int, I # {}, NEW b \in Int, \A y \in I : y <= b
    PROVE  Max(I) \in I /\ \A y \in I : y <= Max(I)
<1> DEFINE T == {b - y : y \in I}
<1>1. \A y \in I : y \in Int /\ b - y \in Nat OBVIOUS
<1>0. T \subseteq Nat BY <1>1
<1>9. T # {} OBVIOUS
<1>2. PICK t \in T : \A y \in T : t <= y BY <1>0, <1>9, AP!LeastNatural
<1>3. PICK x \in I : t = b - x BY <1>2
<1>4. ASSUME NEW y \in I PROVE x >= y
  <2>1. t <= b - y BY <1>2
  <2>2. x \in Int /\ y \in Int OBVIOUS
  <2> QED BY <1>3, <2>1, <2>2
<1>5. \E z \in I : \A y \in I : z >= y BY <1>4
<1>6. Max(I) \in I /\ \A y \in I : Max(I) >= y
  <2>1. Max(I) = CHOOSE z \in I : \A y \in I : z >= y BY DEF Max
  <2> QED BY <1>5, <2>1
<1>7. ASSUME NEW y \in I PROVE y <= Max(I)
  <2>1. y \in Int /\ Max(I) \in Int /\ Max(I) >= y BY <1>6
  <2> QED BY <2>1
<1> QED BY <1>6, <1>7

\* A node of a whole context.
LEMMA NodeAt ==
    ASSUME NEW c, Whole(c), NEW i \in Ids(c) PROVE NodeFits(Nd(c, i), i) /\ i \in Nat
<1>1. Len(c.nodes) \in Nat BY LenNat DEF Whole
<1>2. i + 1 \in 1..Len(c.nodes) /\ i \in Nat /\ (i + 1) - 1 = i BY <1>1 DEF Ids
<1> QED BY <1>2, FitsAt DEF Nd

(***************************************************************************)
(* Pairs.                                                                  *)
(***************************************************************************)
PairFields == {"c", "bases", "with", "skip"}
FpAccesses == FpLoads \cup FpStores
\* l does the access of w as well.
PairOf(c, p, l, w) ==
    /\ w \in Ids(c) /\ Live(c, l) /\ Live(c, w) /\ l \notin p.skip /\ w \in p.skip
    /\ Nd(c, l).op = Nd(c, w).op /\ Nd(c, l).op \in FpAccesses
    /\ Nd(c, l).op \in FpLoads =>
          /\ w > l
          /\ \A z \in Between(c, l, w) : pair_node_skippable(Nd(c, z).op, TRUE)
    /\ Nd(c, l).op \in FpStores => w < l
Paired(a, p) ==
    LET c == a[1]
    IN  /\ DOMAIN p = PairFields /\ p.c = c /\ p.bases = a[2] /\ p.skip \subseteq Ids(c)
        /\ p.with \in [Ids(c) -> Int]
        /\ \A l \in Ids(c) : p.with[l] = NoNode \/ PairOf(c, p, l, p.with[l])
        /\ \A w \in p.skip : \E l \in Ids(c) : p.with[l] = w
        /\ \A l, k \in Ids(c) :
              /\ Nd(c, l).op \in FpLoads /\ Nd(c, k).op \in FpLoads
              /\ p.with[l] = p.with[k] /\ p.with[l] # NoNode
              => l = k
PR == INSTANCE LoopProofs WITH Step <- pair_lead, Good <- Paired

\* The partner chosen is one that qualifies.
LEMMA PartnerIn ==
    ASSUME NEW p, NEW i, Partners(p, i) # {}, NEW c, c = p.c, Whole(c)
    PROVE  Min(Partners(p, i)) \in Partners(p, i)
<1>1. Len(c.nodes) \in Nat BY LenNat DEF Whole
<1>2. Partners(p, i) \subseteq Nat BY <1>1 DEF Partners, LiveNodes, Ids
<1> QED BY <1>2, MinIn

\* What a lead does: nothing, or it pairs i with a node of its base.
Pairs(c, p, i, j, t) ==
    LET n == Nd(c, i)
    IN  /\ ~n.dead /\ n.op \in FpAccesses /\ Pairable(n, p.bases)
        /\ i \notin p.skip /\ ~(p.with[i] >= 0) /\ j \in Partners(p, i)
        /\ DOMAIN t = DOMAIN p /\ t.c = p.c /\ t.bases = p.bases
        /\ IF n.op \in FpLoads
           THEN t.with = [p.with EXCEPT ![i] = j] /\ t.skip = p.skip \cup {j}
           ELSE t.with = [p.with EXCEPT ![j] = i] /\ t.skip = p.skip \cup {i}
Unpaired(c, p, i) ==
    LET n == Nd(c, i)
    IN  \/ n.dead \/ n.op \notin FpAccesses \/ ~Pairable(n, p.bases)
        \/ i \in p.skip \/ p.with[i] >= 0 \/ Partners(p, i) = {}

\* A turn of compute_pairs: nothing, or a pair.
LEMMA LeadDoes ==
    ASSUME NEW c, Whole(c), NEW p, DOMAIN p = PairFields, p.c = c, NEW i
    PROVE  \/ Unpaired(c, p, i) /\ pair_lead(p, i) = p
           \/ ~Unpaired(c, p, i) /\ Pairs(c, p, i, Min(Partners(p, i)), pair_lead(p, i))
<1> DEFINE j == Min(Partners(p, i))
           n == Nd(c, i)
           a == [p EXCEPT !.with[i] = j, !.skip = @ \cup {j}]
           b == [p EXCEPT !.with[j] = i, !.skip = @ \cup {i}]
<1>1. pair_lead(p, i) = IF Unpaired(c, p, i) THEN p ELSE IF n.op \in FpLoads THEN a ELSE b
  BY DEF pair_lead, Unpaired, FpAccesses
<1>2. /\ DOMAIN a = DOMAIN p /\ a.c = p.c /\ a.bases = p.bases
      /\ a.with = [p.with EXCEPT ![i] = j] /\ a.skip = p.skip \cup {j}
  BY DEF PairFields
<1>3. /\ DOMAIN b = DOMAIN p /\ b.c = p.c /\ b.bases = p.bases
      /\ b.with = [p.with EXCEPT ![j] = i] /\ b.skip = p.skip \cup {i}
  BY DEF PairFields
<1>4. CASE Unpaired(c, p, i) BY <1>1, <1>4
<1>5. CASE ~Unpaired(c, p, i)
  <2>1. /\ ~n.dead /\ n.op \in FpAccesses /\ Pairable(n, p.bases)
        /\ i \notin p.skip /\ ~(p.with[i] >= 0) /\ Partners(p, i) # {}
    BY <1>5 DEF Unpaired
  <2>2. j \in Partners(p, i) BY <2>1, PartnerIn
  <2> HIDE DEF j, a, b
  <2>3. Pairs(c, p, i, j, pair_lead(p, i)) BY <1>1, <1>2, <1>3, <1>5, <2>1, <2>2 DEF Pairs
  <2> QED BY <1>5, <2>3 DEF j
<1> QED BY <1>4, <1>5

\* A pairing: l does the access of w, w none.
PairedUp(c, p, t, l, w) ==
    /\ t.with = [p.with EXCEPT ![l] = w] /\ t.skip = p.skip \cup {w}
    /\ DOMAIN t = PairFields /\ t.c = c /\ t.bases = p.bases

\* A new pair of two unpaired nodes keeps the pairs apart.
LEMMA PairedUpKeeps ==
    ASSUME NEW a, NEW p, Paired(a, p), NEW c, c = a[1], NEW t, NEW l \in Ids(c),
           NEW w \in Ids(c), PairedUp(c, p, t, l, w), l \notin p.skip, w \notin p.skip, l # w,
           p.with[w] < 0, p.with[l] < 0, PairOf(c, t, l, w), w \in Int
    PROVE  Paired(a, t)
<1>1. /\ DOMAIN p = PairFields /\ p.c = c /\ p.bases = a[2] /\ p.skip \subseteq Ids(c)
      /\ p.with \in [Ids(c) -> Int]
      /\ \A x \in Ids(c) : p.with[x] = NoNode \/ PairOf(c, p, x, p.with[x])
      /\ \A y \in p.skip : \E x \in Ids(c) : p.with[x] = y
      /\ \A x, y \in Ids(c) :
              /\ Nd(c, x).op \in FpLoads /\ Nd(c, y).op \in FpLoads
              /\ p.with[x] = p.with[y] /\ p.with[x] # NoNode
              => x = y
  BY DEF Paired
<1>2. /\ t.with \in [Ids(c) -> Int] /\ t.with[l] = w
      /\ \A x \in Ids(c) : x # l => t.with[x] = p.with[x]
      /\ t.skip = p.skip \cup {w}
  BY <1>1 DEF PairedUp
<1>3. ASSUME NEW x \in Ids(c), x # l, p.with[x] # NoNode
      PROVE  PairOf(c, t, x, p.with[x]) /\ p.with[x] # w
  <2>1. PairOf(c, p, x, p.with[x]) BY <1>1, <1>3
  <2>2. p.with[x] \in Ids(c) /\ p.with[x] \in p.skip BY <2>1 DEF PairOf
  <2>3. p.with[x] # w BY <2>2
  <2>4. p.with[x] >= 0 BY <2>2 DEF Ids
  <2>5. x # w BY <2>4, <1>1
  <2> QED BY <1>2, <2>1, <2>3, <2>5 DEF PairOf
<1>4. ASSUME NEW x \in Ids(c) PROVE t.with[x] = NoNode \/ PairOf(c, t, x, t.with[x])
  BY <1>2, <1>3
<1>5. ASSUME NEW x \in Ids(c), NEW y \in Ids(c), Nd(c, x).op \in FpLoads, Nd(c, y).op \in FpLoads,
             t.with[x] = t.with[y], t.with[x] # NoNode
      PROVE  x = y
  <2>1. CASE x # l /\ y # l BY <1>1, <1>2, <1>5, <2>1
  <2>2. CASE x = l /\ y # l BY <1>2, <1>3, <1>5, <2>2
  <2>3. CASE x # l /\ y = l BY <1>2, <1>3, <1>5, <2>3
  <2> QED BY <2>1, <2>2, <2>3
<1>6. t.skip \subseteq Ids(c) BY <1>1, <1>2
<1>7. ASSUME NEW y \in t.skip PROVE \E x \in Ids(c) : t.with[x] = y
  <2>1. CASE y = w BY <1>2, <2>1
  <2>2. CASE y \in p.skip
    <3>1. PICK x \in Ids(c) : p.with[x] = y BY <1>1, <2>2
    <3>2. y \in Ids(c) /\ y >= 0 BY <1>1, <2>2 DEF Ids
    <3>3. x # l BY <3>1, <3>2, <1>1
    <3> QED BY <1>2, <3>1, <3>3
  <2> QED BY <1>2, <2>1, <2>2
<1> QED BY <1>1, <1>2, <1>4, <1>5, <1>6, <1>7 DEF Paired, PairedUp

\* A turn of compute_pairs keeps the pairs apart.
LEMMA PairedStep ==
    ASSUME NEW a, NEW p, Paired(a, p), NEW c, c = a[1], Whole(c), NEW i \in Ids(c)
    PROVE  Paired(a, pair_lead(p, i))
<1> DEFINE t == pair_lead(p, i)
           j == Min(Partners(p, i))
           n == Nd(c, i)
<1>1. DOMAIN p = PairFields /\ p.c = c /\ p.with \in [Ids(c) -> Int] /\ p.skip \subseteq Ids(c)
  BY DEF Paired
<1>2. t = p \/ Pairs(c, p, i, j, t) BY <1>1, LeadDoes
<1> HIDE DEF t, j
<1>3. ASSUME Pairs(c, p, i, j, t) PROVE Paired(a, t)
  <2>1. /\ ~n.dead /\ n.op \in FpAccesses /\ i \notin p.skip /\ ~(p.with[i] >= 0)
        /\ j \in Partners(p, i) /\ DOMAIN t = PairFields /\ t.c = c /\ t.bases = p.bases
    BY <1>1, <1>3 DEF Pairs
  <2>2. /\ j \in LiveNodes(c) /\ j > i /\ Nd(c, j).op = n.op /\ j \notin p.skip /\ p.with[j] < 0
        /\ \A l \in Between(c, i, j) : pair_node_skippable(Nd(c, l).op, n.op \in FpLoads)
    BY <1>1, <2>1 DEF Partners
  <2>3. j \in Ids(c) /\ Live(c, j) /\ Live(c, i) BY <2>1, <2>2 DEF LiveNodes, Live
  <2>4. i \in Int /\ j \in Int /\ i # j BY <2>2, <2>3 DEF Ids
  <2>5. FpLoads \cap FpStores = {} BY DEF FpLoads, FpStores
  <2>6. CASE n.op \in FpLoads
    <3>1. PairedUp(c, p, t, i, j) BY <1>3, <2>1, <2>6 DEF Pairs, PairedUp
    <3>2. t.skip = p.skip \cup {j} BY <3>1 DEF PairedUp
    <3>3. PairOf(c, t, i, j) BY <2>1, <2>2, <2>3, <2>4, <2>5, <2>6, <3>2 DEF PairOf
    <3>4. p.with[i] < 0 BY <1>1, <2>1
    <3> QED BY <2>1, <2>2, <2>3, <2>4, <3>1, <3>3, <3>4, PairedUpKeeps
  <2>7. CASE n.op \notin FpLoads
    <3>1. PairedUp(c, p, t, j, i) BY <1>3, <2>1, <2>7 DEF Pairs, PairedUp
    <3>2. t.skip = p.skip \cup {i} BY <3>1 DEF PairedUp
    <3>3. PairOf(c, t, j, i) BY <2>1, <2>2, <2>3, <2>4, <2>5, <2>7, <3>2 DEF PairOf
    <3>4. p.with[i] < 0 BY <1>1, <2>1
    <3> QED BY <2>1, <2>2, <2>3, <2>4, <3>1, <3>3, <3>4, PairedUpKeeps
  <2> QED BY <2>6, <2>7
<1> QED BY <1>2, <1>3 DEF t

\* The scan's states.
PairStart(c, B) ==
    [c |-> c, bases |-> B, with |-> [i \in Ids(c) |-> NoNode], skip |-> {}]
PairTurn(c, B, k) == PairScan!Turns(PairStart(c, B), IdSeq(c))[k]

\* compute_pairs turn by turn.
LEMMA PairTurns ==
    ASSUME NEW c, Whole(c), NEW B
    PROVE  /\ PairTurn(c, B, 0) = PairStart(c, B)
           /\ \A i \in Ids(c) : PairTurn(c, B, i + 1) = pair_lead(PairTurn(c, B, i), i)
           /\ compute_pairs(c, B) = PairTurn(c, B, Len(c.nodes))
<1> DEFINE q == IdSeq(c)
           s == PairStart(c, B)
<1>1. Len(c.nodes) \in Nat BY LenNat DEF Whole
<1>2. Len(q) = Len(c.nodes) /\ \A i \in Ids(c) : i + 1 \in 1..Len(q) /\ q[i + 1] = i
  BY <1>1 DEF IdSeq, Ids
<1>3. compute_pairs(c, B) = PairScan!Over(s, q) BY DEF compute_pairs, PairStart
<1> HIDE DEF q, s
<1>4. /\ PR!Turns(s, q)[0] = s
      /\ \A k \in 1..Len(q) : PR!Turns(s, q)[k] = pair_lead(PR!Turns(s, q)[k - 1], q[k])
  BY <1>1, <1>2, PR!TurnsFollow
<1>5. PR!Turns(s, q) = PairScan!Turns(s, q) BY DEF PR!Turns, PairScan!Turns
<1>6. \A k : PairTurn(c, B, k) = PR!Turns(s, q)[k] BY <1>5 DEF PairTurn, s, q
<1>7. compute_pairs(c, B) = PairTurn(c, B, Len(c.nodes))
  BY <1>2, <1>3, <1>5, <1>6 DEF PairScan!Over
<1>8. ASSUME NEW i \in Ids(c) PROVE PairTurn(c, B, i + 1) = pair_lead(PairTurn(c, B, i), i)
  <2>1. i + 1 \in 1..Len(q) /\ q[i + 1] = i /\ (i + 1) - 1 = i BY <1>1, <1>2 DEF Ids
  <2> QED BY <1>4, <1>6, <2>1
<1> QED BY <1>4, <1>6, <1>7, <1>8 DEF s

\* Pairs with the bases B and pairs with all bases agree on what B reaches.
Alike(c, B, p, P) ==
    \A l \in Ids(c) :
        IF Nd(c, l).m.base \in B
        THEN P.with[l] = p.with[l] /\ (l \in p.skip <=> l \in P.skip)
        ELSE p.with[l] = NoNode /\ l \notin p.skip

\* A turn of compute_pairs with the bases B and one with all bases agree.
LEMMA AlikeStep ==
    ASSUME NEW c, Whole(c), NEW B, NEW p, Paired(<<c, B>>, p), NEW P, Paired(<<c, GReg>>, P),
           Alike(c, B, p, P), NEW i \in Ids(c)
    PROVE  Alike(c, B, pair_lead(p, i), pair_lead(P, i))
<1> DEFINE t == pair_lead(p, i)
           T == pair_lead(P, i)
           j == Min(Partners(p, i))
           J == Min(Partners(P, i))
           n == Nd(c, i)
<1>1. DOMAIN p = PairFields /\ p.c = c /\ p.bases = B /\ p.with \in [Ids(c) -> Int]
      /\ p.skip \subseteq Ids(c)
  BY DEF Paired
<1>2. DOMAIN P = PairFields /\ P.c = c /\ P.bases = GReg /\ P.with \in [Ids(c) -> Int]
      /\ P.skip \subseteq Ids(c)
  BY DEF Paired
<1>3. \/ Unpaired(c, p, i) /\ t = p
      \/ ~Unpaired(c, p, i) /\ Pairs(c, p, i, j, t)
  BY <1>1, LeadDoes
<1>4. \/ Unpaired(c, P, i) /\ T = P
      \/ ~Unpaired(c, P, i) /\ Pairs(c, P, i, J, T)
  BY <1>2, LeadDoes
<1>5. CASE n.m.base \in B
  <2>1. ASSUME NEW k, k.m.base = n.m.base PROVE Pairable(k, B) <=> Pairable(k, GReg)
    BY <1>5, <2>1 DEF Pairable, addr_operand_base_cacheable
  <2>2. Pairable(n, B) <=> Pairable(n, GReg) BY <2>1
  <2>3. ASSUME NEW x, x \in LiveNodes(c), Nd(c, x).m.base = n.m.base
        PROVE  (x \in p.skip <=> x \in P.skip) /\ p.with[x] = P.with[x]
    <3>1. x \in Ids(c) BY <2>3 DEF LiveNodes
    <3> QED BY <1>5, <2>3, <3>1 DEF Alike
  <2>4. ASSUME NEW x PROVE x \in Partners(p, i) <=> x \in Partners(P, i)
    <3>1. CASE x \in LiveNodes(c) /\ Nd(c, x).m.base = n.m.base
      <4>1. /\ Pairable(Nd(c, x), B) <=> Pairable(Nd(c, x), GReg)
            /\ x \in p.skip <=> x \in P.skip
            /\ p.with[x] = P.with[x]
        BY <2>1, <2>3, <3>1
      <4> QED BY <1>1, <1>2, <4>1 DEF Partners
    <3>2. CASE ~(x \in LiveNodes(c) /\ Nd(c, x).m.base = n.m.base)
      BY <1>1, <1>2, <3>2 DEF Partners
    <3> QED BY <3>1, <3>2
  <2>5. Partners(p, i) = Partners(P, i)
    <3>1. Partners(p, i) \subseteq LiveNodes(c) /\ Partners(P, i) \subseteq LiveNodes(c)
      BY <1>1, <1>2 DEF Partners
    <3> QED BY <2>4, <3>1
  <2>6. p.with[i] = P.with[i] /\ (i \in p.skip <=> i \in P.skip) BY <1>5 DEF Alike
  <2>7. Unpaired(c, p, i) <=> Unpaired(c, P, i)
    BY <1>1, <1>2, <2>2, <2>5, <2>6 DEF Unpaired
  <2>8. j = J BY <2>5
  <2> SUFFICES Alike(c, B, t, T) OBVIOUS
  <2> HIDE DEF t, T, j, J
  <2>9. CASE Unpaired(c, p, i) BY <1>3, <1>4, <2>7, <2>9
  <2>10. CASE ~Unpaired(c, p, i)
    <3>1. Pairs(c, p, i, j, t) /\ Pairs(c, P, i, j, T) BY <1>3, <1>4, <2>7, <2>8, <2>10
    <3>2. j \in Partners(p, i) BY <3>1 DEF Pairs
    <3>3. j \in Ids(c) /\ Nd(c, j).m.base = n.m.base
      BY <1>1, <3>2 DEF Partners, LiveNodes
    <3>4. j \in Int /\ i \in Int BY <3>3 DEF Ids
    <3>5. CASE n.op \in FpLoads
      <4>1. /\ t.with = [p.with EXCEPT ![i] = j] /\ t.skip = p.skip \cup {j}
            /\ T.with = [P.with EXCEPT ![i] = j] /\ T.skip = P.skip \cup {j}
        BY <3>1, <3>5 DEF Pairs
      <4> QED BY <1>1, <1>2, <1>5, <3>3, <4>1 DEF Alike
    <3>6. CASE n.op \notin FpLoads
      <4>1. /\ t.with = [p.with EXCEPT ![j] = i] /\ t.skip = p.skip \cup {i}
            /\ T.with = [P.with EXCEPT ![j] = i] /\ T.skip = P.skip \cup {i}
        BY <3>1, <3>6 DEF Pairs
      <4> QED BY <1>1, <1>2, <1>5, <3>3, <4>1 DEF Alike
    <3> QED BY <3>5, <3>6
  <2> QED BY <2>9, <2>10
<1>6. CASE n.m.base \notin B
  <2>1. Unpaired(c, p, i) BY <1>1, <1>6 DEF Unpaired, Pairable
  <2>2. t = p BY <1>3, <2>1
  <2> SUFFICES Alike(c, B, t, T) OBVIOUS
  <2> HIDE DEF t, T, j, J
  <2>3. CASE T = P BY <2>2, <2>3
  <2>4. CASE Pairs(c, P, i, J, T)
    <3>1. J \in Partners(P, i) BY <2>4 DEF Pairs
    <3>2. J \in Ids(c) /\ Nd(c, J).m.base = n.m.base
      BY <1>2, <3>1 DEF Partners, LiveNodes
    <3>3. \A l \in Ids(c) : Nd(c, l).m.base \in B => l # i /\ l # J BY <1>6, <3>2
    <3>4. \A l \in Ids(c) : Nd(c, l).m.base \in B =>
                               T.with[l] = P.with[l] /\ (l \in T.skip <=> l \in P.skip)
      BY <1>2, <2>4, <3>3 DEF Pairs
    <3>5. Alike(c, B, p, T) BY <3>4 DEF Alike
    <3> QED BY <2>2, <3>5
  <2> QED BY <1>4, <2>3, <2>4
<1> QED BY <1>5, <1>6

\* Both scans, turn by turn.
LEMMA ScansAlike ==
    ASSUME NEW c, Whole(c), NEW B
    PROVE  LET p == compute_pairs(c, B)
               P == compute_pairs(c, GReg)
           IN  Paired(<<c, B>>, p) /\ Paired(<<c, GReg>>, P) /\ Alike(c, B, p, P)
<1> DEFINE A(k) == PairTurn(c, B, k)
           D(k) == PairTurn(c, GReg, k)
           Good(k) == Paired(<<c, B>>, A(k)) /\ Paired(<<c, GReg>>, D(k)) /\ Alike(c, B, A(k), D(k))
           S == {k \in Nat : k <= Len(c.nodes) => Good(k)}
<1>1. Len(c.nodes) \in Nat BY LenNat DEF Whole
<1>2. ASSUME NEW C PROVE Paired(<<c, C>>, PairStart(c, C))
  <2> DEFINE s == PairStart(c, C)
  <2>1. /\ DOMAIN s = PairFields /\ s.c = c /\ s.bases = C /\ s.skip = {}
        /\ s.with = [i \in Ids(c) |-> NoNode]
    BY DEF PairStart, PairFields
  <2> HIDE DEF s
  <2>2. s.with \in [Ids(c) -> Int] /\ \A i \in Ids(c) : s.with[i] = NoNode BY <2>1 DEF NoNode
  <2>3. Paired(<<c, C>>, s) BY <2>1, <2>2 DEF Paired
  <2> QED BY <2>3 DEF s
<1>3. Alike(c, B, PairStart(c, B), PairStart(c, GReg)) BY DEF Alike, PairStart
<1>4. A(0) = PairStart(c, B) /\ D(0) = PairStart(c, GReg) BY PairTurns
<1>5. 0 \in S BY <1>2, <1>3, <1>4
<1>6. \A i \in Ids(c) : A(i + 1) = pair_lead(A(i), i) /\ D(i + 1) = pair_lead(D(i), i)
  BY PairTurns
<1> HIDE DEF A, D
<1>7. ASSUME NEW k \in Nat, k \in S PROVE k + 1 \in S
  <2>1. CASE k + 1 <= Len(c.nodes)
    <3>1. k \in Ids(c) /\ k <= Len(c.nodes) BY <1>1, <2>1 DEF Ids
    <3>2. Good(k) BY <1>7, <3>1
    <3>3. Paired(<<c, B>>, A(k + 1)) BY <1>6, <3>1, <3>2, PairedStep
    <3>4. Paired(<<c, GReg>>, D(k + 1)) BY <1>6, <3>1, <3>2, PairedStep
    <3>5. Alike(c, B, A(k + 1), D(k + 1)) BY <1>6, <3>1, <3>2, AlikeStep
    <3> QED BY <3>3, <3>4, <3>5
  <2>2. CASE ~(k + 1 <= Len(c.nodes)) BY <2>2
  <2> QED BY <2>1, <2>2
<1>8. Nat \subseteq S
  <2> HIDE DEF S
  <2> QED BY <1>5, <1>7, PR!Upward
<1>9. Good(Len(c.nodes)) BY <1>1, <1>8
<1> QED BY <1>9, PairTurns DEF A, D

(***************************************************************************)
(* Last uses.                                                              *)
(***************************************************************************)
ReadBy(c, id) == {i \in LiveNodes(c) : \E j \in 1..3 : Nd(c, i).in[j] = id}
Leaves(c, id) == {Len(c.nodes) : d \in {x \in Depth : c.slot[x] = id}}
Sinks(c, p, id) ==
    {i \in LiveNodes(c) : /\ Nd(c, i).op \in FpStores /\ p.with[i] >= 0
                          /\ Nd(c, p.with[i]).in[1] = id}
UsedBy(c, p, id) == ({NoNode} \cup ReadBy(c, id) \cup Leaves(c, id)) \cup Sinks(c, p, id)

\* The last use of a node is a use, and no use comes after.
LEMMA LastIs ==
    ASSUME NEW c, Whole(c), NEW p, NEW id \in Ids(c)
    PROVE  /\ LastUse(c, p)[id] \in UsedBy(c, p, id)
           /\ \A y \in UsedBy(c, p, id) : y <= LastUse(c, p)[id]
           /\ LastUse(c, p)[id] \in Int
<1>1. Len(c.nodes) \in Nat BY LenNat DEF Whole
<1>2. LastUse(c, p)[id] = Max(UsedBy(c, p, id)) BY DEF LastUse, UsedBy, ReadBy, Leaves, Sinks
<1>3. LiveNodes(c) \subseteq Int /\ \A y \in LiveNodes(c) : y <= Len(c.nodes)
  BY <1>1 DEF LiveNodes, Ids
<1>4. \A y \in UsedBy(c, p, id) : y \in Int /\ y <= Len(c.nodes)
  <2>1. \A y \in ReadBy(c, id) : y \in LiveNodes(c) BY DEF ReadBy
  <2>2. \A y \in Sinks(c, p, id) : y \in LiveNodes(c) BY DEF Sinks
  <2>3. \A y \in Leaves(c, id) : y = Len(c.nodes) BY DEF Leaves
  <2> QED BY <1>1, <1>3, <2>1, <2>2, <2>3 DEF UsedBy, NoNode
<1>5. UsedBy(c, p, id) # {} BY DEF UsedBy
<1> QED BY <1>1, <1>2, <1>4, <1>5, MaxIn

\* A node that is a last use reads the value, or does the store of one that does.
LEMMA LastWhy ==
    ASSUME NEW c, Whole(c), NEW p, NEW id \in Ids(c), NEW i \in Ids(c), LastUse(c, p)[id] = i
    PROVE  i \in ReadBy(c, id) \/ i \in Sinks(c, p, id)
<1>1. i \in UsedBy(c, p, id) BY LastIs
<1>2. i # NoNode /\ i # Len(c.nodes) BY LenNat DEF Ids, NoNode, Whole
<1>3. i \notin Leaves(c, id) BY <1>2 DEF Leaves
<1> QED BY <1>1, <1>2, <1>3 DEF UsedBy

\* A store done with a later one is read there, after it was computed.
LEMMA SinkFacts ==
    ASSUME NEW c, Whole(c), NEW a, NEW p, Paired(a, p), a[1] = c, NEW id \in Ids(c),
           NEW i \in Sinks(c, p, id)
    PROVE  /\ i \in Ids(c) /\ Nd(c, i).op \in FpStores /\ ~Nd(c, i).dead /\ i \notin p.skip
           /\ p.with[i] \in ReadBy(c, id) /\ id < p.with[i] /\ p.with[i] < i
           /\ p.with[i] \in Ids(c) /\ Nd(c, p.with[i]).op \in FpStores
<1> DEFINE w == p.with[i]
<1>1. /\ i \in Ids(c) /\ Nd(c, i).op \in FpStores /\ w >= 0 /\ Nd(c, w).in[1] = id
      /\ ~Nd(c, i).dead
  BY DEF Sinks, LiveNodes, Live
<1>2. p.with[i] = NoNode \/ PairOf(c, p, i, p.with[i]) BY <1>1 DEF Paired
<1>3. PairOf(c, p, i, w) BY <1>1, <1>2 DEF NoNode
<1> HIDE DEF w
<1>4. w \in Ids(c) /\ Live(c, w) /\ i \notin p.skip /\ Nd(c, w).op \in FpStores /\ w < i
  BY <1>1, <1>3 DEF PairOf
<1>5. Nd(c, w).op # "FStsw" BY <1>4 DEF FpStores
<1>6. NodeFits(Nd(c, w), w) BY <1>4, NodeAt
<1>7. id < w BY <1>1, <1>5, <1>6 DEF NodeFits
<1>8. w \in ReadBy(c, id) BY <1>1, <1>4 DEF ReadBy, LiveNodes
<1> QED BY <1>1, <1>4, <1>7, <1>8 DEF w

\* With fewer pairs nothing is used later; and what only the pairs of the
\* estimate use at i is used before, after it is computed.
LEMMA LastOrder ==
    ASSUME NEW c, Whole(c), NEW B, NEW id \in Ids(c)
    PROVE  LET p == compute_pairs(c, B)
               P == compute_pairs(c, GReg)
               last == LastUse(c, p)[id]
               lu == LastUse(c, P)[id]
           IN  last <= lu /\ (lu \in Ids(c) /\ last < lu => last > id)
<1> DEFINE p == compute_pairs(c, B)
           P == compute_pairs(c, GReg)
           last == LastUse(c, p)[id]
           lu == LastUse(c, P)[id]
<1>1. Paired(<<c, B>>, p) /\ Paired(<<c, GReg>>, P) /\ Alike(c, B, p, P) BY ScansAlike
<1>2. /\ last \in UsedBy(c, p, id) /\ \A y \in UsedBy(c, p, id) : y <= last
      /\ last \in Int
  BY LastIs
<1>3. /\ lu \in UsedBy(c, P, id) /\ \A y \in UsedBy(c, P, id) : y <= lu
      /\ lu \in Int
  BY LastIs
<1>4. lu \in Ids(c) => lu \in ReadBy(c, id) \/ lu \in Sinks(c, P, id) BY LastWhy
<1> HIDE DEF p, P, last, lu
<1>5. ASSUME NEW i \in Sinks(c, p, id) PROVE i \in Sinks(c, P, id)
  <2>1. i \in Ids(c) /\ p.with[i] >= 0 BY DEF Sinks, LiveNodes
  <2>2. P.with[i] = p.with[i] BY <1>1, <2>1 DEF Alike, NoNode
  <2> QED BY <2>2 DEF Sinks
<1>6. UsedBy(c, p, id) \subseteq UsedBy(c, P, id) BY <1>5 DEF UsedBy
<1>7. last <= lu BY <1>2, <1>3, <1>6
<1>8. ASSUME lu \in Ids(c), last < lu PROVE last > id
  <2>1. lu \notin ReadBy(c, id) BY <1>2, <1>3, <1>8 DEF UsedBy
  <2>2. lu \in Sinks(c, P, id) BY <1>4, <1>8, <2>1
  <2>3. P.with[lu] \in ReadBy(c, id) /\ id < P.with[lu] /\ P.with[lu] \in Ids(c)
    BY <1>1, <2>2, SinkFacts
  <2>4. P.with[lu] <= last BY <1>2, <2>3 DEF UsedBy
  <2>5. P.with[lu] \in Int /\ id \in Int BY <2>3 DEF Ids
  <2> QED BY <1>2, <2>3, <2>4, <2>5
<1> QED BY <1>7, <1>8 DEF p, P, last, lu

\* A producer is not its own last use, and no load is that of a later node.
LEMMA NotSelf ==
    ASSUME NEW c, Whole(c), NEW a, NEW p, Paired(a, p), a[1] = c, NEW i \in Ids(c),
           NEW x \in Ids(c), i <= x, Nd(c, i).op \notin FpStores \cup {"FStsw"}
    PROVE  LastUse(c, p)[x] # i
<1> SUFFICES ASSUME LastUse(c, p)[x] = i PROVE FALSE OBVIOUS
<1>1. i \in ReadBy(c, x) \/ i \in Sinks(c, p, x) BY LastWhy
<1>2. i \notin Sinks(c, p, x) BY DEF Sinks
<1>3. PICK j \in 1..3 : Nd(c, i).in[j] = x BY <1>1, <1>2 DEF ReadBy
<1>4. NodeFits(Nd(c, i), i) BY NodeAt
<1>5. x < i BY <1>3, <1>4 DEF NodeFits
<1>6. x \in Int /\ i \in Int BY DEF Ids
<1> QED BY <1>5, <1>6

(***************************************************************************)
(* The estimate.                                                           *)
(***************************************************************************)
Held(c, s) ==
    /\ DOMAIN s = {"c", "p", "lu", "hold", "peak"} /\ s.c = c /\ s.hold \subseteq Ids(c)
    /\ s.peak \in Nat /\ Cardinality(s.hold) <= s.peak
\* Turn t after s: nothing else changes, and the peak only grows.
Holds(s, t) == t.c = s.c /\ t.p = s.p /\ t.lu = s.lu /\ s.peak <= t.peak

\* A set of nodes is finite.
LEMMA IdsFinite ==
    ASSUME NEW c, Whole(c), NEW S, S \subseteq Ids(c)
    PROVE  IsFiniteSet(S) /\ Cardinality(S) \in Nat
<1>1. Len(c.nodes) \in Nat BY LenNat DEF Whole
<1>2. IsFiniteSet(Ids(c)) BY <1>1, FS_Interval DEF Ids
<1> QED BY <1>2, FS_Subset, FS_CardinalityType

\* Fewer nodes are no more nodes.
LEMMA CardUp ==
    ASSUME NEW c, Whole(c), NEW S, S \subseteq Ids(c), NEW T, T \subseteq S
    PROVE  Cardinality(T) <= Cardinality(S)
BY IdsFinite, FS_Subset

\* A register taken counts towards the peak.
LEMMA TakenHolds ==
    ASSUME NEW c, Whole(c), NEW s, Held(c, s), NEW S, S \subseteq Ids(c)
    PROVE  LET t == Taken(s, S)
           IN  /\ Held(c, t) /\ Holds(s, t) /\ t.hold = s.hold \cup S
               /\ Cardinality(s.hold \cup S) <= t.peak
<1> DEFINE k == s.hold \cup S
           m == Max({s.peak, Cardinality(k)})
           t == [s EXCEPT !.hold = k, !.peak = m]
<1>1. Taken(s, S) = t BY DEF Taken
<1>2. k \subseteq Ids(c) BY DEF Held
<1>3. Cardinality(k) \in Nat BY <1>2, IdsFinite
<1> HIDE DEF k
<1>4. m \in Nat /\ s.peak <= m /\ Cardinality(k) <= m
  <2> DEFINE I == {s.peak, Cardinality(k)}
             b == s.peak + Cardinality(k)
  <2>1. I \subseteq Int /\ I # {} /\ b \in Int /\ \A y \in I : y <= b BY <1>3 DEF Held
  <2>2. Max(I) \in I /\ \A y \in I : y <= Max(I)
    <3> HIDE DEF I, b
    <3> QED BY <2>1, MaxIn
  <2> QED BY <1>3, <2>2 DEF Held
<1> HIDE DEF m
<1>5. /\ DOMAIN t = DOMAIN s /\ t.c = s.c /\ t.p = s.p /\ t.lu = s.lu
      /\ t.hold = k /\ t.peak = m
  BY DEF Held
<1> HIDE DEF t
<1>6. Held(c, t) BY <1>2, <1>4, <1>5 DEF Held
<1>7. Holds(s, t) BY <1>4, <1>5 DEF Holds
<1> QED BY <1>1, <1>4, <1>5, <1>6, <1>7 DEF k

\* Giving registers back leaves the peak.
LEMMA CutHolds ==
    ASSUME NEW c, Whole(c), NEW s, Held(c, s), NEW S, S \subseteq Ids(c),
           Cardinality(S) <= Cardinality(s.hold)
    PROVE  LET t == [s EXCEPT !.hold = S] IN Held(c, t) /\ Holds(s, t) /\ t.hold = S
<1> DEFINE t == [s EXCEPT !.hold = S]
<1>1. /\ DOMAIN t = DOMAIN s /\ t.c = s.c /\ t.p = s.p /\ t.lu = s.lu
      /\ t.hold = S /\ t.peak = s.peak
  BY DEF Held
<1> HIDE DEF t
<1>2. s.hold \subseteq Ids(c) /\ s.peak \in Nat /\ Cardinality(s.hold) <= s.peak BY DEF Held
<1>3. Cardinality(S) \in Nat /\ Cardinality(s.hold) \in Nat BY <1>2, IdsFinite
<1>4. Held(c, t) BY <1>1, <1>2, <1>3 DEF Held
<1>5. Holds(s, t) BY <1>1, <1>2 DEF Holds
<1> QED BY <1>1, <1>4, <1>5 DEF t

\* The output takes a register, or that of an input that dies here.
Outputs(s, i, t) ==
    \/ Nd(s.c, i).op \notin Producers /\ t = s
    \/ /\ Nd(s.c, i).op \in Reusers
       /\ \E x \in s.hold : /\ \E j \in 1..3 : Nd(s.c, i).in[j] = x
                            /\ s.lu[x] = i /\ t.hold = (s.hold \ {x}) \cup {i}
    \/ /\ Nd(s.c, i).op \in Producers /\ t.hold = s.hold \cup {i}
       /\ Cardinality(s.hold \cup {i}) <= t.peak

\* The output of a node in the estimate.
LEMMA OutputHolds ==
    ASSUME NEW c, Whole(c), NEW s, Held(c, s), NEW i \in Ids(c)
    PROVE  LET t == fpr_output(s, i) IN Held(c, t) /\ Holds(s, t) /\ Outputs(s, i, t)
<1> DEFINE t == fpr_output(s, i)
           op == Nd(s.c, i).op
           D == HeldDying(s, i)
           x == Nd(s.c, i).in[Min(D)]
           H == (s.hold \ {x}) \cup {i}
<1>1. s.hold \subseteq Ids(c) /\ s.peak \in Nat /\ Cardinality(s.hold) <= s.peak BY DEF Held
<1>2. CASE op \notin Producers
  <2>1. t = s BY <1>2 DEF fpr_output
  <2> QED BY <1>1, <1>2, <2>1 DEF Outputs, Holds
<1>3. CASE op \in Producers /\ op \in Reusers /\ D # {}
  <2>1. t = [s EXCEPT !.hold = H] BY <1>3 DEF fpr_output
  <2>2. D \subseteq Nat /\ D \subseteq 1..3 BY DEF HeldDying
  <2>3. Min(D) \in D BY <1>3, <2>2, MinIn
  <2>4. Min(D) \in 1..3 /\ x \in s.hold /\ s.lu[x] = i BY <2>3 DEF HeldDying
  <2> HIDE DEF D
  <2>5. IsFiniteSet(s.hold) /\ Cardinality(s.hold) \in Nat BY <1>1, IdsFinite
  <2>6. \E j \in 1..3 : Nd(s.c, i).in[j] = x BY <2>4
  <2> HIDE DEF x
  <2>7. IsFiniteSet(s.hold \ {x}) /\ Cardinality(s.hold \ {x}) = Cardinality(s.hold) - 1
    BY <2>4, <2>5, FS_RemoveElement
  <2>8. Cardinality(H) <= Cardinality(s.hold)
    <3> DEFINE G == s.hold \ {x}
    <3>1. IsFiniteSet(G) /\ Cardinality(G) = Cardinality(s.hold) - 1 BY <2>7
    <3> HIDE DEF G
    <3>2. Cardinality(G \cup {i}) = IF i \in G THEN Cardinality(G) ELSE Cardinality(G) + 1
      BY <3>1, FS_AddElement
    <3>3. Cardinality(G \cup {i}) <= Cardinality(s.hold) BY <2>5, <3>1, <3>2
    <3> QED BY <3>3 DEF G
  <2>9. H \subseteq Ids(c) BY <1>1
  <2> HIDE DEF H, t
  <2>10. Held(c, t) /\ Holds(s, t) /\ t.hold = H BY <2>1, <2>8, <2>9, CutHolds
  <2>11. Outputs(s, i, t) BY <1>3, <2>4, <2>6, <2>10 DEF Outputs, H
  <2> QED BY <2>10, <2>11 DEF t
<1>4. CASE op \in Producers /\ ~(op \in Reusers /\ D # {})
  <2>1. t = Taken(s, {i}) BY <1>4 DEF fpr_output
  <2>2. /\ Held(c, t) /\ Holds(s, t) /\ t.hold = s.hold \cup {i}
        /\ Cardinality(s.hold \cup {i}) <= t.peak
    BY <2>1, TakenHolds
  <2> QED BY <1>4, <2>2 DEF Outputs
<1> QED BY <1>2, <1>3, <1>4

\* What node i does to the estimate.
Estimated(s, i, t) ==
    LET n == Nd(s.c, i)
        w == s.p.with[i]
        out == i \notin s.p.skip /\ n.op \in Producers
        two == i \notin s.p.skip /\ n.op \in FpLoads /\ w >= 0
    IN  IF n.dead THEN t = s
        ELSE /\ \A x \in s.hold : s.lu[x] # i => x \in t.hold
             /\ out /\ s.lu[i] # i => i \in t.hold
             /\ two /\ s.lu[w] # i => w \in t.hold
             /\ out => \/ /\ n.op \in Reusers
                          /\ \E x \in s.hold : s.lu[x] = i /\ \E j \in 1..3 : n.in[j] = x
                       \/ Cardinality(s.hold \cup {i}) <= t.peak
             /\ two => Cardinality(s.hold \cup {i, w}) <= t.peak

\* The partner of a load in the estimate.
LEMMA PartnerHolds ==
    ASSUME NEW c, Whole(c), NEW s, Held(c, s), NEW i \in Ids(c),
           s.p.with[i] >= 0 => s.p.with[i] \in Ids(c)
    PROVE  LET t == fpr_partner(s, i)
               w == s.p.with[i]
           IN  /\ Held(c, t) /\ Holds(s, t)
               /\ IF Nd(s.c, i).op \in FpLoads /\ w >= 0
                  THEN t.hold = s.hold \cup {w} /\ Cardinality(s.hold \cup {w}) <= t.peak
                  ELSE t = s
<1> DEFINE t == fpr_partner(s, i)
           w == s.p.with[i]
<1>1. CASE Nd(s.c, i).op \in FpLoads /\ w >= 0
  <2>1. t = Taken(s, {w}) BY <1>1 DEF fpr_partner
  <2>2. {w} \subseteq Ids(c) BY <1>1
  <2>3. /\ Held(c, t) /\ Holds(s, t) /\ t.hold = s.hold \cup {w}
        /\ Cardinality(s.hold \cup {w}) <= t.peak
    BY <2>1, <2>2, TakenHolds
  <2> QED BY <1>1, <2>3
<1>2. CASE ~(Nd(s.c, i).op \in FpLoads /\ w >= 0)
  <2>1. t = s BY <1>2 DEF fpr_partner
  <2>2. Holds(s, s) BY DEF Holds, Held
  <2> QED BY <1>2, <2>1, <2>2
<1> QED BY <1>1, <1>2

\* Two turns of the estimate.
LEMMA HoldsTrans ==
    ASSUME NEW s, NEW t, NEW u, s.peak \in Nat, t.peak \in Nat, u.peak \in Nat,
           Holds(s, t), Holds(t, u)
    PROVE  Holds(s, u)
BY DEF Holds

\* A turn of peak_live_fprs.
LEMMA EstimateStep ==
    ASSUME NEW c, Whole(c), NEW s, Held(c, s), NEW i \in Ids(c),
           s.p.with[i] >= 0 => s.p.with[i] \in Ids(c)
    PROVE  LET t == fpr_node(s, i) IN Held(c, t) /\ Holds(s, t) /\ Estimated(s, i, t)
<1> DEFINE t == fpr_node(s, i)
           a == fpr_output(s, i)
           b == fpr_partner(a, i)
           n == Nd(s.c, i)
           w == s.p.with[i]
           d == IF i \in s.p.skip THEN s ELSE b
           H == {x \in d.hold : s.lu[x] # i}
<1>1. t = IF n.dead THEN s ELSE [d EXCEPT !.hold = H] BY DEF fpr_node
<1>2. s.c = c /\ s.peak \in Nat /\ s.hold \subseteq Ids(c) BY DEF Held
<1>3. Held(c, a) /\ Holds(s, a) /\ Outputs(s, i, a) BY OutputHolds
<1>4. a.p = s.p /\ a.c = c /\ a.lu = s.lu BY <1>2, <1>3 DEF Holds
<1>5. /\ Held(c, b) /\ Holds(a, b)
      /\ IF n.op \in FpLoads /\ w >= 0
         THEN b.hold = a.hold \cup {w} /\ Cardinality(a.hold \cup {w}) <= b.peak
         ELSE b = a
  <2> HIDE DEF a
  <2> QED BY <1>2, <1>3, <1>4, PartnerHolds
<1>6. CASE n.dead
  <2>1. Holds(s, s) BY <1>2 DEF Holds
  <2> QED BY <1>1, <1>6, <2>1 DEF Estimated
<1>7. CASE ~n.dead
  <2> HIDE DEF a, b, t
  <2>1. Holds(s, b) BY <1>2, <1>3, <1>5, HoldsTrans DEF Held
  <2>2. Held(c, d) /\ Holds(s, d) BY <1>2, <1>5, <2>1 DEF Holds
  <2> HIDE DEF d
  <2>3. d.hold \subseteq Ids(c) BY <2>2 DEF Held
  <2>4. H \subseteq Ids(c) /\ Cardinality(H) <= Cardinality(d.hold) BY <2>3, CardUp
  <2>5. t = [d EXCEPT !.hold = H] BY <1>1, <1>7
  <2> HIDE DEF H
  <2>6. Held(c, t) /\ Holds(d, t) /\ t.hold = H BY <2>2, <2>4, <2>5, CutHolds
  <2>7. Holds(s, t) BY <1>2, <2>2, <2>6, HoldsTrans DEF Held
  <2>8. Producers \cap FpLoads = FpLoads /\ Reusers \subseteq Producers
        /\ Reusers \cap FpLoads = {}
    BY DEF Producers, Reusers, FpLoads, Pure, IntLoads
  <2>9. i \notin s.p.skip => d = b BY DEF d
  <2>10. a.peak \in Nat /\ b.peak \in Nat /\ d.peak \in Nat /\ t.peak \in Nat
         /\ a.peak <= b.peak /\ d.peak <= t.peak
    BY <1>3, <1>5, <2>2, <2>6 DEF Held, Holds
  <2>11. \A x \in s.hold : s.lu[x] # i => x \in a.hold
    BY <1>3 DEF Outputs
  <2>12. n.op \in Producers => i \in a.hold BY <1>3, <2>8 DEF Outputs
  <2>13. a.hold \subseteq b.hold BY <1>5
  <2>14. \A x \in s.hold : s.lu[x] # i => x \in d.hold BY <2>11, <2>13 DEF d
  <2>15. \A x \in s.hold : s.lu[x] # i => x \in t.hold BY <2>6, <2>14 DEF H
  <2>16. ASSUME i \notin s.p.skip, n.op \in Producers
         PROVE  /\ s.lu[i] # i => i \in t.hold
                /\ \/ /\ n.op \in Reusers
                      /\ \E x \in s.hold : s.lu[x] = i /\ \E j \in 1..3 : n.in[j] = x
                   \/ Cardinality(s.hold \cup {i}) <= t.peak
    <3>1. i \in d.hold BY <2>9, <2>12, <2>13, <2>16
    <3>2. s.lu[i] # i => i \in t.hold BY <2>6, <3>1 DEF H
    <3>3. CASE Cardinality(s.hold \cup {i}) <= a.peak
      <4>1. s.hold \cup {i} \subseteq Ids(c) BY <1>2
      <4>2. Cardinality(s.hold \cup {i}) \in Nat BY <4>1, IdsFinite
      <4>3. a.peak <= t.peak BY <2>9, <2>10, <2>16
      <4>4. Cardinality(s.hold \cup {i}) <= t.peak BY <2>10, <3>3, <4>2, <4>3
      <4> QED BY <3>2, <4>4
    <3>4. CASE /\ n.op \in Reusers
               /\ \E x \in s.hold : s.lu[x] = i /\ \E j \in 1..3 : n.in[j] = x
      BY <3>2, <3>4
    <3> QED BY <1>3, <2>16, <3>3, <3>4 DEF Outputs
  <2>17. ASSUME i \notin s.p.skip, n.op \in FpLoads, w >= 0
         PROVE  /\ s.lu[w] # i => w \in t.hold
                /\ Cardinality(s.hold \cup {i, w}) <= t.peak
    <3>1. b.hold = a.hold \cup {w} /\ Cardinality(a.hold \cup {w}) <= b.peak BY <1>5, <2>17
    <3>2. s.lu[w] # i => w \in t.hold BY <2>6, <2>9, <2>17, <3>1 DEF H
    <3>3. a.hold = s.hold \cup {i} BY <1>3, <2>8, <2>17 DEF Outputs
    <3>4. a.hold \cup {w} = s.hold \cup {i, w} BY <3>3
    <3>5. b.peak <= t.peak BY <2>9, <2>10, <2>17
    <3>6. b.hold \subseteq Ids(c) BY <1>5 DEF Held
    <3>7. Cardinality(b.hold) \in Nat BY <3>6, IdsFinite
    <3>8. Cardinality(s.hold \cup {i, w}) <= t.peak BY <2>10, <3>1, <3>4, <3>5, <3>7
    <3> QED BY <3>2, <3>8
  <2>18. Estimated(s, i, t) BY <1>2, <1>7, <2>15, <2>16, <2>17 DEF Estimated
  <2> QED BY <2>6, <2>7, <2>18 DEF t
<1> QED BY <1>6, <1>7

FR == INSTANCE LoopProofs WITH Step <- fpr_node, Good <- Held
AllPairs(c) == compute_pairs(c, GReg)
FprTurn(c, k) == FprScan!Turns(FprStart(c, AllPairs(c)), IdSeq(c))[k]

\* peak_live_fprs turn by turn.
LEMMA FprTurns ==
    ASSUME NEW c, Whole(c)
    PROVE  /\ FprTurn(c, 0) = FprStart(c, AllPairs(c))
           /\ \A i \in Ids(c) : FprTurn(c, i + 1) = fpr_node(FprTurn(c, i), i)
           /\ peak_live_fprs(c) = FprTurn(c, Len(c.nodes)).peak
<1> DEFINE q == IdSeq(c)
           s == FprStart(c, AllPairs(c))
<1>1. Len(c.nodes) \in Nat BY LenNat DEF Whole
<1>2. Len(q) = Len(c.nodes) /\ \A i \in Ids(c) : i + 1 \in 1..Len(q) /\ q[i + 1] = i
  BY <1>1 DEF IdSeq, Ids
<1>3. peak_live_fprs(c) = FprScan!Over(s, q).peak BY DEF peak_live_fprs, AllPairs
<1> HIDE DEF q, s
<1>4. /\ FR!Turns(s, q)[0] = s
      /\ \A k \in 1..Len(q) : FR!Turns(s, q)[k] = fpr_node(FR!Turns(s, q)[k - 1], q[k])
  BY <1>1, <1>2, FR!TurnsFollow
<1>5. FR!Turns(s, q) = FprScan!Turns(s, q) BY DEF FR!Turns, FprScan!Turns
<1>6. \A k : FprTurn(c, k) = FR!Turns(s, q)[k] BY <1>5 DEF FprTurn, s, q
<1>7. peak_live_fprs(c) = FprTurn(c, Len(c.nodes)).peak
  BY <1>2, <1>3, <1>5, <1>6 DEF FprScan!Over
<1>8. ASSUME NEW i \in Ids(c) PROVE FprTurn(c, i + 1) = fpr_node(FprTurn(c, i), i)
  <2>1. i + 1 \in 1..Len(q) /\ q[i + 1] = i /\ (i + 1) - 1 = i BY <1>1, <1>2 DEF Ids
  <2> QED BY <1>4, <1>6, <2>1
<1> QED BY <1>4, <1>6, <1>7, <1>8 DEF s

\* The estimate before node k: a load whose lead is done holds its register.
Ready(c, k) ==
    LET s == FprTurn(c, k)
    IN  /\ Held(c, s) /\ s.p = AllPairs(c) /\ s.lu = LastUse(c, AllPairs(c))
        /\ \A l, x \in Ids(c) :
              /\ l < k /\ k <= x /\ Nd(c, l).op \in FpLoads /\ AllPairs(c).with[l] = x
              => x \in s.hold

\* A turn of the estimate: a partner loaded early is held until its own turn.
LEMMA ReadyStep ==
    ASSUME NEW c, Whole(c), NEW i \in Ids(c), Ready(c, i)
    PROVE  /\ Ready(c, i + 1) /\ Estimated(FprTurn(c, i), i, FprTurn(c, i + 1))
           /\ FprTurn(c, i).peak <= FprTurn(c, i + 1).peak
<1> DEFINE s == FprTurn(c, i)
           t == FprTurn(c, i + 1)
           P == AllPairs(c)
<1>1. t = fpr_node(s, i) BY FprTurns
<1>2. Paired(<<c, GReg>>, P) BY ScansAlike DEF AllPairs
<1>3. /\ Held(c, s) /\ s.p = P /\ s.lu = LastUse(c, P) /\ s.c = c
      /\ \A l, x \in Ids(c) : /\ l < i /\ i <= x /\ Nd(c, l).op \in FpLoads /\ P.with[l] = x
                              => x \in s.hold
  BY DEF Ready, Held
<1> HIDE DEF s, t, P
<1>4. ASSUME NEW l \in Ids(c), P.with[l] # NoNode PROVE PairOf(c, P, l, P.with[l])
  BY <1>2, <1>4 DEF Paired
<1>5. ASSUME P.with[i] >= 0 PROVE P.with[i] \in Ids(c)
  <2>1. P.with[i] # NoNode BY <1>5 DEF NoNode
  <2> QED BY <1>4, <2>1 DEF PairOf
<1>6. Held(c, t) /\ Holds(s, t) /\ Estimated(s, i, t) BY <1>1, <1>3, <1>5, EstimateStep
<1>7. ASSUME NEW l \in Ids(c), NEW x \in Ids(c), l < i + 1, i + 1 <= x,
             Nd(c, l).op \in FpLoads, P.with[l] = x
      PROVE  x \in t.hold
  <2>1. i \in Int /\ l \in Int /\ x \in Int /\ x >= 0 BY DEF Ids
  <2>2. P.with[l] # NoNode BY <1>7, <2>1 DEF NoNode
  <2>3. PairOf(c, P, l, x) BY <1>4, <1>7, <2>2
  <2>4. CASE l = i
    <3>1. ~Nd(c, i).dead /\ i \notin P.skip BY <2>3, <2>4 DEF PairOf, Live
    <3>2. Nd(c, i).op \notin FpStores \cup {"FStsw"}
      BY <1>7, <2>4 DEF FpLoads, FpStores
    <3>3. s.lu[x] # i BY <1>2, <1>3, <1>7, <2>1, <3>2, NotSelf
    <3> QED BY <1>3, <1>6, <1>7, <2>1, <2>4, <3>1, <3>3 DEF Estimated
  <2>5. CASE l < i
    <3>1. x \in s.hold BY <1>3, <1>7, <2>1, <2>5
    <3>2. CASE Nd(c, i).dead BY <1>3, <1>6, <3>1, <3>2 DEF Estimated
    <3>3. CASE ~Nd(c, i).dead
      <4>1. i \in Between(c, l, x) BY <1>7, <2>1, <2>5, <3>3 DEF Between, LiveNodes, Live
      <4>2. pair_node_skippable(Nd(c, i).op, TRUE) BY <1>7, <2>3, <4>1 DEF PairOf
      <4>3. Nd(c, i).op \notin FpStores \cup {"FStsw"}
        BY <4>2 DEF pair_node_skippable, Pure, FpLoads, IntLoads, FpStores
      <4>4. s.lu[x] # i BY <1>2, <1>3, <1>7, <2>1, <4>3, NotSelf
      <4> QED BY <1>3, <1>6, <3>1, <3>3, <4>4 DEF Estimated
    <3> QED BY <3>2, <3>3
  <2> QED BY <1>7, <2>1, <2>4, <2>5
<1>8. Ready(c, i + 1)
  <2>1. t.p = P /\ t.lu = LastUse(c, P) BY <1>3, <1>6 DEF Holds
  <2> QED BY <1>6, <1>7, <2>1 DEF Ready, t, P
<1> QED BY <1>6, <1>8 DEF s, t, Holds

\* The estimate is as Ready says before every node.
LEMMA AllReady ==
    ASSUME NEW c, Whole(c)
    PROVE  \A k \in 0..Len(c.nodes) : Ready(c, k)
<1> DEFINE S == {k \in Nat : k <= Len(c.nodes) => Ready(c, k)}
<1>1. Len(c.nodes) \in Nat BY LenNat DEF Whole
<1>2. Ready(c, 0)
  <2> DEFINE s == FprTurn(c, 0)
  <2>1. s = FprStart(c, AllPairs(c)) BY FprTurns
  <2>2. /\ DOMAIN s = {"c", "p", "lu", "hold", "peak"} /\ s.c = c /\ s.p = AllPairs(c)
        /\ s.lu = LastUse(c, AllPairs(c)) /\ s.hold = {} /\ s.peak = 0
    BY <2>1 DEF FprStart
  <2>3. Cardinality({}) = 0 BY FS_EmptySet
  <2> HIDE DEF s
  <2>4. Held(c, s) BY <2>2, <2>3 DEF Held
  <2>5. \A l \in Ids(c) : ~(l < 0) BY DEF Ids
  <2> QED BY <2>2, <2>4, <2>5 DEF Ready, s
<1>3. 0 \in S BY <1>2
<1>4. ASSUME NEW k \in Nat, k \in S PROVE k + 1 \in S
  <2>1. CASE k + 1 <= Len(c.nodes)
    <3>1. k \in Ids(c) /\ k <= Len(c.nodes) BY <1>1, <2>1 DEF Ids
    <3>2. Ready(c, k) BY <1>4, <3>1
    <3> QED BY <3>1, <3>2, ReadyStep
  <2>2. CASE ~(k + 1 <= Len(c.nodes)) BY <2>2
  <2> QED BY <2>1, <2>2
<1>5. Nat \subseteq S
  <2> HIDE DEF S
  <2> QED BY <1>3, <1>4, PR!Upward
<1> QED BY <1>1, <1>5

\* What is held before any node is within the peak.
LEMMA PeakIsPeak ==
    ASSUME NEW c, Whole(c)
    PROVE  \A k \in 0..Len(c.nodes) : FprTurn(c, k).peak <= peak_live_fprs(c)
<1> DEFINE L == Len(c.nodes)
           pk(k) == FprTurn(c, k).peak
           S == {k \in Nat : k <= L => pk(L - k) <= pk(L)}
<1>1. L \in Nat BY LenNat DEF Whole
<1>2. \A k \in 0..L : pk(k) \in Nat BY AllReady DEF Ready, Held
<1>3. ASSUME NEW i \in Ids(c) PROVE pk(i) <= pk(i + 1)
  <2>1. i \in 0..L BY <1>1 DEF Ids
  <2> QED BY <2>1, AllReady, ReadyStep
<1>4. peak_live_fprs(c) = pk(L) BY FprTurns
<1> HIDE DEF pk
<1>5. 0 \in S
  <2>1. L - 0 = L BY <1>1
  <2>2. pk(L) \in Nat BY <1>1, <1>2
  <2> QED BY <2>1, <2>2
<1>6. ASSUME NEW k \in Nat, k \in S PROVE k + 1 \in S
  <2>1. CASE k + 1 <= L
    <3> DEFINE i == L - (k + 1)
    <3>1. i \in Ids(c) /\ i + 1 = L - k /\ k <= L /\ i \in 0..L /\ i + 1 \in 0..L
      BY <1>1, <2>1 DEF Ids
    <3>2. pk(L - k) <= pk(L) BY <1>6, <3>1
    <3>3. L - k \in 0..L /\ L \in 0..L BY <1>1, <3>1
    <3> HIDE DEF i, S, L
    <3>4. pk(i) <= pk(i + 1) BY <1>3, <3>1
    <3>5. pk(i) <= pk(L - k) BY <3>1, <3>4
    <3>6. pk(i) \in Nat BY <1>2, <3>1
    <3>7. pk(L - k) \in Nat BY <1>2, <3>3
    <3>8. pk(L) \in Nat BY <1>2, <3>3
    <3>9. pk(i) <= pk(L) BY <3>2, <3>5, <3>6, <3>7, <3>8
    <3> USE DEF i, S
    <3> QED BY <3>9
  <2>2. CASE ~(k + 1 <= L) BY <2>2
  <2> QED BY <2>1, <2>2
<1>7. Nat \subseteq S
  <2> HIDE DEF S
  <2> QED BY <1>5, <1>6, PR!Upward
<1>8. ASSUME NEW k \in 0..L PROVE pk(k) <= pk(L)
  <2>1. L - k \in Nat /\ L - k <= L /\ L - (L - k) = k BY <1>1
  <2>2. L - k \in S BY <1>7, <2>1
  <2> QED BY <2>1, <2>2
<1> QED BY <1>4, <1>8 DEF pk

(***************************************************************************)
(* The registers while nodes are lowered.                                  *)
(***************************************************************************)
HostFields == {"g", "known", "fpr", "free", "nf", "packed", "saved", "rc", "gprs", "starved",
               "base"}
Pool == 0..(FprPool - 1)
Holders(c, x) == {z \in Ids(c) : x.nf[z] >= 0}
\* A register is free or some node's.
Covered(c, x) == \A r \in Pool : r \in x.free \/ \E z \in Holders(c, x) : x.nf[z] = r
Host(c, x) ==
    /\ DOMAIN x = HostFields /\ x.nf \in [Ids(c) -> {NoReg} \cup Pool] /\ x.free \subseteq Pool
    /\ Covered(c, x) /\ ~x.starved
SameRegs(x, y) ==
    DOMAIN y = HostFields /\ y.nf = x.nf /\ y.free = x.free /\ y.starved = x.starved

\* What leaves the registers alone.
LEMMA SameHost ==
    ASSUME NEW c, NEW x, Host(c, x), NEW y, SameRegs(x, y)
    PROVE  Host(c, y) /\ Holders(c, y) = Holders(c, x)
<1>1. Holders(c, y) = Holders(c, x) BY DEF Holders, SameRegs
<1> QED BY <1>1 DEF Host, SameRegs, Covered

\* A node holds a register of the pool or none.
LEMMA Ranges ==
    ASSUME NEW c, NEW x, Host(c, x), NEW z \in Ids(c)
    PROVE  /\ x.nf[z] \in Int
           /\ z \in Holders(c, x) <=> x.nf[z] \in Pool
           /\ z \notin Holders(c, x) <=> x.nf[z] = NoReg
<1>1. x.nf[z] \in {NoReg} \cup Pool BY DEF Host
<1> QED BY <1>1, FprPoolAssumption DEF Holders, Pool, NoReg

ImageOf(f, H) == {f[z] : z \in H}
\* A finite set has at least as many elements as its image.
LEMMA ImageBound ==
    ASSUME NEW f, NEW H, IsFiniteSet(H)
    PROVE  IsFiniteSet(ImageOf(f, H)) /\ Cardinality(ImageOf(f, H)) <= Cardinality(H)
<1> DEFINE P(G) == IsFiniteSet(ImageOf(f, G)) /\ Cardinality(ImageOf(f, G)) <= Cardinality(G)
           S == {n \in Nat : \A G : IsFiniteSet(G) /\ Cardinality(G) = n => P(G)}
<1>1. 0 \in S
  <2>1. ASSUME NEW G, IsFiniteSet(G), Cardinality(G) = 0 PROVE P(G)
    <3>1. G = {} BY <2>1, FS_EmptySet
    <3>2. ImageOf(f, G) = {} BY <3>1 DEF ImageOf
    <3>3. IsFiniteSet({}) /\ Cardinality({}) = 0 BY FS_EmptySet
    <3> QED BY <3>1, <3>2, <3>3
  <2> QED BY <2>1
<1>2. ASSUME NEW n \in Nat, n \in S PROVE n + 1 \in S
  <2>1. ASSUME NEW G, IsFiniteSet(G), Cardinality(G) = n + 1 PROVE P(G)
    <3>1. G # {} BY <2>1, FS_EmptySet
    <3>2. PICK z : z \in G BY <3>1
    <3> DEFINE D == G \ {z}
    <3>9. IsFiniteSet(D) /\ Cardinality(D) = Cardinality(G) - 1
      BY <2>1, <3>2, FS_RemoveElement
    <3>3. IsFiniteSet(D) /\ Cardinality(D) = n
      <4> HIDE DEF D
      <4> QED BY <2>1, <3>9
    <3>4. ImageOf(f, G) = ImageOf(f, D) \cup {f[z]} BY <3>2 DEF ImageOf
    <3> HIDE DEF D
    <3>5. IsFiniteSet(ImageOf(f, D)) /\ Cardinality(ImageOf(f, D)) <= n BY <1>2, <3>3
    <3> DEFINE I == ImageOf(f, D)
    <3>6. Cardinality(I) \in Nat BY <3>5, FS_CardinalityType
    <3> HIDE DEF I
    <3>7. /\ IsFiniteSet(I \cup {f[z]})
          /\ Cardinality(I \cup {f[z]}) = IF f[z] \in I THEN Cardinality(I) ELSE Cardinality(I) + 1
      BY <3>5, FS_AddElement DEF I
    <3>8. Cardinality(I \cup {f[z]}) <= n + 1 BY <3>5, <3>6, <3>7 DEF I
    <3> QED BY <2>1, <3>4, <3>7, <3>8 DEF I
  <2> HIDE DEF P
  <2> QED BY <2>1
<1>3. Nat \subseteq S
  <2> HIDE DEF S
  <2> QED BY <1>1, <1>2, PR!Upward
<1>4. Cardinality(H) \in Nat BY FS_CardinalityType
<1> HIDE DEF P
<1>5. P(H) BY <1>3, <1>4
<1> QED BY <1>5 DEF P

\* With fewer holders than registers one is free.
LEMMA Room ==
    ASSUME NEW c, Whole(c), NEW x, Host(c, x), Cardinality(Holders(c, x)) < FprPool
    PROVE  x.free # {}
<1> SUFFICES ASSUME x.free = {} PROVE FALSE OBVIOUS
<1> DEFINE H == Holders(c, x)
           R == {x.nf[z] : z \in H}
<1>1. IsFiniteSet(H) /\ Cardinality(H) \in Nat BY IdsFinite DEF Holders
<1>2. Pool \subseteq R BY DEF Host, Covered
<1> HIDE DEF H
<1>3. IsFiniteSet(R) /\ Cardinality(R) <= Cardinality(H) /\ Cardinality(R) \in Nat
  <2>1. R = ImageOf(x.nf, H) BY DEF ImageOf
  <2>2. IsFiniteSet(R) /\ Cardinality(R) <= Cardinality(H) BY <1>1, <2>1, ImageBound
  <2> QED BY <2>2, FS_CardinalityType
<1> HIDE DEF R
<1>4. Cardinality(Pool) = FprPool
  <2>1. Cardinality(0..(FprPool - 1)) =
           IF 0 > FprPool - 1 THEN 0 ELSE ((FprPool - 1) - 0) + 1
    BY FprPoolAssumption, FS_Interval
  <2> QED BY <2>1, FprPoolAssumption DEF Pool
<1>5. Cardinality(Pool) <= Cardinality(R) BY <1>2, <1>3, FS_Subset
<1> QED BY <1>1, <1>3, <1>4, <1>5, FprPoolAssumption DEF H

\* One change of the register table.
LEMMA Changed ==
    ASSUME NEW c, NEW x, Host(c, x), NEW y, NEW id \in Ids(c), NEW r \in {NoReg} \cup Pool,
           DOMAIN y = HostFields, y.nf = [x.nf EXCEPT ![id] = r], y.starved = x.starved,
           y.free \subseteq Pool, Covered(c, y)
    PROVE  /\ Host(c, y)
           /\ Holders(c, y) = IF r = NoReg THEN Holders(c, x) \ {id} ELSE Holders(c, x) \cup {id}
<1>1. y.nf \in [Ids(c) -> {NoReg} \cup Pool] BY DEF Host
<1>2. Host(c, y) BY <1>1 DEF Host
<1>3. \A z \in Ids(c) : z # id => y.nf[z] = x.nf[z] BY DEF Host
<1>4. y.nf[id] = r BY DEF Host
<1>5. r >= 0 <=> r # NoReg BY FprPoolAssumption DEF Pool, NoReg
<1> QED BY <1>2, <1>3, <1>4, <1>5 DEF Holders

\* alloc_free_fpr with a register left.
LEMMA AllocHost ==
    ASSUME NEW c, NEW x, Host(c, x), NEW id \in Ids(c), id \notin Holders(c, x), x.free # {}
    PROVE  LET y == alloc_free_fpr(x, id)
           IN  Host(c, y) /\ Holders(c, y) = Holders(c, x) \cup {id}
<1> DEFINE r == Min(x.free)
           y == [x EXCEPT !.nf[id] = r, !.free = @ \ {r}]
<1>1. alloc_free_fpr(x, id) = y BY DEF alloc_free_fpr
<1>2. x.free \subseteq Nat BY FprPoolAssumption DEF Host, Pool
<1>3. r \in x.free BY <1>2, MinIn
<1>4. r \in Pool /\ r # NoReg BY <1>2, <1>3 DEF Host, NoReg
<1> HIDE DEF r
<1>5. /\ DOMAIN y = HostFields /\ y.nf = [x.nf EXCEPT ![id] = r] /\ y.starved = x.starved
      /\ y.free = x.free \ {r}
  BY DEF Host, HostFields
<1> HIDE DEF y
<1>6. y.nf[id] = r /\ \A z \in Ids(c) : z # id => y.nf[z] = x.nf[z] BY <1>5 DEF Host
<1>7. r >= 0 BY <1>2, <1>3
<1>8. id \in Holders(c, y) BY <1>6, <1>7 DEF Holders
<1>9. ASSUME NEW q \in Pool PROVE q \in y.free \/ \E z \in Holders(c, y) : y.nf[z] = q
  <2>1. CASE q \in x.free BY <1>5, <1>6, <1>8, <2>1
  <2>2. CASE q \notin x.free
    <3>1. PICK z \in Holders(c, x) : q = x.nf[z] BY <1>9, <2>2 DEF Host, Covered
    <3>2. z # id /\ z \in Ids(c) BY <3>1 DEF Holders
    <3>3. z \in Holders(c, y) /\ y.nf[z] = q BY <1>6, <3>1, <3>2 DEF Holders
    <3> QED BY <3>3
  <2> QED BY <2>1, <2>2
<1>10. y.free \subseteq Pool /\ Covered(c, y)
  BY <1>5, <1>9 DEF Host, Covered
<1>11. Host(c, y) /\ Holders(c, y) = IF r = NoReg THEN Holders(c, x) \ {id}
                                    ELSE Holders(c, x) \cup {id}
  BY <1>4, <1>5, <1>10, Changed
<1> QED BY <1>1, <1>4, <1>11

\* free_fpr of a register that is held.
LEMMA FreeHost ==
    ASSUME NEW c, NEW x, Host(c, x), NEW id \in Holders(c, x)
    PROVE  LET y == free_fpr(x, id)
           IN  Host(c, y) /\ Holders(c, y) = Holders(c, x) \ {id}
<1> DEFINE r == x.nf[id]
           y == [x EXCEPT !.free = @ \cup {r}, !.nf[id] = NoReg]
<1>1. free_fpr(x, id) = y BY DEF free_fpr
<1>2. id \in Ids(c) BY DEF Holders
<1>3. r \in Pool BY <1>2, Ranges
<1> HIDE DEF r
<1>4. /\ DOMAIN y = HostFields /\ y.nf = [x.nf EXCEPT ![id] = NoReg] /\ y.starved = x.starved
      /\ y.free = x.free \cup {r}
  BY DEF Host, HostFields
<1> HIDE DEF y
<1>6. \A z \in Ids(c) : z # id => y.nf[z] = x.nf[z] BY <1>4 DEF Host
<1>9. ASSUME NEW q \in Pool PROVE q \in y.free \/ \E z \in Holders(c, y) : y.nf[z] = q
  <2>1. CASE q \in x.free \cup {r} BY <1>4, <2>1
  <2>2. CASE q \notin x.free \cup {r}
    <3>1. PICK z \in Holders(c, x) : q = x.nf[z] BY <1>9, <2>2 DEF Host, Covered
    <3>2. z # id /\ z \in Ids(c) BY <2>2, <3>1 DEF Holders, r
    <3>3. z \in Holders(c, y) /\ y.nf[z] = q BY <1>6, <3>1, <3>2 DEF Holders
    <3> QED BY <3>3
  <2> QED BY <2>1, <2>2
<1>10. y.free \subseteq Pool /\ Covered(c, y)
  BY <1>3, <1>4, <1>9 DEF Host, Covered
<1>11. Host(c, y) /\ Holders(c, y) = Holders(c, x) \ {id}
  BY <1>2, <1>4, <1>10, Changed
<1> QED BY <1>1, <1>11

\* A dying input's register goes to the output.
LEMMA ReuseHost ==
    ASSUME NEW c, NEW x, Host(c, x), NEW i \in Ids(c), i \notin Holders(c, x),
           NEW id \in Holders(c, x), NEW y, DOMAIN y = HostFields, y.starved = x.starved,
           y.free = x.free, y.nf = [x.nf EXCEPT ![i] = x.nf[id], ![id] = NoReg]
    PROVE  Host(c, y) /\ Holders(c, y) = (Holders(c, x) \ {id}) \cup {i}
<1> DEFINE r == x.nf[id]
<1>1. id \in Ids(c) /\ id # i BY DEF Holders
<1>2. r \in Pool BY <1>1, Ranges
<1>3. /\ DOMAIN y = HostFields /\ y.starved = x.starved /\ y.free = x.free
      /\ y.nf = [x.nf EXCEPT ![i] = r, ![id] = NoReg]
  OBVIOUS
<1> HIDE DEF r
<1>4. y.nf \in [Ids(c) -> {NoReg} \cup Pool] BY <1>2, <1>3 DEF Host
<1>5. y.nf[i] = r /\ y.nf[id] = NoReg BY <1>1, <1>3 DEF Host
<1>6. \A z \in Ids(c) : z # i /\ z # id => y.nf[z] = x.nf[z] BY <1>3 DEF Host
<1>7. r >= 0 /\ ~(NoReg >= 0) BY <1>2, FprPoolAssumption DEF Pool, NoReg
<1>8. Holders(c, y) = (Holders(c, x) \ {id}) \cup {i} BY <1>1, <1>5, <1>6, <1>7 DEF Holders
<1>9. ASSUME NEW q \in Pool PROVE q \in y.free \/ \E z \in Holders(c, y) : y.nf[z] = q
  <2>1. CASE q \in x.free BY <1>3, <2>1
  <2>2. CASE q \notin x.free
    <3>1. PICK z \in Holders(c, x) : q = x.nf[z] BY <1>9, <2>2 DEF Host, Covered
    <3>2. z # i /\ z \in Ids(c) BY <3>1 DEF Holders
    <3>3. CASE z = id BY <1>5, <1>8, <3>1, <3>3 DEF r
    <3>4. CASE z # id BY <1>6, <1>8, <3>1, <3>2, <3>4
    <3> QED BY <3>3, <3>4
  <2> QED BY <2>1, <2>2
<1>10. Host(c, y) BY <1>3, <1>4, <1>9 DEF Host, Covered
<1> QED BY <1>8, <1>10

\* The inputs whose last use is i.
Spent(c, p, i) == {z \in Ids(c) : p.last[z] = i /\ \E j \in 1..3 : Nd(c, i).in[j] = z}

\* An input freed if it dies here.
LEMMA FreeOne ==
    ASSUME NEW c, NEW x, Host(c, x), NEW p, NEW i, NEW j \in 1..3
    PROVE  LET y == IF j \in Dying(x, c, p, i) THEN free_fpr(x, Nd(c, i).in[j]) ELSE x
           IN  /\ Host(c, y) /\ Holders(c, y) \subseteq Holders(c, x)
               /\ Nd(c, i).in[j] \in Spent(c, p, i) => Nd(c, i).in[j] \notin Holders(c, y)
<1> DEFINE z == Nd(c, i).in[j]
<1>1. CASE j \in Dying(x, c, p, i)
  <2>1. z \in Holders(c, x) BY <1>1 DEF Dying, Holders
  <2>2. Host(c, free_fpr(x, z)) /\ Holders(c, free_fpr(x, z)) = Holders(c, x) \ {z}
    BY <2>1, FreeHost
  <2> QED BY <1>1, <2>2
<1>2. CASE j \notin Dying(x, c, p, i)
  <2>1. z \in Spent(c, p, i) => z \notin Holders(c, x) BY <1>2 DEF Dying, Holders, Spent
  <2> QED BY <1>2, <2>1
<1> QED BY <1>1, <1>2

\* free_dead_inputs: no input that is used last here is still held.
LEMMA FreeDeadHost ==
    ASSUME NEW c, NEW x, Host(c, x), NEW p, NEW i
    PROVE  LET y == free_dead_inputs(x, c, p, i)
           IN  Host(c, y) /\ Holders(c, y) \subseteq Holders(c, x) \ Spent(c, p, i)
<1> DEFINE st(y, j) == IF j \in Dying(y, c, p, i) THEN free_fpr(y, Nd(c, i).in[j]) ELSE y
           x1 == st(x, 1)
           x2 == st(x1, 2)
           x3 == st(x2, 3)
           gone(j, y) == Nd(c, i).in[j] \in Spent(c, p, i) => Nd(c, i).in[j] \notin Holders(c, y)
<1>1. free_dead_inputs(x, c, p, i) = x3 BY DEF free_dead_inputs
<1>2. Host(c, x1) /\ Holders(c, x1) \subseteq Holders(c, x) /\ gone(1, x1) BY FreeOne
<1> HIDE DEF x1
<1>3. Host(c, x2) /\ Holders(c, x2) \subseteq Holders(c, x1) /\ gone(2, x2) BY <1>2, FreeOne
<1> HIDE DEF x2
<1>4. Host(c, x3) /\ Holders(c, x3) \subseteq Holders(c, x2) /\ gone(3, x3) BY <1>3, FreeOne
<1> HIDE DEF x3
<1>5. gone(1, x3) /\ gone(2, x3) BY <1>2, <1>3, <1>4
<1>6. ASSUME NEW z \in Spent(c, p, i) PROVE z \notin Holders(c, x3)
  <2>1. PICK j \in 1..3 : Nd(c, i).in[j] = z BY DEF Spent
  <2>2. j = 1 \/ j = 2 \/ j = 3 OBVIOUS
  <2> QED BY <1>4, <1>5, <2>1, <2>2
<1> QED BY <1>1, <1>2, <1>3, <1>4, <1>6

(***************************************************************************)
(* What emitting a node does to the registers.                             *)
(***************************************************************************)
\* A cached base changes where a node reads, not what it is.
LEMMA AddressedIs ==
    ASSUME NEW c, Whole(c), NEW i \in Ids(c), NEW x, NEW p
    PROVE  LET n == Addressed(x, p, Nd(c, i))
           IN  n.op = Nd(c, i).op /\ n.in = Nd(c, i).in
<1>1. DOMAIN Nd(c, i) = NodeFields BY NodeAt DEF NodeFits
<1> QED BY <1>1 DEF Addressed, NodeFields

\* What concerns other parts of the host leaves the registers alone.
LEMMA SameRegsSelf ==
    ASSUME NEW x, DOMAIN x = HostFields
    PROVE  /\ SameRegs(x, x)
           /\ \A v : SameRegs(x, [x EXCEPT !.g = v]) /\ SameRegs(x, [x EXCEPT !.rc = v])
                     /\ SameRegs(x, [x EXCEPT !.gprs = v]) /\ SameRegs(x, [x EXCEPT !.fpr = v])
                     /\ SameRegs(x, [x EXCEPT !.packed = v]) /\ SameRegs(x, [x EXCEPT !.saved = v])
BY DEF SameRegs, HostFields

\* Two steps that leave the registers alone.
LEMMA SameRegsTrans ==
    ASSUME NEW x, NEW y, SameRegs(x, y), NEW z, SameRegs(y, z) PROVE SameRegs(x, z)
BY DEF SameRegs

\* Writing a register that is held.
LEMMA HoldSame ==
    ASSUME NEW x, DOMAIN x = HostFields, NEW id, NEW v PROVE SameRegs(x, Hold(x, id, v))
<1> DEFINE f == [x.fpr EXCEPT ![x.nf[id]] = v]
<1>1. [x EXCEPT !.fpr[x.nf[id]] = v] = [x EXCEPT !.fpr = f] OBVIOUS
<1> HIDE DEF f
<1> QED BY <1>1, SameRegsSelf DEF Hold

\* A compare takes no floating-point register.
LEMMA CompareSame ==
    ASSUME NEW x, DOMAIN x = HostFields, NEW p, NEW n, NEW i, NEW cmp
    PROVE  SameRegs(x, EmitCompare(x, p, n, i, cmp))
<1> DEFINE y == Flags(x, p, i, cmp)
           s0 == IF x.saved = NoReg THEN x.g.fpu.nzcv ELSE x.saved
           a == [x EXCEPT !.g.fpu.nzcv = cmp]
           b == [x EXCEPT !.g.fpu.nzcv = s0, !.saved = NoReg]
           d == [x EXCEPT !.g.fpu.nzcv = cmp, !.saved = s0]
<1>1. y \in {a, b, d, x} BY DEF Flags
<1>2. SameRegs(x, a) /\ SameRegs(x, b) /\ SameRegs(x, d) BY DEF SameRegs, HostFields
<1>3. SameRegs(x, y) BY <1>1, <1>2, SameRegsSelf
<1> HIDE DEF y
<1>4. SameRegs(y, [y EXCEPT !.packed[i] = cmp]) /\ SameRegs(y, [y EXCEPT !.g.fpu.cc = cmp])
  BY <1>3 DEF SameRegs, HostFields
<1>5. EmitCompare(x, p, n, i, cmp) = IF n.fused THEN [y EXCEPT !.packed[i] = cmp]
                                     ELSE [y EXCEPT !.g.fpu.cc = cmp]
  BY DEF EmitCompare, y
<1> QED BY <1>3, <1>4, <1>5, SameRegsTrans

\* Nor does FSTSW.
LEMMA FstswSame ==
    ASSUME NEW x, DOMAIN x = HostFields, NEW e0, NEW n PROVE SameRegs(x, EmitFstsw(x, e0, n))
<1> DEFINE id == n.in[1]
           cc == IF ~n.fused THEN x.g.fpu.cc
                 ELSE IF x.packed[id] = NoReg THEN 0 ELSE x.packed[id]
           a == [x EXCEPT !.g.fpu.cc = cc, !.packed[id] = NoReg]
           y == IF n.fused THEN a ELSE x
           v == StatusWord(StswTop(e0, Top(x), n.in[3]), cc)
<1>1. EmitFstsw(x, e0, n) = [y EXCEPT !.g = SetReg(@, "ax", v)] BY DEF EmitFstsw
<1> HIDE DEF cc, v
<1>2. SameRegs(x, a) BY DEF SameRegs, HostFields
<1>3. SameRegs(x, y) BY <1>2, SameRegsSelf
<1> HIDE DEF y
<1>4. SameRegs(y, [y EXCEPT !.g = SetReg(@, "ax", v)]) BY <1>3 DEF SameRegs, HostFields
<1> QED BY <1>1, <1>3, <1>4, SameRegsTrans

\* The registers of an output and of the load paired with it.
OutRegs(x, c, p, i) ==
    LET out == OutputFpr(x, c, p, i)
    IN  IF Nd(c, i).op \in FpLoads /\ p.with[i] >= 0 THEN alloc_free_fpr(out, p.with[i]) ELSE out
\* The value of a store done with this one.
Sunk(c, p, i) == Nd(c, p.with[i]).in[1]

\* The fields of the host after an allocation.
LEMMA AllocFields ==
    ASSUME NEW x, DOMAIN x = HostFields, NEW id
    PROVE  DOMAIN alloc_free_fpr(x, id) = HostFields /\ DOMAIN free_fpr(x, id) = HostFields
BY DEF alloc_free_fpr, free_fpr

\* The fields of the host after the output register is chosen.
LEMMA OutFields ==
    ASSUME NEW x, DOMAIN x = HostFields, NEW c, NEW p, NEW i
    PROVE  DOMAIN OutputFpr(x, c, p, i) = HostFields
<1> DEFINE id == Nd(c, i).in[Min(Dying(x, c, p, i))]
           y == [x EXCEPT !.nf[i] = x.nf[id], !.nf[id] = NoReg]
<1>1. OutputFpr(x, c, p, i) \in {y, alloc_free_fpr(x, i)} BY DEF OutputFpr
<1>2. DOMAIN y = HostFields OBVIOUS
<1> HIDE DEF y, id
<1> QED BY <1>1, <1>2, AllocFields

\* Emitting a node with a result takes the registers OutRegs says.
LEMMA EmitProducer ==
    ASSUME NEW c, Whole(c), NEW i \in Ids(c), NEW x, DOMAIN x = HostFields, NEW e0, NEW p,
           Nd(c, i).op \in Producers
    PROVE  SameRegs(OutRegs(x, c, p, i), EmitNode(x, e0, c, p, i))
<1> DEFINE n == Addressed(x, p, Nd(c, i))
           w == p.with[i]
           v == Inputs(n, LAMBDA id : Fpr(x, id))
           out == OutputFpr(x, c, p, i)
           u == NodeValue(x.g, Addressed(x, p, Nd(c, w)), v, 0)
           al == alloc_free_fpr(out, w)
           pair == IF n.op \in FpLoads /\ w >= 0 THEN Hold(al, w, u) ELSE out
           val == IF n.op = "ReadSt" THEN ReadStKnown(x, n) ELSE NodeValue(x.g, n, v, RcOf(x, p, n))
           rc == RcAfter(x, p, n, x.g)
           y == [Hold(pair, i, val) EXCEPT !.rc = rc]
<1>1. n.op = Nd(c, i).op BY AddressedIs
<1>2. /\ ~IsCompare(n) /\ n.op # "FStsw" /\ n.op \notin FpStores
  BY <1>1 DEF IsCompare, Producers, Pure, FpLoads, IntLoads, FpStores
<1>3. EmitNode(x, e0, c, p, i) = y BY <1>1, <1>2 DEF EmitNode
<1>4. OutRegs(x, c, p, i) = IF n.op \in FpLoads /\ w >= 0 THEN al ELSE out BY <1>1 DEF OutRegs
<1>5. DOMAIN out = HostFields BY OutFields
<1> HIDE DEF out
<1>6. DOMAIN al = HostFields BY <1>5, AllocFields
<1> HIDE DEF al, u, val, rc, n
<1>7. SameRegs(OutRegs(x, c, p, i), pair) BY <1>4, <1>5, <1>6, HoldSame, SameRegsSelf
<1> HIDE DEF pair
<1>8. SameRegs(pair, Hold(pair, i, val)) BY <1>7, HoldSame DEF SameRegs
<1> DEFINE k == Hold(pair, i, val)
<1> HIDE DEF k
<1>9. SameRegs(k, [k EXCEPT !.rc = rc]) BY <1>8, SameRegsSelf DEF SameRegs, k
<1> QED BY <1>3, <1>7, <1>8, <1>9, SameRegsTrans DEF k

\* Emitting any other node takes none, and a pair of stores may free one.
LEMMA EmitOther ==
    ASSUME NEW c, Whole(c), NEW i \in Ids(c), NEW x, DOMAIN x = HostFields, NEW e0, NEW p,
           Nd(c, i).op \notin Producers
    PROVE  LET y == EmitNode(x, e0, c, p, i)
               s == Sunk(c, p, i)
           IN  IF /\ Nd(c, i).op \in FpStores /\ p.with[i] >= 0
                  /\ s # Nd(c, i).in[1] /\ p.last[s] = i /\ x.nf[s] >= 0
               THEN SameRegs(free_fpr(x, s), y)
               ELSE SameRegs(x, y)
<1> DEFINE n == Addressed(x, p, Nd(c, i))
           w == p.with[i]
           v == Inputs(n, LAMBDA id : Fpr(x, id))
           twin == Addressed(x, p, Nd(c, w))
           sunk == Nd(c, w).in[1]
           g0 == NodeEffect(e0, NodeEffect(e0, x.g, n, v, 0), twin, <<Fpr(x, sunk), Zero, Zero>>, 0)
           stored == [x EXCEPT !.g = g0]
           g == NodeEffect(e0, x.g, n, v, RcOf(x, p, n))
           rc == RcAfter(x, p, n, g)
           y == EmitNode(x, e0, c, p, i)
           other == [x EXCEPT !.g = g, !.rc = rc]
           st == IF sunk # n.in[1] /\ p.last[sunk] = i /\ x.nf[sunk] >= 0
                 THEN free_fpr(stored, sunk) ELSE stored
<1>1. n.op = Nd(c, i).op /\ n.in = Nd(c, i).in BY AddressedIs
<1>2. n.op \in FpStores => ~IsCompare(n) /\ n.op # "FStsw" BY DEF FpStores, IsCompare
<1>3. IsCompare(n) => n.op # "FStsw" BY DEF IsCompare
<1>4. y = CASE n.op \in Producers -> y
            [] IsCompare(n) -> EmitCompare(x, p, n, i, CmpValue(n, v))
            [] n.op = "FStsw" -> EmitFstsw(x, e0, n)
            [] n.op \in FpStores /\ w >= 0 -> st
            [] OTHER -> other
  BY <1>1 DEF EmitNode
<1> HIDE DEF y, st, other, v, n
<1>5. /\ IsCompare(n) => y = EmitCompare(x, p, n, i, CmpValue(n, v))
      /\ n.op = "FStsw" => y = EmitFstsw(x, e0, n)
      /\ n.op \in FpStores /\ w >= 0 => y = st
      /\ ~IsCompare(n) /\ n.op # "FStsw" /\ ~(n.op \in FpStores /\ w >= 0) => y = other
  BY <1>1, <1>2, <1>3, <1>4
<1>6. SameRegs(x, other) BY DEF SameRegs, HostFields, other
<1>7. SameRegs(x, stored) /\ SameRegs(free_fpr(x, sunk), free_fpr(stored, sunk))
  BY DEF SameRegs, HostFields, free_fpr
<1>8. CASE n.op \in FpStores /\ w >= 0
  <2>1. y = st BY <1>5, <1>8
  <2> HIDE DEF stored
  <2> QED BY <1>1, <1>7, <1>8, <2>1 DEF st, y, Sunk
<1>9. CASE ~(n.op \in FpStores /\ w >= 0)
  <2>1. SameRegs(x, y) BY <1>5, <1>6, <1>9, CompareSame, FstswSame
  <2> QED BY <1>1, <1>9, <2>1 DEF y
<1> QED BY <1>8, <1>9

\* The lowering before node k, beside the estimate: it holds no more, nothing
\* early but the partners of loads that are done, nothing past its last use.
Tracks(c, B, x, k) ==
    LET p == compute_pairs(c, B)
        last == LastUse(c, p)
    IN  /\ Host(c, x) /\ Holders(c, x) \subseteq FprTurn(c, k).hold
        /\ \A z \in Holders(c, x) :
              /\ z < k \/ \E l \in Ids(c) : l < k /\ Nd(c, l).op \in FpLoads /\ p.with[l] = z
              /\ last[z] >= k \/ last[z] <= z
Planned(c, B, p) ==
    /\ p.with = compute_pairs(c, B).with /\ p.pairskip = compute_pairs(c, B).skip
    /\ p.last = LastUse(c, compute_pairs(c, B))

\* A register held where the estimate uses it last is used last there.
LEMMA DiesHere ==
    ASSUME NEW c, Whole(c), NEW B, NEW x, NEW i \in Ids(c), Tracks(c, B, x, i),
           NEW z \in Holders(c, x), LastUse(c, AllPairs(c))[z] = i
    PROVE  LastUse(c, compute_pairs(c, B))[z] = i
<1> DEFINE last == LastUse(c, compute_pairs(c, B))[z]
           lu == LastUse(c, AllPairs(c))[z]
<1>1. z \in Ids(c) BY DEF Holders
<1>2. last \in Int BY <1>1, LastIs
<1>3. last <= lu /\ (lu \in Ids(c) /\ last < lu => last > z) BY <1>1, LastOrder DEF AllPairs
<1>4. last >= i \/ last <= z BY DEF Tracks
<1>5. i \in Int /\ z \in Int BY <1>1 DEF Ids
<1>6. lu = i OBVIOUS
<1> HIDE DEF last, lu
<1>7. last = i BY <1>2, <1>3, <1>4, <1>5, <1>6
<1> QED BY <1>7 DEF last

\* What the pairs give for node i.
LEMMA PairAt ==
    ASSUME NEW c, Whole(c), NEW B, NEW i \in Ids(c)
    PROVE  LET p == compute_pairs(c, B)
               P == AllPairs(c)
               w == p.with[i]
           IN  /\ p.with[i] \in Int
               /\ w >= 0 => PairOf(c, p, i, w) /\ P.with[i] = w /\ i \notin P.skip
               /\ i \in p.skip => i \in P.skip
               /\ \A l \in Ids(c) : p.with[l] = i => PairOf(c, p, l, i)
               /\ \A l \in Ids(c) :
                     Nd(c, l).op \in FpLoads /\ Nd(c, i).op \in FpLoads /\ w >= 0 /\ p.with[l] = w
                     => l = i
<1> DEFINE p == compute_pairs(c, B)
           P == AllPairs(c)
           w == p.with[i]
<1>1. Paired(<<c, B>>, p) /\ Paired(<<c, GReg>>, P) /\ Alike(c, B, p, P)
  BY ScansAlike DEF AllPairs
<1> HIDE DEF p, P
<1>2. p.with \in [Ids(c) -> Int] /\ p.skip \subseteq Ids(c) BY <1>1 DEF Paired
<1>3. \A l \in Ids(c) : p.with[l] = NoNode \/ PairOf(c, p, l, p.with[l]) BY <1>1 DEF Paired
<1>4. \A l \in Ids(c) : P.with[l] = NoNode \/ PairOf(c, P, l, P.with[l]) BY <1>1 DEF Paired
<1>5. w \in Int BY <1>2
<1>6. ASSUME w >= 0 PROVE PairOf(c, p, i, w) /\ P.with[i] = w /\ i \notin P.skip
  <2>1. w # NoNode BY <1>6 DEF NoNode
  <2>2. P.with[i] = w BY <1>1, <2>1 DEF Alike
  <2>3. PairOf(c, P, i, w) BY <1>4, <2>1, <2>2
  <2> QED BY <1>3, <2>1, <2>2, <2>3 DEF PairOf
<1>7. i \in p.skip => i \in P.skip BY <1>1 DEF Alike
<1>8. ASSUME NEW l \in Ids(c), p.with[l] = i PROVE PairOf(c, p, l, i)
  <2>1. i # NoNode BY DEF Ids, NoNode
  <2> QED BY <1>3, <1>8, <2>1
<1>9. ASSUME NEW l \in Ids(c), Nd(c, l).op \in FpLoads, Nd(c, i).op \in FpLoads, w >= 0,
             p.with[l] = w
      PROVE  l = i
  <2>1. w # NoNode BY <1>9 DEF NoNode
  <2> QED BY <1>1, <1>9, <2>1 DEF Paired
<1> QED BY <1>5, <1>6, <1>7, <1>8, <1>9 DEF p, P

\* A node has no register before it is lowered, nor has its partner.
LEMMA Unheld ==
    ASSUME NEW c, Whole(c), NEW B, NEW x, NEW i \in Ids(c), Tracks(c, B, x, i),
           i \notin compute_pairs(c, B).skip
    PROVE  /\ i \notin Holders(c, x)
           /\ LET w == compute_pairs(c, B).with[i]
              IN  w >= 0 /\ Nd(c, i).op \in FpLoads =>
                     w \notin Holders(c, x) /\ w # i /\ w \in Ids(c)
<1> DEFINE p == compute_pairs(c, B)
           w == p.with[i]
<1>1. \A z \in Holders(c, x) :
         z < i \/ \E l \in Ids(c) : l < i /\ Nd(c, l).op \in FpLoads /\ p.with[l] = z
  BY DEF Tracks
<1>2. /\ w \in Int
      /\ w >= 0 => PairOf(c, p, i, w)
      /\ \A l \in Ids(c) : p.with[l] = i => PairOf(c, p, l, i)
      /\ \A l \in Ids(c) :
            Nd(c, l).op \in FpLoads /\ Nd(c, i).op \in FpLoads /\ w >= 0 /\ p.with[l] = w => l = i
  BY PairAt
<1>3. i \notin p.skip /\ i \in Int BY DEF Ids
<1> HIDE DEF p, w
<1>4. i \notin Holders(c, x)
  <2> SUFFICES ASSUME i \in Holders(c, x) PROVE FALSE OBVIOUS
  <2>1. ~(i < i) BY <1>3
  <2>2. PICK l \in Ids(c) : p.with[l] = i BY <1>1, <2>1
  <2>3. PairOf(c, p, l, i) BY <1>2, <2>2
  <2> QED BY <1>3, <2>3 DEF PairOf
<1>5. ASSUME w >= 0, Nd(c, i).op \in FpLoads
      PROVE  w \notin Holders(c, x) /\ w # i /\ w \in Ids(c)
  <2>1. w \in Ids(c) /\ w > i BY <1>2, <1>5 DEF PairOf
  <2>2. ASSUME w \in Holders(c, x) PROVE FALSE
    <3>1. ~(w < i) BY <1>2, <1>3, <2>1
    <3>2. PICK l \in Ids(c) : l < i /\ Nd(c, l).op \in FpLoads /\ p.with[l] = w
      BY <1>1, <2>2, <3>1
    <3>3. l = i BY <1>2, <1>5, <3>2
    <3> QED BY <1>3, <3>2, <3>3
  <2> QED BY <1>2, <1>3, <2>1, <2>2
<1> QED BY <1>4, <1>5 DEF p, w

\* A node in S and not in T leaves T smaller than S.
LEMMA CardBelow ==
    ASSUME NEW c, Whole(c), NEW S, S \subseteq Ids(c), NEW T, T \subseteq S, NEW z, z \in S,
           z \notin T, NEW b \in Nat, Cardinality(S) <= b
    PROVE  Cardinality(T) < b
<1>1. T \cup {z} \subseteq S /\ T \cup {z} \subseteq Ids(c) /\ T \subseteq Ids(c) OBVIOUS
<1>2. IsFiniteSet(T) /\ Cardinality(T) \in Nat /\ Cardinality(S) \in Nat BY <1>1, IdsFinite
<1>3. Cardinality(T \cup {z}) = Cardinality(T) + 1 BY <1>2, FS_AddElement
<1>4. Cardinality(T \cup {z}) <= Cardinality(S) BY <1>1, CardUp
<1> QED BY <1>2, <1>3, <1>4

\* Kinds of operations that do not overlap.
LEMMA ProducerFacts ==
    /\ Producers \cap (FpStores \cup {"FStsw"}) = {} /\ FpLoads \subseteq Producers
    /\ Reusers \subseteq Producers /\ Reusers \cap FpLoads = {} /\ FpLoads \cap FpStores = {}
BY DEF Producers, Pure, FpLoads, IntLoads, FpStores, Reusers

\* The estimate at node i.
LEMMA EstimateAt ==
    ASSUME NEW c, Whole(c), NEW i \in Ids(c), peak_live_fprs(c) <= FprPool
    PROVE  LET s == FprTurn(c, i)
               t == FprTurn(c, i + 1)
           IN  /\ Estimated(s, i, t) /\ s.c = c /\ s.p = AllPairs(c)
               /\ s.lu = LastUse(c, AllPairs(c)) /\ s.hold \subseteq Ids(c)
               /\ \A l \in Ids(c) : l < i /\ Nd(c, l).op \in FpLoads /\ AllPairs(c).with[l] = i
                     => i \in s.hold
               /\ Cardinality(s.hold) <= FprPool /\ t.peak <= FprPool /\ t.peak \in Nat
<1> DEFINE s == FprTurn(c, i)
           t == FprTurn(c, i + 1)
<1>1. Len(c.nodes) \in Nat BY LenNat DEF Whole
<1>2. i \in 0..Len(c.nodes) /\ i + 1 \in 0..Len(c.nodes) BY <1>1 DEF Ids
<1>3. Ready(c, i) /\ Ready(c, i + 1) BY <1>2, AllReady
<1>4. Estimated(s, i, t) BY <1>3, ReadyStep
<1>5. s.peak <= peak_live_fprs(c) /\ t.peak <= peak_live_fprs(c) BY <1>2, PeakIsPeak
<1>6. peak_live_fprs(c) \in Nat
  <2>1. Len(c.nodes) \in 0..Len(c.nodes) BY <1>1
  <2>2. Ready(c, Len(c.nodes)) BY <2>1, AllReady
  <2> QED BY <2>2, FprTurns DEF Ready, Held
<1>7. /\ Held(c, s) /\ Held(c, t) /\ s.p = AllPairs(c) /\ s.lu = LastUse(c, AllPairs(c))
      /\ \A l \in Ids(c) : l < i /\ Nd(c, l).op \in FpLoads /\ AllPairs(c).with[l] = i
            => i \in s.hold
  <2>1. i <= i BY DEF Ids
  <2>2. \A l, z \in Ids(c) :
         (l < i /\ i <= z /\ Nd(c, l).op \in FpLoads /\ AllPairs(c).with[l] = z) => z \in s.hold
    BY <1>3 DEF Ready
  <2>3. /\ Held(c, s) /\ Held(c, t) /\ s.p = AllPairs(c) /\ s.lu = LastUse(c, AllPairs(c))
    BY <1>3 DEF Ready
  <2> QED BY <2>1, <2>2, <2>3
<1> HIDE DEF s, t
<1>8. /\ s.c = c /\ s.hold \subseteq Ids(c) /\ s.peak \in Nat /\ Cardinality(s.hold) <= s.peak
      /\ t.peak \in Nat
  BY <1>7 DEF Held
<1>9. Cardinality(s.hold) \in Nat BY <1>8, IdsFinite
<1>10. Cardinality(s.hold) <= FprPool /\ t.peak <= FprPool
  BY <1>5, <1>6, <1>8, <1>9, FprPoolAssumption
<1> QED BY <1>4, <1>7, <1>8, <1>10 DEF s, t

\* A skipped producer is a load whose lead came before.
LEMMA SkippedLoad ==
    ASSUME NEW c, Whole(c), NEW i \in Ids(c), i \in AllPairs(c).skip, Nd(c, i).op \in Producers
    PROVE  \E l \in Ids(c) : l < i /\ Nd(c, l).op \in FpLoads /\ AllPairs(c).with[l] = i
<1> DEFINE P == AllPairs(c)
<1>1. Paired(<<c, GReg>>, P) BY ScansAlike DEF AllPairs
<1> HIDE DEF P
<1>2. PICK l \in Ids(c) : P.with[l] = i BY <1>1 DEF Paired, P
<1>3. i # NoNode /\ i \in Int /\ l \in Int BY DEF Ids, NoNode
<1>4. PairOf(c, P, l, i) BY <1>1, <1>2, <1>3 DEF Paired
<1>5. Nd(c, l).op = Nd(c, i).op /\ Nd(c, l).op \in FpAccesses BY <1>4 DEF PairOf
<1>6. Nd(c, l).op \in FpLoads BY <1>5, ProducerFacts DEF FpAccesses
<1>7. l < i BY <1>3, <1>4, <1>6 DEF PairOf
<1> QED BY <1>2, <1>6, <1>7 DEF P

\* A node that takes no input's register finds one free.
LEMMA RoomForOne ==
    ASSUME NEW c, Whole(c), NEW B, NEW x, NEW i \in Ids(c), Tracks(c, B, x, i),
           peak_live_fprs(c) <= FprPool, NEW p, Planned(c, B, p),
           i \notin p.pairskip, ~Nd(c, i).dead, Nd(c, i).op \in Producers,
           Nd(c, i).op \in Reusers => Dying(x, c, p, i) = {}
    PROVE  Cardinality(Holders(c, x)) < FprPool
<1> DEFINE s == FprTurn(c, i)
           t == FprTurn(c, i + 1)
           H == Holders(c, x)
           n == Nd(c, i)
<1>1. /\ Estimated(s, i, t) /\ s.c = c /\ s.p = AllPairs(c)
      /\ s.lu = LastUse(c, AllPairs(c)) /\ s.hold \subseteq Ids(c)
      /\ \A l \in Ids(c) : l < i /\ Nd(c, l).op \in FpLoads /\ AllPairs(c).with[l] = i
            => i \in s.hold
      /\ Cardinality(s.hold) <= FprPool /\ t.peak <= FprPool /\ t.peak \in Nat
  BY EstimateAt
<1>2. H \subseteq s.hold BY DEF Tracks
<1>3. i \notin H BY Unheld DEF Planned
<1> HIDE DEF s, t
<1>4. CASE i \in AllPairs(c).skip
  <2>1. i \in s.hold BY <1>1, <1>4, SkippedLoad
  <2> HIDE DEF H
  <2>2. Cardinality(H) < FprPool BY <1>1, <1>2, <1>3, <2>1, FprPoolAssumption, CardBelow
  <2> QED BY <2>2 DEF H
<1>5. CASE i \notin AllPairs(c).skip
  <2>1. \/ /\ n.op \in Reusers
           /\ \E z \in s.hold : s.lu[z] = i /\ \E j \in 1..3 : n.in[j] = z
        \/ Cardinality(s.hold \cup {i}) <= t.peak
    BY <1>1, <1>5 DEF Estimated
  <2>2. CASE Cardinality(s.hold \cup {i}) <= t.peak
    <3> DEFINE G == s.hold \cup {i}
    <3>1. G \subseteq Ids(c) /\ H \subseteq G /\ i \in G BY <1>1, <1>2
    <3>2. Cardinality(G) \in Nat BY <3>1, IdsFinite
    <3>3. Cardinality(G) <= FprPool BY <1>1, <2>2, <3>2, FprPoolAssumption
    <3> HIDE DEF G, H
    <3>4. Cardinality(H) < FprPool BY <1>3, <3>1, <3>3, FprPoolAssumption, CardBelow
    <3> QED BY <3>4 DEF H
  <2>3. CASE /\ n.op \in Reusers
             /\ \E z \in s.hold : s.lu[z] = i /\ \E j \in 1..3 : n.in[j] = z
    <3>1. PICK z \in s.hold : s.lu[z] = i /\ \E j \in 1..3 : n.in[j] = z BY <2>3
    <3>2. ASSUME z \in H PROVE FALSE
      <4>1. z \in Holders(c, x) BY <3>2
      <4>2. p.last[z] = i BY <1>1, <3>1, <4>1, DiesHere DEF Planned
      <4>3. PICK j \in 1..3 : n.in[j] = z BY <3>1
      <4>4. j \in Dying(x, c, p, i) BY <4>1, <4>2, <4>3 DEF Dying, Holders
      <4> QED BY <2>3, <4>4
    <3> HIDE DEF H
    <3>3. Cardinality(H) < FprPool
      BY <1>1, <1>2, <3>1, <3>2, FprPoolAssumption, CardBelow
    <3> QED BY <3>3 DEF H
  <2> QED BY <2>1, <2>2, <2>3
<1> QED BY <1>4, <1>5

\* And a load that reads its partner finds two.
LEMMA RoomForTwo ==
    ASSUME NEW c, Whole(c), NEW B, NEW x, NEW i \in Ids(c), Tracks(c, B, x, i),
           peak_live_fprs(c) <= FprPool, NEW p, Planned(c, B, p),
           i \notin p.pairskip, ~Nd(c, i).dead, Nd(c, i).op \in FpLoads, p.with[i] >= 0
    PROVE  Cardinality(Holders(c, x) \cup {i}) < FprPool
<1> DEFINE s == FprTurn(c, i)
           t == FprTurn(c, i + 1)
           H == Holders(c, x)
           w == p.with[i]
           G == s.hold \cup {i, w}
<1>1. /\ Estimated(s, i, t) /\ s.c = c /\ s.p = AllPairs(c) /\ s.hold \subseteq Ids(c)
      /\ t.peak <= FprPool /\ t.peak \in Nat
  BY EstimateAt
<1>2. H \subseteq s.hold BY DEF Tracks
<1>3. w \notin H /\ w # i /\ w \in Ids(c) BY Unheld DEF Planned
<1>4. AllPairs(c).with[i] = w /\ i \notin AllPairs(c).skip BY PairAt DEF Planned
<1> HIDE DEF s, t, w
<1>5. Cardinality(G) <= t.peak BY <1>1, <1>4 DEF Estimated, w
<1>6. G \subseteq Ids(c) /\ H \cup {i} \subseteq G /\ w \in G /\ w \notin H \cup {i}
  BY <1>1, <1>2, <1>3
<1>7. Cardinality(G) \in Nat BY <1>6, IdsFinite
<1>8. Cardinality(G) <= FprPool BY <1>1, <1>5, <1>7, FprPoolAssumption
<1> DEFINE K == H \cup {i}
<1> HIDE DEF G, K
<1>9. Cardinality(K) < FprPool BY <1>6, <1>8, FprPoolAssumption, CardBelow DEF K
<1> QED BY <1>9 DEF K

\* What node i adds to the registers in use.
Fills(c, p, i) ==
    IF i \in p.pairskip \/ Nd(c, i).op \notin Producers THEN {}
    ELSE {i} \cup (IF Nd(c, i).op \in FpLoads /\ p.with[i] >= 0 THEN {p.with[i]} ELSE {})

\* The output of a node finds its register.
LEMMA OutHost ==
    ASSUME NEW c, Whole(c), NEW B, NEW x, NEW i \in Ids(c), Tracks(c, B, x, i),
           peak_live_fprs(c) <= FprPool, NEW p, Planned(c, B, p),
           i \notin p.pairskip, ~Nd(c, i).dead, Nd(c, i).op \in Producers
    PROVE  LET y == OutRegs(x, c, p, i)
           IN  Host(c, y) /\ Holders(c, y) \subseteq Holders(c, x) \cup Fills(c, p, i)
<1> DEFINE out == OutputFpr(x, c, p, i)
           D == Dying(x, c, p, i)
           id == Nd(c, i).in[Min(D)]
           w == p.with[i]
           op == Nd(c, i).op
<1>1. Host(c, x) BY DEF Tracks
<1>2. i \notin Holders(c, x) BY Unheld DEF Planned
<1>3. CASE op \in Reusers /\ D # {}
  <2>1. out = [x EXCEPT !.nf[i] = x.nf[id], !.nf[id] = NoReg] BY <1>3 DEF OutputFpr
  <2>2. D \subseteq Nat BY DEF Dying
  <2>3. Min(D) \in D BY <1>3, <2>2, MinIn
  <2>4. id \in Holders(c, x) BY <2>3 DEF Dying, Holders
  <2> HIDE DEF D, id, out
  <2>5. /\ DOMAIN out = HostFields /\ out.starved = x.starved /\ out.free = x.free
        /\ out.nf = [x.nf EXCEPT ![i] = x.nf[id], ![id] = NoReg]
    BY <1>1, <2>1 DEF Host, HostFields
  <2>8. Host(c, out) /\ Holders(c, out) = (Holders(c, x) \ {id}) \cup {i}
    BY <1>1, <1>2, <2>4, <2>5, ReuseHost
  <2>6. op \notin FpLoads BY <1>3, ProducerFacts
  <2>7. OutRegs(x, c, p, i) = out BY <2>6 DEF OutRegs, out
  <2> QED BY <2>7, <2>8 DEF Fills
<1>4. CASE ~(op \in Reusers /\ D # {})
  <2>1. out = alloc_free_fpr(x, i) BY <1>4 DEF OutputFpr
  <2>2. Cardinality(Holders(c, x)) < FprPool BY <1>4, RoomForOne
  <2>3. x.free # {} BY <1>1, <2>2, Room
  <2>4. Host(c, out) /\ Holders(c, out) = Holders(c, x) \cup {i}
    BY <1>1, <1>2, <2>1, <2>3, AllocHost
  <2>5. CASE ~(op \in FpLoads /\ w >= 0)
    <3>1. OutRegs(x, c, p, i) = out BY <2>5 DEF OutRegs
    <3> QED BY <2>4, <3>1 DEF Fills
  <2>6. CASE op \in FpLoads /\ w >= 0
    <3>1. OutRegs(x, c, p, i) = alloc_free_fpr(out, w) BY <2>6 DEF OutRegs
    <3>2. w \notin Holders(c, x) /\ w # i /\ w \in Ids(c) BY <2>6, Unheld DEF Planned
    <3>3. Cardinality(Holders(c, x) \cup {i}) < FprPool BY <2>6, RoomForTwo
    <3> HIDE DEF out, w
    <3>4. out.free # {} BY <2>4, <3>3, Room
    <3>5. w \notin Holders(c, out) BY <2>4, <3>2
    <3>6. Host(c, alloc_free_fpr(out, w))
          /\ Holders(c, alloc_free_fpr(out, w)) = Holders(c, out) \cup {w}
      BY <2>4, <3>2, <3>4, <3>5, AllocHost
    <3>7. Fills(c, p, i) = {i, w} BY <2>6 DEF Fills, w
    <3> QED BY <2>4, <3>1, <3>6, <3>7
  <2> QED BY <2>5, <2>6
<1> QED BY <1>3, <1>4

\* Lowering a node: what was held, or what the node fills, and nothing that
\* the node uses last.
LEMMA LowerMoves ==
    ASSUME NEW c, Whole(c), NEW B, NEW x, NEW i \in Ids(c), Tracks(c, B, x, i),
           peak_live_fprs(c) <= FprPool, NEW p, Planned(c, B, p), ~Nd(c, i).dead, NEW e0
    PROVE  LET y == LowerOne(x, e0, c, p, i)
           IN  /\ Host(c, y) /\ Holders(c, y) \subseteq Holders(c, x) \cup Fills(c, p, i)
               /\ \A z \in Holders(c, y) : p.last[z] # i
<1> DEFINE y == LowerOne(x, e0, c, p, i)
           pp == compute_pairs(c, B)
           m == EmitNode(x, e0, c, p, i)
           m2 == [m EXCEPT !.gprs = Demand(x, e0, c, p, i)]
           sk == Sunk(c, p, i)
           sinks == Nd(c, i).op \in FpStores /\ p.with[i] >= 0
<1>1. Host(c, x) BY DEF Tracks
<1>2. p.with = pp.with /\ p.pairskip = pp.skip /\ p.last = LastUse(c, pp) BY DEF Planned
<1>3. Paired(<<c, B>>, pp) BY ScansAlike
<1>4. ASSUME NEW z \in Ids(c), p.last[z] = i, z \notin Spent(c, p, i)
      PROVE  i \notin p.pairskip /\ sinks /\ sk = z
  <2>1. i \in ReadBy(c, z) \/ i \in Sinks(c, pp, z) BY <1>2, <1>4, LastWhy
  <2>2. i \notin ReadBy(c, z) BY <1>4 DEF ReadBy, Spent
  <2>3. i \in Sinks(c, pp, z) BY <2>1, <2>2
  <2>4. i \notin pp.skip BY <1>3, <2>3, SinkFacts
  <2> QED BY <1>2, <2>3, <2>4 DEF Sinks, Sunk
<1> HIDE DEF pp
<1>5. CASE i \in p.pairskip
  <2>1. y = free_dead_inputs(x, c, p, i) BY <1>5 DEF LowerOne
  <2>2. Host(c, y) /\ Holders(c, y) \subseteq Holders(c, x) \ Spent(c, p, i)
    BY <1>1, <2>1, FreeDeadHost
  <2> HIDE DEF y
  <2>3. ASSUME NEW z \in Holders(c, y) PROVE p.last[z] # i
    <3>1. z \in Ids(c) BY DEF Holders
    <3> QED BY <1>4, <1>5, <2>2, <3>1
  <2> QED BY <2>2, <2>3 DEF y
<1>6. CASE i \notin p.pairskip
  <2>1. y = free_dead_inputs(m2, c, p, i) BY <1>6 DEF LowerOne
  <2>2. DOMAIN x = HostFields BY <1>1 DEF Host
  <2>3. /\ Host(c, m) /\ Holders(c, m) \subseteq Holders(c, x) \cup Fills(c, p, i)
        /\ sinks /\ sk # Nd(c, i).in[1] /\ p.last[sk] = i /\ sk \in Ids(c) =>
              sk \notin Holders(c, m)
    <3>1. CASE Nd(c, i).op \in Producers
      <4>1. SameRegs(OutRegs(x, c, p, i), m) BY <2>2, <3>1, EmitProducer
      <4>2. Host(c, OutRegs(x, c, p, i))
            /\ Holders(c, OutRegs(x, c, p, i)) \subseteq Holders(c, x) \cup Fills(c, p, i)
        BY <1>6, <3>1, OutHost
      <4>3. ~sinks BY <3>1, ProducerFacts
      <4> QED BY <4>1, <4>2, <4>3, SameHost
    <3>2. CASE Nd(c, i).op \notin Producers
      <4>1. IF sinks /\ sk # Nd(c, i).in[1] /\ p.last[sk] = i /\ x.nf[sk] >= 0
            THEN SameRegs(free_fpr(x, sk), m)
            ELSE SameRegs(x, m)
        BY <2>2, <3>2, EmitOther
      <4> HIDE DEF m
      <4>2. sinks => sk \in Ids(c)
        <5> SUFFICES ASSUME sinks PROVE sk \in Ids(c) OBVIOUS
        <5> DEFINE w == p.with[i]
        <5>1. PairOf(c, pp, i, w) BY <1>2, PairAt DEF pp
        <5>2. w \in Ids(c) /\ Nd(c, w).op \in FpStores BY <5>1 DEF PairOf
        <5>3. NodeFits(Nd(c, w), w) /\ w \in Nat BY <5>2, NodeAt
        <5>4. Nd(c, w).op \in AtLeast1 /\ Nd(c, w).op # "FStsw" BY <5>2 DEF FpStores, AtLeast1
        <5>5. sk = Nd(c, w).in[1] BY DEF Sunk
        <5> HIDE DEF w, sk
        <5>6. sk \in Int /\ sk >= 0 /\ sk < w BY <5>3, <5>4, <5>5 DEF NodeFits
        <5>7. Len(c.nodes) \in Nat BY LenNat DEF Whole
        <5> QED BY <5>2, <5>6, <5>7 DEF Ids
      <4>3. CASE sinks /\ sk # Nd(c, i).in[1] /\ p.last[sk] = i /\ x.nf[sk] >= 0
        <5>1. SameRegs(free_fpr(x, sk), m) BY <4>1, <4>3
        <5>2. sk \in Holders(c, x) BY <4>2, <4>3 DEF Holders
        <5> HIDE DEF sk
        <5>3. Host(c, free_fpr(x, sk)) /\ Holders(c, free_fpr(x, sk)) = Holders(c, x) \ {sk}
          BY <1>1, <5>2, FreeHost
        <5>4. Host(c, m) /\ Holders(c, m) = Holders(c, x) \ {sk} BY <5>1, <5>3, SameHost
        <5> QED BY <5>4
      <4>4. CASE ~(sinks /\ sk # Nd(c, i).in[1] /\ p.last[sk] = i /\ x.nf[sk] >= 0)
        <5>1. SameRegs(x, m) BY <4>1, <4>4
        <5>2. Host(c, m) /\ Holders(c, m) = Holders(c, x) BY <1>1, <5>1, SameHost
        <5>3. sinks /\ sk # Nd(c, i).in[1] /\ p.last[sk] = i => sk \notin Holders(c, x)
          BY <4>4 DEF Holders
        <5> QED BY <5>2, <5>3
      <4> QED BY <4>3, <4>4
    <3> QED BY <3>1, <3>2
  <2> HIDE DEF m
  <2>4. SameRegs(m, m2) BY <2>3, SameRegsSelf DEF Host
  <2>5. Host(c, m2) /\ Holders(c, m2) = Holders(c, m) BY <2>3, <2>4, SameHost
  <2> HIDE DEF m2, y
  <2>6. Host(c, y) /\ Holders(c, y) \subseteq Holders(c, m) \ Spent(c, p, i)
    BY <2>1, <2>5, FreeDeadHost
  <2>7. ASSUME NEW z \in Holders(c, y) PROVE p.last[z] # i
    <3> SUFFICES ASSUME p.last[z] = i PROVE FALSE OBVIOUS
    <3>1. z \in Ids(c) /\ z \notin Spent(c, p, i) /\ z \in Holders(c, m) BY <2>6 DEF Holders
    <3>2. sinks /\ sk = z BY <1>4, <3>1
    <3>3. Nd(c, i).in[1] # z BY <3>1 DEF Spent
    <3> QED BY <2>3, <3>1, <3>2, <3>3
  <2> QED BY <2>3, <2>6, <2>7 DEF y
<1> QED BY <1>5, <1>6

\* Lowering a node keeps to the estimate.
LEMMA LowerTracks ==
    ASSUME NEW c, Whole(c), NEW B, NEW x, NEW i \in Ids(c), Tracks(c, B, x, i),
           peak_live_fprs(c) <= FprPool, NEW p, Planned(c, B, p), NEW e0
    PROVE  Tracks(c, B, LowerOne(x, e0, c, p, i), i + 1)
<1> DEFINE y == LowerOne(x, e0, c, p, i)
           s == FprTurn(c, i)
           t == FprTurn(c, i + 1)
           pp == compute_pairs(c, B)
           P == AllPairs(c)
           w == p.with[i]
           op == Nd(c, i).op
<1>1. /\ Estimated(s, i, t) /\ s.c = c /\ s.p = P /\ s.lu = LastUse(c, P) /\ s.hold \subseteq Ids(c)
      /\ \A l \in Ids(c) : (l < i /\ Nd(c, l).op \in FpLoads /\ P.with[l] = i) => i \in s.hold
  BY EstimateAt
<1>2. /\ Host(c, x) /\ Holders(c, x) \subseteq s.hold
      /\ \A z \in Holders(c, x) :
            /\ z < i \/ \E l \in Ids(c) : l < i /\ Nd(c, l).op \in FpLoads /\ pp.with[l] = z
            /\ LastUse(c, pp)[z] >= i \/ LastUse(c, pp)[z] <= z
  BY DEF Tracks
<1>3. p.with = pp.with /\ p.pairskip = pp.skip /\ p.last = LastUse(c, pp) BY DEF Planned
<1>4. Paired(<<c, GReg>>, P) BY ScansAlike DEF AllPairs
<1>5. i \in Int /\ i >= 0 /\ i + 1 > i /\ \A z \in Ids(c) : z \in Int BY DEF Ids
<1>6. \A z \in Ids(c) : LastUse(c, pp)[z] \in Int BY LastIs
<1>7. \A z \in Holders(c, x) : LastUse(c, P)[z] = i => p.last[z] = i
  BY <1>3, DiesHere
<1>8. SUFFICES /\ Host(c, y) /\ Holders(c, y) \subseteq t.hold
               /\ \A z \in Holders(c, y) :
                     /\ \/ z < i + 1
                        \/ \E l \in Ids(c) : l < i + 1 /\ Nd(c, l).op \in FpLoads /\ pp.with[l] = z
                     /\ LastUse(c, pp)[z] >= i + 1 \/ LastUse(c, pp)[z] <= z
  BY DEF Tracks
<1>11. ASSUME NEW z \in Holders(c, x)
       PROVE  \/ z < i + 1
              \/ \E l \in Ids(c) : l < i + 1 /\ Nd(c, l).op \in FpLoads /\ pp.with[l] = z
  <2> HIDE DEF pp
  <2>1. z \in Ids(c) /\ z \in Int BY <1>5 DEF Holders
  <2>2. CASE z < i
    <3>1. z < i + 1 BY <1>5, <2>1, <2>2
    <3> QED BY <3>1
  <2>3. CASE \E l \in Ids(c) : l < i /\ Nd(c, l).op \in FpLoads /\ pp.with[l] = z
    <3>1. PICK l \in Ids(c) : l < i /\ Nd(c, l).op \in FpLoads /\ pp.with[l] = z BY <2>3
    <3>2. l < i + 1 BY <1>5, <3>1
    <3> QED BY <3>1, <3>2
  <2> QED BY <1>2, <2>2, <2>3
<1>9. CASE Nd(c, i).dead
  <2>1. y = x BY <1>9 DEF LowerOne
  <2>2. t = s BY <1>1, <1>9 DEF Estimated
  <2>3. ASSUME NEW z \in Holders(c, x)
        PROVE  /\ \/ z < i + 1
                  \/ \E l \in Ids(c) : l < i + 1 /\ Nd(c, l).op \in FpLoads /\ pp.with[l] = z
               /\ LastUse(c, pp)[z] >= i + 1 \/ LastUse(c, pp)[z] <= z
    <3>1. z \in Ids(c) BY DEF Holders
    <3>2. LastUse(c, pp)[z] # i
      <4>1. i \notin LiveNodes(c) BY <1>9 DEF LiveNodes, Live
      <4> QED BY <3>1, <4>1, LastWhy DEF ReadBy, Sinks
    <3>3. LastUse(c, pp)[z] >= i \/ LastUse(c, pp)[z] <= z BY <1>2
    <3>4. LastUse(c, pp)[z] >= i + 1 \/ LastUse(c, pp)[z] <= z BY <1>5, <1>6, <3>1, <3>2, <3>3
    <3> HIDE DEF pp
    <3> QED BY <1>11, <3>4
  <2> HIDE DEF y, s, t, pp
  <2> QED BY <1>2, <2>1, <2>2, <2>3
<1>10. CASE ~Nd(c, i).dead
  <2>1. /\ Host(c, y) /\ Holders(c, y) \subseteq Holders(c, x) \cup Fills(c, p, i)
        /\ \A z \in Holders(c, y) : p.last[z] # i
    BY <1>10, LowerMoves
  <2>2. /\ pp.with[i] \in Int
        /\ pp.with[i] >= 0 => /\ PairOf(c, pp, i, pp.with[i]) /\ P.with[i] = pp.with[i]
                              /\ i \notin P.skip
    BY PairAt
  <2>3. i \in P.skip /\ op \in Producers => i \in s.hold BY <1>1, SkippedLoad
  <2>4. ASSUME op \in Producers, NEW z \in Ids(c), i <= z PROVE LastUse(c, P)[z] # i
    <3>1. op \notin FpStores \cup {"FStsw"} BY <2>4, ProducerFacts
    <3> QED BY <1>4, <2>4, <3>1, NotSelf
  <2> HIDE DEF y, s, t, pp, P
  <2>5. ASSUME NEW z \in Holders(c, x), z \in Holders(c, y)
        PROVE  /\ z \in t.hold
               /\ \/ z < i + 1
                  \/ \E l \in Ids(c) : l < i + 1 /\ Nd(c, l).op \in FpLoads /\ pp.with[l] = z
               /\ LastUse(c, pp)[z] >= i + 1 \/ LastUse(c, pp)[z] <= z
    <3>1. z \in Ids(c) BY DEF Holders
    <3>2. p.last[z] # i BY <2>1, <2>5
    <3>3. LastUse(c, P)[z] # i BY <1>7, <3>2
    <3>4. z \in t.hold BY <1>1, <1>2, <1>10, <3>3 DEF Estimated
    <3>5. LastUse(c, pp)[z] >= i \/ LastUse(c, pp)[z] <= z BY <1>2
    <3>6. LastUse(c, pp)[z] >= i + 1 \/ LastUse(c, pp)[z] <= z
      <4>1. LastUse(c, pp)[z] \in Int /\ LastUse(c, pp)[z] # i /\ z \in Int
        BY <1>3, <1>5, <1>6, <3>1, <3>2
      <4> DEFINE u == LastUse(c, pp)[z]
      <4> HIDE DEF u
      <4>2. u >= i + 1 \/ u <= z BY <1>5, <3>5, <4>1 DEF u
      <4> QED BY <4>2 DEF u
    <3> QED BY <1>11, <3>4, <3>6
  <2>6. ASSUME NEW z \in Fills(c, p, i), z \in Holders(c, y)
        PROVE  /\ z \in t.hold
               /\ \/ z < i + 1
                  \/ \E l \in Ids(c) : l < i + 1 /\ Nd(c, l).op \in FpLoads /\ pp.with[l] = z
               /\ LastUse(c, pp)[z] >= i + 1 \/ LastUse(c, pp)[z] <= z
    <3>1. z \in Ids(c) BY <2>6 DEF Holders
    <3>2. i \notin p.pairskip /\ op \in Producers BY <2>6 DEF Fills
    <3>3. CASE z = i
      <4>1. i <= i BY <1>5
      <4>2. s.lu[i] # i BY <1>1, <2>4, <3>2, <4>1
      <4>3. i \in t.hold
        <5>1. CASE i \in P.skip
          <6>1. i \in s.hold BY <2>3, <3>2, <5>1
          <6> QED BY <1>1, <1>10, <4>2, <6>1 DEF Estimated
        <5>2. CASE i \notin P.skip BY <1>1, <1>10, <3>2, <4>2, <5>2 DEF Estimated
        <5> QED BY <5>1, <5>2
      <4>4. LastUse(c, pp)[i] >= i + 1 \/ LastUse(c, pp)[i] <= i BY <1>5, <1>6
      <4> QED BY <1>5, <3>3, <4>3, <4>4
    <3>4. CASE z = w /\ op \in FpLoads /\ w >= 0
      <4>1. /\ PairOf(c, pp, i, w) /\ P.with[i] = w /\ i \notin P.skip /\ pp.with[i] = w
        BY <1>3, <2>2, <3>4
      <4>2. w > i /\ w \in Ids(c) BY <3>4, <4>1 DEF PairOf
      <4>3. i <= w /\ w \in Int BY <1>5, <4>2
      <4>4. s.lu[w] # i BY <1>1, <2>4, <3>2, <4>2, <4>3
      <4>5. w \in t.hold BY <1>1, <1>10, <3>4, <4>1, <4>4 DEF Estimated
      <4>6. LastUse(c, pp)[w] >= i + 1 \/ LastUse(c, pp)[w] <= w BY <1>5, <1>6, <4>2, <4>3
      <4> QED BY <1>5, <3>4, <4>1, <4>5, <4>6
    <3> QED BY <2>6, <3>2, <3>3, <3>4 DEF Fills
  <2> QED BY <2>1, <2>5, <2>6
<1> QED BY <1>9, <1>10

\* Lowering starts with nothing held.
LEMMA StartTracks ==
    ASSUME NEW c, Whole(c), NEW B, NEW x, NEW p
    PROVE  Tracks(c, B, StartLower(x, c, p), 0)
<1> DEFINE y == StartLower(x, c, p)
<1>1. /\ DOMAIN y = HostFields /\ y.nf = [i \in Ids(c) |-> NoReg] /\ y.free = Pool
      /\ y.starved = FALSE
  BY DEF StartLower, HostFields, Pool
<1> HIDE DEF y
<1>2. y.nf \in [Ids(c) -> {NoReg} \cup Pool] BY <1>1
<1>3. Holders(c, y) = {} BY <1>1 DEF Holders, NoReg
<1>4. Host(c, y) BY <1>1, <1>2 DEF Host, Covered
<1>5. Tracks(c, B, y, 0) BY <1>3, <1>4 DEF Tracks
<1> QED BY <1>5 DEF y

(***************************************************************************)
(* The invariant of a run.                                                 *)
(***************************************************************************)
Early == phase \in {"build", "optimize", "declined"} => h.starved = FALSE
Lowering ==
    phase = "lower" =>
        /\ pc \in 0..Len(ctx.nodes) /\ peak_live_fprs(ctx) <= FprPool
        /\ \E B : Planned(ctx, B, plan) /\ Tracks(ctx, B, h, pc)
Lowered == phase = "done" => Host(ctx, h)
Counters ==
    /\ suite \in DOMAIN Suites /\ ctx.consumed \in 0..Suites[suite].len
    /\ phase \in {"build", "optimize", "lower", "done", "declined"}
    /\ phase \in {"build", "optimize"} => pc \in Nat \ {0}
    /\ phase = "build" => pc = 1
\* Until the first pass the context is as it was built, and until its nodes
\* are lowered every use of a value is one the value can serve.
Shaped ==
    /\ phase = "build" \/ (phase = "optimize" /\ pc = 1) => Built(ctx)
    /\ phase \in {"build", "optimize", "lower"} => Sound(ctx)
IInv == Counters /\ Whole(ctx) /\ Shaped /\ Early /\ Lowering /\ Lowered

\* The invariant holds when a run starts.
LEMMA InitIInv == Init => IInv
<1> SUFFICES ASSUME Init PROVE IInv OBVIOUS
<1>1. /\ suite \in DOMAIN Suites /\ e \in Suites[suite].entries /\ phase = "build" /\ pc = 1
      /\ h = [starved |-> FALSE, gprs |-> 0] /\ ctx = fold_perm(InitContext, e.perm)
  BY DEF Init
<1>2. e.perm \in [Depth -> Depth] /\ Suites[suite].len \in Nat BY <1>1, SuitesAssumption
<1>3. Built(ctx) /\ ctx.consumed = 0 BY <1>1, <1>2, InitWhole
<1>4. h.starved = FALSE BY <1>1
<1>5. Whole(ctx) /\ Sound(ctx) BY <1>3, BuiltSound DEF Built
<1> QED BY <1>1, <1>2, <1>3, <1>4, <1>5 DEF IInv, Counters, Shaped, Early, Lowering, Lowered

\* An instruction joins or ends the run.
LEMMA BuildIInv ==
    ASSUME IInv, NEW in \in Suites[suite].instrs, Build(in) PROVE IInv'
<1> DEFINE new == build_instr(ctx, e.g, in)
<1>1. /\ suite \in DOMAIN Suites /\ ctx.consumed \in 0..Suites[suite].len /\ Built(ctx)
      /\ phase = "build" /\ pc = 1 /\ h.starved = FALSE
  BY DEF IInv, Counters, Shaped, Early, Build
<1>2. Suites[suite].len \in Nat /\ Operands(in) BY <1>1, SuitesAssumption
<1>3. Built(new) /\ new.consumed = ctx.consumed BY <1>1, <1>2, InstrWhole
<1>4. suite' = suite /\ pc' = pc /\ h' = h BY DEF Build
<1>5. CASE new.ok
  <2> DEFINE b == [new EXCEPT !.consumed = @ + 1]
  <2>1. ctx' = b /\ phase' = "build" /\ ctx.consumed < Suites[suite].len BY <1>1, <1>5 DEF Build
  <2> HIDE DEF new
  <2>2. DOMAIN new = CtxFields /\ new.ok \in BOOLEAN BY <1>3 DEF Built, Whole
  <2>3. Same(new, b, {"ok", "consumed"}) /\ b.consumed = new.consumed + 1 /\ b.ok = new.ok
    BY <2>2 DEF Same, CtxFields
  <2>4. b.consumed \in 0..Suites[suite].len BY <1>1, <1>2, <1>3, <2>1, <2>3
  <2> HIDE DEF b
  <2>5. Built(b) BY <1>3, <2>2, <2>3, SameBuilt
  <2>6. Whole(b) /\ Sound(b) BY <2>5, BuiltSound DEF Built
  <2> QED BY <1>1, <1>4, <2>1, <2>4, <2>5, <2>6 DEF IInv, Counters, Shaped, Early, Lowering, Lowered
<1>6. CASE ~new.ok
  <2> DEFINE b == [new EXCEPT !.ok = TRUE]
  <2>1. ctx' = b /\ phase' \in {"optimize", "declined"} BY <1>1, <1>6 DEF Build
  <2> HIDE DEF new
  <2>2. Built(b) /\ b.consumed = new.consumed BY <1>3, OkWhole
  <2> HIDE DEF b
  <2>3. Whole(b) /\ Sound(b) BY <2>2, BuiltSound DEF Built
  <2> QED BY <1>1, <1>3, <1>4, <2>1, <2>2, <2>3
          DEF IInv, Counters, Shaped, Early, Lowering, Lowered
<1> QED BY <1>5, <1>6

\* A pass.
LEMMA OptimizeIInv == ASSUME IInv, Optimize PROVE IInv'
<1> DEFINE b == optimize(ctx, Passes[pc])
<1>1. /\ suite \in DOMAIN Suites /\ ctx.consumed \in 0..Suites[suite].len /\ Whole(ctx)
      /\ phase = "optimize" /\ pc \in Nat \ {0} /\ h.starved = FALSE
  BY DEF IInv, Counters, Early, Optimize
<1>2. /\ ctx' = b /\ pc' = pc + 1 /\ suite' = suite /\ phase' = phase /\ h' = h
      /\ pc <= Len(Passes)
  BY DEF Optimize
<1>3. Passes[pc] \in PassNames BY <1>1, <1>2, PassesKnown
<1>4. Refit(ctx, b) BY <1>1, <1>3, OptimizeRefit
<1>5. pc \in 1..Len(Passes) /\ pc' # 1 BY <1>1, <1>2, PassesKnown
<1>6. Sound(ctx) /\ (Passes[pc] = "dead_compares" => Built(ctx))
  BY <1>1, <1>5, FirstPass DEF IInv, Shaped
<1>7. Sound(b) BY <1>1, <1>3, <1>6, OptimizeSound
<1> HIDE DEF b
<1>8. Shaped' BY <1>1, <1>2, <1>5, <1>7 DEF Shaped
<1> QED BY <1>1, <1>2, <1>4, <1>8 DEF Refit, IInv, Counters, Early, Lowering, Lowered

\* The gates let a run through that fits, or decline it.
LEMMA GateIInv == ASSUME IInv, NEW s, Gate(s) PROVE IInv'
<1>1. /\ suite \in DOMAIN Suites /\ ctx.consumed \in 0..Suites[suite].len /\ Whole(ctx)
      /\ phase = "optimize" /\ h.starved = FALSE /\ suite' = suite /\ ctx' = ctx /\ Sound(ctx)
  BY DEF IInv, Counters, Shaped, Early, Gate
<1> DEFINE dead == nzcv_dead_after_run(s)
           peak == peak_live_gprs(e, ctx, dead)
           bases == plan_addr_cache(ctx)
           fit == {k \in 0..Len(bases) : peak + k <= GprAvailable(e)}
           used == SubSeq(bases, 1, Max(fit))
           p == compute_pairs(ctx, ToSet(used))
           decided == [bases |-> used, with |-> p.with, pairskip |-> p.skip,
                       last |-> LastUse(ctx, p), rc |-> rc_cached(ctx),
                       skip |-> nzcv_skip(ctx, dead), hoist |-> nzcv_hoist(ctx, dead),
                       lastcmp |-> IF Compares(ctx) = {} THEN NoNode ELSE Max(Compares(ctx))]
<1>5. IF peak_live_fprs(ctx) > FprPool \/ peak > GprAvailable(e)
      THEN phase' = "declined" /\ UNCHANGED <<plan, h, pc>>
      ELSE /\ phase' = "lower" /\ plan' = decided /\ pc' = 0
           /\ h' = StartLower(e, ctx, decided)
  BY DEF Gate
<1>6. decided.with = p.with /\ decided.pairskip = p.skip /\ decided.last = LastUse(ctx, p)
  OBVIOUS
<1> HIDE DEF decided, peak
<1>2. \/ phase' = "declined" /\ h' = h /\ pc' = pc
      \/ /\ phase' = "lower" /\ pc' = 0 /\ ~(peak_live_fprs(ctx) > FprPool)
         /\ \E B : /\ plan'.with = compute_pairs(ctx, B).with
                   /\ plan'.pairskip = compute_pairs(ctx, B).skip
                   /\ plan'.last = LastUse(ctx, compute_pairs(ctx, B))
         /\ h' = StartLower(e, ctx, plan')
  BY <1>5, <1>6
<1>3. CASE phase' = "declined" /\ h' = h /\ pc' = pc
  BY <1>1, <1>3 DEF IInv, Counters, Shaped, Early, Lowering, Lowered
<1>4. CASE /\ phase' = "lower" /\ pc' = 0 /\ ~(peak_live_fprs(ctx) > FprPool)
           /\ \E B : /\ plan'.with = compute_pairs(ctx, B).with
                     /\ plan'.pairskip = compute_pairs(ctx, B).skip
                     /\ plan'.last = LastUse(ctx, compute_pairs(ctx, B))
           /\ h' = StartLower(e, ctx, plan')
  <2>1. Len(ctx.nodes) \in Nat BY <1>1, LenNat DEF Whole
  <2>2. PICK B : Planned(ctx, B, plan') BY <1>4 DEF Planned
  <2>3. Tracks(ctx, B, h', 0) BY <1>1, <1>4, StartTracks
  <2>4. peak_live_fprs(ctx) \in Nat
    <3>1. Len(ctx.nodes) \in 0..Len(ctx.nodes) BY <2>1
    <3>2. Ready(ctx, Len(ctx.nodes)) BY <1>1, <3>1, AllReady
    <3> QED BY <1>1, <3>2, FprTurns DEF Ready, Held
  <2>5. peak_live_fprs(ctx) <= FprPool BY <1>4, <2>4, FprPoolAssumption
  <2>6. pc' \in 0..Len(ctx.nodes) BY <1>4, <2>1
  <2>7. Lowering' BY <1>1, <1>4, <2>2, <2>3, <2>5, <2>6 DEF Lowering
  <2> QED BY <1>1, <1>4, <2>7 DEF IInv, Counters, Shaped, Early, Lowered
<1> QED BY <1>2, <1>3, <1>4

\* A node is lowered.
LEMMA LowerIInv == ASSUME IInv, LowerNode PROVE IInv'
<1>1. /\ suite \in DOMAIN Suites /\ ctx.consumed \in 0..Suites[suite].len /\ Whole(ctx)
      /\ phase = "lower" /\ pc \in 0..Len(ctx.nodes) /\ peak_live_fprs(ctx) <= FprPool
      /\ pc < Len(ctx.nodes) /\ h' = LowerOne(h, e, ctx, plan, pc) /\ pc' = pc + 1
      /\ suite' = suite /\ phase' = phase /\ ctx' = ctx /\ plan' = plan /\ Sound(ctx)
  BY DEF IInv, Counters, Shaped, Lowering, LowerNode
<1>2. PICK B : Planned(ctx, B, plan) /\ Tracks(ctx, B, h, pc) BY <1>1 DEF IInv, Lowering
<1>3. Len(ctx.nodes) \in Nat BY <1>1, LenNat DEF Whole
<1>4. pc \in Ids(ctx) /\ pc' \in 0..Len(ctx.nodes) BY <1>1, <1>3 DEF Ids
<1>5. Tracks(ctx, B, h', pc + 1) BY <1>1, <1>2, <1>4, LowerTracks
<1>6. Lowering' BY <1>1, <1>2, <1>4, <1>5 DEF Lowering
<1> QED BY <1>1, <1>6 DEF IInv, Counters, Shaped, Early, Lowered

\* The epilogue leaves the registers alone.
LEMMA FinishIInv == ASSUME IInv, Finish PROVE IInv'
<1>1. /\ suite \in DOMAIN Suites /\ ctx.consumed \in 0..Suites[suite].len /\ Whole(ctx)
      /\ phase = "lower" /\ phase' = "done" /\ suite' = suite /\ ctx' = ctx
  BY DEF IInv, Counters, Finish
<1>2. Host(ctx, h) BY <1>1 DEF IInv, Lowering, Tracks
<1> DEFINE v == epilogue(e, ctx, h.g, Top(h),
                  [id \in {x \in Ids(ctx) : h.nf[x] >= 0} |-> Fpr(h, id)])
<1>3. h' = [h EXCEPT !.g = v] BY DEF Finish
<1> HIDE DEF v
<1>4. SameRegs(h, h') BY <1>2, <1>3, SameRegsSelf DEF Host
<1>5. Host(ctx, h') BY <1>2, <1>4, SameHost
<1> QED BY <1>1, <1>5 DEF IInv, Counters, Shaped, Early, Lowering, Lowered

\* Every step keeps the invariant.
LEMMA NextIInv == IInv /\ [Next]_vars => IInv'
<1> SUFFICES ASSUME IInv, [Next]_vars PROVE IInv' OBVIOUS
<1>1. CASE \E in \in Suites[suite].instrs : Build(in) BY <1>1, BuildIInv
<1>2. CASE EndOfRun
  BY <1>2 DEF EndOfRun, IInv, Counters, Shaped, Early, Lowering, Lowered
<1>3. CASE Optimize BY <1>3, OptimizeIInv
<1>4. CASE \E s \in Suites[suite].after : Gate(s) BY <1>4, GateIInv
<1>5. CASE LowerNode BY <1>5, LowerIInv
<1>6. CASE Finish BY <1>6, FinishIInv
<1>7. CASE UNCHANGED vars
  BY <1>7 DEF vars, IInv, Counters, Shaped, Early, Lowering, Lowered
<1> QED BY <1>1, <1>2, <1>3, <1>4, <1>5, <1>6, <1>7 DEF Next

\* The invariant gives the types.
LEMMA IInvTypeOK == IInv => TypeOK
<1> SUFFICES ASSUME IInv PROVE TypeOK OBVIOUS
<1>1. Counters /\ Whole(ctx) BY DEF IInv
<1>2. Len(ctx.nodes) \in Nat /\ Len(ctx.nodes) <= MaxNodes BY <1>1, LenNat DEF Whole, Nodes
<1>3. ASSUME NEW d \in Depth
      PROVE  ctx.slot[d] \in Ids(ctx) \cup {-(k + 1) : k \in Depth} \cup {Popped}
  <2>1. SlotVal(ctx.slot[d], Len(ctx.nodes)) BY <1>1 DEF Whole, Slots
  <2>2. CASE ctx.slot[d] \in 0..(Len(ctx.nodes) - 1) BY <2>2 DEF Ids
  <2>3. CASE ctx.slot[d] \in (-N)..(-1)
    <3> DEFINE k == -(ctx.slot[d]) - 1
    <3>1. k \in Depth /\ ctx.slot[d] = -(k + 1) BY <2>3, NAssumption DEF Depth
    <3> QED BY <3>1
  <2> QED BY <2>1, <2>2, <2>3 DEF SlotVal
<1>4. ASSUME phase \in {"lower", "done"}
      PROVE  /\ h.free \subseteq 0..(FprPool - 1)
             /\ \A i \in Ids(ctx) : h.nf[i] \in {NoReg} \cup 0..(FprPool - 1)
  <2>1. Host(ctx, h) BY <1>4 DEF IInv, Lowering, Lowered, Tracks
  <2> QED BY <2>1 DEF Host, Pool
<1> QED BY <1>1, <1>2, <1>3, <1>4 DEF TypeOK, Counters

\* The invariant gives that no allocation failed.
LEMMA IInvFprPool == IInv => FprPoolSuffices
<1> SUFFICES ASSUME IInv PROVE ~h.starved BY DEF FprPoolSuffices
<1>1. CASE phase \in {"build", "optimize", "declined"} BY <1>1 DEF IInv, Early
<1>2. CASE phase = "lower" BY <1>2 DEF IInv, Lowering, Tracks, Host
<1>3. CASE phase = "done" BY <1>3 DEF IInv, Lowered, Host
<1> QED BY <1>1, <1>2, <1>3 DEF IInv, Counters

\* A use that can be served is of a live, earlier node of the width it wants.
LEMMA IInvUsesAlive == IInv => UsesAlive
<1> SUFFICES ASSUME IInv, phase \in {"build", "optimize", "lower"} PROVE UsesAlive
  BY DEF UsesAlive
<1>1. Whole(ctx) /\ Uses(ctx) BY DEF IInv, Shaped, Sound
<1>2. ASSUME NEW i \in LiveNodes(ctx), NEW j \in 1..3,
             Nd(ctx, i).in[j] >= 0, Nd(ctx, i).op # "FStsw"
      PROVE  LET n == Nd(ctx, i)
             IN  /\ n.in[j] < i /\ Live(ctx, n.in[j])
                 /\ WantsF32(n, j) => IsF32(Nd(ctx, n.in[j]))
                 /\ ~WantsF32(n, j) => ~IsF32(Nd(ctx, n.in[j])) \/ Nd(ctx, n.in[j]).op = "ConstZero"
  <2> DEFINE n == Nd(ctx, i)
             m == Nd(ctx, n.in[j])
  <2>1. i \in Ids(ctx) /\ Live(ctx, i) BY <1>2 DEF LiveNodes, Live
  <2>2. Serves(ctx, n, n.in[j]) BY <1>1, <1>2, <2>1 DEF Uses, Served
  <2>3. n.in[j] < i BY <1>1, <1>2, <2>1, NodeAt DEF NodeFits
  <2>4. WantsF32(n, j) <=> Wants(n) BY DEF WantsF32, Wants, WideOps
  <2>5. Wide(m) => ~IsF32(m) \/ m.op = "ConstZero" BY DEF Wide, IsF32, Doubles, Narrows
  <2> HIDE DEF n, m
  <2>6. Live(ctx, n.in[j]) /\ (IF Wants(n) THEN IsF32(m) ELSE Wide(m)) BY <2>2 DEF m, Serves
  <2> QED BY <2>3, <2>4, <2>5, <2>6 DEF n, m
<1>3. \A d \in Depth : ctx.slot[d] >= 0 => Live(ctx, ctx.slot[d]) BY <1>1 DEF Uses
<1> QED BY <1>2, <1>3 DEF UsesAlive

\* The context, the counters and the host registers have the shape the code
\* relies on, for every program the suites describe: build_instr and every
\* pass keep at most kMaxNodes nodes whose slots name nodes that exist, and
\* lowering keeps the register table within the pool.
THEOREM CompileTyped == Spec => []TypeOK
<1>1. Spec => []IInv BY InitIInv, NextIInv, PTL DEF Spec
<1> QED BY <1>1, IInvTypeOK, PTL

\* alloc_free_fpr never finds its pool empty: a run that passes the gate on
\* peak_live_fprs holds, before every node, no more registers than the
\* estimate held there, although the estimate pairs more accesses.
THEOREM FprPoolAlways == Spec => []FprPoolSuffices
<1>1. Spec => []IInv BY InitIInv, NextIInv, PTL DEF Spec
<1> QED BY <1>1, IInvFprPool, PTL

\* Every node a live node or a stack slot uses is alive, computed before and
\* of the width it is used in, for every program and after every pass:
\* whatever a pass kills, fuses, narrows or moves, all its uses are rewired.
THEOREM UsesAlways == Spec => []UsesAlive
<1>1. Spec => []IInv BY InitIInv, NextIInv, PTL DEF Spec
<1> QED BY <1>1, IInvUsesAlive, PTL

\* What a step does to the context while it is optimised.
LEMMA StepKeeping ==
    ASSUME IInv, [Next]_vars, phase = "optimize" PROVE Keeping(ctx, ctx')
<1>1. Whole(ctx) BY DEF IInv
<1>2. CASE Optimize
  <2> DEFINE b == optimize(ctx, Passes[pc])
  <2>1. ctx' = b /\ pc <= Len(Passes) BY <1>2 DEF Optimize
  <2>2. pc \in Nat \ {0} BY DEF IInv, Counters
  <2>3. Passes[pc] \in PassNames BY <2>1, <2>2, PassesKnown
  <2>4. Keeping(ctx, b) BY <1>1, <2>3, OptimizeKeeping
  <2> HIDE DEF b
  <2> QED BY <2>1, <2>4
<1>3. CASE ctx' = ctx
  <2>1. Gentle(ctx, ctx) /\ Refit(ctx, ctx) BY <1>1, WholeTabled, GentleSelf, RefitSelf
  <2>2. Keeping(ctx, ctx) BY <1>1, <2>1, GentleKeeping
  <2> QED BY <1>3, <2>2
<1>4. Optimize \/ ctx' = ctx
  BY DEF Next, vars, Build, EndOfRun, Gate, LowerNode, Finish
<1> QED BY <1>2, <1>3, <1>4

\* Every pass keeps every store, flag write, control-word access and guest
\* move where it is and with its operand, and a compare it drops is followed
\* by one that stays before the next FSTSW, for every program.
THEOREM EffectsAlways == Spec => EffectsKept
<1>1. Spec => []IInv BY InitIInv, NextIInv, PTL DEF Spec
<1>2. IInv /\ [Next]_vars =>
         [phase = "optimize" =>
             /\ EffectsOf(ctx') = EffectsOf(ctx)
             /\ \A i \in Compares(ctx) : \E j \in Compares(ctx') : FollowedBy(ctx, i, j)]_vars
  BY StepKeeping DEF Keeping
<1> QED BY <1>1, <1>2, PTL DEF Spec, EffectsKept

(***************************************************************************)
(* General registers.  The estimate counts, before every node, the fused   *)
(* compares done less the fused FSTSWs done; lowering holds the codes of   *)
(* the compares whose FSTSW is still to come.  The two agree when every    *)
(* FSTSW names a compare of its own, and an address takes the one register *)
(* the estimate gives it when no operand has a segment.                    *)
(***************************************************************************)
Merging(c, j) == Live(c, j) /\ Nd(c, j).op = "FStsw" /\ Nd(c, j).fused
Unshared(c) ==
    \A j, k \in Ids(c) :
        Merging(c, j) /\ Merging(c, k) /\ Nd(c, j).in[1] = Nd(c, k).in[1] => j = k
Unsegmented(c) == \A i \in LiveNodes(c) : IsAccess(Nd(c, i)) => Nd(c, i).m.seg = 0

\* The fused compares before node i, and the fused FSTSWs up to it.
Packs(c, i) == {l \in FusedIn(c, 0..(i - 1)) : IsCompare(Nd(c, l))}
Merges(c, i) == {l \in FusedIn(c, 0..i) : Nd(c, l).op = "FStsw"}
Around(c, i, hoist) == IF hoist /\ Min(Compares(c)) <= i /\ i <= Max(Compares(c)) THEN 1 ELSE 0

\* What HeldAt counts.
LEMMA HeldParts ==
    ASSUME NEW c, Whole(c), NEW i, NEW hoist
    PROVE  /\ HeldAt(c, i, hoist)
                = Cardinality(Packs(c, i)) - Cardinality(Merges(c, i)) + Around(c, i, hoist)
           /\ Packs(c, i) \subseteq Ids(c) /\ Merges(c, i) \subseteq Ids(c)
           /\ Around(c, i, hoist) \in 0..1
<1>1. Packs(c, i) \subseteq Ids(c) /\ Merges(c, i) \subseteq Ids(c)
  BY DEF Packs, Merges, FusedIn, Live
<1>2. Around(c, i, hoist) \in 0..1 BY DEF Around
<1>3. HeldAt(c, i, hoist)
        = Cardinality(Packs(c, i)) - Cardinality(Merges(c, i)) + Around(c, i, hoist)
  BY DEF HeldAt, Packs, Merges, Around
<1> QED BY <1>1, <1>2, <1>3

\* The registers held across a node are no more than there are nodes.
LEMMA HeldBound ==
    ASSUME NEW c, Whole(c), NEW i, NEW hoist
    PROVE  HeldAt(c, i, hoist) \in Int /\ HeldAt(c, i, hoist) <= Cardinality(Ids(c)) + 1
<1>1. Cardinality(Packs(c, i)) \in Nat /\ Cardinality(Merges(c, i)) \in Nat
  BY HeldParts, IdsFinite
<1>2. Cardinality(Ids(c)) \in Nat /\ Cardinality(Packs(c, i)) <= Cardinality(Ids(c))
  BY HeldParts, IdsFinite, CardUp
<1>3. Around(c, i, hoist) \in 0..1 BY HeldParts
<1>4. HeldAt(c, i, hoist)
        = Cardinality(Packs(c, i)) - Cardinality(Merges(c, i)) + Around(c, i, hoist)
  BY HeldParts
<1> QED BY <1>1, <1>2, <1>3, <1>4

\* The registers a node takes while it is emitted.
LEMMA TransientRange ==
    ASSUME NEW n, NEW rc, NEW saves
    PROVE  /\ Transient(n, 1, rc, saves) \in 0..4
           /\ Transient(n, 0, rc, saves) \in 0..4
           /\ Transient(n, 0, rc, saves) <= Transient(n, 1, rc, saves)
           /\ ~IsAccess(n) => \A a : Transient(n, a, rc, saves) = Transient(n, 1, rc, saves)
<1> DEFINE o == n.op
           P == FpLoads \cup FpStores \cup {"LoadI64", "GuestLoad", "GuestStoreR"}
           Q == {"LoadI32", "StoreCW", "LoadCW", "GuestStoreI"} \cup IntStores
<1>1. \A a : Transient(n, a, rc, saves) =
        CASE o \in P -> a
          [] o \in Q -> 1 + a
          [] o = "FRndInt" -> IF rc THEN 0 ELSE 1
          [] IsCompare(n) -> IF saves THEN 4 ELSE 3
          [] o = "FComI" -> 3
          [] o = "FStsw" -> 2
          [] o = "GuestLea" -> 1
          [] OTHER -> 0
  BY DEF Transient
<1>2. P \cap Q = {} /\ (o \in P \cup Q => /\ o \notin {"FRndInt", "FComI", "FStsw", "GuestLea"}
                                          /\ ~IsCompare(n) /\ IsAccess(n))
  BY DEF FpLoads, FpStores, IntStores, IsCompare, IsAccess, Accesses, IntLoads, GuestMem
<1>3. IsCompare(n) => o \notin {"FRndInt", "FComI", "FStsw", "GuestLea"} BY DEF IsCompare
<1> DEFINE q == IsCompare(n)
<1> HIDE DEF o, P, Q, q
<1>4. /\ o \in P => \A a : Transient(n, a, rc, saves) = a
      /\ o \in Q => \A a : Transient(n, a, rc, saves) = 1 + a
      /\ o = "FRndInt" => \A a : Transient(n, a, rc, saves) = IF rc THEN 0 ELSE 1
      /\ q => \A a : Transient(n, a, rc, saves) = IF saves THEN 4 ELSE 3
      /\ o = "FComI" => \A a : Transient(n, a, rc, saves) = 3
      /\ o = "FStsw" => \A a : Transient(n, a, rc, saves) = 2
      /\ o = "GuestLea" => \A a : Transient(n, a, rc, saves) = 1
      /\ o \notin P \cup Q \cup {"FRndInt", "FComI", "FStsw", "GuestLea"} /\ ~q =>
            \A a : Transient(n, a, rc, saves) = 0
  BY <1>1, <1>2, <1>3 DEF q
<1>5. CASE o \in P BY <1>2, <1>4, <1>5
<1>6. CASE o \in Q BY <1>2, <1>4, <1>6
<1>7. CASE o \notin P \cup Q BY <1>4, <1>7
<1> QED BY <1>5, <1>6, <1>7

\* Without segments a node takes no more than the estimate gives it.
LEMMA CostBound ==
    ASSUME NEW c, Unsegmented(c), NEW i \in LiveNodes(c), NEW p, NEW rc, NEW saves, NEW paired
    PROVE  LET n == Nd(c, i)
               t == Transient(n, AddrCost(p, n, paired), rc, saves)
           IN  t \in 0..4 /\ t <= Transient(n, 1, rc, saves)
<1> DEFINE n == Nd(c, i)
           k == AddrCost(p, n, paired)
<1>1. CASE IsAccess(n)
  <2>1. n.m.seg = 0 BY <1>1 DEF Unsegmented
  <2>2. k = 0 \/ k = 1 BY <2>1 DEF AddrCost
  <2> HIDE DEF n, k
  <2> QED BY <2>2, TransientRange DEF n, k
<1>2. CASE ~IsAccess(n)
  <2> HIDE DEF n, k
  <2>1. Transient(n, k, rc, saves) = Transient(n, 1, rc, saves) BY <1>2, TransientRange
  <2> QED BY <2>1, TransientRange DEF n, k
<1> QED BY <1>1, <1>2

\* What a live node needs counts towards the peak.
NodeNeeds(c, i, hoist, saves) ==
    HeldAt(c, i, hoist) + Transient(Nd(c, i), 1, rc_cached(c), saves)
\* The estimate is at least what any live node needs beside the pinned ones.
LEMMA PeakAt ==
    ASSUME NEW c, Whole(c), NEW x, NEW dead
    PROVE  LET hoist == nzcv_hoist(c, dead)
               saves == ~hoist /\ ~nzcv_skip(c, dead)
               peak == peak_live_gprs(x, c, dead)
           IN  /\ Pinned(x, c) \in Int /\ peak \in Int
               /\ \A i \in LiveNodes(c) :
                     NodeNeeds(c, i, hoist, saves) \in Int
                     /\ Pinned(x, c) + NodeNeeds(c, i, hoist, saves) <= peak
<1> DEFINE hoist == nzcv_hoist(c, dead)
           saves == ~hoist /\ ~nzcv_skip(c, dead)
           node(i) == HeldAt(c, i, hoist) + Transient(Nd(c, i), 1, rc_cached(c), saves)
           tail == IF c.td # 0 \/ EntryDeferred(x) THEN {HeldAt(c, Len(c.nodes), FALSE) + 2} ELSE {}
           all == {0} \cup {node(i) : i \in LiveNodes(c)} \cup tail
           b == Cardinality(Ids(c)) + 5
<1>1. peak_live_gprs(x, c, dead) = Pinned(x, c) + Max(all) BY DEF peak_live_gprs
<1>2. Pinned(x, c) \in Int BY DEF Pinned
<1>3. Cardinality(Ids(c)) \in Nat BY IdsFinite
<1> HIDE DEF hoist, saves
<1>4. ASSUME NEW i PROVE node(i) \in Int /\ node(i) <= b
  <2> DEFINE u == HeldAt(c, i, hoist)
             t == Transient(Nd(c, i), 1, rc_cached(c), saves)
  <2>1. u \in Int /\ u <= Cardinality(Ids(c)) + 1 BY HeldBound
  <2>2. t \in 0..4 BY TransientRange
  <2> HIDE DEF u, t
  <2>3. u + t \in Int /\ u + t <= b BY <1>3, <2>1, <2>2
  <2> QED BY <2>3 DEF u, t
<1>5. \A y \in tail : y \in Int /\ y <= b
  <2> DEFINE u == HeldAt(c, Len(c.nodes), FALSE)
  <2>1. u \in Int /\ u <= Cardinality(Ids(c)) + 1 BY HeldBound
  <2> HIDE DEF u
  <2>2. u + 2 \in Int /\ u + 2 <= b BY <1>3, <2>1
  <2> QED BY <2>2 DEF u
<1>6. 0 \in Int /\ 0 <= b /\ b \in Int BY <1>3
<1> HIDE DEF b, node, tail
<1>7. all \subseteq Int /\ all # {} /\ \A y \in all : y <= b BY <1>4, <1>5, <1>6
<1>8. \A i \in LiveNodes(c) : node(i) \in all OBVIOUS
<1> HIDE DEF all
<1>9. Max(all) \in all /\ \A y \in all : y <= Max(all) BY <1>6, <1>7, MaxIn
<1>10. Max(all) \in Int BY <1>7, <1>9
<1> DEFINE P == Pinned(x, c)
           M == Max(all)
<1> HIDE DEF P, M
<1>11. P + M \in Int BY <1>2, <1>10 DEF P, M
<1>12. ASSUME NEW i \in LiveNodes(c)
       PROVE  NodeNeeds(c, i, hoist, saves) \in Int /\ P + NodeNeeds(c, i, hoist, saves) <= P + M
  <2>1. NodeNeeds(c, i, hoist, saves) = node(i) BY DEF NodeNeeds, node
  <2>2. node(i) \in Int /\ node(i) <= M BY <1>4, <1>8, <1>9 DEF M
  <2>3. P \in Int /\ M \in Int BY <1>2, <1>10 DEF P, M
  <2> QED BY <2>1, <2>2, <2>3
<1> QED BY <1>1, <1>2, <1>11, <1>12 DEF P, M, hoist, saves

\* The codes and flags held before node k: those of fused compares done whose
\* FSTSW is not, and the flags from the first compare to the last.
Packing(c, p, x, k) ==
    /\ DOMAIN x = HostFields /\ DOMAIN x.packed = Ids(c)
    /\ \A l \in Ids(c) : x.packed[l] # NoReg =>
          /\ l < k /\ Live(c, l) /\ Nd(c, l).fused /\ IsCompare(Nd(c, l))
          /\ \A j \in Ids(c) : j < k /\ Merging(c, j) => Nd(c, j).in[1] # l
    /\ x.saved # NoReg => p.hoist /\ Min(Compares(c)) <= k /\ k <= Max(Compares(c))
\* The compares whose codes are held while node i is emitted.
HeldCodes(c, x, i) ==
    {l \in Ids(c) : x.packed[l] # NoReg /\
                    ~(Nd(c, i).op = "FStsw" /\ Nd(c, i).fused /\ Nd(c, i).in[1] = l)}
Named(c, i) == {Nd(c, k).in[1] : k \in Merges(c, i)}

\* The compare a fused FSTSW names.
LEMMA NamedBy ==
    ASSUME NEW c, Whole(c), Handed(c), NEW i \in Ids(c), NEW k \in Merges(c, i)
    PROVE  k \in Ids(c) /\ k <= i /\ Merging(c, k) /\ Nd(c, k).in[1] \in Packs(c, i)
<1>1. k \in 0..i /\ Live(c, k) /\ Nd(c, k).fused /\ Nd(c, k).op = "FStsw" /\ k \in Ids(c)
  BY DEF Merges, FusedIn, Live
<1> DEFINE f == Nd(c, k).in[1]
<1>2. Names(c, Nd(c, k), k, f) BY <1>1 DEF Handed
<1>3. f \in 0..(k - 1) /\ Live(c, f) /\ IsCompare(Nd(c, f)) /\ Nd(c, f).fused
  BY <1>1, <1>2 DEF Names
<1>4. i \in Nat BY NodeAt
<1> HIDE DEF f
<1>5. f \in 0..(i - 1) /\ k <= i BY <1>1, <1>3, <1>4
<1>6. f \in Packs(c, i) BY <1>3, <1>5 DEF Packs, FusedIn
<1> QED BY <1>1, <1>5, <1>6 DEF f, Merging

\* When no two FSTSWs share a compare, what the estimate counts is held.
LEMMA Matched ==
    ASSUME NEW c, Whole(c), Handed(c), Unshared(c), NEW i \in Ids(c), NEW p, NEW x,
           Packing(c, p, x, i)
    PROVE  /\ Cardinality(HeldCodes(c, x, i)) \in Nat
           /\ Cardinality(HeldCodes(c, x, i))
                <= Cardinality(Packs(c, i)) - Cardinality(Merges(c, i))
<1> DEFINE A == Packs(c, i)
           B == Merges(c, i)
           H == HeldCodes(c, x, i)
           M == Named(c, i)
           f == [l \in M |-> CHOOSE k \in B : Nd(c, k).in[1] = l]
<1>1. A \subseteq Ids(c) /\ B \subseteq Ids(c) BY HeldParts
<1>2. \A k \in B : k \in Ids(c) /\ k <= i /\ Merging(c, k) /\ Nd(c, k).in[1] \in A BY NamedBy
<1>3. M \subseteq A BY <1>2 DEF Named
<1>4. ImageOf(f, M) = B
  <2>1. \A j, k \in B : Nd(c, j).in[1] = Nd(c, k).in[1] => j = k BY <1>2 DEF Unshared
  <2>2. ASSUME NEW k \in B PROVE Nd(c, k).in[1] \in M /\ f[Nd(c, k).in[1]] = k
    BY <2>1 DEF Named
  <2>3. \A l \in M : \E k \in B : l = Nd(c, k).in[1] BY DEF Named
  <2> HIDE DEF f, B, M
  <2> QED BY <2>2, <2>3 DEF ImageOf
<1>5. i \in Nat /\ \A k \in Ids(c) : k <= i /\ k # i => k < i
  <2>1. Len(c.nodes) \in Nat BY LenNat DEF Whole
  <2>2. Ids(c) = 0..(Len(c.nodes) - 1) BY DEF Ids
  <2> QED BY <2>1, <2>2
<1>6. H \subseteq A
  <2> SUFFICES ASSUME NEW l \in H PROVE l \in A OBVIOUS
  <2>1. l \in Ids(c) /\ x.packed[l] # NoReg BY DEF HeldCodes
  <2>2. l < i /\ Live(c, l) /\ Nd(c, l).fused /\ IsCompare(Nd(c, l)) BY <2>1 DEF Packing
  <2>3. l \in Nat BY <2>1, NodeAt
  <2>4. l \in 0..(i - 1) BY <1>5, <2>2, <2>3
  <2> QED BY <2>2, <2>4 DEF Packs, FusedIn
<1>7. H \cap M = {}
  <2> SUFFICES ASSUME NEW l \in H, l \in M PROVE FALSE OBVIOUS
  <2>1. PICK k \in B : l = Nd(c, k).in[1] BY DEF Named
  <2>2. k \in Ids(c) /\ k <= i /\ Merging(c, k) BY <1>2
  <2>3. l \in Ids(c) /\ x.packed[l] # NoReg
        /\ ~(Nd(c, i).op = "FStsw" /\ Nd(c, i).fused /\ Nd(c, i).in[1] = l)
    BY DEF HeldCodes
  <2>4. k # i BY <2>1, <2>2, <2>3 DEF Merging
  <2>5. k < i BY <1>5, <2>2, <2>4
  <2> QED BY <2>1, <2>2, <2>3, <2>5 DEF Packing
<1>8. /\ IsFiniteSet(A) /\ IsFiniteSet(M) /\ IsFiniteSet(H)
      /\ Cardinality(A) \in Nat /\ Cardinality(B) \in Nat /\ Cardinality(M) \in Nat
      /\ Cardinality(H) \in Nat
  BY <1>1, <1>3, <1>6, IdsFinite
<1> HIDE DEF A, B, H, M, f
<1>9. Cardinality(B) <= Cardinality(M) BY <1>4, <1>8, ImageBound
<1>10. Cardinality(H \cup M) = Cardinality(H) + Cardinality(M)
  <2>1. Cardinality(H \cup M) = Cardinality(H) + Cardinality(M) - Cardinality(H \cap M)
    BY <1>8, FS_Union
  <2>2. Cardinality(H \cap M) = 0 BY <1>7, FS_EmptySet
  <2> QED BY <1>8, <2>1, <2>2
<1>11. Cardinality(H \cup M) <= Cardinality(A) BY <1>1, <1>3, <1>6, CardUp
<1>12. Cardinality(H) <= Cardinality(A) - Cardinality(B) BY <1>8, <1>9, <1>10, <1>11
<1> QED BY <1>8, <1>12 DEF A, B, H

\* What the gate decided: the plans, and as many bases as fit.
Decided(x, c, p, dead) ==
    /\ p.rc = rc_cached(c) /\ p.skip = nzcv_skip(c, dead) /\ p.hoist = nzcv_hoist(c, dead)
    /\ p.lastcmp = IF Compares(c) = {} THEN NoNode ELSE Max(Compares(c))
    /\ Len(p.bases) \in Nat /\ peak_live_gprs(x, c, dead) + Len(p.bases) <= GprAvailable(x)

\* The first and the last compare, and what lies between.
LEMMA CompareRange ==
    ASSUME NEW c, Whole(c), NEW i \in Compares(c)
    PROVE  /\ Min(Compares(c)) \in Nat /\ Max(Compares(c)) \in Compares(c)
           /\ Max(Compares(c)) \in Nat /\ i \in Nat
           /\ Min(Compares(c)) <= i /\ i <= Max(Compares(c))
<1> DEFINE C == Compares(c)
<1>1. Len(c.nodes) \in Nat BY LenNat DEF Whole
<1>2. C \subseteq Ids(c) BY DEF Compares, LiveNodes
<1>3. C \subseteq Nat /\ C \subseteq Int /\ \A y \in C : y <= Len(c.nodes) BY <1>1, <1>2 DEF Ids
<1>4. Len(c.nodes) \in Int BY <1>1
<1> HIDE DEF C
<1>5. i \in C /\ C # {} BY DEF C
<1>6. Max(C) \in C /\ \A y \in C : y <= Max(C) BY <1>3, <1>4, <1>5, MaxIn
<1>7. Min(C) \in C /\ \A y \in C : Min(C) <= y
  <2>1. \E z \in C : \A y \in C : z <= y BY <1>3, <1>5, AP!LeastNatural
  <2>2. Min(C) = CHOOSE z \in C : \A y \in C : z <= y BY DEF Min
  <2> QED BY <2>1, <2>2
<1> QED BY <1>3, <1>5, <1>6, <1>7 DEF C

\* A node that is emitted finds the general registers it takes.
LEMMA DemandFits ==
    ASSUME NEW c, Whole(c), Handed(c), Unshared(c), Unsegmented(c), NEW i \in LiveNodes(c),
           NEW x, NEW p, Packing(c, p, x, i), NEW e0, NEW dead, Decided(e0, c, p, dead)
    PROVE  Demand(x, e0, c, p, i) <= GprAvailable(e0)
<1> DEFINE n == Nd(c, i)
           hoist == nzcv_hoist(c, dead)
           saves == ~hoist /\ ~nzcv_skip(c, dead)
           H == Cardinality(HeldCodes(c, x, i))
           F0 == IF x.saved # NoReg \/ (p.hoist /\ IsCompare(n)) THEN 1 ELSE 0
           T == Transient(n, AddrCost(p, n, p.with[i] >= 0), p.rc, ~p.hoist /\ ~p.skip)
           P == Pinned(e0, c)
           L == Len(p.bases)
           K == peak_live_gprs(e0, c, dead)
           V == GprAvailable(e0)
           T1 == Transient(n, 1, rc_cached(c), saves)
           A == Cardinality(Packs(c, i))
           B == Cardinality(Merges(c, i))
           R == Around(c, i, hoist)
           E == NodeNeeds(c, i, hoist, saves)
<1>1. i \in Ids(c) /\ Live(c, i) BY DEF LiveNodes
<1>2. Demand(x, e0, c, p, i) = P + L + H + F0 + T BY DEF Demand, HeldCodes
<1>3. L \in Nat /\ K + L <= V BY DEF Decided
<1>4. V \in Int BY GprPoolAssumption DEF GprAvailable
<1>5. P \in Int /\ K \in Int /\ E \in Int /\ P + E <= K BY PeakAt
<1>6. H \in Nat /\ H <= A - B BY <1>1, Matched
<1>7. A \in Nat /\ B \in Nat BY HeldParts, IdsFinite
<1>8. p.rc = rc_cached(c) /\ p.hoist = hoist /\ (~p.hoist /\ ~p.skip) = saves BY DEF Decided
<1>9. T \in 0..4 /\ T <= T1
  <2>1. T = Transient(n, AddrCost(p, n, p.with[i] >= 0), rc_cached(c), saves) BY <1>8
  <2> HIDE DEF T, saves
  <2> QED BY <2>1, CostBound
<1>10. T1 \in 0..4 BY TransientRange
<1>11. R \in 0..1 /\ E = A - B + R + T1
  <2>1. HeldAt(c, i, hoist) = A - B + R /\ R \in 0..1 BY HeldParts
  <2> QED BY <2>1 DEF NodeNeeds
<1>12. F0 \in 0..1 /\ F0 <= R
  <2>1. CASE x.saved # NoReg
    <3>1. p.hoist /\ Min(Compares(c)) <= i /\ i <= Max(Compares(c)) BY <2>1 DEF Packing
    <3>2. R = 1 BY <1>8, <3>1 DEF Around
    <3> QED BY <2>1, <3>2
  <2>2. CASE p.hoist /\ IsCompare(n)
    <3>1. i \in Compares(c) BY <2>2 DEF Compares
    <3>2. Min(Compares(c)) <= i /\ i <= Max(Compares(c)) BY <3>1, CompareRange
    <3>3. R = 1 BY <1>8, <2>2, <3>2 DEF Around
    <3> QED BY <2>2, <3>3
  <2>3. CASE ~(x.saved # NoReg) /\ ~(p.hoist /\ IsCompare(n))
    <3>1. F0 = 0 BY <2>3
    <3> HIDE DEF F0, R
    <3> QED BY <1>11, <3>1
  <2> QED BY <2>1, <2>2, <2>3
<1> HIDE DEF n, hoist, saves, H, F0, T, P, L, K, V, T1, A, B, R, E
<1>13. P + L + H + F0 + T <= V
  BY <1>3, <1>4, <1>5, <1>6, <1>7, <1>9, <1>10, <1>11, <1>12
<1> QED BY <1>2, <1>13 DEF V

\* What concerns floating-point registers leaves codes and flags alone.
SameCodes(x, y) ==
    DOMAIN y = HostFields /\ y.packed = x.packed /\ y.saved = x.saved /\ y.gprs = x.gprs
\* Two steps that do.
LEMMA SameCodesTrans ==
    ASSUME NEW x, NEW y, SameCodes(x, y), NEW z, SameCodes(y, z) PROVE SameCodes(x, z)
BY DEF SameCodes
\* The fields that have no part in it.
LEMMA CodesApart ==
    ASSUME NEW x, DOMAIN x = HostFields
    PROVE  /\ SameCodes(x, x)
           /\ \A v : SameCodes(x, [x EXCEPT !.g = v]) /\ SameCodes(x, [x EXCEPT !.rc = v])
                     /\ SameCodes(x, [x EXCEPT !.fpr = v]) /\ SameCodes(x, [x EXCEPT !.nf = v])
                     /\ SameCodes(x, [x EXCEPT !.free = v])
                     /\ SameCodes(x, [x EXCEPT !.starved = v])
BY DEF SameCodes, HostFields

\* Allocating, freeing and writing a floating-point register.
LEMMA RegsApart ==
    ASSUME NEW x, DOMAIN x = HostFields, NEW id, NEW v
    PROVE  /\ SameCodes(x, alloc_free_fpr(x, id)) /\ SameCodes(x, free_fpr(x, id))
           /\ SameCodes(x, Hold(x, id, v))
<1>1. SameCodes(x, free_fpr(x, id)) BY DEF free_fpr, SameCodes, HostFields
<1>2. SameCodes(x, alloc_free_fpr(x, id))
  <2> DEFINE a == [x EXCEPT !.starved = TRUE]
             b == [x EXCEPT !.nf[id] = Min(x.free), !.free = @ \ {Min(x.free)}]
  <2>1. SameCodes(x, a) /\ SameCodes(x, b) BY DEF SameCodes, HostFields
  <2>2. alloc_free_fpr(x, id) \in {a, b} BY DEF alloc_free_fpr
  <2> HIDE DEF a, b
  <2> QED BY <2>1, <2>2
<1>3. SameCodes(x, Hold(x, id, v))
  <2> DEFINE f == [x.fpr EXCEPT ![x.nf[id]] = v]
  <2>1. [x EXCEPT !.fpr[x.nf[id]] = v] = [x EXCEPT !.fpr = f] OBVIOUS
  <2> HIDE DEF f
  <2> QED BY <2>1, CodesApart DEF Hold
<1> QED BY <1>1, <1>2, <1>3

\* free_dead_inputs.
LEMMA FreeApart ==
    ASSUME NEW x, DOMAIN x = HostFields, NEW c, NEW p, NEW i
    PROVE  SameCodes(x, free_dead_inputs(x, c, p, i))
<1> DEFINE st(y, j) == IF j \in Dying(y, c, p, i) THEN free_fpr(y, Nd(c, i).in[j]) ELSE y
           x1 == st(x, 1)
           x2 == st(x1, 2)
           x3 == st(x2, 3)
<1>1. free_dead_inputs(x, c, p, i) = x3 BY DEF free_dead_inputs
<1>2. \A y, j : DOMAIN y = HostFields => SameCodes(y, st(y, j)) BY RegsApart, CodesApart
<1> HIDE DEF st
<1>3. SameCodes(x, x1) BY <1>2
<1>4. SameCodes(x1, x2) BY <1>2, <1>3 DEF SameCodes
<1>5. SameCodes(x2, x3) BY <1>2, <1>4 DEF SameCodes
<1> QED BY <1>1, <1>3, <1>4, <1>5, SameCodesTrans

\* A node with a result.
LEMMA ProducerApart ==
    ASSUME NEW c, Whole(c), NEW i \in Ids(c), NEW x, DOMAIN x = HostFields, NEW e0, NEW p,
           Nd(c, i).op \in Producers
    PROVE  SameCodes(x, EmitNode(x, e0, c, p, i))
<1> DEFINE n == Addressed(x, p, Nd(c, i))
           w == p.with[i]
           v == Inputs(n, LAMBDA id : Fpr(x, id))
           out == OutputFpr(x, c, p, i)
           u == NodeValue(x.g, Addressed(x, p, Nd(c, w)), v, 0)
           al == alloc_free_fpr(out, w)
           pair == IF n.op \in FpLoads /\ w >= 0 THEN Hold(al, w, u) ELSE out
           val == IF n.op = "ReadSt" THEN ReadStKnown(x, n) ELSE NodeValue(x.g, n, v, RcOf(x, p, n))
           rc == RcAfter(x, p, n, x.g)
           k == Hold(pair, i, val)
<1>1. n.op = Nd(c, i).op BY AddressedIs
<1>2. /\ ~IsCompare(n) /\ n.op # "FStsw" /\ n.op \notin FpStores
  BY <1>1 DEF IsCompare, Producers, Pure, FpLoads, IntLoads, FpStores
<1>3. EmitNode(x, e0, c, p, i) = [k EXCEPT !.rc = rc] BY <1>1, <1>2 DEF EmitNode
<1>4. SameCodes(x, out)
  <2> DEFINE id == Nd(c, i).in[Min(Dying(x, c, p, i))]
             y == [x EXCEPT !.nf[i] = x.nf[id], !.nf[id] = NoReg]
  <2>1. OutputFpr(x, c, p, i) \in {y, alloc_free_fpr(x, i)} BY DEF OutputFpr
  <2>2. SameCodes(x, y) BY DEF SameCodes, HostFields
  <2> HIDE DEF y, id
  <2> QED BY <2>1, <2>2, RegsApart
<1> HIDE DEF out
<1>5. SameCodes(out, al) BY <1>4, RegsApart DEF SameCodes
<1> HIDE DEF al, u, val, rc, n
<1>6. SameCodes(al, Hold(al, w, u)) BY <1>5, RegsApart DEF SameCodes
<1>7. SameCodes(x, pair) BY <1>4, <1>5, <1>6, SameCodesTrans
<1> HIDE DEF pair
<1>8. SameCodes(pair, k) BY <1>7, RegsApart DEF SameCodes
<1> HIDE DEF k
<1>9. SameCodes(k, [k EXCEPT !.rc = rc]) BY <1>8, CodesApart DEF SameCodes
<1> QED BY <1>3, <1>7, <1>8, <1>9, SameCodesTrans

\* A compare keeps its codes when it is fused, and the flags until the last.
LEMMA CompareCodes ==
    ASSUME NEW x, DOMAIN x = HostFields, NEW p, ~(p.skip /\ p.hoist), NEW n, NEW i, NEW cmp
    PROVE  LET y == EmitCompare(x, p, n, i, cmp)
           IN  /\ DOMAIN y = HostFields
               /\ y.packed = IF n.fused THEN [x.packed EXCEPT ![i] = cmp] ELSE x.packed
               /\ ~p.hoist => y.saved = x.saved
               /\ p.hoist /\ i = p.lastcmp => y.saved = NoReg
<1> DEFINE y == Flags(x, p, i, cmp)
           s0 == IF x.saved = NoReg THEN x.g.fpu.nzcv ELSE x.saved
           a == [x EXCEPT !.g.fpu.nzcv = cmp]
           b == [x EXCEPT !.g.fpu.nzcv = s0, !.saved = NoReg]
           d == [x EXCEPT !.g.fpu.nzcv = cmp, !.saved = s0]
<1>1. y = CASE p.skip -> a
            [] p.hoist -> IF i = p.lastcmp THEN b ELSE d
            [] OTHER -> x
  BY DEF Flags
<1>2. /\ DOMAIN a = HostFields /\ a.packed = x.packed /\ a.saved = x.saved
      /\ DOMAIN b = HostFields /\ b.packed = x.packed /\ b.saved = NoReg
      /\ DOMAIN d = HostFields /\ d.packed = x.packed
  BY DEF HostFields
<1> HIDE DEF a, b, d, y
<1>3. /\ y \in {a, b, d, x}
      /\ ~p.hoist => y \in {a, x}
      /\ p.hoist /\ i = p.lastcmp => y = b
  BY <1>1
<1>4. /\ DOMAIN y = HostFields /\ y.packed = x.packed
      /\ ~p.hoist => y.saved = x.saved
      /\ p.hoist /\ i = p.lastcmp => y.saved = NoReg
  BY <1>2, <1>3
<1> DEFINE z1 == [y EXCEPT !.packed[i] = cmp]
           z2 == [y EXCEPT !.g.fpu.cc = cmp]
<1>5. EmitCompare(x, p, n, i, cmp) = IF n.fused THEN z1 ELSE z2
  BY DEF EmitCompare, y
<1>6. /\ DOMAIN z1 = HostFields /\ z1.packed = [y.packed EXCEPT ![i] = cmp] /\ z1.saved = y.saved
      /\ DOMAIN z2 = HostFields /\ z2.packed = y.packed /\ z2.saved = y.saved
  BY <1>4 DEF HostFields
<1> HIDE DEF z1, z2
<1> QED BY <1>4, <1>5, <1>6

\* A fused FSTSW gives up the codes it merges.
LEMMA FstswCodes ==
    ASSUME NEW x, DOMAIN x = HostFields, NEW e0, NEW n
    PROVE  LET y == EmitFstsw(x, e0, n)
           IN  /\ DOMAIN y = HostFields /\ y.saved = x.saved
               /\ y.packed = IF n.fused THEN [x.packed EXCEPT ![n.in[1]] = NoReg] ELSE x.packed
<1> DEFINE id == n.in[1]
           cc == IF ~n.fused THEN x.g.fpu.cc
                 ELSE IF x.packed[id] = NoReg THEN 0 ELSE x.packed[id]
           a == [x EXCEPT !.g.fpu.cc = cc, !.packed[id] = NoReg]
           y == IF n.fused THEN a ELSE x
           v == StatusWord(StswTop(e0, Top(x), n.in[3]), cc)
           z == [y EXCEPT !.g = SetReg(@, "ax", v)]
<1>1. EmitFstsw(x, e0, n) = z BY DEF EmitFstsw
<1> HIDE DEF cc, v
<1>2. DOMAIN a = HostFields /\ a.saved = x.saved /\ a.packed = [x.packed EXCEPT ![id] = NoReg]
  BY DEF HostFields
<1> HIDE DEF a
<1>3. /\ DOMAIN y = HostFields /\ y.saved = x.saved
      /\ y.packed = IF n.fused THEN [x.packed EXCEPT ![id] = NoReg] ELSE x.packed
  BY <1>2
<1> HIDE DEF y
<1>4. DOMAIN z = HostFields /\ z.saved = y.saved /\ z.packed = y.packed BY <1>3 DEF HostFields
<1> HIDE DEF z
<1> QED BY <1>1, <1>3, <1>4

\* Emitting a node without a result.
LEMMA EmitCodes ==
    ASSUME NEW c, Whole(c), NEW i \in Ids(c), NEW x, DOMAIN x = HostFields, NEW e0, NEW p,
           Nd(c, i).op \notin Producers
    PROVE  LET n == Nd(c, i)
               y == EmitNode(x, e0, c, p, i)
           IN  /\ IsCompare(n) => \E cmp : y = EmitCompare(x, p, n, i, cmp)
               /\ n.op = "FStsw" => y = EmitFstsw(x, e0, n)
               /\ ~IsCompare(n) /\ n.op # "FStsw" => SameCodes(x, y)
<1> DEFINE n == Addressed(x, p, Nd(c, i))
           w == p.with[i]
           v == Inputs(n, LAMBDA id : Fpr(x, id))
           twin == Addressed(x, p, Nd(c, w))
           sunk == Nd(c, w).in[1]
           g0 == NodeEffect(e0, NodeEffect(e0, x.g, n, v, 0), twin, <<Fpr(x, sunk), Zero, Zero>>, 0)
           stored == [x EXCEPT !.g = g0]
           g == NodeEffect(e0, x.g, n, v, RcOf(x, p, n))
           rc == RcAfter(x, p, n, g)
           y == EmitNode(x, e0, c, p, i)
           other == [x EXCEPT !.g = g, !.rc = rc]
           st == IF sunk # n.in[1] /\ p.last[sunk] = i /\ x.nf[sunk] >= 0
                 THEN free_fpr(stored, sunk) ELSE stored
<1>1. n.op = Nd(c, i).op BY AddressedIs
<1>2. n.op \in FpStores => ~IsCompare(n) /\ n.op # "FStsw" BY DEF FpStores, IsCompare
<1>3. IsCompare(n) => n.op # "FStsw" BY DEF IsCompare
<1>4. y = CASE n.op \in Producers -> y
            [] IsCompare(n) -> EmitCompare(x, p, n, i, CmpValue(n, v))
            [] n.op = "FStsw" -> EmitFstsw(x, e0, n)
            [] n.op \in FpStores /\ w >= 0 -> st
            [] OTHER -> other
  BY <1>1 DEF EmitNode
<1>5. IsCompare(Nd(c, i)) \/ Nd(c, i).op = "FStsw" => n = Nd(c, i)
  <2>1. IsCompare(Nd(c, i)) \/ Nd(c, i).op = "FStsw" => ~IsAccess(Nd(c, i))
    BY DEF IsCompare, IsAccess, Accesses, FpLoads, FpStores, IntLoads, IntStores, GuestMem
  <2> QED BY <2>1 DEF Addressed, Cached
<1>6. IsCompare(n) <=> IsCompare(Nd(c, i)) BY <1>1 DEF IsCompare
<1> HIDE DEF y, st, other, v, n
<1>7. /\ IsCompare(n) => y = EmitCompare(x, p, n, i, CmpValue(n, v))
      /\ n.op = "FStsw" => y = EmitFstsw(x, e0, n)
      /\ n.op \in FpStores /\ w >= 0 => y = st
      /\ ~IsCompare(n) /\ n.op # "FStsw" /\ ~(n.op \in FpStores /\ w >= 0) => y = other
  BY <1>1, <1>2, <1>3, <1>4
<1>8. SameCodes(x, other) BY DEF SameCodes, HostFields, other
<1>9. SameCodes(x, st)
  <2>1. SameCodes(x, stored) BY CodesApart
  <2> HIDE DEF stored
  <2>2. SameCodes(stored, free_fpr(stored, sunk)) BY <2>1, RegsApart DEF SameCodes
  <2> QED BY <2>1, <2>2, SameCodesTrans DEF st
<1>10. /\ IsCompare(Nd(c, i)) => y = EmitCompare(x, p, Nd(c, i), i, CmpValue(n, v))
       /\ Nd(c, i).op = "FStsw" => y = EmitFstsw(x, e0, Nd(c, i))
       /\ ~IsCompare(Nd(c, i)) /\ Nd(c, i).op # "FStsw" => SameCodes(x, y)
  BY <1>1, <1>5, <1>6, <1>7, <1>8, <1>9
<1> QED BY <1>10 DEF y

\* Flags that are kept around every compare: there are at least two.
LEMMA Hoisting ==
    ASSUME NEW c, Whole(c), NEW x, NEW p, NEW dead, Decided(x, c, p, dead)
    PROVE  /\ ~(p.skip /\ p.hoist)
           /\ p.hoist => /\ p.lastcmp = Max(Compares(c)) /\ Compares(c) # {}
                         /\ Max(Compares(c)) \in Compares(c)
<1>1. ASSUME p.hoist, Compares(c) = {} PROVE FALSE
  <2>1. nzcv_hoist(c, dead) BY <1>1 DEF Decided
  <2>2. Cardinality(Compares(c)) >= 2 BY <2>1 DEF nzcv_hoist
  <2>3. Cardinality(Compares(c)) = 0 BY <1>1, FS_EmptySet
  <2> QED BY <2>2, <2>3
<1>2. ~(p.skip /\ p.hoist) BY DEF Decided, nzcv_hoist
<1>3. Compares(c) # {} => Max(Compares(c)) \in Compares(c) BY CompareRange
<1> QED BY <1>1, <1>2, <1>3 DEF Decided

\* A node that is neither a compare nor an FSTSW that merges.
LEMMA PackSame ==
    ASSUME NEW c, Whole(c), NEW e0, NEW p, NEW dead, Decided(e0, c, p, dead), NEW i \in Ids(c),
           NEW x, Packing(c, p, x, i), i \notin Compares(c), ~Merging(c, i),
           NEW y, DOMAIN y = HostFields, y.packed = x.packed, y.saved = x.saved
    PROVE  Packing(c, p, y, i + 1)
<1>1. i \in Nat /\ \A j \in Ids(c) : j \in Nat BY NodeAt
<1>2. \A j \in Ids(c) : j < i + 1 <=> (j < i \/ j = i) BY <1>1
<1>3. ASSUME NEW l \in Ids(c), y.packed[l] # NoReg
      PROVE  /\ l < i + 1 /\ Live(c, l) /\ Nd(c, l).fused /\ IsCompare(Nd(c, l))
             /\ \A j \in Ids(c) : j < i + 1 /\ Merging(c, j) => Nd(c, j).in[1] # l
  BY <1>2, <1>3 DEF Packing
<1>4. ASSUME y.saved # NoReg
      PROVE  p.hoist /\ Min(Compares(c)) <= i + 1 /\ i + 1 <= Max(Compares(c))
  <2>1. p.hoist /\ Min(Compares(c)) <= i /\ i <= Max(Compares(c)) BY <1>4 DEF Packing
  <2>2. Max(Compares(c)) \in Compares(c) BY <2>1, Hoisting
  <2>3. Max(Compares(c)) \in Nat /\ Min(Compares(c)) \in Nat BY <2>2, CompareRange
  <2>4. i # Max(Compares(c)) BY <2>2
  <2> QED BY <1>1, <2>1, <2>3, <2>4
<1> QED BY <1>3, <1>4 DEF Packing

\* A compare.
LEMMA PackCompare ==
    ASSUME NEW c, Whole(c), Handed(c), NEW e0, NEW p, NEW dead, Decided(e0, c, p, dead),
           NEW i \in Compares(c), NEW x, Packing(c, p, x, i), NEW cmp
    PROVE  Packing(c, p, EmitCompare(x, p, Nd(c, i), i, cmp), i + 1)
<1> DEFINE n == Nd(c, i)
           y == EmitCompare(x, p, n, i, cmp)
<1>0. i \in Ids(c) /\ Live(c, i) /\ IsCompare(n) BY DEF Compares, LiveNodes
<1>1. i \in Nat /\ \A j \in Ids(c) : j \in Nat BY <1>0, NodeAt
<1>2. \A j \in Ids(c) : j < i + 1 <=> (j < i \/ j = i) BY <1>1
<1>3. DOMAIN x = HostFields /\ DOMAIN x.packed = Ids(c) /\ ~(p.skip /\ p.hoist)
  BY Hoisting DEF Packing
<1>4. /\ DOMAIN y = HostFields
      /\ y.packed = IF n.fused THEN [x.packed EXCEPT ![i] = cmp] ELSE x.packed
      /\ ~p.hoist => y.saved = x.saved
      /\ p.hoist /\ i = p.lastcmp => y.saved = NoReg
  BY <1>3, CompareCodes
<1>5. ~Merging(c, i) BY <1>0 DEF Merging, IsCompare
<1> HIDE DEF y
<1>6. DOMAIN y.packed = Ids(c) BY <1>3, <1>4
<1>7. ASSUME NEW j \in Ids(c), j < i + 1, Merging(c, j) PROVE Nd(c, j).in[1] # i
  <2>1. j < i /\ j \in Nat BY <1>1, <1>2, <1>5, <1>7
  <2>2. Names(c, Nd(c, j), j, Nd(c, j).in[1]) BY <1>7 DEF Handed, Merging
  <2>3. Nd(c, j).in[1] \in 0..(j - 1) BY <1>7, <2>2 DEF Names, Merging
  <2> QED BY <1>1, <2>1, <2>3
<1>8. ASSUME NEW l \in Ids(c), y.packed[l] # NoReg
      PROVE  /\ l < i + 1 /\ Live(c, l) /\ Nd(c, l).fused /\ IsCompare(Nd(c, l))
             /\ \A j \in Ids(c) : j < i + 1 /\ Merging(c, j) => Nd(c, j).in[1] # l
  <2>1. CASE l = i /\ n.fused BY <1>0, <1>1, <1>7, <2>1
  <2>2. CASE x.packed[l] # NoReg BY <1>2, <1>5, <2>2 DEF Packing
  <2> QED BY <1>3, <1>4, <1>8, <2>1, <2>2
<1>9. ASSUME y.saved # NoReg
      PROVE  p.hoist /\ Min(Compares(c)) <= i + 1 /\ i + 1 <= Max(Compares(c))
  <2>1. p.hoist BY <1>4, <1>9 DEF Packing
  <2>2. i # Max(Compares(c)) BY <1>4, <1>9, <2>1, Hoisting
  <2>3. /\ Min(Compares(c)) \in Nat /\ Max(Compares(c)) \in Nat
        /\ Min(Compares(c)) <= i /\ i <= Max(Compares(c))
    BY CompareRange
  <2> QED BY <1>1, <2>1, <2>2, <2>3
<1>10. Packing(c, p, y, i + 1) BY <1>4, <1>6, <1>8, <1>9 DEF Packing
<1> QED BY <1>10 DEF y

\* An FSTSW.
LEMMA PackFstsw ==
    ASSUME NEW c, Whole(c), NEW e0, NEW p, NEW dead, Decided(e0, c, p, dead), NEW i \in Ids(c),
           Live(c, i), Nd(c, i).op = "FStsw", NEW x, Packing(c, p, x, i)
    PROVE  Packing(c, p, EmitFstsw(x, e0, Nd(c, i)), i + 1)
<1> DEFINE n == Nd(c, i)
           y == EmitFstsw(x, e0, n)
<1>1. i \in Nat /\ \A j \in Ids(c) : j \in Nat BY NodeAt
<1>2. \A j \in Ids(c) : j < i + 1 <=> (j < i \/ j = i) BY <1>1
<1>3. DOMAIN x = HostFields /\ DOMAIN x.packed = Ids(c) BY DEF Packing
<1>4. /\ DOMAIN y = HostFields /\ y.saved = x.saved
      /\ y.packed = IF n.fused THEN [x.packed EXCEPT ![n.in[1]] = NoReg] ELSE x.packed
  BY <1>3, FstswCodes
<1> HIDE DEF y
<1>5. i \notin Compares(c) BY DEF Compares, IsCompare
<1>6. CASE ~n.fused
  <2>1. ~Merging(c, i) BY <1>6 DEF Merging
  <2>2. y.packed = x.packed BY <1>4, <1>6
  <2>3. Packing(c, p, y, i + 1) BY <1>4, <1>5, <2>1, <2>2, PackSame
  <2> QED BY <2>3 DEF y
<1>7. CASE n.fused
  <2>1. DOMAIN y.packed = Ids(c) BY <1>3, <1>4
  <2>2. ASSUME NEW l \in Ids(c), y.packed[l] # NoReg PROVE l # n.in[1] /\ x.packed[l] # NoReg
    BY <1>3, <1>4, <1>7, <2>2
  <2>3. ASSUME NEW l \in Ids(c), y.packed[l] # NoReg
        PROVE  /\ l < i + 1 /\ Live(c, l) /\ Nd(c, l).fused /\ IsCompare(Nd(c, l))
               /\ \A j \in Ids(c) : j < i + 1 /\ Merging(c, j) => Nd(c, j).in[1] # l
    <3>1. l # n.in[1] /\ x.packed[l] # NoReg BY <2>2, <2>3
    <3> QED BY <1>2, <3>1 DEF Packing
  <2>4. ASSUME y.saved # NoReg
        PROVE  p.hoist /\ Min(Compares(c)) <= i + 1 /\ i + 1 <= Max(Compares(c))
    <3>1. p.hoist /\ Min(Compares(c)) <= i /\ i <= Max(Compares(c)) BY <1>4, <2>4 DEF Packing
    <3>2. Max(Compares(c)) \in Compares(c) BY <3>1, Hoisting
    <3>3. Max(Compares(c)) \in Nat /\ Min(Compares(c)) \in Nat BY <3>2, CompareRange
    <3>4. i # Max(Compares(c)) BY <1>5, <3>2
    <3> QED BY <1>1, <3>1, <3>3, <3>4
  <2>5. Packing(c, p, y, i + 1) BY <1>4, <2>1, <2>3, <2>4 DEF Packing
  <2> QED BY <2>5 DEF y
<1> QED BY <1>6, <1>7

\* Lowering a node: codes and flags go on, and Demand is what it took.
LEMMA LowerPacking ==
    ASSUME NEW c, Whole(c), Handed(c), NEW B, NEW p, Planned(c, B, p), NEW e0, NEW dead,
           Decided(e0, c, p, dead), NEW i \in Ids(c), NEW x, Packing(c, p, x, i)
    PROVE  LET y == LowerOne(x, e0, c, p, i)
           IN  /\ Packing(c, p, y, i + 1)
               /\ y.gprs = x.gprs \/ (i \in LiveNodes(c) /\ y.gprs = Demand(x, e0, c, p, i))
<1> DEFINE n == Nd(c, i)
           y == LowerOne(x, e0, c, p, i)
           m == EmitNode(x, e0, c, p, i)
           D == Demand(x, e0, c, p, i)
           m2 == [m EXCEPT !.gprs = D]
<1>1. DOMAIN x = HostFields BY DEF Packing
<1>2. CASE n.dead
  <2>1. y = x BY <1>2 DEF LowerOne
  <2>2. i \notin Compares(c) /\ ~Merging(c, i) BY <1>2 DEF Compares, LiveNodes, Live, Merging
  <2>3. Packing(c, p, x, i + 1) BY <1>1, <2>2, PackSame
  <2> QED BY <2>1, <2>3
<1>3. CASE ~n.dead /\ i \in p.pairskip
  <2>1. y = free_dead_inputs(x, c, p, i) BY <1>3 DEF LowerOne
  <2>2. SameCodes(x, y) BY <1>1, <2>1, FreeApart
  <2>3. n.op \in FpAccesses
    <3> DEFINE pp == compute_pairs(c, B)
    <3>1. Paired(<<c, B>>, pp) /\ i \in pp.skip BY <1>3, ScansAlike DEF Planned
    <3> HIDE DEF pp
    <3>2. PICK l \in Ids(c) : pp.with[l] = i BY <3>1 DEF Paired
    <3>3. i # NoNode BY NodeAt DEF NoNode
    <3>4. PairOf(c, pp, l, i) BY <3>1, <3>2, <3>3 DEF Paired
    <3> QED BY <3>4 DEF PairOf
  <2>4. i \notin Compares(c) /\ ~Merging(c, i)
    BY <2>3 DEF Compares, Merging, IsCompare, FpAccesses, FpLoads, FpStores
  <2> HIDE DEF y
  <2>5. Packing(c, p, y, i + 1) BY <2>2, <2>4, PackSame DEF SameCodes
  <2> QED BY <2>2, <2>5 DEF SameCodes, y
<1>4. CASE ~n.dead /\ i \notin p.pairskip
  <2>1. y = free_dead_inputs(m2, c, p, i) BY <1>4 DEF LowerOne
  <2>2. Live(c, i) /\ i \in LiveNodes(c) BY <1>4 DEF Live, LiveNodes
  <2>3. Packing(c, p, m, i + 1)
    <3>1. CASE n.op \in Producers
      <4>1. SameCodes(x, m) BY <1>1, <3>1, ProducerApart
      <4>2. i \notin Compares(c) /\ ~Merging(c, i)
        BY <3>1 DEF Compares, Merging, IsCompare, Producers, Pure, FpLoads, IntLoads
      <4> HIDE DEF m
      <4> QED BY <4>1, <4>2, PackSame DEF SameCodes
    <3>2. CASE n.op \notin Producers /\ IsCompare(n)
      <4>1. PICK cmp : m = EmitCompare(x, p, n, i, cmp) BY <1>1, <3>2, EmitCodes
      <4>2. i \in Compares(c) BY <2>2, <3>2 DEF Compares
      <4>3. Packing(c, p, EmitCompare(x, p, n, i, cmp), i + 1) BY <4>2, PackCompare
      <4> HIDE DEF m
      <4> QED BY <4>1, <4>3
    <3>3. CASE n.op = "FStsw"
      <4>0. n.op \notin Producers BY <3>3 DEF Producers, Pure, FpLoads, IntLoads
      <4>1. m = EmitFstsw(x, e0, n) BY <1>1, <3>3, <4>0, EmitCodes
      <4>2. Packing(c, p, EmitFstsw(x, e0, n), i + 1) BY <2>2, <3>3, PackFstsw
      <4> HIDE DEF m
      <4> QED BY <4>1, <4>2
    <3>4. CASE n.op \notin Producers /\ ~IsCompare(n) /\ n.op # "FStsw"
      <4>1. SameCodes(x, m) BY <1>1, <3>4, EmitCodes
      <4>2. i \notin Compares(c) /\ ~Merging(c, i) BY <3>4 DEF Compares, Merging
      <4> HIDE DEF m
      <4> QED BY <4>1, <4>2, PackSame DEF SameCodes
    <3> QED BY <3>1, <3>2, <3>3, <3>4
  <2> HIDE DEF m, D
  <2>4. DOMAIN m2 = HostFields /\ m2.packed = m.packed /\ m2.saved = m.saved /\ m2.gprs = D
    BY <2>3 DEF Packing, HostFields
  <2> HIDE DEF m2
  <2>5. SameCodes(m2, y) BY <2>1, <2>4, FreeApart
  <2> HIDE DEF y
  <2>6. DOMAIN y = HostFields /\ y.packed = m.packed /\ y.saved = m.saved /\ y.gprs = D
    BY <2>4, <2>5 DEF SameCodes
  <2>7. Packing(c, p, y, i + 1) BY <2>3, <2>6 DEF Packing
  <2> QED BY <2>2, <2>6, <2>7 DEF y, D
<1> QED BY <1>2, <1>3, <1>4

\* plan_addr_cache gives a sequence: only bases that nodes use are ranked.
LEMMA BasesRow == ASSUME NEW c, Whole(c) PROVE Row(plan_addr_cache(c))
<1> DEFINE counted == {i \in LiveNodes(c) :
                         /\ IsAccess(Nd(c, i))
                         /\ addr_operand_base_cacheable(Nd(c, i).m)
                         /\ ~(Nd(c, i).m.base = "ax" /\ HasOp(c, {"FStsw"}))
                         /\ Nd(c, i).m.base \notin c.written}
           uses(r) == {i \in counted : Nd(c, i).m.base = r}
           keys == {r \in GReg : Cardinality(uses(r)) >= 2}
           before(r, s) == \/ Cardinality(uses(r)) > Cardinality(uses(s))
                           \/ /\ Cardinality(uses(r)) = Cardinality(uses(s))
                              /\ Min(uses(r)) < Min(uses(s))
           ranked(k) == CHOOSE r \in keys : Cardinality({s \in keys : before(s, r)}) = k - 1
           m == Min({AddrSlots, Cardinality(keys)})
           q == [k \in 1..m |-> ranked(k)]
           f == [i \in Ids(c) |-> Nd(c, i).m.base]
<1>1. plan_addr_cache(c) = IF \E i \in LiveNodes(c) : IsAccess(Nd(c, i)) /\ Nd(c, i).m.seg # 0
                           THEN << >> ELSE q
  BY DEF plan_addr_cache
<1>2. counted \subseteq Ids(c) BY DEF LiveNodes
<1> HIDE DEF counted
<1>3. \A r : uses(r) \subseteq Ids(c) BY <1>2
<1>4. keys \subseteq ImageOf(f, Ids(c))
  <2> SUFFICES ASSUME NEW r \in keys PROVE r \in ImageOf(f, Ids(c)) OBVIOUS
  <2>1. Cardinality(uses(r)) >= 2 OBVIOUS
  <2>2. uses(r) # {}
    <3> SUFFICES ASSUME uses(r) = {} PROVE FALSE OBVIOUS
    <3> HIDE DEF uses
    <3>1. Cardinality(uses(r)) = 0 BY FS_EmptySet
    <3> QED BY <2>1, <3>1
  <2>3. PICK i \in Ids(c) : Nd(c, i).m.base = r BY <1>2, <2>2
  <2> QED BY <2>3 DEF ImageOf
<1>5. Cardinality(keys) \in Nat
  <2>1. IsFiniteSet(Ids(c)) BY IdsFinite
  <2> HIDE DEF f, keys
  <2>2. IsFiniteSet(ImageOf(f, Ids(c))) BY <2>1, ImageBound
  <2> QED BY <1>4, <2>2, FS_Subset, FS_CardinalityType
<1> HIDE DEF keys, ranked
<1>6. m \in Nat
  <2> DEFINE K == Cardinality(keys)
  <2> HIDE DEF K
  <2>1. {AddrSlots, K} \subseteq Nat /\ {AddrSlots, K} # {} BY <1>5, AddrSlotsAssumption DEF K
  <2>2. Min({AddrSlots, K}) \in {AddrSlots, K} BY <2>1, MinIn
  <2> QED BY <2>1, <2>2 DEF K
<1> HIDE DEF m
<1>7. q = [k \in 1..m |-> q[k]] OBVIOUS
<1> HIDE DEF q
<1>8. Row(q) BY <1>6, <1>7, RowOf
<1> QED BY <1>1, <1>8, RowEmpty

\* As many bases as fit beside the peak.
LEMMA BasesFit ==
    ASSUME NEW bases, Row(bases), NEW K \in Int, NEW V \in Int, ~(K > V)
    PROVE  LET fit == {k \in 0..Len(bases) : K + k <= V}
               used == SubSeq(bases, 1, Max(fit))
           IN  Len(used) \in Nat /\ K + Len(used) <= V
<1> DEFINE fit == {k \in 0..Len(bases) : K + k <= V}
           m == Max(fit)
<1>1. PICK T : bases \in Seq(T) BY DEF Row
<1>2. Len(bases) \in Nat BY <1>1
<1>3. 0 \in fit /\ fit \subseteq Int /\ fit \subseteq 0..Len(bases) /\ \A y \in fit : y <= Len(bases)
  BY <1>2
<1>4. Len(bases) \in Int /\ fit # {} BY <1>2, <1>3
<1>5. \A k \in fit : K + k <= V OBVIOUS
<1> HIDE DEF fit
<1>6. m \in fit BY <1>3, <1>4, MaxIn
<1>7. m \in 0..Len(bases) /\ K + m <= V BY <1>3, <1>5, <1>6
<1> HIDE DEF m
<1>8. Len(SubSeq(bases, 1, m)) = m BY <1>1, <1>2, <1>7
<1>9. Len(SubSeq(bases, 1, m)) \in Nat /\ K + Len(SubSeq(bases, 1, m)) <= V BY <1>7, <1>8
<1> QED BY <1>9 DEF m, fit

\* The invariant of the general registers.
Fitting == Unshared(ctx) /\ Unsegmented(ctx) => h.gprs <= GprAvailable(e)
Gprs ==
    /\ phase = "lower" => (\E dead : Decided(e, ctx, plan, dead)) /\ Packing(ctx, plan, h, pc)
    /\ phase \notin {"lower", "done"} => h.gprs = 0
    /\ Fitting

\* A pool that is not in use fits.
LEMMA Available == GprAvailable(e) \in Int /\ 0 <= GprAvailable(e)
BY GprPoolAssumption DEF GprAvailable

\* It holds when a run starts.
LEMMA InitGprs == Init => Gprs
<1> SUFFICES ASSUME Init PROVE Gprs OBVIOUS
<1>1. phase = "build" /\ h = [starved |-> FALSE, gprs |-> 0] BY DEF Init
<1>2. h.gprs = 0 BY <1>1
<1> QED BY <1>1, <1>2, Available DEF Gprs, Fitting

\* The gates.
LEMMA GateGprs == ASSUME IInv, Gprs, NEW s, Gate(s) PROVE Gprs'
<1>1. /\ Whole(ctx) /\ phase = "optimize" /\ h.gprs = 0 /\ ctx' = ctx /\ e' = e
  BY DEF IInv, Gprs, Gate
<1> DEFINE dead == nzcv_dead_after_run(s)
           peak == peak_live_gprs(e, ctx, dead)
           bases == plan_addr_cache(ctx)
           fit == {k \in 0..Len(bases) : peak + k <= GprAvailable(e)}
           used == SubSeq(bases, 1, Max(fit))
           p == compute_pairs(ctx, ToSet(used))
           last == IF Compares(ctx) = {} THEN NoNode ELSE Max(Compares(ctx))
           decided == [bases |-> used, with |-> p.with, pairskip |-> p.skip,
                       last |-> LastUse(ctx, p), rc |-> rc_cached(ctx),
                       skip |-> nzcv_skip(ctx, dead), hoist |-> nzcv_hoist(ctx, dead),
                       lastcmp |-> last]
<1>2. IF peak_live_fprs(ctx) > FprPool \/ peak > GprAvailable(e)
      THEN phase' = "declined" /\ UNCHANGED <<plan, h, pc>>
      ELSE /\ phase' = "lower" /\ plan' = decided /\ pc' = 0
           /\ h' = StartLower(e, ctx, decided)
  BY DEF Gate
<1>3. /\ decided.bases = used /\ decided.rc = rc_cached(ctx) /\ decided.lastcmp = last
      /\ decided.skip = nzcv_skip(ctx, dead) /\ decided.hoist = nzcv_hoist(ctx, dead)
  OBVIOUS
<1>4. peak \in Int /\ GprAvailable(e) \in Int /\ 0 <= GprAvailable(e) BY <1>1, PeakAt, Available
<1>5. Row(bases) BY <1>1, BasesRow
<1>6. ~(peak > GprAvailable(e)) => Len(used) \in Nat /\ peak + Len(used) <= GprAvailable(e)
  <2> HIDE DEF bases, peak
  <2> QED BY <1>4, <1>5, BasesFit
<1> HIDE DEF decided, used, last
<1>7. CASE peak_live_fprs(ctx) > FprPool \/ peak > GprAvailable(e)
  <2>1. phase' = "declined" /\ h' = h BY <1>2, <1>7
  <2> QED BY <1>1, <1>4, <2>1 DEF Gprs, Fitting
<1>8. CASE ~(peak_live_fprs(ctx) > FprPool \/ peak > GprAvailable(e))
  <2>1. phase' = "lower" /\ plan' = decided /\ pc' = 0 /\ h' = StartLower(e, ctx, decided)
    BY <1>2, <1>8
  <2>2. Len(used) \in Nat /\ peak + Len(used) <= GprAvailable(e) BY <1>6, <1>8
  <2>3. Decided(e, ctx, decided, dead) BY <1>3, <2>2 DEF Decided, last
  <2> DEFINE y == StartLower(e, ctx, decided)
  <2>4. /\ DOMAIN y = HostFields /\ y.packed = [i \in Ids(ctx) |-> NoReg] /\ y.saved = NoReg
        /\ y.gprs = 0
    BY DEF StartLower, HostFields
  <2> HIDE DEF y
  <2>5. Packing(ctx, decided, y, 0) BY <2>4 DEF Packing
  <2> HIDE DEF peak
  <2>6. Decided(e, ctx, plan, dead)' /\ Packing(ctx, plan, h, pc)' /\ h'.gprs = 0
    BY <1>1, <2>1, <2>3, <2>4, <2>5 DEF y
  <2> QED BY <1>1, <1>4, <2>1, <2>6 DEF Gprs, Fitting
<1> QED BY <1>7, <1>8

\* A node is lowered.
LEMMA LowerGprs == ASSUME IInv, Gprs, LowerNode PROVE Gprs'
<1>1. /\ Whole(ctx) /\ Handed(ctx) /\ phase = "lower" /\ pc \in 0..Len(ctx.nodes)
      /\ pc < Len(ctx.nodes) /\ h' = LowerOne(h, e, ctx, plan, pc) /\ pc' = pc + 1
      /\ phase' = phase /\ ctx' = ctx /\ plan' = plan /\ e' = e
  BY DEF IInv, Shaped, Sound, Lowering, LowerNode
<1>2. PICK B : Planned(ctx, B, plan) BY <1>1 DEF IInv, Lowering
<1>3. PICK dead : Decided(e, ctx, plan, dead) BY <1>1 DEF Gprs
<1>4. Packing(ctx, plan, h, pc) BY <1>1 DEF Gprs
<1>5. Len(ctx.nodes) \in Nat BY <1>1, LenNat DEF Whole
<1>6. pc \in Ids(ctx) BY <1>1, <1>5 DEF Ids
<1>7. /\ Packing(ctx, plan, h', pc + 1)
      /\ h'.gprs = h.gprs \/ (pc \in LiveNodes(ctx) /\ h'.gprs = Demand(h, e, ctx, plan, pc))
  BY <1>1, <1>2, <1>3, <1>4, <1>6, LowerPacking
<1>8. ASSUME Unshared(ctx), Unsegmented(ctx) PROVE h'.gprs <= GprAvailable(e)
  <2>1. CASE h'.gprs = h.gprs BY <1>8, <2>1 DEF Gprs, Fitting
  <2>2. CASE pc \in LiveNodes(ctx) /\ h'.gprs = Demand(h, e, ctx, plan, pc)
    <3>1. Demand(h, e, ctx, plan, pc) <= GprAvailable(e)
      BY <1>1, <1>3, <1>4, <1>8, <2>2, DemandFits
    <3> QED BY <2>2, <3>1
  <2> QED BY <1>7, <2>1, <2>2
<1>9. Fitting' BY <1>1, <1>8 DEF Fitting
<1> QED BY <1>1, <1>3, <1>7, <1>9 DEF Gprs

\* Every step keeps it.
LEMMA NextGprs == IInv /\ Gprs /\ [Next]_vars => Gprs'
<1> SUFFICES ASSUME IInv, Gprs, [Next]_vars PROVE Gprs' OBVIOUS
<1>1. CASE (\E in \in Suites[suite].instrs : Build(in)) \/ EndOfRun \/ Optimize
  <2>1. /\ phase \in {"build", "optimize"} /\ phase' \in {"build", "optimize", "declined"}
        /\ h' = h /\ e' = e
    BY <1>1 DEF Build, EndOfRun, Optimize
  <2>2. h.gprs = 0 /\ h'.gprs = 0 /\ GprAvailable(e') = GprAvailable(e) BY <2>1 DEF Gprs
  <2> QED BY <2>1, <2>2, Available DEF Gprs, Fitting
<1>2. CASE \E s \in Suites[suite].after : Gate(s) BY <1>2, GateGprs
<1>3. CASE LowerNode BY <1>3, LowerGprs
<1>4. CASE Finish
  <2>1. phase = "lower" /\ phase' = "done" /\ ctx' = ctx /\ e' = e BY <1>4 DEF Finish
  <2> DEFINE v == epilogue(e, ctx, h.g, Top(h),
                    [id \in {x \in Ids(ctx) : h.nf[x] >= 0} |-> Fpr(h, id)])
  <2>2. h' = [h EXCEPT !.g = v] BY <1>4 DEF Finish
  <2>3. DOMAIN h = HostFields BY <2>1 DEF Gprs, Packing
  <2> HIDE DEF v
  <2>4. h'.gprs = h.gprs BY <2>2, <2>3 DEF HostFields
  <2> QED BY <2>1, <2>4 DEF Gprs, Fitting
<1>5. CASE UNCHANGED vars BY <1>5 DEF vars, Gprs, Fitting
<1> QED BY <1>1, <1>2, <1>3, <1>4, <1>5 DEF Next

\* alloc_free_gpr never finds its pool empty: a run that passes the gate on
\* peak_live_gprs holds, while any of its nodes is emitted, no more general
\* registers than the pool has, provided that no two FSTSWs merge the codes
\* of one compare and that no operand has an FS or GS segment.
THEOREM GprPoolAlways == Spec => [](Unshared(ctx) /\ Unsegmented(ctx) => GprPoolSuffices)
<1>1. Spec => []IInv BY InitIInv, NextIInv, PTL DEF Spec
<1>2. Spec => []Gprs BY <1>1, InitGprs, NextGprs, PTL DEF Spec
<1>3. Gprs => (Unshared(ctx) /\ Unsegmented(ctx) => GprPoolSuffices)
  BY DEF Gprs, Fitting, GprPoolSuffices
<1> QED BY <1>2, <1>3, PTL
=============================================================================
