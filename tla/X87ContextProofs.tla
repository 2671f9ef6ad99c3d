------------------------- MODULE X87ContextProofs -------------------------
(***************************************************************************)
(* X87IR::Context stays well formed: Whole is kept by every call of the    *)
(* builder (X87IRBuild) and by every optimisation pass (X87IROptimize);    *)
(* and the passes keep the nodes that have an effect.                      *)
(* The loops of the code are instances of Loop, and what a loop keeps is   *)
(* an instance of LoopProofs.                                              *)
(***************************************************************************)
EXTENDS X87CompileRun, SequenceTheorems, TLAPS
LOCAL INSTANCE SequencesExt
LOCAL INSTANCE FiniteSetsExt

(***************************************************************************)
(* Sequences of whatever they are sequences of.                            *)
(***************************************************************************)
Row(s) == \E T : s \in Seq(T)

\* A sequence is the function of its elements.
LEMMA RowFacts ==
    ASSUME NEW s, Row(s)
    PROVE  Len(s) \in Nat /\ DOMAIN s = 1..Len(s) /\ s = [x \in 1..Len(s) |-> s[x]]
<1>1. PICK T : s \in Seq(T) BY DEF Row
<1> QED BY <1>1

\* Append adds its argument at the end and keeps the rest.
LEMMA RowAppend ==
    ASSUME NEW s, Row(s), NEW y
    PROVE  /\ Row(Append(s, y)) /\ Len(Append(s, y)) = Len(s) + 1
           /\ \A x \in 1..Len(s) : Append(s, y)[x] = s[x]
           /\ Append(s, y)[Len(s) + 1] = y
<1>1. PICK T : s \in Seq(T) BY DEF Row
<1>2. s \in Seq(T \cup {y}) /\ y \in T \cup {y} BY <1>1
<1>3. Append(s, y) \in Seq(T \cup {y}) BY <1>2
<1>4. Len(Append(s, y)) = Len(s) + 1 BY <1>2
<1>5. \A x \in 1..Len(s) : Append(s, y)[x] = s[x] BY <1>2
<1>6. Append(s, y)[Len(s) + 1] = y BY <1>2
<1> QED BY <1>3, <1>4, <1>5, <1>6 DEF Row

\* A function on 1..n is a sequence.
LEMMA RowOf ==
    ASSUME NEW n \in Nat, NEW f, f = [x \in 1..n |-> f[x]]
    PROVE  Row(f) /\ Len(f) = n /\ DOMAIN f = 1..n
<1> DEFINE T == {f[x] : x \in 1..n}
<1>1. f \in [1..n -> T] OBVIOUS
<1>2. f \in Seq(T) BY <1>1
<1>3. Len(f) = n BY <1>1, <1>2
<1> QED BY <1>1, <1>2, <1>3 DEF Row

\* The empty sequence is one.
LEMMA RowEmpty == Row(<< >>) /\ Len(<< >>) = 0
<1>1. << >> \in Seq({}) OBVIOUS
<1> QED BY <1>1 DEF Row

\* Changing an element keeps the length.
LEMMA RowExcept ==
    ASSUME NEW s, Row(s), NEW i, NEW y
    PROVE  Row([s EXCEPT ![i] = y]) /\ Len([s EXCEPT ![i] = y]) = Len(s)
<1> DEFINE f == [s EXCEPT ![i] = y]
<1>1. Len(s) \in Nat /\ DOMAIN s = 1..Len(s) BY RowFacts
<1>2. f = [x \in 1..Len(s) |-> f[x]] BY <1>1
<1> HIDE DEF f
<1>3. Row(f) /\ Len(f) = Len(s) BY <1>1, <1>2, RowOf
<1> QED BY <1>3 DEF f

(***************************************************************************)
(* The shape of a context: every input of a node is an earlier node, and   *)
(* every slot names a node, an initial depth or nothing.                   *)
(***************************************************************************)
CtxFields == {"nodes", "ok", "r", "slot", "td", "read", "cse", "csenext", "narIn", "narNode",
              "zero", "one", "consts", "constnext", "fcmp", "fcomi", "written", "consumed"}
NodeFields == {"op", "dead", "f32", "fused", "trunc", "in", "d", "v", "m", "k"}
Ternary == {"FMAdd", "FMSub", "FNMSub"}
AtLeast2 == Ternary \cup {"FAdd", "FSub", "FMul", "FDiv", "FNMul", "FCSel", "FCmp", "FComI"}
AtLeast1 == AtLeast2 \cup {"CvtF32ToF64", "CvtF64ToF32", "FNeg", "FAbs", "FSqrt", "FRndInt",
                           "FTst", "StoreF64", "StoreF32Raw", "StoreI32", "StoreI64"}
\* n can be node i.
NodeFits(n, i) ==
    /\ DOMAIN n = NodeFields /\ n.in \in [1..3 -> Int] /\ n.dead \in BOOLEAN
    /\ n.op # "FStsw" => \A j \in 1..3 : n.in[j] >= -1 /\ n.in[j] < i
    /\ n.op \in AtLeast1 => n.in[1] >= 0
    /\ n.op \in AtLeast2 => n.in[2] >= 0
    /\ n.op \in Ternary => n.in[3] >= 0
Nodes(c) ==
    /\ Row(c.nodes) /\ Len(c.nodes) <= MaxNodes
    /\ \A x \in 1..Len(c.nodes) : NodeFits(c.nodes[x], x - 1)
SlotVal(v, n) == v \in 0..(n - 1) \/ v \in (-N)..(-1) \/ v = Popped
Slots(c) == c.slot \in [Depth -> Int] /\ \A d \in Depth : SlotVal(c.slot[d], Len(c.nodes))
Whole(c) ==
    /\ DOMAIN c = CtxFields /\ c.ok \in BOOLEAN /\ c.td \in Int
    /\ Nodes(c) /\ Slots(c)

(***************************************************************************)
(* While a run is built every node is alive, a value is used in the width  *)
(* it has, whatever the context remembers is the node it says, and an      *)
(* FSTSW names the last compare before it.                                 *)
(***************************************************************************)
Narrows == {"LoadF32Raw", "CvtF64ToF32"}
Doubles == Producers \ Narrows
WideOps == {"CvtF32ToF64", "StoreF32Raw"}
Wide(n) == n.op \in Doubles /\ ~n.f32
Wides(c) == {i \in Ids(c) : Wide(Nd(c, i))}
Singles(c) == {i \in Ids(c) : IsF32(Nd(c, i))}
Sources(c, op) == IF op \in WideOps THEN Singles(c) ELSE Wides(c)

Singular == {"FAdd", "FSub", "FMul", "FDiv", "FNMul", "FNeg", "FAbs", "FSqrt"} \cup Ternary
\* n has the inputs its operation takes, and no more.
Exact(n) ==
    /\ n.f32 \in BOOLEAN /\ (n.f32 => n.op \in Singular)
    /\ n.op # "FStsw" => /\ n.op \notin AtLeast1 => n.in[1] = -1
                         /\ n.op \notin AtLeast2 => n.in[2] = -1
                         /\ n.op \notin Ternary => n.in[3] = -1
\* f is the last compare before place i, if there is one.
Follows(c, i, f) ==
    f = -1 \/ (f \in 0..(i - 1) /\ \A l \in f..(i - 1) : IsCompare(Nd(c, l)) <=> l = f)
\* n can have been built as node i of c.
New(c, n, i) ==
    /\ n.dead = FALSE /\ n.f32 = FALSE /\ n.fused = FALSE /\ Exact(n)
    /\ n.op # "FStsw" => \A j \in 1..3 : n.in[j] >= 0 => n.in[j] \in Sources(c, n.op)
    /\ n.op = "FStsw" => Follows(c, i, n.in[1])
News(c) == \A x \in 1..Len(c.nodes) : New(c, c.nodes[x], x - 1)
Mapped(c) == \A d \in Depth : c.slot[d] >= 0 => c.slot[d] \in Wides(c)
\* The id of a node of S, or none.
Known(v, S) == v \in Int /\ (v >= 0 => v \in S)
Entries(t, S) == Row(t) /\ \A x \in 1..Len(t) : t[x].id \in S
Tables(c) ==
    LET W == Wides(c)
    IN  /\ c.read \in [Depth -> Int] /\ \A d \in Depth : Known(c.read[d], W)
        /\ Known(c.zero, W) /\ Known(c.one, W)
        /\ c.narIn \in Int /\ (c.narIn >= 0 => c.narNode \in Singles(c))
        /\ Entries(c.cse, W) /\ Entries(c.consts, W)
        /\ c.fcmp \in Int /\ Follows(c, Len(c.nodes), c.fcmp)
Built(c) == Whole(c) /\ News(c) /\ Mapped(c) /\ Tables(c)

\* What every call of the builder does, and one that returns a value.
Grown(c, b) ==
    /\ Built(b) /\ Len(c.nodes) <= Len(b.nodes) /\ b.consumed = c.consumed
    /\ \A x \in 1..Len(c.nodes) : b.nodes[x] = c.nodes[x]
    /\ b.ok => c.ok
Gives(c, b) == Grown(c, b) /\ (b.ok => b.r \in Wides(b))

\* The number of nodes is a natural number.
LEMMA LenNat == ASSUME NEW c, Nodes(c) PROVE Len(c.nodes) \in Nat BY RowFacts DEF Nodes
\* The same while a run is built.
LEMMA LenBuilt == ASSUME NEW c, Built(c) PROVE Len(c.nodes) \in Nat BY LenNat DEF Built, Whole

\* Ids are integers.
LEMMA WidesInt ==
    ASSUME NEW c, Built(c)
    PROVE  /\ \A x \in Wides(c) : x \in Int /\ x >= 0 /\ x \in Ids(c) /\ x \in 0..(Len(c.nodes) - 1)
           /\ \A x \in Singles(c) : x \in Int /\ x >= 0 /\ x \in Ids(c) /\ x \in 0..(Len(c.nodes) - 1)
BY LenBuilt DEF Wides, Singles, Ids

\* Two contexts that agree on the nodes of the first.
Agree(c, b) ==
    /\ Len(c.nodes) \in Nat /\ Len(b.nodes) \in Nat /\ Len(c.nodes) <= Len(b.nodes)
    /\ \A x \in 1..Len(c.nodes) : b.nodes[x] = c.nodes[x]
\* A value stays one, in its width, and a compare the last one.
LEMMA Agreed ==
    ASSUME NEW c, NEW b, Agree(c, b)
    PROVE  /\ Wides(c) \subseteq Wides(b) /\ Singles(c) \subseteq Singles(b)
           /\ \A op : Sources(c, op) \subseteq Sources(b, op)
           /\ \A i \in 0..Len(c.nodes), f \in Int : Follows(c, i, f) => Follows(b, i, f)
           /\ \A i \in 0..Len(c.nodes) : \A n : n.in \in [1..3 -> Int] /\ New(c, n, i) => New(b, n, i)
<1>1. \A i \in Ids(c) : i \in Ids(b) /\ Nd(b, i) = Nd(c, i)
  <2> TAKE i \in Ids(c)
  <2>1. i \in 0..(Len(c.nodes) - 1) BY DEF Ids
  <2>2. i + 1 \in 1..Len(c.nodes) /\ i \in 0..(Len(b.nodes) - 1) BY <2>1 DEF Agree
  <2> QED BY <2>2 DEF Agree, Nd, Ids
<1>2. Wides(c) \subseteq Wides(b) /\ Singles(c) \subseteq Singles(b)
  BY <1>1 DEF Wides, Singles
<1>3. \A op : Sources(c, op) \subseteq Sources(b, op) BY <1>2 DEF Sources
<1>4. ASSUME NEW i \in 0..Len(c.nodes), NEW f \in Int, Follows(c, i, f) PROVE Follows(b, i, f)
  <2>1. \A l \in f..(i - 1) : f \in 0..(i - 1) => Nd(b, l) = Nd(c, l)
    <3> SUFFICES ASSUME NEW l \in f..(i - 1), f \in 0..(i - 1) PROVE Nd(b, l) = Nd(c, l)
      OBVIOUS
    <3>1. l \in Ids(c) BY DEF Agree, Ids
    <3> QED BY <1>1, <3>1
  <2> QED BY <1>4, <2>1 DEF Follows
<1>5. ASSUME NEW i \in 0..Len(c.nodes), NEW n, n.in \in [1..3 -> Int], New(c, n, i)
      PROVE  New(b, n, i)
  <2>1. n.in[1] \in Int BY <1>5
  <2>2. n.op = "FStsw" => Follows(b, i, n.in[1]) BY <1>4, <1>5, <2>1 DEF New
  <2>3. n.op # "FStsw" => \A j \in 1..3 : n.in[j] >= 0 => n.in[j] \in Sources(b, n.op)
    BY <1>3, <1>5 DEF New
  <2> QED BY <1>5, <2>2, <2>3 DEF New
<1> QED BY <1>2, <1>3, <1>4, <1>5

\* A step of the builder keeps the nodes there are.
LEMMA GrownAgree == ASSUME NEW c, NEW b, Built(c), Grown(c, b) PROVE Agree(c, b)
BY LenBuilt DEF Grown, Agree

\* What a step needs to be one, when the nodes are those of c and maybe more.
LEMMA Growing ==
    ASSUME NEW c, Built(c), NEW b, Agree(c, b), Whole(b), b.consumed = c.consumed, b.ok => c.ok,
           \A x \in 1..Len(b.nodes) : x > Len(c.nodes) => New(b, b.nodes[x], x - 1),
           Mapped(b), Tables(b)
    PROVE  Grown(c, b)
<1>1. ASSUME NEW x \in 1..Len(b.nodes), ~(x > Len(c.nodes)) PROVE New(b, b.nodes[x], x - 1)
  <2>1. x \in 1..Len(c.nodes) /\ x - 1 \in 0..Len(c.nodes) BY <1>1 DEF Agree
  <2>2. New(c, c.nodes[x], x - 1) /\ c.nodes[x].in \in [1..3 -> Int]
    BY <2>1 DEF Built, News, Whole, Nodes, NodeFits
  <2>3. b.nodes[x] = c.nodes[x] BY <2>1 DEF Agree
  <2> QED BY <2>1, <2>2, <2>3, Agreed
<1>2. News(b) BY <1>1 DEF News
<1> QED BY <1>2 DEF Grown, Built, Agree

\* Tables that are right for a context are right for one with more nodes.
LEMMA TablesGrow ==
    ASSUME NEW c, Built(c), NEW b, Agree(c, b), b.read = c.read, b.zero = c.zero, b.one = c.one,
           b.narIn = c.narIn, b.narNode = c.narNode, b.cse = c.cse, b.consts = c.consts,
           b.fcmp \in Int, Follows(b, Len(b.nodes), b.fcmp)
    PROVE  Tables(b)
<1>1. Wides(c) \subseteq Wides(b) /\ Singles(c) \subseteq Singles(b) BY Agreed
<1>2. Tables(c) BY DEF Built
<1>3. Entries(b.cse, Wides(b)) /\ Entries(b.consts, Wides(b)) BY <1>1, <1>2 DEF Tables, Entries
<1>4. /\ Known(b.zero, Wides(b)) /\ Known(b.one, Wides(b))
      /\ \A d \in Depth : Known(b.read[d], Wides(b))
  BY <1>1, <1>2 DEF Tables, Known
<1>5. b.read \in [Depth -> Int] /\ b.narIn \in Int /\ (b.narIn >= 0 => b.narNode \in Singles(b))
  BY <1>1, <1>2 DEF Tables
<1> QED BY <1>3, <1>4, <1>5 DEF Tables

\* Sets of values depend on the nodes alone.
LEMMA SameNodes ==
    ASSUME NEW c, NEW b, b.nodes = c.nodes
    PROVE  /\ Ids(b) = Ids(c) /\ Wides(b) = Wides(c) /\ Singles(b) = Singles(c)
           /\ \A i, f : Follows(b, i, f) <=> Follows(c, i, f)
BY DEF Ids, Wides, Singles, Nd, Follows

\* b differs from c in the fields S at most.
Same(c, b, S) == DOMAIN b = CtxFields /\ \A f \in CtxFields \ S : b[f] = c[f]
\* A context whose nodes are the same is whole when its other parts are.
LEMMA Rebuilt ==
    ASSUME NEW c, Built(c), NEW b, Same(c, b, CtxFields \ {"nodes", "consumed"}),
           b.ok \in BOOLEAN, b.ok => c.ok, b.td \in Int, Slots(b), Mapped(b), Tables(b)
    PROVE  Grown(c, b)
<1>1. b.nodes = c.nodes /\ b.consumed = c.consumed /\ DOMAIN b = CtxFields
  BY DEF Same, CtxFields
<1>2. Len(c.nodes) \in Nat /\ Nodes(b) BY <1>1, LenBuilt DEF Built, Whole, Nodes
<1>3. Agree(c, b) BY <1>1, <1>2 DEF Agree
<1>4. Whole(b) BY <1>1, <1>2 DEF Whole
<1>5. \A x \in 1..Len(b.nodes) : x > Len(c.nodes) => New(b, b.nodes[x], x - 1) BY <1>1, <1>2
<1> QED BY <1>1, <1>3, <1>4, <1>5, Growing

\* Only the stack map changes.
LEMMA Remapped ==
    ASSUME NEW c, Built(c), NEW b, Same(c, b, {"slot", "r", "td", "ok"}),
           b.ok \in BOOLEAN, b.ok => c.ok, b.td \in Int, Slots(b), Mapped(b)
    PROVE  Grown(c, b)
<1>1. Same(c, b, CtxFields \ {"nodes", "consumed"}) BY DEF Same, CtxFields
<1>2. /\ b.nodes = c.nodes /\ b.read = c.read /\ b.zero = c.zero /\ b.one = c.one
      /\ b.fcmp = c.fcmp /\ b.narIn = c.narIn /\ b.narNode = c.narNode
      /\ b.cse = c.cse /\ b.consts = c.consts
  BY DEF Same, CtxFields
<1>3. Tables(b) BY <1>2, SameNodes DEF Built, Tables
<1> QED BY <1>1, <1>3, Rebuilt

\* No step is a step of the builder.
LEMMA GrownSelf == ASSUME NEW c, Built(c) PROVE Grown(c, c)
<1>1. Len(c.nodes) \in Nat BY LenBuilt
<1> QED BY <1>1 DEF Grown
\* Two steps of the builder make one.
LEMMA GrownTrans == ASSUME NEW c, NEW b, NEW a, Built(c), Grown(c, b), Grown(b, a) PROVE Grown(c, a)
<1>1. Len(c.nodes) \in Nat /\ Len(b.nodes) \in Nat /\ Len(a.nodes) \in Nat
  BY LenBuilt DEF Grown
<1>2. \A x \in 1..Len(c.nodes) : x \in 1..Len(b.nodes) BY <1>1 DEF Grown
<1> QED BY <1>1, <1>2 DEF Grown

\* A call that fails.
LEMMA FailWhole == ASSUME NEW c, Built(c) PROVE Gives(c, Fail(c)) /\ ~Fail(c).ok
<1> DEFINE b == Fail(c)
<1>1. Same(c, b, {"slot", "r", "td", "ok"}) /\ b.ok = FALSE /\ b.td = c.td /\ b.slot = c.slot
      /\ b.nodes = c.nodes
  BY DEF Built, Whole, CtxFields, Fail, Same
<1> HIDE DEF b
<1>2. Slots(b) /\ Mapped(b) /\ b.td \in Int
  BY <1>1, SameNodes DEF Built, Whole, Slots, Mapped
<1>3. Grown(c, b) BY <1>1, <1>2, Remapped
<1> QED BY <1>1, <1>3 DEF Gives, b

\* One more node: an FSTSW after it names the compare it is, or the one before.
LEMMA Appended ==
    ASSUME NEW c, Built(c), NEW n, NodeFits(n, Len(c.nodes)), New(c, n, Len(c.nodes)),
           Len(c.nodes) < MaxNodes, NEW b, Same(c, b, {"nodes", "r", "fcmp"}),
           b.nodes = Append(c.nodes, n),
           (b.fcmp = c.fcmp /\ ~IsCompare(n)) \/ (b.fcmp = Len(c.nodes) /\ IsCompare(n))
    PROVE  Grown(c, b) /\ Len(b.nodes) = Len(c.nodes) + 1 /\ Nd(b, Len(c.nodes)) = n
<1> DEFINE m == Len(c.nodes)
<1>1. /\ DOMAIN b = CtxFields /\ b.ok = c.ok /\ b.td = c.td /\ b.slot = c.slot
      /\ b.read = c.read /\ b.zero = c.zero /\ b.one = c.one
      /\ b.narIn = c.narIn /\ b.narNode = c.narNode
      /\ b.cse = c.cse /\ b.consts = c.consts /\ b.consumed = c.consumed
  BY DEF Same, CtxFields
<1>2. m \in Nat /\ MaxNodes \in Nat BY LenBuilt, MaxNodesAssumption
<1>3. /\ Row(b.nodes) /\ Len(b.nodes) = m + 1
      /\ \A x \in 1..m : b.nodes[x] = c.nodes[x]
      /\ b.nodes[m + 1] = n
  BY RowAppend DEF Built, Whole, Nodes
<1>4. Agree(c, b) BY <1>2, <1>3 DEF Agree
<1>5. Nodes(b)
  <2>1. ASSUME NEW x \in 1..(m + 1) PROVE NodeFits(b.nodes[x], x - 1)
    <3>1. CASE x = m + 1 BY <1>2, <1>3, <3>1
    <3>2. CASE x # m + 1
      <4>1. x \in 1..m BY <3>2, <1>2
      <4> QED BY <1>3, <4>1 DEF Built, Whole, Nodes
    <3> QED BY <3>1, <3>2
  <2> QED BY <1>2, <1>3, <2>1 DEF Nodes
<1>6. Slots(b) BY <1>1, <1>2, <1>3 DEF Built, Whole, Slots, SlotVal
<1>7. Mapped(b) BY <1>1, <1>4, Agreed DEF Built, Mapped
<1>8. Nd(b, m) = n BY <1>2, <1>3 DEF Nd
<1>9. b.fcmp \in Int /\ Follows(b, m + 1, b.fcmp)
  <2>1. CASE b.fcmp = c.fcmp /\ ~IsCompare(n)
    <3>1. c.fcmp \in Int /\ Follows(c, m, c.fcmp) BY DEF Built, Tables
    <3>2. Follows(b, m, c.fcmp) BY <1>2, <1>4, <3>1, Agreed
    <3>3. c.fcmp \in 0..(m - 1) =>
            /\ c.fcmp \in 0..((m + 1) - 1)
            /\ \A l \in c.fcmp..((m + 1) - 1) : l \in c.fcmp..(m - 1) \/ (l = m /\ l # c.fcmp)
      BY <1>2
    <3> HIDE DEF m
    <3> QED BY <1>8, <2>1, <3>1, <3>2, <3>3 DEF Follows
  <2>2. CASE b.fcmp = m /\ IsCompare(n)
    <3>1. m \in 0..((m + 1) - 1) /\ \A l \in m..((m + 1) - 1) : l = m BY <1>2
    <3> QED BY <1>2, <1>8, <2>2, <3>1 DEF Follows
  <2> QED BY <2>1, <2>2
<1>10. Tables(b) BY <1>1, <1>3, <1>4, <1>9, TablesGrow
<1>11. Whole(b) BY <1>1, <1>5, <1>6 DEF Built, Whole
<1>12. \A x \in 1..Len(b.nodes) : x > Len(c.nodes) => New(b, b.nodes[x], x - 1)
  <2>1. New(b, n, m) BY <1>2, <1>4, Agreed DEF NodeFits
  <2>2. \A x \in 1..(m + 1) : x > m => x = m + 1 /\ x - 1 = m BY <1>2
  <2> QED BY <1>3, <2>1, <2>2
<1>13. Grown(c, b) BY <1>1, <1>4, <1>7, <1>10, <1>11, <1>12, Growing
<1> QED BY <1>3, <1>8, <1>13

\* A value in its width, when node n is the last call's.
Made(b, n) ==
    b.ok => /\ b.r \in Ids(b) /\ Nd(b, b.r) = n
            /\ Wide(n) => b.r \in Wides(b)
            /\ IsF32(n) => b.r \in Singles(b)
\* Context::add_node: the node appended, or the run given up at kMaxNodes.
LEMMA AddWhole ==
    ASSUME NEW c, Built(c), NEW n, ~IsCompare(n),
           c.ok => NodeFits(n, Len(c.nodes)) /\ New(c, n, Len(c.nodes))
    PROVE  /\ Grown(c, add_node(c, n)) /\ Made(add_node(c, n), n)
           /\ add_node(c, n).ok =>
                 \A f \in CtxFields \ {"nodes", "r"} : add_node(c, n)[f] = c[f]
<1>1. CASE ~c.ok \/ Len(c.nodes) >= MaxNodes
  BY <1>1, FailWhole DEF add_node, Gives, Made
<1>2. CASE c.ok /\ ~(Len(c.nodes) >= MaxNodes)
  <2> DEFINE b == [c EXCEPT !.nodes = Append(@, n), !.r = Len(c.nodes)]
             m == Len(c.nodes)
  <2>1. add_node(c, n) = b BY <1>2 DEF add_node
  <2>2. /\ DOMAIN b = CtxFields /\ b.r = m /\ b.nodes = Append(c.nodes, n)
        /\ \A f \in CtxFields \ {"nodes", "r"} : b[f] = c[f]
    BY DEF Built, Whole, CtxFields
  <2>3. Same(c, b, {"nodes", "r", "fcmp"}) /\ b.fcmp = c.fcmp
    BY <2>2 DEF Same, CtxFields
  <2>4. m \in Nat /\ m < MaxNodes BY <1>2, LenBuilt, MaxNodesAssumption
  <2> HIDE DEF b
  <2>5. Grown(c, b) /\ Len(b.nodes) = m + 1 /\ Nd(b, m) = n
    BY <1>2, <2>2, <2>3, <2>4, Appended
  <2>6. m \in Ids(b) BY <2>4, <2>5 DEF Ids
  <2>7. Made(b, n) BY <2>2, <2>5, <2>6 DEF Made, Wides, Singles
  <2> QED BY <2>1, <2>2, <2>5, <2>7
<1> QED BY <1>1, <1>2 DEF Built, Whole

\* Returning a node that exists.
LEMMA ReturnSame ==
    ASSUME NEW c, Built(c), NEW id
    PROVE  /\ Grown(c, Return(c, id)) /\ Return(c, id).nodes = c.nodes /\ Return(c, id).ok = c.ok
           /\ c.ok => Return(c, id).r = id
<1>1. CASE c.ok
  <2> DEFINE b == [c EXCEPT !.r = id]
  <2>1. Same(c, b, {"r"}) /\ b.r = id BY DEF Same, Built, Whole, CtxFields
  <2> HIDE DEF b
  <2>2. Same(c, b, {"slot", "r", "td", "ok"}) BY <2>1 DEF Same
  <2>3. /\ b.ok = c.ok /\ b.td = c.td /\ b.slot = c.slot /\ b.nodes = c.nodes
    BY <2>1 DEF Same, CtxFields
  <2>4. Slots(b) /\ Mapped(b) BY <2>3, SameNodes DEF Built, Whole, Slots, Mapped
  <2>5. Grown(c, b) BY <2>2, <2>3, <2>4, Remapped DEF Built, Whole
  <2> QED BY <1>1, <2>1, <2>3, <2>5 DEF Return, b
<1>2. CASE ~c.ok BY <1>2, GrownSelf DEF Return
<1> QED BY <1>1, <1>2
\* Returning a value.
LEMMA ReturnWhole ==
    ASSUME NEW c, Built(c), NEW id, c.ok => id \in Wides(c) PROVE Gives(c, Return(c, id))
BY ReturnSame, SameNodes DEF Gives

\* Writing a stack slot with a value.
LEMMA SlotWhole ==
    ASSUME NEW c, Built(c), NEW d \in Depth, NEW id, c.ok => id \in Wides(c)
    PROVE  Grown(c, set_slot(c, d, id))
<1>1. CASE c.ok
  <2> DEFINE b == [c EXCEPT !.slot[d] = id]
  <2>1. Same(c, b, {"slot"}) /\ b.slot = [c.slot EXCEPT ![d] = id]
    BY DEF Same, Built, Whole, CtxFields
  <2> HIDE DEF b
  <2>2. Same(c, b, {"slot", "r", "td", "ok"}) BY <2>1 DEF Same
  <2>3. b.ok = c.ok /\ b.td = c.td /\ b.nodes = c.nodes BY <2>1 DEF Same, CtxFields
  <2>4. id \in 0..(Len(c.nodes) - 1) /\ id \in Int BY <1>1, WidesInt
  <2>5. Slots(b) BY <2>1, <2>3, <2>4 DEF Built, Whole, Slots, SlotVal
  <2>6. Mapped(b)
    <3>1. c.slot \in [Depth -> Int] BY DEF Built, Whole, Slots
    <3> QED BY <1>1, <2>1, <2>3, <3>1, SameNodes DEF Built, Mapped
  <2>7. Grown(c, b) BY <2>2, <2>3, <2>5, <2>6, Remapped DEF Built, Whole
  <2> QED BY <1>1, <2>7 DEF set_slot, b
<1>2. CASE ~c.ok BY <1>2, GrownSelf DEF set_slot
<1> QED BY <1>1, <1>2

\* Context::push.
LEMMA PushWhole ==
    ASSUME NEW c, Built(c), NEW id, c.ok => id \in Wides(c) PROVE Grown(c, push(c, id))
<1>1. CASE c.ok
  <2> DEFINE m == [d \in Depth |-> IF d = 0 THEN id ELSE c.slot[d - 1]]
             b == [c EXCEPT !.td = @ - 1, !.slot = m]
  <2>1. Same(c, b, {"slot", "td"}) /\ b.slot = m /\ b.td = c.td - 1
    BY DEF Same, Built, Whole, CtxFields
  <2> HIDE DEF b
  <2>2. Same(c, b, {"slot", "r", "td", "ok"}) BY <2>1 DEF Same
  <2>3. b.ok = c.ok /\ b.nodes = c.nodes BY <2>1 DEF Same, CtxFields
  <2>4. id \in 0..(Len(c.nodes) - 1) /\ id \in Int BY <1>1, WidesInt
  <2>5. \A d \in Depth : d # 0 => d - 1 \in Depth BY NAssumption DEF Depth
  <2>6. Slots(b) BY <2>1, <2>3, <2>4, <2>5 DEF Built, Whole, Slots, SlotVal
  <2>7. Mapped(b) BY <1>1, <2>1, <2>3, <2>5, SameNodes DEF Built, Mapped
  <2>8. Grown(c, b) BY <2>1, <2>2, <2>3, <2>6, <2>7, Remapped DEF Built, Whole
  <2> QED BY <1>1, <2>8 DEF push, b
<1>2. CASE ~c.ok BY <1>2, GrownSelf DEF push
<1> QED BY <1>1, <1>2

\* Context::pop.
LEMMA PopWhole == ASSUME NEW c, Built(c) PROVE Grown(c, pop(c))
<1>1. CASE c.ok
  <2> DEFINE m == [d \in Depth |-> IF d = N - 1 THEN Popped ELSE c.slot[d + 1]]
             b == [c EXCEPT !.td = @ + 1, !.slot = m]
  <2>1. Same(c, b, {"slot", "td"}) /\ b.slot = m /\ b.td = c.td + 1
    BY DEF Same, Built, Whole, CtxFields
  <2> HIDE DEF b
  <2>2. Same(c, b, {"slot", "r", "td", "ok"}) BY <2>1 DEF Same
  <2>3. b.ok = c.ok /\ b.nodes = c.nodes BY <2>1 DEF Same, CtxFields
  <2>4. \A d \in Depth : d # N - 1 => d + 1 \in Depth BY NAssumption DEF Depth
  <2>5. Slots(b) BY <2>1, <2>3, <2>4 DEF Built, Whole, Slots, SlotVal, Popped
  <2>6. Mapped(b) BY <2>1, <2>3, <2>4, SameNodes DEF Built, Mapped, Popped
  <2>7. Grown(c, b) BY <2>1, <2>2, <2>3, <2>5, <2>6, Remapped DEF Built, Whole
  <2> QED BY <1>1, <2>7 DEF pop, b
<1>2. CASE ~c.ok BY <1>2, GrownSelf DEF pop
<1> QED BY <1>1, <1>2

\* A node as the builder makes it.
Fresh(n, op, a, b) ==
    /\ DOMAIN n = NodeFields /\ n.op = op /\ n.dead = FALSE /\ n.f32 = FALSE /\ n.fused = FALSE
    /\ n.in = <<a, b, NoNode>>
\* The fields of a node just built.
LEMMA NodeFresh ==
    ASSUME NEW op, NEW a, NEW b
    PROVE  /\ Fresh(Node(op, a, b), op, a, b)
           /\ \A x : Fresh([Node(op, a, b) EXCEPT !.d = x], op, a, b)
           /\ \A x : Fresh([Node(op, a, b) EXCEPT !.v = x], op, a, b)
           /\ \A x : Fresh([Node(op, a, b) EXCEPT !.m = x], op, a, b)
           /\ \A x, y : Fresh([Node(op, a, b) EXCEPT !.m = x, !.trunc = y], op, a, b)
           /\ \A x, y, z : Fresh([Node(op, a, b) EXCEPT !.m = x, !.k = y, !.v = z], op, a, b)
BY DEF Fresh, Node, NodeFields

\* A node built from values in the width it takes fits after them.
LEMMA FreshFits ==
    ASSUME NEW c, Built(c), NEW n, NEW op, NEW a, NEW b, Fresh(n, op, a, b),
           op \notin Ternary, op # "FStsw",
           IF op \in AtLeast1 THEN a \in Sources(c, op) ELSE a = NoNode,
           IF op \in AtLeast2 THEN b \in Sources(c, op) ELSE b = NoNode
    PROVE  NodeFits(n, Len(c.nodes)) /\ New(c, n, Len(c.nodes))
<1> DEFINE i == Len(c.nodes)
<1>1. i \in Nat BY LenBuilt
<1>2. \A x \in Sources(c, op) : x \in Int /\ x >= 0 /\ x < i
  <2>1. Sources(c, op) \in {Wides(c), Singles(c)} BY DEF Sources
  <2> QED BY <1>1, <2>1, WidesInt
<1>3. /\ a \in Int /\ a >= -1 /\ a < i /\ b \in Int /\ b >= -1 /\ b < i
      /\ (a >= 0 => a \in Sources(c, op)) /\ (b >= 0 => b \in Sources(c, op))
      /\ (op \in AtLeast1 => a >= 0) /\ (op \in AtLeast2 => b >= 0)
  BY <1>1, <1>2 DEF NoNode
<1>4. n.in \in [1..3 -> Int] /\ n.in[1] = a /\ n.in[2] = b /\ n.in[3] = -1
  BY <1>3 DEF Fresh, NoNode
<1>5. \A j \in 1..3 : j = 1 \/ j = 2 \/ j = 3 OBVIOUS
<1>6. \A j \in 1..3 : n.in[j] >= -1 /\ n.in[j] < i BY <1>1, <1>3, <1>4, <1>5
<1>7. \A j \in 1..3 : n.in[j] >= 0 => n.in[j] \in Sources(c, op) BY <1>3, <1>4, <1>5
<1> HIDE DEF i
<1>8. NodeFits(n, i) BY <1>3, <1>4, <1>6 DEF Fresh, NodeFits
<1>9. Exact(n) BY <1>4 DEF Exact, Fresh, NoNode
<1>10. New(c, n, i) BY <1>7, <1>9 DEF New, Fresh
<1> QED BY <1>8, <1>10 DEF i

\* A call that makes a node, and the value it returns.
Makes(c, b, op) ==
    /\ Grown(c, b) /\ (b.ok => b.r \in Ids(b))
    /\ op \in Doubles => (b.ok => b.r \in Wides(b))
    /\ op \in Narrows => (b.ok => b.r \in Singles(b))
\* Adding a node without inputs, with one or with two.
LEMMA AddFresh ==
    ASSUME NEW c, Built(c), NEW n, NEW op, NEW a, NEW b, Fresh(n, op, a, b),
           op \notin Ternary, op # "FStsw", op # "FCmp", op # "FTst",
           c.ok => IF op \in AtLeast1 THEN a \in Sources(c, op) ELSE a = NoNode,
           c.ok => IF op \in AtLeast2 THEN b \in Sources(c, op) ELSE b = NoNode
    PROVE  /\ Makes(c, add_node(c, n), op)
           /\ add_node(c, n).ok =>
                 \A f \in CtxFields \ {"nodes", "r"} : add_node(c, n)[f] = c[f]
<1>1. c.ok => NodeFits(n, Len(c.nodes)) /\ New(c, n, Len(c.nodes)) BY FreshFits
<1>2. ~IsCompare(n) BY DEF IsCompare, Fresh
<1>3. op \in Doubles => Wide(n) BY DEF Fresh, Wide
<1>4. op \in Narrows => IsF32(n) BY DEF Fresh, IsF32, Narrows
<1> DEFINE x == add_node(c, n)
<1>5. Grown(c, x) /\ Made(x, n) /\ (x.ok => \A f \in CtxFields \ {"nodes", "r"} : x[f] = c[f])
  BY <1>1, <1>2, AddWhole
<1> HIDE DEF x
<1>6. Makes(c, x, op) BY <1>3, <1>4, <1>5 DEF Makes, Made
<1> QED BY <1>5, <1>6 DEF x

\* The kinds of nodes the builder makes.
Sourceless == {"ReadSt", "ConstF64", "ConstZero", "ConstOne", "LoadF32Raw", "LoadF64", "LoadI32",
               "LoadI64", "StoreCW", "LoadCW"} \cup {GuestNode(op) : op \in GuestOps}
Unaries == {"CvtF32ToF64", "CvtF64ToF32", "FNeg", "FAbs", "FSqrt", "FRndInt", "StoreF64",
            "StoreF32Raw", "StoreI32", "StoreI64"}
Binaries == {"FAdd", "FSub", "FMul", "FDiv", "FCSel", "FComI"}
\* How many inputs they have.
LEMMA KindsApart ==
    /\ \A op \in Sourceless \cup Unaries \cup Binaries :
          op \notin Ternary /\ op # "FStsw" /\ op # "FCmp" /\ op # "FTst"
    /\ \A op \in Sourceless : op \notin AtLeast1 /\ op \notin AtLeast2
    /\ \A op \in Unaries : op \in AtLeast1 /\ op \notin AtLeast2
    /\ \A op \in Binaries : op \in AtLeast1 /\ op \in AtLeast2 /\ op \notin WideOps
<1>1. \A op \in GuestOps :
        GuestNode(op) \in {"GuestMovRR", "GuestMovRI", "GuestLea", "GuestExt", "GuestLoad",
                           "GuestStoreR", "GuestStoreI"}
  BY DEF GuestOps, GuestNode
<1>2. \A op \in Sourceless : op \in {"ReadSt", "ConstF64", "ConstZero", "ConstOne", "LoadF32Raw",
                                     "LoadF64", "LoadI32", "LoadI64", "StoreCW", "LoadCW",
                                     "GuestMovRR", "GuestMovRI", "GuestLea", "GuestExt",
                                     "GuestLoad", "GuestStoreR", "GuestStoreI"}
  BY <1>1 DEF Sourceless
<1>3. \A op \in Sourceless : op \notin Ternary /\ op # "FStsw" /\ op # "FCmp" /\ op # "FTst"
  BY <1>2 DEF Ternary
<1>4. \A op \in Sourceless : op \notin AtLeast1 /\ op \notin AtLeast2
  BY <1>2 DEF AtLeast1, AtLeast2, Ternary
<1>5. \A op \in Unaries \cup Binaries : op \notin Ternary /\ op # "FStsw" /\ op # "FCmp" /\ op # "FTst"
  BY DEF Unaries, Binaries, Ternary
<1>6. \A op \in Unaries : op \in AtLeast1 /\ op \notin AtLeast2
  BY DEF Unaries, AtLeast1, AtLeast2, Ternary
<1>7. \A op \in Binaries : op \in AtLeast1 /\ op \in AtLeast2 /\ op \notin WideOps
  BY DEF Binaries, AtLeast1, AtLeast2, Ternary, WideOps
<1> QED BY <1>3, <1>4, <1>5, <1>6, <1>7

\* Nodes without inputs.
LEMMA Add0 ==
    ASSUME NEW c, Built(c), NEW n, NEW op \in Sourceless, Fresh(n, op, NoNode, NoNode)
    PROVE  /\ Makes(c, add_node(c, n), op)
           /\ add_node(c, n).ok =>
                 \A f \in CtxFields \ {"nodes", "r"} : add_node(c, n)[f] = c[f]
<1>1. /\ op \notin Ternary /\ op # "FStsw" /\ op # "FCmp" /\ op # "FTst"
      /\ op \notin AtLeast1 /\ op \notin AtLeast2
  BY KindsApart
<1> QED BY <1>1, AddFresh
\* Nodes with one input.
LEMMA Add1 ==
    ASSUME NEW c, Built(c), NEW n, NEW op \in Unaries, NEW a, c.ok => a \in Sources(c, op),
           Fresh(n, op, a, NoNode)
    PROVE  Makes(c, add_node(c, n), op)
<1>1. /\ op \notin Ternary /\ op # "FStsw" /\ op # "FCmp" /\ op # "FTst"
      /\ op \in AtLeast1 /\ op \notin AtLeast2
  BY KindsApart
<1> QED BY <1>1, AddFresh
\* Nodes with two inputs.
LEMMA Add2 ==
    ASSUME NEW c, Built(c), NEW n, NEW op \in Binaries, NEW a, NEW b, c.ok => a \in Wides(c),
           c.ok => b \in Wides(c), Fresh(n, op, a, b)
    PROVE  Makes(c, add_node(c, n), op)
<1>1. /\ op \notin Ternary /\ op # "FStsw" /\ op # "FCmp" /\ op # "FTst"
      /\ op \in AtLeast1 /\ op \in AtLeast2 /\ op \notin WideOps
  BY KindsApart
<1>2. Sources(c, op) = Wides(c) BY <1>1 DEF Sources
<1> QED BY <1>1, <1>2, AddFresh
\* A call that makes a double gives it.
LEMMA MakesGives == ASSUME NEW c, NEW b, NEW op \in Doubles, Makes(c, b, op) PROVE Gives(c, b)
BY DEF Makes, Gives

\* Context::resolve: an initial depth becomes its READ_ST node.
LEMMA ResolveWhole ==
    ASSUME NEW c, Built(c), NEW d \in Depth PROVE Gives(c, resolve(c, d))
<1> DEFINE val == c.slot[d]
           f == -(val + 1)
           n == [Node("ReadSt", NoNode, NoNode) EXCEPT !.d = f]
           new == add_node(c, n)
<1>1. val \in Int /\ c.slot \in [Depth -> Int] BY DEF Built, Whole, Slots
<1>2. /\ Gives(c, new)
      /\ new.ok => \A x \in CtxFields \ {"nodes", "r"} : new[x] = c[x]
  <2>1. Fresh(n, "ReadSt", NoNode, NoNode) BY NodeFresh
  <2>2. "ReadSt" \in Sourceless /\ "ReadSt" \in Doubles
    BY DEF Sourceless, Doubles, Producers, Pure, Narrows
  <2> HIDE DEF n
  <2> QED BY <2>1, <2>2, Add0, MakesGives
<1>4. CASE ~c.ok BY <1>4, GrownSelf DEF Gives, resolve
<1>5. CASE c.ok /\ val >= 0
  <2>1. resolve(c, d) = Return(c, val) BY <1>5 DEF resolve
  <2>2. val \in Wides(c) BY <1>5 DEF Built, Mapped
  <2> QED BY <2>1, <2>2, ReturnWhole
<1>6. CASE c.ok /\ ~(val >= 0) /\ f \notin Depth BY <1>6, FailWhole DEF resolve
<1>7. CASE c.ok /\ ~(val >= 0) /\ f \in Depth /\ c.read[f] >= 0
  <2> DEFINE s == set_slot(c, d, c.read[f])
  <2>1. resolve(c, d) = [c EXCEPT !.slot[d] = c.read[f], !.r = c.read[f]] BY <1>7 DEF resolve
  <2>2. s = [c EXCEPT !.slot[d] = c.read[f]] BY <1>7 DEF set_slot
  <2>3. resolve(c, d) = Return(s, c.read[f]) /\ s.ok /\ s.nodes = c.nodes
    BY <1>7, <2>1, <2>2 DEF Return, Built, Whole, CtxFields
  <2>4. c.read[f] \in Wides(c) BY <1>7 DEF Built, Tables, Known
  <2>5. Grown(c, s) BY <2>4, SlotWhole
  <2>6. c.read[f] \in Wides(s) BY <2>3, <2>4, SameNodes
  <2> HIDE DEF s
  <2>7. Gives(s, Return(s, c.read[f])) BY <2>5, <2>6, ReturnWhole DEF Grown
  <2> QED BY <2>3, <2>5, <2>7, GrownTrans DEF Gives
<1>8. CASE c.ok /\ ~(val >= 0) /\ f \in Depth /\ ~(c.read[f] >= 0) /\ ~new.ok
  <2>1. resolve(c, d) = new BY <1>8 DEF resolve
  <2> QED BY <1>2, <2>1
<1>9. CASE c.ok /\ ~(val >= 0) /\ f \in Depth /\ ~(c.read[f] >= 0) /\ new.ok
  <2> DEFINE b == [new EXCEPT !.read[f] = new.r, !.slot[d] = new.r]
  <2>1. resolve(c, d) = b BY <1>9 DEF resolve
  <2> HIDE DEF new
  <2>2. Built(new) /\ Grown(c, new) /\ new.r \in Wides(new) BY <1>2, <1>9 DEF Gives, Grown
  <2>3. /\ Same(new, b, {"slot", "read"}) /\ b.slot = [new.slot EXCEPT ![d] = new.r]
        /\ b.read = [new.read EXCEPT ![f] = new.r]
    BY <2>2 DEF Same, Built, Whole, CtxFields
  <2> HIDE DEF b, f, val
  <2>4. /\ b.ok = new.ok /\ b.td = new.td /\ b.nodes = new.nodes /\ b.r = new.r
        /\ b.zero = new.zero /\ b.one = new.one /\ b.fcmp = new.fcmp /\ b.narIn = new.narIn
        /\ b.narNode = new.narNode /\ b.cse = new.cse /\ b.consts = new.consts
    BY <2>3 DEF Same, CtxFields
  <2>5. new.r \in 0..(Len(new.nodes) - 1) /\ new.r \in Int BY <2>2, WidesInt
  <2>6. Slots(b) BY <2>2, <2>3, <2>4, <2>5 DEF Built, Whole, Slots, SlotVal
  <2>7. /\ Ids(b) = Ids(new) /\ Wides(b) = Wides(new) /\ Singles(b) = Singles(new)
        /\ \A i, y : Follows(b, i, y) <=> Follows(new, i, y)
    BY <2>4, SameNodes
  <2>8. Mapped(b)
    <3>1. new.slot \in [Depth -> Int] BY <2>2 DEF Built, Whole, Slots
    <3> QED BY <2>2, <2>3, <2>7, <3>1 DEF Built, Mapped
  <2>9. Tables(b)
    <3>1. new.read \in [Depth -> Int] /\ \A x \in Depth : Known(new.read[x], Wides(new))
      BY <2>2 DEF Built, Tables
    <3>2. b.read \in [Depth -> Int] /\ \A x \in Depth : Known(b.read[x], Wides(new))
      BY <2>2, <2>3, <2>5, <3>1 DEF Known
    <3> QED BY <2>2, <2>4, <2>7, <3>2 DEF Built, Tables
  <2>10. Same(new, b, CtxFields \ {"nodes", "consumed"}) BY <2>3 DEF Same, CtxFields
  <2>11. Grown(new, b) BY <2>2, <2>4, <2>6, <2>8, <2>9, <2>10, Rebuilt DEF Built, Whole
  <2>12. Grown(c, b) BY <2>2, <2>11, GrownTrans
  <2> QED BY <2>1, <2>2, <2>4, <2>7, <2>12 DEF Gives
<1> QED BY <1>4, <1>5, <1>6, <1>7, <1>8, <1>9

(***************************************************************************)
(* The tables.                                                             *)
(***************************************************************************)
TableFields == {"cse", "csenext", "consts", "constnext", "zero", "one", "fcomi",
                "narIn", "narNode", "written"}
\* A call that returns what it was given and leaves the stack map alone.
Untouched(c, b) == Grown(c, b) /\ b.ok = c.ok /\ b.r = c.r /\ b.nodes = c.nodes

\* The tables that hold ids.
Remembers(c, b) ==
    /\ Known(b.zero, Wides(c)) /\ Known(b.one, Wides(c))
    /\ b.narIn \in Int /\ (b.narIn >= 0 => b.narNode \in Singles(c))
    /\ Entries(b.cse, Wides(c)) /\ Entries(b.consts, Wides(c))
\* They hold the ids of values.
LEMMA RememberedSelf == ASSUME NEW c, Built(c) PROVE Remembers(c, c)
BY DEF Built, Tables, Remembers
\* Writing a table with ids that exist.
LEMMA Retabled ==
    ASSUME NEW c, Built(c), NEW b, Same(c, b, TableFields), Remembers(c, b) PROVE Untouched(c, b)
<1>1. Same(c, b, CtxFields \ {"nodes", "consumed"}) BY DEF Same, CtxFields, TableFields
<1>2. /\ b.ok = c.ok /\ b.td = c.td /\ b.slot = c.slot /\ b.nodes = c.nodes /\ b.r = c.r
      /\ b.read = c.read /\ b.fcmp = c.fcmp
  BY DEF Same, CtxFields, TableFields
<1>3. Slots(b) /\ Mapped(b) BY <1>2, SameNodes DEF Slots, Mapped, Built, Whole
<1>4. /\ Wides(b) = Wides(c) /\ Singles(b) = Singles(c)
      /\ \A i, y : Follows(b, i, y) <=> Follows(c, i, y)
  BY <1>2, SameNodes
<1>5. Tables(b) BY <1>2, <1>4 DEF Built, Tables, Remembers
<1>6. Grown(c, b) BY <1>1, <1>2, <1>3, <1>5, Rebuilt DEF Built, Whole
<1> QED BY <1>2, <1>6 DEF Untouched

\* A value stays one.
LEMMA IdsGrow ==
    ASSUME NEW c, NEW b, Built(c), Grown(c, b)
    PROVE  Wides(c) \subseteq Wides(b) /\ Singles(c) \subseteq Singles(b)
BY GrownAgree, Agreed

\* A step, then one that returns a node.
LEMMA GivesTrans ==
    ASSUME NEW c, NEW b, NEW a, Built(c), Grown(c, b), Gives(b, a) PROVE Gives(c, a)
BY GrownTrans DEF Gives

\* A step that returns a node, then one that keeps it.
LEMMA GivesPass ==
    ASSUME NEW c, NEW b, NEW a, Built(c), Gives(c, b), Untouched(b, a) PROVE Gives(c, a)
BY GrownTrans, SameNodes DEF Gives, Untouched

\* A table while the entries that stay move to its front.
KeptWell(S, s) == DOMAIN s = {"kept", "m"} /\ Entries(s.kept, S)
AP == INSTANCE LoopProofs WITH Step <- keep_no_alias, Good <- KeptWell
RP == INSTANCE LoopProofs WITH Step <- keep_other_reg, Good <- KeptWell

\* The least of some natural numbers is one of them.
LEMMA MinIn == ASSUME NEW I, I \subseteq Nat, I # {} PROVE Min(I) \in I
<1>1. \E x \in I : \A y \in I : x <= y
  BY AP!LeastNatural
<1>2. Min(I) = CHOOSE x \in I : \A y \in I : x <= y BY DEF Min
<1> QED BY <1>1, <1>2

\* A table that overwrites its oldest entry keeps entries that exist.
LEMMA RotateFits ==
    ASSUME NEW t, NEW S, Entries(t, S), NEW y, y.id \in S, NEW nx, NEW cap
    PROVE  Entries(Rotate(t, nx, cap, y)[1], S)
<1>1. Row(t) /\ Len(t) \in Nat /\ DOMAIN t = 1..Len(t) BY RowFacts DEF Entries
<1>2. CASE Len(t) < cap
  <2> DEFINE u == Append(t, y)
  <2>1. /\ Row(u) /\ Len(u) = Len(t) + 1 /\ \A x \in 1..Len(t) : u[x] = t[x]
        /\ u[Len(t) + 1] = y
    BY <1>1, RowAppend
  <2> HIDE DEF u
  <2>2. ASSUME NEW x \in 1..Len(u) PROVE u[x].id \in S
    <3>1. CASE x = Len(t) + 1 BY <2>1, <3>1
    <3>2. CASE x # Len(t) + 1
      <4>1. x \in 1..Len(t) BY <1>1, <2>1, <3>2
      <4> QED BY <2>1, <4>1 DEF Entries
    <3> QED BY <3>1, <3>2
  <2> QED BY <1>2, <2>1, <2>2 DEF Rotate, Entries, u
<1>3. CASE ~(Len(t) < cap)
  <2> DEFINE u == [t EXCEPT ![nx + 1] = y]
  <2>1. Row(u) /\ Len(u) = Len(t) BY <1>1, RowExcept
  <2>2. \A x \in 1..Len(t) : u[x] = IF x = nx + 1 THEN y ELSE t[x] BY <1>1
  <2> HIDE DEF u
  <2>3. \A x \in 1..Len(u) : u[x].id \in S BY <2>1, <2>2 DEF Entries
  <2> QED BY <1>3, <2>1, <2>3 DEF Rotate, Entries, u
<1> QED BY <1>2, <1>3

\* Remembering a load.
LEMMA InsertWhole ==
    ASSUME NEW c, Built(c), NEW m, NEW kind, NEW id, c.ok => id \in Wides(c)
    PROVE  Untouched(c, mem_cse_insert(c, m, kind, id))
<1>1. CASE ~c.ok BY <1>1, GrownSelf DEF Untouched, mem_cse_insert
<1>2. CASE c.ok
  <2> DEFINE y == [m |-> m, kind |-> kind, id |-> id]
             t == Rotate(c.cse, c.csenext, CseSlots, y)
             b == [c EXCEPT !.cse = t[1], !.csenext = t[2]]
  <2>1. mem_cse_insert(c, m, kind, id) = b BY <1>2 DEF mem_cse_insert
  <2>2. y.id \in Wides(c) BY <1>2
  <2> HIDE DEF y
  <2>3. Entries(t[1], Wides(c)) BY <2>2, RotateFits DEF Built, Tables
  <2> HIDE DEF t
  <2>4. Same(c, b, {"cse", "csenext"}) /\ b.cse = t[1] BY DEF Same, Built, Whole, CtxFields
  <2> HIDE DEF b
  <2>5. Same(c, b, TableFields) BY <2>4 DEF Same, TableFields
  <2>6. /\ b.zero = c.zero /\ b.one = c.one
        /\ b.narIn = c.narIn /\ b.narNode = c.narNode /\ b.consts = c.consts
    BY <2>4 DEF Same, CtxFields
  <2>7. Remembers(c, b) BY <2>3, <2>4, <2>6, RememberedSelf DEF Remembers
  <2> QED BY <2>1, <2>5, <2>7, Retabled
<1> QED BY <1>1, <1>2

\* Keeping an entry of a load table.
LEMMA KeptAppend ==
    ASSUME NEW S, NEW s, KeptWell(S, s), NEW y, y.id \in S
    PROVE  KeptWell(S, [s EXCEPT !.kept = Append(@, y)])
<1> DEFINE t == s.kept
           u == Append(t, y)
           b == [s EXCEPT !.kept = Append(@, y)]
<1>1. DOMAIN b = {"kept", "m"} /\ b.kept = u BY DEF KeptWell
<1>2. Entries(t, S) BY DEF KeptWell
<1> HIDE DEF t
<1>3. Row(t) /\ Len(t) \in Nat BY <1>2, RowFacts DEF Entries
<1>4. /\ Row(u) /\ Len(u) = Len(t) + 1 /\ \A x \in 1..Len(t) : u[x] = t[x]
      /\ u[Len(t) + 1] = y
  BY <1>3, RowAppend
<1> HIDE DEF u, b
<1>5. ASSUME NEW x \in 1..Len(u) PROVE u[x].id \in S
  <2>1. CASE x = Len(t) + 1 BY <1>4, <2>1
  <2>2. CASE x # Len(t) + 1
    <3>1. x \in 1..Len(t) BY <1>3, <1>4, <2>2
    <3> QED BY <1>2, <1>4, <3>1 DEF Entries
  <2> QED BY <2>1, <2>2
<1>6. KeptWell(S, b) BY <1>1, <1>4, <1>5 DEF KeptWell, Entries
<1> QED BY <1>6 DEF b

\* A load table with fewer entries.
LEMMA KeptWhole ==
    ASSUME NEW c, Built(c), NEW t, Entries(t.kept, Wides(c)) PROVE Untouched(c, Kept(c, t))
<1>1. CASE ~c.ok BY <1>1, GrownSelf DEF Untouched, Kept
<1>2. CASE c.ok
  <2> DEFINE b == [c EXCEPT !.cse = t.kept, !.csenext = 0]
  <2>1. Kept(c, t) = b BY <1>2 DEF Kept
  <2>4. Same(c, b, {"cse", "csenext"}) /\ b.cse = t.kept BY DEF Same, Built, Whole, CtxFields
  <2> HIDE DEF b
  <2>5. Same(c, b, TableFields) BY <2>4 DEF Same, TableFields
  <2>6. /\ b.zero = c.zero /\ b.one = c.one
        /\ b.narIn = c.narIn /\ b.narNode = c.narNode /\ b.consts = c.consts
    BY <2>4 DEF Same, CtxFields
  <2>7. Remembers(c, b) BY <2>4, <2>6, RememberedSelf DEF Remembers
  <2> QED BY <2>1, <2>5, <2>7, Retabled
<1> QED BY <1>1, <1>2

\* Eviction by a store or by a write of a register.
LEMMA EvictWhole ==
    ASSUME NEW c, Built(c), NEW m
    PROVE  Untouched(c, mem_cse_evict_may_alias(c, m)) /\ Untouched(c, mem_cse_evict_reg(c, m))
<1> DEFINE S == Wides(c)
           q == c.cse
           s == [kept |-> << >>, m |-> m]
<1>1. Entries(q, S) /\ Len(q) \in Nat
  BY RowFacts DEF Built, Tables, Entries
<1>2. KeptWell(S, s)
  <2>1. Entries(<< >>, S) BY RowEmpty DEF Entries
  <2> QED BY <2>1 DEF KeptWell
<1> HIDE DEF S, q, s
<1>3. \A k \in 1..Len(q) : q[k].id \in S BY <1>1 DEF Entries
<1>4. KeptWell(S, AP!Over(s, q))
  <2>1. ASSUME NEW x, NEW k \in 1..Len(q), KeptWell(S, x)
        PROVE  KeptWell(S, keep_no_alias(x, q[k]))
    BY <1>1, <1>3, <2>1, KeptAppend DEF keep_no_alias
  <2> QED BY <1>1, <1>2, <2>1, AP!LoopKeeps
<1>5. KeptWell(S, RP!Over(s, q))
  <2>1. ASSUME NEW x, NEW k \in 1..Len(q), KeptWell(S, x)
        PROVE  KeptWell(S, keep_other_reg(x, q[k]))
    BY <1>1, <1>3, <2>1, KeptAppend DEF keep_other_reg
  <2> QED BY <1>1, <1>2, <2>1, RP!LoopKeeps
<1>6. AP!Over(s, q) = AliasScan!Over(s, q)
  BY DEF AP!Over, AliasScan!Over, AP!Turns, AliasScan!Turns
<1>7. RP!Over(s, q) = RegScan!Over(s, q) BY DEF RP!Over, RegScan!Over, RP!Turns, RegScan!Turns
<1>8. /\ Untouched(c, Kept(c, AliasScan!Over(s, q))) /\ Untouched(c, Kept(c, RegScan!Over(s, q)))
  BY <1>4, <1>5, <1>6, <1>7, KeptWhole DEF KeptWell, S
<1> QED BY <1>8 DEF mem_cse_evict_may_alias, mem_cse_evict_reg, s, q

\* A hit is a place in the table.
LEMMA HitIn ==
    ASSUME NEW t, Row(t), NEW I, I \subseteq 1..Len(t), I # {} PROVE Min(I) \in 1..Len(t)
<1>1. Len(t) \in Nat BY RowFacts
<1>2. I \subseteq Nat BY <1>1
<1> QED BY <1>2, MinIn

\* A constant node, remembered or new.
LEMMA BuildConstWhole == ASSUME NEW c, Built(c), NEW v PROVE Gives(c, build_const(c, v))
<1> DEFINE hit == SelectInSeq(c.consts, LAMBDA y : y.v = v)
           nd == [Node("ConstF64", NoNode, NoNode) EXCEPT !.v = v]
           new == add_node(c, nd)
           y == [v |-> v, id |-> new.r]
           t == Rotate(c.consts, c.constnext, ConstSlots, y)
<1>1. hit # 0 => c.consts[hit].id \in Wides(c)
  <2>1. Row(c.consts) BY DEF Built, Tables, Entries
  <2> DEFINE I == {i \in 1..Len(c.consts) : c.consts[i].v = v}
  <2>3. hit = IF I # {} THEN Min(I) ELSE 0 BY DEF SelectInSeq
  <2>4. I \subseteq 1..Len(c.consts) OBVIOUS
  <2> HIDE DEF I
  <2>2. hit # 0 => hit \in 1..Len(c.consts) BY <2>1, <2>3, <2>4, HitIn
  <2> HIDE DEF hit
  <2> QED BY <2>2 DEF Built, Tables, Entries
<1>2. /\ Gives(c, new)
      /\ new.ok => \A f \in CtxFields \ {"nodes", "r"} : new[f] = c[f]
  <2>1. Fresh(nd, "ConstF64", NoNode, NoNode) BY NodeFresh
  <2>2. "ConstF64" \in Sourceless /\ "ConstF64" \in Doubles
    BY DEF Sourceless, Doubles, Producers, Pure, Narrows
  <2> HIDE DEF nd
  <2> QED BY <2>1, <2>2, Add0, MakesGives
<1>3. build_const(c, v) = IF hit # 0 THEN Return(c, c.consts[hit].id)
                          ELSE IF ~new.ok THEN new
                          ELSE [new EXCEPT !.consts = t[1], !.constnext = t[2]]
  BY DEF build_const
<1> HIDE DEF hit, nd, new
<1>4. CASE hit # 0 BY <1>1, <1>3, <1>4, ReturnWhole
<1>5. CASE hit = 0 /\ ~new.ok BY <1>2, <1>3, <1>5
<1>6. CASE hit = 0 /\ new.ok
  <2> DEFINE b == [new EXCEPT !.consts = t[1], !.constnext = t[2]]
  <2>1. Built(new) /\ new.consts = c.consts /\ new.r \in Wides(new)
    BY <1>2, <1>6 DEF Gives, Grown, CtxFields
  <2>2. y.id \in Wides(new) BY <2>1
  <2> HIDE DEF y
  <2>3. Entries(t[1], Wides(new)) BY <2>1, <2>2, RotateFits DEF Built, Tables
  <2> HIDE DEF t
  <2>4. Same(new, b, {"consts", "constnext"}) /\ b.consts = t[1]
    BY <2>1 DEF Same, Built, Whole, CtxFields
  <2> HIDE DEF b
  <2>5. Same(new, b, TableFields) BY <2>4 DEF Same, TableFields
  <2>6. /\ b.zero = new.zero /\ b.one = new.one
        /\ b.narIn = new.narIn /\ b.narNode = new.narNode /\ b.cse = new.cse
    BY <2>4 DEF Same, CtxFields
  <2>7. Remembers(new, b) BY <2>1, <2>3, <2>4, <2>6, RememberedSelf DEF Remembers
  <2>8. Untouched(new, b) BY <2>1, <2>5, <2>7, Retabled
  <2>9. Gives(c, b) BY <1>2, <2>8, GivesPass
  <2> QED BY <1>3, <1>6, <2>9 DEF b
<1> QED BY <1>4, <1>5, <1>6

\* A node id remembered in one of the context's fields.
LEMMA Remembered ==
    ASSUME NEW c, Built(c), NEW x
    PROVE  /\ Known(x, Wides(c)) => /\ Untouched(c, [c EXCEPT !.zero = x])
                                    /\ Untouched(c, [c EXCEPT !.one = x])
           /\ Untouched(c, [c EXCEPT !.fcomi = x])
<1>1. ASSUME NEW b, Same(c, b, {"zero", "one", "fcomi"}),
             Known(b.zero, Wides(c)), Known(b.one, Wides(c))
      PROVE  Untouched(c, b)
  <2>1. Same(c, b, TableFields) BY <1>1 DEF Same, TableFields
  <2>2. b.narIn = c.narIn /\ b.narNode = c.narNode /\ b.cse = c.cse /\ b.consts = c.consts
    BY <1>1 DEF Same, CtxFields
  <2>3. Remembers(c, b) BY <1>1, <2>2, RememberedSelf DEF Remembers
  <2> QED BY <2>1, <2>3, Retabled
<1>2. Known(c.zero, Wides(c)) /\ Known(c.one, Wides(c)) BY DEF Built, Tables
<1>4. Known(x, Wides(c)) => Untouched(c, [c EXCEPT !.zero = x])
  <2> DEFINE b == [c EXCEPT !.zero = x]
  <2>1. Same(c, b, {"zero", "one", "fcomi"}) /\ b.zero = x /\ b.one = c.one
    BY DEF Same, Built, Whole, CtxFields
  <2> HIDE DEF b
  <2>2. Known(x, Wides(c)) => Untouched(c, b) BY <1>1, <1>2, <2>1
  <2> QED BY <2>2 DEF b
<1>5. Known(x, Wides(c)) => Untouched(c, [c EXCEPT !.one = x])
  <2> DEFINE b == [c EXCEPT !.one = x]
  <2>1. Same(c, b, {"zero", "one", "fcomi"}) /\ b.zero = c.zero /\ b.one = x
    BY DEF Same, Built, Whole, CtxFields
  <2> HIDE DEF b
  <2>2. Known(x, Wides(c)) => Untouched(c, b) BY <1>1, <1>2, <2>1
  <2> QED BY <2>2 DEF b
<1>7. Untouched(c, [c EXCEPT !.fcomi = x])
  <2> DEFINE b == [c EXCEPT !.fcomi = x]
  <2>1. Same(c, b, {"zero", "one", "fcomi"}) /\ b.zero = c.zero /\ b.one = c.one
    BY DEF Same, Built, Whole, CtxFields
  <2> HIDE DEF b
  <2>2. Untouched(c, b) BY <1>1, <1>2, <2>1
  <2> QED BY <2>2 DEF b
<1> QED BY <1>4, <1>5, <1>7

\* What add_node returned can be remembered.
LEMMA GivenKnown ==
    ASSUME NEW c, NEW n, Built(c), Gives(c, add_node(c, n))
    PROVE  Known(add_node(c, n).r, Wides(add_node(c, n)))
<1> DEFINE b == add_node(c, n)
<1>1. ~b.ok => b.r = NoNode
  <2>1. CASE ~c.ok \/ Len(c.nodes) >= MaxNodes
    <3>1. b = [c EXCEPT !.ok = FALSE, !.r = NoNode] BY <2>1 DEF add_node, Fail
    <3> QED BY <3>1 DEF Built, Whole, CtxFields
  <2>2. CASE ~(~c.ok \/ Len(c.nodes) >= MaxNodes)
    <3>1. b.ok = c.ok BY <2>2 DEF add_node, Built, Whole, CtxFields
    <3> QED BY <2>2, <3>1
  <2> QED BY <2>1, <2>2
<1> HIDE DEF b
<1>2. Built(b) /\ (b.ok => b.r \in Wides(b)) BY DEF b, Gives, Grown
<1>4. Known(b.r, Wides(b)) BY <1>1, <1>2, WidesInt DEF Known, NoNode
<1> QED BY <1>4 DEF b

\* Promoting a constant the run stored before.
LEMMA ConstWhole == ASSUME NEW c, Built(c), NEW v PROVE Gives(c, const_node_for_bits(c, v))
<1> DEFINE z == add_node(c, Node("ConstZero", NoNode, NoNode))
           o == add_node(c, Node("ConstOne", NoNode, NoNode))
<1>1. Gives(c, z)
  <2>1. "ConstZero" \in Sourceless /\ "ConstZero" \in Doubles
    BY DEF Sourceless, Doubles, Producers, Pure, Narrows
  <2> QED BY <2>1, NodeFresh, Add0, MakesGives
<1>2. Gives(c, o)
  <2>1. "ConstOne" \in Sourceless /\ "ConstOne" \in Doubles
    BY DEF Sourceless, Doubles, Producers, Pure, Narrows
  <2> QED BY <2>1, NodeFresh, Add0, MakesGives
<1>3. Known(z.r, Wides(z)) BY <1>1, GivenKnown
<1>4. Known(o.r, Wides(o)) BY <1>2, GivenKnown
<1>5. /\ c.zero >= 0 => c.zero \in Wides(c)
      /\ c.one >= 0 => c.one \in Wides(c)
  BY DEF Built, Tables, Known
<1>6. const_node_for_bits(c, v) =
        IF v = Zero THEN IF c.zero >= 0 THEN Return(c, c.zero) ELSE [z EXCEPT !.zero = z.r]
        ELSE IF v = One THEN IF c.one >= 0 THEN Return(c, c.one) ELSE [o EXCEPT !.one = o.r]
        ELSE build_const(c, v)
  BY DEF const_node_for_bits
<1> HIDE DEF z, o
<1>7. Gives(c, [z EXCEPT !.zero = z.r])
  <2>1. Built(z) BY <1>1 DEF Gives, Grown
  <2>2. Untouched(z, [z EXCEPT !.zero = z.r]) BY <1>3, <2>1, Remembered
  <2> QED BY <1>1, <2>2, GivesPass
<1>8. Gives(c, [o EXCEPT !.one = o.r])
  <2>1. Built(o) BY <1>2 DEF Gives, Grown
  <2>2. Untouched(o, [o EXCEPT !.one = o.r]) BY <1>4, <2>1, Remembered
  <2> QED BY <1>2, <2>2, GivesPass
<1> QED BY <1>5, <1>6, <1>7, <1>8, ReturnWhole, BuildConstWhole

LoadOps == {"LoadF32Raw", "LoadF64", "LoadI32", "LoadI64"}

\* Returning a node keeps the context whole.
LEMMA GivesWhole == ASSUME NEW c, NEW b, Gives(c, b) PROVE Built(b) /\ (b.ok => b.r \in Wides(b))
BY DEF Gives, Grown

\* A load: remembered, promoted or new.
LEMMA LoadWhole ==
    ASSUME NEW c, Built(c), NEW m, NEW op \in LoadOps PROVE Gives(c, Load(c, m, op))
<1> DEFINE hit == mem_cse_lookup(c, m, op)
           nd == [Node(op, NoNode, NoNode) EXCEPT !.m = m]
           ld == add_node(c, nd)
           cv == add_node(ld, Node("CvtF32ToF64", ld.r, NoNode))
           id == IF op = "LoadF32Raw" THEN cv ELSE ld
<1>1. hit # 0 => c.cse[hit].id \in Wides(c)
  <2>1. Row(c.cse) BY DEF Built, Tables, Entries
  <2> DEFINE I == {i \in 1..Len(c.cse) : c.cse[i].kind = op /\ c.cse[i].m = m}
  <2>2. hit = IF I # {} THEN Min(I) ELSE 0 BY DEF SelectInSeq, mem_cse_lookup
  <2>3. I \subseteq 1..Len(c.cse) OBVIOUS
  <2> HIDE DEF I, hit
  <2>4. hit # 0 => hit \in 1..Len(c.cse) BY <2>1, <2>2, <2>3, HitIn
  <2> QED BY <2>4 DEF Built, Tables, Entries
<1>2. Makes(c, ld, op)
  <2>1. Fresh(nd, op, NoNode, NoNode) BY NodeFresh
  <2>2. op \in Sourceless BY DEF Sourceless, LoadOps
  <2> HIDE DEF nd
  <2> QED BY <2>1, <2>2, Add0
<1>3. Load(c, m, op) = IF hit # 0 THEN Return(c, c.cse[hit].id)
                       ELSE mem_cse_insert(id, m, op, id.r)
  BY DEF Load
<1> HIDE DEF hit, nd, ld
<1>4. Built(ld) /\ Grown(c, ld) BY <1>2 DEF Makes, Grown
<1>5. op = "LoadF32Raw" => Gives(ld, cv)
  <2>1. "CvtF32ToF64" \in Unaries /\ "CvtF32ToF64" \in Doubles /\ "CvtF32ToF64" \in WideOps
    BY DEF Unaries, Doubles, Producers, Pure, Narrows, WideOps
  <2>2. Sources(ld, "CvtF32ToF64") = Singles(ld) BY <2>1 DEF Sources
  <2>3. op = "LoadF32Raw" => (ld.ok => ld.r \in Singles(ld)) BY <1>2 DEF Makes, Narrows
  <2> QED BY <1>4, <2>1, <2>2, <2>3, NodeFresh, Add1, MakesGives
<1>6. Gives(c, id)
  <2>1. op # "LoadF32Raw" => op \in Doubles
    BY DEF LoadOps, Doubles, Producers, FpLoads, IntLoads, Narrows
  <2>2. op # "LoadF32Raw" => Gives(c, ld) BY <1>2, <2>1, MakesGives
  <2>3. op = "LoadF32Raw" => Gives(c, cv) BY <1>4, <1>5, GivesTrans
  <2> QED BY <2>2, <2>3
<1> HIDE DEF id
<1>7. Built(id) /\ (id.ok => id.r \in Wides(id)) BY <1>6, GivesWhole
<1>8. Gives(c, mem_cse_insert(id, m, op, id.r))
  <2>1. Untouched(id, mem_cse_insert(id, m, op, id.r)) BY <1>7, InsertWhole
  <2> QED BY <1>6, <2>1, GivesPass
<1> QED BY <1>1, <1>3, <1>8, ReturnWhole

\* The loads of every width.
LEMMA LoadsWhole ==
    ASSUME NEW c, Built(c), NEW m, NEW g
    PROVE  Gives(c, build_int_load(c, m)) /\ Gives(c, build_fp_load(c, g, m))
<1>1. Gives(c, Load(c, m, IF m.w = 1 THEN "LoadI32" ELSE "LoadI64"))
  BY LoadWhole DEF LoadOps
<1>2. Gives(c, Load(c, m, IF m.w = 1 THEN "LoadF32Raw" ELSE "LoadF64"))
  BY LoadWhole DEF LoadOps
<1>3. Gives(c, const_node_for_bits(c, FpAt(g, m))) BY ConstWhole
<1> QED BY <1>1, <1>2, <1>3 DEF build_int_load, build_fp_load

\* The inputs of a node are ids.
LEMMA InputIn ==
    ASSUME NEW c, Whole(c), NEW id \in Ids(c)
    PROVE  /\ NodeFits(Nd(c, id), id)
           /\ Nd(c, id).op \in AtLeast1 => Nd(c, id).in[1] \in Ids(c)
           /\ Nd(c, id).op \in AtLeast2 => Nd(c, id).in[2] \in Ids(c)
<1>1. Len(c.nodes) \in Nat /\ id \in 0..(Len(c.nodes) - 1) BY LenNat DEF Whole, Ids
<1>2. id + 1 \in 1..Len(c.nodes) /\ (id + 1) - 1 = id BY <1>1
<1>3. NodeFits(Nd(c, id), id) BY <1>2 DEF Whole, Nodes, Nd
<1> DEFINE n == Nd(c, id)
<1>4. "FStsw" \notin AtLeast1 /\ AtLeast2 \subseteq AtLeast1 BY DEF AtLeast1, AtLeast2, Ternary
<1> HIDE DEF n
<1>5. n.op \in AtLeast1 => /\ n.in[1] \in Int /\ n.in[2] \in Int /\ n.in[1] >= 0
                           /\ n.in[1] < id /\ n.in[2] < id
  BY <1>3, <1>4 DEF NodeFits, n
<1>6. n.op \in AtLeast2 => n.in[2] >= 0 BY <1>3 DEF NodeFits, n
<1>7. /\ n.op \in AtLeast1 => n.in[1] \in Ids(c)
      /\ n.op \in AtLeast2 => n.in[2] \in Ids(c)
  BY <1>1, <1>4, <1>5, <1>6 DEF Ids
<1> QED BY <1>3, <1>7 DEF n

\* The input of a node just built, in its width.
LEMMA InputNew ==
    ASSUME NEW c, Built(c), NEW id \in Ids(c), Nd(c, id).op \in AtLeast1
    PROVE  Nd(c, id).in[1] \in Sources(c, Nd(c, id).op)
<1>1. Len(c.nodes) \in Nat /\ id \in 0..(Len(c.nodes) - 1) BY LenBuilt DEF Ids
<1>2. id + 1 \in 1..Len(c.nodes) /\ (id + 1) - 1 = id BY <1>1
<1>3. New(c, Nd(c, id), id) BY <1>2 DEF Built, News, Nd
<1>4. NodeFits(Nd(c, id), id) BY InputIn DEF Built
<1>5. "FStsw" \notin AtLeast1 BY DEF AtLeast1, AtLeast2, Ternary
<1> QED BY <1>3, <1>4, <1>5 DEF New, NodeFits

\* The narrowing of a value, remembered or new.
LEMMA NarrowedWhole ==
    ASSUME NEW c, Built(c), NEW x \in Int, NEW y, y \in Singles(c)
    PROVE  Untouched(c, [c EXCEPT !.narIn = x, !.narNode = y])
<1> DEFINE b == [c EXCEPT !.narIn = x, !.narNode = y]
<1>1. Same(c, b, {"narIn", "narNode"}) /\ b.narIn = x /\ b.narNode = y
  BY DEF Same, Built, Whole, CtxFields
<1> HIDE DEF b
<1>2. Same(c, b, TableFields) BY <1>1 DEF Same, TableFields
<1>3. b.zero = c.zero /\ b.one = c.one /\ b.cse = c.cse /\ b.consts = c.consts
  BY <1>1 DEF Same, CtxFields
<1>4. Remembers(c, b) BY <1>1, <1>3, RememberedSelf DEF Remembers
<1>5. Untouched(c, b) BY <1>2, <1>4, Retabled
<1> QED BY <1>5 DEF b

\* A floating-point store.
LEMMA FpStoreWhole ==
    ASSUME NEW c, Built(c), c.ok, NEW m, m.w \in {1, 2}, NEW val \in Wides(c)
    PROVE  Grown(c, build_fp_store(c, m, val))
<1> DEFINE wide == Nd(c, val).op = "CvtF32ToF64"
           cvt == add_node(c, Node("CvtF64ToF32", val, NoNode))
           mem == [cvt EXCEPT !.narIn = val, !.narNode = cvt.r]
           nar == IF m.w = 2 THEN Return(c, val)
                  ELSE IF wide THEN Return(c, Nd(c, val).in[1])
                  ELSE IF c.narIn = val THEN Return(c, c.narNode)
                  ELSE IF ~cvt.ok THEN cvt
                  ELSE mem
           op == IF m.w = 1 THEN "StoreF32Raw" ELSE "StoreF64"
           nd == [Node(op, nar.r, NoNode) EXCEPT !.m = m]
           st == add_node(nar, nd)
           ev == mem_cse_evict_may_alias(st, m)
           fwd == add_node(ev, Node("CvtF32ToF64", nar.r, NoNode))
<1>1. build_fp_store(c, m, val) =
        IF ~st.ok THEN st
        ELSE IF m.w = 2 THEN mem_cse_insert(ev, m, "LoadF64", val)
        ELSE IF wide THEN mem_cse_insert(ev, m, "LoadF32Raw", val)
        ELSE IF fwd.ok THEN mem_cse_insert(fwd, m, "LoadF32Raw", fwd.r)
        ELSE ev
  BY DEF build_fp_store
<1>2. val \in Int /\ val >= 0 /\ val \in Ids(c) BY WidesInt
<1>3. Grown(c, cvt) /\ (cvt.ok => cvt.r \in Singles(cvt))
  <2>1. "CvtF64ToF32" \in Unaries /\ "CvtF64ToF32" \in Narrows /\ "CvtF64ToF32" \notin WideOps
    BY DEF Unaries, Narrows, WideOps
  <2>2. Sources(c, "CvtF64ToF32") = Wides(c) BY <2>1 DEF Sources
  <2>3. Makes(c, cvt, "CvtF64ToF32") BY <2>1, <2>2, NodeFresh, Add1
  <2> QED BY <2>1, <2>3 DEF Makes
<1>4. cvt.ok => Grown(c, mem) /\ (mem.ok => mem.r \in Singles(mem))
  <2> HIDE DEF cvt
  <2>1. Built(cvt) BY <1>3 DEF Grown
  <2>2. cvt.ok => Untouched(cvt, mem) BY <1>2, <1>3, <2>1, NarrowedWhole
  <2> HIDE DEF mem
  <2> QED BY <1>3, <2>2, GrownTrans, SameNodes DEF Untouched
<1>5. wide => Nd(c, val).in[1] \in Singles(c)
  <2>1. "CvtF32ToF64" \in AtLeast1 /\ "CvtF32ToF64" \in WideOps BY DEF AtLeast1, WideOps
  <2> QED BY <1>2, <2>1, InputNew DEF Sources
<1>6. c.narIn = val => c.narNode \in Singles(c) BY <1>2 DEF Built, Tables
<1> HIDE DEF cvt, mem, wide
<1>7. Grown(c, nar) /\ (nar.ok => IF m.w = 2 THEN nar.r \in Wides(nar) ELSE nar.r \in Singles(nar))
  <2>1. ASSUME NEW x PROVE /\ Grown(c, Return(c, x)) /\ Return(c, x).r = x
                           /\ Wides(Return(c, x)) = Wides(c) /\ Singles(Return(c, x)) = Singles(c)
    BY ReturnSame, SameNodes
  <2> QED BY <1>3, <1>4, <1>5, <1>6, <2>1
<1>8. Built(nar) BY <1>7 DEF Grown
<1> HIDE DEF nar
<1>9. Grown(nar, st)
  <2>1. Fresh(nd, op, nar.r, NoNode) BY NodeFresh
  <2>2. op \in Unaries BY DEF Unaries
  <2>3. nar.ok => nar.r \in Sources(nar, op) BY <1>7 DEF Sources, WideOps
  <2> HIDE DEF nd, op
  <2> QED BY <1>8, <2>1, <2>2, <2>3, Add1 DEF Makes
<1> HIDE DEF st
<1>10. Built(st) BY <1>9 DEF Grown
<1>11. Untouched(st, ev) BY <1>10, EvictWhole
<1> HIDE DEF ev
<1>12. Built(ev) /\ ev.ok = st.ok BY <1>11 DEF Untouched, Grown
<1>13. Grown(c, st) BY <1>7, <1>9, GrownTrans
<1>14. Grown(c, ev) BY <1>11, <1>13, GrownTrans DEF Untouched
<1>15. val \in Wides(ev) BY <1>14, IdsGrow
<1>16. m.w # 2 /\ ev.ok => nar.r \in Singles(ev)
  <2>1. Grown(nar, ev) BY <1>8, <1>9, <1>11, GrownTrans DEF Untouched
  <2>2. ev.ok => nar.ok BY <2>1 DEF Grown
  <2> QED BY <1>7, <1>8, <2>1, <2>2, IdsGrow
<1>17. m.w # 2 => Gives(ev, fwd)
  <2>1. "CvtF32ToF64" \in Unaries /\ "CvtF32ToF64" \in Doubles /\ "CvtF32ToF64" \in WideOps
    BY DEF Unaries, Doubles, Producers, Pure, Narrows, WideOps
  <2>2. Sources(ev, "CvtF32ToF64") = Singles(ev) BY <2>1 DEF Sources
  <2> QED BY <1>12, <1>16, <2>1, <2>2, NodeFresh, Add1, MakesGives
<1> HIDE DEF fwd
<1>20. \A k : Grown(c, mem_cse_insert(ev, m, k, val))
  <2> TAKE k
  <2>1. Untouched(ev, mem_cse_insert(ev, m, k, val)) BY <1>12, <1>15, InsertWhole
  <2> QED BY <1>14, <2>1, GrownTrans DEF Untouched
<1>21. m.w # 2 => Grown(c, mem_cse_insert(fwd, m, "LoadF32Raw", fwd.r))
  <2> SUFFICES ASSUME m.w # 2 PROVE Grown(c, mem_cse_insert(fwd, m, "LoadF32Raw", fwd.r)) OBVIOUS
  <2>1. Built(fwd) /\ (fwd.ok => fwd.r \in Wides(fwd)) BY <1>17, GivesWhole
  <2>2. Grown(c, fwd) BY <1>14, <1>17, GrownTrans DEF Gives
  <2>3. Untouched(fwd, mem_cse_insert(fwd, m, "LoadF32Raw", fwd.r)) BY <2>1, InsertWhole
  <2> QED BY <2>2, <2>3, GrownTrans DEF Untouched
<1> QED BY <1>1, <1>13, <1>14, <1>20, <1>21

\* An integer store.
LEMMA IntStoreWhole ==
    ASSUME NEW c, Built(c), NEW m, NEW val, c.ok => val \in Wides(c), NEW trunc
    PROVE  Grown(c, build_int_store(c, m, val, trunc))
<1> DEFINE op == IF m.w = 1 THEN "StoreI32" ELSE "StoreI64"
           nd == [Node(op, val, NoNode) EXCEPT !.m = m, !.trunc = trunc]
           st == add_node(c, nd)
<1>1. Grown(c, st)
  <2>1. Fresh(nd, op, val, NoNode) BY NodeFresh
  <2>2. op \in Unaries /\ Sources(c, op) = Wides(c) BY DEF Unaries, Sources, WideOps
  <2> HIDE DEF nd, op
  <2> QED BY <2>1, <2>2, Add1 DEF Makes
<1>2. build_int_store(c, m, val, trunc) = mem_cse_evict_may_alias(st, m)
  BY DEF build_int_store
<1> HIDE DEF st
<1>3. Untouched(st, mem_cse_evict_may_alias(st, m)) BY <1>1, EvictWhole DEF Grown
<1> QED BY <1>1, <1>2, <1>3, GrownTrans DEF Untouched

\* Two operands, one after the other.
LEMMA Both ==
    ASSUME NEW c, NEW a, NEW b, Built(c), Gives(c, a), Gives(a, b)
    PROVE  Built(b) /\ Grown(c, b) /\ (b.ok => a.r \in Wides(b) /\ b.r \in Wides(b))
<1>1. Built(a) /\ (a.ok => a.r \in Wides(a)) /\ Built(b) /\ (b.ok => b.r \in Wides(b))
  BY GivesWhole
<1>2. Grown(c, a) /\ Grown(a, b) /\ (b.ok => a.ok) BY DEF Gives, Grown
<1>3. Grown(c, b) BY <1>2, GrownTrans
<1> QED BY <1>1, <1>2, <1>3, IdsGrow

Kinds == BinOps \cup {"subr", "divr"}
\* An operation on two values.
LEMMA BinaryWhole ==
    ASSUME NEW c, Built(c), NEW k \in Kinds, NEW x, NEW y, NEW d \in Depth,
           c.ok => x \in Wides(c) /\ y \in Wides(c)
    PROVE  Grown(c, Binary(c, k, x, y, d))
<1> DEFINE op == ArithNode(k)
           id == IF k \in {"subr", "divr"} THEN add_node(c, Node(op, y, x))
                 ELSE add_node(c, Node(op, x, y))
<1>1. op \in Binaries /\ op \in Doubles
  <2>1. op \in {"FAdd", "FSub", "FMul", "FDiv"} BY DEF ArithNode, Kinds, BinOps
  <2> QED BY <2>1 DEF Binaries, Doubles, Producers, Pure, Narrows
<1>2. Binary(c, k, x, y, d) = set_slot(id, d, id.r) BY DEF Binary
<1> HIDE DEF op
<1>3. Gives(c, add_node(c, Node(op, y, x))) BY <1>1, NodeFresh, Add2, MakesGives
<1>4. Gives(c, add_node(c, Node(op, x, y))) BY <1>1, NodeFresh, Add2, MakesGives
<1>5. Gives(c, id) BY <1>3, <1>4
<1> HIDE DEF id
<1>6. Built(id) /\ (id.ok => id.r \in Wides(id)) BY <1>5, GivesWhole
<1>7. Grown(id, set_slot(id, d, id.r)) BY <1>6, SlotWhole
<1> QED BY <1>2, <1>5, <1>7, GrownTrans DEF Gives

\* The depths an instruction names.
LEMMA DepthFacts == 0 \in Depth /\ 1 \in Depth BY NAssumption DEF Depth

\* build_arith and build_arithp.
LEMMA ArithWhole ==
    ASSUME NEW c, Built(c), NEW g, NEW in, Operands(in), in.k \in Kinds
    PROVE  /\ Grown(c, build_arith(c, g, in)) /\ Grown(c, build_iarith(c, in))
           /\ Grown(c, build_arithp(c, in))
<1>1. Grown(c, build_arith(c, g, in))
  <2> DEFINE a == resolve(c, in.i)
             b == IF in.m.w = 0 THEN resolve(a, in.j) ELSE build_fp_load(a, g, in.m)
  <2>1. build_arith(c, g, in) = Binary(b, in.k, a.r, b.r, in.i) BY DEF build_arith
  <2>2. Gives(c, a) BY ResolveWhole DEF Operands
  <2> HIDE DEF a
  <2>3. Built(a) BY <2>2, GivesWhole
  <2>4. Gives(a, b) BY <2>3, ResolveWhole, LoadsWhole DEF Operands
  <2> HIDE DEF b
  <2>5. Grown(b, Binary(b, in.k, a.r, b.r, in.i)) BY <2>2, <2>4, Both, BinaryWhole DEF Operands
  <2> QED BY <2>1, <2>2, <2>4, <2>5, Both, GrownTrans
<1>2. Grown(c, build_iarith(c, in))
  <2> DEFINE a == resolve(c, 0)
             b == build_int_load(a, in.m)
  <2>1. build_iarith(c, in) = Binary(b, in.k, a.r, b.r, 0) BY DEF build_iarith
  <2>2. Gives(c, a) BY ResolveWhole, DepthFacts
  <2> HIDE DEF a
  <2>3. Built(a) BY <2>2, GivesWhole
  <2>4. Gives(a, b) BY <2>3, LoadsWhole
  <2> HIDE DEF b
  <2>5. Grown(b, Binary(b, in.k, a.r, b.r, 0)) BY <2>2, <2>4, Both, BinaryWhole, DepthFacts
  <2> QED BY <2>1, <2>2, <2>4, <2>5, Both, GrownTrans
<1>3. Grown(c, build_arithp(c, in))
  <2> DEFINE a == resolve(c, in.i)
             b == resolve(a, 0)
             r == Binary(b, in.k, a.r, b.r, in.i)
  <2>1. build_arithp(c, in) = pop(r) BY DEF build_arithp
  <2>2. Gives(c, a) BY ResolveWhole DEF Operands
  <2> HIDE DEF a
  <2>3. Built(a) BY <2>2, GivesWhole
  <2>4. Gives(a, b) BY <2>3, ResolveWhole, DepthFacts
  <2> HIDE DEF b
  <2>5. Grown(b, r) BY <2>2, <2>4, Both, BinaryWhole DEF Operands
  <2> HIDE DEF r
  <2>6. Grown(c, r) BY <2>2, <2>4, <2>5, Both, GrownTrans
  <2>7. Grown(r, pop(r)) BY <2>6, PopWhole DEF Grown
  <2> QED BY <2>1, <2>6, <2>7, GrownTrans
<1> QED BY <1>1, <1>2, <1>3

\* A compare of two values: the one an FSTSW that comes next names.
LEMMA CompareWhole ==
    ASSUME NEW c, Built(c), NEW op, NEW x, NEW y,
           c.ok => x \in Wides(c),
           (op = "FCmp" /\ (c.ok => y \in Wides(c))) \/ (op = "FTst" /\ y = NoNode)
    PROVE  Grown(c, Compare(c, op, x, y))
<1> DEFINE n == Node(op, x, y)
           id == add_node(c, n)
           b == [id EXCEPT !.fcmp = id.r]
<1>1. Compare(c, op, x, y) = IF id.ok THEN b ELSE id BY DEF Compare
<1>2. CASE ~c.ok \/ Len(c.nodes) >= MaxNodes
  <2>1. id = Fail(c) BY <1>2 DEF add_node
  <2> QED BY <1>1, <2>1, FailWhole DEF Gives
<1>3. CASE c.ok /\ ~(Len(c.nodes) >= MaxNodes)
  <2> DEFINE m == Len(c.nodes)
  <2>1. id = [c EXCEPT !.nodes = Append(@, n), !.r = Len(c.nodes)] BY <1>3 DEF add_node
  <2>2. /\ Same(c, b, {"nodes", "r", "fcmp"}) /\ b.nodes = Append(c.nodes, n) /\ b.fcmp = m
        /\ id.ok = c.ok
    BY <2>1 DEF Same, Built, Whole, CtxFields
  <2>3. Fresh(n, op, x, y) BY NodeFresh
  <2>4. /\ op \notin Ternary /\ op # "FStsw" /\ op \in AtLeast1 /\ Sources(c, op) = Wides(c)
        /\ op \in AtLeast2 <=> op = "FCmp"
    BY DEF Ternary, AtLeast1, AtLeast2, Sources, WideOps
  <2>5. IsCompare(n) BY <2>3 DEF Fresh, IsCompare
  <2>6. m \in Nat /\ m < MaxNodes BY <1>3, LenBuilt, MaxNodesAssumption
  <2> HIDE DEF n, b, id
  <2>7. NodeFits(n, m) /\ New(c, n, m) BY <1>3, <2>3, <2>4, FreshFits
  <2>8. Grown(c, b) BY <2>2, <2>5, <2>6, <2>7, Appended
  <2> QED BY <1>1, <1>3, <2>2, <2>8
<1> QED BY <1>2, <1>3 DEF Built, Whole

\* Popping once or twice.
LEMMA PopsWhole ==
    ASSUME NEW c, Built(c), NEW b, Grown(c, b)
    PROVE  Grown(c, pop(b)) /\ Grown(c, pop(pop(b)))
<1>1. Grown(b, pop(b)) BY PopWhole DEF Grown
<1>2. Grown(c, pop(b)) BY <1>1, GrownTrans
<1>3. Grown(pop(b), pop(pop(b))) BY <1>2, PopWhole DEF Grown
<1> QED BY <1>2, <1>3, GrownTrans

\* build_fcom, build_ficom and their popping forms.
LEMMA ComWhole ==
    ASSUME NEW c, Built(c), NEW g, NEW in, Operands(in)
    PROVE  /\ in.op \in {"fcom", "fcomp", "fcompp"} => Grown(c, build_fcom(c, g, in))
           /\ Grown(c, build_ficom(c, in))
           /\ LET a == resolve(c, 0) IN Grown(c, Compare(a, "FTst", a.r, NoNode))
<1> DEFINE a == resolve(c, 0)
<1>1. Gives(c, a) BY ResolveWhole, DepthFacts
<1>2. Built(a) /\ (a.ok => a.r \in Wides(a)) BY <1>1, GivesWhole
<1>3. in.op \in {"fcom", "fcomp", "fcompp"} => Grown(c, build_fcom(c, g, in))
  <2> DEFINE b == IF in.op = "fcompp" THEN resolve(a, 1)
                  ELSE IF in.m.w = 0 THEN resolve(a, in.j)
                  ELSE build_fp_load(a, g, in.m)
             cmp == Compare(b, "FCmp", a.r, b.r)
  <2>1. build_fcom(c, g, in) = CASE in.op = "fcom" -> cmp
                                 [] in.op = "fcomp" -> pop(cmp)
                                 [] in.op = "fcompp" -> pop(pop(cmp))
    BY DEF build_fcom
  <2> HIDE DEF a
  <2>2. Gives(a, b) BY <1>2, ResolveWhole, LoadsWhole, DepthFacts DEF Operands
  <2> HIDE DEF b
  <2>3. Grown(b, cmp) BY <1>1, <2>2, Both, CompareWhole
  <2> HIDE DEF cmp
  <2>4. Grown(c, cmp) BY <1>1, <2>2, <2>3, Both, GrownTrans
  <2> QED BY <2>1, <2>4, PopsWhole
<1>4. Grown(c, build_ficom(c, in))
  <2> DEFINE b == build_int_load(a, in.m)
             cmp == Compare(b, "FCmp", a.r, b.r)
  <2>1. build_ficom(c, in) = IF in.op = "ficomp" THEN pop(cmp) ELSE cmp BY DEF build_ficom
  <2> HIDE DEF a
  <2>2. Gives(a, b) BY <1>2, LoadsWhole
  <2> HIDE DEF b
  <2>3. Grown(b, cmp) BY <1>1, <2>2, Both, CompareWhole
  <2> HIDE DEF cmp
  <2>4. Grown(c, cmp) BY <1>1, <2>2, <2>3, Both, GrownTrans
  <2> QED BY <2>1, <2>4, PopsWhole
<1>5. Grown(c, Compare(a, "FTst", a.r, NoNode))
  <2> HIDE DEF a
  <2>1. Grown(a, Compare(a, "FTst", a.r, NoNode)) BY <1>2, CompareWhole
  <2> QED BY <1>1, <2>1, GrownTrans DEF Gives
<1> QED BY <1>3, <1>4, <1>5

\* build_fcomi.
LEMMA FcomiWhole ==
    ASSUME NEW c, Built(c), NEW in, Operands(in)
    PROVE  Grown(c, build_fcomi(c, in)) /\ Grown(c, build_fcmov(c, in))
<1> DEFINE a == resolve(c, 0)
           b == resolve(a, in.j)
<1>1. Gives(c, a) BY ResolveWhole, DepthFacts
<1>2. Gives(a, b)
  <2> HIDE DEF a
  <2> QED BY <1>1, GivesWhole, ResolveWhole DEF Operands
<1>3. Grown(c, build_fcomi(c, in))
  <2> DEFINE id == add_node(b, Node("FComI", a.r, b.r))
             mem == [id EXCEPT !.fcomi = id.r]
             cmp == IF id.ok THEN mem ELSE id
  <2>1. build_fcomi(c, in) = IF in.op = "fcomip" THEN pop(cmp) ELSE cmp BY DEF build_fcomi
  <2> HIDE DEF a, b
  <2>2. Grown(b, id)
    <3>1. "FComI" \in Binaries BY DEF Binaries
    <3>2. Built(b) /\ (b.ok => a.r \in Wides(b)) /\ (b.ok => b.r \in Wides(b)) BY <1>1, <1>2, Both
    <3>3. Fresh(Node("FComI", a.r, b.r), "FComI", a.r, b.r) BY NodeFresh
    <3>4. Makes(b, id, "FComI") BY <3>1, <3>2, <3>3, Add2
    <3> QED BY <3>4 DEF Makes
  <2> HIDE DEF id
  <2>4. Untouched(id, mem) BY <2>2, Remembered DEF Grown
  <2> HIDE DEF mem
  <2>5. Grown(c, id) BY <1>1, <1>2, <2>2, Both, GrownTrans
  <2>6. Grown(c, mem) BY <2>4, <2>5, GrownTrans DEF Untouched
  <2> QED BY <2>1, <2>5, <2>6, PopsWhole
<1>4. Grown(c, build_fcmov(c, in))
  <2> DEFINE id == add_node(b, Node("FCSel", a.r, b.r))
  <2>1. build_fcmov(c, in) = IF c.fcomi < 0 THEN Fail(c) ELSE set_slot(id, 0, id.r)
    BY DEF build_fcmov
  <2> HIDE DEF a, b
  <2>2. Gives(b, id)
    <3>1. "FCSel" \in Binaries /\ "FCSel" \in Doubles
      BY DEF Binaries, Doubles, Producers, Pure, Narrows
    <3>2. Built(b) /\ (b.ok => a.r \in Wides(b)) /\ (b.ok => b.r \in Wides(b)) BY <1>1, <1>2, Both
    <3>3. Fresh(Node("FCSel", a.r, b.r), "FCSel", a.r, b.r) BY NodeFresh
    <3>4. Makes(b, id, "FCSel") BY <3>1, <3>2, <3>3, Add2
    <3> QED BY <3>1, <3>4, MakesGives
  <2> HIDE DEF id
  <2>3. Grown(c, id) BY <1>1, <1>2, <2>2, Both, GrownTrans DEF Gives
  <2>4. Grown(id, set_slot(id, 0, id.r)) BY <2>2, GivesWhole, SlotWhole, DepthFacts
  <2>5. Grown(c, set_slot(id, 0, id.r)) BY <2>3, <2>4, GrownTrans
  <2> QED BY <2>1, <2>5, FailWhole DEF Gives
<1> QED BY <1>3, <1>4

\* FCHS, FABS, FSQRT and FRNDINT.
LEMMA UnaryWhole ==
    ASSUME NEW c, Built(c), NEW op \in {"FNeg", "FAbs", "FSqrt", "FRndInt"}
    PROVE  Grown(c, Unary(c, op))
<1> DEFINE a == resolve(c, 0)
           id == add_node(a, Node(op, a.r, NoNode))
           y == Nd(a, a.r).in[1]
<1>1. Gives(c, a) BY ResolveWhole, DepthFacts
<1>2. Unary(c, op) = IF op = "FNeg" /\ a.ok /\ Nd(a, a.r).op = "FNeg" THEN set_slot(a, 0, y)
                     ELSE set_slot(id, 0, id.r)
  BY DEF Unary
<1> HIDE DEF a
<1>3. Built(a) /\ (a.ok => a.r \in Wides(a)) BY <1>1, GivesWhole
<1>4. Gives(a, id)
  <2>1. op \in Unaries /\ op \in Doubles /\ Sources(a, op) = Wides(a)
    BY DEF Unaries, Doubles, Producers, Pure, Narrows, Sources, WideOps
  <2> QED BY <1>3, <2>1, NodeFresh, Add1, MakesGives
<1> HIDE DEF id
<1>5. a.ok /\ Nd(a, a.r).op = "FNeg" => y \in Wides(a)
  <2>1. "FNeg" \in AtLeast1 /\ Sources(a, "FNeg") = Wides(a)
    BY DEF AtLeast1, Sources, WideOps
  <2> QED BY <1>3, <2>1, InputNew, WidesInt
<1> HIDE DEF y
<1>6. CASE op = "FNeg" /\ a.ok /\ Nd(a, a.r).op = "FNeg"
  <2>1. Grown(a, set_slot(a, 0, y)) BY <1>3, <1>5, <1>6, SlotWhole, DepthFacts
  <2> QED BY <1>1, <1>2, <1>6, <2>1, GrownTrans DEF Gives
<1>7. CASE ~(op = "FNeg" /\ a.ok /\ Nd(a, a.r).op = "FNeg")
  <2>1. Grown(id, set_slot(id, 0, id.r)) BY <1>4, GivesWhole, SlotWhole, DepthFacts
  <2>2. Grown(c, id) BY <1>1, <1>4, GrownTrans DEF Gives
  <2>3. Unary(c, op) = set_slot(id, 0, id.r) BY <1>2, <1>7
  <2> QED BY <2>1, <2>2, <2>3, GrownTrans
<1> QED BY <1>6, <1>7

\* Whether building failed and how much was consumed are no part of it.
LEMMA SameBuilt ==
    ASSUME NEW c, Built(c), NEW b, Same(c, b, {"ok", "consumed"}), b.ok \in BOOLEAN
    PROVE  Built(b) /\ b.nodes = c.nodes /\ b.slot = c.slot
<1>2. /\ b.nodes = c.nodes /\ b.read = c.read /\ b.zero = c.zero /\ b.one = c.one
      /\ b.fcmp = c.fcmp /\ b.narIn = c.narIn /\ b.narNode = c.narNode
      /\ b.cse = c.cse /\ b.consts = c.consts
      /\ b.slot = c.slot /\ b.td = c.td /\ DOMAIN b = CtxFields
  BY DEF Same, CtxFields
<1>3. Whole(b) BY <1>2 DEF Built, Whole, Nodes, Slots
<1>4. Mapped(b) /\ Tables(b) BY <1>2, SameNodes DEF Built, Mapped, Tables
<1>5. News(b)
  <2>1. \A n, i : New(b, n, i) <=> New(c, n, i)
    <3>1. \A op : Sources(b, op) = Sources(c, op) BY <1>2, SameNodes DEF Sources
    <3>2. \A i, f : Follows(b, i, f) <=> Follows(c, i, f) BY <1>2, SameNodes
    <3> QED BY <3>1, <3>2 DEF New
  <2> QED BY <1>2, <2>1 DEF Built, News
<1> QED BY <1>2, <1>3, <1>4, <1>5 DEF Built

\* Going on after a failure.
LEMMA OkWhole ==
    ASSUME NEW c, Built(c)
    PROVE  LET b == [c EXCEPT !.ok = TRUE]
           IN  /\ Built(b) /\ b.ok /\ b.nodes = c.nodes /\ b.consumed = c.consumed
               /\ b.slot = c.slot
<1> DEFINE b == [c EXCEPT !.ok = TRUE]
<1>1. Same(c, b, {"ok"}) /\ b.ok = TRUE BY DEF Same, Built, Whole, CtxFields
<1> HIDE DEF b
<1>2. Same(c, b, {"ok", "consumed"}) /\ b.consumed = c.consumed BY <1>1 DEF Same, CtxFields
<1>3. Built(b) /\ b.nodes = c.nodes /\ b.slot = c.slot BY <1>1, <1>2, SameBuilt
<1> QED BY <1>1, <1>2, <1>3 DEF b

\* FXCH: two slots swapped.
LEMMA FxchWhole ==
    ASSUME NEW c, Built(c), NEW j \in Depth
    PROVE  Built(build_fxch(c, j)) /\ build_fxch(c, j).consumed = c.consumed
<1> DEFINE r0 == resolve(c, 0)
           a == [r0 EXCEPT !.ok = TRUE]
           r1 == resolve(a, j)
           b == [r1 EXCEPT !.ok = TRUE]
           m == [b.slot EXCEPT ![0] = b.slot[j], ![j] = b.slot[0]]
           f == [b EXCEPT !.slot = m]
<1>1. build_fxch(c, j) = f BY DEF build_fxch
<1>2. Grown(c, r0) /\ Built(r0) BY ResolveWhole, DepthFacts DEF Gives, Grown
<1> HIDE DEF r0
<1>3. Built(a) /\ a.ok /\ a.nodes = r0.nodes /\ a.consumed = r0.consumed BY <1>2, OkWhole
<1> HIDE DEF a
<1>4. Grown(a, r1) /\ Built(r1) BY <1>3, ResolveWhole DEF Gives, Grown
<1> HIDE DEF r1
<1>5. Built(b) /\ b.ok /\ b.nodes = r1.nodes /\ b.consumed = r1.consumed BY <1>4, OkWhole
<1> HIDE DEF b
<1>6. b.consumed = c.consumed BY <1>2, <1>3, <1>4, <1>5 DEF Grown
<1>7. Grown(b, f)
  <2>1. Same(b, f, {"slot"}) /\ f.slot = m BY <1>5 DEF Same, Built, Whole, CtxFields
  <2> HIDE DEF f
  <2>2. Same(b, f, {"slot", "r", "td", "ok"}) BY <2>1 DEF Same
  <2>3. f.ok = b.ok /\ f.td = b.td /\ f.nodes = b.nodes BY <2>1 DEF Same, CtxFields
  <2>4. /\ b.slot \in [Depth -> Int] /\ \A d \in Depth : SlotVal(b.slot[d], Len(b.nodes))
        /\ \A d \in Depth : b.slot[d] >= 0 => b.slot[d] \in Wides(b)
    BY <1>5 DEF Built, Whole, Slots, Mapped
  <2>5. /\ m \in [Depth -> Int]
        /\ \A d \in Depth : m[d] = IF d = j THEN b.slot[0] ELSE IF d = 0 THEN b.slot[j] ELSE b.slot[d]
    BY <2>4, DepthFacts
  <2> HIDE DEF m
  <2>6. Slots(f) BY <2>1, <2>3, <2>4, <2>5, DepthFacts DEF Slots
  <2>7. Mapped(f) BY <2>1, <2>3, <2>4, <2>5, DepthFacts, SameNodes DEF Mapped
  <2> QED BY <1>5, <2>2, <2>3, <2>6, <2>7, Remapped DEF Built, Whole
<1> QED BY <1>1, <1>6, <1>7 DEF Grown

\* FSTSW AX.
LEMMA FstswWhole == ASSUME NEW c, Built(c) PROVE Grown(c, build_fstsw(c))
<1> DEFINE nd == [Node("FStsw", c.fcmp, 0) EXCEPT !.in[3] = c.td]
           id == add_node(c, nd)
<1>1. c.fcmp \in Int /\ Follows(c, Len(c.nodes), c.fcmp) /\ c.td \in Int
  BY DEF Built, Whole, Tables
<1>2. /\ DOMAIN nd = NodeFields /\ nd.op = "FStsw" /\ nd.dead = FALSE /\ nd.f32 = FALSE
      /\ nd.fused = FALSE /\ nd.in = <<c.fcmp, 0, c.td>>
  BY DEF Node, NodeFields, NoNode
<1>3. build_fstsw(c) = mem_cse_evict_reg(id, "ax") BY DEF build_fstsw
<1> HIDE DEF nd
<1>4. nd.in \in [1..3 -> Int] /\ nd.in[1] = c.fcmp BY <1>1, <1>2
<1>5. "FStsw" \notin AtLeast1 /\ "FStsw" \notin AtLeast2 /\ "FStsw" \notin Ternary
  BY DEF AtLeast1, AtLeast2, Ternary
<1>6. NodeFits(nd, Len(c.nodes)) BY <1>2, <1>4, <1>5 DEF NodeFits
<1>7. New(c, nd, Len(c.nodes)) BY <1>1, <1>2, <1>4 DEF New, Exact
<1>8. ~IsCompare(nd) BY <1>2 DEF IsCompare
<1>9. Grown(c, id) BY <1>6, <1>7, <1>8, AddWhole
<1> HIDE DEF id
<1>10. Untouched(id, mem_cse_evict_reg(id, "ax")) BY <1>9, EvictWhole DEF Grown
<1> QED BY <1>3, <1>9, <1>10, GrownTrans DEF Untouched

\* FLDCW and FNSTCW.
LEMMA CwWhole == ASSUME NEW c, Built(c), NEW in PROVE Grown(c, build_cw(c, in))
<1> DEFINE op == IF in.op = "fldcw" THEN "StoreCW" ELSE "LoadCW"
           nd == [Node(op, NoNode, NoNode) EXCEPT !.m = in.m]
           id == add_node(c, nd)
<1>1. build_cw(c, in) = IF in.op = "fldcw" THEN id ELSE mem_cse_evict_may_alias(id, in.m)
  BY DEF build_cw
<1>2. Fresh(nd, op, NoNode, NoNode) BY NodeFresh
<1>3. op \in Sourceless BY DEF Sourceless
<1> HIDE DEF nd, op
<1>4. Grown(c, id) BY <1>2, <1>3, Add0 DEF Makes
<1> HIDE DEF id
<1>5. Untouched(id, mem_cse_evict_may_alias(id, in.m)) BY <1>4, EvictWhole DEF Grown
<1>6. Grown(c, mem_cse_evict_may_alias(id, in.m)) BY <1>4, <1>5, GrownTrans DEF Untouched
<1> QED BY <1>1, <1>4, <1>6

\* build_guest_int: the guest integer instructions that may join a run.
LEMMA GuestIntWhole ==
    ASSUME NEW c, Built(c), NEW in, in.op \in GuestOps PROVE Grown(c, build_guest_int(c, in))
<1> DEFINE op == GuestNode(in.op)
           nd == [Node(op, NoNode, NoNode) EXCEPT !.m = in.m, !.k = in.k, !.v = in.v]
           id == add_node(c, nd)
           w == [id EXCEPT !.written = @ \cup {in.k}]
<1>1. build_guest_int(c, in) =
        IF "transparent_int" \notin Config THEN Fail(c)
        ELSE IF in.op \in {"mov_mr", "mov_mi"}
        THEN IF in.m.seg # 0 THEN Fail(c) ELSE mem_cse_evict_may_alias(id, in.m)
        ELSE IF in.op \in {"lea", "mov_rm"} /\ in.m.seg # 0 THEN Fail(c)
        ELSE IF ~id.ok THEN id
        ELSE mem_cse_evict_reg(w, in.k)
  BY DEF build_guest_int
<1>2. Fresh(nd, op, NoNode, NoNode) BY NodeFresh
<1>3. op \in Sourceless BY DEF Sourceless
<1> HIDE DEF nd, op
<1>4. Grown(c, id) BY <1>2, <1>3, Add0 DEF Makes
<1> HIDE DEF id
<1>5. Built(id) BY <1>4 DEF Grown
<1>6. Grown(c, mem_cse_evict_may_alias(id, in.m))
  <2>1. Untouched(id, mem_cse_evict_may_alias(id, in.m)) BY <1>5, EvictWhole
  <2> QED BY <1>4, <2>1, GrownTrans DEF Untouched
<1>7. Untouched(id, w)
  <2>1. Same(id, w, {"written"}) BY <1>5 DEF Same, Built, Whole, CtxFields
  <2> HIDE DEF w
  <2>2. Same(id, w, TableFields) BY <2>1 DEF Same, TableFields
  <2>3. /\ w.zero = id.zero /\ w.one = id.one /\ w.narIn = id.narIn /\ w.narNode = id.narNode
        /\ w.cse = id.cse /\ w.consts = id.consts
    BY <2>1 DEF Same, CtxFields
  <2>4. Remembers(id, w) BY <1>5, <2>3, RememberedSelf DEF Remembers
  <2> QED BY <1>5, <2>2, <2>4, Retabled
<1> HIDE DEF w
<1>8. Grown(c, w) BY <1>4, <1>7, GrownTrans DEF Untouched
<1>9. Untouched(w, mem_cse_evict_reg(w, in.k)) BY <1>8, EvictWhole DEF Grown
<1>10. Grown(c, mem_cse_evict_reg(w, in.k)) BY <1>8, <1>9, GrownTrans DEF Untouched
<1> QED BY <1>1, <1>4, <1>6, <1>10, FailWhole DEF Gives

\* FST, FIST and their popping forms, to memory or to a register.
LEMMA StoreWhole ==
    ASSUME NEW c, Built(c), NEW in, Operands(in) PROVE Grown(c, build_store(c, in))
<1> DEFINE a == resolve(c, 0)
           s == IF ~a.ok THEN a
                ELSE IF in.m.w = 0 THEN (IF in.i # 0 THEN set_slot(a, in.i, a.r) ELSE a)
                ELSE IF in.op \in {"fst", "fstp"} THEN build_fp_store(a, in.m, a.r)
                ELSE build_int_store(a, in.m, a.r, in.op = "fisttp")
<1>1. build_store(c, in) = IF in.op \in {"fstp", "fistp", "fisttp"} THEN pop(s) ELSE s
  BY DEF build_store
<1>2. Gives(c, a) BY ResolveWhole, DepthFacts
<1> HIDE DEF a
<1>3. Built(a) /\ (a.ok => a.r \in Wides(a)) BY <1>2, GivesWhole
<1>4. Grown(a, set_slot(a, in.i, a.r)) BY <1>3, SlotWhole DEF Operands
<1>5. a.ok /\ in.m.w # 0 => Grown(a, build_fp_store(a, in.m, a.r))
  <2>1. in.m.w # 0 => in.m.w \in {1, 2} BY DEF Operands
  <2> QED BY <1>3, <2>1, FpStoreWhole
<1>6. Grown(a, build_int_store(a, in.m, a.r, in.op = "fisttp")) BY <1>3, IntStoreWhole
<1>7. Grown(a, s) BY <1>3, <1>4, <1>5, <1>6, GrownSelf
<1> HIDE DEF s
<1>8. Grown(c, s) BY <1>2, <1>7, GrownTrans DEF Gives
<1> QED BY <1>1, <1>8, PopsWhole

\* FLD, FILD and the constants.
LEMMA BuildLoadWhole ==
    ASSUME NEW c, Built(c), NEW g, NEW in, Operands(in), in.op \in {"fldc", "fld", "fild"}
    PROVE  Grown(c, build_load(c, g, in))
<1> DEFINE v == CASE in.op = "fldc" -> const_node_for_bits(c, in.v)
                  [] in.op = "fild" -> build_int_load(c, in.m)
                  [] in.op = "fld" -> IF in.m.w = 0 THEN resolve(c, in.j)
                                      ELSE build_fp_load(c, g, in.m)
<1>1. build_load(c, g, in) = push(v, v.r) BY DEF build_load
<1>2. Gives(c, v)
  <2>1. Gives(c, const_node_for_bits(c, in.v)) BY ConstWhole
  <2>2. Gives(c, build_int_load(c, in.m)) /\ Gives(c, build_fp_load(c, g, in.m)) BY LoadsWhole
  <2>3. Gives(c, resolve(c, in.j)) BY ResolveWhole DEF Operands
  <2> QED BY <2>1, <2>2, <2>3
<1> HIDE DEF v
<1>3. Grown(v, push(v, v.r)) BY <1>2, GivesWhole, PushWhole
<1> QED BY <1>1, <1>2, <1>3, GrownTrans DEF Gives

\* One turn of X87IR::build.
LEMMA InstrWhole ==
    ASSUME NEW c, Built(c), NEW g, NEW in, Operands(in)
    PROVE  Built(build_instr(c, g, in)) /\ build_instr(c, g, in).consumed = c.consumed
<1> DEFINE o == in.op
           b == build_instr(c, g, in)
<1>0. Grown(c, b) => Built(b) /\ b.consumed = c.consumed BY DEF Grown
<1>1. CASE o \in {"fldc", "fld", "fild"} BY <1>0, <1>1, BuildLoadWhole DEF build_instr, GuestOps
<1>2. CASE o \in {"fst", "fstp", "fist", "fistp", "fisttp"}
  BY <1>0, <1>2, StoreWhole DEF build_instr, GuestOps
<1>3. CASE o \in {"farith", "fiarith", "farithp"}
  <2>1. in.k \in Kinds BY <1>3 DEF Operands, Kinds
  <2>2. b \in {build_arith(c, g, in), build_iarith(c, in), build_arithp(c, in)}
    BY <1>3 DEF build_instr, GuestOps
  <2> QED BY <1>0, <2>1, <2>2, ArithWhole
<1>4. CASE o \in {"fchs", "fabs", "fsqrt", "frndint"}
  <2>1. b \in {Unary(c, "FNeg"), Unary(c, "FAbs"), Unary(c, "FSqrt"), Unary(c, "FRndInt")}
    BY <1>4 DEF build_instr, GuestOps
  <2> QED BY <1>0, <2>1, UnaryWhole
<1>5. CASE o = "fxch" BY <1>0, <1>5, FxchWhole DEF build_instr, GuestOps, Operands
<1>6. CASE o \in {"fcom", "fcomp", "fcompp"} BY <1>0, <1>6, ComWhole DEF build_instr, GuestOps
<1>7. CASE o \in {"ficom", "ficomp"} BY <1>0, <1>7, ComWhole DEF build_instr, GuestOps
<1>8. CASE o \in {"fcomi", "fcomip"} BY <1>0, <1>8, FcomiWhole DEF build_instr, GuestOps
<1>9. CASE o = "fcmov" BY <1>0, <1>9, FcomiWhole DEF build_instr, GuestOps
<1>10. CASE o = "ftst" BY <1>0, <1>10, ComWhole DEF build_instr, GuestOps
<1>11. CASE o = "fstsw" BY <1>0, <1>11, FstswWhole DEF build_instr, GuestOps
<1>12. CASE o \in {"fldcw", "fnstcw"} BY <1>0, <1>12, CwWhole DEF build_instr, GuestOps
<1>13. CASE o \in GuestOps
  <2>1. b = build_guest_int(c, in) BY <1>13 DEF build_instr, GuestOps
  <2> QED BY <1>0, <1>13, <2>1, GuestIntWhole
<1>14. CASE o = "fnop" BY <1>0, <1>14, GrownSelf DEF build_instr, GuestOps
<1>15. CASE o \notin {"fldc", "fld", "fild", "fst", "fstp", "fist", "fistp", "fisttp", "farith",
                      "fiarith", "farithp", "fchs", "fabs", "fsqrt", "frndint", "fxch", "fcom",
                      "fcomp", "fcompp", "ficom", "ficomp", "fcomi", "fcomip", "fcmov", "ftst",
                      "fstsw", "fldcw", "fnstcw", "fnop"} \cup GuestOps
  <2>1. b = Fail(c) BY <1>15 DEF build_instr, GuestOps
  <2> QED BY <1>0, <2>1, FailWhole DEF Gives
<1> QED BY <1>1, <1>2, <1>3, <1>4, <1>5, <1>6, <1>7, <1>8, <1>9, <1>10, <1>11, <1>12, <1>13,
           <1>14, <1>15

(***************************************************************************)
(* The run starts with a well-formed context.                              *)
(***************************************************************************)
FoldWell(a, s) == DOMAIN s = {"c", "perm"} /\ Built(s.c) /\ s.c.consumed = 0
PP == INSTANCE LoopProofs WITH Step <- fold_slot, Good <- FoldWell

\* A run starts whole, with the deferred exchanges folded into its slots.
LEMMA InitWhole ==
    ASSUME NEW perm \in [Depth -> Depth]
    PROVE  /\ Built(fold_perm(InitContext, perm))
           /\ fold_perm(InitContext, perm).consumed = 0
<1> DEFINE b == [InitContext EXCEPT !.slot = [d \in Depth |-> -(perm[d] + 1)]]
           s == [c |-> b, perm |-> perm]
           q == [i \in 1..N |-> i - 1]
<1>1. /\ DOMAIN b = CtxFields /\ b.ok = TRUE /\ b.td = 0 /\ b.nodes = << >>
      /\ b.slot = [d \in Depth |-> -(perm[d] + 1)] /\ b.read = [d \in Depth |-> -1]
      /\ b.zero = -1 /\ b.one = -1 /\ b.fcmp = -1 /\ b.narIn = -1 /\ b.cse = << >>
      /\ b.consts = << >> /\ b.consumed = 0
  BY DEF InitContext, CtxFields, NoNode
<1> HIDE DEF b
<1>2. Nodes(b) BY <1>1, RowEmpty, MaxNodesAssumption DEF Nodes
<1>3. Slots(b)
  <2>1. ASSUME NEW d \in Depth PROVE b.slot[d] \in Int /\ b.slot[d] \in (-N)..(-1)
    <3>1. perm[d] \in 0..(N - 1) /\ b.slot[d] = -(perm[d] + 1) BY <1>1 DEF Depth
    <3> QED BY <3>1, NAssumption
  <2>2. DOMAIN b.slot = Depth /\ b.slot = [d \in Depth |-> b.slot[d]] BY <1>1
  <2> QED BY <2>1, <2>2 DEF Slots, SlotVal
<1>4. Whole(b)
  <2>1. b.ok = TRUE /\ b.td = 0 /\ DOMAIN b = CtxFields BY <1>1, Zenon
  <2>2. b.td \in Int BY <2>1
  <2>3. b.ok \in BOOLEAN BY <2>1, Zenon
  <2> QED BY <1>2, <1>3, <2>1, <2>2, <2>3, Zenon DEF Whole
<1>5. Built(b)
  <2> DEFINE W == Wides(b)
  <2>1. Entries(<< >>, W) BY RowEmpty DEF Entries
  <2>2. Len(b.nodes) = 0 /\ News(b) BY <1>1, RowEmpty DEF News
  <2>3. Known(-1, W) BY DEF Known
  <2>4. -1 \in Int /\ ~(-1 >= 0) OBVIOUS
  <2>5. Follows(b, Len(b.nodes), -1) BY DEF Follows
  <2> HIDE DEF W
  <2>6. b.read \in [Depth -> Int] /\ \A d \in Depth : Known(b.read[d], W) BY <1>1, <2>3
  <2>7. /\ Known(b.zero, W) /\ Known(b.one, W) /\ b.fcmp = -1 /\ b.narIn \in Int
        /\ ~(b.narIn >= 0) /\ Entries(b.cse, W) /\ Entries(b.consts, W)
    BY <1>1, <2>1, <2>3, <2>4
  <2>8. Tables(b) BY <2>4, <2>5, <2>6, <2>7 DEF Tables, W
  <2>9. Mapped(b)
    <3>1. ASSUME NEW d \in Depth PROVE ~(b.slot[d] >= 0)
      <4>1. perm[d] \in 0..(N - 1) /\ b.slot[d] = -(perm[d] + 1) BY <1>1 DEF Depth
      <4> QED BY <4>1, NAssumption
    <3> QED BY <3>1 DEF Mapped
  <2> QED BY <1>4, <2>2, <2>8, <2>9 DEF Built
<1>6. FoldWell(0, s) BY <1>1, <1>5 DEF FoldWell
<1>7. Len(q) = N /\ N \in Nat /\ \A k \in 1..N : q[k] \in Depth
  <2>1. N \in Nat BY NAssumption
  <2>2. Len(q) = N BY <2>1, RowOf
  <2> QED BY <2>1, <2>2 DEF Depth
<1>8. fold_perm(InitContext, perm) = PermScan!Over(s, q).c BY DEF fold_perm, b
<1> HIDE DEF s, q
<1>9. ASSUME NEW x, NEW k \in 1..Len(q), FoldWell(0, x) PROVE FoldWell(0, fold_slot(x, q[k]))
  <2> DEFINE r == resolve(x.c, q[k])
             y == [x EXCEPT !.c = r]
  <2>1. Gives(x.c, r) BY <1>7, <1>9, ResolveWhole DEF FoldWell
  <2> HIDE DEF r
  <2>2. Built(r) /\ r.consumed = 0 BY <1>9, <2>1 DEF Gives, Grown, FoldWell
  <2>3. FoldWell(0, y) BY <1>9, <2>2 DEF FoldWell
  <2> QED BY <1>9, <2>3 DEF fold_slot, r
<1>10. FoldWell(0, PP!Over(s, q)) BY <1>6, <1>7, <1>9, PP!LoopKeeps
<1>11. PP!Over(s, q) = PermScan!Over(s, q)
  BY DEF PP!Over, PermScan!Over, PP!Turns, PermScan!Turns
<1> QED BY <1>8, <1>10, <1>11 DEF FoldWell

(***************************************************************************)
(* What the passes do to the nodes.                                        *)
(***************************************************************************)
Refit(c, b) == Whole(b) /\ Len(b.nodes) = Len(c.nodes) /\ b.consumed = c.consumed

\* A context whose nodes and slots are rewritten in place is whole.
LEMMA Renoded ==
    ASSUME NEW c, Whole(c), NEW b, Same(c, b, {"nodes", "slot"}), Row(b.nodes),
           Len(b.nodes) = Len(c.nodes),
           \A x \in 1..Len(c.nodes) : NodeFits(b.nodes[x], x - 1), Slots(b)
    PROVE  Refit(c, b)
<1>1. /\ DOMAIN b = CtxFields /\ b.ok = c.ok /\ b.td = c.td /\ b.consumed = c.consumed
  BY DEF Same, CtxFields
<1>2. Nodes(b) BY DEF Nodes, Whole
<1> QED BY <1>1, <1>2 DEF Refit, Whole

\* Only nodes change.
LEMMA Revised ==
    ASSUME NEW c, Whole(c), NEW b, Same(c, b, {"nodes"}), NEW f,
           b.nodes = [x \in 1..Len(c.nodes) |-> f[x]],
           \A x \in 1..Len(c.nodes) : NodeFits(f[x], x - 1)
    PROVE  Refit(c, b)
<1>1. Len(c.nodes) \in Nat BY LenNat DEF Whole
<1>2. b.nodes = [x \in 1..Len(c.nodes) |-> b.nodes[x]] OBVIOUS
<1>3. Row(b.nodes) /\ Len(b.nodes) = Len(c.nodes) BY <1>1, <1>2, RowOf
<1>4. \A x \in 1..Len(c.nodes) : NodeFits(b.nodes[x], x - 1) OBVIOUS
<1>5. b.slot = c.slot BY DEF Same, CtxFields
<1>6. Slots(b) BY <1>3, <1>5 DEF Whole, Slots
<1>7. Same(c, b, {"nodes", "slot"}) BY DEF Same
<1> QED BY <1>3, <1>4, <1>6, <1>7, Renoded

\* One node changes.
LEMMA OneNode ==
    ASSUME NEW c, Whole(c), NEW b, Same(c, b, {"nodes"}), NEW i, NEW m,
           b.nodes = [c.nodes EXCEPT ![i + 1] = m],
           \A x \in 1..Len(c.nodes) : x = i + 1 => NodeFits(m, x - 1)
    PROVE  Refit(c, b) /\ (i + 1 \in 1..Len(c.nodes) => b.nodes[i + 1] = m)
<1>1. DOMAIN c.nodes = 1..Len(c.nodes) BY RowFacts DEF Whole, Nodes
<1>2. b.nodes = [x \in 1..Len(c.nodes) |-> b.nodes[x]] BY <1>1
<1>3. \A x \in 1..Len(c.nodes) : b.nodes[x] = IF x = i + 1 THEN m ELSE c.nodes[x] BY <1>1
<1>4. \A x \in 1..Len(c.nodes) : NodeFits(b.nodes[x], x - 1) BY <1>3 DEF Whole, Nodes
<1>5. Refit(c, b) BY <1>2, <1>4, Revised
<1> QED BY <1>3, <1>5

\* A pass that does nothing.
LEMMA RefitSelf == ASSUME NEW c, Whole(c) PROVE Refit(c, c) BY DEF Refit
\* Two rewritings make one.
LEMMA RefitTrans == ASSUME NEW c, NEW b, NEW a, Refit(c, b), Refit(b, a) PROVE Refit(c, a)
BY DEF Refit

\* Marks do not matter to the shape of a node.
LEMMA MarkFits ==
    ASSUME NEW n, NEW i, NodeFits(n, i)
    PROVE  /\ \A x \in BOOLEAN : NodeFits([n EXCEPT !.dead = x], i)
           /\ \A x : NodeFits([n EXCEPT !.f32 = x], i)
           /\ \A x : NodeFits([n EXCEPT !.fused = x], i)
           /\ \A x : NodeFits([n EXCEPT !.v = x], i)
<1>1. ASSUME NEW m, DOMAIN m = NodeFields, m.op = n.op, m.in = n.in, m.dead \in BOOLEAN
      PROVE  NodeFits(m, i)
  BY <1>1 DEF NodeFits
<1>2. DOMAIN n = NodeFields /\ n.dead \in BOOLEAN BY DEF NodeFits
<1>3. ASSUME NEW x \in BOOLEAN PROVE NodeFits([n EXCEPT !.dead = x], i)
  <2> DEFINE m == [n EXCEPT !.dead = x]
  <2>1. DOMAIN m = NodeFields /\ m.op = n.op /\ m.in = n.in /\ m.dead \in BOOLEAN
    BY <1>2 DEF NodeFields
  <2> HIDE DEF m
  <2>2. NodeFits(m, i) BY <1>1, <2>1
  <2> QED BY <2>2 DEF m
<1>4. ASSUME NEW x PROVE NodeFits([n EXCEPT !.f32 = x], i)
  <2> DEFINE m == [n EXCEPT !.f32 = x]
  <2>1. DOMAIN m = NodeFields /\ m.op = n.op /\ m.in = n.in /\ m.dead \in BOOLEAN
    BY <1>2 DEF NodeFields
  <2> HIDE DEF m
  <2>2. NodeFits(m, i) BY <1>1, <2>1
  <2> QED BY <2>2 DEF m
<1>5. ASSUME NEW x PROVE NodeFits([n EXCEPT !.fused = x], i)
  <2> DEFINE m == [n EXCEPT !.fused = x]
  <2>1. DOMAIN m = NodeFields /\ m.op = n.op /\ m.in = n.in /\ m.dead \in BOOLEAN
    BY <1>2 DEF NodeFields
  <2> HIDE DEF m
  <2>2. NodeFits(m, i) BY <1>1, <2>1
  <2> QED BY <2>2 DEF m
<1>6. ASSUME NEW x PROVE NodeFits([n EXCEPT !.v = x], i)
  <2> DEFINE m == [n EXCEPT !.v = x]
  <2>1. DOMAIN m = NodeFields /\ m.op = n.op /\ m.in = n.in /\ m.dead \in BOOLEAN
    BY <1>2 DEF NodeFields
  <2> HIDE DEF m
  <2>2. NodeFits(m, i) BY <1>1, <2>1
  <2> QED BY <2>2 DEF m
<1> QED BY <1>3, <1>4, <1>5, <1>6

\* Every node of a whole context fits its place.
LEMMA FitsAt ==
    ASSUME NEW c, Whole(c) PROVE \A x \in 1..Len(c.nodes) : NodeFits(c.nodes[x], x - 1)
BY DEF Whole, Nodes

\* Killing a node.
LEMMA KillRefit ==
    ASSUME NEW c, Whole(c), NEW id
    PROVE  /\ Refit(c, Kill(c, id))
           /\ \A x \in 1..Len(c.nodes) : Kill(c, id).nodes[x].op = c.nodes[x].op
<1> DEFINE b == Kill(c, id)
           m == [c.nodes[id + 1] EXCEPT !.dead = TRUE]
<1>1. Same(c, b, {"nodes"}) /\ b.nodes = [c.nodes EXCEPT ![id + 1] = m]
  BY DEF Same, Whole, CtxFields, Kill
<1>2. ASSUME NEW x \in 1..Len(c.nodes), x = id + 1
      PROVE  NodeFits(m, x - 1) /\ m.op = c.nodes[x].op
  <2>1. NodeFits(c.nodes[id + 1], x - 1) BY <1>2, FitsAt
  <2>2. NodeFits(m, x - 1) BY <2>1, MarkFits
  <2>3. m.op = c.nodes[id + 1].op BY <2>1 DEF NodeFits, NodeFields
  <2> QED BY <1>2, <2>2, <2>3
<1> HIDE DEF b, m
<1>3. Refit(c, b) BY <1>1, <1>2, OneNode
<1>4. DOMAIN c.nodes = 1..Len(c.nodes) BY RowFacts DEF Whole, Nodes
<1>5. \A x \in 1..Len(c.nodes) : b.nodes[x].op = c.nodes[x].op BY <1>1, <1>2, <1>4
<1> QED BY <1>3, <1>5 DEF b

\* Marking a node as fused or narrow.
LEMMA FlagRefit ==
    ASSUME NEW c, Whole(c), NEW id, NEW y
    PROVE  /\ Refit(c, [c EXCEPT !.nodes[id + 1].f32 = TRUE])
           /\ Refit(c, [c EXCEPT !.nodes[id + 1].v = y])
<1>1. Refit(c, [c EXCEPT !.nodes[id + 1].f32 = TRUE])
  <2> DEFINE b == [c EXCEPT !.nodes[id + 1].f32 = TRUE]
             m == [c.nodes[id + 1] EXCEPT !.f32 = TRUE]
  <2>1. Same(c, b, {"nodes"}) /\ b.nodes = [c.nodes EXCEPT ![id + 1] = m]
    BY DEF Same, Whole, CtxFields
  <2>2. ASSUME NEW x \in 1..Len(c.nodes), x = id + 1 PROVE NodeFits(m, x - 1)
    <3>1. NodeFits(c.nodes[id + 1], x - 1) BY <2>2, FitsAt
    <3> QED BY <3>1, MarkFits
  <2> HIDE DEF b, m
  <2>3. Refit(c, b) BY <2>1, <2>2, OneNode
  <2> QED BY <2>3 DEF b
<1>2. Refit(c, [c EXCEPT !.nodes[id + 1].v = y])
  <2> DEFINE b == [c EXCEPT !.nodes[id + 1].v = y]
             m == [c.nodes[id + 1] EXCEPT !.v = y]
  <2>1. Same(c, b, {"nodes"}) /\ b.nodes = [c.nodes EXCEPT ![id + 1] = m]
    BY DEF Same, Whole, CtxFields
  <2>2. ASSUME NEW x \in 1..Len(c.nodes), x = id + 1 PROVE NodeFits(m, x - 1)
    <3>1. NodeFits(c.nodes[id + 1], x - 1) BY <2>2, FitsAt
    <3> QED BY <3>1, MarkFits
  <2> HIDE DEF b, m
  <2>3. Refit(c, b) BY <2>1, <2>2, OneNode
  <2> QED BY <2>3 DEF b
<1> QED BY <1>1, <1>2

\* An operation of the form a node may take, at node i.
Shape(op, in, i) ==
    /\ in \in [1..3 -> Int] /\ \A j \in 1..3 : in[j] >= -1 /\ in[j] < i
    /\ op \in AtLeast1 => in[1] >= 0
    /\ op \in AtLeast2 => in[2] >= 0
    /\ op \in Ternary => in[3] >= 0

\* A rewritten node keeps the inputs its operation needs.
LEMMA ShapeOf ==
    ASSUME NEW op, NEW i \in Int, NEW x \in Int, NEW y \in Int, NEW z \in Int,
           x >= -1, y >= -1, z >= -1, x < i, y < i, z < i,
           op \in AtLeast1 => x >= 0, op \in AtLeast2 => y >= 0, op \in Ternary => z >= 0
    PROVE  Shape(op, <<x, y, z>>, i)
<1> DEFINE in == <<x, y, z>>
<1>1. in \in [1..3 -> Int] /\ in[1] = x /\ in[2] = y /\ in[3] = z OBVIOUS
<1> HIDE DEF in
<1>2. \A j \in 1..3 : in[j] >= -1 /\ in[j] < i
  <2>1. \A j \in 1..3 : j = 1 \/ j = 2 \/ j = 3 OBVIOUS
  <2> QED BY <1>1, <2>1
<1>3. Shape(op, in, i) BY <1>1, <1>2 DEF Shape
<1> QED BY <1>3 DEF in

\* Rewriting a node.
LEMMA RewriteRefit ==
    ASSUME NEW c, Whole(c), NEW i \in Ids(c), NEW op, NEW in, Shape(op, in, i)
    PROVE  Refit(c, Rewrite(c, i, op, in))
<1> DEFINE b == Rewrite(c, i, op, in)
           m == [c.nodes[i + 1] EXCEPT !.op = op, !.in = in]
<1>0. Len(c.nodes) \in Nat /\ DOMAIN c.nodes = 1..Len(c.nodes) BY RowFacts DEF Whole, Nodes
<1>1. i + 1 \in 1..Len(c.nodes) /\ (i + 1) - 1 = i BY <1>0 DEF Ids
<1>2. Same(c, b, {"nodes"}) BY DEF Same, Whole, CtxFields, Rewrite
<1>3. b.nodes = [[c.nodes EXCEPT ![i + 1].op = op] EXCEPT ![i + 1].in = in]
  BY DEF Whole, CtxFields, Rewrite
<1>4. b.nodes = [c.nodes EXCEPT ![i + 1] = m] BY <1>0, <1>1, <1>3
<1>5. NodeFits(m, i)
  <2>1. NodeFits(c.nodes[i + 1], i) BY <1>1, FitsAt
  <2>2. DOMAIN m = NodeFields /\ m.op = op /\ m.in = in /\ m.dead = c.nodes[i + 1].dead
    BY <2>1 DEF NodeFits, NodeFields
  <2> HIDE DEF m
  <2> QED BY <2>1, <2>2 DEF NodeFits, Shape
<1> HIDE DEF b, m
<1>6. Refit(c, b) BY <1>1, <1>2, <1>4, <1>5, OneNode
<1> QED BY <1>6 DEF b

\* A node whose inputs go from one node to an earlier one fits.
LEMMA ReplacedFits ==
    ASSUME NEW n, NEW p \in Int, NodeFits(n, p), NEW i \in Int, NEW keep \in Int,
           keep >= 0, keep < i
    PROVE  LET m == [n EXCEPT !.in = [j \in 1..3 |-> IF @[j] = i THEN keep ELSE @[j]]]
           IN  NodeFits(m, p) /\ m.op = n.op
<1> DEFINE in == [j \in 1..3 |-> IF n.in[j] = i THEN keep ELSE n.in[j]]
           m == [n EXCEPT !.in = [j \in 1..3 |-> IF @[j] = i THEN keep ELSE @[j]]]
<1>1. DOMAIN m = NodeFields /\ m.op = n.op /\ m.in = in /\ m.dead = n.dead
  BY DEF NodeFits, NodeFields
<1> HIDE DEF m
<1>2. n.in \in [1..3 -> Int] BY DEF NodeFits
<1>3. m.in \in [1..3 -> Int] /\ \A j \in 1..3 : m.in[j] = IF n.in[j] = i THEN keep ELSE n.in[j]
  BY <1>1, <1>2
<1> HIDE DEF in
<1>4. NodeFits(m, p)
  <2>1. m.op # "FStsw" => \A j \in 1..3 : m.in[j] >= -1 /\ m.in[j] < p
    BY <1>1, <1>2, <1>3 DEF NodeFits
  <2>2. /\ m.op \in AtLeast1 => m.in[1] >= 0
        /\ m.op \in AtLeast2 => m.in[2] >= 0
        /\ m.op \in Ternary => m.in[3] >= 0
    BY <1>1, <1>2, <1>3 DEF NodeFits
  <2> QED BY <1>1, <1>3, <2>1, <2>2 DEF NodeFits
<1> QED BY <1>1, <1>4 DEF m

\* Every use of a node goes to an earlier one.
LEMMA ReplaceRefit ==
    ASSUME NEW c, Whole(c), NEW i \in Ids(c), NEW keep \in 0..(i - 1)
    PROVE  /\ Refit(c, Replace(c, i, keep))
           /\ Refit(c, [Replace(c, i, keep) EXCEPT !.slot = c.slot])
           /\ \A x \in 1..Len(c.nodes) : Replace(c, i, keep).nodes[x].op = c.nodes[x].op
           /\ [Replace(c, i, keep) EXCEPT !.slot = c.slot].nodes = Replace(c, i, keep).nodes
<1> DEFINE b == Replace(c, i, keep)
           a == [b EXCEPT !.slot = c.slot]
           m(x) == [c.nodes[x] EXCEPT !.in = [j \in 1..3 |-> IF @[j] = i THEN keep ELSE @[j]]]
           f == [x \in DOMAIN c.nodes |-> IF c.nodes[x].dead THEN c.nodes[x] ELSE m(x)]
           t == [d \in Depth |-> IF c.slot[d] = i THEN keep ELSE c.slot[d]]
<1>0. Len(c.nodes) \in Nat /\ DOMAIN c.nodes = 1..Len(c.nodes) BY RowFacts DEF Whole, Nodes
<1>1. Same(c, b, {"nodes", "slot"}) /\ b.nodes = f /\ b.slot = t
  BY DEF Same, Whole, CtxFields, Replace
<1>2. i \in Int /\ keep \in Int /\ keep >= 0 /\ keep < i /\ i < Len(c.nodes) BY <1>0 DEF Ids
<1>3. ASSUME NEW x \in 1..Len(c.nodes) PROVE NodeFits(f[x], x - 1) /\ f[x].op = c.nodes[x].op
  <2>1. NodeFits(c.nodes[x], x - 1) /\ x - 1 \in Int BY <1>0, FitsAt
  <2>2. NodeFits(m(x), x - 1) /\ m(x).op = c.nodes[x].op BY <1>2, <2>1, ReplacedFits
  <2>3. f[x] = IF c.nodes[x].dead THEN c.nodes[x] ELSE m(x) BY <1>0
  <2> HIDE DEF m, f
  <2> QED BY <2>1, <2>2, <2>3
<1>4. f = [x \in 1..Len(c.nodes) |-> f[x]] BY <1>0
<1> HIDE DEF b, f, m
<1>5. Row(b.nodes) /\ Len(b.nodes) = Len(c.nodes) BY <1>0, <1>1, <1>4, RowOf
<1>6. Slots(b)
  <2>1. c.slot \in [Depth -> Int] /\ \A d \in Depth : SlotVal(c.slot[d], Len(c.nodes))
    BY DEF Whole, Slots
  <2>2. SlotVal(keep, Len(c.nodes)) BY <1>0, <1>2 DEF SlotVal
  <2> QED BY <1>1, <1>2, <1>5, <2>1, <2>2 DEF Slots
<1>7. Refit(c, b) BY <1>1, <1>3, <1>5, <1>6, Renoded
<1>8. Refit(c, a) /\ a.nodes = b.nodes
  <2>1. Same(c, a, {"nodes", "slot"}) /\ a.nodes = f /\ a.slot = c.slot
    BY <1>1 DEF Same, CtxFields
  <2> HIDE DEF a
  <2>2. Slots(a) BY <1>1, <1>5, <2>1 DEF Slots, Whole
  <2> QED BY <1>1, <1>3, <1>5, <2>1, <2>2, Renoded
<1> QED BY <1>1, <1>3, <1>7, <1>8 DEF b

\* Killing a set of nodes.
LEMMA KillAllRefit ==
    ASSUME NEW c, Whole(c), NEW S
    PROVE  /\ Refit(c, KillAll(c, S))
           /\ Refit(c, [c EXCEPT !.nodes = [x \in DOMAIN c.nodes |->
                            [c.nodes[x] EXCEPT !.fused = @ \/ (x - 1) \in S]]])
<1>0. Len(c.nodes) \in Nat /\ DOMAIN c.nodes = 1..Len(c.nodes) BY RowFacts DEF Whole, Nodes
<1>1. Refit(c, KillAll(c, S))
  <2> DEFINE f == [x \in DOMAIN c.nodes |-> [c.nodes[x] EXCEPT !.dead = @ \/ (x - 1) \in S]]
             b == KillAll(c, S)
  <2>1. Same(c, b, {"nodes"}) /\ b.nodes = f BY DEF Same, Whole, CtxFields, KillAll
  <2>2. ASSUME NEW x \in 1..Len(c.nodes) PROVE NodeFits(f[x], x - 1)
    <3> DEFINE v == c.nodes[x].dead \/ (x - 1) \in S
    <3>1. NodeFits(c.nodes[x], x - 1) BY FitsAt
    <3>2. f[x] = [c.nodes[x] EXCEPT !.dead = v] BY <1>0
    <3>3. v \in BOOLEAN OBVIOUS
    <3> HIDE DEF v, f
    <3> QED BY <3>1, <3>2, <3>3, MarkFits
  <2>3. b.nodes = [x \in 1..Len(c.nodes) |-> f[x]] BY <1>0, <2>1
  <2> HIDE DEF b, f
  <2>4. Refit(c, b) BY <2>1, <2>2, <2>3, Revised
  <2> QED BY <2>4 DEF b
<1>2. Refit(c, [c EXCEPT !.nodes = [x \in DOMAIN c.nodes |->
                            [c.nodes[x] EXCEPT !.fused = @ \/ (x - 1) \in S]]])
  <2> DEFINE f == [x \in DOMAIN c.nodes |-> [c.nodes[x] EXCEPT !.fused = @ \/ (x - 1) \in S]]
             b == [c EXCEPT !.nodes = f]
  <2>1. Same(c, b, {"nodes"}) /\ b.nodes = f BY DEF Same, Whole, CtxFields
  <2>2. ASSUME NEW x \in 1..Len(c.nodes) PROVE NodeFits(f[x], x - 1)
    <3> DEFINE v == c.nodes[x].fused \/ (x - 1) \in S
    <3>1. NodeFits(c.nodes[x], x - 1) BY FitsAt
    <3>2. f[x] = [c.nodes[x] EXCEPT !.fused = v] BY <1>0
    <3> HIDE DEF v, f
    <3>3. NodeFits([c.nodes[x] EXCEPT !.fused = v], x - 1) BY <3>1, MarkFits
    <3> QED BY <3>2, <3>3
  <2>3. b.nodes = [x \in 1..Len(c.nodes) |-> f[x]] BY <1>0, <2>1
  <2> HIDE DEF b
  <2>4. Refit(c, b)
    <3> HIDE DEF f
    <3> QED BY <2>1, <2>2, <2>3, Revised
  <2> QED BY <2>4 DEF b
<1> QED BY <1>1, <1>2

(***************************************************************************)
(* Each pass keeps the context well-formed.                                *)
(***************************************************************************)
\* The nodes a pass visits are nodes.
LEMMA IdSeqs ==
    ASSUME NEW c, Whole(c), NEW q, q \in {IdSeq(c), IdSeqDown(c) \o IdSeqDown(c)}
    PROVE  Len(q) \in Nat /\ \A k \in 1..Len(q) : q[k] \in Ids(c)
<1>1. Len(c.nodes) \in Nat BY LenNat DEF Whole
<1>2. IdSeq(c) \in Seq(Ids(c)) BY <1>1 DEF IdSeq, Ids
<1>3. IdSeqDown(c) \in Seq(Ids(c)) BY <1>1 DEF IdSeqDown, Ids
<1>4. IdSeqDown(c) \o IdSeqDown(c) \in Seq(Ids(c)) BY <1>3
<1>5. q \in Seq(Ids(c)) BY <1>2, <1>4
<1> QED BY <1>5

PassWell(c, s) == DOMAIN s = {"c", "u"} /\ Refit(c, s.c)

\* The use counts a pass starts from.
LEMMA CountedWell == ASSUME NEW c, Whole(c) PROVE PassWell(c, Counted(c))
BY RefitSelf DEF PassWell, Counted

\* What a pass returns is whole.
LEMMA PassWhole ==
    ASSUME NEW c, NEW s, PassWell(c, s)
    PROVE  Whole(s.c) /\ Ids(s.c) = Ids(c) /\ DOMAIN s = {"c", "u"}
BY DEF PassWell, Refit, Ids

\* A step that goes from s to one with context b.
LEMMA PassStep ==
    ASSUME NEW c, NEW s, PassWell(c, s), NEW t, DOMAIN t = {"c", "u"}, Refit(s.c, t.c)
    PROVE  PassWell(c, t)
BY RefitTrans DEF PassWell

\* One use fewer, and the node killed with its last.
LEMMA DropUseRefit ==
    ASSUME NEW s, Whole(s.c), NEW id
    PROVE  DOMAIN DropUse(s, id) = {"c", "u"} /\ Refit(s.c, DropUse(s, id).c)
<1> DEFINE u == Bump(s.u, id, -1)
           b == IF u[id] = 0 THEN Kill(s.c, id) ELSE s.c
<1>1. DropUse(s, id) = [c |-> b, u |-> u] BY DEF DropUse
<1>2. Refit(s.c, b) BY KillRefit, RefitSelf
<1> HIDE DEF b, u
<1> QED BY <1>1, <1>2

\* A node folded to a constant.
LEMMA FoldToRefit ==
    ASSUME NEW s, Whole(s.c), NEW i \in Ids(s.c), NEW keep \in 0..(i - 1), NEW const
    PROVE  /\ DOMAIN fold_to(s, i, keep, const) = {"c", "u"}
           /\ Refit(s.c, fold_to(s, i, keep, const).c)
<1> DEFINE r == Replace(s.c, i, keep)
           k == Kill(r, i)
           t == [c |-> k, u |-> [Bump(s.u, keep, s.u[i] - 1) EXCEPT ![i] = 0]]
<1>1. fold_to(s, i, keep, const) = DropUse(t, const) BY DEF fold_to
<1>2. Refit(s.c, r) BY ReplaceRefit
<1> HIDE DEF r
<1>3. Refit(r, k) BY <1>2, KillRefit DEF Refit
<1> HIDE DEF k
<1>4. Refit(s.c, k) /\ Whole(k) /\ t.c = k BY <1>2, <1>3, RefitTrans DEF Refit
<1> HIDE DEF t
<1>5. DOMAIN DropUse(t, const) = {"c", "u"} /\ Refit(t.c, DropUse(t, const).c)
  BY <1>4, DropUseRefit
<1> QED BY <1>1, <1>4, <1>5, RefitTrans

\* The inputs of a live arithmetic node.
LEMMA InputsOf ==
    ASSUME NEW c, Whole(c), NEW i \in Ids(c)
    PROVE  LET n == Nd(c, i)
           IN  /\ i \in Int /\ \A j \in 1..3 : n.in[j] \in Int
               /\ n.op # "FStsw" => \A j \in 1..3 : n.in[j] >= -1 /\ n.in[j] < i
               /\ n.op \in AtLeast1 => n.in[1] \in 0..(i - 1) /\ n.in[3] \in (-1)..(i - 1)
               /\ n.op \in AtLeast2 => n.in[1] \in 0..(i - 1) /\ n.in[2] \in 0..(i - 1)
               /\ \A j \in 1..3 : n.op \in AtLeast1 /\ n.in[j] >= 0 => n.in[j] \in Ids(c)
<1> DEFINE n == Nd(c, i)
<1>1. Len(c.nodes) \in Nat /\ i \in Int /\ i < Len(c.nodes) BY LenNat DEF Whole, Ids
<1>2. NodeFits(n, i) BY InputIn
<1>3. "FStsw" \notin AtLeast1 /\ AtLeast2 \subseteq AtLeast1 BY DEF AtLeast1, AtLeast2, Ternary
<1> HIDE DEF n
<1>4. n.in[1] \in Int /\ n.in[2] \in Int /\ n.in[3] \in Int /\ \A j \in 1..3 : n.in[j] \in Int
  BY <1>2 DEF NodeFits
<1>5. n.op # "FStsw" => \A j \in 1..3 : n.in[j] >= -1 /\ n.in[j] < i BY <1>2 DEF NodeFits
<1>6. n.op \in AtLeast1 => n.in[1] \in 0..(i - 1) /\ n.in[3] \in (-1)..(i - 1)
  BY <1>1, <1>2, <1>3, <1>4, <1>5 DEF NodeFits
<1>7. n.op \in AtLeast2 => n.in[1] \in 0..(i - 1) /\ n.in[2] \in 0..(i - 1)
  BY <1>1, <1>2, <1>3, <1>4, <1>5 DEF NodeFits
<1>8. \A j \in 1..3 : n.op \in AtLeast1 /\ n.in[j] >= 0 => n.in[j] \in Ids(c)
  BY <1>1, <1>3, <1>4, <1>5 DEF Ids
<1> QED BY <1>1, <1>4, <1>5, <1>6, <1>7, <1>8 DEF n

\* A pass that rewrites a node and drops uses.
LEMMA RewriteStep ==
    ASSUME NEW s, DOMAIN s = {"c", "u"}, Whole(s.c), NEW b, Refit(s.c, b)
    PROVE  DOMAIN [s EXCEPT !.c = b] = {"c", "u"} /\ [s EXCEPT !.c = b].c = b
OBVIOUS

\* A turn of pass_const_arith.
LEMMA ConstArithStep ==
    ASSUME NEW s, DOMAIN s = {"c", "u"}, Whole(s.c), NEW i \in Ids(s.c)
    PROVE  DOMAIN const_arith(s, i) = {"c", "u"} /\ Refit(s.c, const_arith(s, i).c)
<1> DEFINE n == Nd(s.c, i)
           a == n.in[1]
           b == n.in[2]
           v == Nd(s.c, b).v
           rw == Rewrite(s.c, i, "FMul", n.in)
           dv == [rw EXCEPT !.nodes[b + 1].v = F("div", One, v)]
           div == [s EXCEPT !.c = dv]
           ts == Rewrite(s.c, i, "FTst", <<a, NoNode, n.in[3]>>)
           tst == DropUse([s EXCEPT !.c = ts], b)
           new == const_arith(s, i)
           ok(t) == DOMAIN t = {"c", "u"} /\ Refit(s.c, t.c)
<1>1. "FMul" \in AtLeast2 /\ "FDiv" \in AtLeast2 /\ "FSub" \in AtLeast2 /\ "FCmp" \in AtLeast2
  BY DEF AtLeast2
<1>2. \/ n.op \in {"FMul", "FDiv", "FSub"} /\ new = fold_to(s, i, a, b)
      \/ n.op \in {"FMul", "FDiv", "FSub"} /\ new = fold_to(s, i, b, a)
      \/ n.op = "FDiv" /\ new = div
      \/ n.op = "FCmp" /\ new = tst
      \/ new = s
  <2> DEFINE p1 == n.dead
             p2 == const_is(s.c, b, One)
             p3 == const_is(s.c, a, One)
             p4 == const_is(s.c, b, Zero)
             p5 == Live(s.c, b)
             p6 == /\ Nd(s.c, b).op = "ConstF64" /\ s.u[b] = 1
                   /\ \/ Pow2(Nd(s.c, b).v)
                      \/ "fast_recip_div" \in Config /\ Nd(s.c, b).v # Zero
             f1 == fold_to(s, i, a, b)
             f2 == fold_to(s, i, b, a)
             o == n.op
  <2>1. new = IF p1 THEN s ELSE
              CASE o \in {"FMul", "FDiv"} /\ p2 -> f1
                [] o = "FMul" /\ p3 /\ ~p2 -> f2
                [] o = "FSub" /\ p4 -> f1
                [] o = "FDiv" /\ p5 /\ ~p2 -> IF p6 THEN div ELSE s
                [] o = "FCmp" /\ p4 -> tst
                [] OTHER -> s
    BY DEF const_arith
  <2> HIDE DEF new, p1, p2, p3, p4, p5, p6, f1, f2, div, tst, o
  <2>2. \/ o \in {"FMul", "FDiv", "FSub"} /\ new = f1
        \/ o \in {"FMul", "FDiv", "FSub"} /\ new = f2
        \/ o = "FDiv" /\ new = div
        \/ o = "FCmp" /\ new = tst
        \/ new = s
    BY <2>1
  <2> QED BY <2>2 DEF f1, f2, o
<1>3. ok(s) BY RefitSelf
<1>4. n.op \in AtLeast2 => a \in 0..(i - 1) /\ b \in 0..(i - 1) BY InputsOf
<1>5. n.op \in {"FMul", "FDiv", "FSub"} => ok(fold_to(s, i, a, b)) /\ ok(fold_to(s, i, b, a))
  <2> HIDE DEF n, a, b
  <2> QED BY <1>1, <1>4, FoldToRefit
<1>6. n.op = "FDiv" => ok(div)
  <2> SUFFICES ASSUME n.op = "FDiv" PROVE ok(div) OBVIOUS
  <2>1. Shape("FMul", n.in, i)
    <3>1. NodeFits(n, i) BY InputIn
    <3>2. "FDiv" \in AtLeast1 /\ "FDiv" \in AtLeast2 /\ "FMul" \notin Ternary
      BY DEF AtLeast1, AtLeast2, Ternary
    <3> HIDE DEF n
    <3> QED BY <3>1, <3>2 DEF Shape, NodeFits
  <2>2. Refit(s.c, rw) BY <2>1, RewriteRefit
  <2> HIDE DEF rw
  <2>3. Refit(rw, dv)
    <3> DEFINE w == F("div", One, v)
    <3>1. Whole(rw) BY <2>2 DEF Refit
    <3>2. dv = [rw EXCEPT !.nodes[b + 1].v = w] OBVIOUS
    <3> HIDE DEF w, v, b, n, dv
    <3> QED BY <3>1, <3>2, FlagRefit
  <2> HIDE DEF dv
  <2> QED BY <2>2, <2>3, RefitTrans
<1>7. n.op = "FCmp" => ok(tst)
  <2> SUFFICES ASSUME n.op = "FCmp" PROVE ok(tst) OBVIOUS
  <2>1. Shape("FTst", <<a, NoNode, n.in[3]>>, i)
    <3>1. /\ i \in Int /\ i >= 0 /\ a \in Int /\ a >= 0 /\ a < i
          /\ n.in[3] \in Int /\ n.in[3] >= -1 /\ n.in[3] < i
      <4>1. n.op \in AtLeast1 /\ n.op \in AtLeast2 BY DEF AtLeast1, AtLeast2
      <4>2. i \in Int /\ i >= 0 BY LenNat DEF Whole, Ids
      <4>3. a \in 0..(i - 1) /\ n.in[3] \in (-1)..(i - 1) BY <4>1, InputsOf
      <4> HIDE DEF a, n
      <4> QED BY <4>2, <4>3
    <3>2. "FTst" \notin AtLeast2 /\ "FTst" \notin Ternary BY DEF AtLeast2, Ternary
    <3>3. NoNode \in Int /\ NoNode >= -1 /\ NoNode < i BY <3>1 DEF NoNode
    <3> HIDE DEF n, a
    <3> QED BY <3>1, <3>2, <3>3, ShapeOf
  <2>2. Refit(s.c, ts) BY <2>1, RewriteRefit
  <2> HIDE DEF ts
  <2> DEFINE t == [s EXCEPT !.c = ts]
  <2>3. t.c = ts BY <2>2
  <2> HIDE DEF t
  <2>4. DOMAIN DropUse(t, b) = {"c", "u"} /\ Refit(t.c, DropUse(t, b).c)
    BY <2>2, <2>3, DropUseRefit DEF Refit
  <2> QED BY <2>2, <2>3, <2>4, RefitTrans DEF t
<1> HIDE DEF new, n, a, b, div, tst
<1>8. ok(new) BY <1>2, <1>3, <1>5, <1>6, <1>7
<1> QED BY <1>8 DEF new

Fit(s, t) == DOMAIN t = {"c", "u"} /\ Refit(s.c, t.c)

\* A turn of pass_dse.
LEMMA DseStep ==
    ASSUME NEW s, DOMAIN s = {"c", "u"}, Whole(s.c), NEW i PROVE Fit(s, dse(s, i))
<1> DEFINE n == Nd(s.c, i)
           dec(u, j) == Bump(u, n.in[j], -1)
           w == dec(dec(dec(s.u, 1), 2), 3)
           k == Kill(s.c, i)
<1>1. dse(s, i) = s \/ dse(s, i) = [c |-> k, u |-> w] BY DEF dse
<1>2. Refit(s.c, k) BY KillRefit
<1> HIDE DEF w, k
<1> QED BY <1>1, <1>2, RefitSelf DEF Fit

\* A node absorbed by its only user.
LEMMA AbsorbStep ==
    ASSUME NEW s, Whole(s.c), NEW i \in Ids(s.c), NEW x, NEW op, NEW in, Shape(op, in, i)
    PROVE  Fit(s, Absorb(s, i, x, op, in))
<1> DEFINE r == Rewrite(s.c, i, op, in)
           k == Kill(r, x)
           w == Bump(Bump([s.u EXCEPT ![x] = 0], Nd(s.c, x).in[1], 1), Nd(s.c, x).in[2], 1)
<1>1. Absorb(s, i, x, op, in) = [c |-> k, u |-> w] BY DEF Absorb
<1>2. Refit(s.c, r) BY RewriteRefit
<1> HIDE DEF r
<1>3. Refit(r, k) BY <1>2, KillRefit DEF Refit
<1> HIDE DEF k, w
<1>4. Refit(s.c, k) BY <1>2, <1>3, RefitTrans
<1> QED BY <1>1, <1>4 DEF Fit

\* The inputs of an input.
LEMMA Below2 ==
    ASSUME NEW c, Whole(c), NEW i \in Ids(c), NEW x \in Ids(c), x < i
    PROVE  /\ Nd(c, x).op \in AtLeast1 => Nd(c, x).in[1] \in 0..(i - 1)
           /\ Nd(c, x).op \in AtLeast2 =>
                Nd(c, x).in[1] \in 0..(i - 1) /\ Nd(c, x).in[2] \in 0..(i - 1)
<1>1. i \in Int /\ x \in Int BY LenNat DEF Whole, Ids
<1>2. /\ Nd(c, x).op \in AtLeast1 => Nd(c, x).in[1] \in 0..(x - 1)
      /\ Nd(c, x).op \in AtLeast2 => Nd(c, x).in[1] \in 0..(x - 1) /\ Nd(c, x).in[2] \in 0..(x - 1)
  BY InputsOf
<1> QED BY <1>1, <1>2

\* The shape of a node of a whole context.
LEMMA ShapeIn ==
    ASSUME NEW op, NEW i \in Int, NEW x \in 0..(i - 1), NEW y \in 0..(i - 1),
           NEW z \in (-1)..(i - 1), op \in Ternary => z >= 0
    PROVE  Shape(op, <<x, y, z>>, i)
<1>1. /\ x \in Int /\ y \in Int /\ z \in Int /\ x >= 0 /\ y >= 0 /\ x >= -1 /\ y >= -1 /\ z >= -1
      /\ x < i /\ y < i /\ z < i
  OBVIOUS
<1> QED BY <1>1, ShapeOf

\* A turn of pass_fneg_fold.
LEMMA FnegStep ==
    ASSUME NEW s, DOMAIN s = {"c", "u"}, Whole(s.c), NEW i \in Ids(s.c)
    PROVE  Fit(s, fneg_fold(s, i))
<1> DEFINE n == Nd(s.c, i)
           a == n.in[1]
           b == n.in[2]
           z == n.in[3]
           op1 == IF n.op = "FAdd" THEN "FSub" ELSE "FAdd"
           r1 == Absorb(s, i, b, op1, <<a, Nd(s.c, b).in[1], z>>)
           r2 == Absorb(s, i, a, "FSub", <<b, Nd(s.c, a).in[1], z>>)
           r3 == Absorb(s, i, a, "FNMul", <<Nd(s.c, a).in[1], Nd(s.c, a).in[2], z>>)
           p1 == SingleUse(s, b, "FNeg")
           p2 == SingleUse(s, a, "FNeg")
           p3 == SingleUse(s, a, "FMul")
           new == fneg_fold(s, i)
           o == n.op
<1>1. new = IF n.dead THEN s ELSE
            CASE o \in {"FAdd", "FSub"} /\ p1 -> r1
              [] o = "FAdd" /\ ~p1 /\ p2 -> r2
              [] o = "FNeg" /\ p3 -> r3
              [] OTHER -> s
  BY DEF fneg_fold
<1>2. \/ new = s
      \/ o \in {"FAdd", "FSub"} /\ p1 /\ new = r1
      \/ o = "FAdd" /\ p2 /\ new = r2
      \/ o = "FNeg" /\ p3 /\ new = r3
  <2> HIDE DEF new, p1, p2, p3, r1, r2, r3, o
  <2> QED BY <1>1
<1>3. Fit(s, s) BY RefitSelf DEF Fit
<1>4. i \in Int /\ i >= 0 BY LenNat DEF Whole, Ids
<1>5. /\ {"FAdd", "FSub", "FMul"} \subseteq AtLeast2 /\ AtLeast2 \subseteq AtLeast1
      /\ "FNeg" \in AtLeast1 /\ {"FAdd", "FSub", "FNMul"} \cap Ternary = {}
  BY DEF AtLeast1, AtLeast2, Ternary
<1>6. /\ o \in AtLeast1 => a \in 0..(i - 1) /\ z \in (-1)..(i - 1)
      /\ o \in AtLeast2 => a \in 0..(i - 1) /\ b \in 0..(i - 1)
  BY InputsOf
<1>7. o \in {"FAdd", "FSub"} /\ p1 => Fit(s, r1)
  <2> SUFFICES ASSUME o \in {"FAdd", "FSub"}, p1 PROVE Fit(s, r1) OBVIOUS
  <2> DEFINE x == Nd(s.c, b).in[1]
  <2>1. b \in Ids(s.c) /\ Nd(s.c, b).op = "FNeg" BY DEF SingleUse, Live
  <2>2. a \in 0..(i - 1) /\ b \in 0..(i - 1) /\ z \in (-1)..(i - 1) BY <1>5, <1>6
  <2> HIDE DEF a, b, z
  <2>3. x \in 0..(i - 1) BY <1>4, <1>5, <2>1, <2>2, Below2
  <2> HIDE DEF x
  <2>4. op1 \notin Ternary BY <1>5
  <2> HIDE DEF op1
  <2>5. Shape(op1, <<a, x, z>>, i) BY <1>4, <2>2, <2>3, <2>4, ShapeIn
  <2> QED BY <2>5, AbsorbStep DEF x
<1>8. o = "FAdd" /\ p2 => Fit(s, r2)
  <2> SUFFICES ASSUME o = "FAdd", p2 PROVE Fit(s, r2) OBVIOUS
  <2> DEFINE x == Nd(s.c, a).in[1]
  <2>1. a \in Ids(s.c) /\ Nd(s.c, a).op = "FNeg" BY DEF SingleUse, Live
  <2>2. a \in 0..(i - 1) /\ b \in 0..(i - 1) /\ z \in (-1)..(i - 1) BY <1>5, <1>6
  <2> HIDE DEF a, b, z
  <2>3. x \in 0..(i - 1) BY <1>4, <1>5, <2>1, <2>2, Below2
  <2> HIDE DEF x
  <2>4. "FSub" \notin Ternary BY <1>5
  <2>5. Shape("FSub", <<b, x, z>>, i) BY <1>4, <2>2, <2>3, <2>4, ShapeIn
  <2> QED BY <2>5, AbsorbStep DEF x
<1>9. o = "FNeg" /\ p3 => Fit(s, r3)
  <2> SUFFICES ASSUME o = "FNeg", p3 PROVE Fit(s, r3) OBVIOUS
  <2> DEFINE x == Nd(s.c, a).in[1]
             y == Nd(s.c, a).in[2]
  <2>1. a \in Ids(s.c) /\ Nd(s.c, a).op = "FMul" BY DEF SingleUse, Live
  <2>2. a \in 0..(i - 1) /\ z \in (-1)..(i - 1) BY <1>5, <1>6
  <2> HIDE DEF a, b, z
  <2>3. x \in 0..(i - 1) /\ y \in 0..(i - 1) BY <1>4, <1>5, <2>1, <2>2, Below2
  <2> HIDE DEF x, y
  <2>4. "FNMul" \notin Ternary BY <1>5
  <2>5. Shape("FNMul", <<x, y, z>>, i) BY <1>4, <2>2, <2>3, <2>4, ShapeIn
  <2> QED BY <2>5, AbsorbStep DEF x, y
<1> HIDE DEF new, p1, p2, p3, r1, r2, r3, o
<1>10. Fit(s, new) BY <1>2, <1>3, <1>7, <1>8, <1>9
<1> QED BY <1>10 DEF new

\* A product fused into a sum.
LEMMA FuseStep ==
    ASSUME NEW s, DOMAIN s = {"c", "u"}, Whole(s.c), NEW i \in Ids(s.c), NEW muls,
           \A x \in muls : x \in Ids(s.c) /\ Nd(s.c, x).op = "FMul"
    PROVE  Fit(s, Fuse(s, i, muls))
<1> DEFINE n == Nd(s.c, i)
           a == n.in[1]
           b == n.in[2]
           r(x, y, f) == Absorb(s, i, x, FmaOp(n.op, f), <<Nd(s.c, x).in[1], Nd(s.c, x).in[2], y>>)
           new == Fuse(s, i, muls)
           o == n.op
<1>1. \/ new = s
      \/ o \in {"FAdd", "FSub"} /\ a \in muls /\ new = r(a, b, TRUE)
      \/ o \in {"FAdd", "FSub"} /\ b \in muls /\ new = r(b, a, FALSE)
  BY DEF Fuse
<1>2. Fit(s, s) BY RefitSelf DEF Fit
<1>3. i \in Int /\ i >= 0 BY LenNat DEF Whole, Ids
<1>4. {"FAdd", "FSub", "FMul"} \subseteq AtLeast2 BY DEF AtLeast2
<1>5. o \in {"FAdd", "FSub"} => a \in 0..(i - 1) /\ b \in 0..(i - 1) BY <1>4, InputsOf
<1>6. ASSUME NEW x \in 0..(i - 1), NEW y \in 0..(i - 1), x \in muls, NEW f PROVE Fit(s, r(x, y, f))
  <2> DEFINE v == Nd(s.c, x).in[1]
             w == Nd(s.c, x).in[2]
             op == FmaOp(n.op, f)
  <2>1. x \in Ids(s.c) /\ Nd(s.c, x).op = "FMul" BY <1>6
  <2>2. v \in 0..(i - 1) /\ w \in 0..(i - 1) BY <1>3, <1>4, <2>1, Below2
  <2> HIDE DEF v, w, op
  <2>3. y \in (-1)..(i - 1) /\ y >= 0 BY <1>3
  <2>4. Shape(op, <<v, w, y>>, i) BY <1>3, <2>2, <2>3, ShapeIn
  <2> QED BY <2>4, AbsorbStep DEF v, w, op
<1> HIDE DEF new, a, b, r, o
<1>7. Fit(s, new) BY <1>1, <1>2, <1>5, <1>6
<1> QED BY <1>7 DEF new

\* A turn of pass_fma and of pass_f32_fma.
LEMMA FmaSteps ==
    ASSUME NEW s, DOMAIN s = {"c", "u"}, Whole(s.c), NEW i \in Ids(s.c)
    PROVE  Fit(s, fma(s, i)) /\ Fit(s, f32_fma(s, i))
<1> DEFINE m1 == {x \in Ids(s.c) : SingleUse(s, x, "FMul")}
           m2 == {x \in Ids(s.c) : SingleUse(s, x, "FMul") /\ Nd(s.c, x).f32}
<1>1. \A x \in m1 : x \in Ids(s.c) /\ Nd(s.c, x).op = "FMul" BY DEF SingleUse
<1>2. \A x \in m2 : x \in Ids(s.c) /\ Nd(s.c, x).op = "FMul" BY DEF SingleUse
<1>3. fma(s, i) = Fuse(s, i, m1) BY DEF fma
<1>4. f32_fma(s, i) = s \/ f32_fma(s, i) = Fuse(s, i, m2) BY DEF f32_fma
<1> HIDE DEF m1, m2
<1>5. Fit(s, Fuse(s, i, m1)) /\ Fit(s, Fuse(s, i, m2)) BY <1>1, <1>2, FuseStep
<1>6. Fit(s, s) BY RefitSelf DEF Fit
<1> QED BY <1>3, <1>4, <1>5, <1>6

\* The number of inputs of each operation.
LEMMA ArityFacts ==
    ASSUME NEW op
    PROVE  /\ Arity(op) \in {0, 1, 2}
           /\ Arity(op) = 2 => op \in AtLeast2 /\ op \in AtLeast1 /\ op \notin Ternary
           /\ Arity(op) = 1 => op \in AtLeast1 /\ op \notin AtLeast2 /\ op \notin Ternary
<1>1. CASE op \in {"FAdd", "FSub", "FMul", "FDiv", "FNMul"}
  BY <1>1 DEF Arity, AtLeast1, AtLeast2, Ternary
<1>2. CASE op \in {"FNeg", "FAbs", "FSqrt"} BY <1>2 DEF Arity, AtLeast1, AtLeast2, Ternary
<1>3. CASE op \notin {"FAdd", "FSub", "FMul", "FDiv", "FNMul", "FNeg", "FAbs", "FSqrt"}
  BY <1>3 DEF Arity
<1> QED BY <1>1, <1>2, <1>3

\* What a widening widens, for the j-th input of node x.
LEMMA Narrower ==
    ASSUME NEW c, Whole(c), NEW x \in Ids(c), NEW j \in 1..3, Nd(c, x).op \in AtLeast1,
           Nd(c, x).in[j] \in Ids(c), Nd(c, Nd(c, x).in[j]).op = "CvtF32ToF64"
    PROVE  Nd(c, Nd(c, x).in[j]).in[1] \in 0..(x - 1)
<1> DEFINE y == Nd(c, x).in[j]
<1>1. "FStsw" \notin AtLeast1 /\ "CvtF32ToF64" \in AtLeast1 BY DEF AtLeast1, AtLeast2, Ternary
<1>2. y < x BY <1>1, InputsOf
<1> HIDE DEF y
<1>3. Nd(c, y).in[1] \in 0..(x - 1) BY <1>1, <1>2, Below2 DEF y
<1> QED BY <1>3 DEF y

\* A turn of pass_f32_narrow.
LEMMA NarrowStep ==
    ASSUME NEW s, DOMAIN s = {"c", "u"}, Whole(s.c), NEW i \in Ids(s.c)
    PROVE  Fit(s, f32_narrow(s, i))
<1> DEFINE n == Nd(s.c, i)
           x == n.in[1]
           xn == Nd(s.c, x)
           ar == Arity(xn.op)
           wide(j) == Live(s.c, xn.in[j]) /\ Nd(s.c, xn.in[j]).op = "CvtF32ToF64"
           raw(j) == IF j <= ar THEN Nd(s.c, xn.in[j]).in[1] ELSE NoNode
           rw == Rewrite(s.c, i, xn.op, <<raw(1), raw(2), n.in[3]>>)
           mk == [rw EXCEPT !.nodes[i + 1].f32 = TRUE]
           kl == Kill(mk, x)
           flip == [c |-> kl, u |-> [s.u EXCEPT ![x] = 0]]
           unwrap(t, j) == LET d == DropUse(t, xn.in[j]) IN [d EXCEPT !.u = Bump(@, raw(j), 1)]
           cond == /\ ~n.dead /\ n.op = "CvtF64ToF32"
                   /\ Live(s.c, x) /\ ~xn.f32 /\ ar > 0 /\ s.u[x] = 1
                   /\ \A j \in 1..ar : wide(j)
           u1 == unwrap(flip, 1)
           u2 == unwrap(u1, 2)
           new == f32_narrow(s, i)
<1>1. new = s \/ (cond /\ (new = u1 \/ new = u2))
  <2>1. new = IF cond THEN IF ar = 1 THEN u1 ELSE u2 ELSE s BY DEF f32_narrow
  <2> HIDE DEF new, cond, u1, u2
  <2> QED BY <2>1
<1>2. Fit(s, s) BY RefitSelf DEF Fit
<1>3. i \in Int /\ i >= 0 BY LenNat DEF Whole, Ids
<1>4. ASSUME cond PROVE Fit(s, flip)
  <2>1. x \in Ids(s.c) /\ ar \in {1, 2} BY <1>4, ArityFacts DEF Live
  <2>2. x \in 0..(i - 1) /\ n.in[3] \in (-1)..(i - 1)
    <3>1. n.op \in AtLeast1 BY <1>4 DEF AtLeast1
    <3> QED BY <3>1, InputsOf
  <2>3. /\ ar = 1 => xn.op \in AtLeast1 /\ xn.op \notin AtLeast2 /\ xn.op \notin Ternary
        /\ ar = 2 => xn.op \in AtLeast1 /\ xn.op \in AtLeast2 /\ xn.op \notin Ternary
    BY ArityFacts
  <2>4. ASSUME NEW j \in {1, 2}, j <= ar PROVE raw(j) \in 0..(i - 1)
    <3>1. xn.in[j] \in Ids(s.c) /\ Nd(s.c, xn.in[j]).op = "CvtF32ToF64"
      BY <1>4, <2>1, <2>4 DEF Live
    <3>2. raw(j) = Nd(s.c, xn.in[j]).in[1] BY <2>4
    <3>3. Nd(s.c, xn.in[j]).in[1] \in 0..(x - 1) BY <2>1, <2>3, <3>1, Narrower
    <3> HIDE DEF raw, xn, x
    <3> QED BY <1>3, <2>2, <3>2, <3>3
  <2>5. raw(1) \in 0..(i - 1)
    <3>1. 1 <= ar BY <2>1
    <3> HIDE DEF raw, ar
    <3> QED BY <2>4, <3>1
  <2>6. (ar = 2 /\ raw(2) \in 0..(i - 1)) \/ (ar = 1 /\ raw(2) = -1)
    <3>1. ar = 1 => raw(2) = -1 BY DEF NoNode
    <3>2. ar = 2 => 2 <= ar OBVIOUS
    <3> HIDE DEF raw, ar
    <3> QED BY <2>1, <2>4, <3>1, <3>2
  <2> DEFINE a == raw(1)
             b == raw(2)
             z == n.in[3]
             op == xn.op
  <2>7. Shape(op, <<a, b, z>>, i)
    <3>1. /\ a \in Int /\ a >= 0 /\ a >= -1 /\ a < i /\ z \in Int /\ z >= -1 /\ z < i
          /\ b \in Int /\ b >= -1 /\ b < i
      <4> HIDE DEF raw, n
      <4> QED BY <1>3, <2>2, <2>5, <2>6
    <3>2. op \notin Ternary /\ (op \in AtLeast2 => b >= 0)
      <4> HIDE DEF raw, n, ar, xn
      <4> QED BY <1>3, <2>1, <2>3, <2>6
    <3> HIDE DEF a, b, z, op
    <3> QED BY <1>3, <3>1, <3>2, ShapeOf
  <2>8. Refit(s.c, rw) BY <2>7, RewriteRefit
  <2> HIDE DEF rw
  <2>9. Refit(rw, mk) BY <2>8, FlagRefit DEF Refit
  <2> HIDE DEF mk
  <2>10. Refit(mk, kl) BY <2>9, KillRefit DEF Refit
  <2> HIDE DEF kl
  <2>11. Refit(s.c, kl) BY <2>8, <2>9, <2>10, RefitTrans
  <2> QED BY <2>11 DEF Fit
<1>5. ASSUME NEW t, Whole(t.c), NEW j PROVE Fit(t, unwrap(t, j))
  <2> DEFINE d == DropUse(t, xn.in[j])
             w == [d EXCEPT !.u = Bump(@, raw(j), 1)]
  <2>1. DOMAIN d = {"c", "u"} /\ Refit(t.c, d.c) BY <1>5, DropUseRefit
  <2> HIDE DEF d
  <2>2. DOMAIN w = {"c", "u"} /\ w.c = d.c BY <2>1
  <2> HIDE DEF w
  <2>3. Fit(t, w) BY <2>1, <2>2 DEF Fit
  <2> QED BY <2>3 DEF w, d
<1> HIDE DEF unwrap, flip, cond
<1>6. cond => Fit(flip, u1) /\ Whole(flip.c) BY <1>4, <1>5 DEF Fit, Refit
<1> HIDE DEF u1
<1>7. cond => Fit(u1, u2) /\ Whole(u1.c) BY <1>5, <1>6 DEF Fit, Refit
<1> HIDE DEF u2, new
<1>8. cond => Fit(s, u1) /\ Fit(s, u2) BY <1>4, <1>6, <1>7, RefitTrans DEF Fit
<1>9. Fit(s, new) BY <1>1, <1>2, <1>8
<1> QED BY <1>9 DEF new

(***************************************************************************)
(* f32_chain.                                                              *)
(***************************************************************************)
BypassWell(c, s) ==
    /\ DOMAIN s = {"c", "copies"} /\ Refit(c, s.c)
    /\ \A i \in s.copies : i \in Ids(c) /\ Nd(s.c, i).op = "CvtF64ToF32"

\* A turn of the loop that drops the narrowings of narrow values.
LEMMA BypassStep ==
    ASSUME NEW c, NEW s, BypassWell(c, s), NEW i PROVE BypassWell(c, bypass(s, i))
<1>1. CASE i \notin s.copies BY <1>1 DEF bypass
<1>2. CASE i \in s.copies
  <2> DEFINE x == Nd(s.c, i).in[1]
             r == [Replace(s.c, i, x) EXCEPT !.slot = s.c.slot]
             k == Kill(r, i)
             t == [s EXCEPT !.c = k]
  <2>1. bypass(s, i) = t BY <1>2 DEF bypass
  <2>2. Whole(s.c) /\ Len(s.c.nodes) = Len(c.nodes) /\ i \in Ids(s.c) /\ i \in Ids(c)
    BY <1>2 DEF BypassWell, Refit, Ids
  <2>3. x \in 0..(i - 1)
    <3>1. Nd(s.c, i).op \in AtLeast1 BY <1>2 DEF BypassWell, AtLeast1
    <3> QED BY <2>2, <3>1, InputsOf
  <2> HIDE DEF x
  <2>4. Refit(s.c, r) /\ \A y \in 1..Len(s.c.nodes) : r.nodes[y].op = s.c.nodes[y].op
    BY <2>2, <2>3, ReplaceRefit
  <2> HIDE DEF r
  <2>5. Refit(r, k) /\ \A y \in 1..Len(r.nodes) : k.nodes[y].op = r.nodes[y].op
    BY <2>4, KillRefit DEF Refit
  <2> HIDE DEF k
  <2>6. Refit(c, k) BY <2>4, <2>5, RefitTrans DEF BypassWell
  <2>7. DOMAIN t = {"c", "copies"} /\ t.c = k /\ t.copies = s.copies BY DEF BypassWell
  <2> HIDE DEF t
  <2>8. ASSUME NEW y \in s.copies PROVE y \in Ids(c) /\ Nd(k, y).op = "CvtF64ToF32"
    <3>1. y \in Ids(c) /\ Nd(s.c, y).op = "CvtF64ToF32" BY <2>8 DEF BypassWell
    <3>2. Len(c.nodes) \in Nat BY <2>2, LenNat DEF Whole
    <3>3. y + 1 \in 1..Len(s.c.nodes) /\ y + 1 \in 1..Len(r.nodes)
      BY <2>2, <2>4, <3>1, <3>2 DEF Ids, Refit
    <3> QED BY <2>4, <2>5, <3>1, <3>3 DEF Nd
  <2> QED BY <2>1, <2>6, <2>7, <2>8 DEF BypassWell
<1> QED BY <1>1, <1>2

\* The inputs of a node of a chain, and the node as the chain leaves it.
ChainInputs(c, i) ==
    [j \in 1..3 |-> LET x == Nd(c, i).in[j]
                    IN  IF j <= Arity(Nd(c, i).op) /\ Nd(c, x).op = "CvtF32ToF64"
                        THEN Nd(c, x).in[1] ELSE x]
ChainNode(c, i) == [Nd(c, i) EXCEPT !.f32 = TRUE, !.in = ChainInputs(c, i)]

\* The nodes of a chain take the f32 values behind their widened inputs.
LEMMA FlippedFits ==
    ASSUME NEW c, Whole(c), NEW i \in Ids(c)
    PROVE  NodeFits(ChainNode(c, i), i) /\ ChainNode(c, i).op = Nd(c, i).op
<1> DEFINE n == Nd(c, i)
           in == [j \in 1..3 |-> LET x == n.in[j]
                                 IN  IF j <= Arity(n.op) /\ Nd(c, x).op = "CvtF32ToF64"
                                     THEN Nd(c, x).in[1] ELSE x]
           m == [n EXCEPT !.f32 = TRUE, !.in = in]
           ar == Arity(n.op)
<1>0. ChainNode(c, i) = m BY DEF ChainNode, ChainInputs
<1>1. NodeFits(n, i) /\ i \in Int /\ \A j \in 1..3 : n.in[j] \in Int BY InputsOf, InputIn
<1>2. DOMAIN m = NodeFields /\ m.op = n.op /\ m.in = in /\ m.dead = n.dead
  BY <1>1 DEF NodeFits, NodeFields
<1> HIDE DEF m
<1>3. ASSUME NEW j \in 1..3
      PROVE  in[j] = n.in[j] \/ (n.op \in AtLeast1 /\ in[j] \in 0..(i - 1))
  <2> DEFINE x == n.in[j]
  <2>1. in[j] = IF j <= ar /\ Nd(c, x).op = "CvtF32ToF64" THEN Nd(c, x).in[1] ELSE x OBVIOUS
  <2>2. CASE j <= ar /\ Nd(c, x).op = "CvtF32ToF64"
    <3>1. ar \in {0, 1, 2} BY ArityFacts
    <3>2. (j = 1 /\ ar \in {1, 2}) \/ (j = 2 /\ ar = 2) BY <2>2, <3>1
    <3>3. n.op \in AtLeast1 /\ (j = 2 => n.op \in AtLeast2) BY <3>2, ArityFacts
    <3>4. x \in Ids(c)
      <4>1. x >= 0 BY <1>1, <3>2, <3>3 DEF NodeFits
      <4> QED BY <3>3, <4>1, InputsOf
    <3>5. Nd(c, x).in[1] \in 0..(i - 1) BY <2>2, <3>3, <3>4, Narrower
    <3> QED BY <2>1, <2>2, <3>3, <3>5
  <2>3. CASE ~(j <= ar /\ Nd(c, x).op = "CvtF32ToF64") BY <2>1, <2>3
  <2> QED BY <2>2, <2>3
<1>4. DOMAIN in = 1..3 /\ in = [j \in 1..3 |-> in[j]] OBVIOUS
<1>5. "FStsw" \notin AtLeast1 BY DEF AtLeast1, AtLeast2, Ternary
<1> HIDE DEF n, in
<1>6. \A j \in 1..3 : in[j] \in Int BY <1>1, <1>3
<1>7. in \in [1..3 -> Int] BY <1>4, <1>6
<1>8. n.op # "FStsw" => \A j \in 1..3 : in[j] >= -1 /\ in[j] < i
  BY <1>1, <1>3 DEF NodeFits
<1>9. /\ n.op \in AtLeast1 => in[1] >= 0
      /\ n.op \in AtLeast2 => in[2] >= 0
      /\ n.op \in Ternary => in[3] >= 0
  BY <1>1, <1>3 DEF NodeFits
<1>10. NodeFits(m, i) BY <1>1, <1>2, <1>7, <1>8, <1>9 DEF NodeFits
<1> QED BY <1>0, <1>2, <1>10 DEF n

CA == INSTANCE LoopProofs WITH Step <- const_arith, Good <- PassWell
DS == INSTANCE LoopProofs WITH Step <- dse, Good <- PassWell
FN == INSTANCE LoopProofs WITH Step <- fneg_fold, Good <- PassWell
FM == INSTANCE LoopProofs WITH Step <- fma, Good <- PassWell
NR == INSTANCE LoopProofs WITH Step <- f32_narrow, Good <- PassWell
SF == INSTANCE LoopProofs WITH Step <- f32_fma, Good <- PassWell
BP == INSTANCE LoopProofs WITH Step <- bypass, Good <- BypassWell

\* A step that fits keeps the loop's invariant.
LEMMA FitWell ==
    ASSUME NEW c, NEW s, PassWell(c, s), NEW t, Fit(s, t) PROVE PassWell(c, t)
BY PassStep DEF Fit

\* The passes that scan the nodes once.
LEMMA PassesRefit ==
    ASSUME NEW c, Whole(c)
    PROVE  /\ Refit(c, pass_const_arith(c)) /\ Refit(c, pass_dse(c))
           /\ Refit(c, pass_fneg_fold(c)) /\ Refit(c, pass_fma(c))
           /\ Refit(c, pass_f32_narrow(c)) /\ Refit(c, pass_f32_fma(c))
<1> DEFINE s0 == Counted(c)
           q == IdSeq(c)
           r == IdSeqDown(c) \o IdSeqDown(c)
<1>1. Len(q) \in Nat /\ \A k \in 1..Len(q) : q[k] \in Ids(c) BY IdSeqs
<1>2. Len(r) \in Nat /\ \A k \in 1..Len(r) : r[k] \in Ids(c) BY IdSeqs
<1>3. PassWell(c, s0) BY CountedWell
<1>4. /\ pass_const_arith(c) = ConstArith!Over(s0, q).c /\ pass_dse(c) = Dse!Over(s0, r).c
      /\ pass_fneg_fold(c) = FnegFold!Over(s0, q).c /\ pass_fma(c) = Fma!Over(s0, q).c
      /\ pass_f32_narrow(c) = F32Narrow!Over(s0, q).c /\ pass_f32_fma(c) = F32Fma!Over(s0, q).c
  BY DEF pass_const_arith, pass_dse, pass_fneg_fold, pass_fma, pass_f32_narrow, pass_f32_fma
<1> HIDE DEF s0, q, r
<1>5. ASSUME NEW x, PassWell(c, x), NEW i \in Ids(c)
      PROVE  /\ PassWell(c, const_arith(x, i)) /\ PassWell(c, dse(x, i))
             /\ PassWell(c, fneg_fold(x, i)) /\ PassWell(c, fma(x, i))
             /\ PassWell(c, f32_narrow(x, i)) /\ PassWell(c, f32_fma(x, i))
  <2>1. Whole(x.c) /\ i \in Ids(x.c) /\ DOMAIN x = {"c", "u"} BY <1>5, PassWhole
  <2>2. Fit(x, const_arith(x, i)) BY <2>1, ConstArithStep DEF Fit
  <2>3. /\ Fit(x, dse(x, i)) /\ Fit(x, fneg_fold(x, i)) /\ Fit(x, fma(x, i))
        /\ Fit(x, f32_narrow(x, i)) /\ Fit(x, f32_fma(x, i))
    BY <2>1, DseStep, FnegStep, FmaSteps, NarrowStep
  <2> QED BY <1>5, <2>2, <2>3, FitWell
<1>6. PassWell(c, CA!Over(s0, q)) BY <1>1, <1>3, <1>5, CA!LoopKeeps
<1>7. PassWell(c, DS!Over(s0, r)) BY <1>2, <1>3, <1>5, DS!LoopKeeps
<1>8. PassWell(c, FN!Over(s0, q)) BY <1>1, <1>3, <1>5, FN!LoopKeeps
<1>9. PassWell(c, FM!Over(s0, q)) BY <1>1, <1>3, <1>5, FM!LoopKeeps
<1>10. PassWell(c, NR!Over(s0, q)) BY <1>1, <1>3, <1>5, NR!LoopKeeps
<1>11. PassWell(c, SF!Over(s0, q)) BY <1>1, <1>3, <1>5, SF!LoopKeeps
<1>12. CA!Over(s0, q) = ConstArith!Over(s0, q)
  BY DEF CA!Over, ConstArith!Over, CA!Turns, ConstArith!Turns
<1>13. DS!Over(s0, r) = Dse!Over(s0, r) BY DEF DS!Over, Dse!Over, DS!Turns, Dse!Turns
<1>14. FN!Over(s0, q) = FnegFold!Over(s0, q)
  BY DEF FN!Over, FnegFold!Over, FN!Turns, FnegFold!Turns
<1>15. FM!Over(s0, q) = Fma!Over(s0, q) BY DEF FM!Over, Fma!Over, FM!Turns, Fma!Turns
<1>16. NR!Over(s0, q) = F32Narrow!Over(s0, q)
  BY DEF NR!Over, F32Narrow!Over, NR!Turns, F32Narrow!Turns
<1>17. SF!Over(s0, q) = F32Fma!Over(s0, q)
  BY DEF SF!Over, F32Fma!Over, SF!Turns, F32Fma!Turns
<1> QED BY <1>4, <1>6, <1>7, <1>8, <1>9, <1>10, <1>11, <1>12, <1>13, <1>14, <1>15, <1>16, <1>17
        DEF PassWell

\* pass_f32_chain.
LEMMA ChainRefit == ASSUME NEW c, Whole(c) PROVE Refit(c, pass_f32_chain(c))
<1> DEFINE E == Eligible(c, {i \in Ids(c) : /\ Live(c, i) /\ ~Nd(c, i).f32
                                            /\ f32_narrowable_op(Nd(c, i).op)
                                            /\ \A d \in Depth : c.slot[d] # i})
           source(i, j) ==
               LET x == Nd(c, i).in[j]
               IN  IF j <= Arity(Nd(c, i).op) /\ Nd(c, x).op = "CvtF32ToF64"
                   THEN Nd(c, x).in[1] ELSE x
           m(x) == [c.nodes[x] EXCEPT !.f32 = TRUE, !.in = [j \in 1..3 |-> source(x - 1, j)]]
           f == [x \in DOMAIN c.nodes |-> IF x - 1 \in E THEN m(x) ELSE c.nodes[x]]
           flipped == [c EXCEPT !.nodes = f]
           copies == {i \in Ids(c) : Live(c, i) /\ Nd(c, i).op = "CvtF64ToF32"
                                     /\ Nd(c, i).in[1] \in E}
           s0 == [c |-> flipped, copies |-> copies]
           q == IdSeq(c)
<1>1. pass_f32_chain(c) = Bypass!Over(s0, q).c BY DEF pass_f32_chain
<1> HIDE DEF E
<1>2. Len(c.nodes) \in Nat /\ DOMAIN c.nodes = 1..Len(c.nodes) BY RowFacts DEF Whole, Nodes
<1>3. ASSUME NEW x \in 1..Len(c.nodes) PROVE NodeFits(f[x], x - 1) /\ f[x].op = c.nodes[x].op
  <2> DEFINE i == x - 1
  <2>1. i \in Ids(c) /\ Nd(c, i) = c.nodes[x] BY <1>2 DEF Ids, Nd
  <2>2. [j \in 1..3 |-> source(i, j)] = ChainInputs(c, i) BY DEF ChainInputs
  <2>3. m(x) = ChainNode(c, i) BY <2>1, <2>2 DEF ChainNode
  <2>4. f[x] = IF i \in E THEN m(x) ELSE c.nodes[x] BY <1>2
  <2> HIDE DEF m, f, i
  <2>5. NodeFits(ChainNode(c, i), i) /\ ChainNode(c, i).op = Nd(c, i).op BY <2>1, FlippedFits
  <2>6. NodeFits(m(x), i) /\ m(x).op = c.nodes[x].op BY <2>1, <2>3, <2>5
  <2>7. NodeFits(c.nodes[x], i) BY FitsAt DEF i
  <2> QED BY <2>4, <2>6, <2>7 DEF i
<1>4. Same(c, flipped, {"nodes"}) /\ flipped.nodes = f BY DEF Same, Whole, CtxFields
<1>5. flipped.nodes = [x \in 1..Len(c.nodes) |-> f[x]] BY <1>2, <1>4
<1> HIDE DEF f, m, flipped
<1>6. Refit(c, flipped)
  <2>1. \A x \in 1..Len(c.nodes) : NodeFits(f[x], x - 1) BY <1>3
  <2> QED BY <2>1, <1>4, <1>5, Revised
<1>7. BypassWell(c, s0)
  <2>1. ASSUME NEW i \in copies PROVE i \in Ids(c) /\ Nd(flipped, i).op = "CvtF64ToF32"
    <3>1. i \in Ids(c) /\ Nd(c, i).op = "CvtF64ToF32" BY <2>1
    <3>2. i + 1 \in 1..Len(c.nodes) BY <1>2, <3>1 DEF Ids
    <3> QED BY <1>3, <1>4, <3>1, <3>2 DEF Nd
  <2>2. DOMAIN s0 = {"c", "copies"} /\ s0.c = flipped /\ s0.copies = copies OBVIOUS
  <2> HIDE DEF s0, copies
  <2> QED BY <1>6, <2>1, <2>2 DEF BypassWell
<1>8. Len(q) \in Nat BY IdSeqs
<1> HIDE DEF s0, q
<1>9. \A x : \A k \in 1..Len(q) : BypassWell(c, x) => BypassWell(c, bypass(x, q[k]))
  BY BypassStep
<1>10. BypassWell(c, BP!Over(s0, q)) BY <1>7, <1>8, <1>9, BP!LoopKeeps
<1>11. BP!Over(s0, q) = Bypass!Over(s0, q) BY DEF BP!Over, Bypass!Over, BP!Turns, Bypass!Turns
<1> QED BY <1>1, <1>10, <1>11 DEF BypassWell

PassNames == {"dead_compares", "const_arith", "dse", "fneg_fold", "fma", "f32_narrow",
              "f32_chain", "f32_fma", "fcom_fstsw_fusion"}
\* The passes that are run have the names of passes.
LEMMA PassesKnown == Len(Passes) \in Nat /\ \A k \in 1..Len(Passes) : Passes[k] \in PassNames
<1> DEFINE a == <<"dead_compares", "const_arith", "dse", "fneg_fold">>
           b == <<"f32_narrow", "f32_chain", "f32_fma", "fma", "dse">>
           d == <<"fma">>
           k == <<"f32_narrow", "dse">>
           z == <<"fcom_fstsw_fusion">>
           f32 == "f32_narrow" \in Config
           m == IF f32 THEN k ELSE << >>
           mid == IF f32 /\ "f32_arith" \in Config THEN b ELSE d \o m
<1>1. a \in Seq(PassNames) /\ b \in Seq(PassNames) /\ d \in Seq(PassNames)
      /\ k \in Seq(PassNames) /\ z \in Seq(PassNames) /\ << >> \in Seq(PassNames)
  BY DEF PassNames
<1>2. Passes = a \o mid \o z BY DEF Passes
<1> HIDE DEF a, b, d, k, z
<1>3. m \in Seq(PassNames) BY <1>1
<1> HIDE DEF m
<1>4. d \o m \in Seq(PassNames) BY <1>1, <1>3
<1>5. mid \in Seq(PassNames) BY <1>1, <1>4
<1> HIDE DEF mid
<1>6. a \o mid \in Seq(PassNames) BY <1>1, <1>5
<1>7. Passes \in Seq(PassNames) BY <1>1, <1>2, <1>6
<1> QED BY <1>7

\* A pass keeps the context whole and its length.
LEMMA OptimizeRefit ==
    ASSUME NEW c, Whole(c), NEW p \in PassNames PROVE Refit(c, optimize(c, p))
<1>1. Refit(c, pass_dead_compares(c)) BY KillAllRefit DEF pass_dead_compares
<1>2. Refit(c, pass_fcom_fstsw_fusion(c)) BY KillAllRefit DEF pass_fcom_fstsw_fusion
<1>3. optimize(c, p) \in {pass_dead_compares(c), pass_const_arith(c), pass_dse(c),
                          pass_fneg_fold(c), pass_fma(c), pass_f32_narrow(c),
                          pass_f32_chain(c), pass_f32_fma(c), pass_fcom_fstsw_fusion(c)}
  BY DEF optimize, PassNames
<1> QED BY <1>1, <1>2, <1>3, PassesRefit, ChainRefit

(***************************************************************************)
(* What the passes leave alone: the nodes with an effect.                  *)
(***************************************************************************)
Values == {"ConstOne", "ConstZero", "ConstF64", "FAdd", "FSub", "FMul", "FDiv", "FNMul", "FMAdd",
           "FMSub", "FNMSub", "FNeg", "FAbs", "FSqrt", "CvtF32ToF64", "CvtF64ToF32"}
\* A pass may turn node n into node k.
Mild(n, k) ==
    /\ DOMAIN k = NodeFields /\ k.m = n.m
    /\ n.op \in SideEffects => k.dead = n.dead /\ (k.op = n.op \/ (IsCompare(n) /\ IsCompare(k)))
    /\ n.op \notin SideEffects => k.op \notin SideEffects
Tabled(c) == "nodes" \in DOMAIN c /\ \A x \in DOMAIN c.nodes : DOMAIN c.nodes[x] = NodeFields
Gentle(c, b) ==
    /\ "nodes" \in DOMAIN b /\ DOMAIN b.nodes = DOMAIN c.nodes
    /\ \A x \in DOMAIN c.nodes : Mild(c.nodes[x], b.nodes[x])
\* Node id, if there is one, has no effect.
Plain(c, id) == id + 1 \in DOMAIN c.nodes => c.nodes[id + 1].op \notin SideEffects

\* The operations that compute a value have no effect.
LEMMA ValuesPlain ==
    /\ \A op \in Values : op \notin SideEffects
    /\ {"FCmp", "FTst"} \subseteq SideEffects /\ "FStsw" \in SideEffects
<1>1. \A op \in GuestOps : GuestNode(op) \in {"GuestMovRR", "GuestMovRI", "GuestLea", "GuestExt",
                                              "GuestLoad", "GuestStoreR", "GuestStoreI"}
  BY DEF GuestOps, GuestNode
<1>2. \A op \in Values : op \notin {GuestNode(o) : o \in GuestOps} BY <1>1 DEF Values
<1>3. \A op \in Values :
         op \notin {"StoreF64", "StoreF32Raw", "StoreI32", "StoreI64", "FCmp", "FTst", "FStsw",
                    "FComI", "StoreCW", "LoadCW"}
  BY DEF Values
<1> QED BY <1>2, <1>3 DEF SideEffects

\* A whole context is a table of nodes.
LEMMA WholeTabled == ASSUME NEW c, Whole(c) PROVE Tabled(c) /\ DOMAIN c.nodes = 1..Len(c.nodes)
<1>1. DOMAIN c.nodes = 1..Len(c.nodes) BY RowFacts DEF Whole, Nodes
<1>2. \A x \in DOMAIN c.nodes : DOMAIN c.nodes[x] = NodeFields BY <1>1, FitsAt DEF NodeFits
<1> QED BY <1>1, <1>2 DEF Tabled, Whole, CtxFields

\* No change is a gentle one.
LEMMA GentleSelf == ASSUME NEW c, Tabled(c) PROVE Gentle(c, c)
BY DEF Gentle, Tabled, Mild

\* One gentle change after another is gentle.
LEMMA GentleTrans == ASSUME NEW c, NEW b, NEW a, Gentle(c, b), Gentle(b, a) PROVE Gentle(c, a)
<1>1. "nodes" \in DOMAIN a /\ DOMAIN a.nodes = DOMAIN c.nodes BY DEF Gentle
<1>2. ASSUME NEW x \in DOMAIN c.nodes PROVE Mild(c.nodes[x], a.nodes[x])
  <2> DEFINE n == c.nodes[x]
             k == b.nodes[x]
             l == a.nodes[x]
  <2>1. Mild(n, k) /\ Mild(k, l) BY DEF Gentle
  <2> HIDE DEF n, k, l
  <2>2. IsCompare(n) \/ IsCompare(k) => n.op \in SideEffects /\ k.op \in SideEffects
    BY <2>1, ValuesPlain DEF Mild, IsCompare
  <2>3. Mild(n, l) BY <2>1, <2>2, ValuesPlain DEF Mild, IsCompare
  <2> QED BY <2>3 DEF n, l
<1> QED BY <1>1, <1>2 DEF Gentle

\* What a gentle change leaves is a table of nodes.
LEMMA GentleTabled == ASSUME NEW c, NEW b, Gentle(c, b) PROVE Tabled(b)
BY DEF Gentle, Tabled, Mild

\* A node without an effect gets none.
LEMMA PlainKept == ASSUME NEW c, NEW b, Gentle(c, b), NEW id, Plain(c, id) PROVE Plain(b, id)
BY DEF Gentle, Plain, Mild

\* A node of a certain operation has no effect.
LEMMA PlainOf == ASSUME NEW c, NEW id, Nd(c, id).op \in Values PROVE Plain(c, id)
BY ValuesPlain DEF Plain, Nd

\* One node is replaced by k.
LEMMA OneGentle ==
    ASSUME NEW c, Tabled(c), NEW y, NEW k, NEW b, "nodes" \in DOMAIN b,
           b.nodes = [c.nodes EXCEPT ![y] = k], y \in DOMAIN c.nodes => Mild(c.nodes[y], k)
    PROVE  Gentle(c, b)
<1>1. DOMAIN b.nodes = DOMAIN c.nodes OBVIOUS
<1>2. ASSUME NEW x \in DOMAIN c.nodes PROVE Mild(c.nodes[x], b.nodes[x])
  <2>1. CASE x = y
    <3>1. b.nodes[x] = k /\ Mild(c.nodes[x], k) BY <2>1
    <3> QED BY <3>1
  <2>2. CASE x # y
    <3>1. b.nodes[x] = c.nodes[x] BY <2>2
    <3>2. Mild(c.nodes[x], c.nodes[x]) BY DEF Mild, Tabled
    <3> QED BY <3>1, <3>2
  <2> QED BY <2>1, <2>2
<1> QED BY <1>1, <1>2 DEF Gentle

\* Kill, of a node without an effect.
LEMMA KillGentle == ASSUME NEW c, Tabled(c), NEW id, Plain(c, id) PROVE Gentle(c, Kill(c, id))
<1> DEFINE y == id + 1
           k == [c.nodes[y] EXCEPT !.dead = TRUE]
           b == Kill(c, id)
<1>1. "nodes" \in DOMAIN b /\ b.nodes = [c.nodes EXCEPT ![y] = k] BY DEF Kill, Tabled
<1>2. y \in DOMAIN c.nodes => Mild(c.nodes[y], k)
  <2> SUFFICES ASSUME y \in DOMAIN c.nodes PROVE Mild(c.nodes[y], k) OBVIOUS
  <2> DEFINE n == c.nodes[y]
  <2>1. DOMAIN n = NodeFields /\ n.op \notin SideEffects BY DEF Tabled, Plain
  <2>2. k = [n EXCEPT !.dead = TRUE] OBVIOUS
  <2> HIDE DEF n, k, y
  <2>3. DOMAIN k = NodeFields /\ k.m = n.m /\ k.op = n.op BY <2>1, <2>2 DEF NodeFields
  <2> QED BY <2>1, <2>3 DEF Mild, n
<1> HIDE DEF y, k, b
<1>3. Gentle(c, b) BY <1>1, <1>2, OneGentle
<1> QED BY <1>3 DEF b

\* Rewrite, of a node without an effect to another or of a compare to FTST.
LEMMA RewriteGentle ==
    ASSUME NEW c, Tabled(c), NEW i, NEW op, NEW in,
           (Plain(c, i) /\ op \notin SideEffects) \/ (Nd(c, i).op = "FCmp" /\ op = "FTst")
    PROVE  Gentle(c, Rewrite(c, i, op, in))
<1> DEFINE y == i + 1
           k == [c.nodes[y] EXCEPT !.op = op, !.in = in]
           b == Rewrite(c, i, op, in)
<1>1. "nodes" \in DOMAIN b /\ b.nodes = [c.nodes EXCEPT ![y] = k] BY DEF Rewrite, Tabled
<1>2. y \in DOMAIN c.nodes => Mild(c.nodes[y], k)
  <2> SUFFICES ASSUME y \in DOMAIN c.nodes PROVE Mild(c.nodes[y], k) OBVIOUS
  <2> DEFINE n == c.nodes[y]
  <2>1. DOMAIN n = NodeFields BY DEF Tabled
  <2>2. (n.op \notin SideEffects /\ op \notin SideEffects) \/ (n.op = "FCmp" /\ op = "FTst")
    BY DEF Plain, Nd
  <2>3. k = [n EXCEPT !.op = op, !.in = in] OBVIOUS
  <2> HIDE DEF n, k, y
  <2>4. DOMAIN k = NodeFields /\ k.m = n.m /\ k.op = op /\ k.dead = n.dead
    BY <2>1, <2>3 DEF NodeFields
  <2> QED BY <2>2, <2>4, ValuesPlain DEF Mild, n, IsCompare
<1> HIDE DEF y, k, b
<1>3. Gentle(c, b) BY <1>1, <1>2, OneGentle
<1> QED BY <1>3 DEF b

\* A mark or a constant of a node.
LEMMA MarkGentle ==
    ASSUME NEW c, Tabled(c), NEW id, NEW z
    PROVE  /\ Gentle(c, [c EXCEPT !.nodes[id + 1].f32 = TRUE])
           /\ Gentle(c, [c EXCEPT !.nodes[id + 1].v = z])
<1> DEFINE y == id + 1
           n == c.nodes[y]
           k1 == [n EXCEPT !.f32 = TRUE]
           k2 == [n EXCEPT !.v = z]
           b1 == [c EXCEPT !.nodes[y].f32 = TRUE]
           b2 == [c EXCEPT !.nodes[y].v = z]
<1>1. /\ "nodes" \in DOMAIN b1 /\ b1.nodes = [c.nodes EXCEPT ![y] = k1]
      /\ "nodes" \in DOMAIN b2 /\ b2.nodes = [c.nodes EXCEPT ![y] = k2]
  BY DEF Tabled
<1>2. y \in DOMAIN c.nodes => Mild(n, k1) /\ Mild(n, k2)
  <2> SUFFICES ASSUME y \in DOMAIN c.nodes PROVE Mild(n, k1) /\ Mild(n, k2) OBVIOUS
  <2>1. DOMAIN n = NodeFields BY DEF Tabled
  <2> HIDE DEF n
  <2>2. /\ DOMAIN k1 = NodeFields /\ k1.m = n.m /\ k1.op = n.op /\ k1.dead = n.dead
        /\ DOMAIN k2 = NodeFields /\ k2.m = n.m /\ k2.op = n.op /\ k2.dead = n.dead
    BY <2>1 DEF NodeFields
  <2> QED BY <2>2 DEF Mild
<1>3. y \in DOMAIN c.nodes => Mild(c.nodes[y], k1) /\ Mild(c.nodes[y], k2) BY <1>2
<1> HIDE DEF y, k1, k2, b1, b2, n
<1>4. Gentle(c, b1) /\ Gentle(c, b2) BY <1>1, <1>3, OneGentle
<1> QED BY <1>4 DEF b1, b2, y

\* Every use of a node becomes a use of another.
LEMMA ReplaceGentle ==
    ASSUME NEW c, Tabled(c), NEW i, NEW keep, NEW t
    PROVE  /\ Gentle(c, Replace(c, i, keep))
           /\ Gentle(c, [Replace(c, i, keep) EXCEPT !.slot = t])
<1> DEFINE k(x) == [c.nodes[x] EXCEPT !.in = [j \in 1..3 |-> IF @[j] = i THEN keep ELSE @[j]]]
           f == [x \in DOMAIN c.nodes |-> IF c.nodes[x].dead THEN c.nodes[x] ELSE k(x)]
           b == Replace(c, i, keep)
           a == [b EXCEPT !.slot = t]
<1>1. "nodes" \in DOMAIN b /\ b.nodes = f BY DEF Replace, Tabled
<1> HIDE DEF b
<1>2. "nodes" \in DOMAIN a /\ a.nodes = f BY <1>1
<1>3. ASSUME NEW x \in DOMAIN c.nodes PROVE Mild(c.nodes[x], f[x])
  <2> DEFINE n == c.nodes[x]
  <2>1. DOMAIN n = NodeFields BY DEF Tabled
  <2>2. f[x] = n \/ f[x] = k(x) OBVIOUS
  <2>3. DOMAIN k(x) = NodeFields /\ k(x).m = n.m /\ k(x).op = n.op /\ k(x).dead = n.dead
    <3> DEFINE w == [j \in 1..3 |-> IF n.in[j] = i THEN keep ELSE n.in[j]]
    <3>1. k(x) = [n EXCEPT !.in = w] OBVIOUS
    <3> HIDE DEF w, n, k
    <3> QED BY <2>1, <3>1 DEF NodeFields
  <2> HIDE DEF f, k, n
  <2>4. Mild(n, f[x]) BY <2>1, <2>2, <2>3 DEF Mild
  <2> QED BY <2>4 DEF n
<1>4. DOMAIN f = DOMAIN c.nodes OBVIOUS
<1> HIDE DEF f, a
<1> QED BY <1>1, <1>2, <1>3, <1>4 DEF Gentle, a, b

\* DropUse kills at most a node without an effect.
LEMMA DropUseGentle ==
    ASSUME NEW s, Tabled(s.c), NEW id, Plain(s.c, id)
    PROVE  DOMAIN DropUse(s, id) = {"c", "u"} /\ Gentle(s.c, DropUse(s, id).c)
<1> DEFINE u == Bump(s.u, id, -1)
           b == IF u[id] = 0 THEN Kill(s.c, id) ELSE s.c
<1>1. DropUse(s, id) = [c |-> b, u |-> u] BY DEF DropUse
<1>2. Gentle(s.c, b) BY KillGentle, GentleSelf
<1> HIDE DEF b, u
<1> QED BY <1>1, <1>2

Spares(s, t) == DOMAIN t = {"c", "u"} /\ Gentle(s.c, t.c)

\* A node folded into one of its inputs.
LEMMA FoldToGentle ==
    ASSUME NEW s, Tabled(s.c), NEW i, NEW keep, NEW const, Plain(s.c, i), Plain(s.c, const)
    PROVE  Spares(s, fold_to(s, i, keep, const))
<1> DEFINE r == Replace(s.c, i, keep)
           k == Kill(r, i)
           t == [c |-> k, u |-> [Bump(s.u, keep, s.u[i] - 1) EXCEPT ![i] = 0]]
<1>1. fold_to(s, i, keep, const) = DropUse(t, const) BY DEF fold_to
<1>2. Gentle(s.c, r) BY ReplaceGentle
<1> HIDE DEF r
<1>3. Gentle(r, k) BY <1>2, GentleTabled, PlainKept, KillGentle
<1> HIDE DEF k
<1>4. Gentle(s.c, k) /\ t.c = k BY <1>2, <1>3, GentleTrans
<1> HIDE DEF t
<1>5. Tabled(t.c) /\ Plain(t.c, const) BY <1>4, GentleTabled, PlainKept
<1>6. DOMAIN DropUse(t, const) = {"c", "u"} /\ Gentle(t.c, DropUse(t, const).c)
  BY <1>5, DropUseGentle
<1> QED BY <1>1, <1>4, <1>6, GentleTrans DEF Spares

\* A node absorbed by its user.
LEMMA AbsorbGentle ==
    ASSUME NEW s, Tabled(s.c), NEW i, NEW x, NEW op, NEW in, Plain(s.c, i), Plain(s.c, x),
           op \notin SideEffects
    PROVE  Spares(s, Absorb(s, i, x, op, in))
<1> DEFINE r == Rewrite(s.c, i, op, in)
           k == Kill(r, x)
           w == Bump(Bump([s.u EXCEPT ![x] = 0], Nd(s.c, x).in[1], 1), Nd(s.c, x).in[2], 1)
<1>1. Absorb(s, i, x, op, in) = [c |-> k, u |-> w] BY DEF Absorb
<1>2. Gentle(s.c, r) BY RewriteGentle
<1> HIDE DEF r
<1>3. Gentle(r, k) BY <1>2, GentleTabled, PlainKept, KillGentle
<1> HIDE DEF k, w
<1>4. Gentle(s.c, k) BY <1>2, <1>3, GentleTrans
<1> QED BY <1>1, <1>4 DEF Spares

\* A turn of pass_dse.
LEMMA DseGentle ==
    ASSUME NEW s, DOMAIN s = {"c", "u"}, Tabled(s.c), NEW i PROVE Spares(s, dse(s, i))
<1> DEFINE n == Nd(s.c, i)
           dec(u, j) == Bump(u, n.in[j], -1)
           w == dec(dec(dec(s.u, 1), 2), 3)
           k == Kill(s.c, i)
<1>1. dse(s, i) = s \/ (n.op \notin SideEffects /\ dse(s, i) = [c |-> k, u |-> w]) BY DEF dse
<1>2. Gentle(s.c, s.c) BY GentleSelf
<1>3. n.op \notin SideEffects => Gentle(s.c, k) BY KillGentle DEF Plain, Nd
<1> HIDE DEF k, w, n
<1> QED BY <1>1, <1>2, <1>3 DEF Spares

\* A turn of pass_const_arith.
LEMMA ConstArithGentle ==
    ASSUME NEW s, DOMAIN s = {"c", "u"}, Tabled(s.c), NEW i PROVE Spares(s, const_arith(s, i))
<1> DEFINE n == Nd(s.c, i)
           a == n.in[1]
           b == n.in[2]
           v == Nd(s.c, b).v
           rw == Rewrite(s.c, i, "FMul", n.in)
           dv == [rw EXCEPT !.nodes[b + 1].v = F("div", One, v)]
           div == [s EXCEPT !.c = dv]
           ts == Rewrite(s.c, i, "FTst", <<a, NoNode, n.in[3]>>)
           tst == DropUse([s EXCEPT !.c = ts], b)
           new == const_arith(s, i)
           ca == Nd(s.c, a).op \in Values
           cb == Nd(s.c, b).op \in Values
           o == n.op
<1>1. \/ o \in {"FMul", "FDiv", "FSub"} /\ cb /\ new = fold_to(s, i, a, b)
      \/ o \in {"FMul", "FDiv", "FSub"} /\ ca /\ new = fold_to(s, i, b, a)
      \/ o = "FDiv" /\ new = div
      \/ o = "FCmp" /\ cb /\ new = tst
      \/ new = s
  <2> DEFINE p1 == n.dead
             p2 == const_is(s.c, b, One)
             p3 == const_is(s.c, a, One)
             p4 == const_is(s.c, b, Zero)
             p5 == Live(s.c, b)
             p6 == /\ Nd(s.c, b).op = "ConstF64" /\ s.u[b] = 1
                   /\ \/ Pow2(Nd(s.c, b).v)
                      \/ "fast_recip_div" \in Config /\ Nd(s.c, b).v # Zero
             f1 == fold_to(s, i, a, b)
             f2 == fold_to(s, i, b, a)
  <2>1. new = IF p1 THEN s ELSE
              CASE o \in {"FMul", "FDiv"} /\ p2 -> f1
                [] o = "FMul" /\ p3 /\ ~p2 -> f2
                [] o = "FSub" /\ p4 -> f1
                [] o = "FDiv" /\ p5 /\ ~p2 -> IF p6 THEN div ELSE s
                [] o = "FCmp" /\ p4 -> tst
                [] OTHER -> s
    BY DEF const_arith
  <2>2. (p2 => cb) /\ (p3 => ca) /\ (p4 => cb) BY DEF const_is, Values
  <2> HIDE DEF new, p1, p2, p3, p4, p5, p6, f1, f2, div, tst, o, ca, cb
  <2>3. \/ o \in {"FMul", "FDiv", "FSub"} /\ cb /\ new = f1
        \/ o \in {"FMul", "FDiv", "FSub"} /\ ca /\ new = f2
        \/ o = "FDiv" /\ new = div
        \/ o = "FCmp" /\ cb /\ new = tst
        \/ new = s
    BY <2>1, <2>2
  <2> QED BY <2>3 DEF f1, f2
<1>2. Spares(s, s) BY GentleSelf DEF Spares
<1>3. o \in Values => Plain(s.c, i) BY PlainOf
<1>4. (ca => Plain(s.c, a)) /\ (cb => Plain(s.c, b)) BY PlainOf
<1>5. {"FMul", "FDiv", "FSub"} \subseteq Values BY DEF Values
<1>6. o = "FDiv" => Spares(s, div)
  <2> SUFFICES ASSUME o = "FDiv" PROVE Spares(s, div) OBVIOUS
  <2>1. Plain(s.c, i) /\ "FMul" \notin SideEffects BY <1>3, <1>5, ValuesPlain
  <2>2. Gentle(s.c, rw) BY <2>1, RewriteGentle
  <2> HIDE DEF rw
  <2>3. Gentle(rw, dv)
    <3> DEFINE w == F("div", One, v)
    <3>1. Tabled(rw) BY <2>2, GentleTabled
    <3>2. dv = [rw EXCEPT !.nodes[b + 1].v = w] OBVIOUS
    <3> HIDE DEF w, v, b, n, dv
    <3> QED BY <3>1, <3>2, MarkGentle
  <2> HIDE DEF dv
  <2>4. DOMAIN div = {"c", "u"} /\ div.c = dv OBVIOUS
  <2> QED BY <2>2, <2>3, <2>4, GentleTrans DEF Spares
<1>7. o = "FCmp" /\ cb => Spares(s, tst)
  <2> SUFFICES ASSUME o = "FCmp", cb PROVE Spares(s, tst) OBVIOUS
  <2>1. Gentle(s.c, ts) BY RewriteGentle
  <2> HIDE DEF ts
  <2> DEFINE t == [s EXCEPT !.c = ts]
  <2>2. t.c = ts OBVIOUS
  <2>3. Plain(ts, b) /\ Tabled(ts) BY <1>4, <2>1, PlainKept, GentleTabled
  <2> HIDE DEF t, b
  <2>4. DOMAIN DropUse(t, b) = {"c", "u"} /\ Gentle(t.c, DropUse(t, b).c)
    BY <2>2, <2>3, DropUseGentle
  <2> QED BY <2>1, <2>2, <2>4, GentleTrans DEF t, Spares
<1> HIDE DEF new, n, a, b, div, tst, o, ca, cb
<1>8. o \in {"FMul", "FDiv", "FSub"} /\ cb => Spares(s, fold_to(s, i, a, b))
  BY <1>3, <1>4, <1>5, FoldToGentle
<1>9. o \in {"FMul", "FDiv", "FSub"} /\ ca => Spares(s, fold_to(s, i, b, a))
  BY <1>3, <1>4, <1>5, FoldToGentle
<1>10. Spares(s, new) BY <1>1, <1>2, <1>6, <1>7, <1>8, <1>9
<1> QED BY <1>10 DEF new

\* A turn of pass_fneg_fold.
LEMMA FnegGentle ==
    ASSUME NEW s, DOMAIN s = {"c", "u"}, Tabled(s.c), NEW i PROVE Spares(s, fneg_fold(s, i))
<1> DEFINE n == Nd(s.c, i)
           a == n.in[1]
           b == n.in[2]
           z == n.in[3]
           op1 == IF n.op = "FAdd" THEN "FSub" ELSE "FAdd"
           r1 == Absorb(s, i, b, op1, <<a, Nd(s.c, b).in[1], z>>)
           r2 == Absorb(s, i, a, "FSub", <<b, Nd(s.c, a).in[1], z>>)
           r3 == Absorb(s, i, a, "FNMul", <<Nd(s.c, a).in[1], Nd(s.c, a).in[2], z>>)
           p1 == SingleUse(s, b, "FNeg")
           p2 == SingleUse(s, a, "FNeg")
           p3 == SingleUse(s, a, "FMul")
           new == fneg_fold(s, i)
           o == n.op
<1>1. new = IF n.dead THEN s ELSE
            CASE o \in {"FAdd", "FSub"} /\ p1 -> r1
              [] o = "FAdd" /\ ~p1 /\ p2 -> r2
              [] o = "FNeg" /\ p3 -> r3
              [] OTHER -> s
  BY DEF fneg_fold
<1>2. \/ new = s
      \/ o \in {"FAdd", "FSub"} /\ p1 /\ new = r1
      \/ o = "FAdd" /\ p2 /\ new = r2
      \/ o = "FNeg" /\ p3 /\ new = r3
  <2> HIDE DEF new, p1, p2, p3, r1, r2, r3, o
  <2> QED BY <1>1
<1>3. Spares(s, s) BY GentleSelf DEF Spares
<1>4. {"FAdd", "FSub", "FNeg", "FMul", "FNMul"} \subseteq Values BY DEF Values
<1>5. o \in {"FAdd", "FSub", "FNeg"} => Plain(s.c, i) BY <1>4, PlainOf
<1>6. (p1 => Plain(s.c, b)) /\ (p2 \/ p3 => Plain(s.c, a)) BY <1>4, PlainOf DEF SingleUse
<1>7. op1 \notin SideEffects /\ "FSub" \notin SideEffects /\ "FNMul" \notin SideEffects
  BY <1>4, ValuesPlain
<1> HIDE DEF p1, p2, p3, op1, o
<1>8. o \in {"FAdd", "FSub"} /\ p1 => Spares(s, r1) BY <1>5, <1>6, <1>7, AbsorbGentle
<1>9. o = "FAdd" /\ p2 => Spares(s, r2) BY <1>5, <1>6, <1>7, AbsorbGentle
<1>10. o = "FNeg" /\ p3 => Spares(s, r3) BY <1>5, <1>6, <1>7, AbsorbGentle
<1> HIDE DEF new, r1, r2, r3
<1>11. Spares(s, new) BY <1>2, <1>3, <1>8, <1>9, <1>10
<1> QED BY <1>11 DEF new

\* A product fused into a sum.
LEMMA FuseGentle ==
    ASSUME NEW s, DOMAIN s = {"c", "u"}, Tabled(s.c), NEW i, NEW muls,
           \A x \in muls : Nd(s.c, x).op = "FMul"
    PROVE  Spares(s, Fuse(s, i, muls))
<1> DEFINE n == Nd(s.c, i)
           a == n.in[1]
           b == n.in[2]
           r(x, y, f) == Absorb(s, i, x, FmaOp(n.op, f), <<Nd(s.c, x).in[1], Nd(s.c, x).in[2], y>>)
           new == Fuse(s, i, muls)
           o == n.op
<1>1. \/ new = s
      \/ o \in {"FAdd", "FSub"} /\ a \in muls /\ new = r(a, b, TRUE)
      \/ o \in {"FAdd", "FSub"} /\ b \in muls /\ new = r(b, a, FALSE)
  BY DEF Fuse
<1>2. Spares(s, s) BY GentleSelf DEF Spares
<1>3. {"FAdd", "FSub", "FMul", "FMAdd", "FMSub", "FNMSub"} \subseteq Values BY DEF Values
<1>4. o \in {"FAdd", "FSub"} => Plain(s.c, i) BY <1>3, PlainOf
<1>5. \A f : FmaOp(n.op, f) \notin SideEffects BY <1>3, ValuesPlain DEF FmaOp
<1>6. \A x \in muls : Plain(s.c, x) BY <1>3, PlainOf
<1>7. ASSUME o \in {"FAdd", "FSub"}, NEW x \in muls, NEW y, NEW f PROVE Spares(s, r(x, y, f))
  <2> DEFINE op == FmaOp(n.op, f)
             in == <<Nd(s.c, x).in[1], Nd(s.c, x).in[2], y>>
  <2>1. op \notin SideEffects BY <1>5
  <2>2. Plain(s.c, i) /\ Plain(s.c, x) BY <1>4, <1>6, <1>7
  <2> HIDE DEF op, in
  <2>3. Spares(s, Absorb(s, i, x, op, in)) BY <2>1, <2>2, AbsorbGentle
  <2> QED BY <2>3 DEF op, in
<1> HIDE DEF new, a, b, r, o
<1>8. Spares(s, new) BY <1>1, <1>2, <1>7
<1> QED BY <1>8 DEF new

\* A turn of pass_fma and of pass_f32_fma.
LEMMA FmaGentle ==
    ASSUME NEW s, DOMAIN s = {"c", "u"}, Tabled(s.c), NEW i
    PROVE  Spares(s, fma(s, i)) /\ Spares(s, f32_fma(s, i))
<1> DEFINE m1 == {x \in Ids(s.c) : SingleUse(s, x, "FMul")}
           m2 == {x \in Ids(s.c) : SingleUse(s, x, "FMul") /\ Nd(s.c, x).f32}
<1>1. \A x \in m1 : Nd(s.c, x).op = "FMul" BY DEF SingleUse
<1>2. \A x \in m2 : Nd(s.c, x).op = "FMul" BY DEF SingleUse
<1>3. fma(s, i) = Fuse(s, i, m1) BY DEF fma
<1>4. f32_fma(s, i) = s \/ f32_fma(s, i) = Fuse(s, i, m2) BY DEF f32_fma
<1> HIDE DEF m1, m2
<1>5. Spares(s, Fuse(s, i, m1)) /\ Spares(s, Fuse(s, i, m2)) BY <1>1, <1>2, FuseGentle
<1>6. Spares(s, s) BY GentleSelf DEF Spares
<1> QED BY <1>3, <1>4, <1>5, <1>6

\* A turn of pass_f32_narrow.
LEMMA NarrowGentle ==
    ASSUME NEW s, DOMAIN s = {"c", "u"}, Tabled(s.c), NEW i PROVE Spares(s, f32_narrow(s, i))
<1> DEFINE n == Nd(s.c, i)
           x == n.in[1]
           xn == Nd(s.c, x)
           ar == Arity(xn.op)
           wide(j) == Live(s.c, xn.in[j]) /\ Nd(s.c, xn.in[j]).op = "CvtF32ToF64"
           raw(j) == IF j <= ar THEN Nd(s.c, xn.in[j]).in[1] ELSE NoNode
           rw == Rewrite(s.c, i, xn.op, <<raw(1), raw(2), n.in[3]>>)
           mk == [rw EXCEPT !.nodes[i + 1].f32 = TRUE]
           kl == Kill(mk, x)
           flip == [c |-> kl, u |-> [s.u EXCEPT ![x] = 0]]
           unwrap(t, j) == LET d == DropUse(t, xn.in[j]) IN [d EXCEPT !.u = Bump(@, raw(j), 1)]
           cond == /\ ~n.dead /\ n.op = "CvtF64ToF32"
                   /\ Live(s.c, x) /\ ~xn.f32 /\ ar > 0 /\ s.u[x] = 1
                   /\ \A j \in 1..ar : wide(j)
           u1 == unwrap(flip, 1)
           u2 == unwrap(u1, 2)
           new == f32_narrow(s, i)
<1>1. new = s \/ (cond /\ new = u1) \/ (cond /\ ar # 1 /\ new = u2)
  <2>1. new = IF cond THEN IF ar = 1 THEN u1 ELSE u2 ELSE s BY DEF f32_narrow
  <2> HIDE DEF new, cond, u1, u2
  <2> QED BY <2>1
<1>2. Spares(s, s) BY GentleSelf DEF Spares
<1>3. ASSUME cond PROVE Spares(s, flip) /\ ar \in {1, 2}
  <2>1. ar \in {1, 2} BY <1>3, ArityFacts
  <2>2. xn.op \in {"FAdd", "FSub", "FMul", "FDiv", "FNMul", "FNeg", "FAbs", "FSqrt"}
    BY <2>1 DEF Arity
  <2>3. xn.op \in Values /\ n.op \in Values BY <1>3, <2>2 DEF Values
  <2>4. Plain(s.c, i) /\ Plain(s.c, x) /\ xn.op \notin SideEffects BY <2>3, PlainOf, ValuesPlain
  <2>5. Gentle(s.c, rw) BY <2>4, RewriteGentle
  <2> HIDE DEF rw
  <2>6. Gentle(rw, mk) BY <2>5, GentleTabled, MarkGentle
  <2> HIDE DEF mk
  <2>7. Gentle(s.c, mk) BY <2>5, <2>6, GentleTrans
  <2>8. Gentle(mk, kl) BY <2>4, <2>7, GentleTabled, PlainKept, KillGentle
  <2> HIDE DEF kl
  <2>9. Gentle(s.c, kl) BY <2>7, <2>8, GentleTrans
  <2> QED BY <2>1, <2>9 DEF Spares
<1>4. ASSUME cond, NEW j \in 1..ar, NEW t, Spares(s, t) PROVE Spares(s, unwrap(t, j))
  <2> DEFINE y == xn.in[j]
             d == DropUse(t, y)
             w == [d EXCEPT !.u = Bump(@, raw(j), 1)]
  <2>1. Nd(s.c, y).op \in Values BY <1>4 DEF Values
  <2> HIDE DEF y
  <2>2. Plain(t.c, y) /\ Tabled(t.c) BY <1>4, <2>1, PlainOf, PlainKept, GentleTabled DEF Spares
  <2>3. DOMAIN d = {"c", "u"} /\ Gentle(t.c, d.c) BY <2>2, DropUseGentle
  <2> HIDE DEF d
  <2>4. DOMAIN w = {"c", "u"} /\ w.c = d.c BY <2>3
  <2> HIDE DEF w
  <2>5. Spares(s, w) BY <1>4, <2>3, <2>4, GentleTrans DEF Spares
  <2> QED BY <2>5 DEF w, d, y
<1> HIDE DEF unwrap, flip, cond, ar
<1>5. cond => 1 \in 1..ar /\ (ar # 1 => 2 \in 1..ar) BY <1>3
<1>6. cond => Spares(s, u1) BY <1>3, <1>4, <1>5
<1> HIDE DEF u1
<1>7. cond /\ ar # 1 => Spares(s, u2) BY <1>4, <1>5, <1>6
<1> HIDE DEF u2, new
<1>8. Spares(s, new) BY <1>1, <1>2, <1>6, <1>7
<1> QED BY <1>8 DEF new

\* The nodes a chain is made of keep their operations.
LEMMA BypassGentle ==
    ASSUME NEW c, NEW s, "c" \in DOMAIN s, Gentle(c, s.c), NEW i, i \in s.copies => Plain(c, i)
    PROVE  /\ "c" \in DOMAIN bypass(s, i) /\ Gentle(c, bypass(s, i).c)
           /\ bypass(s, i).copies = s.copies
<1>1. CASE i \notin s.copies BY <1>1 DEF bypass
<1>2. CASE i \in s.copies
  <2> DEFINE r == [Replace(s.c, i, Nd(s.c, i).in[1]) EXCEPT !.slot = s.c.slot]
             k == Kill(r, i)
             t == [s EXCEPT !.c = k]
  <2>1. bypass(s, i) = t BY <1>2 DEF bypass
  <2>2. Gentle(s.c, r) BY GentleTabled, ReplaceGentle
  <2> HIDE DEF r
  <2>3. Gentle(c, r) BY <2>2, GentleTrans
  <2>4. Gentle(r, k) BY <1>2, <2>3, GentleTabled, PlainKept, KillGentle
  <2> HIDE DEF k
  <2>5. Gentle(c, k) BY <2>3, <2>4, GentleTrans
  <2>6. t.c = k /\ t.copies = s.copies /\ "c" \in DOMAIN t OBVIOUS
  <2> HIDE DEF t
  <2> QED BY <2>1, <2>5, <2>6
<1> QED BY <1>1, <1>2

PassGentle(c, s) == DOMAIN s = {"c", "u"} /\ Gentle(c, s.c)
ChainGentle(c, s) ==
    "c" \in DOMAIN s /\ Gentle(c, s.c) /\ \A i \in s.copies : Plain(c, i)
CAg == INSTANCE LoopProofs WITH Step <- const_arith, Good <- PassGentle
DSg == INSTANCE LoopProofs WITH Step <- dse, Good <- PassGentle
FNg == INSTANCE LoopProofs WITH Step <- fneg_fold, Good <- PassGentle
FMg == INSTANCE LoopProofs WITH Step <- fma, Good <- PassGentle
NRg == INSTANCE LoopProofs WITH Step <- f32_narrow, Good <- PassGentle
SFg == INSTANCE LoopProofs WITH Step <- f32_fma, Good <- PassGentle
BPg == INSTANCE LoopProofs WITH Step <- bypass, Good <- ChainGentle

\* The passes that scan the nodes.
LEMMA PassesGentle ==
    ASSUME NEW c, Whole(c)
    PROVE  /\ Gentle(c, pass_const_arith(c)) /\ Gentle(c, pass_dse(c))
           /\ Gentle(c, pass_fneg_fold(c)) /\ Gentle(c, pass_fma(c))
           /\ Gentle(c, pass_f32_narrow(c)) /\ Gentle(c, pass_f32_fma(c))
<1> DEFINE s0 == Counted(c)
           q == IdSeq(c)
           r == IdSeqDown(c) \o IdSeqDown(c)
<1>1. Len(q) \in Nat /\ Len(r) \in Nat BY IdSeqs
<1>2. Tabled(c) BY WholeTabled
<1>3. PassGentle(c, s0) BY <1>2, GentleSelf DEF PassGentle, Counted
<1>4. /\ pass_const_arith(c) = ConstArith!Over(s0, q).c /\ pass_dse(c) = Dse!Over(s0, r).c
      /\ pass_fneg_fold(c) = FnegFold!Over(s0, q).c /\ pass_fma(c) = Fma!Over(s0, q).c
      /\ pass_f32_narrow(c) = F32Narrow!Over(s0, q).c /\ pass_f32_fma(c) = F32Fma!Over(s0, q).c
  BY DEF pass_const_arith, pass_dse, pass_fneg_fold, pass_fma, pass_f32_narrow, pass_f32_fma
<1> HIDE DEF s0, q, r
<1>5. ASSUME NEW x, PassGentle(c, x), NEW i
      PROVE  /\ PassGentle(c, const_arith(x, i)) /\ PassGentle(c, dse(x, i))
             /\ PassGentle(c, fneg_fold(x, i)) /\ PassGentle(c, fma(x, i))
             /\ PassGentle(c, f32_narrow(x, i)) /\ PassGentle(c, f32_fma(x, i))
  <2>1. DOMAIN x = {"c", "u"} /\ Tabled(x.c) BY <1>5, GentleTabled DEF PassGentle
  <2>2. /\ Spares(x, const_arith(x, i)) /\ Spares(x, dse(x, i)) /\ Spares(x, fneg_fold(x, i))
        /\ Spares(x, fma(x, i)) /\ Spares(x, f32_narrow(x, i)) /\ Spares(x, f32_fma(x, i))
    BY <2>1, ConstArithGentle, DseGentle, FnegGentle, FmaGentle, NarrowGentle
  <2>3. \A t : Spares(x, t) => PassGentle(c, t) BY <1>5, GentleTrans DEF PassGentle, Spares
  <2> QED BY <2>2, <2>3
<1>6. PassGentle(c, CAg!Over(s0, q)) BY <1>1, <1>3, <1>5, CAg!LoopKeeps
<1>7. PassGentle(c, DSg!Over(s0, r)) BY <1>1, <1>3, <1>5, DSg!LoopKeeps
<1>8. PassGentle(c, FNg!Over(s0, q)) BY <1>1, <1>3, <1>5, FNg!LoopKeeps
<1>9. PassGentle(c, FMg!Over(s0, q)) BY <1>1, <1>3, <1>5, FMg!LoopKeeps
<1>10. PassGentle(c, NRg!Over(s0, q)) BY <1>1, <1>3, <1>5, NRg!LoopKeeps
<1>11. PassGentle(c, SFg!Over(s0, q)) BY <1>1, <1>3, <1>5, SFg!LoopKeeps
<1>12. CAg!Over(s0, q) = ConstArith!Over(s0, q)
  BY DEF CAg!Over, ConstArith!Over, CAg!Turns, ConstArith!Turns
<1>13. DSg!Over(s0, r) = Dse!Over(s0, r) BY DEF DSg!Over, Dse!Over, DSg!Turns, Dse!Turns
<1>14. FNg!Over(s0, q) = FnegFold!Over(s0, q)
  BY DEF FNg!Over, FnegFold!Over, FNg!Turns, FnegFold!Turns
<1>15. FMg!Over(s0, q) = Fma!Over(s0, q) BY DEF FMg!Over, Fma!Over, FMg!Turns, Fma!Turns
<1>16. NRg!Over(s0, q) = F32Narrow!Over(s0, q)
  BY DEF NRg!Over, F32Narrow!Over, NRg!Turns, F32Narrow!Turns
<1>17. SFg!Over(s0, q) = F32Fma!Over(s0, q)
  BY DEF SFg!Over, F32Fma!Over, SFg!Turns, F32Fma!Turns
<1> QED BY <1>4, <1>6, <1>7, <1>8, <1>9, <1>10, <1>11, <1>12, <1>13, <1>14, <1>15, <1>16, <1>17
        DEF PassGentle

\* pass_f32_chain.
LEMMA ChainIsGentle == ASSUME NEW c, Whole(c) PROVE Gentle(c, pass_f32_chain(c))
<1> DEFINE E == Eligible(c, {i \in Ids(c) : /\ Live(c, i) /\ ~Nd(c, i).f32
                                            /\ f32_narrowable_op(Nd(c, i).op)
                                            /\ \A d \in Depth : c.slot[d] # i})
           source(i, j) ==
               LET x == Nd(c, i).in[j]
               IN  IF j <= Arity(Nd(c, i).op) /\ Nd(c, x).op = "CvtF32ToF64"
                   THEN Nd(c, x).in[1] ELSE x
           m(x) == [c.nodes[x] EXCEPT !.f32 = TRUE, !.in = [j \in 1..3 |-> source(x - 1, j)]]
           f == [x \in DOMAIN c.nodes |-> IF x - 1 \in E THEN m(x) ELSE c.nodes[x]]
           flipped == [c EXCEPT !.nodes = f]
           copies == {i \in Ids(c) : Live(c, i) /\ Nd(c, i).op = "CvtF64ToF32"
                                     /\ Nd(c, i).in[1] \in E}
           s0 == [c |-> flipped, copies |-> copies]
           q == IdSeq(c)
<1>1. pass_f32_chain(c) = Bypass!Over(s0, q).c BY DEF pass_f32_chain
<1> HIDE DEF E
<1>2. Tabled(c) BY WholeTabled
<1>3. ASSUME NEW x \in DOMAIN c.nodes PROVE Mild(c.nodes[x], f[x])
  <2> DEFINE n == c.nodes[x]
             in == [j \in 1..3 |-> source(x - 1, j)]
  <2>1. DOMAIN n = NodeFields BY <1>2 DEF Tabled
  <2>2. m(x) = [n EXCEPT !.f32 = TRUE, !.in = in] OBVIOUS
  <2>3. f[x] = n \/ f[x] = m(x) OBVIOUS
  <2> HIDE DEF in, n, m, f
  <2>4. DOMAIN m(x) = NodeFields /\ m(x).m = n.m /\ m(x).op = n.op /\ m(x).dead = n.dead
    BY <2>1, <2>2 DEF NodeFields
  <2>5. Mild(n, f[x]) BY <2>1, <2>3, <2>4 DEF Mild
  <2> QED BY <2>5 DEF n
<1>4. "nodes" \in DOMAIN flipped /\ flipped.nodes = f /\ DOMAIN f = DOMAIN c.nodes
  BY <1>2 DEF Tabled
<1> HIDE DEF f, m, flipped
<1>5. Gentle(c, flipped) BY <1>3, <1>4 DEF Gentle
<1>6. \A i \in copies : Plain(c, i)
  <2>1. "CvtF64ToF32" \in Values BY DEF Values
  <2>2. \A i \in copies : Nd(c, i).op = "CvtF64ToF32" OBVIOUS
  <2> HIDE DEF copies
  <2> QED BY <2>1, <2>2, PlainOf
<1> HIDE DEF copies
<1>7. ChainGentle(c, s0) BY <1>5, <1>6 DEF ChainGentle
<1>8. Len(q) \in Nat BY IdSeqs
<1> HIDE DEF s0, q
<1>9. \A x, i : ChainGentle(c, x) => ChainGentle(c, bypass(x, i))
  <2> SUFFICES ASSUME NEW x, NEW i, ChainGentle(c, x) PROVE ChainGentle(c, bypass(x, i)) OBVIOUS
  <2> QED BY BypassGentle DEF ChainGentle
<1>10. ChainGentle(c, BPg!Over(s0, q)) BY <1>7, <1>8, <1>9, BPg!LoopKeeps
<1>11. BPg!Over(s0, q) = Bypass!Over(s0, q)
  BY DEF BPg!Over, Bypass!Over, BPg!Turns, Bypass!Turns
<1> QED BY <1>1, <1>10, <1>11 DEF ChainGentle

\* pass_fcom_fstsw_fusion marks nodes.
LEMMA FusionGentle == ASSUME NEW c, Whole(c) PROVE Gentle(c, pass_fcom_fstsw_fusion(c))
<1> DEFINE S == UNION {{p[1], p[2]} : p \in FusedPairs(c)}
           m(x) == [c.nodes[x] EXCEPT !.fused = @ \/ (x - 1) \in S]
           f == [x \in DOMAIN c.nodes |-> m(x)]
           b == pass_fcom_fstsw_fusion(c)
<1>1. Tabled(c) BY WholeTabled
<1>2. "nodes" \in DOMAIN b /\ b.nodes = f BY <1>1 DEF pass_fcom_fstsw_fusion, Tabled
<1> HIDE DEF S, b
<1>3. ASSUME NEW x \in DOMAIN c.nodes PROVE Mild(c.nodes[x], f[x])
  <2> DEFINE n == c.nodes[x]
             v == n.fused \/ (x - 1) \in S
  <2>1. DOMAIN n = NodeFields BY <1>1 DEF Tabled
  <2>2. f[x] = [n EXCEPT !.fused = v] OBVIOUS
  <2> HIDE DEF n, f, m, v
  <2>3. DOMAIN f[x] = NodeFields /\ f[x].m = n.m /\ f[x].op = n.op /\ f[x].dead = n.dead
    BY <2>1, <2>2 DEF NodeFields
  <2>4. Mild(n, f[x]) BY <2>3 DEF Mild
  <2> QED BY <2>4 DEF n
<1>4. DOMAIN f = DOMAIN c.nodes OBVIOUS
<1> HIDE DEF f
<1> QED BY <1>2, <1>3, <1>4 DEF Gentle, b

Keeping(c, b) ==
    /\ EffectsOf(b) = EffectsOf(c)
    /\ \A i \in Compares(c) : \E j \in Compares(b) : FollowedBy(c, i, j)

\* A gentle change keeps the effects.
LEMMA GentleKeeping ==
    ASSUME NEW c, Whole(c), NEW b, Refit(c, b), Gentle(c, b) PROVE Keeping(c, b)
<1> DEFINE D(a) == {x \in DOMAIN a.nodes : /\ ~a.nodes[x].dead /\ ~IsCompare(a.nodes[x])
                                           /\ a.nodes[x].op \in SideEffects}
           V(a, x) == <<a.nodes[x].op, a.nodes[x].m>>
<1>1. /\ EffectsOf(b) = [x \in D(b) |-> V(b, x)]
      /\ EffectsOf(c) = [x \in D(c) |-> V(c, x)]
  BY DEF EffectsOf
<1>2. ASSUME NEW x \in DOMAIN c.nodes
      PROVE  /\ x \in D(b) <=> x \in D(c)
             /\ x \in D(c) => V(b, x) = V(c, x)
  <2>1. Mild(c.nodes[x], b.nodes[x]) /\ DOMAIN b.nodes = DOMAIN c.nodes BY DEF Gentle
  <2> QED BY <2>1, ValuesPlain DEF Mild, IsCompare
<1>3. D(b) = D(c) /\ \A x \in D(c) : V(b, x) = V(c, x)
  <2>1. DOMAIN b.nodes = DOMAIN c.nodes BY DEF Gentle
  <2>2. D(b) \subseteq DOMAIN b.nodes /\ D(c) \subseteq DOMAIN c.nodes OBVIOUS
  <2> HIDE DEF D, V
  <2> QED BY <1>2, <2>1, <2>2
<1> HIDE DEF D, V
<1>4. EffectsOf(b) = EffectsOf(c) BY <1>1, <1>3
<1>5. ASSUME NEW i \in Compares(c) PROVE i \in Compares(b) /\ FollowedBy(c, i, i)
  <2>1. i \in Ids(c) /\ ~Nd(c, i).dead /\ IsCompare(Nd(c, i))
    BY <1>5 DEF Compares, LiveNodes, Live
  <2>2. i \in Ids(b) BY <2>1 DEF Ids, Refit
  <2>3. i + 1 \in DOMAIN c.nodes
    <3>1. Len(c.nodes) \in Nat /\ DOMAIN c.nodes = 1..Len(c.nodes)
      BY WholeTabled, LenNat DEF Whole
    <3> QED BY <2>1, <3>1 DEF Ids
  <2>4. Mild(Nd(c, i), Nd(b, i)) BY <2>3 DEF Gentle, Nd
  <2>5. ~Nd(b, i).dead /\ IsCompare(Nd(b, i))
    BY <2>1, <2>4, ValuesPlain DEF Mild, IsCompare
  <2>6. FollowedBy(c, i, i)
    <3>1. i \in Int /\ Ids(c) \subseteq Int BY <2>1, LenNat DEF Ids, Whole
    <3>2. \A l \in LiveNodes(c) : ~(i < l /\ l < i) BY <3>1 DEF LiveNodes
    <3> QED BY <3>1, <3>2 DEF FollowedBy
  <2> QED BY <2>2, <2>5, <2>6 DEF Compares, LiveNodes, Live
<1> QED BY <1>4, <1>5 DEF Keeping

\* pass_dead_compares: the last compare before the next FSTSW stays.
LEMMA DeadComparesKeeping == ASSUME NEW c, Whole(c) PROVE Keeping(c, pass_dead_compares(c))
<1> DEFINE live == {i \in Ids(c) : Live(c, i)}
           S == {i \in live : /\ IsCompare(Nd(c, i))
                              /\ \E j \in live :
                                   /\ j > i /\ IsCompare(Nd(c, j))
                                   /\ \A l \in live : i < l /\ l < j => Nd(c, l).op # "FStsw"}
           b == pass_dead_compares(c)
           f == [x \in DOMAIN c.nodes |-> [c.nodes[x] EXCEPT !.dead = @ \/ (x - 1) \in S]]
<1>1. Tabled(c) /\ DOMAIN c.nodes = 1..Len(c.nodes) /\ Len(c.nodes) \in Nat
  BY WholeTabled, LenNat DEF Whole
<1>2. "nodes" \in DOMAIN b /\ b.nodes = f BY <1>1 DEF pass_dead_compares, KillAll, Tabled
<1>3. /\ live = LiveNodes(c) /\ LiveNodes(c) \subseteq Ids(c) /\ Ids(c) \subseteq Int
      /\ Compares(c) \subseteq LiveNodes(c) /\ Ids(b) = Ids(c)
  <2>1. Refit(c, b) BY KillAllRefit DEF pass_dead_compares
  <2> HIDE DEF b
  <2> QED BY <1>1, <2>1 DEF LiveNodes, Ids, Refit, Compares
<1>4. \A i : i \in S <=> i \in Compares(c) /\ \E j \in Compares(c) : j > i /\ FollowedBy(c, i, j)
  <2>1. \A j : j \in Compares(c) <=> j \in live /\ IsCompare(Nd(c, j)) BY <1>3 DEF Compares
  <2>2. \A i, j : i \in live /\ j \in live /\ j > i => j >= i BY <1>3
  <2> HIDE DEF live
  <2>3. \A i \in live, j \in live :
           j > i =>
             (FollowedBy(c, i, j) <=> \A l \in live : i < l /\ l < j => Nd(c, l).op # "FStsw")
    BY <1>3, <2>2 DEF FollowedBy
  <2> QED BY <2>1, <2>3
<1> HIDE DEF S, live, b
<1>5. ASSUME NEW x \in DOMAIN c.nodes
      PROVE  /\ b.nodes[x].op = c.nodes[x].op /\ b.nodes[x].m = c.nodes[x].m
             /\ b.nodes[x].dead <=> c.nodes[x].dead \/ (x - 1) \in S
  <2> DEFINE n == c.nodes[x]
             v == n.dead \/ (x - 1) \in S
  <2>1. DOMAIN n = NodeFields BY <1>1 DEF Tabled
  <2>2. f[x] = [n EXCEPT !.dead = v] OBVIOUS
  <2> HIDE DEF n, f, v
  <2>3. f[x].m = n.m /\ f[x].op = n.op /\ f[x].dead = v BY <2>1, <2>2 DEF NodeFields
  <2> QED BY <1>2, <2>3 DEF n, v
<1>6. DOMAIN b.nodes = DOMAIN c.nodes BY <1>2
<1> HIDE DEF f
<1>7. EffectsOf(b) = EffectsOf(c)
  <2> DEFINE D(a) == {x \in DOMAIN a.nodes : /\ ~a.nodes[x].dead /\ ~IsCompare(a.nodes[x])
                                             /\ a.nodes[x].op \in SideEffects}
             V(a, x) == <<a.nodes[x].op, a.nodes[x].m>>
  <2>1. /\ EffectsOf(b) = [x \in D(b) |-> V(b, x)]
        /\ EffectsOf(c) = [x \in D(c) |-> V(c, x)]
    BY DEF EffectsOf
  <2>2. ASSUME NEW x \in DOMAIN c.nodes
        PROVE  (x \in D(b) <=> x \in D(c)) /\ V(b, x) = V(c, x)
    <3>1. x - 1 \in S => IsCompare(c.nodes[x])
      <4>1. x - 1 + 1 = x BY <1>1
      <4>2. x - 1 \in S => IsCompare(Nd(c, x - 1)) BY <1>4 DEF Compares
      <4> QED BY <4>1, <4>2 DEF Nd
    <3> QED BY <1>5, <1>6, <3>1 DEF IsCompare
  <2>3. D(b) = D(c) /\ \A x \in D(c) : V(b, x) = V(c, x)
    <3>1. D(b) \subseteq DOMAIN b.nodes /\ D(c) \subseteq DOMAIN c.nodes OBVIOUS
    <3> HIDE DEF D, V
    <3> QED BY <1>6, <2>2, <3>1
  <2> HIDE DEF D, V
  <2> QED BY <2>1, <2>3
<1>8. ASSUME NEW i \in Compares(c) PROVE \E j \in Compares(b) : FollowedBy(c, i, j)
  <2> DEFINE R == {j \in Compares(c) : FollowedBy(c, i, j)}
             T == {n \in Nat : \E j \in R : n = Len(c.nodes) - j}
  <2>1. \A j \in R : j \in Int /\ j < Len(c.nodes) /\ Len(c.nodes) - j \in T
    BY <1>1, <1>3 DEF Ids
  <2>2. i \in R
    <3>1. i \in Int BY <1>3
    <3>2. \A l \in LiveNodes(c) : ~(i < l /\ l < i) BY <1>3
    <3> QED BY <3>1, <3>2 DEF FollowedBy
  <2>3. T # {} /\ T \subseteq Nat BY <2>1, <2>2
  <2>4. PICK k \in T : \A y \in T : k <= y
    <3> HIDE DEF T
    <3> QED BY <2>3, AP!LeastNatural
  <2>5. PICK j \in R : k = Len(c.nodes) - j BY <2>4
  <2>6. \A y \in R : y <= j
    <3> SUFFICES ASSUME NEW y \in R PROVE y <= j OBVIOUS
    <3>1. Len(c.nodes) - y \in T /\ y \in Int /\ j \in Int BY <2>1
    <3>2. k <= Len(c.nodes) - y BY <2>4, <3>1
    <3> HIDE DEF T, R
    <3> QED BY <1>1, <2>5, <3>1, <3>2
  <2>7. j \in Compares(c) /\ FollowedBy(c, i, j) OBVIOUS
  <2>8. j \notin S
    <3> SUFFICES ASSUME j \in S PROVE FALSE OBVIOUS
    <3>1. PICK y \in Compares(c) : y > j /\ FollowedBy(c, j, y) BY <1>4
    <3>2. i \in Int /\ j \in Int /\ y \in Int BY <1>3, <2>7
    <3>3. Nd(c, j).op # "FStsw" BY <2>7 DEF Compares, IsCompare
    <3>4. ASSUME NEW l \in LiveNodes(c), i < l, l < y PROVE Nd(c, l).op # "FStsw"
      <4>1. l \in Int BY <1>3
      <4>2. l < j \/ l = j \/ j < l BY <3>2, <4>1
      <4> QED BY <2>7, <3>1, <3>3, <3>4, <4>2 DEF FollowedBy
    <3>5. y >= i BY <2>7, <3>1, <3>2 DEF FollowedBy
    <3>6. y \in R BY <3>4, <3>5 DEF FollowedBy
    <3> HIDE DEF R
    <3> QED BY <2>6, <3>1, <3>2, <3>6
  <2>9. j \in Compares(b)
    <3>1. j \in Ids(c) /\ ~Nd(c, j).dead /\ IsCompare(Nd(c, j))
      BY <2>7 DEF Compares, LiveNodes, Live
    <3>2. j + 1 \in DOMAIN c.nodes /\ j + 1 - 1 = j BY <1>1, <3>1 DEF Ids
    <3> DEFINE y == j + 1
    <3>3. b.nodes[y].op = c.nodes[y].op /\ (b.nodes[y].dead <=> c.nodes[y].dead \/ y - 1 \in S)
      BY <1>5, <3>2
    <3>4. Nd(b, j) = b.nodes[y] /\ Nd(c, j) = c.nodes[y] BY DEF Nd
    <3>5. y - 1 = j
      <4>1. j \in Int BY <2>1
      <4> QED BY <4>1
    <3> HIDE DEF y
    <3>6. Nd(b, j).op = Nd(c, j).op /\ ~Nd(b, j).dead BY <2>8, <3>1, <3>3, <3>4, <3>5
    <3> QED BY <1>3, <3>1, <3>6 DEF Compares, LiveNodes, Live, IsCompare
  <2> QED BY <2>7, <2>9
<1> QED BY <1>7, <1>8 DEF Keeping, b

\* Every pass keeps the effects.
LEMMA OptimizeKeeping ==
    ASSUME NEW c, Whole(c), NEW p \in PassNames PROVE Keeping(c, optimize(c, p))
<1>1. \/ optimize(c, p) = pass_dead_compares(c)
      \/ optimize(c, p) \in {pass_const_arith(c), pass_dse(c), pass_fneg_fold(c), pass_fma(c),
                             pass_f32_narrow(c), pass_f32_chain(c), pass_f32_fma(c),
                             pass_fcom_fstsw_fusion(c)}
  BY DEF optimize, PassNames
<1>2. Refit(c, optimize(c, p)) BY OptimizeRefit
<1>3. \/ optimize(c, p) = pass_dead_compares(c)
      \/ Gentle(c, optimize(c, p))
  BY <1>1, PassesGentle, ChainIsGentle, FusionGentle
<1> QED BY <1>2, <1>3, GentleKeeping, DeadComparesKeeping
=============================================================================
