-------------------------- MODULE RadixTreeProofs --------------------------
(***************************************************************************)
(* Proofs about RadixTree: every node and leaf is linked once, the way to  *)
(* a leaf spells its key, a key that was inserted is found, the tree       *)
(* implements a map, and a range is that of all the keys with a prefix.    *)
(* They hold for all keys of which none is the beginning of another and    *)
(* none is shorter than a long prefix of two that were inserted before;    *)
(* the map and the ranges have hypotheses of their own (RadixTree).        *)
(***************************************************************************)
EXTENDS RadixTree, FiniteSetTheorems, WellFoundedInduction, TLAPS

-----------------------------------------------------------------------------
(* Numbers and loops.                                                      *)

LEMMA LeastElement ==
    ASSUME NEW T \in SUBSET Nat, T # {}
    PROVE  \E n \in T : \A m \in T : n <= m
<1>1. PICK n \in T : \A m \in T : ~(<<m, n>> \in OpToRel(<, Nat))
  BY NatLessThanWellFounded, WFMin, Zenon
<1>2. \A m \in T : ~(m < n)
  BY <1>1 DEF OpToRel
<1>. QED  BY <1>2

\* The greatest of some numbers below a bound.
LEMMA GreatestElement ==
    ASSUME NEW T \in SUBSET Nat, T # {}, NEW bound \in Nat, \A n \in T : n <= bound
    PROVE  \E n \in T : \A m \in T : m <= n
<1>. DEFINE U == { bound - n : n \in T }
<1>1. U \in SUBSET Nat /\ U # {}
  <2>1. \A n \in T : bound - n \in Nat
    OBVIOUS
  <2>. QED  BY <2>1
<1>2. PICK k \in U : \A m \in U : k <= m
  <2>. HIDE DEF U
  <2>. QED  BY <1>1, LeastElement
<1>3. PICK n \in T : k = bound - n
  OBVIOUS
<1>4. \A m \in T : bound - m \in U
  OBVIOUS
<1>5. \A m \in T : k <= bound - m
  BY <1>2, <1>4
<1>. QED  BY <1>3, <1>5

\* Repeating a step that stays in S gives such a function: the walks of the
\* model are defined that way.
Repeats(g, S, a, F, d) == g \in [0..d -> S] /\ g[0] = a /\ \A n \in 1..d : g[n] = F[g[n-1]]

LEMMA Repetition ==
    ASSUME NEW S, NEW a \in S, NEW F \in [S -> S], NEW d \in Nat
    PROVE  \E g : Repeats(g, S, a, F, d)
<1>. DEFINE Bad == { m \in Nat : ~\E g : Repeats(g, S, a, F, m) }
<1>1. SUFFICES ASSUME Bad # {}
               PROVE  FALSE
  OBVIOUS
<1>2. PICK m \in Bad : \A k \in Bad : m <= k
  BY <1>1, LeastElement
<1>3. m \in Nat /\ m # 0
  <2>1. Repeats([n \in 0..0 |-> a], S, a, F, 0)
    BY DEF Repeats
  <2>. QED  BY <2>1
<1>4. PICK g : Repeats(g, S, a, F, m - 1)
  <2>1. m - 1 \in Nat /\ ~(m <= m - 1)
    BY <1>3
  <2>2. m - 1 \notin Bad
    <3>. HIDE DEF Bad
    <3>. QED  BY <1>2, <2>1
  <2>. QED  BY <2>1, <2>2
<1>5. m - 1 \in 0..(m-1) /\ g \in [0..(m-1) -> S] /\ g[0] = a
  BY <1>3, <1>4 DEF Repeats
<1>. DEFINE h == [n \in 0..m |-> IF n = m THEN F[g[m-1]] ELSE g[n]]
<1>6. \A n \in 0..m : n # m => n \in 0..(m-1)
  BY <1>3
<1>7. h \in [0..m -> S] /\ h[0] = a
  BY <1>3, <1>5, <1>6
<1>8. ASSUME NEW n \in 1..m
      PROVE  h[n] = F[h[n-1]]
  <2>1. n - 1 \in 0..m /\ n - 1 # m /\ n \in 0..m /\ h[n-1] = g[n-1]
    BY <1>3
  <2>2. CASE n = m
    BY <2>1, <2>2
  <2>3. CASE n # m
    <3>1. n \in 1..(m-1) /\ h[n] = g[n]
      BY <1>3, <2>1, <2>3
    <3>. QED  BY <1>4, <2>1, <3>1 DEF Repeats
  <2>. QED  BY <2>2, <2>3
<1>9. Repeats(h, S, a, F, m)
  <2>. HIDE DEF h
  <2>. QED  BY <1>7, <1>8 DEF Repeats
<1>. QED  BY <1>9

-----------------------------------------------------------------------------
(* Keys.                                                                   *)

LEMMA SameProperties ==
    ASSUME NEW s \in Seq(Nat), NEW t \in Seq(Nat), NEW u \in Seq(Nat), NEW n \in Nat, NEW m \in Nat
    PROVE  /\ Same(s, t, n) => Same(t, s, n)
           /\ Same(s, t, n) /\ m <= n => Same(s, t, m)
           /\ Same(s, t, n) /\ Same(t, u, n) => Same(s, u, n)
           /\ Same(s, t, n) /\ n + 1 <= Len(s) /\ n + 1 <= Len(t) /\ s[n+1] = t[n+1] => Same(s, t, n + 1)
BY DEF Same

LEMMA KeyTypes ==
    ASSUME StoreGivesKeys, NEW v \in LeafValues
    PROVE  /\ KeyOf[v] \in Seq(Nat) /\ Len(KeyOf[v]) \in Nat /\ KeyOf[v] \in Seq(Bytes)
           /\ \A i \in 1..Len(KeyOf[v]) : KeyOf[v][i] \in Bytes
<1>1. KeyOf[v] \in Seq(Bytes) /\ \A b \in Bytes : b \in Nat
  BY TreeAssumption DEF StoreGivesKeys
<1>2. Len(KeyOf[v]) \in Nat /\ \A i \in 1..Len(KeyOf[v]) : KeyOf[v][i] \in Bytes
  BY <1>1
<1>3. KeyOf[v] \in Seq(Nat)
  BY <1>1, <1>2
<1>. QED  BY <1>1, <1>2, <1>3

\* Leaves are odd and addresses even, and a leaf gives back its value.
LEMMA Tagged ==
    ASSUME StoreGivesKeys, NEW v \in LeafValues
    PROVE  /\ MakeLeaf(v) = 2 * v + 1 /\ v \in Nat
           /\ IsLeaf(MakeLeaf(v)) /\ GetLeafValue(MakeLeaf(v)) = v /\ MakeLeaf(v) # Null
           /\ \A w \in LeafValues : MakeLeaf(w) = MakeLeaf(v) => w = v
           /\ \A n \in Nat : Address(n) # MakeLeaf(v)
<1>1. WordRange \in Nat
  BY WordAssumption, OffsetRangeAssumption
<1>2. \A w \in LeafValues : w \in Nat /\ 2 * w < WordRange
  BY TreeAssumption DEF StoreGivesKeys
<1>3. \A w \in LeafValues : (2 * w) % WordRange = 2 * w
  BY <1>1, <1>2
<1>4. \A w \in LeafValues : MakeLeaf(w) = 2 * w + 1
  BY <1>3 DEF MakeLeaf
<1>5. (2 * v + 1) % 2 = 1 /\ (2 * v + 1) \div 2 = v /\ 2 * v + 1 # 0
  BY <1>2
<1>. QED  BY <1>2, <1>4, <1>5 DEF IsLeaf, GetLeafValue, Null, Address

LEMMA Addresses ==
    ASSUME NEW n \in Nat
    PROVE  ~IsLeaf(Address(n)) /\ Address(n) \div 2 = n /\ (n # 0 => Address(n) # Null) /\ Address(n) \in Nat
BY DEF IsLeaf, Address, Null

-----------------------------------------------------------------------------
(* The shape of the tree.  t.nodes, t.top and t.stored are the nodes, the  *)
(* root and the leaf values of a tree t.  Of each node, t.from says how    *)
(* many bytes of a key are consumed before it, and t.under a leaf value    *)
(* below it; t.depth says how many are consumed before a leaf.             *)

\* How many bytes are consumed before a child is selected.
Full(t, n) == t.from[n] + t.nodes[n].prefixLength

\* The walk for a key passes the prefix of a node.
Passes(t, n, key) == Same(key, KeyOf[t.under[n]], Full(t, n))

\* The byte that selects the child.
NextOf(t, n, key) == key[Full(t, n) + 1]

\* A reference, with d bytes consumed, leads on to the leaf value v.
LeadsTo(t, ref, v, d) ==
    \/ ref = MakeLeaf(v) /\ t.depth[v] = d
    \/ \E n \in DOMAIN t.nodes : ref = Address(n) /\ t.from[n] = d /\ Passes(t, n, KeyOf[v])

\* A node keeps the bytes of its prefix, as far as they fit.
Keeps(t, n) ==
    /\ t.nodes[n].prefix \in Seq(Bytes)
    /\ Len(t.nodes[n].prefix) = Least(t.nodes[n].prefixLength, MaxPrefixLength)
    /\ \A i \in 1..Len(t.nodes[n].prefix) : t.nodes[n].prefix[i] = KeyOf[t.under[n]][t.from[n] + i]

\* The child of a byte leads to the keys with that byte, and to no others; there
\* are at least two bytes.
Branches(t, n) ==
    LET child == t.nodes[n].child
    IN  /\ \A v \in t.stored : Passes(t, n, KeyOf[v]) =>
              /\ Full(t, n) < Len(KeyOf[v]) /\ NextOf(t, n, KeyOf[v]) \in DOMAIN child
              /\ LeadsTo(t, child[NextOf(t, n, KeyOf[v])], v, Full(t, n) + 1)
        /\ \A b \in DOMAIN child : \E v \in t.stored : Passes(t, n, KeyOf[v]) /\ NextOf(t, n, KeyOf[v]) = b
        /\ \E a, b \in DOMAIN child : a # b

\* Something points to ref.
Linked(t, ref) ==
    t.top = ref \/ \E n \in DOMAIN t.nodes : \E b \in DOMAIN t.nodes[n].child : t.nodes[n].child[b] = ref

\* Of two nodes on the way to a key one begins behind the other.
Nested(t, n, m) ==
    Passes(t, n, KeyOf[t.under[m]]) /\ Full(t, n) <= Full(t, m) => n = m \/ Full(t, n) < t.from[m]

TreeTypes(t) ==
    /\ DOMAIN t.nodes \subseteq Nat \ {0} /\ t.stored \subseteq LeafValues
    /\ \A v \in t.stored : t.depth[v] \in Nat
    /\ \A n \in DOMAIN t.nodes : /\ t.from[n] \in Nat /\ t.nodes[n].prefixLength \in Nat
                                /\ t.under[n] \in t.stored /\ Passes(t, n, KeyOf[t.under[n]])

TreeNests(t) ==
    /\ \A n, m \in DOMAIN t.nodes : Nested(t, n, m)
    /\ \A n \in DOMAIN t.nodes : \A v \in t.stored : Passes(t, n, KeyOf[v]) => Full(t, n) < t.depth[v]

IsTree(t) ==
    /\ TreeTypes(t) /\ TreeNests(t)
    /\ \A n \in DOMAIN t.nodes : Keeps(t, n) /\ Branches(t, n) /\ Linked(t, Address(n))
    /\ \A v \in t.stored : LeadsTo(t, t.top, v, 0) /\ Linked(t, MakeLeaf(v))
    /\ t.stored = {} => t.top = Null

\* A node in numbers.
LEMMA NodeTypes ==
    ASSUME StoreGivesKeys, NEW t, TreeTypes(t), NEW n \in DOMAIN t.nodes
    PROVE  /\ n \in Nat \ {0} /\ t.from[n] \in Nat /\ t.nodes[n].prefixLength \in Nat
           /\ Full(t, n) \in Nat /\ t.from[n] <= Full(t, n)
           /\ t.under[n] \in t.stored /\ t.under[n] \in LeafValues
           /\ Full(t, n) <= Len(KeyOf[t.under[n]]) /\ Passes(t, n, KeyOf[t.under[n]])
<1>1. /\ n \in Nat \ {0} /\ t.from[n] \in Nat /\ t.nodes[n].prefixLength \in Nat
      /\ t.under[n] \in t.stored /\ t.under[n] \in LeafValues /\ Passes(t, n, KeyOf[t.under[n]])
  BY DEF TreeTypes
<1>2. Full(t, n) \in Nat /\ t.from[n] <= Full(t, n)
  BY <1>1 DEF Full
<1>3. Full(t, n) <= Len(KeyOf[t.under[n]])
  BY <1>1 DEF Passes, Same
<1>. QED  BY <1>1, <1>2, <1>3

\* What passes a node agrees with all that does.
LEMMA PassTogether ==
    ASSUME StoreGivesKeys, NEW t, TreeTypes(t), NEW n \in DOMAIN t.nodes,
           NEW v \in LeafValues, NEW w \in LeafValues, Passes(t, n, KeyOf[v])
    PROVE  /\ Passes(t, n, KeyOf[w]) <=> Same(KeyOf[v], KeyOf[w], Full(t, n))
           /\ \A i \in Nat : i >= Full(t, n) /\ Same(KeyOf[v], KeyOf[w], i) => Passes(t, n, KeyOf[w])
           /\ \A i \in Nat : i >= Full(t, n) /\ Same(KeyOf[w], KeyOf[v], i) => Passes(t, n, KeyOf[w])
<1>1. Full(t, n) \in Nat /\ t.under[n] \in LeafValues
  BY NodeTypes
<1>. DEFINE x == KeyOf[v]
            y == KeyOf[w]
            z == KeyOf[t.under[n]]
            f == Full(t, n)
<1>2. x \in Seq(Nat) /\ y \in Seq(Nat) /\ z \in Seq(Nat)
  BY <1>1, KeyTypes
<1>3. Same(x, z, f)
  BY DEF Passes
<1>. HIDE DEF x, y, z, f
<1>4. Same(y, z, f) <=> Same(x, y, f)
  BY <1>1, <1>2, <1>3, SameProperties DEF f
<1>5. \A i \in Nat : i >= f /\ (Same(x, y, i) \/ Same(y, x, i)) => Same(x, y, f)
  BY <1>1, <1>2, SameProperties DEF f
<1>. QED  BY <1>4, <1>5 DEF Passes, x, y, z, f

\* The nodes on the way of a key are in an order: two that consume equally many
\* bytes are one, and the next begins behind the one before.
LEMMA PassInOrder ==
    ASSUME StoreGivesKeys, NEW t, TreeTypes(t), TreeNests(t),
           NEW n \in DOMAIN t.nodes, NEW m \in DOMAIN t.nodes, NEW v \in LeafValues,
           Passes(t, n, KeyOf[v]), Passes(t, m, KeyOf[v])
    PROVE  /\ Full(t, n) = Full(t, m) => n = m
           /\ Full(t, n) < Full(t, m) => Full(t, n) < t.from[m]
<1>1. /\ Full(t, n) \in Nat /\ Full(t, m) \in Nat /\ t.from[m] \in Nat /\ t.from[m] <= Full(t, m)
      /\ t.under[m] \in LeafValues /\ t.under[n] \in LeafValues /\ Passes(t, m, KeyOf[t.under[m]])
  BY NodeTypes
<1>2. Same(KeyOf[v], KeyOf[t.under[m]], Full(t, m))
  BY <1>1, PassTogether
<1>3. Full(t, n) <= Full(t, m) => Passes(t, n, KeyOf[t.under[m]])
  BY <1>1, <1>2, PassTogether
<1>4. Nested(t, n, m)
  BY DEF TreeNests
<1>. QED  BY <1>1, <1>3, <1>4 DEF Nested

\* Where a child of a node leads to.
LEMMA ChildLeads ==
    ASSUME StoreGivesKeys, NEW t, IsTree(t), NEW n \in DOMAIN t.nodes, NEW b \in DOMAIN t.nodes[n].child
    PROVE  \E v \in t.stored : /\ v \in LeafValues /\ Passes(t, n, KeyOf[v]) /\ NextOf(t, n, KeyOf[v]) = b
                              /\ Full(t, n) < Len(KeyOf[v])
                              /\ LeadsTo(t, t.nodes[n].child[b], v, Full(t, n) + 1)
<1>1. Branches(t, n) /\ t.stored \subseteq LeafValues
  BY DEF IsTree, TreeTypes
<1>. QED  BY <1>1 DEF Branches

\* A reference that leads somewhere is a leaf or an address of the tree.
LEMMA LeadsSomewhere ==
    ASSUME StoreGivesKeys, NEW t, TreeTypes(t), NEW ref, NEW v \in t.stored, NEW d, LeadsTo(t, ref, v, d)
    PROVE  /\ ref # Null
           /\ IsLeaf(ref) => ref = MakeLeaf(v) /\ GetLeafValue(ref) = v /\ t.depth[v] = d
           /\ ~IsLeaf(ref) => /\ ref \div 2 \in DOMAIN t.nodes /\ ref = Address(ref \div 2)
                              /\ t.from[ref \div 2] = d /\ Passes(t, ref \div 2, KeyOf[v])
<1>1. v \in LeafValues
  BY DEF TreeTypes
<1>2. CASE ref = MakeLeaf(v) /\ t.depth[v] = d
  BY <1>1, <1>2, Tagged
<1>3. CASE \E n \in DOMAIN t.nodes : ref = Address(n) /\ t.from[n] = d /\ Passes(t, n, KeyOf[v])
  <2>1. PICK n \in DOMAIN t.nodes : ref = Address(n) /\ t.from[n] = d /\ Passes(t, n, KeyOf[v])
    BY <1>3
  <2>2. n \in Nat \ {0}
    BY DEF TreeTypes
  <2>. QED  BY <2>1, <2>2, Addresses
<1>. QED  BY <1>2, <1>3 DEF LeadsTo

-----------------------------------------------------------------------------
(* A key forks off the way of others: a leaf is split, or a prefix broken. *)

\* The walk for a key stands where slot points to, with d bytes consumed.
Stands(t, slot, d, key) ==
    \/ slot = Root /\ d = 0
    \/ \E n \in DOMAIN t.nodes : \E b \in DOMAIN t.nodes[n].child :
          slot = <<n, b>> /\ Passes(t, n, key) /\ d = Full(t, n) + 1 /\ d <= Len(key) /\ key[d] = b

PointsTo(t, slot) == IF slot = Root THEN t.top ELSE t.nodes[slot[1]].child[slot[2]]

\* The key of v forks off that of u, which is below slot, d + p bytes from the
\* start, and within the prefix of a node there.
ForksOff(t, slot, d, v, u, p) ==
    /\ v \in LeafValues \ t.stored /\ u \in t.stored /\ p \in Nat
    /\ Stands(t, slot, d, KeyOf[v]) /\ LeadsTo(t, PointsTo(t, slot), u, d)
    /\ Same(KeyOf[u], KeyOf[v], d + p) /\ d + p < Len(KeyOf[u]) /\ d + p < Len(KeyOf[v])
    /\ KeyOf[u][d + p + 1] # KeyOf[v][d + p + 1]
    /\ \A n \in DOMAIN t.nodes : PointsTo(t, slot) = Address(n) => d + p < Full(t, n)

\* All keys that agree with one up to where its walk stands are below.
LEMMA StandsAbove ==
    ASSUME StoreGivesKeys, NEW t, IsTree(t), NEW v \in LeafValues, NEW slot, NEW d, Stands(t, slot, d, KeyOf[v])
    PROVE  /\ d \in Nat
           /\ \A w \in t.stored : Same(KeyOf[w], KeyOf[v], d) => LeadsTo(t, PointsTo(t, slot), w, d)
<1>1. TreeTypes(t) /\ t.stored \subseteq LeafValues
  BY DEF IsTree, TreeTypes
<1>2. CASE slot = Root /\ d = 0
  BY <1>2 DEF IsTree, PointsTo
<1>3. ASSUME NEW n \in DOMAIN t.nodes, NEW b \in DOMAIN t.nodes[n].child,
             slot = <<n, b>>, Passes(t, n, KeyOf[v]), d = Full(t, n) + 1, d <= Len(KeyOf[v]), KeyOf[v][d] = b
      PROVE  /\ d \in Nat
             /\ \A w \in t.stored : Same(KeyOf[w], KeyOf[v], d) => LeadsTo(t, PointsTo(t, slot), w, d)
  <2>1. Full(t, n) \in Nat /\ d \in Nat
    BY <1>1, <1>3, NodeTypes
  <2>2. ASSUME NEW w \in t.stored, Same(KeyOf[w], KeyOf[v], d)
        PROVE  LeadsTo(t, PointsTo(t, slot), w, d)
    <3>1. w \in LeafValues /\ d >= Full(t, n)
      BY <1>1, <1>3, <2>1
    <3>2. Passes(t, n, KeyOf[w])
      BY <1>1, <1>3, <2>1, <2>2, <3>1, PassTogether
    <3>3. NextOf(t, n, KeyOf[w]) = b
      BY <1>3, <2>1, <2>2 DEF NextOf, Same
    <3>4. LeadsTo(t, t.nodes[n].child[b], w, d)
      BY <1>3, <3>2, <3>3 DEF IsTree, Branches
    <3>5. PointsTo(t, slot) = t.nodes[n].child[b]
      BY <1>3 DEF PointsTo, Root
    <3>. QED  BY <3>4, <3>5
  <2>. QED  BY <2>1, <2>2
<1>. QED  BY <1>2, <1>3 DEF Stands

\* Nodes on the way of either key lie in front of the fork, and the keys that
\* agree with the new one up to the fork go on behind it.
LEMMA ForkBetween ==
    ASSUME StoreGivesKeys, NEW t, IsTree(t), NEW slot, NEW d, NEW v, NEW u, NEW p, ForksOff(t, slot, d, v, u, p)
    PROVE  /\ d \in Nat
           /\ \A n \in DOMAIN t.nodes : Passes(t, n, KeyOf[u]) /\ Full(t, n) <= d + p => Full(t, n) < d
           /\ \A n \in DOMAIN t.nodes : Passes(t, n, KeyOf[v]) => Full(t, n) < d /\ Passes(t, n, KeyOf[u])
<1>. DEFINE ref == PointsTo(t, slot)
<1>1. /\ TreeTypes(t) /\ TreeNests(t) /\ t.stored \subseteq LeafValues
      /\ v \in LeafValues /\ u \in LeafValues /\ u \in t.stored /\ p \in Nat
      /\ Same(KeyOf[u], KeyOf[v], d + p) /\ LeadsTo(t, ref, u, d)
  BY DEF IsTree, TreeTypes, ForksOff
<1>2. /\ d \in Nat
      /\ \A w \in t.stored : Same(KeyOf[w], KeyOf[v], d) => LeadsTo(t, ref, w, d)
  BY <1>1, StandsAbove DEF ForksOff
<1>3. \A n \in DOMAIN t.nodes : Full(t, n) \in Nat /\ t.under[n] \in t.stored /\ t.under[n] \in LeafValues
  BY <1>1, NodeTypes
<1>. HIDE DEF ref
<1>4. ASSUME NEW n \in DOMAIN t.nodes, Passes(t, n, KeyOf[u]), Full(t, n) <= d + p
      PROVE  Full(t, n) < d
  <2>1. CASE IsLeaf(ref)
    <3>1. t.depth[u] = d
      BY <1>1, <2>1, LeadsSomewhere
    <3>. QED  BY <1>1, <1>4, <3>1 DEF TreeNests
  <2>2. CASE ~IsLeaf(ref)
    <3>. DEFINE m == ref \div 2
    <3>1. m \in DOMAIN t.nodes /\ ref = Address(m) /\ t.from[m] = d /\ Passes(t, m, KeyOf[u])
      BY <1>1, <2>2, LeadsSomewhere
    <3>2. d + p < Full(t, m)
      BY <3>1 DEF ForksOff, ref
    <3>. HIDE DEF m
    <3>3. Full(t, n) < Full(t, m)
      BY <1>1, <1>2, <1>3, <1>4, <3>1, <3>2
    <3>. QED  BY <1>1, <1>4, <3>1, <3>3, PassInOrder
  <2>. QED  BY <2>1, <2>2
<1>5. ASSUME NEW n \in DOMAIN t.nodes, Passes(t, n, KeyOf[v])
      PROVE  Full(t, n) < d /\ Passes(t, n, KeyOf[u])
  <2>1. CASE Full(t, n) <= d + p
    <3>1. d + p \in Nat /\ d + p >= Full(t, n)
      BY <1>1, <1>2, <1>3, <2>1
    <3>2. Passes(t, n, KeyOf[u])
      BY <1>1, <1>5, <3>1, PassTogether
    <3>. QED  BY <1>4, <2>1, <3>2
  <2>2. CASE ~(Full(t, n) <= d + p)
    <3>. DEFINE r == t.under[n]
                e == d + p + 1
    <3>1. e \in Nat /\ e <= Full(t, n) /\ d <= e /\ r \in t.stored /\ r \in LeafValues /\ Passes(t, n, KeyOf[r])
      BY <1>1, <1>2, <1>3, <2>2, NodeTypes
    <3>2. KeyOf[v] \in Seq(Nat) /\ KeyOf[u] \in Seq(Nat) /\ KeyOf[r] \in Seq(Nat)
      BY <1>1, <1>3, KeyTypes
    <3>3. Same(KeyOf[r], KeyOf[v], Full(t, n))
      BY <1>1, <1>5, <3>1, PassTogether
    <3>4. Same(KeyOf[r], KeyOf[v], d) /\ KeyOf[r][e] = KeyOf[v][e]
      <4>1. e \in 1..Full(t, n) /\ d <= Full(t, n) /\ Full(t, n) \in Nat
        BY <1>1, <1>2, <1>3, <3>1
      <4>. HIDE DEF r, e
      <4>2. Same(KeyOf[r], KeyOf[v], d)
        BY <1>2, <3>2, <3>3, <4>1, SameProperties
      <4>. QED  BY <3>3, <4>1, <4>2 DEF Same
    <3>. HIDE DEF r
    <3>5. LeadsTo(t, ref, r, d)
      BY <1>2, <3>1, <3>4
    <3>6. KeyOf[u][e] # KeyOf[v][e]
      BY DEF ForksOff
    <3>7. CASE IsLeaf(ref)
      <4>1. GetLeafValue(ref) = r /\ GetLeafValue(ref) = u
        BY <1>1, <3>1, <3>5, <3>7, LeadsSomewhere
      <4>. QED  BY <3>4, <3>6, <4>1
    <3>8. CASE ~IsLeaf(ref)
      <4>. DEFINE m == ref \div 2
      <4>1. m \in DOMAIN t.nodes /\ ref = Address(m) /\ Passes(t, m, KeyOf[u]) /\ Passes(t, m, KeyOf[r])
        BY <1>1, <3>1, <3>5, <3>8, LeadsSomewhere
      <4>2. d + p < Full(t, m)
        BY <4>1 DEF ForksOff, ref
      <4>. HIDE DEF m
      <4>3. Same(KeyOf[u], KeyOf[r], Full(t, m))
        BY <1>1, <3>1, <4>1, PassTogether
      <4>4. KeyOf[u][e] = KeyOf[r][e]
        <5>1. e \in 1..Full(t, m)
          BY <1>1, <1>2, <1>3, <4>1, <4>2
        <5>. HIDE DEF e
        <5>. QED  BY <4>3, <5>1 DEF Same
      <4>. QED  BY <3>4, <3>6, <4>4
    <3>. QED  BY <3>7, <3>8
  <2>. QED  BY <2>1, <2>2
<1>. QED  BY <1>2, <1>4, <1>5

\* A reference consumes the same for all that it leads to, and they have a node
\* in common, or are one.
LEMMA LeadsOnce ==
    ASSUME StoreGivesKeys, NEW t, TreeTypes(t), NEW ref, NEW v \in t.stored, NEW d, LeadsTo(t, ref, v, d),
           NEW w \in t.stored, NEW e, LeadsTo(t, ref, w, e)
    PROVE  /\ d = e
           /\ \/ v = w /\ ref = MakeLeaf(v) /\ t.depth[v] = d
              \/ \E k \in DOMAIN t.nodes : /\ ref = Address(k) /\ t.from[k] = d
                                          /\ Passes(t, k, KeyOf[v]) /\ Passes(t, k, KeyOf[w])
<1>1. CASE IsLeaf(ref)
  <2>1. ref = MakeLeaf(v) /\ GetLeafValue(ref) = v /\ t.depth[v] = d
    BY <1>1, LeadsSomewhere
  <2>2. GetLeafValue(ref) = w /\ t.depth[w] = e
    BY <1>1, LeadsSomewhere
  <2>. QED  BY <2>1, <2>2
<1>2. CASE ~IsLeaf(ref)
  <2>1. ref \div 2 \in DOMAIN t.nodes /\ ref = Address(ref \div 2) /\ t.from[ref \div 2] = d /\ Passes(t, ref \div 2, KeyOf[v])
    BY <1>2, LeadsSomewhere
  <2>2. t.from[ref \div 2] = e /\ Passes(t, ref \div 2, KeyOf[w])
    BY <1>2, LeadsSomewhere
  <2>. QED  BY <2>1, <2>2
<1>. QED  BY <1>1, <1>2

\* Nothing is linked twice, and nothing to the root.
LEMMA OnePointer ==
    ASSUME StoreGivesKeys, NEW t, IsTree(t), NEW n \in DOMAIN t.nodes, NEW b \in DOMAIN t.nodes[n].child
    PROVE  /\ t.nodes[n].child[b] # t.top
           /\ \A m \in DOMAIN t.nodes : \A c \in DOMAIN t.nodes[m].child :
                 t.nodes[m].child[c] = t.nodes[n].child[b] => m = n /\ c = b
<1>. DEFINE ref == t.nodes[n].child[b]
<1>1. TreeTypes(t) /\ TreeNests(t) /\ t.stored \subseteq LeafValues
  BY DEF IsTree, TreeTypes
<1>2. PICK v \in t.stored : /\ v \in LeafValues /\ Passes(t, n, KeyOf[v]) /\ NextOf(t, n, KeyOf[v]) = b
                            /\ Full(t, n) < Len(KeyOf[v]) /\ LeadsTo(t, ref, v, Full(t, n) + 1)
  BY ChildLeads
<1>3. \A m \in DOMAIN t.nodes : Full(t, m) \in Nat
  BY <1>1, NodeTypes
<1>. HIDE DEF ref
<1>4. ref # t.top
  <2>1. SUFFICES ASSUME ref = t.top PROVE FALSE
    OBVIOUS
  <2>2. LeadsTo(t, ref, v, 0)
    BY <2>1 DEF IsTree
  <2>3. Full(t, n) + 1 = 0
    <3>. DEFINE d == Full(t, n) + 1
                e == 0
    <3>1. LeadsTo(t, ref, v, d) /\ LeadsTo(t, ref, v, e)
      BY <1>2, <2>2
    <3>. HIDE DEF d, e
    <3>2. d = e
      BY <1>1, <3>1, LeadsOnce
    <3>. QED  BY <3>2 DEF d, e
  <2>. QED  BY <1>3, <2>3
<1>5. ASSUME NEW m \in DOMAIN t.nodes, NEW c \in DOMAIN t.nodes[m].child, t.nodes[m].child[c] = ref
      PROVE  m = n /\ c = b
  <2>1. PICK w \in t.stored : /\ w \in LeafValues /\ Passes(t, m, KeyOf[w]) /\ NextOf(t, m, KeyOf[w]) = c
                              /\ LeadsTo(t, ref, w, Full(t, m) + 1)
    BY <1>5, ChildLeads
  <2>2. Full(t, n) = Full(t, m) /\ Same(KeyOf[w], KeyOf[v], Full(t, n) + 1)
    <3>. DEFINE d == Full(t, n) + 1
                e == Full(t, m) + 1
    <3>1. LeadsTo(t, ref, v, d) /\ LeadsTo(t, ref, w, e) /\ d \in Nat
      BY <1>2, <1>3, <2>1
    <3>2. KeyOf[w] \in Seq(Nat) /\ KeyOf[v] \in Seq(Nat) /\ d <= Len(KeyOf[v])
      <4>1. KeyOf[w] \in Seq(Nat) /\ KeyOf[v] \in Seq(Nat)
        BY <1>2, <2>1, KeyTypes
      <4>. QED  BY <1>2, <1>3, <4>1
    <3>. HIDE DEF d, e
    <3>3. /\ d = e
          /\ \/ v = w
             \/ \E k \in DOMAIN t.nodes : t.from[k] = d /\ Passes(t, k, KeyOf[v]) /\ Passes(t, k, KeyOf[w])
      BY <1>1, <3>1, LeadsOnce
    <3>4. Same(KeyOf[w], KeyOf[v], d)
      <4>1. CASE v = w
        BY <3>1, <3>2, <4>1 DEF Same
      <4>2. ASSUME NEW k \in DOMAIN t.nodes, t.from[k] = d, Passes(t, k, KeyOf[v]), Passes(t, k, KeyOf[w])
            PROVE  Same(KeyOf[w], KeyOf[v], d)
        <5>1. d <= Full(t, k) /\ Same(KeyOf[w], KeyOf[v], Full(t, k))
          BY <1>1, <1>2, <2>1, <4>2, NodeTypes, PassTogether
        <5>. QED  BY <1>3, <3>1, <3>2, <5>1, SameProperties
      <4>. QED  BY <3>3, <4>1, <4>2
    <3>. QED  BY <1>3, <3>3, <3>4 DEF d, e
  <2>3. Passes(t, n, KeyOf[w])
    BY <1>1, <1>2, <1>3, <2>1, <2>2, PassTogether
  <2>4. m = n
    BY <1>1, <2>1, <2>2, <2>3, PassInOrder
  <2>. QED  BY <1>2, <1>3, <2>1, <2>2, <2>4 DEF NextOf, Same
<1>. QED  BY <1>4, <1>5 DEF ref

\* All pointers stay but the one at slot.
Redirects(t, t2, slot, ref) ==
    /\ t2.top = IF slot = Root THEN ref ELSE t.top
    /\ \A n \in DOMAIN t.nodes :
          /\ DOMAIN t2.nodes[n].child = DOMAIN t.nodes[n].child
          /\ \A b \in DOMAIN t.nodes[n].child :
                t2.nodes[n].child[b] = IF slot = <<n, b>> THEN ref ELSE t.nodes[n].child[b]

\* The tree after node f has come between: what was below slot begins behind it.
ForkedNodes(t, t2, slot, d, p) ==
    \A n \in DOMAIN t.nodes :
        /\ t2.under[n] = t.under[n] /\ t2.nodes[n].prefixLength \in Nat /\ Full(t2, n) = Full(t, n)
        /\ t2.from[n] = IF PointsTo(t, slot) = Address(n) THEN d + p + 1 ELSE t.from[n]
        /\ Keeps(t2, n)

ForkNode(t, t2, slot, d, v, u, p, f) ==
    /\ t2.under[f] = v /\ t2.from[f] = d /\ t2.nodes[f].prefixLength = p /\ Keeps(t2, f)
    /\ t2.nodes[f].child = [b \in {KeyOf[u][d + p + 1], KeyOf[v][d + p + 1]} |->
                               IF b = KeyOf[v][d + p + 1] THEN MakeLeaf(v) ELSE PointsTo(t, slot)]

Forked(t, t2, slot, d, v, u, p, f) ==
    /\ ForksOff(t, slot, d, v, u, p)
    /\ f \in Nat \ {0} /\ f \notin DOMAIN t.nodes /\ DOMAIN t2.nodes = DOMAIN t.nodes \union {f}
    /\ t2.stored = t.stored \union {v}
    /\ t2.depth[v] = d + p + 1
    /\ \A w \in t.stored : t2.depth[w] = IF PointsTo(t, slot) = MakeLeaf(w) THEN d + p + 1 ELSE t.depth[w]
    /\ Redirects(t, t2, slot, Address(f))
    /\ ForkedNodes(t, t2, slot, d, p) /\ ForkNode(t, t2, slot, d, v, u, p, f)

\* What the lemmas about forks have in common.
ForkFacts(t, t2, slot, d, v, u, p, f) ==
    /\ TreeTypes(t) /\ TreeNests(t) /\ t.stored \subseteq LeafValues
    /\ v \in LeafValues /\ v \notin t.stored /\ u \in LeafValues /\ u \in t.stored
    /\ p \in Nat /\ d \in Nat /\ f \in Nat \ {0} /\ f \notin DOMAIN t.nodes
    /\ Same(KeyOf[u], KeyOf[v], d + p) /\ d + p < Len(KeyOf[u]) /\ d + p < Len(KeyOf[v])
    /\ KeyOf[u][d + p + 1] # KeyOf[v][d + p + 1]
    /\ LeadsTo(t, PointsTo(t, slot), u, d)
    /\ \A n \in DOMAIN t.nodes : PointsTo(t, slot) = Address(n) => d + p < Full(t, n)
    /\ \A w \in t.stored : Same(KeyOf[w], KeyOf[v], d) => LeadsTo(t, PointsTo(t, slot), w, d)
    /\ \A n \in DOMAIN t.nodes : Full(t, n) \in Nat /\ t.from[n] \in Nat /\ t.from[n] <= Full(t, n)
    /\ \A n \in DOMAIN t.nodes : \A key : Passes(t2, n, key) <=> Passes(t, n, key)
    /\ \A n \in DOMAIN t.nodes : \A key : NextOf(t2, n, key) = NextOf(t, n, key)
    /\ Full(t2, f) = d + p
    /\ \A key : Passes(t2, f, key) <=> Same(key, KeyOf[v], d + p)
    /\ \A key : NextOf(t2, f, key) = key[d + p + 1]

LEMMA ForkBasics ==
    ASSUME StoreGivesKeys, NEW t, IsTree(t), NEW t2, NEW slot, NEW d, NEW v, NEW u, NEW p, NEW f,
           Forked(t, t2, slot, d, v, u, p, f)
    PROVE  ForkFacts(t, t2, slot, d, v, u, p, f)
<1>1. /\ TreeTypes(t) /\ TreeNests(t) /\ t.stored \subseteq LeafValues
      /\ v \in LeafValues /\ v \notin t.stored /\ u \in LeafValues /\ u \in t.stored
      /\ p \in Nat /\ f \in Nat \ {0} /\ f \notin DOMAIN t.nodes
      /\ Same(KeyOf[u], KeyOf[v], d + p) /\ d + p < Len(KeyOf[u]) /\ d + p < Len(KeyOf[v])
      /\ KeyOf[u][d + p + 1] # KeyOf[v][d + p + 1]
      /\ LeadsTo(t, PointsTo(t, slot), u, d) /\ Stands(t, slot, d, KeyOf[v])
      /\ \A n \in DOMAIN t.nodes : PointsTo(t, slot) = Address(n) => d + p < Full(t, n)
  BY DEF IsTree, TreeTypes, Forked, ForksOff
<1>2. /\ d \in Nat
      /\ \A w \in t.stored : Same(KeyOf[w], KeyOf[v], d) => LeadsTo(t, PointsTo(t, slot), w, d)
  BY <1>1, StandsAbove
<1>3. \A n \in DOMAIN t.nodes : Full(t, n) \in Nat /\ t.from[n] \in Nat /\ t.from[n] <= Full(t, n)
  BY <1>1, NodeTypes
<1>4. \A n \in DOMAIN t.nodes : Full(t2, n) = Full(t, n) /\ t2.under[n] = t.under[n]
  BY DEF Forked, ForkedNodes
<1>5. Full(t2, f) = d + p /\ t2.under[f] = v
  BY DEF Forked, ForkNode, Full
<1>6. /\ \A n \in DOMAIN t.nodes : \A key : Passes(t2, n, key) <=> Passes(t, n, key)
      /\ \A n \in DOMAIN t.nodes : \A key : NextOf(t2, n, key) = NextOf(t, n, key)
  BY <1>4 DEF Passes, NextOf
<1>7. /\ \A key : Passes(t2, f, key) <=> Same(key, KeyOf[v], d + p)
      /\ \A key : NextOf(t2, f, key) = key[d + p + 1]
  BY <1>5 DEF Passes, NextOf
<1>. QED  BY <1>1, <1>2, <1>3, <1>5, <1>6, <1>7 DEF ForkFacts

\* What was below slot is below the new node, behind the byte of u.
LEMMA ForkBehind ==
    ASSUME StoreGivesKeys, NEW t, NEW t2, NEW slot, NEW d, NEW v, NEW u, NEW p, NEW f,
           Forked(t, t2, slot, d, v, u, p, f), ForkFacts(t, t2, slot, d, v, u, p, f),
           NEW w \in t.stored, LeadsTo(t, PointsTo(t, slot), w, d)
    PROVE  /\ Same(KeyOf[w], KeyOf[v], d + p) /\ d + p < Len(KeyOf[w])
           /\ KeyOf[w][d + p + 1] = KeyOf[u][d + p + 1]
           /\ LeadsTo(t2, PointsTo(t, slot), w, d + p + 1) /\ LeadsTo(t2, Address(f), w, d)
<1>. DEFINE ref == PointsTo(t, slot)
            e == d + p + 1
<1>1. /\ TreeTypes(t) /\ v \in LeafValues /\ u \in LeafValues /\ u \in t.stored /\ w \in LeafValues
      /\ LeadsTo(t, ref, u, d) /\ d \in Nat /\ p \in Nat /\ e \in Nat
      /\ Same(KeyOf[u], KeyOf[v], d + p) /\ d + p < Len(KeyOf[u])
      /\ \A n \in DOMAIN t.nodes : ref = Address(n) => d + p < Full(t, n)
  BY DEF ForkFacts
<1>2. KeyOf[u] \in Seq(Nat) /\ KeyOf[v] \in Seq(Nat) /\ KeyOf[w] \in Seq(Nat)
  BY <1>1, KeyTypes
<1>3. t2.from[f] = d /\ f \in DOMAIN t2.nodes
  BY DEF Forked, ForkNode
<1>4. /\ \A n \in DOMAIN t.nodes : n \in DOMAIN t2.nodes /\ (ref = Address(n) => t2.from[n] = e)
      /\ \A x \in t.stored : ref = MakeLeaf(x) => t2.depth[x] = e
  BY DEF Forked, ForkedNodes
<1>5. /\ \A n \in DOMAIN t.nodes : \A key : Passes(t2, n, key) <=> Passes(t, n, key)
      /\ \A key : Passes(t2, f, key) <=> Same(key, KeyOf[v], d + p)
  BY DEF ForkFacts
<1>6. \/ u = w /\ ref = MakeLeaf(u) /\ t.depth[u] = d
      \/ \E k \in DOMAIN t.nodes : /\ ref = Address(k) /\ t.from[k] = d
                                   /\ Passes(t, k, KeyOf[u]) /\ Passes(t, k, KeyOf[w])
  BY <1>1, LeadsOnce
<1>. HIDE DEF ref
<1>7. Same(KeyOf[w], KeyOf[v], d + p) /\ d + p < Len(KeyOf[w]) /\ KeyOf[w][e] = KeyOf[u][e] /\ LeadsTo(t2, ref, w, e)
  <2>1. CASE u = w /\ ref = MakeLeaf(u)
    BY <1>1, <1>4, <2>1 DEF LeadsTo
  <2>2. ASSUME NEW k \in DOMAIN t.nodes, ref = Address(k), Passes(t, k, KeyOf[u]), Passes(t, k, KeyOf[w])
        PROVE  Same(KeyOf[w], KeyOf[v], d + p) /\ d + p < Len(KeyOf[w]) /\ KeyOf[w][e] = KeyOf[u][e] /\ LeadsTo(t2, ref, w, e)
    <3>1. Same(KeyOf[w], KeyOf[u], Full(t, k)) /\ Full(t, k) \in Nat
      BY <1>1, <2>2, PassTogether, NodeTypes
    <3>2. e <= Full(t, k)
      BY <1>1, <2>2, <3>1
    <3>3. Same(KeyOf[w], KeyOf[u], d + p) /\ Same(KeyOf[w], KeyOf[u], e)
      BY <1>1, <1>2, <3>1, <3>2, SameProperties
    <3>4. Same(KeyOf[w], KeyOf[v], d + p)
      BY <1>1, <1>2, <3>3, SameProperties
    <3>5. d + p < Len(KeyOf[w]) /\ KeyOf[w][e] = KeyOf[u][e]
      <4>1. e \in 1..e /\ d + p < e
        BY <1>1
      <4>. HIDE DEF e
      <4>2. e <= Len(KeyOf[w]) /\ KeyOf[w][e] = KeyOf[u][e]
        BY <3>3, <4>1 DEF Same
      <4>. QED  BY <1>1, <1>2, <4>1, <4>2
    <3>6. LeadsTo(t2, ref, w, e)
      BY <1>4, <1>5, <2>2 DEF LeadsTo
    <3>. QED  BY <3>4, <3>5, <3>6
  <2>. QED  BY <1>6, <2>1, <2>2
<1>8. LeadsTo(t2, Address(f), w, d)
  BY <1>3, <1>5, <1>7 DEF LeadsTo
<1>. QED  BY <1>7, <1>8 DEF ref

\* Elsewhere nothing changes, and a reference that leads to u, with no more
\* consumed than slot has, now leads to v as well.
LEMMA ForkElsewhere ==
    ASSUME StoreGivesKeys, NEW t, NEW t2, NEW slot, NEW d, NEW v, NEW u, NEW p, NEW f,
           Forked(t, t2, slot, d, v, u, p, f), ForkFacts(t, t2, slot, d, v, u, p, f),
           NEW ref, ref # PointsTo(t, slot), NEW w \in t.stored, NEW e, LeadsTo(t, ref, w, e)
    PROVE  LeadsTo(t2, ref, w, e) /\ (w = u /\ e <= d => LeadsTo(t2, ref, v, e))
<1>. DEFINE at == PointsTo(t, slot)
<1>1. /\ TreeTypes(t) /\ TreeNests(t) /\ v \in LeafValues /\ u \in LeafValues /\ u \in t.stored /\ w \in LeafValues
      /\ LeadsTo(t, at, u, d) /\ d \in Nat /\ p \in Nat
      /\ Same(KeyOf[u], KeyOf[v], d + p)
      /\ \A n \in DOMAIN t.nodes : at = Address(n) => d + p < Full(t, n)
  BY DEF ForkFacts
<1>2. /\ \A n \in DOMAIN t.nodes : n \in DOMAIN t2.nodes /\ (at # Address(n) => t2.from[n] = t.from[n])
      /\ \A x \in t.stored : at # MakeLeaf(x) => t2.depth[x] = t.depth[x]
  BY DEF Forked, ForkedNodes
<1>3. /\ \A n \in DOMAIN t.nodes : \A key : Passes(t2, n, key) <=> Passes(t, n, key)
      /\ \A n \in DOMAIN t.nodes : Full(t, n) \in Nat /\ t.from[n] \in Nat /\ t.from[n] <= Full(t, n)
  BY DEF ForkFacts
<1>4. LeadsTo(t2, ref, w, e)
  BY <1>2, <1>3 DEF LeadsTo
<1>5. ASSUME w = u, e <= d PROVE LeadsTo(t2, ref, v, e)
  <2>1. CASE ref = MakeLeaf(u) /\ t.depth[u] = e
    <3>1. PICK k \in DOMAIN t.nodes : at = Address(k) /\ t.from[k] = d /\ Passes(t, k, KeyOf[u])
      BY <1>1, <2>1 DEF LeadsTo
    <3>2. Full(t, k) < t.depth[u] /\ t.depth[u] \in Nat
      BY <1>1, <3>1 DEF TreeNests, TreeTypes
    <3>. QED  BY <1>1, <1>3, <1>5, <2>1, <3>1, <3>2
  <2>2. ASSUME NEW k \in DOMAIN t.nodes, ref = Address(k), t.from[k] = e, Passes(t, k, KeyOf[u])
        PROVE  LeadsTo(t2, ref, v, e)
    <3>1. Full(t, k) <= d + p
      <4>1. CASE at = MakeLeaf(u) /\ t.depth[u] = d
        <5>1. Full(t, k) < t.depth[u]
          BY <1>1, <2>2 DEF TreeNests
        <5>. QED  BY <1>1, <1>3, <4>1, <5>1
      <4>2. ASSUME NEW m \in DOMAIN t.nodes, at = Address(m), t.from[m] = d, Passes(t, m, KeyOf[u])
            PROVE  Full(t, k) <= d + p
        <5>1. m # k
          BY <2>2, <4>2
        <5>2. /\ Full(t, k) # Full(t, m)
              /\ Full(t, k) < Full(t, m) => Full(t, k) < t.from[m]
          BY <1>1, <2>2, <4>2, <5>1, PassInOrder
        <5>3. Full(t, m) < Full(t, k) => Full(t, m) < t.from[k]
          BY <1>1, <2>2, <4>2, PassInOrder
        <5>4. ~(Full(t, m) < Full(t, k))
          BY <1>1, <1>3, <1>5, <2>2, <4>2, <5>3
        <5>. QED  BY <1>1, <1>3, <4>2, <5>2, <5>4
      <4>. QED  BY <1>1, <4>1, <4>2 DEF LeadsTo
    <3>2. d + p \in Nat /\ d + p >= Full(t, k)
      BY <1>1, <1>3, <3>1
    <3>3. Passes(t, k, KeyOf[v])
      BY <1>1, <2>2, <3>2, PassTogether
    <3>. QED  BY <1>2, <1>3, <2>2, <3>3 DEF LeadsTo
  <2>. QED  BY <1>5, <2>1, <2>2 DEF LeadsTo
<1>. QED  BY <1>4, <1>5

LEMMA ForkTypes ==
    ASSUME StoreGivesKeys, NEW t, NEW t2, NEW slot, NEW d, NEW v, NEW u, NEW p, NEW f,
           Forked(t, t2, slot, d, v, u, p, f), ForkFacts(t, t2, slot, d, v, u, p, f)
    PROVE  TreeTypes(t2)
<1>1. /\ TreeTypes(t) /\ t.stored \subseteq LeafValues /\ v \in LeafValues
      /\ d \in Nat /\ p \in Nat /\ f \in Nat \ {0} /\ d + p < Len(KeyOf[v])
      /\ \A n \in DOMAIN t.nodes : \A key : Passes(t2, n, key) <=> Passes(t, n, key)
      /\ \A key : Passes(t2, f, key) <=> Same(key, KeyOf[v], d + p)
  BY DEF ForkFacts
<1>2. /\ DOMAIN t2.nodes = DOMAIN t.nodes \union {f} /\ t2.stored = t.stored \union {v}
      /\ t2.depth[v] = d + p + 1
      /\ \A w \in t.stored : t2.depth[w] = IF PointsTo(t, slot) = MakeLeaf(w) THEN d + p + 1 ELSE t.depth[w]
      /\ t2.under[f] = v /\ t2.from[f] = d /\ t2.nodes[f].prefixLength = p
  BY DEF Forked, ForkNode
<1>3. \A n \in DOMAIN t.nodes :
        /\ t2.under[n] = t.under[n] /\ t2.nodes[n].prefixLength \in Nat
        /\ t2.from[n] = IF PointsTo(t, slot) = Address(n) THEN d + p + 1 ELSE t.from[n]
  BY DEF Forked, ForkedNodes
<1>4. \A w \in t2.stored : t2.depth[w] \in Nat
  BY <1>1, <1>2 DEF TreeTypes
<1>5. ASSUME NEW n \in DOMAIN t2.nodes
      PROVE  /\ t2.from[n] \in Nat /\ t2.nodes[n].prefixLength \in Nat
             /\ t2.under[n] \in t2.stored /\ Passes(t2, n, KeyOf[t2.under[n]])
  <2>1. CASE n \in DOMAIN t.nodes
    <3>1. t.from[n] \in Nat /\ t.under[n] \in t.stored /\ Passes(t, n, KeyOf[t.under[n]])
      BY <1>1, <2>1 DEF TreeTypes
    <3>2. /\ t2.under[n] = t.under[n] /\ t2.nodes[n].prefixLength \in Nat
          /\ t2.from[n] = d + p + 1 \/ t2.from[n] = t.from[n]
      BY <1>3, <2>1
    <3>3. t2.from[n] \in Nat
      BY ONLY <1>1, <3>1, <3>2
    <3>4. Passes(t2, n, KeyOf[t2.under[n]])
      BY <1>1, <2>1, <3>1, <3>2
    <3>. QED  BY ONLY <1>2, <3>1, <3>2, <3>3, <3>4
  <2>2. CASE n = f
    <3>1. KeyOf[v] \in Seq(Nat)
      BY <1>1, KeyTypes
    <3>2. Same(KeyOf[v], KeyOf[v], d + p)
      BY <1>1, <3>1 DEF Same
    <3>. QED  BY <1>1, <1>2, <2>2, <3>2
  <2>. QED  BY <1>2, <2>1, <2>2
<1>. QED  BY <1>1, <1>2, <1>4, <1>5 DEF TreeTypes

LEMMA ForkNests ==
    ASSUME StoreGivesKeys, NEW t, IsTree(t), NEW t2, NEW slot, NEW d, NEW v, NEW u, NEW p, NEW f,
           Forked(t, t2, slot, d, v, u, p, f), ForkFacts(t, t2, slot, d, v, u, p, f)
    PROVE  TreeNests(t2)
<1>. DEFINE at == PointsTo(t, slot)
<1>1. /\ TreeTypes(t) /\ TreeNests(t) /\ t.stored \subseteq LeafValues /\ v \in LeafValues /\ v \notin t.stored
      /\ d \in Nat /\ p \in Nat /\ f \notin DOMAIN t.nodes
      /\ u \in LeafValues /\ u \in t.stored /\ LeadsTo(t, at, u, d)
      /\ \A n \in DOMAIN t.nodes : at = Address(n) => d + p < Full(t, n)
      /\ \A w \in t.stored : Same(KeyOf[w], KeyOf[v], d) => LeadsTo(t, at, w, d)
      /\ \A n \in DOMAIN t.nodes : Full(t, n) \in Nat /\ t.from[n] \in Nat /\ t.from[n] <= Full(t, n)
  BY DEF ForkFacts
<1>2. /\ \A n \in DOMAIN t.nodes : \A key : Passes(t2, n, key) <=> Passes(t, n, key)
      /\ \A key : Passes(t2, f, key) <=> Same(key, KeyOf[v], d + p)
      /\ Full(t2, f) = d + p
  BY DEF ForkFacts
<1>3. /\ DOMAIN t2.nodes = DOMAIN t.nodes \union {f} /\ t2.stored = t.stored \union {v}
      /\ t2.depth[v] = d + p + 1 /\ t2.under[f] = v /\ t2.from[f] = d
      /\ \A w \in t.stored : t2.depth[w] = IF at = MakeLeaf(w) THEN d + p + 1 ELSE t.depth[w]
  BY DEF Forked, ForkNode
<1>4. \A n \in DOMAIN t.nodes :
        /\ t2.under[n] = t.under[n] /\ Full(t2, n) = Full(t, n)
        /\ t2.from[n] = IF at = Address(n) THEN d + p + 1 ELSE t.from[n]
  BY DEF Forked, ForkedNodes
<1>5. \A n \in DOMAIN t.nodes : Passes(t, n, KeyOf[v]) => Full(t, n) < d
  BY ForkBetween DEF Forked
<1>6. \A n \in DOMAIN t.nodes : t.under[n] \in t.stored /\ t.under[n] \in LeafValues /\ Passes(t, n, KeyOf[t.under[n]])
  BY <1>1, NodeTypes
\* A key that agrees with v up to the fork is under all that slot points to.
<1>7. ASSUME NEW w \in t.stored, Same(KeyOf[w], KeyOf[v], d + p)
      PROVE  \/ at = MakeLeaf(w) /\ t.depth[w] = d
             \/ \E k \in DOMAIN t.nodes : at = Address(k) /\ t.from[k] = d /\ d + p < Full(t, k) /\ Passes(t, k, KeyOf[w])
  <2>1. KeyOf[w] \in Seq(Nat) /\ KeyOf[v] \in Seq(Nat)
    BY <1>1, KeyTypes
  <2>2. Same(KeyOf[w], KeyOf[v], d)
    BY <1>1, <1>7, <2>1, SameProperties
  <2>3. LeadsTo(t, at, w, d)
    BY <1>1, <2>2
  <2>. QED  BY <1>1, <2>3 DEF LeadsTo
<1>. HIDE DEF at
<1>8. ASSUME NEW n \in DOMAIN t2.nodes, NEW m \in DOMAIN t2.nodes
      PROVE  Nested(t2, n, m)
  <2>. SUFFICES ASSUME Passes(t2, n, KeyOf[t2.under[m]]), Full(t2, n) <= Full(t2, m)
                PROVE  n = m \/ Full(t2, n) < t2.from[m]
    BY DEF Nested
  <2>1. CASE n \in DOMAIN t.nodes /\ m \in DOMAIN t.nodes
    <3>1. Nested(t, n, m)
      BY <1>1, <2>1 DEF TreeNests
    <3>2. n = m \/ Full(t, n) < t.from[m]
      BY <1>2, <1>4, <2>1, <3>1 DEF Nested
    <3>3. at = Address(m) => t.from[m] = d
      <4>1. ASSUME at = Address(m) PROVE t.from[m] = d
        <5>1. ~IsLeaf(at) /\ at \div 2 = m
          <6>1. m \in Nat
            BY <1>1, <2>1 DEF TreeTypes
          <6>. QED  BY <4>1, <6>1, Addresses
        <5>. QED  BY <1>1, <5>1, LeadsSomewhere
      <4>. QED  BY <4>1
    <3>. QED  BY <1>1, <1>4, <2>1, <3>2, <3>3
  <2>2. CASE n \in DOMAIN t.nodes /\ m = f
    BY <1>2, <1>3, <1>4, <1>5, <2>2
  <2>3. CASE n = f /\ m \in DOMAIN t.nodes
    <3>. DEFINE r == t.under[m]
    <3>1. r \in t.stored /\ r \in LeafValues /\ Passes(t, m, KeyOf[r]) /\ Same(KeyOf[r], KeyOf[v], d + p)
      BY <1>2, <1>4, <1>6, <2>3
    <3>. HIDE DEF r
    <3>2. d + p <= Full(t, m) /\ Full(t, m) \in Nat
      BY <1>1, <1>2, <1>4, <2>3
    <3>3. CASE at = MakeLeaf(r) /\ t.depth[r] = d
      <4>1. Full(t, m) < t.depth[r]
        BY <1>1, <2>3, <3>1 DEF TreeNests
      <4>. QED  BY <1>1, <3>2, <3>3, <4>1
    <3>4. ASSUME NEW k \in DOMAIN t.nodes, at = Address(k), t.from[k] = d, d + p < Full(t, k), Passes(t, k, KeyOf[r])
          PROVE  Full(t2, n) < t2.from[m]
      <4>1. CASE k = m
        BY <1>1, <1>2, <1>4, <2>3, <3>4, <4>1
      <4>2. CASE k # m
        <5>1. /\ Full(t, m) = Full(t, k) => m = k
              /\ Full(t, m) < Full(t, k) => Full(t, m) < t.from[k]
              /\ Full(t, k) < Full(t, m) => Full(t, k) < t.from[m]
          BY <1>1, <2>3, <3>1, <3>4, PassInOrder
        <5>2. Full(t, k) < t.from[m] /\ t.from[m] \in Nat
          BY <1>1, <2>3, <3>2, <3>4, <4>2, <5>1
        <5>3. at # Address(m)
          <6>1. k \in Nat /\ m \in Nat
            BY <1>1, <2>3 DEF TreeTypes
          <6>. QED  BY <3>4, <4>2, <6>1, Addresses
        <5>. QED  BY <1>1, <1>2, <1>4, <2>3, <3>4, <5>2, <5>3
      <4>. QED  BY <4>1, <4>2
    <3>. QED  BY <1>7, <3>1, <3>3, <3>4
  <2>. QED  BY <1>3, <2>1, <2>2, <2>3
<1>9. ASSUME NEW n \in DOMAIN t2.nodes, NEW w \in t2.stored, Passes(t2, n, KeyOf[w])
      PROVE  Full(t2, n) < t2.depth[w]
  <2>1. CASE n \in DOMAIN t.nodes /\ w \in t.stored
    <3>1. Full(t, n) < t.depth[w] /\ t.depth[w] \in Nat
      BY <1>1, <1>2, <1>9, <2>1 DEF TreeNests, TreeTypes
    <3>2. at = MakeLeaf(w) => t.depth[w] = d
      <4>1. ASSUME at = MakeLeaf(w) PROVE t.depth[w] = d
        <5>1. IsLeaf(at) /\ GetLeafValue(at) = w
          BY <1>1, <2>1, <4>1, Tagged
        <5>. QED  BY <1>1, <5>1, LeadsSomewhere
      <4>. QED  BY <4>1
    <3>. QED  BY <1>1, <1>3, <1>4, <2>1, <3>1, <3>2
  <2>2. CASE n \in DOMAIN t.nodes /\ w = v
    <3>1. Full(t, n) < d
      BY <1>2, <1>5, <1>9, <2>2
    <3>. QED  BY <1>1, <1>3, <1>4, <2>2, <3>1
  <2>3. CASE n = f /\ w \in t.stored
    <3>1. Same(KeyOf[w], KeyOf[v], d + p)
      BY <1>2, <1>9, <2>3
    <3>2. CASE at = MakeLeaf(w) /\ t.depth[w] = d
      BY <1>1, <1>2, <1>3, <2>3, <3>2
    <3>3. ASSUME NEW k \in DOMAIN t.nodes, at = Address(k), d + p < Full(t, k), Passes(t, k, KeyOf[w])
          PROVE  Full(t2, n) < t2.depth[w]
      <4>1. Full(t, k) < t.depth[w] /\ t.depth[w] \in Nat
        BY <1>1, <2>3, <3>3 DEF TreeNests, TreeTypes
      <4>2. at # MakeLeaf(w)
        <5>1. k \in Nat /\ w \in LeafValues
          BY <1>1, <2>3 DEF TreeTypes
        <5>. QED  BY <3>3, <5>1, Tagged
      <4>. QED  BY <1>1, <1>2, <1>3, <2>3, <3>3, <4>1, <4>2
    <3>. QED  BY <1>7, <2>3, <3>1, <3>2, <3>3
  <2>4. CASE n = f /\ w = v
    BY <1>1, <1>2, <1>3, <2>4
  <2>. QED  BY <1>3, <2>1, <2>2, <2>3, <2>4
<1>. QED  BY <1>8, <1>9 DEF TreeNests

\* A slot other than that where a walk stands points elsewhere.
LEMMA OnlySlot ==
    ASSUME StoreGivesKeys, NEW t, IsTree(t), NEW slot, NEW d, NEW key, Stands(t, slot, d, key)
    PROVE  /\ \A n \in DOMAIN t.nodes : \A b \in DOMAIN t.nodes[n].child :
                 /\ slot # <<n, b>> => t.nodes[n].child[b] # PointsTo(t, slot)
                 /\ slot = <<n, b>> => t.nodes[n].child[b] = PointsTo(t, slot) /\ d = Full(t, n) + 1
           /\ slot # Root => t.top # PointsTo(t, slot)
           /\ slot = Root => t.top = PointsTo(t, slot) /\ d = 0
<1>1. CASE slot = Root /\ d = 0
  <2>1. PointsTo(t, slot) = t.top
    BY <1>1 DEF PointsTo
  <2>2. \A n, b : slot # <<n, b>>
    BY <1>1 DEF Root
  <2>. QED  BY <1>1, <2>1, <2>2, OnePointer
<1>2. ASSUME NEW m \in DOMAIN t.nodes, NEW c \in DOMAIN t.nodes[m].child, slot = <<m, c>>, d = Full(t, m) + 1
      PROVE  /\ \A n \in DOMAIN t.nodes : \A b \in DOMAIN t.nodes[n].child :
                 /\ slot # <<n, b>> => t.nodes[n].child[b] # PointsTo(t, slot)
                 /\ slot = <<n, b>> => t.nodes[n].child[b] = PointsTo(t, slot) /\ d = Full(t, n) + 1
             /\ slot # Root /\ t.top # PointsTo(t, slot)
  <2>1. slot # Root /\ PointsTo(t, slot) = t.nodes[m].child[c]
    BY <1>2 DEF PointsTo, Root
  <2>2. \A n, b : slot = <<n, b>> => n = m /\ b = c
    BY <1>2
  <2>3. /\ t.nodes[m].child[c] # t.top
        /\ \A n \in DOMAIN t.nodes : \A b \in DOMAIN t.nodes[n].child :
              t.nodes[n].child[b] = t.nodes[m].child[c] => n = m /\ b = c
    BY OnePointer
  <2>. QED  BY <1>2, <2>1, <2>2, <2>3
<1>. QED  BY <1>1, <1>2 DEF Stands

LEMMA ForkSlot ==
    ASSUME StoreGivesKeys, NEW t, IsTree(t), NEW slot, NEW d, NEW v, NEW u, NEW p, ForksOff(t, slot, d, v, u, p)
    PROVE  /\ \A n \in DOMAIN t.nodes : \A b \in DOMAIN t.nodes[n].child :
                 /\ slot # <<n, b>> => t.nodes[n].child[b] # PointsTo(t, slot)
                 /\ slot = <<n, b>> => t.nodes[n].child[b] = PointsTo(t, slot) /\ d = Full(t, n) + 1
           /\ slot # Root => t.top # PointsTo(t, slot)
           /\ slot = Root => t.top = PointsTo(t, slot) /\ d = 0
<1>1. Stands(t, slot, d, KeyOf[v])
  BY DEF ForksOff
<1>. QED  BY <1>1, OnlySlot

LEMMA ForkBranches ==
    ASSUME StoreGivesKeys, NEW t, IsTree(t), NEW t2, NEW slot, NEW d, NEW v, NEW u, NEW p, NEW f,
           Forked(t, t2, slot, d, v, u, p, f), ForkFacts(t, t2, slot, d, v, u, p, f), NEW n \in DOMAIN t.nodes
    PROVE  Branches(t2, n)
<1>. DEFINE at == PointsTo(t, slot)
            child == t.nodes[n].child
            child2 == t2.nodes[n].child
            i == Full(t, n) + 1
<1>1. /\ TreeTypes(t) /\ t.stored \subseteq LeafValues /\ v \in LeafValues /\ u \in t.stored /\ u \in LeafValues
      /\ d \in Nat /\ p \in Nat /\ Full(t, n) \in Nat /\ f \notin DOMAIN t.nodes
      /\ Same(KeyOf[u], KeyOf[v], d + p) /\ d + p < Len(KeyOf[v])
      /\ \A w \in t.stored : Same(KeyOf[w], KeyOf[v], d) => LeadsTo(t, at, w, d)
  BY DEF ForkFacts
<1>2. /\ \A key : Passes(t2, n, key) <=> Passes(t, n, key)
      /\ \A key : NextOf(t2, n, key) = NextOf(t, n, key)
      /\ \A key : Passes(t2, f, key) <=> Same(key, KeyOf[v], d + p)
  BY DEF ForkFacts
<1>3. t2.stored = t.stored \union {v} /\ t2.from[f] = d /\ f \in DOMAIN t2.nodes /\ Full(t2, n) = Full(t, n)
  BY DEF Forked, ForkNode, ForkedNodes
<1>4. /\ DOMAIN child2 = DOMAIN child
      /\ \A b \in DOMAIN child : child2[b] = IF slot = <<n, b>> THEN Address(f) ELSE child[b]
  BY DEF Forked, Redirects
<1>5. \A b \in DOMAIN child : /\ slot # <<n, b>> => child[b] # at
                              /\ slot = <<n, b>> => child[b] = at /\ d = i
  BY ForkSlot DEF Forked
<1>6. Branches(t, n)
  BY DEF IsTree
<1>7. LeadsTo(t2, Address(f), v, d)
  <2>1. KeyOf[v] \in Seq(Nat)
    BY <1>1, KeyTypes
  <2>2. Same(KeyOf[v], KeyOf[v], d + p)
    BY <1>1, <2>1 DEF Same
  <2>. QED  BY <1>2, <1>3, <2>2 DEF LeadsTo
<1>. HIDE DEF at, child, child2, i
<1>8. ASSUME NEW w \in t.stored, Passes(t, n, KeyOf[w])
      PROVE  /\ Full(t, n) < Len(KeyOf[w]) /\ NextOf(t, n, KeyOf[w]) \in DOMAIN child2
             /\ LeadsTo(t2, child2[NextOf(t, n, KeyOf[w])], w, i)
  <2>. DEFINE b == NextOf(t, n, KeyOf[w])
  <2>1. Full(t, n) < Len(KeyOf[w]) /\ b \in DOMAIN child /\ LeadsTo(t, child[b], w, i)
    BY <1>6, <1>8 DEF Branches, child, i
  <2>. HIDE DEF b
  <2>2. CASE slot = <<n, b>>
    <3>1. LeadsTo(t, at, w, d) /\ d = i /\ child2[b] = Address(f)
      BY <1>4, <1>5, <2>1, <2>2
    <3>2. LeadsTo(t2, Address(f), w, d)
      BY <3>1, ForkBehind DEF at
    <3>. QED  BY <1>4, <2>1, <3>1, <3>2 DEF b
  <2>3. CASE slot # <<n, b>>
    <3>1. child[b] # at /\ child2[b] = child[b]
      BY <1>4, <1>5, <2>1, <2>3
    <3>2. LeadsTo(t2, child[b], w, i)
      BY <2>1, <3>1, ForkElsewhere DEF at
    <3>. QED  BY <1>4, <2>1, <3>1, <3>2 DEF b
  <2>. QED  BY <2>2, <2>3
<1>9. ASSUME Passes(t, n, KeyOf[v])
      PROVE  /\ Full(t, n) < Len(KeyOf[v]) /\ NextOf(t, n, KeyOf[v]) \in DOMAIN child2
             /\ LeadsTo(t2, child2[NextOf(t, n, KeyOf[v])], v, i)
  <2>1. Full(t, n) < d /\ Passes(t, n, KeyOf[u])
    BY <1>9, ForkBetween DEF Forked
  <2>. DEFINE b == NextOf(t, n, KeyOf[u])
  <2>2. b \in DOMAIN child /\ LeadsTo(t, child[b], u, i)
    BY <1>1, <1>6, <2>1 DEF Branches, child, i
  <2>3. NextOf(t, n, KeyOf[v]) = b /\ Full(t, n) < Len(KeyOf[v]) /\ i <= d
    <3>1. i \in 1..(d + p) /\ Full(t, n) < Len(KeyOf[v]) /\ i <= d
      <4>1. KeyOf[v] \in Seq(Nat)
        BY <1>1, KeyTypes
      <4>. QED  BY <1>1, <2>1, <4>1 DEF i
    <3>2. KeyOf[u][i] = KeyOf[v][i]
      BY <1>1, <3>1 DEF Same
    <3>. QED  BY <3>1, <3>2 DEF NextOf, i
  <2>. HIDE DEF b
  <2>4. CASE slot = <<n, b>>
    BY <1>4, <1>5, <1>7, <2>2, <2>3, <2>4
  <2>5. CASE slot # <<n, b>>
    <3>1. child[b] # at /\ child2[b] = child[b]
      BY <1>4, <1>5, <2>2, <2>5
    <3>2. LeadsTo(t2, child[b], v, i)
      BY <1>1, <2>2, <2>3, <3>1, ForkElsewhere DEF at
    <3>. QED  BY <1>4, <2>2, <2>3, <3>1, <3>2
  <2>. QED  BY <2>4, <2>5
<1>10. \A w \in t2.stored : Passes(t2, n, KeyOf[w]) =>
          /\ Full(t2, n) < Len(KeyOf[w]) /\ NextOf(t2, n, KeyOf[w]) \in DOMAIN child2
          /\ LeadsTo(t2, child2[NextOf(t2, n, KeyOf[w])], w, Full(t2, n) + 1)
  BY <1>2, <1>3, <1>8, <1>9 DEF i
<1>11. \A b \in DOMAIN child2 : \E w \in t2.stored : Passes(t2, n, KeyOf[w]) /\ NextOf(t2, n, KeyOf[w]) = b
  BY <1>2, <1>3, <1>4, <1>6 DEF Branches, child
<1>12. \E a, b \in DOMAIN child2 : a # b
  BY <1>4, <1>6 DEF Branches, child
<1>. QED  BY <1>10, <1>11, <1>12 DEF Branches, child2

LEMMA ForkNewBranches ==
    ASSUME StoreGivesKeys, NEW t, NEW t2, NEW slot, NEW d, NEW v, NEW u, NEW p, NEW f,
           Forked(t, t2, slot, d, v, u, p, f), ForkFacts(t, t2, slot, d, v, u, p, f)
    PROVE  Branches(t2, f)
<1>. DEFINE at == PointsTo(t, slot)
            x == KeyOf[u][d + p + 1]
            y == KeyOf[v][d + p + 1]
            child == t2.nodes[f].child
<1>1. /\ TreeTypes(t) /\ t.stored \subseteq LeafValues /\ v \in LeafValues /\ u \in t.stored
      /\ d \in Nat /\ p \in Nat /\ d + p < Len(KeyOf[v]) /\ x # y
      /\ Same(KeyOf[u], KeyOf[v], d + p) /\ LeadsTo(t, at, u, d)
      /\ \A w \in t.stored : Same(KeyOf[w], KeyOf[v], d) => LeadsTo(t, at, w, d)
  BY DEF ForkFacts
<1>2. /\ \A key : Passes(t2, f, key) <=> Same(key, KeyOf[v], d + p)
      /\ \A key : NextOf(t2, f, key) = key[d + p + 1]
      /\ Full(t2, f) = d + p
  BY DEF ForkFacts
<1>3. t2.stored = t.stored \union {v} /\ t2.depth[v] = d + p + 1
  BY DEF Forked
<1>4. DOMAIN child = {x, y} /\ child[y] = MakeLeaf(v) /\ child[x] = at
  BY <1>1 DEF Forked, ForkNode
<1>. HIDE DEF at, x, y, child
<1>5. ASSUME NEW w \in t.stored, Same(KeyOf[w], KeyOf[v], d + p)
      PROVE  d + p < Len(KeyOf[w]) /\ KeyOf[w][d + p + 1] = x /\ LeadsTo(t2, at, w, d + p + 1)
  <2>1. KeyOf[w] \in Seq(Nat) /\ KeyOf[v] \in Seq(Nat)
    BY <1>1, KeyTypes
  <2>2. Same(KeyOf[w], KeyOf[v], d)
    BY <1>1, <1>5, <2>1, SameProperties
  <2>3. LeadsTo(t, at, w, d)
    BY <1>1, <2>2
  <2>. QED  BY <2>3, ForkBehind DEF at, x
<1>6. \A w \in t2.stored : Passes(t2, f, KeyOf[w]) =>
          /\ Full(t2, f) < Len(KeyOf[w]) /\ NextOf(t2, f, KeyOf[w]) \in DOMAIN child
          /\ LeadsTo(t2, child[NextOf(t2, f, KeyOf[w])], w, Full(t2, f) + 1)
  <2>1. LeadsTo(t2, child[y], v, d + p + 1)
    BY <1>3, <1>4 DEF LeadsTo
  <2>. QED  BY <1>1, <1>2, <1>3, <1>4, <1>5, <2>1 DEF y
<1>7. Same(KeyOf[v], KeyOf[v], d + p)
  <2>1. KeyOf[v] \in Seq(Nat)
    BY <1>1, KeyTypes
  <2>. QED  BY <1>1, <2>1 DEF Same
<1>8. \A b \in DOMAIN child : \E w \in t2.stored : Passes(t2, f, KeyOf[w]) /\ NextOf(t2, f, KeyOf[w]) = b
  BY <1>1, <1>2, <1>3, <1>4, <1>7 DEF x, y
<1>. QED  BY <1>1, <1>4, <1>6, <1>8 DEF Branches, child

LEMMA ForkTop ==
    ASSUME StoreGivesKeys, NEW t, IsTree(t), NEW t2, NEW slot, NEW d, NEW v, NEW u, NEW p, NEW f,
           Forked(t, t2, slot, d, v, u, p, f), ForkFacts(t, t2, slot, d, v, u, p, f), NEW w \in t2.stored
    PROVE  LeadsTo(t2, t2.top, w, 0)
<1>. DEFINE at == PointsTo(t, slot)
            zero == 0
<1>1. /\ t2.stored = t.stored \union {v} /\ t2.from[f] = d /\ f \in DOMAIN t2.nodes
      /\ t2.top = IF slot = Root THEN Address(f) ELSE t.top
  BY DEF Forked, ForkNode, Redirects
<1>2. /\ slot # Root => t.top # at
      /\ slot = Root => t.top = at /\ d = zero
  BY ForkSlot DEF Forked
<1>3. /\ d \in Nat /\ p \in Nat /\ v \in LeafValues /\ d + p < Len(KeyOf[v]) /\ u \in t.stored
      /\ \A key : Passes(t2, f, key) <=> Same(key, KeyOf[v], d + p)
  BY DEF ForkFacts
<1>4. \A x \in t.stored : LeadsTo(t, t.top, x, zero)
  BY DEF IsTree
<1>5. zero <= d
  BY <1>3
<1>. HIDE DEF at, zero
<1>6. CASE slot = Root
  <2>1. CASE w = v
    <3>1. KeyOf[v] \in Seq(Nat)
      BY <1>3, KeyTypes
    <3>2. Same(KeyOf[v], KeyOf[v], d + p)
      BY <1>3, <3>1 DEF Same
    <3>3. LeadsTo(t2, Address(f), v, d)
      BY <1>1, <1>3, <3>2 DEF LeadsTo
    <3>. QED  BY <1>1, <1>2, <1>6, <2>1, <3>3 DEF zero
  <2>2. CASE w \in t.stored
    <3>1. LeadsTo(t, at, w, d)
      BY <1>2, <1>4, <1>6, <2>2
    <3>2. LeadsTo(t2, Address(f), w, d)
      BY <2>2, <3>1, ForkBehind DEF at
    <3>. QED  BY <1>1, <1>2, <1>6, <3>2 DEF zero
  <2>. QED  BY <1>1, <2>1, <2>2
<1>7. CASE slot # Root
  <2>1. t.top # at /\ t2.top = t.top
    BY <1>1, <1>2, <1>7
  <2>2. CASE w = v
    <3>1. LeadsTo(t2, t.top, v, zero)
      BY <1>3, <1>4, <1>5, <2>1, ForkElsewhere DEF at
    <3>. QED  BY <2>1, <2>2, <3>1 DEF zero
  <2>3. CASE w \in t.stored
    <3>1. LeadsTo(t2, t.top, w, zero)
      BY <1>4, <2>1, <2>3, ForkElsewhere DEF at
    <3>. QED  BY <2>1, <3>1 DEF zero
  <2>. QED  BY <1>1, <2>2, <2>3
<1>. QED  BY <1>6, <1>7

LEMMA ForkLinked ==
    ASSUME StoreGivesKeys, NEW t, IsTree(t), NEW t2, NEW slot, NEW d, NEW v, NEW u, NEW p, NEW f,
           Forked(t, t2, slot, d, v, u, p, f), ForkFacts(t, t2, slot, d, v, u, p, f)
    PROVE  /\ \A ref : Linked(t, ref) => Linked(t2, ref)
           /\ Linked(t2, Address(f)) /\ Linked(t2, MakeLeaf(v))
<1>. DEFINE at == PointsTo(t, slot)
            x == KeyOf[u][d + p + 1]
            y == KeyOf[v][d + p + 1]
<1>1. /\ f \in DOMAIN t2.nodes /\ \A n \in DOMAIN t.nodes : n \in DOMAIN t2.nodes
      /\ x # y
  BY DEF Forked, ForkFacts
<1>2. /\ x \in DOMAIN t2.nodes[f].child /\ y \in DOMAIN t2.nodes[f].child
      /\ t2.nodes[f].child[y] = MakeLeaf(v) /\ t2.nodes[f].child[x] = at
  BY <1>1 DEF Forked, ForkNode
<1>3. /\ t2.top = IF slot = Root THEN Address(f) ELSE t.top
      /\ \A n \in DOMAIN t.nodes :
            /\ DOMAIN t2.nodes[n].child = DOMAIN t.nodes[n].child
            /\ \A b \in DOMAIN t.nodes[n].child :
                  t2.nodes[n].child[b] = IF slot = <<n, b>> THEN Address(f) ELSE t.nodes[n].child[b]
  BY DEF Forked, Redirects
<1>4. /\ \A n \in DOMAIN t.nodes : \A b \in DOMAIN t.nodes[n].child : slot = <<n, b>> => t.nodes[n].child[b] = at
      /\ slot = Root => t.top = at
  BY ForkSlot DEF Forked
<1>5. slot = Root \/ \E n \in DOMAIN t.nodes : \E b \in DOMAIN t.nodes[n].child : slot = <<n, b>>
  BY DEF Forked, ForksOff, Stands
<1>. HIDE DEF at, x, y
<1>6. Linked(t2, at) /\ Linked(t2, MakeLeaf(v))
  BY <1>1, <1>2 DEF Linked
<1>7. Linked(t2, Address(f))
  <2>1. CASE slot = Root
    BY <1>3, <2>1 DEF Linked
  <2>2. ASSUME NEW n \in DOMAIN t.nodes, NEW b \in DOMAIN t.nodes[n].child, slot = <<n, b>>
        PROVE  Linked(t2, Address(f))
    BY <1>1, <1>3, <2>2 DEF Linked
  <2>. QED  BY <1>5, <2>1, <2>2
<1>8. ASSUME NEW ref, Linked(t, ref)
      PROVE  Linked(t2, ref)
  <2>1. CASE t.top = ref
    <3>1. CASE slot = Root
      BY <1>4, <1>6, <2>1, <3>1
    <3>2. CASE slot # Root
      BY <1>3, <2>1, <3>2 DEF Linked
    <3>. QED  BY <3>1, <3>2
  <2>2. ASSUME NEW n \in DOMAIN t.nodes, NEW b \in DOMAIN t.nodes[n].child, t.nodes[n].child[b] = ref
        PROVE  Linked(t2, ref)
    <3>1. CASE slot = <<n, b>>
      BY <1>4, <1>6, <2>2, <3>1
    <3>2. CASE slot # <<n, b>>
      BY <1>1, <1>3, <2>2, <3>2 DEF Linked
    <3>. QED  BY <3>1, <3>2
  <2>. QED  BY <1>8, <2>1, <2>2 DEF Linked
<1>. QED  BY <1>6, <1>7, <1>8

LEMMA ForkTree ==
    ASSUME StoreGivesKeys, NEW t, IsTree(t), NEW t2, NEW slot, NEW d, NEW v, NEW u, NEW p, NEW f,
           Forked(t, t2, slot, d, v, u, p, f)
    PROVE  IsTree(t2)
<1>1. ForkFacts(t, t2, slot, d, v, u, p, f)
  BY ForkBasics
<1>2. /\ DOMAIN t2.nodes = DOMAIN t.nodes \union {f} /\ t2.stored = t.stored \union {v}
      /\ Keeps(t2, f) /\ \A n \in DOMAIN t.nodes : Keeps(t2, n)
  BY DEF Forked, ForkNode, ForkedNodes
<1>3. TreeTypes(t2) /\ TreeNests(t2)
  BY <1>1, ForkTypes, ForkNests
<1>4. \A n \in DOMAIN t2.nodes : Branches(t2, n)
  BY <1>1, <1>2, ForkBranches, ForkNewBranches
<1>5. /\ \A n \in DOMAIN t2.nodes : Linked(t2, Address(n))
      /\ \A w \in t2.stored : Linked(t2, MakeLeaf(w))
  <2>1. /\ \A n \in DOMAIN t.nodes : Linked(t, Address(n))
        /\ \A w \in t.stored : Linked(t, MakeLeaf(w))
    BY DEF IsTree
  <2>. QED  BY <1>1, <1>2, <2>1, ForkLinked
<1>6. \A w \in t2.stored : LeadsTo(t2, t2.top, w, 0)
  BY <1>1, ForkTop
<1>. QED  BY <1>2, <1>3, <1>4, <1>5, <1>6 DEF IsTree

-----------------------------------------------------------------------------
(* A node gets a child for a byte that has none.                           *)

\* Key v passes the prefix of node n, and no other key there goes on like it.
Extended(t, t2, n, v) ==
    /\ n \in DOMAIN t.nodes /\ v \in LeafValues \ t.stored
    /\ Passes(t, n, KeyOf[v]) /\ Full(t, n) < Len(KeyOf[v]) /\ NextOf(t, n, KeyOf[v]) \notin DOMAIN t.nodes[n].child
    /\ DOMAIN t2.nodes = DOMAIN t.nodes /\ t2.top = t.top /\ t2.stored = t.stored \union {v}
    /\ t2.depth[v] = Full(t, n) + 1 /\ \A w \in t.stored : t2.depth[w] = t.depth[w]
    /\ \A m \in DOMAIN t.nodes :
          /\ t2.under[m] = t.under[m] /\ t2.from[m] = t.from[m]
          /\ t2.nodes[m].prefixLength = t.nodes[m].prefixLength /\ t2.nodes[m].prefix = t.nodes[m].prefix
          /\ m # n => t2.nodes[m].child = t.nodes[m].child
    /\ t2.nodes[n].child = [b \in DOMAIN t.nodes[n].child \union {NextOf(t, n, KeyOf[v])} |->
                               IF b = NextOf(t, n, KeyOf[v]) THEN MakeLeaf(v) ELSE t.nodes[n].child[b]]

\* The nodes on the way of v lie in front of n, and are those of all keys there.
LEMMA ExtendBetween ==
    ASSUME StoreGivesKeys, NEW t, IsTree(t), NEW t2, NEW n, NEW v, Extended(t, t2, n, v)
    PROVE  \A m \in DOMAIN t.nodes : Passes(t, m, KeyOf[v]) =>
               /\ Passes(t, m, KeyOf[t.under[n]]) /\ (m = n \/ Full(t, m) < t.from[n])
<1>1. /\ TreeTypes(t) /\ TreeNests(t) /\ v \in LeafValues /\ n \in DOMAIN t.nodes
      /\ Passes(t, n, KeyOf[v]) /\ Full(t, n) < Len(KeyOf[v])
  BY DEF IsTree, Extended
<1>2. \A m \in DOMAIN t.nodes : /\ Full(t, m) \in Nat /\ t.under[m] \in t.stored /\ t.under[m] \in LeafValues
                                /\ Passes(t, m, KeyOf[t.under[m]])
  BY <1>1, NodeTypes
<1>3. Branches(t, n)
  BY <1>1 DEF IsTree
<1>. SUFFICES ASSUME NEW m \in DOMAIN t.nodes, Passes(t, m, KeyOf[v])
              PROVE  Passes(t, m, KeyOf[t.under[n]]) /\ (m = n \/ Full(t, m) < t.from[n])
  OBVIOUS
<1>4. Full(t, m) <= Full(t, n)
  <2>1. SUFFICES ASSUME Full(t, n) < Full(t, m) PROVE FALSE
    BY <1>1, <1>2
  <2>. DEFINE r == t.under[m]
              i == Full(t, n) + 1
  <2>2. Same(KeyOf[v], KeyOf[r], Full(t, m)) /\ r \in t.stored /\ r \in LeafValues
    BY <1>1, <1>2, PassTogether
  <2>3. i \in 1..Full(t, m)
    BY <1>1, <1>2, <2>1
  <2>4. Passes(t, n, KeyOf[r])
    BY <1>1, <1>2, <2>1, <2>2, PassTogether
  <2>. HIDE DEF r
  <2>5. KeyOf[v][i] = KeyOf[r][i]
    BY <2>2, <2>3 DEF Same
  <2>6. NextOf(t, n, KeyOf[v]) = NextOf(t, n, KeyOf[r])
    BY <2>5 DEF NextOf
  <2>. QED  BY <1>3, <2>2, <2>4, <2>6 DEF Branches, Extended
<1>5. Same(KeyOf[v], KeyOf[t.under[n]], Full(t, n))
  BY <1>1, <1>2, PassTogether
<1>6. Passes(t, m, KeyOf[t.under[n]])
  BY <1>1, <1>2, <1>4, <1>5, PassTogether
<1>. QED  BY <1>1, <1>2, <1>4, <1>6, PassInOrder

LEMMA ExtendTree ==
    ASSUME StoreGivesKeys, NEW t, IsTree(t), NEW t2, NEW n, NEW v, Extended(t, t2, n, v)
    PROVE  IsTree(t2)
<1>. DEFINE r == t.under[n]
            y == NextOf(t, n, KeyOf[v])
<1>1. /\ TreeTypes(t) /\ TreeNests(t) /\ t.stored \subseteq LeafValues
      /\ v \in LeafValues /\ v \notin t.stored /\ n \in DOMAIN t.nodes
      /\ Passes(t, n, KeyOf[v]) /\ Full(t, n) < Len(KeyOf[v]) /\ y \notin DOMAIN t.nodes[n].child
  BY DEF IsTree, TreeTypes, Extended
<1>2. /\ DOMAIN t2.nodes = DOMAIN t.nodes /\ t2.top = t.top /\ t2.stored = t.stored \union {v}
      /\ t2.depth[v] = Full(t, n) + 1 /\ \A w \in t.stored : t2.depth[w] = t.depth[w]
      /\ \A m \in DOMAIN t.nodes :
          /\ t2.under[m] = t.under[m] /\ t2.from[m] = t.from[m]
          /\ t2.nodes[m].prefixLength = t.nodes[m].prefixLength /\ t2.nodes[m].prefix = t.nodes[m].prefix
          /\ m # n => t2.nodes[m].child = t.nodes[m].child
  BY DEF Extended
<1>3. /\ DOMAIN t2.nodes[n].child = DOMAIN t.nodes[n].child \union {y}
      /\ t2.nodes[n].child[y] = MakeLeaf(v)
      /\ \A b \in DOMAIN t.nodes[n].child : t2.nodes[n].child[b] = t.nodes[n].child[b]
  BY <1>1 DEF Extended
<1>4. \A m \in DOMAIN t.nodes : \A b \in DOMAIN t.nodes[m].child :
          b \in DOMAIN t2.nodes[m].child /\ t2.nodes[m].child[b] = t.nodes[m].child[b]
  BY <1>2, <1>3
<1>5. \A m \in DOMAIN t.nodes : /\ Full(t, m) \in Nat /\ t.from[m] \in Nat /\ t.from[m] <= Full(t, m)
                                /\ t.under[m] \in t.stored /\ t.under[m] \in LeafValues
                                /\ Passes(t, m, KeyOf[t.under[m]])
  BY <1>1, NodeTypes
<1>6. \A m \in DOMAIN t.nodes : Full(t2, m) = Full(t, m)
  BY <1>2 DEF Full
<1>7. /\ \A m \in DOMAIN t.nodes : \A key : Passes(t2, m, key) <=> Passes(t, m, key)
      /\ \A m \in DOMAIN t.nodes : \A key : NextOf(t2, m, key) = NextOf(t, m, key)
  BY <1>2, <1>6 DEF Passes, NextOf
<1>8. \A m \in DOMAIN t.nodes : Passes(t, m, KeyOf[v]) =>
          Passes(t, m, KeyOf[r]) /\ (m = n \/ Full(t, m) < t.from[n])
  BY ExtendBetween
<1>9. Same(KeyOf[v], KeyOf[r], Full(t, n)) /\ Same(KeyOf[r], KeyOf[v], Full(t, n))
  <2>1. Same(KeyOf[v], KeyOf[r], Full(t, n))
    BY <1>1, <1>5, PassTogether
  <2>2. KeyOf[v] \in Seq(Nat) /\ KeyOf[r] \in Seq(Nat)
    BY <1>1, <1>5, KeyTypes
  <2>. QED  BY <1>1, <1>5, <2>1, <2>2, SameProperties
<1>10. r \in t.stored /\ r \in LeafValues /\ Passes(t, n, KeyOf[r])
  BY <1>1, <1>5
<1>. HIDE DEF r, y
<1>11. ASSUME NEW ref, NEW w \in t.stored, NEW e, LeadsTo(t, ref, w, e)
       PROVE  LeadsTo(t2, ref, w, e)
  BY <1>2, <1>7, <1>11 DEF LeadsTo
<1>12. ASSUME NEW ref, NEW e \in Nat, e <= t.from[n], LeadsTo(t, ref, r, e)
       PROVE  LeadsTo(t2, ref, v, e)
  <2>1. CASE ref = MakeLeaf(r) /\ t.depth[r] = e
    <3>1. Full(t, n) < t.depth[r]
      BY <1>1, <1>10 DEF TreeNests
    <3>. QED  BY <1>1, <1>5, <1>12, <2>1, <3>1
  <2>2. ASSUME NEW j \in DOMAIN t.nodes, ref = Address(j), t.from[j] = e, Passes(t, j, KeyOf[r])
        PROVE  LeadsTo(t2, ref, v, e)
    <3>1. Full(t, n) < Full(t, j) => Full(t, n) < t.from[j]
      BY <1>1, <1>10, <2>2, PassInOrder
    <3>2. Full(t, j) <= Full(t, n)
      BY <1>1, <1>5, <1>12, <2>2, <3>1
    <3>3. Passes(t, j, KeyOf[v])
      BY <1>1, <1>5, <1>9, <1>10, <2>2, <3>2, PassTogether
    <3>. QED  BY <1>2, <1>7, <2>2, <3>3 DEF LeadsTo
  <2>. QED  BY <1>12, <2>1, <2>2 DEF LeadsTo
<1>13. TreeTypes(t2)
  <2>1. \A w \in t2.stored : t2.depth[w] \in Nat
    BY <1>1, <1>2, <1>5 DEF TreeTypes
  <2>. QED  BY <1>1, <1>2, <1>7, <2>1 DEF TreeTypes
<1>14. TreeNests(t2)
  <2>1. \A m, k \in DOMAIN t2.nodes : Nested(t2, m, k)
    BY <1>1, <1>2, <1>6, <1>7 DEF TreeNests, Nested
  <2>2. ASSUME NEW m \in DOMAIN t.nodes, Passes(t, m, KeyOf[v])
        PROVE  Full(t, m) < Full(t, n) + 1
    BY <1>1, <1>5, <1>8, <2>2
  <2>3. \A m \in DOMAIN t2.nodes : \A w \in t2.stored : Passes(t2, m, KeyOf[w]) => Full(t2, m) < t2.depth[w]
    BY <1>1, <1>2, <1>6, <1>7, <2>2 DEF TreeNests
  <2>. QED  BY <2>1, <2>3 DEF TreeNests
<1>15. ASSUME NEW m \in DOMAIN t.nodes
       PROVE  Branches(t2, m)
  <2>. DEFINE child == t.nodes[m].child
              child2 == t2.nodes[m].child
              i == Full(t, m) + 1
  <2>1. Branches(t, m)
    BY DEF IsTree
  <2>2. ASSUME NEW w \in t.stored, Passes(t, m, KeyOf[w])
        PROVE  /\ Full(t, m) < Len(KeyOf[w]) /\ NextOf(t, m, KeyOf[w]) \in DOMAIN child2
               /\ LeadsTo(t2, child2[NextOf(t, m, KeyOf[w])], w, i)
    <3>1. Full(t, m) < Len(KeyOf[w]) /\ NextOf(t, m, KeyOf[w]) \in DOMAIN child /\ LeadsTo(t, child[NextOf(t, m, KeyOf[w])], w, i)
      BY <2>1, <2>2 DEF Branches
    <3>. HIDE DEF i
    <3>2. LeadsTo(t2, child[NextOf(t, m, KeyOf[w])], w, i)
      BY <1>11, <3>1
    <3>. QED  BY <1>4, <3>1, <3>2
  <2>3. ASSUME Passes(t, m, KeyOf[v])
        PROVE  /\ Full(t, m) < Len(KeyOf[v]) /\ NextOf(t, m, KeyOf[v]) \in DOMAIN child2
               /\ LeadsTo(t2, child2[NextOf(t, m, KeyOf[v])], v, i)
    <3>1. CASE m = n
      <4>1. NextOf(t, m, KeyOf[v]) = y
        BY <3>1 DEF y
      <4>2. LeadsTo(t2, MakeLeaf(v), v, i)
        BY <1>2, <3>1 DEF LeadsTo
      <4>. QED  BY <1>1, <1>3, <3>1, <4>1, <4>2
    <3>2. CASE m # n
      <4>1. Passes(t, m, KeyOf[r]) /\ Full(t, m) < t.from[n]
        BY <1>8, <2>3, <3>2
      <4>2. i \in 1..Full(t, n) /\ i \in Nat /\ i <= t.from[n]
        BY <1>1, <1>5, <4>1
      <4>3. KeyOf[r][i] = KeyOf[v][i] /\ Full(t, m) < Len(KeyOf[v])
        <5>1. Len(KeyOf[v]) \in Nat
          BY <1>1, KeyTypes
        <5>. HIDE DEF i
        <5>2. KeyOf[r][i] = KeyOf[v][i]
          BY <1>9, <4>2 DEF Same
        <5>. QED  BY <1>1, <1>5, <4>1, <5>1, <5>2
      <4>4. NextOf(t, m, KeyOf[v]) = NextOf(t, m, KeyOf[r])
        BY <4>3 DEF NextOf
      <4>5. NextOf(t, m, KeyOf[r]) \in DOMAIN child /\ LeadsTo(t, child[NextOf(t, m, KeyOf[r])], r, i)
        BY <1>10, <2>1, <4>1 DEF Branches
      <4>. HIDE DEF i
      <4>6. LeadsTo(t2, child[NextOf(t, m, KeyOf[r])], v, i)
        BY <1>12, <4>2, <4>5
      <4>. QED  BY <1>4, <4>3, <4>4, <4>5, <4>6
    <3>. QED  BY <3>1, <3>2
  <2>4. \A w \in t2.stored : Passes(t2, m, KeyOf[w]) =>
          /\ Full(t2, m) < Len(KeyOf[w]) /\ NextOf(t2, m, KeyOf[w]) \in DOMAIN child2
          /\ LeadsTo(t2, child2[NextOf(t2, m, KeyOf[w])], w, Full(t2, m) + 1)
    BY <1>2, <1>6, <1>7, <2>2, <2>3
  <2>5. \A b \in DOMAIN child2 : \E w \in t2.stored : Passes(t2, m, KeyOf[w]) /\ NextOf(t2, m, KeyOf[w]) = b
    <3>1. \A b \in DOMAIN child : \E w \in t2.stored : Passes(t2, m, KeyOf[w]) /\ NextOf(t2, m, KeyOf[w]) = b
      BY <1>2, <1>7, <2>1 DEF Branches
    <3>2. CASE m = n
      <4>1. v \in t2.stored /\ Passes(t2, n, KeyOf[v]) /\ NextOf(t2, n, KeyOf[v]) = y
        BY <1>1, <1>2, <1>7 DEF y
      <4>. QED  BY <1>3, <3>1, <3>2, <4>1
    <3>3. CASE m # n
      BY <1>2, <3>1, <3>3
    <3>. QED  BY <3>2, <3>3
  <2>6. \E a, b \in DOMAIN child2 : a # b
    BY <1>4, <2>1 DEF Branches
  <2>. QED  BY <2>4, <2>5, <2>6 DEF Branches
<1>16. ASSUME NEW m \in DOMAIN t.nodes
       PROVE  Keeps(t2, m)
  <2>1. Keeps(t, m)
    BY DEF IsTree
  <2>. QED  BY <1>2, <2>1 DEF Keeps
<1>17. /\ \A m \in DOMAIN t2.nodes : Linked(t2, Address(m))
       /\ \A w \in t2.stored : Linked(t2, MakeLeaf(w))
  <2>1. \A ref : Linked(t, ref) => Linked(t2, ref)
    BY <1>2, <1>4 DEF Linked
  <2>2. Linked(t2, MakeLeaf(v))
    BY <1>1, <1>2, <1>3 DEF Linked
  <2>3. /\ \A m \in DOMAIN t.nodes : Linked(t, Address(m))
        /\ \A w \in t.stored : Linked(t, MakeLeaf(w))
    BY DEF IsTree
  <2>. QED  BY <1>2, <2>1, <2>2, <2>3
<1>18. ASSUME NEW w \in t2.stored
       PROVE  LeadsTo(t2, t2.top, w, 0)
  <2>. DEFINE zero == 0
  <2>1. \A x \in t.stored : LeadsTo(t, t.top, x, zero)
    BY DEF IsTree
  <2>2. zero \in Nat /\ zero <= t.from[n]
    BY <1>1, <1>5
  <2>. HIDE DEF zero
  <2>3. LeadsTo(t2, t.top, w, zero)
    BY <1>2, <1>10, <1>11, <1>12, <2>1, <2>2
  <2>. QED  BY <1>2, <2>3 DEF zero
<1>. QED  BY <1>2, <1>13, <1>14, <1>15, <1>16, <1>17, <1>18 DEF IsTree

-----------------------------------------------------------------------------
(* A full node is replaced by a larger one.                                *)

Moved(n, f, m) == IF m = n THEN f ELSE m
Redirected(n, f, ref) == IF ref = Address(n) THEN Address(f) ELSE ref

\* Node k of t2 is what node m is in t.
IsMoved(t, t2, n, f, m, k) ==
    /\ t2.under[k] = t.under[m] /\ t2.from[k] = t.from[m]
    /\ t2.nodes[k].prefixLength = t.nodes[m].prefixLength /\ t2.nodes[k].prefix = t.nodes[m].prefix
    /\ DOMAIN t2.nodes[k].child = DOMAIN t.nodes[m].child
    /\ \A b \in DOMAIN t.nodes[m].child : t2.nodes[k].child[b] = Redirected(n, f, t.nodes[m].child[b])

Renamed(t, t2, n, f) ==
    /\ n \in DOMAIN t.nodes /\ f \in Nat \ {0} /\ f \notin DOMAIN t.nodes
    /\ DOMAIN t2.nodes = (DOMAIN t.nodes \ {n}) \union {f}
    /\ t2.stored = t.stored /\ t2.top = Redirected(n, f, t.top)
    /\ \A w \in t.stored : t2.depth[w] = t.depth[w]
    /\ \A m \in DOMAIN t.nodes : IsMoved(t, t2, n, f, m, Moved(n, f, m))

LEMMA RenameTree ==
    ASSUME StoreGivesKeys, NEW t, IsTree(t), NEW t2, NEW n, NEW f, Renamed(t, t2, n, f)
    PROVE  IsTree(t2)
<1>1. /\ TreeTypes(t) /\ TreeNests(t) /\ t.stored \subseteq LeafValues
      /\ n \in DOMAIN t.nodes /\ n \in Nat /\ f \in Nat \ {0} /\ f \notin DOMAIN t.nodes
      /\ DOMAIN t.nodes \subseteq Nat \ {0}
      /\ DOMAIN t2.nodes = (DOMAIN t.nodes \ {n}) \union {f}
      /\ t2.stored = t.stored /\ t2.top = Redirected(n, f, t.top)
      /\ \A w \in t.stored : t2.depth[w] = t.depth[w]
  BY DEF IsTree, TreeTypes, Renamed
<1>2. \A k \in DOMAIN t2.nodes : \E m \in DOMAIN t.nodes : k = Moved(n, f, m) /\ IsMoved(t, t2, n, f, m, k)
  BY <1>1 DEF Moved, Renamed
<1>3. /\ \A m \in DOMAIN t.nodes : Moved(n, f, m) \in DOMAIN t2.nodes /\ IsMoved(t, t2, n, f, m, Moved(n, f, m))
      /\ \A m \in DOMAIN t.nodes : Redirected(n, f, Address(m)) = Address(Moved(n, f, m))
      /\ \A w \in t.stored : Redirected(n, f, MakeLeaf(w)) = MakeLeaf(w)
  <2>1. \A w \in t.stored : MakeLeaf(w) # Address(n)
    BY <1>1, Tagged
  <2>2. \A m \in DOMAIN t.nodes : Address(m) = Address(n) => m = n
    BY <1>1 DEF Address
  <2>. QED  BY <1>1, <2>1, <2>2 DEF Moved, Redirected, Renamed
<1>4. \A m \in DOMAIN t.nodes, k \in DOMAIN t2.nodes :
          IsMoved(t, t2, n, f, m, k) =>
             /\ Full(t2, k) = Full(t, m) /\ t2.from[k] = t.from[m] /\ t2.under[k] = t.under[m]
             /\ \A key : (Passes(t2, k, key) <=> Passes(t, m, key)) /\ NextOf(t2, k, key) = NextOf(t, m, key)
  BY DEF IsMoved, Full, Passes, NextOf
<1>5. ASSUME NEW ref, NEW w \in t.stored, NEW e, LeadsTo(t, ref, w, e)
      PROVE  LeadsTo(t2, Redirected(n, f, ref), w, e)
  <2>1. CASE ref = MakeLeaf(w) /\ t.depth[w] = e
    BY <1>1, <1>3, <2>1 DEF LeadsTo
  <2>2. ASSUME NEW m \in DOMAIN t.nodes, ref = Address(m), t.from[m] = e, Passes(t, m, KeyOf[w])
        PROVE  LeadsTo(t2, Redirected(n, f, ref), w, e)
    <3>. DEFINE k == Moved(n, f, m)
    <3>1. k \in DOMAIN t2.nodes /\ IsMoved(t, t2, n, f, m, k) /\ Redirected(n, f, ref) = Address(k)
      BY <1>3, <2>2
    <3>. HIDE DEF k
    <3>2. t2.from[k] = e /\ Passes(t2, k, KeyOf[w])
      BY <1>4, <2>2, <3>1
    <3>. QED  BY <3>1, <3>2 DEF LeadsTo
  <2>. QED  BY <1>5, <2>1, <2>2 DEF LeadsTo
<1>6. ASSUME NEW ref, Linked(t, ref)
      PROVE  Linked(t2, Redirected(n, f, ref))
  <2>1. CASE t.top = ref
    BY <1>1, <2>1 DEF Linked
  <2>2. ASSUME NEW m \in DOMAIN t.nodes, NEW b \in DOMAIN t.nodes[m].child, t.nodes[m].child[b] = ref
        PROVE  Linked(t2, Redirected(n, f, ref))
    <3>. DEFINE k == Moved(n, f, m)
    <3>1. k \in DOMAIN t2.nodes /\ IsMoved(t, t2, n, f, m, k)
      BY <1>3
    <3>. HIDE DEF k
    <3>2. b \in DOMAIN t2.nodes[k].child /\ t2.nodes[k].child[b] = Redirected(n, f, ref)
      BY <2>2, <3>1 DEF IsMoved
    <3>. QED  BY <3>1, <3>2 DEF Linked
  <2>. QED  BY <1>6, <2>1, <2>2 DEF Linked
<1>7. TreeTypes(t2)
  <2>1. ASSUME NEW k \in DOMAIN t2.nodes
        PROVE  /\ t2.from[k] \in Nat /\ t2.nodes[k].prefixLength \in Nat
               /\ t2.under[k] \in t2.stored /\ Passes(t2, k, KeyOf[t2.under[k]])
    <3>1. PICK m \in DOMAIN t.nodes : IsMoved(t, t2, n, f, m, k)
      BY <1>2
    <3>2. t2.from[k] = t.from[m] /\ t2.under[k] = t.under[m] /\ (Passes(t2, k, KeyOf[t.under[m]]) <=> Passes(t, m, KeyOf[t.under[m]]))
      BY <1>4, <3>1
    <3>. QED  BY <1>1, <3>1, <3>2 DEF TreeTypes, IsMoved
  <2>2. \A w \in t2.stored : t2.depth[w] \in Nat
    BY <1>1 DEF TreeTypes
  <2>. QED  BY <1>1, <2>1, <2>2 DEF TreeTypes
<1>8. TreeNests(t2)
  <2>1. ASSUME NEW k \in DOMAIN t2.nodes, NEW j \in DOMAIN t2.nodes
        PROVE  Nested(t2, k, j)
    <3>1. PICK m \in DOMAIN t.nodes : k = Moved(n, f, m) /\ IsMoved(t, t2, n, f, m, k)
      BY <1>2
    <3>2. PICK i \in DOMAIN t.nodes : j = Moved(n, f, i) /\ IsMoved(t, t2, n, f, i, j)
      BY <1>2
    <3>3. Nested(t, m, i)
      BY <1>1 DEF TreeNests
    <3>4. Full(t2, k) = Full(t, m) /\ (Passes(t2, k, KeyOf[t.under[i]]) <=> Passes(t, m, KeyOf[t.under[i]]))
      BY <1>4, <3>1
    <3>5. Full(t2, j) = Full(t, i) /\ t2.from[j] = t.from[i] /\ t2.under[j] = t.under[i]
      BY <1>4, <3>2
    <3>. QED  BY <3>1, <3>2, <3>3, <3>4, <3>5 DEF Nested
  <2>2. ASSUME NEW k \in DOMAIN t2.nodes, NEW w \in t2.stored, Passes(t2, k, KeyOf[w])
        PROVE  Full(t2, k) < t2.depth[w]
    <3>1. PICK m \in DOMAIN t.nodes : IsMoved(t, t2, n, f, m, k)
      BY <1>2
    <3>2. Full(t2, k) = Full(t, m) /\ Passes(t, m, KeyOf[w])
      BY <1>4, <2>2, <3>1
    <3>. QED  BY <1>1, <3>2 DEF TreeNests
  <2>. QED  BY <2>1, <2>2 DEF TreeNests
<1>9. ASSUME NEW k \in DOMAIN t2.nodes
      PROVE  Keeps(t2, k) /\ Branches(t2, k) /\ Linked(t2, Address(k))
  <2>1. PICK m \in DOMAIN t.nodes : k = Moved(n, f, m) /\ IsMoved(t, t2, n, f, m, k)
    BY <1>2
  <2>2. Keeps(t, m) /\ Branches(t, m) /\ Linked(t, Address(m))
    BY DEF IsTree
  <2>. DEFINE i == Full(t, m) + 1
              child == t.nodes[m].child
              child2 == t2.nodes[k].child
  <2>3. /\ Full(t2, k) = Full(t, m)
        /\ \A key : (Passes(t2, k, key) <=> Passes(t, m, key)) /\ NextOf(t2, k, key) = NextOf(t, m, key)
    BY <1>4, <2>1
  <2>4. Keeps(t2, k)
    BY <2>1, <2>2 DEF Keeps, IsMoved
  <2>5. Linked(t2, Address(k))
    BY <1>3, <1>6, <2>1, <2>2
  <2>6. DOMAIN child2 = DOMAIN child /\ \A b \in DOMAIN child : child2[b] = Redirected(n, f, child[b])
    BY <2>1 DEF IsMoved
  <2>7. ASSUME NEW w \in t.stored, Passes(t, m, KeyOf[w])
        PROVE  /\ Full(t, m) < Len(KeyOf[w]) /\ NextOf(t, m, KeyOf[w]) \in DOMAIN child
               /\ LeadsTo(t2, child2[NextOf(t, m, KeyOf[w])], w, i)
    <3>1. /\ Full(t, m) < Len(KeyOf[w]) /\ NextOf(t, m, KeyOf[w]) \in DOMAIN child
          /\ LeadsTo(t, child[NextOf(t, m, KeyOf[w])], w, i)
      BY <2>2, <2>7 DEF Branches
    <3>. HIDE DEF i, child, child2
    <3>2. LeadsTo(t2, Redirected(n, f, child[NextOf(t, m, KeyOf[w])]), w, i)
      BY <1>5, <3>1
    <3>. QED  BY <2>6, <3>1, <3>2
  <2>8. \A w \in t2.stored : Passes(t2, k, KeyOf[w]) =>
          /\ Full(t2, k) < Len(KeyOf[w]) /\ NextOf(t2, k, KeyOf[w]) \in DOMAIN child2
          /\ LeadsTo(t2, child2[NextOf(t2, k, KeyOf[w])], w, Full(t2, k) + 1)
    BY <1>1, <2>3, <2>6, <2>7
  <2>9. \A b \in DOMAIN child2 : \E w \in t2.stored : Passes(t2, k, KeyOf[w]) /\ NextOf(t2, k, KeyOf[w]) = b
    BY <1>1, <2>2, <2>3, <2>6 DEF Branches
  <2>10. \E a, b \in DOMAIN child2 : a # b
    BY <2>2, <2>6 DEF Branches
  <2>. QED  BY <2>4, <2>5, <2>8, <2>9, <2>10 DEF Branches
<1>10. ASSUME NEW w \in t2.stored
       PROVE  LeadsTo(t2, t2.top, w, 0) /\ Linked(t2, MakeLeaf(w))
  <2>. DEFINE zero == 0
  <2>1. LeadsTo(t, t.top, w, zero) /\ Linked(t, MakeLeaf(w))
    BY <1>1 DEF IsTree
  <2>. HIDE DEF zero
  <2>2. LeadsTo(t2, Redirected(n, f, t.top), w, zero)
    BY <1>1, <1>5, <2>1
  <2>3. Linked(t2, Redirected(n, f, MakeLeaf(w)))
    BY <1>6, <2>1
  <2>. QED  BY <1>1, <1>3, <2>2, <2>3 DEF zero
<1>11. t2.stored # {}
  BY <1>1 DEF TreeTypes
<1>. QED  BY <1>7, <1>8, <1>9, <1>10, <1>11 DEF IsTree

-----------------------------------------------------------------------------
(* The first leaf.                                                         *)

FirstLeaf(t, t2, v) ==
    /\ t.stored = {} /\ v \in LeafValues
    /\ t2.nodes = t.nodes /\ t2.top = MakeLeaf(v) /\ t2.stored = {v} /\ t2.depth[v] = 0

LEMMA FirstTree ==
    ASSUME StoreGivesKeys, NEW t, IsTree(t), NEW t2, NEW v, FirstLeaf(t, t2, v)
    PROVE  IsTree(t2)
<1>1. DOMAIN t2.nodes = {}
  BY DEF IsTree, TreeTypes, FirstLeaf
<1>2. t2.top = MakeLeaf(v) /\ t2.stored = {v} /\ t2.depth[v] = 0 /\ v \in LeafValues
  BY DEF FirstLeaf
<1>. QED  BY <1>1, <1>2 DEF IsTree, TreeTypes, TreeNests, LeadsTo, Linked

-----------------------------------------------------------------------------
(* Walking down ends at a leaf: a node begins behind the one above, so no   *)
(* node is met twice.                                                       *)

LEMMA Ascending ==
    ASSUME NEW h \in Nat, NEW F \in [0..h -> Nat], \A i \in 1..h : F[i-1] < F[i]
    PROVE  \A i, j \in 0..h : i < j => F[i] < F[j]
<1>. DEFINE Bad == { j \in 0..h : \E i \in 0..h : i < j /\ ~(F[i] < F[j]) }
<1>1. SUFFICES ASSUME Bad # {}
               PROVE  FALSE
  OBVIOUS
<1>2. Bad \in SUBSET Nat
  OBVIOUS
<1>3. PICK j \in Bad : \A k \in Bad : j <= k
  <2>. HIDE DEF Bad
  <2>. QED  BY <1>1, <1>2, LeastElement
<1>4. PICK i \in 0..h : i < j /\ ~(F[i] < F[j])
  BY <1>3
<1>5. j \in 1..h /\ j - 1 \in 0..h /\ ~(j <= j - 1) /\ F[j-1] < F[j]
  BY <1>2, <1>3, <1>4
<1>6. j - 1 \notin Bad
  <2>. HIDE DEF Bad
  <2>. QED  BY <1>3, <1>5
<1>7. i < j - 1 => F[i] < F[j-1]
  BY <1>5, <1>6
<1>8. i = j - 1 \/ i < j - 1
  BY <1>4, <1>5
<1>. QED  BY <1>4, <1>5, <1>7, <1>8

\* What the pointers of a tree hold.
ReferencesOf(t) == { MakeLeaf(v) : v \in t.stored } \union { Address(n) : n \in DOMAIN t.nodes }

\* A walk goes from a node to one of its children, and stays at a leaf.
GoesDown(t, from, to) ==
    \/ IsLeaf(from) /\ to = from
    \/ ~IsLeaf(from) /\ \E b \in DOMAIN t.nodes[from \div 2].child : to = t.nodes[from \div 2].child[b]

WalksDown(t, way, h) ==
    /\ \A i \in 0..h : way[i] \in ReferencesOf(t)
    /\ \A i \in 1..h : GoesDown(t, way[i-1], way[i])

\* A reference of the tree.
LEMMA ReferenceKinds ==
    ASSUME StoreGivesKeys, NEW t, TreeTypes(t), NEW ref \in ReferencesOf(t)
    PROVE  /\ ref # Null
           /\ IsLeaf(ref) => GetLeafValue(ref) \in t.stored /\ ref = MakeLeaf(GetLeafValue(ref))
           /\ ~IsLeaf(ref) => ref \div 2 \in DOMAIN t.nodes /\ ref = Address(ref \div 2)
<1>1. t.stored \subseteq LeafValues /\ DOMAIN t.nodes \subseteq Nat \ {0}
  BY DEF TreeTypes
<1>2. CASE \E v \in t.stored : ref = MakeLeaf(v)
  <2>1. PICK v \in t.stored : ref = MakeLeaf(v)
    BY <1>2
  <2>2. v \in LeafValues
    BY <1>1
  <2>. QED  BY <2>1, <2>2, Tagged
<1>3. CASE \E n \in DOMAIN t.nodes : ref = Address(n)
  <2>1. PICK n \in DOMAIN t.nodes : ref = Address(n)
    BY <1>3
  <2>2. n \in Nat /\ n # 0
    BY <1>1
  <2>. QED  BY <2>1, <2>2, Addresses
<1>. QED  BY <1>2, <1>3 DEF ReferencesOf

LEMMA LeadingReference ==
    ASSUME NEW t, NEW ref, NEW v \in t.stored, NEW d, LeadsTo(t, ref, v, d)
    PROVE  ref \in ReferencesOf(t)
BY DEF LeadsTo, ReferencesOf

LEMMA WalkEnds ==
    ASSUME StoreGivesKeys, NEW t, IsTree(t), IsFiniteSet(DOMAIN t.nodes), NEW way, NEW h,
           h = Cardinality(DOMAIN t.nodes), WalksDown(t, way, h)
    PROVE  IsLeaf(way[h])
<1>. SUFFICES ASSUME ~IsLeaf(way[h])
              PROVE  FALSE
  OBVIOUS
<1>1. h \in Nat
  BY FS_CardinalityType
<1>2. TreeTypes(t)
  BY DEF IsTree
<1>3. \A i \in 0..h : way[i] \in ReferencesOf(t)
  BY DEF WalksDown
<1>. DEFINE Leaves == { i \in 0..h : IsLeaf(way[i]) }
<1>4. Leaves = {}
  <2>1. SUFFICES ASSUME Leaves # {} PROVE FALSE
    OBVIOUS
  <2>2. Leaves \in SUBSET Nat /\ \A i \in Leaves : i <= h
    BY <1>1
  <2>3. PICK i \in Leaves : \A k \in Leaves : k <= i
    <3>. HIDE DEF Leaves
    <3>. QED  BY <1>1, <2>1, <2>2, GreatestElement
  <2>4. i \in 0..h /\ IsLeaf(way[i]) /\ i # h
    BY <2>3
  <2>5. i + 1 \in 1..h /\ (i + 1) - 1 = i /\ i + 1 \in 0..h
    BY <1>1, <2>4
  <2>6. GoesDown(t, way[(i+1)-1], way[i+1])
    BY <2>5 DEF WalksDown
  <2>7. i + 1 \in Leaves
    BY <2>4, <2>5, <2>6 DEF GoesDown
  <2>8. ~(i + 1 <= i)
    BY <2>4, <1>1
  <2>. HIDE DEF Leaves
  <2>. QED  BY <2>3, <2>7, <2>8
<1>. DEFINE At_(i) == way[i] \div 2
            N == [i \in 0..h |-> At_(i)]
            F == [i \in 0..h |-> Full(t, At_(i))]
<1>5. \A i \in 0..h : ~IsLeaf(way[i])
  BY <1>4
<1>6. \A i \in 0..h : At_(i) \in DOMAIN t.nodes /\ way[i] = Address(At_(i))
  BY <1>2, <1>3, <1>5, ReferenceKinds
<1>7. \A i \in 0..h : Full(t, At_(i)) \in Nat
  BY <1>2, <1>6, NodeTypes
<1>8. ASSUME NEW i \in 1..h
      PROVE  Full(t, At_(i-1)) < Full(t, At_(i))
  <2>1. i - 1 \in 0..h /\ i \in 0..h
    BY <1>1
  <2>. DEFINE n == At_(i-1)
              m == At_(i)
  <2>2. n \in DOMAIN t.nodes /\ m \in DOMAIN t.nodes /\ way[i] = Address(m) /\ ~IsLeaf(way[i]) /\ ~IsLeaf(way[i-1])
    BY <1>5, <1>6, <2>1
  <2>3. PICK b \in DOMAIN t.nodes[n].child : way[i] = t.nodes[n].child[b]
    BY <2>2 DEF WalksDown, GoesDown
  <2>4. PICK v \in t.stored : LeadsTo(t, way[i], v, Full(t, n) + 1)
    <3>. HIDE DEF n
    <3>. QED  BY <2>2, <2>3, ChildLeads
  <2>5. t.from[m] = Full(t, n) + 1
    <3>. DEFINE e == Full(t, n) + 1
    <3>1. LeadsTo(t, way[i], v, e)
      BY <2>4
    <3>. HIDE DEF e
    <3>2. t.from[way[i] \div 2] = e
      BY <1>2, <2>2, <3>1, LeadsSomewhere
    <3>. QED  BY <3>2 DEF e
  <2>. HIDE DEF n, m
  <2>6. Full(t, n) \in Nat /\ Full(t, m) \in Nat /\ t.from[m] <= Full(t, m) /\ t.from[m] \in Nat
    BY <1>2, <2>2, NodeTypes
  <2>7. Full(t, n) < Full(t, m)
    BY <2>5, <2>6
  <2>. QED  BY <2>7 DEF n, m
<1>9. \A i, j \in 0..h : i < j => Full(t, At_(i)) < Full(t, At_(j))
  <2>1. F \in [0..h -> Nat]
    BY <1>7
  <2>2. \A i \in 1..h : F[i-1] < F[i]
    <3>1. \A i \in 1..h : i - 1 \in 0..h /\ i \in 0..h
      BY <1>1
    <3>. HIDE DEF At_
    <3>. QED  BY <1>8, <3>1
  <2>3. \A i, j \in 0..h : i < j => F[i] < F[j]
    <3>. HIDE DEF F
    <3>. QED  BY <1>1, <2>1, <2>2, Ascending
  <2>. HIDE DEF At_
  <2>. QED  BY <2>3
<1>10. N \in [0..h -> DOMAIN t.nodes]
  BY <1>6
<1>11. IsFiniteSet(0..h) /\ Cardinality(0..h) = h + 1
  BY <1>1, FS_Interval
<1>12. PICK i \in 0..h, j \in 0..h : i # j /\ N[i] = N[j]
  <2>. DEFINE S == 0..h
              T == DOMAIN t.nodes
  <2>1. Cardinality(T) < Cardinality(S)
    BY <1>1, <1>11
  <2>2. IsFiniteSet(S) /\ N \in [S -> T]
    BY <1>10, <1>11
  <2>3. IsFiniteSet(T)
    BY <1>1
  <2>4. \E i, j \in S : i # j /\ N[i] = N[j]
    <3>. HIDE DEF N, S, T
    <3>. QED  BY ONLY <2>1, <2>2, <2>3, FS_PigeonHole
  <2>. HIDE DEF N
  <2>. QED  BY ONLY <2>4
<1>13. i < j \/ j < i
  BY <1>1, <1>12
<1>. HIDE DEF At_
<1>14. Full(t, At_(i)) = Full(t, At_(j))
  BY <1>12
<1>. QED  BY <1>7, <1>9, <1>13, <1>14

-----------------------------------------------------------------------------
(* The least leaf below a reference.                                       *)

\* g starts at a and goes on as F says, as long as it stays in S.
Moves(g, S, a, F, d)  == g[0] = a /\ \A n \in 1..d : g[n-1] \in S => g[n] = F[g[n-1]]
RemainsIn(g, S, d)    == \A n \in 0..d : g[n] \in S

LEMMA StaysIn ==
    ASSUME NEW S, NEW a \in S, NEW F \in [S -> S], NEW d \in Nat, NEW g, Moves(g, S, a, F, d)
    PROVE  RemainsIn(g, S, d)
<1>. USE DEF Moves, RemainsIn
<1>. DEFINE Bad == { n \in 0..d : g[n] \notin S }
<1>1. SUFFICES ASSUME Bad # {}
               PROVE  FALSE
  OBVIOUS
<1>2. Bad \in SUBSET Nat
  OBVIOUS
<1>3. PICK n \in Bad : \A k \in Bad : n <= k
  <2>. HIDE DEF Bad
  <2>. QED  BY <1>1, <1>2, LeastElement
<1>4. n \in 1..d /\ n - 1 \in 0..d /\ ~(n <= n - 1)
  BY <1>2, <1>3
<1>5. n - 1 \notin Bad
  <2>. HIDE DEF Bad
  <2>. QED  BY <1>3, <1>4
<1>6. g[n-1] \in S
  BY <1>4, <1>5
<1>7. g[n] \in S
  BY <1>4, <1>6
<1>. QED  BY <1>3, <1>7

\* What r leads to is below ref too, where d bytes are consumed.
Beneath(t, ref, d, r) ==
    \E u \in t.stored : \E e \in Nat : d <= e /\ LeadsTo(t, ref, u, d) /\ LeadsTo(t, r, u, e)

LEMMA ChildBeneath ==
    ASSUME StoreGivesKeys, NEW t, IsTree(t), NEW ref, NEW d \in Nat, NEW r, Beneath(t, ref, d, r), ~IsLeaf(r),
           NEW b \in DOMAIN t.nodes[r \div 2].child
    PROVE  Beneath(t, ref, d, t.nodes[r \div 2].child[b])
<1>. DEFINE n == r \div 2
            f == Full(t, n)
<1>1. TreeTypes(t) /\ TreeNests(t) /\ t.stored \subseteq LeafValues
  BY DEF IsTree, TreeTypes
<1>2. PICK u \in t.stored, e \in Nat : d <= e /\ LeadsTo(t, ref, u, d) /\ LeadsTo(t, r, u, e)
  BY DEF Beneath
<1>3. n \in DOMAIN t.nodes /\ t.from[n] = e /\ Passes(t, n, KeyOf[u])
  BY <1>1, <1>2, LeadsSomewhere
<1>4. PICK v \in t.stored : /\ v \in LeafValues /\ Passes(t, n, KeyOf[v])
                            /\ LeadsTo(t, t.nodes[n].child[b], v, f + 1)
  <2>. HIDE DEF n
  <2>. QED  BY <1>3, ChildLeads DEF n
<1>. HIDE DEF n
<1>5. f \in Nat /\ e <= f
  BY <1>1, <1>3, NodeTypes
<1>6. LeadsTo(t, ref, v, d)
  <2>1. CASE IsLeaf(ref)
    <3>1. t.depth[u] = d
      BY <1>1, <1>2, <2>1, LeadsSomewhere
    <3>2. f < t.depth[u]
      BY <1>1, <1>2, <1>3 DEF TreeNests
    <3>. QED  BY <1>2, <1>5, <3>1, <3>2
  <2>2. CASE ~IsLeaf(ref)
    <3>. DEFINE m == ref \div 2
    <3>1. m \in DOMAIN t.nodes /\ ref = Address(m) /\ t.from[m] = d /\ Passes(t, m, KeyOf[u])
      BY <1>1, <1>2, <2>2, LeadsSomewhere
    <3>. HIDE DEF m
    <3>2. Full(t, m) \in Nat
      BY <1>1, <3>1, NodeTypes
    <3>3. f < Full(t, m) => f < t.from[m]
      BY <1>1, <1>2, <1>3, <3>1, PassInOrder
    <3>4. Full(t, m) <= f
      BY <1>2, <1>5, <3>1, <3>2, <3>3
    <3>5. Same(KeyOf[u], KeyOf[v], f)
      BY <1>1, <1>2, <1>3, <1>4, PassTogether
    <3>6. Passes(t, m, KeyOf[v])
      <4>. HIDE DEF f
      <4>. QED  BY <1>1, <1>2, <1>4, <1>5, <3>1, <3>4, <3>5, PassTogether
    <3>. QED  BY <3>1, <3>6 DEF LeadsTo
  <2>. QED  BY <2>1, <2>2
<1>7. f + 1 \in Nat /\ d <= f + 1
  BY <1>2, <1>5
<1>. HIDE DEF f
<1>. QED  BY <1>4, <1>6, <1>7 DEF Beneath, n

\* The children of a node have a least and a greatest byte.
LEMMA ExtremeChildren ==
    ASSUME StoreGivesKeys, NEW t, IsTree(t), NEW n \in DOMAIN t.nodes, DOMAIN t.nodes[n].child \subseteq Bytes
    PROVE  LET bytes == DOMAIN t.nodes[n].child
           IN  /\ Min(bytes) \in bytes /\ \A b \in bytes : Min(bytes) <= b
               /\ Max(bytes) \in bytes /\ \A b \in bytes : b <= Max(bytes)
<1>. DEFINE bytes == DOMAIN t.nodes[n].child
            bound == 255
<1>1. bytes \in SUBSET Nat /\ \A b \in bytes : b <= bound
  <2>1. Bytes \subseteq 0..255
    BY TreeAssumption, Zenon
  <2>2. bytes \subseteq Bytes
    OBVIOUS
  <2>. HIDE DEF bytes
  <2>3. \A b \in bytes : b \in 0..255
    BY <2>1, <2>2
  <2>. QED  BY <2>3
<1>2. bytes # {} /\ bound \in Nat
  <2>1. Branches(t, n)
    BY DEF IsTree
  <2>. QED  BY <2>1 DEF Branches
<1>. HIDE DEF bytes, bound
<1>3. \E b \in bytes : \A c \in bytes : b <= c
  BY <1>1, <1>2, LeastElement
<1>4. \E b \in bytes : \A c \in bytes : c <= b
  BY <1>1, <1>2, GreatestElement
<1>5. Min(bytes) \in bytes /\ \A b \in bytes : Min(bytes) <= b
  BY <1>3 DEF Min
<1>6. Max(bytes) \in bytes /\ \A b \in bytes : b <= Max(bytes)
  <2>1. \E b \in bytes : \A c \in bytes : b >= c
    BY <1>1, <1>4
  <2>2. Max(bytes) \in bytes /\ \A b \in bytes : Max(bytes) >= b
    BY <2>1 DEF Max
  <2>. QED  BY <1>1, <2>2
<1>. QED  BY <1>5, <1>6 DEF bytes

-----------------------------------------------------------------------------
(* The order of keys.                                                      *)

LEMMA NotBelow ==
    ASSUME NEW s \in Seq(Nat), NEW r \in Seq(Nat), NEW n \in Nat, Same(s, r, n), n < Len(s), n < Len(r), r[n+1] < s[n+1]
    PROVE  ~Below(s, r)
<1>1. s \in Seq(Nat) /\ r \in Seq(Nat) /\ r[n+1] < s[n+1]
  OBVIOUS
<1>2. Len(s) \in Nat /\ Len(r) \in Nat /\ n \in Nat /\ n < Len(s) /\ n < Len(r)
  OBVIOUS
<1>3. s[n+1] \in Nat /\ r[n+1] \in Nat /\ n + 1 <= Len(s)
  <2>1. n + 1 \in 1..Len(s) /\ n + 1 \in 1..Len(r) /\ n + 1 <= Len(s)
    BY ONLY <1>2
  <2>. QED  BY ONLY <1>1, <2>1
<1>4. \A i \in 1..n : s[i] = r[i] /\ s[i] \in Nat /\ i <= Len(s)
  <2>1. \A i \in 1..n : s[i] = r[i] /\ i \in 1..Len(s) /\ i <= Len(s)
    BY <1>2 DEF Same
  <2>. QED  BY ONLY <1>1, <2>1
<1>5. \A i \in 1..Len(r) : i \in 1..n \/ i = n + 1 \/ n + 1 \in 1..(i-1)
  <2>. DEFINE l == Len(r)
  <2>1. l \in Nat /\ n \in Nat
    BY ONLY <1>2
  <2>. HIDE DEF l
  <2>2. \A i \in 1..l : i \in 1..n \/ i = n + 1 \/ n + 1 \in 1..(i-1)
    BY ONLY <2>1
  <2>. QED  BY ONLY <2>2 DEF l
<1>6. ASSUME NEW i \in 1..Len(r), \A j \in 1..(i-1) : j <= Len(s) /\ s[j] = r[j], i > Len(s) \/ s[i] < r[i]
      PROVE  FALSE
  <2>1. i \in 1..n \/ i = n + 1 \/ n + 1 \in 1..(i-1)
    BY ONLY <1>5, i \in 1..Len(r)
  <2>2. CASE i \in 1..n
    <3>. DEFINE x == s[i]
                l == Len(s)
    <3>1. x \in Nat /\ i <= l /\ s[i] = x /\ r[i] = x
      BY ONLY <1>4, <2>2
    <3>2. i \in Nat /\ l \in Nat
      BY ONLY <1>2, <2>2
    <3>3. i > l \/ x < x
      BY ONLY <1>6, <3>1
    <3>. HIDE DEF x, l
    <3>. QED  BY ONLY <3>1, <3>2, <3>3
  <2>3. CASE i = n + 1
    <3>. DEFINE x == s[n+1]
                y == r[n+1]
                l == Len(s)
    <3>1. n + 1 > l \/ x < y
      BY ONLY <1>6, <2>3
    <3>2. x \in Nat /\ y \in Nat /\ n + 1 <= l /\ y < x /\ l \in Nat /\ n \in Nat
      BY ONLY <1>1, <1>2, <1>3
    <3>. HIDE DEF x, y, l
    <3>. QED  BY ONLY <3>1, <3>2
  <2>4. CASE n + 1 \in 1..(i-1)
    <3>. DEFINE x == s[n+1]
                y == r[n+1]
    <3>1. x = y
      BY ONLY <1>6, <2>4
    <3>2. x \in Nat /\ y \in Nat /\ y < x
      BY ONLY <1>1, <1>3
    <3>. HIDE DEF x, y
    <3>. QED  BY ONLY <3>1, <3>2
  <2>. QED  BY ONLY <2>1, <2>2, <2>3, <2>4
<1>. QED  BY <1>6 DEF Below

LEMMA NotBelowItself ==
    ASSUME NEW s \in Seq(Nat)
    PROVE  ~Below(s, s)
<1>1. Len(s) \in Nat /\ \A i \in 1..Len(s) : s[i] \in Nat
  OBVIOUS
<1>. QED  BY <1>1 DEF Below

\* What a child leads to.
LEMMA ChildAgrees ==
    ASSUME StoreGivesKeys, NEW t, IsTree(t), NEW n \in DOMAIN t.nodes, NEW b \in DOMAIN t.nodes[n].child,
           NEW m \in t.stored, NEW e, LeadsTo(t, t.nodes[n].child[b], m, e)
    PROVE  e = Full(t, n) + 1 /\ m \in LeafValues /\ Passes(t, n, KeyOf[m]) /\ NextOf(t, n, KeyOf[m]) = b
           /\ Full(t, n) < Len(KeyOf[m])
<1>. DEFINE f == Full(t, n)
            g == f + 1
            r == t.nodes[n].child[b]
<1>1. TreeTypes(t) /\ t.stored \subseteq LeafValues /\ Branches(t, n)
  BY DEF IsTree, TreeTypes
<1>2. PICK v \in t.stored : /\ v \in LeafValues /\ Passes(t, n, KeyOf[v]) /\ NextOf(t, n, KeyOf[v]) = b
                            /\ LeadsTo(t, r, v, g)
  BY ChildLeads
<1>3. f \in Nat /\ g \in Nat /\ m \in LeafValues
  BY <1>1, NodeTypes
<1>4. LeadsTo(t, r, m, e)
  OBVIOUS
<1>. HIDE DEF r, g
<1>5. e = g
  BY <1>1, <1>2, <1>4, LeadsOnce
<1>6. \/ v = m
      \/ \E k \in DOMAIN t.nodes : t.from[k] = g /\ Passes(t, k, KeyOf[v]) /\ Passes(t, k, KeyOf[m])
  BY <1>1, <1>2, <1>4, <1>5, LeadsOnce
<1>7. KeyOf[v] \in Seq(Nat) /\ KeyOf[m] \in Seq(Nat)
  BY <1>2, <1>3, KeyTypes
<1>8. v = m \/ Same(KeyOf[v], KeyOf[m], g)
  <2>1. ASSUME NEW k \in DOMAIN t.nodes, t.from[k] = g, Passes(t, k, KeyOf[v]), Passes(t, k, KeyOf[m])
        PROVE  Same(KeyOf[v], KeyOf[m], g)
    <3>1. Same(KeyOf[v], KeyOf[m], Full(t, k))
      BY <1>1, <1>2, <1>3, <2>1, PassTogether
    <3>2. g <= Full(t, k) /\ Full(t, k) \in Nat
      BY <1>1, <2>1, NodeTypes
    <3>. QED  BY <1>3, <1>7, <3>1, <3>2, SameProperties
  <2>. QED  BY <1>6, <2>1
<1>9. Passes(t, n, KeyOf[m]) /\ NextOf(t, n, KeyOf[m]) = b
  <2>1. CASE v = m
    BY <1>2, <2>1
  <2>2. CASE Same(KeyOf[v], KeyOf[m], g)
    <3>1. Passes(t, n, KeyOf[m])
      BY <1>1, <1>2, <1>3, <2>2, PassTogether DEF g
    <3>2. KeyOf[v][f + 1] = KeyOf[m][f + 1]
      BY <1>3, <2>2 DEF Same, g
    <3>. QED  BY <1>2, <3>1, <3>2 DEF NextOf
  <2>. QED  BY <1>8, <2>1, <2>2
<1>10. f < Len(KeyOf[m])
  BY <1>1, <1>9 DEF Branches
<1>. QED  BY <1>3, <1>5, <1>9, <1>10 DEF g

\* The order of two keys is that of their bytes at the node where they part.
LEMMA ChildrenInOrder ==
    ASSUME StoreGivesKeys, NEW t, IsTree(t), NEW n \in DOMAIN t.nodes, NEW m \in t.stored, NEW w \in t.stored,
           Passes(t, n, KeyOf[m]), Passes(t, n, KeyOf[w]), NextOf(t, n, KeyOf[m]) < NextOf(t, n, KeyOf[w])
    PROVE  ~Below(KeyOf[w], KeyOf[m])
<1>. DEFINE f == Full(t, n)
            K == KeyOf[m]
            W == KeyOf[w]
<1>1. TreeTypes(t) /\ m \in LeafValues /\ w \in LeafValues /\ Branches(t, n)
  BY DEF IsTree, TreeTypes
<1>2. f \in Nat /\ K \in Seq(Nat) /\ W \in Seq(Nat)
  BY <1>1, NodeTypes, KeyTypes
<1>3. Same(W, K, f)
  BY <1>1, PassTogether
<1>4. f < Len(K) /\ f < Len(W) /\ K[f + 1] < W[f + 1]
  BY <1>1 DEF Branches, NextOf
<1>. HIDE DEF f, K, W
<1>5. ~Below(W, K)
  BY ONLY <1>2, <1>3, <1>4, NotBelow
<1>. QED  BY <1>5 DEF W, K

\* The key of no leaf below ref comes before that of a leaf below r, or after,
\* unless that leaf is below r too.
Foremost(t, ref, d, r) ==
    \A m, w \in t.stored : \A e \in Nat :
        LeadsTo(t, ref, w, d) /\ LeadsTo(t, r, m, e) => LeadsTo(t, r, w, e) \/ ~Below(KeyOf[w], KeyOf[m])

Hindmost(t, ref, d, r) ==
    \A m, w \in t.stored : \A e \in Nat :
        LeadsTo(t, ref, w, d) /\ LeadsTo(t, r, m, e) => LeadsTo(t, r, w, e) \/ ~Below(KeyOf[m], KeyOf[w])

First(t, ref, d, u) == \A w \in t.stored : LeadsTo(t, ref, w, d) => ~Below(KeyOf[w], KeyOf[u])
Last_(t, ref, d, u) == \A w \in t.stored : LeadsTo(t, ref, w, d) => ~Below(KeyOf[u], KeyOf[w])

LeastByte(t, n, b)    == \A c \in DOMAIN t.nodes[n].child : b <= c
GreatestByte(t, n, b) == \A c \in DOMAIN t.nodes[n].child : c <= b

LEMMA StartForemost ==
    ASSUME StoreGivesKeys, NEW t, TreeTypes(t), NEW ref, NEW d
    PROVE  Foremost(t, ref, d, ref)
BY LeadsOnce DEF Foremost

LEMMA StartHindmost ==
    ASSUME StoreGivesKeys, NEW t, TreeTypes(t), NEW ref, NEW d
    PROVE  Hindmost(t, ref, d, ref)
BY LeadsOnce DEF Hindmost

LEMMA ForemostLeaf ==
    ASSUME StoreGivesKeys, NEW t, TreeTypes(t), NEW ref, NEW d, NEW r, Foremost(t, ref, d, r),
           NEW u \in t.stored, NEW e \in Nat, LeadsTo(t, r, u, e), r = MakeLeaf(u)
    PROVE  First(t, ref, d, u)
<1>1. ASSUME NEW w \in t.stored, LeadsTo(t, ref, w, d), Below(KeyOf[w], KeyOf[u])
      PROVE  FALSE
  <2>1. LeadsTo(t, r, w, e)
    BY <1>1 DEF Foremost
  <2>2. u \in LeafValues /\ w \in LeafValues
    BY DEF TreeTypes
  <2>3. IsLeaf(r)
    BY <2>2, Tagged
  <2>4. u = w
    <3>1. GetLeafValue(r) = w
      BY <2>1, <2>3, LeadsSomewhere
    <3>2. GetLeafValue(r) = u
      BY <2>3, LeadsSomewhere
    <3>. QED  BY <3>1, <3>2
  <2>5. KeyOf[u] \in Seq(Nat)
    BY <2>2, KeyTypes
  <2>. QED  BY <1>1, <2>4, <2>5, NotBelowItself
<1>. QED  BY <1>1 DEF First

LEMMA HindmostLeaf ==
    ASSUME StoreGivesKeys, NEW t, TreeTypes(t), NEW ref, NEW d, NEW r, Hindmost(t, ref, d, r),
           NEW u \in t.stored, NEW e \in Nat, LeadsTo(t, r, u, e), r = MakeLeaf(u)
    PROVE  Last_(t, ref, d, u)
<1>1. ASSUME NEW w \in t.stored, LeadsTo(t, ref, w, d), Below(KeyOf[u], KeyOf[w])
      PROVE  FALSE
  <2>1. LeadsTo(t, r, w, e)
    BY <1>1 DEF Hindmost
  <2>2. u \in LeafValues /\ w \in LeafValues
    BY DEF TreeTypes
  <2>3. IsLeaf(r)
    BY <2>2, Tagged
  <2>4. u = w
    <3>1. GetLeafValue(r) = w
      BY <2>1, <2>3, LeadsSomewhere
    <3>2. GetLeafValue(r) = u
      BY <2>3, LeadsSomewhere
    <3>. QED  BY <3>1, <3>2
  <2>5. KeyOf[u] \in Seq(Nat)
    BY <2>2, KeyTypes
  <2>. QED  BY <1>1, <2>4, <2>5, NotBelowItself
<1>. QED  BY <1>1 DEF Last_

\* At a node, what passes it goes on to the child of its byte.
LEMMA ThroughNode ==
    ASSUME StoreGivesKeys, NEW t, IsTree(t), NEW r, NEW e, NEW w \in t.stored, LeadsTo(t, r, w, e), ~IsLeaf(r)
    PROVE  LET n == r \div 2
               c == NextOf(t, n, KeyOf[w])
           IN  /\ n \in DOMAIN t.nodes /\ r = Address(n) /\ e = t.from[n] /\ e \in Nat /\ Passes(t, n, KeyOf[w])
               /\ c \in DOMAIN t.nodes[n].child /\ LeadsTo(t, t.nodes[n].child[c], w, Full(t, n) + 1)
<1>. DEFINE n == r \div 2
<1>1. TreeTypes(t)
  BY DEF IsTree
<1>2. n \in DOMAIN t.nodes /\ r = Address(n) /\ e = t.from[n] /\ Passes(t, n, KeyOf[w])
  BY <1>1, LeadsSomewhere
<1>. HIDE DEF n
<1>3. Branches(t, n) /\ t.from[n] \in Nat
  BY <1>1, <1>2 DEF IsTree, TreeTypes
<1>. QED  BY <1>2, <1>3 DEF Branches, n

LEMMA ChildForemost ==
    ASSUME StoreGivesKeys, NEW t, IsTree(t), NEW ref, NEW d \in Nat, NEW r, Beneath(t, ref, d, r), Foremost(t, ref, d, r),
           ~IsLeaf(r), NEW b \in DOMAIN t.nodes[r \div 2].child, LeastByte(t, r \div 2, b)
    PROVE  Foremost(t, ref, d, t.nodes[r \div 2].child[b])
<1>. DEFINE n == r \div 2
            c == t.nodes[n].child[b]
            f == Full(t, n)
<1>1. PICK u \in t.stored, a \in Nat : LeadsTo(t, r, u, a)
  BY DEF Beneath
<1>2. n \in DOMAIN t.nodes /\ r = Address(n) /\ t.from[n] \in Nat
  BY <1>1, ThroughNode
<1>3. TreeTypes(t) /\ Bytes \subseteq 0..255
  BY TreeAssumption, Zenon DEF IsTree
<1>4. ASSUME NEW m \in t.stored, NEW w \in t.stored, NEW e \in Nat, LeadsTo(t, ref, w, d), LeadsTo(t, c, m, e),
             Below(KeyOf[w], KeyOf[m])
      PROVE  LeadsTo(t, c, w, e)
  <2>1. e = f + 1 /\ Passes(t, n, KeyOf[m]) /\ NextOf(t, n, KeyOf[m]) = b
    <3>1. /\ LeadsTo(t, c, m, e) /\ b \in DOMAIN t.nodes[n].child /\ n \in DOMAIN t.nodes
          /\ m \in t.stored /\ StoreGivesKeys /\ IsTree(t)
      BY <1>2, <1>4
    <3>. HIDE DEF n
    <3>. QED  BY ONLY <3>1, ChildAgrees
  <2>2. LeadsTo(t, r, m, t.from[n])
    BY <1>2, <2>1 DEF LeadsTo
  <2>3. LeadsTo(t, r, w, t.from[n])
    BY <1>2, <1>4, <2>2 DEF Foremost
  <2>. DEFINE x == NextOf(t, n, KeyOf[w])
  <2>4. Passes(t, n, KeyOf[w]) /\ x \in DOMAIN t.nodes[n].child /\ LeadsTo(t, t.nodes[n].child[x], w, f + 1)
    BY <2>3, ThroughNode
  <2>5. ~(b < x)
    <3>. HIDE DEF n
    <3>. QED  BY <1>2, <1>4, <2>1, <2>4, ChildrenInOrder
  <2>6. b <= x
    BY <2>4 DEF LeastByte
  <2>7. x \in Nat /\ b \in Nat
    <3>1. m \in LeafValues /\ w \in LeafValues
      BY <1>3 DEF TreeTypes
    <3>2. f < Len(KeyOf[m]) /\ f < Len(KeyOf[w]) /\ f \in Nat
      <4>. HIDE DEF n
      <4>1. Branches(t, n)
        BY <1>2 DEF IsTree
      <4>. QED  BY <1>2, <1>3, <2>1, <2>4, <4>1, NodeTypes DEF Branches
    <3>3. KeyOf[m] \in Seq(Nat) /\ KeyOf[w] \in Seq(Nat)
      BY <3>1, KeyTypes
    <3>4. KeyOf[m][f + 1] \in Nat /\ KeyOf[w][f + 1] \in Nat
      <4>. DEFINE K == KeyOf[m]
                  W == KeyOf[w]
      <4>1. /\ K \in Seq(Nat) /\ W \in Seq(Nat) /\ f \in Nat /\ f < Len(K) /\ f < Len(W)
        BY <3>2, <3>3
      <4>. HIDE DEF f, K, W
      <4>2. f + 1 \in 1..Len(K) /\ f + 1 \in 1..Len(W)
        BY ONLY <4>1
      <4>3. K[f + 1] \in Nat /\ W[f + 1] \in Nat
        BY ONLY <4>1, <4>2
      <4>. QED  BY ONLY <4>3 DEF K, W
    <3>. QED  BY <2>1, <3>4 DEF NextOf
  <2>8. x = b
    <3>. HIDE DEF x
    <3>. QED  BY ONLY <2>5, <2>6, <2>7
  <2>. QED  BY <2>1, <2>4, <2>8
<1>. QED  BY <1>4 DEF Foremost

LEMMA ChildHindmost ==
    ASSUME StoreGivesKeys, NEW t, IsTree(t), NEW ref, NEW d \in Nat, NEW r, Beneath(t, ref, d, r), Hindmost(t, ref, d, r),
           ~IsLeaf(r), NEW b \in DOMAIN t.nodes[r \div 2].child, GreatestByte(t, r \div 2, b)
    PROVE  Hindmost(t, ref, d, t.nodes[r \div 2].child[b])
<1>. DEFINE n == r \div 2
            c == t.nodes[n].child[b]
            f == Full(t, n)
<1>1. PICK u \in t.stored, a \in Nat : LeadsTo(t, r, u, a)
  BY DEF Beneath
<1>2. n \in DOMAIN t.nodes /\ r = Address(n) /\ t.from[n] \in Nat
  BY <1>1, ThroughNode
<1>3. TreeTypes(t)
  BY DEF IsTree
<1>4. ASSUME NEW m \in t.stored, NEW w \in t.stored, NEW e \in Nat, LeadsTo(t, ref, w, d), LeadsTo(t, c, m, e),
             Below(KeyOf[m], KeyOf[w])
      PROVE  LeadsTo(t, c, w, e)
  <2>1. e = f + 1 /\ Passes(t, n, KeyOf[m]) /\ NextOf(t, n, KeyOf[m]) = b
    <3>1. /\ LeadsTo(t, c, m, e) /\ b \in DOMAIN t.nodes[n].child /\ n \in DOMAIN t.nodes
          /\ m \in t.stored /\ StoreGivesKeys /\ IsTree(t)
      BY <1>2, <1>4
    <3>. HIDE DEF n
    <3>. QED  BY ONLY <3>1, ChildAgrees
  <2>2. LeadsTo(t, r, m, t.from[n])
    BY <1>2, <2>1 DEF LeadsTo
  <2>3. LeadsTo(t, r, w, t.from[n])
    BY <1>2, <1>4, <2>2 DEF Hindmost
  <2>. DEFINE x == NextOf(t, n, KeyOf[w])
  <2>4. Passes(t, n, KeyOf[w]) /\ x \in DOMAIN t.nodes[n].child /\ LeadsTo(t, t.nodes[n].child[x], w, f + 1)
    BY <2>3, ThroughNode
  <2>5. ~(x < b)
    <3>. HIDE DEF n
    <3>. QED  BY <1>2, <1>4, <2>1, <2>4, ChildrenInOrder
  <2>6. x <= b
    BY <2>4 DEF GreatestByte
  <2>7. x \in Nat /\ b \in Nat
    <3>1. m \in LeafValues /\ w \in LeafValues
      BY <1>3 DEF TreeTypes
    <3>2. f < Len(KeyOf[m]) /\ f < Len(KeyOf[w]) /\ f \in Nat
      <4>. HIDE DEF n
      <4>1. Branches(t, n)
        BY <1>2 DEF IsTree
      <4>. QED  BY <1>2, <1>3, <2>1, <2>4, <4>1, NodeTypes DEF Branches
    <3>3. KeyOf[m] \in Seq(Nat) /\ KeyOf[w] \in Seq(Nat)
      BY <3>1, KeyTypes
    <3>4. KeyOf[m][f + 1] \in Nat /\ KeyOf[w][f + 1] \in Nat
      <4>. DEFINE K == KeyOf[m]
                  W == KeyOf[w]
      <4>1. /\ K \in Seq(Nat) /\ W \in Seq(Nat) /\ f \in Nat /\ f < Len(K) /\ f < Len(W)
        BY <3>2, <3>3
      <4>. HIDE DEF f, K, W
      <4>2. f + 1 \in 1..Len(K) /\ f + 1 \in 1..Len(W)
        BY ONLY <4>1
      <4>3. K[f + 1] \in Nat /\ W[f + 1] \in Nat
        BY ONLY <4>1, <4>2
      <4>. QED  BY ONLY <4>3 DEF K, W
    <3>. QED  BY <2>1, <3>4 DEF NextOf
  <2>8. x = b
    <3>. HIDE DEF x
    <3>. QED  BY ONLY <2>5, <2>6, <2>7
  <2>. QED  BY <2>1, <2>4, <2>8
<1>. QED  BY <1>4 DEF Hindmost

-----------------------------------------------------------------------------
(* The first and the last leaf.                                            *)

\* The state of the module, as a tree.
IsState(t) == t.nodes = nodes /\ t.top = tree /\ t.stored = stored

ChildrenAreBytes == \A n \in DOMAIN nodes : DOMAIN nodes[n].child \subseteq Bytes

LEMMA MinimumFirst ==
    ASSUME StoreGivesKeys, NEW t, IsTree(t), t.nodes = nodes, IsFiniteSet(DOMAIN nodes), ChildrenAreBytes,
           NEW ref, NEW w \in t.stored, NEW d \in Nat, LeadsTo(t, ref, w, d)
    PROVE  \E u \in t.stored : u \in LeafValues /\ Minimum(ref) = MakeLeaf(u) /\ LeadsTo(t, ref, u, d) /\ First(t, ref, d, u)
<1>. DEFINE S == { r \in ReferencesOf(t) : Beneath(t, ref, d, r) /\ Foremost(t, ref, d, r) }
            F == [r \in S |-> ToLeast(r)]
            h == Height
            P(f) == f = [i \in 0..h |-> IF i = 0 THEN ref ELSE ToLeast(f[i-1])]
            down == CHOOSE f : P(f)
<1>1. h \in Nat /\ h = Cardinality(DOMAIN t.nodes)
  BY FS_CardinalityType DEF Height
<1>2. TreeTypes(t) /\ t.stored \subseteq LeafValues
  BY DEF IsTree, TreeTypes
<1>3. ref \in S
  <2>1. ref \in ReferencesOf(t)
    BY LeadingReference
  <2>2. d <= d
    OBVIOUS
  <2>3. Foremost(t, ref, d, ref)
    BY <1>2, StartForemost
  <2>. QED  BY <2>1, <2>2, <2>3 DEF Beneath
<1>4. ASSUME NEW r \in S
      PROVE  ToLeast(r) \in S /\ GoesDown(t, r, ToLeast(r))
  <2>1. r # Null /\ r \in ReferencesOf(t) /\ Beneath(t, ref, d, r) /\ Foremost(t, ref, d, r)
    BY <1>2, ReferenceKinds
  <2>2. CASE IsLeaf(r)
    <3>1. ToLeast(r) = r
      BY <2>2 DEF ToLeast
    <3>. QED  BY <2>2, <3>1 DEF GoesDown
  <2>3. CASE ~IsLeaf(r)
    <3>. DEFINE n == r \div 2
                b == Min(DOMAIN t.nodes[n].child)
    <3>1. n \in DOMAIN t.nodes
      BY <1>2, <2>1, <2>3, ReferenceKinds
    <3>2. b \in DOMAIN t.nodes[n].child /\ LeastByte(t, n, b)
      <4>1. DOMAIN t.nodes[n].child \subseteq Bytes
        BY <3>1 DEF ChildrenAreBytes
      <4>. HIDE DEF n
      <4>. QED  BY <3>1, <4>1, ExtremeChildren DEF LeastByte
    <3>3. ToLeast(r) = t.nodes[n].child[b]
      BY <2>1, <2>3 DEF ToLeast, NodeAt
    <3>4. Beneath(t, ref, d, t.nodes[n].child[b])
      <4>. HIDE DEF b
      <4>. QED  BY <2>1, <2>3, <3>2, ChildBeneath
    <3>6. Foremost(t, ref, d, t.nodes[n].child[b])
      <4>. HIDE DEF b
      <4>. QED  BY <2>1, <2>3, <3>2, ChildForemost
    <3>5. t.nodes[n].child[b] \in ReferencesOf(t)
      <4>. HIDE DEF n, b
      <4>. QED  BY <3>4, LeadingReference DEF Beneath
    <3>. QED  BY <2>3, <3>2, <3>3, <3>4, <3>5, <3>6 DEF GoesDown
  <2>. QED  BY <2>2, <2>3
<1>5. F \in [S -> S]
  BY <1>4
<1>6. \E f : P(f)
  <2>. HIDE DEF S, F, h
  <2>1. PICK g : Repeats(g, S, ref, F, h)
    BY <1>1, <1>3, <1>5, Repetition
  <2>2. /\ g \in [0..h -> S] /\ g[0] = ref
        /\ \A n \in 1..h : g[n] = F[g[n-1]] /\ g[n-1] \in S
    BY <1>1, <2>1 DEF Repeats
  <2>3. \A i \in 0..h : g[i] = IF i = 0 THEN ref ELSE ToLeast(g[i-1])
    <3>1. \A i \in 0..h : i # 0 => i \in 1..h
      BY <1>1
    <3>2. \A r \in S : F[r] = ToLeast(r)
      BY DEF F
    <3>. QED  BY <2>2, <3>1, <3>2
  <2>. QED  BY <2>2, <2>3
<1>7. P(down)
  <2>. HIDE DEF P
  <2>. QED  BY <1>6
<1>8. Minimum(ref) = down[h]
  BY DEF Minimum
<1>9. down[0] = ref /\ \A i \in 1..h : i - 1 \in 0..h /\ i \in 0..h /\ down[i] = ToLeast(down[i-1])
  <2>1. 0 \in 0..h /\ \A i \in 1..h : i \in 0..h /\ i # 0 /\ i - 1 \in 0..h
    BY <1>1
  <2>. HIDE DEF down, h
  <2>2. \A i \in 0..h : down[i] = IF i = 0 THEN ref ELSE ToLeast(down[i-1])
    BY <1>7
  <2>. QED  BY <2>1, <2>2
<1>. HIDE DEF down, h, P
<1>10. \A i \in 0..h : down[i] \in S
  <2>1. \A i \in 1..h : down[i-1] \in S => down[i] = F[down[i-1]]
    <3>1. \A r \in S : F[r] = ToLeast(r)
      OBVIOUS
    <3>. HIDE DEF S, F
    <3>. QED  BY <1>9, <3>1
  <2>. HIDE DEF S, F
  <2>2. Moves(down, S, ref, F, h)
    BY ONLY <1>9, <2>1 DEF Moves
  <2>3. RemainsIn(down, S, h)
    BY ONLY <1>1, <1>3, <1>5, <2>2, StaysIn
  <2>. QED  BY ONLY <2>3 DEF RemainsIn
<1>11. WalksDown(t, down, h)
  <2>1. \A i \in 1..h : GoesDown(t, down[i-1], down[i])
    <3>. HIDE DEF S
    <3>. QED  BY <1>4, <1>9, <1>10
  <2>. QED  BY <1>10, <2>1 DEF WalksDown
<1>12. IsLeaf(down[h])
  BY <1>1, <1>11, WalkEnds
<1>13. Beneath(t, ref, d, down[h]) /\ Foremost(t, ref, d, down[h])
  BY <1>1, <1>10
<1>14. PICK u \in t.stored, e \in Nat : LeadsTo(t, ref, u, d) /\ LeadsTo(t, down[h], u, e)
  BY <1>13 DEF Beneath
<1>15. down[h] = MakeLeaf(u)
  BY <1>2, <1>12, <1>14, LeadsSomewhere
<1>16. First(t, ref, d, u)
  BY <1>2, <1>13, <1>14, <1>15, ForemostLeaf
<1>. QED  BY <1>2, <1>8, <1>14, <1>15, <1>16

LEMMA MaximumLast ==
    ASSUME StoreGivesKeys, NEW t, IsTree(t), t.nodes = nodes, IsFiniteSet(DOMAIN nodes), ChildrenAreBytes,
           NEW ref, NEW w \in t.stored, NEW d \in Nat, LeadsTo(t, ref, w, d)
    PROVE  \E u \in t.stored : u \in LeafValues /\ Maximum(ref) = MakeLeaf(u) /\ LeadsTo(t, ref, u, d) /\ Last_(t, ref, d, u)
<1>. DEFINE S == { r \in ReferencesOf(t) : Beneath(t, ref, d, r) /\ Hindmost(t, ref, d, r) }
            F == [r \in S |-> ToGreatest(r)]
            h == Height
            P(f) == f = [i \in 0..h |-> IF i = 0 THEN ref ELSE ToGreatest(f[i-1])]
            down == CHOOSE f : P(f)
<1>1. h \in Nat /\ h = Cardinality(DOMAIN t.nodes)
  BY FS_CardinalityType DEF Height
<1>2. TreeTypes(t) /\ t.stored \subseteq LeafValues
  BY DEF IsTree, TreeTypes
<1>3. ref \in S
  <2>1. ref \in ReferencesOf(t)
    BY LeadingReference
  <2>2. d <= d
    OBVIOUS
  <2>3. Hindmost(t, ref, d, ref)
    BY <1>2, StartHindmost
  <2>. QED  BY <2>1, <2>2, <2>3 DEF Beneath
<1>4. ASSUME NEW r \in S
      PROVE  ToGreatest(r) \in S /\ GoesDown(t, r, ToGreatest(r))
  <2>1. r # Null /\ r \in ReferencesOf(t) /\ Beneath(t, ref, d, r) /\ Hindmost(t, ref, d, r)
    BY <1>2, ReferenceKinds
  <2>2. CASE IsLeaf(r)
    <3>1. ToGreatest(r) = r
      BY <2>2 DEF ToGreatest
    <3>. QED  BY <2>2, <3>1 DEF GoesDown
  <2>3. CASE ~IsLeaf(r)
    <3>. DEFINE n == r \div 2
                b == Max(DOMAIN t.nodes[n].child)
    <3>1. n \in DOMAIN t.nodes
      BY <1>2, <2>1, <2>3, ReferenceKinds
    <3>2. b \in DOMAIN t.nodes[n].child /\ GreatestByte(t, n, b)
      <4>1. DOMAIN t.nodes[n].child \subseteq Bytes
        BY <3>1 DEF ChildrenAreBytes
      <4>. HIDE DEF n
      <4>. QED  BY <3>1, <4>1, ExtremeChildren DEF GreatestByte
    <3>3. ToGreatest(r) = t.nodes[n].child[b]
      BY <2>1, <2>3 DEF ToGreatest, NodeAt
    <3>4. Beneath(t, ref, d, t.nodes[n].child[b])
      <4>. HIDE DEF b
      <4>. QED  BY <2>1, <2>3, <3>2, ChildBeneath
    <3>6. Hindmost(t, ref, d, t.nodes[n].child[b])
      <4>. HIDE DEF b
      <4>. QED  BY <2>1, <2>3, <3>2, ChildHindmost
    <3>5. t.nodes[n].child[b] \in ReferencesOf(t)
      <4>. HIDE DEF n, b
      <4>. QED  BY <3>4, LeadingReference DEF Beneath
    <3>. QED  BY <2>3, <3>2, <3>3, <3>4, <3>5, <3>6 DEF GoesDown
  <2>. QED  BY <2>2, <2>3
<1>5. F \in [S -> S]
  BY <1>4
<1>6. \E f : P(f)
  <2>. HIDE DEF S, F, h
  <2>1. PICK g : Repeats(g, S, ref, F, h)
    BY <1>1, <1>3, <1>5, Repetition
  <2>2. /\ g \in [0..h -> S] /\ g[0] = ref
        /\ \A n \in 1..h : g[n] = F[g[n-1]] /\ g[n-1] \in S
    BY <1>1, <2>1 DEF Repeats
  <2>3. \A i \in 0..h : g[i] = IF i = 0 THEN ref ELSE ToGreatest(g[i-1])
    <3>1. \A i \in 0..h : i # 0 => i \in 1..h
      BY <1>1
    <3>2. \A r \in S : F[r] = ToGreatest(r)
      BY DEF F
    <3>. QED  BY <2>2, <3>1, <3>2
  <2>. QED  BY <2>2, <2>3
<1>7. P(down)
  <2>. HIDE DEF P
  <2>. QED  BY <1>6
<1>8. Maximum(ref) = down[h]
  BY DEF Maximum
<1>9. down[0] = ref /\ \A i \in 1..h : i - 1 \in 0..h /\ i \in 0..h /\ down[i] = ToGreatest(down[i-1])
  <2>1. 0 \in 0..h /\ \A i \in 1..h : i \in 0..h /\ i # 0 /\ i - 1 \in 0..h
    BY <1>1
  <2>. HIDE DEF down, h
  <2>2. \A i \in 0..h : down[i] = IF i = 0 THEN ref ELSE ToGreatest(down[i-1])
    BY <1>7
  <2>. QED  BY <2>1, <2>2
<1>. HIDE DEF down, h, P
<1>10. \A i \in 0..h : down[i] \in S
  <2>1. \A i \in 1..h : down[i-1] \in S => down[i] = F[down[i-1]]
    <3>1. \A r \in S : F[r] = ToGreatest(r)
      OBVIOUS
    <3>. HIDE DEF S, F
    <3>. QED  BY <1>9, <3>1
  <2>. HIDE DEF S, F
  <2>2. Moves(down, S, ref, F, h)
    BY ONLY <1>9, <2>1 DEF Moves
  <2>3. RemainsIn(down, S, h)
    BY ONLY <1>1, <1>3, <1>5, <2>2, StaysIn
  <2>. QED  BY ONLY <2>3 DEF RemainsIn
<1>11. WalksDown(t, down, h)
  <2>1. \A i \in 1..h : GoesDown(t, down[i-1], down[i])
    <3>. HIDE DEF S
    <3>. QED  BY <1>4, <1>9, <1>10
  <2>. QED  BY <1>10, <2>1 DEF WalksDown
<1>12. IsLeaf(down[h])
  BY <1>1, <1>11, WalkEnds
<1>13. Beneath(t, ref, d, down[h]) /\ Hindmost(t, ref, d, down[h])
  BY <1>1, <1>10
<1>14. PICK u \in t.stored, e \in Nat : LeadsTo(t, ref, u, d) /\ LeadsTo(t, down[h], u, e)
  BY <1>13 DEF Beneath
<1>15. down[h] = MakeLeaf(u)
  BY <1>2, <1>12, <1>14, LeadsSomewhere
<1>16. Last_(t, ref, d, u)
  BY <1>2, <1>13, <1>14, <1>15, HindmostLeaf
<1>. QED  BY <1>2, <1>8, <1>14, <1>15, <1>16

-----------------------------------------------------------------------------
(* Where a key that is inserted differs from those in the tree.            *)

\* The keys of u and v agree on d + m bytes and then differ, unless that is past
\* the prefix of a node, which has pl bytes.
PartsAt(u, v, d, m, pl) ==
    /\ m \in Nat /\ m <= pl /\ Same(KeyOf[u], KeyOf[v], d + m) /\ d + m < Len(KeyOf[u]) /\ d + m < Len(KeyOf[v])
    /\ m # pl => KeyOf[u][d + m + 1] # KeyOf[v][d + m + 1]

LEMMA InsertMismatch ==
    ASSUME StoreGivesKeys, NEW t, IsTree(t), t.nodes = nodes, NEW ref, NEW n \in DOMAIN t.nodes, n = ref \div 2,
           NEW v \in LeafValues, NEW key, key.bytes = KeyOf[v],
           NEW u \in t.stored, Minimum(ref) = MakeLeaf(u), Passes(t, n, KeyOf[u]),
           NEW d, d = t.from[n], Same(KeyOf[u], KeyOf[v], d), Apart(KeyOf[u], KeyOf[v]), NEW after
    PROVE  PartsAt(u, v, d, PrefixMismatch(ref, key, d, Len(KeyOf[v]), after), t.nodes[n].prefixLength)
<1>. DEFINE node == nodes[n]
            pl == node.prefixLength
            K == KeyOf[v]
            U == KeyOf[u]
            L == Len(K)
            minKey == LoadKey(u, L, after)
            kept(i) == IF i <= MaxPrefixLength THEN node.prefix[i] ELSE ByteAt(minKey, d + i)
            D == { i \in 1..pl : ByteAt(key, d + i) # kept(i) }
<1>1. TreeTypes(t) /\ u \in LeafValues /\ Keeps(t, n) /\ MaxPrefixLength \in Nat /\ t.under[n] \in LeafValues
  BY TreeAssumption, NodeTypes DEF IsTree, TreeTypes
<1>2. d \in Nat /\ pl \in Nat /\ Full(t, n) = d + pl
  BY <1>1, NodeTypes DEF Full
<1>3. K \in Seq(Nat) /\ U \in Seq(Nat) /\ L \in Nat /\ Len(U) \in Nat
  BY <1>1, KeyTypes
<1>4. PrefixMismatch(ref, key, d, L, after) = IF D = {} THEN pl ELSE Min(D) - 1
  <2>1. GetLeafValue(Minimum(ref)) = u
    BY <1>1, Tagged
  <2>. QED  BY <2>1 DEF PrefixMismatch, NodeAt
<1>5. Same(U, KeyOf[t.under[n]], d + pl) /\ d + pl <= Len(U)
  <2>1. Same(U, KeyOf[t.under[n]], Full(t, n))
    BY DEF Passes
  <2>. QED  BY <1>2, <2>1 DEF Same
<1>6. LeafKey[u] = U
  BY <1>1 DEF StoreGivesKeys
<1>. HIDE DEF K, U, L, pl
<1>7. ASSUME NEW i \in 1..pl, d + i <= L
      PROVE  ByteAt(key, d + i) = K[d + i] /\ kept(i) = U[d + i]
  <2>1. d + i \in 1..L /\ d + i \in 1..(d + pl) /\ d + i <= Len(U) /\ i \in Nat
    <3>1. d \in Nat /\ pl \in Nat /\ L \in Nat /\ Len(U) \in Nat /\ d + pl <= Len(U)
      BY <1>2, <1>3, <1>5
    <3>. QED  BY ONLY <1>7, <3>1, i \in 1..pl
  <2>2. ByteAt(key, d + i) = K[d + i]
    BY <2>1 DEF ByteAt, K, L
  <2>3. CASE i <= MaxPrefixLength
    <3>1. i \in 1..Len(node.prefix)
      BY <1>1, <1>2, <2>3 DEF Keeps, Least, pl
    <3>2. node.prefix[i] = KeyOf[t.under[n]][d + i]
      BY <1>1, <3>1 DEF Keeps
    <3>. QED  BY <1>5, <2>1, <2>2, <2>3, <3>2 DEF Same
  <2>4. CASE ~(i <= MaxPrefixLength)
    <3>1. Len(minKey.bytes) = L /\ minKey.bytes[d + i] = U[d + i]
      BY <1>3, <1>6, <2>1 DEF LoadKey
    <3>. QED  BY <2>1, <2>2, <2>4, <3>1 DEF ByteAt
  <2>. QED  BY <2>3, <2>4
<1>8. PICK q \in 1..Len(U) : q <= L /\ U[q] # K[q]
  BY DEF Apart, U, K, L
<1>9. q > d /\ q \in Nat
  BY <1>2, <1>3, <1>8 DEF Same, U, K
<1>10. \A i \in 1..pl : d + i <= L => (i \in D <=> U[d + i] # K[d + i])
  <2>. HIDE DEF kept
  <2>. QED  BY <1>7
<1>11. D \in SUBSET Nat /\ D \subseteq 1..pl
  BY <1>2
<1>. HIDE DEF D
\* Until the first difference the keys agree.
<1>12. ASSUME NEW m \in 0..pl, d + m <= L, \A i \in 1..m : i \notin D
       PROVE  Same(U, K, d + m)
  <2>. DEFINE e == d + m
  <2>1. ASSUME NEW j \in 1..e
        PROVE  U[j] = K[j]
    <3>1. CASE j <= d
      <4>1. j \in 1..d
        BY <1>2, <3>1
      <4>. QED  BY <4>1 DEF Same, U, K
    <3>2. CASE j > d
      <4>1. j - d \in 1..pl /\ j - d \in 1..m /\ d + (j - d) = j /\ j <= L
        <5>1. d \in Nat /\ pl \in Nat /\ L \in Nat /\ m \in 0..pl /\ d + m <= L
          BY <1>2, <1>3, <1>12
        <5>2. j \in 1..(d + m)
          BY <2>1
        <5>. QED  BY ONLY <3>2, <5>1, <5>2
      <4>. DEFINE i == j - d
      <4>2. i \in 1..pl /\ i \in 1..m /\ d + i = j /\ d + i <= L
        BY ONLY <4>1
      <4>. HIDE DEF i
      <4>3. i \notin D /\ (i \in D <=> U[d + i] # K[d + i])
        BY ONLY <1>10, <1>12, <4>2
      <4>. QED  BY ONLY <4>2, <4>3
    <3>. QED  BY <1>2, <3>1, <3>2
  <2>2. d + m <= Len(U)
    <3>1. d \in Nat /\ pl \in Nat /\ m \in 0..pl /\ Len(U) \in Nat /\ d + pl <= Len(U)
      BY <1>2, <1>3, <1>5, <1>12
    <3>. QED  BY ONLY <3>1
  <2>. QED  BY <1>12, <2>1, <2>2 DEF Same, L
<1>13. CASE D = {}
  <2>1. d + pl <= L
    <3>1. SUFFICES ASSUME ~(d + pl <= L) PROVE FALSE
      OBVIOUS
    <3>2. q - d \in 1..pl /\ d + (q - d) = q
      <4>1. d \in Nat /\ pl \in Nat /\ L \in Nat /\ q \in Nat /\ q <= L /\ q > d
        BY <1>2, <1>3, <1>8, <1>9
      <4>. QED  BY ONLY <3>1, <4>1
    <3>. QED  BY <1>8, <1>10, <1>13, <3>2
  <2>2. Same(U, K, d + pl)
    BY <1>2, <1>12, <1>13, <2>1
  <2>3. q > d + pl
    BY <1>2, <1>8, <2>2 DEF Same
  <2>4. d + pl < L /\ d + pl < Len(U)
    <3>1. d \in Nat /\ pl \in Nat /\ L \in Nat /\ Len(U) \in Nat /\ q \in Nat /\ q <= L /\ q <= Len(U)
      BY <1>2, <1>3, <1>8
    <3>. QED  BY ONLY <2>3, <3>1
  <2>5. PrefixMismatch(ref, key, d, L, after) = pl /\ pl <= pl
    BY <1>2, <1>4, <1>13
  <2>. QED  BY <1>2, <2>2, <2>4, <2>5 DEF PartsAt, U, K, L, pl
<1>14. CASE D # {}
  <2>. DEFINE m == Min(D)
  <2>1. m \in D /\ \A i \in D : m <= i
    <3>1. \E i \in D : \A j \in D : i <= j
      BY <1>11, <1>14, LeastElement
    <3>. QED  BY <3>1 DEF Min
  <2>. HIDE DEF m
  <2>2. m \in 1..pl
    BY <1>11, <2>1
  <2>3. d + m <= L
    <3>1. SUFFICES ASSUME ~(d + m <= L) PROVE FALSE
      OBVIOUS
    <3>2. q - d \in 1..pl /\ d + (q - d) = q /\ ~(m <= q - d)
      <4>1. d \in Nat /\ pl \in Nat /\ L \in Nat /\ q \in Nat /\ q <= L /\ q > d
        BY <1>2, <1>3, <1>8, <1>9
      <4>. QED  BY ONLY <2>2, <3>1, <4>1
    <3>. QED  BY <1>8, <1>10, <2>1, <3>2
  <2>4. U[d + m] # K[d + m]
    BY <1>10, <2>1, <2>2, <2>3
  <2>5. m - 1 \in 0..pl /\ d + (m - 1) <= L /\ \A i \in 1..(m - 1) : i \notin D
    <3>1. d \in Nat /\ pl \in Nat /\ L \in Nat
      BY <1>2, <1>3
    <3>2. m \in Nat /\ m - 1 \in 0..pl /\ d + (m - 1) <= L /\ \A i \in 1..(m - 1) : i \in Nat /\ ~(m <= i)
      BY ONLY <2>2, <2>3, <3>1
    <3>. QED  BY ONLY <2>1, <3>2
  <2>6. Same(U, K, d + (m - 1))
    BY <1>12, <2>5
  <2>7. m - 1 \in Nat /\ m - 1 <= pl /\ d + (m - 1) < Len(U) /\ d + (m - 1) < L /\ d + (m - 1) + 1 = d + m
    <3>1. d \in Nat /\ pl \in Nat /\ L \in Nat /\ Len(U) \in Nat /\ d + pl <= Len(U)
      BY <1>2, <1>3, <1>5
    <3>. QED  BY ONLY <2>2, <2>3, <3>1
  <2>8. PrefixMismatch(ref, key, d, L, after) = m - 1
    BY <1>4, <1>14 DEF m
  <2>. QED  BY <2>4, <2>6, <2>7, <2>8 DEF PartsAt, U, K, L, pl
<1>. QED  BY <1>13, <1>14

\* Where the walk of a key stands, all leads to keys that agree with it.
LEMMA StandsBelow ==
    ASSUME StoreGivesKeys, NEW t, IsTree(t), NEW v \in LeafValues, NEW slot, NEW d, Stands(t, slot, d, KeyOf[v])
    PROVE  /\ PointsTo(t, slot) # Null => \E u \in t.stored : LeadsTo(t, PointsTo(t, slot), u, d)
           /\ \A u \in t.stored : LeadsTo(t, PointsTo(t, slot), u, d) => Same(KeyOf[u], KeyOf[v], d)
           /\ PointsTo(t, slot) = Null => slot = Root /\ t.stored = {}
<1>. DEFINE ref == PointsTo(t, slot)
<1>1. TreeTypes(t) /\ t.stored \subseteq LeafValues
  BY DEF IsTree, TreeTypes
<1>2. CASE slot = Root /\ d = 0
  <2>. DEFINE zero == 0
  <2>1. ref = t.top /\ (t.stored = {} => t.top = Null) /\ \A u \in t.stored : LeadsTo(t, t.top, u, zero)
    BY <1>2 DEF PointsTo, IsTree
  <2>2. \A u \in t.stored : Same(KeyOf[u], KeyOf[v], zero)
    <3>1. \A u \in t.stored : Len(KeyOf[u]) \in Nat
      BY <1>1, KeyTypes
    <3>2. Len(KeyOf[v]) \in Nat
      BY KeyTypes
    <3>. QED  BY <3>1, <3>2 DEF Same
  <2>3. d = zero
    BY <1>2
  <2>. HIDE DEF ref, zero
  <2>4. t.top = Null => t.stored = {}
    BY <1>1, <2>1, LeadsSomewhere
  <2>. QED  BY <1>2, <2>1, <2>2, <2>3, <2>4 DEF ref
<1>3. ASSUME NEW n \in DOMAIN t.nodes, NEW b \in DOMAIN t.nodes[n].child,
             slot = <<n, b>>, Passes(t, n, KeyOf[v]), d = Full(t, n) + 1, d <= Len(KeyOf[v]), KeyOf[v][d] = b
      PROVE  /\ \E u \in t.stored : LeadsTo(t, ref, u, d)
             /\ \A u \in t.stored : LeadsTo(t, ref, u, d) => Same(KeyOf[u], KeyOf[v], d)
             /\ ref # Null
  <2>1. Full(t, n) \in Nat /\ d \in Nat
    BY <1>1, <1>3, NodeTypes
  <2>2. ref = t.nodes[n].child[b]
    BY <1>3 DEF PointsTo, Root
  <2>3. PICK u \in t.stored : /\ u \in LeafValues /\ Passes(t, n, KeyOf[u]) /\ NextOf(t, n, KeyOf[u]) = b
                              /\ Full(t, n) < Len(KeyOf[u]) /\ LeadsTo(t, ref, u, d)
    BY <1>3, <2>2, ChildLeads
  <2>. HIDE DEF ref
  <2>4. KeyOf[u] \in Seq(Nat) /\ KeyOf[v] \in Seq(Nat)
    BY <2>3, KeyTypes
  <2>5. Same(KeyOf[u], KeyOf[v], d)
    <3>1. Same(KeyOf[v], KeyOf[u], Full(t, n))
      BY <1>1, <1>3, <2>3, PassTogether
    <3>2. KeyOf[u][Full(t, n) + 1] = KeyOf[v][Full(t, n) + 1] /\ Full(t, n) + 1 <= Len(KeyOf[v]) /\ Full(t, n) + 1 <= Len(KeyOf[u])
      BY <1>3, <2>1, <2>3, <2>4 DEF NextOf
    <3>3. Same(KeyOf[u], KeyOf[v], Full(t, n) + 1)
      BY <2>1, <2>4, <3>1, <3>2, SameProperties
    <3>. QED  BY <1>3, <3>3
  <2>6. ASSUME NEW w \in t.stored, LeadsTo(t, ref, w, d)
        PROVE  Same(KeyOf[w], KeyOf[v], d)
    <3>1. w \in LeafValues /\ KeyOf[w] \in Seq(Nat)
      BY <1>1, KeyTypes
    <3>2. CASE u = w
      BY <2>5, <3>2
    <3>3. ASSUME NEW k \in DOMAIN t.nodes, t.from[k] = d, Passes(t, k, KeyOf[u]), Passes(t, k, KeyOf[w])
          PROVE  Same(KeyOf[w], KeyOf[v], d)
      <4>1. Same(KeyOf[w], KeyOf[u], Full(t, k))
        BY <1>1, <2>3, <3>1, <3>3, PassTogether
      <4>2. d <= Full(t, k) /\ Full(t, k) \in Nat
        BY <1>1, <3>3, NodeTypes
      <4>3. Same(KeyOf[w], KeyOf[u], d)
        BY <2>1, <2>4, <3>1, <4>1, <4>2, SameProperties
      <4>. QED  BY <2>1, <2>4, <2>5, <3>1, <4>3, SameProperties
    <3>4. \/ u = w
          \/ \E k \in DOMAIN t.nodes : t.from[k] = d /\ Passes(t, k, KeyOf[u]) /\ Passes(t, k, KeyOf[w])
      BY <1>1, <2>3, <2>6, LeadsOnce
    <3>. QED  BY <3>2, <3>3, <3>4
  <2>7. ref # Null
    BY <1>1, <2>3, LeadsSomewhere
  <2>. QED  BY <2>3, <2>6, <2>7
<1>. QED  BY <1>2, <1>3 DEF Stands

-----------------------------------------------------------------------------
(* The invariant.                                                          *)

IsNode(node) == DOMAIN node = {"prefixLength", "prefix", "child"}

Heaps ==
    /\ fresh \in Nat \ {0} /\ DOMAIN nodes \subseteq 1..(fresh - 1)
    /\ \A n \in DOMAIN nodes : IsNode(nodes[n]) /\ DOMAIN nodes[n].child \subseteq Bytes

\* A walk is at the root, or below a node.
Walks ==
    /\ DOMAIN walk = DOMAIN Idle
    /\ walk.op \in {"idle", "insert", "lookup", "prefix"}
    /\ walk.slot = Root \/ \E n \in DOMAIN nodes : \E b : walk.slot = <<n, b>>

\* What is stored belongs to this kind of tree.
Belongs == family \in Families /\ stored \subseteq family.leafValues

\* The walk for a key that is inserted stands on the way of the key.
Inserting(t) ==
    walk.op = "insert" =>
        /\ walk.leaf \in family.leafValues \ stored /\ walk.key.bytes = KeyOf[walk.leaf]
        /\ \A w \in stored : ComesAfter(family, walk.leaf, w)
        /\ Stands(t, walk.slot, walk.depth, KeyOf[walk.leaf])

TreeInv == Heaps /\ Walks /\ Belongs /\ \E t : IsState(t) /\ IsTree(t) /\ Inserting(t)

-----------------------------------------------------------------------------
(* What an insertion knows where it stands.                                *)

\* The walk of the key of v stands where d bytes are consumed; u is the value
\* that Minimum gives of what is there.
InsertFacts(t, v, d) ==
    /\ v = walk.leaf /\ d = walk.depth /\ d \in Nat
    /\ IsState(t) /\ IsTree(t) /\ TreeTypes(t) /\ TreeNests(t)
    /\ v \in LeafValues /\ v \notin t.stored /\ t.stored \subseteq LeafValues
    /\ walk.key.bytes = KeyOf[v] /\ KeyLength = Len(KeyOf[v])
    /\ Stands(t, walk.slot, d, KeyOf[v])
    /\ \A u \in t.stored : Apart(KeyOf[u], KeyOf[v])
    /\ \A u, w \in t.stored : u # w =>
          \A n \in Nat : Same(KeyOf[u], KeyOf[w], n) /\ n >= MaxPrefixLength => n <= Len(KeyOf[v])
    /\ Here = PointsTo(t, walk.slot)
    /\ Here = Null => walk.slot = Root /\ t.stored = {}
    /\ Here # Null => \E u \in t.stored : LeadsTo(t, Here, u, d)
    /\ \A u \in t.stored : LeadsTo(t, Here, u, d) => Same(KeyOf[u], KeyOf[v], d)

LEMMA InsertKnows ==
    ASSUME KeyHypotheses, TreeInv, walk.op = "insert"
    PROVE  \E t : InsertFacts(t, walk.leaf, walk.depth)
<1>. DEFINE v == walk.leaf
            d == walk.depth
<1>1. PICK t : IsState(t) /\ IsTree(t) /\ Inserting(t)
  BY DEF TreeInv
<1>2. /\ v \in family.leafValues /\ v \notin stored /\ walk.key.bytes = KeyOf[v]
      /\ \A w \in stored : ComesAfter(family, v, w)
      /\ Stands(t, walk.slot, d, KeyOf[v])
  BY <1>1 DEF Inserting
<1>3. /\ family \in Families /\ stored \subseteq family.leafValues /\ family.leafValues \subseteq LeafValues
      /\ StoreGivesKeys /\ KeysApart /\ LongEnough
  BY TreeAssumption DEF TreeInv, Belongs, KeyHypotheses
<1>4. TreeTypes(t) /\ TreeNests(t) /\ t.stored = stored /\ t.nodes = nodes /\ t.top = tree
  BY <1>1 DEF IsTree, IsState
<1>5. KeyLength = Len(KeyOf[v])
  <2>1. KeyLength = Len(KeyOf[v]) - 0
    BY <1>2 DEF KeyLength
  <2>2. Len(KeyOf[v]) \in Nat
    BY <1>2, <1>3, KeyTypes
  <2>. QED  BY <2>1, <2>2
<1>6. \A u \in stored : Apart(KeyOf[u], KeyOf[v])
  BY <1>2, <1>3 DEF KeysApart
<1>7. \A u, w \in stored : u # w =>
          \A n \in Nat : Same(KeyOf[u], KeyOf[w], n) /\ n >= MaxPrefixLength => n <= Len(KeyOf[v])
  <2>. SUFFICES ASSUME NEW u \in stored, NEW w \in stored, u # w,
                       NEW n \in Nat, Same(KeyOf[u], KeyOf[w], n), n >= MaxPrefixLength
                PROVE  n <= Len(KeyOf[v])
    OBVIOUS
  <2>1. u \in LeafValues /\ MaxPrefixLength \in Nat
    BY <1>2, <1>3, TreeAssumption
  <2>2. Len(KeyOf[u]) \in Nat /\ n <= Len(KeyOf[u])
    BY <1>3, <2>1, KeyTypes DEF Same
  <2>3. n \in MaxPrefixLength..Len(KeyOf[u])
    BY <2>1, <2>2
  <2>4. \A m \in MaxPrefixLength..Len(KeyOf[u]) : Same(KeyOf[u], KeyOf[w], m) => m <= Len(KeyOf[v])
    BY <1>2, <1>3 DEF LongEnough
  <2>. QED  BY <2>3, <2>4
<1>8. Here = PointsTo(t, walk.slot)
  <2>1. CASE walk.slot = Root
    BY <1>4, <2>1 DEF Here, At, PointsTo
  <2>2. ASSUME NEW n \in DOMAIN t.nodes, NEW b \in DOMAIN t.nodes[n].child, walk.slot = <<n, b>>
        PROVE  Here = PointsTo(t, walk.slot)
    <3>1. walk.slot # Root /\ walk.slot[1] = n /\ walk.slot[2] = b
      BY <2>2 DEF Root
    <3>. QED  BY <1>4, <3>1 DEF Here, At, PointsTo, FindChild
  <2>. QED  BY <1>2, <2>1, <2>2 DEF Stands
<1>. HIDE DEF v, d
<1>9. d \in Nat
  BY <1>1, <1>2, <1>3, StandsAbove
<1>10. /\ PointsTo(t, walk.slot) # Null => \E u \in t.stored : LeadsTo(t, PointsTo(t, walk.slot), u, d)
       /\ \A u \in t.stored : LeadsTo(t, PointsTo(t, walk.slot), u, d) => Same(KeyOf[u], KeyOf[v], d)
       /\ PointsTo(t, walk.slot) = Null => walk.slot = Root /\ t.stored = {}
  <2>. DEFINE s == walk.slot
  <2>1. Stands(t, s, d, KeyOf[v]) /\ v \in LeafValues /\ StoreGivesKeys /\ IsTree(t)
    BY <1>1, <1>2, <1>3
  <2>. HIDE DEF s
  <2>2. /\ PointsTo(t, s) # Null => \E u \in t.stored : LeadsTo(t, PointsTo(t, s), u, d)
        /\ \A u \in t.stored : LeadsTo(t, PointsTo(t, s), u, d) => Same(KeyOf[u], KeyOf[v], d)
        /\ PointsTo(t, s) = Null => s = Root /\ t.stored = {}
    BY <2>1, StandsBelow
  <2>. QED  BY <2>2 DEF s
<1>11. v \in LeafValues /\ t.stored \subseteq LeafValues /\ v \notin t.stored
  BY <1>2, <1>3, <1>4
<1>. QED  BY <1>1, <1>2, <1>4, <1>5, <1>6, <1>7, <1>8, <1>9, <1>10, <1>11 DEF InsertFacts, v, d

-----------------------------------------------------------------------------
(* Insertions.                                                             *)

\* Node n of nodes' is that of ns, up to the pointer at slot.
Written(ns, n, slot, ref) ==
    /\ IsNode(nodes'[n]) /\ nodes'[n].prefixLength = ns[n].prefixLength /\ nodes'[n].prefix = ns[n].prefix
    /\ DOMAIN nodes'[n].child = DOMAIN ns[n].child
    /\ \A b \in DOMAIN ns[n].child : nodes'[n].child[b] = IF slot = <<n, b>> THEN ref ELSE ns[n].child[b]
    /\ (\A b : slot # <<n, b>>) => nodes'[n] = ns[n]

LEMMA HeapWrites ==
    ASSUME NEW ns, NEW slot, NEW ref, Heap(ns, slot, ref), \A n \in DOMAIN ns : IsNode(ns[n]),
           slot = Root \/ \E n \in DOMAIN ns : \E b \in DOMAIN ns[n].child : slot = <<n, b>>
    PROVE  /\ DOMAIN nodes' = DOMAIN ns
           /\ tree' = IF slot = Root THEN ref ELSE tree
           /\ \A n \in DOMAIN ns : Written(ns, n, slot, ref)
<1>1. CASE slot = Root
  <2>1. nodes' = ns /\ tree' = ref
    BY <1>1 DEF Heap
  <2>2. \A n, b : slot # <<n, b>>
    BY <1>1 DEF Root
  <2>. QED  BY <1>1, <2>1, <2>2 DEF Written
<1>2. ASSUME NEW n \in DOMAIN ns, NEW b \in DOMAIN ns[n].child, slot = <<n, b>>
      PROVE  /\ DOMAIN nodes' = DOMAIN ns /\ tree' = tree /\ slot # Root
             /\ \A m \in DOMAIN ns : Written(ns, m, slot, ref)
  <2>1. slot # Root /\ slot[1] = n /\ slot[2] = b
    BY <1>2 DEF Root
  <2>2. nodes' = [ns EXCEPT ![n].child[b] = ref] /\ tree' = tree
    BY <2>1 DEF Heap
  <2>3. DOMAIN nodes' = DOMAIN ns /\ \A m \in DOMAIN ns : m # n => nodes'[m] = ns[m]
    BY <2>2
  <2>4. nodes'[n] = [ns[n] EXCEPT !.child[b] = ref]
    BY <2>2
  <2>5. DOMAIN ns[n] = {"prefixLength", "prefix", "child"}
    BY DEF IsNode
  <2>6. /\ DOMAIN nodes'[n] = {"prefixLength", "prefix", "child"}
        /\ nodes'[n].prefixLength = ns[n].prefixLength /\ nodes'[n].prefix = ns[n].prefix
        /\ nodes'[n].child = [ns[n].child EXCEPT ![b] = ref]
    BY <2>4, <2>5
  <2>7. Written(ns, n, slot, ref)
    <3>1. \A c : slot = <<n, c>> <=> c = b
      BY <1>2
    <3>. QED  BY <2>6, <3>1 DEF Written, IsNode
  <2>8. \A m \in DOMAIN ns : m # n => Written(ns, m, slot, ref)
    <3>1. \A m, c : m # n => slot # <<m, c>>
      BY <1>2
    <3>. QED  BY <2>3, <3>1 DEF Written
  <2>. QED  BY <2>1, <2>2, <2>3, <2>7, <2>8
<1>. QED  BY <1>1, <1>2

\* A node keeps what fits of the bytes of a key behind the first ones.
KeepsFrom(node, u, from) ==
    /\ node.prefix \in Seq(Bytes) /\ Len(node.prefix) = Least(node.prefixLength, MaxPrefixLength)
    /\ \A i \in 1..Len(node.prefix) : node.prefix[i] = KeyOf[u][from + i]

\* The nodes, of which the one here begins behind e bytes.
Cut(t, ns, e) ==
    /\ DOMAIN ns = DOMAIN nodes
    /\ \A n \in DOMAIN nodes : IsNode(ns[n]) /\ ns[n].child = nodes[n].child
    /\ \A n \in DOMAIN nodes : Here # Address(n) =>
          ns[n].prefixLength = nodes[n].prefixLength /\ ns[n].prefix = nodes[n].prefix
    /\ \A n \in DOMAIN nodes : Here = Address(n) =>
          ns[n].prefixLength \in Nat /\ e + ns[n].prefixLength = Full(t, n) /\ KeepsFrom(ns[n], t.under[n], e)

\* The node at the fork.
Fork(node, d, v, u, p) ==
    /\ IsNode(node) /\ node.prefixLength = p /\ KeepsFrom(node, v, d)
    /\ node.child = [b \in {KeyOf[u][d + p + 1], KeyOf[v][d + p + 1]} |->
                        IF b = KeyOf[v][d + p + 1] THEN MakeLeaf(v) ELSE Here]

LEMMA WalkOver ==
    ASSUME TreeInv, walk.op = "insert", Inserted, UNCHANGED family
    PROVE  Walks' /\ Belongs' /\ \A t : Inserting(t)'
<1>1. walk' = Idle /\ stored' = stored \union {walk.leaf} /\ family' = family
  BY DEF Inserted
<1>2. walk.leaf \in family.leafValues /\ Belongs
  BY DEF TreeInv, Inserting
<1>3. Belongs'
  BY <1>1, <1>2 DEF Belongs
<1>4. Walks' /\ \A t : Inserting(t)'
  BY <1>1 DEF Walks, Inserting, Idle
<1>. QED  BY <1>3, <1>4

LEMMA ForkStep ==
    ASSUME KeyHypotheses, TreeInv, walk.op = "insert", NEW t, NEW v, NEW d, InsertFacts(t, v, d),
           NEW u \in t.stored, NEW p \in Nat, ForksOff(t, walk.slot, d, v, u, p),
           NEW ns, NEW node, Cut(t, ns, d + p + 1), Fork(node, d, v, u, p),
           Heap(With(ns, fresh, node), walk.slot, Address(fresh)), fresh' = fresh + 1,
           Inserted, UNCHANGED family
    PROVE  TreeInv'
<1>. DEFINE e == d + p + 1
            f == fresh
            s == walk.slot
            ms == With(ns, f, node)
            x == KeyOf[u][e]
            y == KeyOf[v][e]
            t2 == [nodes |-> nodes', top |-> tree', stored |-> stored',
                   from  |-> [n \in DOMAIN nodes' |-> IF n = f THEN d ELSE IF Here = Address(n) THEN e ELSE t.from[n]],
                   under |-> [n \in DOMAIN nodes' |-> IF n = f THEN v ELSE t.under[n]],
                   depth |-> [w \in stored' |-> IF w = v \/ Here = MakeLeaf(w) THEN e ELSE t.depth[w]]]
<1>1. /\ IsTree(t) /\ TreeTypes(t) /\ t.nodes = nodes /\ t.top = tree /\ t.stored = stored
      /\ v = walk.leaf /\ v \in LeafValues /\ v \notin t.stored /\ t.stored \subseteq LeafValues /\ d \in Nat
      /\ Here = PointsTo(t, s) /\ Stands(t, s, d, KeyOf[v])
      /\ \A w \in t.stored : LeadsTo(t, Here, w, d) => Same(KeyOf[w], KeyOf[v], d)
  BY DEF InsertFacts, IsState
<1>2. f \in Nat \ {0} /\ DOMAIN nodes \subseteq 1..(f - 1) /\ f \notin DOMAIN nodes /\ StoreGivesKeys
      /\ \A n \in DOMAIN nodes : IsNode(nodes[n]) /\ DOMAIN nodes[n].child \subseteq Bytes
  BY DEF TreeInv, Heaps, KeyHypotheses
<1>3. /\ DOMAIN ms = DOMAIN nodes \union {f} /\ ms[f] = node /\ \A n \in DOMAIN nodes : ms[n] = ns[n]
      /\ \A n \in DOMAIN ms : IsNode(ms[n])
  BY <1>2 DEF With, Cut, Fork
<1>4. s = Root \/ \E n \in DOMAIN nodes : \E b \in DOMAIN nodes[n].child : s = <<n, b>>
  BY <1>1 DEF Stands
<1>5. s = Root \/ \E n \in DOMAIN ms : \E b \in DOMAIN ms[n].child : s = <<n, b>>
  <2>1. \A n \in DOMAIN nodes : n \in DOMAIN ms /\ DOMAIN ms[n].child = DOMAIN nodes[n].child
    BY <1>3 DEF Cut
  <2>. HIDE DEF ms
  <2>. QED  BY <1>4, <2>1
<1>6. /\ DOMAIN nodes' = DOMAIN ms
      /\ tree' = IF s = Root THEN Address(f) ELSE tree
      /\ \A n \in DOMAIN ms : Written(ms, n, s, Address(f))
  <2>1. Heap(ms, s, Address(f))
    OBVIOUS
  <2>. HIDE DEF ms, s, f
  <2>. QED  BY <1>3, <1>5, <2>1, HeapWrites
<1>7. /\ DOMAIN nodes' = DOMAIN nodes \union {f} /\ stored' = stored \union {v} /\ fresh' = f + 1
  BY <1>1, <1>3, <1>6 DEF Inserted
<1>. HIDE DEF ms
<1>8. /\ t2.nodes = nodes' /\ t2.top = tree' /\ t2.stored = stored'
      /\ \A n \in DOMAIN nodes : t2.from[n] = (IF Here = Address(n) THEN e ELSE t.from[n]) /\ t2.under[n] = t.under[n]
      /\ t2.from[f] = d /\ t2.under[f] = v /\ t2.depth[v] = e
      /\ \A w \in stored : t2.depth[w] = IF Here = MakeLeaf(w) THEN e ELSE t.depth[w]
  BY <1>1, <1>2, <1>7
<1>. HIDE DEF t2
<1>9. ASSUME NEW n \in DOMAIN nodes
      PROVE  /\ nodes'[n].prefixLength = ns[n].prefixLength /\ nodes'[n].prefix = ns[n].prefix /\ IsNode(nodes'[n])
             /\ DOMAIN nodes'[n].child = DOMAIN nodes[n].child
             /\ \A b \in DOMAIN nodes[n].child :
                   nodes'[n].child[b] = IF s = <<n, b>> THEN Address(f) ELSE nodes[n].child[b]
  <2>1. n \in DOMAIN ms /\ ms[n] = ns[n] /\ ns[n].child = nodes[n].child
    BY <1>3 DEF Cut
  <2>. HIDE DEF s
  <2>. QED  BY <1>6, <2>1 DEF Written
<1>10. nodes'[f] = node /\ IsNode(node)
  <2>1. f \in DOMAIN ms /\ ms[f] = node
    BY <1>3
  <2>2. \A b : s # <<f, b>>
    <3>1. f \notin DOMAIN nodes
      BY <1>2
    <3>. HIDE DEF s, f
    <3>2. ASSUME NEW b, s = <<f, b>> PROVE FALSE
      <4>1. CASE s = Root
        BY <3>2, <4>1 DEF Root
      <4>2. ASSUME NEW n \in DOMAIN nodes, NEW c, s = <<n, c>> PROVE FALSE
        BY <3>1, <3>2, <4>2
      <4>. QED  BY <1>4, <4>1, <4>2
    <3>. QED  BY <3>2
  <2>. HIDE DEF s
  <2>. QED  BY <1>6, <2>1, <2>2 DEF Written
<1>11. Redirects(t, t2, s, Address(f))
  <2>. HIDE DEF s, f
  <2>. QED  BY <1>1, <1>6, <1>8, <1>9 DEF Redirects
<1>12. ASSUME NEW n \in DOMAIN nodes
       PROVE  /\ t2.nodes[n].prefixLength \in Nat /\ Full(t2, n) = Full(t, n) /\ Keeps(t2, n)
  <2>1. /\ t.from[n] \in Nat /\ nodes[n].prefixLength \in Nat /\ Keeps(t, n)
    BY <1>1 DEF IsTree, TreeTypes
  <2>2. CASE Here = Address(n)
    <3>1. ns[n].prefixLength \in Nat /\ e + ns[n].prefixLength = Full(t, n) /\ KeepsFrom(ns[n], t.under[n], e)
      BY <2>2 DEF Cut
    <3>. QED  BY <1>8, <1>9, <2>2, <3>1 DEF Full, Keeps, KeepsFrom
  <2>3. CASE Here # Address(n)
    <3>1. ns[n].prefixLength = nodes[n].prefixLength /\ ns[n].prefix = nodes[n].prefix
      BY <2>3 DEF Cut
    <3>2. /\ t2.from[n] = t.from[n] /\ t2.under[n] = t.under[n]
          /\ t2.nodes[n].prefixLength = t.nodes[n].prefixLength /\ t2.nodes[n].prefix = t.nodes[n].prefix
      BY <1>1, <1>8, <1>9, <2>3, <3>1
    <3>3. t.nodes[n].prefixLength \in Nat
      BY <1>1, <2>1
    <3>. QED  BY ONLY <2>1, <3>2, <3>3 DEF Full, Keeps
  <2>. QED  BY <2>2, <2>3, Zenon
<1>13. ForkedNodes(t, t2, s, d, p)
  <2>. HIDE DEF s
  <2>. QED  BY <1>1, <1>8, <1>12 DEF ForkedNodes
<1>14. ForkNode(t, t2, s, d, v, u, p, f)
  <2>1. t2.nodes[f].prefixLength = p /\ Keeps(t2, f)
    BY <1>8, <1>10 DEF Keeps, KeepsFrom, Fork
  <2>2. t2.nodes[f].child = [b \in {x, y} |-> IF b = y THEN MakeLeaf(v) ELSE Here]
    <3>1. node.child = [b \in {x, y} |-> IF b = y THEN MakeLeaf(v) ELSE Here]
      BY DEF Fork
    <3>. HIDE DEF x, y
    <3>. QED  BY <1>8, <1>10, <3>1
  <2>. HIDE DEF s
  <2>. QED  BY <1>1, <1>8, <2>1, <2>2 DEF ForkNode
<1>15. Forked(t, t2, s, d, v, u, p, f)
  <2>1. v \notin t.stored /\ ForksOff(t, s, d, v, u, p) /\ f \notin DOMAIN t.nodes
    BY <1>1, <1>2
  <2>2. /\ DOMAIN t2.nodes = DOMAIN t.nodes \union {f} /\ t2.stored = t.stored \union {v} /\ t2.depth[v] = e
        /\ \A w \in t.stored : t2.depth[w] = IF PointsTo(t, s) = MakeLeaf(w) THEN e ELSE t.depth[w]
    BY <1>1, <1>7, <1>8
  <2>3. f \in Nat \ {0}
    BY <1>2
  <2>4. Redirects(t, t2, s, Address(f)) /\ ForkedNodes(t, t2, s, d, p) /\ ForkNode(t, t2, s, d, v, u, p, f)
    BY <1>11, <1>13, <1>14
  <2>. HIDE DEF s, f
  <2>. QED  BY ONLY <2>1, <2>2, <2>3, <2>4 DEF Forked, e
<1>16. IsTree(t2)
  <2>1. StoreGivesKeys /\ IsTree(t)
    BY <1>1, <1>2
  <2>. HIDE DEF s, f
  <2>. QED  BY ONLY <1>15, <2>1, ForkTree
<1>17. Heaps'
  <2>1. x \in Bytes /\ y \in Bytes
    <3>1. e \in 1..Len(KeyOf[u]) /\ e \in 1..Len(KeyOf[v]) /\ u \in LeafValues
      <4>1. Len(KeyOf[u]) \in Nat /\ Len(KeyOf[v]) \in Nat /\ u \in LeafValues
        BY <1>1, <1>2, KeyTypes
      <4>2. d + p < Len(KeyOf[u]) /\ d + p < Len(KeyOf[v])
        BY DEF ForksOff
      <4>. QED  BY <1>1, <4>1, <4>2
    <3>. HIDE DEF e
    <3>. QED  BY <1>1, <1>2, <3>1, KeyTypes
  <2>2. DOMAIN nodes'[f].child \subseteq Bytes
    <3>1. DOMAIN node.child = {x, y}
      BY DEF Fork
    <3>. QED  BY <1>10, <2>1, <3>1
  <2>3. \A n \in DOMAIN nodes' : IsNode(nodes'[n]) /\ DOMAIN nodes'[n].child \subseteq Bytes
    BY <1>2, <1>7, <1>9, <1>10, <2>2
  <2>4. fresh' \in Nat \ {0} /\ DOMAIN nodes' \subseteq 1..(fresh' - 1)
    BY <1>2, <1>7
  <2>. QED  BY <2>3, <2>4 DEF Heaps
<1>18. PICK T : T = t2
  OBVIOUS
<1>19. IsState(T)' /\ IsTree(T)
  BY <1>8, <1>16, <1>18 DEF IsState
<1>20. Walks' /\ Belongs' /\ Inserting(T)'
  BY WalkOver
<1>. QED  BY <1>17, <1>19, <1>20 DEF TreeInv

LEMMA InsertBasics ==
    ASSUME KeyHypotheses, NEW t, NEW v, NEW d, InsertFacts(t, v, d)
    PROVE  /\ StoreGivesKeys /\ v = walk.leaf /\ d = walk.depth /\ d \in Nat
           /\ IsTree(t) /\ TreeTypes(t) /\ TreeNests(t) /\ t.nodes = nodes /\ t.top = tree /\ t.stored = stored
           /\ v \in LeafValues /\ v \notin t.stored /\ t.stored \subseteq LeafValues
           /\ walk.key.bytes = KeyOf[v] /\ KeyLength = Len(KeyOf[v]) /\ Len(KeyOf[v]) \in Nat
           /\ Stands(t, walk.slot, d, KeyOf[v]) /\ Here = PointsTo(t, walk.slot)
           /\ \A u \in t.stored : LeadsTo(t, Here, u, d) => Same(KeyOf[u], KeyOf[v], d) /\ Apart(KeyOf[u], KeyOf[v])
           /\ Here # Null => \E u \in t.stored : LeadsTo(t, Here, u, d)
<1>1. v \in LeafValues /\ StoreGivesKeys
  BY DEF InsertFacts, KeyHypotheses
<1>2. Len(KeyOf[v]) \in Nat
  BY <1>1, KeyTypes
<1>. QED  BY <1>1, <1>2 DEF InsertFacts, IsState

\* The bytes taken from memory that holds those of a key.
ReadsAs(memory, u, from, m) ==
    from + m <= Len(KeyOf[u]) /\ \A i \in 1..m : ByteAt(memory, from + i) = KeyOf[u][from + i]

IsPart(s, u, from, m) == s \in Seq(Bytes) /\ Len(s) = m /\ \A i \in 1..m : s[i] = KeyOf[u][from + i]

LEMMA SliceKeeps ==
    ASSUME StoreGivesKeys, NEW memory, NEW u \in LeafValues, NEW from \in Nat, NEW m \in Nat,
           ReadsAs(memory, u, from, m)
    PROVE  IsPart(Slice(memory, from, m), u, from, m)
<1>. DEFINE s == Slice(memory, from, m)
<1>0. from + m <= Len(KeyOf[u]) /\ \A i \in 1..m : ByteAt(memory, from + i) = KeyOf[u][from + i]
  BY DEF ReadsAs
<1>1. s = [i \in 1..m |-> ByteAt(memory, from + i)]
  BY DEF Slice
<1>2. \A i \in 1..m : s[i] = KeyOf[u][from + i]
  BY <1>0, <1>1
<1>3. \A i \in 1..m : from + i \in 1..Len(KeyOf[u])
  <2>1. Len(KeyOf[u]) \in Nat
    BY KeyTypes
  <2>. QED  BY ONLY <1>0, <2>1, from \in Nat, m \in Nat
<1>4. \A i \in 1..m : s[i] \in Bytes
  <2>1. \A j \in 1..Len(KeyOf[u]) : KeyOf[u][j] \in Bytes
    BY KeyTypes
  <2>. HIDE DEF s
  <2>. QED  BY <1>2, <1>3, <2>1
<1>5. s = [i \in 1..m |-> s[i]]
  BY <1>1
<1>. HIDE DEF s
<1>6. s \in [1..m -> Bytes]
  BY <1>4, <1>5
<1>7. s \in Seq(Bytes) /\ Len(s) = m
  BY <1>6
<1>. QED  BY <1>2, <1>7 DEF s, IsPart

\* The first difference from the key of a leaf.
Differing(u, v, d, after) ==
    { i \in (d + 1)..Len(KeyOf[v]) : LoadKey(u, Len(KeyOf[v]), after).bytes[i] # KeyOf[v][i] }

LEMMA LeafDifference ==
    ASSUME StoreGivesKeys, NEW u \in LeafValues, NEW v \in LeafValues, NEW d \in Nat,
           Same(KeyOf[u], KeyOf[v], d), Apart(KeyOf[u], KeyOf[v]), NEW after, NEW D, D = Differing(u, v, d, after)
    PROVE  /\ D # {} /\ Min(D) \in Nat /\ PartsAt(u, v, d, Min(D) - 1 - d, Min(D) - d)
           /\ LoadKey(u, Len(KeyOf[v]), after).bytes[Min(D)] = KeyOf[u][Min(D)]
<1>. DEFINE K == KeyOf[v]
            U == KeyOf[u]
            L == Len(K)
            bytes == LoadKey(u, L, after).bytes
            q == Min(D)
<1>1. K \in Seq(Nat) /\ U \in Seq(Nat) /\ L \in Nat /\ Len(U) \in Nat
  BY KeyTypes
<1>2. LeafKey[u] = U
  BY DEF StoreGivesKeys
<1>. HIDE DEF K, U
<1>3. \A i \in 1..L : i <= Len(U) => bytes[i] = U[i]
  BY <1>1, <1>2 DEF LoadKey
<1>4. PICK c \in 1..Len(U) : c <= L /\ U[c] # K[c]
  BY DEF Apart, U, K
<1>5. c > d /\ c \in Nat
  BY <1>1, <1>4 DEF Same, U, K
<1>6. D = { i \in (d + 1)..L : bytes[i] # K[i] }
  BY DEF K, Differing
<1>. HIDE DEF L, bytes
<1>7. c \in D
  <2>1. c \in 1..L /\ c \in (d+1)..L
    BY ONLY <1>1, <1>4, <1>5, d \in Nat
  <2>. QED  BY <1>3, <1>4, <1>6, <2>1
<1>8. D \in SUBSET Nat
  BY <1>1, <1>6
<1>9. q \in D /\ \A i \in D : q <= i
  <2>1. \E i \in D : \A j \in D : i <= j
    BY <1>7, <1>8, LeastElement
  <2>. QED  BY <2>1 DEF Min
<1>. HIDE DEF q
<1>10. q \in (d + 1)..L /\ q <= c /\ bytes[q] # K[q]
  BY <1>6, <1>7, <1>9
<1>11. q \in Nat /\ q <= L /\ q <= Len(U) /\ q > d /\ q \in 1..L
  <2>. DEFINE m == Len(U)
  <2>1. L \in Nat /\ m \in Nat /\ d \in Nat /\ c \in Nat /\ c <= m /\ q \in (d + 1)..L /\ q <= c
    BY <1>1, <1>4, <1>5, <1>10
  <2>. HIDE DEF m
  <2>2. q \in Nat /\ q <= L /\ q <= m /\ q > d /\ q \in 1..L
    BY ONLY <2>1
  <2>. QED  BY ONLY <2>2 DEF m
<1>12. bytes[q] = U[q]
  BY <1>3, <1>11
<1>13. Same(U, K, q - 1)
  <2>1. ASSUME NEW j \in 1..(q - 1)
        PROVE  U[j] = K[j]
    <3>1. CASE j <= d
      <4>1. j \in 1..d
        BY <1>11, <3>1
      <4>. QED  BY <4>1 DEF Same, U, K
    <3>2. CASE j > d
      <4>1. j \in (d+1)..L /\ ~(q <= j) /\ j \in 1..L /\ j <= Len(U)
        BY ONLY <1>1, <1>11, <2>1, <3>2, d \in Nat
      <4>2. j \notin D
        BY <1>9, <4>1
      <4>. QED  BY <1>3, <1>6, <4>1, <4>2
    <3>. QED  BY <1>11, <3>1, <3>2
  <2>. DEFINE r == q - 1
  <2>2. r <= Len(U) /\ r <= Len(K)
    BY <1>1, <1>11 DEF L
  <2>. QED  BY <2>1, <2>2 DEF Same
<1>14. /\ q - 1 - d \in Nat /\ q - 1 - d <= q - d /\ d + (q - 1 - d) = q - 1 /\ (q - 1) + 1 = q
       /\ q - 1 < Len(U) /\ q - 1 < L
  BY ONLY <1>1, <1>11, d \in Nat
<1>15. PartsAt(u, v, d, q - 1 - d, q - d)
  <2>. DEFINE p == q - 1 - d
              pl == q - d
  <2>1. p \in Nat /\ p <= pl /\ d + p = q - 1 /\ d + p + 1 = q
    BY <1>14
  <2>. HIDE DEF p, pl
  <2>2. Same(U, K, d + p) /\ d + p < Len(U) /\ d + p < Len(K)
    BY <1>13, <1>14, <2>1 DEF L
  <2>3. U[d + p + 1] # K[d + p + 1]
    BY <1>10, <1>12, <2>1
  <2>4. PartsAt(u, v, d, p, pl)
    BY ONLY <2>1, <2>2, <2>3 DEF PartsAt, U, K
  <2>. QED  BY <2>4 DEF p, pl
<1>. QED  BY <1>7, <1>11, <1>12, <1>15 DEF q, bytes, U, K, L

LEMMA SplitLeafStep ==
    ASSUME KeyHypotheses, TreeInv, SplitLeaf, UNCHANGED family
    PROVE  TreeInv'
<1>1. PICK t, v, d : InsertFacts(t, v, d)
  BY InsertKnows DEF SplitLeaf
<1>. DEFINE K == KeyOf[v]
            L == Len(K)
<1>2. /\ StoreGivesKeys /\ v = walk.leaf /\ d = walk.depth /\ d \in Nat
      /\ IsTree(t) /\ TreeTypes(t) /\ t.nodes = nodes
      /\ v \in LeafValues /\ v \notin t.stored /\ t.stored \subseteq LeafValues
      /\ walk.key.bytes = K /\ KeyLength = L /\ L \in Nat /\ Here = PointsTo(t, walk.slot)
  BY <1>1, InsertBasics
<1>3. IsLeaf(Here) /\ walk.op = "insert" /\ Here # Null
  BY DEF SplitLeaf, IsLeaf, Null
<1>4. PICK u \in t.stored : LeadsTo(t, Here, u, d) /\ Same(KeyOf[u], K, d) /\ Apart(KeyOf[u], K)
  BY <1>1, <1>3, InsertBasics
<1>5. u \in LeafValues /\ Here = MakeLeaf(u) /\ GetLeafValue(Here) = u
  <2>. DEFINE r == Here
  <2>1. u \in LeafValues /\ StoreGivesKeys /\ TreeTypes(t) /\ u \in t.stored /\ LeadsTo(t, r, u, d) /\ IsLeaf(r)
    BY <1>2, <1>3, <1>4
  <2>. HIDE DEF r
  <2>2. r = MakeLeaf(u) /\ GetLeafValue(r) = u
    BY ONLY <2>1, LeadsSomewhere
  <2>. QED  BY <2>1, <2>2 DEF r
<1>6. PICK after \in Bytes :
          LET depth       == walk.depth
              existingKey == LoadKey(GetLeafValue(Here), KeyLength, after)
              differing   == { i \in (depth + 1)..KeyLength : existingKey.bytes[i] # walk.key.bytes[i] }
              common      == Min(differing) - 1 - depth
              node        == Node(common, Slice(walk.key, depth, Least(common, MaxPrefixLength)),
                                  Pair(existingKey.bytes[depth + common + 1], Here,
                                       walk.key.bytes[depth + common + 1], MakeLeaf(walk.leaf)))
          IN  IF differing = {}
              THEN /\ walk' = [walk EXCEPT !.op = "overrun"]
                   /\ UNCHANGED <<nodes, tree, fresh, stored>>
              ELSE /\ Heap(With(nodes, fresh, node), walk.slot, Address(fresh))
                   /\ fresh' = fresh + 1
                   /\ Inserted
  BY DEF SplitLeaf
<1>. DEFINE bytes == LoadKey(u, L, after).bytes
            D == { i \in (d + 1)..L : bytes[i] # K[i] }
            p == Min(D) - 1 - d
            e == d + p + 1
            node == Node(p, Slice(walk.key, d, Least(p, MaxPrefixLength)),
                         Pair(bytes[e], Here, walk.key.bytes[e], MakeLeaf(v)))
<1>7. D # {} /\ Min(D) \in Nat /\ PartsAt(u, v, d, p, Min(D) - d) /\ bytes[Min(D)] = KeyOf[u][Min(D)]
  <2>1. D = Differing(u, v, d, after)
    BY DEF Differing
  <2>. HIDE DEF D
  <2>2. /\ D # {} /\ Min(D) \in Nat /\ PartsAt(u, v, d, Min(D) - 1 - d, Min(D) - d)
        /\ LoadKey(u, Len(KeyOf[v]), after).bytes[Min(D)] = KeyOf[u][Min(D)]
    <3>1. /\ StoreGivesKeys /\ u \in LeafValues /\ v \in LeafValues /\ d \in Nat /\ D = Differing(u, v, d, after)
          /\ Same(KeyOf[u], KeyOf[v], d) /\ Apart(KeyOf[u], KeyOf[v])
      BY <1>2, <1>4, <1>5, <2>1
    <3>. QED  BY ONLY <3>1, LeafDifference
  <2>. QED  BY <2>2
<1>8. Heap(With(nodes, fresh, node), walk.slot, Address(fresh)) /\ fresh' = fresh + 1 /\ Inserted
  <2>1. bytes = LoadKey(GetLeafValue(Here), KeyLength, after).bytes /\ KeyLength = L /\ walk.depth = d /\ walk.leaf = v
        /\ walk.key.bytes = K
    BY <1>2, <1>5
  <2>2. D # {}
    BY <1>7
  <2>. QED  BY ONLY <1>6, <2>1, <2>2
<1>9. Min(D) = e /\ p \in Nat /\ KeyOf[u][e] # K[e]
  <2>. HIDE DEF D
  <2>3. p \in Nat /\ p # Min(D) - d
    BY <1>2, <1>7 DEF PartsAt
  <2>4. Min(D) = e
    BY ONLY <1>2, <1>7
  <2>. QED  BY <1>7, <2>3, <2>4 DEF PartsAt
<1>. HIDE DEF D, bytes, p, node
<1>10. ForksOff(t, walk.slot, d, v, u, p)
  <2>1. Stands(t, walk.slot, d, K)
    BY <1>1 DEF InsertFacts
  <2>2. \A n \in DOMAIN t.nodes : PointsTo(t, walk.slot) # Address(n)
    <3>1. \A n \in DOMAIN t.nodes : n \in Nat
      BY <1>2 DEF TreeTypes
    <3>. QED  BY <1>2, <1>3, <3>1, Addresses
  <2>. QED  BY <1>2, <1>4, <1>7, <1>9, <2>1, <2>2 DEF ForksOff, PartsAt
<1>11. Cut(t, nodes, d + p + 1)
  <2>1. \A n \in DOMAIN nodes : IsNode(nodes[n]) /\ n \in Nat
    BY DEF TreeInv, Heaps
  <2>2. \A n \in DOMAIN nodes : Here # Address(n)
    BY <1>3, <2>1, Addresses
  <2>. QED  BY <2>1, <2>2 DEF Cut
<1>12. Fork(node, d, v, u, p)
  <2>. DEFINE m == Least(p, MaxPrefixLength)
  <2>1. m \in Nat /\ m <= p
    BY <1>9, TreeAssumption DEF Least
  <2>2. ReadsAs(walk.key, v, d, m)
    <3>1. d + p < L
      BY <1>7 DEF PartsAt
    <3>2. d + m <= L /\ \A i \in 1..m : d + i <= L
      <4>. HIDE DEF m, L
      <4>. QED  BY <1>2, <1>9, <2>1, <3>1
    <3>. QED  BY <1>2, <3>2 DEF ByteAt, ReadsAs
  <2>3. KeepsFrom(node, v, d)
    <3>1. node.prefix = Slice(walk.key, d, m) /\ node.prefixLength = p
      BY DEF node, Node
    <3>2. IsPart(Slice(walk.key, d, m), v, d, m)
      <4>. HIDE DEF m
      <4>. QED  BY <1>2, <2>1, <2>2, SliceKeeps
    <3>. QED  BY <3>1, <3>2 DEF KeepsFrom, IsPart
  <2>4. bytes[e] = KeyOf[u][e]
    BY <1>7, <1>9
  <2>5. node.child = [b \in {bytes[e], K[e]} |-> IF b = K[e] THEN MakeLeaf(v) ELSE Here]
    BY <1>2 DEF node, Node, Pair
  <2>6. IsNode(node) /\ node.prefixLength = p
    BY DEF node, Node, IsNode
  <2>. QED  BY <2>3, <2>4, <2>5, <2>6 DEF Fork
<1>. QED
  <2>. DEFINE ns == nodes
  <2>1. Cut(t, ns, d + p + 1) /\ Heap(With(ns, fresh, node), walk.slot, Address(fresh))
    BY <1>8, <1>11
  <2>. HIDE DEF ns
  <2>. QED  BY <1>1, <1>3, <1>8, <1>9, <1>10, <1>12, <2>1, ForkStep

LEMMA InsertIntoEmptyStep ==
    ASSUME KeyHypotheses, TreeInv, InsertIntoEmpty, UNCHANGED family
    PROVE  TreeInv'
<1>1. PICK t, v, d : InsertFacts(t, v, d)
  BY InsertKnows DEF InsertIntoEmpty
<1>2. /\ StoreGivesKeys /\ v = walk.leaf /\ v \in LeafValues /\ IsTree(t)
      /\ t.nodes = nodes /\ t.stored = stored
  BY <1>1, InsertBasics
<1>3. walk.slot = Root /\ t.stored = {}
  BY <1>1 DEF InsertFacts, InsertIntoEmpty
<1>4. nodes' = nodes /\ tree' = MakeLeaf(v) /\ stored' = {v} /\ fresh' = fresh
  BY <1>2, <1>3 DEF InsertIntoEmpty, Heap, Inserted
<1>5. PICK t2 : t2 = [nodes |-> nodes', top |-> tree', stored |-> stored', from |-> t.from, under |-> t.under,
                      depth |-> [w \in {v} |-> 0]]
  OBVIOUS
<1>6. FirstLeaf(t, t2, v)
  BY <1>2, <1>3, <1>4, <1>5 DEF FirstLeaf
<1>7. IsTree(t2)
  BY <1>2, <1>6, FirstTree
<1>8. IsState(t2)' /\ Heaps'
  BY <1>4, <1>5 DEF IsState, TreeInv, Heaps
<1>9. Walks' /\ Belongs' /\ Inserting(t2)'
  BY WalkOver DEF InsertIntoEmpty
<1>. QED  BY <1>7, <1>8, <1>9 DEF TreeInv

\* The walk stands at node n; u is the leaf value with the least key below.
AtNode(t, v, d, n, u) ==
    /\ n \in DOMAIN t.nodes /\ n = Here \div 2 /\ Here = Address(n) /\ t.from[n] = d
    /\ u \in t.stored /\ Minimum(Here) = MakeLeaf(u)
    /\ LeadsTo(t, Here, u, d) /\ Passes(t, n, KeyOf[u])
    /\ Same(KeyOf[u], KeyOf[v], d) /\ Apart(KeyOf[u], KeyOf[v])

LEMMA InsertAtNode ==
    ASSUME KeyHypotheses, TreeInv, NEW t, NEW v, NEW d, InsertFacts(t, v, d), Here # Null, ~IsLeaf(Here)
    PROVE  \E n, u : AtNode(t, v, d, n, u)
<1>1. /\ StoreGivesKeys /\ IsTree(t) /\ TreeTypes(t) /\ t.nodes = nodes /\ d \in Nat
      /\ \A u \in t.stored : LeadsTo(t, Here, u, d) => Same(KeyOf[u], KeyOf[v], d) /\ Apart(KeyOf[u], KeyOf[v])
  BY InsertBasics
<1>2. PICK w \in t.stored : LeadsTo(t, Here, w, d)
  BY InsertBasics
<1>3. IsFiniteSet(DOMAIN nodes) /\ ChildrenAreBytes
  <2>1. fresh \in Nat /\ DOMAIN nodes \subseteq 1..(fresh - 1) /\ ChildrenAreBytes
    BY DEF TreeInv, Heaps, ChildrenAreBytes
  <2>2. IsFiniteSet(1..(fresh - 1))
    BY <2>1, FS_Interval
  <2>. QED  BY <2>1, <2>2, FS_Subset
<1>. DEFINE ref == Here
<1>4. LeadsTo(t, ref, w, d) /\ ~IsLeaf(ref)
  BY <1>2
<1>. HIDE DEF ref
<1>5. PICK u \in t.stored : Minimum(ref) = MakeLeaf(u) /\ LeadsTo(t, ref, u, d)
  BY <1>1, <1>3, <1>4, MinimumFirst
<1>6. ref \div 2 \in DOMAIN t.nodes /\ ref = Address(ref \div 2) /\ t.from[ref \div 2] = d /\ Passes(t, ref \div 2, KeyOf[u])
  BY <1>1, <1>4, <1>5, LeadsSomewhere
<1>7. Same(KeyOf[u], KeyOf[v], d) /\ Apart(KeyOf[u], KeyOf[v])
  BY <1>1, <1>5 DEF ref
<1>8. AtNode(t, v, d, ref \div 2, u)
  BY <1>5, <1>6, <1>7 DEF AtNode, ref
<1>. QED  BY <1>8

LEMMA NodeMismatch ==
    ASSUME KeyHypotheses, NEW t, NEW v, NEW d, InsertFacts(t, v, d), NEW n, NEW u, AtNode(t, v, d, n, u), NEW after
    PROVE  PartsAt(u, v, d, PrefixMismatch(Here, walk.key, walk.depth, KeyLength, after), nodes[n].prefixLength)
<1>. DEFINE ref == Here
            key == walk.key
<1>1. /\ StoreGivesKeys /\ IsTree(t) /\ t.nodes = nodes /\ v \in LeafValues
      /\ key.bytes = KeyOf[v] /\ KeyLength = Len(KeyOf[v]) /\ d = walk.depth
  BY InsertBasics
<1>2. /\ n \in DOMAIN t.nodes /\ n = ref \div 2 /\ d = t.from[n]
      /\ u \in t.stored /\ Minimum(ref) = MakeLeaf(u)
      /\ Passes(t, n, KeyOf[u])
      /\ Same(KeyOf[u], KeyOf[v], d) /\ Apart(KeyOf[u], KeyOf[v])
  BY DEF AtNode
<1>. HIDE DEF ref, key
<1>3. PartsAt(u, v, d, PrefixMismatch(ref, key, d, Len(KeyOf[v]), after), t.nodes[n].prefixLength)
  BY <1>1, <1>2, InsertMismatch
<1>. QED  BY <1>1, <1>3 DEF ref, key

\* The prefix matches, and the next byte is that of the key.
LEMMA PrefixPassed ==
    ASSUME KeyHypotheses, NEW t, NEW v, NEW d, InsertFacts(t, v, d), NEW n, NEW u, AtNode(t, v, d, n, u), PassPrefix
    PROVE  /\ Passes(t, n, KeyOf[v]) /\ Full(t, n) \in Nat /\ Full(t, n) < Len(KeyOf[v])
           /\ DepthBehind(Here) = Full(t, n) /\ NextByte = NextOf(t, n, KeyOf[v]) /\ NextByte \in Bytes
<1>1. /\ StoreGivesKeys /\ TreeTypes(t) /\ t.nodes = nodes /\ t.stored \subseteq LeafValues
      /\ v \in LeafValues /\ d = walk.depth /\ d \in Nat /\ walk.key.bytes = KeyOf[v] /\ Len(KeyOf[v]) \in Nat
  BY InsertBasics
<1>2. n \in DOMAIN t.nodes /\ n = Here \div 2 /\ t.from[n] = d /\ u \in t.stored /\ Passes(t, n, KeyOf[u])
  BY DEF AtNode
<1>. DEFINE pl == nodes[n].prefixLength
<1>3. PartsAt(u, v, d, pl, pl)
  <2>1. PICK after : PrefixMismatch(Here, walk.key, walk.depth, KeyLength, after) = pl
    BY <1>2 DEF PassPrefix, NodeAt
  <2>. QED  BY <2>1, NodeMismatch
<1>4. Full(t, n) = d + pl /\ Full(t, n) \in Nat /\ pl \in Nat
  BY <1>1, <1>2, NodeTypes DEF Full
<1>5. Same(KeyOf[u], KeyOf[v], Full(t, n)) /\ Full(t, n) < Len(KeyOf[v])
  BY <1>3, <1>4 DEF PartsAt
<1>6. Passes(t, n, KeyOf[v])
  <2>1. u \in LeafValues
    BY <1>1, <1>2
  <2>. QED  BY <1>1, <1>2, <1>5, <2>1, PassTogether
<1>7. DepthBehind(Here) = Full(t, n)
  BY <1>1, <1>2, <1>4 DEF DepthBehind, NodeAt
<1>8. NextByte = NextOf(t, n, KeyOf[v]) /\ NextByte \in Bytes
  <2>. DEFINE i == Full(t, n) + 1
  <2>1. i \in 1..Len(KeyOf[v]) /\ i <= Len(KeyOf[v])
    BY <1>1, <1>4, <1>5
  <2>2. NextByte = ByteAt(walk.key, i)
    BY <1>7 DEF NextByte
  <2>3. ByteAt(walk.key, i) = KeyOf[v][i]
    BY <1>1, <2>1 DEF ByteAt
  <2>4. KeyOf[v][i] \in Bytes
    <3>. HIDE DEF i
    <3>. QED  BY <1>1, <2>1, KeyTypes
  <2>. QED  BY <2>2, <2>3, <2>4 DEF NextOf
<1>. QED  BY <1>4, <1>5, <1>6, <1>7, <1>8

LEMMA DescendStep ==
    ASSUME KeyHypotheses, TreeInv, Descend, UNCHANGED family
    PROVE  TreeInv'
<1>1. PICK t, v, d : InsertFacts(t, v, d)
  BY InsertKnows DEF Descend, PassPrefix
<1>2. PICK n, u : AtNode(t, v, d, n, u)
  BY <1>1, InsertAtNode DEF Descend, PassPrefix
<1>3. /\ Passes(t, n, KeyOf[v]) /\ Full(t, n) \in Nat /\ Full(t, n) < Len(KeyOf[v])
      /\ DepthBehind(Here) = Full(t, n) /\ NextByte = NextOf(t, n, KeyOf[v])
  BY <1>1, <1>2, PrefixPassed DEF Descend
<1>4. /\ v = walk.leaf /\ t.nodes = nodes /\ Len(KeyOf[v]) \in Nat /\ n \in DOMAIN nodes /\ n = Here \div 2
      /\ walk.key.bytes = KeyOf[v] /\ IsState(t) /\ IsTree(t)
  BY <1>1, <1>2, InsertBasics DEF AtNode, InsertFacts
<1>. DEFINE e == Full(t, n) + 1
            b == KeyOf[v][e]
<1>5. b \in DOMAIN t.nodes[n].child
  BY <1>3, <1>4 DEF Descend, FindChild, NodeAt, NextOf
<1>6. /\ walk' = [walk EXCEPT !.depth = e, !.slot = <<n, b>>, !.skipped = FALSE]
      /\ nodes' = nodes /\ tree' = tree /\ fresh' = fresh /\ stored' = stored /\ family' = family
  BY <1>3, <1>4 DEF Descend, Step, NextByte, NextOf
<1>7. e <= Len(KeyOf[v])
  BY <1>3, <1>4
<1>. HIDE DEF e, b
<1>8. DOMAIN walk = {"op", "key", "depth", "leaf", "skipped", "slot"} /\ walk.op = "insert"
  BY DEF TreeInv, Walks, Idle, Descend, PassPrefix
<1>9. /\ walk'.op = "insert" /\ walk'.leaf = walk.leaf /\ walk'.key = walk.key
      /\ walk'.depth = e /\ walk'.slot = <<n, b>> /\ DOMAIN walk' = DOMAIN walk
  BY <1>6, <1>8
<1>10. Stands(t, <<n, b>>, e, KeyOf[v])
  BY <1>3, <1>4, <1>5, <1>7 DEF Stands, e, b
<1>11. Inserting(t)'
  <2>1. walk.leaf \in family.leafValues \ stored /\ \A w \in stored : ComesAfter(family, walk.leaf, w)
    BY <1>8 DEF TreeInv, Inserting
  <2>. QED  BY <1>4, <1>6, <1>9, <1>10, <2>1 DEF Inserting
<1>12. IsState(t)' /\ Heaps' /\ Belongs'
  BY <1>4, <1>6 DEF IsState, TreeInv, Heaps, Belongs
<1>13. Walks'
  <2>1. DOMAIN walk = DOMAIN Idle
    BY DEF TreeInv, Walks
  <2>2. Idle' = Idle /\ Root' = Root
    BY DEF Idle, Root
  <2>. QED  BY <1>4, <1>6, <1>9, <2>1 DEF Walks
<1>. QED  BY <1>4, <1>11, <1>12, <1>13 DEF TreeInv

\* Node n with the new child, and the tree that it stands in.
IsGrowth(t, v, n, child, grown, t2) ==
    /\ child = [b \in (DOMAIN nodes[n].child) \union {NextByte} |->
                   IF b = NextByte THEN MakeLeaf(walk.leaf) ELSE nodes[n].child[b]]
    /\ grown = Node(nodes[n].prefixLength, nodes[n].prefix, child)
    /\ t2 = [nodes |-> With(nodes, n, grown), top |-> tree, stored |-> stored \union {v},
             from |-> t.from, under |-> t.under,
             depth |-> [w \in stored \union {v} |-> IF w = v THEN Full(t, n) + 1 ELSE t.depth[w]]]

Grew(child, grown, t2) ==
    /\ IsTree(t2) /\ IsNode(grown) /\ DOMAIN child \subseteq Bytes /\ grown.child = child
    /\ \A b \in DOMAIN child : child[b] # Here

\* The tree in which node n has got the child.
LEMMA GrownTree ==
    ASSUME KeyHypotheses, TreeInv, AddChild, NEW t, NEW v, NEW d, InsertFacts(t, v, d), NEW n, NEW u, AtNode(t, v, d, n, u),
           NEW child, NEW grown, NEW t2, IsGrowth(t, v, n, child, grown, t2)
    PROVE  Grew(child, grown, t2)
<1>. USE DEF IsGrowth
<1>1. /\ StoreGivesKeys /\ IsTree(t) /\ TreeTypes(t) /\ t.nodes = nodes /\ t.top = tree /\ t.stored = stored
      /\ v = walk.leaf /\ v \in LeafValues /\ v \notin t.stored /\ d \in Nat
      /\ Stands(t, walk.slot, d, KeyOf[v]) /\ Here = PointsTo(t, walk.slot)
  BY InsertBasics
<1>2. n \in DOMAIN nodes /\ n = Here \div 2 /\ Here = Address(n) /\ t.from[n] = d
  BY <1>1 DEF AtNode
<1>3. /\ Passes(t, n, KeyOf[v]) /\ Full(t, n) \in Nat /\ Full(t, n) < Len(KeyOf[v])
      /\ NextByte = NextOf(t, n, KeyOf[v]) /\ NextByte \in Bytes
  BY PrefixPassed DEF AddChild
<1>. DEFINE old == nodes[n].child
            y == NextOf(t, n, KeyOf[v])
<1>4. y \notin DOMAIN old
  <2>1. SUFFICES ASSUME y \in DOMAIN old PROVE FALSE
    OBVIOUS
  <2>2. old[y] = Null
    BY <1>2, <1>3, <2>1 DEF AddChild, FindChild, NodeAt
  <2>3. PICK w \in t.stored : LeadsTo(t, old[y], w, Full(t, n) + 1)
    <3>1. StoreGivesKeys /\ IsTree(t) /\ n \in DOMAIN t.nodes /\ y \in DOMAIN t.nodes[n].child
          /\ t.nodes[n].child[y] = old[y]
      BY <1>1, <1>2, <2>1
    <3>. HIDE DEF y, old
    <3>2. PICK w \in t.stored : LeadsTo(t, t.nodes[n].child[y], w, Full(t, n) + 1)
      BY ONLY <3>1, ChildLeads
    <3>. QED  BY ONLY <3>1, <3>2
  <2>. DEFINE r == old[y]
              e == Full(t, n) + 1
  <2>4. StoreGivesKeys /\ TreeTypes(t) /\ w \in t.stored /\ LeadsTo(t, r, w, e)
    BY <1>1, <2>3
  <2>5. r = Null
    BY <2>2
  <2>. HIDE DEF r, e
  <2>. QED  BY ONLY <2>4, <2>5, LeadsSomewhere
<1>5. IsNode(grown) /\ grown.child = child /\ grown.prefix = nodes[n].prefix /\ grown.prefixLength = nodes[n].prefixLength
  BY DEF Node, IsNode
<1>6. child = [b \in DOMAIN t.nodes[n].child \union {y} |-> IF b = y THEN MakeLeaf(v) ELSE t.nodes[n].child[b]]
  BY <1>1, <1>3
<1>7. /\ DOMAIN t2.nodes = DOMAIN t.nodes /\ t2.top = t.top /\ t2.stored = t.stored \union {v}
      /\ t2.depth[v] = Full(t, n) + 1 /\ \A w \in t.stored : t2.depth[w] = t.depth[w]
      /\ \A m \in DOMAIN t.nodes : t2.under[m] = t.under[m] /\ t2.from[m] = t.from[m]
      /\ t2.nodes[n] = grown /\ \A m \in DOMAIN t.nodes : m # n => t2.nodes[m] = t.nodes[m]
  BY <1>1, <1>2 DEF With
<1>8. Extended(t, t2, n, v)
  <2>1. /\ n \in DOMAIN t.nodes /\ v \in LeafValues \ t.stored
        /\ Passes(t, n, KeyOf[v]) /\ Full(t, n) < Len(KeyOf[v]) /\ y \notin DOMAIN t.nodes[n].child
    BY <1>1, <1>2, <1>3, <1>4
  <2>2. \A m \in DOMAIN t.nodes :
           /\ t2.under[m] = t.under[m] /\ t2.from[m] = t.from[m]
           /\ t2.nodes[m].prefixLength = t.nodes[m].prefixLength /\ t2.nodes[m].prefix = t.nodes[m].prefix
           /\ m # n => t2.nodes[m].child = t.nodes[m].child
    <3>1. /\ t2.nodes[n].prefixLength = t.nodes[n].prefixLength
          /\ t2.nodes[n].prefix = t.nodes[n].prefix
      BY <1>1, <1>5, <1>7
    <3>. HIDE DEF old, y
    <3>. QED  BY ONLY <1>7, <3>1
  <2>3. t2.nodes[n].child = child
    BY <1>5, <1>7
  <2>. HIDE DEF old
  <2>. QED  BY ONLY <1>6, <1>7, <2>1, <2>2, <2>3 DEF Extended
<1>9. IsTree(t2)
  BY <1>1, <1>8, ExtendTree
<1>10. DOMAIN child \subseteq Bytes
  BY <1>2, <1>3 DEF TreeInv, Heaps
<1>11. \A b \in DOMAIN child : child[b] # Here
  <2>1. n \in Nat /\ n \in DOMAIN t.nodes
    BY <1>1, <1>2 DEF TreeTypes
  <2>2. MakeLeaf(v) # Here
    BY <1>1, <1>2, <2>1, Tagged
  <2>3. ASSUME NEW b \in DOMAIN t.nodes[n].child PROVE t.nodes[n].child[b] # Here
    <3>. DEFINE s == walk.slot
    <3>1. /\ s # <<n, b>> => t.nodes[n].child[b] # PointsTo(t, s)
          /\ s = <<n, b>> => d = Full(t, n) + 1
      <4>1. Stands(t, s, d, KeyOf[v])
        BY <1>1
      <4>. HIDE DEF s
      <4>. QED  BY <1>1, <2>1, <4>1, OnlySlot
    <3>2. d <= Full(t, n)
      BY <1>1, <1>2, <2>1, NodeTypes
    <3>. QED  BY <1>1, <1>3, <3>1, <3>2
  <2>. QED  BY <1>1, <1>3, <2>2, <2>3
<1>12. grown.child = child
  BY <1>5
<1>. QED  BY ONLY <1>5, <1>9, <1>10, <1>11, <1>12 DEF Grew

LEMMA AddChildStep ==
    ASSUME KeyHypotheses, TreeInv, AddChild, UNCHANGED family
    PROVE  TreeInv'
<1>1. PICK t, v, d : InsertFacts(t, v, d)
  BY InsertKnows DEF AddChild, PassPrefix
<1>2. PICK n, u : AtNode(t, v, d, n, u)
  BY <1>1, InsertAtNode DEF AddChild, PassPrefix
<1>3. /\ StoreGivesKeys /\ IsTree(t) /\ TreeTypes(t) /\ t.nodes = nodes /\ t.top = tree /\ t.stored = stored
      /\ v = walk.leaf /\ v \in LeafValues /\ d \in Nat
      /\ Stands(t, walk.slot, d, KeyOf[v]) /\ Here = PointsTo(t, walk.slot)
  BY <1>1, InsertBasics
<1>4. n \in DOMAIN nodes /\ n = Here \div 2 /\ Here = Address(n) /\ t.from[n] = d
  BY <1>2, <1>3 DEF AtNode
<1>5. PICK child : child = [b \in (DOMAIN nodes[n].child) \union {NextByte} |->
                               IF b = NextByte THEN MakeLeaf(walk.leaf) ELSE nodes[n].child[b]]
  OBVIOUS
<1>6. PICK grown : grown = Node(nodes[n].prefixLength, nodes[n].prefix, child)
  OBVIOUS
<1>7. PICK t2 : t2 = [nodes |-> With(nodes, n, grown), top |-> tree, stored |-> stored \union {v},
                      from |-> t.from, under |-> t.under,
                      depth |-> [w \in stored \union {v} |-> IF w = v THEN Full(t, n) + 1 ELSE t.depth[w]]]
  OBVIOUS
<1>8. /\ IsTree(t2) /\ IsNode(grown) /\ DOMAIN child \subseteq Bytes /\ grown.child = child
      /\ \A b \in DOMAIN child : child[b] # Here
  <2>1. IsGrowth(t, v, n, child, grown, t2)
    BY <1>5, <1>6, <1>7 DEF IsGrowth
  <2>2. Grew(child, grown, t2)
    BY ONLY KeyHypotheses, TreeInv, AddChild, <1>1, <1>2, <2>1, GrownTree
  <2>. QED  BY <2>2 DEF Grew
<1>9. Inserted /\ stored' = stored \union {v} /\ walk.op = "insert"
  BY <1>3 DEF AddChild, Inserted, PassPrefix
<1>10. /\ fresh \in Nat \ {0} /\ DOMAIN nodes \subseteq 1..(fresh - 1) /\ fresh \notin DOMAIN nodes
       /\ \A m \in DOMAIN nodes : IsNode(nodes[m]) /\ DOMAIN nodes[m].child \subseteq Bytes
  BY DEF TreeInv, Heaps
<1>11. \/ Grow(n, grown)
       \/ nodes' = With(nodes, n, grown) /\ UNCHANGED <<tree, fresh>>
  BY <1>4, <1>5, <1>6 DEF AddChild
<1>12. CASE nodes' = With(nodes, n, grown) /\ UNCHANGED <<tree, fresh>>
  <2>1. IsState(t2)'
    BY <1>7, <1>9, <1>12 DEF IsState
  <2>2. Heaps'
    BY <1>4, <1>8, <1>10, <1>12 DEF Heaps, With
  <2>3. Walks' /\ Belongs' /\ Inserting(t2)'
    BY <1>9, WalkOver
  <2>. QED  BY <1>8, <2>1, <2>2, <2>3 DEF TreeInv
<1>13. CASE Grow(n, grown)
  <2>. DEFINE f == fresh
              s == walk.slot
              ms == With(Without(nodes, n), f, grown)
  <2>1. /\ DOMAIN ms = (DOMAIN nodes \ {n}) \union {f} /\ ms[f] = grown
        /\ \A m \in DOMAIN nodes \ {n} : ms[m] = nodes[m]
        /\ \A m \in DOMAIN ms : IsNode(ms[m]) /\ DOMAIN ms[m].child \subseteq Bytes
    BY <1>8, <1>10 DEF With, Without
  <2>2. Heap(ms, s, Address(f)) /\ fresh' = f + 1
    BY <1>13 DEF Grow
  <2>. HIDE DEF ms
  <2>3. /\ \A m \in DOMAIN nodes : \A b \in DOMAIN nodes[m].child :
              /\ s # <<m, b>> => nodes[m].child[b] # Here
              /\ s = <<m, b>> => nodes[m].child[b] = Here /\ d = Full(t, m) + 1
        /\ s # Root => tree # Here
        /\ s = Root => tree = Here
    <3>1. Stands(t, s, d, KeyOf[v])
      BY <1>3
    <3>. HIDE DEF s
    <3>2. /\ \A m \in DOMAIN t.nodes : \A b \in DOMAIN t.nodes[m].child :
              /\ s # <<m, b>> => t.nodes[m].child[b] # PointsTo(t, s)
              /\ s = <<m, b>> => t.nodes[m].child[b] = PointsTo(t, s) /\ d = Full(t, m) + 1
          /\ s # Root => t.top # PointsTo(t, s)
          /\ s = Root => t.top = PointsTo(t, s)
      BY <1>3, <3>1, OnlySlot
    <3>. QED  BY <1>3, <3>2 DEF s
  <2>4. s = Root \/ \E m \in DOMAIN ms : \E b \in DOMAIN ms[m].child : s = <<m, b>>
    <3>1. CASE s = Root
      BY <3>1
    <3>2. ASSUME NEW m \in DOMAIN t.nodes, NEW b \in DOMAIN t.nodes[m].child, s = <<m, b>>
          PROVE  \E k \in DOMAIN ms : \E c \in DOMAIN ms[k].child : s = <<k, c>>
      <4>1. m # n
        <5>1. d = Full(t, m) + 1 /\ t.from[m] <= Full(t, m) /\ Full(t, m) \in Nat /\ t.from[m] \in Nat
          <6>1. d = Full(t, m) + 1
            <7>. HIDE DEF s
            <7>. QED  BY <1>3, <2>3, <3>2
          <6>. QED  BY <1>3, <6>1, NodeTypes
        <5>. QED  BY <1>4, <5>1
      <4>. QED  BY <1>3, <2>1, <3>2, <4>1
    <3>. QED  BY <1>3, <3>1, <3>2 DEF Stands
  <2>5. /\ DOMAIN nodes' = DOMAIN ms
        /\ tree' = IF s = Root THEN Address(f) ELSE tree
        /\ \A m \in DOMAIN ms : Written(ms, m, s, Address(f))
    <3>. HIDE DEF s, f
    <3>. QED  BY <2>1, <2>2, <2>4, HeapWrites
  <2>6. \A b : s # <<f, b>>
    <3>1. f \notin DOMAIN t.nodes
      BY <1>3, <1>10
    <3>. HIDE DEF s, f
    <3>2. ASSUME NEW b, s = <<f, b>> PROVE FALSE
      <4>1. CASE s = Root
        BY <3>2, <4>1 DEF Root
      <4>2. ASSUME NEW m \in DOMAIN t.nodes, NEW c, s = <<m, c>> PROVE FALSE
        BY <3>1, <3>2, <4>2
      <4>3. s = Root \/ \E m \in DOMAIN t.nodes : \E c : s = <<m, c>>
        BY <1>3 DEF Stands, s
      <4>. QED  BY <4>1, <4>2, <4>3
    <3>. QED  BY <3>2
  <2>7. nodes'[f] = grown
    <3>. HIDE DEF s
    <3>. QED  BY <2>1, <2>5, <2>6 DEF Written
  <2>8. Heaps'
    <3>1. \A m \in DOMAIN nodes' : IsNode(nodes'[m]) /\ DOMAIN nodes'[m].child \subseteq Bytes
      <4>. HIDE DEF s, f
      <4>. QED  BY <2>1, <2>5 DEF Written
    <3>2. fresh' \in Nat \ {0} /\ DOMAIN nodes' \subseteq 1..(fresh' - 1)
      BY <1>10, <2>1, <2>2, <2>5
    <3>. QED  BY <3>1, <3>2 DEF Heaps
  <2>9. PICK t3 : t3 = [nodes |-> nodes', top |-> tree', stored |-> stored \union {v},
                        from |-> [m \in DOMAIN nodes' |-> IF m = f THEN t.from[n] ELSE t.from[m]],
                        under |-> [m \in DOMAIN nodes' |-> IF m = f THEN t.under[n] ELSE t.under[m]],
                        depth |-> t2.depth]
    OBVIOUS
  <2>10. \A m \in DOMAIN t2.nodes : IsMoved(t2, t3, n, f, m, Moved(n, f, m))
    <3>1. ASSUME NEW m \in DOMAIN t2.nodes PROVE IsMoved(t2, t3, n, f, m, Moved(n, f, m))
      <4>1. t2.from = t.from /\ t2.under = t.under /\ t2.nodes = With(nodes, n, grown)
        BY <1>7
      <4>2. t3.nodes = nodes' /\ f \in DOMAIN nodes'
        BY <2>1, <2>5, <2>9
      <4>3. CASE m = n
        <5>1. t2.nodes[m] = grown /\ Moved(n, f, m) = f
          BY <1>4, <4>1, <4>3 DEF With, Moved
        <5>2. t3.from[f] = t2.from[m] /\ t3.under[f] = t2.under[m] /\ t3.nodes[f] = grown
          BY <2>7, <2>9, <4>1, <4>2, <4>3
        <5>3. \A b \in DOMAIN grown.child : grown.child[b] = Redirected(n, f, grown.child[b])
          BY <1>4, <1>8 DEF Redirected
        <5>. HIDE DEF f
        <5>. QED  BY <5>1, <5>2, <5>3 DEF IsMoved
      <4>4. CASE m # n
        <5>1. m \in DOMAIN nodes \ {n} /\ t2.nodes[m] = nodes[m] /\ Moved(n, f, m) = m /\ m # f
          BY <1>4, <1>10, <4>1, <4>4 DEF With, Moved
        <5>2. m \in DOMAIN nodes' /\ ms[m] = nodes[m] /\ Written(ms, m, s, Address(f))
          BY <2>1, <2>5, <5>1
        <5>3. t3.from[m] = t2.from[m] /\ t3.under[m] = t2.under[m]
          BY <2>9, <4>1, <5>1, <5>2
        <5>4. \A b \in DOMAIN nodes[m].child :
                 (IF s = <<m, b>> THEN Address(f) ELSE nodes[m].child[b]) = Redirected(n, f, nodes[m].child[b])
          <6>. HIDE DEF s, f
          <6>. QED  BY <1>4, <2>3, <5>1 DEF Redirected
        <5>. HIDE DEF s, f
        <5>. QED  BY <4>2, <5>1, <5>2, <5>3, <5>4 DEF IsMoved, Written
      <4>. QED  BY <4>3, <4>4
    <3>. QED  BY <3>1
  <2>11. Renamed(t2, t3, n, f)
    <3>1. n \in DOMAIN t2.nodes /\ DOMAIN t2.nodes = DOMAIN nodes /\ t2.stored = stored \union {v} /\ t2.top = tree
      BY <1>4, <1>7 DEF With
    <3>2. f \in Nat \ {0} /\ f \notin DOMAIN t2.nodes
      BY <1>10, <3>1
    <3>3. DOMAIN t3.nodes = (DOMAIN t2.nodes \ {n}) \union {f} /\ t3.stored = t2.stored /\ t3.depth = t2.depth
      BY <2>1, <2>5, <2>9, <3>1
    <3>4. t3.top = Redirected(n, f, t2.top)
      <4>. HIDE DEF s, f
      <4>. QED  BY <1>4, <2>3, <2>5, <2>9, <3>1 DEF Redirected
    <3>. HIDE DEF f
    <3>. QED  BY <2>10, <3>1, <3>2, <3>3, <3>4 DEF Renamed
  <2>12. IsTree(t3)
    <3>. HIDE DEF f
    <3>. QED  BY <1>3, <1>8, <2>11, RenameTree
  <2>13. IsState(t3)'
    BY <1>9, <2>9 DEF IsState
  <2>14. Walks' /\ Belongs' /\ Inserting(t3)'
    BY <1>9, WalkOver
  <2>. QED  BY <2>8, <2>12, <2>13, <2>14 DEF TreeInv
<1>. QED  BY <1>11, <1>12, <1>13

\* A prefix of which a part is read back is no longer than the key.
LEMMA LongPrefix ==
    ASSUME KeyHypotheses, NEW t, NEW v, NEW d, InsertFacts(t, v, d), NEW n \in DOMAIN t.nodes,
           t.nodes[n].prefixLength >= MaxPrefixLength
    PROVE  Full(t, n) <= Len(KeyOf[v])
<1>1. StoreGivesKeys /\ IsTree(t) /\ TreeTypes(t) /\ t.stored \subseteq LeafValues
  BY InsertBasics
<1>2. Full(t, n) \in Nat /\ t.from[n] \in Nat /\ t.nodes[n].prefixLength \in Nat
  BY <1>1, NodeTypes
<1>3. Full(t, n) >= MaxPrefixLength
  BY <1>2, TreeAssumption DEF Full
<1>4. Branches(t, n)
  BY <1>1 DEF IsTree
<1>5. PICK u, w \in t.stored : /\ Passes(t, n, KeyOf[u]) /\ Passes(t, n, KeyOf[w])
                               /\ NextOf(t, n, KeyOf[u]) # NextOf(t, n, KeyOf[w])
  BY <1>4 DEF Branches
<1>6. u # w /\ Same(KeyOf[u], KeyOf[w], Full(t, n))
  <2>1. u \in LeafValues /\ w \in LeafValues
    BY <1>1
  <2>. QED  BY <1>1, <1>5, <2>1, PassTogether
<1>. QED  BY <1>2, <1>3, <1>6 DEF InsertFacts

\* Node n, whose prefix is broken after m bytes, keeps the rest.
Rests(n, u, v, m, minKey, after, lower) ==
    /\ m # nodes[n].prefixLength /\ minKey = LoadKey(u, Len(KeyOf[v]), after)
    /\ lower = Node(nodes[n].prefixLength - (m + 1), RestOfPrefix(nodes[n], minKey, m), nodes[n].child)

RestIsKept(t, n, u, d, m, minKey, lower) ==
    /\ KeepsFrom(lower, t.under[n], d + m + 1)
    /\ ByteAfterPrefix(nodes[n], minKey, m) = KeyOf[u][d + m + 1]

\* What is left of a prefix behind the byte at which it is broken.
LEMMA PrefixRest ==
    ASSUME KeyHypotheses, NEW t, NEW v, NEW d, InsertFacts(t, v, d), NEW n, NEW u, AtNode(t, v, d, n, u),
           NEW m, PartsAt(u, v, d, m, nodes[n].prefixLength),
           NEW minKey, NEW after, NEW lower, Rests(n, u, v, m, minKey, after, lower)
    PROVE  RestIsKept(t, n, u, d, m, minKey, lower)
<1>. USE DEF Rests, RestIsKept
<1>. DEFINE pl == nodes[n].prefixLength
            node == nodes[n]
            rest == pl - (m + 1)
            U == KeyOf[u]
            W == KeyOf[t.under[n]]
            L == Len(KeyOf[v])
            e == d + m + 1
<1>1. /\ StoreGivesKeys /\ IsTree(t) /\ TreeTypes(t) /\ t.nodes = nodes /\ t.stored \subseteq LeafValues
      /\ v \in LeafValues /\ d = walk.depth /\ d \in Nat /\ L \in Nat
  BY InsertBasics
<1>2. n \in DOMAIN t.nodes /\ t.from[n] = d /\ u \in t.stored /\ u \in LeafValues /\ Passes(t, n, U)
  BY <1>1 DEF AtNode
<1>3. pl \in Nat /\ Full(t, n) = d + pl /\ t.under[n] \in LeafValues
  BY <1>1, <1>2, NodeTypes DEF Full
<1>4. Keeps(t, n) /\ MaxPrefixLength \in Nat
  BY <1>1, <1>2, TreeAssumption DEF IsTree
<1>5. U \in Seq(Nat) /\ W \in Seq(Nat) /\ Len(U) \in Nat /\ LeafKey[u] = U
  BY <1>1, <1>2, <1>3, KeyTypes DEF StoreGivesKeys
<1>6. m \in Nat /\ m < pl
  BY <1>3 DEF PartsAt
<1>7. rest \in Nat /\ rest <= pl /\ e \in Nat /\ e = d + (m + 1) /\ e + rest = d + pl /\ m + 1 \in 1..pl
  <2>1. d \in Nat /\ pl \in Nat
    BY <1>1, <1>3
  <2>. HIDE DEF pl
  <2>. QED  BY ONLY <1>6, <2>1
<1>8. d + pl <= Len(U) /\ \A j \in 1..(d + pl) : U[j] = W[j]
  BY <1>2, <1>3 DEF Passes, Same
<1>9. lower.prefix = RestOfPrefix(node, minKey, m) /\ lower.prefixLength = rest
  BY DEF Node
<1>. HIDE DEF U, W, L, pl, rest, e
<1>10. CASE pl < MaxPrefixLength
  <2>1. Len(node.prefix) = pl /\ Least(rest, MaxPrefixLength) = rest /\ node.prefix \in Seq(Bytes)
    BY <1>1, <1>4, <1>7, <1>10, <1>3 DEF Keeps, Least, pl
  <2>2. \A i \in 1..pl : node.prefix[i] = W[d + i]
    BY <1>1, <1>2, <1>4, <2>1 DEF Keeps, W
  <2>3. ByteAfterPrefix(node, minKey, m) = U[e]
    <3>1. ByteAfterPrefix(node, minKey, m) = node.prefix[m + 1]
      BY <1>10 DEF ByteAfterPrefix, pl
    <3>2. e \in 1..(d + pl)
      BY <1>1, <1>3, <1>7
    <3>. QED  BY <1>7, <1>8, <2>2, <3>1, <3>2
  <2>4. lower.prefix = SubSeq(node.prefix, m + 2, pl)
    BY <1>9, <1>10 DEF RestOfPrefix, pl
  <2>5. /\ SubSeq(node.prefix, m + 2, pl) \in Seq(Bytes)
        /\ Len(SubSeq(node.prefix, m + 2, pl)) = pl - (m + 2) + 1
        /\ \A i \in 1..(pl - (m + 2) + 1) : SubSeq(node.prefix, m + 2, pl)[i] = node.prefix[m + 2 + i - 1]
    <3>. DEFINE s == node.prefix
    <3>1. s \in Seq(Bytes) /\ Len(s) = pl
      BY <2>1
    <3>. HIDE DEF s
    <3>2. m + 2 \in 1..(Len(s) + 1) /\ pl \in (m + 2 - 1)..Len(s)
      BY ONLY <1>3, <1>6, <3>1
    <3>3. /\ SubSeq(s, m + 2, pl) \in Seq(Bytes)
          /\ Len(SubSeq(s, m + 2, pl)) = pl - (m + 2) + 1
          /\ \A i \in 1..(pl - (m + 2) + 1) : SubSeq(s, m + 2, pl)[i] = s[m + 2 + i - 1]
      BY ONLY <1>3, <1>6, <3>1, <3>2
    <3>. QED  BY <3>3 DEF s
  <2>6. pl - (m + 2) + 1 = rest
    BY <1>3, <1>6 DEF rest
  <2>7. ASSUME NEW i \in 1..rest
        PROVE  lower.prefix[i] = W[e + i]
    <3>1. m + 1 + i \in 1..pl /\ m + 2 + i - 1 = m + 1 + i /\ d + (m + 1 + i) = e + i
      BY ONLY <1>1, <1>3, <1>6, <1>7, <2>6, <2>7
    <3>. QED  BY <2>2, <2>4, <2>5, <2>6, <3>1
  <2>8. KeepsFrom(lower, t.under[n], e)
    BY <1>9, <2>1, <2>4, <2>5, <2>6, <2>7 DEF KeepsFrom, W
  <2>. QED  BY <2>3, <2>8 DEF U, e
<1>11. CASE ~(pl < MaxPrefixLength)
  <2>. DEFINE k == Least(rest, MaxPrefixLength)
  <2>1. k \in Nat /\ k <= rest
    BY <1>4, <1>7 DEF Least
  <2>2. d + pl <= L
    <3>1. t.nodes[n].prefixLength >= MaxPrefixLength
      BY <1>1, <1>3, <1>4, <1>11 DEF pl
    <3>. QED  BY <1>2, <1>3, <3>1, LongPrefix DEF L
  <2>3. ASSUME NEW j \in 1..(d + pl)
        PROVE  ByteAt(minKey, j) = U[j]
    <3>1. j \in 1..L /\ j <= L /\ j <= Len(U)
      BY ONLY <1>1, <1>3, <1>5, <1>8, <2>2, <2>3
    <3>2. minKey.bytes = [i \in 1..L |-> IF i <= Len(U) THEN U[i] ELSE 0]
      BY <1>5 DEF LoadKey, L
    <3>3. Len(minKey.bytes) = L
      BY <1>1, <3>2
    <3>. QED  BY <3>1, <3>2, <3>3 DEF ByteAt
  <2>. HIDE DEF k
  <2>4. ByteAfterPrefix(node, minKey, m) = U[e]
    <3>1. ByteAfterPrefix(node, minKey, m) = ByteAt(minKey, e)
      BY <1>1, <1>11 DEF ByteAfterPrefix, pl, e
    <3>2. e \in 1..(d + pl)
      BY <1>1, <1>3, <1>7
    <3>. QED  BY <2>3, <3>1, <3>2
  <2>5. \A i \in 1..k : e + i \in 1..(d + pl)
    BY ONLY <1>1, <1>3, <1>7, <2>1
  <2>6. ReadsAs(minKey, u, e, k)
    <3>1. e + k <= Len(U)
      BY ONLY <1>1, <1>3, <1>5, <1>7, <1>8, <2>1
    <3>. QED  BY <2>3, <2>5, <3>1 DEF ReadsAs, U
  <2>7. IsPart(Slice(minKey, e, k), u, e, k)
    BY <1>1, <1>2, <1>7, <2>1, <2>6, SliceKeeps
  <2>8. lower.prefix = Slice(minKey, e, k)
    BY <1>1, <1>9, <1>11 DEF RestOfPrefix, pl, e, k, rest
  <2>9. \A i \in 1..k : lower.prefix[i] = W[e + i]
    BY <1>8, <2>5, <2>7, <2>8 DEF IsPart, U
  <2>10. KeepsFrom(lower, t.under[n], e)
    BY <1>9, <2>7, <2>8, <2>9 DEF KeepsFrom, IsPart, W, k
  <2>. QED  BY <2>4, <2>10 DEF U, e
<1>. QED  BY <1>10, <1>11

LEMMA BreakPrefixStep ==
    ASSUME KeyHypotheses, TreeInv, BreakPrefix, UNCHANGED family
    PROVE  TreeInv'
<1>1. PICK t, v, d : InsertFacts(t, v, d)
  BY InsertKnows DEF BreakPrefix
<1>2. PICK n, u : AtNode(t, v, d, n, u)
  BY <1>1, InsertAtNode DEF BreakPrefix
<1>. DEFINE K == KeyOf[v]
            L == Len(K)
            pl == nodes[n].prefixLength
<1>3. /\ StoreGivesKeys /\ v = walk.leaf /\ d = walk.depth /\ d \in Nat
      /\ IsTree(t) /\ TreeTypes(t) /\ t.nodes = nodes /\ t.stored \subseteq LeafValues
      /\ v \in LeafValues /\ v \notin t.stored /\ walk.key.bytes = K /\ KeyLength = L /\ L \in Nat
      /\ Stands(t, walk.slot, d, K) /\ Here = PointsTo(t, walk.slot)
  BY <1>1, InsertBasics
<1>4. /\ n \in DOMAIN nodes /\ n = Here \div 2 /\ Here = Address(n) /\ t.from[n] = d
      /\ u \in t.stored /\ Minimum(Here) = MakeLeaf(u) /\ LeadsTo(t, Here, u, d) /\ Passes(t, n, KeyOf[u])
  BY <1>2, <1>3 DEF AtNode
<1>5. u \in LeafValues /\ GetLeafValue(Minimum(Here)) = u
  <2>1. u \in LeafValues
    BY <1>3, <1>4
  <2>. QED  BY <1>3, <1>4, <2>1, Tagged
<1>6. pl \in Nat /\ Full(t, n) = d + pl /\ t.under[n] \in LeafValues
  BY <1>3, <1>4, NodeTypes DEF Full
<1>7. PICK after \in Bytes :
       LET depth    == walk.depth
           node     == NodeAt(Here)
           mismatch == PrefixMismatch(Here, walk.key, depth, KeyLength, after)
           minKey   == LoadKey(GetLeafValue(Minimum(Here)), KeyLength, after)
           lower    == Node(node.prefixLength - (mismatch + 1),
                            RestOfPrefix(node, minKey, mismatch), node.child)
           upper    == Node(mismatch,
                            SubSeq(node.prefix, 1, Least(mismatch, MaxPrefixLength)),
                            Pair(ByteAfterPrefix(node, minKey, mismatch), Here,
                                 ByteAt(walk.key, depth + mismatch + 1), MakeLeaf(walk.leaf)))
       IN  /\ mismatch # node.prefixLength
           /\ Heap(With(With(nodes, Here \div 2, lower), fresh, upper), walk.slot, Address(fresh))
  BY DEF BreakPrefix
<1>8. PICK m : m = PrefixMismatch(Here, walk.key, walk.depth, KeyLength, after)
  OBVIOUS
<1>9. PICK minKey : minKey = LoadKey(u, L, after)
  OBVIOUS
<1>10. PICK lower : lower = Node(pl - (m + 1), RestOfPrefix(nodes[n], minKey, m), nodes[n].child)
  OBVIOUS
<1>11. PICK upper : upper = Node(m, SubSeq(nodes[n].prefix, 1, Least(m, MaxPrefixLength)),
                                 Pair(ByteAfterPrefix(nodes[n], minKey, m), Here,
                                      ByteAt(walk.key, d + m + 1), MakeLeaf(v)))
  OBVIOUS
<1>12. PICK ns : ns = With(nodes, n, lower)
  OBVIOUS
<1>13. m # pl /\ Heap(With(ns, fresh, upper), walk.slot, Address(fresh))
  BY <1>3, <1>4, <1>5, <1>7, <1>8, <1>9, <1>10, <1>11, <1>12 DEF NodeAt
<1>14. PartsAt(u, v, d, m, pl)
  <2>1. \A a : PartsAt(u, v, d, PrefixMismatch(Here, walk.key, walk.depth, KeyLength, a), pl)
    BY <1>1, <1>2, NodeMismatch
  <2>. QED  BY <1>8, <2>1
<1>15. /\ m \in Nat /\ m < pl /\ Same(KeyOf[u], K, d + m) /\ d + m < Len(KeyOf[u]) /\ d + m < L
       /\ KeyOf[u][d + m + 1] # K[d + m + 1]
  BY <1>6, <1>13, <1>14 DEF PartsAt
<1>16. KeepsFrom(lower, t.under[n], d + m + 1) /\ ByteAfterPrefix(nodes[n], minKey, m) = KeyOf[u][d + m + 1]
  <2>1. PartsAt(u, v, d, m, nodes[n].prefixLength)
    BY <1>14
  <2>2. Rests(n, u, v, m, minKey, after, lower)
    BY <1>9, <1>10, <1>13 DEF Rests
  <2>3. RestIsKept(t, n, u, d, m, minKey, lower)
    BY ONLY KeyHypotheses, <1>1, <1>2, <2>1, <2>2, PrefixRest
  <2>. QED  BY <2>3 DEF RestIsKept
<1>. HIDE DEF L, pl
<1>17. ForksOff(t, walk.slot, d, v, u, m)
  <2>1. ASSUME NEW k \in DOMAIN t.nodes, PointsTo(t, walk.slot) = Address(k)
        PROVE  d + m < Full(t, k)
    <3>1. k \in Nat /\ n \in Nat
      BY <1>3, <1>4 DEF TreeTypes
    <3>2. k = n
      BY <1>3, <1>4, <2>1, <3>1, Addresses
    <3>. QED  BY <1>3, <1>6, <1>15, <3>2
  <2>. QED  BY <1>3, <1>4, <1>15, <2>1 DEF ForksOff, L
<1>18. Cut(t, ns, d + m + 1)
  <2>1. \A k \in DOMAIN nodes : IsNode(nodes[k]) /\ k \in Nat
    BY DEF TreeInv, Heaps
  <2>2. /\ DOMAIN ns = DOMAIN nodes /\ ns[n] = lower /\ \A k \in DOMAIN nodes : k # n => ns[k] = nodes[k]
    BY <1>4, <1>12 DEF With
  <2>3. IsNode(lower) /\ lower.child = nodes[n].child /\ lower.prefixLength = pl - (m + 1)
    BY <1>10 DEF Node, IsNode
  <2>4. pl - (m + 1) \in Nat /\ (d + m + 1) + (pl - (m + 1)) = d + pl
    BY <1>3, <1>6, <1>15
  <2>5. \A k \in DOMAIN nodes : Here = Address(k) => k = n
    BY <1>4, <2>1, Addresses
  <2>6. \A k \in DOMAIN nodes : Here # Address(k) => k # n
    BY <1>4
  <2>7. \A k \in DOMAIN nodes : IsNode(ns[k]) /\ ns[k].child = nodes[k].child
    BY <2>1, <2>2, <2>3
  <2>8. lower.prefixLength \in Nat /\ d + m + 1 + lower.prefixLength = Full(t, n)
    BY <1>6, <2>3, <2>4
  <2>. QED  BY <1>16, <2>2, <2>5, <2>6, <2>7, <2>8 DEF Cut
<1>19. Fork(upper, d, v, u, m)
  <2>1. upper.prefixLength = m /\ IsNode(upper) /\ upper.prefix = SubSeq(nodes[n].prefix, 1, Least(m, MaxPrefixLength))
    BY <1>11 DEF Node, IsNode
  <2>2. upper.child = [b \in {KeyOf[u][d + m + 1], K[d + m + 1]} |-> IF b = K[d + m + 1] THEN MakeLeaf(v) ELSE Here]
    <3>1. ByteAt(walk.key, d + m + 1) = K[d + m + 1]
      BY <1>3, <1>15 DEF ByteAt, L
    <3>. QED  BY <1>11, <1>16, <3>1 DEF Node, Pair
  <2>3. KeepsFrom(upper, v, d)
    <3>. DEFINE k == Least(m, MaxPrefixLength)
                s == nodes[n].prefix
    <3>1. MaxPrefixLength \in Nat /\ Keeps(t, n)
      BY <1>3, <1>4, TreeAssumption DEF IsTree
    <3>2. k \in Nat /\ k <= m /\ s \in Seq(Bytes) /\ k <= Len(s)
      <4>1. m \in Nat /\ m < nodes[n].prefixLength /\ nodes[n].prefixLength \in Nat
        BY <1>3, <1>6, <1>15 DEF pl
      <4>2. s \in Seq(Bytes) /\ Len(s) = Least(nodes[n].prefixLength, MaxPrefixLength)
        BY <1>3, <3>1 DEF Keeps
      <4>3. k \in Nat /\ k <= m /\ k <= Least(nodes[n].prefixLength, MaxPrefixLength)
        BY ONLY <3>1, <4>1 DEF Least
      <4>. HIDE DEF k, s
      <4>. QED  BY ONLY <4>2, <4>3
    <3>3. \A i \in 1..Len(s) : s[i] = KeyOf[t.under[n]][d + i]
      <4>1. t.from[n] = d /\ t.nodes[n].prefix = s
        BY <1>3, <1>4
      <4>. HIDE DEF s
      <4>. QED  BY ONLY <3>1, <4>1 DEF Keeps
    <3>4. \A i \in 1..(d + pl) : KeyOf[u][i] = KeyOf[t.under[n]][i]
      BY <1>4, <1>6 DEF Passes, Same
    <3>5. \A i \in 1..(d + m) : KeyOf[u][i] = K[i]
      BY <1>15 DEF Same
    <3>. HIDE DEF k, s
    <3>6. \A i \in 1..k : i \in 1..Len(s) /\ d + i \in 1..(d + pl) /\ d + i \in 1..(d + m)
      <4>1. Len(s) \in Nat
        BY <3>2
      <4>2. d \in Nat /\ m \in Nat /\ pl \in Nat /\ m < pl
        BY <1>3, <1>6, <1>15
      <4>3. k \in Nat /\ k <= m /\ k <= Len(s)
        BY <3>2
      <4>. QED  BY ONLY <4>1, <4>2, <4>3
    <3>7. \A i \in 1..k : s[i] = K[d + i]
      <4>. DEFINE W == KeyOf[t.under[n]]
                  U == KeyOf[u]
      <4>1. /\ \A i \in 1..Len(s) : s[i] = W[d + i]
            /\ \A i \in 1..(d + pl) : U[i] = W[i]
            /\ \A i \in 1..(d + m) : U[i] = K[i]
        BY <3>3, <3>4, <3>5
      <4>. HIDE DEF K, W, U
      <4>. QED  BY ONLY <3>6, <4>1
    <3>8. SubSeq(s, 1, k) \in Seq(Bytes) /\ Len(SubSeq(s, 1, k)) = k /\ \A i \in 1..k : SubSeq(s, 1, k)[i] = s[i]
      BY ONLY <3>2
    <3>. QED  BY <2>1, <3>7, <3>8 DEF KeepsFrom, k, s
  <2>. QED  BY <2>1, <2>2, <2>3 DEF Fork
<1>20. walk.op = "insert" /\ fresh' = fresh + 1 /\ Inserted
  BY DEF BreakPrefix
<1>. QED  BY <1>1, <1>4, <1>13, <1>15, <1>17, <1>18, <1>19, <1>20, ForkStep

-----------------------------------------------------------------------------
(* Calls and lookups.                                                      *)

LEMMA StartsWell ==
    ASSUME KeyHypotheses, Init
    PROVE  TreeInv
<1>1. /\ family \in Families /\ nodes = [n \in {} |-> Null] /\ tree = Null /\ fresh = 1
      /\ walk = Idle /\ stored = {}
  BY DEF Init
<1>2. DOMAIN nodes = {}
  BY <1>1
<1>3. Heaps /\ Walks /\ Belongs
  BY <1>1, <1>2 DEF Heaps, Walks, Belongs, Idle, Root
<1>4. PICK t : t = [nodes |-> nodes, top |-> tree, stored |-> stored,
                    from |-> nodes, under |-> nodes, depth |-> nodes]
  OBVIOUS
<1>5. IsState(t) /\ Inserting(t)
  BY <1>1, <1>4 DEF IsState, Inserting, Idle
<1>6. t.nodes = nodes /\ t.stored = {} /\ t.top = Null
  BY <1>1, <1>4
<1>7. IsTree(t)
  BY <1>2, <1>6 DEF IsTree, TreeTypes, TreeNests
<1>. QED  BY <1>3, <1>5, <1>7 DEF TreeInv

\* A walk that is not for an insertion may stand at any node.
LEMMA WalkElsewhere ==
    ASSUME TreeInv, UNCHANGED <<family, nodes, tree, fresh, stored>>, walk'.op # "insert", Walks'
    PROVE  TreeInv'
<1>1. PICK t : IsState(t) /\ IsTree(t)
  BY DEF TreeInv
<1>2. Heaps' /\ Belongs'
  BY DEF TreeInv, Heaps, Belongs
<1>3. IsState(t)' /\ Inserting(t)'
  BY <1>1 DEF IsState, Inserting
<1>. QED  BY <1>1, <1>2, <1>3 DEF TreeInv

LEMMA CallStep ==
    ASSUME KeyHypotheses, TreeInv, Calls, UNCHANGED family
    PROVE  TreeInv'
<1>1. ASSUME NEW op, NEW bytes, NEW leaf, Call(op, bytes, leaf)
      PROVE  /\ walk'.op = op /\ walk'.leaf = leaf /\ walk'.key.bytes = bytes
             /\ walk'.depth = 0 /\ walk'.slot = Root /\ DOMAIN walk' = DOMAIN Idle
             /\ UNCHANGED <<nodes, tree, fresh, stored>>
  <2>1. PICK after : walk' = [Idle EXCEPT !.op = op, !.leaf = leaf, !.key = [bytes |-> bytes, after |-> after]]
    BY <1>1 DEF Call
  <2>2. UNCHANGED <<nodes, tree, fresh, stored>>
    BY <1>1 DEF Call
  <2>. QED  BY <2>1, <2>2 DEF Idle
<1>2. DOMAIN Idle' = DOMAIN Idle /\ Root' = Root
  BY DEF Idle, Root
<1>3. ASSUME NEW key, Lookup(key) \/ RangeLookup(key)
      PROVE  TreeInv'
  <2>1. /\ walk'.op \in {"lookup", "prefix"} /\ walk'.slot = Root /\ DOMAIN walk' = DOMAIN Idle
        /\ UNCHANGED <<nodes, tree, fresh, stored>>
    BY <1>1, <1>3 DEF Lookup, RangeLookup
  <2>2. Walks' /\ walk'.op # "insert"
    BY <1>2, <2>1 DEF Walks
  <2>. QED  BY <2>1, <2>2, WalkElsewhere
<1>4. ASSUME NEW v \in LeafValues, Insert(v)
      PROVE  TreeInv'
  <2>1. PICK t : IsState(t) /\ IsTree(t)
    BY DEF TreeInv
  <2>2. /\ walk'.op = "insert" /\ walk'.leaf = v /\ walk'.key.bytes = KeyOf[v]
        /\ walk'.depth = 0 /\ walk'.slot = Root /\ DOMAIN walk' = DOMAIN Idle
        /\ UNCHANGED <<nodes, tree, fresh, stored>>
        /\ v \in family.leafValues \ stored
        /\ \A w \in stored : ComesAfter(family, v, w)
    BY <1>1, <1>4 DEF Insert, ComesAfter
  <2>3. Heaps' /\ Belongs' /\ Walks'
    BY <1>2, <2>2 DEF TreeInv, Heaps, Belongs, Walks
  <2>4. IsState(t)'
    BY <2>1, <2>2 DEF IsState
  <2>5. Inserting(t)'
    <3>1. Stands(t, walk'.slot, walk'.depth, KeyOf[walk'.leaf])
      BY <2>2 DEF Stands
    <3>2. /\ walk'.leaf \in family'.leafValues \ stored' /\ walk'.key.bytes = KeyOf[walk'.leaf]
          /\ \A w \in stored' : ComesAfter(family', walk'.leaf, w)
      BY <2>2
    <3>. QED  BY <3>1, <3>2 DEF Inserting
  <2>. QED  BY <2>1, <2>3, <2>4, <2>5 DEF TreeInv
<1>. QED  BY <1>3, <1>4 DEF Calls

\* What a walk stands at is a node of the tree, or a leaf or nothing.
LEMMA HereIsThere ==
    ASSUME KeyHypotheses, TreeInv, Here # Null, ~IsLeaf(Here)
    PROVE  Here \div 2 \in DOMAIN nodes
<1>1. PICK t : IsState(t) /\ IsTree(t)
  BY DEF TreeInv
<1>2. StoreGivesKeys /\ TreeTypes(t) /\ t.nodes = nodes /\ t.top = tree
  BY <1>1 DEF KeyHypotheses, IsState, IsTree
<1>3. \E w \in t.stored, d \in Nat : LeadsTo(t, Here, w, d)
  <2>1. CASE walk.slot = Root
    <3>1. Here = tree
      BY <2>1 DEF Here, At
    <3>2. PICK w \in t.stored : LeadsTo(t, t.top, w, 0)
      BY <1>1, <1>2, <3>1 DEF IsTree
    <3>. QED  BY <1>2, <3>1, <3>2
  <2>2. ASSUME NEW n \in DOMAIN nodes, NEW b, walk.slot = <<n, b>>
        PROVE  \E w \in t.stored, d \in Nat : LeadsTo(t, Here, w, d)
    <3>1. walk.slot # Root /\ walk.slot[1] = n /\ walk.slot[2] = b
      BY <2>2 DEF Root
    <3>2. b \in DOMAIN t.nodes[n].child /\ Here = t.nodes[n].child[b]
      BY <1>2, <3>1 DEF Here, At, FindChild
    <3>3. PICK w \in t.stored : LeadsTo(t, t.nodes[n].child[b], w, Full(t, n) + 1)
      BY <1>1, <1>2, <3>2, ChildLeads
    <3>4. Full(t, n) + 1 \in Nat
      BY <1>2, NodeTypes
    <3>. QED  BY <3>2, <3>3, <3>4
  <2>. QED  BY <2>1, <2>2 DEF TreeInv, Walks
<1>4. PICK w \in t.stored, d \in Nat : LeadsTo(t, Here, w, d)
  BY <1>3
<1>. DEFINE ref == Here
<1>5. LeadsTo(t, ref, w, d) /\ ~IsLeaf(ref)
  BY <1>4
<1>. HIDE DEF ref
<1>6. ref \div 2 \in DOMAIN t.nodes
  BY <1>2, <1>5, LeadsSomewhere
<1>. QED  BY <1>2, <1>6 DEF ref

\* A lookup goes one node down or is over.
LEMMA LookupWalks ==
    ASSUME KeyHypotheses, TreeInv, walk.op \in {"lookup", "prefix"}, UNCHANGED <<family, nodes, tree, fresh, stored>>,
           walk' = Idle \/ (Here # Null /\ ~IsLeaf(Here) /\ \E skipped : Step(skipped))
    PROVE  TreeInv'
<1>1. DOMAIN Idle' = DOMAIN Idle /\ Root' = Root
  BY DEF Idle, Root
<1>2. CASE walk' = Idle
  <2>1. walk'.op = "idle" /\ walk'.slot = Root
    BY <1>2 DEF Idle
  <2>2. Walks'
    BY <1>1, <1>2, <2>1 DEF Walks
  <2>. QED  BY <2>1, <2>2, WalkElsewhere
<1>3. ASSUME Here # Null, ~IsLeaf(Here), NEW skipped, Step(skipped)
      PROVE  TreeInv'
  <2>1. Here \div 2 \in DOMAIN nodes
    BY <1>3, HereIsThere
  <2>2. DOMAIN walk = {"op", "key", "depth", "leaf", "skipped", "slot"}
    BY DEF TreeInv, Walks, Idle
  <2>3. PICK e, b, c : walk' = [walk EXCEPT !.depth = e, !.slot = <<Here \div 2, b>>, !.skipped = c]
    BY <1>3 DEF Step
  <2>4. walk'.op = walk.op /\ DOMAIN walk' = DOMAIN walk /\ walk'.slot = <<Here \div 2, b>>
    BY <2>2, <2>3
  <2>5. Walks'
    <3>1. DOMAIN walk = DOMAIN Idle
      BY DEF TreeInv, Walks
    <3>. QED  BY <1>1, <2>1, <2>4, <3>1 DEF Walks
  <2>. QED  BY <2>4, <2>5, WalkElsewhere
<1>. QED  BY <1>2, <1>3

LEMMA LookupSteps ==
    ASSUME KeyHypotheses, TreeInv, LookupStep \/ PrefixStep, UNCHANGED family
    PROVE  TreeInv'
<1>1. ASSUME LookupStep
      PROVE  TreeInv'
  <2>1. walk.op \in {"lookup", "prefix"}
    BY <1>1 DEF LookupStep, LookupMissing, LookupLeaf, LookupDescend
  <2>2. UNCHANGED <<nodes, tree, fresh, stored>>
    BY <1>1 DEF LookupStep, LookupMissing, LookupLeaf, LookupDescend, Answer
  <2>3. walk' = Idle \/ (Here # Null /\ ~IsLeaf(Here) /\ \E skipped : Step(skipped))
    BY <1>1 DEF LookupStep, LookupMissing, LookupLeaf, LookupDescend, Answer
  <2>. QED  BY <2>1, <2>2, <2>3, LookupWalks
<1>2. ASSUME PrefixStep
      PROVE  TreeInv'
  <2>1. walk.op \in {"lookup", "prefix"}
    BY <1>2 DEF PrefixStep, PrefixNothing, PrefixLeaf, PrefixNode
  <2>2. /\ \A ref : Answered(ref) => walk' = Idle /\ UNCHANGED <<nodes, tree, fresh, stored>>
    BY DEF Answered
  <2>3. UNCHANGED <<nodes, tree, fresh, stored>>
    BY <1>2, <2>2 DEF PrefixStep, PrefixNothing, PrefixLeaf, PrefixNode
  <2>4. walk' = Idle \/ (Here # Null /\ ~IsLeaf(Here) /\ \E skipped : Step(skipped))
    BY <1>2, <2>2 DEF PrefixStep, PrefixNothing, PrefixLeaf, PrefixNode
  <2>. QED  BY <2>1, <2>3, <2>4, LookupWalks
<1>. QED  BY <1>1, <1>2

-----------------------------------------------------------------------------
LEMMA InvariantKept ==
    ASSUME KeyHypotheses, TreeInv, [Next]_vars
    PROVE  TreeInv'
<1>1. CASE Calls /\ UNCHANGED family
  BY <1>1, CallStep
<1>2. CASE MapStep
  BY <1>2, InsertIntoEmptyStep, SplitLeafStep, BreakPrefixStep, DescendStep, AddChildStep, LookupSteps
     DEF MapStep, InsertStep
<1>3. CASE RangeStep
  BY <1>3, LookupSteps DEF RangeStep
<1>4. CASE UNCHANGED vars
  BY <1>4 DEF vars, TreeInv, Heaps, Walks, Belongs, IsState, Inserting, Here, At
<1>. QED  BY <1>1, <1>2, <1>3, <1>4 DEF Next

\* Every state is such a tree.
THEOREM AlwaysTree ==
    ASSUME KeyHypotheses
    PROVE  Spec => []TreeInv
<1>1. Init => TreeInv
  BY StartsWell
<1>2. TreeInv /\ [Next]_vars => TreeInv'
  BY InvariantKept
<1>. QED  BY <1>1, <1>2, PTL DEF Spec

-----------------------------------------------------------------------------
(* What the tree means.                                                    *)

LEMMA TypesFollow ==
    ASSUME KeyHypotheses, TreeInv
    PROVE  TypeOK
<1>1. PICK t : IsState(t) /\ IsTree(t)
  BY DEF TreeInv
<1>2. StoreGivesKeys /\ TreeTypes(t) /\ t.nodes = nodes /\ t.top = tree /\ t.stored = stored
  BY <1>1 DEF KeyHypotheses, IsState, IsTree
<1>3. /\ fresh \in Nat \ {0} /\ DOMAIN nodes \subseteq 1..(fresh - 1) /\ stored \subseteq LeafValues
      /\ walk.op \in {"idle", "insert", "lookup", "prefix"}
      /\ walk.slot = Root \/ \E n \in DOMAIN nodes : \E b : walk.slot = <<n, b>>
  BY <1>2 DEF TreeInv, Heaps, Walks, TreeTypes
<1>4. ASSUME NEW n \in DOMAIN nodes
      PROVE  /\ nodes[n].prefixLength \in Nat
             /\ Len(nodes[n].prefix) = Min({nodes[n].prefixLength, MaxPrefixLength})
             /\ nodes[n].prefix \in Seq(Bytes) /\ DOMAIN nodes[n].child \subseteq Bytes
  <2>. DEFINE pl == nodes[n].prefixLength
              most == MaxPrefixLength
  <2>1. Keeps(t, n) /\ pl \in Nat /\ most \in Nat
    BY <1>1, <1>2, TreeAssumption DEF IsTree, TreeTypes
  <2>2. Min({pl, most}) = Least(pl, most)
    <3>. HIDE DEF pl, most
    <3>1. Least(pl, most) \in {pl, most} /\ \A y \in {pl, most} : Least(pl, most) <= y
      BY <2>1 DEF Least
    <3>2. Min({pl, most}) \in {pl, most} /\ \A y \in {pl, most} : Min({pl, most}) <= y
      BY <3>1 DEF Min
    <3>. QED  BY <2>1, <3>1, <3>2
  <2>. QED  BY <1>2, <2>1, <2>2 DEF Keeps, TreeInv, Heaps
<1>5. \A ref \in References : ref # Null => ref \in ReferencesOf(t)
  <2>1. tree # Null => tree \in ReferencesOf(t)
    <3>1. tree # Null => \E w \in t.stored : LeadsTo(t, tree, w, 0)
      BY <1>1, <1>2 DEF IsTree
    <3>. QED  BY <3>1, LeadingReference
  <2>2. ASSUME NEW n \in DOMAIN nodes, NEW b \in DOMAIN nodes[n].child
        PROVE  nodes[n].child[b] \in ReferencesOf(t)
    <3>1. PICK w \in t.stored : LeadsTo(t, t.nodes[n].child[b], w, Full(t, n) + 1)
      BY <1>1, <1>2, ChildLeads
    <3>2. t.nodes[n].child[b] \in ReferencesOf(t)
      <4>. DEFINE e == Full(t, n) + 1
                  r == t.nodes[n].child[b]
      <4>1. LeadsTo(t, r, w, e)
        BY <3>1
      <4>. HIDE DEF e, r
      <4>2. r \in ReferencesOf(t)
        BY <4>1, LeadingReference
      <4>. QED  BY <4>2 DEF r
    <3>. QED  BY <1>2, <3>2
  <2>. QED  BY <2>1, <2>2 DEF References
<1>6. References \subseteq {Null} \union Tags \union { Address(n) : n \in 1..(fresh - 1) }
  BY <1>2, <1>3, <1>5 DEF ReferencesOf, Tags
<1>7. walk.slot # Root => walk.slot[1] \in DOMAIN nodes
  BY <1>3
<1>. QED  BY <1>3, <1>4, <1>6, <1>7 DEF TypeOK

\* What one pointer at least points to, and no two, is pointed to once.
LEMMA CountPointers ==
    ASSUME KeyHypotheses, TreeInv, NEW t, IsState(t), IsTree(t), NEW ref, ref # Null, Linked(t, ref)
    PROVE  Pointers(ref) = 1
<1>1. /\ StoreGivesKeys /\ TreeTypes(t) /\ t.nodes = nodes /\ t.top = tree /\ t.stored = stored
      /\ \A n \in DOMAIN nodes : DOMAIN nodes[n].child \subseteq Bytes
  BY DEF KeyHypotheses, IsState, IsTree, TreeInv, Heaps
<1>. DEFINE places == { s \in { <<n, b>> : n \in DOMAIN nodes, b \in Bytes } :
                           FindChild(nodes[s[1]], s[2]) = ref }
<1>2. \A s \in places : \E n \in DOMAIN nodes : \E b \in DOMAIN nodes[n].child :
            s = <<n, b>> /\ nodes[n].child[b] = ref
  BY DEF FindChild
<1>3. Pointers(ref) = (IF tree = ref THEN 1 ELSE 0) + Cardinality(places)
  BY DEF Pointers
<1>4. \A n \in DOMAIN nodes : \A b \in DOMAIN nodes[n].child : nodes[n].child[b] = ref => <<n, b>> \in places
  BY <1>1 DEF FindChild
<1>. HIDE DEF places
<1>5. ASSUME NEW n \in DOMAIN nodes, NEW b \in DOMAIN nodes[n].child, nodes[n].child[b] = ref
      PROVE  /\ tree # ref
             /\ \A m \in DOMAIN nodes : \A c \in DOMAIN nodes[m].child : nodes[m].child[c] = ref => m = n /\ c = b
  <2>1. /\ t.nodes[n].child[b] # t.top
        /\ \A m \in DOMAIN t.nodes : \A c \in DOMAIN t.nodes[m].child :
              t.nodes[m].child[c] = t.nodes[n].child[b] => m = n /\ c = b
    BY <1>1, OnePointer
  <2>. QED  BY <1>1, <1>5, <2>1
<1>6. CASE tree = ref
  <2>1. places = {}
    BY <1>2, <1>5, <1>6
  <2>. QED  BY <1>3, <1>6, <2>1, FS_EmptySet
<1>7. CASE tree # ref
  <2>1. PICK n \in DOMAIN nodes : \E c \in DOMAIN nodes[n].child : nodes[n].child[c] = ref
    BY <1>1, <1>7 DEF Linked
  <2>2. PICK b \in DOMAIN nodes[n].child : nodes[n].child[b] = ref
    BY <2>1
  <2>3. places = {<<n, b>>}
    BY <1>2, <1>4, <1>5, <2>2
  <2>4. Cardinality(places) = 1
    BY <2>3, FS_Singleton
  <2>. QED  BY <1>3, <1>7, <2>4
<1>. QED  BY <1>6, <1>7

LEMMA LinkedOnceFollows ==
    ASSUME KeyHypotheses, TreeInv
    PROVE  EverythingLinkedOnce
<1>1. PICK t : IsState(t) /\ IsTree(t)
  BY DEF TreeInv
<1>2. /\ StoreGivesKeys /\ TreeTypes(t) /\ t.nodes = nodes /\ t.top = tree /\ t.stored = stored
      /\ t.stored \subseteq LeafValues /\ DOMAIN t.nodes \subseteq Nat \ {0}
  BY <1>1 DEF KeyHypotheses, IsState, IsTree, TreeTypes
<1>3. ASSUME NEW ref, NEW w \in t.stored, NEW d, LeadsTo(t, ref, w, d)
      PROVE  \/ IsLeaf(ref) /\ GetLeafValue(ref) \in stored
             \/ ~IsLeaf(ref) /\ ref \div 2 \in DOMAIN nodes
  <2>1. /\ IsLeaf(ref) => GetLeafValue(ref) = w
        /\ ~IsLeaf(ref) => ref \div 2 \in DOMAIN t.nodes
    BY <1>2, <1>3, LeadsSomewhere
  <2>. QED  BY <1>2, <2>1
<1>4. ASSUME NEW ref \in References, ref # Null
      PROVE  \E w \in t.stored : \E d : LeadsTo(t, ref, w, d)
  <2>1. CASE ref = tree
    BY <1>1, <1>2, <1>4, <2>1 DEF IsTree
  <2>2. ASSUME NEW n \in DOMAIN nodes, NEW b \in DOMAIN nodes[n].child, ref = nodes[n].child[b]
        PROVE  \E w \in t.stored : \E d : LeadsTo(t, ref, w, d)
    <3>1. \E w \in t.stored : LeadsTo(t, t.nodes[n].child[b], w, Full(t, n) + 1)
      BY <1>1, <1>2, ChildLeads
    <3>. QED  BY <1>2, <2>2, <3>1
  <2>. QED  BY <2>1, <2>2 DEF References
<1>5. \A ref \in References :
          ref # Null => \/ IsLeaf(ref) /\ GetLeafValue(ref) \in stored
                        \/ ~IsLeaf(ref) /\ ref \div 2 \in DOMAIN nodes
  BY <1>3, <1>4
<1>6. ASSUME NEW n \in DOMAIN nodes
      PROVE  Pointers(Address(n)) = 1
  <2>1. Linked(t, Address(n)) /\ n \in Nat /\ n # 0
    BY <1>1, <1>2 DEF IsTree
  <2>2. Address(n) # Null
    BY <2>1, Addresses
  <2>. QED  BY <1>1, <2>1, <2>2, CountPointers
<1>7. ASSUME NEW v \in stored
      PROVE  Pointers(MakeLeaf(v)) = 1
  <2>1. Linked(t, MakeLeaf(v)) /\ v \in LeafValues
    BY <1>1, <1>2 DEF IsTree
  <2>2. MakeLeaf(v) # Null
    BY <1>2, <2>1, Tagged
  <2>. QED  BY <1>1, <2>1, <2>2, CountPointers
<1>. QED  BY <1>5, <1>6, <1>7 DEF EverythingLinkedOnce

-----------------------------------------------------------------------------
(* The way to a leaf.                                                      *)

\* The places from which the walk for the key of v comes to v.
PlacesTo(t, v) == { p \in [ref : ReferencesOf(t), depth : Nat] : LeadsTo(t, p.ref, v, p.depth) }

LEMMA PlaceLeads ==
    ASSUME NEW t, NEW v, NEW ref \in ReferencesOf(t), NEW d \in Nat, LeadsTo(t, ref, v, d)
    PROVE  [ref |-> ref, depth |-> d] \in PlacesTo(t, v)
BY DEF PlacesTo

LEMMA WayGoesDown ==
    ASSUME StoreGivesKeys, NEW t, IsTree(t), t.nodes = nodes, NEW v \in t.stored, NEW p \in PlacesTo(t, v)
    PROVE  /\ Along(p, KeyOf[v]) \in PlacesTo(t, v)
           /\ GoesDown(t, p.ref, Along(p, KeyOf[v]).ref)
           /\ Spells(p, KeyOf[v])
<1>1. TreeTypes(t) /\ t.stored \subseteq LeafValues
  BY DEF IsTree, TreeTypes
<1>. DEFINE K == KeyOf[v]
            ref == p.ref
            d == p.depth
<1>2. ref \in ReferencesOf(t) /\ d \in Nat /\ LeadsTo(t, ref, v, d) /\ p = [ref |-> ref, depth |-> d]
  BY DEF PlacesTo
<1>3. ref # Null
  <2>. HIDE DEF ref, d
  <2>. QED  BY <1>1, <1>2, LeadsSomewhere
<1>4. CASE IsLeaf(ref)
  BY <1>4 DEF Along, GoesDown, Spells
<1>5. CASE ~IsLeaf(ref)
  <2>. DEFINE n == ref \div 2
              f == Full(t, n)
              b == K[f + 1]
  <2>1. n \in DOMAIN t.nodes /\ t.from[n] = d /\ Passes(t, n, K)
    <3>. HIDE DEF ref, d
    <3>. QED  BY <1>1, <1>2, <1>5, LeadsSomewhere
  <2>2. f \in Nat /\ f = d + nodes[n].prefixLength /\ nodes[n].prefixLength \in Nat /\ t.under[n] \in LeafValues
    BY <1>1, <2>1, NodeTypes DEF Full
  <2>3. Len(K) \in Nat /\ v \in LeafValues
    BY <1>1, KeyTypes
  <2>4. Branches(t, n) /\ Keeps(t, n) /\ MaxPrefixLength \in Nat
    BY <2>1, TreeAssumption DEF IsTree
  <2>5. f < Len(K) /\ b \in DOMAIN t.nodes[n].child /\ LeadsTo(t, t.nodes[n].child[b], v, f + 1)
    BY <2>1, <2>4 DEF Branches, NextOf
  <2>. HIDE DEF f
  <2>6. f + 1 <= Len(K) /\ f + 1 \in Nat
    <3>1. f \in Nat /\ Len(K) \in Nat /\ f < Len(K)
      BY <2>2, <2>3, <2>5
    <3>. HIDE DEF K
    <3>. QED  BY ONLY <3>1
  <2>7. Along(p, K) = [ref |-> t.nodes[n].child[b], depth |-> f + 1]
    BY <1>3, <1>5, <2>2, <2>5, <2>6 DEF Along, NodeAt, FindChild
  <2>8. t.nodes[n].child[b] \in ReferencesOf(t)
    <3>. DEFINE e == f + 1
                r == t.nodes[n].child[b]
    <3>1. LeadsTo(t, r, v, e)
      BY <2>5
    <3>. HIDE DEF e, r
    <3>2. r \in ReferencesOf(t)
      BY <3>1, LeadingReference
    <3>. QED  BY <3>2 DEF r
  <2>9. Along(p, K) \in PlacesTo(t, v)
    <3>. DEFINE e == f + 1
                c == t.nodes[n].child[b]
                q == [ref |-> c, depth |-> e]
    <3>1. c \in ReferencesOf(t) /\ e \in Nat /\ LeadsTo(t, c, v, e)
      BY <2>5, <2>6, <2>8
    <3>2. Along(p, K) = q
      BY <2>7
    <3>3. q \in PlacesTo(t, v)
      <4>. HIDE DEF c, e
      <4>. QED  BY ONLY <3>1, PlaceLeads
    <3>. HIDE DEF q
    <3>. QED  BY ONLY <3>2, <3>3
  <2>10. GoesDown(t, p.ref, Along(p, K).ref)
    <3>1. Along(p, K).ref = t.nodes[p.ref \div 2].child[b] /\ ~IsLeaf(p.ref) /\ b \in DOMAIN t.nodes[p.ref \div 2].child
      BY <1>5, <2>5, <2>7
    <3>. DEFINE g == Along(p, K).ref
                h == p.ref
    <3>2. g = t.nodes[h \div 2].child[b] /\ ~IsLeaf(h) /\ b \in DOMAIN t.nodes[h \div 2].child
      BY ONLY <3>1
    <3>. HIDE DEF b, g, h
    <3>3. GoesDown(t, h, g)
      BY ONLY <3>2 DEF GoesDown
    <3>. QED  BY ONLY <3>3 DEF g, h
  <2>11. Spells(p, K)
    <3>. DEFINE s == nodes[n].prefix
                pl == nodes[n].prefixLength
                W == KeyOf[t.under[n]]
    <3>1. Len(s) \in Nat /\ Len(s) <= pl /\ \A i \in 1..Len(s) : s[i] = W[d + i]
      <4>1. Len(s) = Least(pl, MaxPrefixLength) /\ \A i \in 1..Len(s) : s[i] = W[t.from[n] + i]
        BY <2>4 DEF Keeps
      <4>. QED  BY <2>1, <2>2, <2>4, <4>1 DEF Least
    <3>2. \A i \in 1..f : K[i] = W[i]
      BY <2>1 DEF Passes, Same, f
    <3>. HIDE DEF s, pl, W
    <3>3. \A i \in 1..Len(s) : d + i \in 1..f /\ d + i <= Len(K)
      <4>1. /\ f = d + pl /\ pl \in Nat /\ d \in Nat /\ Len(K) \in Nat /\ f < Len(K)
            /\ Len(s) \in Nat /\ Len(s) <= pl
        BY <1>2, <2>2, <2>3, <2>5, <3>1 DEF pl
      <4>. HIDE DEF K, d
      <4>. QED  BY ONLY <4>1
    <3>4. \A i \in 1..Len(s) : d + i <= Len(K) /\ s[i] = K[d + i]
      <4>. HIDE DEF K, d
      <4>. QED  BY <3>1, <3>2, <3>3
    <3>. QED  BY <3>4 DEF Spells, NodeAt, s
  <2>. QED  BY <2>9, <2>10, <2>11
<1>. QED  BY <1>4, <1>5

LEMMA WayLeads ==
    ASSUME KeyHypotheses, TreeInv, NEW v \in stored
    PROVE  LET way == Way(KeyOf[v])
           IN  way[Height].ref = MakeLeaf(v) /\ \A i \in 0..Height : Spells(way[i], KeyOf[v])
<1>1. PICK t : IsState(t) /\ IsTree(t)
  BY DEF TreeInv
<1>2. /\ StoreGivesKeys /\ TreeTypes(t) /\ t.nodes = nodes /\ t.top = tree /\ v \in t.stored
  BY <1>1 DEF KeyHypotheses, IsState, IsTree
<1>. DEFINE K == KeyOf[v]
            h == Height
            start == [ref |-> tree, depth |-> 0]
            S == PlacesTo(t, v)
            F == [p \in S |-> Along(p, K)]
            P(f) == f = [i \in 0..h |-> IF i = 0 THEN start ELSE Along(f[i-1], K)]
            way == CHOOSE f : P(f)
<1>3. IsFiniteSet(DOMAIN t.nodes) /\ h \in Nat /\ h = Cardinality(DOMAIN t.nodes)
  <2>1. fresh \in Nat /\ DOMAIN nodes \subseteq 1..(fresh - 1)
    BY DEF TreeInv, Heaps
  <2>2. IsFiniteSet(1..(fresh - 1))
    BY <2>1, FS_Interval
  <2>3. IsFiniteSet(DOMAIN t.nodes)
    BY <1>2, <2>1, <2>2, FS_Subset
  <2>. QED  BY <1>2, <2>3, FS_CardinalityType DEF Height
<1>4. start \in S
  <2>1. LeadsTo(t, tree, v, 0)
    BY <1>1, <1>2 DEF IsTree
  <2>2. tree \in ReferencesOf(t)
    BY <1>2, <2>1, LeadingReference
  <2>. QED  BY <2>1, <2>2 DEF PlacesTo
<1>5. \A p \in S : Along(p, K) \in S /\ GoesDown(t, p.ref, Along(p, K).ref) /\ Spells(p, K)
  BY <1>1, <1>2, WayGoesDown
<1>. HIDE DEF S, K, start
<1>6. F \in [S -> S]
  BY <1>5
<1>7. \E f : P(f)
  <2>. HIDE DEF F, h
  <2>1. PICK g : Repeats(g, S, start, F, h)
    BY <1>3, <1>4, <1>6, Repetition
  <2>2. /\ g \in [0..h -> S] /\ g[0] = start
        /\ \A n \in 1..h : g[n] = F[g[n-1]] /\ g[n-1] \in S
    BY <1>3, <2>1 DEF Repeats
  <2>3. \A i \in 0..h : g[i] = IF i = 0 THEN start ELSE Along(g[i-1], K)
    <3>1. \A i \in 0..h : i # 0 => i \in 1..h
      BY <1>3
    <3>2. \A p \in S : F[p] = Along(p, K)
      BY DEF F
    <3>. QED  BY <2>2, <3>1, <3>2
  <2>. QED  BY <2>2, <2>3
<1>8. P(way)
  <2>. HIDE DEF P
  <2>. QED  BY <1>7
<1>9. Way(K) = way
  BY DEF Way, start
<1>10. way[0] = start /\ \A i \in 1..h : i - 1 \in 0..h /\ i \in 0..h /\ way[i] = Along(way[i-1], K)
  <2>1. 0 \in 0..h /\ \A i \in 1..h : i \in 0..h /\ i # 0 /\ i - 1 \in 0..h
    BY <1>3
  <2>. HIDE DEF way, h
  <2>2. \A i \in 0..h : way[i] = IF i = 0 THEN start ELSE Along(way[i-1], K)
    BY <1>8
  <2>. QED  BY <2>1, <2>2
<1>. HIDE DEF way, h, P
<1>11. \A i \in 0..h : way[i] \in S
  <2>1. \A i \in 1..h : way[i-1] \in S => way[i] = F[way[i-1]]
    BY <1>10
  <2>. HIDE DEF F, S, start
  <2>2. Moves(way, S, start, F, h)
    BY ONLY <1>10, <2>1 DEF Moves
  <2>3. RemainsIn(way, S, h)
    BY ONLY <1>3, <1>4, <1>6, <2>2, StaysIn
  <2>. QED  BY ONLY <2>3 DEF RemainsIn
<1>. HIDE DEF F
<1>12. PICK refs : refs = [i \in 0..h |-> way[i].ref]
  OBVIOUS
<1>13. WalksDown(t, refs, h)
  <2>1. \A i \in 0..h : refs[i] \in ReferencesOf(t)
    BY <1>11, <1>12 DEF S, PlacesTo
  <2>2. \A i \in 1..h : GoesDown(t, refs[i-1], refs[i])
    BY <1>5, <1>10, <1>11, <1>12
  <2>. QED  BY <2>1, <2>2 DEF WalksDown
<1>14. IsLeaf(refs[h])
  BY <1>1, <1>2, <1>3, <1>13, WalkEnds
<1>15. way[h].ref = MakeLeaf(v)
  <2>1. h \in 0..h
    BY <1>3
  <2>2. refs[h] = way[h].ref /\ \E d : LeadsTo(t, way[h].ref, v, d)
    BY <1>11, <1>12, <2>1 DEF S, PlacesTo
  <2>3. PICK r : r = way[h].ref
    OBVIOUS
  <2>4. PICK d : LeadsTo(t, r, v, d)
    BY <2>2, <2>3
  <2>5. r = MakeLeaf(v)
    BY <1>2, <1>14, <2>2, <2>3, <2>4, LeadsSomewhere
  <2>. QED  BY <2>3, <2>5
<1>16. \A i \in 0..h : Spells(way[i], K)
  BY <1>5, <1>11
<1>. QED  BY <1>9, <1>15, <1>16 DEF h, K

LEMMA SpellingFollows ==
    ASSUME KeyHypotheses, TreeInv
    PROVE  PathsSpellKeys
<1>1. PICK t : IsState(t) /\ IsTree(t)
  BY DEF TreeInv
<1>2. ASSUME NEW n \in DOMAIN nodes
      PROVE  Cardinality(DOMAIN nodes[n].child) >= 2
  <2>. DEFINE bytes == DOMAIN nodes[n].child
  <2>1. IsFiniteSet(bytes)
    <3>1. bytes \subseteq Bytes
      BY DEF TreeInv, Heaps
    <3>2. Bytes \subseteq 0..255
      BY TreeAssumption, Zenon
    <3>3. IsFiniteSet(0..255)
      <4>. DEFINE a == 0
                  b == 255
      <4>1. a \in Int /\ b \in Int
        OBVIOUS
      <4>. HIDE DEF a, b
      <4>2. IsFiniteSet(a..b)
        BY <4>1, FS_Interval
      <4>. QED  BY <4>2 DEF a, b
    <3>. QED  BY <3>1, <3>2, <3>3, FS_Subset
  <2>2. PICK a, b \in bytes : a # b
    BY <1>1 DEF IsState, IsTree, Branches
  <2>. HIDE DEF bytes
  <2>3. IsFiniteSet({a}) /\ Cardinality({a}) = 1
    BY ONLY FS_Singleton
  <2>4. Cardinality({a} \union {b}) = 2
    <3>. DEFINE S == {a}
    <3>1. IsFiniteSet(S) /\ Cardinality(S) = 1 /\ b \notin S
      BY ONLY <2>2, <2>3
    <3>. HIDE DEF S
    <3>2. Cardinality(S \union {b}) = Cardinality(S) + 1
      BY ONLY <3>1, FS_AddElement
    <3>3. Cardinality(S \union {b}) = 2
      BY ONLY <3>1, <3>2
    <3>. QED  BY ONLY <3>3 DEF S
  <2>5. {a} \union {b} \subseteq bytes
    BY <2>2
  <2>6. Cardinality({a} \union {b}) <= Cardinality(bytes)
    BY <2>1, <2>5, FS_Subset
  <2>7. Cardinality(bytes) \in Nat
    BY <2>1, FS_CardinalityType
  <2>. QED  BY <2>4, <2>6, <2>7 DEF bytes
<1>. QED  BY <1>2, WayLeads DEF PathsSpellKeys

-----------------------------------------------------------------------------
THEOREM RadixTypeCorrect ==
    ASSUME KeyHypotheses
    PROVE  Spec => []TypeOK
<1>1. TreeInv => TypeOK
  BY TypesFollow
<1>. QED  BY <1>1, AlwaysTree, PTL

THEOREM NothingLost ==
    ASSUME KeyHypotheses
    PROVE  Spec => []EverythingLinkedOnce
<1>1. TreeInv => EverythingLinkedOnce
  BY LinkedOnceFollows
<1>. QED  BY <1>1, AlwaysTree, PTL

THEOREM PathsLead ==
    ASSUME KeyHypotheses
    PROVE  Spec => []PathsSpellKeys
<1>1. TreeInv => PathsSpellKeys
  BY SpellingFollows
<1>. QED  BY <1>1, AlwaysTree, PTL

-----------------------------------------------------------------------------
(* Lookups.                                                                *)

\* The walk of a lookup stands on the way of the key, if it is there.
Sought(t) ==
    walk.op = "lookup" => \A v \in stored : KeyOf[v] = walk.key.bytes => LeadsTo(t, Here, v, walk.depth)

LookInv == \E t : IsState(t) /\ IsTree(t) /\ Sought(t)

\* Where a step leaves the walk of a lookup.
LEMMA LookupCases ==
    ASSUME KeyHypotheses, TreeInv, Next
    PROVE  \/ walk'.op # "lookup"
           \/ \E key \in family.queries : Lookup(key) /\ UNCHANGED family
           \/ LookupDescend /\ UNCHANGED <<family, range>>
<1>1. Idle.op = "idle"
  BY DEF Idle
<1>2. DOMAIN walk = {"op", "key", "depth", "leaf", "skipped", "slot"}
  BY DEF TreeInv, Walks, Idle
<1>3. ASSUME NEW op, NEW bytes, NEW leaf, Call(op, bytes, leaf)
      PROVE  walk'.op = op
  BY <1>3 DEF Call, Idle
<1>4. \A skipped : Step(skipped) => walk'.op = walk.op
  BY <1>2 DEF Step
<1>5. CASE Calls /\ UNCHANGED family
  BY <1>3, <1>5 DEF Calls, Insert, Lookup, RangeLookup
<1>6. CASE MapStep
  <2>1. CASE InsertStep
    BY <1>1, <1>2, <1>4, <2>1 DEF InsertStep, InsertIntoEmpty, SplitLeaf, BreakPrefix, Descend, AddChild, Inserted, PassPrefix
  <2>2. CASE LookupStep
    BY <1>1, <1>6, <2>2 DEF MapStep, LookupStep, LookupMissing, LookupLeaf, Answer
  <2>. QED  BY <1>6, <2>1, <2>2 DEF MapStep
<1>7. CASE RangeStep
  <2>1. \A ref : Answered(ref) => walk'.op = "idle"
    BY <1>1 DEF Answered
  <2>. QED  BY <1>4, <1>7, <2>1 DEF RangeStep, PrefixStep, PrefixNothing, PrefixLeaf, PrefixNode
<1>. QED  BY <1>5, <1>6, <1>7 DEF Next

\* A lookup that is on the way of the key of v.
SeekFacts(t, v, d) ==
    /\ StoreGivesKeys /\ IsState(t) /\ IsTree(t) /\ TreeTypes(t) /\ t.nodes = nodes
    /\ v \in t.stored /\ v \in LeafValues /\ d = walk.depth
    /\ KeyOf[v] = walk.key.bytes /\ LeadsTo(t, Here, v, d) /\ Len(KeyOf[v]) \in Nat

LEMMA SeekKnows ==
    ASSUME KeyHypotheses, NEW t, IsState(t), IsTree(t), Sought(t), walk.op = "lookup",
           NEW v \in stored, KeyOf[v] = walk.key.bytes
    PROVE  SeekFacts(t, v, walk.depth)
<1>1. StoreGivesKeys /\ TreeTypes(t) /\ t.nodes = nodes /\ v \in t.stored
  BY DEF KeyHypotheses, IsState, IsTree
<1>2. v \in LeafValues
  BY <1>1 DEF TreeTypes
<1>3. Len(KeyOf[v]) \in Nat
  BY <1>1, <1>2, KeyTypes
<1>. QED  BY <1>1, <1>2, <1>3 DEF SeekFacts, Sought

\* At a node the prefix of the key matches, as far as it is there, and the next
\* byte has a child.
LEMMA SeekAtNode ==
    ASSUME KeyHypotheses, NEW t, NEW v, NEW d, SeekFacts(t, v, d), ~IsLeaf(Here)
    PROVE  LET n == Here \div 2
               f == Full(t, n)
               b == KeyOf[v][f + 1]
           IN  /\ ~PrefixDiffers(NodeAt(Here)) /\ Here # Null
               /\ n \in DOMAIN nodes /\ DepthBehind(Here) = f /\ f \in Nat /\ ByteAt(walk.key, f + 1) = b
               /\ b \in DOMAIN nodes[n].child /\ LeadsTo(t, nodes[n].child[b], v, f + 1)
<1>. DEFINE n == Here \div 2
            f == Full(t, n)
            K == KeyOf[v]
            b == K[f + 1]
            ref == Here
            pl == nodes[n].prefixLength
<1>1. /\ StoreGivesKeys /\ IsTree(t) /\ TreeTypes(t) /\ t.nodes = nodes /\ v \in t.stored /\ v \in LeafValues
      /\ d = walk.depth /\ K = walk.key.bytes /\ LeadsTo(t, ref, v, d) /\ Len(K) \in Nat
  BY DEF SeekFacts
<1>2. ref # Null /\ n \in DOMAIN t.nodes /\ t.from[n] = d /\ Passes(t, n, K)
  <2>1. ~IsLeaf(ref)
    OBVIOUS
  <2>. HIDE DEF ref
  <2>2. ref # Null /\ ref \div 2 \in DOMAIN t.nodes /\ t.from[ref \div 2] = d /\ Passes(t, ref \div 2, K)
    BY <1>1, <2>1, LeadsSomewhere
  <2>. QED  BY <2>2 DEF ref
<1>. HIDE DEF ref
<1>3. f \in Nat /\ f = d + pl /\ pl \in Nat /\ d \in Nat /\ t.under[n] \in LeafValues
  BY <1>1, <1>2, NodeTypes DEF Full
<1>4. Branches(t, n) /\ Keeps(t, n) /\ MaxPrefixLength \in Nat
  BY <1>1, <1>2, TreeAssumption DEF IsTree
<1>5. f < Len(K) /\ b \in DOMAIN t.nodes[n].child /\ LeadsTo(t, t.nodes[n].child[b], v, f + 1)
  BY <1>1, <1>2, <1>4 DEF Branches, NextOf
<1>6. DepthBehind(Here) = f
  BY <1>1, <1>3 DEF DepthBehind, NodeAt
<1>7. \A i \in 1..f : ByteAt(walk.key, i) = KeyOf[t.under[n]][i]
  <2>1. \A i \in 1..f : K[i] = KeyOf[t.under[n]][i]
    BY <1>2 DEF Passes, Same
  <2>2. \A i \in 1..f : i <= Len(K)
    <3>1. f \in Nat /\ f < Len(K) /\ Len(K) \in Nat
      BY <1>1, <1>3, <1>5
    <3>. HIDE DEF f, K
    <3>. QED  BY ONLY <3>1
  <2>. QED  BY <1>1, <2>1, <2>2 DEF ByteAt
<1>8. ~PrefixDiffers(NodeAt(Here))
  <2>1. SUFFICES ASSUME ~SkipsPrefix(nodes[n]),
                        NEW i \in 1..pl, ByteAt(walk.key, walk.depth + i) # nodes[n].prefix[i]
                 PROVE  FALSE
    BY DEF PrefixDiffers, NodeAt
  <2>2. pl < MaxPrefixLength
    BY <1>3, <1>4, <2>1 DEF SkipsPrefix
  <2>3. Len(nodes[n].prefix) = pl
    BY <1>1, <1>3, <1>4, <2>2 DEF Keeps, Least
  <2>4. nodes[n].prefix[i] = KeyOf[t.under[n]][d + i]
    BY <1>1, <1>2, <1>4, <2>3 DEF Keeps
  <2>5. d + i \in 1..f
    <3>1. f = d + pl /\ pl \in Nat /\ d \in Nat
      BY <1>3
    <3>. HIDE DEF f, pl
    <3>. QED  BY ONLY <3>1, i \in 1..pl
  <2>. QED  BY <1>1, <1>7, <2>1, <2>4, <2>5
<1>9. ByteAt(walk.key, f + 1) = b
  <2>1. f + 1 <= Len(K)
    <3>1. f \in Nat /\ f < Len(K) /\ Len(K) \in Nat
      BY <1>1, <1>3, <1>5
    <3>. HIDE DEF f, K
    <3>. QED  BY ONLY <3>1
  <2>. QED  BY <1>1, <2>1 DEF ByteAt
<1>. QED  BY <1>1, <1>2, <1>3, <1>5, <1>6, <1>8, <1>9 DEF ref

LEMMA LookStarts ==
    ASSUME KeyHypotheses, Init
    PROVE  LookInv
<1>1. PICK t : IsState(t) /\ IsTree(t)
  BY StartsWell DEF TreeInv
<1>2. walk.op = "idle"
  BY DEF Init, Idle
<1>. QED  BY <1>1, <1>2 DEF LookInv, Sought

LEMMA LookKept ==
    ASSUME KeyHypotheses, TreeInv, LookInv, [Next]_vars
    PROVE  LookInv'
<1>1. TreeInv'
  BY InvariantKept
<1>2. CASE UNCHANGED vars
  BY <1>2 DEF vars, LookInv, IsState, Sought, Here, At
<1>3. CASE walk'.op # "lookup"
  <2>1. PICK t : IsState(t)' /\ IsTree(t)
    BY <1>1 DEF TreeInv
  <2>2. Sought(t)'
    BY <1>3 DEF Sought
  <2>. QED  BY <2>1, <2>2 DEF LookInv
<1>4. ASSUME NEW key, Lookup(key), UNCHANGED family
      PROVE  LookInv'
  <2>1. PICK t : IsState(t) /\ IsTree(t)
    BY DEF TreeInv
  <2>2. walk'.depth = 0 /\ walk'.slot = Root /\ UNCHANGED <<nodes, tree, fresh, stored>>
    BY <1>4 DEF Lookup, Call, Idle
  <2>3. Here' = tree
    BY <2>2 DEF Here, At, Root
  <2>4. IsState(t)' /\ \A v \in stored' : LeadsTo(t, Here', v, walk'.depth)
    BY <2>1, <2>2, <2>3 DEF IsState, IsTree
  <2>5. Sought(t)'
    BY <2>4 DEF Sought
  <2>. QED  BY <2>1, <2>4, <2>5 DEF LookInv
<1>5. ASSUME LookupDescend, UNCHANGED <<family, range>>
      PROVE  LookInv'
  <2>1. PICK t : IsState(t) /\ IsTree(t) /\ Sought(t)
    BY DEF LookInv
  <2>2. UNCHANGED <<nodes, tree, fresh, stored>> /\ walk.op = "lookup" /\ ~IsLeaf(Here)
    BY <1>5 DEF LookupDescend
  <2>3. PICK skipped : Step(skipped)
    BY <1>5 DEF LookupDescend
  <2>4. DOMAIN walk = {"op", "key", "depth", "leaf", "skipped", "slot"}
    BY DEF TreeInv, Walks, Idle
  <2>. DEFINE n == Here \div 2
              e == DepthBehind(Here) + 1
              c == ByteAt(walk.key, e)
  <2>5. walk'.depth = e /\ walk'.slot = <<n, c>> /\ walk'.key = walk.key
    <3>1. walk' = [walk EXCEPT !.depth = e, !.slot = <<n, c>>, !.skipped = skipped]
      BY <2>3 DEF Step
    <3>. HIDE DEF n, e, c
    <3>. QED  BY <2>4, <3>1
  <2>6. Here' = FindChild(nodes[n], c)
    <3>1. walk'.slot # Root /\ walk'.slot[1] = n /\ walk'.slot[2] = c /\ Root' = Root /\ nodes' = nodes
      BY <2>2, <2>5 DEF Root
    <3>. HIDE DEF n, c
    <3>. QED  BY <3>1 DEF Here, At, FindChild
  <2>7. ASSUME NEW v \in stored, KeyOf[v] = walk.key.bytes
        PROVE  LeadsTo(t, Here', v, walk'.depth)
    <3>1. SeekFacts(t, v, walk.depth)
      BY <2>1, <2>2, <2>7, SeekKnows
    <3>2. /\ n \in DOMAIN nodes /\ DepthBehind(Here) = Full(t, n) /\ ByteAt(walk.key, Full(t, n) + 1) = KeyOf[v][Full(t, n) + 1]
          /\ KeyOf[v][Full(t, n) + 1] \in DOMAIN nodes[n].child
          /\ LeadsTo(t, nodes[n].child[KeyOf[v][Full(t, n) + 1]], v, Full(t, n) + 1)
      BY <2>2, <3>1, SeekAtNode
    <3>3. e = Full(t, n) + 1 /\ c = KeyOf[v][Full(t, n) + 1]
      BY <3>2
    <3>. HIDE DEF e, c, n
    <3>4. Here' = nodes[n].child[c] /\ LeadsTo(t, nodes[n].child[c], v, e)
      BY <2>6, <3>2, <3>3 DEF FindChild
    <3>. QED  BY <2>5, <3>4
  <2>8. Sought(t)'
    BY <2>2, <2>5, <2>7 DEF Sought
  <2>9. IsState(t)'
    BY <2>1, <2>2 DEF IsState
  <2>. QED  BY <2>1, <2>8, <2>9 DEF LookInv
<1>. QED  BY <1>2, <1>3, <1>4, <1>5, LookupCases

\* A lookup that is over has found what there is.
LEMMA LookupFinds ==
    ASSUME KeyHypotheses, KeysNotEmpty, TreeInv, LookInv, Next, answer' # answer
    PROVE  { v \in stored : KeyOf[v] = answer'.key } \subseteq answer'.found
<1>1. CASE Calls /\ UNCHANGED family
  <2>1. answer' = NoAnswer
    BY <1>1 DEF Calls, Insert, Lookup, RangeLookup, Call
  <2>2. stored \subseteq LeafValues
    BY DEF TreeInv, IsState, IsTree, TreeTypes
  <2>. QED  BY <2>1, <2>2 DEF KeysNotEmpty, NoAnswer
<1>2. CASE LookupStep
  <2>1. PICK t : IsState(t) /\ IsTree(t) /\ Sought(t)
    BY DEF LookInv
  <2>2. walk.op = "lookup"
    BY <1>2 DEF LookupStep, LookupMissing, LookupLeaf, LookupDescend
  <2>3. LookupMissing \/ LookupLeaf
    BY <1>2 DEF LookupStep, LookupDescend
  <2>4. answer'.key = walk.key.bytes
    BY <2>3 DEF LookupMissing, LookupLeaf, Answer
  <2>5. SUFFICES ASSUME NEW v \in stored, KeyOf[v] = walk.key.bytes
                 PROVE  v \in answer'.found
    BY <2>4
  <2>6. SeekFacts(t, v, walk.depth)
    BY <2>1, <2>2, <2>5, SeekKnows
  <2>7. IsLeaf(Here) /\ LookupLeaf
    <3>1. ASSUME ~IsLeaf(Here) PROVE FALSE
      <4>1. ~PrefixDiffers(NodeAt(Here)) /\ Here # Null
        BY <2>6, <3>1, SeekAtNode
      <4>. QED  BY <2>3, <3>1, <4>1 DEF LookupMissing, LookupLeaf
    <3>2. Here # Null
      BY <3>1 DEF IsLeaf, Null
    <3>. QED  BY <2>3, <3>1, <3>2 DEF LookupMissing
  <2>8. GetLeafValue(Here) = v
    <3>. DEFINE ref == Here
    <3>1. /\ StoreGivesKeys /\ TreeTypes(t) /\ v \in t.stored /\ LeadsTo(t, ref, v, walk.depth) /\ IsLeaf(ref)
      BY <2>6, <2>7 DEF SeekFacts
    <3>. HIDE DEF ref
    <3>2. GetLeafValue(ref) = v
      BY <3>1, LeadsSomewhere
    <3>. QED  BY <3>2 DEF ref
  <2>9. PICK after : answer'.found = IF LeafMatches(v, after) THEN {v} ELSE {}
    BY <2>7, <2>8 DEF LookupLeaf, Answer
  <2>10. LeafMatches(v, after)
    <3>1. LeafKey[v] = KeyOf[v] /\ Len(KeyOf[v]) \in Nat
      BY <2>6 DEF SeekFacts, StoreGivesKeys
    <3>. DEFINE L == Len(walk.key.bytes)
    <3>2. KeyLength = L /\ L \in Nat /\ L = Len(KeyOf[v])
      <4>1. KeyLength = L - 0 /\ L \in Nat
        BY <2>2, <2>5, <3>1 DEF KeyLength
      <4>. HIDE DEF L
      <4>2. KeyLength = L
        BY <4>1
      <4>. QED  BY <2>5, <4>1, <4>2 DEF L
    <3>3. walk.depth \in Nat
      <4>1. Here \in { Here } /\ StoreGivesKeys /\ TreeTypes(t)
        BY <2>6 DEF SeekFacts
      <4>. DEFINE ref == Here
      <4>2. LeadsTo(t, ref, v, walk.depth) /\ v \in t.stored
        BY <2>6 DEF SeekFacts
      <4>3. t.depth[v] \in Nat /\ \A m \in DOMAIN t.nodes : t.from[m] \in Nat
        BY <4>1, <4>2 DEF TreeTypes
      <4>. HIDE DEF ref
      <4>. QED  BY <4>2, <4>3 DEF LeadsTo
    <3>4. \A i \in 1..L : LoadKey(v, KeyLength, after).bytes[i] = walk.key.bytes[i]
      <4>. HIDE DEF L
      <4>. QED  BY <2>5, <3>1, <3>2 DEF LoadKey
    <3>5. \A i \in ((IF walk.skipped THEN 0 ELSE walk.depth) + 1)..KeyLength : i \in 1..L
      <4>. HIDE DEF L
      <4>. QED  BY <3>2, <3>3
    <3>. HIDE DEF L
    <3>. QED  BY <3>4, <3>5 DEF LeafMatches
  <2>. QED  BY <2>9, <2>10
<1>3. CASE InsertStep
  BY <1>3 DEF InsertStep, InsertIntoEmpty, SplitLeaf, BreakPrefix, Descend, AddChild
<1>4. CASE RangeStep
  BY <1>4 DEF RangeStep, PrefixStep, PrefixNothing, PrefixLeaf, PrefixNode, Answered
<1>. QED  BY <1>1, <1>2, <1>3, <1>4 DEF Next, MapStep

\* A key that was inserted is found, when what is read back of a prefix is
\* within the buffers.
THEOREM InsertedIsFound ==
    ASSUME KeyHypotheses, KeysNotEmpty
    PROVE  Spec => StoredIsFound
<1>1. Init => LookInv
  BY LookStarts
<1>2. TreeInv /\ LookInv /\ [Next]_vars => LookInv'
  BY LookKept
<1>3. /\ TreeInv /\ LookInv /\ [Next]_vars
      => [answer' # answer => { v \in stored : KeyOf[v] = answer'.key } \subseteq answer'.found]_vars
  <2>1. ASSUME TreeInv, LookInv, Next
        PROVE  answer' # answer => { v \in stored : KeyOf[v] = answer'.key } \subseteq answer'.found
    BY <2>1, LookupFinds
  <2>. QED  BY <2>1
<1>. QED  BY <1>1, <1>2, <1>3, AlwaysTree, PTL DEF Spec, StoredIsFound

-----------------------------------------------------------------------------
(* The tree is a map.                                                      *)

\* A lookup that may have skipped bytes and stands behind all of its key: the
\* leaf that is not compared is the one of the key.
LEMMA SkippedEnds ==
    ASSUME KeyHypotheses, MapHypotheses, TreeInv, NEW t, IsState(t), IsTree(t),
           NEW q \in family.queries, MaxPrefixLength < Len(q),
           NEW n \in DOMAIN nodes, Full(t, n) + 1 = Len(q),
           NEW w \in stored, Passes(t, n, KeyOf[w]), NextOf(t, n, KeyOf[w]) = q[Len(q)]
    PROVE  KeyOf[w] = q
<1>. DEFINE f == Full(t, n)
            L == Len(q)
            K == KeyOf[w]
<1>1. /\ StoreGivesKeys /\ TreeTypes(t) /\ t.nodes = nodes /\ t.stored = stored /\ Branches(t, n)
      /\ family \in Families /\ stored \subseteq family.leafValues /\ stored \subseteq LeafValues
  BY DEF KeyHypotheses, IsState, IsTree, TreeTypes, TreeInv, Belongs
<1>2. QueriesApart(family) /\ SkipsAreChecked(family)
  BY <1>1 DEF MapHypotheses
<1>3. f \in Nat /\ L \in Nat /\ f = L - 1
  <2>1. f \in Nat
    BY <1>1, NodeTypes
  <2>2. q \in Seq(Bytes)
    BY <1>2 DEF QueriesApart
  <2>3. L \in Nat /\ f + 1 = L
    BY <2>2
  <2>. HIDE DEF f, L
  <2>. QED  BY <2>1, <2>3
<1>4. PICK u, v \in stored : /\ Passes(t, n, KeyOf[u]) /\ Passes(t, n, KeyOf[v])
                             /\ NextOf(t, n, KeyOf[u]) # NextOf(t, n, KeyOf[v])
  BY <1>1 DEF Branches
<1>5. /\ u \in LeafValues /\ v \in LeafValues /\ w \in LeafValues /\ u # v
      /\ u \in family.leafValues /\ v \in family.leafValues /\ w \in family.leafValues
  BY <1>1, <1>4
<1>6. Same(KeyOf[u], KeyOf[v], f) /\ Same(K, KeyOf[u], f)
  BY <1>1, <1>4, <1>5, PassTogether
<1>7. KeyOf[u][L] # KeyOf[v][L] /\ K[L] = q[L]
  <2>1. Full(t, n) + 1 = L
    OBVIOUS
  <2>. HIDE DEF L
  <2>. QED  BY <1>4, <2>1 DEF NextOf, L
<1>8. Same(q, KeyOf[u], f)
  <2>1. \A x, y \in family.leafValues :
           x # y /\ Same(KeyOf[x], KeyOf[y], L - 1) /\ KeyOf[x][L] # KeyOf[y][L] => Same(q, KeyOf[x], L - 1)
    BY <1>2 DEF SkipsAreChecked
  <2>. HIDE DEF f, L
  <2>. QED  BY <1>3, <1>5, <1>6, <1>7, <2>1
<1>9. L <= Len(K)
  <2>1. f < Len(K)
    BY <1>1 DEF Branches
  <2>2. Len(K) \in Nat
    BY <1>1, <1>5, KeyTypes
  <2>. HIDE DEF f, L, K
  <2>. QED  BY <1>3, <2>1, <2>2
<1>10. \A i \in 1..L : q[i] = K[i]
  <2>1. \A i \in 1..f : q[i] = KeyOf[u][i] /\ K[i] = KeyOf[u][i]
    BY <1>6, <1>8 DEF Same
  <2>2. \A i \in 1..L : i \in 1..f \/ i = L
    <3>. HIDE DEF f, L
    <3>. QED  BY <1>3
  <2>. HIDE DEF f, L, K
  <2>. QED  BY <1>7, <2>1, <2>2
<1>11. q = K \/ Apart(q, K)
  BY <1>2, <1>5 DEF QueriesApart
<1>. QED  BY <1>10, <1>11 DEF Apart

\* The bytes that a lookup has passed are those of all keys below, unless it
\* has skipped a prefix.
Tracks(t) ==
    walk.op = "lookup" =>
        LET q == walk.key.bytes
            d == walk.depth
        IN  /\ q \in family.queries /\ d \in Nat /\ walk.skipped \in BOOLEAN
            /\ ~walk.skipped => \A w \in stored : LeadsTo(t, Here, w, d) => Same(KeyOf[w], q, d)
            /\ walk.skipped => MaxPrefixLength < d
            /\ walk.skipped /\ d = Len(q) => \A w \in stored : LeadsTo(t, Here, w, d) => KeyOf[w] = q
            /\ Here # Null => \E w \in stored : LeadsTo(t, Here, w, d)

TrackInv == \E t : IsState(t) /\ IsTree(t) /\ Tracks(t)

\* Nothing differs in the bytes up to f, and q is key K or apart from it.
Alike(q, K, f) == (K = q \/ Apart(q, K)) /\ \A i \in 1..f : i <= Len(q) => q[i] = K[i]

LEMMA AgreeOn ==
    ASSUME NEW K \in Seq(Nat), NEW q \in Seq(Nat), NEW f \in Nat, f < Len(K), Alike(q, K, f)
    PROVE  Same(K, q, f) /\ f < Len(q)
<1>. USE DEF Alike
<1>1. Len(K) \in Nat /\ Len(q) \in Nat
  OBVIOUS
<1>2. CASE K = q
  BY <1>1, <1>2 DEF Same
<1>3. CASE Apart(q, K)
  <2>1. PICK i \in 1..Len(q) : i <= Len(K) /\ q[i] # K[i]
    BY <1>3 DEF Apart
  <2>2. f < i
    BY <1>1, <2>1
  <2>3. f < Len(q) /\ \A j \in 1..f : j <= Len(q)
    BY <1>1, <2>1, <2>2
  <2>. QED  BY <1>1, <2>3 DEF Same
<1>. QED  BY <1>2, <1>3

LEMMA TrackAtNode ==
    ASSUME KeyHypotheses, MapHypotheses, TreeInv, NEW t, IsState(t), IsTree(t), Tracks(t), walk.op = "lookup",
           Here # Null, ~IsLeaf(Here), ~PrefixDiffers(NodeAt(Here))
    PROVE  LET n == Here \div 2
               f == Full(t, n)
           IN  /\ n \in DOMAIN nodes /\ DepthBehind(Here) = f /\ f \in Nat
               /\ nodes[n].prefixLength \in Nat /\ f = walk.depth + nodes[n].prefixLength
               /\ ~walk.skipped /\ ~SkipsPrefix(NodeAt(Here)) =>
                     \A w \in stored : Passes(t, n, KeyOf[w]) => Same(KeyOf[w], walk.key.bytes, f) /\ f < Len(walk.key.bytes)
<1>. DEFINE n == Here \div 2
            f == Full(t, n)
            d == walk.depth
            q == walk.key.bytes
            ref == Here
            pl == nodes[n].prefixLength
<1>1. /\ StoreGivesKeys /\ TreeTypes(t) /\ t.nodes = nodes /\ t.stored = stored
      /\ family \in Families /\ stored \subseteq family.leafValues /\ stored \subseteq LeafValues
      /\ q \in family.queries /\ d \in Nat
      /\ ~walk.skipped => \A w \in stored : LeadsTo(t, ref, w, d) => Same(KeyOf[w], q, d)
      /\ \E w \in stored : LeadsTo(t, ref, w, d)
  BY DEF KeyHypotheses, IsState, IsTree, TreeTypes, TreeInv, Belongs, Tracks
<1>2. QueriesApart(family)
  BY <1>1 DEF MapHypotheses
<1>3. n \in DOMAIN t.nodes /\ t.from[n] = d /\ ref = Address(n)
  <2>1. PICK u \in t.stored : LeadsTo(t, ref, u, d)
    BY <1>1
  <2>2. ~IsLeaf(ref)
    OBVIOUS
  <2>. HIDE DEF ref, d
  <2>3. ref \div 2 \in DOMAIN t.nodes /\ t.from[ref \div 2] = d /\ ref = Address(ref \div 2)
    BY <1>1, <2>1, <2>2, LeadsSomewhere
  <2>. QED  BY <2>3 DEF ref
<1>. HIDE DEF ref
<1>4. f \in Nat /\ f = d + pl /\ pl \in Nat /\ t.under[n] \in LeafValues
  BY <1>1, <1>3, NodeTypes DEF Full
<1>5. DepthBehind(Here) = f
  BY <1>1, <1>4 DEF DepthBehind, NodeAt
<1>6. ASSUME ~walk.skipped, ~SkipsPrefix(NodeAt(Here)), NEW w \in stored, Passes(t, n, KeyOf[w])
      PROVE  Same(KeyOf[w], q, f) /\ f < Len(q)
  <2>. DEFINE K == KeyOf[w]
  <2>1. Keeps(t, n) /\ Branches(t, n)
    BY <1>3 DEF IsTree
  <2>2. pl < MaxPrefixLength /\ Len(nodes[n].prefix) = pl
    <3>1. pl < MaxPrefixLength
      BY <1>4, <1>6, TreeAssumption DEF SkipsPrefix, NodeAt
    <3>. QED  BY <1>1, <1>4, <2>1, <3>1, TreeAssumption DEF Keeps, Least
  <2>3. \A i \in 1..pl : ByteAt(walk.key, d + i) = nodes[n].prefix[i]
    BY <1>6 DEF PrefixDiffers, NodeAt
  <2>4. \A i \in 1..pl : nodes[n].prefix[i] = KeyOf[t.under[n]][d + i]
    BY <1>1, <1>3, <2>1, <2>2 DEF Keeps
  <2>5. w \in LeafValues /\ K \in Seq(Nat)
    BY <1>1, KeyTypes
  <2>6. q \in Seq(Nat) /\ (K = q \/ Apart(q, K))
    <3>1. q \in Seq(Bytes) /\ (q = K \/ Apart(q, K))
      BY <1>1, <1>2 DEF QueriesApart
    <3>2. \A b \in Bytes : b \in Nat
      <4>1. Bytes \subseteq 0..255
        BY TreeAssumption, Zenon
      <4>. QED  BY <4>1
    <3>3. Len(q) \in Nat /\ \A i \in 1..Len(q) : q[i] \in Nat
      <4>. HIDE DEF q, K
      <4>. QED  BY <3>1, <3>2
    <3>. HIDE DEF q, K
    <3>. QED  BY <3>1, <3>3
  <2>7. f < Len(K)
    BY <1>1, <1>6, <2>1 DEF Branches
  <2>8. Same(K, q, d)
    <3>1. LeadsTo(t, ref, w, d)
      BY <1>3, <1>6 DEF LeadsTo
    <3>. QED  BY <1>1, <1>6, <3>1
  <2>9. ASSUME NEW i \in 1..f, i <= Len(q)
        PROVE  q[i] = K[i]
    <3>1. CASE i <= d
      <4>1. i \in 1..d
        BY <1>1, <3>1
      <4>. QED  BY <2>8, <4>1 DEF Same
    <3>2. CASE i > d
      <4>1. i - d \in 1..pl /\ d + (i - d) = i /\ i \in Nat
        <5>1. f = d + pl /\ pl \in Nat /\ d \in Nat
          BY <1>1, <1>4
        <5>. HIDE DEF f, pl, d
        <5>. QED  BY ONLY <5>1, <3>2, i \in 1..f
      <4>2. ByteAt(walk.key, i) = q[i]
        BY <2>9 DEF ByteAt
      <4>3. K[i] = KeyOf[t.under[n]][i]
        BY <1>6 DEF Passes, Same
      <4>. HIDE DEF q, K
      <4>. QED  BY <2>3, <2>4, <4>1, <4>2, <4>3
    <3>. QED  BY <1>1, <1>4, <3>1, <3>2
  <2>10. Alike(q, K, f)
    BY <2>6, <2>9 DEF Alike
  <2>11. Same(K, q, f) /\ f < Len(q)
    <3>. HIDE DEF K, q, f
    <3>1. K \in Seq(Nat) /\ q \in Seq(Nat) /\ f \in Nat
      BY <1>4, <2>5, <2>6
    <3>. QED  BY ONLY <2>7, <2>10, <3>1, AgreeOn
  <2>. HIDE DEF q, f
  <2>. QED  BY <2>11
<1>. QED  BY <1>1, <1>3, <1>4, <1>5, <1>6

LEMMA TrackStarts ==
    ASSUME KeyHypotheses, Init
    PROVE  TrackInv
<1>1. PICK t : IsState(t) /\ IsTree(t)
  BY StartsWell DEF TreeInv
<1>2. walk.op = "idle"
  BY DEF Init, Idle
<1>. QED  BY <1>1, <1>2 DEF TrackInv, Tracks

\* One step down.
LEMMA TrackDescends ==
    ASSUME KeyHypotheses, MapHypotheses, TreeInv, TrackInv, LookupDescend, UNCHANGED <<family, range>>
    PROVE  TrackInv'
<1>1. PICK t : IsState(t) /\ IsTree(t) /\ Tracks(t)
  BY DEF TrackInv
<1>2. UNCHANGED <<nodes, tree, fresh, stored>> /\ walk.op = "lookup" /\ Here # Null /\ ~IsLeaf(Here) /\ ~PrefixDiffers(NodeAt(Here))
  BY DEF LookupDescend
<1>. DEFINE n == Here \div 2
            f == Full(t, n)
            e == f + 1
            q == walk.key.bytes
            c == ByteAt(walk.key, e)
            d == walk.depth
            pl == nodes[n].prefixLength
            skipped == walk.skipped \/ SkipsPrefix(NodeAt(Here))
<1>3. /\ StoreGivesKeys /\ TreeTypes(t) /\ t.nodes = nodes /\ t.stored = stored
      /\ stored \subseteq LeafValues /\ q \in family.queries /\ d \in Nat
      /\ walk.skipped => MaxPrefixLength < d
  BY <1>1, <1>2 DEF KeyHypotheses, IsState, IsTree, TreeTypes, Tracks
<1>4. q \in Seq(Bytes) /\ Len(q) \in Nat
  <2>1. q \in Seq(Bytes)
    BY <1>3 DEF MapHypotheses, QueriesApart, TreeInv, Belongs
  <2>. HIDE DEF q
  <2>. QED  BY <2>1
<1>5. /\ n \in DOMAIN nodes /\ DepthBehind(Here) = f /\ f \in Nat /\ pl \in Nat /\ f = d + pl
      /\ ~skipped => \A w \in stored : Passes(t, n, KeyOf[w]) => Same(KeyOf[w], q, f) /\ f < Len(q)
  BY <1>1, <1>2, TrackAtNode
<1>6. DOMAIN walk = {"op", "key", "depth", "leaf", "skipped", "slot"}
  BY DEF TreeInv, Walks, Idle
<1>7. walk'.depth = e /\ walk'.slot = <<n, c>> /\ walk'.key = walk.key /\ walk'.op = "lookup" /\ walk'.skipped = skipped
  <2>1. Step(skipped)
    BY DEF LookupDescend
  <2>2. walk' = [walk EXCEPT !.depth = e, !.slot = <<n, c>>, !.skipped = skipped]
    BY <1>5, <2>1 DEF Step
  <2>. HIDE DEF n, e, c, skipped
  <2>. QED  BY <1>2, <1>6, <2>2
<1>8. Here' = FindChild(nodes[n], c)
  <2>1. walk'.slot # Root /\ walk'.slot[1] = n /\ walk'.slot[2] = c /\ Root' = Root /\ nodes' = nodes
    BY <1>2, <1>7 DEF Root
  <2>. HIDE DEF n, c
  <2>. QED  BY <2>1 DEF Here, At, FindChild
<1>9. skipped \in BOOLEAN /\ e \in Nat /\ (skipped => MaxPrefixLength < e)
  <2>1. e \in Nat /\ d < e /\ pl < e
    <3>. HIDE DEF f, d, pl
    <3>. QED  BY <1>3, <1>5
  <2>2. MaxPrefixLength \in Nat
    BY TreeAssumption
  <2>3. SkipsPrefix(NodeAt(Here)) => MaxPrefixLength <= pl
    BY <1>5, <2>2 DEF SkipsPrefix, NodeAt
  <2>4. walk.skipped \in BOOLEAN
    BY <1>1, <1>2 DEF Tracks
  <2>5. (walk.skipped \/ SkipsPrefix(NodeAt(Here))) => MaxPrefixLength < e
    <3>. HIDE DEF e, d, pl
    <3>. QED  BY <1>3, <1>5, <2>1, <2>2, <2>3
  <2>6. skipped \in BOOLEAN
    BY <2>4 DEF SkipsPrefix
  <2>. QED  BY <2>1, <2>5, <2>6
<1>10. ASSUME e <= Len(q)
       PROVE  c = q[e]
  BY <1>10 DEF ByteAt
<1>. HIDE DEF e, c, skipped
<1>11. ASSUME NEW w \in stored, LeadsTo(t, Here', w, e)
       PROVE  Passes(t, n, KeyOf[w]) /\ NextOf(t, n, KeyOf[w]) = c /\ f < Len(KeyOf[w]) /\ Len(KeyOf[w]) \in Nat
  <2>1. Here' # Null
    <3>. DEFINE r == Here'
    <3>1. LeadsTo(t, r, w, e) /\ w \in t.stored
      BY <1>3, <1>11
    <3>. HIDE DEF r
    <3>2. r # Null
      BY <1>3, <3>1, LeadsSomewhere
    <3>. QED  BY <3>2 DEF r
  <2>2. c \in DOMAIN t.nodes[n].child /\ LeadsTo(t, t.nodes[n].child[c], w, e)
    BY <1>3, <1>8, <1>11, <2>1 DEF FindChild
  <2>3. w \in LeafValues
    BY <1>3
  <2>. HIDE DEF n
  <2>4. Passes(t, n, KeyOf[w]) /\ NextOf(t, n, KeyOf[w]) = c /\ Full(t, n) < Len(KeyOf[w])
    BY <1>1, <1>3, <1>5, <2>2, ChildAgrees DEF e
  <2>. QED  BY <1>3, <2>3, <2>4, KeyTypes
<1>12. ASSUME ~skipped, NEW w \in stored, LeadsTo(t, Here', w, e)
       PROVE  Same(KeyOf[w], q, e)
  <2>1. Passes(t, n, KeyOf[w]) /\ NextOf(t, n, KeyOf[w]) = c /\ f < Len(KeyOf[w]) /\ Len(KeyOf[w]) \in Nat
    BY <1>11, <1>12
  <2>2. Same(KeyOf[w], q, f) /\ f < Len(q)
    BY <1>5, <1>12, <2>1
  <2>3. KeyOf[w][f + 1] = q[f + 1]
    <3>1. e <= Len(q)
      <4>. HIDE DEF f, q
      <4>. QED  BY <1>4, <1>5, <2>2 DEF e
    <3>. QED  BY <1>10, <2>1, <3>1 DEF NextOf, e
  <2>. HIDE DEF f, q
  <2>. QED  BY <1>4, <1>5, <2>1, <2>2, <2>3 DEF Same, e
<1>13. ASSUME skipped, e = Len(q), NEW w \in stored, LeadsTo(t, Here', w, e)
       PROVE  KeyOf[w] = q
  <2>1. Passes(t, n, KeyOf[w]) /\ NextOf(t, n, KeyOf[w]) = c
    BY <1>11, <1>13
  <2>2. MaxPrefixLength < Len(q) /\ c = q[Len(q)]
    <3>1. e <= Len(q)
      <4>. HIDE DEF q
      <4>. QED  BY <1>9, <1>13
    <3>. QED  BY <1>9, <1>10, <1>13, <3>1
  <2>3. Full(t, n) + 1 = Len(q)
    BY <1>13 DEF e
  <2>4. n \in DOMAIN nodes /\ q \in family.queries
    BY <1>3, <1>5
  <2>. HIDE DEF n, q
  <2>. QED  BY <1>1, <2>1, <2>2, <2>3, <2>4, SkippedEnds
<1>14. Here' # Null => \E w \in stored : LeadsTo(t, Here', w, e)
  <2>1. SUFFICES ASSUME Here' # Null PROVE \E w \in stored : LeadsTo(t, Here', w, e)
    OBVIOUS
  <2>2. c \in DOMAIN t.nodes[n].child /\ Here' = t.nodes[n].child[c]
    BY <1>3, <1>8, <2>1 DEF FindChild
  <2>3. n \in DOMAIN t.nodes
    BY <1>3, <1>5
  <2>. HIDE DEF n
  <2>4. \E v \in t.stored : LeadsTo(t, t.nodes[n].child[c], v, Full(t, n) + 1)
    BY <1>1, <1>3, <2>2, <2>3, ChildLeads
  <2>. QED  BY <1>3, <2>2, <2>4 DEF e
<1>15. Tracks(t)'
  <2>1. walk'.key.bytes = q /\ walk'.depth = e /\ walk'.skipped = skipped /\ stored' = stored /\ family' = family
    BY <1>2, <1>7
  <2>2. q \in family'.queries
    BY <1>3, <2>1
  <2>. HIDE DEF q
  <2>. QED  BY <1>9, <1>12, <1>13, <1>14, <2>1, <2>2 DEF Tracks
<1>16. IsState(t)'
  BY <1>1, <1>2 DEF IsState
<1>. QED  BY <1>1, <1>15, <1>16 DEF TrackInv

LEMMA TrackKept ==
    ASSUME KeyHypotheses, MapHypotheses, TreeInv, TrackInv, [Next]_vars
    PROVE  TrackInv'
<1>1. TreeInv'
  BY InvariantKept
<1>2. CASE UNCHANGED vars
  BY <1>2 DEF vars, TrackInv, IsState, Tracks, Here, At
<1>3. CASE walk'.op # "lookup"
  <2>1. PICK t : IsState(t)' /\ IsTree(t)
    BY <1>1 DEF TreeInv
  <2>2. Tracks(t)'
    BY <1>3 DEF Tracks
  <2>. QED  BY <2>1, <2>2 DEF TrackInv
<1>4. ASSUME NEW key \in family.queries, Lookup(key), UNCHANGED family
      PROVE  TrackInv'
  <2>1. PICK t : IsState(t) /\ IsTree(t)
    BY DEF TreeInv
  <2>2. /\ walk'.depth = 0 /\ walk'.skipped = FALSE /\ walk'.key.bytes = key
        /\ UNCHANGED <<nodes, tree, fresh, stored>>
    BY <1>4 DEF Lookup, Call, Idle
  <2>3. \A w \in stored : Same(KeyOf[w], key, 0)
    <3>1. \A w \in stored : Len(KeyOf[w]) \in Nat
      <4>1. stored \subseteq LeafValues /\ StoreGivesKeys
        BY <2>1 DEF IsState, IsTree, TreeTypes, KeyHypotheses
      <4>. QED  BY <4>1, KeyTypes
    <3>2. Len(key) \in Nat
      <4>1. key \in Seq(Bytes)
        BY <1>4 DEF MapHypotheses, QueriesApart, TreeInv, Belongs
      <4>. QED  BY <4>1
    <3>. QED  BY <3>1, <3>2 DEF Same
  <2>6. Here' # Null => \E w \in stored : LeadsTo(t, Here', w, 0)
    <3>1. Here' = tree
      BY <1>4 DEF Lookup, Call, Idle, Here, At, Root
    <3>. QED  BY <2>1, <3>1 DEF IsState, IsTree
  <2>4. Tracks(t)'
    <3>. DEFINE r == Here'
    <3>1. Here' = r /\ key \in family'.queries /\ stored' = stored /\ 0 \in Nat
      BY <1>4, <2>2
    <3>2. \A w \in stored : LeadsTo(t, r, w, 0) => Same(KeyOf[w], key, 0)
      BY <2>3
    <3>3. r # Null => \E w \in stored : LeadsTo(t, r, w, 0)
      BY <2>6
    <3>. HIDE DEF r
    <3>. QED  BY ONLY <2>2, <3>1, <3>2, <3>3 DEF Tracks
  <2>5. IsState(t)'
    BY <2>1, <2>2 DEF IsState
  <2>. QED  BY <2>1, <2>4, <2>5 DEF TrackInv
<1>. QED  BY <1>2, <1>3, <1>4, LookupCases, TrackDescends

\* A lookup that is over has found nothing else.
LEMMA LookupExact ==
    ASSUME KeyHypotheses, MapHypotheses, TreeInv, TrackInv, LookupLeaf
    PROVE  answer'.found \subseteq { v \in stored : KeyOf[v] = walk.key.bytes }
<1>1. PICK t : IsState(t) /\ IsTree(t) /\ Tracks(t)
  BY DEF TrackInv
<1>. DEFINE q == walk.key.bytes
            d == walk.depth
            ref == Here
            L == Len(q)
<1>2. walk.op = "lookup" /\ IsLeaf(ref) /\ ref # Null
  BY DEF LookupLeaf, IsLeaf, Null
<1>3. PICK v \in stored : LeadsTo(t, ref, v, d)
  BY <1>1, <1>2 DEF Tracks
<1>4. /\ StoreGivesKeys /\ TreeTypes(t) /\ v \in t.stored /\ v \in LeafValues /\ v \in family.leafValues
      /\ family \in Families /\ q \in family.queries /\ d \in Nat
      /\ walk.skipped => MaxPrefixLength < d
      /\ ~walk.skipped => Same(KeyOf[v], q, d)
      /\ walk.skipped /\ d = L => KeyOf[v] = q
  BY <1>1, <1>2, <1>3 DEF KeyHypotheses, IsState, IsTree, TreeTypes, TreeInv, Belongs, Tracks
<1>5. q \in Seq(Bytes) /\ (q = KeyOf[v] \/ Apart(q, KeyOf[v]))
  BY <1>4 DEF MapHypotheses, QueriesApart
<1>6. GetLeafValue(ref) = v
  <2>. HIDE DEF ref, d
  <2>. QED  BY <1>2, <1>3, <1>4, LeadsSomewhere
<1>7. PICK after : answer'.found = IF LeafMatches(v, after) THEN {v} ELSE {}
  BY <1>6 DEF LookupLeaf, Answer
<1>8. L \in Nat /\ KeyLength = L
  <2>1. L \in Nat /\ KeyLength = L - 0
    BY <1>2, <1>5 DEF KeyLength
  <2>. HIDE DEF L
  <2>. QED  BY <2>1
<1>9. LeafKey[v] = KeyOf[v] /\ Len(KeyOf[v]) \in Nat
  BY <1>4, KeyTypes DEF StoreGivesKeys
<1>10. ASSUME LeafMatches(v, after)
       PROVE  q = KeyOf[v]
  <2>1. SUFFICES ASSUME Apart(q, KeyOf[v]) PROVE FALSE
    BY <1>5
  <2>2. PICK i \in 1..L : i <= Len(KeyOf[v]) /\ q[i] # KeyOf[v][i]
    BY <2>1 DEF Apart
  <2>3. ~walk.skipped => d < i
    <3>1. ASSUME ~walk.skipped, i <= d PROVE FALSE
      <4>1. i \in 1..d
        BY <1>4, <1>8, <3>1
      <4>. QED  BY <1>4, <2>2, <3>1, <4>1 DEF Same
    <3>. HIDE DEF d, L
    <3>. QED  BY <1>4, <1>8, <3>1
  <2>4. d # KeyLength
    <3>1. walk.skipped => d # L
      BY <1>4, <2>2
    <3>. HIDE DEF d, L
    <3>. QED  BY <1>4, <1>8, <2>3, <3>1
  <2>7. i \in ((IF walk.skipped THEN 0 ELSE d) + 1)..KeyLength
    <3>. HIDE DEF d, L
    <3>. QED  BY <1>4, <1>8, <2>3
  <2>5. LoadKey(v, KeyLength, after).bytes[i] = q[i]
    BY <1>10, <2>4, <2>7 DEF LeafMatches
  <2>6. LoadKey(v, KeyLength, after).bytes[i] = KeyOf[v][i]
    <3>. HIDE DEF L
    <3>. QED  BY <1>8, <1>9, <2>2 DEF LoadKey
  <2>. QED  BY <2>2, <2>5, <2>6
<1>. QED  BY <1>3, <1>7, <1>10

\* Each step of the tree is one of the map, or none.
LEMMA MapSteps ==
    ASSUME KeyHypotheses, MapHypotheses, TreeInv, LookInv, TrackInv, [Next]_vars
    PROVE  [Map!Next]_<<stored, answer>>
<1>1. CASE UNCHANGED vars
  BY <1>1 DEF vars
<1>2. CASE Calls /\ UNCHANGED family
  <2>1. answer' = NoAnswer /\ stored' = stored
    BY <1>2 DEF Calls, Insert, Lookup, RangeLookup, Call
  <2>2. Map!Call
    BY <2>1 DEF Map!Call, Map!NoAnswer, NoAnswer
  <2>. QED  BY <2>2 DEF Map!Next
<1>3. CASE InsertStep
  <2>1. answer' = answer
    BY <1>3 DEF InsertStep, InsertIntoEmpty, SplitLeaf, BreakPrefix, Descend, AddChild
  <2>2. CASE stored' = stored
    BY <2>1, <2>2
  <2>3. CASE Inserted
    <3>1. walk.op = "insert"
      BY <1>3 DEF InsertStep, InsertIntoEmpty, SplitLeaf, BreakPrefix, Descend, AddChild, PassPrefix
    <3>2. walk.leaf \in family.leafValues \ stored /\ family.leafValues \subseteq LeafValues
      BY <3>1, TreeAssumption DEF TreeInv, Inserting, Belongs
    <3>3. Map!Insert
      BY <2>1, <2>3, <3>2 DEF Map!Insert, Inserted
    <3>. QED  BY <3>3 DEF Map!Next
  <2>. QED  BY <1>3, <2>2, <2>3 DEF InsertStep, InsertIntoEmpty, SplitLeaf, BreakPrefix, Descend, AddChild
<1>4. CASE LookupStep /\ UNCHANGED <<family, range>>
  <2>1. CASE answer' = answer
    <3>1. stored' = stored
      BY <1>4 DEF LookupStep, LookupMissing, LookupLeaf, LookupDescend, Answer
    <3>. QED  BY <2>1, <3>1
  <2>2. CASE answer' # answer
    <3>1. LookupMissing \/ LookupLeaf
      BY <1>4, <2>2 DEF LookupStep, LookupDescend
    <3>2. /\ stored' = stored /\ answer' = [key |-> walk.key.bytes, found |-> answer'.found] /\ walk.op = "lookup"
          /\ answer'.key = walk.key.bytes
      BY <3>1 DEF LookupMissing, LookupLeaf, Answer
    <3>3. answer'.found = { v \in stored : KeyOf[v] = walk.key.bytes }
      <4>1. { v \in stored : KeyOf[v] = answer'.key } \subseteq answer'.found
        <5>1. Next
          BY <1>4 DEF Next, MapStep
        <5>. QED  BY <2>2, <5>1, LookupFinds DEF MapHypotheses
      <4>2. answer'.found \subseteq { v \in stored : KeyOf[v] = walk.key.bytes }
        <5>1. CASE LookupLeaf
          BY <5>1, LookupExact
        <5>2. CASE LookupMissing
          BY <5>2 DEF LookupMissing, Answer
        <5>. QED  BY <3>1, <5>1, <5>2
      <4>. QED  BY <3>2, <4>1, <4>2
    <3>4. walk.key.bytes \in Queries
      <4>1. walk.key.bytes \in family.queries /\ family \in Families
        BY <3>2 DEF TrackInv, Tracks, TreeInv, Belongs
      <4>. QED  BY <4>1, TreeAssumption
    <3>5. Map!Lookup
      BY <3>2, <3>3, <3>4 DEF Map!Lookup
    <3>. QED  BY <3>5 DEF Map!Next
  <2>. QED  BY <2>1, <2>2
<1>5. CASE RangeStep
  <2>1. stored' = stored /\ answer' = answer
    BY <1>5 DEF RangeStep, PrefixStep, PrefixNothing, PrefixLeaf, PrefixNode, Answered
  <2>. QED  BY <2>1
<1>. QED  BY <1>1, <1>2, <1>3, <1>4, <1>5 DEF Next, MapStep

\* The tree does what a map does (lookupValue and insertValue of ARTBase.cpp), also
\* where lookups skip bytes, as long as the leaf is then compared (SkipsAreChecked).
THEOREM TreeImplementsMap ==
    ASSUME KeyHypotheses, MapHypotheses
    PROVE  Spec => ImplementsMap
<1>1. Init => LookInv /\ TrackInv
  BY LookStarts, TrackStarts
<1>2. TreeInv /\ LookInv /\ [Next]_vars => LookInv'
  BY LookKept
<1>3. TreeInv /\ TrackInv /\ [Next]_vars => TrackInv'
  BY TrackKept
<1>4. Init => Map!Init
  BY DEF Init, Map!Init, Map!NoAnswer, NoAnswer
<1>5. TreeInv /\ LookInv /\ TrackInv /\ [Next]_vars => [Map!Next]_<<stored, answer>>
  BY MapSteps
<1>. QED  BY <1>1, <1>2, <1>3, <1>4, <1>5, AlwaysTree, PTL DEF Spec, ImplementsMap, Map!Spec

-----------------------------------------------------------------------------
(* Range lookups.                                                          *)

\* Within the prefix, the bytes that a range lookup has passed are those of all
\* keys below, and all keys with the prefix are below; behind it there is at most
\* a leaf, which is not an answer.
RangingOver(t, p) ==
    /\ walk.key.bytes = Append(p, 0) /\ walk.depth \in Nat
    /\ Here # Null => \E u \in stored : LeadsTo(t, Here, u, walk.depth)
    /\ walk.depth <= Len(p) => /\ \A w \in stored : LeadsTo(t, Here, w, walk.depth) => Same(KeyOf[w], walk.key.bytes, walk.depth)
                               /\ \A w \in Matching(p) : LeadsTo(t, Here, w, walk.depth)
    /\ walk.depth > Len(p) => Here = Null \/ IsLeaf(Here)

Ranging(t) == walk.op = "prefix" => \E p \in family.prefixes : RangingOver(t, p)

RangeWalk == \E t : IsState(t) /\ IsTree(t) /\ Ranging(t)

LEMMA StartsWithSame ==
    ASSUME NEW s \in Seq(Nat), NEW p \in Seq(Nat)
    PROVE  /\ StartsWith(s, p) <=> Same(s, Append(p, 0), Len(p))
           /\ SubSeq(Append(p, 0), 1, Len(p)) = p
<1>1. Len(s) \in Nat /\ Len(p) \in Nat /\ Append(p, 0) \in Seq(Nat) /\ Len(Append(p, 0)) = Len(p) + 1
      /\ \A i \in 1..Len(p) : Append(p, 0)[i] = p[i]
  OBVIOUS
<1>2. SubSeq(Append(p, 0), 1, Len(p)) = p
  <2>. DEFINE q == Append(p, 0)
  <2>1. q \in Seq(Nat) /\ Len(p) \in Nat /\ Len(q) = Len(p) + 1 /\ \A i \in 1..Len(p) : q[i] = p[i]
    BY <1>1
  <2>. HIDE DEF q
  <2>2. SubSeq(q, 1, Len(p)) \in Seq(Nat) /\ Len(SubSeq(q, 1, Len(p))) = Len(p)
        /\ \A i \in 1..Len(p) : SubSeq(q, 1, Len(p))[i] = q[i]
    BY <2>1
  <2>3. SubSeq(q, 1, Len(p)) = p
    BY <2>1, <2>2
  <2>. QED  BY <2>3 DEF q
<1>3. ASSUME Len(p) <= Len(s)
      PROVE  SubSeq(s, 1, Len(p)) = p <=> \A i \in 1..Len(p) : s[i] = p[i]
  <2>1. SubSeq(s, 1, Len(p)) \in Seq(Nat) /\ Len(SubSeq(s, 1, Len(p))) = Len(p)
        /\ \A i \in 1..Len(p) : SubSeq(s, 1, Len(p))[i] = s[i]
    BY <1>1, <1>3
  <2>. QED  BY <2>1
<1>4. Same(s, Append(p, 0), Len(p)) <=> Len(p) <= Len(s) /\ \A i \in 1..Len(p) : s[i] = p[i]
  <2>. DEFINE q == Append(p, 0)
  <2>1. Len(p) <= Len(q) /\ \A i \in 1..Len(p) : q[i] = p[i]
    BY <1>1
  <2>. HIDE DEF q
  <2>2. Same(s, q, Len(p)) <=> Len(p) <= Len(s) /\ \A i \in 1..Len(p) : s[i] = p[i]
    BY <2>1 DEF Same
  <2>. QED  BY <2>2 DEF q
<1>. QED  BY <1>2, <1>3, <1>4 DEF StartsWith

LEMMA HeapsAreFinite ==
    ASSUME TreeInv
    PROVE  ChildrenAreBytes /\ IsFiniteSet(DOMAIN nodes)
<1>1. fresh \in Nat /\ DOMAIN nodes \subseteq 1..(fresh - 1) /\ ChildrenAreBytes
  BY DEF TreeInv, Heaps, ChildrenAreBytes
<1>2. IsFiniteSet(1..(fresh - 1))
  <2>. DEFINE b == fresh - 1
              a == 1
  <2>1. a \in Int /\ b \in Int
    BY <1>1
  <2>. HIDE DEF a, b
  <2>2. IsFiniteSet(a..b)
    BY <2>1, FS_Interval
  <2>. QED  BY <2>2 DEF a, b
<1>. QED  BY <1>1, <1>2, FS_Subset

\* What a range lookup knows.
RangeFacts(t, p, d) ==
    /\ StoreGivesKeys /\ NoForkBehind(family) /\ IsState(t) /\ IsTree(t) /\ TreeTypes(t) /\ t.nodes = nodes /\ t.stored = stored
    /\ stored \subseteq LeafValues /\ stored \subseteq family.leafValues
    /\ \A w \in stored : KeyOf[w] \in Seq(Nat) /\ EndsInZero(KeyOf[w])
    /\ p \in family.prefixes /\ p \in Seq(Nat) /\ RangingOver(t, p) /\ d = walk.depth /\ KeyLength = Len(p)
    /\ ChildrenAreBytes /\ IsFiniteSet(DOMAIN nodes)

LEMMA RangeKnows ==
    ASSUME KeyHypotheses, RangeHypotheses, TreeInv, RangeWalk, walk.op = "prefix"
    PROVE  \E t, p, d : RangeFacts(t, p, d)
<1>1. PICK t : IsState(t) /\ IsTree(t) /\ Ranging(t)
  BY DEF RangeWalk
<1>2. PICK p \in family.prefixes : RangingOver(t, p)
  BY <1>1 DEF Ranging
<1>3. /\ StoreGivesKeys /\ TreeTypes(t) /\ t.nodes = nodes /\ t.stored = stored /\ stored \subseteq LeafValues
      /\ family \in Families /\ stored \subseteq family.leafValues
  BY <1>1 DEF KeyHypotheses, IsState, IsTree, TreeTypes, TreeInv, Belongs
<1>4. NoForkBehind(family) /\ p \in Seq(Bytes) /\ \A w \in stored : EndsInZero(KeyOf[w])
  BY <1>2, <1>3 DEF RangeHypotheses, ZerosEnd
<1>5. p \in Seq(Nat)
  <2>1. Bytes \subseteq 0..255
    BY TreeAssumption, Zenon
  <2>2. \A b \in Bytes : b \in Nat
    BY <2>1
  <2>3. p \in Seq(Bytes)
    BY ONLY <1>4
  <2>. QED  BY ONLY <2>2, <2>3
<1>6. \A w \in stored : KeyOf[w] \in Seq(Nat)
  BY <1>3, KeyTypes
<1>7. KeyLength = Len(p)
  <2>1. Len(walk.key.bytes) = Len(p) + 1 /\ Len(p) \in Nat
    BY <1>2, <1>5 DEF RangingOver
  <2>. QED  BY <2>1 DEF KeyLength
<1>8. ChildrenAreBytes /\ IsFiniteSet(DOMAIN nodes)
  BY HeapsAreFinite
<1>. QED  BY <1>1, <1>2, <1>3, <1>4, <1>5, <1>6, <1>7, <1>8 DEF RangeFacts

\* The first difference.
LEMMA FirstDifference ==
    ASSUME NEW pl \in Nat, NEW D \in SUBSET (1..pl), NEW m, m = IF D = {} THEN pl ELSE Min(D) - 1
    PROVE  m \in 0..pl /\ \A i \in 1..m : i \in 1..pl /\ i \notin D
<1>1. CASE D = {}
  BY <1>1
<1>2. CASE D # {}
  <2>1. D \in SUBSET Nat
    OBVIOUS
  <2>2. \E i \in D : \A j \in D : i <= j
    BY <1>2, <2>1, LeastElement
  <2>3. Min(D) \in D /\ \A j \in D : Min(D) <= j
    BY <2>2 DEF Min
  <2>. DEFINE x == Min(D)
  <2>4. x \in 1..pl /\ m = x - 1 /\ \A j \in D : x <= j
    BY <1>2, <2>3
  <2>. HIDE DEF x
  <2>. QED  BY <2>4
<1>. QED  BY <1>1, <1>2

\* With the key of the least leaf below the node, what the code compares with the
\* key: the prefix of the node as far as it is kept, then what is read back.
LEMMA RangeReads ==
    ASSUME KeyHypotheses, NEW t, NEW p, NEW d, RangeFacts(t, p, d), Here # Null, ~IsLeaf(Here), NEW after, NEW m,
           m = PrefixMismatch(Here, walk.key, walk.depth, KeyLength, after)
    PROVE  LET n == Here \div 2
               U == KeyOf[t.under[n]]
               pl == nodes[n].prefixLength
           IN  /\ n \in DOMAIN t.nodes /\ t.from[n] = d /\ Here = Address(n) /\ d \in Nat /\ d <= Len(p) /\ pl \in Nat
               /\ m \in 0..pl
               /\ \A i \in 1..m : i \in 1..pl /\ (i <= MaxPrefixLength \/ d + i <= Len(p) => ByteAt(walk.key, d + i) = U[d + i])
               /\ \A i \in 1..m : i > MaxPrefixLength /\ d + i > Len(p) => ByteAt(walk.key, d + i) = after
<1>. DEFINE ref == Here
            n == ref \div 2
            L == Len(p)
            U == KeyOf[t.under[n]]
            pl == nodes[n].prefixLength
<1>1. /\ StoreGivesKeys /\ IsTree(t) /\ TreeTypes(t) /\ t.nodes = nodes /\ t.stored = stored
      /\ d = walk.depth /\ KeyLength = L /\ L \in Nat /\ walk.depth \in Nat
      /\ ChildrenAreBytes /\ IsFiniteSet(DOMAIN nodes)
      /\ walk.depth > L => Here = Null \/ IsLeaf(Here)
  BY DEF RangeFacts, RangingOver
<1>2. PICK u \in t.stored : LeadsTo(t, ref, u, d)
  BY <1>1 DEF RangeFacts, RangingOver
<1>3. n \in DOMAIN t.nodes /\ t.from[n] = d /\ ref = Address(n)
  <2>1. ~IsLeaf(ref)
    OBVIOUS
  <2>. HIDE DEF ref
  <2>2. ref \div 2 \in DOMAIN t.nodes /\ t.from[ref \div 2] = d /\ ref = Address(ref \div 2)
    BY <1>1, <1>2, <2>1, LeadsSomewhere
  <2>. QED  BY <2>2
<1>4. pl \in Nat /\ d \in Nat /\ d <= L /\ Full(t, n) = d + pl /\ MaxPrefixLength \in Nat /\ t.under[n] \in LeafValues
  <2>1. pl \in Nat /\ Full(t, n) = d + pl /\ t.under[n] \in LeafValues
    <3>. HIDE DEF n
    <3>. QED  BY <1>1, <1>3, NodeTypes DEF Full
  <2>2. d <= L
    <3>1. ~(walk.depth > L)
      BY <1>1
    <3>. HIDE DEF L
    <3>. QED  BY ONLY <1>1, <3>1
  <2>. QED  BY <1>1, <2>1, <2>2, TreeAssumption
\* The least leaf is one of those below.
<1>5. PICK x \in t.stored : x \in LeafValues /\ Minimum(ref) = MakeLeaf(x) /\ LeadsTo(t, ref, x, d)
  <2>. HIDE DEF ref
  <2>. QED  BY <1>1, <1>2, <1>4, MinimumFirst
<1>. DEFINE X == KeyOf[x]
            minKey == LoadKey(x, L, after)
            A(i) == IF i <= MaxPrefixLength THEN nodes[n].prefix[i] ELSE ByteAt(minKey, d + i)
            D == { i \in 1..pl : ByteAt(walk.key, d + i) # A(i) }
<1>6. Same(X, U, d + pl) /\ d + pl < Len(X) /\ LeafKey[x] = X /\ X \in Seq(Nat) /\ Len(X) \in Nat
  <2>1. Passes(t, n, X)
    <3>1. ~IsLeaf(ref)
      OBVIOUS
    <3>. HIDE DEF ref
    <3>2. Passes(t, ref \div 2, KeyOf[x])
      BY <1>1, <1>5, <3>1, LeadsSomewhere
    <3>. QED  BY <3>2
  <2>2. Full(t, n) < Len(X)
    BY <1>1, <1>3, <1>5, <2>1 DEF IsTree, Branches
  <2>3. Same(X, U, Full(t, n))
    BY <2>1 DEF Passes
  <2>4. LeafKey[x] = X /\ X \in Seq(Nat) /\ Len(X) \in Nat
    BY <1>1, <1>5, KeyTypes DEF StoreGivesKeys
  <2>. QED  BY <1>4, <2>2, <2>3, <2>4
<1>7. Keeps(t, n)
  BY <1>1, <1>3 DEF IsTree
<1>8. m = IF D = {} THEN pl ELSE Min(D) - 1
  <2>1. GetLeafValue(Minimum(Here)) = x
    BY <1>1, <1>5, Tagged
  <2>. QED  BY <1>1, <2>1 DEF PrefixMismatch, NodeAt
<1>. HIDE DEF U, X, pl, n, ref
<1>9. ASSUME NEW i \in 1..pl, i <= MaxPrefixLength
      PROVE  A(i) = U[d + i]
  <2>1. i \in 1..Len(nodes[n].prefix)
    BY <1>1, <1>4, <1>7, <1>9 DEF Keeps, Least, pl
  <2>. QED  BY <1>1, <1>3, <1>7, <1>9, <2>1 DEF Keeps, U
<1>10. ASSUME NEW i \in 1..pl, ~(i <= MaxPrefixLength), d + i <= L
       PROVE  A(i) = U[d + i]
  <2>1. d + i \in 1..L /\ d + i \in 1..(d + pl) /\ d + i <= Len(X)
    <3>1. L \in Nat /\ pl \in Nat /\ d \in Nat /\ Len(X) \in Nat /\ d + pl < Len(X)
      BY <1>1, <1>4, <1>6
    <3>. HIDE DEF L
    <3>. QED  BY ONLY <1>10, <3>1, i \in 1..pl
  <2>2. Len(minKey.bytes) = L /\ minKey.bytes[d + i] = X[d + i]
    BY <1>1, <1>6, <2>1 DEF LoadKey
  <2>3. ByteAt(minKey, d + i) = X[d + i]
    BY <2>1, <2>2 DEF ByteAt
  <2>4. X[d + i] = U[d + i]
    BY <1>6, <2>1 DEF Same
  <2>. QED  BY <1>10, <2>3, <2>4
<1>11. ASSUME NEW i \in 1..pl, ~(i <= MaxPrefixLength), d + i > L
       PROVE  A(i) = after
  <2>1. Len(minKey.bytes) = L /\ minKey.after = after
    BY <1>1 DEF LoadKey
  <2>2. ~(d + i <= L)
    <3>1. L \in Nat /\ d \in Nat
      BY <1>1, <1>4
    <3>. HIDE DEF L
    <3>. QED  BY ONLY <1>11, <3>1, i \in 1..pl
  <2>3. ByteAt(minKey, d + i) = after
    BY <2>1, <2>2 DEF ByteAt
  <2>. QED  BY <1>11, <2>3
<1>12. D \in SUBSET (1..pl) /\ \A i \in 1..pl : i \notin D => ByteAt(walk.key, d + i) = A(i)
  OBVIOUS
<1>. HIDE DEF A, D
<1>13. m \in 0..pl /\ \A i \in 1..m : i \in 1..pl /\ i \notin D
  <2>1. pl \in Nat /\ D \in SUBSET (1..pl)
    BY <1>4, <1>12
  <2>2. m = IF D = {} THEN pl ELSE Min(D) - 1
    BY <1>8
  <2>. QED  BY <2>1, <2>2, FirstDifference
<1>14. \A i \in 1..m : i \in 1..pl /\ (i <= MaxPrefixLength \/ d + i <= L => ByteAt(walk.key, d + i) = U[d + i])
  <2>. HIDE DEF L
  <2>. QED  BY <1>9, <1>10, <1>12, <1>13
<1>15. ASSUME NEW i \in 1..m, i > MaxPrefixLength, d + i > L
       PROVE  ByteAt(walk.key, d + i) = after
  <2>1. i \in 1..pl /\ i \notin D /\ i \in Nat
    BY <1>13
  <2>2. ~(i <= MaxPrefixLength)
    BY ONLY <1>4, <1>15, <2>1
  <2>. HIDE DEF L
  <2>. QED  BY <1>11, <1>12, <1>15, <2>1, <2>2
<1>. QED  BY <1>3, <1>4, <1>13, <1>14, <1>15 DEF U, pl, n, ref

\* The keys below a node begin like the key, as far as their first bytes do.
LEMMA RangeBelow ==
    ASSUME KeyHypotheses, NEW t, NEW p, NEW d, RangeFacts(t, p, d), Here # Null, ~IsLeaf(Here), NEW after, NEW m,
           m = PrefixMismatch(Here, walk.key, walk.depth, KeyLength, after),
           NEW e \in Nat, e <= d + m, e <= Len(p),
           NEW w \in stored, Passes(t, Here \div 2, KeyOf[w])
    PROVE  Same(KeyOf[w], walk.key.bytes, e)
<1>. DEFINE n == Here \div 2
            q == walk.key.bytes
            L == Len(p)
            U == KeyOf[t.under[n]]
            pl == nodes[n].prefixLength
            W == KeyOf[w]
            f == Full(t, n)
<1>1. /\ n \in DOMAIN t.nodes /\ t.from[n] = d /\ Here = Address(n) /\ d \in Nat /\ d <= L /\ pl \in Nat /\ m \in 0..pl
      /\ \A i \in 1..m : d + i <= L => ByteAt(walk.key, d + i) = U[d + i]
  BY RangeReads
<1>2. /\ StoreGivesKeys /\ IsTree(t) /\ TreeTypes(t) /\ t.nodes = nodes /\ t.stored = stored
      /\ d = walk.depth /\ p \in Seq(Nat) /\ q = Append(p, 0)
      /\ d <= L => \A v \in stored : LeadsTo(t, Here, v, d) => Same(KeyOf[v], q, d)
      /\ w \in LeafValues /\ W \in Seq(Nat)
  BY <1>1 DEF RangeFacts, RangingOver
<1>3. q \in Seq(Nat) /\ Len(q) = L + 1 /\ L \in Nat
  BY <1>2
<1>4. Same(W, U, f) /\ f = d + pl /\ f <= Len(W) /\ Len(W) \in Nat /\ Same(W, q, d)
  <2>1. Same(W, U, f)
    BY DEF Passes
  <2>2. f = d + pl
    BY <1>1, <1>2 DEF Full
  <2>3. LeadsTo(t, Here, w, d)
    BY <1>1 DEF LeadsTo
  <2>4. Len(W) \in Nat /\ Same(W, q, d)
    BY <1>1, <1>2, <2>3
  <2>. QED  BY <2>1, <2>2, <2>4 DEF Same
<1>. HIDE DEF q, L, U, pl, W, f, n
<1>5. ASSUME NEW j \in 1..e
      PROVE  W[j] = q[j]
  <2>1. CASE j \in 1..d
    BY <1>4, <2>1 DEF Same
  <2>2. CASE j \notin 1..d
    <3>1. j - d \in 1..m /\ d + (j - d) = j /\ j \in 1..f /\ j <= L /\ j <= L + 1
      BY ONLY <1>1, <1>3, <1>4, <1>5, <2>2, e \in Nat, e <= d + m, e <= Len(p) DEF L
    <3>2. ByteAt(walk.key, j) = q[j]
      BY <1>3, <3>1 DEF ByteAt, q
    <3>3. ByteAt(walk.key, j) = U[j]
      <4>1. d + (j - d) <= L => ByteAt(walk.key, d + (j - d)) = U[d + (j - d)]
        BY <1>1, <3>1
      <4>. QED  BY <3>1, <4>1
    <3>4. W[j] = U[j]
      BY <1>4, <3>1 DEF Same
    <3>. QED  BY <3>2, <3>3, <3>4
  <2>. QED  BY <2>1, <2>2
<1>6. e <= Len(W) /\ e <= Len(q)
  BY ONLY <1>1, <1>3, <1>4, e \in Nat, e <= d + m, e <= Len(p) DEF L
<1>. QED  BY <1>5, <1>6 DEF Same, W, q

\* Behind a node that matches and consumes all of the prefix, the child for the
\* zero byte is taken: the byte behind the prefix is zero, or that byte and those
\* after it are unknown and have been taken for the zero byte.
LEMMA RangeBehind ==
    ASSUME KeyHypotheses, NEW t, NEW p, NEW d, RangeFacts(t, p, d), Here # Null, ~IsLeaf(Here), NEW after,
           PrefixMismatch(Here, walk.key, walk.depth, KeyLength, after) = nodes[Here \div 2].prefixLength,
           Len(p) <= Full(t, Here \div 2)
    PROVE  ByteAt(walk.key, Full(t, Here \div 2) + 1) = 0
<1>. DEFINE n == Here \div 2
            q == walk.key.bytes
            L == Len(p)
            U == KeyOf[t.under[n]]
            pl == nodes[n].prefixLength
            f == Full(t, n)
<1>1. /\ n \in DOMAIN t.nodes /\ t.from[n] = d /\ d \in Nat /\ d <= L /\ pl \in Nat
      /\ \A i \in 1..pl : i <= MaxPrefixLength \/ d + i <= L => ByteAt(walk.key, d + i) = U[d + i]
      /\ \A i \in 1..pl : i > MaxPrefixLength /\ d + i > L => ByteAt(walk.key, d + i) = after
  BY RangeReads
<1>2. /\ StoreGivesKeys /\ IsTree(t) /\ TreeTypes(t) /\ t.nodes = nodes /\ t.stored = stored /\ NoForkBehind(family)
      /\ p \in Seq(Nat) /\ q = Append(p, 0) /\ p \in family.prefixes
      /\ stored \subseteq LeafValues /\ stored \subseteq family.leafValues
      /\ \A w \in stored : KeyOf[w] \in Seq(Nat) /\ EndsInZero(KeyOf[w])
      /\ MaxPrefixLength \in Nat
  BY TreeAssumption DEF RangeFacts, RangingOver
<1>3. q \in Seq(Nat) /\ Len(q) = L + 1 /\ L \in Nat /\ q[L + 1] = 0
  BY <1>2
<1>4. f = d + pl /\ f \in Nat /\ t.under[n] \in stored /\ Branches(t, n) /\ Passes(t, n, U)
  <2>. HIDE DEF n
  <2>. QED  BY <1>1, <1>2, NodeTypes DEF Full, IsTree
<1>5. f < Len(U) /\ Len(U) \in Nat /\ EndsInZero(U)
  BY <1>2, <1>4 DEF Branches
<1>6. L <= f
  OBVIOUS
<1>. HIDE DEF q, L, U, pl, f, n
<1>7. \A i \in 1..f : U[i] # 0
  <2>1. \A i \in 1..f : i \in 1..Len(U) /\ i # Len(U)
    BY ONLY <1>4, <1>5
  <2>. QED  BY <1>5, <2>1 DEF EndsInZero
<1>8. ByteAt(walk.key, L + 1) = 0 /\ \A i \in Nat : i > L + 1 => ByteAt(walk.key, i) = walk.key.after
  BY <1>3 DEF ByteAt, q
<1>9. CASE f = L
  BY <1>8, <1>9 DEF f, n
<1>10. CASE f # L
  <2>. DEFINE i == (L + 1) - d
  <2>1. i \in 1..pl /\ d + i = L + 1 /\ L + 1 \in 1..f /\ d + i > L
    BY ONLY <1>1, <1>3, <1>4, <1>6, <1>10
  <2>. HIDE DEF i
  <2>2. ~(i <= MaxPrefixLength)
    BY <1>1, <1>7, <1>8, <2>1
  <2>3. i > MaxPrefixLength /\ MaxPrefixLength <= L
    BY ONLY <1>1, <1>2, <1>3, <1>6, <2>1, <2>2
  <2>4. after = 0
    BY <1>1, <1>8, <2>1, <2>3
  <2>5. CASE f = L + 1
    <3>1. PICK u, v \in stored : /\ Passes(t, n, KeyOf[u]) /\ Passes(t, n, KeyOf[v])
                                 /\ NextOf(t, n, KeyOf[u]) # NextOf(t, n, KeyOf[v])
      BY <1>2, <1>4 DEF Branches
    <3>2. u # v /\ u \in family.leafValues /\ v \in family.leafValues /\ u \in LeafValues /\ v \in LeafValues
          /\ KeyOf[u] \in Seq(Nat)
      BY <1>2, <3>1
    <3>3. Same(KeyOf[u], KeyOf[v], L + 1)
      <4>1. Same(KeyOf[u], KeyOf[v], Full(t, n))
        BY <1>1, <1>2, <3>1, <3>2, PassTogether
      <4>. QED  BY <2>5, <4>1 DEF f
    <3>4. KeyOf[u][L + 2] # KeyOf[v][L + 2]
      <4>1. Full(t, n) + 1 = L + 2
        BY <1>3, <2>5 DEF f
      <4>. QED  BY <3>1, <4>1 DEF NextOf
    <3>5. StartsWith(KeyOf[u], p)
      <4>. DEFINE m == PrefixMismatch(Here, walk.key, walk.depth, KeyLength, after)
      <4>1. m = pl
        BY DEF pl, n
      <4>. HIDE DEF m
      <4>2. L <= d + m
        BY ONLY <1>4, <1>6, <4>1
      <4>3. L \in Nat /\ L <= L
        BY ONLY <1>3
      <4>4. Same(KeyOf[u], q, L)
        BY <3>1, <4>2, <4>3, RangeBelow DEF L, m, q, n
      <4>. QED  BY <1>2, <3>2, <4>4, StartsWithSame DEF L
    <3>. QED  BY <1>2, <2>3, <3>2, <3>3, <3>4, <3>5 DEF NoForkBehind, L
  <2>6. CASE f # L + 1
    <3>. DEFINE j == (L + 2) - d
    <3>1. j \in 1..pl /\ d + j = L + 2 /\ j > MaxPrefixLength /\ d + j > L /\ L + 2 > L + 1 /\ L + 2 \in Nat
          /\ f + 1 \in Nat /\ f + 1 > L + 1
      BY ONLY <1>1, <1>2, <1>3, <1>4, <1>6, <1>10, <2>1, <2>3, <2>6
    <3>. HIDE DEF j
    <3>2. ByteAt(walk.key, L + 2) = 0
      BY <1>1, <2>4, <3>1
    <3>3. walk.key.after = 0
      BY <1>8, <3>1, <3>2
    <3>. QED  BY <1>8, <3>1, <3>3 DEF f, n
  <2>. QED  BY <2>5, <2>6
<1>. QED  BY <1>9, <1>10

\* The child for the zero byte is a leaf: a key ends in its only zero byte.
LEMMA ZeroIsLast ==
    ASSUME NEW t, NEW n \in DOMAIN t.nodes, StoreGivesKeys, IsTree(t), TreeTypes(t), t.stored = stored,
           \A w \in stored : KeyOf[w] \in Seq(Nat) /\ EndsInZero(KeyOf[w]),
           0 \in DOMAIN t.nodes[n].child
    PROVE  IsLeaf(t.nodes[n].child[0])
<1>. DEFINE r == t.nodes[n].child[0]
            f == Full(t, n)
<1>1. PICK v \in t.stored : /\ v \in LeafValues /\ NextOf(t, n, KeyOf[v]) = 0 /\ f < Len(KeyOf[v])
                            /\ LeadsTo(t, r, v, f + 1)
  BY ChildLeads
<1>2. f \in Nat /\ KeyOf[v] \in Seq(Nat) /\ EndsInZero(KeyOf[v]) /\ Len(KeyOf[v]) \in Nat /\ KeyOf[v][f + 1] = 0
  BY <1>1, NodeTypes DEF NextOf
<1>. HIDE DEF r, f
<1>3. Len(KeyOf[v]) = f + 1
  <2>1. f + 1 \in 1..Len(KeyOf[v])
    BY ONLY <1>1, <1>2
  <2>. QED  BY <1>2, <2>1 DEF EndsInZero
<1>4. SUFFICES ASSUME ~IsLeaf(r) PROVE FALSE
  BY DEF r
<1>5. r \div 2 \in DOMAIN t.nodes /\ t.from[r \div 2] = f + 1 /\ Passes(t, r \div 2, KeyOf[v])
  BY <1>1, <1>4, LeadsSomewhere
<1>6. Full(t, r \div 2) < Len(KeyOf[v])
  BY <1>1, <1>5 DEF IsTree, Branches
<1>7. Full(t, r \div 2) \in Nat /\ f + 1 <= Full(t, r \div 2)
  BY <1>5, NodeTypes
<1>. DEFINE g == Full(t, r \div 2)
<1>. HIDE DEF g
<1>. QED  BY ONLY <1>2, <1>3, <1>6, <1>7 DEF g

\* From a node the walk goes to the child of the next byte, if there is one.
LEMMA RangeDescends ==
    ASSUME KeyHypotheses, RangeHypotheses, TreeInv, RangeWalk, PrefixNode, Step(FALSE),
           UNCHANGED <<family, nodes, tree, fresh, stored>>,
           \E after : LET m == PrefixMismatch(Here, walk.key, walk.depth, KeyLength, after)
                      IN  m = NodeAt(Here).prefixLength
    PROVE  RangeWalk'
<1>1. walk.op = "prefix" /\ Here # Null /\ ~IsLeaf(Here)
  BY DEF PrefixNode
<1>2. PICK t, p, d : RangeFacts(t, p, d)
  BY <1>1, RangeKnows
<1>. DEFINE n == Here \div 2
            f == Full(t, n)
            e == f + 1
            q == walk.key.bytes
            b == ByteAt(walk.key, e)
            L == Len(p)
            pl == nodes[n].prefixLength
<1>3. PICK after : PrefixMismatch(Here, walk.key, walk.depth, KeyLength, after) = pl
  BY DEF NodeAt
<1>4. n \in DOMAIN nodes /\ t.from[n] = d /\ d \in Nat /\ d <= L /\ pl \in Nat
  BY <1>1, <1>2, <1>3, RangeReads DEF RangeFacts
<1>5. /\ StoreGivesKeys /\ IsState(t) /\ IsTree(t) /\ TreeTypes(t) /\ t.nodes = nodes /\ t.stored = stored
      /\ stored \subseteq LeafValues /\ p \in Seq(Nat) /\ q = Append(p, 0) /\ d = walk.depth
      /\ \A w \in stored : KeyOf[w] \in Seq(Nat) /\ EndsInZero(KeyOf[w])
      /\ d <= L => \A w \in Matching(p) : LeadsTo(t, Here, w, d)
  BY <1>2 DEF RangeFacts, RangingOver
<1>6. f = d + pl /\ f \in Nat /\ L \in Nat /\ e \in Nat /\ Len(q) = L + 1 /\ q \in Seq(Nat) /\ DepthBehind(Here) = f
  <2>1. L \in Nat /\ Len(q) = L + 1 /\ q \in Seq(Nat)
    BY <1>5
  <2>2. f = d + pl /\ DepthBehind(Here) = f
    BY <1>4, <1>5 DEF Full, DepthBehind, NodeAt
  <2>. HIDE DEF f, L, q
  <2>. QED  BY <1>4, <2>1, <2>2
<1>7. ASSUME f <= L, NEW w \in stored, Passes(t, n, KeyOf[w])
      PROVE  Same(KeyOf[w], q, f)
  <2>. DEFINE m == PrefixMismatch(Here, walk.key, walk.depth, KeyLength, after)
  <2>1. f \in Nat /\ f <= d + m
    <3>1. f = d + m /\ f \in Nat
      BY <1>3, <1>6
    <3>. HIDE DEF f, m
    <3>. QED  BY ONLY <3>1
  <2>. HIDE DEF f, m
  <2>. QED  BY <1>1, <1>2, <1>7, <2>1, RangeBelow DEF m
<1>8. f >= L => b = 0
  <2>1. SUFFICES ASSUME f >= L PROVE b = 0
    OBVIOUS
  <2>2. L <= f
    <3>. HIDE DEF f, L
    <3>. QED  BY ONLY <1>6, <2>1
  <2>. QED  BY <1>1, <1>2, <1>3, <2>2, RangeBehind
<1>9. DOMAIN walk = {"op", "key", "depth", "leaf", "skipped", "slot"}
  BY DEF TreeInv, Walks, Idle
<1>. HIDE DEF e
<1>10. walk'.depth = e /\ walk'.slot = <<n, b>> /\ walk'.key = walk.key /\ walk'.op = "prefix"
  <2>1. walk' = [walk EXCEPT !.depth = e, !.slot = <<n, b>>, !.skipped = FALSE]
    BY <1>6 DEF Step, e
  <2>. HIDE DEF n, b
  <2>. QED  BY <1>1, <1>9, <2>1
<1>11. Here' = FindChild(nodes[n], b)
  <2>1. walk'.slot # Root /\ walk'.slot[1] = n /\ walk'.slot[2] = b /\ Root' = Root /\ nodes' = nodes
    BY <1>10 DEF Root
  <2>. HIDE DEF n, b
  <2>. QED  BY <2>1 DEF Here, At, FindChild
<1>. HIDE DEF b
<1>12. Here' # Null => b \in DOMAIN t.nodes[n].child /\ Here' = t.nodes[n].child[b]
  BY <1>5, <1>11 DEF FindChild
<1>13. ASSUME e <= L
       PROVE  f <= L /\ b = q[e] /\ e \in 1..L
  <2>1. f <= L /\ e \in 1..L /\ e <= L + 1
    <3>. HIDE DEF f, L
    <3>. QED  BY ONLY <1>6, <1>13 DEF e
  <2>2. b = q[e]
    BY <1>6, <2>1 DEF b, ByteAt
  <2>. QED  BY <2>1, <2>2
<1>14. ASSUME e <= L, NEW w \in stored, LeadsTo(t, Here', w, e)
       PROVE  Same(KeyOf[w], q, e)
  <2>1. Here' # Null
    <3>. DEFINE r == Here'
    <3>1. LeadsTo(t, r, w, e) /\ w \in t.stored
      BY <1>5, <1>14
    <3>. HIDE DEF r
    <3>2. r # Null
      BY <1>5, <3>1, LeadsSomewhere
    <3>. QED  BY <3>2 DEF r
  <2>2. b \in DOMAIN t.nodes[n].child /\ LeadsTo(t, t.nodes[n].child[b], w, e)
    BY <1>12, <1>14, <2>1
  <2>3. n \in DOMAIN t.nodes /\ w \in t.stored /\ StoreGivesKeys /\ IsTree(t)
    BY <1>4, <1>5
  <2>. HIDE DEF n
  <2>4. Passes(t, n, KeyOf[w]) /\ NextOf(t, n, KeyOf[w]) = b /\ Full(t, n) < Len(KeyOf[w])
    BY ONLY <2>2, <2>3, ChildAgrees
  <2>5. Same(KeyOf[w], q, f) /\ KeyOf[w][f + 1] = q[f + 1] /\ f < Len(KeyOf[w]) /\ Len(KeyOf[w]) \in Nat
    BY <1>5, <1>7, <1>13, <1>14, <2>4 DEF NextOf, e
  <2>6. f + 1 <= Len(q)
    <3>. HIDE DEF f, L, q
    <3>. QED  BY ONLY <1>6, <1>14 DEF e
  <2>. DEFINE W == KeyOf[w]
  <2>7. /\ Same(W, q, f) /\ W[f + 1] = q[f + 1] /\ f + 1 <= Len(W) /\ f + 1 <= Len(q)
        /\ W \in Seq(Nat) /\ q \in Seq(Nat) /\ f \in Nat
    <3>1. W \in Seq(Nat) /\ q \in Seq(Nat) /\ f \in Nat
      BY <1>5, <1>6
    <3>2. Same(W, q, f) /\ W[f + 1] = q[f + 1] /\ f < Len(W) /\ Len(W) \in Nat
      BY <2>5
    <3>. HIDE DEF f, q, W
    <3>3. f + 1 <= Len(W)
      BY ONLY <3>1, <3>2
    <3>. QED  BY ONLY <2>6, <3>1, <3>2, <3>3
  <2>. HIDE DEF f, q, W
  <2>8. Same(W, q, f + 1)
    BY ONLY <2>7, SameProperties
  <2>. QED  BY <2>8 DEF W, e
<1>15. Here' # Null => \E u \in stored : LeadsTo(t, Here', u, e)
  <2>1. SUFFICES ASSUME Here' # Null PROVE \E u \in stored : LeadsTo(t, Here', u, e)
    OBVIOUS
  <2>2. b \in DOMAIN t.nodes[n].child /\ Here' = t.nodes[n].child[b] /\ n \in DOMAIN t.nodes
    BY <1>4, <1>5, <1>12, <2>1
  <2>. HIDE DEF n
  <2>3. \E u \in t.stored : LeadsTo(t, t.nodes[n].child[b], u, Full(t, n) + 1)
    BY <1>5, <2>2, ChildLeads
  <2>. QED  BY <1>5, <2>2, <2>3 DEF e
<1>16. ASSUME e <= L, NEW w \in Matching(p)
       PROVE  LeadsTo(t, Here', w, e)
  <2>1. w \in t.stored /\ LeadsTo(t, Here, w, d)
    BY <1>4, <1>5, <1>16 DEF Matching
  <2>. DEFINE c == NextOf(t, n, KeyOf[w])
              r == Here
  <2>2. c \in DOMAIN t.nodes[n].child /\ LeadsTo(t, t.nodes[n].child[c], w, e)
    <3>1. ~IsLeaf(r) /\ LeadsTo(t, r, w, d) /\ n = r \div 2
      BY <1>1, <2>1
    <3>. HIDE DEF r
    <3>. QED  BY <1>5, <2>1, <3>1, ThroughNode DEF e
  <2>3. Same(KeyOf[w], q, L)
    <3>1. StartsWith(KeyOf[w], p) /\ KeyOf[w] \in Seq(Nat)
      BY <1>5, <1>16 DEF Matching
    <3>. QED  BY <1>5, <3>1, StartsWithSame
  <2>4. c = b
    BY <1>13, <1>16, <2>3 DEF Same, NextOf, e
  <2>5. Here' = t.nodes[n].child[b]
    BY <1>5, <1>11, <2>2, <2>4 DEF FindChild
  <2>. QED  BY <2>2, <2>4, <2>5
\* Behind the prefix there is at most a leaf.
<1>17. e > L => Here' = Null \/ IsLeaf(Here')
  <2>1. SUFFICES ASSUME e > L, Here' # Null PROVE IsLeaf(Here')
    OBVIOUS
  <2>2. b = 0
    <3>1. f >= L
      <4>. HIDE DEF f, L
      <4>. QED  BY ONLY <1>6, <2>1 DEF e
    <3>. QED  BY <1>8, <3>1
  <2>3. 0 \in DOMAIN t.nodes[n].child /\ Here' = t.nodes[n].child[0] /\ n \in DOMAIN t.nodes
    BY <1>4, <1>5, <1>12, <2>1, <2>2
  <2>. HIDE DEF n
  <2>. QED  BY <1>5, <2>3, ZeroIsLast
<1>18. RangingOver(t, p)'
  <2>. DEFINE r == Here'
  <2>1. Matching(p)' = Matching(p) /\ Here' = r
    BY DEF Matching
  <2>2. r # Null => \E u \in stored : LeadsTo(t, r, u, e)
    BY <1>15
  <2>3. e <= L => /\ \A w \in stored : LeadsTo(t, r, w, e) => Same(KeyOf[w], q, e)
                  /\ \A w \in Matching(p) : LeadsTo(t, r, w, e)
    BY <1>14, <1>16
  <2>4. e > L => r = Null \/ IsLeaf(r)
    BY <1>17
  <2>5. walk'.key.bytes = Append(p, 0) /\ q = Append(p, 0) /\ walk'.depth = e /\ e \in Nat /\ stored' = stored
    BY <1>5, <1>6, <1>10
  <2>. HIDE DEF r
  <2>. QED  BY ONLY <2>1, <2>2, <2>3, <2>4, <2>5 DEF RangingOver, L
<1>19. p \in family'.prefixes
  BY <1>2 DEF RangeFacts
<1>20. IsState(t)'
  BY <1>5 DEF IsState
<1>. QED  BY <1>5, <1>18, <1>19, <1>20 DEF RangeWalk, Ranging

LEMMA RangeStarts ==
    ASSUME KeyHypotheses, RangeHypotheses, TreeInv, NEW p \in family.prefixes, RangeLookup(p), UNCHANGED family
    PROVE  RangeWalk'
<1>1. PICK t : IsState(t) /\ IsTree(t)
  BY DEF TreeInv
<1>2. /\ walk'.depth = 0 /\ walk'.slot = Root /\ walk'.key.bytes = Append(p, 0)
      /\ UNCHANGED <<nodes, tree, fresh, stored>>
  BY DEF RangeLookup, Call, Idle
<1>3. Here' = tree
  BY <1>2 DEF Here, At, Root
<1>4. t.stored = stored /\ t.top = tree /\ stored \subseteq LeafValues /\ StoreGivesKeys
  BY <1>1 DEF IsState, IsTree, TreeTypes, KeyHypotheses
<1>5. p \in Seq(Bytes) /\ Len(p) \in Nat /\ Len(Append(p, 0)) \in Nat
  <2>1. p \in Seq(Bytes)
    BY DEF RangeHypotheses, ZerosEnd, TreeInv, Belongs
  <2>2. Bytes \subseteq 0..255
    BY TreeAssumption, Zenon
  <2>3. \A b \in Bytes : b \in Nat
    BY <2>2
  <2>4. Len(p) \in Nat /\ \A i \in 1..Len(p) : p[i] \in Nat
    BY <2>1, <2>3
  <2>5. p \in Seq(Nat)
    BY <2>1, <2>4
  <2>. QED  BY <2>1, <2>5
<1>6. \A w \in stored : LeadsTo(t, tree, w, 0) /\ Same(KeyOf[w], Append(p, 0), 0)
  <2>1. \A w \in stored : LeadsTo(t, tree, w, 0)
    BY <1>1, <1>4 DEF IsTree
  <2>2. \A w \in stored : Len(KeyOf[w]) \in Nat
    BY <1>4, KeyTypes
  <2>. QED  BY <1>5, <2>1, <2>2 DEF Same
<1>7. tree # Null => \E u \in stored : LeadsTo(t, tree, u, 0)
  BY <1>1, <1>4, <1>6 DEF IsTree
<1>8. RangingOver(t, p)'
  <2>1. Matching(p)' = Matching(p) /\ Matching(p) \subseteq stored
    BY <1>2 DEF Matching
  <2>2. 0 \in Nat /\ ~(0 > Len(p))
    BY <1>5
  <2>. QED  BY <1>2, <1>3, <1>6, <1>7, <2>1, <2>2 DEF RangingOver
<1>9. IsState(t)'
  BY <1>1, <1>2 DEF IsState
<1>. QED  BY <1>1, <1>8, <1>9 DEF RangeWalk, Ranging

\* Where nothing is found the range is empty.
LEMMA MinimumOfNothing ==
    ASSUME TreeInv
    PROVE  GetLeafValue(Minimum(Null)) = 0
<1>. DEFINE h == Height
            P(f) == f = [i \in 0..h |-> IF i = 0 THEN Null ELSE ToLeast(f[i-1])]
            down == CHOOSE f : P(f)
<1>1. h \in Nat
  <2>1. IsFiniteSet(DOMAIN nodes)
    BY HeapsAreFinite
  <2>. QED  BY <2>1, FS_CardinalityType DEF Height
<1>2. ToLeast(Null) = Null
  BY DEF ToLeast
<1>. HIDE DEF h
<1>3. P([i \in 0..h |-> Null])
  <2>1. \A i \in 0..h : i = 0 \/ i - 1 \in 0..h
    BY <1>1
  <2>. QED  BY <1>2, <2>1
<1>4. P(down)
  <2>. HIDE DEF P
  <2>. QED  BY <1>3
<1>5. Minimum(Null) = down[h]
  BY DEF Minimum, h
<1>6. \A i \in 0..h : down[i] = IF i = 0 THEN Null ELSE ToLeast(down[i-1])
  <2>. HIDE DEF down
  <2>. QED  BY <1>4
<1>. HIDE DEF down, P
<1>7. \A i \in 0..h : down[i] \in {Null}
  <2>. DEFINE S == {Null}
              F == [r \in S |-> Null]
              a == Null
  <2>1. a \in S /\ F \in [S -> S] /\ Moves(down, S, a, F, h)
    <3>1. 0 \in 0..h /\ \A i \in 1..h : i \in 0..h /\ i # 0
      BY <1>1
    <3>2. down[0] = Null
      BY <1>6, <3>1
    <3>3. \A i \in 1..h : down[i-1] \in S => down[i] = F[down[i-1]]
      BY <1>2, <1>6, <3>1
    <3>. QED  BY <3>2, <3>3 DEF Moves
  <2>. HIDE DEF S, F, a
  <2>2. RemainsIn(down, S, h)
    BY ONLY <1>1, <2>1, StaysIn
  <2>. QED  BY <2>2 DEF RemainsIn, S
<1>8. h \in 0..h
  BY <1>1
<1>. QED  BY <1>5, <1>7, <1>8 DEF GetLeafValue, Null

\* The least and the greatest leaf below a place with all keys that have the
\* prefix, and no others.
LEMMA RangeFound ==
    ASSUME KeyHypotheses, NEW t, NEW p, NEW d, RangeFacts(t, p, d), Answered(Here), Here # Null,
           \A w \in stored : LeadsTo(t, Here, w, d) <=> w \in Matching(p)
    PROVE  RangesMatch'
<1>. DEFINE ref == Here
<1>1. /\ StoreGivesKeys /\ IsTree(t) /\ TreeTypes(t) /\ t.nodes = nodes /\ t.stored = stored /\ p \in Seq(Nat)
      /\ ChildrenAreBytes /\ IsFiniteSet(DOMAIN nodes) /\ KeyLength = Len(p) /\ walk.key.bytes = Append(p, 0)
  BY DEF RangeFacts, RangingOver
<1>2. PICK w \in t.stored : LeadsTo(t, ref, w, d)
  BY DEF RangeFacts, RangingOver
<1>3. d \in Nat
  BY <1>1 DEF RangeFacts, RangingOver
<1>4. \A v \in t.stored : LeadsTo(t, ref, v, d) <=> v \in Matching(p)
  BY <1>1
<1>5. range' = [key |-> p, first |-> GetLeafValue(Minimum(ref)), last |-> GetLeafValue(Maximum(ref))] /\ stored' = stored
  BY <1>1, StartsWithSame DEF Answered
<1>. HIDE DEF ref
<1>6. PICK u \in t.stored : u \in LeafValues /\ Minimum(ref) = MakeLeaf(u) /\ LeadsTo(t, ref, u, d) /\ First(t, ref, d, u)
  BY <1>1, <1>2, <1>3, MinimumFirst
<1>7. PICK v \in t.stored : v \in LeafValues /\ Maximum(ref) = MakeLeaf(v) /\ LeadsTo(t, ref, v, d) /\ Last_(t, ref, d, v)
  BY <1>1, <1>2, <1>3, MaximumLast
<1>8. range'.key = p /\ range'.first = u /\ range'.last = v
  BY <1>1, <1>5, <1>6, <1>7, Tagged
<1>9. Matching(p)' = Matching(p) /\ Matching(p) \subseteq t.stored
  BY <1>1, <1>5 DEF Matching
<1>10. u \in Matching(p) /\ v \in Matching(p)
  BY <1>4, <1>6, <1>7
<1>11. \A x \in Matching(p) : ~Below(KeyOf[x], KeyOf[u]) /\ ~Below(KeyOf[v], KeyOf[x])
  BY <1>4, <1>6, <1>7, <1>9 DEF First, Last_
<1>. QED  BY <1>8, <1>9, <1>10, <1>11 DEF RangesMatch

LEMMA RangeAtLeaf ==
    ASSUME KeyHypotheses, RangeHypotheses, TreeInv, RangeWalk, PrefixLeaf
    PROVE  RangesMatch'
<1>1. PICK t, p, d : RangeFacts(t, p, d)
  BY RangeKnows DEF PrefixLeaf
<1>2. /\ StoreGivesKeys /\ TreeTypes(t) /\ t.stored = stored /\ KeyLength = Len(p) /\ d = walk.depth
      /\ p \in Seq(Nat) /\ walk.key.bytes = Append(p, 0) /\ \A w \in stored : KeyOf[w] \in Seq(Nat)
      /\ d <= Len(p) => /\ \A w \in stored : LeadsTo(t, Here, w, d) => Same(KeyOf[w], walk.key.bytes, d)
                        /\ \A w \in Matching(p) : LeadsTo(t, Here, w, d)
  BY <1>1 DEF RangeFacts, RangingOver
<1>3. CASE d = KeyLength
  <2>1. Answered(Here) /\ Here # Null
    BY <1>2, <1>3 DEF PrefixLeaf, IsLeaf, Null
  <2>2. d <= Len(p)
    BY <1>2, <1>3
  <2>3. ASSUME NEW w \in stored, LeadsTo(t, Here, w, d)
        PROVE  w \in Matching(p)
    <3>1. Same(KeyOf[w], Append(p, 0), Len(p))
      BY <1>2, <1>3, <2>2, <2>3
    <3>. QED  BY <1>2, <3>1, StartsWithSame DEF Matching
  <2>4. \A w \in stored : LeadsTo(t, Here, w, d) <=> w \in Matching(p)
    BY <1>2, <2>2, <2>3
  <2>. QED  BY <1>1, <2>1, <2>4, RangeFound
<1>4. CASE d # KeyLength
  <2>1. Answered(Null)
    BY <1>2, <1>4 DEF PrefixLeaf
  <2>2. range'.first = 0
    BY <2>1, MinimumOfNothing DEF Answered
  <2>. QED  BY <2>2 DEF RangesMatch
<1>. QED  BY <1>3, <1>4

\* All keys below a node that has matched the whole prefix begin with it.
LEMMA RangeAtInner ==
    ASSUME KeyHypotheses, NEW t, NEW p, NEW d, RangeFacts(t, p, d), Here # Null, ~IsLeaf(Here), NEW after,
           PrefixMismatch(Here, walk.key, walk.depth, KeyLength, after) = KeyLength, Answered(Here)
    PROVE  RangesMatch'
<1>. DEFINE n == Here \div 2
            L == Len(p)
            m == PrefixMismatch(Here, walk.key, walk.depth, KeyLength, after)
<1>1. n \in DOMAIN t.nodes /\ t.from[n] = d /\ Here = Address(n) /\ d \in Nat /\ d <= L
  BY RangeReads
<1>2. /\ StoreGivesKeys /\ IsTree(t) /\ TreeTypes(t) /\ t.stored = stored /\ t.nodes = nodes
      /\ m = L /\ L \in Nat /\ d = walk.depth /\ p \in Seq(Nat) /\ walk.key.bytes = Append(p, 0)
      /\ \A w \in stored : KeyOf[w] \in Seq(Nat)
      /\ d <= L => \A w \in Matching(p) : LeadsTo(t, Here, w, d)
  BY DEF RangeFacts, RangingOver
<1>3. ASSUME NEW w \in stored, LeadsTo(t, Here, w, d)
      PROVE  w \in Matching(p)
  <2>. DEFINE r == Here
  <2>1. LeadsTo(t, r, w, d) /\ w \in t.stored /\ ~IsLeaf(r) /\ n = r \div 2
    BY <1>2, <1>3
  <2>. HIDE DEF r
  <2>2. Passes(t, n, KeyOf[w])
    BY <1>2, <2>1, LeadsSomewhere
  <2>3. L \in Nat /\ L <= d + m /\ L <= L
    <3>. HIDE DEF L, m
    <3>. QED  BY ONLY <1>1, <1>2
  <2>. HIDE DEF m
  <2>4. Same(KeyOf[w], walk.key.bytes, L)
    BY <2>2, <2>3, RangeBelow DEF m
  <2>. QED  BY <1>2, <2>4, StartsWithSame DEF Matching
<1>4. Matching(p) \subseteq stored
  BY DEF Matching
<1>5. \A w \in stored : LeadsTo(t, Here, w, d) <=> w \in Matching(p)
  BY <1>1, <1>2, <1>3
<1>. QED  BY <1>5, RangeFound

\* A step of a range lookup goes down or answers.
LEMMA RangeSteps ==
    ASSUME KeyHypotheses, RangeHypotheses, TreeInv, RangeWalk, PrefixStep, UNCHANGED family
    PROVE  \/ walk'.op = "idle" /\ RangesMatch'
           \/ walk'.op = "prefix" /\ range' = range /\ stored' = stored /\ RangeWalk'
<1>1. ASSUME NEW ref, Answered(ref)
      PROVE  walk'.op = "idle"
  BY <1>1 DEF Answered, Idle
<1>2. ASSUME Answered(Null)
      PROVE  RangesMatch'
  <2>1. range'.first = 0
    BY <1>2, MinimumOfNothing DEF Answered
  <2>. QED  BY <2>1 DEF RangesMatch
<1>3. CASE PrefixNothing
  BY <1>1, <1>2, <1>3 DEF PrefixNothing
<1>4. CASE PrefixLeaf
  BY <1>1, <1>4, RangeAtLeaf DEF PrefixLeaf
<1>5. CASE PrefixNode
  <2>1. walk.op = "prefix" /\ Here # Null /\ ~IsLeaf(Here)
    BY <1>5 DEF PrefixNode
  <2>2. PICK t, p, d : RangeFacts(t, p, d)
    BY <2>1, RangeKnows
  <2>3. PICK after \in Bytes :
           LET matching == PrefixMismatch(Here, walk.key, walk.depth, KeyLength, after)
           IN  CASE matching = KeyLength                                -> Answered(Here)
                 [] matching \notin {KeyLength, NodeAt(Here).prefixLength} -> Answered(Null)
                 [] OTHER -> Step(FALSE) /\ UNCHANGED <<nodes, tree, fresh, stored, answer, range>>
    BY <1>5 DEF PrefixNode
  <2>. DEFINE m == PrefixMismatch(Here, walk.key, walk.depth, KeyLength, after)
  <2>4. CASE m = KeyLength
    BY <1>1, <2>1, <2>2, <2>3, <2>4, RangeAtInner
  <2>5. CASE m \notin {KeyLength, NodeAt(Here).prefixLength}
    BY <1>1, <1>2, <2>3, <2>5
  <2>6. CASE m # KeyLength /\ m = NodeAt(Here).prefixLength
    <3>1. Step(FALSE) /\ UNCHANGED <<nodes, tree, fresh, stored, answer, range>>
      BY <2>3, <2>6
    <3>2. RangeWalk'
      BY <1>5, <2>3, <2>6, <3>1, RangeDescends
    <3>3. walk'.op = "prefix"
      <4>1. DOMAIN walk = {"op", "key", "depth", "leaf", "skipped", "slot"}
        BY DEF TreeInv, Walks, Idle
      <4>. QED  BY <2>1, <3>1, <4>1 DEF Step
    <3>. QED  BY <3>1, <3>2, <3>3
  <2>. QED  BY <2>4, <2>5, <2>6
<1>. QED  BY <1>3, <1>4, <1>5 DEF PrefixStep

\* An answer stands until the next call begins.
RangeInv == RangeWalk /\ RangesMatch /\ (walk.op # "idle" => range.first = 0)

LEMMA RangeKept ==
    ASSUME KeyHypotheses, RangeHypotheses, TreeInv, RangeInv, [Next]_vars
    PROVE  RangeInv'
<1>1. TreeInv'
  BY InvariantKept
<1>2. ASSUME walk'.op # "prefix"
      PROVE  RangeWalk'
  <2>1. PICK t : IsState(t)' /\ IsTree(t)
    BY <1>1 DEF TreeInv
  <2>. QED  BY <1>2, <2>1 DEF RangeWalk, Ranging
<1>3. CASE UNCHANGED vars
  <2>1. RangeWalk'
    BY <1>3 DEF vars, RangeInv, RangeWalk, IsState, Ranging, RangingOver, Here, At, Matching
  <2>2. RangesMatch'
    BY <1>3 DEF vars, RangeInv, RangesMatch, Matching
  <2>. QED  BY <1>3, <2>1, <2>2 DEF vars, RangeInv
<1>4. CASE Calls /\ UNCHANGED family
  <2>1. range'.first = 0
    <3>1. ASSUME NEW op, NEW bytes, NEW leaf, Call(op, bytes, leaf)
          PROVE  range'.first = 0
      BY <3>1 DEF Call, NoRange, Null
    <3>. QED  BY <1>4, <3>1 DEF Calls, Insert, Lookup, RangeLookup
  <2>2. RangesMatch'
    BY <2>1 DEF RangesMatch
  <2>3. CASE walk'.op # "prefix"
    BY <1>2, <2>1, <2>2, <2>3 DEF RangeInv
  <2>4. CASE walk'.op = "prefix"
    <3>1. PICK p \in family.prefixes : RangeLookup(p)
      BY <1>4, <2>4 DEF Calls, Insert, Lookup, Call, Idle
    <3>2. RangeWalk'
      BY <1>4, <3>1, RangeStarts
    <3>. QED  BY <2>1, <2>2, <3>2 DEF RangeInv
  <2>. QED  BY <2>3, <2>4
<1>5. CASE MapStep
  <2>1. range' = range /\ walk.op \in {"insert", "lookup"}
    BY <1>5 DEF MapStep, InsertStep, InsertIntoEmpty, SplitLeaf, BreakPrefix, Descend, AddChild, PassPrefix,
                LookupStep, LookupMissing, LookupLeaf, LookupDescend
  <2>2. range'.first = 0
    BY <2>1 DEF RangeInv
  <2>3. walk'.op # "prefix"
    <3>1. DOMAIN walk = {"op", "key", "depth", "leaf", "skipped", "slot"} /\ Idle.op = "idle"
      BY DEF TreeInv, Walks, Idle
    <3>2. \A skipped : Step(skipped) => walk'.op = walk.op
      BY <3>1 DEF Step
    <3>. QED  BY <1>5, <2>1, <3>1, <3>2 DEF MapStep, InsertStep, InsertIntoEmpty, SplitLeaf, BreakPrefix, Descend, AddChild,
                 Inserted, LookupStep, LookupMissing, LookupLeaf, LookupDescend, Answer
  <2>. QED  BY <1>2, <2>2, <2>3 DEF RangeInv, RangesMatch
<1>6. CASE RangeStep
  <2>1. walk.op = "prefix"
    BY <1>6 DEF RangeStep, PrefixStep, PrefixNothing, PrefixLeaf, PrefixNode
  <2>2. range.first = 0
    BY <2>1 DEF RangeInv
  <2>3. CASE walk'.op = "idle" /\ RangesMatch'
    BY <1>2, <2>3 DEF RangeInv
  <2>4. CASE walk'.op = "prefix" /\ range' = range /\ RangeWalk'
    BY <2>2, <2>4 DEF RangeInv, RangesMatch
  <2>. QED  BY <1>6, <2>3, <2>4, RangeSteps DEF RangeStep, RangeInv
<1>. QED  BY <1>3, <1>4, <1>5, <1>6 DEF Next

\* A range that is found is that of all stored keys with the prefix, and no
\* others, in every state, where the keys are strings that end in their only zero
\* byte.  They may share beginnings longer than what a node keeps; only a prefix
\* that is as long must not end one byte before two of them part, where
\* prefixMismatch reads behind what it has loaded (NoForkBehind).
THEOREM RangesAreWhole ==
    ASSUME KeyHypotheses, RangeHypotheses
    PROVE  Spec => []RangesMatch
<1>1. Init => RangeInv
  <2>. SUFFICES ASSUME Init PROVE RangeInv
    OBVIOUS
  <2>1. PICK t : IsState(t) /\ IsTree(t)
    BY StartsWell DEF TreeInv
  <2>2. walk.op = "idle" /\ range.first = 0
    BY DEF Init, Idle, NoRange, Null
  <2>. QED  BY <2>1, <2>2 DEF RangeInv, RangeWalk, Ranging, RangesMatch
<1>2. TreeInv /\ RangeInv /\ [Next]_vars => RangeInv'
  BY RangeKept
<1>3. RangeInv => RangesMatch
  BY DEF RangeInv
<1>. QED  BY <1>1, <1>2, <1>3, AlwaysTree, PTL DEF Spec

=============================================================================
