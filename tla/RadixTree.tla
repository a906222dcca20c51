----------------------------- MODULE RadixTree -----------------------------
(***************************************************************************)
(* The adaptive radix tree (ARTBase.cpp, ART.cpp).                         *)
(*                                                                         *)
(* An inner node consumes the bytes of its prefix (path compression) and   *)
(* then one more byte, which selects a child.  It keeps at most            *)
(* maxPrefixLength bytes of its prefix; longer ones are read back from the *)
(* leaf store, through the key of the least leaf below the node.  Leaves   *)
(* are tagged leaf values, and keys are not stored at all.                 *)
(*                                                                         *)
(* Every call descends from the root one node at a time: a step is one     *)
(* turn of the loop of a lookup, or one activation of insertValue.  A node *)
(* number stands for the address of the node; how a node lays out its      *)
(* children is NodeLayout.                                                 *)
(*                                                                         *)
(* Keys and buffers are memory of a known length.  The code reads past     *)
(* the end of both; every byte there has the same unknown value "after",   *)
(* which is chosen again for each buffer.                                  *)
(***************************************************************************)
EXTENDS LeafEncoding, Sequences, FiniteSets, FiniteSetsExt

CONSTANTS
    MaxPrefixLength,  \* maxPrefixLength: 9
    Capacities,       \* how many children a node has room for: 4, 16, 48
    Bytes,            \* the values a byte of a key can have
    LeafValues,       \* the leaf values that may be inserted
    KeyOf,            \* KeyOf[v]: the key that leaf value v is inserted for
    LeafKey,          \* the leaf store: LeafKey[v] is what it gives as the key of v
    Queries,          \* the keys that are looked up
    Families          \* kinds of trees: what is inserted, whether in ascending order, and looked up

Tags == { MakeLeaf(v) : v \in LeafValues }

ASSUME TreeAssumption ==
    /\ MaxPrefixLength \in Nat \ {0}
    /\ Bytes \subseteq 0..255
    /\ LeafValues \subseteq Nat
    /\ \A v, w \in LeafValues : v # w => KeyOf[v] # KeyOf[w]
    /\ \A f \in Families : f.leafValues \subseteq LeafValues /\ f.queries \subseteq Queries

VARIABLES
    family,  \* the kind of this tree
    nodes,   \* the inner nodes that are allocated
    tree,    \* the root: 0, a tagged leaf value, or the address of a node
    fresh,   \* the next node number
    walk,    \* the arguments and locals of the running call
    stored,  \* the leaf values whose insertion is over
    answer,  \* what the last lookup gave
    range    \* what the last rangeLookup gave

vars == <<family, nodes, tree, fresh, walk, stored, answer, range>>

Null == 0
Address(n) == 2 * n
NodeAt(ref) == nodes[ref \div 2]

Root == <<>>
Idle == [op |-> "idle", key |-> [bytes |-> <<>>, after |-> 0], depth |-> 0,
         leaf |-> Null, skipped |-> FALSE, slot |-> Root]

NoAnswer == [key |-> <<>>, found |-> {}]
NoRange == [key |-> <<>>, first |-> Null, last |-> Null]

Init ==
    /\ family \in Families
    /\ nodes = [n \in {} |-> Null] /\ tree = Null /\ fresh = 1
    /\ walk = Idle
    /\ stored = {}
    /\ answer = NoAnswer /\ range = NoRange

-----------------------------------------------------------------------------
(* Memory.                                                                 *)
ByteAt(memory, i) == IF i <= Len(memory.bytes) THEN memory.bytes[i] ELSE memory.after

\* loadKey into a buffer of the given length: strncpy cuts or pads the key.
LoadKey(v, length, after) ==
    [bytes |-> [i \in 1..length |-> IF i <= Len(LeafKey[v]) THEN LeafKey[v][i] ELSE 0],
     after |-> after]

Slice(memory, from, length) == [i \in 1..length |-> ByteAt(memory, from + i)]

\* Mutant: a prefix is copied whole.
Least_First(a, b) == a

Least(a, b) == IF a < b THEN a ELSE b

-----------------------------------------------------------------------------
(* Nodes.                                                                  *)
Node(prefixLength, prefix, child) ==
    [prefixLength |-> prefixLength, prefix |-> prefix, child |-> child]

\* Mutant: each byte selects the other child.
Pair_Swapped(b, ref, c, leaf) == [k \in {b, c} |-> IF k = c THEN ref ELSE leaf]

\* Two children: node gets the entry of the first byte, then of the second.
Pair(b, ref, c, leaf) ==
    [k \in {b, c} |-> IF k = c THEN leaf ELSE ref]

FindChild(node, keyByte) ==
    IF keyByte \in DOMAIN node.child THEN node.child[keyByte] ELSE Null

\* No walk passes more nodes than there are.
Height == Cardinality(DOMAIN nodes)

\* One step down, to the least or to the greatest child.
ToLeast(ref) ==
    IF ref = Null \/ IsLeaf(ref) THEN ref ELSE LET c == NodeAt(ref).child IN c[Min(DOMAIN c)]

ToGreatest(ref) ==
    IF ref = Null \/ IsLeaf(ref) THEN ref ELSE LET c == NodeAt(ref).child IN c[Max(DOMAIN c)]

\* The leaf with the least and the greatest key below a reference.
Minimum(ref) ==
    LET down[i \in 0..Height] == IF i = 0 THEN ref ELSE ToLeast(down[i-1])
    IN  down[Height]

Maximum(ref) ==
    LET down[i \in 0..Height] == IF i = 0 THEN ref ELSE ToGreatest(down[i-1])
    IN  down[Height]

\* Mutant: bytes the node does not keep are taken to match.
PrefixMismatch_Header(ref, key, depth, keyLength, after) ==
    LET node == NodeAt(ref)
        differing == { i \in 1..Len(node.prefix) : ByteAt(key, depth + i) # node.prefix[i] }
    IN  IF differing = {} THEN node.prefixLength ELSE Min(differing) - 1

\* How many bytes of the prefix of the node the key matches.  What the node
\* does not keep comes from a buffer of keyLength bytes.
PrefixMismatch(ref, key, depth, keyLength, after) ==
    LET node == NodeAt(ref)
        minKey == LoadKey(GetLeafValue(Minimum(ref)), keyLength, after)
        At(i) == IF i <= MaxPrefixLength THEN node.prefix[i] ELSE ByteAt(minKey, depth + i)
        differing == { i \in 1..node.prefixLength : ByteAt(key, depth + i) # At(i) }
    IN  IF differing = {} THEN node.prefixLength ELSE Min(differing) - 1

\* What the pointer nodeRef points to.
At(slot) == IF slot = Root THEN tree ELSE FindChild(nodes[slot[1]], slot[2])

\* *nodeRef = ref, in a heap whose nodes are those given.
Heap(ns, slot, ref) ==
    /\ nodes' = IF slot = Root THEN ns ELSE [ns EXCEPT ![slot[1]].child[slot[2]] = ref]
    /\ tree'  = IF slot = Root THEN ref ELSE tree

With(ns, n, node) == [m \in (DOMAIN ns) \union {n} |-> IF m = n THEN node ELSE ns[m]]
Without(ns, n)    == [m \in (DOMAIN ns) \ {n} |-> ns[m]]

-----------------------------------------------------------------------------
(* Calls.                                                                  *)
Call(op, bytes, leaf) ==
    /\ walk.op = "idle"
    /\ \E after \in Bytes :
          walk' = [Idle EXCEPT !.op = op, !.leaf = leaf,
                               !.key = [bytes |-> bytes, after |-> after]]
    /\ answer' = NoAnswer /\ range' = NoRange
    /\ UNCHANGED <<nodes, tree, fresh, stored>>

\* The byte strings in the order of memcmp.
Below(s, t) ==
    \E i \in 1..Len(t) : /\ \A j \in 1..(i-1) : j <= Len(s) /\ s[j] = t[j]
                         /\ i > Len(s) \/ s[i] < t[i]

Insert(v) ==
    /\ v \in family.leafValues \ stored
    /\ family.sorted => \A w \in stored : Below(KeyOf[w], KeyOf[v])
    /\ Call("insert", KeyOf[v], v)

Lookup(key) == Call("lookup", key, Null)

\* The length passed leaves out the zero byte that ends the prefix.
RangeLookup(prefix) == Call("prefix", Append(prefix, 0), Null)

Here == At(walk.slot)
KeyLength == Len(walk.key.bytes) - (IF walk.op = "prefix" THEN 1 ELSE 0)

DepthBehind(ref) == walk.depth + NodeAt(ref).prefixLength

\* The walk goes on at the child for the byte behind the prefix of the node.
Step(skipped) ==
    LET depth == DepthBehind(Here)
    IN  walk' = [walk EXCEPT !.depth   = depth + 1,
                             !.slot    = <<Here \div 2, ByteAt(walk.key, depth + 1)>>,
                             !.skipped = skipped]

-----------------------------------------------------------------------------
(* insertValue.                                                            *)
Inserted == walk' = Idle /\ stored' = stored \union {walk.leaf}

InsertIntoEmpty ==
    /\ walk.op = "insert" /\ Here = Null
    /\ Heap(nodes, walk.slot, MakeLeaf(walk.leaf))
    /\ Inserted
    /\ UNCHANGED <<fresh, answer>>

\* Keys differ before they end, unless the walk went astray: then the loop
\* that looks for a difference leaves both buffers.
SplitLeaf ==
    /\ walk.op = "insert" /\ IsLeaf(Here)
    /\ \E after \in Bytes :
       LET depth       == walk.depth
           existingKey == LoadKey(GetLeafValue(Here), KeyLength, after)
           differing   == { i \in (depth + 1)..KeyLength :
                               existingKey.bytes[i] # walk.key.bytes[i] }
           common      == Min(differing) - 1 - depth
           node        == Node(common,
                               Slice(walk.key, depth, Least(common, MaxPrefixLength)),
                               Pair(existingKey.bytes[depth + common + 1], Here,
                                    walk.key.bytes[depth + common + 1], MakeLeaf(walk.leaf)))
       IN  IF differing = {}
           THEN /\ walk' = [walk EXCEPT !.op = "overrun"]
                /\ UNCHANGED <<nodes, tree, fresh, stored>>
           ELSE /\ Heap(With(nodes, fresh, node), walk.slot, Address(fresh))
                /\ fresh' = fresh + 1
                /\ Inserted
    /\ UNCHANGED answer

\* The bytes of the prefix from the one after the mismatch on.  They are moved
\* up within the node, or come from a buffer as long as the new key.
RestOfPrefix(node, minKey, mismatch) ==
    LET rest == node.prefixLength - (mismatch + 1)
    IN  IF node.prefixLength < MaxPrefixLength
        THEN SubSeq(node.prefix, mismatch + 2, node.prefixLength)
        ELSE Slice(minKey, walk.depth + mismatch + 1, Least(rest, MaxPrefixLength))

ByteAfterPrefix(node, minKey, mismatch) ==
    IF node.prefixLength < MaxPrefixLength
    THEN node.prefix[mismatch + 1]
    ELSE ByteAt(minKey, walk.depth + mismatch + 1)

BreakPrefix ==
    /\ walk.op = "insert" /\ Here # Null /\ ~IsLeaf(Here)
    /\ \E after \in Bytes :
       LET depth    == walk.depth
           node     == NodeAt(Here)
           mismatch == PrefixMismatch(Here, walk.key, depth, KeyLength, after)
           minKey   == LoadKey(GetLeafValue(Minimum(Here)), KeyLength, after)
           lower    == Node(node.prefixLength - (mismatch + 1),
                            RestOfPrefix(node, minKey, mismatch), node.child)
           upper    == Node(mismatch,
                            SubSeq(node.prefix, 1, Least(mismatch, MaxPrefixLength)),
                            Pair(ByteAfterPrefix(node, minKey, mismatch), Here,
                                 ByteAt(walk.key, depth + mismatch + 1), MakeLeaf(walk.leaf)))
       IN  /\ mismatch # node.prefixLength
           /\ Heap(With(With(nodes, Here \div 2, lower), fresh, upper), walk.slot, Address(fresh))
    /\ fresh' = fresh + 1
    /\ Inserted
    /\ UNCHANGED answer

\* The prefix matches.
PassPrefix ==
    /\ walk.op = "insert" /\ Here # Null /\ ~IsLeaf(Here)
    /\ \E after \in Bytes :
          PrefixMismatch(Here, walk.key, walk.depth, KeyLength, after) = NodeAt(Here).prefixLength

NextByte == ByteAt(walk.key, DepthBehind(Here) + 1)

Descend ==
    /\ PassPrefix
    /\ FindChild(NodeAt(Here), NextByte) # Null
    /\ Step(FALSE)
    /\ UNCHANGED <<nodes, tree, fresh, stored, answer>>

\* Mutant: the pointer to the node that was full is not redirected.
Grow_Unlinked(n, grown) ==
    /\ nodes' = With(Without(nodes, n), fresh, grown)
    /\ fresh' = fresh + 1
    /\ UNCHANGED tree

\* A node that is full is replaced by a larger one.
Grow(n, grown) ==
    /\ Heap(With(Without(nodes, n), fresh, grown), walk.slot, Address(fresh))
    /\ fresh' = fresh + 1

AddChild ==
    /\ PassPrefix
    /\ FindChild(NodeAt(Here), NextByte) = Null
    /\ LET n     == Here \div 2
           node  == nodes[n]
           child == [b \in (DOMAIN node.child) \union {NextByte} |->
                        IF b = NextByte THEN MakeLeaf(walk.leaf) ELSE node.child[b]]
           grown == Node(node.prefixLength, node.prefix, child)
       IN  IF Cardinality(DOMAIN node.child) \in Capacities
           THEN Grow(n, grown)
           ELSE /\ nodes' = With(nodes, n, grown)
                /\ UNCHANGED <<tree, fresh>>
    /\ Inserted
    /\ UNCHANGED answer

-----------------------------------------------------------------------------
(* Lookups.                                                                *)
Answer(found) ==
    /\ walk' = Idle
    /\ answer' = [key |-> walk.key.bytes, found |-> found]
    /\ UNCHANGED <<nodes, tree, fresh, stored>>

\* Mutant: the bytes that were skipped are not checked in the end.
LeafMatches_FromDepth(v, after) ==
    \A i \in (walk.depth + 1)..KeyLength :
       LoadKey(v, KeyLength, after).bytes[i] = walk.key.bytes[i]

\* The leaf is compared with the key, except when the walk has consumed
\* exactly the length of the key.
LeafMatches(v, after) ==
    LET leafKey == LoadKey(v, KeyLength, after)
        from    == IF walk.skipped THEN 0 ELSE walk.depth
    IN  \/ walk.depth = KeyLength
        \/ \A i \in (from + 1)..KeyLength : leafKey.bytes[i] = walk.key.bytes[i]

\* A prefix as long as what a node can keep is skipped.
SkipsPrefix(node) == node.prefixLength >= MaxPrefixLength

PrefixDiffers(node) ==
    /\ ~SkipsPrefix(node)
    /\ \E i \in 1..node.prefixLength : ByteAt(walk.key, walk.depth + i) # node.prefix[i]

LookupMissing ==
    /\ walk.op = "lookup"
    /\ \/ Here = Null
       \/ Here # Null /\ ~IsLeaf(Here) /\ PrefixDiffers(NodeAt(Here))
    /\ Answer({})

LookupLeaf ==
    /\ walk.op = "lookup" /\ IsLeaf(Here)
    /\ \E after \in Bytes :
          LET v == GetLeafValue(Here)
          IN  Answer(IF LeafMatches(v, after) THEN {v} ELSE {})

LookupDescend ==
    /\ walk.op = "lookup" /\ Here # Null /\ ~IsLeaf(Here)
    /\ ~PrefixDiffers(NodeAt(Here))
    /\ Step(walk.skipped \/ SkipsPrefix(NodeAt(Here)))
    /\ UNCHANGED <<nodes, tree, fresh, stored, answer>>

\* rangeLookup: the least and the greatest leaf below what lookupPrefix finds.
Answered(ref) ==
    /\ walk' = Idle
    /\ range' = [key   |-> SubSeq(walk.key.bytes, 1, KeyLength),
                 first |-> GetLeafValue(Minimum(ref)),
                 last  |-> GetLeafValue(Maximum(ref))]
    /\ UNCHANGED <<nodes, tree, fresh, stored, answer>>

PrefixNothing == walk.op = "prefix" /\ Here = Null /\ Answered(Null)

\* Mutant: a leaf is always taken to match.
PrefixLeaf_Always == walk.op = "prefix" /\ IsLeaf(Here) /\ Answered(Here)

PrefixLeaf ==
    /\ walk.op = "prefix" /\ IsLeaf(Here)
    /\ Answered(IF walk.depth = KeyLength THEN Here ELSE Null)

\* The matching bytes of this node are compared with the length of the key,
\* whatever the nodes above have consumed.
PrefixNode ==
    /\ walk.op = "prefix" /\ Here # Null /\ ~IsLeaf(Here)
    /\ \E after \in Bytes :
       LET matching == PrefixMismatch(Here, walk.key, walk.depth, KeyLength, after)
       IN  CASE matching = KeyLength                   -> Answered(Here)
             [] matching \notin {KeyLength, NodeAt(Here).prefixLength} -> Answered(Null)
             [] OTHER -> Step(FALSE) /\ UNCHANGED <<nodes, tree, fresh, stored, answer, range>>

-----------------------------------------------------------------------------
InsertStep == InsertIntoEmpty \/ SplitLeaf \/ BreakPrefix \/ Descend \/ AddChild
LookupStep == LookupMissing \/ LookupLeaf \/ LookupDescend
PrefixStep == PrefixNothing \/ PrefixLeaf \/ PrefixNode

Calls ==
    \/ \E v \in LeafValues : Insert(v)
    \/ \E key \in family.queries : Lookup(key)
    \/ \E prefix \in family.prefixes : RangeLookup(prefix)

MapStep == (InsertStep \/ LookupStep) /\ UNCHANGED <<family, range>>
RangeStep == PrefixStep /\ UNCHANGED family

Next == (Calls /\ UNCHANGED family) \/ MapStep \/ RangeStep

Spec == Init /\ [][Next]_vars

\* A call that has begun runs on.
FairSpec == Spec /\ WF_vars(MapStep) /\ WF_vars(RangeStep)

-----------------------------------------------------------------------------
(* What the callers see to: the keys of a tree.                            *)

\* Two keys agree on their first n bytes.
Same(s, t, n) == n <= Len(s) /\ n <= Len(t) /\ \A i \in 1..n : s[i] = t[i]

\* Neither key is the beginning of the other.
Apart(s, t) == \E i \in 1..Len(s) : i <= Len(t) /\ s[i] # t[i]

\* The leaf store gives back the keys, and a leaf value and its tag fit in a word.
StoreGivesKeys ==
    \A v \in LeafValues : KeyOf[v] \in Seq(Bytes) /\ LeafKey[v] = KeyOf[v] /\ 2 * v < WordRange

\* Ids all have eight bytes, and strings end in a zero byte.
KeysNotEmpty == \A v \in LeafValues : KeyOf[v] # <<>>
KeysApart == \A f \in Families : \A v, w \in f.leafValues : v # w => Apart(KeyOf[v], KeyOf[w])

\* In a tree that is filled in ascending order v comes after w.
ComesAfter(f, v, w) == f.sorted => Below(KeyOf[w], KeyOf[v])

\* What two keys share is kept in a node, or no longer than a key that is
\* inserted after them.
LongEnough ==
    \A f \in Families : \A u, w, v \in f.leafValues :
        u # w /\ ComesAfter(f, v, u) /\ ComesAfter(f, v, w) =>
            \A n \in MaxPrefixLength..Len(KeyOf[u]) : Same(KeyOf[u], KeyOf[w], n) => n <= Len(KeyOf[v])

KeyHypotheses == StoreGivesKeys /\ KeysApart /\ LongEnough

\* A key that is looked up is one of the keys, or neither it nor any of them is
\* the beginning of the other.
QueriesApart(f) ==
    \A q \in f.queries : q \in Seq(Bytes) /\ \A v \in f.leafValues : q = KeyOf[v] \/ Apart(q, KeyOf[v])

\* A leaf that a lookup reaches behind all bytes of the key is not compared.  A
\* prefix may have been skipped on the way: so where two keys that share as much
\* as a node keeps part just before the length of the key, it begins as they do.
SkipsAreChecked(f) ==
    \A q \in f.queries : \A u, w \in f.leafValues :
        /\ u # w /\ MaxPrefixLength < Len(q)
        /\ Same(KeyOf[u], KeyOf[w], Len(q) - 1) /\ KeyOf[u][Len(q)] # KeyOf[w][Len(q)]
        => Same(q, KeyOf[u], Len(q) - 1)

MapHypotheses == KeysNotEmpty /\ \A f \in Families : QueriesApart(f) /\ SkipsAreChecked(f)

\* Where prefixes are looked up, a key ends in its only zero byte, and a prefix
\* has none.
EndsInZero(s) == Len(s) > 0 /\ \A i \in 1..Len(s) : s[i] = 0 <=> i = Len(s)

ZerosEnd(f) ==
    f.prefixes # {} => /\ \A v \in f.leafValues : EndsInZero(KeyOf[v])
                       /\ \A p \in f.prefixes : EndsInZero(Append(p, 0)) /\ p \in Seq(Bytes)

StartsWith(key, prefix) ==
    Len(prefix) <= Len(key) /\ SubSeq(key, 1, Len(prefix)) = prefix

\* What is read back of a long prefix is as long as p, and the byte behind it is
\* unknown: two keys that begin with p and agree on that byte also agree on the
\* next, so that no node ends there.
NoForkBehind(f) ==
    \A p \in f.prefixes : \A u, w \in f.leafValues :
        /\ u # w /\ MaxPrefixLength <= Len(p)
        /\ StartsWith(KeyOf[u], p) /\ Same(KeyOf[u], KeyOf[w], Len(p) + 1)
        => KeyOf[u][Len(p) + 2] = KeyOf[w][Len(p) + 2]

RangeHypotheses == \A f \in Families : ZerosEnd(f) /\ NoForkBehind(f)

-----------------------------------------------------------------------------
(* Properties.                                                             *)

References == { tree } \union UNION { { nodes[n].child[b] : b \in DOMAIN nodes[n].child } : n \in DOMAIN nodes }

\* The type invariant: inner nodes keep as much of their prefix as fits, and a
\* walk is at the root or at a byte of an allocated node (ARTBase.hpp).
TypeOK ==
    /\ DOMAIN nodes \subseteq 1..(fresh - 1)
    /\ \A n \in DOMAIN nodes :
          /\ nodes[n].prefixLength \in Nat
          /\ Len(nodes[n].prefix) = Min({nodes[n].prefixLength, MaxPrefixLength})
          /\ nodes[n].prefix \in Seq(Bytes)
          /\ DOMAIN nodes[n].child \subseteq Bytes
    /\ References \subseteq {Null} \union Tags \union { Address(n) : n \in 1..(fresh - 1) }
    /\ stored \subseteq LeafValues
    /\ walk.slot # Root => walk.slot[1] \in DOMAIN nodes
    /\ walk.op \in {"idle", "insert", "lookup", "prefix", "overrun"}

\* How many pointers there are to something.
Pointers(ref) ==
    (IF tree = ref THEN 1 ELSE 0)
    + Cardinality({ s \in { <<n, b>> : n \in DOMAIN nodes, b \in Bytes } :
                       FindChild(nodes[s[1]], s[2]) = ref })

\* Splitting a leaf, breaking a prefix and replacing a full node each redirect
\* one pointer: no pointer dangles, and nothing is lost or in the tree twice.
EverythingLinkedOnce ==
    /\ \A ref \in References :
          ref # Null => \/ IsLeaf(ref) /\ GetLeafValue(ref) \in stored
                        \/ ~IsLeaf(ref) /\ ref \div 2 \in DOMAIN nodes
    /\ \A n \in DOMAIN nodes : Pointers(Address(n)) = 1
    /\ \A v \in stored : Pointers(MakeLeaf(v)) = 1

\* Where a walk for a key goes on behind a node.
Along(place, key) ==
    IF place.ref = Null \/ IsLeaf(place.ref) THEN place
    ELSE LET next == place.depth + NodeAt(place.ref).prefixLength + 1
         IN  [ref   |-> IF next <= Len(key) THEN FindChild(NodeAt(place.ref), key[next]) ELSE Null,
              depth |-> next]

\* The places on the way of a key, from the root.
Way(key) ==
    LET way[i \in 0..Height] == IF i = 0 THEN [ref |-> tree, depth |-> 0] ELSE Along(way[i-1], key)
    IN  way

\* The bytes that a node keeps are the next ones of the key.
Spells(place, key) ==
    place.ref # Null /\ ~IsLeaf(place.ref) =>
        \A i \in 1..Len(NodeAt(place.ref).prefix) :
            /\ place.depth + i <= Len(key)
            /\ NodeAt(place.ref).prefix[i] = key[place.depth + i]

\* Path compression loses no byte: the way to a leaf spells the key of the
\* leaf, as far as the nodes keep their prefixes, and every node branches.
PathsSpellKeys ==
    /\ \A n \in DOMAIN nodes : Cardinality(DOMAIN nodes[n].child) >= 2
    /\ \A v \in stored :
          LET way == Way(KeyOf[v])
          IN  /\ way[Height].ref = MakeLeaf(v)
              /\ \A i \in 0..Height : Spells(way[i], KeyOf[v])

\* Inserting and looking up a key is what a map does, whatever way the nodes
\* share, split and skip the bytes of the keys.
Map == INSTANCE KeyMap
ImplementsMap == Map!Spec

Matching(prefix) == { v \in stored : StartsWith(KeyOf[v], prefix) }

\* A range that is found is the whole range of stored keys with the prefix: its
\* ends are the least and the greatest of them (ART::rangeLookup).
RangesMatch ==
    range.first # 0 =>
        /\ {range.first, range.last} \subseteq Matching(range.key)
        /\ \A v \in Matching(range.key) : /\ ~Below(KeyOf[v], KeyOf[range.first])
                                         /\ ~Below(KeyOf[range.last], KeyOf[v])

\* "Find the node with a matching key" (ARTBase.cpp:344): a key that was
\* inserted is found.
StoredIsFound ==
    [][answer' # answer => { v \in stored : KeyOf[v] = answer'.key } \subseteq answer'.found]_vars

\* Every call returns: the walks go down, and the loop that looks for the
\* first difference of two keys finds one before the keys end.
CallsReturn == walk.op # "idle" ~> walk.op = "idle"
=============================================================================
