-------------------------- MODULE NodeLayoutProofs --------------------------
(***************************************************************************)
(* Proofs that the four layouts of an inner node keep their order and      *)
(* implement a map from bytes to children, for all capacities and any      *)
(* number of byte values.                                                  *)
(***************************************************************************)
EXTENDS NodeLayout, WellFoundedInduction, TLAPS

LEMMA Capacities ==
    /\ Four \in Nat /\ Sixteen \in Nat /\ FortyEight \in Nat /\ Half \in Nat /\ Largest \in Nat
    /\ 1 < Four /\ Four < Sixteen /\ Sixteen < FortyEight /\ FortyEight < Largest
    /\ Largest = 2 * Half /\ 0 < Half
BY CapacityAssumption DEF Largest

\* The sign bit: flipping it twice changes nothing, and the flipped bytes
\* compare as signed numbers like the bytes themselves.
LEMMA FlipProperties ==
    ASSUME NEW b \in Bytes
    PROVE  /\ FlipSign(b) \in Bytes
           /\ FlipSign(FlipSign(b)) = b
           /\ Signed(FlipSign(b)) = b - Half
<1>0. Half \in Nat /\ 0 < Half /\ b \in Nat /\ b < 2 * Half
  BY Capacities DEF Bytes
<1>1. CASE b < Half
  <2>1. FlipSign(b) = b + Half
    <3>1. (b + Half) % (2 * Half) = b + Half  BY <1>0, <1>1
    <3>. QED  BY <3>1 DEF FlipSign
  <2>2. FlipSign(b + Half) = b
    <3>1. (b + Half + Half) % (2 * Half) = b  BY <1>0, <1>1
    <3>. QED  BY <3>1 DEF FlipSign
  <2>. QED  BY <2>1, <2>2, <1>0, <1>1 DEF Signed, Bytes
<1>2. CASE ~(b < Half)
  <2>1. FlipSign(b) = b - Half
    <3>1. (b + Half) % (2 * Half) = b - Half  BY <1>0, <1>2
    <3>. QED  BY <3>1 DEF FlipSign
  <2>2. FlipSign(b - Half) = b
    <3>1. (b - Half + Half) % (2 * Half) = b  BY <1>0, <1>2
    <3>. QED  BY <3>1 DEF FlipSign
  <2>. QED  BY <2>1, <2>2, <1>0, <1>2 DEF Signed, Bytes
<1>. QED  BY <1>1, <1>2

LEMMA FirstProperties ==
    ASSUME NEW T \in SUBSET Nat, T # {}
    PROVE  First(T) \in T /\ \A j \in T : First(T) <= j
<1>1. PICK n \in T : \A m \in T : ~(<<m, n>> \in OpToRel(<, Nat))
  BY NatLessThanWellFounded, WFMin, Zenon
<1>2. \A m \in T : ~(m < n)
  BY <1>1 DEF OpToRel
<1>3. \A m \in T : n <= m
  BY <1>2
<1>. QED  BY <1>3 DEF First

-----------------------------------------------------------------------------
(* What a node maps bytes to                                               *)

\* The bytes that have a child, said for each layout.
Has(b) ==
    IF Sorted THEN \E i \in Positions : KeyAt(i) = b
    ELSE IF type = FortyEight THEN childIndex[b] # EmptyMarker
    ELSE child[b] # Null

\* findChild gives the child of the byte, if there is one.
LEMMA FindChildProperties ==
    ASSUME LayoutInv, NEW b \in Bytes
    PROVE  FindChild(b) = IF Has(b) THEN ChildOf(b) ELSE Null
<1>. USE DEF LayoutInv, TypeOK, Has, ChildOf, Null
<1>1. CASE Sorted
  <2>. DEFINE found == { i \in Positions : key[i] = IF type = Four THEN b ELSE FlipSign(b) }
  <2>1. \A i \in Positions : i \in Nat /\ i < count /\ key[i] \in Bytes
    BY <1>1, Capacities DEF Positions, Sorted
  <2>2. \A i \in Positions : key[i] = (IF type = Four THEN b ELSE FlipSign(b)) <=> KeyAt(i) = b
    BY <2>1, FlipProperties DEF KeyAt
  <2>3. found = { i \in Positions : KeyAt(i) = b }
    BY <2>2
  <2>4. FindChild(b) = IF found = {} THEN Null ELSE child[First(found)]
    BY <1>1 DEF FindChild
  <2>5. CASE found = {}
    BY <2>3, <2>4, <2>5, <1>1
  <2>6. CASE found # {}
    <3>1. First(found) \in found
      BY <2>1, <2>6, FirstProperties
    <3>2. child[First(found)] = ChildOf(b)
      BY <3>1, <2>3, <1>1
    <3>. QED  BY <2>3, <2>4, <2>6, <3>1, <3>2, <1>1
  <2>. QED  BY <2>5, <2>6
<1>2. CASE type = FortyEight
  BY <1>2, Capacities DEF Sorted, FindChild, Present, ByByte
<1>3. CASE type = Largest
  <2>1. ~Sorted /\ type # FortyEight
    BY <1>3, Capacities DEF Sorted
  <2>. QED  BY <1>3, <2>1 DEF FindChild, Present, ByByte
<1>. QED  BY <1>1, <1>2, <1>3 DEF Sorted

-----------------------------------------------------------------------------
(* Sorted arrays                                                           *)

\* The loop of insertNode4 stops between the keys that are less than the new
\* one and those that are greater.
LEMMA PositionIn4Properties ==
    ASSUME LayoutInv, type = Four, NEW b \in Bytes, ~Has(b)
    PROVE  LET pos == PositionIn4(b)
           IN  /\ pos \in 0..count
               /\ \A i \in Positions : i < pos => key[i] < b
               /\ \A i \in Positions : pos <= i => b < key[i]
<1>. DEFINE above == { i \in Positions : key[i] >= b }
<1>0. /\ Sorted /\ count \in Nat
      /\ \A i \in Positions : key[i] \in Nat /\ KeyAt(i) = key[i] /\ key[i] # b
      /\ \A i, j \in Positions : i < j => key[i] < key[j]
  <2>1. Sorted  BY DEF Sorted
  <2>2. \A i \in Positions : KeyAt(i) = key[i]  BY DEF KeyAt
  <2>3. \A i \in Positions : key[i] \in Bytes
    <3>1. count \in Nat /\ count <= Four /\ key \in [0..(Four-1) -> Bytes]
      BY <2>1, Capacities DEF LayoutInv, TypeOK
    <3>. QED  BY <3>1, Capacities DEF Positions
  <2>. QED  BY <2>1, <2>2, <2>3 DEF LayoutInv, TypeOK, Has, Bytes
<1>. b \in Nat  BY Capacities DEF Bytes
<1>1. CASE above = {}
  BY <1>0, <1>1 DEF PositionIn4, Positions
<1>2. CASE above # {}
  <2>0. above \in SUBSET Nat
    BY <1>0 DEF Positions
  <2>1. First(above) \in above /\ \A j \in above : First(above) <= j
    BY <1>2, <2>0, FirstProperties
  <2>2. PositionIn4(b) = First(above)
    BY <1>2 DEF PositionIn4
  <2>. HIDE DEF above
  <2>3. \A i \in Positions : i \in above <=> key[i] >= b
    BY DEF above
  <2>4. First(above) \in Positions
    BY <2>1 DEF above
  <2>. QED  BY <2>1, <2>2, <2>3, <2>4, <1>0 DEF Positions
<1>. QED  BY <1>1, <1>2

\* So does the comparison of signed bytes in insertNode16.
LEMMA PositionIn16Properties ==
    ASSUME NEW n \in Nat, NEW keys, NEW b \in Bytes,
           \A i \in 0..(n-1) : keys[i] \in Bytes /\ FlipSign(keys[i]) # b,
           \A i, j \in 0..(n-1) : i < j => FlipSign(keys[i]) < FlipSign(keys[j])
    PROVE  LET pos == PositionIn16(keys, n, b)
           IN  /\ pos \in 0..n
               /\ \A i \in 0..(n-1) : i < pos => FlipSign(keys[i]) < b
               /\ \A i \in 0..(n-1) : pos <= i => b < FlipSign(keys[i])
<1>. DEFINE above == { i \in 0..(n-1) : Signed(FlipSign(b)) < Signed(keys[i]) }
<1>0. b \in Nat /\ Half \in Nat
  BY Capacities DEF Bytes
<1>1. Signed(FlipSign(b)) = b - Half
  BY FlipProperties
<1>2. \A i \in 0..(n-1) : FlipSign(keys[i]) \in Nat /\ Signed(keys[i]) = FlipSign(keys[i]) - Half
  <2>. SUFFICES ASSUME NEW i \in 0..(n-1)
                PROVE  FlipSign(keys[i]) \in Nat /\ Signed(keys[i]) = FlipSign(keys[i]) - Half
    OBVIOUS
  <2>1. FlipSign(keys[i]) \in Bytes /\ FlipSign(FlipSign(keys[i])) = keys[i]
    BY FlipProperties
  <2>2. Signed(FlipSign(FlipSign(keys[i]))) = FlipSign(keys[i]) - Half
    BY <2>1, FlipProperties
  <2>. QED  BY <2>1, <2>2, Capacities DEF Bytes
<1>3. \A i \in 0..(n-1) : i \in above <=> b < FlipSign(keys[i])
  BY <1>0, <1>1, <1>2
<1>4. CASE above = {}
  BY <1>4, <1>3, <1>2, <1>0 DEF PositionIn16
<1>5. CASE above # {}
  <2>1. First(above) \in above /\ \A j \in above : First(above) <= j
    BY <1>5, FirstProperties
  <2>2. PositionIn16(keys, n, b) = First(above)
    BY <1>5 DEF PositionIn16
  <2>3. First(above) \in 0..(n-1)
    BY <2>1
  <2>. HIDE DEF above
  <2>. QED  BY <2>1, <2>2, <2>3, <1>3, <1>2, <1>0
<1>. QED  BY <1>4, <1>5

\* The first n elements of parallel arrays: keys in ascending order of the
\* bytes they stand for, each with its child.
Ranked(rank, keys, childs, n, size) ==
    /\ keys \in [0..(size-1) -> Bytes]
    /\ childs \in [0..(size-1) -> 0..Largest]
    /\ \A i \in 0..(n-1) : childs[i] = ChildOf(rank[keys[i]])
    /\ \A i, j \in 0..(n-1) : i < j => rank[keys[i]] < rank[keys[j]]

\* pos is the place of byte b among them.
PlaceOf(b, rank, keys, n, pos) ==
    /\ pos \in 0..n
    /\ \A i \in 0..(n-1) : i < pos => rank[keys[i]] < b
    /\ \A i \in 0..(n-1) : pos <= i => b < rank[keys[i]]

RankedBytes(rank, keys, n) == { rank[keys[i]] : i \in 0..(n-1) }

\* Moving what is behind pos makes room for one element and keeps the order.
\* rank gives the byte a key stands for.
LEMMA ShiftedProperties ==
    ASSUME NEW n \in Nat, NEW size \in Nat, n < size,
           NEW rank \in [Bytes -> Bytes], NEW keys, NEW childs,
           NEW e \in Bytes, NEW b \in Bytes, rank[e] = b, NEW pos,
           Ranked(rank, keys, childs, n, size), PlaceOf(b, rank, keys, n, pos)
    PROVE  LET k2 == Shifted(keys, n, pos, e)
               c2 == Shifted(childs, n, pos, ChildOf(b))
           IN  /\ Ranked(rank, k2, c2, n+1, size)
               /\ RankedBytes(rank, k2, n+1) = RankedBytes(rank, keys, n) \union {b}
<1>. USE DEF Ranked, PlaceOf
<1>. DEFINE k2 == Shifted(keys, n, pos, e)
            c2 == Shifted(childs, n, pos, ChildOf(b))
<1>1. ChildOf(b) \in 0..Largest
  BY Capacities DEF ChildOf, Bytes
<1>2. /\ k2 \in [0..(size-1) -> Bytes]
      /\ c2 \in [0..(size-1) -> 0..Largest]
  BY <1>1 DEF Shifted
<1>3. \A i \in 0..n : /\ i < pos => k2[i] = keys[i] /\ c2[i] = childs[i] /\ i \in 0..(n-1)
                      /\ i = pos => k2[i] = e /\ c2[i] = ChildOf(b)
                      /\ pos < i => k2[i] = keys[i-1] /\ c2[i] = childs[i-1] /\ i-1 \in 0..(n-1)
  BY DEF Shifted
<1>. HIDE DEF k2, c2
<1>4. \A i \in 0..n : c2[i] = ChildOf(rank[k2[i]])
  BY <1>3
<1>5. \A i \in 0..(n-1) : rank[keys[i]] \in Nat
  BY Capacities, SMTT(30) DEF Bytes
<1>6. ASSUME NEW i \in 0..n, NEW j \in 0..n, i < j
      PROVE  rank[k2[i]] < rank[k2[j]]
  <2>. b \in Nat  BY Capacities DEF Bytes
  <2>1. CASE j < pos
    BY <2>1, <1>3, <1>6
  <2>2. CASE j = pos
    BY <2>2, <1>3, <1>6
  <2>3. CASE pos < j /\ i < pos
    BY <2>3, <1>3, <1>5, <1>6
  <2>4. CASE pos < j /\ i = pos
    BY <2>4, <1>3, <1>5, <1>6
  <2>5. CASE pos < j /\ pos < i
    <3>1. i-1 \in 0..(n-1) /\ j-1 \in 0..(n-1) /\ i-1 < j-1
      BY <2>5, <1>6
    <3>. QED  BY <3>1, <2>5, <1>3
  <2>. QED  BY <2>1, <2>2, <2>3, <2>4, <2>5
<1>7. RankedBytes(rank, k2, n+1) = RankedBytes(rank, keys, n) \union {b}
  <2>0. (n + 1) - 1 = n
    OBVIOUS
  <2>1. ASSUME NEW i \in 0..n
        PROVE  rank[k2[i]] \in RankedBytes(rank, keys, n) \union {b}
    <3>1. CASE i < pos
      BY <3>1, <1>3 DEF RankedBytes
    <3>2. CASE i = pos
      BY <3>2, <1>3
    <3>3. CASE pos < i
      BY <3>3, <1>3 DEF RankedBytes
    <3>. QED  BY <3>1, <3>2, <3>3
  <2>2. ASSUME NEW m \in 0..(n-1)
        PROVE  \E i \in 0..n : rank[k2[i]] = rank[keys[m]]
    <3>1. CASE m < pos
      BY <3>1, <1>3
    <3>2. CASE pos <= m
      <4>1. m + 1 \in 0..n /\ pos < m + 1 /\ (m + 1) - 1 = m
        BY <3>2
      <4>2. k2[m + 1] = keys[(m + 1) - 1]
        BY <4>1, <1>3
      <4>. QED  BY <4>1, <4>2
    <3>. QED  BY <3>1, <3>2
  <2>3. rank[k2[pos]] = b /\ pos \in 0..n
    BY <1>3
  <2>4. RankedBytes(rank, k2, n+1) = { rank[k2[i]] : i \in 0..n }
    BY <2>0 DEF RankedBytes
  <2>5. RankedBytes(rank, k2, n+1) \subseteq RankedBytes(rank, keys, n) \union {b}
    BY <2>1, <2>4
  <2>6. b \in RankedBytes(rank, k2, n+1)
    BY <2>3, <2>4
  <2>7. RankedBytes(rank, keys, n) \subseteq RankedBytes(rank, k2, n+1)
    BY <2>2, <2>4, SMTT(30) DEF RankedBytes
  <2>. QED  BY <2>5, <2>6, <2>7
<1>8. Ranked(rank, k2, c2, n+1, size)
  <2>0. (n + 1) - 1 = n
    OBVIOUS
  <2>. QED  BY <2>0, <1>2, <1>4, <1>6
<1>. QED  BY <1>7, <1>8 DEF k2, c2

-----------------------------------------------------------------------------
(* Insertions                                                              *)

\* An insertion keeps the invariant, adds b and disturbs no other byte.
Adds(b) == LayoutInv' /\ \A x \in Bytes : Has(x)' <=> Has(x) \/ x = b

Flip == [x \in Bytes |-> FlipSign(x)]
Same == [x \in Bytes |-> x]

LEMMA FlipIsFunction == Flip \in [Bytes -> Bytes] /\ Same \in [Bytes -> Bytes]
BY FlipProperties DEF Flip, Same

\* What LayoutInv says of the two sorted layouts.
LEMMA SortedLayout ==
    ASSUME LayoutInv, Sorted
    PROVE  /\ count \in Nat /\ count <= type
           /\ key \in [0..(type-1) -> Bytes]
           /\ child \in [0..(type-1) -> 0..Largest]
           /\ childIndex \in [Bytes -> 0..EmptyMarker]
           /\ \A i \in Positions : key[i] \in Bytes
           /\ \A i, j \in Positions : i < j => KeyAt(i) < KeyAt(j)
           /\ \A i \in Positions : child[i] = ChildOf(KeyAt(i))
<1>1. count \in Nat /\ count <= type /\ key \in [0..(type-1) -> Bytes] /\ type \in Nat
  BY Capacities DEF LayoutInv, TypeOK, Sorted
<1>2. \A i \in Positions : key[i] \in Bytes
  BY <1>1 DEF Positions
<1>. QED  BY <1>1, <1>2 DEF LayoutInv, TypeOK

\* The new element goes into sorted arrays whose keys stand for the bytes that
\* have a child.
LEMMA InsertSortedAdds ==
    ASSUME NEW b \in Bytes, NEW newType \in {Four, Sixteen},
           count \in Nat, count < newType,
           childIndex \in [Bytes -> 0..EmptyMarker],
           NEW rank \in [Bytes -> Bytes],
           newType = Four => rank = Same,
           newType = Sixteen => rank = Flip,
           NEW keys, NEW childs, NEW e \in Bytes, rank[e] = b, NEW pos,
           Ranked(rank, keys, childs, count, newType),
           PlaceOf(b, rank, keys, count, pos),
           \A x \in Bytes : Has(x) <=> x \in RankedBytes(rank, keys, count),
           InsertSorted(newType, keys, childs, pos, e, b)
    PROVE  Adds(b)
<1>. DEFINE k2 == Shifted(keys, count, pos, e)
            c2 == Shifted(childs, count, pos, ChildOf(b))
<1>0. newType \in Nat
  BY Capacities
<1>1. /\ Ranked(rank, k2, c2, count+1, newType)
      /\ RankedBytes(rank, k2, count+1) = RankedBytes(rank, keys, count) \union {b}
  BY <1>0, ShiftedProperties
<1>2. /\ type' = newType /\ count' = count + 1 /\ childIndex' = childIndex
      /\ key' = k2 /\ child' = c2
  BY DEF InsertSorted
<1>. HIDE DEF k2, c2
<1>3. Sorted' /\ Positions' = 0..count /\ type' # FortyEight /\ type' # Largest /\ count' <= type'
  BY <1>0, <1>2, Capacities DEF Sorted, Positions
<1>4. /\ k2 \in [0..(newType-1) -> Bytes] /\ c2 \in [0..(newType-1) -> 0..Largest]
      /\ \A i \in 0..count : k2[i] \in Bytes
      /\ \A i \in 0..count : c2[i] = ChildOf(rank[k2[i]])
      /\ \A i, j \in 0..count : i < j => rank[k2[i]] < rank[k2[j]]
  <2>1. (count + 1) - 1 = count
    OBVIOUS
  <2>. QED  BY <1>0, <1>1, <2>1, SMTT(30) DEF Ranked
<1>5. \A i \in 0..count : KeyAt(i)' = rank[k2[i]]
  BY <1>2, <1>4, Capacities DEF KeyAt, Same, Flip
<1>6. TypeOK'
  BY <1>2, <1>3, <1>4, Capacities DEF TypeOK
<1>7. LayoutInv'
  <2>1. ASSUME NEW i \in 0..count, NEW j \in 0..count, i < j
        PROVE  KeyAt(i)' < KeyAt(j)'
    BY <2>1, <1>4, <1>5
  <2>2. ASSUME NEW i \in 0..count
        PROVE  child'[i] = ChildOf(KeyAt(i)')
    BY <1>2, <1>4, <1>5
  <2>. QED  BY <2>1, <2>2, <1>3, <1>6 DEF LayoutInv, ChildOf
<1>8. ASSUME NEW x \in Bytes
      PROVE  Has(x)' <=> x \in RankedBytes(rank, k2, count+1)
  <2>1. Has(x)' <=> \E i \in 0..count : KeyAt(i)' = x
    BY <1>3 DEF Has
  <2>2. x \in RankedBytes(rank, k2, count+1) <=> \E i \in 0..count : rank[k2[i]] = x
    BY DEF RankedBytes
  <2>. QED  BY <2>1, <2>2, <1>5
<1>. QED  BY <1>1, <1>7, <1>8 DEF Adds

LEMMA Node4Adds ==
    ASSUME LayoutInv, NEW b \in Bytes, ~Has(b), InsertNode4(b)
    PROVE  Adds(b)
<1>. DEFINE pos == PositionIn4(b)
<1>0. /\ type = Four /\ Sorted /\ count < Four
      /\ InsertSorted(Four, key, child, pos, b, b)
  BY DEF InsertNode4, Sorted
<1>1. /\ count \in Nat
      /\ key \in [0..(Four-1) -> Bytes] /\ child \in [0..(Four-1) -> 0..Largest]
      /\ childIndex \in [Bytes -> 0..EmptyMarker]
      /\ \A i \in 0..(count-1) : key[i] \in Bytes
      /\ \A i, j \in 0..(count-1) : i < j => key[i] < key[j]
      /\ \A i \in 0..(count-1) : child[i] = ChildOf(key[i])
  BY <1>0, SortedLayout DEF KeyAt, Positions
<1>2. /\ pos \in 0..count
      /\ \A i \in 0..(count-1) : i < pos => key[i] < b
      /\ \A i \in 0..(count-1) : pos <= i => b < key[i]
  BY <1>0, PositionIn4Properties DEF Positions
<1>3. \A x \in Bytes : Has(x) <=> \E i \in 0..(count-1) : key[i] = x
  BY <1>0 DEF Has, KeyAt, Positions
<1>. HIDE DEF pos
<1>4. Same[b] = b /\ \A i \in 0..(count-1) : Same[key[i]] = key[i]
  BY <1>1 DEF Same
<1>5. /\ Ranked(Same, key, child, count, Four)
      /\ PlaceOf(b, Same, key, count, pos)
  BY <1>1, <1>2, <1>4 DEF Ranked, PlaceOf
<1>6. \A x \in Bytes : Has(x) <=> x \in RankedBytes(Same, key, count)
  BY <1>3, <1>4 DEF RankedBytes
<1>7. Four # Sixteen
  BY Capacities
<1>. QED  BY <1>0, <1>1, <1>4, <1>5, <1>6, <1>7, FlipIsFunction, InsertSortedAdds

\* insertNode16 into arrays whose keys are flipped bytes.
LEMMA In16Adds ==
    ASSUME NEW b \in Bytes, ~Has(b), count \in Nat, count < Sixteen,
           childIndex \in [Bytes -> 0..EmptyMarker],
           NEW keys \in [0..(Sixteen-1) -> Bytes],
           NEW childs \in [0..(Sixteen-1) -> 0..Largest],
           \A i \in 0..(count-1) : childs[i] = ChildOf(FlipSign(keys[i])),
           \A i, j \in 0..(count-1) : i < j => FlipSign(keys[i]) < FlipSign(keys[j]),
           \A x \in Bytes : Has(x) <=> \E i \in 0..(count-1) : FlipSign(keys[i]) = x,
           InsertIn16(keys, childs, b)
    PROVE  Adds(b)
<1>. DEFINE pos == PositionIn16(keys, count, b)
<1>1. \A i \in 0..(count-1) : keys[i] \in Bytes /\ FlipSign(keys[i]) # b
  BY Capacities
<1>2. /\ pos \in 0..count
      /\ \A i \in 0..(count-1) : i < pos => FlipSign(keys[i]) < b
      /\ \A i \in 0..(count-1) : pos <= i => b < FlipSign(keys[i])
  BY <1>1, PositionIn16Properties
<1>3. InsertSorted(Sixteen, keys, childs, pos, FlipSign(b), b)
  BY DEF InsertIn16
<1>. HIDE DEF pos
<1>4. \A i \in 0..(count-1) : Flip[keys[i]] = FlipSign(keys[i])
  BY <1>1 DEF Flip
<1>5. FlipSign(b) \in Bytes /\ Flip[FlipSign(b)] = b
  BY FlipProperties DEF Flip
<1>6. /\ Ranked(Flip, keys, childs, count, Sixteen)
      /\ PlaceOf(b, Flip, keys, count, pos)
  BY <1>2, <1>4 DEF Ranked, PlaceOf
<1>7. \A x \in Bytes : Has(x) <=> x \in RankedBytes(Flip, keys, count)
  BY <1>4 DEF RankedBytes
<1>8. Four # Sixteen
  BY Capacities
<1>. QED  BY <1>3, <1>5, <1>6, <1>7, <1>8, FlipIsFunction, InsertSortedAdds

LEMMA Node16Adds ==
    ASSUME LayoutInv, NEW b \in Bytes, ~Has(b), InsertNode16(b)
    PROVE  Adds(b)
<1>0. type = Sixteen /\ type # Four /\ Sorted /\ count < Sixteen /\ InsertIn16(key, child, b)
  BY Capacities DEF InsertNode16, Sorted
<1>1. /\ count \in Nat
      /\ key \in [0..(Sixteen-1) -> Bytes] /\ child \in [0..(Sixteen-1) -> 0..Largest]
      /\ childIndex \in [Bytes -> 0..EmptyMarker]
      /\ \A i, j \in 0..(count-1) : i < j => FlipSign(key[i]) < FlipSign(key[j])
      /\ \A i \in 0..(count-1) : child[i] = ChildOf(FlipSign(key[i]))
  BY <1>0, SortedLayout DEF KeyAt, Positions
<1>2. \A x \in Bytes : Has(x) <=> \E i \in 0..(count-1) : FlipSign(key[i]) = x
  BY <1>0 DEF Has, KeyAt, Positions
<1>. QED  BY <1>0, <1>1, <1>2, In16Adds

LEMMA GrowTo16Adds ==
    ASSUME LayoutInv, NEW b \in Bytes, ~Has(b), GrowTo16(b)
    PROVE  Adds(b)
<1>. DEFINE keys == Flipped(Widened(key, Four, Sixteen), Four)
            childs == Widened(child, Four, Sixteen)
<1>0. type = Four /\ Sorted /\ count = Four /\ count \in Nat /\ count < Sixteen
      /\ InsertIn16(keys, childs, b)
  BY Capacities DEF GrowTo16, Sorted
<1>1. /\ key \in [0..(Four-1) -> Bytes] /\ child \in [0..(Four-1) -> 0..Largest]
      /\ childIndex \in [Bytes -> 0..EmptyMarker]
      /\ \A i \in 0..(count-1) : key[i] \in Bytes
      /\ \A i, j \in 0..(count-1) : i < j => key[i] < key[j]
      /\ \A i \in 0..(count-1) : child[i] = ChildOf(key[i])
  BY <1>0, SortedLayout DEF KeyAt, Positions
<1>2. \A i \in 0..(count-1) : /\ i \in 0..(Sixteen-1)
                              /\ keys[i] = FlipSign(key[i])
                              /\ childs[i] = child[i]
  BY <1>0, Capacities DEF Flipped, Widened
<1>3. 0 \in Bytes /\ 0 \in 0..Largest
  BY Capacities DEF Bytes
<1>4. keys \in [0..(Sixteen-1) -> Bytes]
  <2>1. Widened(key, Four, Sixteen) \in [0..(Sixteen-1) -> Bytes]
    BY <1>0, <1>1, <1>3, Capacities DEF Widened
  <2>. QED  BY <2>1, FlipProperties DEF Flipped
<1>5. childs \in [0..(Sixteen-1) -> 0..Largest]
  BY <1>0, <1>1, <1>3, Capacities DEF Widened
<1>. HIDE DEF keys, childs
<1>6. \A i \in 0..(count-1) : FlipSign(keys[i]) = key[i]
  BY <1>1, <1>2, FlipProperties
<1>7. \A x \in Bytes : Has(x) <=> \E i \in 0..(count-1) : key[i] = x
  BY <1>0 DEF Has, KeyAt, Positions
<1>8. /\ \A i \in 0..(count-1) : childs[i] = ChildOf(FlipSign(keys[i]))
      /\ \A i, j \in 0..(count-1) : i < j => FlipSign(keys[i]) < FlipSign(keys[j])
      /\ \A x \in Bytes : Has(x) <=> \E i \in 0..(count-1) : FlipSign(keys[i]) = x
  BY <1>1, <1>2, <1>6, <1>7
<1>. QED  BY <1>0, <1>1, <1>4, <1>5, <1>8, In16Adds

\* A Node48 with n children in index and childs.
Indexed(index, childs, n) ==
    /\ index \in [Bytes -> 0..EmptyMarker]
    /\ childs \in [0..(FortyEight-1) -> 0..Largest]
    /\ \A x \in Bytes : index[x] # EmptyMarker => index[x] < n /\ childs[index[x]] = ChildOf(x)
    /\ \A i \in 0..(n-1) : childs[i] # Null
    /\ \A i \in 0..(FortyEight-1) : i >= n => childs[i] = Null

\* The slot behind the others is free, and taking it disturbs none of them.
LEMMA In48Adds ==
    ASSUME NEW b \in Bytes, count \in Nat, count < FortyEight,
           NEW index, NEW childs, Indexed(index, childs, count),
           index[b] = EmptyMarker,
           \A x \in Bytes : Has(x) <=> index[x] # EmptyMarker,
           InsertIn48(index, childs, b)
    PROVE  Adds(b)
<1>. DEFINE c2 == [childs EXCEPT ![count] = ChildOf(b)]
            i2 == [index EXCEPT ![b] = count]
<1>0. /\ count \in 0..(FortyEight-1) /\ count # EmptyMarker
      /\ ChildOf(b) \in 0..Largest /\ ChildOf(b) # Null
      /\ childs[count] = Null
  BY Capacities DEF EmptyMarker, ChildOf, Bytes, Null, Indexed
<1>1. /\ type' = FortyEight /\ count' = count + 1
      /\ child' = c2 /\ childIndex' = i2
  BY <1>0 DEF InsertIn48
<1>2. /\ i2 \in [Bytes -> 0..EmptyMarker]
      /\ c2 \in [0..(FortyEight-1) -> 0..Largest]
  BY <1>0 DEF Indexed, EmptyMarker
<1>3. \A x \in Bytes : i2[x] = IF x = b THEN count ELSE index[x]
  BY DEF Indexed
<1>4. \A i \in 0..(FortyEight-1) : c2[i] = IF i = count THEN ChildOf(b) ELSE childs[i]
  BY DEF Indexed
<1>. HIDE DEF c2, i2
<1>5. ASSUME NEW x \in Bytes, i2[x] # EmptyMarker
      PROVE  i2[x] < count + 1 /\ c2[i2[x]] = ChildOf(x)
  <2>1. CASE x = b
    BY <2>1, <1>0, <1>3, <1>4
  <2>2. CASE x # b
    <3>1. index[x] \in 0..(FortyEight-1) /\ index[x] < count /\ childs[index[x]] = ChildOf(x)
      BY <2>2, <1>3, <1>5, Capacities DEF Indexed, EmptyMarker
    <3>. QED  BY <3>1, <2>2, <1>3, <1>4
  <2>. QED  BY <2>1, <2>2
<1>6. \A i \in 0..count : c2[i] # Null
  BY <1>0, <1>4, Capacities DEF Indexed
<1>7. \A i \in 0..(FortyEight-1) : i >= count + 1 => c2[i] = Null
  BY <1>0, <1>4 DEF Indexed
<1>8. /\ ~Sorted' /\ type' # Largest /\ Positions' = 0..count /\ count' <= type'
      /\ EmptyMarker \in Nat
  BY <1>0, <1>1, Capacities DEF Sorted, Positions, EmptyMarker
<1>9. LayoutInv'
  <2>1. TypeOK'
    BY <1>1, <1>2, <1>8, Capacities DEF TypeOK
  <2>2. DOMAIN c2 = 0..(FortyEight-1)
    BY <1>2
  <2>. QED  BY <2>1, <2>2, <1>1, <1>5, <1>6, <1>7, <1>8 DEF LayoutInv
<1>10. ASSUME NEW x \in Bytes
       PROVE  Has(x)' <=> Has(x) \/ x = b
  BY <1>0, <1>1, <1>3, <1>8 DEF Has
<1>. QED  BY <1>9, <1>10 DEF Adds

LEMMA Node48Adds ==
    ASSUME LayoutInv, NEW b \in Bytes, ~Has(b), InsertNode48(b)
    PROVE  Adds(b)
<1>1. /\ type = FortyEight /\ ~Sorted /\ count \in Nat /\ count < FortyEight
      /\ InsertIn48(childIndex, child, b)
  BY Capacities DEF InsertNode48, Sorted, LayoutInv, TypeOK
<1>2. Indexed(childIndex, child, count)
  BY <1>1 DEF LayoutInv, TypeOK, Indexed, Positions
<1>3. \A x \in Bytes : Has(x) <=> childIndex[x] # EmptyMarker
  BY <1>1 DEF Has
<1>. QED  BY <1>1, <1>2, <1>3, In48Adds

LEMMA GrowTo48Adds ==
    ASSUME LayoutInv, NEW b \in Bytes, ~Has(b), GrowTo48(b)
    PROVE  Adds(b)
<1>. DEFINE At(x) == { i \in Positions : FlipSign(key[i]) = x }
            index == [x \in Bytes |-> IF At(x) = {} THEN EmptyMarker ELSE Last(At(x))]
            childs == Widened(child, Sixteen, FortyEight)
<1>0. /\ type = Sixteen /\ type # Four /\ Sorted /\ count = Sixteen /\ count \in Nat /\ count < FortyEight
      /\ InsertIn48(index, childs, b)
  BY Capacities DEF GrowTo48, Sorted
<1>1. /\ key \in [0..(Sixteen-1) -> Bytes] /\ child \in [0..(Sixteen-1) -> 0..Largest]
      /\ \A i \in Positions : FlipSign(key[i]) \in Nat
      /\ \A i, j \in Positions : i < j => FlipSign(key[i]) < FlipSign(key[j])
      /\ \A i \in Positions : child[i] = ChildOf(FlipSign(key[i]))
  <2>1. ASSUME NEW i \in Positions
        PROVE  FlipSign(key[i]) \in Nat
    <3>1. i \in 0..(Sixteen-1) /\ key \in [0..(Sixteen-1) -> Bytes]
      BY <1>0, SortedLayout DEF Positions
    <3>2. FlipSign(key[i]) \in Bytes
      BY <3>1, FlipProperties
    <3>. QED  BY <3>2, Capacities DEF Bytes
  <2>. QED  BY <2>1, <1>0, SortedLayout DEF KeyAt
<1>2. \A i, j \in Positions : FlipSign(key[i]) = FlipSign(key[j]) => i = j
  BY <1>1, <1>0 DEF Positions
<1>3. ASSUME NEW x \in Bytes
      PROVE  /\ Has(x) <=> index[x] # EmptyMarker
             /\ index[x] \in 0..EmptyMarker
             /\ index[x] # EmptyMarker =>
                  /\ index[x] \in Positions
                  /\ FlipSign(key[index[x]]) = x
  <2>1. Has(x) <=> At(x) # {}
    BY <1>0 DEF Has, KeyAt
  <2>2. CASE At(x) = {}
    BY <2>1, <2>2, Capacities DEF EmptyMarker
  <2>3. CASE At(x) # {}
    <3>1. PICK i \in At(x) : TRUE
      BY <2>3
    <3>2. i \in Positions /\ i \in Nat /\ FlipSign(key[i]) = x /\ i < count
      BY <3>1, <1>0 DEF Positions
    <3>3. \A j \in At(x) : j = i
      BY <3>2, <1>2
    <3>4. Last(At(x)) = i
      <4>1. At(x) = {i}
        BY <3>1, <3>3
      <4>2. Last({i}) = i
        BY <3>2 DEF Last
      <4>. QED  BY <4>1, <4>2
    <3>5. index[x] = i
      BY <3>4, <2>3
    <3>6. i # EmptyMarker /\ i \in 0..EmptyMarker
      BY <3>2, <1>0, Capacities DEF EmptyMarker
    <3>. QED  BY <2>1, <2>3, <3>2, <3>5, <3>6
  <2>. QED  BY <2>2, <2>3
<1>4. index \in [Bytes -> 0..EmptyMarker]
  <2>1. index = [x \in Bytes |-> index[x]]
    OBVIOUS
  <2>. HIDE DEF index
  <2>. QED  BY <2>1, <1>3
<1>. HIDE DEF index
<1>5. /\ childs \in [0..(FortyEight-1) -> 0..Largest]
      /\ \A i \in Positions : childs[i] = child[i]
      /\ \A i \in 0..(FortyEight-1) : i >= count => childs[i] = Null
  <2>1. 0 \in 0..Largest
    BY Capacities
  <2>. QED  BY <2>1, <1>0, <1>1, Capacities DEF Widened, Null, Positions
<1>. HIDE DEF childs
<1>6. Indexed(index, childs, count)
  <2>1. ASSUME NEW x \in Bytes, index[x] # EmptyMarker
        PROVE  index[x] < count /\ childs[index[x]] = ChildOf(x)
    <3>1. index[x] \in Positions /\ FlipSign(key[index[x]]) = x
      BY <1>3, <2>1
    <3>. QED  BY <3>1, <1>0, <1>1, <1>5 DEF Positions
  <2>2. ASSUME NEW i \in 0..(count-1)
        PROVE  childs[i] # Null
    <3>1. FlipSign(key[i]) \in Nat /\ childs[i] = ChildOf(FlipSign(key[i]))
      BY <1>1, <1>5 DEF Positions
    <3>. QED  BY <3>1 DEF ChildOf, Null
  <2>. QED  BY <2>1, <2>2, <1>4, <1>5 DEF Indexed
<1>7. index[b] = EmptyMarker /\ \A x \in Bytes : Has(x) <=> index[x] # EmptyMarker
  BY <1>3
<1>. QED  BY <1>0, <1>6, <1>7, In48Adds

\* A Node256 whose children are childs.
LEMMA In256Adds ==
    ASSUME NEW b \in Bytes, count \in Nat,
           NEW childs, childs \in [Bytes -> 0..Largest],
           \A x \in Bytes : childs[x] \in {Null, ChildOf(x)},
           \A x \in Bytes : Has(x) <=> childs[x] # Null,
           InsertIn256(childs, b),
           childIndex' \in [Bytes -> 0..EmptyMarker]
    PROVE  Adds(b)
<1>1. /\ type' = Largest /\ count' = count + 1
      /\ child' = [childs EXCEPT ![b] = ChildOf(b)]
  BY DEF InsertIn256
<1>2. /\ ChildOf(b) \in 0..Largest /\ ChildOf(b) # Null
      /\ Bytes = 0..(Largest-1)
  BY Capacities DEF ChildOf, Bytes, Null, Largest
<1>3. /\ ~Sorted' /\ type' # FortyEight
  BY <1>1, Capacities DEF Sorted
<1>4. /\ child' \in [0..(Largest-1) -> 0..Largest]
      /\ \A x \in Bytes : child'[x] = IF x = b THEN ChildOf(b) ELSE childs[x]
  BY <1>1, <1>2
<1>5. TypeOK'
  BY <1>1, <1>3, <1>4 DEF TypeOK
<1>6. LayoutInv'
  BY <1>1, <1>3, <1>4, <1>5 DEF LayoutInv
<1>7. ASSUME NEW x \in Bytes
      PROVE  Has(x)' <=> Has(x) \/ x = b
  BY <1>2, <1>3, <1>4 DEF Has
<1>. QED  BY <1>6, <1>7 DEF Adds

LEMMA Node256Adds ==
    ASSUME LayoutInv, NEW b \in Bytes, ~Has(b), InsertNode256(b)
    PROVE  Adds(b)
<1>1. /\ type = Largest /\ ~Sorted /\ type # FortyEight /\ count \in Nat
      /\ Bytes = 0..(Largest-1)
      /\ InsertIn256(child, b) /\ childIndex' = childIndex
  BY Capacities DEF InsertNode256, Sorted, LayoutInv, TypeOK, Bytes, Largest
<1>2. /\ child \in [Bytes -> 0..Largest]
      /\ \A x \in Bytes : child[x] \in {Null, ChildOf(x)}
      /\ childIndex \in [Bytes -> 0..EmptyMarker]
  BY <1>1 DEF LayoutInv, TypeOK
<1>3. \A x \in Bytes : Has(x) <=> child[x] # Null
  BY <1>1 DEF Has
<1>. QED  BY <1>1, <1>2, <1>3, In256Adds

LEMMA GrowTo256Adds ==
    ASSUME LayoutInv, NEW b \in Bytes, ~Has(b), GrowTo256(b)
    PROVE  Adds(b)
<1>. DEFINE childs == [x \in Bytes |-> IF x \in Present THEN ByByte(x) ELSE Null]
<1>1. /\ type = FortyEight /\ ~Sorted /\ count \in Nat
      /\ InsertIn256(childs, b) /\ childIndex' = [x \in Bytes |-> EmptyMarker]
  BY Capacities DEF GrowTo256, Sorted, LayoutInv, TypeOK
<1>2. childIndex' \in [Bytes -> 0..EmptyMarker]
  BY <1>1, Capacities DEF EmptyMarker
<1>3. ASSUME NEW x \in Bytes
      PROVE  /\ childs[x] \in {Null, ChildOf(x)} /\ childs[x] \in 0..Largest
             /\ Has(x) <=> childs[x] # Null
  <2>1. Null \in 0..Largest /\ ChildOf(x) \in 0..Largest /\ ChildOf(x) # Null
    BY Capacities DEF ChildOf, Bytes, Null, Largest
  <2>2. Has(x) <=> childIndex[x] # EmptyMarker
    BY <1>1 DEF Has
  <2>3. childs[x] = IF childIndex[x] # EmptyMarker THEN child[childIndex[x]] ELSE Null
    BY <1>1 DEF Present, ByByte
  <2>4. childIndex[x] # EmptyMarker => child[childIndex[x]] = ChildOf(x)
    BY <1>1 DEF LayoutInv
  <2>. QED  BY <2>1, <2>2, <2>3, <2>4
<1>4. childs \in [Bytes -> 0..Largest]
  <2>1. childs = [x \in Bytes |-> childs[x]]
    OBVIOUS
  <2>. HIDE DEF childs
  <2>. QED  BY <2>1, <1>3
<1>. HIDE DEF childs
<1>. QED  BY <1>1, <1>2, <1>3, <1>4, In256Adds

-----------------------------------------------------------------------------
(* Theorems                                                                *)

LEMMA InsertAdds ==
    ASSUME LayoutInv, NEW b \in Bytes, Insert(b)
    PROVE  ~Has(b) /\ Adds(b)
<1>1. ~Has(b)
  <2>1. FindChild(b) = Null
    BY DEF Insert
  <2>2. ChildOf(b) # Null
    BY Capacities DEF ChildOf, Null, Bytes
  <2>. QED  BY <2>1, <2>2, FindChildProperties
<1>. QED  BY <1>1, Node4Adds, GrowTo16Adds, Node16Adds, GrowTo48Adds, Node48Adds,
            GrowTo256Adds, Node256Adds DEF Insert

LEMMA LayoutInitially == Init => LayoutInv /\ \A x \in Bytes : ~Has(x)
<1>. SUFFICES ASSUME Init
              PROVE  LayoutInv /\ \A x \in Bytes : ~Has(x)
  OBVIOUS
<1>1. /\ type = Four /\ type # FortyEight /\ type # Largest /\ Sorted /\ Positions = {}
      /\ count = 0 /\ count \in Nat /\ count <= type
  BY Capacities DEF Init, Sorted, Positions
<1>2. /\ key \in [0..(Four-1) -> Bytes]
      /\ child \in [0..(Four-1) -> 0..Largest]
      /\ childIndex \in [Bytes -> 0..EmptyMarker]
  <2>1. 0 \in Bytes /\ 0 \in 0..Largest /\ EmptyMarker \in 0..EmptyMarker
    BY Capacities DEF Bytes, EmptyMarker
  <2>. QED  BY <2>1 DEF Init, Zeros
<1>3. TypeOK
  BY <1>1, <1>2 DEF TypeOK
<1>4. LayoutInv
  BY <1>1, <1>3 DEF LayoutInv
<1>. QED  BY <1>1, <1>4 DEF Has

\* Every layout keeps what its searches rely on: sorted keys, dense slots, and
\* an index that leads to the child of its byte.
THEOREM LayoutInvariant == Spec => []LayoutInv
<1>1. Init => LayoutInv
  BY LayoutInitially
<1>2. LayoutInv /\ [Next]_vars => LayoutInv'
  <2>. SUFFICES ASSUME LayoutInv, [Next]_vars
                PROVE  LayoutInv'
    OBVIOUS
  <2>1. ASSUME NEW b \in Bytes, Insert(b)
        PROVE  LayoutInv'
    BY <2>1, InsertAdds DEF Adds
  <2>2. CASE UNCHANGED vars
    BY <2>2 DEF vars, LayoutInv, TypeOK, Sorted, Positions, KeyAt
  <2>. QED  BY <2>1, <2>2 DEF Next
<1>. QED  BY <1>1, <1>2, PTL DEF Spec

-----------------------------------------------------------------------------
(* The refinement                                                          *)

HasChild == { x \in Bytes : Has(x) }

\* The map of a node, by the bytes that have a child.
LEMMA ChildrenProperties ==
    LayoutInv => Children = [b \in HasChild |-> b + 1]
<1>. SUFFICES ASSUME LayoutInv
              PROVE  Children = [b \in HasChild |-> b + 1]
  OBVIOUS
<1>1. ASSUME NEW b \in Bytes
      PROVE  /\ FindChild(b) # Null <=> Has(b)
             /\ Has(b) => FindChild(b) = b + 1
  <2>1. b + 1 # 0
    BY Capacities DEF Bytes
  <2>. QED  BY <2>1, FindChildProperties DEF ChildOf, Null
<1>2. { b \in Bytes : FindChild(b) # Null } = HasChild
  BY <1>1 DEF HasChild
<1>3. Children = [b \in HasChild |-> FindChild(b)]
  BY <1>2 DEF Children
<1>. QED  BY <1>1, <1>3 DEF HasChild

\* A node starts as the empty map, and every insertion, with or without a
\* change of layout, adds the child of one byte and no other change.
THEOREM NodeIsMap == Spec => ImplementsMap
<1>1. Init => Map!Init
  <2>. SUFFICES ASSUME Init
                PROVE  Map!Init
    OBVIOUS
  <2>1. Children = [b \in HasChild |-> b + 1] /\ HasChild = {}
    BY LayoutInitially, ChildrenProperties DEF HasChild
  <2>. QED  BY <2>1 DEF Map!Init
<1>2. LayoutInv /\ LayoutInv' /\ [Next]_vars => [Map!Next]_Children
  <2>. SUFFICES ASSUME LayoutInv, LayoutInv', [Next]_vars
                PROVE  Map!Next \/ UNCHANGED Children
    BY DEF Map!Next
  <2>0. (LayoutInv => Children = [b \in HasChild |-> b + 1])'
    BY ChildrenProperties, PTL
  <2>1. /\ Children = [b \in HasChild |-> b + 1]
        /\ Children' = [b \in HasChild' |-> b + 1]
    BY <2>0, ChildrenProperties
  <2>2. ASSUME NEW b \in Bytes, Insert(b)
        PROVE  Map!Next
    <3>1. ~Has(b) /\ \A x \in Bytes : Has(x)' <=> Has(x) \/ x = b
      BY <2>2, InsertAdds DEF Adds
    <3>2. HasChild' = HasChild \union {b}
      BY <3>1 DEF HasChild
    <3>3. DOMAIN Children = HasChild /\ b \notin HasChild
      BY <2>1, <3>1 DEF HasChild
    <3>4. Map!Insert(b)
      BY <2>1, <3>2, <3>3 DEF Map!Insert
    <3>. QED  BY <3>4 DEF Map!Next
  <2>3. CASE UNCHANGED vars
    <3>1. UNCHANGED <<type, count, key, childIndex, child>>
      BY <2>3 DEF vars
    <3>. QED  BY <3>1 DEF Children, FindChild, Sorted, Positions, Present, ByByte
  <2>. QED  BY <2>2, <2>3 DEF Next
<1>. QED  BY <1>1, <1>2, LayoutInvariant, PTL DEF Spec, ImplementsMap, Map!Spec

-----------------------------------------------------------------------------
(* The order of the children                                               *)

\* The first and the last of a set of numbers below a bound.
LEMMA FirstIs ==
    ASSUME NEW T \in SUBSET Nat, NEW x \in T, \A j \in T : x <= j
    PROVE  First(T) = x
<1>1. First(T) \in T /\ First(T) <= x
  BY FirstProperties
<1>2. x <= First(T) /\ First(T) \in Nat /\ x \in Nat
  BY <1>1
<1>. QED  BY <1>1, <1>2

LEMMA LastProperties ==
    ASSUME NEW n \in Nat, NEW T \in SUBSET (0..n), T # {}
    PROVE  Last(T) \in T /\ \A j \in T : j <= Last(T)
<1>. DEFINE D == { n - t : t \in T }
<1>1. D \in SUBSET Nat /\ D # {}
  OBVIOUS
<1>. HIDE DEF D
<1>2. First(D) \in D /\ \A d \in D : First(D) <= d
  BY <1>1, FirstProperties
<1>3. PICK t \in T : First(D) = n - t
  BY <1>2 DEF D
<1>4. \A j \in T : j <= t
  <2>. TAKE j \in T
  <2>1. n - j \in D
    BY DEF D
  <2>2. n - t <= n - j
    BY <1>2, <1>3, <2>1
  <2>. QED  BY <2>2
<1>. QED  BY <1>4 DEF Last

LEMMA LastIs ==
    ASSUME NEW n \in Nat, NEW T \in SUBSET (0..n), NEW x \in T, \A j \in T : j <= x
    PROVE  Last(T) = x
<1>1. T # {}
  OBVIOUS
<1>2. Last(T) \in T /\ \A j \in T : j <= Last(T)
  BY <1>1, LastProperties
<1>3. x \in 0..n /\ Last(T) \in 0..n
  BY <1>2
<1>4. Last(T) <= x /\ x <= Last(T)
  BY <1>2
<1>. QED  BY <1>3, <1>4

\* In a sorted layout the order of the slots is the order of the bytes.
LEMMA SortedEnds ==
    ASSUME LayoutInv, Sorted, NEW I \in SUBSET Positions, I # {}
    PROVE  LET C == { KeyAt(i) : i \in I }
           IN  /\ C \in SUBSET Bytes
               /\ child[First(I)] = ChildOf(First(C))
               /\ child[Last(I)] = ChildOf(Last(C))
<1>. DEFINE C == { KeyAt(i) : i \in I }
<1>1. /\ count \in Nat
      /\ \A i \in Positions : key[i] \in Bytes
      /\ \A i, j \in Positions : i < j => KeyAt(i) < KeyAt(j)
      /\ \A i \in Positions : child[i] = ChildOf(KeyAt(i))
  BY SortedLayout
<1>2. \A i \in Positions : KeyAt(i) \in Bytes
  BY <1>1, FlipProperties DEF KeyAt
<1>3. /\ I \in SUBSET Nat /\ I \in SUBSET (0..count)
      /\ \A i \in I : i \in Positions
  BY <1>1 DEF Positions
<1>4. C \in SUBSET Bytes /\ C \in SUBSET Nat /\ C \in SUBSET (0..2 * Half) /\ 2 * Half \in Nat
  BY <1>2, <1>3, Capacities DEF Bytes
<1>5. \A i, j \in I : i <= j => KeyAt(i) <= KeyAt(j)
  <2>. TAKE i, j \in I
  <2>1. i \in Nat /\ j \in Nat /\ KeyAt(i) \in Nat /\ KeyAt(j) \in Nat
    BY <1>2, <1>3, Capacities DEF Bytes
  <2>2. i = j => KeyAt(i) = KeyAt(j)
    OBVIOUS
  <2>3. i < j => KeyAt(i) < KeyAt(j)
    BY <1>1, <1>3
  <2>. QED  BY <2>1, <2>2, <2>3
<1>6. First(I) \in I /\ \A i \in I : First(I) <= i
  BY <1>3, FirstProperties
<1>7. Last(I) \in I /\ \A i \in I : i <= Last(I)
  BY <1>1, <1>3, LastProperties
<1>8. First(C) = KeyAt(First(I))
  <2>1. KeyAt(First(I)) \in C /\ \A c \in C : KeyAt(First(I)) <= c
    BY <1>5, <1>6
  <2>. HIDE DEF C
  <2>. QED  BY <1>4, <2>1, FirstIs
<1>9. Last(C) = KeyAt(Last(I))
  <2>1. KeyAt(Last(I)) \in C /\ \A c \in C : c <= KeyAt(Last(I))
    BY <1>5, <1>7
  <2>. HIDE DEF C
  <2>. QED  BY <1>4, <2>1, LastIs
<1>. QED  BY <1>1, <1>3, <1>4, <1>6, <1>7, <1>8, <1>9

\* The bytes of a node, in a layout that is indexed by bytes.
LEMMA IndexedLayout ==
    ASSUME LayoutInv, ~Sorted
    PROVE  Present = HasChild /\ \A b \in Present : ByByte(b) = ChildOf(b)
<1>1. CASE type = FortyEight
  BY <1>1, Capacities DEF LayoutInv, TypeOK, Present, ByByte, HasChild, Has, Sorted
<1>2. CASE type = Largest
  <2>1. type # FortyEight
    BY <1>2, Capacities
  <2>. QED  BY <1>2, <2>1 DEF LayoutInv, TypeOK, Present, ByByte, HasChild, Has, Sorted
<1>. QED  BY <1>1, <1>2 DEF LayoutInv, TypeOK, Sorted

\* The searches between siblings, in either kind of layout.
LEMMA Neighbours ==
    ASSUME LayoutInv, NEW b \in Bytes
    PROVE  LET above == { c \in HasChild : b < c }
               below == { c \in HasChild : c < b }
           IN  /\ GreaterThan(b) = IF above = {} THEN Null ELSE ChildOf(First(above))
               /\ LowerThan(b) = IF below = {} THEN Null ELSE ChildOf(Last(below))
<1>. DEFINE above == { c \in HasChild : b < c }
            below == { c \in HasChild : c < b }
<1>1. CASE Sorted
  <2>. DEFINE up == { i \in Positions : b < KeyAt(i) }
              down == { i \in Positions : KeyAt(i) < b }
  <2>1. \A i \in Positions : KeyAt(i) \in Bytes
    BY <1>1, SortedLayout, FlipProperties DEF KeyAt
  <2>2. HasChild = { KeyAt(i) : i \in Positions }
    BY <1>1, <2>1 DEF HasChild, Has
  <2>3. above = { KeyAt(i) : i \in up } /\ below = { KeyAt(i) : i \in down }
    BY <2>2
  <2>4. GreaterThan(b) = (IF up = {} THEN Null ELSE child[First(up)])
    BY <1>1 DEF GreaterThan
  <2>5. LowerThan(b) = (IF down = {} THEN Null ELSE child[Last(down)])
    BY <1>1 DEF LowerThan
  <2>6. up \in SUBSET Positions /\ down \in SUBSET Positions
    OBVIOUS
  <2>7. (up = {} <=> above = {}) /\ (down = {} <=> below = {})
    BY <2>3
  <2>. HIDE DEF up, down, above, below
  <2>8. up # {} => child[First(up)] = ChildOf(First(above))
    BY <1>1, <2>3, <2>6, SortedEnds
  <2>9. down # {} => child[Last(down)] = ChildOf(Last(below))
    BY <1>1, <2>3, <2>6, SortedEnds
  <2>10. /\ GreaterThan(b) = IF above = {} THEN Null ELSE ChildOf(First(above))
         /\ LowerThan(b) = IF below = {} THEN Null ELSE ChildOf(Last(below))
    BY <2>4, <2>5, <2>7, <2>8, <2>9
  <2>. QED  BY <2>10 DEF above, below
<1>2. CASE ~Sorted
  <2>1. Present = HasChild /\ \A c \in HasChild : ByByte(c) = ChildOf(c)
    BY <1>2, IndexedLayout
  <2>2. GreaterThan(b) = (IF above = {} THEN Null ELSE ByByte(First(above)))
    BY <1>2, <2>1 DEF GreaterThan
  <2>3. LowerThan(b) = (IF below = {} THEN Null ELSE ByByte(Last(below)))
    BY <1>2, <2>1 DEF LowerThan
  <2>4. /\ above \in SUBSET Nat /\ above \in SUBSET HasChild
        /\ below \in SUBSET (0..2 * Half) /\ below \in SUBSET HasChild /\ 2 * Half \in Nat
    BY Capacities DEF HasChild, Bytes
  <2>. HIDE DEF above, below
  <2>5. above # {} => First(above) \in HasChild
    BY <2>4, FirstProperties
  <2>6. below # {} => Last(below) \in HasChild
    BY <2>4, LastProperties
  <2>7. /\ GreaterThan(b) = IF above = {} THEN Null ELSE ChildOf(First(above))
        /\ LowerThan(b) = IF below = {} THEN Null ELSE ChildOf(Last(below))
    BY <2>1, <2>2, <2>3, <2>5, <2>6
  <2>. QED  BY <2>7 DEF above, below
<1>. QED  BY <1>1, <1>2

\* The ends of a node.
LEMMA EndsOfNode ==
    ASSUME LayoutInv, HasChild # {}
    PROVE  FirstChild = ChildOf(First(HasChild)) /\ LastChild = ChildOf(Last(HasChild))
<1>1. CASE Sorted
  <2>1. \A i \in Positions : KeyAt(i) \in Bytes
    BY <1>1, SortedLayout, FlipProperties DEF KeyAt
  <2>2. HasChild = { KeyAt(i) : i \in Positions }
    BY <1>1, <2>1 DEF HasChild, Has
  <2>3. Positions # {} /\ count \in Nat
    BY <1>1, <2>2, SortedLayout
  <2>4. /\ 0 \in Positions /\ count - 1 \in Positions /\ count - 1 \in Nat
        /\ \A i \in Positions : i \in Nat /\ 0 <= i /\ i <= count - 1
    BY <2>3 DEF Positions
  <2>5. First(Positions) = 0
    BY <2>4, FirstIs
  <2>6. Last(Positions) = count - 1
    <3>1. Positions \in SUBSET (0..(count - 1))
      BY DEF Positions
    <3>. QED  BY <2>4, <3>1, LastIs
  <2>7. child[First(Positions)] = ChildOf(First(HasChild)) /\ child[Last(Positions)] = ChildOf(Last(HasChild))
    BY <1>1, <2>2, <2>3, SortedEnds
  <2>. QED  BY <1>1, <2>5, <2>6, <2>7 DEF FirstChild, LastChild
<1>2. CASE ~Sorted
  <2>1. Present = HasChild /\ \A c \in HasChild : ByByte(c) = ChildOf(c)
    BY <1>2, IndexedLayout
  <2>2. HasChild \in SUBSET Nat /\ HasChild \in SUBSET (0..2 * Half) /\ 2 * Half \in Nat
    BY Capacities DEF HasChild, Bytes
  <2>3. First(HasChild) \in HasChild /\ Last(HasChild) \in HasChild
    BY <2>2, FirstProperties, LastProperties
  <2>. QED  BY <1>2, <2>1, <2>3 DEF FirstChild, LastChild
<1>. QED  BY <1>1, <1>2

\* In every layout the children are in the order of the unsigned bytes, for the
\* searches that the sparse tree and range lookups make (minimum, maximum,
\* greaterThan, lowerThan in ARTBase.cpp).
THEOREM NodeInOrder == Spec => []ChildrenInOrder
<1>1. LayoutInv => ChildrenInOrder
  <2>. SUFFICES ASSUME LayoutInv PROVE ChildrenInOrder
    OBVIOUS
  <2>1. DOMAIN Children = HasChild
    BY ChildrenProperties
  <2>. QED  BY <2>1, EndsOfNode, Neighbours DEF ChildrenInOrder
<1>. QED  BY <1>1, LayoutInvariant, PTL
=============================================================================
