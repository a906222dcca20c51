----------------------------- MODULE NodeLayout -----------------------------
(***************************************************************************)
(* How an inner node of the radix tree lays out its children               *)
(* (ARTBase.cpp: Node4, Node16, Node48, Node256).                          *)
(*                                                                         *)
(* Node4 and Node16 keep two parallel arrays in the order of the key       *)
(* bytes; Node16 flips the sign bit of its keys, so that a comparison of   *)
(* signed bytes orders them.  Node48 keeps an array from bytes to          *)
(* positions in an unordered array of children, Node256 an array from      *)
(* bytes to children.  A node that is full is replaced by the next larger  *)
(* kind.  Arrays count from 0.                                             *)
(***************************************************************************)
EXTENDS Integers

CONSTANTS
    Four, Sixteen, FortyEight,  \* the capacities: 4, 16, 48
    Half                        \* half the number of byte values: 128

ASSUME CapacityAssumption ==
    /\ Four \in Nat \ {0, 1} /\ Sixteen \in Nat /\ FortyEight \in Nat /\ Half \in Nat \ {0}
    /\ Four < Sixteen /\ Sixteen < FortyEight /\ FortyEight < 2 * Half

Bytes == 0..(2 * Half - 1)

VARIABLES
    type,        \* the capacity of the node, 2 * Half for a Node256
    count,
    key,         \* the key bytes, of a Node16 flipped
    childIndex,  \* of a Node48: the position of the child of a byte
    child

vars == <<type, count, key, childIndex, child>>

Null == 0
EmptyMarker == FortyEight
Largest == 2 * Half

\* The child that belongs to a byte.
ChildOf(b) == b + 1

FlipSign(keyByte) == (keyByte + Half) % (2 * Half)
Signed(b) == IF b < Half THEN b ELSE b - 2 * Half

Zeros(n) == [i \in 0..(n - 1) |-> 0]

\* A Node4 is made empty and filled with two children by insertValue.
Init ==
    /\ type = Four /\ count = 0
    /\ key = Zeros(Four) /\ child = Zeros(Four)
    /\ childIndex = [b \in Bytes |-> EmptyMarker]

-----------------------------------------------------------------------------
(* findChild, minimum, maximum, greaterThan, lowerThan: one level.         *)
Positions == 0..(count - 1)

First(S) == CHOOSE i \in S : \A j \in S : i <= j
Last(S)  == CHOOSE i \in S : \A j \in S : j <= i

KeyAt(i) == IF type = Four THEN key[i] ELSE FlipSign(key[i])

Sorted == type \in {Four, Sixteen}

\* The bytes that have a child, in a layout that is indexed by bytes.
Present == IF type = FortyEight THEN { b \in Bytes : childIndex[b] # EmptyMarker }
                                ELSE { b \in Bytes : child[b] # Null }

ByByte(b) == IF type = FortyEight THEN child[childIndex[b]] ELSE child[b]

\* Node16 compares the flipped byte with all slots, and masks those in use.
FindChild(keyByte) ==
    IF Sorted
    THEN LET found == { i \in Positions :
                           key[i] = IF type = Four THEN keyByte ELSE FlipSign(keyByte) }
         IN  IF found = {} THEN Null ELSE child[First(found)]
    ELSE IF keyByte \in Present THEN ByByte(keyByte) ELSE Null

FirstChild == IF Sorted THEN child[0] ELSE ByByte(First(Present))

LastChild == IF Sorted THEN child[count - 1] ELSE ByByte(Last(Present))

GreaterThan(keyByte) ==
    IF Sorted
    THEN LET above == { i \in Positions : keyByte < KeyAt(i) }
         IN  IF above = {} THEN Null ELSE child[First(above)]
    ELSE LET above == { b \in Present : keyByte < b }
         IN  IF above = {} THEN Null ELSE ByByte(First(above))

LowerThan(keyByte) ==
    IF Sorted
    THEN LET below == { i \in Positions : KeyAt(i) < keyByte }
         IN  IF below = {} THEN Null ELSE child[Last(below)]
    ELSE LET below == { b \in Present : b < keyByte }
         IN  IF below = {} THEN Null ELSE ByByte(Last(below))

-----------------------------------------------------------------------------
(* insertNode4, insertNode16, insertNode48, insertNode256.                 *)

\* memmove of what is behind pos, and the new element at pos.
Shifted(array, n, pos, element) ==
    [i \in DOMAIN array |-> IF i = pos THEN element
                            ELSE IF i > pos /\ i <= n THEN array[i - 1]
                            ELSE array[i]]

\* An array copied into a larger one of zeros.
Widened(array, n, size) == [i \in 0..(size - 1) |-> IF i < n THEN array[i] ELSE 0]

Flipped(array, n) == [i \in DOMAIN array |-> IF i < n THEN FlipSign(array[i]) ELSE array[i]]

\* Node4: the position before the first key that is not less.
PositionIn4(keyByte) ==
    LET above == { i \in Positions : key[i] >= keyByte }
    IN  IF above = {} THEN count ELSE First(above)

\* Mutant: the flipped keys are compared as unsigned bytes.
PositionIn16_Unsigned(keys, n, keyByte) ==
    LET above == { i \in 0..(n - 1) : FlipSign(keyByte) < keys[i] }
    IN  IF above = {} THEN n ELSE First(above)

\* Node16: the first of the slots in use that is greater as a signed byte.
PositionIn16(keys, n, keyByte) ==
    LET above == { i \in 0..(n - 1) : Signed(FlipSign(keyByte)) < Signed(keys[i]) }
    IN  IF above = {} THEN n ELSE First(above)

InsertSorted(newType, keys, childs, pos, element, keyByte) ==
    /\ type' = newType
    /\ key' = Shifted(keys, count, pos, element)
    /\ child' = Shifted(childs, count, pos, ChildOf(keyByte))
    /\ count' = count + 1
    /\ UNCHANGED childIndex

\* Mutant: a full node takes one more child.
InsertNode4_Full(keyByte) ==
    /\ type = Four /\ count <= Four
    /\ InsertSorted(Four, key, child, PositionIn4(keyByte), keyByte, keyByte)

InsertNode4(keyByte) ==
    /\ type = Four /\ count < Four
    /\ InsertSorted(Four, key, child, PositionIn4(keyByte), keyByte, keyByte)

InsertIn16(keys, childs, keyByte) ==
    InsertSorted(Sixteen, keys, childs, PositionIn16(keys, count, keyByte), FlipSign(keyByte), keyByte)

GrowTo16(keyByte) ==
    /\ type = Four /\ count = Four
    /\ InsertIn16(Flipped(Widened(key, Four, Sixteen), Four), Widened(child, Four, Sixteen), keyByte)

InsertNode16(keyByte) ==
    /\ type = Sixteen /\ count < Sixteen
    /\ InsertIn16(key, child, keyByte)

\* Node48: the slot behind the others, unless it is taken.
InsertIn48(index, childs, keyByte) ==
    LET pos == IF childs[count] = Null THEN count
               ELSE First({ i \in DOMAIN childs : childs[i] = Null })
    IN  /\ type' = FortyEight
        /\ child' = [childs EXCEPT ![pos] = ChildOf(keyByte)]
        /\ childIndex' = [index EXCEPT ![keyByte] = pos]
        /\ count' = count + 1

\* Mutant: the keys are taken as they are, flipped.
GrowTo48_Flipped(keyByte) ==
    /\ type = Sixteen /\ count = Sixteen
    /\ InsertIn48([b \in Bytes |-> LET at == { i \in Positions : key[i] = b }
                                   IN  IF at = {} THEN EmptyMarker ELSE Last(at)],
                  Widened(child, Sixteen, FortyEight), keyByte)
    /\ key' = Zeros(0)

GrowTo48(keyByte) ==
    /\ type = Sixteen /\ count = Sixteen
    /\ InsertIn48([b \in Bytes |-> LET at == { i \in Positions : FlipSign(key[i]) = b }
                                   IN  IF at = {} THEN EmptyMarker ELSE Last(at)],
                  Widened(child, Sixteen, FortyEight), keyByte)
    /\ key' = Zeros(0)

InsertNode48(keyByte) ==
    /\ type = FortyEight /\ count < FortyEight
    /\ InsertIn48(childIndex, child, keyByte)
    /\ UNCHANGED key

InsertIn256(childs, keyByte) ==
    /\ type' = Largest
    /\ child' = [childs EXCEPT ![keyByte] = ChildOf(keyByte)]
    /\ count' = count + 1

GrowTo256(keyByte) ==
    /\ type = FortyEight /\ count = FortyEight
    /\ InsertIn256([b \in Bytes |-> IF b \in Present THEN ByByte(b) ELSE Null], keyByte)
    /\ childIndex' = [b \in Bytes |-> EmptyMarker]
    /\ UNCHANGED key

InsertNode256(keyByte) ==
    /\ type = Largest
    /\ InsertIn256(child, keyByte)
    /\ UNCHANGED <<key, childIndex>>

\* insertValue adds a child for a byte that has none.
Insert(keyByte) ==
    /\ FindChild(keyByte) = Null
    /\ \/ InsertNode4(keyByte)  \/ GrowTo16(keyByte)
       \/ InsertNode16(keyByte) \/ GrowTo48(keyByte)
       \/ InsertNode48(keyByte) \/ GrowTo256(keyByte)
       \/ InsertNode256(keyByte)

Next == \E keyByte \in Bytes : Insert(keyByte)

Spec == Init /\ [][Next]_vars

-----------------------------------------------------------------------------
(* Properties.                                                             *)

\* The type invariant: the arrays of each layout (ARTBase.cpp:55-112).
TypeOK ==
    /\ type \in {Four, Sixteen, FortyEight, Largest}
    /\ count \in Nat /\ (type # Largest => count <= type)
    /\ child \in [0..(type - 1) -> 0..Largest]
    /\ Sorted => key \in [0..(type - 1) -> Bytes]
    /\ childIndex \in [Bytes -> 0..EmptyMarker]

\* What the layouts rely on, kind by kind: keys ascend, as unsigned bytes; the
\* slots in use are the first ones; an index leads to the child of its byte
\* (ARTBase.cpp:55-112).
LayoutInv ==
    /\ TypeOK
    /\ Sorted =>
          /\ \A i, j \in Positions : i < j => KeyAt(i) < KeyAt(j)
          /\ \A i \in Positions : child[i] = ChildOf(KeyAt(i))
    /\ type = FortyEight =>
          /\ \A b \in Bytes : childIndex[b] # EmptyMarker =>
                childIndex[b] < count /\ child[childIndex[b]] = ChildOf(b)
          /\ \A i \in Positions : child[i] # Null
          /\ \A i \in DOMAIN child : i >= count => child[i] = Null
    /\ type = Largest => \A b \in Bytes : child[b] \in {Null, ChildOf(b)}

\* What the node maps bytes to.
Children ==
    LET found == { b \in Bytes : FindChild(b) # Null }
    IN  [b \in found |-> FindChild(b)]

\* Whatever its layout, and across the changes of layout, a node is a map:
\* an insertion adds the child of one byte and disturbs no other (findChild,
\* insertNode4/16/48/256).
Map == INSTANCE ByteMap WITH children <- Children
ImplementsMap == Map!Spec

\* The order of the children is the order of the unsigned bytes in every
\* layout, also where the code compares signed ones: the searches of the
\* sparse tree and the first and last leaf of a range depend on it.
ChildrenInOrder ==
    LET bytes == DOMAIN Children
    IN  /\ bytes # {} => /\ FirstChild = ChildOf(First(bytes))
                         /\ LastChild = ChildOf(Last(bytes))
        /\ \A b \in Bytes :
              LET above == { c \in bytes : b < c }
                  below == { c \in bytes : c < b }
              IN  /\ GreaterThan(b) = IF above = {} THEN Null ELSE ChildOf(First(above))
                  /\ LowerThan(b) = IF below = {} THEN Null ELSE ChildOf(Last(below))
=============================================================================
