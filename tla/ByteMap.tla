------------------------------ MODULE ByteMap ------------------------------
(***************************************************************************)
(* What an inner node of the radix tree is: a map from bytes to children,  *)
(* to which children are added one by one.  The child of byte b is named   *)
(* b + 1, since 0 is the null pointer.                                     *)
(***************************************************************************)
EXTENDS Integers

CONSTANT Bytes

VARIABLE children  \* a function from the bytes that have a child

Init == children = [b \in {} |-> 0]

Insert(b) ==
    /\ b \notin DOMAIN children
    /\ children' = [k \in (DOMAIN children) \union {b} |-> k + 1]

Next == \E b \in Bytes : Insert(b)

Spec == Init /\ [][Next]_children
=============================================================================
