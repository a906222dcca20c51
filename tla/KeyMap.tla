------------------------------- MODULE KeyMap -------------------------------
(***************************************************************************)
(* What a radix tree promises: a map from keys to the leaf values inserted *)
(* for them.  A tree stores no keys, only leaf values; KeyOf gives the key *)
(* of each.                                                                *)
(***************************************************************************)
CONSTANTS
    LeafValues,  \* the values that may be inserted
    KeyOf,       \* KeyOf[v]: the key of v
    Queries      \* the keys that are looked up

VARIABLES
    stored,  \* the leaf values inserted so far
    answer   \* the key looked up last, and the leaf values found for it

NoAnswer == [key |-> <<>>, found |-> {}]

Init == stored = {} /\ answer = NoAnswer

\* A call begins.
Call == answer' = NoAnswer /\ UNCHANGED stored

Insert == \E v \in LeafValues \ stored : stored' = stored \union {v} /\ UNCHANGED answer

Lookup ==
    /\ \E key \in Queries :
          answer' = [key |-> key, found |-> { v \in stored : KeyOf[v] = key }]
    /\ UNCHANGED stored

Next == Call \/ Insert \/ Lookup

Spec == Init /\ [][Next]_<<stored, answer>>
=============================================================================
