----------------------------- MODULE SparseTree -----------------------------
(***************************************************************************)
(* The lookups of the sparse radix tree (SART.cpp, ARTBase.cpp).  It holds *)
(* only some of the stored strings, and a lookup leads to a leaf near the  *)
(* string: on its page, or on one before it.                               *)
(*                                                                         *)
(* What a radix tree looks like depends only on the keys inserted, as long *)
(* as no prefix is longer than its nodes can keep (RadixTree).  A subtree  *)
(* is the set of its keys here, all of them with a zero byte at the end.   *)
(***************************************************************************)
EXTENDS ByteStrings, FiniteSetsExt, SequencesExt

Terminated(string) == Append(string, 0)

Least(keys)    == CHOOSE s \in keys : \A t \in keys \ {s} : LexLess(s, t)
Greatest(keys) == CHOOSE s \in keys : \A t \in keys \ {s} : LexLess(t, s)

\* The bytes that a node and the nodes above it consume.
Common(keys) ==
    LET s == CHOOSE s \in keys : TRUE
    IN  SubSeq(s, 1, Min({ PrefixLength(s, t) : t \in keys }))

Child(keys, depth, byte) == { s \in keys : s[depth + 1] = byte }

\* No child for the byte: the least key of the next child, if there is one.
Neighbour(keys, depth, byte) ==
    LET greater == { s \in keys : s[depth + 1] > byte }
    IN  IF greater # {} THEN Least(greater) ELSE Greatest(keys)

\* sartLookupValue on a tree that is not empty: the key of the leaf it finds.
LookupValue(stored, string) ==
    LET key == Terminated(string)
        walk[keys \in SUBSET stored] ==
            LET depth == Len(Common(keys))
            IN  IF Cardinality(keys) = 1 THEN Least(keys)
                ELSE IF ~IsPrefix(Common(keys), key) THEN Least(keys)
                ELSE IF Child(keys, depth, key[depth + 1]) # {}
                     THEN walk[Child(keys, depth, key[depth + 1])]
                ELSE Neighbour(keys, depth, key[depth + 1])
    IN  walk[stored]

Found(keys) == [wild |-> FALSE, keys |-> keys]

\* sartLookupPrefix: the keys of the leaves below what it finds, or none.  The
\* length of the prefix is compared with what this one node has matched.  A key
\* that is the prefix itself is a leaf deeper than the prefix is long, and then
\* the leaf value is taken for the address of a node.
LookupPrefix(stored, prefix) ==
    LET key == Terminated(prefix)
        walk[keys \in SUBSET stored, from \in 0..Len(key)] ==
            LET depth    == Len(Common(keys))
                matching == PrefixLength(Common(keys), key) - from
                child    == Child(keys, depth, key[depth + 1])
                lower    == { s \in keys : s[depth + 1] < key[depth + 1] }
            IN  IF Cardinality(keys) = 1
                THEN [wild |-> from > Len(prefix), keys |-> keys]
                ELSE IF matching = Len(prefix) THEN Found(keys)
                ELSE IF matching # depth - from THEN Found({})
                ELSE IF child # {} THEN walk[child, depth + 1]
                ELSE Found(IF lower # {} THEN { Least(keys) } ELSE {})
    IN  IF stored = {} THEN Found({}) ELSE walk[stored, 0]
=============================================================================
