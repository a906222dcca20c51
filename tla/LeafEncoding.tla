---------------------------- MODULE LeafEncoding ----------------------------
(***************************************************************************)
(* How a position in the pages becomes one machine word.                   *)
(*                                                                         *)
(* StrategyBase::encodeLeaf packs the address of a page and a 16-bit       *)
(* number (an offset, a delta number, an index entry) into a 64-bit leaf   *)
(* value; the adaptive radix tree then packs the leaf value and a tag bit  *)
(* into a node pointer (ARTBase::makeLeaf).  Both shift bits out of the    *)
(* word: what survives depends on how many bits of an address are in use.  *)
(***************************************************************************)
EXTENDS MachineTypes

\* The low bits of the shifted address are zero: "or" is addition.
EncodeLeaf(leaf, additionalValue) == ((leaf * OffsetRange) % WordRange) + additionalValue

LeafPage(leafValue)   == leafValue \div OffsetRange
LeafOffset(leafValue) == leafValue % OffsetRange

MakeLeaf(tid)      == ((2 * tid) % WordRange) + 1
\* Mutant: the tag is cleared, but nothing is shifted back.
GetLeafValue_NoShift(node) == node - (node % 2)

GetLeafValue(node) == node \div 2
IsLeaf(node)       == node % 2 = 1

\* What a lookup gets back of a leaf value stored in a radix tree.
ThroughTree(leafValue) == GetLeafValue(MakeLeaf(leafValue))
=============================================================================
