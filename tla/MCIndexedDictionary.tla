------------------------ MODULE MCIndexedDictionary ------------------------
(***************************************************************************)
(* Small instances of IndexedDictionary: every sorted set of at most       *)
(* MaxValues words is loaded.  One word fills a page, one fits on none.    *)
(***************************************************************************)
EXTENDS IndexedDictionary, SequencesExt

CONSTANTS MaxValues

Repeat(byte, n) == [i \in 1..n |-> byte]

LongestValue == EndOfPage - IndexHeader - FullHeader

\* The words in ascending order.
Words == << <<>>, <<1>>, <<1,1>>, <<1,1,2>>, <<1,2>>, <<2>>, <<2,1>>,
            Repeat(2, LongestValue), Repeat(3, LongestValue + 1), <<200>>, <<200,1>> >>

Ascending(T) == SelectSeq(Words, LAMBDA w : w \in T)

MCInputs == { Ascending(T) : T \in { T \in SUBSET ToSet(Words) : Cardinality(T) <= MaxValues } }

\* The search is asked for strings that are not stored as well.
MCQueries == ToSet(Words) \union { <<1,2,1>>, <<4>> }

\* No ranges for bottom-up pages: see RangesSound.
AllKinds     == { "slotted", "bottomup", "dynamic", "dynamicslotted", "multi" }
MCPrefixQueries == [k \in AllKinds |-> IF k = "bottomup" THEN {} ELSE MCQueries]

OnlyBottomUp == { "bottomup" }
=============================================================================
