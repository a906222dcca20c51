------------------------- MODULE MCStringDictionary -------------------------
(***************************************************************************)
(* Small instances of StringDictionary.  Every set of at most MaxValues    *)
(* words is loaded in sorted order; every word, and a few strings that are *)
(* never stored, are looked up and used as a prefix.                       *)
(***************************************************************************)
EXTENDS StringDictionary, FiniteSetsExt, SequencesExt

CONSTANTS MaxValues

Repeat(byte, n) == [i \in 1..n |-> byte]

Sorted(S) == SetToSortSeq(S, LexLess)

\* The last one is a byte too long for any page, as a delta too, and comes among
\* the others in the sorted order: a load is cut short before, or in, the middle.
Words == { <<>>, <<1>>, <<1,1>>, <<1,2>>, <<2>>, Repeat(1, PageSize - FullHeader) }

MCInputs == { Sorted(S) : S \in { T \in SUBSET Words : Cardinality(T) <= MaxValues } }

Release == [strategy |-> "offset", debug |-> FALSE]
Debug   == [strategy |-> "delta", debug |-> TRUE]

ReleaseAndDebug == { Release, Debug }
MCQueries == Words \union { <<1,2,1>>, <<3>> }
=============================================================================
