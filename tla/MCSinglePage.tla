---------------------------- MODULE MCSinglePage ----------------------------
(***************************************************************************)
(* Small instances of SinglePage: every set of at most MaxValues of the    *)
(* words below is loaded in sorted order, as the perftest harness and the  *)
(* tests do.  The words share prefixes of every length, one is empty, one  *)
(* fills a page to the last byte and one fits on no page.                  *)
(***************************************************************************)
EXTENDS SinglePage, FiniteSetsExt, SequencesExt

CONSTANTS MaxValues

Repeat(byte, n) == [i \in 1..n |-> byte]

Sorted(S) == SetToSortSeq(S, LexLess)

\* PageSize 44: room for a full value and one or two deltas.
Words ==
    { <<>>, <<1>>, <<1,1>>, <<1,1,2>>, <<1,2>>, <<1,2,1,1>>, <<2>>, <<2,1>>,
      Repeat(2, PageSize - FullHeader - EndHeader),
      Repeat(3, PageSize - FullHeader) }

MCInputs == { Sorted(S) : S \in { T \in SUBSET Words : Cardinality(T) <= MaxValues } }

\* A short value and one that is two bytes longer than the 16-bit size field
\* can count.
LongInputs == { << <<1>>, [i \in 1..(StringRange + 2) |-> 1] >> }
=============================================================================
