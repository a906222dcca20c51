---------------------------- MODULE MCRadixTree ----------------------------
(***************************************************************************)
(* Small instances of RadixTree: ids as eight bytes, strings that end in a *)
(* zero byte.                                                              *)
(***************************************************************************)
EXTENDS RadixTree, SequencesExt

Repeat(byte, n) == [i \in 1..n |-> byte]
Terminated(s) == Append(s, 0)

\* __builtin_bswap64 of an id below 256^3.
IdKey(high, middle, low) == Repeat(0, 5) \o <<high, middle, low>>

MCIds == << IdKey(0,0,1), IdKey(0,0,2), IdKey(1,2,1), IdKey(1,2,2), IdKey(2,0,0) >>
MCIdQueries == { IdKey(h, m, l) : h, m, l \in 0..2 }

Long(n, s) == Terminated(Repeat(1, n) \o s)

\* Strings that are prefixes of others, and behind them longer ones of equal
\* length, with a common prefix that no node keeps whole.
MCStrings == << Terminated(<<>>), Terminated(<<1>>), Terminated(<<1,2>>),
                Terminated(<<2>> \o Repeat(1, 12)),
                Terminated(<<2>> \o Repeat(1, 11) \o <<2>>),
                Terminated(<<2>> \o Repeat(1, 9) \o <<2>> \o Repeat(1, 2)),
                Terminated(<<2>> \o Repeat(1, 6) \o <<2>> \o Repeat(1, 5)) >>

MCStringQueries == ToSet(MCStrings) \union { Terminated(<<2,1,1>>), Terminated(Repeat(2, 13)) }
MCPrefixes == { <<>>, <<1>>, <<1,2>>, <<2>>, <<2>> \o Repeat(1, 6), <<2>> \o Repeat(1, 9), <<2>> \o Repeat(1, 11) }

\* The third string is shorter than the prefix it breaks.
ShortStrings == << Long(9, <<1,1,1>>), Long(9, <<1,1,2>>), Long(5, <<2>>) >>
Family(leafValues, sorted, queries, prefixes) ==
    [leafValues |-> leafValues, sorted |-> sorted, queries |-> queries, prefixes |-> prefixes]

\* Ids come in any order, strings in ascending order.
MCKeyOf == MCIds \o MCStrings
MCLeafValues == 1..Len(MCKeyOf)
MCQueries == MCIdQueries \union MCStringQueries
Ids     == Family(1..Len(MCIds), FALSE, MCIdQueries, {})
Strings == Family((Len(MCIds) + 1)..Len(MCKeyOf), TRUE, MCStringQueries, MCPrefixes)
MCFamilies == {Ids, Strings}

\* What the theorems suppose is so of all these trees.
ASSUME MCHypotheses ==
    Families = MCFamilies => KeyHypotheses /\ MapHypotheses /\ RangeHypotheses

ShortFamilies == { Family(1..Len(ShortStrings), TRUE, ToSet(ShortStrings), {}) }
ShortLeafValues == 1..Len(ShortStrings)
ShortQueries == ToSet(ShortStrings)
=============================================================================
