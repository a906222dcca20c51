------------------------- MODULE IndexedDictionary -------------------------
(***************************************************************************)
(* The dictionaries on pages with an index:                                *)
(*   StringDictionary<ART, HAT, SlottedPage<PageSize>, IndirectStrategy>   *)
(*   StringDictionary<ART, SART, BottomUpPage<PageSize>, BottomUpStrategy> *)
(*   StringDictionary<ART, HAT, DynamicPage<1>, OffsetStrategy>            *)
(*   StringDictionary<ART, HAT, DynamicSlottedPage<1>, IndirectStrategy>   *)
(*   StringDictionary<ART, HAT, MultiUncompressedPage<PageSize, Frequency>,*)
(*                    OffsetStrategy>                                      *)
(*                                                                         *)
(* With a HAT every string is in the reverse index, with the entry of the  *)
(* page's index or its offset as part of the leaf value.  The sparse tree  *)
(* has only the first string of each page, and the last one of some: a     *)
(* lookup by string finds a page near the string and searches from there,  *)
(* along the chain of pages.                                               *)
(***************************************************************************)
EXTENDS IndexedPage, LeafEncoding

CONSTANTS
    Inputs,         \* the arrays of values that may be loaded
    Queries,        \* the strings that are looked up
    PrefixQueries,  \* PrefixQueries[kind]: the prefixes that are looked up
    MaxId           \* bound: the ids 0..MaxId are looked up

ASSUME InputsAssumption == \A vs \in Inputs : vs \in Seq(Seq(Nat))

Sparse == INSTANCE SparseTree

VARIABLES
    index,         \* id -> leaf value
    reverseIndex,  \* string -> leaf value
    answer         \* the last call that returned, and what it gave

vars == <<pages, kind, slots, sizes, values, pos, current, dataPtr, deltaNumber, numberOfDeltas,
          valuePtr, pending, pc, index, reverseIndex, answer>>

Init ==
    /\ LoaderInit
    /\ index = [i \in {} |-> 0] /\ reverseIndex = [s \in {} |-> 0]
    /\ answer = [op |-> "none", arg |-> <<>>, out |-> <<>>]

Answer(op, arg, out) == answer' = [op |-> op, arg |-> arg, out |-> out]
Entry(id, value) == [id |-> id, value |-> value]

-----------------------------------------------------------------------------
(* Loading.                                                                *)
BulkInsert(vs) == Load(vs) /\ UNCHANGED <<index, reverseIndex, answer>>

WriteValue ==
    /\ OpenPage \/ OpenBlock \/ WriteFull \/ WriteDelta \/ WriteMulti
    /\ IF pc' = "threw" THEN Answer("threw", <<>>, <<>>) ELSE UNCHANGED answer
    /\ UNCHANGED <<index, reverseIndex>>

BulkInsertReturns ==
    /\ Finish
    /\ IF pc' = "ready" THEN Answer("inserted", <<>>, <<>>) ELSE UNCHANGED answer
    /\ UNCHANGED <<index, reverseIndex>>

With(map, key, leaf) ==
    [k \in (DOMAIN map) \union {key} |-> IF k = key THEN leaf ELSE map[k]]

\* The calls of BottomUpStrategy::leafCallback: 0 for a last value, 1 for an
\* uncompressed one, 2 for a delta.
ForReverse == kind # "bottomup" \/ pending.delta \in {0, 1}
ForIndex   == kind # "bottomup" \/ pending.delta \in {1, 2}

\* IndirectStrategy stores entries of the index, the other strategies offsets.
Indirect == kind \in {"slotted", "dynamicslotted"}
IdLeaf == EncodeLeaf(pending.page, IF Indirect THEN pending.delta ELSE pending.offset)

\* Mutant: the last value leads to the start of its page.
ReverseLeaf_Start ==
    IF kind # "bottomup" THEN IdLeaf ELSE ThroughTree(EncodeLeaf(pending.page, 0))

\* The number 1 is no offset: it stands for the last value on the page.
ReverseLeaf ==
    IF kind # "bottomup" THEN IdLeaf
    ELSE ThroughTree(EncodeLeaf(pending.page, IF pending.delta = 0 THEN 1 ELSE 0))

\* HAT::insert keeps what it has.  A radix tree that is given a key for a
\* second time looks for a difference behind the end of both keys.
InsertReverse ==
    /\ pc = "callback" /\ ForReverse
    /\ IF pending.value \notin DOMAIN reverseIndex
       THEN /\ reverseIndex' = With(reverseIndex, pending.value, ReverseLeaf)
            /\ IF ForIndex THEN pc' = "indexed" /\ UNCHANGED pos ELSE Return
       ELSE /\ pc' = IF kind # "bottomup" THEN "indexed" ELSE "overrun"
            /\ UNCHANGED <<reverseIndex, pos>>
    /\ UNCHANGED <<pages, kind, slots, sizes, values, current, dataPtr, deltaNumber, numberOfDeltas,
                   valuePtr, pending, index, answer>>

\* The id goes to the other index, and the callback returns.
InsertId ==
    /\ \/ pc = "indexed"
       \/ pc = "callback" /\ ~ForReverse
    /\ index' = With(index, pending.id, ThroughTree(IdLeaf))
    /\ Return
    /\ UNCHANGED <<pages, kind, slots, sizes, values, current, dataPtr, deltaNumber, numberOfDeltas,
                   valuePtr, pending, reverseIndex, answer>>

-----------------------------------------------------------------------------
(* Lookups.                                                                *)
AtRest == pc \in {"ready", "threw"}

DecodeLeaf(leafValue) ==
    LET p == LeafPage(leafValue)
        n == LeafOffset(leafValue)
    IN  IF Indirect THEN GetIndexEntry(p, n)
        ELSE IF kind = "multi" THEN GotoOffsetWithDelta(p, n \div DeltaNumbers, n % DeltaNumbers)
        ELSE IF kind = "bottomup" /\ n = 1 THEN LastOn(p)
        ELSE GotoOffset(p, n)

\* The leaf points to a page, and the assertions on the way to a value hold.
Decodes(leafValue) ==
    LET p == LeafPage(leafValue)
        n == LeafOffset(leafValue)
    IN  /\ p \in 1..Len(pages)
        /\ IF Indirect THEN EntryExists(p, n)
           ELSE kind = "multi" \/ (kind = "bottomup" /\ n = 1) \/ OffsetExists(p, n)
        /\ HasValue(DecodeLeaf(leafValue))

\* The keys in the sparse tree, and their strings.
TreeKeys == { Sparse!Terminated(s) : s \in DOMAIN reverseIndex }
LeafOf(key) == reverseIndex[SubSeq(key, 1, Len(key) - 1)]

\* decodeLeaf for a string: the page that the sparse tree leads to is searched.
Landing(str) == LeafPage(LeafOf(Sparse!LookupValue(TreeKeys, str)))

\* Whether the reverse index gives a leaf at all: the sparse one always does.
HasLeaf(str) == DOMAIN reverseIndex # {} /\ (kind # "bottomup" => str \in DOMAIN reverseIndex)

\* The iterator for a string that is looked up; it may be null, and an
\* assertion on the way to it may fail.
Find(str) ==
    IF kind = "bottomup"
    THEN CHOOSE found \in { IndexSearch(p, str) : p \in { Landing(str) } } : TRUE
    ELSE [fails |-> ~Decodes(reverseIndex[str]), it |-> DecodeLeaf(reverseIndex[str])]

\* getId asserts that there is a value: a null iterator ends the process.
LookupValue(s) ==
    /\ AtRest
    /\ IF ~HasLeaf(s) THEN Answer("value", s, <<>>) /\ UNCHANGED pc
       ELSE \E found \in { Find(s) } :
               IF ~found.fails /\ HasId(found.it)
               THEN Answer("value", s, <<Entry(GetId(found.it), s)>>) /\ UNCHANGED pc
               ELSE pc' = "aborted" /\ UNCHANGED answer
    /\ UNCHANGED <<pages, kind, slots, sizes, values, pos, current, dataPtr, deltaNumber,
                   numberOfDeltas, valuePtr, pending, index, reverseIndex>>

LookupId(i) ==
    /\ AtRest
    /\ IF i \notin DOMAIN index THEN Answer("id", <<i>>, <<>>) /\ UNCHANGED pc
       ELSE IF Decodes(index[i])
       THEN Answer("id", <<i>>, <<Entry(i, GetValue(DecodeLeaf(index[i])))>>) /\ UNCHANGED pc
       ELSE pc' = "aborted" /\ UNCHANGED answer
    /\ UNCHANGED <<pages, kind, slots, sizes, values, pos, current, dataPtr, deltaNumber,
                   numberOfDeltas, valuePtr, pending, index, reverseIndex>>

-----------------------------------------------------------------------------
(* Range lookups.                                                          *)

\* The walk through the sparse tree for a prefix: what it finds, and whether it
\* takes a leaf for a node.
NearKeys(prefix) == Sparse!LookupPrefix(TreeKeys, prefix).keys
GoesWild(prefix) == kind = "bottomup" /\ Sparse!LookupPrefix(TreeKeys, prefix).wild

\* The pages of the first and the last of these keys, if there are any.
NearPages(prefix) ==
    { [first |-> LeafPage(LeafOf(Sparse!Least(keys))),
       last  |-> LeafPage(LeafOf(Sparse!Greatest(keys)))] : keys \in { NearKeys(prefix) } \ {{}} }

Matching(prefix) == { s \in DOMAIN reverseIndex : StartsWith(s, prefix) }

\* The ends of a range, if there is one.  HAT::rangeLookup gives the leaves of
\* the first and the last key with the prefix.  The sparse tree gives two leaves
\* near them, whose pages are searched.
RangeEnds(prefix) ==
    IF kind # "bottomup"
    THEN { [start |-> DecodeLeaf(reverseIndex[Sparse!Least(keys)]),
            end   |-> DecodeLeaf(reverseIndex[Sparse!Greatest(keys)])] :
             keys \in { Matching(prefix) } \ {{}} }
    ELSE { ends \in { [start |-> PrefixStart(near.first, prefix),
                       end   |-> PrefixEnd(near.last, prefix)] : near \in NearPages(prefix) } :
             Valid(ends.start) }

\* One turn of the loop of StringDictionary::rangeLookup: it ends with the
\* chain, with a failed assertion of operator*, or with the last entry.
Turn(scan, endId) ==
    LET here == Dereferenced(scan.it)
        out  == Append(scan.out, Entry(GetId(here), GetValue(here)))
    IN  IF scan.ended # "never" THEN scan
        ELSE IF ~Valid(scan.it) THEN [scan EXCEPT !.ended = "chain"]
        ELSE IF ~HasValue(scan.it) THEN [scan EXCEPT !.ended = "aborted"]
        ELSE IF GetId(here) = endId THEN [scan EXCEPT !.ended = "last", !.out = out]
        ELSE [scan EXCEPT !.it = Increment(here), !.out = out]

\* The loop, at most once for every value and once more.
Scan(start, endId) ==
    LET turn[k \in 0..(Len(values) + 1)] ==
            IF k = 0 THEN [it |-> start, out |-> <<>>, ended |-> "never"]
            ELSE CHOOSE next \in { Turn(last, endId) : last \in { turn[k - 1] } } : TRUE
    IN  turn[Len(values) + 1]

Aborted == [it |-> NullIterator, out |-> <<>>, ended |-> "aborted"]
Nothing == [it |-> NullIterator, out |-> <<>>, ended |-> "nothing"]

\* What a range lookup gives, and how it ends.  operator* of the end asserts
\* that there is one.
Ranges(prefix) ==
    IF GoesWild(prefix) THEN { Aborted }
    ELSE IF RangeEnds(prefix) = {} THEN { Nothing }
    ELSE { IF HasValue(ends.end) THEN Scan(ends.start, GetId(ends.end)) ELSE Aborted :
             ends \in RangeEnds(prefix) }

RangeLookup(prefix) ==
    /\ AtRest
    /\ \E range \in Ranges(prefix) :
          IF range.ended = "aborted" THEN pc' = "aborted" /\ UNCHANGED answer
          ELSE Answer("range", prefix, range.out) /\ UNCHANGED pc
    /\ UNCHANGED <<pages, kind, slots, sizes, values, pos, current, dataPtr, deltaNumber,
                   numberOfDeltas, valuePtr, pending, index, reverseIndex>>

-----------------------------------------------------------------------------
LoadStep == WriteValue \/ BulkInsertReturns \/ InsertReverse \/ InsertId

Lookup ==
    \/ \E s \in Queries : LookupValue(s)
    \/ \E s \in PrefixQueries[kind] : RangeLookup(s)
    \/ \E i \in 0..MaxId : LookupId(i)

\* Bound: one load, before which nothing is looked up, and one lookup after it: a
\* lookup leaves nothing but its answer.
Next ==
    \/ pc = "ready" /\ values = <<>> /\ answer.op = "none" /\ \E vs \in Inputs : BulkInsert(vs)
    \/ LoadStep
    \/ answer.op \in {"none", "inserted", "threw"} /\ Lookup

Spec == Init /\ [][Next]_vars
-----------------------------------------------------------------------------
(* Properties.                                                             *)

\* What the dictionary holds as its user sees it: nothing while it is loaded,
\* then the values before the loop stopped.
Stored == IF pc \in {"ready", "threw", "aborted"} THEN SubSeq(values, 1, pos - 1) ELSE <<>>

Promise == INSTANCE Dictionary WITH
              stored <- Stored, Ids <- 0..MaxId,
              Storable <- LAMBDA s : IndexHeader + FullHeader + Len(s) <= EndOfPage,
              HasPrefix <- StartsWith

\* Whatever a call gives back is what Dictionary.hpp promises: ids in the order
\* of the values, the entry for a string or an id, all entries with a prefix (but
\* for bottom-up pages).  A call may end the process instead, see StoredIsFound.
KeepsPromise == Promise!Spec

\* At any moment, also in the middle of a load, every leaf decodes to the value
\* it was inserted for, through the index of a page that is not yet complete.
\* The leaf of a last value is inserted when its page is finished.  Only the first
\* leaf of a dynamic page decodes to nothing until its callback is over: the next
\* insertion in a radix tree, which reads the leaves in it, comes later.
Announced == IF Dynamic /\ current # Null /\ deltaNumber = 0 THEN {pos} ELSE {}
LeavesDecode ==
    /\ \A s \in DOMAIN reverseIndex \ { values[k] : k \in Announced } :
          Decodes(reverseIndex[s]) /\ GetValue(DecodeLeaf(reverseIndex[s])) = s
    /\ \A i \in DOMAIN index \ Announced : Decodes(index[i]) /\ GetId(DecodeLeaf(index[i])) = i

Loaded == pc = "ready" /\ values # <<>>

PageOf(k) ==
    CHOOSE p \in 1..Len(pages) : \E o \in DOMAIN pages[p].cells : pages[p].cells[o].id = k

SharesFirstChar(k) == \E s \in DOMAIN reverseIndex : FirstChar(s) = FirstChar(values[k])

\* The sparse tree never leads past a value: if any of its keys has the first
\* character of the value, the page it leads to is the value's own or one before
\* it.  The last values that the loader inserts make up for the preference of
\* the lookup for the greater neighbour.
LandsBefore ==
    Loaded /\ kind = "bottomup" =>
        \A k \in 1..Len(values) : SharesFirstChar(k) => Landing(values[k]) <= PageOf(k)

\* A search along the chain finds a value from any page before its own, unless
\* a page without deltas lies between.
SearchReaches ==
    Loaded /\ kind = "bottomup" =>
        \A k \in 1..Len(values) : \A p \in 1..PageOf(k) :
            (\A q \in p..(PageOf(k) - 1) : Entries(q) > 0) =>
                LET found == IndexSearch(p, values[k])
                IN  HasId(found.it) /\ GetId(found.it) = k

\* A search for any string, from any page, ends before the end of the chain: the
\* assertion of gotoNextPage holds, because the last page never has deltas.
SearchStaysOnChain ==
    Loaded /\ kind = "bottomup" =>
        \A s \in Queries : \A p \in 1..Len(pages) : ~IndexSearch(p, s).fails

\* The lookup of a string that was loaded finds it.
StoredIsFound ==
    Loaded => \A k \in 1..Len(values) :
        LET found == Find(values[k])
        IN  ~found.fails /\ HasId(found.it) /\ GetId(found.it) = k

\* A range lookup gives only values that start with the prefix.
RangesSound ==
    Loaded => \A s \in Queries : \A range \in Ranges(s) : \A i \in 1..Len(range.out) :
        StartsWith(range.out[i].value, s)
=============================================================================
