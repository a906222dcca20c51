---------------------------- MODULE IndexedPage ----------------------------
(***************************************************************************)
(* Pages with an index: SlottedPage, BottomUpPage and DynamicSlottedPage,  *)
(* their loaders, and how an iterator uses the index (include/Page.hpp).   *)
(* DynamicPage, whose loader is that of DynamicSlottedPage, and            *)
(* MultiUncompressedPage have none.                                        *)
(*                                                                         *)
(* A page starts with the number of its deltas and the offset of each,     *)
(* counted from the uncompressed value behind the index.  The loader has   *)
(* to know the number before it writes a value: it counts how many of the  *)
(* next values fit, and then writes exactly that many.                     *)
(*                                                                         *)
(* The loader of BottomUpPage also passes the last value of a page to the  *)
(* callback a second time, when the next page turns out to start with the  *)
(* same character.                                                         *)
(*                                                                         *)
(* The dynamic loaders (TPrefixSize is 1) put the values with the same     *)
(* first character on a page that is as large as they need.                *)
(*                                                                         *)
(* A MultiUncompressedPage has every so many values uncompressed, and      *)
(* names the others by the last of these and how far behind it they are.   *)
(***************************************************************************)
EXTENDS PageFormat, FiniteSetsExt

CONSTANTS
    PageSize,   \* TSize: the bytes of data in a page
    Frequency,  \* TFrequency: every how many values one is uncompressed
    Kinds       \* the page types to be checked

ASSUME IndexedAssumption ==
    /\ PageSize \in Nat \ {0}
    /\ Frequency \in Nat \ {0}
    /\ Kinds \subseteq {"slotted", "bottomup", "dynamic", "dynamicslotted", "multi"}

VARIABLES
    kind,            \* the page type the program was built with
    slots,           \* slots[p]: the index of page p
    sizes,           \* sizes[p]: the bytes of data in page p
    values,          \* the strings being loaded; their ids count from 1
    pos,             \* the pair the loop is at
    current,         \* currentPage
    dataPtr,         \* where the next byte goes, counted from the uncompressed value
    deltaNumber,     \* how many values are on the current page
    numberOfDeltas,  \* how many deltas it is to hold
    valuePtr,        \* where the last delta was written, on whatever page; of a
                     \* multi page the last uncompressed value
    pending,         \* the arguments of the callback that is running
    pc

loaderVars == <<pages, kind, slots, sizes, values, pos, current, dataPtr,
                deltaNumber, numberOfDeltas, valuePtr, pending, pc>>

NoPointer == [page |-> Null, off |-> 0]
NoCallback == [page |-> Null, delta |-> 0, offset |-> 0, id |-> 0, value |-> <<>>]

LoaderInit ==
    /\ pages = <<>> /\ slots = <<>> /\ sizes = <<>>
    /\ kind \in Kinds
    /\ values = <<>> /\ pos = 1
    /\ current = Null /\ dataPtr = 0
    /\ deltaNumber = 0 /\ numberOfDeltas = 0 /\ valuePtr = NoPointer
    /\ pending = NoCallback
    /\ pc = "ready"

-----------------------------------------------------------------------------
(* The loader.                                                             *)
EndOfPage == PageSize - EndHeader

Dynamic == kind \in {"dynamic", "dynamicslotted"}

\* The uncompressed value of the current page (deltaRef).
Ref == pages[current].cells[0].str

\* The size of a page with this many bytes in front of n deltas of these sizes.
Total(front, deltas, n) ==
    LET total[k \in 0..n] == IF k = 0 THEN front ELSE total[k-1] + deltas[k]
    IN  total[n]

\* Room for the index header, a value, and the n values behind it as deltas
\* with an entry in the index each.
RoomFor(n) ==
    Total(IndexHeader + FullHeader + Len(values[pos]),
          [k \in 1..n |-> OffsetSize + DeltaHeader + DeltaLength(values[pos], values[pos + k])], n)

\* Mutant: the last value of the input is counted as well.
DeltasThatFit_CountsLast ==
    Max({0} \union { n \in 1..(Len(values) - pos) : RoomFor(n) <= EndOfPage })

\* Mutant: the delta that does not fit any more is counted.
DeltasThatFit_OneMore ==
    Max({0} \union { n \in 1..(Len(values) - pos - 1) : RoomFor(n - 1) <= EndOfPage })

\* A delta is counted when it fits and another value follows it: the last
\* value of the input is never counted.
DeltasThatFit ==
    Max({0} \union { n \in 1..(Len(values) - pos - 1) : RoomFor(n) <= EndOfPage })

Looping == pc = "loop" /\ pos <= Len(values)
PageComplete == current = Null \/ deltaNumber = numberOfDeltas + 1

FirstChar(value) == IF value = <<>> THEN 0 ELSE value[1]

\* Mutant: the value is compared with the first one of the page before.
RetroInserts_ComparesFirst(previous) ==
    /\ kind = "bottomup"
    /\ previous # Null /\ valuePtr # NoPointer
    /\ FirstChar(values[pos]) = FirstChar(pages[previous].cells[0].str)

\* The last value of the page before goes to the callback again.
RetroInserts(previous) ==
    /\ kind = "bottomup"
    /\ previous # Null /\ valuePtr # NoPointer
    /\ FirstChar(values[pos]) = FirstChar(values[pos - 1])

Callback(page, number, offset, k) ==
    /\ pending' = [page |-> page, delta |-> number, offset |-> offset % OffsetRange,
                   id |-> k, value |-> values[k]]
    /\ pc' = "callback"

Load(vs) ==
    /\ pc = "ready" /\ values = <<>>
    /\ values' = vs
    /\ pc' = "loop"
    /\ UNCHANGED <<pages, kind, slots, sizes, pos, current, dataPtr, deltaNumber,
                   numberOfDeltas, valuePtr, pending>>

\* Mutant: the new page is not linked to the one before it.
PagesAndNew_Unlinked ==
    Append(IF current = Null THEN pages
           ELSE [pages EXCEPT ![current] = Finished(@, dataPtr, @.next)], EmptyPage)

\* The pages once the current one is finished and a new one is linked to it.
PagesAndNew ==
    Append(IF current = Null THEN pages
           ELSE [pages EXCEPT ![current] = Finished(@, dataPtr, Len(pages) + 1)], EmptyPage)

\* The current page is finished, and the one before it linked to it.
Completed ==
    [p \in 1..Len(pages) |->
        IF p = current THEN Finished(pages[p], dataPtr, pages[p].next)
        ELSE IF p = current - 1 THEN [pages[p] EXCEPT !.next = current]
        ELSE pages[p]]

\* The index of the new page is reserved.  A value that fits on no page is an
\* exception, or in a BottomUpPage a throw with nothing to throw.
OpenPage ==
    /\ kind \in {"slotted", "bottomup"} /\ Looping /\ PageComplete
    /\ pages' = PagesAndNew
    /\ sizes' = Append(sizes, PageSize)
    /\ current' = Len(pages) + 1
    /\ dataPtr' = 0 /\ deltaNumber' = 0
    /\ IF RoomFor(0) > EndOfPage
       THEN /\ pc' = IF kind = "slotted" THEN "threw" ELSE "terminated"
            /\ slots' = Append(slots, <<>>)
            /\ UNCHANGED <<numberOfDeltas, pending>>
       ELSE /\ numberOfDeltas' = DeltasThatFit
            /\ slots' = Append(slots, [i \in 1..DeltasThatFit |-> Unwritten])
            /\ IF RetroInserts(current) THEN Callback(current, 0, valuePtr.off, pos - 1)
               ELSE pc' = "open" /\ UNCHANGED pending
    /\ UNCHANGED <<kind, values, pos, valuePtr>>

\* The byte is compared with a char, which is signed.
IsSearched(k, char) == FirstChar(values[k]) = char /\ char < 128

\* The variables of findBlock.
Spans == LET behind == 0..(Len(values) - pos)
         IN  [start : behind, end : behind, biggest : behind]

WholeBlock == [start |-> 0, end |-> Len(values) - pos, biggest |-> 0]

\* Mutant: the search ends one value too early.
FindBlock_Short(char) ==
    LET search[s \in Spans] ==
            LET middle == (s.start + s.end) \div 2
            IN  IF s.start >= s.end THEN s.biggest
                ELSE IF IsSearched(pos + middle, char)
                THEN search[[start |-> middle + 1, end |-> s.end, biggest |-> middle]]
                ELSE search[[start |-> s.start, end |-> middle, biggest |-> s.biggest]]
    IN  search[WholeBlock]

\* The binary search of findBlock: how far behind the first value of a page is
\* the last one that starts with the character.
FindBlock(char) ==
    LET search[s \in Spans] ==
            LET middle == (s.start + s.end) \div 2
            IN  IF s.start >= s.end
                THEN IF IsSearched(pos + s.start, char) THEN s.start ELSE s.biggest
                ELSE IF IsSearched(pos + middle, char)
                THEN search[[start |-> middle + 1, end |-> s.end, biggest |-> middle]]
                ELSE search[[start |-> s.start, end |-> middle, biggest |-> s.biggest]]
    IN  search[WholeBlock]

\* The deltas of a page that starts here; an empty value takes all that follow.
Block == IF FirstChar(values[pos]) = 0 THEN Len(values) - pos ELSE FindBlock(FirstChar(values[pos]))

\* getPageSize, without the pointer to the next page.
BlockSize(n) ==
    LET head == IF kind = "dynamic" THEN 0 ELSE IndexHeader
        slot == IF kind = "dynamic" THEN 0 ELSE OffsetSize
    IN  Total(head + FullHeader + Len(values[pos]),
              [k \in 1..n |-> slot + DeltaHeader + Len(Delta(values[pos], values[pos + k]))], n)
            + EndHeader

\* The index of a DynamicSlottedPage counts its entries in 16 bits.
EntriesFit == kind = "dynamicslotted" => Block < OffsetRange

\* The callback gets the first value of a page before it is written.
OpenBlock ==
    /\ Dynamic /\ Looping /\ PageComplete
    /\ pages' = Append(Completed, EmptyPage)
    /\ current' = Len(pages) + 1
    /\ dataPtr' = 0 /\ deltaNumber' = 0 /\ numberOfDeltas' = Block
    /\ sizes' = Append(sizes, BlockSize(Block))
    /\ slots' = Append(slots, [i \in 1..(IF kind = "dynamic" THEN 0 ELSE Block) |-> Unwritten])
    /\ IF EntriesFit THEN Callback(Len(pages) + 1, 0, 0, pos)
       ELSE pc' = "terminated" /\ UNCHANGED pending
    /\ UNCHANGED <<kind, values, pos, valuePtr>>

\* The uncompressed value of a page.
WriteFull ==
    LET cell == FullCell(pos, values[pos])
    IN  /\ pc = "open"
        /\ pages' = [pages EXCEPT ![current] = WithCell(@, 0, cell)]
        /\ dataPtr' = Written(cell)
        /\ deltaNumber' = 1
        /\ IF Dynamic THEN pc' = "loop" /\ pos' = pos + 1 /\ UNCHANGED pending
           ELSE Callback(current, IF kind = "slotted" THEN 0 ELSE 1, 0, pos) /\ UNCHANGED pos
        /\ UNCHANGED <<kind, slots, sizes, values, current, numberOfDeltas, valuePtr>>

\* An entry of a DynamicSlottedPage has to fit in 16 bits.
OffsetFits == kind = "dynamicslotted" => dataPtr < OffsetRange

\* A delta and its entry in the index.
WriteDelta ==
    LET cell == DeltaCell(pos, Ref, values[pos])
    IN  /\ kind # "multi" /\ Looping /\ ~PageComplete
        /\ pages' = [pages EXCEPT ![current] = WithCell(@, dataPtr, cell)]
        /\ slots' = IF kind = "dynamic" \/ ~OffsetFits THEN slots
                    ELSE [slots EXCEPT ![current][deltaNumber] = dataPtr % OffsetRange]
        /\ dataPtr' = dataPtr + Written(cell)
        /\ deltaNumber' = deltaNumber + 1
        /\ valuePtr' = [page |-> current, off |-> dataPtr]
        /\ IF ~OffsetFits THEN pc' = "terminated" /\ UNCHANGED pending
           ELSE IF kind = "bottomup" THEN Callback(current, 2, dataPtr, pos)
           ELSE Callback(current, deltaNumber, IF kind = "dynamic" THEN dataPtr ELSE 0, pos)
        /\ UNCHANGED <<kind, sizes, values, pos, current, numberOfDeltas>>

DeltaNumbers == 8  \* BitsForDelta

\* encodeDeltaAndOffset: a delta's number behind an uncompressed value, and the
\* offset of that value, share 16 bits.
EncodeDeltaAndOffset(number, offset) ==
    ((offset * DeltaNumbers) % OffsetRange) + (number % DeltaNumbers)

\* The uncompressed value that deltas refer to (deltaRef).
LastFull == pages[current].cells[valuePtr.off].str

\* The next value on the page is to be uncompressed.
IsFull == deltaNumber % Frequency = 0

ValueFits ==
    dataPtr + (IF IsFull THEN FullHeader + Len(values[pos])
               ELSE DeltaHeader + DeltaLength(LastFull, values[pos])) <= EndOfPage

\* A value of a multi page.  The first one of a page is written unchecked.
WriteMulti ==
    /\ kind = "multi" /\ Looping
    /\ \E opens \in { current = Null \/ ~ValueFits } :
       \E page \in { IF opens THEN Len(pages) + 1 ELSE current },
          off \in { IF opens THEN 0 ELSE dataPtr }, number \in { IF opens THEN 0 ELSE deltaNumber },
          cell \in { IF opens \/ IsFull THEN FullCell(pos, values[pos])
                     ELSE DeltaCell(pos, LastFull, values[pos]) } :
          /\ pages' = [(IF opens THEN PagesAndNew ELSE pages) EXCEPT ![page] = WithCell(@, off, cell)]
          /\ sizes' = IF opens THEN Append(sizes, PageSize) ELSE sizes
          /\ slots' = IF opens THEN Append(slots, <<>>) ELSE slots
          /\ current' = page /\ dataPtr' = off + Written(cell) /\ deltaNumber' = number + 1
          /\ valuePtr' = IF cell.kind = "full" THEN [page |-> page, off |-> off] ELSE valuePtr
          /\ Callback(page, number, EncodeDeltaAndOffset(number % Frequency, valuePtr'.off), pos)
    /\ UNCHANGED <<kind, values, pos, numberOfDeltas>>

\* The callback returns: on to the uncompressed value, or to the next pair.
Return ==
    IF deltaNumber = 0 THEN pc' = "open" /\ UNCHANGED pos
    ELSE pc' = "loop" /\ pos' = pos + 1

\* All pairs are loaded; with none the end header goes to a null pointer, or the
\* first value is read through one.
Finish ==
    /\ pc = "loop" /\ pos > Len(values)
    /\ IF current = Null
       THEN pc' = "terminated" /\ UNCHANGED pages
       ELSE pc' = "ready" /\ pages' = Completed
    /\ UNCHANGED <<kind, slots, sizes, values, pos, current, dataPtr, deltaNumber,
                   numberOfDeltas, valuePtr, pending>>

-----------------------------------------------------------------------------
(* The iterator.                                                           *)
Entries(p) == Len(slots[p])

\* getIndexEntry: entry 0 is the uncompressed value.
EntryExists(p, entry) == entry <= Entries(p) /\ 0 \in DOMAIN pages[p].cells

GetIndexEntry(p, entry) ==
    [IteratorAt(p) EXCEPT !.base = p, !.off = IF entry = 0 THEN 0 ELSE slots[p][entry]]

\* last: the value the last entry leads to.  Where there is none, an assertion has
\* moved the pointer behind the header of the first value, and no value starts there.
LastOn(p) ==
    IF Entries(p) = 0 THEN [IteratorAt(p) EXCEPT !.off = 1]
    ELSE [IteratorAt(p) EXCEPT !.base = p, !.off = slots[p][Entries(p)]]

DeltaOf(p, entry) == pages[p].cells[slots[p][entry]]

\* Mutant: the lengths of the common prefixes are not compared.
Position_PrefixOnly(p, str, entry) ==
    LET cell == DeltaOf(p, entry)
        rest == SubSeq(str, cell.prefix + 1, Len(str))
    IN  IF cell.str = rest THEN "equal" ELSE IF LexLess(cell.str, rest) THEN "after" ELSE "before"

\* Where str lies, seen from a delta: a delta with a longer common prefix with
\* the uncompressed value is taken to be smaller.  Otherwise the shorter of the
\* delta and what is left of str decides how much is compared.
Position(p, str, entry) ==
    LET cell == DeltaOf(p, entry)
        rest == SubSeq(str, cell.prefix + 1, Len(str))
    IN  IF PrefixLength(pages[p].cells[0].str, str) < cell.prefix THEN "after"
        ELSE IF cell.str = rest THEN "equal"
        ELSE IF LexLess(cell.str, rest) THEN "after" ELSE "before"

\* The entries between which the binary search of indexSearch looks.
Between(p) == [start : 0..Entries(p), end : 0..Entries(p)]

\* The binary search of indexSearch: the entry that str is at, or 0.
BinarySearch(p, str) ==
    LET search[s \in Between(p)] ==
            LET middle == s.start + (s.end - s.start) \div 2
            IN  IF s.start >= s.end THEN 0
                ELSE IF Position(p, str, middle + 1) = "equal" THEN middle + 1
                ELSE IF Position(p, str, middle + 1) = "after"
                THEN search[[start |-> middle + 1, end |-> s.end]]
                ELSE search[[start |-> s.start, end |-> middle]]
    IN  IF Entries(p) = 0 THEN 0 ELSE search[[start |-> 0, end |-> Entries(p) - 1]]

\* Whether indexSearch leaves page p for the next one.
GoesOn(p, str) ==
    /\ str # pages[p].cells[0].str
    /\ Entries(p) > 0
    /\ Position(p, str, Entries(p)) = "after"

\* indexSearch on a page that it does not leave.
SearchOn(p, str) ==
    LET entry == IF Entries(p) > 0 /\ Position(p, str, Entries(p)) = "equal"
                 THEN Entries(p) ELSE BinarySearch(p, str)
    IN  IF str = pages[p].cells[0].str THEN GetIndexEntry(p, 0)
        ELSE IF entry > 0 THEN GetIndexEntry(p, entry)
        ELSE NullIterator

\* indexSearch, from page p on: the iterator it gives, or a failed assertion
\* when there is no next page to go to.
IndexSearch(p, str) ==
    LET search[q \in 0..Len(pages)] ==
            IF q = Null THEN [fails |-> TRUE, it |-> NullIterator]
            ELSE IF GoesOn(q, str) THEN search[pages[q].next]
            ELSE [fails |-> FALSE, it |-> SearchOn(q, str)]
    IN  search[p]

\* The comparison of the prefix searches: as many bytes as the delta has, but
\* no more than the prefix is longer than what the uncompressed value matches.
Compared(cell, prefix, matched) ==
    LET n == Min({ Len(cell.str), Len(prefix) - matched })
    IN  [delta |-> SubSeq(cell.str, 1, n), wanted |-> SubSeq(prefix, cell.prefix + 1, cell.prefix + n)]

\* prefixStartIndexSearch on page p.
PrefixStart(p, prefix) ==
    LET matched == PrefixLength(pages[p].cells[0].str, prefix)
        search[start \in 0..Entries(p), end \in 0..Entries(p)] ==
            LET middle == start + (end - start) \div 2
                cell   == DeltaOf(p, middle + 1)
                bytes  == Compared(cell, prefix, matched)
            IN  IF start >= end THEN 0
                ELSE IF matched < cell.prefix THEN search[middle + 1, end]
                ELSE IF bytes.delta = bytes.wanted THEN middle + 1
                ELSE search[start, middle]
        entry == search[0, Entries(p)]
    IN  IF matched = Len(prefix) \/ entry > 0
        THEN GetIndexEntry(p, IF matched = Len(prefix) THEN 0 ELSE entry)
        ELSE NullIterator

\* prefixEndIndexSearch on page p; last is the last good entry so far.
PrefixEnd(p, prefix) ==
    LET matched == PrefixLength(pages[p].cells[0].str, prefix)
        whole   == matched = Len(prefix)
        search[start \in 0..Entries(p), end \in 0..Entries(p), last \in 0..Entries(p)] ==
            LET middle == start + (end - start) \div 2
                cell   == DeltaOf(p, middle + 1)
                bytes  == Compared(cell, prefix, matched)
            IN  IF start >= end THEN last
                ELSE IF matched < cell.prefix
                THEN search[middle + 1, end, IF whole THEN middle + 1 ELSE last]
                ELSE IF whole /\ matched # cell.prefix THEN last
                ELSE IF bytes.delta = bytes.wanted THEN search[middle + 1, end, middle + 1]
                ELSE IF LexLess(bytes.delta, bytes.wanted) THEN search[middle + 1, end, last]
                ELSE search[start, middle, last]
        entry == search[0, Entries(p), 0]
    IN  IF whole \/ entry > 0 THEN GetIndexEntry(p, entry) ELSE NullIterator

-----------------------------------------------------------------------------
(* Properties.                                                             *)
TypeOK ==
    /\ kind \in Kinds
    /\ Len(slots) = Len(pages) /\ Len(sizes) = Len(pages) /\ current \in 0..Len(pages)
    /\ \A p \in 1..Len(slots) : \A e \in 1..Entries(p) :
          slots[p][e] \in (1..sizes[p]) \union {Unwritten}
    /\ \A p \in 1..Len(pages) :
          /\ pages[p].next \in 0..Len(pages)
          /\ \A o \in DOMAIN pages[p].cells : pages[p].cells[o].size \in 0..(StringRange - 1)
    /\ pos \in 1..(Len(values) + 1)
    /\ current # Null => dataPtr \in 0..sizes[current]
    /\ kind # "multi" => deltaNumber \in 0..(numberOfDeltas + 1)
    /\ pending.page \in 0..Len(pages) /\ pending.offset \in 0..(OffsetRange - 1)
    /\ pc \in {"ready", "loop", "open", "callback", "indexed", "overrun",
               "threw", "terminated", "aborted"}

\* The values, the index in front of them and the header behind them lie in the
\* data of the page: what the first pass counts is what the second one writes,
\* and of a dynamic page the room is used to the last byte.
WritesStayInPage ==
    \A p \in 1..Len(pages) :
        LET start == IF kind \in {"dynamic", "multi"} THEN 0 ELSE IndexHeader + OffsetSize * Entries(p)
            end == start + pages[p].end + EndHeader
        IN  /\ \A o \in DOMAIN pages[p].cells :
                  start + o + Written(pages[p].cells[o]) + EndHeader <= sizes[p]
            /\ pages[p].end # Unwritten => IF Dynamic THEN end = sizes[p] ELSE end <= sizes[p]

\* Values that start with the same character are on the same dynamic page, except
\* those whose first byte is negative as a char (findBlock).
BlocksAreWhole ==
    Dynamic => \A p \in 1..Len(pages) : \A q \in 1..(p - 1) :
        0 \in DOMAIN pages[p].cells /\ FirstChar(pages[p].cells[0].str) \in 1..127 =>
            /\ FirstChar(pages[q].cells[0].str) # FirstChar(pages[p].cells[0].str)
            /\ \A o \in DOMAIN pages[p].cells :
                  o > 0 => pages[p].cells[o].prefix > 0
=============================================================================
