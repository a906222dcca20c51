----------------------------- MODULE SinglePage -----------------------------
(***************************************************************************)
(* The loader of SingleUncompressedPage (include/SingleUncompressedPage.hpp*)
(* and the page::Loader it derives from).                                  *)
(*                                                                         *)
(* load() turns a list of (id, value) pairs into a chain of fixed-size     *)
(* pages.  Each iteration of its loop writes one value: uncompressed at    *)
(* the start of a new page, or as a delta on the current page if it still  *)
(* fits.  It then calls the construction strategy's callback, which reads  *)
(* the pages written so far while it updates the indexes: an iteration is  *)
(* therefore two steps here, the write and the return from the callback.   *)
(***************************************************************************)
EXTENDS PageFormat

CONSTANTS
    PageSize,     \* TSize: the bytes of data in a page
    Inputs        \* the arrays of values that may be loaded

ASSUME PageSizeAssumption == PageSize \in Nat \ {0}
ASSUME InputsAssumption == \A vs \in Inputs : vs \in Seq(Seq(Nat))

VARIABLES
    values,   \* the strings being loaded
    firstId,  \* the id of the first of them; the others follow
    pos,      \* the pair the loop is at
    current,  \* currentPage
    dataPtr,  \* where the next byte goes, an offset into the current page
    ref,      \* *deltaRef: the uncompressed value of the current page
    delta,    \* the number of the last value on the page (deltaNumber - 1)
    pending,  \* the arguments of the callback that is running
    pc

loaderVars == <<pages, values, firstId, pos, current, dataPtr, ref, delta, pending, pc>>

NoCallback == [page |-> Null, delta |-> 0, offset |-> 0, id |-> 0, value |-> <<>>]

LoaderInit ==
    /\ pages = <<>>
    /\ values = <<>> /\ firstId = 1 /\ pos = 1
    /\ current = Null /\ dataPtr = 0 /\ ref = <<>> /\ delta = 0
    /\ pending = NoCallback
    /\ pc = "ready"

\* Between two calls: nothing loaded yet, loaded, or left by an exception.
AtRest == pc \in {"ready", "threw"}

Id(k) == firstId + k - 1

\* Mutant: no room is kept for the EndOfPage header.
EndOfPage_WholePage == PageSize

\* The last usable byte is kept for the EndOfPage header.
EndOfPage == PageSize - EndHeader

\* Mutant: the room is estimated for the whole value.
DeltaFits_WholeValue == dataPtr + DeltaHeader + Len(values[pos]) <= EndOfPage

DeltaFits == dataPtr + DeltaHeader + DeltaLength(ref, values[pos]) <= EndOfPage

\* Mutant: the check of an uncompressed value forgets the EndOfPage header.
FullFits_NoEnd(value) == FullHeader + Len(value) <= PageSize

FullFits(value) == FullHeader + Len(value) <= EndOfPage

Looping == pc = "loop" /\ pos <= Len(values)

\* Mutant: the address is taken after the value is written.
Call_AfterWrite(page, address) ==
    /\ pending' = [page   |-> page,
                   delta  |-> delta',
                   offset |-> dataPtr' % OffsetRange,
                   id     |-> Id(pos),
                   value  |-> values[pos]]
    /\ pc' = "callback"

\* Mutant: the delta number is passed on before it is incremented.
Call_OldDelta(page, address) ==
    /\ pending' = [page   |-> page,
                   delta  |-> delta,
                   offset |-> address % OffsetRange,
                   id     |-> Id(pos),
                   value  |-> values[pos]]
    /\ pc' = "callback"

\* Loader::call; the pointer difference is cast to 16 bits.
Call(page, address) ==
    /\ pending' = [page   |-> page,
                   delta  |-> delta',
                   offset |-> address % OffsetRange,
                   id     |-> Id(pos),
                   value  |-> values[pos]]
    /\ pc' = "callback"

-----------------------------------------------------------------------------
Load(vs, id) ==
    /\ AtRest
    /\ values' = vs /\ firstId' = id /\ pos' = 1
    /\ current' = Null /\ dataPtr' = 0 /\ ref' = <<>> /\ delta' = 0
    /\ pc' = "loop"
    /\ UNCHANGED <<pages, pending>>

\* Mutant: the new page is not linked to the one before it.
PagesAndNew_Unlinked(new) ==
    Append(IF current = Null THEN pages
           ELSE [pages EXCEPT ![current] = Finished(@, dataPtr, @.next)],
           new)

\* The pages once the current one is finished and a new one is linked to it.
PagesAndNew(new) ==
    LET n == Len(pages) + 1
    IN  Append(IF current = Null THEN pages
               ELSE [pages EXCEPT ![current] = Finished(@, dataPtr, n)],
               new)

\* No current page, or the delta does not fit: finish the page, start another.
StartPage ==
    LET cell == FullCell(Id(pos), values[pos])
    IN  /\ Looping
        /\ current = Null \/ ~DeltaFits
        /\ FullFits(values[pos])
        /\ pages' = PagesAndNew(WithCell(EmptyPage, 0, cell))
        /\ current' = Len(pages) + 1
        /\ ref' = values[pos]
        /\ dataPtr' = Written(cell)
        /\ delta' = 0
        /\ Call(Len(pages) + 1, 0)
        /\ UNCHANGED <<values, firstId, pos>>

\* Mutant: the exception is swallowed inside the loop.
Throw_Swallowed ==
    /\ Looping
    /\ current = Null \/ ~DeltaFits
    /\ ~FullFits(values[pos])
    /\ UNCHANGED loaderVars

\* "Can't fit on page": the new page is linked already, and its bytes stay as
\* operator new has left them.
Throw ==
    /\ Looping
    /\ current = Null \/ ~DeltaFits
    /\ ~FullFits(values[pos])
    /\ pages' = PagesAndNew(EmptyPage)
    /\ current' = Len(pages) + 1
    /\ ref' = values[pos]
    /\ dataPtr' = 0
    /\ delta' = 0
    /\ pc' = "threw"
    /\ UNCHANGED <<values, firstId, pos, pending>>

AppendDelta ==
    LET cell == DeltaCell(Id(pos), ref, values[pos])
    IN  /\ Looping
        /\ current # Null /\ DeltaFits
        /\ pages' = [pages EXCEPT ![current] = WithCell(@, dataPtr, cell)]
        /\ dataPtr' = dataPtr + Written(cell)
        /\ delta' = (delta + 1) % OffsetRange
        /\ Call(current, dataPtr)
        /\ UNCHANGED <<values, firstId, pos, current, ref>>

\* The callback returns: on to the next pair.
Return ==
    /\ pc = "callback"
    /\ pos' = pos + 1
    /\ pc' = "loop"
    /\ UNCHANGED <<pages, values, firstId, current, dataPtr, ref, delta, pending>>

\* All pairs are loaded; with none the end header goes to a null pointer.
Finish ==
    /\ pc = "loop" /\ pos > Len(values)
    /\ IF current = Null
       THEN pc' = "crashed" /\ UNCHANGED pages
       ELSE pc' = "ready" /\ pages' = [pages EXCEPT ![current] = Finished(@, dataPtr, @.next)]
    /\ UNCHANGED <<values, firstId, pos, current, dataPtr, ref, delta, pending>>

LoaderStep == StartPage \/ Throw \/ AppendDelta \/ Finish

LoaderNext == (\E vs \in Inputs : pages = <<>> /\ Load(vs, 1)) \/ LoaderStep \/ Return

LoaderSpec == LoaderInit /\ [][LoaderNext]_loaderVars
-----------------------------------------------------------------------------
(* Properties                                                              *)

Callback == [page : Nat, delta : Nat, offset : Nat, id : Nat, value : Seq(Nat)]

LoaderTypeOK ==
    /\ IsSequence(pages)
    /\ \A p \in 1..Len(pages) : IsPage(pages[p])
    /\ values \in Seq(Seq(Nat))
    /\ firstId \in Nat \ {0} /\ pos \in Nat \ {0}
    /\ current \in 0..Len(pages) /\ dataPtr \in Nat /\ ref \in Seq(Nat) /\ delta \in Nat
    /\ pending \in Callback

\* Type invariant; the variables of load() have the types of the declarations
\* in SingleUncompressedPage.hpp:40-50.
TypeOK == LoaderTypeOK /\ pc \in {"ready", "loop", "callback", "threw", "crashed"}

\* No byte of a value or of an end-of-page header lies outside the fixed-size
\* data array of its page: the room kept for the header and the estimate made
\* before a delta is written are enough for what is then written.
WritesStayInPage ==
    \A p \in 1..Len(pages) :
        /\ \A o \in DOMAIN pages[p].cells :
               o + Written(pages[p].cells[o]) + EndHeader <= PageSize
        /\ pages[p].end + EndHeader <= PageSize

\* A callback is running; a dictionary that updates two indexes in it is
\* "indexed" between the two.
InCallback == pc \in {"callback", "indexed"}

\* An iterator gives the pair the callback was called with.
ReadsPending(it) ==
    HasValue(it) /\ GetId(it) = pending.id /\ GetValue(it) = pending.value

\* The callback can already read the value it is called for through the offset
\* it is given: the indexes load the keys of their leaves from the pages in
\* the middle of a load (LeafStore).
OffsetReads ==
    InCallback => /\ OffsetExists(pending.page, pending.offset)
                  /\ ReadsPending(GotoOffset(pending.page, pending.offset))

\* So it can through the delta number, counting values from the page's start.
DeltaReads == InCallback => ReadsPending(GotoDelta(pending.page, pending.delta))

\* How many values of the load are on the pages.
Loaded == IF InCallback THEN pos ELSE pos - 1

\* Repeated ++ from the first value of the first page, as rangeLookup does it.
Walk(n) ==
    LET walk[k \in 1..n] ==
            IF k = 1 THEN IteratorAt(1)
            ELSE IF HasValue(walk[k-1]) THEN Increment(Dereferenced(walk[k-1]))
            ELSE NullIterator
    IN  walk

\* Walking the chain of pages from its start gives the values of the load with
\* their ids, in the order of the input, across page ends, and then stops.
ChainHoldsInput ==
    pages # <<>> =>
        LET walk == Walk(Loaded + 1)
        IN  /\ \A k \in 1..Loaded :
                  /\ HasValue(walk[k])
                  /\ GetId(walk[k]) = Id(k) /\ GetValue(Dereferenced(walk[k])) = values[k]
            /\ pc = "ready" => ~Valid(walk[Loaded + 1])

\* A page is given up only for a value that would not have fitted: however the
\* strings are cut into pages, each page but the last one is full.
PagesAreFull ==
    \A p \in 1..(Len(pages) - 1) :
        \A k \in 1..Loaded :
            (0 \in DOMAIN pages[p+1].cells /\ Id(k) = pages[p+1].cells[0].id) =>
                pages[p].end + DeltaHeader + DeltaLength(pages[p].cells[0].str, values[k])
                    > EndOfPage

\* The inductive invariant behind WritesStayInPage and OffsetReads: what is on
\* the pages, and how dataPtr and deltaRef relate to the current page.
PageHolds(page) ==
    /\ page.end <= EndOfPage
    /\ \A o \in DOMAIN page.cells :
          /\ o + Written(page.cells[o]) <= EndOfPage
          /\ page.cells[o].size = Len(page.cells[o].str)
          /\ page.cells[o].kind = "full" <=> o = 0
          /\ 0 \in DOMAIN page.cells

PagesHold == \A p \in 1..Len(pages) : PageHolds(pages[p])

CurrentPageHolds ==
    current # Null =>
        /\ dataPtr <= EndOfPage
        /\ \A o \in DOMAIN pages[current].cells : o < dataPtr
        /\ pc = "loop" \/ InCallback => dataPtr # 0
        /\ dataPtr # 0 => /\ 0 \in DOMAIN pages[current].cells
                          /\ pages[current].cells[0].str = ref

CallbackHolds ==
    InCallback => /\ pos <= Len(values)
                  /\ pending.page \in 1..Len(pages)
                  /\ pending.offset \in DOMAIN pages[pending.page].cells
                  /\ pending.id = Id(pos)
                  /\ ReadsPending(GotoOffset(pending.page, pending.offset))

LoaderInv == LoaderTypeOK /\ Short(values) /\ PagesHold /\ CurrentPageHolds /\ CallbackHolds

LoaderFairness == WF_loaderVars(LoaderStep) /\ WF_loaderVars(Return)

FairLoaderSpec == LoaderSpec /\ LoaderFairness

\* Every load comes to an end, whatever does or does not fit on its pages.
LoadEnds == (pc = "loop") ~> (pc \in {"ready", "threw", "crashed"})
=============================================================================
