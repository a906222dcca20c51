----------------------- MODULE StringDictionaryProofs -----------------------
(***************************************************************************)
(* Proofs about the loader of SinglePage and the string dictionary that    *)
(* calls it, for pages of any size, any inputs and any width of the size   *)
(* and offset fields.                                                      *)
(*                                                                         *)
(* The loader: the bytes written stay inside the page, and the callback    *)
(* can read the value it is called for.  The cells of a page follow one    *)
(* another without a gap and are numbered, the pages of a load are linked  *)
(* in order and full, and so delta numbers and ++ lead to the values of    *)
(* the input.                                                              *)
(*                                                                         *)
(* The dictionary: an entry once indexed stays where it is, every leaf     *)
(* decodes to its entry and the two indexes agree, at any moment, over any *)
(* number of loads and with either strategy; and over its first load the   *)
(* dictionary implements Dictionary.                                       *)
(***************************************************************************)
EXTENDS StringDictionary, PageFormatProofs

-----------------------------------------------------------------------------
(* The loader.                                                             *)

\* The widths that the code relies on without saying so: a page is at most as
\* large as a 16-bit offset can reach, and no string is longer than a 16-bit
\* size can count.  The long-strings run shows what happens without the second.
FitsWidths == PageSize <= OffsetRange /\ \A vs \in Inputs : Short(vs)

-----------------------------------------------------------------------------
(* The type invariant                                                      *)

\* The current page is finished and linked to the new one behind it.
LEMMA NewPageLinked ==
    ASSUME LoaderTypeOK, NEW new, IsPage(new)
    PROVE  LET n == Len(pages) + 1
               q == PagesAndNew(new)
           IN  /\ IsSequence(q) /\ Len(q) = n /\ q[n] = new
               /\ \A p \in 1..Len(pages) :
                     /\ IsPage(q[p])
                     /\ p # current => q[p] = pages[p]
                     /\ p = current => /\ q[p].cells = pages[p].cells
                                       /\ q[p].end = dataPtr /\ q[p].next = n
<1>. DEFINE n    == Len(pages) + 1
            last == Finished(pages[current], dataPtr, n)
            old  == IF current = Null THEN pages ELSE [pages EXCEPT ![current] = last]
<1>1. IsSequence(pages) /\ \A p \in 1..Len(pages) : IsPage(pages[p])
  BY DEF LoaderTypeOK
<1>2. current \in 0..Len(pages) /\ dataPtr \in Nat /\ n \in Nat
  BY DEF LoaderTypeOK, IsSequence
<1>3. /\ IsSequence(old) /\ Len(old) = Len(pages)
      /\ \A p \in 1..Len(pages) :
            /\ IsPage(old[p])
            /\ p # current => old[p] = pages[p]
            /\ p = current => /\ old[p].cells = pages[p].cells
                              /\ old[p].end = dataPtr /\ old[p].next = n
  <2>1. CASE current = Null
    BY <2>1, <1>1 DEF Null
  <2>2. CASE current # Null
    <3>1. current \in 1..Len(pages) /\ old = [pages EXCEPT ![current] = last]
      BY <2>2, <1>2 DEF Null
    <3>2. IsPage(last) /\ last.cells = pages[current].cells /\ last.end = dataPtr /\ last.next = n
      <4>1. IsPage(pages[current])
        BY <3>1, <1>1
      <4>. HIDE DEF n
      <4>2. n \in Nat /\ dataPtr \in Nat
        BY <1>2
      <4>. QED  BY <4>1, <4>2, FinishedPage
    <3>. HIDE DEF last
    <3>. HIDE DEF old
    <3>3. /\ IsSequence(old) /\ Len(old) = Len(pages) /\ old[current] = last
          /\ \A p \in 1..Len(pages) : p # current => old[p] = pages[p]
      <4>1. old = [pages EXCEPT ![current] = last]
        BY <3>1
      <4>2. current \in 1..Len(pages) /\ IsPage(last)
        BY <3>1, <3>2
      <4>3. IsSequence(old) /\ Len(old) = Len(pages)
        BY <4>1, <4>2, <1>1, ReplacedPage, ZenonT(40)
      <4>4. old[current] = last /\ \A p \in 1..Len(pages) : p # current => old[p] = pages[p]
        BY <4>1, <4>2, <1>1, ReplacedPage
      <4>. QED  BY <4>3, <4>4
    <3>. HIDE DEF n
    <3>. QED  BY <3>1, <3>2, <3>3, <1>1
  <2>. QED  BY <2>1, <2>2
<1>4. PagesAndNew(new) = Append(old, new)
  BY DEF PagesAndNew
<1>. HIDE DEF old
<1>5. LET q == PagesAndNew(new)
      IN  /\ IsSequence(q) /\ Len(q) = n /\ q[n] = new
          /\ \A p \in 1..Len(pages) : q[p] = old[p]
  BY <1>3, <1>4, AppendSequence
<1>. HIDE DEF n
<1>. QED  BY <1>3, <1>5 DEF n

\* Finishing the current page and linking a new one touches no cell.
LEMMA NewPage ==
    ASSUME LoaderTypeOK, NEW new, IsPage(new)
    PROVE  LET q == PagesAndNew(new)
           IN  /\ IsSequence(q) /\ Len(q) = Len(pages) + 1 /\ q[Len(pages) + 1] = new
               /\ \A p \in 1..Len(q) : IsPage(q[p])
               /\ \A p \in 1..Len(pages) :
                     /\ IsPage(q[p]) /\ q[p].cells = pages[p].cells
                     /\ q[p].end = pages[p].end \/ (p = current /\ q[p].end = dataPtr)
<1>. DEFINE n == Len(pages) + 1
            q == PagesAndNew(new)
<1>1. /\ IsSequence(q) /\ Len(q) = n /\ q[n] = new
      /\ \A p \in 1..Len(pages) :
            /\ IsPage(q[p])
            /\ p # current => q[p] = pages[p]
            /\ p = current => q[p].cells = pages[p].cells /\ q[p].end = dataPtr
  BY NewPageLinked
<1>2. \A p \in 1..n : p \in 1..Len(pages) \/ p = n
  BY SMTT(30) DEF LoaderTypeOK, IsSequence
<1>. HIDE DEF n, q
<1>. QED  BY <1>1, <1>2 DEF n, q

LEMMA IdsAreNat ==
    ASSUME LoaderTypeOK
    PROVE  Id(pos) \in Nat /\ (pos <= Len(values) => values[pos] \in Strings)
BY DEF LoaderTypeOK, Id, Strings

LEMMA TypeStartPage ==
    ASSUME LoaderTypeOK, StartPage
    PROVE  LoaderTypeOK'
<1>. DEFINE v == values[pos]
            cell == FullCell(Id(pos), v)
            new == WithCell(EmptyPage, 0, cell)
            n == Len(pages) + 1
<1>1. Id(pos) \in Nat /\ v \in Strings /\ Len(v) \in Nat /\ n \in Nat
  <2>1. pos <= Len(values)
    BY DEF StartPage, Looping
  <2>. QED  BY <2>1, IdsAreNat DEF Strings, LoaderTypeOK, IsSequence
<1>2. cell \in Cells /\ Written(cell) \in Nat
  BY <1>1, FullCellProperties DEF FullHeader
<1>3. IsPage(new)
  BY <1>2, EmptyPageProperties, WithCellProperties
<1>4. pages' = PagesAndNew(new) /\ current' = n /\ ref' = v /\ dataPtr' = Written(cell)
  BY DEF StartPage
<1>5. /\ IsSequence(pages') /\ Len(pages') = n
      /\ \A p \in 1..Len(pages') : IsPage(pages'[p])
  <2>. HIDE DEF new
  <2>. QED  BY <1>3, <1>4, NewPage
<1>6. pending' \in Callback /\ delta' = 0
  <2>1. 0 % OffsetRange \in Nat
    BY OffsetRangeAssumption
  <2>. QED  BY <1>1, <2>1 DEF StartPage, Call, Callback, Strings
<1>7. UNCHANGED <<values, firstId, pos>>
  BY DEF StartPage
<1>. HIDE DEF new, cell, v
<1>. QED  BY <1>1, <1>2, <1>4, <1>5, <1>6, <1>7 DEF LoaderTypeOK, Strings

LEMMA TypeThrow ==
    ASSUME LoaderTypeOK, Throw
    PROVE  LoaderTypeOK'
<1>. DEFINE n == Len(pages) + 1
<1>1. values[pos] \in Strings /\ n \in Nat
  <2>1. pos <= Len(values)
    BY DEF Throw, Looping
  <2>. QED  BY <2>1, IdsAreNat DEF LoaderTypeOK, IsSequence
<1>2. /\ IsSequence(pages') /\ Len(pages') = n
      /\ \A p \in 1..Len(pages') : IsPage(pages'[p])
  BY EmptyPageProperties, NewPage DEF Throw
<1>3. /\ current' = n /\ dataPtr' = 0 /\ ref' = values[pos] /\ delta' = 0
      /\ UNCHANGED <<values, firstId, pos, pending>>
  BY DEF Throw
<1>. QED  BY <1>1, <1>2, <1>3 DEF LoaderTypeOK, Strings

\* The page that a delta is appended to.
LEMMA CurrentPage ==
    ASSUME LoaderTypeOK, current # Null
    PROVE  current \in 1..Len(pages) /\ IsPage(pages[current])
BY DEF LoaderTypeOK, IsSequence, Null

LEMMA TypeAppendDelta ==
    ASSUME LoaderTypeOK, AppendDelta
    PROVE  LoaderTypeOK'
<1>. DEFINE v == values[pos]
            cell == DeltaCell(Id(pos), ref, v)
            page == WithCell(pages[current], dataPtr, cell)
<1>1. Id(pos) \in Nat /\ v \in Strings /\ ref \in Strings
  <2>1. pos <= Len(values)
    BY DEF AppendDelta, Looping
  <2>. QED  BY <2>1, IdsAreNat DEF Strings, LoaderTypeOK
<1>2. cell \in Cells /\ Written(cell) \in Nat
  <2>1. Len(Delta(ref, v)) \in Nat
    BY <1>1, DeltaRestores DEF Strings
  <2>. QED  BY <1>1, <2>1, DeltaCellProperties DEF DeltaHeader
<1>3. current \in 1..Len(pages) /\ IsPage(pages[current])
  BY CurrentPage DEF AppendDelta
<1>4. dataPtr \in Nat
  BY DEF LoaderTypeOK
<1>5. IsPage(page)
  BY <1>2, <1>3, <1>4, WithCellProperties
<1>6. /\ pages' = [pages EXCEPT ![current] = page]
      /\ dataPtr' = dataPtr + Written(cell) /\ delta' = (delta + 1) % OffsetRange
      /\ UNCHANGED <<values, firstId, pos, current, ref>>
  BY DEF AppendDelta
<1>. HIDE DEF page, cell
<1>7. IsSequence(pages) /\ \A p \in 1..Len(pages) : IsPage(pages[p])
  BY DEF LoaderTypeOK
<1>8. IsSequence(pages') /\ Len(pages') = Len(pages) /\ \A p \in 1..Len(pages') : IsPage(pages'[p])
  BY <1>3, <1>5, <1>6, <1>7, ReplacedPage, ZenonT(40)
<1>9. delta' \in Nat /\ pending' \in Callback
  <2>1. delta' \in Nat /\ dataPtr % OffsetRange \in Nat
    BY <1>4, <1>6, OffsetRangeAssumption DEF LoaderTypeOK
  <2>2. current \in Nat
    BY <1>3
  <2>3. pending' = [page |-> current, delta |-> delta', offset |-> dataPtr % OffsetRange,
                    id |-> Id(pos), value |-> v]
    BY DEF AppendDelta, Call
  <2>. QED  BY <1>1, <2>1, <2>2, <2>3 DEF Callback, Strings
<1>. QED  BY <1>2, <1>4, <1>6, <1>8, <1>9 DEF LoaderTypeOK

LEMMA TypeFinish ==
    ASSUME LoaderTypeOK, Finish
    PROVE  LoaderTypeOK'
<1>1. CASE current = Null
  BY <1>1 DEF Finish, LoaderTypeOK
<1>2. CASE current # Null
  <2>. DEFINE page == Finished(pages[current], dataPtr, pages[current].next)
  <2>1. current \in 1..Len(pages) /\ IsPage(pages[current])
    BY <1>2, CurrentPage
  <2>2. IsPage(page)
    <3>1. dataPtr \in Nat /\ pages[current].next \in Nat
      BY <2>1 DEF LoaderTypeOK, IsPage
    <3>. QED  BY <2>1, <3>1, FinishedPage
  <2>3. pages' = [pages EXCEPT ![current] = page]
    BY <1>2 DEF Finish
  <2>4. UNCHANGED <<values, firstId, pos, current, dataPtr, ref, delta, pending>>
    BY DEF Finish
  <2>. HIDE DEF page
  <2>5. IsSequence(pages) /\ \A p \in 1..Len(pages) : IsPage(pages[p])
    BY DEF LoaderTypeOK
  <2>6. IsSequence(pages') /\ Len(pages') = Len(pages) /\ \A p \in 1..Len(pages') : IsPage(pages'[p])
    BY <2>1, <2>2, <2>3, <2>5, ReplacedPage, ZenonT(40)
  <2>. QED  BY <2>4, <2>6 DEF LoaderTypeOK
<1>. QED  BY <1>1, <1>2

LEMMA TypeLoad ==
    ASSUME LoaderTypeOK, NEW vs \in Inputs, NEW id \in Nat \ {0}, Load(vs, id)
    PROVE  LoaderTypeOK'
<1>1. vs \in Seq(Seq(Nat)) /\ <<>> \in Seq(Nat)
  BY InputsAssumption
<1>2. 0 \in 0..Len(pages)
  BY DEF LoaderTypeOK, IsSequence
<1>. QED  BY <1>1, <1>2 DEF Load, LoaderTypeOK, Null

LEMMA TypeReturn ==
    ASSUME LoaderTypeOK, pos' = pos + 1,
           UNCHANGED <<pages, values, firstId, current, dataPtr, ref, delta, pending>>
    PROVE  LoaderTypeOK'
BY DEF LoaderTypeOK

LEMMA TypeInit ==
    ASSUME LoaderInit
    PROVE  TypeOK
<1>1. IsSequence(pages) /\ Len(pages) = 0
  BY DEF LoaderInit, IsSequence
<1>2. values \in Seq(Seq(Nat)) /\ ref \in Seq(Nat) /\ pending \in Callback
  BY DEF LoaderInit, Callback, NoCallback, Null
<1>. QED  BY <1>1, <1>2 DEF LoaderInit, TypeOK, LoaderTypeOK, Null

LEMMA TypeStep ==
    ASSUME TypeOK, [LoaderNext]_loaderVars
    PROVE  TypeOK'
<1>. USE DEF TypeOK
<1>1. CASE \E vs \in Inputs : pages = <<>> /\ Load(vs, 1)
  BY <1>1, TypeLoad DEF Load
<1>2. CASE StartPage
  BY <1>2, TypeStartPage DEF StartPage, Call
<1>3. CASE Throw
  BY <1>3, TypeThrow DEF Throw
<1>4. CASE AppendDelta
  BY <1>4, TypeAppendDelta DEF AppendDelta, Call
<1>5. CASE Finish
  BY <1>5, TypeFinish DEF Finish
<1>6. CASE Return
  BY <1>6, TypeReturn DEF Return
<1>7. CASE UNCHANGED loaderVars
  BY <1>7 DEF loaderVars, LoaderTypeOK
<1>. QED  BY <1>1, <1>2, <1>3, <1>4, <1>5, <1>6, <1>7 DEF LoaderNext, LoaderStep

\* Every variable of load() keeps the type it is declared with
\* (SingleUncompressedPage.hpp:40-50), for any page size and any input.
THEOREM LoaderTypeCorrect == LoaderSpec => []TypeOK
<1>1. LoaderInit => TypeOK
  BY TypeInit
<1>2. TypeOK /\ [LoaderNext]_loaderVars => TypeOK'
  BY TypeStep
<1>. QED  BY <1>1, <1>2, PTL DEF LoaderSpec

-----------------------------------------------------------------------------
(* What is on the pages                                                    *)

\* The uncompressed value alone on a new page.
LEMMA NewPageHolds ==
    ASSUME NEW id \in Nat, NEW v \in Strings, Len(v) < StringRange, FullFits(v)
    PROVE  LET page == WithCell(EmptyPage, 0, FullCell(id, v))
           IN  /\ IsPage(page) /\ PageHolds(page)
               /\ DOMAIN page.cells = {0} /\ page.cells[0] = FullCell(id, v)
<1>. DEFINE cell == FullCell(id, v)
            page == WithCell(EmptyPage, 0, cell)
<1>1. /\ cell \in Cells /\ cell.kind = "full" /\ cell.str = v
      /\ Written(cell) = FullHeader + Len(v) /\ cell.size = Len(v)
  BY FullCellProperties
<1>. HIDE DEF cell
<1>2. /\ IsPage(page) /\ page.end = Unwritten
      /\ DOMAIN page.cells = {0} /\ page.cells[0] = cell
  BY <1>1, EmptyPageProperties, WithCellProperties, SMTT(30)
<1>. HIDE DEF page
<1>3. Unwritten <= EndOfPage /\ EndOfPage \in Int
  BY PageSizeAssumption DEF Unwritten, EndOfPage, EndHeader
<1>4. FullHeader + Len(v) <= EndOfPage /\ Len(v) \in Nat
  BY DEF FullFits, Strings
<1>5. PageHolds(page)
  BY <1>1, <1>2, <1>3, <1>4 DEF PageHolds, FullHeader
<1>. QED  BY <1>2, <1>5 DEF page, cell

LEMMA EmptyPageHolds == PageHolds(EmptyPage)
BY EmptyPageProperties, PageSizeAssumption DEF PageHolds, Unwritten, EndOfPage, EndHeader

\* Finishing the current page leaves every page within its size.
LEMMA NewPagesHold ==
    ASSUME LoaderTypeOK, PagesHold, CurrentPageHolds,
           NEW new, IsPage(new), PageHolds(new), pages' = PagesAndNew(new)
    PROVE  PagesHold'
<1>1. /\ Len(pages') = Len(pages) + 1 /\ pages'[Len(pages) + 1] = new
      /\ \A p \in 1..Len(pages) :
            /\ IsPage(pages'[p]) /\ pages'[p].cells = pages[p].cells
            /\ pages'[p].end = pages[p].end \/ (p = current /\ pages'[p].end = dataPtr)
  BY NewPage
<1>2. Len(pages) \in Nat /\ \A p \in 1..Len(pages') : p \in 1..Len(pages) \/ p = Len(pages) + 1
  BY <1>1 DEF LoaderTypeOK, IsSequence
<1>3. ASSUME NEW p \in 1..Len(pages)
      PROVE  PageHolds(pages'[p])
  <2>1. pages'[p].cells = pages[p].cells /\ PageHolds(pages[p])
    BY <1>1 DEF PagesHold
  <2>2. pages'[p].end <= EndOfPage
    <3>1. CASE pages'[p].end = pages[p].end
      BY <3>1, <2>1 DEF PageHolds
    <3>2. CASE p = current /\ pages'[p].end = dataPtr
      BY <3>2, <1>2 DEF CurrentPageHolds, Null
    <3>. QED  BY <3>1, <3>2, <1>1
  <2>. QED  BY <2>1, <2>2 DEF PageHolds
<1>. QED  BY <1>1, <1>2, <1>3 DEF PagesHold, PageHolds, EndOfPage, EndHeader

LEMMA HoldsStartPage ==
    ASSUME LoaderInv, StartPage
    PROVE  LoaderInv'
<1>. DEFINE v == values[pos]
            cell == FullCell(Id(pos), v)
            new == WithCell(EmptyPage, 0, cell)
            n == Len(pages) + 1
<1>. USE DEF LoaderInv
<1>1. pos <= Len(values) /\ FullFits(v)
  BY DEF StartPage, Looping
<1>2. Id(pos) \in Nat /\ v \in Strings /\ n \in Nat \ {0}
  BY <1>1, IdsAreNat DEF LoaderTypeOK, IsSequence
<1>3. Len(v) < StringRange
  BY <1>1 DEF Short, LoaderTypeOK
<1>4. IsPage(new) /\ PageHolds(new) /\ DOMAIN new.cells = {0} /\ new.cells[0] = cell
  BY <1>1, <1>2, <1>3, NewPageHolds
<1>5. pages' = PagesAndNew(new) /\ current' = n /\ ref' = v /\ dataPtr' = Written(cell)
  BY DEF StartPage
<1>6. /\ cell.kind = "full" /\ cell.id = Id(pos) /\ cell.str = v /\ cell.size = Len(v)
      /\ Written(cell) = FullHeader + Len(v)
  BY <1>2, <1>3, FullCellProperties
<1>. HIDE DEF new, cell, v
<1>7. LoaderTypeOK'
  BY TypeStartPage
<1>8. PagesHold'
  BY <1>4, <1>5, NewPagesHold
<1>9. Len(pages') = n /\ pages'[n] = new
  BY <1>4, <1>5, NewPage
<1>10. CurrentPageHolds'
  <2>1. Written(cell) <= EndOfPage /\ 0 < Written(cell)
    BY <1>1, <1>2, <1>6 DEF FullFits, FullHeader, Strings
  <2>. QED  BY <2>1, <1>4, <1>5, <1>6, <1>9 DEF CurrentPageHolds
<1>11. CallbackHolds'
  <2>1. /\ pending'.page = n /\ pending'.offset = 0
        /\ pending'.id = Id(pos) /\ pending'.value = v
    BY OffsetRangeAssumption DEF StartPage, Call, v
  <2>2. UNCHANGED <<pos, values, firstId>>
    BY DEF StartPage
  <2>. DEFINE it == GotoOffset(pending.page, pending.offset)
  <2>3. it'.page = n /\ it'.off = 0
    BY <2>1 DEF GotoOffset, IteratorAt
  <2>. HIDE DEF it
  <2>4. pages'[n].cells[0] = cell /\ 0 \in DOMAIN pages'[n].cells
    BY <1>4, <1>9
  <2>5. SubSeq(v, 1, Len(v)) = v
    BY <1>2, WholeString
  <2>6. HasValue(it)' /\ GetId(it)' = Id(pos) /\ GetValue(it)' = v
    BY <2>3, <2>4, <2>5, <1>2, <1>6 DEF HasValue, AtCell, Cell, GetId, GetValue, Null
  <2>7. ReadsPending(GotoOffset(pending.page, pending.offset))'
    BY <2>1, <2>6 DEF ReadsPending, it
  <2>. QED  BY <1>1, <1>2, <1>9, <2>1, <2>2, <2>4, <2>7 DEF CallbackHolds, Id
<1>. QED  BY <1>7, <1>8, <1>10, <1>11 DEF StartPage, Short

LEMMA HoldsThrow ==
    ASSUME LoaderInv, Throw
    PROVE  LoaderInv'
<1>. USE DEF LoaderInv
<1>1. LoaderTypeOK'
  BY TypeThrow
<1>2. pages' = PagesAndNew(EmptyPage) /\ IsPage(EmptyPage) /\ DOMAIN EmptyPage.cells = {}
  BY EmptyPageProperties DEF Throw
<1>3. PagesHold'
  BY <1>2, EmptyPageHolds, NewPagesHold
<1>4. Len(pages') = Len(pages) + 1 /\ pages'[Len(pages) + 1] = EmptyPage
  BY <1>2, NewPage
<1>5. /\ current' = Len(pages) + 1 /\ dataPtr' = 0 /\ pc' = "threw" /\ values' = values
      /\ 0 <= EndOfPage
  BY PageSizeAssumption DEF Throw, EndOfPage, EndHeader
<1>6. CurrentPageHolds'
  BY <1>2, <1>4, <1>5 DEF CurrentPageHolds, InCallback
<1>7. CallbackHolds'
  BY <1>5 DEF CallbackHolds, InCallback
<1>. QED  BY <1>1, <1>3, <1>5, <1>6, <1>7 DEF Short

\* A delta put at dataPtr overwrites nothing, ends before the room kept for the
\* end-of-page header, and reads back as the value it was made of.
LEMMA CellWritten ==
    ASSUME LoaderInv, AppendDelta, PageSize <= OffsetRange
    PROVE  LET v    == values[pos]
               cell == DeltaCell(Id(pos), ref, v)
               old  == pages[current]
               page == pages'[current]
           IN  /\ current \in 1..Len(pages) /\ Len(pages') = Len(pages) /\ Len(pages) \in Nat
               /\ \A p \in 1..Len(pages) : p # current => pages'[p] = pages[p]
               /\ IsPage(old) /\ PageHolds(old) /\ IsPage(page) /\ PageHolds(page)
               /\ page.end = old.end /\ page.next = old.next
               /\ DOMAIN page.cells = (DOMAIN old.cells) \union {dataPtr}
               /\ page.cells[dataPtr] = cell
               /\ \A o \in DOMAIN old.cells :
                     page.cells[o] = old.cells[o] /\ o \in Nat /\ o < dataPtr
               /\ 0 \in DOMAIN old.cells /\ old.cells[0].str = ref
               /\ dataPtr \in Nat \ {0} /\ dataPtr' \in Nat
               /\ dataPtr < dataPtr' /\ dataPtr' <= EndOfPage
               /\ dataPtr' = dataPtr + Written(cell)
               /\ Id(pos) \in Nat /\ v \in Strings /\ ref \in Strings
               /\ cell.kind = "delta" /\ cell.id = Id(pos)
               /\ cell.str = Delta(ref, v) /\ cell.size = Len(Delta(ref, v))
               /\ cell.prefix = PrefixLength(ref, v)
               /\ SubSeq(ref, 1, cell.prefix) \o SubSeq(cell.str, 1, cell.size) = v
<1>. DEFINE v == values[pos]
            cell == DeltaCell(Id(pos), ref, v)
            old == pages[current]
            page == WithCell(old, dataPtr, cell)
<1>. USE DEF LoaderInv
<1>1. pos <= Len(values) /\ pc = "loop" /\ current # Null /\ DeltaFits
  BY DEF AppendDelta, Looping
<1>2. Id(pos) \in Nat /\ v \in Strings /\ ref \in Strings /\ Len(v) < StringRange
  BY <1>1, IdsAreNat DEF LoaderTypeOK, Short, Strings
<1>3. /\ current \in 1..Len(pages) /\ IsPage(old) /\ PageHolds(old)
      /\ dataPtr \in Nat /\ Len(pages) \in Nat
  BY <1>1, CurrentPage DEF PagesHold, LoaderTypeOK, IsSequence
<1>4. /\ dataPtr # 0 /\ 0 \in DOMAIN old.cells /\ old.cells[0].str = ref
      /\ \A o \in DOMAIN old.cells : o < dataPtr
  BY <1>1 DEF CurrentPageHolds
<1>5. /\ cell \in Cells /\ cell.kind = "delta" /\ cell.id = Id(pos)
      /\ cell.str = Delta(ref, v) /\ cell.size = Len(Delta(ref, v))
      /\ cell.size = DeltaLength(ref, v)
      /\ cell.prefix = PrefixLength(ref, v)
      /\ Written(cell) = DeltaHeader + Len(Delta(ref, v))
  BY <1>2, DeltaCellProperties
<1>6. Len(Delta(ref, v)) \in Nat /\ dataPtr + Written(cell) <= EndOfPage
  <2>1. Len(Delta(ref, v)) \in Nat
    BY <1>2, DeltaRestores DEF Strings
  <2>2. dataPtr + DeltaHeader + DeltaLength(ref, v) <= EndOfPage
    BY <1>1 DEF DeltaFits
  <2>3. Written(cell) = DeltaHeader + DeltaLength(ref, v) /\ DeltaLength(ref, v) \in Nat
    BY <2>1, <1>5
  <2>. HIDE DEF cell
  <2>. QED  BY <2>1, <2>2, <2>3, <1>3 DEF DeltaHeader
<1>7. /\ pages' = [pages EXCEPT ![current] = page]
      /\ dataPtr' = dataPtr + Written(cell)
      /\ UNCHANGED <<values, firstId, pos, current, ref>>
  BY DEF AppendDelta
<1>. HIDE DEF cell
<1>8. /\ IsPage(page) /\ page.end = old.end /\ page.next = old.next
      /\ DOMAIN page.cells = (DOMAIN old.cells) \union {dataPtr}
      /\ page.cells[dataPtr] = cell
      /\ \A o \in DOMAIN old.cells : page.cells[o] = old.cells[o]
  <2>1. /\ IsPage(page) /\ page.end = old.end /\ page.next = old.next
        /\ DOMAIN page.cells = (DOMAIN old.cells) \union {dataPtr}
        /\ page.cells[dataPtr] = cell
        /\ \A o \in DOMAIN old.cells : o # dataPtr => page.cells[o] = old.cells[o]
    BY <1>3, <1>5, WithCellProperties, SMTT(30)
  <2>2. \A o \in DOMAIN old.cells : o # dataPtr
    BY <1>3, <1>4
  <2>. HIDE DEF page, old
  <2>. QED  BY <2>1, <2>2
<1>. HIDE DEF page, old
<1>9. PageHolds(page)
  <2>1. ASSUME NEW o \in DOMAIN old.cells
        PROVE  /\ o + Written(page.cells[o]) <= EndOfPage
               /\ page.cells[o].size = Len(page.cells[o].str)
               /\ page.cells[o].kind = "full" <=> o = 0
    BY <1>3, <1>8 DEF PageHolds
  <2>2. /\ dataPtr + Written(page.cells[dataPtr]) <= EndOfPage
        /\ page.cells[dataPtr].size = Len(page.cells[dataPtr].str)
        /\ page.cells[dataPtr].kind = "full" <=> dataPtr = 0
    BY <1>4, <1>5, <1>6, <1>8
  <2>. QED  BY <2>1, <2>2, <1>3, <1>4, <1>8 DEF PageHolds
<1>10. /\ Len(pages') = Len(pages) /\ pages'[current] = page
       /\ \A p \in 1..Len(pages) : p # current => pages'[p] = pages[p]
  <2>1. IsSequence(pages) /\ \A p \in 1..Len(pages) : IsPage(pages[p])
    BY DEF LoaderTypeOK
  <2>2. pages' = [pages EXCEPT ![current] = page] /\ current \in 1..Len(pages) /\ IsPage(page)
    BY <1>3, <1>7, <1>8
  <2>3. Len(pages') = Len(pages)
    BY <2>1, <2>2, ReplacedPage, ZenonT(40)
  <2>4. pages'[current] = page /\ \A p \in 1..Len(pages) : p # current => pages'[p] = pages[p]
    BY <2>1, <2>2, ReplacedPage
  <2>. QED  BY <2>3, <2>4
<1>11. SubSeq(ref, 1, cell.prefix) \o SubSeq(cell.str, 1, cell.size) = v
  <2>1. SubSeq(cell.str, 1, cell.size) = Delta(ref, v)
    BY <1>2, <1>5, DeltaRestores, WholeString
  <2>2. SubSeq(ref, 1, PrefixLength(ref, v)) \o Delta(ref, v) = v
    BY <1>2, DeltaRestores
  <2>. QED  BY <2>1, <2>2, <1>5
<1>12. dataPtr' \in Nat /\ dataPtr < dataPtr' /\ dataPtr' <= EndOfPage
  <2>1. Written(cell) \in Nat \ {0}
    BY <1>5, <1>6 DEF DeltaHeader
  <2>2. dataPtr' = dataPtr + Written(cell)
    BY <1>7
  <2>. QED  BY <2>1, <2>2, <1>3, <1>6
<1>13. \A o \in DOMAIN old.cells : o \in Nat
  BY <1>3 DEF IsPage
<1>14. dataPtr \in Nat \ {0}
  BY <1>3, <1>4
<1>15. page = pages'[current] /\ old = pages[current]
  BY <1>10 DEF old
<1>16. dataPtr' = dataPtr + Written(cell)
  BY <1>7
<1>. QED
  BY <1>2, <1>3, <1>4, <1>5, <1>8, <1>9, <1>10, <1>11, <1>12, <1>13, <1>14, <1>15, <1>16
     DEF cell, old

LEMMA HoldsAppendDelta ==
    ASSUME LoaderInv, AppendDelta, PageSize <= OffsetRange
    PROVE  LoaderInv'
<1>. DEFINE v == values[pos]
            cell == DeltaCell(Id(pos), ref, v)
            old == pages[current]
            page == pages'[current]
<1>1. /\ current \in 1..Len(pages) /\ Len(pages') = Len(pages) /\ Len(pages) \in Nat
      /\ \A p \in 1..Len(pages) : p # current => pages'[p] = pages[p]
      /\ PageHolds(page)
      /\ DOMAIN page.cells = (DOMAIN old.cells) \union {dataPtr}
      /\ page.cells[dataPtr] = cell
      /\ \A o \in DOMAIN old.cells : page.cells[o] = old.cells[o] /\ o \in Nat /\ o < dataPtr
      /\ 0 \in DOMAIN old.cells /\ old.cells[0].str = ref
      /\ dataPtr \in Nat \ {0} /\ dataPtr' \in Nat
      /\ dataPtr < dataPtr' /\ dataPtr' <= EndOfPage
  BY CellWritten
<1>2. /\ cell.kind = "delta" /\ cell.id = Id(pos) /\ cell.size = Len(Delta(ref, v))
      /\ SubSeq(ref, 1, cell.prefix) \o SubSeq(cell.str, 1, cell.size) = v
  BY CellWritten
<1>. HIDE DEF cell, page, old
<1>3. UNCHANGED <<values, firstId, pos, current, ref>> /\ pos <= Len(values) /\ current # Null
  BY DEF AppendDelta, Looping
<1>. USE DEF LoaderInv
<1>11. LoaderTypeOK'
  BY TypeAppendDelta
<1>12. PagesHold'
  BY <1>1 DEF PagesHold, PageHolds, EndOfPage, EndHeader, page
<1>13. CurrentPageHolds'
  <2>1. \A o \in DOMAIN page.cells : o < dataPtr'
    BY <1>1
  <2>2. 0 \in DOMAIN page.cells /\ page.cells[0].str = ref
    BY <1>1
  <2>3. dataPtr' # 0
    BY <1>1
  <2>. QED
    BY <2>1, <2>2, <2>3, <1>1, <1>3 DEF CurrentPageHolds, EndOfPage, page
<1>14. CallbackHolds'
  <2>. DEFINE it == GotoOffset(pending.page, pending.offset)
  <2>1. dataPtr % OffsetRange = dataPtr
    <3>1. dataPtr \in Nat /\ dataPtr < OffsetRange /\ OffsetRange \in Nat
      BY <1>1, PageSizeAssumption, OffsetRangeAssumption DEF EndOfPage, EndHeader
    <3>. QED  BY <3>1
  <2>2. /\ pending'.page = current /\ pending'.offset = dataPtr
        /\ pending'.id = Id(pos) /\ pending'.value = v
    BY <2>1 DEF AppendDelta, Call
  <2>3. it'.page = current /\ it'.off = dataPtr /\ it'.base = current /\ it'.from = 0
    BY <2>2, <1>1 DEF GotoOffset, IteratorAt
  <2>. HIDE DEF it
  <2>4. /\ pages'[current].cells[dataPtr] = cell
        /\ dataPtr \in DOMAIN pages'[current].cells
        /\ pages'[current].cells[0].str = ref
    BY <1>1 DEF page
  <2>6. HasValue(it)' /\ GetId(it)' = Id(pos)
    BY <2>3, <2>4, <1>2, <1>3 DEF HasValue, AtCell, Cell, GetId
  <2>7. GetValue(it)' = v
    BY <2>3, <2>4, <1>2 DEF GetValue, Cell
  <2>8. ReadsPending(GotoOffset(pending.page, pending.offset))'
    BY <2>2, <2>6, <2>7 DEF ReadsPending, it
  <2>. QED
    BY <1>1, <1>3, <2>2, <2>4, <2>8 DEF CallbackHolds, Id
<1>. QED  BY <1>3, <1>11, <1>12, <1>13, <1>14 DEF Short

LEMMA HoldsFinish ==
    ASSUME LoaderInv, Finish
    PROVE  LoaderInv'
<1>. USE DEF LoaderInv
<1>1. LoaderTypeOK'
  BY TypeFinish
<1>2. /\ UNCHANGED <<values, firstId, pos, current, dataPtr, ref, delta, pending>>
      /\ pc' \in {"ready", "crashed"}
  BY DEF Finish
<1>3. CallbackHolds'
  BY <1>2 DEF CallbackHolds, InCallback
<1>4. PagesHold' /\ CurrentPageHolds'
  <2>1. CASE current = Null
    BY <2>1, <1>2 DEF Finish, PagesHold, PageHolds, CurrentPageHolds, EndOfPage, EndHeader
  <2>2. CASE current # Null
    <3>. DEFINE old == pages[current]
                page == Finished(old, dataPtr, old.next)
    <3>1. /\ current \in 1..Len(pages) /\ IsPage(old) /\ PageHolds(old)
          /\ dataPtr \in Nat /\ dataPtr <= EndOfPage /\ Len(pages) \in Nat
      BY <2>2, CurrentPage DEF PagesHold, LoaderTypeOK, CurrentPageHolds, IsSequence
    <3>2. IsPage(page) /\ page.cells = old.cells /\ page.end = dataPtr
      <4>1. old.next \in Nat
        BY <3>1 DEF IsPage
      <4>2. IsPage(old) /\ dataPtr \in Nat
        BY <3>1
      <4>. HIDE DEF old
      <4>3. IsPage(page)
        BY <4>1, <4>2, FinishedPage
      <4>. QED  BY <4>3 DEF Finished
    <3>3. pages' = [pages EXCEPT ![current] = page]
      BY <2>2 DEF Finish
    <3>. HIDE DEF page
    <3>4. /\ Len(pages') = Len(pages) /\ pages'[current] = page
          /\ \A p \in 1..Len(pages) : p # current => pages'[p] = pages[p]
      <4>1. IsSequence(pages) /\ \A p \in 1..Len(pages) : IsPage(pages[p])
        BY DEF LoaderTypeOK
      <4>2. Len(pages') = Len(pages)
        BY <4>1, <3>1, <3>2, <3>3, ReplacedPage, ZenonT(40)
      <4>3. pages'[current] = page /\ \A p \in 1..Len(pages) : p # current => pages'[p] = pages[p]
        BY <4>1, <3>1, <3>2, <3>3, ReplacedPage
      <4>. QED  BY <4>2, <4>3
    <3>5. PageHolds(page)
      BY <3>1, <3>2 DEF PageHolds
    <3>6. PagesHold'
      BY <3>4, <3>5 DEF PagesHold, PageHolds, EndOfPage, EndHeader
    <3>7. CurrentPageHolds'
      BY <2>2, <3>2, <3>4, <1>2 DEF CurrentPageHolds, InCallback, EndOfPage, EndHeader
    <3>. QED  BY <3>6, <3>7
  <2>. QED  BY <2>1, <2>2
<1>. QED  BY <1>1, <1>2, <1>3, <1>4 DEF Short

LEMMA HoldsLoad ==
    ASSUME LoaderInv, NEW vs \in Inputs, NEW id \in Nat \ {0}, Short(vs), Load(vs, id)
    PROVE  LoaderInv'
<1>1. LoaderTypeOK'
  BY TypeLoad DEF LoaderInv
<1>2. pages' = pages /\ values' = vs /\ current' = Null /\ pc' = "loop"
  BY DEF Load
<1>. QED
  BY <1>1, <1>2 DEF LoaderInv, PagesHold, PageHolds, CurrentPageHolds, CallbackHolds, InCallback,
                    Short, EndOfPage, EndHeader

\* The steps that touch neither pages nor the variables of the loop.
LEMMA HoldsElsewhere ==
    ASSUME LoaderInv,
           UNCHANGED <<pages, values, firstId, current, dataPtr, ref, delta, pending>>,
           \/ pos' = pos /\ pc' = pc
           \/ pos' = pos /\ InCallback /\ InCallback'
           \/ pos' = pos + 1 /\ InCallback /\ pc' = "loop"
           \/ pos' = pos /\ pc # "loop" /\ ~InCallback /\ pc' # "loop" /\ ~InCallback'
    PROVE  LoaderInv'
<1>. USE DEF LoaderInv
<1>1. LoaderTypeOK' /\ Short(values)' /\ PagesHold'
  BY DEF LoaderTypeOK, Short, PagesHold, PageHolds, EndOfPage, EndHeader
<1>2. CurrentPageHolds'
  BY DEF CurrentPageHolds, InCallback, EndOfPage, EndHeader
<1>3. CallbackHolds'
  <2>1. CASE ~InCallback'
    BY <2>1 DEF CallbackHolds
  <2>2. CASE InCallback'
    <3>1. pos' = pos /\ InCallback
      BY <2>2 DEF InCallback
    <3>. QED  BY <3>1 DEF CallbackHolds, ReadsPending, GotoOffset, IteratorAt, HasValue, AtCell,
                          Cell, GetId, GetValue, Id
  <2>. QED  BY <2>1, <2>2
<1>. QED  BY <1>1, <1>2, <1>3

LEMMA HoldsInit ==
    ASSUME LoaderInit
    PROVE  LoaderInv
<1>1. LoaderTypeOK
  BY TypeInit DEF TypeOK
<1>2. Short(values) /\ PagesHold
  BY StringRangeAssumption DEF LoaderInit, Short, PagesHold
<1>. QED  BY <1>1, <1>2 DEF LoaderInit, LoaderInv, CurrentPageHolds, CallbackHolds, InCallback

LEMMA HoldsStep ==
    ASSUME FitsWidths, LoaderInv, [LoaderNext]_loaderVars
    PROVE  LoaderInv'
<1>1. ASSUME NEW vs \in Inputs, Load(vs, 1)
      PROVE  LoaderInv'
  BY <1>1, HoldsLoad DEF FitsWidths
<1>2. CASE StartPage
  BY <1>2, HoldsStartPage
<1>3. CASE Throw
  BY <1>3, HoldsThrow
<1>4. CASE AppendDelta
  BY <1>4, HoldsAppendDelta DEF FitsWidths
<1>5. CASE Finish
  BY <1>5, HoldsFinish
<1>6. CASE Return
  BY <1>6, HoldsElsewhere DEF Return, InCallback
<1>7. CASE UNCHANGED loaderVars
  BY <1>7, HoldsElsewhere DEF loaderVars
<1>. QED  BY <1>1, <1>2, <1>3, <1>4, <1>5, <1>6, <1>7 DEF LoaderNext, LoaderStep

\* The invariant behind the two theorems below.
THEOREM LoaderInvariant ==
    ASSUME FitsWidths
    PROVE  LoaderSpec => []LoaderInv
<1>1. LoaderInit => LoaderInv
  BY HoldsInit
<1>2. LoaderInv /\ [LoaderNext]_loaderVars => LoaderInv'
  BY HoldsStep
<1>. QED  BY <1>1, <1>2, PTL DEF LoaderSpec

LEMMA WrittenNat ==
    ASSUME NEW cell \in Cells
    PROVE  Written(cell) \in Nat
<1>1. Len(cell.str) \in Nat /\ HeaderSize(cell) \in Nat
  BY DEF Cells, HeaderSize, FullHeader, DeltaHeader
<1>. QED  BY <1>1 DEF Written

LEMMA InvKeepsInPage ==
    ASSUME LoaderInv
    PROVE  WritesStayInPage
<1>1. ASSUME NEW p \in 1..Len(pages)
      PROVE  /\ \A o \in DOMAIN pages[p].cells :
                    o + Written(pages[p].cells[o]) + EndHeader <= PageSize
             /\ pages[p].end + EndHeader <= PageSize
  <2>1. IsPage(pages[p]) /\ PageHolds(pages[p])
    BY DEF LoaderInv, LoaderTypeOK, PagesHold
  <2>2. ASSUME NEW o \in DOMAIN pages[p].cells
        PROVE  o + Written(pages[p].cells[o]) + EndHeader <= PageSize
    <3>1. pages[p].cells[o] \in Cells /\ o \in Nat
      BY <2>1 DEF IsPage
    <3>2. Written(pages[p].cells[o]) \in Nat
      BY <3>1, WrittenNat
    <3>3. o + Written(pages[p].cells[o]) <= PageSize - EndHeader
      BY <2>1 DEF PageHolds, EndOfPage
    <3>. QED  BY <3>1, <3>2, <3>3, PageSizeAssumption DEF EndHeader
  <2>3. pages[p].end + EndHeader <= PageSize
    <3>1. pages[p].end \in Int /\ pages[p].end <= PageSize - EndHeader
      BY <2>1 DEF IsPage, PageHolds, EndOfPage, Unwritten
    <3>. QED  BY <3>1, PageSizeAssumption DEF EndHeader
  <2>. QED  BY <2>2, <2>3
<1>. QED  BY <1>1 DEF WritesStayInPage

LEMMA InvReadsOffset ==
    ASSUME LoaderInv
    PROVE  OffsetReads
<1>1. SUFFICES ASSUME InCallback
               PROVE  OffsetExists(pending.page, pending.offset)
  BY DEF OffsetReads, LoaderInv, CallbackHolds
<1>. DEFINE p == pending.page
            o == pending.offset
<1>2. p \in 1..Len(pages) /\ o \in DOMAIN pages[p].cells
  BY <1>1 DEF LoaderInv, CallbackHolds
<1>3. IsPage(pages[p]) /\ PageHolds(pages[p])
  BY <1>2 DEF LoaderInv, LoaderTypeOK, PagesHold
<1>4. pages[p].cells[o] \in Cells
  BY <1>2, <1>3 DEF IsPage
<1>5. pages[p].cells[o].kind \in {"full", "delta"}
  BY <1>4 DEF Cells
<1>. QED  BY <1>2, <1>3, <1>5 DEF PageHolds, OffsetExists

\* No byte is written outside a page, whatever the page size: the estimate in
\* front of a delta and the byte kept for the end-of-page header suffice
\* (SingleUncompressedPage.hpp:52-97).
THEOREM LoaderStaysInPage ==
    ASSUME FitsWidths
    PROVE  LoaderSpec => []WritesStayInPage
<1>1. LoaderInv => WritesStayInPage
  BY InvKeepsInPage
<1>. QED  BY <1>1, LoaderInvariant, PTL

\* The page and offset that Loader::call passes on lead back to the value just
\* written, so the indexes may read it in the middle of a load
\* (Page.hpp:128-135, 1013-1034).
THEOREM LoaderOffsetsRead ==
    ASSUME FitsWidths
    PROVE  LoaderSpec => []OffsetReads
<1>1. LoaderInv => OffsetReads
  BY InvReadsOffset
<1>. QED  BY <1>1, LoaderInvariant, PTL

-----------------------------------------------------------------------------
(* The cells of a page                                                     *)

\* What a reader makes of the bytes of a cell, and the cell behind it.
Text(page, o) ==
    LET rest == SubSeq(page.cells[o].str, 1, page.cells[o].size)
    IN  IF page.cells[o].kind = "full" THEN rest
        ELSE SubSeq(page.cells[0].str, 1, page.cells[o].prefix) \o rest

After(page, o) == o + Occupied(page.cells[o])

IsLast(page, o) == \A x \in DOMAIN page.cells : page.cells[x].id <= page.cells[o].id

\* Up to stop the cells follow one another without a gap and with consecutive
\* ids; an id says where its cell is, and is not far from that of the first.
CellsLinked(page, stop) ==
    \A o \in DOMAIN page.cells :
        /\ o < stop
        /\ page.cells[o].id - page.cells[0].id \in 0..o
        /\ \A x \in DOMAIN page.cells : page.cells[x].id = page.cells[o].id => x = o
        /\ \/ /\ After(page, o) \in DOMAIN page.cells
              /\ page.cells[After(page, o)].id = page.cells[o].id + 1
           \/ After(page, o) = stop /\ IsLast(page, o)

LEMMA SameCellsLinked ==
    ASSUME NEW page, NEW old, page.cells = old.cells, NEW stop, CellsLinked(old, stop)
    PROVE  CellsLinked(page, stop)
BY DEF CellsLinked, After, IsLast

LEMMA FirstCellLinked ==
    ASSUME NEW page, IsPage(page), DOMAIN page.cells = {0}, NEW stop \in Nat, 0 < stop,
           After(page, 0) = stop
    PROVE  CellsLinked(page, stop) /\ IsLast(page, 0)
<1>1. page.cells[0].id \in Nat
  BY DEF IsPage, Cells
<1>. QED  BY <1>1 DEF CellsLinked, IsLast

\* A cell put where the last one ends, with the next id.
LEMMA CellAppended ==
    ASSUME NEW old, IsPage(old), NEW page, IsPage(page), NEW at \in Nat,
           CellsLinked(old, at), 0 \in DOMAIN old.cells,
           DOMAIN page.cells = (DOMAIN old.cells) \union {at},
           \A o \in DOMAIN old.cells : page.cells[o] = old.cells[o],
           NEW last \in DOMAIN old.cells, IsLast(old, last),
           page.cells[at].id = old.cells[last].id + 1,
           NEW stop \in Nat, at < stop, After(page, at) = stop
    PROVE  CellsLinked(page, stop) /\ IsLast(page, at)
<1>. DEFINE new(o) == page.cells[o].id
            was(o) == old.cells[o].id
<1>1. /\ \A o \in DOMAIN old.cells : o \in Nat /\ was(o) \in Nat /\ o < at /\ new(o) = was(o)
      /\ \A o \in DOMAIN old.cells : was(o) - was(0) \in 0..o /\ was(o) <= was(last)
      /\ \A o, x \in DOMAIN old.cells : was(x) = was(o) => x = o
      /\ new(at) = was(last) + 1
  <2>1. \A o \in DOMAIN old.cells : o \in Nat /\ was(o) \in Nat
    BY DEF IsPage, Cells
  <2>. QED  BY <2>1 DEF CellsLinked, IsLast
<1>2. \A o \in DOMAIN old.cells :
         \/ After(old, o) \in DOMAIN old.cells /\ was(After(old, o)) = was(o) + 1
         \/ After(old, o) = at /\ IsLast(old, o)
  BY DEF CellsLinked
<1>3. \A o \in DOMAIN old.cells : After(page, o) = After(old, o)
  BY DEF After
<1>4. \A o \in DOMAIN page.cells : o \in DOMAIN old.cells \/ o = at
  OBVIOUS
<1>5. IsLast(page, at)
  <2>1. \A o \in DOMAIN page.cells : new(o) <= new(at)
    BY <1>1, <1>4
  <2>. QED  BY <2>1 DEF IsLast
<1>6. ASSUME NEW o \in DOMAIN old.cells
      PROVE  /\ o < stop
             /\ new(o) - new(0) \in 0..o
             /\ \A x \in DOMAIN page.cells : new(x) = new(o) => x = o
             /\ After(page, o) \in DOMAIN page.cells /\ new(After(page, o)) = new(o) + 1
  <2>1. o < stop /\ new(o) - new(0) \in 0..o
    BY <1>1
  <2>2. ASSUME NEW x \in DOMAIN page.cells, new(x) = new(o)
        PROVE  x = o
    <3>1. x # at
      BY <2>2, <1>1
    <3>. QED  BY <3>1, <2>2, <1>1, <1>4
  <2>3. CASE After(old, o) \in DOMAIN old.cells /\ was(After(old, o)) = was(o) + 1
    BY <2>1, <2>2, <2>3, <1>1, <1>3
  <2>4. CASE After(old, o) = at /\ IsLast(old, o)
    <3>1. was(last) <= was(o)
      BY <2>4 DEF IsLast
    <3>2. was(last) = was(o)
      BY <3>1, <1>1
    <3>. QED  BY <2>1, <2>2, <2>4, <3>2, <1>1, <1>3
  <2>. QED  BY <2>3, <2>4, <1>2
<1>7. /\ at < stop /\ new(at) - new(0) \in 0..at
      /\ \A x \in DOMAIN page.cells : new(x) = new(at) => x = at
  <2>1. was(last) - was(0) \in 0..last /\ last < at /\ new(0) = was(0)
    BY <1>1
  <2>2. new(at) - new(0) \in 0..at
    BY <2>1, <1>1
  <2>3. ASSUME NEW x \in DOMAIN page.cells, new(x) = new(at)
        PROVE  x = at
    <3>1. x \notin DOMAIN old.cells
      BY <2>3, <1>1
    <3>. QED  BY <3>1, <1>4
  <2>. QED  BY <2>2, <2>3
<1>. QED  BY <1>4, <1>5, <1>6, <1>7 DEF CellsLinked

-----------------------------------------------------------------------------
(* Delta numbers                                                           *)

Stop(p) == IF p = current THEN dataPtr ELSE pages[p].end

AllLinked == \A p \in 1..Len(pages) : CellsLinked(pages[p], Stop(p))

\* The current page ends with the last value loaded, whose number is delta.
LastOnPage ==
    current # Null /\ dataPtr # 0 =>
        \E o \in DOMAIN pages[current].cells :
            /\ IsLast(pages[current], o)
            /\ pages[current].cells[o].id = Id(Loaded)
            /\ delta = Id(Loaded) - pages[current].cells[0].id

DeltaNumber ==
    InCallback => pending.delta = pending.id - pages[pending.page].cells[0].id

\* Once the loop is left, the current page is finished or empty.
PageFinished ==
    pc # "loop" /\ ~InCallback /\ current # Null =>
        dataPtr = 0 \/ pages[current].end = dataPtr

OrderInv == AllLinked /\ LastOnPage /\ DeltaNumber /\ PageFinished

LEMMA AfterCell ==
    ASSUME NEW page, NEW o \in DOMAIN page.cells,
           page.cells[o].size = Len(page.cells[o].str)
    PROVE  After(page, o) = o + Written(page.cells[o])
BY DEF After, Occupied, Written

\* What StartPage writes.
LEMMA PageStarted ==
    ASSUME LoaderInv, StartPage
    PROVE  LET v    == values[pos]
               n    == Len(pages) + 1
               page == pages'[n]
           IN  /\ Len(pages) \in Nat /\ Len(pages') = n /\ current' = n
               /\ \A p \in 1..Len(pages) :
                     /\ p # current => pages'[p] = pages[p]
                     /\ p = current => /\ pages'[p].cells = pages[p].cells
                                       /\ pages'[p].end = dataPtr /\ pages'[p].next = n
               /\ IsPage(page) /\ PageHolds(page) /\ page.next = Null
               /\ DOMAIN page.cells = {0}
               /\ page.cells[0].kind = "full" /\ page.cells[0].id = Id(pos)
               /\ page.cells[0].str = v /\ page.cells[0].size = Len(v)
               /\ v \in Strings /\ Id(pos) \in Nat
               /\ dataPtr' \in Nat \ {0} /\ dataPtr' = After(page, 0)
<1>. DEFINE v == values[pos]
            cell == FullCell(Id(pos), v)
            new == WithCell(EmptyPage, 0, cell)
            n == Len(pages) + 1
<1>. USE DEF LoaderInv
<1>1. pos <= Len(values) /\ FullFits(v)
  BY DEF StartPage, Looping
<1>2. Id(pos) \in Nat /\ v \in Strings /\ n \in Nat \ {0} /\ Len(pages) \in Nat
  BY <1>1, IdsAreNat DEF LoaderTypeOK, IsSequence
<1>3. Len(v) < StringRange
  BY <1>1 DEF Short, LoaderTypeOK
<1>4. IsPage(new) /\ PageHolds(new) /\ DOMAIN new.cells = {0} /\ new.cells[0] = cell
  BY <1>1, <1>2, <1>3, NewPageHolds
<1>5. pages' = PagesAndNew(new) /\ current' = n /\ dataPtr' = Written(cell)
  BY DEF StartPage
<1>6. /\ cell.kind = "full" /\ cell.id = Id(pos) /\ cell.str = v /\ cell.size = Len(v)
      /\ Written(cell) = FullHeader + Len(v)
  BY <1>2, <1>3, FullCellProperties
<1>7. new.next = Null
  BY DEF WithCell, EmptyPage
<1>. HIDE DEF new, cell, v
<1>8. /\ Len(pages') = n /\ pages'[n] = new
      /\ \A p \in 1..Len(pages) :
            /\ p # current => pages'[p] = pages[p]
            /\ p = current => /\ pages'[p].cells = pages[p].cells
                              /\ pages'[p].end = dataPtr /\ pages'[p].next = n
  BY <1>4, <1>5, NewPageLinked
<1>9. dataPtr' \in Nat \ {0} /\ dataPtr' = After(new, 0)
  <2>1. After(new, 0) = 0 + Written(cell)
    BY <1>4, <1>6, AfterCell
  <2>2. Written(cell) \in Nat \ {0}
    BY <1>2, <1>6 DEF FullHeader, Strings
  <2>. QED  BY <2>1, <2>2, <1>5
<1>. QED  BY <1>2, <1>4, <1>5, <1>6, <1>7, <1>8, <1>9 DEF v

\* A new page leaves the cells of those before it linked.
LEMMA LinkedBehind ==
    ASSUME LoaderInv, AllLinked, current' = Len(pages) + 1,
           \A p \in 1..Len(pages) :
              /\ p # current => pages'[p] = pages[p]
              /\ p = current => pages'[p].cells = pages[p].cells /\ pages'[p].end = dataPtr
    PROVE  \A p \in 1..Len(pages) : CellsLinked(pages'[p], Stop(p)')
<1>1. Len(pages) \in Nat
  BY DEF LoaderInv, LoaderTypeOK, IsSequence
<1>. SUFFICES ASSUME NEW p \in 1..Len(pages)
              PROVE  CellsLinked(pages'[p], Stop(p)')
  OBVIOUS
<1>2. p # current' /\ CellsLinked(pages[p], Stop(p))
  BY <1>1 DEF AllLinked
<1>3. Stop(p)' = Stop(p) /\ pages'[p].cells = pages[p].cells
  BY <1>2 DEF Stop
<1>. QED  BY <1>2, <1>3, SameCellsLinked

LEMMA OrderStartPage ==
    ASSUME LoaderInv, OrderInv, StartPage
    PROVE  OrderInv'
<1>. DEFINE n == Len(pages) + 1
            page == pages'[n]
<1>1. /\ Len(pages) \in Nat /\ Len(pages') = n /\ current' = n
      /\ \A p \in 1..Len(pages) :
            /\ p # current => pages'[p] = pages[p]
            /\ p = current => pages'[p].cells = pages[p].cells /\ pages'[p].end = dataPtr
      /\ IsPage(page) /\ DOMAIN page.cells = {0} /\ page.cells[0].id = Id(pos)
      /\ Id(pos) \in Nat /\ dataPtr' \in Nat \ {0} /\ dataPtr' = After(page, 0)
  BY PageStarted
<1>2. /\ delta' = 0 /\ pc' = "callback" /\ UNCHANGED <<values, firstId, pos>>
      /\ pending'.page = n /\ pending'.delta = 0 /\ pending'.id = Id(pos)
  BY DEF StartPage, Call
<1>. HIDE DEF page
<1>3. CellsLinked(page, dataPtr') /\ IsLast(page, 0)
  BY <1>1, FirstCellLinked
<1>4. AllLinked'
  <2>1. \A p \in 1..Len(pages) : CellsLinked(pages'[p], Stop(p)')
    BY <1>1, LinkedBehind DEF OrderInv
  <2>2. ASSUME NEW p \in 1..Len(pages'), p = n
        PROVE  CellsLinked(pages'[p], Stop(p)')
    BY <2>2, <1>1, <1>3 DEF Stop, page
  <2>3. \A p \in 1..Len(pages') : p \in 1..Len(pages) \/ p = n
    BY <1>1
  <2>. QED  BY <2>1, <2>2, <2>3 DEF AllLinked
<1>5. Loaded' = pos /\ Id(Loaded)' = Id(pos)
  BY <1>2 DEF Loaded, InCallback, Id
<1>6. LastOnPage'
  <2>1. 0 \in DOMAIN page.cells /\ 0 = Id(pos) - page.cells[0].id
    BY <1>1
  <2>. QED  BY <2>1, <1>1, <1>2, <1>3, <1>5 DEF LastOnPage, page, IsLast
<1>7. DeltaNumber'
  BY <1>1, <1>2 DEF DeltaNumber, page
<1>8. PageFinished'
  BY <1>2 DEF PageFinished, InCallback
<1>. QED  BY <1>4, <1>6, <1>7, <1>8 DEF OrderInv

LEMMA OrderThrow ==
    ASSUME LoaderInv, OrderInv, Throw
    PROVE  OrderInv'
<1>1. /\ Len(pages') = Len(pages) + 1 /\ pages'[Len(pages) + 1] = EmptyPage
      /\ \A p \in 1..Len(pages) :
            /\ p # current => pages'[p] = pages[p]
            /\ p = current => pages'[p].cells = pages[p].cells /\ pages'[p].end = dataPtr
  BY EmptyPageProperties, NewPageLinked DEF LoaderInv, Throw
<1>2. dataPtr' = 0 /\ pc' = "threw" /\ current' = Len(pages) + 1 /\ Len(pages) \in Nat
  BY DEF Throw, LoaderInv, LoaderTypeOK, IsSequence
<1>3. AllLinked'
  <2>1. \A p \in 1..Len(pages) : CellsLinked(pages'[p], Stop(p)')
    BY <1>1, <1>2, LinkedBehind DEF OrderInv
  <2>2. ASSUME NEW p \in 1..Len(pages'), p = Len(pages) + 1
        PROVE  CellsLinked(pages'[p], Stop(p)')
    BY <2>2, <1>1, EmptyPageProperties DEF CellsLinked
  <2>3. \A p \in 1..Len(pages') : p \in 1..Len(pages) \/ p = Len(pages) + 1
    BY <1>1, <1>2
  <2>. QED  BY <2>1, <2>2, <2>3 DEF AllLinked
<1>. QED  BY <1>2, <1>3 DEF OrderInv, LastOnPage, DeltaNumber, PageFinished, InCallback

LEMMA OrderAppendDelta ==
    ASSUME LoaderInv, OrderInv, AppendDelta, PageSize <= OffsetRange
    PROVE  OrderInv'
<1>. DEFINE old == pages[current]
            page == pages'[current]
<1>1. /\ current \in 1..Len(pages) /\ Len(pages') = Len(pages) /\ Len(pages) \in Nat
      /\ \A p \in 1..Len(pages) : p # current => pages'[p] = pages[p]
      /\ IsPage(old) /\ IsPage(page) /\ PageHolds(page)
      /\ DOMAIN page.cells = (DOMAIN old.cells) \union {dataPtr}
      /\ page.cells[dataPtr] = DeltaCell(Id(pos), ref, values[pos])
      /\ \A o \in DOMAIN old.cells : page.cells[o] = old.cells[o]
      /\ 0 \in DOMAIN old.cells
      /\ dataPtr \in Nat \ {0} /\ dataPtr' \in Nat /\ dataPtr < dataPtr'
      /\ dataPtr' <= EndOfPage
  BY CellWritten
<1>2. page.cells[dataPtr].id = Id(pos) /\ Id(pos) \in Nat /\ dataPtr' = After(page, dataPtr)
  <2>1. page.cells[dataPtr].size = Len(page.cells[dataPtr].str)
    BY <1>1 DEF PageHolds
  <2>2. After(page, dataPtr) = dataPtr + Written(page.cells[dataPtr])
    BY <2>1, <1>1, AfterCell
  <2>3. /\ dataPtr' = dataPtr + Written(DeltaCell(Id(pos), ref, values[pos]))
        /\ DeltaCell(Id(pos), ref, values[pos]).id = Id(pos) /\ Id(pos) \in Nat
    BY CellWritten
  <2>. QED  BY <2>2, <2>3, <1>1
<1>. HIDE DEF page, old
<1>3. /\ delta' = (delta + 1) % OffsetRange /\ pc = "loop" /\ pc' = "callback"
      /\ UNCHANGED <<values, firstId, pos, current>> /\ current # Null
      /\ pending'.page = current /\ pending'.delta = delta' /\ pending'.id = Id(pos)
  BY DEF AppendDelta, Looping, Call
<1>4. PICK last \in DOMAIN old.cells :
         IsLast(old, last) /\ old.cells[last].id = Id(Loaded) /\ delta = Id(Loaded) - old.cells[0].id
  BY <1>1, <1>3 DEF OrderInv, LastOnPage, old
<1>5. Id(Loaded) = Id(pos) - 1
  BY <1>2, <1>3 DEF Loaded, InCallback, Id, LoaderInv, LoaderTypeOK
<1>6. CellsLinked(old, dataPtr)
  BY <1>1 DEF OrderInv, AllLinked, Stop, old
<1>7. CellsLinked(page, dataPtr') /\ IsLast(page, dataPtr)
  <2>1. page.cells[dataPtr].id = old.cells[last].id + 1
    BY <1>2, <1>4, <1>5
  <2>2. dataPtr \in Nat /\ dataPtr' \in Nat /\ dataPtr < dataPtr' /\ After(page, dataPtr) = dataPtr'
    BY <1>1, <1>2
  <2>. QED  BY <2>1, <2>2, <1>1, <1>4, <1>6, CellAppended
<1>8. AllLinked'
  <2>1. ASSUME NEW p \in 1..Len(pages)
        PROVE  CellsLinked(pages'[p], Stop(p)')
    <3>1. CASE p = current
      BY <3>1, <1>3, <1>7 DEF Stop, page
    <3>2. CASE p # current
      <4>1. pages'[p] = pages[p] /\ Stop(p)' = Stop(p)
        BY <3>2, <1>1, <1>3 DEF Stop
      <4>. QED  BY <4>1 DEF OrderInv, AllLinked
    <3>. QED  BY <3>1, <3>2
  <2>. QED  BY <2>1, <1>1 DEF AllLinked
<1>9. delta' = Id(pos) - page.cells[0].id
  <2>1. page.cells[0].id = old.cells[0].id /\ page.cells[0].id \in Nat
    BY <1>1 DEF IsPage, Cells
  <2>2. Id(pos) - page.cells[0].id \in 0..dataPtr
    BY <1>1, <1>2, <1>7 DEF CellsLinked
  <2>3. dataPtr < OffsetRange
    BY <1>1, PageSizeAssumption, OffsetRangeAssumption DEF EndOfPage, EndHeader
  <2>4. delta + 1 = Id(pos) - page.cells[0].id
    BY <2>1, <1>2, <1>4, <1>5
  <2>5. Id(pos) - page.cells[0].id \in Nat /\ Id(pos) - page.cells[0].id < OffsetRange
    BY <2>2, <2>3, <1>1, OffsetRangeAssumption
  <2>. QED  BY <2>4, <2>5, <1>3, OffsetRangeAssumption
<1>10. LastOnPage'
  <2>1. Id(Loaded)' = Id(pos)
    BY <1>3 DEF Loaded, InCallback, Id
  <2>2. dataPtr \in DOMAIN page.cells
    BY <1>1
  <2>. QED  BY <2>1, <2>2, <1>2, <1>3, <1>7, <1>9 DEF LastOnPage, page, IsLast
<1>11. DeltaNumber'
  BY <1>3, <1>9 DEF DeltaNumber, page
<1>12. PageFinished'
  BY <1>3 DEF PageFinished, InCallback
<1>. QED  BY <1>8, <1>10, <1>11, <1>12 DEF OrderInv

\* What Finish writes.
LEMMA LastPageFinished ==
    ASSUME LoaderInv, Finish, current # Null
    PROVE  LET page == pages'[current]
               old  == pages[current]
           IN  /\ current \in 1..Len(pages) /\ Len(pages') = Len(pages) /\ Len(pages) \in Nat
               /\ \A p \in 1..Len(pages) : p # current => pages'[p] = pages[p]
               /\ page.cells = old.cells /\ page.end = dataPtr /\ page.next = old.next
               /\ pc' = "ready"
<1>. DEFINE old == pages[current]
            page == Finished(old, dataPtr, old.next)
<1>1. /\ current \in 1..Len(pages) /\ IsPage(old) /\ dataPtr \in Nat /\ Len(pages) \in Nat
      /\ IsSequence(pages) /\ \A p \in 1..Len(pages) : IsPage(pages[p])
  BY CurrentPage DEF LoaderInv, LoaderTypeOK, IsSequence
<1>2. IsPage(page) /\ page.cells = old.cells /\ page.end = dataPtr /\ page.next = old.next
  <2>1. old.next \in Nat
    BY <1>1 DEF IsPage
  <2>2. IsPage(old) /\ dataPtr \in Nat
    BY <1>1
  <2>. HIDE DEF old
  <2>3. IsPage(page)
    BY <2>1, <2>2, FinishedPage
  <2>. QED  BY <2>3 DEF Finished
<1>3. pages' = [pages EXCEPT ![current] = page] /\ pc' = "ready"
  BY DEF Finish
<1>. HIDE DEF page
<1>4. Len(pages') = Len(pages)
  BY <1>1, <1>2, <1>3, ReplacedPage, ZenonT(40)
<1>5. pages'[current] = page /\ \A p \in 1..Len(pages) : p # current => pages'[p] = pages[p]
  BY <1>1, <1>2, <1>3, ReplacedPage
<1>. QED  BY <1>1, <1>2, <1>3, <1>4, <1>5

LEMMA OrderFinish ==
    ASSUME LoaderInv, OrderInv, Finish
    PROVE  OrderInv'
<1>1. /\ UNCHANGED <<values, firstId, pos, current, dataPtr, ref, delta, pending>>
      /\ pc = "loop" /\ pc' \in {"ready", "crashed"}
  BY DEF Finish
<1>2. Id(Loaded)' = Id(Loaded)
  BY <1>1 DEF Loaded, InCallback, Id
<1>3. CASE current = Null
  <2>1. pages' = pages
    BY <1>3 DEF Finish
  <2>2. AllLinked'
    BY <1>1, <2>1 DEF OrderInv, AllLinked, Stop
  <2>. QED
    BY <1>1, <1>3, <2>2 DEF OrderInv, LastOnPage, DeltaNumber, PageFinished, InCallback
<1>4. CASE current # Null
  <2>. DEFINE page == pages'[current]
              old == pages[current]
  <2>1. /\ current \in 1..Len(pages) /\ Len(pages') = Len(pages)
        /\ \A p \in 1..Len(pages) : p # current => pages'[p] = pages[p]
        /\ page.cells = old.cells /\ page.end = dataPtr
    BY <1>4, LastPageFinished
  <2>2. AllLinked'
    <3>1. ASSUME NEW p \in 1..Len(pages)
          PROVE  CellsLinked(pages'[p], Stop(p)')
      <4>1. CellsLinked(pages[p], Stop(p)) /\ pages'[p].cells = pages[p].cells
        BY <2>1 DEF OrderInv, AllLinked
      <4>2. Stop(p)' = Stop(p)
        BY <1>1, <2>1 DEF Stop
      <4>. QED  BY <4>1, <4>2, SameCellsLinked
    <3>. QED  BY <3>1, <2>1 DEF AllLinked
  <2>3. LastOnPage'
    BY <1>1, <1>2, <2>1 DEF OrderInv, LastOnPage, IsLast
  <2>. QED
    BY <1>1, <2>1, <2>2, <2>3 DEF OrderInv, DeltaNumber, PageFinished, InCallback
<1>. QED  BY <1>3, <1>4

LEMMA OrderLoad ==
    ASSUME LoaderInv, OrderInv, NEW vs, NEW id, Load(vs, id)
    PROVE  OrderInv'
<1>1. pages' = pages /\ current' = Null /\ pc' = "loop" /\ pc \in {"ready", "threw"}
  BY DEF Load, AtRest
<1>2. ASSUME NEW p \in 1..Len(pages)
      PROVE  CellsLinked(pages[p], pages[p].end)
  <2>1. CellsLinked(pages[p], Stop(p)) /\ p # Null
    BY DEF OrderInv, AllLinked, Null
  <2>2. CASE p # current
    BY <2>1, <2>2 DEF Stop
  <2>3. CASE p = current /\ pages[p].end = dataPtr
    BY <2>1, <2>3 DEF Stop
  <2>4. CASE p = current /\ dataPtr = 0
    <3>1. \A o \in DOMAIN pages[p].cells : o < 0 /\ o \in Nat
      BY <2>1, <2>4 DEF LoaderInv, LoaderTypeOK, CurrentPageHolds, IsPage
    <3>. QED  BY <3>1 DEF CellsLinked
  <2>. QED  BY <2>1, <2>2, <2>3, <2>4, <1>1 DEF OrderInv, PageFinished, InCallback
<1>3. AllLinked'
  BY <1>1, <1>2 DEF AllLinked, Stop, Null
<1>. QED  BY <1>1, <1>3 DEF OrderInv, LastOnPage, DeltaNumber, PageFinished, InCallback

\* The steps that touch neither pages nor the variables of the loop.
LEMMA OrderElsewhere ==
    ASSUME OrderInv,
           UNCHANGED <<pages, values, firstId, current, dataPtr, ref, delta, pending>>,
           \/ pos' = pos /\ pc' = pc
           \/ pos' = pos /\ InCallback /\ InCallback'
           \/ pos' = pos + 1 /\ InCallback /\ pc' = "loop"
           \/ pos' = pos /\ pc # "loop" /\ ~InCallback /\ pc' # "loop" /\ ~InCallback',
           pos \in Nat
    PROVE  OrderInv'
<1>1. Loaded' = Loaded
  BY DEF Loaded, InCallback
<1>2. AllLinked'
  BY DEF OrderInv, AllLinked, Stop
<1>3. LastOnPage'
  BY <1>1 DEF OrderInv, LastOnPage, IsLast, Id
<1>4. DeltaNumber'
  BY DEF OrderInv, DeltaNumber, InCallback
<1>5. PageFinished'
  BY DEF OrderInv, PageFinished, InCallback
<1>. QED  BY <1>2, <1>3, <1>4, <1>5 DEF OrderInv

LEMMA OrderInit ==
    ASSUME LoaderInit
    PROVE  OrderInv
<1>1. Len(pages) = 0 /\ current = Null /\ pc = "ready"
  BY DEF LoaderInit
<1>. QED
  BY <1>1 DEF OrderInv, AllLinked, LastOnPage, DeltaNumber, PageFinished, InCallback

LEMMA OrderStep ==
    ASSUME FitsWidths, LoaderInv, OrderInv, [LoaderNext]_loaderVars
    PROVE  OrderInv'
<1>0. pos \in Nat
  BY DEF LoaderInv, LoaderTypeOK
<1>1. ASSUME NEW vs \in Inputs, Load(vs, 1)
      PROVE  OrderInv'
  BY <1>1, OrderLoad
<1>2. CASE StartPage
  BY <1>2, OrderStartPage
<1>3. CASE Throw
  BY <1>3, OrderThrow
<1>4. CASE AppendDelta
  BY <1>4, OrderAppendDelta DEF FitsWidths
<1>5. CASE Finish
  BY <1>5, OrderFinish
<1>6. CASE Return
  BY <1>0, <1>6, OrderElsewhere DEF Return, InCallback
<1>7. CASE UNCHANGED loaderVars
  BY <1>0, <1>7, OrderElsewhere DEF loaderVars
<1>. QED  BY <1>1, <1>2, <1>3, <1>4, <1>5, <1>6, <1>7 DEF LoaderNext, LoaderStep

-----------------------------------------------------------------------------
(* gotoDelta                                                               *)

\* Skipping n values from the start of a page leads to the cell whose id is n
\* more than the first: gotoDelta and gotoOffset meet there.
LEMMA GotoDeltaFinds ==
    ASSUME NEW p \in Nat \ {0}, IsPage(pages[p]), PageHolds(pages[p]),
           NEW stop, CellsLinked(pages[p], stop), NEW t \in DOMAIN pages[p].cells
    PROVE  GotoDelta(p, pages[p].cells[t].id - pages[p].cells[0].id) = GotoOffset(p, t)
<1>. DEFINE page == pages[p]
            id(o) == page.cells[o].id
            d == id(t) - id(0)
<1>1. 0 \in DOMAIN page.cells /\ \A o \in DOMAIN page.cells : page.cells[o].kind = "full" <=> o = 0
  BY DEF PageHolds
<1>2. \A o \in DOMAIN page.cells : o \in Nat /\ id(o) \in Nat
  BY DEF IsPage, Cells
<1>3. /\ \A o \in DOMAIN page.cells : id(o) - id(0) \in 0..o
      /\ \A o, x \in DOMAIN page.cells : id(x) = id(o) => x = o
      /\ \A o \in DOMAIN page.cells :
            \/ After(page, o) \in DOMAIN page.cells /\ id(After(page, o)) = id(o) + 1
            \/ IsLast(page, o)
  BY DEF CellsLinked
<1>4. d \in Nat /\ d = id(t) - id(0) /\ t \in DOMAIN page.cells
  BY <1>2, <1>3
<1>. HIDE DEF d
<1>5. \A o \in DOMAIN page.cells : id(o) < id(t) =>
         After(page, o) \in DOMAIN page.cells /\ id(After(page, o)) = id(o) + 1
  <2>. SUFFICES ASSUME NEW o \in DOMAIN page.cells, id(o) < id(t)
                PROVE  ~IsLast(page, o)
    BY <1>3
  <2>. QED  BY <1>2 DEF IsLast
<1>. DEFINE has(k) == \E o \in DOMAIN page.cells : id(o) = id(0) + k
            at(k) == CHOOSE o \in DOMAIN page.cells : id(o) = id(0) + k
<1>. HIDE DEF page
<1>6. \A k \in 0..d : has(k)
  <2>. DEFINE Bad == { k \in Nat : k <= d /\ ~has(k) }
  <2>1. SUFFICES ASSUME Bad # {}
                 PROVE  FALSE
    BY <1>4
  <2>2. PICK k \in Bad : \A m \in Bad : k <= m
    BY <2>1, LeastElement
  <2>3. k # 0 /\ k \in Nat /\ k <= d
    <3>1. has(0)
      BY <1>1, <1>2
    <3>. QED  BY <3>1
  <2>4. k - 1 \in Nat /\ k - 1 <= d /\ k - 1 \notin Bad
    <3>1. k - 1 \in Bad => k <= k - 1
      BY <2>2
    <3>. QED  BY <2>3, <3>1, <1>4
  <2>5. PICK o \in DOMAIN page.cells : id(o) = id(0) + (k - 1)
    BY <2>4
  <2>6. id(o) < id(t)
    BY <2>5, <2>3, <1>1, <1>2, <1>4
  <2>7. id(After(page, o)) = id(0) + k /\ After(page, o) \in DOMAIN page.cells
    BY <2>5, <2>6, <2>3, <1>1, <1>2, <1>5
  <2>. QED  BY <2>7, <2>2
<1>7. \A k \in 0..d : at(k) \in DOMAIN page.cells /\ id(at(k)) = id(0) + k
  BY <1>6
<1>. HIDE DEF at
<1>8. at(0) = 0 /\ at(d) = t
  <2>1. id(at(0)) = id(0) /\ id(at(d)) = id(t) /\ at(0) \in DOMAIN page.cells /\ at(d) \in DOMAIN page.cells
    BY <1>1, <1>2, <1>4, <1>7
  <2>2. \A o \in DOMAIN page.cells : \A x \in DOMAIN page.cells : id(x) = id(o) => x = o
    BY <1>3
  <2>. QED  BY <2>1, <2>2, <1>1, <1>4
<1>9. \A k \in 1..d : at(k) # 0 /\ After(page, at(k - 1)) = at(k)
  <2>. SUFFICES ASSUME NEW k \in 1..d
                PROVE  at(k) # 0 /\ After(page, at(k - 1)) = at(k)
    OBVIOUS
  <2>1. k - 1 \in 0..d /\ k \in 0..d
    BY <1>4
  <2>2. /\ id(at(k - 1)) = id(0) + (k - 1) /\ id(at(k)) = id(0) + k
        /\ at(k - 1) \in DOMAIN page.cells /\ at(k) \in DOMAIN page.cells
    BY <2>1, <1>7
  <2>3. id(at(k - 1)) < id(t)
    <3>1. id(0) + (k - 1) < id(0) + d /\ id(0) + d = id(t)
      BY <1>1, <1>2, <1>4
    <3>. QED  BY <2>2, <3>1
  <2>4. id(After(page, at(k - 1))) = id(at(k)) /\ After(page, at(k - 1)) \in DOMAIN page.cells
    BY <2>1, <2>2, <2>3, <1>1, <1>2, <1>5
  <2>. QED  BY <2>2, <2>4, <1>1, <1>2, <1>3
<1>. DEFINE start == [IteratorAt(p) EXCEPT !.off = 0]
            where(k) == [IteratorAt(p) EXCEPT !.off = at(k), !.base = p]
            walk == [k \in 0..d |-> IF k = 0 THEN start ELSE where(k)]
            skips(f) == f = [n \in 0..d |->
                               IF n = 0 THEN start
                               ELSE IF AtCell(f[n-1]) THEN SkipValue(f[n-1]) ELSE NullIterator]
<1>10. /\ start = IteratorAt(p)
       /\ start.page = p /\ start.off = 0 /\ start.base = Null /\ start.from = 0
       /\ start.nextPage = pages[p].next
  BY DEF IteratorAt
<1>11. ASSUME NEW k \in 1..d, NEW it, it = IF k = 1 THEN start ELSE where(k - 1)
       PROVE  AtCell(it) /\ SkipValue(it) = where(k)
  <2>1. k - 1 \in 0..d
    BY <1>4
  <2>2. it.page = p /\ it.off = at(k - 1)
    BY <1>8, <1>10, <1>11 DEF IteratorAt
  <2>3. AtCell(it)
    BY <2>1, <2>2, <1>7 DEF AtCell, Null, page
  <2>4. Cell(it) = page.cells[at(k - 1)]
    BY <2>2 DEF Cell, page
  <2>5. it.off + Occupied(Cell(it)) = at(k)
    BY <2>2, <2>4, <1>9 DEF After
  <2>6. CASE k = 1
    <3>1. Cell(it).kind = "full"
      BY <2>4, <2>6, <1>1, <1>8
    <3>2. Dereferenced(it) = [IteratorAt(p) EXCEPT !.base = p]
      BY <3>1, <2>6, <1>10, <1>11 DEF Dereferenced, IteratorAt
    <3>. QED  BY <2>3, <2>5, <3>2 DEF SkipValue, IteratorAt
  <2>7. CASE k # 1
    <3>1. k - 1 \in 1..d
      BY <2>7, <1>4
    <3>2. Cell(it).kind # "full"
      BY <2>1, <2>4, <3>1, <1>1, <1>7, <1>9
    <3>3. Dereferenced(it) = where(k - 1)
      BY <3>2, <2>7, <1>11 DEF Dereferenced
    <3>. QED  BY <2>3, <2>5, <3>3 DEF SkipValue, IteratorAt
  <2>. QED  BY <2>6, <2>7
<1>12. skips(walk)
  <2>1. ASSUME NEW n \in 0..d
        PROVE  walk[n] = IF n = 0 THEN start
                         ELSE IF AtCell(walk[n-1]) THEN SkipValue(walk[n-1]) ELSE NullIterator
    <3>1. CASE n = 0
      BY <3>1
    <3>2. CASE n # 0
      <4>1. n \in 1..d /\ n - 1 \in 0..d
        BY <3>2, <1>4
      <4>2. walk[n-1] = IF n = 1 THEN start ELSE where(n - 1)
        BY <4>1, <1>4
      <4>3. AtCell(walk[n-1]) /\ SkipValue(walk[n-1]) = where(n)
        BY <4>1, <4>2, <1>11
      <4>. QED  BY <4>3, <3>2
    <3>. QED  BY <3>1, <3>2
  <2>. QED  BY <2>1
<1>. DEFINE skip == CHOOSE f : skips(f)
<1>13. skips(skip)
  BY <1>12
<1>14. skip[d] = walk[d]
  <2>. DEFINE Bad == { k \in Nat : k <= d /\ skip[k] # walk[k] }
  <2>. HIDE DEF skip, start, where
  <2>1. SUFFICES ASSUME Bad # {}
                 PROVE  FALSE
    BY <1>4
  <2>2. PICK k \in Bad : \A m \in Bad : k <= m
    BY <2>1, LeastElement
  <2>3. k \in Nat /\ k <= d /\ skip[k] # walk[k]
    BY <2>2
  <2>4. k # 0
    BY <2>3, <1>4, <1>13
  <2>5. k - 1 \in Nat /\ k - 1 <= d /\ k - 1 \notin Bad
    <3>1. k - 1 \in Bad => k <= k - 1
      BY <2>2
    <3>. QED  BY <2>3, <2>4, <3>1, <1>4
  <2>6. skip[k-1] = walk[k-1]
    BY <2>5
  <2>7. skip[k] = IF AtCell(skip[k-1]) THEN SkipValue(skip[k-1]) ELSE NullIterator
    <3>1. k \in 0..d
      BY <2>3, <1>4
    <3>2. skip = [n \in 0..d |-> IF n = 0 THEN start
                                  ELSE IF AtCell(skip[n-1]) THEN SkipValue(skip[n-1]) ELSE NullIterator]
      BY <1>13
    <3>. QED  BY ONLY <2>4, <3>1, <3>2
  <2>8. walk[k] = IF AtCell(walk[k-1]) THEN SkipValue(walk[k-1]) ELSE NullIterator
    <3>1. k \in 0..d
      BY <2>3, <1>4
    <3>. HIDE DEF walk
    <3>. QED  BY <2>4, <3>1, <1>12
  <2>. QED  BY <2>3, <2>6, <2>7, <2>8
<1>15. GotoOffsetWithDelta(p, 0, d) = skip[d]
  BY DEF GotoOffsetWithDelta, skip
<1>16. walk[d] = IF t = 0 THEN start ELSE [IteratorAt(p) EXCEPT !.off = t, !.base = p]
  <2>. HIDE DEF start, where
  <2>0. d \in 0..d
    BY <1>4
  <2>1. t = 0 <=> d = 0
    BY <1>1, <1>2, <1>3, <1>4
  <2>2. d = 0 => walk[d] = start
    BY <2>0
  <2>3. d # 0 => walk[d] = where(d)
    BY <2>0
  <2>. HIDE DEF walk
  <2>4. where(d) = [IteratorAt(p) EXCEPT !.off = t, !.base = p]
    BY <1>8 DEF where
  <2>. QED  BY <2>1, <2>2, <2>3, <2>4
<1>17. AtCell(walk[d])
  <2>. HIDE DEF walk
  <2>1. walk[d].page = p /\ walk[d].off = t
    BY <1>10, <1>16 DEF IteratorAt
  <2>. QED  BY <2>1 DEF AtCell, Null, page
<1>. HIDE DEF walk, skip
<1>18. GotoDelta(p, d) = walk[d]
  BY <1>14, <1>15, <1>17 DEF GotoDelta
<1>19. GotoDelta(p, d) = GotoOffset(p, t)
  BY <1>10, <1>16, <1>18 DEF GotoOffset
<1>. QED  BY <1>19 DEF d, page

LEMMA InvReadsDelta ==
    ASSUME LoaderInv, OrderInv
    PROVE  DeltaReads
<1>. SUFFICES ASSUME InCallback
              PROVE  ReadsPending(GotoDelta(pending.page, pending.delta))
  BY DEF DeltaReads
<1>. DEFINE p == pending.page
            t == pending.offset
<1>1. /\ p \in 1..Len(pages) /\ t \in DOMAIN pages[p].cells
      /\ ReadsPending(GotoOffset(p, t))
  BY DEF LoaderInv, CallbackHolds
<1>2. /\ p \in Nat \ {0} /\ IsPage(pages[p]) /\ PageHolds(pages[p])
      /\ CellsLinked(pages[p], Stop(p))
  BY <1>1 DEF LoaderInv, LoaderTypeOK, PagesHold, OrderInv, AllLinked
<1>3. pending.id = pages[p].cells[t].id
  <2>1. GotoOffset(p, t).page = p /\ GotoOffset(p, t).off = t
    BY DEF GotoOffset, IteratorAt
  <2>. QED  BY <1>1, <2>1 DEF ReadsPending, GetId, Cell
<1>4. pending.delta = pages[p].cells[t].id - pages[p].cells[0].id
  BY <1>3 DEF OrderInv, DeltaNumber
<1>. HIDE DEF p, t
<1>5. GotoDelta(p, pages[p].cells[t].id - pages[p].cells[0].id) = GotoOffset(p, t)
  BY <1>1, <1>2, GotoDeltaFinds
<1>. QED  BY <1>1, <1>4, <1>5 DEF p, t

\* The cells of every page are linked and numbered, whatever is loaded.
LEMMA OrderInvariant ==
    ASSUME FitsWidths
    PROVE  LoaderSpec => [](LoaderInv /\ OrderInv)
<1>1. LoaderInit => LoaderInv /\ OrderInv
  BY HoldsInit, OrderInit
<1>2. LoaderInv /\ OrderInv /\ [LoaderNext]_loaderVars => (LoaderInv /\ OrderInv)'
  BY HoldsStep, OrderStep
<1>. QED  BY <1>1, <1>2, PTL DEF LoaderSpec

\* The number that Loader::call counts for a value leads to that value when
\* gotoDelta skips as many from the start of the page: the size fields that
\* operator++ follows never send it astray, and the counter, reset with every
\* page, never wraps (SingleUncompressedPage.hpp:52-97, Page.hpp:1036-1064).
THEOREM LoaderDeltasRead ==
    ASSUME FitsWidths
    PROVE  LoaderSpec => []DeltaReads
<1>1. LoaderInv /\ OrderInv => DeltaReads
  BY InvReadsDelta
<1>. QED  BY <1>1, OrderInvariant, PTL

-----------------------------------------------------------------------------
(* The chain of pages of one load                                          *)

\* Everything on the pages is one of the values loaded, under its id.
TextsHold ==
    \A p \in 1..Len(pages) : \A o \in DOMAIN pages[p].cells :
        \E k \in 1..Loaded :
            pages[p].cells[o].id = Id(k) /\ Text(pages[p], o) = values[k]

\* The last value of page number p and the first of the next one.
PageFollows(page, next, p) ==
    /\ page.next = p + 1
    /\ 0 \in DOMAIN page.cells
    /\ 0 \in DOMAIN next.cells =>
          \E o \in DOMAIN page.cells :
              IsLast(page, o) /\ next.cells[0].id = page.cells[o].id + 1

PagesFollow ==
    /\ current = Len(pages)
    /\ \A p \in 1..(Len(pages) - 1) : PageFollows(pages[p], pages[p+1], p)
    /\ Len(pages) # 0 => pages[Len(pages)].next = Null
    /\ Loaded # 0 => /\ Len(pages) # 0
                     /\ 0 \in DOMAIN pages[1].cells /\ pages[1].cells[0].id = Id(1)
    /\ dataPtr = 0 /\ Loaded # 0 =>
          /\ Len(pages) # 1
          /\ LET page == pages[Len(pages) - 1]
             IN  \A o \in DOMAIN page.cells : IsLast(page, o) => page.cells[o].id = Id(Loaded)

OneLoadInv == TextsHold /\ PagesFollow /\ PagesAreFull

LEMMA SameText ==
    ASSUME NEW page, NEW old, NEW o, page.cells[o] = old.cells[o], page.cells[0] = old.cells[0]
    PROVE  Text(page, o) = Text(old, o)
BY DEF Text

\* The id of every cell is below that of the value that is loaded next.
LEMMA IdsBelow ==
    ASSUME LoaderInv, TextsHold, pc = "loop",
           NEW p \in 1..Len(pages), NEW o \in DOMAIN pages[p].cells
    PROVE  /\ pages[p].cells[o].id \in Nat /\ pages[p].cells[o].id < Id(pos)
           /\ Loaded = pos - 1 /\ Loaded \in Nat
<1>1. pos \in Nat \ {0} /\ firstId \in Nat /\ Loaded = pos - 1
  BY DEF LoaderInv, LoaderTypeOK, Loaded, InCallback
<1>2. PICK k \in 1..Loaded : pages[p].cells[o].id = Id(k)
  BY DEF TextsHold
<1>. QED  BY <1>1, <1>2 DEF Id

LEMMA OneLoadStartPage ==
    ASSUME LoaderInv, OrderInv, OneLoadInv, StartPage
    PROVE  OneLoadInv'
<1>. DEFINE n == Len(pages) + 1
            new == pages'[n]
            v == values[pos]
<1>1. /\ Len(pages) \in Nat /\ Len(pages') = n
      /\ \A p \in 1..Len(pages) :
            /\ p # current => pages'[p] = pages[p]
            /\ p = current => /\ pages'[p].cells = pages[p].cells
                              /\ pages'[p].end = dataPtr /\ pages'[p].next = n
  BY PageStarted
<1>2. /\ IsPage(new) /\ new.next = Null /\ DOMAIN new.cells = {0} /\ current' = n
      /\ new.cells[0].kind = "full" /\ new.cells[0].id = Id(pos)
      /\ new.cells[0].str = v /\ new.cells[0].size = Len(v)
      /\ v \in Strings /\ Id(pos) \in Nat /\ dataPtr' # 0
  BY PageStarted
<1>3. /\ UNCHANGED <<values, firstId, pos>> /\ pc = "loop" /\ pc' = "callback"
      /\ pos \in Nat \ {0} /\ firstId \in Nat
      /\ current = Null \/ ~DeltaFits
  BY DEF StartPage, Looping, Call, LoaderInv, LoaderTypeOK
<1>4. Loaded = pos - 1 /\ Loaded' = pos /\ \A k : Id(k)' = Id(k)
  BY <1>3 DEF Loaded, InCallback, Id
<1>5. Text(new, 0) = v
  BY <1>2, WholeString DEF Text
<1>. HIDE DEF new
<1>6. \A p \in 1..Len(pages) : pages'[p].cells = pages[p].cells
  BY <1>1
<1>7. \A p \in 1..Len(pages') : p \in 1..Len(pages) \/ p = n
  BY <1>1
<1>8. TextsHold'
  <2>. SUFFICES ASSUME NEW p \in 1..Len(pages'), NEW o \in DOMAIN pages'[p].cells
                PROVE  \E k \in 1..pos :
                           pages'[p].cells[o].id = Id(k) /\ Text(pages'[p], o) = values[k]
    BY <1>3, <1>4 DEF TextsHold, Text, Id
  <2>1. CASE p \in 1..Len(pages)
    <3>1. PICK k \in 1..Loaded : pages[p].cells[o].id = Id(k) /\ Text(pages[p], o) = values[k]
      BY <2>1, <1>6 DEF OneLoadInv, TextsHold
    <3>2. Text(pages'[p], o) = Text(pages[p], o)
      BY <2>1, <1>6, SameText
    <3>3. k \in 1..pos
      BY <3>1, <1>3, <1>4
    <3>. QED  BY <2>1, <3>1, <3>2, <3>3, <1>6
  <2>2. CASE p = n
    <3>1. o = 0 /\ pages'[p] = new
      BY <2>2, <1>2 DEF new
    <3>2. pos \in 1..pos
      BY <1>3
    <3>. QED  BY <3>1, <3>2, <1>2, <1>5
  <2>. QED  BY <2>1, <2>2, <1>7
<1>9. current = Len(pages)
  BY DEF OneLoadInv, PagesFollow
<1>10. ASSUME current # Null
       PROVE  /\ current \in 1..Len(pages) /\ dataPtr # 0 /\ 0 \in DOMAIN pages[current].cells
              /\ pages[current].cells[0].str = ref
              /\ \E o \in DOMAIN pages[current].cells :
                     IsLast(pages[current], o) /\ pages[current].cells[o].id + 1 = Id(pos)
  <2>1. current \in 1..Len(pages) /\ dataPtr # 0 /\ 0 \in DOMAIN pages[current].cells
    BY <1>1, <1>3, <1>9, <1>10 DEF LoaderInv, CurrentPageHolds, Null
  <2>2. pages[current].cells[0].str = ref
    BY <2>1, <1>10 DEF LoaderInv, CurrentPageHolds
  <2>3. PICK o \in DOMAIN pages[current].cells :
           IsLast(pages[current], o) /\ pages[current].cells[o].id = Id(Loaded)
    BY <2>1, <1>10 DEF OrderInv, LastOnPage
  <2>4. Id(Loaded) + 1 = Id(pos)
    BY <1>3, <1>4 DEF Id
  <2>. QED  BY <2>1, <2>2, <2>3, <2>4
<1>11. PagesFollow'
  <2>1. ASSUME NEW p \in 1..(n - 1)
        PROVE  PageFollows(pages'[p], pages'[p+1], p)
    <3>1. CASE p = current
      <4>1. p + 1 = n /\ current # Null /\ pages'[p+1] = new
        BY <3>1, <1>1, <1>9 DEF new, Null
      <4>2. /\ pages'[p].next = p + 1 /\ pages'[p].cells = pages[p].cells
            /\ p \in 1..Len(pages)
        BY <3>1, <4>1, <1>1
      <4>3. PICK o \in DOMAIN pages[p].cells :
               IsLast(pages[p], o) /\ pages[p].cells[o].id + 1 = Id(pos)
        BY <3>1, <4>1, <1>10
      <4>4. IsLast(pages'[p], o)
        BY <4>2, <4>3 DEF IsLast
      <4>. QED  BY <3>1, <4>1, <4>2, <4>3, <4>4, <1>2, <1>10 DEF PageFollows
    <3>2. CASE p # current
      <4>1. p \in 1..(Len(pages) - 1) /\ p \in 1..Len(pages) /\ p + 1 \in 1..Len(pages)
        BY <3>2, <1>1, <1>9
      <4>2. pages'[p] = pages[p] /\ pages'[p+1].cells = pages[p+1].cells
        BY <3>2, <4>1, <1>1
      <4>3. PageFollows(pages[p], pages[p+1], p)
        BY <4>1 DEF OneLoadInv, PagesFollow
      <4>. QED  BY <4>2, <4>3 DEF PageFollows
    <3>. QED  BY <3>1, <3>2
  <2>2. pages'[Len(pages')].next = Null /\ n # 0
    BY <1>1, <1>2 DEF new
  <2>3. 0 \in DOMAIN pages'[1].cells /\ pages'[1].cells[0].id = Id(1)
    <3>1. CASE Len(pages) = 0
      <4>1. Loaded = 0 /\ pos = 1
        BY <3>1, <1>3, <1>4 DEF OneLoadInv, PagesFollow
      <4>. QED  BY <3>1, <4>1, <1>2 DEF new
    <3>2. CASE Len(pages) # 0
      <4>1. current # Null /\ 1 \in 1..Len(pages)
        BY <3>2, <1>1, <1>9 DEF Null
      <4>2. Loaded # 0
        <5>1. PICK o \in DOMAIN pages[current].cells : TRUE
          BY <4>1, <1>10
        <5>2. PICK k \in 1..Loaded : TRUE
          BY <4>1, <5>1, <1>10 DEF OneLoadInv, TextsHold
        <5>. QED  BY <5>2, <1>3, <1>4
      <4>. QED  BY <4>1, <4>2, <1>6 DEF OneLoadInv, PagesFollow
    <3>. QED  BY <3>1, <3>2
  <2>4. Id(1)' = Id(1)
    BY <1>4
  <2>. QED  BY <2>1, <2>2, <2>3, <2>4, <1>1, <1>2 DEF PagesFollow
<1>12. PagesAreFull'
  <2>. SUFFICES ASSUME NEW p \in 1..(n - 1), NEW k \in 1..pos,
                       0 \in DOMAIN pages'[p+1].cells, Id(k) = pages'[p+1].cells[0].id
                PROVE  pages'[p].end + DeltaHeader + DeltaLength(pages'[p].cells[0].str, values[k])
                         > EndOfPage
    BY <1>1, <1>3, <1>4 DEF PagesAreFull, EndOfPage, EndHeader, Id
  <2>1. CASE p = current
    <3>1. p + 1 = n /\ current # Null /\ p \in 1..Len(pages)
      BY <2>1, <1>1, <1>9 DEF Null
    <3>2. Id(k) = Id(pos)
      BY <3>1, <1>2 DEF new
    <3>3. k = pos
      BY <3>2, <1>3 DEF Id
    <3>4. pages'[p].end = dataPtr /\ pages'[p].cells[0].str = ref
      BY <2>1, <3>1, <1>1, <1>10
    <3>5. dataPtr + DeltaHeader + DeltaLength(ref, v) \in Int /\ EndOfPage \in Int
      <4>1. DeltaLength(ref, v) \in Int /\ dataPtr \in Int
        <5>1. PrefixLength(ref, v) \in Nat /\ Len(v) \in Nat
          BY <1>2, PrefixLengthProperties DEF LoaderInv, LoaderTypeOK, Strings
        <5>. QED  BY <5>1, StringRangeAssumption DEF DeltaLength, LoaderInv, LoaderTypeOK
      <4>. QED  BY <4>1, PageSizeAssumption DEF DeltaHeader, EndOfPage, EndHeader
    <3>6. ~(dataPtr + DeltaHeader + DeltaLength(ref, v) <= EndOfPage)
      BY <3>1, <1>3 DEF DeltaFits
    <3>. QED  BY <3>3, <3>4, <3>5, <3>6
  <2>2. CASE p # current
    <3>1. p \in 1..(Len(pages) - 1) /\ p \in 1..Len(pages) /\ p + 1 \in 1..Len(pages)
      BY <2>2, <1>1, <1>9
    <3>2. pages'[p] = pages[p] /\ pages'[p+1].cells = pages[p+1].cells
      BY <2>2, <3>1, <1>1
    <3>3. Id(k) < Id(pos)
      BY <3>1, <3>2, <1>3, IdsBelow DEF OneLoadInv
    <3>4. k \in 1..Loaded
      BY <3>3, <1>3, <1>4 DEF Id
    <3>. QED  BY <3>1, <3>2, <3>4 DEF OneLoadInv, PagesAreFull
  <2>. QED  BY <2>1, <2>2
<1>. QED  BY <1>8, <1>11, <1>12 DEF OneLoadInv

LEMMA OneLoadThrow ==
    ASSUME LoaderInv, OrderInv, OneLoadInv, Throw
    PROVE  OneLoadInv'
<1>. DEFINE n == Len(pages) + 1
<1>1. /\ Len(pages') = n /\ pages'[n] = EmptyPage
      /\ \A p \in 1..Len(pages) :
            /\ p # current => pages'[p] = pages[p]
            /\ p = current => /\ pages'[p].cells = pages[p].cells
                              /\ pages'[p].end = dataPtr /\ pages'[p].next = n
  BY EmptyPageProperties, NewPageLinked DEF LoaderInv, Throw
<1>2. /\ UNCHANGED <<values, firstId, pos>> /\ pc = "loop" /\ pc' = "threw" /\ current' = n
      /\ Len(pages) \in Nat /\ EmptyPage.next = Null /\ DOMAIN EmptyPage.cells = {}
  BY DEF Throw, Looping, LoaderInv, LoaderTypeOK, IsSequence, EmptyPage
<1>3. Loaded' = Loaded /\ \A k : Id(k)' = Id(k)
  BY <1>2 DEF Loaded, InCallback, Id
<1>4. \A p \in 1..Len(pages) : pages'[p].cells = pages[p].cells
  BY <1>1
<1>5. \A p \in 1..Len(pages') : p \in 1..Len(pages) \/ p = n
  BY <1>1, <1>2
<1>6. current = Len(pages)
  BY DEF OneLoadInv, PagesFollow
<1>7. TextsHold'
  <2>. SUFFICES ASSUME NEW p \in 1..Len(pages'), NEW o \in DOMAIN pages'[p].cells
                PROVE  \E k \in 1..Loaded :
                           pages'[p].cells[o].id = Id(k) /\ Text(pages'[p], o) = values[k]
    BY <1>2, <1>3 DEF TextsHold, Text, Id
  <2>1. p \in 1..Len(pages)
    BY <1>1, <1>2, <1>5
  <2>2. PICK k \in 1..Loaded : pages[p].cells[o].id = Id(k) /\ Text(pages[p], o) = values[k]
    BY <2>1, <1>4 DEF OneLoadInv, TextsHold
  <2>3. Text(pages'[p], o) = Text(pages[p], o)
    BY <2>1, <1>4, SameText
  <2>. QED  BY <2>1, <2>2, <2>3, <1>4
<1>8. PagesFollow'
  <2>1. ASSUME NEW p \in 1..(n - 1)
        PROVE  PageFollows(pages'[p], pages'[p+1], p)
    <3>1. CASE p = current
      <4>1. p + 1 = n /\ p \in 1..Len(pages) /\ current # Null
        BY <3>1, <1>2, <1>6 DEF Null
      <4>2. 0 \in DOMAIN pages[current].cells
        BY <4>1, <1>2 DEF LoaderInv, CurrentPageHolds
      <4>. QED  BY <3>1, <4>1, <4>2, <1>1, <1>2 DEF PageFollows
    <3>2. CASE p # current
      <4>1. p \in 1..(Len(pages) - 1) /\ p \in 1..Len(pages) /\ p + 1 \in 1..Len(pages)
        BY <3>2, <1>2, <1>6
      <4>2. pages'[p] = pages[p] /\ pages'[p+1].cells = pages[p+1].cells
        BY <3>2, <4>1, <1>1
      <4>3. PageFollows(pages[p], pages[p+1], p)
        BY <4>1 DEF OneLoadInv, PagesFollow
      <4>. QED  BY <4>2, <4>3 DEF PageFollows
    <3>. QED  BY <3>1, <3>2
  <2>2. pages'[Len(pages')].next = Null /\ n # 0
    BY <1>1, <1>2
  <2>3. Loaded # 0 => 0 \in DOMAIN pages'[1].cells /\ pages'[1].cells[0].id = Id(1)
    <3>1. Loaded # 0 => 1 \in 1..Len(pages)
      BY <1>2 DEF OneLoadInv, PagesFollow
    <3>. QED  BY <3>1, <1>4 DEF OneLoadInv, PagesFollow
  <2>5. ASSUME Loaded # 0
        PROVE  /\ n # 1
               /\ \A o \in DOMAIN pages'[n-1].cells :
                     IsLast(pages'[n-1], o) => pages'[n-1].cells[o].id = Id(Loaded)
    <3>1. Len(pages) # 0 /\ current # Null /\ n # 1 /\ current = n - 1 /\ current \in 1..Len(pages)
      BY <2>5, <1>2, <1>6 DEF OneLoadInv, PagesFollow, Null
    <3>2. dataPtr # 0
      BY <3>1, <1>2 DEF LoaderInv, CurrentPageHolds
    <3>3. PICK last \in DOMAIN pages[current].cells :
             IsLast(pages[current], last) /\ pages[current].cells[last].id = Id(Loaded)
      BY <3>1, <3>2 DEF OrderInv, LastOnPage
    <3>4. ASSUME NEW o \in DOMAIN pages[current].cells, IsLast(pages[current], o)
          PROVE  pages[current].cells[o].id = Id(Loaded)
      <4>1. pages[current].cells[o].id \in Nat /\ pages[current].cells[last].id \in Nat
        BY <3>1, CurrentPage DEF LoaderInv, IsPage, Cells
      <4>. QED  BY <4>1, <3>3, <3>4 DEF IsLast
    <3>5. pages'[n-1].cells = pages[current].cells
      BY <3>1, <1>4
    <3>. QED  BY <3>1, <3>4, <3>5 DEF IsLast
  <2>6. PagesFollow' <=>
          /\ current' = n
          /\ \A p \in 1..(n - 1) : PageFollows(pages'[p], pages'[p+1], p)
          /\ n # 0 => pages'[n].next = Null
          /\ Loaded # 0 => /\ n # 0
                           /\ 0 \in DOMAIN pages'[1].cells /\ pages'[1].cells[0].id = Id(1)
          /\ dataPtr' = 0 /\ Loaded # 0 =>
                /\ n # 1
                /\ \A o \in DOMAIN pages'[n-1].cells :
                      IsLast(pages'[n-1], o) => pages'[n-1].cells[o].id = Id(Loaded)
    BY <1>1, <1>2, <1>3 DEF PagesFollow, IsLast, Id
  <2>. QED  BY <2>1, <2>2, <2>3, <2>5, <2>6, <1>1, <1>2
<1>9. PagesAreFull'
  <2>. SUFFICES ASSUME NEW p \in 1..(n - 1), NEW k \in 1..Loaded,
                       0 \in DOMAIN pages'[p+1].cells, Id(k) = pages'[p+1].cells[0].id
                PROVE  pages'[p].end + DeltaHeader + DeltaLength(pages'[p].cells[0].str, values[k])
                         > EndOfPage
    BY <1>1, <1>2, <1>3 DEF PagesAreFull, EndOfPage, EndHeader, Id
  <2>1. p + 1 # n
    BY <1>1, <1>2
  <2>2. p # current /\ p \in 1..(Len(pages) - 1) /\ p \in 1..Len(pages) /\ p + 1 \in 1..Len(pages)
    BY <2>1, <1>2, <1>6
  <2>3. pages'[p] = pages[p] /\ pages'[p+1].cells = pages[p+1].cells
    BY <2>2, <1>1
  <2>. QED  BY <2>2, <2>3 DEF OneLoadInv, PagesAreFull
<1>. QED  BY <1>7, <1>8, <1>9 DEF OneLoadInv

LEMMA OneLoadAppendDelta ==
    ASSUME LoaderInv, OrderInv, OneLoadInv, AppendDelta, PageSize <= OffsetRange
    PROVE  OneLoadInv'
<1>. DEFINE old == pages[current]
            page == pages'[current]
            v == values[pos]
            cell == DeltaCell(Id(pos), ref, v)
<1>1. /\ current \in 1..Len(pages) /\ Len(pages') = Len(pages) /\ Len(pages) \in Nat
      /\ \A p \in 1..Len(pages) : p # current => pages'[p] = pages[p]
      /\ page.end = old.end /\ page.next = old.next
      /\ DOMAIN page.cells = (DOMAIN old.cells) \union {dataPtr}
      /\ page.cells[dataPtr] = cell
      /\ \A o \in DOMAIN old.cells : page.cells[o] = old.cells[o]
      /\ 0 \in DOMAIN old.cells /\ old.cells[0].str = ref
      /\ dataPtr \in Nat /\ dataPtr' \in Nat /\ dataPtr < dataPtr'
  BY CellWritten
<1>2. /\ cell.kind = "delta" /\ cell.id = Id(pos)
      /\ SubSeq(ref, 1, cell.prefix) \o SubSeq(cell.str, 1, cell.size) = v
  BY CellWritten
<1>. HIDE DEF cell, page, old
<1>3. /\ UNCHANGED <<values, firstId, pos, current>> /\ pc = "loop" /\ pc' = "callback"
      /\ pos \in Nat \ {0} /\ firstId \in Nat
  BY DEF AppendDelta, Looping, Call, LoaderInv, LoaderTypeOK
<1>4. Loaded = pos - 1 /\ Loaded' = pos /\ \A k : Id(k)' = Id(k)
  BY <1>3 DEF Loaded, InCallback, Id
<1>5. Text(page, dataPtr) = v /\ page.cells[dataPtr].id = Id(pos)
  <2>1. page.cells[0].str = ref
    BY <1>1
  <2>. QED  BY <2>1, <1>1, <1>2 DEF Text
<1>6. /\ current = Len(pages)
      /\ \A p \in 1..(Len(pages) - 1) : PageFollows(pages[p], pages[p+1], p)
      /\ old.next = Null
  BY <1>1 DEF OneLoadInv, PagesFollow, old
<1>7. TextsHold'
  <2>. SUFFICES ASSUME NEW p \in 1..Len(pages'), NEW o \in DOMAIN pages'[p].cells
                PROVE  \E k \in 1..pos :
                           pages'[p].cells[o].id = Id(k) /\ Text(pages'[p], o) = values[k]
    BY <1>3, <1>4 DEF TextsHold, Text, Id
  <2>0. p \in 1..Len(pages)
    BY <1>1
  <2>1. CASE o \in DOMAIN pages[p].cells
    <3>1. PICK k \in 1..Loaded : pages[p].cells[o].id = Id(k) /\ Text(pages[p], o) = values[k]
      BY <2>0, <2>1 DEF OneLoadInv, TextsHold
    <3>2. pages'[p].cells[o] = pages[p].cells[o] /\ Text(pages'[p], o) = Text(pages[p], o)
      <4>1. CASE p = current
        <5>1. page.cells[o] = old.cells[o] /\ page.cells[0] = old.cells[0]
          BY <2>1, <4>1, <1>1 DEF old
        <5>. QED  BY <4>1, <5>1, SameText DEF page, old
      <4>2. CASE p # current
        BY <2>0, <4>2, <1>1
      <4>. QED  BY <4>1, <4>2
    <3>3. k \in 1..pos
      BY <3>1, <1>3, <1>4
    <3>. QED  BY <3>1, <3>2, <3>3
  <2>2. CASE o \notin DOMAIN pages[p].cells
    <3>1. p = current
      BY <2>0, <2>2, <1>1
    <3>2. o = dataPtr
      BY <2>2, <3>1, <1>1 DEF page, old
    <3>3. pos \in 1..pos
      BY <1>3
    <3>. QED  BY <3>1, <3>2, <3>3, <1>5 DEF page
  <2>. QED  BY <2>1, <2>2
<1>8. ASSUME NEW p \in 1..(Len(pages) - 1)
      PROVE  /\ pages'[p] = pages[p] /\ p + 1 \in 1..Len(pages)
             /\ 0 \in DOMAIN pages'[p+1].cells => /\ 0 \in DOMAIN pages[p+1].cells
                                                 /\ pages'[p+1].cells[0] = pages[p+1].cells[0]
  <2>1. p # current /\ p \in 1..Len(pages) /\ p + 1 \in 1..Len(pages)
    BY <1>1, <1>6
  <2>2. CASE p + 1 = current
    BY <2>1, <2>2, <1>1 DEF page, old
  <2>3. CASE p + 1 # current
    BY <2>1, <2>3, <1>1
  <2>. QED  BY <2>1, <2>2, <2>3, <1>1
<1>9. PagesFollow'
  <2>1. ASSUME NEW p \in 1..(Len(pages) - 1)
        PROVE  PageFollows(pages'[p], pages'[p+1], p)
    <3>1. PageFollows(pages[p], pages[p+1], p)
      BY <1>6
    <3>. QED  BY <3>1, <1>8 DEF PageFollows
  <2>2. pages'[Len(pages')].next = Null /\ Len(pages) # 0
    BY <1>1, <1>6 DEF page
  <2>3. 0 \in DOMAIN pages'[1].cells /\ pages'[1].cells[0].id = Id(1)
    <3>0. Loaded # 0 /\ 1 \in 1..Len(pages)
      <4>1. PICK k \in 1..Loaded : TRUE
        BY <1>1 DEF OneLoadInv, TextsHold, old
      <4>. QED  BY <4>1, <1>1, <1>3, <1>4
    <3>1. 0 \in DOMAIN pages[1].cells /\ pages[1].cells[0].id = Id(1)
      BY <3>0 DEF OneLoadInv, PagesFollow
    <3>2. CASE current = 1
      BY <3>1, <3>2, <1>1 DEF page, old
    <3>3. CASE current # 1
      BY <3>0, <3>1, <3>3, <1>1
    <3>. QED  BY <3>2, <3>3
  <2>4. Id(1)' = Id(1) /\ dataPtr' # 0
    BY <1>1, <1>4
  <2>. QED  BY <2>1, <2>2, <2>3, <2>4, <1>1, <1>3, <1>6 DEF PagesFollow
<1>10. PagesAreFull'
  <2>. SUFFICES ASSUME NEW p \in 1..(Len(pages) - 1), NEW k \in 1..pos,
                       0 \in DOMAIN pages'[p+1].cells, Id(k) = pages'[p+1].cells[0].id
                PROVE  pages'[p].end + DeltaHeader + DeltaLength(pages'[p].cells[0].str, values[k])
                         > EndOfPage
    BY <1>1, <1>3, <1>4 DEF PagesAreFull, EndOfPage, EndHeader, Id
  <2>1. /\ pages'[p] = pages[p] /\ p + 1 \in 1..Len(pages)
        /\ 0 \in DOMAIN pages[p+1].cells /\ Id(k) = pages[p+1].cells[0].id
    BY <1>8
  <2>2. Id(k) < Id(pos)
    BY <2>1, <1>3, IdsBelow DEF OneLoadInv
  <2>3. k \in 1..Loaded
    BY <2>2, <1>3, <1>4 DEF Id
  <2>. QED  BY <2>1, <2>3 DEF OneLoadInv, PagesAreFull
<1>. QED  BY <1>7, <1>9, <1>10 DEF OneLoadInv

LEMMA OneLoadFinish ==
    ASSUME LoaderInv, OneLoadInv, Finish
    PROVE  OneLoadInv'
<1>1. /\ UNCHANGED <<values, firstId, pos, current>> /\ pc = "loop"
      /\ pc' \in {"ready", "crashed"} /\ Len(pages) \in Nat
  BY DEF Finish, LoaderInv, LoaderTypeOK, IsSequence
<1>2. Loaded' = Loaded /\ \A k : Id(k)' = Id(k)
  BY <1>1 DEF Loaded, InCallback, Id
<1>3. CASE current = Null
  <2>1. pages' = pages
    BY <1>3 DEF Finish
  <2>2. TextsHold' /\ PagesFollow'
    <3>1. dataPtr' = dataPtr
      BY DEF Finish
    <3>. QED  BY <1>1, <1>2, <2>1, <3>1 DEF OneLoadInv, TextsHold, Text, PagesFollow, IsLast
  <2>3. PagesAreFull'
    BY <1>1, <1>2, <2>1 DEF OneLoadInv, PagesAreFull, EndOfPage, EndHeader
  <2>. QED  BY <2>2, <2>3 DEF OneLoadInv
<1>4. CASE current # Null
  <2>1. /\ current \in 1..Len(pages) /\ Len(pages') = Len(pages) /\ current = Len(pages)
        /\ \A p \in 1..Len(pages) : p # current => pages'[p] = pages[p]
        /\ pages'[current].cells = pages[current].cells
        /\ pages'[current].next = pages[current].next
    BY <1>4, LastPageFinished DEF OneLoadInv, PagesFollow
  <2>2. \A p \in 1..Len(pages) : pages'[p].cells = pages[p].cells
    BY <2>1
  <2>3. \A p \in 1..(Len(pages) - 1) : /\ pages'[p] = pages[p] /\ p + 1 \in 1..Len(pages)
                                       /\ pages'[p+1].cells = pages[p+1].cells
    <3>1. \A p \in 1..(Len(pages) - 1) : p \in 1..Len(pages) /\ p # current /\ p + 1 \in 1..Len(pages)
      BY <2>1, <1>1
    <3>. QED  BY <3>1, <2>1, <2>2
  <2>4. TextsHold'
    <3>1. \A p \in 1..Len(pages) : \A o : Text(pages'[p], o) = Text(pages[p], o)
      BY <2>2, SameText
    <3>. QED  BY <3>1, <2>1, <2>2, <1>1, <1>2, SMTT(30) DEF OneLoadInv, TextsHold
  <2>5. PagesFollow'
    <3>1. ASSUME NEW p \in 1..(Len(pages) - 1)
          PROVE  PageFollows(pages'[p], pages'[p+1], p)
      <4>1. PageFollows(pages[p], pages[p+1], p)
        BY DEF OneLoadInv, PagesFollow
      <4>. QED  BY <4>1, <2>3 DEF PageFollows
    <3>2. Loaded # 0 => 1 \in 1..Len(pages)
      BY <1>1 DEF OneLoadInv, PagesFollow, IsLast
    <3>3. dataPtr' # 0
      BY <1>1, <1>4 DEF Finish, LoaderInv, CurrentPageHolds
    <3>. QED  BY <3>1, <3>2, <3>3, <2>1, <2>2, <1>1, <1>2 DEF OneLoadInv, PagesFollow
  <2>6. PagesAreFull'
    BY <2>1, <2>3, <1>1, <1>2 DEF OneLoadInv, PagesAreFull, EndOfPage, EndHeader
  <2>. QED  BY <2>4, <2>5, <2>6 DEF OneLoadInv
<1>. QED  BY <1>3, <1>4

LEMMA OneLoadLoad ==
    ASSUME Len(pages) = 0, NEW vs, NEW id, Load(vs, id)
    PROVE  OneLoadInv'
<1>1. Len(pages') = 0 /\ current' = 0 /\ pos' = 1 /\ pc' = "loop"
  BY DEF Load, Null
<1>2. Loaded' = 0
  BY <1>1 DEF Loaded, InCallback
<1>. QED  BY <1>1, <1>2 DEF OneLoadInv, TextsHold, PagesFollow, PagesAreFull

\* The steps that touch neither pages nor the variables of the loop.
LEMMA OneLoadElsewhere ==
    ASSUME OneLoadInv,
           UNCHANGED <<pages, values, firstId, current, dataPtr, ref, delta, pending>>,
           \/ pos' = pos /\ pc' = pc
           \/ pos' = pos /\ InCallback /\ InCallback'
           \/ pos' = pos + 1 /\ InCallback /\ pc' = "loop"
           \/ pos' = pos /\ pc # "loop" /\ ~InCallback /\ pc' # "loop" /\ ~InCallback',
           pos \in Nat
    PROVE  OneLoadInv'
<1>1. Loaded' = Loaded /\ \A k : Id(k)' = Id(k)
  BY DEF Loaded, InCallback, Id
<1>2. TextsHold'
  BY <1>1 DEF OneLoadInv, TextsHold, Text
<1>3. PagesFollow'
  BY <1>1 DEF OneLoadInv, PagesFollow, IsLast
<1>4. PagesAreFull'
  BY <1>1 DEF OneLoadInv, PagesAreFull, EndOfPage, EndHeader
<1>. QED  BY <1>2, <1>3, <1>4 DEF OneLoadInv

LEMMA OneLoadStep ==
    ASSUME FitsWidths, LoaderInv, OrderInv, OneLoadInv, [LoaderNext]_loaderVars
    PROVE  OneLoadInv'
<1>0. pos \in Nat
  BY DEF LoaderInv, LoaderTypeOK
<1>1. ASSUME NEW vs \in Inputs, pages = <<>>, Load(vs, 1)
      PROVE  OneLoadInv'
  <2>1. Len(pages) = 0
    BY <1>1
  <2>. QED  BY <1>1, <2>1, OneLoadLoad
<1>2. CASE StartPage
  BY <1>2, OneLoadStartPage
<1>3. CASE Throw
  BY <1>3, OneLoadThrow
<1>4. CASE AppendDelta
  BY <1>4, OneLoadAppendDelta DEF FitsWidths
<1>5. CASE Finish
  BY <1>5, OneLoadFinish
<1>6. CASE Return
  BY <1>0, <1>6, OneLoadElsewhere DEF Return, InCallback
<1>7. CASE UNCHANGED loaderVars
  BY <1>0, <1>7, OneLoadElsewhere DEF loaderVars
<1>. QED  BY <1>1, <1>2, <1>3, <1>4, <1>5, <1>6, <1>7 DEF LoaderNext, LoaderStep

LEMMA OneLoadInit ==
    ASSUME LoaderInit
    PROVE  OneLoadInv
<1>1. Len(pages) = 0 /\ current = 0 /\ pos = 1 /\ pc = "ready"
  BY DEF LoaderInit, Null
<1>2. Loaded = 0
  BY <1>1 DEF Loaded, InCallback
<1>. QED  BY <1>1, <1>2 DEF OneLoadInv, TextsHold, PagesFollow, PagesAreFull

\* A load that ends has written something.
EndsOnPage == pc = "ready" /\ current # Null => dataPtr # 0

LEMMA EndsOnPageStep ==
    ASSUME LoaderInv, EndsOnPage, [LoaderNext]_loaderVars
    PROVE  EndsOnPage'
<1>1. CASE Finish
  BY <1>1 DEF Finish, EndsOnPage, LoaderInv, CurrentPageHolds
<1>2. CASE StartPage \/ AppendDelta \/ Throw \/ Return
  BY <1>2 DEF StartPage, AppendDelta, Throw, Return, Call, EndsOnPage
<1>3. CASE \E vs \in Inputs : Load(vs, 1)
  BY <1>3 DEF Load, EndsOnPage
<1>4. CASE UNCHANGED loaderVars
  BY <1>4 DEF loaderVars, EndsOnPage
<1>. QED  BY <1>1, <1>2, <1>3, <1>4 DEF LoaderNext, LoaderStep

ChainInv == LoaderInv /\ OrderInv /\ OneLoadInv /\ EndsOnPage

\* The invariant behind the two theorems below.
LEMMA OneLoadInvariant ==
    ASSUME FitsWidths
    PROVE  LoaderSpec => []ChainInv
<1>1. LoaderInit => ChainInv
  BY HoldsInit, OrderInit, OneLoadInit DEF ChainInv, EndsOnPage, LoaderInit
<1>2. ChainInv /\ [LoaderNext]_loaderVars => ChainInv'
  BY HoldsStep, OrderStep, OneLoadStep, EndsOnPageStep DEF ChainInv
<1>. QED  BY <1>1, <1>2, PTL DEF LoaderSpec

\* A page is left only for a value whose delta would not have fitted, whatever
\* the page size and however the strings are cut into pages
\* (SingleUncompressedPage.hpp:52-97).
THEOREM LoaderFillsPages ==
    ASSUME FitsWidths
    PROVE  LoaderSpec => []PagesAreFull
<1>1. ChainInv => PagesAreFull
  BY DEF ChainInv, OneLoadInv
<1>. QED  BY <1>1, OneLoadInvariant, PTL

-----------------------------------------------------------------------------
(* Walking the chain with operator++                                       *)

\* An iterator that stands on a cell and remembers page number b as the one
\* with the uncompressed value.
Standing(p, o, b) ==
    [page |-> p, off |-> o, nextPage |-> pages[p].next, base |-> b, from |-> 0]

LEMMA StandingReads ==
    ASSUME LoaderInv, NEW p \in 1..Len(pages), NEW o \in DOMAIN pages[p].cells,
           NEW b, o # 0 => b = p
    PROVE  LET it == Standing(p, o, b)
           IN  /\ AtCell(it) /\ HasValue(it) /\ GetId(it) = pages[p].cells[o].id
               /\ Dereferenced(it) = Standing(p, o, p)
               /\ GetId(Dereferenced(it)) = pages[p].cells[o].id
               /\ GetValue(Dereferenced(it)) = Text(pages[p], o)
<1>. DEFINE it == Standing(p, o, b)
            cell == pages[p].cells[o]
<1>1. IsPage(pages[p]) /\ PageHolds(pages[p]) /\ p \in Nat \ {0}
  BY DEF LoaderInv, LoaderTypeOK, PagesHold, IsSequence
<1>2. cell.kind \in {"full", "delta"} /\ (cell.kind = "full" <=> o = 0)
  BY <1>1 DEF IsPage, PageHolds, Cells
<1>3. it.page = p /\ it.off = o /\ it.base = b /\ it.from = 0 /\ Cell(it) = cell
  BY DEF Standing, Cell
<1>4. AtCell(it) /\ HasValue(it) /\ GetId(it) = cell.id
  BY <1>1, <1>2, <1>3 DEF AtCell, HasValue, GetId, Null
<1>5. Dereferenced(it) = Standing(p, o, p)
  <2>1. CASE o = 0
    BY <2>1, <1>2, <1>3 DEF Dereferenced, Standing
  <2>2. CASE o # 0
    BY <2>2, <1>2, <1>3 DEF Dereferenced, Standing
  <2>. QED  BY <2>1, <2>2
<1>6. GetId(Standing(p, o, p)) = cell.id /\ GetValue(Standing(p, o, p)) = Text(pages[p], o)
  BY DEF GetId, GetValue, Cell, Standing, Text
<1>. QED  BY <1>4, <1>5, <1>6

\* operator++ goes from one value of the load to the next one.
LEMMA StandingSteps ==
    ASSUME LoaderInv, OrderInv, OneLoadInv,
           NEW p \in 1..Len(pages), NEW o \in DOMAIN pages[p].cells,
           NEW k \in 1..Loaded, k # Loaded, pages[p].cells[o].id = Id(k)
    PROVE  \E q \in 1..Len(pages) : \E x \in DOMAIN pages[q].cells :
              /\ pages[q].cells[x].id = Id(k + 1)
              /\ x # 0 => q = p
              /\ Increment(Standing(p, o, p)) = Standing(q, x, p)
<1>. DEFINE page == pages[p]
            past == [Standing(p, o, p) EXCEPT !.off = After(page, o)]
<1>1. /\ IsPage(page) /\ PageHolds(page) /\ p \in Nat \ {0} /\ Len(pages) \in Nat
      /\ CellsLinked(page, Stop(p))
      /\ firstId \in Nat \ {0} /\ Loaded \in Nat
  BY DEF LoaderInv, LoaderTypeOK, PagesHold, OrderInv, AllLinked, IsSequence, Loaded, InCallback
<1>2. Id(k + 1) = Id(k) + 1 /\ Id(k) < Id(Loaded) /\ Id(k) \in Nat /\ Id(Loaded) \in Nat
  BY <1>1 DEF Id
<1>3. Increment(Standing(p, o, p)) =
         IF AtCell(past) THEN past
         ELSE IF AtEnd(past) /\ past.nextPage # Null THEN NextPage(past)
         ELSE NullIterator
  BY DEF Increment, Cell, Standing, After
<1>4. past = Standing(p, After(page, o), p)
  BY DEF Standing
<1>5. CASE After(page, o) \in DOMAIN page.cells /\ page.cells[After(page, o)].id = Id(k) + 1
  <2>1. AtCell(past)
    BY <1>1, <1>4, <1>5 DEF AtCell, Standing, Null
  <2>2. Increment(Standing(p, o, p)) = Standing(p, After(page, o), p)
    BY <2>1, <1>3, <1>4
  <2>. QED  BY <2>2, <1>2, <1>5
<1>6. CASE After(page, o) = Stop(p) /\ IsLast(page, o)
  <2>1. p # Len(pages)
    <3>. SUFFICES ASSUME p = current, p = Len(pages)
                  PROVE  FALSE
      BY DEF OneLoadInv, PagesFollow
    <3>1. dataPtr # 0 /\ current # Null
      BY <1>1 DEF LoaderInv, LoaderTypeOK, CurrentPageHolds, IsPage, Null
    <3>2. PICK last \in DOMAIN page.cells : page.cells[last].id = Id(Loaded)
      BY <3>1 DEF OrderInv, LastOnPage
    <3>. QED  BY <3>2, <1>2, <1>6 DEF IsLast
  <2>2. p \in 1..(Len(pages) - 1) /\ p + 1 \in 1..Len(pages) /\ p # current
    BY <2>1, <1>1 DEF OneLoadInv, PagesFollow
  <2>3. PageFollows(page, pages[p+1], p)
    BY <2>2 DEF OneLoadInv, PagesFollow
  <2>4. 0 \in DOMAIN pages[p+1].cells
    <3>1. CASE p + 1 # Len(pages)
      <4>1. p + 1 \in 1..(Len(pages) - 1)
        BY <3>1, <2>2, <1>1
      <4>. QED  BY <4>1 DEF OneLoadInv, PagesFollow, PageFollows
    <3>2. CASE p + 1 = Len(pages)
      <4>1. current = p + 1 /\ current # Null
        BY <3>2, <1>1 DEF OneLoadInv, PagesFollow, Null
      <4>2. dataPtr # 0
        <5>. SUFFICES ASSUME dataPtr = 0
                      PROVE  FALSE
          OBVIOUS
        <5>1. Len(pages) - 1 = p /\ Loaded # 0
          BY <3>2, <1>1
        <5>2. page.cells[o].id = Id(Loaded)
          BY <5>1, <1>6 DEF OneLoadInv, PagesFollow
        <5>. QED  BY <5>2, <1>2
      <4>. QED  BY <4>1, <4>2 DEF LoaderInv, CurrentPageHolds
    <3>. QED  BY <3>1, <3>2
  <2>5. pages[p+1].cells[0].id = Id(k + 1)
    <3>1. PICK last \in DOMAIN page.cells :
             IsLast(page, last) /\ pages[p+1].cells[0].id = page.cells[last].id + 1
      BY <2>3, <2>4 DEF PageFollows
    <3>2. page.cells[last].id \in Nat /\ page.cells[o].id \in Nat
      BY <1>1 DEF IsPage, Cells
    <3>3. page.cells[last].id = page.cells[o].id
      BY <3>1, <3>2, <1>6 DEF IsLast
    <3>. QED  BY <3>1, <3>3, <1>2
  <2>6. After(page, o) \notin DOMAIN page.cells
    <3>1. \A x \in DOMAIN page.cells : x \in Nat /\ x < Stop(p)
      BY <1>1 DEF CellsLinked, IsPage
    <3>. QED  BY <3>1, <1>6
  <2>7. ~AtCell(past) /\ AtEnd(past) /\ past.nextPage = p + 1
    <3>1. past.page = p /\ past.off = After(page, o) /\ past.nextPage = page.next
      BY <1>4 DEF Standing
    <3>2. Stop(p) = page.end /\ page.next = p + 1
      BY <2>2, <2>3 DEF Stop, PageFollows
    <3>. QED  BY <3>1, <3>2, <2>6, <1>1, <1>6 DEF AtCell, AtEnd, Null
  <2>8. NextPage(past) = Standing(p + 1, 0, p)
    <3>1. NextPage(past) = [past EXCEPT !.page = p + 1, !.off = 0, !.nextPage = pages[p+1].next]
      BY <2>7 DEF NextPage
    <3>. HIDE DEF past
    <3>. QED  BY <3>1, <1>4 DEF Standing
  <2>9. Increment(Standing(p, o, p)) = Standing(p + 1, 0, p)
    BY <2>2, <2>7, <2>8, <1>1, <1>3 DEF Null
  <2>. QED  BY <2>2, <2>4, <2>5, <2>9
<1>. QED  BY <1>1, <1>5, <1>6 DEF CellsLinked

\* The cells that hold the first m values of the load, in the order in which
\* operator++ meets them: their pages and their offsets.
Path(m, P, O) ==
    \A k \in 1..m :
        /\ P[k] \in 1..Len(pages) /\ O[k] \in DOMAIN pages[P[k]].cells
        /\ pages[P[k]].cells[O[k]].id = Id(k)
        /\ k = 1 => P[k] = 1 /\ O[k] = 0
        /\ k # 1 => /\ O[k] # 0 => P[k] = P[k-1]
                    /\ Increment(Standing(P[k-1], O[k-1], P[k-1]))
                         = Standing(P[k], O[k], P[k-1])

LEMMA PathExists ==
    ASSUME LoaderInv, OrderInv, OneLoadInv
    PROVE  \E P, O \in [1..Loaded -> Nat] : Path(Loaded, P, O)
<1>. DEFINE HasPath(m) == \E P, O \in [1..m -> Nat] : Path(m, P, O)
            Bad == { m \in Nat : m <= Loaded /\ ~HasPath(m) }
<1>0. Loaded \in Nat /\ Len(pages) \in Nat /\ \A p \in 1..Len(pages) : IsPage(pages[p])
  BY DEF Loaded, InCallback, LoaderInv, LoaderTypeOK, IsSequence
<1>1. SUFFICES ASSUME Bad # {}
               PROVE  FALSE
  <2>1. SUFFICES HasPath(Loaded)
    OBVIOUS
  <2>. HIDE DEF HasPath
  <2>. QED  BY <1>0
<1>2. PICK m \in Bad : \A n \in Bad : m <= n
  BY <1>1, LeastElement
<1>3. m \in Nat /\ m <= Loaded /\ ~HasPath(m)
  BY <1>2
<1>4. m # 0
  <2>. DEFINE none == [k \in 1..0 |-> 0]
  <2>1. none \in [1..0 -> Nat] /\ Path(0, none, none)
    BY DEF Path
  <2>. QED  BY <2>1, <1>3
<1>5. m # 1
  <2>. DEFINE P == [k \in 1..1 |-> 1]
              O == [k \in 1..1 |-> 0]
  <2>. SUFFICES ASSUME m = 1
                PROVE  FALSE
    OBVIOUS
  <2>1. P \in [1..1 -> Nat] /\ O \in [1..1 -> Nat] /\ P[1] = 1 /\ O[1] = 0 /\ 1..1 = {1}
    OBVIOUS
  <2>2. 1 \in 1..Len(pages) /\ 0 \in DOMAIN pages[1].cells /\ pages[1].cells[0].id = Id(1)
    BY <1>0, <1>3 DEF OneLoadInv, PagesFollow
  <2>. HIDE DEF P, O
  <2>3. Path(1, P, O)
    BY <2>1, <2>2 DEF Path
  <2>. QED  BY <2>1, <2>3, <1>3
<1>6. m - 1 \in Nat /\ m - 1 # 0 /\ HasPath(m - 1)
  <2>1. m - 1 \in Nat /\ m - 1 # 0 /\ m - 1 <= Loaded
    BY <1>0, <1>3, <1>4, <1>5
  <2>2. m - 1 \notin Bad
    <3>. HIDE DEF Bad
    <3>1. m - 1 \in Bad => m <= m - 1
      BY <1>2
    <3>. QED  BY <3>1, <1>3
  <2>. QED  BY <2>1, <2>2
<1>7. PICK P \in [1..(m-1) -> Nat], O \in [1..(m-1) -> Nat] : Path(m - 1, P, O)
  BY <1>6
<1>8. m - 1 \in 1..(m-1) /\ m - 1 \in 1..Loaded /\ m - 1 # Loaded /\ (m - 1) + 1 = m
  BY <1>0, <1>3, <1>6
<1>9. /\ P[m-1] \in 1..Len(pages) /\ O[m-1] \in DOMAIN pages[P[m-1]].cells
      /\ pages[P[m-1]].cells[O[m-1]].id = Id(m - 1)
  BY <1>7, <1>8 DEF Path
<1>10. PICK q \in 1..Len(pages) : \E x \in DOMAIN pages[q].cells :
          /\ pages[q].cells[x].id = Id(m)
          /\ x # 0 => q = P[m-1]
          /\ Increment(Standing(P[m-1], O[m-1], P[m-1])) = Standing(q, x, P[m-1])
  <2>. DEFINE p == P[m-1]
              o == O[m-1]
              k == m - 1
  <2>1. /\ p \in 1..Len(pages) /\ o \in DOMAIN pages[p].cells /\ k \in 1..Loaded /\ k # Loaded
        /\ pages[p].cells[o].id = Id(k) /\ k + 1 = m
    BY <1>8, <1>9
  <2>. HIDE DEF p, o, k
  <2>2. \E q \in 1..Len(pages) : \E x \in DOMAIN pages[q].cells :
              /\ pages[q].cells[x].id = Id(k + 1)
              /\ x # 0 => q = p
              /\ Increment(Standing(p, o, p)) = Standing(q, x, p)
    BY <2>1, StandingSteps
  <2>. QED  BY <2>1, <2>2 DEF p, o
<1>11. PICK x \in DOMAIN pages[q].cells :
          /\ pages[q].cells[x].id = Id(m)
          /\ x # 0 => q = P[m-1]
          /\ Increment(Standing(P[m-1], O[m-1], P[m-1])) = Standing(q, x, P[m-1])
  BY <1>10
<1>. DEFINE P2 == [k \in 1..m |-> IF k = m THEN q ELSE P[k]]
            O2 == [k \in 1..m |-> IF k = m THEN x ELSE O[k]]
<1>12. /\ P2 \in [1..m -> Nat] /\ O2 \in [1..m -> Nat]
       /\ P2[m] = q /\ O2[m] = x
       /\ \A k \in 1..(m-1) : P2[k] = P[k] /\ O2[k] = O[k]
  <2>1. q \in Nat /\ x \in Nat
    <3>1. IsPage(pages[q]) /\ q \in Nat
      BY <1>0
    <3>. QED  BY <3>1 DEF IsPage
  <2>2. \A k \in 1..m : k # m => k \in 1..(m-1)
    BY <1>3
  <2>3. \A k \in 1..(m-1) : k # m /\ k \in 1..m
    BY <1>3
  <2>4. m \in 1..m
    BY <1>3, <1>4
  <2>. QED  BY <2>1, <2>2, <2>3, <2>4
<1>. HIDE DEF P2, O2
<1>13. Path(m, P2, O2)
  <2>. SUFFICES ASSUME NEW k \in 1..m
                PROVE  /\ P2[k] \in 1..Len(pages) /\ O2[k] \in DOMAIN pages[P2[k]].cells
                       /\ pages[P2[k]].cells[O2[k]].id = Id(k)
                       /\ k = 1 => P2[k] = 1 /\ O2[k] = 0
                       /\ k # 1 => /\ O2[k] # 0 => P2[k] = P2[k-1]
                                   /\ Increment(Standing(P2[k-1], O2[k-1], P2[k-1]))
                                        = Standing(P2[k], O2[k], P2[k-1])
    BY DEF Path
  <2>1. CASE k = m
    <3>1. P2[k-1] = P[m-1] /\ O2[k-1] = O[m-1] /\ k # 1
      BY <2>1, <1>5, <1>8, <1>12
    <3>. QED  BY <2>1, <3>1, <1>11, <1>12
  <2>2. CASE k # m
    <3>1. k \in 1..(m-1) /\ (k # 1 => k - 1 \in 1..(m-1))
      BY <2>2, <1>3
    <3>2. P2[k] = P[k] /\ O2[k] = O[k] /\ (k # 1 => P2[k-1] = P[k-1] /\ O2[k-1] = O[k-1])
      BY <3>1, <1>12
    <3>. QED  BY <3>1, <3>2, <1>7 DEF Path
  <2>. QED  BY <2>1, <2>2
<1>. QED  BY <1>3, <1>12, <1>13

\* Repeated ++ follows the path, and the step after its end is one more ++.
LEMMA WalkFollowsPath ==
    ASSUME LoaderInv, OrderInv, OneLoadInv, Len(pages) # 0,
           NEW P \in [1..Loaded -> Nat], NEW O \in [1..Loaded -> Nat], Path(Loaded, P, O)
    PROVE  LET walk == Walk(Loaded + 1)
           IN  /\ \A k \in 1..Loaded :
                     walk[k] = Standing(P[k], O[k], IF k = 1 THEN Null ELSE P[k-1])
               /\ Loaded # 0 => walk[Loaded + 1]
                                  = Increment(Standing(P[Loaded], O[Loaded], P[Loaded]))
<1>. DEFINE n == Loaded + 1
            at(k) == Standing(P[k], O[k], IF k = 1 THEN Null ELSE P[k-1])
            last == IF Loaded = 0 THEN IteratorAt(1)
                    ELSE Increment(Standing(P[Loaded], O[Loaded], P[Loaded]))
            next(f, k) == IF HasValue(f[k-1]) THEN Increment(Dereferenced(f[k-1])) ELSE NullIterator
            walks(f) == f = [k \in 1..n |-> IF k = 1 THEN IteratorAt(1)
                                            ELSE IF HasValue(f[k-1])
                                                 THEN Increment(Dereferenced(f[k-1]))
                                                 ELSE NullIterator]
            g == [k \in 1..n |-> IF k = n THEN last ELSE at(k)]
<1>1. Loaded \in Nat /\ Len(pages) \in Nat /\ n \in Nat /\ n # 0 /\ n = Loaded + 1
  BY DEF Loaded, InCallback, LoaderInv, LoaderTypeOK, IsSequence
<1>. HIDE DEF n
<1>2. ASSUME NEW k \in 1..Loaded
      PROVE  HasValue(at(k)) /\ Dereferenced(at(k)) = Standing(P[k], O[k], P[k])
  <2>1. /\ P[k] \in 1..Len(pages) /\ O[k] \in DOMAIN pages[P[k]].cells
        /\ k = 1 => P[k] = 1 /\ O[k] = 0
        /\ k # 1 => (O[k] # 0 => P[k] = P[k-1])
    BY DEF Path
  <2>. DEFINE b == IF k = 1 THEN Null ELSE P[k-1]
              p == P[k]
              o == O[k]
  <2>2. o # 0 => b = p
    BY <2>1
  <2>3. p \in 1..Len(pages) /\ o \in DOMAIN pages[p].cells
    BY <2>1
  <2>. HIDE DEF b, p, o
  <2>4. HasValue(Standing(p, o, b)) /\ Dereferenced(Standing(p, o, b)) = Standing(p, o, p)
    BY <2>2, <2>3, StandingReads
  <2>. QED  BY <2>4 DEF b, p, o
<1>3. ASSUME NEW k \in 1..Loaded, k # 1
      PROVE  k - 1 \in 1..Loaded /\ Increment(Standing(P[k-1], O[k-1], P[k-1])) = at(k)
  BY <1>3, <1>1 DEF Path
<1>4. Loaded # 0 => at(1) = IteratorAt(1)
  <2>. SUFFICES ASSUME Loaded # 0
                PROVE  at(1) = IteratorAt(1)
    OBVIOUS
  <2>1. P[1] = 1 /\ O[1] = 0
    BY <1>1 DEF Path
  <2>. QED  BY <2>1 DEF Standing, IteratorAt
<1>. HIDE DEF at
<1>5. \A k \in 1..Loaded : g[k] = at(k) /\ k \in 1..n /\ k # n
  BY <1>1
<1>6. g[n] = last
  BY <1>1
<1>. HIDE DEF g
<1>7. ASSUME NEW k \in 1..n
      PROVE  g[k] = IF k = 1 THEN IteratorAt(1) ELSE next(g, k)
  <2>1. CASE k = n /\ k = 1
    <3>. HIDE DEF last, next, walks
    <3>1. n = 1
      BY <2>1
    <3>2. Loaded = 0
      BY <3>1, <1>1
    <3>3. last = IteratorAt(1)
      BY <3>2 DEF last
    <3>. QED  BY <2>1, <3>3, <1>6
  <2>2. CASE k = n /\ k # 1
    <3>1. Loaded \in 1..Loaded /\ k - 1 = Loaded /\ Loaded # 0
      BY <2>2, <1>1
    <3>2. g[k-1] = at(Loaded)
      BY <3>1, <1>5
    <3>3. HasValue(g[k-1]) /\ Dereferenced(g[k-1]) = Standing(P[Loaded], O[Loaded], P[Loaded])
      BY <3>1, <3>2, <1>2
    <3>4. g[k] = Increment(Standing(P[Loaded], O[Loaded], P[Loaded]))
      BY <2>2, <3>1, <1>6
    <3>. QED  BY <2>2, <3>3, <3>4
  <2>3. CASE k # n /\ k = 1
    <3>1. 1 \in 1..Loaded /\ Loaded # 0
      BY <2>3, <1>1
    <3>. QED  BY <2>3, <3>1, <1>4, <1>5
  <2>4. CASE k # n /\ k # 1
    <3>1. k \in 1..Loaded
      BY <2>4, <1>1
    <3>2. g[k-1] = at(k-1) /\ k - 1 \in 1..Loaded /\ g[k] = at(k)
      BY <2>4, <3>1, <1>3, <1>5
    <3>3. HasValue(at(k-1)) /\ Dereferenced(at(k-1)) = Standing(P[k-1], O[k-1], P[k-1])
      BY <3>2, <1>2
    <3>. QED  BY <2>4, <3>1, <3>2, <3>3, <1>3
  <2>. QED  BY <2>1, <2>2, <2>3, <2>4
<1>8. g = [k \in 1..n |-> g[k]]
  BY DEF g
<1>9. walks(g)
  BY <1>7, <1>8
<1>. DEFINE walk == CHOOSE f : walks(f)
<1>10. walks(walk)
  BY <1>9
<1>11. Walk(n) = walk
  BY DEF Walk
<1>. HIDE DEF walk
<1>12. \A k \in 1..n : walk[k] = g[k]
  <2>. DEFINE Bad == { k \in Nat : k \in 1..n /\ walk[k] # g[k] }
  <2>1. SUFFICES ASSUME Bad # {}
                 PROVE  FALSE
    OBVIOUS
  <2>2. PICK k \in Bad : \A m \in Bad : k <= m
    BY <2>1, LeastElement
  <2>3. k \in 1..n /\ k \in Nat /\ walk[k] # g[k]
    BY <2>2
  <2>4. k # 1
    BY <2>3, <1>7, <1>10
  <2>5. k - 1 \in 1..n /\ walk[k-1] = g[k-1]
    <3>1. k - 1 \in 1..n /\ k - 1 \in Nat
      BY <2>3, <2>4, <1>1
    <3>2. k - 1 \notin Bad
      <4>. HIDE DEF Bad
      <4>1. k - 1 \in Bad => k <= k - 1
        BY <2>2
      <4>. QED  BY <2>3, <4>1
    <3>. QED  BY <3>1, <3>2
  <2>6. walk[k] = next(walk, k)
    BY <2>3, <2>4, <1>10
  <2>7. g[k] = next(g, k)
    BY <2>3, <2>4, <1>7
  <2>8. next(walk, k) = next(g, k)
    BY ONLY <2>5
  <2>. QED  BY ONLY <2>3, <2>6, <2>7, <2>8
<1>13. /\ \A k \in 1..Loaded : walk[k] = at(k)
       /\ walk[n] = last
  BY <1>1, <1>5, <1>6, <1>12
<1>. QED  BY <1>1, <1>11, <1>13 DEF n, at

LEMMA InvWalks ==
    ASSUME ChainInv
    PROVE  ChainHoldsInput
<1>. USE DEF ChainInv
<1>. SUFFICES ASSUME pages # <<>>
              PROVE  LET walk == Walk(Loaded + 1)
                     IN  /\ \A k \in 1..Loaded :
                               /\ HasValue(walk[k])
                               /\ GetId(walk[k]) = Id(k)
                               /\ GetValue(Dereferenced(walk[k])) = values[k]
                         /\ pc = "ready" => ~Valid(walk[Loaded + 1])
  BY DEF ChainHoldsInput
<1>. DEFINE walk == Walk(Loaded + 1)
<1>1. Len(pages) # 0 /\ Len(pages) \in Nat /\ Loaded \in Nat /\ firstId \in Nat
  <2>1. Len(pages) \in Nat /\ pages = [i \in 1..Len(pages) |-> pages[i]] /\ Loaded \in Nat
        /\ firstId \in Nat
    BY DEF Loaded, InCallback, LoaderInv, LoaderTypeOK, IsSequence
  <2>2. pages \in Seq({ pages[i] : i \in 1..Len(pages) })
    <3>. DEFINE T == { pages[i] : i \in 1..Len(pages) }
    <3>1. pages \in [1..Len(pages) -> T]
      BY <2>1
    <3>. QED  BY <2>1, <3>1, SeqDef
  <2>. QED  BY <2>1, <2>2, EmptySeq
<1>2. PICK P \in [1..Loaded -> Nat], O \in [1..Loaded -> Nat] : Path(Loaded, P, O)
  BY PathExists
<1>3. /\ \A k \in 1..Loaded :
             walk[k] = Standing(P[k], O[k], IF k = 1 THEN Null ELSE P[k-1])
      /\ Loaded # 0 => walk[Loaded + 1]
                         = Increment(Standing(P[Loaded], O[Loaded], P[Loaded]))
  BY <1>1, <1>2, WalkFollowsPath
<1>. HIDE DEF walk
<1>4. ASSUME NEW k \in 1..Loaded
      PROVE  /\ HasValue(walk[k]) /\ GetId(walk[k]) = Id(k)
             /\ GetValue(Dereferenced(walk[k])) = values[k]
  <2>. DEFINE b == IF k = 1 THEN Null ELSE P[k-1]
              p == P[k]
              o == O[k]
  <2>1. /\ p \in 1..Len(pages) /\ o \in DOMAIN pages[p].cells
        /\ pages[p].cells[o].id = Id(k) /\ (o # 0 => b = p)
    BY <1>2 DEF Path
  <2>2. walk[k] = Standing(p, o, b)
    BY <1>3
  <2>. HIDE DEF b, p, o
  <2>3. /\ HasValue(Standing(p, o, b)) /\ GetId(Standing(p, o, b)) = Id(k)
        /\ GetValue(Dereferenced(Standing(p, o, b))) = Text(pages[p], o)
    BY <2>1, StandingReads
  <2>4. PICK j \in 1..Loaded : pages[p].cells[o].id = Id(j) /\ Text(pages[p], o) = values[j]
    BY <2>1 DEF OneLoadInv, TextsHold
  <2>5. j = k
    BY <2>1, <2>4, <1>1 DEF Id
  <2>. QED  BY <2>2, <2>3, <2>4, <2>5
<1>5. ASSUME pc = "ready"
      PROVE  ~Valid(walk[Loaded + 1])
  <2>1. current = Len(pages) /\ current # Null /\ dataPtr # 0
    BY <1>1, <1>5 DEF OneLoadInv, PagesFollow, EndsOnPage, Null
  <2>2. PICK last \in DOMAIN pages[current].cells :
           IsLast(pages[current], last) /\ pages[current].cells[last].id = Id(Loaded)
    BY <2>1 DEF OrderInv, LastOnPage
  <2>3. Loaded # 0
    <3>1. current \in 1..Len(pages)
      BY <2>1, <1>1
    <3>2. PICK k \in 1..Loaded : TRUE
      BY <2>2, <3>1 DEF OneLoadInv, TextsHold
    <3>. QED  BY <3>2, <1>1
  <2>. DEFINE p == P[Loaded]
              o == O[Loaded]
              page == pages[p]
              past == [Standing(p, o, p) EXCEPT !.off = After(page, o)]
  <2>4. /\ p \in 1..Len(pages) /\ o \in DOMAIN page.cells /\ page.cells[o].id = Id(Loaded)
    BY <2>3, <1>1, <1>2 DEF Path
  <2>5. /\ IsPage(page) /\ CellsLinked(page, Stop(p)) /\ Id(Loaded) \in Nat
        /\ \A q \in 1..Len(pages) : \A x \in DOMAIN pages[q].cells :
              pages[q].cells[x].id \in Nat /\ pages[q].cells[x].id <= Id(Loaded)
    <3>1. IsPage(page) /\ CellsLinked(page, Stop(p)) /\ Id(Loaded) \in Nat
      BY <2>4, <1>1 DEF LoaderInv, LoaderTypeOK, OrderInv, AllLinked, Id
    <3>2. ASSUME NEW q \in 1..Len(pages), NEW x \in DOMAIN pages[q].cells
          PROVE  pages[q].cells[x].id \in Nat /\ pages[q].cells[x].id <= Id(Loaded)
      <4>1. PICK k \in 1..Loaded : pages[q].cells[x].id = Id(k)
        BY DEF OneLoadInv, TextsHold
      <4>. QED  BY <4>1, <1>1 DEF Id
    <3>. QED  BY <3>1, <3>2
  <2>. HIDE DEF p, o
  <2>6. p = current
    <3>. SUFFICES ASSUME p # current
                  PROVE  FALSE
      OBVIOUS
    <3>1. p \in 1..(Len(pages) - 1) /\ p + 1 \in 1..Len(pages)
      BY <2>1, <2>4, <1>1
    <3>2. PageFollows(page, pages[p+1], p)
      BY <3>1 DEF OneLoadInv, PagesFollow
    <3>3. 0 \in DOMAIN pages[p+1].cells
      <4>1. CASE p + 1 = current
        BY <2>1, <4>1 DEF LoaderInv, CurrentPageHolds
      <4>2. CASE p + 1 # current
        <5>1. p + 1 \in 1..(Len(pages) - 1)
          BY <4>2, <2>1, <3>1, <1>1
        <5>. QED  BY <5>1 DEF OneLoadInv, PagesFollow, PageFollows
      <4>. QED  BY <4>1, <4>2
    <3>4. PICK l \in DOMAIN page.cells :
             IsLast(page, l) /\ pages[p+1].cells[0].id = page.cells[l].id + 1
      BY <3>2, <3>3 DEF PageFollows
    <3>5. Id(Loaded) <= page.cells[l].id
      BY <2>4, <3>4 DEF IsLast
    <3>6. page.cells[l].id \in Nat /\ pages[p+1].cells[0].id <= Id(Loaded)
      BY <2>4, <2>5, <3>1, <3>3
    <3>. QED  BY <2>5, <3>4, <3>5, <3>6
  <2>7. /\ After(page, o) = page.end /\ After(page, o) \notin DOMAIN page.cells
        /\ page.next = Null
    <3>1. Stop(p) = dataPtr /\ page.end = dataPtr
      BY <2>1, <2>6, <1>5 DEF Stop, OrderInv, PageFinished, InCallback
    <3>2. page.next = Null
      BY <2>1, <2>6, <1>1 DEF OneLoadInv, PagesFollow
    <3>3. After(page, o) = Stop(p)
      <4>1. \/ /\ After(page, o) \in DOMAIN page.cells
               /\ page.cells[After(page, o)].id = page.cells[o].id + 1
            \/ After(page, o) = Stop(p)
        BY <2>4, <2>5 DEF CellsLinked
      <4>. QED  BY <4>1, <2>4, <2>5
    <3>4. \A x \in DOMAIN page.cells : x \in Nat /\ x < Stop(p)
      BY <2>5 DEF CellsLinked, IsPage
    <3>. QED  BY <3>1, <3>2, <3>3, <3>4
  <2>8. Increment(Standing(p, o, p)) = NullIterator
    <3>1. past.page = p /\ past.off = After(page, o) /\ past.nextPage = Null
      BY <2>7 DEF Standing
    <3>2. ~AtCell(past) /\ past.nextPage = Null
      BY <3>1, <2>7 DEF AtCell
    <3>3. Increment(Standing(p, o, p)) =
             IF AtCell(past) THEN past
             ELSE IF AtEnd(past) /\ past.nextPage # Null THEN NextPage(past)
             ELSE NullIterator
      BY DEF Increment, Cell, Standing, After
    <3>. HIDE DEF past
    <3>. QED  BY <3>2, <3>3
  <2>9. walk[Loaded + 1] = NullIterator
    BY <2>3, <2>8, <1>3 DEF p, o
  <2>. QED  BY <2>9 DEF Valid, AtCell, AtEnd, NullIterator
<1>. QED  BY <1>4, <1>5 DEF walk

\* Repeated ++ from the first value gives the values of the load with their
\* ids, in the order of the input and across page ends, at every moment of a
\* load and after one that was cut short; after a complete one it then stops
\* (Page.hpp:300-331).
THEOREM LoaderKeepsInput ==
    ASSUME FitsWidths
    PROVE  LoaderSpec => []ChainHoldsInput
<1>1. ChainInv => ChainHoldsInput
  BY InvWalks
<1>. QED  BY <1>1, OneLoadInvariant, PTL

-----------------------------------------------------------------------------
(* The dictionary.                                                         *)

\* The addresses of all pages fit in a leaf, beside the number and the tag.
Addressable == AddressFits(Len(pages))

-----------------------------------------------------------------------------
(* What a leaf leads to, as a function of the pages and of the strategy.   *)
CellsAt(ps, leaf) == ps[LeafPage(leaf)].cells

\* The leaf holds the offset of a cell, or how many values are in front of it.
Means(ps, by, leaf, o) ==
    /\ o \in DOMAIN CellsAt(ps, leaf)
    /\ IF by = "offset" THEN LeafOffset(leaf) = o
       ELSE LeafOffset(leaf) = CellsAt(ps, leaf)[o].id - CellsAt(ps, leaf)[0].id

Place(ps, by, leaf) == CHOOSE o \in DOMAIN CellsAt(ps, leaf) : Means(ps, by, leaf, o)

Leads(ps, by, leaf) ==
    /\ LeafPage(leaf) \in 1..Len(ps)
    /\ 0 \in DOMAIN CellsAt(ps, leaf)
    /\ \E o \in DOMAIN CellsAt(ps, leaf) : Means(ps, by, leaf, o)

TextAt(ps, by, leaf) == Text(ps[LeafPage(leaf)], Place(ps, by, leaf))
IdAt(ps, by, leaf)   == CellsAt(ps, leaf)[Place(ps, by, leaf)].id

\* No two cells of a page have the same id.
Numbered(ps) ==
    \A p \in 1..Len(ps) : \A o \in DOMAIN ps[p].cells :
        /\ ps[p].cells[o].id \in Nat
        /\ \A x \in DOMAIN ps[p].cells : ps[p].cells[x].id = ps[p].cells[o].id => x = o

\* Values are added to pages, and nothing that is on one changes.
Grown(ps, qs) ==
    \A p \in 1..Len(ps) :
        /\ p \in 1..Len(qs)
        /\ \A o \in DOMAIN ps[p].cells : o \in DOMAIN qs[p].cells /\ qs[p].cells[o] = ps[p].cells[o]

\* The loader's invariant, and the ids that are given out already.
LoadInv ==
    /\ LoaderInv /\ OrderInv
    /\ nextId = firstId + Len(values) /\ pos <= Len(values) + 1
    /\ DOMAIN index \subseteq 1..(Id(pos) - 1)
    /\ pc = "indexed" => pending.value \in DOMAIN reverseIndex

\* Both indexes lead to what they were given, and to each other's entries.
LeafInv ==
    LET by == build.strategy
    IN  /\ \A s \in DOMAIN reverseIndex :
              LET leaf == reverseIndex[s]
              IN  /\ Leads(pages, by, leaf) /\ TextAt(pages, by, leaf) = s
                  /\ \/ /\ IdAt(pages, by, leaf) \in DOMAIN index
                        /\ index[IdAt(pages, by, leaf)] = leaf
                     \/ pc = "indexed" /\ s = pending.value /\ leaf = PendingLeaf
        /\ \A i \in DOMAIN index :
              LET s == TextAt(pages, by, index[i])
              IN  /\ Leads(pages, by, index[i]) /\ IdAt(pages, by, index[i]) = i
                  /\ s \in DOMAIN reverseIndex /\ IdAt(pages, by, reverseIndex[s]) <= i

DictionaryInv == LoadInv /\ (Addressable => LeafInv)

-----------------------------------------------------------------------------
(* Leaves and pages.                                                       *)

LEMMA Meant ==
    ASSUME NEW ps, NEW by, NEW leaf, Numbered(ps), LeafPage(leaf) \in 1..Len(ps),
           0 \in DOMAIN CellsAt(ps, leaf), NEW o, Means(ps, by, leaf, o)
    PROVE  o \in DOMAIN CellsAt(ps, leaf) /\ Place(ps, by, leaf) = o
<1>. DEFINE id(x) == CellsAt(ps, leaf)[x].id
<1>1. o \in DOMAIN CellsAt(ps, leaf)
  BY DEF Means
<1>2. ASSUME NEW x \in DOMAIN CellsAt(ps, leaf), Means(ps, by, leaf, x)
      PROVE  x = o
  <2>1. CASE by = "offset"
    BY <1>2, <2>1 DEF Means
  <2>2. CASE by # "offset"
    <3>1. id(x) \in Nat /\ id(o) \in Nat /\ id(0) \in Nat /\ (id(x) = id(o) => x = o)
      BY <1>1 DEF Numbered, CellsAt
    <3>2. id(x) - id(0) = id(o) - id(0)
      BY <1>2, <2>2 DEF Means
    <3>. QED  BY <3>1, <3>2
  <2>. QED  BY <2>1, <2>2
<1>. QED  BY <1>1, <1>2 DEF Place

LEMMA LeadsOn ==
    ASSUME NEW ps, NEW qs, Grown(ps, qs), Numbered(ps), Numbered(qs),
           NEW by, NEW leaf, Leads(ps, by, leaf)
    PROVE  /\ Leads(qs, by, leaf)
           /\ TextAt(qs, by, leaf) = TextAt(ps, by, leaf)
           /\ IdAt(qs, by, leaf) = IdAt(ps, by, leaf)
<1>1. PICK o \in DOMAIN CellsAt(ps, leaf) : Means(ps, by, leaf, o)
  BY DEF Leads
<1>2. /\ LeafPage(leaf) \in 1..Len(ps) /\ LeafPage(leaf) \in 1..Len(qs)
      /\ 0 \in DOMAIN CellsAt(ps, leaf)
      /\ 0 \in DOMAIN CellsAt(qs, leaf) /\ CellsAt(qs, leaf)[0] = CellsAt(ps, leaf)[0]
      /\ o \in DOMAIN CellsAt(qs, leaf) /\ CellsAt(qs, leaf)[o] = CellsAt(ps, leaf)[o]
  BY DEF Leads, Grown, CellsAt
<1>3. Means(qs, by, leaf, o)
  BY <1>1, <1>2 DEF Means
<1>4. Place(ps, by, leaf) = o /\ Place(qs, by, leaf) = o
  BY <1>1, <1>2, <1>3, Meant
<1>5. Text(qs[LeafPage(leaf)], o) = Text(ps[LeafPage(leaf)], o)
  BY <1>2, SameText DEF CellsAt
<1>. QED  BY <1>2, <1>3, <1>4, <1>5 DEF Leads, TextAt, IdAt

LEMMA LinkedNumbered ==
    ASSUME NEW ps,
           \A p \in 1..Len(ps) : IsPage(ps[p]) /\ \E stop : CellsLinked(ps[p], stop)
    PROVE  Numbered(ps)
<1>. SUFFICES ASSUME NEW p \in 1..Len(ps), NEW o \in DOMAIN ps[p].cells
              PROVE  /\ ps[p].cells[o].id \in Nat
                     /\ \A x \in DOMAIN ps[p].cells :
                           ps[p].cells[x].id = ps[p].cells[o].id => x = o
  BY DEF Numbered
<1>. QED  BY DEF IsPage, Cells, CellsLinked

LEMMA InvNumbered ==
    ASSUME LoaderTypeOK, OrderInv
    PROVE  Numbered(pages)
BY LinkedNumbered DEF LoaderTypeOK, OrderInv, AllLinked

LEMMA InvNumberedNext ==
    ASSUME LoaderTypeOK', OrderInv'
    PROVE  Numbered(pages')
BY LinkedNumbered DEF LoaderTypeOK, OrderInv, AllLinked

\* getByOffset gives an iterator that reads the cell.
LEMMA GotoOffsetReads ==
    ASSUME LoaderInv, NEW p \in 1..Len(pages), NEW o \in DOMAIN pages[p].cells
    PROVE  LET it == GotoOffset(p, o)
           IN  /\ HasValue(it) /\ OffsetExists(p, o)
               /\ GetId(it) = pages[p].cells[o].id /\ GetValue(it) = Text(pages[p], o)
               /\ it = Standing(p, o, IF o = 0 THEN Null ELSE p)
<1>. DEFINE it == GotoOffset(p, o)
<1>1. IsPage(pages[p]) /\ PageHolds(pages[p]) /\ p \in Nat \ {0}
  BY DEF LoaderInv, LoaderTypeOK, PagesHold, IsSequence
<1>2. /\ pages[p].cells[o].kind \in {"full", "delta"} /\ 0 \in DOMAIN pages[p].cells
      /\ pages[p].cells[o].kind = "full" <=> o = 0
  BY <1>1 DEF IsPage, PageHolds, Cells
<1>3. it = Standing(p, o, IF o = 0 THEN Null ELSE p)
  <2>1. CASE o = 0
    BY <2>1 DEF GotoOffset, IteratorAt, Standing
  <2>2. CASE o # 0
    BY <2>2 DEF GotoOffset, IteratorAt, Standing
  <2>. QED  BY <2>1, <2>2
<1>4. it.page = p /\ it.off = o /\ it.from = 0 /\ (o # 0 => it.base = p)
  BY <1>3 DEF Standing
<1>. HIDE DEF it
<1>5. Cell(it) = pages[p].cells[o]
  BY <1>4 DEF Cell
<1>6. HasValue(it)
  BY <1>1, <1>2, <1>4, <1>5 DEF HasValue, AtCell, Null
<1>7. OffsetExists(p, o)
  BY <1>1, <1>2 DEF OffsetExists
<1>8. GetId(it) = pages[p].cells[o].id /\ GetValue(it) = Text(pages[p], o)
  BY <1>2, <1>4, <1>5 DEF GetId, GetValue, Text
<1>. QED  BY <1>3, <1>6, <1>7, <1>8 DEF it

\* What a leaf leads to is what a lookup of it gives: the walk of gotoDelta ends
\* at the same cell as gotoOffset.
LEMMA LeadsDecodes ==
    ASSUME LoaderInv, OrderInv, NEW leaf, Leads(pages, build.strategy, leaf)
    PROVE  LET by == build.strategy
               o  == Place(pages, by, leaf)
           IN  /\ Decodes(leaf) /\ o \in DOMAIN CellsAt(pages, leaf)
               /\ DecodeLeaf(leaf) = GotoOffset(LeafPage(leaf), o)
               /\ ValueOf(leaf) = TextAt(pages, by, leaf) /\ IdOf(leaf) = IdAt(pages, by, leaf)
<1>. DEFINE by == build.strategy
            p == LeafPage(leaf)
            o == Place(pages, by, leaf)
            it == DecodeLeaf(leaf)
<1>1. /\ p \in 1..Len(pages) /\ 0 \in DOMAIN pages[p].cells
      /\ o \in DOMAIN pages[p].cells /\ Means(pages, by, leaf, o)
  <2>1. PICK x \in DOMAIN CellsAt(pages, leaf) : Means(pages, by, leaf, x)
    BY DEF Leads
  <2>2. Numbered(pages)
    BY InvNumbered DEF LoaderInv
  <2>3. p \in 1..Len(pages) /\ 0 \in DOMAIN CellsAt(pages, leaf)
    BY DEF Leads
  <2>4. o = x
    BY <2>1, <2>2, <2>3, Meant
  <2>. QED  BY <2>1, <2>3, <2>4 DEF CellsAt
<1>. HIDE DEF o
<1>2. /\ IsPage(pages[p]) /\ PageHolds(pages[p]) /\ CellsLinked(pages[p], Stop(p))
      /\ p \in Nat \ {0}
  BY <1>1 DEF LoaderInv, LoaderTypeOK, PagesHold, OrderInv, AllLinked, IsSequence
<1>3. pages[p].cells[o].kind \in {"full", "delta"} /\ (pages[p].cells[o].kind = "full" <=> o = 0)
  BY <1>1, <1>2 DEF IsPage, PageHolds, Cells
<1>4. it = GotoOffset(p, o)
  <2>1. CASE by = "offset"
    BY <2>1, <1>1 DEF DecodeLeaf, Means
  <2>2. CASE by # "offset"
    <3>1. LeafOffset(leaf) = pages[p].cells[o].id - pages[p].cells[0].id
      BY <2>2, <1>1 DEF Means, CellsAt
    <3>2. GotoDelta(p, pages[p].cells[o].id - pages[p].cells[0].id) = GotoOffset(p, o)
      BY <1>1, <1>2, GotoDeltaFinds
    <3>. QED  BY <2>2, <3>1, <3>2 DEF DecodeLeaf
  <2>. QED  BY <2>1, <2>2
<1>5. /\ HasValue(it) /\ GetId(it) = pages[p].cells[o].id /\ GetValue(it) = Text(pages[p], o)
      /\ OffsetExists(p, o)
  BY <1>1, <1>4, GotoOffsetReads
<1>6. by = "offset" => LeafOffset(leaf) = o
  BY <1>1 DEF Means
<1>. HIDE DEF it
<1>. QED  BY <1>1, <1>4, <1>5, <1>6 DEF Decodes, ValueOf, IdOf, it, o, TextAt, IdAt, CellsAt

LEMMA SmallerAddress ==
    ASSUME NEW n \in Nat, NEW p \in 0..n, AddressFits(n)
    PROVE  AddressFits(p)
<1>1. OffsetRange \in Nat /\ WordRange \in Int
  BY OffsetRangeAssumption, WordAssumption
<1>2. PICK d \in Nat : n = p + d
  <2>1. n - p \in Nat /\ n = p + (n - p)
    OBVIOUS
  <2>. QED  BY <2>1
<1>3. 2 * (n + 1) * OffsetRange = 2 * (p + 1) * OffsetRange + 2 * (d * OffsetRange)
  BY <1>1, <1>2
<1>4. d * OffsetRange \in Nat /\ 2 * (p + 1) * OffsetRange \in Int
  BY <1>1
<1>. QED  BY <1>1, <1>3, <1>4 DEF AddressFits

LEMMA GrownAddressable ==
    ASSUME LoaderTypeOK, LoaderTypeOK', Grown(pages, pages'), Addressable'
    PROVE  Addressable
<1>1. Len(pages) \in Nat /\ Len(pages') \in Nat
  BY DEF LoaderTypeOK, IsSequence
<1>2. Len(pages) \in 0..Len(pages')
  <2>1. CASE Len(pages) = 0
    BY <2>1, <1>1
  <2>2. CASE Len(pages) > 0
    <3>1. Len(pages) \in 1..Len(pages)
      BY <2>2, <1>1
    <3>. QED  BY <3>1, <1>1 DEF Grown
  <2>. QED  BY <2>1, <2>2, <1>1
<1>. QED  BY <1>1, <1>2, SmallerAddress DEF Addressable

\* In the callback, the leaf that is inserted leads to the pair it is for.
LEMMA PendingLeads ==
    ASSUME PageSize <= OffsetRange, LoaderInv, OrderInv, InCallback, Addressable
    PROVE  LET by == build.strategy
           IN  /\ Leads(pages, by, PendingLeaf)
               /\ TextAt(pages, by, PendingLeaf) = pending.value
               /\ IdAt(pages, by, PendingLeaf) = pending.id
               /\ ThroughTree(PendingLeaf) = PendingLeaf
<1>. DEFINE by == build.strategy
            p == pending.page
            o == pending.offset
            number == IF by = "offset" THEN o ELSE pending.delta
            leaf == PendingLeaf
<1>1. /\ p \in 1..Len(pages) /\ o \in DOMAIN pages[p].cells
      /\ ReadsPending(GotoOffset(p, o))
  BY DEF LoaderInv, CallbackHolds
<1>2. /\ IsPage(pages[p]) /\ PageHolds(pages[p]) /\ CellsLinked(pages[p], Stop(p))
      /\ Len(pages) \in Nat
  BY <1>1 DEF LoaderInv, LoaderTypeOK, PagesHold, IsSequence, OrderInv, AllLinked
<1>3. o \in Nat /\ pages[p].cells[o] \in Cells /\ 0 \in DOMAIN pages[p].cells
  BY <1>1, <1>2 DEF IsPage, PageHolds
<1>4. o \in 0..OffsetRange - 1
  <2>1. Written(pages[p].cells[o]) \in Nat
    BY <1>3, WrittenNat
  <2>2. o + Written(pages[p].cells[o]) <= PageSize - 1
    BY <1>1, <1>2 DEF PageHolds, EndOfPage, EndHeader
  <2>. QED  BY <2>1, <2>2, <1>3, PageSizeAssumption, OffsetRangeAssumption
<1>5. GotoOffset(p, o).page = p /\ GotoOffset(p, o).off = o
  BY DEF GotoOffset, IteratorAt
<1>6. pending.id = pages[p].cells[o].id
  BY <1>1, <1>5 DEF ReadsPending, GetId, Cell
<1>7. pending.delta = pages[p].cells[o].id - pages[p].cells[0].id
  BY <1>6 DEF OrderInv, DeltaNumber
<1>8. pending.delta \in 0..OffsetRange - 1
  <2>1. pending.delta \in 0..o
    BY <1>1, <1>2, <1>7 DEF CellsLinked
  <2>. QED  BY <2>1, <1>4, OffsetRangeAssumption
<1>9. p \in Nat /\ AddressFits(p)
  BY <1>1, <1>2, SmallerAddress DEF Addressable
<1>10. number \in 0..OffsetRange - 1 /\ leaf = EncodeLeaf(p, number)
  BY <1>4, <1>8 DEF PendingLeaf
<1>. HIDE DEF number
<1>11. LeafPage(leaf) = p /\ LeafOffset(leaf) = number /\ ThroughTree(leaf) = leaf
  BY <1>9, <1>10, LeavesRoundTrip
<1>. HIDE DEF leaf
<1>12. Means(pages, by, leaf, o)
  BY <1>1, <1>7, <1>11 DEF Means, CellsAt, number
<1>13. Leads(pages, by, leaf)
  BY <1>1, <1>3, <1>11, <1>12 DEF Leads, CellsAt
<1>14. Place(pages, by, leaf) = o
  <2>1. Numbered(pages)
    BY InvNumbered DEF LoaderInv
  <2>. QED  BY <2>1, <1>12, <1>13, Meant DEF Leads
<1>15. DecodeLeaf(leaf) = GotoOffset(p, o) /\ ValueOf(leaf) = TextAt(pages, by, leaf)
  BY <1>11, <1>13, <1>14, LeadsDecodes
<1>16. TextAt(pages, by, leaf) = pending.value
  BY <1>1, <1>15 DEF ValueOf, ReadsPending
<1>17. IdAt(pages, by, leaf) = pending.id
  BY <1>6, <1>11, <1>14 DEF IdAt, CellsAt
<1>. QED  BY <1>11, <1>13, <1>16, <1>17 DEF leaf

-----------------------------------------------------------------------------
(* What a load does to the pages.                                          *)

LEMMA Unchanged == Grown(pages, pages)
BY DEF Grown

LEMMA NewPageGrows ==
    ASSUME LoaderTypeOK, NEW new, IsPage(new), pages' = PagesAndNew(new)
    PROVE  Grown(pages, pages')
<1>1. /\ Len(pages') = Len(pages) + 1
      /\ \A p \in 1..Len(pages) : pages'[p].cells = pages[p].cells
  BY NewPage
<1>2. Len(pages) \in Nat
  BY DEF LoaderTypeOK, IsSequence
<1>3. \A p \in 1..Len(pages) : p \in 1..Len(pages')
  BY <1>1, <1>2
<1>. QED  BY <1>1, <1>3 DEF Grown

LEMMA WriteGrows ==
    ASSUME PageSize <= OffsetRange, LoaderInv, OrderInv, StartPage \/ AppendDelta
    PROVE  LoaderInv' /\ OrderInv' /\ Grown(pages, pages')
<1>1. LoaderTypeOK
  BY DEF LoaderInv
<1>2. CASE StartPage
  <2>. DEFINE cell == FullCell(Id(pos), values[pos])
              new == WithCell(EmptyPage, 0, cell)
  <2>1. cell \in Cells
    BY <1>1, <1>2, IdsAreNat, FullCellProperties DEF StartPage, Looping
  <2>. HIDE DEF cell
  <2>2. IsPage(new)
    BY <2>1, EmptyPageProperties, WithCellProperties
  <2>3. pages' = PagesAndNew(new)
    BY <1>2 DEF StartPage, cell
  <2>. HIDE DEF new
  <2>. QED  BY <1>1, <1>2, <2>2, <2>3, HoldsStartPage, OrderStartPage, NewPageGrows
<1>3. CASE AppendDelta
  <2>. DEFINE cell == DeltaCell(Id(pos), ref, values[pos])
              page == WithCell(pages[current], dataPtr, cell)
  <2>1. cell \in Cells
    <3>1. ref \in Strings
      BY <1>1 DEF LoaderTypeOK, Strings
    <3>. QED  BY <1>1, <1>3, <3>1, IdsAreNat, DeltaCellProperties DEF AppendDelta, Looping
  <2>2. current \in 1..Len(pages) /\ IsPage(pages[current]) /\ dataPtr \in Nat
    BY <1>1, <1>3, CurrentPage DEF AppendDelta, LoaderTypeOK
  <2>3. \A o \in DOMAIN pages[current].cells : o < dataPtr /\ o # dataPtr
    <3>1. \A o \in DOMAIN pages[current].cells : o < dataPtr /\ o \in Nat
      BY <1>3, <2>2 DEF AppendDelta, LoaderInv, CurrentPageHolds, IsPage
    <3>. QED  BY <3>1, <2>2
  <2>4. pages' = [pages EXCEPT ![current] = page]
    BY <1>3 DEF AppendDelta
  <2>. HIDE DEF cell
  <2>5. /\ IsPage(page)
        /\ DOMAIN page.cells = (DOMAIN pages[current].cells) \union {dataPtr}
        /\ \A o \in DOMAIN pages[current].cells : page.cells[o] = pages[current].cells[o]
    BY <2>1, <2>2, <2>3, WithCellProperties
  <2>. HIDE DEF page
  <2>6. IsSequence(pages) /\ \A p \in 1..Len(pages) : IsPage(pages[p])
    BY <1>1 DEF LoaderTypeOK
  <2>7. Len(pages') = Len(pages)
    BY <2>2, <2>4, <2>5, <2>6, ReplacedPage, ZenonT(40)
  <2>8. pages'[current] = page /\ \A p \in 1..Len(pages) : p # current => pages'[p] = pages[p]
    BY <2>2, <2>4, <2>5, <2>6, ReplacedPage
  <2>9. Grown(pages, pages')
    BY <2>5, <2>7, <2>8 DEF Grown
  <2>. QED  BY <1>3, <2>9, HoldsAppendDelta, OrderAppendDelta
<1>. QED  BY <1>2, <1>3

LEMMA ThrowGrows ==
    ASSUME LoaderInv, OrderInv, Throw
    PROVE  LoaderInv' /\ OrderInv' /\ Grown(pages, pages')
<1>1. LoaderTypeOK /\ pages' = PagesAndNew(EmptyPage) /\ IsPage(EmptyPage)
  BY EmptyPageProperties DEF LoaderInv, Throw
<1>. QED  BY <1>1, NewPageGrows, HoldsThrow, OrderThrow

LEMMA FinishGrows ==
    ASSUME LoaderInv, OrderInv, Finish
    PROVE  LoaderInv' /\ OrderInv' /\ Grown(pages, pages')
<1>1. CASE current = Null
  BY <1>1, HoldsFinish, OrderFinish DEF Finish, Grown
<1>2. CASE current # Null
  <2>. DEFINE page == Finished(pages[current], dataPtr, pages[current].next)
  <2>1. /\ current \in 1..Len(pages) /\ IsPage(pages[current])
        /\ dataPtr \in Nat /\ pages[current].next \in Nat
    BY <1>2, CurrentPage DEF LoaderInv, LoaderTypeOK, IsPage
  <2>2. IsPage(page) /\ page.cells = pages[current].cells
    <3>1. page.cells = pages[current].cells
      BY DEF Finished
    <3>2. IsPage(page)
      BY <2>1, FinishedPage
    <3>. QED  BY <3>1, <3>2
  <2>3. pages' = [pages EXCEPT ![current] = page]
    BY <1>2 DEF Finish
  <2>. HIDE DEF page
  <2>4. IsSequence(pages) /\ \A p \in 1..Len(pages) : IsPage(pages[p])
    BY DEF LoaderInv, LoaderTypeOK
  <2>5. Len(pages') = Len(pages)
    BY <2>1, <2>2, <2>3, <2>4, ReplacedPage, ZenonT(40)
  <2>6. pages'[current] = page /\ \A p \in 1..Len(pages) : p # current => pages'[p] = pages[p]
    BY <2>1, <2>2, <2>3, <2>4, ReplacedPage
  <2>7. Grown(pages, pages')
    BY <2>2, <2>5, <2>6 DEF Grown
  <2>. QED  BY <2>7, HoldsFinish, OrderFinish
<1>. QED  BY <1>1, <1>2

-----------------------------------------------------------------------------
(* The steps of the dictionary.                                            *)

\* A step that only writes leaves both indexes true.
LEMMA LeavesLeadOn ==
    ASSUME LeafInv, Grown(pages, pages'), Numbered(pages), Numbered(pages'),
           UNCHANGED <<build, index, reverseIndex>>, pc # "indexed"
    PROVE  LeafInv'
<1>. DEFINE by == build.strategy
<1>1. ASSUME NEW s \in DOMAIN reverseIndex
      PROVE  LET leaf == reverseIndex[s]
             IN  /\ Leads(pages', by, leaf) /\ TextAt(pages', by, leaf) = s
                 /\ IdAt(pages', by, leaf) \in DOMAIN index /\ index[IdAt(pages', by, leaf)] = leaf
  <2>. DEFINE leaf == reverseIndex[s]
  <2>1. /\ Leads(pages, by, leaf) /\ TextAt(pages, by, leaf) = s
        /\ IdAt(pages, by, leaf) \in DOMAIN index /\ index[IdAt(pages, by, leaf)] = leaf
    BY DEF LeafInv
  <2>. QED  BY <2>1, LeadsOn
<1>2. ASSUME NEW i \in DOMAIN index
      PROVE  LET s == TextAt(pages', by, index[i])
             IN  /\ Leads(pages', by, index[i]) /\ IdAt(pages', by, index[i]) = i
                 /\ s \in DOMAIN reverseIndex /\ IdAt(pages', by, reverseIndex[s]) <= i
  <2>. DEFINE s == TextAt(pages, by, index[i])
  <2>1. /\ Leads(pages, by, index[i]) /\ IdAt(pages, by, index[i]) = i
        /\ s \in DOMAIN reverseIndex /\ IdAt(pages, by, reverseIndex[s]) <= i
    BY DEF LeafInv
  <2>2. Leads(pages, by, reverseIndex[s])
    BY <2>1 DEF LeafInv
  <2>3. /\ Leads(pages', by, index[i]) /\ TextAt(pages', by, index[i]) = s
        /\ IdAt(pages', by, index[i]) = i
    BY <2>1, LeadsOn
  <2>4. IdAt(pages', by, reverseIndex[s]) <= i
    BY <2>1, <2>2, LeadsOn
  <2>. QED  BY <2>1, <2>3, <2>4
<1>. QED  BY <1>1, <1>2 DEF LeafInv

\* The same for the whole invariant, of a step that keeps what is loaded.
LEMMA WritingKeeps ==
    ASSUME DictionaryInv, LoaderInv', OrderInv', Grown(pages, pages'), pc # "indexed", pc' # "indexed",
           UNCHANGED <<values, firstId, pos, build, nextId, index, reverseIndex>>
    PROVE  DictionaryInv'
<1>1. LoadInv'
  BY DEF DictionaryInv, LoadInv, Id
<1>2. ASSUME Addressable'
      PROVE  LeafInv'
  <2>1. Addressable
    BY <1>2, GrownAddressable DEF DictionaryInv, LoadInv, LoaderInv
  <2>2. LeafInv
    BY <2>1 DEF DictionaryInv
  <2>3. Numbered(pages) /\ Numbered(pages')
    BY InvNumbered, InvNumberedNext DEF DictionaryInv, LoadInv, LoaderInv
  <2>. QED  BY <2>2, <2>3, LeavesLeadOn
<1>. QED  BY <1>1, <1>2 DEF DictionaryInv

LEMMA BulkInsertKeeps ==
    ASSUME FitsWidths, DictionaryInv, NEW vs \in Inputs, BulkInsert(vs)
    PROVE  DictionaryInv'
<1>1. /\ nextId = firstId + Len(values) /\ pos <= Len(values) + 1
      /\ firstId \in Nat \ {0} /\ pos \in Nat \ {0} /\ Len(values) \in Nat
      /\ DOMAIN index \subseteq 1..(Id(pos) - 1)
  BY DEF DictionaryInv, LoadInv, LoaderInv, LoaderTypeOK
<1>2. nextId \in Nat \ {0} /\ 1..(Id(pos) - 1) \subseteq 1..(nextId - 1)
  BY <1>1 DEF Id
<1>3. LoaderInv' /\ OrderInv'
  BY <1>2, HoldsLoad, OrderLoad DEF FitsWidths, BulkInsert, DictionaryInv, LoadInv
<1>4. /\ values' = vs /\ firstId' = nextId /\ pos' = 1 /\ pages' = pages
      /\ nextId' = nextId + Len(vs) /\ pc # "indexed" /\ pc' = "loop"
      /\ UNCHANGED <<build, index, reverseIndex>>
  BY DEF BulkInsert, Load, AtRest
<1>5. LoadInv'
  <2>1. Len(vs) \in Nat
    BY InputsAssumption
  <2>2. Id(pos)' = nextId /\ pos' <= Len(values') + 1
    BY <1>2, <1>4, <2>1 DEF Id
  <2>. QED  BY <1>1, <1>2, <1>3, <1>4, <2>2 DEF LoadInv
<1>6. Addressable' => LeafInv'
  <2>1. Numbered(pages)
    BY InvNumbered DEF DictionaryInv, LoadInv, LoaderInv
  <2>. QED  BY <2>1, <1>4, Unchanged, LeavesLeadOn DEF DictionaryInv, Addressable
<1>. QED  BY <1>4, <1>5, <1>6 DEF DictionaryInv

LEMMA InsertReverseKeeps ==
    ASSUME FitsWidths, DictionaryInv, InsertReverse
    PROVE  DictionaryInv'
<1>. DEFINE v == pending.value
            by == build.strategy
<1>1. /\ pc = "callback" /\ pc' = "indexed"
      /\ UNCHANGED <<pages, values, firstId, pos, current, dataPtr, ref, delta, pending,
                     build, nextId, index>>
      /\ reverseIndex' = IF v \in DOMAIN reverseIndex THEN reverseIndex
                         ELSE With(reverseIndex, v, PendingLeaf)
  BY DEF InsertReverse
<1>2. InCallback /\ InCallback'
  BY <1>1 DEF InCallback
<1>3. LoaderInv' /\ OrderInv'
  BY <1>1, <1>2, HoldsElsewhere, OrderElsewhere
     DEF DictionaryInv, LoadInv, LoaderInv, LoaderTypeOK
<1>4. /\ DOMAIN reverseIndex' = DOMAIN reverseIndex \union {v}
      /\ \A s \in DOMAIN reverseIndex : reverseIndex'[s] = reverseIndex[s]
      /\ v \notin DOMAIN reverseIndex => reverseIndex'[v] = PendingLeaf
  BY <1>1 DEF With
<1>5. LoadInv'
  BY <1>1, <1>3, <1>4 DEF DictionaryInv, LoadInv, Id
<1>6. ASSUME Addressable'
      PROVE  LeafInv'
  <2>1. Addressable /\ LeafInv
    BY <1>1, <1>6 DEF Addressable, DictionaryInv
  <2>2. /\ Leads(pages, by, PendingLeaf)
        /\ TextAt(pages, by, PendingLeaf) = v /\ IdAt(pages, by, PendingLeaf) = pending.id
    BY <1>2, <1>6, <2>1, PendingLeads DEF FitsWidths, DictionaryInv, LoadInv
  <2>3. PendingLeaf' = PendingLeaf
    BY <1>1 DEF PendingLeaf
  <2>4. ASSUME NEW s \in DOMAIN reverseIndex'
        PROVE  LET leaf == reverseIndex'[s]
               IN  /\ Leads(pages, by, leaf) /\ TextAt(pages, by, leaf) = s
                   /\ \/ IdAt(pages, by, leaf) \in DOMAIN index /\ index[IdAt(pages, by, leaf)] = leaf
                      \/ s = v /\ leaf = PendingLeaf
    <3>1. CASE s \in DOMAIN reverseIndex
      BY <3>1, <1>1, <1>4, <2>1 DEF LeafInv
    <3>2. CASE s \notin DOMAIN reverseIndex
      BY <3>2, <1>4, <2>2
    <3>. QED  BY <3>1, <3>2
  <2>5. \A i \in DOMAIN index :
            LET s == TextAt(pages, by, index[i])
            IN  /\ Leads(pages, by, index[i]) /\ IdAt(pages, by, index[i]) = i
                /\ s \in DOMAIN reverseIndex' /\ IdAt(pages, by, reverseIndex'[s]) <= i
    BY <1>4, <2>1 DEF LeafInv
  <2>. QED  BY <1>1, <2>3, <2>4, <2>5 DEF LeafInv
<1>. QED  BY <1>1, <1>5, <1>6 DEF DictionaryInv

\* The id that a callback is called for has not been given out before.
LEMMA FreshId ==
    ASSUME LoadInv, InCallback
    PROVE  /\ pending.id = Id(pos) /\ pending.id \in Nat \ {0}
           /\ pos <= Len(values) /\ Len(values) \in Nat /\ pos \in Nat
           /\ \A i \in DOMAIN index : i \in Nat /\ i < pending.id
<1>1. /\ pending.id = Id(pos) /\ pos <= Len(values) /\ Len(values) \in Nat
      /\ firstId \in Nat \ {0} /\ pos \in Nat \ {0}
      /\ DOMAIN index \subseteq 1..(Id(pos) - 1)
  BY DEF LoadInv, LoaderInv, CallbackHolds, LoaderTypeOK
<1>2. Id(pos) \in Nat \ {0}
  BY <1>1 DEF Id
<1>. QED  BY <1>1, <1>2

LEMMA InsertIdKeeps ==
    ASSUME FitsWidths, DictionaryInv, InsertId
    PROVE  DictionaryInv'
<1>. DEFINE v == pending.value
            id == pending.id
            by == build.strategy
<1>1. /\ pc = "indexed" /\ pc' = "loop" /\ pos' = pos + 1
      /\ index' = With(index, id, ThroughTree(PendingLeaf))
      /\ UNCHANGED <<pages, values, firstId, current, dataPtr, ref, delta, pending,
                     build, nextId, reverseIndex>>
  BY DEF InsertId
<1>2. InCallback
  BY <1>1 DEF InCallback
<1>3. LoaderInv' /\ OrderInv'
  BY <1>1, <1>2, HoldsElsewhere, OrderElsewhere
     DEF DictionaryInv, LoadInv, LoaderInv, LoaderTypeOK, InCallback
<1>4. /\ id = Id(pos) /\ id \in Nat \ {0}
      /\ pos <= Len(values) /\ Len(values) \in Nat /\ pos \in Nat
      /\ \A i \in DOMAIN index : i \in Nat /\ i < id
  BY <1>2, FreshId DEF DictionaryInv
<1>5. /\ DOMAIN index' = DOMAIN index \union {id}
      /\ \A i \in DOMAIN index : index'[i] = index[i]
      /\ index'[id] = ThroughTree(PendingLeaf)
  <2>1. \A i \in DOMAIN index : i # id
    BY <1>4
  <2>. QED  BY <1>1, <2>1 DEF With
<1>6. LoadInv'
  <2>1. Id(pos)' = id + 1 /\ pos' <= Len(values') + 1
    BY <1>1, <1>4, SMTT(30) DEF Id, DictionaryInv, LoadInv, LoaderInv, LoaderTypeOK
  <2>2. DOMAIN index \subseteq 1..(id - 1)
    BY <1>4 DEF DictionaryInv, LoadInv
  <2>3. DOMAIN index' \subseteq 1..(Id(pos)' - 1)
    BY <1>4, <1>5, <2>1, <2>2
  <2>. QED  BY <1>1, <1>3, <2>1, <2>3 DEF DictionaryInv, LoadInv
<1>7. ASSUME Addressable'
      PROVE  LeafInv'
  <2>1. Addressable /\ LeafInv
    BY <1>1, <1>7 DEF Addressable, DictionaryInv
  <2>2. /\ Leads(pages, by, PendingLeaf) /\ ThroughTree(PendingLeaf) = PendingLeaf
        /\ TextAt(pages, by, PendingLeaf) = v /\ IdAt(pages, by, PendingLeaf) = id
    BY <1>2, <1>7, <2>1, PendingLeads DEF FitsWidths, DictionaryInv, LoadInv
  <2>3. v \in DOMAIN reverseIndex
    BY <1>1 DEF DictionaryInv, LoadInv
  <2>4. ASSUME NEW s \in DOMAIN reverseIndex
        PROVE  LET leaf == reverseIndex[s]
               IN  /\ Leads(pages, by, leaf) /\ TextAt(pages, by, leaf) = s
                   /\ IdAt(pages, by, leaf) \in DOMAIN index' /\ index'[IdAt(pages, by, leaf)] = leaf
    <3>. DEFINE leaf == reverseIndex[s]
    <3>1. /\ Leads(pages, by, leaf) /\ TextAt(pages, by, leaf) = s
          /\ \/ IdAt(pages, by, leaf) \in DOMAIN index /\ index[IdAt(pages, by, leaf)] = leaf
             \/ leaf = PendingLeaf
      BY <2>1 DEF LeafInv
    <3>. QED  BY <3>1, <1>5, <2>2
  <2>5. ASSUME NEW i \in DOMAIN index'
        PROVE  LET s == TextAt(pages, by, index'[i])
               IN  /\ Leads(pages, by, index'[i]) /\ IdAt(pages, by, index'[i]) = i
                   /\ s \in DOMAIN reverseIndex /\ IdAt(pages, by, reverseIndex[s]) <= i
    <3>1. CASE i \in DOMAIN index
      BY <3>1, <1>5, <2>1 DEF LeafInv
    <3>2. CASE i = id
      <4>1. index'[i] = PendingLeaf
        BY <3>2, <1>5, <2>2
      <4>2. \/ IdAt(pages, by, reverseIndex[v]) \in DOMAIN index
            \/ reverseIndex[v] = PendingLeaf
        BY <2>1, <2>3 DEF LeafInv
      <4>3. IdAt(pages, by, reverseIndex[v]) <= id
        <5>1. CASE IdAt(pages, by, reverseIndex[v]) \in DOMAIN index
          BY <5>1, <1>4
        <5>2. CASE reverseIndex[v] = PendingLeaf
          BY <5>2, <1>4, <2>2
        <5>. QED  BY <4>2, <5>1, <5>2
      <4>. QED  BY <3>2, <4>1, <4>3, <2>2, <2>3
    <3>. QED  BY <3>1, <3>2, <1>5
  <2>. QED  BY <1>1, <2>4, <2>5 DEF LeafInv
<1>. QED  BY <1>1, <1>6, <1>7 DEF DictionaryInv

\* A lookup and a turn of a range lookup change nothing that was loaded.
LEMMA LookupKeeps ==
    ASSUME DictionaryInv,
           UNCHANGED <<pages, values, firstId, pos, current, dataPtr, ref, delta, pending,
                       build, nextId, loads, index, reverseIndex>>,
           pc \in {"ready", "threw", "scan"}, pc' \in {"ready", "threw", "scan", "crashed"}
    PROVE  DictionaryInv'
<1>1. LoaderInv' /\ OrderInv'
  BY HoldsElsewhere, OrderElsewhere DEF DictionaryInv, LoadInv, LoaderInv, LoaderTypeOK, InCallback
<1>. QED  BY <1>1, Unchanged, WritingKeeps

LEMMA DictionaryInit == Init => DictionaryInv
<1>. SUFFICES ASSUME Init PROVE DictionaryInv
  OBVIOUS
<1>1. LoaderInv /\ OrderInv
  BY HoldsInit, OrderInit DEF Init
<1>2. DOMAIN index = {} /\ DOMAIN reverseIndex = {}
  BY DEF Init
<1>3. LoadInv
  BY <1>1, <1>2 DEF Init, LoaderInit, LoadInv
<1>4. LeafInv
  BY <1>2 DEF LeafInv
<1>. QED  BY <1>3, <1>4 DEF DictionaryInv

LEMMA DictionaryStep ==
    ASSUME FitsWidths, DictionaryInv, [Next]_vars
    PROVE  DictionaryInv'
<1>1. CASE \E vs \in Inputs : BulkInsert(vs)
  BY <1>1, BulkInsertKeeps
<1>2. CASE WriteValue
  <2>1. LoaderInv' /\ OrderInv' /\ Grown(pages, pages')
    BY <1>2, WriteGrows DEF WriteValue, FitsWidths, DictionaryInv, LoadInv
  <2>2. /\ pc = "loop" /\ pc' = "callback"
        /\ UNCHANGED <<values, firstId, pos, build, nextId, index, reverseIndex>>
    BY <1>2 DEF WriteValue, StartPage, AppendDelta, Looping, Call
  <2>. QED  BY <2>1, <2>2, WritingKeeps
<1>3. CASE InsertReverse
  BY <1>3, InsertReverseKeeps
<1>4. CASE InsertId
  BY <1>4, InsertIdKeeps
<1>5. CASE BulkInsertThrows
  <2>1. LoaderInv' /\ OrderInv' /\ Grown(pages, pages')
    BY <1>5, ThrowGrows DEF BulkInsertThrows, DictionaryInv, LoadInv
  <2>2. /\ pc = "loop" /\ pc' = "threw"
        /\ UNCHANGED <<values, firstId, pos, build, nextId, index, reverseIndex>>
    BY <1>5 DEF BulkInsertThrows, Throw, Looping
  <2>. QED  BY <2>1, <2>2, WritingKeeps
<1>6. CASE BulkInsertReturns
  <2>1. LoaderInv' /\ OrderInv' /\ Grown(pages, pages')
    BY <1>6, FinishGrows DEF BulkInsertReturns, DictionaryInv, LoadInv
  <2>2. /\ pc = "loop" /\ pc' \in {"ready", "crashed"}
        /\ UNCHANGED <<values, firstId, pos, build, nextId, index, reverseIndex>>
    BY <1>6 DEF BulkInsertReturns, Finish
  <2>. QED  BY <2>1, <2>2, WritingKeeps
<1>7. CASE \E s \in Queries : LookupValue(s)
  BY <1>7, LookupKeeps DEF LookupValue, AnswerOrAbort, Abort, AtRest
<1>8. CASE \E s \in Queries : RangeLookup(s)
  BY <1>8, LookupKeeps DEF RangeLookup, Abort, AtRest
<1>9. CASE \E i \in 0..MaxId : LookupId(i)
  BY <1>9, LookupKeeps DEF LookupId, AnswerOrAbort, Abort, AtRest
<1>10. CASE ScanStep
  BY <1>10, LookupKeeps DEF ScanStep, ScanNext, ScanBreaks, ScanRunsOut, ScanAstray, ScanEnds, Abort
<1>11. CASE UNCHANGED vars
  <2>1. LoaderInv' /\ OrderInv'
    BY <1>11, HoldsElsewhere, OrderElsewhere DEF vars, DictionaryInv, LoadInv, LoaderInv, LoaderTypeOK
  <2>2. LoadInv' /\ Addressable' = Addressable /\ LeafInv' = LeafInv
    BY <1>11, <2>1 DEF vars, DictionaryInv, LoadInv, Id, Addressable, LeafInv, PendingLeaf
  <2>. QED  BY <1>11, <2>2 DEF vars, DictionaryInv
<1>. QED
  BY <1>1, <1>2, <1>3, <1>4, <1>5, <1>6, <1>7, <1>8, <1>9, <1>10, <1>11 DEF Next, LoadStep

\* The invariant behind the theorems below.
THEOREM DictionaryInvariant ==
    ASSUME FitsWidths
    PROVE  Spec => []DictionaryInv
<1>. QED  BY DictionaryInit, DictionaryStep, PTL DEF Spec

LEMMA InvDecodes ==
    ASSUME LoaderInv, OrderInv, LeafInv
    PROVE  LeavesDecode
<1>1. ASSUME NEW s \in DOMAIN reverseIndex
      PROVE  Decodes(reverseIndex[s]) /\ ValueOf(reverseIndex[s]) = s
  BY LeadsDecodes DEF LeafInv
<1>2. ASSUME NEW i \in DOMAIN index
      PROVE  Decodes(index[i]) /\ IdOf(index[i]) = i
  BY LeadsDecodes DEF LeafInv
<1>. QED  BY <1>1, <1>2 DEF LeavesDecode

LEMMA InvAgrees ==
    ASSUME LoaderInv, OrderInv, LeafInv
    PROVE  IndexesAgree
<1>. DEFINE by == build.strategy
<1>. SUFFICES ASSUME pc # "indexed" PROVE IndexesAgree
  BY DEF IndexesAgree
<1>1. ASSUME NEW s \in DOMAIN reverseIndex
      PROVE  /\ IdOf(reverseIndex[s]) \in DOMAIN index
             /\ index[IdOf(reverseIndex[s])] = reverseIndex[s]
  <2>1. /\ Leads(pages, by, reverseIndex[s]) /\ IdAt(pages, by, reverseIndex[s]) \in DOMAIN index
        /\ index[IdAt(pages, by, reverseIndex[s])] = reverseIndex[s]
    BY DEF LeafInv
  <2>. QED  BY <2>1, LeadsDecodes
<1>2. ASSUME NEW i \in DOMAIN index
      PROVE  /\ ValueOf(index[i]) \in DOMAIN reverseIndex
             /\ IdOf(reverseIndex[ValueOf(index[i])]) <= i
  <2>. DEFINE s == TextAt(pages, by, index[i])
  <2>1. /\ Leads(pages, by, index[i]) /\ s \in DOMAIN reverseIndex
        /\ IdAt(pages, by, reverseIndex[s]) <= i
    BY DEF LeafInv
  <2>2. Leads(pages, by, reverseIndex[s])
    BY <2>1 DEF LeafInv
  <2>3. ValueOf(index[i]) = s
    BY <2>1, LeadsDecodes
  <2>4. IdOf(reverseIndex[s]) = IdAt(pages, by, reverseIndex[s])
    BY <2>2, LeadsDecodes
  <2>. QED  BY <2>1, <2>3, <2>4
<1>. QED  BY <1>1, <1>2 DEF IndexesAgree

-----------------------------------------------------------------------------
(* How many pages there are.                                               *)

\* The addresses of as many pages as there are ids and loads fit in a leaf.
FewPages == MaxId \in Nat /\ MaxLoads \in Nat /\ AddressFits(MaxId + MaxLoads)

\* A page holds a value at least, except one for each exception.
PageCount ==
    /\ loads \in 0..MaxLoads /\ nextId <= MaxId + 1
    /\ Len(pages) + (IF pc = "loop" \/ InCallback THEN 1 ELSE 0) <= Id(Loaded) + loads

LEMMA PageCountStep ==
    ASSUME FitsWidths, FewPages, LoadInv, PageCount, [Next]_vars
    PROVE  PageCount'
<1>. USE DEF Loaded, InCallback, Id
<1>1. /\ firstId \in Nat \ {0} /\ pos \in Nat \ {0} /\ Len(values) \in Nat /\ Len(pages) \in Nat
      /\ loads \in Nat /\ MaxLoads \in Nat /\ MaxId \in Nat
      /\ nextId = firstId + Len(values) /\ pos <= Len(values) + 1
  BY DEF LoadInv, LoaderInv, LoaderTypeOK, IsSequence, FewPages, PageCount
<1>2. ASSUME NEW vs \in Inputs, BulkInsert(vs)
      PROVE  PageCount'
  <2>1. /\ loads < MaxLoads /\ nextId + Len(vs) <= MaxId /\ Len(vs) \in Nat
        /\ pc \in {"ready", "threw"} /\ pc' = "loop" /\ pages' = pages
        /\ firstId' = nextId /\ pos' = 1 /\ nextId' = nextId + Len(vs) /\ loads' = loads + 1
    BY <1>2, InputsAssumption DEF BulkInsert, Load, AtRest
  <2>2. Len(pages) <= firstId + (pos - 1) - 1 + loads
    BY <2>1 DEF PageCount
  <2>3. Len(pages) + 1 <= nextId - 1 + loads + 1
    BY <2>2, <1>1
  <2>4. loads' \in 0..MaxLoads /\ nextId' <= MaxId + 1
    BY <2>1, <1>1
  <2>5. Id(Loaded)' = nextId - 1
    BY <2>1, <1>1
  <2>. QED  BY <2>1, <2>3, <2>4, <2>5, <1>1 DEF PageCount
<1>3. CASE WriteValue
  <2>1. pc = "loop" /\ pc' = "callback" /\ UNCHANGED <<firstId, pos, nextId, loads>>
    BY <1>3 DEF WriteValue, StartPage, AppendDelta, Looping, Call
  <2>2. Len(pages') \in {Len(pages), Len(pages) + 1}
    <3>1. CASE StartPage
      BY <3>1, PageStarted DEF LoadInv
    <3>2. CASE AppendDelta
      BY <3>2, CellWritten DEF LoadInv, FitsWidths
    <3>. QED  BY <3>1, <3>2, <1>3 DEF WriteValue
  <2>. QED  BY <1>1, <2>1, <2>2 DEF PageCount
<1>4. CASE BulkInsertThrows
  <2>1. pc = "loop" /\ pc' = "threw" /\ UNCHANGED <<firstId, pos, nextId, loads>>
    BY <1>4 DEF BulkInsertThrows, Throw, Looping
  <2>2. Len(pages') = Len(pages) + 1
    BY <1>4, EmptyPageProperties, NewPageLinked DEF LoadInv, LoaderInv, BulkInsertThrows, Throw
  <2>. QED  BY <1>1, <2>1, <2>2 DEF PageCount
<1>5. CASE BulkInsertReturns
  <2>1. pc = "loop" /\ pc' \in {"ready", "crashed"} /\ UNCHANGED <<firstId, pos, nextId, loads>>
    BY <1>5 DEF BulkInsertReturns, Finish
  <2>2. Len(pages') = Len(pages)
    <3>1. CASE current = Null
      BY <3>1, <1>5 DEF BulkInsertReturns, Finish
    <3>2. CASE current # Null
      BY <3>2, <1>5, LastPageFinished DEF BulkInsertReturns, LoadInv
    <3>. QED  BY <3>1, <3>2
  <2>. QED  BY <1>1, <2>1, <2>2 DEF PageCount
<1>6. CASE InsertReverse \/ InsertId
  <2>1. /\ UNCHANGED <<pages, firstId, nextId, loads>>
        /\ \/ pc = "callback" /\ pc' = "indexed" /\ pos' = pos
           \/ pc = "indexed" /\ pc' = "loop" /\ pos' = pos + 1
    BY <1>6 DEF InsertReverse, InsertId
  <2>. QED  BY <1>1, <2>1, SMTT(30) DEF PageCount
<1>7. CASE \/ \E s \in Queries : LookupValue(s) \/ RangeLookup(s)
           \/ \E i \in 0..MaxId : LookupId(i)
           \/ ScanStep \/ UNCHANGED vars
  <2>1. /\ UNCHANGED <<pages, firstId, nextId, loads, pos>>
        /\ \/ pc' = pc
           \/ pc \in {"ready", "threw", "scan"} /\ pc' \in {"ready", "threw", "scan", "crashed"}
    BY <1>7 DEF LookupValue, RangeLookup, LookupId, ScanStep, ScanNext, ScanBreaks,
                ScanRunsOut, ScanAstray, ScanEnds, AnswerOrAbort, Abort, AtRest, vars
  <2>. QED  BY <1>1, <2>1 DEF PageCount
<1>. QED  BY <1>2, <1>3, <1>4, <1>5, <1>6, <1>7 DEF Next, LoadStep

LEMMA PageCountInit ==
    ASSUME FewPages, Init
    PROVE  PageCount
<1>1. Len(pages) = 0 /\ firstId = 1 /\ pos = 1 /\ pc = "ready" /\ loads = 0 /\ nextId = 1
  BY DEF Init, LoaderInit
<1>. QED  BY <1>1 DEF PageCount, Loaded, InCallback, Id, FewPages

LEMMA FewPagesFit ==
    ASSUME FewPages, LoadInv, PageCount
    PROVE  Addressable
<1>1. /\ firstId \in Nat \ {0} /\ pos \in Nat \ {0} /\ Len(values) \in Nat /\ Len(pages) \in Nat
      /\ nextId = firstId + Len(values) /\ pos <= Len(values) + 1
      /\ InCallback => pos <= Len(values)
  BY DEF LoadInv, LoaderInv, LoaderTypeOK, CallbackHolds, IsSequence
<1>2. Loaded \in 0..Len(values)
  BY <1>1 DEF Loaded
<1>3. Id(Loaded) <= MaxId /\ Id(Loaded) \in Nat
  BY <1>1, <1>2 DEF Id, PageCount, FewPages
<1>4. Len(pages) <= Id(Loaded) + loads /\ loads \in 0..MaxLoads
  BY <1>1, <1>3 DEF PageCount, FewPages
<1>5. Len(pages) \in 0..(MaxId + MaxLoads)
  BY <1>1, <1>3, <1>4 DEF FewPages
<1>. QED  BY <1>5, SmallerAddress DEF FewPages, Addressable

\* The invariant behind the theorems below.
LEMMA LeafInvariant ==
    ASSUME FitsWidths, FewPages
    PROVE  Spec => [](DictionaryInv /\ LeafInv)
<1>1. Init => DictionaryInv /\ PageCount
  BY DictionaryInit, PageCountInit
<1>2. DictionaryInv /\ PageCount /\ [Next]_vars => (DictionaryInv /\ PageCount)'
  BY DictionaryStep, PageCountStep DEF DictionaryInv
<1>3. DictionaryInv /\ PageCount => DictionaryInv /\ LeafInv
  BY FewPagesFit DEF DictionaryInv
<1>. QED  BY <1>1, <1>2, <1>3, PTL DEF Spec

\* Every leaf in the indexes decodes to its entry, also while the callback of the
\* loader runs and the radix tree reads keys back (StringDictionary::loadKey),
\* over any number of loads, whether a leaf holds the offset of its value or how
\* many values are in front of it (OffsetStrategy.cpp:14-19, DeltaStrategy.cpp:14-19).
THEOREM LeavesAlwaysDecode ==
    ASSUME FitsWidths, FewPages
    PROVE  Spec => []LeavesDecode
<1>1. DictionaryInv /\ LeafInv => LeavesDecode
  BY InvDecodes DEF DictionaryInv, LoadInv
<1>. QED  BY <1>1, LeafInvariant, PTL

\* The two indexes know the same entries whenever the callback has returned,
\* however a load has ended and with either strategy (OffsetStrategy.cpp:15-20,
\* DeltaStrategy.cpp:14-19).
THEOREM IndexesAlwaysAgree ==
    ASSUME FitsWidths, FewPages
    PROVE  Spec => []IndexesAgree
<1>1. DictionaryInv /\ LeafInv => IndexesAgree
  BY InvAgrees DEF DictionaryInv, LoadInv
<1>. QED  BY <1>1, LeafInvariant, PTL

\* An entry once indexed stays where it is, whatever the strategy: ids are not
\* given out twice (StringDictionary.cpp:16-22), and HAT::insert does not overwrite.
THEOREM EntriesStay ==
    ASSUME FitsWidths
    PROVE  Spec => LeavesStay
<1>. DEFINE Stay ==
         /\ \A s \in DOMAIN reverseIndex :
               s \in DOMAIN reverseIndex' /\ reverseIndex'[s] = reverseIndex[s]
         /\ \A i \in DOMAIN index : i \in DOMAIN index' /\ index'[i] = index[i]
<1>1. ASSUME DictionaryInv, [Next]_vars
      PROVE  Stay
  <2>1. CASE InsertReverse
    BY <2>1 DEF InsertReverse, With
  <2>2. CASE InsertId
    <3>1. InCallback /\ LoadInv
      BY <1>1, <2>2 DEF InsertId, InCallback, DictionaryInv
    <3>2. \A i \in DOMAIN index : i # pending.id
      BY <3>1, FreshId
    <3>3. /\ index' = With(index, pending.id, ThroughTree(PendingLeaf))
          /\ UNCHANGED reverseIndex
      BY <2>2 DEF InsertId
    <3>. QED  BY <3>2, <3>3 DEF With
  <2>3. CASE (\E vs \in Inputs : BulkInsert(vs)) \/ WriteValue \/ BulkInsertThrows \/ BulkInsertReturns
    BY <2>3 DEF BulkInsert, WriteValue, BulkInsertThrows, BulkInsertReturns
  <2>4. CASE \/ \E s \in Queries : LookupValue(s) \/ RangeLookup(s)
             \/ \E i \in 0..MaxId : LookupId(i)
    BY <2>4 DEF LookupValue, RangeLookup, LookupId
  <2>5. CASE ScanStep \/ UNCHANGED vars
    BY <2>5 DEF ScanStep, ScanNext, ScanBreaks, ScanRunsOut, ScanAstray, ScanEnds, vars
  <2>. QED  BY <1>1, <2>1, <2>2, <2>3, <2>4, <2>5 DEF Next, LoadStep
<1>2. DictionaryInv /\ [Next]_vars => [Stay]_vars
  BY <1>1
<1>. QED  BY <1>2, DictionaryInvariant, DictionaryInit, DictionaryStep, PTL DEF Spec, LeavesStay

\* Nor is a byte written outside a page in a second load, which a release build
\* allows, whatever the first one has left (SingleUncompressedPage.hpp:52-97).
THEOREM LoadsStayInPage ==
    ASSUME FitsWidths
    PROVE  Spec => []WritesStayInPage
<1>1. DictionaryInv => WritesStayInPage
  BY InvKeepsInPage DEF DictionaryInv, LoadInv
<1>. QED  BY <1>1, DictionaryInvariant, PTL

-----------------------------------------------------------------------------
(* What the dictionary promises, over its first load.                      *)

\* The caller of bulkInsert sorts the strings and passes each of them once.
SortedInputs ==
    \A vs \in Inputs : \A i, j \in 1..Len(vs) : i < j => LexLess(vs[i], vs[j])

\* How many values the reverse index knows.
Known == IF pc = "indexed" THEN pos ELSE pos - 1

\* The entries with the ids from..to.
Listed(from, to) == Listing(values, from, to)

\* The loop of rangeLookup stands at the value with the id k, between the first
\* and the last one that have the prefix, and has given those before it.
ScanAt(first, last, k, p, o, b) ==
    /\ o \in DOMAIN pages[p].cells /\ pages[p].cells[o].id = k /\ (o # 0 => b = p)
    /\ scan = [it |-> Standing(p, o, b), endId |-> last, prefix |-> scan.prefix,
               out |-> Listed(first, k - 1)]
    /\ scan.prefix \in Queries
    /\ \A j \in 1..(pos - 1) : StartsWith(values[j], scan.prefix) <=> j \in first..last

ScanHolds ==
    pc = "scan" =>
        \E first, last \in 1..(pos - 1) : \E k \in first..last :
            \E p \in 1..Len(pages) : \E o \in DOMAIN pages[p].cells, b \in 0..Len(pages) :
                ScanAt(first, last, k, p, o, b)

\* Between two loads at most: the ids start at 1, and the indexes know the
\* values that were inserted and no other.
FirstLoad ==
    /\ firstId = 1 /\ OneLoadInv
    /\ loads = 0 => pages = <<>> /\ values = <<>> /\ pc \notin {"loop", "callback", "indexed"}
    /\ loads = 1 => values \in Inputs
    /\ DOMAIN index = 1..(pos - 1)
    /\ DOMAIN reverseIndex = { values[k] : k \in 1..Known }
    /\ ScanHolds

FirstLoadInv == loads <= 1 => FirstLoad

LEMMA FirstValues ==
    ASSUME SortedInputs, LoadInv, FirstLoad, loads \in 0..1
    PROVE  /\ Len(values) \in Nat /\ pos \in Nat \ {0} /\ pos - 1 \in 0..Len(values)
           /\ \A k \in 1..Len(values) : values[k] \in Strings
           /\ \A i, j \in 1..Len(values) :
                 /\ i < j => LexLess(values[i], values[j])
                 /\ values[i] = values[j] => i = j
<1>1. values \in Seq(Strings) /\ pos \in Nat \ {0} /\ pos <= Len(values) + 1
  BY DEF LoadInv, LoaderInv, LoaderTypeOK, Strings
<1>2. Len(values) \in Nat /\ pos - 1 \in 0..Len(values)
  BY <1>1
<1>3. \A k \in 1..Len(values) : values[k] \in Strings
  BY <1>1
<1>4. ASSUME NEW i \in 1..Len(values), NEW j \in 1..Len(values), i < j
      PROVE  LexLess(values[i], values[j]) /\ values[i] # values[j]
  <2>1. loads = 1
    <3>1. loads = 0 => Len(values) = 0
      BY DEF FirstLoad
    <3>. QED  BY <3>1, <1>4
  <2>2. LexLess(values[i], values[j])
    BY <2>1, <1>4 DEF FirstLoad, SortedInputs
  <2>. QED  BY <2>2, <1>3, LexAsymmetric
<1>5. ASSUME NEW i \in 1..Len(values), NEW j \in 1..Len(values), values[i] = values[j]
      PROVE  i = j
  <2>1. ~(i < j) /\ ~(j < i)
    BY <1>4, <1>5
  <2>. QED  BY <2>1
<1>. QED  BY <1>1, <1>2, <1>3, <1>4, <1>5

\* Every leaf leads to one of the values of the load.
LEMMA LeafReads ==
    ASSUME LoadInv, FirstLoad, NEW leaf, Leads(pages, build.strategy, leaf)
    PROVE  \E k \in 1..Loaded : \E p \in 1..Len(pages) : \E o \in DOMAIN pages[p].cells :
              /\ Decodes(leaf) /\ DecodeLeaf(leaf) = GotoOffset(p, o)
              /\ pages[p].cells[o].id = k
              /\ IdOf(leaf) = k /\ IdAt(pages, build.strategy, leaf) = k
              /\ ValueOf(leaf) = values[k] /\ TextAt(pages, build.strategy, leaf) = values[k]
<1>. DEFINE by == build.strategy
            p == LeafPage(leaf)
            o == Place(pages, by, leaf)
<1>1. /\ Decodes(leaf) /\ o \in DOMAIN pages[p].cells /\ DecodeLeaf(leaf) = GotoOffset(p, o)
      /\ ValueOf(leaf) = Text(pages[p], o) /\ TextAt(pages, by, leaf) = Text(pages[p], o)
      /\ IdOf(leaf) = pages[p].cells[o].id /\ IdAt(pages, by, leaf) = pages[p].cells[o].id
  BY LeadsDecodes DEF LoadInv, TextAt, IdAt, CellsAt
<1>2. p \in 1..Len(pages)
  BY DEF Leads
<1>. HIDE DEF o, p
<1>3. PICK k \in 1..Loaded : pages[p].cells[o].id = Id(k) /\ Text(pages[p], o) = values[k]
  BY <1>1, <1>2 DEF FirstLoad, OneLoadInv, TextsHold
<1>4. Id(k) = k
  BY <1>3 DEF Id, FirstLoad
<1>. QED  BY <1>1, <1>2, <1>3, <1>4

LEMMA KeyReads ==
    ASSUME SortedInputs, LoadInv, LeafInv, FirstLoad, loads \in 0..1, ~InCallback,
           NEW k \in 1..(pos - 1)
    PROVE  LET leaf == reverseIndex[values[k]]
           IN  /\ values[k] \in DOMAIN reverseIndex
               /\ \E p \in 1..Len(pages) : \E o \in DOMAIN pages[p].cells :
                     /\ Decodes(leaf) /\ DecodeLeaf(leaf) = GotoOffset(p, o)
                     /\ pages[p].cells[o].id = k /\ IdOf(leaf) = k /\ ValueOf(leaf) = values[k]
<1>. DEFINE leaf == reverseIndex[values[k]]
<1>1. values[k] \in DOMAIN reverseIndex /\ Loaded = pos - 1
  BY DEF FirstLoad, Known, InCallback, Loaded
<1>2. Leads(pages, build.strategy, leaf) /\ TextAt(pages, build.strategy, leaf) = values[k]
  BY <1>1 DEF LeafInv
<1>. HIDE DEF leaf
<1>3. PICK j \in 1..Loaded : \E p \in 1..Len(pages) : \E o \in DOMAIN pages[p].cells :
              /\ Decodes(leaf) /\ DecodeLeaf(leaf) = GotoOffset(p, o)
              /\ pages[p].cells[o].id = j /\ IdOf(leaf) = j
              /\ ValueOf(leaf) = values[j] /\ TextAt(pages, build.strategy, leaf) = values[j]
  BY <1>2, LeafReads
<1>4. j = k
  <2>1. values[j] = values[k]
    BY <1>2, <1>3
  <2>2. j \in 1..Len(values) /\ k \in 1..Len(values)
    BY <1>1, FirstValues
  <2>. QED  BY <2>1, <2>2, FirstValues
<1>. QED  BY <1>1, <1>3, <1>4 DEF leaf

LEMMA IdReads ==
    ASSUME LoadInv, LeafInv, FirstLoad, NEW k \in DOMAIN index
    PROVE  Decodes(index[k]) /\ IdOf(index[k]) = k /\ ValueOf(index[k]) = values[k]
<1>1. Leads(pages, build.strategy, index[k]) /\ IdAt(pages, build.strategy, index[k]) = k
  BY DEF LeafInv
<1>. QED  BY <1>1, LeafReads

\* In sorted strings those with a prefix are a range, and its ends are what
\* HAT::rangeLookup finds.
LEMMA RangeEnds ==
    ASSUME SortedInputs, LoadInv, FirstLoad, loads \in 0..1, ~InCallback,
           NEW prefix \in Queries, Matching(prefix) # {}
    PROVE  \E first, last \in 1..(pos - 1) :
              /\ first <= last
              /\ FirstKey(Matching(prefix)) = values[first]
              /\ LastKey(Matching(prefix)) = values[last]
              /\ \A j \in 1..(pos - 1) : StartsWith(values[j], prefix) <=> j \in first..last
<1>. DEFINE keys == Matching(prefix)
            n == pos - 1
<1>1. n \in Nat /\ AscendTo(values, n)
  <2>1. /\ Len(values) \in Nat /\ pos \in Nat \ {0} /\ pos - 1 \in 0..Len(values)
        /\ \A k \in 1..Len(values) : values[k] \in Strings
        /\ \A i, j \in 1..Len(values) : i < j => LexLess(values[i], values[j])
    BY FirstValues
  <2>2. \A j \in 1..(pos - 1) : j \in 1..Len(values)
    BY <2>1
  <2>. QED  BY <2>1, <2>2 DEF AscendTo
<1>2. prefix \in Strings
  BY QueriesAssumption DEF Strings
<1>3. keys = WithPrefix(values, n, prefix)
  BY DEF Matching, FirstLoad, Known, InCallback, WithPrefix
<1>4. FirstKey(keys) = Smallest(keys) /\ LastKey(keys) = Largest(keys)
  BY DEF FirstKey, LastKey, Smallest, Largest
<1>. HIDE DEF keys, n
<1>5. IsRangeOf(keys, values, n, prefix)
  <2>1. keys # {}
    BY DEF keys
  <2>. QED  BY <1>1, <1>2, <1>3, <2>1, PrefixIsRange
<1>. QED  BY <1>4, <1>5 DEF keys, n, IsRangeOf

\* The callback is called for the value that the loop is at.
LEMMA CallbackValue ==
    ASSUME LoadInv, FirstLoad, InCallback
    PROVE  pending.value = values[pos] /\ pending.id = pos /\ pos \in Nat \ {0}
<1>. DEFINE p == pending.page
            o == pending.offset
<1>1. /\ p \in 1..Len(pages) /\ o \in DOMAIN pages[p].cells
      /\ pending.id = Id(pos) /\ ReadsPending(GotoOffset(p, o))
      /\ pos \in Nat \ {0} /\ LoaderInv
  BY DEF LoadInv, LoaderInv, CallbackHolds, LoaderTypeOK
<1>. HIDE DEF p, o
<1>2. Text(pages[p], o) = pending.value /\ pages[p].cells[o].id = pending.id
  BY <1>1, GotoOffsetReads DEF ReadsPending
<1>3. PICK k \in 1..Loaded : pages[p].cells[o].id = Id(k) /\ Text(pages[p], o) = values[k]
  BY <1>1 DEF FirstLoad, OneLoadInv, TextsHold
<1>4. Id(k) = k /\ Id(pos) = pos
  BY <1>1, <1>3 DEF Id, FirstLoad
<1>. QED  BY <1>1, <1>2, <1>3, <1>4

LEMMA FirstLoadStarts ==
    ASSUME LoadInv, FirstLoad, loads \in Nat, loads' <= 1, NEW vs \in Inputs, BulkInsert(vs)
    PROVE  FirstLoad'
<1>1. /\ loads' = loads + 1 /\ Load(vs, nextId) /\ firstId' = nextId /\ pc' = "loop"
      /\ pos' = 1 /\ values' = vs /\ UNCHANGED <<index, reverseIndex>>
      /\ pc \in {"ready", "threw"}
  BY DEF BulkInsert, Load, AtRest
<1>2. loads = 0
  BY <1>1
<1>3. pages = <<>> /\ values = <<>> /\ Len(pages) = 0 /\ Len(values) = 0
  BY <1>2 DEF FirstLoad
<1>4. nextId = 1 /\ pos = 1
  BY <1>3 DEF LoadInv, LoaderInv, LoaderTypeOK, FirstLoad
<1>5. OneLoadInv'
  BY <1>1, <1>3, OneLoadLoad
<1>6. DOMAIN index = {} /\ DOMAIN reverseIndex = {}
  BY <1>1, <1>4 DEF FirstLoad, Known
<1>7. Known' = 0
  BY <1>1 DEF Known
<1>8. DOMAIN index' = 1..(pos' - 1) /\ DOMAIN reverseIndex' = { values'[k] : k \in 1..Known' }
  BY <1>1, <1>6, <1>7
<1>9. ScanHolds'
  BY <1>1 DEF ScanHolds
<1>10. firstId' = 1 /\ loads' # 0 /\ values' \in Inputs
  BY <1>1, <1>2, <1>4
<1>. QED  BY <1>5, <1>8, <1>9, <1>10, Zenon DEF FirstLoad

LEMMA FirstLoadWrites ==
    ASSUME FitsWidths, LoadInv, FirstLoad, WriteValue \/ BulkInsertThrows \/ BulkInsertReturns
    PROVE  FirstLoad'
<1>1. OneLoadInv'
  <2>1. LoaderInv /\ OrderInv /\ OneLoadInv /\ PageSize <= OffsetRange
    BY DEF LoadInv, FirstLoad, FitsWidths
  <2>. QED
    BY <2>1, OneLoadStartPage, OneLoadAppendDelta, OneLoadThrow, OneLoadFinish
       DEF WriteValue, BulkInsertThrows, BulkInsertReturns
<1>2. /\ pc = "loop" /\ pc' \in {"callback", "threw", "ready", "crashed"}
      /\ UNCHANGED <<firstId, values, pos, loads, index, reverseIndex>>
  BY DEF WriteValue, BulkInsertThrows, BulkInsertReturns, StartPage, AppendDelta, Throw,
         Finish, Looping, Call
<1>3. loads # 0
  BY <1>2 DEF FirstLoad
<1>4. Known' = Known
  BY <1>2 DEF Known
<1>5. ScanHolds'
  BY <1>2 DEF ScanHolds
<1>. QED  BY <1>1, <1>2, <1>3, <1>4, <1>5 DEF FirstLoad

LEMMA FirstLoadIndexes ==
    ASSUME LoadInv, FirstLoad, InsertReverse \/ InsertId
    PROVE  FirstLoad'
<1>1. /\ UNCHANGED <<pages, values, firstId, current, dataPtr, ref, delta, pending, loads>>
      /\ pc' # "scan" /\ InCallback
      /\ \/ pos' = pos /\ InCallback'
         \/ pos' = pos + 1 /\ pc' = "loop"
  BY DEF InsertReverse, InsertId, InCallback
<1>2. /\ pending.value = values[pos] /\ pending.id = pos /\ pos \in Nat \ {0}
  BY <1>1, CallbackValue
<1>3. OneLoadInv'
  BY <1>1, <1>2, OneLoadElsewhere DEF FirstLoad
<1>4. loads # 0
  BY <1>1 DEF FirstLoad, InCallback
<1>5. ScanHolds'
  BY <1>1 DEF ScanHolds
<1>6. CASE InsertReverse
  <2>1. /\ pos' = pos /\ pc = "callback" /\ pc' = "indexed" /\ index' = index
        /\ DOMAIN reverseIndex' = DOMAIN reverseIndex \union {values[pos]}
    BY <1>2, <1>6 DEF InsertReverse, With
  <2>2. Known = pos - 1 /\ Known' = pos
    BY <2>1 DEF Known
  <2>3. \A k : k \in 1..pos <=> k \in 1..(pos - 1) \/ k = pos
    BY <1>2
  <2>4. DOMAIN reverseIndex' = { values[k] : k \in 1..pos }
    BY <2>1, <2>2, <2>3 DEF FirstLoad
  <2>5. DOMAIN reverseIndex' = { values'[k] : k \in 1..Known' } /\ DOMAIN index' = 1..(pos' - 1)
    BY <1>1, <2>1, <2>2, <2>4 DEF FirstLoad
  <2>. QED  BY <1>1, <1>3, <1>4, <1>5, <2>5 DEF FirstLoad
<1>7. CASE InsertId
  <2>1. /\ pos' = pos + 1 /\ pc = "indexed" /\ pc' = "loop" /\ reverseIndex' = reverseIndex
        /\ DOMAIN index' = DOMAIN index \union {pos}
    BY <1>2, <1>7 DEF InsertId, With
  <2>2. Known = pos /\ Known' = pos
    BY <1>2, <2>1 DEF Known
  <2>3. DOMAIN index' = 1..(pos' - 1)
    BY <1>2, <2>1 DEF FirstLoad
  <2>. QED  BY <1>1, <1>3, <1>4, <1>5, <2>1, <2>2, <2>3 DEF FirstLoad
<1>. QED  BY <1>6, <1>7

\* The steps of lookups and scans leave all but the scan as it is.
LEMMA FirstLoadReads ==
    ASSUME LoadInv, FirstLoad,
           UNCHANGED <<pages, values, firstId, pos, current, dataPtr, ref, delta, pending,
                       build, nextId, loads, index, reverseIndex>>,
           pc \in {"ready", "threw", "scan"}, pc' \in {"ready", "threw", "scan", "crashed"},
           ScanHolds'
    PROVE  FirstLoad'
<1>1. OneLoadInv'
  BY OneLoadElsewhere DEF FirstLoad, LoadInv, LoaderInv, LoaderTypeOK, InCallback
<1>2. Known' = Known
  BY DEF Known
<1>. QED  BY <1>1, <1>2 DEF FirstLoad

LEMMA ListedGrows ==
    ASSUME NEW first \in Nat, NEW k \in Nat, first <= k
    PROVE  /\ Listed(first, first - 1) = <<>>
           /\ Append(Listed(first, k - 1), Entry(k, values[k])) = Listed(first, k)
BY ListingGrows DEF Listed, Entry

\* rangeLookup enters its loop at the first value with the prefix.
LEMMA ScanStarts ==
    ASSUME SortedInputs, LoadInv, LeafInv, FirstLoad, loads \in 0..1,
           NEW prefix \in Queries, RangeLookup(prefix)
    PROVE  /\ ScanHolds'
           /\ Matching(prefix) # {} => pc' = "scan" /\ UNCHANGED answer
<1>. DEFINE keys == Matching(prefix)
            leaf == reverseIndex[FirstKey(keys)]
            end  == reverseIndex[LastKey(keys)]
<1>1. /\ pc \in {"ready", "threw"}
      /\ IF keys = {} THEN Answer("range", prefix, <<>>) /\ UNCHANGED <<scan, pc>>
         ELSE IF Decodes(leaf) /\ Decodes(end)
         THEN /\ scan' = [it |-> DecodeLeaf(leaf), endId |-> IdOf(end),
                          prefix |-> prefix, out |-> <<>>]
              /\ pc' = "scan"
              /\ UNCHANGED answer
         ELSE Abort /\ UNCHANGED scan
      /\ UNCHANGED <<pages, values, pos>>
  BY DEF RangeLookup, AtRest
<1>2. CASE keys = {}
  BY <1>1, <1>2 DEF ScanHolds
<1>3. CASE keys # {}
  <2>1. ~InCallback /\ pos \in Nat
    BY <1>1, FirstValues DEF InCallback
  <2>2. PICK first, last \in 1..(pos - 1) :
           /\ first <= last /\ FirstKey(keys) = values[first] /\ LastKey(keys) = values[last]
           /\ \A j \in 1..(pos - 1) : StartsWith(values[j], prefix) <=> j \in first..last
    BY <1>3, <2>1, RangeEnds
  <2>3. PICK p \in 1..Len(pages) : \E o \in DOMAIN pages[p].cells :
           /\ Decodes(leaf) /\ DecodeLeaf(leaf) = GotoOffset(p, o) /\ pages[p].cells[o].id = first
    BY <2>1, <2>2, KeyReads
  <2>4. PICK o \in DOMAIN pages[p].cells :
           /\ Decodes(leaf) /\ DecodeLeaf(leaf) = GotoOffset(p, o) /\ pages[p].cells[o].id = first
    BY <2>3
  <2>5. Decodes(end) /\ IdOf(end) = last
    BY <2>1, <2>2, KeyReads
  <2>. DEFINE b == IF o = 0 THEN Null ELSE p
  <2>6. DecodeLeaf(leaf) = Standing(p, o, b)
    BY <2>4, GotoOffsetReads DEF LoadInv
  <2>7. b \in 0..Len(pages) /\ (o # 0 => b = p)
    BY DEF Null
  <2>. HIDE DEF keys, leaf, end, b
  <2>8. /\ pc' = "scan" /\ UNCHANGED answer
        /\ scan' = [it |-> Standing(p, o, b), endId |-> last, prefix |-> prefix, out |-> <<>>]
    BY <1>1, <1>3, <2>4, <2>5, <2>6
  <2>9. Listed(first, first - 1)' = <<>> /\ Standing(p, o, b)' = Standing(p, o, b)
    <3>1. Listed(first, first - 1) = <<>>
      BY ListedGrows
    <3>2. Listed(first, first - 1)' = Listed(first, first - 1)
      BY <1>1 DEF Listed, Entry
    <3>. QED  BY <1>1, <3>1, <3>2 DEF Standing
  <2>10. ScanAt(first, last, first, p, o, b)'
    BY <1>1, <2>2, <2>4, <2>7, <2>8, <2>9 DEF ScanAt
  <2>11. first \in first..last
    BY <2>2
  <2>12. ScanHolds'
    BY <1>1, <2>7, <2>10, <2>11 DEF ScanHolds
  <2>. QED  BY <2>8, <2>12
<1>. QED  BY <1>2, <1>3

\* What one turn of the loop reads.
LEMMA ScanReads ==
    ASSUME LoadInv, FirstLoad, pc = "scan",
           NEW first \in 1..(pos - 1), NEW last \in 1..(pos - 1), NEW k \in first..last,
           NEW p \in 1..Len(pages), NEW o \in DOMAIN pages[p].cells, NEW b,
           ScanAt(first, last, k, p, o, b)
    PROVE  /\ Valid(scan.it) /\ HasValue(scan.it)
           /\ Dereferenced(scan.it) = Standing(p, o, p)
           /\ GetId(Dereferenced(scan.it)) = k
           /\ GetValue(Dereferenced(scan.it)) = values[k]
           /\ scan.endId = last /\ Loaded = pos - 1
<1>1. /\ scan.it = Standing(p, o, b) /\ pages[p].cells[o].id = k /\ (o # 0 => b = p)
      /\ scan.endId = last
  BY DEF ScanAt
<1>2. PICK j \in 1..Loaded : pages[p].cells[o].id = Id(j) /\ Text(pages[p], o) = values[j]
  BY DEF FirstLoad, OneLoadInv, TextsHold
<1>3. j = k
  BY <1>1, <1>2 DEF Id, FirstLoad
<1>4. /\ AtCell(scan.it) /\ HasValue(scan.it) /\ Dereferenced(scan.it) = Standing(p, o, p)
      /\ GetId(Dereferenced(scan.it)) = k /\ GetValue(Dereferenced(scan.it)) = values[k]
  BY <1>1, <1>2, <1>3, StandingReads DEF LoadInv
<1>. QED  BY <1>1, <1>4 DEF Valid, Loaded, InCallback

LEMMA ScanGoesOn ==
    ASSUME SortedInputs, LoadInv, FirstLoad, loads \in 0..1, ScanNext
    PROVE  ScanHolds' /\ pc' = "scan" /\ UNCHANGED answer
<1>1. pc = "scan" /\ UNCHANGED <<pages, values, pos>>
  BY DEF ScanNext
<1>2. PICK first, last \in 1..(pos - 1) : \E k \in first..last :
         \E p \in 1..Len(pages) : \E o \in DOMAIN pages[p].cells, b \in 0..Len(pages) :
            ScanAt(first, last, k, p, o, b)
  BY <1>1 DEF FirstLoad, ScanHolds
<1>3. PICK k \in first..last : \E p \in 1..Len(pages) :
         \E o \in DOMAIN pages[p].cells, b \in 0..Len(pages) : ScanAt(first, last, k, p, o, b)
  BY <1>2
<1>4. PICK p \in 1..Len(pages) : \E o \in DOMAIN pages[p].cells, b \in 0..Len(pages) :
         ScanAt(first, last, k, p, o, b)
  BY <1>3
<1>5. PICK o \in DOMAIN pages[p].cells, b \in 0..Len(pages) : ScanAt(first, last, k, p, o, b)
  BY <1>4
<1>. DEFINE here == Dereferenced(scan.it)
<1>6. /\ HasValue(scan.it) /\ here = Standing(p, o, p) /\ GetId(here) = k /\ GetValue(here) = values[k]
      /\ scan.endId = last /\ Loaded = pos - 1
  BY <1>1, <1>5, ScanReads
<1>. HIDE DEF here
<1>7. /\ k # last
      /\ scan' = [it |-> Increment(here), endId |-> last, prefix |-> scan.prefix,
                  out |-> Append(scan.out, Entry(k, values[k]))]
      /\ UNCHANGED <<pc, answer>>
  BY <1>6, Zenon DEF ScanNext, here
<1>8. pos \in Nat /\ k \in 1..(pos - 1) /\ k + 1 \in first..last /\ k \in Nat /\ first <= k
  <2>1. pos \in Nat
    BY FirstValues
  <2>. QED  BY <2>1, <1>7
<1>9. PICK q \in 1..Len(pages) : \E x \in DOMAIN pages[q].cells :
          /\ pages[q].cells[x].id = Id(k + 1)
          /\ x # 0 => q = p
          /\ Increment(Standing(p, o, p)) = Standing(q, x, p)
  <2>1. k \in 1..Loaded /\ k # Loaded
    BY <1>6, <1>7, <1>8
  <2>2. pages[p].cells[o].id = Id(k)
    BY <1>5, <1>8 DEF ScanAt, Id, FirstLoad
  <2>. QED  BY <2>1, <2>2, StandingSteps DEF LoadInv, FirstLoad
<1>10. PICK x \in DOMAIN pages[q].cells :
          /\ pages[q].cells[x].id = Id(k + 1)
          /\ x # 0 => q = p
          /\ Increment(Standing(p, o, p)) = Standing(q, x, p)
  BY <1>9
<1>11. pages[q].cells[x].id = k + 1
  BY <1>8, <1>10 DEF Id, FirstLoad
<1>12. /\ scan.out = Listed(first, k - 1) /\ scan.prefix \in Queries
       /\ \A j \in 1..(pos - 1) : StartsWith(values[j], scan.prefix) <=> j \in first..last
  <2>1. scan = [it |-> Standing(p, o, b), endId |-> last, prefix |-> scan.prefix,
                out |-> Listed(first, k - 1)]
    BY <1>5 DEF ScanAt
  <2>2. /\ scan.prefix \in Queries
        /\ \A j \in 1..(pos - 1) : StartsWith(values[j], scan.prefix) <=> j \in first..last
    BY <1>5 DEF ScanAt
  <2>. QED  BY <2>1, <2>2
<1>13. scan' = [it |-> Standing(q, x, p), endId |-> last, prefix |-> scan.prefix, out |-> Listed(first, k)]
  <2>1. Append(scan.out, Entry(k, values[k])) = Listed(first, k)
    <3>1. first \in Nat
      BY <1>8
    <3>. QED  BY <3>1, <1>8, <1>12, ListedGrows
  <2>2. Increment(here) = Standing(q, x, p)
    BY <1>6, <1>10
  <2>. QED  BY <2>1, <2>2, <1>7
<1>14. Standing(q, x, p)' = Standing(q, x, p) /\ Listed(first, (k + 1) - 1)' = Listed(first, k)
  <2>1. (k + 1) - 1 = k
    BY <1>8
  <2>. QED  BY <1>1, <2>1 DEF Standing, Listed, Entry
<1>15. ScanAt(first, last, k + 1, q, x, p)'
  BY <1>1, <1>10, <1>11, <1>12, <1>13, <1>14 DEF ScanAt
<1>16. p \in 0..Len(pages)
  OBVIOUS
<1>17. ScanHolds'
  BY <1>1, <1>8, <1>15, <1>16 DEF ScanHolds
<1>. QED  BY <1>1, <1>7, <1>17

\* In the first load no scan meets a page that was never written.
LEMMA ScanNotAstray ==
    ASSUME LoadInv, FirstLoad
    PROVE  ~ScanAstray
<1>1. SUFFICES ASSUME ScanAstray PROVE FALSE
  OBVIOUS
<1>2. pc = "scan" /\ DOMAIN pages[scan.it.page].cells = {}
  BY <1>1 DEF ScanAstray, Uninitialised
<1>3. PICK first, last \in 1..(pos - 1) : \E k \in first..last :
         \E p \in 1..Len(pages) : \E o \in DOMAIN pages[p].cells, b \in 0..Len(pages) :
            ScanAt(first, last, k, p, o, b)
  BY <1>2 DEF FirstLoad, ScanHolds
<1>4. PICK k \in first..last : \E p \in 1..Len(pages) :
         \E o \in DOMAIN pages[p].cells, b \in 0..Len(pages) : ScanAt(first, last, k, p, o, b)
  BY <1>3
<1>5. PICK p \in 1..Len(pages) : \E o \in DOMAIN pages[p].cells, b \in 0..Len(pages) :
         ScanAt(first, last, k, p, o, b)
  BY <1>4
<1>6. PICK o \in DOMAIN pages[p].cells, b \in 0..Len(pages) : ScanAt(first, last, k, p, o, b)
  BY <1>5
<1>7. HasValue(scan.it)
  BY <1>2, <1>6, ScanReads
<1>. QED  BY <1>2, <1>7 DEF HasValue, AtCell

LEMMA FirstLoadInit ==
    ASSUME Init
    PROVE  FirstLoad
<1>1. /\ firstId = 1 /\ pages = <<>> /\ values = <<>> /\ pos = 1 /\ pc = "ready" /\ loads = 0
      /\ DOMAIN index = {} /\ DOMAIN reverseIndex = {}
  BY DEF Init, LoaderInit
<1>2. OneLoadInv
  BY OneLoadInit DEF Init
<1>. QED  BY <1>1, <1>2 DEF FirstLoad, Known, ScanHolds

LEMMA FirstLoadStep ==
    ASSUME SortedInputs, FitsWidths, LoadInv, LeafInv, loads \in Nat, FirstLoadInv, [Next]_vars
    PROVE  FirstLoadInv'
<1>. SUFFICES ASSUME loads' <= 1 PROVE FirstLoad'
  BY DEF FirstLoadInv
<1>1. ASSUME NEW vs \in Inputs, BulkInsert(vs)
      PROVE  FirstLoad'
  <2>1. loads <= 1
    BY <1>1 DEF BulkInsert
  <2>. QED  BY <1>1, <2>1, FirstLoadStarts DEF FirstLoadInv
<1>2. CASE WriteValue \/ BulkInsertThrows \/ BulkInsertReturns
  <2>1. loads' = loads
    BY <1>2 DEF WriteValue, BulkInsertThrows, BulkInsertReturns
  <2>. QED  BY <1>2, <2>1, FirstLoadWrites DEF FirstLoadInv
<1>3. CASE InsertReverse \/ InsertId
  <2>1. loads' = loads
    BY <1>3 DEF InsertReverse, InsertId
  <2>. QED  BY <1>3, <2>1, FirstLoadIndexes DEF FirstLoadInv
<1>4. CASE \/ \E s \in Queries : LookupValue(s)
           \/ \E i \in 0..MaxId : LookupId(i)
           \/ ScanBreaks \/ ScanRunsOut
  <2>1. /\ UNCHANGED <<pages, values, firstId, pos, current, dataPtr, ref, delta, pending,
                       build, nextId, loads, index, reverseIndex>>
        /\ pc \in {"ready", "threw", "scan"} /\ pc' \in {"ready", "threw", "crashed"}
    BY <1>4 DEF LookupValue, LookupId, AnswerOrAbort, Abort, AtRest, ScanBreaks, ScanRunsOut, ScanEnds
  <2>2. ScanHolds'
    BY <2>1 DEF ScanHolds
  <2>3. FirstLoad
    BY <2>1 DEF FirstLoadInv
  <2>. QED  BY <2>1, <2>2, <2>3, FirstLoadReads
<1>5. ASSUME NEW prefix \in Queries, RangeLookup(prefix)
      PROVE  FirstLoad'
  <2>1. /\ UNCHANGED <<pages, values, firstId, pos, current, dataPtr, ref, delta, pending,
                       build, nextId, loads, index, reverseIndex>>
        /\ pc \in {"ready", "threw", "scan"} /\ pc' \in {"ready", "threw", "scan", "crashed"}
    BY <1>5 DEF RangeLookup, Abort, AtRest
  <2>2. FirstLoad /\ loads \in 0..1
    BY <2>1 DEF FirstLoadInv
  <2>3. ScanHolds'
    BY <1>5, <2>2, ScanStarts
  <2>. QED  BY <2>1, <2>2, <2>3, FirstLoadReads
<1>6. CASE ScanNext
  <2>1. /\ UNCHANGED <<pages, values, firstId, pos, current, dataPtr, ref, delta, pending,
                       build, nextId, loads, index, reverseIndex>>
        /\ pc = "scan"
    BY <1>6 DEF ScanNext
  <2>2. FirstLoad /\ loads \in 0..1
    BY <2>1 DEF FirstLoadInv
  <2>3. ScanHolds' /\ pc' = "scan"
    BY <1>6, <2>2, ScanGoesOn
  <2>. QED  BY <2>1, <2>2, <2>3, FirstLoadReads
<1>7. ~ScanAstray
  <2>1. ASSUME ScanAstray PROVE FirstLoad
    <3>1. loads' = loads
      BY <2>1 DEF ScanAstray
    <3>. QED  BY <3>1 DEF FirstLoadInv
  <2>. QED  BY <2>1, ScanNotAstray
<1>8. CASE UNCHANGED vars
  <2>1. /\ UNCHANGED <<pages, values, firstId, pos, current, dataPtr, ref, delta, pending, pc,
                       nextId, loads, index, reverseIndex, scan>>
    BY <1>8 DEF vars
  <2>2. FirstLoad
    BY <2>1 DEF FirstLoadInv
  <2>3. OneLoadInv'
    BY <2>1, <2>2, OneLoadElsewhere DEF FirstLoad, LoadInv, LoaderInv, LoaderTypeOK, InCallback
  <2>4. Known' = Known /\ ScanHolds' = ScanHolds
    BY <2>1 DEF Known, ScanHolds, ScanAt, Standing, Listed, Entry
  <2>. QED  BY <2>1, <2>2, <2>3, <2>4 DEF FirstLoad
<1>. QED
  BY <1>1, <1>2, <1>3, <1>4, <1>5, <1>6, <1>7, <1>8 DEF Next, LoadStep, ScanStep

-----------------------------------------------------------------------------
(* The steps of the promise.                                               *)

LEMMA StoredIs ==
    ASSUME SortedInputs, LoadInv, FirstLoad, loads \in 0..1, pc \in {"ready", "threw", "scan"}
    PROVE  /\ DOMAIN Stored = 1..(pos - 1)
           /\ \A k \in 1..(pos - 1) : Stored[k] = values[k]
<1>1. values \in Seq(Strings) /\ pos - 1 \in 0..Len(values)
  BY FirstValues DEF LoadInv, LoaderInv, LoaderTypeOK, Strings
<1>2. Stored = SubSeq(values, 1, pos - 1)
  BY DEF Stored
<1>. QED  BY <1>1, <1>2, SubSeqProperties

\* What Listed gives is what the promise asks for.
LEMMA ListedLists ==
    ASSUME SortedInputs, LoadInv, FirstLoad, loads \in 0..1, pc \in {"ready", "threw", "scan"},
           NEW first \in 1..(pos - 1), NEW last \in 1..(pos - 1), first <= last
    PROVE  Promise!Lists(Listed(first, last), first..last)
<1>. DEFINE E == Promise!Entries
<1>1. /\ DOMAIN Stored = 1..(pos - 1) /\ pos \in Nat
      /\ \A k \in 1..(pos - 1) : Stored[k] = values[k]
  BY StoredIs, FirstValues
<1>2. Holds(E, values, first, last)
  <2>1. \A k \in first..last : k \in DOMAIN Stored /\ Stored[k] = values[k]
    BY <1>1
  <2>. QED  BY <2>1 DEF Promise!Entries, Holds
<1>. HIDE DEF E
<1>3. first \in Nat /\ last \in Nat /\ first <= last
  BY <1>1
<1>4. ListsThe(Listing(values, first, last), E, first..last)
  BY <1>2, <1>3, ListingLists
<1>. QED  BY <1>4 DEF Promise!Lists, Listed, ListsThe, E

LEMMA NothingLists == Promise!Lists(<<>>, {})
<1>1. DOMAIN <<>> = {} /\ <<>> \in Seq(Promise!Entries)
  OBVIOUS
<1>. QED  BY <1>1 DEF Promise!Lists

LEMMA OneLists ==
    ASSUME SortedInputs, LoadInv, FirstLoad, loads \in 0..1, pc \in {"ready", "threw", "scan"},
           NEW k \in 1..(pos - 1)
    PROVE  Promise!Lists(<<Entry(k, values[k])>>, {k})
<1>1. k \in Nat /\ pos \in Nat
  BY FirstValues
<1>2. Listed(k, k) = <<Entry(k, values[k])>>
  <2>1. k - k + 1 = 1 /\ k + 1 - 1 = k
    BY <1>1
  <2>2. Listed(k, k) = [n \in 1..1 |-> Entry(k + n - 1, values[k + n - 1])]
    BY <2>1 DEF Listed, Listing, Entry
  <2>. QED  BY <2>1, <2>2
<1>3. k..k = {k}
  BY <1>1
<1>4. k <= k
  BY <1>1
<1>5. Promise!Lists(Listed(k, k), k..k)
  BY <1>4, ListedLists, Zenon
<1>. QED  BY <1>2, <1>3, <1>5

LEMMA LookupValueKeeps ==
    ASSUME SortedInputs, LoadInv, LeafInv, FirstLoad, loads \in 0..1,
           NEW s \in Queries, LookupValue(s)
    PROVE  Promise!LookupValue(s)
<1>. DEFINE leaf == reverseIndex[s]
            ids  == { id \in DOMAIN Stored : Stored[id] = s }
<1>1. /\ pc \in {"ready", "threw"}
      /\ \/ s \notin DOMAIN reverseIndex /\ Answer("value", s, <<>>) /\ UNCHANGED pc
         \/ /\ s \in DOMAIN reverseIndex
            /\ AnswerOrAbort(Decodes(leaf) /\ (build.debug => ValueOf(leaf) = s),
                             "value", s, <<Entry(IdOf(leaf), s)>>)
      /\ UNCHANGED <<values, pos>>
  BY DEF LookupValue, AtRest
<1>2. /\ DOMAIN Stored = 1..(pos - 1) /\ \A k \in 1..(pos - 1) : Stored[k] = values[k]
      /\ DOMAIN reverseIndex = { values[k] : k \in 1..(pos - 1) }
      /\ ~InCallback
  BY <1>1, StoredIs DEF FirstLoad, Known, InCallback
<1>3. CASE s \notin DOMAIN reverseIndex
  <2>1. ids = {}
    BY <1>2, <1>3
  <2>2. Answer("value", s, <<>>) /\ UNCHANGED pc
    BY <1>1, <1>3
  <2>3. Promise!Answer("value", s, {}) /\ UNCHANGED Stored
    BY <1>1, <2>2, NothingLists DEF Promise!Answer, Answer, Stored
  <2>. QED  BY <2>1, <2>3 DEF Promise!LookupValue
<1>4. CASE s \in DOMAIN reverseIndex
  <2>1. PICK k \in 1..(pos - 1) : s = values[k]
    BY <1>2, <1>4
  <2>2. Decodes(leaf) /\ IdOf(leaf) = k /\ ValueOf(leaf) = s
    BY <1>2, <2>1, KeyReads
  <2>3. ids = {k}
    BY <1>2, <2>1, FirstValues
  <2>. HIDE DEF leaf, ids
  <2>4. Answer("value", s, <<Entry(k, values[k])>>) /\ UNCHANGED pc
    BY <1>1, <1>4, <2>1, <2>2 DEF AnswerOrAbort
  <2>5. Promise!Lists(<<Entry(k, values[k])>>, {k})
    BY <1>1, OneLists
  <2>6. Promise!Answer("value", s, {k}) /\ UNCHANGED Stored
    BY <1>1, <2>4, <2>5 DEF Promise!Answer, Answer, Stored
  <2>. QED  BY <2>3, <2>6 DEF Promise!LookupValue, ids
<1>. QED  BY <1>3, <1>4

LEMMA LookupIdKeeps ==
    ASSUME SortedInputs, LoadInv, LeafInv, FirstLoad, loads \in 0..1,
           NEW i, LookupId(i)
    PROVE  Promise!LookupId(i)
<1>. DEFINE leaf == index[i]
            ids  == { id \in DOMAIN Stored : id = i }
<1>1. /\ pc \in {"ready", "threw"}
      /\ \/ i \notin DOMAIN index /\ Answer("id", <<i>>, <<>>) /\ UNCHANGED pc
         \/ /\ i \in DOMAIN index
            /\ AnswerOrAbort(Decodes(leaf) /\ (build.debug => IdOf(leaf) = i),
                             "id", <<i>>, <<Entry(i, ValueOf(leaf))>>)
      /\ UNCHANGED <<values, pos>>
  BY DEF LookupId, AtRest
<1>2. DOMAIN Stored = 1..(pos - 1) /\ DOMAIN index = 1..(pos - 1)
  BY <1>1, StoredIs DEF FirstLoad
<1>3. CASE i \notin DOMAIN index
  <2>1. ids = {}
    BY <1>2, <1>3
  <2>2. Answer("id", <<i>>, <<>>) /\ UNCHANGED pc
    BY <1>1, <1>3
  <2>3. Promise!Answer("id", <<i>>, {}) /\ UNCHANGED Stored
    BY <1>1, <2>2, NothingLists DEF Promise!Answer, Answer, Stored
  <2>. QED  BY <2>1, <2>3 DEF Promise!LookupId
<1>4. CASE i \in DOMAIN index
  <2>1. Decodes(leaf) /\ IdOf(leaf) = i /\ ValueOf(leaf) = values[i]
    BY <1>4, IdReads
  <2>2. ids = {i}
    BY <1>2, <1>4
  <2>. HIDE DEF leaf, ids
  <2>3. Answer("id", <<i>>, <<Entry(i, values[i])>>) /\ UNCHANGED pc
    BY <1>1, <1>4, <2>1 DEF AnswerOrAbort
  <2>4. Promise!Lists(<<Entry(i, values[i])>>, {i})
    BY <1>1, <1>2, <1>4, OneLists
  <2>5. Promise!Answer("id", <<i>>, {i}) /\ UNCHANGED Stored
    BY <1>1, <2>3, <2>4 DEF Promise!Answer, Answer, Stored
  <2>. QED  BY <2>2, <2>5 DEF Promise!LookupId, ids
<1>. QED  BY <1>3, <1>4

\* A range lookup without a match is answered at once, any other by its loop.
LEMMA RangeLookupKeeps ==
    ASSUME SortedInputs, LoadInv, LeafInv, FirstLoad, loads \in 0..1,
           NEW prefix \in Queries, RangeLookup(prefix)
    PROVE  Promise!RangeLookup(prefix) \/ UNCHANGED <<Stored, answer>>
<1>1. /\ pc \in {"ready", "threw"} /\ UNCHANGED <<values, pos>>
      /\ Matching(prefix) = {} => Answer("range", prefix, <<>>) /\ UNCHANGED pc
  BY DEF RangeLookup, AtRest
<1>2. /\ DOMAIN Stored = 1..(pos - 1) /\ \A k \in 1..(pos - 1) : Stored[k] = values[k]
      /\ DOMAIN reverseIndex = { values[k] : k \in 1..(pos - 1) }
  BY <1>1, StoredIs DEF FirstLoad, Known
<1>3. CASE Matching(prefix) = {}
  <2>1. { id \in DOMAIN Stored : StartsWith(Stored[id], prefix) } = {}
    BY <1>2, <1>3 DEF Matching
  <2>2. Answer("range", prefix, <<>>) /\ UNCHANGED pc
    BY <1>1, <1>3
  <2>3. Promise!Answer("range", prefix, {}) /\ UNCHANGED Stored
    BY <1>1, <2>2, NothingLists DEF Promise!Answer, Answer, Stored
  <2>. QED  BY <2>1, <2>3 DEF Promise!RangeLookup
<1>4. CASE Matching(prefix) # {}
  <2>1. pc' = "scan" /\ UNCHANGED answer
    BY <1>4, ScanStarts
  <2>. QED  BY <1>1, <2>1 DEF Stored
<1>. QED  BY <1>3, <1>4

\* The loop ends at the last value with the prefix, and at no other.
LEMMA ScanBreaksKeeps ==
    ASSUME SortedInputs, LoadInv, FirstLoad, loads \in 0..1, ScanBreaks \/ ScanRunsOut
    PROVE  \E prefix \in Queries : Promise!RangeLookup(prefix)
<1>1. pc = "scan" /\ UNCHANGED <<values, pos>> /\ pc' = "ready"
  BY DEF ScanBreaks, ScanRunsOut, ScanEnds
<1>2. PICK first, last \in 1..(pos - 1) : \E k \in first..last :
         \E p \in 1..Len(pages) : \E o \in DOMAIN pages[p].cells, b \in 0..Len(pages) :
            ScanAt(first, last, k, p, o, b)
  BY <1>1 DEF FirstLoad, ScanHolds
<1>3. PICK k \in first..last : \E p \in 1..Len(pages) :
         \E o \in DOMAIN pages[p].cells, b \in 0..Len(pages) : ScanAt(first, last, k, p, o, b)
  BY <1>2
<1>4. PICK p \in 1..Len(pages) : \E o \in DOMAIN pages[p].cells, b \in 0..Len(pages) :
         ScanAt(first, last, k, p, o, b)
  BY <1>3
<1>5. PICK o \in DOMAIN pages[p].cells, b \in 0..Len(pages) : ScanAt(first, last, k, p, o, b)
  BY <1>4
<1>. DEFINE here == Dereferenced(scan.it)
<1>6. /\ Valid(scan.it) /\ GetId(here) = k /\ GetValue(here) = values[k] /\ scan.endId = last
  BY <1>1, <1>5, ScanReads
<1>7. ScanBreaks
  BY <1>6 DEF ScanRunsOut
<1>8. k = last /\ ScanEnds(Append(scan.out, Entry(k, values[k])))
  BY <1>6, <1>7 DEF ScanBreaks
<1>9. /\ scan.out = Listed(first, k - 1) /\ scan.prefix \in Queries
      /\ \A j \in 1..(pos - 1) : StartsWith(values[j], scan.prefix) <=> j \in first..last
  <2>1. scan = [it |-> Standing(p, o, b), endId |-> last, prefix |-> scan.prefix,
                out |-> Listed(first, k - 1)]
    BY <1>5 DEF ScanAt
  <2>2. /\ scan.prefix \in Queries
        /\ \A j \in 1..(pos - 1) : StartsWith(values[j], scan.prefix) <=> j \in first..last
    BY <1>5 DEF ScanAt
  <2>. QED  BY <2>1, <2>2
<1>10. pos \in Nat /\ k \in Nat /\ first \in Nat /\ first <= k /\ first <= last
  <2>1. pos \in Nat
    BY FirstValues
  <2>. QED  BY <2>1
<1>11. Append(scan.out, Entry(k, values[k])) = Listed(first, last)
  BY <1>8, <1>9, <1>10, ListedGrows
<1>12. Answer("range", scan.prefix, Listed(first, last))
  BY <1>8, <1>11 DEF ScanEnds
<1>13. Promise!Lists(Listed(first, last), first..last)
  BY <1>1, <1>10, ListedLists
<1>14. { id \in DOMAIN Stored : StartsWith(Stored[id], scan.prefix) } = first..last
  <2>1. /\ DOMAIN Stored = 1..(pos - 1) /\ \A j \in 1..(pos - 1) : Stored[j] = values[j]
    BY <1>1, StoredIs
  <2>2. \A j \in first..last : j \in 1..(pos - 1)
    BY <1>10
  <2>3. \A j : j \in { id \in DOMAIN Stored : StartsWith(Stored[id], scan.prefix) }
                 <=> j \in first..last
    BY <1>9, <2>1, <2>2
  <2>. QED  BY <2>3
<1>15. Promise!Answer("range", scan.prefix, first..last) /\ UNCHANGED Stored
  BY <1>1, <1>12, <1>13 DEF Promise!Answer, Answer, Stored
<1>. QED  BY <1>9, <1>14, <1>15 DEF Promise!RangeLookup

\* A load takes effect when it returns, or is left by an exception.
LEMMA BulkInsertKeepsPromise ==
    ASSUME LoadInv, FirstLoad, loads \in 0..1, BulkInsertThrows \/ BulkInsertReturns
    PROVE  Promise!BulkInsert \/ UNCHANGED <<Stored, answer>>
<1>1. pc = "loop" /\ UNCHANGED <<values, pos>> /\ pos \in Nat \ {0} /\ pos <= Len(values) + 1
  BY DEF BulkInsertThrows, BulkInsertReturns, Throw, Finish, Looping, LoadInv, LoaderInv, LoaderTypeOK
<1>2. Stored = <<>> /\ values \in Inputs /\ Len(values) \in Nat
  BY <1>1, InputsAssumption DEF Stored, FirstLoad
<1>3. CASE BulkInsertThrows
  <2>1. /\ pc' = "threw" /\ pos <= Len(values) /\ ~FullFits(values[pos])
        /\ Answer("threw", <<>>, <<>>)
    BY <1>3 DEF BulkInsertThrows, Throw, Looping
  <2>. DEFINE n == pos - 1
  <2>2. n \in 0..Len(values) /\ n + 1 = pos /\ n # Len(values)
    BY <1>1, <1>2, <2>1
  <2>3. Stored' = SubSeq(values, 1, n)
    BY <1>1, <2>1 DEF Stored
  <2>. HIDE DEF n
  <2>4. answer' = [op |-> IF n = Len(values) THEN "inserted" ELSE "threw",
                   arg |-> <<>>, out |-> <<>>]
    BY <2>1, <2>2 DEF Answer
  <2>5. answer'.op \in {"inserted", "threw"}
    BY <2>4
  <2>. QED  BY <1>2, <2>1, <2>2, <2>3, <2>4, <2>5 DEF Promise!BulkInsert
<1>4. CASE BulkInsertReturns /\ pc' # "ready"
  BY <1>2, <1>4 DEF BulkInsertReturns, Finish, Stored
<1>5. CASE BulkInsertReturns /\ pc' = "ready"
  <2>1. pos > Len(values) /\ Answer("inserted", <<>>, <<>>)
    BY <1>5 DEF BulkInsertReturns, Finish
  <2>. DEFINE n == Len(values)
  <2>2. n \in 0..n /\ n = pos - 1
    BY <1>1, <1>2, <2>1
  <2>3. Stored' = SubSeq(values, 1, n)
    BY <1>1, <1>5, <2>2 DEF Stored
  <2>4. answer' = [op |-> IF n = Len(values) THEN "inserted" ELSE "threw",
                   arg |-> <<>>, out |-> <<>>]
    BY <2>1 DEF Answer
  <2>5. answer'.op \in {"inserted", "threw"}
    BY <2>4
  <2>. HIDE DEF n
  <2>6. ~(n < Len(values)) /\ n \in 0..Len(values)
    BY <1>2, <2>2 DEF n
  <2>. QED  BY <1>2, <2>3, <2>4, <2>5, <2>6 DEF Promise!BulkInsert
<1>. QED  BY <1>3, <1>4, <1>5

LEMMA PromiseStep ==
    ASSUME SortedInputs, LoadInv, LeafInv, loads \in Nat, FirstLoadInv, [Next]_vars, loads' <= 1
    PROVE  [Promise!Next]_<<Stored, answer>>
<1>1. ASSUME NEW vs \in Inputs, BulkInsert(vs)
      PROVE  UNCHANGED <<Stored, answer>>
  <2>1. loads = 0 /\ pc' = "loop" /\ pc \in {"ready", "threw"} /\ UNCHANGED answer
    BY <1>1 DEF BulkInsert, Load, AtRest
  <2>2. Stored = <<>>
    <3>1. FirstLoad /\ loads \in 0..1
      BY <2>1 DEF FirstLoadInv
    <3>2. values = <<>> /\ Stored = SubSeq(values, 1, pos - 1) /\ pos = 1
      BY <2>1, <3>1 DEF Stored, FirstLoad, LoadInv, LoaderInv, LoaderTypeOK
    <3>. QED  BY <3>2
  <2>. QED  BY <2>1, <2>2 DEF Stored
<1>2. CASE WriteValue \/ InsertReverse \/ InsertId
  <2>1. /\ pc \notin {"ready", "threw", "scan"} /\ pc' \notin {"ready", "threw", "scan"}
        /\ UNCHANGED answer
    BY <1>2 DEF WriteValue, StartPage, AppendDelta, Looping, Call, InsertReverse, InsertId
  <2>. QED  BY <2>1 DEF Stored
<1>3. CASE BulkInsertThrows \/ BulkInsertReturns
  <2>1. loads' = loads
    BY <1>3 DEF BulkInsertThrows, BulkInsertReturns
  <2>2. FirstLoad /\ loads \in 0..1
    BY <2>1 DEF FirstLoadInv
  <2>. QED  BY <1>3, <2>2, BulkInsertKeepsPromise DEF Promise!Next
<1>4. CASE \/ \E s \in Queries : LookupValue(s) \/ RangeLookup(s)
           \/ \E i \in 0..MaxId : LookupId(i)
           \/ ScanStep
  <2>1. loads' = loads
    BY <1>4 DEF LookupValue, RangeLookup, LookupId, ScanStep, ScanNext, ScanBreaks, ScanRunsOut, ScanAstray, ScanEnds
  <2>2. FirstLoad /\ loads \in 0..1
    BY <2>1 DEF FirstLoadInv
  <2>3. ASSUME NEW s \in Queries, LookupValue(s)
        PROVE  Promise!Next
    BY <2>2, <2>3, LookupValueKeeps DEF Promise!Next
  <2>4. ASSUME NEW s \in Queries, RangeLookup(s)
        PROVE  Promise!Next \/ UNCHANGED <<Stored, answer>>
    BY <2>2, <2>4, RangeLookupKeeps DEF Promise!Next
  <2>5. ASSUME NEW i \in 0..MaxId, LookupId(i)
        PROVE  Promise!Next
    BY <2>2, <2>5, LookupIdKeeps DEF Promise!Next
  <2>6. CASE ScanNext
    <3>1. UNCHANGED <<answer, values, pos, pc>>
      <4>1. pc = "scan" /\ UNCHANGED <<values, pos>>
        BY <2>6 DEF ScanNext
      <4>2. pc' = "scan" /\ UNCHANGED answer
        BY <2>2, <2>6, ScanGoesOn
      <4>. QED  BY <4>1, <4>2
    <3>. QED  BY <3>1 DEF Stored
  <2>7. CASE ScanBreaks \/ ScanRunsOut
    BY <2>2, <2>7, ScanBreaksKeeps DEF Promise!Next
  <2>8. ~ScanAstray
    BY <2>2, ScanNotAstray
  <2>. QED  BY <1>4, <2>3, <2>4, <2>5, <2>6, <2>7, <2>8 DEF ScanStep
<1>5. CASE UNCHANGED vars
  BY <1>5 DEF vars, Stored
<1>. QED  BY <1>1, <1>2, <1>3, <1>4, <1>5 DEF Next, LoadStep

\* StringDictionary implements Dictionary.hpp: over the first load, every lookup
\* by string, by id or by prefix gives exactly the entries with the strings that
\* were inserted, in order, also when the load was left by an exception, and in
\* a debug build no comparison fails (StringDictionary.cpp:16-98).
THEOREM DictionaryKeepsPromise ==
    ASSUME FitsWidths, FewPages, SortedInputs
    PROVE  Spec => KeepsPromise
<1>. DEFINE Inv == DictionaryInv /\ PageCount /\ FirstLoadInv
            Kept == loads' <= 1 => [Promise!Next]_<<Stored, answer>>
<1>1. Init => Inv /\ Promise!Init
  <2>1. Init => Promise!Init
    BY DEF Init, LoaderInit, Promise!Init, Stored
  <2>. QED  BY <2>1, DictionaryInit, PageCountInit, FirstLoadInit DEF FirstLoadInv
<1>2. Inv => LoadInv /\ LeafInv /\ loads \in Nat
  BY FewPagesFit DEF DictionaryInv, PageCount, FewPages
<1>3. Inv /\ [Next]_vars => Inv'
  BY <1>2, DictionaryStep, PageCountStep, FirstLoadStep
<1>4. Inv /\ [Next]_vars => Kept
  BY <1>2, PromiseStep
<1>5. Inv /\ [Next]_vars => [Kept]_vars
  BY <1>4
<1>. HIDE DEF Inv, Kept
<1>6. Spec => Promise!Init /\ [][Kept]_vars
  BY <1>1, <1>3, <1>5, PTL DEF Spec
<1>. QED  BY <1>6 DEF KeepsPromise, Kept
=============================================================================
