------------------------ MODULE IndexedLookupProofs ------------------------
(***************************************************************************)
(* Proofs about the lookups in the dictionaries of IndexedDictionary: that *)
(* they keep what Dictionary promises, what a search on the chain of       *)
(* bottom-up pages reaches, and where the sparse tree leads.               *)
(***************************************************************************)
EXTENDS IndexedDictionaryProofs

-----------------------------------------------------------------------------
(* An iterator on the chain of a dictionary at rest.                       *)

\* B names for each cell of page p the uncompressed value it refers to.
Refers(p, B) ==
    LET c == IF pc = "ready" THEN Null ELSE current
    IN  IsWoven(pages[p], values, IF p = c THEN dataPtr ELSE pages[p].end, StartOf(pages, p + 1, pos) - 1,
                IF p = c THEN {IF kind = "multi" THEN valuePtr.off ELSE 0} ELSE DOMAIN pages[p].cells, B)

\* The iterator stands at the value k, at offset o of page p.
SitsOn(it, p, o, B, k) ==
    /\ p \in 1..Len(pages) /\ o \in DOMAIN pages[p].cells /\ pages[p].cells[o].id = k
    /\ Refers(p, B) /\ Stands(it, p, o, B[o])
    /\ it.nextPage = pages[p].next /\ IsIterator(it)

Sits(it, k) == \E p, o, B : SitsOn(it, p, o, B, k)

\* What a dictionary is that can be asked.
Rest == AtRest /\ DictionaryInv /\ ChainInv /\ KnowInv

LEMMA RestChain ==
    ASSUME Rest
    PROVE  /\ Len(pages) \in Nat /\ pos \in Nat \ {0} /\ Len(values) \in Nat /\ pos <= Len(values) + 1
           /\ \A p \in 1..Len(pages) : \E B : Refers(p, B)
           /\ Links(pages, Len(pages)) /\ current = Len(pages)
<1>1. /\ Len(pages) \in Nat /\ pos \in Nat \ {0} /\ Len(values) \in Nat /\ pos <= Len(values) + 1
      /\ current = Len(pages)
  BY DEF Rest, DictionaryInv, LoaderInv, LoaderTypes, PagesInv, AllSound, IsSequence, ContentInv
<1>2. Upcoming = pos /\ Good
  BY DEF Rest, AtRest, Upcoming, Good
<1>3. ASSUME NEW p \in 1..Len(pages)
      PROVE  \E B : Refers(p, B)
  <2>. DEFINE c == IF pc = "ready" THEN Null ELSE current
  <2>1. Woven(pages[p], values, IF p = c THEN dataPtr ELSE pages[p].end, StartOf(pages, p + 1, pos) - 1,
              IF p = c THEN {IF kind = "multi" THEN valuePtr.off ELSE 0} ELSE DOMAIN pages[p].cells)
    BY <1>2 DEF Rest, ChainInv, Chain
  <2>. QED  BY <2>1 DEF Woven, Refers
<1>4. Links(pages, Len(pages))
  <2>1. pc = "ready" \/ ~Dynamic
    BY DEF Rest, AtRest, KnowInv, Dynamic
  <2>. QED  BY <1>2, <2>1 DEF Rest, ChainInv
<1>. QED  BY <1>1, <1>3, <1>4

\* The cell at o is one of the values.
LEMMA SitsStores ==
    ASSUME Rest, NEW p \in 1..Len(pages), NEW o \in DOMAIN pages[p].cells, NEW B, Refers(p, B), NEW k,
           pages[p].cells[o].id = k
    PROVE  /\ k \in 1..Len(values) /\ Stores(pages[p].cells, o, B[o], k, values[k])
           /\ B[o] \in DOMAIN pages[p].cells
           /\ pages[p].cells[o].kind = "full" <=> B[o] = o
<1>1. /\ k \in 1..Len(values) /\ B[o] \in DOMAIN pages[p].cells
      /\ pages[p].cells[o] = IF B[o] = o THEN FullCell(k, values[k])
                             ELSE DeltaCell(k, pages[p].cells[B[o]].str, values[k])
  BY DEF Refers, IsWoven, CellWoven
<1>2. values[k] \in Strings /\ Len(values[k]) < StringRange /\ k \in Nat
  BY <1>1 DEF Rest, DictionaryInv, LoaderInv, LoaderTypes, Short
<1>3. pages[p].cells[B[o]].str \in Strings
  BY <1>1 DEF Rest, DictionaryInv, LoaderInv, PagesInv, AllSound, SoundPage, IsPage, Cells, Strings
<1>4. pages[p].cells[o].kind = "full" <=> B[o] = o
  BY <1>1 DEF FullCell, DeltaCell
<1>. QED  BY <1>1, <1>2, <1>3, <1>4 DEF Stores

\* operator* gives the value the iterator stands at.
LEMMA SitsReads ==
    ASSUME Rest, NEW it, NEW k, Sits(it, k)
    PROVE  /\ k \in 1..Len(values) /\ Valid(it) /\ HasValue(it)
           /\ GetId(Dereferenced(it)) = k /\ GetValue(Dereferenced(it)) = values[k]
<1>. DEFINE here == Dereferenced(it)
<1>1. PICK p, o, B : SitsOn(it, p, o, B, k)
  BY DEF Sits
<1>2. /\ p \in 1..Len(pages) /\ o \in DOMAIN pages[p].cells /\ p # Null
      /\ Stands(it, p, o, B[o]) /\ IsIterator(it)
      /\ k \in 1..Len(values) /\ Stores(pages[p].cells, o, B[o], k, values[k])
      /\ pages[p].cells[o].kind = "full" <=> B[o] = o
  BY <1>1, SitsStores DEF SitsOn, Null
<1>3. Stands(here, p, o, B[o])
  BY <1>2 DEF Stands, Dereferenced, Cell, IsIterator
<1>4. Reads(it, k, values[k]) /\ Reads(here, k, values[k])
  <2>. DEFINE v == values[k]
              b == B[o]
  <2>. HIDE DEF v, b, here
  <2>1. /\ p # Null /\ Stores(pages[p].cells, o, b, k, v)
        /\ Stands(it, p, o, b) /\ Stands(here, p, o, b)
    BY <1>2, <1>3 DEF v, b
  <2>2. Reads(it, k, v)
    BY ONLY <2>1, CellReads
  <2>3. Reads(here, k, v)
    BY ONLY <2>1, CellReads
  <2>. QED  BY <2>2, <2>3 DEF v, here
<1>. QED  BY <1>2, <1>4 DEF Reads, Valid, HasValue

\* operator++ goes on to the next value, as long as there is one.
LEMMA SitsGoesOn ==
    ASSUME Rest, NEW it, NEW k, Sits(it, k), k < pos - 1
    PROVE  Sits(Increment(Dereferenced(it)), k + 1)
<1>. DEFINE here == Dereferenced(it)
            past == [here EXCEPT !.off = here.off + Occupied(Cell(here))]
<1>1. PICK p, o, B : SitsOn(it, p, o, B, k)
  BY DEF Sits
<1>. DEFINE page == pages[p]
            next == After(page, o)
<1>2. /\ p \in 1..Len(pages) /\ o \in DOMAIN pages[p].cells /\ p # Null
      /\ Stands(it, p, o, B[o]) /\ IsIterator(it) /\ Refers(p, B)
      /\ it.nextPage = pages[p].next /\ pages[p].cells[o].id = k
      /\ k \in 1..Len(values)
      /\ pages[p].cells[o].kind = "full" <=> B[o] = o
  BY <1>1, SitsStores DEF SitsOn, Null
<1>3. here = [page |-> p, off |-> o, nextPage |-> page.next, base |-> p, from |-> B[o]]
  <2>1. CASE Cell(it).kind = "full"
    BY <1>2, <2>1 DEF Stands, Dereferenced, Cell, IsIterator
  <2>2. CASE Cell(it).kind # "full"
    <3>1. B[o] # o
      BY <1>2, <2>2 DEF Stands, Cell
    <3>. QED  BY <1>2, <2>2, <3>1 DEF Stands, Dereferenced, IsIterator
  <2>. QED  BY <2>1, <2>2
<1>4. past = [page |-> p, off |-> next, nextPage |-> page.next, base |-> p, from |-> B[o]]
  <2>. HIDE DEF here
  <2>1. here.off + Occupied(Cell(here)) = next
    BY <1>3 DEF Cell, After
  <2>. HIDE DEF next
  <2>. QED  BY <1>3, <2>1
<1>. HIDE DEF past, here
<1>5. Increment(here) = IF AtCell(past) THEN past
                        ELSE IF AtEnd(past) /\ past.nextPage # Null THEN NextPage(past)
                        ELSE NullIterator
  BY DEF Increment, past
<1>6. AtCell(past) <=> next \in DOMAIN page.cells
  BY <1>2, <1>4 DEF AtCell
<1>. DEFINE c == IF pc = "ready" THEN Null ELSE current
            limit == IF p = c THEN dataPtr ELSE page.end
            last == StartOf(pages, p + 1, pos) - 1
<1>7. /\ limit \notin DOMAIN page.cells
      /\ \/ /\ next \in DOMAIN page.cells /\ page.cells[next].id = k + 1 /\ B[next] \in {next, B[o]}
         \/ next = limit /\ k = last
  <2>. HIDE DEF limit, last
  <2>1. PICK bases : IsWoven(page, values, limit, last, bases, B)
    BY <1>2 DEF Refers, limit, last
  <2>. QED  BY <1>2, <2>1 DEF IsWoven, CellWoven
<1>8. CASE next \in DOMAIN page.cells
  <2>1. page.cells[next].id = k + 1 /\ B[next] \in {next, B[o]}
    BY <1>7, <1>8
  <2>2. Increment(here) = past
    BY <1>5, <1>6, <1>8
  <2>. HIDE DEF next
  <2>3. Stands(past, p, next, B[next]) /\ past.nextPage = pages[p].next /\ IsIterator(past)
    BY <1>4, <2>1 DEF Stands, IsIterator
  <2>4. SitsOn(past, p, next, B, k + 1)
    BY <1>2, <1>8, <2>1, <2>3 DEF SitsOn
  <2>. QED  BY <2>2, <2>4 DEF Sits, here
<1>9. CASE next \notin DOMAIN page.cells
  <2>1. next = limit /\ k = last
    BY <1>7, <1>9
  <2>2. p + 1 \in 1..Len(pages) /\ 0 \in DOMAIN pages[p + 1].cells /\ pages[p + 1].cells[0].id = k + 1
    <3>1. StartOf(pages, p + 1, pos) = k + 1 /\ k + 1 # pos
      <4>. DEFINE start == StartOf(pages, p + 1, pos)
      <4>1. k = start - 1 /\ pos \in Nat /\ k \in Nat
        BY <1>2, <2>1, RestChain
      <4>2. start \in Int
        <5>1. \A o2 \in DOMAIN pages[p + 1].cells : p + 1 \in 1..Len(pages) => pages[p + 1].cells[o2].id \in Nat
          BY DEF Rest, DictionaryInv, LoaderInv, PagesInv, AllSound, SoundPage, IsPage, Cells
        <5>. QED  BY <4>1, <5>1 DEF StartOf
      <4>. HIDE DEF start
      <4>3. start = k + 1
        BY <4>1, <4>2
      <4>. QED  BY <4>1, <4>3 DEF start
    <3>. QED  BY <3>1 DEF StartOf
  <2>3. p < Len(pages) /\ p # c
    <3>1. Len(pages) \in Nat /\ current = Len(pages)
      BY RestChain
    <3>. QED  BY <1>2, <2>2, <3>1
  <2>4. page.next = p + 1 /\ p + 1 # Null
    BY <1>2, <2>3, RestChain DEF Links, Null
  <2>5. next = page.end
    BY <2>1, <2>3
  <2>. HIDE DEF next
  <2>6. AtEnd(past) /\ past.nextPage = p + 1 /\ ~AtCell(past)
    BY <1>2, <1>4, <1>6, <1>9, <2>4, <2>5 DEF AtEnd
  <2>7. Increment(here) = NextPage(past)
    BY <1>5, <2>4, <2>6
  <2>8. NextPage(past) = [page |-> p + 1, off |-> 0, nextPage |-> pages[p + 1].next, base |-> p, from |-> B[o]]
    <3>. DEFINE n == past.nextPage
                b == B[o]
                following == pages[n].next
    <3>. HIDE DEF n, b, following
    <3>1. past = [page |-> p, off |-> next, nextPage |-> n, base |-> p, from |-> b]
      BY <1>4 DEF n, b
    <3>2. NextPage(past) = [past EXCEPT !.page = n, !.off = 0, !.nextPage = following]
      BY DEF NextPage, n, following
    <3>3. NextPage(past) = [page |-> n, off |-> 0, nextPage |-> following, base |-> p, from |-> b]
      BY ONLY <3>1, <3>2
    <3>. QED  BY <2>6, <3>3 DEF n, b, following
  <2>9. PICK A : Refers(p + 1, A)
    BY <2>2, RestChain
  <2>10. A[0] = 0
    BY <2>2, <2>9 DEF Refers, IsWoven
  <2>. DEFINE following == NextPage(past)
  <2>11. Stands(following, p + 1, 0, A[0]) /\ following.nextPage = pages[p + 1].next /\ IsIterator(following)
    BY <2>8, <2>10 DEF Stands, IsIterator
  <2>. HIDE DEF following
  <2>12. SitsOn(following, p + 1, 0, A, k + 1)
    BY <2>2, <2>9, <2>11 DEF SitsOn
  <2>. QED  BY <2>7, <2>12 DEF Sits, here, following
<1>. QED  BY <1>8, <1>9

AllRefer(B, O, number, b) == \A j \in 0..number : B[O[j]] = b

\* All values that a reader on a multi page skips to refer to the one it began at.
LEMMA WaysRefer ==
    ASSUME Rest, NEW p \in 1..Len(pages), NEW B, Refers(p, B), NEW b, NEW number \in Nat,
           NEW O \in Ways(pages[p], b, number)
    PROVE  AllRefer(B, O, number, b)
<1>. DEFINE page == pages[p]
            bad == { j \in 0..number : B[O[j]] # b }
<1>1. /\ O \in [0..number -> DOMAIN page.cells] /\ O[0] = b /\ page.cells[b].kind = "full"
      /\ \A j \in 1..number : O[j] = After(page, O[j-1]) /\ page.cells[O[j]].kind = "delta"
  BY DEF Ways, After
<1>2. \A o \in DOMAIN page.cells : page.cells[o].kind = "full" <=> B[o] = o
  BY SitsStores
<1>3. ASSUME NEW o \in DOMAIN page.cells, After(page, o) \in DOMAIN page.cells
      PROVE  B[After(page, o)] \in {After(page, o), B[o]}
  <2>1. PICK limit, last, bases : IsWoven(page, values, limit, last, bases, B)
    BY DEF Refers
  <2>. QED  BY <1>3, <2>1 DEF IsWoven, CellWoven
<1>. HIDE DEF page
<1>4. ASSUME bad # {}
      PROVE  FALSE
  <2>1. PICK j \in bad : \A i \in bad : j <= i
    <3>1. bad \in SUBSET Nat
      OBVIOUS
    <3>. QED  BY <1>4, <3>1, LeastElement
  <2>2. j # 0
    <3>1. 0 \in 0..number
      OBVIOUS
    <3>. QED  BY <1>1, <1>2, <2>1, <3>1
  <2>3. j \in 1..number /\ j - 1 \in 0..number /\ j - 1 \notin bad
    BY <2>1, <2>2
  <2>4. B[O[j-1]] = b /\ O[j-1] \in DOMAIN page.cells /\ O[j] \in DOMAIN page.cells
    BY <1>1, <2>3
  <2>5. O[j] = After(page, O[j-1]) /\ B[O[j]] # O[j]
    <3>1. page.cells[O[j]].kind # "full"
      BY <1>1, <2>3
    <3>. QED  BY <1>1, <1>2, <2>3, <2>4, <3>1
  <2>6. B[O[j]] = b
    BY <1>3, <2>4, <2>5
  <2>. QED  BY <2>1, <2>6
<1>. QED  BY <1>4 DEF AllRefer

\* A leaf decodes to an iterator that goes on along the chain.
LEMMA LeafSits ==
    ASSUME Rest, NEW leaf, NEW i,
           Leads(kind, pages, slots, values, LeafPage(leaf), LeafOffset(leaf), i)
    PROVE  Sits(DecodeLeaf(leaf), i)
<1>. DEFINE p == LeafPage(leaf)
            n == LeafOffset(leaf)
            it == DecodeLeaf(leaf)
<1>1. /\ p \in 1..Len(pages) /\ n \in Nat /\ LeadsOn(kind, pages[p], slots[p], values, n, i)
      /\ p \in Nat \ {0} /\ PageContent(kind, pages[p], slots[p], values)
  BY RestChain DEF Leads, Rest, DictionaryInv, ContentInv, Contents
<1>2. PICK B : Refers(p, B)
  BY <1>1, RestChain
<1>3. CASE kind = "multi"
  <2>. DEFINE b == n \div DeltaNumbers
              number == n % DeltaNumbers
  <2>1. PICK o \in DOMAIN pages[p].cells : Run(pages[p], b, number, o, i, values)
    BY <1>1, <1>3 DEF LeadsOn
  <2>2. number \in Nat
    BY <1>1 DEF DeltaNumbers
  <2>3. it = GotoOffsetWithDelta(p, b, number)
    BY <1>3 DEF DecodeLeaf, Indirect
  <2>. HIDE DEF b, number, p, it
  <2>4. PICK O \in Ways(pages[p], b, number) : O[number] = o
    BY <2>1 DEF Run
  <2>5. /\ it.page = p /\ it.off = o /\ (number # 0 => it.base = p /\ it.from = b)
        /\ it.nextPage = pages[p].next /\ IsIterator(it)
    BY <1>1, <2>2, <2>3, <2>4, WaysLead
  <2>6. B[o] = b
    <3>1. number \in 0..number
      BY <2>2
    <3>2. Rest /\ p \in 1..Len(pages) /\ Refers(p, B) /\ number \in Nat /\ O \in Ways(pages[p], b, number)
      BY <1>1, <1>2, <2>2, <2>4
    <3>3. AllRefer(B, O, number, b)
      BY ONLY <3>2, WaysRefer
    <3>. QED  BY <2>4, <3>1, <3>3 DEF AllRefer
  <2>7. number = 0 => o = b
    BY <2>4 DEF Ways
  <2>8. pages[p].cells[o].id = i
    BY <2>1 DEF Run, FullCell, DeltaCell
  <2>9. SitsOn(it, p, o, B, i)
    BY <1>1, <1>2, <2>1, <2>5, <2>6, <2>7, <2>8 DEF SitsOn, Stands
  <2>. QED  BY <2>9 DEF Sits, it
<1>4. CASE kind # "multi"
  <2>. DEFINE o == Place(kind, slots[p], n)
  <2>1. /\ o \in DOMAIN pages[p].cells /\ pages[p].cells[o].id = i
        /\ SoundCells(pages[p], values)
    BY <1>1, <1>4 DEF LeadsOn, PageContent
  <2>2. /\ it.page = p /\ it.off = o /\ (o # 0 => it.base = p /\ it.from = 0)
        /\ it.nextPage = pages[p].next /\ IsIterator(it)
    <3>1. CASE kind \in IndirectKinds
      BY <3>1 DEF DecodeLeaf, Indirect, IndirectKinds, GetIndexEntry, IteratorAt, Place, IsIterator
    <3>2. CASE kind \notin IndirectKinds /\ kind = "bottomup" /\ n = 1
      <4>. DEFINE e == Len(slots[p])
      <4>1. e # 0
        BY <1>1, <1>4, <3>2 DEF LeadsOn
      <4>2. it = [IteratorAt(p) EXCEPT !.base = p, !.off = slots[p][e]]
        BY <3>2, <4>1 DEF DecodeLeaf, Indirect, IndirectKinds, LastOn, Entries
      <4>3. o = slots[p][e]
        BY <3>2 DEF IndirectKinds, Place
      <4>. HIDE DEF e, it, o
      <4>. QED  BY <4>2, <4>3 DEF IteratorAt, IsIterator
    <3>3. CASE kind \notin IndirectKinds /\ ~(kind = "bottomup" /\ n = 1)
      BY <1>4, <3>3 DEF DecodeLeaf, Indirect, IndirectKinds, GotoOffset, IteratorAt, Place, IsIterator
    <3>. QED  BY <3>1, <3>2, <3>3
  <2>. HIDE DEF o, it, p
  <2>3. B[o] # o => B[o] = 0
    <3>1. B[o] \in DOMAIN pages[p].cells
      BY <1>1, <1>2, <2>1, SitsStores
    <3>2. pages[p].cells[B[o]].kind = "full" => B[o] = 0
      <4>. DEFINE x == B[o]
      <4>. HIDE DEF x
      <4>1. x \in DOMAIN pages[p].cells
        BY <3>1 DEF x
      <4>2. x # 0 => pages[p].cells[x].kind = "delta"
        <5>1. \A id, r, v : DeltaCell(id, r, v).kind = "delta"
          BY DEF DeltaCell
        <5>2. x # 0 => \E id, r, v : pages[p].cells[x] = DeltaCell(id, r, v)
          BY <2>1, <4>1 DEF SoundCells
        <5>. QED  BY <5>1, <5>2
      <4>. QED  BY <4>2 DEF x
    <3>3. pages[p].cells[B[o]].kind = "full"
      BY <1>2, <2>1 DEF Refers, IsWoven, CellWoven
    <3>. QED  BY <3>2, <3>3
  <2>4. SitsOn(it, p, o, B, i)
    BY <1>1, <1>2, <2>1, <2>2, <2>3 DEF SitsOn, Stands
  <2>. QED  BY <2>4 DEF Sits, it
<1>. QED  BY <1>3, <1>4

\* What the indexes give for one of the values.
LEMMA LeafAtRest ==
    ASSUME Rest, NEW leaf, NEW i, LeafTo(leaf, i)
    PROVE  /\ Decodes(leaf) /\ Sits(DecodeLeaf(leaf), i) /\ i \in 1..Len(values)
           /\ GetId(DecodeLeaf(leaf)) = i /\ GetValue(DecodeLeaf(leaf)) = values[i]
<1>1. ~AnnouncedAt(LeafPage(leaf), LeafOffset(leaf), i)
  <2>1. pc = "ready" \/ kind = "slotted"
    BY DEF Rest, AtRest, KnowInv
  <2>2. pc = "ready" /\ current # Null => deltaNumber # 0
    BY DEF Rest, KnowInv
  <2>. QED  BY <2>1, <2>2 DEF AnnouncedAt, Dynamic
<1>2. Leads(kind, pages, slots, values, LeafPage(leaf), LeafOffset(leaf), i)
  BY <1>1 DEF LeafTo, LeadsTo
<1>. QED  BY <1>2, LeafSits, LeadsReads DEF Rest, DictionaryInv

-----------------------------------------------------------------------------
(* The loop of rangeLookup.                                                *)

\* One turn, as Scan makes it.
Turned(scan, endId) == CHOOSE next \in { Turn(last, endId) : last \in { scan } } : TRUE

Begun(start) == [it |-> start, out |-> <<>>, ended |-> "never"]

\* What the first m turns go through.
Turns(f, start, endId, m) ==
    f = [k \in 0..m |-> IF k = 0 THEN Begun(start) ELSE Turned(f[k - 1], endId)]

LEMMA TurnedIs ==
    ASSUME NEW scan, NEW endId
    PROVE  Turned(scan, endId) = Turn(scan, endId)
<1>1. { Turn(last, endId) : last \in { scan } } = { Turn(scan, endId) }
  OBVIOUS
<1>. QED  BY <1>1 DEF Turned

LEMMA TurnsExist ==
    ASSUME NEW start, NEW endId, NEW n \in Nat
    PROVE  \E f : Turns(f, start, endId, n)
<1>. DEFINE Bad == { m \in Nat : ~\E f : Turns(f, start, endId, m) }
<1>1. SUFFICES ASSUME Bad # {} PROVE FALSE
  OBVIOUS
<1>2. PICK m \in Bad : \A k \in Bad : m <= k
  BY <1>1, LeastElement
<1>3. m # 0
  <2>. DEFINE f == [k \in 0..0 |-> Begun(start)]
  <2>1. \A k \in 0..0 : k = 0
    OBVIOUS
  <2>2. Turns(f, start, endId, 0)
    BY <2>1 DEF Turns
  <2>. QED  BY <2>2
<1>4. m - 1 \in Nat /\ m - 1 \notin Bad
  <2>1. m \in Nat /\ (m - 1 \in Bad => m <= m - 1)
    BY <1>2
  <2>. HIDE DEF Bad
  <2>. QED  BY <1>3, <2>1
<1>5. PICK g : Turns(g, start, endId, m - 1)
  BY <1>4
<1>. DEFINE step == Turned(g[m - 1], endId)
            f == [k \in 0..m |-> IF k = m THEN step ELSE g[k]]
<1>6. ASSUME NEW k \in 0..m
      PROVE  f[k] = IF k = 0 THEN Begun(start) ELSE Turned(f[k - 1], endId)
  <2>1. k = 0 => f[k] = Begun(start)
    <3>1. 0 \in 0..(m - 1) /\ 0 # m
      BY <1>3, <1>4
    <3>. QED  BY <1>5, <3>1 DEF Turns
  <2>2. k # 0 => f[k] = Turned(f[k - 1], endId)
    <3>. SUFFICES ASSUME k # 0 PROVE f[k] = Turned(f[k - 1], endId)
      OBVIOUS
    <3>1. k - 1 \in 0..m /\ k - 1 # m /\ k - 1 \in 0..(m - 1)
      BY <1>4
    <3>2. f[k - 1] = g[k - 1]
      BY <3>1
    <3>3. CASE k = m
      BY <3>2, <3>3
    <3>4. CASE k # m
      <4>1. k \in 0..(m - 1)
        BY <1>4, <3>4
      <4>2. g[k] = Turned(g[k - 1], endId)
        BY <1>5, <4>1 DEF Turns
      <4>. QED  BY <3>2, <3>4, <4>2
    <3>. QED  BY <3>3, <3>4
  <2>. QED  BY <2>1, <2>2
<1>7. Turns(f, start, endId, m)
  <2>1. f = [k \in 0..m |-> f[k]]
    OBVIOUS
  <2>. HIDE DEF f
  <2>. QED  BY <1>6, <2>1 DEF Turns
<1>. QED  BY <1>2, <1>7

LEMMA ScanIs ==
    ASSUME NEW start, NEW endId, Len(values) \in Nat
    PROVE  \E f : Turns(f, start, endId, Len(values) + 1) /\ Scan(start, endId) = f[Len(values) + 1]
<1>. DEFINE n == Len(values) + 1
            f == CHOOSE h : Turns(h, start, endId, n)
<1>1. Turns(f, start, endId, n)
  <2>1. n \in Nat
    OBVIOUS
  <2>. HIDE DEF n
  <2>2. \E h : Turns(h, start, endId, n)
    BY <2>1, TurnsExist
  <2>. QED  BY <2>2
<1>2. Scan(start, endId) = f[n]
  BY Zenon DEF Scan, Turns, Turned, Begun
<1>. QED  BY <1>1, <1>2

Listed(from, to) == Listing(values, from, to)

\* The loop is at the value first + k, and has listed those before it.
ScanAt(scan, first, k) ==
    /\ scan = [it |-> scan.it, out |-> Listed(first, first + k - 1), ended |-> "never"]
    /\ Sits(scan.it, first + k)

LEMMA TurnGoesOn ==
    ASSUME Rest, NEW first \in Nat, NEW k \in Nat, NEW scan, ScanAt(scan, first, k), NEW last \in 1..(pos - 1)
    PROVE  /\ first + k # last /\ first + k < pos - 1 => ScanAt(Turn(scan, last), first, k + 1)
           /\ first + k = last => Turn(scan, last).ended = "last" /\ Turn(scan, last).out = Listed(first, last)
<1>. DEFINE here == Dereferenced(scan.it)
            at == first + k
            out == Append(scan.out, Entry(GetId(here), GetValue(here)))
            turn == Turn(scan, last)
<1>1. /\ Valid(scan.it) /\ HasValue(scan.it) /\ GetId(here) = at /\ GetValue(here) = values[at]
  BY SitsReads DEF ScanAt
<1>2. /\ scan = [it |-> scan.it, out |-> Listed(first, at - 1), ended |-> "never"]
      /\ scan.ended = "never" /\ scan.out = Listed(first, at - 1)
  <2>1. scan = [it |-> scan.it, out |-> Listed(first, at - 1), ended |-> "never"]
    BY DEF ScanAt
  <2>. QED  BY <2>1
<1>3. out = Listed(first, at)
  <2>1. at \in Nat /\ first <= at
    OBVIOUS
  <2>2. out = Append(Listed(first, at - 1), [id |-> at, value |-> values[at]])
    BY <1>1, <1>2 DEF Entry
  <2>. HIDE DEF at
  <2>. QED  BY <2>1, <2>2, ListingGrows DEF Listed
<1>4. turn = IF at = last THEN [scan EXCEPT !.ended = "last", !.out = out]
             ELSE [scan EXCEPT !.it = Increment(here), !.out = out]
  BY <1>1, <1>2 DEF Turn
<1>. HIDE DEF here, out, turn
<1>5. ASSUME at # last, at < pos - 1
      PROVE  ScanAt(turn, first, k + 1)
  <2>1. turn = [it |-> Increment(here), out |-> Listed(first, at), ended |-> "never"]
    <3>. HIDE DEF at
    <3>. QED  BY <1>2, <1>3, <1>4, <1>5
  <2>2. Sits(Increment(here), at + 1)
    <3>1. Sits(scan.it, at)
      BY DEF ScanAt
    <3>. HIDE DEF at
    <3>. QED  BY <1>5, <3>1, SitsGoesOn DEF here
  <2>3. first + (k + 1) = at + 1 /\ first + (k + 1) - 1 = at
    OBVIOUS
  <2>. HIDE DEF at
  <2>. QED  BY <2>1, <2>2, <2>3 DEF ScanAt
<1>6. ASSUME at = last
      PROVE  turn.ended = "last" /\ turn.out = Listed(first, last)
  <2>. HIDE DEF at
  <2>. QED  BY <1>2, <1>3, <1>4, <1>6
<1>. QED  BY <1>5, <1>6 DEF turn

\* From the first value with a prefix to the last one it lists exactly these.
LEMMA ScanLists ==
    ASSUME Rest, NEW start, NEW first \in 1..(pos - 1), NEW last \in 1..(pos - 1), first <= last,
           Sits(start, first)
    PROVE  Scan(start, last).ended # "aborted" /\ Scan(start, last).out = Listed(first, last)
<1>. DEFINE N == Len(values) + 1
            d == last - first
<1>1. /\ pos \in Nat /\ Len(values) \in Nat /\ first \in Nat /\ last \in Nat /\ N \in Nat
      /\ d \in Nat /\ d + 1 \in 0..N /\ first + d = last
  BY RestChain
<1>2. PICK f : Turns(f, start, last, N) /\ Scan(start, last) = f[N]
  BY <1>1, ScanIs
<1>. HIDE DEF N, d
<1>3. /\ f[0] = Begun(start)
      /\ \A k \in 1..N : f[k] = Turn(f[k - 1], last)
  <2>1. 0 \in 0..N /\ \A k \in 1..N : k \in 0..N /\ k # 0
    BY <1>1
  <2>. QED  BY <1>2, <2>1, TurnedIs DEF Turns
<1>4. \A k \in 0..d : ScanAt(f[k], first, k)
  <2>. DEFINE Bad == { k \in 0..d : ~ScanAt(f[k], first, k) }
  <2>1. SUFFICES ASSUME Bad # {} PROVE FALSE
    OBVIOUS
  <2>2. PICK k \in Bad : \A j \in Bad : k <= j
    <3>1. Bad \in SUBSET Nat
      BY <1>1
    <3>. HIDE DEF Bad
    <3>. QED  BY <2>1, <3>1, LeastElement
  <2>3. k # 0
    <3>1. Listed(first, first + 0 - 1) = <<>>
      <4>1. first + 0 - 1 = first - 1 /\ first <= first
        BY <1>1
      <4>2. Listing(values, first, first - 1) = <<>>
        BY <1>1, <4>1, ListingGrows
      <4>. QED  BY <4>1, <4>2 DEF Listed
    <3>2. first + 0 = first
      BY <1>1
    <3>3. ScanAt(f[0], first, 0)
      BY <1>3, <3>1, <3>2 DEF ScanAt, Begun
    <3>. QED  BY <3>3
  <2>4. /\ k - 1 \in 0..d /\ k - 1 \in Nat /\ k - 1 \notin Bad /\ k \in 1..N
        /\ first + (k - 1) # last /\ first + (k - 1) < pos - 1 /\ (k - 1) + 1 = k
    <3>1. k \in 0..d
      OBVIOUS
    <3>. HIDE DEF Bad
    <3>. QED  BY <1>1, <2>2, <2>3, <3>1
  <2>5. ScanAt(f[k - 1], first, k - 1)
    BY <2>4
  <2>6. ScanAt(Turn(f[k - 1], last), first, (k - 1) + 1)
    <3>. HIDE DEF Bad
    <3>. QED  BY <1>1, <2>4, <2>5, TurnGoesOn
  <2>. QED  BY <1>3, <2>4, <2>6
<1>5. f[d + 1].ended = "last" /\ f[d + 1].out = Listed(first, last)
  <2>1. d \in 0..d /\ d + 1 \in 1..N /\ (d + 1) - 1 = d
    BY <1>1
  <2>2. ScanAt(f[d], first, d)
    BY <1>4, <2>1
  <2>. QED  BY <1>1, <1>3, <2>1, <2>2, TurnGoesOn
<1>6. \A k \in (d + 1)..N : f[k] = f[d + 1]
  <2>. DEFINE Bad == { k \in (d + 1)..N : f[k] # f[d + 1] }
  <2>1. SUFFICES ASSUME Bad # {} PROVE FALSE
    OBVIOUS
  <2>2. PICK k \in Bad : \A j \in Bad : k <= j
    <3>1. Bad \in SUBSET Nat
      BY <1>1
    <3>. HIDE DEF Bad
    <3>. QED  BY <2>1, <3>1, LeastElement
  <2>3. k - 1 \in (d + 1)..N /\ k - 1 \notin Bad /\ k \in 1..N
    <3>1. k \in (d + 1)..N /\ k # d + 1
      OBVIOUS
    <3>. HIDE DEF Bad
    <3>. QED  BY <1>1, <2>2, <3>1
  <2>4. f[k - 1] = f[d + 1]
    BY <2>3
  <2>5. f[k] = f[k - 1]
    BY <1>3, <1>5, <2>3, <2>4 DEF Turn
  <2>. QED  BY <2>4, <2>5
<1>7. N \in (d + 1)..N
  BY <1>1
<1>. QED  BY <1>2, <1>5, <1>6, <1>7

-----------------------------------------------------------------------------
(* The steps of the promise.                                               *)

\* What is looked up are strings; ranges are promised only where every string
\* is in the reverse index.
AskedStrings ==
    /\ Queries \subseteq Strings
    /\ \A k \in Kinds : PrefixQueries[k] \subseteq Queries /\ (k = "bottomup" => PrefixQueries[k] = {})

\* What the dictionary holds at rest, in ascending order.
LEMMA StoredIs ==
    ASSUME SortedInputs, Rest
    PROVE  /\ pos \in Nat \ {0} /\ pos - 1 \in Nat /\ pos - 1 <= Len(values)
           /\ DOMAIN Stored = 1..(pos - 1) /\ \A k \in 1..(pos - 1) : Stored[k] = values[k]
           /\ AscendTo(values, Len(values)) /\ AscendTo(values, pos - 1)
           /\ \A i, j \in 1..Len(values) : values[i] = values[j] => i = j
           /\ DOMAIN index = 1..(pos - 1)
           /\ kind # "bottomup" => DOMAIN reverseIndex = { values[k] : k \in 1..(pos - 1) }
<1>1. /\ values \in Seq(Strings) /\ Len(values) \in Nat /\ pos \in Nat \ {0} /\ pos - 1 \in 0..Len(values)
  BY RestChain DEF Rest, DictionaryInv, LoaderInv, LoaderTypes
<1>2. Stored = SubSeq(values, 1, pos - 1) /\ pc \in {"ready", "threw"}
  BY DEF Stored, Rest, AtRest
<1>3. DOMAIN Stored = 1..(pos - 1) /\ \A k \in 1..(pos - 1) : Stored[k] = values[k]
  BY <1>1, <1>2, SubSeqProperties
<1>4. AscendTo(values, Len(values))
  <2>1. \A k \in 1..Len(values) : values[k] \in Strings
    BY <1>1
  <2>2. values \in Inputs \union {<<>>}
    BY DEF Rest, DictionaryInv, ContentInv
  <2>3. CASE values \in Inputs
    BY <2>1, <2>3 DEF SortedInputs, Ascending, AscendTo
  <2>4. CASE values = <<>>
    <3>1. Len(values) = 0
      BY <2>4
    <3>. QED  BY <3>1 DEF AscendTo
  <2>. QED  BY <2>2, <2>3, <2>4
<1>5. AscendTo(values, pos - 1)
  <2>1. \A k \in 1..(pos - 1) : k \in 1..Len(values)
    BY <1>1
  <2>. QED  BY <1>4, <2>1 DEF AscendTo
<1>6. ASSUME NEW i \in 1..Len(values), NEW j \in 1..Len(values), values[i] = values[j]
      PROVE  i = j
  <2>1. ~(i < j) /\ ~(j < i)
    BY <1>4, <1>6, LexAsymmetric DEF AscendTo
  <2>. QED  BY <2>1
<1>7. /\ DOMAIN index = 1..(pos - 1)
      /\ kind # "bottomup" => DOMAIN reverseIndex = { values[k] : k \in 1..(pos - 1) }
  <2>1. KnownIds = pos - 1 /\ KnownStrings = pos - 1
    BY <1>2 DEF KnownIds, KnownStrings
  <2>2. Good
    BY <1>2 DEF Good
  <2>. QED  BY <2>1, <2>2 DEF Rest, KnowInv
<1>. QED  BY <1>1, <1>3, <1>4, <1>5, <1>6, <1>7

\* What a HAT gives for one of the strings.
LEMMA KeyReads ==
    ASSUME SortedInputs, Rest, kind # "bottomup", NEW k \in 1..(pos - 1)
    PROVE  LET leaf == reverseIndex[values[k]]
           IN  /\ values[k] \in DOMAIN reverseIndex
               /\ Sits(DecodeLeaf(leaf), k) /\ GetId(DecodeLeaf(leaf)) = k
<1>1. values[k] \in DOMAIN reverseIndex /\ k \in 1..Len(values)
  BY StoredIs
<1>2. PICK i \in 1..Len(values) : values[i] = values[k] /\ LeafTo(reverseIndex[values[k]], i)
  BY <1>1 DEF Rest, DictionaryInv, LeavesInv
<1>3. i = k
  BY <1>1, <1>2, StoredIs
<1>. QED  BY <1>1, <1>2, <1>3, LeafAtRest

LEMMA NothingLists == Promise!Lists(<<>>, {})
<1>1. DOMAIN <<>> = {} /\ <<>> \in Seq(Promise!Entries)
  OBVIOUS
<1>. QED  BY <1>1 DEF Promise!Lists

\* What Listed gives is what the promise asks for.
LEMMA ListedLists ==
    ASSUME SortedInputs, Rest, NEW first \in 1..(pos - 1), NEW last \in 1..(pos - 1), first <= last
    PROVE  Promise!Lists(Listed(first, last), first..last)
<1>. DEFINE E == Promise!Entries
<1>1. /\ DOMAIN Stored = 1..(pos - 1) /\ pos \in Nat
      /\ \A k \in 1..(pos - 1) : Stored[k] = values[k]
  BY StoredIs
<1>2. Holds(E, values, first, last)
  <2>1. \A k \in first..last : k \in DOMAIN Stored /\ Stored[k] = values[k]
    BY <1>1
  <2>. QED  BY <2>1 DEF Promise!Entries, Holds
<1>. HIDE DEF E
<1>3. first \in Nat /\ last \in Nat /\ first <= last
  BY <1>1
<1>4. ListsThe(Listing(values, first, last), E, first..last)
  BY <1>2, <1>3, ListingLists
<1>. QED  BY <1>4 DEF Promise!Lists, Listed, ListsThe, E

LEMMA OneLists ==
    ASSUME SortedInputs, Rest, NEW k \in 1..(pos - 1)
    PROVE  Promise!Lists(<<Entry(k, values[k])>>, {k})
<1>1. k \in Nat /\ pos \in Nat
  BY StoredIs
<1>2. Listed(k, k) = <<Entry(k, values[k])>>
  <2>1. k - k + 1 = 1 /\ k + 1 - 1 = k
    BY <1>1
  <2>2. Listed(k, k) = [n \in 1..1 |-> Entry(k + n - 1, values[k + n - 1])]
    BY <2>1 DEF Listed, Listing, Entry
  <2>. QED  BY <2>1, <2>2
<1>3. k..k = {k} /\ k <= k
  BY <1>1
<1>4. Promise!Lists(Listed(k, k), k..k)
  BY <1>3, ListedLists, Zenon
<1>. QED  BY <1>2, <1>3, <1>4

\* A step that answers, as the promise sees it.
LEMMA Answered ==
    ASSUME Rest, NEW op, NEW arg, NEW out, NEW ids, Promise!Lists(out, ids), Answer(op, arg, out),
           UNCHANGED <<pc, values, pos>>
    PROVE  Promise!Answer(op, arg, ids) /\ UNCHANGED Stored
BY DEF Promise!Answer, Answer, Stored

\* A step that ends the process answers nothing.
LEMMA AbortStutters ==
    ASSUME Rest, pc' = "aborted", UNCHANGED <<answer, values, pos>>
    PROVE  UNCHANGED <<Stored, answer>>
BY DEF Stored, Rest, AtRest

LEMMA LookupIdKeeps ==
    ASSUME SortedInputs, Rest, NEW i, LookupId(i)
    PROVE  Promise!LookupId(i) \/ UNCHANGED <<Stored, answer>>
<1>. DEFINE leaf == index[i]
            ids  == { id \in DOMAIN Stored : id = i }
<1>1. /\ IF i \notin DOMAIN index THEN Answer("id", <<i>>, <<>>) /\ UNCHANGED pc
         ELSE IF Decodes(leaf)
         THEN Answer("id", <<i>>, <<Entry(i, GetValue(DecodeLeaf(leaf)))>>) /\ UNCHANGED pc
         ELSE pc' = "aborted" /\ UNCHANGED answer
      /\ UNCHANGED <<values, pos>>
  BY DEF LookupId
<1>2. DOMAIN Stored = 1..(pos - 1) /\ DOMAIN index = 1..(pos - 1)
  BY StoredIs
<1>3. CASE i \notin DOMAIN index
  <2>1. ids = {}
    BY <1>2, <1>3
  <2>2. Answer("id", <<i>>, <<>>) /\ UNCHANGED <<pc, values, pos>>
    BY <1>1, <1>3
  <2>3. Promise!Answer("id", <<i>>, {}) /\ UNCHANGED Stored
    BY <2>2, NothingLists, Answered
  <2>. QED  BY <2>1, <2>3 DEF Promise!LookupId
<1>4. CASE i \in DOMAIN index
  <2>1. LeafTo(leaf, i)
    BY <1>4 DEF Rest, DictionaryInv, LeavesInv
  <2>2. Decodes(leaf) /\ GetValue(DecodeLeaf(leaf)) = values[i]
    BY <2>1, LeafAtRest
  <2>3. ids = {i} /\ i \in 1..(pos - 1)
    BY <1>2, <1>4
  <2>. HIDE DEF leaf, ids
  <2>4. Answer("id", <<i>>, <<Entry(i, values[i])>>) /\ UNCHANGED <<pc, values, pos>>
    BY <1>1, <1>4, <2>2
  <2>5. Promise!Lists(<<Entry(i, values[i])>>, {i})
    BY <2>3, OneLists
  <2>6. Promise!Answer("id", <<i>>, {i}) /\ UNCHANGED Stored
    BY <2>4, <2>5, Answered
  <2>. QED  BY <2>3, <2>6 DEF Promise!LookupId, ids
<1>. QED  BY <1>3, <1>4

\* What a lookup by string finds is the string.
FindsIt(s) ==
    /\ ~HasLeaf(s) => \A k \in 1..(pos - 1) : values[k] # s
    /\ HasLeaf(s) /\ ~Find(s).fails /\ HasId(Find(s).it) =>
          \E k \in 1..(pos - 1) : GetId(Find(s).it) = k /\ values[k] = s

LEMMA HatFinds ==
    ASSUME SortedInputs, Rest, kind # "bottomup", NEW s
    PROVE  FindsIt(s)
<1>1. DOMAIN reverseIndex = { values[k] : k \in 1..(pos - 1) }
  BY StoredIs
<1>2. HasLeaf(s) <=> s \in DOMAIN reverseIndex
  BY DEF HasLeaf
<1>3. ASSUME NEW k \in 1..(pos - 1), values[k] = s
      PROVE  GetId(Find(s).it) = k
  <2>1. GetId(DecodeLeaf(reverseIndex[s])) = k
    BY <1>3, KeyReads
  <2>2. Find(s).it = DecodeLeaf(reverseIndex[s])
    BY DEF Find
  <2>. QED  BY <2>1, <2>2
<1>. QED  BY <1>1, <1>2, <1>3 DEF FindsIt

LEMMA LookupValueKeeps ==
    ASSUME SortedInputs, Rest, NEW s \in Queries, FindsIt(s), LookupValue(s)
    PROVE  Promise!LookupValue(s) \/ UNCHANGED <<Stored, answer>>
<1>. DEFINE ids == { id \in DOMAIN Stored : Stored[id] = s }
<1>1. /\ IF ~HasLeaf(s) THEN Answer("value", s, <<>>) /\ UNCHANGED pc
         ELSE IF ~Find(s).fails /\ HasId(Find(s).it)
         THEN Answer("value", s, <<Entry(GetId(Find(s).it), s)>>) /\ UNCHANGED pc
         ELSE pc' = "aborted" /\ UNCHANGED answer
      /\ UNCHANGED <<values, pos>>
  BY Zenon DEF LookupValue
<1>2. /\ DOMAIN Stored = 1..(pos - 1) /\ \A k \in 1..(pos - 1) : Stored[k] = values[k] /\ k \in 1..Len(values)
      /\ \A i, j \in 1..Len(values) : values[i] = values[j] => i = j
  BY StoredIs
<1>3. CASE ~HasLeaf(s)
  <2>1. ids = {}
    BY <1>2, <1>3 DEF FindsIt
  <2>2. Answer("value", s, <<>>) /\ UNCHANGED <<pc, values, pos>>
    BY <1>1, <1>3
  <2>3. Promise!Answer("value", s, {}) /\ UNCHANGED Stored
    BY <2>2, NothingLists, Answered
  <2>. QED  BY <2>1, <2>3 DEF Promise!LookupValue
<1>4. CASE HasLeaf(s) /\ ~Find(s).fails /\ HasId(Find(s).it)
  <2>1. PICK k \in 1..(pos - 1) : GetId(Find(s).it) = k /\ values[k] = s
    BY <1>4 DEF FindsIt
  <2>2. ids = {k}
    BY <1>2, <2>1
  <2>. HIDE DEF ids
  <2>3. Answer("value", s, <<Entry(k, values[k])>>) /\ UNCHANGED <<pc, values, pos>>
    BY <1>1, <1>4, <2>1
  <2>4. Promise!Lists(<<Entry(k, values[k])>>, {k})
    BY OneLists
  <2>5. Promise!Answer("value", s, {k}) /\ UNCHANGED Stored
    BY <2>3, <2>4, Answered
  <2>. QED  BY <2>2, <2>5 DEF Promise!LookupValue, ids
<1>5. CASE HasLeaf(s) /\ ~(~Find(s).fails /\ HasId(Find(s).it))
  BY <1>1, <1>5, AbortStutters
<1>. QED  BY <1>3, <1>4, <1>5

LEMMA RangeLookupKeeps ==
    ASSUME SortedInputs, Rest, kind # "bottomup", NEW prefix \in Strings, RangeLookup(prefix)
    PROVE  Promise!RangeLookup(prefix) \/ UNCHANGED <<Stored, answer>>
<1>. DEFINE keys == Matching(prefix)
            n == pos - 1
            ids == { id \in DOMAIN Stored : StartsWith(Stored[id], prefix) }
<1>1. /\ \E range \in Ranges(prefix) :
            IF range.ended = "aborted" THEN pc' = "aborted" /\ UNCHANGED answer
            ELSE Answer("range", prefix, range.out) /\ UNCHANGED pc
      /\ UNCHANGED <<values, pos>>
  BY DEF RangeLookup
<1>2. /\ DOMAIN Stored = 1..n /\ \A k \in 1..n : Stored[k] = values[k]
      /\ DOMAIN reverseIndex = { values[k] : k \in 1..n } /\ n \in Nat /\ AscendTo(values, n)
  BY StoredIs
<1>3. keys = { values[j] : j \in { i \in 1..n : StartsWith(values[i], prefix) } }
  BY <1>2 DEF Matching
<1>4. ~GoesWild(prefix)
  BY DEF GoesWild
<1>5. CASE keys = {}
  <2>1. RangeEnds(prefix) = {}
    BY <1>5 DEF RangeEnds
  <2>2. Ranges(prefix) = { Nothing }
    BY <1>4, <2>1 DEF Ranges
  <2>3. Answer("range", prefix, <<>>) /\ UNCHANGED <<pc, values, pos>>
    BY <1>1, <2>2 DEF Nothing
  <2>4. ids = {}
    BY <1>2, <1>3, <1>5
  <2>5. Promise!Answer("range", prefix, {}) /\ UNCHANGED Stored
    BY <2>3, NothingLists, Answered
  <2>. QED  BY <2>4, <2>5 DEF Promise!RangeLookup
<1>6. CASE keys # {}
  <2>1. PICK first, last \in 1..n :
              /\ first <= last
              /\ Smallest(keys) = values[first] /\ Largest(keys) = values[last]
              /\ \A j \in 1..n : StartsWith(values[j], prefix) <=> j \in first..last
    <3>1. n \in Nat /\ AscendTo(values, n) /\ prefix \in Strings /\ keys # {} /\ keys = WithPrefix(values, n, prefix)
      BY <1>2, <1>3, <1>6 DEF WithPrefix
    <3>. HIDE DEF keys, n
    <3>2. IsRangeOf(keys, values, n, prefix)
      BY <3>1, PrefixIsRange
    <3>. QED  BY <3>2 DEF IsRangeOf
  <2>2. Sparse!Least(keys) = values[first] /\ Sparse!Greatest(keys) = values[last]
    <3>1. Sparse!Least(keys) = Smallest(keys) /\ Sparse!Greatest(keys) = Largest(keys)
      BY DEF Sparse!Least, Sparse!Greatest, Smallest, Largest, LexLess, Sparse!LexLess,
             PrefixLength, Sparse!PrefixLength
    <3>. QED  BY <2>1, <3>1
  <2>. DEFINE start == DecodeLeaf(reverseIndex[values[first]])
              end   == DecodeLeaf(reverseIndex[values[last]])
  <2>3. RangeEnds(prefix) = { [start |-> start, end |-> end] }
    BY <1>6, <2>2 DEF RangeEnds
  <2>4. Sits(start, first) /\ Sits(end, last) /\ GetId(end) = last /\ HasValue(end)
    BY KeyReads, SitsReads
  <2>. HIDE DEF start, end, keys
  <2>5. Ranges(prefix) = { Scan(start, last) }
    <3>1. RangeEnds(prefix) # {}
      BY <2>3
    <3>2. \A ends \in RangeEnds(prefix) : ends.start = start /\ ends.end = end
      BY <2>3
    <3>3. Ranges(prefix) = { IF HasValue(ends.end) THEN Scan(ends.start, GetId(ends.end)) ELSE Aborted :
                                ends \in RangeEnds(prefix) }
      BY <1>4, <3>1 DEF Ranges
    <3>4. \A ends \in RangeEnds(prefix) :
             (IF HasValue(ends.end) THEN Scan(ends.start, GetId(ends.end)) ELSE Aborted) = Scan(start, last)
      BY <2>4, <3>2
    <3>. QED  BY <3>1, <3>3, <3>4
  <2>6. Scan(start, last).ended # "aborted" /\ Scan(start, last).out = Listed(first, last)
    BY <2>1, <2>4, ScanLists
  <2>7. Answer("range", prefix, Listed(first, last)) /\ UNCHANGED <<pc, values, pos>>
    BY <1>1, <2>5, <2>6
  <2>8. Promise!Lists(Listed(first, last), first..last)
    BY <2>1, ListedLists
  <2>9. ids = first..last
    <3>1. \A j \in first..last : j \in 1..n
      BY <1>2
    <3>2. \A j : j \in ids <=> j \in first..last
      BY <1>2, <2>1, <3>1
    <3>. QED  BY <3>2
  <2>10. Promise!Answer("range", prefix, first..last) /\ UNCHANGED Stored
    BY <2>7, <2>8, Answered
  <2>. HIDE DEF ids
  <2>. QED  BY <2>9, <2>10 DEF Promise!RangeLookup, ids
<1>. QED  BY <1>5, <1>6

LEMMA MultiCalls ==
    ASSUME LoaderInv, WriteMulti
    PROVE  pc' = "callback"
<1>1. MultiValue(current = Null \/ ~ValueFits)
  BY MultiWrites
<1>2. PICK opens : MultiValue(opens)
  BY <1>1
<1>3. PICK page \in { IF opens THEN Len(pages) + 1 ELSE current }, off \in { IF opens THEN 0 ELSE dataPtr },
          number \in { IF opens THEN 0 ELSE deltaNumber },
          cell \in { IF opens \/ IsFull THEN FullCell(pos, values[pos])
                     ELSE DeltaCell(pos, LastFull, values[pos]) } :
          MultiStep(IF opens THEN PagesAndNew ELSE pages,
                    IF opens THEN Append(slots, <<>>) ELSE slots,
                    IF opens THEN Append(sizes, PageSize) ELSE sizes, page, off, cell, number)
  BY <1>2, Zenon DEF MultiValue
<1>. QED  BY <1>3 DEF MultiStep, Callback

\* A load takes effect when it returns, or is left by an exception.
LEMMA LoadTakesEffect ==
    ASSUME LoaderInv, ContentInv, KnowInv, WriteValue \/ BulkInsertReturns
    PROVE  Promise!BulkInsert \/ UNCHANGED <<Stored, answer>>
<1>1. /\ pc \in {"loop", "open"} /\ pc' # "aborted" /\ pos \in Nat \ {0} /\ pos <= Len(values) + 1
      /\ UNCHANGED values
  <2>1. pc \in {"loop", "open"} /\ UNCHANGED values /\ pc' # "aborted"
    <3>1. ASSUME OpenPage \/ OpenBlock \/ WriteFull \/ WriteDelta \/ Finish
          PROVE  pc \in {"loop", "open"} /\ UNCHANGED values /\ pc' # "aborted"
      BY <3>1, Zenon DEF OpenPage, OpenBlock, WriteFull, WriteDelta, Finish, Looping, Callback
    <3>2. ASSUME WriteMulti
          PROVE  pc \in {"loop", "open"} /\ UNCHANGED values /\ pc' # "aborted"
      <4>1. pc = "loop" /\ UNCHANGED values
        BY <3>2 DEF WriteMulti, Looping
      <4>2. pc' = "callback"
        BY <3>2, MultiCalls
      <4>. QED  BY <4>1, <4>2
    <3>. QED  BY <3>1, <3>2 DEF WriteValue, BulkInsertReturns
  <2>. QED  BY <2>1 DEF LoaderInv, LoaderTypes
<1>2. Stored = <<>>
  BY <1>1 DEF Stored
<1>3. CASE pc' \notin {"ready", "threw"}
  <2>1. UNCHANGED answer
    BY <1>3, Zenon DEF WriteValue, BulkInsertReturns
  <2>. QED  BY <1>1, <1>2, <1>3, <2>1 DEF Stored
<1>4. Len(values) \in Nat /\ pos - 1 \in 0..Len(values)
  BY <1>1 DEF LoaderInv, LoaderTypes
<1>5. values \in Inputs \union {<<>>}
  BY DEF ContentInv
<1>6. CASE pc' = "threw"
  <2>1. OpenPage
    <3>1. BulkInsertReturns => pc' # "threw"
      BY DEF BulkInsertReturns, Finish
    <3>2. OpenBlock \/ WriteFull \/ WriteDelta => pc' # "threw"
      BY Zenon DEF OpenBlock, WriteFull, WriteDelta, Callback
    <3>. QED  BY <1>6, <3>1, <3>2, MultiCalls DEF WriteValue
  <2>2. /\ pos <= Len(values) /\ pos' = pos /\ RoomFor(0) > EndOfPage
    BY <1>6, <2>1, Zenon DEF OpenPage, Looping, Callback
  <2>3. Answer("threw", <<>>, <<>>)
    <3>1. ~BulkInsertReturns
      BY <2>1 DEF BulkInsertReturns, Finish, OpenPage, Looping, LoaderInv, LoaderTypes
    <3>. QED  BY <1>6, <3>1, Zenon DEF WriteValue
  <2>4. values \in Inputs
    <3>1. values # <<>>
      BY <1>1, <2>2
    <3>. QED  BY <1>5, <3>1
  <2>5. ~(IndexHeader + FullHeader + Len(values[pos]) <= EndOfPage)
    <3>1. RoomFor(0) \in Nat /\ EndOfPage \in Int /\ RoomFor(0) = IndexHeader + FullHeader + Len(values[pos])
      BY <2>2, FirstFits
    <3>. QED  BY <2>2, <3>1
  <2>. DEFINE n == pos - 1
  <2>6. n \in 0..Len(values) /\ n + 1 = pos /\ n # Len(values)
    BY <1>1, <1>4, <2>2
  <2>7. Stored' = SubSeq(values, 1, n)
    BY <1>1, <1>6, <2>2 DEF Stored
  <2>. HIDE DEF n
  <2>8. answer' = [op |-> IF n = Len(values) THEN "inserted" ELSE "threw", arg |-> <<>>, out |-> <<>>]
    BY <2>3, <2>6 DEF Answer
  <2>9. answer'.op \in {"inserted", "threw"}
    BY <2>8
  <2>. QED  BY <1>2, <2>4, <2>5, <2>6, <2>7, <2>8, <2>9 DEF Promise!BulkInsert
<1>7. CASE pc' = "ready"
  <2>1. BulkInsertReturns
    <3>1. OpenPage \/ OpenBlock \/ WriteFull \/ WriteDelta => pc' # "ready"
      BY Zenon DEF OpenPage, OpenBlock, WriteFull, WriteDelta, Callback
    <3>. QED  BY <1>7, <3>1, MultiCalls DEF WriteValue
  <2>2. pos > Len(values) /\ pos' = pos /\ current # Null /\ Answer("inserted", <<>>, <<>>)
    BY <1>7, <2>1 DEF BulkInsertReturns, Finish
  <2>3. values \in Inputs
    <3>1. values # <<>>
      BY <2>2 DEF LoaderInv, LoaderTypes
    <3>. QED  BY <1>5, <3>1
  <2>. DEFINE n == Len(values)
  <2>4. n \in 0..n /\ n = pos - 1
    BY <1>1, <1>4, <2>2
  <2>5. Stored' = SubSeq(values, 1, n)
    BY <1>1, <1>7, <2>2, <2>4 DEF Stored
  <2>6. answer' = [op |-> IF n = Len(values) THEN "inserted" ELSE "threw", arg |-> <<>>, out |-> <<>>]
    BY <2>2 DEF Answer
  <2>7. answer'.op \in {"inserted", "threw"}
    BY <2>6
  <2>. HIDE DEF n
  <2>8. ~(n < Len(values)) /\ n \in 0..Len(values)
    BY <2>4 DEF n
  <2>. QED  BY <1>2, <2>3, <2>5, <2>6, <2>7, <2>8 DEF Promise!BulkInsert
<1>. QED  BY <1>3, <1>6, <1>7

\* What a lookup by string finds, for the strings that are looked up.
Finds == kind = "bottomup" => \A s \in Queries : FindsIt(s)

LEMMA PromiseStep ==
    ASSUME SortedInputs, AskedStrings, FitsWidths, DictionaryInv, ChainInv, KnowInv, AtRest => Finds, [Next]_vars
    PROVE  [Promise!Next]_<<Stored, answer>>
<1>1. LoaderInv /\ ContentInv /\ kind \in Kinds
  BY DEF DictionaryInv, LoaderInv, LoaderTypes
<1>2. ASSUME NEW vs \in Inputs, BulkInsert(vs)
      PROVE  UNCHANGED <<Stored, answer>>
  <2>1. pc = "ready" /\ pc' = "loop" /\ values = <<>> /\ UNCHANGED answer
    BY <1>2 DEF BulkInsert, Load
  <2>2. Stored = <<>>
    <3>1. pos = 1
      BY <1>1, <2>1 DEF LoaderInv, LoaderTypes
    <3>2. Stored = SubSeq(values, 1, pos - 1)
      BY <2>1 DEF Stored
    <3>. QED  BY <2>1, <3>1, <3>2
  <2>. QED  BY <2>1, <2>2 DEF Stored
<1>3. CASE InsertReverse \/ InsertId
  <2>1. /\ pc \in {"callback", "indexed"} /\ pc' \in {"indexed", "overrun", "open", "loop"}
        /\ UNCHANGED answer
    BY <1>3 DEF InsertReverse, InsertId, Return
  <2>. QED  BY <2>1 DEF Stored
<1>4. CASE WriteValue \/ BulkInsertReturns
  BY <1>1, <1>4, LoadTakesEffect DEF Promise!Next
<1>5. CASE Lookup
  <2>1. AtRest
    BY <1>5, LookupsOnlyRead
  <2>2. Rest /\ Finds
    BY <2>1 DEF Rest
  <2>3. ASSUME NEW s \in Queries, LookupValue(s)
        PROVE  Promise!Next \/ UNCHANGED <<Stored, answer>>
    <3>1. FindsIt(s)
      BY <2>2, HatFinds DEF Finds
    <3>. QED  BY <2>2, <2>3, <3>1, LookupValueKeeps DEF Promise!Next
  <2>4. ASSUME NEW s \in PrefixQueries[kind], RangeLookup(s)
        PROVE  Promise!Next \/ UNCHANGED <<Stored, answer>>
    <3>1. kind # "bottomup" /\ s \in Queries /\ s \in Strings
      BY <1>1 DEF AskedStrings
    <3>. QED  BY <2>2, <2>4, <3>1, RangeLookupKeeps DEF Promise!Next
  <2>5. ASSUME NEW i \in 0..MaxId, LookupId(i)
        PROVE  Promise!Next \/ UNCHANGED <<Stored, answer>>
    BY <2>2, <2>5, LookupIdKeeps DEF Promise!Next
  <2>. QED  BY <1>5, <2>3, <2>4, <2>5 DEF Lookup
<1>6. CASE UNCHANGED vars
  BY <1>6 DEF vars, Stored
<1>7. Next => \/ \E vs \in Inputs : BulkInsert(vs)
              \/ InsertReverse \/ InsertId \/ WriteValue \/ BulkInsertReturns
              \/ Lookup
  BY DEF Next, LoadStep
<1>. QED  BY <1>2, <1>3, <1>4, <1>5, <1>6, <1>7

-----------------------------------------------------------------------------
(* The binary search on a page.                                            *)

\* One turn of its loop.
HalvedAt(search, p, str, s) ==
    LET middle == s.start + (s.end - s.start) \div 2
    IN  IF s.start >= s.end THEN 0
        ELSE IF Position(p, str, middle + 1) = "equal" THEN middle + 1
        ELSE IF Position(p, str, middle + 1) = "after"
        THEN search[[start |-> middle + 1, end |-> s.end]]
        ELSE search[[start |-> s.start, end |-> middle]]

LEMMA HalfBetween ==
    ASSUME NEW p, Entries(p) \in Nat, NEW s \in Between(p), s.start < s.end
    PROVE  LET middle == s.start + (s.end - s.start) \div 2
               upper  == [start |-> middle + 1, end |-> s.end]
               lower  == [start |-> s.start, end |-> middle]
           IN  /\ middle + 1 \in 1..Entries(p)
               /\ upper \in Between(p) /\ Width(upper) < Width(s)
               /\ lower \in Between(p) /\ Width(lower) < Width(s)
<1>. DEFINE middle == s.start + (s.end - s.start) \div 2
<1>1. s.start \in 0..Entries(p) /\ s.end \in 0..Entries(p)
  BY DEF Between
<1>2. middle \in 0..Entries(p) /\ s.start <= middle /\ middle < s.end /\ middle + 1 \in 1..Entries(p)
  BY <1>1
<1>. HIDE DEF middle
<1>3. [start |-> middle + 1, end |-> s.end] \in Between(p) /\ [start |-> s.start, end |-> middle] \in Between(p)
  BY <1>1, <1>2 DEF Between
<1>4. /\ Width([start |-> middle + 1, end |-> s.end]) < Width(s)
      /\ Width([start |-> s.start, end |-> middle]) < Width(s)
  BY <1>1, <1>2 DEF Width
<1>. QED  BY <1>2, <1>3, <1>4 DEF middle

LEMMA HalvedSame ==
    ASSUME NEW p, Entries(p) \in Nat, NEW str, NEW f, NEW g, NEW s \in Between(p),
           \A y \in Between(p) : Width(y) < Width(s) => f[y] = g[y]
    PROVE  HalvedAt(f, p, str, s) = HalvedAt(g, p, str, s)
<1>. DEFINE middle == s.start + (s.end - s.start) \div 2
            upper  == [start |-> middle + 1, end |-> s.end]
            lower  == [start |-> s.start, end |-> middle]
<1>1. CASE s.start >= s.end
  BY <1>1 DEF HalvedAt
<1>2. CASE ~(s.start >= s.end)
  <2>1. s.start < s.end
    BY <1>2 DEF Between
  <2>2. f[upper] = g[upper] /\ f[lower] = g[lower]
    BY <2>1, HalfBetween
  <2>3. HalvedAt(f, p, str, s) =
          IF Position(p, str, middle + 1) = "equal" THEN middle + 1
          ELSE IF Position(p, str, middle + 1) = "after" THEN f[upper] ELSE f[lower]
    BY <1>2, Zenon DEF HalvedAt
  <2>4. HalvedAt(g, p, str, s) =
          IF Position(p, str, middle + 1) = "equal" THEN middle + 1
          ELSE IF Position(p, str, middle + 1) = "after" THEN g[upper] ELSE g[lower]
    BY <1>2, Zenon DEF HalvedAt
  <2>. HIDE DEF upper, lower
  <2>. QED  BY <2>2, <2>3, <2>4
<1>. QED  BY <1>1, <1>2

\* What it may give: nothing, or an entry at which the string is.
Hits(p, str) == { e \in 0..Entries(p) : e = 0 \/ Position(p, str, e) = "equal" }

LEMMA HalvedHits ==
    ASSUME NEW p, Entries(p) \in Nat, NEW str, NEW f, NEW s \in Between(p),
           \A y \in Between(p) : Width(y) < Width(s) => f[y] \in Hits(p, str)
    PROVE  HalvedAt(f, p, str, s) \in Hits(p, str)
<1>. DEFINE middle == s.start + (s.end - s.start) \div 2
            upper  == [start |-> middle + 1, end |-> s.end]
            lower  == [start |-> s.start, end |-> middle]
<1>1. CASE s.start >= s.end
  BY <1>1 DEF HalvedAt, Hits
<1>2. CASE ~(s.start >= s.end)
  <2>1. s.start < s.end
    BY <1>2 DEF Between
  <2>2. middle + 1 \in 1..Entries(p) /\ f[upper] \in Hits(p, str) /\ f[lower] \in Hits(p, str)
    BY <2>1, HalfBetween
  <2>3. HalvedAt(f, p, str, s) =
          IF Position(p, str, middle + 1) = "equal" THEN middle + 1
          ELSE IF Position(p, str, middle + 1) = "after" THEN f[upper] ELSE f[lower]
    BY <1>2, Zenon DEF HalvedAt
  <2>. DEFINE entry == middle + 1
  <2>4. Position(p, str, entry) = "equal" => entry \in Hits(p, str)
    BY <2>2 DEF Hits
  <2>. HIDE DEF upper, lower, entry
  <2>. QED  BY <2>2, <2>3, <2>4 DEF entry
<1>. QED  BY <1>1, <1>2

\* The search goes by its turns.
LEMMA BinarySearchIs ==
    ASSUME NEW p, Entries(p) \in Nat, NEW str
    PROVE  \E search :
               /\ \A s \in Between(p) : search[s] = HalvedAt(search, p, str, s)
               /\ Entries(p) = 0 => BinarySearch(p, str) = 0
               /\ Entries(p) # 0 => BinarySearch(p, str) = search[[start |-> 0, end |-> Entries(p) - 1]]
<1>. DEFINE D == Between(p)
            H == Hits(p, str)
            IsSearch(f) == f = [s \in D |-> HalvedAt(f, p, str, s)]
            search == CHOOSE f : IsSearch(f)
            Size == [s \in D |-> Width(s)]
            Body == [f \in [D -> H] |-> [s \in D |-> HalvedAt(f, p, str, s)]]
            bound == Entries(p) + 1
<1>1. \A s \in D : Width(s) \in Nat /\ Width(s) < bound
  BY DEF Between, Width
<1>2. \E f : IsSearch(f)
  <2>1. Size \in [D -> Nat] /\ bound \in Nat /\ \A s \in D : Size[s] < bound
    BY <1>1
  <2>2. Body \in [[D -> H] -> [D -> H]]
    <3>. HIDE DEF D, H
    <3>1. ASSUME NEW f \in [D -> H], NEW s \in D
          PROVE  HalvedAt(f, p, str, s) \in H
      BY HalvedHits DEF D, H
    <3>. QED  BY <3>1
  <2>3. ASSUME NEW f \in [D -> H], NEW g \in [D -> H], NEW s \in D,
               \A y \in D : Size[y] < Size[s] => f[y] = g[y]
        PROVE  Body[f][s] = Body[g][s]
    <3>1. \A y \in D : Width(y) < Width(s) => f[y] = g[y]
      BY <2>3
    <3>2. HalvedAt(f, p, str, s) = HalvedAt(g, p, str, s)
      BY <3>1, HalvedSame
    <3>. QED  BY <3>2
  <2>4. 0 \in H
    BY DEF Hits
  <2>. HIDE DEF Size, Body, bound, D, H
  <2>5. DependsOnSmaller(Body, D, H, Size)
    BY <2>3 DEF DependsOnSmaller
  <2>6. \E f : IsFixed(f, Body, D, H)
    BY <2>1, <2>2, <2>4, <2>5, Recursion
  <2>. QED  BY <2>6 DEF Body, IsFixed
<1>3. IsSearch(search)
  <2>. HIDE DEF IsSearch
  <2>. QED  BY <1>2
<1>4. /\ Entries(p) = 0 => BinarySearch(p, str) = 0
      /\ Entries(p) # 0 => BinarySearch(p, str) = search[[start |-> 0, end |-> Entries(p) - 1]]
  <2>1. ASSUME Entries(p) = 0 PROVE BinarySearch(p, str) = 0
    BY <2>1, Zenon DEF BinarySearch
  <2>2. ASSUME Entries(p) # 0
        PROVE  BinarySearch(p, str) = search[[start |-> 0, end |-> Entries(p) - 1]]
    BY <2>2, Zenon DEF BinarySearch, HalvedAt
  <2>. QED  BY <2>1, <2>2
<1>. HIDE DEF search
<1>5. \A s \in D : search[s] = HalvedAt(search, p, str, s)
  BY <1>3
<1>. QED  BY <1>4, <1>5

LEMMA BinarySearchHits ==
    ASSUME NEW p, Entries(p) \in Nat, NEW str
    PROVE  BinarySearch(p, str) \in Hits(p, str)
<1>. DEFINE D == Between(p)
            H == Hits(p, str)
<1>1. \A s \in D : Width(s) \in Nat
  BY DEF Between, Width
<1>2. PICK search : /\ \A s \in D : search[s] = HalvedAt(search, p, str, s)
                    /\ Entries(p) = 0 => BinarySearch(p, str) = 0
                    /\ Entries(p) # 0 => BinarySearch(p, str) = search[[start |-> 0, end |-> Entries(p) - 1]]
  BY BinarySearchIs
<1>. DEFINE Bad == { Width(s) : s \in { s \in D : search[s] \notin H } }
<1>3. Bad = {}
  <2>1. SUFFICES ASSUME Bad # {} PROVE FALSE
    OBVIOUS
  <2>2. PICK w \in Bad : \A v \in Bad : w <= v
    <3>1. Bad \in SUBSET Nat
      BY <1>1
    <3>. HIDE DEF Bad
    <3>. QED  BY <2>1, <3>1, LeastElement
  <2>3. PICK s \in D : search[s] \notin H /\ w = Width(s)
    OBVIOUS
  <2>4. \A y \in D : Width(y) < Width(s) => search[y] \in H
    <3>1. \A y \in D : search[y] \notin H => Width(y) \in Bad
      OBVIOUS
    <3>2. \A y \in D : Width(y) \in Nat
      BY <1>1
    <3>. HIDE DEF Bad, D, H
    <3>. QED  BY <2>2, <2>3, <3>1, <3>2
  <2>5. HalvedAt(search, p, str, s) \in H
    BY <2>4, HalvedHits
  <2>. QED  BY <1>2, <2>3, <2>5
<1>4. Entries(p) # 0 => [start |-> 0, end |-> Entries(p) - 1] \in D
  BY DEF Between
<1>5. 0 \in H
  BY DEF Hits
<1>. QED  BY <1>2, <1>3, <1>4, <1>5

\* A string that agrees with another on what a delta leaves out and on what it
\* keeps is the other one.
LEMMA SameDelta ==
    ASSUME NEW r \in Strings, NEW v \in Strings, NEW s \in Strings,
           ~(PrefixLength(r, s) < PrefixLength(r, v)),
           Delta(r, v) = SubSeq(s, PrefixLength(r, v) + 1, Len(s))
    PROVE  s = v
<1>. DEFINE n == PrefixLength(r, v)
            m == PrefixLength(r, s)
<1>1. /\ n \in Nat /\ n <= Len(r) /\ n <= Len(v) /\ \A i \in 1..n : r[i] = v[i]
      /\ m \in Nat /\ m <= Len(s) /\ \A i \in 1..m : r[i] = s[i]
  BY PrefixLengthProperties
<1>2. n <= m /\ SubSeq(v, n + 1, Len(v)) = SubSeq(s, n + 1, Len(s))
  BY <1>1, SMTT(30) DEF Delta
<1>3. /\ Len(v) \in Nat /\ Len(s) \in Nat /\ v = [i \in 1..Len(v) |-> v[i]] /\ s = [i \in 1..Len(s) |-> s[i]]
  BY DEF Strings
<1>. HIDE DEF n, m
<1>4. ASSUME NEW u \in Strings, n <= Len(u)
      PROVE  /\ Len(SubSeq(u, n + 1, Len(u))) = Len(u) - n
             /\ \A i \in 1..(Len(u) - n) : SubSeq(u, n + 1, Len(u))[i] = u[n + i]
  <2>1. Len(u) \in Nat /\ \A i \in (n + 1)..Len(u) : i \in 1..Len(u) /\ u[i] \in Nat
    BY <1>1 DEF Strings
  <2>. QED  BY <1>1, <1>4, <2>1, SubSeqProperties
<1>5. n <= Len(s) /\ n <= Len(v)
  BY <1>1, <1>2, <1>3
<1>6. Len(v) = Len(s)
  <2>1. Len(v) - n = Len(s) - n
    <3>1. /\ Len(SubSeq(v, n + 1, Len(v))) = Len(v) - n
          /\ Len(SubSeq(s, n + 1, Len(s))) = Len(s) - n
      BY <1>4, <1>5
    <3>. QED  BY <1>2, <3>1
  <2>2. Len(v) \in Nat /\ Len(s) \in Nat /\ n \in Nat
    BY <1>1, <1>3
  <2>. QED  BY ONLY <2>1, <2>2
<1>7. ASSUME NEW i \in 1..Len(s)
      PROVE  v[i] = s[i]
  <2>1. CASE i <= n
    <3>1. i \in 1..n /\ i \in 1..m
      BY <1>1, <1>2, <1>3, <2>1
    <3>. QED  BY <1>1, <3>1
  <2>2. CASE ~(i <= n)
    <3>. DEFINE j == i - n
    <3>1. j \in 1..(Len(s) - n) /\ n + j = i
      BY <1>1, <1>3, <2>2
    <3>. HIDE DEF j
    <3>2. SubSeq(v, n + 1, Len(v))[j] = v[n + j] /\ SubSeq(s, n + 1, Len(s))[j] = s[n + j]
      BY <1>4, <1>5, <1>6, <3>1
    <3>. QED  BY <1>2, <3>1, <3>2
  <2>. QED  BY <2>1, <2>2
<1>. QED  BY <1>3, <1>6, <1>7

\* A cell at which the search finds the string holds it.
LEMMA EqualCell ==
    ASSUME Rest, kind = "bottomup", NEW p \in 1..Len(pages), NEW e \in 1..Entries(p), NEW str \in Strings,
           slots[p][e] \in DOMAIN pages[p].cells, Position(p, str, e) = "equal"
    PROVE  /\ pages[p].cells[slots[p][e]].id \in 1..Len(values)
           /\ values[pages[p].cells[slots[p][e]].id] = str
<1>. DEFINE o == slots[p][e]
            cell == pages[p].cells[o]
            id == cell.id
            r == pages[p].cells[0].str
<1>1. SoundCells(pages[p], values) /\ EntriesLead(pages[p], slots[p])
  BY DEF Rest, DictionaryInv, ContentInv, Contents, PageContent
<1>2. o \in Nat
  BY DEF Rest, DictionaryInv, LoaderInv, PagesInv, AllSound, SoundPage, IsPage
<1>3. o # 0
  <2>1. o # Unwritten
    BY <1>2 DEF Unwritten
  <2>. QED  BY <1>1, <2>1 DEF EntriesLead, Entries
<1>4. /\ 0 \in DOMAIN pages[p].cells /\ id \in 1..Len(values)
      /\ cell = DeltaCell(id, r, values[id])
  <2>. HIDE DEF o
  <2>1. /\ 0 \in DOMAIN pages[p].cells /\ cell.id \in 1..Len(values)
        /\ cell = IF o = 0 THEN FullCell(cell.id, values[cell.id])
                  ELSE DeltaCell(cell.id, pages[p].cells[0].str, values[cell.id])
    BY <1>1 DEF SoundCells, o
  <2>. QED  BY <1>3, <2>1
<1>5. r \in Strings
  BY <1>4 DEF Rest, DictionaryInv, LoaderInv, PagesInv, AllSound, SoundPage, IsPage, Cells, Strings
<1>6. values[id] \in Strings /\ Len(values[id]) < StringRange /\ id \in Nat
  <2>. HIDE DEF id
  <2>1. LoaderTypes
    BY DEF Rest, DictionaryInv, LoaderInv
  <2>2. values \in Seq(Strings) /\ \A k \in 1..Len(values) : Len(values[k]) < StringRange
    BY ONLY <2>1 DEF LoaderTypes, Short
  <2>. QED  BY ONLY <1>4, <2>2
<1>7. cell.str = Delta(r, values[id]) /\ cell.prefix = PrefixLength(r, values[id])
  <2>. HIDE DEF cell, id, r
  <2>. QED  BY <1>4, <1>5, <1>6, DeltaCellProperties, SMTT(30)
<1>8. ~(PrefixLength(r, str) < cell.prefix) /\ cell.str = SubSeq(str, cell.prefix + 1, Len(str))
  BY DEF Position, DeltaOf
<1>. HIDE DEF cell, id, r, o
<1>9. str = values[id]
  <2>. DEFINE v == values[id]
  <2>1. v \in Strings /\ ~(PrefixLength(r, str) < PrefixLength(r, v))
        /\ Delta(r, v) = SubSeq(str, PrefixLength(r, v) + 1, Len(str))
    BY <1>6, <1>7, <1>8
  <2>. HIDE DEF v
  <2>2. str = v
    BY <1>5, <2>1, SameDelta
  <2>. QED  BY <2>2 DEF v
<1>. QED  BY <1>4, <1>9 DEF id, cell, o

\* On the page where indexSearch ends it finds the string, or nothing.
LEMMA SearchOnFinds ==
    ASSUME Rest, kind = "bottomup", NEW p \in 1..Len(pages), NEW str \in Strings, HasId(SearchOn(p, str))
    PROVE  \E k \in 1..Len(values) : GetId(SearchOn(p, str)) = k /\ values[k] = str
<1>. DEFINE it == SearchOn(p, str)
            entry == IF Entries(p) > 0 /\ Position(p, str, Entries(p)) = "equal"
                     THEN Entries(p) ELSE BinarySearch(p, str)
<1>1. it = IF str = pages[p].cells[0].str THEN GetIndexEntry(p, 0)
           ELSE IF entry > 0 THEN GetIndexEntry(p, entry) ELSE NullIterator
  BY DEF SearchOn
<1>2. Entries(p) \in Nat
  BY DEF Entries, Rest, DictionaryInv, LoaderInv, PagesInv, AllSound, SoundPage, IsSequence
<1>3. entry \in Hits(p, str)
  BY <1>2, BinarySearchHits DEF Hits
<1>4. ~HasId(NullIterator)
  BY DEF HasId, AtCell, NullIterator
<1>5. \A e : /\ GetIndexEntry(p, e).page = p
             /\ GetIndexEntry(p, e).off = IF e = 0 THEN 0 ELSE slots[p][e]
  BY DEF GetIndexEntry, IteratorAt
<1>6. SoundCells(pages[p], values)
  BY DEF Rest, DictionaryInv, ContentInv, Contents, PageContent
<1>. HIDE DEF entry
<1>7. CASE str = pages[p].cells[0].str
  <2>1. it.page = p /\ it.off = 0
    BY <1>1, <1>5, <1>7
  <2>2. 0 \in DOMAIN pages[p].cells /\ GetId(it) = pages[p].cells[0].id
    BY <2>1 DEF HasId, AtCell, GetId, Cell
  <2>3. /\ pages[p].cells[0].id \in 1..Len(values)
        /\ pages[p].cells[0] = FullCell(pages[p].cells[0].id, values[pages[p].cells[0].id])
    BY <1>6, <2>2 DEF SoundCells
  <2>. DEFINE k == pages[p].cells[0].id
  <2>4. \A i, v : FullCell(i, v).str = v
    BY DEF FullCell
  <2>5. pages[p].cells[0].str = values[k]
    BY <2>3, <2>4
  <2>. QED  BY <1>7, <2>2, <2>3, <2>5
<1>8. CASE str # pages[p].cells[0].str
  <2>1. entry \in 1..Entries(p) /\ Position(p, str, entry) = "equal" /\ it = GetIndexEntry(p, entry)
    <3>1. entry > 0
      BY <1>1, <1>4, <1>8
    <3>. QED  BY <1>1, <1>2, <1>3, <1>8, <3>1 DEF Hits
  <2>2. it.page = p /\ it.off = slots[p][entry]
    BY <1>2, <1>5, <2>1
  <2>3. slots[p][entry] \in DOMAIN pages[p].cells /\ GetId(it) = pages[p].cells[slots[p][entry]].id
    BY <2>2 DEF HasId, AtCell, GetId, Cell
  <2>. QED  BY <2>1, <2>3, EqualCell
<1>. QED  BY <1>7, <1>8

\* Wherever the search starts, it finds the string or nothing.
LEMMA IndexSearchFinds ==
    ASSUME Rest, kind = "bottomup", NEW p \in 1..Len(pages), NEW str \in Strings,
           ~IndexSearch(p, str).fails, HasId(IndexSearch(p, str).it)
    PROVE  \E k \in 1..Len(values) : GetId(IndexSearch(p, str).it) = k /\ values[k] = str
<1>1. Len(pages) \in Nat /\ Links(pages, Len(pages))
  BY RestChain
<1>. DEFINE Wrong(q) == /\ ~IndexSearch(q, str).fails /\ HasId(IndexSearch(q, str).it)
                        /\ ~\E k \in 1..Len(values) : GetId(IndexSearch(q, str).it) = k /\ values[k] = str
            Left == { n \in Nat : n < Len(pages) /\ Wrong(Len(pages) - n) }
<1>2. ASSUME Left # {} PROVE FALSE
  <2>1. PICK n \in Left : \A m \in Left : n <= m
    <3>1. Left \in SUBSET Nat
      OBVIOUS
    <3>. HIDE DEF Left
    <3>. QED  BY <1>2, <3>1, LeastElement
  <2>. DEFINE q == Len(pages) - n
  <2>2. n \in Nat /\ n < Len(pages) /\ q \in 1..Len(pages) /\ Wrong(q)
    <3>1. n \in Nat /\ n < Len(pages) /\ Wrong(q)
      <4>. HIDE DEF Wrong
      <4>. QED  BY <2>1
    <3>. HIDE DEF Wrong
    <3>. QED  BY <1>1, <3>1
  <2>3. IndexSearch(q, str) = IF ~GoesOn(q, str) THEN [fails |-> FALSE, it |-> SearchOn(q, str)]
                              ELSE IF q = Len(pages) THEN [fails |-> TRUE, it |-> NullIterator]
                              ELSE IndexSearch(q + 1, str)
    BY <1>1, <2>2, IndexSearchIs
  <2>. HIDE DEF q
  <2>4. IndexSearch(q, str) # [fails |-> FALSE, it |-> SearchOn(q, str)]
    <3>. SUFFICES ASSUME IndexSearch(q, str) = [fails |-> FALSE, it |-> SearchOn(q, str)]
                  PROVE  FALSE
      OBVIOUS
    <3>1. IndexSearch(q, str).it = SearchOn(q, str)
      OBVIOUS
    <3>. QED  BY <2>2, <3>1, SearchOnFinds
  <2>5. IndexSearch(q, str) # [fails |-> TRUE, it |-> NullIterator]
    BY <2>2
  <2>6. q # Len(pages) /\ Wrong(q + 1)
    <3>1. q # Len(pages) /\ IndexSearch(q, str) = IndexSearch(q + 1, str)
      BY <2>3, <2>4, <2>5
    <3>. QED  BY <2>2, <3>1
  <2>7. n - 1 \in Nat /\ n - 1 < Len(pages) /\ Len(pages) - (n - 1) = q + 1 /\ ~(n <= n - 1)
    BY <1>1, <2>2, <2>6 DEF q
  <2>. HIDE DEF Wrong
  <2>8. n - 1 \in Left
    BY <2>6, <2>7
  <2>. HIDE DEF Left
  <2>. QED  BY <2>1, <2>7, <2>8
<1>. DEFINE n == Len(pages) - p
<1>3. n \in Nat /\ n < Len(pages) /\ Len(pages) - n = p
  BY <1>1
<1>4. n \notin Left
  BY <1>2
<1>. HIDE DEF n
<1>5. ~Wrong(Len(pages) - n)
  <2>. HIDE DEF Wrong
  <2>. QED  BY <1>3, <1>4
<1>. QED  BY <1>3, <1>5

-----------------------------------------------------------------------------
(* The way through the sparse tree.                                        *)

\* The strings are C strings: the tree puts a zero byte behind each.
NoZeros == \A vs \in Inputs : \A k \in 1..Len(vs) : \A j \in 1..Len(vs[k]) : vs[k][j] # 0

ZeroFree(v) == v \in Strings /\ \A j \in 1..Len(v) : v[j] # 0

\* A zero byte, and that only at the end.
IsKey(t) == t \in Strings /\ Len(t) # 0 /\ \A j \in 1..Len(t) : t[j] = 0 <=> j = Len(t)

\* The keys are among these, which ascend.
KeysAmong(keys, ts, n) ==
    /\ AscendTo(ts, n)
    /\ \A t \in keys : IsKey(t) /\ \E j \in 1..n : ts[j] = t

LEMMA TerminatedKey ==
    ASSUME NEW v, ZeroFree(v)
    PROVE  /\ IsKey(Sparse!Terminated(v)) /\ Len(Sparse!Terminated(v)) = Len(v) + 1
           /\ \A j \in 1..Len(v) : Sparse!Terminated(v)[j] = v[j]
           /\ Sparse!Terminated(v)[Len(v) + 1] = 0
           /\ SubSeq(Sparse!Terminated(v), 1, Len(Sparse!Terminated(v)) - 1) = v
<1>. DEFINE t == Append(v, 0)
<1>1. v \in Seq(Nat) /\ Len(v) \in Nat /\ \A j \in 1..Len(v) : v[j] \in Nat /\ v[j] # 0
  BY DEF ZeroFree, Strings
<1>2. t \in Seq(Nat) /\ Len(t) = Len(v) + 1 /\ t[Len(v) + 1] = 0 /\ \A j \in 1..Len(v) : t[j] = v[j]
  BY <1>1, AppendProperties
<1>. HIDE DEF t
<1>3. IsKey(t)
  <2>1. \A j \in 1..Len(t) : j \in 1..Len(v) \/ j = Len(v) + 1
    BY <1>1, <1>2
  <2>2. \A j \in 1..Len(v) : j # Len(v) + 1
    BY <1>1
  <2>. QED  BY <1>1, <1>2, <2>1, <2>2 DEF IsKey, Strings
<1>4. SubSeq(t, 1, Len(t) - 1) = v
  <2>. DEFINE u == SubSeq(t, 1, Len(v))
  <2>1. \A j \in 1..Len(v) : t[j] \in Nat
    BY <1>1, <1>2
  <2>2. u \in Seq(Nat) /\ Len(u) = Len(v) /\ \A j \in 1..Len(v) : u[j] = t[j]
    BY <1>1, <2>1, SubSeqProperties
  <2>3. Len(t) - 1 = Len(v)
    BY <1>1, <1>2
  <2>4. u = v
    <3>. HIDE DEF u
    <3>. QED  BY <1>1, <1>2, <2>2, SeqEqual
  <2>. QED  BY <2>3, <2>4
<1>. QED  BY <1>2, <1>3, <1>4 DEF Sparse!Terminated, t

\* The order of strings is the order of their keys.
LEMMA LexTerminated ==
    ASSUME NEW a, NEW b, ZeroFree(a), ZeroFree(b), LexLess(a, b)
    PROVE  LexLess(Sparse!Terminated(a), Sparse!Terminated(b))
<1>. DEFINE A == Sparse!Terminated(a)
            B == Sparse!Terminated(b)
            m == PrefixLength(A, B)
<1>1. /\ A \in Strings /\ B \in Strings /\ Len(A) = Len(a) + 1 /\ Len(B) = Len(b) + 1
      /\ \A j \in 1..Len(a) : A[j] = a[j] /\ A[Len(a) + 1] = 0
      /\ \A j \in 1..Len(b) : B[j] = b[j] /\ B[Len(b) + 1] = 0
      /\ A[Len(a) + 1] = 0
  BY TerminatedKey DEF IsKey
<1>2. /\ a \in Strings /\ b \in Strings /\ Len(a) \in Nat /\ Len(b) \in Nat
      /\ \A j \in 1..Len(b) : b[j] \in Nat /\ b[j] # 0
      /\ \A j \in 1..Len(a) : a[j] \in Nat
  BY DEF ZeroFree, Strings
<1>3. PICK n \in Nat : Before(a, b, n)
  BY <1>2, LexMeans
<1>4. /\ m \in Nat /\ m <= Len(A) /\ m <= Len(B) /\ \A i \in 1..m : A[i] = B[i]
      /\ m < Len(A) /\ m < Len(B) => A[m+1] # B[m+1]
  BY <1>1, PrefixLengthProperties
<1>. HIDE DEF A, B, m
<1>5. /\ n <= Len(a) /\ n < Len(b) /\ \A i \in 1..n : A[i] = B[i]
      /\ n + 1 \in 1..Len(A) /\ n + 1 \in 1..Len(B)
  <2>1. n <= Len(a) /\ n < Len(b) /\ \A i \in 1..n : a[i] = b[i]
    BY <1>3 DEF Before
  <2>2. \A i \in 1..n : i \in 1..Len(a) /\ i \in 1..Len(b)
    BY <1>2, <2>1
  <2>. QED  BY <1>1, <1>2, <2>1, <2>2
<1>6. A[n+1] < B[n+1]
  <2>1. n + 1 \in 1..Len(b)
    BY <1>2, <1>5
  <2>2. B[n+1] = b[n+1] /\ b[n+1] \in Nat /\ b[n+1] # 0
    BY <1>1, <1>2, <2>1
  <2>3. CASE n = Len(a)
    <3>1. A[n+1] = 0
      BY <1>1, <2>3
    <3>. QED  BY <2>2, <3>1
  <2>4. CASE n # Len(a)
    <3>1. n + 1 \in 1..Len(a)
      BY <1>2, <1>5, <2>4
    <3>2. A[n+1] = a[n+1]
      BY <1>1, <3>1
    <3>3. a[n+1] < b[n+1]
      BY <1>3, <2>4 DEF Before
    <3>. QED  BY <2>2, <3>2, <3>3
  <2>. QED  BY <2>3, <2>4
<1>7. A[n+1] # B[n+1]
  <2>1. A[n+1] \in Nat /\ B[n+1] \in Nat
    BY <1>1, <1>5 DEF Strings
  <2>. QED  BY <1>6, <2>1
<1>8. m = n
  <2>1. ~(n < m)
    <3>. SUFFICES ASSUME n < m PROVE FALSE
      OBVIOUS
    <3>1. n + 1 \in 1..m
      BY <1>4
    <3>. QED  BY <1>4, <1>7, <3>1
  <2>2. ~(m < n)
    <3>. SUFFICES ASSUME m < n PROVE FALSE
      OBVIOUS
    <3>1. m + 1 \in 1..n /\ m < Len(A) /\ m < Len(B)
      BY <1>1, <1>2, <1>4, <1>5
    <3>. QED  BY <1>4, <1>5, <3>1
  <2>. QED  BY <1>4, <2>1, <2>2
<1>9. m < Len(A) /\ m < Len(B) /\ A[m+1] < B[m+1]
  BY <1>1, <1>2, <1>5, <1>6, <1>8
<1>. QED  BY <1>9 DEF LexLess, m, A, B

\* Among keys that ascend there is a first one and a last one.
LEMMA EndsExist ==
    ASSUME NEW keys, NEW ts, NEW n \in Nat, KeysAmong(keys, ts, n), keys # {}
    PROVE  /\ Sparse!Least(keys) \in keys /\ Sparse!Greatest(keys) \in keys
           /\ \A t \in keys : t # Sparse!Least(keys) => LexLess(Sparse!Least(keys), t)
<1>. DEFINE J == { j \in 1..n : ts[j] \in keys }
<1>1. /\ \A i, j \in 1..n : i < j => LexLess(ts[i], ts[j])
      /\ \A t \in keys : \E j \in J : ts[j] = t
  BY DEF KeysAmong, AscendTo
<1>2. J \in SUBSET Nat /\ J # {}
  BY <1>1
<1>3. PICK first \in J : \A j \in J : first <= j
  BY <1>2, LeastElement
<1>4. PICK last \in J : \A j \in J : j <= last
  <2>. DEFINE G == { n - j : j \in J }
  <2>1. \A j \in J : n - j \in Nat
    OBVIOUS
  <2>2. G \in SUBSET Nat /\ G # {}
    BY <1>2, <2>1
  <2>3. PICK g \in G : \A h \in G : g <= h
    <3>. HIDE DEF G
    <3>. QED  BY <2>2, LeastElement
  <2>4. PICK j \in J : g = n - j
    OBVIOUS
  <2>5. ASSUME NEW i \in J PROVE i <= j
    <3>1. n - i \in G
      OBVIOUS
    <3>2. n - j <= n - i
      <4>. HIDE DEF G, J
      <4>. QED  BY <2>3, <2>4, <3>1
    <3>3. i \in Nat /\ j \in Nat
      BY <1>2
    <3>. HIDE DEF J, G
    <3>. QED  BY <3>2, <3>3
  <2>. QED  BY <2>5
<1>5. \A t \in keys \ {ts[first]} : LexLess(ts[first], t)
  <2>1. ASSUME NEW t \in keys, t # ts[first] PROVE LexLess(ts[first], t)
    <3>1. PICK j \in J : ts[j] = t
      BY <1>1
    <3>2. first < j /\ first \in 1..n /\ j \in 1..n
      BY <1>3, <2>1, <3>1
    <3>. QED  BY <1>1, <3>1, <3>2
  <2>. QED  BY <2>1
<1>6. \A t \in keys \ {ts[last]} : LexLess(t, ts[last])
  <2>1. ASSUME NEW t \in keys, t # ts[last] PROVE LexLess(t, ts[last])
    <3>1. PICK j \in J : ts[j] = t
      BY <1>1
    <3>2. j < last /\ last \in 1..n /\ j \in 1..n
      BY <1>4, <2>1, <3>1
    <3>. QED  BY <1>1, <3>1, <3>2
  <2>. QED  BY <2>1
<1>7. ts[first] \in keys /\ ts[last] \in keys
  OBVIOUS
<1>8. Sparse!Least(keys) = Smallest(keys) /\ Sparse!Greatest(keys) = Largest(keys)
  BY DEF Sparse!Least, Sparse!Greatest, Smallest, Largest, LexLess, Sparse!LexLess,
         PrefixLength, Sparse!PrefixLength
<1>. HIDE DEF J
<1>9. Smallest(keys) \in keys
  BY <1>5, <1>7 DEF Smallest
<1>10. Largest(keys) \in keys
  BY <1>6, <1>7 DEF Largest
<1>11. \A t \in keys \ {Smallest(keys)} : LexLess(Smallest(keys), t)
  BY <1>5, <1>7 DEF Smallest
<1>. QED  BY <1>8, <1>9, <1>10, <1>11

\* The bytes that a node consumes, and those that its keys have in common.
CommonOf(keys) == CHOOSE s \in keys : TRUE
Lengths(keys) == { PrefixLength(CommonOf(keys), t) : t \in keys }

LEMMA CommonLength ==
    ASSUME NEW keys, keys # {}, \A t \in keys : IsKey(t)
    PROVE  \E m \in Lengths(keys) : /\ Sparse!Common(keys) = SubSeq(CommonOf(keys), 1, m)
                                  /\ Len(Sparse!Common(keys)) = m
                                  /\ \A k \in Lengths(keys) : m <= k
<1>. DEFINE s == CommonOf(keys)
            P == Lengths(keys)
            m == CHOOSE x \in P : \A y \in P : x =< y
<1>1. s \in keys /\ s \in Strings /\ Len(s) \in Nat /\ \A j \in 1..Len(s) : s[j] \in Nat
  <2>1. s \in keys
    BY DEF CommonOf
  <2>. HIDE DEF s
  <2>. QED  BY <2>1 DEF IsKey, Strings
<1>2. P \in SUBSET Nat /\ P # {} /\ \A k \in P : k <= Len(s)
  <2>1. ASSUME NEW t \in keys
        PROVE  PrefixLength(s, t) \in Nat /\ PrefixLength(s, t) <= Len(s)
    <3>. HIDE DEF s
    <3>. QED  BY <1>1, PrefixLengthProperties DEF IsKey
  <2>. QED  BY <2>1 DEF Lengths
<1>3. m \in P /\ \A y \in P : m <= y
  <2>1. \E x \in P : \A y \in P : x <= y
    <3>. HIDE DEF P
    <3>. QED  BY <1>2, LeastElement
  <2>. HIDE DEF P
  <2>. QED  BY <2>1
<1>4. Sparse!Common(keys) = SubSeq(s, 1, m)
  <2>1. \A t : Sparse!PrefixLength(s, t) = PrefixLength(s, t)
    BY Zenon DEF Sparse!PrefixLength, PrefixLength
  <2>2. { Sparse!PrefixLength(s, t) : t \in keys } = P
    <3>. HIDE DEF s
    <3>1. P = { PrefixLength(s, t) : t \in keys }
      BY DEF Lengths, s
    <3>. QED  BY <2>1, <3>1
  <2>3. Sparse!Common(keys) = SubSeq(s, 1, Sparse!Min({ Sparse!PrefixLength(s, t) : t \in keys }))
    BY Zenon DEF Sparse!Common, CommonOf
  <2>4. Sparse!Min(P) = m
    BY Zenon DEF Sparse!Min
  <2>. QED  BY <2>2, <2>3, <2>4
<1>. HIDE DEF s, P, m
<1>5. Len(SubSeq(s, 1, m)) = m
  <2>1. m \in Nat /\ m <= Len(s)
    BY <1>2, <1>3
  <2>2. \A j \in 1..m : s[j] \in Nat
    BY <1>1, <2>1
  <2>. QED  BY <2>1, <2>2, SubSeqProperties
<1>. QED  BY <1>3, <1>4, <1>5 DEF P, s

\* Two keys or more differ in the byte behind what they have in common.
LEMMA ChildIsLess ==
    ASSUME NEW keys, keys # {}, \A t \in keys : IsKey(t), Cardinality(keys) # 1, NEW byte
    PROVE  Sparse!Child(keys, Len(Sparse!Common(keys)), byte) # keys
<1>. DEFINE s == CommonOf(keys)
<1>1. s \in keys
  BY DEF CommonOf
<1>2. PICK m \in Lengths(keys) : Len(Sparse!Common(keys)) = m /\ \A k \in Lengths(keys) : m <= k
  BY CommonLength
<1>3. PICK t \in keys : m = PrefixLength(s, t)
  BY DEF Lengths
<1>4. PICK u \in keys : u # s
  <2>1. keys # {s}
    BY FS_Singleton
  <2>. QED  BY <1>1, <2>1
<1>5. m <= PrefixLength(s, u)
  BY <1>2 DEF Lengths
<1>. HIDE DEF s
<1>6. /\ IsKey(s) /\ IsKey(t) /\ IsKey(u) /\ s \in Strings /\ t \in Strings /\ u \in Strings
      /\ Len(s) \in Nat \ {0} /\ Len(t) \in Nat \ {0} /\ Len(u) \in Nat
  <2>1. IsKey(s) /\ IsKey(t) /\ IsKey(u)
    BY <1>1
  <2>. QED  BY <2>1 DEF IsKey, Strings
<1>7. /\ m \in Nat /\ m <= Len(s) /\ m <= Len(t) /\ \A i \in 1..m : s[i] = t[i]
      /\ m < Len(s) /\ m < Len(t) => s[m+1] # t[m+1]
  BY <1>3, <1>6, PrefixLengthProperties
<1>8. m < Len(s)
  <2>. SUFFICES ASSUME m = Len(s) PROVE FALSE
    BY <1>6, <1>7
  <2>. DEFINE k == PrefixLength(s, u)
  <2>1. k \in Nat /\ k <= Len(s) /\ k <= Len(u) /\ \A i \in 1..k : s[i] = u[i]
    BY <1>6, PrefixLengthProperties
  <2>. HIDE DEF k
  <2>2. k = Len(s) /\ Len(s) \in 1..Len(u) /\ Len(s) \in 1..k /\ Len(s) \in 1..Len(s)
    BY <1>5, <1>6, <2>1 DEF k
  <2>3. s[Len(s)] = 0 /\ u[Len(s)] = s[Len(s)]
    BY <1>6, <2>1, <2>2 DEF IsKey
  <2>4. Len(u) = Len(s)
    BY <1>6, <2>2, <2>3 DEF IsKey
  <2>5. u = s
    BY <1>6, <2>1, <2>2, <2>4, SeqEqual DEF Strings
  <2>. QED  BY <1>4, <2>5
<1>9. m < Len(t)
  <2>. SUFFICES ASSUME m = Len(t) PROVE FALSE
    BY <1>6, <1>7
  <2>1. m \in 1..m /\ m \in 1..Len(s) /\ m \in 1..Len(t)
    BY <1>6, <1>8
  <2>2. t[m] = 0 /\ s[m] = t[m]
    BY <1>6, <1>7, <2>1 DEF IsKey
  <2>3. m = Len(s)
    BY <1>6, <2>1, <2>2 DEF IsKey
  <2>. QED  BY <1>6, <1>8, <2>3
<1>10. s[m+1] # t[m+1]
  BY <1>7, <1>8, <1>9
<1>. QED  BY <1>1, <1>2, <1>3, <1>10 DEF Sparse!Child

-----------------------------------------------------------------------------

\* One step of the walk.
WalkAt(walk, key, keys) ==
    LET depth == Len(Sparse!Common(keys))
    IN  IF Sparse!Cardinality(keys) = 1 THEN Sparse!Least(keys)
        ELSE IF ~Sparse!IsPrefix(Sparse!Common(keys), key) THEN Sparse!Least(keys)
        ELSE IF Sparse!Child(keys, depth, key[depth + 1]) # {}
             THEN walk[Sparse!Child(keys, depth, key[depth + 1])]
        ELSE Sparse!Neighbour(keys, depth, key[depth + 1])

Walks(f, key, K) == f = [keys \in SUBSET K |-> WalkAt(f, key, keys)]

NextByte(keys, key) == key[Len(Sparse!Common(keys)) + 1]
ChildOf(keys, key) == Sparse!Child(keys, Len(Sparse!Common(keys)), NextByte(keys, key))
NextTo(keys, key) == Sparse!Neighbour(keys, Len(Sparse!Common(keys)), NextByte(keys, key))

\* The step descends to fewer keys, or ends at one of them.
Descends(keys, key) ==
    /\ Cardinality(keys) # 1 /\ Sparse!IsPrefix(Sparse!Common(keys), key) /\ ChildOf(keys, key) # {}

EndsAt(keys, key) ==
    IF Cardinality(keys) = 1 \/ ~Sparse!IsPrefix(Sparse!Common(keys), key)
    THEN Sparse!Least(keys) ELSE NextTo(keys, key)

LEMMA WalkAtIs ==
    ASSUME NEW walk, NEW key, NEW keys
    PROVE  /\ Descends(keys, key) => WalkAt(walk, key, keys) = walk[ChildOf(keys, key)]
           /\ ~Descends(keys, key) => WalkAt(walk, key, keys) = EndsAt(keys, key)
<1>. DEFINE d == Len(Sparse!Common(keys))
            c == Sparse!Child(keys, d, key[d + 1])
            n == Sparse!Neighbour(keys, d, key[d + 1])
<1>1. WalkAt(walk, key, keys) =
        IF Sparse!Cardinality(keys) = 1 THEN Sparse!Least(keys)
        ELSE IF ~Sparse!IsPrefix(Sparse!Common(keys), key) THEN Sparse!Least(keys)
        ELSE IF c # {} THEN walk[c] ELSE n
  BY Zenon DEF WalkAt
<1>3. Sparse!Cardinality(keys) = Cardinality(keys)
  BY Zenon DEF Sparse!Cardinality, Cardinality
<1>2. ChildOf(keys, key) = c /\ NextTo(keys, key) = n
  BY DEF ChildOf, NextTo, NextByte
<1>. HIDE DEF c, n
<1>. QED  BY <1>1, <1>2, <1>3 DEF Descends, EndsAt

LEMMA DescendsLess ==
    ASSUME NEW keys, IsFiniteSet(keys), \A t \in keys : IsKey(t), NEW key, Descends(keys, key)
    PROVE  /\ ChildOf(keys, key) \in SUBSET keys /\ ChildOf(keys, key) # {}
           /\ Cardinality(ChildOf(keys, key)) \in Nat /\ Cardinality(keys) \in Nat
           /\ Cardinality(ChildOf(keys, key)) < Cardinality(keys)
<1>. DEFINE c == ChildOf(keys, key)
<1>1. c \in SUBSET keys /\ c # {}
  <2>1. c \in SUBSET keys
    BY DEF ChildOf, Sparse!Child
  <2>. QED  BY <2>1 DEF Descends
<1>2. c # keys
  <2>1. keys # {} /\ Cardinality(keys) # 1
    BY <1>1 DEF Descends
  <2>. QED  BY <2>1, ChildIsLess DEF ChildOf
<1>. HIDE DEF c
<1>3. IsFiniteSet(c) /\ Cardinality(c) <= Cardinality(keys) /\ Cardinality(c) # Cardinality(keys)
  BY <1>1, <1>2, FS_Subset
<1>4. Cardinality(c) \in Nat /\ Cardinality(keys) \in Nat
  BY <1>3, FS_CardinalityType
<1>5. Cardinality(c) < Cardinality(keys)
  BY <1>3, <1>4
<1>. QED  BY <1>1, <1>4, <1>5 DEF c

LEMMA WalkExists ==
    ASSUME NEW K, IsFiniteSet(K), \A t \in K : IsKey(t), NEW key
    PROVE  \E f : Walks(f, key, K)
<1>. DEFINE D == SUBSET K
            S == { Sparse!Least(keys) : keys \in D } \union { NextTo(keys, key) : keys \in D }
            Size == [keys \in D |-> Cardinality(keys)]
            Body == [f \in [D -> S] |-> [keys \in D |-> WalkAt(f, key, keys)]]
            bound == Cardinality(K) + 1
<1>1. ASSUME NEW keys \in D
      PROVE  /\ IsFiniteSet(keys) /\ Cardinality(keys) \in Nat /\ Cardinality(keys) < bound
             /\ Descends(keys, key) => ChildOf(keys, key) \in D /\ Cardinality(ChildOf(keys, key)) < Cardinality(keys)
  <2>1. IsFiniteSet(keys) /\ Cardinality(keys) <= Cardinality(K)
    BY FS_Subset
  <2>2. Cardinality(keys) \in Nat /\ Cardinality(K) \in Nat
    BY <2>1, FS_CardinalityType
  <2>3. \A t \in keys : IsKey(t)
    OBVIOUS
  <2>4. Descends(keys, key) => ChildOf(keys, key) \in D /\ Cardinality(ChildOf(keys, key)) < Cardinality(keys)
    BY <2>1, <2>3, DescendsLess
  <2>. QED  BY <2>1, <2>2, <2>4
<1>2. Size \in [D -> Nat] /\ bound \in Nat /\ \A x \in D : Size[x] < bound
  <2>1. Cardinality(K) \in Nat
    BY FS_CardinalityType
  <2>. QED  BY <1>1, <2>1
<1>3. ASSUME NEW f \in [D -> S], NEW keys \in D
      PROVE  WalkAt(f, key, keys) \in S
  <2>1. CASE Descends(keys, key)
    <3>1. ChildOf(keys, key) \in D
      BY <1>1, <2>1
    <3>. HIDE DEF S, D
    <3>. QED  BY <2>1, <3>1, WalkAtIs
  <2>2. CASE ~Descends(keys, key)
    <3>1. Sparse!Least(keys) \in S /\ NextTo(keys, key) \in S
      OBVIOUS
    <3>. HIDE DEF S, D
    <3>. QED  BY <2>2, <3>1, WalkAtIs DEF EndsAt
  <2>. QED  BY <2>1, <2>2
<1>4. Body \in [[D -> S] -> [D -> S]]
  <2>. HIDE DEF S, D
  <2>. QED  BY <1>3
<1>5. ASSUME NEW f \in [D -> S], NEW g \in [D -> S], NEW keys \in D,
             \A y \in D : Size[y] < Size[keys] => f[y] = g[y]
      PROVE  Body[f][keys] = Body[g][keys]
  <2>1. WalkAt(f, key, keys) = WalkAt(g, key, keys)
    <3>1. CASE Descends(keys, key)
      <4>1. f[ChildOf(keys, key)] = g[ChildOf(keys, key)]
        BY <1>1, <1>5, <3>1
      <4>. QED  BY <3>1, <4>1, WalkAtIs
    <3>2. CASE ~Descends(keys, key)
      BY <3>2, WalkAtIs
    <3>. QED  BY <3>1, <3>2
  <2>2. Body[f][keys] = WalkAt(f, key, keys) /\ Body[g][keys] = WalkAt(g, key, keys)
    <3>. HIDE DEF S, D
    <3>. QED  OBVIOUS
  <2>. QED  BY <2>1, <2>2
<1>6. \E a : a \in S
  <2>1. {} \in D
    OBVIOUS
  <2>. QED  BY <2>1
<1>. HIDE DEF D, S, Size, Body, bound
<1>7. DependsOnSmaller(Body, D, S, Size)
  BY <1>5 DEF DependsOnSmaller
<1>8. \E f : IsFixed(f, Body, D, S)
  BY <1>2, <1>4, <1>6, <1>7, Recursion
<1>9. PICK f \in [D -> S] : f = Body[f]
  BY <1>8 DEF IsFixed
<1>10. f = [keys \in D |-> WalkAt(f, key, keys)]
  BY <1>9 DEF Body
<1>. QED  BY <1>10 DEF D, Walks

\* The walk ends at a key of the subtree.
LEMMA EndsAmong ==
    ASSUME NEW keys, NEW ts, NEW n \in Nat, KeysAmong(keys, ts, n), keys # {}, NEW key
    PROVE  EndsAt(keys, key) \in keys
<1>. DEFINE d == Len(Sparse!Common(keys))
            byte == NextByte(keys, key)
            greater == { s \in keys : s[d + 1] > byte }
<1>1. Sparse!Least(keys) \in keys /\ Sparse!Greatest(keys) \in keys
  BY EndsExist
<1>2. NextTo(keys, key) = IF greater # {} THEN Sparse!Least(greater) ELSE Sparse!Greatest(keys)
  BY DEF NextTo, Sparse!Neighbour
<1>3. EndsAt(keys, key) \in { Sparse!Least(keys), NextTo(keys, key) }
  BY DEF EndsAt
<1>4. greater \in SUBSET keys
  OBVIOUS
<1>. HIDE DEF greater
<1>5. KeysAmong(greater, ts, n)
  BY <1>4 DEF KeysAmong
<1>6. greater # {} => Sparse!Least(greater) \in greater
  BY <1>5, EndsExist
<1>. QED  BY <1>1, <1>2, <1>3, <1>4, <1>6

\* A lookup in a sparse tree that is not empty ends at one of its keys.
LEMMA LookupEnds ==
    ASSUME NEW K, IsFiniteSet(K), K # {}, NEW ts, NEW n \in Nat, KeysAmong(K, ts, n), NEW str
    PROVE  Sparse!LookupValue(K, str) \in K
<1>. DEFINE key == Sparse!Terminated(str)
            walk == CHOOSE f : Walks(f, key, K)
<1>1. Sparse!LookupValue(K, str) = walk[K]
  BY Zenon DEF Sparse!LookupValue, Walks, WalkAt
<1>2. \A t \in K : IsKey(t)
  BY DEF KeysAmong
<1>. HIDE DEF key
<1>3. Walks(walk, key, K)
  BY <1>2, WalkExists
<1>. HIDE DEF walk
<1>. DEFINE Bad == { Cardinality(keys) : keys \in { keys \in SUBSET K : keys # {} /\ walk[keys] \notin keys } }
<1>4. Bad = {}
  <2>1. SUFFICES ASSUME Bad # {} PROVE FALSE
    OBVIOUS
  <2>2. \A keys \in SUBSET K : IsFiniteSet(keys) /\ Cardinality(keys) \in Nat
    BY FS_Subset, FS_CardinalityType
  <2>3. PICK w \in Bad : \A v \in Bad : w <= v
    <3>1. Bad \in SUBSET Nat
      BY <2>2
    <3>. HIDE DEF Bad
    <3>. QED  BY <2>1, <3>1, LeastElement
  <2>4. PICK keys \in SUBSET K : keys # {} /\ walk[keys] \notin keys /\ w = Cardinality(keys)
    OBVIOUS
  <2>5. walk[keys] = WalkAt(walk, key, keys)
    BY <1>3 DEF Walks
  <2>6. KeysAmong(keys, ts, n)
    BY DEF KeysAmong
  <2>7. CASE Descends(keys, key)
    <3>. DEFINE c == ChildOf(keys, key)
    <3>1. c \in SUBSET keys /\ c # {} /\ Cardinality(c) < Cardinality(keys)
      BY <1>2, <2>2, <2>7, DescendsLess
    <3>. HIDE DEF c
    <3>2. c \in SUBSET K
      BY <3>1
    <3>3. Cardinality(c) \notin Bad
      <4>1. Cardinality(c) \in Nat /\ Cardinality(keys) \in Nat
        BY <2>2, <3>2
      <4>. HIDE DEF Bad
      <4>. QED  BY <2>3, <2>4, <3>1, <4>1
    <3>4. walk[c] \in c
      BY <3>1, <3>2, <3>3
    <3>5. walk[keys] = walk[c]
      BY <2>5, <2>7, WalkAtIs DEF c
    <3>. QED  BY <2>4, <3>1, <3>4, <3>5
  <2>8. CASE ~Descends(keys, key)
    <3>1. walk[keys] = EndsAt(keys, key)
      BY <2>5, <2>8, WalkAtIs
    <3>2. EndsAt(keys, key) \in keys
      BY <2>4, <2>6, EndsAmong
    <3>. QED  BY <2>4, <3>1, <3>2
  <2>. QED  BY <2>7, <2>8
<1>5. K \in SUBSET K
  OBVIOUS
<1>. QED  BY <1>1, <1>4, <1>5

\* A set of strings that are all among n of them is finite.
LEMMA FiniteAmong ==
    ASSUME NEW K, NEW ts, NEW n \in Nat, ts = [j \in 1..n |-> ts[j]], \A t \in K : \E j \in 1..n : ts[j] = t
    PROVE  IsFiniteSet(K)
<1>. DEFINE T == { ts[j] : j \in 1..n }
<1>1. ts \in Surjection(1..n, T)
  BY DEF Surjection
<1>2. IsFiniteSet(1..n)
  BY FS_Interval
<1>3. IsFiniteSet(T)
  <2>. HIDE DEF T
  <2>. QED  BY <1>1, <1>2, FS_Surjection
<1>4. K \in SUBSET T
  OBVIOUS
<1>. HIDE DEF T
<1>. QED  BY <1>3, <1>4, FS_Subset

\* What the tree has to tell apart: the values, each with its zero byte.
Ranks == [j \in 1..Len(values) |-> Sparse!Terminated(values[j])]

TreeSorted ==
    /\ Len(values) \in Nat /\ AscendTo(values, Len(values)) /\ AscendTo(Ranks, Len(values))
    /\ \A j \in 1..Len(values) : ZeroFree(values[j]) /\ IsKey(Ranks[j])
    /\ KeysAmong(TreeKeys, Ranks, Len(values)) /\ IsFiniteSet(TreeKeys)
    /\ \A s \in DOMAIN reverseIndex : LeafOf(Sparse!Terminated(s)) = reverseIndex[s]

LEMMA TreeSorts ==
    ASSUME SortedInputs, NoZeros, Rest
    PROVE  TreeSorted
<1>. DEFINE n == Len(values)
            ts == Ranks
            K == TreeKeys
<1>1. n \in Nat /\ AscendTo(values, n)
  BY StoredIs, RestChain
<1>2. \A s \in DOMAIN reverseIndex : \E i \in 1..n : values[i] = s
  BY DEF Rest, DictionaryInv, LeavesInv
<1>3. \A j \in 1..n : ZeroFree(values[j])
  <2>1. values \in Inputs \union {<<>>}
    BY DEF Rest, DictionaryInv, ContentInv
  <2>2. CASE values \in Inputs
    BY <1>1, <2>2 DEF NoZeros, AscendTo, ZeroFree
  <2>3. CASE values = <<>>
    <3>1. n = 0
      BY <2>3
    <3>. QED  BY <3>1
  <2>. QED  BY <2>1, <2>2, <2>3
<1>4. ASSUME NEW j \in 1..n PROVE IsKey(ts[j]) /\ ts[j] = Sparse!Terminated(values[j])
  <2>. DEFINE v == values[j]
  <2>1. ZeroFree(v) /\ ts[j] = Sparse!Terminated(v)
    BY <1>3 DEF Ranks
  <2>. HIDE DEF v, ts
  <2>2. IsKey(ts[j])
    BY <2>1, TerminatedKey
  <2>. QED  BY <2>1, <2>2 DEF v
<1>5. ASSUME NEW i \in 1..n, NEW j \in 1..n, i < j PROVE LexLess(ts[i], ts[j])
  <2>. DEFINE a == values[i]
              b == values[j]
  <2>1. ZeroFree(a) /\ ZeroFree(b) /\ LexLess(a, b)
    BY <1>1, <1>3, <1>5 DEF AscendTo
  <2>2. ts[i] = Sparse!Terminated(a) /\ ts[j] = Sparse!Terminated(b)
    BY <1>4
  <2>. HIDE DEF a, b, ts
  <2>. QED  BY <2>1, <2>2, LexTerminated
<1>6. ts = [j \in 1..n |-> ts[j]]
  BY DEF Ranks
<1>. HIDE DEF n, ts
<1>7. AscendTo(ts, n)
  <2>1. \A j \in 1..n : ts[j] \in Strings
    BY <1>4 DEF IsKey
  <2>. QED  BY <1>5, <2>1 DEF AscendTo
<1>8. ASSUME NEW s \in DOMAIN reverseIndex
      PROVE  /\ IsKey(Sparse!Terminated(s)) /\ \E j \in 1..n : ts[j] = Sparse!Terminated(s)
             /\ LeafOf(Sparse!Terminated(s)) = reverseIndex[s]
  <2>1. PICK j \in 1..n : values[j] = s
    BY <1>2
  <2>2. ZeroFree(s) /\ ts[j] = Sparse!Terminated(s)
    BY <1>3, <1>4, <2>1
  <2>3. IsKey(Sparse!Terminated(s)) /\ SubSeq(Sparse!Terminated(s), 1, Len(Sparse!Terminated(s)) - 1) = s
    BY <2>2, TerminatedKey
  <2>. QED  BY <2>2, <2>3 DEF LeafOf
<1>9. \A t \in K : \E s \in DOMAIN reverseIndex : t = Sparse!Terminated(s)
  BY DEF TreeKeys
<1>. HIDE DEF K
<1>10. KeysAmong(K, ts, n)
  BY <1>7, <1>8, <1>9 DEF KeysAmong
<1>11. IsFiniteSet(K)
  <2>1. \A t \in K : \E j \in 1..n : ts[j] = t
    BY <1>10 DEF KeysAmong
  <2>. QED  BY <1>1, <1>6, <2>1, FiniteAmong
<1>. QED  BY <1>1, <1>3, <1>4, <1>7, <1>8, <1>10, <1>11 DEF TreeSorted, n, ts, K

\* The sparse tree leads to a page, whatever string is looked up.
LEMMA LandsOnPage ==
    ASSUME SortedInputs, NoZeros, Rest, kind = "bottomup", DOMAIN reverseIndex # {}, NEW str
    PROVE  Landing(str) \in 1..Len(pages)
<1>. DEFINE n == Len(values)
            K == TreeKeys
<1>1. n \in Nat /\ KeysAmong(K, Ranks, n) /\ IsFiniteSet(K)
  BY TreeSorts DEF TreeSorted
<1>2. K # {}
  BY DEF TreeKeys
<1>3. Sparse!LookupValue(K, str) \in K
  <2>. HIDE DEF K
  <2>. QED  BY <1>1, <1>2, LookupEnds
<1>4. PICK s \in DOMAIN reverseIndex : Sparse!LookupValue(TreeKeys, str) = Sparse!Terminated(s)
  BY <1>3 DEF TreeKeys
<1>5. Landing(str) = LeafPage(reverseIndex[s])
  BY <1>4, TreeSorts DEF Landing, TreeSorted
<1>6. PICK i \in 1..n : LeafTo(reverseIndex[s], i)
  BY DEF Rest, DictionaryInv, LeavesInv
<1>7. LeafPage(reverseIndex[s]) \in 1..Len(pages)
  BY <1>6 DEF LeafTo, LeadsTo, Leads, AnnouncedAt, Dynamic
<1>. QED  BY <1>5, <1>7

\* A lookup by string in a bottom-up dictionary gives the id of the string or
\* ends the process.
LEMMA BottomUpFinds ==
    ASSUME SortedInputs, NoZeros, Rest, kind = "bottomup", NEW str \in Strings
    PROVE  FindsIt(str)
<1>1. /\ pos - 1 \in Nat /\ pos - 1 <= Len(values)
  BY StoredIs
<1>2. HasLeaf(str) <=> DOMAIN reverseIndex # {}
  BY DEF HasLeaf
<1>3. DOMAIN reverseIndex = {} => \A k \in 1..(pos - 1) : values[k] # str
  <2>. SUFFICES ASSUME DOMAIN reverseIndex = {} PROVE pos - 1 = 0
    BY <1>1
  <2>1. KnownIds = pos - 1 /\ Good
    BY DEF KnownIds, Good, Rest, AtRest
  <2>. QED  BY <2>1 DEF Rest, KnowInv
<1>4. ASSUME DOMAIN reverseIndex # {}, ~Find(str).fails, HasId(Find(str).it)
      PROVE  \E k \in 1..(pos - 1) : GetId(Find(str).it) = k /\ values[k] = str
  <2>. DEFINE p == Landing(str)
  <2>1. p \in 1..Len(pages)
    BY <1>4, LandsOnPage
  <2>. HIDE DEF p
  <2>2. Find(str) = IndexSearch(p, str)
    <3>1. Find(str) = CHOOSE found \in { IndexSearch(q, str) : q \in { p } } : TRUE
      BY Zenon DEF Find, p
    <3>2. { IndexSearch(q, str) : q \in { p } } = { IndexSearch(p, str) }
      OBVIOUS
    <3>. QED  BY <3>1, <3>2
  <2>3. \E k \in 1..Len(values) : GetId(IndexSearch(p, str).it) = k /\ values[k] = str
    BY <1>4, <2>1, <2>2, IndexSearchFinds
  <2>4. 1..Len(values) = 1..(pos - 1)
    <3>1. pc = "ready"
      BY DEF Rest, AtRest, KnowInv
    <3>2. pos = Len(values) + 1 /\ Len(values) \in Nat
      BY <3>1, RestChain DEF Rest, KnowInv
    <3>. QED  BY <3>2
  <2>. QED  BY <2>2, <2>3, <2>4
<1>. QED  BY <1>2, <1>3, <1>4 DEF FindsIt

\* A dictionary of StringDictionary.cpp on any of the pages with an index, and on
\* bottom-up pages, implements Dictionary.hpp, over its load and between its calls:
\* bulkInsert gives the ids in the order of the strings, and a lookup by string, id or
\* prefix that returns gives the id, the string or all the entries that were loaded, and
\* nothing else; no other step changes what is stored.  A lookup may end the process
\* instead.  Strings are sorted and have no zero byte inside, as C strings have none;
\* bottom-up pages are not asked for ranges, for which their sparse index does not do.
THEOREM IndexedDictionaryKeepsPromise ==
    ASSUME FitsWidths, LeavesFit, SortedInputs, NoZeros, AskedStrings
    PROVE  Spec => KeepsPromise
<1>. DEFINE Inv == DictionaryInv /\ ChainInv /\ KnowInv
<1>1. Init => Inv /\ Promise!Init
  <2>1. ASSUME Init PROVE Promise!Init
    <3>1. Stored = SubSeq(values, 1, pos - 1) /\ values = <<>> /\ pos = 1
      BY <2>1 DEF Init, LoaderInit, Stored
    <3>. QED  BY <2>1, <3>1 DEF Init, Promise!Init
  <2>. QED  BY <2>1, InitInv, DictionaryInit, ChainInit, KnowInit DEF DictionaryInv
<1>2. Inv /\ [Next]_vars => Inv'
  BY DictionaryStep, ChainStep, KnowStep
<1>3. Inv /\ [Next]_vars => [Promise!Next]_<<Stored, answer>>
  <2>. SUFFICES ASSUME Inv, [Next]_vars PROVE [Promise!Next]_<<Stored, answer>>
    OBVIOUS
  <2>1. AtRest => Finds
    <3>1. ASSUME AtRest, kind = "bottomup", NEW s \in Queries PROVE FindsIt(s)
      <4>1. Rest /\ s \in Strings
        BY <3>1 DEF Rest, AskedStrings
      <4>. QED  BY <3>1, <4>1, BottomUpFinds
    <3>. QED  BY <3>1 DEF Finds
  <2>. QED  BY <2>1, PromiseStep
<1>. HIDE DEF Inv
<1>. QED  BY <1>1, <1>2, <1>3, PTL DEF Spec, KeepsPromise, Promise!Spec

-----------------------------------------------------------------------------
(* Where a string lies, seen from a delta.                                 *)

\* The first difference decides the order.
LEMMA BeforeIsLess ==
    ASSUME NEW a \in Strings, NEW b \in Strings, NEW n, Before(a, b, n)
    PROVE  LexLess(a, b)
<1>. DEFINE m == PrefixLength(a, b)
<1>1. /\ m \in Nat /\ m <= Len(a) /\ m <= Len(b) /\ \A i \in 1..m : a[i] = b[i]
      /\ m < Len(a) /\ m < Len(b) => a[m+1] # b[m+1]
  BY PrefixLengthProperties
<1>2. /\ n \in Nat /\ n <= Len(a) /\ n < Len(b) /\ \A i \in 1..n : a[i] = b[i]
      /\ n = Len(a) \/ a[n+1] < b[n+1]
  BY DEF Before
<1>3. /\ Len(a) \in Nat /\ Len(b) \in Nat
      /\ \A i \in 1..Len(a) : a[i] \in Nat
      /\ \A i \in 1..Len(b) : b[i] \in Nat
  BY DEF Strings
<1>4. m = n
  <2>. HIDE DEF m
  <2>1. ~(n < m)
    <3>. SUFFICES ASSUME n < m PROVE FALSE
      OBVIOUS
    <3>1. n + 1 \in 1..m /\ n + 1 \in 1..Len(a) /\ n # Len(a)
      BY <1>1, <1>2, <1>3
    <3>2. a[n+1] = b[n+1] /\ a[n+1] < b[n+1] /\ a[n+1] \in Nat
      BY <1>1, <1>2, <1>3, <3>1
    <3>. QED  BY <3>2
  <2>2. ~(m < n)
    <3>. SUFFICES ASSUME m < n PROVE FALSE
      OBVIOUS
    <3>1. m + 1 \in 1..n /\ m < Len(a) /\ m < Len(b)
      BY <1>1, <1>2, <1>3
    <3>. QED  BY <1>1, <1>2, <3>1
  <2>. QED  BY <1>1, <1>2, <2>1, <2>2
<1>5. \/ m = Len(a) /\ m < Len(b)
      \/ m < Len(a) /\ m < Len(b) /\ a[m+1] < b[m+1]
  <2>. HIDE DEF m
  <2>. QED  BY <1>2, <1>3, <1>4
<1>. QED  BY <1>5 DEF LexLess

Leftover(a, n) == SubSeq(a, n + 1, Len(a))

\* What is left behind n bytes.
LEMMA LeftBehind ==
    ASSUME NEW a \in Strings, NEW n \in Nat, n <= Len(a)
    PROVE  /\ Leftover(a, n) \in Strings /\ Len(Leftover(a, n)) = Len(a) - n
           /\ \A i \in 1..(Len(a) - n) : Leftover(a, n)[i] = a[n + i]
<1>1. Len(a) \in Nat /\ \A i \in (n + 1)..Len(a) : i \in 1..Len(a) /\ a[i] \in Nat
  BY DEF Strings
<1>. QED  BY <1>1, SubSeqProperties DEF Leftover, Strings

\* Strings that agree on n bytes are in the order of what is left of them.
LEMMA RestLess ==
    ASSUME NEW a \in Strings, NEW b \in Strings, LexLess(a, b), NEW n \in Nat,
           n <= Len(a), n <= Len(b), \A i \in 1..n : a[i] = b[i]
    PROVE  LexLess(Leftover(a, n), Leftover(b, n))
<1>. DEFINE A == Leftover(a, n)
            B == Leftover(b, n)
<1>1. /\ A \in Strings /\ Len(A) = Len(a) - n /\ \A i \in 1..(Len(a) - n) : A[i] = a[n + i]
      /\ B \in Strings /\ Len(B) = Len(b) - n /\ \A i \in 1..(Len(b) - n) : B[i] = b[n + i]
  BY LeftBehind
<1>. HIDE DEF A, B
<1>2. PICK j \in Nat : Before(a, b, j)
  BY LexMeans
<1>3. /\ Len(a) \in Nat /\ Len(b) \in Nat
      /\ \A i \in 1..Len(a) : a[i] \in Nat
      /\ \A i \in 1..Len(b) : b[i] \in Nat
  BY DEF Strings
<1>4. /\ j <= Len(a) /\ j < Len(b) /\ \A i \in 1..j : a[i] = b[i]
      /\ j = Len(a) \/ a[j+1] < b[j+1]
  BY <1>2 DEF Before
<1>5. n <= j
  <2>. SUFFICES ASSUME j < n PROVE FALSE
    OBVIOUS
  <2>1. j + 1 \in 1..n /\ j + 1 \in 1..Len(a) /\ j # Len(a)
    BY <1>3
  <2>2. a[j+1] = b[j+1] /\ a[j+1] < b[j+1] /\ a[j+1] \in Nat
    BY <1>3, <1>4, <2>1
  <2>. QED  BY <2>2
<1>. DEFINE d == j - n
<1>6. d \in Nat /\ n + d = j /\ d <= Len(A) /\ d < Len(B) /\ (d = Len(A) <=> j = Len(a))
  BY <1>1, <1>3, <1>4, <1>5
<1>. HIDE DEF d
<1>7. ASSUME NEW i \in 1..d
      PROVE  A[i] = B[i]
  <2>1. i \in 1..(Len(a) - n) /\ i \in 1..(Len(b) - n) /\ n + i \in 1..j
    BY <1>1, <1>3, <1>4, <1>6
  <2>. QED  BY <1>1, <1>4, <2>1
<1>8. d = Len(A) \/ A[d+1] < B[d+1]
  <2>. SUFFICES ASSUME d # Len(A) PROVE A[d+1] < B[d+1]
    OBVIOUS
  <2>1. d + 1 \in 1..(Len(a) - n) /\ d + 1 \in 1..(Len(b) - n) /\ n + (d + 1) = j + 1
    BY <1>1, <1>3, <1>6
  <2>. QED  BY <1>1, <1>4, <1>6, <2>1
<1>9. Before(A, B, d)
  BY <1>1, <1>6, <1>7, <1>8 DEF Before
<1>. QED  BY <1>1, <1>9, BeforeIsLess DEF A, B

\* Of three strings in order, the first has no more in common with the last than
\* with the one between.
LEMMA PrefixShrinks ==
    ASSUME NEW r \in Strings, NEW s \in Strings, NEW v \in Strings, LexLess(r, s), LexLess(s, v)
    PROVE  PrefixLength(r, v) <= PrefixLength(r, s)
<1>. DEFINE n == PrefixLength(r, v)
            m == PrefixLength(r, s)
<1>1. /\ n \in Nat /\ n <= Len(r) /\ n <= Len(v) /\ \A i \in 1..n : r[i] = v[i]
      /\ m \in Nat /\ m <= Len(r) /\ m <= Len(s) /\ \A i \in 1..m : r[i] = s[i]
      /\ m < Len(r) /\ m < Len(s) => r[m+1] # s[m+1]
  BY PrefixLengthProperties
<1>2. /\ Len(r) \in Nat /\ Len(s) \in Nat /\ Len(v) \in Nat
      /\ \A i \in 1..Len(r) : r[i] \in Nat
      /\ \A i \in 1..Len(s) : s[i] \in Nat
      /\ \A i \in 1..Len(v) : v[i] \in Nat
  BY DEF Strings
<1>. HIDE DEF n, m
<1>3. SUFFICES ASSUME m < n PROVE FALSE
  BY <1>1 DEF n, m
<1>4. PICK i \in Nat : Before(r, s, i)
  BY LexMeans
<1>5. PICK j \in Nat : Before(s, v, j)
  BY LexMeans
<1>6. /\ i <= Len(r) /\ i < Len(s) /\ \A h \in 1..i : r[h] = s[h]
      /\ i = Len(r) \/ r[i+1] < s[i+1]
      /\ j <= Len(s) /\ j < Len(v) /\ \A h \in 1..j : s[h] = v[h]
      /\ j = Len(s) \/ s[j+1] < v[j+1]
  BY <1>4, <1>5 DEF Before
<1>7. m < Len(r) /\ m + 1 \in 1..n /\ m + 1 \in 1..Len(r) /\ m + 1 \in 1..Len(v)
  BY <1>1, <1>2, <1>3
<1>8. r[m+1] = v[m+1]
  BY <1>1, <1>7
<1>9. i = m
  <2>1. ~(i < m)
    <3>. SUFFICES ASSUME i < m PROVE FALSE
      OBVIOUS
    <3>1. i + 1 \in 1..m /\ i # Len(r) /\ i + 1 \in 1..Len(r)
      BY <1>1, <1>2, <1>7
    <3>2. r[i+1] = s[i+1] /\ r[i+1] < s[i+1] /\ r[i+1] \in Nat
      BY <1>1, <1>2, <1>6, <3>1
    <3>. QED  BY <3>2
  <2>2. ~(m < i)
    <3>. SUFFICES ASSUME m < i PROVE FALSE
      OBVIOUS
    <3>1. m + 1 \in 1..i /\ m < Len(s)
      BY <1>1, <1>2, <1>6
    <3>. QED  BY <1>1, <1>6, <1>7, <3>1
  <2>. QED  BY <1>1, <2>1, <2>2
<1>10. r[m+1] < s[m+1] /\ m + 1 \in 1..Len(s)
  BY <1>2, <1>6, <1>7, <1>9
<1>11. ~(m < j)
  <2>. SUFFICES ASSUME m < j PROVE FALSE
    OBVIOUS
  <2>1. m + 1 \in 1..j
    BY <1>1
  <2>2. s[m+1] = v[m+1] /\ r[m+1] \in Nat
    BY <1>2, <1>6, <1>7, <2>1
  <2>. QED  BY <1>8, <1>10, <2>2
<1>12. ~(j < m)
  <2>. SUFFICES ASSUME j < m PROVE FALSE
    OBVIOUS
  <2>1. j + 1 \in 1..m /\ j + 1 \in 1..n /\ j # Len(s) /\ j + 1 \in 1..Len(s)
    BY <1>1, <1>2, <1>3
  <2>2. s[j+1] = r[j+1] /\ r[j+1] = v[j+1] /\ s[j+1] < v[j+1] /\ s[j+1] \in Nat
    BY <1>1, <1>2, <1>6, <2>1
  <2>. QED  BY <2>2
<1>13. j = m /\ j # Len(s)
  BY <1>1, <1>2, <1>10, <1>11, <1>12
<1>14. s[m+1] < v[m+1] /\ s[m+1] \in Nat /\ r[m+1] \in Nat
  BY <1>2, <1>6, <1>7, <1>10, <1>13
<1>. QED  BY <1>8, <1>10, <1>14

\* How the delta of v against r compares with s.
LEMMA DeltaCompares ==
    ASSUME NEW r \in Strings, NEW v \in Strings, NEW s \in Strings, LexLess(r, v), LexLess(r, s)
    PROVE  LET n    == PrefixLength(r, v)
               rest == SubSeq(s, n + 1, Len(s))
           IN  /\ s = v => ~(PrefixLength(r, s) < n) /\ Delta(r, v) = rest
               /\ LexLess(v, s) => \/ PrefixLength(r, s) < n
                                   \/ Delta(r, v) # rest /\ LexLess(Delta(r, v), rest)
               /\ LexLess(s, v) => /\ ~(PrefixLength(r, s) < n)
                                   /\ Delta(r, v) # rest /\ ~LexLess(Delta(r, v), rest)
<1>. DEFINE n == PrefixLength(r, v)
            m == PrefixLength(r, s)
<1>1. /\ n \in Nat /\ n <= Len(r) /\ n <= Len(v) /\ \A i \in 1..n : r[i] = v[i]
      /\ m \in Nat /\ m <= Len(r) /\ m <= Len(s) /\ \A i \in 1..m : r[i] = s[i]
  BY PrefixLengthProperties
<1>2. Delta(r, v) = Leftover(v, n) /\ SubSeq(s, n + 1, Len(s)) = Leftover(s, n)
  BY DEF Delta, Leftover
<1>3. Len(s) \in Nat /\ Len(v) \in Nat
  BY DEF Strings
<1>4. LexLess(s, v) => n <= m
  BY PrefixShrinks
<1>5. s = v => n = m
  OBVIOUS
<1>. HIDE DEF n, m
<1>6. n <= m => n <= Len(s) /\ \A i \in 1..n : s[i] = v[i]
  <2>. SUFFICES ASSUME n <= m PROVE n <= Len(s) /\ \A i \in 1..n : s[i] = v[i]
    OBVIOUS
  <2>1. n <= Len(s)
    BY <1>1, <1>3
  <2>2. \A i \in 1..n : i \in 1..m
    BY <1>1
  <2>. QED  BY <1>1, <2>1, <2>2
<1>7. ASSUME n <= m
      PROVE  Leftover(v, n) \in Strings /\ Leftover(s, n) \in Strings
  BY <1>1, <1>6, <1>7, LeftBehind
<1>8. ASSUME n <= m, LexLess(v, s)
      PROVE  Leftover(v, n) # Leftover(s, n) /\ LexLess(Leftover(v, n), Leftover(s, n))
  <2>1. LexLess(Leftover(v, n), Leftover(s, n))
    BY <1>1, <1>6, <1>8, RestLess
  <2>. QED  BY <1>7, <1>8, <2>1, LexAsymmetric
<1>9. ASSUME LexLess(s, v)
      PROVE  Leftover(v, n) # Leftover(s, n) /\ ~LexLess(Leftover(v, n), Leftover(s, n))
  <2>1. LexLess(Leftover(s, n), Leftover(v, n))
    BY <1>1, <1>4, <1>6, <1>9, RestLess
  <2>. QED  BY <1>4, <1>7, <1>9, <2>1, LexAsymmetric
<1>10. ~(m < n) <=> n <= m
  BY <1>1
<1>. DEFINE d    == Delta(r, v)
            rest == SubSeq(s, n + 1, Len(s))
<1>11. s = v => ~(m < n) /\ d = rest
  <2>. HIDE DEF d, rest
  <2>. QED  BY <1>1, <1>2, <1>5 DEF d, rest
<1>12. LexLess(v, s) => m < n \/ (d # rest /\ LexLess(d, rest))
  BY <1>2, <1>8, <1>10
<1>13. LexLess(s, v) => ~(m < n) /\ d # rest /\ ~LexLess(d, rest)
  BY <1>2, <1>4, <1>9, <1>10
<1>. QED  BY <1>11, <1>12, <1>13 DEF n, m

-----------------------------------------------------------------------------
(* What the binary search finds.                                           *)

\* Seen from the entries of page p, the string is at the entry hit.
Sorted(p, str, hit) ==
    \A e \in 1..(Entries(p) - 1) :
        Position(p, str, e) = IF e = hit THEN "equal" ELSE IF e < hit THEN "after" ELSE "before"

\* The span holds that entry.
Holding(s, p, hit) == s.start < hit /\ hit <= s.end /\ s.end <= Entries(p) - 1

LEMMA HalvedFinds ==
    ASSUME NEW p, Entries(p) \in Nat, NEW str, NEW f, NEW hit \in 1..(Entries(p) - 1), Sorted(p, str, hit),
           NEW s \in Between(p), Holding(s, p, hit),
           \A y \in Between(p) : Width(y) < Width(s) /\ Holding(y, p, hit) => f[y] = hit
    PROVE  HalvedAt(f, p, str, s) = hit
<1>. DEFINE middle == s.start + (s.end - s.start) \div 2
            upper  == [start |-> middle + 1, end |-> s.end]
            lower  == [start |-> s.start, end |-> middle]
            entry  == middle + 1
<1>1. s.start < hit /\ hit <= s.end /\ s.end <= Entries(p) - 1 /\ s.start \in Nat /\ s.end \in Nat /\ s.start < s.end
  BY DEF Holding, Between
<1>2. /\ upper \in Between(p) /\ Width(upper) < Width(s)
      /\ lower \in Between(p) /\ Width(lower) < Width(s)
  BY <1>1, HalfBetween
<1>3. middle \in Nat /\ s.start <= middle /\ middle < s.end
  BY <1>1
<1>4. HalvedAt(f, p, str, s) =
        IF Position(p, str, middle + 1) = "equal" THEN middle + 1
        ELSE IF Position(p, str, middle + 1) = "after" THEN f[upper] ELSE f[lower]
  <2>1. ~(s.start >= s.end)
    BY <1>1
  <2>. QED  BY <2>1, Zenon DEF HalvedAt
<1>4b. HalvedAt(f, p, str, s) = IF Position(p, str, entry) = "equal" THEN entry
                                ELSE IF Position(p, str, entry) = "after" THEN f[upper] ELSE f[lower]
  BY <1>4, Zenon
<1>5. upper.start = middle + 1 /\ upper.end = s.end /\ lower.start = s.start /\ lower.end = middle
  OBVIOUS
<1>. HIDE DEF middle, upper, lower
<1>6. entry \in 1..(Entries(p) - 1)
  BY <1>1, <1>3
<1>7. Position(p, str, entry) = IF entry = hit THEN "equal" ELSE IF entry < hit THEN "after" ELSE "before"
  <2>. HIDE DEF entry
  <2>. QED  BY <1>6 DEF Sorted
<1>8. CASE entry = hit
  <2>. HIDE DEF entry
  <2>. QED  BY <1>4b, <1>7, <1>8
<1>9. CASE entry < hit
  <2>1. Holding(upper, p, hit)
    BY <1>1, <1>5, <1>9 DEF Holding
  <2>2. f[upper] = hit
    BY <1>2, <2>1
  <2>3. entry # hit
    BY <1>3, <1>9
  <2>. HIDE DEF entry
  <2>. QED  BY <1>4b, <1>7, <1>9, <2>2, <2>3
<1>10. CASE ~(entry < hit) /\ entry # hit
  <2>1. Holding(lower, p, hit)
    BY <1>1, <1>3, <1>5, <1>10 DEF Holding
  <2>2. f[lower] = hit
    BY <1>2, <2>1
  <2>. HIDE DEF entry
  <2>. QED  BY <1>4b, <1>7, <1>10, <2>2
<1>. QED  BY <1>8, <1>9, <1>10

LEMMA BinarySearchFinds ==
    ASSUME NEW p, Entries(p) \in Nat, NEW str, NEW hit \in 1..(Entries(p) - 1), Sorted(p, str, hit)
    PROVE  BinarySearch(p, str) = hit
<1>. DEFINE D == Between(p)
<1>1. \A s \in D : Width(s) \in Nat
  BY DEF Between, Width
<1>2. PICK search : /\ \A s \in D : search[s] = HalvedAt(search, p, str, s)
                    /\ Entries(p) = 0 => BinarySearch(p, str) = 0
                    /\ Entries(p) # 0 => BinarySearch(p, str) = search[[start |-> 0, end |-> Entries(p) - 1]]
  BY BinarySearchIs
<1>. DEFINE Bad == { Width(s) : s \in { s \in D : Holding(s, p, hit) /\ search[s] # hit } }
<1>3. Bad = {}
  <2>1. SUFFICES ASSUME Bad # {} PROVE FALSE
    OBVIOUS
  <2>2. PICK w \in Bad : \A v \in Bad : w <= v
    <3>1. Bad \in SUBSET Nat
      BY <1>1
    <3>. HIDE DEF Bad
    <3>. QED  BY <2>1, <3>1, LeastElement
  <2>3. PICK s \in D : Holding(s, p, hit) /\ search[s] # hit /\ w = Width(s)
    OBVIOUS
  <2>4. \A y \in D : Width(y) < Width(s) /\ Holding(y, p, hit) => search[y] = hit
    <3>1. \A y \in D : Holding(y, p, hit) /\ search[y] # hit => Width(y) \in Bad
      OBVIOUS
    <3>2. \A y \in D : Width(y) \in Nat
      BY <1>1
    <3>. HIDE DEF Bad, D
    <3>. QED  BY <2>2, <2>3, <3>1, <3>2
  <2>5. HalvedAt(search, p, str, s) = hit
    BY <2>3, <2>4, HalvedFinds
  <2>. QED  BY <1>2, <2>3, <2>5
<1>. DEFINE whole == [start |-> 0, end |-> Entries(p) - 1]
<1>4. Entries(p) # 0 /\ whole \in D /\ Holding(whole, p, hit)
  BY DEF Between, Holding
<1>5. search[whole] = hit
  <2>. HIDE DEF whole, D
  <2>. QED  BY <1>3, <1>4
<1>. QED  BY <1>2, <1>4, <1>5

-----------------------------------------------------------------------------
(* The indexes of bottom-up pages.                                         *)

\* Every delta of the page has an entry in its index.
Packed(page, slot) == \A o \in DOMAIN page.cells : o # 0 => \E e \in 1..Len(slot) : slot[e] = o

Filled(slot) == \A e \in 1..Len(slot) : slot[e] # Unwritten

\* The index of a page that was left is full, and the next page starts with the
\* value behind its last entry.
LeftFull(ps, ss, p, up) ==
    Filled(ss[p]) /\ StartOf(ps, p + 1, up) = ps[p].cells[0].id + Len(ss[p]) + 1

PackedInv ==
    kind = "bottomup" /\ Good =>
        /\ \A p \in 1..Len(pages) : Packed(pages[p], slots[p])
        /\ \A p \in 1..(Len(pages) - 1) : LeftFull(pages, slots, p, Upcoming)

LEMMA PackedSame ==
    ASSUME LoaderInv, PackedInv, Good, UNCHANGED <<kind, slots>>, SameCells(pages', pages), Upcoming' = Upcoming
    PROVE  PackedInv'
<1>. SUFFICES ASSUME kind = "bottomup" PROVE PackedInv'
  BY DEF PackedInv
<1>1. Len(pages) \in Nat
  BY DEF LoaderInv, PagesInv, AllSound, IsSequence
<1>. DEFINE qs == pages'
            up == Upcoming
<1>2. Len(qs) = Len(pages) /\ \A p \in 1..Len(pages) : qs[p].cells = pages[p].cells
  BY DEF SameCells
<1>3. /\ \A p \in 1..Len(pages) : Packed(pages[p], slots[p])
      /\ \A p \in 1..(Len(pages) - 1) : LeftFull(pages, slots, p, up)
  BY DEF PackedInv
<1>. HIDE DEF qs, up
<1>4. \A p \in 1..Len(pages) : Packed(qs[p], slots[p])
  BY <1>2, <1>3 DEF Packed
<1>5. ASSUME NEW p \in 1..(Len(pages) - 1)
      PROVE  LeftFull(qs, slots, p, up)
  <2>1. p \in 1..Len(pages) /\ p + 1 \in 1..Len(pages)
    BY <1>1
  <2>2. StartOf(qs, p + 1, up) = StartOf(pages, p + 1, up) /\ qs[p].cells[0] = pages[p].cells[0]
    BY <1>2, <2>1 DEF StartOf
  <2>. QED  BY <1>3, <2>2 DEF LeftFull
<1>. QED  BY <1>2, <1>4, <1>5 DEF PackedInv, qs, up

\* Pages in front of the last one have a first value.
LEMMA FrontHasFirst ==
    ASSUME ChainInv, Good
    PROVE  \A p \in 1..(Len(pages) - 1) : 0 \in DOMAIN pages[p].cells
BY DEF ChainInv, Chain

LEMMA PackedOpenPage ==
    ASSUME LoaderInv, ContentInv, ChainInv, PackedInv, OpenPage
    PROVE  PackedInv'
<1>. SUFFICES ASSUME kind = "bottomup", Good' PROVE PackedInv'
  BY DEF PackedInv, OpenPage
<1>. DEFINE qs == pages'
            ts == slots'
            up == Upcoming
            n == Len(pages)
<1>1. /\ pc = "loop" /\ PageComplete /\ qs = PagesAndNew /\ kind' = kind /\ pos' = pos
      /\ deltaNumber' = 0 /\ \E slot : ts = Append(slots, slot)
  BY DEF OpenPage, Looping
<1>2. /\ n \in Nat /\ IsSequence(slots) /\ Len(slots) = n /\ current = n /\ Good
      /\ \A p \in 1..n : IsPage(pages[p]) /\ IsSequence(slots[p])
  BY <1>1 DEF LoaderInv, PagesInv, AllSound, SoundPage, IsSequence, ContentInv, Good
<1>3. WithNew(qs, pages)
  BY <1>1, LinkedSame
<1>4. up = pos /\ Upcoming' = pos
  BY <1>1 DEF Upcoming
<1>5. /\ \A p \in 1..n : Packed(pages[p], slots[p])
      /\ \A p \in 1..(n - 1) : LeftFull(pages, slots, p, pos)
  BY <1>2, <1>4 DEF PackedInv
<1>. HIDE DEF qs, ts, up
<1>6. /\ Len(qs) = n + 1 /\ qs[n + 1] = EmptyPage /\ \A p \in 1..n : qs[p].cells = pages[p].cells
      /\ \A p \in 1..n : ts[p] = slots[p]
  <2>1. \A p \in 1..n : ts[p] = slots[p]
    BY <1>1, <1>2, AppendSequence
  <2>. QED  BY <1>3, <2>1 DEF WithNew
<1>7. DOMAIN EmptyPage.cells = {}
  BY EmptyPageProperties
<1>8. \A p \in 1..n : 0 \in DOMAIN pages[p].cells
  <2>1. n # 0 => 0 \in DOMAIN pages[n].cells
    BY <1>1, <1>2, LeavesValue DEF Null
  <2>. QED  BY <1>2, <2>1, FrontHasFirst
<1>9. ASSUME NEW p \in 1..(n + 1)
      PROVE  Packed(qs[p], ts[p])
  <2>1. CASE p = n + 1
    BY <1>6, <1>7, <2>1 DEF Packed
  <2>2. CASE p # n + 1
    <3>1. p \in 1..n
      BY <1>2, <2>2
    <3>2. qs[p].cells = pages[p].cells /\ ts[p] = slots[p] /\ Packed(pages[p], slots[p])
      BY ONLY <1>5, <1>6, <3>1
    <3>. QED  BY ONLY <3>2 DEF Packed
  <2>. QED  BY <2>1, <2>2
<1>10. ASSUME NEW p \in 1..n
       PROVE  LeftFull(qs, ts, p, pos)
  <2>1. qs[p].cells = pages[p].cells /\ ts[p] = slots[p]
    BY <1>6
  <2>2. CASE p = n
    <3>1. /\ Busy /\ current # Null /\ deltaNumber = numberOfDeltas + 1 /\ deltaNumber # 0 /\ pos \in Nat
          /\ numberOfDeltas \in Nat /\ Len(slots[n]) = numberOfDeltas
      BY <1>1, <1>2, <2>2 DEF PageComplete, Busy, Null, LoaderInv, LoaderTypes, StepInv, CountedInv, Unindexed
    <3>2. /\ pages[n].cells[0].id = pos - deltaNumber
          /\ \A e \in 1..Len(slots[n]) : slots[n][e] # Unwritten <=> e < deltaNumber
      BY <1>1, <1>2, <3>1 DEF ContentInv, CurrentInv, First, Unindexed
    <3>3. Filled(slots[n])
      BY <3>1, <3>2 DEF Filled
    <3>4. StartOf(qs, n + 1, pos) = pos
      BY <1>6, <1>7 DEF StartOf
    <3>. QED  BY <2>1, <2>2, <3>1, <3>2, <3>3, <3>4 DEF LeftFull
  <2>3. CASE p # n
    <3>1. p \in 1..(n - 1) /\ p + 1 \in 1..n /\ p + 1 \in 1..Len(qs)
      BY <1>2, <1>6, <2>3
    <3>2. StartOf(qs, p + 1, pos) = StartOf(pages, p + 1, pos)
      BY <1>6, <3>1 DEF StartOf
    <3>. QED  BY <1>5, <2>1, <3>1, <3>2 DEF LeftFull
  <2>. QED  BY <2>2, <2>3
<1>11. (n + 1) - 1 = n
  BY <1>2
<1>. QED  BY <1>1, <1>4, <1>6, <1>9, <1>10, <1>11 DEF PackedInv, qs, ts

LEMMA PackedWriteFull ==
    ASSUME LoaderInv, ContentInv, ChainInv, PackedInv, WriteFull
    PROVE  PackedInv'
<1>. SUFFICES ASSUME kind = "bottomup" PROVE PackedInv'
  BY DEF PackedInv, WriteFull
<1>. DEFINE cell == FullCell(pos, values[pos])
            q == WithCell(pages[current], 0, cell)
            qs == pages'
            n == Len(pages)
<1>1. /\ pc = "open" /\ qs = [pages EXCEPT ![current] = q] /\ UNCHANGED <<kind, slots>>
  BY DEF WriteFull
<1>2. /\ n \in Nat /\ current = n /\ Good /\ n # 0 /\ current \in 1..n /\ deltaNumber = 0
      /\ IsSequence(pages) /\ IsPage(pages[n]) /\ DOMAIN pages[n].cells = {}
  <2>1. current # Null /\ deltaNumber = 0 /\ Busy
    BY <1>1 DEF LoaderInv, StepInv, Busy
  <2>2. /\ n \in Nat /\ current = n /\ Good /\ n # 0 /\ current \in 1..n /\ IsSequence(pages)
        /\ IsPage(pages[n])
    BY <1>1, <2>1 DEF LoaderInv, PagesInv, AllSound, SoundPage, IsSequence, ContentInv, Good, Null
  <2>3. \A o \in DOMAIN pages[n].cells : o \in Nat /\ o < 0
    BY <2>1, <2>2 DEF ContentInv, CurrentInv, IsPage
  <2>. QED  BY <2>1, <2>2, <2>3
<1>3. q.cells[0] = cell /\ DOMAIN q.cells = {0}
  <2>1. /\ DOMAIN q.cells = (DOMAIN pages[current].cells) \union {0} /\ q.cells[0] = cell
    <3>1. pos \in Nat /\ values[pos] \in Strings
      BY <1>1 DEF LoaderInv, StepInv, LoaderTypes
    <3>2. cell \in Cells
      BY <3>1, FullCellProperties
    <3>3. IsPage(pages[current]) /\ 0 \in Nat /\ 0 \notin DOMAIN pages[current].cells
      BY <1>2
    <3>. HIDE DEF cell
    <3>. QED  BY <3>2, <3>3, CellAdded
  <2>. QED  BY <1>2, <2>1
<1>4. q.cells[0].id = pos
  BY <1>3 DEF FullCell
<1>5. Upcoming = pos
  BY <1>1 DEF Upcoming
<1>. HIDE DEF q, qs
<1>6. Len(qs) = n /\ qs[n] = q /\ \A p \in 1..n : p # n => qs[p] = pages[p]
  <2>1. Replaced(qs, pages, current, q)
    BY <1>1, <1>2, ReplacedEntry
  <2>. QED  BY <1>2, <2>1 DEF Replaced
<1>7. /\ \A p \in 1..n : Packed(pages[p], slots[p])
      /\ \A p \in 1..(n - 1) : LeftFull(pages, slots, p, pos)
  BY <1>2, <1>5 DEF PackedInv
<1>8. ASSUME NEW p \in 1..n
      PROVE  Packed(qs[p], slots[p])
  BY <1>3, <1>6, <1>7 DEF Packed
<1>9. ASSUME NEW p \in 1..(n - 1)
      PROVE  LeftFull(qs, slots, p, Upcoming')
  <2>1. p \in 1..n /\ p # n /\ qs[p] = pages[p] /\ p + 1 \in 1..n
    BY <1>2, <1>6
  <2>2. StartOf(qs, p + 1, Upcoming') = StartOf(pages, p + 1, pos)
    <3>1. CASE p + 1 = n
      BY <1>2, <1>3, <1>4, <1>6, <2>1, <3>1 DEF StartOf
    <3>2. CASE p + 1 # n
      <4>1. 0 \in DOMAIN pages[p + 1].cells
        BY <1>2, <2>1, <3>2, FrontHasFirst
      <4>. QED  BY <1>6, <2>1, <3>2, <4>1 DEF StartOf
    <3>. QED  BY <3>1, <3>2
  <2>. QED  BY <1>7, <2>1, <2>2 DEF LeftFull
<1>. QED  BY <1>1, <1>6, <1>8, <1>9 DEF PackedInv, qs

LEMMA PackedWriteDelta ==
    ASSUME FitsWidths, LeavesFit, LoaderInv, ContentInv, ChainInv, PackedInv, WriteDelta
    PROVE  PackedInv'
<1>. SUFFICES ASSUME kind = "bottomup" PROVE PackedInv'
  BY DEF PackedInv, WriteDelta
<1>. DEFINE cell == DeltaCell(pos, Ref, values[pos])
            q == WithCell(pages[current], dataPtr, cell)
            slot == slots[current]
            d == deltaNumber
            t == [slot EXCEPT ![d] = dataPtr]
            qs == pages'
            ts == slots'
            n == Len(pages)
<1>1. /\ pc = "loop" /\ current # Null /\ qs = [pages EXCEPT ![current] = q] /\ kind' = kind
      /\ ts = [slots EXCEPT ![current][d] = dataPtr % OffsetRange]
  BY DEF WriteDelta, Looping, PageComplete, OffsetFits
<1>2. /\ Takes(kind, pages[current], slot, values, d, dataPtr, pos) /\ IsValue(values, pos, values[pos])
      /\ current \in 1..n /\ d \in 1..Len(slot) /\ slot[d] = Unwritten
      /\ dataPtr \in 0..(OffsetRange - 1)
  BY DeltaDue DEF Unindexed
<1>3. dataPtr % OffsetRange = dataPtr
  BY <1>2, OffsetRangeAssumption DEF LeavesFit
<1>4. /\ n \in Nat /\ current = n /\ Good /\ IsSequence(pages) /\ IsSequence(slots) /\ Len(slots) = n
      /\ IsSequence(slot)
  BY <1>1, <1>2 DEF LoaderInv, PagesInv, AllSound, SoundPage, IsSequence, ContentInv, Good
<1>5. Replaced(t, slot, d, dataPtr)
  <2>. HIDE DEF slot
  <2>. QED  BY <1>2, <1>4, ReplacedEntry
<1>6. ts = [slots EXCEPT ![current] = t]
  BY <1>1, <1>3
<1>7. DOMAIN q.cells = DOMAIN pages[current].cells \union {dataPtr} /\ q.cells[0] = pages[current].cells[0]
  <2>1. 0 \in DOMAIN pages[current].cells /\ dataPtr # 0 /\ IsPage(pages[current]) /\ dataPtr \in Nat
        /\ dataPtr \notin DOMAIN pages[current].cells /\ pages[current].cells[0].str \in Strings
    BY <1>2 DEF Takes
  <2>2. cell \in Cells
    <3>. DEFINE r == pages[current].cells[0].str
                v == values[pos]
    <3>1. pos \in Nat /\ r \in Strings /\ v \in Strings
      BY <1>2, <2>1 DEF IsValue
    <3>2. DeltaCell(pos, r, v) \in Cells
      <4>. HIDE DEF r, v
      <4>. QED  BY <3>1, DeltaCellProperties
    <3>. QED  BY <3>2 DEF Ref
  <2>. HIDE DEF cell
  <2>3. /\ DOMAIN q.cells = (DOMAIN pages[current].cells) \union {dataPtr}
        /\ CellsStay(q, pages[current])
    BY <2>1, <2>2, CellAdded
  <2>. QED  BY <2>1, <2>3 DEF CellsStay
<1>. HIDE DEF q, qs, ts, t, slot
<1>8. /\ Len(qs) = n /\ qs[n] = q /\ \A p \in 1..n : p # n => qs[p] = pages[p]
      /\ ts[n] = t /\ \A p \in 1..n : p # n => ts[p] = slots[p]
  <2>1. Replaced(qs, pages, current, q)
    BY <1>1, <1>2, <1>4, ReplacedEntry
  <2>2. Replaced(ts, slots, current, t)
    BY <1>2, <1>4, <1>6, ReplacedEntry
  <2>. QED  BY <1>2, <1>4, <2>1, <2>2 DEF Replaced
<1>9. /\ \A p \in 1..n : Packed(pages[p], slots[p])
      /\ \A p \in 1..(n - 1) : LeftFull(pages, slots, p, Upcoming)
  BY <1>4 DEF PackedInv
<1>10. 0 \in DOMAIN pages[n].cells
  BY <1>2, <1>4 DEF Takes
<1>11. ASSUME NEW p \in 1..n
       PROVE  Packed(qs[p], ts[p])
  <2>1. CASE p # n
    BY <1>8, <1>9, <2>1
  <2>2. CASE p = n
    <3>1. Len(t) = Len(slot) /\ t[d] = dataPtr /\ \A e \in 1..Len(slot) : e # d => t[e] = slot[e]
      BY <1>2, <1>5 DEF Replaced
    <3>2. ASSUME NEW o \in DOMAIN q.cells, o # 0
          PROVE  \E e \in 1..Len(t) : t[e] = o
      <4>1. CASE o = dataPtr
        BY <1>2, <3>1, <4>1
      <4>2. CASE o # dataPtr
        <5>1. o \in DOMAIN pages[n].cells
          BY <1>4, <1>7, <4>2
        <5>2. PICK e \in 1..Len(slot) : slot[e] = o
          BY <1>4, <1>9, <2>2, <3>2, <5>1 DEF Packed, slot
        <5>3. o \in Nat
          BY <1>2, <1>4, <5>1 DEF Takes, IsPage
        <5>4. e # d
          BY <1>2, <5>2, <5>3 DEF Unwritten
        <5>. QED  BY <3>1, <5>2, <5>4
      <4>. QED  BY <4>1, <4>2
    <3>. QED  BY <1>8, <2>2, <3>2 DEF Packed
  <2>. QED  BY <2>1, <2>2
<1>12. ASSUME NEW p \in 1..(n - 1)
       PROVE  LeftFull(qs, ts, p, Upcoming')
  <2>1. p \in 1..n /\ p # n /\ qs[p] = pages[p] /\ ts[p] = slots[p] /\ p + 1 \in 1..n
    BY <1>4, <1>8
  <2>2. StartOf(qs, p + 1, Upcoming') = StartOf(pages, p + 1, Upcoming)
    <3>1. 0 \in DOMAIN pages[p + 1].cells
      BY <1>4, <1>10, <2>1, FrontHasFirst
    <3>2. 0 \in DOMAIN qs[p + 1].cells /\ qs[p + 1].cells[0] = pages[p + 1].cells[0]
      BY <1>4, <1>7, <1>8, <2>1, <3>1
    <3>. QED  BY <1>8, <2>1, <3>1, <3>2 DEF StartOf
  <2>. QED  BY <1>9, <2>1, <2>2 DEF LeftFull
<1>. QED  BY <1>1, <1>8, <1>11, <1>12 DEF PackedInv, qs, ts

LEMMA PackedFinish ==
    ASSUME LoaderInv, ContentInv, PackedInv, Finish
    PROVE  PackedInv'
<1>. SUFFICES ASSUME Good' PROVE PackedInv'
  BY DEF PackedInv
<1>1. pc = "loop" /\ pc' = "ready" /\ pages' = Completed /\ UNCHANGED <<kind, slots, pos, deltaNumber>>
  BY DEF Finish, Good
<1>2. Good /\ Upcoming' = Upcoming
  BY <1>1 DEF Good, Upcoming
<1>3. SameCells(pages', pages)
  BY <1>1, CompletedSame DEF SameCells
<1>. QED  BY <1>1, <1>2, <1>3, PackedSame

LEMMA PackedStep ==
    ASSUME FitsWidths, LeavesFit, DictionaryInv, ChainInv, PackedInv, [Next]_vars
    PROVE  PackedInv'
<1>. USE DEF DictionaryInv
<1>1. ASSUME OpenBlock \/ WriteMulti
      PROVE  PackedInv'
  <2>1. OpenBlock => kind' # "bottomup"
    BY DEF OpenBlock, Dynamic
  <2>2. WriteMulti => kind' # "bottomup"
    <3>. SUFFICES ASSUME WriteMulti PROVE kind' # "bottomup"
      OBVIOUS
    <3>1. kind = "multi" /\ kind' = kind
      BY Zenon DEF WriteMulti
    <3>. QED  BY <3>1
  <2>. QED  BY <1>1, <2>1, <2>2 DEF PackedInv
<1>2. ASSUME InsertReverse \/ InsertId
      PROVE  PackedInv'
  <2>. SUFFICES ASSUME Good' PROVE PackedInv'
    BY DEF PackedInv
  <2>1. /\ pc \in {"callback", "indexed"}
        /\ (pc' \in {"indexed", "overrun"} /\ UNCHANGED pos) \/ Return
        /\ UNCHANGED <<pages, slots, kind, values, current, deltaNumber>>
    BY <1>2 DEF InsertReverse, InsertId
  <2>2. \/ pc' = "indexed" /\ pos' = pos
        \/ deltaNumber = 0 /\ pc' = "open" /\ pos' = pos
        \/ deltaNumber # 0 /\ pc' = "loop" /\ pos' = pos + 1
    BY <2>1 DEF Return, Good
  <2>3. Good /\ Upcoming' = Upcoming
    BY <2>1, <2>2 DEF Good, Upcoming
  <2>. QED  BY <2>1, <2>3, PackedSame DEF SameCells
<1>3. ASSUME Lookup \/ UNCHANGED vars
      PROVE  PackedInv'
  <2>. SUFFICES ASSUME Good' PROVE PackedInv'
    BY DEF PackedInv
  <2>1. pc' = pc /\ UNCHANGED <<pages, slots, kind, pos, deltaNumber>>
    <3>1. Lookup => pc' \in {pc, "aborted"} /\ UNCHANGED <<pages, slots, kind, pos, deltaNumber>>
      BY LookupsOnlyRead
    <3>. QED  BY <1>3, <3>1 DEF vars, Good
  <2>2. Good /\ Upcoming' = Upcoming /\ SameCells(pages', pages)
    BY <2>1 DEF Good, Upcoming, SameCells
  <2>. QED  BY <2>1, <2>2, PackedSame
<1>4. ASSUME NEW vs \in Inputs, BulkInsert(vs)
      PROVE  PackedInv'
  <2>1. pc = "ready" /\ pc' = "loop" /\ UNCHANGED <<pages, slots, kind, pos, deltaNumber>>
    BY <1>4 DEF BulkInsert, Load
  <2>2. Good /\ Upcoming' = Upcoming /\ SameCells(pages', pages)
    BY <2>1 DEF Good, Upcoming, SameCells
  <2>. QED  BY <2>1, <2>2, PackedSame
<1>5. ASSUME Next
      PROVE  PackedInv'
  BY <1>1, <1>2, <1>3, <1>4, <1>5, PackedOpenPage, PackedWriteFull, PackedWriteDelta, PackedFinish
     DEF Next, LoadStep, WriteValue, BulkInsertReturns
<1>. QED  BY <1>3, <1>5

LEMMA PackedInit ==
    ASSUME Init
    PROVE  PackedInv
<1>1. pages = <<>>
  BY DEF Init, LoaderInit
<1>2. Len(pages) = 0
  BY <1>1
<1>. QED  BY <1>2 DEF PackedInv

-----------------------------------------------------------------------------
(* What a search on the chain of bottom-up pages reaches.                  *)

\* The dictionary is loaded and can be asked.
RestUp == Rest /\ PackedInv /\ TailInv /\ pc = "ready" /\ kind = "bottomup" /\ Ascending(values)

FirstId(p) == pages[p].cells[0].id

\* The values of page p: the uncompressed one, and the deltas in their order.
LEMMA EntryHolds ==
    ASSUME RestUp, NEW p \in 1..Len(pages), 0 \in DOMAIN pages[p].cells
    PROVE  /\ Entries(p) \in Nat /\ FirstId(p) \in 1..Len(values)
           /\ pages[p].cells[0].str = values[FirstId(p)]
           /\ \A e \in 1..Entries(p) :
                 /\ slots[p][e] \in DOMAIN pages[p].cells /\ FirstId(p) + e \in 1..Len(values)
                 /\ pages[p].cells[slots[p][e]] =
                       DeltaCell(FirstId(p) + e, values[FirstId(p)], values[FirstId(p) + e])
<1>. DEFINE page == pages[p]
            slot == slots[p]
            id == page.cells[0].id
<1>1. /\ SoundCells(page, values) /\ EntriesLead(page, slot)
      /\ Len(pages) \in Nat /\ current = Len(pages)
  BY DEF RestUp, Rest, DictionaryInv, ContentInv, Contents, PageContent, LoaderInv, PagesInv, AllSound, IsSequence
<1>2. Len(slot) \in Nat
  BY DEF RestUp, Rest, DictionaryInv, LoaderInv, PagesInv, AllSound, SoundPage, IsSequence
<1>3. \A i, v : FullCell(i, v).str = v
  BY DEF FullCell
<1>4. id \in 1..Len(values) /\ page.cells[0] = FullCell(id, values[id])
  <2>. HIDE DEF page
  <2>1. 0 \in DOMAIN page.cells
    BY DEF page
  <2>. QED  BY <1>1, <2>1 DEF SoundCells
<1>5. page.cells[0].str = values[id]
  BY <1>3, <1>4
<1>6. Filled(slot)
  <2>1. CASE p = Len(pages)
    <3>1. Len(slot) = 0
      BY <1>1, <2>1 DEF RestUp, TailInv, Entries, Null
    <3>. QED  BY <3>1 DEF Filled
  <2>2. CASE p # Len(pages)
    <3>1. p \in 1..(Len(pages) - 1) /\ Good
      BY <1>1, <2>2 DEF RestUp, Good
    <3>. QED  BY <3>1 DEF RestUp, PackedInv, LeftFull
  <2>. QED  BY <2>1, <2>2
<1>7. ASSUME NEW e \in 1..Len(slot)
      PROVE  /\ slot[e] \in DOMAIN page.cells /\ id + e \in 1..Len(values)
             /\ page.cells[slot[e]] = DeltaCell(id + e, values[id], values[id + e])
  <2>. HIDE DEF page, slot
  <2>. DEFINE o == slot[e]
  <2>1. o \in DOMAIN page.cells /\ o # 0 /\ page.cells[o].id = id + e
    BY <1>1, <1>6 DEF EntriesLead, Filled
  <2>. HIDE DEF o
  <2>2. /\ page.cells[o].id \in 1..Len(values)
        /\ page.cells[o] = DeltaCell(page.cells[o].id, page.cells[0].str, values[page.cells[o].id])
    BY <1>1, <2>1 DEF SoundCells
  <2>. QED  BY <1>5, <2>1, <2>2 DEF o
<1>. QED  BY <1>2, <1>4, <1>5, <1>7 DEF Entries, FirstId

\* Where a value lies that is behind the first one of a page, seen from a delta.
LEMMA EntryPosition ==
    ASSUME RestUp, NEW p \in 1..Len(pages), 0 \in DOMAIN pages[p].cells,
           NEW k \in 1..Len(values), FirstId(p) < k, NEW e \in 1..Entries(p)
    PROVE  Position(p, values[k], e) = IF FirstId(p) + e = k THEN "equal"
                                       ELSE IF FirstId(p) + e < k THEN "after" ELSE "before"
<1>. DEFINE id == FirstId(p)
            r == values[id]
            v == values[id + e]
            s == values[k]
            cell == DeltaOf(p, e)
            rest == SubSeq(s, cell.prefix + 1, Len(s))
<1>1. /\ Entries(p) \in Nat /\ id \in 1..Len(values) /\ pages[p].cells[0].str = r
      /\ id + e \in 1..Len(values) /\ cell = DeltaCell(id + e, r, v)
  BY EntryHolds DEF DeltaOf
<1>2. /\ Len(values) \in Nat /\ r \in Strings /\ v \in Strings /\ s \in Strings
      /\ Len(v) < StringRange /\ id + e \in Nat /\ id < id + e
  <2>1. /\ Len(values) \in Nat /\ \A i \in 1..Len(values) : values[i] \in Strings /\ Len(values[i]) < StringRange
    BY DEF RestUp, Rest, DictionaryInv, LoaderInv, LoaderTypes, Short
  <2>2. id + e \in Nat /\ id < id + e
    BY <1>1
  <2>. QED  BY <1>1, <2>1, <2>2
<1>3. LexLess(r, v) /\ LexLess(r, s)
  BY <1>1, <1>2 DEF RestUp, Ascending
<1>4. /\ id + e = k => s = v
      /\ id + e < k => LexLess(v, s)
      /\ k < id + e => LexLess(s, v)
  BY <1>1 DEF RestUp, Ascending
<1>5. cell.str = Delta(r, v) /\ cell.prefix = PrefixLength(r, v)
  <2>. DEFINE i == id + e
  <2>. HIDE DEF cell, r, v, id
  <2>1. i \in Nat /\ cell = DeltaCell(i, r, v)
    BY <1>1, <1>2
  <2>. HIDE DEF i
  <2>. QED  BY <1>2, <2>1, DeltaCellProperties
<1>6. Position(p, s, e) = IF PrefixLength(r, s) < cell.prefix THEN "after"
                          ELSE IF cell.str = rest THEN "equal"
                          ELSE IF LexLess(cell.str, rest) THEN "after" ELSE "before"
  BY <1>1 DEF Position
<1>. HIDE DEF id, r, v, s, cell
<1>7. rest = SubSeq(s, PrefixLength(r, v) + 1, Len(s))
  BY <1>5
<1>8. /\ s = v => ~(PrefixLength(r, s) < cell.prefix) /\ cell.str = rest
      /\ LexLess(v, s) => \/ PrefixLength(r, s) < cell.prefix
                          \/ cell.str # rest /\ LexLess(cell.str, rest)
      /\ LexLess(s, v) => /\ ~(PrefixLength(r, s) < cell.prefix)
                          /\ cell.str # rest /\ ~LexLess(cell.str, rest)
  BY <1>2, <1>3, <1>5, <1>7, DeltaCompares
<1>. HIDE DEF rest
<1>. DEFINE at == Position(p, s, e)
            j == id + e
<1>9. k \in Nat /\ j \in Nat
  BY <1>2
<1>. HIDE DEF at, j
<1>10. CASE j = k
  <2>1. s = v
    BY <1>4, <1>10 DEF j
  <2>. QED  BY <1>6, <1>8, <1>10, <2>1 DEF at, j, s, id
<1>11. CASE j < k
  <2>1. LexLess(v, s) /\ j # k
    BY <1>4, <1>9, <1>11 DEF j
  <2>2. at = "after"
    BY <1>6, <1>8, <2>1 DEF at
  <2>. QED  BY <1>11, <2>1, <2>2 DEF at, j, s, id
<1>12. CASE k < j
  <2>1. LexLess(s, v) /\ j # k /\ ~(j < k)
    BY <1>4, <1>9, <1>12 DEF j
  <2>2. at = "before"
    BY <1>6, <1>8, <2>1 DEF at
  <2>. QED  BY <1>12, <2>1, <2>2 DEF at, j, s, id
<1>. QED  BY <1>9, <1>10, <1>11, <1>12

\* The entry e of page p that leads to value k, or 0 when it is the first one.
HoldsAt(p, e, k) == 0 \in DOMAIN pages[p].cells /\ e \in 0..Entries(p) /\ FirstId(p) + e = k

\* Two values are different strings.
LEMMA ValuesDiffer ==
    ASSUME RestUp, NEW i \in 1..Len(values), NEW k \in 1..Len(values), i < k
    PROVE  values[i] # values[k]
<1>1. values[i] \in Strings /\ values[k] \in Strings /\ LexLess(values[i], values[k])
  BY DEF RestUp, Rest, DictionaryInv, LoaderInv, LoaderTypes, Ascending
<1>. DEFINE a == values[i]
            b == values[k]
<1>. HIDE DEF a, b
<1>2. a # b
  BY <1>1, LexAsymmetric DEF a, b
<1>. QED  BY <1>2 DEF a, b

\* On the page of a value the search finds it.
LEMMA FoundOnPage ==
    ASSUME RestUp, NEW p \in 1..Len(pages), NEW e, NEW k \in 1..Len(values), HoldsAt(p, e, k)
    PROVE  ~GoesOn(p, values[k]) /\ HasId(SearchOn(p, values[k])) /\ GetId(SearchOn(p, values[k])) = k
<1>. DEFINE s == values[k]
            n == Entries(p)
            it == SearchOn(p, s)
            entry == IF n > 0 /\ Position(p, s, n) = "equal" THEN n ELSE BinarySearch(p, s)
<1>1. /\ 0 \in DOMAIN pages[p].cells /\ e \in 0..n /\ FirstId(p) + e = k
  BY DEF HoldsAt
<1>2. /\ n \in Nat /\ FirstId(p) \in 1..Len(values) /\ pages[p].cells[0].str = values[FirstId(p)]
      /\ \A d \in 1..n : /\ slots[p][d] \in DOMAIN pages[p].cells /\ FirstId(p) + d \in 1..Len(values)
                         /\ pages[p].cells[slots[p][d]].id = FirstId(p) + d
  <2>1. \A i, r, v : DeltaCell(i, r, v).id = i
    BY DEF DeltaCell
  <2>2. /\ Entries(p) \in Nat /\ FirstId(p) \in 1..Len(values)
        /\ pages[p].cells[0].str = values[FirstId(p)]
        /\ \A d \in 1..Entries(p) :
              /\ slots[p][d] \in DOMAIN pages[p].cells /\ FirstId(p) + d \in 1..Len(values)
              /\ pages[p].cells[slots[p][d]] =
                    DeltaCell(FirstId(p) + d, values[FirstId(p)], values[FirstId(p) + d])
    BY <1>1, EntryHolds
  <2>3. ASSUME NEW d \in 1..Entries(p)
        PROVE  pages[p].cells[slots[p][d]].id = FirstId(p) + d
    BY ONLY <2>1, <2>2, <2>3
  <2>. QED  BY ONLY <2>2, <2>3 DEF n
<1>3. it = IF s = pages[p].cells[0].str THEN GetIndexEntry(p, 0)
           ELSE IF entry > 0 THEN GetIndexEntry(p, entry) ELSE NullIterator
  BY DEF SearchOn
<1>4. GoesOn(p, s) <=> s # pages[p].cells[0].str /\ n > 0 /\ Position(p, s, n) = "after"
  BY DEF GoesOn
<1>5. ASSUME NEW d \in 0..n, GetIndexEntry(p, d) = it, FirstId(p) + d = k
      PROVE  HasId(it) /\ GetId(it) = k
  <2>1. it.page = p /\ it.off = IF d = 0 THEN 0 ELSE slots[p][d]
    BY <1>5 DEF GetIndexEntry, IteratorAt
  <2>2. it.off \in DOMAIN pages[p].cells /\ pages[p].cells[it.off].id = k
    <3>1. CASE d = 0
      BY <1>1, <1>2, <1>5, <2>1, <3>1 DEF FirstId
    <3>2. CASE d # 0
      <4>1. d \in 1..n
        BY <1>2, <3>2
      <4>. QED  BY <1>2, <1>5, <2>1, <3>2, <4>1
    <3>. QED  BY <3>1, <3>2
  <2>3. p # Null
    BY DEF Null
  <2>. HIDE DEF it
  <2>. QED  BY <2>1, <2>2, <2>3 DEF HasId, AtCell, GetId, Cell
<1>. HIDE DEF it, entry
<1>6. CASE e = 0
  <2>1. FirstId(p) = k
    BY <1>1, <1>2, <1>6
  <2>2. s = pages[p].cells[0].str
    BY <1>2, <2>1
  <2>3. GetIndexEntry(p, 0) = it /\ 0 \in 0..n
    BY <1>2, <1>3, <2>2
  <2>. QED  BY <1>1, <1>4, <1>5, <1>6, <2>2, <2>3 DEF it
<1>7. CASE e # 0
  <2>1. e \in 1..n /\ n > 0 /\ n \in 1..n /\ FirstId(p) < k
    BY <1>1, <1>2, <1>7
  <2>2. s # pages[p].cells[0].str
    BY <1>2, <2>1, ValuesDiffer
  <2>3. ASSUME NEW d \in 1..n
        PROVE  Position(p, s, d) = IF d = e THEN "equal" ELSE IF d < e THEN "after" ELSE "before"
    <3>1. Position(p, s, d) = IF FirstId(p) + d = k THEN "equal"
                              ELSE IF FirstId(p) + d < k THEN "after" ELSE "before"
      BY <1>1, <2>1, EntryPosition
    <3>2. (FirstId(p) + d = k <=> d = e) /\ (FirstId(p) + d < k <=> d < e)
      BY <1>1, <1>2
    <3>. HIDE DEF s
    <3>. QED  BY <3>1, <3>2
  <2>4. entry = e
    <3>1. CASE n = e
      BY <2>1, <2>3, <3>1 DEF entry
    <3>2. CASE n # e
      <4>1. e \in 1..(n - 1) /\ ~(n = e)
        BY <1>2, <2>1, <3>2
      <4>2. Sorted(p, s, e)
        <5>1. \A d \in 1..(n - 1) : d \in 1..n
          BY <1>2
        <5>. HIDE DEF s
        <5>. QED  BY <2>3, <5>1 DEF Sorted
      <4>3. BinarySearch(p, s) = e
        <5>. HIDE DEF s
        <5>. QED  BY <1>2, <4>1, <4>2, BinarySearchFinds
      <4>4. Position(p, s, n) # "equal"
        BY <2>1, <2>3, <4>1
      <4>. QED  BY <4>3, <4>4 DEF entry
    <3>. QED  BY <3>1, <3>2
  <2>5. Position(p, s, n) # "after"
    <3>1. ~(n < e)
      BY <1>2, <2>1
    <3>. QED  BY <2>1, <2>3, <3>1
  <2>6. GetIndexEntry(p, e) = it
    BY <1>3, <2>1, <2>2, <2>4
  <2>. QED  BY <1>1, <1>4, <1>5, <2>5, <2>6 DEF it
<1>. QED  BY <1>6, <1>7

\* A page whose values all come before a value is left for the next one.
LEMMA LeavesBefore ==
    ASSUME RestUp, NEW p \in 1..Len(pages), 0 \in DOMAIN pages[p].cells, Entries(p) > 0,
           NEW k \in 1..Len(values), FirstId(p) + Entries(p) < k
    PROVE  GoesOn(p, values[k])
<1>1. /\ Entries(p) \in Nat /\ FirstId(p) \in 1..Len(values) /\ pages[p].cells[0].str = values[FirstId(p)]
  BY EntryHolds
<1>. DEFINE n == Entries(p)
            id == FirstId(p)
<1>2. n \in 1..n /\ id < k /\ id + n # k
  BY <1>1
<1>3. Position(p, values[k], n) = "after"
  <2>1. Position(p, values[k], n) = IF id + n = k THEN "equal" ELSE IF id + n < k THEN "after" ELSE "before"
    BY <1>2, EntryPosition
  <2>. QED  BY <1>2, <2>1
<1>4. values[k] # pages[p].cells[0].str
  BY <1>1, <1>2, ValuesDiffer
<1>. QED  BY <1>3, <1>4 DEF GoesOn

\* A value on a page is its first one, or its index has an entry for it.
LEMMA CellHolds ==
    ASSUME RestUp, NEW p \in 1..Len(pages), NEW o \in DOMAIN pages[p].cells
    PROVE  \E e : HoldsAt(p, e, pages[p].cells[o].id)
<1>. DEFINE k == pages[p].cells[o].id
<1>1. /\ SoundCells(pages[p], values) /\ EntriesLead(pages[p], slots[p]) /\ Packed(pages[p], slots[p])
      /\ Len(slots[p]) \in Nat /\ DOMAIN pages[p].cells \subseteq Nat
  <2>1. PageContent(kind, pages[p], slots[p], values) /\ SoundPage(kind, pages[p], slots[p], sizes[p])
    BY DEF RestUp, Rest, DictionaryInv, ContentInv, Contents, LoaderInv, PagesInv, AllSound
  <2>2. Packed(pages[p], slots[p])
    BY DEF RestUp, PackedInv, Good
  <2>. QED  BY <2>1, <2>2 DEF PageContent, SoundPage, IsSequence, IsPage, RestUp
<1>2. 0 \in DOMAIN pages[p].cells /\ k \in Nat
  BY <1>1 DEF SoundCells
<1>3. CASE o = 0
  <2>1. 0 \in 0..Entries(p) /\ FirstId(p) + 0 = k
    BY <1>1, <1>2, <1>3 DEF FirstId, Entries
  <2>. QED  BY <1>2, <2>1 DEF HoldsAt
<1>4. CASE o # 0
  <2>1. PICK e \in 1..Len(slots[p]) : slots[p][e] = o
    BY <1>1, <1>4 DEF Packed
  <2>2. o # Unwritten
    BY <1>1 DEF Unwritten
  <2>3. FirstId(p) + e = k
    BY <1>1, <2>1, <2>2 DEF EntriesLead, FirstId
  <2>4. e \in 0..Entries(p)
    BY <1>1, <2>1 DEF Entries
  <2>. QED  BY <1>2, <2>3, <2>4 DEF HoldsAt
<1>. QED  BY <1>3, <1>4

\* Every value is on a page, and its index leads to it.
LEMMA ValueOnPage ==
    ASSUME RestUp, NEW k \in 1..Len(values)
    PROVE  PageOf(k) \in 1..Len(pages) /\ \E e : HoldsAt(PageOf(k), e, k)
<1>. DEFINE On(p) == \E o \in DOMAIN pages[p].cells : pages[p].cells[o].id = k
            P == PageOf(k)
<1>1. k \in DOMAIN index
  <2>1. Good /\ pos = Len(values) + 1 /\ DOMAIN index = 1..KnownIds /\ Len(values) \in Nat
    BY DEF RestUp, Rest, KnowInv, Good, DictionaryInv, LoaderInv, LoaderTypes
  <2>2. KnownIds = pos - 1
    BY DEF RestUp, KnownIds
  <2>. QED  BY <2>1, <2>2
<1>2. LeafTo(index[k], k)
  BY <1>1 DEF RestUp, Rest, DictionaryInv, LeavesInv
<1>3. \E p \in 1..Len(pages) : On(p)
  <2>. DEFINE p == LeafPage(index[k])
              m == LeafOffset(index[k])
  <2>1. Leads(kind, pages, slots, values, p, m, k)
    BY <1>2 DEF LeafTo, LeadsTo, AnnouncedAt, RestUp, Dynamic
  <2>. HIDE DEF p, m
  <2>2. p \in 1..Len(pages) /\ LeadsOn(kind, pages[p], slots[p], values, m, k)
    BY <2>1 DEF Leads
  <2>. QED  BY <2>2 DEF LeadsOn, RestUp
<1>4. P = CHOOSE p \in 1..Len(pages) : On(p)
  BY DEF PageOf
<1>5. P \in 1..Len(pages) /\ On(P)
  <2>. HIDE DEF P, On
  <2>. QED  BY <1>3, <1>4
<1>. HIDE DEF P
<1>6. \E e : HoldsAt(P, e, k)
  BY <1>5, CellHolds
<1>. QED  BY <1>5, <1>6 DEF P

\* The search for value k from page p on finds it, and page p does not start behind it.
FoundFrom(p, k) ==
    /\ 0 \in DOMAIN pages[p].cells /\ FirstId(p) <= k
    /\ HasId(IndexSearch(p, values[k]).it) /\ GetId(IndexSearch(p, values[k]).it) = k

\* One page further to the front.
LEMMA ReachedBefore ==
    ASSUME RestUp, NEW p \in 1..(Len(pages) - 1), NEW k \in 1..Len(values), Entries(p) > 0, FoundFrom(p + 1, k)
    PROVE  FoundFrom(p, k)
<1>1. /\ Len(pages) \in Nat /\ Links(pages, Len(pages)) /\ pos \in Nat
  BY RestChain DEF RestUp
<1>2. p \in 1..Len(pages) /\ p + 1 \in 1..Len(pages) /\ p # Len(pages)
  BY <1>1
<1>3. 0 \in DOMAIN pages[p].cells /\ LeftFull(pages, slots, p, Upcoming)
  BY FrontHasFirst DEF RestUp, Rest, PackedInv, Good
<1>4. /\ Entries(p) \in Nat /\ FirstId(p) \in 1..Len(values)
  BY <1>2, <1>3, EntryHolds
<1>5. FirstId(p + 1) = FirstId(p) + Entries(p) + 1
  BY <1>2, <1>3 DEF LeftFull, StartOf, FoundFrom, FirstId, Entries
<1>6. FirstId(p) + Entries(p) < k /\ FirstId(p) <= k
  <2>. DEFINE a == FirstId(p)
              b == Entries(p)
              c == FirstId(p + 1)
  <2>1. c <= k /\ c = a + b + 1 /\ a \in Nat /\ b \in Nat /\ k \in Nat
    BY <1>4, <1>5 DEF FoundFrom
  <2>. HIDE DEF a, b, c
  <2>2. a + b < k /\ a <= k
    BY <2>1
  <2>. QED  BY <2>2 DEF a, b
<1>7. GoesOn(p, values[k])
  BY <1>2, <1>3, <1>6, LeavesBefore
<1>8. IndexSearch(p, values[k]) = IndexSearch(p + 1, values[k])
  <2>. DEFINE str == values[k]
  <2>1. IndexSearch(p, str) = IF ~GoesOn(p, str) THEN [fails |-> FALSE, it |-> SearchOn(p, str)]
                              ELSE IF p = Len(pages) THEN [fails |-> TRUE, it |-> NullIterator]
                              ELSE IndexSearch(p + 1, str)
    <3>. HIDE DEF str
    <3>. QED  BY <1>1, <1>2, IndexSearchIs
  <2>. QED  BY <1>2, <1>7, <2>1
<1>. QED  BY <1>3, <1>6, <1>8 DEF FoundFrom

LEMMA ReachesFrom ==
    ASSUME RestUp, NEW k \in 1..Len(values), NEW p \in 1..PageOf(k),
           \A q \in p..(PageOf(k) - 1) : Entries(q) > 0
    PROVE  FoundFrom(p, k)
<1>. DEFINE P == PageOf(k)
<1>1. /\ Len(pages) \in Nat /\ Links(pages, Len(pages)) /\ P \in 1..Len(pages) /\ P \in Nat /\ p \in Nat
      /\ p <= P /\ 1 <= p
  <2>1. Len(pages) \in Nat /\ Links(pages, Len(pages))
    BY RestChain DEF RestUp
  <2>2. P \in 1..Len(pages)
    BY ValueOnPage
  <2>. QED  BY <2>1, <2>2
<1>2. PICK e : HoldsAt(P, e, k)
  BY ValueOnPage
<1>3. FoundFrom(P, k)
  <2>1. ~GoesOn(P, values[k]) /\ HasId(SearchOn(P, values[k])) /\ GetId(SearchOn(P, values[k])) = k
    BY <1>1, <1>2, FoundOnPage
  <2>2. IndexSearch(P, values[k]) = [fails |-> FALSE, it |-> SearchOn(P, values[k])]
    <3>. DEFINE str == values[k]
    <3>1. IndexSearch(P, str) = IF ~GoesOn(P, str) THEN [fails |-> FALSE, it |-> SearchOn(P, str)]
                                ELSE IF P = Len(pages) THEN [fails |-> TRUE, it |-> NullIterator]
                                ELSE IndexSearch(P + 1, str)
      <4>. HIDE DEF str, P
      <4>. QED  BY <1>1, IndexSearchIs
    <3>. QED  BY <2>1, <3>1
  <2>3. 0 \in DOMAIN pages[P].cells /\ FirstId(P) <= k
    <3>1. 0 \in DOMAIN pages[P].cells /\ FirstId(P) + e = k /\ e \in 0..Entries(P)
      BY <1>2 DEF HoldsAt
    <3>2. Entries(P) \in Nat /\ FirstId(P) \in 1..Len(values)
      BY <1>1, <3>1, EntryHolds
    <3>. DEFINE a == FirstId(P)
    <3>3. a \in Nat /\ e \in Nat /\ a + e = k
      BY <3>1, <3>2
    <3>. HIDE DEF a
    <3>4. a <= k
      BY <3>3
    <3>. QED  BY <3>1, <3>4 DEF a
  <2>. QED  BY <2>1, <2>2, <2>3 DEF FoundFrom
<1>. HIDE DEF P
<1>4. \A q \in p..(P - 1) : Entries(q) > 0
  BY DEF P
<1>. DEFINE Bad == { m \in Nat : m <= P - p /\ ~FoundFrom(P - m, k) }
<1>5. ASSUME Bad # {} PROVE FALSE
  <2>1. PICK m \in Bad : \A j \in Bad : m <= j
    <3>1. Bad \in SUBSET Nat
      OBVIOUS
    <3>. HIDE DEF Bad
    <3>. QED  BY <1>5, <3>1, LeastElement
  <2>2. m \in Nat /\ m <= P - p /\ ~FoundFrom(P - m, k)
    OBVIOUS
  <2>3. m # 0
    <3>1. P - 0 = P
      BY <1>1
    <3>. QED  BY <1>3, <2>2, <3>1
  <2>. DEFINE q == P - m
  <2>4. m - 1 \in Nat /\ m - 1 <= P - p /\ P - (m - 1) = q + 1 /\ ~(m <= m - 1)
        /\ q \in p..(P - 1) /\ q \in 1..(Len(pages) - 1)
    BY <1>1, <2>2, <2>3
  <2>. HIDE DEF q
  <2>5. FoundFrom(q + 1, k)
    <3>1. m - 1 \notin Bad
      <4>. HIDE DEF Bad
      <4>. QED  BY <2>1, <2>4
    <3>. QED  BY <2>4, <3>1
  <2>6. FoundFrom(q, k)
    BY <1>4, <2>4, <2>5, ReachedBefore
  <2>. QED  BY <2>2, <2>6 DEF q
<1>. DEFINE m == P - p
<1>6. m \in Nat /\ m <= P - p /\ P - m = p
  BY <1>1
<1>7. m \notin Bad
  BY <1>5
<1>. HIDE DEF m
<1>. QED  BY <1>6, <1>7

\* What the bottom-up pages are in every reachable state.
UpInv == DictionaryInv /\ ChainInv /\ TailInv /\ KnowInv /\ PackedInv

LEMMA UpInvariant ==
    ASSUME FitsWidths, LeavesFit
    PROVE  Spec => []UpInv
<1>1. Init => UpInv
  <2>1. Init => TailInv
    BY DEF Init, LoaderInit, TailInv, Busy
  <2>. QED  BY <2>1, InitInv, DictionaryInit, ChainInit, KnowInit, PackedInit DEF DictionaryInv, UpInv
<1>2. UpInv /\ [Next]_vars => UpInv'
  <2>. SUFFICES ASSUME UpInv, [Next]_vars PROVE UpInv'
    OBVIOUS
  <2>. USE DEF UpInv
  <2>1. DictionaryInv' /\ ChainInv' /\ TailInv' /\ PackedInv'
    BY DictionaryStep, ChainStep, TailStep, PackedStep
  <2>2. KnowInv'
    BY KnowStep DEF DictionaryInv
  <2>. QED  BY <2>1, <2>2
<1>. QED  BY <1>1, <1>2, PTL DEF Spec

\* indexSearch of bottom-up pages (Page.hpp) finds every value that was loaded,
\* whatever page in front of it the search starts on: the binary search over the
\* index of a page decides for each delta on which side of it the string lies,
\* and the last delta of a page tells whether to go on to the next one.  Only a
\* page without deltas between the two stops the search.
THEOREM SearchesReach ==
    ASSUME FitsWidths, LeavesFit, SortedInputs
    PROVE  Spec => []SearchReaches
<1>1. UpInv => SearchReaches
  <2>. SUFFICES ASSUME UpInv, Loaded, kind = "bottomup", NEW k \in 1..Len(values), NEW p \in 1..PageOf(k),
                       \A q \in p..(PageOf(k) - 1) : Entries(q) > 0
                PROVE  HasId(IndexSearch(p, values[k]).it) /\ GetId(IndexSearch(p, values[k]).it) = k
    BY DEF SearchReaches
  <2>1. values \in Inputs
    BY DEF UpInv, DictionaryInv, ContentInv, Loaded
  <2>2. RestUp
    BY <2>1 DEF RestUp, Rest, AtRest, UpInv, Loaded, SortedInputs
  <2>. QED  BY <2>2, ReachesFrom DEF FoundFrom
<1>. QED  BY <1>1, UpInvariant, PTL

-----------------------------------------------------------------------------
(* The keys of the sparse tree.                                            *)

\* The callback runs with so many values on the page.
CallsFor(number) == pc = "callback" /\ deltaNumber = number

\* The tree D has the first value of every page, and the value in front of it if
\* that starts with the same character.  On page c one of them may still be due.
Bridges(ps, up, D, vs, c, first, before) ==
    /\ \A p \in 1..Len(ps) :
          0 \in DOMAIN ps[p].cells => vs[ps[p].cells[0].id] \in D \/ (p = c /\ first)
    /\ \A p \in 2..Len(ps) :
          LET i == StartOf(ps, p, up)
          IN  (FirstChar(vs[i]) = FirstChar(vs[i-1]) => vs[i-1] \in D) \/ (p = c /\ before)

\* Only first values are on the pages.
PlainPages(ps) == \A p \in 1..Len(ps) : DOMAIN ps[p].cells \subseteq {0}

\* As long as no delta was written, a page has no more than its first value.  What
\* is due is what the callback was called with.
BridgeInv ==
    kind = "bottomup" /\ Good =>
        /\ valuePtr = NoPointer => PlainPages(pages)
        /\ Bridges(pages, pos, DOMAIN reverseIndex, values, current, CallsFor(1), CallsFor(0))
        /\ CallsFor(0) => pending.delta = 0 /\ pending.id = pos - 1
        /\ CallsFor(1) => pending.delta = 1 /\ pending.id = pos

\* Other cells do not matter, and a pending value that is no longer due can be looked for.
LEMMA BridgesSame ==
    ASSUME NEW ps, NEW qs, NEW D, NEW vs, NEW c, NEW a, NEW b, NEW i, NEW k, Bridges(ps, i, D, vs, c, a, b),
           SameCells(qs, ps), k = i \/ \A p \in 2..Len(ps) : 0 \in DOMAIN ps[p].cells,
           Len(ps) \in Nat
    PROVE  Bridges(qs, k, D, vs, c, a, b)
<1>1. Len(qs) = Len(ps) /\ \A p \in 1..Len(ps) : qs[p].cells = ps[p].cells
  BY DEF SameCells
<1>2. ASSUME NEW p \in 2..Len(ps)
      PROVE  StartOf(qs, p, k) = StartOf(ps, p, i)
  <2>1. p \in 1..Len(ps)
    OBVIOUS
  <2>. QED  BY <1>1, <2>1 DEF StartOf
<1>3. ASSUME NEW p \in 1..Len(qs), 0 \in DOMAIN qs[p].cells
      PROVE  vs[qs[p].cells[0].id] \in D \/ (p = c /\ a)
  BY <1>1, <1>3 DEF Bridges
<1>4. ASSUME NEW p \in 2..Len(qs)
      PROVE  LET j == StartOf(qs, p, k)
             IN  (FirstChar(vs[j]) = FirstChar(vs[j-1]) => vs[j-1] \in D) \/ (p = c /\ b)
  BY <1>1, <1>2, <1>4 DEF Bridges
<1>. QED  BY <1>3, <1>4 DEF Bridges

LEMMA BridgeOpenPage ==
    ASSUME LoaderInv, ContentInv, ChainInv, PackedInv, BridgeInv, OpenPage, UNCHANGED reverseIndex
    PROVE  BridgeInv'
<1>. SUFFICES ASSUME kind = "bottomup", Good' PROVE BridgeInv'
  BY DEF BridgeInv, OpenPage
<1>. DEFINE qs == pages'
            n == Len(pages)
            D == DOMAIN reverseIndex
            alike == FirstChar(values[pos]) = FirstChar(values[pos - 1])
<1>1. /\ pc = "loop" /\ PageComplete /\ qs = PagesAndNew /\ UNCHANGED <<kind, pos, values, valuePtr>>
      /\ deltaNumber' = 0 /\ current' = n + 1
      /\ IF RetroInserts(current) THEN Callback(current, 0, valuePtr.off, pos - 1) ELSE pc' = "open"
  BY DEF OpenPage, Looping, Good
<1>2. n \in Nat /\ current = n /\ Good /\ \A p \in 1..n : IsPage(pages[p]) /\ IsSequence(slots[p])
  BY <1>1 DEF LoaderInv, PagesInv, AllSound, SoundPage, IsSequence, ContentInv, Good
<1>3. /\ valuePtr = NoPointer => PlainPages(pages)
      /\ Bridges(pages, pos, D, values, n, FALSE, FALSE)
  <2>1. ~CallsFor(0) /\ ~CallsFor(1)
    BY <1>1 DEF CallsFor
  <2>. QED  BY <1>2, <2>1 DEF BridgeInv, Bridges
<1>4. /\ Len(qs) = n + 1 /\ DOMAIN qs[n + 1].cells = {} /\ \A p \in 1..n : qs[p].cells = pages[p].cells
  <2>1. WithNew(qs, pages)
    BY <1>1, LinkedSame
  <2>. QED  BY <2>1, EmptyPageProperties DEF WithNew
<1>5. PackedInv'
  BY PackedOpenPage
<1>6. \A p \in 1..n : 0 \in DOMAIN pages[p].cells
  <2>1. n # 0 => 0 \in DOMAIN pages[n].cells
    BY <1>1, <1>2, LeavesValue DEF Null
  <2>. QED  BY <1>2, <2>1, FrontHasFirst
<1>7. RetroInserts(current) <=> n # 0 /\ valuePtr # NoPointer /\ alike
  BY <1>2 DEF RetroInserts, Null
<1>8. ASSUME n # 0, valuePtr = NoPointer
      PROVE  values[pos - 1] \in D
  <2>1. n \in 1..n /\ n \in 1..((n + 1) - 1)
    BY <1>2, <1>8
  <2>2. DOMAIN pages[n].cells \subseteq {0} /\ EntriesLead(pages[n], slots[n]) /\ Len(slots[n]) \in Nat
    BY <1>2, <1>3, <1>8, <2>1 DEF PlainPages, ContentInv, Contents, PageContent, IsSequence
  <2>3. LeftFull(qs, slots', n, Upcoming') /\ slots'[n] = slots[n]
    <3>1. LeftFull(qs, slots', n, Upcoming')
      BY <1>1, <1>4, <1>5, <2>1 DEF PackedInv
    <3>2. IsSequence(slots) /\ Len(slots) = n /\ \E slot : slots' = Append(slots, slot)
      BY DEF OpenPage, LoaderInv, PagesInv, AllSound
    <3>3. slots'[n] = slots[n]
      BY <2>1, <3>2, AppendSequence
    <3>. QED  BY <3>1, <3>3
  <2>4. Upcoming' = pos
    BY <1>1 DEF Upcoming
  <2>5. StartOf(qs, n + 1, pos) = pos
    BY <1>4 DEF StartOf
  <2>6. Filled(slots[n]) /\ pos = qs[n].cells[0].id + Len(slots[n]) + 1
    BY <2>3, <2>4, <2>5 DEF LeftFull
  <2>7. Len(slots[n]) = 0
    <3>. SUFFICES ASSUME Len(slots[n]) # 0 PROVE FALSE
      OBVIOUS
    <3>1. 1 \in 1..Len(slots[n])
      BY <2>2
    <3>2. slots[n][1] # Unwritten
      BY <2>6, <3>1 DEF Filled
    <3>. QED  BY <2>2, <3>1, <3>2 DEF EntriesLead
  <2>8. qs[n].cells[0].id = pages[n].cells[0].id /\ pages[n].cells[0].id \in Nat
    BY <1>2, <1>4, <1>6, <2>1 DEF IsPage, Cells
  <2>9. pos - 1 = pages[n].cells[0].id
    BY <2>6, <2>7, <2>8
  <2>. QED  BY <1>3, <1>6, <2>1, <2>9 DEF Bridges
<1>9. CallsFor(0)' <=> n # 0 /\ valuePtr # NoPointer /\ alike
  <2>1. CallsFor(0)' <=> RetroInserts(current)
    BY <1>1 DEF CallsFor, Callback
  <2>. QED  BY <1>7, <2>1
<1>10. /\ CallsFor(0)' => pending'.delta = 0 /\ pending'.id = pos' - 1
       /\ ~CallsFor(1)'
  <2>1. CallsFor(0)' => pending'.delta = 0 /\ pending'.id = pos' - 1
    BY <1>1, <1>7, <1>9 DEF Callback
  <2>. QED  BY <1>1, <2>1 DEF CallsFor
<1>. DEFINE b == CallsFor(0)'
<1>. HIDE DEF qs, alike, b
<1>11. PlainPages(pages) => PlainPages(qs)
  <2>1. \A p \in 1..(n + 1) : p \in 1..n \/ p = n + 1
    BY <1>2
  <2>. QED  BY <1>4, <2>1 DEF PlainPages
<1>12. Bridges(qs, pos, D, values, n + 1, FALSE, b)
  <2>1. ASSUME NEW p \in 1..Len(qs), 0 \in DOMAIN qs[p].cells
        PROVE  values[qs[p].cells[0].id] \in D
    <3>1. p \in 1..n
      BY <1>2, <1>4, <2>1
    <3>. QED  BY <1>3, <1>4, <2>1, <3>1 DEF Bridges
  <2>2. ASSUME NEW p \in 2..Len(qs)
        PROVE  LET i == StartOf(qs, p, pos)
               IN  (FirstChar(values[i]) = FirstChar(values[i-1]) => values[i-1] \in D) \/ (p = n + 1 /\ b)
    <3>1. CASE p = n + 1
      <4>1. StartOf(qs, p, pos) = pos /\ n # 0
        BY <1>2, <1>4, <3>1 DEF StartOf
      <4>. QED  BY <1>8, <1>9, <3>1, <4>1 DEF alike, b
    <3>2. CASE p # n + 1
      <4>1. p \in 2..n /\ p \in 1..n /\ p \in 1..Len(qs)
        BY <1>2, <1>4, <3>2
      <4>2. StartOf(qs, p, pos) = StartOf(pages, p, pos)
        BY <1>4, <4>1 DEF StartOf
      <4>. QED  BY <1>3, <4>1, <4>2 DEF Bridges
    <3>. QED  BY <3>1, <3>2
  <2>. QED  BY <2>1, <2>2 DEF Bridges
<1>13. Bridges(qs, pos, D, values, n + 1, CallsFor(1)', b)
  BY <1>12 DEF Bridges
<1>. QED  BY <1>1, <1>3, <1>10, <1>11, <1>13 DEF BridgeInv, qs, b

LEMMA BridgeWriteFull ==
    ASSUME LoaderInv, ContentInv, BridgeInv, WriteFull, UNCHANGED reverseIndex
    PROVE  BridgeInv'
<1>. SUFFICES ASSUME kind = "bottomup" PROVE BridgeInv'
  BY DEF BridgeInv, WriteFull
<1>. DEFINE cell == FullCell(pos, values[pos])
            q == WithCell(pages[current], 0, cell)
            qs == pages'
            n == Len(pages)
            D == DOMAIN reverseIndex
<1>1. /\ pc = "open" /\ qs = [pages EXCEPT ![current] = q] /\ UNCHANGED <<kind, current, values, valuePtr, pos>>
      /\ pc' = "callback" /\ deltaNumber' = 1 /\ pending'.delta = 1 /\ pending'.id = pos
  BY DEF WriteFull, Dynamic, Callback
<1>2. /\ n \in Nat /\ current = n /\ Good /\ n \in 1..n /\ IsSequence(pages) /\ IsPage(pages[n])
      /\ DOMAIN pages[n].cells = {}
  <2>1. current # Null /\ deltaNumber = 0 /\ Busy
    BY <1>1 DEF LoaderInv, StepInv, Busy
  <2>2. /\ n \in Nat /\ current = n /\ Good /\ n \in 1..n /\ IsSequence(pages) /\ IsPage(pages[n])
    BY <1>1, <2>1 DEF LoaderInv, PagesInv, AllSound, SoundPage, IsSequence, ContentInv, Good, Null
  <2>3. \A o \in DOMAIN pages[n].cells : o \in Nat /\ o < 0
    BY <2>1, <2>2 DEF ContentInv, CurrentInv, IsPage
  <2>. QED  BY <2>2, <2>3
<1>3. q.cells[0].id = pos /\ DOMAIN q.cells = {0}
  <2>1. /\ DOMAIN q.cells = (DOMAIN pages[current].cells) \union {0} /\ q.cells[0] = cell
    <3>1. pos \in Nat /\ values[pos] \in Strings
      BY <1>1 DEF LoaderInv, StepInv, LoaderTypes
    <3>2. cell \in Cells
      BY <3>1, FullCellProperties
    <3>3. IsPage(pages[current]) /\ 0 \in Nat /\ 0 \notin DOMAIN pages[current].cells
      BY <1>2
    <3>. HIDE DEF cell
    <3>. QED  BY <3>2, <3>3, CellAdded
  <2>. QED  BY <1>2, <2>1 DEF FullCell
<1>. HIDE DEF q, qs
<1>4. Len(qs) = n /\ qs[n] = q /\ \A p \in 1..n : p # n => qs[p] = pages[p]
  <2>1. Replaced(qs, pages, current, q)
    BY <1>1, <1>2, ReplacedEntry
  <2>. QED  BY <1>2, <2>1 DEF Replaced
<1>5. /\ valuePtr = NoPointer => PlainPages(pages)
      /\ Bridges(pages, pos, D, values, n, FALSE, FALSE)
  <2>1. ~CallsFor(0) /\ ~CallsFor(1)
    BY <1>1 DEF CallsFor
  <2>. QED  BY <1>2, <2>1 DEF BridgeInv, Bridges
<1>6. PlainPages(pages) => PlainPages(qs)
  BY <1>3, <1>4 DEF PlainPages
<1>7. Bridges(qs, pos, D, values, n, TRUE, FALSE)
  <2>1. ASSUME NEW p \in 1..Len(qs), 0 \in DOMAIN qs[p].cells
        PROVE  values[qs[p].cells[0].id] \in D \/ p = n
    BY <1>4, <1>5, <2>1 DEF Bridges
  <2>2. ASSUME NEW p \in 2..Len(qs)
        PROVE  StartOf(qs, p, pos) = StartOf(pages, p, pos)
    <3>1. p \in 1..n /\ p \in 1..Len(qs)
      BY <1>2, <1>4
    <3>. QED  BY <1>2, <1>3, <1>4, <3>1 DEF StartOf
  <2>. QED  BY <1>4, <1>5, <2>1, <2>2 DEF Bridges
<1>8. CallsFor(1)' /\ ~CallsFor(0)'
  BY <1>1 DEF CallsFor
<1>9. Bridges(qs, pos, D, values, n, CallsFor(1)', CallsFor(0)')
  BY <1>7, <1>8 DEF Bridges
<1>. QED  BY <1>1, <1>2, <1>5, <1>6, <1>8, <1>9 DEF BridgeInv, qs

LEMMA BridgeWriteDelta ==
    ASSUME FitsWidths, LeavesFit, LoaderInv, ContentInv, BridgeInv, WriteDelta, UNCHANGED reverseIndex
    PROVE  BridgeInv'
<1>. SUFFICES ASSUME kind = "bottomup" PROVE BridgeInv'
  BY DEF BridgeInv, WriteDelta
<1>. DEFINE cell == DeltaCell(pos, Ref, values[pos])
            q == WithCell(pages[current], dataPtr, cell)
            qs == pages'
            n == Len(pages)
            D == DOMAIN reverseIndex
<1>1. /\ pc = "loop" /\ qs = [pages EXCEPT ![current] = q] /\ UNCHANGED <<kind, current, values, pos>>
      /\ deltaNumber' = deltaNumber + 1 /\ valuePtr' = [page |-> current, off |-> dataPtr]
  BY DEF WriteDelta, Looping
<1>2. /\ Takes(kind, pages[current], slots[current], values, deltaNumber, dataPtr, pos)
      /\ IsValue(values, pos, values[pos])
      /\ current \in 1..n /\ deltaNumber \in 1..Len(slots[current])
  BY DeltaDue DEF Unindexed
<1>3. /\ n \in Nat /\ current = n /\ Good /\ IsSequence(pages) /\ Len(slots[current]) \in Nat
  BY <1>1, <1>2 DEF LoaderInv, PagesInv, AllSound, SoundPage, IsSequence, ContentInv, Good
<1>4. /\ DOMAIN q.cells = DOMAIN pages[current].cells \union {dataPtr} /\ q.cells[0] = pages[current].cells[0]
      /\ 0 \in DOMAIN pages[current].cells
  <2>1. 0 \in DOMAIN pages[current].cells /\ dataPtr # 0 /\ IsPage(pages[current]) /\ dataPtr \in Nat
        /\ dataPtr \notin DOMAIN pages[current].cells /\ pages[current].cells[0].str \in Strings
    BY <1>2 DEF Takes
  <2>2. cell \in Cells
    <3>. DEFINE r == pages[current].cells[0].str
                v == values[pos]
    <3>1. pos \in Nat /\ r \in Strings /\ v \in Strings
      BY <1>2, <2>1 DEF IsValue
    <3>2. DeltaCell(pos, r, v) \in Cells
      <4>. HIDE DEF r, v
      <4>. QED  BY <3>1, DeltaCellProperties
    <3>. QED  BY <3>2 DEF Ref
  <2>. HIDE DEF cell
  <2>3. /\ DOMAIN q.cells = (DOMAIN pages[current].cells) \union {dataPtr}
        /\ CellsStay(q, pages[current])
    BY <2>1, <2>2, CellAdded
  <2>. QED  BY <2>1, <2>3 DEF CellsStay
<1>. HIDE DEF q, qs
<1>5. Len(qs) = n /\ qs[n] = q /\ \A p \in 1..n : p # n => qs[p] = pages[p]
  <2>1. Replaced(qs, pages, current, q)
    BY <1>1, <1>2, <1>3, ReplacedEntry
  <2>. QED  BY <1>2, <1>3, <2>1 DEF Replaced
<1>6. Bridges(pages, pos, D, values, n, FALSE, FALSE)
  <2>1. ~CallsFor(0) /\ ~CallsFor(1)
    BY <1>1 DEF CallsFor
  <2>. QED  BY <1>3, <2>1 DEF BridgeInv, Bridges
<1>7. Bridges(qs, pos, D, values, n, FALSE, FALSE)
  <2>1. ASSUME NEW p \in 1..n
        PROVE  /\ 0 \in DOMAIN qs[p].cells <=> 0 \in DOMAIN pages[p].cells
               /\ qs[p].cells[0] = pages[p].cells[0]
    BY <1>3, <1>4, <1>5
  <2>2. ASSUME NEW p \in 2..Len(qs)
        PROVE  StartOf(qs, p, pos) = StartOf(pages, p, pos)
    <3>1. p \in 1..n /\ p \in 1..Len(qs)
      BY <1>3, <1>5
    <3>. QED  BY <1>5, <2>1, <3>1 DEF StartOf
  <2>. QED  BY <1>5, <1>6, <2>1, <2>2 DEF Bridges
<1>8. ~CallsFor(1)' /\ ~CallsFor(0)'
  <2>1. deltaNumber + 1 # 1 /\ deltaNumber + 1 # 0
    BY <1>2, <1>3
  <2>. QED  BY <1>1, <2>1 DEF CallsFor
<1>9. valuePtr' # NoPointer
  <2>1. current # Null
    BY <1>2, <1>3 DEF Null
  <2>2. valuePtr'.page # NoPointer.page
    BY <1>1, <2>1 DEF NoPointer
  <2>. QED  BY <2>2
<1>10. Bridges(qs, pos, D, values, n, CallsFor(1)', CallsFor(0)')
  BY <1>7, <1>8 DEF Bridges
<1>. QED  BY <1>1, <1>3, <1>8, <1>9, <1>10 DEF BridgeInv, qs

LEMMA BridgeFinish ==
    ASSUME LoaderInv, ContentInv, BridgeInv, Finish, UNCHANGED reverseIndex
    PROVE  BridgeInv'
<1>. SUFFICES ASSUME kind = "bottomup", Good' PROVE BridgeInv'
  BY DEF BridgeInv, Finish
<1>1. pc = "loop" /\ pc' = "ready" /\ pages' = Completed
      /\ UNCHANGED <<kind, current, values, valuePtr, pos, deltaNumber>>
  BY DEF Finish, Good
<1>. DEFINE qs == pages'
            D == DOMAIN reverseIndex
<1>2. Good /\ Len(pages) \in Nat
  BY <1>1 DEF Good, LoaderInv, PagesInv, AllSound, IsSequence
<1>3. SameCells(qs, pages)
  BY <1>1, CompletedSame DEF SameCells
<1>4. ~CallsFor(0) /\ ~CallsFor(1) /\ ~CallsFor(0)' /\ ~CallsFor(1)'
  BY <1>1 DEF CallsFor
<1>5. /\ valuePtr = NoPointer => PlainPages(pages)
      /\ Bridges(pages, pos, D, values, current, FALSE, FALSE)
  BY <1>2, <1>4 DEF BridgeInv, Bridges
<1>. HIDE DEF qs
<1>6. Bridges(qs, pos, D, values, current, FALSE, FALSE)
  BY <1>2, <1>3, <1>5, BridgesSame
<1>7. PlainPages(pages) => PlainPages(qs)
  BY <1>3 DEF PlainPages, SameCells
<1>8. Bridges(qs, pos, D, values, current, CallsFor(1)', CallsFor(0)')
  BY <1>4, <1>6 DEF Bridges
<1>. QED  BY <1>1, <1>4, <1>5, <1>7, <1>8 DEF BridgeInv, qs

LEMMA BridgeInsertReverse ==
    ASSUME LoaderInv, ContentInv, PendingInv, KnowInv, BridgeInv, InsertReverse
    PROVE  BridgeInv'
<1>. SUFFICES ASSUME kind = "bottomup", Good' PROVE BridgeInv'
  BY DEF BridgeInv, InsertReverse
<1>. DEFINE n == Len(pages)
            D == DOMAIN reverseIndex
            v == pending.value
<1>1. /\ pc = "callback" /\ ForReverse /\ v \notin D
      /\ reverseIndex' = With(reverseIndex, v, ReverseLeaf)
      /\ UNCHANGED <<pages, kind, values, current, deltaNumber, valuePtr, pending>>
      /\ IF ForIndex THEN pc' = "indexed" /\ UNCHANGED pos ELSE Return
  BY DEF InsertReverse, Good
<1>2. pc' \in {"indexed", "open"} /\ pos' = pos
  <2>1. ~ForIndex => deltaNumber = 0
    BY <1>1 DEF KnowInv, CalledFor
  <2>. QED  BY <1>1, <2>1 DEF Return
<1>3. /\ Good /\ n \in Nat /\ current = n /\ Busy /\ current # Null /\ pos \in Nat /\ n \in 1..n
      /\ IsPage(pages[n])
  BY <1>1 DEF Good, LoaderInv, LoaderTypes, PagesInv, AllSound, SoundPage, IsSequence, ContentInv, StepInv, Busy, Null
<1>4. DOMAIN reverseIndex' = D \union {v} /\ v = values[pending.id]
  <2>1. DOMAIN With(reverseIndex, v, ReverseLeaf) = D \union {v}
    BY DEF With
  <2>. QED  BY <1>1, <2>1 DEF PendingInv
<1>5. /\ valuePtr = NoPointer => PlainPages(pages)
      /\ Bridges(pages, pos, D, values, n, CallsFor(1), CallsFor(0))
      /\ CallsFor(0) => pending.id = pos - 1
      /\ CallsFor(1) => pending.id = pos
  BY <1>3 DEF BridgeInv
<1>6. deltaNumber = 0 => 0 \notin DOMAIN pages[n].cells
  BY <1>3 DEF ContentInv, CurrentInv
<1>7. deltaNumber = 1 => pages[n].cells[0].id = pos
  <2>1. deltaNumber = 1 => First = pos
    BY <1>1, <1>3 DEF First
  <2>. QED  BY <1>3, <2>1 DEF ContentInv, CurrentInv
<1>. DEFINE E == DOMAIN reverseIndex'
            a == CallsFor(1)
            b == CallsFor(0)
<1>8. (a => deltaNumber = 1) /\ (b => deltaNumber = 0)
  BY DEF CallsFor
<1>. HIDE DEF v, D, E, a, b
<1>9. Bridges(pages, pos, E, values, n, FALSE, FALSE)
  <2>1. ASSUME NEW p \in 1..n, 0 \in DOMAIN pages[p].cells
        PROVE  values[pages[p].cells[0].id] \in E
    <3>1. CASE p = n /\ a
      BY <1>4, <1>5, <1>7, <1>8, <3>1 DEF a, E
    <3>2. CASE ~(p = n /\ a)
      <4>1. values[pages[p].cells[0].id] \in D
        BY <1>5, <2>1, <3>2 DEF Bridges, a
      <4>. QED  BY <1>4, <4>1 DEF E
    <3>. QED  BY <3>1, <3>2
  <2>2. ASSUME NEW p \in 2..n
        PROVE  LET i == StartOf(pages, p, pos)
               IN  FirstChar(values[i]) = FirstChar(values[i-1]) => values[i-1] \in E
    <3>1. CASE p = n /\ b
      <4>1. StartOf(pages, p, pos) = pos
        BY <1>6, <1>8, <3>1 DEF StartOf
      <4>2. values[pos - 1] \in E
        BY <1>4, <1>5, <3>1 DEF b, E
      <4>. QED  BY <4>1, <4>2
    <3>2. CASE ~(p = n /\ b)
      <4>1. LET i == StartOf(pages, p, pos)
            IN  FirstChar(values[i]) = FirstChar(values[i-1]) => values[i-1] \in D
        BY <1>5, <3>2 DEF Bridges, b
      <4>. QED  BY <1>4, <4>1 DEF E
    <3>. QED  BY <3>1, <3>2
  <2>. QED  BY <2>1, <2>2 DEF Bridges
<1>10. ~CallsFor(1)' /\ ~CallsFor(0)'
  BY <1>2 DEF CallsFor
<1>11. Bridges(pages, pos, E, values, n, CallsFor(1)', CallsFor(0)')
  BY <1>9, <1>10 DEF Bridges
<1>. QED  BY <1>1, <1>2, <1>3, <1>5, <1>10, <1>11 DEF BridgeInv, E

LEMMA BridgeInsertId ==
    ASSUME LoaderInv, ContentInv, ChainInv, BridgeInv, InsertId
    PROVE  BridgeInv'
<1>. SUFFICES ASSUME kind = "bottomup", Good' PROVE BridgeInv'
  BY DEF BridgeInv, InsertId
<1>. DEFINE n == Len(pages)
            D == DOMAIN reverseIndex
<1>1. /\ pc = "indexed" \/ (pc = "callback" /\ ~ForReverse)
      /\ Return
      /\ UNCHANGED <<pages, kind, values, current, deltaNumber, valuePtr, pending, reverseIndex>>
  BY DEF InsertId
<1>2. /\ Good /\ n \in Nat /\ current = n /\ Busy /\ current # Null /\ n \in 1..n
  BY <1>1 DEF Good, LoaderInv, PagesInv, AllSound, IsSequence, ContentInv, StepInv, LoaderTypes, Busy, Null
<1>3. ~CallsFor(0) /\ ~CallsFor(1)
  BY <1>1, <1>2 DEF BridgeInv, CallsFor, ForReverse
<1>4. /\ valuePtr = NoPointer => PlainPages(pages)
      /\ Bridges(pages, pos, D, values, n, FALSE, FALSE)
  BY <1>2, <1>3 DEF BridgeInv, Bridges
<1>5. pos' = pos \/ \A p \in 2..n : 0 \in DOMAIN pages[p].cells
  <2>1. pos' = pos \/ deltaNumber # 0
    BY <1>1 DEF Return
  <2>2. deltaNumber # 0 => 0 \in DOMAIN pages[n].cells
    BY <1>2 DEF LoaderInv, StepInv, CountedInv, Reached
  <2>3. \A p \in 1..(n - 1) : 0 \in DOMAIN pages[p].cells
    BY <1>2, FrontHasFirst
  <2>. QED  BY <1>2, <2>1, <2>2, <2>3
<1>6. Bridges(pages, pos', D, values, n, FALSE, FALSE)
  <2>. DEFINE k == pos'
  <2>1. SameCells(pages, pages)
    BY DEF SameCells
  <2>2. k = pos \/ \A p \in 2..n : 0 \in DOMAIN pages[p].cells
    BY <1>5
  <2>. HIDE DEF k
  <2>3. Bridges(pages, k, D, values, n, FALSE, FALSE)
    BY <1>2, <1>4, <2>1, <2>2, BridgesSame
  <2>. QED  BY <2>3 DEF k
<1>7. ~CallsFor(1)' /\ ~CallsFor(0)'
  BY <1>1 DEF CallsFor, Return
<1>8. Bridges(pages, pos', D, values, n, CallsFor(1)', CallsFor(0)')
  BY <1>6, <1>7 DEF Bridges
<1>. QED  BY <1>1, <1>2, <1>4, <1>7, <1>8 DEF BridgeInv

LEMMA BridgeBulkInsert ==
    ASSUME LoaderInv, ContentInv, KnowInv, BridgeInv, NEW vs \in Inputs, BulkInsert(vs)
    PROVE  BridgeInv'
<1>. SUFFICES ASSUME kind = "bottomup" PROVE BridgeInv'
  BY DEF BridgeInv, BulkInsert, Load
<1>1. /\ pc = "ready" /\ values = <<>> /\ pc' = "loop"
      /\ UNCHANGED <<pages, kind, pos, current, valuePtr, reverseIndex>>
  BY DEF BulkInsert, Load
<1>2. Good /\ Len(pages) \in Nat
  BY <1>1 DEF Good, LoaderInv, PagesInv, AllSound, IsSequence
<1>3. Len(values) = 0 /\ pos = 1
  BY <1>1 DEF KnowInv
<1>4. Len(pages) <= 1
  BY <1>2, <1>3 DEF ContentInv
<1>5. \A p \in 1..Len(pages) : 0 \notin DOMAIN pages[p].cells
  BY <1>3 DEF ContentInv, Contents, PageContent, SoundCells
<1>6. ~CallsFor(1)' /\ ~CallsFor(0)'
  BY <1>1 DEF CallsFor
<1>. DEFINE ws == values'
            a == CallsFor(1)'
            b == CallsFor(0)'
<1>. HIDE DEF ws, a, b
<1>7. Bridges(pages, pos, DOMAIN reverseIndex, ws, current, a, b)
  BY <1>2, <1>4, <1>5 DEF Bridges
<1>. QED  BY <1>1, <1>2, <1>6, <1>7 DEF BridgeInv, ws, a, b

LEMMA BridgeElsewhere ==
    ASSUME BridgeInv, Lookup \/ UNCHANGED vars
    PROVE  BridgeInv'
<1>. SUFFICES ASSUME Good' PROVE BridgeInv'
  BY DEF BridgeInv
<1>1. pc' = pc /\ UNCHANGED <<pages, kind, values, pos, current, deltaNumber, valuePtr, pending, reverseIndex>>
  <2>1. Lookup => /\ pc' \in {pc, "aborted"}
                  /\ UNCHANGED <<pages, kind, values, pos, current, deltaNumber, valuePtr, pending, reverseIndex>>
    BY LookupsOnlyRead
  <2>. QED  BY <2>1 DEF vars, Good
<1>. QED  BY <1>1 DEF BridgeInv, CallsFor, Good

LEMMA BridgeStep ==
    ASSUME FitsWidths, LeavesFit, DictionaryInv, ChainInv, KnowInv, PackedInv, BridgeInv, [Next]_vars
    PROVE  BridgeInv'
<1>. USE DEF DictionaryInv
<1>1. ASSUME OpenBlock \/ WriteMulti
      PROVE  BridgeInv'
  <2>1. OpenBlock => kind' # "bottomup"
    BY DEF OpenBlock, Dynamic
  <2>2. WriteMulti => kind' # "bottomup"
    <3>. SUFFICES ASSUME WriteMulti PROVE kind' # "bottomup"
      OBVIOUS
    <3>1. kind = "multi" /\ kind' = kind
      BY Zenon DEF WriteMulti
    <3>. QED  BY <3>1
  <2>. QED  BY <1>1, <2>1, <2>2 DEF BridgeInv
<1>2. ASSUME WriteValue
      PROVE  BridgeInv'
  <2>1. UNCHANGED reverseIndex
    BY <1>2 DEF WriteValue
  <2>. QED  BY <1>1, <1>2, <2>1, BridgeOpenPage, BridgeWriteFull, BridgeWriteDelta DEF WriteValue
<1>3. ASSUME BulkInsertReturns
      PROVE  BridgeInv'
  BY <1>3, BridgeFinish DEF BulkInsertReturns
<1>4. ASSUME Next
      PROVE  BridgeInv'
  BY <1>2, <1>3, <1>4, BridgeInsertReverse, BridgeInsertId, BridgeBulkInsert, BridgeElsewhere
     DEF Next, LoadStep
<1>. QED  BY <1>4, BridgeElsewhere

LEMMA BridgeInit ==
    ASSUME Init
    PROVE  BridgeInv
<1>1. pages = <<>> /\ pc = "ready"
  BY DEF Init, LoaderInit
<1>2. Len(pages) = 0
  BY <1>1
<1>. QED  BY <1>1, <1>2 DEF BridgeInv, Bridges, PlainPages, CallsFor

-----------------------------------------------------------------------------
(* Where a walk through the sparse tree ends.                              *)

\* Two strings have their first d bytes in common.
Agree(a, c, d) == d <= Len(a) /\ d <= Len(c) /\ \A i \in 1..d : a[i] = c[i]

\* The byte behind what two keys have in common orders them.
LEMMA KeysInOrder ==
    ASSUME NEW a, NEW c, IsKey(a), IsKey(c), LexLess(a, c), NEW d \in Nat, Agree(a, c, d)
    PROVE  d < Len(a) /\ d < Len(c) /\ a[d+1] \in Nat /\ c[d+1] \in Nat /\ a[d+1] <= c[d+1]
<1>1. /\ a \in Strings /\ c \in Strings /\ Len(a) \in Nat \ {0} /\ Len(c) \in Nat \ {0}
      /\ \A i \in 1..Len(a) : a[i] \in Nat
      /\ \A i \in 1..Len(c) : c[i] \in Nat
  BY DEF IsKey, Strings
<1>2. PICK m \in Nat : Before(a, c, m)
  BY <1>1, LexMeans
<1>3. /\ m <= Len(a) /\ m < Len(c) /\ \A i \in 1..m : a[i] = c[i]
      /\ m = Len(a) \/ a[m+1] < c[m+1]
  BY <1>2 DEF Before
<1>4. m < Len(a)
  <2>. SUFFICES ASSUME m = Len(a) PROVE FALSE
    BY <1>1, <1>3
  <2>1. Len(a) \in 1..m /\ Len(a) \in 1..Len(a) /\ Len(a) \in 1..Len(c)
    BY <1>1, <1>3
  <2>2. a[Len(a)] = 0 /\ c[Len(a)] = a[Len(a)]
    BY <1>3, <2>1 DEF IsKey
  <2>3. Len(a) = Len(c)
    BY <2>1, <2>2 DEF IsKey
  <2>. QED  BY <1>3, <2>3
<1>5. a[m+1] < c[m+1] /\ m + 1 \in 1..Len(a) /\ m + 1 \in 1..Len(c)
  BY <1>1, <1>3, <1>4
<1>6. d <= m
  <2>. SUFFICES ASSUME m < d PROVE FALSE
    OBVIOUS
  <2>1. m + 1 \in 1..d
    OBVIOUS
  <2>2. a[m+1] = c[m+1] /\ a[m+1] \in Nat
    BY <1>1, <1>5, <2>1 DEF Agree
  <2>. QED  BY <1>5, <2>2
<1>7. d + 1 \in 1..Len(a) /\ d + 1 \in 1..Len(c)
  BY <1>1, <1>3, <1>4, <1>6
<1>8. a[d+1] <= c[d+1]
  <2>1. CASE d = m
    BY <1>1, <1>5, <2>1
  <2>2. CASE d # m
    <3>1. d + 1 \in 1..m
      BY <1>6, <2>2
    <3>. QED  BY <1>1, <1>3, <1>7, <3>1
  <2>. QED  BY <2>1, <2>2
<1>. QED  BY <1>1, <1>3, <1>4, <1>6, <1>7, <1>8

\* A key between two keys has what they have in common.
LEMMA BetweenAgrees ==
    ASSUME NEW a, NEW x, NEW c, IsKey(a), IsKey(x), IsKey(c), LexLess(a, x), LexLess(x, c),
           NEW d \in Nat, Agree(a, c, d)
    PROVE  Agree(a, x, d) /\ Agree(x, c, d)
<1>1. /\ a \in Strings /\ x \in Strings /\ Len(a) \in Nat /\ Len(c) \in Nat /\ Len(x) \in Nat
      /\ \A i \in 1..Len(a) : a[i] \in Nat
  BY DEF IsKey, Strings
<1>2. PICK m \in Nat : Before(a, x, m)
  BY <1>1, LexMeans
<1>3. /\ m <= Len(a) /\ m < Len(x) /\ \A i \in 1..m : a[i] = x[i]
      /\ m = Len(a) \/ a[m+1] < x[m+1]
  BY <1>2 DEF Before
<1>4. d <= m
  <2>. SUFFICES ASSUME m < d PROVE FALSE
    OBVIOUS
  <2>1. Agree(a, x, m) /\ Agree(x, c, m)
    <3>1. \A i \in 1..m : i \in 1..d
      OBVIOUS
    <3>. QED  BY <1>1, <1>3, <3>1 DEF Agree
  <2>2. /\ m < Len(a) /\ x[m+1] \in Nat /\ c[m+1] \in Nat /\ x[m+1] <= c[m+1] /\ a[m+1] \in Nat
    BY <2>1, KeysInOrder
  <2>3. m + 1 \in 1..d
    OBVIOUS
  <2>4. a[m+1] = c[m+1]
    BY <2>3 DEF Agree
  <2>. QED  BY <1>3, <2>2, <2>4
<1>5. \A i \in 1..d : i \in 1..m
  BY <1>4
<1>. QED  BY <1>1, <1>3, <1>4, <1>5 DEF Agree

\* All keys have what they have in common.
LEMMA CommonAgrees ==
    ASSUME NEW keys, keys # {}, \A t \in keys : IsKey(t), NEW u \in keys
    PROVE  Len(Sparse!Common(keys)) \in Nat /\ Agree(u, Sparse!Common(keys), Len(Sparse!Common(keys)))
<1>. DEFINE s == CommonOf(keys)
            C == Sparse!Common(keys)
<1>1. PICK m \in Lengths(keys) : C = SubSeq(s, 1, m) /\ Len(C) = m /\ \A k \in Lengths(keys) : m <= k
  BY CommonLength
<1>2. s \in keys
  BY DEF CommonOf
<1>3. m <= PrefixLength(s, u)
  BY <1>1 DEF Lengths
<1>4. PICK t \in keys : m = PrefixLength(s, t)
  BY Zenon DEF Lengths
<1>. HIDE DEF s, C
<1>5. s \in Strings /\ t \in Strings /\ u \in Strings /\ Len(s) \in Nat /\ \A i \in 1..Len(s) : s[i] \in Nat
  <2>1. s \in Strings /\ t \in Strings /\ u \in Strings
    BY <1>2 DEF IsKey
  <2>. QED  BY <2>1 DEF Strings
<1>. DEFINE n == PrefixLength(s, u)
<1>6. n \in Nat /\ n <= Len(s) /\ n <= Len(u) /\ \A i \in 1..n : s[i] = u[i]
  BY <1>5, PrefixLengthProperties
<1>7. m \in Nat
  BY <1>4, <1>5, PrefixLengthProperties
<1>. HIDE DEF n
<1>8. m <= n /\ \A i \in 1..m : i \in 1..n /\ i \in 1..Len(s)
  BY <1>3, <1>6, <1>7 DEF n
<1>9. \A i \in 1..m : SubSeq(s, 1, m)[i] = s[i]
  <2>1. m \in Nat /\ m <= Len(s) /\ \A i \in 1..m : s[i] \in Nat
    BY <1>5, <1>6, <1>7, <1>8
  <2>. QED  BY <2>1, <1>5, SubSeqProperties
<1>10. Len(u) \in Nat
  BY <1>5 DEF Strings
<1>11. Agree(u, C, m)
  BY <1>1, <1>6, <1>7, <1>8, <1>9, <1>10 DEF Agree
<1>. QED  BY <1>1, <1>7, <1>11 DEF C

\* A page starts with key b behind key k: the tree has it, and the one in front of
\* it if it starts with the same byte; and it has a key with the first byte of k.
Gate(K, ts, n, k, b) ==
    /\ AscendTo(ts, n) /\ (\A j \in 1..n : IsKey(ts[j])) /\ KeysAmong(K, ts, n)
    /\ k \in 1..n /\ b \in 1..n /\ k < b /\ ts[b] \in K
    /\ ts[b][1] = ts[b-1][1] => ts[b-1] \in K
    /\ \E u \in K : u[1] = ts[k][1]

\* The keys of a subtree on the way to key k: all between k and any of them, and
\* below the root only such as start with the byte of k.
OnWay(keys, K, ts, n, k) ==
    /\ keys \in SUBSET K /\ keys # {}
    /\ \A x, j \in 1..n : k <= x /\ x <= j /\ ts[x] \in K /\ ts[j] \in keys => ts[x] \in keys
    /\ keys = K \/ \A u \in keys : u[1] = ts[k][1]

\* Key j is the least of some keys of a subtree, key b of the gate among them,
\* and the one in front of b if the subtree has it.
LeastOf(G, keys, ts, n, j, b) ==
    /\ G \in SUBSET keys /\ j \in 1..n /\ b <= j
    /\ ts[j] = Sparse!Least(G) /\ ts[b] \in G
    /\ ts[b-1] \in keys => ts[b-1] \in G

\* It is then the key of the gate, and the subtree is the whole tree.
LEMMA LeastAtGate ==
    ASSUME NEW K, NEW ts, NEW n \in Nat, NEW k, NEW b, Gate(K, ts, n, k, b),
           NEW keys, OnWay(keys, K, ts, n, k), NEW G, NEW j, LeastOf(G, keys, ts, n, j, b)
    PROVE  ts[j] = ts[b] /\ ts[k][1] # ts[b][1] /\ keys = K
<1>1. /\ k \in 1..n /\ b \in 1..n /\ k < b /\ b - 1 \in 1..n /\ k <= b - 1 /\ ts[b] \in K
      /\ KeysAmong(K, ts, n)
      /\ ts[b][1] = ts[b-1][1] => ts[b-1] \in K
      /\ \A i \in 1..n : IsKey(ts[i]) /\ ts[i] \in Strings
      /\ \A x, y \in 1..n : x < y => LexLess(ts[x], ts[y])
      /\ keys \in SUBSET K
      /\ G \in SUBSET keys /\ j \in 1..n /\ b <= j /\ ts[j] = Sparse!Least(G) /\ ts[b] \in G
      /\ ts[b-1] \in keys => ts[b-1] \in G
  BY DEF Gate, AscendTo, OnWay, LeastOf
<1>2. KeysAmong(G, ts, n)
  BY <1>1 DEF KeysAmong
<1>3. \A t \in G : t # ts[j] => LexLess(ts[j], t)
  <2>1. G # {}
    BY <1>1
  <2>. QED  BY <1>1, <1>2, <2>1, EndsExist
<1>4. ts[j] = ts[b]
  <2>. SUFFICES ASSUME ts[b] # ts[j] PROVE FALSE
    OBVIOUS
  <2>1. b < j /\ LexLess(ts[j], ts[b])
    BY <1>1, <1>3
  <2>. QED  BY <1>1, <2>1, LexAsymmetric
<1>5. LexLess(ts[b-1], ts[b])
  BY <1>1
<1>6. ts[b-1] \notin K
  <2>. SUFFICES ASSUME ts[b-1] \in K PROVE FALSE
    OBVIOUS
  <2>1. ts[b-1] \in keys
    BY <1>1 DEF OnWay
  <2>2. ts[b-1] # ts[b]
    BY <1>1, <1>5, LexAsymmetric
  <2>3. LexLess(ts[b], ts[b-1])
    BY <1>1, <1>3, <1>4, <2>1, <2>2
  <2>. QED  BY <1>1, <1>5, <2>3, LexAsymmetric
<1>7. ts[k][1] # ts[b][1]
  <2>. SUFFICES ASSUME ts[k][1] = ts[b][1] PROVE FALSE
    OBVIOUS
  <2>. DEFINE x == ts[k]
              y == ts[b-1]
              z == ts[b]
  <2>1. IsKey(x) /\ IsKey(y) /\ IsKey(z) /\ x[1] = z[1] /\ y[1] # z[1]
    BY <1>1, <1>6
  <2>2. k < b - 1 => LexLess(x, y)
    BY <1>1
  <2>3. LexLess(y, z) /\ (k = b - 1 => x = y)
    BY <1>5
  <2>. HIDE DEF x, y, z
  <2>4. LexLess(x, y)
    BY <1>1, <2>1, <2>2, <2>3
  <2>5. Agree(x, z, 1)
    <3>1. Len(x) \in Nat \ {0} /\ Len(z) \in Nat \ {0}
      BY <2>1 DEF IsKey, Strings
    <3>. QED  BY <2>1, <3>1 DEF Agree
  <2>6. Agree(y, z, 1)
    BY <2>1, <2>3, <2>4, <2>5, BetweenAgrees
  <2>. QED  BY <2>1, <2>6 DEF Agree
<1>8. keys = K
  <2>1. ts[b] \in keys
    BY <1>1
  <2>. QED  BY <1>7, <2>1 DEF OnWay
<1>. QED  BY <1>4, <1>7, <1>8

\* A node whose bytes are those of the key has them in common with all below it.
LEMMA NodeAgrees ==
    ASSUME NEW keys, keys # {}, \A t \in keys : IsKey(t), NEW key, IsKey(key),
           Sparse!IsPrefix(Sparse!Common(keys), key)
    PROVE  LET d == Len(Sparse!Common(keys))
           IN  d \in Nat /\ \A u \in keys : Agree(key, u, d) /\ Agree(u, key, d)
<1>. DEFINE C == Sparse!Common(keys)
            d == Len(C)
<1>1. d \in Nat /\ \A u \in keys : Agree(u, C, d)
  BY CommonAgrees
<1>2. d <= Len(key) /\ SubSeq(C, 1, d) = SubSeq(key, 1, d)
  BY DEF Sparse!IsPrefix
<1>3. PICK u \in keys : TRUE
  OBVIOUS
<1>. HIDE DEF C
<1>4. u \in Strings /\ key \in Strings /\ Len(key) \in Nat
  BY DEF IsKey, Strings
<1>5. \A i \in 1..d : key[i] \in Nat /\ C[i] \in Nat
  <2>1. ASSUME NEW i \in 1..d PROVE key[i] \in Nat /\ C[i] \in Nat
    <3>1. i \in 1..Len(key) /\ i \in 1..Len(u) /\ C[i] = u[i]
      BY <1>1, <1>2, <1>4 DEF Agree, Strings
    <3>2. u \in Seq(Nat) /\ key \in Seq(Nat)
      BY ONLY <1>4 DEF Strings
    <3>3. key[i] \in Nat /\ u[i] \in Nat
      BY ONLY <3>1, <3>2
    <3>. QED  BY ONLY <3>1, <3>3
  <2>. QED  BY <2>1
<1>6. \A i \in 1..d : key[i] = C[i]
  <2>1. ASSUME NEW i \in 1..d PROVE key[i] = C[i]
    <3>1. SubSeq(C, 1, d)[i] = C[i]
      BY <1>1, <1>5 DEF d
    <3>2. SubSeq(key, 1, d)[i] = key[i]
      BY <1>1, <1>2, <1>4, <1>5, SubSeqProperties
    <3>. QED  BY <1>2, <3>1, <3>2
  <2>. QED  BY <2>1
<1>7. ASSUME NEW v \in keys
      PROVE  Agree(key, v, d) /\ Agree(v, key, d)
  BY <1>1, <1>2, <1>6, <1>7 DEF Agree
<1>. QED  BY <1>1, <1>7 DEF C

\* Where the walk ends it is not past the gate.
LEMMA EndsInFront ==
    ASSUME NEW K, NEW ts, NEW n \in Nat, NEW k, NEW b, Gate(K, ts, n, k, b),
           NEW keys, OnWay(keys, K, ts, n, k), ~Descends(keys, ts[k]),
           NEW j \in 1..n, ts[j] = EndsAt(keys, ts[k])
    PROVE  j < b
<1>. SUFFICES ASSUME b <= j PROVE FALSE
  BY DEF Gate
<1>. DEFINE key == ts[k]
<1>1. /\ k \in 1..n /\ b \in 1..n /\ k < b /\ b - 1 \in 1..n /\ k <= b - 1 /\ ts[b] \in K
      /\ KeysAmong(K, ts, n)
      /\ \A i \in 1..n : IsKey(ts[i]) /\ ts[i] \in Strings
      /\ \A x, y \in 1..n : x < y => LexLess(ts[x], ts[y])
      /\ keys \in SUBSET K /\ keys # {}
  BY DEF Gate, AscendTo, OnWay
<1>2. KeysAmong(keys, ts, n) /\ \A t \in keys : IsKey(t)
  BY <1>1 DEF KeysAmong
<1>3. PICK u \in K : u[1] = key[1]
  BY DEF Gate
<1>4. ts[j] \in keys => ts[b] \in keys
  BY <1>1 DEF OnWay
<1>5. CASE Cardinality(keys) = 1 \/ ~Sparse!IsPrefix(Sparse!Common(keys), key)
  <2>1. ts[j] = Sparse!Least(keys)
    BY <1>5 DEF EndsAt
  <2>2. /\ ts[j] \in keys
        /\ \A t \in keys : t # ts[j] => LexLess(ts[j], t)
    BY <1>1, <1>2, <2>1, EndsExist
  <2>3. keys \in SUBSET keys /\ ts[b] \in keys /\ (ts[b-1] \in keys => ts[b-1] \in keys)
    BY <1>4, <2>2
  <2>4. ts[j] = ts[b] /\ ts[k][1] # ts[b][1] /\ keys = K
    <3>1. LeastOf(keys, keys, ts, n, j, b)
      BY <2>1, <2>3 DEF LeastOf
    <3>. HIDE DEF key
    <3>. QED  BY <3>1, LeastAtGate
  <2>5. u \in keys /\ u # ts[b] /\ LexLess(ts[b], u)
    BY <1>3, <2>2, <2>4
  <2>. DEFINE z == ts[b]
  <2>6. IsKey(key) /\ IsKey(z) /\ IsKey(u) /\ LexLess(key, z) /\ LexLess(z, u) /\ key[1] # z[1]
    BY <1>1, <1>2, <2>4, <2>5
  <2>. HIDE DEF key, z
  <2>7. Agree(key, z, 0) /\ Agree(z, u, 0)
    <3>1. Len(key) \in Nat /\ Len(z) \in Nat /\ Len(u) \in Nat
      BY <2>6 DEF IsKey, Strings
    <3>. QED  BY <3>1 DEF Agree
  <2>8. key[0+1] \in Nat /\ z[0+1] \in Nat /\ key[0+1] <= z[0+1] /\ z[0+1] <= u[0+1]
    BY <2>6, <2>7, KeysInOrder
  <2>. QED  BY <1>3, <2>6, <2>8
<1>6. CASE ~(Cardinality(keys) = 1 \/ ~Sparse!IsPrefix(Sparse!Common(keys), key))
  <2>. DEFINE d == Len(Sparse!Common(keys))
              G == { s \in keys : s[d + 1] > key[d + 1] }
  <2>1. ChildOf(keys, key) = {} /\ ChildOf(keys, key) = { s \in keys : s[d + 1] = key[d + 1] }
    BY <1>6 DEF Descends, ChildOf, NextByte, Sparse!Child
  <2>2. ts[j] = IF G # {} THEN Sparse!Least(G) ELSE Sparse!Greatest(keys)
    BY <1>6 DEF EndsAt, NextTo, NextByte, Sparse!Neighbour
  <2>3. d \in Nat /\ \A v \in keys : Agree(key, v, d) /\ Agree(v, key, d)
    BY <1>1, <1>2, <1>6, NodeAgrees
  <2>4. \A v \in keys : v[d + 1] # key[d + 1]
    BY <2>1
  <2>. HIDE DEF d, G
  <2>5. ASSUME NEW x \in 1..n, k <= x, ts[x] \in keys
        PROVE  ts[x] \in G
    <3>. DEFINE v == ts[x]
    <3>1. v # key
      BY <2>4, <2>5
    <3>2. k < x
      BY <1>1, <2>5, <3>1
    <3>3. LexLess(key, v) /\ IsKey(key) /\ IsKey(v) /\ v \in keys
      BY <1>1, <2>5, <3>2
    <3>. HIDE DEF v, key
    <3>4. key[d+1] \in Nat /\ v[d+1] \in Nat /\ key[d+1] <= v[d+1]
      BY <2>3, <3>3, KeysInOrder
    <3>5. v[d+1] > key[d+1]
      BY <2>4, <3>3, <3>4
    <3>. QED  BY <3>3, <3>5 DEF G, v
  <2>6. G \in SUBSET keys /\ KeysAmong(G, ts, n)
    BY <1>2 DEF G, KeysAmong
  <2>7. ts[j] \in keys
    <3>1. G # {} => Sparse!Least(G) \in G
      BY <2>6, EndsExist
    <3>2. Sparse!Greatest(keys) \in keys
      BY <1>1, <1>2, EndsExist
    <3>. QED  BY <2>2, <2>6, <3>1, <3>2
  <2>8. ts[b] \in G /\ (ts[b-1] \in keys => ts[b-1] \in G)
    BY <1>1, <1>4, <2>5, <2>7
  <2>9. ts[j] = Sparse!Least(G)
    BY <2>2, <2>8
  <2>10. ts[k][1] # ts[b][1] /\ keys = K
    <3>1. LeastOf(G, keys, ts, n, j, b)
      BY <2>6, <2>8, <2>9 DEF LeastOf
    <3>. HIDE DEF key
    <3>. QED  BY <3>1, LeastAtGate
  <2>11. d = 0
    <3>. SUFFICES ASSUME d # 0 PROVE FALSE
      OBVIOUS
    <3>1. 1 \in 1..d
      BY <2>3
    <3>2. Agree(key, ts[b], d)
      BY <2>3, <2>6, <2>8
    <3>. QED  BY <2>10, <3>1, <3>2 DEF Agree
  <2>. QED  BY <1>3, <2>4, <2>10, <2>11
<1>. QED  BY <1>5, <1>6

\* One step down stays on the way.
LEMMA StaysOnWay ==
    ASSUME NEW K, NEW ts, NEW n \in Nat, NEW k, NEW b, Gate(K, ts, n, k, b),
           NEW keys, OnWay(keys, K, ts, n, k), Descends(keys, ts[k])
    PROVE  OnWay(ChildOf(keys, ts[k]), K, ts, n, k)
<1>. DEFINE key == ts[k]
            d == Len(Sparse!Common(keys))
            c == ChildOf(keys, key)
<1>1. /\ k \in 1..n
      /\ \A i \in 1..n : IsKey(ts[i])
      /\ \A x, y \in 1..n : x < y => LexLess(ts[x], ts[y])
      /\ keys \in SUBSET K /\ keys # {} /\ \A t \in K : IsKey(t)
  BY DEF Gate, AscendTo, OnWay, KeysAmong
<1>2. c # {} /\ c = { s \in keys : s[d + 1] = key[d + 1] } /\ Sparse!IsPrefix(Sparse!Common(keys), key)
  BY DEF Descends, ChildOf, NextByte, Sparse!Child
<1>3. d \in Nat /\ \A v \in keys : Agree(key, v, d)
  BY <1>1, <1>2, NodeAgrees
<1>. HIDE DEF c, d
<1>4. ASSUME NEW x \in 1..n, NEW j \in 1..n, k <= x, x <= j, ts[x] \in K, ts[j] \in c
      PROVE  ts[x] \in c
  <2>. DEFINE v == ts[x]
              z == ts[j]
  <2>1. v \in keys /\ z \in keys /\ z[d + 1] = key[d + 1]
    BY <1>2, <1>4 DEF OnWay
  <2>2. v[d + 1] = key[d + 1]
    <3>1. CASE x = k
      BY <3>1
    <3>2. CASE x = j
      BY <2>1, <3>2
    <3>3. CASE x # k /\ x # j
      <4>1. LexLess(key, v) /\ LexLess(v, z) /\ IsKey(key) /\ IsKey(v) /\ IsKey(z)
        BY <1>1, <1>4, <3>3
      <4>. HIDE DEF v, z, key
      <4>2. Agree(key, v, d) /\ Agree(v, z, d)
        <5>1. Agree(key, z, d)
          BY <1>3, <2>1
        <5>. QED  BY <1>3, <4>1, <5>1, BetweenAgrees
      <4>3. /\ key[d+1] \in Nat /\ v[d+1] \in Nat /\ z[d+1] \in Nat
            /\ key[d+1] <= v[d+1] /\ v[d+1] <= z[d+1]
        BY <1>3, <4>1, <4>2, KeysInOrder
      <4>. QED  BY <2>1, <4>3
    <3>. QED  BY <3>1, <3>2, <3>3
  <2>. QED  BY <1>2, <2>1, <2>2
<1>5. c \in SUBSET K
  BY <1>1, <1>2
<1>6. ASSUME NEW u \in c
      PROVE  u[1] = key[1]
  <2>1. u \in keys /\ u[d + 1] = key[d + 1]
    BY <1>2
  <2>2. CASE d = 0
    BY <2>1, <2>2
  <2>3. CASE d # 0
    <3>1. 1 \in 1..d
      BY <1>3, <2>3
    <3>. QED  BY <1>3, <2>1, <3>1 DEF Agree
  <2>. QED  BY <2>2, <2>3
<1>7. OnWay(c, K, ts, n, k)
  <2>1. \A x, j \in 1..n : k <= x /\ x <= j /\ ts[x] \in K /\ ts[j] \in c => ts[x] \in c
    BY <1>4
  <2>. HIDE DEF key
  <2>2. c # {} /\ \A u \in c : u[1] = ts[k][1]
    BY <1>2, <1>6 DEF key
  <2>. QED  BY <1>5, <2>1, <2>2 DEF OnWay
<1>. QED  BY <1>7 DEF c

\* A key that stands in front of the one at the gate.
InFront(t, ts, b) == \E j \in 1..(b - 1) : t = ts[j]

\* A lookup of a key in front of the gate ends in front of the gate.
LEMMA LookupNotPast ==
    ASSUME NEW K, IsFiniteSet(K), NEW ts, NEW n \in Nat, NEW k, NEW b, Gate(K, ts, n, k, b),
           NEW str, Sparse!Terminated(str) = ts[k]
    PROVE  InFront(Sparse!LookupValue(K, str), ts, b)
<1>. DEFINE key == ts[k]
            walk == CHOOSE f : Walks(f, Sparse!Terminated(str), K)
<1>1. Sparse!LookupValue(K, str) = walk[K]
  BY Zenon DEF Sparse!LookupValue, Walks, WalkAt
<1>2. KeysAmong(K, ts, n) /\ K # {} /\ b \in 1..n
  BY DEF Gate
<1>3. \A t \in K : IsKey(t)
  BY <1>2 DEF KeysAmong
<1>4. Walks(walk, key, K)
  <2>. DEFINE t == Sparse!Terminated(str)
  <2>. HIDE DEF t
  <2>1. \E f : Walks(f, t, K)
    BY <1>3, WalkExists
  <2>2. Walks(CHOOSE f : Walks(f, t, K), t, K)
    BY <2>1
  <2>. QED  BY <2>2 DEF t
<1>. HIDE DEF walk
<1>. DEFINE Past(keys) == OnWay(keys, K, ts, n, k) /\ ~InFront(walk[keys], ts, b)
            Bad == { Cardinality(keys) : keys \in { keys \in SUBSET K : Past(keys) } }
<1>5. Bad = {}
  <2>1. SUFFICES ASSUME Bad # {} PROVE FALSE
    OBVIOUS
  <2>2. \A keys \in SUBSET K : IsFiniteSet(keys) /\ Cardinality(keys) \in Nat
    BY FS_Subset, FS_CardinalityType
  <2>3. PICK w \in Bad : \A v \in Bad : w <= v
    <3>1. Bad \in SUBSET Nat
      BY <2>2
    <3>. HIDE DEF Bad
    <3>. QED  BY <2>1, <3>1, LeastElement
  <2>4. PICK keys \in SUBSET K : Past(keys) /\ w = Cardinality(keys)
    OBVIOUS
  <2>5. walk[keys] = WalkAt(walk, key, keys)
    BY <1>4 DEF Walks
  <2>6. OnWay(keys, K, ts, n, k) /\ ~InFront(walk[keys], ts, b) /\ keys # {} /\ \A t \in keys : IsKey(t)
    BY <1>3, <2>4 DEF OnWay
  <2>7. CASE Descends(keys, key)
    <3>. DEFINE c == ChildOf(keys, key)
    <3>1. c \in SUBSET keys /\ c # {} /\ Cardinality(c) < Cardinality(keys)
      <4>. HIDE DEF key
      <4>. QED  BY <2>2, <2>6, <2>7, DescendsLess
    <3>2. OnWay(c, K, ts, n, k)
      BY <2>6, <2>7, StaysOnWay
    <3>3. walk[keys] = walk[c]
      <4>. HIDE DEF key
      <4>. QED  BY <2>5, <2>7, WalkAtIs
    <3>. HIDE DEF c
    <3>4. c \in SUBSET K
      BY <3>1
    <3>5. Past(c)
      BY <2>6, <3>2, <3>3
    <3>6. Cardinality(c) \in Bad
      BY <3>4, <3>5
    <3>7. Cardinality(c) \in Nat /\ Cardinality(keys) \in Nat
      BY <2>2, <3>4
    <3>. HIDE DEF Bad
    <3>. QED  BY <2>3, <2>4, <3>1, <3>6, <3>7
  <2>8. CASE ~Descends(keys, key)
    <3>1. walk[keys] = EndsAt(keys, key)
      <4>. HIDE DEF key
      <4>. QED  BY <2>5, <2>8, WalkAtIs
    <3>2. KeysAmong(keys, ts, n)
      BY <1>2 DEF KeysAmong
    <3>3. EndsAt(keys, key) \in keys
      <4>. HIDE DEF key
      <4>. QED  BY <2>6, <3>2, EndsAmong
    <3>4. PICK j \in 1..n : ts[j] = EndsAt(keys, key)
      BY <3>2, <3>3 DEF KeysAmong
    <3>5. j < b
      BY <2>6, <2>8, <3>4, EndsInFront
    <3>6. j \in 1..(b - 1)
      BY <1>2, <3>5
    <3>. QED  BY <2>6, <3>1, <3>4, <3>6 DEF InFront
  <2>. QED  BY <2>7, <2>8
<1>6. OnWay(K, K, ts, n, k)
  BY <1>2 DEF OnWay
<1>7. ~Past(K)
  <2>1. K \in SUBSET K
    OBVIOUS
  <2>. HIDE DEF Past
  <2>. QED  BY <1>5, <2>1
<1>. QED  BY <1>1, <1>6, <1>7

-----------------------------------------------------------------------------
(* A lookup leads to no page behind that of the value.                     *)

\* The page of a leaf has the value that the leaf was made for.
LEMMA LeafHolds ==
    ASSUME RestUp, NEW j \in 1..Len(values), values[j] \in DOMAIN reverseIndex
    PROVE  LET q == LeafPage(reverseIndex[values[j]])
           IN  q \in 1..Len(pages) /\ 0 \in DOMAIN pages[q].cells /\ \E e : HoldsAt(q, e, j)
<1>. DEFINE leaf == reverseIndex[values[j]]
            q == LeafPage(leaf)
            m == LeafOffset(leaf)
<1>1. PICK i \in 1..Len(values) : values[i] = values[j] /\ LeafTo(leaf, i)
  BY DEF RestUp, Rest, DictionaryInv, LeavesInv
<1>2. Len(values) \in Nat
  BY DEF RestUp, Rest, DictionaryInv, LoaderInv, LoaderTypes
<1>3. i = j
  <2>1. ~(i < j) /\ ~(j < i)
    BY <1>1, ValuesDiffer
  <2>. QED  BY <1>2, <2>1
<1>4. Leads(kind, pages, slots, values, q, m, j)
  BY <1>1, <1>3 DEF LeafTo, LeadsTo, AnnouncedAt, RestUp, Dynamic
<1>. HIDE DEF q, m
<1>5. q \in 1..Len(pages) /\ LeadsOn(kind, pages[q], slots[q], values, m, j)
  BY <1>4 DEF Leads
<1>6. PICK o \in DOMAIN pages[q].cells : pages[q].cells[o].id = j
  BY <1>5 DEF LeadsOn, RestUp
<1>7. PICK e : HoldsAt(q, e, j)
  BY <1>5, <1>6, CellHolds
<1>8. 0 \in DOMAIN pages[q].cells
  BY <1>7 DEF HoldsAt
<1>. QED  BY <1>5, <1>7, <1>8 DEF q

\* The first value of a page is behind all that the pages before it have.
LEMMA PagesAscend ==
    ASSUME RestUp, NEW p \in 1..Len(pages), NEW q \in 1..Len(pages), p < q,
           0 \in DOMAIN pages[q].cells, NEW e, NEW k \in 1..Len(values), HoldsAt(p, e, k)
    PROVE  k < FirstId(q)
<1>1. Len(pages) \in Nat /\ Good
  BY RestChain DEF RestUp, Good
<1>2. \A r \in 1..(Len(pages) - 1) : 0 \in DOMAIN pages[r].cells
  BY <1>1, FrontHasFirst DEF RestUp, Rest
<1>3. ASSUME NEW r \in p..q
      PROVE  0 \in DOMAIN pages[r].cells /\ Entries(r) \in Nat /\ FirstId(r) \in Nat
  <2>1. 0 \in DOMAIN pages[r].cells /\ r \in 1..Len(pages)
    <3>1. CASE r = q
      BY <3>1
    <3>2. CASE r # q
      <4>1. r \in 1..(Len(pages) - 1)
        BY <1>1, <3>2
      <4>. QED  BY <1>1, <1>2, <4>1
    <3>. QED  BY <3>1, <3>2
  <2>. QED  BY <2>1, EntryHolds
<1>4. ASSUME NEW r \in p..(q - 1)
      PROVE  FirstId(r + 1) = FirstId(r) + Entries(r) + 1
  <2>1. r \in 1..(Len(pages) - 1) /\ r + 1 \in 1..Len(pages) /\ r + 1 \in p..q
    BY <1>1
  <2>2. LeftFull(pages, slots, r, Upcoming) /\ Entries(r) = Len(slots[r])
    BY <1>1, <2>1 DEF RestUp, PackedInv, Entries
  <2>3. 0 \in DOMAIN pages[r + 1].cells
    BY <1>3, <2>1
  <2>. QED  BY <2>1, <2>2, <2>3 DEF LeftFull, StartOf, FirstId
<1>5. FirstId(p) + e = k /\ e \in 0..Entries(p)
  BY DEF HoldsAt
<1>. DEFINE Late == { r \in (p + 1)..q : ~(k < FirstId(r)) }
<1>6. Late = {}
  <2>. SUFFICES ASSUME Late # {} PROVE FALSE
    OBVIOUS
  <2>1. PICK r \in Late : \A t \in Late : r <= t
    <3>1. Late \in SUBSET Nat
      OBVIOUS
    <3>. HIDE DEF Late
    <3>. QED  BY <3>1, LeastElement
  <2>. DEFINE s == r - 1
  <2>2. r \in (p + 1)..q /\ ~(k < FirstId(r)) /\ s \in p..(q - 1) /\ s \in p..q /\ s + 1 = r
    OBVIOUS
  <2>3. s = p \/ k < FirstId(s)
    <3>. SUFFICES ASSUME s # p PROVE s \notin Late /\ s \in (p + 1)..q
      OBVIOUS
    <3>1. s \in (p + 1)..q /\ ~(r <= s)
      BY <2>2
    <3>. HIDE DEF Late
    <3>. QED  BY <2>1, <3>1
  <2>. HIDE DEF s
  <2>4. FirstId(r) = FirstId(s) + Entries(s) + 1
    BY <1>4, <2>2
  <2>. DEFINE a == FirstId(s)
              b == Entries(s)
              c == FirstId(r)
  <2>5. /\ a \in Nat /\ b \in Nat /\ c = a + b + 1 /\ k \in Nat
        /\ (e \in 0..b /\ a + e = k) \/ k < a
    BY <1>3, <1>5, <2>2, <2>3, <2>4
  <2>. HIDE DEF a, b, c
  <2>6. k < c
    BY <2>5
  <2>. QED  BY <2>2, <2>6 DEF c
<1>7. q \in (p + 1)..q
  OBVIOUS
<1>. QED  BY <1>6, <1>7

\* The first character of a value is the first byte of its key.
LEMMA FirstCharIs ==
    ASSUME NEW v, ZeroFree(v)
    PROVE  Sparse!Terminated(v)[1] = FirstChar(v)
<1>1. /\ v \in Strings /\ Len(v) \in Nat
      /\ \A j \in 1..Len(v) : Sparse!Terminated(v)[j] = v[j]
      /\ Sparse!Terminated(v)[Len(v) + 1] = 0
  BY TerminatedKey DEF ZeroFree, Strings
<1>2. CASE Len(v) = 0
  <2>1. v = <<>>
    BY <1>1, <1>2 DEF Strings
  <2>2. Sparse!Terminated(v)[1] = 0
    BY <1>1, <1>2
  <2>. QED  BY <2>1, <2>2 DEF FirstChar
<1>3. CASE Len(v) # 0
  <2>1. 1 \in 1..Len(v) /\ v # <<>>
    BY <1>1, <1>3
  <2>. QED  BY <1>1, <2>1 DEF FirstChar
<1>. QED  BY <1>2, <1>3

\* Every page behind a value starts with the gate for its lookup.
LEMMA PageIsGate ==
    ASSUME RestUp, BridgeInv, TreeSorted, NEW k \in 1..Len(values), SharesFirstChar(k),
           NEW q \in 1..Len(pages), 0 \in DOMAIN pages[q].cells, k < FirstId(q)
    PROVE  FirstId(q) \in 1..Len(values) /\ Gate(TreeKeys, Ranks, Len(values), k, FirstId(q))
<1>. DEFINE n == Len(values)
            ts == Ranks
            D == DOMAIN reverseIndex
            b == FirstId(q)
<1>1. n \in Nat /\ Len(pages) \in Nat /\ b \in 1..n /\ b - 1 \in 1..n
  <2>1. n \in Nat /\ Len(pages) \in Nat
    BY RestChain DEF RestUp
  <2>2. FirstId(q) \in 1..n
    BY EntryHolds
  <2>. QED  BY <2>1, <2>2
<1>2. Bridges(pages, pos, D, values, current, FALSE, FALSE)
  <2>1. ~CallsFor(0) /\ ~CallsFor(1) /\ Good /\ kind = "bottomup"
    BY DEF CallsFor, RestUp, Good
  <2>. QED  BY <2>1 DEF BridgeInv, Bridges
<1>3. q # 1
  <2>. SUFFICES ASSUME q = 1 PROVE FALSE
    OBVIOUS
  <2>1. StartOf(pages, 1, Upcoming) = 1
    BY DEF RestUp, Rest, ChainInv, Chain, Good
  <2>2. b = 1
    BY <2>1 DEF StartOf, FirstId
  <2>. HIDE DEF b
  <2>. QED  BY <1>1, <2>2 DEF b
<1>4. values[b] \in D
  BY <1>2 DEF Bridges, FirstId
<1>5. FirstChar(values[b]) = FirstChar(values[b-1]) => values[b-1] \in D
  <2>1. q \in 2..Len(pages) /\ StartOf(pages, q, pos) = b
    BY <1>1, <1>3 DEF StartOf, FirstId
  <2>. HIDE DEF b, D
  <2>. QED  BY <1>2, <2>1 DEF Bridges
<1>6. ASSUME NEW i \in 1..n
      PROVE  ts[i] = Sparse!Terminated(values[i]) /\ ts[i][1] = FirstChar(values[i])
  <2>. DEFINE v == values[i]
  <2>1. ZeroFree(v) /\ ts[i] = Sparse!Terminated(v)
    BY DEF TreeSorted, Ranks
  <2>. HIDE DEF v, ts
  <2>2. ts[i][1] = FirstChar(v)
    BY <2>1, FirstCharIs
  <2>. QED  BY <2>1, <2>2 DEF v
<1>. HIDE DEF b, ts
<1>7. \A i \in 1..n : values[i] \in D => ts[i] \in TreeKeys
  BY <1>6 DEF TreeKeys
<1>8. ts[b] \in TreeKeys /\ (ts[b][1] = ts[b-1][1] => ts[b-1] \in TreeKeys)
  BY <1>1, <1>4, <1>5, <1>6, <1>7
<1>9. \E u \in TreeKeys : u[1] = ts[k][1]
  <2>1. PICK s \in D : FirstChar(s) = FirstChar(values[k])
    BY DEF SharesFirstChar
  <2>2. PICK i \in 1..n : values[i] = s
    BY <2>1 DEF RestUp, Rest, DictionaryInv, LeavesInv
  <2>3. ts[i] \in TreeKeys /\ ts[i][1] = ts[k][1]
    BY <1>6, <1>7, <2>1, <2>2
  <2>. QED  BY <2>3
<1>10. /\ AscendTo(ts, n) /\ (\A j \in 1..n : IsKey(ts[j])) /\ KeysAmong(TreeKeys, ts, n)
       /\ k < b
  BY DEF TreeSorted, ts, b
<1>11. Gate(TreeKeys, ts, n, k, b)
  BY <1>1, <1>8, <1>9, <1>10 DEF Gate
<1>. QED  BY <1>1, <1>11 DEF b, ts

\* The page that the tree leads to is not behind the one of the value.
LEMMA LandsInFront ==
    ASSUME RestUp, BridgeInv, TreeSorted, NEW k \in 1..Len(values), SharesFirstChar(k)
    PROVE  Landing(values[k]) <= PageOf(k)
<1>. DEFINE n == Len(values)
            K == TreeKeys
            t == Sparse!LookupValue(K, values[k])
<1>1. n \in Nat /\ Len(pages) \in Nat
  BY RestChain DEF RestUp
<1>2. KeysAmong(K, Ranks, n) /\ IsFiniteSet(K) /\ Ranks[k] = Sparse!Terminated(values[k])
  BY DEF TreeSorted, Ranks
<1>3. K # {}
  BY DEF TreeKeys, SharesFirstChar
<1>4. t \in K
  <2>. DEFINE str == values[k]
  <2>. HIDE DEF str, K
  <2>. QED  BY <1>1, <1>2, <1>3, LookupEnds
<1>5. PICK s \in DOMAIN reverseIndex : t = Sparse!Terminated(s)
  BY <1>4 DEF TreeKeys
<1>6. PICK j \in 1..n : values[j] = s
  BY <1>5 DEF RestUp, Rest, DictionaryInv, LeavesInv
<1>. DEFINE q == LeafPage(reverseIndex[values[j]])
            p == PageOf(k)
<1>7. Landing(values[k]) = q
  <2>1. LeafOf(t) = reverseIndex[values[j]]
    BY <1>5, <1>6 DEF TreeSorted
  <2>. QED  BY <2>1 DEF Landing
<1>8. t = Ranks[j]
  BY <1>5, <1>6 DEF Ranks
<1>. HIDE DEF t
<1>9. q \in 1..Len(pages) /\ 0 \in DOMAIN pages[q].cells /\ \E d : HoldsAt(q, d, j)
  BY <1>5, <1>6, LeafHolds
<1>10. p \in 1..Len(pages) /\ \E e : HoldsAt(p, e, k)
  BY ValueOnPage
<1>11. PICK d : HoldsAt(q, d, j)
  BY <1>9
<1>12. PICK e : HoldsAt(p, e, k)
  BY <1>10
<1>. HIDE DEF q, p
<1>13. ASSUME p < q
       PROVE  FALSE
  <2>. DEFINE b == FirstId(q)
  <2>1. k < b
    BY <1>9, <1>10, <1>12, <1>13, PagesAscend
  <2>2. b \in 1..n /\ Gate(K, Ranks, n, k, b)
    BY <1>9, <2>1, PageIsGate
  <2>3. b <= j
    <3>1. b + d = j /\ d \in 0..Entries(q)
      BY <1>11 DEF HoldsAt
    <3>. HIDE DEF b
    <3>. QED  BY <2>2, <3>1
  <2>. HIDE DEF b
  <2>4. InFront(t, Ranks, b)
    <3>. DEFINE str == values[k]
                ts == Ranks
    <3>1. Sparse!Terminated(str) = ts[k] /\ t = Sparse!LookupValue(K, str)
      BY <1>2 DEF t
    <3>. HIDE DEF str, K, ts
    <3>2. InFront(Sparse!LookupValue(K, str), ts, b)
      BY <1>1, <1>2, <2>2, <3>1, LookupNotPast DEF ts
    <3>. QED  BY <3>1, <3>2 DEF ts
  <2>5. PICK i \in 1..(b - 1) : t = Ranks[i]
    BY <2>4 DEF InFront
  <2>6. i \in 1..n /\ i < j
    BY <1>1, <2>2, <2>3
  <2>7. LexLess(Ranks[i], Ranks[j]) /\ Ranks[i] \in Strings
    BY <2>6 DEF TreeSorted, AscendTo
  <2>. QED  BY <1>8, <2>5, <2>7, LexAsymmetric
<1>. QED  BY <1>1, <1>7, <1>9, <1>10, <1>13 DEF p

\* A lookup in the sparse tree of a bottom-up dictionary (sartLookupValue of
\* ARTBase.cpp) never leads past a value: leafCallback of BottomUpStrategy.cpp
\* inserts the first value of each page, and the loader of BottomUpPage.hpp makes
\* it insert the last value of the page before where both start with the same
\* character, so that a walk that misses and takes the greater neighbour still
\* ends in front of the next page.
THEOREM LookupsLandBefore ==
    ASSUME FitsWidths, LeavesFit, SortedInputs, NoZeros
    PROVE  Spec => []LandsBefore
<1>1. Init => BridgeInv
  BY BridgeInit
<1>2. UpInv /\ BridgeInv /\ [Next]_vars => BridgeInv'
  BY BridgeStep DEF UpInv
<1>3. UpInv /\ BridgeInv => LandsBefore
  <2>. SUFFICES ASSUME UpInv, BridgeInv, Loaded, kind = "bottomup",
                       NEW k \in 1..Len(values), SharesFirstChar(k)
                PROVE  Landing(values[k]) <= PageOf(k)
    BY DEF LandsBefore
  <2>1. values \in Inputs
    BY DEF UpInv, DictionaryInv, ContentInv, Loaded
  <2>2. RestUp
    BY <2>1 DEF RestUp, Rest, AtRest, UpInv, Loaded, SortedInputs
  <2>3. TreeSorted
    BY <2>2, TreeSorts DEF RestUp
  <2>. QED  BY <2>2, <2>3, LandsInFront
<1>. QED  BY <1>1, <1>2, <1>3, UpInvariant, PTL DEF Spec
=============================================================================
