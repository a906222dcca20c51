---------------------- MODULE IndexedDictionaryProofs ----------------------
(***************************************************************************)
(* Proofs about the loads of the dictionaries of IndexedDictionary: what   *)
(* is on their pages and how these are chained, what the leaves in their   *)
(* indexes lead to, and what the indexes know.                             *)
(***************************************************************************)
EXTENDS IndexedPageProofs, FiniteSetTheorems

-----------------------------------------------------------------------------
(* What is on a page.                                                      *)

\* Every cell holds one of the values; the first is uncompressed, the others
\* are deltas against it.
SoundCells(page, vs) ==
    \A o \in DOMAIN page.cells :
        /\ 0 \in DOMAIN page.cells
        /\ page.cells[o].id \in 1..Len(vs)
        /\ page.cells[o] = IF o = 0 THEN FullCell(page.cells[o].id, vs[page.cells[o].id])
                           ELSE DeltaCell(page.cells[o].id, page.cells[0].str, vs[page.cells[o].id])

\* The entries that are written lead to the deltas in their order.
EntriesLead(page, slot) ==
    \A e \in 1..Len(slot) : slot[e] # Unwritten =>
        slot[e] \in DOMAIN page.cells /\ slot[e] # 0 /\ page.cells[slot[e]].id = page.cells[0].id + e

PageContent(k, page, slot, vs) ==
    k # "multi" => SoundCells(page, vs) /\ (k # "dynamic" => EntriesLead(page, slot))

Contents(k, ps, ss, vs) == \A p \in 1..Len(ps) : PageContent(k, ps[p], ss[p], vs)

\* Where a reader is that skips number values from the uncompressed one at b on;
\* it meets no other uncompressed one.
Ways(page, b, number) ==
    { O \in [0..number -> DOMAIN page.cells] :
        /\ O[0] = b /\ page.cells[b].kind = "full"
        /\ \A j \in 1..number : /\ O[j] = O[j-1] + Occupied(page.cells[O[j-1]])
                                /\ page.cells[O[j]].kind = "delta" }

\* On a multi page: number values behind the uncompressed one at b, at offset o,
\* is the value id.
Run(page, b, number, o, id, vs) ==
    /\ id \in 1..Len(vs)
    /\ \E O \in Ways(page, b, number) : O[number] = o
    /\ page.cells[o] = IF number = 0 THEN FullCell(id, vs[id])
                       ELSE DeltaCell(id, page.cells[b].str, vs[id])

IndirectKinds == {"slotted", "dynamicslotted"}

\* The offset that a number stands for on a page with this index; not on multi pages.
Place(k, slot, n) ==
    IF n = 0 THEN 0
    ELSE IF k \in IndirectKinds THEN slot[n]
    ELSE IF k = "bottomup" /\ n = 1 THEN slot[Len(slot)]
    ELSE n

\* A number leads to value i on a page.
LeadsOn(k, page, slot, vs, n, i) ==
    IF k = "multi"
    THEN \E o \in DOMAIN page.cells : Run(page, n \div DeltaNumbers, n % DeltaNumbers, o, i, vs)
    ELSE /\ k \in IndirectKinds => n <= Len(slot)
         /\ k = "bottomup" /\ n = 1 => Len(slot) # 0
         /\ Place(k, slot, n) \in DOMAIN page.cells
         /\ page.cells[Place(k, slot, n)].id = i

Leads(k, ps, ss, vs, p, n, i) ==
    p \in 1..Len(ps) /\ n \in Nat /\ LeadsOn(k, ps[p], ss[p], vs, n, i)

-----------------------------------------------------------------------------
(* The invariant of the dictionaries.                                      *)

LastId == IF pc = "loop" THEN pos - 1 ELSE pos

\* The last value on a multi page, and that nothing is behind it.
RunInv ==
    \E o \in DOMAIN pages[current].cells :
        /\ Run(pages[current], valuePtr.off, (deltaNumber - 1) % Frequency, o, LastId, values)
        /\ dataPtr = o + Occupied(pages[current].cells[o])

CurrentInv ==
    /\ \A o \in DOMAIN pages[current].cells : o < dataPtr
    /\ deltaNumber = 0 => dataPtr = 0
    /\ kind # "multi" /\ deltaNumber # 0 => pages[current].cells[0].id = First
    /\ kind \notin Unindexed =>
          /\ numberOfDeltas < OffsetRange
          /\ \A e \in 1..Len(slots[current]) : slots[current][e] # Unwritten <=> e < deltaNumber
    /\ kind = "multi" => RunInv

ContentInv ==
    /\ values \in Inputs \union {<<>>}
    /\ current = Len(pages) /\ Len(pages) <= pos /\ (pc = "loop" => Len(pages) < pos)
    /\ Contents(kind, pages, slots, values)
    /\ Busy /\ current # Null => CurrentInv

\* The first value of a dynamic page goes to the callback before it is written.
AnnouncedAt(p, n, i) ==
    Dynamic /\ current # Null /\ deltaNumber = 0 /\ i = pos /\ p = current /\ n = 0

LeadsTo(p, n, i) == Leads(kind, pages, slots, values, p, n, i) \/ AnnouncedAt(p, n, i)

LeafTo(leaf, i) == LeadsTo(LeafPage(leaf), LeafOffset(leaf), i)

\* What the leaves that the callback makes of its arguments stand for.
ReverseNumber ==
    IF kind = "bottomup" THEN IF pending.delta = 0 THEN 1 ELSE 0
    ELSE IF Indirect THEN pending.delta ELSE pending.offset

IdNumber == IF Indirect THEN pending.delta ELSE pending.offset

\* The radix tree would not take the value for a second time.
InTree(value) == kind = "bottomup" /\ value \in DOMAIN reverseIndex

PendingInv ==
    pc \in {"callback", "indexed"} =>
        /\ pending.id \in 1..Len(values) /\ pending.value = values[pending.id]
        /\ pending.page \in 1..Len(pages)
        /\ (pc = "callback" /\ ForReverse) \/ ForIndex
        /\ ForReverse => /\ ReverseNumber \in 0..(OffsetRange - 1)
                         /\ \/ LeadsTo(pending.page, ReverseNumber, pending.id)
                            \/ InTree(pending.value)
        /\ ForIndex => IdNumber \in 0..(OffsetRange - 1) /\ LeadsTo(pending.page, IdNumber, pending.id)

\* What makes a page without entries keep its only value out of the callback for
\* last values: the tree has it already, as the first of its page.
OnceInv ==
    kind = "bottomup" =>
        /\ pc = "callback" /\ pending.delta = 0 => deltaNumber = 0
        /\ pc = "callback" /\ pending.delta # 0 => pending.value = values[pos]
        /\ pc = "callback" /\ pending.delta = 2 => slots[current] # <<>>
        /\ pc = "indexed" => pending.value = values[pos] /\ InTree(pending.value)
        /\ pc = "loop" /\ current # Null /\ slots[current] = <<>> => InTree(values[pos - 1])

LeavesInv ==
    /\ \A s \in DOMAIN reverseIndex :
          \E i \in 1..Len(values) : values[i] = s /\ LeafTo(reverseIndex[s], i)
    /\ \A i \in DOMAIN index : i \in 1..Len(values) /\ LeafTo(index[i], i)

\* The addresses of as many pages as there are values fit in a leaf; the
\* offsets and the numbers on dynamic and multi pages fit in 16 bits.
LeavesFit ==
    /\ \A vs \in Inputs : \A p \in 1..Len(vs) : AddressFits(p)
    /\ 1 < OffsetRange
    /\ "dynamic" \in Kinds =>
          \A vs \in Inputs : \A i \in 1..Len(vs) : \A n \in 0..(Len(vs) - i) :
              Room("dynamic", vs, i, n, n) <= OffsetRange
    /\ "multi" \in Kinds => Frequency <= DeltaNumbers /\ DeltaNumbers * PageSize <= OffsetRange

-----------------------------------------------------------------------------
(* What the iterator reads.                                                *)

\* An iterator stands at offset o and knows the uncompressed value at b.
Stands(it, p, o, b) == it.page = p /\ it.off = o /\ (o # b => it.base = p /\ it.from = b)

IsIterator(it) ==
    it = [page |-> it.page, off |-> it.off, nextPage |-> it.nextPage, base |-> it.base, from |-> it.from]

\* At o is value v with this id, as a delta against the value at b.
Stores(cells, o, b, id, v) ==
    /\ o \in DOMAIN cells /\ id \in Nat /\ v \in Strings /\ Len(v) < StringRange
    /\ o # b => cells[b].str \in Strings
    /\ cells[o] = IF o = b THEN FullCell(id, v) ELSE DeltaCell(id, cells[b].str, v)

Reads(it, id, v) == HasValue(it) /\ GetId(it) = id /\ GetValue(it) = v

\* A value is read from its cell and the uncompressed one it refers to.
LEMMA CellReads ==
    ASSUME NEW p, p # Null, NEW o, NEW b, NEW id, NEW v, NEW it,
           Stores(pages[p].cells, o, b, id, v), Stands(it, p, o, b)
    PROVE  Reads(it, id, v)
<1>. USE DEF Stores, Stands, Reads
<1>. DEFINE cell == pages[p].cells[o]
            r == pages[p].cells[b].str
<1>1. v \in Strings /\ Len(v) < StringRange /\ id \in Nat
  OBVIOUS
<1>2. Cell(it) = cell /\ AtCell(it)
  BY DEF Cell, AtCell, Null
<1>3. CASE o = b
  <2>1. cell = FullCell(id, v)
    BY <1>3
  <2>. HIDE DEF cell
  <2>2. cell.kind = "full" /\ cell.id = id /\ cell.str = v /\ cell.size = Len(v)
    BY <1>1, <2>1, FullCellProperties
  <2>3. SubSeq(v, 1, Len(v)) = v
    BY <1>1, WholeString
  <2>. QED  BY <1>2, <2>2, <2>3 DEF HasValue, GetId, GetValue
<1>4. CASE o # b
  <2>1. cell = DeltaCell(id, r, v) /\ r \in Strings
    BY <1>4
  <2>2. it.base = p /\ it.from = b /\ p # Null /\ pages[it.base].cells[it.from].str = r
    BY <1>4 DEF Null
  <2>. HIDE DEF cell, r
  <2>3. /\ cell.kind = "delta" /\ cell.id = id /\ cell.str = Delta(r, v)
        /\ cell.size = Len(Delta(r, v)) /\ cell.prefix = PrefixLength(r, v)
    <3>1. /\ DeltaCell(id, r, v).kind = "delta" /\ DeltaCell(id, r, v).id = id
          /\ DeltaCell(id, r, v).str = Delta(r, v)
          /\ DeltaCell(id, r, v).size = Len(Delta(r, v))
          /\ DeltaCell(id, r, v).prefix = PrefixLength(r, v)
      <4>1. id \in Nat /\ r \in Strings /\ v \in Strings /\ Len(v) < StringRange
        BY <1>1, <2>1
      <4>. QED  BY ONLY <4>1, DeltaCellProperties
    <3>. QED  BY <2>1, <3>1
  <2>4. /\ SubSeq(r, 1, PrefixLength(r, v)) \o Delta(r, v) = v
        /\ SubSeq(Delta(r, v), 1, Len(Delta(r, v))) = Delta(r, v)
    BY <1>1, <2>1, DeltaRestores, WholeString
  <2>. QED  BY <1>2, <2>2, <2>3, <2>4 DEF HasValue, GetId, GetValue
<1>. QED  BY <1>3, <1>4

\* What gotoOffsetWithDelta goes through.
Skips(f, p, off, number) ==
    f = [n \in 0..number |->
           IF n = 0 THEN [IteratorAt(p) EXCEPT !.off = off]
           ELSE IF AtCell(f[n-1]) THEN SkipValue(f[n-1]) ELSE NullIterator]

LEMMA SkipsAgree ==
    ASSUME NEW p, NEW off, NEW number \in Nat, NEW f, Skips(f, p, off, number)
    PROVE  GotoOffsetWithDelta(p, off, number) = f[number]
<1>. DEFINE g == CHOOSE h : Skips(h, p, off, number)
<1>1. Skips(g, p, off, number)
  OBVIOUS
<1>2. GotoOffsetWithDelta(p, off, number) = g[number]
  BY DEF GotoOffsetWithDelta, Skips
<1>. HIDE DEF g
<1>. DEFINE Bad == { n \in 0..number : f[n] # g[n] }
<1>3. SUFFICES ASSUME Bad # {} PROVE FALSE
  <2>1. number \in 0..number
    OBVIOUS
  <2>. QED  BY <1>2, <2>1
<1>4. PICK n \in Bad : \A m \in Bad : n <= m
  <2>1. Bad \in SUBSET Nat
    OBVIOUS
  <2>. HIDE DEF Bad
  <2>. QED  BY <1>3, <2>1, LeastElement
<1>5. n # 0
  BY <1>1, <1>4 DEF Skips
<1>6. n - 1 \in 0..number /\ n - 1 \notin Bad
  <2>1. n - 1 \in 0..number /\ ~(n <= n - 1)
    BY <1>4, <1>5
  <2>. HIDE DEF Bad
  <2>. QED  BY <1>4, <2>1
<1>7. f[n-1] = g[n-1]
  BY <1>6
<1>8. /\ f[n] = IF AtCell(f[n-1]) THEN SkipValue(f[n-1]) ELSE NullIterator
      /\ g[n] = IF AtCell(g[n-1]) THEN SkipValue(g[n-1]) ELSE NullIterator
  BY <1>1, <1>4, <1>5 DEF Skips
<1>. QED  BY <1>4, <1>7, <1>8

LEMMA WaysLead ==
    ASSUME NEW p \in Nat \ {0}, NEW b, NEW number \in Nat, NEW O \in Ways(pages[p], b, number)
    PROVE  LET it == GotoOffsetWithDelta(p, b, number)
           IN  /\ it.page = p /\ it.off = O[number] /\ (number # 0 => it.base = p /\ it.from = b)
               /\ it.nextPage = pages[p].next /\ IsIterator(it)
<1>. DEFINE page == pages[p]
            start == [IteratorAt(p) EXCEPT !.off = b]
            at(n) == [IteratorAt(p) EXCEPT !.off = O[n], !.base = p, !.from = b]
            walk == [n \in 0..number |-> IF n = 0 THEN start ELSE at(n)]
<1>1. /\ O \in [0..number -> DOMAIN page.cells] /\ O[0] = b /\ page.cells[b].kind = "full"
      /\ \A j \in 1..number : O[j] = O[j-1] + Occupied(page.cells[O[j-1]]) /\ page.cells[O[j]].kind = "delta"
  BY DEF Ways
<1>. HIDE DEF page
<1>2. ASSUME NEW n \in 1..number, NEW it, it = IF n = 1 THEN start ELSE at(n - 1)
      PROVE  AtCell(it) /\ SkipValue(it) = at(n)
  <2>1. n - 1 \in 0..number /\ O[n-1] \in DOMAIN page.cells
    BY <1>1
  <2>2. it.page = p /\ it.off = O[n-1]
    BY <1>1, <1>2 DEF IteratorAt
  <2>3. AtCell(it) /\ Cell(it) = page.cells[O[n-1]]
    BY <2>1, <2>2 DEF AtCell, Cell, Null, page
  <2>4. it.off + Occupied(Cell(it)) = O[n]
    BY <1>1, <2>2, <2>3
  <2>5. CASE n = 1
    <3>1. Cell(it).kind = "full"
      BY <1>1, <2>3, <2>5
    <3>2. Dereferenced(it) = [IteratorAt(p) EXCEPT !.off = b, !.base = p, !.from = b]
      BY <1>1, <1>2, <2>2, <2>5, <3>1 DEF Dereferenced, IteratorAt
    <3>. QED  BY <2>3, <2>4, <3>2 DEF SkipValue, IteratorAt
  <2>6. CASE n # 1
    <3>1. Cell(it).kind # "full"
      <4>1. n - 1 \in 1..number
        BY <2>6
      <4>. QED  BY <1>1, <2>3, <4>1
    <3>2. Dereferenced(it) = at(n - 1)
      BY <1>2, <2>6, <3>1 DEF Dereferenced
    <3>. QED  BY <2>3, <2>4, <3>2 DEF SkipValue, IteratorAt
  <2>. QED  BY <2>5, <2>6
<1>3. ASSUME NEW n \in 0..number
      PROVE  walk[n] = IF n = 0 THEN start
                       ELSE IF AtCell(walk[n-1]) THEN SkipValue(walk[n-1]) ELSE NullIterator
  <2>1. CASE n = 0
    BY <2>1
  <2>2. CASE n # 0
    <3>1. n \in 1..number /\ n - 1 \in 0..number
      BY <2>2
    <3>2. walk[n-1] = IF n = 1 THEN start ELSE at(n - 1)
      BY <3>1
    <3>3. AtCell(walk[n-1]) /\ SkipValue(walk[n-1]) = at(n)
      <4>. HIDE DEF walk, at, start
      <4>. QED  BY <1>2, <3>1, <3>2
    <3>. QED  BY <2>2, <3>3
  <2>. QED  BY <2>1, <2>2
<1>4. Skips(walk, p, b, number)
  <2>1. walk = [n \in 0..number |-> walk[n]]
    OBVIOUS
  <2>. HIDE DEF walk
  <2>. QED  BY <1>3, <2>1 DEF Skips
<1>5. GotoOffsetWithDelta(p, b, number) = walk[number]
  <2>. HIDE DEF walk
  <2>. QED  BY <1>4, SkipsAgree
<1>6. number \in 0..number
  OBVIOUS
<1>7. CASE number = 0
  BY <1>1, <1>5, <1>6, <1>7 DEF IteratorAt, IsIterator
<1>8. CASE number # 0
  BY <1>5, <1>6, <1>8 DEF IteratorAt, IsIterator
<1>. QED  BY <1>7, <1>8

\* A leaf that leads to a value decodes to it.
LEMMA LeadsReads ==
    ASSUME LoaderInv, ContentInv, NEW leaf, NEW i,
           Leads(kind, pages, slots, values, LeafPage(leaf), LeafOffset(leaf), i)
    PROVE  /\ Decodes(leaf) /\ i \in 1..Len(values)
           /\ GetId(DecodeLeaf(leaf)) = i /\ GetValue(DecodeLeaf(leaf)) = values[i]
<1>. DEFINE p == LeafPage(leaf)
            n == LeafOffset(leaf)
            it == DecodeLeaf(leaf)
<1>1. /\ p \in 1..Len(pages) /\ n \in Nat /\ LeadsOn(kind, pages[p], slots[p], values, n, i)
      /\ p \in Nat \ {0} /\ IsPage(pages[p]) /\ values \in Seq(Strings) /\ Short(values)
      /\ PageContent(kind, pages[p], slots[p], values)
  BY DEF Leads, LoaderInv, LoaderTypes, PagesInv, AllSound, IsSequence, SoundPage, ContentInv, Contents
<1>2. \A o \in DOMAIN pages[p].cells : pages[p].cells[o].str \in Strings
  BY <1>1 DEF IsPage, Cells, Strings
<1>3. CASE kind = "multi"
  <2>. DEFINE b == n \div DeltaNumbers
              number == n % DeltaNumbers
  <2>1. PICK o \in DOMAIN pages[p].cells : Run(pages[p], b, number, o, i, values)
    BY <1>1, <1>3 DEF LeadsOn
  <2>2. number \in Nat
    BY <1>1 DEF DeltaNumbers
  <2>3. it = GotoOffsetWithDelta(p, b, number)
    BY <1>3 DEF DecodeLeaf, Indirect
  <2>. HIDE DEF b, number, p, it
  <2>4. PICK O \in Ways(pages[p], b, number) : O[number] = o
    BY <2>1 DEF Run
  <2>5. it.page = p /\ it.off = o /\ (number # 0 => it.base = p /\ it.from = b)
    BY <1>1, <2>2, <2>3, <2>4, WaysLead
  <2>6. number = 0 <=> o = b
    <3>1. number = 0 => o = b
      BY <2>4 DEF Ways
    <3>2. number # 0 => o # b
      <4>. SUFFICES ASSUME number # 0 PROVE o # b
        OBVIOUS
      <4>1. number \in 1..number
        BY <2>2
      <4>. QED  BY <2>4, <4>1 DEF Ways
    <3>. QED  BY <3>1, <3>2
  <2>7. b \in DOMAIN pages[p].cells
    <3>1. 0 \in 0..number
      BY <2>2
    <3>. QED  BY <2>4, <3>1 DEF Ways
  <2>8. i \in 1..Len(values) /\ pages[p].cells[o] = IF o = b THEN FullCell(i, values[i])
                                 ELSE DeltaCell(i, pages[p].cells[b].str, values[i])
    BY <2>1, <2>6 DEF Run
  <2>9. HasValue(it) /\ GetId(it) = i /\ GetValue(it) = values[i]
    <3>1. values[i] \in Strings /\ Len(values[i]) < StringRange /\ i \in Nat
      BY <1>1, <2>8 DEF Short
    <3>2. p # Null /\ Stores(pages[p].cells, o, b, i, values[i]) /\ Stands(it, p, o, b)
      BY <1>1, <1>2, <2>1, <2>5, <2>6, <2>7, <2>8, <3>1 DEF Stores, Stands, Null
    <3>3. Reads(it, i, values[i])
      BY ONLY <3>2, CellReads
    <3>. QED  BY <3>3 DEF Reads
  <2>. QED  BY <1>1, <1>3, <2>8, <2>9 DEF Decodes, Indirect, p, it
<1>4. CASE kind # "multi"
  <2>. DEFINE o == Place(kind, slots[p], n)
  <2>1. /\ kind \in IndirectKinds => n <= Len(slots[p])
        /\ kind = "bottomup" /\ n = 1 => Len(slots[p]) # 0
        /\ o \in DOMAIN pages[p].cells /\ pages[p].cells[o].id = i
        /\ SoundCells(pages[p], values)
    BY <1>1, <1>4 DEF LeadsOn, PageContent
  <2>2. /\ 0 \in DOMAIN pages[p].cells /\ i \in 1..Len(values)
        /\ pages[p].cells[o] = IF o = 0 THEN FullCell(i, values[i])
                               ELSE DeltaCell(i, pages[p].cells[0].str, values[i])
    BY <2>1 DEF SoundCells
  <2>3. it.page = p /\ it.off = o /\ (o # 0 => it.base = p /\ it.from = 0)
    <3>1. CASE kind \in IndirectKinds
      BY <3>1 DEF DecodeLeaf, Indirect, IndirectKinds, GetIndexEntry, IteratorAt, Place
    <3>2. CASE kind \notin IndirectKinds /\ kind = "bottomup" /\ n = 1
      BY <2>1, <3>2 DEF DecodeLeaf, Indirect, IndirectKinds, LastOn, Entries, IteratorAt, Place
    <3>3. CASE kind \notin IndirectKinds /\ ~(kind = "bottomup" /\ n = 1)
      BY <1>4, <3>3 DEF DecodeLeaf, Indirect, IndirectKinds, GotoOffset, IteratorAt, Place
    <3>. QED  BY <3>1, <3>2, <3>3
  <2>. HIDE DEF o, it, p
  <2>4. HasValue(it) /\ GetId(it) = i /\ GetValue(it) = values[i]
    <3>1. values[i] \in Strings /\ Len(values[i]) < StringRange /\ i \in Nat
      BY <1>1, <2>2 DEF Short
    <3>2. p # Null /\ Stores(pages[p].cells, o, 0, i, values[i]) /\ Stands(it, p, o, 0)
      BY <1>1, <1>2, <2>1, <2>2, <2>3, <3>1 DEF Stores, Stands, Null
    <3>3. Reads(it, i, values[i])
      BY ONLY <3>2, CellReads
    <3>. QED  BY <3>3 DEF Reads
  <2>5. CASE kind \in IndirectKinds
    BY <1>1, <2>1, <2>2, <2>4, <2>5 DEF Decodes, Indirect, IndirectKinds, EntryExists, Entries, p, it
  <2>6. CASE kind \notin IndirectKinds
    <3>1. n # 0 /\ ~(kind = "bottomup" /\ n = 1) => o = n
      BY <2>6 DEF o, Place
    <3>2. ~(kind = "bottomup" /\ n = 1) => OffsetExists(p, n)
      BY <2>1, <2>2, <3>1 DEF OffsetExists, DeltaCell
    <3>. QED  BY <1>1, <2>2, <2>4, <2>6, <3>2 DEF Decodes, Indirect, IndirectKinds, p, it
  <2>. QED  BY <2>2, <2>4, <2>5, <2>6 DEF it
<1>. QED  BY <1>3, <1>4

\* What the invariants are for.
LEMMA LeavesInvDecodes ==
    ASSUME LoaderInv, ContentInv, LeavesInv
    PROVE  LeavesDecode
<1>1. ASSUME NEW leaf, NEW i, LeafTo(leaf, i), ~(i \in Announced)
      PROVE  /\ Decodes(leaf) /\ GetId(DecodeLeaf(leaf)) = i
             /\ GetValue(DecodeLeaf(leaf)) = values[i]
  <2>1. ~AnnouncedAt(LeafPage(leaf), LeafOffset(leaf), i)
    BY <1>1 DEF AnnouncedAt, Announced
  <2>2. Leads(kind, pages, slots, values, LeafPage(leaf), LeafOffset(leaf), i)
    BY <1>1, <2>1 DEF LeafTo, LeadsTo
  <2>. QED  BY <2>2, LeadsReads
<1>2. ASSUME NEW s \in DOMAIN reverseIndex \ { values[k] : k \in Announced }
      PROVE  Decodes(reverseIndex[s]) /\ GetValue(DecodeLeaf(reverseIndex[s])) = s
  <2>1. PICK i \in 1..Len(values) : values[i] = s /\ LeafTo(reverseIndex[s], i)
    BY DEF LeavesInv
  <2>2. ~(i \in Announced)
    BY <1>2, <2>1
  <2>. QED  BY <1>1, <2>1, <2>2
<1>3. ASSUME NEW i \in DOMAIN index \ Announced
      PROVE  Decodes(index[i]) /\ GetId(DecodeLeaf(index[i])) = i
  <2>1. LeafTo(index[i], i) /\ ~(i \in Announced)
    BY DEF LeavesInv
  <2>. QED  BY <1>1, <2>1
<1>. QED  BY <1>2, <1>3 DEF LeavesDecode

-----------------------------------------------------------------------------
(* The loaders only add to what is on the pages.                           *)

CellsStay(q, page) ==
    \A o \in DOMAIN page.cells : o \in DOMAIN q.cells /\ q.cells[o] = page.cells[o]

SlotStays(t, slot) ==
    Len(t) = Len(slot) /\ \A e \in 1..Len(slot) : slot[e] # Unwritten => t[e] = slot[e]

\* Pages qs with indexes ts have all that pages ps with indexes ss have.
Grown(qs, ts, ps, ss) ==
    /\ Len(ps) \in Nat /\ Len(qs) \in Nat /\ Len(ps) <= Len(qs)
    /\ \A p \in 1..Len(ps) : CellsStay(qs[p], ps[p]) /\ SlotStays(ts[p], ss[p])

LEMMA RunStays ==
    ASSUME NEW q, NEW page, CellsStay(q, page), NEW b, NEW number \in Nat,
           NEW o \in DOMAIN page.cells, NEW id, NEW vs, Run(page, b, number, o, id, vs)
    PROVE  Run(q, b, number, o, id, vs)
<1>1. PICK O \in Ways(page, b, number) : O[number] = o
  BY DEF Run
<1>2. /\ O \in [0..number -> DOMAIN page.cells] /\ O[0] = b /\ page.cells[b].kind = "full"
      /\ \A j \in 1..number : O[j] = O[j-1] + Occupied(page.cells[O[j-1]]) /\ page.cells[O[j]].kind = "delta"
  BY DEF Ways
<1>3. b \in DOMAIN page.cells
  <2>1. 0 \in 0..number
    OBVIOUS
  <2>. QED  BY <1>2, <2>1
<1>4. \A j \in 0..number : O[j] \in DOMAIN q.cells /\ q.cells[O[j]] = page.cells[O[j]]
  BY <1>2 DEF CellsStay
<1>5. O \in [0..number -> DOMAIN q.cells]
  BY <1>2, <1>4
<1>6. \A j \in 1..number : O[j] = O[j-1] + Occupied(q.cells[O[j-1]]) /\ q.cells[O[j]].kind = "delta"
  <2>1. \A j \in 1..number : j - 1 \in 0..number /\ j \in 0..number
    OBVIOUS
  <2>. QED  BY <1>2, <1>4, <2>1
<1>7. q.cells[b] = page.cells[b] /\ q.cells[o] = page.cells[o]
  BY <1>3 DEF CellsStay
<1>8. O \in Ways(q, b, number)
  BY <1>2, <1>5, <1>6, <1>7 DEF Ways
<1>. QED  BY <1>1, <1>7, <1>8 DEF Run

LEMMA LeadsStays ==
    ASSUME NEW k, NEW q, NEW t, NEW page, NEW slot, CellsStay(q, page), SlotStays(t, slot),
           IsPage(page), IsSequence(slot),
           NEW vs, NEW n \in Nat, NEW i, LeadsOn(k, page, slot, vs, n, i)
    PROVE  LeadsOn(k, q, t, vs, n, i)
<1>1. CASE k = "multi"
  <2>1. PICK o \in DOMAIN page.cells : Run(page, n \div DeltaNumbers, n % DeltaNumbers, o, i, vs)
    BY <1>1 DEF LeadsOn
  <2>2. n % DeltaNumbers \in Nat
    BY DEF DeltaNumbers
  <2>3. Run(q, n \div DeltaNumbers, n % DeltaNumbers, o, i, vs)
    BY <2>1, <2>2, RunStays
  <2>4. o \in DOMAIN q.cells
    BY <2>1 DEF CellsStay
  <2>. QED  BY <1>1, <2>3, <2>4 DEF LeadsOn
<1>2. CASE k # "multi"
  <2>. DEFINE o == Place(k, slot, n)
  <2>1. /\ o \in DOMAIN page.cells /\ page.cells[o].id = i
        /\ k \in IndirectKinds => n <= Len(slot)
        /\ k = "bottomup" /\ n = 1 => Len(slot) # 0
    BY <1>2 DEF LeadsOn
  <2>2. o \in Nat /\ Len(slot) \in Nat
    BY <2>1 DEF IsPage, IsSequence
  <2>3. Place(k, t, n) = o
    <3>1. CASE k \in IndirectKinds /\ n # 0
      <4>1. n \in 1..Len(slot) /\ slot[n] = o
        BY <2>1, <2>2, <3>1 DEF Place
      <4>. QED  BY <2>2, <3>1, <4>1 DEF Place, SlotStays, Unwritten
    <3>2. CASE k \notin IndirectKinds /\ k = "bottomup" /\ n = 1
      <4>1. Len(slot) \in 1..Len(slot) /\ slot[Len(slot)] = o
        BY <2>1, <2>2, <3>2 DEF Place
      <4>. QED  BY <2>2, <3>2, <4>1 DEF Place, SlotStays, Unwritten
    <3>3. CASE ~(k \in IndirectKinds /\ n # 0) /\ ~(k = "bottomup" /\ n = 1)
      BY <3>3 DEF Place, SlotStays
    <3>. QED  BY <3>1, <3>2, <3>3 DEF IndirectKinds
  <2>. HIDE DEF o
  <2>. QED  BY <1>2, <2>1, <2>3 DEF LeadsOn, CellsStay, SlotStays
<1>. QED  BY <1>1, <1>2

\* A leaf leads where it led.
LEMMA LeadsOnwards ==
    ASSUME NEW k, NEW ps, NEW ss, NEW zs, NEW c, AllSound(k, ps, ss, zs, c),
           NEW qs, NEW ts, Grown(qs, ts, ps, ss), NEW vs, NEW p, NEW n, NEW i, Leads(k, ps, ss, vs, p, n, i)
    PROVE  Leads(k, qs, ts, vs, p, n, i)
<1>1. p \in 1..Len(ps) /\ n \in Nat /\ LeadsOn(k, ps[p], ss[p], vs, n, i) /\ p \in 1..Len(qs)
  BY DEF Leads, Grown
<1>2. IsPage(ps[p]) /\ IsSequence(ss[p])
  BY <1>1 DEF AllSound, SoundPage
<1>3. LeadsOn(k, qs[p], ts[p], vs, n, i)
  BY <1>1, <1>2, LeadsStays DEF Grown
<1>. QED  BY <1>1, <1>3 DEF Leads

-----------------------------------------------------------------------------
(* How the actions change the pages.                                       *)

SameCells(qs, ps) == Len(qs) = Len(ps) /\ \A p \in 1..Len(ps) : qs[p].cells = ps[p].cells

\* qs has an empty page more than ps.
WithNew(qs, ps) ==
    /\ Len(qs) = Len(ps) + 1 /\ qs[Len(ps) + 1] = EmptyPage
    /\ \A p \in 1..Len(ps) : qs[p].cells = ps[p].cells

LEMMA NewBehind ==
    ASSUME NEW ps, NEW rs, IsSequence(rs), SameCells(rs, ps)
    PROVE  WithNew(Append(rs, EmptyPage), ps)
<1>. DEFINE qs == Append(rs, EmptyPage)
<1>1. Len(qs) = Len(rs) + 1 /\ (\A i \in 1..Len(rs) : qs[i] = rs[i]) /\ qs[Len(rs) + 1] = EmptyPage
  BY AppendSequence
<1>. HIDE DEF qs
<1>2. WithNew(qs, ps)
  BY <1>1 DEF WithNew, SameCells
<1>. QED  BY <1>2 DEF qs

LEMMA CompletedSame ==
    ASSUME LoaderInv
    PROVE  SameCells(Completed, pages) /\ WithNew(Append(Completed, EmptyPage), pages)
<1>1. Len(pages) \in Nat
  BY DEF LoaderInv, PagesInv, AllSound, IsSequence
<1>2. /\ IsSequence(Completed) /\ Len(Completed) = Len(pages)
      /\ \A p \in 1..Len(pages) :
            Completed[p] = IF p = current THEN Finished(pages[p], dataPtr, pages[p].next)
                           ELSE IF p = current - 1 THEN [pages[p] EXCEPT !.next = current]
                           ELSE pages[p]
  BY <1>1 DEF Completed, IsSequence
<1>3. ASSUME NEW p \in 1..Len(pages)
      PROVE  Completed[p].cells = pages[p].cells
  <2>1. IsPage(pages[p])
    BY DEF LoaderInv, PagesInv, AllSound, SoundPage
  <2>2. [pages[p] EXCEPT !.next = current].cells = pages[p].cells
    BY <2>1 DEF IsPage
  <2>3. Finished(pages[p], dataPtr, pages[p].next).cells = pages[p].cells
    BY DEF Finished
  <2>. QED  BY <1>2, <2>2, <2>3
<1>4. SameCells(Completed, pages)
  BY <1>2, <1>3 DEF SameCells
<1>. QED  BY <1>2, <1>4, NewBehind

LEMMA LinkedSame ==
    ASSUME LoaderInv
    PROVE  WithNew(PagesAndNew, pages)
<1>. DEFINE rs == IF current = Null THEN pages
                  ELSE [pages EXCEPT ![current] = Finished(@, dataPtr, Len(pages) + 1)]
<1>1. IsSequence(pages) /\ Len(pages) \in Nat /\ current \in 0..Len(pages)
  BY DEF LoaderInv, PagesInv, AllSound, IsSequence, LoaderTypes
<1>2. IsSequence(rs) /\ SameCells(rs, pages)
  <2>1. CASE current = Null
    BY <1>1, <2>1 DEF SameCells
  <2>2. CASE current # Null
    <3>. DEFINE page == Finished(pages[current], dataPtr, Len(pages) + 1)
    <3>1. current \in 1..Len(pages)
      BY <1>1, <2>2 DEF Null
    <3>2. page.cells = pages[current].cells
      BY DEF Finished
    <3>3. rs = [pages EXCEPT ![current] = page]
      BY <2>2
    <3>. HIDE DEF rs, page
    <3>4. Replaced(rs, pages, current, page)
      BY <1>1, <3>1, <3>3, ReplacedEntry
    <3>. QED  BY <3>2, <3>4 DEF Replaced, SameCells
  <2>. QED  BY <2>1, <2>2
<1>3. PagesAndNew = Append(rs, EmptyPage)
  BY DEF PagesAndNew
<1>. HIDE DEF rs
<1>. QED  BY <1>2, <1>3, NewBehind

LEMMA SameContent ==
    ASSUME NEW k, NEW page, NEW slot, NEW vs, PageContent(k, page, slot, vs), NEW q, q.cells = page.cells
    PROVE  PageContent(k, q, slot, vs) /\ CellsStay(q, page) /\ SlotStays(slot, slot)
BY DEF PageContent, SoundCells, EntriesLead, CellsStay, SlotStays

\* There is an index more, which is only reserved.
Opened(ts, ss, slot) == Reserved(slot) /\ ts = Append(ss, slot)

\* A new page is as good as the others, and changes nothing on them.
LEMMA OpenedContent ==
    ASSUME NEW k, NEW ps, NEW ss, NEW zs, NEW b, AllSound(k, ps, ss, zs, b),
           NEW vs, Contents(k, ps, ss, vs),
           NEW qs, WithNew(qs, ps), NEW ts, NEW slot, Opened(ts, ss, slot)
    PROVE  Grown(qs, ts, ps, ss) /\ ts[Len(ps) + 1] = slot /\ Contents(k, qs, ts, vs)
<1>. USE DEF Contents, Opened
<1>1. Len(ps) \in Nat /\ IsSequence(ss) /\ Len(ss) = Len(ps)
  BY DEF AllSound, IsSequence
<1>2. (\A p \in 1..Len(ps) : ts[p] = ss[p]) /\ ts[Len(ps) + 1] = slot
  BY <1>1, AppendSequence
<1>3. PageContent(k, EmptyPage, slot, vs)
  BY EmptyPageProperties DEF PageContent, SoundCells, EntriesLead, Reserved
<1>4. ASSUME NEW p \in 1..Len(ps)
      PROVE  PageContent(k, qs[p], ts[p], vs) /\ CellsStay(qs[p], ps[p]) /\ SlotStays(ts[p], ss[p])
  BY <1>2, SameContent DEF WithNew
<1>5. Grown(qs, ts, ps, ss)
  BY <1>1, <1>4 DEF Grown, WithNew
<1>6. \A p \in 1..Len(qs) : PageContent(k, qs[p], ts[p], vs)
  <2>1. \A p \in 1..Len(qs) : p \in 1..Len(ps) \/ p = Len(ps) + 1
    BY <1>1 DEF WithNew
  <2>. QED  BY <1>2, <1>3, <1>4, <2>1 DEF WithNew
<1>. QED  BY <1>2, <1>5, <1>6

\* One page gets more cells and entries.
LEMMA WrittenContent ==
    ASSUME NEW k, NEW ps, NEW ss, NEW zs, NEW b, AllSound(k, ps, ss, zs, b), NEW vs,
           Contents(k, ps, ss, vs),
           NEW i \in 1..Len(ps), NEW q, NEW t, CellsStay(q, ps[i]), SlotStays(t, ss[i]),
           PageContent(k, q, t, vs), NEW qs, Replaced(qs, ps, i, q), NEW ts, Replaced(ts, ss, i, t)
    PROVE  Grown(qs, ts, ps, ss) /\ Contents(k, qs, ts, vs)
<1>. USE DEF Replaced, Contents
<1>1. Len(ps) \in Nat /\ Len(ss) = Len(ps) /\ Len(qs) = Len(ps)
  BY DEF AllSound, IsSequence
<1>2. ASSUME NEW p \in 1..Len(ps)
      PROVE  PageContent(k, qs[p], ts[p], vs) /\ CellsStay(qs[p], ps[p]) /\ SlotStays(ts[p], ss[p])
  <2>1. CASE p = i
    BY <1>1, <2>1
  <2>2. CASE p # i
    BY <1>1, <2>2, SameContent
  <2>. QED  BY <2>1, <2>2
<1>. QED  BY <1>1, <1>2 DEF Grown

\* A new cell disturbs no other.
LEMMA CellAdded ==
    ASSUME NEW page, IsPage(page), NEW off \in Nat, off \notin DOMAIN page.cells, NEW cell \in Cells
    PROVE  LET q == WithCell(page, off, cell)
           IN  /\ CellsStay(q, page) /\ IsPage(q) /\ q.cells[off] = cell
               /\ DOMAIN q.cells = (DOMAIN page.cells) \union {off}
<1>. DEFINE q == WithCell(page, off, cell)
<1>1. /\ IsPage(q) /\ DOMAIN q.cells = (DOMAIN page.cells) \union {off} /\ q.cells[off] = cell
      /\ \A o \in DOMAIN page.cells : o # off => q.cells[o] = page.cells[o]
  BY WithCellProperties
<1>. HIDE DEF q
<1>2. CellsStay(q, page)
  BY <1>1 DEF CellsStay
<1>. QED  BY <1>1, <1>2 DEF q

-----------------------------------------------------------------------------
(* What leads to a value leads to it after every step.                     *)

Onwards ==
    /\ Grown(pages', slots', pages, slots) /\ UNCHANGED <<kind, values>>
    /\ \A p, n, i : AnnouncedAt(p, n, i) => LeadsTo(p, n, i)'

LEMMA LeadsToOnwards ==
    ASSUME LoaderInv, Onwards, NEW p, NEW n, NEW i, LeadsTo(p, n, i)
    PROVE  LeadsTo(p, n, i)'
<1>1. CASE AnnouncedAt(p, n, i)
  BY <1>1 DEF Onwards
<1>2. CASE Leads(kind, pages, slots, values, p, n, i)
  <2>. DEFINE qs == pages'
              ts == slots'
  <2>1. /\ AllSound(kind, pages, slots, sizes, Len(pages)) /\ Grown(qs, ts, pages, slots)
        /\ Leads(kind, pages, slots, values, p, n, i)
    BY <1>2 DEF LoaderInv, PagesInv, Onwards
  <2>. HIDE DEF qs, ts
  <2>2. Leads(kind, qs, ts, values, p, n, i)
    BY ONLY <2>1, LeadsOnwards
  <2>. QED  BY <2>2 DEF LeadsTo, Onwards, qs, ts
<1>. QED  BY <1>1, <1>2 DEF LeadsTo

LEMMA LeavesKept ==
    ASSUME LoaderInv, LeavesInv, Onwards, UNCHANGED <<index, reverseIndex>>
    PROVE  LeavesInv'
<1>1. ASSUME NEW leaf, NEW i, LeafTo(leaf, i)
      PROVE  LeafTo(leaf, i)'
  BY <1>1, LeadsToOnwards DEF LeafTo
<1>2. values' = values
  BY DEF Onwards
<1>3. ASSUME NEW s \in DOMAIN reverseIndex
      PROVE  \E i \in 1..Len(values) : values[i] = s /\ LeafTo(reverseIndex[s], i)'
  BY <1>1 DEF LeavesInv
<1>4. ASSUME NEW i \in DOMAIN index
      PROVE  i \in 1..Len(values) /\ LeafTo(index[i], i)'
  BY <1>1 DEF LeavesInv
<1>. QED  BY <1>2, <1>3, <1>4 DEF LeavesInv, LeafTo

-----------------------------------------------------------------------------
(* The steps of the loaders.                                               *)

\* What an action that moves the loaders on has to establish.
Advances == ContentInv' /\ PendingInv' /\ Onwards

\* The number of deltas on a page that is not dynamic fits in 16 bits.
LEMMA FewDeltas ==
    ASSUME NEW k, k \notin Unindexed, NEW vs \in Seq(Strings), Short(vs), NEW first, NEW n, NEW size,
           Counted(k, vs, first, n, size), size <= OffsetRange
    PROVE  n < OffsetRange
<1>1. first \in 1..Len(vs) /\ n \in Nat /\ first + n <= Len(vs) /\ size \in Nat /\ 0 \in 0..n
  BY DEF Counted
<1>2. /\ Room(k, vs, first, n, 0) = IndexBytes(k, 0) + FullHeader + Len(vs[first])
      /\ Room(k, vs, first, n, 0) + SlotSize(k) * (n - 0) <= Room(k, vs, first, n, n)
      /\ Len(vs[first]) \in Nat
  BY <1>1, RoomGrows
<1>3. Room(k, vs, first, n, n) \in Nat
  <2>1. n \in 0..n
    BY <1>1
  <2>. QED  BY <1>1, <2>1, RoomGrows
<1>4. SlotSize(k) * (n - 0) = n + n
  BY <1>1 DEF SlotSize, OffsetSize
<1>5. IndexBytes(k, 0) \in Nat
  BY DEF IndexBytes, IndexHeader, OffsetSize
<1>6. Room(k, vs, first, n, n) + EndHeader <= size
  BY <1>3 DEF Counted
<1>7. Room(k, vs, first, n, 0) + (n + n) <= Room(k, vs, first, n, n)
  BY <1>2, <1>4
<1>8. Room(k, vs, first, n, 0) \in Nat
  BY <1>2, <1>5 DEF FullHeader
<1>9. n + n < size
  <2>1. Room(k, vs, first, n, n) < size
    BY <1>1, <1>3, <1>6 DEF EndHeader
  <2>2. n + n <= Room(k, vs, first, n, n)
    BY <1>1, <1>3, <1>7, <1>8
  <2>. QED  BY <1>1, <1>3, <2>1, <2>2
<1>. QED  BY <1>1, <1>9, OffsetRangeAssumption

\* The last entry of a page that is complete leads to the last value before pos; if
\* there is none, that is the first value of the page, which the tree has.
LEMMA LastLeads ==
    ASSUME LoaderInv, ContentInv, OnceInv, kind = "bottomup", pc = "loop", current # Null,
           deltaNumber = numberOfDeltas + 1
    PROVE  /\ Leads(kind, pages, slots, values, current, 1, pos - 1) \/ InTree(values[pos - 1])
           /\ pos - 1 \in 1..Len(values) /\ current \in 1..Len(pages)
<1>. DEFINE n == numberOfDeltas
            page == pages[current]
            slot == slots[current]
<1>1. /\ n \in Nat /\ pos \in Nat /\ pos \in 1..(Len(values) + 1) /\ Len(pages) \in Nat
      /\ current \in 1..Len(pages) /\ current = Len(pages) /\ Len(pages) < pos
  BY DEF LoaderInv, LoaderTypes, PagesInv, AllSound, IsSequence, Null, ContentInv
<1>2. CountedInv /\ CurrentInv /\ deltaNumber # 0 /\ PageContent(kind, page, slot, values)
  BY <1>1 DEF LoaderInv, StepInv, ContentInv, Contents, Busy
<1>3. Len(slot) = n /\ 0 \in DOMAIN page.cells
  BY <1>2 DEF CountedInv, Unindexed, Reached
<1>4. First = pos - (n + 1) /\ page.cells[0].id = First
  BY <1>2 DEF First, CurrentInv
<1>5. n # 0 => slot[n] \in DOMAIN page.cells /\ page.cells[slot[n]].id = page.cells[0].id + n
  <2>. SUFFICES ASSUME n # 0
                PROVE  slot[n] \in DOMAIN page.cells /\ page.cells[slot[n]].id = page.cells[0].id + n
    OBVIOUS
  <2>1. n \in 1..Len(slot) /\ n < deltaNumber
    BY <1>1, <1>3
  <2>2. slot[n] # Unwritten
    BY <1>2, <2>1 DEF CurrentInv, Unindexed
  <2>3. EntriesLead(page, slot)
    BY <1>2 DEF PageContent
  <2>. QED  BY <2>1, <2>2, <2>3 DEF EntriesLead
<1>6. n = 0 => InTree(values[pos - 1])
  <2>1. n = 0 => slot = <<>>
    BY <1>2, <1>3 DEF CountedInv, Unindexed, Reached
  <2>. QED  BY <2>1 DEF OnceInv
<1>7. n # 0 => LeadsOn(kind, page, slot, values, 1, pos - 1)
  <2>. SUFFICES ASSUME n # 0
                PROVE  LeadsOn(kind, page, slot, values, 1, pos - 1)
    OBVIOUS
  <2>1. Place(kind, slot, 1) = slot[n]
    BY <1>3 DEF Place, IndirectKinds
  <2>2. page.cells[slot[n]].id = pos - 1
    BY <1>1, <1>4, <1>5
  <2>. QED  BY <1>3, <1>5, <2>1, <2>2 DEF LeadsOn, IndirectKinds
<1>8. pos - 1 \in 1..Len(values)
  BY <1>1
<1>. QED  BY <1>1, <1>6, <1>7, <1>8 DEF Leads

LEMMA OpenPageAdvances ==
    ASSUME FitsWidths, LeavesFit, LoaderInv, ContentInv, OnceInv, OpenPage,
           UNCHANGED reverseIndex
    PROVE  Advances
<1>. DEFINE slot == IF RoomFor(0) > EndOfPage THEN <<>>
                    ELSE [i \in 1..DeltasThatFit |-> Unwritten]
            new == Len(pages) + 1
<1>1. /\ kind \in {"slotted", "bottomup"} /\ pc = "loop" /\ pos <= Len(values) /\ PageComplete
      /\ pages' = PagesAndNew /\ slots' = Append(slots, slot)
      /\ current' = new /\ dataPtr' = 0 /\ deltaNumber' = 0
      /\ UNCHANGED <<kind, values, pos, valuePtr>>
  BY DEF OpenPage, Looping
<1>2. \/ RoomFor(0) > EndOfPage /\ pc' \in {"threw", "terminated"}
      \/ /\ ~(RoomFor(0) > EndOfPage) /\ numberOfDeltas' = DeltasThatFit
         /\ \/ /\ RetroInserts(current) /\ pc' = "callback"
               /\ pending' = [page |-> current, delta |-> 0, offset |-> valuePtr.off % OffsetRange,
                              id |-> pos - 1, value |-> values[pos - 1]]
            \/ pc' = "open" /\ UNCHANGED pending
  BY DEF OpenPage, Callback
<1>3. /\ Len(pages) \in Nat /\ new \in Nat /\ pos \in 1..Len(values)
      /\ AllSound(kind, pages, slots, sizes, Len(pages))
      /\ values \in Seq(Strings) /\ Short(values) /\ kind \notin Unindexed
      /\ current = Len(pages) /\ Len(pages) < pos /\ kind # "multi" /\ ~Dynamic
      /\ Contents(kind, pages, slots, values) /\ values \in Inputs \union {<<>>}
  BY <1>1 DEF LoaderInv, PagesInv, AllSound, IsSequence, LoaderTypes, ContentInv, Unindexed, Dynamic
<1>4. ~(RoomFor(0) > EndOfPage) => DeltasThatFit \in Nat /\ DeltasThatFit < OffsetRange
  <2>. SUFFICES ASSUME ~(RoomFor(0) > EndOfPage)
                PROVE  DeltasThatFit \in Nat /\ DeltasThatFit < OffsetRange
    OBVIOUS
  <2>1. Counted(kind, values, pos, DeltasThatFit, PageSize)
    BY <1>1, FirstFits, Fitting
  <2>2. PageSize <= OffsetRange
    BY DEF FitsWidths
  <2>. QED  BY <1>3, <2>1, <2>2, FewDeltas DEF Counted
<1>5. Reserved(slot)
  BY <1>4, ReservedIndex
<1>. HIDE DEF slot
<1>6. WithNew(pages', pages)
  BY <1>1, LinkedSame
<1>7. /\ Grown(pages', slots', pages, slots) /\ slots'[new] = slot
      /\ Contents(kind, pages', slots', values)
  <2>. DEFINE qs == pages'
              ts == slots'
  <2>1. /\ AllSound(kind, pages, slots, sizes, Len(pages)) /\ WithNew(qs, pages)
        /\ Contents(kind, pages, slots, values) /\ Opened(ts, slots, slot)
    BY <1>1, <1>3, <1>5, <1>6 DEF Opened
  <2>. HIDE DEF qs, ts
  <2>2. /\ Grown(qs, ts, pages, slots) /\ ts[Len(pages) + 1] = slot
        /\ Contents(kind, qs, ts, values)
    BY ONLY <2>1, OpenedContent
  <2>. QED  BY <2>2 DEF qs, ts
<1>8. Onwards
  BY <1>1, <1>3, <1>7 DEF Onwards, AnnouncedAt
<1>9. Len(pages') = new /\ pages'[new] = EmptyPage
  BY <1>6 DEF WithNew
<1>10. Busy' => CurrentInv'
  <2>. SUFFICES ASSUME Busy' PROVE CurrentInv'
    OBVIOUS
  <2>1. numberOfDeltas' < OffsetRange
    BY <1>2, <1>4 DEF Busy
  <2>2. DOMAIN pages'[current'].cells = {}
    BY <1>1, <1>9, EmptyPageProperties
  <2>3. \A e \in 1..Len(slots'[current']) : slots'[current'][e] # Unwritten <=> e < deltaNumber'
    <3>1. \A e \in 1..Len(slot) : slot[e] = Unwritten /\ ~(e < 0)
      BY <1>5 DEF Reserved, IsSequence
    <3>. QED  BY <1>1, <1>7, <3>1
  <2>. QED  BY <1>1, <1>3, <2>1, <2>2, <2>3 DEF CurrentInv
<1>11. ContentInv'
  <2>1. pc' # "loop"
    BY <1>2
  <2>2. current' = Len(pages') /\ Len(pages') <= pos'
    BY <1>1, <1>3, <1>9
  <2>. QED  BY <1>1, <1>7, <1>10, <2>1, <2>2 DEF ContentInv
<1>12. PendingInv'
  <2>. SUFFICES ASSUME pc' \in {"callback", "indexed"} PROVE PendingInv'
    BY DEF PendingInv
  <2>1. /\ RetroInserts(current)
        /\ pending' = [page |-> current, delta |-> 0, offset |-> valuePtr.off % OffsetRange,
                       id |-> pos - 1, value |-> values[pos - 1]]
    BY <1>2
  <2>2. kind = "bottomup" /\ current # Null
    BY <2>1 DEF RetroInserts
  <2>3. /\ Leads(kind, pages, slots, values, current, 1, pos - 1) \/ InTree(values[pos - 1])
        /\ pos - 1 \in 1..Len(values) /\ current \in 1..Len(pages)
    BY <1>1, <2>2, LastLeads DEF PageComplete
  <2>4. \A p, n, i : LeadsTo(p, n, i) => LeadsTo(p, n, i)'
    BY <1>8, LeadsToOnwards
  <2>5. PICK p, i : p = current /\ i = pos - 1
    OBVIOUS
  <2>6. LeadsTo(p, 1, i) \/ InTree(values[i])
    BY <2>3, <2>5 DEF LeadsTo
  <2>7. LeadsTo(p, 1, i)' \/ InTree(values[i])'
    BY <1>1, <2>4, <2>6 DEF InTree
  <2>8. p \in 1..Len(pages') /\ i \in 1..Len(values) /\ 1 \in 0..(OffsetRange - 1)
    BY <1>3, <1>9, <2>3, <2>5, OffsetRangeAssumption DEF LeavesFit
  <2>9. /\ pending'.page = p /\ pending'.delta = 0 /\ pending'.id = i /\ pending'.value = values'[i]
        /\ kind' = "bottomup" /\ values' = values
    BY <1>1, <2>1, <2>2, <2>5
  <2>10. ReverseNumber' = 1 /\ ~ForIndex' /\ ForReverse' /\ pc' = "callback"
    BY <1>2, <2>9 DEF ReverseNumber, ForIndex, ForReverse
  <2>. QED  BY <2>7, <2>8, <2>9, <2>10 DEF PendingInv
<1>. QED  BY <1>8, <1>11, <1>12 DEF Advances

\* The first value of a dynamic page is announced.
LEMMA OpenBlockAdvances ==
    ASSUME LeavesFit, LoaderInv, ContentInv, OpenBlock
    PROVE  Advances
<1>. DEFINE slot == [i \in 1..(IF kind = "dynamic" THEN 0 ELSE Block) |-> Unwritten]
            new == Len(pages) + 1
<1>1. /\ Dynamic /\ pc = "loop" /\ pos <= Len(values)
      /\ pages' = Append(Completed, EmptyPage) /\ slots' = Append(slots, slot)
      /\ current' = new /\ dataPtr' = 0 /\ deltaNumber' = 0 /\ numberOfDeltas' = Block
      /\ UNCHANGED <<kind, values, pos, valuePtr>>
  BY DEF OpenBlock, Looping
<1>2. \/ /\ EntriesFit /\ pc' = "callback"
         /\ pending' = [page |-> new, delta |-> 0, offset |-> 0 % OffsetRange,
                        id |-> pos, value |-> values[pos]]
      \/ pc' = "terminated"
  BY DEF OpenBlock, Callback
<1>3. /\ Len(pages) \in Nat /\ new \in Nat /\ pos \in 1..Len(values)
      /\ AllSound(kind, pages, slots, sizes, Len(pages))
      /\ current \in 0..Len(pages) /\ (current # Null => deltaNumber # 0)
      /\ current = Len(pages) /\ Len(pages) < pos /\ kind \in DynamicKinds /\ kind # "multi"
      /\ Contents(kind, pages, slots, values) /\ values \in Inputs \union {<<>>}
  <2>1. current # Null => deltaNumber # 0
    BY <1>1 DEF LoaderInv, StepInv
  <2>2. kind \in DynamicKinds /\ kind # "multi"
    BY <1>1 DEF Dynamic, DynamicKinds
  <2>3. current = Len(pages) /\ Len(pages) < pos /\ Contents(kind, pages, slots, values) /\ values \in Inputs \union {<<>>}
    BY <1>1 DEF ContentInv
  <2>. QED  BY <1>1, <2>1, <2>2, <2>3 DEF LoaderInv, PagesInv, AllSound, IsSequence, LoaderTypes
<1>4. Block \in Nat
  BY <1>3, BlockBehind
<1>5. Reserved(slot)
  BY <1>4, ReservedIndex
<1>. HIDE DEF slot
<1>6. WithNew(pages', pages)
  BY <1>1, CompletedSame
<1>7. /\ Grown(pages', slots', pages, slots) /\ slots'[new] = slot
      /\ Contents(kind, pages', slots', values)
  <2>. DEFINE qs == pages'
              ts == slots'
  <2>1. /\ AllSound(kind, pages, slots, sizes, Len(pages)) /\ WithNew(qs, pages)
        /\ Contents(kind, pages, slots, values) /\ Opened(ts, slots, slot)
    BY <1>1, <1>3, <1>5, <1>6 DEF Opened
  <2>. HIDE DEF qs, ts
  <2>2. /\ Grown(qs, ts, pages, slots) /\ ts[Len(pages) + 1] = slot
        /\ Contents(kind, qs, ts, values)
    BY ONLY <2>1, OpenedContent
  <2>. QED  BY <2>2 DEF qs, ts
<1>8. Onwards
  BY <1>1, <1>3, <1>7 DEF Onwards, AnnouncedAt
<1>9. Len(pages') = new /\ pages'[new] = EmptyPage
  BY <1>6 DEF WithNew
<1>10. Busy' => CurrentInv'
  <2>. SUFFICES ASSUME Busy' PROVE CurrentInv'
    OBVIOUS
  <2>1. kind \notin Unindexed => numberOfDeltas' < OffsetRange
    BY <1>1, <1>2, <1>3 DEF Busy, EntriesFit, DynamicKinds, Unindexed
  <2>2. DOMAIN pages'[current'].cells = {}
    BY <1>1, <1>9, EmptyPageProperties
  <2>3. \A e \in 1..Len(slots'[current']) : slots'[current'][e] # Unwritten <=> e < deltaNumber'
    <3>1. \A e \in 1..Len(slot) : slot[e] = Unwritten /\ ~(e < 0)
      BY <1>5 DEF Reserved, IsSequence
    <3>. QED  BY <1>1, <1>7, <3>1
  <2>. QED  BY <1>1, <1>3, <2>1, <2>2, <2>3 DEF CurrentInv
<1>11. ContentInv'
  <2>1. pc' # "loop"
    BY <1>2
  <2>2. current' = Len(pages') /\ Len(pages') <= pos'
    BY <1>1, <1>3, <1>9
  <2>. QED  BY <1>1, <1>3, <1>7, <1>10, <2>1, <2>2 DEF ContentInv
<1>12. PendingInv'
  <2>. SUFFICES ASSUME pc' \in {"callback", "indexed"} PROVE PendingInv'
    BY DEF PendingInv
  <2>1. /\ pending'.page = new /\ pending'.delta = 0 /\ pending'.offset = 0
        /\ pending'.id = pos' /\ pending'.value = values'[pos']
    BY <1>1, <1>2, OffsetRangeAssumption
  <2>2. kind' # "bottomup" /\ Dynamic'
    BY <1>1, <1>3 DEF DynamicKinds, Dynamic
  <2>3. ReverseNumber' = 0 /\ IdNumber' = 0 /\ 0 \in 0..(OffsetRange - 1) /\ ForIndex'
    BY <2>1, <2>2, OffsetRangeAssumption DEF ReverseNumber, IdNumber, LeavesFit, ForIndex
  <2>4. AnnouncedAt(pending.page, 0, pending.id)'
    BY <1>1, <1>3, <2>1, <2>2 DEF AnnouncedAt, Null
  <2>5. /\ pending'.id \in 1..Len(values') /\ pending'.page \in 1..Len(pages')
        /\ pending'.value = values'[pending'.id]
    BY <1>1, <1>3, <1>9, <2>1
  <2>. QED  BY <2>3, <2>4, <2>5 DEF PendingInv, LeadsTo
<1>. QED  BY <1>8, <1>11, <1>12 DEF Advances

\* An empty page of which at most the index is reserved.
Fresh(k, page, slot) ==
    /\ k # "multi" /\ IsPage(page) /\ DOMAIN page.cells = {}
    /\ k # "dynamic" => Reserved(slot)

IsValue(vs, id, v) == id \in 1..Len(vs) /\ id \in Nat /\ v \in Strings /\ Len(v) < StringRange /\ vs[id] = v

\* q is page with its first value in this cell.
FirstOn(k, q, page, slot, vs, id, cell) ==
    /\ PageContent(k, q, slot, vs) /\ CellsStay(q, page) /\ DOMAIN q.cells = {0}
    /\ q.cells[0].id = id /\ Written(cell) \in Nat /\ 0 < Written(cell)

\* A page that is empty gets its first value.
LEMMA FirstCell ==
    ASSUME NEW k, NEW page, NEW slot, Fresh(k, page, slot), NEW vs, NEW id, NEW v, IsValue(vs, id, v)
    PROVE  FirstOn(k, WithCell(page, 0, FullCell(id, v)), page, slot, vs, id, FullCell(id, v))
<1>. DEFINE cell == FullCell(id, v)
            q    == WithCell(page, 0, cell)
<1>. USE DEF Fresh, IsValue
<1>1. cell \in Cells /\ cell.id = id /\ Written(cell) = FullHeader + Len(v)
  BY FullCellProperties
<1>2. CellsStay(q, page) /\ q.cells[0] = cell /\ DOMAIN q.cells = {0}
  <2>. HIDE DEF cell
  <2>1. CellsStay(q, page) /\ q.cells[0] = cell /\ DOMAIN q.cells = (DOMAIN page.cells) \union {0}
    BY <1>1, CellAdded
  <2>. QED  BY <2>1
<1>3. Written(cell) \in Nat /\ 0 < Written(cell)
  <2>1. Len(v) \in Nat
    BY DEF Strings
  <2>. QED  BY <1>1, <2>1 DEF FullHeader
<1>. HIDE DEF q
<1>4. SoundCells(q, vs)
  BY <1>1, <1>2 DEF SoundCells, cell
<1>. HIDE DEF cell
<1>5. k # "dynamic" => EntriesLead(q, slot)
  BY DEF EntriesLead, Reserved
<1>. QED  BY <1>1, <1>2, <1>3, <1>4, <1>5 DEF FirstOn, PageContent, q, cell

LEMMA WriteFullAdvances ==
    ASSUME LeavesFit, LoaderInv, ContentInv, WriteFull
    PROVE  Advances
<1>. DEFINE cell == FullCell(pos, values[pos])
            page == WithCell(pages[current], 0, cell)
<1>1. /\ pc = "open" /\ pages' = [pages EXCEPT ![current] = page]
      /\ dataPtr' = Written(cell) /\ deltaNumber' = 1
      /\ UNCHANGED <<kind, slots, sizes, values, current, numberOfDeltas, valuePtr>>
  BY DEF WriteFull
<1>2. \/ Dynamic /\ pc' = "loop" /\ pos' = pos + 1
      \/ /\ ~Dynamic /\ pc' = "callback" /\ pos' = pos
         /\ pending' = [page |-> current, delta |-> IF kind = "slotted" THEN 0 ELSE 1,
                        offset |-> 0 % OffsetRange, id |-> pos, value |-> values[pos]]
  BY DEF WriteFull, Callback
<1>3. current # Null /\ pos <= Len(values) /\ deltaNumber = 0 /\ kind # "multi" /\ Busy
  BY <1>1 DEF LoaderInv, StepInv, Busy
<1>4. /\ Len(pages) \in Nat /\ pos \in 1..Len(values) /\ pos \in Nat /\ values[pos] \in Strings
      /\ current \in 1..Len(pages) /\ current = Len(pages) /\ Len(pages) <= pos
      /\ AllSound(kind, pages, slots, sizes, Len(pages)) /\ kind \in Kinds
  BY <1>1, <1>3 DEF LoaderInv, PagesInv, AllSound, IsSequence, LoaderTypes, Null, ContentInv
<1>5. /\ CurrentInv /\ dataPtr = 0 /\ DOMAIN pages[current].cells = {} /\ IsPage(pages[current])
      /\ IsSequence(slots) /\ IsSequence(slots[current]) /\ Len(slots) = Len(pages)
  <2>1. CurrentInv /\ dataPtr = 0
    BY <1>3 DEF ContentInv, CurrentInv
  <2>2. IsPage(pages[current]) /\ IsSequence(slots) /\ IsSequence(slots[current]) /\ Len(slots) = Len(pages)
    BY <1>4 DEF AllSound, SoundPage
  <2>3. \A o \in DOMAIN pages[current].cells : o \in Nat /\ o < 0
    BY <2>1, <2>2 DEF CurrentInv, IsPage
  <2>4. \A o \in Nat : ~(o < 0)
    OBVIOUS
  <2>. QED  BY <2>1, <2>2, <2>3, <2>4
<1>6. kind # "dynamic" => Reserved(slots[current])
  <2>. SUFFICES ASSUME kind # "dynamic" PROVE Reserved(slots[current])
    OBVIOUS
  <2>1. \A e \in 1..Len(slots[current]) : slots[current][e] # Unwritten <=> e < 0
    BY <1>3, <1>5 DEF CurrentInv, Unindexed
  <2>2. \A e \in 1..Len(slots[current]) : ~(e < 0)
    OBVIOUS
  <2>. QED  BY <1>5, <2>1, <2>2 DEF Reserved
<1>7. /\ PageContent(kind, page, slots[current], values) /\ CellsStay(page, pages[current])
      /\ DOMAIN page.cells = {0} /\ page.cells[0].id = pos /\ Written(cell) \in Nat /\ 0 < Written(cell)
  <2>1. Fresh(kind, pages[current], slots[current]) /\ IsValue(values, pos, values[pos])
    BY <1>3, <1>4, <1>5, <1>6 DEF Fresh, IsValue, LoaderInv, LoaderTypes, Short
  <2>. DEFINE v == values[pos]
  <2>. HIDE DEF v
  <2>2. FirstOn(kind, WithCell(pages[current], 0, FullCell(pos, v)), pages[current], slots[current],
                values, pos, FullCell(pos, v))
    BY <2>1, FirstCell DEF v
  <2>. QED  BY <2>2 DEF FirstOn, v
<1>. HIDE DEF page, cell
<1>8. /\ Grown(pages', slots', pages, slots) /\ Contents(kind, pages', slots', values)
      /\ Len(pages') = Len(pages) /\ pages'[current] = page
  <2>. DEFINE qs == pages'
  <2>1. Replaced(qs, pages, current, page)
    BY <1>1, <1>4, ReplacedEntry DEF AllSound
  <2>2. /\ AllSound(kind, pages, slots, sizes, Len(pages)) /\ Contents(kind, pages, slots, values)
        /\ current \in 1..Len(pages) /\ CellsStay(page, pages[current])
        /\ SlotStays(slots[current], slots[current]) /\ PageContent(kind, page, slots[current], values)
        /\ Replaced(qs, pages, current, page) /\ Replaced(slots, slots, current, slots[current])
    BY <1>4, <1>5, <1>7, <2>1 DEF ContentInv, SlotStays, Replaced
  <2>. HIDE DEF qs
  <2>3. Grown(qs, slots, pages, slots) /\ Contents(kind, qs, slots, values)
    BY ONLY <2>2, WrittenContent
  <2>4. Len(qs) = Len(pages) /\ qs[current] = page
    BY <2>1 DEF Replaced
  <2>. QED  BY <1>1, <2>3, <2>4 DEF qs
<1>9. Leads(kind, pages', slots', values, current, 0, pos)
  <2>1. kind \in IndirectKinds => 0 <= Len(slots[current])
    BY <1>5 DEF IsSequence
  <2>2. LeadsOn(kind, page, slots[current], values, 0, pos)
    BY <1>3, <1>7, <2>1 DEF LeadsOn, Place
  <2>. QED  BY <1>1, <1>4, <1>8, <2>2 DEF Leads
<1>10. Onwards
  <2>1. \A p, n, i : Leads(kind, pages', slots', values, p, n, i) => LeadsTo(p, n, i)'
    BY <1>1 DEF LeadsTo
  <2>. QED  BY <1>1, <1>8, <1>9, <2>1 DEF Onwards, AnnouncedAt
<1>11. CurrentInv'
  <2>1. \A o \in DOMAIN pages'[current'].cells : o < dataPtr'
    BY <1>1, <1>7, <1>8
  <2>2. pages'[current'].cells[0].id = First'
    BY <1>1, <1>2, <1>4, <1>7, <1>8 DEF First
  <2>3. kind \notin Unindexed =>
          /\ numberOfDeltas < OffsetRange
          /\ \A e \in 1..Len(slots[current]) : slots[current][e] # Unwritten <=> e < 1
    <3>. SUFFICES ASSUME kind \notin Unindexed
                  PROVE  /\ numberOfDeltas < OffsetRange
                         /\ \A e \in 1..Len(slots[current]) : slots[current][e] # Unwritten <=> e < 1
      OBVIOUS
    <3>1. \A e \in 1..Len(slots[current]) : slots[current][e] = Unwritten /\ ~(e < 1)
      BY <1>6 DEF Reserved, Unindexed
    <3>. QED  BY <1>5, <3>1 DEF CurrentInv
  <2>. QED  BY <1>1, <1>3, <2>1, <2>2, <2>3 DEF CurrentInv
<1>12. ContentInv'
  <2>1. Len(pages) <= pos' /\ (pc' = "loop" => Len(pages) < pos')
    BY <1>2, <1>4
  <2>. QED  BY <1>1, <1>4, <1>8, <1>11, <2>1 DEF ContentInv
<1>13. PendingInv'
  <2>. SUFFICES ASSUME pc' \in {"callback", "indexed"} PROVE PendingInv'
    BY DEF PendingInv
  <2>1. /\ pending'.page = current /\ pending'.offset = 0 % OffsetRange
        /\ pending'.delta = IF kind = "slotted" THEN 0 ELSE 1
        /\ pending'.id = pos /\ pending'.value = values'[pos] /\ ~Dynamic
    BY <1>1, <1>2
  <2>2. kind' = kind /\ kind \in {"slotted", "bottomup"}
    BY <1>1, <1>3, <1>4, <2>1, IndexedAssumption DEF Dynamic
  <2>3. ReverseNumber' = 0 /\ IdNumber' = 0 /\ 0 \in 0..(OffsetRange - 1) /\ ForIndex'
    <3>1. 0 % OffsetRange = 0
      BY OffsetRangeAssumption
    <3>. QED  BY <2>1, <2>2, <3>1, OffsetRangeAssumption
             DEF ReverseNumber, IdNumber, LeavesFit, Indirect, ForIndex
  <2>4. LeadsTo(pending.page, 0, pending.id)'
    BY <1>1, <1>9, <2>1 DEF LeadsTo
  <2>. QED  BY <1>1, <1>4, <1>8, <2>1, <2>3, <2>4 DEF PendingInv
<1>. QED  BY <1>10, <1>12, <1>13 DEF Advances

\* Where a delta goes on a page that is not a multi page.
LEMMA DeltaOffset ==
    ASSUME NEW k, NEW vs \in Seq(Strings), Short(vs), NEW first, NEW n, NEW size,
           Counted(k, vs, first, n, size), NEW page, NEW d \in 1..n, NEW ptr,
           Reached(k, vs, first, n, page, d, ptr)
    PROVE  FullHeader <= ptr /\ (k = "dynamic" => ptr < Room(k, vs, first, n, n))
<1>1. first \in 1..Len(vs) /\ n \in Nat /\ first + n <= Len(vs) /\ ptr \in Nat
  BY DEF Counted, Reached
<1>2. d - 1 \in 0..n /\ d - 1 \in Nat /\ n - d \in Nat /\ d \in 0..n /\ n \in 0..n /\ d # 0
  BY <1>1
<1>3. /\ Len(vs[first]) \in Nat
      /\ Room(k, vs, first, n, 0) = IndexBytes(k, 0) + FullHeader + Len(vs[first])
      /\ Room(k, vs, first, n, 0) + SlotSize(k) * (d - 1) <= Room(k, vs, first, n, d - 1)
      /\ Room(k, vs, first, n, d - 1) \in Nat
  BY <1>1, <1>2, RoomGrows
<1>4. /\ Room(k, vs, first, n, n) \in Nat /\ Room(k, vs, first, n, d) \in Nat
      /\ Room(k, vs, first, n, d) = Room(k, vs, first, n, d - 1) + SlotSize(k) + DeltaHeader
                                      + Len(Delta(vs[first], vs[first + d]))
      /\ Room(k, vs, first, n, d) + SlotSize(k) * (n - d) <= Room(k, vs, first, n, n)
  BY <1>1, <1>2, RoomGrows
<1>5. Len(Delta(vs[first], vs[first + d])) \in Nat
  <2>1. first + d \in 1..Len(vs)
    BY <1>1, <1>2
  <2>. QED  BY <1>1, <2>1, DeltaSize
<1>6. /\ IndexBytes(k, d - 1) = IndexBytes(k, 0) + SlotSize(k) * (d - 1)
      /\ IndexBytes(k, 0) \in Nat /\ SlotSize(k) \in Nat
  <2>1. 0 \in Nat
    OBVIOUS
  <2>. QED  BY <1>2, <2>1, IndexGrows
<1>7. ptr + IndexBytes(k, d - 1) = Room(k, vs, first, n, d - 1)
  BY DEF Reached
<1>8. FullHeader <= ptr
  <2>. DEFINE x == SlotSize(k) * (d - 1)
  <2>1. x \in Nat
    <3>1. x = 0 \/ x = (d - 1) + (d - 1)
      BY <1>2 DEF SlotSize, OffsetSize
    <3>. QED  BY <1>2, <3>1
  <2>. HIDE DEF x
  <2>2. /\ IndexBytes(k, 0) + FullHeader + Len(vs[first]) + x <= Room(k, vs, first, n, d - 1)
        /\ ptr + (IndexBytes(k, 0) + x) = Room(k, vs, first, n, d - 1)
    BY <1>3, <1>6, <1>7 DEF x
  <2>. DEFINE len  == Len(vs[first])
              ix   == IndexBytes(k, 0)
              room == Room(k, vs, first, n, d - 1)
  <2>3. ptr \in Nat /\ len \in Nat /\ ix \in Nat /\ room \in Nat /\ FullHeader = 11
    BY <1>1, <1>3, <1>6 DEF FullHeader
  <2>4. ix + FullHeader + len + x <= room /\ ptr + (ix + x) = room
    BY <2>2
  <2>. HIDE DEF len, ix, room
  <2>. QED  BY ONLY <2>1, <2>3, <2>4
<1>9. k = "dynamic" => ptr < Room(k, vs, first, n, n)
  <2>. SUFFICES ASSUME k = "dynamic" PROVE ptr < Room(k, vs, first, n, n)
    OBVIOUS
  <2>1. SlotSize(k) = 0 /\ IndexBytes(k, d - 1) = 0
    BY DEF SlotSize, IndexBytes, Unindexed
  <2>2. SlotSize(k) * (n - d) = 0
    BY <1>2, <2>1
  <2>. QED  BY <1>1, <1>3, <1>4, <1>5, <1>7, <2>1, <2>2 DEF DeltaHeader
<1>. QED  BY <1>8, <1>9

\* A page that takes the value id as its delta d, at offset off.
Takes(k, page, slot, vs, d, off, id) ==
    /\ k # "multi" /\ IsPage(page) /\ IsSequence(slot) /\ PageContent(k, page, slot, vs)
    /\ 0 \in DOMAIN page.cells /\ page.cells[0].str \in Strings
    /\ page.cells[0].id \in Nat /\ d \in Nat /\ id = page.cells[0].id + d
    /\ off \in Nat \ {0} /\ off \notin DOMAIN page.cells

\* The entry of the delta is written, or an assertion fails before that.
EntrySet(t, slot, d, off) ==
    \/ t = slot
    \/ d \in 1..Len(slot) /\ slot[d] = Unwritten /\ Replaced(t, slot, d, off)

\* q with index t is the page with the delta.
DeltaOn(k, q, t, page, slot, vs, id, off, cell) ==
    /\ PageContent(k, q, t, vs) /\ CellsStay(q, page) /\ SlotStays(t, slot)
    /\ DOMAIN q.cells = (DOMAIN page.cells) \union {off}
    /\ q.cells[off].id = id /\ Written(cell) \in Nat /\ 0 < Written(cell)

LEMMA NextCell ==
    ASSUME NEW k, NEW page, NEW slot, NEW vs, NEW d, NEW off, NEW id,
           Takes(k, page, slot, vs, d, off, id), NEW v, IsValue(vs, id, v),
           NEW t, EntrySet(t, slot, d, off)
    PROVE  DeltaOn(k, WithCell(page, off, DeltaCell(id, page.cells[0].str, v)), t, page, slot, vs,
                   id, off, DeltaCell(id, page.cells[0].str, v))
<1>. DEFINE r == page.cells[0].str
            cell == DeltaCell(id, r, v)
            q == WithCell(page, off, cell)
<1>1. cell \in Cells /\ cell.id = id /\ Written(cell) \in Nat /\ 0 < Written(cell)
  <2>1. id \in Nat /\ r \in Strings /\ v \in Strings
    BY DEF Takes, IsValue
  <2>2. DeltaCell(id, r, v) \in Cells /\ DeltaCell(id, r, v).id = id
        /\ Written(DeltaCell(id, r, v)) = DeltaHeader + Len(Delta(r, v))
    BY ONLY <2>1, DeltaCellProperties
  <2>. HIDE DEF cell
  <2>3. cell \in Cells
    BY <2>2 DEF cell
  <2>4. Len(cell.str) \in Nat /\ HeaderSize(cell) \in Nat /\ 0 < HeaderSize(cell)
    BY <2>3 DEF Cells, HeaderSize, DeltaHeader, FullHeader
  <2>5. Written(cell) \in Nat /\ 0 < Written(cell)
    BY <2>4 DEF Written
  <2>. QED  BY <2>2, <2>5 DEF cell
<1>2. /\ CellsStay(q, page) /\ q.cells[off] = cell /\ q.cells[0] = page.cells[0]
      /\ DOMAIN q.cells = (DOMAIN page.cells) \union {off}
  <2>. HIDE DEF cell
  <2>1. /\ CellsStay(q, page) /\ q.cells[off] = cell
        /\ DOMAIN q.cells = (DOMAIN page.cells) \union {off}
    BY <1>1, CellAdded DEF Takes
  <2>. QED  BY <2>1 DEF CellsStay, Takes
<1>. HIDE DEF q
<1>3. SoundCells(page, vs) /\ (k # "dynamic" => EntriesLead(page, slot))
  BY DEF PageContent, Takes
<1>4. SoundCells(q, vs)
  <2>. SUFFICES ASSUME NEW o \in DOMAIN q.cells
                PROVE  /\ 0 \in DOMAIN q.cells /\ q.cells[o].id \in 1..Len(vs)
                       /\ q.cells[o] = IF o = 0 THEN FullCell(q.cells[o].id, vs[q.cells[o].id])
                                       ELSE DeltaCell(q.cells[o].id, q.cells[0].str, vs[q.cells[o].id])
    BY DEF SoundCells
  <2>1. CASE o \in DOMAIN page.cells
    <3>1. q.cells[o] = page.cells[o]
      BY <1>2, <2>1 DEF CellsStay
    <3>. QED  BY <1>2, <1>3, <2>1, <3>1 DEF SoundCells
  <2>2. CASE o \notin DOMAIN page.cells
    <3>1. o = off /\ o # 0 /\ q.cells[o] = cell /\ vs[id] = v /\ id \in 1..Len(vs) /\ 0 \in DOMAIN q.cells
      BY <1>2, <2>2 DEF Takes, IsValue
    <3>. QED  BY <1>1, <1>2, <3>1
  <2>. QED  BY <2>1, <2>2
<1>. HIDE DEF cell
<1>5. SlotStays(t, slot)
  BY DEF EntrySet, SlotStays, Replaced
<1>6. k # "dynamic" => EntriesLead(q, t)
  <2>. SUFFICES ASSUME EntriesLead(page, slot), NEW e \in 1..Len(t), t[e] # Unwritten
                PROVE  t[e] \in DOMAIN q.cells /\ t[e] # 0 /\ q.cells[t[e]].id = q.cells[0].id + e
    BY <1>3 DEF EntriesLead
  <2>1. Len(t) = Len(slot)
    BY <1>5 DEF SlotStays
  <2>2. CASE t[e] = slot[e]
    <3>1. t[e] \in DOMAIN page.cells /\ t[e] # 0 /\ page.cells[t[e]].id = page.cells[0].id + e
      BY <2>1, <2>2 DEF EntriesLead
    <3>. QED  BY <1>2, <3>1 DEF CellsStay
  <2>3. CASE t[e] # slot[e]
    <3>1. e = d /\ t[e] = off
      BY <2>1, <2>3 DEF EntrySet, Replaced
    <3>. QED  BY <1>1, <1>2, <3>1 DEF Takes
  <2>. QED  BY <2>2, <2>3
<1>. QED  BY <1>1, <1>2, <1>4, <1>5, <1>6 DEF DeltaOn, PageContent, Takes, q, cell

\* The state in which a delta is written.
LEMMA DeltaDue ==
    ASSUME FitsWidths, LeavesFit, LoaderInv, ContentInv, WriteDelta
    PROVE  LET page == pages[current]
               slot == slots[current]
               d    == deltaNumber
           IN  /\ Takes(kind, page, slot, values, d, dataPtr, pos)
               /\ IsValue(values, pos, values[pos])
               /\ current \in 1..Len(pages) /\ d \in 1..numberOfDeltas /\ page.cells[0].id = pos - d
               /\ FullHeader <= dataPtr
               /\ kind \notin Unindexed =>
                     /\ d \in 1..Len(slot) /\ slot[d] = Unwritten /\ d \in 0..(OffsetRange - 1)
                     /\ \A e \in 1..Len(slot) : slot[e] # Unwritten <=> e < d
               /\ kind # "dynamicslotted" \/ OffsetFits => dataPtr \in 0..(OffsetRange - 1)
<1>. DEFINE page == pages[current]
            slot == slots[current]
            n    == numberOfDeltas
            d    == deltaNumber
            at   == pos - d
<1>1. kind # "multi" /\ pc = "loop" /\ pos <= Len(values) /\ current # Null /\ d # n + 1 /\ Busy
  BY DEF WriteDelta, Looping, PageComplete, Busy
<1>2. /\ Counted(kind, values, at, n, sizes[current])
      /\ Len(slot) = n \/ kind \in Unindexed
      /\ Reached(kind, values, at, n, page, d, dataPtr)
      /\ d # 0 /\ CurrentInv /\ First = at
  BY <1>1 DEF LoaderInv, StepInv, CountedInv, First, ContentInv
<1>3. /\ Len(pages) \in Nat /\ pos \in 1..Len(values) /\ values \in Seq(Strings) /\ Short(values)
      /\ n \in Nat /\ d \in Nat /\ d <= n + 1 /\ current \in 1..Len(pages) /\ dataPtr \in Nat
      /\ AllSound(kind, pages, slots, sizes, Len(pages)) /\ kind \in Kinds
  BY <1>1 DEF LoaderInv, PagesInv, AllSound, IsSequence, LoaderTypes, Null
<1>4. d \in 1..n /\ at + d = pos /\ pos \in Nat /\ at \in 1..Len(values) /\ at \in Nat
  <2>1. at \in 1..Len(values)
    BY <1>2 DEF Counted
  <2>. QED  BY <1>1, <1>2, <1>3, <2>1
<1>5. /\ IsPage(page) /\ IsSequence(slot) /\ PageContent(kind, page, slot, values)
      /\ IsSize(kind, sizes[current])
  BY <1>3 DEF AllSound, SoundPage, ContentInv, Contents
<1>6. /\ 0 \in DOMAIN page.cells /\ page.cells[0].str = values[at] /\ values[at] \in Strings
      /\ page.cells[0].id = at
  BY <1>1, <1>2, <1>3, <1>4 DEF Reached, CurrentInv
<1>7. FullHeader <= dataPtr /\ (kind = "dynamic" => dataPtr < Room(kind, values, at, n, n))
  <2>1. /\ values \in Seq(Strings) /\ Short(values) /\ Counted(kind, values, at, n, sizes[current])
        /\ d \in 1..n /\ Reached(kind, values, at, n, page, d, dataPtr)
    BY <1>2, <1>3, <1>4
  <2>. HIDE DEF at, n, d, page
  <2>. QED  BY ONLY <2>1, DeltaOffset
<1>8. dataPtr \notin DOMAIN page.cells
  <2>1. \A o \in DOMAIN page.cells : o < dataPtr
    BY <1>2 DEF CurrentInv
  <2>. QED  BY <1>3, <2>1
<1>9. Takes(kind, page, slot, values, d, dataPtr, pos)
  <2>1. dataPtr \in Nat \ {0}
    BY <1>3, <1>7 DEF FullHeader
  <2>. QED  BY <1>1, <1>4, <1>5, <1>6, <1>8, <2>1 DEF Takes
<1>10. IsValue(values, pos, values[pos])
  BY <1>3 DEF IsValue, Short
<1>11. ASSUME kind \notin Unindexed
       PROVE  /\ d \in 1..Len(slot) /\ slot[d] = Unwritten /\ d \in 0..(OffsetRange - 1)
              /\ \A e \in 1..Len(slot) : slot[e] # Unwritten <=> e < d
  <2>1. /\ n < OffsetRange /\ Len(slot) = n
        /\ \A e \in 1..Len(slot) : slot[e] # Unwritten <=> e < d
    BY <1>2, <1>11 DEF CurrentInv
  <2>2. d \in 1..Len(slot) /\ ~(d < d)
    BY <1>4, <2>1
  <2>3. slot[d] = Unwritten
    <3>. HIDE DEF slot, d
    <3>. QED  BY <2>1, <2>2
  <2>4. d \in 0..(OffsetRange - 1)
    <3>. HIDE DEF slot
    <3>. QED  BY <1>3, <1>4, <2>1, OffsetRangeAssumption
  <2>. HIDE DEF slot, d
  <2>. QED  BY <2>1, <2>2, <2>3, <2>4
<1>12. ASSUME kind # "dynamicslotted" \/ OffsetFits
       PROVE  dataPtr \in 0..(OffsetRange - 1)
  <2>1. CASE kind = "dynamicslotted"
    BY <1>3, <1>12, <2>1, OffsetRangeAssumption DEF OffsetFits
  <2>2. CASE kind = "dynamic"
    <3>1. values \in Inputs
      <4>1. values # <<>>
        BY <1>3
      <4>. QED  BY <4>1 DEF ContentInv
    <3>2. n \in 0..(Len(values) - at)
      BY <1>2, <1>3, <1>4 DEF Counted
    <3>3. Room("dynamic", values, at, n, n) <= OffsetRange
      <4>. HIDE DEF at, n
      <4>. QED  BY <1>3, <1>4, <2>2, <3>1, <3>2 DEF LeavesFit
    <3>4. Room("dynamic", values, at, n, n) \in Nat
      <4>1. n \in 0..n /\ at + n <= Len(values)
        BY <1>2, <1>3 DEF Counted
      <4>. QED  BY <1>3, <1>4, <4>1, RoomGrows
    <3>. QED  BY <1>3, <1>7, <2>2, <3>3, <3>4, OffsetRangeAssumption
  <2>3. CASE kind \notin {"dynamic", "dynamicslotted"}
    <3>1. sizes[current] = PageSize /\ PageSize <= OffsetRange /\ PageSize \in Nat
      BY <1>5, <2>3, IndexedAssumption DEF FitsWidths, IsSize, DynamicKinds
    <3>2. dataPtr <= sizes[current] - 1
      <4>1. /\ values \in Seq(Strings) /\ Short(values) /\ Counted(kind, values, at, n, sizes[current])
            /\ d \in 1..n /\ Reached(kind, values, at, n, page, d, dataPtr) /\ pos \in Nat
            /\ Len(slot) = n \/ kind \in Unindexed
            /\ SoundPage(kind, page, slot, sizes[current])
        BY <1>2, <1>3, <1>4 DEF AllSound
      <4>. HIDE DEF at, n, d, page, slot
      <4>2. dataPtr \in 1..(sizes[current] - 1)
        BY ONLY <4>1, DeltaReached
      <4>. QED  BY <3>1, <4>2
    <3>. QED  BY <1>3, <3>1, <3>2, OffsetRangeAssumption
  <2>. QED  BY <2>1, <2>2, <2>3
<1>. QED  BY <1>3, <1>4, <1>6, <1>7, <1>9, <1>10, <1>11, <1>12

\* What an action does that puts a cell on a page and changes its index.
Puts(k, qs, ts, ps, ss, zs, vs, c, q, t) ==
    /\ AllSound(k, ps, ss, zs, Len(ps)) /\ Contents(k, ps, ss, vs) /\ c \in 1..Len(ps)
    /\ CellsStay(q, ps[c]) /\ SlotStays(t, ss[c]) /\ PageContent(k, q, t, vs)
    /\ Replaced(qs, ps, c, q) /\ Replaced(ts, ss, c, t)

LEMMA PutsGrow ==
    ASSUME NEW k, NEW qs, NEW ts, NEW ps, NEW ss, NEW zs, NEW vs, NEW c, NEW q, NEW t,
           Puts(k, qs, ts, ps, ss, zs, vs, c, q, t)
    PROVE  /\ Grown(qs, ts, ps, ss) /\ Contents(k, qs, ts, vs)
           /\ Len(qs) = Len(ps) /\ qs[c] = q /\ ts[c] = t
<1>1. /\ AllSound(k, ps, ss, zs, Len(ps)) /\ Contents(k, ps, ss, vs) /\ c \in 1..Len(ps)
      /\ CellsStay(q, ps[c]) /\ SlotStays(t, ss[c]) /\ PageContent(k, q, t, vs)
      /\ Replaced(qs, ps, c, q) /\ Replaced(ts, ss, c, t)
  BY DEF Puts
<1>2. Grown(qs, ts, ps, ss) /\ Contents(k, qs, ts, vs)
  BY ONLY <1>1, WrittenContent
<1>. QED  BY <1>1, <1>2 DEF Replaced

LEMMA WriteDeltaAdvances ==
    ASSUME FitsWidths, LeavesFit, LoaderInv, ContentInv, WriteDelta
    PROVE  Advances
<1>. DEFINE cell == DeltaCell(pos, Ref, values[pos])
            page == WithCell(pages[current], dataPtr, cell)
            slot == slots[current]
            d    == deltaNumber
            u    == [slot EXCEPT ![d] = dataPtr]
            t    == IF kind = "dynamic" \/ ~OffsetFits THEN slot ELSE u
<1>1. /\ kind # "multi" /\ pc = "loop" /\ current # Null
      /\ pages' = [pages EXCEPT ![current] = page]
      /\ slots' = IF kind = "dynamic" \/ ~OffsetFits THEN slots
                  ELSE [slots EXCEPT ![current][d] = dataPtr % OffsetRange]
      /\ dataPtr' = dataPtr + Written(cell) /\ deltaNumber' = d + 1
      /\ UNCHANGED <<kind, sizes, values, pos, current, numberOfDeltas>>
  BY DEF WriteDelta, Looping, PageComplete
<1>2. \/ ~OffsetFits /\ pc' = "terminated"
      \/ /\ OffsetFits /\ pc' = "callback" /\ kind = "bottomup"
         /\ pending' = [page |-> current, delta |-> 2, offset |-> dataPtr % OffsetRange,
                        id |-> pos, value |-> values[pos]]
      \/ /\ OffsetFits /\ pc' = "callback" /\ kind # "bottomup"
         /\ pending' = [page |-> current, delta |-> d,
                        offset |-> (IF kind = "dynamic" THEN dataPtr ELSE 0) % OffsetRange,
                        id |-> pos, value |-> values[pos]]
  BY DEF WriteDelta, Callback
<1>3. /\ Takes(kind, pages[current], slot, values, d, dataPtr, pos)
      /\ IsValue(values, pos, values[pos])
      /\ current \in 1..Len(pages) /\ d \in 1..numberOfDeltas /\ pages[current].cells[0].id = pos - d
      /\ FullHeader <= dataPtr
  BY DeltaDue
<1>4. kind \notin Unindexed => /\ d \in 1..Len(slot) /\ slot[d] = Unwritten /\ d \in 0..(OffsetRange - 1)
                               /\ \A e \in 1..Len(slot) : slot[e] # Unwritten <=> e < d
  BY DeltaDue
<1>5. OffsetFits => dataPtr \in 0..(OffsetRange - 1)
  BY DeltaDue
<1>6. /\ AllSound(kind, pages, slots, sizes, Len(pages)) /\ IsSequence(slots) /\ IsSequence(pages)
      /\ IsSequence(slot) /\ Len(slots) = Len(pages) /\ pos \in 1..Len(values) /\ Len(pages) \in Nat
      /\ Contents(kind, pages, slots, values) /\ kind \in Kinds /\ dataPtr \in Nat /\ d \in Nat /\ pos \in Nat
      /\ current = Len(pages) /\ Len(pages) < pos
  <2>1. pos \in 1..Len(values)
    BY <1>3 DEF IsValue
  <2>2. Contents(kind, pages, slots, values) /\ current = Len(pages) /\ Len(pages) < pos
    BY <1>1 DEF ContentInv
  <2>3. IsSequence(slot) /\ d \in Nat /\ dataPtr \in Nat
    BY <1>3 DEF Takes
  <2>. HIDE DEF slot, d
  <2>. QED  BY <2>1, <2>2, <2>3 DEF LoaderInv, LoaderTypes, PagesInv, AllSound, IsSequence
<1>7. OffsetFits => dataPtr % OffsetRange = dataPtr
  BY <1>5, <1>6, OffsetRangeAssumption, Small
<1>8. Replaced(slots', slots, current, t) /\ EntrySet(t, slot, d, dataPtr)
  <2>1. CASE kind = "dynamic" \/ ~OffsetFits
    <3>1. slots' = slots /\ t = slot
      BY <1>1, <2>1
    <3>. QED  BY <1>3, <1>6, <3>1 DEF Replaced, EntrySet
  <2>2. CASE ~(kind = "dynamic" \/ ~OffsetFits)
    <3>1. d \in 1..Len(slot) /\ slot[d] = Unwritten
      BY <1>1, <1>4, <2>2 DEF Unindexed
    <3>2. Replaced(u, slot, d, dataPtr)
      BY <1>6, <3>1, ReplacedEntry
    <3>3. slots' = [slots EXCEPT ![current] = u] /\ t = u
      BY <1>1, <1>7, <2>2
    <3>. HIDE DEF u, t
    <3>4. Replaced([slots EXCEPT ![current] = u], slots, current, u)
      BY <1>3, <1>6, ReplacedEntry
    <3>. QED  BY <3>1, <3>2, <3>3, <3>4 DEF EntrySet
  <2>. QED  BY <2>1, <2>2
<1>. HIDE DEF t, u
<1>9. DeltaOn(kind, page, t, pages[current], slot, values, pos, dataPtr, cell)
  <2>. DEFINE v == values[pos]
              old == pages[current]
              off == dataPtr
  <2>1. Takes(kind, old, slot, values, d, off, pos) /\ IsValue(values, pos, v) /\ EntrySet(t, slot, d, off)
    BY <1>3, <1>8
  <2>. HIDE DEF v, old, slot, d, off
  <2>2. DeltaOn(kind, WithCell(old, off, DeltaCell(pos, old.cells[0].str, v)), t, old, slot, values,
                pos, off, DeltaCell(pos, old.cells[0].str, v))
    BY ONLY <2>1, NextCell
  <2>. QED  BY <2>2 DEF v, old, slot, d, off, Ref
<1>. HIDE DEF page, cell
<1>10. /\ Grown(pages', slots', pages, slots) /\ Contents(kind, pages', slots', values)
       /\ Len(pages') = Len(pages) /\ pages'[current] = page /\ slots'[current] = t
  <2>. DEFINE qs == pages'
              ts == slots'
  <2>1. Puts(kind, qs, ts, pages, slots, sizes, values, current, page, t)
    <3>1. Replaced(qs, pages, current, page)
      BY <1>1, <1>3, <1>6, ReplacedEntry
    <3>. HIDE DEF qs
    <3>. QED  BY <1>3, <1>6, <1>8, <1>9, <3>1 DEF Puts, DeltaOn
  <2>. HIDE DEF qs, ts
  <2>2. /\ Grown(qs, ts, pages, slots) /\ Contents(kind, qs, ts, values)
        /\ Len(qs) = Len(pages) /\ qs[current] = page /\ ts[current] = t
    BY ONLY <2>1, PutsGrow
  <2>. QED  BY <2>2 DEF qs, ts
<1>11. Onwards
  BY <1>1, <1>3, <1>10 DEF Onwards, AnnouncedAt
<1>12. /\ CellsStay(page, pages[current]) /\ SlotStays(t, slot) /\ page.cells[dataPtr].id = pos
       /\ DOMAIN page.cells = (DOMAIN pages[current].cells) \union {dataPtr}
       /\ Written(cell) \in Nat /\ 0 < Written(cell)
  BY <1>9 DEF DeltaOn
<1>13. page.cells[0].id = pos - d /\ 0 \in DOMAIN page.cells
  BY <1>3, <1>12 DEF CellsStay, Takes
<1>14. OffsetFits /\ kind \notin Unindexed => t[d] = dataPtr /\ d \in 1..Len(t) /\ Len(t) = Len(slot)
  <2>. SUFFICES ASSUME OffsetFits, kind \notin Unindexed
                PROVE  t[d] = dataPtr /\ d \in 1..Len(t) /\ Len(t) = Len(slot)
    OBVIOUS
  <2>1. d \in 1..Len(slot) /\ Len(t) = Len(slot) /\ kind # "dynamic"
    BY <1>4, <1>12 DEF SlotStays, Unindexed
  <2>2. Replaced(u, slot, d, dataPtr)
    BY <1>6, <2>1, ReplacedEntry DEF u
  <2>. QED  BY <2>1, <2>2 DEF t, Replaced
<1>15. Busy' => CurrentInv'
  <2>. SUFFICES ASSUME Busy' PROVE CurrentInv'
    OBVIOUS
  <2>1. OffsetFits /\ pc' = "callback"
    BY <1>2 DEF Busy
  <2>2. \A o \in DOMAIN page.cells : o < dataPtr'
    <3>1. \A o \in DOMAIN pages[current].cells : o < dataPtr /\ o \in Nat
      BY <1>1, <1>3 DEF ContentInv, CurrentInv, Takes, IsPage, Busy
    <3>2. \A o \in Nat : o <= dataPtr => o < dataPtr + Written(cell)
      BY <1>6, <1>12
    <3>3. \A o \in DOMAIN page.cells : o \in Nat /\ o <= dataPtr
      BY <1>6, <1>12, <3>1
    <3>. QED  BY <1>1, <3>2, <3>3
  <2>3. page.cells[0].id = First'
    <3>1. First' = pos - (d + 1) + 1
      BY <1>1, <1>6, <2>1 DEF First
    <3>. QED  BY <1>6, <1>13, <3>1
  <2>4. kind \notin Unindexed =>
           /\ numberOfDeltas < OffsetRange
           /\ \A e \in 1..Len(t) : t[e] # Unwritten <=> e < d + 1
    <3>. SUFFICES ASSUME kind \notin Unindexed
                  PROVE  /\ numberOfDeltas < OffsetRange
                         /\ \A e \in 1..Len(t) : t[e] # Unwritten <=> e < d + 1
      OBVIOUS
    <3>1. numberOfDeltas < OffsetRange
      BY <1>1 DEF ContentInv, CurrentInv, Busy
    <3>2. ASSUME NEW e \in 1..Len(t)
          PROVE  t[e] # Unwritten <=> e < d + 1
      <4>1. t[d] = dataPtr /\ Len(t) = Len(slot) /\ dataPtr # Unwritten
        BY <1>6, <1>14, <2>1 DEF Unwritten
      <4>2. CASE e = d
        BY <1>6, <4>1, <4>2
      <4>3. CASE e # d
        <5>1. t[e] = slot[e]
          BY <1>8, <4>1, <4>3 DEF EntrySet, Replaced
        <5>2. slot[e] # Unwritten <=> e < d
          BY <1>4, <4>1
        <5>3. e < d + 1 <=> e < d
          BY <1>6, <4>3
        <5>. QED  BY <5>1, <5>2, <5>3
      <4>. QED  BY <4>2, <4>3
    <3>. QED  BY <3>1, <3>2
  <2>. QED  BY <1>1, <1>6, <1>10, <2>2, <2>3, <2>4 DEF CurrentInv
<1>16. ContentInv'
  <2>1. pc' # "loop" /\ Len(pages) <= pos
    BY <1>2, <1>6
  <2>2. values \in Inputs \union {<<>>}
    BY DEF ContentInv
  <2>. QED  BY <1>1, <1>6, <1>10, <1>15, <2>1, <2>2 DEF ContentInv
<1>17. PendingInv'
  <2>. SUFFICES ASSUME pc' \in {"callback", "indexed"} PROVE PendingInv'
    BY DEF PendingInv
  <2>1. OffsetFits /\ dataPtr % OffsetRange = dataPtr /\ dataPtr \in 0..(OffsetRange - 1)
    BY <1>2, <1>5, <1>7
  <2>2. /\ pending'.page = current /\ pending'.id = pos /\ pending'.value = values'[pos]
        /\ pending'.delta = IF kind = "bottomup" THEN 2 ELSE d
        /\ kind \in {"bottomup", "dynamic"} => pending'.offset = dataPtr
        /\ kind' = kind /\ kind \in {"slotted", "bottomup", "dynamic", "dynamicslotted"}
    BY <1>1, <1>2, <1>6, <2>1, IndexedAssumption
  <2>. DEFINE number == IF kind \in IndirectKinds THEN d ELSE dataPtr
  <2>3. IdNumber' = number /\ (ForReverse' => ReverseNumber' = number) /\ ForIndex'
    BY <2>2 DEF IdNumber, ForIndex, ForReverse, ReverseNumber, Indirect, IndirectKinds
  <2>4. number \in 0..(OffsetRange - 1)
    BY <1>4, <2>1 DEF IndirectKinds, Unindexed
  <2>5. /\ Place(kind, t, number) = dataPtr /\ (kind \in IndirectKinds => number <= Len(t))
        /\ kind = "bottomup" => number # 1
    BY <1>3, <1>6, <1>14, <2>1 DEF Place, IndirectKinds, Unindexed, FullHeader
  <2>. HIDE DEF number
  <2>6. LeadsOn(kind, page, t, values, number, pos)
    BY <1>1, <1>12, <2>5 DEF LeadsOn
  <2>7. Leads(kind, pages', slots', values, current, number, pos)
    BY <1>3, <1>10, <2>4, <2>6 DEF Leads
  <2>8. /\ IdNumber' = number /\ (ForReverse' => ReverseNumber' = number)
        /\ Leads(kind', pages', slots', values', pending'.page, number, pending'.id)
    BY <1>1, <2>2, <2>3, <2>7
  <2>9. ForReverse' => LeadsTo(pending.page, ReverseNumber, pending.id)'
    BY <2>8 DEF LeadsTo
  <2>10. LeadsTo(pending.page, IdNumber, pending.id)'
    BY <2>8 DEF LeadsTo
  <2>. QED  BY <1>1, <1>3, <1>6, <1>10, <2>2, <2>3, <2>4, <2>9, <2>10 DEF PendingInv
<1>. QED  BY <1>11, <1>16, <1>17 DEF Advances

\* An uncompressed value on a multi page is the first of a run.
LEMMA RunStarts ==
    ASSUME NEW q, NEW off \in DOMAIN q.cells, NEW vs, NEW id, NEW v, IsValue(vs, id, v),
           q.cells[off] = FullCell(id, v)
    PROVE  Run(q, off, 0, off, id, vs)
<1>. DEFINE O == [j \in 0..0 |-> off]
<1>1. O \in [0..0 -> DOMAIN q.cells] /\ O[0] = off
  OBVIOUS
<1>2. q.cells[off].kind = "full"
  BY DEF FullCell
<1>3. \A j \in 1..0 : /\ O[j] = O[j-1] + Occupied(q.cells[O[j-1]])
                      /\ q.cells[O[j]].kind = "delta"
  <2>1. 1..0 = {}
    OBVIOUS
  <2>. HIDE DEF O
  <2>. QED  BY <2>1
<1>. HIDE DEF O
<1>4. O \in Ways(q, off, 0)
  BY <1>1, <1>2, <1>3 DEF Ways
<1>. QED  BY <1>1, <1>4 DEF Run, IsValue

\* The cell off of page q is behind the one at o, and a delta.
Behinds(q, page, off, o, b, id, v) ==
    /\ CellsStay(q, page) /\ off = o + Occupied(page.cells[o]) /\ off \in DOMAIN q.cells
    /\ q.cells[off] = DeltaCell(id, page.cells[b].str, v)

\* A delta behind the last value goes on with its run.
LEMMA RunGoesOn ==
    ASSUME NEW page, NEW b, NEW m \in Nat, NEW o \in DOMAIN page.cells, NEW last, NEW vs,
           Run(page, b, m, o, last, vs),
           NEW q, NEW off, NEW id, NEW v, IsValue(vs, id, v), Behinds(q, page, off, o, b, id, v)
    PROVE  Run(q, b, m + 1, off, id, vs)
<1>1. PICK O \in Ways(page, b, m) : O[m] = o
  BY DEF Run
<1>2. /\ O \in [0..m -> DOMAIN page.cells] /\ O[0] = b /\ page.cells[b].kind = "full"
      /\ \A j \in 1..m : O[j] = O[j-1] + Occupied(page.cells[O[j-1]]) /\ page.cells[O[j]].kind = "delta"
  BY <1>1 DEF Ways
<1>3. /\ \A x \in DOMAIN page.cells : x \in DOMAIN q.cells /\ q.cells[x] = page.cells[x]
      /\ off \in DOMAIN q.cells /\ off = o + Occupied(page.cells[o])
      /\ q.cells[off] = DeltaCell(id, page.cells[b].str, v) /\ q.cells[off].kind = "delta"
  BY DEF Behinds, CellsStay, DeltaCell
<1>4. \A j \in 0..m : O[j] \in DOMAIN q.cells /\ q.cells[O[j]] = page.cells[O[j]]
  BY <1>2, <1>3
<1>. DEFINE U == [j \in 0..(m + 1) |-> IF j = m + 1 THEN off ELSE O[j]]
<1>5. /\ DOMAIN U = 0..(m + 1) /\ U = [j \in 0..(m + 1) |-> U[j]] /\ U[m + 1] = off
      /\ \A j \in 0..m : U[j] = O[j]
  OBVIOUS
<1>. HIDE DEF U
<1>6. \A j \in 0..(m + 1) : U[j] \in DOMAIN q.cells
  <2>1. \A j \in 0..(m + 1) : j = m + 1 \/ j \in 0..m
    OBVIOUS
  <2>. QED  BY <1>3, <1>4, <1>5, <2>1
<1>7. U \in [0..(m + 1) -> DOMAIN q.cells]
  BY <1>5, <1>6
<1>8. 0 \in 0..m /\ m \in 0..m
  OBVIOUS
<1>9. U[0] = b /\ q.cells[b].kind = "full"
  BY <1>2, <1>4, <1>5, <1>8
<1>10. ASSUME NEW j \in 1..(m + 1)
       PROVE  U[j] = U[j-1] + Occupied(q.cells[U[j-1]]) /\ q.cells[U[j]].kind = "delta"
  <2>1. j - 1 \in 0..m
    OBVIOUS
  <2>2. U[j-1] = O[j-1] /\ q.cells[O[j-1]] = page.cells[O[j-1]]
    BY <1>4, <1>5, <2>1
  <2>3. CASE j = m + 1
    <3>1. j - 1 = m
      BY <2>3
    <3>2. U[j] = off /\ O[j-1] = o
      BY <1>1, <1>5, <2>3, <3>1
    <3>3. U[j] = U[j-1] + Occupied(q.cells[U[j-1]])
      BY <1>3, <2>2, <3>2
    <3>4. q.cells[U[j]].kind = "delta"
      BY <1>3, <3>2
    <3>. QED  BY <3>3, <3>4
  <2>4. CASE j # m + 1
    <3>1. j \in 1..m /\ j \in 0..m
      BY <2>4
    <3>2. U[j] = O[j] /\ q.cells[O[j]] = page.cells[O[j]]
      BY <1>4, <1>5, <3>1
    <3>3. O[j] = O[j-1] + Occupied(page.cells[O[j-1]]) /\ page.cells[O[j]].kind = "delta"
      BY <1>2, <3>1
    <3>4. U[j] = U[j-1] + Occupied(q.cells[U[j-1]])
      BY <2>2, <3>2, <3>3
    <3>5. q.cells[U[j]].kind = "delta"
      BY <3>2, <3>3
    <3>. QED  BY <3>4, <3>5
  <2>. QED  BY <2>3, <2>4
<1>11. U \in Ways(q, b, m + 1)
  <2>1. m + 1 \in Nat
    OBVIOUS
  <2>. QED  BY <1>7, <1>9, <1>10 DEF Ways
<1>12. q.cells[off] = DeltaCell(id, q.cells[b].str, v)
  BY <1>2, <1>3, <1>4, <1>8
<1>13. m + 1 # 0
  OBVIOUS
<1>. QED  BY <1>5, <1>11, <1>12, <1>13 DEF Run, IsValue

\* Both numbers come back from the 16 bits that they share.
LEMMA NumbersShare ==
    ASSUME NEW b \in Nat, NEW x \in 0..(DeltaNumbers - 1), (b + 1) * DeltaNumbers <= OffsetRange
    PROVE  LET n == EncodeDeltaAndOffset(x, b) % OffsetRange
           IN  n \in 0..(OffsetRange - 1) /\ n \div DeltaNumbers = b /\ n % DeltaNumbers = x
<1>1. b * DeltaNumbers \in Nat /\ b * DeltaNumbers + x < OffsetRange /\ b * DeltaNumbers < OffsetRange
      /\ x \in Nat /\ x < DeltaNumbers /\ b * DeltaNumbers + x \in Nat
  BY OffsetRangeAssumption DEF DeltaNumbers
<1>2. (b * DeltaNumbers) % OffsetRange = b * DeltaNumbers /\ x % DeltaNumbers = x
  <2>1. DeltaNumbers \in Nat \ {0}
    BY DEF DeltaNumbers
  <2>. DEFINE a == b * DeltaNumbers
  <2>2. a % OffsetRange = a
    <3>1. a \in Nat /\ a < OffsetRange
      BY <1>1
    <3>. HIDE DEF a
    <3>. QED  BY <3>1, OffsetRangeAssumption, Small
  <2>. QED  BY <1>1, <2>1, <2>2, Small
<1>3. EncodeDeltaAndOffset(x, b) = b * DeltaNumbers + x
  BY <1>2 DEF EncodeDeltaAndOffset
<1>4. EncodeDeltaAndOffset(x, b) % OffsetRange = b * DeltaNumbers + x
  <2>. DEFINE a == b * DeltaNumbers + x
  <2>1. a \in Nat /\ a < OffsetRange
    BY <1>1
  <2>. HIDE DEF a
  <2>2. a % OffsetRange = a
    BY <2>1, OffsetRangeAssumption, Small
  <2>. QED  BY <1>3, <2>2 DEF a
<1>5. (b * DeltaNumbers + x) \div DeltaNumbers = b /\ (b * DeltaNumbers + x) % DeltaNumbers = x
  BY DEF DeltaNumbers
<1>. QED  BY <1>1, <1>4, <1>5, OffsetRangeAssumption

\* The next value is the next one behind the last uncompressed one, or that again.
LEMMA NextNumber ==
    ASSUME NEW d \in Nat, d # 0, NEW f \in Nat \ {0}, d % f # 0
    PROVE  d % f = ((d - 1) % f) + 1
<1>. DEFINE a == d \div f
            r == d % f
<1>1. d = a * f + r /\ a \in Nat /\ r \in 1..(f - 1)
  OBVIOUS
<1>. HIDE DEF a, r
<1>2. d - 1 = a * f + (r - 1) /\ r - 1 \in 0..f-1
  <2>. DEFINE m == a * f
  <2>1. m \in Nat
    BY <1>1
  <2>. HIDE DEF m
  <2>. QED  BY <1>1, <2>1 DEF m
<1>3. (d - 1) % f = r - 1
  BY <1>1, <1>2, DivideWithRest
<1>. QED  BY <1>1, <1>3 DEF r

\* The cell that a step of a multi page writes is the next one of a run from b on.
MultiRun(ps, ss, page, off, cell, number, b) ==
    /\ Len(ps) = page /\ page <= pos /\ Grown(ps, ss, pages, slots)
    /\ \A o \in DOMAIN ps[page].cells : o < off
    /\ b = IF cell.kind = "full" THEN off ELSE valuePtr.off
    /\ Run(WithCell(ps[page], off, cell), b, number % Frequency, off, pos, values)
    /\ Occupied(cell) = Written(cell) /\ 0 < Written(cell)

LEMMA GrownTwice ==
    ASSUME NEW qs, NEW ts, NEW ps, NEW ss, NEW os, NEW rs,
           Grown(qs, ts, ps, ss), Grown(ps, ss, os, rs)
    PROVE  Grown(qs, ts, os, rs)
<1>1. Len(os) \in Nat /\ Len(ps) \in Nat /\ Len(qs) \in Nat /\ Len(os) <= Len(ps) /\ Len(ps) <= Len(qs)
  BY DEF Grown
<1>2. ASSUME NEW p \in 1..Len(os)
      PROVE  CellsStay(qs[p], os[p]) /\ SlotStays(ts[p], rs[p])
  <2>1. p \in 1..Len(ps)
    BY <1>1
  <2>2. CellsStay(ps[p], os[p]) /\ SlotStays(ss[p], rs[p])
    BY DEF Grown
  <2>3. CellsStay(qs[p], ps[p]) /\ SlotStays(ts[p], ss[p])
    BY <2>1 DEF Grown
  <2>4. CellsStay(qs[p], os[p])
    BY <2>2, <2>3 DEF CellsStay
  <2>5. SlotStays(ts[p], rs[p])
    BY <2>2, <2>3 DEF SlotStays
  <2>. QED  BY <2>4, <2>5
<1>. QED  BY <1>1, <1>2 DEF Grown

LEMMA MultiStepAdvances ==
    ASSUME LeavesFit, LoaderInv, ContentInv, kind = "multi", Looping,
           NEW ps, NEW ss, NEW zs, NEW page, NEW off, NEW cell, NEW number \in Nat,
           Taken(ps, ss, zs, page, off, cell), MultiStep(ps, ss, zs, page, off, cell, number),
           NEW b, MultiRun(ps, ss, page, off, cell, number, b)
    PROVE  Advances
<1>. DEFINE q == WithCell(ps[page], off, cell)
            x == number % Frequency
            share == EncodeDeltaAndOffset(x, b) % OffsetRange
<1>1. /\ pages' = [ps EXCEPT ![page] = q]
      /\ slots' = ss
      /\ current' = page /\ dataPtr' = off + Written(cell) /\ deltaNumber' = number + 1
      /\ valuePtr' = IF cell.kind = "full" THEN [page |-> page, off |-> off] ELSE valuePtr
      /\ pending' = [page |-> page, delta |-> number,
                     offset |-> EncodeDeltaAndOffset(x, valuePtr'.off) % OffsetRange,
                     id |-> pos, value |-> values[pos]]
      /\ pc' = "callback" /\ UNCHANGED <<kind, values, pos, numberOfDeltas>>
  BY DEF MultiStep, Callback
<1>2. /\ AllSound(kind, ps, ss, zs, Len(ps)) /\ page \in 1..Len(ps) /\ zs[page] = PageSize
      /\ off \in Nat /\ cell \in Cells /\ cell.size < StringRange /\ Written(cell) \in Nat
      /\ off + Written(cell) + EndHeader <= PageSize
  BY DEF Taken
<1>3. /\ IsPage(ps[page]) /\ IsSequence(ps) /\ Len(ps) \in Nat /\ Len(ss) = Len(ps) /\ IsSequence(ss)
      /\ page \in Nat /\ page = Len(ps) /\ page <= pos
      /\ pos \in 1..Len(values) /\ values \in Inputs \union {<<>>} /\ kind \in Kinds
  <2>1. pos \in 1..Len(values)
    BY DEF LoaderInv, LoaderTypes, Looping
  <2>. QED  BY <1>2, <2>1 DEF AllSound, SoundPage, IsSequence, MultiRun, ContentInv, LoaderInv, LoaderTypes
<1>4. off \notin DOMAIN ps[page].cells
  <2>1. \A o \in DOMAIN ps[page].cells : o < off
    BY DEF MultiRun
  <2>. QED  BY <1>2, <2>1
<1>5. /\ CellsStay(q, ps[page]) /\ q.cells[off] = cell
      /\ DOMAIN q.cells = (DOMAIN ps[page].cells) \union {off}
  BY <1>2, <1>3, <1>4, CellAdded
<1>6. valuePtr'.off = b
  BY <1>1 DEF MultiRun
<1>7. Run(q, b, x, off, pos, values)
  BY DEF MultiRun
<1>. HIDE DEF q
<1>8. Replaced(pages', ps, page, q)
  BY <1>1, <1>2, <1>3, ReplacedEntry
<1>9. Grown(pages', slots', pages, slots) /\ Len(pages') = Len(ps) /\ pages'[page] = q
  <2>. DEFINE qs == pages'
  <2>1. Replaced(qs, ps, page, q)
    BY <1>8
  <2>. HIDE DEF qs
  <2>2. Contents(kind, ps, ss, values) /\ PageContent(kind, q, ss[page], values)
    BY DEF Contents, PageContent
  <2>3. Puts(kind, qs, ss, ps, ss, zs, values, page, q, ss[page])
    BY <1>2, <1>3, <1>5, <2>1, <2>2 DEF Puts, SlotStays, Replaced
  <2>4. /\ Grown(qs, ss, ps, ss) /\ Len(qs) = Len(ps) /\ qs[page] = q
    BY ONLY <2>3, PutsGrow
  <2>5. Grown(ps, ss, pages, slots)
    BY DEF MultiRun
  <2>6. Grown(qs, ss, pages, slots)
    BY <2>4, <2>5, GrownTwice
  <2>. QED  BY <1>1, <2>4, <2>6 DEF qs
<1>10. Onwards
  BY <1>1, <1>9 DEF Onwards, AnnouncedAt, Dynamic
<1>11. x \in Nat /\ x < Frequency /\ Frequency <= DeltaNumbers
  <2>1. Frequency <= DeltaNumbers
    BY <1>3 DEF LeavesFit
  <2>. QED  BY <2>1, IndexedAssumption
<1>12. b \in Nat /\ (b + 1) * DeltaNumbers <= OffsetRange
  <2>1. b \in DOMAIN q.cells
    <3>1. PICK O \in Ways(q, b, x) : O[x] = off
      BY <1>7 DEF Run
    <3>2. 0 \in 0..x
      BY <1>11
    <3>. HIDE DEF x
    <3>. QED  BY <3>1, <3>2 DEF Ways
  <2>2. b \in Nat /\ b + 1 <= PageSize
    <3>1. CASE b = off
      <4>1. 0 < Written(cell)
        BY DEF MultiRun
      <4>. QED  BY <1>2, <3>1, <4>1, IndexedAssumption DEF EndHeader
    <3>2. CASE b # off
      <4>. DEFINE old == ps[page].cells[b]
      <4>1. b \in DOMAIN ps[page].cells
        BY <1>5, <2>1, <3>2
      <4>2. CellFits(kind, Len(ss[page]), b, old, zs[page]) /\ old \in Cells /\ b \in Nat
        BY <1>2, <1>3, <4>1 DEF AllSound, SoundPage, IsPage
      <4>. HIDE DEF old
      <4>3. b + Written(old) + EndHeader <= PageSize
        BY <1>2, <4>2, MultiPage
      <4>4. Written(old) \in Nat
        <5>1. Len(old.str) \in Nat /\ HeaderSize(old) \in Nat
          BY <4>2 DEF Cells, HeaderSize, DeltaHeader, FullHeader
        <5>. QED  BY <5>1 DEF Written
      <4>. QED  BY <4>2, <4>3, <4>4, IndexedAssumption DEF EndHeader
    <3>. QED  BY <3>1, <3>2
  <2>3. DeltaNumbers * PageSize <= OffsetRange
    BY <1>3 DEF LeavesFit
  <2>. QED  BY <2>2, <2>3, IndexedAssumption, OffsetRangeAssumption DEF DeltaNumbers
<1>13. share \in 0..(OffsetRange - 1) /\ share \div DeltaNumbers = b /\ share % DeltaNumbers = x
  <2>1. x \in 0..(DeltaNumbers - 1)
    <3>. HIDE DEF x
    <3>. QED  BY <1>11, IndexedAssumption DEF DeltaNumbers
  <2>. HIDE DEF x
  <2>. QED  BY <1>12, <2>1, NumbersShare
<1>14. RunInv'
  <2>1. (deltaNumber' - 1) % Frequency = x
    BY <1>1
  <2>2. LastId' = pos
    BY <1>1 DEF LastId
  <2>3. off \in DOMAIN q.cells /\ dataPtr' = off + Occupied(q.cells[off])
    BY <1>1, <1>5 DEF MultiRun
  <2>. HIDE DEF x
  <2>. QED  BY <1>1, <1>6, <1>7, <1>9, <2>1, <2>2, <2>3 DEF RunInv
<1>15. CurrentInv'
  <2>1. \A o \in DOMAIN q.cells : o < dataPtr'
    <3>1. \A o \in DOMAIN ps[page].cells : o < off /\ o \in Nat
      BY <1>3 DEF MultiRun, IsPage
    <3>2. \A o \in DOMAIN q.cells : o \in Nat /\ o <= off
      BY <1>2, <1>5, <3>1
    <3>3. 0 < Written(cell)
      BY DEF MultiRun
    <3>4. \A o \in Nat : o <= off => o < off + Written(cell)
      BY <1>2, <3>3
    <3>. QED  BY <1>1, <3>2, <3>4
  <2>2. deltaNumber' # 0
    BY <1>1
  <2>. QED  BY <1>1, <1>9, <1>14, <2>1, <2>2 DEF CurrentInv, Unindexed
<1>16. ContentInv'
  <2>1. Contents(kind', pages', slots', values')
    BY <1>1 DEF Contents, PageContent
  <2>. QED  BY <1>1, <1>3, <1>9, <1>15, <2>1 DEF ContentInv
<1>17. PendingInv'
  <2>1. /\ pending'.page = page /\ pending'.id = pos /\ pending'.value = values'[pos]
        /\ pending'.offset = share /\ kind' = "multi"
    BY <1>1, <1>6
  <2>2. ReverseNumber' = share /\ IdNumber' = share /\ ForIndex'
    BY <2>1 DEF ReverseNumber, IdNumber, Indirect, ForIndex
  <2>3. share \in Nat
    BY <1>13, OffsetRangeAssumption
  <2>. HIDE DEF share, x
  <2>4. LeadsOn("multi", q, ss[page], values, share, pos)
    BY <1>5, <1>7, <1>13 DEF LeadsOn
  <2>5. Leads(kind', pages', slots', values', page, share, pos)
    BY <1>1, <1>2, <1>9, <2>1, <2>3, <2>4 DEF Leads
  <2>6. LeadsTo(pending.page, ReverseNumber, pending.id)' /\ LeadsTo(pending.page, IdNumber, pending.id)'
    BY <2>1, <2>2, <2>5 DEF LeadsTo
  <2>. QED  BY <1>1, <1>2, <1>3, <1>9, <1>13, <2>1, <2>2, <2>6 DEF PendingInv
<1>. QED  BY <1>10, <1>16, <1>17 DEF Advances

LEMMA WriteMultiAdvances ==
    ASSUME LeavesFit, LoaderInv, ContentInv, WriteMulti
    PROVE  Advances
<1>1. kind = "multi" /\ Looping /\ pc = "loop"
  BY DEF WriteMulti, Looping
<1>2. /\ IsValue(values, pos, values[pos]) /\ Len(pages) \in Nat
      /\ AllSound(kind, pages, slots, sizes, Len(pages)) /\ IsSequence(slots) /\ Len(slots) = Len(pages)
      /\ current = Len(pages) /\ Len(pages) < pos /\ dataPtr \in Nat /\ deltaNumber \in Nat
      /\ Contents(kind, pages, slots, values) /\ pos \in Nat
  <2>1. current = Len(pages) /\ Len(pages) < pos /\ Contents(kind, pages, slots, values)
    BY <1>1 DEF ContentInv
  <2>2. /\ pos \in 1..Len(values) /\ pos \in Nat /\ values \in Seq(Strings) /\ Short(values)
        /\ dataPtr \in Nat /\ deltaNumber \in Nat
    BY <1>1 DEF LoaderInv, LoaderTypes, Looping
  <2>. QED  BY <2>1, <2>2 DEF LoaderInv, PagesInv, AllSound, IsSequence, IsValue, Short
<1>3. CASE current = Null \/ ~ValueFits
  <2>. DEFINE ps == PagesAndNew
              ss == Append(slots, <<>>)
              zs == Append(sizes, PageSize)
              page == Len(pages) + 1
              cell == FullCell(pos, values[pos])
  <2>1. MultiStep(ps, ss, zs, page, 0, cell, 0)
    <3>1. MultiValue(TRUE)
      <4>1. (current = Null \/ ~ValueFits) = TRUE
        BY <1>3
      <4>. QED  BY <4>1, MultiWrites, Zenon
    <3>. QED  BY <3>1, Zenon DEF MultiValue
  <2>2. Taken(ps, ss, zs, page, 0, cell)
    BY <1>1, MultiOpens
  <2>3. Grown(ps, ss, pages, slots) /\ Len(ps) = page /\ ps[page] = EmptyPage
    <3>1. WithNew(ps, pages)
      BY LinkedSame
    <3>2. Opened(ss, slots, <<>>)
      BY ReservedIndex DEF Opened
    <3>3. /\ AllSound(kind, pages, slots, sizes, Len(pages)) /\ WithNew(ps, pages)
          /\ Contents(kind, pages, slots, values) /\ Opened(ss, slots, <<>>)
      BY <1>2, <3>1, <3>2
    <3>. HIDE DEF ps, ss
    <3>4. Grown(ps, ss, pages, slots)
      BY ONLY <3>3, OpenedContent
    <3>. QED  BY <3>1, <3>4 DEF WithNew
  <2>4. /\ cell \in Cells /\ cell.kind = "full" /\ Occupied(cell) = Written(cell)
        /\ Written(cell) \in Nat /\ 0 < Written(cell)
    <3>1. /\ cell \in Cells /\ cell.kind = "full" /\ cell.size = Len(values[pos])
          /\ cell.str = values[pos] /\ Written(cell) = FullHeader + Len(values[pos])
      BY <1>2, FullCellProperties DEF IsValue
    <3>2. Len(values[pos]) \in Nat
      BY <1>2 DEF IsValue, Strings
    <3>. HIDE DEF cell
    <3>. QED  BY <3>1, <3>2 DEF Occupied, Written, HeaderSize, FullHeader
  <2>. DEFINE q == WithCell(ps[page], 0, cell)
  <2>5. 0 \in DOMAIN q.cells /\ q.cells[0] = cell
    <3>. HIDE DEF cell, ps, page
    <3>. QED  BY <2>3, <2>4, EmptyPageProperties, WithCellProperties
  <2>6. Run(q, 0, 0, 0, pos, values)
    <3>. HIDE DEF q
    <3>. QED  BY <1>2, <2>5, RunStarts
  <2>7. 0 % Frequency = 0
    BY IndexedAssumption
  <2>. HIDE DEF cell, ps, ss, zs
  <2>8. MultiRun(ps, ss, page, 0, cell, 0, 0)
    <3>1. \A o \in DOMAIN ps[page].cells : o < 0
      BY <2>3, EmptyPageProperties
    <3>2. page <= pos
      BY <1>2
    <3>. HIDE DEF page
    <3>. QED  BY <2>3, <2>4, <2>6, <2>7, <3>1, <3>2 DEF MultiRun
  <2>9. /\ LeavesFit /\ LoaderInv /\ ContentInv /\ kind = "multi" /\ Looping /\ 0 \in Nat
        /\ Taken(ps, ss, zs, page, 0, cell) /\ MultiStep(ps, ss, zs, page, 0, cell, 0)
        /\ MultiRun(ps, ss, page, 0, cell, 0, 0)
    BY <1>1, <2>1, <2>2, <2>8
  <2>. HIDE DEF page
  <2>. QED  BY ONLY <2>9, MultiStepAdvances
<1>4. CASE ~(current = Null \/ ~ValueFits)
  <2>. DEFINE cell == IF IsFull THEN FullCell(pos, values[pos]) ELSE DeltaCell(pos, LastFull, values[pos])
              page == pages[current]
              d == deltaNumber
              b == IF IsFull THEN dataPtr ELSE valuePtr.off
              q == WithCell(page, dataPtr, cell)
  <2>1. MultiStep(pages, slots, sizes, current, dataPtr, cell, d)
    <3>1. MultiValue(FALSE)
      <4>1. (current = Null \/ ~ValueFits) = FALSE
        BY <1>4
      <4>. QED  BY <4>1, MultiWrites, Zenon
    <3>. QED  BY <3>1, Zenon DEF MultiValue
  <2>2. /\ Taken(pages, slots, sizes, current, dataPtr, cell)
        /\ valuePtr.off \in DOMAIN page.cells
    BY <1>1, <1>4, MultiFits
  <2>3. /\ current \in 1..Len(pages) /\ IsPage(page) /\ CurrentInv /\ RunInv /\ d # 0
    <3>1. current \in 1..Len(pages)
      BY <2>2 DEF Taken
    <3>2. CurrentInv
      BY <1>1, <1>4 DEF ContentInv, Busy
    <3>3. d # 0
      BY <1>1, <1>4 DEF LoaderInv, StepInv
    <3>. QED  BY <1>1, <1>2, <3>1, <3>2, <3>3 DEF CurrentInv, AllSound, SoundPage
  <2>4. PICK o \in DOMAIN page.cells :
           /\ Run(page, valuePtr.off, (d - 1) % Frequency, o, pos - 1, values)
           /\ dataPtr = o + Occupied(page.cells[o])
    BY <1>1, <2>3 DEF RunInv, LastId
  <2>5. /\ cell \in Cells /\ cell.kind = (IF IsFull THEN "full" ELSE "delta")
        /\ Occupied(cell) = Written(cell) /\ Written(cell) \in Nat /\ 0 < Written(cell)
    <3>. DEFINE v == values[pos]
                r == LastFull
    <3>1. pos \in Nat /\ v \in Strings /\ Len(v) < StringRange /\ Len(v) \in Nat
      BY <1>2 DEF IsValue, Strings
    <3>2. r \in Strings
      BY <2>2, <2>3 DEF LastFull, IsPage, Cells, Strings
    <3>. HIDE DEF v, r
    <3>3. /\ FullCell(pos, v) \in Cells /\ FullCell(pos, v).kind = "full"
          /\ FullCell(pos, v).size = Len(v) /\ FullCell(pos, v).str = v
      BY <3>1, FullCellProperties
    <3>4. /\ DeltaCell(pos, r, v) \in Cells /\ DeltaCell(pos, r, v).kind = "delta"
          /\ DeltaCell(pos, r, v).size = Len(Delta(r, v)) /\ DeltaCell(pos, r, v).str = Delta(r, v)
      <4>1. pos \in Nat /\ v \in Strings /\ Len(v) < StringRange /\ r \in Strings
        BY <3>1, <3>2
      <4>. QED  BY ONLY <4>1, DeltaCellProperties
    <3>5. /\ cell \in Cells /\ cell.kind = (IF IsFull THEN "full" ELSE "delta")
          /\ cell.size = Len(cell.str)
      BY <3>3, <3>4 DEF v, r
    <3>. HIDE DEF cell
    <3>6. Len(cell.str) \in Nat /\ HeaderSize(cell) \in Nat /\ 0 < HeaderSize(cell)
      BY <3>5 DEF Cells, HeaderSize, DeltaHeader, FullHeader
    <3>7. Occupied(cell) = Written(cell) /\ Written(cell) \in Nat /\ 0 < Written(cell)
      BY <3>5, <3>6 DEF Occupied, Written
    <3>. QED  BY <3>5, <3>7
  <2>6. \A x \in DOMAIN page.cells : x < dataPtr
    BY <2>3 DEF CurrentInv
  <2>7. dataPtr \notin DOMAIN page.cells
    BY <1>2, <2>6
  <2>8. CellsStay(q, page) /\ q.cells[dataPtr] = cell /\ dataPtr \in DOMAIN q.cells
    <3>. HIDE DEF cell, page
    <3>. QED  BY <1>2, <2>3, <2>5, <2>7, CellAdded
  <2>. HIDE DEF q
  <2>9. Run(q, b, d % Frequency, dataPtr, pos, values)
    <3>1. CASE IsFull
      <4>1. d % Frequency = 0 /\ b = dataPtr /\ cell = FullCell(pos, values[pos])
        BY <3>1 DEF IsFull
      <4>. QED  BY <1>2, <2>8, <4>1, RunStarts
    <3>2. CASE ~IsFull
      <4>1. d % Frequency # 0 /\ b = valuePtr.off
        BY <3>2 DEF IsFull
      <4>2. d % Frequency = ((d - 1) % Frequency) + 1 /\ (d - 1) % Frequency \in Nat
        <5>1. d \in Nat /\ d # 0 /\ Frequency \in Nat \ {0}
          BY <1>2, <2>3, IndexedAssumption
        <5>2. (d - 1) % Frequency \in Nat
          <6>1. d - 1 \in Nat
            BY <5>1
          <6>. QED  BY <5>1, <6>1
        <5>3. d \in Nat /\ d # 0 /\ Frequency \in Nat \ {0} /\ d % Frequency # 0
          BY <4>1, <5>1
        <5>. HIDE DEF d
        <5>4. d % Frequency = ((d - 1) % Frequency) + 1
          BY ONLY <5>3, NextNumber
        <5>. QED  BY <5>2, <5>4
      <4>. DEFINE v == values[pos]
                  m == (d - 1) % Frequency
                  c == valuePtr.off
                  off == dataPtr
      <4>3. /\ m \in Nat /\ o \in DOMAIN page.cells /\ Run(page, c, m, o, pos - 1, values)
            /\ IsValue(values, pos, v) /\ Behinds(q, page, off, o, c, pos, v)
        BY <1>2, <2>4, <2>8, <3>2, <4>2 DEF Behinds, LastFull
      <4>. HIDE DEF v, m, c, off, page
      <4>4. Run(q, c, m + 1, off, pos, values)
        BY ONLY <4>3, RunGoesOn
      <4>. QED  BY <4>1, <4>2, <4>4 DEF m, c, off
    <3>. QED  BY <3>1, <3>2
  <2>10. b = IF cell.kind = "full" THEN dataPtr ELSE valuePtr.off
    BY <2>5
  <2>. HIDE DEF cell, b
  <2>11. MultiRun(pages, slots, current, dataPtr, cell, d, b)
    <3>1. Grown(pages, slots, pages, slots)
      BY <1>2 DEF Grown, CellsStay, SlotStays
    <3>2. current <= pos
      BY <1>2
    <3>. QED  BY <1>2, <2>5, <2>6, <2>9, <2>10, <3>1, <3>2 DEF MultiRun, q
  <2>12. /\ LeavesFit /\ LoaderInv /\ ContentInv /\ kind = "multi" /\ Looping /\ d \in Nat
         /\ Taken(pages, slots, sizes, current, dataPtr, cell)
         /\ MultiStep(pages, slots, sizes, current, dataPtr, cell, d)
         /\ MultiRun(pages, slots, current, dataPtr, cell, d, b)
    BY <1>1, <1>2, <2>1, <2>2, <2>11
  <2>. HIDE DEF d
  <2>. QED  BY ONLY <2>12, MultiStepAdvances
<1>. QED  BY <1>3, <1>4

LEMMA FinishAdvances ==
    ASSUME LoaderInv, ContentInv, Finish
    PROVE  Advances
<1>1. /\ pc = "loop" /\ pages' \in {pages, Completed} /\ pc' \in {"terminated", "ready"}
      /\ UNCHANGED <<kind, slots, sizes, values, pos, current, dataPtr, deltaNumber>>
  BY DEF Finish
<1>2. /\ Len(pages) \in Nat /\ current = Len(pages) /\ Len(pages) <= pos
      /\ Contents(kind, pages, slots, values)
      /\ values \in Inputs \union {<<>>} /\ (current # Null => deltaNumber # 0)
  <2>1. current # Null => deltaNumber # 0
    BY <1>1 DEF LoaderInv, StepInv
  <2>. QED  BY <2>1 DEF LoaderInv, PagesInv, AllSound, IsSequence, ContentInv
<1>3. SameCells(pages', pages)
  BY <1>1, CompletedSame DEF SameCells
<1>4. /\ Len(pages') = Len(pages)
      /\ \A p \in 1..Len(pages) : /\ PageContent(kind, pages'[p], slots[p], values)
                                  /\ CellsStay(pages'[p], pages[p]) /\ SlotStays(slots[p], slots[p])
  BY <1>2, <1>3, SameContent DEF SameCells, Contents
<1>5. ContentInv'
  BY <1>1, <1>2, <1>4 DEF ContentInv, Contents, Busy
<1>6. PendingInv'
  BY <1>1 DEF PendingInv
<1>7. Grown(pages', slots', pages, slots)
  BY <1>1, <1>2, <1>4 DEF Grown
<1>8. Onwards
  BY <1>1, <1>2, <1>7 DEF Onwards, AnnouncedAt
<1>. QED  BY <1>5, <1>6, <1>8 DEF Advances

-----------------------------------------------------------------------------
(* The steps of the callback, and of the rest.                             *)

\* The pages do not change, and the first value of a page stays announced.
Rests ==
    /\ UNCHANGED <<pages, kind, slots, values, current, deltaNumber>>
    /\ current # Null /\ deltaNumber = 0 => UNCHANGED pos

LEMMA RestsKeeps ==
    ASSUME LoaderInv, Rests
    PROVE  \A p, n, i : LeadsTo(p, n, i)' <=> LeadsTo(p, n, i)
BY DEF Rests, LeadsTo, AnnouncedAt, Dynamic

\* The callback goes on, or returns.
LEMMA CallbackContent ==
    ASSUME LoaderInv, ContentInv, pc \in {"callback", "indexed"},
           (pc' \in {"indexed", "overrun"} /\ UNCHANGED pos) \/ Return,
           UNCHANGED <<pages, kind, slots, sizes, values, current, dataPtr, deltaNumber,
                       numberOfDeltas, valuePtr, pending>>
    PROVE  ContentInv' /\ Rests
<1>1. /\ pos \in Nat /\ Len(pages) \in Nat /\ deltaNumber \in Nat
      /\ current = Len(pages) /\ Len(pages) <= pos
  BY DEF LoaderInv, LoaderTypes, PagesInv, AllSound, IsSequence, ContentInv
<1>2. \/ pc' \in {"indexed", "overrun"} /\ pos' = pos
      \/ deltaNumber = 0 /\ pc' = "open" /\ pos' = pos
      \/ deltaNumber # 0 /\ pc' = "loop" /\ pos' = pos + 1
  BY DEF Return
<1>3. First' = First /\ LastId' = LastId
  BY <1>1, <1>2 DEF First, LastId
<1>4. Busy' /\ current # Null => CurrentInv'
  <2>. SUFFICES ASSUME current # Null PROVE CurrentInv'
    OBVIOUS
  <2>1. CurrentInv
    BY DEF ContentInv, Busy
  <2>2. RunInv => RunInv'
    BY <1>3 DEF RunInv
  <2>. QED  BY <1>3, <2>1, <2>2 DEF CurrentInv
<1>5. Len(pages) <= pos' /\ (pc' = "loop" => Len(pages) < pos')
  BY <1>1, <1>2
<1>6. ContentInv'
  BY <1>4, <1>5 DEF ContentInv
<1>. QED  BY <1>2, <1>6 DEF Rests

\* A leaf that the callback makes leads to its value.
LEMMA NewLeaf ==
    ASSUME LeavesFit, LoaderInv, ContentInv, PendingInv, pc \in {"callback", "indexed"}
    PROVE  /\ pending.id \in 1..Len(values) /\ values[pending.id] = pending.value
           /\ ForReverse /\ ~InTree(pending.value) => LeafTo(ReverseLeaf, pending.id)
           /\ ForIndex => LeafTo(ThroughTree(IdLeaf), pending.id)
<1>. DEFINE page == pending.page
<1>1. /\ pending.id \in 1..Len(values) /\ values[pending.id] = pending.value
      /\ page \in 1..Len(pages)
      /\ ForReverse => /\ ReverseNumber \in 0..(OffsetRange - 1)
                       /\ LeadsTo(page, ReverseNumber, pending.id) \/ InTree(pending.value)
      /\ ForIndex => IdNumber \in 0..(OffsetRange - 1) /\ LeadsTo(page, IdNumber, pending.id)
  BY DEF PendingInv
<1>2. page \in Nat /\ AddressFits(page)
  <2>1. /\ Len(pages) \in Nat /\ Len(pages) <= pos /\ pos <= Len(values) /\ pos \in Nat
        /\ values \in Inputs \union {<<>>} /\ Len(values) \in Nat
    BY DEF LoaderInv, LoaderTypes, StepInv, PagesInv, AllSound, IsSequence, ContentInv
  <2>2. page \in 1..Len(values) /\ page \in Nat
    BY <1>1, <2>1
  <2>3. values \in Inputs
    BY <1>1, <2>1
  <2>. HIDE DEF page
  <2>. QED  BY <2>2, <2>3 DEF LeavesFit
<1>. HIDE DEF page
<1>3. ASSUME NEW n \in 0..(OffsetRange - 1), NEW i, LeadsTo(page, n, i)
      PROVE  LeafTo(EncodeLeaf(page, n), i) /\ LeafTo(ThroughTree(EncodeLeaf(page, n)), i)
  <2>. DEFINE leaf == EncodeLeaf(page, n)
  <2>1. LeafPage(leaf) = page /\ LeafOffset(leaf) = n /\ ThroughTree(leaf) = leaf
    BY <1>2, LeavesRoundTrip
  <2>. HIDE DEF leaf
  <2>. QED  BY <1>3, <2>1 DEF LeafTo, leaf
<1>4. IdLeaf = EncodeLeaf(page, IdNumber)
  BY DEF IdLeaf, IdNumber, page
<1>5. \/ ReverseLeaf = EncodeLeaf(page, ReverseNumber)
      \/ ReverseLeaf = ThroughTree(EncodeLeaf(page, ReverseNumber))
  BY DEF ReverseLeaf, IdLeaf, ReverseNumber, page
<1>6. ForReverse /\ ~InTree(pending.value) => LeafTo(ReverseLeaf, pending.id)
  BY <1>1, <1>3, <1>5
<1>7. ForIndex => LeafTo(ThroughTree(IdLeaf), pending.id)
  BY <1>1, <1>3, <1>4
<1>. QED  BY <1>1, <1>6, <1>7

DictionaryInv == LoaderInv /\ ContentInv /\ PendingInv /\ OnceInv /\ LeavesInv

LEMMA InsertReverseKeeps ==
    ASSUME LeavesFit, DictionaryInv, InsertReverse
    PROVE  ContentInv' /\ PendingInv' /\ LeavesInv'
<1>. USE DEF DictionaryInv
<1>1. /\ pc = "callback" /\ ForReverse /\ pc' \in {"indexed", "overrun", "open", "loop"}
      /\ (pc' \in {"indexed", "overrun"} /\ UNCHANGED pos) \/ Return
      /\ pc' = "indexed" => ForIndex
      /\ \/ reverseIndex' = reverseIndex
         \/ /\ pending.value \notin DOMAIN reverseIndex
            /\ reverseIndex' = With(reverseIndex, pending.value, ReverseLeaf)
      /\ UNCHANGED <<pages, kind, slots, sizes, values, current, dataPtr, deltaNumber, numberOfDeltas,
                     valuePtr, pending, index>>
  <2>1. CASE pending.value \notin DOMAIN reverseIndex /\ ForIndex
    BY <2>1 DEF InsertReverse
  <2>2. CASE pending.value \notin DOMAIN reverseIndex /\ ~ForIndex
    BY <2>2 DEF InsertReverse, Return
  <2>3. CASE pending.value \in DOMAIN reverseIndex
    BY <2>3 DEF InsertReverse, ForIndex
  <2>. QED  BY <2>1, <2>2, <2>3
<1>2. ContentInv' /\ Rests
  BY <1>1, CallbackContent
<1>3. \A p, n, i : LeadsTo(p, n, i)' <=> LeadsTo(p, n, i)
  BY <1>2, RestsKeeps
<1>4. \A leaf, i : LeafTo(leaf, i)' <=> LeafTo(leaf, i)
  BY <1>3 DEF LeafTo
<1>5. /\ pending.id \in 1..Len(values) /\ values[pending.id] = pending.value
      /\ ~InTree(pending.value) => LeafTo(ReverseLeaf, pending.id)
  BY <1>1, NewLeaf
<1>6. ASSUME NEW s \in DOMAIN reverseIndex'
      PROVE  \E i \in 1..Len(values) : values[i] = s /\ LeafTo(reverseIndex'[s], i)
  <2>1. CASE s \in DOMAIN reverseIndex /\ reverseIndex'[s] = reverseIndex[s]
    BY <2>1 DEF LeavesInv
  <2>2. CASE ~(s \in DOMAIN reverseIndex /\ reverseIndex'[s] = reverseIndex[s])
    <3>1. s = pending.value /\ reverseIndex'[s] = ReverseLeaf /\ ~InTree(s)
      BY <1>1, <2>2 DEF With, InTree
    <3>. QED  BY <1>5, <3>1
  <2>. QED  BY <2>1, <2>2
<1>7. LeavesInv'
  <2>1. PICK map, ids : map = reverseIndex' /\ ids = index
    OBVIOUS
  <2>2. \A s \in DOMAIN map : \E i \in 1..Len(values) : values[i] = s /\ LeafTo(map[s], i)'
    BY <1>4, <1>6, <2>1
  <2>3. \A i \in DOMAIN ids : i \in 1..Len(values) /\ LeafTo(ids[i], i)'
    BY <1>4, <2>1 DEF LeavesInv
  <2>4. reverseIndex' = map /\ index' = ids /\ values' = values
    BY <1>1, <2>1
  <2>. QED  BY <2>2, <2>3, <2>4 DEF LeavesInv, LeafTo
<1>8. PendingInv'
  <2>. SUFFICES ASSUME pc' \in {"callback", "indexed"} PROVE PendingInv'
    BY DEF PendingInv
  <2>1. pc' = "indexed" /\ ForIndex
    BY <1>1
  <2>2. /\ pending.id \in 1..Len(values) /\ pending.value = values[pending.id]
        /\ pending.page \in 1..Len(pages)
        /\ ReverseNumber \in 0..(OffsetRange - 1)
        /\ LeadsTo(pending.page, ReverseNumber, pending.id) \/ InTree(pending.value)
        /\ IdNumber \in 0..(OffsetRange - 1) /\ LeadsTo(pending.page, IdNumber, pending.id)
    BY <1>1, <2>1 DEF PendingInv
  <2>3. ReverseNumber' = ReverseNumber /\ IdNumber' = IdNumber /\ ForIndex'
    BY <1>1, <2>1 DEF ReverseNumber, IdNumber, Indirect, ForIndex
  <2>4. LeadsTo(pending.page, IdNumber, pending.id)'
    BY <1>1, <2>2, <2>3, <1>3 DEF LeadsTo, AnnouncedAt
  <2>5. LeadsTo(pending.page, ReverseNumber, pending.id)' \/ InTree(pending.value)'
    <3>1. CASE LeadsTo(pending.page, ReverseNumber, pending.id)
      BY <1>1, <2>3, <1>3, <3>1 DEF LeadsTo, AnnouncedAt
    <3>2. CASE InTree(pending.value)
      BY <1>1, <3>2 DEF InTree, With
    <3>. QED  BY <2>2, <3>1, <3>2
  <2>. QED  BY <1>1, <2>1, <2>2, <2>3, <2>4, <2>5 DEF PendingInv
<1>. QED  BY <1>2, <1>7, <1>8

LEMMA InsertIdKeeps ==
    ASSUME LeavesFit, DictionaryInv, InsertId
    PROVE  ContentInv' /\ PendingInv' /\ LeavesInv'
<1>. USE DEF DictionaryInv
<1>1. /\ pc \in {"callback", "indexed"} /\ ForIndex /\ pc' \in {"open", "loop"} /\ Return
      /\ index' = With(index, pending.id, ThroughTree(IdLeaf))
      /\ UNCHANGED <<pages, kind, slots, sizes, values, current, dataPtr, deltaNumber, numberOfDeltas,
                     valuePtr, pending, reverseIndex>>
  BY DEF InsertId, Return, PendingInv
<1>2. ContentInv' /\ Rests
  BY <1>1, CallbackContent
<1>3. \A p, n, i : LeadsTo(p, n, i)' <=> LeadsTo(p, n, i)
  BY <1>2, RestsKeeps
<1>4. \A leaf, i : LeafTo(leaf, i)' <=> LeafTo(leaf, i)
  BY <1>3 DEF LeafTo
<1>5. pending.id \in 1..Len(values) /\ LeafTo(ThroughTree(IdLeaf), pending.id)
  BY <1>1, NewLeaf
<1>6. ASSUME NEW i \in DOMAIN index'
      PROVE  i \in 1..Len(values) /\ LeafTo(index'[i], i)
  <2>1. CASE i \in DOMAIN index /\ index'[i] = index[i]
    BY <2>1 DEF LeavesInv
  <2>2. CASE ~(i \in DOMAIN index /\ index'[i] = index[i])
    <3>1. i = pending.id /\ index'[i] = ThroughTree(IdLeaf)
      BY <1>1, <2>2 DEF With
    <3>. QED  BY <1>5, <3>1
  <2>. QED  BY <2>1, <2>2
<1>7. LeavesInv'
  <2>1. PICK map, ids : map = reverseIndex /\ ids = index'
    OBVIOUS
  <2>2. \A s \in DOMAIN map : \E i \in 1..Len(values) : values[i] = s /\ LeafTo(map[s], i)'
    BY <1>4, <2>1 DEF LeavesInv
  <2>3. \A i \in DOMAIN ids : i \in 1..Len(values) /\ LeafTo(ids[i], i)'
    BY <1>4, <1>6, <2>1
  <2>4. reverseIndex' = map /\ index' = ids /\ values' = values
    BY <1>1, <2>1
  <2>. QED  BY <2>2, <2>3, <2>4 DEF LeavesInv, LeafTo
<1>8. PendingInv'
  BY <1>1 DEF PendingInv
<1>. QED  BY <1>2, <1>7, <1>8

LEMMA BulkInsertKeeps ==
    ASSUME DictionaryInv, NEW vs \in Inputs, BulkInsert(vs)
    PROVE  ContentInv' /\ PendingInv' /\ LeavesInv'
<1>. USE DEF DictionaryInv
<1>1. /\ values = <<>> /\ values' = vs /\ pc' = "loop"
      /\ UNCHANGED <<pages, kind, slots, sizes, pos, current, dataPtr, deltaNumber, numberOfDeltas,
                     valuePtr, pending, index, reverseIndex>>
  BY DEF BulkInsert, Load
<1>2. pages = <<>> /\ current = Null /\ pos = 1 /\ Len(pages) = 0
  BY <1>1 DEF LoaderInv, LoaderTypes
<1>3. Contents(kind', pages', slots', values')
  <2>1. 1..Len(pages') = {}
    BY <1>1, <1>2
  <2>. QED  BY <2>1 DEF Contents
<1>4. ContentInv'
  BY <1>1, <1>2, <1>3 DEF ContentInv, Null
<1>5. PendingInv'
  BY <1>1 DEF PendingInv
<1>6. DOMAIN reverseIndex = {} /\ DOMAIN index = {}
  <2>1. 1..Len(values) = {}
    BY <1>1
  <2>. QED  BY <2>1 DEF LeavesInv
<1>7. LeavesInv'
  BY <1>1, <1>6 DEF LeavesInv
<1>. QED  BY <1>4, <1>5, <1>7

LEMMA LookupKeeps ==
    ASSUME DictionaryInv, pc' = pc \/ pc' \in {"ready", "threw", "aborted"},
           pc \in {"ready", "threw"} \/ pc' = pc,
           UNCHANGED <<pages, kind, slots, sizes, values, pos, current, dataPtr, deltaNumber,
                       numberOfDeltas, valuePtr, pending, index, reverseIndex>>
    PROVE  ContentInv' /\ PendingInv' /\ LeavesInv'
<1>. USE DEF DictionaryInv
<1>1. \A p, n, i : LeadsTo(p, n, i)' <=> LeadsTo(p, n, i)
  BY DEF LeadsTo, AnnouncedAt, Dynamic
<1>2. LeavesInv'
  BY <1>1 DEF LeavesInv, LeafTo
<1>3. CASE pc' = pc
  <2>1. ContentInv'
    BY <1>3 DEF ContentInv, Busy, CurrentInv, RunInv, First, LastId
  <2>2. PendingInv'
    BY <1>3 DEF PendingInv, ReverseNumber, IdNumber, Indirect, ForReverse, ForIndex, LeadsTo,
                AnnouncedAt, Dynamic, InTree
  <2>. QED  BY <1>2, <2>1, <2>2
<1>4. CASE pc' \in {"ready", "threw", "aborted"}
  BY <1>2, <1>4 DEF ContentInv, PendingInv, Busy
<1>. QED  BY <1>3, <1>4

LEMMA DictionaryInit ==
    ASSUME Init
    PROVE  ContentInv /\ PendingInv /\ OnceInv /\ LeavesInv
<1>1. /\ pages = <<>> /\ values = <<>> /\ current = 0 /\ pos = 1 /\ pc = "ready" /\ Len(pages) = 0
      /\ DOMAIN index = {} /\ DOMAIN reverseIndex = {}
  BY DEF Init, LoaderInit, Null
<1>2. Contents(kind, pages, slots, values)
  <2>1. 1..Len(pages) = {}
    BY <1>1
  <2>. QED  BY <2>1 DEF Contents
<1>. QED  BY <1>1, <1>2 DEF ContentInv, PendingInv, OnceInv, LeavesInv, Null

\* The tree has the first value of a page when the next value is due.
LEMMA OnceWrites ==
    ASSUME FitsWidths, LeavesFit, LoaderInv, ContentInv, OnceInv, WriteValue \/ BulkInsertReturns
    PROVE  OnceInv'
<1>. SUFFICES ASSUME kind' = "bottomup"
              PROVE  OnceInv'
  BY DEF OnceInv
<1>1. CASE OpenPage
  BY <1>1 DEF OpenPage, Callback, OnceInv
<1>2. CASE OpenBlock
  BY <1>2 DEF OpenBlock, Dynamic
<1>3. CASE WriteFull
  <2>1. /\ pc' = "callback" /\ pending'.delta = 1 /\ pending'.value = values[pos]
        /\ UNCHANGED <<values, pos>>
    BY <1>3 DEF WriteFull, Callback, Dynamic
  <2>. QED  BY <2>1 DEF OnceInv
<1>4. CASE WriteDelta
  <2>1. /\ kind = "bottomup" /\ OffsetFits /\ UNCHANGED <<kind, values, pos, current>>
        /\ pc' = "callback" /\ pending'.delta = 2 /\ pending'.value = values[pos]
        /\ slots' = [slots EXCEPT ![current][deltaNumber] = dataPtr % OffsetRange]
    BY <1>4 DEF WriteDelta, Callback, OffsetFits
  <2>2. /\ AllSound(kind, pages, slots, sizes, Len(pages)) /\ current \in 1..Len(pages)
        /\ deltaNumber \in 1..Len(slots[current])
    BY <1>4, <2>1, DeltaDue DEF Unindexed, LoaderInv, PagesInv
  <2>3. slots'[current] = [slots[current] EXCEPT ![deltaNumber] = dataPtr % OffsetRange]
    BY <2>1, <2>2 DEF AllSound, IsSequence
  <2>4. DOMAIN slots'[current] = 1..Len(slots[current])
    BY <2>2, <2>3 DEF AllSound, SoundPage, IsSequence
  <2>5. slots'[current] # <<>>
    BY <2>2, <2>4
  <2>. QED  BY <2>1, <2>5 DEF OnceInv
<1>5. CASE WriteMulti
  BY <1>5 DEF WriteMulti
<1>6. CASE BulkInsertReturns
  BY <1>6 DEF BulkInsertReturns, Finish, OnceInv
<1>. QED  BY <1>1, <1>2, <1>3, <1>4, <1>5, <1>6 DEF WriteValue

LEMMA OnceCallback ==
    ASSUME LoaderInv, OnceInv, PendingInv, InsertReverse \/ InsertId
    PROVE  OnceInv'
<1>. SUFFICES ASSUME kind = "bottomup"
              PROVE  OnceInv'
  BY DEF OnceInv, InsertReverse, InsertId
<1>1. /\ UNCHANGED <<pages, kind, slots, values, current, deltaNumber, pending>>
      /\ pos \in Nat
  BY DEF InsertReverse, InsertId, LoaderInv, LoaderTypes
<1>2. CASE InsertReverse
  <2>1. pc = "callback" /\ pending.delta \in {0, 1}
    BY <1>2 DEF InsertReverse, ForReverse
  <2>2. CASE pending.value \in DOMAIN reverseIndex
    BY <1>2, <2>2 DEF InsertReverse, OnceInv
  <2>3. CASE pending.value \notin DOMAIN reverseIndex
    <3>1. /\ pending.value \in DOMAIN reverseIndex'
          /\ IF ForIndex THEN pc' = "indexed" /\ UNCHANGED pos ELSE Return
      BY <1>2, <2>3 DEF InsertReverse, With
    <3>2. CASE ForIndex
      <4>1. pending.value = values[pos]
        BY <2>1, <3>2 DEF OnceInv, ForIndex
      <4>. QED  BY <1>1, <3>1, <3>2, <4>1 DEF OnceInv, InTree
    <3>3. CASE ~ForIndex
      <4>1. deltaNumber = 0
        BY <2>1, <3>3 DEF OnceInv, ForIndex
      <4>. QED  BY <3>1, <3>3, <4>1 DEF OnceInv, Return
    <3>. QED  BY <3>2, <3>3
  <2>. QED  BY <2>2, <2>3
<1>3. CASE InsertId
  <2>1. /\ pc \in {"callback", "indexed"} /\ (pc = "callback" => ~ForReverse) /\ ForIndex
        /\ Return /\ UNCHANGED reverseIndex
    BY <1>3 DEF InsertId, PendingInv
  <2>2. slots[current] = <<>> => InTree(values[pos])
    <3>1. CASE pc = "indexed"
      BY <3>1 DEF OnceInv
    <3>2. CASE pc = "callback"
      BY <2>1, <3>2 DEF OnceInv, ForIndex, ForReverse
    <3>. QED  BY <2>1, <3>1, <3>2
  <2>3. CASE deltaNumber = 0
    BY <2>1, <2>3 DEF OnceInv, Return
  <2>4. CASE deltaNumber # 0
    <3>1. pc' = "loop" /\ pos' = pos + 1 /\ pos' - 1 = pos
      BY <1>1, <2>1, <2>4 DEF Return
    <3>. QED  BY <1>1, <2>1, <2>2, <3>1 DEF OnceInv, InTree
  <2>. QED  BY <2>3, <2>4
<1>. QED  BY <1>2, <1>3

LEMMA OnceStep ==
    ASSUME FitsWidths, LeavesFit, DictionaryInv, [Next]_vars
    PROVE  OnceInv'
<1>. USE DEF DictionaryInv
<1>1. CASE WriteValue \/ BulkInsertReturns
  BY <1>1, OnceWrites
<1>2. CASE InsertReverse \/ InsertId
  BY <1>2, OnceCallback
<1>3. CASE \E vs \in Inputs : BulkInsert(vs)
  <2>1. pc' = "loop" /\ values = <<>> /\ UNCHANGED current
    BY <1>3 DEF BulkInsert, Load
  <2>2. current = Null
    BY <1>3, <2>1 DEF BulkInsert, Load, LoaderInv, LoaderTypes
  <2>. QED  BY <2>1, <2>2 DEF OnceInv
<1>4. CASE Lookup
  <2>1. pc' \in {"ready", "threw", "aborted"}
    BY <1>4, LookupsOnlyRead DEF AtRest
  <2>. QED  BY <2>1 DEF OnceInv
<1>5. CASE UNCHANGED vars
  BY <1>5 DEF vars, OnceInv, InTree
<1>. QED  BY <1>1, <1>2, <1>3, <1>4, <1>5 DEF Next, LoadStep

LEMMA DictionaryStep ==
    ASSUME FitsWidths, LeavesFit, DictionaryInv, [Next]_vars
    PROVE  DictionaryInv'
<1>. USE DEF DictionaryInv
<1>1. LoaderInv'
  BY InvStep
<1>2. ASSUME WriteValue \/ BulkInsertReturns
      PROVE  ContentInv' /\ PendingInv' /\ LeavesInv'
  <2>1. UNCHANGED <<index, reverseIndex>>
    BY <1>2 DEF WriteValue, BulkInsertReturns
  <2>2. Advances
    BY <1>2, <2>1, OpenPageAdvances, OpenBlockAdvances, WriteFullAdvances, WriteDeltaAdvances,
       WriteMultiAdvances, FinishAdvances DEF WriteValue, BulkInsertReturns
  <2>. QED  BY <2>1, <2>2, LeavesKept DEF Advances
<1>3. ASSUME NEW vs \in Inputs, BulkInsert(vs)
      PROVE  ContentInv' /\ PendingInv' /\ LeavesInv'
  BY <1>3, BulkInsertKeeps
<1>4. ASSUME Lookup
      PROVE  ContentInv' /\ PendingInv' /\ LeavesInv'
  <2>1. /\ pc \in {"ready", "threw"} /\ pc' \in {pc, "aborted"}
        /\ UNCHANGED <<pages, kind, slots, sizes, values, pos, current, dataPtr, deltaNumber,
                       numberOfDeltas, valuePtr, pending, index, reverseIndex>>
    BY <1>4, LookupsOnlyRead DEF AtRest
  <2>. QED  BY <2>1, LookupKeeps
<1>5. ASSUME UNCHANGED vars
      PROVE  ContentInv' /\ PendingInv' /\ LeavesInv'
  BY <1>5, LookupKeeps DEF vars
<1>6. ASSUME Next
      PROVE  ContentInv' /\ PendingInv' /\ LeavesInv'
  BY <1>2, <1>3, <1>4, <1>6, InsertReverseKeeps, InsertIdKeeps DEF Next, LoadStep
<1>7. ContentInv' /\ PendingInv' /\ LeavesInv'
  BY <1>5, <1>6
<1>8. OnceInv'
  BY OnceStep
<1>. QED  BY <1>1, <1>7, <1>8

\* At any moment of a load, and after it, every leaf in an index decodes to the
\* value it was inserted for, on every page format: the callback of the loaders
\* (StringDictionary.hpp) gets an offset or a number that stays good while the
\* rest of the page and the pages behind it are written.
THEOREM LeavesAlwaysDecode ==
    ASSUME FitsWidths, LeavesFit
    PROVE  Spec => []LeavesDecode
<1>1. Init => DictionaryInv
  BY InitInv, DictionaryInit DEF DictionaryInv
<1>2. DictionaryInv /\ [Next]_vars => DictionaryInv'
  BY DictionaryStep
<1>3. DictionaryInv => LeavesDecode
  BY LeavesInvDecodes DEF DictionaryInv
<1>. QED  BY <1>1, <1>2, <1>3, PTL DEF Spec

-----------------------------------------------------------------------------
(* The values on the chain of pages.                                       *)

After(page, o) == o + Occupied(page.cells[o])

\* The value at o refers to the uncompressed one at B[o]; behind it lies the
\* next one, or the end of the page.
CellWoven(page, vs, limit, last, bases, B, o) ==
    /\ page.cells[o].id \in 1..Len(vs)
    /\ page.cells[B[o]].kind = "full"
    /\ page.cells[o] = IF B[o] = o THEN FullCell(page.cells[o].id, vs[page.cells[o].id])
                       ELSE DeltaCell(page.cells[o].id, page.cells[B[o]].str, vs[page.cells[o].id])
    /\ \/ /\ After(page, o) \in DOMAIN page.cells
          /\ page.cells[After(page, o)].id = page.cells[o].id + 1
          /\ B[After(page, o)] \in {After(page, o), B[o]}
       \/ After(page, o) = limit /\ page.cells[o].id = last /\ B[o] \in bases

IsWoven(page, vs, limit, last, bases, B) ==
    /\ B \in [DOMAIN page.cells -> DOMAIN page.cells]
    /\ DOMAIN page.cells # {} => 0 \in DOMAIN page.cells /\ B[0] = 0
    /\ limit \notin DOMAIN page.cells
    /\ \A o \in DOMAIN page.cells : CellWoven(page, vs, limit, last, bases, B, o)

Woven(page, vs, limit, last, bases) ==
    \E B \in [DOMAIN page.cells -> DOMAIN page.cells] : IsWoven(page, vs, limit, last, bases, B)

\* The id of the first value on a page, if it is not the one to be written next.
StartOf(ps, p, up) ==
    IF p \in 1..Len(ps) /\ 0 \in DOMAIN ps[p].cells THEN ps[p].cells[0].id ELSE up

\* The values before up are on the pages one behind the other.  The loop stands
\* at ptr of page c, and deltas there refer to base.
Chain(ps, vs, c, ptr, up, base) ==
    /\ \A p \in 1..Len(ps) :
          Woven(ps[p], vs, IF p = c THEN ptr ELSE ps[p].end, StartOf(ps, p + 1, up) - 1,
                IF p = c THEN {base} ELSE DOMAIN ps[p].cells)
    /\ \A p \in 1..(Len(ps) - 1) : 0 \in DOMAIN ps[p].cells
    /\ StartOf(ps, 1, up) = 1

\* The id that is written next.
Upcoming == IF pc \in {"callback", "indexed"} /\ deltaNumber # 0 THEN pos + 1 ELSE pos

Good == pc \notin {"terminated", "overrun", "aborted"}

Links(ps, n) ==
    /\ \A p \in 1..Len(ps) : ps[p].next = IF p < n THEN p + 1 ELSE Null

ChainInv ==
    Good =>
      /\ Chain(pages, values, IF pc = "ready" THEN Null ELSE current, dataPtr, Upcoming,
               IF kind = "multi" THEN valuePtr.off ELSE 0)
      /\ Links(pages, IF Dynamic /\ pc # "ready" /\ Len(pages) > 0 THEN Len(pages) - 1 ELSE Len(pages))

-----------------------------------------------------------------------------
(* How the chain grows.                                                    *)

\* qs is ps with the current page ended, and perhaps links changed.
Closed(qs, ps, c, ptr) ==
    /\ Len(qs) \in Nat /\ Len(ps) \in Nat /\ Len(ps) <= Len(qs)
    /\ \A p \in 1..Len(ps) :
          qs[p].cells = ps[p].cells /\ qs[p].end = IF p = c THEN ptr ELSE ps[p].end

LEMMA SameWoven ==
    ASSUME NEW page, NEW q, q.cells = page.cells, NEW vs, NEW limit, NEW last, NEW bases, NEW wider,
           bases \subseteq wider, Woven(page, vs, limit, last, bases)
    PROVE  Woven(q, vs, limit, last, wider)
BY DEF Woven, IsWoven, CellWoven, After

LEMMA BasesOnPage ==
    ASSUME NEW page, NEW vs, NEW limit, NEW last, NEW bases, Woven(page, vs, limit, last, bases)
    PROVE  Woven(page, vs, limit, last, DOMAIN page.cells)
<1>1. PICK B \in [DOMAIN page.cells -> DOMAIN page.cells] : IsWoven(page, vs, limit, last, bases, B)
  BY DEF Woven
<1>2. IsWoven(page, vs, limit, last, DOMAIN page.cells, B)
  BY <1>1 DEF IsWoven, CellWoven
<1>. QED  BY <1>2 DEF Woven

\* The loop leaves a page for an empty one, or the load is over.
LEMMA ChainCloses ==
    ASSUME NEW ps, NEW qs, NEW vs, NEW c, NEW ptr, NEW up, NEW base, Chain(ps, vs, c, ptr, up, base),
           Closed(qs, ps, c, ptr), NEW d,
           \/ d = 0 /\ Len(qs) = Len(ps)
           \/ /\ d = Len(ps) + 1 /\ Len(qs) = d /\ DOMAIN qs[d].cells = {}
              /\ Len(ps) # 0 => 0 \in DOMAIN ps[Len(ps)].cells,
           NEW ptr2, NEW base2
    PROVE  Chain(qs, vs, d, ptr2, up, base2)
<1>1. ASSUME NEW p
      PROVE  StartOf(qs, p, up) = StartOf(ps, p, up)
  <2>1. CASE p \in 1..Len(ps)
    BY <2>1 DEF StartOf, Closed
  <2>2. CASE p \notin 1..Len(ps)
    <3>1. p \in 1..Len(qs) => p = d /\ DOMAIN qs[d].cells = {}
      BY <2>2 DEF Closed
    <3>. QED  BY <2>2, <3>1 DEF StartOf
  <2>. QED  BY <2>1, <2>2
<1>2. ASSUME NEW p \in 1..Len(qs)
      PROVE  Woven(qs[p], vs, IF p = d THEN ptr2 ELSE qs[p].end, StartOf(qs, p + 1, up) - 1,
                   IF p = d THEN {base2} ELSE DOMAIN qs[p].cells)
  <2>1. CASE p \in 1..Len(ps)
    <3>1. p # d
      BY <2>1 DEF Closed
    <3>2. Woven(ps[p], vs, qs[p].end, StartOf(ps, p + 1, up) - 1,
                IF p = c THEN {base} ELSE DOMAIN ps[p].cells)
      BY <2>1 DEF Chain, Closed
    <3>3. Woven(ps[p], vs, qs[p].end, StartOf(ps, p + 1, up) - 1, DOMAIN ps[p].cells)
      BY <3>2, BasesOnPage
    <3>4. qs[p].cells = ps[p].cells
      BY <2>1 DEF Closed
    <3>5. Woven(qs[p], vs, qs[p].end, StartOf(ps, p + 1, up) - 1, DOMAIN qs[p].cells)
      BY <3>3, <3>4, SameWoven
    <3>. QED  BY <1>1, <3>1, <3>5
  <2>2. CASE p \notin 1..Len(ps)
    <3>1. p = d /\ DOMAIN qs[p].cells = {}
      BY <2>2 DEF Closed
    <3>2. PICK B \in [DOMAIN qs[p].cells -> DOMAIN qs[p].cells] : TRUE
      <4>. DEFINE B == [o \in DOMAIN qs[p].cells |-> o]
      <4>1. B \in [DOMAIN qs[p].cells -> DOMAIN qs[p].cells]
        OBVIOUS
      <4>. QED  BY <4>1
    <3>. QED  BY <3>1, <3>2 DEF Woven, IsWoven
  <2>. QED  BY <2>1, <2>2
<1>3. ASSUME NEW p \in 1..(Len(qs) - 1)
      PROVE  0 \in DOMAIN qs[p].cells
  <2>1. p \in 1..Len(ps) /\ (p \in 1..(Len(ps) - 1) \/ (p = Len(ps) /\ d = Len(ps) + 1))
    BY DEF Closed
  <2>. QED  BY <2>1 DEF Chain, Closed
<1>4. StartOf(qs, 1, up) = 1
  BY <1>1 DEF Chain
<1>. QED  BY <1>2, <1>3, <1>4 DEF Chain

\* The cell at ptr of q is the value up, and refers to the one at b; all others
\* are those of page.
Adds(q, page, vs, ptr, up, base, b) ==
    /\ DOMAIN q.cells = (DOMAIN page.cells) \union {ptr}
    /\ \A o \in DOMAIN page.cells : q.cells[o] = page.cells[o]
    /\ \A o \in DOMAIN page.cells : o \in Nat /\ o < ptr
    /\ ptr \in Nat /\ up \in 1..Len(vs)
    /\ DOMAIN page.cells = {} => ptr = 0
    /\ \/ b = ptr /\ q.cells[ptr] = FullCell(up, vs[up])
       \/ /\ b = base /\ base \in DOMAIN page.cells /\ page.cells[base].kind = "full"
          /\ q.cells[ptr] = DeltaCell(up, page.cells[base].str, vs[up])
    /\ Occupied(q.cells[ptr]) \in Nat \ {0}

LEMMA WovenAdds ==
    ASSUME NEW q, NEW page, NEW vs, NEW ptr, NEW up, NEW base, NEW b, Adds(q, page, vs, ptr, up, base, b),
           Woven(page, vs, ptr, up - 1, {base})
    PROVE  Woven(q, vs, ptr + Occupied(q.cells[ptr]), up, {b})
<1>1. PICK B \in [DOMAIN page.cells -> DOMAIN page.cells] : IsWoven(page, vs, ptr, up - 1, {base}, B)
  BY DEF Woven
<1>2. /\ ptr \in Nat /\ up \in 1..Len(vs) /\ up \in Nat /\ ptr \notin DOMAIN page.cells
      /\ ptr \in DOMAIN q.cells /\ Occupied(q.cells[ptr]) \in Nat \ {0}
  BY DEF Adds
<1>. DEFINE C == [o \in DOMAIN q.cells |-> IF o = ptr THEN b ELSE B[o]]
            limit == ptr + Occupied(q.cells[ptr])
<1>3. C \in [DOMAIN q.cells -> DOMAIN q.cells]
  BY DEF Adds
<1>4. C[ptr] = b /\ \A o \in DOMAIN page.cells : C[o] = B[o] /\ B[o] \in DOMAIN page.cells
  BY <1>2 DEF Adds
<1>5. limit \notin DOMAIN q.cells
  <2>1. \A o \in DOMAIN q.cells : o <= ptr /\ o \in Nat
    BY <1>2 DEF Adds
  <2>. QED  BY <1>2, <2>1
<1>6. 0 \in DOMAIN q.cells /\ C[0] = 0
  <2>1. CASE DOMAIN page.cells = {}
    BY <1>3, <1>4, <2>1 DEF Adds
  <2>2. CASE DOMAIN page.cells # {}
    <3>1. 0 \in DOMAIN page.cells /\ B[0] = 0
      BY <1>1, <2>2 DEF IsWoven
    <3>. QED  BY <1>4, <3>1 DEF Adds
  <2>. QED  BY <2>1, <2>2
<1>7. q.cells[ptr].id = up
  BY DEF Adds, FullCell, DeltaCell
<1>. HIDE DEF C, limit
<1>8. ASSUME NEW o \in DOMAIN page.cells
      PROVE  CellWoven(q, vs, limit, up, {b}, C, o)
  <2>1. CellWoven(page, vs, ptr, up - 1, {base}, B, o)
    BY <1>1 DEF IsWoven
  <2>2. /\ q.cells[o] = page.cells[o] /\ q.cells[B[o]] = page.cells[B[o]] /\ C[o] = B[o]
        /\ After(q, o) = After(page, o)
    BY <1>4 DEF Adds, After
  <2>3. CASE After(page, o) \in DOMAIN page.cells
    <3>1. /\ page.cells[After(page, o)].id = page.cells[o].id + 1
          /\ B[After(page, o)] \in {After(page, o), B[o]}
      BY <1>2, <2>1, <2>3 DEF CellWoven
    <3>2. /\ After(q, o) \in DOMAIN q.cells
          /\ q.cells[After(q, o)].id = q.cells[o].id + 1
          /\ C[After(q, o)] \in {After(q, o), C[o]}
      BY <1>4, <2>2, <2>3, <3>1 DEF Adds
    <3>. QED  BY <2>1, <2>2, <3>2 DEF CellWoven
  <2>4. CASE After(page, o) \notin DOMAIN page.cells
    <3>1. After(page, o) = ptr /\ page.cells[o].id = up - 1 /\ B[o] = base
      BY <2>1, <2>4 DEF CellWoven
    <3>2. q.cells[ptr].id = q.cells[o].id + 1
      BY <1>2, <1>7, <2>2, <3>1
    <3>3. C[ptr] \in {ptr, C[o]}
      BY <1>4, <2>2, <3>1 DEF Adds
    <3>. QED  BY <1>2, <2>1, <2>2, <3>1, <3>2, <3>3 DEF CellWoven
  <2>. QED  BY <2>3, <2>4
<1>9. CellWoven(q, vs, limit, up, {b}, C, ptr)
  <2>1. After(q, ptr) = limit
    BY DEF After, limit
  <2>2. CASE b = ptr /\ q.cells[ptr] = FullCell(up, vs[up])
    <3>1. q.cells[ptr].kind = "full"
      BY <2>2 DEF FullCell
    <3>. QED  BY <1>2, <1>4, <1>7, <2>1, <2>2, <3>1 DEF CellWoven
  <2>3. CASE /\ b = base /\ base \in DOMAIN page.cells /\ page.cells[base].kind = "full"
             /\ q.cells[ptr] = DeltaCell(up, page.cells[base].str, vs[up])
    <3>1. q.cells[base] = page.cells[base] /\ base # ptr
      BY <1>2, <2>3 DEF Adds
    <3>. QED  BY <1>2, <1>4, <1>7, <2>1, <2>3, <3>1 DEF CellWoven
  <2>. QED  BY <2>2, <2>3 DEF Adds
<1>10. IsWoven(q, vs, limit, up, {b}, C)
  <2>1. \A o \in DOMAIN q.cells : o = ptr \/ o \in DOMAIN page.cells
    BY DEF Adds
  <2>. QED  BY <1>3, <1>5, <1>6, <1>8, <1>9, <2>1 DEF IsWoven
<1>. QED  BY <1>3, <1>10 DEF Woven, limit

\* A value is written on the current page.
LEMMA ChainAdds ==
    ASSUME NEW ps, NEW qs, NEW vs, NEW c, c = Len(ps), c \in Nat \ {0}, NEW ptr, NEW up, NEW base,
           Chain(ps, vs, c, ptr, up, base), NEW q, Replaced(qs, ps, c, q), NEW b,
           Adds(q, ps[c], vs, ptr, up, base, b)
    PROVE  Chain(qs, vs, c, ptr + Occupied(q.cells[ptr]), up + 1, b)
<1>0. /\ Len(qs) = Len(ps) /\ qs[c] = q /\ \A p \in 1..Len(ps) : p # c => qs[p] = ps[p]
      /\ up \in Nat /\ c \in 1..Len(ps)
  BY DEF Replaced, Adds
<1>1. ASSUME NEW p \in 1..Len(ps)
      PROVE  StartOf(qs, p, up + 1) = StartOf(ps, p, up)
  <2>1. CASE p # c
    <3>1. 0 \in DOMAIN ps[p].cells
      BY <1>0, <2>1 DEF Chain
    <3>. QED  BY <1>0, <2>1, <3>1 DEF StartOf
  <2>2. CASE p = c /\ 0 \in DOMAIN ps[c].cells
    BY <1>0, <2>2 DEF StartOf, Adds
  <2>3. CASE p = c /\ 0 \notin DOMAIN ps[c].cells
    <3>1. Woven(ps[c], vs, ptr, StartOf(ps, c + 1, up) - 1, {base})
      BY <1>0 DEF Chain
    <3>2. DOMAIN ps[c].cells = {}
      BY <2>3, <3>1 DEF Woven, IsWoven
    <3>3. ptr = 0 /\ 0 \in DOMAIN q.cells /\ q.cells[0].id = up
      BY <3>2 DEF Adds, FullCell, DeltaCell
    <3>. QED  BY <1>0, <2>3, <3>3 DEF StartOf
  <2>. QED  BY <2>1, <2>2, <2>3
<1>2. ASSUME NEW p \in 1..Len(qs)
      PROVE  Woven(qs[p], vs, IF p = c THEN ptr + Occupied(q.cells[ptr]) ELSE qs[p].end,
                   StartOf(qs, p + 1, up + 1) - 1, IF p = c THEN {b} ELSE DOMAIN qs[p].cells)
  <2>1. CASE p = c
    <3>1. StartOf(ps, c + 1, up) = up /\ StartOf(qs, c + 1, up + 1) = up + 1
      BY <1>0 DEF StartOf
    <3>2. Woven(ps[c], vs, ptr, up - 1, {base})
      BY <1>0, <3>1 DEF Chain
    <3>3. Woven(q, vs, ptr + Occupied(q.cells[ptr]), up, {b})
      BY <3>2, WovenAdds
    <3>. QED  BY <1>0, <2>1, <3>1, <3>3
  <2>2. CASE p # c
    <3>1. p + 1 \in 1..Len(ps)
      BY <1>0, <2>2
    <3>2. StartOf(qs, p + 1, up + 1) = StartOf(ps, p + 1, up)
      BY <1>1, <3>1
    <3>. QED  BY <1>0, <2>2, <3>2 DEF Chain
  <2>. QED  BY <2>1, <2>2
<1>3. ASSUME NEW p \in 1..(Len(qs) - 1)
      PROVE  0 \in DOMAIN qs[p].cells
  <2>1. p \in 1..(Len(ps) - 1) /\ p \in 1..Len(ps) /\ p # c
    BY <1>0
  <2>. QED  BY <1>0, <2>1 DEF Chain
<1>4. StartOf(qs, 1, up + 1) = 1
  BY <1>0, <1>1 DEF Chain
<1>. QED  BY <1>2, <1>3, <1>4 DEF Chain

\* The cells that the loaders write are as long as a reader takes them to be.
LEMMA CellsOccupy ==
    ASSUME NEW vs, NEW id, NEW v, IsValue(vs, id, v), NEW cell,
           cell = FullCell(id, v) \/ \E r \in Strings : cell = DeltaCell(id, r, v)
    PROVE  cell \in Cells /\ cell.id = id /\ Occupied(cell) = Written(cell) /\ Occupied(cell) \in Nat \ {0}
<1>1. id \in Nat /\ v \in Strings /\ Len(v) < StringRange /\ Len(v) \in Nat
  BY DEF IsValue, Strings
<1>2. cell \in Cells /\ cell.id = id /\ cell.size = Len(cell.str)
  <2>1. CASE cell = FullCell(id, v)
    <3>1. /\ FullCell(id, v) \in Cells /\ FullCell(id, v).id = id
          /\ FullCell(id, v).size = Len(v) /\ FullCell(id, v).str = v
      BY <1>1, FullCellProperties
    <3>. QED  BY <2>1, <3>1
  <2>2. ASSUME NEW r \in Strings, cell = DeltaCell(id, r, v)
        PROVE  cell \in Cells /\ cell.id = id /\ cell.size = Len(cell.str)
    <3>1. id \in Nat /\ v \in Strings /\ Len(v) < StringRange /\ r \in Strings
      BY <1>1
    <3>2. /\ DeltaCell(id, r, v) \in Cells /\ DeltaCell(id, r, v).id = id
          /\ DeltaCell(id, r, v).size = Len(Delta(r, v)) /\ DeltaCell(id, r, v).str = Delta(r, v)
      BY ONLY <3>1, DeltaCellProperties
    <3>. QED  BY <2>2, <3>2
  <2>. QED  BY <2>1, <2>2
<1>3. Len(cell.str) \in Nat /\ HeaderSize(cell) \in Nat /\ 0 < HeaderSize(cell)
  BY <1>2 DEF Cells, HeaderSize, DeltaHeader, FullHeader
<1>. QED  BY <1>2, <1>3 DEF Occupied, Written

\* qs is ps with the value up in a cell at ptr of the last page.
Writes(qs, ps, vs, c, ptr, up, base, cell, b) ==
    /\ IsSequence(ps) /\ c = Len(ps) /\ c # 0 /\ IsPage(ps[c])
    /\ qs = [ps EXCEPT ![c] = WithCell(ps[c], ptr, cell)]
    /\ ptr \in Nat /\ \A o \in DOMAIN ps[c].cells : o < ptr
    /\ DOMAIN ps[c].cells = {} => ptr = 0
    /\ IsValue(vs, up, vs[up])
    /\ \/ b = ptr /\ cell = FullCell(up, vs[up])
       \/ /\ b = base /\ base \in DOMAIN ps[c].cells /\ ps[c].cells[base].kind = "full"
          /\ cell = DeltaCell(up, ps[c].cells[base].str, vs[up])

LEMMA ChainWrites ==
    ASSUME NEW qs, NEW ps, NEW vs, NEW c, NEW ptr, NEW up, NEW base, NEW cell, NEW b,
           Writes(qs, ps, vs, c, ptr, up, base, cell, b), Chain(ps, vs, c, ptr, up, base), NEW n, Links(ps, n)
    PROVE  Chain(qs, vs, c, ptr + Written(cell), up + 1, b) /\ Links(qs, n) /\ Len(qs) = Len(ps)
<1>. DEFINE q == WithCell(ps[c], ptr, cell)
<1>1. /\ c \in Nat \ {0} /\ c = Len(ps) /\ c \in 1..Len(ps) /\ IsPage(ps[c]) /\ ptr \in Nat
      /\ up \in 1..Len(vs) /\ \A o \in DOMAIN ps[c].cells : o \in Nat /\ o < ptr
  BY DEF Writes, IsSequence, IsValue, IsPage
<1>2. cell \in Cells /\ Occupied(cell) = Written(cell) /\ Occupied(cell) \in Nat \ {0}
  <2>. DEFINE v == vs[up]
  <2>1. IsValue(vs, up, v)
    BY DEF Writes
  <2>2. cell = FullCell(up, v) \/ \E r \in Strings : cell = DeltaCell(up, r, v)
    <3>1. CASE cell = FullCell(up, vs[up])
      BY <3>1
    <3>2. CASE base \in DOMAIN ps[c].cells /\ cell = DeltaCell(up, ps[c].cells[base].str, vs[up])
      <4>1. ps[c].cells[base].str \in Strings
        BY <1>1, <3>2 DEF IsPage, Cells, Strings
      <4>. QED  BY <3>2, <4>1
    <3>. QED  BY <3>1, <3>2 DEF Writes
  <2>. HIDE DEF v
  <2>. QED  BY <2>1, <2>2, CellsOccupy
<1>3. ptr \notin DOMAIN ps[c].cells
  BY <1>1
<1>4. /\ DOMAIN q.cells = (DOMAIN ps[c].cells) \union {ptr} /\ q.cells[ptr] = cell /\ q.next = ps[c].next
      /\ \A o \in DOMAIN ps[c].cells : o # ptr => q.cells[o] = ps[c].cells[o]
  <2>. DEFINE page == ps[c]
  <2>1. IsPage(page) /\ ptr \in Nat /\ cell \in Cells
    BY <1>1, <1>2
  <2>. HIDE DEF page
  <2>2. /\ IsPage(WithCell(page, ptr, cell)) /\ WithCell(page, ptr, cell).end = page.end
        /\ WithCell(page, ptr, cell).next = page.next
        /\ DOMAIN WithCell(page, ptr, cell).cells = (DOMAIN page.cells) \union {ptr}
        /\ WithCell(page, ptr, cell).cells[ptr] = cell
        /\ \A o \in DOMAIN page.cells : o # ptr => WithCell(page, ptr, cell).cells[o] = page.cells[o]
    BY ONLY <2>1, WithCellProperties
  <2>. QED  BY <2>2 DEF page
<1>. HIDE DEF q
<1>5. Replaced(qs, ps, c, q)
  <2>1. IsSequence(ps) /\ qs = [ps EXCEPT ![c] = q]
    BY DEF Writes, q
  <2>2. Replaced([ps EXCEPT ![c] = q], ps, c, q)
    BY <1>1, <2>1, ReplacedEntry
  <2>. QED  BY <2>1, <2>2
<1>6. Adds(q, ps[c], vs, ptr, up, base, b)
  <2>1. \/ b = ptr /\ q.cells[ptr] = FullCell(up, vs[up])
        \/ /\ b = base /\ base \in DOMAIN ps[c].cells /\ ps[c].cells[base].kind = "full"
           /\ q.cells[ptr] = DeltaCell(up, ps[c].cells[base].str, vs[up])
    BY <1>4 DEF Writes
  <2>2. DOMAIN ps[c].cells = {} => ptr = 0
    BY DEF Writes
  <2>3. \A o \in DOMAIN ps[c].cells : q.cells[o] = ps[c].cells[o]
    BY <1>3, <1>4
  <2>. QED  BY <1>1, <1>2, <1>4, <2>1, <2>2, <2>3 DEF Adds
<1>7. Chain(qs, vs, c, ptr + Written(cell), up + 1, b)
  <2>1. Occupied(q.cells[ptr]) = Written(cell)
    BY <1>2, <1>4
  <2>2. Chain(qs, vs, c, ptr + Occupied(q.cells[ptr]), up + 1, b)
    BY <1>1, <1>5, <1>6, ChainAdds
  <2>. QED  BY <2>1, <2>2
<1>. QED  BY <1>1, <1>4, <1>5, <1>7 DEF Links, Replaced

\* The page that is being written ends where the loop stands.
LEMMA CompletedCloses ==
    ASSUME LoaderInv, current = Len(pages), Links(pages, Len(pages)) \/ Links(pages, Len(pages) - 1)
    PROVE  /\ Closed(Completed, pages, current, dataPtr) /\ Len(Completed) = Len(pages)
           /\ IsSequence(Completed) /\ Links(Completed, Len(pages))
<1>1. Len(pages) \in Nat
  BY DEF LoaderInv, PagesInv, AllSound, IsSequence
<1>2. /\ IsSequence(Completed) /\ Len(Completed) = Len(pages)
      /\ \A p \in 1..Len(pages) :
            Completed[p] = IF p = current THEN Finished(pages[p], dataPtr, pages[p].next)
                           ELSE IF p = current - 1 THEN [pages[p] EXCEPT !.next = current]
                           ELSE pages[p]
  BY <1>1 DEF Completed, IsSequence
<1>5. current \in Nat /\ current # current - 1
  BY <1>1
<1>3. ASSUME NEW p \in 1..Len(pages)
      PROVE  /\ Completed[p].cells = pages[p].cells
             /\ Completed[p].end = IF p = current THEN dataPtr ELSE pages[p].end
             /\ Completed[p].next = IF p = current - 1 THEN current ELSE pages[p].next
  <2>1. IsPage(pages[p])
    BY DEF LoaderInv, PagesInv, AllSound, SoundPage
  <2>. DEFINE linked == [pages[p] EXCEPT !.next = current]
  <2>2. linked.cells = pages[p].cells /\ linked.end = pages[p].end /\ linked.next = current
    BY <2>1 DEF IsPage
  <2>. HIDE DEF linked
  <2>3. CASE p = current
    <3>1. Completed[p] = Finished(pages[p], dataPtr, pages[p].next)
      BY <1>2, <2>3
    <3>2. p # current - 1
      BY <1>5, <2>3
    <3>. QED  BY <2>3, <3>1, <3>2 DEF Finished
  <2>4. CASE p # current /\ p = current - 1
    BY <1>2, <2>2, <2>4 DEF linked
  <2>5. CASE p # current /\ p # current - 1
    BY <1>2, <2>5
  <2>. QED  BY <1>5, <2>3, <2>4, <2>5
<1>4. ASSUME NEW p \in 1..Len(pages)
      PROVE  Completed[p].next = IF p < Len(pages) THEN p + 1 ELSE Null
  <2>1. CASE p = current - 1
    BY <1>1, <1>3, <2>1
  <2>2. CASE p # current - 1
    <3>1. p < Len(pages) <=> p < Len(pages) - 1
      BY <1>1, <2>2
    <3>. QED  BY <1>3, <2>2, <3>1 DEF Links
  <2>. QED  BY <2>1, <2>2
<1>. QED  BY <1>1, <1>2, <1>3, <1>4 DEF Closed, Links

LEMMA NewCloses ==
    ASSUME NEW ps, NEW rs, NEW c, NEW ptr, IsSequence(rs), Len(rs) = Len(ps), Closed(rs, ps, c, ptr),
           NEW n, n \in {Len(ps), Len(ps) + 1}, \A p \in 1..Len(ps) : rs[p].next = IF p < n THEN p + 1 ELSE Null
    PROVE  LET qs == Append(rs, EmptyPage)
           IN  /\ Closed(qs, ps, c, ptr) /\ Len(qs) = Len(ps) + 1 /\ IsSequence(qs)
               /\ DOMAIN qs[Len(ps) + 1].cells = {} /\ qs[Len(ps) + 1] = EmptyPage /\ Links(qs, n)
<1>. DEFINE qs == Append(rs, EmptyPage)
<1>1. /\ Len(qs) = Len(rs) + 1 /\ (\A i \in 1..Len(rs) : qs[i] = rs[i]) /\ qs[Len(rs) + 1] = EmptyPage
      /\ IsSequence(qs) /\ Len(rs) \in Nat
  BY AppendSequence DEF IsSequence
<1>. HIDE DEF qs
<1>2. Links(qs, n)
  <2>. SUFFICES ASSUME NEW p \in 1..Len(qs)
                PROVE  qs[p].next = IF p < n THEN p + 1 ELSE Null
    BY DEF Links
  <2>1. CASE p \in 1..Len(rs)
    BY <1>1, <2>1
  <2>2. CASE p \notin 1..Len(rs)
    <3>1. p = Len(rs) + 1 /\ ~(p < n)
      BY <1>1, <2>2
    <3>. QED  BY <1>1, <3>1 DEF EmptyPage
  <2>. QED  BY <2>1, <2>2
<1>3. Closed(qs, ps, c, ptr)
  BY <1>1 DEF Closed
<1>. QED  BY <1>1, <1>2, <1>3, EmptyPageProperties DEF qs

LEMMA LinkedCloses ==
    ASSUME LoaderInv, current = Len(pages), Links(pages, Len(pages))
    PROVE  /\ Closed(PagesAndNew, pages, current, dataPtr) /\ Len(PagesAndNew) = Len(pages) + 1
           /\ DOMAIN PagesAndNew[Len(pages) + 1].cells = {} /\ IsSequence(PagesAndNew)
           /\ PagesAndNew[Len(pages) + 1] = EmptyPage
           /\ Links(PagesAndNew, Len(pages) + 1)
<1>. DEFINE page == Finished(pages[current], dataPtr, Len(pages) + 1)
            rs == IF current = Null THEN pages ELSE [pages EXCEPT ![current] = page]
            new == Len(pages) + 1
<1>1. IsSequence(pages) /\ Len(pages) \in Nat
  BY DEF LoaderInv, PagesInv, AllSound, IsSequence
<1>2. page.cells = pages[current].cells /\ page.end = dataPtr /\ page.next = Len(pages) + 1
  BY DEF Finished
<1>. HIDE DEF page
<1>3. /\ IsSequence(rs) /\ Len(rs) = Len(pages)
      /\ \A p \in 1..Len(pages) : rs[p] = IF p = current THEN page ELSE pages[p]
  <2>1. CASE current = Null
    <3>1. 1..Len(pages) = {}
      BY <2>1 DEF Null
    <3>. QED  BY <1>1, <2>1, <3>1
  <2>2. CASE current # Null
    <3>1. current \in 1..Len(pages)
      BY <1>1, <2>2 DEF Null
    <3>2. Replaced(rs, pages, current, page)
      BY <1>1, <2>2, <3>1, ReplacedEntry
    <3>. QED  BY <3>2 DEF Replaced
  <2>. QED  BY <2>1, <2>2
<1>4. PagesAndNew = Append(rs, EmptyPage)
  BY DEF PagesAndNew, page
<1>. HIDE DEF rs
<1>5. Closed(rs, pages, current, dataPtr)
  BY <1>1, <1>2, <1>3 DEF Closed
<1>6. \A p \in 1..Len(pages) : rs[p].next = IF p < new THEN p + 1 ELSE Null
  BY <1>1, <1>2, <1>3 DEF Links
<1>7. /\ IsSequence(rs) /\ Len(rs) = Len(pages) /\ Closed(rs, pages, current, dataPtr)
      /\ new \in {Len(pages), Len(pages) + 1}
      /\ \A p \in 1..Len(pages) : rs[p].next = IF p < new THEN p + 1 ELSE Null
  BY <1>3, <1>5, <1>6
<1>8. LET qs == Append(rs, EmptyPage)
      IN  /\ Closed(qs, pages, current, dataPtr) /\ Len(qs) = Len(pages) + 1 /\ IsSequence(qs)
          /\ DOMAIN qs[Len(pages) + 1].cells = {} /\ qs[Len(pages) + 1] = EmptyPage /\ Links(qs, new)
  <2>. HIDE DEF new
  <2>. QED  BY ONLY <1>7, NewCloses
<1>. QED  BY <1>4, <1>8

-----------------------------------------------------------------------------
(* The loaders keep the chain.                                             *)

\* The page that the loop leaves has a value.
LEMMA LeavesValue ==
    ASSUME LoaderInv, ContentInv, ChainInv, pc = "loop", current # Null
    PROVE  current \in 1..Len(pages) /\ 0 \in DOMAIN pages[current].cells
<1>1. Busy /\ Good /\ deltaNumber # 0 /\ current \in 1..Len(pages)
  BY DEF Busy, Good, LoaderInv, LoaderTypes, StepInv, PagesInv, AllSound, IsSequence, Null
<1>2. CASE kind # "multi"
  BY <1>1, <1>2 DEF LoaderInv, StepInv, CountedInv, Reached
<1>3. CASE kind = "multi"
  <2>1. DOMAIN pages[current].cells # {}
    BY <1>1, <1>3 DEF LoaderInv, StepInv, MultiInv
  <2>2. \A p \in 1..Len(pages) : DOMAIN pages[p].cells # {} => 0 \in DOMAIN pages[p].cells
    BY <1>1 DEF ChainInv, Chain, Woven, IsWoven
  <2>. QED  BY <1>1, <2>1, <2>2
<1>. QED  BY <1>1, <1>2, <1>3

\* The loop opens a page: qs has a new one at its end.
LEMMA ChainOpens ==
    ASSUME LoaderInv, ContentInv, ChainInv, pc = "loop", NEW qs, Closed(qs, pages, current, dataPtr),
           Len(qs) = Len(pages) + 1, DOMAIN qs[Len(pages) + 1].cells = {}, NEW base
    PROVE  Chain(qs, values, Len(pages) + 1, 0, pos, base)
<1>1. /\ Chain(pages, values, current, dataPtr, pos, IF kind = "multi" THEN valuePtr.off ELSE 0)
      /\ current = Len(pages) /\ Len(pages) \in Nat
  BY DEF ChainInv, Good, Upcoming, ContentInv, LoaderInv, PagesInv, AllSound, IsSequence
<1>2. Len(pages) # 0 => 0 \in DOMAIN pages[Len(pages)].cells
  BY <1>1, LeavesValue DEF Null
<1>. DEFINE d == Len(pages) + 1
            b == IF kind = "multi" THEN valuePtr.off ELSE 0
<1>3. /\ Chain(pages, values, current, dataPtr, pos, b) /\ Closed(qs, pages, current, dataPtr)
      /\ \/ d = 0 /\ Len(qs) = Len(pages)
         \/ /\ d = Len(pages) + 1 /\ Len(qs) = d /\ DOMAIN qs[d].cells = {}
            /\ Len(pages) # 0 => 0 \in DOMAIN pages[Len(pages)].cells
  BY <1>1, <1>2
<1>4. Chain(qs, values, d, 0, pos, base)
  <2>. HIDE DEF d, b
  <2>. QED  BY ONLY <1>3, ChainCloses
<1>. QED  BY <1>4

LEMMA ChainOpenPage ==
    ASSUME LoaderInv, ContentInv, ChainInv, OpenPage
    PROVE  ChainInv'
<1>1. /\ kind \in {"slotted", "bottomup"} /\ pc = "loop" /\ pages' = PagesAndNew
      /\ current' = Len(pages) + 1 /\ dataPtr' = 0 /\ deltaNumber' = 0
      /\ pc' \in {"threw", "terminated", "open", "callback"}
      /\ UNCHANGED <<kind, values, pos>>
  BY DEF OpenPage, Looping, Callback
<1>2. /\ current = Len(pages) /\ Len(pages) \in Nat /\ Links(pages, Len(pages))
  BY <1>1 DEF ChainInv, Good, ContentInv, LoaderInv, PagesInv, AllSound, IsSequence, Dynamic
<1>. DEFINE qs == pages'
<1>3. /\ Closed(qs, pages, current, dataPtr) /\ Len(qs) = Len(pages) + 1
      /\ DOMAIN qs[Len(pages) + 1].cells = {} /\ Links(qs, Len(qs))
  BY <1>1, <1>2, LinkedCloses
<1>. HIDE DEF qs
<1>4. Chain(qs, values, Len(pages) + 1, 0, pos, 0)
  BY <1>1, <1>3, ChainOpens
<1>5. Upcoming' = pos /\ pc' # "ready" /\ ~Dynamic' /\ kind' # "multi"
  BY <1>1 DEF Upcoming, Dynamic
<1>. QED  BY <1>1, <1>3, <1>4, <1>5 DEF ChainInv, qs

LEMMA ChainOpenBlock ==
    ASSUME LoaderInv, ContentInv, ChainInv, OpenBlock
    PROVE  ChainInv'
<1>1. /\ Dynamic /\ pc = "loop" /\ pages' = Append(Completed, EmptyPage)
      /\ current' = Len(pages) + 1 /\ dataPtr' = 0 /\ deltaNumber' = 0
      /\ pc' \in {"terminated", "callback"} /\ UNCHANGED <<kind, values, pos>>
  BY DEF OpenBlock, Looping, Callback
<1>2. /\ current = Len(pages) /\ Len(pages) \in Nat
      /\ Links(pages, Len(pages)) \/ Links(pages, Len(pages) - 1)
  <2>1. Links(pages, IF Len(pages) > 0 THEN Len(pages) - 1 ELSE Len(pages))
    BY <1>1 DEF ChainInv, Good
  <2>. QED  BY <1>1, <2>1 DEF ContentInv, LoaderInv, PagesInv, AllSound, IsSequence
<1>. DEFINE rs == Completed
            n == Len(pages)
<1>3. /\ Closed(rs, pages, current, dataPtr) /\ Len(rs) = Len(pages) /\ IsSequence(rs) /\ Links(rs, n)
  BY <1>2, CompletedCloses
<1>4. /\ IsSequence(rs) /\ Len(rs) = Len(pages) /\ Closed(rs, pages, current, dataPtr)
      /\ n \in {Len(pages), Len(pages) + 1}
      /\ \A p \in 1..Len(pages) : rs[p].next = IF p < n THEN p + 1 ELSE Null
  BY <1>3 DEF Links
<1>. DEFINE qs == pages'
<1>5. /\ Closed(qs, pages, current, dataPtr) /\ Len(qs) = Len(pages) + 1
      /\ DOMAIN qs[Len(pages) + 1].cells = {} /\ Links(qs, n)
  <2>1. qs = Append(rs, EmptyPage)
    BY <1>1
  <2>2. LET ys == Append(rs, EmptyPage)
        IN  /\ Closed(ys, pages, current, dataPtr) /\ Len(ys) = Len(pages) + 1 /\ IsSequence(ys)
            /\ DOMAIN ys[Len(pages) + 1].cells = {} /\ ys[Len(pages) + 1] = EmptyPage /\ Links(ys, n)
    <3>. HIDE DEF rs, n
    <3>. QED  BY ONLY <1>4, NewCloses
  <2>. HIDE DEF qs, rs, n
  <2>. QED  BY <2>1, <2>2
<1>. HIDE DEF qs
<1>6. Chain(qs, values, Len(pages) + 1, 0, pos, 0)
  BY <1>1, <1>5, ChainOpens
<1>7. Upcoming' = pos /\ pc' # "ready" /\ kind' # "multi" /\ Len(qs) > 0 /\ n = Len(qs) - 1
  BY <1>1, <1>2, <1>5 DEF Upcoming, Dynamic
<1>. QED  BY <1>1, <1>5, <1>6, <1>7 DEF ChainInv, qs, Dynamic

LEMMA ChainFinish ==
    ASSUME LoaderInv, ContentInv, ChainInv, Finish
    PROVE  ChainInv'
<1>1. /\ pc = "loop" /\ UNCHANGED <<kind, values, pos>>
      /\ pc' = "terminated" \/ (pc' = "ready" /\ pages' = Completed)
  BY DEF Finish
<1>. SUFFICES ASSUME pc' = "ready", pages' = Completed PROVE ChainInv'
  BY <1>1 DEF ChainInv, Good
<1>2. /\ current = Len(pages) /\ Len(pages) \in Nat
      /\ Links(pages, Len(pages)) \/ Links(pages, Len(pages) - 1)
  BY <1>1 DEF ChainInv, Good, ContentInv, LoaderInv, PagesInv, AllSound, IsSequence
<1>. DEFINE qs == pages'
            b == IF kind = "multi" THEN valuePtr.off ELSE 0
            d == Null
<1>3. /\ Closed(qs, pages, current, dataPtr) /\ Len(qs) = Len(pages) /\ Links(qs, Len(qs))
  BY <1>2, CompletedCloses
<1>. HIDE DEF qs
<1>4. /\ Chain(pages, values, current, dataPtr, pos, b) /\ Closed(qs, pages, current, dataPtr)
      /\ \/ d = 0 /\ Len(qs) = Len(pages)
         \/ /\ d = Len(pages) + 1 /\ Len(qs) = d /\ DOMAIN qs[d].cells = {}
            /\ Len(pages) # 0 => 0 \in DOMAIN pages[Len(pages)].cells
  BY <1>1, <1>3 DEF ChainInv, Good, Upcoming, Null
<1>5. \A ptr2, base2 : Chain(qs, values, d, ptr2, pos, base2)
  <2>. HIDE DEF b, d
  <2>. QED  BY ONLY <1>4, ChainCloses
<1>. QED  BY <1>1, <1>3, <1>5 DEF ChainInv, qs, Upcoming

LEMMA ChainWriteFull ==
    ASSUME LoaderInv, ContentInv, ChainInv, WriteFull
    PROVE  ChainInv'
<1>. DEFINE cell == FullCell(pos, values[pos])
            qs == pages'
            n == IF Dynamic /\ Len(pages) > 0 THEN Len(pages) - 1 ELSE Len(pages)
<1>1. /\ pc = "open" /\ qs = [pages EXCEPT ![current] = WithCell(pages[current], 0, cell)]
      /\ dataPtr' = Written(cell) /\ deltaNumber' = 1
      /\ UNCHANGED <<kind, values, current, valuePtr>>
  BY DEF WriteFull
<1>2. (pc' = "loop" /\ pos' = pos + 1) \/ (pc' = "callback" /\ pos' = pos)
  BY DEF WriteFull, Callback
<1>3. /\ kind # "multi" /\ Good /\ Busy /\ current # Null /\ pos <= Len(values) /\ deltaNumber = 0
  BY <1>1 DEF LoaderInv, StepInv, Good, Busy
<1>4. /\ Len(pages) \in Nat /\ IsSequence(pages) /\ current = Len(pages) /\ Len(pages) # 0
      /\ IsPage(pages[current]) /\ IsValue(values, pos, values[pos])
      /\ CurrentInv /\ dataPtr = 0
  <2>1. /\ Len(pages) \in Nat /\ IsSequence(pages) /\ current = Len(pages) /\ Len(pages) # 0
        /\ current \in 1..Len(pages) /\ CurrentInv
    BY <1>3 DEF ContentInv, LoaderInv, PagesInv, AllSound, IsSequence, Null
  <2>2. IsPage(pages[current])
    BY <2>1 DEF LoaderInv, PagesInv, AllSound, SoundPage
  <2>3. IsValue(values, pos, values[pos])
    BY <1>3 DEF LoaderInv, LoaderTypes, IsValue, Short
  <2>. QED  BY <1>3, <2>1, <2>2, <2>3 DEF CurrentInv
<1>5. Chain(pages, values, current, 0, pos, 0) /\ Links(pages, n)
  BY <1>1, <1>3, <1>4 DEF ChainInv, Upcoming
<1>6. Writes(qs, pages, values, current, 0, pos, 0, cell, 0)
  BY <1>1, <1>4 DEF Writes, CurrentInv
<1>. HIDE DEF cell, qs, n
<1>7. Chain(qs, values, current, 0 + Written(cell), pos + 1, 0) /\ Links(qs, n) /\ Len(qs) = Len(pages)
  BY ONLY <1>5, <1>6, ChainWrites
<1>8. 0 + Written(cell) = Written(cell)
  <2>1. cell \in Cells
    BY <1>4, CellsOccupy DEF cell
  <2>. QED  BY <2>1 DEF Written, HeaderSize, Cells, FullHeader, DeltaHeader
<1>9. Upcoming' = pos + 1 /\ pc' # "ready" /\ kind' # "multi"
  BY <1>1, <1>2, <1>3 DEF Upcoming
<1>. QED  BY <1>1, <1>7, <1>8, <1>9 DEF ChainInv, qs, n, Dynamic

LEMMA ChainWriteDelta ==
    ASSUME FitsWidths, LeavesFit, LoaderInv, ContentInv, ChainInv, WriteDelta
    PROVE  ChainInv'
<1>. DEFINE cell == DeltaCell(pos, Ref, values[pos])
            qs == pages'
            n == IF Dynamic /\ Len(pages) > 0 THEN Len(pages) - 1 ELSE Len(pages)
<1>1. /\ pc = "loop" /\ kind # "multi" /\ current # Null
      /\ qs = [pages EXCEPT ![current] = WithCell(pages[current], dataPtr, cell)]
      /\ dataPtr' = dataPtr + Written(cell) /\ deltaNumber' = deltaNumber + 1
      /\ pc' \in {"callback", "terminated"}
      /\ UNCHANGED <<kind, values, pos, current>>
  BY DEF WriteDelta, Looping, PageComplete, Callback
<1>2. Takes(kind, pages[current], slots[current], values, deltaNumber, dataPtr, pos) /\ IsValue(values, pos, values[pos])
  BY DeltaDue
<1>3. /\ Len(pages) \in Nat /\ IsSequence(pages) /\ current = Len(pages) /\ Len(pages) # 0
      /\ IsPage(pages[current]) /\ CurrentInv /\ deltaNumber \in Nat
  <2>1. /\ Len(pages) \in Nat /\ IsSequence(pages) /\ current = Len(pages) /\ Len(pages) # 0
        /\ current \in 1..Len(pages) /\ CurrentInv
    BY <1>1 DEF ContentInv, LoaderInv, PagesInv, AllSound, IsSequence, Null, Busy
  <2>. QED  BY <1>2, <2>1 DEF Takes
<1>4. /\ 0 \in DOMAIN pages[current].cells /\ pages[current].cells[0].kind = "full"
      /\ cell = DeltaCell(pos, pages[current].cells[0].str, values[pos]) /\ dataPtr \in Nat
  <2>1. 0 \in DOMAIN pages[current].cells /\ SoundCells(pages[current], values)
    BY <1>2 DEF Takes, PageContent
  <2>2. pages[current].cells[0] = FullCell(pages[current].cells[0].id, values[pages[current].cells[0].id])
    BY <2>1 DEF SoundCells
  <2>3. pages[current].cells[0].kind = "full"
    BY <2>2 DEF FullCell
  <2>4. cell = DeltaCell(pos, pages[current].cells[0].str, values[pos])
    BY DEF Ref
  <2>5. dataPtr \in Nat
    BY <1>2 DEF Takes
  <2>. HIDE DEF cell
  <2>. QED  BY <2>1, <2>3, <2>4, <2>5
<1>5. Chain(pages, values, current, dataPtr, pos, 0) /\ Links(pages, n)
  BY <1>1 DEF ChainInv, Upcoming, Good
<1>6. Writes(qs, pages, values, current, dataPtr, pos, 0, cell, 0)
  BY <1>1, <1>2, <1>3, <1>4 DEF Writes, CurrentInv
<1>. HIDE DEF cell, qs, n
<1>7. Chain(qs, values, current, dataPtr + Written(cell), pos + 1, 0) /\ Links(qs, n) /\ Len(qs) = Len(pages)
  BY ONLY <1>5, <1>6, ChainWrites
<1>8. pc' = "callback" => Upcoming' = pos + 1 /\ pc' # "ready" /\ kind' # "multi"
  BY <1>1, <1>3 DEF Upcoming
<1>. QED  BY <1>1, <1>7, <1>8 DEF ChainInv, Good, qs, n, Dynamic

LEMMA ChainMultiStep ==
    ASSUME kind = "multi", NEW ps, NEW ss, NEW zs, NEW page, NEW off, NEW cell, NEW number \in Nat,
           MultiStep(ps, ss, zs, page, off, cell, number),
           NEW base, Chain(ps, values, page, off, pos, base), Links(ps, Len(ps)),
           NEW b, b = IF cell.kind = "full" THEN off ELSE valuePtr.off,
           Writes(pages', ps, values, page, off, pos, base, cell, b)
    PROVE  ChainInv'
<1>. DEFINE qs == pages'
            vp == valuePtr'
<1>1. /\ current' = page /\ dataPtr' = off + Written(cell) /\ deltaNumber' = number + 1
      /\ vp = IF cell.kind = "full" THEN [page |-> page, off |-> off] ELSE valuePtr
      /\ pc' = "callback" /\ UNCHANGED <<kind, values, pos>>
  BY DEF MultiStep, Callback
<1>2. vp.off = b
  BY <1>1
<1>3. Writes(qs, ps, values, page, off, pos, base, cell, b) /\ Chain(ps, values, page, off, pos, base)
      /\ Links(ps, Len(ps))
  OBVIOUS
<1>. HIDE DEF qs, vp
<1>4. Chain(qs, values, page, off + Written(cell), pos + 1, b) /\ Links(qs, Len(ps)) /\ Len(qs) = Len(ps)
  BY ONLY <1>3, ChainWrites
<1>5. Upcoming' = pos + 1 /\ ~Dynamic'
  BY <1>1 DEF Upcoming, Dynamic
<1>. QED  BY <1>1, <1>2, <1>4, <1>5 DEF ChainInv, qs, vp

LEMMA ChainWriteMulti ==
    ASSUME LoaderInv, ContentInv, ChainInv, WriteMulti
    PROVE  ChainInv'
<1>1. kind = "multi" /\ Looping /\ pc = "loop" /\ Good /\ ~Dynamic
  BY DEF WriteMulti, Looping, Good, Dynamic
<1>2. /\ IsValue(values, pos, values[pos]) /\ Len(pages) \in Nat /\ IsSequence(pages)
      /\ current = Len(pages) /\ dataPtr \in Nat /\ deltaNumber \in Nat
  <2>1. /\ pos \in 1..Len(values) /\ pos \in Nat /\ values \in Seq(Strings) /\ Short(values)
        /\ dataPtr \in Nat /\ deltaNumber \in Nat
    BY <1>1 DEF LoaderInv, LoaderTypes, Looping
  <2>. QED  BY <2>1 DEF ContentInv, LoaderInv, PagesInv, AllSound, IsSequence, IsValue, Short
<1>3. Chain(pages, values, current, dataPtr, pos, valuePtr.off) /\ Links(pages, Len(pages))
  BY <1>1 DEF ChainInv, Upcoming, Dynamic
<1>. DEFINE qs == pages'
<1>4. CASE current = Null \/ ~ValueFits
  <2>. DEFINE ps == PagesAndNew
              ss == Append(slots, <<>>)
              zs == Append(sizes, PageSize)
              page == Len(pages) + 1
              cell == FullCell(pos, values[pos])
  <2>1. MultiStep(ps, ss, zs, page, 0, cell, 0)
    <3>1. MultiValue(TRUE)
      <4>1. (current = Null \/ ~ValueFits) = TRUE
        BY <1>4
      <4>. QED  BY <4>1, MultiWrites, Zenon
    <3>. QED  BY <3>1, Zenon DEF MultiValue
  <2>2. /\ Closed(ps, pages, current, dataPtr) /\ Len(ps) = page /\ IsSequence(ps)
        /\ ps[page] = EmptyPage /\ Links(ps, page) /\ DOMAIN ps[page].cells = {}
    BY <1>2, <1>3, LinkedCloses
  <2>3. Chain(ps, values, page, 0, pos, 0)
    <3>. HIDE DEF ps
    <3>. QED  BY <1>1, <2>2, ChainOpens
  <2>4. qs = [ps EXCEPT ![page] = WithCell(ps[page], 0, cell)]
    BY <2>1 DEF MultiStep
  <2>5. 0 = IF cell.kind = "full" THEN 0 ELSE valuePtr.off
    BY DEF FullCell
  <2>. HIDE DEF ps, ss, zs
  <2>6. Writes(qs, ps, values, page, 0, pos, 0, cell, 0)
    BY <1>2, <2>2, <2>4, EmptyPageProperties DEF Writes
  <2>7. /\ kind = "multi" /\ 0 \in Nat /\ MultiStep(ps, ss, zs, page, 0, cell, 0)
        /\ Chain(ps, values, page, 0, pos, 0) /\ Links(ps, Len(ps))
        /\ 0 = IF cell.kind = "full" THEN 0 ELSE valuePtr.off
        /\ Writes(pages', ps, values, page, 0, pos, 0, cell, 0)
    BY <1>1, <2>1, <2>2, <2>3, <2>5, <2>6
  <2>. HIDE DEF cell, page
  <2>. QED  BY ONLY <2>7, ChainMultiStep
<1>5. CASE ~(current = Null \/ ~ValueFits)
  <2>. DEFINE cell == IF IsFull THEN FullCell(pos, values[pos]) ELSE DeltaCell(pos, LastFull, values[pos])
              page == pages[current]
              d == deltaNumber
              base == valuePtr.off
              b == IF IsFull THEN dataPtr ELSE base
  <2>1. MultiStep(pages, slots, sizes, current, dataPtr, cell, d)
    <3>1. MultiValue(FALSE)
      <4>1. (current = Null \/ ~ValueFits) = FALSE
        BY <1>5
      <4>. QED  BY <4>1, MultiWrites, Zenon
    <3>. QED  BY <3>1, Zenon DEF MultiValue
  <2>2. /\ current \in 1..Len(pages) /\ Len(pages) # 0 /\ IsPage(page) /\ CurrentInv /\ RunInv
        /\ base \in DOMAIN page.cells
    <3>1. current \in 1..Len(pages) /\ Busy /\ current # Null
      BY <1>1, <1>2, <1>5 DEF Null, Busy
    <3>2. CurrentInv /\ MultiInv
      BY <1>1, <3>1 DEF ContentInv, LoaderInv, StepInv
    <3>3. IsPage(page)
      BY <3>1 DEF LoaderInv, PagesInv, AllSound, SoundPage
    <3>. QED  BY <1>1, <1>2, <3>1, <3>2, <3>3 DEF CurrentInv, MultiInv
  <2>3. page.cells[base].kind = "full"
    <3>1. PICK o \in DOMAIN page.cells :
             Run(page, base, (deltaNumber - 1) % Frequency, o, LastId, values)
      BY <2>2 DEF RunInv
    <3>. HIDE DEF page, base
    <3>. QED  BY <3>1 DEF Run, Ways
  <2>4. b = IF cell.kind = "full" THEN dataPtr ELSE base
    BY DEF FullCell, DeltaCell
  <2>5. qs = [pages EXCEPT ![current] = WithCell(page, dataPtr, cell)]
    BY <2>1 DEF MultiStep
  <2>6. \/ b = dataPtr /\ cell = FullCell(pos, values[pos])
        \/ b = base /\ cell = DeltaCell(pos, page.cells[base].str, values[pos])
    BY DEF LastFull
  <2>. HIDE DEF cell, b, d
  <2>7. Writes(qs, pages, values, current, dataPtr, pos, base, cell, b)
    <3>1. DOMAIN page.cells # {} /\ \A o \in DOMAIN page.cells : o < dataPtr
      BY <2>2 DEF CurrentInv
    <3>. HIDE DEF base
    <3>. QED  BY <1>2, <2>2, <2>3, <2>5, <2>6, <3>1 DEF Writes
  <2>8. /\ kind = "multi" /\ d \in Nat /\ MultiStep(pages, slots, sizes, current, dataPtr, cell, d)
        /\ Chain(pages, values, current, dataPtr, pos, base) /\ Links(pages, Len(pages))
        /\ b = IF cell.kind = "full" THEN dataPtr ELSE valuePtr.off
        /\ Writes(pages', pages, values, current, dataPtr, pos, base, cell, b)
    BY <1>1, <1>2, <1>3, <2>1, <2>4, <2>7 DEF d
  <2>. HIDE DEF base
  <2>. QED  BY ONLY <2>8, ChainMultiStep
<1>. QED  BY <1>4, <1>5

\* The steps of the callback do not touch the pages.
LEMMA ChainCallback ==
    ASSUME LoaderInv, ChainInv, pc \in {"callback", "indexed"},
           (pc' \in {"indexed", "overrun"} /\ UNCHANGED pos) \/ Return,
           UNCHANGED <<pages, kind, values, current, dataPtr, deltaNumber, valuePtr>>
    PROVE  ChainInv'
<1>1. \/ pc' = "overrun"
      \/ pc' = "indexed" /\ pos' = pos
      \/ deltaNumber = 0 /\ pc' = "open" /\ pos' = pos
      \/ deltaNumber # 0 /\ pc' = "loop" /\ pos' = pos + 1
  BY DEF Return
<1>2. pc' # "overrun" => Upcoming' = Upcoming
  BY <1>1 DEF Upcoming
<1>. QED  BY <1>1, <1>2 DEF ChainInv, Good, Dynamic

LEMMA ChainElsewhere ==
    ASSUME ChainInv, pc \in {"ready", "threw"} \/ pc' = pc, pc' \in {pc, "aborted"},
           UNCHANGED <<pages, kind, values, pos, current, dataPtr, deltaNumber, valuePtr>>
    PROVE  ChainInv'
BY DEF ChainInv, Good, Upcoming, Dynamic

LEMMA ChainBulkInsert ==
    ASSUME LoaderInv, NEW vs, BulkInsert(vs)
    PROVE  ChainInv'
<1>1. /\ values = <<>> /\ pc' = "loop" /\ UNCHANGED <<pages, pos>>
  BY DEF BulkInsert, Load
<1>2. pages = <<>> /\ pos = 1 /\ Len(pages) = 0
  BY <1>1 DEF LoaderInv, LoaderTypes
<1>3. Upcoming' = 1
  BY <1>1, <1>2 DEF Upcoming
<1>4. \A vals, c, ptr, base : Chain(pages', vals, c, ptr, 1, base)
  BY <1>1, <1>2 DEF Chain, StartOf
<1>5. \A n : Links(pages', n)
  BY <1>1, <1>2 DEF Links
<1>. QED  BY <1>3, <1>4, <1>5 DEF ChainInv

LEMMA ChainInit ==
    ASSUME Init
    PROVE  ChainInv
<1>1. pages = <<>> /\ Len(pages) = 0 /\ pos = 1 /\ pc = "ready"
  BY DEF Init, LoaderInit
<1>2. Upcoming = 1
  BY <1>1 DEF Upcoming
<1>3. \A vals, c, ptr, base : Chain(pages, vals, c, ptr, 1, base)
  BY <1>1 DEF Chain, StartOf
<1>4. \A n : Links(pages, n)
  BY <1>1 DEF Links
<1>. QED  BY <1>2, <1>3, <1>4 DEF ChainInv

LEMMA ChainStep ==
    ASSUME FitsWidths, LeavesFit, DictionaryInv, ChainInv, [Next]_vars
    PROVE  ChainInv'
<1>. USE DEF DictionaryInv
<1>1. ASSUME WriteValue \/ BulkInsertReturns
      PROVE  ChainInv'
  BY <1>1, ChainOpenPage, ChainOpenBlock, ChainWriteFull, ChainWriteDelta, ChainWriteMulti, ChainFinish
     DEF WriteValue, BulkInsertReturns
<1>2. ASSUME InsertReverse
      PROVE  ChainInv'
  <2>1. /\ pc = "callback"
        /\ (pc' \in {"indexed", "overrun"} /\ UNCHANGED pos) \/ Return
        /\ UNCHANGED <<pages, kind, values, current, dataPtr, deltaNumber, valuePtr>>
    BY <1>2 DEF InsertReverse
  <2>. QED  BY <2>1, ChainCallback
<1>3. ASSUME InsertId
      PROVE  ChainInv'
  <2>1. /\ pc \in {"callback", "indexed"} /\ Return
        /\ UNCHANGED <<pages, kind, values, current, dataPtr, deltaNumber, valuePtr>>
    BY <1>3 DEF InsertId
  <2>. QED  BY <2>1, ChainCallback
<1>4. ASSUME Lookup
      PROVE  ChainInv'
  <2>1. /\ pc \in {"ready", "threw"} /\ pc' \in {pc, "aborted"}
        /\ UNCHANGED <<pages, kind, slots, sizes, values, pos, current, dataPtr, deltaNumber,
                       numberOfDeltas, valuePtr, pending, index, reverseIndex>>
    BY <1>4, LookupsOnlyRead DEF AtRest
  <2>. QED  BY <2>1, ChainElsewhere
<1>5. ASSUME UNCHANGED vars
      PROVE  ChainInv'
  BY <1>5, ChainElsewhere DEF vars
<1>6. ASSUME NEW vs \in Inputs, BulkInsert(vs)
      PROVE  ChainInv'
  BY <1>6, ChainBulkInsert
<1>7. ASSUME Next
      PROVE  ChainInv'
  BY <1>1, <1>2, <1>3, <1>4, <1>6, <1>7 DEF Next, LoadStep
<1>. QED  BY <1>5, <1>7

-----------------------------------------------------------------------------
(* The last page.                                                          *)

\* Behind the values counted for a page there is another one, so the last page
\* has none but its first.
TailInv ==
    kind \in {"slotted", "bottomup"} =>
        /\ Busy /\ current # Null => numberOfDeltas = 0 \/ First + numberOfDeltas < Len(values)
        /\ pc = "ready" /\ current # Null => Entries(current) = 0

LEMMA TailOpenPage ==
    ASSUME LoaderInv, OpenPage
    PROVE  TailInv'
<1>1. /\ kind \in {"slotted", "bottomup"} /\ pos <= Len(values) /\ deltaNumber' = 0
      /\ UNCHANGED <<kind, values, pos>>
      /\ \/ pc' \in {"threw", "terminated"}
         \/ ~(RoomFor(0) > EndOfPage) /\ pc' \in {"open", "callback"} /\ numberOfDeltas' = DeltasThatFit
  BY DEF OpenPage, Looping, Callback
<1>2. ~(RoomFor(0) > EndOfPage) => DeltasThatFit = 0 \/ pos + DeltasThatFit < Len(values)
  BY <1>1, FirstFits, Fitting
<1>3. First' = pos
  BY <1>1 DEF First
<1>. QED  BY <1>1, <1>2, <1>3 DEF TailInv, Busy

LEMMA TailFinish ==
    ASSUME LoaderInv, TailInv, Finish
    PROVE  TailInv'
<1>. SUFFICES ASSUME kind \in {"slotted", "bottomup"}, current # Null PROVE TailInv'
  BY DEF Finish, TailInv, Busy
<1>1. /\ pc = "loop" /\ pos > Len(values) /\ pc' = "ready"
      /\ UNCHANGED <<kind, slots, current>>
  BY DEF Finish
<1>2. /\ Len(values) \in Nat /\ pos \in Nat /\ deltaNumber \in Nat /\ numberOfDeltas \in Nat
      /\ deltaNumber # 0 /\ deltaNumber <= numberOfDeltas + 1 /\ Len(slots[current]) = numberOfDeltas
  BY <1>1 DEF LoaderInv, LoaderTypes, StepInv, Busy, CountedInv, Unindexed
<1>3. numberOfDeltas = 0 \/ (pos - deltaNumber) + numberOfDeltas < Len(values)
  BY <1>1, <1>2 DEF TailInv, Busy, First
<1>4. numberOfDeltas = 0
  BY <1>1, <1>2, <1>3
<1>. QED  BY <1>1, <1>2, <1>4 DEF TailInv, Busy, Entries

LEMMA TailElsewhere ==
    ASSUME LoaderInv, TailInv,
           UNCHANGED <<kind, values, current, numberOfDeltas>>,
           \/ UNCHANGED <<pc, pos, deltaNumber, slots>>
           \/ Busy /\ Busy' /\ First' = First
           \/ pc' \in {"terminated", "overrun", "aborted"}
    PROVE  TailInv'
<1>1. CASE UNCHANGED <<pc, pos, deltaNumber, slots>>
  <2>1. First' = First /\ (Busy' <=> Busy) /\ Entries(current)' = Entries(current)
    BY <1>1 DEF First, Busy, Entries
  <2>. QED  BY <1>1, <2>1 DEF TailInv
<1>2. CASE Busy /\ Busy' /\ First' = First
  <2>1. pc' # "ready"
    BY <1>2 DEF Busy
  <2>. QED  BY <1>2, <2>1 DEF TailInv
<1>3. CASE pc' \in {"terminated", "overrun", "aborted"}
  BY <1>3 DEF TailInv, Busy
<1>. QED  BY <1>1, <1>2, <1>3

LEMMA TailStep ==
    ASSUME DictionaryInv, TailInv, [Next]_vars
    PROVE  TailInv'
<1>. USE DEF DictionaryInv
<1>0. pos \in Nat /\ deltaNumber \in Nat
  BY DEF LoaderInv, LoaderTypes
<1>1. ASSUME OpenBlock
      PROVE  TailInv'
  BY <1>1 DEF OpenBlock, Dynamic, TailInv
<1>2. ASSUME WriteMulti
      PROVE  TailInv'
  <2>1. kind = "multi" /\ kind' = kind
    BY <1>2, Zenon DEF WriteMulti
  <2>. QED  BY <2>1 DEF TailInv
<1>3. ASSUME WriteFull
      PROVE  TailInv'
  <2>1. /\ pc = "open" /\ deltaNumber = 0 /\ deltaNumber' = 1
        /\ (pc' = "loop" /\ pos' = pos + 1) \/ (pc' = "callback" /\ pos' = pos)
        /\ UNCHANGED <<kind, values, current, numberOfDeltas>>
    BY <1>3 DEF WriteFull, Callback, LoaderInv, StepInv
  <2>2. First' = First
    BY <1>0, <2>1 DEF First
  <2>3. Busy /\ Busy'
    BY <2>1 DEF Busy
  <2>. QED  BY <2>1, <2>2, <2>3, TailElsewhere
<1>4. ASSUME WriteDelta
      PROVE  TailInv'
  <2>1. /\ pc = "loop" /\ deltaNumber' = deltaNumber + 1 /\ current # Null
        /\ pc' \in {"callback", "terminated"} /\ pos' = pos
        /\ UNCHANGED <<kind, values, current, numberOfDeltas>>
    BY <1>4 DEF WriteDelta, Callback, Looping, PageComplete
  <2>2. deltaNumber # 0
    BY <2>1 DEF LoaderInv, StepInv
  <2>3. pc' = "callback" => First' = First
    BY <1>0, <2>1, <2>2 DEF First
  <2>4. Busy /\ (pc' = "callback" => Busy')
    BY <2>1 DEF Busy
  <2>. QED  BY <2>1, <2>3, <2>4, TailElsewhere
<1>5. ASSUME InsertReverse \/ InsertId
      PROVE  TailInv'
  <2>1. /\ pc \in {"callback", "indexed"}
        /\ (pc' \in {"indexed", "overrun"} /\ UNCHANGED pos) \/ Return
        /\ UNCHANGED <<kind, values, current, numberOfDeltas, deltaNumber>>
    BY <1>5 DEF InsertReverse, InsertId
  <2>2. \/ pc' = "overrun"
        \/ pc' = "indexed" /\ pos' = pos
        \/ deltaNumber = 0 /\ pc' = "open" /\ pos' = pos
        \/ deltaNumber # 0 /\ pc' = "loop" /\ pos' = pos + 1
    BY <2>1 DEF Return
  <2>3. pc' = "overrun" \/ First' = First
    BY <1>0, <2>1, <2>2 DEF First
  <2>4. Busy /\ (pc' # "overrun" => Busy')
    BY <2>1, <2>2 DEF Busy
  <2>. QED  BY <2>1, <2>3, <2>4, TailElsewhere
<1>6. ASSUME Lookup
      PROVE  TailInv'
  <2>1. /\ pc \in {"ready", "threw"} /\ pc' \in {pc, "aborted"}
        /\ UNCHANGED <<pages, kind, slots, sizes, values, pos, current, dataPtr, deltaNumber,
                       numberOfDeltas, valuePtr, pending, index, reverseIndex>>
    BY <1>6, LookupsOnlyRead DEF AtRest
  <2>. QED  BY <2>1, TailElsewhere
<1>7. ASSUME UNCHANGED vars
      PROVE  TailInv'
  BY <1>7, TailElsewhere DEF vars
<1>8. ASSUME NEW vs \in Inputs, BulkInsert(vs)
      PROVE  TailInv'
  <2>1. /\ values = <<>> /\ pc' = "loop" /\ UNCHANGED current
    BY <1>8 DEF BulkInsert, Load
  <2>2. current = Null
    BY <2>1 DEF LoaderInv, LoaderTypes
  <2>. QED  BY <2>1, <2>2 DEF TailInv
<1>9. ASSUME Next
      PROVE  TailInv'
  BY <1>1, <1>2, <1>3, <1>4, <1>5, <1>6, <1>8, <1>9, TailOpenPage, TailFinish
     DEF Next, LoadStep, WriteValue, BulkInsertReturns
<1>. QED  BY <1>7, <1>9

-----------------------------------------------------------------------------
(* The search along the chain.                                             *)

\* What indexSearch goes through.
Searches(f, str) ==
    f = [q \in 0..Len(pages) |->
            IF q = Null THEN [fails |-> TRUE, it |-> NullIterator]
            ELSE IF GoesOn(q, str) THEN f[pages[q].next]
            ELSE [fails |-> FALSE, it |-> SearchOn(q, str)]]

LEMMA SearchesExist ==
    ASSUME Len(pages) \in Nat, Links(pages, Len(pages)), NEW str
    PROVE  \E f : Searches(f, str)
<1>. DEFINE D == 0..Len(pages)
            failed == [fails |-> TRUE, it |-> NullIterator]
            at(q) == [fails |-> FALSE, it |-> SearchOn(q, str)]
            S == {failed} \union { at(q) : q \in D }
            turn(g, q) == IF q = Null THEN failed
                          ELSE IF GoesOn(q, str) THEN g[pages[q].next] ELSE at(q)
            Size == [q \in D |-> IF q = 0 THEN 0 ELSE Len(pages) + 1 - q]
            Body == [g \in [D -> S] |-> [q \in D |-> turn(g, q)]]
            bound == Len(pages) + 1
<1>1. ASSUME NEW q \in D, q # 0
      PROVE  pages[q].next \in D /\ (pages[q].next = 0 \/ pages[q].next = q + 1)
  <2>1. q \in 1..Len(pages)
    BY <1>1
  <2>. QED  BY <2>1 DEF Links, Null
<1>2. Size \in [D -> Nat] /\ bound \in Nat /\ \A q \in D : Size[q] < bound
  OBVIOUS
<1>3. ASSUME NEW q \in D, q # 0
      PROVE  Size[pages[q].next] < Size[q]
  BY <1>1, <1>3
<1>4. Body \in [[D -> S] -> [D -> S]]
  <2>1. ASSUME NEW g \in [D -> S], NEW q \in D
        PROVE  turn(g, q) \in S
    <3>1. failed \in S /\ at(q) \in S
      OBVIOUS
    <3>2. q # 0 => g[pages[q].next] \in S
      BY <1>1
    <3>. HIDE DEF failed, at, S, D
    <3>. QED  BY <3>1, <3>2 DEF Null
  <2>. HIDE DEF turn, S, D
  <2>. QED  BY <2>1
<1>5. DependsOnSmaller(Body, D, S, Size)
  <2>1. ASSUME NEW g \in [D -> S], NEW h \in [D -> S], NEW x \in D,
               \A y \in D : Size[y] < Size[x] => g[y] = h[y]
        PROVE  Body[g][x] = Body[h][x]
    <3>1. Body[g][x] = turn(g, x) /\ Body[h][x] = turn(h, x)
      <4>. HIDE DEF turn, S, D
      <4>. QED  OBVIOUS
    <3>2. x # 0 => g[pages[x].next] = h[pages[x].next]
      <4>. HIDE DEF Size, D
      <4>. QED  BY <1>1, <1>3, <2>1
    <3>3. turn(g, x) = turn(h, x)
      <4>. HIDE DEF failed, at
      <4>. QED  BY <3>2 DEF Null
    <3>. HIDE DEF turn, Body
    <3>. QED  BY <3>1, <3>3
  <2>. HIDE DEF Body, S, D, Size
  <2>. QED  BY <2>1 DEF DependsOnSmaller
<1>6. failed \in S
  OBVIOUS
<1>7. \E f : IsFixed(f, Body, D, S)
  <2>. HIDE DEF Body, S, D, Size, bound, failed
  <2>. QED  BY <1>2, <1>4, <1>5, <1>6, Recursion
<1>8. PICK f : f \in [D -> S] /\ f = Body[f]
  BY <1>7 DEF IsFixed
<1>9. f = [q \in D |-> turn(f, q)]
  <2>. HIDE DEF S, D, turn
  <2>. QED  BY <1>8
<1>. QED  BY <1>9 DEF Searches

\* What a search on page q gives.
LEMMA IndexSearchIs ==
    ASSUME Len(pages) \in Nat, Links(pages, Len(pages)), NEW str
    PROVE  \A q \in 1..Len(pages) :
               IndexSearch(q, str) = IF ~GoesOn(q, str) THEN [fails |-> FALSE, it |-> SearchOn(q, str)]
                                     ELSE IF q = Len(pages) THEN [fails |-> TRUE, it |-> NullIterator]
                                     ELSE IndexSearch(q + 1, str)
<1>. DEFINE f == CHOOSE g : Searches(g, str)
<1>1. Searches(f, str)
  BY SearchesExist
<1>2. \A q \in 0..Len(pages) : IndexSearch(q, str) = f[q]
  <2>. DEFINE Is(g) == Searches(g, str)
  <2>1. ASSUME NEW q \in 0..Len(pages)
        PROVE  IndexSearch(q, str) = f[q]
    BY Zenon DEF IndexSearch, Searches
  <2>. QED  BY <2>1
<1>. HIDE DEF f
<1>3. ASSUME NEW q \in 1..Len(pages)
      PROVE  f[q] = IF ~GoesOn(q, str) THEN [fails |-> FALSE, it |-> SearchOn(q, str)]
                    ELSE IF q = Len(pages) THEN [fails |-> TRUE, it |-> NullIterator]
                    ELSE f[q + 1]
  <2>1. q \in 0..Len(pages) /\ q # Null /\ 0 \in 0..Len(pages)
    BY DEF Null
  <2>2. f[q] = IF GoesOn(q, str) THEN f[pages[q].next] ELSE [fails |-> FALSE, it |-> SearchOn(q, str)]
    BY <1>1, <2>1 DEF Searches
  <2>3. f[Null] = [fails |-> TRUE, it |-> NullIterator]
    BY <1>1, <2>1 DEF Searches, Null
  <2>4. pages[q].next = IF q < Len(pages) THEN q + 1 ELSE Null
    BY DEF Links
  <2>5. q < Len(pages) <=> q # Len(pages)
    OBVIOUS
  <2>. QED  BY <2>2, <2>3, <2>4, <2>5
<1>4. \A q \in 1..Len(pages) : q \in 0..Len(pages) /\ (q # Len(pages) => q + 1 \in 0..Len(pages))
  OBVIOUS
<1>. QED  BY <1>2, <1>3, <1>4

\* From every page the search ends before the last one is left.
LEMMA LastPageEnds ==
    ASSUME DictionaryInv, ChainInv, TailInv, pc = "ready", kind = "bottomup", NEW str
    PROVE  \A p \in 1..Len(pages) : ~IndexSearch(p, str).fails
<1>1. /\ Len(pages) \in Nat /\ current = Len(pages) /\ Links(pages, Len(pages))
  BY DEF DictionaryInv, LoaderInv, PagesInv, AllSound, IsSequence, ContentInv, ChainInv, Good, Dynamic
<1>2. Len(pages) # 0 => ~GoesOn(Len(pages), str)
  <2>. SUFFICES ASSUME Len(pages) # 0 PROVE ~GoesOn(Len(pages), str)
    OBVIOUS
  <2>1. Entries(current) = 0
    BY <1>1 DEF TailInv, Null
  <2>. QED  BY <1>1, <2>1 DEF GoesOn
<1>. DEFINE Left == { n \in Nat : n < Len(pages) /\ IndexSearch(Len(pages) - n, str).fails }
<1>3. ASSUME Left # {} PROVE FALSE
  <2>1. PICK n \in Left : \A m \in Left : n <= m
    <3>1. Left \in SUBSET Nat
      OBVIOUS
    <3>. HIDE DEF Left
    <3>. QED  BY <1>3, <3>1, LeastElement
  <2>. DEFINE q == Len(pages) - n
  <2>2. n \in Nat /\ n < Len(pages) /\ q \in 1..Len(pages) /\ IndexSearch(q, str).fails
    BY <1>1, <2>1
  <2>3. IndexSearch(q, str) = IF ~GoesOn(q, str) THEN [fails |-> FALSE, it |-> SearchOn(q, str)]
                              ELSE IF q = Len(pages) THEN [fails |-> TRUE, it |-> NullIterator]
                              ELSE IndexSearch(q + 1, str)
    BY <1>1, <2>2, IndexSearchIs
  <2>4. q # Len(pages) /\ IndexSearch(q + 1, str).fails
    <3>1. IndexSearch(q, str) = [fails |-> FALSE, it |-> SearchOn(q, str)] => ~IndexSearch(q, str).fails
      OBVIOUS
    <3>2. GoesOn(q, str)
      BY <2>2, <2>3, <3>1
    <3>3. q # Len(pages)
      BY <1>1, <1>2, <2>2, <3>2
    <3>. HIDE DEF q
    <3>. QED  BY <2>2, <2>3, <3>2, <3>3
  <2>5. n # 0 /\ n - 1 \in Nat /\ Len(pages) - (n - 1) = q + 1
    BY <1>1, <2>2, <2>4
  <2>6. n - 1 \in Left /\ ~(n <= n - 1)
    BY <1>1, <2>2, <2>4, <2>5
  <2>. HIDE DEF Left
  <2>. QED  BY <2>1, <2>6
<1>4. ASSUME NEW p \in 1..Len(pages), IndexSearch(p, str).fails
      PROVE  FALSE
  <2>. DEFINE n == Len(pages) - p
  <2>1. n \in Nat /\ n < Len(pages) /\ Len(pages) - n = p
    BY <1>1
  <2>2. n \in Left
    <3>. HIDE DEF n
    <3>. QED  BY <1>4, <2>1
  <2>. QED  BY <1>3, <2>2
<1>. QED  BY <1>4

\* The chain of pages holds, with all that it rests on.
LEMMA ChainInvariant ==
    ASSUME FitsWidths, LeavesFit
    PROVE  Spec => [](DictionaryInv /\ ChainInv /\ TailInv)
<1>1. Init => DictionaryInv /\ ChainInv /\ TailInv
  <2>1. Init => TailInv
    BY DEF Init, LoaderInit, TailInv, Busy
  <2>. QED  BY <2>1, InitInv, DictionaryInit, ChainInit DEF DictionaryInv
<1>2. DictionaryInv /\ ChainInv /\ TailInv /\ [Next]_vars => (DictionaryInv /\ ChainInv /\ TailInv)'
  BY DictionaryStep, ChainStep, TailStep
<1>. QED  BY <1>1, <1>2, PTL DEF Spec

\* indexSearch never runs off the end of the chain of bottom-up pages, whatever
\* string it looks for and whatever page it starts on: the assertion of
\* gotoNextPage (Page.hpp) holds, since the loader leaves the last page without deltas.
THEOREM SearchesStayOnChain ==
    ASSUME FitsWidths, LeavesFit
    PROVE  Spec => []SearchStaysOnChain
<1>1. DictionaryInv /\ ChainInv /\ TailInv => SearchStaysOnChain
  BY LastPageEnds DEF SearchStaysOnChain, Loaded
<1>. QED  BY <1>1, ChainInvariant, PTL

-----------------------------------------------------------------------------
(* The blocks of dynamic pages.                                            *)

\* The caller of bulkInsert sorts the strings and passes each of them once.
Ascending(vs) == \A i, j \in 1..Len(vs) : i < j => LexLess(vs[i], vs[j])

SortedInputs == \A vs \in Inputs : Ascending(vs)

\* The characters that findBlock can search for: others are negative as a char,
\* and the empty string has none.
Searchable == 1..127

CharOf(page) == FirstChar(page.cells[0].str)

OneChar(page, vs) ==
    CharOf(page) \in Searchable =>
        \A o \in DOMAIN page.cells : FirstChar(vs[page.cells[o].id]) = CharOf(page)

\* No two pages hold values with the same character.
Apart(ps) ==
    \A p \in 1..Len(ps) : \A q \in 1..(p - 1) :
        /\ 0 \in DOMAIN ps[q].cells
        /\ 0 \in DOMAIN ps[p].cells /\ CharOf(ps[p]) \in Searchable => CharOf(ps[q]) # CharOf(ps[p])

\* The n values behind the first one are those with its character.
BlockEnds(vs, first, n) ==
    FirstChar(vs[first]) \in Searchable =>
        \A i \in first..Len(vs) : FirstChar(vs[i]) = FirstChar(vs[first]) <=> i <= first + n

\* The values from first on have none of the characters of the pages before c.
Passed(ps, c, vs, first) ==
    \A q \in 1..(c - 1) : CharOf(ps[q]) \in Searchable =>
        \A i \in first..Len(vs) : FirstChar(vs[i]) # CharOf(ps[q])

BlocksInv ==
    Dynamic =>
        /\ \A p \in 1..Len(pages) : OneChar(pages[p], values)
        /\ Apart(pages)
        /\ Busy /\ current # Null => /\ BlockEnds(values, First, numberOfDeltas)
                                     /\ Passed(pages, current, values, First)

\* In ascending strings the first characters ascend.
LEMMA FirstCharsAscend ==
    ASSUME NEW a \in Strings, NEW b \in Strings, LexLess(a, b)
    PROVE  /\ FirstChar(a) \in Nat /\ FirstChar(b) \in Nat
           /\ FirstChar(a) <= FirstChar(b)
<1>1. PICK n \in Nat : Before(a, b, n)
  BY LexMeans
<1>2. /\ Len(a) \in Nat /\ Len(b) \in Nat
      /\ (Len(a) = 0 <=> a = <<>>) /\ (Len(b) = 0 <=> b = <<>>)
      /\ \A i \in 1..Len(a) : a[i] \in Nat
      /\ \A i \in 1..Len(b) : b[i] \in Nat
  BY DEF Strings
<1>3. FirstChar(a) \in Nat /\ FirstChar(b) \in Nat
  BY <1>2 DEF FirstChar
<1>4. CASE Len(a) = 0
  BY <1>2, <1>3, <1>4 DEF FirstChar
<1>5. CASE Len(a) # 0
  <2>1. Len(b) # 0 /\ 1 \in 1..Len(a) /\ 1 \in 1..Len(b)
    BY <1>1, <1>2, <1>5 DEF Before
  <2>2. a[1] <= b[1]
    BY <1>1, <1>2, <1>5, <2>1 DEF Before
  <2>. QED  BY <1>2, <2>1, <2>2 DEF FirstChar
<1>. QED  BY <1>3, <1>4, <1>5

\* findBlock on ascending values ends at the last one with the character.
LEMMA BlockIsWhole ==
    ASSUME LoaderInv, Ascending(values), pos <= Len(values)
    PROVE  BlockEnds(values, pos, Block)
<1>. DEFINE char == FirstChar(values[pos])
<1>. SUFFICES ASSUME char \in Searchable
              PROVE  \A i \in pos..Len(values) : FirstChar(values[i]) = char <=> i <= pos + Block
  BY DEF BlockEnds
<1>1. /\ pos \in 1..Len(values) /\ pos \in Nat /\ Len(values) \in Nat
      /\ \A i \in 1..Len(values) : values[i] \in Strings
  BY DEF LoaderInv, LoaderTypes
<1>2. \A i, j \in 1..Len(values) : i < j => FirstChar(values[i]) \in Nat /\ FirstChar(values[j]) \in Nat
                                           /\ FirstChar(values[i]) <= FirstChar(values[j])
  BY <1>1, FirstCharsAscend DEF Ascending
<1>3. char # 0 /\ char < 128 /\ char \in Nat
  <2>. HIDE DEF char
  <2>. QED  BY DEF Searchable
<1>. DEFINE Others == { n \in Nat : pos + n > Len(values) \/ FirstChar(values[pos + n]) # char }
<1>4. PICK n \in Others : \A m \in Others : n <= m
  <2>1. Others \in SUBSET Nat /\ Len(values) + 1 \in Others
    BY <1>1
  <2>. HIDE DEF Others
  <2>. QED  BY <2>1, LeastElement
<1>. HIDE DEF char
<1>5. n # 0
  BY <1>1, <1>4 DEF char
<1>6. \A i \in pos..Len(values) : FirstChar(values[i]) = char <=> i < pos + n
  <2>. SUFFICES ASSUME NEW i \in pos..Len(values)
                PROVE  FirstChar(values[i]) = char <=> i < pos + n
    OBVIOUS
  <2>1. i - pos \in Nat /\ pos + (i - pos) = i /\ i \in 1..Len(values)
    BY <1>1
  <2>2. CASE i < pos + n
    <3>1. i - pos \notin Others
      BY <1>1, <1>4, <2>1, <2>2
    <3>. QED  BY <2>1, <2>2, <3>1
  <2>3. CASE ~(i < pos + n)
    <3>1. pos + n \in 1..Len(values) /\ FirstChar(values[pos + n]) # char
      BY <1>1, <1>4, <2>1, <2>3
    <3>2. FirstChar(values[pos + n]) > char
      <4>1. pos < pos + n
        BY <1>1, <1>4, <1>5
      <4>2. char \in Nat /\ FirstChar(values[pos + n]) \in Nat /\ char <= FirstChar(values[pos + n])
        BY <1>1, <1>2, <3>1, <4>1 DEF char
      <4>. QED  BY <3>1, <4>2
    <3>3. CASE i = pos + n
      BY <2>3, <3>1, <3>3
    <3>4. CASE i # pos + n
      <4>1. pos + n < i
        BY <1>1, <2>1, <2>3, <3>4
      <4>2. /\ FirstChar(values[pos + n]) \in Nat /\ FirstChar(values[i]) \in Nat
            /\ FirstChar(values[pos + n]) <= FirstChar(values[i])
        BY <1>2, <2>1, <3>1, <4>1
      <4>. QED  BY <1>3, <2>3, <3>2, <4>2
    <3>. QED  BY <3>3, <3>4
  <2>. QED  BY <2>2, <2>3
<1>7. pos + n <= Len(values) + 1
  BY <1>1, <1>4
<1>8. Searched(char) = 0..(n - 1) /\ n - 1 \in Behind /\ 0 \in Behind
  <2>1. \A j \in Behind : pos + j \in pos..Len(values) /\ j \in Nat
    BY <1>1 DEF Behind
  <2>2. \A j \in Behind : j \in Searched(char) <=> j < n
    <3>1. \A j \in Behind : j \in Searched(char) <=> FirstChar(values[pos + j]) = char
      BY <1>3 DEF Searched, IsSearched
    <3>2. \A j \in Behind : FirstChar(values[pos + j]) = char <=> pos + j < pos + n
      BY <1>6, <2>1
    <3>3. n \in Nat
      OBVIOUS
    <3>. QED  BY <1>1, <2>1, <3>1, <3>2, <3>3
  <2>3. \A j : j \in Behind <=> j \in Nat /\ pos + j <= Len(values)
    BY <1>1 DEF Behind
  <2>4. Searched(char) \subseteq Behind /\ n \in Nat
    BY DEF Searched
  <2>5. n - 1 \in Behind /\ 0 \in Behind
    BY <1>1, <1>5, <1>7, <2>3, <2>4
  <2>6. \A j \in 0..(n - 1) : j \in Behind /\ j < n
    BY <1>1, <1>7, <2>3, <2>4
  <2>7. \A j \in Behind : j < n => j \in 0..(n - 1)
    BY <2>1, <2>4
  <2>. QED  BY <2>2, <2>4, <2>5, <2>6, <2>7
<1>9. Block = n - 1
  <2>1. FindBlock(char) = n - 1
    BY <1>1, <1>8, FindBlockMeans
  <2>. QED  BY <1>3, <2>1 DEF Block, char
<1>10. \A i \in pos..Len(values) : i < pos + n <=> i <= pos + (n - 1)
  BY <1>1
<1>. QED  BY <1>6, <1>9, <1>10

\* A new page begins behind the block of the last one.
LEMMA BlocksOpen ==
    ASSUME SortedInputs, LoaderInv, ContentInv, BlocksInv, OpenBlock
    PROVE  BlocksInv'
<1>1. /\ Dynamic /\ pc = "loop" /\ pos <= Len(values) /\ PageComplete
      /\ pages' = Append(Completed, EmptyPage) /\ current' = Len(pages) + 1
      /\ deltaNumber' = 0 /\ numberOfDeltas' = Block /\ UNCHANGED <<kind, values, pos>>
  BY DEF OpenBlock, Looping
<1>2. /\ Len(pages) \in Nat /\ current = Len(pages) /\ pos \in Nat /\ Len(values) \in Nat
      /\ deltaNumber \in Nat /\ numberOfDeltas \in Nat
      /\ Ascending(values)
  BY DEF ContentInv, LoaderInv, LoaderTypes, PagesInv, AllSound, IsSequence, SortedInputs, Ascending
<1>. DEFINE qs == pages'
<1>3. WithNew(qs, pages)
  BY <1>1, CompletedSame
<1>4. \A p \in 1..Len(pages) : qs[p].cells = pages[p].cells /\ CharOf(qs[p]) = CharOf(pages[p])
  BY <1>3 DEF WithNew, CharOf
<1>5. Len(qs) = Len(pages) + 1 /\ DOMAIN qs[Len(pages) + 1].cells = {}
  BY <1>3, EmptyPageProperties DEF WithNew
<1>6. BlockEnds(values, pos, Block)
  BY <1>1, <1>2, BlockIsWhole
<1>7. ASSUME current # Null
      PROVE  /\ 0 \in DOMAIN pages[current].cells /\ CharOf(pages[current]) = FirstChar(values[First])
             /\ First \in Nat /\ pos = First + numberOfDeltas + 1
             /\ BlockEnds(values, First, numberOfDeltas) /\ Passed(pages, current, values, First)
  <2>1. Busy /\ deltaNumber = numberOfDeltas + 1 /\ deltaNumber # 0 /\ kind # "multi"
    BY <1>1, <1>2, <1>7 DEF Busy, PageComplete, Dynamic
  <2>2. Reached(kind, values, First, numberOfDeltas, pages[current], deltaNumber, dataPtr)
    BY <1>7, <2>1 DEF LoaderInv, StepInv, CountedInv
  <2>3. 0 \in DOMAIN pages[current].cells /\ CharOf(pages[current]) = FirstChar(values[First])
    BY <2>2 DEF Reached, CharOf
  <2>4. First = pos - deltaNumber
    BY <1>1, <2>1 DEF First
  <2>5. pos = First + numberOfDeltas + 1
    BY <1>2, <2>1, <2>4
  <2>6. First \in Nat
    <3>1. pages[current].cells[0].id = First /\ PageContent(kind, pages[current], slots[current], values)
      BY <1>2, <1>7, <2>1 DEF ContentInv, CurrentInv, Contents, Null
    <3>2. First \in 1..Len(values)
      BY <2>1, <2>3, <3>1 DEF PageContent, SoundCells
    <3>. QED  BY <1>2, <3>2
  <2>7. BlockEnds(values, First, numberOfDeltas) /\ Passed(pages, current, values, First)
    BY <1>1, <1>7, <2>1 DEF BlocksInv
  <2>. QED  BY <2>3, <2>5, <2>6, <2>7
<1>8. Passed(pages, Len(pages) + 1, values, pos)
  <2>. SUFFICES ASSUME NEW q \in 1..Len(pages), CharOf(pages[q]) \in Searchable, NEW i \in pos..Len(values)
                PROVE  FirstChar(values[i]) # CharOf(pages[q])
    BY <1>2 DEF Passed
  <2>1. current # Null
    BY <1>2 DEF Null
  <2>. DEFINE f == First
              n == numberOfDeltas
  <2>2. f \in Nat /\ n \in Nat /\ pos = f + n + 1 /\ i \in f..Len(values) /\ ~(i <= f + n)
    BY <1>2, <1>7, <2>1
  <2>. HIDE DEF f, n
  <2>3. CASE q = current
    <3>1. CharOf(pages[q]) = FirstChar(values[f]) /\ BlockEnds(values, f, n)
      BY <1>7, <2>1, <2>3 DEF f, n
    <3>. QED  BY <2>2, <3>1 DEF BlockEnds
  <2>4. CASE q # current
    <3>1. q \in 1..(current - 1) /\ Passed(pages, current, values, f)
      BY <1>2, <1>7, <2>1, <2>4 DEF f
    <3>. QED  BY <2>2, <3>1 DEF Passed
  <2>. QED  BY <2>3, <2>4
<1>. HIDE DEF qs
<1>9. \A p \in 1..Len(qs) : OneChar(qs[p], values)
  <2>. SUFFICES ASSUME NEW p \in 1..Len(qs) PROVE OneChar(qs[p], values)
    OBVIOUS
  <2>1. CASE p \in 1..Len(pages)
    BY <1>1, <1>4, <2>1 DEF BlocksInv, OneChar
  <2>2. CASE p \notin 1..Len(pages)
    <3>1. p = Len(pages) + 1
      BY <1>2, <1>5, <2>2
    <3>. QED  BY <1>5, <3>1 DEF OneChar
  <2>. QED  BY <2>1, <2>2
<1>10. Apart(qs)
  <2>. SUFFICES ASSUME NEW p \in 1..Len(qs), NEW q \in 1..(p - 1)
                PROVE  /\ 0 \in DOMAIN qs[q].cells
                       /\ 0 \in DOMAIN qs[p].cells /\ CharOf(qs[p]) \in Searchable => CharOf(qs[q]) # CharOf(qs[p])
    BY DEF Apart
  <2>1. CASE p \in 1..Len(pages)
    <3>1. q \in 1..Len(pages)
      BY <1>2, <2>1
    <3>2. qs[p].cells = pages[p].cells /\ CharOf(qs[p]) = CharOf(pages[p])
      BY <1>4, <2>1
    <3>3. qs[q].cells = pages[q].cells /\ CharOf(qs[q]) = CharOf(pages[q])
      BY <1>4, <3>1
    <3>4. Apart(pages)
      BY <1>1 DEF BlocksInv
    <3>. QED  BY <2>1, <3>2, <3>3, <3>4 DEF Apart
  <2>2. CASE p \notin 1..Len(pages)
    <3>1. p = Len(pages) + 1 /\ q \in 1..Len(pages) /\ 0 \notin DOMAIN qs[p].cells
      BY <1>2, <1>5, <2>2
    <3>2. 0 \in DOMAIN pages[q].cells
      <4>1. CASE q = current
        <5>1. current # Null
          BY <1>2, <3>1, <4>1 DEF Null
        <5>. QED  BY <1>7, <4>1, <5>1
      <4>2. CASE q # current
        <5>1. current \in 1..Len(pages) /\ q \in 1..(current - 1) /\ Apart(pages)
          BY <1>1, <1>2, <3>1, <4>2 DEF BlocksInv
        <5>. QED  BY <5>1 DEF Apart
      <4>. QED  BY <4>1, <4>2
    <3>. QED  BY <1>4, <3>1, <3>2
  <2>. QED  BY <2>1, <2>2
<1>11. First' = pos
  BY <1>1 DEF First
<1>12. Passed(qs, Len(pages) + 1, values, pos)
  <2>. SUFFICES ASSUME NEW q \in 1..Len(pages), CharOf(qs[q]) \in Searchable
                PROVE  \A i \in pos..Len(values) : FirstChar(values[i]) # CharOf(qs[q])
    BY <1>2 DEF Passed
  <2>1. CharOf(qs[q]) = CharOf(pages[q]) /\ q \in 1..((Len(pages) + 1) - 1)
    BY <1>2, <1>4
  <2>. QED  BY <1>8, <2>1 DEF Passed
<1>. QED  BY <1>1, <1>6, <1>9, <1>10, <1>11, <1>12 DEF BlocksInv, qs

\* A value with the character of the block is written on its page.
LEMMA BlocksWrite ==
    ASSUME LoaderInv, BlocksInv, Dynamic, current = Len(pages), NEW qs, NEW page,
           Len(pages) # 0, Replaced(qs, pages, current, page),
           CharOf(page) = FirstChar(values[First]), 0 \in DOMAIN page.cells,
           OneChar(page, values), Busy, First \in 1..Len(values)
    PROVE  /\ \A p \in 1..Len(qs) : OneChar(qs[p], values)
           /\ Apart(qs)
           /\ Passed(qs, current, values, First) /\ Len(qs) = Len(pages)
<1>1. /\ Len(pages) \in Nat /\ current \in 1..Len(pages) /\ current # Null
      /\ Len(qs) = Len(pages) /\ qs[current] = page
      /\ \A p \in 1..Len(pages) : p # current => qs[p] = pages[p]
  BY DEF Replaced, LoaderInv, PagesInv, AllSound, IsSequence, Null
<1>2. /\ \A p \in 1..Len(pages) : OneChar(pages[p], values)
      /\ Apart(pages) /\ Passed(pages, current, values, First)
  BY <1>1 DEF BlocksInv
<1>3. \A p \in 1..Len(qs) : OneChar(qs[p], values)
  BY <1>1, <1>2
<1>4. Apart(qs)
  <2>. SUFFICES ASSUME NEW p \in 1..Len(pages), NEW q \in 1..(p - 1)
                PROVE  /\ 0 \in DOMAIN qs[q].cells
                       /\ 0 \in DOMAIN qs[p].cells /\ CharOf(qs[p]) \in Searchable => CharOf(qs[q]) # CharOf(qs[p])
    BY <1>1 DEF Apart
  <2>1. q \in 1..Len(pages) /\ q # current /\ qs[q] = pages[q] /\ 0 \in DOMAIN pages[q].cells
    <3>1. q \in 1..Len(pages) /\ q # current
      BY <1>1
    <3>. QED  BY <1>1, <1>2, <3>1 DEF Apart
  <2>2. CASE p # current
    BY <1>1, <1>2, <2>1, <2>2 DEF Apart
  <2>3. CASE p = current
    <3>. SUFFICES ASSUME CharOf(page) \in Searchable, CharOf(pages[q]) = CharOf(page)
                  PROVE  FALSE
      BY <1>1, <2>1, <2>3
    <3>1. First \in First..Len(values) /\ q \in 1..(current - 1)
      BY <1>1, <2>3
    <3>. QED  BY <1>2, <3>1 DEF Passed
  <2>. QED  BY <2>2, <2>3
<1>5. Passed(qs, current, values, First)
  <2>. SUFFICES ASSUME NEW q \in 1..(current - 1), CharOf(qs[q]) \in Searchable
                PROVE  \A i \in First..Len(values) : FirstChar(values[i]) # CharOf(qs[q])
    BY DEF Passed
  <2>1. qs[q] = pages[q]
    BY <1>1
  <2>. QED  BY <1>2, <2>1 DEF Passed
<1>. QED  BY <1>1, <1>3, <1>4, <1>5

LEMMA BlocksWriteFull ==
    ASSUME LoaderInv, ContentInv, BlocksInv, WriteFull
    PROVE  BlocksInv'
<1>. DEFINE cell == FullCell(pos, values[pos])
            page == WithCell(pages[current], 0, cell)
            qs == pages'
<1>1. /\ pc = "open" /\ qs = [pages EXCEPT ![current] = page]
      /\ deltaNumber' = 1 /\ UNCHANGED <<kind, values, current, numberOfDeltas>>
      /\ Dynamic => pc' = "loop" /\ pos' = pos + 1
  BY DEF WriteFull
<1>. SUFFICES ASSUME Dynamic PROVE BlocksInv'
  BY <1>1 DEF BlocksInv, Dynamic
<1>2. kind # "multi" /\ Busy /\ current # Null /\ pos <= Len(values) /\ deltaNumber = 0
  BY <1>1 DEF LoaderInv, StepInv, Busy
<1>3. /\ Len(pages) \in Nat /\ IsSequence(pages) /\ current = Len(pages) /\ Len(pages) # 0
      /\ current \in 1..Len(pages) /\ pos \in 1..Len(values) /\ pos \in Nat /\ values[pos] \in Strings
  BY <1>2 DEF ContentInv, LoaderInv, LoaderTypes, PagesInv, AllSound, IsSequence, Null
<1>4. IsPage(pages[current]) /\ DOMAIN pages[current].cells = {}
  <2>1. IsPage(pages[current]) /\ CurrentInv /\ dataPtr = 0
    BY <1>2, <1>3 DEF LoaderInv, PagesInv, AllSound, SoundPage, ContentInv, CurrentInv
  <2>. QED  BY <2>1 DEF CurrentInv, IsPage
<1>5. cell \in Cells /\ cell.id = pos /\ cell.str = values[pos]
  BY <1>3, FullCellProperties
<1>. HIDE DEF cell
<1>6. DOMAIN page.cells = {0} /\ page.cells[0] = cell
  <2>1. LET q == WithCell(pages[current], 0, cell)
        IN  DOMAIN q.cells = (DOMAIN pages[current].cells) \union {0} /\ q.cells[0] = cell
    BY <1>4, <1>5, WithCellProperties
  <2>. QED  BY <1>4, <2>1
<1>. HIDE DEF page
<1>7. Replaced(qs, pages, current, page)
  BY <1>1, <1>3, ReplacedEntry
<1>8. First = pos /\ First' = pos
  BY <1>1, <1>2, <1>3 DEF First
<1>9. CharOf(page) = FirstChar(values[First]) /\ OneChar(page, values)
  BY <1>5, <1>6, <1>8 DEF CharOf, OneChar
<1>10. /\ \A p \in 1..Len(qs) : OneChar(qs[p], values)
       /\ Apart(qs) /\ Passed(qs, current, values, First)
  <2>. HIDE DEF qs
  <2>. QED  BY <1>2, <1>3, <1>6, <1>7, <1>8, <1>9, BlocksWrite
<1>11. BlockEnds(values, First, numberOfDeltas)
  BY <1>2 DEF BlocksInv
<1>. QED  BY <1>1, <1>8, <1>10, <1>11 DEF BlocksInv

LEMMA BlocksWriteDelta ==
    ASSUME FitsWidths, LeavesFit, LoaderInv, ContentInv, BlocksInv, WriteDelta
    PROVE  BlocksInv'
<1>. DEFINE cell == DeltaCell(pos, pages[current].cells[0].str, values[pos])
            page == WithCell(pages[current], dataPtr, cell)
            qs == pages'
<1>1. /\ pc = "loop" /\ current # Null /\ qs = [pages EXCEPT ![current] = page]
      /\ deltaNumber' = deltaNumber + 1 /\ UNCHANGED <<kind, values, pos, current, numberOfDeltas>>
      /\ pc' \in {"callback", "terminated"}
  BY DEF WriteDelta, Looping, PageComplete, Callback, Ref
<1>. SUFFICES ASSUME Dynamic PROVE BlocksInv'
  BY <1>1 DEF BlocksInv, Dynamic
<1>2. /\ Takes(kind, pages[current], slots[current], values, deltaNumber, dataPtr, pos)
      /\ IsValue(values, pos, values[pos]) /\ deltaNumber \in 1..numberOfDeltas
      /\ pages[current].cells[0].id = pos - deltaNumber
  BY DeltaDue
<1>3. /\ Len(pages) \in Nat /\ IsSequence(pages) /\ current = Len(pages) /\ Len(pages) # 0
      /\ current \in 1..Len(pages) /\ numberOfDeltas \in Nat /\ deltaNumber \in Nat /\ deltaNumber # 0
      /\ pos \in Nat /\ pos \in 1..Len(values) /\ Len(values) \in Nat
  BY <1>1, <1>2 DEF ContentInv, LoaderInv, LoaderTypes, PagesInv, AllSound, IsSequence, Null, IsValue
<1>4. Busy /\ First = pos - deltaNumber /\ (pc' = "callback" => First' = First)
  BY <1>1, <1>3 DEF Busy, First
<1>5. cell \in Cells /\ cell.id = pos
  BY <1>2, DeltaCellProperties, ZenonT(40) DEF Takes, IsValue
<1>6. /\ 0 \in DOMAIN pages[current].cells /\ SoundCells(pages[current], values)
      /\ IsPage(pages[current]) /\ dataPtr \in Nat /\ dataPtr # 0
  BY <1>2 DEF Takes, PageContent
<1>. HIDE DEF cell
<1>7. /\ DOMAIN page.cells = (DOMAIN pages[current].cells) \union {dataPtr} /\ page.cells[dataPtr] = cell
      /\ \A o \in DOMAIN pages[current].cells : o # dataPtr => page.cells[o] = pages[current].cells[o]
  <2>1. LET q == WithCell(pages[current], dataPtr, cell)
        IN  /\ DOMAIN q.cells = (DOMAIN pages[current].cells) \union {dataPtr} /\ q.cells[dataPtr] = cell
            /\ \A o \in DOMAIN pages[current].cells : o # dataPtr => q.cells[o] = pages[current].cells[o]
    BY <1>5, <1>6, WithCellProperties
  <2>. QED  BY <2>1
<1>. HIDE DEF page
<1>8. Replaced(qs, pages, current, page)
  BY <1>1, <1>3, ReplacedEntry
<1>9. 0 \in DOMAIN page.cells /\ CharOf(page) = CharOf(pages[current])
  BY <1>6, <1>7 DEF CharOf
<1>10. First \in 1..Len(values) /\ CharOf(pages[current]) = FirstChar(values[First])
  <2>1. /\ pages[current].cells[0].id = First /\ pages[current].cells[0].id \in 1..Len(values)
        /\ pages[current].cells[0] = FullCell(pages[current].cells[0].id, values[pages[current].cells[0].id])
    BY <1>2, <1>4, <1>6 DEF SoundCells
  <2>. QED  BY <2>1 DEF CharOf, FullCell
<1>11. BlockEnds(values, First, numberOfDeltas)
  BY <1>1, <1>4 DEF BlocksInv
<1>12. OneChar(page, values)
  <2>. SUFFICES ASSUME CharOf(page) \in Searchable, NEW o \in DOMAIN page.cells
                PROVE  FirstChar(values[page.cells[o].id]) = CharOf(page)
    BY DEF OneChar
  <2>1. CASE o = dataPtr
    <3>1. pos \in First..Len(values) /\ pos <= First + numberOfDeltas
      BY <1>2, <1>3, <1>4, <1>10
    <3>. QED  BY <1>5, <1>7, <1>9, <1>10, <1>11, <2>1, <3>1 DEF BlockEnds
  <2>2. CASE o # dataPtr
    <3>1. o \in DOMAIN pages[current].cells /\ page.cells[o] = pages[current].cells[o]
      BY <1>7, <2>2
    <3>2. OneChar(pages[current], values)
      BY <1>3 DEF BlocksInv
    <3>. QED  BY <1>9, <3>1, <3>2 DEF OneChar
  <2>. QED  BY <2>1, <2>2
<1>13. /\ \A p \in 1..Len(qs) : OneChar(qs[p], values)
       /\ Apart(qs) /\ Passed(qs, current, values, First)
  <2>. HIDE DEF qs
  <2>. QED  BY <1>3, <1>4, <1>8, <1>9, <1>10, <1>12, BlocksWrite
<1>14. pc' = "terminated" => ~Busy'
  BY DEF Busy
<1>. QED  BY <1>1, <1>4, <1>11, <1>13, <1>14 DEF BlocksInv

LEMMA BlocksElsewhere ==
    ASSUME BlocksInv, LoaderInv, UNCHANGED <<kind, values, current, numberOfDeltas>>,
           SameCells(pages', pages), Busy' => Busy /\ First' = First
    PROVE  BlocksInv'
<1>. SUFFICES ASSUME Dynamic PROVE BlocksInv'
  BY DEF BlocksInv, Dynamic
<1>. DEFINE qs == pages'
<1>1. /\ Len(qs) = Len(pages) /\ Len(pages) \in Nat /\ current \in 0..Len(pages)
      /\ \A p \in 1..Len(pages) : qs[p].cells = pages[p].cells /\ CharOf(qs[p]) = CharOf(pages[p])
  BY DEF SameCells, CharOf, LoaderInv, LoaderTypes, PagesInv, AllSound, IsSequence
<1>. HIDE DEF qs
<1>2. \A p \in 1..Len(qs) : OneChar(qs[p], values)
  BY <1>1 DEF BlocksInv, OneChar
<1>3. Apart(qs)
  <2>. SUFFICES ASSUME NEW p \in 1..Len(qs), NEW q \in 1..(p - 1)
                PROVE  /\ 0 \in DOMAIN qs[q].cells
                       /\ 0 \in DOMAIN qs[p].cells /\ CharOf(qs[p]) \in Searchable => CharOf(qs[q]) # CharOf(qs[p])
    BY DEF Apart
  <2>1. p \in 1..Len(pages) /\ q \in 1..Len(pages)
    BY <1>1
  <2>2. Apart(pages)
    BY DEF BlocksInv
  <2>3. qs[q].cells = pages[q].cells /\ CharOf(qs[q]) = CharOf(pages[q])
    BY <1>1, <2>1
  <2>4. qs[p].cells = pages[p].cells /\ CharOf(qs[p]) = CharOf(pages[p])
    BY <1>1, <2>1
  <2>. QED  BY <2>1, <2>2, <2>3, <2>4 DEF Apart
<1>4. ASSUME Busy', current # Null
      PROVE  BlockEnds(values, First, numberOfDeltas) /\ Passed(qs, current, values, First)
  <2>1. BlockEnds(values, First, numberOfDeltas) /\ Passed(pages, current, values, First)
    BY <1>4 DEF BlocksInv
  <2>2. \A q \in 1..(current - 1) : CharOf(qs[q]) = CharOf(pages[q])
    BY <1>1
  <2>. QED  BY <2>1, <2>2 DEF Passed
<1>. QED  BY <1>2, <1>3, <1>4 DEF BlocksInv, qs

LEMMA BlocksStep ==
    ASSUME FitsWidths, LeavesFit, SortedInputs, DictionaryInv, BlocksInv, [Next]_vars
    PROVE  BlocksInv'
<1>. USE DEF DictionaryInv
<1>0. /\ pos \in Nat /\ deltaNumber \in Nat
      /\ \A qs : qs = pages => SameCells(qs, pages)
  BY DEF LoaderInv, LoaderTypes, SameCells
<1>1. ASSUME OpenPage
      PROVE  BlocksInv'
  BY <1>1 DEF OpenPage, Dynamic, BlocksInv
<1>2. ASSUME WriteMulti
      PROVE  BlocksInv'
  <2>1. kind = "multi" /\ kind' = kind
    BY <1>2, Zenon DEF WriteMulti
  <2>. QED  BY <2>1 DEF BlocksInv, Dynamic
<1>3. ASSUME Finish
      PROVE  BlocksInv'
  <2>1. /\ pages' = pages \/ pages' = Completed
        /\ pc' \in {"terminated", "ready"} /\ UNCHANGED <<kind, values, current, numberOfDeltas>>
    BY <1>3 DEF Finish
  <2>2. SameCells(pages', pages)
    BY <1>0, <2>1, CompletedSame
  <2>3. ~Busy'
    BY <2>1 DEF Busy
  <2>. QED  BY <2>1, <2>2, <2>3, BlocksElsewhere
<1>5. ASSUME InsertReverse \/ InsertId
      PROVE  BlocksInv'
  <2>1. /\ pc \in {"callback", "indexed"} /\ UNCHANGED pages
        /\ (pc' \in {"indexed", "overrun"} /\ UNCHANGED pos) \/ Return
        /\ UNCHANGED <<kind, values, current, numberOfDeltas, deltaNumber>>
    BY <1>5 DEF InsertReverse, InsertId
  <2>2. \/ pc' = "overrun"
        \/ pc' = "indexed" /\ pos' = pos
        \/ deltaNumber = 0 /\ pc' = "open" /\ pos' = pos
        \/ deltaNumber # 0 /\ pc' = "loop" /\ pos' = pos + 1
    BY <2>1 DEF Return
  <2>3. pc' = "overrun" \/ First' = First
    BY <1>0, <2>1, <2>2 DEF First
  <2>4. Busy /\ (Busy' => First' = First)
    BY <2>1, <2>3 DEF Busy
  <2>. QED  BY <1>0, <2>1, <2>4, BlocksElsewhere
<1>6. ASSUME Lookup
      PROVE  BlocksInv'
  <2>1. /\ pc \in {"ready", "threw"} /\ pc' \in {pc, "aborted"}
        /\ UNCHANGED <<pages, kind, slots, sizes, values, pos, current, dataPtr, deltaNumber,
                       numberOfDeltas, valuePtr, pending, index, reverseIndex>>
    BY <1>6, LookupsOnlyRead DEF AtRest
  <2>2. ~Busy'
    BY <2>1 DEF Busy
  <2>. QED  BY <1>0, <2>1, <2>2, BlocksElsewhere
<1>7. ASSUME UNCHANGED vars
      PROVE  BlocksInv'
  <2>1. UNCHANGED <<pages, kind, values, current, numberOfDeltas, pc, pos, deltaNumber>>
    BY <1>7 DEF vars
  <2>2. First' = First /\ (Busy' <=> Busy)
    BY <2>1 DEF First, Busy
  <2>. QED  BY <1>0, <2>1, <2>2, BlocksElsewhere
<1>8. ASSUME NEW vs \in Inputs, BulkInsert(vs)
      PROVE  BlocksInv'
  <2>1. values = <<>> /\ UNCHANGED <<pages, current>>
    BY <1>8 DEF BulkInsert, Load
  <2>2. pages' = <<>> /\ current' = Null /\ Len(<<>>) = 0
    BY <2>1 DEF LoaderInv, LoaderTypes
  <2>. QED  BY <2>2 DEF BlocksInv, Apart
<1>9. ASSUME Next
      PROVE  BlocksInv'
  BY <1>1, <1>2, <1>3, <1>5, <1>6, <1>8, <1>9, BlocksOpen, BlocksWriteFull, BlocksWriteDelta
     DEF Next, LoadStep, WriteValue, BulkInsertReturns
<1>. QED  BY <1>7, <1>9

\* findBlock keeps a block together: on dynamic pages no value shares its first
\* character with a value on another page, and every delta has a prefix
\* (DynamicPage.hpp, DynamicSlottedPage.hpp), for all sorted inputs.
THEOREM DynamicBlocksWhole ==
    ASSUME FitsWidths, LeavesFit, SortedInputs
    PROVE  Spec => []BlocksAreWhole
<1>1. Init => BlocksInv
  <2>1. Init => pages = <<>> /\ current = Null /\ Len(<<>>) = 0
    BY DEF Init, LoaderInit
  <2>. QED  BY <2>1 DEF BlocksInv, Apart
<1>2. DictionaryInv /\ BlocksInv /\ [Next]_vars => BlocksInv'
  BY BlocksStep
<1>3. DictionaryInv /\ BlocksInv => BlocksAreWhole
  <2>. SUFFICES ASSUME DictionaryInv, BlocksInv, Dynamic,
                       NEW p \in 1..Len(pages), NEW q \in 1..(p - 1),
                       0 \in DOMAIN pages[p].cells, CharOf(pages[p]) \in Searchable
                PROVE  /\ CharOf(pages[q]) # CharOf(pages[p])
                       /\ \A o \in DOMAIN pages[p].cells : o > 0 => pages[p].cells[o].prefix > 0
    BY DEF BlocksAreWhole, CharOf, Searchable
  <2>1. CharOf(pages[q]) # CharOf(pages[p])
    BY DEF BlocksInv, Apart
  <2>. SUFFICES ASSUME NEW o \in DOMAIN pages[p].cells, o > 0
                PROVE  pages[p].cells[o].prefix > 0
    BY <2>1
  <2>. DEFINE r == pages[p].cells[0].str
              v == values[pages[p].cells[o].id]
              id == pages[p].cells[o].id
  <2>2. SoundCells(pages[p], values)
    BY DEF DictionaryInv, ContentInv, Contents, PageContent, Dynamic
  <2>3. /\ o # 0 /\ id \in 1..Len(values)
        /\ pages[p].cells[o] = DeltaCell(id, r, v)
        /\ pages[p].cells[0].id \in 1..Len(values)
        /\ r = values[pages[p].cells[0].id]
    <3>1. o # 0
      OBVIOUS
    <3>2. /\ id \in 1..Len(values) /\ pages[p].cells[0].id \in 1..Len(values)
          /\ pages[p].cells[o] = DeltaCell(id, r, v)
          /\ pages[p].cells[0] = FullCell(pages[p].cells[0].id, values[pages[p].cells[0].id])
      BY <2>2, <3>1 DEF SoundCells
    <3>. HIDE DEF v, id
    <3>. QED  BY <3>1, <3>2 DEF FullCell
  <2>4. r \in Strings /\ v \in Strings /\ Len(v) < StringRange /\ id \in Nat
    <3>1. /\ values \in Seq(Strings) /\ Len(values) \in Nat
          /\ \A k \in 1..Len(values) : Len(values[k]) < StringRange
      <4>1. LoaderTypes
        BY DEF DictionaryInv, LoaderInv
      <4>. QED  BY <4>1 DEF LoaderTypes, Short
    <3>2. \A k \in 1..Len(values) : values[k] \in Strings
      BY ONLY <3>1
    <3>3. v \in Strings /\ Len(v) < StringRange
      BY ONLY <2>3, <3>1, <3>2
    <3>4. r \in Strings
      BY ONLY <2>3, <3>2
    <3>5. id \in Nat
      BY ONLY <2>3, <3>1
    <3>. QED  BY ONLY <3>3, <3>4, <3>5
  <2>5. FirstChar(v) = FirstChar(r) /\ FirstChar(r) \in Searchable
    BY DEF BlocksInv, OneChar, CharOf
  <2>6. pages[p].cells[o].prefix = PrefixLength(r, v)
    <3>. HIDE DEF r, v, id
    <3>. QED  BY <2>3, <2>4, DeltaCellProperties
  <2>. HIDE DEF r, v, id
  <2>7. Len(r) \in Nat /\ Len(v) \in Nat /\ Len(r) # 0 /\ Len(v) # 0 /\ r[1] = v[1]
    <3>. DEFINE char == FirstChar(r)
    <3>1. char # 0 /\ FirstChar(v) = char
      <4>. HIDE DEF char
      <4>1. char \in Searchable /\ FirstChar(v) = char
        BY <2>5 DEF char
      <4>. QED  BY <4>1 DEF Searchable
    <3>2. r # <<>> /\ v # <<>> /\ r[1] = v[1]
      BY <2>5, <3>1 DEF FirstChar
    <3>. QED  BY <2>4, <3>2 DEF Strings
  <2>8. PrefixLength(r, v) # 0 /\ PrefixLength(r, v) \in Nat
    BY <2>4, <2>7, PrefixLengthProperties
  <2>. QED  BY <2>6, <2>8
<1>. QED  BY <1>1, <1>2, <1>3, ChainInvariant, PTL DEF Spec

-----------------------------------------------------------------------------
(* What the indexes know.                                                  *)

\* How many values the two indexes know.  The first value of a dynamic page is
\* known before it is written.
KnownIds == IF pc = "open" /\ Dynamic THEN pos ELSE pos - 1

KnownStrings == IF pc = "indexed" \/ (pc = "open" /\ Dynamic) THEN pos ELSE pos - 1

\* The callback is for the next value, or once more for the last one of a page:
\* that one has an id already.
CalledFor ==
    pc \in {"callback", "indexed"} =>
        /\ ForIndex => pending.id = pos /\ (deltaNumber = 0 => Dynamic)
        /\ ~ForIndex => deltaNumber = 0
        /\ pc = "indexed" => ForIndex /\ DOMAIN reverseIndex # {}
        /\ ~ForReverse => DOMAIN reverseIndex # {}

KnowInv ==
    /\ CalledFor
    /\ pc = "ready" /\ current # Null => deltaNumber # 0
    /\ pc = "threw" => kind = "slotted"
    /\ pc = "ready" => pos = Len(values) + 1
    /\ Good => /\ DOMAIN index = 1..KnownIds
               /\ kind # "bottomup" => DOMAIN reverseIndex = { values[k] : k \in 1..KnownStrings }
               /\ kind = "bottomup" /\ KnownIds # 0 => DOMAIN reverseIndex # {}

\* A step of the loop, to the callback or to the end of the load.
LEMMA KnowWrites ==
    ASSUME LoaderInv, KnowInv, pc \in {"loop", "open"}, UNCHANGED <<kind, values, index, reverseIndex>>,
           \/ ~Good' /\ pc' # "aborted"
           \/ pc' = "threw" /\ pc = "loop" /\ pos' = pos /\ kind = "slotted"
           \/ pc' = "ready" /\ pc = "loop" /\ pos' = pos /\ pos = Len(values) + 1 /\ (current # Null => deltaNumber # 0)
              /\ UNCHANGED <<current, deltaNumber>>
           \/ pc' = "open" /\ pc = "loop" /\ pos' = pos /\ ~Dynamic
           \/ pc' = "loop" /\ pc = "open" /\ pos' = pos + 1 /\ Dynamic
           \/ pc' = "callback" /\ pos' = pos /\ CalledFor' /\ (pc = "open" => ~Dynamic)
    PROVE  KnowInv'
<1>1. Dynamic' = Dynamic
  BY DEF Dynamic
<1>2. Good
  BY DEF Good
<1>3. CASE ~Good' /\ pc' # "aborted"
  BY <1>3 DEF KnowInv, Good, CalledFor
<1>4. CASE \/ pc' = "threw" /\ pc = "loop" /\ pos' = pos /\ kind = "slotted"
           \/ pc' = "ready" /\ pc = "loop" /\ pos' = pos /\ pos = Len(values) + 1 /\ (current # Null => deltaNumber # 0)
              /\ UNCHANGED <<current, deltaNumber>>
           \/ pc' = "open" /\ pc = "loop" /\ pos' = pos /\ ~Dynamic
  <2>1. KnownIds' = KnownIds /\ KnownStrings' = KnownStrings /\ CalledFor'
    BY <1>1, <1>4 DEF KnownIds, KnownStrings, CalledFor
  <2>. QED  BY <1>2, <1>4, <2>1 DEF KnowInv
<1>5. CASE pc' = "loop" /\ pc = "open" /\ pos' = pos + 1 /\ Dynamic
  <2>1. KnownIds' = pos' - 1 /\ KnownStrings' = pos' - 1 /\ CalledFor'
    BY <1>5 DEF KnownIds, KnownStrings, CalledFor
  <2>2. KnownIds = pos /\ KnownStrings = pos /\ kind # "bottomup"
    BY <1>5 DEF KnownIds, KnownStrings, Dynamic
  <2>3. pos' - 1 = pos
    BY <1>5 DEF LoaderInv, LoaderTypes
  <2>. QED  BY <1>2, <1>5, <2>1, <2>2, <2>3 DEF KnowInv
<1>6. CASE pc' = "callback" /\ pos' = pos /\ CalledFor' /\ (pc = "open" => ~Dynamic)
  <2>1. KnownIds' = KnownIds /\ KnownStrings' = KnownStrings
    BY <1>6 DEF KnownIds, KnownStrings
  <2>. QED  BY <1>2, <1>6, <2>1 DEF KnowInv
<1>. QED  BY <1>3, <1>4, <1>5, <1>6

\* On bottom-up pages the first value was indexed before any delta is.
LEMMA KnowWriteValue ==
    ASSUME LoaderInv, KnowInv, WriteValue
    PROVE  KnowInv'
<1>1. UNCHANGED <<kind, values, index, reverseIndex>>
  <2>1. UNCHANGED <<kind, values>>
    BY Zenon DEF WriteValue, OpenPage, OpenBlock, WriteFull, WriteDelta, WriteMulti
  <2>. QED  BY <2>1 DEF WriteValue
<1>2. pos \in Nat /\ deltaNumber \in Nat
  BY DEF LoaderInv, LoaderTypes
<1>3. CASE OpenPage
  <2>1. /\ pc = "loop" /\ pos' = pos /\ deltaNumber' = 0 /\ kind \in {"slotted", "bottomup"} /\ kind' = kind
        /\ \/ pc' \in {"terminated", "open"} \/ (pc' = "threw" /\ kind = "slotted")
           \/ kind = "bottomup" /\ pc' = "callback" /\ pending'.delta = 0
    BY <1>3 DEF OpenPage, Looping, Callback, RetroInserts
  <2>2. CASE pc' \in {"terminated", "open"} \/ (pc' = "threw" /\ kind = "slotted")
    BY <1>1, <2>1, <2>2, KnowWrites DEF Good, Dynamic
  <2>3. CASE kind = "bottomup" /\ pc' = "callback" /\ pending'.delta = 0
    <3>1. ~ForIndex' /\ ForReverse'
      BY <2>1, <2>3 DEF ForIndex, ForReverse
    <3>2. CalledFor'
      BY <2>1, <2>3, <3>1 DEF CalledFor
    <3>. QED  BY <1>1, <2>1, <2>3, <3>2, KnowWrites
  <2>. QED  BY <2>1, <2>2, <2>3
<1>4. CASE OpenBlock
  <2>1. /\ pc = "loop" /\ pos' = pos /\ deltaNumber' = 0 /\ Dynamic /\ kind' = kind
        /\ (pc' = "terminated" \/ (pc' = "callback" /\ pending'.id = pos))
    BY <1>4 DEF OpenBlock, Looping, Callback
  <2>2. kind # "bottomup" /\ kind' # "bottomup" /\ Dynamic'
    BY <2>1 DEF Dynamic
  <2>3. ForIndex' /\ ForReverse'
    BY <2>2 DEF ForIndex, ForReverse
  <2>4. pc' = "callback" => CalledFor'
    BY <2>1, <2>2, <2>3 DEF CalledFor
  <2>. QED  BY <1>1, <2>1, <2>4, KnowWrites DEF Good
<1>5. CASE WriteFull
  <2>1. /\ pc = "open" /\ deltaNumber' = 1
        /\ IF Dynamic THEN pc' = "loop" /\ pos' = pos + 1
           ELSE /\ pc' = "callback" /\ pos' = pos /\ pending'.id = pos
                /\ kind # "slotted" => pending'.delta = 1
    BY <1>5 DEF WriteFull, Callback
  <2>2. CASE Dynamic
    BY <1>1, <2>1, <2>2, KnowWrites
  <2>3. CASE ~Dynamic
    <3>1. ForIndex' /\ ForReverse'
      <4>1. kind # "bottomup" \/ pending'.delta = 1
        BY <2>1, <2>3
      <4>. QED  BY <1>1, <4>1 DEF ForIndex, ForReverse
    <3>2. CalledFor'
      BY <2>1, <2>3, <3>1 DEF CalledFor
    <3>. QED  BY <1>1, <2>1, <2>3, <3>2, KnowWrites
  <2>. QED  BY <2>2, <2>3
<1>6. CASE WriteDelta
  <2>1. /\ pc = "loop" /\ pos' = pos /\ deltaNumber' = deltaNumber + 1 /\ current # Null
        /\ kind # "multi" /\ kind' = kind
        /\ \/ pc' = "terminated"
           \/ /\ pc' = "callback" /\ pending'.id = pos
              /\ kind = "bottomup" => pending'.delta = 2
    BY <1>6 DEF WriteDelta, Looping, PageComplete, Callback
  <2>2. pos - 1 # 0
    <3>1. deltaNumber # 0 /\ CountedInv /\ First = pos - deltaNumber
      BY <2>1 DEF LoaderInv, StepInv, Busy, First
    <3>2. First \in 1..Len(values)
      BY <3>1 DEF CountedInv, Counted
    <3>. QED  BY <1>2, <3>1, <3>2
  <2>3. kind = "bottomup" => DOMAIN reverseIndex # {}
    BY <2>1, <2>2 DEF KnowInv, Good, KnownIds
  <2>4. pc' = "callback" => CalledFor'
    <3>. SUFFICES ASSUME pc' = "callback" PROVE CalledFor'
      OBVIOUS
    <3>1. ForIndex' /\ (~ForReverse' => kind = "bottomup") /\ deltaNumber' # 0
      BY <1>2, <2>1 DEF ForIndex, ForReverse
    <3>. QED  BY <1>1, <2>1, <2>3, <3>1 DEF CalledFor
  <2>. QED  BY <1>1, <2>1, <2>4, KnowWrites DEF Good
<1>7. CASE WriteMulti
  <2>1. kind = "multi" /\ Looping
    BY <1>7 DEF WriteMulti
  <2>2. pc' = "callback" /\ pos' = pos /\ pending'.id = pos /\ \E n \in Nat : deltaNumber' = n + 1
    <3>1. MultiValue(current = Null \/ ~ValueFits)
      BY <1>7, MultiWrites
    <3>2. PICK opens : MultiValue(opens)
      BY <3>1
    <3>3. PICK page \in { IF opens THEN Len(pages) + 1 ELSE current }, off \in { IF opens THEN 0 ELSE dataPtr },
              number \in { IF opens THEN 0 ELSE deltaNumber },
              cell \in { IF opens \/ IsFull THEN FullCell(pos, values[pos])
                         ELSE DeltaCell(pos, LastFull, values[pos]) } :
              MultiStep(IF opens THEN PagesAndNew ELSE pages,
                        IF opens THEN Append(slots, <<>>) ELSE slots,
                        IF opens THEN Append(sizes, PageSize) ELSE sizes, page, off, cell, number)
      BY <3>2, Zenon DEF MultiValue
    <3>4. pc' = "callback" /\ pos' = pos /\ pending'.id = pos /\ deltaNumber' = number + 1
      BY <3>3 DEF MultiStep, Callback
    <3>. QED  BY <1>2, <3>4
  <2>3. CalledFor'
    <3>1. ForIndex' /\ ForReverse' /\ deltaNumber' # 0
      BY <1>1, <2>1, <2>2 DEF ForIndex, ForReverse
    <3>. QED  BY <2>2, <3>1 DEF CalledFor
  <2>. QED  BY <1>1, <2>1, <2>2, <2>3, KnowWrites DEF Looping
<1>. QED  BY <1>3, <1>4, <1>5, <1>6, <1>7 DEF WriteValue

LEMMA KnowFinish ==
    ASSUME LoaderInv, KnowInv, BulkInsertReturns
    PROVE  KnowInv'
<1>1. /\ pc = "loop" /\ pos' = pos /\ UNCHANGED <<kind, values, index, reverseIndex, current, deltaNumber>>
      /\ pc' \in {"terminated", "ready"} /\ pos > Len(values)
  BY DEF BulkInsertReturns, Finish
<1>2. (current # Null => deltaNumber # 0) /\ pos = Len(values) + 1
  BY <1>1 DEF LoaderInv, StepInv, LoaderTypes
<1>. QED  BY <1>1, <1>2, KnowWrites DEF Good

LEMMA KnowInsertReverse ==
    ASSUME DictionaryInv, KnowInv, InsertReverse
    PROVE  KnowInv'
<1>1. /\ pc = "callback" /\ ForReverse
      /\ UNCHANGED <<kind, values, current, deltaNumber, pending, index>>
  BY DEF InsertReverse
<1>2. /\ DOMAIN index = 1..(pos - 1) /\ pos \in Nat \ {0}
      /\ kind # "bottomup" => DOMAIN reverseIndex = { values[k] : k \in 1..(pos - 1) }
      /\ ForIndex => pending.value = values[pos] /\ pending.id = pos /\ (deltaNumber = 0 => Dynamic)
      /\ ~ForIndex => deltaNumber = 0 /\ kind = "bottomup"
  <2>1. KnownIds = pos - 1 /\ KnownStrings = pos - 1
    BY <1>1 DEF KnownIds, KnownStrings
  <2>2. /\ DOMAIN index = 1..(pos - 1) /\ pos \in Nat \ {0}
        /\ kind # "bottomup" => DOMAIN reverseIndex = { values[k] : k \in 1..(pos - 1) }
    BY <1>1, <2>1 DEF KnowInv, Good, DictionaryInv, LoaderInv, LoaderTypes
  <2>3. pending.value = values[pending.id]
    BY <1>1 DEF DictionaryInv, PendingInv
  <2>. QED  BY <1>1, <2>2, <2>3 DEF KnowInv, CalledFor, ForIndex
<1>3. ForIndex' = ForIndex /\ ForReverse' = ForReverse /\ Dynamic' = Dynamic
  BY <1>1 DEF ForIndex, ForReverse, Dynamic
<1>4. CASE pc' = "indexed"
  <2>1. /\ pos' = pos /\ ForIndex
        /\ DOMAIN reverseIndex' = DOMAIN reverseIndex \union {values[pos]}
    <3>1. CASE pending.value \notin DOMAIN reverseIndex
      <4>1. ForIndex /\ pos' = pos /\ reverseIndex' = With(reverseIndex, pending.value, ReverseLeaf)
        BY <1>4, <3>1 DEF InsertReverse, Return
      <4>. QED  BY <1>2, <4>1 DEF With
    <3>2. CASE pending.value \in DOMAIN reverseIndex
      <4>1. kind # "bottomup" /\ pos' = pos /\ reverseIndex' = reverseIndex
        BY <1>4, <3>2 DEF InsertReverse
      <4>2. ForIndex
        BY <4>1 DEF ForIndex
      <4>. QED  BY <1>2, <3>2, <4>1, <4>2
    <3>. QED  BY <3>1, <3>2
  <2>2. CalledFor'
    BY <1>1, <1>2, <1>3, <1>4, <2>1 DEF CalledFor
  <2>3. KnownIds' = pos - 1 /\ KnownStrings' = pos
    BY <1>4, <2>1 DEF KnownIds, KnownStrings
  <2>4. kind # "bottomup" => DOMAIN reverseIndex' = { values[k] : k \in 1..pos }
    <3>1. \A k : k \in 1..pos <=> k \in 1..(pos - 1) \/ k = pos
      BY <1>2
    <3>. QED  BY <1>2, <2>1, <3>1
  <2>. QED  BY <1>1, <1>2, <1>4, <2>1, <2>2, <2>3, <2>4 DEF KnowInv
<1>5. CASE pc' = "overrun"
  BY <1>5 DEF KnowInv, CalledFor, Good
<1>6. CASE pc' \notin {"indexed", "overrun"}
  <2>1. ~ForIndex /\ Return /\ reverseIndex' = With(reverseIndex, pending.value, ReverseLeaf)
    BY <1>6 DEF InsertReverse
  <2>2. /\ pc' = "open" /\ pos' = pos /\ kind = "bottomup"
    BY <1>2, <2>1 DEF Return
  <2>3. ~Dynamic' /\ KnownIds' = pos - 1 /\ DOMAIN reverseIndex' # {}
    BY <1>3, <2>1, <2>2 DEF Dynamic, KnownIds, With
  <2>. QED  BY <1>1, <1>2, <2>2, <2>3 DEF KnowInv, CalledFor
<1>. QED  BY <1>4, <1>5, <1>6

LEMMA KnowInsertId ==
    ASSUME DictionaryInv, KnowInv, InsertId
    PROVE  KnowInv'
<1>1. /\ pc \in {"callback", "indexed"} /\ (pc = "callback" => ~ForReverse) /\ Return
      /\ index' = With(index, pending.id, ThroughTree(IdLeaf))
      /\ UNCHANGED <<kind, values, current, deltaNumber, pending, reverseIndex>>
  BY DEF InsertId
<1>2. /\ ForIndex /\ pos \in Nat \ {0}
      /\ KnownIds = pos - 1
      /\ kind # "bottomup" => KnownStrings = pos
  <2>1. ForIndex /\ pos \in Nat \ {0}
    BY <1>1 DEF DictionaryInv, PendingInv, LoaderInv, LoaderTypes
  <2>. QED  BY <1>1, <2>1 DEF KnownIds, KnownStrings, ForReverse
<1>3. /\ pending.id = pos /\ (deltaNumber = 0 => Dynamic) /\ DOMAIN reverseIndex # {}
  BY <1>1, <1>2 DEF KnowInv, CalledFor
<1>4. DOMAIN index' = 1..pos
  <2>1. DOMAIN index = 1..(pos - 1)
    BY <1>1, <1>2 DEF KnowInv, Good
  <2>2. \A k : k \in 1..pos <=> k \in 1..(pos - 1) \/ k = pos
    BY <1>2
  <2>3. DOMAIN index' = (DOMAIN index) \union {pos}
    BY <1>1, <1>3 DEF With
  <2>. QED  BY <2>1, <2>2, <2>3
<1>5. kind # "bottomup" => DOMAIN reverseIndex = { values[k] : k \in 1..pos }
  BY <1>1, <1>2 DEF KnowInv, Good
<1>6. /\ KnownIds' = pos /\ KnownStrings' = pos /\ pc' \in {"open", "loop"}
  <2>1. CASE deltaNumber = 0
    <3>1. pc' = "open" /\ pos' = pos /\ Dynamic'
      BY <1>1, <1>3, <2>1 DEF Return, Dynamic
    <3>. QED  BY <3>1 DEF KnownIds, KnownStrings
  <2>2. CASE deltaNumber # 0
    <3>1. pc' = "loop" /\ pos' = pos + 1
      BY <1>1, <2>2 DEF Return
    <3>. QED  BY <1>2, <3>1 DEF KnownIds, KnownStrings
  <2>. QED  BY <2>1, <2>2
<1>. QED  BY <1>1, <1>3, <1>4, <1>5, <1>6 DEF KnowInv, CalledFor

LEMMA KnowElsewhere ==
    ASSUME KnowInv, UNCHANGED <<kind, values, pos, index, reverseIndex, current, deltaNumber, pending>>,
           pc' = pc \/ (pc \in {"ready", "threw"} /\ pc' = "aborted")
    PROVE  KnowInv'
<1>1. CASE pc' = pc
  BY <1>1 DEF KnowInv, CalledFor, Good, KnownIds, KnownStrings, ForIndex, ForReverse, Dynamic
<1>2. CASE pc' = "aborted"
  BY <1>2 DEF KnowInv, CalledFor, Good
<1>. QED  BY <1>1, <1>2

LEMMA KnowBulkInsert ==
    ASSUME LoaderInv, KnowInv, NEW vs, BulkInsert(vs)
    PROVE  KnowInv'
<1>1. /\ pc = "ready" /\ pc' = "loop" /\ pos' = pos /\ values = <<>> /\ kind' = kind
      /\ UNCHANGED <<index, reverseIndex>>
  BY DEF BulkInsert, Load
<1>2. pos = 1
  BY <1>1 DEF LoaderInv, LoaderTypes
<1>3. DOMAIN index = {} /\ (kind # "bottomup" => DOMAIN reverseIndex = {})
  <2>1. KnownIds = 0 /\ KnownStrings = 0
    BY <1>1, <1>2 DEF KnownIds, KnownStrings
  <2>2. 1..0 = {}
    OBVIOUS
  <2>. QED  BY <1>1, <2>1, <2>2 DEF KnowInv, Good
<1>4. KnownIds' = 0 /\ KnownStrings' = 0 /\ 1..0 = {}
  BY <1>1, <1>2 DEF KnownIds, KnownStrings
<1>. QED  BY <1>1, <1>3, <1>4 DEF KnowInv, CalledFor

LEMMA KnowInit ==
    ASSUME Init
    PROVE  KnowInv
<1>1. /\ pc = "ready" /\ pos = 1 /\ current = Null /\ DOMAIN index = {} /\ DOMAIN reverseIndex = {}
      /\ Len(values) = 0
  BY DEF Init, LoaderInit
<1>2. KnownIds = 0 /\ KnownStrings = 0 /\ 1..0 = {}
  BY <1>1 DEF KnownIds, KnownStrings
<1>. QED  BY <1>1, <1>2 DEF KnowInv, CalledFor

LEMMA KnowStep ==
    ASSUME DictionaryInv, KnowInv, [Next]_vars
    PROVE  KnowInv'
<1>1. LoaderInv
  BY DEF DictionaryInv
<1>2. ASSUME Lookup PROVE KnowInv'
  <2>1. /\ AtRest /\ pc' \in {pc, "aborted"}
        /\ UNCHANGED <<kind, values, pos, index, reverseIndex, current, deltaNumber, pending>>
    BY <1>2, LookupsOnlyRead
  <2>. QED  BY <2>1, KnowElsewhere DEF AtRest
<1>3. ASSUME UNCHANGED vars PROVE KnowInv'
  BY <1>3, KnowElsewhere DEF vars
<1>. QED  BY <1>1, <1>2, <1>3, KnowWriteValue, KnowFinish, KnowInsertReverse, KnowInsertId, KnowBulkInsert
             DEF Next, LoadStep

=============================================================================
