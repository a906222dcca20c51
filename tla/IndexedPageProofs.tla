------------------------- MODULE IndexedPageProofs -------------------------
(***************************************************************************)
(* Proofs about the loaders of IndexedPage, as the dictionaries run them:  *)
(* what the first pass of a loader counts is what the second one writes,   *)
(* so no loader writes outside its page, for any page size and any inputs  *)
(* whose lengths fit their fields.                                         *)
(***************************************************************************)
EXTENDS IndexedDictionary, PageFormatProofs

-----------------------------------------------------------------------------
(* The size of a page.                                                     *)

Bytes(deltas, n) == \A k \in 1..n : deltas[k] \in Nat

\* The sums that Total goes through.
Sums(f, front, deltas, n) ==
    /\ f \in [0..n -> Nat]
    /\ f[0] = front /\ \A k \in 1..n : f[k] = f[k-1] + deltas[k]
    /\ Total(front, deltas, n) = f[n]

LEMMA TotalFunction ==
    ASSUME NEW front \in Nat, NEW n \in Nat, NEW deltas, Bytes(deltas, n)
    PROVE  \E f : Sums(f, front, deltas, n)
<1>. USE DEF Bytes
<1>. DEFINE Add == [k \in Nat |-> [t \in Nat |-> t + (IF k \in 1..n THEN deltas[k] ELSE 0)]]
            IsTotal(f) == f = [k \in 0..n |-> IF k = 0 THEN front ELSE f[k-1] + deltas[k]]
<1>1. Add \in [Nat -> [Nat -> Nat]]
  OBVIOUS
<1>. HIDE DEF Add
<1>2. PICK g : Iterates(g, Nat, front, Add, n)
  BY <1>1, Iteration
<1>3. /\ g \in [0..n -> Nat] /\ g[0] = front
      /\ \A k \in 1..n : g[k] = g[k-1] + deltas[k]
  <2>1. g \in [0..n -> Nat] /\ g[0] = front
    BY <1>2 DEF Iterates
  <2>2. ASSUME NEW k \in 1..n
        PROVE  g[k] = g[k-1] + deltas[k]
    <3>1. k - 1 \in 0..n /\ k \in Nat
      OBVIOUS
    <3>2. g[k-1] \in Nat
      BY <2>1, <3>1
    <3>3. g[k] = Add[k][g[k-1]]
      BY <1>2 DEF Iterates
    <3>. QED  BY <3>1, <3>2, <3>3 DEF Add
  <2>. QED  BY <2>1, <2>2
<1>4. IsTotal(g)
  BY <1>3
<1>. DEFINE f == CHOOSE h : IsTotal(h)
<1>5. IsTotal(f)
  <2>. HIDE DEF IsTotal
  <2>. QED  BY <1>4
<1>6. Total(front, deltas, n) = f[n]
  BY DEF Total
<1>. HIDE DEF f
<1>7. \A k \in 0..n : f[k] = g[k]
  <2>. DEFINE Bad == { k \in 0..n : f[k] # g[k] }
  <2>1. SUFFICES ASSUME Bad # {} PROVE FALSE
    OBVIOUS
  <2>2. PICK k \in Bad : \A j \in Bad : k <= j
    <3>1. Bad \in SUBSET Nat
      OBVIOUS
    <3>. HIDE DEF Bad
    <3>. QED  BY <2>1, <3>1, LeastElement
  <2>3. k \in 1..n
    BY <1>3, <1>5
  <2>4. k - 1 \in 0..n /\ k - 1 \notin Bad
    <3>1. k - 1 \in 0..n /\ ~(k <= k - 1)
      BY <2>3
    <3>. HIDE DEF Bad
    <3>. QED  BY <2>2, <3>1
  <2>5. f[k] = f[k-1] + deltas[k] /\ g[k] = g[k-1] + deltas[k]
    BY <1>3, <1>5, <2>3
  <2>. QED  BY <2>4, <2>5
<1>8. f = g
  BY <1>3, <1>5, <1>7
<1>. QED  BY <1>3, <1>6, <1>8 DEF Sums

\* A delta more makes a page larger by its bytes.
LEMMA Totals ==
    ASSUME NEW front \in Nat, NEW n \in Nat, NEW deltas, Bytes(deltas, n)
    PROVE  /\ Total(front, deltas, n) \in Nat
           /\ n = 0 => Total(front, deltas, n) = front
           /\ n # 0 => Total(front, deltas, n) = Total(front, deltas, n - 1) + deltas[n]
<1>. USE DEF Sums
<1>1. PICK f : Sums(f, front, deltas, n)
  <2>. HIDE DEF Sums
  <2>. QED  BY TotalFunction
<1>2. CASE n = 0
  BY <1>1, <1>2
<1>3. CASE n # 0
  <2>. DEFINE m == n - 1
  <2>1. m \in Nat /\ m \in 0..n /\ n = m + 1 /\ n \in 1..n /\ \A k \in 1..m : k \in 1..n
    BY <1>3
  <2>. HIDE DEF m
  <2>2. PICK g : Sums(g, front, deltas, m)
    <3>1. Bytes(deltas, m)
      BY <2>1 DEF Bytes
    <3>. HIDE DEF Sums
    <3>. QED  BY <2>1, <3>1, TotalFunction
  <2>. DEFINE Bad == { k \in 0..m : f[k] # g[k] }
  <2>3. ASSUME Bad # {} PROVE FALSE
    <3>1. PICK k \in Bad : \A j \in Bad : k <= j
      <4>1. Bad \in SUBSET Nat
        BY <2>1
      <4>. HIDE DEF Bad
      <4>. QED  BY <2>3, <4>1, LeastElement
    <3>2. k \in 1..m
      BY <1>1, <2>1, <2>2
    <3>3. k - 1 \in 0..m /\ k - 1 \notin Bad
      <4>1. k - 1 \in 0..m /\ ~(k <= k - 1)
        BY <2>1, <3>2
      <4>. HIDE DEF Bad
      <4>. QED  BY <3>1, <4>1
    <3>4. f[k] = f[k-1] + deltas[k] /\ g[k] = g[k-1] + deltas[k]
      BY <1>1, <2>1, <2>2, <3>2
    <3>. QED  BY <3>3, <3>4
  <2>4. f[m] = g[m]
    BY <2>1, <2>3
  <2>5. f[n] = f[m] + deltas[n] /\ f[n] \in Nat
    BY <1>1, <2>1
  <2>. QED  BY <1>1, <1>3, <2>2, <2>4, <2>5 DEF m
<1>. QED  BY <1>2, <1>3

\* Behind the first d deltas there is room for the others.
LEMMA RoomBehind ==
    ASSUME NEW front \in Nat, NEW n \in Nat, NEW deltas, NEW least \in Nat,
           \A k \in 1..n : deltas[k] \in Nat /\ deltas[k] >= least, NEW d \in 0..n
    PROVE  Total(front, deltas, d) + least * (n - d) <= Total(front, deltas, n)
<1>. DEFINE T(k) == Total(front, deltas, k)
            Bad == { k \in d..n : ~(T(d) + least * (k - d) <= T(k)) }
<1>1. SUFFICES ASSUME Bad # {} PROVE FALSE
  <2>1. n \in d..n
    OBVIOUS
  <2>. HIDE DEF T
  <2>2. T(d) + least * (n - d) <= T(n)
    BY <2>1
  <2>. QED  BY <2>2 DEF T
<1>2. PICK k \in Bad : \A j \in Bad : k <= j
  <2>1. Bad \in SUBSET Nat
    OBVIOUS
  <2>. HIDE DEF Bad
  <2>. QED  BY <1>1, <2>1, LeastElement
<1>3. \A j \in 0..n : /\ T(j) \in Nat
                      /\ j # 0 => T(j) = T(j-1) + deltas[j]
  <2>1. \A j \in 0..n : j \in Nat /\ Bytes(deltas, j)
    BY DEF Bytes
  <2>. QED  BY <2>1, Totals
<1>. HIDE DEF T
<1>4. k # d
  BY <1>3
<1>5. k \in 1..n /\ k - 1 \in d..n /\ k - 1 \notin Bad
  <2>1. k \in 1..n /\ k - 1 \in d..n /\ ~(k <= k - 1)
    BY <1>4
  <2>. HIDE DEF Bad
  <2>. QED  BY <1>2, <2>1
<1>6. T(d) + least * ((k - 1) - d) <= T(k-1)
  BY <1>5
<1>7. least * (k - d) = least * ((k - 1) - d) + least
  BY <1>5
<1>8. T(k) = T(k-1) + deltas[k] /\ deltas[k] >= least /\ deltas[k] \in Nat /\ T(k-1) \in Nat /\ T(d) \in Nat
  BY <1>3, <1>5
<1>9. least * ((k - 1) - d) \in Nat
  BY <1>5
<1>. QED  BY <1>6, <1>7, <1>8, <1>9

-----------------------------------------------------------------------------
(* The search for the end of a block.                                      *)

Behind == 0..(Len(values) - pos)

\* How far behind this value there are values with the character.
Searched(char) == { j \in Behind : IsSearched(pos + j, char) }

\* One turn of the loop of findBlock.
Halved(found, search, s) ==
    LET middle == (s.start + s.end) \div 2
    IN  IF s.start >= s.end
        THEN IF s.start \in found THEN s.start ELSE s.biggest
        ELSE IF middle \in found
        THEN search[[start |-> middle + 1, end |-> s.end, biggest |-> middle]]
        ELSE search[[start |-> s.start, end |-> middle, biggest |-> s.biggest]]

Width(s) == IF s.start < s.end THEN s.end - s.start ELSE 0

\* The spans that the loop comes to, when the values up to m behind are found.
Spanning(s, m) ==
    /\ s.start <= s.end /\ s.start <= m + 1
    /\ s.biggest = (IF s.start = 0 THEN 0 ELSE s.start - 1)
    /\ m < s.end \/ s.end = Len(values) - pos

LEMMA Halves ==
    ASSUME NEW s \in Spans, s.start < s.end, Len(values) \in Nat, pos \in Nat
    PROVE  LET middle == (s.start + s.end) \div 2
               upper  == [start |-> middle + 1, end |-> s.end, biggest |-> middle]
               lower  == [start |-> s.start, end |-> middle, biggest |-> s.biggest]
           IN  /\ middle \in Behind /\ s.start <= middle /\ middle < s.end
               /\ upper \in Spans /\ Width(upper) < Width(s)
               /\ lower \in Spans /\ Width(lower) < Width(s)
<1>. DEFINE middle == (s.start + s.end) \div 2
<1>1. s.start \in Behind /\ s.end \in Behind /\ s.biggest \in Behind
  BY DEF Spans, Behind
<1>2. middle \in Behind /\ s.start <= middle /\ middle < s.end /\ middle + 1 \in Behind
  BY <1>1 DEF Behind
<1>. HIDE DEF middle
<1>3. /\ [start |-> middle + 1, end |-> s.end, biggest |-> middle] \in Spans
      /\ [start |-> s.start, end |-> middle, biggest |-> s.biggest] \in Spans
  BY <1>1, <1>2 DEF Spans, Behind
<1>4. /\ Width([start |-> middle + 1, end |-> s.end, biggest |-> middle]) < Width(s)
      /\ Width([start |-> s.start, end |-> middle, biggest |-> s.biggest]) < Width(s)
  BY <1>1, <1>2 DEF Width, Behind
<1>. QED  BY <1>2, <1>3, <1>4 DEF middle

LEMMA SearchExists ==
    ASSUME Len(values) \in Nat, pos \in Nat, 0 \in Behind, NEW found
    PROVE  \E f : f = [s \in Spans |-> Halved(found, f, s)]
<1>. DEFINE Size == [s \in Spans |-> Width(s)]
            Body == [f \in [Spans -> Behind] |-> [s \in Spans |-> Halved(found, f, s)]]
            bound == Len(values) + 1
<1>1. \A s \in Spans : Width(s) \in Nat /\ Width(s) < bound
  BY DEF Spans, Width
<1>2. Size \in [Spans -> Nat] /\ bound \in Nat /\ \A s \in Spans : Size[s] < bound
  BY <1>1
<1>3. ASSUME NEW f \in [Spans -> Behind], NEW s \in Spans
      PROVE  Halved(found, f, s) \in Behind
  <2>1. s.start \in Behind /\ s.biggest \in Behind /\ s.end \in Behind
    BY DEF Spans, Behind
  <2>2. CASE s.start >= s.end
    BY <2>1, <2>2 DEF Halved
  <2>3. CASE s.start < s.end
    <3>1. ~(s.start >= s.end)
      BY <2>1, <2>3 DEF Behind
    <3>. QED  BY <2>3, <3>1, Halves DEF Halved
  <2>. QED  BY <2>1, <2>2, <2>3 DEF Behind
<1>4. Body \in [[Spans -> Behind] -> [Spans -> Behind]]
  BY <1>3
<1>5. ASSUME NEW f \in [Spans -> Behind], NEW h \in [Spans -> Behind], NEW s \in Spans,
             \A y \in Spans : Size[y] < Size[s] => f[y] = h[y]
      PROVE  Body[f][s] = Body[h][s]
  <2>1. \A y \in Spans : Width(y) < Width(s) => f[y] = h[y]
    BY <1>5
  <2>2. Halved(found, f, s) = Halved(found, h, s)
    <3>1. CASE s.start >= s.end
      BY <3>1 DEF Halved
    <3>2. CASE ~(s.start >= s.end)
      <4>1. s.start < s.end
        BY <3>2 DEF Spans
      <4>. QED  BY <2>1, <3>2, <4>1, Halves DEF Halved
    <3>. QED  BY <3>1, <3>2
  <2>. QED  BY <2>2
<1>. HIDE DEF Size, Body, bound
<1>6. DependsOnSmaller(Body, Spans, Behind, Size)
  BY <1>5 DEF DependsOnSmaller
<1>7. \E f : IsFixed(f, Body, Spans, Behind)
  BY <1>2, <1>4, <1>6, Recursion
<1>. QED  BY <1>7 DEF Body, IsFixed

\* The binary search of findBlock ends behind this value, and at the last value
\* with the character when these values follow each other.
LEMMA FindBlockMeans ==
    ASSUME Len(values) \in Nat, pos \in Nat, 0 \in Behind, NEW char
    PROVE  /\ FindBlock(char) \in Behind
           /\ \A m \in Behind : Searched(char) = 0..m => FindBlock(char) = m
<1>. DEFINE found == Searched(char)
            IsSearch(f) == f = [s \in Spans |-> Halved(found, f, s)]
            search == CHOOSE f : IsSearch(f)
<1>1. FindBlock(char) = search[WholeBlock]
  <2>1. ASSUME NEW f
        PROVE  [s \in Spans |-> Halved(found, f, s)] =
                 [s \in Spans |->
                    LET middle == (s.start + s.end) \div 2
                    IN  IF s.start >= s.end
                        THEN IF IsSearched(pos + s.start, char) THEN s.start ELSE s.biggest
                        ELSE IF IsSearched(pos + middle, char)
                        THEN f[[start |-> middle + 1, end |-> s.end, biggest |-> middle]]
                        ELSE f[[start |-> s.start, end |-> middle, biggest |-> s.biggest]]]
    <3>1. ASSUME NEW s \in Spans
          PROVE  /\ IsSearched(pos + s.start, char) <=> s.start \in found
                 /\ s.start < s.end => (IsSearched(pos + ((s.start + s.end) \div 2), char)
                                          <=> (s.start + s.end) \div 2 \in found)
                 /\ s.start < s.end <=> ~(s.start >= s.end)
      <4>1. s.start \in Behind /\ s.end \in Behind
        BY DEF Spans, Behind
      <4>2. s.start < s.end => (s.start + s.end) \div 2 \in Behind
        BY Halves
      <4>. QED  BY <4>1, <4>2 DEF Searched, Behind
    <3>. HIDE DEF found
    <3>2. \A s \in Spans : Halved(found, f, s) =
                    LET middle == (s.start + s.end) \div 2
                    IN  IF s.start >= s.end
                        THEN IF IsSearched(pos + s.start, char) THEN s.start ELSE s.biggest
                        ELSE IF IsSearched(pos + middle, char)
                        THEN f[[start |-> middle + 1, end |-> s.end, biggest |-> middle]]
                        ELSE f[[start |-> s.start, end |-> middle, biggest |-> s.biggest]]
      BY <3>1 DEF Halved
    <3>. QED  BY <3>2
  <2>. QED  BY <2>1, Zenon DEF FindBlock
<1>2. IsSearch(search)
  <2>1. \E f : IsSearch(f)
    BY SearchExists
  <2>. HIDE DEF IsSearch
  <2>. QED  BY <2>1
<1>. HIDE DEF search, found
<1>. DEFINE Ends(s) == /\ search[s] \in Behind
                       /\ \A m \in Behind : found = 0..m /\ Spanning(s, m) => search[s] = m
            Bad == { Width(s) : s \in { s \in Spans : ~Ends(s) } }
<1>3. Bad = {}
  <2>1. SUFFICES ASSUME Bad # {} PROVE FALSE
    OBVIOUS
  <2>2. PICK w \in Bad : \A v \in Bad : w <= v
    <3>1. Bad \in SUBSET Nat
      BY DEF Width, Spans
    <3>. HIDE DEF Bad
    <3>. QED  BY <2>1, <3>1, LeastElement
  <2>3. PICK s \in Spans : ~Ends(s) /\ w = Width(s)
    OBVIOUS
  <2>4. \A y \in Spans : Width(y) < Width(s) => Ends(y)
    <3>1. \A y \in Spans : ~Ends(y) => Width(y) \in Bad
      OBVIOUS
    <3>2. \A y \in Spans : Width(y) \in Nat
      BY DEF Width, Spans
    <3>. HIDE DEF Bad, Ends
    <3>. QED  BY <2>2, <2>3, <3>1, <3>2
  <2>5. search[s] = Halved(found, search, s)
    BY <1>2
  <2>6. s.start \in Behind /\ s.end \in Behind /\ s.biggest \in Behind
    BY DEF Spans, Behind
  <2>. HIDE DEF Bad
  <2>7. CASE s.start >= s.end
    <3>1. search[s] = IF s.start \in found THEN s.start ELSE s.biggest
      BY <2>5, <2>7 DEF Halved
    <3>2. ASSUME NEW m \in Behind, found = 0..m, Spanning(s, m)
          PROVE  search[s] = m
      BY <2>6, <2>7, <3>1, <3>2 DEF Spanning, Behind
    <3>. QED  BY <2>3, <2>6, <3>1, <3>2
  <2>8. CASE ~(s.start >= s.end)
    <3>. DEFINE middle == (s.start + s.end) \div 2
                upper  == [start |-> middle + 1, end |-> s.end, biggest |-> middle]
                lower  == [start |-> s.start, end |-> middle, biggest |-> s.biggest]
    <3>1. s.start < s.end
      BY <2>6, <2>8 DEF Behind
    <3>2. /\ middle \in Behind /\ s.start <= middle /\ middle < s.end
          /\ upper \in Spans /\ Ends(upper) /\ lower \in Spans /\ Ends(lower)
      <4>. HIDE DEF Ends
      <4>. QED  BY <2>4, <3>1, Halves
    <3>3. search[s] = IF middle \in found THEN search[upper] ELSE search[lower]
      BY <2>5, <2>8 DEF Halved
    <3>4. ASSUME NEW m \in Behind, found = 0..m, Spanning(s, m)
          PROVE  IF middle \in found THEN Spanning(upper, m) ELSE Spanning(lower, m)
      <4>. HIDE DEF middle, Ends
      <4>. QED  BY <2>6, <3>1, <3>2, <3>4 DEF Spanning, Behind
    <3>. HIDE DEF middle, upper, lower
    <3>. QED  BY <2>3, <3>2, <3>3, <3>4
  <2>. QED  BY <2>7, <2>8
<1>4. WholeBlock \in Spans
  BY DEF WholeBlock, Spans, Behind
<1>5. \A m \in Behind : Spanning(WholeBlock, m)
  BY DEF WholeBlock, Spanning, Behind
<1>6. Ends(WholeBlock)
  BY <1>3, <1>4
<1>. QED  BY <1>1, <1>5, <1>6 DEF found

-----------------------------------------------------------------------------
(* Pages, their indexes and their sizes.                                   *)

DynamicKinds == {"dynamic", "dynamicslotted"}
Unindexed    == {"dynamic", "multi"}

\* The bytes in front of the first value, and what an entry of the index takes.
IndexBytes(k, n) == IF k \in Unindexed THEN 0 ELSE IndexHeader + OffsetSize * n
SlotSize(k)      == IF k \in Unindexed THEN 0 ELSE OffsetSize

\* The end header behind these bytes is in the page, of a dynamic one at its end.
EndFits(k, n, ptr, size) ==
    LET end == IndexBytes(k, n) + ptr + EndHeader
    IN  IF k \in DynamicKinds THEN end = size ELSE end <= size

CellFits(k, n, off, cell, size) ==
    /\ cell.size < StringRange
    /\ IndexBytes(k, n) + off + Written(cell) + EndHeader <= size

\* Only a dynamic page has a size of its own.
IsSize(k, size) == size \in Nat /\ (k \notin DynamicKinds => size = PageSize)

SoundPage(k, page, slot, size) ==
    /\ IsPage(page) /\ IsSequence(slot) /\ IsSize(k, size)
    /\ \A e \in 1..Len(slot) : slot[e] \in (1..size) \union {Unwritten}
    /\ \A o \in DOMAIN page.cells : CellFits(k, Len(slot), o, page.cells[o], size)
    /\ page.end # Unwritten => EndFits(k, Len(slot), page.end, size)

\* Pages ps with indexes ss and sizes zs; each leads at most to page b.
AllSound(k, ps, ss, zs, b) ==
    /\ IsSequence(ps) /\ IsSequence(ss) /\ IsSequence(zs)
    /\ Len(ss) = Len(ps) /\ Len(zs) = Len(ps)
    /\ \A p \in 1..Len(ps) : SoundPage(k, ps[p], ss[p], zs[p]) /\ ps[p].next <= b

\* An index that is only reserved.
Reserved(slot) == IsSequence(slot) /\ \A e \in 1..Len(slot) : slot[e] = Unwritten

\* qs, ts and ys have one page more than ps: an empty one with this index.
OneMore(k, qs, ts, ys, b, ps, slot, size) ==
    /\ AllSound(k, qs, ts, ys, b)
    /\ Len(qs) = Len(ps) + 1 /\ qs[Len(ps) + 1] = EmptyPage
    /\ ts[Len(ps) + 1] = slot /\ ys[Len(ps) + 1] = size

LEMMA PageAdded ==
    ASSUME NEW k, NEW ps, NEW ss, NEW zs, NEW b \in Nat, AllSound(k, ps, ss, zs, b),
           NEW slot, Reserved(slot), NEW size, IsSize(k, size)
    PROVE  OneMore(k, Append(ps, EmptyPage), Append(ss, slot), Append(zs, size), b, ps, slot, size)
<1>. USE DEF Reserved, OneMore
<1>. DEFINE n == Len(ps)
            qs == Append(ps, EmptyPage)
            ts == Append(ss, slot)
            ys == Append(zs, size)
<1>1. /\ IsSequence(qs) /\ Len(qs) = n + 1 /\ qs[n+1] = EmptyPage
      /\ \A p \in 1..n : qs[p] = ps[p]
  BY AppendSequence DEF AllSound
<1>2. /\ IsSequence(ts) /\ Len(ts) = n + 1 /\ ts[n+1] = slot
      /\ \A p \in 1..n : ts[p] = ss[p]
  BY AppendSequence DEF AllSound
<1>3. /\ IsSequence(ys) /\ Len(ys) = n + 1 /\ ys[n+1] = size
      /\ \A p \in 1..n : ys[p] = zs[p]
  BY AppendSequence DEF AllSound
<1>4. SoundPage(k, EmptyPage, slot, size) /\ EmptyPage.next <= b
  <2>1. EmptyPage.next = 0
    BY DEF EmptyPage, Null
  <2>. QED  BY <2>1, EmptyPageProperties DEF SoundPage
<1>. HIDE DEF qs, ts, ys
<1>5. ASSUME NEW p \in 1..(n + 1)
      PROVE  SoundPage(k, qs[p], ts[p], ys[p]) /\ qs[p].next <= b
  <2>1. CASE p = n + 1
    BY <2>1, <1>1, <1>2, <1>3, <1>4
  <2>2. CASE p # n + 1
    <3>1. n \in Nat
      BY DEF AllSound, IsSequence
    <3>2. p \in 1..n
      BY <2>2, <3>1
    <3>. QED  BY <3>2, <1>1, <1>2, <1>3 DEF AllSound
  <2>. QED  BY <2>1, <2>2
<1>. QED  BY <1>1, <1>2, <1>3, <1>5 DEF AllSound, qs, ts, ys

\* A page is replaced by one that is sound as well.
LEMMA PageReplaced ==
    ASSUME NEW k, NEW ps, NEW ss, NEW zs, NEW b, AllSound(k, ps, ss, zs, b),
           NEW i \in 1..Len(ps), NEW page, SoundPage(k, page, ss[i], zs[i]), page.next <= b,
           NEW qs, qs = [ps EXCEPT ![i] = page]
    PROVE  AllSound(k, qs, ss, zs, b) /\ Replaced(qs, ps, i, page)
<1>. USE DEF Replaced
<1>1. /\ IsSequence(qs) /\ Len(qs) = Len(ps) /\ qs[i] = page
      /\ \A j \in 1..Len(ps) : j # i => qs[j] = ps[j]
  <2>1. IsSequence(ps)
    BY DEF AllSound
  <2>. HIDE DEF Replaced
  <2>2. Replaced([ps EXCEPT ![i] = page], ps, i, page)
    BY <2>1, ReplacedEntry
  <2>. QED  BY <2>2 DEF Replaced
<1>2. \A p \in 1..Len(ps) : SoundPage(k, qs[p], ss[p], zs[p]) /\ qs[p].next <= b
  BY <1>1 DEF AllSound
<1>. QED  BY <1>1, <1>2 DEF AllSound

LEMMA CellSound ==
    ASSUME NEW k, NEW page, NEW slot, NEW size, SoundPage(k, page, slot, size),
           NEW off \in Nat, NEW cell \in Cells, CellFits(k, Len(slot), off, cell, size)
    PROVE  LET q == WithCell(page, off, cell)
           IN  /\ SoundPage(k, q, slot, size) /\ q.next = page.next /\ q.end = page.end
               /\ DOMAIN q.cells = (DOMAIN page.cells) \union {off}
               /\ q.cells[off] = cell
               /\ \A o \in DOMAIN page.cells : o # off => q.cells[o] = page.cells[o]
<1>. DEFINE q == WithCell(page, off, cell)
<1>1. /\ IsPage(q)
      /\ q.end = page.end /\ q.next = page.next
      /\ DOMAIN q.cells = (DOMAIN page.cells) \union {off}
      /\ q.cells[off] = cell
      /\ \A o \in DOMAIN page.cells : o # off => q.cells[o] = page.cells[o]
  BY WithCellProperties DEF SoundPage
<1>. HIDE DEF q
<1>2. \A o \in DOMAIN q.cells : CellFits(k, Len(slot), o, q.cells[o], size)
  BY <1>1 DEF SoundPage
<1>. QED  BY <1>1, <1>2 DEF SoundPage, q

LEMMA FinishedSound ==
    ASSUME NEW k, NEW page, NEW slot, NEW size, SoundPage(k, page, slot, size),
           NEW end \in Nat, NEW next \in Nat, EndFits(k, Len(slot), end, size)
    PROVE  LET q == Finished(page, end, next)
           IN  SoundPage(k, q, slot, size) /\ q.next = next /\ q.cells = page.cells
<1>. DEFINE q == Finished(page, end, next)
<1>1. IsPage(q) /\ q.cells = page.cells /\ q.end = end /\ q.next = next
  <2>1. IsPage(page)
    BY DEF SoundPage
  <2>. QED  BY <2>1, FinishedPage, SMTT(30)
<1>. HIDE DEF q
<1>. QED  BY <1>1 DEF SoundPage, q

SlotSet(ts, ss, i, e, v) == ts = [ss EXCEPT ![i][e] = v]

LEMMA SlotWritten ==
    ASSUME NEW k, NEW ps, NEW ss, NEW zs, NEW b, AllSound(k, ps, ss, zs, b),
           NEW i \in 1..Len(ps), NEW e \in 1..Len(ss[i]), NEW v \in 1..zs[i],
           NEW ts, SlotSet(ts, ss, i, e, v)
    PROVE  AllSound(k, ps, ts, zs, b) /\ Len(ts[i]) = Len(ss[i])
<1>1. IsSequence(ss[i]) /\ IsSequence(ss) /\ Len(ss) = Len(ps)
  BY DEF AllSound, SoundPage
<1>. DEFINE slot == [ss[i] EXCEPT ![e] = v]
<1>2. Replaced(slot, ss[i], e, v)
  BY <1>1, ReplacedEntry
<1>. HIDE DEF slot
<1>3. Replaced(ts, ss, i, slot)
  <2>1. ts = [ss EXCEPT ![i] = slot] /\ i \in 1..Len(ss)
    BY <1>1 DEF slot, SlotSet
  <2>2. Replaced([ss EXCEPT ![i] = slot], ss, i, slot)
    BY <1>1, <2>1, ReplacedEntry
  <2>. QED  BY <2>1, <2>2
<1>. USE DEF Replaced
<1>4. \A p \in 1..Len(ps) : Len(ts[p]) = Len(ss[p])
  BY <1>1, <1>2, <1>3
<1>5. ASSUME NEW p \in 1..Len(ps)
      PROVE  SoundPage(k, ps[p], ts[p], zs[p])
  <2>1. CASE p = i
    <3>1. \A j \in 1..Len(slot) : slot[j] \in (1..zs[i]) \union {Unwritten}
      BY <1>2 DEF AllSound, SoundPage
    <3>. QED  BY <2>1, <1>2, <1>3, <3>1 DEF AllSound, SoundPage
  <2>2. CASE p # i
    BY <2>2, <1>1, <1>3 DEF AllSound
  <2>. QED  BY <2>1, <2>2
<1>. QED  BY <1>1, <1>3, <1>4, <1>5 DEF AllSound

-----------------------------------------------------------------------------
(* What the first pass counts.                                             *)

\* The bytes that the n deltas behind a value take, each with its entry.
DeltaSizes(k, vs, first, n) ==
    [i \in 1..n |-> SlotSize(k) + DeltaHeader + Len(Delta(vs[first], vs[first + i]))]

\* The index, a value and the first d of the n deltas behind it.
Room(k, vs, first, n, d) ==
    Total(IndexBytes(k, 0) + FullHeader + Len(vs[first]), DeltaSizes(k, vs, first, n), d)

\* There is room on the page for all of them, of a dynamic one not a byte more.
Counted(k, vs, first, n, size) ==
    /\ first \in 1..Len(vs) /\ n \in Nat /\ first + n <= Len(vs) /\ size \in Nat
    /\ IF k \in DynamicKinds THEN Room(k, vs, first, n, n) + EndHeader = size
       ELSE Room(k, vs, first, n, n) + EndHeader <= size

\* The first d values are on the page, and the next one goes behind them.
Reached(k, vs, first, n, page, d, ptr) ==
    /\ 0 \in DOMAIN page.cells /\ page.cells[0].str = vs[first]
    /\ ptr \in Nat /\ ptr + IndexBytes(k, d - 1) = Room(k, vs, first, n, d - 1)

LEMMA IndexGrows ==
    ASSUME NEW k, NEW n \in Nat
    PROVE  /\ SlotSize(k) \in Nat /\ IndexBytes(k, n) \in Nat
           /\ IndexBytes(k, n) = IndexBytes(k, 0) + SlotSize(k) * n
BY DEF IndexBytes, SlotSize, IndexHeader, OffsetSize

LEMMA DeltaSize ==
    ASSUME NEW vs \in Seq(Strings), Short(vs), NEW i \in 1..Len(vs), NEW j \in 1..Len(vs)
    PROVE  /\ vs[i] \in Strings /\ vs[j] \in Strings
           /\ Delta(vs[i], vs[j]) \in Strings /\ Len(Delta(vs[i], vs[j])) \in Nat
           /\ DeltaLength(vs[i], vs[j]) = Len(Delta(vs[i], vs[j]))
<1>1. vs[i] \in Strings /\ vs[j] \in Strings /\ Len(vs[j]) < StringRange
  BY DEF Short
<1>2. Delta(vs[i], vs[j]) \in Strings
  BY <1>1, DeltaRestores
<1>3. Len(Delta(vs[i], vs[j])) \in Nat
  BY <1>2 DEF Strings
<1>4. PrefixLength(vs[i], vs[j]) \in Nat /\ PrefixLength(vs[i], vs[j]) <= Len(vs[j])
  BY <1>1, PrefixLengthProperties
<1>5. Len(Delta(vs[i], vs[j])) = Len(vs[j]) - PrefixLength(vs[i], vs[j])
  BY <1>1, DeltaRestores
<1>6. Len(Delta(vs[i], vs[j])) < StringRange
  <2>1. Len(vs[j]) \in Nat /\ StringRange \in Nat
    BY <1>1, StringRangeAssumption DEF Strings
  <2>. QED  BY <1>1, <1>3, <1>4, <1>5, <2>1
<1>7. Len(Delta(vs[i], vs[j])) % StringRange = Len(Delta(vs[i], vs[j]))
  BY <1>3, <1>6, StringRangeAssumption, Small
<1>. QED  BY <1>1, <1>2, <1>3, <1>5, <1>7 DEF DeltaLength

LEMMA RoomGrows ==
    ASSUME NEW k, NEW vs \in Seq(Strings), Short(vs), NEW first \in 1..Len(vs),
           NEW n \in Nat, first + n <= Len(vs), NEW d \in 0..n
    PROVE  /\ Len(vs[first]) \in Nat
           /\ Room(k, vs, first, n, 0) = IndexBytes(k, 0) + FullHeader + Len(vs[first])
           /\ Room(k, vs, first, n, d) \in Nat
           /\ d # 0 => Room(k, vs, first, n, d) = Room(k, vs, first, n, d - 1)
                         + SlotSize(k) + DeltaHeader + Len(Delta(vs[first], vs[first + d]))
           /\ Room(k, vs, first, n, 0) + SlotSize(k) * d <= Room(k, vs, first, n, d)
           /\ Room(k, vs, first, n, d) + SlotSize(k) * (n - d) <= Room(k, vs, first, n, n)
<1>. DEFINE front == IndexBytes(k, 0) + FullHeader + Len(vs[first])
            sizesOf == DeltaSizes(k, vs, first, n)
<1>1. vs[first] \in Strings /\ Len(vs[first]) \in Nat
  BY DEF Strings
<1>2. front \in Nat /\ SlotSize(k) \in Nat
  BY <1>1, IndexGrows DEF FullHeader
<1>3. ASSUME NEW i \in 1..n
      PROVE  /\ sizesOf[i] = SlotSize(k) + DeltaHeader + Len(Delta(vs[first], vs[first + i]))
             /\ sizesOf[i] \in Nat /\ sizesOf[i] >= SlotSize(k)
  <2>1. first + i \in 1..Len(vs)
    OBVIOUS
  <2>2. Len(Delta(vs[first], vs[first + i])) \in Nat
    BY <2>1, DeltaSize
  <2>3. sizesOf[i] = SlotSize(k) + DeltaHeader + Len(Delta(vs[first], vs[first + i]))
    BY DEF DeltaSizes
  <2>. HIDE DEF sizesOf
  <2>. QED  BY <1>2, <2>2, <2>3 DEF DeltaHeader
<1>. HIDE DEF front, sizesOf
<1>4. Bytes(sizesOf, d) /\ Bytes(sizesOf, 0) /\ Bytes(sizesOf, n)
  BY <1>3 DEF Bytes
<1>5. /\ Total(front, sizesOf, d) \in Nat
      /\ d # 0 => Total(front, sizesOf, d) = Total(front, sizesOf, d - 1) + sizesOf[d]
  <2>1. d \in Nat
    OBVIOUS
  <2>. QED  BY <1>2, <1>4, <2>1, Totals
<1>6. Total(front, sizesOf, 0) = front
  BY <1>2, <1>4, Totals
<1>7. Total(front, sizesOf, d) + SlotSize(k) * (n - d) <= Total(front, sizesOf, n)
  BY <1>2, <1>3, RoomBehind
<1>8. Total(front, sizesOf, 0) + SlotSize(k) * d <= Total(front, sizesOf, d)
  <2>1. \A i \in 1..d : sizesOf[i] \in Nat /\ sizesOf[i] >= SlotSize(k)
    BY <1>3
  <2>2. 0 \in 0..d /\ d \in Nat /\ d - 0 = d
    OBVIOUS
  <2>3. Total(front, sizesOf, 0) + SlotSize(k) * (d - 0) <= Total(front, sizesOf, d)
    BY <1>2, <2>1, <2>2, RoomBehind
  <2>. QED  BY <2>2, <2>3
<1>9. d # 0 => d \in 1..n
  OBVIOUS
<1>10. \A e : Room(k, vs, first, n, e) = Total(front, sizesOf, e)
  BY DEF Room, front, sizesOf
<1>11. d # 0 => Room(k, vs, first, n, d) = Room(k, vs, first, n, d - 1) + sizesOf[d]
  BY <1>5, <1>10
<1>12. d # 0 => Room(k, vs, first, n, d) = Room(k, vs, first, n, d - 1)
                         + SlotSize(k) + DeltaHeader + Len(Delta(vs[first], vs[first + d]))
  <2>. SUFFICES ASSUME d # 0
                PROVE  Room(k, vs, first, n, d) = Room(k, vs, first, n, d - 1)
                         + SlotSize(k) + DeltaHeader + Len(Delta(vs[first], vs[first + d]))
    OBVIOUS
  <2>1. d - 1 \in Nat /\ Bytes(sizesOf, d - 1)
    BY <1>4 DEF Bytes
  <2>2. Room(k, vs, first, n, d - 1) \in Nat
    BY <1>2, <1>10, <2>1, Totals, SMTT(30)
  <2>3. first + d \in 1..Len(vs)
    OBVIOUS
  <2>4. Len(Delta(vs[first], vs[first + d])) \in Nat
    BY <2>3, DeltaSize
  <2>5. sizesOf[d] = SlotSize(k) + DeltaHeader + Len(Delta(vs[first], vs[first + d]))
    BY <1>3, <1>9
  <2>. QED  BY <1>2, <1>11, <2>2, <2>4, <2>5 DEF DeltaHeader
<1>. QED  BY <1>1, <1>5, <1>6, <1>7, <1>8, <1>10, <1>12 DEF front

\* The uncompressed value fits on the page it is counted for.
LEMMA FullFits ==
    ASSUME NEW k, NEW vs \in Seq(Strings), Short(vs), NEW first, NEW n, NEW size,
           Counted(k, vs, first, n, size), NEW id \in Nat
    PROVE  LET cell == FullCell(id, vs[first])
           IN  /\ cell \in Cells /\ CellFits(k, n, 0, cell, size)
               /\ Written(cell) \in Nat /\ Written(cell) <= size
               /\ Written(cell) + IndexBytes(k, 0) = Room(k, vs, first, n, 0)
<1>. DEFINE cell == FullCell(id, vs[first])
            need == Room(k, vs, first, n, n)
<1>0. first \in 1..Len(vs) /\ n \in Nat /\ first + n <= Len(vs) /\ size \in Nat /\ 0 \in 0..n
  BY DEF Counted
<1>1. vs[first] \in Strings /\ Len(vs[first]) \in Nat /\ Len(vs[first]) < StringRange
  BY <1>0 DEF Strings, Short
<1>2. cell \in Cells /\ Written(cell) = FullHeader + Len(vs[first]) /\ cell.size = Len(vs[first])
  BY <1>1, FullCellProperties
<1>. HIDE DEF cell
<1>3. /\ Room(k, vs, first, n, 0) = IndexBytes(k, 0) + FullHeader + Len(vs[first])
      /\ Room(k, vs, first, n, 0) + SlotSize(k) * (n - 0) <= need
  BY <1>0, RoomGrows
<1>4. need \in Nat /\ need + EndHeader <= size
  <2>1. need \in Nat
    <3>1. n \in 0..n
      BY <1>0
    <3>. QED  BY <1>0, <3>1, RoomGrows
  <2>. HIDE DEF need
  <2>2. IF k \in DynamicKinds THEN need + EndHeader = size ELSE need + EndHeader <= size
    BY DEF Counted, need
  <2>. QED  BY <1>0, <2>1, <2>2 DEF EndHeader
<1>5. /\ SlotSize(k) \in Nat /\ IndexBytes(k, n) \in Nat /\ IndexBytes(k, 0) \in Nat
      /\ IndexBytes(k, n) = IndexBytes(k, 0) + SlotSize(k) * n
  BY <1>0, IndexGrows
<1>. DEFINE slots0 == SlotSize(k) * n
<1>6. slots0 \in Nat /\ SlotSize(k) * (n - 0) = slots0
  BY <1>0, <1>5
<1>. HIDE DEF need, slots0
<1>7. IndexBytes(k, n) + 0 + Written(cell) + EndHeader <= size /\ Written(cell) <= size
  <2>1. IndexBytes(k, n) = IndexBytes(k, 0) + slots0
    BY <1>5 DEF slots0
  <2>2. IndexBytes(k, 0) + FullHeader + Len(vs[first]) + slots0 <= need
    BY <1>3, <1>6
  <2>3. IndexBytes(k, 0) \in Nat /\ Written(cell) = FullHeader + Len(vs[first])
    BY <1>2, <1>5
  <2>. QED  BY <1>0, <1>1, <1>4, <1>6, <2>1, <2>2, <2>3, SMTT(30) DEF FullHeader, EndHeader
<1>8. Written(cell) \in Nat /\ Written(cell) + IndexBytes(k, 0) = Room(k, vs, first, n, 0)
  BY <1>1, <1>2, <1>3, <1>5 DEF FullHeader
<1>. QED  BY <1>1, <1>2, <1>7, <1>8 DEF CellFits, cell

\* Writing it is the first step.
LEMMA FullReached ==
    ASSUME NEW k, NEW vs \in Seq(Strings), Short(vs), NEW first, NEW n, NEW size,
           Counted(k, vs, first, n, size), NEW id \in Nat, NEW slot, Len(slot) = n \/ k \in Unindexed,
           NEW page, SoundPage(k, page, slot, size)
    PROVE  LET cell == FullCell(id, vs[first])
               q    == WithCell(page, 0, cell)
           IN  /\ SoundPage(k, q, slot, size) /\ q.next = page.next
               /\ Reached(k, vs, first, n, q, 1, Written(cell)) /\ Written(cell) <= size
<1>. DEFINE cell == FullCell(id, vs[first])
            q    == WithCell(page, 0, cell)
<1>1. /\ cell \in Cells /\ CellFits(k, n, 0, cell, size)
      /\ Written(cell) \in Nat /\ Written(cell) <= size
      /\ Written(cell) + IndexBytes(k, 0) = Room(k, vs, first, n, 0)
  BY FullFits
<1>2. cell.str = vs[first]
  BY DEF FullCell
<1>. HIDE DEF cell
<1>3. CellFits(k, Len(slot), 0, cell, size)
  BY <1>1 DEF CellFits, IndexBytes
<1>4. /\ SoundPage(k, q, slot, size) /\ q.next = page.next
      /\ DOMAIN q.cells = (DOMAIN page.cells) \union {0} /\ q.cells[0] = cell
  <2>1. 0 \in Nat
    OBVIOUS
  <2>. QED  BY <1>1, <1>3, <2>1, CellSound
<1>. HIDE DEF q
<1>5. 1 - 1 = 0
  OBVIOUS
<1>6. Reached(k, vs, first, n, q, 1, Written(cell))
  BY <1>1, <1>2, <1>4, <1>5 DEF Reached
<1>. QED  BY <1>1, <1>4, <1>6 DEF q, cell

\* So does each delta, and writing it is the next step.
LEMMA DeltaReached ==
    ASSUME NEW k, NEW vs \in Seq(Strings), Short(vs), NEW first, NEW n, NEW size,
           Counted(k, vs, first, n, size), NEW id \in Nat, NEW slot, Len(slot) = n \/ k \in Unindexed,
           NEW page, SoundPage(k, page, slot, size),
           NEW d \in 1..n, NEW ptr, Reached(k, vs, first, n, page, d, ptr)
    PROVE  LET cell == DeltaCell(id, vs[first], vs[first + d])
               q    == WithCell(page, ptr, cell)
           IN  /\ SoundPage(k, q, slot, size) /\ q.next = page.next
               /\ Reached(k, vs, first, n, q, d + 1, ptr + Written(cell))
               /\ ptr \in 1..(size - 1) /\ ptr + Written(cell) \in 0..size
<1>. DEFINE cell == DeltaCell(id, vs[first], vs[first + d])
            q    == WithCell(page, ptr, cell)
            e    == d - 1
<1>0. /\ first \in 1..Len(vs) /\ n \in Nat /\ first + n <= Len(vs) /\ size \in Nat
      /\ d \in 0..n /\ e \in 0..n /\ n \in 0..n /\ first + d \in 1..Len(vs) /\ d \in Nat /\ e \in Nat
  BY DEF Counted
<1>1. /\ vs[first] \in Strings /\ vs[first + d] \in Strings
      /\ Len(vs[first + d]) < StringRange /\ Len(Delta(vs[first], vs[first + d])) \in Nat
  <2>1. Len(vs[first + d]) < StringRange
    BY <1>0 DEF Short
  <2>. QED  BY <1>0, <2>1, DeltaSize
<1>. DEFINE len == Len(Delta(vs[first], vs[first + d]))
<1>2. /\ cell \in Cells /\ Written(cell) = DeltaHeader + len /\ cell.size = len
  <2>1. \A r \in Strings : \A v \in Strings :
           LET made == DeltaCell(id, r, v)
           IN  /\ made \in Cells /\ Written(made) = DeltaHeader + Len(Delta(r, v))
               /\ Len(v) < StringRange => made.size = Len(Delta(r, v))
    BY DeltaCellProperties
  <2>. QED  BY <1>1, <2>1
<1>3. /\ Room(k, vs, first, n, 0) = IndexBytes(k, 0) + FullHeader + Len(vs[first])
      /\ Room(k, vs, first, n, d) = Room(k, vs, first, n, e) + SlotSize(k) + DeltaHeader + len
      /\ Room(k, vs, first, n, d) + SlotSize(k) * (n - d) <= Room(k, vs, first, n, n)
      /\ Room(k, vs, first, n, 0) + SlotSize(k) * e <= Room(k, vs, first, n, e)
      /\ Len(vs[first]) \in Nat
      /\ Room(k, vs, first, n, 0) \in Nat /\ Room(k, vs, first, n, d) \in Nat
      /\ Room(k, vs, first, n, e) \in Nat /\ Room(k, vs, first, n, n) \in Nat
  <2>1. 0 \in 0..n /\ d # 0
    BY <1>0
  <2>. QED  BY <1>0, <2>1, RoomGrows
<1>. DEFINE all == Room(k, vs, first, n, n)
            upto == Room(k, vs, first, n, d)
            before == Room(k, vs, first, n, e)
<1>4. all + EndHeader <= size
  <2>1. IF k \in DynamicKinds THEN all + EndHeader = size ELSE all + EndHeader <= size
    BY DEF Counted
  <2>. HIDE DEF all
  <2>. QED  BY <1>0, <1>3, <2>1 DEF EndHeader, all
<1>5. /\ SlotSize(k) \in Nat /\ IndexBytes(k, n) \in Nat /\ IndexBytes(k, 0) \in Nat
      /\ IndexBytes(k, e) \in Nat
      /\ IndexBytes(k, n) = IndexBytes(k, 0) + SlotSize(k) * n
      /\ IndexBytes(k, e) = IndexBytes(k, 0) + SlotSize(k) * e
      /\ IndexBytes(k, d) = IndexBytes(k, 0) + SlotSize(k) * d
  BY <1>0, IndexGrows
<1>. DEFINE se == SlotSize(k) * e
            sn == SlotSize(k) * (n - d)
<1>6. se \in Nat /\ sn \in Nat
  <2>1. e \in Nat /\ n - d \in Nat
    BY <1>0
  <2>. HIDE DEF e
  <2>2. SlotSize(k) = 0 \/ SlotSize(k) = 2
    BY DEF SlotSize, OffsetSize
  <2>. QED  BY <2>1, <2>2
<1>7. ptr \in Nat /\ ptr + IndexBytes(k, e) = before
  BY DEF Reached
<1>8. IndexBytes(k, n) = IndexBytes(k, e) + SlotSize(k) + sn
  BY <1>0 DEF IndexBytes, SlotSize, OffsetSize, IndexHeader
<1>9. IndexBytes(k, d) = IndexBytes(k, e) + SlotSize(k)
  BY <1>0 DEF IndexBytes, SlotSize, OffsetSize, IndexHeader
<1>10. upto + sn <= all /\ upto = before + SlotSize(k) + DeltaHeader + len
  BY <1>3
<1>11. before >= IndexBytes(k, 0) + FullHeader + Len(vs[first]) + se
  BY <1>3
<1>12. IndexBytes(k, e) = IndexBytes(k, 0) + se
  BY <1>5
<1>13. /\ all \in Nat /\ upto \in Nat /\ before \in Nat /\ Len(vs[first]) \in Nat /\ len \in Nat
       /\ SlotSize(k) \in Nat /\ IndexBytes(k, n) \in Nat /\ IndexBytes(k, 0) \in Nat
       /\ IndexBytes(k, e) \in Nat
  BY <1>1, <1>3, <1>5
<1>. HIDE DEF all, upto, before, se, sn, len, cell, e, q
<1>14. IndexBytes(k, n) + ptr + Written(cell) + EndHeader <= size
  <2>1. Written(cell) = DeltaHeader + len
    BY <1>2
  <2>2. upto = before + SlotSize(k) + 13 + len
    BY <1>10 DEF DeltaHeader
  <2>3. Written(cell) = 13 + len
    BY <2>1 DEF DeltaHeader
  <2>4. ptr + IndexBytes(k, e) = before /\ ptr \in Nat
    BY <1>7
  <2>5. IndexBytes(k, e) \in Nat /\ SlotSize(k) \in Nat /\ len \in Nat /\ before \in Nat
    BY <1>13
  <2>6. IndexBytes(k, n) + ptr + Written(cell) = upto + sn
    <3>1. IndexBytes(k, n) = IndexBytes(k, e) + SlotSize(k) + sn
      BY <1>8
    <3>2. sn \in Nat
      BY <1>6
    <3>3. IndexBytes(k, n) + ptr = before + SlotSize(k) + sn
      BY <2>4, <2>5, <3>1, <3>2
    <3>4. before + SlotSize(k) + sn + 13 + len = upto + sn
      BY <2>2, <2>5, <3>2
    <3>5. before + SlotSize(k) + sn \in Nat
      BY <2>5, <3>2
    <3>6. (before + SlotSize(k) + sn) + Written(cell) = before + SlotSize(k) + sn + 13 + len
      BY <2>3, <2>5, <3>5
    <3>. QED  BY <3>3, <3>4, <3>6
  <2>7. upto \in Nat /\ size \in Nat /\ sn \in Nat /\ all \in Nat
    BY <1>0, <1>6, <1>13
  <2>8. upto + sn <= all /\ all + 1 <= size /\ EndHeader = 1
    BY <1>4, <1>10 DEF EndHeader
  <2>. QED  BY <2>6, <2>7, <2>8
<1>15. ptr \in 1..(size - 1) /\ ptr + Written(cell) \in 0..size
  <2>1. ptr >= 1
    BY <1>6, <1>7, <1>11, <1>12, <1>13 DEF FullHeader
  <2>2. ptr <= size - 1 /\ ptr + Written(cell) \in 0..size
    BY <1>0, <1>2, <1>7, <1>13, <1>14, SMTT(30) DEF EndHeader, DeltaHeader
  <2>. QED  BY <1>0, <1>7, <2>1, <2>2
<1>16. ptr + Written(cell) + IndexBytes(k, d) = upto /\ ptr + Written(cell) \in Nat
  <2>1. Written(cell) = DeltaHeader + len
    BY <1>2
  <2>2. upto = before + SlotSize(k) + 13 + len
    BY <1>10 DEF DeltaHeader
  <2>3. Written(cell) = 13 + len
    BY <2>1 DEF DeltaHeader
  <2>4. IndexBytes(k, d) = IndexBytes(k, e) + SlotSize(k)
    BY <1>9
  <2>5. ptr + IndexBytes(k, e) = before /\ ptr \in Nat
    BY <1>7
  <2>6. IndexBytes(k, e) \in Nat /\ SlotSize(k) \in Nat /\ len \in Nat /\ before \in Nat
    BY <1>13
  <2>. QED  BY <2>2, <2>3, <2>4, <2>5, <2>6, SMTT(30)
<1>17. CellFits(k, Len(slot), ptr, cell, size)
  <2>1. cell.size < StringRange
    <3>1. PrefixLength(vs[first], vs[first + d]) \in Nat
      BY <1>1, PrefixLengthProperties
    <3>2. len = Len(vs[first + d]) - PrefixLength(vs[first], vs[first + d])
      BY <1>1, DeltaRestores DEF len
    <3>3. Len(vs[first + d]) \in Nat /\ StringRange \in Nat
      BY <1>1, StringRangeAssumption DEF Strings
    <3>. QED  BY <1>1, <1>2, <1>13, <3>1, <3>2, <3>3
  <2>2. IndexBytes(k, Len(slot)) = IndexBytes(k, n)
    BY DEF IndexBytes
  <2>. QED  BY <1>14, <2>1, <2>2 DEF CellFits
<1>18. /\ SoundPage(k, q, slot, size) /\ q.next = page.next
       /\ DOMAIN q.cells = (DOMAIN page.cells) \union {ptr}
       /\ \A o \in DOMAIN page.cells : o # ptr => q.cells[o] = page.cells[o]
  BY <1>2, <1>7, <1>17, CellSound DEF q
<1>19. 0 \in DOMAIN q.cells /\ q.cells[0].str = vs[first]
  <2>1. 0 # ptr
    BY <1>15
  <2>. QED  BY <1>18, <2>1 DEF Reached
<1>20. (d + 1) - 1 = d
  BY <1>0
<1>21. Reached(k, vs, first, n, q, d + 1, ptr + Written(cell))
  BY <1>16, <1>19, <1>20 DEF Reached, upto
<1>. QED  BY <1>15, <1>18, <1>21 DEF q, cell

\* Behind the last one is the end header.
LEMMA EndReached ==
    ASSUME NEW k, NEW vs, NEW first, NEW n, NEW size, Counted(k, vs, first, n, size),
           NEW slot, Len(slot) = n \/ k \in Unindexed,
           NEW page, NEW ptr, Reached(k, vs, first, n, page, n + 1, ptr)
    PROVE  EndFits(k, Len(slot), ptr, size)
<1>1. n \in Nat /\ (n + 1) - 1 = n
  BY DEF Counted
<1>2. ptr + IndexBytes(k, n) = Room(k, vs, first, n, n) /\ ptr \in Nat
  BY <1>1 DEF Reached
<1>3. IndexBytes(k, Len(slot)) = IndexBytes(k, n) /\ IndexBytes(k, n) \in Nat
  BY <1>1 DEF IndexBytes, IndexHeader, OffsetSize
<1>4. IndexBytes(k, Len(slot)) + ptr = Room(k, vs, first, n, n)
  BY <1>2, <1>3
<1>. QED  BY <1>4 DEF EndFits, Counted

-----------------------------------------------------------------------------
(* The invariant of the loaders.                                           *)

\* The lengths of strings and the offsets on a page fit in 16 bits, and the
\* values of a multi page fit on one: its first value is written unchecked.
FitsWidths ==
    /\ PageSize <= OffsetRange
    /\ \A vs \in Inputs : Short(vs)
    /\ "multi" \in Kinds =>
          \A vs \in Inputs : \A i \in 1..Len(vs) : FullHeader + Len(vs[i]) <= EndOfPage

Busy == pc \in {"loop", "open", "callback", "indexed"}

\* The first value of the current page.
First == IF deltaNumber = 0 THEN pos
         ELSE IF pc = "loop" THEN pos - deltaNumber ELSE pos - deltaNumber + 1

PagesInv == AllSound(kind, pages, slots, sizes, Len(pages))

LoaderTypes ==
    /\ kind \in Kinds
    /\ values \in Seq(Strings) /\ Short(values)
    /\ kind = "multi" => \A i \in 1..Len(values) : FullHeader + Len(values[i]) <= EndOfPage
    /\ pos \in 1..(Len(values) + 1)
    /\ current \in 0..Len(pages)
    /\ dataPtr \in Nat /\ (current # Null => dataPtr <= sizes[current])
    /\ numberOfDeltas \in Nat /\ deltaNumber \in Nat
    /\ kind # "multi" => deltaNumber <= numberOfDeltas + 1
    /\ valuePtr.off \in Nat
    /\ pending.page \in 0..Len(pages) /\ pending.offset \in 0..(OffsetRange - 1)
    /\ pc \in {"ready", "loop", "open", "callback", "indexed", "overrun",
               "threw", "terminated", "aborted"}
    /\ values = <<>> => pages = <<>> /\ current = Null /\ pos = 1

\* Of a multi page the next delta refers to a value that is on it.
MultiInv ==
    /\ deltaNumber # 0
    /\ valuePtr.off \in DOMAIN pages[current].cells
    /\ dataPtr + EndHeader <= PageSize

\* Of the others the values were counted: these and no others are written.
CountedInv ==
    /\ Counted(kind, values, First, numberOfDeltas, sizes[current])
    /\ Len(slots[current]) = numberOfDeltas \/ kind \in Unindexed
    /\ deltaNumber # 0 => Reached(kind, values, First, numberOfDeltas, pages[current],
                                  deltaNumber, dataPtr)

StepInv ==
    /\ pc \in {"open", "callback", "indexed"} => current # Null /\ pos <= Len(values)
    /\ pc = "open" => deltaNumber = 0 /\ kind # "multi"
    /\ pc = "loop" /\ current # Null => deltaNumber # 0
    /\ Busy /\ current # Null => IF kind = "multi" THEN MultiInv ELSE CountedInv

LoaderInv == PagesInv /\ LoaderTypes /\ StepInv

LEMMA InvImplies ==
    ASSUME LoaderInv
    PROVE  TypeOK /\ WritesStayInPage
<1>1. /\ Len(pages) \in Nat /\ Len(slots) = Len(pages) /\ Len(sizes) = Len(pages)
      /\ \A p \in 1..Len(pages) : SoundPage(kind, pages[p], slots[p], sizes[p]) /\ pages[p].next <= Len(pages)
  BY DEF LoaderInv, PagesInv, AllSound, IsSequence
<1>2. TypeOK
  <2>1. \A p \in 1..Len(slots) : \A e \in 1..Entries(p) :
          slots[p][e] \in (1..sizes[p]) \union {Unwritten}
    BY <1>1 DEF SoundPage, Entries
  <2>2. ASSUME NEW p \in 1..Len(pages)
        PROVE  /\ pages[p].next \in 0..Len(pages)
               /\ \A o \in DOMAIN pages[p].cells : pages[p].cells[o].size \in 0..(StringRange - 1)
    <3>1. IsPage(pages[p]) /\ pages[p].next <= Len(pages)
      BY <1>1 DEF SoundPage
    <3>2. pages[p].next \in Nat
      BY <3>1 DEF IsPage
    <3>3. ASSUME NEW o \in DOMAIN pages[p].cells
          PROVE  pages[p].cells[o].size \in 0..(StringRange - 1)
      <4>1. pages[p].cells[o].size \in Nat
        BY <3>1 DEF IsPage, Cells
      <4>2. pages[p].cells[o].size < StringRange
        BY <1>1 DEF SoundPage, CellFits
      <4>. QED  BY <4>1, <4>2, StringRangeAssumption
    <3>. QED  BY <1>1, <3>1, <3>2, <3>3
  <2>3. current # Null => dataPtr \in 0..sizes[current]
    <3>. SUFFICES ASSUME current # Null PROVE dataPtr \in 0..sizes[current]
      OBVIOUS
    <3>1. current \in 1..Len(pages)
      BY <1>1 DEF LoaderInv, LoaderTypes, Null
    <3>2. sizes[current] \in Nat
      BY <1>1, <3>1 DEF SoundPage, IsSize
    <3>. QED  BY <3>2 DEF LoaderInv, LoaderTypes
  <2>4. kind # "multi" => deltaNumber \in 0..(numberOfDeltas + 1)
    BY DEF LoaderInv, LoaderTypes
  <2>. QED  BY <1>1, <2>1, <2>2, <2>3, <2>4 DEF TypeOK, LoaderInv, LoaderTypes
<1>3. ASSUME NEW p \in 1..Len(pages)
      PROVE  LET start == IF kind \in {"dynamic", "multi"} THEN 0 ELSE IndexHeader + OffsetSize * Entries(p)
                 end == start + pages[p].end + EndHeader
             IN  /\ \A o \in DOMAIN pages[p].cells :
                       start + o + Written(pages[p].cells[o]) + EndHeader <= sizes[p]
                 /\ pages[p].end # Unwritten => IF Dynamic THEN end = sizes[p] ELSE end <= sizes[p]
  <2>1. SoundPage(kind, pages[p], slots[p], sizes[p])
    BY <1>1
  <2>. QED  BY <2>1 DEF SoundPage, CellFits, EndFits, IndexBytes, Entries, Dynamic, DynamicKinds, Unindexed
<1>4. WritesStayInPage
  BY <1>3 DEF WritesStayInPage
<1>. QED  BY <1>2, <1>4

LEMMA InitInv ==
    ASSUME Init
    PROVE  LoaderInv
<1>1. AllSound(kind, <<>>, <<>>, <<>>, 0)
  BY DEF AllSound, IsSequence
<1>2. Len(<<>>) = 0 /\ <<>> \in Seq(Strings)
  OBVIOUS
<1>. QED
  BY <1>1, <1>2, OffsetRangeAssumption
  DEF Init, LoaderInit, LoaderInv, PagesInv, LoaderTypes, StepInv, Busy, Short, NoPointer,
      NoCallback, Null

\* Nothing but the position and the program counter changes.
LEMMA Kept ==
    ASSUME LoaderInv,
           UNCHANGED <<pages, kind, slots, sizes, values, current, dataPtr, deltaNumber,
                       numberOfDeltas, valuePtr, pending>>,
           pos' \in 1..(Len(values) + 1), values = <<>> => pos' = 1,
           pc' \in {"ready", "loop", "open", "callback", "indexed", "overrun",
                    "threw", "terminated", "aborted"},
           pc' \in {"open", "callback", "indexed"} => current # Null /\ pos' <= Len(values),
           pc' = "open" => deltaNumber = 0 /\ kind # "multi",
           pc' = "loop" /\ current # Null => deltaNumber # 0,
           Busy' /\ current # Null => Busy /\ First' = First
    PROVE  LoaderInv'
<1>1. PagesInv' /\ LoaderTypes'
  BY DEF LoaderInv, PagesInv, LoaderTypes
<1>2. Busy' /\ current' # Null => IF kind' = "multi" THEN MultiInv' ELSE CountedInv'
  <2>. SUFFICES ASSUME Busy', current # Null
                PROVE  IF kind = "multi" THEN MultiInv' ELSE CountedInv'
    OBVIOUS
  <2>1. First' = First /\ IF kind = "multi" THEN MultiInv ELSE CountedInv
    BY DEF LoaderInv, StepInv
  <2>2. CASE kind = "multi"
    BY <2>1, <2>2 DEF MultiInv
  <2>3. CASE kind # "multi"
    BY <2>1, <2>3 DEF CountedInv
  <2>. QED  BY <2>2, <2>3
<1>3. StepInv'
  BY <1>2 DEF StepInv
<1>. QED  BY <1>1, <1>3 DEF LoaderInv

LEMMA InvBulkInsert ==
    ASSUME FitsWidths, LoaderInv, NEW vs \in Inputs, BulkInsert(vs)
    PROVE  LoaderInv'
<1>1. /\ pc = "ready" /\ values = <<>> /\ values' = vs /\ pc' = "loop"
      /\ UNCHANGED <<pages, kind, slots, sizes, pos, current, dataPtr, deltaNumber,
                     numberOfDeltas, valuePtr, pending>>
  BY DEF BulkInsert, Load
<1>2. pages = <<>> /\ current = Null /\ pos = 1
  BY <1>1 DEF LoaderInv, LoaderTypes
<1>3. vs \in Seq(Strings) /\ Len(vs) \in Nat /\ Short(vs)
  BY InputsAssumption DEF Strings, FitsWidths
<1>4. kind = "multi" => \A i \in 1..Len(vs) : FullHeader + Len(vs[i]) <= EndOfPage
  BY DEF FitsWidths, LoaderInv, LoaderTypes
<1>5. PagesInv'
  BY <1>1 DEF LoaderInv, PagesInv
<1>6. LoaderTypes'
  BY <1>1, <1>2, <1>3, <1>4 DEF LoaderInv, LoaderTypes
<1>7. StepInv'
  BY <1>1, <1>2 DEF StepInv
<1>. QED  BY <1>5, <1>6, <1>7 DEF LoaderInv

\* What holds of the page that is complete.
LEMMA CurrentComplete ==
    ASSUME LoaderInv, Busy, current # Null, kind # "multi", deltaNumber = numberOfDeltas + 1
    PROVE  /\ current \in 1..Len(pages)
           /\ EndFits(kind, Len(slots[current]), dataPtr, sizes[current])
<1>1. current \in 1..Len(pages)
  <2>1. Len(pages) \in Nat
    BY DEF LoaderInv, PagesInv, AllSound, IsSequence
  <2>. QED  BY <2>1 DEF LoaderInv, LoaderTypes, Null
<1>2. CountedInv /\ deltaNumber # 0
  <2>1. numberOfDeltas \in Nat
    BY DEF LoaderInv, LoaderTypes
  <2>. QED  BY <2>1 DEF LoaderInv, StepInv
<1>3. /\ Counted(kind, values, First, numberOfDeltas, sizes[current])
      /\ Len(slots[current]) = numberOfDeltas \/ kind \in Unindexed
      /\ Reached(kind, values, First, numberOfDeltas, pages[current], numberOfDeltas + 1, dataPtr)
  BY <1>2 DEF CountedInv
<1>. QED  BY <1>1, <1>3, EndReached

\* Finishing the current page and linking a new one to it.
LEMMA LinkedAndNew ==
    ASSUME LoaderInv,
           current # Null => EndFits(kind, Len(slots[current]), dataPtr, sizes[current]),
           NEW slot, Reserved(slot), kind \notin DynamicKinds
    PROVE  OneMore(kind, PagesAndNew, Append(slots, slot), Append(sizes, PageSize), Len(pages) + 1,
                   pages, slot, PageSize)
<1>. DEFINE ps == IF current = Null THEN pages
                  ELSE [pages EXCEPT ![current] = Finished(@, dataPtr, Len(pages) + 1)]
            b == Len(pages) + 1
<1>1. AllSound(kind, pages, slots, sizes, Len(pages)) /\ Len(pages) \in Nat /\ b \in Nat
  BY DEF LoaderInv, PagesInv, AllSound, IsSequence
<1>2. AllSound(kind, pages, slots, sizes, b)
  <2>1. \A p \in 1..Len(pages) : pages[p].next \in Nat /\ pages[p].next <= Len(pages)
    BY <1>1 DEF AllSound, SoundPage, IsPage
  <2>2. \A p \in 1..Len(pages) : pages[p].next <= b
    BY <1>1, <2>1
  <2>. QED  BY <1>1, <2>2 DEF AllSound
<1>3. AllSound(kind, ps, slots, sizes, b) /\ Len(ps) = Len(pages)
  <2>1. CASE current = Null
    BY <1>2, <2>1
  <2>2. CASE current # Null
    <3>1. current \in 1..Len(pages) /\ dataPtr \in Nat
      BY <1>1, <2>2 DEF LoaderInv, LoaderTypes, Null
    <3>. DEFINE page == Finished(pages[current], dataPtr, b)
    <3>. HIDE DEF b
    <3>2. SoundPage(kind, pages[current], slots[current], sizes[current])
      BY <1>1, <3>1 DEF AllSound
    <3>3. SoundPage(kind, page, slots[current], sizes[current]) /\ page.next = b
      <4>1. EndFits(kind, Len(slots[current]), dataPtr, sizes[current])
        BY <2>2
      <4>. QED  BY <1>1, <3>1, <3>2, <4>1, FinishedSound
    <3>. HIDE DEF page
    <3>4. page.next <= b
      BY <1>1, <3>3
    <3>5. ps = [pages EXCEPT ![current] = page]
      BY <2>2 DEF page, b
    <3>. HIDE DEF ps
    <3>6. AllSound(kind, ps, slots, sizes, b) /\ Replaced(ps, pages, current, page)
      BY <1>2, <3>1, <3>3, <3>4, <3>5, PageReplaced
    <3>. QED  BY <3>6 DEF Replaced
  <2>. QED  BY <2>1, <2>2
<1>. HIDE DEF ps
<1>4. PagesAndNew = Append(ps, EmptyPage)
  BY DEF PagesAndNew, ps
<1>5. IsSize(kind, PageSize)
  BY IndexedAssumption DEF IsSize
<1>. HIDE DEF b
<1>6. OneMore(kind, Append(ps, EmptyPage), Append(slots, slot), Append(sizes, PageSize), b,
              ps, slot, PageSize)
  BY <1>1, <1>3, <1>5, PageAdded
<1>. QED  BY <1>3, <1>4, <1>6 DEF OneMore, b

\* The number of deltas that fit is in range, and they fit.
LEMMA Fitting ==
    ASSUME LoaderInv, kind \in {"slotted", "bottomup"}, pos <= Len(values),
           RoomFor(0) <= EndOfPage
    PROVE  /\ Counted(kind, values, pos, DeltasThatFit, PageSize)
           /\ DeltasThatFit = 0 \/ pos + DeltasThatFit < Len(values)
<1>0. /\ pos \in 1..Len(values) /\ Len(values) \in Nat /\ values \in Seq(Strings) /\ Short(values)
      /\ PageSize \in Nat
  BY IndexedAssumption DEF LoaderInv, LoaderTypes
<1>. DEFINE Fits == {0} \union { n \in 1..(Len(values) - pos - 1) : RoomFor(n) <= EndOfPage }
<1>1. \A n \in Fits : n \in Nat /\ pos + n <= Len(values) /\ RoomFor(n) <= EndOfPage
  BY <1>0
<1>2. DeltasThatFit \in Fits
  <2>. DEFINE Least == { m \in Nat : Len(values) - m \in Fits }
  <2>1. Len(values) - 0 = Len(values)
    BY <1>0
  <2>2. Len(values) \in Least
    BY <1>0
  <2>3. PICK m \in Least : \A j \in Least : m <= j
    <3>1. Least \in SUBSET Nat /\ Least # {}
      BY <2>2
    <3>. HIDE DEF Least
    <3>. QED  BY <3>1, LeastElement
  <2>4. \A n \in Fits : n \in Nat /\ Len(values) - n \in Least
    BY <1>0, <1>1
  <2>5. Len(values) - m \in Fits /\ m \in Nat
    BY <2>3
  <2>. HIDE DEF Fits, Least
  <2>6. \A n \in Fits : Len(values) - m >= n
    BY <1>0, <2>3, <2>4, <2>5
  <2>7. Max(Fits) \in Fits
    BY <2>5, <2>6 DEF Max
  <2>. QED  BY <2>7 DEF DeltasThatFit, Fits
<1>. DEFINE n == DeltasThatFit
<1>3. n \in Nat /\ pos + n <= Len(values) /\ RoomFor(n) <= EndOfPage
  BY <1>1, <1>2
<1>7. n = 0 \/ pos + n < Len(values)
  <2>. HIDE DEF n
  <2>. QED  BY <1>0, <1>2 DEF n
<1>. HIDE DEF Fits, n
<1>4. RoomFor(n) = Room(kind, values, pos, n, n)
  <2>1. \A i \in 1..n : DeltaLength(values[pos], values[pos + i]) = Len(Delta(values[pos], values[pos + i]))
    <3>1. \A i \in 1..n : pos + i \in 1..Len(values)
      BY <1>0, <1>3
    <3>. QED  BY <1>0, <3>1, DeltaSize
  <2>2. SlotSize(kind) = OffsetSize /\ IndexBytes(kind, 0) = IndexHeader
    BY DEF SlotSize, IndexBytes, Unindexed, IndexHeader, OffsetSize
  <2>3. [i \in 1..n |-> OffsetSize + DeltaHeader + DeltaLength(values[pos], values[pos + i])]
          = DeltaSizes(kind, values, pos, n)
    BY <2>1, <2>2 DEF DeltaSizes
  <2>. QED  BY <2>2, <2>3 DEF RoomFor, Room
<1>5. Room(kind, values, pos, n, n) \in Nat
  <2>1. n \in 0..n
    BY <1>3
  <2>. QED  BY <1>0, <1>3, <2>1, RoomGrows
<1>6. Room(kind, values, pos, n, n) + EndHeader <= PageSize
  BY <1>0, <1>3, <1>4, <1>5 DEF EndOfPage, EndHeader
<1>. QED  BY <1>0, <1>3, <1>6, <1>7 DEF Counted, DynamicKinds, n

LEMMA ReservedIndex ==
    /\ Reserved(<<>>) /\ Len(<<>>) = 0
    /\ \A n \in Nat : /\ Reserved([i \in 1..n |-> Unwritten])
                      /\ Len([i \in 1..n |-> Unwritten]) = n
BY DEF Reserved, IsSequence

LEMMA FirstFits ==
    ASSUME LoaderInv, pos <= Len(values)
    PROVE  /\ RoomFor(0) \in Nat /\ EndOfPage \in Int
           /\ RoomFor(0) = IndexHeader + FullHeader + Len(values[pos])
<1>1. pos \in 1..Len(values) /\ values \in Seq(Strings)
  BY DEF LoaderInv, LoaderTypes
<1>2. Len(values[pos]) \in Nat
  BY <1>1 DEF Strings
<1>. DEFINE front == IndexHeader + FullHeader + Len(values[pos])
            deltas == [k \in 1..0 |-> OffsetSize + DeltaHeader + DeltaLength(values[pos], values[pos + k])]
<1>3. front \in Nat /\ Bytes(deltas, 0)
  BY <1>2 DEF IndexHeader, FullHeader, Bytes
<1>4. RoomFor(0) = Total(front, deltas, 0)
  BY DEF RoomFor
<1>. HIDE DEF front, deltas
<1>5. Total(front, deltas, 0) = front
  BY <1>3, Totals
<1>6. EndOfPage \in Int
  BY IndexedAssumption DEF EndOfPage, EndHeader
<1>. QED  BY <1>3, <1>4, <1>5, <1>6 DEF front

LEMMA InvOpenPage ==
    ASSUME LoaderInv, OpenPage
    PROVE  LoaderInv'
<1>. DEFINE slot == IF RoomFor(0) > EndOfPage THEN <<>>
                    ELSE [i \in 1..DeltasThatFit |-> Unwritten]
            new == Len(pages) + 1
<1>1. /\ kind \in {"slotted", "bottomup"} /\ pc = "loop" /\ pos <= Len(values) /\ PageComplete
      /\ pages' = PagesAndNew /\ sizes' = Append(sizes, PageSize) /\ slots' = Append(slots, slot)
      /\ current' = new /\ dataPtr' = 0 /\ deltaNumber' = 0
      /\ UNCHANGED <<kind, values, pos, valuePtr>>
  BY DEF OpenPage, Looping
<1>2. \/ /\ RoomFor(0) > EndOfPage /\ pc' \in {"threw", "terminated"}
         /\ UNCHANGED <<numberOfDeltas, pending>>
      \/ /\ ~(RoomFor(0) > EndOfPage) /\ numberOfDeltas' = DeltasThatFit
         /\ \/ pc' = "callback" /\ pending'.page = current
                /\ pending'.offset = valuePtr.off % OffsetRange
            \/ pc' = "open" /\ UNCHANGED pending
  BY DEF OpenPage, Callback
<1>3. /\ Len(pages) \in Nat /\ new \in Nat /\ pos \in 1..Len(values) /\ values \in Seq(Strings)
      /\ Short(values) /\ numberOfDeltas \in Nat /\ PageSize \in Nat
      /\ current \in 0..Len(pages)
      /\ pending.page \in 0..Len(pages) /\ pending.offset \in 0..(OffsetRange - 1)
      /\ valuePtr.off \in Nat /\ kind \in Kinds /\ kind # "multi" /\ values # <<>>
      /\ kind \notin DynamicKinds
  BY <1>1, IndexedAssumption
 , SMTT(30) DEF LoaderInv, PagesInv, AllSound, IsSequence, LoaderTypes, DynamicKinds
<1>4. ~(RoomFor(0) > EndOfPage) =>
          Counted(kind, values, pos, DeltasThatFit, PageSize) /\ DeltasThatFit \in Nat
  BY <1>1, FirstFits, Fitting DEF Counted
<1>5. Reserved(slot) /\ (~(RoomFor(0) > EndOfPage) => Len(slot) = DeltasThatFit)
  BY <1>4, ReservedIndex
<1>. HIDE DEF slot
<1>6. current # Null => EndFits(kind, Len(slots[current]), dataPtr, sizes[current])
  BY <1>1, <1>3, CurrentComplete DEF PageComplete, Busy
<1>7. OneMore(kind, pages', slots', sizes', new, pages, slot, PageSize)
  BY <1>1, <1>3, <1>5, <1>6, LinkedAndNew
<1>. HIDE DEF new
<1>8. /\ Len(pages') = new /\ pages'[new] = EmptyPage /\ slots'[new] = slot /\ sizes'[new] = PageSize
      /\ AllSound(kind, pages', slots', sizes', new)
  BY <1>7 DEF OneMore, new
<1>9. PagesInv'
  BY <1>1, <1>8 DEF PagesInv
<1>10. valuePtr.off % OffsetRange \in 0..(OffsetRange - 1)
  BY <1>3, OffsetRangeAssumption
<1>11. /\ pending'.page \in 0..new /\ pending'.offset \in 0..(OffsetRange - 1)
       /\ numberOfDeltas' \in Nat
  <2>1. \A p \in 0..Len(pages) : p \in 0..new
    BY <1>3 DEF new
  <2>. QED  BY <1>2, <1>3, <1>4, <1>10, <2>1
<1>12. LoaderTypes'
  <2>1. current' \in 0..Len(pages') /\ dataPtr' <= sizes'[current'] /\ dataPtr' \in Nat
    BY <1>1, <1>3, <1>8
  <2>2. pc' \in {"threw", "terminated", "callback", "open"}
    BY <1>2
  <2>3. deltaNumber' \in Nat /\ deltaNumber' <= numberOfDeltas' + 1
    <3>1. deltaNumber' = 0
      BY <1>1
    <3>2. numberOfDeltas' \in Nat
      BY <1>11
    <3>3. 0 \in Nat /\ \A n \in Nat : 0 <= n + 1
      OBVIOUS
    <3>. QED  BY <3>1, <3>2, <3>3, Zenon
  <2>4. /\ kind' \in Kinds /\ values' \in Seq(Strings) /\ Short(values') /\ kind' # "multi"
        /\ pos' \in 1..(Len(values') + 1) /\ valuePtr'.off \in Nat /\ values' # <<>>
    BY <1>1, <1>3
  <2>5. /\ numberOfDeltas' \in Nat
        /\ pending'.page \in 0..Len(pages') /\ pending'.offset \in 0..(OffsetRange - 1)
    BY <1>8, <1>11
  <2>. QED  BY <2>1, <2>2, <2>3, <2>4, <2>5 DEF LoaderTypes
<1>13. StepInv'
  <2>1. CASE RoomFor(0) > EndOfPage
    BY <1>2, <2>1 DEF StepInv, Busy
  <2>2. CASE ~(RoomFor(0) > EndOfPage)
    <3>1. pc' \in {"callback", "open"} /\ numberOfDeltas' = DeltasThatFit
      BY <1>2, <2>2
    <3>2. First' = pos
      BY <1>1 DEF First
    <3>3. CountedInv'
      BY <1>1, <1>4, <1>5, <1>8, <2>2, <3>1, <3>2 DEF CountedInv
    <3>4. current' # Null
      BY <1>1, <1>3 DEF Null, new
    <3>. QED  BY <1>1, <1>3, <3>1, <3>3, <3>4 DEF StepInv
  <2>. QED  BY <2>1, <2>2
<1>. QED  BY <1>9, <1>12, <1>13 DEF LoaderInv

LEMMA InvWriteFull ==
    ASSUME LoaderInv, WriteFull
    PROVE  LoaderInv'
<1>. DEFINE cell == FullCell(pos, values[pos])
            page == WithCell(pages[current], 0, cell)
<1>1. /\ pc = "open" /\ pages' = [pages EXCEPT ![current] = page]
      /\ dataPtr' = Written(cell) /\ deltaNumber' = 1
      /\ UNCHANGED <<kind, slots, sizes, values, current, numberOfDeltas, valuePtr>>
  BY DEF WriteFull
<1>2. \/ pc' = "loop" /\ pos' = pos + 1 /\ UNCHANGED pending
      \/ /\ pc' = "callback" /\ UNCHANGED pos
         /\ pending'.page = current /\ pending'.offset = 0 % OffsetRange
  BY DEF WriteFull, Callback
<1>3. /\ current # Null /\ pos <= Len(values) /\ deltaNumber = 0 /\ kind # "multi" /\ First = pos
      /\ Counted(kind, values, pos, numberOfDeltas, sizes[current])
      /\ Len(slots[current]) = numberOfDeltas \/ kind \in Unindexed
  BY <1>1 DEF LoaderInv, StepInv, Busy, CountedInv, First
<1>4. /\ Len(pages) \in Nat /\ pos \in 1..Len(values) /\ pos \in Nat /\ values \in Seq(Strings)
      /\ Short(values) /\ numberOfDeltas \in Nat /\ current \in 1..Len(pages)
      /\ AllSound(kind, pages, slots, sizes, Len(pages))
  BY <1>3 DEF LoaderInv, PagesInv, AllSound, IsSequence, LoaderTypes, Null
<1>5. SoundPage(kind, pages[current], slots[current], sizes[current]) /\ pages[current].next <= Len(pages)
  BY <1>4 DEF AllSound
<1>6. /\ SoundPage(kind, page, slots[current], sizes[current]) /\ page.next = pages[current].next
      /\ Reached(kind, values, pos, numberOfDeltas, page, 1, Written(cell))
      /\ Written(cell) <= sizes[current]
  BY <1>3, <1>4, <1>5, FullReached
<1>. HIDE DEF page, cell
<1>7. page.next <= Len(pages)
  BY <1>5, <1>6
<1>8. AllSound(kind, pages', slots, sizes, Len(pages)) /\ Replaced(pages', pages, current, page)
  BY <1>1, <1>4, <1>6, <1>7, PageReplaced
<1>9. Len(pages') = Len(pages) /\ pages'[current] = page
  BY <1>8 DEF Replaced
<1>10. PagesInv'
  BY <1>1, <1>8, <1>9 DEF PagesInv
<1>11. 0 % OffsetRange \in 0..(OffsetRange - 1)
  BY OffsetRangeAssumption
<1>12. Written(cell) \in Nat
  BY <1>6 DEF Reached
<1>13. LoaderTypes'
  <2>1. pos' \in 1..(Len(values) + 1) /\ pc' \in {"loop", "callback"}
    BY <1>2, <1>4
  <2>2. pending'.page \in 0..Len(pages) /\ pending'.offset \in 0..(OffsetRange - 1)
    BY <1>2, <1>4, <1>11 DEF LoaderInv, LoaderTypes
  <2>3. values # <<>>
    BY <1>4
  <2>4. deltaNumber' \in Nat /\ deltaNumber' <= numberOfDeltas + 1
    BY <1>1, <1>4
  <2>. QED  BY <1>1, <1>6, <1>9, <1>12, <2>1, <2>2, <2>3, <2>4 DEF LoaderInv, LoaderTypes
<1>14. First' = pos
  BY <1>1, <1>2, <1>4 DEF First
<1>15. CountedInv'
  BY <1>1, <1>3, <1>6, <1>9, <1>14 DEF CountedInv
<1>16. StepInv'
  BY <1>1, <1>2, <1>3, <1>15 DEF StepInv
<1>. QED  BY <1>10, <1>13, <1>16 DEF LoaderInv

LEMMA NextSet ==
    ASSUME NEW k, NEW page, NEW slot, NEW size, SoundPage(k, page, slot, size), NEW next \in Nat
    PROVE  LET q == [page EXCEPT !.next = next]
           IN  SoundPage(k, q, slot, size) /\ q.next = next /\ q.cells = page.cells
<1>. DEFINE q == [page EXCEPT !.next = next]
<1>1. IsPage(q) /\ q.cells = page.cells /\ q.end = page.end /\ q.next = next
  BY DEF SoundPage, IsPage
<1>. HIDE DEF q
<1>. QED  BY <1>1 DEF SoundPage, q

\* The current page is finished, and linked to.
LEMMA CompletedSound ==
    ASSUME LoaderInv,
           current # Null => EndFits(kind, Len(slots[current]), dataPtr, sizes[current])
    PROVE  /\ AllSound(kind, Completed, slots, sizes, Len(pages))
           /\ Len(Completed) = Len(pages)
<1>1. AllSound(kind, pages, slots, sizes, Len(pages)) /\ Len(pages) \in Nat /\ current \in 0..Len(pages)
  BY DEF LoaderInv, PagesInv, AllSound, IsSequence, LoaderTypes
<1>2. /\ IsSequence(Completed) /\ Len(Completed) = Len(pages)
      /\ \A p \in 1..Len(pages) :
            Completed[p] = IF p = current THEN Finished(pages[p], dataPtr, pages[p].next)
                           ELSE IF p = current - 1 THEN [pages[p] EXCEPT !.next = current]
                           ELSE pages[p]
  BY <1>1 DEF Completed, IsSequence
<1>3. ASSUME NEW p \in 1..Len(pages)
      PROVE  SoundPage(kind, Completed[p], slots[p], sizes[p]) /\ Completed[p].next <= Len(pages)
  <2>1. SoundPage(kind, pages[p], slots[p], sizes[p]) /\ pages[p].next <= Len(pages)
    BY <1>1 DEF AllSound
  <2>2. CASE p = current
    <3>1. pages[p].next \in Nat
      BY <2>1 DEF SoundPage, IsPage
    <3>2. EndFits(kind, Len(slots[p]), dataPtr, sizes[p]) /\ dataPtr \in Nat
      BY <2>2 DEF Null, LoaderInv, LoaderTypes
    <3>. DEFINE q == Finished(pages[p], dataPtr, pages[p].next)
    <3>3. SoundPage(kind, q, slots[p], sizes[p]) /\ q.next = pages[p].next
      BY <2>1, <3>1, <3>2, FinishedSound
    <3>4. Completed[p] = q
      BY <1>2, <2>2
    <3>. HIDE DEF q
    <3>. QED  BY <2>1, <3>3, <3>4
  <2>3. CASE p # current /\ p = current - 1
    <3>. DEFINE q == [pages[p] EXCEPT !.next = current]
    <3>1. current \in Nat /\ current <= Len(pages)
      BY <1>1
    <3>2. SoundPage(kind, q, slots[p], sizes[p]) /\ q.next = current
      BY <2>1, <3>1, NextSet
    <3>3. Completed[p] = q
      BY <1>2, <2>3
    <3>. HIDE DEF q
    <3>. QED  BY <3>1, <3>2, <3>3
  <2>4. CASE p # current /\ p # current - 1
    BY <1>2, <2>1, <2>4
  <2>. QED  BY <2>2, <2>3, <2>4
<1>. QED  BY <1>1, <1>2, <1>3 DEF AllSound

LEMMA BlockBehind ==
    ASSUME LoaderInv, pos <= Len(values)
    PROVE  Block \in 0..(Len(values) - pos)
<1>1. pos \in Nat /\ Len(values) \in Nat /\ 0 \in Behind /\ Len(values) - pos \in Nat
  BY DEF LoaderInv, LoaderTypes, Behind
<1>2. FindBlock(FirstChar(values[pos])) \in Behind
  BY <1>1, FindBlockMeans
<1>3. FindBlock(FirstChar(values[pos])) \in 0..(Len(values) - pos)
  BY <1>2 DEF Behind
<1>4. Len(values) - pos \in 0..(Len(values) - pos)
  BY <1>1
<1>. QED  BY <1>3, <1>4 DEF Block

\* getPageSize is exact.
LEMMA BlockCounted ==
    ASSUME LoaderInv, kind \in DynamicKinds, pos <= Len(values)
    PROVE  Counted(kind, values, pos, Block, BlockSize(Block)) /\ BlockSize(Block) \in Nat
<1>0. /\ pos \in 1..Len(values) /\ Len(values) \in Nat /\ values \in Seq(Strings) /\ Short(values)
  BY DEF LoaderInv, LoaderTypes
<1>. DEFINE n == Block
<1>1. n \in Nat /\ pos + n <= Len(values)
  BY <1>0, BlockBehind
<1>. HIDE DEF n
<1>2. BlockSize(n) = Room(kind, values, pos, n, n) + EndHeader
  <2>1. /\ (IF kind = "dynamic" THEN 0 ELSE IndexHeader) = IndexBytes(kind, 0)
        /\ (IF kind = "dynamic" THEN 0 ELSE OffsetSize) = SlotSize(kind)
    BY DEF DynamicKinds, IndexBytes, SlotSize, Unindexed, IndexHeader, OffsetSize
  <2>2. [i \in 1..n |-> (IF kind = "dynamic" THEN 0 ELSE OffsetSize) + DeltaHeader
                         + Len(Delta(values[pos], values[pos + i]))] = DeltaSizes(kind, values, pos, n)
    BY <2>1 DEF DeltaSizes
  <2>. QED  BY <2>1, <2>2 DEF BlockSize, Room
<1>3. Room(kind, values, pos, n, n) \in Nat
  <2>1. n \in 0..n
    BY <1>1
  <2>. QED  BY <1>0, <1>1, <2>1, RoomGrows
<1>4. BlockSize(n) \in Nat
  BY <1>2, <1>3 DEF EndHeader
<1>. QED  BY <1>0, <1>1, <1>2, <1>4 DEF Counted, n

LEMMA InvOpenBlock ==
    ASSUME LoaderInv, OpenBlock
    PROVE  LoaderInv'
<1>. DEFINE slot == [i \in 1..(IF kind = "dynamic" THEN 0 ELSE Block) |-> Unwritten]
            new == Len(pages) + 1
            size == BlockSize(Block)
<1>1. /\ kind \in DynamicKinds /\ pc = "loop" /\ pos <= Len(values) /\ PageComplete
      /\ pages' = Append(Completed, EmptyPage) /\ sizes' = Append(sizes, size)
      /\ slots' = Append(slots, slot)
      /\ current' = new /\ dataPtr' = 0 /\ deltaNumber' = 0 /\ numberOfDeltas' = Block
      /\ UNCHANGED <<kind, values, pos, valuePtr>>
  BY DEF OpenBlock, Looping, Dynamic, DynamicKinds
<1>2. \/ pc' = "callback" /\ pending'.page = new /\ pending'.offset = 0 % OffsetRange
      \/ pc' = "terminated" /\ UNCHANGED pending
  BY DEF OpenBlock, Callback
<1>3. /\ Len(pages) \in Nat /\ new \in Nat /\ pos \in 1..Len(values) /\ values \in Seq(Strings)
      /\ Short(values) /\ current \in 0..Len(pages)
      /\ pending.page \in 0..Len(pages) /\ pending.offset \in 0..(OffsetRange - 1)
      /\ valuePtr.off \in Nat /\ kind \in Kinds /\ kind # "multi" /\ values # <<>>
      /\ AllSound(kind, pages, slots, sizes, Len(pages))
  <2>1. AllSound(kind, pages, slots, sizes, Len(pages)) /\ Len(pages) \in Nat
    BY DEF LoaderInv, PagesInv, AllSound, IsSequence
  <2>2. pos \in 1..Len(values) /\ values # <<>>
    BY <1>1 DEF LoaderInv, LoaderTypes
  <2>3. kind # "multi"
    BY <1>1 DEF DynamicKinds
  <2>. QED  BY <2>1, <2>2, <2>3 DEF LoaderInv, LoaderTypes
<1>4. Counted(kind, values, pos, Block, size) /\ size \in Nat /\ Block \in Nat
  BY <1>1, BlockCounted DEF Counted
<1>5. Reserved(slot) /\ (Len(slot) = Block \/ kind \in Unindexed)
  <2>1. CASE kind = "dynamic"
    <3>1. kind \in Unindexed /\ 0 \in Nat
      BY <2>1 DEF Unindexed
    <3>2. Reserved([i \in 1..0 |-> Unwritten])
      BY <3>1, ReservedIndex
    <3>. QED  BY <2>1, <3>1, <3>2
  <2>2. CASE kind # "dynamic"
    BY <1>4, <2>2, ReservedIndex
  <2>. QED  BY <2>1, <2>2
<1>. HIDE DEF slot, size
<1>6. current # Null => EndFits(kind, Len(slots[current]), dataPtr, sizes[current])
  BY <1>1, <1>3, CurrentComplete DEF PageComplete, Busy
<1>7. AllSound(kind, Completed, slots, sizes, Len(pages)) /\ Len(Completed) = Len(pages)
  BY <1>6, CompletedSound
<1>8. AllSound(kind, Completed, slots, sizes, new) /\ IsSize(kind, size)
  <2>1. \A p \in 1..Len(Completed) : Completed[p].next \in Nat /\ Completed[p].next <= Len(pages)
    BY <1>7 DEF AllSound, SoundPage, IsPage
  <2>2. \A p \in 1..Len(Completed) : Completed[p].next <= new
    BY <1>3, <2>1
  <2>. QED  BY <1>1, <1>4, <1>7, <2>2 DEF AllSound, IsSize
<1>9. OneMore(kind, pages', slots', sizes', new, Completed, slot, size)
  <2>. HIDE DEF new
  <2>1. OneMore(kind, Append(Completed, EmptyPage), Append(slots, slot), Append(sizes, size),
                new, Completed, slot, size)
    BY <1>3, <1>5, <1>8, PageAdded
  <2>. QED  BY <1>1, <2>1
<1>10. /\ Len(pages') = new /\ pages'[new] = EmptyPage /\ slots'[new] = slot /\ sizes'[new] = size
       /\ AllSound(kind, pages', slots', sizes', new)
  BY <1>7, <1>9 DEF OneMore
<1>11. PagesInv'
  BY <1>1, <1>10 DEF PagesInv
<1>12. 0 % OffsetRange \in 0..(OffsetRange - 1)
  BY OffsetRangeAssumption
<1>13. pending'.page \in 0..new /\ pending'.offset \in 0..(OffsetRange - 1)
  <2>1. new \in 0..new /\ \A p \in 0..Len(pages) : p \in 0..new
    BY <1>3
  <2>. QED  BY <1>2, <1>3, <1>12, <2>1
<1>14. LoaderTypes'
  <2>1. current' \in 0..Len(pages') /\ dataPtr' <= sizes'[current'] /\ dataPtr' \in Nat
    BY <1>1, <1>3, <1>4, <1>10
  <2>2. pc' \in {"callback", "terminated"}
    BY <1>2
  <2>3. numberOfDeltas' \in Nat /\ deltaNumber' \in Nat /\ deltaNumber' <= numberOfDeltas' + 1
    <3>1. deltaNumber' = 0 /\ numberOfDeltas' \in Nat
      BY <1>1, <1>4
    <3>2. 0 \in Nat /\ \A n \in Nat : 0 <= n + 1
      OBVIOUS
    <3>. QED  BY <3>1, <3>2, Zenon
  <2>4. /\ kind' \in Kinds /\ values' \in Seq(Strings) /\ Short(values') /\ kind' # "multi"
        /\ pos' \in 1..(Len(values') + 1) /\ valuePtr'.off \in Nat /\ values' # <<>>
    BY <1>1, <1>3
  <2>5. pending'.page \in 0..Len(pages') /\ pending'.offset \in 0..(OffsetRange - 1)
    BY <1>10, <1>13
  <2>. QED  BY <2>1, <2>2, <2>3, <2>4, <2>5 DEF LoaderTypes
<1>15. First' = pos
  BY <1>1 DEF First
<1>16. CountedInv'
  BY <1>1, <1>4, <1>5, <1>10, <1>15 DEF CountedInv
<1>17. StepInv'
  <2>1. current' # Null /\ pos' <= Len(values') /\ kind' # "multi"
    BY <1>1, <1>3 DEF Null
  <2>. QED  BY <1>2, <1>16, <2>1 DEF StepInv
<1>. QED  BY <1>11, <1>14, <1>17 DEF LoaderInv

LEMMA InvWriteDelta ==
    ASSUME FitsWidths, LoaderInv, WriteDelta
    PROVE  LoaderInv'
<1>. DEFINE cell == DeltaCell(pos, Ref, values[pos])
            page == WithCell(pages[current], dataPtr, cell)
            n    == numberOfDeltas
            d    == deltaNumber
            at   == pos - d
<1>1. /\ kind # "multi" /\ pc = "loop" /\ pos <= Len(values) /\ current # Null /\ d # n + 1
      /\ pages' = [pages EXCEPT ![current] = page]
      /\ slots' = IF kind = "dynamic" \/ ~OffsetFits THEN slots
                  ELSE [slots EXCEPT ![current][d] = dataPtr % OffsetRange]
      /\ dataPtr' = dataPtr + Written(cell) /\ deltaNumber' = d + 1
      /\ valuePtr' = [page |-> current, off |-> dataPtr]
      /\ UNCHANGED <<kind, sizes, values, pos, current, numberOfDeltas>>
  BY DEF WriteDelta, Looping, PageComplete
<1>2. \/ pc' = "terminated" /\ UNCHANGED pending
      \/ /\ pc' = "callback" /\ pending'.page = current
         /\ \/ pending'.offset = dataPtr % OffsetRange
            \/ pending'.offset = 0 % OffsetRange
  BY DEF WriteDelta, Callback
<1>3. /\ Counted(kind, values, at, n, sizes[current])
      /\ Len(slots[current]) = n \/ kind \in Unindexed
      /\ Reached(kind, values, at, n, pages[current], d, dataPtr)
      /\ d # 0
  BY <1>1 DEF LoaderInv, StepInv, Busy, CountedInv, First
<1>4. /\ Len(pages) \in Nat /\ pos \in 1..Len(values) /\ values \in Seq(Strings) /\ Short(values)
      /\ n \in Nat /\ d \in Nat /\ d <= n + 1 /\ current \in 1..Len(pages) /\ dataPtr \in Nat
      /\ AllSound(kind, pages, slots, sizes, Len(pages)) /\ kind \in Kinds
  BY <1>1 DEF LoaderInv, PagesInv, AllSound, IsSequence, LoaderTypes, Null
<1>5. d \in 1..n /\ at + d = pos /\ pos \in Nat
  <2>1. at \in 1..Len(values)
    BY <1>3 DEF Counted
  <2>. QED  BY <1>1, <1>3, <1>4, <2>1
<1>6. SoundPage(kind, pages[current], slots[current], sizes[current]) /\ pages[current].next <= Len(pages)
  BY <1>4 DEF AllSound
<1>7. cell = DeltaCell(pos, values[at], values[at + d])
  BY <1>3, <1>5 DEF Ref, Reached
<1>8. /\ SoundPage(kind, page, slots[current], sizes[current]) /\ page.next = pages[current].next
      /\ Reached(kind, values, at, n, page, d + 1, dataPtr + Written(cell))
      /\ dataPtr \in 1..(sizes[current] - 1) /\ dataPtr + Written(cell) \in 0..sizes[current]
  <2>. DEFINE made == DeltaCell(pos, values[at], values[at + d])
              q    == WithCell(pages[current], dataPtr, made)
  <2>1. /\ SoundPage(kind, q, slots[current], sizes[current]) /\ q.next = pages[current].next
        /\ Reached(kind, values, at, n, q, d + 1, dataPtr + Written(made))
        /\ dataPtr \in 1..(sizes[current] - 1) /\ dataPtr + Written(made) \in 0..sizes[current]
    <3>1. /\ Counted(kind, values, at, n, sizes[current])
          /\ Len(slots[current]) = n \/ kind \in Unindexed
          /\ Reached(kind, values, at, n, pages[current], d, dataPtr)
          /\ SoundPage(kind, pages[current], slots[current], sizes[current])
          /\ values \in Seq(Strings) /\ Short(values) /\ pos \in Nat /\ d \in 1..n
      BY <1>3, <1>4, <1>5, <1>6
    <3>. HIDE DEF at, n, d, cell, page
    <3>. QED  BY ONLY <3>1, DeltaReached
  <2>. HIDE DEF q
  <2>2. cell = made /\ page = q
    BY <1>7 DEF q
  <2>. QED  BY <2>1, <2>2
<1>. HIDE DEF page, cell, at
<1>9. AllSound(kind, pages', slots, sizes, Len(pages)) /\ Replaced(pages', pages, current, page)
  <2>1. page.next <= Len(pages)
    BY <1>6, <1>8
  <2>. QED  BY <1>1, <1>4, <1>8, <2>1, PageReplaced
<1>10. Len(pages') = Len(pages) /\ pages'[current] = page
  BY <1>9 DEF Replaced
<1>11. /\ AllSound(kind, pages', slots', sizes, Len(pages))
       /\ Len(slots'[current]) = Len(slots[current])
  <2>1. CASE kind = "dynamic" \/ ~OffsetFits
    BY <1>1, <1>9, <2>1
  <2>2. CASE ~(kind = "dynamic" \/ ~OffsetFits)
    <3>1. sizes[current] \in Nat /\ (kind \notin DynamicKinds => sizes[current] = PageSize)
      BY <1>6 DEF SoundPage, IsSize
    <3>2. dataPtr < OffsetRange
      <4>1. CASE kind = "dynamicslotted"
        BY <2>2, <4>1 DEF OffsetFits
      <4>2. CASE kind # "dynamicslotted"
        <5>1. kind \notin DynamicKinds
          BY <2>2, <4>2 DEF DynamicKinds
        <5>2. sizes[current] = PageSize /\ PageSize <= OffsetRange /\ PageSize \in Nat
          BY <3>1, <5>1, IndexedAssumption DEF FitsWidths
        <5>. QED  BY <1>8, <5>2, OffsetRangeAssumption
      <4>. QED  BY <4>1, <4>2
    <3>3. dataPtr % OffsetRange = dataPtr
      BY <1>4, <3>2, OffsetRangeAssumption, Small
    <3>4. dataPtr \in 1..sizes[current]
      BY <1>8, <3>1
    <3>5. d \in 1..Len(slots[current])
      <4>1. kind \notin Unindexed
        BY <1>1, <2>2 DEF Unindexed
      <4>. QED  BY <1>3, <1>5, <4>1
    <3>6. slots' = [slots EXCEPT ![current][d] = dataPtr]
      BY <1>1, <2>2, <3>3
    <3>7. current \in 1..Len(pages')
      BY <1>4, <1>10
    <3>. HIDE DEF d
    <3>8. /\ AllSound(kind, pages', slots', sizes, Len(pages))
          /\ Len(slots'[current]) = Len(slots[current])
      <4>. DEFINE ps == pages'
                  ts == slots'
      <4>1. /\ AllSound(kind, ps, slots, sizes, Len(pages)) /\ current \in 1..Len(ps)
            /\ d \in 1..Len(slots[current]) /\ dataPtr \in 1..sizes[current]
            /\ SlotSet(ts, slots, current, d, dataPtr)
        BY <1>9, <3>4, <3>5, <3>6, <3>7 DEF SlotSet
      <4>. HIDE DEF ps, ts
      <4>2. /\ AllSound(kind, ps, ts, sizes, Len(pages))
            /\ Len(ts[current]) = Len(slots[current])
        BY ONLY <4>1, SlotWritten
      <4>. QED  BY <4>2 DEF ps, ts
    <3>. QED  BY <3>8
  <2>. QED  BY <2>1, <2>2
<1>12. PagesInv'
  BY <1>1, <1>10, <1>11 DEF PagesInv
<1>13. pending'.page \in 0..Len(pages) /\ pending'.offset \in 0..(OffsetRange - 1)
  <2>1. dataPtr % OffsetRange \in 0..(OffsetRange - 1) /\ 0 % OffsetRange \in 0..(OffsetRange - 1)
    BY <1>4, OffsetRangeAssumption
  <2>2. pending.page \in 0..Len(pages) /\ pending.offset \in 0..(OffsetRange - 1)
    BY DEF LoaderInv, LoaderTypes
  <2>. QED  BY <1>2, <1>4, <2>1, <2>2
<1>14. LoaderTypes'
  <2>1. dataPtr' \in Nat /\ dataPtr' <= sizes'[current']
    BY <1>1, <1>8
  <2>2. deltaNumber' \in Nat /\ deltaNumber' <= numberOfDeltas' + 1
    BY <1>1, <1>4, <1>5
  <2>3. values # <<>> /\ pc' \in {"callback", "terminated"} /\ valuePtr'.off \in Nat
    BY <1>1, <1>2, <1>4
  <2>. QED  BY <1>1, <1>10, <1>13, <2>1, <2>2, <2>3 DEF LoaderInv, LoaderTypes
<1>15. pc' = "callback" => First' = at
  BY <1>1, <1>4 DEF First, at
<1>16. pc' = "callback" => CountedInv'
  BY <1>1, <1>3, <1>8, <1>10, <1>11, <1>15 DEF CountedInv
<1>17. StepInv'
  BY <1>1, <1>2, <1>16 DEF StepInv, Busy
<1>. QED  BY <1>12, <1>14, <1>17 DEF LoaderInv

\* The bytes on a multi page are those up to its end.
LEMMA MultiPage ==
    ASSUME LoaderInv, kind = "multi", NEW n, NEW ptr \in Nat
    PROVE  /\ EndFits(kind, n, ptr, PageSize) <=> ptr + EndHeader <= PageSize
           /\ \A cell \in Cells : CellFits(kind, n, ptr, cell, PageSize) <=>
                 cell.size < StringRange /\ ptr + Written(cell) + EndHeader <= PageSize
<1>1. IndexBytes(kind, n) = 0 /\ kind \notin DynamicKinds
  BY DEF IndexBytes, Unindexed, DynamicKinds
<1>2. 0 + ptr = ptr
  OBVIOUS
<1>. QED  BY <1>1, <1>2 DEF EndFits, CellFits

\* What a multi page takes when the current one, if any, has room for it, and
\* where: in pages ps, with indexes ss and sizes zs.
Taken(ps, ss, zs, page, off, cell) ==
    /\ AllSound(kind, ps, ss, zs, Len(ps)) /\ page \in 1..Len(ps) /\ zs[page] = PageSize
    /\ off \in Nat /\ cell \in Cells /\ cell.size < StringRange
    /\ off + Written(cell) + EndHeader <= PageSize /\ Written(cell) \in Nat

LEMMA FullTaken ==
    ASSUME NEW v \in Strings, Len(v) < StringRange, NEW off \in Nat, NEW id \in Nat,
           off + (FullHeader + Len(v)) <= EndOfPage
    PROVE  LET cell == FullCell(id, v)
           IN  /\ cell \in Cells /\ cell.size < StringRange /\ Written(cell) \in Nat
               /\ off + Written(cell) + EndHeader <= PageSize /\ cell.kind = "full"
<1>. DEFINE cell == FullCell(id, v)
<1>1. /\ cell \in Cells /\ cell.kind = "full" /\ Written(cell) = FullHeader + Len(v)
      /\ cell.size = Len(v)
  BY FullCellProperties
<1>2. Len(v) \in Nat
  BY DEF Strings
<1>. HIDE DEF cell
<1>3. Written(cell) \in Nat /\ off + Written(cell) + EndHeader <= PageSize
  BY <1>1, <1>2, IndexedAssumption DEF EndOfPage, EndHeader, FullHeader
<1>. QED  BY <1>1, <1>3 DEF cell

LEMMA DeltaTaken ==
    ASSUME NEW r \in Strings, NEW v \in Strings, Len(v) < StringRange, NEW off \in Nat, NEW id \in Nat,
           off + (DeltaHeader + DeltaLength(r, v)) <= EndOfPage
    PROVE  LET cell == DeltaCell(id, r, v)
           IN  /\ cell \in Cells /\ cell.size < StringRange /\ Written(cell) \in Nat
               /\ off + Written(cell) + EndHeader <= PageSize /\ cell.kind = "delta"
<1>. DEFINE cell == DeltaCell(id, r, v)
            len  == Len(Delta(r, v))
<1>1. /\ cell \in Cells /\ cell.kind = "delta" /\ Written(cell) = DeltaHeader + len
      /\ cell.size = DeltaLength(r, v) /\ cell.size = len
  BY DeltaCellProperties
<1>2. len \in Nat /\ len <= Len(v) /\ Len(v) \in Nat
  <2>1. /\ Delta(r, v) \in Strings /\ len = Len(v) - PrefixLength(r, v)
        /\ PrefixLength(r, v) \in Nat /\ PrefixLength(r, v) <= Len(v)
    BY DeltaRestores, PrefixLengthProperties
  <2>2. Len(v) \in Nat
    BY DEF Strings
  <2>. HIDE DEF len
  <2>. QED  BY <2>1, <2>2
<1>3. DeltaLength(r, v) = len
  BY <1>1
<1>. HIDE DEF cell, len
<1>4. cell.size < StringRange
  BY <1>1, <1>2, StringRangeAssumption
<1>5. Written(cell) \in Nat /\ off + Written(cell) + EndHeader <= PageSize
  BY <1>1, <1>2, <1>3, IndexedAssumption DEF EndOfPage, EndHeader, DeltaHeader
<1>. QED  BY <1>1, <1>4, <1>5 DEF cell

\* The value is the first one of a new page.
LEMMA MultiOpens ==
    ASSUME LoaderInv, kind = "multi", Looping
    PROVE  /\ Taken(PagesAndNew, Append(slots, <<>>), Append(sizes, PageSize), Len(pages) + 1, 0,
                    FullCell(pos, values[pos]))
           /\ Len(PagesAndNew) = Len(pages) + 1
<1>. DEFINE new == Len(pages) + 1
            cell == FullCell(pos, values[pos])
<1>1. /\ Len(pages) \in Nat /\ pos \in 1..Len(values) /\ pos \in Nat /\ values[pos] \in Strings
      /\ Len(values[pos]) < StringRange /\ FullHeader + Len(values[pos]) <= EndOfPage
      /\ dataPtr \in Nat /\ current \in 0..Len(pages)
  BY DEF Looping, LoaderInv, PagesInv, AllSound, IsSequence, LoaderTypes, Short
<1>2. current # Null => EndFits(kind, Len(slots[current]), dataPtr, sizes[current])
  <2>. SUFFICES ASSUME current # Null PROVE EndFits(kind, Len(slots[current]), dataPtr, sizes[current])
    OBVIOUS
  <2>1. dataPtr + EndHeader <= PageSize
    BY DEF LoaderInv, StepInv, MultiInv, Busy, Looping
  <2>2. current \in 1..Len(pages)
    BY <1>1 DEF Null
  <2>3. SoundPage(kind, pages[current], slots[current], sizes[current])
    BY <2>2 DEF LoaderInv, PagesInv, AllSound
  <2>4. sizes[current] = PageSize
    BY <2>3 DEF SoundPage, IsSize, DynamicKinds
  <2>. QED  BY <1>1, <2>1, <2>4, MultiPage
<1>3. OneMore(kind, PagesAndNew, Append(slots, <<>>), Append(sizes, PageSize), new,
              pages, <<>>, PageSize)
  <2>1. kind \notin DynamicKinds /\ Reserved(<<>>)
    BY ReservedIndex DEF DynamicKinds
  <2>. HIDE DEF new
  <2>2. OneMore(kind, PagesAndNew, Append(slots, <<>>), Append(sizes, PageSize), Len(pages) + 1,
                pages, <<>>, PageSize)
    BY <1>2, <2>1, LinkedAndNew
  <2>. QED  BY <2>2 DEF new
<1>4. 0 + (FullHeader + Len(values[pos])) <= EndOfPage /\ 0 \in Nat
  <2>1. Len(values[pos]) \in Nat
    BY <1>1 DEF Strings
  <2>. QED  BY <1>1, <2>1 DEF FullHeader
<1>5. /\ cell \in Cells /\ cell.size < StringRange /\ Written(cell) \in Nat
      /\ 0 + Written(cell) + EndHeader <= PageSize
  <2>. HIDE DEF cell
  <2>1. LET made == FullCell(pos, values[pos])
        IN  /\ made \in Cells /\ made.size < StringRange /\ Written(made) \in Nat
            /\ 0 + Written(made) + EndHeader <= PageSize /\ made.kind = "full"
    BY <1>1, <1>4, FullTaken
  <2>. QED  BY <2>1 DEF cell
<1>6. new \in 1..new
  BY <1>1
<1>. HIDE DEF new, cell
<1>7. Len(PagesAndNew) = new
  BY <1>3 DEF OneMore, new
<1>. QED  BY <1>3, <1>4, <1>5, <1>6, <1>7 DEF Taken, OneMore, new, cell

\* The value goes on the current page.
LEMMA MultiFits ==
    ASSUME LoaderInv, kind = "multi", Looping, current # Null, ValueFits
    PROVE  /\ Taken(pages, slots, sizes, current, dataPtr,
                    IF IsFull THEN FullCell(pos, values[pos]) ELSE DeltaCell(pos, LastFull, values[pos]))
           /\ valuePtr.off \in DOMAIN pages[current].cells
<1>1. /\ Len(pages) \in Nat /\ pos \in 1..Len(values) /\ pos \in Nat /\ values[pos] \in Strings
      /\ Len(values[pos]) < StringRange /\ current \in 1..Len(pages) /\ dataPtr \in Nat
      /\ AllSound(kind, pages, slots, sizes, Len(pages))
  BY DEF Looping, LoaderInv, PagesInv, AllSound, IsSequence, LoaderTypes, Short, Null
<1>2. valuePtr.off \in DOMAIN pages[current].cells
  BY DEF LoaderInv, StepInv, MultiInv, Busy, Looping
<1>3. SoundPage(kind, pages[current], slots[current], sizes[current])
  BY <1>1 DEF AllSound
<1>4. sizes[current] = PageSize
  BY <1>3 DEF SoundPage, IsSize, DynamicKinds
<1>5. LastFull \in Strings
  BY <1>2, <1>3 DEF SoundPage, IsPage, Cells, LastFull, Strings
<1>6. CASE IsFull
  <2>1. dataPtr + (FullHeader + Len(values[pos])) <= EndOfPage
    BY <1>6 DEF ValueFits
  <2>2. LET cell == FullCell(pos, values[pos])
        IN  /\ cell \in Cells /\ cell.size < StringRange /\ Written(cell) \in Nat
            /\ dataPtr + Written(cell) + EndHeader <= PageSize /\ cell.kind = "full"
    BY <1>1, <2>1, FullTaken
  <2>. QED  BY <1>1, <1>2, <1>4, <1>6, <2>2 DEF Taken
<1>7. CASE ~IsFull
  <2>1. dataPtr + (DeltaHeader + DeltaLength(LastFull, values[pos])) <= EndOfPage
    BY <1>7 DEF ValueFits
  <2>2. LET cell == DeltaCell(pos, LastFull, values[pos])
        IN  /\ cell \in Cells /\ cell.size < StringRange /\ Written(cell) \in Nat
            /\ dataPtr + Written(cell) + EndHeader <= PageSize /\ cell.kind = "delta"
    BY <1>1, <1>5, <2>1, DeltaTaken
  <2>. QED  BY <1>1, <1>2, <1>4, <1>7, <2>2 DEF Taken
<1>. QED  BY <1>6, <1>7

CellPut(qs, ps, page, off, cell) == qs = [ps EXCEPT ![page] = WithCell(@, off, cell)]

\* A cell is written on a multi page that takes it.
LEMMA CellTaken ==
    ASSUME kind = "multi", NEW ps, NEW ss, NEW zs, NEW page, NEW off, NEW cell,
           LoaderInv, Taken(ps, ss, zs, page, off, cell),
           NEW qs, CellPut(qs, ps, page, off, cell)
    PROVE  /\ AllSound(kind, qs, ss, zs, Len(ps)) /\ Len(qs) = Len(ps)
           /\ DOMAIN qs[page].cells = (DOMAIN ps[page].cells) \union {off}
<1>. DEFINE q == WithCell(ps[page], off, cell)
<1>1. /\ AllSound(kind, ps, ss, zs, Len(ps)) /\ page \in 1..Len(ps) /\ zs[page] = PageSize
      /\ off \in Nat /\ cell \in Cells /\ cell.size < StringRange
      /\ off + Written(cell) + EndHeader <= PageSize
  BY DEF Taken
<1>2. SoundPage(kind, ps[page], ss[page], zs[page]) /\ ps[page].next <= Len(ps)
  BY <1>1 DEF AllSound
<1>3. CellFits(kind, Len(ss[page]), off, cell, zs[page])
  BY <1>1, MultiPage
<1>4. /\ SoundPage(kind, q, ss[page], zs[page]) /\ q.next = ps[page].next
      /\ DOMAIN q.cells = (DOMAIN ps[page].cells) \union {off}
  BY <1>1, <1>2, <1>3, CellSound
<1>5. qs = [ps EXCEPT ![page] = q]
  BY DEF CellPut
<1>. HIDE DEF q
<1>6. AllSound(kind, qs, ss, zs, Len(ps)) /\ Replaced(qs, ps, page, q)
  <2>1. q.next <= Len(ps)
    BY <1>2, <1>4
  <2>. QED  BY <1>1, <1>4, <1>5, <2>1, PageReplaced
<1>7. Len(qs) = Len(ps) /\ qs[page] = q
  BY <1>6 DEF Replaced
<1>. QED  BY <1>4, <1>6, <1>7

\* How a step of a multi page looks: the cell, and where it goes.
MultiStep(ps, ss, zs, page, off, cell, number) ==
    /\ pages' = [ps EXCEPT ![page] = WithCell(@, off, cell)]
    /\ sizes' = zs /\ slots' = ss
    /\ current' = page /\ dataPtr' = off + Written(cell) /\ deltaNumber' = number + 1
    /\ valuePtr' = IF cell.kind = "full" THEN [page |-> page, off |-> off] ELSE valuePtr
    /\ Callback(page, number, EncodeDeltaAndOffset(number % Frequency, valuePtr'.off), pos)
    /\ UNCHANGED <<kind, values, pos, numberOfDeltas>>

LEMMA MultiStepInv ==
    ASSUME LoaderInv, kind = "multi", Looping,
           NEW ps, NEW ss, NEW zs, NEW page, NEW off, NEW cell, NEW number \in Nat,
           Taken(ps, ss, zs, page, off, cell), Len(pages) <= Len(ps),
           cell.kind # "full" => valuePtr.off \in DOMAIN ps[page].cells,
           MultiStep(ps, ss, zs, page, off, cell, number)
    PROVE  LoaderInv'
<1>1. /\ pages' = [ps EXCEPT ![page] = WithCell(@, off, cell)]
      /\ sizes' = zs /\ slots' = ss
      /\ current' = page /\ dataPtr' = off + Written(cell) /\ deltaNumber' = number + 1
      /\ valuePtr' = IF cell.kind = "full" THEN [page |-> page, off |-> off] ELSE valuePtr
      /\ pending'.page = page /\ pc' = "callback"
      /\ pending'.offset = EncodeDeltaAndOffset(number % Frequency, valuePtr'.off) % OffsetRange
      /\ UNCHANGED <<kind, values, pos, numberOfDeltas>>
  BY DEF MultiStep, Callback
<1>2. /\ AllSound(kind, ps, ss, zs, Len(ps)) /\ page \in 1..Len(ps) /\ zs[page] = PageSize
      /\ off \in Nat /\ Written(cell) \in Nat
      /\ off + Written(cell) + EndHeader <= PageSize /\ Len(ps) \in Nat
  BY DEF Taken, AllSound, IsSequence
<1>3. /\ AllSound(kind, pages', ss, zs, Len(ps)) /\ Len(pages') = Len(ps)
      /\ DOMAIN pages'[page].cells = (DOMAIN ps[page].cells) \union {off}
  <2>. DEFINE qs == pages'
  <2>1. CellPut(qs, ps, page, off, cell)
    BY <1>1 DEF CellPut
  <2>. HIDE DEF qs
  <2>2. /\ AllSound(kind, qs, ss, zs, Len(ps)) /\ Len(qs) = Len(ps)
        /\ DOMAIN qs[page].cells = (DOMAIN ps[page].cells) \union {off}
    BY <2>1, CellTaken
  <2>. QED  BY <2>2 DEF qs
<1>4. valuePtr'.off \in DOMAIN pages'[page].cells /\ valuePtr'.off \in Nat
  <2>1. valuePtr.off \in Nat
    BY DEF LoaderInv, LoaderTypes
  <2>2. CASE cell.kind = "full"
    BY <1>1, <1>2, <1>3, <2>2
  <2>3. CASE cell.kind # "full"
    BY <1>1, <1>3, <2>1, <2>3
  <2>. QED  BY <2>2, <2>3
<1>5. PagesInv'
  BY <1>1, <1>3 DEF PagesInv
<1>6. pending'.offset \in 0..(OffsetRange - 1)
  <2>1. number % Frequency \in Nat
    BY IndexedAssumption
  <2>2. \A a \in Nat : \A b \in Nat : EncodeDeltaAndOffset(a, b) \in Nat
    BY OffsetRangeAssumption DEF EncodeDeltaAndOffset, DeltaNumbers
  <2>3. EncodeDeltaAndOffset(number % Frequency, valuePtr'.off) \in Nat
    BY <1>4, <2>1, <2>2
  <2>4. \A a \in Nat : a % OffsetRange \in 0..(OffsetRange - 1)
    BY OffsetRangeAssumption
  <2>. QED  BY <1>1, <2>3, <2>4
<1>7. dataPtr' \in Nat /\ dataPtr' + EndHeader <= PageSize /\ dataPtr' <= sizes'[current']
  <2>1. off + Written(cell) \in Nat /\ off + Written(cell) <= PageSize
    BY <1>2, IndexedAssumption DEF EndHeader
  <2>. QED  BY <1>1, <1>2, <2>1
<1>8. pos \in 1..Len(values) /\ values # <<>> /\ numberOfDeltas \in Nat
  BY DEF LoaderInv, LoaderTypes, Looping
<1>9. LoaderTypes'
  <2>1. /\ current' \in 0..Len(pages') /\ pending'.page \in 0..Len(pages')
        /\ deltaNumber' \in Nat
    BY <1>1, <1>2, <1>3
  <2>2. /\ kind' \in Kinds /\ values' \in Seq(Strings) /\ Short(values') /\ kind' = "multi"
        /\ \A i \in 1..Len(values') : FullHeader + Len(values'[i]) <= EndOfPage
        /\ pos' \in 1..(Len(values') + 1)
    BY <1>1 DEF LoaderInv, LoaderTypes
  <2>. QED  BY <1>1, <1>4, <1>6, <1>7, <1>8, <2>1, <2>2 DEF LoaderTypes
<1>10. deltaNumber' # 0 /\ current' # Null
  BY <1>1, <1>2 DEF Null
<1>11. StepInv'
  BY <1>1, <1>4, <1>7, <1>8, <1>10 DEF StepInv, MultiInv
<1>. QED  BY <1>5, <1>9, <1>11 DEF LoaderInv

\* The value that WriteMulti writes, on a new page or on the current one.
MultiValue(opens) ==
    \E page \in { IF opens THEN Len(pages) + 1 ELSE current },
       off \in { IF opens THEN 0 ELSE dataPtr }, number \in { IF opens THEN 0 ELSE deltaNumber },
       cell \in { IF opens \/ IsFull THEN FullCell(pos, values[pos])
                  ELSE DeltaCell(pos, LastFull, values[pos]) } :
       MultiStep(IF opens THEN PagesAndNew ELSE pages,
                 IF opens THEN Append(slots, <<>>) ELSE slots,
                 IF opens THEN Append(sizes, PageSize) ELSE sizes, page, off, cell, number)

LEMMA MultiWrites ==
    ASSUME WriteMulti
    PROVE  MultiValue(current = Null \/ ~ValueFits)
<1>1. UNCHANGED <<kind, values, pos, numberOfDeltas>>
  BY Zenon DEF WriteMulti
<1>2. PICK opens \in { current = Null \/ ~ValueFits } :
      \E page \in { IF opens THEN Len(pages) + 1 ELSE current },
         off \in { IF opens THEN 0 ELSE dataPtr }, number \in { IF opens THEN 0 ELSE deltaNumber },
         cell \in { IF opens \/ IsFull THEN FullCell(pos, values[pos])
                    ELSE DeltaCell(pos, LastFull, values[pos]) } :
         /\ pages' = [(IF opens THEN PagesAndNew ELSE pages) EXCEPT ![page] = WithCell(@, off, cell)]
         /\ sizes' = IF opens THEN Append(sizes, PageSize) ELSE sizes
         /\ slots' = IF opens THEN Append(slots, <<>>) ELSE slots
         /\ current' = page /\ dataPtr' = off + Written(cell) /\ deltaNumber' = number + 1
         /\ valuePtr' = IF cell.kind = "full" THEN [page |-> page, off |-> off] ELSE valuePtr
         /\ Callback(page, number, EncodeDeltaAndOffset(number % Frequency, valuePtr'.off), pos)
  BY Zenon DEF WriteMulti
<1>3. PICK page \in { IF opens THEN Len(pages) + 1 ELSE current },
           off \in { IF opens THEN 0 ELSE dataPtr }, number \in { IF opens THEN 0 ELSE deltaNumber },
           cell \in { IF opens \/ IsFull THEN FullCell(pos, values[pos])
                      ELSE DeltaCell(pos, LastFull, values[pos]) } :
         /\ pages' = [(IF opens THEN PagesAndNew ELSE pages) EXCEPT ![page] = WithCell(@, off, cell)]
         /\ sizes' = IF opens THEN Append(sizes, PageSize) ELSE sizes
         /\ slots' = IF opens THEN Append(slots, <<>>) ELSE slots
         /\ current' = page /\ dataPtr' = off + Written(cell) /\ deltaNumber' = number + 1
         /\ valuePtr' = IF cell.kind = "full" THEN [page |-> page, off |-> off] ELSE valuePtr
         /\ Callback(page, number, EncodeDeltaAndOffset(number % Frequency, valuePtr'.off), pos)
  BY <1>2, Zenon
<1>4. MultiStep(IF opens THEN PagesAndNew ELSE pages, IF opens THEN Append(slots, <<>>) ELSE slots,
                IF opens THEN Append(sizes, PageSize) ELSE sizes, page, off, cell, number)
  BY <1>1, <1>3 DEF MultiStep
<1>5. MultiValue(opens)
  BY <1>4, Zenon DEF MultiValue
<1>. QED  BY <1>5, Zenon

LEMMA InvWriteMulti ==
    ASSUME LoaderInv, WriteMulti
    PROVE  LoaderInv'
<1>1. kind = "multi" /\ Looping
  BY DEF WriteMulti
<1>2. CASE current = Null \/ ~ValueFits
  <2>1. MultiStep(PagesAndNew, Append(slots, <<>>), Append(sizes, PageSize), Len(pages) + 1, 0,
                  FullCell(pos, values[pos]), 0)
    <3>1. MultiValue(TRUE)
      <4>1. (current = Null \/ ~ValueFits) = TRUE
        BY <1>2
      <4>. QED  BY <4>1, MultiWrites, Zenon
    <3>. QED  BY <3>1, Zenon DEF MultiValue
  <2>2. /\ Taken(PagesAndNew, Append(slots, <<>>), Append(sizes, PageSize), Len(pages) + 1, 0,
                 FullCell(pos, values[pos]))
        /\ Len(PagesAndNew) = Len(pages) + 1
    BY <1>1, MultiOpens
  <2>3. Len(pages) <= Len(PagesAndNew) /\ 0 \in Nat
    <3>1. Len(pages) \in Nat
      BY DEF LoaderInv, PagesInv, AllSound, IsSequence
    <3>. QED  BY <2>2, <3>1
  <2>4. FullCell(pos, values[pos]).kind = "full"
    BY DEF FullCell
  <2>. DEFINE ps == PagesAndNew
              ss == Append(slots, <<>>)
              zs == Append(sizes, PageSize)
              page == Len(pages) + 1
              cell == FullCell(pos, values[pos])
  <2>5. /\ MultiStep(ps, ss, zs, page, 0, cell, 0) /\ Taken(ps, ss, zs, page, 0, cell)
        /\ Len(pages) <= Len(ps) /\ 0 \in Nat
        /\ cell.kind # "full" => valuePtr.off \in DOMAIN ps[page].cells
        /\ LoaderInv /\ kind = "multi" /\ Looping
    BY <1>1, <2>1, <2>2, <2>3, <2>4
  <2>. HIDE DEF ps, ss, zs, page, cell
  <2>. QED  BY ONLY <2>5, MultiStepInv
<1>3. CASE ~(current = Null \/ ~ValueFits)
  <2>. DEFINE cell == IF IsFull THEN FullCell(pos, values[pos]) ELSE DeltaCell(pos, LastFull, values[pos])
  <2>1. MultiStep(pages, slots, sizes, current, dataPtr, cell, deltaNumber)
    <3>1. MultiValue(FALSE)
      <4>1. (current = Null \/ ~ValueFits) = FALSE
        BY <1>3
      <4>. QED  BY <4>1, MultiWrites, Zenon
    <3>. QED  BY <3>1, Zenon DEF MultiValue
  <2>2. /\ Taken(pages, slots, sizes, current, dataPtr, cell)
        /\ valuePtr.off \in DOMAIN pages[current].cells
    BY <1>1, <1>3, MultiFits
  <2>. HIDE DEF cell
  <2>3. /\ MultiStep(pages, slots, sizes, current, dataPtr, cell, deltaNumber)
        /\ Taken(pages, slots, sizes, current, dataPtr, cell)
        /\ Len(pages) <= Len(pages) /\ deltaNumber \in Nat
        /\ cell.kind # "full" => valuePtr.off \in DOMAIN pages[current].cells
        /\ LoaderInv /\ kind = "multi" /\ Looping
    <3>1. Len(pages) \in Nat /\ deltaNumber \in Nat
      BY DEF LoaderInv, PagesInv, AllSound, IsSequence, LoaderTypes
    <3>2. Len(pages) <= Len(pages)
      BY <3>1
    <3>. QED  BY <1>1, <2>1, <2>2, <3>1, <3>2
  <2>. QED  BY ONLY <2>3, MultiStepInv
<1>. QED  BY <1>2, <1>3

LEMMA InvFinish ==
    ASSUME LoaderInv, Finish
    PROVE  LoaderInv'
<1>1. /\ pc = "loop" /\ pos > Len(values)
      /\ UNCHANGED <<kind, slots, sizes, values, pos, current, dataPtr, deltaNumber,
                     numberOfDeltas, valuePtr, pending>>
  BY DEF Finish
<1>2. CASE current = Null
  <2>1. pc' = "terminated" /\ UNCHANGED pages
    BY <1>2 DEF Finish
  <2>2. pos' \in 1..(Len(values) + 1) /\ (values = <<>> => pos' = 1)
    BY <1>1 DEF LoaderInv, LoaderTypes
  <2>. QED  BY <1>1, <1>2, <2>1, <2>2, Kept DEF Busy
<1>3. CASE current # Null
  <2>1. pc' = "ready" /\ pages' = Completed
    BY <1>3 DEF Finish
  <2>2. /\ Len(pages) \in Nat /\ current \in 1..Len(pages) /\ pos = Len(values) + 1
        /\ Len(values) \in Nat /\ deltaNumber \in Nat /\ numberOfDeltas \in Nat /\ dataPtr \in Nat
    BY <1>1, <1>3 DEF LoaderInv, PagesInv, AllSound, IsSequence, LoaderTypes, Null
  <2>3. EndFits(kind, Len(slots[current]), dataPtr, sizes[current])
    <3>1. CASE kind = "multi"
      <4>1. dataPtr + EndHeader <= PageSize
        BY <1>1, <1>3, <3>1 DEF LoaderInv, StepInv, MultiInv, Busy
      <4>2. SoundPage(kind, pages[current], slots[current], sizes[current])
        BY <2>2 DEF LoaderInv, PagesInv, AllSound
      <4>3. sizes[current] = PageSize
        BY <3>1, <4>2 DEF SoundPage, IsSize, DynamicKinds
      <4>. QED  BY <2>2, <3>1, <4>1, <4>3, MultiPage
    <3>2. CASE kind # "multi"
      <4>1. /\ First = pos - deltaNumber /\ First + numberOfDeltas <= Len(values)
            /\ deltaNumber <= numberOfDeltas + 1
        BY <1>1, <1>3, <3>2 DEF LoaderInv, LoaderTypes, StepInv, CountedInv, Counted, Busy, First
      <4>2. deltaNumber = numberOfDeltas + 1
        BY <2>2, <4>1
      <4>. QED  BY <1>1, <1>3, <3>2, <4>2, CurrentComplete DEF Busy
    <3>. QED  BY <3>1, <3>2
  <2>4. AllSound(kind, Completed, slots, sizes, Len(pages)) /\ Len(Completed) = Len(pages)
    BY <2>3, CompletedSound
  <2>5. PagesInv'
    BY <1>1, <2>1, <2>4 DEF PagesInv
  <2>6. LoaderTypes'
    <3>1. Len(pages') = Len(pages) /\ values # <<>>
      BY <1>3, <2>1, <2>4 DEF LoaderInv, LoaderTypes
    <3>. QED  BY <1>1, <2>1, <3>1 DEF LoaderInv, LoaderTypes
  <2>7. StepInv'
    BY <2>1 DEF StepInv, Busy
  <2>. QED  BY <2>5, <2>6, <2>7 DEF LoaderInv
<1>. QED  BY <1>2, <1>3

\* The callback returns.
LEMMA InvReturn ==
    ASSUME LoaderInv, pc \in {"callback", "indexed"}, Return,
           UNCHANGED <<pages, kind, slots, sizes, values, current, dataPtr, deltaNumber,
                       numberOfDeltas, valuePtr, pending>>
    PROVE  LoaderInv'
<1>1. /\ current # Null /\ pos \in 1..Len(values) /\ pos \in Nat /\ Len(values) \in Nat
      /\ deltaNumber \in Nat /\ values # <<>>
  BY DEF LoaderInv, StepInv, LoaderTypes
<1>2. deltaNumber = 0 => kind # "multi"
  BY <1>1 DEF LoaderInv, StepInv, MultiInv, Busy
<1>3. CASE deltaNumber = 0
  <2>1. pc' = "open" /\ UNCHANGED pos
    BY <1>3 DEF Return
  <2>2. First' = First
    BY <1>3, <2>1 DEF First
  <2>3. pos' \in 1..(Len(values) + 1) /\ pos' <= Len(values)
    BY <1>1, <2>1
  <2>. QED  BY <1>1, <1>2, <1>3, <2>1, <2>2, <2>3, Kept DEF Busy
<1>4. CASE deltaNumber # 0
  <2>1. pc' = "loop" /\ pos' = pos + 1
    BY <1>4 DEF Return
  <2>2. First' = First
    <3>1. First = pos - deltaNumber + 1 /\ First' = pos' - deltaNumber
      BY <1>4, <2>1 DEF First
    <3>. QED  BY <1>1, <2>1, <3>1
  <2>3. pos' \in 1..(Len(values) + 1)
    BY <1>1, <2>1
  <2>. QED  BY <1>1, <1>4, <2>1, <2>2, <2>3, Kept DEF Busy
<1>. QED  BY <1>3, <1>4

LEMMA InvInsertReverse ==
    ASSUME LoaderInv, InsertReverse
    PROVE  LoaderInv'
<1>1. /\ pc = "callback"
      /\ UNCHANGED <<pages, kind, slots, sizes, values, current, dataPtr, deltaNumber,
                     numberOfDeltas, valuePtr, pending>>
      /\ Return \/ (pc' \in {"indexed", "overrun"} /\ UNCHANGED pos)
  BY DEF InsertReverse
<1>2. CASE Return
  BY <1>1, <1>2, InvReturn
<1>3. CASE pc' \in {"indexed", "overrun"} /\ UNCHANGED pos
  <2>1. /\ current # Null /\ pos \in 1..Len(values) /\ pos' \in 1..(Len(values) + 1)
        /\ pos' <= Len(values) /\ values # <<>>
    BY <1>1, <1>3 DEF LoaderInv, StepInv, LoaderTypes
  <2>2. First' = First
    BY <1>1, <1>3 DEF First
  <2>. QED  BY <1>1, <1>3, <2>1, <2>2, Kept DEF Busy
<1>. QED  BY <1>1, <1>2, <1>3

LEMMA InvInsertId ==
    ASSUME LoaderInv, InsertId
    PROVE  LoaderInv'
BY InvReturn DEF InsertId

\* A lookup changes at most the program counter.
LEMMA InvLookup ==
    ASSUME LoaderInv, AtRest, pc' \in {pc, "aborted"},
           UNCHANGED <<pages, kind, slots, sizes, values, pos, current, dataPtr, deltaNumber,
                       numberOfDeltas, valuePtr, pending>>
    PROVE  LoaderInv'
<1>1. pc' \in {"ready", "threw", "aborted"}
  BY DEF AtRest
<1>2. pos' \in 1..(Len(values) + 1) /\ (values = <<>> => pos' = 1)
  BY DEF LoaderInv, LoaderTypes
<1>. QED  BY <1>1, <1>2, Kept DEF Busy

LEMMA LookupsOnlyRead ==
    ASSUME Lookup
    PROVE  /\ AtRest /\ pc' \in {pc, "aborted"}
           /\ UNCHANGED <<pages, kind, slots, sizes, values, pos, current, dataPtr, deltaNumber,
                          numberOfDeltas, valuePtr, pending, index, reverseIndex>>
<1>1. ASSUME NEW s \in Queries, LookupValue(s)
      PROVE  /\ AtRest /\ pc' \in {pc, "aborted"}
             /\ UNCHANGED <<pages, kind, slots, sizes, values, pos, current, dataPtr, deltaNumber,
                            numberOfDeltas, valuePtr, pending, index, reverseIndex>>
  BY <1>1 DEF LookupValue
<1>2. ASSUME NEW s \in PrefixQueries[kind], RangeLookup(s)
      PROVE  /\ AtRest /\ pc' \in {pc, "aborted"}
             /\ UNCHANGED <<pages, kind, slots, sizes, values, pos, current, dataPtr, deltaNumber,
                            numberOfDeltas, valuePtr, pending, index, reverseIndex>>
  BY <1>2 DEF RangeLookup
<1>3. ASSUME NEW i \in 0..MaxId, LookupId(i)
      PROVE  /\ AtRest /\ pc' \in {pc, "aborted"}
             /\ UNCHANGED <<pages, kind, slots, sizes, values, pos, current, dataPtr, deltaNumber,
                            numberOfDeltas, valuePtr, pending, index, reverseIndex>>
  BY <1>3 DEF LookupId
<1>. QED  BY <1>1, <1>2, <1>3 DEF Lookup

LEMMA InvStep ==
    ASSUME FitsWidths, LoaderInv, [Next]_vars
    PROVE  LoaderInv'
<1>1. ASSUME NEW vs \in Inputs, BulkInsert(vs) PROVE LoaderInv'
  BY <1>1, InvBulkInsert
<1>2. CASE WriteValue
  BY <1>2, InvOpenPage, InvOpenBlock, InvWriteFull, InvWriteDelta, InvWriteMulti DEF WriteValue
<1>3. CASE BulkInsertReturns
  BY <1>3, InvFinish DEF BulkInsertReturns
<1>4. CASE InsertReverse
  BY <1>4, InvInsertReverse
<1>5. CASE InsertId
  BY <1>5, InvInsertId
<1>6. CASE Lookup
  BY <1>6, LookupsOnlyRead, InvLookup
<1>7. CASE UNCHANGED vars
  BY <1>7 DEF vars, LoaderInv, PagesInv, LoaderTypes, StepInv, MultiInv, CountedInv, Busy, First
<1>. QED  BY <1>1, <1>2, <1>3, <1>4, <1>5, <1>6, <1>7 DEF Next, LoadStep

\* The loaders keep their invariant: what the first pass over the values of a
\* page counted (SlottedPage::Loader and BottomUpPage::Loader, or findBlock and
\* getPageSize of the dynamic loaders) is what is still to be written, and there
\* is room for it on the page.
THEOREM LoadersKeepInv ==
    ASSUME FitsWidths
    PROVE  Spec => []LoaderInv
<1>1. Init => LoaderInv
  BY InitInv
<1>2. LoaderInv /\ [Next]_vars => LoaderInv'
  BY InvStep
<1>. QED  BY <1>1, <1>2, PTL DEF Spec

\* Every variable of the loaders has its type; in particular an entry of a page's
\* index is never 0, and no length is cut to 16 bits.
THEOREM LoadersTypeCorrect ==
    ASSUME FitsWidths
    PROVE  Spec => []TypeOK
<1>1. LoaderInv => TypeOK
  BY InvImplies
<1>. QED  BY <1>1, LoadersKeepInv, PTL

\* No loader of a page with an index, of a page that grows or of a page with
\* several uncompressed values writes outside the bytes of its page; the room
\* that getPageSize asks for on a dynamic page is used to the last byte.
THEOREM LoadersWriteInPage ==
    ASSUME FitsWidths
    PROVE  Spec => []WritesStayInPage
<1>1. LoaderInv => WritesStayInPage
  BY InvImplies
<1>. QED  BY <1>1, LoadersKeepInv, PTL
=============================================================================
