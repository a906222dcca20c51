-------------------------- MODULE PageFormatProofs --------------------------
(***************************************************************************)
(* Lemmas about the operators of PageFormat and LeafEncoding: the length   *)
(* of a common prefix, that a delta restores the value it was made of, the *)
(* order of strings, pages and cells, ranges of values with their ids, and *)
(* what a leaf value gives back.                                           *)
(* Two lemmas say when a function defined by recursion exists.             *)
(***************************************************************************)
EXTENDS PageFormat, LeafEncoding, SequenceTheorems, WellFoundedInduction, TLAPS

Strings == Seq(Nat)

\* A non-empty set of naturals has a least element.
LEMMA LeastElement ==
    ASSUME NEW T \in SUBSET Nat, T # {}
    PROVE  \E n \in T : \A m \in T : n <= m
<1>1. PICK n \in T : \A m \in T : ~(<<m, n>> \in OpToRel(<, Nat))
  BY NatLessThanWellFounded, WFMin, Zenon
<1>2. \A m \in T : ~(m < n)
  BY <1>1 DEF OpToRel
<1>. QED  BY <1>2

\* A loop that starts with a and makes the d steps F, and stays in S.
Iterates(g, S, a, F, d) ==
    g \in [0..d -> S] /\ g[0] = a /\ \A n \in 1..d : g[n] = F[n][g[n-1]]

\* Such a loop exists: the recursive functions of the model are such loops.
LEMMA Iteration ==
    ASSUME NEW S, NEW a \in S, NEW F \in [Nat -> [S -> S]], NEW d \in Nat
    PROVE  \E g : Iterates(g, S, a, F, d)
<1>. USE DEF Iterates
<1>. DEFINE Loop(m, g) == g[0] = a /\ \A n \in 1..m : g[n] = F[n][g[n-1]]
            Bad == { m \in Nat : ~\E g \in [0..m -> S] : Loop(m, g) }
<1>1. SUFFICES ASSUME Bad # {}
               PROVE  FALSE
  OBVIOUS
<1>2. PICK m \in Bad : \A k \in Bad : m <= k
  BY <1>1, LeastElement
<1>3. m \in Nat /\ m # 0
  <2>. DEFINE g == [n \in 0..0 |-> a]
  <2>1. g \in [0..0 -> S] /\ g[0] = a
    OBVIOUS
  <2>2. Loop(0, g)
    BY <2>1
  <2>. QED  BY <2>1, <2>2
<1>4. m - 1 \in Nat /\ m - 1 \notin Bad
  <2>1. m - 1 \in Bad => m <= m - 1
    BY <1>2
  <2>. HIDE DEF Bad
  <2>. QED  BY <1>3, <2>1
<1>5. PICK g \in [0..(m-1) -> S] : Loop(m - 1, g)
  BY <1>4
<1>. DEFINE h == [n \in 0..m |-> IF n = m THEN F[m][g[m-1]] ELSE g[n]]
<1>6. F[m][g[m-1]] \in S
  <2>1. g[m-1] \in S
    BY <1>4
  <2>. QED  BY <1>3, <2>1
<1>7. h \in [0..m -> S]
  <2>1. \A n \in 0..m : n # m => n \in 0..(m-1)
    BY <1>3
  <2>. QED  BY <1>6, <2>1
<1>8. Loop(m, h)
  <2>1. h[0] = a
    BY <1>3, <1>5
  <2>. HIDE DEF Bad
  <2>2. ASSUME NEW n \in 1..m
        PROVE  h[n] = F[n][h[n-1]]
    <3>0. n - 1 \in 0..m /\ n - 1 # m /\ n \in 0..m
      BY <1>3
    <3>1. h[n-1] = g[n-1]
      BY <3>0
    <3>2. CASE n = m
      BY <3>0, <3>1, <3>2
    <3>3. CASE n # m
      <4>1. n \in 1..(m-1) /\ h[n] = g[n]
        BY <3>0, <3>3, <1>3
      <4>. QED  BY <3>1, <4>1, <1>5
    <3>. QED  BY <3>2, <3>3
  <2>. QED  BY <2>1, <2>2
<1>. QED  BY <1>7, <1>8

\* A function whose value depends only on its values at smaller arguments
\* exists: the step Body, repeated, settles one size after the other.
DependsOnSmaller(Body, D, S, Size) ==
    \A g, h \in [D -> S] : \A x \in D :
        (\A y \in D : Size[y] < Size[x] => g[y] = h[y]) => Body[g][x] = Body[h][x]

IsFixed(f, Body, D, S) == f \in [D -> S] /\ f = Body[f]

LEMMA Recursion ==
    ASSUME NEW D, NEW S, NEW a \in S, NEW Size \in [D -> Nat], NEW bound \in Nat,
           \A x \in D : Size[x] < bound,
           NEW Body \in [[D -> S] -> [D -> S]], DependsOnSmaller(Body, D, S, Size)
    PROVE  \E f : IsFixed(f, Body, D, S)
<1>. USE DEF DependsOnSmaller, IsFixed
<1>. DEFINE T == [D -> S]
            start == [x \in D |-> a]
            F == [n \in Nat |-> Body]
<1>1. start \in T /\ F \in [Nat -> [T -> T]]
  OBVIOUS
<1>. HIDE DEF start
<1>2. \E g : Iterates(g, T, start, F, bound + 1)
  <2>1. bound + 1 \in Nat
    OBVIOUS
  <2>. HIDE DEF F, T
  <2>. QED  BY <1>1, <2>1, Iteration
<1>. PICK g \in [0..(bound + 1) -> T] : g[0] = start /\ \A n \in 1..(bound + 1) : g[n] = F[n][g[n-1]]
  BY <1>2 DEF Iterates
<1>3. \A n \in 0..bound : g[n] \in T /\ g[n+1] = Body[g[n]]
  <2>1. \A n \in 0..bound : n + 1 \in 1..(bound + 1) /\ (n + 1) - 1 = n /\ n \in 0..(bound + 1)
    OBVIOUS
  <2>2. \A n \in 1..(bound + 1) : g[n] = Body[g[n-1]]
    BY <1>2
  <2>. HIDE DEF T
  <2>. QED  BY <1>2, <2>1, <2>2
<1>. DEFINE Settled(n) == \A x \in D : Size[x] < n => g[n+1][x] = g[n][x]
            Bad == { n \in 0..bound : ~Settled(n) }
<1>4. Bad = {}
  <2>1. SUFFICES ASSUME Bad # {} PROVE FALSE
    OBVIOUS
  <2>2. PICK n \in Bad : \A m \in Bad : n <= m
    <3>1. Bad \in SUBSET Nat
      OBVIOUS
    <3>. HIDE DEF Bad
    <3>. QED  BY <2>1, <3>1, LeastElement
  <2>3. PICK x \in D : Size[x] < n /\ g[n+1][x] # g[n][x]
    OBVIOUS
  <2>4. Size[x] \in Nat /\ n \in 0..bound /\ n # 0
    BY <2>3
  <2>5. n - 1 \in 0..bound /\ Settled(n - 1)
    <3>1. n - 1 \in 0..bound /\ n - 1 < n
      BY <2>4
    <3>2. n - 1 \notin Bad
      <4>. HIDE DEF Bad
      <4>. QED  BY <2>2, <2>4, <3>1
    <3>. QED  BY <3>1, <3>2
  <2>6. g[n] \in T /\ g[n-1] \in T /\ g[n+1] = Body[g[n]] /\ g[n] = Body[g[n-1]]
    <3>1. (n - 1) + 1 = n
      BY <2>4
    <3>. HIDE DEF T
    <3>. QED  BY <1>3, <2>4, <2>5, <3>1
  <2>7. \A y \in D : Size[y] < Size[x] => g[n][y] = g[n-1][y]
    <3>1. (n - 1) + 1 = n
      BY <2>4
    <3>2. \A y \in D : Size[y] < Size[x] => Size[y] < n - 1
      BY <2>3, <2>4
    <3>. QED  BY <2>5, <3>1, <3>2
  <2>8. Body[g[n]][x] = Body[g[n-1]][x]
    BY <2>6, <2>7
  <2>. QED  BY <2>3, <2>6, <2>8
<1>5. g[bound] \in T /\ g[bound+1] = Body[g[bound]]
  BY <1>3
<1>6. g[bound+1] = g[bound]
  <2>1. \A x \in D : g[bound+1][x] = g[bound][x]
    <3>1. bound \in 0..bound /\ bound \notin Bad
      <4>1. bound \in 0..bound
        OBVIOUS
      <4>. HIDE DEF Bad
      <4>. QED  BY <1>4, <4>1
    <3>2. Settled(bound)
      BY <3>1
    <3>. QED  BY <3>2
  <2>2. g[bound+1] \in T
    BY <1>2
  <2>. QED  BY <1>5, <2>1, <2>2
<1>. QED  BY <1>5, <1>6

\* The loop of prefixLength finds what its definition asks for: the common
\* prefix is no longer than either string, the strings agree on it, and it
\* ends where they differ or where one of them ends.
LEMMA PrefixLengthProperties ==
    ASSUME NEW ref \in Strings, NEW value \in Strings
    PROVE  LET n == PrefixLength(ref, value)
           IN  /\ n \in Nat /\ n <= Len(ref) /\ n <= Len(value)
               /\ \A i \in 1..n : ref[i] = value[i]
               /\ n < Len(ref) /\ n < Len(value) => ref[n+1] # value[n+1]
<1>. DEFINE Stops == { n \in Nat : /\ n <= Len(ref) /\ n <= Len(value)
                                   /\ \/ n = Len(ref) \/ n = Len(value)
                                      \/ ref[n+1] # value[n+1] }
<1>0. Len(ref) \in Nat /\ Len(value) \in Nat
  BY DEF Strings
<1>1. Stops # {}
  <2>1. CASE Len(ref) <= Len(value)
    BY <2>1, <1>0
  <2>2. CASE Len(value) <= Len(ref)
    BY <2>2, <1>0
  <2>. QED  BY <2>1, <2>2, <1>0
<1>2. PICK n \in Stops : \A m \in Stops : n <= m
  BY <1>1, LeastElement
<1>3. ASSUME NEW i \in 1..n
      PROVE  ref[i] = value[i]
  <2>1. i - 1 \in Nat /\ i - 1 < n /\ n <= Len(ref) /\ n <= Len(value) /\ n \in Nat
    BY <1>0
  <2>2. i - 1 \notin Stops
    <3>. HIDE DEF Stops
    <3>1. i - 1 \in Stops => n <= i - 1
      BY <1>2
    <3>. QED  BY <2>1, <3>1
  <2>3. (i - 1) + 1 = i
    OBVIOUS
  <2>. QED  BY <2>1, <2>2, <2>3, <1>0
<1>. DEFINE Common(m) == /\ m <= Len(value)
                         /\ \A i \in 1..m : ref[i] = value[i]
                         /\ m < Len(ref) /\ m < Len(value) => ref[m+1] # value[m+1]
<1>4. n \in 0..Len(ref) /\ Common(n)
  BY <1>0, <1>3
<1>5. PrefixLength(ref, value) = CHOOSE m \in 0..Len(ref) : Common(m)
  BY DEF PrefixLength
<1>. HIDE DEF Common
<1>6. PrefixLength(ref, value) \in 0..Len(ref) /\ Common(PrefixLength(ref, value))
  BY <1>4, <1>5, Zenon
<1>. QED  BY <1>0, <1>6 DEF Common

\* A string whose length the size field can count is read back whole.
LEMMA WholeString ==
    ASSUME NEW v \in Strings
    PROVE  SubSeq(v, 1, Len(v)) = v
<1>1. /\ SubSeq(v, 1, Len(v)) \in Seq(Nat)
      /\ Len(SubSeq(v, 1, Len(v))) = Len(v)
      /\ \A i \in 1..Len(v) : SubSeq(v, 1, Len(v))[i] = v[i]
  <2>1. Len(v) \in Nat /\ \A i \in 1..Len(v) : v[i] \in Nat
    BY DEF Strings
  <2>. DEFINE s == SubSeq(v, 1, Len(v))
  <2>2. /\ s \in Seq(Nat)
        /\ Len(s) = IF 1 <= Len(v) THEN Len(v) - 1 + 1 ELSE 0
        /\ \A i \in 1..(Len(v) - 1 + 1) : s[i] = v[1 + i - 1]
    BY <2>1, SubSeqProperties
  <2>. HIDE DEF s
  <2>. QED  BY <2>1, <2>2 DEF s
<1>. QED  BY <1>1, SeqEqual DEF Strings

\* Reading a delta back: the shared prefix of the reference followed by the
\* delta is the value, so nothing is lost in Loader::delta and getValue.
LEMMA DeltaRestores ==
    ASSUME NEW ref \in Strings, NEW value \in Strings
    PROVE  /\ SubSeq(ref, 1, PrefixLength(ref, value)) \o Delta(ref, value) = value
           /\ Delta(ref, value) \in Strings
           /\ Len(Delta(ref, value)) = Len(value) - PrefixLength(ref, value)
<1>. DEFINE n == PrefixLength(ref, value)
            a == SubSeq(ref, 1, n)
            d == Delta(ref, value)
<1>1. /\ n \in Nat /\ n <= Len(ref) /\ n <= Len(value)
      /\ \A i \in 1..n : ref[i] = value[i]
      /\ Len(value) \in Nat /\ Len(ref) \in Nat
  BY PrefixLengthProperties DEF Strings
<1>. HIDE DEF n
<1>2. a \in Strings /\ Len(a) = n /\ \A i \in 1..n : a[i] = ref[i]
  BY <1>1, SubSeqProperties DEF Strings
<1>3. d \in Strings /\ Len(d) = Len(value) - n /\ \A i \in 1..Len(value)-n : d[i] = value[n+i]
  <2>1. d = SubSeq(value, n+1, Len(value))
    BY DEF Delta, n
  <2>2. \A i \in n+1..Len(value) : i \in 1..Len(value)
    BY <1>1
  <2>. QED  BY <1>1, <2>1, <2>2, SubSeqProperties DEF Strings
<1>4. a \o d \in Strings /\ Len(a \o d) = Len(value)
  BY <1>1, <1>2, <1>3, ConcatProperties, SMTT(30) DEF Strings
<1>5. ASSUME NEW i \in 1..Len(value)
      PROVE  (a \o d)[i] = value[i]
  <2>1. CASE i <= n
    <3>1. (a \o d)[i] = a[i]
      BY <2>1, <1>1, <1>2, <1>3, ConcatProperties DEF Strings
    <3>. QED  BY <3>1, <2>1, <1>1, <1>2
  <2>2. CASE i > n
    <3>1. (a \o d)[i] = d[i - n]
      <4>. HIDE DEF a, d
      <4>1. i \in 1..(Len(a) + Len(d)) /\ ~(i <= Len(a)) /\ Len(a) = n
        BY <2>2, <1>1, <1>2, <1>3
      <4>2. \A j \in 1..(Len(a) + Len(d)) :
               (a \o d)[j] = IF j <= Len(a) THEN a[j] ELSE d[j - Len(a)]
        BY <1>2, <1>3, ConcatProperties DEF Strings
      <4>. QED  BY <4>1, <4>2
    <3>2. i - n \in 1..Len(value)-n /\ n + (i - n) = i
      BY <2>2, <1>1
    <3>. QED  BY <3>1, <3>2, <1>3
  <2>3. i <= n \/ i > n
    BY <1>1
  <2>. QED  BY <2>1, <2>2, <2>3
<1>6. a \o d = value
  BY <1>4, <1>5, SeqEqual DEF Strings
<1>. QED  BY <1>3, <1>6 DEF n

-----------------------------------------------------------------------------
(* The order of strings                                                    *)

\* What it means that a is less than b: they agree up to n, and then a ends or
\* has the smaller byte.
Before(a, b, n) ==
    /\ n \in Nat /\ n <= Len(a) /\ n <= Len(b)
    /\ \A i \in 1..n : a[i] = b[i]
    /\ n < Len(b)
    /\ n = Len(a) \/ a[n+1] < b[n+1]

LEMMA LexMeans ==
    ASSUME NEW a \in Strings, NEW b \in Strings, LexLess(a, b)
    PROVE  \E n \in Nat : Before(a, b, n)
<1>. DEFINE n == PrefixLength(a, b)
<1>1. /\ n \in Nat /\ n <= Len(a) /\ n <= Len(b) /\ \A i \in 1..n : a[i] = b[i]
  BY PrefixLengthProperties
<1>2. \/ n = Len(a) /\ n < Len(b)
      \/ n < Len(a) /\ n < Len(b) /\ a[n+1] < b[n+1]
  BY DEF LexLess
<1>. HIDE DEF n
<1>. QED  BY <1>1, <1>2 DEF Before

LEMMA LexAsymmetric ==
    ASSUME NEW a \in Strings, NEW b \in Strings, LexLess(a, b)
    PROVE  ~LexLess(b, a) /\ a # b
<1>1. ASSUME NEW n \in Nat, Before(a, b, n), NEW m \in Nat, Before(b, a, m)
      PROVE  FALSE
  <2>0. /\ Len(a) \in Nat /\ Len(b) \in Nat
        /\ \A i \in 1..Len(a) : a[i] \in Nat
        /\ \A i \in 1..Len(b) : b[i] \in Nat
    BY DEF Strings
  <2>1. CASE n < m
    <3>1. n + 1 \in 1..m /\ n # Len(a) /\ n + 1 \in 1..Len(a) /\ n + 1 \in 1..Len(b)
      BY <1>1, <2>0, <2>1 DEF Before
    <3>. QED  BY <1>1, <2>0, <3>1 DEF Before
  <2>2. CASE m < n
    <3>1. m + 1 \in 1..n /\ m # Len(b) /\ m + 1 \in 1..Len(a) /\ m + 1 \in 1..Len(b)
      BY <1>1, <2>0, <2>2 DEF Before
    <3>. QED  BY <1>1, <2>0, <3>1 DEF Before
  <2>3. CASE m = n
    <3>1. n # Len(a) /\ n # Len(b) /\ n + 1 \in 1..Len(a) /\ n + 1 \in 1..Len(b)
      BY <1>1, <2>0, <2>3 DEF Before
    <3>. QED  BY <1>1, <2>0, <2>3, <3>1 DEF Before
  <2>. QED  BY <2>1, <2>2, <2>3
<1>2. ~LexLess(b, a)
  BY <1>1, LexMeans
<1>. QED  BY <1>2

\* The strings with a prefix lie next to each other.
LEMMA LexPrefix ==
    ASSUME NEW a \in Strings, NEW b \in Strings, NEW c \in Strings, NEW prefix \in Strings,
           LexLess(a, b), LexLess(b, c), StartsWith(a, prefix), StartsWith(c, prefix)
    PROVE  StartsWith(b, prefix)
<1>0. /\ Len(a) \in Nat /\ Len(b) \in Nat /\ Len(c) \in Nat /\ Len(prefix) \in Nat
      /\ \A i \in 1..Len(a) : a[i] \in Nat
      /\ \A i \in 1..Len(b) : b[i] \in Nat
      /\ \A i \in 1..Len(c) : c[i] \in Nat
  BY DEF Strings
<1>1. /\ Len(prefix) <= Len(a) /\ \A i \in 1..Len(prefix) : a[i] = prefix[i]
      /\ Len(prefix) <= Len(c) /\ \A i \in 1..Len(prefix) : c[i] = prefix[i]
  BY DEF StartsWith
<1>2. PICK n \in Nat : Before(a, b, n)
  BY LexMeans
<1>3. PICK m \in Nat : Before(b, c, m)
  BY LexMeans
<1>4. CASE n >= Len(prefix)
  <2>1. Len(prefix) <= Len(b) /\ \A i \in 1..Len(prefix) : i \in 1..n
    BY <1>0, <1>2, <1>4 DEF Before
  <2>. QED  BY <1>1, <1>2, <2>1 DEF Before, StartsWith
<1>5. CASE m >= Len(prefix)
  <2>1. Len(prefix) <= Len(b) /\ \A i \in 1..Len(prefix) : i \in 1..m
    BY <1>0, <1>3, <1>5 DEF Before
  <2>. QED  BY <1>1, <1>3, <2>1 DEF Before, StartsWith
<1>6. CASE n < Len(prefix) /\ m < Len(prefix)
  <2>1. /\ n + 1 \in 1..Len(prefix) /\ m + 1 \in 1..Len(prefix)
        /\ n + 1 \in 1..Len(a) /\ n + 1 \in 1..Len(b) /\ m + 1 \in 1..Len(c)
        /\ n + 1 \in 1..Len(c)
        /\ a[n+1] < b[n+1] /\ a[n+1] = c[n+1]
    BY <1>0, <1>1, <1>2, <1>6 DEF Before
  <2>2. CASE m < n
    <3>1. m + 1 \in 1..n /\ m + 1 \in 1..Len(b) /\ m # Len(b)
      BY <1>0, <1>2, <2>2 DEF Before
    <3>2. b[m+1] = a[m+1] /\ a[m+1] = c[m+1] /\ b[m+1] < c[m+1]
      BY <1>1, <1>2, <1>3, <2>1, <3>1 DEF Before
    <3>. QED  BY <1>0, <2>1, <3>1, <3>2
  <2>3. CASE m = n
    <3>1. m # Len(b)
      BY <1>0, <2>1, <2>3
    <3>2. b[n+1] < c[n+1]
      BY <1>3, <2>3, <3>1 DEF Before
    <3>. QED  BY <1>0, <2>1, <3>2
  <2>4. CASE n < m
    <3>1. n + 1 \in 1..m
      BY <2>4
    <3>2. b[n+1] = c[n+1]
      BY <1>3, <3>1 DEF Before
    <3>. QED  BY <1>0, <2>1, <3>2
  <2>. QED  BY <2>2, <2>3, <2>4
<1>. QED  BY <1>0, <1>4, <1>5, <1>6

-----------------------------------------------------------------------------
(* Sequences of pages, and cells on a page                                 *)

LEMMA AppendSequence ==
    ASSUME NEW s, IsSequence(s), NEW e
    PROVE  /\ IsSequence(Append(s, e))
           /\ Len(Append(s, e)) = Len(s) + 1
           /\ \A i \in 1..Len(s) : Append(s, e)[i] = s[i]
           /\ Append(s, e)[Len(s) + 1] = e
<1>. DEFINE T == { s[i] : i \in 1..Len(s) } \union {e}
<1>1. s \in Seq(T) /\ e \in T
  <2>1. Len(s) \in Nat /\ s \in [1..Len(s) -> T]
    BY DEF IsSequence
  <2>. QED  BY <2>1, SeqDef
<1>. HIDE DEF T
<1>2. /\ Append(s, e) \in Seq(T)
      /\ Len(Append(s, e)) = Len(s) + 1
      /\ \A i \in 1..Len(s) : Append(s, e)[i] = s[i]
      /\ Append(s, e)[Len(s) + 1] = e
  BY <1>1, AppendProperties
<1>3. Append(s, e) \in [1..Len(Append(s, e)) -> T] /\ Len(Append(s, e)) \in Nat
  BY <1>2, LenProperties
<1>. QED  BY <1>2, <1>3 DEF IsSequence

LEMMA WithCellProperties ==
    ASSUME NEW page, IsPage(page), NEW off \in Nat, NEW cell \in Cells
    PROVE  LET q == WithCell(page, off, cell)
           IN  /\ IsPage(q)
               /\ q.end = page.end /\ q.next = page.next
               /\ DOMAIN q.cells = (DOMAIN page.cells) \union {off}
               /\ q.cells[off] = cell
               /\ \A o \in DOMAIN page.cells : o # off => q.cells[o] = page.cells[o]
BY DEF WithCell, IsPage

LEMMA EmptyPageProperties ==
    IsPage(EmptyPage) /\ DOMAIN EmptyPage.cells = {} /\ EmptyPage.end = Unwritten
BY DEF EmptyPage, IsPage, Null, Unwritten

LEMMA FinishedPage ==
    ASSUME NEW page, IsPage(page), NEW end \in Nat, NEW next \in Nat
    PROVE  LET q == Finished(page, end, next)
           IN  IsPage(q) /\ q.cells = page.cells /\ q.end = end /\ q.next = next
BY DEF IsPage, Finished

\* What the two kinds of cells are, for strings that the size fields can count.
LEMMA FullCellProperties ==
    ASSUME NEW id \in Nat, NEW v \in Strings
    PROVE  LET cell == FullCell(id, v)
           IN  /\ cell \in Cells /\ cell.kind = "full" /\ cell.id = id
               /\ cell.str = v /\ Written(cell) = FullHeader + Len(v)
               /\ Len(v) < StringRange => cell.size = Len(v)
<1>1. Len(v) \in Nat /\ Len(v) % StringRange \in Nat
  BY StringRangeAssumption DEF Strings
<1>2. Len(v) < StringRange => Len(v) % StringRange = Len(v)
  BY <1>1, StringRangeAssumption
<1>. QED  BY <1>1, <1>2 DEF FullCell, Cells, Strings, Written, HeaderSize

LEMMA DeltaCellProperties ==
    ASSUME NEW id \in Nat, NEW r \in Strings, NEW v \in Strings
    PROVE  LET cell == DeltaCell(id, r, v)
           IN  /\ cell \in Cells /\ cell.kind = "delta" /\ cell.id = id
               /\ cell.str = Delta(r, v)
               /\ Written(cell) = DeltaHeader + Len(Delta(r, v))
               /\ cell.size = DeltaLength(r, v)
               /\ Len(v) < StringRange => /\ cell.size = Len(Delta(r, v))
                                          /\ cell.prefix = PrefixLength(r, v)
<1>. DEFINE n == PrefixLength(r, v)
<1>1. n \in Nat /\ n <= Len(v) /\ Len(v) \in Nat
  BY PrefixLengthProperties DEF Strings
<1>2. Delta(r, v) \in Strings /\ Len(Delta(r, v)) = Len(v) - n
  BY DeltaRestores
<1>. HIDE DEF n
<1>3. n % StringRange \in Nat /\ (Len(v) - n) % StringRange \in Nat
  BY <1>1, StringRangeAssumption
<1>4. Len(v) < StringRange => n % StringRange = n /\ (Len(v) - n) % StringRange = Len(v) - n
  BY <1>1, StringRangeAssumption
<1>. QED
  BY <1>1, <1>2, <1>3, <1>4 DEF DeltaCell, DeltaLength, Cells, Strings, Written, HeaderSize, n

\* One entry of a sequence is replaced.
Replaced(q, s, i, e) ==
    /\ IsSequence(q) /\ Len(q) = Len(s) /\ q[i] = e
    /\ \A j \in 1..Len(s) : j # i => q[j] = s[j]

LEMMA ReplacedEntry ==
    ASSUME NEW s, IsSequence(s), NEW i \in 1..Len(s), NEW e
    PROVE  Replaced([s EXCEPT ![i] = e], s, i, e)
<1>. DEFINE T == { s[j] : j \in 1..Len(s) } \union {e}
            u == [s EXCEPT ![i] = e]
<1>1. s \in Seq(T) /\ e \in T
  <2>1. Len(s) \in Nat /\ s \in [1..Len(s) -> T]
    BY DEF IsSequence
  <2>. QED  BY <2>1, SeqDef
<1>. HIDE DEF T
<1>2. /\ u \in Seq(T)
      /\ Len(u) = Len(s)
      /\ u[i] = e
      /\ \A j \in 1..Len(s) : j # i => u[j] = s[j]
  BY <1>1, ExceptSeq
<1>. HIDE DEF u
<1>. QED  BY <1>2 DEF IsSequence, Replaced, u

\* One page of the sequence is replaced.
LEMMA ReplacedPage ==
    ASSUME NEW s, IsSequence(s), \A p \in 1..Len(s) : IsPage(s[p]),
           NEW i \in 1..Len(s), NEW page, IsPage(page), NEW q, q = [s EXCEPT ![i] = page]
    PROVE  /\ IsSequence(q) /\ Len(q) = Len(s) /\ q[i] = page
           /\ \A j \in 1..Len(s) : j # i => q[j] = s[j]
           /\ \A p \in 1..Len(q) : IsPage(q[p])
<1>1. Replaced([s EXCEPT ![i] = page], s, i, page)
  BY ReplacedEntry
<1>2. Replaced(q, s, i, page)
  BY <1>1
<1>. QED  BY <1>2 DEF Replaced

-----------------------------------------------------------------------------
(* Leaf values.                                                            *)

LEMMA DivideWithRest ==
    ASSUME NEW a \in Nat, NEW d \in Nat \ {0}, NEW b \in 0..d-1
    PROVE  (a * d + b) \div d = a /\ (a * d + b) % d = b
OBVIOUS

LEMMA Small ==
    ASSUME NEW a \in Nat, NEW d \in Nat \ {0}, a < d
    PROVE  a % d = a
OBVIOUS

\* An address that is small enough: one bit is lost to the tag of the radix
\* tree and the width of an offset to encodeLeaf, so on a 64-bit machine the
\* address has to be below 2^47 (StrategyBase.hpp:19-25, ARTBase.cpp:142-150).
AddressFits(page) == 2 * (page + 1) * OffsetRange <= WordRange

LEMMA EncodedLeaf ==
    ASSUME NEW page \in Nat, AddressFits(page), NEW number \in 0..OffsetRange-1
    PROVE  /\ EncodeLeaf(page, number) = page * OffsetRange + number
           /\ EncodeLeaf(page, number) \in Nat
           /\ 2 * EncodeLeaf(page, number) < WordRange
<1>1. OffsetRange \in Nat \ {0} /\ WordRange \in Nat
  BY WordAssumption, OffsetRangeAssumption
<1>. DEFINE shifted == page * OffsetRange
<1>2. shifted \in Nat /\ 2 * (shifted + OffsetRange) <= WordRange
  <2>1. 2 * (page + 1) * OffsetRange = 2 * (page * OffsetRange + OffsetRange)
    BY <1>1
  <2>. QED  BY <1>1, <2>1 DEF AddressFits
<1>. HIDE DEF shifted
<1>3. shifted < WordRange
  BY <1>1, <1>2
<1>4. shifted % WordRange = shifted
  BY <1>1, <1>2, <1>3, Small
<1>5. EncodeLeaf(page, number) = shifted + number
  BY <1>4 DEF EncodeLeaf, shifted
<1>6. shifted + number \in Nat /\ 2 * (shifted + number) < WordRange
  BY <1>1, <1>2
<1>. QED  BY <1>5, <1>6 DEF shifted

\* decodeLeaf undoes encodeLeaf, and getLeafValue undoes makeLeaf: every
\* address below 2^47 and every 16-bit number come back.
THEOREM LeavesRoundTrip ==
    ASSUME NEW page \in Nat, AddressFits(page), NEW number \in 0..OffsetRange-1
    PROVE  LET leafValue == EncodeLeaf(page, number)
           IN  /\ LeafPage(leafValue) = page
               /\ LeafOffset(leafValue) = number
               /\ ThroughTree(leafValue) = leafValue
               /\ IsLeaf(MakeLeaf(leafValue))
<1>. DEFINE leafValue == EncodeLeaf(page, number)
<1>1. OffsetRange \in Nat \ {0} /\ WordRange \in Nat
  BY WordAssumption, OffsetRangeAssumption
<1>2. /\ leafValue = page * OffsetRange + number
      /\ leafValue \in Nat /\ 2 * leafValue < WordRange
  BY EncodedLeaf
<1>. HIDE DEF leafValue
<1>3. LeafPage(leafValue) = page /\ LeafOffset(leafValue) = number
  BY <1>1, <1>2, DivideWithRest DEF LeafPage, LeafOffset
<1>4. MakeLeaf(leafValue) = 2 * leafValue + 1
  <2>1. (2 * leafValue) % WordRange = 2 * leafValue
    BY <1>1, <1>2, Small
  <2>. QED  BY <2>1 DEF MakeLeaf
<1>5. (2 * leafValue + 1) \div 2 = leafValue /\ (2 * leafValue + 1) % 2 = 1
  BY <1>2
<1>. QED  BY <1>3, <1>4, <1>5 DEF ThroughTree, GetLeafValue, IsLeaf, leafValue

-----------------------------------------------------------------------------
(* Ranges of the values that were loaded.                                  *)

\* The values from..to with their ids.
Listing(vs, from, to) ==
    [n \in 1..(to - from + 1) |-> [id |-> from + n - 1, value |-> vs[from + n - 1]]]

\* A loop over the values lists them one by one.
LEMMA ListingGrows ==
    ASSUME NEW vs, NEW first \in Nat, NEW k \in Nat, first <= k
    PROVE  /\ Listing(vs, first, first - 1) = <<>>
           /\ Append(Listing(vs, first, k - 1), [id |-> k, value |-> vs[k]]) = Listing(vs, first, k)
<1>. DEFINE old == Listing(vs, first, k - 1)
            new == Listing(vs, first, k)
            at(n) == [id |-> first + n - 1, value |-> vs[first + n - 1]]
            d == k - first
<1>1. d \in Nat /\ (k - 1) - first + 1 = d /\ k - first + 1 = d + 1 /\ first + (d + 1) - 1 = k
  OBVIOUS
<1>. HIDE DEF d
<1>2. old = [n \in 1..d |-> at(n)] /\ new = [n \in 1..(d+1) |-> at(n)]
  BY <1>1 DEF Listing
<1>3. at(d + 1) = [id |-> k, value |-> vs[k]]
  BY <1>1
<1>. HIDE DEF at
<1>4. Listing(vs, first, first - 1) = <<>>
  <2>1. (first - 1) - first + 1 = 0
    OBVIOUS
  <2>2. Listing(vs, first, first - 1) = [n \in 1..0 |-> at(n)]
    BY <2>1 DEF Listing, at
  <2>. QED  BY <2>2
<1>5. IsSequence(old) /\ Len(old) = d
  <2>. DEFINE T == { at(n) : n \in 1..d }
  <2>. HIDE DEF old
  <2>1. old \in [1..d -> T]
    BY <1>2
  <2>. HIDE DEF T
  <2>2. old \in Seq(T)
    BY <1>1, <2>1, SeqDef
  <2>3. Len(old) \in Nat /\ DOMAIN old = 1..Len(old) /\ DOMAIN old = 1..d
    BY <2>1, <2>2, LenProperties
  <2>4. \A m, n \in Nat : 1..m = 1..n => m = n
    <3>1. \A m, n \in Nat : m < n => n \in 1..n /\ n \notin 1..m
      OBVIOUS
    <3>. QED  BY <3>1
  <2>5. Len(old) = d
    BY <1>1, <2>3, <2>4
  <2>. QED  BY <1>1, <1>2, <2>5 DEF IsSequence
<1>. HIDE DEF old, new
<1>6. /\ IsSequence(Append(old, at(d+1))) /\ Len(Append(old, at(d+1))) = d + 1
      /\ \A n \in 1..d : Append(old, at(d+1))[n] = old[n]
      /\ Append(old, at(d+1))[d+1] = at(d+1)
  BY <1>5, AppendSequence
<1>7. Append(old, at(d+1)) = new
  <2>1. \A n \in 1..(d+1) : Append(old, at(d+1))[n] = at(n)
    BY <1>1, <1>2, <1>6
  <2>. QED  BY <1>2, <1>6, <2>1 DEF IsSequence
<1>. QED  BY <1>3, <1>4, <1>7 DEF old, new

\* out lists the entries with these ids, which are all in E.
ListsThe(out, E, ids) ==
    /\ out \in Seq(E)
    /\ { out[n].id : n \in DOMAIN out } = ids
    /\ \A m, n \in DOMAIN out : m < n => out[m].id < out[n].id

Holds(E, vs, first, last) == \A k \in first..last : [id |-> k, value |-> vs[k]] \in E

LEMMA ListingLists ==
    ASSUME NEW vs, NEW E, NEW first \in Nat, NEW last \in Nat, first <= last, Holds(E, vs, first, last)
    PROVE  ListsThe(Listing(vs, first, last), E, first..last)
<1>. DEFINE out == Listing(vs, first, last)
            d == last - first + 1
<1>1. d \in Nat /\ \A n \in 1..d : first + n - 1 \in first..last
  OBVIOUS
<1>2. out = [n \in 1..d |-> [id |-> first + n - 1, value |-> vs[first + n - 1]]]
  BY DEF Listing
<1>. HIDE DEF out
<1>3. DOMAIN out = 1..d
  BY <1>2
<1>4. ASSUME NEW n \in 1..d
      PROVE  out[n].id = first + n - 1 /\ out[n] \in E
  BY <1>1, <1>2 DEF Holds
<1>5. out \in Seq(E)
  <2>1. out \in [1..d -> E]
    BY <1>2, <1>4
  <2>. QED  BY <1>1, <2>1, SeqDef
<1>6. { out[n].id : n \in DOMAIN out } = first..last
  <2>1. \A k \in first..last : k - first + 1 \in 1..d /\ first + (k - first + 1) - 1 = k
    BY <1>1
  <2>2. \A k \in first..last : out[k - first + 1].id = k
    BY <1>4, <2>1
  <2>3. \A n \in DOMAIN out : out[n].id \in first..last
    BY <1>1, <1>3, <1>4
  <2>4. \A k \in first..last : \E n \in DOMAIN out : k = out[n].id
    BY <1>3, <2>1, <2>2
  <2>. QED  BY <2>3, <2>4
<1>7. \A m, n \in DOMAIN out : m < n => out[m].id < out[n].id
  BY <1>1, <1>3, <1>4
<1>. QED  BY <1>5, <1>6, <1>7 DEF out, ListsThe

\* The first n of the strings vs ascend.
AscendTo(vs, n) ==
    /\ \A j \in 1..n : vs[j] \in Strings
    /\ \A i, j \in 1..n : i < j => LexLess(vs[i], vs[j])

Smallest(keys) == CHOOSE s \in keys : \A t \in keys \ {s} : LexLess(s, t)
Largest(keys)  == CHOOSE s \in keys : \A t \in keys \ {s} : LexLess(t, s)

\* Those of the first n strings that start with a prefix.
WithPrefix(vs, n, prefix) == { vs[j] : j \in { i \in 1..n : StartsWith(vs[i], prefix) } }

\* They lie one behind the other, between the smallest and the largest of the keys.
IsRangeOf(keys, vs, n, prefix) ==
    \E first, last \in 1..n :
        /\ first <= last
        /\ Smallest(keys) = vs[first] /\ Largest(keys) = vs[last]
        /\ \A j \in 1..n : StartsWith(vs[j], prefix) <=> j \in first..last

\* In ascending strings those with a prefix are a range, and its ends are the
\* smallest and the largest of them.
LEMMA PrefixIsRange ==
    ASSUME NEW vs, NEW n \in Nat, AscendTo(vs, n), NEW prefix \in Strings, NEW keys, keys # {},
           keys = WithPrefix(vs, n, prefix)
    PROVE  IsRangeOf(keys, vs, n, prefix)
<1>. DEFINE J == { j \in 1..n : StartsWith(vs[j], prefix) }
<1>1. /\ \A j \in 1..n : j \in Nat /\ vs[j] \in Strings
      /\ \A i, j \in 1..n : i < j => LexLess(vs[i], vs[j])
      /\ keys = { vs[j] : j \in J }
  BY DEF AscendTo, WithPrefix
<1>2. PICK first \in J : \A j \in J : first <= j
  <2>1. J \in SUBSET Nat /\ J # {}
    BY <1>1
  <2>. QED  BY <2>1, LeastElement
<1>3. PICK last \in J : \A j \in J : j <= last
  <2>. DEFINE G == { n - j : j \in J }
  <2>1. \A j \in J : n - j \in Nat
    OBVIOUS
  <2>2. G \in SUBSET Nat /\ G # {}
    BY <1>2, <2>1
  <2>3. PICK g \in G : \A h \in G : g <= h
    BY <2>2, LeastElement
  <2>4. PICK j \in J : g = n - j
    BY <2>3
  <2>5. \A i \in J : n - j <= n - i
    BY <2>3, <2>4
  <2>6. \A i \in J : i <= j
    BY <2>5, <1>1
  <2>. QED  BY <2>6
<1>4. first \in 1..n /\ last \in 1..n /\ first <= last
  BY <1>2
<1>5. Smallest(keys) = vs[first]
  <2>. DEFINE IsFirst(s) == \A t \in keys \ {s} : LexLess(s, t)
  <2>1. ASSUME NEW t \in keys, t # vs[first]
        PROVE  LexLess(vs[first], t)
    <3>1. PICK j \in J : t = vs[j]
      BY <1>1
    <3>2. first <= j /\ first # j
      BY <1>2, <2>1, <3>1
    <3>3. first < j
      BY <3>2, <1>1
    <3>. QED  BY <1>1, <3>1, <3>3
  <2>2. ASSUME NEW s \in keys, IsFirst(s), s # vs[first]
        PROVE  FALSE
    <3>1. vs[first] \in keys \ {s}
      BY <1>1, <2>2
    <3>2. LexLess(s, vs[first]) /\ LexLess(vs[first], s)
      BY <2>1, <2>2, <3>1
    <3>3. s \in Strings /\ vs[first] \in Strings
      BY <1>1, <1>4
    <3>. QED  BY <3>2, <3>3, LexAsymmetric
  <2>3. vs[first] \in keys /\ IsFirst(vs[first])
    BY <1>1, <2>1
  <2>4. Smallest(keys) = CHOOSE s \in keys : IsFirst(s)
    BY DEF Smallest
  <2>. HIDE DEF IsFirst
  <2>. QED  BY <2>2, <2>3, <2>4
<1>6. Largest(keys) = vs[last]
  <2>. DEFINE IsEnd(s) == \A t \in keys \ {s} : LexLess(t, s)
  <2>1. ASSUME NEW t \in keys, t # vs[last]
        PROVE  LexLess(t, vs[last])
    <3>1. PICK j \in J : t = vs[j]
      BY <1>1
    <3>2. j <= last /\ last # j
      BY <1>3, <2>1, <3>1
    <3>3. j < last
      BY <3>2, <1>1
    <3>. QED  BY <1>1, <3>1, <3>3
  <2>2. ASSUME NEW s \in keys, IsEnd(s), s # vs[last]
        PROVE  FALSE
    <3>1. vs[last] \in keys \ {s}
      BY <1>1, <2>2
    <3>2. LexLess(vs[last], s) /\ LexLess(s, vs[last])
      BY <2>1, <2>2, <3>1
    <3>3. s \in Strings /\ vs[last] \in Strings
      BY <1>1, <1>4
    <3>. QED  BY <3>2, <3>3, LexAsymmetric
  <2>3. vs[last] \in keys /\ IsEnd(vs[last])
    BY <1>1, <2>1
  <2>4. Largest(keys) = CHOOSE s \in keys : IsEnd(s)
    BY DEF Largest
  <2>. HIDE DEF IsEnd
  <2>. QED  BY <2>2, <2>3, <2>4
<1>7. ASSUME NEW j \in 1..n
      PROVE  StartsWith(vs[j], prefix) <=> j \in first..last
  <2>1. StartsWith(vs[j], prefix) => j \in first..last
    <3>1. j \in J => first <= j /\ j <= last
      BY <1>2, <1>3
    <3>. QED  BY <3>1, <1>1, <1>4
  <2>2. ASSUME j \in first..last
        PROVE  StartsWith(vs[j], prefix)
    <3>1. CASE j = first \/ j = last
      BY <3>1, <1>2, <1>3
    <3>2. CASE j # first /\ j # last
      <4>1. first < j /\ j < last
        BY <2>2, <3>2, <1>4
      <4>2. LexLess(vs[first], vs[j]) /\ LexLess(vs[j], vs[last])
        BY <1>1, <1>4, <4>1
      <4>3. StartsWith(vs[first], prefix) /\ StartsWith(vs[last], prefix)
        BY <1>2, <1>3
      <4>. QED  BY <1>1, <1>4, <4>2, <4>3, LexPrefix
    <3>. QED  BY <3>1, <3>2
  <2>. QED  BY <2>1, <2>2
<1>. QED  BY <1>4, <1>5, <1>6, <1>7 DEF IsRangeOf
=============================================================================
