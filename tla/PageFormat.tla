----------------------------- MODULE PageFormat -----------------------------
(***************************************************************************)
(* The byte layout shared by the page implementations and the iterator     *)
(* that reads it (include/Page.hpp).                                       *)
(*                                                                         *)
(* A page is a chunk of memory holding an uncompressed value followed by   *)
(* values stored as a delta against it.  The bytes of one stored value are *)
(* a CELL; a page maps the offset of each cell, counted from the first     *)
(* uncompressed value, to the cell.  Any other offset holds bytes that are *)
(* not the start of a value: reading there is what the assertions of       *)
(* Page.hpp (compiled into every build, see its "#undef NDEBUG") catch.    *)
(*                                                                         *)
(* Pages are numbered in the order they are allocated; 0 is the null       *)
(* pointer.                                                                *)
(***************************************************************************)
EXTENDS ByteStrings

VARIABLE pages        \* the pages allocated so far

Null == 0
Unwritten == -1       \* no EndOfPage header has been written yet

-----------------------------------------------------------------------------
(* Cells and pages                                                         *)

FullHeader  == 1 + 8 + 2       \* header byte, id, size
DeltaHeader == 1 + 8 + 2 + 2   \* header byte, id, prefix size, size
EndHeader   == 1
IndexHeader == 1 + 2           \* header byte, number of entries
OffsetSize  == 2               \* one entry of a slotted page's index

\* The size fields are 16 bits wide; the bytes of the string are all written.
FullCell(id, value) ==
    [kind |-> "full", id |-> id, prefix |-> 0,
     size |-> Len(value) % StringRange, str |-> value]

DeltaCell(id, ref, value) ==
    [kind   |-> "delta", id |-> id,
     prefix |-> PrefixLength(ref, value) % StringRange,
     size   |-> DeltaLength(ref, value),
     str    |-> Delta(ref, value)]

HeaderSize(cell) == IF cell.kind = "full" THEN FullHeader ELSE DeltaHeader

Written(cell)  == HeaderSize(cell) + Len(cell.str)   \* bytes the loader wrote
Occupied(cell) == HeaderSize(cell) + cell.size       \* bytes a reader skips

\* A new page.  Its bytes are not initialised (the constructor only clears
\* nextPage), so what a reader makes of them is not known: see Uninitialised.
EmptyPage == [cells |-> [o \in {} |-> {}], end |-> Unwritten, next |-> Null]

\* endPage writes the EndOfPage header; the next page is linked.
Finished(page, end, next) == [cells |-> page.cells, end |-> end, next |-> next]

WithCell(page, off, cell) ==
    [page EXCEPT !.cells = [o \in (DOMAIN page.cells) \union {off} |->
                               IF o = off THEN cell ELSE page.cells[o]]]

\* What the pages, and the cells on them, are.
Cells == [kind : {"full", "delta"}, id : Nat, prefix : Nat, size : Nat, str : Seq(Nat)]

IsPage(page) ==
    /\ page = [cells |-> page.cells, end |-> page.end, next |-> page.next]
    /\ page.cells = [o \in DOMAIN page.cells |-> page.cells[o]]
    /\ DOMAIN page.cells \subseteq Nat
    /\ \A o \in DOMAIN page.cells : page.cells[o] \in Cells
    /\ page.end \in Nat \union {Unwritten}
    /\ page.next \in Nat

IsSequence(s) == Len(s) \in Nat /\ s = [i \in 1..Len(s) |-> s[i]]

\* Every length fits in its 16-bit field.
Short(vs) == \A k \in 1..Len(vs) : Len(vs[k]) < StringRange

-----------------------------------------------------------------------------
(* page::Iterator.  page and off stand for dataPtr (page = Null: a null    *)
(* pointer), base and from for startOfFullString: the page and the offset  *)
(* of the uncompressed value it points into.                               *)

IteratorAt(p) ==
    [page |-> p, off |-> 0, nextPage |-> pages[p].next, base |-> Null, from |-> 0]

NullIterator == [page |-> Null, off |-> 0, nextPage |-> Null, base |-> Null, from |-> 0]

AtCell(it) == it.page # Null /\ it.off \in DOMAIN pages[it.page].cells

AtEnd(it) == it.page # Null /\ it.off = pages[it.page].end

Cell(it) == pages[it.page].cells[it.off]

\* The page was left by an exception before anything was written to it.
Uninitialised(it) == it.page # Null /\ DOMAIN pages[it.page].cells = {}

\* Iterator::operator bool
Valid(it) == AtCell(it) \/ (AtEnd(it) /\ it.nextPage # Null)

\* getId's assertions hold.
HasId(it) == AtCell(it)

\* The assertions of getValue and operator* hold.
HasValue(it) == AtCell(it) /\ (Cell(it).kind = "delta" => it.base # Null)

GetId(it) == Cell(it).id

\* getValue: the shared prefix is read from the uncompressed value.
GetValue(it) ==
    LET rest == SubSeq(Cell(it).str, 1, Cell(it).size)
    IN  IF Cell(it).kind = "full" THEN rest
        ELSE SubSeq(pages[it.base].cells[it.from].str, 1, Cell(it).prefix) \o rest

\* Mutant: the start of the uncompressed value is not remembered.
Dereferenced_Forgets(it) == it

\* operator* remembers where the uncompressed value is.
Dereferenced(it) ==
    IF Cell(it).kind = "full" THEN [it EXCEPT !.base = it.page, !.from = it.off] ELSE it

\* gotoOffset; its assertions are OffsetExists.
OffsetExists(p, off) ==
    off # 0 => /\ 0 \in DOMAIN pages[p].cells
               /\ off \in DOMAIN pages[p].cells
               /\ pages[p].cells[off].kind = "delta"

GotoOffset(p, off) ==
    IF off = 0 THEN IteratorAt(p)
    ELSE [IteratorAt(p) EXCEPT !.off = off, !.base = p]

\* operator++: past this value, and on to the next page at the end of this one.
NextPage(it) == [it EXCEPT !.page = it.nextPage, !.off = 0,
                           !.nextPage = pages[it.nextPage].next]

Increment(it) ==
    LET past == [it EXCEPT !.off = it.off + Occupied(Cell(it))]
    IN  IF AtCell(past) THEN past
        ELSE IF AtEnd(past) /\ past.nextPage # Null THEN NextPage(past)
        ELSE NullIterator

\* Past this value, without leaving the page.
SkipValue(it) ==
    [Dereferenced(it) EXCEPT !.off = it.off + Occupied(Cell(it))]

\* gotoOffsetWithDelta: skip values, from an offset of the page on.
GotoOffsetWithDelta(p, off, delta) ==
    LET skip[n \in 0..delta] ==
            IF n = 0 THEN [IteratorAt(p) EXCEPT !.off = off]
            ELSE IF AtCell(skip[n-1]) THEN SkipValue(skip[n-1]) ELSE NullIterator
    IN  skip[delta]

\* gotoDelta goes on to the next page at the end of this one.
GotoDelta(p, delta) ==
    LET it == GotoOffsetWithDelta(p, 0, delta)
    IN  IF AtCell(it) THEN it
        ELSE IF AtEnd(it) /\ it.nextPage # Null THEN [NextPage(it) EXCEPT !.base = Null]
        ELSE NullIterator
=============================================================================
