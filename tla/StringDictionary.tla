-------------------------- MODULE StringDictionary --------------------------
(***************************************************************************)
(* StringDictionary<ART, HAT, SingleUncompressedPage<PageSize>, S> with S  *)
(* the OffsetStrategy (the default, and what the perftest harness builds)  *)
(* or the DeltaStrategy.                                                   *)
(*                                                                         *)
(* The dictionary owns the pages (SinglePage), an index from ids and a     *)
(* reverse index from strings to leaf values.  A load calls the strategy   *)
(* for every value it has written, and the strategy inserts the leaf in    *)
(* both indexes; a lookup decodes the leaf it finds to a page iterator.    *)
(*                                                                         *)
(* The two indexes are maps here.  The HAT-trie is a vendored library; the *)
(* radix tree stores a leaf value as a tagged pointer (LeafEncoding).      *)
(***************************************************************************)
EXTENDS SinglePage, LeafEncoding, FiniteSets

CONSTANTS
    Queries,     \* the strings that are looked up
    MaxId,       \* bound: the ids 0..MaxId are looked up, those below it are given
    MaxLoads,    \* bound: how often bulkInsert is called
    MaxStray,    \* bound: how many entries a scan has given when it reads on from unwritten bytes
    Builds       \* the builds of the program to be checked

ASSUME QueriesAssumption == Queries \subseteq Seq(Nat)
ASSUME BuildAssumption == Builds \subseteq [strategy : {"offset", "delta"}, debug : BOOLEAN]

VARIABLES
    build,         \* the strategy, and whether #ifdef DEBUG assertions are compiled in
    nextId,        \* Dictionary::nextId
    loads,         \* how often bulkInsert was called
    index,         \* id -> leaf value
    reverseIndex,  \* string -> leaf value
    scan,          \* the locals of a running rangeLookup
    answer         \* the last call that returned, and what it gave

vars == <<pages, values, firstId, pos, current, dataPtr, ref, delta, pending, pc,
          build, nextId, loads, index, reverseIndex, scan, answer>>

NoScan == [it |-> NullIterator, endId |-> 0, prefix |-> <<>>, out |-> <<>>]

Init ==
    /\ LoaderInit
    /\ build \in Builds
    /\ nextId = 1 /\ loads = 0
    /\ index = [i \in {} |-> 0] /\ reverseIndex = [s \in {} |-> 0]
    /\ scan = NoScan
    /\ answer = [op |-> "none", arg |-> <<>>, out |-> <<>>]

Answer(op, arg, out) == answer' = [op |-> op, arg |-> arg, out |-> out]

Entry(id, value) == [id |-> id, value |-> value]

\* A failed assertion ends the process; so does the exception of a debug build
\* that finds another string than it looked for, which no caller catches.
Abort == pc' = "crashed" /\ UNCHANGED answer

AnswerOrAbort(sound, op, arg, out) ==
    IF sound THEN Answer(op, arg, out) /\ UNCHANGED pc ELSE Abort

-----------------------------------------------------------------------------
(* bulkInsert: all ids are taken before the pages are loaded.              *)
BulkInsert(vs) ==
    /\ loads < MaxLoads /\ nextId + Len(vs) <= MaxId
    /\ build.debug => nextId = 1
    /\ Load(vs, nextId)
    /\ nextId' = nextId + Len(vs)
    /\ loads' = loads + 1
    /\ UNCHANGED <<build, index, reverseIndex, scan, answer>>

\* One value is written, and leafCallback is entered.
WriteValue ==
    /\ StartPage \/ AppendDelta
    /\ UNCHANGED <<build, nextId, loads, index, reverseIndex, scan, answer>>

\* leafCallback
PendingLeaf ==
    EncodeLeaf(pending.page,
               IF build.strategy = "offset" THEN pending.offset ELSE pending.delta)

With(map, key, leaf) ==
    [k \in (DOMAIN map) \union {key} |-> IF k = key THEN leaf ELSE map[k]]

\* Mutant: an existing key is overwritten, as BTree::insert does.
InsertReverse_Overwrites ==
    /\ pc = "callback"
    /\ pc' = "indexed"
    /\ reverseIndex' = With(reverseIndex, pending.value, PendingLeaf)
    /\ UNCHANGED <<pages, values, firstId, pos, current, dataPtr, ref, delta, pending,
                   build, nextId, loads, index, scan, answer>>

\* HAT::insert does not overwrite.
InsertReverse ==
    /\ pc = "callback"
    /\ pc' = "indexed"
    /\ reverseIndex' = IF pending.value \in DOMAIN reverseIndex THEN reverseIndex
                       ELSE With(reverseIndex, pending.value, PendingLeaf)
    /\ UNCHANGED <<pages, values, firstId, pos, current, dataPtr, ref, delta, pending,
                   build, nextId, loads, index, scan, answer>>

\* Mutant: the leaf is indexed under the dictionary's counter.
InsertId_NextId ==
    /\ pc = "indexed"
    /\ index' = With(index, nextId, ThroughTree(PendingLeaf))
    /\ pos' = pos + 1
    /\ pc' = "loop"
    /\ UNCHANGED <<pages, values, firstId, current, dataPtr, ref, delta, pending,
                   build, nextId, loads, reverseIndex, scan, answer>>

\* The id goes to the radix tree, and leafCallback returns to the loop.
InsertId ==
    /\ pc = "indexed"
    /\ index' = With(index, pending.id, ThroughTree(PendingLeaf))
    /\ pos' = pos + 1
    /\ pc' = "loop"
    /\ UNCHANGED <<pages, values, firstId, current, dataPtr, ref, delta, pending,
                   build, nextId, loads, reverseIndex, scan, answer>>

\* The exception of the loader leaves bulkInsert.
BulkInsertThrows ==
    /\ Throw
    /\ Answer("threw", <<>>, <<>>)
    /\ UNCHANGED <<build, nextId, loads, index, reverseIndex, scan>>

BulkInsertReturns ==
    /\ Finish
    /\ IF pc' = "ready" THEN Answer("inserted", <<>>, <<>>) ELSE UNCHANGED answer
    /\ UNCHANGED <<build, nextId, loads, index, reverseIndex, scan>>

-----------------------------------------------------------------------------
(* Lookups                                                                 *)

\* decodeLeaf
DecodeLeaf(leafValue) ==
    IF build.strategy = "offset" THEN GotoOffset(LeafPage(leafValue), LeafOffset(leafValue))
    ELSE GotoDelta(LeafPage(leafValue), LeafOffset(leafValue))

\* The leaf points to a page, and the assertions on the way to a value hold.
Decodes(leafValue) ==
    /\ LeafPage(leafValue) \in 1..Len(pages)
    /\ build.strategy = "offset" => OffsetExists(LeafPage(leafValue), LeafOffset(leafValue))
    /\ HasValue(DecodeLeaf(leafValue))

IdOf(leafValue)    == GetId(DecodeLeaf(leafValue))
ValueOf(leafValue) == GetValue(DecodeLeaf(leafValue))

\* A debug build compares what it found with what was asked for.
LookupValue(s) ==
    LET leaf  == reverseIndex[s]
        sound == Decodes(leaf) /\ (build.debug => ValueOf(leaf) = s)
    IN  /\ AtRest
        /\ \/ s \notin DOMAIN reverseIndex /\ Answer("value", s, <<>>) /\ UNCHANGED pc
           \/ /\ s \in DOMAIN reverseIndex
              /\ AnswerOrAbort(sound, "value", s, <<Entry(IdOf(leaf), s)>>)
        /\ UNCHANGED <<pages, values, firstId, pos, current, dataPtr, ref, delta, pending,
                       build, nextId, loads, index, reverseIndex, scan>>

LookupId(i) ==
    LET leaf  == index[i]
        sound == Decodes(leaf) /\ (build.debug => IdOf(leaf) = i)
    IN  /\ AtRest
        /\ \/ i \notin DOMAIN index /\ Answer("id", <<i>>, <<>>) /\ UNCHANGED pc
           \/ /\ i \in DOMAIN index
              /\ AnswerOrAbort(sound, "id", <<i>>, <<Entry(i, ValueOf(leaf))>>)
        /\ UNCHANGED <<pages, values, firstId, pos, current, dataPtr, ref, delta, pending,
                       build, nextId, loads, index, reverseIndex, scan>>

\* HAT::rangeLookup: the leaves of the first and the last key with the prefix.
Matching(prefix) == { s \in DOMAIN reverseIndex : StartsWith(s, prefix) }

FirstKey(keys) == CHOOSE s \in keys : \A t \in keys \ {s} : LexLess(s, t)
LastKey(keys)  == CHOOSE s \in keys : \A t \in keys \ {s} : LexLess(t, s)

\* rangeLookup up to its loop: (*endIt).first is read once.
RangeLookup(prefix) ==
    LET keys  == Matching(prefix)
        first == reverseIndex[FirstKey(keys)]
        last  == reverseIndex[LastKey(keys)]
    IN  /\ AtRest
        /\ IF keys = {} THEN Answer("range", prefix, <<>>) /\ UNCHANGED <<scan, pc>>
           ELSE IF Decodes(first) /\ Decodes(last)
           THEN /\ scan' = [it |-> DecodeLeaf(first), endId |-> IdOf(last),
                            prefix |-> prefix, out |-> <<>>]
                /\ pc' = "scan"
                /\ UNCHANGED answer
           ELSE Abort /\ UNCHANGED scan
        /\ UNCHANGED <<pages, values, firstId, pos, current, dataPtr, ref, delta, pending,
                       build, nextId, loads, index, reverseIndex>>

\* One turn of the loop of rangeLookup that is not the last: the callback gets
\* an entry, and ++.  operator* asserts that there is a value.
ScanNext ==
    LET here == Dereferenced(scan.it)
        out  == Append(scan.out, Entry(GetId(here), GetValue(here)))
    IN  /\ pc = "scan" /\ Valid(scan.it)
        /\ HasValue(scan.it) => GetId(here) # scan.endId
        /\ IF HasValue(scan.it)
           THEN /\ scan' = [it |-> Increment(here), endId |-> scan.endId,
                            prefix |-> scan.prefix, out |-> out]
                /\ UNCHANGED <<pc, answer>>
           ELSE Abort /\ UNCHANGED scan
        /\ UNCHANGED <<pages, values, firstId, pos, current, dataPtr, ref, delta, pending,
                       build, nextId, loads, index, reverseIndex>>

ScanEnds(out) ==
    /\ Answer("range", scan.prefix, out)
    /\ scan' = NoScan
    /\ pc' = "ready"
    /\ UNCHANGED <<pages, values, firstId, pos, current, dataPtr, ref, delta, pending,
                   build, nextId, loads, index, reverseIndex>>

\* Mutant: the loop is left before the callback gets the last entry.
ScanBreaks_Early ==
    LET here == Dereferenced(scan.it)
    IN  /\ pc = "scan" /\ Valid(scan.it) /\ HasValue(scan.it)
        /\ GetId(here) = scan.endId
        /\ ScanEnds(scan.out)

\* The entry of the last leaf breaks the loop, after the callback.
ScanBreaks ==
    LET here == Dereferenced(scan.it)
    IN  /\ pc = "scan" /\ Valid(scan.it) /\ HasValue(scan.it)
        /\ GetId(here) = scan.endId
        /\ ScanEnds(Append(scan.out, Entry(GetId(here), GetValue(here))))

\* The chain of pages ends before the last entry is met; so does the loop when
\* the bytes of a page that was never written happen not to begin a value.
ScanRunsOut == pc = "scan" /\ ~Valid(scan.it) /\ ScanEnds(scan.out)

\* On such a page the bytes may also look like a value, of any id (0 is one that
\* no load gives) and with a text that stands for any.  The loop takes it for an
\* entry and goes on behind it, maybe outside of the page, where memory ends.
ScanAstray ==
    /\ pc = "scan" /\ Uninitialised(scan.it)
    /\ \/ Abort /\ UNCHANGED scan
       \/ ScanEnds(Append(scan.out, Entry(scan.endId, <<>>)))
       \/ /\ Len(scan.out) < MaxStray
          /\ scan' = [scan EXCEPT !.out = Append(scan.out, Entry(0, <<>>))]
          /\ UNCHANGED <<pc, answer>>
    /\ UNCHANGED <<pages, values, firstId, pos, current, dataPtr, ref, delta, pending,
                   build, nextId, loads, index, reverseIndex>>

-----------------------------------------------------------------------------
LoadStep == WriteValue \/ InsertReverse \/ InsertId \/ BulkInsertThrows \/ BulkInsertReturns

ScanStep == ScanNext \/ ScanBreaks \/ ScanRunsOut \/ ScanAstray

Next ==
    \/ \E vs \in Inputs : BulkInsert(vs)
    \/ LoadStep
    \/ \E s \in Queries : LookupValue(s) \/ RangeLookup(s)
    \/ \E i \in 0..MaxId : LookupId(i)
    \/ ScanStep

Fairness == WF_vars(LoadStep) /\ WF_vars(ScanStep)

Spec == Init /\ [][Next]_vars /\ Fairness
-----------------------------------------------------------------------------
(* Properties                                                              *)

\* What the dictionary holds as its user sees it: nothing while it is loaded
\* (or once the process is gone), then the values before the loop stopped.
Stored == IF pc \in {"ready", "threw", "scan"} THEN SubSeq(values, 1, pos - 1) ELSE <<>>

Promise == INSTANCE Dictionary WITH
              stored <- Stored, Ids <- 0..MaxId, Storable <- FullFits, HasPrefix <- StartsWith

\* The dictionary keeps the promise of Dictionary.hpp: ids are handed out in
\* order, lookups by string and by id find exactly what was inserted, a range
\* lookup gives all entries with the prefix in order, also after a load that
\* was cut short by a value with no room on any page.  It says nothing of a
\* second load, which only a debug build refuses.
KeepsPromise ==
    Promise!Init /\ [][loads' <= 1 => [Promise!Next]_<<Stored, answer>>]_vars

\* At any moment, also in the middle of a load, every leaf in the two indexes
\* decodes to the entry it was inserted for.  The radix tree depends on this
\* when an insertion compares a new key with those of its leaves (loadKey).
LeavesDecode ==
    /\ \A s \in DOMAIN reverseIndex :
          Decodes(reverseIndex[s]) /\ ValueOf(reverseIndex[s]) = s
    /\ \A i \in DOMAIN index : Decodes(index[i]) /\ IdOf(index[i]) = i

\* An entry once indexed stays where it is: a later load of the same string
\* gets an id of its own, but the string keeps leading to the first one
\* (HAT::insert).
LeavesStay ==
    [][/\ \A s \in DOMAIN reverseIndex :
              s \in DOMAIN reverseIndex' /\ reverseIndex'[s] = reverseIndex[s]
       /\ \A i \in DOMAIN index : i \in DOMAIN index' /\ index'[i] = index[i]]_vars

\* One index never has an entry without the other once the callback is done,
\* however a load ends: a string leads to the first of its entries, and the id
\* of that entry leads there too.
IndexesAgree ==
    pc # "indexed" =>
        /\ \A s \in DOMAIN reverseIndex :
              LET id == IdOf(reverseIndex[s])
              IN  id \in DOMAIN index /\ index[id] = reverseIndex[s]
        /\ \A i \in DOMAIN index :
              LET s == ValueOf(index[i])
              IN  s \in DOMAIN reverseIndex /\ IdOf(reverseIndex[s]) <= i

\* The entries at which a scan begins and is to end come from the same load; of
\* more than two loads nothing is said.
SameLoad ==
    LET first == IF scan.out = <<>> THEN GetId(scan.it) ELSE scan.out[1].id
    IN  loads <= 2 /\ (first < firstId <=> scan.endId < firstId)

\* A scan between two entries of one load always stands at a value of that load
\* and never behind the last one: it does not leave the chain, whatever load has
\* come before or after and wherever that was cut short.
ScanStaysOnChain ==
    pc = "scan" /\ SameLoad => HasValue(scan.it) /\ GetId(scan.it) <= scan.endId

\* The loop of rangeLookup stops, and without the end of the process, between
\* two entries of one load.  Between entries of two it runs off the chain.
RangeLookupEnds == (pc = "scan" /\ SameLoad) ~> AtRest
=============================================================================
