# A verification of the string dictionaries

A project of TLA+ modules, TLC configurations and TLAPS proofs about this
repository: C++ dictionaries that map strings to consecutive ids and back,
storing the strings delta-encoded on chains of memory pages.

Source paths below are relative to `src/` of the repository (the map in
`PROJECT.json` counts from the directory above it).

## The system

| Component | Source | State | Operations |
|---|---|---|---|
| Page format, iterator | `include/Page.hpp` | the bytes of a page, `nextPage`; an iterator's `dataPtr`, `nextPage`, `startOfFullString` | write a value, delta, header; `getId`, `getValue`, `*`, `++`, `bool`, `gotoOffset`, `gotoDelta`, index searches |
| Page kinds | `include/{Single,Multi}UncompressedPage.hpp`, `Dynamic*Page.hpp`, `SlottedPage.hpp`, `BottomUpPage.hpp` | the locals of their `load` | `load` values into a chain, `getByOffset`, `getByDelta`, `getId`, `getString` |
| Construction strategies | `include/StrategyBase.hpp`, `{Offset,Delta,Indirect,BottomUp}Strategy.cpp` | none: references to the two indexes | `leafCallback`, `decodeLeaf`, `rangeLookup` |
| Indexes | `ARTBase.cpp`, `ART.cpp`, `SART.cpp`, `HAT.cpp`, `Hash.cpp`, ... | a map from ids or strings to leaf values | `insert`, `lookup`, `rangeLookup` |
| Leaf store | `LeafStore.cpp` | none | `loadKey`: the key of a leaf, read back from the pages |
| String dictionary | `StringDictionary.cpp` | `nextId`, both indexes, the strategy | `bulkInsert`, `lookup` by string and id, `rangeLookup` |
| Dictionary | `include/Dictionary.hpp` | `nextId` | the interface and `size` |
| Simple dictionary | `SimpleDictionary.cpp` | two hash maps | `insert`, `bulkInsert`, `update`, `lookup` |
| Turtle parser | `TurtleParser.cpp` | read buffer, slot for a token, queue of triples, base, prefixes | `parse`, `next`, `unget`, `read`, `unread` |
| Performance tests | `PerformanceTestRunner.cpp` | | `getValues`, `getRandomIDs`, `splitForBulkLoad`, the benchmark loops |

How they interact: `bulkInsert` gives every value an id and hands the pairs to
the static `load` of the page kind.  The loader calls the strategy back for each
value it has written; the strategy encodes where the value is as a 64-bit leaf
value (page address and a 16-bit number) and inserts it in the reverse index
(string to leaf) and the index (id to leaf).  A radix tree does not store its
keys: during those insertions it asks the leaf store, which is the dictionary,
for the keys of other leaves, and the dictionary decodes them from pages that
are still under construction.  Lookups find a leaf and decode it to a page
iterator; a range lookup decodes the first and the last leaf and walks the chain
of pages from one to the other.

The program is sequential.  What makes it hard is not interleaving of threads
but re-entrance (the callback reads what the loop is writing), partial failure
(the loader throws in mid-load), fixed-width fields and fixed-size pages, and
long legal sequences of calls.  `PROJECT.json` lists these hazards line by line.

What makes each component correct:

* pages: nothing is written outside the data array; what is written is read back,
  by offset, by number and by walking the chain; pages are not left half empty;
* strategies and indexes: a leaf decodes to the entry it was made for, at any
  moment from its insertion on; both indexes know the same entries;
* dictionary: it behaves as a map from strings to ids with prefix search;
* radix trees: they behave as maps; the sparse tree finds the page to search;
* parser: the characters and triples it gives are those of the input, in order,
  once; the recovery after an error ends.

## Modules

| Module | Models |
|---|---|
| `MachineTypes` | the ranges of the integer types, as constants with assumptions |
| `ByteStrings` | strings of bytes, common prefixes and deltas (`include/Page.hpp`) |
| `PageFormat` | cells and pages, and the page iterator (`include/Page.hpp`) |
| `SinglePage` | the loader of `SingleUncompressedPage`, with the callback as an interruption of its loop |
| `LeafEncoding` | `encodeLeaf`/`decodeLeaf`, `makeLeaf`/`getLeafValue` on machine words |
| `Dictionary` | abstract specification: what a dictionary promises |
| `StringDictionary` | `StringDictionary<ART, HAT, SingleUncompressedPage<N>, OffsetStrategy or DeltaStrategy>` |
| `IndexedPage` | the other pages: the loaders of `SlottedPage`, `BottomUpPage`, `DynamicPage`, `DynamicSlottedPage` and `MultiUncompressedPage`, the index searches of `include/Page.hpp` |
| `SparseTree` | the lookups of `SART.cpp`, on the set of keys that were inserted |
| `IndexedDictionary` | `StringDictionary` on each of these pages: `SlottedPage` and `DynamicSlottedPage` with `IndirectStrategy`, `DynamicPage` and `MultiUncompressedPage` with `OffsetStrategy`, all with `ART` and `HAT`; `BottomUpPage` with `BottomUpStrategy`, `ART` and `SART` |
| `KeyMap` | abstract specification: what a radix tree promises |
| `RadixTree` | `ARTBase.cpp`, `ART.cpp`: insertion, lookup, prefix lookup, one node at a time |
| `ByteMap` | abstract specification: what an inner node promises |
| `NodeLayout` | the four layouts of an inner node and the changes between them |
| `TurtleTokens` | what the lexer gives and the parser takes |
| `TurtleLexer` | the lexer of `TurtleParser.cpp`, from the characters of a stream to tokens, with its read buffer |
| `TurtleParser` | the parser of `TurtleParser.cpp`, from tokens to triples |
| `TurtleGrammar` | reference: documents as trees, their tokens, the triples they mean |
| `TurtleDelivery` | the parser against the reference |
| `GetValues` | `getValues` of `PerformanceTestRunner.cpp`: stream, lexer, parser and the collection of their strings, composed |
| `MCSinglePage`, `MCStringDictionary`, `MCIndexedDictionary`, `MCRadixTree`, `MCTurtleParser`, `MCGetValues` | words, files, keys, inputs and queries for TLC |
| `PageFormatProofs`, `StringDictionaryProofs` (with the loader of `SinglePage`), `IndexedPageProofs`, `IndexedDictionaryProofs` (loads), `IndexedLookupProofs` (lookups), `RadixTreeProofs`, `NodeLayoutProofs`, `TurtleParserProofs` | lemmas and theorems |

**Pages.**  The bytes of one stored value are a cell; `pages[p].cells` maps the
offset of each cell, counted from the first byte of the page's data, to the cell.
An offset with no cell is one where no value starts: reading there is what the
assertions in `Page.hpp` catch, and they are compiled into release builds too.
`end` is the offset of the EndOfPage header, `next` the next page.  Pages are
numbered in the order they are allocated, and the number stands for the address.
Strings are sequences of naturals; their lengths and the room they take are
exact, to the byte.  `Written` is what the loader writes, `Occupied` what a reader
skips: they differ when a length does not fit its 16-bit field.

**The loader.**  One iteration of the loop of `load` writes a value
(`StartPage` or `AppendDelta`), enters the callback with its arguments in
`pending`, and is over when the callback returns (`Return`).  `Throw` is "Can't
fit on page": the finished page is already linked to a new, empty one.  `Finish`
writes the last EndOfPage header; with no value to load it writes through a null
pointer, which the model shows as `pc = "crashed"`.

**The dictionary.**  `BulkInsert` takes all ids first.  The callback is two
steps, `InsertReverse` and `InsertId`, so that the state between the two
insertions is a state of the model.  A range lookup is one step per turn of its
loop.  The indexes are maps: the HAT-trie keeps the first value of a key, and the
leaf value that comes back from the radix tree has been through its tagged
pointers (`ThroughTree`).  After a first load that threw and a second one, a scan
from an entry of the first runs onto a page that nobody has written (`Uninitialised`); what it reads
there is any outcome of the bytes: the end, or up to `MaxStray` strings, the last match among
them or not (`ScanAstray`).  Failed assertions end in `pc = "crashed"`; debug builds
check more (`build.debug`).

**Pages with an index.**  The loaders of the two are one piece of code in the repository,
copied, and so one module: `kind` tells them apart.  `slots[p]` is the index of
page `p`, offsets count from the uncompressed value behind it.  `DeltasThatFit` is the
first pass, which counts, `WriteDelta` the second, which writes.  A delta is counted
when it fits *and another value follows*, so the last value of an input is alone on the
last page.  `BottomUpPage` calls back a second time for the last value of a page
(`RetroInserts`), before it writes the first one of the next.  `SlottedPage` throws when
a string does not fit (`"threw"`); `BottomUpPage` has a `throw` with nothing to throw,
which ends the process (`"terminated"`).  The searches are recursive functions with the
bounds of the binary search in the code as arguments.

**Dynamic pages.**  The same module has the two kinds of page that are as large as they
must be: `sizes[p]`, the size of each page, is computed (`BlockSize`) from the block of
values with the same first character that the binary search `FindBlock` has found, and only
then the page is written (`OpenBlock`, `WriteFull`, `WriteDelta`).  The callback for its
first value comes before the value is there.  `TPrefixSize` is 1, as wherever the
repository names these pages.  A slotted one checks that an offset fits in 16 bits
(`OffsetFits`), the plain one truncates it.

**Pages with several uncompressed values.**  `MultiUncompressedPage` begins every
`Frequency` values with an uncompressed one; the number of a value behind it and its offset
share the 16 bits of a leaf (`EncodeDeltaAndOffset`), and `GotoOffsetWithDelta` takes them
apart.  Opening a page, when the value does not fit, and writing it are one step
(`WriteMulti`).  No dictionary of the repository uses this page, a test does
(`test/PageTests.cpp`); the model puts it under the offset strategy, whose `decodeLeaf` is
the only caller there is for its `getByOffset`.

**The dictionaries on these pages.**  A leaf of `IndirectStrategy` names an entry of the index.
`BottomUpStrategy` has three kinds: the first value of a page goes to both indexes, a delta
only to the index of ids, a last value only to the reverse index.  A lookup by string asks
the sparse tree for a page near it (`Landing`) and searches on from there (`IndexSearch`).
Failed assertions, of `getId` on a null iterator above all, end in `"aborted"`; a key given
to the radix tree a second time ends in `"overrun"`, because `ARTBase::insertValue` then
looks for a difference behind the end of both keys.

**The sparse tree.**  What a radix tree looks like depends on its keys only, so a subtree
is the set of its keys, and a lookup is a function of that set.  This holds while no
prefix is longer than a node keeps (see `RadixTree` and its findings for when it is).

**The radix tree.**  `walk` holds the locals of the running call; a step is one turn
of the loop of a lookup or one activation of `insertValue`.  Node numbers stand for
addresses, and a node that grows gets a new one, as in the code.  An inner node
keeps `prefixLength` and at most `MaxPrefixLength` (the real 9) bytes of its prefix;
the rest is read back through the leaf store, the constant `LeafKey`.  Keys and
buffers are memory of a known length, and the code reads behind the end of both: the
bytes there are an unknown `after`, chosen for each buffer.  `op = "overrun"` is the
loop that looks for the first difference of two keys leaving both of them.  Reverse
indexes get their keys in ascending order (`sorted`), because `getValues` returns a
sorted set; ids arrive in the order of insertion, which a model of all orders covers.
`minimum` and `maximum` call themselves once per node on the way down, so that as many steps
as there are nodes (`Height`) reach a leaf.  What the callers see to, and the theorems
suppose, is stated in the module: keys of which none is the beginning of another, and so on.

**A node's layout.**  `NodeLayout` has the arrays of the four kinds of node, the
flipped sign bit of `Node16`, the index of `Node48` with its empty marker, and the
neighbour searches of the sparse tree.  `RadixTree` sees a node as a function from bytes
to children; `ByteMap`, which `NodeLayout` implements, is the reason it may.

**The parser.**  The functions of the parser are recursive; `stack` is the stack of their
calls, the one that runs first.  A frame says where its function goes on (`at`) and keeps
the locals it needs there; a step reads a token, or calls, or returns.  What a function
gives its caller is in `node`.  A token is its kind and its text, the text a sequence of
pieces (what prefixes and bases are put together from); two kinds that the code does not have
stand for an exception of the lexer, `"Error"` where no token starts and `"Broken"` where it
throws within one.  In the run `turtle` the tokens are given, in `get_values` they
come from the lexer.  `putBack` is the one slot for a token that was put back, `triples` and
`triplesReader` the queue that `parse` serves first.  An exception empties the stack and
leaves everything else as it was, because the code has nothing that would undo it.  The
caller calls `parse` again after a triple, after an exception, and after the end.

The reference has no such state.  `TurtleGrammar` gives the tokens and the triples of
a document by recursion over its tree; a blank node without a label is named by its path.
`StatementsDelivered` compares bags of triples up to an injection of those names into the
numbers that the parser has used.

**The lexer.**  One step is one call of `read` and what is done with the character; `at`
says which loop of `next`, `lexNumber`, `lexString`, `lexURI` or `lexEscape` made it, `token`
is the text so far, `escape` the hex digits to come and the loop to go back to.  The buffer
is where it starts in the file (`readBuffer`) and its two pointers; `Fetch(1)` reads a
character and `Fetch(0)` reads one and puts it back, which is one step since nothing comes
between them.  A read of the stream fills the buffer; a short one ends the stream (`good`).

**The loop of `getValues`.**  The parser steps until it needs a token (`Asks`), the lexer
until it has one (`ReadToken`).  After a triple its three texts are `collected`, after an
exception the loop "recover..." takes characters from the stream itself (`Recover`), past
what the lexer has in its buffer, and at the end `reading` is `"done"`.

## Runs

| Run | What it shows |
|---|---|
| `single_page` | every sorted set of at most 6 of 10 words, pages of 44 bytes: no write outside a page, every callback can read its value by offset and by number, walking the chain gives the input, pages are full, every load ends; the invariant of the proofs |
| `dictionary` | a release build with the offset strategy and a debug build with the delta strategy, every sorted set of at most 4 of 6 words, in release builds also a second load: refines `Dictionary`, leaves decode also in mid-load, the indexes agree, entries stay where they are; a range lookup between two entries of one load never leaves its chain of pages, and ends |
| `indexed` | the five kinds of page, of 48 bytes or of the size of a block, every sorted set of at most 5 of 11 words: index and values fit the page, a dynamic page has the whole block of its character and is used to the last byte, leaves decode in mid-load, what a call gives back refines `Dictionary`; the sparse tree never leads past a value that shares its first character with a key, the search reaches every value unless a page without deltas is in between, and never leaves the chain |
| `radix` | ids as keys of eight bytes, in every order, and any of seven strings in ascending order, with common prefixes longer than a node keeps; they fulfil all that the theorems suppose: implements `KeyMap`, every node and leaf is linked once, paths spell keys, ranges are exact, calls return |
| `node_layout` | every order of insertions into one node, through all four layouts: implements `ByteMap`, children in order of unsigned bytes; the invariant of the proofs |
| `turtle` | about 4 300 Turtle files: the triples of a statement are delivered once each, whatever the nesting; nothing put back outlives a call; the caller reaches the end also over errors; reader and queue stay in step |
| `get_values` | six documents in four layouts, with three endings, at every offset from the ends of a buffer of five characters, and files broken within a token: the buffer holds what the stream gave last, no character is lost or repeated, the tokens are those written, the texts of the triples are collected, the call returns |
| `long_string` | *violation*: a string longer than a 16-bit length is written past its page |
| `sparse_lost` | *violation*: a string that was loaded is not found through the sparse tree |
| `sparse_range` | *violation*: a range lookup on bottom-up pages gives a value without the prefix |
| `radix_lost` | *violation*: a short key breaks a long prefix, and a key inserted before is lost |
| `recovery` | *violation*: after an error at the end of a file `getValues` does not return |

Bounds.  A page of 44 bytes holds one uncompressed value and up to two deltas
besides the header, so six words make chains of up to three pages or more, with ends
at every position; the words share prefixes of every length, one is empty, one
fills a page to the last byte, and one is a byte too long for any page, so that a
load is cut short at every position.  In the dictionary runs the long word comes among the
others in the sorted order; it never fits, as a delta neither, so that a load is cut short at
its first page or at a later one.
Inputs are sorted and without duplicates, as the tests and the benchmark pass
them; range lookups depend on it.  `MaxId`, `MaxValues` and `MaxLoads` are the
bounds, and `MaxStray` for a scan that reads bytes nobody wrote (below).  String lengths and offsets have their real width of 16 bits.  The
machine word has 30 bits instead of 64 (TLC's integers have 32): that leaves 13
bits for page numbers, and the models use fewer than ten.  `LeavesRoundTrip`
covers every width.

A page with an index of 48 bytes, as in `test/IntegrationTests.cpp`, holds a value and up to
two deltas, so five values make chains of three pages with deltas, on which a search has to
go on twice, and chains with a page without deltas in the middle or at the end.  The words
have four different first characters, one of them 200, which is negative as a `char`.  One
load, and one lookup after it, since lookups change nothing; the
ranges of bottom-up pages are left out of the refinement, since they are wrong (below).  On
the multi pages every second value is uncompressed, so that five values open pages at each
phase of the count; the longest word fits on such a page.

In the radix tree runs a node is full with two children, so that growing and its
relinking happen with five keys; the seven strings have prefixes of others among
them, and four of equal length whose common prefix (12, 10 and 7 bytes) no node or
one node keeps whole.  They leave out strings that are shorter than a prefix they
break, which is a finding, and strings that end where a skipped prefix ends, which is
an observation below.  `MCHypotheses` has TLC evaluate that all these trees fulfil what the
theorems suppose, for the invariants, for the map and for the ranges.
The layout run has capacities 2, 3 and 5 and bytes from 0 to 7, for 4, 16, 48 and
256: every layout is full at some time and gets one child more.

The Turtle files have every kind of term as subject, predicate and object, every shape of
a list with up to two lines of one or three objects, at the top and in brackets, with and
without a final semicolon, brackets and collections two deep, and directives that change
between two statements; at most four blank nodes without a label in a file.  Broken
files have one token less, or an illegal character, a semicolon or `_` in its
place, at every position: what comes before the damage must have been delivered, and the
end must be reached.  The files leave out what the parser reads otherwise than Turtle says
(`"x"^^:t`, a prefix alone before a name, a label like `_:_0`; see the observations).

The files of `get_values` are written character by character, a character
being a letter or a run of letters that are never told apart.  The buffer has 5 of them
instead of 1024; from 0 to 4 blanks in front of a document move each of its tokens
and escapes over the end of a buffer, in four layouts (blanks, line ends, comments, nothing) and
with three endings.  Broken tokens stand at every offset, with and without a line to
recover on.  Where the file's length is a multiple of the buffer's, the properties
claim nothing (`EndsInShortRead`; see the observations).

Where a run says `CHECK_DEADLOCK FALSE` the system may stop: a loader that is
done and has nothing else to load, or a process that has crashed.

Fairness.  Once called, `load` and the loop of `rangeLookup` run on: a thread
that executes a loop takes its next step, and the callback returns.  Calls by the
user are not fair.  So weak fairness on the steps of a load and on those of a
scan.  `RangeLookupEnds` is about scans between two entries of one load (`SameLoad`); a scan
between entries of two loads, in a release build, may never end (below), and no fairness makes it.  In the radix tree the same: weak fairness on the
steps of a call that has begun.  The parser's run lets the caller go on:
weak fairness on every step, since `parse` is a loop without waiting and a caller that
wants the whole file calls it until it returns false.  `getValues` is such a caller, and the
same fairness is that of its own loop, the lexer's and the recovery's, none of which
waits.  `IndexedDictionary` states no liveness and no fairness:
its loader steps on as that of `SinglePage` does, and a lookup is one step.

## Findings

* `Page.hpp:146`: the length of a delta is cast to 16 bits before it is compared
  with the room left on the page, and only a debug build notices.
* `ARTBase.cpp:565`: the rest of a broken prefix is copied from a buffer as long as
  the new key; if the prefix is longer, the node gets bytes from behind the buffer.
* `ARTBase.cpp:478`: a value whose first character none of the inserted strings has is
  looked for on a page behind its own; the null iterator ends the process.
* `PerformanceTestRunner.cpp:447`: the loop that skips to the next line after a syntax error
  never looks for the end of the file.
* `Page.hpp:489` and `415`: the prefix searches compare at most as many bytes as the
  delta has, so a delta that is a proper prefix of what is left of the prefix matches.

Observations without a run, because no doc or test contradicts them or because they are
slight:

* `lookupPrefix` (`ARTBase.cpp:386` and `393`) compares a leaf's depth, and the matching
  bytes of one node, with the length of the whole prefix, so it misses many prefixes that
  have matches (`RangesMatch` says what it does find is right).
* `prefixMismatch` compares a prefix that a node does not keep with a key read back into a buffer as
  long as the prefix that is looked up (`ARTBase.cpp:330`): its last step is with the byte behind
  that buffer.  So a long prefix that ends one byte before two strings part may find nothing or
  a part of its range, which depends on that byte; the run and the theorem leave it out (`NoForkBehind`).
* The second `bulkInsert` a release build allows makes a chain of pages of its own, so that a
  range lookup over both runs off the end of the first (`StringDictionary.cpp:109`).  If the first load
  threw, its chain ends in a page whose bytes nobody has written (`SingleUncompressedPage.hpp:65` to 77), and
  `operator bool` and `++` take them for what they happen to be (`Page.hpp:300` to 342): the end, or
  entries that nobody inserted, maybe without end (`ScanRunsOut`, `ScanAstray`).
* `size()` is `nextId - 1` (`Dictionary.cpp:7`): after a load that threw it counts values
  that were never inserted.
* Bottom-up pages: if a finished page has no deltas and an earlier one has, its only value is
  inserted a second time (`BottomUpPage.hpp:112`); a prefix that is itself a key sends
  `sartLookupPrefix` through a leaf (`ARTBase.cpp:891`); a lookup of a string that is not
  stored ends the process instead of returning false (`StringDictionary.cpp:71`).
* `ARTBase.cpp:353`: a leaf reached at exactly the length of the key is not compared, although
  a prefix was skipped: a key that was never inserted can be found.
* Turtle: after an exception, triples that the failed statement has queued are delivered by
  the next calls (`TurtleParser.cpp:471` and others).  A new blank node is called `_:_0`
  (`TurtleParser.cpp:375`), as a label in the file may be.  `"x"^^:t` is rejected, because the
  colon is not put back before `parseQualifiedName` looks for it (line 625).  Any token
  that is no name is taken as a type after `^^`, even `.` (line 622).  A name after `p:` is
  taken as the local name across white space (line 443), so that `p: a x` has no predicate
  `a`.  The base is set before the token is known to be a URI (line 402).  The URIs of
  prefixes and datatypes are not resolved against the base.
* A file whose length is a multiple of the read buffer's: `doRead` finds nothing more,
  and has set the start of the buffer back but not its end (`TurtleParser.cpp:46`), so that the
  next read serves the last buffer again.  A caller notices if it reads on after the first
  failed read, as when the file ends with a dot, a name or a comment.  The same
  holds of a read after the recovery.
* Lexer: `#` right after a name or a number is part of it or an error, not a comment (`issep`).
  `1.5` is the integer 1 and the decimal .5.  In a long string the character behind one or
  two quotes that do not end it is dropped (`TurtleParser.cpp:207`).  `encodeUtf8` makes at most three
  bytes, so that `\U` beyond 65535 loses bits.
* Dynamic pages: `findBlock` compares an unsigned character with a signed one
  (`DynamicPage.hpp:52`), so that values with a first byte from 128 on get a page each.  An
  input of no values is read through a null pointer.  Offsets above 65535 are truncated in
  `DynamicPage` and fail an assertion in `DynamicSlottedPage`.  A string that does not fit
  never throws there: there is no limit.
* Multi pages: the first string of a page is never compared with the room on it and written
  past the end if it is too long (`MultiUncompressedPage.hpp:81`); an offset above 8191 loses
  its top bits (line 16).
* `SimpleDictionary::bulkInsert` counts one off (`SimpleDictionary.cpp:40`), but the class is
  abstract and cannot be instantiated.  `Page`'s `find` of a string names a member that does
  not exist, and is never instantiated either.
* The leaf store of the micro benchmark counts from 1, its insertions from 0
  (`PerformanceTestRunner.cpp:59`).

## Proofs

For every page size, field width and set of inputs, TLAPS proves:

* `DeltaRestores` (with `PrefixLengthProperties`): a common prefix and a delta give
  back the string, whatever the two strings are;
* `LoaderTypeCorrect`: the loader's type invariant;
* `LoaderInvariant`: `LoaderInv` is inductive, and from it `LoaderStaysInPage`
  (no write outside a page) and `LoaderOffsetsRead` (the callback reads its value);
* `LoaderDeltasRead`, `LoaderKeepsInput`, `LoaderFillsPages`: what the delta number leads to, what
  a walk along the chain of pages gives, and that a page is full before it is given up;
* `LeavesAlwaysDecode`, `IndexesAlwaysAgree`: with either strategy every leaf in an
  index decodes to its entry, also while the callback runs, and the indexes know the same
  entries when it does not, over any number of loads;
* `DictionaryKeepsPromise`: over its first load `StringDictionary` implements `Dictionary`
  (`KeepsPromise`), for every set of sorted inputs and with either strategy and build;
* `EntriesStay`, `LoadsStayInPage`: with either strategy an entry once indexed stays where it
  is, and no load writes outside a page;
* `LoadersKeepInv`, `LoadersTypeCorrect`, `LoadersWriteInPage`: the loaders of the five other
  pages keep their types and never write outside a page, whatever is counted first and
  written later (`TypeOK` and `WritesStayInPage` of `IndexedPage`);
* `LeavesAlwaysDecode` of `IndexedDictionaryProofs`: on each of these pages every leaf in an index
  decodes to the value it was inserted for, in the middle of a load too;
* `SearchesStayOnChain`: whatever string `indexSearch` looks for on a bottom-up page, and
  wherever it starts, it never runs off the end of the chain (`SearchStaysOnChain`);
* `SearchesReach`: from any page in front of it the search finds a value that was loaded, unless a
  page without deltas lies between (`SearchReaches`, for sorted inputs);
* `LookupsLandBefore`: the sparse tree never leads the lookup of a loaded value past the page that
  holds it, if any of its keys has the first character of the value (`LandsBefore`);
* `DynamicBlocksWhole`: for sorted inputs no two dynamic pages hold values with the same first
  character, and every delta has a prefix (`BlocksAreWhole`);
* `IndexedDictionaryKeepsPromise`: on each of these pages the dictionary implements `Dictionary`
  (`KeepsPromise`): what a lookup by string, id or prefix gives is what was loaded; bottom-up pages
  are not asked for ranges, and a call may end the process instead;
* `LeavesRoundTrip`: the encodings of a leaf can be undone, for page addresses that
  leave 17 bits of the word free;
* `RadixTypeCorrect`, `NothingLost`, `PathsLead`: through all insertions every inner node and every
  inserted key of the radix tree is linked exactly once, and the way of a key from the root
  spells it and ends at its leaf (`TypeOK`, `EverythingLinkedOnce`, `PathsSpellKeys`);
* `InsertedIsFound`: a lookup finds every key that was inserted (`StoredIsFound`, under a
  hypothesis that leaves out the finding at `ARTBase.cpp:565`);
* `TreeImplementsMap`, `RangesAreWhole`: also where keys share more than a node keeps, the radix tree
  implements `KeyMap` (`ImplementsMap`), and a range it finds is that of all keys with the prefix and no
  others (`RangesMatch`), under two hypotheses about where long prefixes end;
* `LayoutInvariant`, `NodeIsMap`, `NodeInOrder`: a node's arrays are well formed through all
  changes of layout, a node implements `ByteMap`, and its first child and the neighbours that
  the sparse tree asks for are those in the order of unsigned bytes, whatever the capacities;
* `BufferFollowsStream`, `CharactersOnce`: whatever the file and the size of the buffer, the
  buffer holds what the stream gave last, and the characters of a file that ends in a
  short read are served one by one;
* `ParserTypeCorrect`: whatever the file, the parser's queue is empty between two calls or is
  being read, and its reader is never past its end (`TypeOK` of `TurtleParser`);
* `SlotIsEmpty`: whatever the file, the one slot for a token is empty when `parse` returns or
  throws (`NothingPutBack`).

The invariant of the loader is needed because neither property is inductive: that a delta stays
inside its page depends on the room computed from `deltaRef`, so `CurrentPageHolds`
says that `deltaRef` is the uncompressed value of the current page and that
`dataPtr` is past all cells; that the value is read back depends on cells never
being overwritten and on sizes having been stored untruncated (`PagesHold`).

`LoaderDeltasRead`, `LoaderKeepsInput` and `LoaderFillsPages` rest on `ChainInv` of `StringDictionaryProofs`.  Walking a page, and counting from its
first value, are recursive functions of the cells; what makes them computable is
that the cells of a page have no gap (`CellsLinked`: behind each cell lies the next one or the
place where the loop stands) and that ids go up by one along them.  `GotoDeltaFinds`
then says that walking to the delta number of a cell ends at that cell, by induction on the
number of cells that were passed (the least one that is wrong has a predecessor that is
right).  `PagesFollow` says that the first id of a page is one above the last of the page
before and that the link leads there, so that an iterator standing at the pair k stands at
k + 1 after `++` (`StandingSteps`), and a walk from the first value follows the input
(`WalkFollowsPath`).

`DictionaryInv` is the invariant of the dictionary.  What a leaf leads to is written as a
function of the pages (`Leads`, `TextAt`, `IdAt`), so that one lemma covers every step:
pages only grow (`Grown`), and what a leaf leads to stays as it is (`LeadsOn`).  Each entry
of an index leads to a pair that the other index has too, except between the two insertions
of one callback, when the new entry of the reverse index is the pending leaf.  That an
insertion replaces nothing needs that the ids in the index are below the next one, which
holds over loads because the ids that are given out (`nextId`) count the values of earlier
loads.  A leaf of the delta strategy holds a number of values instead of an
offset; `Means` covers both, since ids go up by one along a page.  The encodings require that
the addresses of the pages fit in a leaf, beside the number and the tag.  `PageCount` says how
many pages there are: each holds a value, except one for each exception.  The assumption
`FewPages` is therefore about the bounds alone: as many addresses as there may be ids
and loads fit in a leaf.

`DictionaryKeepsPromise` needs to know in each state what the indexes know and nothing else
(`FirstLoad`): the ids are those below `pos`, the strings those before `pos`, or up to it
between the two insertions, and the pages hold the input.  Its assumption
`SortedInputs` is what the callers of `bulkInsert` provide.  In sorted strings those with a prefix
are a range (`LexPrefix`, `RangeEnds`), so the two leaves that the HAT-trie finds are its
ends.  The loop of `rangeLookup` takes many steps where `Dictionary` takes one: `ScanAt`
says that the iterator stands at the value k of the range and that the callback has been
given those before it.  It follows that the loop meets its last id before the chain ends, that
no assertion on the way fails, and that the step that ends it maps to the range lookup of `Dictionary`, a
load that returns or throws to its `BulkInsert`, and all others to a stutter.

`LoadersWriteInPage` relates two passes over the same values.  `Room` is what the first pass adds
up for the index, the first value of a page and the deltas behind it; `Counted` says that all
of it fits (or, on a dynamic page, fills the page), `Reached` that after d values the loader stands
where the first d of them end (`DeltaReached`, and `EndReached` for the last one).  The sums and the
search for the end of a block are recursive functions of the number of values and of the span
that is searched.  That such a function exists, and what it gives, is proved by the least
argument for which it would fail (`Recursion`, `Totals`, `RoomBehind`, `FindBlockMeans`).  The first value
of a page, `First`, moves from `pos` to values behind it while the page is filled.
A multi page counts nothing in advance: `MultiInv` says that the value which the next delta
refers to is on the page, and that the end header fits.

`LeavesAlwaysDecode` of `IndexedDictionaryProofs` has a `DictionaryInv` of its own.  `ContentInv` says what is on a page:
each cell has the delta against the uncompressed value it refers to and the id that
counting from there gives (`SoundCells`), each entry of the index leads to its cell
(`EntriesLead`), and on a multi page walking from an uncompressed value passes one cell per
number (`Run`); `CurrentInv` adds what the loop knows of the page it is
writing.  `PendingInv` says that the arguments of the callback lead to the value it is called
for, `LeavesInv` that all leaves do.  What leads somewhere keeps doing so because pages only grow
(`Grown`, `Onwards`).  The exception is a dynamic page, whose loader calls back before it writes
the first value: until then the leaf is right only in that the value is about to be
written there (`AnnouncedAt`), and no step of a lookup lies between.
`OnceInv` says that a page which is given up without an entry in its index holds a value the tree has
already: the insertion of that page's last value then fails in the tree, and nobody asks where the
last entry of such an index leads (`LastOn`: to the byte behind the header, where no value is).

`SearchesStayOnChain` needs to know where the pages end.  `ChainInv` says that the cells of a
page follow each other without a gap, each with the id behind the one before and with the
uncompressed value that its delta refers to (`Woven`), that the pages are linked in
their order (`Links`) and that the ids go on from page to page.  A search goes to the
next page only if the block found on this one has deltas behind its first value, and
`TailInv` says that the last page has none: what the first pass counts for a page
(`Fitting`) always leaves a value of the input for a later page, unless it counts no delta at all.

`DynamicBlocksWhole` is about `findBlock`.  `BlocksInv` says that the values counted for a page
are those with the character of its first (`BlockEnds`), that what is still to be written
has none of the characters of the pages before (`Passed`), and that no two of these have the same
(`Apart`).  This takes inputs in ascending order (`SortedInputs`), which the callers of
`bulkInsert` provide.

`IndexedDictionaryKeepsPromise` adds `KnowInv` to `DictionaryInv` and `ChainInv`: how many ids the index
has in each state, and which strings the reverse index (on bottom-up pages, only values of the
input).  From there each kind of lookup has its own argument.  A leaf gives an iterator
that sits on a cell of the chain and whose `++` moves to the next value (`Sits`), so that a lookup by id
ends at the value counted, and the loop of `rangeLookup` is a function of the turn
it has reached (`TurnGoesOn`); the entries are those with the prefix by the lemmas on sorted strings that
`DictionaryKeepsPromise` uses too.  Through the sparse tree a lookup on bottom-up pages
may land anywhere, but it lands on a key: the walk down the tree is a function of the keys below a
node, these become fewer, and their common prefix grows (`LookupEnds`, for which the keys must
have no zero byte before their end, `NoZeros`).  Wherever `indexSearch` starts, it returns a
cell only if the uncompressed value or the delta there is the string asked for: the last
delta and the binary search compare what remains after a prefix that they have found to be
the same (`IndexSearchFinds`, `BinarySearchHits`).  What is *not* promised is that a value is found:
the lookup may end the process, which `SearchReaches` and the observations are about.

`SearchesReach` is the other direction, for sorted inputs.  `PackedInv` adds that the index of a
page lists all its deltas, and that a page which was left has a full index and is followed by
the next value (`LeftFull`).  The order of the entries is the order of strings in disguise:
a delta with a longer common prefix counts as smaller, and only of equal ones are the bytes
compared.  `DeltaCompares` shows that both agree with the order of the whole strings, as long
as the uncompressed value is smaller than either; it needs that of three strings in order
the first has no more in common with the last than with the one between (`PrefixShrinks`).  Seen
from the entries of a page, a value is thus at one of them or behind all (`EntryPosition`), the
binary search ends at that one (`BinarySearchFinds`), and a page whose values are all smaller is
left for the next one (`LeavesBefore`).  From the page of the value the argument goes backwards
along the chain (`ReachedBefore`), and stops at a page without deltas, as the search does.

`LookupsLandBefore` says where that search begins, and so why the loader calls back twice.
`BridgeInv` says what the tree has: the first value of every page, and the value in front of it
where both have the same first character, except those that the running callback is called for.
Behind a value k, the first value b of each later page is then a gate (`Gate`).  A lookup of k can
only get to b by going to the least key of a greater neighbour (`LeastAtGate`): b and the key in
front of it then differ in their first character, or the tree would have both and the least key
would lie further in front.  So this happens at the root only, where no key has the first
character of k, which is the hypothesis.  Everywhere else the walk keeps, on its way to k, all keys between k and
any key of the subtree (`OnWay`, kept by `StaysOnWay`), and ends in front of the gate
(`LookupNotPast`).  Pages ascend with the values, so the leaf it ends at leads no further than the page of
k (`PagesAscend`).  As in the theorem before, the keys are C strings (`NoZeros`) and the inputs
sorted.

The theorems about the radix tree rest on `TreeInv` (`AlwaysTree`).  The walks of the properties are
not a good invariant: an insertion changes many of them, in the middle.  So the invariant says
that there are, beside the nodes, three functions that the code does not have: `from`, how many bytes of a
key are consumed before a node, `under`, some stored key below it, and `depth`, how many bytes are consumed
before a leaf.  With these, being on the way of a key is no longer about the way: a key passes a node if it
has the bytes of `under` up to where the node selects a child (`Passes`).  `IsTree` then says, of each
node by itself, that it keeps the bytes of its prefix (`Keeps`), that the child of a byte leads to the
stored keys with that byte and to no others, and that there are two (`Branches`), that something points to it
(`Linked`), and that of two nodes on the way of a key one begins behind the other (`Nested`).  Each of the
five kinds of change is then an update of the three functions: a leaf that is split and a prefix that is broken are
both a fork (`ForkStep`), a child is added with or without a larger node (`AddChildStep`).  What an
insertion knows of the place it has reached is that its own key leads there (`InsertFacts`).  `minimum`
ends at a leaf below (`MinimumFirst`, by the greatest number of bytes consumed, since the walk goes down),
which is why the first difference from that leaf's key is that from all keys below (`InsertMismatch`).
That each reference has one pointer follows from `Branches`, since two pointers would lead to one key
by two ways; the properties about walks follow by the least step of the walk that would fail.

The hypotheses are about keys, not about trees, and stand in `RadixTree`.  `KeyHypotheses`: the leaf
store gives back the keys (`StoreGivesKeys`, which is `LeavesDecode` of the dictionaries); no key of a
tree is the beginning of another (`KeysApart`: ids have eight bytes, strings a zero byte at their end
only); and what two keys share beyond `MaxPrefixLength` bytes is not longer than a key inserted later
(`LongEnough`).  The last is what the code needs and does not see to, the run `radix_lost` shows why; ids
fulfil it always, as they have less than nine bytes.  `InsertedIsFound` needs that no key is empty.
A lookup skips the bytes that a node does not keep, and compares the leaf at the end; only if it
arrives there exactly at the end of the key it does not (`ARTBase.cpp:353`, an observation above).
`TreeImplementsMap` therefore supposes of the keys that where two of them share at least what a node keeps and
part in the last byte of a key that is looked up, that one begins as they do (`SkipsAreChecked`); ids
are too short for it to matter.  A key which is looked up is also not the beginning of another (`QueriesApart`).
Its step is that an insertion that returns has added its key, and that a lookup that has
come down to a leaf agrees with the leaf's key in all bytes passed or has skipped some and will compare
them all (`Tracks`, `LookupExact`).
`RangesAreWhole` supposes that a key ends in its only zero byte (`ZerosEnd`): the walk
for a prefix then passes all keys with the prefix (`RangingOver`), and the least and greatest leaf
below are the first and last of them, because at each node they take the least and the greatest byte
(`MinimumFirst`, `MaximumLast`).  A prefix that a node does not keep is read back, and compared in full but for the
last byte, which lies behind the buffer (see the observations): `NoForkBehind` says that no node begins there.

`NodeIsMap` rests on `LayoutInv` (keys sorted and dense, in `Node48` an index that is
injective and below the count): an insertion adds the child of one byte and keeps
every other, which `FindChild` shows only if no slot is shared.  That `Node16` keeps its
keys in order needs the lemma that flipping the sign bit turns the signed comparison
into the unsigned one.  `NodeInOrder` then needs that a sorted array has its bytes in the order of its
slots (`SortedEnds`), and that the other two layouts are searched in the order of bytes
(`IndexedLayout`).

`CharactersOnce` fails exactly in a read that finds nothing while the stream is still
good, since that one sets the pointer back.  `BufferInv` says why it does not happen: as long
as the stream is good every read of it was full, so `position` is a multiple of the buffer's
size (`Fulls`), and nothing but the lexer has read from it before the first exception.  Its
assumptions are that a buffer has room for a character (`BufferSizeAssumption`) and that files
are sequences (`FilesAssumption`).

`SlotIsEmpty` has no assumption.  That the slot is empty between calls is not inductive: a
function that returns may have put a token back, and whether it is read again depends on its
caller.  `SlotInv` adds that a frame of `parse` itself lies at the bottom of the
stack and nowhere else (`Founded`).  The stack then becomes empty only in a step of such
a frame, which takes the token that it reads, or in an exception, which has read it.

`ParserTypeCorrect` rests on `QueueInv`: while a function runs the reader is 0, since `parse`
begins a statement only when all of the queue has been served, and then both are reset.  All
that a statement adds to the queue, whether it throws or not, is therefore behind the reader.
Its assumption `SpelledSources` is that a token has a text only if its kind has one, as the
lexer gives them.

`FitsWidths` is the assumption of `LoaderStaysInPage` and `LoaderOffsetsRead`, and of the
theorems about the dictionary: pages are not larger than 16-bit offsets can address, and no
string is longer than a 16-bit length can count.  In `IndexedPageProofs` it adds that each
value fits on an empty multi page, whose first value is written unchecked.  The
run `long_string` shows that the second is necessary.  The type invariant of `SinglePage` needs
neither.  `LeavesFit` is what the leaves of the other dictionaries need: the addresses of as
many pages as an input has values fit in a leaf, a dynamic page is not longer than 16-bit offsets
reach, and on a multi page the number of a value has three bits and its offset thirteen, so that pages
have at most 8 KiB and `Frequency` is at most 8.  The code checks none of these (see the
observations above).

Only model-checked:

* `TokensAsWritten` and `ValuesCollected` of `GetValues`: they relate a file to the tokens that were
  written into it, and what a lexer makes of characters is again recursion over the file.
* `StatementsDelivered`: the reference grammar is a recursive operator, which the prover cannot load.
* Liveness, which is beyond the prover.

## Not modelled

`Dictionary::Iterator` and the classes written against it (`ARTDictionary`,
`HARTDictionary`, `UncompressedDictionary`, ...) are not in the build and no longer
compile.  `SimpleDictionary` is compiled but abstract.  `StringDictionary::insert` and the `erase`
functions of the radix tree are never called (the first only throws).  The other indexes
wrap maps of a library and have no state of their own.  Random choices, timing, output and
`fork` in the benchmark are I/O.  boost, the HAT-trie, the B-trees and the test framework are
vendored: nearly all lines of the tree are theirs.

Three hazards have no property.  A load of nothing writes the end header through a null pointer
(`SingleUncompressedPage.hpp:100`): it ends in a failed process.  A prefix that is itself a key sends `sartLookupPrefix`
through a leaf: the model ends such a lookup as a failed process (`GoesWild`), which
nothing in the repository forbids.  Triples that a failed statement has queued are
delivered later: no text says what a caller may expect.

## Plan

All components with state of their own that the build uses are modelled, and every invariant that the
runs check is proved, except those of the lexer and the grammar above.  What is left is a sharper
`SkipsAreChecked`: it is sufficient, and for the strings of a loaded dictionary perhaps not necessary.
