# rdf4cpp in TLA+

TLA+ models of rdf4cpp, the TLC configurations that check them on small
instances, and theorems about them checked by TLAPS. Paths are relative to
`src/src/rdf4cpp` unless they start with `src/`.

## 1. The system

rdf4cpp is a library. A *node* (IRI, blank node, literal, variable) is a 64-bit
id into a *node storage*, or the value itself when it fits (inlining). Graphs and
datasets are hash sets of ids. Parsers make nodes and quads; writers print them. Operations on literals go through a
registry of datatypes, which knows how to read, write, convert and compute with each.

| component | state | operations | hard behaviour | what makes it correct |
|---|---|---|---|---|
| Index freelist (`storage/reference_node_storage/detail/IndexFreeList.hpp`) | a bitmap, a cached next free index | occupy next, occupy until, vacate, shrink, clear | the cache against the bitmap, word boundaries, dropped words | the cached index is the lowest free one; writes stay in the bitmap |
| Two-way map (`detail/BiDirFlatMap.hpp`) | vector id→value, hash set of (hash, id), freelist | lookup both ways, insert, insert at, erase, reserve, shrink, clear | colliding hashes, ids that are reused, three containers in step | the two directions are one injective map, the freelist knows its holes |
| Unsynchronized node storage (`UnsyncReferenceNodeStorage.cpp`) | one map per node type | find_or_make_id, find_id, backend lookups, erase, shrink, clear | reserved datatype ids | one id per value, reserved IRIs stay |
| Synchronized node storage (`SyncReferenceNodeStorage.cpp`, concept in `storage/NodeStorage.hpp`) | the same with a `std::shared_mutex` each | the same without clear | the lock is given up between the lookup and the insert | linearizable; every call returns |
| Blank node management (`bnode_mngt/`) | per scope label→node and node→label, generator counter; per manager name→scope | get_or_generate_node, clear, scope, generate | three critical sections in one call | a label has one node per scope, nodes of different labels differ |
| Dataset, Graph (`Dataset.cpp`, `Graph.cpp`) | hash map graph→graph, hash sets of triples; iterators | add, graph, contains, size, iterate, match | nested iterators over empty graphs and graphs without a match | iteration and match see exactly the quads that were added |
| Patterns, solutions (`query/`) | the pattern, the partial mapping | part of match | positions of variables | a solution binds what the pattern says |
| Identifiers (`storage/identifier/`) | none (bit fields) | packing, tagging, inlining | field widths, signs, offsets | unpacking inverts packing |
| Nodes (`Node.cpp`, `IRI.cpp`, `BlankNode.cpp`, ...) | a handle | copying between storages, comparing | inlined and reserved ids | copying keeps the meaning |
| Literals (`Literal.cpp`, `TriBool.hpp`) | a handle whose value is in the id, in the storage, or text there | make, move, compare, order, arithmetic, cast, string functions | the same value in three forms; three-valued logic | an operation gives the same answer for every form and both orders of its operands |
| Datatype registry (`datatypes/registry/`) | table of the datatypes, the users' sorted behind the fixed ones | add, find, common type, convert | binary search, two conversion ladders walked from the lower rank | every registered type is found; conversions apply to the right operand |
| Numeric types (`BigDecimal.hpp`, `datatypes/xsd/`) | values | arithmetic, rounding, packing | widths, scaling, ties | agreement with exact arithmetic |
| Time types (`Timezone.hpp`, `datatypes/xsd/time/`) | values | arithmetic, comparison, packing | month ends, timezones, partial order | XML Schema's addition, symmetric comparison |
| Namespaces | cache of suffixes | lookup, clear | cached handles | the cache answers what the storage would |
| IRI factory (`IRIFactory.cpp`, `IRIView.cpp`) | prefix table, base, cached parts of the base | resolve, expand, set base | dot segments, the cache | agreement with RFC 3986 |
| Anonymizer, graph comparison (`util/`, `GraphComparison.hpp`) | maps of nodes | anonymize, compare | an order that must not depend on handles, blank nodes matched on the way | a mapping that is found is an isomorphism |
| Writers (`writer/`) | buffer, open statement | write, flush, begin, end | flush in the middle of a token, a full sink | output is the concatenation of what was written |
| Serd parser (`src/private/rdf4cpp/parser/IStreamQuadIteratorSerdImpl.cpp`) | buffer of quads, last error, prefixes, base | next | callbacks inside a chunk, errors beside quads, skipping a line | every quad once and in order, every fault told, the end reached |
| RDF/XML parser (`src/private/rdf4cpp/parser/XMLParser*`, `XMLStates/`) | stack of states, queue of quads and errors, ids in use | three SAX events, next | nine forms of property elements, lists across events, errors that leave no state | the states follow the elements, every property is said once |
| JSON-LD parser (`src/private/rdf4cpp/parser/JsonLd*`) | active contexts, cache of remote contexts, a coroutine per value | next | terms defined in the middle of terms, remote contexts that loop, lists and graphs link by link | the order of keys does not matter, lists are lists, protected terms stay |

**Interactions.** A node calls its storage through `DynNodeStoragePtr` (a vtable).
The storage keeps one two-way map per node type; the map owns its freelist. Stores do not
share state. A parser asks the scope manager for a scope by the name of a graph, the scope
asks its generator, the generator asks the storage for a blank node. Graphs and
datasets keep ids of one storage. All three parsers resolve references with the IRI factory
of the parsing state, which they share with their user, and put a queue between the events
of the library below them (serd, libxml, simdjson) and `next()`. Threads meet in the synchronized storage, in the
scopes and in the generators, and nowhere else.

## 2. Modules

| module | models | state → code |
|---|---|---|
| `IndexAllocator` | abstract: a set of indices in use, the least free one is handed out | |
| `IndexFreeList` | `IndexFreeList.hpp` | `freelist.next_free_ix` is `next_free_ix_`, `freelist.occupied_bitmap` the words as sets of bit offsets |
| `IndexFreeList_proofs` | theorems about it | |
| `BiDirFlatMap` | `BiDirFlatMap.hpp`, on top of the operators of `IndexFreeList` | `forward`, `backward`, `freelist` are `forward_`, `backward_`, `freelist_` |
| `InternTable` | abstract: id → value, one id per value | |
| `NodeTypeStorage` | one store of the unsynchronized storage | extends `BiDirFlatMap` with `MinId`, the reserved entries, the erase guard and `clear` |
| `NodeTypeStorage_proofs` | theorems about it, on top of those about the freelist | |
| `NodeStorage` | abstract: calls that take effect at one moment on an `InternTable` | |
| `SyncNodeStorage` | one store of the synchronized storage with its threads | `readers`, `writer` are the shared mutex, `pc` the place in the call, `entries`/`keys` the two sides of the map |
| `SyncNodeStorage_proofs` | theorems about it | |
| `NodeScope` | scopes, managers and generators with their threads | `labelToHandle`, `handleToLabel`, `counter` |
| `NodeScope_proofs` | theorems about it | |
| `GraphComparison` | `GraphComparison.hpp` as operators | a graph is a sequence of statements, a result the map and the first mismatch |
| `Dataset` | dataset, graphs, patterns and solutions | `graphs` in iteration order, `giter`/`iter` the two iterators |
| `Dataset_proofs` | theorems about it and about comparing graphs | |
| `BufWriter` | `writer/BufWriter.hpp`: `write_str` and the four writers | `buffer`, `writeArea` (a position), `writeAreaSize` as in the code, `str` what `write_str` has left, `sink` the file, stream or iterator |
| `BufWriter_proofs` | theorems about it | |
| `QuadWriter` | `WriteQuad.hpp`, `SerializationState.cpp` in the four formats | `state` is the `SerializationState`, `text` the tokens written |
| `QuadWriter_proofs` | theorems about it | |
| `JsonLdTypes` | the JSON values and the contexts, terms and mappings of `JsonLdParserTypes.hpp` | |
| `JsonLdContext` | `JsonLdContextParser.cpp`: contexts, terms, remote contexts and their cache | `st` is what the `ContextParser` keeps between contexts |
| `JsonLdExpand` | `JsonLdExpandParser.cpp`: expansion of one level | entries hold paths into the document, as `JsonLdParserPath.hpp` does |
| `JsonLdToRdf` | `JsonLdParser.cpp`: quads from expanded levels | the coroutines as operators on what was produced so far |
| `JsonLd` | the iterator over a document, and nested contexts one by one | `chain` the active context, `out` the generator, `given` what `next` has returned |
| `RdfXml` | `XMLParser*.cpp`, `XMLStates/`: the handlers of the three events | a record with the stack `st` and the output queue `o` |
| `SerdReader` | `IStreamQuadIteratorSerdImpl.cpp`: the callbacks and `next` | a record with `buffer`, `last_error`, `end_flag`, `prefixes`, `base` as in the code |
| `QuadReader` | `IStreamQuadIterator` over one of the two, with libxml or serd, the stream and the caller | `xml`/`serd` the reader, `open` the elements the document has open, `given` what `next` has returned |
| `QuadReader_proofs` | theorems about it | |
| `Datatypes` | the registry: fixed ids, capabilities, conversion ladders, common type | `dyn` are the users' entries in their order |
| `Numbers` | integers, `BigDecimal.hpp`, float and double, their packing | a decimal is `<<unscaled, exponent>>` |
| `DateTime` | the calendar, timezones, durations, their packing | a value is the tuple of its fields |
| `Literals` | `Literal.cpp`: forms, moving, operations | a literal has a form ("inlined", "value", "lexical") and a storage |
| `IriFactory` | `IRIView.cpp`, `IRIFactory.cpp` | `base`, `parts` (the cached parts) and `prefixes` |
| `Values` | a program that computes with literals or resolves references | `acc` the literal, `factory` the factory |
| `MCNodeTypeStorage`, `MCSyncNodeStorage`, `MCNodeScope`, `MCDataset`, `MCQuadWriter`, `MCQuadReader`, `MCJsonLd`, `MCValues` | values of the constants for TLC | |

An action is a whole function of the code where no other thread can run in between,
and one critical section (or half of one, for insert and erase, whose two writes a
reader must never see apart) where threads interleave. Ids in `NodeTypeStorage` are
1-based as in the code; index `i` of the vector is id `i + 1`.

Abstractions:
- Words have `BitmapBits` bits instead of 64. The literal 64 in `compose()` is read as
  the width, which it is in the only instantiation.
- `SyncNodeStorage` keeps the map as `NodeTypeStorage` leaves it (an entry and a key per
  id, the least free id next), which is what `IriStore` checks. Each
  call that a thread makes refers to an id that was handed out before.
- The twenty-odd stores of a node storage do not share state, so each is one instance.
- A generated blank node is the pair of the seed (or the prefix) of its generator and
  the number of the draw. For `RandomIdGenerator` that means that draws of 32 characters
  do not collide by chance. Prefixes such that prefix+number coincide ("a" and 11, "a1"
  and 1) are not modelled.
- The scopes of a manager exist from the start; `MergeNodeScopeManager::scope` makes them
  at the first use, without a lock, and is taken to be called by one thread.
- In `Dataset`, a hash container is a sequence into which an insertion puts its element
  anywhere, so that every iteration order is explored. Writers do not run while an
  iterator does, because they would invalidate it.
- `QuadWriter` writes a token completely or not at all; a call is the sequence of its writes,
  each with the state in which it is done, and a failing write cuts the sequence off. What part of the last token a failing sink
  received is the subject of `BufWriter`. `Graph` and `Dataset` serialize what their
  iterators yield, which `Dataset` checks, so `QuadWriter` takes any sequence of quads.
- After a call that failed nobody calls `QuadWriter` again, as in the callers of the
  library; `BufWriter` may still be finalized, as `operator<<` does.
- JSON text is a sequence of tokens, with colon, slash and keywords tokens of their own;
  what the code finds by `find(':')` is the place of a token. simdjson is external; the
  order of the keys is the order in the document. Resolving a reference is putting it behind
  the base, because `IriFactory` has the rest. A server answers a URL always alike.
- In `RdfXml` an element is its name and its attributes; the text of an XML literal is one
  token. libxml delivers the events of well-formed documents and may report at any time: an
  error that ends the document, after which no event follows, or a warning or an error from
  which it recovers, after which the events go on (`on_error` is registered for both). A chunk
  of the stream may end between any two events. An element that says `rdf:parseType` twice,
  which libxml refuses, is read by the value that decides. Which texts a datatype refuses is
  the constant `IllTyped`.
- Serd delivers the callbacks of a chunk and may fail in it; each chunk is on a line. Skipping
  a line reads from the stream as well: it comes to the end of the line or of the input, or
  the stream fails, and the reader cannot tell the last two apart.
- A text that is read as a number or a date is a sequence that says which fields it has; only
  strings are taken apart. The spelling of values is left out, except that a duration's
  fields, an hour 24, the year and the timezone are those the code writes and reads.
- Integers wrap at their width (12 bits for `xsd:integer`, for 128); a decimal has the same
  12 bits; floating point numbers lie on a grid, floats on a coarser one, both with
  infinities and NaN and no negative zero. A day has 48 ticks, a second two.
- All letters of an IRI are alike to the factory, one character stands for the refused ones.
- An operation on literals that the code ends by an exception out of a `noexcept` function,
  or that cannot read its text, has the result "failed", after which the program stops.
- `giter` of a match in a fixed graph points to that graph; the code leaves `giter_` at
  the first graph and does not read it again.

## 3. Runs

| run | checks | shows |
|---|---|---|
| `IndexFreeList` | `NextIsLowestFree`, `WriteInBounds`, `ImplementsAllocator` | the cached index stays the lowest free one and the bitmap is an allocator |
| `IriStore` | `TwoWayMap`, `FreelistMatches`, `ImplementsInternTableWithClear` | the IRI store with reserved ids and `clear` |
| `SyncStore` | `OneIdPerValue`, `Linearizable`, `CallsReturn` | the locking of the synchronized storage |
| `NodeScopes` | `TwoWay`, `OneNodePerLabel`, `LabelsApart` | racing callers of scopes, one scope per name and one for all |
| `Dataset` | `StoresWhatWasAdded`, `WalkSeesAll`, `MatchFindsAll`, `ComparisonIsRight` | contains, size, iteration and match against the set of added quads; comparing graphs against the definition of isomorphism |
| `BufWriter` | `NothingLost`, `StreamGetsAPrefix`, `WriteReturns` | writing through a small buffer into four kinds of sinks, which may fail |
| `QuadWriter` | `TextSaysTheQuads`, `StateIsWhatIsOpen` | the text read by the grammar says the quads that were accepted |
| `JsonLd` | `TermOrderIrrelevant`, `OrderIndependent`, `ListsWellFormed`, `RequestedOnce`, `CirclesAreFound`, `LabelsApart`, `ProtectedStay` | forty documents with every construct, and contexts nested two deep |
| `Readers` | `InStep`, `PropertiesSaid`, `ListsWellFormed`, `ReifiedOnce`, `StatementsInOrder`, `ReadsToTheEnd`, `XmlToldOfFailure` | RDF/XML and serd behind the iterator, with errors and streams that fail |
| `Values` | `ComparisonsMirror`, `ArithmeticIsExact`, `DatesAddUp`, `MovedIsSame`, `ResolvesAsRfc` | operations on literals of every datatype in every form; reference resolution |
| `ShortWrite` | `TrueMeansWritten` is violated | finding 1 |
| `LostFailure` | `ToldOfFailure` is violated | finding 2 |

The types of the variables (`TypeOK`) are a conjunct of the first structural invariant of
each run (`WriteInBounds`, `TwoWayMap`, `OneIdPerValue`, `TwoWay`, `StoresWhatWasAdded`, `NothingLost`,
`StateIsWhatIsOpen`, `ListsWellFormed` of `JsonLd`).

What the properties of the newer runs relate:
- `TermOrderIrrelevant` and `OrderIndependent` process a context or a document and the same
  with the entries of every object the other way round; the quads must be the same up to
  the names of generated nodes. Term definitions recurse in the middle of each other, and
  types and keys are sorted in several passes: this is where the order could slip in.
- `CirclesAreFound`: terms that need each other in a circle end in the error for circles
  and not at the limit of the stack. Both orders of a circle fail alike, so that
  `TermOrderIrrelevant` says nothing of it.
- `InStep` compares the stack of states with what the RDF/XML grammar says of the open
  elements, by their names and places alone, and the subject of each description with the
  nearest `xml:base` around it.
- `ReifiedOnce` compares any two statements that say what an IRI is the reification of, with
  errors in the document or not: an id is taken when the start tag is read, and used when the
  object is known, which may be many elements later.
- `PropertiesSaid` counts, at the end of a document without errors, the statements of every
  property element, whichever form it has; `rdf:li` get distinct numbers. The elements of
  the run have these forms: text, a node inside, `rdf:datatype` with and without text,
  `rdf:resource` with a property attribute and `rdf:ID`, a property attribute alone, and
  `rdf:parseType` with each of its three values. `rdf:nodeID` on a property goes where
  `rdf:resource` goes, and no element of the run has it.
- `StatementsInOrder` reads the document a second time, by places: what base and prefix are
  in force there, whether the statement is faulty. The quads that were returned are those
  of the good statements in their order, with one error per chunk that has a fault. After a
  failure of the stream, those of all chunks that were read are there, and the last result
  is the `Io` error, or the syntax error behind which the line was being skipped.
- `XmlToldOfFailure`: the `Io` error of an RDF/XML document comes behind all that is queued.
  `ToldOfFailure` asks the same of all formats and is violated.
- `ComparisonsMirror` compares every literal with every operand both ways round: the common
  type is searched from the lower rank, and partial orders, unreadable texts and the
  tie-breaks for ORDER BY must mirror.
- `ArithmeticIsExact` and `DatesAddUp` compare with definitions of their own (exact
  fractions; XML Schema's appendix E with the proleptic Gregorian calendar).
- `MovedIsSame`: a literal moved to a storage is the literal made there of its value.
- `ResolvesAsRfc` compares with the algorithm of RFC 3986, section 5.2, as it stands there.

**Bounds and why they are enough.**
- `IndexFreeList`: words of 3 bits and indices up to 9, so four words: a first, middle
  and last word, words that are full, partly full and empty, and growth by one word.
- `IriStore`: words of 2 bits, six values in three hash classes, so that a class
  has several members while the store spans several words; reserved ids 1 and 3 with a gap at 2. `MaxIx` is larger than the number of values, so
  it never blocks an insert.
- `SyncStore`: three threads and four calls: two that race and a third that reads or
  erases; four ids for three values, so an insert always finds a free id.
- Scopes: two threads, two labels, two names, five calls (a clear counts as one): two
  races on one label with a clear in between. `IdLimit` is smaller than `CounterMod`, as
  10^19 is smaller than 2^64; neither is reached.
- `Dataset`: up to four quads in three graphs, empty graphs anywhere, in every order;
  patterns with a variable, a known and an unknown graph. Two blank nodes are enough for a
  mapping that is not injective, and for graphs that are isomorphic under a swap.
- `BufWriter`: a buffer of two bytes and up to seven bytes in any partition, so that a
  string is shorter than the room, fits exactly, and needs several flushes; strings that
  start with no, one or three bytes. Two faults: a short write and one after it.
- `QuadWriter`: three quads out of sixteen (no, default or two named graphs, two subjects,
  two predicates): every kind of transition between quads, and one after it.
- `JsonLd`: two nested contexts are enough for a protected term to be defined, and redefined,
  dropped or hidden by the next; each document has the constructs that interact (a term
  that needs a term, types with contexts, lists with lists, graphs with maps, remote contexts
  in nested objects). `StackLimit` is larger than the depth of every document that does not
  loop, `RemoteLimit` larger than its requests.
- `Readers`: four elements and texts of an RDF/XML document: a node, a property in it, a node
  or a list in that, and one more beside or within. One of them may stand where the grammar
  has none of its name, or there is one warning (`MaxStrays`), then there is one element less.
  The chunks may end anywhere, once with something left to parse. Serd documents have three chunks of up to
  three callbacks: something before, at and behind a fault; three setups differ in the
  syntax, the flags and whether there is a scope manager.
- `Values`: thirty-three operands and forty more literals at the limits of their types; two operations
  in a row (`MaxSteps`), so that results of results are compared and moved. Twelve bits and
  ids of eight bits are narrow enough for every datatype to have values that are packed and
  values that are not, and for sums to overflow. `MaxYear` is beyond four digits.

`MaxCalls` bounds the calls, so a state where all calls are made has no successor:
the runs of `SyncNodeStorage` and `NodeScope` switch the deadlock check off. That no
thread is stuck in a call is `CallsReturn`. A writer that was finalized or has failed
stops as well, and so do a JSON-LD document that is read and a program after `MaxSteps`
operations. The other runs check for deadlock.

**Fairness.** `SyncStore` assumes weak fairness of the steps of each thread that is inside
a call: the operating system schedules every thread, and a mutex that stays
available is granted. Nothing is assumed about when a thread makes a call. Weak
fairness is enough because calls are bounded: a stream of readers that never ends could
keep a writer waiting, and whether it does is up to the implementation of
`std::shared_mutex`, which the standard leaves open. `BufWriter` assumes weak
fairness of the steps inside `write_str`, which run one after the other in the calling
thread. `Readers` assumes that the caller calls `next()` again, that a chunk that is being parsed
ends and that serd notices the end of the input; nothing is assumed of the stream, which may
stop giving data. `ReadsToTheEnd` says that after the end of the input, or its failure, the
caller gets to `std::nullopt`.

## 4. Findings

1. **Short writes** (`BufWriter.hpp:268`, run `ShortWrite`). After an `fwrite` that took only
   a part of the buffer, the rest is not moved to the front while the cursor is moved back:
   the next bytes overwrite what was not written, and the front is written again, while all
   calls return true. The other three writers pass.
2. **A failure taken for the end** (`IStreamQuadIteratorSerdImpl.cpp:450`, run `LostFailure`).
   Behind a syntax error the line is skipped. When that does not succeed, the reader takes it
   for the end of the input, also when the stream has failed: the syntax error is the last
   result, the rest of the document is dropped, and the caller is not told of the failure,
   because `error_func_` is asked behind `serd_reader_read_chunk` only. RDF/XML passes.

Observations made while modelling; the models do what the code does, and the properties
leave these cases out where they say so.

*Storages, scopes, graphs.*
- `clear()` of a store whose first id is 1 (`IndexFreeList.hpp:147`) empties the bitmap, not
  the cached index, and `reserve_until` returns early; the next insert breaks the assertion
  at `BiDirFlatMap.hpp:306`. The IRI store is not affected (`IriStore`).
- The lookup of a missing backend (`SyncReferenceNodeStorage.cpp:155`) answers with a default
  view, where the concept says that it throws.
- The loser of a race for a label (`ReferenceNodeScope.hpp:75`) gets `std::logic_error` where
  the concept promises the node. No label ever gets two nodes.
- The order by which `GraphComparison.hpp:161` sorts is not the strict weak ordering its
  comment promises (line 140): of three statements with one blank node each, `(2, 11, _:b)`,
  `(_:c, 12, 21)`, `(1, 13, _:b)` (the numbers in the order of the nodes), each precedes the
  next and the last precedes the first, so `std::ranges::sort` is undefined. The model then
  takes every order; the four statements of the run have no such circle.
- `?x :p ?x` matches triples whose subject and object differ (`Graph.cpp:144`).

*Parsers.*
- RDF/XML: after some errors no state is pushed for the element
  (`XMLParserTypedLiteralPredicateState.cpp:7`, `XMLParserEmptyElement.cpp:14`,
  `XMLParserPredicateState.cpp:19-26`), but its end pops one, so the rest of the document is
  read by the wrong states. `InStep` therefore speaks of documents without an error so far.
- RDF/XML: a relative `xml:base` is reported and still set; property attributes are resolved
  against the base around the element, not its own (`XMLParserDescriptionState.cpp:90`);
  `make_id` takes the null id of a bad IRI as used; the last base stays in the user's factory.
- Serd: several faults of one chunk are one error, told behind the chunk's good quads; a
  relative `@base` is refused; what a prefix stands for is checked only when it is used.
- JSON-LD: literals of language maps go to the default node storage, not the one of the state
  (`JsonLdParser.cpp:621`), and skip the check of the tag; a literal with a direction in the
  compound form inside a list emits no quads for it; `{"@list": [["a", "b"]]}` keeps the last
  inner item; a single object as the value of `@set` is an error; an alternate link is cached
  without its final URL; a term with a slash and without `@id` counts as cyclic; with
  `KeepBlankNodeIds` a label of the document can meet a generated one.

*Values.*
- The simplified text of a string with a language tag: when the tag is not packed into the
  id, `as_simplified_lexical_form` (`Literal.cpp:541-552`) calls the dummy factory of
  `rdf:langString`, which is unreachable code (`datatypes/rdf/LangString.hpp:30`).
- `xsd:integer` sums and products wrap: `std::is_integral_v<__int128>` is false without
  extensions (`LiteralDatatypeImpl.hpp:204`, `CMakeLists.txt:216`).
- Adding months across the year 0 goes wrong (`DateTimeUtils.hpp:186`); `DatesAddUp` speaks of
  our era. Dates that overflow end the program (`Date.cpp:98-120`).
- The least decimal cannot be read back, nor the canonical text of a duration without months
  and with negative seconds ("P-1D"); `MovedIsSame` names both.
- `Literal::order` is not transitive where some pairs compare by value and others by datatype.
- `substr` converts a negative length to `size_t`; with an infinite length it forgets the
  node storage. Casting a text that is not a decimal throws.
- A reference "#a:b" or "?q:x" counts as having a scheme, and `remove_last_path_segment` leaves a
  segment without a slash; moving an `IRIFactory` leaves the cached parts of its base dangling.

## 5. Proofs

`IndexFreeList_proofs` proves for every width of a word and every bound, from
`BitmapBitsAssumption` (the width is positive) and `MaxIxAssumption`:

- `TypeCorrect`: `Spec => []TypeOK`
- `LowestFreeAlways`: `Spec => []NextIsLowestFree`
- `WritesInBounds`: `Spec => []WriteInBounds`
- `FreeListImplementsAllocator`: `Spec => ImplementsAllocator`, the refinement of
  `IndexAllocator`

The inductive invariant is `IInv == TypeOK /\ NextIsLowestFree`; `Good(fl)` states it of
a freelist value, and one lemma per operation (`OccupiedNextIsGood`,
`OccupiedUntilIsGood`, `VacatedIsGood`, `ShrunkIsGood`) shows that the operation keeps it.
They rest on `SearchFindsLowest` (the loop of `search_next_free` finds the lowest free
index when its precondition holds), which rests on `CountrOneIsLowest` and on the
arithmetic of `decompose`/`compose` (`DivMod`, `Parts`, `PartsOfCompose`,
`OrderOfIndices`). `WriteInBounds` is not inductive: a word may be missing below the
cached index as far as it can tell. It follows from the invariant (`LowestFreeInBounds`):
every word below the word of the lowest free index is full, hence there. The search as a
choice of the first suitable word, instead of a recursive loop, is what keeps the module
within reach of the prover.

The refinement needs, besides the invariant in both states of a step, what each operation
does to the set of the indices in use: `OccupiedNextTakesOne`,
`OccupiedUntilTakesAllBelow`, and the second halves of `VacatedIsGood` and `ShrunkIsGood`.
`InUseIsOccupied` shows that the bound in `OccupiedIndices` leaves no index out.

`NodeTypeStorage_proofs` proves for any values, hashes that collide in any way, reserved
entries, `MinId` and widths of a word:

- `StoreIsTwoWay`: `Spec => []TwoWayMap`
- `FreelistKnowsTheHoles`: `Spec => []FreelistMatches`
- `ReservedAlwaysStay`: `Spec => []ReservedStay` (what `IriStore` checks of it is a part of the
  refinement: an `InternTable` erases no id below `MinId`)
- `StoreIsInternTable`: `Spec => ImplementsInternTableWithClear`, the refinement of `InternTable`

and the same of `SpecWithClear` when `MinId > 1`. For a store whose first id is 1 the theorems
about `clear` would be false: this is the first of the observations above. The inductive
invariant is `IInv == Vector /\ Keys /\ Holes /\ ReservedStay`: the vector has the reserved
elements and no value twice, the hash set has exactly the keys of its elements, the freelist
is good (in the sense of `IndexFreeList_proofs`, whose lemmas are taken by `INSTANCE`) and its
occupied indices are those of the elements in use or reserved. `TwoWayMap` alone is not
inductive: that a new value does not overwrite another one is what `Holes` says, and that it
is not in the vector yet rests on `LookupFinds`, which needs `Keys`. `InsertDoes` and
`EraseDoes` say what the two operations do to the vector, once for the invariant and for the
refinement.

`SyncNodeStorage_proofs` proves for any number of threads, values, ids and calls:

- `OneIdAlways`: `Spec => []OneIdPerValue`
- `CallsAreAtomic`: `Spec => Linearizable`, the refinement of `NodeStorage`

from the assumptions that the reserved entries are injective and below `MinId` and that the
values that stand for "no value", "no call" and "no result" are none. The inductive invariant
is `IInv == Types /\ Places /\ Mutex /\ Sides`. `Places` says which call a thread is in at
each place of the code and whether it has its answer; `Mutex` that the threads inside the
mutex are readers only or one writer; `Sides` that the values differ, and that the two sides
of the map differ by exactly the id the writer is at (`Pending`), and by none when no thread
is between its two writes. `OneIdPerValue` is not inductive: it says nothing of what the
writer left half done, nor that the second look of `find_or_make_id` was under the lock that
still is held. In the refinement a call takes effect with its answer, except that an erase
does with the removal of the key; `LockShared`, `LockUnique`, a first look that finds
nothing, and the writes of a value without its key (`InsertValue`, `EraseValue`) are not seen.

`NodeScope_proofs` proves for any number of threads, names, labels and calls and for counters
of any width:

- `MapsAreInverse`: `Spec => []TwoWay`
- `RacersAgree`: `Spec => []OneNodePerLabel`
- `LabelsNeverMeet`: `Spec => []LabelsApart`

It assumes that generators of different names have different seeds or prefixes
(`SeedAssumption`), that the numbers that fit into the buffer are fewer than the counter has
(`IdLimit < CounterMod`, in the code 10^19 and 2^64) and that the null node is not one a
generator makes. The inductive invariant is
`IInv == Types /\ Generated /\ Owned /\ Inverse /\ GivenIsThere`: every node in a map or in
the hands of a thread was made with a number below the counter (`Generated`), so the next one
is new; a node is with one label, or with the one thread that is about to insert it (`Owned`);
the two maps are inverse (`Inverse`), and what was answered is still in them (`GivenIsThere`).
`Owned` is what the properties lack to be inductive: they do not speak of the nodes that
threads hold between the generation and the insertion.

`Dataset_proofs` proves for any graphs, nodes, triples, patterns and numbers of them:

- `ContainersAreTheSet`: `Spec => []StoresWhatWasAdded`
- `WalksSeeAll`: `Spec => []WalkSeesAll`
- `MatchesFindAll`: `Spec => []MatchFindsAll`
- `MappingsAreIsomorphisms`: `Spec => []IsSound(...)` of every two graphs

from `NamesAssumption` (the default graph is a name, the null node is none) and
`StatementsAssumption` (triples are of nodes, patterns of nodes and variables). The inductive
invariant is `IInv == Stored /\ IdleInv /\ WalkInv /\ MatchInv`: the containers hold each
quad once; what a reader has yielded is what lies `Behind` its two positions in the order of
the containers, all of it for a walk and the part the pattern stands for in a match
(`SeenOf`); and a position is one of a quad, or an end. The properties speak of the end only,
so they are not inductive. `SkipsEmpty`, `Forwards` and `Advances` say that the three loops stop
and at the first place where they may; that nothing is missed between is `OverEmptyGraphs` and
`ForwardMissesNothing`. `AccumulateAdds` says what `Dataset::size` sums up, `SizeCounts` that
it is the number of quads. Of `ComparisonIsRight` the first half is proved, for graphs of any
size and any order their statements may be in after the sort (`SortedSame`): the pairs made
before a mismatch are one to one (`OneToOne`), because each check looks into both maps. Its
second half, that the same statements are always found equal, holds on the instance only: the
order is not strict weak in general (section 4).

`BufWriter_proofs` proves for any size of the buffer or the string, and any bytes, calls and
faults:

- `NothingIsLost`: `Spec => []NothingLost`
- `StreamsGetPrefixes`: `Spec => []StreamGetsAPrefix`
- `OthersMeanWritten`: `Spec => [](kind # "cfile" => TrueMeansWritten)`, what the run
  `ShortWrite` refutes for the FILE writer

from `SizesAssumption` (`BUFSIZ` is positive). The inductive invariant is
`IInv == TypeOK /\ Places /\ NothingLostYet /\ StreamGetsAPrefix`. `Places` is what the
properties lack: only the FILE and the stream have faults, only faults end in a failure, the
arrays keep their size. That a string writer never gives up rests on `BitCeilSuffices`: the
least power of two that `std::bit_ceil` finds is there (`PowersOfTwoExist`) and makes room for
at least one byte more.

`QuadWriter_proofs` proves for any nodes, any quads of them, any number and order of calls:

- `TextsSayTheQuads`: `Spec => []TextSaysTheQuads`
- `StatesAreOpen`: `Spec => []StateIsWhatIsOpen`

from `NodesAssumption` (the default graph is a node, the null node is none, quads are made of
nodes, their graph may be null). The inductive invariant `IInv` says that the text read so
far is `Fine` (legal, and the quads it says are the accepted ones), also after a failure, and
that between two calls the reader is where the state says: `Open` in Turtle and TriG, at the
start of a line in the other formats. `TextSaysTheQuads` alone says nothing of what the next
mark would do to the open statement. `Leads(r, writes, r2, said)` states that the writes of
a call take a reader from `r` to `r2` and that before each of them it is fine;
`LeadsBoth` puts calls together from their parts, and `CallReads` draws both conclusions, for
the call that succeeds and for the one that fails at any write. They rest on `ReadFromBoth`:
a text in two parts is read part by part.

`QuadReader_proofs` proves for any documents, vocabularies, setups and numbers of elements,
however the documents are cut into chunks and wherever the stream fails:

- `Spec_StatementsInOrder`: `Spec => []StatementsInOrder`, of the reader that uses serd
- `Spec_InStep`: `Spec => []InStep`, of the RDF/XML reader
- `Spec_XmlToldOfFailure`: `Spec => []XmlToldOfFailure`, of the RDF/XML reader
- `Spec_ReifiedOnce`: `~ByHand => (Spec => []ReifiedOnce)`, of the RDF/XML reader

from `DocumentsAssumption` (a document is a sequence of chunks, a chunk of callbacks, each of
one of the four kinds) and `ElementsAssumption` (the attributes of an element are a sequence).
`ByHand` says that a document may itself use the name rdf:subject, as an element or as an
attribute (or that the number of an rdf:li could be spelled so); then two such statements of
one node are simply what the document says, and the theorem would be false.

The inductive invariant of the first is `SerdInv`: what was returned and what is buffered
(`All`) are together the good statements up to `pos`, in their order; every chunk read so far
has its error, returned or pending in `last_error`; the base and the prefixes are those in
force at `pos`. `StatementsInOrder` lacks the buffer and the pending error. After a failure
(`Failing`) the statements of the chunks before `pos` are among `All` (`NoneLost`), and the
`Io` error is pending, or was told, or was met in a line behind an error (`Told`). The callbacks of a
chunk are a recursion over it: `UpTo` proves of it, callback by callback, that terms are
resolved as `TermsAt` says for their place, and that a chunk has one error
however many faults it has.

`InStep` rests on `XmlSynced`: as long as neither what was returned nor the queue has an error
(`Whole` is the reader with both), the stack is `Synced` with the open elements: a state
for every element, except that the literal state on top counts the elements within it (`Depth`),
and each state has, besides its kind, the base of the nearest element that sets one
(`AsOpened`, `NearestBase`). The property speaks of kinds and of subjects only; without the
bases of the states the next subject could not be compared. `OpenedSynced`, `PoppedSynced`
and `SwappedSynced` are the three things that events do to the stack; `ElementStarted`,
`ElementEnded` and `CharactersStep` say which of them each handler does, in each kind of state;
`FailQuiet` that an error leaves an error in the queue.

`ReifiedOnce` rests on `XmlReified`: the ids for statements still to come (`Waiting`: those
that states on the stack will say) are reserved, no two of them are the same, and none is in a
statement already said; what is said is of reserved ids, each once. Errors do not matter to it.
A handler is a `Step`: of the statements it adds, one at most says rdf:subject, of an id that
is new or was waiting and waits no longer. `WholeSteps` lifts both invariants from the queue to
the queue behind what was returned, so that `next()` changes neither.

`XmlToldOfFailure` rests on `XmlFailing`: once the error was put in (`told`) it is the last of
the queue, or was returned last when the queue is empty; a chunk is not parsed after a
failure, so nothing comes behind it.

The recursive functions of these modules (`Accumulate`, `ReadFrom`, the powers of two, the
attributes of an element, the callbacks of a chunk) are reasoned about one by one, by the least
number for which a claim would fail (`LeastElement`); what the prover cannot do is an induction
whose claim is a parameter, which is why each of these modules has this lemma and its use of
it.

Only model-checked:
- The second half of `ComparisonIsRight`, that equal graphs are found equal: it is false in
  general, and holds of the small graphs of the run.
- `PropertiesSaid` and `ListsWellFormed` of `QuadReader` are not properties of every document:
  one may say a property or a list a second time by other means (an attribute and an element
  of the same name, an rdf:first written out). They are checked on documents that do not.
- JSON-LD (its recursion over contexts and values is RECURSIVE operators, which the prover
  cannot handle) and `Values`, which reaches the recursion of `IriFactory`.
- Liveness (`CallsReturn`, `WriteReturns`, `ReadsToTheEnd`): the prover has no fairness
  reasoning.

## 6. Not modelled, and the plan

- Anonymization (`util/Anonymizer.cpp`): a renaming by random names that is kept in a table;
  next, as an action of `Dataset` with an injective renaming as its property.
- IRIs, blank nodes and variables copied between storages (`Node.cpp`), the order of nodes of
  different kinds, namespaces.
- Of literals: regular expressions (RE2), hashes, random values, `encode_for_uri`, escaping in
  N-Triples, normalization of Unicode, base64 and hex values, `owl:real` and `owl:rational`,
  compensated sums.
- The spelling of values, of numbers in JSON and of JSON literals.
- Allocation failures (an exception between the three containers of `BiDirFlatMap.hpp:304`
  leaves them out of step), the lifetime of the memory that views point to (an erase by
  another thread after `find_backend_view`), the vtables, the hash functions.
- Serd, libxml, simdjson, the HTTP client and the files are environments: what they may do is
  in the models, how they do it is not. The vocabularies are constants.

Proofs that could follow: exactness of the addition of `BigDecimal`, an operator of `Numbers`,
which reaches no recursion; `PropertiesSaid` under the assumption that no attribute shares its
name with a property element.
