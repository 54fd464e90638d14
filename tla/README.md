# A verification project for epub-rs

TLA+ models of [epub-rs](../src/README.md): of the parts that keep state from one
call to the next, of the state machines that read and rewrite documents, and of
the arithmetic between representations of a reading position. TLC configurations
check them on small instances; TLAPS proofs show what matters most for every
instance. Paths like `parser/mod.rs` are under
`src/src/`.

## The system

epub-rs reads and writes EPUB packages. A Rust core (parser, CFI, HTML
processing, generator) is wrapped twice: by a C ABI (`ffi/`) and by WASM
bindings (`wasm.rs`). The code is synchronous and holds no locks that two calls
compete for; what makes it hard is not parallelism inside a call but **the order
of calls**: lazily filled caches with different lifetimes, results that depend on
which call came first, and arithmetic between representations of a reading
position.

| component | state | operations | talks to |
|---|---|---|---|
| Archive (`parser/mod.rs`) | LRU cache (map, queue, byte counter), content decryptor, encryption map, memoized navigation | `parse*`, `read_resource*`, `get_resource*`, `set_/clear_content_decryptor`, `clear_resource_cache`, `get_navigation`, `get_cover_image` | provider (calls), decryptor (callback) |
| C sessions (`ffi/common.rs`, `ffi/parser.rs`, `parser/lazy_book.rs`) | per handle: archive, `LazyBook`, optional `PositionIndex`; per thread: `LAST_ERROR` | some thirty exported functions | archive, positions, reading API |
| Positions (`parser/positions.rs`) | none while computing; a `PositionIndex` afterwards | `positions_by_reading_order`, `PositionIndex::build`, lookups by CFI, index, progression | archive (entry lengths, TOC titles), CFI |
| CFI (`cfi/`) | none | parse, print, order, resolve, ranges | positions, processor |
| Generator (`generator/`, `ffi/generator.rs`) | the `EpubBuilder`'s lists; per handle an `Option<EpubBuilder>` | `add_*`, `set_*`, `validate`, `generate` | read back by the parser |
| Package documents (`parser/opf.rs`, `encryption.rs`, `navigation.rs`, `smil.rs`) | none after parsing | event machines over container.xml, OPF, encryption.xml, NCX, SMIL; a tree walk over nav.xhtml | archive (which documents, and what it caches of them) |
| Paths (`parser/resolve.rs`, `path.rs`, `ffi/path.rs`) | none | decode, join, normalise | every part that follows a reference |
| ZIP provider (`provider.rs`) | fallback name cache | `read_file`, `entry_length` | archive |
| Reading API (`parser/reading.rs`) | none | prepare, search with caps, reading start | archive, processor |
| HTML processing (`processor/`, `crypto.rs`) | work list, URI map and error slot during a call | packaging, CFI injection, search, streaming rewrite, deobfuscation | lol_html, kuchiki (callbacks) |
| WASM (`wasm.rs`) | as the C handle; per generator an `Option<EpubBuilder>` | as the C ABI, with positions computed afresh and reads past the caches | same |

What is hard, and what would make each part correct:

- **Archive.** Map, queue and counter are updated at four places; they must
  agree after any mix of hits, misses, evictions and clears, also in the middle
  of the eviction loop, and the counter (`usize`) must not wrap. Nothing made
  with a replaced decryptor may be served. Caching must not be observable.
- **Sessions.** Three caches per handle (book, navigation memo, index), filled
  by whichever call comes first and dropped by different calls, switches that fail
  half-way included. They must all speak of the rendition the caller selected.
- **Positions.** The lookup replaces a search among CFIs by arithmetic on spine
  steps and by a table indexed by reading order, two numberings that differ as
  soon as an item is non-linear or empty.
- **Progression.** `f32` rounding followed by truncation.
- **Package documents.** One pass over events, with facts that refer to each other
  by id in any order; entries gathered piece by piece, so that one can get the
  pieces of another when something is missing, nested or cut short.
- **CFI.** Text, parsed value, order and resolved position must agree, although the
  scanner, the printer, the comparison and the two walks that generate CFIs are
  separate pieces of code.
- **Chapter preparation.** What is collected (regular expressions), loaded (manifest),
  rewritten (HTML rewriter) and materialised (in the order of a `HashMap`) must be
  the same thing; stylesheets may import each other in circles.
- **Streaming.** Output comes in callbacks that cannot fail; a read may end inside
  the obfuscated part of a font.
- **Generator.** `take()`/put-back of the builder across fallible code; items
  the generator adds under fixed ids; what the parser makes of duplicates.

`PROJECT.json` lists every component with its status and every hazard at its
line, with the properties that cover it or the reason none does yet.

## Modules

| module | models | kind |
|---|---|---|
| `ResourceArchive` | archive: cache, decryptor, navigation memo | detailed |
| `ResourceReader` | what the archive promises: reads without a cache | abstract |
| `EpubHandle` | C sessions over several threads | detailed |
| `WasmSession` | parsers and generators of the WASM bindings; extends `EpubHandle` | detailed |
| `ReadingSession` | a session without caches, implemented by both | abstract |
| `PositionIndex`, `Progression` | computing and looking up positions; `total_progression` in `f32` | algorithm |
| `EpubGenerator` | builder, generator handle, read-back | detailed |
| `XmlReader` | the event loop the parsers share | base |
| `OpfDocument`, `EncryptionDocument`, `NavigationDocument`, `MediaOverlay` | one parser each; extend `XmlReader` | detailed |
| `PackageReading` | the four parsers in the order a reader calls them | composition |
| `Cfi`, `CfiParser` | paths, order, printing, ranges, resolution; the parser | operators |
| `ChapterCfi` | injection and search over a chapter, and the exchange of their results | detailed |
| `EpubPath` | paths and references on segments | operators |
| `ChapterPackaging` | a chapter made to stand alone | detailed |
| `StreamRewriting` | streaming rewrite over the deobfuscating reader | detailed |
| `BookReading` | search over a book, reading start | detailed |
| `ResourceProofs`, `SessionProofs`, `PositionProofs`, `GeneratorProofs`, `PackageProofs` | theorems about the archive, chapter preparation, streaming and reading; both kinds of sessions; positions; the generator; package documents | proofs |
| `CfiProofs`, `ChapterCfiProofs` | lemmas about the CFI operators and the parser; theorems about a chapter's CFIs | proofs |
| `SequenceLemmas` | lemmas they share: induction over numbers, recursive functions, folds, runs over texts | proofs |
| `MC*` | instances of the above for TLC; `MCProcessor` composes `ChapterPackaging`, `StreamRewriting` and `BookReading` | |

### ResourceArchive

`read_zip_entry` is split where its state can be told apart: a hit is one step
(`ReadHit`); a cacheable miss is `ReadMiss` (bytes read and processed, now locals
of the call: `fetched`), any number of `EvictOldest`, then `InsertFetched`; an
entry that is too long goes by `ReadBypass`. While a call is in its loop no other
call runs (`&mut self`), so every other action requires `fetched = {}`. Splitting
the loop is what gives the invariants their teeth: they hold in each of its
states, not only between calls.

Bytes are abstracted to where they came from (`path`), what was done to them
(nothing, font obfuscation undone with a key, decrypted by a decryptor) and their
length. A decryptor is an `FnMut` the host installs: it may answer with bytes of
several lengths, or decline, differently each time (`Answers`). `entry_length`
fails for some entries and is then 0 (`unwrap_or(0)`), so the 2 MiB check and the
length that is finally cached are unrelated. `parse_rendition` that fails has no
action: the `?` leaves before anything is assigned. `recent`, `reply`,
`nav_reply` and `parsed` are history: the last reads since the last clear, what
the last call returned, the books callers hold.

`ResourceReader` has three actions, each read computed afresh from the container
and the decryptor in force. `ReaderSpec` says the archive implements it, with the
eviction steps as stutters. It holds when all renditions share one unique
identifier; with two it does not (run `archive_fonts`).

### EpubHandle and ReadingSession

One action per exported function (families that do the same to a handle share a
definition, `Query` or `AskNavigation`, and keep an action of their own). A call
holds the handle for its duration, so it is one step; threads interleave between
calls. `book` is `LazyBook` (state and the rendition it was tried with);
`nav_cache` and `position_index` are `{}` or hold what they were made from.
`selected`, `handed`, `lazy_parses` and `result` are history. Files are records:
renditions in container order, and which parse, which have loadable navigation,
which can be given positions. `container.xml` itself is assumed readable with at
least one rendition (`FilesAssumption`).

`ReadingSession` has no caches: answers are computed from the file, the choice
and, for lookups, the first size asked for since the choice.
`SessionSpec` is the refinement: `choice` is the rendition last tried, `size` the
index's.

### WasmSession

A JS `EpubParser` has the fields of a C handle and drops them at the same calls, so
its actions are those of `EpubHandle`; `last_error` is here the exception a call
ended with. What JS has of its own: `FreshLocations` (`generate_locations` ignores
the index), `GetFile` (`get_file_bytes` and `get_chapter_with_rewritten_assets` go
past the caches), `FreeParser`, and the generator. Every generator method takes the
builder out of its `Option` and puts it back; one that finds `None` traps, after
which the object is unusable (`trapped`). `accepted` is history: the calls that
returned without an exception.

### PositionIndex and Progression

`PositionIndex` runs `positions_by_reading_order` spine item by spine item
(`SkipNonLinear`, `MissingManifestItem`, `CountChapter`), then `ComputeTotals`,
then `BuildChapter` once per chapter and `Built`. The two lookups are operators
over the finished index. Spines are all sequences of up to three items of every
kind. Titles are left out.

`Progression` gives `f32` exactly: a quotient or product of small integers is
rounded to 24 significant bits, ties to even, and `location_from_progression`
truncates. Its actions are a reading application: turn to a page, or reopen the
book at the saved progression.

### EpubGenerator

Calls append to the builder's lists; `Build` takes it for good. The package a build
sets out to write is kept, and `Manifest`, `CoverRead` and `NavigationRead` are what
`parser/opf.rs`, `get_cover_image` and `load_navigation` make of it. The
properties are round trips across two components. `Refused` stands for
every early return: null arguments, JSON that does not parse, a consumed builder.
Whether the ZIP writer succeeds is nondeterministic. The actions for `version`,
`theme` and HTML files are reachable from Rust only. A resource has a kind, which says
who made it: with `add_resource_with_properties` a caller may add a navigation document
("callers_nav") beside the generated one, and `load_navigation` takes whichever the
manifest, a `HashMap`, yields first; `NavigationRead` is the set of what it may take.
The other properties change nothing that is read back once a cover is set
(`CoverRead` is the fast path of `get_cover_image`; its search among the items of a
package without a cover is left out). Items are told apart by id; two archive entries
of one name are not modelled.

### Package documents

A package maps each of its documents to a sequence of events: start, empty, end,
text, an entity reference, and "bad" for markup that is not well-formed.
`XmlReader` hands them over one by one; a parser module has one action per event
that changes its locals and lets the others pass. `opf`, `enc`, `ncx` and `smil`
hold the locals of the loops; `book`, `encryptions`, `nav` and `overlay` what is
handed out. The second pass of `parse_opf`, which ties the collected facts
together by id, is one action, as nothing can happen between its parts.
nav.xhtml is read from a tree by the code and by operators here
(`NavigationDocument` is the one module with `RECURSIVE` operators).

Attribute values and texts are opaque. Where the code asks whether a text is a
number or a clock value, a constant says so. Properties with a prefix are records,
because the code accepts a property under several prefixes.

`PackageReading` calls the parsers as a reader does: `parse`, `get_navigation`,
`get_media_overlay`. Its properties speak of the documents and the result, never
of the locals between them; `toc`, `pages` and `sync` are what the events of a
package were printed from.

### CFIs

`Cfi` has the data model with order, equality, printing, `generate_range` and
`resolve`; `CfiParser` the three scanners of `cfi/parser.rs`. Text is a sequence of
tokens, mostly characters. `ChapterCfi` is the walk of `traverse_and_inject` or of
`search_node` over the DOM of a chapter, with the stack explicit (`EnterElement`,
`VisitText`, `PassComment`, `Leave`). Afterwards a reading system keeps texts,
its own and ones from elsewhere (`Hold`), and makes ranges of two of them
(`CombineHeld`). `Follow`, the nodes that resolved steps lead to from the root, is the
reader's business and marked as such. Nodes are numbered in document order, so that
`<` on nodes is the order of the document; matches may be empty.

### ChapterPackaging, StreamRewriting, BookReading

`ChapterPackaging` is `prepare_chapter_html_with_stats`: references are collected
(`CollectRefs`), followed with a work list (`SkipSeen`, `LoadNext`), the
stylesheets written out in any order (`Materialise`), and the markup rewritten and
its stylesheet links promoted (`Rewrite`). A path goes through the code's own
lookups: twice normalised, matched to manifest items by suffix, found in the archive
exactly or by its lower-case name. A link's fragment follows it into the rewritten
markup, behind the data, and a stylesheet behind it is not promoted (`Promoted`). The
errors of `prepare_chapter` before packaging (id not in the spine, no item, unreadable)
are one option. `EpubPath` has paths as sequences of segments;
what decoding does to a segment and which segments end with which are tables.

`StreamRewriting` is the loop of `rewrite_links_stream` over a
`DeobfuscatingReader`. Reads are of any length; the rewriter hands out any part of
what it holds at any time (`PutOut`), its last at the end; a sink takes all or a
part and fails. A byte is its position and the key byte it was combined with.

`BookReading` is the search over a book with its two caps and
`preferred_reading_start`. Whether a chapter looks like a cover is a flag of it. A
landmark's path is from the top of the archive, a chapter's href from the directory of
the package document, as in the code.

## Runs

Passing runs:

| run | question | bounds, and why they are enough |
|---|---|---|
| `archive_cache` | Do map, queue, counter, decryptor and memo stay coherent, is eviction LRU, does the loop end, is the cache invisible to readers? (`CacheConsistent`, `SizeAccounted`, `KeepsMostRecent`, `FetchReturns`, `ReaderSpec`) | 4 paths (unknown length, font, encrypted, over the file limit), 3 books (navigation present, absent, malformed), 2 decryptors (one inflates an entry past the whole cache, one sometimes declines), limit 3 units: two or three entries fill it, so every eviction takes 0 to 3 rounds |
| `handle_session` | Do the caches of a handle always speak of the selected rendition, and can they be told from a session without caches? Is each thread's error its own? (`SessionConsistent`, `AnswersFromSelection`, `BestForFollowsStrategy`, `ErrorIsOwn`, `SessionSpec`) | 2 threads (symmetric), 1 handle, an archive with a sound, an unusable, a malformed and again a sound rendition, and one that does not parse; 2 sizes. Handles share nothing but threads, so a second handle adds only interleavings of `last_error`, which two threads already give |
| `wasm_session` | Do a JS parser and generator keep their state over failing and trapping calls, and does the parser implement the session of a C handle? (`WasmConsistent`, `ParserIsSession`) | one JavaScript thread, one parser, one generator; sizes 0 and 512; 2 generator calls: one before and one after a failure |
| `positions_index` | Are positions numbered without gaps, do they cover each entry, do lookups agree with the order of CFIs? (`GloballyNumbered`, `PagesCoverEachItem`, `LookupsAgree`) | every spine of up to 3 items over linear/non-linear, missing, empty, exactly one page and more; off-by-ones between the two numberings appear with two items, the third separates "next" from "last" |
| `progression_drift` | Does saving and reopening stay near the page? (`ReopenNearby`) | every page of every book of up to 127 pages |
| `generator_package` | Does what was assembled read back, and do failing calls keep the builder? (`SpineReadsBack`, `CoverReadsBack`, `NavigationReadsBack`, `BuilderTakenOnlyByBuild`) | up to 3 resources (a chapter and two covers, a chapter and both colliding ids, or a chapter and two navigation documents of the caller's), 4 caller ids of which three are the generator's own (nav, ncx, cover), 2 hrefs, 1 of the 3 mandatory fields (the check treats all alike) |
| `package_reading` | Does what a package says reach the reader, in any order of its parts and with parts missing? (`TitlesAsDeclared`, `RefinementsHold`, `IdentifierAsDesignated`, `EncryptionOwn`, `NestingKept`, `PlaybackChain`) | 899 packages: one small sound package with one document at a time replaced: metadata in every order, tables of contents and overlays of every shape of up to three entries (two levels below one are where a stack can go wrong), encryption entries with parts missing, every document cut at every event, with and without malformed markup at the cut |
| `cfi_exchange` | Do CFIs lead back to what they were made from, in the order of the document, and do parsing, printing, comparing and ranges agree? (`MarksReachTheirElements`, `MarksInDocumentOrder`, `MatchesNameTheirText`, `HeldReadBack`, `HeldAreOrdered`, `RangesKeepTheirPoints`) | three chapters (nested, with mixed content; texts parted by comments and elements; a wide one whose step numbers have two digits), ids with the characters the scanners treat apart, some fifteen bookmarks (offsets, sides, termini, ranges, malformed); every three texts are held together, which is what transitivity needs |
| `processor` | Does a prepared chapter contain what it refers to, does a stream arrive whole or fail with a cause, does a search return the first hits, does a book open at its body, and does each of them end? (`StatsAddUp`, `ReferencesBecomeData`, `StylesheetsPackaged`, `SuccessIsComplete`, `FailureHasACause`, `FirstHitsFound`, `OpensAtBody`, `OperationsEnd`) | two publications (stylesheets that import each other, names that need encoding, are misspelt, have no item or end like another's; oversized files), chapters of every two pieces of markup (links with and without a fragment, empty references among them), so that each can disturb the other; streams of 0, 1 and 5 bytes with 4 obfuscated, key 3, buffer 3: the key wraps, and reads end before, at and after the boundary; caps below, at and above the number of matches; landmarks at the top of the archive and below it |

Runs that show a disagreement between the code and what it says of itself:

| run | what it shows |
|---|---|
| `archive_fonts` | The cache is keyed by ZIP path and survives `parse_rendition`; a font read for one rendition is served to another whose identifier, hence key, differs (`FontsReversedForBook`). |
| `package_title` | A title with an entity reference in it is read as its first piece: the generator writes `Me &amp; You`, the parser reads back `Me` (`TitleWhole`). |
| `cfi_range` | Resolving a range combines only local steps; a half without `!`, which is what `generate_range` and search write, contributes none. A search result resolves to the parent of its text (`RangesResolveToTheirPoints`). |

Deadlock is checked where a system goes on for ever (archive, sessions, generator,
progression). `CHECK_DEADLOCK FALSE` stands where a model is a
computation that ends (`positions_index`, `package_reading`, `cfi_exchange`,
`processor`) and in violation runs that stop at their counterexample.

### Facts met while modelling

No run is about these; a reader of the code should know them.

*Archive and sessions.* `get_navigation(&book)` answers for the book parsed last,
whatever its argument. A lookup before `epub_generate_locations(h, n)` (and its WASM
sibling `generate_location_index`) fixes the page size at 1024; `n` is then ignored.
An entry inflated by a decryptor is cached alone above `max_cache_size_bytes`.
`epub_parse` after `epub_parse_by_index` returns the selected rendition though its
comment says default. `epub_free` and its siblings leave `LAST_ERROR` as it was.

*Positions.* Range CFIs are located at their parent path, not at the start endpoint
the comment names. `spine_step / 2 - 1` underflows for steps 0 and 1
(`positions.rs:416`). `location_from_progression` truncates where its comment says
nearest: with 22 pages, page 13's own progression leads to page 12; reopening a
97-page book from page 64 again and again drifts to page 48, one page at a time.

*Generator.* Adding an image first and then setting it as cover, as documented,
yields two items and two archive entries of one name. `epub_generator_build` does not
free the handle as its comment says. `validate` looks at neither duplicate ids nor
landmarks and page lists. A resource of the caller's under the id `cover-image` that
follows the cover takes its place. A caller's item with the property `nav`, which
`add_resource_with_properties` names as an example, stands beside the generated
nav.xhtml: which of the two a reader sees changes from run to run, and in EPUB 2 it is
always the caller's.

*Package documents.* A truncated or malformed encryption.xml silently keeps the
entries before the damage. The `EncryptionMethod` of a nested `EncryptedKey`
overwrites the one of the data. `is_a11y_property` accepts other names than its
comment lists (`opf.rs:897-901`). An NCX label keeps the last piece of its text. A
nav `li` without a link of its own takes the link of a nested one. Two chapters that
share an overlay make that overlay its own successor. Only self-closing `item`,
`itemref` and `reference` elements count.

*CFIs.* Ids with `]`, `!`, `^` or an unbalanced `[` are printed unescaped and do not
read back. The three scanners differ on what is inside an assertion. Texts parted by
a comment share an odd step, each with byte offsets from 0; that step counts the
elements before a text, though `model.rs:12-13` says it indexes text nodes. The
parser accepts `~NaN` though `model.rs:299` says non-finite offsets are rejected.
Order ignores `side`, and an absent local path and an empty one. `generate_range`
drops sides and temporal and spatial offsets, and across documents takes the spine
index of the parent.

*Chapter preparation.* An imported stylesheet that is materialised after its importer
stays a link in it, though `prepare.rs:273` speaks of nested resources rewritten: the
order of a `HashMap` decides. `url(#frag)` in a stylesheet resolves to its directory,
which `match_manifest_item` (`ends_with` in both directions) may match to any item; a
media type may come from another item in the same way. Paths are normalised, hence
decoded, twice, so names with an encoded `%`, `#` or `?` are missed. References that
climb out of the package are clamped. A `<link>` to a stylesheet whose href has a fragment
(`theme.css#x`) gets the fragment behind its data (`html.rs:238-240`), which then does not
decode (`prepare.rs:371`): it stays a link, though `prepare.rs:303-305` says publisher CSS
survives the loss of the `<head>`. An empty `src` names the chapter's directory.
`object` data is rewritten but never collected;
unquoted attributes, upper-case `URL(` and a `<style>` with only an `@import` are not
seen. `html.rs:341` and `:360` use byte offsets of a lower-cased copy.
`looks_like_cover` also accepts "discovery" and "recovery". `spine_index_for_href` may
match by file name alone; a book without a spine opens at index 0. The provider's
fallback takes the first entry in archive order whose name agrees without regard to
case.

### Mutants

Definitions marked "In error" are plausible bugs of the definition after them (a
counter not reset, a size check done once, a builder taken too early). No
specification uses them. `PROJECT.json` pairs each with the property that it
breaks.

### Fairness

`ResourceArchive` has weak fairness on the steps of a fetch in progress: they are
the body of a synchronous loop, and the thread that runs it waits for nothing.
`MCProcessor` has weak fairness on its next step for the same reason: packaging, a
streaming rewrite and a search are single calls whose steps are only split to show
their intermediate states. No fairness is assumed of callers, and the other modules
have none: their properties are safety properties.

## Proofs

`ResourceProofs` proves of `ResourceArchive`, for every container, decryptor, identifier and limit:

| theorem | statement |
|---|---|
| `CacheInvariant` | `Spec => []CacheInv` |
| `TypeCorrect`, `QueueMatches`, `SizeCorrect`, `OverLimit`, `Coherent` | the parts of the invariants, from `CacheInv` |
| `CacheStaysConsistent`, `SizeStaysAccounted`, `EvictsLeastRecent` | `CacheConsistent`, `SizeAccounted`, `KeepsMostRecent` |
| `ImplementsReader` | `OneIdentifier => (Spec => ReaderSpec)`: the cache is invisible |

They assume what the code's types give (`LimitsAssumption`, `LengthsAssumption`,
`AnswersAssumption`, `BooksAssumption`); `ImplementsReader` assumes one
identifier, and `archive_fonts` shows why it must.

None of the invariants is inductive alone. `CacheInv` is their conjunction with
two more parts:

- `PendingNotCached`: the entry a call is about to insert is not in the map.
  Without it `InsertFetched` could queue a path twice.
- `RecentSuffix` (the form of `KeepsMostRecent` that is inductive): the queue is a
  suffix of the reads since the last clear, each path counted at its last use.

`SizeIsTotal` is stated with running totals over the queue instead of a sum, so
that it needs no induction over data: there is a function from queue positions to
totals that starts at 0, grows by one entry's length at a time and ends in the
counter. Evicting shifts it down by the first length, inserting appends, a hit
moves one length to the end (`TotalsTail`, `TotalsAppend`, `TotalsMove`). As totals
never decrease, the first length is at most the counter, which is why
`current_cache_size -= old_bytes.len()` cannot wrap. `OverLimitOnlyAlone` follows
because the loop ends only when there is room or nothing left to evict.

The proof that a step keeps the invariant has one lemma per action (`HitKeeps`,
`EvictKeeps`, `InsertKeeps`, `MissKeeps`, `ClearKeeps`, `OthersKeep`). For the
refinement, `ReaderStep` maps each action to a step of the reader or a stutter; the
case that needs the invariant is a hit, where `CacheCoherent` says the cached bytes
are among those a fresh read could give, and `SameForEveryBook` that with one
identifier this does not depend on the book.

`SessionProofs` proves of `EpubHandle`, for all threads, handles and archives:

| theorem | statement |
|---|---|
| `SessionInvariant` | `Spec => []SessionInv` |
| `SessionTypes`, `IndexCurrent`, `NavCurrent`, `ParsedOnce`, `LookupsMatchLocations` | the parts of `SessionConsistent`, from `SessionInv` |
| `SessionStaysConsistent`, `AnswersSelected`, `ErrorsOwn`, `BestForStrategyHolds` | `SessionConsistent`, `AnswersFromSelection`, `ErrorIsOwn`, `BestForFollowsStrategy` |
| `ImplementsSession` | `Spec => SessionSpec`: the caches of a handle are invisible |

They assume `FilesAssumption` (an archive lists at least one rendition) and
`SizesAssumption`. `SessionInv` says of each handle that what it holds follows from
its file and the rendition last tried (`BookInv`), that an index is of a ready book
which can be given positions (`IndexInv`), that a ready book's memo is its own
(`NavInv`), and that a positions array given out is the index (`HandedInv`). A
failed switch keeps an older memo, so `NavInv` speaks of ready books only; it is
still inductive because a parse that succeeds clears the memo first. Calls share
`ensure_parsed`, so `Ensured` and `EnsuredKeeps` carry most of the argument and
`TouchesKeeps` lifts it from one handle to all.

`BestForStrategy` needs the best of a list of scores of any length. `Smallest` gets
it from the well-foundedness of `<` applied to a set (`WFMin`), without an
induction theorem; `LastBest` then finds the last of the best scores as `max_by_key`
does.

It proves of `WasmSession`, for all archives, threads, parsers and numbers of calls:

| theorem | statement |
|---|---|
| `WasmInvariant` | `WasmSpec => []WasmInv` |
| `WasmStaysConsistent` | `WasmConsistent` |
| `ParserImplementsSession` | `WasmSpec => ParserIsSession` |

Every call of a parser but `free()` and the reads by path is a step of a C handle
(`ParserSteps`), so `SessionInv` and the step lemmas of the C handle carry over.
`WasmInv` adds that an untried parser has no memo (`MemoInv`: JS can drop a parser and
make another in its place) and that only `generate` takes the builder (`BuilderInv`).

`PositionProofs` proves, for every spine, page length and chapter length:

| theorem | statement |
|---|---|
| `IndexInvariant` | `Spec => []IndexInv` |
| `NumberedThrough` | `GloballyNumbered` |
| `LookupsFollowOrder` | `LookupsAgree` |
| `EachItemCovered` | `PagesCoverEachItem` |

Counting leaves chapters in spine order, each page numbered after the one before it,
also over chapters that were skipped (`ChaptersInv`); totals are filled in without
touching that; building lays the chapters out flat, with the start of each and the order
of its CFIs (`BuildInv` and the layout that follows from it). A lookup by CFI then finds
the chapter by its spine step and the page within it by its order, and the order of CFIs
is the order of pages because both steps grow with them. `EachItemCovered` has an
invariant of its own, `CoverInv`: each chapter is as long as its item asks, and every
linear item dealt with has a chapter; `RoundedUp` is the arithmetic, that a division
rounded up gives enough pages and none to spare. Assumed: `BooksAssumption`,
`PageLengthsAssumption`, `NoLengthAssumption`.

`GeneratorProofs` proves, for all ids, hrefs and mandatory fields:

| theorem | statement |
|---|---|
| `GeneratorInvariant` | `Spec => []GeneratorInv` |
| `ChaptersReadBack` | `SpineReadsBack` |
| `BuilderSurvivesErrors` | `BuilderTakenOnlyByBuild` |
| `LastCoverReadsBack` | `CoverReadsBack` |
| `GeneratedNavigationRead` | `NavigationReadsBack` |

`GeneratorInv` says that the reading order names, place by place, a resource with the
href of the chapter added in that place, of the builder and of the package built from it
alike, and that a built package leaves no builder: otherwise chapters could be added
after it. For the cover, `CoverInv` says that the last item under `CoverId` is the last
cover set, in a list where only covers have that id (`OwnCovers`); callers may use the
id, and of the packages in which they did `CoverReadsBack` says nothing, since then
their item may be the one read. For the contents, `NavInv` says that callers never make
an item that passes for one of the generated documents, and that the generator writes
these after everything else, so that the last item of their ids, the one a reader finds,
is its own. A navigation document of a caller's under another id remains in the
manifest; `GeneratedNavigationRead` says that then one of the two is read, the generated
one always among those that may be in EPUB 3, and that without one exactly the generated
document is read. `OwnIdsAssumption` says that the ids the generator uses differ:
`CoverId` is none of the others, `NavId` is not `NcxId`.

`ResourceProofs` also proves of the processor, for every publication, chapter, book,
stream, query and cap, and for all cuts and failures:

| theorem | statement |
|---|---|
| `StreamInvariant` | `StreamSpec => []StreamInv` |
| `SuccessComplete` | `SuccessIsComplete` |
| `FailureCaused` | `FailureHasACause` |
| `CountersAddUp` | `StatsAddUp` |
| `ReferencesServed` | `ReferencesBecomeData` |
| `StylesServed` | `StylesheetsPackaged` |
| `SearchFindsFirst` | `FirstHitsFound` |
| `OpensAtTheBody` | `OpensAtBody` |

*Streams.* What the rewriter was given is the stream up to the current offset, each byte
with the key byte of its own position; until the sink fails, the output and what is
held back make that up; the slot is filled if and only if the sink has failed. The
step that needs care is a read that crosses the end of the obfuscated part.

*Packaging.* `PackagingInv`: the paths seen are finitely many, and the URI map and the
stylesheets in waiting are disjoint parts of them, so that materialising moves one from
the one to the other. For what a chapter ends up with, `ClosureInv` is added. Its
parts follow a reference through the call: what is due is in the work list or has been
looked at (`WorkInv`), what was looked at came from the chapter or from a stylesheet
that was loaded (`SourcesInv`), what could be loaded is at hand, as data or as
a stylesheet in waiting (`LoadedInv`), and a stylesheet written out has in it what its
references had become by then (`WrittenInv`). `TablesInv` is about the two maps the
rewriter looks names up in. Circles of imports need no argument of their own: nothing
leaves the set of paths seen.

*Search and start.* `SearchInv`: the hits are the first `MaxTotal` of the
concatenation of what the chapters so far contribute, each cut at its own cap; the
concatenation is a recursive function of the spine index. `OpenInv`: the start is the
first of the candidates, in the order the code tries them, that is not empty.

Assumed are what the types give (`ChaptersAssumption`, `ReadableAssumption`,
`SearchAssumption`, `KeyAssumption`, `SourceLengthsAssumption`) and, in
`PublicationsAssumption`, that no archive entry is itself the directory of the
package document.

`PackageProofs` proves, for packages of any size, cut or malformed anywhere:

| theorem | statement |
|---|---|
| `TitlesRead` | `TitlesAsDeclared`, if metadata are regular |
| `RefinementsReach` | `RefinementsHold`, if metadata are regular |
| `IdentifierRead` | `IdentifierAsDesignated`, if metadata are regular |
| `EncryptionKept` | `EncryptionOwn`, if entries stand apart |
| `PlaybackFollows` | `PlaybackChain` |
| `NestingRead` | `NestingKept`, if `toc`, `pages` and `sync` are what the documents nest |

*Metadata.* `OpfInv` (with its part `Gathered`) says what the parser has between two
events: its state is that of the last event; each of its lists holds what the elements
read so far say, in their order (`Rank` is an element's place among those of its
kind); creators are known by their ids, and of words said repeatedly the last is
kept. The properties choose by position ("the first that is declared main"), the
code filters and sorts lists; `FirstListed` and the lemmas about `Rank` lead from one
to the other.

The condition, `MetadataRegular`, excludes four things, in which the code does something
else than the properties say: an element with a text that stands outside `metadata` (its
text is passed over); something between such a start tag and its text, such as an entity
reference (the text after it is taken all the same); two creators with one id (the later
gets the refinements of both); and a `meta` whose property is called
`identifier-type-scheme`, the key under which the parser itself files the scheme of an
`identifier-type`. It is a condition on documents only and says nothing of their order,
of parts that are missing, or of where a document breaks off. Every package of the run
`package_reading` satisfies it. Assumed besides: numbers are naturals and clock values
are texts (`NumbersAssumption`, `ClocksAssumption`), and documents are sequences
(`PackagesAssumption`).

*Encryption.* `EncReading` says the entry being read holds what was said since its start
tag and the map exactly the useful entries completed so far. `EntriesApart` excludes
nested entries (the first end tag enters what both have said) and parts outside an entry
(the next one gets them). Every package of the run satisfies it, too. Lengths are as
`LengthAssumption` says.

*Overlays.* The overlays to follow are a list folded from the spine; its places
correspond to the chapters that are heard (`LinksFollow`). `BookShape` says that a book
has its fields and its spine is a sequence, whatever a document left out.

*Nesting.* The property compares what was read with `toc`, `pages` and `sync` of the
package; the hypotheses of `NestingRead` say what these are, from the events alone.
`NcxEntries` does so for an NCX: an end tag closes the innermost point that no end
tag before it closed (`Closing`); a point is complete at that tag, its label and target
are the last said while it was the innermost, and its children are the points that were
complete in it, in document order (`Nested`); a page target counts if it has a label and
a target when it ends. `SyncObjects` does the same for the sequences and pars of a SMIL
body. Both name the elements by positions, so that a tree of any depth is described
without recursion, and mention no stack. `NcxNow` and `SmilNow` are the
inductive part: before event n the parser's stack is the list, in order, of the elements
begun and not closed before n (`OpenAt`, `InOrder`), each with what was said and completed
in it so far, and the regions, the page target and the result are those at n. A start
tag adds the last of that list and an end tag takes it away (`OpenMore`, `NcxAdvance`,
`SmilAdvance`). `BookInv` carries along what the manifest declares (`ManifestNow`: the last
item of each id, and the NCX that the spine names), which decides where the contents come
from (`ContentsInv`). Nothing is assumed of the order of the parts or of stray end tags,
misplaced points, or documents cut short; where markup is malformed the call fails
and nothing is promised. `AbsentIsPlain` says that `None` is no record and no list. Of
nav.xhtml, which is a tree and read by recursive descent, the hypothesis takes
`ParseNavXhtml` itself: the theorem shows that its contents are chosen and kept, not
that the descent is right, which remains with the run. `SyncRead` is the part of the
overlays.

The run `package_reading` assumes the hypotheses of all its packages
(`NestingHypotheses` in `MCPackageReading`, where TLC computes the witnesses), while
`toc`, `pages` and `sync` there are computed from the trees that the documents were printed
from: the description by positions and the trees agree.

`ChapterCfiProofs` proves, for chapters of any shape and size and texts of any length,
from the lemmas of `CfiProofs` on the operators of `Cfi` and `CfiParser`:

| theorem | statement |
|---|---|
| `OrderIsTotal` | `HeldAreOrdered`, if no text holds `NaN` |
| `ChapterIsWalked` | `CfiInv` |
| `WrittenIsRead` | `HeldReadBack` |
| `MarksLeadBack` | `MarksReachTheirElements` |
| `MarksAreOrdered` | `MarksInDocumentOrder` |
| `MatchesLeadBack` | `MatchesNameTheirText` |
| `RangesKeepBoth` | `RangesKeepTheirPoints` |

*Order.* Comparison is reflexive, antisymmetric and transitive, also between ranges,
points and CFIs cut short. A comparison is a list of
signs, of which the first that is not zero counts; transitivity of such a list
follows from that of its parts, and so level by level up to whole CFIs. What may be
compared is whatever the parser can return (`CfiOf`), which is shown of the three
scanners as invariants of their folds. `TextInv(chars)` then says that texts are
written in `chars` and punctuation. The theorem is for `"NaN"` not among `chars`: the
parser takes `~NaN` (`model.rs:299` says it is rejected), and a comparison
with NaN is neither less nor greater, which breaks transitivity. `WrittenWith(chars)`
says that ids, numbers and bookmarks are written in `chars`.

*Reading back.* `CfiReadBack`: a canonical CFI is parsed from what `PrintCfi` writes of
it; `Canonical` is what the parser itself returns (`CfiRead`): a side only with an
offset, and an offset never together with a time or a point. Each of the three scans of
the parser takes the text apart in its own way: at commas outside brackets, at the last
mark outside brackets, at slashes. Each piece that is written is therefore followed
through all three, as a *run* from one state of the scan to another (`Runs`), and the
runs are joined where the pieces are; that numbers are written in digits and ids
between brackets is all the scans need to know of them.

*The walk.* The inductive invariant is `CfiInv(ids)`. None of the properties is
inductive alone: what `EnterElement` writes depends on the path and the counter of the
top frame, and when it is written, on the frames below it. `WalkInv` says where the walk
is: what the frames have still to do is the frontier of what is done (`Frontier`: a node
is done or due as soon as its parent is done), the frames stand one below the other in
document order (`Stacked`), and each holds the number of elements before its next child
and the text of the way to its node (`Placed`). A *way* is the list of nodes from the
root to a node; its steps are what a CFI of the node consists of. `MarksInv` and
`FoundInv` say that the marks and matches are those of the nodes done, each the text of
a way, and `HeldInv` that what is held was read from such texts, from bookmarks or from
ranges of two of them. From there each property is a matter of ways: two ways part at
siblings, whose indices order them (`WaysOrdered`); the steps of a way, resolved and
followed from the root, come back to its node (`WayFollowed`); and the nearest id on a
way is the shortcut (`ShortcutOnWay`). For ranges, the half that is written after the
parent is the point again (`HalfJoined`), and two halves compare as the points do since
they have lost the same steps (`HalvesCompared`).

The theorems but `OrderIsTotal` are for `Readable(ids)`: item ids, the ids of elements
and the assertions of bookmarks are written in `ids`, among which there is no bracket,
`!` or `^` (the printer does not escape them, and such ids do not read back: see the
facts above) and no `NaN`; commas, colons, slashes and tildes in ids are allowed. Its
part `Apart` says that `Absent` and `Malformed` are no values of the parser's types, as
`None` and `Err` are not. The chapters and bookmarks of the run `cfi_exchange` satisfy
all of it. The chapters are as `ChaptersAssumption` says: a tree numbered in document
order (which is how the model names nodes, and no condition on the DOM), and the matches
of a text from left to right, as `find_iter` gives them; a match may be empty, so that
matches are in the order of their starts. Assumed besides: `AbsentAssumption`,
`MalformedAssumption`, `MaxHeldAssumption`.

`SequenceLemmas` has what these proofs share. Induction comes from the
well-foundedness of `<` on a *set* of numbers (those for which a statement fails),
which needs no operator parameter. Recursive functions and folds are used through
lemmas about their steps: the value at 0 and from n to n + 1. That is how what a loop computes
is proved here for inputs of every length, as long as the loop walks a sequence.

Only model-checked:

- `FetchReturns` and `OperationsEnd`: liveness.
- `ReopenNearby`: a statement about the rounding of `f32`, checked for books of up to 127
  pages.
- The tree of nav.xhtml (`ParseNavXhtml`): what a recursive descent computes for every
  tree is an induction over data. The run compares it with the trees of
  `MCPackageReading`, up to three entries deep.

## What is not modelled

- `processor/semantic.rs` and `extract_text`: maps from a tree to text without
  state; a model would restate them.
- Key derivation (SHA-1, hexadecimal digits); a key is some bytes.
- `resolve_href` and the TOC titles of `parser/resolve.rs`, and the C wrappers of
  path, crypto and CFI functions, whose only state (`LAST_ERROR`) is in
  `EpubHandle`.
- ZIP decompression and writing, the text of generated documents, landmarks and
  page lists of the generator, snippets of search results.
- Data model, MIME types and error types: records and tables.
- `panic = "abort"` of the release profile and the C contract's undefined behaviour
  (dangling handles, one handle used by two threads at once).

`PROJECT.json` lists each component with its status.

## What could come next

1. `resolve_href` on `EpubPath`, and the TOC titles of positions, which join
   `NavigationDocument` and `PositionIndex`.
2. Landmarks and page lists of the generator, read back by `NavigationDocument`:
   the two modules would share the printed document.
3. The escapes of ids, once the printer writes them: `Readable` would lose its condition.
4. A refinement of `ChapterPackaging` to a packaging without a work list.
