----------------------------- MODULE EpubHandle -----------------------------
(***************************************************************************)
(* ffi/common.rs, ffi/parser.rs, parser/lazy_book.rs: the C sessions.       *)
(*                                                                          *)
(* A handle owns an archive (whose nav_cache matters here), a LazyBook and  *)
(* an optional position index.  Three caches, filled lazily by whichever    *)
(* call comes first and dropped by different calls: the session is right    *)
(* when they always speak of one rendition.  Threads call functions on any  *)
(* handle, one call at a time per handle as the C contract demands; each    *)
(* thread has its own LAST_ERROR.                                           *)
(*                                                                          *)
(* A call runs to its end without giving way, so it is one step.  What an   *)
(* archive contains is a record of Files: its renditions in container.xml   *)
(* order and, for each, whether its OPF parses, whether its navigation      *)
(* document loads and whether every spine item has a manifest item.         *)
(***************************************************************************)
EXTENDS Integers, Sequences, FiniteSets

CONSTANTS
    Threads, Handles,
    Files,      \* archives a handle can be opened on
    NoFile,     \* a handle that is not open
    Sizes,      \* bytes_per_position arguments, 0 meaning the default
    DefaultSize,\* parser::BYTES_PER_POSITION
    Layouts, Languages,
    Absent      \* a layout, language or preference that is not given

\* parses, navigable, indexable: sets of positions in the list of renditions.
FileRecords ==
    [renditions : Seq([layout : Layouts \cup {Absent}, language : Languages \cup {Absent}]),
     parses : SUBSET (Nat \ {0}), navigable : SUBSET (Nat \ {0}),
     indexable : SUBSET (Nat \ {0})]

ASSUME FilesAssumption ==
    /\ Files \subseteq FileRecords
    /\ NoFile \notin Files
    /\ \A f \in Files : Len(f.renditions) > 0
ASSUME SizesAssumption == Sizes \subseteq Nat /\ DefaultSize \in Nat \ {0}

VARIABLES
    file,        \* [Handles -> Files \cup {NoFile}]
    book,        \* LazyBook: state and, unless Unparsed, the rendition tried
    nav_cache,   \* {} or {rendition the memoized document is of}
    position_index, \* {} or {[rendition, size]}
    last_error,  \* [Threads -> {} or {the call the message is about}]
    result,      \* history: {} or {the thread's last call and its outcome}
    selected,    \* history: {} or {rendition the caller last asked for}
    lazy_parses, \* history: OPF parses run by ensure_parsed since open
    handed       \* history: {} or {positions array the caller was given}

handle_vars == <<file, book, nav_cache, position_index, selected, lazy_parses, handed>>
vars == <<file, book, nav_cache, position_index, last_error, result, selected,
          lazy_parses, handed>>

Renditions == Nat \ {0}
Unparsed == [state |-> "Unparsed", rendition |-> 1]
LazyBooks == [state : {"Unparsed", "Ready", "Failed"}, rendition : Renditions]
Indexes == [rendition : Renditions, size : Nat \ {0}]
\* "bytes" is a call of the WASM bindings only.
Calls == [op : {"open", "free", "parse", "select", "renditions", "query",
                "nav", "positions", "locations", "lookup", "bytes"}, handle : Handles]

TypeOK ==
    /\ file \in [Handles -> Files \cup {NoFile}]
    /\ book \in [Handles -> LazyBooks]
    /\ nav_cache \in [Handles -> SUBSET Renditions]
    /\ position_index \in [Handles -> SUBSET Indexes]
    /\ last_error \in [Threads -> SUBSET Calls]
    /\ selected \in [Handles -> SUBSET Renditions]
    /\ lazy_parses \in [Handles -> Nat]
    /\ handed \in [Handles -> SUBSET Indexes]

-----------------------------------------------------------------------------
\* The OPF of rendition i is parsed: out of range or malformed, it fails.
Outcome(f, i) ==
    [state |-> IF i \in 1..Len(f.renditions) /\ i \in f.parses
               THEN "Ready" ELSE "Failed",
     rendition |-> i]

\* In error: the navigation document outlives its rendition.
NavKeptByParse(h, i) == nav_cache[h]
\* parse_rendition forgets the navigation document, but only once the OPF has
\* parsed.
NavAfterParse(h, i) ==
    IF Outcome(file[h], i).state = "Ready" THEN {} ELSE nav_cache[h]

\* parse_best_for: layout weighs 2, language 1; an absent layout is reflowable.
LayoutMatches(r, layout) ==
    layout # Absent /\ (r.layout = layout \/ (layout = "reflowable" /\ r.layout = Absent))
LanguageMatches(r, language) == language # Absent /\ r.language = language
Score(r, layout, language) ==
    (IF LayoutMatches(r, layout) THEN 2 ELSE 0)
      + (IF LanguageMatches(r, language) THEN 1 ELSE 0)

\* In error: the language outweighs the layout.
BestForLanguageFirst(f, layout, language) ==
    LET score == [i \in DOMAIN f.renditions |->
                    (IF LayoutMatches(f.renditions[i], layout) THEN 1 ELSE 0)
                      + (IF LanguageMatches(f.renditions[i], language) THEN 2 ELSE 0)]
    IN CHOOSE i \in DOMAIN score : \A j \in DOMAIN score : score[j] <= score[i]

\* max_by_key keeps the last of equal maxima; when nothing matches, the
\* default rendition is taken.
BestFor(f, layout, language) ==
    LET score == [i \in DOMAIN f.renditions |-> Score(f.renditions[i], layout, language)]
        best == CHOOSE i \in DOMAIN score : \A j \in DOMAIN score :
                    score[j] < score[i] \/ (score[j] = score[i] /\ j <= i)
    IN IF score[best] > 0 THEN best ELSE 1

\* ensure_parsed runs the default parse only while nothing was tried.
NeedsParse(h) == book[h].state = "Unparsed"
EnsuredBook(h) == IF NeedsParse(h) THEN Outcome(file[h], 1) ELSE book[h]
EnsuredNav(h) == IF NeedsParse(h) THEN NavAfterParse(h, 1) ELSE nav_cache[h]
Ready(h) == EnsuredBook(h).state = "Ready"

EnsureParsed(h) ==
    /\ book' = [book EXCEPT ![h] = EnsuredBook(h)]
    /\ selected' = IF NeedsParse(h) THEN [selected EXCEPT ![h] = {1}] ELSE selected
    /\ lazy_parses' = IF NeedsParse(h)
                      THEN [lazy_parses EXCEPT ![h] = @ + 1] ELSE lazy_parses

\* get_navigation on the ensured book: the memoized document, else the book's
\* own if it loads, which is then memoized; a failure memoizes nothing.
NavOf(h) ==
    IF EnsuredNav(h) # {} THEN EnsuredNav(h)
    ELSE IF Ready(h) /\ EnsuredBook(h).rendition \in file[h].navigable
    THEN {EnsuredBook(h).rendition} ELSE {}

\* The page length an index is built with.
Effective(size) == IF size = 0 THEN DefaultSize ELSE size

\* In error: lookups, which ask for size 0, replace an index of another size.
RebuildOnNewSize(h, size) ==
    Ready(h) /\ \A x \in position_index[h] : x.size # Effective(size)
\* ensure_index_built builds an index only when there is none, whatever size
\* it is asked for.
NeedsIndex(h, size) == Ready(h) /\ position_index[h] = {}
IndexOf(h, size) ==
    IF NeedsIndex(h, size)
    THEN IF EnsuredBook(h).rendition \in file[h].indexable
         THEN {[rendition |-> EnsuredBook(h).rendition, size |-> Effective(size)]}
         ELSE {}
    ELSE position_index[h]

\* Computing positions looks titles up in the table of contents first, so it
\* memoizes the navigation document too, even when the index then fails.
EnsureIndexBuilt(h, size) ==
    /\ EnsureParsed(h)
    /\ nav_cache' = [nav_cache EXCEPT ![h] =
                        IF NeedsIndex(h, size) THEN NavOf(h) ELSE EnsuredNav(h)]
    /\ position_index' = [position_index EXCEPT ![h] = IndexOf(h, size)]

\* In error: one slot serves every thread.
ReportEverywhere(t, call, ok, about) ==
    /\ last_error' = [u \in Threads |-> IF ok THEN {} ELSE {call}]
    /\ result' = [result EXCEPT ![t] = {[call |-> call, ok |-> ok, about |-> about]}]
\* catch_ffi_result: the thread's error slot is cleared, and set again if the
\* call fails.
Report(t, call, ok, about) ==
    /\ last_error' = [last_error EXCEPT ![t] = IF ok THEN {} ELSE {call}]
    /\ result' = [result EXCEPT ![t] = {[call |-> call, ok |-> ok, about |-> about]}]

\* What a call is about: the rendition and size its answer was made from, the
\* size asked for and the rendition the caller selected.
About(h, rendition, size, asked) ==
    [rendition |-> rendition, size |-> size, asked |-> asked, selected |-> selected'[h]]
Nothing == [rendition |-> 0, size |-> 0, asked |-> 0, selected |-> {}]
Call(op, h) == [op |-> op, handle |-> h]

-----------------------------------------------------------------------------
Init ==
    /\ file = [h \in Handles |-> NoFile]
    /\ book = [h \in Handles |-> Unparsed]
    /\ nav_cache = [h \in Handles |-> {}]
    /\ position_index = [h \in Handles |-> {}]
    /\ last_error = [t \in Threads |-> {}]
    /\ result = [t \in Threads |-> {}]
    /\ selected = [h \in Handles |-> {}]
    /\ lazy_parses = [h \in Handles |-> 0]
    /\ handed = [h \in Handles |-> {}]

Fresh(h) ==
    /\ book' = [book EXCEPT ![h] = Unparsed]
    /\ nav_cache' = [nav_cache EXCEPT ![h] = {}]
    /\ position_index' = [position_index EXCEPT ![h] = {}]
    /\ selected' = [selected EXCEPT ![h] = {}]
    /\ lazy_parses' = [lazy_parses EXCEPT ![h] = 0]
    /\ handed' = [handed EXCEPT ![h] = {}]

\* epub_open, epub_open_file: a handle with nothing parsed.
Open(t, h, f) ==
    /\ file[h] = NoFile
    /\ file' = [file EXCEPT ![h] = f]
    /\ Fresh(h)
    /\ Report(t, Call("open", h), TRUE, Nothing)

\* No ZIP there, or a null or missing argument of any call: an error before
\* anything is touched.
Refused(t, h, op) ==
    /\ op = "open" <=> file[h] = NoFile
    /\ Report(t, Call(op, h), FALSE, Nothing)
    /\ UNCHANGED handle_vars

\* epub_free drops the handle with all it holds.  It does not pass through the error boundary.
Free(t, h) ==
    /\ file[h] # NoFile
    /\ file' = [file EXCEPT ![h] = NoFile]
    /\ result' = [result EXCEPT ![t] =
                    {[call |-> Call("free", h), ok |-> TRUE, about |-> Nothing]}]
    /\ Fresh(h)
    /\ UNCHANGED last_error

\* A call that needs the book, and reads neither navigation nor positions.
Query(t, h, op, found) ==
    /\ file[h] # NoFile
    /\ EnsureParsed(h)
    /\ nav_cache' = [nav_cache EXCEPT ![h] = EnsuredNav(h)]
    /\ Report(t, Call(op, h), Ready(h) /\ found, About(h, EnsuredBook(h).rendition, 0, 0))
    /\ UNCHANGED <<file, position_index, handed>>

\* epub_parse.
Parse(t, h) == Query(t, h, "parse", TRUE)

\* epub_has_media_overlays, epub_get_media_overlay.
MediaOverlay(t, h, found) == Query(t, h, "query", found)

\* epub_get_cover_image, epub_get_resource, epub_get_resource_by_id.
GetResource(t, h, found) == Query(t, h, "query", found)

\* epub_get_chapter_with_cfi, epub_search_chapter, epub_get_semantic_content.
ReadChapter(t, h, found) == Query(t, h, "query", found)

\* epub_prepare_chapter and epub_prepare_chapter_with_stats, epub_search_book
\* and epub_search_book_with_options: options that do not parse are an error
\* found after the book is.
PrepareOrSearch(t, h, found) == Query(t, h, "query", found)

\* epub_get_renditions reads container.xml and touches nothing.
GetRenditions(t, h) ==
    /\ file[h] # NoFile
    /\ Report(t, Call("renditions", h), TRUE, Nothing)
    /\ UNCHANGED handle_vars

\* In error: the index of the rendition before stays.
StoreKeepingIndex(h, i) ==
    /\ book' = [book EXCEPT ![h] = Outcome(file[h], i)]
    /\ UNCHANGED position_index
\* store_parsed_book; the ensure_parsed after it finds an outcome stored.
StoreParsedBook(h, i) ==
    /\ book' = [book EXCEPT ![h] = Outcome(file[h], i)]
    /\ position_index' = [position_index EXCEPT ![h] = {}]

\* The archive parses rendition i (its navigation memo goes if that works) and
\* the handle stores what came out, error or book.
SelectRendition(t, h, i) ==
    /\ nav_cache' = [nav_cache EXCEPT ![h] = NavAfterParse(h, i)]
    /\ StoreParsedBook(h, i)
    /\ selected' = [selected EXCEPT ![h] = {i}]
    /\ handed' = [handed EXCEPT ![h] = {}]
    /\ Report(t, Call("select", h), Outcome(file[h], i).state = "Ready",
              About(h, i, 0, 0))
    /\ UNCHANGED <<file, lazy_parses>>

\* Indices in range, and the first one out of it.
IndexArguments(h) ==
    IF file[h] = NoFile THEN {} ELSE 1..(Len(file[h].renditions) + 1)

ParseByIndex(t, h, i) ==
    /\ file[h] # NoFile
    /\ i \in IndexArguments(h)
    /\ SelectRendition(t, h, i)

ParseBestFor(t, h, layout, language) ==
    /\ file[h] # NoFile
    /\ SelectRendition(t, h, BestFor(file[h], layout, language))

\* A call that asks the archive for the navigation document; with op = "query"
\* it goes on without one.
AskNavigation(t, h, op) ==
    /\ file[h] # NoFile
    /\ EnsureParsed(h)
    /\ nav_cache' = [nav_cache EXCEPT ![h] = IF Ready(h) THEN NavOf(h) ELSE EnsuredNav(h)]
    /\ LET nav == IF Ready(h) THEN NavOf(h) ELSE {} IN
         Report(t, Call(op, h), Ready(h) /\ (op = "nav" => nav # {}),
                About(h, IF nav # {} THEN CHOOSE r \in nav : TRUE
                         ELSE EnsuredBook(h).rendition, 0, 0))
    /\ UNCHANGED <<file, position_index, handed>>

\* epub_get_navigation, epub_get_toc, epub_get_page_list.
GetNavigation(t, h) == AskNavigation(t, h, "nav")

\* epub_preferred_reading_start: landmarks if there is navigation.
PreferredReadingStart(t, h) == AskNavigation(t, h, "query")

\* epub_positions_by_reading_order computes positions without the index.
PositionsByReadingOrder(t, h, size) ==
    /\ file[h] # NoFile
    /\ EnsureParsed(h)
    /\ nav_cache' = [nav_cache EXCEPT ![h] = IF Ready(h) THEN NavOf(h) ELSE EnsuredNav(h)]
    /\ LET r == EnsuredBook(h).rendition IN
         Report(t, Call("positions", h), Ready(h) /\ r \in file[h].indexable,
                About(h, r, Effective(size), Effective(size)))
    /\ UNCHANGED <<file, position_index, handed>>

\* Whether a call that needs the index gets one.
Indexed(h) == Ready(h) /\ position_index'[h] # {}
TheIndex(h) == CHOOSE x \in position_index'[h] : TRUE

\* epub_generate_locations, epub_generate_location_index: the positions of the
\* handle's index.
GenerateLocations(t, h, size) ==
    /\ file[h] # NoFile
    /\ EnsureIndexBuilt(h, size)
    /\ handed' = [handed EXCEPT ![h] = IF Indexed(h) THEN position_index'[h] ELSE @]
    /\ Report(t, Call("locations", h), Indexed(h),
              IF Indexed(h)
              THEN About(h, TheIndex(h).rendition, TheIndex(h).size, Effective(size))
              ELSE Nothing)
    /\ UNCHANGED file

\* The six lookups (location_from_cfi, cfi_from_location, their fast forms and
\* get_position_info) build the index with size 0 and answer from it alone.
Lookup(t, h, found) ==
    /\ file[h] # NoFile
    /\ EnsureIndexBuilt(h, 0)
    /\ Report(t, Call("lookup", h), Indexed(h) /\ found,
              IF Indexed(h)
              THEN About(h, TheIndex(h).rendition, TheIndex(h).size, TheIndex(h).size)
              ELSE Nothing)
    /\ UNCHANGED <<file, handed>>

Next == \E t \in Threads, h \in Handles :
    \/ \E f \in Files : Open(t, h, f)
    \/ \E op \in {"open", "query", "lookup"} : Refused(t, h, op)
    \/ Free(t, h)
    \/ Parse(t, h)
    \/ \E found \in BOOLEAN :
          \/ MediaOverlay(t, h, found)
          \/ GetResource(t, h, found)
          \/ ReadChapter(t, h, found)
          \/ PrepareOrSearch(t, h, found)
          \/ Lookup(t, h, found)
    \/ GetRenditions(t, h)
    \/ \E i \in IndexArguments(h) : ParseByIndex(t, h, i)
    \/ \E layout \in Layouts \cup {Absent}, language \in Languages \cup {Absent} :
          ParseBestFor(t, h, layout, language)
    \/ GetNavigation(t, h)
    \/ PreferredReadingStart(t, h)
    \/ \E size \in Sizes : PositionsByReadingOrder(t, h, size) \/ GenerateLocations(t, h, size)

Spec == Init /\ [][Next]_vars
-----------------------------------------------------------------------------
\* A position index answers for the book the handle holds: switching rendition,
\* or failing to, leaves no index of the rendition before it.
IndexOfCurrentBook ==
    \A h \in Handles : \A x \in position_index[h] :
        book[h].state = "Ready" /\ x.rendition = book[h].rendition

\* Whenever a book is ready, the archive's memoized navigation is that book's,
\* even after switches that failed and left the memo of an older rendition.
NavOfCurrentBook ==
    \A h \in Handles : book[h].state = "Ready" =>
        nav_cache[h] \subseteq {book[h].rendition}

\* Every answer, whichever caches it came through, was made from the rendition
\* the caller last selected on that handle (the default if it never did).
AnswersFromSelection ==
    \A t \in Threads : \A r \in result[t] :
        r.ok /\ r.about # Nothing => r.about.selected = {r.about.rendition}

\* LazyBook's purpose: the OPF is parsed implicitly at most once per handle,
\* failures included, and never after an explicit selection.
LazyParseOnce == \A h \in Handles : lazy_parses[h] <= 1

\* The positions array a caller was given stays the one lookups answer from
\* until it selects another rendition: indices returned by lookups are indices
\* into that array.
HandedOutMatchesIndex ==
    \A h \in Handles : handed[h] # {} => position_index[h] = handed[h]

\* The three caches of a handle, filled by whichever call comes first and
\* dropped by different ones, agree: with each other, with the selection and
\* with what callers were given, and none is filled twice.
SessionConsistent ==
    TypeOK /\ IndexOfCurrentBook /\ NavOfCurrentBook /\ HandedOutMatchesIndex /\ LazyParseOnce

\* After a call of the boundary, this thread's error slot tells whether it
\* failed and holds its message, whatever other threads did in between.
ErrorIsOwn ==
    \A t \in Threads : \A r \in result[t] :
        r.call.op # "free" => last_error[t] = IF r.ok THEN {} ELSE {r.call}

\* parse_best_for's documented order: both criteria, else layout, else
\* language, else the default rendition.
BestForFollowsStrategy ==
    \A h \in Handles : file[h] # NoFile =>
      \A layout \in Layouts \cup {Absent}, language \in Languages \cup {Absent} :
        LET all == DOMAIN file[h].renditions
            byLayout == {i \in all : LayoutMatches(file[h].renditions[i], layout)}
            byLanguage == {i \in all : LanguageMatches(file[h].renditions[i], language)}
            choices == IF byLayout \cap byLanguage # {} THEN byLayout \cap byLanguage
                       ELSE IF byLayout # {} THEN byLayout
                       ELSE IF byLanguage # {} THEN byLanguage ELSE {1}
        IN BestFor(file[h], layout, language) \in choices

-----------------------------------------------------------------------------
\* The session without its caches: the choice is the rendition last tried,
\* the size that of the index.
Session == INSTANCE ReadingSession WITH
    choice <- [h \in Handles |->
                 IF book[h].state = "Unparsed" THEN {} ELSE {book[h].rendition}],
    size <- [h \in Handles |-> {x.size : x \in position_index[h]}]

\* The handle implements the session: LazyBook, the position index and the
\* navigation memo change how often the archive is read, and no answer.
SessionSpec == Session!Spec
=============================================================================
