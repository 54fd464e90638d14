---------------------------- MODULE PositionIndex ----------------------------
(***************************************************************************)
(* parser/positions.rs: virtual pages of a publication and the index that   *)
(* converts between CFIs and page numbers.                                  *)
(*                                                                          *)
(* positions_by_reading_order walks the spine chapter by chapter, carrying  *)
(* the last global position; PositionIndex::build then flattens the         *)
(* chapters and remembers where each starts.  A lookup never compares CFIs: *)
(* it recomputes the page from the numbers in the CFI, so it is right only  *)
(* if those formulas undo the ones that generated the positions.            *)
(*                                                                          *)
(* Spine and page indices are 0-based as in the code; TLA+ sequences are    *)
(* not, so page i is positions[i + 1].  A parsed CFI is the steps of its    *)
(* package path and of its local path; assertions and offsets play no part. *)
(***************************************************************************)
EXTENDS Integers, Sequences, FiniteSets

CONSTANTS
    Books,        \* spines: sequences of SpineItem
    PageLengths,  \* bytes_per_position, as given
    NoLength      \* no OriginalLength in encryption.xml

SpineItem ==
    [linear : BOOLEAN, in_manifest : BOOLEAN, fixed : BOOLEAN,
     archive_len : Nat, original_length : Nat \cup {NoLength}]

ASSUME BooksAssumption == Books \subseteq Seq(SpineItem)
ASSUME PageLengthsAssumption == PageLengths \subseteq Nat
ASSUME NoLengthAssumption == NoLength \notin Nat

VARIABLES
    phase,         \* "count" | "build" | "ready" | "failed"
    spine, page_length,
    next,          \* spine items or chapters dealt with in this phase
    last_position, \* global position of the last page so far
    by_chapter,    \* pages of each linear item, in reading order
    positions, chapter_starts, spine_to_order

vars == <<phase, spine, page_length, next, last_position, by_chapter,
          positions, chapter_starts, spine_to_order>>

-----------------------------------------------------------------------------
\* In error: a last, partial page is not counted.
PositionCountFloor(len, page) == len \div (IF page < 1 THEN 1 ELSE page)
\* max(ceil(len / page_length), 1), a page length of 0 counting as 1.
PositionCount(len, page) ==
    LET page_len == IF page < 1 THEN 1 ELSE page
        count == (len + page_len - 1) \div page_len
    IN IF count < 1 THEN 1 ELSE count

\* The declared plaintext length of an encrypted entry replaces the length of
\* the archive entry; a fixed-layout item is one page.
PagesOf(item, page) ==
    IF item.fixed THEN 1
    ELSE PositionCount(IF item.original_length = NoLength
                       THEN item.archive_len ELSE item.original_length, page)

\* generate_spine_base_cfi: the first item is /6/2.
SpineStep(spine_index) == (spine_index + 1) * 2

\* Page p of a chapter: its CFI is /6/<spine_step>!/4, then /<2p> unless p = 0.
\* Progressions are kept as exact fractions, <<numerator, denominator>>.
Page(spine_index, p, count, start) ==
    [spine_index |-> spine_index,
     package |-> <<6, SpineStep(spine_index)>>,
     local |-> IF p = 0 THEN <<4>> ELSE <<4, p * 2>>,
     global_position |-> start + p + 1,
     chapter_progression |-> <<p, count>>,
     total_progression |-> <<0, 1>>]

Chapter(spine_index, count, start) ==
    [i \in 1..count |-> Page(spine_index, i - 1, count, start)]

Init ==
    /\ phase = "count"
    /\ spine \in Books /\ page_length \in PageLengths
    /\ next = 0 /\ last_position = 0 /\ by_chapter = << >>
    /\ positions = << >> /\ chapter_starts = << >> /\ spine_to_order = << >>

Counting == phase = "count" /\ next < Len(spine)

SkipNonLinear ==
    /\ Counting
    /\ ~spine[next + 1].linear
    /\ next' = next + 1
    /\ UNCHANGED <<phase, spine, page_length, last_position, by_chapter,
                   positions, chapter_starts, spine_to_order>>

\* A linear item that is missing from the manifest fails the whole call.
MissingManifestItem ==
    /\ Counting
    /\ spine[next + 1].linear /\ ~spine[next + 1].in_manifest
    /\ phase' = "failed"
    /\ UNCHANGED <<spine, page_length, next, last_position, by_chapter,
                   positions, chapter_starts, spine_to_order>>

\* In error: numbering starts over after the second chapter.
ForgetLastPosition ==
    /\ Counting
    /\ spine[next + 1].linear /\ spine[next + 1].in_manifest
    /\ LET count == PagesOf(spine[next + 1], page_length) IN
         /\ by_chapter' = Append(by_chapter, Chapter(next, count, last_position))
         /\ last_position' = count
    /\ next' = next + 1
    /\ UNCHANGED <<phase, spine, page_length, positions, chapter_starts, spine_to_order>>
CountChapter ==
    /\ Counting
    /\ spine[next + 1].linear /\ spine[next + 1].in_manifest
    /\ LET count == PagesOf(spine[next + 1], page_length) IN
         /\ by_chapter' = Append(by_chapter, Chapter(next, count, last_position))
         /\ last_position' = last_position + count
    /\ next' = next + 1
    /\ UNCHANGED <<phase, spine, page_length, positions, chapter_starts, spine_to_order>>

\* Pass 2: every page's total progression, (global_position - 1) / pages.
ComputeTotals ==
    /\ phase = "count" /\ next = Len(spine)
    /\ phase' = "build" /\ next' = 0
    /\ by_chapter' = [k \in DOMAIN by_chapter |-> [i \in DOMAIN by_chapter[k] |->
            [by_chapter[k][i] EXCEPT
                !.total_progression = <<by_chapter[k][i].global_position - 1, last_position>>]]]
    /\ chapter_starts' = <<0>>
    /\ UNCHANGED <<spine, page_length, last_position, positions, spine_to_order>>

\* spine_to_order is keyed by the index in the full spine; its values are
\* 0-based orders among linear items.
OrderBySpine(key) == [s \in DOMAIN spine_to_order \cup {key} |->
                        IF s = key THEN next ELSE spine_to_order[s]]
\* One iteration of PositionIndex::build.
BuildChapter ==
    /\ phase = "build" /\ next < Len(by_chapter)
    /\ spine_to_order' =
          IF by_chapter[next + 1] = << >> THEN spine_to_order
          ELSE OrderBySpine(by_chapter[next + 1][1].spine_index)
    /\ positions' = positions \o by_chapter[next + 1]
    /\ chapter_starts' = Append(chapter_starts, Len(positions'))
    /\ next' = next + 1
    /\ UNCHANGED <<phase, spine, page_length, last_position, by_chapter>>

Built ==
    /\ phase = "build" /\ next = Len(by_chapter)
    /\ phase' = "ready"
    /\ UNCHANGED <<spine, page_length, next, last_position, by_chapter,
                   positions, chapter_starts, spine_to_order>>

Next == SkipNonLinear \/ MissingManifestItem \/ CountChapter \/ ComputeTotals
          \/ BuildChapter \/ Built

\* A call under way runs on to its end.
Spec == Init /\ [][Next]_vars

-----------------------------------------------------------------------------
\* location_from_cfi on the parsed CFI [kind, package, local, start]: `start`
\* is the local path of a range's start endpoint, which the code does not use.
\* The value is the set of possible outcomes.  `spine_step / 2 - 1` on a step
\* below 2 panics when overflow is checked (debug builds) and otherwise wraps to
\* an index no spine has.
Some(i) == [outcome |-> "page", page |-> i]
None == [outcome |-> "none", page |-> 0]
Panic == [outcome |-> "panic", page |-> 0]

\* In error: a step past the end of a chapter is a page of the next one.
LocationUnclamped(cfi) ==
    IF positions = << >> \/ Len(cfi.package) < 2 \/ cfi.package[2] < 2 THEN {None}
    ELSE IF cfi.package[2] \div 2 - 1 \notin DOMAIN spine_to_order THEN {None}
    ELSE {Some(chapter_starts[spine_to_order[cfi.package[2] \div 2 - 1] + 1]
                 + (IF Len(cfi.local) < 2 THEN 0 ELSE cfi.local[2] \div 2))}
LocationFromCfi(cfi) ==
    IF positions = << >> \/ Len(cfi.package) < 2 THEN {None}
    ELSE IF cfi.package[2] < 2 THEN {None, Panic}
    ELSE IF cfi.package[2] \div 2 - 1 \notin DOMAIN spine_to_order THEN {None}
    ELSE LET order == spine_to_order[cfi.package[2] \div 2 - 1]
             p == IF Len(cfi.local) < 2 THEN 0 ELSE cfi.local[2] \div 2
             start == chapter_starts[order + 1]
             len == chapter_starts[order + 2] - start
             last == IF len = 0 THEN 0 ELSE len - 1
         IN {Some(start + (IF p < last THEN p ELSE last))}

\* cfi_from_location and position_at.
CfiFromLocation(i) ==
    IF i < Len(positions)
    THEN {[kind |-> "point", package |-> positions[i + 1].package,
           local |-> positions[i + 1].local, start |-> << >>]}
    ELSE {}
-----------------------------------------------------------------------------
\* Type invariant.
Pages == [spine_index : Nat, package : Seq(Nat), local : Seq(Nat),
          global_position : Nat \ {0}, chapter_progression : Nat \X (Nat \ {0}),
          total_progression : Nat \X (Nat \ {0})]
TypeOK ==
    /\ phase \in {"count", "build", "ready", "failed"}
    /\ spine \in Books /\ page_length \in PageLengths
    /\ next \in Nat /\ last_position \in Nat
    /\ by_chapter \in Seq(Seq(Pages)) /\ positions \in Seq(Pages)
    /\ chapter_starts \in Seq(Nat)
    /\ DOMAIN spine_to_order \subseteq 0..(Len(spine) - 1)
    /\ \A s \in DOMAIN spine_to_order : spine_to_order[s] \in Nat

\* Pages are numbered 1, 2, 3 ... through the whole publication, whatever the
\* mix of skipped, fixed and reflowable items: page i carries number i + 1, and
\* its total progression is that many pages out of all of them, so it grows
\* from 0 and stays below 1.  The types of the tables hold throughout.
GloballyNumbered ==
    /\ TypeOK
    /\ phase = "ready" =>
        /\ Len(positions) = last_position
        /\ \A i \in DOMAIN positions :
              /\ positions[i].global_position = i
              /\ positions[i].total_progression = <<i - 1, Len(positions)>>

\* Every linear item is given enough pages for its bytes and none to spare, and
\* at least one, all of them its own and in spine order.
PagesCoverEachItem ==
    phase = "ready" =>
      \A s \in DOMAIN spine :
        LET mine == {i \in DOMAIN positions : positions[i].spine_index = s - 1}
            pages == Cardinality(mine)
            page_len == IF page_length < 1 THEN 1 ELSE page_length
            bytes == IF spine[s].original_length = NoLength
                     THEN spine[s].archive_len ELSE spine[s].original_length
        IN IF ~spine[s].linear THEN pages = 0
           ELSE /\ pages >= 1
                /\ spine[s].fixed => pages = 1
                /\ ~spine[s].fixed =>
                      pages * page_len >= bytes /\ (pages > 1 => (pages - 1) * page_len < bytes)

\* cfi_from_location and location_from_cfi are inverse: the index says of every
\* page's own CFI that it is on that page.
RoundTrips ==
    phase = "ready" =>
      \A i \in 0..(Len(positions) - 1) : \A cfi \in CfiFromLocation(i) :
        LocationFromCfi(cfi) = {Some(i)}

\* Reading order of CFIs: step by step, an ancestor before what is under it.
NotAfter(a, b) ==
    \/ Len(a) <= Len(b) /\ \A i \in DOMAIN a : a[i] = b[i]
    \/ \E k \in DOMAIN a \cap DOMAIN b :
          a[k] < b[k] /\ \A i \in 1..(k - 1) : a[i] = b[i]
PageNotAfter(i, package, local) ==
    NotAfter(positions[i].package \o positions[i].local, package \o local)
Pages0NotAfter(package, local) ==
    {i \in 0..(Len(positions) - 1) : PageNotAfter(i + 1, package, local)}

\* CFIs a reader may hold: somewhere in the body of any spine item, on, between
\* and beyond the steps that pages begin at.
MaxStep == 2 * Len(positions) + 3
BodyPaths == {<<4>>} \cup {<<4, k>> : k \in 1..MaxStep}
               \cup {<<4, k, m>> : k \in 1..MaxStep, m \in {1, 2}}
SpinePaths == {<<6, SpineStep(s - 1)>> : s \in 1..(Len(spine) + 1)}
PointCfis == {[kind |-> "point", package |-> s, local |-> b, start |-> << >>]
                : s \in SpinePaths, b \in BodyPaths}

\* location_from_cfi's documentation: for any point it "returns the largest i
\* such that positions[i].cfi <= cfi", and None when the CFI's spine item is not
\* a linear chapter.  Dividing the step by two and clamping agrees with the
\* order of CFIs at every chapter boundary.
LargestNotAfter ==
    phase = "ready" => \A cfi \in PointCfis :
        LocationFromCfi(cfi) =
          IF \E i \in DOMAIN positions : positions[i].package = cfi.package
          THEN LET before == Pages0NotAfter(cfi.package, cfi.local)
               IN {Some(CHOOSE i \in before : \A j \in before : j <= i)}
          ELSE {None}

\* Both lookups speak of one order of pages, in both directions.
LookupsAgree == RoundTrips /\ LargestNotAfter
=============================================================================
