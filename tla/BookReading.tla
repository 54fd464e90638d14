----------------------------- MODULE BookReading -----------------------------
(***************************************************************************)
(* parser/reading.rs: searching a whole book chapter by chapter, with a cap *)
(* per chapter and one in total, and choosing the chapter a book opens at.  *)
(*                                                                          *)
(* A chapter is known by its href, by whether its id, href, properties or   *)
(* the cover's id make it look like a cover or title page, and by how many  *)
(* matches it holds; a landmark or guide reference by its roles and the     *)
(* path it points to, a landmark's from the top of the archive.             *)
(***************************************************************************)
EXTENDS EpubPath, Integers, FiniteSets

CONSTANTS
    Readable,      \* [spine, nav_fails, landmarks, guide]
    SearchOptions, \* [blank, max_per_chapter, max_total, include_non_linear]
    DefaultPerChapter, DefaultTotal

ASSUME ReadableAssumption ==
    \A r \in Readable :
        /\ \A s \in {r.spine, r.landmarks, r.guide} : s \in Seq(Range(s))
        /\ \A item \in Range(r.spine) :
              item.matches \in Nat /\ item.href \in Seq(Range(item.href))
        /\ \A e \in Range(r.landmarks) : e.path \in Seq(Range(e.path))
ASSUME SearchAssumption ==
    /\ DefaultPerChapter \in Nat /\ DefaultTotal \in Nat
    /\ \A o \in SearchOptions : o.max_per_chapter \in Nat /\ o.max_total \in Nat

VARIABLES
    readable, search_options,
    reading,     \* "idle" | "search" | "found" | "opened"
    spine_at,    \* chapters enumerated so far
    hits,        \* [spine_index, nth]
    start        \* {} or {[spine_index, source]}

reading_vars == <<readable, search_options, reading, spine_at, hits, start>>

-----------------------------------------------------------------------------
\* A cap of 0 stands for the default.
MaxPer == IF search_options.max_per_chapter = 0 THEN DefaultPerChapter
          ELSE search_options.max_per_chapter
MaxTotal == IF search_options.max_total = 0 THEN DefaultTotal
            ELSE search_options.max_total

Skips(item) == ~search_options.include_non_linear /\ ~item.linear

Least(a, b) == IF a < b THEN a ELSE b
\* In error: the total is looked at between chapters only.
TakenWhole(item, have) == Least(item.matches, MaxPer)
\* How many of a chapter's hits are taken when there are `have` already.
Taken(item, have) == Least(Least(item.matches, MaxPer), MaxTotal - have)

ReadingInit ==
    /\ readable \in Readable /\ search_options \in SearchOptions
    /\ reading = "idle" /\ spine_at = 0 /\ hits = << >> /\ start = {}

\* A blank query finds nothing.
StartSearch ==
    /\ reading = "idle"
    /\ reading' = IF search_options.blank THEN "found" ELSE "search"
    /\ UNCHANGED <<readable, search_options, spine_at, hits, start>>

\* A chapter that cannot be loaded is passed over.
SearchChapter ==
    /\ reading = "search"
    /\ spine_at < Len(readable.spine)
    /\ LET item == readable.spine[spine_at + 1] IN
         /\ Skips(item) \/ Len(hits) < MaxTotal
         /\ hits' = IF Skips(item) \/ ~item.loads THEN hits
                    ELSE hits \o [n \in 1..Taken(item, Len(hits)) |->
                                    [spine_index |-> spine_at, nth |-> n]]
    /\ spine_at' = spine_at + 1
    /\ UNCHANGED <<readable, search_options, reading, start>>

EndSearch ==
    /\ reading = "search"
    /\ \/ spine_at = Len(readable.spine)
       \/ /\ spine_at < Len(readable.spine) /\ Len(hits) >= MaxTotal
          /\ ~Skips(readable.spine[spine_at + 1])
    /\ reading' = "found"
    /\ UNCHANGED <<readable, search_options, spine_at, hits, start>>

-----------------------------------------------------------------------------
FileName(path) == IF path = << >> THEN "" ELSE Last(path)

\* In error: the directories have to agree, not the files.
SameDirectory(href, path) == ParentDir(href) = ParentDir(path)
\* Two paths are taken for the same if one ends with the other or their file
\* names agree.
SamePlace(href, path) ==
    \/ EndsWith(href, path) \/ EndsWith(path, href)
    \/ FileName(href) = FileName(path)

First(S) == CHOOSE i \in S : \A j \in S : i <= j

\* spine_index_for_href: {} or {0-based index}.
SpineIndexForHref(path) ==
    LET found == {i \in DOMAIN readable.spine :
                    /\ readable.spine[i].in_manifest
                    /\ SamePlace(readable.spine[i].href, path)}
    IN IF found = {} THEN {} ELSE {First(found) - 1}

\* The first entry with the role decides, and only if it leads to the spine.
FromReferences(references, role) ==
    LET found == {i \in DOMAIN references : role \in references[i].roles}
    IN IF found = {} THEN {} ELSE SpineIndexForHref(references[First(found)].path)

LandmarkRoles == <<"bodymatter", "text", "chapter", "body">>
GuideTypes == <<"text", "start">>

\* The places a book may open at, in order of preference.
Candidates ==
    (IF readable.nav_fails THEN << >>
     ELSE [i \in DOMAIN LandmarkRoles |->
             FromReferences(readable.landmarks, LandmarkRoles[i])])
    \o [i \in DOMAIN GuideTypes |-> FromReferences(readable.guide, GuideTypes[i])]
    \o <<LET body == {i \in DOMAIN readable.spine :
                        readable.spine[i].linear /\ ~readable.spine[i].cover}
         IN IF body = {} THEN {} ELSE {First(body) - 1}>>

Open ==
    /\ reading = "idle"
    /\ LET found == {i \in DOMAIN Candidates : Candidates[i] # {}} IN
         start' = IF found = {} THEN {0} ELSE Candidates[First(found)]
    /\ reading' = "opened"
    /\ UNCHANGED <<readable, search_options, spine_at, hits>>

ReadingNext == StartSearch \/ SearchChapter \/ EndSearch \/ Open
ReadingOver == reading \in {"found", "opened"}

ReadingSpec == ReadingInit /\ [][ReadingNext]_reading_vars

-----------------------------------------------------------------------------
\* All that could be reported: for every chapter searched, its first matches.
AllHits ==
    FlattenSeq([n \in DOMAIN readable.spine |->
        LET item == readable.spine[n]
            searched == item.loads /\ (item.linear \/ search_options.include_non_linear)
            count == IF ~searched THEN 0
                     ELSE IF item.matches < MaxPer THEN item.matches ELSE MaxPer
        IN [k \in 1..count |-> [spine_index |-> n - 1, nth |-> k]]])

\* A search reports the first max_total of these, in reading order, whichever
\* chapters fail and wherever the caps strike (search_book_with_options).
FirstHitsFound ==
    LET all == AllHits IN
    /\ IsPrefix(hits, all) /\ Len(hits) <= MaxTotal
    /\ reading = "found" /\ ~search_options.blank =>
          Len(hits) = IF Len(all) < MaxTotal THEN Len(all) ELSE MaxTotal

\* The path of a chapter in the archive: its href behind the directory, if any,
\* of the package document.
LiesAt(href, path) ==
    /\ Len(href) <= Len(path)
    /\ \A n \in DOMAIN href : path[(Len(path) - Len(href)) + n] = href[n]

\* A book whose chapters are files, none with a name that another's ends with,
\* opens exactly where its landmarks name the body matter, in whatever directory
\* of the archive the package document is; one with neither
\* landmarks nor guide never opens at a cover or a supplement while it has a
\* chapter (preferred_reading_start).
OpensAtBody ==
    reading = "opened" =>
        LET spine == readable.spine
            at == CHOOSE i \in start : TRUE
            named == {i \in DOMAIN readable.landmarks :
                        "bodymatter" \in readable.landmarks[i].roles}
            distinct == \A i, j \in DOMAIN spine :
                            /\ spine[i].href # << >>
                            /\ i # j => ~EndsWith(<<FileName(spine[i].href)>>,
                                                  <<FileName(spine[j].href)>>)
        IN /\ distinct /\ ~readable.nav_fails =>
                \A i \in named : (\A j \in named : i <= j) =>
                    \A k \in DOMAIN spine :
                        LiesAt(spine[k].href, readable.landmarks[i].path)
                        /\ spine[k].in_manifest
                        => at = k - 1
           /\ readable.landmarks = << >> /\ readable.guide = << >> =>
                \A k \in DOMAIN spine :
                    spine[k].linear /\ ~spine[k].cover =>
                        spine[at + 1].linear /\ ~spine[at + 1].cover
=============================================================================
