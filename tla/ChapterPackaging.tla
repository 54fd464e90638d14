--------------------------- MODULE ChapterPackaging ---------------------------
(***************************************************************************)
(* processor/prepare.rs and parser/reading.rs, prepare_chapter: a chapter   *)
(* is made to stand alone by replacing its references to images, fonts and  *)
(* stylesheets with data: URIs of what they name.                           *)
(*                                                                          *)
(* References are collected from the chapter's text by regular expressions, *)
(* then followed with a work list, through stylesheets too; after that the  *)
(* stylesheets are written out in the order a HashMap yields them, and at   *)
(* last an HTML rewriter visits the elements.  What is collected and what   *)
(* is rewritten are decided in different places, by different means.        *)
(*                                                                          *)
(* A chapter is a sequence of markup, each with one reference; a stylesheet *)
(* is a sequence of tokens, each with one.  Data is known by the archive    *)
(* entry it was read from and, for a stylesheet, by what its tokens became. *)
(***************************************************************************)
EXTENDS EpubPath, Integers, FiniteSets

CONSTANTS
    Publications,  \* [opf_dir, entries, content, manifest]
    ChapterPaths,  \* manifest hrefs of chapters
    Chapters,      \* what a chapter's file holds: sequences of markup
    Options,       \* [readable, inject_cfi, base_cfi, inline_resources, malformed]
    GuessedType,   \* [segments -> types]: by the extension
    Aliases        \* <<asked, entry>>: alike but for case or image extension

\* A file is markup or tokens one after the other; every entry has its content,
\* and none is the directory that the package document is in.
ASSUME ChaptersAssumption == \A c \in Chapters : c \in Seq(Range(c))
ASSUME PublicationsAssumption ==
    \A p \in Publications :
        /\ p.entries \in Seq(DOMAIN p.content)
        /\ \A e \in DOMAIN p.content : p.content[e].css \in Seq(Range(p.content[e].css))
        /\ NormalizePath(p.opf_dir, << >>) \notin Range(p.entries)

VARIABLES
    publication, chapter_path, chapter, options,
    packaging,   \* "idle" | "collect" | "materialise" | "done" | "failed"
    pending,     \* paths to load, the last first
    seen,
    uri_map,     \* path -> data
    css_sources, \* path -> entry read as a stylesheet, not yet written out
    stats,
    html         \* what has become of each piece of markup

packaging_vars == <<publication, chapter_path, chapter, options, packaging,
                    pending, seen, uri_map, css_sources, stats, html>>

-----------------------------------------------------------------------------
\* Markup: "img" and "a" are seen by both sides; "comment" and "script" only by
\* the regular expressions; "object" (its data attribute) only by the rewriter;
\* "style_import", a <style> block with an @import and no url(), by neither.
Collected == {"img", "srcset", "link", "a", "style", "script", "comment"}

\* push_normalized_ref, and process_element for a link.
IsLocal(ref) == ~ref.ext /\ ~IsFragmentOnly(ref) /\ ref.path # << >>
IsFound(m) == m.tag \in Collected /\ IsLocal(m.ref)
\* In CSS and in a srcset only external and empty URLs are left alone: "#clip" is
\* taken for the directory.
IsCssLocal(ref) == ~ref.ext /\ ~(ref.path = << >> /\ ~ref.frag)

\* ZipProvider::resolve_zip_name: the entry of that name, or else the first in
\* the archive that differs from it by case or image extension only.
ZipEntry(path) ==
    LET entries == publication.entries
        alike == {i \in DOMAIN entries : <<path, entries[i]>> \in Aliases}
    IN IF path \in Range(entries) THEN {path}
       ELSE IF alike = {} THEN {}
       ELSE {entries[CHOOSE i \in alike : \A j \in alike : i <= j]}

\* read_resource_by_href: the href, which the caller may have normalized before,
\* is normalized again, from the package document's directory.
EntryOfHref(path) == ZipEntry(NormalizePath(publication.opf_dir, path))

\* match_manifest_item takes the first of these that the manifest, a HashMap,
\* yields.
MatchingItems(path) ==
    {m \in publication.manifest :
        m.href = path \/ EndsWith(m.href, path) \/ EndsWith(path, m.href)}

DeclaredTypes(path) ==
    IF MatchingItems(path) = {} THEN {"none"} ELSE {m.type : m \in MatchingItems(path)}

\* resolve_media_type; "none" is a blank type or application/octet-stream.
ResolvedType(path, declared) ==
    IF declared # "none" THEN declared
    ELSE IF path # << >> /\ Last(path) \in DOMAIN GuessedType
         THEN GuessedType[Last(path)] ELSE "none"

\* In error: the manifest is asked first, whatever the archive holds.
LoadsByItem(path) ==
    IF MatchingItems(path) = {} THEN {[entry |-> << >>, type |-> "missing"]}
    ELSE {[entry |-> NormalizePath(publication.opf_dir, m.href),
           type |-> ResolvedType(path, m.type)] : m \in MatchingItems(path)}
\* The closure load_resource: the set of its possible results.
Loads(path) ==
    LET items == MatchingItems(path)
        as(entry, type) == [entry |-> entry, type |-> ResolvedType(path, type)]
        missing == [entry |-> << >>, type |-> "missing"]
    IN IF EntryOfHref(path) # {}
       THEN LET entry == CHOOSE e \in EntryOfHref(path) : TRUE
            IN {as(entry, type) : type \in DeclaredTypes(path)}
       ELSE IF items = {} THEN {missing}
       ELSE UNION {IF EntryOfHref(m.href) = {} THEN {missing}
                   ELSE {as(e, m.type) : e \in EntryOfHref(m.href)} : m \in items}

Tokens(entry) == publication.content[entry].css
IsBig(entry) == publication.content[entry].big
Inlineable == {"image", "font"}

\* The references of the pieces at these places, in their order, each pushed as
\* it is met.
RefsAt(dir, pieces, places) ==
    LET upto[n \in 0..Len(pieces)] ==
            IF n = 0 THEN << >>
            ELSE IF n \in places
                 THEN Append(upto[n - 1], NormalizePath(dir, pieces[n].ref.path))
                 ELSE upto[n - 1]
    IN upto[Len(pieces)]

\* What rewrite_css asks the resolver for: url() and @import.
AskedFor(token) == token.tok # "rule" /\ IsCssLocal(token.ref)
CssRefs(path, entry) ==
    RefsAt(ParentDir(path), Tokens(entry),
           {i \in DOMAIN Tokens(entry) : AskedFor(Tokens(entry)[i])})

\* In error: only what stands beside the stylesheet is found.
NestedDataBeside(path, token) ==
    LET abs == ParentDir(path) \o token.ref.path
    IN IF AskedFor(token) /\ abs \in DOMAIN uri_map
       THEN {uri_map[abs]} ELSE {}
\* A token after rewriting: {} if it was left alone, else {its data}.
NestedData(path, token) ==
    LET abs == NormalizePath(ParentDir(path), token.ref.path)
    IN IF AskedFor(token) /\ abs \in DOMAIN uri_map
       THEN {uri_map[abs]} ELSE {}
Data(entry, type) == [entry |-> entry, type |-> type, nested |-> << >>]
CssData(path, entry) ==
    [entry |-> entry, type |-> "css",
     nested |-> [i \in DOMAIN Tokens(entry) |-> NestedData(path, Tokens(entry)[i])]]

\* HashMap::insert.
Insert(map, key, value) ==
    [k \in DOMAIN map \cup {key} |-> IF k = key THEN value ELSE map[k]]

NoStats == [considered |-> 0, inlined |-> 0, skipped_oversize |-> 0,
            missing |-> 0, skipped_type |-> 0]
\* What has become of a piece: frag says that "#..." follows the data.
Kept == [how |-> "kept", data |-> {}, frag |-> FALSE]

-----------------------------------------------------------------------------
PackagingInit ==
    /\ publication \in Publications /\ chapter_path \in ChapterPaths
    /\ chapter \in Chapters /\ options \in Options
    /\ packaging = "idle" /\ pending = << >> /\ seen = {}
    /\ uri_map = << >> /\ css_sources = << >> /\ stats = NoStats
    /\ html = << >>

NoInput == UNCHANGED <<publication, chapter_path, chapter, options>>

\* The chapter has to be in the spine, in the manifest and in the archive, and
\* marks cannot be injected without its CFI.
CanPackage == options.readable /\ (options.inject_cfi => options.base_cfi)

PackagingFails ==
    /\ packaging = "idle"
    /\ ~CanPackage
    /\ packaging' = "failed"
    /\ NoInput
    /\ UNCHANGED <<pending, seen, uri_map, css_sources, stats, html>>

LeaveResources ==
    /\ packaging = "idle"
    /\ CanPackage
    /\ ~options.inline_resources
    /\ packaging' = "done"
    /\ html' = [i \in DOMAIN chapter |-> Kept]
    /\ NoInput
    /\ UNCHANGED <<pending, seen, uri_map, css_sources, stats>>

CollectRefs ==
    /\ packaging = "idle"
    /\ CanPackage
    /\ options.inline_resources
    /\ pending' = RefsAt(ParentDir(chapter_path), chapter,
                         {i \in DOMAIN chapter : IsFound(chapter[i])})
    /\ packaging' = "collect"
    /\ NoInput
    /\ UNCHANGED <<seen, uri_map, css_sources, stats, html>>

Enter(path) == seen \cup {path}

\* In error: the path is looked at, not taken.
PeekSeen ==
    /\ packaging = "collect" /\ pending # << >> /\ Last(pending) \in seen
    /\ UNCHANGED packaging_vars
SkipSeen ==
    /\ packaging = "collect" /\ pending # << >> /\ Last(pending) \in seen
    /\ pending' = Front(pending)
    /\ NoInput
    /\ UNCHANGED <<packaging, seen, uri_map, css_sources, stats, html>>

\* In error: missing resources are not considered.
CountLoaded(field) ==
    [stats EXCEPT !.considered = IF field = "missing" THEN @ ELSE @ + 1, ![field] = @ + 1]
Count(field) == [stats EXCEPT !.considered = @ + 1, ![field] = @ + 1]

LoadNext ==
    /\ packaging = "collect" /\ pending # << >> /\ Last(pending) \notin seen
    /\ LET path == Last(pending) IN
         /\ seen' = Enter(path)
         /\ \E loaded \in Loads(path) :
              LET entry == loaded.entry IN
              CASE loaded.type = "missing" ->
                     /\ stats' = Count("missing")
                     /\ pending' = Front(pending)
                     /\ UNCHANGED <<uri_map, css_sources>>
                [] loaded.type # "missing" /\ IsBig(entry) ->
                     /\ stats' = Count("skipped_oversize")
                     /\ pending' = Front(pending)
                     /\ UNCHANGED <<uri_map, css_sources>>
                [] loaded.type = "css" /\ ~IsBig(entry) ->
                     /\ stats' = [stats EXCEPT !.considered = @ + 1]
                     /\ pending' = Front(pending) \o CssRefs(path, entry)
                     /\ css_sources' = Insert(css_sources, path, entry)
                     /\ UNCHANGED uri_map
                [] loaded.type \in Inlineable /\ ~IsBig(entry) ->
                     /\ stats' = Count("inlined")
                     /\ pending' = Front(pending)
                     /\ uri_map' = Insert(uri_map, path, Data(entry, loaded.type))
                     /\ UNCHANGED css_sources
                [] OTHER ->
                     /\ stats' = Count("skipped_type")
                     /\ pending' = Front(pending)
                     /\ UNCHANGED <<uri_map, css_sources>>
    /\ NoInput
    /\ UNCHANGED <<packaging, html>>

AllLoaded ==
    /\ packaging = "collect" /\ pending = << >>
    /\ packaging' = "materialise"
    /\ NoInput
    /\ UNCHANGED <<pending, seen, uri_map, css_sources, stats, html>>

\* Iterating over a HashMap: any stylesheet may be next, and the ones that are
\* not in uri_map yet are left as they are where it refers to them.
Materialise ==
    /\ packaging = "materialise"
    /\ \E path \in DOMAIN css_sources :
         /\ uri_map' = Insert(uri_map, path, CssData(path, css_sources[path]))
         /\ css_sources' = Restrict(css_sources, DOMAIN css_sources \ {path})
    /\ stats' = [stats EXCEPT !.inlined = @ + 1]
    /\ NoInput
    /\ UNCHANGED <<packaging, pending, seen, html>>

\* rewrite_resources for one piece of markup.  An image's empty src names the
\* chapter's directory; a link takes its fragment along, behind the data.
IsVisited(m) ==
    \/ m.tag \in {"style", "srcset"} /\ IsCssLocal(m.ref)
    \/ m.tag \in {"img", "object"} /\ ~m.ref.ext /\ ~IsFragmentOnly(m.ref)
    \/ m.tag \in {"link", "a"} /\ IsLocal(m.ref)
RewrittenAs(m) ==
    LET abs == NormalizePath(ParentDir(chapter_path), m.ref.path)
    IN IF IsVisited(m) /\ abs # << >> /\ abs \in DOMAIN uri_map
       THEN [how |-> "data", data |-> {uri_map[abs]},
             frag |-> m.tag \in {"link", "a"} /\ m.ref.frag]
       ELSE Kept

\* promote_data_stylesheet_links: a link to a stylesheet's data becomes a
\* <style> block, or goes if there is nothing in it.  With a fragment behind it
\* the data does not decode, and the link stays as it is.
Promoted(m, r) ==
    IF m.tag = "link" /\ ~r.frag /\ \E d \in r.data : d.type = "css"
    THEN IF \E d \in r.data : d.nested = << >>
         THEN [Kept EXCEPT !.how = "dropped"]
         ELSE [r EXCEPT !.how = "style"]
    ELSE r

\* Markup the rewriter cannot parse is kept, which does not fail the call.  When
\* marks were injected the markup is what an HTML parser wrote, never malformed.
Rewrite ==
    /\ packaging = "materialise" /\ DOMAIN css_sources = {}
    /\ html' = [i \in DOMAIN chapter |->
                   IF options.malformed /\ ~options.inject_cfi THEN Kept
                   ELSE Promoted(chapter[i], RewrittenAs(chapter[i]))]
    /\ packaging' = "done"
    /\ NoInput
    /\ UNCHANGED <<pending, seen, uri_map, css_sources, stats>>

PackagingNext ==
    \/ PackagingFails \/ LeaveResources \/ CollectRefs
    \/ SkipSeen \/ LoadNext \/ AllLoaded \/ Materialise \/ Rewrite

PackagingSpec == PackagingInit /\ [][PackagingNext]_packaging_vars

PackagingOver == packaging \in {"done", "failed"}

-----------------------------------------------------------------------------
PackagingTypeOK ==
    /\ packaging \in {"idle", "collect", "materialise", "done", "failed"}
    /\ DOMAIN uri_map \subseteq seen /\ DOMAIN css_sources \subseteq seen
    /\ \A f \in DOMAIN stats : stats[f] \in Nat
    /\ packaging = "done" => DOMAIN html = DOMAIN chapter

\* The counters account for every path exactly once at any moment: what was
\* considered was inlined, skipped, missing or is a stylesheet in waiting, and
\* what counts as inlined is what the rewriter will find (struct PrepareStats).
StatsAddUp ==
    /\ PackagingTypeOK
    /\ stats.considered = Cardinality(seen)
    /\ stats.considered = stats.inlined + stats.skipped_oversize + stats.missing
                           + stats.skipped_type + Cardinality(DOMAIN css_sources)
    /\ stats.inlined = Cardinality(DOMAIN uri_map)

\* What follows is about references whose meaning does not depend on how they
\* are resolved.  Resolving is done twice, from the chapter or stylesheet and
\* then from the package document, decoding each time: the entry named is the
\* one both ways give unless the reference climbs out of the package document's
\* directory or has an encoded "%", "#" or "?" in it.
Named(dir, ref) == NormalizePath(publication.opf_dir \o dir, ref.path)
IsPlain(dir, ref) ==
    /\ ~ref.ext /\ ref.path # << >>
    /\ NormalizePath(publication.opf_dir, NormalizePath(dir, ref.path)) = Named(dir, ref)
    /\ Named(dir, ref) \in Range(publication.entries)
\* Whatever item the manifest yields for it, its type is one to inline.
HasType(dir, ref, types) ==
    LET path == NormalizePath(dir, ref.path) IN
    \A type \in DeclaredTypes(path) : ResolvedType(path, type) \in types

\* In a packaged chapter every reference a reading system will follow, to an
\* image, font or stylesheet that is in the archive and not too large, has
\* become the data of exactly that entry, whatever was loaded before, missing
\* or refused (prepare_chapter_html_with_stats).
ReferencesBecomeData ==
    packaging = "done" /\ options.inline_resources
    /\ ~(options.malformed /\ ~options.inject_cfi) =>
        LET dir == ParentDir(chapter_path) IN
        \A i \in DOMAIN chapter :
            LET m == chapter[i] IN
            m.tag \in {"img", "srcset", "link", "style"} /\ IsPlain(dir, m.ref)
            /\ ~IsBig(Named(dir, m.ref))
            /\ HasType(dir, m.ref, Inlineable \cup {"css"})
            => \/ html[i].how = "dropped" /\ Tokens(Named(dir, m.ref)) = << >>
               \/ {d.entry : d \in html[i].data} = {Named(dir, m.ref)}

\* The same for the images and fonts a stylesheet names, wherever the stylesheet
\* is and however many stylesheets import each other: no path is resolved from
\* the wrong file (rewrite.rs, RewriteContext; the second loop of
\* prepare_chapter_html_with_stats).  An imported stylesheet may be left out:
\* that depends on the order in which the HashMap yields them.
StylesheetsBecomeData ==
    \A path \in DOMAIN uri_map :
        LET data == uri_map[path]
            dir == ParentDir(path)
        IN data.type = "css" /\ data.entry = publication.opf_dir \o path =>
            \A i \in DOMAIN Tokens(data.entry) :
                LET t == Tokens(data.entry)[i] IN
                /\ t.tok # "rule" /\ IsPlain(dir, t.ref)
                   /\ ~IsBig(Named(dir, t.ref)) /\ HasType(dir, t.ref, Inlineable)
                   => {d.entry : d \in data.nested[i]} = {Named(dir, t.ref)}
                /\ t.ref.ext => data.nested[i] = {}

\* Of the links whose stylesheet is at hand as data only those stay links that
\* name a fragment of it: the rewriter puts the fragment behind the data, where
\* promote_data_stylesheet_links cannot decode it, and the stylesheet goes with
\* the <head>.  Every other one is a <style> block (or gone, being empty).
LinksPromoted ==
    packaging = "done" =>
        \A i \in DOMAIN html :
            chapter[i].tag = "link" /\ (\E d \in html[i].data : d.type = "css") =>
                (html[i].how = "data" <=> chapter[i].ref.frag)

\* Both, in a stylesheet and in the chapter that links it: a stylesheet has its
\* images and fonts in it, and is in the chapter itself unless it was linked
\* with a fragment.
StylesheetsPackaged == StylesheetsBecomeData /\ LinksPromoted
=============================================================================
