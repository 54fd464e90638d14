---------------------------- MODULE EpubGenerator ----------------------------
(***************************************************************************)
(* generator/mod.rs, ffi/generator.rs: a package assembled call by call.    *)
(*                                                                          *)
(* A handle owns an EpubBuilder until the build takes it.  The builder is a *)
(* record of lists that the calls append to; nothing is checked before      *)
(* validate, and generate adds documents of its own, under ids the caller   *)
(* may have used, before it writes the package.  What a package is worth is *)
(* what the parser of this crate reads back from it.                        *)
(*                                                                          *)
(* A resource is its manifest id, its href and its kind, which says who     *)
(* made it: "nav" and "ncx" are what the generator writes, "callers_nav" is *)
(* a document of the caller's own with the property nav.  A table of        *)
(* contents is the set of hrefs it points to (fragments cut off, as         *)
(* validate does).                                                          *)
(***************************************************************************)
EXTENDS Integers, Sequences, FiniteSets, SequencesExt

CONSTANTS
    Ids, Hrefs,        \* what callers name things
    Mandatory,         \* title, identifier, language
    NavId, NcxId, CoverId, ThemeId, AssetId,
    NavHref, NcxHref, ThemeHref, AssetHref,
    MaxResources       \* bound: resources a caller adds to one builder

Kinds == {"plain", "chapter", "cover", "nav", "ncx", "theme", "callers_nav"}
AllIds == Ids \cup {NavId, NcxId, CoverId, ThemeId, AssetId}
AllHrefs == Hrefs \cup {NavHref, NcxHref, ThemeHref, AssetHref}
Resources == [id : AllIds, href : AllHrefs, kind : Kinds]

ASSUME BoundAssumption == MaxResources \in Nat
\* The generator's own documents have ids of their own.
ASSUME OwnIdsAssumption ==
    NavId # NcxId /\ CoverId \notin {NavId, NcxId, ThemeId, AssetId}

VARIABLES
    handle,   \* "none", or "live" between epub_generator_new and _free
    builder,  \* {} once consumed, or {the EpubBuilder}
    package,  \* {} or {the package the last build set out to write}
    reply,    \* the last call and its outcome
    chapters, \* history: hrefs of the chapters added, in order
    cover     \* history: {} or {href given to the last set_cover}

vars == <<handle, builder, package, reply, chapters, cover>>

Builders ==
    [version : {"V20", "V30"}, theme : {"None", "Modern"},
     metadata : SUBSET Mandatory, resources : Seq(Resources), spine : Seq(AllIds),
     toc : SUBSET AllHrefs, cover_id : SUBSET AllIds]
Packages ==
    [items : Seq(Resources), spine : Seq(AllIds), has_toc : BOOLEAN,
     version : {"V20", "V30"}, cover_id : SUBSET AllIds]

TypeOK ==
    /\ handle \in {"none", "live"}
    /\ builder \in SUBSET Builders
    /\ package \in SUBSET Packages
    /\ reply \in [op : {"new", "call", "validate", "build", "file", "free"},
                  ok : BOOLEAN, valid : BOOLEAN]
    /\ chapters \in Seq(AllHrefs)
    /\ cover \in SUBSET AllHrefs

-----------------------------------------------------------------------------
EmptyBuilder ==
    [version |-> "V30", theme |-> "None", metadata |-> {}, resources |-> << >>,
     spine |-> << >>, toc |-> {}, cover_id |-> {}]

Resource(id, href, kind) == [id |-> id, href |-> href, kind |-> kind]
IdsOf(resources) == {resources[i].id : i \in DOMAIN resources}
HrefsOf(resources) == {resources[i].href : i \in DOMAIN resources}

\* validate: the errors it would list are none.
Validates(b) ==
    /\ b.metadata = Mandatory
    /\ b.spine # << >>
    /\ Range(b.spine) \subseteq IdsOf(b.resources)
    /\ b.toc \subseteq HrefsOf(b.resources)
    /\ b.cover_id \subseteq IdsOf(b.resources)

\* inject_theme_stylesheet.
Themed(b) ==
    IF b.theme = "Modern"
    THEN Append(b.resources, Resource(ThemeId, ThemeHref, "theme"))
    ELSE b.resources

\* In error: an NCX for EPUB 3 only, where nav.xhtml makes it redundant.
NavigationWithoutNcx(b) ==
    IF b.toc = {} \/ b.version = "V20" THEN << >>
    ELSE <<Resource(NavId, NavHref, "nav"), Resource(NcxId, NcxHref, "ncx")>>
\* generate_navigation_resources: both versions get an NCX, EPUB 3 nav.xhtml too.
Navigation(b) ==
    IF b.toc = {} THEN << >>
    ELSE (IF b.version = "V30" THEN <<Resource(NavId, NavHref, "nav")>> ELSE << >>)
           \o <<Resource(NcxId, NcxHref, "ncx")>>

\* preprocess_resources and generate_opf.
Generated(b) ==
    [items |-> Themed(b) \o Navigation(b), spine |-> b.spine,
     has_toc |-> b.toc # {}, version |-> b.version, cover_id |-> b.cover_id]

\* In error: the first of several items with one id is kept.
FirstItem(p, id) == SelectInSeq(p.items, LAMBDA item : item.id = id)
\* The parser fills a map from manifest ids: the last item of an id stays.
ItemOf(p, id) == SelectLastInSeq(p.items, LAMBDA item : item.id = id)
Manifest(p) == [id \in IdsOf(p.items) |-> p.items[ItemOf(p, id)]]

\* get_cover_image's fast path.
CoverRead(p) == {Manifest(p)[id].href : id \in p.cover_id \cap DOMAIN Manifest(p)}
\* load_navigation: the first item with the property nav that the map yields,
\* which may be any of them, or else the spine's toc.
NavigationRead(p) ==
    LET navs == {id \in DOMAIN Manifest(p) : Manifest(p)[id].kind \in {"nav", "callers_nav"}}
    IN IF navs # {} THEN {Manifest(p)[id].kind : id \in navs}
       ELSE IF p.has_toc /\ NcxId \in DOMAIN Manifest(p)
       THEN {Manifest(p)[NcxId].kind} ELSE {}

-----------------------------------------------------------------------------
Done(op, ok) == reply' = [op |-> op, ok |-> ok, valid |-> FALSE]

Init ==
    /\ handle = "none" /\ builder = {} /\ package = {}
    /\ reply = [op |-> "free", ok |-> TRUE, valid |-> FALSE]
    /\ chapters = << >> /\ cover = {}

\* epub_generator_new.
New ==
    /\ handle = "none"
    /\ handle' = "live" /\ builder' = {EmptyBuilder} /\ package' = {}
    /\ chapters' = << >> /\ cover' = {}
    /\ Done("new", TRUE)

\* epub_generator_free; the bytes of a package stay with the caller.
Free ==
    /\ handle = "live"
    /\ handle' = "none" /\ builder' = {}
    /\ Done("free", TRUE)
    /\ UNCHANGED <<package, chapters, cover>>

\* In error: the builder is taken before the JSON argument is parsed.
RefusedAfterTake ==
    /\ handle = "live"
    /\ builder' = {}
    /\ Done("call", FALSE)
    /\ UNCHANGED <<handle, package, chapters, cover>>
\* A null argument, JSON that does not parse, or a builder already consumed:
\* each is an error before the builder is taken out.
Refused ==
    /\ handle = "live"
    /\ Done("call", FALSE)
    /\ UNCHANGED <<handle, builder, package, chapters, cover>>

\* A call that takes the builder and puts back what it made of it.
Store(b) ==
    /\ handle = "live"
    /\ builder' = {b}
    /\ Done("call", TRUE)
    /\ UNCHANGED <<handle, package>>
Put(b) == Store(b) /\ UNCHANGED <<chapters, cover>>

\* epub_generator_set_title and its siblings; a blank value is one that
\* validate takes for missing.  add_author touches nothing that is modelled.
SetField(b, field) == Put([b EXCEPT !.metadata = @ \cup {field}])
BlankField(b, field) == Put([b EXCEPT !.metadata = @ \ {field}])
AddAuthor(b) == Put(b)

\* epub_generator_set_metadata replaces all fields.
SetMetadata(b, fields) == Put([b EXCEPT !.metadata = fields])

\* version and theme, which only callers in Rust can set.
Version(b, v) == Put([b EXCEPT !.version = v])
SetTheme(b, t) == Put([b EXCEPT !.theme = t])

Room(b) == Len(b.resources) < MaxResources

\* add_resource, add_resource_stream and add_resource_with_properties; of the
\* properties only nav makes a difference to what is read back.
AddResource(b, id, href, kind) ==
    /\ Room(b)
    /\ Put([b EXCEPT !.resources = Append(@, Resource(id, href, kind))])

\* In error: chapters are pushed to the front of the reading order.
WithChapterFirst(b, id, href) ==
    [b EXCEPT !.spine = <<id>> \o @,
              !.resources = Append(@, Resource(id, href, "chapter"))]
WithChapter(b, id, href) ==
    [b EXCEPT !.spine = Append(@, id),
              !.resources = Append(@, Resource(id, href, "chapter"))]

\* add_chapter, add_supplementary_chapter, add_chapter_stream and
\* add_chapter_with_layout.
AddChapter(b, id, href) ==
    /\ Room(b)
    /\ Store(WithChapter(b, id, href))
    /\ chapters' = Append(chapters, href)
    /\ UNCHANGED cover

AddChapterWithNav(b, id, href) ==
    /\ Room(b)
    /\ Store([WithChapter(b, id, href) EXCEPT !.toc = @ \cup {href}])
    /\ chapters' = Append(chapters, href)
    /\ UNCHANGED cover

\* add_chapter_from_html_file: the assets that can be read (here at most one)
\* are registered before the chapter, under ids made from their paths.
AddHtmlFile(b, id, href, asset) ==
    /\ Room(b)
    /\ Store(WithChapter(
          [b EXCEPT !.resources =
              @ \o (IF asset THEN <<Resource(AssetId, AssetHref, "plain")>> ELSE << >>)],
          id, href))
    /\ chapters' = Append(chapters, href)
    /\ UNCHANGED cover

\* The HTML file cannot be read: the builder, passed by value, is dropped.
HtmlFileUnreadable(b) ==
    /\ handle = "live"
    /\ builder' = {}
    /\ Done("file", FALSE)
    /\ UNCHANGED <<handle, package, chapters, cover>>

\* Every cover is a resource of its own, all of them with one id.
SetCover(b, href) ==
    /\ Room(b)
    /\ Store([b EXCEPT !.resources = Append(@, Resource(CoverId, href, "cover")),
                       !.cover_id = {CoverId}])
    /\ cover' = {href}
    /\ UNCHANGED chapters

\* add_landmark, add_page: lists that are written and never checked, and that
\* no property looks at.
AddLink(b) == Put(b)

SetToc(b, hrefs) == Put([b EXCEPT !.toc = hrefs])

\* epub_generator_validate borrows the builder.
Validate(b) ==
    /\ handle = "live"
    /\ Done("validate", Validates(b))
    /\ UNCHANGED <<handle, builder, package, chapters, cover>>

\* epub_generator_build takes the builder for good, whether or not generate
\* then finds it valid and whether or not the package can be written.
Build(b, written) ==
    /\ handle = "live"
    /\ builder' = {}
    /\ package' = IF Validates(b) THEN {Generated(b)} ELSE {}
    /\ reply' = [op |-> "build", ok |-> Validates(b) /\ written, valid |-> Validates(b)]
    /\ UNCHANGED <<handle, chapters, cover>>

Next ==
    \/ New
    \/ Free
    \/ Refused
    \/ \E b \in builder :
          \/ \E field \in Mandatory : SetField(b, field) \/ BlankField(b, field)
          \/ AddAuthor(b)
          \/ \E fields \in SUBSET Mandatory : SetMetadata(b, fields)
          \/ \E v \in {"V20", "V30"} : Version(b, v)
          \/ \E t \in {"None", "Modern"} : SetTheme(b, t)
          \/ \E id \in Ids, href \in Hrefs :
                \/ \E kind \in {"plain", "callers_nav"} : AddResource(b, id, href, kind)
                \/ AddChapter(b, id, href)
                \/ AddChapterWithNav(b, id, href)
                \/ \E asset \in BOOLEAN : AddHtmlFile(b, id, href, asset)
          \/ HtmlFileUnreadable(b)
          \/ AddLink(b)
          \/ \E href \in Hrefs : SetCover(b, href)
          \/ \E hrefs \in SUBSET Hrefs : SetToc(b, hrefs)
          \/ Validate(b)
          \/ \E written \in BOOLEAN : Build(b, written)

Spec == Init /\ [][Next]_vars
-----------------------------------------------------------------------------
\* Opening the package, a reader finds the chapters the calls added, in the
\* order of the calls, as long as no two items were given one id.
SpineReadsBack ==
    /\ TypeOK
    /\ \A p \in package :
        IsInjective([i \in DOMAIN p.items |-> p.items[i].id]) =>
            [i \in DOMAIN p.spine |-> Manifest(p)[p.spine[i]].href] = chapters

\* Of several covers set, the reader finds the last: set_cover leaves the
\* earlier items in the manifest under the same id, and it is the parser's map
\* that drops them.  Only a resource of the caller's own under that id, which
\* nothing forbids, can take the cover's place.
OwnCovers(items) == \A i \in DOMAIN items : items[i].id = CoverId => items[i].kind = "cover"
CoverReadsBack == \A p \in package : OwnCovers(p.items) => CoverRead(p) = cover

\* What the generator makes of the table of contents, and under which ids it
\* puts documents of its own.
GeneratedFor(version) == IF version = "V30" THEN "nav" ELSE "ncx"
GeneratedIds(version) == IF version = "V30" THEN {NavId, NcxId} ELSE {NcxId}
\* Navigation documents of the caller's that no generated one overwrites.
ForeignNavs(p) ==
    {i \in DOMAIN p.items : /\ p.items[i].kind = "callers_nav"
                            /\ p.items[i].id \notin GeneratedIds(p.version)}

\* A package with a table of contents always gives the reader a navigation
\* document.  It is the generated one, nav.xhtml in EPUB 3 and the NCX in EPUB 2,
\* also when callers took the ids of the generator's documents for resources of
\* theirs, of whatever kind and in whatever order; unless a caller added a
\* navigation document under some other id: that one may then be read (in EPUB 2
\* it is, in EPUB 3 the reader finds either: the manifest is a HashMap).
NavigationReadsBack ==
    \A p \in package : p.has_toc =>
        /\ NavigationRead(p) # {}
        /\ NavigationRead(p) \subseteq {GeneratedFor(p.version), "callers_nav"}
        /\ p.version = "V30" => GeneratedFor(p.version) \in NavigationRead(p)
        /\ ForeignNavs(p) = {} => NavigationRead(p) = {GeneratedFor(p.version)}

\* The builder leaves the handle only by a build (or an unreadable HTML file,
\* in Rust).  A call that fails leaves it as it was, the take() / Some() pairs of
\* ffi/generator.rs lose nothing; and a handle builds at most one package: from
\* then to the free every call fails and the package is what it was.
BuilderTakenOnlyByBuild ==
    [][/\ reply'.op = "call" /\ ~reply'.ok => builder' = builder
       /\ package # {} /\ handle = "live" /\ handle' = "live" =>
             package' = package /\ ~reply'.ok]_vars
=============================================================================
