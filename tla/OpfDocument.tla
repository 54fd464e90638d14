----------------------------- MODULE OpfDocument -----------------------------
(***************************************************************************)
(* parser/opf.rs: container.xml to renditions, and the package document to  *)
(* the book.                                                                *)
(*                                                                          *)
(* parse_opf is one pass over the events with a state that says where the   *)
(* next text belongs.  EPUB 3 metadata refine each other by id in any       *)
(* order, so the pass only collects (refinements, raw titles, identifiers,  *)
(* accessibility metas), and a second pass ties the collections together.   *)
(* Here `opf` holds the locals of the loop and `book` what is handed out.   *)
(*                                                                          *)
(* Values are opaque; NumberOf and ClockOf say which texts read as a        *)
(* number and as a clock value, Profiles which texts name an accessibility  *)
(* profile.  Properties are records, so that prefix variants can be told    *)
(* apart.  Percent-decoding and joining of hrefs are left out.              *)
(***************************************************************************)
EXTENDS XmlReader, FiniteSets

CONSTANTS NumberOf, ClockOf, Profiles

\* What reads as a number is one (u32), and no text is the absence of one.
ASSUME NumbersAssumption == \A text \in DOMAIN NumberOf : NumberOf[text] \in Nat
ASSUME ClocksAssumption == Absent \notin DOMAIN ClockOf

VARIABLES
    renditions, \* result of parse_container
    opf,        \* locals of parse_opf
    book        \* EpubBook

opfVars == <<renditions, opf, book>>

-----------------------------------------------------------------------------
\* parse_container: every rootfile that has a path, in document order; none is
\* an error, and so is markup that is not well-formed.
Rootfile ==
    /\ \/ Sees("container", "start", {"rootfile"})
       \/ Sees("container", "empty", {"rootfile"})
    /\ renditions' = IF Attr("full-path") \in {Absent, ""} THEN renditions
                     ELSE Append(renditions, Attr("full-path"))
    /\ Advance /\ UNCHANGED <<opf, book>>
ContainerOther ==
    /\ \/ SeesOther("container", "start", {"rootfile"})
       \/ SeesOther("container", "empty", {"rootfile"})
       \/ Reading("container") /\ Event.ev \in {"text", "end", "ref"}
    /\ Advance /\ UNCHANGED opfVars
\* parse() takes the first rendition (the others are EpubHandle's business).
ContainerRead ==
    /\ AtEof("container")
    /\ GoTo(IF renditions = << >> THEN "failed" ELSE "opf")
    /\ UNCHANGED opfVars
ContainerFails == (Malformed("container") \/ (Missing("container") /\ GoTo("failed")))
                    /\ UNCHANGED opfVars
ContainerNext == Rootfile \/ ContainerOther \/ ContainerRead \/ ContainerFails

-----------------------------------------------------------------------------
\* OpfState: where the next text goes.
OpfState(kind) == [kind |-> kind, id |-> Absent, scheme |-> Absent,
                   ref_id |-> Absent, property |-> Absent]
NoOpfState == OpfState("None")

EmptyOpf == [in_metadata |-> FALSE, state |-> NoOpfState, refinements |-> << >>,
             creator_id_to_idx |-> << >>, raw_titles |-> << >>,
             title_id |-> Absent, pending_collections |-> << >>,
             mo_meta |-> Absent, raw_a11y |-> << >>, unique_id_ref |-> Absent,
             raw_identifiers |-> << >>]
EmptyBook == [title |-> Absent, subtitle |-> Absent, sort_as |-> Absent,
              creators |-> << >>, languages |-> << >>, texts |-> << >>,
              subjects |-> << >>, cover_id |-> Absent, toc_id |-> Absent, rtl |-> FALSE,
              fixed |-> FALSE, identifier |-> Absent, alt_identifiers |-> << >>,
              belongs_to |-> << >>, media_overlays |-> Absent,
              accessibility |-> Absent, manifest |-> << >>, spine |-> << >>,
              guide |-> << >>]

OpfStart(names) == Sees("opf", "start", names)
OpfEmpty(names) == Sees("opf", "empty", names)
Becomes(state) == opf' = [opf EXCEPT !.state = state] /\ UNCHANGED <<book, renditions>>

\* Event::Start, element by element.
StartMetadata ==
    /\ OpfStart({"metadata"})
    /\ opf' = [opf EXCEPT !.in_metadata = TRUE]
    /\ Advance /\ UNCHANGED <<book, renditions>>
StartPackage ==
    /\ OpfStart({"package"})
    /\ opf' = [opf EXCEPT !.unique_id_ref =
                  IF Attr("unique-identifier") = Absent THEN @ ELSE Attr("unique-identifier")]
    /\ Advance /\ UNCHANGED <<book, renditions>>
StartSpine ==
    /\ OpfStart({"spine"})
    /\ book' = [book EXCEPT !.toc_id = IF Attr("toc") = Absent THEN @ ELSE Attr("toc"),
                            !.rtl = @ \/ Attr("page-progression-direction") = "rtl"]
    /\ Advance /\ UNCHANGED <<opf, renditions>>
StartTitle ==
    /\ OpfStart({"title"})
    /\ opf' = [opf EXCEPT !.title_id = Attr("id"),
                  !.state = OpfState(IF Attr("title-type") = "subtitle" THEN "Subtitle" ELSE "Title")]
    /\ Advance /\ UNCHANGED <<book, renditions>>
\* Creators and contributors end up in one list.
StartAgent ==
    /\ OpfStart({"creator", "contributor"})
    /\ Becomes([OpfState("Creator") EXCEPT !.id = Attr("id")]) /\ Advance
StartIdentifier ==
    /\ OpfStart({"identifier"})
    /\ Becomes([OpfState("Identifier") EXCEPT !.id = Attr("id"), !.scheme = Attr("scheme")])
    /\ Advance
StartDate ==
    /\ OpfStart({"date"})
    /\ Becomes(OpfState(IF Attr("event") = "modification" THEN "modified" ELSE "date"))
    /\ Advance
SimpleNames == {"language", "publisher", "description", "rights", "subject"}
StartSimple ==
    /\ OpfStart(SimpleNames)
    /\ Becomes(OpfState(Event.name)) /\ Advance

\* <meta>: refining another element, global, or (EPUB 2) naming the cover.  The
\* scheme of an identifier-type refinement is stored at once.
StoreRefinement(refs, id, property, value) ==
    With(refs, id, With(IF id \in DOMAIN refs THEN refs[id] ELSE << >>, property, value))
StartRefiningMeta ==
    /\ OpfStart({"meta"}) /\ Attr("refines") # Absent /\ Attr("property") # Absent
    /\ opf' = [opf EXCEPT
          !.refinements =
              IF Attr("property").local = "identifier-type" /\ Attr("scheme") # Absent
              THEN StoreRefinement(@, Attr("refines"), "identifier-type-scheme", Attr("scheme"))
              ELSE @,
          !.state = [OpfState("MetaRefines") EXCEPT
                !.ref_id = Attr("refines"), !.property = Attr("property"), !.id = Attr("id")]]
    /\ Advance /\ UNCHANGED <<book, renditions>>
StartGlobalMeta ==
    /\ OpfStart({"meta"}) /\ Attr("refines") = Absent /\ Attr("property") # Absent
    /\ Becomes([OpfState("MetaGlobal") EXCEPT !.property = Attr("property"), !.id = Attr("id")])
    /\ Advance
CoverOfMeta ==
    IF Attr("name") = "cover" /\ Attr("content") # Absent THEN Attr("content")
    ELSE book.cover_id
StartNamedMeta ==
    /\ OpfStart({"meta"}) /\ Attr("property") = Absent
    /\ book' = [book EXCEPT !.cover_id = CoverOfMeta]
    /\ Advance /\ UNCHANGED <<opf, renditions>>
StartOther ==
    /\ SeesOther("opf", "start",
          {"metadata", "package", "spine", "title", "creator", "contributor", "identifier",
           "date", "meta"} \cup SimpleNames)
    /\ Advance /\ UNCHANGED opfVars

OpfStartNext ==
    \/ StartMetadata \/ StartPackage \/ StartSpine \/ StartTitle \/ StartAgent
    \/ StartIdentifier \/ StartDate \/ StartSimple \/ StartRefiningMeta
    \/ StartGlobalMeta \/ StartNamedMeta \/ StartOther

-----------------------------------------------------------------------------
\* Event::Empty.  Only self-closing items, itemrefs and references count.
EmptyMeta ==
    /\ OpfEmpty({"meta"}) /\ opf.in_metadata
    /\ book' = [book EXCEPT !.cover_id = CoverOfMeta]
    /\ Advance /\ UNCHANGED <<opf, renditions>>
\* The manifest is a map: a second item of an id replaces the first.
EmptyItem ==
    /\ OpfEmpty({"item"})
    /\ book' = [book EXCEPT !.manifest =
          IF {Attr("id"), Attr("href")} \cap {Absent, ""} # {} THEN @
          ELSE With(@, Attr("id"),
                    [href |-> Attr("href"),
                     properties |-> IF Attr("properties") = Absent THEN {} ELSE Attr("properties"),
                     media_overlay |-> Attr("media-overlay")])]
    /\ Advance /\ UNCHANGED <<opf, renditions>>
EmptyItemref ==
    /\ OpfEmpty({"itemref"})
    /\ book' = [book EXCEPT !.spine =
          IF Attr("idref") \in {Absent, ""} THEN @
          ELSE Append(@, [idref |-> Attr("idref"), linear |-> Attr("linear") # "no"])]
    /\ Advance /\ UNCHANGED <<opf, renditions>>
EmptyReference ==
    /\ OpfEmpty({"reference"})
    /\ book' = [book EXCEPT !.guide =
          IF {Attr("type"), Attr("href")} \cap {Absent, ""} # {} THEN @
          ELSE Append(@, [ref_type |-> Attr("type"), href |-> Attr("href")])]
    /\ Advance /\ UNCHANGED <<opf, renditions>>
EmptyOther ==
    /\ \/ SeesOther("opf", "empty", {"meta", "item", "itemref", "reference"})
       \/ OpfEmpty({"meta"}) /\ ~opf.in_metadata
    /\ Advance /\ UNCHANGED opfVars

-----------------------------------------------------------------------------
\* Event::Text inside <metadata>.  Whatever the text was, the state and the
\* title's id are spent; a second piece of text of the same element is lost.
Texts(kinds) == Reading("opf") /\ Event.ev = "text" /\ opf.in_metadata
                  /\ opf.state.kind \in kinds
Text == Event.text
Spend(o) == [o EXCEPT !.state = NoOpfState, !.title_id = Absent]

TitleText ==
    /\ Texts({"Title", "Subtitle"})
    /\ opf' = Spend([opf EXCEPT !.raw_titles =
          Append(@, [id |-> opf.title_id, text |-> Text,
                     epub2_subtitle |-> opf.state.kind = "Subtitle"])])
    /\ book' = IF opf.state.kind = "Subtitle" THEN [book EXCEPT !.subtitle = Text]
               ELSE [book EXCEPT !.title = IF @ = Absent THEN Text ELSE @]
    /\ Advance /\ UNCHANGED renditions
CreatorText ==
    /\ Texts({"Creator"})
    /\ opf' = Spend([opf EXCEPT !.creator_id_to_idx =
          IF opf.state.id = Absent THEN @
          ELSE With(@, opf.state.id, Len(book.creators) + 1)])
    /\ book' = [book EXCEPT !.creators =
          Append(@, [name |-> Text, role |-> Absent, file_as |-> Absent])]
    /\ Advance /\ UNCHANGED renditions
IdentifierText ==
    /\ Texts({"Identifier"})
    /\ opf' = Spend([opf EXCEPT !.raw_identifiers =
          Append(@, [id |-> opf.state.id, scheme |-> opf.state.scheme, value |-> Text])])
    /\ Advance /\ UNCHANGED <<book, renditions>>
\* Publisher, description, dates, rights: the last one stands.
SimpleText ==
    /\ Texts({"language", "publisher", "description", "date", "modified", "rights", "subject"})
    /\ book' = [book EXCEPT
          !.languages = IF opf.state.kind = "language" THEN Append(@, Text) ELSE @,
          !.subjects = IF opf.state.kind = "subject" THEN Append(@, Text) ELSE @,
          !.texts = IF opf.state.kind \in {"language", "subject"} THEN @
                    ELSE With(@, opf.state.kind, Text)]
    /\ opf' = Spend(opf)
    /\ Advance /\ UNCHANGED renditions

\* is_a11y_property: the ten names behind a prefix that ends in a colon.
A11yNames == {"conformsTo", "certifiedBy", "certifierCredential", "certifierReport",
              "exemption", "accessMode", "accessModeSufficient", "accessibilityFeature",
              "accessibilityHazard", "accessibilitySummary"}
IsA11y(property) == property.local \in A11yNames /\ property.prefix = "colon"
A11yMeta(refines) == [property |-> opf.state.property.local, value |-> Text,
                      id |-> opf.state.id, refines |-> refines]

RefinesText ==
    /\ Texts({"MetaRefines"})
    /\ opf' = Spend(IF IsA11y(opf.state.property)
          THEN [opf EXCEPT !.raw_a11y = Append(@, A11yMeta(opf.state.ref_id))]
          ELSE [opf EXCEPT !.refinements =
                   StoreRefinement(@, opf.state.ref_id, opf.state.property.local, Text)])
    /\ Advance /\ UNCHANGED <<book, renditions>>
\* A global accessibility meta leaves the loop body early.
GlobalA11yText ==
    /\ Texts({"MetaGlobal"}) /\ IsA11y(opf.state.property)
    /\ opf' = [opf EXCEPT !.raw_a11y = Append(@, A11yMeta(Absent)), !.state = NoOpfState]
    /\ Advance /\ UNCHANGED <<book, renditions>>
NoOverlayMeta == [total_duration |-> Absent, narrators |-> << >>, active_class |-> Absent,
                  playback_active_class |-> Absent, durations |-> << >>]
OverlayMeta == IF opf.mo_meta = Absent THEN NoOverlayMeta ELSE opf.mo_meta
GlobalText ==
    /\ Texts({"MetaGlobal"}) /\ ~IsA11y(opf.state.property)
    /\ LET p == opf.state.property.local IN
         /\ book' = CASE p = "rendition:layout" -> [book EXCEPT !.fixed = (Text = "pre-paginated")]
                      [] p = "dcterms:modified" ->
                            [book EXCEPT !.texts = With(@, "modified", Text)]
                      [] OTHER -> book
         /\ opf' = Spend(
              CASE p = "belongs-to-collection" /\ opf.state.id # Absent ->
                     [opf EXCEPT !.pending_collections = Append(@, <<opf.state.id, Text>>)]
                [] p = "media:duration" /\ Text \in DOMAIN ClockOf ->
                     [opf EXCEPT !.mo_meta = [OverlayMeta EXCEPT !.total_duration = ClockOf[Text]]]
                [] p = "media:narrator" ->
                     [opf EXCEPT !.mo_meta = [OverlayMeta EXCEPT !.narrators = Append(@, Text)]]
                [] p = "media:active-class" ->
                     [opf EXCEPT !.mo_meta = [OverlayMeta EXCEPT !.active_class = Text]]
                [] p = "media:playback-active-class" ->
                     [opf EXCEPT !.mo_meta = [OverlayMeta EXCEPT !.playback_active_class = Text]]
                [] OTHER -> opf)
    /\ Advance /\ UNCHANGED renditions
StrayText ==
    /\ Texts({"None"})
    /\ opf' = Spend(opf)
    /\ Advance /\ UNCHANGED <<book, renditions>>
\* Text elsewhere, and an entity reference anywhere, is an event of no arm.
TextIgnored ==
    /\ Reading("opf")
    /\ (Event.ev = "text" /\ ~opf.in_metadata) \/ Event.ev = "ref"
    /\ Advance /\ UNCHANGED opfVars

OpfTextNext ==
    \/ TitleText \/ CreatorText \/ IdentifierText \/ SimpleText \/ RefinesText
    \/ GlobalA11yText \/ GlobalText \/ StrayText \/ TextIgnored

\* Event::End.
OpfEnd ==
    /\ Reading("opf") /\ Event.ev = "end"
    /\ opf' = [opf EXCEPT !.state = NoOpfState,
                          !.in_metadata = @ /\ Event.name # "metadata"]
    /\ Advance /\ UNCHANGED <<book, renditions>>

-----------------------------------------------------------------------------
\* After the loop: what the refinements say of an id.
Refined(id, property) ==
    IF id \in DOMAIN opf.refinements THEN Lookup(opf.refinements[id], property) ELSE Absent
OrElse(value, default) == IF value = Absent THEN default ELSE value
First(S) == CHOOSE i \in S : \A j \in S : i <= j

\* 1. Roles and sort names of creators; of two creators with one id the later.
CreatorIds(i) == {id \in DOMAIN opf.creator_id_to_idx : opf.creator_id_to_idx[id] = i}
RefineCreator(i, creator) ==
    IF CreatorIds(i) = {} THEN creator
    ELSE LET id == CHOOSE x \in CreatorIds(i) : TRUE
         IN [creator EXCEPT !.role = OrElse(Refined(id, "role"), @),
                            !.file_as = OrElse(Refined(id, "file-as"), @)]

\* 2. The main title: the first of type main, else the first that is no
\* subtitle.  The subtitle: of lowest display-seq, the first of equals.
TitleType(raw) == IF raw.epub2_subtitle THEN "subtitle" ELSE Refined(raw.id, "title-type")
\* In error: only titles that stand before their refinement are typed.
MainTitleUntyped ==
    LET untyped == {i \in DOMAIN opf.raw_titles : ~opf.raw_titles[i].epub2_subtitle}
    IN IF untyped # {} THEN First(untyped) ELSE 0
MainTitle ==
    LET OfType(t) == {i \in DOMAIN opf.raw_titles : TitleType(opf.raw_titles[i]) = t}
        main == OfType("main")
        rest == DOMAIN opf.raw_titles \ OfType("subtitle")
    IN IF main # {} THEN First(main) ELSE IF rest # {} THEN First(rest) ELSE 0
\* u32::MAX in the code; the largest integer TLC has here.
MaxDisplaySeq == 2147483647
DisplaySeq(raw) ==
    LET text == Refined(raw.id, "display-seq")
    IN IF text \in DOMAIN NumberOf THEN NumberOf[text] ELSE MaxDisplaySeq
Subtitle ==
    LET subs == {i \in DOMAIN opf.raw_titles : TitleType(opf.raw_titles[i]) = "subtitle"}
        Seq0(i) == DisplaySeq(opf.raw_titles[i])
    IN IF subs = {} THEN 0
       ELSE First({i \in subs : \A j \in subs : Seq0(i) <= Seq0(j)})

\* 3. Collections.
Collection(pending) ==
    LET position == Refined(pending[1], "group-position")
    IN [name |-> pending[2],
        collection_type |-> OrElse(Refined(pending[1], "collection-type"), "series"),
        position |-> IF position \in DOMAIN NumberOf THEN NumberOf[position] ELSE Absent]

\* 4. Durations of single overlays count only beside some global media meta.
Durations == [id \in {x \in DOMAIN opf.refinements : Refined(x, "media:duration") \in DOMAIN ClockOf}
                |-> ClockOf[Refined(id, "media:duration")]]

\* 5. build_accessibility.  A certifier may refine a known conformance or stand
\* alone; its credential and report refine the certifier.
A11yValues(names) ==
    LET ms == SelectSeq(opf.raw_a11y, LAMBDA m : m.property \in names)
    IN [i \in DOMAIN ms |-> ms[i].value]
ConformsToIds == {opf.raw_a11y[i].id : i \in
                    {j \in DOMAIN opf.raw_a11y : opf.raw_a11y[j].property = "conformsTo"}} \ {Absent}
\* In error: any certifiedBy will do.
CertifiedByAny == {i \in DOMAIN opf.raw_a11y : opf.raw_a11y[i].property = "certifiedBy"}
CertifiedBy ==
    {i \in DOMAIN opf.raw_a11y :
        /\ opf.raw_a11y[i].property = "certifiedBy"
        /\ opf.raw_a11y[i].refines \in ConformsToIds \cup {Absent}}
Linked(cid, property) ==
    LET found == {i \in DOMAIN opf.raw_a11y : /\ opf.raw_a11y[i].property = property
                                              /\ opf.raw_a11y[i].refines = cid}
    IN IF cid = Absent \/ found = {} THEN Absent ELSE opf.raw_a11y[First(found)].value
Certification ==
    IF CertifiedBy = {} THEN Absent
    ELSE LET cb == opf.raw_a11y[First(CertifiedBy)]
         IN [certified_by |-> cb.value,
             credential |-> Linked(cb.id, "certifierCredential"),
             report |-> Linked(cb.id, "certifierReport")]
SeqRange(s) == {s[i] : i \in DOMAIN s}
Accessibility ==
    LET summaries == A11yValues({"accessibilitySummary"})
        a11y == [conforms_to |-> SeqRange(A11yValues({"conformsTo"})) \cap Profiles,
                 certification |-> Certification,
                 access_modes |-> A11yValues({"accessMode"}),
                 access_modes_sufficient |-> A11yValues({"accessModeSufficient"}),
                 features |-> A11yValues({"accessibilityFeature"}),
                 hazards |-> A11yValues({"accessibilityHazard"}),
                 summary |-> IF summaries = << >> THEN Absent ELSE summaries[1],
                 exemptions |-> A11yValues({"exemption"})]
        empty == [conforms_to |-> {}, certification |-> Absent, access_modes |-> << >>,
                  access_modes_sufficient |-> << >>, features |-> << >>, hazards |-> << >>,
                  summary |-> Absent, exemptions |-> << >>]
    IN IF a11y = empty THEN Absent ELSE a11y

\* 6. The identifier that `unique-identifier` points at, else the first; the
\* others, with the scheme their refinements give them.
\* In error: always the first.
PrimaryFirst == 1
Primary ==
    LET designated == {i \in DOMAIN opf.raw_identifiers :
                          opf.raw_identifiers[i].id = opf.unique_id_ref
                            /\ opf.unique_id_ref # Absent}
    IN IF designated = {} THEN 1 ELSE First(designated)
SchemeOf(raw) ==
    IF raw.scheme # Absent THEN raw.scheme
    ELSE OrElse(Refined(raw.id, "identifier-type-scheme"), Refined(raw.id, "identifier-type"))
AltIdentifiers ==
    LET alt == [i \in DOMAIN opf.raw_identifiers |->
                  [value |-> opf.raw_identifiers[i].value, scheme |-> SchemeOf(opf.raw_identifiers[i])]]
    IN SubSeq(alt, 1, Primary - 1) \o SubSeq(alt, Primary + 1, Len(alt))

\* The end of parse_opf.
OpfRead ==
    /\ AtEof("opf")
    /\ book' = [book EXCEPT
          !.creators = [i \in DOMAIN @ |-> RefineCreator(i, @[i])],
          !.title = IF MainTitle = 0 THEN @ ELSE opf.raw_titles[MainTitle].text,
          !.sort_as = IF MainTitle = 0 THEN @
                      ELSE Refined(opf.raw_titles[MainTitle].id, "file-as"),
          !.subtitle = IF Subtitle = 0 THEN @ ELSE opf.raw_titles[Subtitle].text,
          !.belongs_to = [i \in DOMAIN opf.pending_collections |->
                             Collection(opf.pending_collections[i])],
          !.media_overlays = IF opf.mo_meta = Absent THEN @
                             ELSE [opf.mo_meta EXCEPT !.durations = Durations],
          !.accessibility = Accessibility,
          !.identifier = IF opf.raw_identifiers = << >> THEN @
                         ELSE opf.raw_identifiers[Primary].value,
          !.alt_identifiers = IF opf.raw_identifiers = << >> THEN @ ELSE AltIdentifiers]
    /\ GoTo("encryption") /\ UNCHANGED <<opf, renditions>>
\* A package document that is missing or not well-formed fails the call.
OpfFails == (Malformed("opf") \/ (Missing("opf") /\ GoTo("failed"))) /\ UNCHANGED opfVars

OpfNext ==
    \/ OpfStartNext \/ OpfTextNext \/ OpfEnd
    \/ EmptyMeta \/ EmptyItem \/ EmptyItemref \/ EmptyReference \/ EmptyOther
    \/ OpfRead \/ OpfFails
=============================================================================
