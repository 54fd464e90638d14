---------------------------- MODULE GeneratorProofs ----------------------------
(***************************************************************************)
(* Proofs about EpubGenerator, for every set of ids, hrefs and mandatory    *)
(* fields and every number of resources.                                    *)
(***************************************************************************)
EXTENDS EpubGenerator, SequenceLemmas, TLAPS

\* The reading order names, place by place, a resource with the href of the
\* chapter that was added in that place.
Assembled(items, order, hrefs) ==
    /\ DOMAIN order = DOMAIN hrefs
    /\ \A i \in DOMAIN order : \E j \in DOMAIN items :
          items[j].id = order[i] /\ items[j].href = hrefs[i]

\* A package keeps its chapters because nobody adds to them once it is built:
\* the builder is gone.
GeneratorInv ==
    /\ TypeOK
    /\ package # {} => builder = {}
    /\ \A b \in builder : Assembled(b.resources, b.spine, chapters)
    /\ \A p \in package : Assembled(p.items, p.spine, chapters)

-----------------------------------------------------------------------------
LEMMA ResourceType ==
    ASSUME NEW id \in AllIds, NEW href \in AllHrefs, NEW kind \in Kinds
    PROVE  Resource(id, href, kind) \in Resources
BY DEF Resource, Resources

LEMMA Named ==
    /\ Ids \subseteq AllIds /\ {NavId, NcxId, CoverId, ThemeId, AssetId} \subseteq AllIds
    /\ Hrefs \subseteq AllHrefs /\ {NavHref, NcxHref, ThemeHref, AssetHref} \subseteq AllHrefs
    /\ {"plain", "chapter", "cover", "nav", "ncx", "theme", "callers_nav"} = Kinds
BY DEF AllIds, AllHrefs, Kinds

\* What is added at the end leaves the resources before it where they are.
LEMMA Kept ==
    ASSUME NEW S, NEW items \in Seq(S), NEW more \in Seq(S),
           NEW order, NEW hrefs, Assembled(items, order, hrefs)
    PROVE  Assembled(items \o more, order, hrefs)
<1>1. \A j \in DOMAIN items : j \in DOMAIN (items \o more) /\ (items \o more)[j] = items[j]
  OBVIOUS
<1>2. QED
  BY <1>1 DEF Assembled

LEMMA KeptByAppend ==
    ASSUME NEW S, NEW items \in Seq(S), NEW item \in S,
           NEW order, NEW hrefs, Assembled(items, order, hrefs)
    PROVE  Append(items, item) \in Seq(S) /\ Assembled(Append(items, item), order, hrefs)
<1>1. Append(items, item) \in Seq(S)
  OBVIOUS
<1>2. \A j \in DOMAIN items :
        j \in DOMAIN Append(items, item) /\ Append(items, item)[j] = items[j]
  OBVIOUS
<1>3. QED
  BY <1>1, <1>2 DEF Assembled

\* One chapter more: it comes last, after whatever resources come with it.
LEMMA ChapterAdded ==
    ASSUME NEW items \in Seq(Resources), NEW order \in Seq(AllIds), NEW hrefs \in Seq(AllHrefs),
           NEW id \in AllIds, NEW href \in AllHrefs,
           Assembled(items, order, hrefs)
    PROVE  Assembled(Append(items, Resource(id, href, "chapter")),
                     Append(order, id), Append(hrefs, href))
<1> DEFINE new == Resource(id, href, "chapter")
           more == Append(items, new)
<1>1. new \in Resources
  BY ResourceType, Named
<1>2. new.id = id /\ new.href = href
  BY DEF Resource
<1> HIDE DEF new
<1>3. /\ DOMAIN more = 1..(Len(items) + 1) /\ more[Len(items) + 1] = new
      /\ \A j \in DOMAIN items : j \in DOMAIN more /\ more[j] = items[j]
      /\ Len(items) + 1 \in DOMAIN more
  BY <1>1
<1>4. Len(order) = Len(hrefs) /\ DOMAIN order = 1..Len(order) /\ DOMAIN hrefs = 1..Len(order)
  BY DEF Assembled
<1> HIDE DEF more
<1>5. DOMAIN Append(order, id) = DOMAIN Append(hrefs, href)
  BY <1>4
<1>6. ASSUME NEW i \in DOMAIN Append(order, id)
      PROVE  \E j \in DOMAIN more :
                more[j].id = Append(order, id)[i] /\ more[j].href = Append(hrefs, href)[i]
  <2>1. CASE i \in DOMAIN order
    <3>1. Append(order, id)[i] = order[i] /\ Append(hrefs, href)[i] = hrefs[i]
      BY <1>4, <2>1
    <3>2. PICK j \in DOMAIN items : items[j].id = order[i] /\ items[j].href = hrefs[i]
      BY <2>1 DEF Assembled
    <3>3. QED
      BY <1>3, <3>1, <3>2
  <2>2. CASE i \notin DOMAIN order
    <3>1. i = Len(order) + 1
      BY <1>4, <2>2
    <3>2. Append(order, id)[i] = id /\ Append(hrefs, href)[i] = href
      BY <1>4, <3>1
    <3>3. QED
      BY <1>2, <1>3, <3>2
  <2>3. QED
    BY <2>1, <2>2
<1>7. QED
  BY <1>5, <1>6 DEF Assembled, more, new

-----------------------------------------------------------------------------
LEMMA InitHolds == Init => GeneratorInv
<1>1. ASSUME Init PROVE GeneratorInv
  <2>1. /\ handle = "none" /\ builder = {} /\ package = {} /\ chapters = << >> /\ cover = {}
        /\ reply = [op |-> "free", ok |-> TRUE, valid |-> FALSE]
    BY <1>1 DEF Init
  <2>2. TypeOK
    BY <2>1 DEF TypeOK
  <2>3. QED
    BY <2>1, <2>2 DEF GeneratorInv
<1>2. QED
  BY <1>1

\* A call that puts back what it made of the builder.
LEMMA StoreKeeps ==
    ASSUME GeneratorInv, builder # {}, NEW nb \in Builders, Store(nb),
           chapters' \in Seq(AllHrefs), cover' \in SUBSET AllHrefs,
           Assembled(nb.resources, nb.spine, chapters')
    PROVE  GeneratorInv'
<1>1. /\ handle = "live" /\ handle' = handle /\ builder' = {nb} /\ package' = package
      /\ reply' = [op |-> "call", ok |-> TRUE, valid |-> FALSE]
  BY DEF Store, Done
<1>2. package = {}
  BY DEF GeneratorInv
<1>3. TypeOK'
  BY <1>1, <1>2 DEF GeneratorInv, TypeOK
<1>4. QED
  BY <1>1, <1>2, <1>3 DEF GeneratorInv

\* The parts of the builder a call changes, with their types.
LEMMA BuilderParts ==
    ASSUME GeneratorInv, NEW b \in builder
    PROVE  /\ b \in Builders /\ b.resources \in Seq(Resources) /\ b.spine \in Seq(AllIds)
           /\ b.toc \in SUBSET AllHrefs /\ b.metadata \in SUBSET Mandatory
           /\ b.version \in {"V20", "V30"} /\ b.cover_id \in SUBSET AllIds
           /\ chapters \in Seq(AllHrefs) /\ cover \in SUBSET AllHrefs
           /\ Assembled(b.resources, b.spine, chapters)
           /\ builder # {}
<1>1. b \in Builders
  BY DEF GeneratorInv, TypeOK
<1>2. QED
  BY <1>1 DEF GeneratorInv, TypeOK, Builders

\* Calls that add neither a resource nor a chapter.
LEMMA PutKeeps ==
    ASSUME GeneratorInv, NEW b \in builder, NEW nb \in Builders, Put(nb),
           nb.resources = b.resources, nb.spine = b.spine
    PROVE  GeneratorInv'
<1>1. Store(nb) /\ chapters' = chapters /\ cover' = cover
  BY DEF Put
<1>2. QED
  BY <1>1, BuilderParts, StoreKeeps

LEMMA FieldsKeep ==
    ASSUME GeneratorInv, NEW b \in builder,
           \/ \E field \in Mandatory : SetField(b, field) \/ BlankField(b, field)
           \/ AddAuthor(b) \/ AddLink(b)
           \/ \E fields \in SUBSET Mandatory : SetMetadata(b, fields)
           \/ \E v \in {"V20", "V30"} : Version(b, v)
           \/ \E t \in {"None", "Modern"} : SetTheme(b, t)
           \/ \E hrefs \in SUBSET Hrefs : SetToc(b, hrefs)
    PROVE  GeneratorInv'
<1>1. b \in Builders
  BY BuilderParts
<1>2. ASSUME NEW fields \in SUBSET Mandatory, Put([b EXCEPT !.metadata = fields])
      PROVE  GeneratorInv'
  <2> DEFINE nb == [b EXCEPT !.metadata = fields]
  <2>1. nb \in Builders /\ nb.resources = b.resources /\ nb.spine = b.spine
    BY <1>1 DEF Builders
  <2>2. Put(nb)
    BY <1>2
  <2> HIDE DEF nb
  <2>3. QED
    BY <2>1, <2>2, PutKeeps
<1>3. CASE \E field \in Mandatory : SetField(b, field) \/ BlankField(b, field)
  <2>1. PICK field \in Mandatory : SetField(b, field) \/ BlankField(b, field)
    BY <1>3
  <2>2. b.metadata \cup {field} \in SUBSET Mandatory /\ b.metadata \ {field} \in SUBSET Mandatory
    BY BuilderParts
  <2>3. \/ Put([b EXCEPT !.metadata = b.metadata \cup {field}])
        \/ Put([b EXCEPT !.metadata = b.metadata \ {field}])
    BY <2>1 DEF SetField, BlankField
  <2>4. QED
    BY <1>2, <2>2, <2>3
<1>4. CASE AddAuthor(b) \/ AddLink(b)
  <2>1. Put(b)
    BY <1>4 DEF AddAuthor, AddLink
  <2>2. QED
    BY <1>1, <2>1, PutKeeps
<1>5. CASE \E fields \in SUBSET Mandatory : SetMetadata(b, fields)
  BY <1>2, <1>5 DEF SetMetadata
<1>6. CASE \E v \in {"V20", "V30"} : Version(b, v)
  <2>1. PICK v \in {"V20", "V30"} : Version(b, v)
    BY <1>6
  <2> DEFINE nb == [b EXCEPT !.version = v]
  <2>2. nb \in Builders /\ nb.resources = b.resources /\ nb.spine = b.spine
    BY <1>1 DEF Builders
  <2>3. Put(nb)
    BY <2>1 DEF Version
  <2> HIDE DEF nb
  <2>4. QED
    BY <2>2, <2>3, PutKeeps
<1>7. CASE \E t \in {"None", "Modern"} : SetTheme(b, t)
  <2>1. PICK t \in {"None", "Modern"} : SetTheme(b, t)
    BY <1>7
  <2> DEFINE nb == [b EXCEPT !.theme = t]
  <2>2. nb \in Builders /\ nb.resources = b.resources /\ nb.spine = b.spine
    BY <1>1 DEF Builders
  <2>3. Put(nb)
    BY <2>1 DEF SetTheme
  <2> HIDE DEF nb
  <2>4. QED
    BY <2>2, <2>3, PutKeeps
<1>8. CASE \E hrefs \in SUBSET Hrefs : SetToc(b, hrefs)
  <2>1. PICK hrefs \in SUBSET Hrefs : SetToc(b, hrefs)
    BY <1>8
  <2> DEFINE nb == [b EXCEPT !.toc = hrefs]
  <2>2. nb \in Builders /\ nb.resources = b.resources /\ nb.spine = b.spine
    BY <1>1, Named DEF Builders
  <2>3. Put(nb)
    BY <2>1 DEF SetToc
  <2> HIDE DEF nb
  <2>4. QED
    BY <2>2, <2>3, PutKeeps
<1>9. QED
  BY <1>3, <1>4, <1>5, <1>6, <1>7, <1>8

\* Calls that add a resource, and the cover.
LEMMA ResourcesKeep ==
    ASSUME GeneratorInv, NEW b \in builder, NEW href \in Hrefs,
           \/ \E id \in Ids, kind \in {"plain", "callers_nav"} : AddResource(b, id, href, kind)
           \/ SetCover(b, href)
    PROVE  GeneratorInv'
<1>1. /\ b \in Builders /\ b.resources \in Seq(Resources) /\ b.spine \in Seq(AllIds)
      /\ chapters \in Seq(AllHrefs) /\ cover \in SUBSET AllHrefs
      /\ Assembled(b.resources, b.spine, chapters) /\ builder # {}
  BY BuilderParts
<1>2. href \in AllHrefs
  BY Named
<1>3. ASSUME NEW new \in Resources, NEW covers \in SUBSET AllIds,
             Store([b EXCEPT !.resources = Append(@, new), !.cover_id = covers]),
             chapters' = chapters, cover' \in SUBSET AllHrefs
      PROVE  GeneratorInv'
  <2> DEFINE items == Append(b.resources, new)
             nb == [b EXCEPT !.resources = items, !.cover_id = covers]
  <2>1. Store(nb)
    BY <1>3
  <2>2. items \in Seq(Resources) /\ Assembled(items, b.spine, chapters)
    BY <1>1, <1>3, KeptByAppend
  <2> HIDE DEF items
  <2>3. nb \in Builders /\ nb.resources = items /\ nb.spine = b.spine
    BY <1>1, <1>3, <2>2 DEF Builders
  <2> HIDE DEF nb
  <2>4. Assembled(nb.resources, nb.spine, chapters)
    BY <2>2, <2>3, Zenon
  <2>5. QED
    BY <1>1, <1>3, <2>1, <2>3, <2>4, StoreKeeps
<1>4. CASE \E id \in Ids, kind \in {"plain", "callers_nav"} : AddResource(b, id, href, kind)
  <2>1. PICK id \in Ids, kind \in {"plain", "callers_nav"} : AddResource(b, id, href, kind)
    BY <1>4
  <2>2. id \in AllIds /\ kind \in Kinds
    BY Named
  <2> DEFINE new == Resource(id, href, kind)
  <2>3. new \in Resources
    BY <1>2, <2>2, Named, ResourceType
  <2>4. /\ Store([b EXCEPT !.resources = Append(@, new)])
        /\ chapters' = chapters /\ cover' = cover
    BY <2>1 DEF AddResource, Put
  <2> HIDE DEF new
  <2>5. [b EXCEPT !.resources = Append(@, new)]
          = [b EXCEPT !.resources = Append(@, new), !.cover_id = b.cover_id]
        /\ b.cover_id \in SUBSET AllIds
    BY <1>1 DEF Builders
  <2>6. QED
    BY <1>1, <1>3, <2>3, <2>4, <2>5
<1>5. CASE SetCover(b, href)
  <2> DEFINE new == Resource(CoverId, href, "cover")
  <2>1. new \in Resources /\ {CoverId} \in SUBSET AllIds
    BY <1>2, Named, ResourceType
  <2>2. /\ Store([b EXCEPT !.resources = Append(@, new), !.cover_id = {CoverId}])
        /\ chapters' = chapters /\ cover' = {href}
    BY <1>5 DEF SetCover
  <2> HIDE DEF new
  <2>3. QED
    BY <1>2, <1>3, <2>1, <2>2
<1>6. QED
  BY <1>4, <1>5

\* Calls that add a chapter, alone, with an entry of the table of contents, or
\* with the assets of an HTML file.
LEMMA ChaptersKeep ==
    ASSUME GeneratorInv, NEW b \in builder, NEW id \in Ids, NEW href \in Hrefs,
           \/ AddChapter(b, id, href) \/ AddChapterWithNav(b, id, href)
           \/ \E asset \in BOOLEAN : AddHtmlFile(b, id, href, asset)
    PROVE  GeneratorInv'
<1>1. /\ b \in Builders /\ b.resources \in Seq(Resources) /\ b.spine \in Seq(AllIds)
      /\ b.toc \in SUBSET AllHrefs
      /\ chapters \in Seq(AllHrefs) /\ cover \in SUBSET AllHrefs
      /\ Assembled(b.resources, b.spine, chapters) /\ builder # {}
  BY BuilderParts
<1>2. id \in AllIds /\ href \in AllHrefs
  BY Named
<1> DEFINE new == Resource(id, href, "chapter")
<1>3. new \in Resources
  BY <1>2, Named, ResourceType
<1>4. ASSUME NEW items \in Seq(Resources), Assembled(items, b.spine, chapters),
             NEW hrefs \in SUBSET AllHrefs, NEW nb,
             nb = [b EXCEPT !.resources = Append(items, new), !.spine = Append(@, id),
                            !.toc = hrefs],
             Store(nb), chapters' = Append(chapters, href), cover' = cover
      PROVE  GeneratorInv'
  <2>1. Append(items, new) \in Seq(Resources) /\ Append(b.spine, id) \in Seq(AllIds)
        /\ Append(chapters, href) \in Seq(AllHrefs)
    BY <1>1, <1>2, <1>3
  <2>2. Assembled(Append(items, new), Append(b.spine, id), Append(chapters, href))
    BY <1>1, <1>2, <1>4, ChapterAdded
  <2> HIDE DEF new
  <2>3. nb \in Builders /\ nb.resources = Append(items, new) /\ nb.spine = Append(b.spine, id)
    BY <1>1, <1>4, <2>1 DEF Builders
  <2>4. QED
    BY <1>1, <1>4, <2>1, <2>2, <2>3, StoreKeeps
<1>5. CASE AddChapter(b, id, href)
  <2> DEFINE nb == WithChapter(b, id, href)
  <2>1. nb = [b EXCEPT !.resources = Append(b.resources, new), !.spine = Append(@, id),
                       !.toc = b.toc]
    BY <1>1 DEF WithChapter, Builders
  <2>2. Store(nb) /\ chapters' = Append(chapters, href) /\ cover' = cover
    BY <1>5 DEF AddChapter
  <2> HIDE DEF nb, new
  <2>3. QED
    BY <1>1, <1>4, <2>1, <2>2
<1>6. CASE AddChapterWithNav(b, id, href)
  <2> DEFINE nb == [WithChapter(b, id, href) EXCEPT !.toc = @ \cup {href}]
  <2>1. nb = [b EXCEPT !.resources = Append(b.resources, new), !.spine = Append(@, id),
                       !.toc = b.toc \cup {href}]
        /\ b.toc \cup {href} \in SUBSET AllHrefs
    BY <1>1, <1>2 DEF WithChapter, Builders
  <2>2. Store(nb) /\ chapters' = Append(chapters, href) /\ cover' = cover
    BY <1>6 DEF AddChapterWithNav
  <2> HIDE DEF nb, new
  <2>3. QED
    BY <1>1, <1>4, <2>1, <2>2
<1>7. CASE \E asset \in BOOLEAN : AddHtmlFile(b, id, href, asset)
  <2>1. PICK asset \in BOOLEAN : AddHtmlFile(b, id, href, asset)
    BY <1>7
  <2> DEFINE more == IF asset THEN <<Resource(AssetId, AssetHref, "plain")>> ELSE << >>
             items == b.resources \o more
             nb == WithChapter([b EXCEPT !.resources = @ \o more], id, href)
  <2>2. Resource(AssetId, AssetHref, "plain") \in Resources
    BY Named, ResourceType
  <2>3. more \in Seq(Resources)
    BY <2>2
  <2>4. Store(nb) /\ chapters' = Append(chapters, href) /\ cover' = cover
    BY <2>1 DEF AddHtmlFile
  <2> HIDE DEF more
  <2>5. items \in Seq(Resources) /\ Assembled(items, b.spine, chapters)
    BY <1>1, <2>3, Kept
  <2>6. nb = [b EXCEPT !.resources = Append(items, new), !.spine = Append(@, id),
                       !.toc = b.toc]
    BY <1>1 DEF WithChapter, Builders
  <2> HIDE DEF nb, new, items
  <2>7. QED
    BY <1>1, <1>4, <2>4, <2>5, <2>6
<1>8. QED
  BY <1>5, <1>6, <1>7

\* The build: what is added to the resources comes after them.
LEMMA BuildKeeps ==
    ASSUME GeneratorInv, NEW b \in builder, NEW written \in BOOLEAN, Build(b, written)
    PROVE  GeneratorInv'
<1>1. /\ b \in Builders /\ b.resources \in Seq(Resources) /\ b.spine \in Seq(AllIds)
      /\ b.version \in {"V20", "V30"} /\ b.cover_id \in SUBSET AllIds
      /\ chapters \in Seq(AllHrefs) /\ cover \in SUBSET AllHrefs
      /\ Assembled(b.resources, b.spine, chapters) /\ builder # {}
  BY BuilderParts
<1> DEFINE theme == Resource(ThemeId, ThemeHref, "theme")
           nav == Resource(NavId, NavHref, "nav")
           ncx == Resource(NcxId, NcxHref, "ncx")
<1>2. theme \in Resources /\ nav \in Resources /\ ncx \in Resources
  BY Named, ResourceType
<1> HIDE DEF theme, nav, ncx
<1>3. Themed(b) \in Seq(Resources) /\ Assembled(Themed(b), b.spine, chapters)
  <2>1. CASE b.theme = "Modern"
    <3>1. Themed(b) = Append(b.resources, theme)
      BY <2>1 DEF Themed, theme
    <3>2. QED
      BY <1>1, <1>2, <3>1, KeptByAppend
  <2>2. CASE b.theme # "Modern"
    BY <1>1, <2>2 DEF Themed
  <2>3. QED
    BY <2>1, <2>2
<1>4. Navigation(b) \in Seq(Resources)
  <2>1. /\ << >> \in Seq(Resources) /\ <<nav>> \in Seq(Resources) /\ <<ncx>> \in Seq(Resources)
    BY <1>2
  <2>2. << >> \o <<ncx>> \in Seq(Resources) /\ <<nav>> \o <<ncx>> \in Seq(Resources)
    BY <2>1
  <2>3. Navigation(b) \in {<< >>, << >> \o <<ncx>>, <<nav>> \o <<ncx>>}
    BY DEF Navigation, nav, ncx
  <2>4. QED
    BY <2>1, <2>2, <2>3
<1>5. Assembled(Themed(b) \o Navigation(b), b.spine, chapters)
      /\ Themed(b) \o Navigation(b) \in Seq(Resources)
  BY <1>3, <1>4, Kept
<1>6. /\ Generated(b).items = Themed(b) \o Navigation(b) /\ Generated(b).spine = b.spine
      /\ Generated(b) \in Packages
  BY <1>1, <1>5 DEF Generated, Packages
<1>7. /\ handle' = handle /\ builder' = {} /\ chapters' = chapters /\ cover' = cover
      /\ package' \in {{Generated(b)}, {}}
      /\ reply' \in [op : {"new", "call", "validate", "build", "file", "free"},
                     ok : BOOLEAN, valid : BOOLEAN]
  <2>1. Validates(b) \in BOOLEAN
    BY DEF Validates
  <2>2. QED
    BY <2>1 DEF Build
<1>8. TypeOK'
  BY <1>6, <1>7 DEF GeneratorInv, TypeOK
<1>9. QED
  BY <1>5, <1>6, <1>7, <1>8 DEF GeneratorInv

\* Everything else adds nothing; some of it drops the builder.
LEMMA OthersKeep ==
    ASSUME GeneratorInv,
           \/ New \/ Free \/ Refused \/ UNCHANGED vars
           \/ \E b \in builder : HtmlFileUnreadable(b) \/ Validate(b)
    PROVE  GeneratorInv'
<1>1. CASE New
  <2>1. EmptyBuilder \in Builders
        /\ Assembled(EmptyBuilder.resources, EmptyBuilder.spine, << >>)
    BY DEF EmptyBuilder, Builders, Assembled
  <2>2. /\ handle' = "live" /\ builder' = {EmptyBuilder} /\ package' = {}
        /\ chapters' = << >> /\ cover' = {}
        /\ reply' = [op |-> "new", ok |-> TRUE, valid |-> FALSE]
    BY <1>1 DEF New, Done
  <2>3. TypeOK'
    BY <2>1, <2>2 DEF TypeOK
  <2>4. QED
    BY <2>1, <2>2, <2>3 DEF GeneratorInv
<1>2. CASE Free \/ \E b \in builder : HtmlFileUnreadable(b)
  <2>1. /\ handle' \in {"none", "live"} /\ builder' = {}
        /\ UNCHANGED <<package, chapters, cover>>
        /\ reply' \in [op : {"new", "call", "validate", "build", "file", "free"},
                       ok : BOOLEAN, valid : BOOLEAN]
    <3>1. CASE Free
      BY <3>1 DEF Free, Done
    <3>2. ASSUME NEW b \in builder, HtmlFileUnreadable(b)
          PROVE  /\ handle' \in {"none", "live"} /\ builder' = {}
                 /\ UNCHANGED <<package, chapters, cover>>
                 /\ reply' \in [op : {"new", "call", "validate", "build", "file", "free"},
                                ok : BOOLEAN, valid : BOOLEAN]
      BY <3>2 DEF HtmlFileUnreadable, Done
    <3>3. QED
      BY <1>2, <3>1, <3>2
  <2>2. TypeOK'
    BY <2>1 DEF GeneratorInv, TypeOK
  <2>3. QED
    BY <2>1, <2>2 DEF GeneratorInv
<1>3. CASE Refused \/ UNCHANGED vars \/ \E b \in builder : Validate(b)
  <2>1. /\ UNCHANGED <<handle, builder, package, chapters, cover>>
        /\ reply' \in [op : {"new", "call", "validate", "build", "file", "free"},
                       ok : BOOLEAN, valid : BOOLEAN]
    <3> DEFINE Same == /\ UNCHANGED <<handle, builder, package, chapters, cover>>
                       /\ reply' \in [op : {"new", "call", "validate", "build", "file", "free"},
                                      ok : BOOLEAN, valid : BOOLEAN]
    <3>1. CASE Refused
      BY <3>1 DEF Refused, Done
    <3>2. ASSUME NEW b \in builder, Validate(b) PROVE Same
      <4>1. Validates(b) \in BOOLEAN
        BY DEF Validates
      <4>2. QED
        BY <3>2, <4>1 DEF Validate, Done
    <3>3. CASE UNCHANGED vars
      BY <3>3 DEF vars, GeneratorInv, TypeOK
    <3>4. QED
      BY <1>3, <3>1, <3>2, <3>3
  <2>2. TypeOK'
    BY <2>1 DEF GeneratorInv, TypeOK
  <2>3. QED
    BY <2>1, <2>2 DEF GeneratorInv
<1>4. QED
  BY <1>1, <1>2, <1>3

\* What the calls assemble is what the package holds.
THEOREM GeneratorInvariant == Spec => []GeneratorInv
<1>1. GeneratorInv /\ [Next]_vars => GeneratorInv'
  BY FieldsKeep, ResourcesKeep, ChaptersKeep, BuildKeeps, OthersKeep DEF Next
<1>2. QED
  BY InitHolds, <1>1, PTL DEF Spec

-----------------------------------------------------------------------------
\* The parser's map keeps the last item of an id.
LEMMA LastItem ==
    ASSUME NEW p \in Packages, NEW id, NEW j \in DOMAIN p.items, p.items[j].id = id,
           \A i \in DOMAIN p.items : p.items[i].id = id => i <= j
    PROVE  id \in DOMAIN Manifest(p) /\ Manifest(p)[id] = p.items[j]
<1> DEFINE places == {i \in 1..Len(p.items) : p.items[i].id = id}
<1>1. p.items \in Seq(Resources) /\ DOMAIN p.items = 1..Len(p.items) /\ j \in Nat
  BY DEF Packages
<1>2. j \in places /\ (\A i \in places : j >= i) /\ (\A i \in places : i \in Nat)
  BY <1>1
<1>3. ItemOf(p, id) = IF places # {} THEN Max(places) ELSE 0
  BY DEF ItemOf, SelectLastInSeq
<1> HIDE DEF places
<1>4. Max(places) = j
  <2> DEFINE max == Max(places)
  <2>1. max \in places /\ \A i \in places : max >= i
    BY <1>2 DEF Max
  <2>2. max \in Nat /\ max >= j /\ j >= max
    BY <1>2, <2>1
  <2> HIDE DEF max
  <2>3. max = j
    BY <1>1, <2>2
  <2>4. QED
    BY <2>3 DEF max
<1>5. ItemOf(p, id) = j
  BY <1>2, <1>3, <1>4
<1>6. id \in IdsOf(p.items)
  BY DEF IdsOf
<1>7. DOMAIN Manifest(p) = IdsOf(p.items) /\ Manifest(p)[id] = p.items[ItemOf(p, id)]
  BY <1>6 DEF Manifest
<1>8. QED
  BY <1>5, <1>6, <1>7

\* Whatever is added in between, a package read back has the chapters in the
\* order of the calls that added them.
THEOREM ChaptersReadBack == Spec => []SpineReadsBack
<1>1. ASSUME GeneratorInv PROVE SpineReadsBack
  <2>1. ASSUME NEW p \in package, IsInjective([i \in DOMAIN p.items |-> p.items[i].id])
        PROVE  [i \in DOMAIN p.spine |-> Manifest(p)[p.spine[i]].href] = chapters
    <3>1. p \in Packages /\ chapters \in Seq(AllHrefs) /\ Assembled(p.items, p.spine, chapters)
      BY <1>1 DEF GeneratorInv, TypeOK
    <3>2. ASSUME NEW i \in DOMAIN p.spine PROVE Manifest(p)[p.spine[i]].href = chapters[i]
      <4>1. PICK j \in DOMAIN p.items :
              p.items[j].id = p.spine[i] /\ p.items[j].href = chapters[i]
        BY <3>1 DEF Assembled
      <4>2. \A k \in DOMAIN p.items : p.items[k].id = p.items[j].id => k <= j
        <5>1. \A k \in DOMAIN p.items : p.items[k].id = p.items[j].id => k = j
          BY <2>1 DEF IsInjective
        <5>2. j \in Nat
          BY <3>1 DEF Packages
        <5>3. QED
          BY <5>1, <5>2
      <4>4. Manifest(p)[p.items[j].id] = p.items[j]
        BY <3>1, <4>2, LastItem
      <4>3. QED
        BY <4>1, <4>4, Zenon
    <3>3. DOMAIN p.spine = DOMAIN chapters /\ chapters = [i \in DOMAIN chapters |-> chapters[i]]
      BY <3>1 DEF Assembled
    <3>4. QED
      BY <3>2, <3>3, Zenon
  <2>2. QED
    BY <1>1, <2>1 DEF SpineReadsBack, GeneratorInv
<1>2. QED
  BY GeneratorInvariant, <1>1, PTL

\* A failing call leaves the builder where it was, and a handle builds once.
THEOREM BuilderSurvivesErrors == Spec => BuilderTakenOnlyByBuild
<1> DEFINE Step == /\ reply'.op = "call" /\ ~reply'.ok => builder' = builder
                   /\ package # {} /\ handle = "live" /\ handle' = "live" =>
                         package' = package /\ ~reply'.ok
<1>1. ASSUME GeneratorInv, [Next]_vars PROVE [Step]_vars
  <2>1. CASE UNCHANGED vars
    BY <2>1
  <2>2. ASSUME NEW b \in builder PROVE package = {}
    BY <1>1 DEF GeneratorInv
  <2>3. CASE New
    BY <2>3 DEF New, Done
  <2>4. CASE Free
    BY <2>4 DEF Free, Done
  <2>5. CASE Refused
    BY <2>5 DEF Refused, Done
  <2>6. ASSUME NEW b \in builder, NEW nb, Store(nb) PROVE Step
    BY <2>2, <2>6 DEF Store, Done
  <2>7. ASSUME NEW b \in builder, HtmlFileUnreadable(b) \/ Validate(b) PROVE Step
    BY <2>2, <2>7 DEF HtmlFileUnreadable, Validate, Done
  <2>8. ASSUME NEW b \in builder, NEW written \in BOOLEAN, Build(b, written) PROVE Step
    BY <2>2, <2>8 DEF Build
  <2> HIDE DEF Step
  <2>9. ASSUME NEW b \in builder, NEW id \in Ids, NEW href \in Hrefs,
               \/ \E kind \in {"plain", "callers_nav"} : AddResource(b, id, href, kind)
               \/ AddChapter(b, id, href)
               \/ AddChapterWithNav(b, id, href)
               \/ \E asset \in BOOLEAN : AddHtmlFile(b, id, href, asset)
        PROVE  Step
    BY <2>6, <2>9 DEF AddResource, AddChapter, AddChapterWithNav, AddHtmlFile, Put
  <2>10. ASSUME NEW b \in builder,
                \/ \E field \in Mandatory : SetField(b, field) \/ BlankField(b, field)
                \/ AddAuthor(b) \/ AddLink(b)
                \/ \E fields \in SUBSET Mandatory : SetMetadata(b, fields)
                \/ \E v \in {"V20", "V30"} : Version(b, v)
                \/ \E t \in {"None", "Modern"} : SetTheme(b, t)
                \/ \E hrefs \in SUBSET Hrefs : SetToc(b, hrefs)
                \/ \E href \in Hrefs : SetCover(b, href)
         PROVE  Step
    BY <2>6, <2>10 DEF SetField, BlankField, AddAuthor, AddLink, SetMetadata, Version, SetTheme,
                       SetToc, SetCover, Put
  <2>11. QED
    BY <1>1, <2>1, <2>3, <2>4, <2>5, <2>7, <2>8, <2>9, <2>10 DEF Next
<1>2. QED
  BY GeneratorInvariant, <1>1, PTL DEF Spec, BuilderTakenOnlyByBuild

-----------------------------------------------------------------------------
\* The cover, as the metadata and the resources have it: the last resource
\* with the id of covers is the last cover set.
LastCover(items, j, covers) ==
    /\ items[j].id = CoverId /\ covers = {items[j].href}
    /\ \A i \in DOMAIN items : items[i].id = CoverId => i <= j
CoverLast(items, ids, covers) ==
    /\ covers = {} => ids = {}
    /\ covers # {} => ids = {CoverId} /\ \E j \in DOMAIN items : LastCover(items, j, covers)

CoverInv ==
    /\ \A b \in builder : OwnCovers(b.resources) => CoverLast(b.resources, b.cover_id, cover)
    /\ \A p \in package : OwnCovers(p.items) => CoverLast(p.items, p.cover_id, cover)

\* Nobody else's resource among more, none among those before.
LEMMA OwnBefore ==
    ASSUME NEW items \in Seq(Resources), NEW more \in Seq(Resources), OwnCovers(items \o more)
    PROVE  OwnCovers(items)
<1>1. \A j \in DOMAIN items : j \in DOMAIN (items \o more) /\ (items \o more)[j] = items[j]
  OBVIOUS
<1>2. QED
  BY <1>1 DEF OwnCovers

LEMMA OwnBeforeOne ==
    ASSUME NEW items \in Seq(Resources), NEW item \in Resources, OwnCovers(Append(items, item))
    PROVE  OwnCovers(items) /\ (item.kind # "cover" => item.id # CoverId)
<1> DEFINE all == Append(items, item)
<1>1. /\ \A j \in DOMAIN items : j \in DOMAIN all /\ all[j] = items[j]
      /\ Len(items) + 1 \in DOMAIN all /\ all[Len(items) + 1] = item
  OBVIOUS
<1> HIDE DEF all
<1>2. OwnCovers(items)
  BY <1>1 DEF OwnCovers, all
<1>3. item.id = CoverId => item.kind = "cover"
  BY <1>1 DEF OwnCovers, all
<1>4. QED
  BY <1>2, <1>3

\* Resources of other ids do not hide it.
LEMMA CoverStays ==
    ASSUME NEW items \in Seq(Resources), NEW more \in Seq(Resources),
           \A i \in DOMAIN more : more[i].id # CoverId,
           NEW ids, NEW covers, CoverLast(items, ids, covers)
    PROVE  CoverLast(items \o more, ids, covers)
<1> DEFINE all == items \o more
<1>1. /\ DOMAIN all = 1..(Len(items) + Len(more)) /\ Len(items) \in Nat /\ Len(more) \in Nat
      /\ DOMAIN items = 1..Len(items) /\ DOMAIN more = 1..Len(more)
      /\ \A j \in DOMAIN items : all[j] = items[j]
      /\ \A i \in DOMAIN all : i \notin DOMAIN items => all[i] = more[i - Len(items)]
  OBVIOUS
<1> HIDE DEF all
<1>2. CASE covers = {}
  BY <1>2 DEF CoverLast
<1>3. CASE covers # {}
  <2>1. PICK j \in DOMAIN items :
           /\ items[j].id = CoverId /\ covers = {items[j].href}
           /\ \A i \in DOMAIN items : items[i].id = CoverId => i <= j
    BY <1>3 DEF CoverLast, LastCover
  <2>2. j \in DOMAIN all /\ all[j].id = CoverId /\ covers = {all[j].href}
    BY <1>1, <2>1
  <2>3. ASSUME NEW i \in DOMAIN all, all[i].id = CoverId PROVE i <= j
    <3>1. CASE i \in DOMAIN items
      BY <1>1, <2>1, <2>3, <3>1
    <3>2. CASE i \notin DOMAIN items
      <4>1. i - Len(items) \in DOMAIN more /\ all[i] = more[i - Len(items)]
        BY <1>1, <3>2
      <4>2. QED
        BY <2>3, <4>1
    <3>3. QED
      BY <3>1, <3>2
  <2>4. ids = {CoverId}
    BY <1>3 DEF CoverLast
  <2>5. /\ ids = {CoverId}
        /\ \E k \in DOMAIN all : LastCover(all, k, covers)
    BY <2>2, <2>3, <2>4 DEF LastCover
  <2>6. CoverLast(all, ids, covers)
    BY <1>3, <2>5, Zenon DEF CoverLast
  <2>7. QED
    BY <2>6 DEF all
<1>4. QED
  BY <1>2, <1>3 DEF all

LEMMA CoverStaysOne ==
    ASSUME NEW items \in Seq(Resources), NEW item \in Resources, item.id # CoverId,
           NEW ids, NEW covers, CoverLast(items, ids, covers)
    PROVE  CoverLast(Append(items, item), ids, covers)
<1> DEFINE more == <<item>>
<1>1. more \in Seq(Resources) /\ \A i \in DOMAIN more : more[i].id # CoverId
  OBVIOUS
<1>2. Append(items, item) = items \o more
  OBVIOUS
<1> HIDE DEF more
<1>3. QED
  BY <1>1, <1>2, CoverStays

\* A cover set comes after all others.
LEMMA CoverSet ==
    ASSUME NEW items \in Seq(Resources), NEW href \in AllHrefs
    PROVE  CoverLast(Append(items, Resource(CoverId, href, "cover")), {CoverId}, {href})
<1> DEFINE new == Resource(CoverId, href, "cover")
           more == Append(items, new)
           last == Len(items) + 1
<1>1. new \in Resources /\ new.id = CoverId /\ new.href = href
  BY ResourceType, Named DEF Resource
<1> HIDE DEF new
<1>2. /\ last \in DOMAIN more /\ more[last] = new
      /\ \A i \in DOMAIN more : i <= last
  BY <1>1
<1> HIDE DEF more, last
<1>3. {href} # {} /\ {href} = {more[last].href} /\ more[last].id = CoverId
  BY <1>1, <1>2
<1>4. QED
  BY <1>2, <1>3 DEF CoverLast, LastCover, more, new

\* A call that puts back a builder with the cover in its place.
LEMMA CoverStored ==
    ASSUME GeneratorInv, builder # {}, NEW nb, Store(nb),
           OwnCovers(nb.resources) => CoverLast(nb.resources, nb.cover_id, cover')
    PROVE  CoverInv'
BY DEF GeneratorInv, Store, CoverInv

\* As long as callers keep off the id of covers no call hides the one set last.
LEMMA CoverStep ==
    ASSUME GeneratorInv, CoverInv, [Next]_vars
    PROVE  CoverInv'
<1>1. ASSUME NEW b \in builder
      PROVE  /\ b \in Builders /\ b.resources \in Seq(Resources)
             /\ OwnCovers(b.resources) => CoverLast(b.resources, b.cover_id, cover)
             /\ builder # {} /\ package = {}
  BY BuilderParts DEF CoverInv, GeneratorInv
<1>2. ASSUME NEW id \in AllIds \ {CoverId}, NEW href \in AllHrefs, NEW kind \in Kinds
      PROVE  Resource(id, href, kind) \in Resources /\ Resource(id, href, kind).id # CoverId
  BY ResourceType DEF Resource
<1>3. ASSUME NEW id \in Ids, NEW href \in AllHrefs, NEW kind \in Kinds \ {"cover"}
      PROVE  Resource(id, href, kind) \in Resources /\ Resource(id, href, kind).kind # "cover"
  BY ResourceType, Named DEF Resource
<1>4. {NavId, NcxId, ThemeId, AssetId} \subseteq AllIds \ {CoverId}
  BY Named, OwnIdsAssumption
<1>5. CASE UNCHANGED vars \/ Free \/ Refused
  BY <1>5 DEF vars, Free, Refused, CoverInv
<1>6. CASE New
  BY <1>6 DEF New, EmptyBuilder, CoverInv, CoverLast
<1>7. ASSUME NEW b \in builder, HtmlFileUnreadable(b) \/ Validate(b) PROVE CoverInv'
  BY <1>7 DEF HtmlFileUnreadable, Validate, CoverInv
<1>8. ASSUME NEW b \in builder, NEW nb, Put(nb),
             nb.resources = b.resources, nb.cover_id = b.cover_id
      PROVE  CoverInv'
  <2>1. OwnCovers(nb.resources) => CoverLast(nb.resources, nb.cover_id, cover')
    BY <1>1, <1>8 DEF Put
  <2>2. QED
    BY <1>1, <1>8, <2>1, CoverStored DEF Put
<1>9. ASSUME NEW b \in builder,
             \/ \E field \in Mandatory : SetField(b, field) \/ BlankField(b, field)
             \/ AddAuthor(b) \/ AddLink(b)
             \/ \E fields \in SUBSET Mandatory : SetMetadata(b, fields)
             \/ \E v \in {"V20", "V30"} : Version(b, v)
             \/ \E t \in {"None", "Modern"} : SetTheme(b, t)
             \/ \E hrefs \in SUBSET Hrefs : SetToc(b, hrefs)
      PROVE  CoverInv'
  <2>1. PICK nb : Put(nb) /\ nb.resources = b.resources /\ nb.cover_id = b.cover_id
    <3>1. ASSUME NEW v, NEW nb,
                 nb \in {[b EXCEPT !.metadata = v], [b EXCEPT !.version = v],
                         [b EXCEPT !.theme = v], [b EXCEPT !.toc = v]}
          PROVE  nb.resources = b.resources /\ nb.cover_id = b.cover_id
      BY <1>1, <3>1 DEF Builders
    <3>2. \/ Put(b)
          \/ \E v : \E nb \in {[b EXCEPT !.metadata = v], [b EXCEPT !.version = v],
                               [b EXCEPT !.theme = v], [b EXCEPT !.toc = v]} : Put(nb)
      BY <1>9 DEF SetField, BlankField, AddAuthor, AddLink, SetMetadata, Version, SetTheme, SetToc
    <3>3. CASE Put(b)
      BY <3>3, Zenon
    <3>4. ASSUME NEW v, NEW nb \in {[b EXCEPT !.metadata = v], [b EXCEPT !.version = v],
                                    [b EXCEPT !.theme = v], [b EXCEPT !.toc = v]},
                 Put(nb)
          PROVE  \E n : Put(n) /\ n.resources = b.resources /\ n.cover_id = b.cover_id
      <4>1. nb.resources = b.resources /\ nb.cover_id = b.cover_id
        BY <3>1
      <4>2. QED
        BY <3>4, <4>1, Zenon
    <3>5. QED
      BY <3>2, <3>3, <3>4, Zenon
  <2>2. QED
    BY <1>8, <2>1
<1>10. ASSUME NEW b \in builder, NEW items \in Seq(Resources),
              OwnCovers(items) => CoverLast(items, b.cover_id, cover),
              NEW new \in Resources, new.kind # "cover",
              NEW nb, nb.resources = Append(items, new), nb.cover_id = b.cover_id,
              Store(nb), cover' = cover
       PROVE  CoverInv'
  <2>1. ASSUME OwnCovers(Append(items, new))
        PROVE  CoverLast(Append(items, new), b.cover_id, cover)
    <3>1. OwnCovers(items) /\ new.id # CoverId
      BY <1>10, <2>1, OwnBeforeOne
    <3>2. QED
      BY <1>10, <3>1, CoverStaysOne
  <2>2. OwnCovers(nb.resources) => CoverLast(nb.resources, nb.cover_id, cover')
    BY <1>10, <2>1, Zenon
  <2>3. QED
    BY <1>1, <1>10, <2>2, CoverStored
<1>11. ASSUME NEW b \in builder, NEW id \in Ids, NEW href \in Hrefs,
              NEW kind \in {"plain", "callers_nav"}, AddResource(b, id, href, kind)
       PROVE  CoverInv'
  <2> DEFINE new == Resource(id, href, kind)
             nb == [b EXCEPT !.resources = Append(@, new)]
  <2>1. new \in Resources /\ new.kind # "cover"
    BY <1>3, Named
  <2>2. Store(nb) /\ cover' = cover
    BY <1>11 DEF AddResource, Put
  <2>3. nb.resources = Append(b.resources, new) /\ nb.cover_id = b.cover_id
    BY <1>1 DEF Builders
  <2> HIDE DEF nb, new
  <2>4. QED
    BY <1>1, <1>10, <2>1, <2>2, <2>3
<1>12. ASSUME NEW b \in builder, NEW id \in Ids, NEW href \in Hrefs,
              \/ AddChapter(b, id, href) \/ AddChapterWithNav(b, id, href)
              \/ \E asset \in BOOLEAN : AddHtmlFile(b, id, href, asset)
       PROVE  CoverInv'
  <2> DEFINE new == Resource(id, href, "chapter")
  <2>1. new \in Resources /\ new.kind # "cover"
    BY <1>3, Named
  <2>2. ASSUME NEW items,
               \/ Store(WithChapter([b EXCEPT !.resources = items], id, href))
               \/ /\ items = b.resources
                  /\ \/ Store(WithChapter(b, id, href))
                     \/ \E toc : Store([WithChapter(b, id, href) EXCEPT !.toc = toc])
        PROVE  \E nb : /\ Store(nb) /\ nb.resources = Append(items, new)
                       /\ nb.cover_id = b.cover_id
    <3>1. /\ \A toc : LET nb == [WithChapter(b, id, href) EXCEPT !.toc = toc] IN
               nb.resources = Append(b.resources, new) /\ nb.cover_id = b.cover_id
          /\ LET nb == WithChapter(b, id, href) IN
               nb.resources = Append(b.resources, new) /\ nb.cover_id = b.cover_id
          /\ LET nb == WithChapter([b EXCEPT !.resources = items], id, href) IN
               nb.resources = Append(items, new) /\ nb.cover_id = b.cover_id
      BY <1>1 DEF WithChapter, Builders
    <3>2. QED
      BY <2>2, <3>1
  <2>3. CASE AddChapter(b, id, href) \/ AddChapterWithNav(b, id, href)
    <3>1. /\ cover' = cover
          /\ \/ Store(WithChapter(b, id, href))
             \/ \E toc : Store([WithChapter(b, id, href) EXCEPT !.toc = toc])
      BY <2>3 DEF AddChapter, AddChapterWithNav
    <3> HIDE DEF new
    <3>2. PICK nb : /\ Store(nb) /\ nb.resources = Append(b.resources, new)
                    /\ nb.cover_id = b.cover_id
      BY <2>2, <3>1
    <3>3. QED
      BY <1>1, <1>10, <2>1, <3>1, <3>2
  <2>4. CASE \E asset \in BOOLEAN : AddHtmlFile(b, id, href, asset)
    <3>1. PICK asset \in BOOLEAN : AddHtmlFile(b, id, href, asset)
      BY <2>4
    <3> DEFINE extra == Resource(AssetId, AssetHref, "plain")
               more == IF asset THEN <<extra>> ELSE << >>
    <3>2. extra \in Resources /\ extra.id # CoverId
      BY <1>2, <1>4, Named
    <3>3. /\ cover' = cover
          /\ Store(WithChapter([b EXCEPT !.resources = b.resources \o more], id, href))
      BY <1>1, <3>1 DEF AddHtmlFile, Builders
    <3> HIDE DEF extra
    <3>4. more \in Seq(Resources) /\ \A i \in DOMAIN more : more[i].id # CoverId
      BY <3>2
    <3> HIDE DEF more, new
    <3>5. PICK nb : /\ Store(nb) /\ nb.resources = Append(b.resources \o more, new)
                    /\ nb.cover_id = b.cover_id
      BY <2>2, <3>3
    <3>6. /\ b.resources \o more \in Seq(Resources)
          /\ OwnCovers(b.resources \o more) =>
                CoverLast(b.resources \o more, b.cover_id, cover)
      BY <1>1, <3>4, CoverStays, OwnBefore
    <3>7. QED
      BY <1>10, <2>1, <3>3, <3>5, <3>6
  <2>5. QED
    BY <1>12, <2>3, <2>4
<1>13. ASSUME NEW b \in builder, NEW href \in Hrefs, SetCover(b, href) PROVE CoverInv'
  <2> DEFINE new == Resource(CoverId, href, "cover")
             nb == [b EXCEPT !.resources = Append(@, new), !.cover_id = {CoverId}]
  <2>1. Store(nb) /\ cover' = {href}
    BY <1>13 DEF SetCover
  <2>2. nb.resources = Append(b.resources, new) /\ nb.cover_id = {CoverId}
    BY <1>1 DEF Builders
  <2>3. CoverLast(Append(b.resources, new), {CoverId}, {href})
    BY <1>1, CoverSet, Named
  <2> HIDE DEF nb, new
  <2>4. OwnCovers(nb.resources) => CoverLast(nb.resources, nb.cover_id, cover')
    BY <2>1, <2>2, <2>3, Zenon
  <2>5. QED
    BY <1>1, <2>1, <2>4, CoverStored
<1>14. ASSUME NEW b \in builder, NEW written \in BOOLEAN, Build(b, written) PROVE CoverInv'
  <2> DEFINE theme == Resource(ThemeId, ThemeHref, "theme")
             nav == Resource(NavId, NavHref, "nav")
             ncx == Resource(NcxId, NcxHref, "ncx")
  <2>1. /\ theme \in Resources /\ theme.id # CoverId
        /\ nav \in Resources /\ nav.id # CoverId
        /\ ncx \in Resources /\ ncx.id # CoverId
    BY <1>2, <1>4, Named
  <2> HIDE DEF theme, nav, ncx
  <2>2. /\ Themed(b) \in Seq(Resources)
        /\ OwnCovers(Themed(b)) => CoverLast(Themed(b), b.cover_id, cover)
    <3>1. CASE b.theme = "Modern"
      <4>1. Themed(b) = Append(b.resources, theme)
        BY <3>1 DEF Themed, theme
      <4>2. QED
        BY <1>1, <2>1, <4>1, CoverStaysOne, OwnBeforeOne
    <3>2. CASE b.theme # "Modern"
      BY <1>1, <3>2 DEF Themed
    <3>3. QED
      BY <3>1, <3>2
  <2>3. /\ Navigation(b) \in Seq(Resources)
        /\ \A i \in DOMAIN Navigation(b) : Navigation(b)[i].id # CoverId
    <3>1. CASE b.toc = {}
      BY <3>1 DEF Navigation
    <3>2. CASE b.toc # {} /\ b.version = "V30"
      <4>1. Navigation(b) = <<nav>> \o <<ncx>>
        BY <3>2 DEF Navigation, nav, ncx
      <4> DEFINE pair == <<nav>> \o <<ncx>>
      <4>2. pair \in Seq(Resources) /\ Len(pair) = 2 /\ pair[1] = nav /\ pair[2] = ncx
        BY <2>1
      <4> HIDE DEF pair
      <4>3. \A i \in DOMAIN pair : pair[i] \in {nav, ncx}
        BY <4>2
      <4>4. Navigation(b) = pair
        BY <4>1 DEF pair
      <4>5. QED
        BY <2>1, <4>2, <4>3, <4>4
    <3>3. CASE b.toc # {} /\ b.version # "V30"
      <4>1. Navigation(b) = << >> \o <<ncx>>
        BY <3>3 DEF Navigation, ncx
      <4>2. << >> \o <<ncx>> = <<ncx>>
        OBVIOUS
      <4>3. QED
        BY <2>1, <4>1, <4>2
    <3>4. QED
      BY <3>1, <3>2, <3>3
  <2>4. OwnCovers(Themed(b) \o Navigation(b)) =>
           CoverLast(Themed(b) \o Navigation(b), b.cover_id, cover)
    BY <2>2, <2>3, CoverStays, OwnBefore
  <2>5. OwnCovers(Generated(b).items) =>
           CoverLast(Generated(b).items, Generated(b).cover_id, cover)
    BY <2>4 DEF Generated
  <2>6. builder' = {} /\ package' \in {{Generated(b)}, {}} /\ cover' = cover
    BY <1>14 DEF Build
  <2>7. QED
    BY <2>5, <2>6 DEF CoverInv
<1>15. QED
  BY <1>5, <1>6, <1>7, <1>9, <1>11, <1>12, <1>13, <1>14 DEF Next

\* The cover a reader finds is the last one set, as long as no resource of the
\* caller's own takes the id of covers.
THEOREM LastCoverReadsBack == Spec => []CoverReadsBack
<1>1. Init => CoverInv
  BY DEF Init, CoverInv
<1>2. ASSUME GeneratorInv, CoverInv PROVE CoverReadsBack
  <2>1. ASSUME NEW p \in package, OwnCovers(p.items) PROVE CoverRead(p) = cover
    <3>1. p \in Packages /\ CoverLast(p.items, p.cover_id, cover)
      BY <1>2, <2>1 DEF GeneratorInv, TypeOK, CoverInv
    <3>2. CASE cover = {}
      BY <3>1, <3>2 DEF CoverLast, CoverRead
    <3>3. CASE cover # {}
      <4>1. p.cover_id = {CoverId}
        BY <3>1, <3>3 DEF CoverLast
      <4>2. PICK j \in DOMAIN p.items :
               /\ p.items[j].id = CoverId /\ cover = {p.items[j].href}
               /\ \A i \in DOMAIN p.items : p.items[i].id = CoverId => i <= j
        BY <3>1, <3>3 DEF CoverLast, LastCover
      <4>3. Manifest(p)[CoverId] = p.items[j] /\ CoverId \in DOMAIN Manifest(p)
        BY <3>1, <4>2, LastItem
      <4>4. CoverRead(p) = {p.items[j].href}
        BY <4>1, <4>3 DEF CoverRead
      <4>5. QED
        BY <4>2, <4>4
    <3>4. QED
      BY <3>2, <3>3
  <2>2. QED
    BY <2>1 DEF CoverReadsBack
<1>3. QED
  BY GeneratorInvariant, <1>1, <1>2, CoverStep, PTL DEF Spec

-----------------------------------------------------------------------------
\* Only the generator makes a document of the kind "nav", and it writes its own
\* documents last, behind whatever callers added.
NoNav(items) == \A i \in DOMAIN items : items[i].kind # "nav"
EndsWithNcx(items, n) == items[n].id = NcxId /\ items[n].kind = "ncx"
NavigationLast(p) ==
    \E n \in DOMAIN p.items :
        /\ \A i \in DOMAIN p.items : i <= n
        /\ EndsWithNcx(p.items, n)
        /\ p.version = "V30" =>
              \E m \in DOMAIN p.items :
                 /\ p.items[m].id = NavId /\ p.items[m].kind = "nav"
                 /\ \A i \in DOMAIN p.items : p.items[i].id = NavId => i <= m
        /\ p.version # "V30" => NoNav(p.items)

NavInv ==
    /\ \A b \in builder : NoNav(b.resources)
    /\ \A p \in package : p.has_toc => NavigationLast(p)

\* Joining two lists without a navigation document makes none.
LEMMA NoNavAdded ==
    ASSUME NEW items \in Seq(Resources), NEW more \in Seq(Resources), NoNav(items), NoNav(more)
    PROVE  items \o more \in Seq(Resources) /\ NoNav(items \o more)
<1> DEFINE all == items \o more
<1>1. /\ DOMAIN all = 1..(Len(items) + Len(more)) /\ Len(items) \in Nat /\ Len(more) \in Nat
      /\ DOMAIN items = 1..Len(items) /\ DOMAIN more = 1..Len(more) /\ all \in Seq(Resources)
      /\ \A j \in DOMAIN items : all[j] = items[j]
      /\ \A i \in DOMAIN all : i \notin DOMAIN items => all[i] = more[i - Len(items)]
  OBVIOUS
<1> HIDE DEF all
<1>2. ASSUME NEW i \in DOMAIN all PROVE all[i].kind # "nav"
  <2>1. CASE i \in DOMAIN items
    BY <1>1, <2>1 DEF NoNav
  <2>2. CASE i \notin DOMAIN items
    <3>1. i - Len(items) \in DOMAIN more /\ all[i] = more[i - Len(items)]
      BY <1>1, <2>2
    <3>2. QED
      BY <3>1 DEF NoNav
  <2>3. QED
    BY <2>1, <2>2
<1>3. QED
  BY <1>1, <1>2 DEF NoNav, all

\* Nor does a caller who appends a resource.
LEMMA NoNavAppended ==
    ASSUME NEW items \in Seq(Resources), NEW item \in Resources, item.kind # "nav", NoNav(items)
    PROVE  Append(items, item) \in Seq(Resources) /\ NoNav(Append(items, item))
<1> DEFINE more == <<item>>
<1>1. more \in Seq(Resources) /\ NoNav(more)
  BY DEF NoNav
<1>2. Append(items, item) = items \o more
  OBVIOUS
<1> HIDE DEF more
<1>3. QED
  BY <1>1, <1>2, NoNavAdded

\* A call that puts back a builder without such a resource.
LEMMA NoNavStored ==
    ASSUME GeneratorInv, builder # {}, NEW nb, Store(nb), NoNav(nb.resources)
    PROVE  NavInv'
BY DEF GeneratorInv, Store, NavInv

\* The documents the build adds come last, the NCX behind the nav.
LEMMA NavigationAdded ==
    ASSUME NEW b \in Builders, NoNav(b.resources), b.toc # {}
    PROVE  NavigationLast(Generated(b))
<1> DEFINE theme == Resource(ThemeId, ThemeHref, "theme")
           nav == Resource(NavId, NavHref, "nav")
           ncx == Resource(NcxId, NcxHref, "ncx")
           front == Themed(b)
           L == Len(front)
           all == front \o Navigation(b)
<1>1. /\ theme \in Resources /\ theme.kind = "theme"
      /\ nav \in Resources /\ nav.id = NavId /\ nav.kind = "nav"
      /\ ncx \in Resources /\ ncx.id = NcxId /\ ncx.kind = "ncx"
  BY Named, ResourceType DEF Resource
<1>2. b.resources \in Seq(Resources) /\ b.version \in {"V20", "V30"}
  BY DEF Builders
<1>3. front \in Seq(Resources) /\ NoNav(front)
  <2>1. CASE b.theme = "Modern"
    <3>1. front = Append(b.resources, theme)
      BY <2>1 DEF Themed
    <3> HIDE DEF theme
    <3>2. QED
      BY <1>1, <1>2, <3>1, NoNavAppended
  <2>2. CASE b.theme # "Modern"
    BY <1>2, <2>2 DEF Themed
  <2>3. QED
    BY <2>1, <2>2
<1>0. \A s, t \in Seq(Resources) :
         /\ Len(s) \in Nat /\ DOMAIN (s \o t) = 1..(Len(s) + Len(t))
         /\ \A i \in 1..Len(t) : (s \o t)[Len(s) + i] = t[i]
  OBVIOUS
<1>4. /\ Generated(b).items = all /\ Generated(b).version = b.version
  BY DEF Generated
<1>5. CASE b.version = "V30"
  <2>1. Navigation(b) = <<nav>> \o <<ncx>>
    BY <1>5 DEF Navigation
  <2> HIDE DEF nav, ncx, front
  <2> DEFINE pair == <<nav>> \o <<ncx>>
  <2>2. pair \in Seq(Resources) /\ Len(pair) = 2 /\ pair[1] = nav /\ pair[2] = ncx
    BY <1>1
  <2>3. all = front \o pair
    BY <2>1
  <2> HIDE DEF pair, all
  <2>4. /\ DOMAIN all = 1..(L + 2) /\ L \in Nat
        /\ all[L + 1] = nav /\ all[L + 2] = ncx
    <3>1. 1 \in 1..Len(pair) /\ 2 \in 1..Len(pair)
      BY <2>2
    <3>2. QED
      BY <1>0, <1>3, <2>2, <2>3, <3>1
  <2> HIDE DEF L
  <2>5. L + 1 \in DOMAIN all /\ L + 2 \in DOMAIN all
    BY <2>4
  <2>6. \A i \in DOMAIN all : i <= L + 2 /\ (all[i].id = NavId => i <= L + 1)
    <3>1. ASSUME NEW i \in DOMAIN all PROVE i <= L + 2 /\ (all[i].id = NavId => i <= L + 1)
      <4>1. i <= L + 1 \/ i = L + 2
        BY <2>4
      <4>2. i <= L + 2
        BY <2>4
      <4>3. i = L + 2 => all[i].id # NavId
        BY <1>1, <2>4, OwnIdsAssumption
      <4>4. QED
        BY <4>1, <4>2, <4>3
    <3>2. QED
      BY <3>1
  <2>7. /\ EndsWithNcx(all, L + 2)
        /\ all[L + 1].id = NavId /\ all[L + 1].kind = "nav"
    BY <1>1, <2>4 DEF EndsWithNcx
  <2>8. QED
    BY <1>4, <1>5, <2>5, <2>6, <2>7 DEF NavigationLast
<1>6. CASE b.version # "V30"
  <2>1. Navigation(b) = << >> \o <<ncx>>
    BY <1>6 DEF Navigation
  <2>2. << >> \o <<ncx>> = <<ncx>>
    OBVIOUS
  <2> HIDE DEF nav, ncx, front
  <2> DEFINE one == <<ncx>>
  <2>3. one \in Seq(Resources) /\ Len(one) = 1 /\ one[1] = ncx /\ NoNav(one)
    BY <1>1 DEF NoNav
  <2>4. all = front \o one
    BY <2>1, <2>2
  <2> HIDE DEF one, all
  <2>5. NoNav(all)
    BY <1>3, <2>3, <2>4, NoNavAdded
  <2>6. /\ DOMAIN all = 1..(L + 1) /\ L \in Nat /\ all[L + 1] = ncx
    <3>1. 1 \in 1..Len(one)
      BY <2>3
    <3>2. QED
      BY <1>0, <1>3, <2>3, <2>4, <3>1
  <2> HIDE DEF L
  <2>7. L + 1 \in DOMAIN all /\ \A i \in DOMAIN all : i <= L + 1
    BY <2>6
  <2>8. EndsWithNcx(all, L + 1)
    BY <1>1, <2>6 DEF EndsWithNcx
  <2>9. QED
    BY <1>4, <1>6, <2>5, <2>7, <2>8 DEF NavigationLast
<1>7. QED
  BY <1>5, <1>6

\* Every step keeps what a package says of its navigation documents.
LEMMA NavStep ==
    ASSUME GeneratorInv, NavInv, [Next]_vars
    PROVE  NavInv'
<1>1. ASSUME NEW b \in builder
      PROVE  /\ b \in Builders /\ b.resources \in Seq(Resources)
             /\ NoNav(b.resources) /\ builder # {} /\ package = {}
  BY BuilderParts DEF NavInv, GeneratorInv
<1>2. ASSUME NEW id \in AllIds, NEW href \in AllHrefs, NEW kind \in Kinds \ {"nav"}
      PROVE  Resource(id, href, kind) \in Resources /\ Resource(id, href, kind).kind # "nav"
  BY ResourceType DEF Resource
<1>3. CASE UNCHANGED vars \/ Free \/ Refused
  BY <1>3 DEF vars, Free, Refused, NavInv
<1>4. CASE New
  BY <1>4 DEF New, EmptyBuilder, NavInv, NoNav
<1>5. ASSUME NEW b \in builder, HtmlFileUnreadable(b) \/ Validate(b) PROVE NavInv'
  BY <1>5 DEF HtmlFileUnreadable, Validate, NavInv
<1>6. ASSUME NEW b \in builder, NEW nb, Put(nb), nb.resources = b.resources
      PROVE  NavInv'
  BY <1>1, <1>6, NoNavStored DEF Put
<1>7. ASSUME NEW b \in builder,
             \/ \E field \in Mandatory : SetField(b, field) \/ BlankField(b, field)
             \/ AddAuthor(b) \/ AddLink(b)
             \/ \E fields \in SUBSET Mandatory : SetMetadata(b, fields)
             \/ \E v \in {"V20", "V30"} : Version(b, v)
             \/ \E t \in {"None", "Modern"} : SetTheme(b, t)
             \/ \E hrefs \in SUBSET Hrefs : SetToc(b, hrefs)
      PROVE  NavInv'
  <2>1. PICK nb : Put(nb) /\ nb.resources = b.resources
    <3>1. ASSUME NEW v, NEW nb,
                 nb \in {[b EXCEPT !.metadata = v], [b EXCEPT !.version = v],
                         [b EXCEPT !.theme = v], [b EXCEPT !.toc = v]}
          PROVE  nb.resources = b.resources
      BY <1>1, <3>1 DEF Builders
    <3>2. \/ Put(b)
          \/ \E v : \E nb \in {[b EXCEPT !.metadata = v], [b EXCEPT !.version = v],
                               [b EXCEPT !.theme = v], [b EXCEPT !.toc = v]} : Put(nb)
      BY <1>7 DEF SetField, BlankField, AddAuthor, AddLink, SetMetadata, Version, SetTheme, SetToc
    <3>3. CASE Put(b)
      BY <3>3, Zenon
    <3>4. ASSUME NEW v, NEW nb \in {[b EXCEPT !.metadata = v], [b EXCEPT !.version = v],
                                    [b EXCEPT !.theme = v], [b EXCEPT !.toc = v]},
                 Put(nb)
          PROVE  \E n : Put(n) /\ n.resources = b.resources
      <4>1. nb.resources = b.resources
        BY <3>1
      <4>2. QED
        BY <3>4, <4>1, Zenon
    <3>5. QED
      BY <3>2, <3>3, <3>4, Zenon
  <2>2. QED
    BY <1>6, <2>1
<1>8. ASSUME NEW b \in builder, NEW items \in Seq(Resources), NoNav(items),
             NEW new \in Resources, new.kind # "nav",
             NEW nb, nb.resources = Append(items, new), Store(nb)
      PROVE  NavInv'
  <2>1. NoNav(nb.resources)
    BY <1>8, NoNavAppended
  <2>2. QED
    BY <1>1, <1>8, <2>1, NoNavStored
<1>9. ASSUME NEW b \in builder, NEW id \in Ids, NEW href \in Hrefs,
             NEW kind \in {"plain", "callers_nav"}, AddResource(b, id, href, kind)
      PROVE  NavInv'
  <2> DEFINE new == Resource(id, href, kind)
             nb == [b EXCEPT !.resources = Append(@, new)]
  <2>1. new \in Resources /\ new.kind # "nav"
    BY <1>2, Named
  <2>2. Store(nb)
    BY <1>9 DEF AddResource, Put
  <2>3. nb.resources = Append(b.resources, new)
    BY <1>1 DEF Builders
  <2> HIDE DEF nb, new
  <2>4. QED
    BY <1>1, <1>8, <2>1, <2>2, <2>3
<1>10. ASSUME NEW b \in builder, NEW id \in Ids, NEW href \in Hrefs,
              \/ AddChapter(b, id, href) \/ AddChapterWithNav(b, id, href)
              \/ \E asset \in BOOLEAN : AddHtmlFile(b, id, href, asset)
       PROVE  NavInv'
  <2> DEFINE new == Resource(id, href, "chapter")
  <2>1. new \in Resources /\ new.kind # "nav"
    BY <1>2, Named
  <2>2. ASSUME NEW items,
               \/ Store(WithChapter([b EXCEPT !.resources = items], id, href))
               \/ /\ items = b.resources
                  /\ \/ Store(WithChapter(b, id, href))
                     \/ \E toc : Store([WithChapter(b, id, href) EXCEPT !.toc = toc])
        PROVE  \E nb : Store(nb) /\ nb.resources = Append(items, new)
    <3>1. /\ \A toc : [WithChapter(b, id, href) EXCEPT !.toc = toc].resources
                         = Append(b.resources, new)
          /\ WithChapter(b, id, href).resources = Append(b.resources, new)
          /\ WithChapter([b EXCEPT !.resources = items], id, href).resources
               = Append(items, new)
      BY <1>1 DEF WithChapter, Builders
    <3>2. QED
      BY <2>2, <3>1
  <2>3. CASE AddChapter(b, id, href) \/ AddChapterWithNav(b, id, href)
    <3>1. \/ Store(WithChapter(b, id, href))
          \/ \E toc : Store([WithChapter(b, id, href) EXCEPT !.toc = toc])
      BY <2>3 DEF AddChapter, AddChapterWithNav
    <3> HIDE DEF new
    <3>2. PICK nb : Store(nb) /\ nb.resources = Append(b.resources, new)
      BY <2>2, <3>1
    <3>3. QED
      BY <1>1, <1>8, <2>1, <3>2
  <2>4. CASE \E asset \in BOOLEAN : AddHtmlFile(b, id, href, asset)
    <3>1. PICK asset \in BOOLEAN : AddHtmlFile(b, id, href, asset)
      BY <2>4
    <3> DEFINE extra == Resource(AssetId, AssetHref, "plain")
               more == IF asset THEN <<extra>> ELSE << >>
    <3>2. extra \in Resources /\ extra.kind # "nav"
      BY <1>2, Named
    <3>3. Store(WithChapter([b EXCEPT !.resources = b.resources \o more], id, href))
      BY <1>1, <3>1 DEF AddHtmlFile, Builders
    <3> HIDE DEF extra
    <3>4. more \in Seq(Resources) /\ NoNav(more)
      BY <3>2 DEF NoNav
    <3> HIDE DEF more, new
    <3>5. PICK nb : Store(nb) /\ nb.resources = Append(b.resources \o more, new)
      BY <2>2, <3>3
    <3>6. b.resources \o more \in Seq(Resources) /\ NoNav(b.resources \o more)
      BY <1>1, <3>4, NoNavAdded
    <3>7. QED
      BY <1>8, <2>1, <3>5, <3>6
  <2>5. QED
    BY <1>10, <2>3, <2>4
<1>11. ASSUME NEW b \in builder, NEW href \in Hrefs, SetCover(b, href) PROVE NavInv'
  <2> DEFINE new == Resource(CoverId, href, "cover")
             nb == [b EXCEPT !.resources = Append(@, new), !.cover_id = {CoverId}]
  <2>1. new \in Resources /\ new.kind # "nav"
    BY <1>2, Named
  <2>2. Store(nb)
    BY <1>11 DEF SetCover
  <2>3. nb.resources = Append(b.resources, new)
    BY <1>1 DEF Builders
  <2> HIDE DEF nb, new
  <2>4. QED
    BY <1>1, <1>8, <2>1, <2>2, <2>3
<1>12. ASSUME NEW b \in builder, NEW written \in BOOLEAN, Build(b, written) PROVE NavInv'
  <2>1. builder' = {} /\ package' \in {{Generated(b)}, {}}
    BY <1>12 DEF Build
  <2>2. Generated(b).has_toc => b.toc # {}
    BY DEF Generated
  <2>3. Generated(b).has_toc => NavigationLast(Generated(b))
    BY <1>1, <2>2, NavigationAdded
  <2>4. QED
    BY <2>1, <2>3 DEF NavInv
<1>13. QED
  BY <1>3, <1>4, <1>5, <1>7, <1>9, <1>10, <1>11, <1>12 DEF Next

\* An id of the manifest has a last item, which is the one that is read.
LEMMA ItemThere ==
    ASSUME NEW p \in Packages, NEW id \in DOMAIN Manifest(p)
    PROVE  \E i \in DOMAIN p.items : p.items[i].id = id /\ Manifest(p)[id] = p.items[i]
<1> DEFINE places == {i \in 1..Len(p.items) : p.items[i].id = id}
<1>0. id \in IdsOf(p.items) /\ Manifest(p)[id] = p.items[ItemOf(p, id)]
  BY DEF Manifest
<1>1. p.items \in Seq(Resources) /\ DOMAIN p.items = 1..Len(p.items) /\ Len(p.items) \in Nat
  BY DEF Packages
<1>2. PICK j \in places : \A i \in places : j >= i
  <2>1. places # {} /\ places \in SUBSET (0..Len(p.items))
    BY <1>0, <1>1 DEF IdsOf
  <2> HIDE DEF places
  <2>2. QED
    BY <1>1, <2>1, GreatestNumber
<1>3. ItemOf(p, id) = IF places # {} THEN Max(places) ELSE 0
  BY DEF ItemOf, SelectLastInSeq
<1> HIDE DEF places
<1>4. Max(places) \in places
  BY <1>2 DEF Max
<1>5. ItemOf(p, id) \in places
  BY <1>2, <1>3, <1>4
<1>6. ItemOf(p, id) \in DOMAIN p.items /\ p.items[ItemOf(p, id)].id = id
  BY <1>1, <1>5 DEF places
<1>7. QED
  BY <1>0, <1>6

\* What is read of a package with a table of contents, by version.
LEMMA ReadOfVersion3 ==
    ASSUME NEW p \in Packages, NavigationLast(p), p.version = "V30"
    PROVE  /\ NavId \in DOMAIN Manifest(p) /\ Manifest(p)[NavId].kind = "nav"
           /\ NcxId \in DOMAIN Manifest(p) /\ Manifest(p)[NcxId].kind = "ncx"
<1>1. PICK n \in DOMAIN p.items :
         /\ \A i \in DOMAIN p.items : i <= n
         /\ EndsWithNcx(p.items, n)
         /\ \E m \in DOMAIN p.items :
               /\ p.items[m].id = NavId /\ p.items[m].kind = "nav"
               /\ \A i \in DOMAIN p.items : p.items[i].id = NavId => i <= m
  BY DEF NavigationLast
<1>2. PICK m \in DOMAIN p.items :
         /\ p.items[m].id = NavId /\ p.items[m].kind = "nav"
         /\ \A i \in DOMAIN p.items : p.items[i].id = NavId => i <= m
  BY <1>1
<1>3. NavId \in DOMAIN Manifest(p) /\ Manifest(p)[NavId] = p.items[m]
  BY <1>2, LastItem
<1>4. NcxId \in DOMAIN Manifest(p) /\ Manifest(p)[NcxId] = p.items[n]
  BY <1>1, LastItem DEF EndsWithNcx
<1>5. QED
  BY <1>1, <1>2, <1>3, <1>4 DEF EndsWithNcx

LEMMA ReadOfVersion2 ==
    ASSUME NEW p \in Packages, NavigationLast(p), p.version # "V30"
    PROVE  /\ NcxId \in DOMAIN Manifest(p) /\ Manifest(p)[NcxId].kind = "ncx"
           /\ \A id \in DOMAIN Manifest(p) : Manifest(p)[id].kind # "nav"
<1>1. PICK n \in DOMAIN p.items :
         /\ \A i \in DOMAIN p.items : i <= n
         /\ EndsWithNcx(p.items, n) /\ NoNav(p.items)
  BY DEF NavigationLast
<1>2. NcxId \in DOMAIN Manifest(p) /\ Manifest(p)[NcxId] = p.items[n]
  BY <1>1, LastItem DEF EndsWithNcx
<1>3. ASSUME NEW id \in DOMAIN Manifest(p) PROVE Manifest(p)[id].kind # "nav"
  <2>1. PICK i \in DOMAIN p.items : Manifest(p)[id] = p.items[i]
    BY ItemThere
  <2>2. QED
    BY <1>1, <2>1 DEF NoNav
<1>4. QED
  BY <1>1, <1>2, <1>3 DEF EndsWithNcx

\* A package with a table of contents shows the reader the generated document,
\* whatever ids the caller's resources have: the generator's items come last,
\* and the last of an id is the one that is read (preprocess_resources,
\* generate_navigation_resources).  Only a navigation document that a caller
\* added under an id the generator does not use can be read in its place.
THEOREM GeneratedNavigationRead == Spec => []NavigationReadsBack
<1>1. Init => NavInv
  BY DEF Init, NavInv
<1>2. ASSUME GeneratorInv, NavInv PROVE NavigationReadsBack
  <2>1. SUFFICES ASSUME NEW p \in package, p.has_toc
                 PROVE  /\ NavigationRead(p) # {}
                        /\ NavigationRead(p) \subseteq {GeneratedFor(p.version), "callers_nav"}
                        /\ p.version = "V30" => GeneratedFor(p.version) \in NavigationRead(p)
                        /\ ForeignNavs(p) = {} =>
                              NavigationRead(p) = {GeneratedFor(p.version)}
    BY DEF NavigationReadsBack
  <2>2. p \in Packages /\ NavigationLast(p)
    BY <1>2, <2>1 DEF GeneratorInv, TypeOK, NavInv
  <2> DEFINE read == NavigationRead(p)
             generated == GeneratedFor(p.version)
             foreign == ForeignNavs(p)
             navs == {id \in DOMAIN Manifest(p) :
                        Manifest(p)[id].kind \in {"nav", "callers_nav"}}
             kinds == {Manifest(p)[id].kind : id \in navs}
  <2>3. /\ navs # {} => read = kinds
        /\ navs = {} /\ NcxId \in DOMAIN Manifest(p) => read = {Manifest(p)[NcxId].kind}
    BY <2>1 DEF NavigationRead
  <2>8. foreign = {i \in DOMAIN p.items : /\ p.items[i].kind = "callers_nav"
                                          /\ p.items[i].id \notin GeneratedIds(p.version)}
    BY DEF ForeignNavs
  <2> HIDE DEF read, foreign
  <2>4. ASSUME foreign = {}, NEW id \in navs, Manifest(p)[id].kind = "callers_nav"
        PROVE  id \in GeneratedIds(p.version)
    <3>1. PICK i \in DOMAIN p.items : p.items[i].id = id /\ Manifest(p)[id] = p.items[i]
      BY <2>2, ItemThere
    <3>2. QED
      BY <2>4, <2>8, <3>1
  <2>5. CASE p.version = "V30"
    <3>1. /\ NavId \in DOMAIN Manifest(p) /\ Manifest(p)[NavId].kind = "nav"
          /\ NcxId \in DOMAIN Manifest(p) /\ Manifest(p)[NcxId].kind = "ncx"
      BY <2>2, <2>5, ReadOfVersion3
    <3>2. generated = "nav" /\ GeneratedIds(p.version) = {NavId, NcxId}
      BY <2>1, <2>5 DEF GeneratedFor, GeneratedIds
    <3>3. read = kinds /\ "nav" \in kinds /\ kinds \subseteq {"nav", "callers_nav"}
      BY <2>3, <3>1
    <3>4. foreign = {} => kinds = {"nav"}
      BY <2>4, <3>1, <3>2, <3>3
    <3> HIDE DEF kinds
    <3>5. QED
      BY <2>5, <3>2, <3>3, <3>4 DEF read, foreign
  <2>6. CASE p.version # "V30"
    <3>1. /\ NcxId \in DOMAIN Manifest(p) /\ Manifest(p)[NcxId].kind = "ncx"
          /\ \A id \in DOMAIN Manifest(p) : Manifest(p)[id].kind # "nav"
      BY <2>2, <2>6, ReadOfVersion2
    <3>2. generated = "ncx" /\ GeneratedIds(p.version) = {NcxId}
      BY <2>1, <2>6 DEF GeneratedFor, GeneratedIds
    <3>3. kinds \subseteq {"callers_nav"} /\ (navs # {} => kinds # {})
      BY <3>1
    <3>4. foreign = {} => navs = {}
      BY <2>4, <3>1, <3>2
    <3>5. CASE navs = {}
      <4>1. read = {"ncx"}
        BY <2>3, <3>1, <3>5
      <4>2. QED
        BY <2>6, <3>2, <4>1 DEF read
    <3>6. CASE navs # {}
      <4>1. read = kinds /\ foreign # {} /\ kinds # {}
        BY <2>3, <3>3, <3>4, <3>6
      <4> HIDE DEF kinds
      <4>2. QED
        BY <2>6, <3>2, <3>3, <4>1 DEF read, foreign
    <3>7. QED
      BY <3>5, <3>6
  <2>7. QED
    BY <2>5, <2>6
<1>3. QED
  BY GeneratorInvariant, <1>1, <1>2, NavStep, PTL DEF Spec
=============================================================================
