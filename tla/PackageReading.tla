---------------------------- MODULE PackageReading ----------------------------
(***************************************************************************)
(* A package from its documents to what a reader is handed: parse() reads   *)
(* the container, the package document and encryption.xml, get_navigation   *)
(* the table of contents, get_media_overlay the overlay of one chapter.     *)
(* The caller makes the three calls in this order and stops at an error.    *)
(*                                                                          *)
(* `package` also holds what its documents were printed from: `toc`,        *)
(* `pages` and `sync`, the entries and sync points that are complete in     *)
(* them.  The properties compare what was read with the documents, never    *)
(* with the locals of the parsers.                                          *)
(***************************************************************************)
EXTENDS OpfDocument, EncryptionDocument, NavigationDocument, MediaOverlay

CONSTANT Packages \* the packages there may be

\* A document is a sequence of events (nav.xhtml is a tree).
ASSUME PackagesAssumption ==
    \A p \in Packages :
      \A s \in {"container", "opf", "encryption", "ncx", "smil"} :
        p[s] = Absent \/ p[s] \in Seq(ToSet(p[s]))

vars == <<reader, opfVars, encVars, navVars, smilVars>>

Init ==
    /\ package \in Packages /\ stage = "container" /\ at = 1
    /\ renditions = << >> /\ opf = EmptyOpf /\ book = EmptyBook
    /\ enc = EmptyEnc /\ encryptions = << >>
    /\ ncx = EmptyNcx /\ nav = EmptyNav
    /\ smil = EmptySmil /\ overlay = Absent

NavItems == {id \in DOMAIN book.manifest : "nav" \in book.manifest[id].properties}
ReadOpf == (ContainerNext \/ OpfNext) /\ UNCHANGED <<encVars, navVars, smilVars>>
ReadEncryption == EncryptionNext /\ UNCHANGED <<opfVars, navVars, smilVars>>
GetNavigation ==
    /\ NcxNext \/ LoadNavigation(NavItems # {}, book.toc_id \in DOMAIN book.manifest)
    /\ UNCHANGED <<opfVars, encVars, smilVars>>
ReadOverlay ==
    /\ SmilNext \/ \E id \in DOMAIN book.manifest \cup {Absent} : GetMediaOverlay(book, id)
    /\ UNCHANGED <<opfVars, encVars, navVars>>

Next == ReadOpf \/ ReadEncryption \/ GetNavigation \/ ReadOverlay
Spec == Init /\ [][Next]_vars

-----------------------------------------------------------------------------
BookRead == stage \in {"encryption", "nav", "ncx", "overlay", "smil", "done"}
\* The elements of a name that hold a text, by position.
Elements(doc, names) ==
    {i \in DOMAIN doc : /\ doc[i].ev = "start" /\ doc[i].name \in names
                        /\ i < Len(doc) /\ doc[i + 1].ev = "text"}
At(doc, i, key) == Lookup(doc[i].attr, key)
TextAt(doc, i) == doc[i + 1].text
Metas(doc, property) ==
    {i \in Elements(doc, {"meta"}) : /\ At(doc, i, "property") # Absent
                                     /\ At(doc, i, "property").local = property}
\* What the package document says of an id, wherever it says so: the last word.
Said(doc, id, property) ==
    LET said == {i \in Metas(doc, property) : At(doc, i, "refines") = id}
    IN IF id = Absent \/ said = {} THEN Absent ELSE TextAt(doc, Max(said))
SaidOf(doc, i, property) == Said(doc, At(doc, i, "id"), property)
\* The place of an element among those of a set, in document order.
Rank(S, i) == Cardinality({j \in S : j <= i})

\* The title of a book is the one declared main, and its subtitle the declared
\* one of lowest display-seq, whichever of the titles and of the metas that
\* refine them stands first (the pass over the document and the second pass).
TitlesDeclared(doc, b) ==
    LET titles == Elements(doc, {"title"})
        TypeAt(i) == IF At(doc, i, "title-type") = "subtitle" THEN "subtitle"
                     ELSE SaidOf(doc, i, "title-type")
        mains == {i \in titles : TypeAt(i) = "main"}
        subs == {i \in titles : TypeAt(i) = "subtitle"}
        main == First(IF mains # {} THEN mains ELSE titles \ subs)
        SeqAt(i) == Lookup(NumberOf, SaidOf(doc, i, "display-seq"))
    IN /\ mains \cup (titles \ subs) # {} =>
             b.title = TextAt(doc, main) /\ b.sort_as = SaidOf(doc, main, "file-as")
       /\ subs # {} =>
             \E i \in subs : /\ b.subtitle = TextAt(doc, i)
                             /\ SeqAt(i) # Absent =>
                                   \A j \in subs : SeqAt(j) # Absent => SeqAt(i) <= SeqAt(j)
TitlesAsDeclared == BookRead => TitlesDeclared(package["opf"], book)

\* Roles and sort names reach the creators they refine, positions and types
\* their collections, durations their overlays, in any order of the metas, and
\* creators and collections keep the order of the document.
RefinementsReachTheirTargets(doc, b) ==
    LET agents == Elements(doc, {"creator", "contributor"})
        series == {i \in Metas(doc, "belongs-to-collection") :
                     At(doc, i, "id") # Absent /\ At(doc, i, "refines") = Absent}
        timed == {At(doc, i, "refines") : i \in Metas(doc, "media:duration")} \ {Absent}
    IN /\ Len(b.creators) = Cardinality(agents)
       /\ \A i \in agents : b.creators[Rank(agents, i)] =
            [name |-> TextAt(doc, i), role |-> SaidOf(doc, i, "role"),
             file_as |-> SaidOf(doc, i, "file-as")]
       /\ Len(b.belongs_to) = Cardinality(series)
       /\ \A i \in series : b.belongs_to[Rank(series, i)] =
            [name |-> TextAt(doc, i),
             collection_type |-> OrElse(SaidOf(doc, i, "collection-type"), "series"),
             position |-> Lookup(NumberOf, SaidOf(doc, i, "group-position"))]
       /\ b.media_overlays # Absent =>
            b.media_overlays.durations =
              [id \in {x \in timed : Said(doc, x, "media:duration") \in DOMAIN ClockOf}
                 |-> ClockOf[Said(doc, id, "media:duration")]]

\* The certifier named in a book is one that certifies a conformance the book
\* claims (or the book at large), with the credential and the report of that
\* certifier and no other, whatever the order of the metas.
Claims(doc, property) ==
    {i \in Metas(doc, property) : At(doc, i, "property").prefix = "colon"}
ClaimFor(doc, i, property) ==
    LET its == {c \in Claims(doc, property) : /\ At(doc, i, "id") # Absent
                                              /\ At(doc, c, "refines") = At(doc, i, "id")}
    IN IF its = {} THEN Absent ELSE TextAt(doc, First(its))
CertificationLinked(doc, b) ==
    b.accessibility # Absent =>
    LET cert == b.accessibility.certification
        able == {i \in Claims(doc, "certifiedBy") :
                   \/ At(doc, i, "refines") = Absent
                   \/ \E k \in Claims(doc, "conformsTo") : At(doc, k, "id") = At(doc, i, "refines")}
    IN /\ able = {} => cert = Absent
       /\ able # {} =>
            \E i \in able : cert = [certified_by |-> TextAt(doc, i),
                                    credential |-> ClaimFor(doc, i, "certifierCredential"),
                                    report |-> ClaimFor(doc, i, "certifierReport")]

\* What a meta refines, the package gets from it: creators, collections,
\* overlays and certifiers alike.
RefinementsHold ==
    BookRead => /\ RefinementsReachTheirTargets(package["opf"], book)
                /\ CertificationLinked(package["opf"], book)

\* The identifier is the one that unique-identifier designates, else the first,
\* and every other identifier is kept, in order, with the scheme of its own.
SchemeAt(doc, i) ==
    LET given == {j \in DOMAIN doc :
                    /\ doc[j].ev = "start" /\ doc[j].name = "meta"
                    /\ At(doc, j, "property") # Absent
                    /\ At(doc, j, "property").local = "identifier-type"
                    /\ At(doc, j, "refines") = At(doc, i, "id") /\ At(doc, j, "scheme") # Absent}
    IN IF At(doc, i, "scheme") # Absent THEN At(doc, i, "scheme")
       ELSE IF At(doc, i, "id") # Absent /\ given # {} THEN At(doc, Max(given), "scheme")
       ELSE SaidOf(doc, i, "identifier-type")
IdentifierDesignated(doc, b) ==
    LET ids == Elements(doc, {"identifier"})
        pointers == {i \in DOMAIN doc : /\ doc[i].ev = "start" /\ doc[i].name = "package"
                                        /\ At(doc, i, "unique-identifier") # Absent}
        named == {i \in ids : /\ pointers # {} /\ At(doc, i, "id") # Absent
                              /\ At(doc, i, "id") = At(doc, Max(pointers), "unique-identifier")}
        primary == First(IF named # {} THEN named ELSE ids)
        others == ids \ {primary}
    IN ids # {} =>
         /\ b.identifier = TextAt(doc, primary)
         /\ Len(b.alt_identifiers) = Cardinality(others)
         /\ \A i \in others : b.alt_identifiers[Rank(others, i)] =
                                [value |-> TextAt(doc, i), scheme |-> SchemeAt(doc, i)]
IdentifierAsDesignated == BookRead => IdentifierDesignated(package["opf"], book)

\* The entries of encryption.xml that are complete before the first malformed
\* markup, and the last word of the elements of a name between two events.
EntryTag(doc, i, ev) == doc[i].ev = ev /\ doc[i].name = "EncryptedData"
Opened(doc, i, j) ==
    /\ i < j /\ EntryTag(doc, i, "start")
    /\ \A k \in i + 1 .. j - 1 : ~EntryTag(doc, k, "start") /\ ~EntryTag(doc, k, "end")
Sound(doc) == {i \in DOMAIN doc : \A j \in 1..i : doc[j].ev # "bad"}
EntriesOf(doc) ==
    {p \in Sound(doc) \X Sound(doc) : Opened(doc, p[1], p[2]) /\ EntryTag(doc, p[2], "end")}
LastWord(doc, first, last, name, key) ==
    LET said == {j \in first..last : /\ doc[j].ev \in {"start", "empty"} /\ doc[j].name = name
                                    /\ Lookup(doc[j].attr, key) # Absent}
    IN IF said = {} THEN Absent ELSE doc[Max(said)].attr[key]
PathIn(doc, i, j) == LastWord(doc, i, j, "CipherReference", "URI")
AlgorithmIn(doc, i, j) ==
    LET uri == LastWord(doc, i, j, "EncryptionMethod", "Algorithm")
    IN IF uri = Absent THEN Absent ELSE AlgorithmOfUri(uri)
LengthIn(doc, i, j) == Lookup(LengthOf, LastWord(doc, i, j, "Compression", "OriginalLength"))
Useful(doc, i, j) ==
    PathIn(doc, i, j) # Absent /\ (AlgorithmIn(doc, i, j) # Absent \/ LengthIn(doc, i, j) # Absent)

\* encryption.xml gives a resource the algorithm and the length of its own
\* entry, and every complete entry before the first malformed markup counts.
EncryptionOwn ==
    stage \in {"nav", "ncx", "overlay", "smil", "done"} /\ package["encryption"] # Absent =>
    LET doc == package["encryption"]
        useful == {p \in EntriesOf(doc) : Useful(doc, p[1], p[2])}
    IN /\ DOMAIN encryptions = {PathIn(doc, p[1], p[2]) : p \in useful}
       /\ \A uri \in DOMAIN encryptions :
            \E p \in useful :
              /\ PathIn(doc, p[1], p[2]) = uri
              /\ encryptions[uri] =
                   [algorithm |-> OrElse(AlgorithmIn(doc, p[1], p[2]), "Unknown"),
                    original_length |-> LengthIn(doc, p[1], p[2])]

\* The contents keep the nesting of the document: what is complete in it and
\* nothing else, though label, target and nested entries are gathered piece by
\* piece and the page list shares their element names.
TocNesting ==
    stage \in {"overlay", "smil", "done"} =>
        nav.toc = package["toc"] /\ nav.page_list = package["pages"]

\* So do the sync points of an overlay.
OverlaySync ==
    overlay # Absent => overlay = package["sync"]

\* Of both: however deep, and whatever is missing in between, what a document
\* nests the result nests.
NestingKept == TocNesting /\ OverlaySync

\* A player that follows `next` from the overlay of the first linear chapter
\* hears the overlay of every linear chapter, in reading order, and `prev`
\* leads back, when no two chapters share one.
PlaybackChain ==
    BookRead =>
    LET heard == {k \in DOMAIN book.spine :
                    /\ book.spine[k].linear /\ book.spine[k].idref \in DOMAIN book.manifest
                    /\ book.manifest[book.spine[k].idref].media_overlay \in DOMAIN book.manifest}
        Heard(k) == book.manifest[book.manifest[book.spine[k].idref].media_overlay].href
        before(k) == {j \in heard : j < k}
        after(k) == {j \in heard : j > k}
        distinct == \A j, k \in heard : Heard(j) = Heard(k) => j = k
    IN distinct => \A k \in heard :
         OverlayLinks(book, Heard(k))
           = [prev |-> IF before(k) = {} THEN Absent ELSE Heard(Max(before(k))),
              next |-> IF after(k) = {} THEN Absent ELSE Heard(Min(after(k)))]

\* prop_generator_parser_title_roundtrip ("title preservation for arbitrary
\* non-empty titles") and RawTitle.text ("Text content."): a title of several
\* pieces, as entity references make them, is more than its first piece.
TitleWhole ==
    LET doc == package["opf"]
        titles == Elements(doc, {"title"})
    IN BookRead /\ Cardinality(titles) = 1 =>
         LET i == First(titles) IN doc[i + 2].ev = "ref" => book.title # TextAt(doc, i)
=============================================================================
