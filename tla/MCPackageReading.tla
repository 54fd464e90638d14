--------------------------- MODULE MCPackageReading ---------------------------
(***************************************************************************)
(* Packages for TLC.  One small sound package, with one of its documents    *)
(* replaced by every member of a family: metadata elements in every order,  *)
(* tables of contents and overlays of every shape of up to three entries,   *)
(* encryption entries with parts missing, and documents cut short at every  *)
(* event, with and without malformed markup at the cut.                     *)
(***************************************************************************)
EXTENDS PackageReading

NumberTable == [p \in {"1", "2"} |-> IF p = "1" THEN 1 ELSE 2]
ClockTable == [p \in {"4s", "9s"} |-> IF p = "4s" THEN 4 ELSE 9]
LengthTable == [p \in {"100"} |-> 100]
ProfileSet == {"profile"}

-----------------------------------------------------------------------------
\* Printing.
Ev(ev, name, attr, text) == [ev |-> ev, name |-> name, attr |-> attr, text |-> text]
None == << >>
Start(name, attr) == Ev("start", name, attr, "")
Self(name, attr) == Ev("empty", name, attr, "")
End(name) == Ev("end", name, None, "")
Amp == Ev("ref", "amp", None, "")
Bad == Ev("bad", "", None, "")
El(name, attr, text) == <<Start(name, attr), Ev("text", "", None, text), End(name)>>
Orders(blocks) == {FlattenSeq([i \in DOMAIN blocks |-> blocks[p[i]]]) :
                     p \in {q \in [DOMAIN blocks -> DOMAIN blocks] :
                              \A i, j \in DOMAIN blocks : q[i] = q[j] => i = j}}
Plain(local) == [prefix |-> "none", local |-> local]
Colon(local) == [prefix |-> "colon", local |-> local]
Refine(id, property, text) == El("meta", [refines |-> id, property |-> Plain(property)], text)
Cuts(doc) == {SubSeq(doc, 1, n) : n \in 0..Len(doc)}
Broken(doc) == {Append(d, Bad) : d \in Cuts(doc)}

-----------------------------------------------------------------------------
\* Package documents.
Item(id, attr) == Self("item", [id |-> id, href |-> id] @@ attr)
ItemRef(id, linear) == Self("itemref", [idref |-> id, linear |-> linear])
Opf(attr, metadata, manifest, spine) ==
    <<Start("package", attr), Start("metadata", None)>> \o metadata
      \o <<End("metadata"), Start("manifest", None)>> \o manifest \o <<End("manifest")>>
      \o spine \o <<End("package")>>
NcxSpine == <<Start("spine", [toc |-> "ncx"]), ItemRef("c1", "yes"), End("spine")>>
NcxManifest == <<Item("ncx", None), Item("c1", [x \in {"media-overlay"} |-> "m1"]), Item("m1", None)>>
Metadata(metadata) == Opf(None, metadata, NcxManifest, NcxSpine)

Titles ==
    UNION {Orders(<<El("title", [id |-> "t1"], "A"), El("title", [id |-> "t2"], "B"), r, s>>) :
             r \in {Refine("t2", "title-type", "main"), Refine("t1", "title-type", "subtitle")},
             s \in {Refine("t2", "file-as", "b"), Refine("t1", "title-type", "subtitle")}}
      \cup Orders(<<El("title", [id |-> "t1"], "A"), El("title", [id |-> "t2"], "B"),
                    Refine("t2", "display-seq", "1"), Refine("t1", "display-seq", "2"),
                    Refine("t1", "title-type", "subtitle") \o Refine("t2", "title-type", "subtitle")>>)
      \cup Orders(<<El("title", [x \in {"title-type"} |-> "subtitle"], "A"), El("title", None, "B"),
                    El("language", None, "en"), El("description", None, "D")>>)
Creators ==
    Orders(<<El("creator", [id |-> "a"], "A"), El("contributor", [id |-> "b"], "B"),
             Refine("b", "role", "edt"), Refine("a", "file-as", "a0"), El("creator", None, "C")>>)
Identifiers ==
    Orders(<<El("identifier", [id |-> "i1"], "1"), El("identifier", [id |-> "i2", scheme |-> "ISBN"], "2"),
             El("identifier", [id |-> "i3"], "3"),
             El("meta", [refines |-> "i1", property |-> Plain("identifier-type"), scheme |-> "onix"], "15")>>)
Series ==
    Orders(<<El("meta", [id |-> "s", property |-> Plain("belongs-to-collection")], "S"),
             Refine("s", "group-position", "2"), Refine("s", "collection-type", "set"),
             El("meta", [property |-> Plain("belongs-to-collection")], "Z")>>)
      \cup Orders(<<El("meta", [property |-> Plain("media:duration")], "9s"),
                    Refine("m1", "media:duration", "4s"),
                    El("meta", [property |-> Plain("media:narrator")], "N"),
                    El("meta", [property |-> Plain("media:active-class")], "on")
                      \o El("meta", [property |-> Plain("media:playback-active-class")], "play")>>)
Certification0 ==
    Orders(<<El("meta", [id |-> "k", property |-> Colon("conformsTo")], "profile"),
             El("meta", [id |-> "cb", refines |-> "k", property |-> Colon("certifiedBy")], "X"),
             El("meta", [refines |-> "cb", property |-> Colon("certifierCredential")], "cred"),
             El("meta", [id |-> "co", refines |-> "zz", property |-> Colon("certifiedBy")], "Y"),
             El("meta", [refines |-> "co", property |-> Colon("certifierCredential")], "other")>>)
      \cup {El("meta", [property |-> Colon("accessMode")], "visual")
              \o El("meta", [property |-> Plain("accessMode")], "textual")
              \o El("meta", [property |-> Colon("certifiedBy")], "W")}
Odds ==
    {El("publisher", None, "P") \o El("date", [event |-> "modification"], "M") \o El("rights", None, "R")
       \o El("subject", None, "U") \o <<Self("meta", [name |-> "cover", content |-> "c1"]), Self("link", None)>>
       \o El("meta", [name |-> "cover", content |-> "c1"]  , "x")
       \o El("meta", [property |-> Plain("rendition:layout")], "pre-paginated")
       \o El("meta", [property |-> Plain("dcterms:modified")], "M2")
       \o <<Start("collection", None), Ev("text", "", None, "stray"), End("collection")>>}
Entities ==
    {<<Start("title", None), Ev("text", "", None, "Me"), Amp, Ev("text", "", None, "You"), End("title")>>}
Metadatas == Entities \cup Titles \cup Creators \cup Series \cup Certification0 \cup Odds
WithIdentifiers ==
    {Opf([x \in {"unique-identifier"} |-> u], m, NcxManifest, NcxSpine) :
       u \in {"i2", "i3", "none"}, m \in Identifiers}

Ov(id) == [x \in {"media-overlay"} |-> id]
\* Two overlays over three chapters, one of them not linear; a guide.
Spines ==
    {Opf(None, None,
         <<Item("c1", Ov("m1")), Item("c2", Ov(o)), Item("c3", Ov("m3")), Item("m1", None),
           Item("m2", None), Item("m3", None), Self("item", [id |-> "noref"])>>,
         <<Start("spine", [x \in {"page-progression-direction"} |-> "rtl"])>>
           \o <<ItemRef("c1", "yes"), ItemRef(p[1], l), ItemRef(p[2], "yes"), Self("itemref", None),
                End("spine"), Self("reference", [type |-> "text", href |-> "c1"]),
                Self("reference", [type |-> "cover"]), Self("meta", None)>>) :
       o \in {"m2", "m9"}, l \in {"yes", "no"}, p \in {<<"c2", "c3">>, <<"c3", "c2">>}}
NavManifest(props) ==
    Opf(None, None, <<Item("nav", [properties |-> props]), Item("c1", None)>>,
        <<Start("spine", None), ItemRef("c1", "yes"), End("spine")>>)

-----------------------------------------------------------------------------
\* Trees of up to three nodes, by the labels of the nodes in document order.
Node(label, children) == [label |-> label, children |-> children]
Leaf(label) == Node(label, << >>)
Forests ==
    {<< >>, <<Leaf("1")>>, <<Leaf("1"), Leaf("2")>>, <<Node("1", <<Leaf("2")>>)>>,
     <<Leaf("1"), Leaf("2"), Leaf("3")>>, <<Node("1", <<Leaf("2")>>), Leaf("3")>>,
     <<Leaf("1"), Node("2", <<Leaf("3")>>)>>, <<Node("1", <<Leaf("2"), Leaf("3")>>)>>,
     <<Node("1", <<Node("2", <<Leaf("3")>>)>>)>>}
Flat(forest, F(_)) == FlattenSeq([i \in DOMAIN forest |-> F(forest[i])])

RECURSIVE Toc(_)
Toc(forest) == [i \in DOMAIN forest |-> Entry(forest[i].label, forest[i].label, Toc(forest[i].children))]
\* A target may stand before the nested entries or after them.
RECURSIVE NavPoint(_, _)
NavPoint(node, late) ==
    LET target == <<Self("content", [src |-> node.label])>>
        nested == Flat(node.children, LAMBDA n : NavPoint(n, late))
    IN <<Start("navPoint", None), Start("navLabel", None)>> \o El("text", None, node.label)
         \o <<End("navLabel")>> \o (IF late THEN nested \o target ELSE target \o nested)
         \o <<End("navPoint")>>
PageTarget(label) ==
    <<Start("pageTarget", None)>> \o El("text", None, label)
      \o <<Self("content", [src |-> label]), End("pageTarget")>>
PageList(labels) ==
    <<Start("pageList", None)>> \o Flat(labels, PageTarget)
      \o <<Start("pageTarget", None), Self("content", [src |-> "x"]), End("pageTarget"), End("pageList")>>
PageEntries(labels) == [i \in DOMAIN labels |-> Entry(labels[i], labels[i], << >>)]
\* Points in a page list and targets outside one; a page list in a page list
\* ends both.
Misplaced ==
    <<Start("pageTarget", None), Self("content", [src |-> "x"]), End("pageTarget"),
      Start("pageList", None), Start("navPoint", None), End("navPoint"),
      Start("navPoint", None), Start("pageList", None), End("pageList"), End("navPoint"),
      End("pageList")>>
Ncx(forest, late, labels, first) ==
    LET points == Flat(forest, LAMBDA n : NavPoint(n, late))
        pages == IF labels = << >> THEN << >> ELSE PageList(labels)
    IN <<Start("docTitle", None), Amp>> \o El("text", None, "T") \o <<End("docTitle")>>
         \o (IF first THEN pages \o points ELSE points \o pages)

\* An overlay: a leaf is a par, anything else a seq.
RECURSIVE Sync(_)
Sync(forest) ==
    [i \in DOMAIN forest |->
       IF forest[i].children = << >>
       THEN SmilObject(forest[i].label, <<"audio", forest[i].label, Absent>>, << >>)
       ELSE SmilObject("", Absent, Sync(forest[i].children))]
RECURSIVE Synced(_)
Synced(node) ==
    IF node.children = << >>
    THEN <<Start("par", None), Self("text", [src |-> node.label]),
           Self("audio", [src |-> "audio", clipBegin |-> node.label]), End("par")>>
    ELSE <<Start("seq", None)>> \o Flat(node.children, Synced) \o <<End("seq")>>
Smil(forest) ==
    <<Start("head", None), Start("seq", None), End("seq"), End("head"), Start("body", None)>>
      \o Flat(forest, Synced)
      \o <<Start("par", None), Self("audio", None), End("par"), Self("par", None),
           Ev("text", "", None, "x"), Amp, End("body"),
           Start("par", None), End("par")>>

\* The trees of the entries whose last event is among the first n.
Kept(forest, print(_), head, n) ==
    LET ks == {0} \cup {k \in 1..Len(forest) : head + Len(Flat(SubSeq(forest, 1, k), print)) <= n}
    IN SubSeq(forest, 1, CHOOSE k \in ks : \A j \in ks : j <= k)

-----------------------------------------------------------------------------
\* nav.xhtml: typed, typed twice, or known by its id or its place only.
Link(label) == [title |-> label, href |-> label]
RECURSIVE NavOl(_)
NavOl(forest) ==
    [i \in DOMAIN forest |->
       [a |-> Link(forest[i].label),
        ol |-> IF forest[i].children = << >> THEN Absent ELSE NavOl(forest[i].children)]]
NavElement(types, toc_id, ol) == [types |-> types, toc_id |-> toc_id, ol |-> ol]
\* The items of a list with those below them, numbered from after `n`.
RECURSIVE Below(_)
Below(li) == <<li>> \o (IF li.ol = Absent THEN << >> ELSE Flat(li.ol, Below))
Numbers(ol, n) ==
    IF ol = Absent THEN Absent
    ELSE [i \in DOMAIN ol |-> n + 1 + Len(Flat(SubSeq(ol, 1, i - 1), Below))]
RECURSIVE Numbered(_, _)
Numbered(ol, n) ==
    IF ol = Absent THEN << >>
    ELSE FlattenSeq([i \in DOMAIN ol |->
           <<[a |-> ol[i].a, ol |-> Numbers(ol[i].ol, Numbers(ol, n)[i])]>>
             \o Numbered(ol[i].ol, Numbers(ol, n)[i])])
RECURSIVE Html(_)
Html(navs) ==
    IF navs = << >> THEN [navs |-> << >>, items |-> << >>]
    ELSE LET front == Html(Front(navs))
             n == Len(front.items)
         IN [navs |-> Append(front.navs, [Last(navs) EXCEPT !.ol = Numbers(@, n)]),
             items |-> front.items \o Numbered(Last(navs).ol, n)]
Navs(forest) ==
    {<<NavElement({"toc"}, FALSE, NavOl(forest)), NavElement({"page-list"}, FALSE, NavOl(<<Leaf("p")>>))>>,
     <<NavElement({}, FALSE, Absent), NavElement({}, TRUE, NavOl(forest)),
       NavElement({"page-list", "landmarks"}, FALSE, NavOl(<<Leaf("p")>>))>>,
     <<NavElement({"toc"}, FALSE, NavOl(forest)), NavElement({"toc"}, FALSE, << >>),
       NavElement({"page-list"}, FALSE, NavOl(<<Leaf("p")>>))>>}
\* Headings without a link take the first one below them; without any they go.
Headed ==
    <<[a |-> Absent, ol |-> NavOl(<<Leaf("2"), Leaf("3")>>)], [a |-> Absent, ol |-> Absent]>>
HeadedToc == <<Entry("2", "2", Toc(<<Leaf("2"), Leaf("3")>>))>>

-----------------------------------------------------------------------------
\* encryption.xml: entries with every part present or not, in the order of the
\* standard; an entry may hold no URI.
EncPart(name, key, value) == IF value = Absent THEN << >> ELSE <<Self(name, [x \in {key} |-> value])>>
EncEntry(a, u, l) ==
    <<Start("EncryptedData", None)>> \o EncPart("EncryptionMethod", "Algorithm", a)
      \o EncPart("RetrievalMethod", "URI", "key") \o <<Start("CipherData", None)>> \o EncPart("CipherReference", "URI", u) \o <<End("CipherData")>>
      \o EncPart("Compression", "OriginalLength", l) \o <<End("EncryptedData")>>
EncEntries(u) == {EncEntry(a, v, l) : a \in {"Idpf", "odd", Absent}, v \in {u, Absent}, l \in {"100", "many", Absent}}
Encryptions == {e \o f : e \in EncEntries("u1"), f \in {EncEntry("Adobe", "u2", Absent), EncEntry(Absent, "u2", Absent)}}
FullEncryption == EncEntry("Idpf", "u1", "100") \o <<Ev("text", "", None, "x")>> \o EncEntry("AesCbc", "u2", Absent)

-----------------------------------------------------------------------------
Container == <<Start("container", None), Self("rootfile", [x \in {"full-path"} |-> "opf"]),
               Self("rootfile", None), Ev("text", "", None, "x"), Self("links", None), End("container")>>
Base == [container |-> Container, opf |-> Metadata(El("title", None, "A")), encryption |-> Absent,
         nav |-> Absent, ncx |-> Ncx(<<Leaf("1")>>, FALSE, << >>, FALSE), smil |-> Smil(<<Leaf("1")>>),
         toc |-> Toc(<<Leaf("1")>>), pages |-> << >>, sync |-> Sync(<<Leaf("1")>>)]
NavBase(html, toc, pages) == 
    [Base EXCEPT !.opf = NavManifest({"nav"}), !.nav = html, !.toc = toc, !.pages = pages]
Wide == <<Leaf("1"), Node("2", <<Leaf("3")>>)>>
WidePoint(node) == NavPoint(node, FALSE)

\* The contents hang on the toc attribute of the spine.
OfMetadata == {[Base EXCEPT !.opf = d] :
                 d \in {Metadata(m) : m \in Metadatas} \cup WithIdentifiers \cup Broken(Base.opf)}
                \cup {[Base EXCEPT !.opf = d, !.toc = IF NcxSpine[1] \in ToSet(d) THEN @ ELSE << >>] : d \in Cuts(Base.opf)}
                \cup {[Base EXCEPT !.opf = d, !.toc = << >>] : d \in Spines}
OfContents ==
    {[Base EXCEPT !.ncx = Ncx(f, late, pages, first), !.toc = Toc(f), !.pages = PageEntries(pages)] :
       f \in Forests, late \in BOOLEAN, pages \in {<<"i">>, <<"i", "ii">>}, first \in BOOLEAN}
    \cup {[Base EXCEPT !.ncx = SubSeq(Ncx(Wide, FALSE, << >>, FALSE), 1, n),
                       !.toc = Toc(Kept(Wide, WidePoint, 6, n))] : n \in 0..Len(Ncx(Wide, FALSE, << >>, FALSE))}
    \cup {[Base EXCEPT !.ncx = d] : d \in Broken(Base.ncx) \cup {Misplaced \o Base.ncx}}
    \cup {NavBase(Html(navs), Toc(f), PageEntries(<<"p">>)) : <<navs, f>> \in
            UNION {Navs(f) \X {f} : f \in Forests}}
    \cup {NavBase(Html(<<NavElement({"toc"}, FALSE, Headed)>>), HeadedToc, << >>), NavBase(Absent, << >>, << >>),
          NavBase(Html(<< >>), << >>, << >>)}
OfOverlays ==
    {[Base EXCEPT !.smil = Smil(f), !.sync = Sync(f)] : f \in Forests}
    \cup {[Base EXCEPT !.smil = SubSeq(Smil(Wide), 1, n), !.sync = Sync(Kept(Wide, Synced, 5, n))] :
            n \in 0..Len(Smil(Wide))}
    \cup {[Base EXCEPT !.smil = d] : d \in Broken(Base.smil)}
OfEncryption ==
    {[Base EXCEPT !.encryption = d] :
       d \in Encryptions \cup Cuts(FullEncryption) \cup Broken(FullEncryption)}
OfFiles ==
    {[Base EXCEPT !.container = d] : d \in Cuts(Container) \cup Broken(Container) \cup {Absent}}
    \cup {[Base EXCEPT !.opf = Absent], [Base EXCEPT !.ncx = Absent], [Base EXCEPT !.smil = Absent]}
\* A title with an entity in it, as the generator writes "Me & You <3".
EntityPackages == {[Base EXCEPT !.opf = Metadata(m)] : m \in Entities}
AllPackages == OfMetadata \cup OfContents \cup OfOverlays \cup OfEncryption \cup OfFiles

-----------------------------------------------------------------------------
\* These packages satisfy the hypotheses of NestingRead: the witnesses are
\* computed from one end tag to the next.
Proved == INSTANCE PackageProofs
Closes(B, E) ==
    LET c[e \in E] == Proved!Innermost({i \in B : i < e /\ \A k \in E : k < e => c[k] # i})
    IN [e \in E |-> c[e]]
Built(ends, around, closes, F(_, _)) ==
    LET b[e \in ends] ==
          LET below == SetToSortSeq(Proved!Children(ends, around, closes[e], e), <)
          IN F(e, [i \in DOMAIN below |-> b[below[i]]])
    IN [e \in ends |-> b[e]]
SyncWitnessed(p) ==
    LET doc == p["smil"]
        closes == Closes(Proved!SeqStarts(doc), Proved!SeqEnds(doc))
        Object(e, below) ==
          IF e \in Proved!ParsComplete(doc)
          THEN LET i == Proved!InPar(doc)[e]
               IN SmilObject(Proved!TextIn(doc, i, e), Proved!ClipIn(doc, i, e), << >>)
          ELSE SmilObject(Proved!TextRefAt(doc, closes[e]), Absent, below)
    IN Proved!SyncWith(p, closes,
         Built(Proved!SyncEnds(doc, closes), Proved!InSeq(doc, closes), closes, Object))
NcxWitnessed(p) ==
    LET doc == p["ncx"]
        closes == Closes(Proved!PointStarts(doc), Proved!PointEnds(doc))
        PointAt(e, below) == Proved!PointEntry(doc, closes, closes[e], e, below)
        points == Built(Proved!PointsComplete(doc, closes), Proved!InPoint(doc, closes), closes, PointAt)
        pages == [e \in Proved!PagesComplete(doc) |-> Proved!PageEntry(doc, Proved!InPage(doc)[e], e)]
    IN Proved!NcxWith(p, closes, points @@ pages)
ASSUME NestingHypotheses ==
    \A p \in Packages :
      /\ Proved!ContentsWritten(p, NcxWitnessed(p))
      /\ p["smil"] # Absent /\ (\A i \in DOMAIN p["smil"] : p["smil"][i].ev # "bad") => SyncWitnessed(p)
=============================================================================
