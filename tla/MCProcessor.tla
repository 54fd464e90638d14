----------------------------- MODULE MCProcessor -----------------------------
(***************************************************************************)
(* What the reading API makes of a chapter or a book, on small instances:   *)
(* one of three operations is chosen and runs to its end.  They share no    *)
(* state; the archive they all read from is ResourceArchive.                *)
(***************************************************************************)
EXTENDS ChapterPackaging, StreamRewriting, BookReading

VARIABLE task \* "package" | "stream" | "read"

all_vars == <<task, packaging_vars, stream_vars, reading_vars>>

Stands(path) == [ext |-> FALSE, path |-> path, frag |-> FALSE]
Web == [ext |-> TRUE, path |-> <<"w">>, frag |-> FALSE]
Here == [ext |-> FALSE, path |-> << >>, frag |-> TRUE]
Empty == [Here EXCEPT !.frag = FALSE]
Mark(tag, ref) == [tag |-> tag, ref |-> ref]
Rule == [tok |-> "rule", ref |-> Here]
Url(ref) == [tok |-> "url", ref |-> ref]
Import(path) == [tok |-> "import", ref |-> Stands(path)]
Item(href, type) == [href |-> href, type |-> type]
File(css) == [big |-> FALSE, css |-> css]
Picture == File(<<Rule>>)
Large == [Picture EXCEPT !.big = TRUE]

MCDecoded == ("q%231.png" :> "q#1.png") @@ ("a%20b.png" :> "a b.png")
MCCut == ("q#1.png" :> "q")
MCSegmentEndsWith ==
    {<<"11.png", "1.png">>, <<"xc1.xhtml", "c1.xhtml">>} \cup
    {<<s, "css">> : s \in {"theme.css", "base.css", "blank.css"}}
MCGuessedType ==
    [s \in {"1.png", "11.png", "a b.png", "pic.png", "shared.png", "dot.png"} |-> "image"]
        @@ [s \in {"theme.css", "base.css", "blank.css"} |-> "css"]
MCAliases == {<< <<"O", "img", "pic.png">>, <<"O", "img", "Pic.jpg">> >>}

\* The usual layout: two stylesheets that import each other, one that is blank,
\* an item above the package document's directory, names that need encoding, a
\* picture that is too large, one without an item, one whose name is misspelt.
Usual ==
    [opf_dir |-> <<"O">>,
     entries |-> << <<"O", "css", "theme.css">>, <<"O", "css", "base.css">>,
                    <<"O", "css", "blank.css">>, <<"O", "img", "1.png">>,
                    <<"O", "img", "11.png">>, <<"O", "img", "a b.png">>,
                    <<"O", "img", "q#1.png">>, <<"O", "img", "Pic.jpg">>,
                    <<"shared.png">>, <<"O", "text", "c1.xhtml">>,
                    <<"O", "css", "dot.png">> >>,
     content |->
        (<<"O", "css", "theme.css">> :>
             File(<<Url(Stands(<<"dot.png">>)), Import(<<"base.css">>),
                    Rule>>))
        @@ (<<"O", "css", "base.css">> :>
             File(<<Import(<<"theme.css">>), Url(Web),
                    Url(Stands(<<"..", "img", "a%20b.png">>))>>))
        @@ (<<"O", "css", "blank.css">> :> File(<< >>))
        @@ (<<"O", "img", "11.png">> :> Large)
        @@ [e \in {<<"O", "img", "1.png">>, <<"O", "img", "a b.png">>,
                   <<"O", "img", "q#1.png">>, <<"O", "img", "Pic.jpg">>,
                   <<"shared.png">>, <<"O", "text", "c1.xhtml">>,
                   <<"O", "css", "dot.png">>} |-> Picture],
     manifest |->
        {Item(<<"css", "theme.css">>, "css"), Item(<<"css", "base.css">>, "css"),
         Item(<<"css", "blank.css">>, "css"), Item(<<"img", "1.png">>, "image"),
         Item(<<"img", "11.png">>, "none"), Item(<<"img", "q%231.png">>, "image"),
         Item(<<"..", "shared.png">>, "image"), Item(<<"text", "c1.xhtml">>, "page")}]
\* Everything at the top: names that end with others' names match them, and
\* url(#...), resolved to the empty path, matches every item.
Flat ==
    [opf_dir |-> << >>,
     entries |-> << <<"1.png">>, <<"11.png">>, <<"theme.css">>, <<"c1.xhtml">> >>,
     content |->
        (<<"theme.css">> :> File(<<Url(Stands(<<"11.png">>)), Url(Here),
                                    Url(Stands(<<"1.png">>))>>))
        @@ [e \in {<<"1.png">>, <<"11.png">>, <<"c1.xhtml">>} |-> Picture],
     manifest |->
        {Item(<<"1.png">>, "image"), Item(<<"11.png">>, "page"),
         Item(<<"theme.css">>, "css"), Item(<<"c1.xhtml">>, "page")}]
MCPublications == {Usual, Flat}
MCChapterPaths == {<<"text", "c1.xhtml">>, <<"c1.xhtml">>}

MCMarkup ==
    {Mark("img", r) : r \in
        {Stands(<<"..", "img", "1.png">>), Stands(<<"..", "img", "11.png">>),
         Stands(<<"..", "img", "pic.png">>), Stands(<<"..", "img", "q%231.png">>),
         Stands(<<"..", "..", "shared.png">>), Stands(<<"img", "none.png">>),
         Stands(<<"1.png">>), Web, Here, Empty}}
    \cup {Mark("link", Stands(<<"..", "css", "theme.css">>)),
          Mark("link", Stands(<<"..", "css", "blank.css">>)),
          Mark("link", Stands(<<"theme.css">>)),
          Mark("link", [Stands(<<"..", "css", "theme.css">>) EXCEPT !.frag = TRUE]),
          Mark("a", [Stands(<<"c1.xhtml">>) EXCEPT !.frag = TRUE]),
          Mark("a", Stands(<<"..", "css", "base.css">>)),
          Mark("style", Stands(<<"..", "img", "a%20b.png">>)), Mark("style", Here),
          Mark("srcset", Stands(<<"..", "img", "a%20b.png">>)),
          Mark("style_import", Stands(<<"..", "css", "theme.css">>)),
          Mark("script", Stands(<<"..", "img", "1.png">>)),
          Mark("comment", Stands(<<"..", "css", "base.css">>)),
          Mark("object", Stands(<<"..", "img", "1.png">>))}
MCChapters == {<< >>} \cup {<<m, n>> : m, n \in MCMarkup}
MCOptions ==
    LET option(c, b, i, m) == [readable |-> TRUE, inject_cfi |-> c, base_cfi |-> b,
                               inline_resources |-> i, malformed |-> m]
    IN {option(TRUE, TRUE, TRUE, TRUE), option(TRUE, FALSE, TRUE, FALSE),
        option(FALSE, FALSE, FALSE, FALSE), option(FALSE, FALSE, TRUE, TRUE),
        [option(TRUE, TRUE, TRUE, FALSE) EXCEPT !.readable = FALSE]}

Chapter(href, linear, cover, matches, loads) ==
    [href |-> href, linear |-> linear, cover |-> cover, matches |-> matches,
     loads |-> loads, in_manifest |-> TRUE]
Entry(roles, path) == [roles |-> roles, path |-> path]
MCSpines ==
    {<< >>,
     <<Chapter(<<"cover.xhtml">>, TRUE, TRUE, 1, TRUE),
       Chapter(<<"notes.xhtml">>, FALSE, FALSE, 3, TRUE),
       Chapter(<<"p", "xc1.xhtml">>, TRUE, FALSE, 2, TRUE),
       Chapter(<<"p", "c1.xhtml">>, TRUE, FALSE, 3, TRUE)>>,
     <<[Chapter(<<"gone.xhtml">>, TRUE, FALSE, 2, FALSE) EXCEPT !.in_manifest = FALSE],
       Chapter(<<"p", "c2.xhtml">>, TRUE, FALSE, 4, TRUE),
       Chapter(<<"q", "c2.xhtml">>, TRUE, FALSE, 1, FALSE),
       Chapter(<<"q", "c3.xhtml">>, TRUE, FALSE, 2, TRUE)>>,
     <<Chapter(<<"cover.xhtml">>, TRUE, TRUE, 0, TRUE),
       Chapter(<<"q", "c2.xhtml">>, TRUE, FALSE, 0, TRUE),
       Chapter(<<"c3.xhtml">>, TRUE, FALSE, 5, TRUE)>>}
MCLandmarks ==
    {<< >>, <<Entry({"bodymatter"}, <<"q", "c3.xhtml">>)>>,
     <<Entry({"chapter"}, <<"q", "c2.xhtml">>), Entry({"bodymatter"}, <<"p", "c1.xhtml">>)>>,
     <<Entry({"toc"}, <<"nav.xhtml">>), Entry({"text", "body"}, <<"c3.xhtml">>)>>,
     <<Entry({"text"}, <<"q", "c2.xhtml">>), Entry({"bodymatter"}, <<"c3.xhtml">>)>>,
     <<Entry({"text"}, <<"none.xhtml">>), Entry({"bodymatter"}, <<"O", "q", "c3.xhtml">>)>>,
     <<Entry({"bodymatter"}, <<"none.xhtml">>)>>}
MCReadable ==
    [spine : MCSpines, nav_fails : BOOLEAN, landmarks : MCLandmarks,
     guide : {<< >>, <<Entry({"text"}, <<"p", "c2.xhtml">>)>>,
              <<Entry({"start"}, <<"q", "c3.xhtml">>)>>}]
MCSearchOptions ==
    [blank : BOOLEAN, max_per_chapter : {0, 1, 3}, max_total : {0, 1, 4},
     include_non_linear : BOOLEAN]

-----------------------------------------------------------------------------
Init ==
    /\ task \in {"package", "stream", "read"}
    /\ IF task = "package" THEN PackagingInit
       ELSE /\ publication = Flat /\ chapter_path = << >> /\ chapter = << >>
            /\ options = CHOOSE o \in MCOptions : TRUE
            /\ packaging = "idle" /\ pending = << >> /\ seen = {}
            /\ uri_map = << >> /\ css_sources = << >> /\ stats = NoStats /\ html = << >>
    /\ IF task = "stream" THEN StreamInit
       ELSE /\ source_length = 0 /\ current_offset = 0 /\ streaming = "idle"
            /\ received = << >> /\ held = << >> /\ output = << >>
            /\ write_error = {} /\ faults = << >>
    /\ IF task = "read" THEN ReadingInit
       ELSE /\ readable = CHOOSE r \in MCReadable : r.spine = << >>
            /\ search_options = CHOOSE o \in MCSearchOptions : TRUE
            /\ reading = "idle" /\ spine_at = 0 /\ hits = << >> /\ start = {}

Next ==
    \/ task = "package" /\ PackagingNext /\ UNCHANGED <<task, stream_vars, reading_vars>>
    \/ task = "stream" /\ StreamNext /\ UNCHANGED <<task, packaging_vars, reading_vars>>
    \/ task = "read" /\ ReadingNext /\ UNCHANGED <<task, packaging_vars, stream_vars>>

Spec == Init /\ [][Next]_all_vars /\ WF_all_vars(Next)

\* Each of the three runs to its end, whatever is loaded, found or fails: also
\* with stylesheets that import each other, and however short the reads are
\* (the call does not wait for anything but its own next step).
OperationsEnd ==
    <>(\/ task = "package" /\ PackagingOver
       \/ task = "stream" /\ StreamOver
       \/ task = "read" /\ ReadingOver)
=============================================================================
