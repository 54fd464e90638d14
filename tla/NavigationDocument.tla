-------------------------- MODULE NavigationDocument --------------------------
(***************************************************************************)
(* parser/navigation.rs: NCX and nav.xhtml to the navigation document.      *)
(*                                                                          *)
(* The NCX is read in one pass: open navPoints are a stack of entries under *)
(* construction, and a page list is a region of its own.  nav.xhtml is a    *)
(* tree, read by operators: its nav elements are [types, toc_id, ol], its   *)
(* list items [a, ol] with a link [title, href] and a nested list, either   *)
(* of which may be Absent.  Items are numbered in document order, and a     *)
(* list is the sequence of their numbers.                                   *)
(* Resolving hrefs against the document's directory is left out.            *)
(***************************************************************************)
EXTENDS XmlReader, SequencesExt

VARIABLES
    ncx, \* locals of parse_ncx_all
    nav  \* NavigationDocument

navVars == <<ncx, nav>>

EmptyNcx == [stack |-> << >>, in_page_list |-> FALSE, in_text |-> FALSE, page_target |-> Absent]
EmptyNav == [toc |-> << >>, page_list |-> << >>, landmarks |-> << >>]
Entry(title, href, children) == [title |-> title, href |-> href, children |-> children]
BlankEntry == Entry("", "", << >>)
Top(stack) == stack[Len(stack)]
Pop(stack) == SubSeq(stack, 1, Len(stack) - 1)
Retop(stack, entry) == Append(Pop(stack), entry)

-----------------------------------------------------------------------------
NcxStart(names) == Sees("ncx", "start", names)
NcxEnd(names) == Sees("ncx", "end", names)

StartPageList ==
    /\ NcxStart({"pageList"})
    /\ ncx' = [ncx EXCEPT !.in_page_list = TRUE]
    /\ Advance /\ UNCHANGED nav
StartPageTarget ==
    /\ NcxStart({"pageTarget"}) /\ ncx.in_page_list
    /\ ncx' = [ncx EXCEPT !.page_target = BlankEntry]
    /\ Advance /\ UNCHANGED nav
StartNavPoint ==
    /\ NcxStart({"navPoint"}) /\ ~ncx.in_page_list
    /\ ncx' = [ncx EXCEPT !.stack = Append(@, BlankEntry)]
    /\ Advance /\ UNCHANGED nav
StartText ==
    /\ NcxStart({"text"})
    /\ ncx' = [ncx EXCEPT !.in_text = TRUE]
    /\ Advance /\ UNCHANGED nav

\* What a <content src> or a label belongs to: the page target in a page list,
\* else the innermost open navPoint, else nothing.
Fill(field, value) ==
    IF ncx.in_page_list
    THEN IF ncx.page_target = Absent THEN ncx
         ELSE [ncx EXCEPT !.page_target[field] = value]
    ELSE IF ncx.stack = << >> THEN ncx
         ELSE [ncx EXCEPT !.stack = Retop(@, [Top(@) EXCEPT ![field] = value])]
Content ==
    /\ Sees("ncx", "empty", {"content"})
    /\ ncx' = IF Attr("src") = Absent THEN ncx ELSE Fill("href", Attr("src"))
    /\ Advance /\ UNCHANGED nav
Label ==
    /\ Reading("ncx") /\ Event.ev = "text" /\ ncx.in_text
    /\ ncx' = Fill("title", Event.text)
    /\ Advance /\ UNCHANGED nav

EndText ==
    /\ NcxEnd({"text"})
    /\ ncx' = [ncx EXCEPT !.in_text = FALSE]
    /\ Advance /\ UNCHANGED nav
EndPageList ==
    /\ NcxEnd({"pageList"})
    /\ ncx' = [ncx EXCEPT !.in_page_list = FALSE]
    /\ Advance /\ UNCHANGED nav
\* A page needs a label and a target.
EndPageTarget ==
    /\ NcxEnd({"pageTarget"}) /\ ncx.in_page_list
    /\ LET pt == ncx.page_target IN
         nav' = IF pt = Absent THEN nav
                ELSE IF pt.title = "" \/ pt.href = "" THEN nav
                ELSE [nav EXCEPT !.page_list = Append(@, Entry(pt.title, pt.href, << >>))]
    /\ ncx' = [ncx EXCEPT !.page_target = Absent]
    /\ Advance
\* The finished entry goes to the navPoint around it, or to the TOC.
\* In error: always to the TOC.
EndNavPointFlat ==
    /\ NcxEnd({"navPoint"}) /\ ~ncx.in_page_list /\ ncx.stack # << >>
    /\ ncx' = [ncx EXCEPT !.stack = Pop(@)]
    /\ nav' = [nav EXCEPT !.toc = Append(@, Top(ncx.stack))]
    /\ Advance
EndNavPoint ==
    /\ NcxEnd({"navPoint"}) /\ ~ncx.in_page_list /\ ncx.stack # << >>
    /\ LET entry == Top(ncx.stack)
           rest == Pop(ncx.stack)
       IN IF rest = << >>
          THEN /\ nav' = [nav EXCEPT !.toc = Append(@, entry)]
               /\ ncx' = [ncx EXCEPT !.stack = rest]
          ELSE /\ ncx' = [ncx EXCEPT !.stack =
                            Retop(rest, [Top(rest) EXCEPT !.children = Append(@, entry)])]
               /\ UNCHANGED nav
    /\ Advance
NcxOther ==
    /\ \/ SeesOther("ncx", "start", {"pageList", "pageTarget", "navPoint", "text"})
       \/ SeesOther("ncx", "empty", {"content"})
       \/ SeesOther("ncx", "end", {"pageList", "pageTarget", "navPoint", "text"})
       \/ NcxStart({"navPoint"}) /\ ncx.in_page_list
       \/ NcxEnd({"navPoint"}) /\ (ncx.in_page_list \/ ncx.stack = << >>)
       \/ (NcxStart({"pageTarget"}) \/ NcxEnd({"pageTarget"})) /\ ~ncx.in_page_list
       \/ Reading("ncx") /\ Event.ev = "text" /\ ~ncx.in_text
       \/ Reading("ncx") /\ Event.ev = "ref"
    /\ Advance /\ UNCHANGED navVars
NcxRead == AtEof("ncx") /\ GoTo("overlay") /\ UNCHANGED navVars
\* An NCX that is not well-formed fails get_navigation: nothing is returned.
NcxFails == Malformed("ncx") /\ nav' = EmptyNav /\ UNCHANGED ncx

NcxNext ==
    \/ StartPageList \/ StartPageTarget \/ StartNavPoint \/ StartText \/ Content \/ Label
    \/ EndText \/ EndPageList \/ EndPageTarget \/ EndNavPoint \/ NcxOther
    \/ NcxRead \/ NcxFails

-----------------------------------------------------------------------------
\* select_first("a") of a list item: its own link, else the first one of its
\* nested list in document order.
LinkedItems(ol, first) == IF ol = Absent THEN << >> ELSE SelectSeq(ol, LAMBDA n : first[n] # Absent)
FirstLink(items) ==
    LET first[n \in DOMAIN items] ==
          LET linked == LinkedItems(items[n].ol, first)
          IN IF items[n].a # Absent \/ linked = << >> THEN items[n].a ELSE first[Head(linked)]
    IN first

\* parse_ol_node: an item without any link is left out, with all below it.
ParseOl(items, ol) ==
    LET first == FirstLink(items)
        entry[n \in DOMAIN items] ==
          LET nested == LinkedItems(items[n].ol, first)
          IN Entry(first[n].title, first[n].href, [i \in DOMAIN nested |-> entry[nested[i]]])
        linked == LinkedItems(ol, first)
    IN [i \in DOMAIN linked |-> entry[linked[i]]]

\* parse_nav_xhtml_all: of the nav elements of a type that have entries, the
\* last; without a table of contents, that of nav#toc, else of the first nav.
NavOfType(html, type) ==
    LET typed == SelectSeq(html.navs, LAMBDA e :
                   type \in e.types /\ ParseOl(html.items, e.ol) # << >>)
    IN IF typed = << >> THEN << >> ELSE ParseOl(html.items, Last(typed).ol)
UntypedToc(html) ==
    LET named == SelectSeq(html.navs, LAMBDA e : e.toc_id)
    IN IF html.navs = << >> THEN << >> ELSE ParseOl(html.items, Head(named \o html.navs).ol)
ParseNavXhtml(html) ==
    [toc |-> IF NavOfType(html, "toc") # << >> THEN NavOfType(html, "toc") ELSE UntypedToc(html),
     page_list |-> NavOfType(html, "page-list"),
     landmarks |-> NavOfType(html, "landmarks")]

\* load_navigation: the manifest item with property "nav", else the NCX that
\* the spine names, else nothing.
LoadNav(nav_item) ==
    /\ stage = "nav" /\ nav_item
    /\ IF package["nav"] = Absent THEN GoTo("failed") /\ UNCHANGED nav
       ELSE nav' = ParseNavXhtml(package["nav"]) /\ GoTo("overlay")
    /\ UNCHANGED ncx
LoadNcx(nav_item, ncx_item) ==
    /\ stage = "nav" /\ ~nav_item /\ ncx_item
    /\ GoTo(IF package["ncx"] = Absent THEN "failed" ELSE "ncx")
    /\ UNCHANGED navVars
NoNavigation(nav_item, ncx_item) ==
    /\ stage = "nav" /\ ~nav_item /\ ~ncx_item
    /\ GoTo("overlay") /\ UNCHANGED navVars
LoadNavigation(nav_item, ncx_item) ==
    LoadNav(nav_item) \/ LoadNcx(nav_item, ncx_item) \/ NoNavigation(nav_item, ncx_item)
=============================================================================
