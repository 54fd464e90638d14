----------------------------- MODULE MediaOverlay -----------------------------
(***************************************************************************)
(* parser/smil.rs and get_media_overlay of parser/mod.rs: the overlay of a  *)
(* chapter as a tree of sync points, and its place in the chain of overlays *)
(* that a player follows.                                                   *)
(*                                                                          *)
(* Open <seq> elements are a stack of frames over a root that is always     *)
(* there; a <par> is collected apart and goes to the innermost frame.  What *)
(* is open when the document ends is lost.  Clock values and the fragments  *)
(* made of them are opaque: an audio clip is <<src, begin, end>>.           *)
(***************************************************************************)
EXTENDS XmlReader, SequencesExt

VARIABLES
    smil,   \* locals of parse_smil
    overlay \* SmilDocument.objects

smilVars == <<smil, overlay>>

SeqFrame(text_ref) == [text_ref |-> text_ref, children |-> << >>]
EmptyPar == [text_ref |-> "", audio |-> Absent]
EmptySmil == [stack |-> <<SeqFrame("")>>, in_body |-> FALSE, cur_par |-> Absent]
SmilObject(text_ref, audio_ref, children) ==
    [text_ref |-> text_ref, audio_ref |-> audio_ref, children |-> children]

Depth == Len(smil.stack)
AddChild(stack, object) ==
    [stack EXCEPT ![Len(stack)].children = Append(@, object)]

SmilStart(names) == Sees("smil", "start", names)
SmilTag(names) == SmilStart(names) \/ Sees("smil", "empty", names)
SmilEnd(names) == Sees("smil", "end", names)

StartBody ==
    /\ SmilStart({"body"})
    /\ smil' = [smil EXCEPT !.in_body = TRUE]
    /\ Advance /\ UNCHANGED overlay
StartSeq ==
    /\ SmilStart({"seq"}) /\ smil.in_body
    /\ smil' = [smil EXCEPT !.stack =
                  Append(@, SeqFrame(IF Attr("textref") = Absent THEN "" ELSE Attr("textref")))]
    /\ Advance /\ UNCHANGED overlay
\* A <par> inside a <par> replaces it.
StartPar ==
    /\ SmilStart({"par"}) /\ smil.in_body
    /\ smil' = [smil EXCEPT !.cur_par = EmptyPar]
    /\ Advance /\ UNCHANGED overlay
ParText ==
    /\ SmilTag({"text"})
    /\ smil' = IF smil.cur_par = Absent \/ Attr("src") = Absent THEN smil
               ELSE [smil EXCEPT !.cur_par.text_ref = Attr("src")]
    /\ Advance /\ UNCHANGED overlay
\* fill_audio: a second <audio> without a src still takes over the clip times.
ParAudio ==
    /\ SmilTag({"audio"})
    /\ smil' = IF smil.cur_par = Absent THEN smil
               ELSE [smil EXCEPT !.cur_par.audio =
                       IF Attr("src") # Absent
                       THEN <<Attr("src"), Attr("clipBegin"), Attr("clipEnd")>>
                       ELSE IF @ = Absent THEN Absent
                       ELSE <<@[1], Attr("clipBegin"), Attr("clipEnd")>>]
    /\ Advance /\ UNCHANGED overlay

EndBody ==
    /\ SmilEnd({"body"})
    /\ smil' = [smil EXCEPT !.in_body = FALSE]
    /\ Advance /\ UNCHANGED overlay
\* A <par> needs a text or an audio clip.
EndPar ==
    /\ SmilEnd({"par"})
    /\ LET par == smil.cur_par IN
         smil' = [smil EXCEPT
            !.cur_par = Absent,
            !.stack = IF par = Absent \/ par = EmptyPar THEN @
                      ELSE AddChild(@, SmilObject(par.text_ref, par.audio, << >>))]
    /\ Advance /\ UNCHANGED overlay
EndSeq ==
    /\ SmilEnd({"seq"}) /\ Depth > 1
    /\ LET frame == smil.stack[Depth]
       IN smil' = [smil EXCEPT !.stack =
             AddChild(SubSeq(@, 1, Depth - 1), SmilObject(frame.text_ref, Absent, frame.children))]
    /\ Advance /\ UNCHANGED overlay
\* The root is never closed: unmatched ends are allowed.
SmilOther ==
    /\ \/ SeesOther("smil", "start", {"body", "seq", "par", "text", "audio"})
       \/ SmilStart({"seq", "par"}) /\ ~smil.in_body
       \/ SeesOther("smil", "empty", {"text", "audio"})
       \/ SeesOther("smil", "end", {"body", "seq", "par"})
       \/ SmilEnd({"seq"}) /\ Depth = 1
       \/ Reading("smil") /\ Event.ev \in {"text", "ref"}
    /\ Advance /\ UNCHANGED smilVars

SmilRead ==
    /\ AtEof("smil")
    /\ overlay' = smil.stack[1].children
    /\ GoTo("done") /\ UNCHANGED smil
SmilFails == (Malformed("smil") \/ (Missing("smil") /\ GoTo("failed"))) /\ UNCHANGED smilVars

SmilNext ==
    \/ StartBody \/ StartSeq \/ StartPar \/ ParText \/ ParAudio
    \/ EndBody \/ EndPar \/ EndSeq \/ SmilOther \/ SmilRead \/ SmilFails

-----------------------------------------------------------------------------
\* get_media_overlay: the overlays of the linear spine items, in reading
\* order; an overlay id that the manifest does not know is left out.
\* In error: the items that are not linear are counted in.
HeardWithAny(book, hrefs, s) ==
    IF /\ s.idref \in DOMAIN book.manifest
       /\ book.manifest[s.idref].media_overlay \in DOMAIN book.manifest
    THEN Append(hrefs, book.manifest[book.manifest[s.idref].media_overlay].href)
    ELSE hrefs
HeardWith(book, hrefs, s) ==
    IF /\ s.linear
       /\ s.idref \in DOMAIN book.manifest
       /\ book.manifest[s.idref].media_overlay \in DOMAIN book.manifest
    THEN Append(hrefs, book.manifest[book.manifest[s.idref].media_overlay].href)
    ELSE hrefs
OverlayHrefs(book) == FoldLeft(LAMBDA hrefs, s : HeardWith(book, hrefs, s), << >>, book.spine)
\* The links of the overlay at an href: around its first place in that list.
OverlayLinks(book, href) ==
    LET hrefs == OverlayHrefs(book)
        places == {i \in DOMAIN hrefs : hrefs[i] = href}
        cur_pos == CHOOSE i \in places : \A j \in places : i <= j
    IN IF places = {} THEN [prev |-> Absent, next |-> Absent]
       ELSE [prev |-> IF cur_pos > 1 THEN hrefs[cur_pos - 1] ELSE Absent,
             next |-> IF cur_pos < Len(hrefs) THEN hrefs[cur_pos + 1] ELSE Absent]

\* A chapter without an overlay, or one the manifest does not know, is answered
\* at once; an overlay id that leads nowhere is an error.
GetMediaOverlay(book, id) ==
    /\ stage = "overlay"
    /\ LET ov == IF id \in DOMAIN book.manifest THEN book.manifest[id].media_overlay ELSE Absent
       IN GoTo(IF ov = Absent THEN "done" ELSE IF ov \in DOMAIN book.manifest THEN "smil" ELSE "failed")
    /\ UNCHANGED smilVars
=============================================================================
