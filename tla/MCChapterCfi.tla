---------------------------- MODULE MCChapterCfi ----------------------------
(***************************************************************************)
(* Small chapters and bookmarks for TLC.  Ids hold the characters the three *)
(* scanners of the parser treat apart: a comma, a colon, a tilde and a      *)
(* slash.  One match is empty.                                              *)
(***************************************************************************)
EXTENDS ChapterCfi

Doc(children, content, id, matches) ==
    [spine_index |-> 1, item_id |-> <<"c", ",">>, children |-> (0 :> children[1]) @@
       [n \in 1..(Len(children) - 1) |-> children[n + 1]],
     content |-> content, id |-> id, matches |-> matches]
E == "element"
T == "text"
C == "comment"
No == Absent
Nil == << >>

\* <html><head/><body id=a><p id=","/>text<p>text</p></body></html>
Prose == Doc(<< <<1, 2>>, Nil, <<3, 4, 5>>, Nil, Nil, <<6>>, Nil >>,
             <<E, E, E, T, E, T>>, <<No, <<"a">>, <<",">>, No, No, No>>,
             <<Nil, Nil, Nil, << <<0, 2>>, <<2, 3>> >>, Nil, << <<12, 15>> >> >>)
\* Two texts that a comment parts, then nested elements with ids ":" and "/".
Parted == Doc(<< <<1>>, <<2, 3, 4, 5>>, Nil, Nil, Nil, <<6, 8>>, <<7>>, Nil, Nil >>,
              <<E, T, C, T, E, E, T, T>>,
              <<No, No, No, No, <<":">>, <<"/", "4">>, No, No>>,
              <<Nil, << <<3, 5>> >>, Nil, << <<0, 1>>, <<2, 2>> >>, Nil, Nil, << <<1, 2>> >>, << <<4, 9>> >> >>)
\* Many siblings, so that an index has two digits, and an id with a tilde.
Wide == Doc(<< <<1>>, <<2, 3, 4, 5, 6, 7>>, Nil, Nil, Nil, Nil, Nil, <<8>>, Nil>>,
            <<E, E, E, E, E, E, E, T>>,
            <<<<"b">>, No, No, No, No, <<"a", "~">>, No, No>>,
            <<Nil, Nil, Nil, Nil, Nil, Nil, Nil, << <<0, 10>> >> >>)
ChapterSet == {Prose, Parted, Wide}

In(item, rest) == Wrap(<<"/", "6", "/", item>> \o rest)
BookmarkSet ==
    {In("4", <<"!", "/", "4", "/", "2">> \o end) :
       end \in {Nil, <<":", "3">>, <<":", "1", "2">>, <<":", "3", ":", "after">>,
                <<"~", "4">>, <<"~", "4", "@", "5", ":", "6">>, <<"@", "6", ":", "5">>, <<":", "9">>}}
      \cup {In("4", Nil), In("4", <<"!">>), In("4", <<"/", "2", "!", "/", "4">>),
            In("2", <<"[", "x", "^", "y", "]", "!", "/", "4", "/", "3", ":", "1">>),
            In("4", <<"!", "/", "4", "/", "2", ",", "/", "1", ":", "0", ",", "/", "3", ":", "7">>),
            In("4", <<"!", "/", "4", ",", "/", "1">>), In("4", <<"!", "/", "x">>)}
=============================================================================
