---------------------------- MODULE TemplatesMC ----------------------------
\* Templates with a page and a part, for TLC: many texts that are read once, a few
\* with dictionaries that are filled in, a few whose files change.
EXTENDS TemplateSpelling

\* Sequences of up to n pieces.
Upto(n, pieces) == UNION {[1..k -> pieces] : k \in 0..n}

Structure == {"x", "end", "#s", "/s", "!"}
Read == Upto(2, Pieces \cup {Dangling}) \cup Upto(5, Structure)
        \cup {<<"#s", p, "/s">> : p \in Pieces}
        \cup {<<a, b, c>> : a, b, c \in {"@part", "@", " ", "end"}}
        \cup {<<"#s", " ", p, "end", "/s">> : p \in Pieces}

Filled ==
  {<<"#s", "v:h", "#s", "v", "/s", "/s", ">i">>,
   <<"v:H=p:h", "#r", "v:x-u", ">i", "/r", "b", "v">>}
Part == <<"v", ">i:h", "#s", "x", "/s">>

Changing == {<<"x">>, <<"v", "#s">>}

Situation(main, inner, ds, asked, e, n, l) ==
  [disk |-> "page" :> main @@ "part" :> inner, dicts |-> ds, asks |-> asked,
   edits |-> e, ops |-> n, loads |-> l]

\* A page's dictionary as it is made, and one that has a value global to the template,
\* a section and, in that, a part.
Bare == <<Dictionary(0, 1)>>
Rich == [AddTo(AddTo(Bare, 1, "sections", "r", SectionParent(1)), 2, "includes", "i",
               IncludeParent(2)) EXCEPT ![3].filename = "part",
                                        ![1].templateGlobals = "v" :> <<"<">>]

AllSituations(fill, more, change, shows) ==
       {Situation(t, <<"x", "end">>, Bare, {"page"} \X Strips, 0, 0, 1) : t \in Read}
  \cup {Situation(t, Part, Bare, {<<"page", "DO_NOT_STRIP">>}, 0, fill, 1) : t \in Filled}
  \cup {Situation(t, Part, Rich, {<<"page", "STRIP_WHITESPACE">>}, 0, more, 1) : t \in Filled}
  \cup {Situation(t, <<"b">>, Bare, {"page"} \X {"DO_NOT_STRIP", "STRIP_WHITESPACE"},
                   change, 0, shows) : t \in Changing}

MCSituations == AllSituations(3, 2, 2, 4)
MCNewTexts   == Changing \cup {<<"x", "b">>}
MCValues     == {<<>>, <<"<">>}
MCWritten(text) == Spelled(text)
MCTree(f, strip, texts) == TreeOf(f, strip, texts)
=============================================================================
