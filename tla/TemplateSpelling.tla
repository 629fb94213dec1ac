-------------------------- MODULE TemplateSpelling --------------------------
(***************************************************************************)
(* What the author of a template means, piece by piece, and what a page    *)
(* then has to show: the reference for Templates.  A text is a sequence of *)
(* pieces, each the spelling of a marker, of a space, of a line's end or   *)
(* of other text.  No tree is built and no character is looked at: a       *)
(* section reaches from its start to the matching end, and is repeated by  *)
(* going back.                                                             *)
(***************************************************************************)
EXTENDS Templates

Open  == <<"{", "{">>
Close == <<"}", "}">>
In(symbols) == Open \o symbols \o Close

Text == "x" :> <<"x">> @@ " " :> <<" ">> @@ "end" :> <<"\n">> @@ "\\" :> <<"\\">>
        @@ "{" :> <<"{">>

Markers ==
     "v" :> In(<<"v">>) @@ "v:h" :> In(<<"v", ":", "h">>) @@ "b" :> In(<<"b">>)
  @@ "v:H=p:h" :> In(<<"v", ":", "H", "=", "p", ":", "h">>)
  @@ "v:x-u" :> In(<<"v", ":", "x-u">>)
  @@ "#s" :> In(<<"#", "s">>) @@ "/s" :> In(<<"/", "s">>)
  @@ "#r" :> In(<<"#", "r">>) @@ "/r" :> In(<<"/", "r">>)
  @@ ">i" :> In(<<">", "i">>) @@ ">i:h" :> In(<<">", "i", ":", "h">>)
  @@ "!" :> In(<<"!", "x", " ">>)

\* No such name, an unknown modifier, a value too few and one too many, a section
\* with a modifier, no end, half an end.
Wrong ==
     "v " :> In(<<"v", " ">>) @@ "v:z" :> In(<<"v", ":", "z">>)
  @@ "v:H" :> In(<<"v", ":", "H">>) @@ "v:h=" :> In(<<"v", ":", "h", "=">>)
  @@ "#s:h" :> In(<<"#", "s", ":", "h">>) @@ "v}" :> Open \o <<"v", "}">>

\* The start of a marker at the end of the file, and an inline include.
Dangling == "{{"
Special  == Dangling :> Open @@ "@part" :> <<"@part">> @@ "@" :> <<"@">>

Pieces == DOMAIN Text \cup DOMAIN Markers \cup DOMAIN Wrong
Spelling == Text @@ Markers @@ Wrong @@ Special
Spelled(text) == FlattenSeq([k \in DOMAIN text |-> Spelling[text[k]]])

\* A name and a list of modifiers.
Modifiers == [p \in {"v:h", ">i:h"} |-> <<[name |-> <<"h">>, value |-> <<>>]>>]
             @@ "v:H=p:h" :> <<[name |-> <<"H">>, value |-> <<"=", "p">>],
                               [name |-> <<"h">>, value |-> <<>>]>>
             @@ "v:x-u" :> <<[name |-> <<"x-u">>, value |-> <<>>]>>
ModsOf(p) == IF p \in DOMAIN Modifiers THEN Modifiers[p] ELSE <<>>

Starts     == {"#s", "#r"}
Ends       == {"/s", "/r"}
EndOf      == "#s" :> "/s" @@ "#r" :> "/r"
NamedBy    == [p \in {"v", "v:h", "v:H=p:h", "v:x-u"} |-> "v"] @@ "b" :> "b"
              @@ "#s" :> "s" @@ "#r" :> "r" @@ [p \in {">i", ">i:h"} |-> "i"]
Variable   == {"v", "v:h", "v:H=p:h", "v:x-u", "b"}
Including  == {">i", ">i:h"}
Removable  == Starts \cup Ends \cup Including \cup {"!"}

-----------------------------------------------------------------------------
(* What stripping means: lines of a removable marker and of nothing lose   *)
(* all but the marker.                                                     *)

IsBlank(p) == p = " "
RECURSIVE Meant(_, _)
Meant(text, strip) ==
  LET ends  == {k \in DOMAIN text : text[k] = "end"}
      n     == IF ends = {} THEN Len(text) ELSE CHOOSE k \in ends : \A j \in ends : k <= j
      line  == SelectSeq(SubSeq(text, 1, n), LAMBDA p : p # "end")
      solid == {k \in DOMAIN line : ~IsBlank(line[k])}
      bare  == solid = {} \/ \E k \in solid : solid = {k} /\ line[k] \in Removable
      inner == SelectSeq([k \in DOMAIN line |->
                            IF \E i, j \in solid : i <= k /\ k <= j THEN line[k] ELSE "cut"],
                         LAMBDA p : p # "cut") IN
  IF text = <<>> THEN <<>>
  ELSE (IF strip = "STRIP_WHITESPACE" \/ (strip = "STRIP_BLANK_LINES" /\ bare)
          THEN inner ELSE SubSeq(text, 1, n))
       \o Meant(SubSeq(text, n + 1, Len(text)), strip)

\* The page's inline includes are the part's text.
Inlined(text) ==
  FlattenSeq([k \in DOMAIN text |-> IF text[k] = "@part" THEN disk["part"][1].text
                                                         ELSE <<text[k]>>])

\* A backslash between a marker that is no variable and a line's end is not text;
\* comments and a marker that is begun at the very end are nothing.
IsEscape(t, k) ==
  /\ k \in 2..(Len(t) - 1) /\ t[k] = "\\" /\ t[k + 1] = "end"
  /\ t[k - 1] \in Removable
Shown(text, strip) ==
  LET t == Meant(Inlined(text), strip)
  IN SelectSeq([k \in DOMAIN t |-> IF IsEscape(t, k) THEN "!" ELSE t[k]],
               LAMBDA p : p \notin {"!", Dangling})

-----------------------------------------------------------------------------
(* What is well formed, and what is shown.                                 *)

Level(t, i, j) ==
  Cardinality({k \in i..j : t[k] \in Starts}) - Cardinality({k \in i..j : t[k] \in Ends})
Match(t, i) == CHOOSE j \in (i + 1)..Len(t) :
                 Level(t, i, j) = 0 /\ \A k \in i..(j - 1) : Level(t, i, k) > 0

WellFormed(text) ==
  /\ \A k \in DOMAIN text : text[k] \notin DOMAIN Wrong
  /\ Level(text, 1, Len(text)) = 0 /\ \A k \in DOMAIN text : Level(text, 1, k) >= 0
  /\ \A k \in DOMAIN text : text[k] \in Starts => text[Match(text, k)] = EndOf[text[k]]

\* The texts the reference covers: the only marker that is left open is the last
\* piece, no two braces come to stand together, and what is included is there.
Covered(text) ==
  /\ \A k \in DOMAIN text : text[k] = Dangling => k = Len(text)
  /\ Cardinality({k \in DOMAIN text : text[k] = "{"}) <= 1
  /\ \A k \in DOMAIN text :
       text[k] # "@" /\ (text[k] = "@part" => disk["part"] # <<>> /\ since["part"] = {disk["part"]})

\* A tree as the pieces' tokens: text by symbol, markers by name and modifiers.
Plain(symbol) == [is |-> "text", text |-> symbol, mods |-> <<>>]
Mark(is, name, mods) == [is |-> is, text |-> name, mods |-> mods]
RECURSIVE Flat(_)
Flat(nodes) ==
  FlattenSeq([k \in DOMAIN nodes |->
    LET n == nodes[k] IN
    CASE n.node = "text" -> [j \in DOMAIN n.text |-> Plain(n.text[j])]
      [] n.node = "section" -> <<Mark("start", n.text[1], <<>>)>> \o Flat(n.nodes)
                               \o <<Mark("end", n.text[1], <<>>)>>
      [] OTHER -> <<Mark(n.node, n.text[1], n.mods)>>])

Tokens(shown) ==
  FlattenSeq([k \in DOMAIN shown |->
    LET p == shown[k] IN
    CASE p \in DOMAIN Text -> <<Plain(Text[p][1])>>
      [] p \in Starts      -> <<Mark("start", NamedBy[p], <<>>)>>
      [] p \in Ends        -> <<Mark("end", IF p = "/s" THEN "s" ELSE "r", <<>>)>>
      [] p \in Variable    -> <<Mark("variable", NamedBy[p], ModsOf(p))>>
      [] p \in Including   -> <<Mark("template", NamedBy[p], ModsOf(p))>>])

\* The dictionaries d may look in, nearest first: by how far they are.
Ancestry(d) ==
  LET at[n \in 0..Len(dicts)] ==
        IF n = 0 THEN d ELSE IF at[n - 1] = 0 THEN 0 ELSE dicts[at[n - 1]].parent
  IN SelectSeq([n \in 1..Len(dicts) |-> at[n - 1]], LAMBDA a : a # 0)
Having(d, map, name) == SelectSeq(Ancestry(d), LAMBDA a : name \in DOMAIN dicts[a][map])

ValueOf(d, name) ==
  LET near == Having(d, "variables", name)
      tops == dicts[dicts[d].owner].templateGlobals IN
  CASE near # <<>> -> dicts[near[1]].variables[name]
    [] near = <<>> /\ name \in DOMAIN tops -> tops[name]
    [] near = <<>> /\ name \notin DOMAIN tops /\ name \in DOMAIN global -> global[name]
    [] OTHER -> <<>>

ListOf(d, map, name) ==
  LET near == Having(d, map, name) IN IF near = <<>> THEN <<>> ELSE dicts[near[1]][map][name]

\* What pieces i..j show with dictionary d, the files being as they are.
RECURSIVE Shows(_, _, _, _, _)
Shows(t, i, j, d, strip) ==
  LET p    == t[i]
      rest == Shows(t, i + 1, j, d, strip)
      Once(sub) == Shows(t, i + 1, Match(t, i) - 1, sub, strip)
      Part(sub) ==
        LET f == dicts[sub].filename
            u == Shown(disk[f][1].text, strip) IN
        IF f = "" THEN <<>> ELSE IF ~WellFormed(u) THEN <<>>
        ELSE EmitModifiedString(ModsOf(p), Shows(u, 1, Len(u), sub, strip))
      each(subs, Do(_)) == FlattenSeq([k \in DOMAIN subs |-> Do(subs[k])]) IN
  IF i > j THEN <<>>
  ELSE CASE p \in DOMAIN Text -> <<Text[p][1]>> \o rest
         [] p \in Variable    -> EmitModifiedString(ModsOf(p), ValueOf(d, NamedBy[p])) \o rest
         [] p \in Including   -> each(ListOf(d, "includes", NamedBy[p]), Part) \o rest
         [] p \in Starts      -> each(ListOf(d, "sections", NamedBy[p]), Once)
                                 \o Shows(t, Match(t, i) + 1, j, d, strip)

-----------------------------------------------------------------------------
(* Properties.                                                             *)

\* Every variable has its type; a template is ready only with a tree
\* (template.cc 1136-1264, 1522-1594).
TypeOK ==
  /\ DictTypeOK
  /\ edits \in Nat /\ ops \in Nat /\ loads \in Nat /\ clock \in Nat
  /\ DOMAIN cache \subseteq Keys
  /\ \A key \in DOMAIN cache :
       /\ cache[key].state \in {"ready", "error", "should_reload"}
       /\ cache[key].state = "ready" => cache[key].tree # <<>>
       /\ cache[key].mtime <= clock
  /\ \A f \in DOMAIN views : views[f] \in DOMAIN cache /\ views[f][1] = f

\* The tree of a template says what its author wrote, whatever is stripped: the same
\* text and markers in the same order and nesting; and a text that is not well
\* formed has no tree (template.cc 791-1123, 1233-1264, 1675-1780).
TreesSayTheText ==
  \A key \in DOMAIN cache :
    LET tpl   == cache[key]
        shown == Shown(tpl.text, key[2]) IN
    Covered(tpl.text) /\ tpl.text # <<>> =>
      IF WellFormed(shown) THEN tpl.tree # <<>> /\ Flat(tpl.tree[1]) = Tokens(shown)
                           ELSE tpl.tree = <<>>

\* Templates are well typed, and parsed as their authors meant.
ParsedRight == TypeOK /\ TreesSayTheText

\* A page shows, for every dictionary, what its pieces mean: sections repeated and
\* hidden, parts included, values looked up and modified, through any depth of
\* sections and parts (template.cc 278-310, 466-613, 718-764; template_dictionary.cc
\* 797-890).
ExpandedRight ==
  (page # <<>> /\ page[1].state = "ready") =>
    LET shown == Shown(page[1].text, page[1].key[2]) IN
    (/\ \A f \in Filenames : disk[f] # <<>> /\ since[f] = {disk[f]} /\ Covered(disk[f][1].text)
     /\ page[1].text = disk[page[1].file][1].text)
      => page[1].out = Shows(shown, 1, Len(shown), page[1].dict, page[1].key[2])

\* What a dictionary shows with all that is below it, and what these have
\* themselves, wherever they look further.
RECURSIVE Outlook(_, _)
Outlook(ds, d) ==
  [values   |-> [v \in Variables |-> GetSectionValue(ds, d, v)],
   filename |-> ds[d].filename,
   subs     |-> [map \in {"sections", "includes"} |->
                  [name \in DOMAIN ds[d][map] |->
                    [k \in DOMAIN ds[d][map][name] |-> Outlook(ds, ds[d][map][name][k])]]]]

RECURSIVE Content(_, _)
Content(ds, d) ==
  [values   |-> ds[d].variables,
   filename |-> ds[d].filename,
   subs     |-> [map \in {"sections", "includes"} |->
                  [name \in DOMAIN ds[d][map] |->
                    [k \in DOMAIN ds[d][map][name] |-> Content(ds, ds[d][map][name][k])]]]]

\* The page's dictionary and what MakeCopy() gave, and those of them that a step
\* changes, in themselves or below.
Tops    == {1} \cup {c.copy : c \in copies}
Touched == {dicts[d].owner : d \in {e \in Dicts : dicts'[e] # dicts[e]}}

\* A copy shows, when it is made, what its original does, all the way down, with
\* what is global to the template.  From then on a change of the copy changes
\* nothing of the original, and a change of the original nothing of what the copy
\* and the dictionaries below it have themselves, nor what the copy itself shows;
\* what a copied section or include shows may change with the originals
\* (template_dictionary.cc 215-287, template_dictionary.h 332).
CopyStep ==
  /\ \A c \in copies' \ copies : Outlook(dicts', c.copy) = Outlook(dicts, c.of)
  /\ \A d \in Tops :
       /\ Touched \cap ({d} \cup Sources(d)) = {} => Outlook(dicts', d) = Outlook(dicts, d)
       /\ d \notin Touched => /\ Content(dicts', d) = Content(dicts, d)
                              /\ \A v \in Variables : GetSectionValue(dicts', d, v)
                                                       = GetSectionValue(dicts, d, v)
CopiesAlike == [][dicts' # dicts => CopyStep]_dictVars

\* A copy really is independent: what is changed elsewhere changes nothing that it
\* shows, all the way down (template_dictionary_unittest.cc 793).
CopiesIndependent ==
  [][dicts' # dicts => \A d \in Tops :
       d \notin Touched => Outlook(dicts', d) = Outlook(dicts, d)]_dictVars
=============================================================================
