----------------------------- MODULE Templates -----------------------------
(***************************************************************************)
(* The pages of the framework: templates that come from files by way of    *)
(* the caches (TemplateCache) and of the parser (TemplateText), and are    *)
(* expanded with a dictionary (TemplateDictionary).                        *)
(***************************************************************************)
EXTENDS TemplateDictionary, TemplateText, TemplateCache

CONSTANTS
  Shtml,       \* the files whose name has .shtml in it
  Written(_)   \* the symbols of a text

ASSUME TemplatesAssumption == Shtml \subseteq Filenames

VARIABLES
  page,    \* the last page that was expanded, or <<>>
  asks,    \* the files, and with what stripping, that are asked for
  ops      \* bound: how often the dictionary may still be changed

pageVars == <<dictVars, page, ops, asks>>
vars     == <<cacheVars, pageVars>>

-----------------------------------------------------------------------------
(* What is read of a file.                                                 *)

Input(f, strip, texts) ==
  InsertFile(IF f \in Shtml THEN LoadInclude(texts[f], 1, texts) ELSE texts[f], strip)

\* The tree of a file: the cache's Tree.
TreeOf(f, strip, texts) ==
  BuildTree(Input(f, strip, [g \in DOMAIN texts |-> Written(texts[g])]), strip)

-----------------------------------------------------------------------------
(* Expansion.                                                              *)

\* The templates that were asked for, the text, and whether there was no error.
Expanded(asked, out, ok) == [asked |-> asked, out |-> out, ok |-> ok]

EmitModifiedString(mods, in) ==
  FoldLeft(LAMBDA text, m : Modify(m.name[1], m.value, text), in, mods)

\* One after the other.
Chain(Step(_), items) ==
  FoldLeft(LAMBDA before, item :
             LET e == Step(item)
             IN Expanded(before.asked \cup e.asked, before.out \o e.out, before.ok /\ e.ok),
           Expanded({}, <<>>, TRUE), items)

\* c: the cache when the expansion begins.
RECURSIVE ExpandNode(_, _, _)
ExpandNode(c, n, d) ==
  LET name == IF Len(n.text) = 1 THEN n.text[1] ELSE ""
      \* The nodes of a tree with dictionary d1.
      All(nodes, d1) == Chain(LAMBDA m : ExpandNode(c, m, d1), nodes)
      Section(sub) == All(n.nodes, sub)
      Part(tpl, sub) ==
        LET Modified(e) == [e EXCEPT !.out = EmitModifiedString(n.mods, @)]
        IN IF tpl.state # "ready" THEN Expanded({}, <<>>, FALSE)
           ELSE Modified(All(tpl.tree[1], sub))
      \* An included file without a name is passed over, one that cannot be
      \* loaded is an error.
      Include(sub) ==
        LET key == <<GetIncludeTemplateName(dicts, sub), n.strip>>
            AskedFor(e) == [e EXCEPT !.asked = @ \cup {key}]
        IN IF key[1] = "" THEN Expanded({}, <<>>, TRUE)
           ELSE AskedFor(Part(Loaded(c, key), sub)) IN
  CASE n.node = "text" -> Expanded({}, n.text, TRUE)
    [] n.node = "variable" ->
         Expanded({}, EmitModifiedString(n.mods, GetSectionValue(dicts, d, name)), TRUE)
    [] n.node = "template" ->
         IF IsHiddenTemplate(dicts, d, name) THEN Expanded({}, <<>>, TRUE)
         ELSE Chain(Include, GetTemplateDictionaries(dicts, d, name))
    [] n.node = "section" ->
         IF IsHiddenSection(dicts, d, name) THEN Expanded({}, <<>>, TRUE)
         ELSE Chain(Section, GetDictionaries(dicts, d, name))

\* A template that is not ready is not expanded.
Expand(c, key, d) ==
  IF c[key].state # "ready" THEN Expanded({}, <<>>, FALSE)
  ELSE Chain(LAMBDA n : ExpandNode(c, n, d), c[key].tree[1])

\* CWebViewTemplate::GetTemplate() and Expand().
ShowPage(f, strip, d) ==
  LET key == KeyOf(f, strip) IN
  /\ \E c \in {Opened(f, strip)} : \E e \in {Expand(c, key, d)} :
       /\ UsePage(f, strip, e.asked)
       /\ page' = <<[file |-> f, key |-> key, dict |-> d, state |-> c[key].state,
                     text |-> c[key].text, ok |-> e.ok, out |-> e.out]>>
  /\ UNCHANGED <<dictVars, ops, asks>>

-----------------------------------------------------------------------------
(* The application.                                                        *)

\* It fills in its dictionary.
FillIn ==
  /\ ops > 0 /\ ops' = ops - 1 /\ page = <<>>
  /\ DictNext \/ \E d \in Held, f \in Filenames : SetFilename(d, f)
  /\ UNCHANGED <<cacheVars, page, asks>>

Init ==
  /\ \E s \in Situations :
       /\ DictInit(s.dicts) /\ CacheInit(s)
       /\ ops = s.ops /\ asks = s.asks
  /\ page = <<>>

Next ==
  \/ FillIn
  \/ \E ask \in asks, d \in Roots : ShowPage(ask[1], ask[2], d)
  \/ \E f \in Filenames : (EditFile(f) \/ RemoveFile(f)) /\ UNCHANGED pageVars
  \/ \E key \in Keys : ReloadIfChanged(key) /\ UNCHANGED pageVars
  \/ ReloadAllIfChanged /\ UNCHANGED pageVars
  \/ ClearCache /\ page' = <<>> /\ UNCHANGED <<dictVars, ops, asks>>

Spec == Init /\ [][Next]_vars
=============================================================================
