---------------------------- MODULE TemplateText ----------------------------
(***************************************************************************)
(* ctemplate: from the bytes of a template's file to its parse tree.  The  *)
(* inline includes of an .shtml file are spliced in, the text is stripped  *)
(* line by line, cut into tokens, and parsed by recursive descent.         *)
(*                                                                         *)
(* A text is a sequence of symbols: the characters that the scanner looks  *)
(* at, "x" for text of other characters, names as one symbol each, and an  *)
(* inline include of a file as one symbol.                                 *)
(***************************************************************************)
EXTENDS TemplateModifiers

\* The main section's name, which no section of a text has: it is compared by address.
Main  == "__MAIN__"
\* Words that are valid names and no punctuation.
Words == {"v", "s", "r", "i", "b", "x", "h", "H", "z", "x-u"}

Space  == {" ", "\n"}

\* The first position in from..to that holds c, or to + 1: memchr().
Find(t, c, from, to) ==
  LET at == {k \in from..to : t[k] = c}
  IN IF at = {} THEN to + 1 ELSE CHOOSE k \in at : \A j \in at : k <= j

-----------------------------------------------------------------------------
(* Inline includes of .shtml files.                                        *)

\* <!--#include "f"--> by its file, and one that is not well formed.
Inline == "part" :> "@part" @@ "page" :> "@page"
Broken == "@"

\* LoadInclude(): from position p on, each inline include is replaced by the file's
\* text, which is searched in turn; one whose file is missing stays, and behind
\* a broken one nothing is replaced.
RECURSIVE LoadInclude(_, _, _)
LoadInclude(t, p, content) ==
  IF p > Len(t) \/ t[p] = Broken THEN t
  ELSE LET named == {f \in DOMAIN content : Inline[f] = t[p]} IN
       IF named = {} THEN LoadInclude(t, p + 1, content)
       ELSE LoadInclude(SubSeq(t, 1, p - 1) \o content[CHOOSE f \in named : TRUE]
                                            \o SubSeq(t, p + 1, Len(t)), p, content)

-----------------------------------------------------------------------------
(* Stripping.                                                              *)

StripWhiteSpace(line) ==
  LET solid == {k \in DOMAIN line : line[k] \notin Space} IN
  IF solid = {} THEN <<>>
  ELSE SubSeq(line, CHOOSE k \in solid : \A j \in solid : k <= j,
                    CHOOSE k \in solid : \A j \in solid : j <= k)

Closing(t) == {k \in 1..(Len(t) - 1) : t[k] = "}" /\ t[k + 1] = "}"}

IsBlankOrOnlyHasOneRemovableMarker(line) ==
  LET c == StripWhiteSpace(line) IN
  \/ c = <<>>
  \/ /\ Len(c) >= 5
     /\ c[1] = "{" /\ c[2] = "{" /\ c[3] \in {"#", "/", ">", "!"}
     /\ Closing(c) = {Len(c) - 1}

\* A line comes with its newline, if it has one.
InsertLine(line, strip) ==
  LET newline   == line # <<>> /\ Last(line) = "\n"
      bare      == IF newline THEN Front(line) ELSE line
      removable == strip # "DO_NOT_STRIP" /\ IsBlankOrOnlyHasOneRemovableMarker(bare)
  IN IF removable \/ strip = "STRIP_WHITESPACE" THEN StripWhiteSpace(bare) ELSE line

\* Every line but the last ends in a newline.
RECURSIVE InsertFile(_, _)
InsertFile(t, strip) ==
  IF t = <<>> THEN <<>>
  ELSE LET n == Find(t, "\n", 1, Len(t) - 1) IN
       InsertLine(SubSeq(t, 1, n), strip) \o InsertFile(SubSeq(t, n + 1, Len(t)), strip)

-----------------------------------------------------------------------------
(* Modifiers, as the parser knows them.                                    *)

\* A modifier is its name and the symbols of its value, from the "=" on.
LegalModifier(m) ==
  /\ Len(m.name) = 1 /\ m.name[1] \in DOMAIN Status
  /\ Status[m.name[1]] = "forbidden" => m.value = <<>>
  /\ Status[m.name[1]] = "required"  => m.value # <<>>

\* t[from..to] is a colon, a modifier, a colon, ...
RECURSIVE ModifiersOf(_, _, _)
ModifiersOf(t, from, to) ==
  IF from > to THEN <<>>
  ELSE LET end == Find(t, ":", from + 1, to)
           eq  == Find(t, "=", from + 1, end - 1)
       IN <<[name |-> SubSeq(t, from + 1, eq - 1), value |-> SubSeq(t, eq, end - 1)]>>
          \o ModifiersOf(t, end, to)

-----------------------------------------------------------------------------
(* Tokens.                                                                 *)

\* A token, and where and how the next begins.
Token(type, text, mods, next, phase) ==
  [type |-> type, text |-> text, mods |-> mods, next |-> next, phase |-> phase]
Fail(t) == Token("null", <<>>, <<>>, Len(t) + 1, "name")

IsValidName(name) == ToSet(name) \subseteq Words

MaybeEatNewline(t, p, strip) ==
  IF \/ p + 1 <= Len(t) /\ t[p] = "\\" /\ t[p + 1] = "\n"
     \/ p <= Len(t) /\ t[p] = "\n" /\ strip = "STRIP_WHITESPACE"
    THEN p + 1 ELSE p

\* Text goes up to "{{", unless a third brace follows, or to the end.
GetText(t, p) ==
  LET k == Find(t, "{", p, Len(t))
      brace(j) == j <= Len(t) /\ t[j] = "{" IN
  IF k > Len(t) THEN Token("text", SubSeq(t, p, k - 1), <<>>, k, "text")
  ELSE IF brace(k + 1) /\ ~brace(k + 2)
         THEN Token("text", SubSeq(t, p, k - 1), <<>>, k + 2, "name")
         ELSE Token("text", SubSeq(t, p, k), <<>>, k + 1, "text")

TypeOfMarker == "#" :> "section" @@ "/" :> "end" @@ "!" :> "comment" @@ ">" :> "template"

\* The marker of this type whose name starts at start and whose first "}" is at
\* end, with a ":" at mod or no modifiers.
Marker(t, type, start, mod, end, strip) ==
  LET name == SubSeq(t, start, mod - 1)
      next == IF type = "variable" THEN end + 2 ELSE MaybeEatNewline(t, end + 2, strip)
      Named(mods) ==
        IF /\ IsValidName(name)
           /\ \A k \in DOMAIN mods : LegalModifier(mods[k])
           /\ mods # <<>> => type \in {"variable", "template"}
          THEN Token(type, name, mods, next, "text")
          ELSE Fail(t) IN
  IF end >= Len(t) THEN Fail(t)
  ELSE IF t[end + 1] # "}" THEN Fail(t)
  ELSE IF type = "comment" THEN Token("comment", <<>>, <<>>, next, "text")
  ELSE Named(ModifiersOf(t, mod, end - 1))

GetName(t, p, strip) ==
  LET Of(type, start) ==
        LET Upto(end) == Marker(t, type, start, Find(t, ":", start, end - 1), end, strip)
        IN Upto(Find(t, "}", start, Len(t)))
  IN IF t[p] \in DOMAIN TypeOfMarker THEN Of(TypeOfMarker[t[p]], p + 1)
                                      ELSE Of("variable", p)

GetNextToken(t, p, phase, strip) ==
  IF phase = "text" THEN GetText(t, p) ELSE GetName(t, p, strip)

-----------------------------------------------------------------------------
(* The tree.                                                               *)

TextNode(text)         == [node |-> "text", text |-> text]
VariableNode(token)    == [node |-> "variable", text |-> token.text, mods |-> token.mods]
TemplateNode(token, s) == [node |-> "template", text |-> token.text, mods |-> token.mods,
                           strip |-> s]
SectionNode(token, ns) == [node |-> "section", text |-> token.text, nodes |-> ns]

\* AddSubnode() until it returns false: the subnodes of section `name', where its
\* text ends, and whether the template is still without error.
Parsed(nodes, at, phase, ok) == [nodes |-> nodes, at |-> at, phase |-> phase, ok |-> ok]

\* Running out of text ends the main section only.
EndsAtEof(name) == name = <<Main>>
EndsAnySection(token, name) == TRUE
EndsSection(token, name) == token.text = name

RECURSIVE AddSubnodes(_, _, _, _, _)
AddSubnodes(t, p, phase, name, strip) ==
  LET \* The nodes, and those that follow.
      Then(nodes, at, ph) ==
        LET Before(rest) == [rest EXCEPT !.nodes = nodes \o @]
        IN Before(AddSubnodes(t, at, ph, name, strip))
      Section(token, sub) ==
        IF sub.ok THEN Then(<<SectionNode(token, sub.nodes)>>, sub.at, sub.phase) ELSE sub
      NodesOf(token) ==
        CASE token.type = "text"     -> IF token.text = <<>> THEN <<>>
                                        ELSE <<TextNode(token.text)>>
          [] token.type = "variable" -> <<VariableNode(token)>>
          [] token.type = "template" -> <<TemplateNode(token, strip)>>
          [] token.type = "comment"  -> <<>>
      Add(token) ==
        CASE token.type = "section" ->
               Section(token, AddSubnodes(t, token.next, token.phase, token.text, strip))
          [] token.type = "end"  ->
               Parsed(<<>>, token.next, token.phase, EndsSection(token, name))
          [] token.type = "null" -> Parsed(<<>>, token.next, token.phase, FALSE)
          [] OTHER -> Then(NodesOf(token), token.next, token.phase)
  IN IF p > Len(t) THEN Parsed(<<>>, p, phase, EndsAtEof(name))
     ELSE Add(GetNextToken(t, p, phase, strip))

\* BuildTree(): the tree, <<nodes>>, or <<>> if there was an error.
BuildTree(t, strip) ==
  LET TreeUnder(top) == IF top.ok THEN <<top.nodes>> ELSE <<>>
  IN TreeUnder(AddSubnodes(t, 1, "text", <<Main>>, strip))
=============================================================================
