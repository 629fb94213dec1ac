------------------------- MODULE TemplateModifiers -------------------------
(***************************************************************************)
(* ctemplate's modifiers: what {{NAME:modifier}} does to the value.  A     *)
(* value is a sequence of characters; a string that a modifier writes for  *)
(* a character (an entity, an escape) is one symbol.  The letters, digits  *)
(* and punctuation that every modifier treats alike are "a" and "b".       *)
(***************************************************************************)
EXTENDS Integers, Sequences, FiniteSets, SequencesExt, TLC

\* Each character by what is written for it, the others as they are.
Each(in, written) ==
  FlattenSeq([k \in DOMAIN in |-> IF in[k] \in DOMAIN written THEN <<written[in[k]]>>
                                                              ELSE <<in[k]>>])

NullModifier(in) == in

Entities == "&" :> "&amp;" @@ "\"" :> "&quot;" @@ "'" :> "&#39;" @@ "<" :> "&lt;"
            @@ ">" :> "&gt;"
HtmlEscape(in) == Each(in, Entities @@ "\n" :> " ")
PreEscape(in)  == Each(in, Entities)

JavascriptEscape(in) ==
  Each(in, "\"" :> "\\x22" @@ "'" :> "\\x27" @@ "\\" :> "\\\\" @@ "\n" :> "\\n"
           @@ "&" :> "\\x26" @@ "<" :> "\\x3c" @@ ">" :> "\\x3e" @@ "=" :> "\\x3d")

JsonEscape(in) ==
  Each(in, "\"" :> "\\\"" @@ "\\" :> "\\\\" @@ "/" :> "\\/" @@ "\n" :> "\\n")

Letters == {"a", "b", "h"}

CleanseAttribute(in) ==
  [k \in DOMAIN in |-> IF in[k] \in Letters \cup {"-", ":"} THEN in[k] ELSE "_"]

CleanseCss(in) == SelectSeq(in, LAMBDA c : c \in Letters \cup {" ", "#", "%", "-"})

\* Hexadecimal escapes are one symbol.
UrlQueryEscape(in) ==
  [k \in DOMAIN in |-> CASE in[k] = " " -> "+"
                         [] in[k] \in Letters \cup {"/", "-"} -> in[k]
                         [] OTHER -> "%" \o in[k]]

\* A url is "/", ":" and other characters; "h:" stands for http: and https:, in
\* upper or lower case and with two slashes.  Another modifier is chained to this one.
Http == <<"h", ":", "/", "/">>
ValidateUrl(in) ==
  LET slash == CHOOSE k \in 1..(Len(in) + 1) :
                 (k > Len(in) \/ in[k] = "/") /\ \A j \in 1..(k - 1) : in[j] # "/"
  IN IF \E k \in 1..(slash - 1) : in[k] = ":"
       THEN IF Len(in) > Len(Http) /\ IsPrefix(Http, in) THEN in ELSE <<"#">>
       ELSE in

\* Snippets keep <b>, </b>, <br> and <wbr> (Break stands for the two), the first two only
\* in turn.  A tag that is written is one symbol.
Bold   == <<"<", "b", ">">>
Unbold == <<"<", "/", "b", ">">>
Break  == <<"<", "b", "r", ">">>

ValidTag(in, inside) ==
  IF IsPrefix(Bold, in) /\ ~inside THEN <<"<b>", Len(Bold)>>
  ELSE IF IsPrefix(Unbold, in) /\ inside THEN <<"</b>", Len(Unbold)>>
  ELSE IF IsPrefix(Break, in) THEN <<"<br>", Len(Break)>> ELSE <<>>

SnippetChar == "\"" :> "&quot;" @@ "'" :> "&#39;" @@ ">" :> "&gt;" @@ "\n" :> " "
               @@ "<" :> "&lt;"

RECURSIVE Snippet(_, _)
Snippet(in, inside) ==
  LET tag == ValidTag(in, inside) IN
  CASE in = <<>> -> IF inside THEN <<"</b>">> ELSE <<>>
    [] in # <<>> /\ tag # <<>> ->
         <<tag[1]>> \o Snippet(SubSeq(in, tag[2] + 1, Len(in)),
                               IF tag[1] = "<br>" THEN inside ELSE ~inside)
    [] in # <<>> /\ tag = <<>> /\ in[1] = "&" ->
         <<IF Len(in) > 1 /\ in[2] = "{" THEN "&amp;" ELSE "&">> \o Snippet(Tail(in), inside)
    [] OTHER -> Each(<<in[1]>>, SnippetChar) \o Snippet(Tail(in), inside)
SnippetEscape(in) == Snippet(in, FALSE)

-----------------------------------------------------------------------------
(* Modifiers by name.                                                      *)

HtmlEscapeWithArg(in, arg) ==
  IF Len(arg) < 2 THEN HtmlEscape(in)
  ELSE CASE arg[2] = "s" -> SnippetEscape(in)
         [] arg[2] = "p" -> PreEscape(in)
         [] arg[2] = "a" -> CleanseAttribute(in)
         [] arg[2] = "u" -> HtmlEscape(ValidateUrl(in))
         [] OTHER -> HtmlEscape(in)

UrlEscapeWithArg(in, arg) ==
  IF Len(arg) < 2 THEN UrlQueryEscape(in)
  ELSE CASE arg[2] = "j" -> JavascriptEscape(ValidateUrl(in))
         [] arg[2] = "h" -> HtmlEscape(ValidateUrl(in))
         [] OTHER -> UrlQueryEscape(in)

\* The modifiers of g_modifiers by their short names, and an extension that was not
\* registered.  Of none of them is the value used but of "H" and "U".
Status == [h |-> "forbidden", H |-> "required", j |-> "forbidden", o |-> "forbidden",
           p |-> "forbidden", u |-> "forbidden", U |-> "required", c |-> "forbidden"]
          @@ "none" :> "forbidden" @@ "x-u" :> "unknown"

Modify(name, arg, in) ==
  CASE name = "h" -> HtmlEscape(in)
    [] name = "H" -> HtmlEscapeWithArg(in, arg)
    [] name = "j" -> JavascriptEscape(in)
    [] name = "o" -> JsonEscape(in)
    [] name = "p" -> PreEscape(in)
    [] name = "u" -> UrlQueryEscape(in)
    [] name = "U" -> UrlEscapeWithArg(in, arg)
    [] name = "c" -> CleanseCss(in)
    [] name \in {"none", "x-u"} -> NullModifier(in)
=============================================================================
