--------------------------- MODULE TemplateCache ---------------------------
(***************************************************************************)
(* Which text a page is made of: CWebViewTemplate's map of templates, over *)
(* ctemplate's cache of parse trees, over the files on disk.  Files are    *)
(* changed and removed while the process runs; their modification times    *)
(* are in seconds, so that two texts of a file may have the same.  What a  *)
(* tree is and how it is expanded is left to Templates.                    *)
(***************************************************************************)
EXTENDS Integers

CONSTANTS
  Filenames,     \* template files
  Situations,    \* what is on disk at first, and bounds: how often the files may be
                 \* changed, and the caches used
  NewTexts,      \* texts that are written over a file's
  Tree(_, _, _)  \* the tree of a file, stripped in a way, of the texts that the files
                 \* have: <<it>>, or <<>> if the text is not well formed

VARIABLES
  disk,    \* of each file its text and modification time: <<it>>, or <<>>
  clock,   \* the time, in seconds
  cache,   \* g_template_cache: the template of a file and a strip mode
  views,   \* CWebViewTemplate::g_TplMap: the cache's key by file name
  since,   \* history: what each file has been since the caches were reset
  ever,    \* history: what each file has ever been
  edits, loads  \* bounds: how often the files and the caches may still be changed

fileVars  == <<disk, clock, ever, edits>>
cacheVars == <<fileVars, since, cache, views, loads>>

Strips == {"DO_NOT_STRIP", "STRIP_BLANK_LINES", "STRIP_WHITESPACE"}
Keys   == Filenames \X Strips

\* A template: its state_, filename_mtime_, tree_, and the text that was parsed.
Template(state, mtime, tree, text) ==
  [state |-> state, mtime |-> mtime, tree |-> tree, text |-> text]
NoTemplate == Template("empty", 0, <<>>, <<>>)
InState(tpl, state) == Template(state, tpl.mtime, tpl.tree, tpl.text)

\* The texts of the files that are there.
TextsOf(files) == [f \in {g \in Filenames : files[g] # <<>>} |-> files[f][1].text]

-----------------------------------------------------------------------------
(* Loading.                                                                *)

\* A template that has no tree is loaded whatever its time.
NotNewer(tpl, f) == disk[f][1].mtime = tpl.mtime /\ tpl.tree # <<>>

\* The tree that AddSubnode() leaves: at once none, if the template is in error.
TreeNow(tpl, f, strip) ==
  IF tpl.state = "error" THEN <<>> ELSE Tree(f, strip, TextsOf(disk))

ReadyIf(tree) == IF tree # <<>> THEN "ready" ELSE "error"
WithTree(tpl, f, tree) ==
  Template(ReadyIf(tree), disk[f][1].mtime, tree,
           IF tpl.state = "error" THEN tpl.text ELSE disk[f][1].text)

ReloadIfChangedLocked(tpl, f, strip) ==
  IF disk[f] = <<>> THEN InState(tpl, ReadyIf(tpl.tree))
  ELSE IF NotNewer(tpl, f) THEN InState(tpl, "ready")
  ELSE WithTree(tpl, f, TreeNow(tpl, f, strip))

\* The template that GetTemplate() finds in a cache or makes.
Loaded(c, key) ==
  LET Reload(tpl) == ReloadIfChangedLocked(tpl, key[1], key[2])
      Fresh(tpl)  == IF tpl.state \in {"should_reload", "empty"} THEN Reload(tpl) ELSE tpl
  IN Fresh(IF key \in DOMAIN c THEN c[key] ELSE Reload(NoTemplate))

\* The cache after GetTemplate() of some keys.  A template that it has loaded it does
\* not load again, so that neither their order matters nor how often it is called.
GetTemplates(c, keys) ==
  [key \in DOMAIN c \cup keys |-> IF key \in keys THEN Loaded(c, key) ELSE c[key]]

-----------------------------------------------------------------------------
(* The pages.                                                              *)

Load == loads > 0 /\ loads' = loads - 1

\* CWebViewTemplate::GetTemplate(), which asks ctemplate once for each file name:
\* the key it has, or will have, and the cache after it.
Known(f)         == f \in DOMAIN views
KeyOf(f, strip)  == IF Known(f) THEN views[f] ELSE <<f, strip>>
Opened(f, strip) == IF Known(f) THEN cache ELSE GetTemplates(cache, {<<f, strip>>})

\* A page is expanded if its template is ready, and then asks for others.
UsePage(f, strip, asked) ==
  LET key    == KeyOf(f, strip)
      opened == Opened(f, strip)
      ready  == opened[key].state = "ready" IN
  /\ Load
  /\ asked # {} => ready
  /\ views' = IF ready THEN [g \in DOMAIN views \cup {f} |-> IF g = f THEN key ELSE views[g]]
                       ELSE views
  /\ cache' = GetTemplates(opened, asked)
  /\ UNCHANGED <<fileVars, since>>

ReloadIfChanged(key) ==
  /\ key \in DOMAIN cache /\ Load
  /\ cache' = [cache EXCEPT ![key] = ReloadIfChangedLocked(cache[key], key[1], key[2])]
  /\ UNCHANGED <<fileVars, since, views>>

\* What a reload may find from now on.
FromNow == [f \in Filenames |-> {disk[f]}]

MarkedOnce(tpl) == IF tpl.state = "error" THEN tpl ELSE InState(tpl, "should_reload")
Marked(tpl)     == InState(tpl, "should_reload")

ReloadAllIfChanged ==
  /\ Load
  /\ cache' = [key \in DOMAIN cache |-> Marked(cache[key])]
  /\ since' = FromNow
  /\ UNCHANGED <<fileVars, views>>

\* CWebViewTemplate::ClearCache()
ForgotViews == [f \in {} |-> f]
ClearCache ==
  /\ Load
  /\ cache' = [key \in {} |-> NoTemplate] /\ views' = ForgotViews
  /\ since' = FromNow
  /\ UNCHANGED fileVars

-----------------------------------------------------------------------------
(* The files.                                                              *)

Tick == clock' = clock + 1
SameSecond == clock' = clock

Becomes(f, file) ==
  /\ edits > 0 /\ edits' = edits - 1
  /\ disk' = [disk EXCEPT ![f] = file]
  /\ since' = [since EXCEPT ![f] = since[f] \cup {file}]
  /\ ever' = [ever EXCEPT ![f] = ever[f] \cup {file}]
  /\ UNCHANGED <<cache, views, loads>>

EditFile(f) ==
  /\ Tick \/ SameSecond
  /\ \E t \in NewTexts : Becomes(f, <<[text |-> t, mtime |-> clock']>>)

RemoveFile(f) ==
  /\ disk[f] # <<>> /\ Becomes(f, <<>>)
  /\ UNCHANGED clock

CacheInit(s) ==
  /\ disk = [f \in Filenames |-> <<[text |-> s.disk[f], mtime |-> 1]>>]
  /\ edits = s.edits /\ loads = s.loads
  /\ since = FromNow /\ ever = FromNow
  /\ clock = 1 /\ cache = [key \in {} |-> NoTemplate] /\ views = ForgotViews

CacheNext ==
  \/ \E f \in Filenames : EditFile(f) \/ RemoveFile(f)
  \/ \E f \in Filenames, strip \in Strips, asked \in SUBSET Keys : UsePage(f, strip, asked)
  \/ ReloadAllIfChanged \/ ClearCache
  \/ \E key \in Keys : ReloadIfChanged(key)

CacheSpec == (\E s \in Situations : CacheInit(s)) /\ [][CacheNext]_cacheVars

-----------------------------------------------------------------------------
(* Properties.                                                             *)

\* What the files may have been at one time: each what it was at some time.
Together(been) == {files \in [Filenames -> UNION {been[f] : f \in Filenames}] :
                     \A f \in Filenames : files[f] \in been[f]}

\* The template that a file name stands for is in the cache, and is of that file.
ViewsCached == \A f \in DOMAIN views : views[f] \in DOMAIN cache /\ views[f][1] = f

\* A page is made of a template in the cache.  A template that is ready has the tree of
\* a text that its file has had, the others it includes being as they have been; and if
\* the file was not away, it is as old as one the file has had since the caches were
\* last reset, so that only a change within one second is missed.  A template is refused
\* only if its file was away, or if there was no tree for what it was since then
\* (template.cc 1177-1217, 1522-1625; web_view.cpp 190-231).
FreshTemplates ==
  ViewsCached /\ \A key \in DOMAIN cache :
    LET f     == key[1]
        tpl   == cache[key]
        there == <<>> \notin since[f] IN
    /\ tpl.state = "ready" =>
         /\ \E files \in Together(ever) :
              /\ files[f] = <<[text |-> tpl.text, mtime |-> tpl.mtime]>>
              /\ tpl.tree = Tree(f, key[2], TextsOf(files))
         /\ there => \E b \in since[f] : b[1].mtime = tpl.mtime
    /\ tpl.state = "error" /\ there =>
         \E files \in Together(since) : Tree(f, key[2], TextsOf(files)) = <<>>
=============================================================================
