------------------------ MODULE TemplateDictionary ------------------------
(***************************************************************************)
(* ctemplate's TemplateDictionary, and CWebViewDict around it: the tree of *)
(* dictionaries that a template is expanded with.  A dictionary has values *)
(* of variables, and under a name of a section or of an include marker a   *)
(* list of sub-dictionaries.  A lookup goes from a dictionary to those it  *)
(* is a section of, then to the values global to the template, then to     *)
(* those global to the program.                                            *)
(*                                                                         *)
(* Dictionaries are numbered as they are made; 1 is the page's own.        *)
(***************************************************************************)
EXTENDS Integers, Sequences, FiniteSets, SequencesExt, TLC

CONSTANTS
  Variables, Sections, Includes,  \* names of markers
  Values,                         \* values that are set
  MaxDicts                        \* bound: dictionaries

ASSUME DictionaryAssumption == MaxDicts \in Nat \ {0} /\ <<>> \in Values

VARIABLES
  dicts,   \* the dictionaries
  global,  \* TemplateDictionary::global_dict_
  copies   \* history: the calls of MakeCopy(), with the numbers of what they made

dictVars == <<dicts, global, copies>>

Empty == <<>>   \* the function without arguments
Put(f, name, value) == (name :> value) @@ f

\* parent_dict_ and the owner of template_global_dict_ are numbers; 0 is NULL.
\* No file name is "".
Dictionary(parent, owner) ==
  [parent |-> parent, owner |-> owner, variables |-> Empty, templateGlobals |-> Empty,
   sections |-> Empty, includes |-> Empty, filename |-> ""]

BuiltIns == "b" :> <<" ">>

Dicts == DOMAIN dicts
New   == Len(dicts) + 1

\* is_rootlevel_template(): it owns its template_global_dict_.
Roots == {d \in Dicts : dicts[d].owner = d}

\* The dictionaries that the application has: what is below a copy is given to
\* nobody.
Held == Dicts \ UNION {(c.copy + 1)..c.last : c \in copies}

-----------------------------------------------------------------------------
(* Lookups, in the dictionaries ds.                                        *)

\* What a dictionary itself has under a name: <<it>>, or <<>>.
NearestOwn(ds, d, map, name) ==
  IF d # 0 /\ name \in DOMAIN ds[d][map] THEN <<ds[d][map][name]>> ELSE <<>>

\* What the nearest has, from d by way of its parents.
RECURSIVE Nearest(_, _, _, _)
Nearest(ds, d, map, name) ==
  IF d = 0 \/ NearestOwn(ds, d, map, name) # <<>> THEN NearestOwn(ds, d, map, name)
  ELSE Nearest(ds, ds[d].parent, map, name)

GetSectionValue(ds, d, name) ==
  LET near == Nearest(ds, d, "variables", name)
      tops == ds[ds[d].owner].templateGlobals IN
  IF near # <<>> THEN near[1]
  ELSE IF name \in DOMAIN tops THEN tops[name]
  ELSE IF name \in DOMAIN global THEN global[name] ELSE <<>>

IsHiddenSection(ds, d, name)  == Nearest(ds, d, "sections", name) = <<>>
GetDictionaries(ds, d, name)  == Nearest(ds, d, "sections", name)[1]
IsHiddenTemplate(ds, d, name) == Nearest(ds, d, "includes", name) = <<>>
GetTemplateDictionaries(ds, d, name) == Nearest(ds, d, "includes", name)[1]
GetIncludeTemplateName(ds, sub) == ds[sub].filename

-----------------------------------------------------------------------------
(* Changes.                                                                *)

\* A sub-dictionary is added to those of a name; a section's looks further in
\* its parent, an include's does not.
AddTo(ds, d, map, name, parent) ==
  LET n == Len(ds) + 1
      before == IF name \in DOMAIN ds[d][map] THEN ds[d][map][name] ELSE <<>> IN
  Append([ds EXCEPT ![d][map] = Put(@, name, Append(before, n))],
         Dictionary(parent, ds[d].owner))

SectionParent(d) == d
IncludeParent(d) == 0

Changed(ds) == dicts' = ds /\ UNCHANGED copies

\* SetIntValue() and the other variants compute the value they set.
SetValue(d, name, value) ==
  Changed([dicts EXCEPT ![d].variables = Put(@, name, value)]) /\ UNCHANGED global

SetTemplateGlobalValue(d, name, value) ==
  /\ Changed([dicts EXCEPT ![dicts[d].owner].templateGlobals = Put(@, name, value)])
  /\ UNCHANGED global

SetGlobalValue(name, value) ==
  global' = Put(global, name, value) /\ UNCHANGED <<dicts, copies>>

AddSectionDictionary(d, name) ==
  /\ New <= MaxDicts
  /\ Changed(AddTo(dicts, d, "sections", name, SectionParent(d))) /\ UNCHANGED global

\* Once is enough to show a section.
ShowsAlready(d, name) == name \in DOMAIN dicts[d].sections
ShowSection(d, name) ==
  /\ New <= MaxDicts
  /\ IF ShowsAlready(d, name) THEN UNCHANGED <<dicts, copies>>
       ELSE Changed(AddTo(dicts, d, "sections", name, SectionParent(d)))
  /\ UNCHANGED global

SetValueAndShowSection(d, variable, value, name) ==
  /\ New <= MaxDicts
  /\ IF value = <<>> THEN UNCHANGED <<dicts, copies>>
       ELSE Changed([AddTo(dicts, d, "sections", name, SectionParent(d))
                       EXCEPT ![New].variables = Put(@, variable, value)])
  /\ UNCHANGED global

AddIncludeDictionary(d, name) ==
  /\ New <= MaxDicts
  /\ Changed(AddTo(dicts, d, "includes", name, IncludeParent(d))) /\ UNCHANGED global

SetFilename(d, file) ==
  Changed([dicts EXCEPT ![d].filename = file]) /\ UNCHANGED global

-----------------------------------------------------------------------------
(* MakeCopy().                                                             *)

\* A copy of a root has what is global to the template for itself; any other is
\* made with the original's parent_dict_ and template_global_dict_.
CopyOf(ds, d) ==
  IF ds[d].owner = d THEN [ds[d] EXCEPT !.owner = Len(ds) + 1] ELSE ds[d]

\* The sub-dictionaries of d, as <<map, name, number>>, in order.
SubsIn(ds, d, map) ==
  FlattenSeq(SetToSeq({[k \in DOMAIN ds[d][map][name] |-> <<map, name, ds[d][map][name][k]>>]
                       : name \in DOMAIN ds[d][map]}))
Subs(ds, d) == SubsIn(ds, d, "sections") \o SubsIn(ds, d, "includes")

\* ds with a copy of d at its end, without what is below it and with it.
ShallowCopy(ds, d) == Append(ds, CopyOf(ds, d))
RECURSIVE InternalMakeCopy(_, _)
InternalMakeCopy(ds, d) ==
  LET n    == Len(ds) + 1
      bare == [CopyOf(ds, d) EXCEPT !.sections = [s \in DOMAIN @ |-> <<>>],
                                    !.includes = [i \in DOMAIN @ |-> <<>>]]
      Sub(acc, sub) ==
        [InternalMakeCopy(acc, sub[3])
           EXCEPT ![n][sub[1]] = Put(@, sub[2], Append(@[sub[2]], Len(acc) + 1))]
  IN FoldLeft(Sub, Append(ds, bare), Subs(ds, d))

\* What a root was copied from, and what that was copied from.
Sources(d) == UNION {c.from : c \in {c \in copies : c.copy = d}}

\* NULL for a section's and an include's.
MakeCopy(d) ==
  LET ds == InternalMakeCopy(dicts, d) IN
  /\ d \in Roots /\ Len(ds) <= MaxDicts
  /\ dicts' = ds
  /\ copies' = copies \cup {[of |-> d, copy |-> New, last |-> Len(ds),
                             from |-> {d} \cup Sources(d)]}
  /\ UNCHANGED global

-----------------------------------------------------------------------------
\* A page's dictionary, to which some have been added before.
DictInit(filled) ==
  /\ dicts = filled
  /\ global = BuiltIns
  /\ copies = {}

DictNext ==
  \/ \E d \in Held, v \in Variables, value \in Values :
       \/ SetValue(d, v, value)
       \/ SetTemplateGlobalValue(d, v, value)
       \/ \E s \in Sections : SetValueAndShowSection(d, v, value, s)
  \/ \E v \in Variables, value \in Values : SetGlobalValue(v, value)
  \/ \E d \in Held, s \in Sections : AddSectionDictionary(d, s) \/ ShowSection(d, s)
  \/ \E d \in Held, i \in Includes : AddIncludeDictionary(d, i)
  \/ \E d \in Held : MakeCopy(d)
-----------------------------------------------------------------------------
\* Every variable has its type: the dictionaries are trees, and the number of a
\* sub-dictionary is above its owner's and its parent's
\* (template_dictionary.cc 144-180, 483-572).
DictTypeOK ==
  /\ Len(dicts) \in 1..MaxDicts
  /\ \A d \in Dicts :
       /\ dicts[d].parent \in 0..(d - 1) /\ dicts[d].owner \in 1..d
       /\ DOMAIN dicts[d].variables \subseteq Variables
       /\ DOMAIN dicts[d].sections \subseteq Sections
       /\ DOMAIN dicts[d].includes \subseteq Includes
       /\ \A k \in 1..Len(Subs(dicts, d)) : Subs(dicts, d)[k][3] \in (d + 1)..Len(dicts)
  /\ \A c \in copies :
       {c.of, c.copy} \subseteq Roots /\ c.last \in c.copy..Len(dicts)
=============================================================================
