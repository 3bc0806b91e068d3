------------------------------ MODULE IdlKeywords ------------------------------
(***************************************************************************)
(* Renaming what is a keyword of the target language in an IDL definition:  *)
(* ModifyKeywords (compiler/go/Utils.go), which a compiler plugin calls with *)
(* a set and a function, and IDLDefinition.ReplaceKeywords, with a mapping.  *)
(* Both walk the definition and rename in place, through pointers: the       *)
(* ArgDefinition of a global or field is also its getter's return value and  *)
(* its setter's parameter when the API built it, a method made from a        *)
(* function has the function's arguments, and nothing is shared after JSON.  *)
(*                                                                         *)
(* Every plugin brings keywords and replacements of its own, and so does    *)
(* every call of ReplaceKeywords: they need not agree with one another.      *)
(***************************************************************************)
EXTENDS Integers, Sequences

CONSTANTS Names,      \* what may be a name or a type alias
          Given,      \* bound: those a definition starts with
          Modifying,  \* what the plugins give to ModifyKeywords, see Words
          Replacing,  \* the mappings given to ReplaceKeywords
          Owners      \* bound: what a definition may consist of beside its class

\* A set of keywords and modifyKeyword, or a mapping: its keys and its values.
Words == [keywords : SUBSET Names, modify : [Names -> Names]]

\* What replaces a keyword is none: modifyKeyword appends an underscore, say.
ASSUME WordsAssumption ==
  /\ Given \subseteq Names
  /\ Modifying \subseteq Words /\ Replacing \subseteq Words
  /\ \A w \in Modifying \cup Replacing : \A n \in w.keywords : w.modify[n] \notin w.keywords

Callables == {"getter", "setter", "function", "fgetter", "fsetter",
              "constructor", "method", "releaser"}
Arguments == Callables \X {"parameter", "return"}
Variables == {<<"global", "self">>, <<"field", "self">>}
Named == (Callables \X {"self"}) \cup Arguments \cup Variables \cup {<<"class", "self">>}
Aliased == Arguments \cup Variables
Strings == (Named \X {"name"}) \cup (Aliased \X {"alias"})

VARIABLES
  owners,  \* what the definition consists of
  shared,  \* was it built by the API (or read from JSON)?
  val,     \* the strings, by object and field
  before,  \* ghost: what they were before the last pass
  last     \* ghost: the last pass, and with which words

vars == <<owners, shared, val, before, last>>

NoPass == [pass |-> "none", words |-> [keywords |-> {}, modify |-> << >>]]

\* Which object a place of the definition points to.
Object(w) ==
  IF ~shared THEN w
  ELSE IF w \in {<<"getter", "return">>, <<"setter", "parameter">>} THEN <<"global", "self">>
  ELSE IF w \in {<<"fgetter", "return">>, <<"fsetter", "parameter">>} THEN <<"field", "self">>
  ELSE IF w[1] = "method" /\ w[2] # "self" /\ "function" \in owners THEN <<"function", w[2]>>
  ELSE w
String(s) == <<Object(s[1]), s[2]>>
Present == {s \in Strings : s[1][1] \in owners}
Cells == {String(s) : s \in Present}

Init ==
  /\ owners \in {{"class"} \cup o : o \in Owners}
  /\ shared \in BOOLEAN
  /\ val \in [Cells -> Given]
  /\ before = val /\ last = NoPass
------------------------------------------------------------------------------
\* Where a pass reads a string and writes the replacement.
Site(w, part) == [from |-> <<w, part>>, to |-> <<w, part>>]
NameSite(o) == Site(<<o, "self">>, "name")
ArgSites(o) ==
  <<Site(<<o, "parameter">>, "name"), Site(<<o, "parameter">>, "alias"),
    Site(<<o, "return">>, "name"), Site(<<o, "return">>, "alias")>>
CallableSites(o) == <<NameSite(o)>> \o ArgSites(o)
ArgNames(o) == <<Site(<<o, "parameter">>, "name"), Site(<<o, "return">>, "name")>>
CallableNames(o) == <<NameSite(o)>> \o ArgNames(o)

\* Mutants: the releaser and the type aliases of constructors are forgotten.
ModifySites_NoReleaser ==
  <<NameSite("global")>> \o CallableSites("getter") \o CallableSites("setter")
  \o CallableSites("function") \o <<NameSite("class")>>
  \o CallableSites("fgetter") \o CallableSites("fsetter")
  \o CallableSites("constructor") \o CallableSites("method")

ModifySites_NoAlias ==
  <<NameSite("global")>> \o CallableSites("getter") \o CallableSites("setter")
  \o CallableSites("function") \o <<NameSite("class")>>
  \o CallableSites("fgetter") \o CallableSites("fsetter")
  \o CallableNames("constructor") \o CallableSites("method")
  \o CallableSites("releaser")

\* A field is renamed only where it is its getter's or setter's argument.
ModifySites ==
  <<NameSite("global")>> \o CallableSites("getter") \o CallableSites("setter")
  \o CallableSites("function") \o <<NameSite("class")>>
  \o CallableSites("fgetter") \o CallableSites("fsetter")
  \o CallableSites("constructor") \o CallableSites("method")
  \o CallableSites("releaser")

\* No type alias, constructor or releaser; and a global is given the
\* replacement of its setter's name.
SetterSite == [from |-> <<<<"setter", "self">>, "name">>,
               to |-> <<<<"global", "self">>, "name">>]
ReplaceSites ==
  <<NameSite("global")>> \o CallableNames("getter") \o <<SetterSite>> \o ArgNames("setter")
  \o CallableNames("function") \o <<NameSite("class"), NameSite("field")>>
  \o CallableNames("fgetter") \o CallableNames("fsetter") \o CallableNames("method")

\* One of the places a pass visits; places the definition lacks are skipped.
Rename_Always(w, v, site) ==    \* mutant: without looking whether it is a keyword
  IF site.from \in Present
  THEN [v EXCEPT ![String(site.to)] = w.modify[v[String(site.from)]]] ELSE v

Rename(w, v, site) ==
  IF site.from \in Present /\ v[String(site.from)] \in w.keywords
  THEN [v EXCEPT ![String(site.to)] = w.modify[v[String(site.from)]]] ELSE v

\* A pass visits one site after the other.
PassOver(w, v, sites) ==
  LET after[i \in 0 .. Len(sites)] == IF i = 0 THEN v ELSE Rename(w, after[i - 1], sites[i])
  IN after[Len(sites)]

Modify(w) ==
  /\ val' = PassOver(w, val, ModifySites)
  /\ before' = val /\ last' = [pass |-> "modify", words |-> w]
  /\ UNCHANGED <<owners, shared>>

Replace(w) ==
  /\ val' = PassOver(w, val, ReplaceSites)
  /\ before' = val /\ last' = [pass |-> "replace", words |-> w]
  /\ UNCHANGED <<owners, shared>>

Next == \/ \E w \in Modifying : Modify(w)
        \/ \E w \in Replacing : Replace(w)
Spec == Init /\ [][Next]_vars
------------------------------------------------------------------------------
Now(s) == val[String(s)]
Before(s) == before[String(s)]
NamesIn(places) == {s \in Present : s[1] \in places /\ s[2] = "name"}

(***************************************************************************)
(* Utils.go:17-18: the definition is left without "names of functions,      *)
(* methods, classes, arguments and return values that equals to keywords",  *)
(* wherever in it they are and whoever else points to them: whatever other  *)
(* plugins and mappings were there before, no keyword of the plugin that    *)
(* was last is a name.                                                      *)
(***************************************************************************)
NoKeywordLeft ==
  last.pass = "modify" =>
    \A s \in NamesIn(Named \ {<<"field", "self">>}) : Now(s) \notin last.words.keywords

(***************************************************************************)
(* ModifyKeywords breaks no reference: an argument whose type alias named   *)
(* the class before the pass names it after the pass, and in general        *)
(* strings that were equal are equal, though one was met through several    *)
(* pointers and another through one, and whatever earlier passes with other *)
(* words made of them.  (ReplaceKeywords does break references: it visits   *)
(* neither type aliases nor constructors nor releasers.)                    *)
(***************************************************************************)
ReferencesKept ==
  last.pass = "modify" =>
    \A s, t \in {u \in Present : u[1] \notin Variables} :
      Before(s) = Before(t) => Now(s) = Now(t)

\* A plugin may rename again what was renamed: the same pass twice, with the
\* same words, changes nothing the second time.
Idempotent == [][last' = last => val' = val]_vars

(***************************************************************************)
(* IDLDefinition.go:202: "in case a name is a keyword, it must be replaced" *)
(* - each one, and nothing else.                                            *)
(***************************************************************************)
KeywordsReplaced ==
  last.pass = "replace" =>
    \A s \in NamesIn(Named) :
      Now(s) = IF Before(s) \in last.words.keywords THEN last.words.modify[Before(s)] ELSE Before(s)
==============================================================================
