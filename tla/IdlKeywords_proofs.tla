-------------------------- MODULE IdlKeywords_proofs --------------------------
(***************************************************************************)
(* Renaming keywords, for any keywords, any names, any composition of a     *)
(* definition and any sequence of passes.  A pass is a fold over the sites  *)
(* it visits: what a site did stays done while the others are visited, so   *)
(* that after a pass all its sites are, and another one changes nothing.    *)
(***************************************************************************)
EXTENDS IdlKeywords, WellFoundedInduction, TLAPS

(***************************************************************************)
(* Induction over the natural numbers, on a set instead of a predicate.     *)
(***************************************************************************)
Less == {ss \in Nat \X Nat : ss[1] < ss[2]}

\* The order of the natural numbers is well-founded.
LEMMA LessWF == IsWellFoundedOn(Less, Nat)
  BY NatLessThanWellFounded, Zenon DEF OpToRel, Less

\* A set that has 0, and with each number the next, has them all: the least
\* number it lacks would have a predecessor in it.
LEMMA Induction ==
  ASSUME NEW S, 0 \in S, \A n \in Nat : n \in S => n + 1 \in S
  PROVE  Nat \subseteq S
<1>1. SUFFICES ASSUME Nat \ S # {} PROVE FALSE
  OBVIOUS
<1>2. PICK n \in Nat \ S : \A m \in Nat \ S : ~ (<<m, n>> \in Less)
  BY <1>1, LessWF, WFMin
<1>3. n # 0 /\ n - 1 \in Nat /\ n - 1 + 1 = n
  BY SMT
<1>4. <<n - 1, n>> \in Less
  BY <1>3, SMT DEF Less
<1> QED
  BY <1>2, <1>3, <1>4

(***************************************************************************)
(* Words whose replacements are no keywords of theirs.                      *)
(***************************************************************************)
ProperWords == {m \in Words : \A n \in m.keywords : m.modify[n] \notin m.keywords}

LEMMA WordsProper == Modifying \subseteq ProperWords /\ Replacing \subseteq ProperWords
  BY WordsAssumption DEF ProperWords

\* What the definition of a pass takes for its steps: a function on indexes.
Iterates(g, m, v, s, n) ==
  g = [i \in 0 .. n |-> IF i = 0 THEN v ELSE Rename(m, g[i - 1], s[i])]

\* There is one for every length: the next has one more step.
LEMMA IterationExists ==
  ASSUME NEW m, NEW v, NEW s
  PROVE  \A n \in Nat : \E g : Iterates(g, m, v, s, n)
<1> DEFINE There == {n \in Nat : \E g : Iterates(g, m, v, s, n)}
<1>1. 0 \in There
  <2>1. \A i \in 0 .. 0 : i = 0
    BY SMT
  <2>2. Iterates([i \in 0 .. 0 |-> v], m, v, s, 0)
    BY <2>1 DEF Iterates
  <2> QED
    BY <2>2
<1>2. ASSUME NEW n \in Nat, n \in There PROVE n + 1 \in There
  <2>1. PICK g : Iterates(g, m, v, s, n)
    BY <1>2
  <2> DEFINE h == [i \in 0 .. n + 1 |-> IF i = n + 1 THEN Rename(m, g[n], s[n + 1]) ELSE g[i]]
             k == [i \in 0 .. n + 1 |-> IF i = 0 THEN v ELSE Rename(m, h[i - 1], s[i])]
  <2>2. ASSUME NEW i \in 0 .. n + 1 PROVE h[i] = k[i]
    <3>1. CASE i = n + 1
      <4>1. i # 0 /\ i - 1 = n /\ n \in 0 .. n + 1 /\ n # n + 1
        BY <3>1, SMT
      <4> QED
        BY <3>1, <4>1
    <3>2. CASE i # n + 1
      <4>1. i \in 0 .. n /\ (i # 0 => i - 1 \in 0 .. n + 1 /\ i - 1 # n + 1)
        BY <3>2, SMT
      <4>2. g[i] = IF i = 0 THEN v ELSE Rename(m, g[i - 1], s[i])
        BY <2>1, <4>1 DEF Iterates
      <4> QED
        BY <3>2, <4>1, <4>2
    <3> QED
      BY <3>1, <3>2
  <2>3. h = k
    BY <2>2
  <2>4. Iterates(h, m, v, s, n + 1)
    BY <2>3 DEF Iterates
  <2> QED
    BY <2>4
<1> HIDE DEF There
<1>3. Nat \subseteq There
  BY <1>1, <1>2, Induction
<1> QED
  BY <1>3 DEF There

Steps(f, m, v, s, n) == /\ f[0] = v
                        /\ \A i \in 1 .. n : f[i] = Rename(m, f[i - 1], s[i])
                        /\ PassOver(m, v, s) = f[n]

\* A pass is what its steps, one after the other, make of the strings.
LEMMA PassSteps ==
  ASSUME NEW m, NEW v, NEW s, NEW n \in Nat, Len(s) = n
  PROVE  \E f : Steps(f, m, v, s, n)
<1> DEFINE g == CHOOSE g : Iterates(g, m, v, s, n)
<1>1. Iterates(g, m, v, s, n)
  BY IterationExists
<1>2. PassOver(m, v, s) = g[n]
  BY DEF PassOver, Iterates
<1> HIDE DEF g
<1>3. 0 \in 0 .. n /\ \A i \in 1 .. n : i \in 0 .. n /\ i # 0
  BY SMT
<1>4. g[0] = v /\ \A i \in 1 .. n : g[i] = Rename(m, g[i - 1], s[i])
  BY <1>1, <1>3 DEF Iterates
<1> QED
  BY <1>2, <1>4 DEF Steps

------------------------------------------------------------------------------
(***************************************************************************)
(* Which sites the passes visit.                                            *)
(***************************************************************************)
Sites == [from : Strings, to : Strings]
Visited(sites) == {sites[i] : i \in DOMAIN sites}
Visits(sites, S) == sites \in Seq(Sites) /\ Visited(sites) = S

\* Sites one after the other are the sites of both.
LEMMA Concatenated ==
  ASSUME NEW a, NEW A, NEW b, NEW B, Visits(a, A), Visits(b, B)
  PROVE  Visits(a \o b, A \cup B)
<1>0. /\ a \in Seq(Sites) /\ b \in Seq(Sites)
      /\ Visited(a) = A /\ Visited(b) = B
  BY DEF Visits
<1>1. a \o b \in Seq(Sites) /\ Len(a \o b) = Len(a) + Len(b)
  BY <1>0
<1>2. \A i \in 1 .. Len(a) : (a \o b)[i] = a[i] /\ i \in 1 .. Len(a \o b)
  BY <1>0, <1>1
<1>3. \A i \in 1 .. Len(b) : (a \o b)[Len(a) + i] = b[i] /\ Len(a) + i \in 1 .. Len(a \o b)
  BY <1>0, <1>1
<1>4. \A i \in 1 .. Len(a \o b) :
        i \in 1 .. Len(a) \/ (i - Len(a) \in 1 .. Len(b) /\ i = Len(a) + (i - Len(a)))
  BY <1>0, <1>1, SMT
<1>5. /\ DOMAIN a = 1 .. Len(a) /\ DOMAIN b = 1 .. Len(b)
      /\ DOMAIN (a \o b) = 1 .. Len(a \o b)
  BY <1>0, <1>1
<1>6. Visited(a) \cup Visited(b) \subseteq Visited(a \o b)
  BY <1>2, <1>3, <1>5 DEF Visited
<1>7. Visited(a \o b) \subseteq Visited(a) \cup Visited(b)
  <2>1. SUFFICES ASSUME NEW i \in 1 .. Len(a \o b)
                 PROVE  (a \o b)[i] \in Visited(a) \cup Visited(b)
    BY <1>5 DEF Visited
  <2>2. CASE i \in 1 .. Len(a)
    BY <2>2, <1>2, <1>5 DEF Visited
  <2>3. CASE i - Len(a) \in 1 .. Len(b) /\ i = Len(a) + (i - Len(a))
    <3>1. (a \o b)[i] = b[i - Len(a)]
      BY <2>3, <1>3
    <3> QED
      BY <3>1, <2>3, <1>5 DEF Visited
  <2> QED
    BY <1>4, <2>2, <2>3
<1> QED
  BY <1>0, <1>1, <1>6, <1>7 DEF Visits

\* Sites given one by one.
LEMMA Listed ==
  ASSUME NEW a \in Sites, NEW b \in Sites, NEW c \in Sites, NEW d \in Sites
  PROVE  /\ Visits(<<a>>, {a}) /\ Visits(<<a, b>>, {a, b})
         /\ Visits(<<a, b, c, d>>, {a, b, c, d})
  BY DEF Visits, Visited

\* The sites of one callable.
SitesOf(o, fields) == {Site(<<o, p>>, f) : p \in {"parameter", "return"}, f \in fields}
WholeOf(o, fields) == {NameSite(o)} \cup SitesOf(o, fields)

\* The sites the lists of one callable name.
LEMMA OfCallable ==
  ASSUME NEW o \in Callables
  PROVE  /\ Visits(CallableSites(o), WholeOf(o, {"name", "alias"}))
         /\ Visits(ArgNames(o), SitesOf(o, {"name"}))
         /\ Visits(CallableNames(o), WholeOf(o, {"name"}))
<1> DEFINE a == Site(<<o, "parameter">>, "name")
           b == Site(<<o, "parameter">>, "alias")
           c == Site(<<o, "return">>, "name")
           d == Site(<<o, "return">>, "alias")
<1>1. /\ NameSite(o) \in Sites
      /\ a \in Sites /\ b \in Sites /\ c \in Sites /\ d \in Sites
  BY DEF NameSite, Site, Sites, Strings, Named, Aliased, Arguments
<1>2. SitesOf(o, {"name", "alias"}) = {a, b, c, d} /\ SitesOf(o, {"name"}) = {a, c}
  BY DEF SitesOf
<1>3. ArgSites(o) = <<a, b, c, d>> /\ ArgNames(o) = <<a, c>>
  BY DEF ArgSites, ArgNames
<1> HIDE DEF a, b, c, d
<1>4. /\ Visits(ArgSites(o), {a, b, c, d}) /\ Visits(ArgNames(o), {a, c})
      /\ Visits(<<NameSite(o)>>, {NameSite(o)})
  <2>1. Visits(<<a, b, c, d>>, {a, b, c, d}) /\ Visits(<<a, c>>, {a, c})
    BY <1>1, Listed
  <2>2. Visits(<<NameSite(o)>>, {NameSite(o)})
    BY <1>1, Listed
  <2> QED
    BY <1>3, <2>1, <2>2
<1>5. Visits(CallableSites(o), {NameSite(o)} \cup {a, b, c, d})
  BY <1>4, Concatenated DEF CallableSites
<1>6. Visits(CallableNames(o), {NameSite(o)} \cup {a, c})
  BY <1>4, Concatenated DEF CallableNames
<1> QED
  BY <1>2, <1>4, <1>5, <1>6 DEF WholeOf

\* Single names between the callables.
LEMMA OfNames ==
  /\ Visits(<<NameSite("global")>>, {NameSite("global")})
  /\ Visits(<<NameSite("class")>>, {NameSite("class")})
  /\ Visits(<<NameSite("class"), NameSite("field")>>, {NameSite("class"), NameSite("field")})
  /\ Visits(<<SetterSite>>, {SetterSite})
<1>1. /\ NameSite("global") \in Sites /\ NameSite("class") \in Sites
      /\ NameSite("field") \in Sites /\ SetterSite \in Sites
  BY DEF NameSite, SetterSite, Site, Sites, Strings, Named, Callables, Variables, Aliased
<1> QED
  BY <1>1, Listed

\* Where ModifyKeywords and ReplaceKeywords look.
ModifyVisits == {NameSite("global"), NameSite("class")}
                \cup UNION {WholeOf(o, {"name", "alias"}) : o \in Callables}
ReplacedWhole == {"getter", "function", "fgetter", "fsetter", "method"}
ReplaceVisits == {NameSite("global"), NameSite("class"), NameSite("field"), SetterSite}
                 \cup SitesOf("setter", {"name"})
                 \cup UNION {WholeOf(o, {"name"}) : o \in ReplacedWhole}

\* ModifySites lists what ModifyKeywords visits.
LEMMA ModifyIs == Visits(ModifySites, ModifyVisits)
<1> DEFINE V(o) == WholeOf(o, {"name", "alias"})
           S == {NameSite("global")} \cup V("getter") \cup V("setter") \cup V("function")
                \cup {NameSite("class")} \cup V("fgetter") \cup V("fsetter")
                \cup V("constructor") \cup V("method") \cup V("releaser")
<1>1. Callables = {"getter", "setter", "function", "fgetter", "fsetter",
                   "constructor", "method", "releaser"}
  BY DEF Callables
<1>2. \A o \in Callables : Visits(CallableSites(o), V(o))
  BY OfCallable
<1> HIDE DEF V
<1>3. ModifyVisits = S
  BY <1>1 DEF ModifyVisits, V
<1>4. Visits(ModifySites, S)
  BY <1>1, <1>2, OfNames, Concatenated DEF ModifySites
<1> QED
  BY <1>3, <1>4

\* ReplaceSites lists what ReplaceKeywords visits.
LEMMA ReplaceIs == Visits(ReplaceSites, ReplaceVisits)
<1> DEFINE V(o) == WholeOf(o, {"name"})
           S == {NameSite("global")} \cup V("getter") \cup {SetterSite}
                \cup SitesOf("setter", {"name"}) \cup V("function")
                \cup {NameSite("class"), NameSite("field")} \cup V("fgetter")
                \cup V("fsetter") \cup V("method")
<1>1. ReplacedWhole = {"getter", "function", "fgetter", "fsetter", "method"}
  BY DEF ReplacedWhole
<1>2. /\ \A o \in ReplacedWhole : Visits(CallableNames(o), V(o))
      /\ Visits(ArgNames("setter"), SitesOf("setter", {"name"}))
  BY OfCallable DEF ReplacedWhole, Callables
<1> HIDE DEF V
<1>3. ReplaceVisits = S
  BY <1>1 DEF ReplaceVisits, V
<1>4. Visits(ReplaceSites, S)
  BY <1>1, <1>2, OfNames, Concatenated DEF ReplaceSites
<1> QED
  BY <1>3, <1>4

------------------------------------------------------------------------------
(***************************************************************************)
(* One site.  A site is plain if it writes where it reads; the setter's is  *)
(* not.  A site is done if visiting it changes nothing.                     *)
(***************************************************************************)
Values == [Cells -> Names]
Global == <<<<"global", "self">>, "name">>
PlainSite(t) == t.from = t.to
Known(t) == t \in Sites /\ (PlainSite(t) \/ t = SetterSite)
Done(m, v, t) == Rename(m, v, t) = v

\* A replaced name is not a keyword.
LEMMA ReplacedIsNone ==
  ASSUME NEW m \in ProperWords, NEW n \in m.keywords
  PROVE  n \in Names /\ m.modify[n] \in Names /\ m.modify[n] \notin m.keywords /\ m.modify[n] # n
  BY DEF ProperWords, Words

\* Every pass visits sites of these two sorts.
LEMMA SitesKnown ==
  /\ \A t \in ModifyVisits : t \in Sites /\ PlainSite(t)
  /\ \A t \in ReplaceVisits : Known(t)
<1>1. \A o, f : \A t \in SitesOf(o, f) : PlainSite(t)
  BY DEF SitesOf, Site, PlainSite
<1>2. \A o : PlainSite(NameSite(o))
  BY DEF NameSite, Site, PlainSite
<1>3. ModifyVisits \subseteq Sites /\ ReplaceVisits \subseteq Sites
  <2>1. \A s, S : Visits(s, S) => S \subseteq Sites
    BY DEF Visits, Visited
  <2> QED
    BY <2>1, ModifyIs, ReplaceIs
<1>4. \A o, f : \A t \in WholeOf(o, f) : PlainSite(t)
  BY <1>1, <1>2 DEF WholeOf
<1>5. \A t \in ModifyVisits : PlainSite(t)
  BY <1>2, <1>4 DEF ModifyVisits
<1>6. \A t \in ReplaceVisits : PlainSite(t) \/ t = SetterSite
  BY <1>1, <1>2, <1>4 DEF ReplaceVisits
<1> QED
  BY <1>3, <1>5, <1>6 DEF Known

\* The setter's name is in nobody else's object.
LEMMA SetterAlone ==
  /\ String(SetterSite.from) = SetterSite.from
  /\ String(SetterSite.to) = Global /\ SetterSite.to = Global
  /\ \A t \in Sites : PlainSite(t) /\ String(t.to) = SetterSite.from => t.to = SetterSite.from
<1>1. /\ SetterSite.from = <<<<"setter", "self">>, "name">> /\ SetterSite.to = Global
  BY DEF SetterSite, Global
<1>2. Object(<<"setter", "self">>) = <<"setter", "self">>
  BY DEF Object
<1>3. Object(<<"global", "self">>) = <<"global", "self">>
  BY DEF Object
<1>4. \A w : Object(w) = <<"setter", "self">> => w = <<"setter", "self">>
  BY DEF Object
<1>5. \A s \in Strings : s = <<s[1], s[2]>>
  BY DEF Strings
<1>6. \A s : String(s) = <<Object(s[1]), s[2]>>
  BY DEF String
<1>7. ASSUME NEW s \in Strings, String(s) = SetterSite.from PROVE s = SetterSite.from
  BY <1>1, <1>4, <1>5, <1>6, <1>7
<1>8. /\ String(<<<<"setter", "self">>, "name">>) = <<Object(<<"setter", "self">>), "name">>
      /\ String(<<<<"global", "self">>, "name">>) = <<Object(<<"global", "self">>), "name">>
  BY DEF String
<1> QED
  BY <1>1, <1>2, <1>3, <1>7, <1>8 DEF Sites, Global

\* What a site that is present and holds a keyword does; another does nothing.
LEMMA RenameIs ==
  ASSUME NEW m, NEW v, NEW t
  PROVE  /\ ~(t.from \in Present /\ v[String(t.from)] \in m.keywords) => Rename(m, v, t) = v
         /\ t.from \in Present /\ v[String(t.from)] \in m.keywords =>
              Rename(m, v, t) = [v EXCEPT ![String(t.to)] = m.modify[v[String(t.from)]]]
  BY DEF Rename

\* A site writes one string, and what it writes is no keyword.
LEMMA RenameTyped ==
  ASSUME NEW m \in ProperWords, NEW v \in Values, NEW t \in Sites
  PROVE  /\ Rename(m, v, t) \in Values
         /\ \A c \in Cells : Rename(m, v, t)[c] = v[c] \/ Rename(m, v, t)[c] \notin m.keywords
         /\ \A c \in Cells : c # String(t.to) => Rename(m, v, t)[c] = v[c]
<1>1. CASE t.from \in Present /\ v[String(t.from)] \in m.keywords
  <2>1. String(t.from) \in Cells
    BY <1>1 DEF Cells
  <2>2. v[String(t.from)] \in Names
    BY <2>1 DEF Values
  <2>3. m.modify[v[String(t.from)]] \in Names /\ m.modify[v[String(t.from)]] \notin m.keywords
    BY <1>1, <2>2, ReplacedIsNone
  <2>4. Rename(m, v, t) = [v EXCEPT ![String(t.to)] = m.modify[v[String(t.from)]]]
    BY <1>1, RenameIs
  <2> QED
    BY <2>3, <2>4 DEF Values
<1> QED
  BY <1>1, RenameIs

\* A plain site is done when there is no keyword in its place.
LEMMA PlainDone ==
  ASSUME NEW m \in ProperWords, NEW v \in Values, NEW t \in Sites, PlainSite(t)
  PROVE  Done(m, v, t) <=> (t.from \in Present => v[String(t.from)] \notin m.keywords)
<1>1. ASSUME t.from \in Present, v[String(t.from)] \in m.keywords PROVE Rename(m, v, t) # v
  <2>1. String(t.from) \in Cells
    BY <1>1 DEF Cells
  <2>2. v[String(t.from)] \in Names
    BY <2>1 DEF Values
  <2>3. m.modify[v[String(t.from)]] # v[String(t.from)]
    BY <1>1, <2>2, ReplacedIsNone
  <2>4. Rename(m, v, t) = [v EXCEPT ![String(t.from)] = m.modify[v[String(t.from)]]]
    BY <1>1, RenameIs DEF PlainSite
  <2> QED
    BY <2>1, <2>3, <2>4 DEF Values
<1> QED
  BY <1>1, RenameIs DEF Done

\* Visiting a site does it, and leaves done what was done.
LEMMA RenameDoes ==
  ASSUME NEW m \in ProperWords, NEW v \in Values, NEW t, Known(t)
  PROVE  Done(m, Rename(m, v, t), t)
<1>1. CASE PlainSite(t)
  <2>1. t \in Sites /\ Rename(m, v, t) \in Values
    BY RenameTyped DEF Known
  <2>2. ASSUME t.from \in Present PROVE Rename(m, v, t)[String(t.from)] \notin m.keywords
    <3>1. String(t.from) \in Cells
      BY <2>2 DEF Cells
    <3>2. CASE v[String(t.from)] \in m.keywords
      <4>1. v[String(t.from)] \in Names
        BY <3>1 DEF Values
      <4>2. Rename(m, v, t)[String(t.from)] = m.modify[v[String(t.from)]]
        BY <1>1, <2>2, <3>1, <3>2, RenameIs DEF PlainSite, Values
      <4> QED
        BY <3>2, <4>1, <4>2, ReplacedIsNone
    <3> QED
      BY <3>2, RenameIs
  <2> QED
    BY <1>1, <2>1, <2>2, PlainDone
<1>2. CASE t = SetterSite
  <2> DEFINE w == Rename(m, v, t)
  <2>1. CASE t.from \in Present /\ v[String(t.from)] \in m.keywords
    <3>1. w = [v EXCEPT ![Global] = m.modify[v[SetterSite.from]]]
      BY <1>2, <2>1, RenameIs, SetterAlone
    <3>2. SetterSite.from # Global
      BY DEF SetterSite, Global
    <3>3. w[SetterSite.from] = v[SetterSite.from]
      BY <3>1, <3>2 DEF Values
    <3>4. Rename(m, w, t) = [w EXCEPT ![Global] = m.modify[v[SetterSite.from]]]
      BY <1>2, <2>1, <3>3, RenameIs, SetterAlone
    <3> QED
      BY <3>1, <3>4 DEF Done, Values
  <2> QED
    BY <2>1, RenameIs DEF Done
<1> QED
  BY <1>1, <1>2 DEF Known

\* What one site did stays done when another is visited, unless that writes
\* the string the setter's site reads.
LEMMA RenameLeaves ==
  ASSUME NEW m \in ProperWords, NEW v \in Values, NEW t, Known(t), NEW u, Known(u), Done(m, v, u),
         u = SetterSite => t.to # SetterSite.from
  PROVE  Done(m, Rename(m, v, t), u)
<1> DEFINE w == Rename(m, v, t)
<1>1. t \in Sites /\ u \in Sites /\ w \in Values
  BY RenameTyped DEF Known
<1>2. CASE PlainSite(u)
  <2>1. ASSUME u.from \in Present PROVE w[String(u.from)] \notin m.keywords
    <3>1. String(u.from) \in Cells
      BY <2>1 DEF Cells
    <3>2. v[String(u.from)] \notin m.keywords
      BY <1>1, <1>2, <2>1, PlainDone
    <3> QED
      BY <1>1, <3>1, <3>2, RenameTyped
  <2> QED
    BY <1>1, <1>2, <2>1, PlainDone
<1>3. CASE u = SetterSite /\ t = SetterSite
  BY <1>3, RenameDoes
<1>4. CASE u = SetterSite /\ PlainSite(t)
  <2>1. String(t.to) # SetterSite.from
    BY <1>1, <1>4, SetterAlone
  <2>2. CASE ~(u.from \in Present /\ v[String(u.from)] \in m.keywords)
    <3>1. ~(u.from \in Present /\ w[String(u.from)] \in m.keywords)
      <4>1. ASSUME u.from \in Present PROVE String(u.from) \in Cells /\ String(u.from) # String(t.to)
        BY <1>4, <2>1, <4>1, SetterAlone DEF Cells
      <4> QED
        BY <2>2, <4>1, <1>1, RenameTyped
    <3> QED
      BY <3>1, RenameIs DEF Done
  <2>3. CASE u.from \in Present /\ v[String(u.from)] \in m.keywords
    <3>1. String(u.from) \in Cells /\ String(u.from) = SetterSite.from /\ String(u.to) = Global
      BY <1>4, <2>3, SetterAlone DEF Cells
    <3>2. w[SetterSite.from] = v[SetterSite.from]
      BY <1>1, <2>1, <3>1, RenameTyped
    <3>3. v = [v EXCEPT ![Global] = m.modify[v[SetterSite.from]]]
      BY <2>3, <3>1, RenameIs DEF Done
    <3>4. Rename(m, w, u) = [w EXCEPT ![Global] = m.modify[v[SetterSite.from]]]
      BY <2>3, <3>1, <3>2, RenameIs
    <3>5. ASSUME Global \in Cells PROVE w[Global] = m.modify[v[SetterSite.from]]
      <4>1. v[Global] = m.modify[v[SetterSite.from]] /\ v[SetterSite.from] \in Names
        BY <3>1, <3>3, <3>5 DEF Values
      <4>2. v[Global] \notin m.keywords
        BY <2>3, <3>1, <4>1, ReplacedIsNone
      <4>3. w[Global] = v[Global]
        <5>1. CASE String(t.to) = Global
          BY <1>4, <4>2, <5>1, RenameIs DEF PlainSite
        <5>2. CASE String(t.to) # Global
          BY <1>1, <3>5, <5>2, RenameTyped
        <5> QED
          BY <5>1, <5>2
      <4> QED
        BY <4>1, <4>3
    <3>6. [w EXCEPT ![Global] = m.modify[v[SetterSite.from]]] = w
      BY <1>1, <3>5 DEF Values
    <3> QED
      BY <3>4, <3>6 DEF Done
  <2> QED
    BY <2>2, <2>3
<1> QED
  BY <1>2, <1>3, <1>4 DEF Known

\* A string changes only to its own replacement.
Renamed(m, v, w) ==
  \A c \in Cells : w[c] = v[c] \/ (v[c] \in m.keywords /\ w[c] = m.modify[v[c]])

\* A plain site changes a string only so; the setter's changes the global.
LEMMA RenameRenames ==
  ASSUME NEW m \in ProperWords, NEW v \in Values, NEW t \in Sites, PlainSite(t)
  PROVE  Renamed(m, v, Rename(m, v, t))
<1>1. ASSUME NEW c \in Cells, t.from \in Present, v[String(t.from)] \in m.keywords,
             String(t.to) = c
      PROVE  v[c] \in m.keywords /\ Rename(m, v, t)[c] = m.modify[v[c]]
  <2>1. Rename(m, v, t) = [v EXCEPT ![c] = m.modify[v[c]]]
    BY <1>1, RenameIs DEF PlainSite
  <2> QED
    BY <1>1, <2>1 DEF Values, PlainSite
<1> QED
  BY <1>1, RenameIs, RenameTyped DEF Renamed

\* And so do two: a replacement is no keyword.
LEMMA RenamedTwice ==
  ASSUME NEW m \in ProperWords, NEW u \in Values, NEW v \in Values, NEW w \in Values,
         Renamed(m, u, v), Renamed(m, v, w)
  PROVE  Renamed(m, u, w)
  BY ReplacedIsNone DEF Renamed

(***************************************************************************)
(* A whole pass: it does all its sites, and is the identity if they were    *)
(* done.  The sites of ReplaceKeywords do not write the setter's name.      *)
(***************************************************************************)
Passable(S) ==
  \A t \in S : Known(t) /\ (SetterSite \in S => t.to # SetterSite.from)

\* Neither pass has a site that undoes another.
LEMMA PassesPassable ==
  Passable(ModifyVisits) /\ Passable(ReplaceVisits) /\ SetterSite \notin ModifyVisits
<1>1. SetterSite \notin ModifyVisits
  BY SitesKnown DEF PlainSite, SetterSite
<1>2. \A o, f : \A t \in SitesOf(o, f) : t.to # SetterSite.from
  BY DEF SitesOf, Site, SetterSite
<1>3. \A o : o # "setter" => NameSite(o).to # SetterSite.from
  BY DEF NameSite, Site, SetterSite
<1>4. SetterSite.to # SetterSite.from
  BY DEF SetterSite
<1>5. \A o \in ReplacedWhole : \A t \in WholeOf(o, {"name"}) : t.to # SetterSite.from
  BY <1>2, <1>3 DEF ReplacedWhole, WholeOf
<1>6. \A t \in ReplaceVisits : t.to # SetterSite.from
  BY <1>2, <1>3, <1>4, <1>5 DEF ReplaceVisits
<1> QED
  BY <1>1, <1>6, SitesKnown DEF Passable, Known

\* After a pass its sites are done; over done sites it changes nothing.
LEMMA Pass ==
  ASSUME NEW m \in ProperWords, NEW v \in Values, NEW sites, NEW S, Visits(sites, S), Passable(S)
  PROVE  /\ PassOver(m, v, sites) \in Values
         /\ SetterSite \notin S => Renamed(m, v, PassOver(m, v, sites))
         /\ \A t \in S : Done(m, PassOver(m, v, sites), t)
         /\ (\A t \in S : Done(m, v, t)) => PassOver(m, v, sites) = v
<1> DEFINE n == Len(sites)
<1>1. n \in Nat /\ DOMAIN sites = 1 .. n /\ S = {sites[i] : i \in 1 .. n}
  BY DEF Visits, Visited
<1> HIDE DEF n
<1>a. PICK f : Steps(f, m, v, sites, n)
  BY <1>1, PassSteps DEF n
<1>2. /\ f[0] = v
      /\ \A i \in 1 .. n : f[i] = Rename(m, f[i - 1], sites[i])
      /\ PassOver(m, v, sites) = f[n]
  BY <1>a DEF Steps
<1> DEFINE Right(i) == /\ f[i] \in Values /\ (SetterSite \notin S => Renamed(m, v, f[i]))
                       /\ \A j \in 1 .. i : Done(m, f[i], sites[j])
                       /\ (\A t \in S : Done(m, v, t)) => f[i] = v
           Good == {i \in Nat : i <= n => Right(i)}
<1>3. 0 \in Good
  <2>1. Renamed(m, v, v)
    BY DEF Renamed
  <2> QED
    BY <1>2, <2>1
<1>4. ASSUME NEW i \in Nat, i \in Good PROVE i + 1 \in Good
  <2>1. SUFFICES ASSUME i + 1 <= n PROVE Right(i + 1)
    OBVIOUS
  <2>2. Right(i) /\ i + 1 \in 1 .. n /\ i + 1 - 1 = i
    BY <1>1, <1>4, <2>1
  <2> DEFINE t == sites[i + 1]
  <2>3. f[i + 1] = Rename(m, f[i], t) /\ t \in S
    BY <1>1, <1>2, <2>2
  <2>4. Known(t) /\ t \in Sites
    BY <2>3 DEF Passable, Known
  <2>5. f[i + 1] \in Values /\ Done(m, f[i + 1], t)
    BY <2>2, <2>3, <2>4, RenameTyped, RenameDoes
  <2>6. ASSUME SetterSite \notin S PROVE Renamed(m, v, f[i + 1])
    <3>1. PlainSite(t)
      BY <2>3, <2>4, <2>6 DEF Known
    <3>2. Renamed(m, f[i], f[i + 1])
      BY <2>2, <2>3, <2>4, <3>1, RenameRenames
    <3> QED
      BY <2>2, <2>5, <2>6, <3>2, RenamedTwice
  <2>7. ASSUME NEW j \in 1 .. i + 1 PROVE Done(m, f[i + 1], sites[j])
    <3>1. CASE j = i + 1
      BY <3>1, <2>5
    <3>2. CASE j \in 1 .. i
      <4>1. sites[j] \in S
        BY <1>1, <2>2, <3>2
      <4>2. Known(sites[j]) /\ (sites[j] = SetterSite => t.to # SetterSite.from)
        BY <4>1, <2>3 DEF Passable
      <4>3. Done(m, f[i], sites[j]) /\ f[i] \in Values
        BY <2>2, <3>2
      <4> QED
        BY <2>3, <2>4, <4>2, <4>3, RenameLeaves
    <3> QED
      BY <3>1, <3>2
  <2>8. (\A u \in S : Done(m, v, u)) => f[i + 1] = v
    BY <2>2, <2>3 DEF Done
  <2> QED
    BY <2>5, <2>6, <2>7, <2>8
<1> HIDE DEF Right
<1>5. Nat \subseteq Good
  BY <1>3, <1>4, Induction
<1>6. Right(n)
  BY <1>1, <1>5
<1> QED
  BY <1>1, <1>2, <1>6 DEF Right

------------------------------------------------------------------------------
(***************************************************************************)
(* The invariant.                                                           *)
(***************************************************************************)
TypeOK == val \in Values /\ before \in Values
ModifyDone ==
  last.pass = "modify" =>
    /\ last.words \in ProperWords
    /\ Renamed(last.words, before, val)
    /\ \A t \in ModifyVisits : Done(last.words, val, t)
ReplaceDone ==
  last.pass = "replace" =>
    /\ last.words \in ProperWords
    /\ \A t \in ReplaceVisits : Done(last.words, val, t)
IInv == TypeOK /\ ModifyDone /\ ReplaceDone

LEMMA InvInit == Init => IInv
<1> SUFFICES ASSUME Init PROVE IInv
  OBVIOUS
<1>1. val \in Values /\ before \in Values
  BY WordsAssumption DEF Init, Values
<1>2. last.pass = "none"
  BY DEF Init, NoPass
<1> QED
  BY <1>1, <1>2 DEF IInv, TypeOK, ModifyDone, ReplaceDone

\* What a pass means by a place is the same afterwards.
LEMMA SamePlaces ==
  ASSUME UNCHANGED <<owners, shared>>
  PROVE  /\ Cells' = Cells /\ Values' = Values
         /\ \A m, v, w : Renamed(m, v, w)' <=> Renamed(m, v, w)
         /\ \A m, v, t : Done(m, v, t)' <=> Done(m, v, t)
<1>1. \A w : Object(w)' = Object(w)
  BY DEF Object
<1>2. \A s : String(s)' = String(s)
  BY <1>1 DEF String
<1>3. Present' = Present
  BY DEF Present
<1>4. Cells' = Cells
  BY <1>2, <1>3 DEF Cells
<1>5. \A m, v, t : Rename(m, v, t)' = Rename(m, v, t)
  BY <1>2, <1>3 DEF Rename
<1> QED
  BY <1>4, <1>5 DEF Values, Renamed, Done

\* A step is a pass over one of the two sets of sites.
LEMMA InvModify ==
  ASSUME IInv, NEW m \in Modifying, Modify(m)
  PROVE  IInv' /\ (last' = last => val' = val)
<1>1. /\ val \in Values /\ m \in ProperWords
      /\ val' = PassOver(m, val, ModifySites) /\ before' = val
      /\ last' = [pass |-> "modify", words |-> m] /\ UNCHANGED <<owners, shared>>
  BY WordsProper DEF IInv, TypeOK, Modify
<1>2. /\ val' \in Values /\ Renamed(m, val, val')
      /\ \A t \in ModifyVisits : Done(m, val', t)
      /\ (\A t \in ModifyVisits : Done(m, val, t)) => val' = val
  BY <1>1, Pass, ModifyIs, PassesPassable
<1>3. /\ Values' = Values
      /\ \A v, w : Renamed(m, v, w)' <=> Renamed(m, v, w)
      /\ \A v, t : Done(m, v, t)' <=> Done(m, v, t)
  BY <1>1, SamePlaces
<1>4. last'.pass = "modify" /\ last'.words = m
  BY <1>1
<1>5. TypeOK'
  BY <1>1, <1>2, <1>3 DEF TypeOK
<1>6. Renamed(last.words, before, val)'
  BY <1>1, <1>2, <1>3, <1>4 DEF Renamed
<1>7. (\A t \in ModifyVisits : Done(last.words, val, t))'
  BY <1>2, <1>3, <1>4
<1>8. ModifyDone' /\ ReplaceDone'
  BY <1>1, <1>4, <1>6, <1>7 DEF ModifyDone, ReplaceDone
<1>9. last' = last => val' = val
  BY <1>2, <1>4 DEF IInv, ModifyDone
<1> QED
  BY <1>5, <1>8, <1>9 DEF IInv

LEMMA InvReplace ==
  ASSUME IInv, NEW m \in Replacing, Replace(m)
  PROVE  IInv' /\ (last' = last => val' = val)
<1>1. /\ val \in Values /\ m \in ProperWords
      /\ val' = PassOver(m, val, ReplaceSites) /\ before' = val
      /\ last' = [pass |-> "replace", words |-> m] /\ UNCHANGED <<owners, shared>>
  BY WordsProper DEF IInv, TypeOK, Replace
<1>2. /\ val' \in Values
      /\ \A t \in ReplaceVisits : Done(m, val', t)
      /\ (\A t \in ReplaceVisits : Done(m, val, t)) => val' = val
  BY <1>1, Pass, ReplaceIs, PassesPassable
<1>3. Values' = Values /\ \A v, t : Done(m, v, t)' <=> Done(m, v, t)
  BY <1>1, SamePlaces
<1>4. last'.pass = "replace" /\ last'.words = m
  BY <1>1
<1>5. TypeOK'
  BY <1>1, <1>2, <1>3 DEF TypeOK
<1>7. (\A t \in ReplaceVisits : Done(last.words, val, t))'
  BY <1>2, <1>3, <1>4
<1>8. ModifyDone' /\ ReplaceDone'
  BY <1>1, <1>4, <1>7 DEF ModifyDone, ReplaceDone
<1>9. last' = last => val' = val
  BY <1>2, <1>4 DEF IInv, ReplaceDone
<1> QED
  BY <1>5, <1>8, <1>9 DEF IInv

LEMMA InvStep == IInv /\ [Next]_vars => IInv' /\ [last' = last => val' = val]_vars
<1> SUFFICES ASSUME IInv, [Next]_vars PROVE IInv' /\ [last' = last => val' = val]_vars
  OBVIOUS
<1>1. CASE UNCHANGED vars
  <2>1. /\ UNCHANGED <<owners, shared>> /\ val' = val /\ before' = before /\ last' = last
    BY <1>1 DEF vars
  <2>2. /\ Values' = Values /\ Cells' = Cells
        /\ \A m, v, w : Renamed(m, v, w)' <=> Renamed(m, v, w)
        /\ \A m, v, t : Done(m, v, t)' <=> Done(m, v, t)
    BY <2>1, SamePlaces
  <2>3. Renamed(last.words, before, val)' <=> Renamed(last.words, before, val)
    BY <2>1, <2>2 DEF Renamed
  <2> QED
    BY <1>1, <2>1, <2>2, <2>3 DEF IInv, TypeOK, ModifyDone, ReplaceDone
<1> QED
  BY <1>1, InvModify, InvReplace DEF Next

------------------------------------------------------------------------------
(***************************************************************************)
(* The theorems.                                                            *)
(***************************************************************************)

\* After a pass all its sites are done, and ModifyKeywords has changed strings
\* only to their replacements.
THEOREM Invariant == Spec => []IInv
<1>1. IInv /\ [Next]_vars => IInv'
  BY InvStep
<1> QED
  BY <1>1, InvInit, PTL DEF Spec

\* ModifyKeywords leaves no name that is a keyword anywhere in the definition,
\* but for a field's own (compiler/go/Utils.go).
THEOREM NoKeywordSurvives == Spec => []NoKeywordLeft
<1>1. ASSUME IInv, last.pass = "modify", NEW s \in NamesIn(Named \ {<<"field", "self">>})
      PROVE  Now(s) \notin last.words.keywords
  <2>1. /\ s \in Present /\ s \in Strings /\ s[1] \in Named \ {<<"field", "self">>}
        /\ s[2] = "name"
    BY <1>1 DEF NamesIn, Present
  <2>2. PICK t \in ModifyVisits : t.from = s
    <3>1. CASE s[1][1] \in {"global", "class"} \cup Callables /\ s[1] = <<s[1][1], "self">>
      <4>1. s = <<s[1], "name">>
        BY <2>1 DEF Strings
      <4>2. NameSite(s[1][1]) \in ModifyVisits
        BY <3>1 DEF ModifyVisits, WholeOf
      <4> QED
        BY <3>1, <4>1, <4>2 DEF NameSite, Site
    <3>2. CASE s[1] \in Arguments
      <4>1. s = <<s[1], "name">> /\ s[1] = <<s[1][1], s[1][2]>>
            /\ s[1][1] \in Callables /\ s[1][2] \in {"parameter", "return"}
        BY <2>1, <3>2 DEF Strings, Arguments
      <4>2. Site(<<s[1][1], s[1][2]>>, "name") \in SitesOf(s[1][1], {"name", "alias"})
        BY <4>1 DEF SitesOf
      <4>3. Site(s[1], "name") \in ModifyVisits
        BY <4>1, <4>2 DEF ModifyVisits, WholeOf
      <4> QED
        BY <4>1, <4>3 DEF Site
    <3> QED
      BY <2>1, <3>1, <3>2 DEF Named, Variables
  <2>3. /\ Done(last.words, val, t) /\ t \in Sites /\ PlainSite(t) /\ val \in Values
        /\ last.words \in ProperWords
    BY <1>1, <2>2, SitesKnown DEF IInv, ModifyDone, TypeOK
  <2> QED
    BY <2>1, <2>2, <2>3, PlainDone DEF Now
<1>2. IInv => NoKeywordLeft
  BY <1>1 DEF NoKeywordLeft
<1> QED
  BY <1>2, Invariant, PTL

\* After ModifyKeywords strings that were equal before are equal, through
\* whatever pointers they were met (compiler/go/Utils.go,
\* IDL/FieldDefinition.go).
THEOREM ReferencesStay == Spec => []ReferencesKept
<1> DEFINE Places == {u \in Present : u[1] \notin Variables}
           Final(n) == IF n \in last.words.keywords THEN last.words.modify[n] ELSE n
<1>1. ASSUME IInv, last.pass = "modify", NEW s \in Places PROVE Now(s) = Final(Before(s))
  <2>1. s \in Present /\ s \in Strings /\ s[1] \notin Variables
    BY <1>1 DEF Present
  <2>2. String(s) \in Cells
    BY <2>1 DEF Cells
  <2>3. PICK t \in ModifyVisits : t.from = s
    <3>1. CASE s[1] \in Arguments
      <4>1. s = <<s[1], s[2]>> /\ s[1] = <<s[1][1], s[1][2]>> /\ s[2] \in {"name", "alias"}
            /\ s[1][1] \in Callables /\ s[1][2] \in {"parameter", "return"}
        BY <2>1, <3>1 DEF Strings, Arguments
      <4>2. Site(<<s[1][1], s[1][2]>>, s[2]) \in SitesOf(s[1][1], {"name", "alias"})
        BY <4>1 DEF SitesOf
      <4>3. Site(s[1], s[2]) \in ModifyVisits
        BY <4>1, <4>2 DEF ModifyVisits, WholeOf
      <4> QED
        BY <4>1, <4>3 DEF Site
    <3>2. CASE s[1] \notin Arguments
      <4>1. s = <<s[1], "name">> /\ s[1] = <<s[1][1], "self">> /\ s[1][1] \in {"class"} \cup Callables
        BY <2>1, <3>2 DEF Strings, Named, Aliased
      <4>2. NameSite(s[1][1]) \in ModifyVisits
        BY <4>1 DEF ModifyVisits, WholeOf
      <4> QED
        BY <4>1, <4>2 DEF NameSite, Site
    <3> QED
      BY <3>1, <3>2
  <2>4. /\ Done(last.words, val, t) /\ t \in Sites /\ PlainSite(t) /\ val \in Values
        /\ last.words \in ProperWords /\ Renamed(last.words, before, val)
    BY <1>1, <2>3, SitesKnown DEF IInv, ModifyDone, TypeOK
  <2>5. val[String(s)] \notin last.words.keywords
    BY <2>1, <2>3, <2>4, PlainDone
  <2> QED
    BY <2>2, <2>4, <2>5 DEF Renamed, Now, Before
<1> HIDE DEF Final
<1>2. IInv => ReferencesKept
  BY <1>1 DEF ReferencesKept
<1> QED
  BY <1>2, Invariant, PTL

\* The same pass twice changes nothing the second time
\* (compiler/go/Utils.go, compiler/go/IDL/IDLDefinition.go).
THEOREM PassesAreIdempotent == Spec => Idempotent
<1>1. IInv /\ [Next]_vars => [last' = last => val' = val]_vars
  BY InvStep
<1> QED
  BY <1>1, Invariant, PTL DEF Spec, Idempotent
==============================================================================
