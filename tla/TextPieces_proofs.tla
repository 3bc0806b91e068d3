--------------------------- MODULE TextPieces_proofs ---------------------------
(***************************************************************************)
(* What splitting and joining text yields, for any text.  Split and Join    *)
(* are folds; a fold is unrolled into what one more piece does to it, by    *)
(* induction over the natural numbers stated for a set, and the rest are    *)
(* inductions over the length of a text.                                    *)
(***************************************************************************)
EXTENDS TextPieces, FiniteSets, FiniteSetTheorems, FunctionTheorems, SequenceTheorems,
        WellFoundedInduction, TLAPS

(***************************************************************************)
(* Induction over the natural numbers, on a set instead of a predicate.     *)
(***************************************************************************)
Less == {ss \in Nat \X Nat : ss[1] < ss[2]}

\* The order of the natural numbers is well-founded.
LEMMA LessWF == IsWellFoundedOn(Less, Nat)
  BY NatLessThanWellFounded, Zenon DEF OpToRel, Less

\* A set that has 0, and with each number the next, has them all: the least
\* number it lacks would have a predecessor in it.
LEMMA Induction ==
  ASSUME NEW S, 0 \in S, \A n \in Nat : n \in S => n + 1 \in S
  PROVE  Nat \subseteq S
<1>1. SUFFICES ASSUME Nat \ S # {} PROVE FALSE
  OBVIOUS
<1>2. PICK n \in Nat \ S : \A m \in Nat \ S : ~ (<<m, n>> \in Less)
  BY <1>1, LessWF, WFMin
<1>3. n # 0 /\ n - 1 \in Nat /\ n - 1 + 1 = n
  BY SMT
<1>4. <<n - 1, n>> \in Less
  BY <1>3, SMT DEF Less
<1> QED
  BY <1>2, <1>3, <1>4

\* The greatest of some indexes up to n + 1, with n + 1 among them.
LEMMA MaxIs == \A n \in Nat : \A S \in SUBSET (1 .. n + 1) : n + 1 \in S => Max(S) = n + 1
<1>1. SUFFICES ASSUME NEW n \in Nat, NEW S \in SUBSET (1 .. n + 1), n + 1 \in S PROVE Max(S) = n + 1
  OBVIOUS
<1>2. \A x \in S : (\A y \in S : x >= y) => x = n + 1
  BY <1>1, SMT
<1>3. \A y \in S : n + 1 >= y
  BY <1>1, SMT
<1> QED
  BY <1>1, <1>2, <1>3 DEF Max

------------------------------------------------------------------------------
(***************************************************************************)
(* The two folds, unrolled.                                                 *)
(***************************************************************************)
Cut(sep, parts, t) ==
  IF t = sep THEN Append(parts, << >>) ELSE [parts EXCEPT ![Len(parts)] = Append(@, t)]
AddTo(sep, s, p) ==
  IF p = << >> THEN s ELSE IF s = << >> THEN p ELSE s \o <<sep>> \o p
Does(op, sep, a, x) == IF op = "split" THEN Cut(sep, a, x) ELSE AddTo(sep, a, x)

\* What FoldLeft takes for its iteration: a function on sets of indexes.
Iterates(op, sep, g, v, s, n) ==
  g = [S \in SUBSET (1 .. n) |->
         IF S = {} THEN v ELSE Does(op, sep, g[S \ {Max(S)}], s[Max(S)])]

\* There is one for every length: the next extends it by the sets with n + 1.
LEMMA IterationExists ==
  ASSUME NEW op, NEW sep, NEW v, NEW s
  PROVE  \A n \in Nat : \E g : Iterates(op, sep, g, v, s, n)
<1> DEFINE There == {n \in Nat : \E g : Iterates(op, sep, g, v, s, n)}
<1>1. 0 \in There
  <2>1. SUBSET (1 .. 0) = {{}}
    BY SMT
  <2>2. Iterates(op, sep, [S \in SUBSET (1 .. 0) |-> v], v, s, 0)
    BY <2>1 DEF Iterates
  <2> QED
    BY <2>2
<1>2. ASSUME NEW n \in Nat, n \in There PROVE n + 1 \in There
  <2>1. PICK g : Iterates(op, sep, g, v, s, n)
    BY <1>2
  <2> DEFINE All == SUBSET (1 .. n + 1)
             h == [S \in All |-> IF n + 1 \in S THEN Does(op, sep, g[S \ {n + 1}], s[n + 1]) ELSE g[S]]
             k == [S \in All |-> IF S = {} THEN v ELSE Does(op, sep, h[S \ {Max(S)}], s[Max(S)])]
  <2>2. ASSUME NEW S \in All PROVE h[S] = k[S]
    <3>1. CASE n + 1 \in S
      <4>1. Max(S) = n + 1 /\ S # {} /\ S \ {n + 1} \in All /\ n + 1 \notin S \ {n + 1}
        BY <3>1, MaxIs
      <4>2. h[S \ {n + 1}] = g[S \ {n + 1}]
        BY <4>1
      <4> QED
        BY <3>1, <4>1, <4>2
    <3>2. CASE n + 1 \notin S
      <4>1. S \ {Max(S)} \in All /\ n + 1 \notin S \ {Max(S)}
        BY <3>2
      <4>2. S \in SUBSET (1 .. n)
        <5>1. \A x \in S : x \in 1 .. n + 1 /\ x # n + 1
          BY <3>2
        <5>2. \A x \in 1 .. n + 1 : x # n + 1 => x \in 1 .. n
          BY SMT
        <5> QED
          BY <5>1, <5>2
      <4>3. h[S] = g[S] /\ h[S \ {Max(S)}] = g[S \ {Max(S)}]
        BY <3>2, <4>1, <4>2
      <4>4. g[S] = IF S = {} THEN v ELSE Does(op, sep, g[S \ {Max(S)}], s[Max(S)])
        BY <2>1, <4>1, <4>2 DEF Iterates
      <4> QED
        BY <4>3, <4>4
    <3> QED
      BY <3>1, <3>2
  <2>3. h = k
    BY <2>2
  <2>4. Iterates(op, sep, h, v, s, n + 1)
    BY <2>3 DEF Iterates
  <2> QED
    BY <2>4
<1> HIDE DEF There
<1>3. Nat \subseteq There
  BY <1>1, <1>2, Induction
<1> QED
  BY <1>3 DEF There

\* A fold as the sequence of its intermediate results.
Steps(op, sep, f, v, s, n) ==
  f[0] = v /\ \A i \in 1 .. n : f[i] = Does(op, sep, f[i - 1], s[i])

LEMMA IterationSteps ==
  ASSUME NEW op, NEW sep, NEW g, NEW v, NEW s, NEW n \in Nat, Iterates(op, sep, g, v, s, n)
  PROVE  \E f : Steps(op, sep, f, v, s, n) /\ f[n] = g[1 .. n]
<1> DEFINE f == [i \in 0 .. n |-> g[1 .. i]]
<1>1. f[0] = v
  <2>1. 1 .. 0 = {} /\ {} \in SUBSET (1 .. n) /\ 0 \in 0 .. n
    BY SMT
  <2>2. g[{}] = v
    BY <2>1, Zenon DEF Iterates
  <2>3. f[0] = g[1 .. 0]
    BY <2>1
  <2> QED
    BY <2>1, <2>2, <2>3, Zenon
<1>2. ASSUME NEW i \in 1 .. n PROVE f[i] = Does(op, sep, f[i - 1], s[i])
  <2>1. /\ i - 1 \in Nat /\ i - 1 + 1 = i /\ i - 1 \in 0 .. n /\ i \in 0 .. n
        /\ 1 .. i \in SUBSET (1 .. n) /\ i \in 1 .. i
    BY SMT
  <2>2. Max(1 .. i) = i
    BY <2>1, MaxIs
  <2>3. (1 .. i) \ {i} = 1 .. (i - 1) /\ 1 .. i # {}
    BY SMT
  <2>4. g[1 .. i] = Does(op, sep, g[(1 .. i) \ {Max(1 .. i)}], s[Max(1 .. i)])
    BY <2>1, <2>3, Zenon DEF Iterates
  <2>5. f[i] = g[1 .. i] /\ f[i - 1] = g[1 .. (i - 1)]
    BY <2>1
  <2> HIDE DEF f
  <2> QED
    BY <2>2, <2>3, <2>4, <2>5
<1>3. f[n] = g[1 .. n]
  OBVIOUS
<1> HIDE DEF f
<1> QED
  BY <1>1, <1>2, <1>3 DEF Steps

\* Split and Join are such folds.
LEMMA SplitSteps ==
  ASSUME NEW sep, NEW s, NEW n \in Nat, DOMAIN s = 1 .. n
  PROVE  \E f : Steps("split", sep, f, << << >> >>, s, n) /\ Split(s, sep) = f[n]
<1> DEFINE g == CHOOSE g : Iterates("split", sep, g, << << >> >>, s, n)
<1>1. Iterates("split", sep, g, << << >> >>, s, n)
  BY IterationExists
<1>2. Split(s, sep) = g[1 .. n]
  BY DEF Split, FoldLeft, MapThenFoldSet, Iterates, Does, Cut
<1> HIDE DEF g
<1> QED
  BY <1>1, <1>2, IterationSteps

LEMMA JoinSteps ==
  ASSUME NEW sep, NEW s, NEW n \in Nat, DOMAIN s = 1 .. n
  PROVE  \E f : Steps("join", sep, f, << >>, s, n) /\ Join(s, sep) = f[n]
<1> DEFINE g == CHOOSE g : Iterates("join", sep, g, << >>, s, n)
<1>1. Iterates("join", sep, g, << >>, s, n)
  BY IterationExists
<1>2. Join(s, sep) = g[1 .. n]
  BY DEF Join, FoldLeft, MapThenFoldSet, Iterates, Does, AddTo
<1> HIDE DEF g
<1> QED
  BY <1>1, <1>2, IterationSteps

\* A fold over a longer text goes through the result over the shorter one.
LEMMA StepsAgree ==
  ASSUME NEW op, NEW sep, NEW v, NEW s, NEW u, NEW n \in Nat, NEW m \in Nat, n <= m,
         \A i \in 1 .. n : u[i] = s[i],
         NEW f, Steps(op, sep, f, v, s, n), NEW h, Steps(op, sep, h, v, u, m)
  PROVE  h[n] = f[n]
<1> DEFINE Same == {i \in Nat : i <= n => h[i] = f[i]}
<1>1. 0 \in Same
  BY DEF Steps
<1>2. ASSUME NEW i \in Nat, i \in Same PROVE i + 1 \in Same
  <2>1. SUFFICES ASSUME i + 1 <= n PROVE h[i + 1] = f[i + 1]
    OBVIOUS
  <2>2. h[i] = f[i] /\ i + 1 \in 1 .. n /\ i + 1 \in 1 .. m /\ (i + 1) - 1 = i
    BY <1>2, <2>1
  <2> QED
    BY <2>2 DEF Steps
<1> HIDE DEF Same
<1>3. n \in Same
  BY <1>1, <1>2, Induction
<1> QED
  BY <1>3 DEF Same

\* What one more piece does to the parts, and one more part to the text.
LEMMA SplitAppend ==
  ASSUME NEW P, NEW s \in Seq(P), NEW x \in P, NEW sep
  PROVE  Split(Append(s, x), sep) = Cut(sep, Split(s, sep), x)
<1> DEFINE n == Len(s)
           u == Append(s, x)
<1>1. /\ n \in Nat /\ n + 1 \in Nat /\ DOMAIN s = 1 .. n /\ DOMAIN u = 1 .. n + 1
      /\ \A i \in 1 .. n : u[i] = s[i]
      /\ u[n + 1] = x
  OBVIOUS
<1> HIDE DEF n, u
<1>2. PICK f : Steps("split", sep, f, << << >> >>, s, n) /\ Split(s, sep) = f[n]
  BY <1>1, SplitSteps
<1>3. PICK h : Steps("split", sep, h, << << >> >>, u, n + 1) /\ Split(u, sep) = h[n + 1]
  BY <1>1, SplitSteps
<1>4. h[n] = f[n]
  BY <1>1, <1>2, <1>3, StepsAgree
<1>5. n + 1 \in 1 .. n + 1 /\ (n + 1) - 1 = n
  BY <1>1
<1>6. h[n + 1] = Does("split", sep, h[n], x)
  BY <1>1, <1>3, <1>5 DEF Steps
<1> QED
  BY <1>2, <1>3, <1>4, <1>6 DEF Does, u

LEMMA JoinAppend ==
  ASSUME NEW P, NEW s \in Seq(P), NEW x \in P, NEW sep
  PROVE  Join(Append(s, x), sep) = AddTo(sep, Join(s, sep), x)
<1> DEFINE n == Len(s)
           u == Append(s, x)
<1>1. /\ n \in Nat /\ n + 1 \in Nat /\ DOMAIN s = 1 .. n /\ DOMAIN u = 1 .. n + 1
      /\ \A i \in 1 .. n : u[i] = s[i]
      /\ u[n + 1] = x
  OBVIOUS
<1> HIDE DEF n, u
<1>2. PICK f : Steps("join", sep, f, << >>, s, n) /\ Join(s, sep) = f[n]
  BY <1>1, JoinSteps
<1>3. PICK h : Steps("join", sep, h, << >>, u, n + 1) /\ Join(u, sep) = h[n + 1]
  BY <1>1, JoinSteps
<1>4. h[n] = f[n]
  BY <1>1, <1>2, <1>3, StepsAgree
<1>5. n + 1 \in 1 .. n + 1 /\ (n + 1) - 1 = n
  BY <1>1
<1>6. h[n + 1] = Does("join", sep, h[n], x)
  BY <1>1, <1>3, <1>5 DEF Steps
<1> QED
  BY <1>2, <1>3, <1>4, <1>6 DEF Does, u

\* Nothing is split into one empty part, and nothing joins to nothing.
LEMMA SplitNothing == ASSUME NEW sep PROVE Split(<< >>, sep) = << << >> >>
<1>1. 0 \in Nat /\ DOMAIN << >> = 1 .. 0
  BY SMT
<1> QED
  BY <1>1, SplitSteps DEF Steps

LEMMA JoinNothing == ASSUME NEW sep PROVE Join(<< >>, sep) = << >>
<1>1. 0 \in Nat /\ DOMAIN << >> = 1 .. 0
  BY SMT
<1> QED
  BY <1>1, JoinSteps DEF Steps
------------------------------------------------------------------------------
(***************************************************************************)
(* Induction over texts: what holds of nothing, and with each text of it    *)
(* and one more piece, holds of all.                                        *)
(***************************************************************************)
LEMMA TextInduction ==
  ASSUME NEW P, NEW T, << >> \in T, \A s \in Seq(P), x \in P : s \in T => Append(s, x) \in T
  PROVE  Seq(P) \subseteq T
<1> DEFINE Lengths == {n \in Nat : \A s \in Seq(P) : Len(s) = n => s \in T}
<1>1. 0 \in Lengths
  BY EmptySeq
<1>2. ASSUME NEW n \in Nat, n \in Lengths PROVE n + 1 \in Lengths
  <2>1. SUFFICES ASSUME NEW s \in Seq(P), Len(s) = n + 1 PROVE s \in T
    OBVIOUS
  <2> DEFINE t == SubSeq(s, 1, n)
  <2>2. t \in Seq(P) /\ Len(t) = n /\ s[n + 1] \in P
    BY <2>1
  <2>3. t \in T
    BY <1>2, <2>2
  <2>4. s = Append(t, s[n + 1])
    BY <2>1
  <2> HIDE DEF t
  <2> QED
    BY <2>2, <2>3, <2>4
<1> HIDE DEF Lengths
<1>3. Nat \subseteq Lengths
  BY <1>1, <1>2, Induction
<1> QED
  BY <1>3 DEF Lengths

------------------------------------------------------------------------------
(***************************************************************************)
(* Splitting.  A text is plain if it has no separator in it.                *)
(***************************************************************************)
Plain(t, sep) == \A i \in 1 .. Len(t) : t[i] # sep

\* One more piece is plain, or not, as it and the rest are.
LEMMA PlainAppend ==
  ASSUME NEW P, NEW t \in Seq(P), NEW x \in P, NEW sep
  PROVE  Plain(Append(t, x), sep) <=> Plain(t, sep) /\ x # sep
<1> DEFINE u == Append(t, x)
<1>1. /\ Len(t) \in Nat /\ Len(u) = Len(t) + 1 /\ u[Len(t) + 1] = x
      /\ \A i \in 1 .. Len(t) : u[i] = t[i]
  OBVIOUS
<1> HIDE DEF u
<1>2. Plain(u, sep) <=> Plain(t, sep) /\ x # sep
  BY <1>1 DEF Plain
<1> QED
  BY <1>2 DEF u

\* A piece that does not separate ends up in the last part.
LEMMA CutLast ==
  ASSUME NEW P, NEW q \in Seq(Seq(P)), NEW r \in Seq(P), NEW x \in P, NEW sep, x # sep
  PROVE  Cut(sep, Append(q, r), x) = Append(q, Append(r, x))
<1> DEFINE u == Append(q, r)
           e == Append(r, x)
           w == Append(q, e)
<1>1. e \in Seq(P)
  OBVIOUS
<1> HIDE DEF e
<1>2. /\ Len(q) \in Nat /\ u \in Seq(Seq(P)) /\ Len(u) = Len(q) + 1 /\ u[Len(u)] = r
      /\ w \in Seq(Seq(P)) /\ Len(w) = Len(q) + 1 /\ w[Len(w)] = e
      /\ \A i \in 1 .. Len(q) : u[i] = q[i] /\ w[i] = q[i]
  BY <1>1
<1> HIDE DEF u, w
<1> DEFINE z == [u EXCEPT ![Len(u)] = e]
<1>3. z \in Seq(Seq(P)) /\ Len(z) = Len(u) /\ z[Len(u)] = e /\ \A i \in 1 .. Len(q) : z[i] = u[i]
  BY <1>1, <1>2
<1> HIDE DEF z
<1>4. z = w
  <2>1. ASSUME NEW i \in 1 .. Len(z) PROVE z[i] = w[i]
    <3>1. CASE i \in 1 .. Len(q)
      BY <1>2, <1>3, <3>1
    <3>2. CASE i \notin 1 .. Len(q)
      <4>1. i = Len(u) /\ i = Len(w)
        BY <1>2, <1>3, <3>2
      <4> QED
        BY <1>2, <1>3, <4>1
    <3> QED
      BY <3>1, <3>2
  <2> QED
    BY <1>2, <1>3, <2>1, SeqEqual
<1>5. Cut(sep, u, x) = z
  BY <1>2 DEF Cut, z, e
<1> QED
  BY <1>4, <1>5 DEF u, w, e

\* Parts have no separator in them, and there is at least one.
LEMMA SplitTyped ==
  ASSUME NEW P, NEW sep
  PROVE  \A s \in Seq(P) : Split(s, sep) \in Seq(Seq(P \ {sep})) /\ Len(Split(s, sep)) >= 1
<1> DEFINE Parts == Seq(Seq(P \ {sep}))
           T == {s \in Seq(P) : Split(s, sep) \in Parts /\ Len(Split(s, sep)) >= 1}
<1>1. << >> \in T
  <2>1. << >> \in Seq(P) /\ << >> \in Seq(P \ {sep}) /\ Split(<< >>, sep) = << << >> >>
    BY SplitNothing, EmptySeq
  <2>2. \A e \in Seq(P \ {sep}) : <<e>> \in Parts /\ Len(<<e>>) = 1
    OBVIOUS
  <2>3. Split(<< >>, sep) \in Parts /\ Len(Split(<< >>, sep)) = 1
    BY <2>1, <2>2, Zenon
  <2> QED
    BY <2>1, <2>3
<1>2. ASSUME NEW s \in Seq(P), NEW x \in P, s \in T PROVE Append(s, x) \in T
  <2> DEFINE q == Split(s, sep)
  <2>1. Split(Append(s, x), sep) = Cut(sep, q, x)
    BY SplitAppend
  <2>2. q \in Parts /\ Len(q) >= 1
    BY <1>2
  <2> HIDE DEF q
  <2>0. Append(s, x) \in Seq(P)
    OBVIOUS
  <2>3. CASE x = sep
    <3>1. << >> \in Seq(P \ {sep}) /\ Cut(sep, q, x) = Append(q, << >>)
      BY <2>3, EmptySeq DEF Cut
    <3>2. \A e \in Seq(P \ {sep}) : Append(q, e) \in Parts /\ Len(Append(q, e)) = Len(q) + 1
      BY <2>2
    <3>3. Cut(sep, q, x) \in Parts /\ Len(Cut(sep, q, x)) >= 1
      BY <2>2, <3>1, <3>2
    <3> QED
      BY <2>0, <2>1, <3>3
  <2>4. CASE x # sep
    <3>1. x \in P \ {sep} /\ Len(q) \in 1 .. Len(q) /\ q[Len(q)] \in Seq(P \ {sep})
      BY <2>2, <2>4
    <3>2. Append(q[Len(q)], x) \in Seq(P \ {sep})
      BY <3>1
    <3>3. Cut(sep, q, x) = [q EXCEPT ![Len(q)] = Append(q[Len(q)], x)]
      BY <2>4 DEF Cut
    <3>4. Cut(sep, q, x) \in Parts /\ Len(Cut(sep, q, x)) = Len(q)
      BY <2>2, <3>2, <3>3
    <3> QED
      BY <2>0, <2>1, <2>2, <3>4
  <2> QED
    BY <2>3, <2>4
<1> HIDE DEF T
<1>3. Seq(P) \subseteq T
  BY <1>1, <1>2, TextInduction
<1> QED
  BY <1>3 DEF T

\* A plain text is one part.
LEMMA SplitPlain ==
  ASSUME NEW P, NEW sep
  PROVE  \A t \in Seq(P) : Plain(t, sep) => Split(t, sep) = <<t>>
<1> DEFINE T == {t \in Seq(P) : Plain(t, sep) => Split(t, sep) = <<t>>}
<1>1. << >> \in T
  <2>1. << >> \in Seq(P) /\ Split(<< >>, sep) = << << >> >>
    BY SplitNothing, EmptySeq
  <2> QED
    BY <2>1, Zenon
<1>2. ASSUME NEW t \in Seq(P), NEW x \in P, t \in T PROVE Append(t, x) \in T
  <2> DEFINE e == Append(t, x)
  <2>1. e \in Seq(P)
    OBVIOUS
  <2>2. SUFFICES ASSUME Plain(e, sep) PROVE Split(e, sep) = <<e>>
    BY <2>1, Zenon
  <2>3. x # sep /\ Split(t, sep) = <<t>>
    BY <1>2, <2>2, PlainAppend
  <2>4. Split(e, sep) = Cut(sep, <<t>>, x)
    BY <2>3, SplitAppend
  <2>5. Cut(sep, <<t>>, x) = [<<t>> EXCEPT ![Len(<<t>>)] = e]
    BY <2>3 DEF Cut
  <2> HIDE DEF e
  <2>6. [<<t>> EXCEPT ![Len(<<t>>)] = e] = <<e>>
    BY <2>1
  <2> QED
    BY <2>4, <2>5, <2>6
<1> HIDE DEF T
<1>3. Seq(P) \subseteq T
  BY <1>1, <1>2, TextInduction
<1> QED
  BY <1>3 DEF T

\* After a separator it is one part more.
LEMMA SplitMore ==
  ASSUME NEW P, NEW sep \in P, NEW s \in Seq(P)
  PROVE  \A t \in Seq(P) : Plain(t, sep) => Split(s \o <<sep>> \o t, sep) = Append(Split(s, sep), t)
<1> DEFINE q == Split(s, sep)
           a == s \o <<sep>>
           T == {t \in Seq(P) : Plain(t, sep) => Split(a \o t, sep) = Append(q, t)}
<1>1. q \in Seq(Seq(P))
  <2>1. q \in Seq(Seq(P \ {sep}))
    BY SplitTyped
  <2> QED
    BY <2>1
<1>2. a \in Seq(P) /\ a = Append(s, sep)
  OBVIOUS
<1>3. Split(Append(s, sep), sep) = Append(q, << >>)
  BY SplitAppend DEF Cut
<1>4. << >> \in Seq(P) /\ a \o << >> = a
  OBVIOUS
<1> HIDE DEF q, a
<1>5. << >> \in T
  BY <1>2, <1>3, <1>4, Zenon
<1>6. ASSUME NEW t \in Seq(P), NEW x \in P, t \in T PROVE Append(t, x) \in T
  <2>1. Append(t, x) \in Seq(P) /\ a \o t \in Seq(P) /\ a \o Append(t, x) = Append(a \o t, x)
    BY <1>2
  <2>2. SUFFICES ASSUME Plain(Append(t, x), sep)
                 PROVE  Split(a \o Append(t, x), sep) = Append(q, Append(t, x))
    BY <2>1, Zenon
  <2>3. x # sep /\ Split(a \o t, sep) = Append(q, t)
    BY <1>6, <2>2, PlainAppend
  <2>4. Split(Append(a \o t, x), sep) = Cut(sep, Append(q, t), x)
    <3>1. \A b \in Seq(P) : Split(Append(b, x), sep) = Cut(sep, Split(b, sep), x)
      BY SplitAppend
    <3> QED
      BY <2>1, <2>3, <3>1, Zenon
  <2>5. Cut(sep, Append(q, t), x) = Append(q, Append(t, x))
    BY <1>1, <2>3, CutLast
  <2> QED
    BY <2>1, <2>4, <2>5
<1> HIDE DEF T
<1>7. Seq(P) \subseteq T
  BY <1>5, <1>6, TextInduction
<1> QED
  BY <1>7 DEF T, a, q

\* More text never makes fewer parts, and more of them with a separator in it.
LEMMA SplitGrows ==
  ASSUME NEW P, NEW sep, NEW s \in Seq(P)
  PROVE  \A t \in Seq(P) : /\ Len(Split(s \o t, sep)) >= Len(Split(s, sep))
                           /\ ~Plain(t, sep) => Len(Split(s \o t, sep)) > Len(Split(s, sep))
<1> DEFINE L(t) == Len(Split(s \o t, sep))
           T == {t \in Seq(P) : L(t) >= Len(Split(s, sep)) /\ (~Plain(t, sep) => L(t) > Len(Split(s, sep)))}
<1>0. \A u \in Seq(P) : Split(u, sep) \in Seq(Seq(P \ {sep})) /\ Len(Split(u, sep)) \in Nat
                        /\ Len(Split(u, sep)) >= 1
  BY SplitTyped
<1>1. << >> \in T
  <2>1. s \o << >> = s /\ Plain(<< >>, sep) /\ Len(Split(s, sep)) \in Nat
    BY <1>0 DEF Plain
  <2> QED
    BY <2>1
<1>2. ASSUME NEW t \in Seq(P), NEW x \in P, t \in T PROVE Append(t, x) \in T
  <2> DEFINE q == Split(s \o t, sep)
  <2>1. s \o Append(t, x) = Append(s \o t, x) /\ s \o t \in Seq(P) /\ Append(t, x) \in Seq(P)
    OBVIOUS
  <2>2. Split(s \o Append(t, x), sep) = Cut(sep, q, x)
    BY <2>1, SplitAppend
  <2>3. q \in Seq(Seq(P \ {sep})) /\ Len(q) \in Nat /\ Len(q) >= 1 /\ Len(Split(s, sep)) \in Nat
    BY <1>0, <2>1
  <2>4. Len(q) >= Len(Split(s, sep)) /\ (~Plain(t, sep) => Len(q) > Len(Split(s, sep)))
    BY <1>2
  <2>5. Plain(Append(t, x), sep) <=> Plain(t, sep) /\ x # sep
    BY PlainAppend
  <2> HIDE DEF q
  <2>6. Len(Cut(sep, q, x)) = IF x = sep THEN Len(q) + 1 ELSE Len(q)
    BY <2>3 DEF Cut
  <2>7. /\ Len(Cut(sep, q, x)) >= Len(Split(s, sep))
        /\ ~Plain(Append(t, x), sep) => Len(Cut(sep, q, x)) > Len(Split(s, sep))
    BY <2>3, <2>4, <2>5, <2>6
  <2> QED
    BY <2>1, <2>2, <2>7
<1> HIDE DEF T
<1>3. Seq(P) \subseteq T
  BY <1>1, <1>2, TextInduction
<1> QED
  BY <1>3 DEF T

\* What is cut in two or more has a separator in it.
LEMMA SplitParts ==
  ASSUME NEW P, NEW sep
  PROVE  \A t \in Seq(P) : Len(Split(t, sep)) >= 2 => ~Plain(t, sep)
<1>1. ASSUME NEW t \in Seq(P), Plain(t, sep) PROVE ~ (Len(Split(t, sep)) >= 2)
  <2>1. Split(t, sep) = <<t>>
    BY <1>1, SplitPlain
  <2> QED
    BY <2>1
<1> QED
  BY <1>1, Zenon

\* What a separator follows first is a part of its own; what comes next is the
\* second part, or several.
LEMMA SplitItem ==
  ASSUME NEW P, NEW sep \in P, NEW k \in P, k # sep
  PROVE  \A v \in Seq(P) :
           /\ Plain(v, sep) => Split(<<k, sep>> \o v, sep) = << <<k>>, v >>
           /\ ~Plain(v, sep) => Len(Split(<<k, sep>> \o v, sep)) > 2
<1> DEFINE s == <<k>>
           e == << >>
<1>1. s \in Seq(P) /\ Plain(s, sep) /\ <<k, sep>> = s \o <<sep>> /\ <<k, sep>> \in Seq(P)
      /\ e \in Seq(P) /\ Plain(e, sep) /\ <<k, sep>> \o e = <<k, sep>>
  BY DEF Plain
<1>2. Split(s, sep) = <<s>>
  BY <1>1, SplitPlain, Zenon
<1> HIDE DEF s, e
<1>3. \A t \in Seq(P) : Plain(t, sep) => Split(s \o <<sep>> \o t, sep) = Append(<<s>>, t)
  BY <1>1, <1>2, SplitMore
<1>4. \A t \in Seq(P) : Plain(t, sep) => Split(<<k, sep>> \o t, sep) = Append(<<s>>, t)
  BY <1>1, <1>3, Zenon
<1>5. Split(<<k, sep>>, sep) = Append(<<s>>, e)
  BY <1>1, <1>4, Zenon
<1>6. Len(Split(<<k, sep>>, sep)) = 2
  BY <1>5
<1>7. \A v \in Seq(P) : ~Plain(v, sep) => Len(Split(<<k, sep>> \o v, sep)) > Len(Split(<<k, sep>>, sep))
  BY <1>1, SplitGrows, Zenon
<1>8. \A v \in Seq(P) : Append(<<s>>, v) = <<s, v>>
  <2>1. ASSUME NEW v \in Seq(P) PROVE Append(<<s>>, v) = <<s, v>>
    <3> DEFINE w == Append(<<s>>, v)
               z == <<s, v>>
    <3>1. w \in Seq(Seq(P)) /\ Len(w) = 2 /\ w[1] = s /\ w[2] = v
      BY <1>1
    <3>2. z \in Seq(Seq(P)) /\ Len(z) = 2 /\ z[1] = s /\ z[2] = v
      BY <1>1
    <3> HIDE DEF w, z
    <3>3. w = z
      <4>1. Len(w) = Len(z) /\ \A i \in 1 .. Len(w) : w[i] = z[i]
        BY <3>1, <3>2
      <4> QED
        BY <3>1, <3>2, <4>1, SeqEqual
    <3> QED
      BY <3>3 DEF w, z
  <2> QED
    BY <2>1
<1>9. \A v \in Seq(P) : Plain(v, sep) => Split(<<k, sep>> \o v, sep) = <<s, v>>
  BY <1>4, <1>8, Zenon
<1> QED
  BY <1>6, <1>7, <1>9, Zenon DEF s

------------------------------------------------------------------------------
(***************************************************************************)
(* Joining.                                                                 *)
(***************************************************************************)

\* What is joined are pieces of the parts, and separators.
LEMMA JoinTyped ==
  ASSUME NEW P, NEW sep \in P
  PROVE  \A ps \in Seq(Seq(P)) : Join(ps, sep) \in Seq(P)
<1> DEFINE T == {ps \in Seq(Seq(P)) : Join(ps, sep) \in Seq(P)}
<1>1. << >> \in T
  <2>1. Join(<< >>, sep) = << >> /\ << >> \in Seq(P) /\ << >> \in Seq(Seq(P))
    BY JoinNothing
  <2> QED
    BY <2>1, Zenon
<1>2. ASSUME NEW ps \in Seq(Seq(P)), NEW p \in Seq(P), ps \in T PROVE Append(ps, p) \in T
  <2> DEFINE j == Join(ps, sep)
  <2>1. Join(Append(ps, p), sep) = AddTo(sep, j, p)
    BY JoinAppend
  <2>2. j \in Seq(P)
    BY <1>2
  <2> HIDE DEF j
  <2>3. AddTo(sep, j, p) \in Seq(P)
    BY <2>2 DEF AddTo
  <2>4. Append(ps, p) \in Seq(Seq(P))
    OBVIOUS
  <2> QED
    BY <2>1, <2>3, <2>4
<1> HIDE DEF T
<1>3. Seq(Seq(P)) \subseteq T
  BY <1>1, <1>2, TextInduction
<1> QED
  BY <1>3 DEF T

\* Parts that are not empty and have no separator are split as they were joined.
LEMMA SplitJoin ==
  ASSUME NEW P, NEW sep \in P, NEW I, I = {p \in Seq(P) : p # << >> /\ Plain(p, sep)}
  PROVE  \A ps \in Seq(I) : ps # << >> => Join(ps, sep) # << >> /\ Split(Join(ps, sep), sep) = ps
<1> DEFINE T == {ps \in Seq(I) : ps # << >> => Join(ps, sep) # << >> /\ Split(Join(ps, sep), sep) = ps}
<1>1. << >> \in T
  OBVIOUS
<1>2. ASSUME NEW ps \in Seq(I), NEW p \in I, ps \in T PROVE Append(ps, p) \in T
  <2> DEFINE j == Join(ps, sep)
  <2>1. Join(Append(ps, p), sep) = AddTo(sep, j, p)
    BY JoinAppend
  <2>2. j \in Seq(P)
    <3>1. ps \in Seq(Seq(P))
      OBVIOUS
    <3> QED
      BY <3>1, JoinTyped
  <2>3. p \in Seq(P) /\ p # << >> /\ Plain(p, sep) /\ Append(ps, p) \in Seq(I)
    OBVIOUS
  <2>4. ps # << >> => j # << >> /\ Split(j, sep) = ps
    BY <1>2
  <2>5. ps = << >> => j = << >>
    BY JoinNothing
  <2> HIDE DEF j
  <2>6. CASE ps = << >>
    <3>1. AddTo(sep, j, p) = p
      BY <2>3, <2>5, <2>6 DEF AddTo
    <3>2. Split(p, sep) = <<p>>
      BY <2>3, SplitPlain
    <3>3. Append(ps, p) = <<p>>
      BY <2>6
    <3> QED
      BY <2>1, <2>3, <3>1, <3>2, <3>3
  <2>7. CASE ps # << >>
    <3>1. AddTo(sep, j, p) = j \o <<sep>> \o p
      BY <2>3, <2>4, <2>7 DEF AddTo
    <3>2. Split(j \o <<sep>> \o p, sep) = Append(Split(j, sep), p)
      BY <2>2, <2>3, SplitMore
    <3>3. j \o <<sep>> \o p # << >>
      BY <2>2, <2>3
    <3> QED
      BY <2>1, <2>3, <2>4, <2>7, <3>1, <3>2, <3>3, Zenon
  <2> QED
    BY <2>6, <2>7
<1> HIDE DEF T
<1>3. Seq(I) \subseteq T
  BY <1>1, <1>2, TextInduction
<1> QED
  BY <1>3 DEF T

------------------------------------------------------------------------------
(***************************************************************************)
(* Writing pairs of a key and a text, and reading them.                     *)
(***************************************************************************)

\* A set in some order: each of its elements once.
Orders(f, n, K) ==
  /\ f \in [1 .. n -> K]
  /\ \A i, j \in 1 .. n : f[i] = f[j] => i = j
  /\ \A k \in K : \E i \in 1 .. n : f[i] = k
  /\ n = 0 <=> K = {}

\* SetToSeq finds one for a finite set.
LEMMA SetToSeqIs ==
  ASSUME NEW K, IsFiniteSet(K)
  PROVE  \E n \in Nat : Orders(SetToSeq(K), n, K) /\ Len(SetToSeq(K)) = n
<1> DEFINE n == Cardinality(K)
           f == SetToSeq(K)
<1>1. n \in Nat /\ ExistsBijection(1 .. n, K)
  BY FS_CardinalityType
<1>2. (n = 0) <=> (K = {})
  BY FS_EmptySet
<1>3. Cardinality(1 .. n) = n /\ IsFiniteSet(1 .. n)
  BY <1>1, FS_Interval, SMT
<1> HIDE DEF n
<1>4. PICK g : g \in Bijection(1 .. n, K)
  BY <1>1 DEF ExistsBijection
<1>5. g \in [1 .. n -> K] /\ IsInjective(g)
  BY <1>4 DEF Bijection, Injection, IsInjective
<1>6. f \in [1 .. n -> K] /\ IsInjective(f)
  BY <1>5 DEF n, SetToSeq
<1> HIDE DEF f
<1>7. f \in Injection(1 .. n, K)
  BY <1>6 DEF Injection, IsInjective
<1>8. f \in Surjection(1 .. n, K)
  BY <1>3, <1>7, FS_Injection DEF n
<1>9. Orders(f, n, K)
  BY <1>2, <1>6, <1>8 DEF Surjection, IsInjective, Orders, n
<1>10. Len(f) = n
  BY <1>1, <1>6
<1> QED
  BY <1>1, <1>9, <1>10 DEF f

\* A key that one item has, has its text from there.
LEMMA LastWithIs ==
  ASSUME NEW kv, DOMAIN kv \subseteq Int, NEW i \in DOMAIN kv,
         \A j \in DOMAIN kv : kv[j][1] = kv[i][1] => j = i
  PROVE  LastWith(kv, kv[i][1]) = i
<1>1. ~ (i > i)
  BY SMT
<1>2. \A j \in DOMAIN kv : j > i => kv[j][1] # kv[i][1]
  BY <1>1, Zenon
<1> QED
  BY <1>2, Zenon DEF LastWith

\* A key, a sign and a text are pieces without a separator, if they are not one.
LEMMA ItemPieces ==
  ASSUME NEW P, NEW k \in P, NEW e \in P, NEW sep, k # sep, e # sep, NEW v \in Seq(P), Plain(v, sep)
  PROVE  <<k, e>> \o v \in Seq(P) /\ <<k, e>> \o v # << >> /\ Plain(<<k, e>> \o v, sep)
<1> DEFINE a == <<k, e>>
           t == a \o v
<1>1. a \in Seq(P) /\ Len(a) = 2 /\ a[1] = k /\ a[2] = e
  OBVIOUS
<1> HIDE DEF a
<1>2. t \in Seq(P) /\ Len(t) = Len(v) + 2 /\ Len(v) \in Nat /\ t[1] = k /\ t[2] = e
      /\ \A j \in 1 .. Len(v) : t[j + 2] = v[j]
  <2>0. Len(v) \in Nat
    OBVIOUS
  <2>1. t \in Seq(P) /\ Len(t) = Len(a) + Len(v)
        /\ \A j \in 1 .. Len(a) + Len(v) : t[j] = IF j <= Len(a) THEN a[j] ELSE v[j - Len(a)]
    BY <1>1, ConcatProperties, Zenon
  <2> HIDE DEF t
  <2> QED
    BY <1>1, <2>0, <2>1
<1> HIDE DEF t
<1>3. t # << >>
  BY <1>2
<1>4. ASSUME NEW j \in 1 .. Len(t) PROVE t[j] # sep
  <2>1. CASE j \in {1, 2}
    BY <1>2, <2>1
  <2>2. CASE j \notin {1, 2}
    <3>1. j - 2 \in 1 .. Len(v) /\ (j - 2) + 2 = j
      BY <1>2, <2>2
    <3>2. t[j] = v[j - 2]
      BY <1>2, <3>1
    <3> QED
      BY <3>1, <3>2 DEF Plain
  <2> QED
    BY <2>1, <2>2
<1> QED
  BY <1>2, <1>3, <1>4 DEF Plain, t, a

\* What a pair is.
LEMMA TwoParts == \A a, b, w : w = <<a, b>> => Len(w) = 2 /\ w[1] = a /\ w[2] = b
  OBVIOUS

\* Two pieces more, one after the other.
LEMMA TwoMore ==
  ASSUME NEW P, NEW s \in Seq(P), NEW a \in P, NEW b \in P
  PROVE  s \o <<a>> \o <<b>> = s \o <<a, b>>
<1> DEFINE t == s \o <<a>>
           d == <<b>>
           c == <<a, b>>
           u == t \o d
           w == s \o c
<1>1. Len(s) \in Nat /\ t \in Seq(P) /\ Len(t) = Len(s) + 1 /\ t[Len(s) + 1] = a
      /\ \A i \in 1 .. Len(s) : t[i] = s[i]
  OBVIOUS
<1>2. d \in Seq(P) /\ Len(d) = 1 /\ d[1] = b /\ c \in Seq(P) /\ Len(c) = 2 /\ c[1] = a /\ c[2] = b
  OBVIOUS
<1> HIDE DEF t, d, c
<1>3. u \in Seq(P) /\ Len(u) = Len(t) + Len(d)
      /\ \A i \in 1 .. Len(t) + Len(d) : u[i] = IF i <= Len(t) THEN t[i] ELSE d[i - Len(t)]
  BY <1>1, <1>2, ConcatProperties, Zenon
<1>4. w \in Seq(P) /\ Len(w) = Len(s) + Len(c)
      /\ \A i \in 1 .. Len(s) + Len(c) : w[i] = IF i <= Len(s) THEN s[i] ELSE c[i - Len(s)]
  BY <1>2, ConcatProperties, Zenon
<1> HIDE DEF u, w
<1>5. ASSUME NEW i \in 1 .. Len(s) + 2 PROVE u[i] = w[i]
  <2>1. CASE i \in 1 .. Len(s)
    BY <1>1, <1>2, <1>3, <1>4, <2>1
  <2>2. CASE i = Len(s) + 1
    BY <1>1, <1>2, <1>3, <1>4, <2>2
  <2>3. CASE i = Len(s) + 2
    <3>1. i - Len(t) = 1 /\ i - Len(s) = 2 /\ ~ (i <= Len(t)) /\ ~ (i <= Len(s))
      BY <1>1, <2>3
    <3>2. i \in 1 .. Len(t) + Len(d) /\ i \in 1 .. Len(s) + Len(c)
      BY <1>1, <1>2, <2>3
    <3>3. u[i] = d[1] /\ w[i] = c[2]
      BY <1>3, <1>4, <3>1, <3>2
    <3> QED
      BY <1>2, <3>3
  <2> QED
    BY <1>1, <2>1, <2>2, <2>3
<1>6. u = w
  BY <1>1, <1>2, <1>3, <1>4, <1>5, SeqEqual
<1> QED
  BY <1>6 DEF u, w, t, d, c

\* Nothing has no index.
LEMMA NoIndex == \A s : s = << >> => DOMAIN s = {}
  OBVIOUS

\* Two parts are not more than two.
LEMMA NoMoreThanTwo == \A x : x = 2 => ~ (x > 2)
  OBVIOUS

\* Read back, each key has the text it was written with, and there are no others.
Reads(kv, n, keys, m) ==
  DOMAIN kv = 1 .. n /\ \A i \in 1 .. n : kv[i] = << <<keys[i]>>, m[keys[i]] >>

ReadBack(kv, K, m) ==
  /\ \A i \in DOMAIN kv : Len(kv[i]) = 2
  /\ {kv[i][1] : i \in DOMAIN kv} = {<<k>> : k \in K}
  /\ \A k \in K : kv[LastWith(kv, <<k>>)] = << <<k>>, m[k] >>

LEMMA LastOfKeys ==
  ASSUME NEW K, NEW n \in Nat, NEW keys, Orders(keys, n, K), NEW m, NEW kv, Reads(kv, n, keys, m)
  PROVE  ReadBack(kv, K, m)
<1>1. /\ keys \in [1 .. n -> K] /\ \A k \in K : \E i \in 1 .. n : keys[i] = k
      /\ \A i, j \in 1 .. n : keys[i] = keys[j] => i = j
  BY DEF Orders
<1>2. /\ DOMAIN kv = 1 .. n
      /\ \A i \in 1 .. n : kv[i] = << <<keys[i]>>, m[keys[i]] >> /\ kv[i][1] = <<keys[i]>>
  BY DEF Reads
<1>0. \A i \in DOMAIN kv : Len(kv[i]) = 2
  BY <1>2, TwoParts, Zenon
<1>3. {kv[i][1] : i \in DOMAIN kv} = {<<k>> : k \in K}
  BY <1>1, <1>2
<1>4. ASSUME NEW k \in K PROVE kv[LastWith(kv, <<k>>)] = << <<k>>, m[k] >>
  <2>1. PICK i \in 1 .. n : keys[i] = k
    BY <1>1
  <2>2. \A a, b : <<a>> = <<b>> => a = b
    OBVIOUS
  <2>3. \A j \in DOMAIN kv : kv[j][1] = kv[i][1] => j = i
    BY <1>1, <1>2, <2>2
  <2>4. DOMAIN kv \subseteq Int /\ i \in DOMAIN kv /\ kv[i][1] = <<k>>
    BY <1>2, <2>1
  <2>5. LastWith(kv, kv[i][1]) = i
    BY <2>3, <2>4, LastWithIs
  <2> QED
    BY <1>2, <2>1, <2>4, <2>5
<1> QED
  BY <1>0, <1>3, <1>4 DEF ReadBack

\* A function on the first numbers is a sequence.
LEMMA Listed ==
  ASSUME NEW G, NEW n \in Nat, NEW f \in [1 .. n -> G]
  PROVE  f \in Seq(G) /\ Len(f) = n /\ (n # 0 => f # << >>)
<1>1. f \in Seq(G) /\ Len(f) = n
  OBVIOUS
<1>2. Len(<< >>) = 0
  OBVIOUS
<1> QED
  BY <1>1, <1>2, Zenon

\* What Pairs joins.
Items(m) ==
  LET keys == SetToSeq(DOMAIN m) IN [i \in 1 .. Len(keys) |-> <<keys[i], "=">> \o m[keys[i]]]

\* Nothing is written of nothing.
LEMMA PairsOfNothing == ASSUME NEW m, DOMAIN m = {} PROVE Pairs(m) = << >>
<1> DEFINE K == DOMAIN m
           keys == SetToSeq(K)
           u == Items(m)
<1>1. IsFiniteSet(K)
  BY FS_EmptySet
<1>2. PICK n \in Nat : Orders(keys, n, K) /\ Len(keys) = n
  BY <1>1, SetToSeqIs
<1>3. Len(keys) = 0
  BY <1>2 DEF Orders
<1>4. u = [i \in 1 .. 0 |-> <<keys[i], "=">> \o m[keys[i]]]
  BY <1>3 DEF Items
<1>5. u = << >>
  BY <1>4
<1>6. Pairs(m) = Join(u, ",")
  BY DEF Pairs, Items
<1> QED
  BY <1>5, <1>6, JoinNothing

\* Keys that do not separate, some of them, and texts without a comma.
Writable(m, P) ==
  /\ "," \in P /\ "=" \in P
  /\ IsFiniteSet(DOMAIN m) /\ DOMAIN m # {} /\ DOMAIN m \subseteq P
  /\ DOMAIN m \cap {",", "="} = {}
  /\ \A k \in DOMAIN m : m[k] \in Seq(P) /\ Plain(m[k], ",")

\* Texts without a comma come apart into the keys and texts that were written,
\* but for those with an equals sign, which come apart further.
LEMMA SplitPairs ==
  ASSUME NEW P, NEW m, Writable(m, P)
  PROVE  \E n, keys :
           /\ n \in Nat /\ n # 0 /\ Orders(keys, n, DOMAIN m)
           /\ Pairs(m) # << >> /\ Pairs(m) \in Seq(P)
           /\ DOMAIN Split(Pairs(m), ",") = 1 .. n /\ Len(Split(Pairs(m), ",")) = n
           /\ \A i \in 1 .. n :
                /\ Split(Pairs(m), ",")[i] # << >>
                /\ Plain(m[keys[i]], "=") =>
                     Split(Split(Pairs(m), ",")[i], "=") = << <<keys[i]>>, m[keys[i]] >>
                /\ ~Plain(m[keys[i]], "=") => Len(Split(Split(Pairs(m), ",")[i], "=")) > 2
<1> DEFINE keys == SetToSeq(DOMAIN m)
           its == Items(m)
           Good == {p \in Seq(P) : p # << >> /\ Plain(p, ",")}
<1> USE DEF Writable
<1>1. PICK n \in Nat : Orders(keys, n, DOMAIN m) /\ Len(keys) = n
  BY SetToSeqIs
<1>2. n # 0 /\ keys \in [1 .. n -> DOMAIN m]
  BY <1>1 DEF Orders
<1>3. its = [i \in 1 .. n |-> <<keys[i], "=">> \o m[keys[i]]]
  BY <1>1 DEF Items
<1>4. Pairs(m) = Join(its, ",")
  BY DEF Pairs, Items
<1> HIDE DEF keys, its
<1>5. ASSUME NEW i \in 1 .. n PROVE its[i] \in Good
  <2>1. /\ keys[i] \in P /\ keys[i] # "," /\ "=" # ","
        /\ m[keys[i]] \in Seq(P) /\ Plain(m[keys[i]], ",")
    BY <1>2
  <2>2. its[i] = <<keys[i], "=">> \o m[keys[i]]
    BY <1>3
  <2>3. \A k \in P, v \in Seq(P) :
          k # "," /\ "=" # "," /\ Plain(v, ",") => <<k, "=">> \o v \in Good
    BY ItemPieces
  <2> HIDE DEF Good
  <2> QED
    BY <2>1, <2>2, <2>3, Zenon
<1>6. its \in Seq(Good) /\ its # << >> /\ DOMAIN its = 1 .. n /\ Len(its) = n
  <2> HIDE DEF Good
  <2>1. DOMAIN its = 1 .. n /\ its = [i \in 1 .. n |-> its[i]]
    BY <1>3, Zenon
  <2>2. its \in [1 .. n -> Good]
    BY <1>5, <2>1
  <2> QED
    BY <1>2, <2>1, <2>2, Listed
<1>7. Pairs(m) # << >> /\ Split(Pairs(m), ",") = its
  BY <1>4, <1>6, SplitJoin
<1>8. Pairs(m) \in Seq(P)
  <2>1. Good \subseteq Seq(P)
    OBVIOUS
  <2> HIDE DEF Good
  <2>2. its \in Seq(Seq(P))
    BY <1>6, <2>1, SeqMonotonic
  <2> QED
    BY <1>4, <2>2, JoinTyped
<1>9. ASSUME NEW i \in 1 .. n
      PROVE  /\ its[i] # << >>
             /\ Plain(m[keys[i]], "=") => Split(its[i], "=") = << <<keys[i]>>, m[keys[i]] >>
             /\ ~Plain(m[keys[i]], "=") => Len(Split(its[i], "=")) > 2
  <2>1. keys[i] \in P /\ keys[i] # "=" /\ m[keys[i]] \in Seq(P)
    BY <1>2
  <2>2. its[i] = <<keys[i], "=">> \o m[keys[i]]
    BY <1>3
  <2> QED
    <3>1. \A k \in P, v \in Seq(P) : k # "=" =>
            /\ Plain(v, "=") => Split(<<k, "=">> \o v, "=") = << <<k>>, v >>
            /\ ~Plain(v, "=") => Len(Split(<<k, "=">> \o v, "=")) > 2
      BY SplitItem
    <3>2. its[i] # << >>
      BY <1>5
    <3> QED
      BY <2>1, <2>2, <3>1, <3>2, Zenon
<1> QED
  BY <1>1, <1>2, <1>6, <1>7, <1>8, <1>9

\* Cut again, at each equals sign, they are pairs of a key and what was written
\* for it, unless there is an equals sign in that.
Cuts(kv, m) ==
  /\ DOMAIN kv = DOMAIN Split(Pairs(m), ",")
  /\ \A i \in DOMAIN kv : kv[i] = Split(Split(Pairs(m), ",")[i], "=")

LEMMA PairsRead ==
  ASSUME NEW P, NEW m, Writable(m, P), NEW kv, Cuts(kv, m)
  PROVE  /\ (\E k \in DOMAIN m : ~Plain(m[k], "=")) => \E i \in DOMAIN kv : Len(kv[i]) > 2
         /\ (\A k \in DOMAIN m : Plain(m[k], "=")) => ReadBack(kv, DOMAIN m, m)
<1> DEFINE K == DOMAIN m
           its == Split(Pairs(m), ",")
<1>1. PICK n, keys :
        /\ n \in Nat /\ n # 0 /\ Orders(keys, n, K)
        /\ DOMAIN its = 1 .. n
        /\ \A i \in 1 .. n :
             /\ Plain(m[keys[i]], "=") => Split(its[i], "=") = << <<keys[i]>>, m[keys[i]] >>
             /\ ~Plain(m[keys[i]], "=") => Len(Split(its[i], "=")) > 2
  BY SplitPairs
<1>2. DOMAIN kv = 1 .. n /\ \A i \in 1 .. n : kv[i] = Split(its[i], "=")
  BY <1>1 DEF Cuts
<1>3. keys \in [1 .. n -> K] /\ \A k \in K : \E i \in 1 .. n : keys[i] = k
  BY <1>1 DEF Orders
<1> HIDE DEF its, K
<1>4. ASSUME NEW k \in K, ~Plain(m[k], "=") PROVE \E i \in DOMAIN kv : Len(kv[i]) > 2
  <2>1. PICK i \in 1 .. n : keys[i] = k
    BY <1>3
  <2> QED
    BY <1>1, <1>2, <1>4, <2>1
<1>5. ASSUME \A k \in K : Plain(m[k], "=")
      PROVE  ReadBack(kv, K, m)
  <2>1. \A i \in 1 .. n : keys[i] \in K
    BY <1>3
  <2>2. Reads(kv, n, keys, m)
    BY <1>1, <1>2, <1>5, <2>1 DEF Reads
  <2>3. n \in Nat /\ Orders(keys, n, K)
    BY <1>1
  <2> QED
    BY <2>2, <2>3, LastOfKeys
<1> QED
  BY <1>4, <1>5 DEF K
==============================================================================
