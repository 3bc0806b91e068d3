------------------------- MODULE CdtsConstruct_proofs -------------------------
(***************************************************************************)
(* What a constructed tree says of its arrays' dimensions, for hosts that   *)
(* supply any number of elements, nested to any depth.  Each frame of the   *)
(* recursion knows something of the elements that are already settled; when *)
(* the array is closed that becomes what DimsExact and DimsSound say of it, *)
(* and nothing below a closed array changes afterwards.  The last section   *)
(* is about the traversal, which reports what was supplied, in its order.   *)
(***************************************************************************)
EXTENDS CdtsConstruct, SequenceTheorems, TLAPS

IsPlace == Seq(Nat)
Types == Leaves \cup {"array", "root"}
Nodes == [type : Types, len : Nat, fixed : BOOLEAN, oneD : BOOLEAN,
          manual : BOOLEAN, rank : Nat, dims : Int]
Frames == [at : IsPlace, next : Nat, found : Int]
Steps == [at : IsPlace, next : Nat]

NextPlace(f) == Append(f.at, f.next)            \* the place a frame is at
KidsIn(t, p) == {q \in DOMAIN t : q # << >> /\ Front(q) = p}
Settled(f) == {Append(f.at, j) : j \in 0 .. f.next - 1}

\* Only an array that construct_cdt fills has flags.
Unflagged(c) == c.type # "array" \/ c.manual => ~c.fixed /\ ~c.oneD

------------------------------------------------------------------------------
(***************************************************************************)
(* Places: an element's place is its array's and one index more.            *)
(***************************************************************************)

\* Appending an index makes a place of its own, one deeper.
LEMMA Appended ==
  ASSUME NEW p \in IsPlace, NEW j \in Nat
  PROVE  /\ Append(p, j) \in IsPlace /\ Append(p, j) # << >>
         /\ Len(Append(p, j)) = Len(p) + 1
         /\ Front(Append(p, j)) = p /\ Last(Append(p, j)) = j
         /\ \A i \in Nat : Append(p, i) = Append(p, j) => i = j
<1>1. /\ Append(p, j) \in Seq(Nat) /\ Len(Append(p, j)) = Len(p) + 1
      /\ Append(p, j) # << >>
      /\ \A i \in 1 .. Len(p) : Append(p, j)[i] = p[i]
  BY AppendProperties DEF IsPlace
<1>2. Front(Append(p, j)) = p
  BY <1>1, AppendProperties DEF IsPlace, Front
<1>3. \A i \in Nat : Append(p, i) = Append(p, j) => i = j
  BY AppendInjective DEF IsPlace
<1>4. Last(Append(p, j)) = j
  BY <1>1, AppendProperties DEF IsPlace, Last
<1> QED
  BY <1>1, <1>2, <1>3, <1>4 DEF IsPlace

\* Every place but the root's is an index appended to another place.
LEMMA Unappended ==
  ASSUME NEW q \in IsPlace, q # << >>
  PROVE  /\ Front(q) \in IsPlace /\ Len(Front(q)) = Len(q) - 1
         /\ \E j \in Nat : q = Append(Front(q), j)
<1>1. PICK p \in Seq(Nat), j \in Nat : q = Append(p, j)
  BY SequenceEmptyOrAppend DEF IsPlace
<1>2. Front(q) = p /\ Len(q) = Len(p) + 1 /\ Len(p) \in Nat
  BY <1>1, Appended DEF IsPlace
<1> QED
  BY <1>1, <1>2 DEF IsPlace

\* The elements of an array, as the properties name them, are the places one
\* index longer.
LEMMA KidIsPrefixed ==
  ASSUME NEW p \in IsPlace, NEW q \in IsPlace
  PROVE  IsStrictPrefix(p, q) /\ Len(q) = Len(p) + 1 <=> q # << >> /\ Front(q) = p
<1>1. Len(p) \in Nat /\ Len(q) \in Nat /\ Len(<< >>) = 0
  BY LenProperties, EmptySeq DEF IsPlace
<1>2. SubSeq(p, 1, Len(p)) = p
  BY SubSeqFull DEF IsPlace
<1>3. CASE q = << >>
  BY <1>1, <1>3
<1>4. CASE q # << >>
  <2>1. PICK j \in Nat : q = Append(Front(q), j)
    BY <1>4, Unappended
  <2>2. Front(q) \in IsPlace /\ Len(Front(q)) = Len(q) - 1
    BY <1>4, Unappended
  <2>3. ASSUME Front(q) = p  PROVE  IsStrictPrefix(p, q) /\ Len(q) = Len(p) + 1
    <3>1. SubSeq(q, 1, Len(p)) = p
      BY <2>2, <2>3, <1>1 DEF Front
    <3> QED
      BY <3>1, <2>2, <2>3, <1>1, <1>2 DEF IsStrictPrefix, IsPrefix
  <2>4. ASSUME IsStrictPrefix(p, q), Len(q) = Len(p) + 1  PROVE  Front(q) = p
    BY <2>4, <1>1, <1>2 DEF IsStrictPrefix, IsPrefix, Front
  <2> QED
    BY <2>3, <2>4, <1>4
<1> QED
  BY <1>3, <1>4

\* A settled element is one whose index the frame has passed.
LEMMA SettledPlaces ==
  ASSUME NEW f \in Frames
  PROVE  /\ NextPlace(f) \in IsPlace /\ NextPlace(f) # << >> /\ Front(NextPlace(f)) = f.at
         /\ NextPlace(f) \notin Settled(f)
         /\ Last(NextPlace(f)) = f.next
         /\ \A q \in Settled(f) : /\ q \in IsPlace /\ q # << >> /\ Front(q) = f.at
                                  /\ Last(q) \in 0 .. f.next - 1
                                  /\ \E j \in 0 .. f.next - 1 : q = Append(f.at, j)
         /\ \A j \in 0 .. f.next - 1 : Append(f.at, j) \in Settled(f)
         /\ \A g \in Frames : g.at = f.at /\ g.next = f.next + 1
              => /\ Settled(g) = Settled(f) \cup {NextPlace(f)}
                 /\ NextPlace(g) \notin Settled(f) \cup {NextPlace(f)}
<1>1. f.at \in IsPlace /\ f.next \in Nat
  BY DEF Frames
<1>2. /\ NextPlace(f) \in IsPlace /\ NextPlace(f) # << >> /\ Front(NextPlace(f)) = f.at
      /\ NextPlace(f) \notin Settled(f) /\ Last(NextPlace(f)) = f.next
  <2>1. /\ Append(f.at, f.next) \in IsPlace /\ Append(f.at, f.next) # << >>
        /\ Front(Append(f.at, f.next)) = f.at /\ Last(Append(f.at, f.next)) = f.next
    BY <1>1, Appended
  <2>2. \A j \in 0 .. f.next - 1 : Append(f.at, j) # Append(f.at, f.next)
    <3> TAKE j \in 0 .. f.next - 1
    <3>1. j \in Nat /\ j # f.next
      BY <1>1
    <3> QED
      BY <1>1, <3>1, Appended
  <2> QED
    BY <2>1, <2>2 DEF NextPlace, Settled
<1>3. \A q \in Settled(f) : /\ q \in IsPlace /\ q # << >> /\ Front(q) = f.at
                            /\ Last(q) \in 0 .. f.next - 1
                            /\ \E j \in 0 .. f.next - 1 : q = Append(f.at, j)
  <2> TAKE q \in Settled(f)
  <2>1. PICK j \in 0 .. f.next - 1 : q = Append(f.at, j)
    BY DEF Settled
  <2>2. j \in Nat
    BY <1>1
  <2>3. q \in IsPlace /\ q # << >> /\ Front(q) = f.at /\ Last(q) = j
    BY <1>1, <2>1, <2>2, Appended
  <2> QED
    BY <2>1, <2>3
<1>4. ASSUME NEW g \in Frames, g.at = f.at, g.next = f.next + 1
      PROVE  /\ Settled(g) = Settled(f) \cup {NextPlace(f)}
             /\ NextPlace(g) \notin Settled(f) \cup {NextPlace(f)}
  <2>1. 0 .. g.next - 1 = (0 .. f.next - 1) \cup {f.next}
    BY <1>1, <1>4
  <2>2. Settled(g) = Settled(f) \cup {NextPlace(f)}
    BY <2>1, <1>4 DEF Settled, NextPlace
  <2>3. \A j \in 0 .. g.next - 1 : Append(g.at, j) # Append(g.at, g.next)
    BY <1>1, <1>4, Appended
  <2> QED
    BY <2>2, <2>3 DEF Settled, NextPlace
<1> QED
  BY <1>2, <1>3, <1>4 DEF Settled

------------------------------------------------------------------------------
(***************************************************************************)
(* Dimensions: what a frame knows, and what a closed array says.            *)
(***************************************************************************)

\* Arrays without dimensions up to the n-th element, of d dimensions from there.
Run(t, K, n, d) == \A q \in K : /\ t[q].type = "array"
                              /\ t[q].dims = IF Last(q) < n THEN IntMin ELSE d

\* The elements settled so far, as far as the frame has counted them.
SoundFrame(t, f) ==
  LET a == t[f.at]
      K == Settled(f) IN
  /\ f.found # Mixed => a.type = "array" /\ a.fixed
  /\ a.oneD => \A q \in K : t[q].type # "array"
  /\ ~a.oneD /\ f.found = IntMin => Run(t, K, f.next, f.found)
  /\ ~a.oneD /\ f.found \notin {Mixed, IntMin} =>
       \E n \in 0 .. f.next - 1 : Run(t, K, n, f.found)
  /\ ~a.oneD /\ a.fixed /\ f.found = Mixed =>
       \E q, r \in K : t[q].type # "array" \/ t[q].dims = Mixed \/ t[q].dims # t[r].dims

\* An array whose elements are all there: DimsExact and DimsSound, of one array.
SoundArray(t, p) ==
  LET a == t[p]
      K == KidsIn(t, p)
      Nested == \A q \in K : t[q].type = "array" /\ t[q].dims # IntMin IN
  /\ a.oneD => \A q \in K : t[q].type # "array"
  /\ ~a.manual /\ a.dims >= 1 /\ ~a.oneD
       => \E n \in 0 .. a.len - 1 : Run(t, K, n, a.dims - 1)
  /\ a.fixed /\ ~a.oneD /\ Nested /\ K # {} =>
       /\ \A q \in K : t[q].dims # Mixed /\ (\A r \in K : t[r].dims = t[q].dims)
                       => a.dims = t[q].dims + 1
       /\ \A q, r \in K : t[q].dims = Mixed \/ t[q].dims # t[r].dims => a.dims = Mixed

\* Neither depends on more than its own elements.
LEMMA FrameKept ==
  ASSUME NEW t, NEW u, NEW f, SoundFrame(t, f),
         u[f.at].type = t[f.at].type, u[f.at].fixed = t[f.at].fixed,
         u[f.at].oneD = t[f.at].oneD, \A q \in Settled(f) : u[q] = t[q]
  PROVE  SoundFrame(u, f)
  BY DEF SoundFrame, Run

\* So does a closed array.
LEMMA ArrayKept ==
  ASSUME NEW t, NEW u, NEW p, SoundArray(t, p), u[p] = t[p],
         KidsIn(u, p) = KidsIn(t, p), \A q \in KidsIn(t, p) : u[q] = t[q]
  PROVE  SoundArray(u, p)
  BY DEF SoundArray, Run

\* When the next element is not refused and is seen for what it is, the frame
\* knows as much of it as of the others.
LEMMA Advance ==
  ASSUME NEW t, NEW f \in Frames, NEW g \in Frames, SoundFrame(t, f),
         t[f.at].oneD = node[f.at].oneD,
         t[f.at].oneD \in BOOLEAN, \A q \in Settled(f) : t[q].dims \in Int,
         t[NextPlace(f)].dims \in Int,
         ~Refused(f, t[NextPlace(f)]),
         g.at = f.at, g.next = f.next + 1, g.found = Found(f, t[NextPlace(f)])
  PROVE  SoundFrame(t, g)
<1> DEFINE c == t[NextPlace(f)]
           a == t[f.at]
           K == Settled(f)
           L == K \cup {NextPlace(f)}
<1>1. Settled(g) = L
  BY SettledPlaces
<1>2. /\ f.found \in Int /\ g.found \in Int /\ f.next \in Nat
      /\ Last(NextPlace(f)) = f.next
      /\ \A q \in K : Last(q) \in 0 .. f.next - 1
  BY SettledPlaces DEF Frames
<1>3. /\ f.found # Mixed => a.type = "array" /\ a.fixed
      /\ a.oneD => \A q \in K : t[q].type # "array"
      /\ ~a.oneD /\ f.found = IntMin => Run(t, K, f.next, f.found)
      /\ ~a.oneD /\ f.found \notin {Mixed, IntMin} =>
            \E n \in 0 .. f.next - 1 : Run(t, K, n, f.found)
      /\ ~a.oneD /\ a.fixed /\ f.found = Mixed =>
            \E q, r \in K : t[q].type # "array" \/ t[q].dims = Mixed \/ t[q].dims # t[r].dims
  BY DEF SoundFrame
<1>4. a.oneD => c.type # "array"
  BY DEF Refused
<1>5. g.found = IF a.oneD \/ f.found = Mixed THEN f.found
                ELSE IF c.type # "array" THEN Mixed
                ELSE IF f.found = IntMin THEN c.dims
                ELSE IF f.found # c.dims THEN Mixed
                ELSE f.found
  BY DEF Found, Counts
<1>6. Mixed # IntMin
  BY SMT DEF Mixed, IntMin
<1>7. g.next = f.next + 1
  OBVIOUS
<1> SUFFICES
      /\ g.found # Mixed => a.type = "array" /\ a.fixed
      /\ a.oneD => \A q \in L : t[q].type # "array"
      /\ ~a.oneD /\ g.found = IntMin => Run(t, L, g.next, g.found)
      /\ ~a.oneD /\ g.found \notin {Mixed, IntMin} =>
            \E n \in 0 .. g.next - 1 : Run(t, L, n, g.found)
      /\ ~a.oneD /\ a.fixed /\ g.found = Mixed =>
            \E q, r \in L : t[q].type # "array" \/ t[q].dims = Mixed \/ t[q].dims # t[r].dims
  BY <1>1 DEF SoundFrame
<1>a. CASE a.oneD
  BY <1>a, <1>3, <1>4, <1>5
<1>b. CASE ~a.oneD /\ f.found = Mixed
  BY <1>b, <1>3, <1>5, <1>6
<1>c. CASE ~a.oneD /\ f.found # Mixed /\ c.type # "array"
  BY <1>c, <1>3, <1>5, <1>6
<1>d. CASE ~a.oneD /\ f.found = IntMin /\ c.type = "array"
  <2>1. g.found = c.dims /\ a.type = "array" /\ a.fixed
    BY <1>d, <1>3, <1>5, <1>6
  <2>2. \A q \in K : t[q].type = "array" /\ t[q].dims = IntMin /\ Last(q) < f.next
    BY <1>d, <1>2, <1>3 DEF Run
  <2>3. CASE c.dims = IntMin
    <3>1. Run(t, L, g.next, g.found)
      BY <2>1, <2>2, <2>3, <1>d DEF Run
    <3> QED
      BY <3>1, <2>1, <2>3, <1>d, <1>6
  <2>4. CASE c.dims = Mixed
    BY <2>1, <2>4, <1>d, <1>6
  <2>5. CASE c.dims \notin {IntMin, Mixed}
    <3>1. Run(t, L, f.next, g.found)
      BY <2>1, <2>2, <1>d, <1>2 DEF Run
    <3>2. f.next \in 0 .. g.next - 1
      BY <1>2, <1>7
    <3> QED
      BY <3>1, <3>2, <2>1, <2>5, <1>d
  <2> QED
    BY <2>3, <2>4, <2>5
<1>e. CASE ~a.oneD /\ f.found \notin {Mixed, IntMin} /\ c.type = "array"
  <2>1. PICK n \in 0 .. f.next - 1 : Run(t, K, n, f.found)
    BY <1>e, <1>3
  <2>2. a.type = "array" /\ a.fixed /\ n \in Nat /\ n < f.next
    BY <1>e, <1>2, <1>3
  <2>3. CASE f.found = c.dims
    <3>1. Run(t, L, n, g.found) /\ g.found = f.found
      BY <1>e, <2>1, <2>2, <2>3, <1>2, <1>5 DEF Run
    <3>2. n \in 0 .. g.next - 1
      BY <2>2, <1>2, <1>7
    <3> QED
      BY <3>1, <3>2, <2>2, <1>e
  <2>4. CASE f.found # c.dims
    <3>1. Append(f.at, n) \in K /\ Last(Append(f.at, n)) = n
      BY <2>2, SettledPlaces, Appended DEF Frames
    <3>2. t[Append(f.at, n)].dims = f.found
      BY <3>1, <2>1, <2>2 DEF Run
    <3>3. g.found = Mixed
      BY <1>e, <2>4, <1>5
    <3> QED
      BY <3>1, <3>2, <3>3, <2>4, <1>e, <1>6
  <2> QED
    BY <2>3, <2>4
<1> QED
  BY <1>a, <1>b, <1>c, <1>d, <1>e

\* A frame at its array's end makes an array of it that says what it knows.
LEMMA Close ==
  ASSUME NEW t, NEW u, NEW f \in Frames, SoundFrame(t, f),
         t[f.at] \in Nodes, Unflagged(t[f.at]), t[f.at].type = "array",
         t[f.at].oneD = node[f.at].oneD, t[f.at].len = f.next,
         KidsIn(t, f.at) = Settled(f),
         \A q \in KidsIn(t, f.at) : t[q].dims \in Int,
         KidsIn(u, f.at) = KidsIn(t, f.at),
         \A q \in KidsIn(t, f.at) : u[q] = t[q],
         ~t[f.at].manual => u[f.at].dims = Dims(f),
         u[f.at].type = t[f.at].type, u[f.at].len = t[f.at].len,
         u[f.at].fixed = t[f.at].fixed, u[f.at].oneD = t[f.at].oneD,
         u[f.at].manual = t[f.at].manual
  PROVE  SoundArray(u, f.at)
<1> DEFINE a == t[f.at]
           b == u[f.at]
           K == Settled(f)
<1>1. /\ b.fixed = a.fixed /\ b.oneD = a.oneD /\ b.type = a.type /\ b.len = f.next
      /\ b.manual = a.manual /\ (~a.manual => b.dims = Dims(f))
      /\ a.oneD \in BOOLEAN /\ a.fixed \in BOOLEAN /\ a.manual \in BOOLEAN
      /\ (a.manual => ~a.fixed /\ ~a.oneD)
  BY DEF Nodes, Unflagged
<1>2. f.found \in Int /\ f.next \in Nat
  BY DEF Frames
<1>3. /\ f.found # Mixed => a.type = "array" /\ a.fixed
      /\ a.oneD => \A q \in K : u[q].type # "array"
      /\ ~a.oneD /\ f.found = IntMin => Run(u, K, f.next, f.found)
      /\ ~a.oneD /\ f.found \notin {Mixed, IntMin} =>
            \E n \in 0 .. f.next - 1 : Run(u, K, n, f.found)
      /\ ~a.oneD /\ a.fixed /\ f.found = Mixed =>
            \E q, r \in K : u[q].type # "array" \/ u[q].dims = Mixed \/ u[q].dims # u[r].dims
  BY DEF SoundFrame, Run
<1>4. ~a.manual =>
        b.dims = IF a.oneD THEN 1 ELSE IF f.found # Mixed THEN f.found + 1 ELSE Mixed
  BY <1>1 DEF Dims
<1>5. Mixed = -1 /\ \A d \in Int : d >= -1 => d # IntMin
  BY SMT DEF Mixed, IntMin
<1>6. \A q \in K : u[q].dims \in Int
  OBVIOUS
<1>7. b.oneD => \A q \in K : u[q].type # "array"
  BY <1>1, <1>3
<1>8. ASSUME ~b.manual, b.dims >= 1, ~b.oneD
      PROVE  \E n \in 0 .. b.len - 1 : Run(u, K, n, b.dims - 1)
  <2>1. f.found # Mixed /\ b.dims = f.found + 1
    BY <1>8, <1>1, <1>2, <1>4, <1>5
  <2>2. f.found # IntMin /\ b.dims - 1 = f.found
    BY <1>8, <2>1, <1>2, <1>5
  <2> QED
    BY <1>8, <2>1, <2>2, <1>1, <1>3
<1>9. ASSUME b.fixed, ~b.oneD, K # {},
             \A q \in K : u[q].type = "array" /\ u[q].dims # IntMin
      PROVE  /\ \A q \in K : u[q].dims # Mixed /\ (\A r \in K : u[r].dims = u[q].dims)
                              => b.dims = u[q].dims + 1
             /\ \A q, r \in K : u[q].dims = Mixed \/ u[q].dims # u[r].dims => b.dims = Mixed
  <2>1. CASE f.found = Mixed
    BY <2>1, <1>1, <1>3, <1>4, <1>9
  <2>2. CASE f.found # Mixed
    <3>1. \A q \in K : Last(q) \in 0 .. f.next - 1
      BY SettledPlaces
    <3>2. f.found # IntMin
      BY <3>1, <2>2, <1>1, <1>2, <1>3, <1>9 DEF Run
    <3>3. \A q \in K : u[q].dims = f.found
      BY <3>2, <2>2, <1>1, <1>3, <1>9 DEF Run
    <3> QED
      BY <3>3, <2>2, <1>1, <1>4, <1>9
  <2> QED
    BY <2>1, <2>2
<1> QED
  BY <1>7, <1>8, <1>9 DEF SoundArray

------------------------------------------------------------------------------
(***************************************************************************)
(* The stack: each frame is at the element the next one is filling.         *)
(***************************************************************************)

FrameOK(t, s, i) ==
  LET f == s[i] IN
  /\ f.at \in DOMAIN t /\ Len(f.at) = i - 1
  /\ t[f.at].type = IF i = 1 THEN "root" ELSE "array"
  /\ f.next <= t[f.at].len
  /\ Settled(f) \subseteq DOMAIN t
  /\ KidsIn(t, f.at) \subseteq Settled(f) \cup {NextPlace(f)}
  /\ i < Len(s) => f.next < t[f.at].len /\ s[i + 1].at = NextPlace(f)
  /\ SoundFrame(t, f)

Chain(t, s) == s \in Seq(Frames) /\ \A i \in 1 .. Len(s) : FrameOK(t, s, i)

\* What the innermost frame is at has not been constructed.
Fresh(t, s) == s # << >> => NextPlace(Top(s)) \notin DOMAIN t

Opens(s) == {s[i].at : i \in 1 .. Len(s)}

TreeOK(t) ==
  /\ \A p \in DOMAIN t : /\ p \in IsPlace /\ t[p] \in Nodes
                         /\ Unflagged(t[p])
  /\ \A q \in DOMAIN t : q # << >> => Front(q) \in DOMAIN t

\* u is t and a new element h, with its own elements K.
Grows(t, u, h, K) ==
  /\ DOMAIN u = DOMAIN t \cup {h} \cup K
  /\ \A q \in DOMAIN t : u[q] = t[q]
  /\ h \in IsPlace /\ h # << >> /\ h \notin DOMAIN t /\ Front(h) \in DOMAIN t
  /\ \A k \in K : k \in IsPlace /\ k # << >> /\ Front(k) = h

\* A stack that is not empty has a top frame, and losing it leaves the rest.
LEMMA TopPop ==
  ASSUME NEW s \in Seq(Frames), s # << >>
  PROVE  /\ Len(s) \in Nat \ {0} /\ Top(s) = s[Len(s)] /\ Top(s) \in Frames
         /\ Pop(s) \in Seq(Frames) /\ Len(Pop(s)) = Len(s) - 1
         /\ \A i \in 1 .. Len(s) - 1 : Pop(s)[i] = s[i]
         /\ \A i \in 1 .. Len(s) : s[i] \in Frames
<1>1. Len(s) \in Nat \ {0} /\ \A i \in 1 .. Len(s) : s[i] \in Frames
  BY EmptySeq, ElementOfSeq
<1>2. Pop(s) = SubSeq(s, 1, Len(s) - 1) /\ Top(s) = s[Len(s)]
  BY DEF Pop, Top
<1>3. /\ Pop(s) \in Seq(Frames) /\ Len(Pop(s)) = Len(s) - 1
      /\ \A i \in 1 .. Len(s) - 1 : Pop(s)[i] = s[i]
  <2>1. \A i \in 1 .. Len(s) - 1 : s[i] \in Frames
    BY <1>1
  <2>2. 1 \in Int /\ Len(s) - 1 \in Int
    BY <1>1
  <2>3. /\ SubSeq(s, 1, Len(s) - 1) \in Seq(Frames)
        /\ Len(SubSeq(s, 1, Len(s) - 1))
             = IF 1 <= Len(s) - 1 THEN (Len(s) - 1) - 1 + 1 ELSE 0
        /\ \A i \in 1 .. (Len(s) - 1) - 1 + 1 : SubSeq(s, 1, Len(s) - 1)[i] = s[1 + i - 1]
    BY <2>1, <2>2, SubSeqProperties
  <2>4. ASSUME NEW i \in 1 .. Len(s) - 1  PROVE Pop(s)[i] = s[i]
    <3>1. i \in 1 .. (Len(s) - 1) - 1 + 1 /\ 1 + i - 1 = i
      BY <1>1
    <3> QED
      BY <2>3, <3>1, <1>2
  <2>5. Len(Pop(s)) = Len(s) - 1
    <3>1. Len(Pop(s)) = IF 1 <= Len(s) - 1 THEN (Len(s) - 1) - 1 + 1 ELSE 0
      BY <2>3, <1>2, Zenon
    <3>2. PICK n \in Nat \ {0} : n = Len(s)
      BY <1>1
    <3> HIDE DEF Pop
    <3> QED
      BY <3>1, <3>2
  <2> QED
    BY <2>3, <2>4, <2>5, <1>2
<1> QED
  BY <1>1, <1>2, <1>3

\* The elements of the tree after it has grown.
LEMMA GrownKids ==
  ASSUME NEW t, NEW u, NEW h, NEW K, TreeOK(t), Grows(t, u, h, K)
  PROVE  /\ \A p \in DOMAIN t : p # Front(h) => KidsIn(u, p) = KidsIn(t, p)
         /\ KidsIn(u, Front(h)) = KidsIn(t, Front(h)) \cup {h}
         /\ KidsIn(u, h) = K
         /\ \A k \in K : k \notin DOMAIN t
<1>1. Front(h) # h
  <2>1. Len(Front(h)) = Len(h) - 1 /\ Len(h) \in Nat
    BY Unappended, LenProperties DEF Grows, IsPlace
  <2> QED
    BY <2>1
<1>2. \A k \in K : k \notin DOMAIN t
  BY DEF Grows, TreeOK
<1>3. ASSUME NEW p \in DOMAIN t, p # Front(h)  PROVE KidsIn(u, p) = KidsIn(t, p)
  BY <1>3, <1>2 DEF Grows, KidsIn
<1>4. KidsIn(u, Front(h)) = KidsIn(t, Front(h)) \cup {h}
  BY <1>1 DEF Grows, KidsIn
<1>5. KidsIn(u, h) = K
  BY <1>1 DEF Grows, KidsIn, TreeOK
<1> QED
  BY <1>2, <1>3, <1>4, <1>5

\* A tree stays one as it grows.
LEMMA GrownTree ==
  ASSUME NEW t, NEW u, NEW h, NEW K, TreeOK(t), Grows(t, u, h, K),
         \A p \in {h} \cup K : u[p] \in Nodes /\ Unflagged(u[p])
  PROVE  TreeOK(u)
<1>1. ASSUME NEW p \in DOMAIN u
      PROVE  /\ p \in IsPlace /\ u[p] \in Nodes
             /\ Unflagged(u[p])
             /\ p # << >> => Front(p) \in DOMAIN u
  <2>1. CASE p \in DOMAIN t
    BY <2>1 DEF Grows, TreeOK
  <2>2. CASE p \in {h} \cup K
    BY <2>2 DEF Grows
  <2> QED
    BY <2>1, <2>2 DEF Grows
<1> QED
  BY <1>1 DEF TreeOK

\* What a frame needs of the tree.
LEMMA FrameOKKept ==
  ASSUME NEW t, NEW u, NEW s, NEW i \in 1 .. Len(s), FrameOK(t, s, i),
         DOMAIN t \subseteq DOMAIN u,
         u[s[i].at].type = t[s[i].at].type, u[s[i].at].len = t[s[i].at].len,
         u[s[i].at].fixed = t[s[i].at].fixed, u[s[i].at].oneD = t[s[i].at].oneD,
         \A q \in Settled(s[i]) : u[q] = t[q],
         KidsIn(u, s[i].at) \subseteq Settled(s[i]) \cup {NextPlace(s[i])}
  PROVE  FrameOK(u, s, i)
<1>1. SoundFrame(t, s[i])
  BY DEF FrameOK
<1>2. SoundFrame(u, s[i])
  BY <1>1, FrameKept
<1> QED
  BY <1>2 DEF FrameOK

\* The innermost frame gains an element it is at; the others see no change.
LEMMA GrownChain ==
  ASSUME NEW t, NEW u, NEW s, NEW h, NEW K, TreeOK(t), Grows(t, u, h, K),
         Chain(t, s), s # << >>, h = NextPlace(Top(s))
  PROVE  Chain(u, s)
<1>1. \A i \in 1 .. Len(s) : s[i] \in Frames /\ FrameOK(t, s, i)
  BY TopPop DEF Chain
<1>2. Front(h) = s[Len(s)].at /\ Len(s) \in Nat \ {0} /\ Len(s) \in 1 .. Len(s)
  BY TopPop, SettledPlaces DEF Chain
<1>3. ASSUME NEW i \in 1 .. Len(s)  PROVE FrameOK(u, s, i)
  <2>1. /\ s[i].at \in DOMAIN t /\ Settled(s[i]) \subseteq DOMAIN t
        /\ KidsIn(t, s[i].at) \subseteq Settled(s[i]) \cup {NextPlace(s[i])}
        /\ Len(s[i].at) = i - 1 /\ Len(s[Len(s)].at) = Len(s) - 1
    BY <1>1, <1>2 DEF FrameOK
  <2>2. KidsIn(u, s[i].at) \subseteq Settled(s[i]) \cup {NextPlace(s[i])}
    <3>1. CASE i = Len(s)
      BY <3>1, <2>1, <1>2, GrownKids, TopPop DEF Chain
    <3>2. CASE i # Len(s)
      <4>1. s[i].at # Front(h)
        BY <3>2, <2>1, <1>2
      <4> QED
        BY <4>1, <2>1, GrownKids
    <3> QED
      BY <3>1, <3>2
  <2>3. /\ DOMAIN t \subseteq DOMAIN u /\ u[s[i].at] = t[s[i].at]
        /\ \A q \in Settled(s[i]) : u[q] = t[q]
    BY <2>1 DEF Grows
  <2> QED
    BY <1>1, <2>2, <2>3, FrameOKKept
<1> QED
  BY <1>3 DEF Chain

\* Closed arrays are not touched by what is added to the innermost open one.
LEMMA GrownArrays ==
  ASSUME NEW t, NEW u, NEW s, NEW h, NEW K, TreeOK(t), Grows(t, u, h, K),
         Chain(t, s), s # << >>, h = NextPlace(Top(s)),
         NEW p \in DOMAIN t, p \notin Opens(s), SoundArray(t, p)
  PROVE  SoundArray(u, p)
<1>1. Front(h) \in Opens(s)
  BY TopPop, SettledPlaces DEF Chain, Opens
<1>2. KidsIn(u, p) = KidsIn(t, p)
  BY <1>1, GrownKids
<1>3. u[p] = t[p] /\ \A q \in KidsIn(t, p) : u[q] = t[q]
  BY DEF Grows, KidsIn
<1> QED
  BY <1>2, <1>3, ArrayKept

\* A frame for an element that is an array goes on top.
LEMMA Pushed ==
  ASSUME NEW t, NEW s, Chain(t, s), s # << >>, NEW g \in Frames,
         Top(s).next < t[Top(s).at].len, g.at = NextPlace(Top(s)), g.next = 0,
         g.at \in DOMAIN t, t[g.at].type = "array", t[g.at].len \in Nat,
         KidsIn(t, g.at) = {}, SoundFrame(t, g)
  PROVE  /\ Chain(t, Append(s, g)) /\ Fresh(t, Append(s, g)) /\ Append(s, g) # << >>
         /\ Opens(Append(s, g)) = Opens(s) \cup {g.at}
<1> DEFINE r == Append(s, g)
<1>1. s \in Seq(Frames) /\ Len(s) \in Nat \ {0} /\ Top(s) = s[Len(s)] /\ Top(s) \in Frames
  BY TopPop DEF Chain
<1>2. /\ r \in Seq(Frames) /\ Len(r) = Len(s) + 1 /\ r # << >>
      /\ \A i \in 1 .. Len(s) : r[i] = s[i]
      /\ r[Len(s) + 1] = g
  BY <1>1, AppendProperties
<1>3. Settled(g) = {} /\ NextPlace(g) \in IsPlace /\ NextPlace(g) # << >> /\ Front(NextPlace(g)) = g.at
  BY SettledPlaces DEF Settled
<1>4. FrameOK(t, s, Len(s)) /\ \A i \in 1 .. Len(s) : FrameOK(t, s, i)
  BY <1>1 DEF Chain
<1> HIDE DEF r
<1>5. ASSUME NEW i \in 1 .. Len(r)  PROVE FrameOK(t, r, i)
  <2>1. CASE i < Len(s)
    <3>1. FrameOK(t, s, i) /\ r[i] = s[i] /\ r[i + 1] = s[i + 1]
      BY <2>1, <1>1, <1>2, <1>4
    <3> QED
      BY <3>1, <2>1, <1>1, <1>2 DEF FrameOK
  <2>2. CASE i = Len(s)
    <3>1. FrameOK(t, s, i) /\ r[i] = s[i] /\ r[i + 1] = g
      BY <2>2, <1>1, <1>2, <1>4
    <3> QED
      BY <3>1, <2>2, <1>1, <1>2 DEF FrameOK
  <2>3. CASE i = Len(s) + 1
    <3>1. Len(s[Len(s)].at) = Len(s) - 1
      BY <1>4 DEF FrameOK
    <3>2. Len(g.at) = Len(s)
      <4>1. s[Len(s)].at \in IsPlace /\ s[Len(s)].next \in Nat
        BY <1>1 DEF Frames
      <4> QED
        BY <4>1, <3>1, <1>1, Appended DEF NextPlace
    <3>3. r[i] = g /\ i = Len(r) /\ i # 1
      BY <2>3, <1>1, <1>2
    <3> QED
      BY <3>2, <3>3, <2>3, <1>1, <1>3 DEF FrameOK
  <2> QED
    BY <2>1, <2>2, <2>3, <1>1, <1>2
<1>6. Fresh(t, r)
  <2>1. Top(r) = g
    BY <1>1, <1>2 DEF Top
  <2> QED
    BY <2>1, <1>3 DEF Fresh, KidsIn
<1>7. Opens(r) = Opens(s) \cup {g.at}
  <2>1. \A i \in 1 .. Len(r) : i \in 1 .. Len(s) \/ i = Len(s) + 1
    BY <1>1, <1>2
  <2>2. \A i \in 1 .. Len(s) : i \in 1 .. Len(r)
    BY <1>1, <1>2
  <2>3. Len(s) + 1 \in 1 .. Len(r)
    BY <1>1, <1>2
  <2> QED
    BY <2>1, <2>2, <2>3, <1>2 DEF Opens
<1> QED
  BY <1>2, <1>5, <1>6, <1>7 DEF r, Chain

\* The innermost frame goes on to its next element.
LEMMA Advanced ==
  ASSUME NEW t, NEW s, Chain(t, s), s # << >>, NEW g \in Frames,
         Top(s).next < t[Top(s).at].len, t[Top(s).at].len \in Nat,
         NextPlace(Top(s)) \in DOMAIN t, SoundFrame(t, g),
         g.at = Top(s).at, g.next = Top(s).next + 1
  PROVE  LET r == [s EXCEPT ![Len(s)] = g] IN
         Chain(t, r) /\ Fresh(t, r) /\ r # << >> /\ Opens(r) = Opens(s)
<1> DEFINE r == [s EXCEPT ![Len(s)] = g]
<1>1. s \in Seq(Frames) /\ Len(s) \in Nat \ {0} /\ Top(s) = s[Len(s)] /\ Top(s) \in Frames
  BY TopPop DEF Chain
<1>2. /\ r \in Seq(Frames) /\ Len(r) = Len(s) /\ r # << >>
      /\ r[Len(s)] = g /\ \A i \in 1 .. Len(s) - 1 : r[i] = s[i]
  BY <1>1, ExceptSeq, EmptySeq
<1>3. /\ Settled(g) = Settled(Top(s)) \cup {NextPlace(Top(s))}
      /\ NextPlace(g) \notin Settled(Top(s)) \cup {NextPlace(Top(s))}
      /\ NextPlace(g) # << >> /\ Front(NextPlace(g)) = g.at
  BY <1>1, SettledPlaces
<1>4. \A i \in 1 .. Len(s) : FrameOK(t, s, i)
  BY DEF Chain
<1> HIDE DEF r
<1>5. ASSUME NEW i \in 1 .. Len(r)  PROVE FrameOK(t, r, i)
  <2>1. CASE i < Len(s)
    <3>1. FrameOK(t, s, i) /\ r[i] = s[i] /\ r[i + 1].at = s[i + 1].at
      BY <2>1, <1>1, <1>2, <1>4
    <3> QED
      BY <3>1, <2>1, <1>1, <1>2 DEF FrameOK
  <2>2. CASE i = Len(s)
    <3>1. FrameOK(t, s, i) /\ r[i] = g /\ s[i] = Top(s)
      BY <2>2, <1>1, <1>2, <1>4
    <3>2. /\ g.at \in DOMAIN t /\ Len(g.at) = i - 1
          /\ t[g.at].type = IF i = 1 THEN "root" ELSE "array"
          /\ Settled(Top(s)) \subseteq DOMAIN t
          /\ KidsIn(t, g.at) \subseteq Settled(Top(s)) \cup {NextPlace(Top(s))}
      BY <3>1 DEF FrameOK
    <3>3. g.next <= t[g.at].len
      BY <1>1 DEF Frames
    <3> QED
      BY <3>1, <3>2, <3>3, <2>2, <1>1, <1>2, <1>3 DEF FrameOK
  <2> QED
    BY <2>1, <2>2, <1>1, <1>2
<1>6. Fresh(t, r)
  <2>1. Top(r) = g
    BY <1>1, <1>2 DEF Top
  <2>2. KidsIn(t, g.at) \subseteq Settled(Top(s)) \cup {NextPlace(Top(s))}
    <3>1. FrameOK(t, s, Len(s))
      BY <1>1, <1>4
    <3> QED
      BY <3>1, <1>1 DEF FrameOK
  <2> QED
    BY <2>1, <2>2, <1>3 DEF Fresh, KidsIn
<1>7. Opens(r) = Opens(s)
  <2>1. \A i \in 1 .. Len(s) : r[i].at = s[i].at
    BY <1>1, <1>2
  <2> QED
    BY <2>1, <1>2 DEF Opens
<1> QED
  BY <1>2, <1>5, <1>6, <1>7 DEF r, Chain

\* An element that was constructed is seen by the frame that asked for it: it
\* is refused, settled, or read as an array that it is not.
LEMMA Absorbed ==
  ASSUME NEW t, NEW s, TreeOK(t), Chain(t, s), s # << >>,
         Top(s).next < t[Top(s).at].len, NextPlace(Top(s)) \in DOMAIN t,
         t[Top(s).at].oneD = node[Top(s).at].oneD,
         Absorb(s, t[NextPlace(Top(s))])
  PROVE  \/ phase' = "failed" /\ stack' = << >>
         \/ /\ phase' = "crashed" /\ stack' = << >>
            /\ \E p \in DOMAIN t : /\ t[p].type = "array" /\ t[p].fixed /\ ~t[p].oneD
                                   /\ \E q \in KidsIn(t, p) : t[q].type # "array"
         \/ /\ phase' = phase /\ Chain(t, stack') /\ Fresh(t, stack')
            /\ stack' # << >> /\ Opens(stack') = Opens(s)
<1> DEFINE f == Top(s)
           h == NextPlace(f)
           g == [f EXCEPT !.next = f.next + 1, !.found = Found(f, t[h])]
<1>1. /\ s \in Seq(Frames) /\ Len(s) \in 1 .. Len(s) /\ f = s[Len(s)] /\ f \in Frames
      /\ f.at \in IsPlace /\ f.next \in Nat /\ f.found \in Int
  <2>1. s \in Seq(Frames)
    BY DEF Chain
  <2>2. Len(s) \in Nat \ {0} /\ f = s[Len(s)] /\ f \in Frames
    BY <2>1, TopPop
  <2>3. f.at \in IsPlace /\ f.next \in Nat /\ f.found \in Int
    BY <2>2 DEF Frames
  <2> QED
    BY <2>1, <2>2, <2>3
<1>2. FrameOK(t, s, Len(s))
  BY <1>1 DEF Chain
<1>3. SoundFrame(t, f) /\ f.at \in DOMAIN t
  BY <1>1, <1>2 DEF FrameOK
<1>4. /\ t[h] \in Nodes /\ t[f.at] \in Nodes
      /\ \A q \in Settled(f) : t[q] \in Nodes
  BY <1>1, <1>2, <1>3 DEF TreeOK, FrameOK
<1>5. /\ t[f.at].len \in Nat /\ t[f.at].oneD \in BOOLEAN /\ t[h].dims \in Int
      /\ \A q \in Settled(f) : t[q].dims \in Int
  BY <1>4 DEF Nodes
<1>6. CASE phase' = "failed" /\ stack' = << >>
  BY <1>6
<1>7. CASE /\ Counts(f) /\ t[h].type # "array"
           /\ phase' = "crashed" /\ stack' = << >>
  <2>1. f.found # Mixed /\ ~t[f.at].oneD
    BY <1>7 DEF Counts
  <2>2. t[f.at].type = "array" /\ t[f.at].fixed
    BY <2>1, <1>3 DEF SoundFrame
  <2>3. h \in KidsIn(t, f.at)
    BY <1>1, SettledPlaces DEF KidsIn
  <2> QED
    BY <1>3, <1>7, <2>1, <2>2, <2>3
<1>8. CASE /\ ~Refused(f, t[h]) /\ phase' = phase
           /\ stack' = [s EXCEPT ![Len(s)] = g]
  <2>1. Found(f, t[h]) \in Int
    BY <1>1, <1>5 DEF Found, Mixed
  <2>2. /\ g \in Frames /\ g.at = f.at /\ g.next = f.next + 1
        /\ g.found = Found(f, t[h])
    <3>1. PICK x \in Int : x = Found(f, t[h])
      BY <2>1
    <3>2. PICK e \in Frames : e = f
      BY <1>1
    <3>3. g = [e EXCEPT !.next = e.next + 1, !.found = x]
      BY <3>1, <3>2
    <3> HIDE DEF g
    <3>a. e.at \in IsPlace /\ e.next \in Nat /\ e.found \in Int
      BY DEF Frames
    <3>b. g = [at |-> e.at, next |-> e.next + 1, found |-> x]
      BY <3>3 DEF Frames
    <3>4. /\ e.at \in IsPlace /\ e.next \in Nat /\ e.found \in Int
          /\ g = [at |-> e.at, next |-> e.next + 1, found |-> x]
      BY <3>a, <3>b
    <3>5. g.at = f.at /\ g.next = f.next + 1 /\ g.found = Found(f, t[h])
      BY <3>1, <3>2, <3>4
    <3> HIDE DEF g, f, h
    <3>6. g \in Frames
      BY <3>4 DEF Frames
    <3> QED
      BY <3>5, <3>6
  <2> HIDE DEF g
  <2>3. SoundFrame(t, g)
    BY <1>1, <1>3, <1>4, <1>5, <1>8, <2>2, Advance
  <2>4. LET r == [s EXCEPT ![Len(s)] = g] IN
        Chain(t, r) /\ Fresh(t, r) /\ r # << >> /\ Opens(r) = Opens(s)
    BY <1>5, <2>2, <2>3, Advanced
  <2> QED
    BY <1>8, <2>4
<1> QED
  BY <1>6, <1>7, <1>8 DEF Absorb

\* u is t with the innermost array, which has all its elements, closed.
Closes(t, u, s) ==
  LET p == Top(s).at IN
  /\ Len(s) > 1 /\ ~(Top(s).next < t[p].len)
  /\ DOMAIN u = DOMAIN t /\ \A q \in DOMAIN t \ {p} : u[q] = t[q]
  /\ u[p] \in Nodes /\ (~t[p].manual => u[p].dims = Dims(Top(s)))
  /\ u[p].type = t[p].type /\ u[p].len = t[p].len /\ u[p].rank = t[p].rank
  /\ u[p].manual = t[p].manual
  /\ u[p].fixed = t[p].fixed /\ u[p].oneD = t[p].oneD
  /\ t[p].oneD = node[p].oneD

\* Closing the innermost array changes what it says of itself and nothing
\* that another frame or a closed array depends on.
LEMMA ClosingKeeps ==
  ASSUME NEW t, NEW u, NEW s, TreeOK(t), Chain(t, s), Fresh(t, s), Closes(t, u, s)
  PROVE  /\ TreeOK(u) /\ Chain(u, Pop(s)) /\ Pop(s) # << >>
         /\ Top(s).at = NextPlace(Top(Pop(s))) /\ Top(Pop(s)).next < u[Top(Pop(s)).at].len
         /\ SoundArray(u, Top(s).at)
         /\ Opens(s) = Opens(Pop(s)) \cup {Top(s).at}
         /\ KidsIn(t, Top(s).at) = Settled(Top(s)) /\ Top(s).next = t[Top(s).at].len
         /\ u[Top(s).at].type = "array"
<1> DEFINE f == Top(s)
           n == Len(s)
<1>0. /\ n > 1 /\ ~(f.next < t[f.at].len)
      /\ DOMAIN u = DOMAIN t /\ \A q \in DOMAIN t \ {f.at} : u[q] = t[q]
      /\ u[f.at] \in Nodes /\ (~t[f.at].manual => u[f.at].dims = Dims(f))
      /\ u[f.at].type = t[f.at].type /\ u[f.at].len = t[f.at].len
      /\ u[f.at].manual = t[f.at].manual
      /\ u[f.at].fixed = t[f.at].fixed /\ u[f.at].oneD = t[f.at].oneD
      /\ t[f.at].oneD = node[f.at].oneD
  BY DEF Closes
<1>1. /\ s \in Seq(Frames) /\ n \in Nat /\ n > 1 /\ f = s[n] /\ f \in Frames
      /\ f.at \in IsPlace /\ f.next \in Nat /\ f.found \in Int
      /\ Pop(s) \in Seq(Frames) /\ Len(Pop(s)) = n - 1
      /\ \A i \in 1 .. n - 1 : Pop(s)[i] = s[i]
      /\ \A i \in 1 .. n : s[i] \in Frames
  <2>1. s \in Seq(Frames)
    BY DEF Chain
  <2>2. n \in Nat /\ n > 1 /\ s # << >>
    BY <1>0, <2>1, EmptySeq
  <2>3. /\ f = s[n] /\ f \in Frames
        /\ Pop(s) \in Seq(Frames) /\ Len(Pop(s)) = n - 1
        /\ \A i \in 1 .. n - 1 : Pop(s)[i] = s[i]
        /\ \A i \in 1 .. n : s[i] \in Frames
    BY <2>1, <2>2, TopPop
  <2>4. f.at \in IsPlace /\ f.next \in Nat /\ f.found \in Int
    BY <2>3 DEF Frames
  <2> QED
    BY <2>1, <2>2, <2>3, <2>4
<1>2. \A i \in 1 .. n : FrameOK(t, s, i)
  BY DEF Chain
<1>3. /\ f.at \in DOMAIN t /\ Len(f.at) = n - 1 /\ t[f.at].type = "array"
      /\ Settled(f) \subseteq DOMAIN t
      /\ KidsIn(t, f.at) \subseteq Settled(f) \cup {NextPlace(f)}
      /\ SoundFrame(t, f) /\ f.next <= t[f.at].len
  <2>1. FrameOK(t, s, n) /\ n # 1
    BY <1>1, <1>2
  <2> QED
    BY <2>1, <1>1 DEF FrameOK
<1>4. KidsIn(t, f.at) = Settled(f)
  <2>1. NextPlace(f) \notin DOMAIN t
    BY <1>1, EmptySeq DEF Fresh
  <2>2. \A q \in Settled(f) : q # << >> /\ Front(q) = f.at
    BY <1>1, SettledPlaces
  <2> QED
    BY <2>1, <2>2, <1>3 DEF KidsIn
<1>5. /\ t[f.at] \in Nodes /\ t[f.at].len \in Nat /\ f.next = t[f.at].len
      /\ Unflagged(t[f.at])
  <2>1. t[f.at] \in Nodes /\ Unflagged(t[f.at])
    BY <1>3 DEF TreeOK
  <2>2. t[f.at].len \in Nat
    BY <2>1 DEF Nodes
  <2>3. f.next = t[f.at].len
    BY <1>0, <2>2, <1>1, <1>3
  <2> QED
    BY <2>1, <2>2, <2>3
<1>6. \A p \in DOMAIN t : KidsIn(u, p) = KidsIn(t, p)
  BY <1>0 DEF KidsIn
<1>7. f.at \notin KidsIn(t, f.at)
  <2>1. f.at # << >> => Len(Front(f.at)) = Len(f.at) - 1
    BY <1>1, Unappended
  <2> QED
    BY <2>1, <1>1, <1>3 DEF KidsIn
<1>8. \A q \in KidsIn(t, f.at) : u[q] = t[q] /\ t[q].dims \in Int
  BY <1>0, <1>7 DEF KidsIn, TreeOK, Nodes
<1>9. SoundArray(u, f.at)
  <2>1. /\ f \in Frames /\ SoundFrame(t, f) /\ t[f.at] \in Nodes /\ t[f.at].type = "array"
        /\ Unflagged(t[f.at]) /\ t[f.at].len = f.next
    BY <1>1, <1>3, <1>5
  <2>2. /\ KidsIn(t, f.at) = Settled(f) /\ KidsIn(u, f.at) = KidsIn(t, f.at)
        /\ \A q \in KidsIn(t, f.at) : t[q].dims \in Int
        /\ \A q \in KidsIn(t, f.at) : u[q] = t[q]
    BY <1>3, <1>4, <1>6, <1>8
  <2>3. /\ t[f.at].oneD = node[f.at].oneD
        /\ (~t[f.at].manual => u[f.at].dims = Dims(f)) /\ u[f.at].type = t[f.at].type
        /\ u[f.at].len = t[f.at].len /\ u[f.at].manual = t[f.at].manual
        /\ u[f.at].fixed = t[f.at].fixed /\ u[f.at].oneD = t[f.at].oneD
    BY <1>0
  <2> HIDE DEF f
  <2> QED
    BY <2>1, <2>2, <2>3, Close
<1>10. /\ u[f.at] \in Nodes /\ u[f.at].type = t[f.at].type /\ u[f.at].len = t[f.at].len
       /\ u[f.at].fixed = t[f.at].fixed /\ u[f.at].oneD = t[f.at].oneD
       /\ Unflagged(u[f.at])
  BY <1>0, <1>5 DEF Unflagged
<1>11. TreeOK(u)
  <2>1. ASSUME NEW p \in DOMAIN u
        PROVE  /\ p \in IsPlace /\ u[p] \in Nodes
               /\ Unflagged(u[p])
               /\ p # << >> => Front(p) \in DOMAIN u
    <3>1. CASE p = f.at
      BY <1>0, <3>1, <1>10 DEF TreeOK
    <3>2. CASE p # f.at
      BY <1>0, <3>2 DEF TreeOK
    <3> QED
      BY <3>1, <3>2
  <2> QED
    BY <1>0, <2>1 DEF TreeOK
<1>12. /\ FrameOK(t, s, n - 1) /\ Top(Pop(s)) = s[n - 1] /\ n - 1 \in 1 .. n
       /\ Pop(s) # << >>
  <2>1. n - 1 \in 1 .. n /\ n - 1 \in 1 .. n - 1
    BY <1>1
  <2>2. Top(Pop(s)) = s[n - 1]
    BY <2>1, <1>1 DEF Top
  <2> QED
    BY <2>1, <2>2, <1>1, <1>2, EmptySeq
<1>13. s[n].at = NextPlace(s[n - 1]) /\ s[n - 1].next < t[s[n - 1].at].len
  <2>1. n - 1 < n /\ n - 1 + 1 = n
    BY <1>1
  <2> QED
    BY <1>12, <2>1 DEF FrameOK
<1>14. ASSUME NEW i \in 1 .. n - 1
       PROVE  FrameOK(u, Pop(s), i)
  <2>1. i \in 1 .. n /\ FrameOK(t, s, i) /\ s[i] \in Frames /\ Pop(s)[i] = s[i]
    BY <1>1, <1>2
  <2>2. s[i].at # f.at /\ s[i].at \in DOMAIN t /\ Len(s[i].at) = i - 1
    BY <2>1, <1>1, <1>3 DEF FrameOK
  <2>3. f.at \notin Settled(s[i])
    <3>1. CASE i = n - 1
      BY <3>1, <2>1, <1>1, <1>13, SettledPlaces
    <3>2. CASE i # n - 1
      <4>1. ASSUME f.at \in Settled(s[i])  PROVE FALSE
        <5>1. Front(f.at) = s[i].at /\ f.at # << >>
          BY <4>1, <2>1, SettledPlaces
        <5>2. Len(s[i].at) = Len(f.at) - 1
          BY <5>1, <1>1, Unappended
        <5> QED
          BY <5>2, <2>2, <1>1, <1>3, <3>2
      <4> QED
        BY <4>1
    <3> QED
      BY <3>1, <3>2
  <2>4. /\ DOMAIN t \subseteq DOMAIN u /\ u[s[i].at] = t[s[i].at]
        /\ \A q \in Settled(s[i]) : u[q] = t[q]
        /\ KidsIn(u, s[i].at) \subseteq Settled(s[i]) \cup {NextPlace(s[i])}
    BY <1>0, <2>1, <2>2, <2>3, <1>6 DEF FrameOK
  <2>5. FrameOK(u, s, i)
    BY <2>1, <2>4, FrameOKKept
  <2>6. i < Len(Pop(s)) => i < n /\ Pop(s)[i + 1] = s[i + 1]
    BY <1>1
  <2> QED
    BY <2>1, <2>5, <2>6 DEF FrameOK
<1>15. Chain(u, Pop(s))
  BY <1>1, <1>14 DEF Chain
<1>16. Top(Pop(s)).next < u[Top(Pop(s)).at].len
  <2>1. s[n - 1].at \in DOMAIN t /\ s[n - 1].at # f.at
    BY <1>1, <1>3, <1>12 DEF FrameOK
  <2> QED
    BY <1>0, <2>1, <1>12, <1>13
<1>17. Opens(s) = Opens(Pop(s)) \cup {f.at}
  <2>1. \A i \in 1 .. n : i \in 1 .. n - 1 \/ i = n
    BY <1>1
  <2>2. \A i \in 1 .. n - 1 : i \in 1 .. n
    BY <1>1
  <2>3. n \in 1 .. n
    BY <1>1
  <2>4. Opens(s) = {s[i].at : i \in 1 .. n} /\ Opens(Pop(s)) = {Pop(s)[i].at : i \in 1 .. n - 1}
    BY <1>1 DEF Opens
  <2>5. f = s[n] /\ \A i \in 1 .. n - 1 : Pop(s)[i].at = s[i].at
    BY <1>1
  <2> HIDE DEF f, n
  <2> QED
    BY <2>1, <2>2, <2>3, <2>4, <2>5
<1> QED
  BY <1>1, <1>3, <1>4, <1>5, <1>9, <1>10, <1>11, <1>12, <1>13, <1>15, <1>16, <1>17

------------------------------------------------------------------------------
(***************************************************************************)
(* The inductive invariant.                                                 *)
(***************************************************************************)

Phases == {"start", "building", "built", "walking", "walked",
           "failed", "crashed", "thrown", "refused"}

\* The tree is one: every element's array is in it.
TreeInv ==
  /\ TreeOK(node)
  /\ phase = "start" => Places = {}
  /\ phase # "start" => << >> \in Places /\ node[<< >>].type = "root"

StackInv ==
  /\ phase \in Phases /\ (phase = "building" <=> stack # << >>)
  /\ Chain(node, stack) /\ Fresh(node, stack)

\* What is closed says what its elements are, and has all of them.
ArraysInv == Finished =>
  \A p \in Places : p \notin Opens(stack) /\ node[p].type = "array" => SoundArray(node, p)
Complete == Finished =>
  \A p \in Places : p \notin Opens(stack) /\ node[p].type \in {"array", "root"} =>
    \A j \in 0 .. node[p].len - 1 : Append(p, j) \in Places

CrashInv == phase = "crashed" =>
  \E p \in Places : /\ node[p].type = "array" /\ node[p].fixed /\ ~node[p].oneD
                    /\ \E q \in KidsIn(node, p) : node[q].type # "array"

WalkInv ==
  /\ walk \in Seq(Steps) /\ (phase = "walking" <=> walk # << >>)
  /\ phase \in {"start", "building", "failed", "crashed", "thrown"} => pruned = {}
  /\ pruned \subseteq Arrays
  /\ \A i \in 1 .. Len(walk) : /\ walk[i].at \in Places
                               /\ node[walk[i].at].type \in {"array", "root"}
                               /\ walk[i].next <= node[walk[i].at].len

IInv == TreeInv /\ StackInv /\ ArraysInv /\ Complete /\ CrashInv /\ WalkInv

\* Putting an element at a place changes that place.
LEMMA PutAt ==
  ASSUME NEW p, NEW c
  PROVE  /\ DOMAIN Put(p, c) = Places \cup {p} /\ Put(p, c)[p] = c
         /\ \A q \in Places : q # p => Put(p, c)[q] = node[q]
  BY DEF Put, Places

\* How the two special dimensions compare with the others.
LEMMA Constants ==
  /\ Mixed = -1 /\ \A d \in Int : d >= -1 => d # IntMin
  /\ Mixed \in Int /\ IntMin \in Int /\ Mixed # IntMin
  BY SMT DEF Mixed, IntMin

\* The elements that are made are nodes of the tree.
LEMMA MadeNodes ==
  /\ \A k \in Leaves : /\ Leaf(k) \in Nodes /\ Unflagged(Leaf(k))
                       /\ Leaf(k).type \notin {"array", "root"}
  /\ \A n \in Nat : /\ Root(n) \in Nodes /\ Unflagged(Root(n)) /\ Root(n).len = n
                    /\ Root(n).type = "root" /\ ~Root(n).oneD /\ ~Root(n).fixed
  /\ \A meta \in Metadata :
       /\ meta.len \in Nat /\ Array(meta) \in Nodes
       /\ Array(meta).type = "array" /\ Array(meta).dims = IntMin
       /\ Array(meta).fixed = meta.fixed /\ Array(meta).oneD = meta.oneD
       /\ Array(meta).manual = meta.manual
       /\ Array(meta).len = meta.len /\ Array(meta).rank = meta.rank
<1>1. ASSUME NEW k \in Leaves
      PROVE  /\ Leaf(k) \in Nodes /\ Unflagged(Leaf(k))
             /\ Leaf(k).type \notin {"array", "root"}
  BY ConstructAssumption DEF Leaf, Nodes, Types, Unflagged
<1>2. ASSUME NEW n \in Nat
      PROVE  /\ Root(n) \in Nodes /\ Unflagged(Root(n)) /\ Root(n).len = n
             /\ Root(n).type = "root" /\ ~Root(n).oneD /\ ~Root(n).fixed
  <2> DEFINE a == Leaf("root")
             b == [a EXCEPT !.len = n]
             c == [b EXCEPT !.dims = Mixed]
  <2>1. /\ a \in Nodes /\ a.type = "root" /\ ~a.oneD /\ ~a.fixed /\ ~a.manual
    BY DEF Leaf, Nodes, Types
  <2>2. Root(n) = c
    BY DEF Root
  <2> HIDE DEF a
  <2>3. /\ b \in Nodes /\ b.type = "root" /\ ~b.oneD /\ ~b.fixed /\ ~b.manual
        /\ b.len = n
    BY <2>1 DEF Nodes
  <2> HIDE DEF b
  <2>4. /\ c \in Nodes /\ c.type = "root" /\ ~c.oneD /\ ~c.fixed /\ c.len = n
        /\ c.dims = Mixed /\ ~c.manual
    BY <2>3, Constants DEF Nodes
  <2> QED
    BY <2>2, <2>4 DEF Unflagged
<1>3. ASSUME NEW meta \in Metadata
      PROVE  /\ meta.len \in Nat /\ Array(meta) \in Nodes
             /\ Array(meta).type = "array" /\ Array(meta).dims = IntMin
             /\ Array(meta).fixed = meta.fixed /\ Array(meta).oneD = meta.oneD
             /\ Array(meta).manual = meta.manual
             /\ Array(meta).len = meta.len /\ Array(meta).rank = meta.rank
  <2>1. /\ meta.len \in 0 .. MaxLen /\ meta.fixed \in BOOLEAN /\ meta.oneD \in BOOLEAN
        /\ meta.manual \in BOOLEAN
        /\ meta.rank \in IF truthful THEN 0 .. MaxRank ELSE {0}
    BY DEF Metadata
  <2>2. meta.len \in Nat /\ meta.rank \in Nat
    BY <2>1, ConstructAssumption
  <2> QED
    BY <2>1, <2>2, Constants DEF Array, Nodes, Types
<1> QED
  BY <1>1, <1>2, <1>3

\* Before the construction there is no tree.
LEMMA InitInv == Init => IInv
<1> SUFFICES ASSUME Init PROVE IInv
  OBVIOUS
<1>1. DOMAIN node = {} /\ Len(stack) = 0 /\ Len(walk) = 0
  BY EmptySeq DEF Init
<1>2. stack \in Seq(Frames) /\ walk \in Seq(Steps)
  BY EmptySeq DEF Init
<1> QED
  BY <1>1, <1>2 DEF Init, IInv, TreeInv, TreeOK, StackInv, Chain, Fresh, ArraysInv, Complete,
     CrashInv, WalkInv, Places, Arrays, Phases

\* A construction that ends badly leaves a tree and nothing in progress.
LEMMA Ended ==
  ASSUME WalkInv, phase = "building", NotWalking, TreeOK(node'),
         << >> \in DOMAIN node', node'[<< >>].type = "root",
         phase' \in {"failed", "crashed", "thrown"}, stack' = << >>, CrashInv'
  PROVE  IInv'
<1>1. TreeInv'
  BY DEF TreeInv, Places
<1>2. StackInv'
  BY EmptySeq DEF StackInv, Chain, Fresh, Phases
<1>3. ArraysInv' /\ Complete'
  BY DEF ArraysInv, Complete, Finished
<1>4. walk = << >> /\ walk' = << >> /\ pruned' = {}
  BY DEF WalkInv, NotWalking
<1>5. WalkInv'
  BY <1>4, EmptySeq DEF WalkInv
<1> QED
  BY <1>1, <1>2, <1>3, <1>5 DEF IInv

\* So does one that goes on, with a stack that fits its tree.
LEMMA GoesOn ==
  ASSUME WalkInv, phase = "building", NotWalking, TreeOK(node'),
         << >> \in DOMAIN node', node'[<< >>].type = "root",
         phase' = "building", stack' # << >>,
         Chain(node', stack'), Fresh(node', stack'), ArraysInv', Complete'
  PROVE  IInv'
<1>1. TreeInv'
  BY DEF TreeInv, Places
<1>2. StackInv'
  BY DEF StackInv, Phases
<1>3. CrashInv'
  BY DEF CrashInv
<1>4. walk = << >> /\ walk' = << >> /\ pruned' = {}
  BY DEF WalkInv, NotWalking
<1>5. WalkInv'
  BY <1>4, EmptySeq DEF WalkInv
<1> QED
  BY <1>1, <1>2, <1>3, <1>5 DEF IInv

------------------------------------------------------------------------------
(***************************************************************************)
(* The steps of the construction.                                           *)
(***************************************************************************)

\* What the invariant says while a construction is under way.
LEMMA UnderWay ==
  ASSUME IInv, phase = "building"
  PROVE  /\ TreeOK(node) /\ << >> \in Places /\ node[<< >>].type = "root"
         /\ Chain(node, stack) /\ Fresh(node, stack) /\ stack # << >> /\ Finished
         /\ Frame = stack[Len(stack)] /\ Frame \in Frames /\ Frame.at \in Places
         /\ Len(stack) \in Nat \ {0} /\ node[Frame.at].len \in Nat
         /\ node[Frame.at].oneD \in BOOLEAN /\ node[Frame.at].fixed \in BOOLEAN
         /\ Frame.next \in Nat /\ Frame.at \in IsPlace
         /\ Here = NextPlace(Frame) /\ Here \in IsPlace /\ Here # << >>
         /\ Front(Here) = Frame.at /\ Here \notin Places
<1>1. /\ TreeOK(node) /\ << >> \in Places /\ node[<< >>].type = "root"
      /\ Chain(node, stack) /\ Fresh(node, stack) /\ stack # << >> /\ Finished
  BY DEF IInv, TreeInv, StackInv, Finished
<1>2. /\ stack \in Seq(Frames) /\ Len(stack) \in Nat \ {0} /\ Frame = stack[Len(stack)]
      /\ Frame \in Frames
  <2>1. stack \in Seq(Frames)
    BY <1>1 DEF Chain
  <2> QED
    BY <2>1, <1>1, TopPop DEF Frame
<1>3. Frame.at \in Places
  <2>1. FrameOK(node, stack, Len(stack))
    BY <1>1, <1>2 DEF Chain
  <2> QED
    BY <2>1, <1>2 DEF FrameOK, Places
<1>4. node[Frame.at] \in Nodes
  BY <1>1, <1>3 DEF TreeOK, Places
<1>5. /\ node[Frame.at].len \in Nat /\ node[Frame.at].oneD \in BOOLEAN
      /\ node[Frame.at].fixed \in BOOLEAN
  BY <1>4 DEF Nodes
<1>6. Frame.next \in Nat /\ Frame.at \in IsPlace
  BY <1>2 DEF Frames
<1>7. /\ Here = NextPlace(Frame) /\ Here \in IsPlace /\ Here # << >>
      /\ Front(Here) = Frame.at
  BY <1>2, SettledPlaces DEF Here, NextPlace
<1>8. Here \notin Places
  BY <1>1, <1>7 DEF Fresh, Frame, Places
<1> QED
  BY <1>1, <1>2, <1>3, <1>5, <1>6, <1>7, <1>8

\* How the step of an element that was just constructed ends.
LEMMA AbsorbedHere ==
  ASSUME IInv, More, NEW K, Grows(node, node', Here, K), TreeOK(node'),
         Absorb(stack, node'[Here])
  PROVE  \/ phase' = "failed" /\ stack' = << >>
         \/ /\ phase' = "crashed" /\ stack' = << >>
            /\ \E p \in DOMAIN node' :
                 /\ node'[p].type = "array" /\ node'[p].fixed /\ ~node'[p].oneD
                 /\ \E q \in KidsIn(node', p) : node'[q].type # "array"
         \/ /\ phase' = phase /\ Chain(node', stack') /\ Fresh(node', stack')
            /\ stack' # << >> /\ Opens(stack') = Opens(stack)
<1>1. phase = "building"
  BY DEF More, Building
<1>2. /\ TreeOK(node) /\ Chain(node, stack) /\ stack # << >>
      /\ Frame.at \in Places /\ Here = NextPlace(Frame)
  BY <1>1, UnderWay
<1>3. Chain(node', stack)
  BY <1>2, GrownChain DEF Frame
<1>4. /\ Top(stack).next < node'[Top(stack).at].len
      /\ NextPlace(Top(stack)) \in DOMAIN node'
      /\ node'[Top(stack).at].oneD = node[Top(stack).at].oneD
  BY <1>2 DEF Grows, More, Frame, Places
<1>5. Absorb(stack, node'[NextPlace(Top(stack))])
  BY <1>2 DEF Frame
<1> QED
  BY <1>2, <1>3, <1>4, <1>5, Absorbed

\* Constructing an element, with the elements of it that its callback filled
\* in, and showing it to the array it is in.
LEMMA Added ==
  ASSUME IInv, More, NotWalking, NEW K, Grows(node, node', Here, K), TreeOK(node'),
         Absorb(stack, node'[Here]),
         node'[Here].type # "root",
         node'[Here].type = "array" =>
           /\ SoundArray(node', Here)
           /\ \A j \in 0 .. node'[Here].len - 1 : Append(Here, j) \in DOMAIN node',
         \A k \in K : node'[k].type \notin {"array", "root"}
  PROVE  IInv'
<1>1. phase = "building"
  BY DEF More, Building
<1>2. /\ TreeOK(node) /\ << >> \in Places /\ node[<< >>].type = "root"
      /\ Chain(node, stack) /\ Fresh(node, stack) /\ stack # << >> /\ Finished
      /\ Frame.at \in Places /\ Here = NextPlace(Frame)
  BY <1>1, UnderWay
<1>3. WalkInv
  BY DEF IInv
<1>4. << >> \in DOMAIN node' /\ node'[<< >>].type = "root"
  BY <1>2 DEF Grows, Places
<1>7. \/ phase' = "failed" /\ stack' = << >>
      \/ /\ phase' = "crashed" /\ stack' = << >>
         /\ \E p \in DOMAIN node' :
              /\ node'[p].type = "array" /\ node'[p].fixed /\ ~node'[p].oneD
              /\ \E q \in KidsIn(node', p) : node'[q].type # "array"
      \/ /\ phase' = phase /\ Chain(node', stack') /\ Fresh(node', stack')
         /\ stack' # << >> /\ Opens(stack') = Opens(stack)
  BY AbsorbedHere
<1>8. CASE phase' = "failed" /\ stack' = << >>
  <2>1. CrashInv'
    BY <1>8 DEF CrashInv
  <2> QED
    BY <1>1, <1>3, <1>4, <1>8, <2>1, Ended
<1>9. CASE /\ phase' = "crashed" /\ stack' = << >>
           /\ \E p \in DOMAIN node' :
                /\ node'[p].type = "array" /\ node'[p].fixed /\ ~node'[p].oneD
                /\ \E q \in KidsIn(node', p) : node'[q].type # "array"
  <2>1. CrashInv'
    BY <1>9 DEF CrashInv, Places
  <2> QED
    BY <1>1, <1>3, <1>4, <1>9, <2>1, Ended
<1>10. CASE /\ phase' = phase /\ Chain(node', stack') /\ Fresh(node', stack')
            /\ stack' # << >> /\ Opens(stack') = Opens(stack)
  <2>1. \A p \in Places : p \notin Opens(stack) /\ node[p].type = "array" => SoundArray(node, p)
    BY <1>2 DEF IInv, ArraysInv
  <2>2. \A p \in Places : p \notin Opens(stack) /\ node[p].type \in {"array", "root"} =>
          \A j \in 0 .. node[p].len - 1 : Append(p, j) \in Places
    BY <1>2 DEF IInv, Complete
  <2>3. /\ DOMAIN node' = Places \cup {Here} \cup K
        /\ \A q \in Places : node'[q] = node[q]
    BY DEF Grows, Places
  <2>4. ASSUME NEW p \in DOMAIN node', p \notin Opens(stack), node'[p].type = "array"
        PROVE  SoundArray(node', p)
    <3>1. CASE p \in Places
      <4>1. SoundArray(node, p) /\ p \in DOMAIN node
        BY <3>1, <2>1, <2>3, <2>4 DEF Places
      <4> QED
        BY <4>1, <2>4, <1>2, GrownArrays DEF Frame
    <3>2. CASE p \notin Places
      BY <3>2, <2>3, <2>4
    <3> QED
      BY <3>1, <3>2
  <2>5. ASSUME NEW p \in DOMAIN node', p \notin Opens(stack),
               node'[p].type \in {"array", "root"}, NEW j \in 0 .. node'[p].len - 1
        PROVE  Append(p, j) \in DOMAIN node'
    BY <2>2, <2>3, <2>5
  <2>6. ArraysInv' /\ Complete'
    BY <2>4, <2>5, <1>10 DEF ArraysInv, Complete, Places
  <2> QED
    BY <1>1, <1>3, <1>4, <1>10, <2>6, GoesOn
<1> QED
  BY <1>7, <1>8, <1>9, <1>10

\* Putting an element where the innermost frame is at.
LEMMA PutHere ==
  ASSUME IInv, phase = "building", NEW c, node' = Put(Here, c)
  PROVE  Grows(node, node', Here, {}) /\ node'[Here] = c
<1>1. /\ TreeOK(node) /\ Frame.at \in Places /\ Here \in IsPlace /\ Here # << >>
      /\ Front(Here) = Frame.at /\ Here \notin Places
  BY UnderWay
<1>2. /\ DOMAIN node' = Places \cup {Here} /\ node'[Here] = c
      /\ \A q \in Places : q # Here => node'[q] = node[q]
  BY DEF Put, Places
<1> QED
  BY <1>1, <1>2 DEF Grows, Places

LEMMA StepStart == ASSUME IInv, Start  PROVE IInv'
<1>1. phase = "start" /\ phase' = "building" /\ NotWalking
      /\ stack' = <<[at |-> << >>, next |-> 0, found |-> Mixed]>>
  BY DEF Start
<1>2. PICK n \in 0 .. MaxRoot : node' = Put(<< >>, Root(n))
  BY DEF Start
<1>3. Places = {} /\ n \in Nat
  BY <1>1, ConstructAssumption DEF IInv, TreeInv
<1>4. /\ DOMAIN node' = {<< >>} /\ node'[<< >>] = Root(n)
      /\ Root(n) \in Nodes /\ Unflagged(Root(n)) /\ Root(n).len = n
      /\ Root(n).type = "root" /\ ~Root(n).oneD /\ ~Root(n).fixed
  <2>1. /\ DOMAIN Put(<< >>, Root(n)) = Places \cup {<< >>}
        /\ Put(<< >>, Root(n))[<< >>] = Root(n)
    BY PutAt
  <2>2. DOMAIN node' = {<< >>} /\ node'[<< >>] = Root(n)
    BY <2>1, <1>2, <1>3
  <2> QED
    BY <2>2, <1>3, MadeNodes
<1>5. TreeOK(node')
  BY <1>4, EmptySeq DEF TreeOK, IsPlace
<1> DEFINE f == [at |-> << >>, next |-> 0, found |-> Mixed]
<1>6. /\ f \in Frames /\ f.at = << >> /\ f.next = 0 /\ f.found = Mixed
      /\ Len(f.at) = 0 /\ f.at \in IsPlace
  BY EmptySeq, Constants DEF Frames, IsPlace
<1>7. /\ stack' \in Seq(Frames) /\ Len(stack') = 1 /\ stack'[1] = f
      /\ stack' # << >> /\ Top(stack') = f
  BY <1>1, <1>6 DEF Top
<1> HIDE DEF f
<1>8. Settled(f) = {} /\ KidsIn(node', f.at) = {}
  BY <1>4, <1>6 DEF Settled, KidsIn
<1>9. FrameOK(node', stack', 1)
  <2>1. SoundFrame(node', f)
    BY <1>4, <1>6, <1>8, Constants DEF SoundFrame
  <2> QED
    BY <2>1, <1>3, <1>4, <1>6, <1>7, <1>8 DEF FrameOK
<1>10. Chain(node', stack')
  BY <1>7, <1>9 DEF Chain
<1>11. Fresh(node', stack')
  BY <1>4, <1>6, <1>7, SettledPlaces DEF Fresh
<1>12. ArraysInv' /\ Complete'
  <2>1. << >> \in Opens(stack')
    BY <1>6, <1>7 DEF Opens
  <2> QED
    BY <2>1, <1>4 DEF ArraysInv, Complete, Places
<1>13. walk = << >> /\ walk' = << >> /\ pruned' = {}
  BY <1>1 DEF IInv, WalkInv, NotWalking
<1>14. WalkInv'
  BY <1>1, <1>13, EmptySeq DEF WalkInv
<1>15. TreeInv' /\ StackInv' /\ CrashInv'
  BY <1>1, <1>4, <1>5, <1>7, <1>10, <1>11
     DEF TreeInv, StackInv, CrashInv, Places, Phases
<1> QED
  BY <1>12, <1>14, <1>15 DEF IInv

LEMMA StepLeaf == ASSUME IInv, ConstructLeaf  PROVE IInv'
<1>1. More /\ NotWalking /\ phase = "building"
  BY DEF ConstructLeaf, More, Building
<1>2. PICK k \in Leaves : node' = Put(Here, Leaf(k)) /\ Absorb(stack, Leaf(k))
  BY DEF ConstructLeaf
<1>3. /\ TreeOK(node) /\ Frame.at \in Places /\ Here \in IsPlace /\ Here # << >>
      /\ Front(Here) = Frame.at /\ Here \notin Places
  BY <1>1, UnderWay
<1>4. Grows(node, node', Here, {}) /\ node'[Here] = Leaf(k)
  BY <1>1, <1>2, PutHere
<1>5. /\ Leaf(k) \in Nodes /\ Unflagged(Leaf(k))
      /\ Leaf(k).type # "array" /\ Leaf(k).type # "root"
  BY MadeNodes
<1>6. TreeOK(node')
  BY <1>3, <1>4, <1>5, GrownTree
<1> QED
  BY <1>1, <1>2, <1>4, <1>5, <1>6, Added

LEMMA StepOpen == ASSUME IInv, OpenArray  PROVE IInv'
<1>1. More /\ NotWalking /\ phase = "building" /\ phase' = phase
  BY DEF OpenArray, More, Building
<1> DEFINE G(meta) == [at |-> Here, next |-> 0,
                       found |-> IF meta.fixed THEN IntMin ELSE Mixed]
<1>2. PICK meta \in Metadata : /\ meta.manual => ~meta.fixed /\ ~meta.oneD
                               /\ node' = Put(Here, Array(meta))
                               /\ stack' = Append(stack, G(meta))
  BY DEF OpenArray, ArrayFits
<1> DEFINE g == G(meta)
<1>3. /\ TreeOK(node) /\ Frame.at \in Places /\ Here \in IsPlace /\ Here # << >>
      /\ Front(Here) = Frame.at /\ Here \notin Places /\ Chain(node, stack)
      /\ stack # << >> /\ Here = NextPlace(Frame) /\ Finished
      /\ << >> \in Places /\ node[<< >>].type = "root"
  BY <1>1, UnderWay
<1>4. Grows(node, node', Here, {}) /\ node'[Here] = Array(meta)
  BY <1>1, <1>2, PutHere
<1>5. /\ meta.len \in Nat /\ Array(meta) \in Nodes
      /\ Array(meta).type = "array" /\ Array(meta).dims = IntMin
      /\ Array(meta).fixed = meta.fixed /\ Array(meta).oneD = meta.oneD
      /\ Array(meta).len = meta.len /\ Unflagged(Array(meta))
  BY <1>2, MadeNodes DEF Unflagged
<1>6. TreeOK(node')
  BY <1>3, <1>4, <1>5, GrownTree
<1>7. Chain(node', stack)
  BY <1>3, <1>4, GrownChain DEF Frame
<1>8. /\ g \in Frames /\ g.at = Here /\ g.next = 0
      /\ g.found = IF meta.fixed THEN IntMin ELSE Mixed
  BY <1>3, Constants DEF Frames
<1> HIDE DEF g, G
<1>9. Settled(g) = {} /\ KidsIn(node', g.at) = {}
  <2>1. KidsIn(node', Here) = {}
    BY <1>3, <1>4, GrownKids
  <2> QED
    BY <2>1, <1>8 DEF Settled
<1>10. SoundFrame(node', g)
  BY <1>4, <1>5, <1>8, <1>9, Constants DEF SoundFrame, Run
<1>11. /\ Chain(node', stack') /\ Fresh(node', stack') /\ stack' # << >>
       /\ Opens(stack') = Opens(stack) \cup {Here}
  <2>1. /\ Top(stack).next < node'[Top(stack).at].len /\ g.at = NextPlace(Top(stack))
        /\ g.at \in DOMAIN node' /\ node'[g.at].type = "array" /\ node'[g.at].len \in Nat
    BY <1>1, <1>3, <1>4, <1>5, <1>8 DEF More, Frame, Grows, Places
  <2>2. stack' = Append(stack, g)
    BY <1>2 DEF g
  <2>3. /\ Chain(node', stack) /\ stack # << >> /\ g \in Frames /\ g.next = 0
        /\ KidsIn(node', g.at) = {} /\ SoundFrame(node', g)
    BY <1>3, <1>7, <1>8, <1>9, <1>10
  <2>4. /\ Chain(node', Append(stack, g)) /\ Fresh(node', Append(stack, g))
        /\ Append(stack, g) # << >>
        /\ Opens(Append(stack, g)) = Opens(stack) \cup {g.at}
    BY <2>1, <2>3, Pushed
  <2> QED
    BY <2>2, <2>4, <1>8
<1>12. /\ DOMAIN node' = Places \cup {Here} /\ \A q \in Places : node'[q] = node[q]
  BY <1>4 DEF Grows, Places
<1>13. ArraysInv'
  <2>1. ASSUME NEW p \in DOMAIN node', p \notin Opens(stack'), node'[p].type = "array"
        PROVE  SoundArray(node', p)
    <3>1. p \in Places /\ p \notin Opens(stack) /\ p \in DOMAIN node
      BY <2>1, <1>11, <1>12 DEF Places
    <3>2. SoundArray(node, p)
      BY <3>1, <2>1, <1>3, <1>12 DEF IInv, ArraysInv
    <3> QED
      BY <3>1, <3>2, <1>3, <1>4, GrownArrays DEF Frame
  <2> QED
    BY <2>1 DEF ArraysInv, Places
<1>14. Complete'
  <2>1. ASSUME NEW p \in DOMAIN node', p \notin Opens(stack'),
               node'[p].type \in {"array", "root"}, NEW j \in 0 .. node'[p].len - 1
        PROVE  Append(p, j) \in DOMAIN node'
    <3>1. p \in Places /\ p \notin Opens(stack) /\ node'[p] = node[p]
      BY <2>1, <1>11, <1>12
    <3>2. Append(p, j) \in Places
      BY <3>1, <2>1, <1>3 DEF IInv, Complete
    <3> QED
      BY <3>2, <1>12
  <2> QED
    BY <2>1 DEF Complete, Places
<1>15. << >> \in DOMAIN node' /\ node'[<< >>].type = "root"
  BY <1>3, <1>12
<1> QED
  BY <1>1, <1>6, <1>11, <1>13, <1>14, <1>15, GoesOn DEF IInv

\* Closing an array that is not the root: what its step does.
LEMMA Closing ==
  ASSUME IInv, CloseArray, Len(stack) # 1
  PROVE  /\ DOMAIN node' = Places
         /\ \A q \in Places : q # Frame.at => node'[q] = node[q]
         /\ ~node[Frame.at].manual => node'[Frame.at].dims = Dims(Frame)
         /\ node[Frame.at].manual => node'[Frame.at].dims \in HostDims(node[Frame.at])
         /\ node'[Frame.at].manual = node[Frame.at].manual
         /\ node'[Frame.at].type = "array" /\ node[Frame.at].type = "array"
         /\ node'[Frame.at].len = node[Frame.at].len
         /\ node'[Frame.at].rank = node[Frame.at].rank
         /\ node'[Frame.at].fixed = node[Frame.at].fixed
         /\ node'[Frame.at].oneD = node[Frame.at].oneD
         /\ TreeOK(node') /\ << >> \in DOMAIN node' /\ node'[<< >>].type = "root"
         /\ SoundArray(node', Frame.at)
         /\ Opens(stack) = Opens(Pop(stack)) \cup {Frame.at}
         /\ KidsIn(node, Frame.at) = Settled(Frame) /\ Frame.next = node[Frame.at].len
         /\ Frame.at # << >> /\ Front(Frame.at) \in Opens(Pop(stack))
         /\ Front(Frame.at) = Top(Pop(stack)).at
         /\ Absorb(Pop(stack), node'[Frame.at])
         /\ \/ phase' = "failed" /\ stack' = << >>
            \/ /\ phase' = "crashed" /\ stack' = << >>
               /\ \E p \in DOMAIN node' :
                    /\ node'[p].type = "array" /\ node'[p].fixed /\ ~node'[p].oneD
                    /\ \E q \in KidsIn(node', p) : node'[q].type # "array"
            \/ /\ phase' = phase /\ Chain(node', stack') /\ Fresh(node', stack')
               /\ stack' # << >> /\ Opens(stack') = Opens(Pop(stack))
<1> DEFINE C(d) == [node[Frame.at] EXCEPT !.dims = d]
           s == Pop(stack)
<1>1. phase = "building" /\ ~More
  BY DEF CloseArray, Building
<1>2. /\ TreeOK(node) /\ << >> \in Places /\ node[<< >>].type = "root"
      /\ Chain(node, stack) /\ Fresh(node, stack)
      /\ Frame \in Frames /\ Frame.at \in Places /\ Len(stack) \in Nat \ {0}
  BY <1>1, UnderWay
<1>0. PICK d \in IF node[Frame.at].manual THEN HostDims(node[Frame.at]) ELSE {Dims(Frame)} :
        node' = Put(Frame.at, C(d)) /\ Absorb(s, C(d))
  BY DEF CloseArray
<1> DEFINE c == C(d)
<1>3. /\ ~(Top(stack).next < node[Top(stack).at].len) /\ Len(stack) > 1
      /\ node' = Put(Frame.at, c) /\ Absorb(s, c)
  <2>1. node' = Put(Frame.at, c) /\ Absorb(s, c)
    BY <1>0
  <2> HIDE DEF s, c
  <2>2. PICK n \in Nat \ {0} : n = Len(stack)
    BY <1>2
  <2> QED
    BY <2>1, <2>2, <1>1 DEF More, Building, Frame
<1>4. /\ DOMAIN node' = Places /\ node'[Frame.at] = c
      /\ \A q \in Places : q # Frame.at => node'[q] = node[q]
  <2>1. /\ DOMAIN Put(Frame.at, c) = Places \cup {Frame.at}
        /\ Put(Frame.at, c)[Frame.at] = c
        /\ \A q \in Places : q # Frame.at => Put(Frame.at, c)[q] = node[q]
    BY DEF Put, Places
  <2> QED
    BY <2>1, <1>2, <1>3
<1>5. /\ c \in Nodes /\ c.dims = d /\ c.type = node[Frame.at].type
      /\ c.len = node[Frame.at].len /\ c.fixed = node[Frame.at].fixed
      /\ c.oneD = node[Frame.at].oneD /\ c.rank = node[Frame.at].rank
      /\ c.manual = node[Frame.at].manual
  <2>1. node[Frame.at] \in Nodes /\ Dims(Frame) \in Int
    BY <1>2, Constants DEF TreeOK, Places, Dims, Frames
  <2>2. node[Frame.at].rank \in Nat
    BY <2>1 DEF Nodes
  <2>3. HostDims(node[Frame.at]) \subseteq Int
    <3>1. Claims \subseteq Int /\ Mixed \in Int /\ IntMin \in Int
      BY ConstructAssumption, Constants
    <3>2. node[Frame.at].rank \in Int
      BY <2>2
    <3> QED
      BY <3>1, <3>2, Zenon DEF HostDims
  <2>4. d \in Int
    BY <2>1, <2>3
  <2>5. node[Frame.at] \in Nodes /\ c = [node[Frame.at] EXCEPT !.dims = d]
    BY <2>1
  <2> HIDE DEF c
  <2> QED
    BY <2>4, <2>5 DEF Nodes
<1>a. /\ ~node[Frame.at].manual => d = Dims(Frame)
      /\ node[Frame.at].manual => d \in HostDims(node[Frame.at])
  OBVIOUS
<1> HIDE DEF s, c, C
<1>6. Closes(node, node', stack)
  BY <1>3, <1>4, <1>5, <1>a DEF Closes, Frame, Places
<1>7. /\ TreeOK(node') /\ Chain(node', s) /\ s # << >>
      /\ Frame.at = NextPlace(Top(s)) /\ Top(s).next < node'[Top(s).at].len
      /\ SoundArray(node', Frame.at)
      /\ Opens(stack) = Opens(s) \cup {Frame.at}
      /\ KidsIn(node, Frame.at) = Settled(Frame) /\ Frame.next = node[Frame.at].len
      /\ node'[Frame.at].type = "array"
  BY <1>2, <1>6, ClosingKeeps DEF s, Frame
<1>8. /\ s \in Seq(Frames) /\ Len(s) \in Nat \ {0} /\ Top(s) = s[Len(s)]
      /\ Top(s) \in Frames
  BY <1>7, TopPop DEF Chain
<1>9. Frame.at # << >> /\ Front(Frame.at) \in Opens(s) /\ Front(Frame.at) = Top(s).at
  BY <1>7, <1>8, SettledPlaces DEF Opens
<1>10. node'[Top(s).at].oneD = node[Top(s).at].oneD
  <2>1. FrameOK(node', s, Len(s))
    BY <1>7, <1>8 DEF Chain
  <2>2. Top(s).at \in Places
    BY <2>1, <1>4, <1>8 DEF FrameOK
  <2> QED
    BY <2>2, <1>4, <1>5
<1>11. NextPlace(Top(s)) \in DOMAIN node' /\ Absorb(s, node'[NextPlace(Top(s))])
  BY <1>2, <1>3, <1>4, <1>7
<1>12. \/ phase' = "failed" /\ stack' = << >>
       \/ /\ phase' = "crashed" /\ stack' = << >>
          /\ \E p \in DOMAIN node' :
               /\ node'[p].type = "array" /\ node'[p].fixed /\ ~node'[p].oneD
               /\ \E q \in KidsIn(node', p) : node'[q].type # "array"
       \/ /\ phase' = phase /\ Chain(node', stack') /\ Fresh(node', stack')
          /\ stack' # << >> /\ Opens(stack') = Opens(s)
  BY <1>7, <1>10, <1>11, Absorbed
<1>13. << >> \in DOMAIN node' /\ node'[<< >>].type = "root"
  BY <1>2, <1>4, <1>5
<1>14. node[Frame.at].type = "array" /\ Absorb(s, node'[Frame.at])
  BY <1>3, <1>4, <1>5, <1>7
<1> QED
  BY <1>4, <1>5, <1>a, <1>7, <1>9, <1>12, <1>13, <1>14 DEF s

LEMMA StepClose == ASSUME IInv, CloseArray  PROVE IInv'
<1>1. phase = "building" /\ ~More /\ NotWalking
  BY DEF CloseArray, Building
<1>2. /\ TreeOK(node) /\ << >> \in Places /\ node[<< >>].type = "root"
      /\ Chain(node, stack) /\ Fresh(node, stack) /\ stack # << >> /\ Finished
      /\ Frame = stack[Len(stack)] /\ Frame \in Frames /\ Frame.at \in Places
      /\ Len(stack) \in Nat \ {0} /\ node[Frame.at].len \in Nat
      /\ Frame.next \in Nat /\ Frame.at \in IsPlace
  BY <1>1, UnderWay
<1>3. ~(Frame.next < node[Frame.at].len)
  BY <1>1 DEF More, Building
<1>4. \A p \in Places : p \notin Opens(stack) /\ node[p].type = "array" => SoundArray(node, p)
  BY <1>2 DEF IInv, ArraysInv
<1>5. \A p \in Places : p \notin Opens(stack) /\ node[p].type \in {"array", "root"} =>
        \A j \in 0 .. node[p].len - 1 : Append(p, j) \in Places
  BY <1>2 DEF IInv, Complete
<1>6. WalkInv
  BY DEF IInv
<1>7. CASE Len(stack) = 1
  <2>1. phase' = "built" /\ stack' = << >> /\ node' = node
    BY <1>7 DEF CloseArray
  <2>2. FrameOK(node, stack, 1)
    BY <1>2, <1>7 DEF Chain
  <2>3. Frame.at = << >> /\ Settled(Frame) \subseteq Places /\ Frame.next <= node[Frame.at].len
    BY <2>2, <1>2, <1>7, EmptySeq DEF FrameOK, Places, IsPlace
  <2>4. \A j \in 0 .. node[<< >>].len - 1 : Append(<< >>, j) \in Places
    <3>1. Frame.next = node[<< >>].len
      BY <2>3, <1>2, <1>3
    <3> QED
      BY <3>1, <2>3, <1>2, SettledPlaces
  <2>5. Opens(stack) = {<< >>} /\ Opens(stack') = {}
    BY <2>1, <2>3, <1>2, <1>7, EmptySeq DEF Opens
  <2>6. ArraysInv'
    BY <2>1, <2>5, <1>2, <1>4 DEF ArraysInv, Places
  <2>7. Complete'
    BY <2>1, <2>4, <2>5, <1>5 DEF Complete, Places
  <2>8. TreeInv'
    BY <2>1, <1>2 DEF TreeInv, Places
  <2>9. StackInv' /\ CrashInv'
    BY <2>1, EmptySeq DEF StackInv, CrashInv, Chain, Fresh, Phases
  <2>10. walk = << >> /\ walk' = << >> /\ pruned' = {}
    BY <1>1, <1>6 DEF WalkInv, NotWalking
  <2>11. WalkInv'
    BY <2>1, <2>10, EmptySeq DEF WalkInv
  <2> QED
    BY <2>6, <2>7, <2>8, <2>9, <2>11 DEF IInv
<1>8. CASE Len(stack) # 1
  <2> DEFINE s == Pop(stack)
  <2>1. /\ DOMAIN node' = Places
        /\ \A q \in Places : q # Frame.at => node'[q] = node[q]
        /\ node'[Frame.at].len = node[Frame.at].len
        /\ TreeOK(node') /\ << >> \in DOMAIN node' /\ node'[<< >>].type = "root"
        /\ SoundArray(node', Frame.at) /\ Opens(stack) = Opens(s) \cup {Frame.at}
        /\ KidsIn(node, Frame.at) = Settled(Frame) /\ Frame.next = node[Frame.at].len
        /\ Frame.at # << >> /\ Front(Frame.at) \in Opens(s)
    BY <1>8, Closing
  <2>2. \/ phase' = "failed" /\ stack' = << >>
        \/ /\ phase' = "crashed" /\ stack' = << >>
           /\ \E p \in DOMAIN node' :
                /\ node'[p].type = "array" /\ node'[p].fixed /\ ~node'[p].oneD
                /\ \E q \in KidsIn(node', p) : node'[q].type # "array"
        \/ /\ phase' = phase /\ Chain(node', stack') /\ Fresh(node', stack')
           /\ stack' # << >> /\ Opens(stack') = Opens(s)
    BY <1>8, Closing
  <2> HIDE DEF s
  <2>3. CASE phase' = "failed" /\ stack' = << >>
    <3>1. CrashInv'
      BY <2>3 DEF CrashInv
    <3> QED
      BY <3>1, <2>1, <2>3, <1>1, <1>6, Ended
  <2>4. CASE /\ phase' = "crashed" /\ stack' = << >>
             /\ \E p \in DOMAIN node' :
                  /\ node'[p].type = "array" /\ node'[p].fixed /\ ~node'[p].oneD
                  /\ \E q \in KidsIn(node', p) : node'[q].type # "array"
    <3>1. CrashInv'
      BY <2>4 DEF CrashInv, Places
    <3> QED
      BY <3>1, <2>1, <2>4, <1>1, <1>6, Ended
  <2>5. CASE /\ phase' = phase /\ Chain(node', stack') /\ Fresh(node', stack')
             /\ stack' # << >> /\ Opens(stack') = Opens(s)
    <3>1. \A p \in DOMAIN node' : KidsIn(node', p) = KidsIn(node, p)
      BY <2>1 DEF KidsIn, Places
    <3>2. ASSUME NEW p \in DOMAIN node', p \notin Opens(s), node'[p].type = "array"
          PROVE  SoundArray(node', p)
      <4>1. CASE p = Frame.at
        BY <4>1, <2>1
      <4>2. CASE p # Frame.at
        <5>1. p \in Places /\ p \notin Opens(stack) /\ node'[p] = node[p]
          BY <4>2, <3>2, <2>1
        <5>2. SoundArray(node, p)
          BY <5>1, <3>2, <1>4
        <5>3. \A q \in KidsIn(node, p) : node'[q] = node[q]
          BY <3>2, <2>1 DEF KidsIn, Places
        <5> QED
          BY <5>1, <5>2, <5>3, <3>1, ArrayKept
      <4> QED
        BY <4>1, <4>2
    <3>3. ASSUME NEW p \in DOMAIN node', p \notin Opens(s),
                 node'[p].type \in {"array", "root"}, NEW j \in 0 .. node'[p].len - 1
          PROVE  Append(p, j) \in DOMAIN node'
      <4>1. CASE p = Frame.at
        <5>1. j \in 0 .. Frame.next - 1
          BY <4>1, <3>3, <2>1
        <5>2. Append(p, j) \in Settled(Frame)
          BY <5>1, <4>1, <1>2, SettledPlaces
        <5> QED
          BY <5>2, <2>1 DEF KidsIn, Places
      <4>2. CASE p # Frame.at
        BY <4>2, <3>3, <2>1, <1>5
      <4> QED
        BY <4>1, <4>2
    <3>4. ArraysInv' /\ Complete'
      BY <3>2, <3>3, <2>5 DEF ArraysInv, Complete, Places
    <3> QED
      BY <3>4, <2>1, <2>5, <1>1, <1>6, GoesOn
  <2> QED
    BY <2>2, <2>3, <2>4, <2>5
<1> QED
  BY <1>7, <1>8

LEMMA StepThrow == ASSUME IInv, Throw  PROVE IInv'
<1>1. /\ phase = "building" /\ NotWalking /\ node' = node
      /\ phase' \in {"failed", "thrown"} /\ stack' = << >>
  BY DEF Throw, More, Building
<1>2. /\ TreeOK(node) /\ << >> \in Places /\ node[<< >>].type = "root"
  BY <1>1, UnderWay
<1>3. WalkInv /\ CrashInv'
  BY <1>1 DEF IInv, CrashInv
<1> QED
  BY <1>1, <1>2, <1>3, Ended DEF Places

------------------------------------------------------------------------------
(***************************************************************************)
(* The steps of the traversal, which changes nothing of the tree.           *)
(***************************************************************************)

\* A step of the traversal leaves the tree and what is said of it.
LEMMA WalkStep ==
  ASSUME IInv, node' = node, stack' = stack, stack = << >>, WalkInv',
         phase \in {"built", "walking"}, phase' \in {"walking", "walked", "refused"}
  PROVE  IInv'
<1>1. TreeInv'
  BY DEF IInv, TreeInv, Places
<1>2. StackInv'
  BY DEF IInv, StackInv, Phases
<1>3. ArraysInv' /\ Complete'
  BY DEF IInv, ArraysInv, Complete, Finished, Places
<1>4. CrashInv'
  BY DEF CrashInv
<1> QED
  BY <1>1, <1>2, <1>3, <1>4 DEF IInv

\* A frame of the traversal is at an element of the tree.
LEMMA Walking ==
  ASSUME IInv, phase = "walking"
  PROVE  /\ stack = << >> /\ TreeOK(node)
         /\ walk \in Seq(Steps) /\ walk # << >> /\ Len(walk) \in Nat \ {0}
         /\ Top(walk) = walk[Len(walk)] /\ Top(walk) \in Steps
         /\ Top(walk).at \in Places /\ node[Top(walk).at].len \in Nat
         /\ Pop(walk) \in Seq(Steps) /\ Len(Pop(walk)) = Len(walk) - 1
         /\ \A i \in 1 .. Len(walk) - 1 : Pop(walk)[i] = walk[i]
         /\ Top(walk).next < node[Top(walk).at].len
              => Append(Top(walk).at, Top(walk).next) \in Places
<1>1. /\ stack = << >> /\ TreeOK(node) /\ walk \in Seq(Steps) /\ walk # << >>
  BY DEF IInv, StackInv, TreeInv, WalkInv
<1>2. Len(walk) \in Nat \ {0} /\ \A i \in 1 .. Len(walk) : walk[i] \in Steps
  BY <1>1, EmptySeq, ElementOfSeq
<1>3. Top(walk) = walk[Len(walk)] /\ Top(walk) \in Steps
  BY <1>2 DEF Top
<1>4. /\ Top(walk).at \in Places /\ node[Top(walk).at].type \in {"array", "root"}
      /\ Top(walk).next <= node[Top(walk).at].len
  BY <1>2, <1>3 DEF IInv, WalkInv
<1>5. node[Top(walk).at].len \in Nat
  BY <1>1, <1>4 DEF TreeOK, Places, Nodes
<1>6. Top(walk).next < node[Top(walk).at].len
        => Append(Top(walk).at, Top(walk).next) \in Places
  <2>1. Finished /\ Opens(stack) = {}
    BY <1>1, EmptySeq DEF Finished, Opens
  <2>2. Top(walk).next \in Nat
    BY <1>3 DEF Steps
  <2> QED
    BY <2>1, <2>2, <1>4, <1>5 DEF IInv, Complete
<1>7. /\ Pop(walk) = SubSeq(walk, 1, Len(walk) - 1)
      /\ \A i \in 1 .. Len(walk) - 1 : walk[i] \in Steps
      /\ Len(walk) - 1 \in Int
  BY <1>2 DEF Pop
<1>8. /\ Pop(walk) \in Seq(Steps)
      /\ Len(Pop(walk)) = IF 1 <= Len(walk) - 1 THEN (Len(walk) - 1) - 1 + 1 ELSE 0
      /\ \A i \in 1 .. (Len(walk) - 1) - 1 + 1 : Pop(walk)[i] = walk[1 + i - 1]
  BY <1>7, SubSeqProperties
<1>9. Len(Pop(walk)) = Len(walk) - 1
  <2>1. PICK n \in Nat \ {0} : n = Len(walk)
    BY <1>2
  <2>2. Len(Pop(walk)) = IF 1 <= n - 1 THEN (n - 1) - 1 + 1 ELSE 0
    BY <1>8, <2>1
  <2> QED
    BY <2>1, <2>2
<1>10. ASSUME NEW i \in 1 .. Len(walk) - 1  PROVE Pop(walk)[i] = walk[i]
  <2>1. i \in 1 .. (Len(walk) - 1) - 1 + 1 /\ 1 + i - 1 = i
    BY <1>2
  <2> QED
    BY <1>8, <2>1
<1> QED
  BY <1>1, <1>2, <1>3, <1>4, <1>5, <1>6, <1>8, <1>9, <1>10

LEMMA StepStartWalk == ASSUME IInv, StartWalk  PROVE IInv'
<1>1. /\ phase = "built" /\ phase' = "walking" /\ node' = node /\ stack' = stack
      /\ pruned' = pruned /\ walk' = <<[at |-> << >>, next |-> 0]>>
  BY DEF StartWalk
<1>2. /\ stack = << >> /\ << >> \in Places /\ node[<< >>].type = "root"
      /\ TreeOK(node)
  BY <1>1 DEF IInv, StackInv, TreeInv
<1>3. node[<< >>].len \in Nat
  BY <1>2 DEF TreeOK, Places, Nodes
<1>4. [at |-> << >>, next |-> 0] \in Steps
  BY EmptySeq DEF Steps, IsPlace
<1>5. /\ walk' \in Seq(Steps) /\ Len(walk') = 1 /\ walk' # << >>
      /\ walk'[1] = [at |-> << >>, next |-> 0]
  BY <1>1, <1>4
<1>6. pruned \subseteq Arrays
  BY DEF IInv, WalkInv
<1>7. WalkInv'
  BY <1>1, <1>2, <1>3, <1>5, <1>6 DEF WalkInv, Places, Arrays
<1> QED
  BY <1>1, <1>2, <1>7, WalkStep

LEMMA StepVisit == ASSUME IInv, Visit  PROVE IInv'
<1> DEFINE f == Top(walk)
           p == Append(f.at, f.next)
           rest == [walk EXCEPT ![Len(walk)].next = @ + 1]
<1>1. /\ phase = "walking" /\ f.next < node[f.at].len
      /\ node' = node /\ stack' = stack
      /\ \/ /\ node[p].type = "array"
            /\ walk' = Append(rest, [at |-> p, next |-> 0]) /\ UNCHANGED <<pruned, phase>>
         \/ /\ node[p].type = "array"
            /\ walk' = rest /\ pruned' = pruned \cup {p} /\ UNCHANGED phase
         \/ /\ node[p].type # "array"
            /\ walk' = rest /\ UNCHANGED <<pruned, phase>>
         \/ /\ node[p].type \in Unset
            /\ walk' = << >> /\ phase' = "refused" /\ UNCHANGED <<seen, pruned>>
  BY DEF Visit
<1>2. /\ stack = << >> /\ TreeOK(node) /\ walk \in Seq(Steps) /\ walk # << >>
      /\ Len(walk) \in Nat \ {0} /\ f = walk[Len(walk)] /\ f \in Steps
      /\ node[f.at].len \in Nat /\ p \in Places
  BY <1>1, Walking
<1>3. /\ pruned \subseteq Arrays
      /\ \A i \in 1 .. Len(walk) : /\ walk[i].at \in Places
                                   /\ node[walk[i].at].type \in {"array", "root"}
                                   /\ walk[i].next <= node[walk[i].at].len
  BY DEF IInv, WalkInv
<1>4. p \in IsPlace /\ node[p] \in Nodes
  BY <1>2 DEF TreeOK, Places
<1> HIDE DEF p
<1>5. /\ rest \in Seq(Steps) /\ Len(rest) = Len(walk) /\ rest # << >>
      /\ \A i \in 1 .. Len(rest) : /\ rest[i].at \in Places
                                   /\ node[rest[i].at].type \in {"array", "root"}
                                   /\ rest[i].next <= node[rest[i].at].len
  <2> DEFINE g == [f EXCEPT !.next = @ + 1]
  <2>1. rest = [walk EXCEPT ![Len(walk)] = g]
    BY <1>2
  <2>2. g \in Steps /\ g.at = f.at /\ g.next = f.next + 1 /\ f.next \in Nat
    BY <1>2 DEF Steps
  <2> HIDE DEF g
  <2>3. /\ rest \in Seq(Steps) /\ Len(rest) = Len(walk)
        /\ \A i \in 1 .. Len(walk) : rest[i] = IF i = Len(walk) THEN g ELSE walk[i]
    BY <2>1, <2>2, <1>2, ExceptSeq
  <2>4. rest # << >>
    BY <2>3, <1>2, EmptySeq
  <2> HIDE DEF rest
  <2>5. g.next <= node[g.at].len
    BY <2>2, <1>1, <1>2
  <2> QED
    BY <2>2, <2>3, <2>4, <2>5, <1>2, <1>3
<1> HIDE DEF rest, f
<1>6. CASE /\ node[p].type = "array"
           /\ walk' = Append(rest, [at |-> p, next |-> 0]) /\ UNCHANGED <<pruned, phase>>
  <2>1. [at |-> p, next |-> 0] \in Steps
    BY <1>4 DEF Steps
  <2>2. /\ walk' \in Seq(Steps) /\ walk' # << >> /\ Len(walk') = Len(rest) + 1
        /\ \A i \in 1 .. Len(rest) : walk'[i] = rest[i]
        /\ walk'[Len(rest) + 1] = [at |-> p, next |-> 0]
    BY <2>1, <1>5, <1>6, AppendProperties
  <2>3. ASSUME NEW i \in 1 .. Len(walk')
        PROVE  /\ walk'[i].at \in Places
               /\ node[walk'[i].at].type \in {"array", "root"}
               /\ walk'[i].next <= node[walk'[i].at].len
    <3>1. CASE i \in 1 .. Len(rest)
      BY <3>1, <2>2, <1>5
    <3>2. CASE i = Len(rest) + 1
      <4>1. walk'[i].at = p /\ walk'[i].next = 0 /\ node[p].len \in Nat
        BY <3>2, <2>2, <1>4 DEF Nodes
      <4> QED
        BY <4>1, <1>2, <1>6
    <3> QED
      BY <3>1, <3>2, <2>2, <1>2, <1>5
  <2>4. WalkInv'
    BY <2>2, <2>3, <1>1, <1>3, <1>6 DEF WalkInv, Places, Arrays
  <2> QED
    BY <2>4, <1>1, <1>2, <1>6, WalkStep
<1>7. CASE /\ walk' = rest /\ UNCHANGED phase
           /\ \/ node[p].type = "array" /\ pruned' = pruned \cup {p}
              \/ UNCHANGED pruned
  <2>1. pruned' \subseteq Arrays
    BY <1>2, <1>3, <1>7 DEF Arrays
  <2>2. WalkInv'
    BY <2>1, <1>1, <1>5, <1>7 DEF WalkInv, Places, Arrays
  <2> QED
    BY <2>2, <1>1, <1>2, <1>7, WalkStep
<1>8. CASE walk' = << >> /\ phase' = "refused" /\ UNCHANGED <<seen, pruned>>
  <2>1. WalkInv'
    BY <1>1, <1>3, <1>8, EmptySeq DEF WalkInv, Places, Arrays
  <2> QED
    BY <2>1, <1>1, <1>2, <1>8, WalkStep
<1> QED
  BY <1>1, <1>6, <1>7, <1>8

LEMMA StepEndArray == ASSUME IInv, EndArray  PROVE IInv'
<1>1. /\ phase = "walking" /\ walk' = Pop(walk) /\ node' = node /\ stack' = stack
      /\ pruned' = pruned /\ phase' = IF Len(walk) = 1 THEN "walked" ELSE phase
  BY DEF EndArray
<1>2. /\ stack = << >> /\ Len(walk) \in Nat \ {0}
      /\ walk' \in Seq(Steps) /\ Len(walk') = Len(walk) - 1
      /\ \A i \in 1 .. Len(walk) - 1 : walk'[i] = walk[i]
  BY <1>1, Walking
<1>3. /\ pruned \subseteq Arrays
      /\ \A i \in 1 .. Len(walk) : /\ walk[i].at \in Places
                                   /\ node[walk[i].at].type \in {"array", "root"}
                                   /\ walk[i].next <= node[walk[i].at].len
  BY DEF IInv, WalkInv
<1>4. phase' = "walking" <=> walk' # << >>
  BY <1>1, <1>2, EmptySeq
<1>5. ASSUME NEW i \in 1 .. Len(walk')
      PROVE  /\ walk'[i].at \in Places
             /\ node[walk'[i].at].type \in {"array", "root"}
             /\ walk'[i].next <= node[walk'[i].at].len
  <2>1. i \in 1 .. Len(walk) - 1 /\ i \in 1 .. Len(walk)
    BY <1>2
  <2> QED
    BY <2>1, <1>2, <1>3
<1>6. WalkInv'
  BY <1>1, <1>2, <1>3, <1>4, <1>5 DEF WalkInv, Places, Arrays
<1> QED
  BY <1>1, <1>2, <1>6, WalkStep

------------------------------------------------------------------------------
(***************************************************************************)
(* The theorems.                                                            *)
(***************************************************************************)

\* Every step of a construction or a traversal keeps the invariant.
THEOREM Invariant == Spec => []IInv
<1>1. ASSUME IInv, [Next]_vars  PROVE IInv'
  <2>1. CASE UNCHANGED vars
    BY <1>1, <2>1 DEF vars, IInv, TreeInv, StackInv, ArraysInv, Complete, CrashInv, WalkInv,
       Finished, Places, Arrays
  <2> QED
    BY <1>1, <2>1, StepStart, StepLeaf, StepOpen, StepClose, StepThrow,
       StepStartWalk, StepVisit, StepEndArray DEF Next
<1> QED
  BY <1>1, InitInv, PTL DEF Spec

\* Frames of the recursion and of the traversal are at places of the tree,
\* and never past the end of the array they are in.
THEOREM TypeCorrect == Spec => []TypeOK
<1>1. ASSUME IInv  PROVE TypeOK
  <2>1. phase \in Phases /\ pruned \subseteq Arrays
    BY <1>1 DEF IInv, StackInv, WalkInv
  <2>2. \A p \in Places : node[p].type \in Types /\ node[p].len \in Nat
    BY <1>1 DEF IInv, TreeInv, TreeOK, Places, Nodes
  <2>3. ASSUME NEW i \in 1 .. Len(stack)
        PROVE  /\ stack[i].at \in Places /\ stack[i].next \in 0 .. node[stack[i].at].len
               /\ stack[i].found \in Int
    <3>1. FrameOK(node, stack, i) /\ stack[i] \in Frames
      BY <1>1, ElementOfSeq DEF IInv, StackInv, Chain
    <3>2. stack[i].at \in Places /\ stack[i].next <= node[stack[i].at].len
      BY <3>1 DEF FrameOK, Places
    <3>3. stack[i].next \in Nat /\ stack[i].found \in Int
      BY <3>1 DEF Frames
    <3> QED
      BY <3>2, <3>3, <2>2
  <2>4. ASSUME NEW i \in 1 .. Len(walk)
        PROVE  walk[i].next \in 0 .. node[walk[i].at].len
    <3>1. /\ walk[i] \in Steps /\ walk[i].at \in Places
          /\ walk[i].next <= node[walk[i].at].len
      BY <1>1, ElementOfSeq DEF IInv, WalkInv
    <3>2. walk[i].next \in Nat
      BY <3>1 DEF Steps
    <3> QED
      BY <3>1, <3>2, <2>2
  <2> QED
    BY <2>1, <2>2, <2>3, <2>4 DEF TypeOK, Phases, Types
<1> QED
  BY <1>1, Invariant, PTL

\* The elements of an array are at the places one index longer than its own.
LEMMA KidsAre ==
  ASSUME IInv, NEW p \in Places
  PROVE  /\ KidPlaces(p) = KidsIn(node, p)
         /\ Kids(p) = {node[q] : q \in KidsIn(node, p)}
<1>1. \A q \in Places : q \in IsPlace
  BY DEF IInv, TreeInv, TreeOK, Places
<1>2. \A q \in Places : IsStrictPrefix(p, q) /\ Len(q) = Len(p) + 1 <=> q # << >> /\ Front(q) = p
  BY <1>1, KidIsPrefixed
<1> QED
  BY <1>2 DEF Kids, KidPlaces, Below, KidsIn, Places

\* Closed arrays that construct_cdt filled are among those the invariant speaks
\* of.
LEMMA ClosedSound ==
  ASSUME IInv, NEW p \in Counted
  PROVE  p \in Places /\ Finished /\ SoundArray(node, p) /\ ~node[p].manual
  BY DEF Counted, Closed, Arrays, Open, IInv, ArraysInv, Opens, Places

\* Counting dimensions reads a scalar as an array only in an array with scalars
\* in it that construct_cdt filled, and that the host called fixed, and not
\* one-dimensional.
THEOREM CrashIsTheHosts == Spec => []CrashNeedsFalseClaim
<1>1. ASSUME IInv, phase = "crashed"
      PROVE  \E p \in Arrays : /\ node[p].fixed /\ ~node[p].oneD /\ ~node[p].manual
                               /\ \E c \in Kids(p) : c.type # "array"
  <2>1. PICK p \in Places : /\ node[p].type = "array" /\ node[p].fixed /\ ~node[p].oneD
                            /\ \E q \in KidsIn(node, p) : node[q].type # "array"
    BY <1>1 DEF IInv, CrashInv
  <2>2. ~node[p].manual
    BY <1>1, <2>1 DEF IInv, TreeInv, TreeOK, Unflagged, Places
  <2> QED
    BY <1>1, <2>1, <2>2, KidsAre DEF Arrays
<1>2. IInv => CrashNeedsFalseClaim
  BY <1>1 DEF CrashNeedsFalseClaim
<1> QED
  BY <1>2, Invariant, PTL

\* A receiver that is told n dimensions of an array construct_cdt filled may
\* index n deep, but for elements at its front that never got dimensions from
\* the host that filled them - whatever it did inside.
THEOREM DimensionsCanBeIndexed == Spec => []DimsSound
<1>1. ASSUME IInv, NEW p \in Counted, node[p].dims >= 1
      PROVE  IF node[p].oneD
             THEN \A c \in Kids(p) : c.type # "array"
             ELSE \E n \in 0 .. node[p].len - 1 : \A q \in KidPlaces(p) :
                    /\ node[q].type = "array"
                    /\ node[q].dims = IF Last(q) < n THEN IntMin ELSE node[p].dims - 1
  <2>1. p \in Places /\ SoundArray(node, p) /\ ~node[p].manual
    BY <1>1, ClosedSound
  <2>2. /\ KidPlaces(p) = KidsIn(node, p)
        /\ Kids(p) = {node[q] : q \in KidsIn(node, p)}
    BY <1>1, <2>1, KidsAre
  <2>3. CASE node[p].oneD
    BY <2>1, <2>2, <2>3 DEF SoundArray
  <2>4. CASE ~node[p].oneD
    <3>1. \E n \in 0 .. node[p].len - 1 : Run(node, KidsIn(node, p), n, node[p].dims - 1)
      BY <1>1, <2>1, <2>4 DEF SoundArray
    <3> QED
      BY <3>1, <2>2, <2>4 DEF Run
  <2> QED
    BY <2>3, <2>4
<1>2. IInv => DimsSound
  BY <1>1 DEF DimsSound
<1> QED
  BY <1>2, Invariant, PTL

\* An array of arrays that agree has one dimension more than they, and one of
\* arrays that differ is mixed.
THEOREM DimensionsAreExact == Spec => []DimsExact
<1>1. ASSUME IInv, NEW p \in Counted, node[p].fixed /\ ~node[p].oneD,
             {c.dims : c \in Kids(p)} # {}, IntMin \notin {c.dims : c \in Kids(p)},
             \A c \in Kids(p) : c.type = "array"
      PROVE  node[p].dims = IF \E d \in {c.dims : c \in Kids(p)} :
                                 {c.dims : c \in Kids(p)} = {d} /\ d # Mixed
                            THEN (CHOOSE d \in {c.dims : c \in Kids(p)} : TRUE) + 1
                            ELSE Mixed
  <2> DEFINE K == KidsIn(node, p)
             D == {c.dims : c \in Kids(p)}
  <2>1. p \in Places /\ SoundArray(node, p)
    BY <1>1, ClosedSound
  <2>2. Kids(p) = {node[q] : q \in K}
    BY <1>1, <2>1, KidsAre
  <2>3. D = {node[q].dims : q \in K}
    BY <2>2
  <2>4. K # {} /\ \A q \in K : node[q].type = "array" /\ node[q].dims # IntMin
    BY <1>1, <2>2
  <2>5. /\ \A q \in K : node[q].dims # Mixed /\ (\A r \in K : node[r].dims = node[q].dims)
                         => node[p].dims = node[q].dims + 1
        /\ \A q, r \in K : node[q].dims = Mixed \/ node[q].dims # node[r].dims
                             => node[p].dims = Mixed
    BY <1>1, <2>1, <2>4 DEF SoundArray
  <2> HIDE DEF D, K
  <2>6. CASE \E d \in D : D = {d} /\ d # Mixed
    <3>1. PICK d \in D : D = {d} /\ d # Mixed
      BY <2>6
    <3>2. (CHOOSE e \in D : TRUE) = d
      BY <3>1
    <3>3. \A q \in K : node[q].dims = d
      BY <2>3, <3>1
    <3>4. node[p].dims = d + 1
      BY <2>4, <2>5, <3>1, <3>3
    <3> QED
      BY <2>6, <3>2, <3>4 DEF D
  <2>7. CASE ~ \E d \in D : D = {d} /\ d # Mixed
    <3>1. PICK q \in K : TRUE
      BY <2>4
    <3>2. node[q].dims \in D /\ (D # {node[q].dims} \/ node[q].dims = Mixed)
      BY <2>3, <2>7
    <3>3. \E r \in K : node[q].dims = Mixed \/ node[q].dims # node[r].dims
      BY <2>3, <3>2
    <3> QED
      BY <2>5, <2>7, <3>3 DEF D
  <2> QED
    BY <2>6, <2>7
<1>2. IInv => DimsExact
  BY <1>1, Zenon DEF DimsExact
<1> QED
  BY <1>2, Invariant, PTL

------------------------------------------------------------------------------
(***************************************************************************)
(* Truthful hosts: the dimensions counted are the ranks of their arrays.    *)
(***************************************************************************)

FullIn(t, p) == \A q \in DOMAIN t :
  (q = p \/ IsStrictPrefix(p, q)) /\ t[q].rank > 1 => t[q].len > 0

Ranked(t) == \A p \in DOMAIN t :
  /\ t[p].type # "array" => t[p].rank = 0
  /\ t[p].type = "array" /\ ~t[p].manual => /\ t[p].fixed <=> t[p].rank > 0
                                            /\ t[p].oneD <=> t[p].rank = 1
  /\ t[p].type = "array" /\ t[p].rank = 1 =>
       \A q \in KidsIn(t, p) : t[q].type # "array"
  /\ t[p].type = "array" /\ t[p].rank > 1 =>
       \A q \in KidsIn(t, p) : t[q].type = "array" /\ t[q].rank = t[p].rank - 1

RankedDims == Finished =>
  \A p \in Places : node[p].type = "array" /\ p \notin Opens(stack) /\ FullIn(node, p)
    => node[p].dims = IF node[p].rank = 0 THEN Mixed ELSE node[p].rank

TInv == truthful => phase \notin {"failed", "crashed"} /\ Ranked(node) /\ RankedDims

\* What is inside an array's element is inside the array.
LEMMA InsideKid ==
  ASSUME NEW p \in IsPlace, NEW q \in IsPlace, NEW r \in IsPlace,
         q # << >>, Front(q) = p, q = r \/ IsStrictPrefix(q, r)
  PROVE  IsStrictPrefix(p, r)
<1>1. IsStrictPrefix(p, q) /\ Len(q) = Len(p) + 1
  BY KidIsPrefixed
<1>2. CASE q = r
  BY <1>1, <1>2
<1>3. CASE IsStrictPrefix(q, r)
  <2>1. Len(p) \in Nat /\ Len(q) \in Nat /\ Len(r) \in Nat
    BY LenProperties DEF IsPlace
  <2>2. Len(q) <= Len(r) /\ SubSeq(q, 1, Len(q)) = SubSeq(r, 1, Len(q))
    BY <1>3 DEF IsStrictPrefix, IsPrefix
  <2>3. q = SubSeq(r, 1, Len(q)) /\ p = SubSeq(p, 1, Len(p)) /\ p = SubSeq(q, 1, Len(p))
    BY <2>2, <1>1, SubSeqFull DEF IsPlace, IsStrictPrefix, IsPrefix
  <2>4. \A i \in 1 .. Len(p) : p[i] = r[i]
    <3> TAKE i \in 1 .. Len(p)
    <3>1. i \in 1 .. Len(q)
      BY <1>1, <2>1
    <3>2. SubSeq(r, 1, Len(q))[i] = r[i] /\ SubSeq(q, 1, Len(p))[i] = q[i]
      BY <3>1, <2>1, <2>2 DEF IsPlace
    <3> QED
      BY <3>2, <2>3
  <2>5. SubSeq(r, 1, Len(p)) = p
    <3>1. /\ SubSeq(r, 1, Len(p)) \in Seq(Nat) /\ Len(SubSeq(r, 1, Len(p))) = Len(p)
          /\ \A i \in 1 .. Len(p) : SubSeq(r, 1, Len(p))[i] = r[i]
      BY <1>1, <2>1, <2>2 DEF IsPlace
    <3> QED
      BY <3>1, <2>4, SeqEqual DEF IsPlace
  <2>6. Len(p) < Len(r)
    BY <1>1, <2>1, <2>2
  <2> QED
    BY <2>1, <2>3, <2>5, <2>6 DEF IsStrictPrefix, IsPrefix
<1> QED
  BY <1>2, <1>3

\* Growing by an element that fits its array keeps ranks, and what is closed.
LEMMA GrownRanks ==
  ASSUME IInv, TInv, truthful, phase = "building", Grows(node, node', Here, {}),
         node'[Here].type # "array" => node'[Here].rank = 0,
         node'[Here].type = "array" /\ ~node'[Here].manual =>
           /\ node'[Here].fixed <=> node'[Here].rank > 0
           /\ node'[Here].oneD <=> node'[Here].rank = 1,
         node[Frame.at].type = "array" /\ node[Frame.at].rank = 1 =>
           node'[Here].type # "array",
         node[Frame.at].type = "array" /\ node[Frame.at].rank > 1 =>
           node'[Here].type = "array" /\ node'[Here].rank = node[Frame.at].rank - 1
  PROVE  /\ Ranked(node')
         /\ \A p \in Places :
              /\ node'[p] = node[p]
              /\ node[p].type = "array" /\ p \notin Opens(stack) /\ FullIn(node', p)
                   => node[p].dims = IF node[p].rank = 0 THEN Mixed ELSE node[p].rank
<1>1. /\ TreeOK(node) /\ Finished /\ Frame.at \in Places /\ Front(Here) = Frame.at
  BY UnderWay
<1>2. DOMAIN node' = Places \cup {Here} /\ \A q \in Places : node'[q] = node[q]
  BY DEF Grows, Places
<1>3. /\ \A p \in Places : p # Frame.at => KidsIn(node', p) = KidsIn(node, p)
      /\ KidsIn(node', Frame.at) = KidsIn(node, Frame.at) \cup {Here}
      /\ KidsIn(node', Here) = {}
  BY <1>1, GrownKids DEF Places
<1>4. \A p \in Places : KidsIn(node, p) \subseteq Places
  BY DEF KidsIn, Places
<1>5. Ranked(node)
  BY DEF TInv
<1>6. ASSUME NEW p \in DOMAIN node'
      PROVE  /\ node'[p].type # "array" => node'[p].rank = 0
             /\ node'[p].type = "array" /\ ~node'[p].manual =>
                  /\ node'[p].fixed <=> node'[p].rank > 0
                  /\ node'[p].oneD <=> node'[p].rank = 1
             /\ node'[p].type = "array" /\ node'[p].rank = 1 =>
                  \A q \in KidsIn(node', p) : node'[q].type # "array"
             /\ node'[p].type = "array" /\ node'[p].rank > 1 =>
                  \A q \in KidsIn(node', p) :
                    node'[q].type = "array" /\ node'[q].rank = node'[p].rank - 1
  <2>1. CASE p = Here
    BY <2>1, <1>3
  <2>2. CASE p \in Places
    <3>1. /\ node[p].type # "array" => node[p].rank = 0
          /\ node[p].type = "array" /\ ~node[p].manual =>
               /\ node[p].fixed <=> node[p].rank > 0
               /\ node[p].oneD <=> node[p].rank = 1
          /\ node[p].type = "array" /\ node[p].rank = 1 =>
               \A q \in KidsIn(node, p) : node[q].type # "array"
          /\ node[p].type = "array" /\ node[p].rank > 1 =>
               \A q \in KidsIn(node, p) :
                 node[q].type = "array" /\ node[q].rank = node[p].rank - 1
      BY <2>2, <1>5 DEF Ranked, Places
    <3> QED
      BY <2>2, <3>1, <1>2, <1>3, <1>4
  <2> QED
    BY <2>1, <2>2, <1>2
<1>7. ASSUME NEW p \in Places, node[p].type = "array", p \notin Opens(stack), FullIn(node', p)
      PROVE  node[p].dims = IF node[p].rank = 0 THEN Mixed ELSE node[p].rank
  <2>1. FullIn(node, p)
    BY <1>2, <1>7 DEF FullIn, Places
  <2> QED
    BY <1>1, <1>7, <2>1 DEF TInv, RankedDims
<1> QED
  BY <1>2, <1>6, <1>7 DEF Ranked

LEMMA TypedLeaf == ASSUME IInv, IInv', TInv, truthful, ConstructLeaf  PROVE TInv'
<1>1. More /\ phase = "building"
  BY DEF ConstructLeaf, More, Building
<1>2. PICK k \in Leaves : /\ LeafFits(k) /\ node' = Put(Here, Leaf(k))
                          /\ Absorb(stack, Leaf(k))
  BY DEF ConstructLeaf
<1>3. Grows(node, node', Here, {}) /\ node'[Here] = Leaf(k)
  BY <1>1, <1>2, PutHere
<1>4. Leaf(k).type # "array" /\ Leaf(k).rank = 0
  BY ConstructAssumption DEF Leaf
<1>5. ~(node[Frame.at].type = "array" /\ node[Frame.at].rank > 1)
  <2>1. node[Frame.at].type = "array" => node[Frame.at].rank \in {0, 1}
    BY <1>2 DEF LeafFits, Rank
  <2> QED
    BY <2>1
<1>6. /\ Ranked(node')
      /\ \A p \in Places :
           /\ node'[p] = node[p]
           /\ node[p].type = "array" /\ p \notin Opens(stack) /\ FullIn(node', p)
                => node[p].dims = IF node[p].rank = 0 THEN Mixed ELSE node[p].rank
  BY <1>1, <1>3, <1>4, <1>5, GrownRanks
<1>7. TreeOK(node')
  BY DEF IInv, TreeInv
<1>8. phase' \notin {"failed", "crashed"}
  <2>1. /\ Frame.at \in Places /\ Frame = stack[Len(stack)] /\ Chain(node, stack)
        /\ Len(stack) \in Nat \ {0} /\ node[Frame.at] \in Nodes
        /\ Unflagged(node[Frame.at])
    BY <1>1, UnderWay DEF TreeOK, Places
  <2>2. SoundFrame(node, Frame)
    <3>1. FrameOK(node, stack, Len(stack))
      BY <2>1 DEF Chain
    <3> QED
      BY <3>1, <2>1 DEF FrameOK
  <2>3. node[Frame.at].rank \in Nat /\ node[Frame.at].manual \in BOOLEAN
    BY <2>1 DEF Nodes
  <2>4. node[Frame.at].type = "array" /\ ~node[Frame.at].manual =>
          /\ node[Frame.at].fixed <=> node[Frame.at].rank > 0
          /\ node[Frame.at].oneD <=> node[Frame.at].rank = 1
    BY <2>1 DEF TInv, Ranked, Places
  <2>5. ~Counts(Frame)
    BY <2>1, <2>2, <2>3, <2>4, <1>5 DEF Counts, SoundFrame, Unflagged
  <2> QED
    BY <2>5, <1>1, <1>2, <1>4 DEF Absorb, Frame, Refused
<1>9. RankedDims'
  <2>1. ASSUME Finished', NEW p \in DOMAIN node', node'[p].type = "array",
               p \notin Opens(stack'), FullIn(node', p)
        PROVE  node'[p].dims = IF node'[p].rank = 0 THEN Mixed ELSE node'[p].rank
    <3>1. Opens(stack') = Opens(stack)
      <4>1. phase' \notin {"failed", "crashed"} /\ Absorb(stack, node'[Here])
        BY <1>8, <1>2, <1>3
      <4> QED
        BY <4>1, <1>1, <1>3, <1>7, AbsorbedHere
    <3>2. p \in Places
      BY <2>1, <1>3, <1>4 DEF Grows, Places
    <3> QED
      BY <2>1, <3>1, <3>2, <1>6
  <2> QED
    BY <2>1 DEF RankedDims, Places
<1> QED
  BY <1>6, <1>8, <1>9 DEF TInv

LEMMA TypedOpen == ASSUME IInv, IInv', TInv, truthful, OpenArray  PROVE TInv'
<1>1. More /\ phase = "building" /\ phase' = phase
  BY DEF OpenArray, More, Building
<1>2. PICK meta \in Metadata :
        /\ ArrayFits(meta) /\ node' = Put(Here, Array(meta))
        /\ stack' = Append(stack, [at |-> Here, next |-> 0,
                                   found |-> IF meta.fixed THEN IntMin ELSE Mixed])
  BY DEF OpenArray
<1>3. Grows(node, node', Here, {}) /\ node'[Here] = Array(meta)
  BY <1>1, <1>2, PutHere
<1>4. /\ Array(meta).type = "array" /\ Array(meta).fixed = meta.fixed
      /\ Array(meta).oneD = meta.oneD /\ Array(meta).rank = meta.rank
      /\ Array(meta).manual = meta.manual
  BY DEF Array
<1>5. /\ meta.rank \in (IF Rank(node[Frame.at]) = 0 THEN 0 .. MaxRank + 1 - Len(Here)
                        ELSE {Rank(node[Frame.at]) - 1} \ {0})
      /\ ~meta.manual => meta.fixed = (meta.rank > 0) /\ meta.oneD = (meta.rank = 1)
  BY <1>2 DEF ArrayFits
<1>6. /\ node[Frame.at].type = "array" /\ node[Frame.at].rank > 1 =>
           meta.rank = node[Frame.at].rank - 1
      /\ ~(node[Frame.at].type = "array" /\ node[Frame.at].rank = 1)
  BY <1>5 DEF Rank
<1>7. /\ Ranked(node')
      /\ \A p \in Places :
           /\ node'[p] = node[p]
           /\ node[p].type = "array" /\ p \notin Opens(stack) /\ FullIn(node', p)
                => node[p].dims = IF node[p].rank = 0 THEN Mixed ELSE node[p].rank
  BY <1>1, <1>3, <1>4, <1>5, <1>6, GrownRanks
<1>8. Opens(stack') = Opens(stack) \cup {Here}
  <2> DEFINE g == [at |-> Here, next |-> 0, found |-> IF meta.fixed THEN IntMin ELSE Mixed]
  <2>1. /\ stack \in Seq(Frames) /\ g \in Frames /\ g.at = Here /\ stack' = Append(stack, g)
        /\ Len(stack) \in Nat
    BY <1>1, <1>2, UnderWay, Constants DEF Chain, Frames
  <2> HIDE DEF g
  <2>2. /\ Len(stack') = Len(stack) + 1 /\ stack'[Len(stack) + 1] = g
        /\ \A i \in 1 .. Len(stack) : stack'[i] = stack[i]
    BY <2>1, AppendProperties
  <2>3. \A i \in 1 .. Len(stack') : i \in 1 .. Len(stack) \/ i = Len(stack) + 1
    BY <2>1, <2>2
  <2>4. Len(stack) + 1 \in 1 .. Len(stack') /\ \A i \in 1 .. Len(stack) : i \in 1 .. Len(stack')
    BY <2>1, <2>2
  <2> QED
    BY <2>1, <2>2, <2>3, <2>4 DEF Opens
<1>9. RankedDims'
  <2>1. ASSUME NEW p \in DOMAIN node', node'[p].type = "array",
               p \notin Opens(stack'), FullIn(node', p)
        PROVE  node'[p].dims = IF node'[p].rank = 0 THEN Mixed ELSE node'[p].rank
    <3>1. p \in Places /\ p \notin Opens(stack)
      BY <2>1, <1>3, <1>8 DEF Grows, Places
    <3> QED
      BY <2>1, <3>1, <1>7
  <2> QED
    BY <2>1 DEF RankedDims, Places
<1> QED
  BY <1>1, <1>7, <1>9 DEF TInv

\* Closing: the elements of an array of rank r > 1 are arrays of rank r - 1,
\* there is at least one if none inside is empty, and they are closed.
LEMMA TypedClose == ASSUME IInv, IInv', TInv, truthful, CloseArray  PROVE TInv'
<1>1. phase = "building" /\ ~More
  BY DEF CloseArray, Building
<1>2. /\ TreeOK(node) /\ Chain(node, stack) /\ Finished /\ Ranked(node) /\ stack # << >>
      /\ Frame = stack[Len(stack)] /\ Frame \in Frames /\ Frame.at \in Places
      /\ Len(stack) \in Nat \ {0} /\ node[Frame.at].len \in Nat
      /\ Frame.next \in Nat /\ Frame.at \in IsPlace
  BY <1>1, UnderWay DEF TInv
<1>3. \A p \in Places : node[p].type = "array" /\ p \notin Opens(stack) /\ FullIn(node, p)
        => node[p].dims = IF node[p].rank = 0 THEN Mixed ELSE node[p].rank
  BY <1>2 DEF TInv, RankedDims
<1>4. CASE Len(stack) = 1
  <2>1. phase' = "built" /\ stack' = << >> /\ node' = node
    BY <1>4 DEF CloseArray
  <2>2. FrameOK(node, stack, 1)
    BY <1>2, <1>4 DEF Chain
  <2>3. node[Frame.at].type = "root" /\ Opens(stack) = {Frame.at}
    BY <2>2, <1>2, <1>4 DEF FrameOK, Opens
  <2>4. RankedDims'
    BY <2>1, <2>3, <1>3 DEF RankedDims, Places, FullIn
  <2> QED
    BY <2>1, <2>4, <1>2 DEF TInv
<1>5. CASE Len(stack) # 1
  <2> DEFINE s == Pop(stack)
             h == Frame.at
             a == node[h]
             K == Settled(Frame)
  <2>1. /\ DOMAIN node' = Places
        /\ \A q \in Places : q # h => node'[q] = node[q]
        /\ ~a.manual => node'[h].dims = Dims(Frame)
        /\ a.manual => node'[h].dims \in HostDims(a)
        /\ node'[h].manual = a.manual
        /\ node'[h].type = "array" /\ a.type = "array"
        /\ node'[h].len = a.len /\ node'[h].rank = a.rank
        /\ node'[h].fixed = a.fixed /\ node'[h].oneD = a.oneD
        /\ Opens(stack) = Opens(s) \cup {h}
        /\ KidsIn(node, h) = K /\ Frame.next = a.len
        /\ Absorb(s, node'[h]) /\ h # << >> /\ Front(h) \in Opens(s)
        /\ TreeOK(node') /\ Front(h) = Top(s).at
    BY <1>5, Closing
  <2>2. \/ phase' = "failed" /\ stack' = << >>
        \/ phase' = "crashed" /\ stack' = << >>
        \/ phase' = phase /\ Opens(stack') = Opens(s)
    BY <1>5, Closing
  <2> HIDE DEF s
  <2>3. phase' \notin {"failed", "crashed"}
    <3>1. h \in KidsIn(node, Front(h)) /\ Front(h) \in Places
      BY <2>1, <1>2 DEF KidsIn, Places, TreeOK
    <3>2. Unflagged(node[Front(h)]) /\ node[Front(h)] \in Nodes
      BY <3>1, <1>2 DEF TreeOK, Places
    <3>3. ~Refused(Top(s), node'[h])
      <4> SUFFICES ASSUME node[Front(h)].oneD PROVE FALSE
        BY <2>1 DEF Refused
      <4>1. node[Front(h)].type = "array" /\ ~node[Front(h)].manual
        BY <3>2 DEF Unflagged, Nodes
      <4>2. node[Front(h)].rank = 1
        BY <4>1, <3>1, <1>2 DEF Ranked, Places
      <4> QED
        BY <4>1, <4>2, <3>1, <2>1, <1>2 DEF Ranked, Places
    <3> QED
      BY <3>3, <2>1, <1>1 DEF Absorb
  <2>4. \A p \in Places : /\ node'[p].type = node[p].type /\ node'[p].rank = node[p].rank
                          /\ node'[p].len = node[p].len /\ node'[p].fixed = node[p].fixed
                          /\ node'[p].oneD = node[p].oneD
                          /\ node'[p].manual = node[p].manual
                          /\ KidsIn(node', p) = KidsIn(node, p)
                          /\ KidsIn(node, p) \subseteq Places
    BY <2>1 DEF KidsIn, Places
  <2>5. Ranked(node')
    <3>1. ASSUME NEW p \in DOMAIN node'
          PROVE  /\ node'[p].type # "array" => node'[p].rank = 0
                 /\ node'[p].type = "array" /\ ~node'[p].manual =>
                      /\ node'[p].fixed <=> node'[p].rank > 0
                      /\ node'[p].oneD <=> node'[p].rank = 1
                 /\ node'[p].type = "array" /\ node'[p].rank = 1 =>
                      \A q \in KidsIn(node', p) : node'[q].type # "array"
                 /\ node'[p].type = "array" /\ node'[p].rank > 1 =>
                      \A q \in KidsIn(node', p) :
                        node'[q].type = "array" /\ node'[q].rank = node'[p].rank - 1
      <4>1. p \in Places
        BY <3>1, <2>1
      <4>2. /\ node[p].type # "array" => node[p].rank = 0
            /\ node[p].type = "array" /\ ~node[p].manual =>
                 /\ node[p].fixed <=> node[p].rank > 0
                 /\ node[p].oneD <=> node[p].rank = 1
            /\ node[p].type = "array" /\ node[p].rank = 1 =>
                 \A q \in KidsIn(node, p) : node[q].type # "array"
            /\ node[p].type = "array" /\ node[p].rank > 1 =>
                 \A q \in KidsIn(node, p) :
                   node[q].type = "array" /\ node[q].rank = node[p].rank - 1
        BY <4>1, <1>2 DEF Ranked, Places
      <4> QED
        BY <4>1, <4>2, <2>4
    <3> QED
      BY <3>1 DEF Ranked
  <2>6. \A p \in Places : FullIn(node', p) => FullIn(node, p)
    BY <2>1, <2>4 DEF FullIn, Places
  <2>a. a.manual => node'[h].dims = IF a.rank = 0 THEN Mixed ELSE a.rank
    BY <2>1 DEF HostDims
  <2>7. FullIn(node, h) /\ ~a.manual => Dims(Frame) = IF a.rank = 0 THEN Mixed ELSE a.rank
    <3> SUFFICES ASSUME FullIn(node, h), ~a.manual
                 PROVE  Dims(Frame) = IF a.rank = 0 THEN Mixed ELSE a.rank
      OBVIOUS
    <3>1. FrameOK(node, stack, Len(stack)) /\ Len(h) = Len(stack) - 1 /\ Len(stack) > 0
      <4>1. FrameOK(node, stack, Len(stack)) /\ Len(stack) > 0
        BY <1>2 DEF Chain
      <4>2. Len(stack[Len(stack)].at) = Len(stack) - 1
        BY <4>1 DEF FrameOK
      <4> QED
        BY <4>1, <4>2, <1>2
    <3>2. SoundFrame(node, Frame)
      BY <3>1, <1>2 DEF FrameOK
    <3>3. a \in Nodes /\ a.rank \in Nat
      BY <1>2 DEF TreeOK, Places, Nodes
    <3>4. /\ a.fixed <=> a.rank > 0
          /\ a.oneD <=> a.rank = 1
          /\ a.rank > 1 => \A q \in K : node[q].type = "array" /\ node[q].rank = a.rank - 1
      BY <2>1, <1>2 DEF Ranked, Places
    <3>5. Frame.found \in Int
      BY <1>2 DEF Frames
    <3>6. Dims(Frame) = IF a.oneD THEN 1
                        ELSE IF Frame.found # Mixed THEN Frame.found + 1 ELSE Mixed
      BY DEF Dims
    <3>7. CASE a.rank = 0
      BY <3>2, <3>4, <3>6, <3>7 DEF SoundFrame
    <3>8. CASE a.rank = 1
      BY <3>4, <3>6, <3>8
    <3>9. CASE a.rank > 1
      <4>1. ASSUME NEW q \in K
            PROVE  node[q].type = "array" /\ node[q].dims = a.rank - 1
        <5>1. /\ q \in Places /\ q \in IsPlace /\ q # << >> /\ Front(q) = h
              /\ node[q].type = "array" /\ node[q].rank = a.rank - 1
          BY <3>4, <3>9, <4>1, <2>1, <1>2 DEF KidsIn, Places, TreeOK
        <5>2. q \notin Opens(stack)
          <6>1. ASSUME NEW i \in 1 .. Len(stack), q = stack[i].at  PROVE FALSE
            <7>1. Len(q) = i - 1
              BY <6>1, <1>2 DEF Chain, FrameOK
            <7>2. Len(h) = Len(q) - 1
              BY <5>1, Unappended
            <7>3. i \in Int /\ i <= Len(stack)
              BY <1>2
            <7> QED
              BY <7>1, <7>2, <7>3, <3>1, <1>2
          <6> QED
            BY <6>1 DEF Opens
        <5>3. FullIn(node, q)
          <6>1. ASSUME NEW r \in Places, r = q \/ IsStrictPrefix(q, r), node[r].rank > 1
                PROVE  node[r].len > 0
            <7>1. r \in IsPlace
              BY <1>2 DEF TreeOK, Places
            <7>2. IsStrictPrefix(h, r)
              BY <7>1, <6>1, <5>1, <1>2, InsideKid
            <7> QED
              BY <7>2, <6>1 DEF FullIn, Places
          <6> QED
            BY <6>1 DEF FullIn, Places
        <5>4. node[q].dims = IF node[q].rank = 0 THEN Mixed ELSE node[q].rank
          BY <5>1, <5>2, <5>3, <1>3
        <5> QED
          BY <5>1, <5>4, <3>3, <3>9
      <4>2. PICK q \in K : TRUE
        <5>1. a.len > 0
          BY <3>9, <1>2 DEF FullIn, Places
        <5>2. 0 \in 0 .. Frame.next - 1
          BY <5>1, <2>1, <1>2
        <5> QED
          BY <5>2, <1>2, SettledPlaces
      <4>3. Frame.found = a.rank - 1
        <5>1. a.rank - 1 # Mixed /\ a.rank - 1 # IntMin
          BY <3>3, <3>9, Constants
        <5>2. Frame.found # Mixed
          <6>1. a.fixed /\ ~a.oneD
            BY <3>3, <3>4, <3>9
          <6>2. Frame.found = Mixed =>
                  \E q1, q2 \in K : \/ node[q1].type # "array" \/ node[q1].dims = Mixed
                                    \/ node[q1].dims # node[q2].dims
            BY <6>1, <3>2 DEF SoundFrame
          <6> QED
            BY <6>2, <4>1, <5>1
        <5>3. ~a.oneD /\ node[q].dims \in {IntMin, Frame.found}
          BY <4>2, <5>2, <3>2, <3>3, <3>4, <3>9 DEF SoundFrame, Run
        <5> QED
          BY <4>1, <4>2, <5>1, <5>3
      <4> QED
        BY <4>3, <3>3, <3>4, <3>6, <3>9, Constants
    <3> QED
      BY <3>3, <3>7, <3>8, <3>9
  <2>8. RankedDims'
    <3>1. ASSUME Finished', NEW p \in DOMAIN node', node'[p].type = "array",
                 p \notin Opens(stack'), FullIn(node', p)
          PROVE  node'[p].dims = IF node'[p].rank = 0 THEN Mixed ELSE node'[p].rank
      <4>1. Opens(stack') = Opens(s) /\ p \in Places
        BY <3>1, <2>1, <2>2 DEF Finished
      <4>2. CASE p = h
        BY <4>1, <4>2, <3>1, <2>1, <2>6, <2>7, <2>a
      <4>3. CASE p # h
        <5>1. p \notin Opens(stack) /\ node'[p] = node[p] /\ FullIn(node, p)
          BY <4>1, <4>3, <3>1, <2>1, <2>6
        <5> QED
          BY <4>1, <5>1, <3>1, <1>3
      <4> QED
        BY <4>2, <4>3
    <3> QED
      BY <3>1 DEF RankedDims, Places
  <2> QED
    BY <2>3, <2>5, <2>8 DEF TInv
<1> QED
  BY <1>4, <1>5

\* What neither adds elements nor closes an array leaves the ranks.
LEMMA TypedRest ==
  ASSUME IInv, TInv, truthful,
         Throw \/ StartWalk \/ Visit \/ EndArray \/ UNCHANGED vars
  PROVE  TInv'
<1>1. Ranked(node) /\ node' = node
  BY DEF TInv, Throw, StartWalk, Visit, EndArray, vars
<1>2. CASE Throw
  BY <1>1, <1>2 DEF Throw, TInv, RankedDims, Finished
<1>3. CASE StartWalk \/ Visit \/ EndArray \/ UNCHANGED vars
  <2>1. stack' = stack /\ (phase' = phase \/ (Finished /\ Finished'))
    BY <1>3 DEF StartWalk, Visit, EndArray, vars, Finished
  <2> QED
    BY <1>1, <2>1 DEF TInv, RankedDims, Finished, Places
<1> QED
  BY <1>2, <1>3

LEMMA TypedStart == ASSUME IInv, Start  PROVE TInv'
<1>1. /\ phase = "start" /\ phase' = "building"
      /\ stack' = <<[at |-> << >>, next |-> 0, found |-> Mixed]>>
  BY DEF Start
<1>2. PICK n \in 0 .. MaxRoot : node' = Put(<< >>, Root(n))
  BY DEF Start
<1>3. Places = {} /\ n \in Nat
  BY <1>1, ConstructAssumption DEF IInv, TreeInv
<1>4. /\ DOMAIN node' = {<< >>} /\ node'[<< >>] = Root(n)
  <2>1. /\ DOMAIN Put(<< >>, Root(n)) = Places \cup {<< >>}
        /\ Put(<< >>, Root(n))[<< >>] = Root(n)
    BY PutAt
  <2> QED
    BY <2>1, <1>2, <1>3
<1>5. Root(n).type = "root" /\ Root(n).rank = 0
  BY DEF Root, Leaf
<1> QED
  BY <1>1, <1>4, <1>5 DEF TInv, Ranked, RankedDims, Places

\* Ranks are what is counted, as long as the host is truthful, in the arrays it
\* fills itself as in the others.
THEOREM RankInvariant == Spec => []TInv
<1>1. Init => TInv
  <2>1. ASSUME Init  PROVE TInv
    <3>1. DOMAIN node = {}
      BY <2>1, EmptySeq DEF Init
    <3> QED
      BY <2>1, <3>1 DEF Init, TInv, Ranked, RankedDims, Places
  <2> QED
    BY <2>1
<1>2. ASSUME IInv, IInv', TInv, [Next]_vars  PROVE TInv'
  <2>1. CASE ~truthful
    <3>1. truthful' = truthful
      BY <1>2 DEF Next, vars, Start, ConstructLeaf, OpenArray, CloseArray,
         Throw, StartWalk, Visit, EndArray, NotWalking
    <3> QED
      BY <2>1, <3>1 DEF TInv
  <2>2. CASE truthful
    BY <1>2, <2>2, TypedStart, TypedLeaf, TypedOpen, TypedClose, TypedRest
       DEF Next
  <2> QED
    BY <2>1, <2>2
<1> QED
  BY <1>1, <1>2, Invariant, PTL DEF Spec

\* A truthful host's typed array arrives with as many dimensions as it has,
\* unless an array of arrays in it is empty; its mixed arrays arrive as mixed,
\* whichever of them it fills itself, and it makes the construction neither fail
\* on its own checks nor crash.
THEOREM RanksArrive == Spec => []TypedDims
<1>1. ASSUME IInv, TInv, truthful, NEW p \in Closed, Full(p)
      PROVE  node[p].dims = IF node[p].rank = 0 THEN Mixed ELSE node[p].rank
  <2>1. /\ p \in Places /\ Finished /\ node[p].type = "array" /\ p \notin Opens(stack)
    BY <1>1 DEF Closed, Arrays, Open, Opens
  <2>2. FullIn(node, p)
    BY <1>1, <2>1 DEF Full, FullIn, Below, Places
  <2> QED
    BY <1>1, <2>1, <2>2 DEF TInv, RankedDims
<1>2. IInv /\ TInv => TypedDims
  BY <1>1 DEF TypedDims, TInv
<1> QED
  BY <1>2, Invariant, RankInvariant, PTL

------------------------------------------------------------------------------
(***************************************************************************)
(* The round trip.  A host supplies elements, and a traversal reports them, *)
(* in one and the same order of their places; each is a position in it, and *)
(* what comes before the position has all been supplied, or reported.       *)
(***************************************************************************)

(***************************************************************************)
(* The order of a traversal: an array before its elements, and these by     *)
(* their indexes.                                                           *)
(***************************************************************************)
Before(p, q) ==
  \E i \in 1 .. Len(q) : /\ i <= Len(p) + 1 /\ \A j \in 1 .. i - 1 : p[j] = q[j]
                         /\ i <= Len(p) => p[i] < q[i]

\* What an index vector is made of.
LEMMA Indexes ==
  ASSUME NEW p \in IsPlace
  PROVE  Len(p) \in Nat /\ \A i \in 1 .. Len(p) : p[i] \in Nat
  BY DEF IsPlace

\* A place and one index more.
LEMMA Appends ==
  ASSUME NEW p \in IsPlace, NEW n \in Nat
  PROVE  /\ Append(p, n) \in IsPlace /\ Len(Append(p, n)) = Len(p) + 1
         /\ Append(p, n)[Len(p) + 1] = n
         /\ \A i \in 1 .. Len(p) : Append(p, n)[i] = p[i]
  BY AppendProperties DEF IsPlace

\* Places with the same indexes are the same.
LEMMA SamePlace ==
  ASSUME NEW p \in IsPlace, NEW q \in IsPlace, Len(p) = Len(q),
         \A i \in 1 .. Len(p) : p[i] = q[i]
  PROVE  p = q
  BY SeqEqual DEF IsPlace

\* What is inside an array begins as its place does.
LEMMA PrefixIs ==
  ASSUME NEW p \in IsPlace, NEW q \in IsPlace
  PROVE  IsStrictPrefix(p, q) <=> Len(p) < Len(q) /\ \A i \in 1 .. Len(p) : p[i] = q[i]
<1>1. Len(p) \in Nat /\ Len(q) \in Nat /\ SubSeq(p, 1, Len(p)) = p
  BY SubSeqFull, Indexes DEF IsPlace
<1>2. ASSUME Len(p) <= Len(q)
      PROVE  /\ SubSeq(q, 1, Len(p)) \in IsPlace /\ Len(SubSeq(q, 1, Len(p))) = Len(p)
             /\ \A i \in 1 .. Len(p) : SubSeq(q, 1, Len(p))[i] = q[i]
  BY <1>1, <1>2 DEF IsPlace
<1>3. ASSUME IsStrictPrefix(p, q) PROVE Len(p) < Len(q) /\ \A i \in 1 .. Len(p) : p[i] = q[i]
  <2>1. Len(p) <= Len(q) /\ p = SubSeq(q, 1, Len(p)) /\ p # q
    BY <1>1, <1>3 DEF IsStrictPrefix, IsPrefix
  <2>2. \A i \in 1 .. Len(p) : p[i] = q[i]
    BY <1>2, <2>1
  <2>3. Len(p) # Len(q)
    BY <2>1, <2>2, SamePlace
  <2> QED
    BY <1>1, <2>1, <2>2, <2>3
<1>4. ASSUME Len(p) < Len(q), \A i \in 1 .. Len(p) : p[i] = q[i] PROVE IsStrictPrefix(p, q)
  <2>1. Len(p) <= Len(q) /\ p # q
    BY <1>1, <1>4
  <2>2. p = SubSeq(q, 1, Len(p))
    BY <1>2, <1>4, <2>1, SamePlace
  <2> QED
    BY <1>1, <2>1, <2>2 DEF IsStrictPrefix, IsPrefix
<1> QED
  BY <1>3, <1>4

\* The order is one.
LEMMA BeforeIsStrict == \A p \in IsPlace : ~Before(p, p)
  BY Indexes DEF Before

\* By the first index at which either pair differs.
LEMMA BeforeIsTransitive ==
  ASSUME NEW p \in IsPlace, NEW q \in IsPlace, NEW r \in IsPlace, Before(p, q), Before(q, r)
  PROVE  Before(p, r)
<1>1. PICK i \in 1 .. Len(q) : /\ i <= Len(p) + 1 /\ \A j \in 1 .. i - 1 : p[j] = q[j]
                               /\ i <= Len(p) => p[i] < q[i]
  BY DEF Before
<1>2. PICK k \in 1 .. Len(r) : /\ k <= Len(q) + 1 /\ \A j \in 1 .. k - 1 : q[j] = r[j]
                               /\ k <= Len(q) => q[k] < r[k]
  BY DEF Before
<1>3. /\ Len(p) \in Nat /\ Len(q) \in Nat /\ Len(r) \in Nat /\ i \in Nat /\ k \in Nat
      /\ \A j \in 1 .. Len(p) : p[j] \in Nat
      /\ \A j \in 1 .. Len(q) : q[j] \in Nat
      /\ \A j \in 1 .. Len(r) : r[j] \in Nat
  BY Indexes
<1>4. CASE i < k
  <2>1. i \in 1 .. Len(r) /\ q[i] = r[i]
    BY <1>2, <1>3, <1>4
  <2>2. \A j \in 1 .. i - 1 : p[j] = r[j]
    BY <1>1, <1>2, <1>3, <1>4
  <2> QED
    BY <1>1, <2>1, <2>2 DEF Before
<1>5. CASE k < i
  <2>1. k <= Len(p) /\ k <= Len(q) /\ p[k] = q[k]
    BY <1>1, <1>3, <1>5
  <2>2. \A j \in 1 .. k - 1 : p[j] = r[j]
    BY <1>1, <1>2, <1>3, <1>5
  <2> QED
    BY <1>2, <1>3, <2>1, <2>2 DEF Before
<1>6. CASE i = k
  <2>1. \A j \in 1 .. i - 1 : p[j] = r[j]
    BY <1>1, <1>2, <1>6
  <2>2. ASSUME i <= Len(p) PROVE p[i] < r[i]
    <3>1. p[i] < q[i] /\ q[i] < r[i] /\ p[i] \in Nat /\ q[i] \in Nat /\ r[i] \in Nat
      BY <1>1, <1>2, <1>3, <1>6, <2>2
    <3> QED
      BY <3>1
  <2> QED
    BY <1>1, <1>2, <1>6, <2>1, <2>2 DEF Before
<1> QED
  BY <1>3, <1>4, <1>5, <1>6

\* What comes before the n-th element of an array.
LEMMA BeforeKid ==
  ASSUME NEW p \in IsPlace, NEW n \in Nat, NEW q \in IsPlace
  PROVE  Before(q, Append(p, n)) <=>
           \/ Before(q, p) \/ q = p
           \/ IsStrictPrefix(p, q) /\ q[Len(p) + 1] < n
<1> DEFINE r == Append(p, n)
<1>1. /\ r \in IsPlace /\ Len(r) = Len(p) + 1 /\ r[Len(p) + 1] = n
      /\ \A i \in 1 .. Len(p) : r[i] = p[i]
  BY Appends
<1>2. /\ Len(p) \in Nat /\ Len(q) \in Nat
      /\ \A j \in 1 .. Len(p) : p[j] \in Nat
      /\ \A j \in 1 .. Len(q) : q[j] \in Nat
  BY Indexes
<1> HIDE DEF r
<1>3. ASSUME Before(q, r), ~Before(q, p), q # p
      PROVE  IsStrictPrefix(p, q) /\ q[Len(p) + 1] < n
  <2>1. PICK i \in 1 .. Len(r) : /\ i <= Len(q) + 1 /\ \A j \in 1 .. i - 1 : q[j] = r[j]
                                 /\ i <= Len(q) => q[i] < r[i]
    BY <1>3 DEF Before
  <2>2. i = Len(p) + 1
    <3>1. SUFFICES ASSUME i # Len(p) + 1 PROVE FALSE
      OBVIOUS
    <3>2. i \in 1 .. Len(p)
      BY <3>1, <1>1, <1>2
    <3>3. /\ \A j \in 1 .. i - 1 : q[j] = p[j]
          /\ i <= Len(q) => q[i] < p[i]
      BY <1>1, <1>2, <2>1, <3>2
    <3> QED
      BY <1>3, <2>1, <3>2, <3>3 DEF Before
  <2>3. Len(p) <= Len(q) /\ \A j \in 1 .. Len(p) : q[j] = p[j]
    BY <1>1, <1>2, <2>1, <2>2
  <2>4. Len(p) # Len(q)
    BY <1>3, <2>3, SamePlace
  <2>5. Len(p) < Len(q) /\ q[Len(p) + 1] < n
    BY <1>1, <1>2, <2>1, <2>2, <2>3, <2>4
  <2> QED
    BY <2>3, <2>5, PrefixIs
<1>4. ASSUME q = p PROVE Before(q, r)
  <2>1. Len(p) + 1 \in 1 .. Len(r) /\ ~(Len(p) + 1 <= Len(q))
    BY <1>1, <1>2, <1>4
  <2>2. \A j \in 1 .. (Len(p) + 1) - 1 : q[j] = r[j]
    BY <1>1, <1>2, <1>4
  <2> QED
    BY <1>2, <1>4, <2>1, <2>2 DEF Before
<1>5. ASSUME Before(q, p) PROVE Before(q, r)
  <2>1. Before(p, r)
    BY <1>1, <1>2 DEF Before
  <2> QED
    BY <1>1, <1>5, <2>1, BeforeIsTransitive
<1>6. ASSUME IsStrictPrefix(p, q), q[Len(p) + 1] < n PROVE Before(q, r)
  <2>1. Len(p) < Len(q) /\ \A j \in 1 .. Len(p) : q[j] = p[j]
    BY <1>6, PrefixIs
  <2>2. /\ Len(p) + 1 \in 1 .. Len(r) /\ Len(p) + 1 <= Len(q) + 1
        /\ q[Len(p) + 1] < r[Len(p) + 1]
    BY <1>1, <1>2, <1>6, <2>1
  <2>3. \A j \in 1 .. (Len(p) + 1) - 1 : q[j] = r[j]
    BY <1>1, <1>2, <2>1
  <2> QED
    BY <2>2, <2>3 DEF Before
<1> QED
  BY <1>3, <1>4, <1>5, <1>6 DEF r

\* Nothing comes between an array and its first element, and between an
\* element and the next there is only what is inside it.
LEMMA BeforeFirst ==
  ASSUME NEW p \in IsPlace, NEW q \in IsPlace
  PROVE  Before(q, Append(p, 0)) <=> Before(q, p) \/ q = p
<1>1. ASSUME IsStrictPrefix(p, q) PROVE ~(q[Len(p) + 1] < 0)
  <2>1. Len(p) < Len(q) /\ Len(p) \in Nat /\ Len(q) \in Nat
    BY <1>1, PrefixIs, Indexes
  <2>2. q[Len(p) + 1] \in Nat
    BY <2>1, Indexes
  <2> QED
    BY <2>2
<1> QED
  BY <1>1, BeforeKid

\* Between an element and its next sibling there is what is inside it.
LEMMA BeforeNext ==
  ASSUME NEW p \in IsPlace, NEW n \in Nat, NEW q \in IsPlace
  PROVE  Before(q, Append(p, n + 1)) <=>
           Before(q, Append(p, n)) \/ q = Append(p, n) \/ IsStrictPrefix(Append(p, n), q)
<1> DEFINE r == Append(p, n)
<1>1. /\ r \in IsPlace /\ Len(r) = Len(p) + 1 /\ r[Len(p) + 1] = n
      /\ \A i \in 1 .. Len(p) : r[i] = p[i]
  BY Appends
<1>2. /\ Len(p) \in Nat /\ Len(q) \in Nat
      /\ \A j \in 1 .. Len(q) : q[j] \in Nat
  BY Indexes
<1>3. Before(q, r) <=> Before(q, p) \/ q = p \/ (IsStrictPrefix(p, q) /\ q[Len(p) + 1] < n)
  BY BeforeKid
<1>4. Before(q, Append(p, n + 1)) <=>
        Before(q, p) \/ q = p \/ (IsStrictPrefix(p, q) /\ q[Len(p) + 1] < n + 1)
  BY BeforeKid
<1> HIDE DEF r
<1>5. IsStrictPrefix(p, q) <=> Len(p) < Len(q) /\ \A i \in 1 .. Len(p) : p[i] = q[i]
  BY PrefixIs
<1>6. IsStrictPrefix(r, q) <=> Len(r) < Len(q) /\ \A i \in 1 .. Len(r) : r[i] = q[i]
  BY <1>1, PrefixIs
<1>7. q = r <=> Len(r) = Len(q) /\ \A i \in 1 .. Len(r) : r[i] = q[i]
  BY <1>1, SamePlace
<1>8. (\A i \in 1 .. Len(r) : r[i] = q[i])
        <=> (\A i \in 1 .. Len(p) : p[i] = q[i]) /\ q[Len(p) + 1] = n
  <2>1. \A i \in 1 .. Len(r) : i \in 1 .. Len(p) \/ i = Len(p) + 1
    BY <1>1, <1>2
  <2>2. Len(p) + 1 \in 1 .. Len(r) /\ \A i \in 1 .. Len(p) : i \in 1 .. Len(r)
    BY <1>1, <1>2
  <2> QED
    BY <1>1, <2>1, <2>2
<1>9. Len(p) < Len(q) => q[Len(p) + 1] \in Nat
  BY <1>2
<1>10. q = r \/ IsStrictPrefix(r, q) <=> IsStrictPrefix(p, q) /\ q[Len(p) + 1] = n
  BY <1>1, <1>2, <1>5, <1>6, <1>7, <1>8
<1>11. IsStrictPrefix(p, q) =>
         (q[Len(p) + 1] < n + 1 <=> q[Len(p) + 1] < n \/ q[Len(p) + 1] = n)
  BY <1>5, <1>9
<1> QED
  BY <1>3, <1>4, <1>10, <1>11 DEF r

\* An array comes before what is inside it.
LEMMA PrefixIsBefore ==
  ASSUME NEW p \in IsPlace, NEW q \in IsPlace, IsStrictPrefix(p, q)
  PROVE  Before(p, q)
<1>1. Len(p) < Len(q) /\ \A i \in 1 .. Len(p) : p[i] = q[i]
  BY PrefixIs
<1>2. /\ Len(p) + 1 \in 1 .. Len(q) /\ ~(Len(p) + 1 <= Len(p))
      /\ \A j \in 1 .. (Len(p) + 1) - 1 : p[j] = q[j]
  BY <1>1, Indexes
<1> QED
  BY <1>2 DEF Before

\* What an element is inside of is its array and what that is inside of.
LEMMA PrefixOfKid ==
  ASSUME NEW p \in IsPlace, NEW n \in Nat, NEW q \in IsPlace
  PROVE  IsStrictPrefix(q, Append(p, n)) <=> q = p \/ IsStrictPrefix(q, p)
<1> DEFINE r == Append(p, n)
<1>1. /\ r \in IsPlace /\ Len(r) = Len(p) + 1
      /\ \A i \in 1 .. Len(p) : r[i] = p[i]
  BY Appends
<1>2. Len(p) \in Nat /\ Len(q) \in Nat
  BY Indexes
<1> HIDE DEF r
<1>3. IsStrictPrefix(q, r) <=> Len(q) < Len(r) /\ \A i \in 1 .. Len(q) : q[i] = r[i]
  BY <1>1, PrefixIs
<1>4. IsStrictPrefix(q, p) <=> Len(q) < Len(p) /\ \A i \in 1 .. Len(q) : q[i] = p[i]
  BY PrefixIs
<1>5. q = p <=> Len(q) = Len(p) /\ \A i \in 1 .. Len(q) : q[i] = p[i]
  BY SamePlace
<1>6. Len(q) <= Len(p) =>
        ((\A i \in 1 .. Len(q) : q[i] = r[i]) <=> (\A i \in 1 .. Len(q) : q[i] = p[i]))
  BY <1>1, <1>2
<1>7. Len(q) < Len(r) <=> Len(q) = Len(p) \/ Len(q) < Len(p)
  BY <1>1, <1>2
<1> QED
  BY <1>2, <1>3, <1>4, <1>5, <1>6, <1>7 DEF r

(***************************************************************************)
(* Places in that order.                                                    *)
(***************************************************************************)
Sorted(s) == \A k, l \in 1 .. Len(s) : k < l => Before(s[k], s[l])
ElementsOf(s) == {s[i] : i \in 1 .. Len(s)}

\* Sequences in order, all of the one before all of the other, join.
LEMMA SortedJoin ==
  ASSUME NEW a \in Seq(IsPlace), NEW b \in Seq(IsPlace), Sorted(a), Sorted(b),
         \A p \in ElementsOf(a), q \in ElementsOf(b) : Before(p, q)
  PROVE  /\ a \o b \in Seq(IsPlace) /\ Sorted(a \o b)
         /\ ElementsOf(a \o b) = ElementsOf(a) \cup ElementsOf(b)
<1> DEFINE c == a \o b
<1>1. /\ c \in Seq(IsPlace) /\ Len(c) = Len(a) + Len(b)
      /\ Len(a) \in Nat /\ Len(b) \in Nat
  OBVIOUS
<1>2. \A i \in 1 .. Len(a) : c[i] = a[i] /\ i \in 1 .. Len(c)
  BY <1>1
<1>3. \A i \in 1 .. Len(b) : c[Len(a) + i] = b[i] /\ Len(a) + i \in 1 .. Len(c)
  BY <1>1
<1>4. \A i \in 1 .. Len(c) :
        i \in 1 .. Len(a) \/ (i - Len(a) \in 1 .. Len(b) /\ i = Len(a) + (i - Len(a)))
  BY <1>1, SMT
<1> HIDE DEF c
<1>5. ASSUME NEW i \in 1 .. Len(c), i \notin 1 .. Len(a)
      PROVE  c[i] = b[i - Len(a)] /\ i - Len(a) \in 1 .. Len(b)
  <2>1. PICK j \in 1 .. Len(b) : j = i - Len(a) /\ i = Len(a) + j
    BY <1>4, <1>5
  <2> QED
    BY <1>3, <2>1
<1>6. ElementsOf(c) = ElementsOf(a) \cup ElementsOf(b)
  <2>1. ElementsOf(a) \subseteq ElementsOf(c) /\ ElementsOf(b) \subseteq ElementsOf(c)
    BY <1>2, <1>3 DEF ElementsOf
  <2>2. ElementsOf(c) \subseteq ElementsOf(a) \cup ElementsOf(b)
    BY <1>2, <1>5 DEF ElementsOf
  <2> QED
    BY <2>1, <2>2
<1>7. ASSUME NEW k \in 1 .. Len(c), NEW l \in 1 .. Len(c), k < l PROVE Before(c[k], c[l])
  <2>1. CASE l \in 1 .. Len(a)
    <3>1. k \in 1 .. Len(a)
      BY <1>1, <1>7, <2>1
    <3> QED
      BY <1>2, <1>7, <2>1, <3>1 DEF Sorted
  <2>2. CASE k \in 1 .. Len(a) /\ l \notin 1 .. Len(a)
    <3>1. c[k] \in ElementsOf(a) /\ c[l] \in ElementsOf(b)
      BY <1>2, <1>5, <2>2 DEF ElementsOf
    <3> QED
      BY <3>1
  <2>3. CASE k \notin 1 .. Len(a) /\ l \notin 1 .. Len(a)
    <3>1. /\ c[k] = b[k - Len(a)] /\ k - Len(a) \in 1 .. Len(b)
          /\ c[l] = b[l - Len(a)] /\ l - Len(a) \in 1 .. Len(b)
      BY <1>5, <2>3
    <3>2. k - Len(a) < l - Len(a)
      BY <1>1, <1>7
    <3> QED
      BY <3>1, <3>2 DEF Sorted
  <2> QED
    BY <2>1, <2>2, <2>3
<1>8. Sorted(c)
  BY <1>7 DEF Sorted
<1> QED
  BY <1>1, <1>6, <1>8 DEF c

\* A single place is in order.
LEMMA SortedOne ==
  ASSUME NEW p \in IsPlace
  PROVE  <<p>> \in Seq(IsPlace) /\ Sorted(<<p>>) /\ ElementsOf(<<p>>) = {p}
  BY DEF Sorted, ElementsOf

\* What comes after all others may be put at the end.
LEMMA SortedAppend ==
  ASSUME NEW a \in Seq(IsPlace), NEW p \in IsPlace, Sorted(a),
         \A q \in ElementsOf(a) : Before(q, p)
  PROVE  /\ Append(a, p) \in Seq(IsPlace) /\ Sorted(Append(a, p))
         /\ ElementsOf(Append(a, p)) = ElementsOf(a) \cup {p}
<1>1. Append(a, p) = a \o <<p>>
  OBVIOUS
<1> DEFINE b == <<p>>
<1>2. b \in Seq(IsPlace) /\ Sorted(b) /\ ElementsOf(b) = {p}
  BY SortedOne
<1> HIDE DEF b
<1>3. /\ a \o b \in Seq(IsPlace) /\ Sorted(a \o b)
      /\ ElementsOf(a \o b) = ElementsOf(a) \cup ElementsOf(b)
  BY <1>2, SortedJoin
<1> QED
  BY <1>1, <1>2, <1>3 DEF b

\* Nothing is past the end of an array, or inside a leaf.
InLen(t) == \A p, q \in DOMAIN t : IsStrictPrefix(p, q) => q[Len(p) + 1] < t[p].len
LeafLen(t) == \A p \in DOMAIN t : p # << >> /\ t[p].type # "array" => t[p].len = 0
\* All of a tree comes before the place c.
UpTo(t, c) == \A p \in DOMAIN t : Before(p, c)

\* u is t and the n-th element of p, with its own elements K.
GrowsAt(t, u, p, n, h, K) ==
  /\ p \in DOMAIN t /\ n \in Nat /\ n < t[p].len /\ h = Append(p, n)
  /\ Grows(t, u, h, K)
  /\ \A k \in K : \E j \in Nat : k = Append(h, j) /\ j < u[h].len
  /\ u[h].type # "array" => u[h].len = 0
  /\ \A k \in K : u[k].len = 0

\* A tree that grows where it ends stays so.
LEMMA GrownOrder ==
  ASSUME NEW t, NEW u, NEW p, NEW n, NEW h, NEW K, TreeOK(t), GrowsAt(t, u, p, n, h, K),
         UpTo(t, h), InLen(t), LeafLen(t)
  PROVE  InLen(u) /\ LeafLen(u) /\ UpTo(u, Append(p, n + 1))
<1>0. /\ p \in DOMAIN t /\ n \in Nat /\ n < t[p].len /\ h = Append(p, n)
      /\ Grows(t, u, h, K)
      /\ \A k \in K : \E j \in Nat : k = Append(h, j) /\ j < u[h].len
      /\ u[h].type # "array" => u[h].len = 0
      /\ \A k \in K : u[k].len = 0
  BY DEF GrowsAt
<1>1. /\ p \in IsPlace /\ h \in IsPlace /\ \A q \in DOMAIN t : q \in IsPlace
      /\ h[Len(p) + 1] = n /\ \A i \in 1 .. Len(p) : h[i] = p[i]
      /\ Len(h) = Len(p) + 1
  BY <1>0, Appends DEF TreeOK
<1>2. /\ DOMAIN u = DOMAIN t \cup {h} \cup K /\ \A q \in DOMAIN t : u[q] = t[q]
      /\ \A k \in K : k \in IsPlace
  BY <1>0 DEF Grows
<1>3. ASSUME NEW k \in K
      PROVE  /\ IsStrictPrefix(h, k) /\ k[Len(h) + 1] < u[h].len
             /\ \A i \in 1 .. Len(h) : k[i] = h[i]
             /\ \A q \in IsPlace : IsStrictPrefix(q, k) <=> q = h \/ IsStrictPrefix(q, h)
  <2>1. PICK j \in Nat : k = Append(h, j) /\ j < u[h].len
    BY <1>0, <1>3
  <2> QED
    BY <2>1, <1>1, Appends, PrefixOfKid
<1>4. ASSUME NEW q \in DOMAIN u, q \notin DOMAIN t
      PROVE  q = h \/ Before(h, q)
  <2>1. q = h \/ (q \in IsPlace /\ IsStrictPrefix(h, q))
    BY <1>2, <1>3, <1>4
  <2> QED
    BY <1>0, <1>1, <2>1, PrefixIsBefore
\* What the new element is inside of was there.
<1>5. ASSUME NEW q \in DOMAIN u, IsStrictPrefix(q, h)
      PROVE  q \in DOMAIN t /\ h[Len(q) + 1] < t[q].len
  <2>1. q \in IsPlace /\ (q = p \/ IsStrictPrefix(q, p))
    BY <1>0, <1>1, <1>2, <1>5, PrefixOfKid
  <2>2. q \in DOMAIN t
    <3>1. Before(p, h) /\ (q = p \/ Before(q, p))
      BY <1>0, <1>1, <2>1, PrefixIsBefore DEF UpTo
    <3>2. Before(q, h)
      BY <1>0, <1>1, <2>1, <3>1, BeforeIsTransitive
    <3>3. ~(q = h \/ Before(h, q))
      BY <1>0, <1>1, <2>1, <3>2, BeforeIsTransitive, BeforeIsStrict
    <3> QED
      BY <1>4, <1>5, <3>3
  <2>3. CASE q = p
    BY <2>2, <2>3, <1>0, <1>1
  <2>4. CASE IsStrictPrefix(q, p)
    <3>1. p[Len(q) + 1] < t[q].len
      BY <1>0, <2>2, <2>4 DEF InLen
    <3>2. Len(q) + 1 \in 1 .. Len(p)
      BY <1>0, <1>1, <2>1, <2>4, PrefixIs, Indexes
    <3> QED
      BY <1>0, <1>1, <2>2, <3>1, <3>2
  <2> QED
    BY <2>1, <2>3, <2>4
<1>6. ASSUME NEW a \in DOMAIN u, NEW q \in DOMAIN u, IsStrictPrefix(a, q)
      PROVE  q[Len(a) + 1] < u[a].len
  <2>1. CASE q \in DOMAIN t
    <3>1. a \in DOMAIN t
      <4>1. a \in IsPlace /\ q \in IsPlace
        BY <1>0, <1>1, <1>2, <2>1
      <4>2. Before(a, q) /\ Before(q, h)
        BY <1>0, <1>1, <1>6, <2>1, <4>1, PrefixIsBefore DEF UpTo
      <4>3. ~(a = h \/ Before(h, a))
        BY <1>0, <1>1, <4>1, <4>2, BeforeIsTransitive, BeforeIsStrict
      <4> QED
        BY <1>4, <4>3
    <3> QED
      BY <1>2, <1>6, <2>1, <3>1 DEF InLen
  <2>2. CASE q = h
    BY <1>2, <1>5, <1>6, <2>2
  <2>3. CASE q \in K
    <3>1. a \in IsPlace /\ (a = h \/ IsStrictPrefix(a, h))
      BY <1>0, <1>1, <1>2, <1>3, <1>6, <2>3
    <3>2. CASE a = h
      BY <1>3, <2>3, <3>2
    <3>3. CASE IsStrictPrefix(a, h)
      <4>1. a \in DOMAIN t /\ h[Len(a) + 1] < t[a].len
        BY <1>5, <3>3
      <4>2. Len(a) + 1 \in 1 .. Len(h)
        <5>1. Len(a) < Len(h) /\ Len(a) \in Nat /\ Len(h) \in Nat
          BY <1>0, <1>1, <3>1, <3>3, PrefixIs, Indexes
        <5> QED
          BY <5>1
      <4> QED
        BY <1>2, <1>3, <2>3, <4>1, <4>2
    <3> QED
      BY <3>1, <3>2, <3>3
  <2> QED
    BY <1>2, <2>1, <2>2, <2>3
<1>7. InLen(u)
  BY <1>6 DEF InLen
<1>8. LeafLen(u)
  BY <1>0, <1>2 DEF LeafLen
<1>9. UpTo(u, Append(p, n + 1))
  <2>1. ASSUME NEW q \in DOMAIN u PROVE Before(q, Append(p, n + 1))
    <3>1. q \in IsPlace /\ (Before(q, h) \/ q = h \/ IsStrictPrefix(h, q))
      BY <1>0, <1>1, <1>2, <1>3 DEF UpTo
    <3> QED
      BY <1>0, <1>1, <3>1, BeforeNext
  <2> QED
    BY <2>1 DEF UpTo
<1> QED
  BY <1>7, <1>8, <1>9

\* Growing by an array that is opened: the next place is its first element's.
LEMMA UpToFirst ==
  ASSUME NEW t, NEW u, NEW h \in IsPlace, TreeOK(t), Grows(t, u, h, {}), UpTo(t, h)
  PROVE  UpTo(u, Append(h, 0))
<1>1. ASSUME NEW q \in DOMAIN u PROVE Before(q, Append(h, 0))
  <2>1. q \in IsPlace /\ (Before(q, h) \/ q = h)
    BY DEF Grows, TreeOK, UpTo
  <2> QED
    BY <2>1, BeforeFirst
<1> QED
  BY <1>1 DEF UpTo

------------------------------------------------------------------------------
\* What was supplied is the tree, in its order.
Supplied(t, s) == s \in Seq(IsPlace) /\ Sorted(s) /\ ElementsOf(s) = DOMAIN t \ {<< >>}
OrderInv == Finished =>
  /\ Supplied(node, order) /\ InLen(node) /\ LeafLen(node)
  /\ phase = "building" => UpTo(node, Here)

\* One element more.
LEMMA SuppliedOne ==
  ASSUME NEW t, NEW u, NEW s, NEW h, TreeOK(t), Grows(t, u, h, {}), UpTo(t, h),
         << >> \in DOMAIN t, Supplied(t, s)
  PROVE  Supplied(u, Append(s, h))
<1>1. h \in IsPlace /\ h # << >> /\ DOMAIN u = DOMAIN t \cup {h}
  BY DEF Grows
<1>2. s \in Seq(IsPlace) /\ Sorted(s) /\ ElementsOf(s) = DOMAIN t \ {<< >>}
  BY DEF Supplied
<1>3. \A q \in ElementsOf(s) : Before(q, h)
  BY <1>2 DEF UpTo
<1>4. /\ Append(s, h) \in Seq(IsPlace) /\ Sorted(Append(s, h))
      /\ ElementsOf(Append(s, h)) = ElementsOf(s) \cup {h}
  BY <1>1, <1>2, <1>3, SortedAppend
<1> QED
  BY <1>1, <1>2, <1>4 DEF Supplied

\* The frame that absorbs an element moves on to the next.
LEMMA MovesOn ==
  ASSUME NEW s \in Seq(Frames), s # << >>, NEW c, Absorb(s, c), Finished', phase = "building",
         stack' \in Seq(Frames)
  PROVE  phase' = "building" /\ Here' = Append(Top(s).at, Top(s).next + 1)
<1> DEFINE f == Top(s)
           g == [f EXCEPT !.next = @ + 1, !.found = Found(f, c)]
<1>1. phase' = phase /\ stack' = [s EXCEPT ![Len(s)] = g]
  BY DEF Absorb, Finished
<1>2. Len(s) \in Nat \ {0} /\ f = s[Len(s)] /\ f \in Frames
  BY TopPop
<1>3. g.at = f.at /\ g.next = f.next + 1
  BY <1>2 DEF Frames
<1> HIDE DEF g
<1>4. Len(s) \in DOMAIN s /\ DOMAIN s = 1 .. Len(s)
  BY <1>2
<1>5. DOMAIN stack' = 1 .. Len(s) /\ stack'[Len(s)] = g
  BY <1>1, <1>4
<1>6. Len(stack') = Len(s)
  BY <1>2, <1>5
<1>7. Top(stack') = g
  BY <1>5, <1>6 DEF Top
<1> QED
  BY <1>1, <1>3, <1>7 DEF Here, Frame

\* The tree of a construction grows where it ends.
LEMMA GrownHere ==
  ASSUME IInv, OrderInv, More, NEW K, Grows(node, node', Here, K),
         node'[Here].type # "array" => node'[Here].len = 0,
         \A k \in K : node'[k].len = 0,
         \A k \in K : \E j \in Nat : k = Append(Here, j) /\ j < node'[Here].len
  PROVE  InLen(node') /\ LeafLen(node') /\ UpTo(node', Append(Frame.at, Frame.next + 1))
<1>1. /\ TreeOK(node) /\ Finished /\ Frame.at \in DOMAIN node /\ Frame.next \in Nat
      /\ Frame.next < node[Frame.at].len /\ phase = "building"
  BY UnderWay DEF More, Building, Places
<1>2. InLen(node) /\ LeafLen(node) /\ UpTo(node, Here)
  BY <1>1 DEF OrderInv
<1>3. GrowsAt(node, node', Frame.at, Frame.next, Here, K)
  BY <1>1 DEF GrowsAt, Here
<1> QED
  BY <1>1, <1>2, <1>3, GrownOrder

------------------------------------------------------------------------------
\* Each step of the construction supplies the next places, if any.
LEMMA OrderLeaf == ASSUME IInv, IInv', OrderInv, ConstructLeaf PROVE OrderInv'
<1>1. More /\ phase = "building" /\ NotWalking /\ order' = Append(order, Here)
  BY DEF ConstructLeaf, More, Building
<1>2. PICK k \in Leaves : node' = Put(Here, Leaf(k)) /\ Absorb(stack, Leaf(k))
  BY DEF ConstructLeaf
<1>3. Grows(node, node', Here, {}) /\ node'[Here] = Leaf(k) /\ Leaf(k).len = 0
  BY <1>1, <1>2, PutHere DEF Leaf
<1>4. /\ TreeOK(node) /\ << >> \in Places /\ stack # << >> /\ stack \in Seq(Frames)
      /\ Finished /\ Frame.at \in Places /\ Frame.next \in Nat
      /\ Frame.next < node[Frame.at].len
  BY <1>1, UnderWay DEF More, Chain
<1>5. SUFFICES ASSUME Finished' PROVE OrderInv'
  BY DEF OrderInv
<1>6. stack' \in Seq(Frames)
  BY DEF IInv, StackInv, Chain
<1>7. phase' = "building" /\ Here' = Append(Frame.at, Frame.next + 1)
  BY <1>1, <1>2, <1>4, <1>5, <1>6, MovesOn DEF Frame
<1>8. /\ Supplied(node, order) /\ InLen(node) /\ LeafLen(node) /\ UpTo(node, Here)
  BY <1>1, <1>4 DEF OrderInv
<1>9. Supplied(node', Append(order, Here))
  BY <1>3, <1>4, <1>8, SuppliedOne DEF Places
<1>10. InLen(node') /\ LeafLen(node') /\ UpTo(node', Append(Frame.at, Frame.next + 1))
  BY <1>1, <1>3, GrownHere
<1> QED
  BY <1>1, <1>7, <1>9, <1>10 DEF OrderInv

LEMMA OrderOpen == ASSUME IInv, IInv', OrderInv, OpenArray PROVE OrderInv'
<1>1. /\ More /\ phase = "building" /\ order' = Append(order, Here) /\ phase' = phase
  BY DEF OpenArray, More, Building
<1> DEFINE G(meta) == [at |-> Here, next |-> 0,
                       found |-> IF meta.fixed THEN IntMin ELSE Mixed]
<1>2. PICK meta \in Metadata : /\ node' = Put(Here, Array(meta))
                               /\ stack' = Append(stack, G(meta))
  BY DEF OpenArray
<1>3. Grows(node, node', Here, {}) /\ node'[Here] = Array(meta) /\ Array(meta).type = "array"
  BY <1>1, <1>2, PutHere DEF Array
<1>4. /\ TreeOK(node) /\ << >> \in Places /\ stack # << >> /\ stack \in Seq(Frames)
      /\ Finished /\ Frame.at \in Places /\ Frame.next \in Nat /\ Here \in IsPlace
      /\ Frame.next < node[Frame.at].len
  BY <1>1, UnderWay DEF More, Chain
<1> DEFINE g == G(meta)
<1>5. g.at = Here /\ g.next = 0
  OBVIOUS
<1>6. stack' \in Seq(Frames)
  BY DEF IInv, StackInv, Chain
<1> HIDE DEF G
<1>7. Top(stack') = g
  BY <1>2, <1>4, <1>6 DEF Top
<1> HIDE DEF g
<1>8. Here' = Append(Here, 0)
  BY <1>5, <1>7 DEF Here, Frame
<1>9. /\ Supplied(node, order) /\ InLen(node) /\ LeafLen(node) /\ UpTo(node, Here)
  BY <1>1, <1>4 DEF OrderInv
<1>10. Supplied(node', Append(order, Here)) /\ UpTo(node', Append(Here, 0))
  BY <1>3, <1>4, <1>9, SuppliedOne, UpToFirst DEF Places
<1>11. InLen(node') /\ LeafLen(node')
  BY <1>1, <1>3, GrownHere
<1> QED
  BY <1>1, <1>8, <1>10, <1>11 DEF OrderInv

LEMMA OrderClose == ASSUME IInv, IInv', OrderInv, CloseArray PROVE OrderInv'
<1>1. phase = "building" /\ ~More /\ NotWalking /\ order' = order
  BY DEF CloseArray, Building
<1>2. /\ TreeOK(node) /\ Finished /\ Frame.at \in Places /\ Frame.next \in Nat
      /\ Chain(node, stack) /\ stack \in Seq(Frames) /\ stack # << >>
      /\ Frame.at \in IsPlace
  BY <1>1, UnderWay DEF Chain
<1>3. /\ Supplied(node, order) /\ InLen(node) /\ LeafLen(node) /\ UpTo(node, Here)
  BY <1>1, <1>2 DEF OrderInv
<1>4. CASE Len(stack) = 1
  BY <1>1, <1>3, <1>4 DEF OrderInv, CloseArray
<1>5. CASE Len(stack) # 1
  <2>1. /\ DOMAIN node' = Places
        /\ \A q \in Places : q # Frame.at => node'[q] = node[q]
        /\ node'[Frame.at].type = node[Frame.at].type
        /\ node'[Frame.at].len = node[Frame.at].len
        /\ Absorb(Pop(stack), node'[Frame.at])
    BY <1>5, Closing
  <2>2. \A q \in Places : node'[q].type = node[q].type /\ node'[q].len = node[q].len
    BY <2>1
  <2>3. Supplied(node', order') /\ InLen(node') /\ LeafLen(node')
    BY <1>1, <1>3, <2>1, <2>2 DEF Supplied, InLen, LeafLen, Places
  <2>4. SUFFICES ASSUME Finished' PROVE OrderInv'
    BY DEF OrderInv
  <2>5. /\ Pop(stack) \in Seq(Frames) /\ Len(Pop(stack)) = Len(stack) - 1
        /\ Len(stack) \in Nat \ {0}
        /\ Frame = stack[Len(stack)]
        /\ \A i \in 1 .. Len(stack) - 1 : Pop(stack)[i] = stack[i]
    BY <1>2, TopPop DEF Frame
  <2>6. Pop(stack) # << >> /\ Len(stack) - 1 \in 1 .. Len(stack) - 1
    <3>1. Len(Pop(stack)) # 0 /\ Len(stack) - 1 \in 1 .. Len(stack) - 1
      BY <1>5, <2>5
    <3> QED
      BY <3>1, EmptySeq
  <2> DEFINE g == Top(Pop(stack))
  <2>7. g = stack[Len(stack) - 1] /\ g \in Frames
    BY <2>5, <2>6, TopPop DEF Top
  <2>8. Frame.at = Append(g.at, g.next)
    <3>1. FrameOK(node, stack, Len(stack) - 1)
      BY <1>2, <2>5, <2>6 DEF Chain
    <3>2. stack[(Len(stack) - 1) + 1].at = NextPlace(g)
      BY <3>1, <2>5, <2>6, <2>7 DEF FrameOK
    <3>3. (Len(stack) - 1) + 1 = Len(stack)
      BY <2>5
    <3> QED
      BY <3>2, <3>3, <2>5 DEF NextPlace
  <2>9. stack' \in Seq(Frames)
    BY DEF IInv, StackInv, Chain
  <2>10. phase' = "building" /\ Here' = Append(g.at, g.next + 1)
    BY <1>1, <2>1, <2>4, <2>5, <2>6, <2>9, MovesOn
  <2>11. g.at \in IsPlace /\ g.next \in Nat
    BY <2>7 DEF Frames
  <2> HIDE DEF g
  <2>12. ASSUME NEW q \in Places PROVE Before(q, Append(g.at, g.next + 1))
    <3>1. q \in IsPlace /\ Before(q, Append(Frame.at, Frame.next))
      BY <1>2, <1>3, <2>12 DEF UpTo, Here, TreeOK, Places
    <3>2. Before(q, Frame.at) \/ q = Frame.at \/ IsStrictPrefix(Frame.at, q)
      BY <1>2, <3>1, BeforeKid
    <3> QED
      BY <2>8, <2>11, <3>1, <3>2, BeforeNext
  <2>13. UpTo(node', Here')
    BY <2>1, <2>10, <2>12 DEF UpTo
  <2> QED
    BY <2>3, <2>13 DEF OrderInv
<1> QED
  BY <1>4, <1>5

LEMMA OrderStart == ASSUME IInv, OrderInv, Start PROVE OrderInv'
<1>1. /\ phase = "start" /\ phase' = "building" /\ order' = order
      /\ stack' = <<[at |-> << >>, next |-> 0, found |-> Mixed]>>
  BY DEF Start
<1>2. PICK n \in 0 .. MaxRoot : node' = Put(<< >>, Root(n))
  BY DEF Start
<1>3. Places = {} /\ Finished
  BY <1>1 DEF IInv, TreeInv, Finished
<1>4. DOMAIN node' = {<< >>}
  BY <1>2, <1>3 DEF Put, Places
<1>5. Supplied(node, order)
  BY <1>3 DEF OrderInv
<1>6. Supplied(node', order')
  BY <1>1, <1>3, <1>4, <1>5 DEF Supplied, Places
<1>7. InLen(node') /\ LeafLen(node')
  <2>1. << >> \in IsPlace /\ Len(<< >>) = 0
    BY EmptySeq DEF IsPlace
  <2>2. ~IsStrictPrefix(<< >>, << >>)
    BY <2>1, PrefixIs
  <2> QED
    BY <2>2, <1>4 DEF InLen, LeafLen
<1>8. Here' = Append(<< >>, 0)
  <2> DEFINE g == [at |-> << >>, next |-> 0, found |-> Mixed]
  <2>1. stack' = <<g>> /\ g.at = << >> /\ g.next = 0
    BY <1>1
  <2> HIDE DEF g
  <2>2. Top(stack') = g
    BY <2>1 DEF Top
  <2> QED
    BY <2>1, <2>2 DEF Here, Frame
<1>9. UpTo(node', Here')
  <2>1. << >> \in IsPlace
    BY EmptySeq DEF IsPlace
  <2> QED
    BY <2>1, <1>4, <1>8, BeforeFirst DEF UpTo
<1> QED
  BY <1>6, <1>7, <1>9 DEF OrderInv

\* The traversal changes nothing of what was supplied, and a construction that
\* fails says nothing of it any more.
LEMMA OrderStep == ASSUME IInv, IInv', OrderInv, [Next]_vars PROVE OrderInv'
<1>1. CASE Throw
  BY <1>1 DEF Throw, OrderInv, Finished
<1>2. CASE StartWalk \/ Visit \/ EndArray \/ UNCHANGED vars
  <2>1. node' = node /\ order' = order /\ (Finished' => Finished)
    BY <1>2 DEF StartWalk, Visit, EndArray, vars, Finished
  <2>2. Supplied(node, order)' <=> Supplied(node, order)
    BY <2>1 DEF Supplied
  <2>3. InLen(node)' <=> InLen(node)
    BY <2>1 DEF InLen
  <2>4. LeafLen(node)' <=> LeafLen(node)
    BY <2>1 DEF LeafLen
  <2>5. phase' = "building" => phase = "building" /\ Here' = Here
    BY <1>2 DEF StartWalk, Visit, EndArray, vars, Here, Frame, Top
  <2>6. phase' = "building" /\ UpTo(node, Here) => UpTo(node, Here)'
    BY <2>1, <2>5 DEF UpTo
  <2> QED
    BY <2>1, <2>2, <2>3, <2>4, <2>5, <2>6 DEF OrderInv
<1> QED
  BY <1>1, <1>2, OrderStart, OrderLeaf, OrderOpen, OrderClose DEF Next

(***************************************************************************)
(* What a traversal has reported, up to where it is.                        *)
(***************************************************************************)
Sightings == [at : IsPlace, type : Types]

\* What is not inside a declined array.
Reach(P, D) == {p \in P \ {<< >>} : \A q \in D : ~IsStrictPrefix(q, p)}
SeenIn(s) == {s[i].at : i \in 1 .. Len(s)}
Passed(R, c) == {p \in R : Before(p, c)}
Cursor(w) == Append(Top(w).at, Top(w).next)

\* s reports elements R of the tree t in their order, leaving none of R out before another.
Tells(t, s, R) ==
  /\ s \in Seq(Sightings)
  /\ \A i \in 1 .. Len(s) : s[i].at \in R /\ s[i].type = t[s[i].at].type
  /\ \A i, j \in 1 .. Len(s) : i < j => Before(s[i].at, s[j].at)
  /\ \A p \in R, q \in SeenIn(s) : Before(p, q) => p \in SeenIn(s)

\* Each frame of a traversal is at the element its outer one reported last,
\* and none is in a declined array.
WalkChain(w) ==
  /\ w[1].at = << >>
  /\ \A i \in 1 .. Len(w) - 1 : w[i].next > 0 /\ w[i + 1].at = Append(w[i].at, w[i].next - 1)
Clear(w, D, c) ==
  \A i \in 1 .. Len(w) : /\ Before(w[i].at, c)
                         /\ \A q \in D : q # w[i].at /\ ~IsStrictPrefix(q, w[i].at)

SeenInv ==
  /\ phase \in {"start", "building", "built", "failed", "crashed", "thrown"}
       => seen = << >> /\ pruned = {}
  /\ phase \in {"walking", "walked", "refused"} =>
       Tells(node, seen, Reach(Places, pruned)) /\ pruned \subseteq SeenIn(seen)
  /\ phase = "walked" => Reach(Places, pruned) \subseteq SeenIn(seen)
  /\ phase = "walking" =>
       /\ WalkChain(walk) /\ Clear(walk, pruned, Cursor(walk))
       /\ SeenIn(seen) = Passed(Reach(Places, pruned), Cursor(walk))

\* Nothing has been reported at the root's first element.
LEMMA SeenStart == ASSUME IInv, SeenInv, StartWalk PROVE SeenInv'
<1>1. /\ phase = "built" /\ phase' = "walking" /\ node' = node /\ seen' = seen
      /\ pruned' = pruned /\ walk' = <<[at |-> << >>, next |-> 0]>>
  BY DEF StartWalk
<1>2. seen = << >> /\ pruned = {}
  BY <1>1 DEF SeenInv
<1> DEFINE f == [at |-> << >>, next |-> 0]
<1>3. f.at = << >> /\ f.next = 0 /\ walk' = <<f>>
  BY <1>1
<1> HIDE DEF f
<1>4. Len(walk') = 1 /\ walk'[1] = f /\ Top(walk') = f
  BY <1>3 DEF Top
<1>5. << >> \in IsPlace /\ Len(<< >>) = 0
  BY EmptySeq DEF IsPlace
<1>6. Cursor(walk') = Append(<< >>, 0)
  BY <1>3, <1>4 DEF Cursor
<1>7. WalkChain(walk')
  BY <1>3, <1>4 DEF WalkChain
<1>8. Clear(walk', pruned', Cursor(walk'))
  <2>1. Before(<< >>, Append(<< >>, 0))
    BY <1>5, BeforeFirst
  <2> QED
    BY <2>1, <1>1, <1>2, <1>3, <1>4, <1>6 DEF Clear
<1>9. seen' = << >> /\ Len(seen') = 0 /\ seen' \in Seq(Sightings)
  BY <1>1, <1>2, EmptySeq
<1>10. SeenIn(seen') = {}
  BY <1>9 DEF SeenIn
<1>11. Tells(node', seen', Reach(Places, pruned)') /\ pruned' \subseteq SeenIn(seen')
  BY <1>1, <1>2, <1>9, <1>10 DEF Tells
<1>12. ASSUME NEW p \in Reach(Places, pruned)' PROVE ~Before(p, Cursor(walk'))
  <2>1. p \in IsPlace /\ p # << >>
    BY <1>1, <1>12 DEF IInv, TreeInv, TreeOK, Places, Reach
  <2>2. ~Before(p, << >>)
    BY <1>5 DEF Before
  <2> QED
    BY <2>1, <2>2, <1>5, <1>6, BeforeFirst
<1>13. SeenIn(seen') = Passed(Reach(Places, pruned)', Cursor(walk'))
  BY <1>10, <1>12 DEF Passed
<1> QED
  BY <1>1, <1>7, <1>8, <1>11, <1>13 DEF SeenInv

\* One element more is reported: the one the traversal is at.
LEMMA TellsNext ==
  ASSUME NEW s, NEW R, NEW p, R \subseteq IsPlace, Tells(node, s, R), p \in R,
         SeenIn(s) = Passed(R, p), NEW e \in Sightings, e.at = p, e.type = node[p].type
  PROVE  Tells(node, Append(s, e), R) /\ SeenIn(Append(s, e)) = Passed(R, p) \cup {p}
<1> DEFINE u == Append(s, e)
<1>0. u = Append(s, e) /\ SeenIn(s) = {r \in R : Before(r, p)}
  BY DEF Passed
<1>1. e \in Sightings /\ e.at = p /\ e.type = node[p].type
  OBVIOUS
<1> HIDE DEF u
<1>2. s \in Seq(Sightings) /\ Len(s) \in Nat
  BY DEF Tells
<1>3. /\ u \in Seq(Sightings) /\ Len(u) = Len(s) + 1 /\ u[Len(s) + 1] = e
      /\ \A i \in 1 .. Len(s) : u[i] = s[i]
  BY <1>0, <1>1, <1>2, AppendProperties
<1>4. /\ \A i \in 1 .. Len(u) : i \in 1 .. Len(s) \/ i = Len(s) + 1
      /\ Len(s) + 1 \in 1 .. Len(u) /\ \A i \in 1 .. Len(s) : i \in 1 .. Len(u)
  BY <1>2, <1>3
<1>5. SeenIn(u) = SeenIn(s) \cup {p}
  BY <1>1, <1>3, <1>4 DEF SeenIn
<1>6. SeenIn(u) = {r \in R : Before(r, p) \/ r = p}
  BY <1>0, <1>5
<1>7. \A i \in 1 .. Len(u) : u[i].at \in R /\ u[i].type = node[u[i].at].type
  BY <1>1, <1>3, <1>4 DEF Tells
<1>8. ASSUME NEW i \in 1 .. Len(u), NEW j \in 1 .. Len(u), i < j PROVE Before(u[i].at, u[j].at)
  <2>1. i \in 1 .. Len(s)
    BY <1>2, <1>3, <1>8
  <2>2. CASE j \in 1 .. Len(s)
    BY <2>1, <2>2, <1>3, <1>8 DEF Tells
  <2>3. CASE j = Len(s) + 1
    <3>1. u[i].at \in SeenIn(s)
      BY <2>1, <1>3 DEF SeenIn
    <3> QED
      BY <3>1, <1>0, <2>3, <1>1, <1>3
  <2> QED
    BY <1>4, <2>2, <2>3
<1>9. ASSUME NEW r \in R, NEW q \in SeenIn(u), Before(r, q) PROVE r \in SeenIn(u)
  <2>1. q \in R /\ (Before(q, p) \/ q = p)
    BY <1>6
  <2>2. Before(r, p)
    BY <2>1, <1>9, BeforeIsTransitive
  <2> QED
    BY <1>6, <2>2
<1>10. Tells(node, u, R)
  BY <1>3, <1>7, <1>8, <1>9 DEF Tells
<1> QED
  BY <1>0, <1>5, <1>10

\* What the invariants say while a traversal is under way.
LEMMA UnderWalk ==
  ASSUME IInv, OrderInv, SeenInv, phase = "walking"
  PROVE  /\ walk \in Seq(Steps) /\ Len(walk) \in Nat \ {0} /\ Top(walk) = walk[Len(walk)]
         /\ \A i \in 1 .. Len(walk) : walk[i] \in Steps /\ walk[i].at \in IsPlace
         /\ Top(walk).at \in Places /\ Top(walk).at \in IsPlace /\ Top(walk).next \in Nat
         /\ \A p \in Places : p \in IsPlace /\ node[p].type \in Types
         /\ InLen(node) /\ LeafLen(node)
         /\ WalkChain(walk) /\ Clear(walk, pruned, Cursor(walk))
         /\ Tells(node, seen, Reach(Places, pruned)) /\ pruned \subseteq SeenIn(seen)
         /\ SeenIn(seen) = Passed(Reach(Places, pruned), Cursor(walk))
         /\ Reach(Places, pruned) \subseteq IsPlace
<1>1. /\ TreeOK(node) /\ walk \in Seq(Steps) /\ Len(walk) \in Nat \ {0}
      /\ Top(walk) = walk[Len(walk)] /\ Top(walk) \in Steps /\ Top(walk).at \in Places
  BY Walking
<1>2. \A i \in 1 .. Len(walk) : walk[i] \in Steps /\ walk[i].at \in IsPlace
  <2>1. \A i \in 1 .. Len(walk) : walk[i] \in Steps
    BY <1>1, ElementOfSeq
  <2> QED
    BY <2>1 DEF Steps
<1>3. Top(walk).at \in IsPlace /\ Top(walk).next \in Nat
  BY <1>1 DEF Steps
<1>4. \A p \in Places : p \in IsPlace /\ node[p].type \in Types
  BY <1>1 DEF TreeOK, Places, Nodes
<1>5. InLen(node) /\ LeafLen(node)
  BY DEF OrderInv, Finished
<1>6. Reach(Places, pruned) \subseteq IsPlace
  BY <1>4 DEF Reach
<1> QED
  BY <1>1, <1>2, <1>3, <1>4, <1>5, <1>6 DEF SeenInv

\* The innermost frame moves on to the next element.
LEMMA MovedChain ==
  ASSUME NEW w \in Seq(Steps), Len(w) \in Nat \ {0}, WalkChain(w),
         NEW v, v = [w EXCEPT ![Len(w)].next = @ + 1]
  PROVE  /\ v \in Seq(Steps) /\ Len(v) = Len(w) /\ WalkChain(v)
         /\ \A i \in 1 .. Len(v) : v[i].at = w[i].at
         /\ v[Len(v)].next = Top(w).next + 1 /\ v[Len(v)].at = Top(w).at
<1> DEFINE f == w[Len(w)]
           g == [f EXCEPT !.next = @ + 1]
<1>1. Len(w) \in 1 .. Len(w) /\ f \in Steps
  BY ElementOfSeq
<1>2. v = [w EXCEPT ![Len(w)] = g]
  BY <1>1
<1>3. g \in Steps /\ g.at = f.at /\ g.next = f.next + 1
  BY <1>1 DEF Steps
<1> HIDE DEF g
<1>4. /\ v \in Seq(Steps) /\ Len(v) = Len(w)
      /\ \A i \in 1 .. Len(w) : v[i] = IF i = Len(w) THEN g ELSE w[i]
  BY <1>1, <1>2, <1>3, ExceptSeq
<1>5. \A i \in 1 .. Len(v) : v[i].at = w[i].at
  BY <1>3, <1>4
<1>6. v[Len(v)].next = Top(w).next + 1 /\ v[Len(v)].at = Top(w).at
  BY <1>1, <1>3, <1>4 DEF Top
<1>7. WalkChain(v)
  <2>1. v[1].at = << >>
    BY <1>4, <1>5 DEF WalkChain
  <2>2. ASSUME NEW i \in 1 .. Len(v) - 1
        PROVE  v[i].next > 0 /\ v[i + 1].at = Append(v[i].at, v[i].next - 1)
    <3>1. i \in 1 .. Len(w) - 1 /\ i \in 1 .. Len(w) /\ i # Len(w) /\ i + 1 \in 1 .. Len(w)
      BY <1>4
    <3>2. v[i] = w[i] /\ v[i + 1].at = w[i + 1].at
      BY <3>1, <1>4, <1>5
    <3> QED
      BY <3>1, <3>2 DEF WalkChain
  <2> QED
    BY <2>1, <2>2 DEF WalkChain
<1> QED
  BY <1>4, <1>5, <1>6, <1>7

\* Reporting an element, whatever becomes of what is inside it, leaves the
\* traversal at the next place that is not in a declined array.
LEMMA SeenVisit == ASSUME IInv, OrderInv, SeenInv, Visit PROVE SeenInv'
<1> DEFINE f == Top(walk)
           p == Append(f.at, f.next)
           rest == [walk EXCEPT ![Len(walk)].next = @ + 1]
           e == [at |-> p, type |-> node[p].type]
           R == Reach(Places, pruned)
           h == [at |-> p, next |-> 0]
           told == Append(seen, e)
<1>1. /\ phase = "walking" /\ f.next < node[f.at].len
      /\ node' = node
      /\ \/ /\ node[p].type = "array" /\ seen' = told
            /\ walk' = Append(rest, h) /\ pruned' = pruned /\ phase' = phase
         \/ /\ node[p].type = "array" /\ seen' = told
            /\ walk' = rest /\ pruned' = pruned \cup {p} /\ phase' = phase
         \/ /\ node[p].type # "array" /\ seen' = told
            /\ walk' = rest /\ pruned' = pruned /\ phase' = phase
         \/ /\ node[p].type \in Unset /\ seen' = seen
            /\ walk' = << >> /\ phase' = "refused" /\ pruned' = pruned
  BY DEF Visit
<1>2. /\ walk \in Seq(Steps) /\ Len(walk) \in Nat \ {0} /\ f = walk[Len(walk)]
      /\ \A i \in 1 .. Len(walk) : walk[i] \in Steps /\ walk[i].at \in IsPlace
      /\ f.at \in Places /\ f.at \in IsPlace /\ f.next \in Nat
      /\ \A q \in Places : q \in IsPlace /\ node[q].type \in Types
      /\ InLen(node) /\ LeafLen(node)
      /\ WalkChain(walk) /\ Clear(walk, pruned, Cursor(walk))
      /\ Tells(node, seen, R) /\ pruned \subseteq SeenIn(seen)
      /\ SeenIn(seen) = Passed(R, Cursor(walk))
      /\ R \subseteq IsPlace
  BY <1>1, UnderWalk
<1>3. p \in Places /\ Cursor(walk) = p
  BY <1>1, Walking DEF Cursor
<1>4. /\ p \in IsPlace /\ p # << >>
      /\ \A q \in IsPlace : IsStrictPrefix(q, p) <=> q = f.at \/ IsStrictPrefix(q, f.at)
  BY <1>2, Appended, PrefixOfKid
<1>5. p \in R
  <2>1. ASSUME NEW q \in pruned PROVE ~IsStrictPrefix(q, p)
    <3>1. q \in IsPlace
      BY <1>2 DEF Passed
    <3>2. q # f.at /\ ~IsStrictPrefix(q, f.at)
      BY <1>2 DEF Clear
    <3> QED
      BY <1>4, <3>1, <3>2
  <2> QED
    BY <2>1, <1>3, <1>4 DEF Reach
<1>6. /\ Tells(node, told, R)
      /\ SeenIn(told) = {q \in R : Before(q, p) \/ q = p}
  <2> HIDE DEF p, R
  <2>1. node[p].type \in Types
    BY <1>2, <1>3
  <2>2. /\ R \subseteq IsPlace /\ Tells(node, seen, R) /\ p \in R /\ SeenIn(seen) = Passed(R, p)
    BY <1>2, <1>3, <1>5
  <2>3. e \in Sightings /\ e.at = p /\ e.type = node[p].type
    BY <2>1, <1>4 DEF Sightings
  <2> HIDE DEF e
  <2>4. Tells(node, Append(seen, e), R) /\ SeenIn(Append(seen, e)) = Passed(R, p) \cup {p}
    BY <2>2, <2>3, TellsNext
  <2> QED
    BY <2>2, <2>4 DEF Passed
<1>7. /\ rest \in Seq(Steps) /\ Len(rest) = Len(walk) /\ WalkChain(rest)
      /\ \A i \in 1 .. Len(rest) : rest[i].at = walk[i].at
      /\ rest[Len(rest)].next = f.next + 1 /\ rest[Len(rest)].at = f.at
  BY <1>2, MovedChain
<1> DEFINE next == Append(f.at, f.next + 1)
<1>8. /\ next \in IsPlace
      /\ \A q \in IsPlace : Before(q, next) <=> (Before(q, p) \/ q = p \/ IsStrictPrefix(p, q))
  <2>1. f.next + 1 \in Nat
    BY <1>2
  <2>2. next \in IsPlace
    BY <1>2, <2>1, Appends
  <2> HIDE DEF f
  <2>3. \A q \in IsPlace : Before(q, next) <=> (Before(q, p) \/ q = p \/ IsStrictPrefix(p, q))
    BY <1>2, BeforeNext
  <2> QED
    BY <2>2, <2>3
<1>9. Cursor(rest) = next
  BY <1>7 DEF Cursor, Top
<1>10. \A i \in 1 .. Len(walk) : Before(walk[i].at, p)
  BY <1>2, <1>3 DEF Clear
<1>11. pruned \subseteq SeenIn(told) /\ p \in SeenIn(told)
  <2>1. pruned \subseteq SeenIn(seen)
    BY <1>2
  <2>2. SeenIn(seen) \subseteq SeenIn(told)
    BY <1>2, <1>3, <1>6 DEF Passed
  <2> QED
    BY <2>1, <2>2, <1>5, <1>6
<1> HIDE DEF f, p, rest, e, next, told
<1>12. CASE node[p].type = "array" /\ seen' = told
                /\ walk' = Append(rest, h) /\ pruned' = pruned /\ phase' = phase
  <2>1. h.at = p /\ h.next = 0 /\ h \in Steps
    BY <1>4 DEF Steps
  <2> HIDE DEF h
  <2>2. /\ walk' \in Seq(Steps) /\ Len(walk') = Len(rest) + 1
        /\ walk'[Len(rest) + 1] = h /\ \A i \in 1 .. Len(rest) : walk'[i] = rest[i]
    BY <1>7, <1>12, <2>1, AppendProperties
  <2>3. Top(walk') = h /\ Cursor(walk') = Append(p, 0)
    BY <2>1, <2>2 DEF Top, Cursor
  <2>4. \A q \in IsPlace : Before(q, Append(p, 0)) <=> Before(q, p) \/ q = p
    BY <1>4, BeforeFirst
  <2>5. WalkChain(walk')
    <3>1. walk'[1].at = << >>
      BY <2>2, <1>2, <1>7 DEF WalkChain
    <3>2. ASSUME NEW i \in 1 .. Len(walk') - 1
          PROVE  walk'[i].next > 0 /\ walk'[i + 1].at = Append(walk'[i].at, walk'[i].next - 1)
      <4>1. CASE i = Len(rest)
        <5>1. walk'[i].next = f.next + 1 /\ walk'[i].at = f.at /\ walk'[i + 1].at = p
          BY <4>1, <2>1, <2>2, <1>2, <1>7
        <5>2. f.next + 1 > 0 /\ (f.next + 1) - 1 = f.next
          BY <1>2
        <5> QED
          BY <5>1, <5>2 DEF p
      <4>2. CASE i # Len(rest)
        <5>1. i \in 1 .. Len(rest) - 1 /\ i \in 1 .. Len(rest) /\ i + 1 \in 1 .. Len(rest)
          BY <4>2, <2>2, <1>2, <1>7
        <5> QED
          BY <5>1, <2>2, <1>7 DEF WalkChain
      <4> QED
        BY <4>1, <4>2
    <3> QED
      BY <3>1, <3>2 DEF WalkChain
  <2>6. Clear(walk', pruned, Append(p, 0))
    <3>1. ASSUME NEW i \in 1 .. Len(walk')
          PROVE  /\ Before(walk'[i].at, Append(p, 0))
                 /\ \A q \in pruned : q # walk'[i].at /\ ~IsStrictPrefix(q, walk'[i].at)
      <4>1. CASE i \in 1 .. Len(rest)
        <5>1. walk'[i].at = walk[i].at /\ i \in 1 .. Len(walk)
          BY <4>1, <2>2, <1>7
        <5> QED
          BY <5>1, <1>2, <1>10, <2>4 DEF Clear
      <4>2. CASE i = Len(rest) + 1
        <5>1. walk'[i].at = p
          BY <4>2, <2>1, <2>2
        <5>2. ASSUME NEW q \in pruned PROVE q # p /\ ~IsStrictPrefix(q, p)
          <6>1. q \in SeenIn(seen) /\ Before(q, p) /\ q \in IsPlace
            BY <1>2, <1>3, <5>2 DEF Passed
          <6> QED
            BY <6>1, <1>4, <1>5, <5>2, BeforeIsStrict DEF Reach
        <5> QED
          BY <5>1, <5>2, <1>4, <2>4
      <4> QED
        BY <4>1, <4>2, <2>2, <1>2, <1>7
    <3> QED
      BY <3>1 DEF Clear
  <2>7. SeenIn(told) = Passed(R, Append(p, 0))
    BY <1>2, <1>6, <2>4 DEF Passed
  <2>8. Reach(Places, pruned)' = R
    BY <1>1, <1>12 DEF Places
  <2> HIDE DEF R
  <2> QED
    BY <1>1, <1>6, <1>11, <1>12, <2>3, <2>5, <2>6, <2>7, <2>8 DEF SeenInv
<1>13. CASE node[p].type = "array" /\ seen' = told
                /\ walk' = rest /\ pruned' = pruned \cup {p} /\ phase' = phase
  <2> DEFINE S == Reach(Places, pruned \cup {p})
  <2>1. S = {q \in R : ~IsStrictPrefix(p, q)}
    BY DEF Reach
  <2>2. \A q \in IsPlace : IsStrictPrefix(p, q) => ~(Before(q, p) \/ q = p)
    BY <1>4, PrefixIsBefore, BeforeIsTransitive, BeforeIsStrict
  <2> HIDE DEF R, S
  <2>3. SeenIn(told) = {q \in S : Before(q, p) \/ q = p}
    BY <1>2, <1>6, <2>1, <2>2
  <2>4. SeenIn(told) = Passed(S, next)
    BY <1>2, <1>8, <2>1, <2>3 DEF Passed
  <2>5. Tells(node, told, S)
    <3>1. \A i \in 1 .. Len(told) : told[i].at \in S
      <4>1. \A i \in 1 .. Len(told) : told[i].at \in SeenIn(told)
        BY DEF SeenIn
      <4> QED
        BY <4>1, <2>3
    <3> QED
      BY <3>1, <2>1, <1>6 DEF Tells
  <2>6. Clear(rest, pruned \cup {p}, next)
    <3>1. ASSUME NEW i \in 1 .. Len(rest)
          PROVE  /\ Before(rest[i].at, next)
                 /\ \A q \in pruned \cup {p} : q # rest[i].at /\ ~IsStrictPrefix(q, rest[i].at)
      <4>1. /\ rest[i].at = walk[i].at /\ i \in 1 .. Len(walk) /\ walk[i].at \in IsPlace
            /\ Before(walk[i].at, p)
        BY <1>2, <1>7, <1>10
      <4>2. p # walk[i].at /\ ~IsStrictPrefix(p, walk[i].at)
        BY <4>1, <2>2, <1>4, BeforeIsStrict
      <4> QED
        BY <4>1, <4>2, <1>2, <1>8 DEF Clear
    <3> QED
      BY <3>1 DEF Clear
  <2>7. Reach(Places, pruned)' = S
    BY <1>1, <1>13 DEF Places, S
  <2> QED
    BY <1>1, <1>7, <1>9, <1>11, <1>13, <2>4, <2>5, <2>6, <2>7 DEF SeenInv
<1>14. CASE node[p].type # "array" /\ seen' = told
                /\ walk' = rest /\ pruned' = pruned /\ phase' = phase
  <2>1. ASSUME NEW q \in R PROVE ~IsStrictPrefix(p, q)
    <3>1. SUFFICES ASSUME IsStrictPrefix(p, q) PROVE FALSE
      OBVIOUS
    <3>2. q \in Places /\ node[p].len = 0 /\ q[Len(p) + 1] < 0
      BY <3>1, <2>1, <1>2, <1>3, <1>4, <1>14 DEF Reach, InLen, LeafLen, Places
    <3>3. Len(p) \in Nat /\ Len(q) \in Nat /\ Len(p) < Len(q) /\ \A i \in 1 .. Len(q) : q[i] \in Nat
      BY <3>1, <3>2, <1>2, <1>4, PrefixIs, Indexes
    <3>4. q[Len(p) + 1] \in Nat
      BY <3>3
    <3> QED
      BY <3>2, <3>4
  <2>2. SeenIn(told) = Passed(R, next)
    BY <1>2, <1>6, <1>8, <2>1 DEF Passed
  <2>3. Clear(rest, pruned, next)
    BY <1>2, <1>7, <1>8, <1>10 DEF Clear
  <2>4. Reach(Places, pruned)' = R
    BY <1>1, <1>14 DEF Places
  <2> HIDE DEF R
  <2> QED
    BY <1>1, <1>6, <1>7, <1>9, <1>11, <1>14, <2>2, <2>3, <2>4 DEF SeenInv
<1>15. CASE seen' = seen /\ walk' = << >> /\ phase' = "refused" /\ pruned' = pruned
  <2>1. Reach(Places, pruned)' = R
    BY <1>1, <1>15 DEF Places
  <2> HIDE DEF R
  <2> QED
    BY <2>1, <1>1, <1>2, <1>15 DEF SeenInv
<1> QED
  BY <1>1, <1>12, <1>13, <1>14, <1>15 DEF f, p, rest, told

\* At an array's end the traversal is at the element after the array.
LEMMA SeenEnd == ASSUME IInv, OrderInv, SeenInv, EndArray PROVE SeenInv'
<1> DEFINE f == Top(walk)
           R == Reach(Places, pruned)
           g == walk[Len(walk) - 1]
<1>1. /\ phase = "walking" /\ f.next = node[f.at].len /\ walk' = Pop(walk)
      /\ node' = node /\ seen' = seen /\ pruned' = pruned
      /\ phase' = IF Len(walk) = 1 THEN "walked" ELSE phase
  BY DEF EndArray
<1>2. /\ walk \in Seq(Steps) /\ Len(walk) \in Nat \ {0} /\ f = walk[Len(walk)]
      /\ \A i \in 1 .. Len(walk) : walk[i] \in Steps /\ walk[i].at \in IsPlace
      /\ f.at \in Places /\ f.at \in IsPlace /\ f.next \in Nat
      /\ InLen(node)
      /\ WalkChain(walk) /\ Clear(walk, pruned, Cursor(walk))
      /\ Tells(node, seen, R) /\ pruned \subseteq SeenIn(seen)
      /\ SeenIn(seen) = Passed(R, Cursor(walk))
      /\ R \subseteq IsPlace
  BY <1>1, UnderWalk
<1>3. Reach(Places, pruned)' = R
  BY <1>1 DEF Places
\* All of the array's elements, and what is inside them, have been passed.
<1>4. ASSUME NEW q \in R
      PROVE  Before(q, Cursor(walk)) <=> (Before(q, f.at) \/ q = f.at \/ IsStrictPrefix(f.at, q))
  <2>1. q \in IsPlace /\ q \in Places
    BY <1>2 DEF Reach
  <2>2. IsStrictPrefix(f.at, q) => q[Len(f.at) + 1] < f.next
    BY <1>1, <1>2, <2>1 DEF InLen, Places
  <2>3. Cursor(walk) = Append(f.at, f.next)
    BY DEF Cursor
  <2> HIDE DEF f
  <2> QED
    BY <1>2, <2>1, <2>2, <2>3, BeforeKid
<1> HIDE DEF f, R
<1>5. CASE Len(walk) = 1
  <2>1. f.at = << >>
    BY <1>2, <1>5 DEF WalkChain
  <2>2. ASSUME NEW q \in R PROVE Before(q, Cursor(walk))
    <3>1. q \in IsPlace /\ q # << >>
      BY <1>2 DEF R, Reach
    <3>2. << >> \in IsPlace /\ Len(<< >>) = 0 /\ Len(q) # 0 /\ Len(q) \in Nat
      BY <3>1, EmptySeq, Indexes DEF IsPlace
    <3>3. IsStrictPrefix(<< >>, q)
      BY <3>1, <3>2, PrefixIs
    <3> QED
      BY <1>4, <2>1, <3>3
  <2>3. R \subseteq SeenIn(seen)
    BY <1>2, <2>2 DEF Passed
  <2> QED
    BY <1>1, <1>2, <1>3, <1>5, <2>3 DEF SeenInv
<1>6. CASE Len(walk) # 1
  <2>1. /\ walk' \in Seq(Steps) /\ Len(walk') = Len(walk) - 1
        /\ \A i \in 1 .. Len(walk) - 1 : walk'[i] = walk[i]
    BY <1>1, Walking
  <2>2. /\ Len(walk) - 1 \in 1 .. Len(walk) - 1 /\ Len(walk) - 1 \in 1 .. Len(walk)
        /\ (Len(walk) - 1) + 1 = Len(walk)
    <3>1. PICK n \in Nat \ {0} : n = Len(walk)
      BY <1>2
    <3> QED
      BY <3>1, <1>6
  <2>3. Top(walk') = g /\ g.at \in IsPlace /\ g.next \in Nat
    BY <1>2, <2>1, <2>2 DEF Top, Steps
  <2>4. g.next > 0 /\ f.at = Append(g.at, g.next - 1)
    <3>1. g.next > 0 /\ walk[(Len(walk) - 1) + 1].at = Append(g.at, g.next - 1)
      BY <1>2, <2>2 DEF WalkChain
    <3> QED
      BY <1>2, <2>2, <3>1
  <2> HIDE DEF g
  <2>5. Cursor(walk') = Append(g.at, (g.next - 1) + 1) /\ g.next - 1 \in Nat
    <3>1. g.next - 1 \in Nat /\ (g.next - 1) + 1 = g.next
      BY <2>3, <2>4
    <3> QED
      BY <2>3, <3>1 DEF Cursor
  <2>6. \A q \in IsPlace : Before(q, Cursor(walk')) <=>
          (Before(q, f.at) \/ q = f.at \/ IsStrictPrefix(f.at, q))
    BY <2>3, <2>4, <2>5, BeforeNext
  <2>7. SeenIn(seen) = Passed(R, Cursor(walk'))
    BY <1>2, <1>4, <2>6 DEF Passed
  <2>8. WalkChain(walk')
    <3>1. walk'[1].at = << >>
      BY <1>2, <2>1, <2>2 DEF WalkChain
    <3>2. ASSUME NEW i \in 1 .. Len(walk') - 1
          PROVE  walk'[i].next > 0 /\ walk'[i + 1].at = Append(walk'[i].at, walk'[i].next - 1)
      <4>1. i \in 1 .. Len(walk) - 1 /\ i + 1 \in 1 .. Len(walk) - 1
        BY <1>2, <2>1
      <4> QED
        BY <4>1, <1>2, <2>1 DEF WalkChain
    <3> QED
      BY <3>1, <3>2 DEF WalkChain
  <2>9. Clear(walk', pruned, Cursor(walk'))
    <3>1. ASSUME NEW i \in 1 .. Len(walk')
          PROVE  /\ Before(walk'[i].at, Cursor(walk'))
                 /\ \A q \in pruned : q # walk'[i].at /\ ~IsStrictPrefix(q, walk'[i].at)
      <4>1. walk'[i] = walk[i] /\ i \in 1 .. Len(walk) /\ walk[i].at \in IsPlace
        BY <1>2, <2>1
      <4>2. Before(walk[i].at, Append(f.at, f.next))
        BY <4>1, <1>2 DEF Clear, Cursor, f
      <4>3. Before(walk[i].at, f.at) \/ walk[i].at = f.at \/ IsStrictPrefix(f.at, walk[i].at)
        BY <4>1, <4>2, <1>2, BeforeKid
      <4> QED
        BY <4>1, <4>3, <2>6, <1>2 DEF Clear
    <3> QED
      BY <3>1 DEF Clear
  <2> QED
    BY <1>1, <1>2, <1>3, <1>6, <2>7, <2>8, <2>9 DEF SeenInv
<1> QED
  BY <1>5, <1>6

\* While the tree is built nothing has been reported.
LEMMA SeenStep == ASSUME IInv, IInv', OrderInv, SeenInv, [Next]_vars PROVE SeenInv'
<1>1. CASE Start \/ ConstructLeaf \/ OpenArray \/ CloseArray \/ Throw
  <2>1. seen' = seen /\ pruned' = pruned /\ phase \in {"start", "building"}
    BY <1>1 DEF Start, ConstructLeaf, OpenArray, CloseArray, Throw, More,
       Building, NotWalking
  <2>2. phase' \in {"building", "built", "failed", "crashed", "thrown"}
    BY <1>1 DEF Start, ConstructLeaf, OpenArray, CloseArray, Throw, More,
       Building, Absorb
  <2> QED
    BY <2>1, <2>2 DEF SeenInv
<1>2. CASE UNCHANGED vars
  <2>1. Reach(Places, pruned)' = Reach(Places, pruned)
    BY <1>2 DEF vars, Places
  <2> QED
    BY <1>2, <2>1 DEF vars, SeenInv
<1> QED
  BY <1>1, <1>2, SeenStart, SeenVisit, SeenEnd DEF Next

\* What has been supplied and reported follows the order of the places.
THEOREM OrderInvariant == Spec => [](OrderInv /\ SeenInv)
<1>1. Init => OrderInv /\ SeenInv
  <2> SUFFICES ASSUME Init PROVE OrderInv /\ SeenInv
    OBVIOUS
  <2>1. /\ phase = "start" /\ DOMAIN node = {} /\ order = << >> /\ Len(order) = 0
        /\ order \in Seq(IsPlace) /\ seen = << >> /\ pruned = {}
    BY EmptySeq DEF Init
  <2>2. Supplied(node, order) /\ InLen(node) /\ LeafLen(node)
    BY <2>1 DEF Supplied, InLen, LeafLen, Sorted, ElementsOf
  <2> QED
    BY <2>1, <2>2 DEF OrderInv, SeenInv
<1>2. IInv /\ IInv' /\ OrderInv /\ SeenInv /\ [Next]_vars => (OrderInv /\ SeenInv)'
  BY OrderStep, SeenStep
<1> QED
  BY <1>1, <1>2, Invariant, PTL DEF Spec

\* A traversal reports what the host supplied, in the order it did, each
\* element once and with its type, and leaves out only what is inside the
\* arrays that were declined.
THEOREM TraversalReportsWhatWasSupplied == Spec => []RoundTrip
<1>1. ASSUME IInv, OrderInv, SeenInv, phase \in {"walking", "walked", "refused"} PROVE RoundTrip
  <2> DEFINE R == Reach(Places, pruned)
  <2>1. /\ order \in Seq(IsPlace) /\ Sorted(order) /\ ElementsOf(order) = Places \ {<< >>}
        /\ DOMAIN order = 1 .. Len(order) /\ Len(order) \in Nat
    BY <1>1 DEF OrderInv, Supplied, Finished, Places
  <2>2. /\ Tells(node, seen, R) /\ seen \in Seq(Sightings)
        /\ DOMAIN seen = 1 .. Len(seen) /\ Len(seen) \in Nat
    BY <1>1 DEF SeenInv, Tells
  <2>3. \A i \in DOMAIN order : order[i] \in IsPlace /\ order[i] \in Places \ {<< >>}
    BY <2>1, ElementOfSeq DEF ElementsOf
  <2>4. \A k \in Kept : k \in DOMAIN order /\ k \in Nat /\ order[k] \in R /\ order[k] \in IsPlace
    BY <2>1, <2>3 DEF Kept, Reach
  <2>5. \A i \in DOMAIN seen : i \in Nat /\ seen[i].at \in R /\ seen[i].type = node[seen[i].at].type
    BY <2>2 DEF Tells
  <2>6. \A i, j \in DOMAIN seen : i < j => Before(seen[i].at, seen[j].at)
    BY <2>2 DEF Tells
  <2>7. \A p \in R : \E k \in Kept : order[k] = p
    <3> TAKE p \in R
    <3>1. p \in ElementsOf(order) /\ \A q \in pruned : ~IsStrictPrefix(q, p)
      BY <2>1 DEF Reach
    <3>2. PICK k \in 1 .. Len(order) : order[k] = p
      BY <3>1 DEF ElementsOf
    <3> QED
      BY <2>1, <3>1, <3>2 DEF Kept
  <2>8. \A k, l \in Kept : k < l => Before(order[k], order[l])
    BY <2>1, <2>4 DEF Sorted
  <2>9. \A p \in R, q \in SeenIn(seen) : Before(p, q) => p \in SeenIn(seen)
    BY <2>2 DEF Tells
  <2>10. \A t : t \in Told <=> /\ t \in (DOMAIN seen) \X Kept
                               /\ seen[t[1]].at = order[t[2]]
                               /\ seen[t[1]].type = node[order[t[2]]].type
    BY DEF Told
  <2> HIDE DEF R
  <2>11. \A i \in DOMAIN seen, k \in Kept : seen[i].at = order[k] => <<i, k>> \in Told
    BY <2>5, <2>10
  <2>12. {t[1] : t \in Told} = DOMAIN seen
    <3>1. \A i \in DOMAIN seen : \E t \in Told : t[1] = i
      <4> TAKE i \in DOMAIN seen
      <4>1. PICK k \in Kept : order[k] = seen[i].at
        BY <2>5, <2>7
      <4>2. <<i, k>> \in Told /\ <<i, k>>[1] = i
        BY <4>1, <2>11
      <4> QED
        BY <4>2
    <3>2. \A t \in Told : t[1] \in DOMAIN seen
      BY <2>10
    <3> QED
      BY <3>1, <3>2
  <2>13. ASSUME NEW t \in Told, NEW u \in Told PROVE t[1] < u[1] <=> t[2] < u[2]
    <3> DEFINE p == seen[t[1]].at
               q == seen[u[1]].at
    <3>1. /\ t[1] \in DOMAIN seen /\ u[1] \in DOMAIN seen /\ t[2] \in Kept /\ u[2] \in Kept
          /\ p = order[t[2]] /\ q = order[u[2]]
      BY <2>10, <2>13
    <3>2. t[1] \in Nat /\ u[1] \in Nat /\ t[2] \in Nat /\ u[2] \in Nat
      BY <3>1, <2>4, <2>5
    <3>3. p \in IsPlace /\ q \in IsPlace
      BY <3>1, <2>4
    <3>4. /\ t[1] < u[1] => Before(p, q)
          /\ u[1] < t[1] => Before(q, p)
          /\ t[1] = u[1] => p = q
      BY <3>1, <2>6
    <3>5. /\ t[2] < u[2] => Before(p, q)
          /\ u[2] < t[2] => Before(q, p)
          /\ t[2] = u[2] => p = q
      BY <3>1, <2>8
    <3>6. ~(Before(p, q) /\ Before(q, p)) /\ (p = q => ~Before(p, q))
      BY <3>3, BeforeIsTransitive, BeforeIsStrict
    <3> HIDE DEF p, q
    <3> QED
      BY <3>2, <3>4, <3>5, <3>6
  <2>14. ASSUME NEW k \in Kept, order[k] \in SeenIn(seen) PROVE \E t \in Told : t[2] = k
    <3>1. PICK i \in DOMAIN seen : seen[i].at = order[k]
      BY <2>2, <2>14 DEF SeenIn
    <3>2. <<i, k>> \in Told /\ <<i, k>>[2] = k
      BY <3>1, <2>11
    <3> QED
      BY <3>2
  <2>15. ASSUME NEW k \in Kept, NEW t \in Told, k < t[2] PROVE \E u \in Told : u[2] = k
    <3>1. t[2] \in Kept /\ t[1] \in DOMAIN seen /\ seen[t[1]].at = order[t[2]]
      BY <2>10, <2>15
    <3>2. order[t[2]] \in SeenIn(seen)
      BY <3>1, <2>2 DEF SeenIn
    <3>3. order[k] \in SeenIn(seen)
      BY <3>1, <3>2, <2>4, <2>8, <2>9, <2>15
    <3> QED
      BY <3>3, <2>14
  <2>16. ASSUME phase = "walked", NEW k \in Kept PROVE \E u \in Told : u[2] = k
    <3>1. order[k] \in SeenIn(seen)
      BY <1>1, <2>4, <2>16 DEF SeenInv, R
    <3> QED
      BY <3>1, <2>14
  <2>17. \A t \in Told : t[2] \in Kept
    BY <2>10
  <2> QED
    BY <2>12, <2>13, <2>15, <2>16, <2>17 DEF RoundTrip
<1>2. IInv /\ OrderInv /\ SeenInv => RoundTrip
  BY <1>1 DEF RoundTrip
<1> QED
  BY <1>2, Invariant, OrderInvariant, PTL
==============================================================================
