---------------------------- MODULE CdtsConstruct ----------------------------
(***************************************************************************)
(* Moving a host's values into a CDTS tree and out again                    *)
(* (runtime/cdts_traverse_construct.cpp).                                   *)
(*                                                                         *)
(* construct_cdts asks the host's callbacks for the elements one by one and *)
(* recurses into arrays; the callbacks are the environment here and answer  *)
(* whatever a host may answer.  The C++ recursion is a stack of frames, one *)
(* per array being filled.  traverse_cdts walks the finished tree and       *)
(* reports every element to another set of callbacks.                       *)
(*                                                                         *)
(* A place in the tree is its index vector, a sequence; << >> is the root   *)
(* cdts.  Values are abstracted to what tells them apart: their type.       *)
(* Inside an array that is constructed manually the host does what it likes *)
(* element by element, in the order of the indices here, and construct_cdt  *)
(* looks at nothing of it: neither types nor dimensions.                    *)
(***************************************************************************)
EXTENDS Integers, Sequences, SequencesExt

CONSTANTS Leaves,    \* the types of elements that are not arrays
          Unset,     \* those leaf types whose value may come back null and
                     \* is refused by traverse_cdt (callables)
          Claims,    \* what a host that lies may write into an array it fills
                     \* itself as the number of its dimensions
          MaxRoot,   \* bound: elements of the root cdts
          MaxLen,    \* bound: elements of an array
          MaxDepth,  \* bound: nesting of arrays of a host that may lie
          MaxRank    \* bound: nesting of arrays of a truthful host

ASSUME ConstructAssumption ==
  /\ MaxRoot \in Nat /\ MaxLen \in Nat /\ MaxDepth \in Nat /\ MaxRank \in Nat
  /\ Unset \subseteq Leaves /\ Claims \subseteq Int
  /\ {"array", "root"} \cap Leaves = {}

Mixed == -1                   \* MIXED_OR_UNKNOWN_DIMENSIONS
IntMin == -2147483647 - 1     \* INT_MIN: no dimensions found yet

VARIABLES
  truthful, \* does this host describe its arrays as they are?
  phase,  \* "start", "building", "built", "walking", "walked", or how it ended
  node,   \* what has been constructed, by place
  stack,  \* frames of construct_cdt: [at, next, found]
  order,  \* places in the order in which the host supplied them
  walk,   \* frames of traverse_cdts: [at, next]
  seen,   \* what the traversal reported: [at, type]
  pruned  \* arrays whose on_array callback declined the elements

vars == <<truthful, phase, node, stack, order, walk, seen, pruned>>

Top(s) == s[Len(s)]
Pop(s) == SubSeq(s, 1, Len(s) - 1)
Put(p, c) == [q \in DOMAIN node \cup {p} |-> IF q = p THEN c ELSE node[q]]

\* rank is ghost: what a truthful host knows of its array, 0 for a mixed one.
Array(meta) == [type |-> "array", len |-> meta.len, fixed |-> meta.fixed,
                oneD |-> meta.oneD, manual |-> meta.manual, rank |-> meta.rank,
                dims |-> IntMin]
Leaf(k) == [type |-> k, len |-> 0, fixed |-> FALSE,
            oneD |-> FALSE, manual |-> FALSE, rank |-> 0, dims |-> 0]
Root(n) == [Leaf("root") EXCEPT !.len = n, !.dims = Mixed]

Init ==
  /\ truthful \in BOOLEAN /\ phase = "start"
  /\ node = << >> /\ stack = << >> /\ order = << >>
  /\ walk = << >> /\ seen = << >> /\ pruned = {}

NotWalking == UNCHANGED <<truthful, walk, seen, pruned>>

\* construct_cdts: the root takes its length from the host.
Start ==
  /\ phase = "start" /\ phase' = "building"
  /\ \E n \in 0 .. MaxRoot : node' = Put(<< >>, Root(n))
  /\ stack' = <<[at |-> << >>, next |-> 0, found |-> Mixed]>>
  /\ UNCHANGED order /\ NotWalking
------------------------------------------------------------------------------
Frame == Top(stack)
Building == phase = "building"
Here == Append(Frame.at, Frame.next)       \* the element constructed next
More_Inclusive == Building /\ Frame.next <= node[Frame.at].len    \* mutant
More == Building /\ Frame.next < node[Frame.at].len

\* What a truthful host may have at Here, given the array it is in.
Rank(parent) == IF parent.type = "array" THEN parent.rank ELSE 0
LeafFits(k) == truthful => Rank(node[Frame.at]) \in {0, 1} /\ k \notin Unset
Deeper == Len(Here) <= IF truthful THEN MaxRank ELSE MaxDepth
\* Of an array the host fills itself construct_cdt reads neither flag.
ArrayFits(meta) ==
  /\ meta.manual => ~meta.fixed /\ ~meta.oneD
  /\ truthful => LET r == Rank(node[Frame.at]) IN
       /\ meta.rank \in (IF r = 0 THEN 0 .. MaxRank + 1 - Len(Here) ELSE {r - 1} \ {0})
       /\ ~meta.manual => meta.fixed = (meta.rank > 0) /\ meta.oneD = (meta.rank = 1)

Metadata == [len : 0 .. MaxLen, fixed : BOOLEAN, oneD : BOOLEAN, manual : BOOLEAN,
             rank : IF truthful THEN 0 .. MaxRank ELSE {0}]

\* An element is done: the array it is in looks at its type and dimensions.
Refused(f, c) == node[f.at].oneD /\ c.type = "array"
Counts(f) == ~node[f.at].oneD /\ f.found # Mixed
\* Mutants: the last element decides; the first one does.
Found_LastWins(f, c) ==
  IF ~Counts(f) THEN f.found ELSE IF c.type # "array" THEN Mixed ELSE c.dims
Found_FirstWins(f, c) ==
  IF ~Counts(f) THEN f.found
  ELSE IF c.type # "array" THEN Mixed ELSE IF f.found = IntMin THEN c.dims ELSE f.found
Found(f, c) ==
  IF ~Counts(f) THEN f.found
  ELSE IF c.type # "array" THEN Mixed
  ELSE IF f.found = IntMin THEN c.dims
  ELSE IF f.found # c.dims THEN Mixed
  ELSE f.found

\* With dimensions being counted, a scalar's payload is read as the address of
\* a cdts (lines 440-444): the process dies, or what is there differs.
Absorb(stk, c) ==
  LET f == Top(stk) IN
  \/ /\ Refused(f, c)
     /\ phase' = "failed" /\ stack' = << >>
  \/ /\ ~Refused(f, c)
     /\ phase' = phase
     /\ stack' = [stk EXCEPT ![Len(stk)] = [f EXCEPT !.next = @ + 1, !.found = Found(f, c)]]
  \/ /\ Counts(f) /\ c.type # "array"
     /\ phase' = "crashed" /\ stack' = << >>

\* get_type_info names a leaf and the value callback delivers it.
ConstructLeaf ==
  /\ More
  /\ \E k \in Leaves :
       /\ LeafFits(k)
       /\ node' = Put(Here, Leaf(k))
       /\ order' = Append(order, Here)
       /\ Absorb(stack, Leaf(k))
  /\ NotWalking

\* Mutant: dimensions are counted whatever the host says.
OpenArray_AlwaysCounts ==
  /\ More /\ Deeper
  /\ \E meta \in Metadata :
       /\ ArrayFits(meta)
       /\ node' = Put(Here, Array(meta))
       /\ stack' = Append(stack, [at |-> Here, next |-> 0,
                                  found |-> IF meta.manual THEN Mixed ELSE IntMin])
  /\ order' = Append(order, Here)
  /\ UNCHANGED phase /\ NotWalking

\* get_array_metadata describes an array: a frame for its elements.  None are
\* counted in one that construct_cdt_array fills: it is not marked as fixed.
OpenArray ==
  /\ More /\ Deeper
  /\ \E meta \in Metadata :
       /\ ArrayFits(meta)
       /\ node' = Put(Here, Array(meta))
       /\ stack' = Append(stack, [at |-> Here, next |-> 0,
                                  found |-> IF meta.fixed THEN IntMin ELSE Mixed])
  /\ order' = Append(order, Here)
  /\ UNCHANGED phase /\ NotWalking

\* What a host writes into an array it filled itself: its rank, if it tells
\* the truth; otherwise anything, or nothing.
HostDims(a) ==
  IF truthful THEN {IF a.rank = 0 THEN Mixed ELSE a.rank} ELSE Claims \cup {IntMin}

\* The last element is in: the array's dimensions follow, and it becomes an
\* element of the array around it; after the root's last element all is built.
Dims_NotNested(f) ==    \* mutant
  IF node[f.at].oneD THEN 1 ELSE IF f.found # Mixed THEN f.found ELSE Mixed
Dims(f) == IF node[f.at].oneD THEN 1 ELSE IF f.found # Mixed THEN f.found + 1 ELSE Mixed
CloseArray ==
  /\ Building /\ ~More
  /\ IF Len(stack) = 1
     THEN phase' = "built" /\ stack' = << >> /\ UNCHANGED node
     ELSE \E d \in IF node[Frame.at].manual THEN HostDims(node[Frame.at])
                                           ELSE {Dims(Frame)} :
          LET c == [node[Frame.at] EXCEPT !.dims = d] IN
          /\ node' = Put(Frame.at, c)
          /\ Absorb(Pop(stack), c)
  /\ UNCHANGED order /\ NotWalking

\* A callback throws; or it names metaffi_any_type or a type that is unknown,
\* which nobody notices in an array that the host fills (traverse_cdt refuses
\* such an element as it does a null callable).
Throw ==
  /\ More
  /\ \/ phase' = "thrown"
     \/ ~truthful /\ ~node[Frame.at].manual /\ phase' = "failed"
  /\ stack' = << >>
  /\ UNCHANGED <<node, order>> /\ NotWalking
------------------------------------------------------------------------------
StartWalk ==
  /\ phase = "built" /\ phase' = "walking"
  /\ walk' = <<[at |-> << >>, next |-> 0]>>
  /\ UNCHANGED <<truthful, node, stack, order, seen, pruned>>

\* Mutant: a declined array is entered.
Visit_Enters ==
  LET f == Top(walk)
      p == Append(f.at, f.next)
      rest == [walk EXCEPT ![Len(walk)].next = @ + 1]
  IN
  /\ phase = "walking" /\ f.next < node[f.at].len
  /\ seen' = Append(seen, [at |-> p, type |-> node[p].type])
  /\ walk' = IF node[p].type = "array" THEN Append(rest, [at |-> p, next |-> 0]) ELSE rest
  /\ pruned' \in IF node[p].type = "array" THEN {pruned, pruned \cup {p}} ELSE {pruned}
  /\ UNCHANGED <<truthful, node, stack, order, phase>>

\* traverse_cdts: the next element of the innermost array is reported; the
\* callback of an array decides whether its elements are visited.
Visit ==
  LET f == Top(walk)
      p == Append(f.at, f.next)
      rest == [walk EXCEPT ![Len(walk)].next = @ + 1]
  IN
  /\ phase = "walking" /\ f.next < node[f.at].len
  /\ \/ /\ seen' = Append(seen, [at |-> p, type |-> node[p].type])
        /\ \/ /\ node[p].type = "array"
              /\ walk' = Append(rest, [at |-> p, next |-> 0]) /\ UNCHANGED pruned
           \/ /\ node[p].type = "array"
              /\ walk' = rest /\ pruned' = pruned \cup {p}
           \/ /\ node[p].type # "array"
              /\ walk' = rest /\ UNCHANGED pruned
        /\ UNCHANGED phase
     \/ /\ node[p].type \in Unset    \* "Callable value is null"
        /\ walk' = << >> /\ phase' = "refused" /\ UNCHANGED <<seen, pruned>>
  /\ UNCHANGED <<truthful, node, stack, order>>

EndArray ==
  /\ phase = "walking" /\ Top(walk).next = node[Top(walk).at].len
  /\ walk' = Pop(walk)
  /\ phase' = IF Len(walk) = 1 THEN "walked" ELSE phase
  /\ UNCHANGED <<truthful, node, stack, order, seen, pruned>>

Next == \/ Start \/ ConstructLeaf \/ OpenArray \/ CloseArray \/ Throw
        \/ StartWalk \/ Visit \/ EndArray

Spec == Init /\ [][Next]_vars
------------------------------------------------------------------------------
Places == DOMAIN node
Below(p) == {q \in Places : IsStrictPrefix(p, q)}
KidPlaces(p) == {q \in Below(p) : Len(q) = Len(p) + 1}
Kids(p) == {node[q] : q \in KidPlaces(p)}
Arrays == {p \in Places : node[p].type = "array"}
Open == {stack[i].at : i \in 1 .. Len(stack)}
Finished == phase \notin {"failed", "crashed", "thrown"}
Closed == IF Finished THEN Arrays \ Open ELSE {}
Counted == {p \in Closed : ~node[p].manual}    \* construct_cdt filled these

\* Frames point into the tree and never past an array's end.
TypeOK ==
  /\ phase \in {"start", "building", "built", "walking", "walked",
               "failed", "crashed", "thrown", "refused"}
  /\ \A p \in Places : node[p].type \in Leaves \cup {"array", "root"}
  /\ \A i \in 1 .. Len(stack) : /\ stack[i].at \in Places
                                /\ stack[i].next \in 0 .. node[stack[i].at].len
                                /\ stack[i].found \in Int
  /\ \A i \in 1 .. Len(walk) : walk[i].next \in 0 .. node[walk[i].at].len
  /\ pruned \subseteq Arrays

(***************************************************************************)
(* fixed_dimensions of an array the host called fixed (cdt.h:27-38) and     *)
(* construct_cdt filled: one more than its elements' when they are arrays   *)
(* that agree, and mixed as soon as two differ - whatever was claimed about *)
(* the arrays inside.  Left aside are arrays with an element whose          *)
(* dimensions were never set (INT_MIN), which DimsSound is about.           *)
(***************************************************************************)
DimsExact ==
  \A p \in Counted :
    LET dims == {c.dims : c \in Kids(p)} IN
    /\ node[p].fixed /\ ~node[p].oneD /\ dims # {} /\ IntMin \notin dims
    /\ \A c \in Kids(p) : c.type = "array"
    => node[p].dims = IF \E d \in dims : dims = {d} /\ d # Mixed
                      THEN (CHOOSE d \in dims : TRUE) + 1 ELSE Mixed

(***************************************************************************)
(* A receiver that is told n dimensions of an array construct_cdt filled    *)
(* may index n deep, whatever the host wrote into the arrays it fills       *)
(* itself: if the array is called one-dimensional, none of its elements is  *)
(* an array; otherwise every element is an array of n - 1 dimensions - but  *)
(* for those at the front whose dimensions the host never set.  These are   *)
(* taken for "nothing found yet" (line 440), and a receiver may not index   *)
(* into them; after the first element that has dimensions, one without is   *)
(* a difference and makes the array mixed.                                  *)
(***************************************************************************)
DimsSound ==
  \A p \in Counted : node[p].dims >= 1 =>
    IF node[p].oneD
    THEN \A c \in Kids(p) : c.type # "array"
    ELSE \E n \in 0 .. node[p].len - 1 : \A q \in KidPlaces(p) :
           /\ node[q].type = "array"
           /\ node[q].dims = IF Last(q) < n THEN IntMin ELSE node[p].dims - 1

\* Counting dimensions reads a scalar as an array only if the host called an
\* array with scalars in it, which construct_cdt filled, fixed and not
\* one-dimensional.
CrashNeedsFalseClaim ==
  phase = "crashed" =>
    \E p \in Arrays : /\ node[p].fixed /\ ~node[p].oneD /\ ~node[p].manual
                      /\ \E c \in Kids(p) : c.type # "array"

(***************************************************************************)
(* A traversal reports the elements the host supplied, in the order it      *)
(* supplied them and with their types, each once, leaving out exactly what  *)
(* is inside the arrays whose on_array callback declined.                   *)
(***************************************************************************)
Kept == {k \in DOMAIN order : \A q \in pruned : ~IsStrictPrefix(q, order[k])}
Told == {ik \in (DOMAIN seen) \X Kept : /\ seen[ik[1]].at = order[ik[2]]
                                        /\ seen[ik[1]].type = node[order[ik[2]]].type}
RoundTrip ==
  phase \in {"walking", "walked", "refused"} =>
    LET kept == Kept
        told == Told
        reached == {t[2] : t \in told} IN
    /\ {t[1] : t \in told} = DOMAIN seen
    /\ \A t, u \in told : t[1] < u[1] <=> t[2] < u[2]
    /\ \A k \in kept, l \in reached : k < l => k \in reached
    /\ phase = "walked" => reached = kept

(***************************************************************************)
(* A truthful host's typed array of rank r arrives with r dimensions unless *)
(* an array of arrays in it is empty, and its mixed arrays arrive as mixed, *)
(* whichever of them it fills itself; it never makes the construction fail  *)
(* on its own checks (lines 256 and 422, the default of 480) or crash.      *)
(***************************************************************************)
Full(p) == \A q \in Below(p) \cup {p} : node[q].rank > 1 => node[q].len > 0
TypedDims == truthful =>
  /\ \A p \in Closed : Full(p) => node[p].dims = IF node[p].rank = 0 THEN Mixed ELSE node[p].rank
  /\ phase \notin {"failed", "crashed"}

(***************************************************************************)
(* cdt.h:27-38 and the comment at lines 451-453: fixed_dimensions, where    *)
(* construct_cdt sets it, is a count of dimensions, or -1.                  *)
(***************************************************************************)
DimsDocumented == \A p \in Counted : node[p].dims = Mixed \/ node[p].dims >= 1
==============================================================================
