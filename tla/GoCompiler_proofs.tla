--------------------------- MODULE GoCompiler_proofs ---------------------------
(***************************************************************************)
(* The Go side of a compiler: entity paths (EntityPaths), for any keys, any *)
(* values and any number of sets, and a plugin's handlers (CompilerPlugin), *)
(* for any sources, paths, options and number of installed files.           *)
(*                                                                         *)
(* In both, the invariants are about which map or definition is whose; what *)
(* the other side of the border reads out of the text they are written as   *)
(* follows from what splitting undoes of joining (TextPieces_proofs).       *)
(***************************************************************************)
EXTENDS EntityPaths, CompilerPlugin, TextPieces_proofs

(***************************************************************************)
(* EntityPaths.                                                             *)
(***************************************************************************)
\* A definition read from JSON may come with the value "variable".
PathMaps == [Keys -> Values \cup {Absent, "variable"}]

\* The kinds of the variables.
TypeOK ==
  /\ has \subseteq Callables
  /\ path \in [Callables -> Callables \cup {NilMap}]
  /\ parent \in [Callables -> Classes \cup {Nil}]
  /\ map \in [Callables -> PathMaps]
  /\ own \in [Classes -> PathMaps]
  /\ late \subseteq Callables /\ panicked \in Callables \cup {Nobody}

\* Only the map of a function may be shared, with what was made from it; and
\* the function itself keeps it.
MapsApart ==
  \A c \in has : path[c] \in {c, Function, NilMap}
                 /\ (path[c] = Function => Function \in has /\ path[Function] = Function)

\* Members know their class; what is not there yet is not late.
ParentsKnown == \A c \in has \ {Function} : parent[c] = c[1]
LateAreThere == late \subseteq has

\* A nil map comes from JSON, a shared one from the function.
NilWasGiven == \A c \in has : path[c] = NilMap => c \in given
SharedIsDerived == \A c \in has \ {Function} : path[c] = Function => c \in derived

\* A constructor that is not late, and at which nothing panicked, has what its
\* class has.
ConstructorsHave ==
  \A c \in (has \cap {Constructor}) \ (late \cup {panicked}), k \in Keys :
    own[c[1]][k] # Absent => path[c] # NilMap /\ map[path[c]][k] # Absent

Maps == MapsApart /\ ParentsKnown /\ LateAreThere /\ NilWasGiven /\ SharedIsDerived
PathsInv == TypeOK /\ Maps /\ PanicNeedsNullPath /\ ConstructorsHave

------------------------------------------------------------------------------
(***************************************************************************)
(* The callables, and the values a map may hold.                            *)
(***************************************************************************)
LEMMA CallableFacts ==
  /\ Function \in Callables /\ Constructor \in Callables /\ Releaser \in Callables
  /\ Methods \subseteq Callables /\ NilMap \notin Callables
  /\ Constructor # Function /\ Releaser # Function /\ Constructor # Releaser
  /\ Function \notin Methods /\ Constructor \notin Methods
  /\ \A c \in Callables : c = Function \/ c = Constructor \/ c \in Methods
  /\ \A c \in Callables \ {Function} : c[1] \in Classes
  /\ Function[1] \notin Classes /\ Nil \notin Classes /\ Nobody \notin Callables
<1>1. /\ Function[1] = "module" /\ Constructor[1] = "A" /\ Releaser[1] = "B"
      /\ Method[1] = "A" /\ NilMap[1] = "nil" /\ Nobody[1] = "nobody"
      /\ Constructor[2] = "constructor" /\ Releaser[2] = "releaser" /\ Method[2] = "method"
  BY DEF Function, Constructor, Releaser, Method, NilMap, Nobody
<1> USE DEF Callables, Methods
<1>2. /\ Function \in Callables /\ Constructor \in Callables /\ Releaser \in Callables
      /\ Methods \subseteq Callables
      /\ \A c \in Callables : c = Function \/ c = Constructor \/ c \in Methods
  OBVIOUS
<1>3. /\ NilMap \notin Callables
      /\ Constructor # Function /\ Releaser # Function /\ Constructor # Releaser
      /\ Function \notin Methods /\ Constructor \notin Methods /\ Nobody \notin Callables
  BY <1>1
<1>4. /\ \A c \in Callables \ {Function} : c[1] \in Classes
      /\ Function[1] \notin Classes /\ Nil \notin Classes
  BY <1>1 DEF Classes, Nil
<1> QED
  BY <1>2, <1>3, <1>4

\* Nothing has a value, and no value is absent.
LEMMA PathFacts ==
  /\ Nothing \in PathMaps /\ \A k \in Keys : Nothing[k] = Absent
  /\ \A v \in Values : v # Absent
  BY EntityPathsAssumption DEF Nothing, PathMaps, Absent

\* Initially every callable holds a map of its own or, from JSON, none.
LEMMA PathsInvInit == Init => PathsInv
<1> SUFFICES ASSUME Init PROVE PathsInv
  OBVIOUS
<1>1. panicked = Nobody
  BY DEF Init
<1>2. CASE /\ has = {Releaser} /\ given = {} /\ late = {}
           /\ path = [c \in Callables |-> IF c \in has THEN c ELSE NilMap]
           /\ parent = [c \in Callables |-> IF c \in has THEN c[1] ELSE Nil]
           /\ map = [c \in Callables |-> Nothing] /\ own = [cls \in Classes |-> Nothing]
  <2>0. Releaser[1] \in Classes
    BY CallableFacts
  <2>1. TypeOK
    <3>1. path \in [Callables -> Callables \cup {NilMap}] /\ parent \in [Callables -> Classes \cup {Nil}]
      BY <1>2, <2>0
    <3>2. map \in [Callables -> PathMaps] /\ own \in [Classes -> PathMaps]
      BY <1>2, PathFacts
    <3>3. has \subseteq Callables /\ late \subseteq Callables
      BY <1>2, CallableFacts
    <3> QED
      BY <1>1, <3>1, <3>2, <3>3 DEF TypeOK
  <2>2. Maps
    BY <1>2, CallableFacts DEF Maps, MapsApart, ParentsKnown, LateAreThere, NilWasGiven, SharedIsDerived
  <2>3. ConstructorsHave
    BY <1>2, CallableFacts DEF ConstructorsHave
  <2> QED
    BY <1>1, <2>1, <2>2, <2>3 DEF PathsInv, PanicNeedsNullPath
<1>3. CASE /\ has = Callables
           /\ given \in SUBSET {Function, Method, Constructor}
           /\ own \in [Classes -> {Nothing, [Nothing EXCEPT !["metaffi_guest_lib"] = "variable"]}]
           /\ late = IF own["A"] = Nothing THEN {} ELSE {Constructor}
           /\ path = [c \in Callables |-> IF c \in given THEN NilMap ELSE c]
           /\ parent = [c \in Callables |-> IF c = Function THEN Nil ELSE c[1]]
           /\ map = [c \in Callables |-> Nothing]
  <2>1. Constructor[1] = "A" /\ "A" \in Classes
    BY DEF Constructor, Classes
  <2>2. own \in [Classes -> PathMaps]
    <3>1. [Nothing EXCEPT !["metaffi_guest_lib"] = "variable"] \in PathMaps
      BY PathFacts DEF PathMaps
    <3> QED
      BY <1>3, <3>1, PathFacts
  <2>3. TypeOK
    <3>1. path \in [Callables -> Callables \cup {NilMap}] /\ parent \in [Callables -> Classes \cup {Nil}]
      BY <1>3, CallableFacts
    <3>2. map \in [Callables -> PathMaps]
      BY <1>3, PathFacts
    <3>3. has \subseteq Callables /\ late \subseteq Callables
      BY <1>3, CallableFacts
    <3> QED
      BY <1>1, <2>2, <3>1, <3>2, <3>3 DEF TypeOK
  <2>4. Maps
    BY <1>3, CallableFacts DEF Maps, MapsApart, ParentsKnown, LateAreThere, NilWasGiven, SharedIsDerived
  <2>5. ConstructorsHave
    BY <1>3, <2>1, PathFacts DEF ConstructorsHave
  <2> QED
    BY <1>1, <2>3, <2>4, <2>5 DEF PathsInv, PanicNeedsNullPath
<1> QED
  BY <1>2, <1>3 DEF Init
------------------------------------------------------------------------------
(***************************************************************************)
(* The operations: a callable is added, paths are set, a definition passes  *)
(* as JSON.                                                                 *)
(***************************************************************************)

\* A callable is added over a map of its own or the function's, and nobody's
\* map changes.
LEMMA AddKeeps ==
  ASSUME PathsInv, panicked = Nobody, NEW c \in Callables, NEW m, Add(c, m), c \notin has \ {Releaser},
         m = c \/ (m = path[Function] /\ Function \in has /\ c # Function),
         map' \in [Callables -> PathMaps],
         \A d \in has : path[d] # c => map'[d] = map[d],
         c \in has => map' = map,
         given \ {c} \subseteq given', m = NilMap => c \in given',
         derived \subseteq derived', c # Function /\ m = Function => c \in derived'
  PROVE  PathsInv'
<1>1. /\ has' = has \cup {c} /\ path' = [path EXCEPT ![c] = m]
      /\ parent' = [parent EXCEPT ![c] = IF c = Function THEN Nil ELSE c[1]]
      /\ late' = IF c = Constructor /\ own[c[1]] # Nothing THEN late \cup {c} ELSE late
      /\ UNCHANGED <<own, panicked>>
  BY DEF Add
<1>2. m \in Callables \cup {NilMap}
  BY CallableFacts DEF PathsInv, TypeOK
<1>3. TypeOK'
  BY <1>1, <1>2, CallableFacts DEF PathsInv, TypeOK
<1>4. /\ path'[c] = m /\ \A d \in Callables \ {c} : path'[d] = path[d]
      /\ parent'[c] = (IF c = Function THEN Nil ELSE c[1])
      /\ \A d \in Callables \ {c} : parent'[d] = parent[d]
      /\ has \subseteq Callables
  BY <1>1 DEF PathsInv, TypeOK
<1>5. c = Function => c \notin has
  BY CallableFacts
<1>6. MapsApart'
  BY <1>1, <1>4, <1>5 DEF PathsInv, Maps, MapsApart
<1>7. ParentsKnown' /\ LateAreThere'
  BY <1>1, <1>4 DEF PathsInv, Maps, ParentsKnown, LateAreThere
<1>8. NilWasGiven' /\ SharedIsDerived'
  BY <1>1, <1>4, CallableFacts DEF PathsInv, Maps, NilWasGiven, SharedIsDerived
<1>9. ConstructorsHave'
  <2> SUFFICES ASSUME Constructor \in has', Constructor \notin late', NEW k \in Keys,
                      own[Constructor[1]][k] # Absent
               PROVE  path'[Constructor] # NilMap /\ map'[path'[Constructor]][k] # Absent
    BY <1>1 DEF ConstructorsHave
  <2>1. c # Constructor
    BY <1>1, PathFacts
  <2>2. Constructor \in has /\ Constructor \notin late /\ path'[Constructor] = path[Constructor]
    BY <1>1, <1>4, <2>1, CallableFacts
  <2>3. path[Constructor] # NilMap /\ map[path[Constructor]][k] # Absent
    BY <2>2, CallableFacts DEF PathsInv, ConstructorsHave
  <2>4. path[Constructor] \in has /\ path[path[Constructor]] = path[Constructor]
    BY <2>2, <2>3 DEF PathsInv, Maps, MapsApart
  <2>5. map'[path[Constructor]] = map[path[Constructor]]
    BY <2>4, <2>1, CallableFacts DEF PathsInv, Maps, MapsApart
  <2> QED
    BY <2>2, <2>3, <2>5
<1> QED
  BY <1>1, <1>3, <1>6, <1>7, <1>8, <1>9 DEF PathsInv, Maps, PanicNeedsNullPath

\* Of what comes before a constructor only a function can panic.
LEMMA ConstructorFirst ==
  ASSUME NEW c \in Callables
  PROVE  /\ Before(c, Constructor) => c = Function
         /\ c \notin {Function, Constructor} => Before(Constructor, c)
<1>1. /\ Constructor[1] = "A" /\ Function[1] = "module" /\ Releaser[1] = "B" /\ Method[1] = "A"
      /\ Constructor[2] = "constructor" /\ Method[2] = "method"
  BY DEF Constructor, Function, Releaser, Method
<1>2. c = Function \/ c = Constructor \/ c = Releaser \/ c = Method
  BY CallableFacts DEF Methods
<1>3. Before(c, Constructor) => c = Function
  BY <1>1 DEF Before, Earlier
<1>4. ASSUME c \notin {Function, Constructor} PROVE Before(Constructor, c)
  <2>1. CASE c = Method
    BY <2>1 DEF Before
  <2>2. CASE c = Releaser
    BY <1>1, <2>2 DEF Before, Earlier
  <2> QED
    BY <1>2, <1>4, <2>1, <2>2
<1> QED
  BY <1>3, <1>4

\* Setting a path for some callables, and for the classes they are all of.
LEMMA SetKeeps ==
  ASSUME PathsInv, panicked = Nobody, NEW cs \in SUBSET has, NEW k \in Keys, NEW v \in Values, SetAll(cs, k, v),
         own' \in [Classes -> PathMaps],
         \A j \in Keys : \/ own'[Constructor[1]][j] = own[Constructor[1]][j]
                        \/ /\ j = k /\ Function \notin Unmade(cs)
                           /\ Constructor \in has => Constructor \in cs
  PROVE  PathsInv'
<1>1. /\ map' = [m \in Callables |->
                  IF \E c \in Reached(cs) : path[c] = m THEN [map[m] EXCEPT ![k] = v] ELSE map[m]]
      /\ UNCHANGED <<has, path, parent, late, given, derived>>
  BY DEF SetAll
<1>2. \/ Unmade(cs) = {} /\ panicked' = Nobody
      \/ panicked' \in Unmade(cs) /\ \A d \in Unmade(cs) \ {panicked'} : Before(panicked', d)
  BY DEF SetAll
<1>3. Unmade(cs) \subseteq has /\ has \subseteq Callables /\ \A c \in Unmade(cs) : path[c] = NilMap
  BY DEF Unmade, PathsInv, TypeOK
<1>4. map' \in [Callables -> PathMaps]
  BY <1>1 DEF PathsInv, TypeOK, PathMaps
<1>5. TypeOK'
  BY <1>1, <1>2, <1>3, <1>4 DEF PathsInv, TypeOK
<1>6. Maps'
  BY <1>1 DEF PathsInv, Maps, MapsApart, ParentsKnown, LateAreThere, NilWasGiven, SharedIsDerived
<1>7. PanicNeedsNullPath'
  BY <1>1, <1>2, <1>3 DEF PathsInv, Maps, NilWasGiven, PanicNeedsNullPath
<1>8. ConstructorsHave'
  <2> SUFFICES ASSUME Constructor \in has, Constructor \notin late, Constructor # panicked', NEW j \in Keys,
                      own'[Constructor[1]][j] # Absent
               PROVE  path[Constructor] # NilMap /\ map'[path[Constructor]][j] # Absent
    BY <1>1 DEF ConstructorsHave
  <2>1. CASE own'[Constructor[1]][j] = own[Constructor[1]][j]
    <3>1. path[Constructor] # NilMap /\ map[path[Constructor]][j] # Absent
      BY <2>1, CallableFacts DEF PathsInv, ConstructorsHave
    <3>2. path[Constructor] \in Callables
      BY <3>1, CallableFacts DEF PathsInv, TypeOK
    <3> QED
      BY <1>1, <3>1, <3>2, PathFacts DEF PathsInv, TypeOK, PathMaps
  <2>2. CASE j = k /\ Function \notin Unmade(cs) /\ Constructor \in cs
    <3>1. Constructor \notin Unmade(cs)
      BY <1>2, <1>3, <2>2, ConstructorFirst
    <3>2. Constructor \in Reached(cs)
      BY <1>3, <2>2, <3>1, ConstructorFirst DEF Reached
    <3>3. path[Constructor] # NilMap
      BY <2>2, <3>1 DEF Unmade
    <3>4. path[Constructor] \in Callables
      BY <3>3, CallableFacts DEF PathsInv, TypeOK
    <3>5. map'[path[Constructor]] = [map[path[Constructor]] EXCEPT ![k] = v]
      BY <1>1, <3>2, <3>4
    <3> QED
      BY <2>2, <3>3, <3>4, <3>5, PathFacts DEF PathsInv, TypeOK, PathMaps
  <2> QED
    BY <2>1, <2>2
<1> QED
  BY <1>5, <1>6, <1>7, <1>8 DEF PathsInv

\* Passing a definition as JSON gives every callable a map of its own.
LEMMA PassKeeps == ASSUME PathsInv, PassAsJSON PROVE PathsInv'
<1>1. /\ path' = [c \in Callables |-> IF path[c] = NilMap THEN NilMap ELSE c]
      /\ map' = [c \in Callables |-> IF path[c] = NilMap THEN Nothing ELSE map[path[c]]]
      /\ parent' = [c \in Callables |-> IF c \in has \ {Function} THEN c[1] ELSE Nil]
      /\ UNCHANGED <<has, own, late, given, panicked>> /\ has \subseteq Callables /\ derived' = {}
  BY DEF PassAsJSON, PathsInv, TypeOK
<1>2. TypeOK'
  <2>1. path' \in [Callables -> Callables \cup {NilMap}] /\ parent' \in [Callables -> Classes \cup {Nil}]
    BY <1>1, CallableFacts
  <2>2. map' \in [Callables -> PathMaps]
    BY <1>1, PathFacts DEF PathsInv, TypeOK
  <2> QED
    BY <1>1, <2>1, <2>2 DEF PathsInv, TypeOK
<1>3. MapsApart'
  BY <1>1, CallableFacts DEF PathsInv, Maps, MapsApart
<1>4. ParentsKnown' /\ LateAreThere'
  BY <1>1 DEF PathsInv, Maps, ParentsKnown, LateAreThere
<1>5. NilWasGiven' /\ SharedIsDerived'
  BY <1>1, CallableFacts DEF PathsInv, Maps, NilWasGiven, SharedIsDerived
<1>6. ConstructorsHave'
  BY <1>1, CallableFacts DEF PathsInv, ConstructorsHave
<1> QED
  BY <1>1, <1>2, <1>3, <1>4, <1>5, <1>6 DEF PathsInv, Maps, PanicNeedsNullPath

\* The invariant is inductive.
LEMMA PathsInvStep == PathsInv /\ [Next]_vars => PathsInv'
<1> SUFFICES ASSUME PathsInv, [Next]_vars PROVE PathsInv'
  OBVIOUS
<1>a. /\ has \subseteq Callables /\ map \in [Callables -> PathMaps] /\ own \in [Classes -> PathMaps]
      /\ Constructor[1] \in Classes /\ \A c \in has : path[c] = NilMap \/ path[c] \in has
  BY CallableFacts DEF PathsInv, TypeOK, Maps, MapsApart
<1>1. ASSUME panicked = Nobody, NEW c \in Callables, New(c) PROVE PathsInv'
  <2>1. c \notin has /\ Add(c, c) /\ map' = [map EXCEPT ![c] = Nothing] /\ given' = given /\ derived' = derived
    BY <1>1 DEF New
  <2>2. map' \in [Callables -> PathMaps] /\ \A d \in Callables \ {c} : map'[d] = map[d]
    BY <1>a, <2>1, PathFacts
  <2> QED
    BY <1>1, <1>a, <2>1, <2>2, CallableFacts, AddKeeps
<1>2. ASSUME panicked = Nobody, NEW c \in Callables \ {Function}, NewFromFunction(c) PROVE PathsInv'
  <2>1. /\ c \notin has \ {Releaser} /\ Function \in has /\ Add(c, path[Function]) /\ map' = map
        /\ derived' = derived \cup {c}
        /\ given' = IF Function \in given THEN given \cup {c} ELSE given \ {c}
    BY <1>2 DEF NewFromFunction
  <2>2. path[Function] = NilMap => c \in given'
    BY <2>1 DEF PathsInv, Maps, NilWasGiven
  <2>3. given \ {c} \subseteq given' /\ derived \subseteq derived' /\ c \in derived'
    BY <2>1
  <2> QED
    BY <1>2, <1>a, <2>1, <2>2, <2>3, AddKeeps
<1>3. ASSUME panicked = Nobody, NEW c \in Callables, NEW d \in Callables, Duplicate(c, d) PROVE PathsInv'
  <2> DEFINE e == IF path[d] = NilMap THEN Nothing ELSE map[path[d]]
  <2>1. /\ c \notin has /\ d \in has /\ Add(c, c) /\ map' = [map EXCEPT ![c] = e]
        /\ given' = given /\ derived' = derived
    BY <1>3 DEF Duplicate
  <2>2. e \in PathMaps
    BY <1>a, <2>1, PathFacts
  <2> HIDE DEF e
  <2>3. map' \in [Callables -> PathMaps] /\ \A x \in Callables \ {c} : map'[x] = map[x]
    BY <1>a, <2>1, <2>2
  <2> QED
    BY <1>3, <1>a, <2>1, <2>3, CallableFacts, AddKeeps
<1>4. ASSUME panicked = Nobody, NEW c \in Callables, SetCallable(c) PROVE PathsInv'
  <2>1. PICK k \in Keys, v \in Values : SetAll({c}, k, v)
    BY <1>4 DEF SetCallable
  <2>2. {c} \in SUBSET has /\ own' = own
    BY <1>4 DEF SetCallable
  <2> QED
    BY <1>4, <1>a, <2>1, <2>2, SetKeeps
<1>5. ASSUME panicked = Nobody, NEW cls \in Classes, SetClass(cls) PROVE PathsInv'
  <2>1. PICK k \in Keys, v \in Values : SetAll(Of(cls), k, v) /\ own' = [own EXCEPT ![cls][k] = v]
    BY <1>5 DEF SetClass
  <2>2. Of(cls) \in SUBSET has
    BY DEF Of
  <2>3. own' \in [Classes -> PathMaps]
    BY <1>a, <2>1 DEF PathMaps
  <2>4. Function \notin Unmade(Of(cls))
    BY CallableFacts DEF Unmade, Of
  <2>5. ASSUME NEW j \in Keys
        PROVE  \/ own'[Constructor[1]][j] = own[Constructor[1]][j]
               \/ j = k /\ (Constructor \in has => Constructor \in Of(cls))
    BY <1>a, <2>1 DEF PathMaps, Of
  <2> QED
    BY <1>5, <2>1, <2>2, <2>3, <2>4, <2>5, SetKeeps
<1>6. ASSUME panicked = Nobody, SetModule PROVE PathsInv'
  <2>1. PICK k \in Keys, v \in Values :
          /\ SetAll(has, k, v)
          /\ own' = [cls \in Classes |-> IF \E d \in Unmade(has) : Earlier(d, cls)
                                         THEN own[cls] ELSE [own[cls] EXCEPT ![k] = v]]
    BY <1>6 DEF SetModule
  <2>2. own' \in [Classes -> PathMaps]
    BY <1>a, <2>1 DEF PathMaps
  <2>3. ASSUME Function \in Unmade(has) PROVE own'[Constructor[1]] = own[Constructor[1]]
    BY <1>a, <2>1, <2>3 DEF Earlier
  <2>4. \A j \in Keys : own'[Constructor[1]][j] = own[Constructor[1]][j] \/ j = k
    BY <1>a, <2>1 DEF PathMaps
  <2> QED
    BY <1>6, <2>1, <2>2, <2>3, <2>4, SetKeeps
<1>7. CASE UNCHANGED vars
  BY <1>7 DEF vars, PathsInv, TypeOK, Maps, MapsApart, ParentsKnown, LateAreThere, NilWasGiven, SharedIsDerived,
              PanicNeedsNullPath, ConstructorsHave
<1> QED
  BY <1>1, <1>2, <1>3, <1>4, <1>5, <1>6, <1>7, PassKeeps DEF Next
------------------------------------------------------------------------------
\* Maps, parents and inherited paths are always as described above.
THEOREM PathsInvariant == Spec => []PathsInv
  BY PathsInvInit, PathsInvStep, PTL DEF Spec

\* Writing a path panics only at a callable that came from JSON without an
\* entity_path, or that was made from such a function
\* (compiler/go/IDL/FunctionDefinition.go).
THEOREM PanicsComeFromJSON == Spec => []PanicNeedsNullPath
<1>1. PathsInv => PanicNeedsNullPath
  BY DEF PathsInv
<1> QED
  BY <1>1, PathsInvariant, PTL

\* What is set on a class is written for everything in it but for a
\* constructor that came later (compiler/go/IDL/MethodDefinition.go).
THEOREM ClassPathsAreWritten == Spec => []ClassPathsReach
<1>1. PathsInv => ClassPathsReach
  <2> SUFFICES ASSUME PathsInv, NEW c \in has \ ({Function} \cup late \cup ({panicked} \ Methods)),
                      NEW k \in Keys, own[c[1]][k] # Absent
               PROVE  Value(c, k) # Absent
    BY DEF ClassPathsReach
  <2>1. c \in Callables /\ parent[c] = c[1] /\ c[1] \in Classes
    BY CallableFacts DEF PathsInv, TypeOK, Maps, ParentsKnown
  <2>2. Value(c, k) # Absent
    <3>1. CASE c \in Methods
      <4>1. Inherited(c) = own[c[1]]
        BY <2>1, <3>1, CallableFacts DEF Inherited
      <4> QED
        BY <4>1 DEF Value
    <3>2. CASE c \notin Methods
      <4>1. c = Constructor /\ c # panicked
        BY <2>1, <3>2, CallableFacts
      <4>2. path[c] # NilMap /\ map[path[c]][k] # Absent
        BY <4>1 DEF PathsInv, ConstructorsHave
      <4> QED
        BY <4>2 DEF Value, Held
    <3> QED
      BY <3>1, <3>2
  <2> QED
    BY <2>2
<1> QED
  BY <1>1, PathsInvariant, PTL

\* Setting a path for a class changes nobody outside it but, if a member was
\* made from the function since the definition was last passed as JSON, the
\* function and what was made from it (compiler/go/IDL/ClassDefinition.go).
THEOREM ClassPathsStayInside == Spec => SetsStayInside
<1> DEFINE Inside == \A cls \in Classes : SetClass(cls) =>
                       \A c \in has \ Of(cls) : Held(c)' # Held(c) =>
                         /\ c \in derived \cup {Function}
                         /\ Of(cls) \cap derived # {}
<1>1. PathsInv /\ [Next]_vars => Inside
  <2> SUFFICES ASSUME PathsInv, NEW cls \in Classes, SetClass(cls), NEW c \in has \ Of(cls), Held(c)' # Held(c)
               PROVE  c \in derived \cup {Function} /\ Of(cls) \cap derived # {}
    OBVIOUS
  <2>1. PICK k \in Keys, v \in Values : SetAll(Of(cls), k, v)
    BY DEF SetClass
  <2>2. /\ path' = path /\ Of(cls) \subseteq has /\ Reached(Of(cls)) \subseteq Of(cls)
        /\ map' = [m \in Callables |-> IF \E d \in Reached(Of(cls)) : path[d] = m
                                       THEN [map[m] EXCEPT ![k] = v] ELSE map[m]]
    BY <2>1 DEF SetAll, Of, Reached
  <2>3. path[c] # NilMap /\ map'[path[c]] # map[path[c]]
    BY <2>2 DEF Held
  <2>4. path[c] \in Callables
    BY <2>3, CallableFacts DEF PathsInv, TypeOK
  <2>5. PICK d \in Of(cls) : path[d] = path[c]
    BY <2>2, <2>3, <2>4
  <2>6. path[c] = Function /\ path[d] = Function
    BY <2>2, <2>3, <2>5 DEF PathsInv, Maps, MapsApart
  <2>7. d # Function
    BY CallableFacts DEF Of
  <2> QED
    BY <2>2, <2>5, <2>6, <2>7 DEF PathsInv, Maps, SharedIsDerived
<1> HIDE DEF Inside
<1>2. Spec => [][Inside]_vars
  BY <1>1, PathsInvariant, PTL DEF Spec
<1> QED
  BY <1>2 DEF Inside, SetsStayInside

(***************************************************************************)
(* The half of PathsArrive that is about maps: what EntityPathAsString      *)
(* spells for a key is the callable's value, or else its class's.           *)
(***************************************************************************)
SaidIsWritten == \A c \in has : Says(c) = [k \in Written(c) |-> Value(c, k)]

LEMMA ValuesSaid == PathsInv => SaidIsWritten
<1> SUFFICES ASSUME PathsInv, NEW c \in has, NEW k \in Written(c)
             PROVE  (IF Held(c)[k] # Absent THEN Held(c)[k]
                     ELSE IF c \in Methods THEN own[c[1]][k] ELSE Absent) = Value(c, k)
  BY DEF SaidIsWritten, Says
<1>1. k \in Keys
  BY EntityPathsAssumption DEF Written
<1>2. CASE c \in Methods
  <2>1. parent[c] = c[1] /\ parent[c] # Nil
    BY <1>2, CallableFacts DEF PathsInv, TypeOK, Maps, ParentsKnown
  <2> QED
    BY <1>2, <2>1 DEF Value, Inherited
<1>3. CASE c \notin Methods
  BY <1>1, <1>3, PathFacts DEF Value, Inherited
<1> QED
  BY <1>2, <1>3

\* The values written are those the definition says, whatever was shared,
\* duplicated or passed as JSON (compiler/go/IDL/MethodDefinition.go).
THEOREM ValuesAreSaid == Spec => []SaidIsWritten
  BY ValuesSaid, PathsInvariant, PTL

(***************************************************************************)
(* The other half is about text.                                            *)
(***************************************************************************)

\* A value that is said is one that may be set, or Absent.
LEMMA ValuesKnown ==
  ASSUME PathsInv, NEW c \in has, NEW k \in Keys
  PROVE  Value(c, k) \in {"empty", "variable", "pair", "list", "absent"}
<1>1. \A p \in PathMaps : p[k] \in {"empty", "variable", "pair", "list", "absent"}
  BY EntityPathsAssumption DEF PathMaps, Absent
<1>2. Held(c) \in PathMaps
  BY PathFacts DEF Held, PathsInv, TypeOK
<1>3. Inherited(c) \in PathMaps
  BY PathFacts DEF Inherited, PathsInv, TypeOK
<1> QED
  BY <1>1, <1>2, <1>3 DEF Value

\* What is spelled has a comma for a list only, an equals sign for a pair.
Letters == {",", "=", "$V", "/x", "x", "y", "name_MetaFFIGuest"}
LEMMA SpellingFacts ==
  \A v \in {"empty", "variable", "pair", "absent"} :
    /\ Spelling[v] \in Seq(Letters)
    /\ Plain(Spelling[v], ",")
    /\ Plain(Spelling[v], "=") <=> v # "pair"
<1>1. /\ Spelling["empty"] = << >> /\ Spelling["variable"] = <<"$V", "/x">>
      /\ Spelling["pair"] = <<"x", "=", "y">> /\ Spelling["absent"] = <<"name_MetaFFIGuest">>
  BY DEF Spelling
<1>2. /\ << >> \in Seq(Letters) /\ <<"$V", "/x">> \in Seq(Letters)
      /\ <<"x", "=", "y">> \in Seq(Letters) /\ <<"name_MetaFFIGuest">> \in Seq(Letters)
  BY DEF Letters
<1>3. /\ Plain(Spelling["empty"], ",") /\ Plain(Spelling["variable"], ",")
      /\ Plain(Spelling["pair"], ",") /\ Plain(Spelling["absent"], ",")
  <2>1. \A sep : Plain(<< >>, sep)
    BY DEF Plain
  <2>2. \A a, sep : a # sep => Plain(<<a>>, sep)
    BY DEF Plain
  <2>3. \A a, b, sep : a # sep /\ b # sep => Plain(<<a, b>>, sep)
    BY DEF Plain
  <2>4. \A a, b, c, sep : a # sep /\ b # sep /\ c # sep => Plain(<<a, b, c>>, sep)
    BY DEF Plain
  <2>5. "$V" # "," /\ "/x" # "," /\ "x" # "," /\ "=" # "," /\ "y" # "," /\ "name_MetaFFIGuest" # ","
    OBVIOUS
  <2>6. Plain(<<"name_MetaFFIGuest">>, ",") /\ Plain(<<"$V", "/x">>, ",") /\ Plain(<<"x", "=", "y">>, ",")
    BY <2>2, <2>3, <2>4, <2>5, Zenon
  <2> QED
    BY <1>1, <2>1, <2>6
<1>4. Plain(Spelling["empty"], "=") /\ Plain(Spelling["variable"], "=") /\ Plain(Spelling["absent"], "=")
  BY <1>1 DEF Plain
<1>5. ~Plain(Spelling["pair"], "=")
  <2>1. 2 \in 1 .. Len(<<"x", "=", "y">>) /\ <<"x", "=", "y">>[2] = "="
    OBVIOUS
  <2> QED
    BY <1>1, <2>1, Zenon DEF Plain
<1>6. "variable" # "pair" /\ "empty" # "pair" /\ "absent" # "pair"
  OBVIOUS
<1> QED
  BY <1>1, <1>2, <1>3, <1>4, <1>5, <1>6, Zenon

\* The parser reads what was written: each key with its text expanded, or it
\* throws, if there is an equals sign in one.
LEMMA ParsePairs ==
  ASSUME NEW P, NEW m, Writable(m, P), NEW isSet
  PROVE  Parse(Pairs(m), isSet) =
           IF \E k \in DOMAIN m : ~Plain(m[k], "=") THEN Throws
           ELSE [p \in {<<k>> : k \in DOMAIN m} |-> ExpandEnv(m[p[1]], isSet)]
<1> DEFINE K == DOMAIN m
           items == Split(Pairs(m), ",")
           kv == [i \in {j \in DOMAIN items : items[j] # << >>} |-> Split(items[i], "=")]
           final(k) == kv[LastWith(kv, k)]
           read == [k \in {kv[i][1] : i \in DOMAIN kv} |->
                      IF Len(final(k)) = 2 THEN ExpandEnv(final(k)[2], isSet) ELSE << >>]
<1>1. {j \in DOMAIN items : items[j] # << >>} = DOMAIN items
  BY SplitPairs
<1>2. Cuts(kv, m)
  BY <1>1 DEF Cuts
<1>3. Parse(Pairs(m), isSet) = IF \E i \in DOMAIN kv : Len(kv[i]) > 2 THEN Throws ELSE read
  BY DEF Parse
<1> HIDE DEF kv
<1>4. CASE \E k \in K : ~Plain(m[k], "=")
  <2>1. \E i \in DOMAIN kv : Len(kv[i]) > 2
    BY <1>2, <1>4, PairsRead
  <2> QED
    BY <1>3, <1>4, <2>1, Zenon
<1>5. CASE \A k \in K : Plain(m[k], "=")
  <2>1. ReadBack(kv, K, m)
    BY <1>2, <1>5, PairsRead
  <2>2. {kv[i][1] : i \in DOMAIN kv} = {<<k>> : k \in K}
    BY <2>1, Zenon DEF ReadBack
  <2>3. \A k \in K : final(<<k>>) = << <<k>>, m[k] >>
    BY <2>1, Zenon DEF ReadBack
  <2>4. ~ \E i \in DOMAIN kv : Len(kv[i]) > 2
    BY <2>1, NoMoreThanTwo, Zenon DEF ReadBack
  <2> HIDE DEF final
  <2>5. read = [p \in {<<k>> : k \in K} |-> ExpandEnv(m[p[1]], isSet)]
    <3>1. ASSUME NEW p \in {<<k>> : k \in K}
          PROVE  (IF Len(final(p)) = 2 THEN ExpandEnv(final(p)[2], isSet) ELSE << >>)
                   = ExpandEnv(m[p[1]], isSet)
      <4>1. PICK k \in K : p = <<k>>
        OBVIOUS
      <4>2. p[1] = k
        BY <4>1
      <4>3. final(p) = <<p, m[k]>>
        BY <2>3, <4>1, Zenon
      <4>4. Len(final(p)) = 2 /\ final(p)[2] = m[k]
        BY <4>3, TwoParts
      <4> QED
        BY <4>2, <4>4, Zenon
    <3> QED
      BY <2>2, <3>1, Zenon
  <2> QED
    BY <1>3, <1>5, <2>4, <2>5, Zenon
<1> QED
  BY <1>4, <1>5, Zenon

\* What the plugin reads is what the definition says, or a refusal, unless a
\* value has a comma in it (utils/entity_path_parser.cpp,
\* compiler/go/IDL/FunctionDefinition.go).
THEOREM PathsReachThePlugin == Spec => []PathsArrive
<1>1. ASSUME PathsInv PROVE PathsArrive
  <2> SUFFICES ASSUME NEW c \in has, NEW isSet \in BOOLEAN, "list" \notin {Says(c)[k] : k \in DOMAIN Says(c)}
               PROVE  Parse(EntityPathAsString(c), isSet) =
                        IF "pair" \in {Says(c)[k] : k \in DOMAIN Says(c)} THEN Throws
                        ELSE [p \in {<<k>> : k \in DOMAIN Says(c)} |-> ExpandEnv(Spelling[Says(c)[p[1]]], isSet)]
    BY Zenon DEF PathsArrive
  <2> DEFINE K == Written(c)
             m == [k \in K |-> Spelling[Value(c, k)]]
             P == Letters \cup Keys
  <2>1. /\ K \subseteq Keys /\ K # {} /\ IsFiniteSet(K) /\ K \cap {",", "="} = {}
    <3>1. K \subseteq Keys /\ K # {}
      BY EntityPathsAssumption DEF Written
    <3>2. IsFiniteSet(K)
      BY <3>1, EntityPathsAssumption, FS_Subset
    <3> QED
      BY <3>1, <3>2, EntityPathsAssumption
  <2>2. Says(c) = [k \in K |-> Value(c, k)]
    BY <1>1, ValuesSaid DEF SaidIsWritten
  <2>3. DOMAIN Says(c) = K /\ \A k \in K : Says(c)[k] = Value(c, k)
    BY <2>2
  <2>4. \A k \in K : Value(c, k) \in {"empty", "variable", "pair", "absent"}
    BY <1>1, <2>1, <2>3, ValuesKnown
  <2>5. EntityPathAsString(c) = Pairs(m)
    BY DEF EntityPathAsString
  <2> HIDE DEF K
  <2>6. DOMAIN m = K /\ \A k \in K : m[k] = Spelling[Value(c, k)]
    OBVIOUS
  <2> HIDE DEF m
  <2>7. \A k \in K : /\ m[k] \in Seq(P) /\ Plain(m[k], ",")
                     /\ Plain(m[k], "=") <=> Value(c, k) # "pair"
    <3>1. \A s \in Seq(Letters) : s \in Seq(P)
      BY SeqMonotonic, Zenon
    <3> QED
      BY <2>4, <2>6, <3>1, SpellingFacts, Zenon
  <2>8. "," \in P /\ "=" \in P /\ K \subseteq P
    BY <2>1 DEF Letters
  <2> HIDE DEF P
  <2>9. Parse(Pairs(m), isSet) =
          IF \E k \in K : ~Plain(m[k], "=") THEN Throws
          ELSE [p \in {<<k>> : k \in K} |-> ExpandEnv(m[p[1]], isSet)]
    <3>1. Writable(m, P)
      BY <2>1, <2>6, <2>7, <2>8 DEF Writable
    <3> QED
      BY <2>6, <3>1, ParsePairs
  <2>10. (\E k \in K : ~Plain(m[k], "=")) <=> "pair" \in {Says(c)[k] : k \in DOMAIN Says(c)}
    BY <2>3, <2>7, Zenon
  <2>11. \A p \in {<<k>> : k \in K} : m[p[1]] = Spelling[Says(c)[p[1]]]
    BY <2>3, <2>6
  <2>12. [p \in {<<k>> : k \in K} |-> ExpandEnv(m[p[1]], isSet)]
           = [p \in {<<k>> : k \in DOMAIN Says(c)} |-> ExpandEnv(Spelling[Says(c)[p[1]]], isSet)]
    BY <2>3, <2>11, Zenon
  <2> QED
    BY <2>5, <2>9, <2>10, <2>12, Zenon
<1> QED
  BY <1>1, PathsInvariant, PTL
------------------------------------------------------------------------------
(***************************************************************************)
(* CompilerPlugin.  The first half of SilenceIsSuccess is about the call    *)
(* that returned last, the second about what the compiler believes it has   *)
(* parsed; a call that sleeps was made with a definition that it keeps.     *)
(***************************************************************************)
LastDid == ~out_err /\ ~died /\ last.call # Null => last.did
Believed == asked # Null => json = asked
SleepsOnAsked == asleep # NoCall => asked # Null /\ asleep.idl = json /\ plugin

PluginInv == LastDid /\ Believed /\ SleepsOnAsked

\* Nothing was called, asked or put to sleep.
LEMMA PluginInvInit == PluginInit => PluginInv
  BY DEF PluginInit, PluginInv, LastDid, Believed, SleepsOnAsked

\* What a call that ended leaves behind.
LEMMA EndsWith ==
  ASSUME NEW call, NEW did, NEW file, Returns(call, did, file)
  PROVE  last'.call = call /\ last'.did = did
  BY DEF Returns

\* A compilation that fails says so.
LEMMA CompileTells ==
  ASSUME NEW side, NEW call, Compile(side, call) PROVE out_err' \/ last'.did
<1>1. ASSUME out_err' = TRUE PROVE out_err' \/ last'.did
  BY <1>1
<1>2. ASSUME NEW kind, Returns("compile", TRUE, FileWritten(call, kind)) PROVE out_err' \/ last'.did
  BY <1>2, EndsWith
<1> QED
  BY <1>1, <1>2 DEF Compile

\* Each operation, by what it does to the three.
LEMMA PluginInvStep == PluginInv /\ [PluginNext]_pluginVars => PluginInv'
<1> SUFFICES ASSUME PluginInv, [PluginNext]_pluginVars PROVE PluginInv'
  OBVIOUS
<1> USE DEF registered
<1>1. CASE Install \/ LoadPlugin \/ Register
  BY <1>1 DEF Install, LoadPlugin, Register, PluginInv, LastDid, Believed, SleepsOnAsked
<1>2. CASE WakeUp
  <2>1. asleep' = NoCall /\ UNCHANGED <<asked, json>> /\ Compile("host", asleep)
    BY <1>2 DEF WakeUp
  <2>2. LastDid'
    BY <2>1, CompileTells DEF LastDid
  <2> QED
    BY <2>1, <2>2 DEF PluginInv, Believed, SleepsOnAsked
<1>3. CASE Clear
  <2>1. last'.call = Null /\ UNCHANGED <<registered, asked, json, asleep>>
    BY <1>3, EndsWith DEF Clear, Ends
  <2> QED
    BY <2>1 DEF PluginInv, LastDid, Believed, SleepsOnAsked
<1>4. CASE asleep = NoCall /\ ParseIDL
  <2>1. SleepsOnAsked'
    BY <1>4 DEF ParseIDL, SleepsOnAsked
  <2>2. ASSUME NEW s \in Sources, json' = s, Ends("parse", TRUE), asked' = IF out_err' THEN Null ELSE s
        PROVE  LastDid' /\ Believed'
    BY <2>2, EndsWith DEF Ends, LastDid, Believed
  <2>3. ASSUME NEW s \in Sources, out_err' = TRUE, asked' = IF out_err' THEN Null ELSE s
        PROVE  LastDid' /\ Believed'
    BY <2>3 DEF LastDid, Believed
  <2>4. ASSUME died' = TRUE, UNCHANGED <<asked, json, out_err>> PROVE LastDid' /\ Believed'
    BY <2>4 DEF PluginInv, LastDid, Believed
  <2>5. LastDid' /\ Believed'
    BY <1>4, <2>2, <2>3, <2>4 DEF ParseIDL
  <2> QED
    BY <2>1, <2>5 DEF PluginInv
<1>5. CASE asleep = NoCall /\ CompileToGuest
  <2>1. UNCHANGED <<asked, json, asleep>> /\ \E call \in Calls : Compile("guest", call)
    BY <1>5 DEF CompileToGuest
  <2>2. LastDid'
    BY <2>1, CompileTells DEF LastDid
  <2> QED
    BY <1>5, <2>1, <2>2 DEF PluginInv, Believed, SleepsOnAsked
<1>6. CASE CompileFromHost
  <2>1. last'.call = Null /\ UNCHANGED <<registered, asked, json>> /\ Ready /\ asleep' \in Calls
    BY <1>6, EndsWith DEF CompileFromHost, Ends
  <2>2. asleep'.idl = json
    BY <2>1 DEF Calls
  <2> QED
    BY <2>1, <2>2 DEF PluginInv, LastDid, Believed, SleepsOnAsked, Ready
<1>7. CASE UNCHANGED pluginVars
  BY <1>7 DEF pluginVars, PluginInv, LastDid, Believed, SleepsOnAsked
<1> QED
  BY <1>1, <1>2, <1>3, <1>4, <1>5, <1>6, <1>7 DEF PluginNext

\* A call that says nothing has done its work, the definition the compiler
\* uses is that of the source it asked for, and so is the one a sleeping call
\* will compile.
THEOREM PluginInvariant == PluginSpec => []PluginInv
  BY PluginInvInit, PluginInvStep, PTL DEF PluginSpec

\* A call that leaves out_err unset has done its work
\* (compiler/go/IDLPluginInterfaceHandler.go, LanguagePluginInterfaceHandler.go).
THEOREM SilenceMeansSuccess == PluginSpec => []SilenceIsSuccess
<1>1. PluginInv => SilenceIsSuccess
  BY DEF PluginInv, LastDid, Believed, SilenceIsSuccess
<1> QED
  BY <1>1, PluginInvariant, PTL

(***************************************************************************)
(* Files.  The one written last is what the two compile functions make of   *)
(* a call and of what os.Stat said, neither of which they refused.          *)
(***************************************************************************)
Proper(call) == call.idl # ":" /\ call.path \in Paths /\ call.opts \in Options
Done(call, kind) ==
  /\ Proper(call) /\ kind \in Kinds(call.path)
  /\ ~PathRefused(call.path, kind) /\ ~OptionsRefused(Pairs(call.opts))
  /\ output = FileWritten(call, kind)

JsonKnown == json \in Sources \cup {Null}
SleepsProperly == asleep # NoCall => Proper(asleep)
OutputIsDone == output # NoOutput => Done(output.call, output.kind)

OutputInv == JsonKnown /\ SleepsProperly /\ OutputIsDone

\* No file is written yet.
LEMMA OutputInvInit == PluginInit => OutputInv
  BY DEF PluginInit, OutputInv, JsonKnown, SleepsProperly, OutputIsDone

\* A compilation leaves the file that was asked for, or none.
LEMMA CompileWrites ==
  ASSUME NEW side, NEW call, Proper(call), Compile(side, call) PROVE OutputIsDone'
<1>1. CASE output' = NoOutput
  BY <1>1 DEF OutputIsDone
<1>2. ASSUME NEW kind \in Kinds(call.path), ~Refused(side, call, kind), output' = FileWritten(call, kind)
      PROVE  OutputIsDone'
  <2>1. output'.call = call /\ output'.kind = kind
    BY <1>2 DEF FileWritten
  <2>2. ~PathRefused(call.path, kind) /\ ~OptionsRefused(Pairs(call.opts))
    BY <1>2 DEF Refused
  <2> QED
    BY <1>2, <2>1, <2>2 DEF OutputIsDone, Done, Proper
<1>3. output' = NoOutput \/ \E kind \in Kinds(call.path) :
                              ~Refused(side, call, kind) /\ output' = FileWritten(call, kind)
  BY DEF Compile, Ends, Returns
<1> QED
  BY <1>1, <1>2, <1>3

\* What ends otherwise leaves no file.
LEMMA EndsWithout == ASSUME NEW call, NEW did, Ends(call, did) PROVE OutputIsDone'
  BY DEF Ends, Returns, OutputIsDone

\* Calls are made with known paths and options, and no definition is named ":".
LEMMA CallsProper == ASSUME JsonKnown, NEW call \in Calls PROVE Proper(call)
  BY CompilerPluginAssumption DEF JsonKnown, Calls, Proper, Null

LEMMA OutputInvStep == OutputInv /\ [PluginNext]_pluginVars => OutputInv'
<1> SUFFICES ASSUME OutputInv, [PluginNext]_pluginVars PROVE OutputInv'
  OBVIOUS
<1> USE DEF OutputInv
<1>1. CASE Install \/ LoadPlugin \/ Register \/ UNCHANGED pluginVars
  <2>1. UNCHANGED <<json, asleep, output>>
    BY <1>1 DEF Install, LoadPlugin, Register, pluginVars
  <2> QED
    BY <2>1 DEF JsonKnown, SleepsProperly, OutputIsDone, Done, Proper
<1>2. CASE WakeUp
  <2>1. asleep # NoCall /\ asleep' = NoCall /\ UNCHANGED json /\ Compile("host", asleep)
    BY <1>2 DEF WakeUp
  <2>2. Proper(asleep)
    BY <2>1 DEF SleepsProperly
  <2>3. OutputIsDone'
    BY <2>1, <2>2, CompileWrites
  <2> QED
    BY <2>1, <2>3 DEF JsonKnown, SleepsProperly
<1>3. CASE Clear
  <2>1. UNCHANGED <<json, asleep>> /\ OutputIsDone'
    BY <1>3, EndsWithout DEF Clear
  <2> QED
    BY <2>1 DEF JsonKnown, SleepsProperly, Proper
<1>4. CASE ParseIDL
  <2>1. UNCHANGED asleep /\ JsonKnown'
    BY <1>4 DEF ParseIDL, JsonKnown, registered
  <2>2. OutputIsDone'
    BY <1>4, EndsWithout DEF ParseIDL
  <2> QED
    BY <2>1, <2>2 DEF SleepsProperly, Proper
<1>5. CASE CompileToGuest
  <2>1. UNCHANGED <<json, asleep>> /\ \E call \in Calls : Compile("guest", call)
    BY <1>5 DEF CompileToGuest
  <2>2. OutputIsDone'
    BY <2>1, CallsProper, CompileWrites
  <2> QED
    BY <2>1, <2>2 DEF JsonKnown, SleepsProperly, Proper
<1>6. CASE CompileFromHost
  <2>1. UNCHANGED json /\ asleep' \in Calls /\ OutputIsDone'
    BY <1>6, EndsWithout DEF CompileFromHost
  <2>2. Proper(asleep')
    BY <2>1, CallsProper
  <2> QED
    BY <2>1, <2>2 DEF JsonKnown, SleepsProperly, Proper
<1> QED
  BY <1>1, <1>2, <1>3, <1>4, <1>5, <1>6 DEF PluginNext

\* The file written last is what its call and os.Stat make of it, of a call
\* that was not refused.
THEOREM OutputInvariant == PluginSpec => []OutputInv
  BY OutputInvInit, OutputInvStep, PTL DEF PluginSpec

\* Options that are not refused are read as they were meant, if none has a comma.
LEMMA OptionsRead ==
  ASSUME NEW o \in Options, ~OptionsRefused(Pairs(o)), \A k \in DOMAIN o : Plain(o[k], ",")
  PROVE  OptionsMap(Pairs(o)) = [p \in {<<k>> : k \in DOMAIN o} |-> o[p[1]]]
<1> DEFINE kv == KeyVals(Pairs(o))
           read == [k \in {kv[i][1] : i \in DOMAIN kv} |-> kv[LastWith(kv, k)][2]]
           meant == [p \in {<<k>> : k \in DOMAIN o} |-> o[p[1]]]
<1>1. OptionsMap(Pairs(o)) = read
  BY DEF OptionsMap
<1>2. \A i \in DOMAIN kv : Len(kv[i]) = 2
  BY DEF OptionsRefused
<1>3. CASE DOMAIN o = {}
  <2>1. Pairs(o) = << >>
    BY <1>3, PairsOfNothing
  <2>2. kv = << >>
    BY <2>1 DEF KeyVals
  <2> HIDE DEF kv
  <2>3. DOMAIN kv = {}
    BY <2>2, NoIndex, Zenon
  <2>4. {kv[i][1] : i \in DOMAIN kv} = {} /\ {<<k>> : k \in DOMAIN o} = {}
    BY <1>3, <2>3
  <2>5. read = meant
    BY <2>4
  <2> QED
    BY <1>1, <2>5
<1>4. CASE DOMAIN o # {}
  <2> DEFINE P == STRING \cup {",", "="}
  <2>1. Writable(o, P)
    <3>1. IsFiniteSet(DOMAIN o) /\ DOMAIN o \cap {",", "="} = {}
          /\ \A k \in DOMAIN o : k \in STRING /\ o[k] \in Seq(STRING)
      BY CompilerPluginAssumption
    <3>2. \A s \in Seq(STRING) : s \in Seq(P)
      BY SeqMonotonic, Zenon
    <3>3. "," \in P /\ "=" \in P /\ DOMAIN o \subseteq P
      BY <3>1
    <3> HIDE DEF P
    <3> QED
      BY <1>4, <3>1, <3>2, <3>3, Zenon DEF Writable
  <2> HIDE DEF P
  <2>2. Pairs(o) # << >> /\ DOMAIN Split(Pairs(o), ",") = 1 .. Len(Split(Pairs(o), ","))
    BY <2>1, SplitPairs
  <2>3. kv = [i \in 1 .. Len(Split(Pairs(o), ",")) |-> Split(Split(Pairs(o), ",")[i], "=")]
    BY <2>2 DEF KeyVals
  <2> HIDE DEF kv
  <2>4. Cuts(kv, o)
    BY <2>2, <2>3 DEF Cuts
  <2>5. \A k \in DOMAIN o : Plain(o[k], "=")
    <3>1. ~ \E i \in DOMAIN kv : Len(kv[i]) > 2
      BY <1>2, NoMoreThanTwo, Zenon
    <3> QED
      BY <2>1, <2>4, <3>1, PairsRead
  <2>6. ReadBack(kv, DOMAIN o, o)
    BY <2>1, <2>4, <2>5, PairsRead
  <2>7. {kv[i][1] : i \in DOMAIN kv} = {<<k>> : k \in DOMAIN o}
    BY <2>6, Zenon DEF ReadBack
  <2>8. ASSUME NEW p \in {<<k>> : k \in DOMAIN o} PROVE kv[LastWith(kv, p)][2] = o[p[1]]
    <3>1. PICK k \in DOMAIN o : p = <<k>>
      OBVIOUS
    <3>2. p[1] = k
      BY <3>1
    <3> DEFINE w == kv[LastWith(kv, p)]
    <3>3. w = <<p, o[k]>>
      BY <2>6, <3>1, Zenon DEF ReadBack
    <3> HIDE DEF w
    <3>4. w[2] = o[k]
      BY <3>3, TwoParts
    <3> QED
      BY <3>2, <3>4, Zenon DEF w
  <2>9. read = meant
    BY <2>7, <2>8, Zenon
  <2> QED
    BY <1>1, <2>9
<1> QED
  BY <1>3, <1>4

\* What the compiler behind a plugin is given is what was meant
\* (compiler/go/LanguagePluginInterfaceHandler.go).
THEOREM OptionsReachTheCompiler == PluginSpec => []OptionsArrive
<1>1. ASSUME OutputInv PROVE OptionsArrive
  <2> DEFINE o == output.call.opts
  <2>1. SUFFICES ASSUME output # NoOutput, \A k \in DOMAIN o : "," \notin ToSet(o[k])
                 PROVE  output.options = [p \in {<<k>> : k \in DOMAIN o} |-> o[p[1]]]
    BY Zenon DEF OptionsArrive
  <2>2. Done(output.call, output.kind)
    BY <1>1, <2>1 DEF OutputInv, OutputIsDone
  <2>3. o \in Options /\ ~OptionsRefused(Pairs(o)) /\ output.options = OptionsMap(Pairs(o))
    BY <2>2 DEF Done, Proper, FileWritten
  <2> HIDE DEF o
  <2>4. \A k \in DOMAIN o : Plain(o[k], ",")
    <3>1. \A k \in DOMAIN o : o[k] \in Seq(STRING)
      BY <2>3, CompilerPluginAssumption
    <3>2. ASSUME NEW k \in DOMAIN o PROVE Plain(o[k], ",")
      <4>1. DOMAIN o[k] = 1 .. Len(o[k])
        BY <3>1
      <4>2. "," \notin {o[k][i] : i \in DOMAIN o[k]}
        BY <2>1, Zenon DEF ToSet
      <4> QED
        BY <4>1, <4>2, Zenon DEF Plain
    <3> QED
      BY <3>2
  <2> QED
    BY <2>3, <2>4, OptionsRead
<1> QED
  BY <1>1, OutputInvariant, PTL

(***************************************************************************)
(* Where a file is written.                                                 *)
(***************************************************************************)
At(dir, file) == IF dir = << >> THEN file ELSE dir \o <<"/">> \o file

\* In a directory, under the name of the source.
LEMMA InDirectory ==
  ASSUME NEW P, NEW p \in Seq(P), NEW kind \in Kinds(p), AsDirectory(kind), NEW def
  PROVE  At(OutDir(p, kind), OutFile(p, kind, def)) = p \o <<"/", def>>
<1>1. p # << >>
  BY DEF Kinds, AsDirectory
<1>2. OutDir(p, kind) = p /\ OutFile(p, kind, def) = <<def>>
  BY DEF OutDir, OutFile
<1> DEFINE Q == P \cup {"/", def}
<1>3. p \in Seq(Q)
  BY SeqMonotonic, Zenon
<1>4. "/" \in Q /\ def \in Q
  OBVIOUS
<1> HIDE DEF Q
<1>5. p \o <<"/">> \o <<def>> = p \o <<"/", def>>
  BY <1>3, <1>4, TwoMore, Zenon
<1> QED
  BY <1>1, <1>2, <1>5, Zenon DEF At

\* Elsewhere only for a path with a colon.
LEMMA InNoDirectory ==
  ASSUME NEW P, ":" \in P, NEW p \in Seq(P), NEW kind, ~AsDirectory(kind), ~PathRefused(p, kind)
  PROVE  \E i \in 1 .. Len(p) : p[i] = ":"
<1> DEFINE parts == Split(p, ":")
           n == Len(parts)
           Q == P \ {":"}
<1>1. ~ (Len(SplitList(p)) < 2)
  BY DEF PathRefused
<1>2. p # << >>
  <2>1. SUFFICES ASSUME p = << >> PROVE FALSE
    OBVIOUS
  <2>2. SplitList(p) = << >>
    BY <2>1 DEF SplitList
  <2> QED
    BY <1>1, <2>2
<1>3. SplitList(p) = parts
  BY <1>2 DEF SplitList
<1>4. parts \in Seq(Seq(Q)) /\ n \in Nat /\ n >= 1
  BY SplitTyped
<1> HIDE DEF parts
<1>5. n >= 2
  BY <1>1, <1>3, <1>4
<1> QED
  <2>1. ~Plain(p, ":")
    BY <1>5, SplitParts DEF parts
  <2> QED
    BY <2>1 DEF Plain

\* A directory gets the file, under the name of the source; and a path without
\* a colon is written, if at all, as the path itself or in it
\* (compiler/go/LanguagePluginInterfaceHandler.go).
THEOREM FilesGoWhereAsked == PluginSpec => []WritesWhereAsked
<1>1. ASSUME OutputInv PROVE WritesWhereAsked
  <2> DEFINE wanted == output.call.path
             kind == output.kind
             def == output.call.idl
             at == At(output.dir, output.file)
             P == STRING \cup {":"}
  <2>1. SUFFICES ASSUME output # NoOutput
                 PROVE  /\ kind = "dir" => at = wanted \o <<"/", def>>
                        /\ (\A i \in 1 .. Len(wanted) : wanted[i] # ":") =>
                             /\ at \in {wanted, wanted \o <<"/", def>>}
                             /\ kind \in {"file", "missing"} => at = wanted
    BY Zenon DEF WritesWhereAsked, At
  <2>2. Done(output.call, output.kind)
    BY <1>1, <2>1 DEF OutputInv, OutputIsDone
  <2>3. /\ wanted \in Paths /\ kind \in Kinds(wanted) /\ ~PathRefused(wanted, kind)
        /\ output.dir = OutDir(wanted, kind) /\ output.file = OutFile(wanted, kind, def)
    BY <2>2 DEF Done, Proper, FileWritten
  <2>4. wanted \in Seq(P) /\ ":" \in P
    <3>1. \A s \in Seq(STRING) : s \in Seq(P)
      BY SeqMonotonic, Zenon
    <3> QED
      BY <2>3, <3>1, CompilerPluginAssumption, Zenon
  <2> HIDE DEF P, wanted, kind, def
  <2>5. CASE AsDirectory(kind)
    <3>1. at = wanted \o <<"/", def>>
      BY <2>3, <2>4, <2>5, InDirectory
    <3>2. kind \notin {"file", "missing"}
      BY <2>5 DEF AsDirectory
    <3> QED
      BY <3>1, <3>2
  <2>6. CASE ~AsDirectory(kind)
    <3>1. \E i \in 1 .. Len(wanted) : wanted[i] = ":"
      BY <2>3, <2>4, <2>6, InNoDirectory
    <3>2. kind # "dir"
      BY <2>6 DEF AsDirectory
    <3> QED
      BY <3>1, <3>2
  <2> QED
    BY <2>5, <2>6
<1> QED
  BY <1>1, OutputInvariant, PTL
================================================================================
