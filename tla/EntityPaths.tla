------------------------------ MODULE EntityPaths ------------------------------
(***************************************************************************)
(* Where a foreign entity is found: the entity_path maps of an IDL          *)
(* definition (compiler/go/IDL), the string a compiler writes of them into  *)
(* the code it generates (EntityPathAsString), and what the plugin at run   *)
(* time reads out of that string (utils/entity_path_parser.cpp).            *)
(*                                                                         *)
(* The definition is one module with a function and two classes, one with a *)
(* method and a constructor, the other with a releaser (a method, too).  A  *)
(* Go map is shared by all that hold it, so each callable holds the name of *)
(* the callable its map was made for.                                       *)
(***************************************************************************)
EXTENDS Integers, Sequences, FiniteSets, TextPieces

CONSTANTS Keys,      \* keys of entity paths; "metaffi_guest_lib" among them
          Values,    \* what may be set for a key, see Spelling
          MaxSets    \* bound: calls of SetEntityPath

ASSUME EntityPathsAssumption ==
  /\ "metaffi_guest_lib" \in Keys /\ IsFiniteSet(Keys) /\ Keys \cap {",", "="} = {}
  /\ Values \subseteq {"empty", "variable", "pair", "list"}
  /\ MaxSets \in Nat

Classes == {"A", "B"}
Releaser == <<"B", "releaser">>
Method == <<"A", "method">>
Methods == {Method, Releaser}
Constructor == <<"A", "constructor">>
Function == <<"module", "function">>
Callables == Methods \cup {Constructor, Function}

Absent == "absent"     \* the key is not in the map
Nil == "nil"           \* a nil parent
NilMap == <<"nil", "map">>
Nobody == <<"nobody", "panicked">>

VARIABLES
  has,      \* the callables of the definition
  path,     \* whose map each holds, or NilMap
  parent,   \* the class each points to
  map,      \* the maps, by the callable they were made for
  own,      \* the entity_path of each class
  sets,     \* calls of SetEntityPath so far
  late,     \* ghost: constructors added, or read, when their class had a path
  given,    \* ghost: callables read from JSON without an entity_path, or made of one
  derived,  \* ghost: callables made from the function since the last JSON
  panicked  \* the callable whose SetEntityPath panicked, or Nobody

vars == <<has, path, parent, map, own, sets, late, given, derived, panicked>>

Nothing == [k \in Keys |-> Absent]

\* Built through the API, where a class is born with a releaser, or read from
\* the JSON an IDL compiler wrote, with or without entity paths.
Init ==
  /\ sets = 0 /\ derived = {} /\ panicked = Nobody
  /\ \/ /\ has = {Releaser} /\ given = {} /\ late = {}
        /\ path = [c \in Callables |-> IF c \in has THEN c ELSE NilMap]
        /\ parent = [c \in Callables |-> IF c \in has THEN c[1] ELSE Nil]
        /\ map = [c \in Callables |-> Nothing] /\ own = [cls \in Classes |-> Nothing]
     \/ /\ has = Callables
        /\ given \in SUBSET {Function, Method, Constructor}
        /\ own \in [Classes -> {Nothing, [Nothing EXCEPT !["metaffi_guest_lib"] = "variable"]}]
        /\ late = IF own["A"] = Nothing THEN {} ELSE {Constructor}
        /\ path = [c \in Callables |-> IF c \in given THEN NilMap ELSE c]
        /\ parent = [c \in Callables |-> IF c = Function THEN Nil ELSE c[1]]
        /\ map = [c \in Callables |-> Nothing]

\* NewFunctionDefinition, NewMethodDefinition, NewConstructorDefinition, ..,
\* added to their module or class.
Add(c, m) ==
  /\ has' = has \cup {c}
  /\ path' = [path EXCEPT ![c] = m]
  /\ parent' = [parent EXCEPT ![c] = IF c = Function THEN Nil ELSE c[1]]
  /\ late' = IF c = Constructor /\ own[c[1]] # Nothing THEN late \cup {c} ELSE late
  /\ UNCHANGED <<own, sets, panicked>>
New_NoMap(c) ==    \* mutant: without make(map[string]string)
  /\ c \notin has
  /\ Add(c, NilMap) /\ UNCHANGED <<map, given, derived>>
New(c) ==
  /\ c \notin has
  /\ Add(c, c) /\ map' = [map EXCEPT ![c] = Nothing]
  /\ UNCHANGED <<given, derived>>

\* NewMethodDefinitionWithFunction, NewConstructorDefinitionFromFunctionDefinition
\* and NewReleaserDefinitionFromFunctionDefinition copy the struct of the
\* function, and with it the reference to its map.  Only a releaser is replaced.
NewFromFunction(c) ==
  /\ c \notin has \ {Releaser} /\ Function \in has
  /\ Add(c, path[Function]) /\ UNCHANGED map
  /\ derived' = derived \cup {c}
  /\ given' = IF Function \in given THEN given \cup {c} ELSE given \ {c}

\* Duplicate copies the map, and AddMethod or AddConstructor follows.
Duplicate_Shares(c, d) ==    \* mutant
  /\ c \notin has /\ d \in has
  /\ Add(c, path[d]) /\ UNCHANGED <<map, given, derived>>
Duplicate(c, d) ==
  /\ c \notin has /\ d \in has
  /\ Add(c, c)
  /\ map' = [map EXCEPT ![c] = IF path[d] = NilMap THEN Nothing ELSE map[path[d]]]
  /\ UNCHANGED <<given, derived>>

\* The order SetEntityPath goes in: the functions of a module, then one class
\* after the other; of a class its own path, the constructors, the rest.
Earlier(d, part) == (d = Function /\ part \in Classes) \/ (d[1] = "A" /\ part = "B")
Before_MethodsFirst(d, c) == Earlier(d, c[1]) \/ (d = Method /\ c = Constructor)    \* mutant
Before(d, c) == Earlier(d, c[1]) \/ (d = Constructor /\ c = Method)

\* SetEntityPath of the callables in cs: writing into a nil map panics, and
\* only what comes before has been written.
Unmade(cs) == {c \in cs : path[c] = NilMap}
Reached(cs) == {c \in cs \ Unmade(cs) : \A d \in Unmade(cs) : Before(c, d)}
SetAll(cs, k, v) ==
  /\ sets < MaxSets /\ sets' = sets + 1
  /\ \/ Unmade(cs) = {} /\ panicked' = Nobody
     \/ /\ panicked' \in Unmade(cs)
        /\ \A d \in Unmade(cs) \ {panicked'} : Before(panicked', d)
  /\ map' = [m \in Callables |->
               IF \E c \in Reached(cs) : path[c] = m THEN [map[m] EXCEPT ![k] = v] ELSE map[m]]
  /\ UNCHANGED <<has, path, parent, late, given, derived>>
Of(cls) == {c \in has : c[1] = cls}
SetCallable(c) ==
  /\ c \in has /\ \E k \in Keys, v \in Values : SetAll({c}, k, v)
  /\ UNCHANGED own
SetClass(cls) ==
  \E k \in Keys, v \in Values :
    /\ SetAll(Of(cls), k, v)
    /\ own' = [own EXCEPT ![cls][k] = v]
SetModule ==
  \E k \in Keys, v \in Values :
    /\ SetAll(has, k, v)
    /\ own' = [cls \in Classes |-> IF \E d \in Unmade(has) : Earlier(d, cls)
                                   THEN own[cls] ELSE [own[cls] EXCEPT ![k] = v]]

\* ToJSON on one side and NewIDLDefinitionFromJSON with FinalizeConstruction
\* on the other: every callable has a map of its own, and its parent.
PassAsJSON ==
  /\ path' = [c \in Callables |-> IF path[c] = NilMap THEN NilMap ELSE c]
  /\ map' = [c \in Callables |-> IF path[c] = NilMap THEN Nothing ELSE map[path[c]]]
  /\ parent' = [c \in Callables |-> IF c \in has \ {Function} THEN c[1] ELSE Nil]
  /\ derived' = {}
  /\ UNCHANGED <<has, own, sets, late, given, panicked>>

Next ==
  /\ panicked = Nobody
  /\ \/ \E c \in Callables : New(c) \/ SetCallable(c)
     \/ \E c \in Callables \ {Function} : NewFromFunction(c)
     \/ \E c, d \in Callables : Duplicate(c, d)
     \/ \E cls \in Classes : SetClass(cls)
     \/ SetModule \/ PassAsJSON

Spec == Init /\ [][Next]_vars
------------------------------------------------------------------------------
(***************************************************************************)
(* EntityPathAsString: the keys in order, each with the callable's value,   *)
(* for a method else its class's, else the guest library of the definition. *)
(* Text is a sequence of pieces; what stands for a value is its Spelling.   *)
(***************************************************************************)
Spelling == [empty    |-> << >>,
             variable |-> <<"$V", "/x">>,
             pair     |-> <<"x", "=", "y">>,
             list     |-> <<"x", ",", "y">>,
             absent   |-> <<"name_MetaFFIGuest">>]    \* MetaFFIGuestLib

Held(c) == IF path[c] = NilMap THEN Nothing ELSE map[path[c]]
Inherited(c) == IF c \in Methods /\ parent[c] # Nil THEN own[parent[c]] ELSE Nothing
Value_ClassFirst(c, k) == IF Inherited(c)[k] # Absent THEN Inherited(c)[k] ELSE Held(c)[k]  \* mutant
Value(c, k) == IF Held(c)[k] # Absent THEN Held(c)[k] ELSE Inherited(c)[k]
Written(c) == {k \in Keys : Value(c, k) # Absent} \cup {"metaffi_guest_lib"}

\* In one order of the keys; the parser does not depend on it.
EntityPathAsString(c) == Pairs([k \in Written(c) |-> Spelling[Value(c, k)]])

(***************************************************************************)
(* entity_path_parser: split at "," and "=", more than one "=" throws, what *)
(* follows "=" is expanded from the environment.                            *)
(***************************************************************************)
ExpandEnv(s, isSet) == [i \in 1 .. Len(s) |-> IF s[i] = "$V" /\ isSet THEN "v" ELSE s[i]]
Throws == [p \in {<<"too many =">>} |-> << >>]
Parse(s, isSet) ==
  LET items == Split(s, ",")
      kv == [i \in {j \in DOMAIN items : items[j] # << >>} |-> Split(items[i], "=")]
      final(k) == kv[LastWith(kv, k)]
  IN IF \E i \in DOMAIN kv : Len(kv[i]) > 2 THEN Throws
     ELSE [k \in {kv[i][1] : i \in DOMAIN kv} |->
             IF Len(final(k)) = 2 THEN ExpandEnv(final(k)[2], isSet) ELSE << >>]
------------------------------------------------------------------------------
(***************************************************************************)
(* What the plugin reads is what the definition says: each key with the     *)
(* value set for the callable, or else for its class, its variables         *)
(* expanded, and nothing else - as long as no value has a "," in it.  With  *)
(* an "=" in a value, and no ",", it is refused.                            *)
(***************************************************************************)
Says(c) == [k \in Written(c) |-> IF Held(c)[k] # Absent THEN Held(c)[k]
                                 ELSE IF c \in Methods THEN own[c[1]][k] ELSE Absent]
PathsArrive ==
  \A c \in has, isSet \in BOOLEAN :
    LET said == Says(c)
        spelled == {said[k] : k \in DOMAIN said} IN
    "list" \notin spelled =>
      Parse(EntityPathAsString(c), isSet) =
        IF "pair" \in spelled THEN Throws
        ELSE [p \in {<<k>> : k \in DOMAIN said} |-> ExpandEnv(Spelling[said[p[1]]], isSet)]

(***************************************************************************)
(* What was set on a class is written for everything in it, by inheritance  *)
(* or because it was set there too, and even where setting it panicked half *)
(* way.  Only a constructor, which inherits nothing, can be without it: if  *)
(* it was not there when the path was set, or if the panic was at it.       *)
(***************************************************************************)
ClassPathsReach ==
  \A c \in has \ ({Function} \cup late \cup ({panicked} \ Methods)), k \in Keys :
    own[c[1]][k] # Absent => Value(c, k) # Absent

(***************************************************************************)
(* Setting a path panics only at a callable that was read from JSON without *)
(* an entity_path, or made from a function that was - whatever else of its  *)
(* definition came without one.                                             *)
(***************************************************************************)
PanicNeedsNullPath == panicked # Nobody => panicked \in given

(***************************************************************************)
(* A path set for a class stays in it, but for a member made from the       *)
(* function: then the function changes, too, and what else was made from    *)
(* it.  Nobody outside the class does once the definition was passed as     *)
(* JSON, until something is made from the function again.                   *)
(***************************************************************************)
SetsStayInside ==
  [][\A cls \in Classes : SetClass(cls) =>
       \A c \in has \ Of(cls) : Held(c)' # Held(c) =>
         /\ c \in derived \cup {Function}
         /\ Of(cls) \cap derived # {}]_vars
==============================================================================
