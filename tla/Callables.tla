------------------------------- MODULE Callables -------------------------------
(***************************************************************************)
(* The type arrays of a cdt_metaffi_callable                                *)
(* (runtime/metaffi_primitives.h:369-476): heap arrays the callable owns,   *)
(* with their lengths in an int8.  Parameters and return values are handled *)
(* alike, and one array stands for both; where a constructor fails between   *)
(* the two, the first is what is left over.                                 *)
(***************************************************************************)
EXTENDS Integers

CONSTANTS Callables, \* variables of type cdt_metaffi_callable
          Arrays,    \* addresses operator new[] may return for type arrays
          NoArray,   \* the null pointer
          Counts     \* how many types a host may hand over

ASSUME CallablesAssumption == NoArray \notin Arrays /\ Counts \subseteq Nat

VARIABLES
  callable,   \* of each variable: [built, types, length]
  room,       \* elements of each array, -1 when it is not allocated
  leftover,   \* ghost: arrays of constructors that threw
  spent,      \* ghost: callables free() was called on and not assigned since
  call_fault  \* "none", "double_free", "null_read" or "past_end"

callableVars == <<callable, room, leftover, spent, call_fault>>

Int8(n) == ((n + 128) % 256) - 128
Raw == [built |-> FALSE, types |-> NoArray, length |-> 0]

CallablesInit ==
  /\ callable = [c \in Callables |-> Raw]
  /\ room = [a \in Arrays |-> -1]
  /\ leftover = {} /\ spent = {} /\ call_fault = "none"

Fresh(a) == room[a] = -1
Fails(how) == call_fault' = how /\ UNCHANGED <<callable, room, leftover, spent>>

\* delete[] p, p being null or an array: what the arrays are afterwards.
Deleted(p) == [a \in Arrays |-> IF a = p THEN -1 ELSE room[a]]
Deletable(p) == p # NoArray => ~Fresh(p)

\* cdt_metaffi_callable(val, types, length, ..): the host's array is taken over.
Adopt(c) ==
  /\ ~callable[c].built
  /\ \E a \in Arrays, n \in Counts :
       /\ Fresh(a) /\ n \in 0 .. 127
       /\ room' = [room EXCEPT ![a] = n]
       /\ callable' = [callable EXCEPT ![c] = [built |-> TRUE, types |-> a, length |-> n]]
  /\ UNCHANGED <<leftover, spent, call_fault>>

\* cdt_metaffi_callable(val, vector, vector): a length that is negative as an
\* int8 makes new[] throw, before there is a callable but perhaps after the
\* array of the parameters was allocated.
FromVector_Unsigned(c) ==    \* mutant: the array has the vector's size
  /\ ~callable[c].built
  /\ \E a \in Arrays, n \in Counts :
       /\ Fresh(a)
       /\ room' = [room EXCEPT ![a] = n]
       /\ callable' = [callable EXCEPT ![c] = [built |-> TRUE, types |-> a, length |-> Int8(n)]]
  /\ UNCHANGED <<leftover, spent, call_fault>>
FromVector(c) ==
  /\ ~callable[c].built
  /\ \E a \in Arrays, n \in Counts :
       /\ Fresh(a) /\ Int8(n) >= 0
       /\ room' = [room EXCEPT ![a] = Int8(n)]
       /\ \/ /\ callable' = [callable EXCEPT ![c] = [built |-> TRUE, types |-> a, length |-> Int8(n)]]
             /\ UNCHANGED leftover
          \/ /\ \E m \in Counts : Int8(m) < 0
             /\ leftover' = leftover \cup {a} /\ UNCHANGED callable
  /\ UNCHANGED <<spent, call_fault>>

\* Reading n elements of p.
Reads(p, n) == IF n <= 0 THEN "none"
               ELSE IF p = NoArray THEN "null_read"
               ELSE IF room[p] < n THEN "past_end" ELSE "none"

\* The copy constructor and operator=(const &): the target's array goes, and
\* the source's elements are copied to a new one.
CopyTypes(c, d) ==
  /\ c # d /\ callable[d].built
  /\ IF ~Deletable(callable[c].types) THEN Fails("double_free")
     ELSE IF Reads(callable[d].types, callable[d].length) # "none"
     THEN Fails(Reads(callable[d].types, callable[d].length))
     ELSE \E a \in Arrays :
       /\ Deleted(callable[c].types)[a] = -1
       /\ room' = [Deleted(callable[c].types) EXCEPT ![a] = callable[d].length]
       /\ callable' = [callable EXCEPT ![c] = [callable[d] EXCEPT !.types = a]]
       /\ spent' = spent \ {c} /\ UNCHANGED <<leftover, call_fault>>

\* The move constructor and operator=(&&).
MoveTypes_KeepsSource(c, d) ==    \* mutant: the source keeps its array
  /\ c # d /\ callable[d].built
  /\ IF ~Deletable(callable[c].types) THEN Fails("double_free")
     ELSE /\ room' = Deleted(callable[c].types)
          /\ callable' = [callable EXCEPT ![c] = callable[d]]
          /\ UNCHANGED <<leftover, spent, call_fault>>
MoveTypes(c, d) ==
  /\ c # d /\ callable[d].built
  /\ IF ~Deletable(callable[c].types) THEN Fails("double_free")
     ELSE /\ room' = Deleted(callable[c].types)
          /\ callable' = [callable EXCEPT ![c] = callable[d], ![d] = [Raw EXCEPT !.built = TRUE]]
          /\ spent' = IF d \in spent THEN (spent \cup {c}) \ {d} ELSE spent \ {c}
          /\ UNCHANGED <<leftover, call_fault>>

\* operator==: the arrays are read when the lengths agree.
Equal(c, d) ==
  /\ callable[c].built /\ callable[d].built
  /\ callable[c].length = callable[d].length
  /\ \E x \in {c, d} : /\ Reads(callable[x].types, callable[x].length) # "none"
                       /\ Fails(Reads(callable[x].types, callable[x].length))

\* free: the pointers become null, and the lengths stay.
Free(c) ==
  /\ callable[c].built
  /\ IF ~Deletable(callable[c].types) THEN Fails("double_free")
     ELSE /\ room' = Deleted(callable[c].types)
          /\ callable' = [callable EXCEPT ![c].types = NoArray]
          /\ spent' = spent \cup {c} /\ UNCHANGED <<leftover, call_fault>>

\* ~cdt_metaffi_callable.
End(c) ==
  /\ callable[c].built
  /\ IF ~Deletable(callable[c].types) THEN Fails("double_free")
     ELSE /\ room' = Deleted(callable[c].types)
          /\ callable' = [callable EXCEPT ![c] = Raw]
          /\ spent' = spent \ {c} /\ UNCHANGED <<leftover, call_fault>>

CallablesNext ==
  /\ call_fault = "none"
  /\ \E c \in Callables :
    \/ Adopt(c) \/ FromVector(c) \/ Free(c) \/ End(c)
    \/ \E d \in Callables : CopyTypes(c, d) \/ MoveTypes(c, d) \/ Equal(c, d)
------------------------------------------------------------------------------
CallablesTypeOK ==
  /\ callable \in [Callables -> [built : BOOLEAN, types : Arrays \cup {NoArray}, length : -128 .. 127]]
  /\ room \in [Arrays -> {-1} \cup Nat]
  /\ spent \subseteq Callables /\ leftover \subseteq Arrays
  /\ call_fault \in {"none", "double_free", "null_read", "past_end"}

(***************************************************************************)
(* Every allocated type array belongs to exactly one callable, which knows  *)
(* its length: none is freed twice or read past its end, and none is lost   *)
(* but by a constructor that threw for more types than an int8 counts.      *)
(***************************************************************************)
ArraysOwned ==
  /\ \A c \in Callables : callable[c].types # NoArray => room[callable[c].types] = callable[c].length
  /\ \A c, d \in Callables : c # d /\ callable[c].types = callable[d].types => callable[c].types = NoArray
  /\ \A a \in Arrays \ leftover : ~Fresh(a) => \E c \in Callables : callable[c].types = a

\* A callable faults only where one was used again after free().
CallableFaults == call_fault \in {"none", "null_read"} /\ (call_fault = "null_read" => spent # {})
==============================================================================
