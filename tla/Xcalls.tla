-------------------------------- MODULE Xcalls --------------------------------
(***************************************************************************)
(* An xcall (runtime/xcall.h) is a pair of pointers to a foreign function   *)
(* and its context.  XLLR makes one when it loads an entity and takes it    *)
(* back in free_xcall; between the two the host keeps it behind a pointer   *)
(* guarded by xcall_scope_guard, and copies or moves it as it likes.  The   *)
(* class frees nothing.                                                     *)
(*                                                                         *)
(* A foreign function is its number in the order of loading.  Both pointers *)
(* of an xcall always travel together, so the pair is that number; Empty is *)
(* an xcall of null pointers, NoXcall a null xcall*.                        *)
(***************************************************************************)
EXTENDS Integers

CONSTANTS Guarded,  \* variables of type xcall*, each with a scope guard
          Values,   \* variables of type xcall
          MaxFns    \* bound: foreign functions loaded

ASSUME XcallsAssumption == MaxFns \in Nat /\ Guarded \cap Values = {}

Empty == 0
NoXcall == -1
Fns == 1 .. MaxFns

VARIABLES
  slot,      \* the function each variable holds, Empty or NoXcall
  loaded,    \* how many functions XLLR has loaded so far
  live,      \* those it has not freed
  shared,    \* ghost: functions copied, or whose pointers the host kept
  strayed,   \* ghost: functions moved away or overwritten
  kept,      \* ghost: functions XLLR did not free when asked to
  x_fault    \* "none", "wild_call", "null_call", "double_free" or "null_throw"

xcallVars == <<slot, loaded, live, shared, strayed, kept, x_fault>>

Places == Guarded \cup Values
There(x) == slot[x] # NoXcall

XcallsInit ==
  /\ slot = [x \in Places |-> IF x \in Guarded THEN NoXcall ELSE Empty]
  /\ loaded = 0 /\ live = {}
  /\ shared = {} /\ strayed = {} /\ kept = {} /\ x_fault = "none"

Sane == UNCHANGED <<loaded, live, kept, x_fault>>

\* xllr_api_wrapper::load_entity and make_callable: XLLR's answer is a new
\* xcall, or null and an error string, which changes nothing here.
Load(g) ==
  /\ slot[g] = NoXcall /\ loaded < MaxFns
  /\ loaded' = loaded + 1 /\ live' = live \cup {loaded + 1}
  /\ slot' = [slot EXCEPT ![g] = loaded + 1]
  /\ UNCHANGED <<shared, strayed, kept, x_fault>>

\* What was in x before it is assigned f.
Gone(x, f) == IF slot[x] \in Fns \ {f} THEN {slot[x]} ELSE {}

\* xcall(pxcall, context) over pointers the host got from XLLR.  A null pointer
\* throws and makes no xcall; xcall(void*[2]) takes any pair.
Construct(v) ==
  /\ \E f \in 0 .. loaded :
       /\ slot' = [slot EXCEPT ![v] = f]
       /\ shared' = shared \cup ({f} \ {Empty})
       /\ strayed' = strayed \cup Gone(v, f)
  /\ Sane

\* Copy constructor and operator=(const &).
CopyXcall(x, y) ==
  /\ x # y /\ There(x) /\ There(y)
  /\ slot' = [slot EXCEPT ![x] = slot[y]]
  /\ shared' = shared \cup ({slot[y]} \ {Empty})
  /\ strayed' = strayed \cup Gone(x, slot[y])
  /\ Sane

\* Move constructor and operator=(&&).
MoveXcall_KeepsSource(x, y) ==    \* mutant
  /\ x # y /\ There(x) /\ There(y)
  /\ slot' = [slot EXCEPT ![x] = slot[y]]
  /\ strayed' = strayed \cup Gone(x, slot[y]) \cup ({slot[y]} \ {Empty})
  /\ UNCHANGED shared /\ Sane
MoveXcall(x, y) ==
  /\ x # y /\ There(x) /\ There(y)
  /\ slot' = [slot EXCEPT ![x] = slot[y], ![y] = Empty]
  /\ strayed' = strayed \cup Gone(x, slot[y]) \cup ({slot[y]} \ {Empty})
  /\ UNCHANGED shared /\ Sane

\* operator()(cdts*, char** err): a null function throws before anything is
\* called, and what a live one answers is between the host and its error string.
Faults(how) == x_fault' = how /\ UNCHANGED <<slot, loaded, live, shared, strayed, kept>>
Call(x) == There(x) /\ slot[x] \notin live \cup {Empty} /\ Faults("wild_call")

\* operator()(cdts*) when the call fails: the error string is copied and freed,
\* its pointer set to null, and the exception made of that null pointer, which
\* throws another exception or ends the process.
CallThrowing(x) == There(x) /\ slot[x] \in live /\ Faults("null_throw")

\* call_xcall_with_params_and_or_retvals, of C: null is not checked.
CallFromC(x) == There(x) /\ slot[x] = Empty /\ Faults("null_call")

\* A value goes out of scope: there is no destructor.
Drop(v) ==
  /\ slot' = [slot EXCEPT ![v] = Empty]
  /\ strayed' = strayed \cup Gone(v, Empty)
  /\ UNCHANGED shared /\ Sane

\* xcall_scope_guard: a valid xcall is given back to XLLR, which may fail or
\* not be there any more.  The pointer is cleared unless the code run on
\* failure throws, and the guard swallows what it throws.
Guard_ClearsOnly(g) ==    \* mutant: the pointer is cleared and nothing freed
  /\ There(g) /\ slot' = [slot EXCEPT ![g] = NoXcall]
  /\ UNCHANGED <<shared, strayed>> /\ Sane
Guard(g) ==
  /\ There(g) /\ slot[g] # Empty
  /\ \/ /\ slot[g] \in live
        /\ live' = live \ {slot[g]}
        /\ slot' = [slot EXCEPT ![g] = NoXcall] /\ UNCHANGED <<kept, x_fault>>
     \/ /\ slot[g] \notin live /\ x_fault' = "double_free"
        /\ UNCHANGED <<slot, live, kept>>
     \/ /\ kept' = kept \cup {slot[g]}
        /\ slot' \in {slot, [slot EXCEPT ![g] = NoXcall]} /\ UNCHANGED <<live, x_fault>>
  /\ UNCHANGED <<loaded, shared, strayed>>

XcallsStep ==
  \/ \E x \in Places : Call(x) \/ CallThrowing(x) \/ CallFromC(x)
  \/ \E x, y \in Places : CopyXcall(x, y) \/ MoveXcall(x, y)
  \/ \E v \in Values : Construct(v) \/ Drop(v)
  \/ \E g \in Guarded : Guard(g)
------------------------------------------------------------------------------
XcallsTypeOK ==
  /\ slot \in [Places -> {NoXcall, Empty} \cup Fns]
  /\ loaded \in 0 .. MaxFns /\ live \subseteq 1 .. loaded
  /\ shared \subseteq Fns /\ strayed \subseteq Fns /\ kept \subseteq Fns
  /\ x_fault \in {"none", "wild_call", "null_call", "double_free", "null_throw"}

(***************************************************************************)
(* As long as an xcall is only moved, one variable holds a function, and it *)
(* is live: a call cannot reach a freed function, and none is freed twice.  *)
(***************************************************************************)
MovesAreSafe ==
  /\ \A x, y \in Places :
       slot[x] \in Fns \ shared /\ x # y => slot[x] # slot[y]
  /\ \A x \in Places : slot[x] \in Fns \ shared => slot[x] \in live
  /\ x_fault \in {"wild_call", "double_free"} => \E f \in shared : f \notin live

(***************************************************************************)
(* The guards are enough: a function that no variable holds any more has    *)
(* been freed, unless XLLR did not do as asked or the host moved the xcall  *)
(* from under its guard.                                                    *)
(***************************************************************************)
GuardsFree ==
  \A f \in live : (\E x \in Places : slot[x] = f) \/ f \in strayed \cup kept
==============================================================================
