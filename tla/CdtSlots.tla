------------------------------- MODULE CdtSlots -------------------------------
(***************************************************************************)
(* Who owns what a CDTS tree points to (runtime/cdt.h, cdt.cpp, and the     *)
(* element writes of construct_cdt).                                        *)
(*                                                                         *)
(* An element (cdt) is a type, a value and free_required, written by        *)
(* separate assignments; its destructor deletes what the three together say *)
(* it owns.  A cdts is a header: a buffer of elements, its length, and      *)
(* whether the buffer belongs to the cache.  Headers are the host's own     *)
(* variables (Roots) or objects on the heap, which array elements point to. *)
(* Addresses are never reused, so that deleting one twice can be seen.      *)
(*                                                                         *)
(* The destructors run element by element (todo); their order does not      *)
(* matter here and is left open.                                            *)
(***************************************************************************)
EXTENDS Integers

CONSTANTS Roots,      \* cdts variables of the host
          Bufs,       \* addresses of element buffers
          CacheBufs,  \* those of the CDT cache
          Objs,       \* addresses of strings, callables and array headers
          MaxLen,     \* bound: elements of a buffer
          Used,       \* bound: the types the host puts in elements
          MayThrow    \* may callbacks throw?

Owning == {"string", "callable", "array"}
Types == Owning \cup {"null", "scalar", "handle"}

ASSUME SlotsAssumption ==
  /\ CacheBufs \subseteq Bufs
  /\ MaxLen \in Nat /\ Used \subseteq Types /\ MayThrow \in BOOLEAN
  /\ Objs # {} /\ Bufs # {}
  /\ Objs \cap ({"null", "bits", "host"} \cup Roots \cup Bufs) = {}
  /\ "null" \notin Bufs

Null == "null"     \* nullptr
Bits == "bits"     \* a scalar in the union, no address
Host == "host"     \* something the host owns: a handle, an uncopied string
Slots == Bufs \X (1 .. MaxLen)
NoSlot == <<Null, 0>>

VARIABLES
  hdr,     \* headers: [arr, len, cache]
  slot,    \* elements: [type, val, fr]
  heap,    \* what is at an address: "unused", "freed", or a type in Owning
  buf,     \* "unused", "live" or "freed"
  todo,    \* elements whose destructors are still to run
  then,    \* the element set_handle writes once it is freed
  zeroed,  \* has a destructor zeroed a handle of the host?
  lost,    \* ghost: what was overwritten by something else while owned
  gave,    \* ghost: did a host claim free_required for a handle?
  torn,    \* ghost: has a callback thrown over an element with a value?
  stale,   \* ghost: has one left a TRUE free_required over what is the host's?
  spent,   \* ghost: headers freed, or moved from by the move constructor
  fault    \* "none", "bad_free" or "null_array"

vars == <<hdr, slot, heap, buf, todo, then, zeroed, lost, gave, torn, stale, spent, fault>>

Cdt(t, v, f) == [type |-> t, val |-> v, fr |-> f]
Blank == Cdt("null", Null, FALSE)
Header(b, n, c) == [arr |-> b, len |-> n, cache |-> c]
Empty == Header(Null, 0, FALSE)
Of(b) == {b} \X (1 .. MaxLen)
Owns(c) == IF c.fr /\ c.type \in Owning THEN {c.val} \cap Objs ELSE {}
Live == {o \in Objs : heap[o] \in Owning}
Headers == Roots \cup {o \in Objs : heap[o] = "array"}
Elements == {s \in Slots : \E h \in Headers : hdr[h].arr = s[1] /\ s[2] <= hdr[h].len}

Init ==
  /\ hdr = [h \in Roots \cup Objs |-> Empty]
  /\ slot = [s \in Slots |-> Blank]
  /\ heap = [o \in Objs |-> "unused"]
  /\ buf = [b \in Bufs |-> IF b \in CacheBufs THEN "live" ELSE "unused"]
  /\ todo = {} /\ then = NoSlot
  /\ zeroed = FALSE /\ lost = {} /\ gave = FALSE /\ torn = FALSE /\ stale = FALSE /\ spent = {}
  /\ fault = "none"

\* The host acts between destructions, on a process that is still alive.
Quiet == todo = {} /\ then = NoSlot /\ fault = "none"
NoDestruction == UNCHANGED <<todo, then, zeroed, fault>>

CanAllocate == \E o \in Objs : heap[o] = "unused"
CanBuffer == \E b \in Bufs : buf[b] = "unused"
Fresh == CHOOSE o \in Objs : CanAllocate => heap[o] = "unused"
FreshBuf == CHOOSE b \in Bufs : CanBuffer => buf[b] = "unused"
Allocate(t) == CanAllocate /\ heap' = [heap EXCEPT ![Fresh] = t]

\* An element is overwritten; nothing is freed.
Write(s, c) ==
  /\ slot' = [slot EXCEPT ![s] = c]
  /\ lost' = lost \cup (Owns(slot[s]) \ Owns(c))
------------------------------------------------------------------------------
\* Mutant: one element too many.
NewRoot_OffByOne(r, n) ==
  /\ Quiet /\ hdr[r].arr = Null /\ CanBuffer
  /\ hdr' = [hdr EXCEPT ![r] = Header(FreshBuf, n + 1, FALSE)]
  /\ buf' = [buf EXCEPT ![FreshBuf] = "live"]
  /\ spent' = spent \ {r}
  /\ UNCHANGED <<slot, heap, lost, gave, torn, stale>> /\ NoDestruction

\* cdts(length): a buffer of blank elements, none for length 0.
NewRoot(r, n) ==
  /\ Quiet /\ hdr[r].arr = Null
  /\ \/ n = 0 /\ hdr' = [hdr EXCEPT ![r] = Empty] /\ UNCHANGED buf
     \/ /\ n > 0 /\ CanBuffer
        /\ hdr' = [hdr EXCEPT ![r] = Header(FreshBuf, n, FALSE)]
        /\ buf' = [buf EXCEPT ![FreshBuf] = "live"]
  /\ spent' = spent \ {r}
  /\ UNCHANGED <<slot, heap, lost, gave, torn, stale>> /\ NoDestruction

\* cdts(pre_allocated_cdts, length, dimensions, 1): a buffer of the cache.
CacheRoot(r, b, n) ==
  /\ Quiet /\ hdr[r].arr = Null
  /\ \A h \in Headers : hdr[h].arr # b
  /\ hdr' = [hdr EXCEPT ![r] = Header(b, n, TRUE)]
  /\ spent' = spent \ {r}
  /\ UNCHANGED <<slot, heap, buf, lost, gave, torn, stale>> /\ NoDestruction

\* Mutant: the source keeps its length.
MoveAssign_KeepsLength(r, q) ==
  /\ Quiet /\ r # q
  /\ hdr' = [hdr EXCEPT ![r] = hdr[q], ![q].arr = Null]
  /\ lost' = lost \cup ({hdr[r].arr} \cap (Bufs \ CacheBufs))
  /\ spent' = (IF q \in spent THEN spent \cup {r} ELSE spent \ {r}) \ {q}
  /\ UNCHANGED <<slot, heap, buf, gave, torn, stale>> /\ NoDestruction

\* cdts(cdts&&): the source keeps its length.
MoveConstruct(r, q) ==
  /\ Quiet /\ r # q /\ hdr[r].arr = Null
  /\ hdr' = [hdr EXCEPT ![r] = hdr[q], ![q].arr = Null]
  /\ spent' = (IF q \in spent THEN spent \cup {r} ELSE spent \ {r}) \cup {q}
  /\ UNCHANGED <<slot, heap, buf, lost, gave, torn, stale>> /\ NoDestruction

\* operator=(cdts&&): the target's buffer is not freed.
MoveAssign(r, q) ==
  /\ Quiet /\ r # q
  /\ hdr' = [hdr EXCEPT ![r] = hdr[q], ![q] = Empty]
  /\ lost' = lost \cup ({hdr[r].arr} \cap (Bufs \ CacheBufs))
  /\ spent' = (IF q \in spent THEN spent \cup {r} ELSE spent \ {r}) \ {q}
  /\ UNCHANGED <<slot, heap, buf, gave, torn, stale>> /\ NoDestruction

\* Mutant: the cache's buffer is deleted like any other.
FreeRoot_DeletesCache(r) ==
  LET b == hdr[r].arr IN
  /\ Quiet /\ b # Null
  /\ todo' = Of(b) /\ buf' = [buf EXCEPT ![b] = "freed"]
  /\ fault' = IF buf[b] = "live" /\ b \notin CacheBufs THEN fault ELSE "bad_free"
  /\ hdr' = [hdr EXCEPT ![r].arr = Null]
  /\ spent' = spent \cup {r}
  /\ UNCHANGED <<slot, heap, then, zeroed, lost, gave, torn, stale>>

\* cdts::free and ~cdts: the elements are destroyed, and the buffer deleted
\* unless it is the cache's.  The length stays.
FreeRoot(r) ==
  LET b == hdr[r].arr IN
  /\ Quiet /\ b # Null
  /\ IF hdr[r].cache
     THEN /\ todo' = {b} \X (1 .. hdr[r].len) /\ UNCHANGED <<buf, fault>>
     ELSE /\ todo' = Of(b) /\ buf' = [buf EXCEPT ![b] = "freed"]
          /\ fault' = IF buf[b] = "live" /\ b \notin CacheBufs THEN fault ELSE "bad_free"
  /\ hdr' = [hdr EXCEPT ![r].arr = Null]
  /\ spent' = spent \cup {r}
  /\ UNCHANGED <<slot, heap, then, zeroed, lost, gave, torn, stale>>

\* construct_cdts, at and operator[] go by the length alone.
UseEmptied(r) ==
  /\ Quiet /\ hdr[r].arr = Null /\ hdr[r].len > 0
  /\ fault' = "null_array"
  /\ UNCHANGED <<hdr, slot, heap, buf, todo, then, zeroed, lost, gave, torn, stale, spent>>
------------------------------------------------------------------------------
\* operator=(scalar): free_required stays as it was.
SetScalar(s) ==
  /\ Quiet
  /\ Write(s, Cdt("scalar", Bits, slot[s].fr))
  /\ UNCHANGED <<hdr, heap, buf, gave, torn, stale, spent>> /\ NoDestruction

SetString(s, is_copy) ==
  /\ Quiet
  /\ IF is_copy THEN Allocate("string") /\ Write(s, Cdt("string", Fresh, TRUE))
                ELSE UNCHANGED heap /\ Write(s, Cdt("string", Host, FALSE))
  /\ UNCHANGED <<hdr, buf, gave, torn, stale, spent>> /\ NoDestruction

\* set_handle frees what the element held, then writes it.
SetHandle(s) ==
  /\ Quiet
  /\ todo' = {s} /\ then' = s
  /\ UNCHANGED <<hdr, slot, heap, buf, zeroed, lost, gave, torn, stale, spent, fault>>

FinishHandle_KeepsFlag ==    \* mutant
  /\ todo = {} /\ then # NoSlot /\ fault = "none"
  /\ Write(then, Cdt("handle", Host, slot[then].fr))
  /\ then' = NoSlot
  /\ UNCHANGED <<hdr, heap, buf, todo, zeroed, gave, torn, stale, spent, fault>>

FinishHandle ==
  /\ todo = {} /\ then # NoSlot /\ fault = "none"
  /\ Write(then, Cdt("handle", Host, FALSE))
  /\ then' = NoSlot
  /\ UNCHANGED <<hdr, heap, buf, todo, zeroed, gave, torn, stale, spent, fault>>

\* An array header and its buffer are allocated and the element points to it.
NewArray(s, n) ==
  /\ Allocate("array") /\ Write(s, Cdt("array", Fresh, TRUE))
  /\ \/ n = 0 /\ hdr' = [hdr EXCEPT ![Fresh] = Empty] /\ UNCHANGED buf
     \/ /\ n > 0 /\ CanBuffer
        /\ hdr' = [hdr EXCEPT ![Fresh] = Header(FreshBuf, n, FALSE)]
        /\ buf' = [buf EXCEPT ![FreshBuf] = "live"]

SetArray(s, n) ==
  /\ Quiet /\ NewArray(s, n)
  /\ UNCHANGED <<gave, torn, stale, spent>> /\ NoDestruction

\* cdts::set moves a temporary, here a callable or a scalar, into an element
\* without freeing what it held ...
SetFromTemporary(s) ==
  /\ Quiet
  /\ \/ Allocate("callable") /\ Write(s, Cdt("callable", Fresh, TRUE))
     \/ UNCHANGED heap /\ Write(s, Cdt("scalar", Bits, FALSE))
  /\ UNCHANGED <<hdr, buf, gave, torn, stale, spent>> /\ NoDestruction

SetFromElement_Copies(dst, src) ==    \* mutant: the source is not blanked
  /\ Quiet
  /\ slot' = [slot EXCEPT ![dst] = slot[src]]
  /\ lost' = lost \cup (Owns(slot[dst]) \ Owns(slot[src]))
  /\ UNCHANGED <<hdr, heap, buf, gave, torn, stale, spent>> /\ NoDestruction

\* ... or another element, which it blanks.
SetFromElement(dst, src) ==
  /\ Quiet
  /\ slot' = [slot EXCEPT ![dst] = slot[src], ![src] = Blank]
  /\ lost' = lost \cup Owns(slot[dst])
  /\ UNCHANGED <<hdr, heap, buf, gave, torn, stale, spent>> /\ NoDestruction
------------------------------------------------------------------------------
(***************************************************************************)
(* construct_cdt on an element, blank or filled before: the type first, the *)
(* value and free_required as the callbacks answer.  The elements of a new  *)
(* array are further steps.                                                 *)
(***************************************************************************)
ConstructScalar(s) ==
  /\ Quiet
  /\ \/ Write(s, Cdt("scalar", Bits, FALSE))
     \/ Write(s, Cdt("null", slot[s].val, FALSE))
  /\ UNCHANGED <<hdr, heap, buf, gave, torn, stale, spent>> /\ NoDestruction

\* The callback gets the address of free_required, which is not reset for it:
\* it may leave there what an earlier value, or the default, has put.
Unsaid(s, t, left) == Write(s, Cdt(t, Host, left)) /\ stale' = (stale \/ left)

ConstructString(s) ==
  /\ Quiet
  /\ \/ Allocate("string") /\ Write(s, Cdt("string", Fresh, TRUE)) /\ UNCHANGED stale
     \/ UNCHANGED <<heap, stale>> /\ Write(s, Cdt("string", Host, FALSE))
     \/ UNCHANGED heap /\ Unsaid(s, "string", slot[s].fr)
  /\ UNCHANGED <<hdr, buf, gave, torn, spent>> /\ NoDestruction

ConstructHandle(s) ==
  /\ Quiet
  /\ \/ \E f \in BOOLEAN : Write(s, Cdt("handle", Host, f)) /\ gave' = (gave \/ f) /\ UNCHANGED stale
     \/ Unsaid(s, "handle", slot[s].fr) /\ UNCHANGED gave
  /\ UNCHANGED <<hdr, heap, buf, torn, spent>> /\ NoDestruction

\* Where the value is null a dummy callable is allocated first; what
\* get_callable returns, an object to be freed (gives) or the host's own, is
\* written over it.  The flag is TRUE before the call.
ConstructCallable(s, gives, f) ==
  LET dummies == IF slot[s].val = Null THEN {Fresh} ELSE {}
      others == {o \in Objs \ dummies : heap[o] = "unused"}
      new == IF gives THEN {CHOOSE o \in others : TRUE} ELSE {}
  IN
  /\ Quiet
  /\ dummies # {} => CanAllocate
  /\ gives => others # {} /\ f
  /\ heap' = [o \in Objs |-> IF o \in dummies \cup new THEN "callable" ELSE heap[o]]
  /\ slot' = [slot EXCEPT ![s] = Cdt("callable", IF gives THEN CHOOSE o \in others : TRUE ELSE Host, f)]
  /\ lost' = lost \cup dummies \cup Owns(slot[s])
  /\ stale' = (stale \/ (f /\ ~gives))
  /\ UNCHANGED <<hdr, buf, gave, torn, spent>> /\ NoDestruction

ConstructArray(s, n) ==
  /\ Quiet /\ NewArray(s, n)
  /\ UNCHANGED <<gave, torn, stale, spent>> /\ NoDestruction

\* The callback that delivers the value throws: the new type stands over the
\* old value and flag, except that a callable's flag is set before the call.
ConstructThrows(s, t) ==
  /\ Quiet
  /\ IF t # "callable"
     THEN UNCHANGED heap /\ Write(s, [slot[s] EXCEPT !.type = t])
     ELSE IF slot[s].val = Null
     THEN Allocate("callable") /\ Write(s, Cdt("callable", Fresh, TRUE))
     ELSE UNCHANGED heap /\ Write(s, Cdt("callable", slot[s].val, TRUE))
  /\ torn' = (torn \/ slot[s].val # Null)
  /\ UNCHANGED <<hdr, buf, gave, stale, spent>> /\ NoDestruction
------------------------------------------------------------------------------
(***************************************************************************)
(* ~cdt on one element: free() by type and flag.  Deleting an array header  *)
(* destroys the header, whose elements then are to be destroyed as well.    *)
(***************************************************************************)
Inert(c) == ~c.fr \/ c.type \in {"null", "scalar"} \/ c.val = Null
Right(c) == IF c.type = "handle" THEN c.val = Host ELSE c.val \in Objs /\ heap[c.val] = c.type

DestroyInert(s) ==
  /\ Inert(slot[s]) /\ todo' = todo \ {s}
  /\ UNCHANGED <<hdr, slot, heap, buf, zeroed, fault>>

DestroyObject(s) ==
  LET o == slot[s].val IN
  /\ ~Inert(slot[s]) /\ slot[s].type \in {"string", "callable"} /\ Right(slot[s])
  /\ heap' = [heap EXCEPT ![o] = "freed"]
  /\ slot' = [slot EXCEPT ![s].val = Null]
  /\ todo' = todo \ {s}
  /\ UNCHANGED <<hdr, buf, zeroed, fault>>

DestroyArray_Shallow(s) ==    \* mutant: the header goes, its buffer stays
  LET o == slot[s].val IN
  /\ ~Inert(slot[s]) /\ slot[s].type = "array" /\ Right(slot[s])
  /\ heap' = [heap EXCEPT ![o] = "freed"]
  /\ slot' = [slot EXCEPT ![s].val = Null]
  /\ hdr' = [hdr EXCEPT ![o] = Empty]
  /\ todo' = todo \ {s}
  /\ UNCHANGED <<buf, zeroed, fault>>

DestroyArray(s) ==
  LET o == slot[s].val
      b == hdr[o].arr IN
  /\ ~Inert(slot[s]) /\ slot[s].type = "array" /\ Right(slot[s])
  /\ heap' = [heap EXCEPT ![o] = "freed"]
  /\ slot' = [slot EXCEPT ![s].val = Null]
  /\ hdr' = [hdr EXCEPT ![o] = Empty]
  /\ IF b = Null
     THEN todo' = todo \ {s} /\ UNCHANGED <<buf, fault>>
     ELSE /\ todo' = (todo \ {s}) \cup Of(b)
          /\ buf' = [buf EXCEPT ![b] = "freed"]
          /\ fault' = IF buf[b] = "live" THEN fault ELSE "bad_free"
  /\ UNCHANGED zeroed

\* The host's handle is not deleted but its fields are cleared.
DestroyHandle(s) ==
  /\ ~Inert(slot[s]) /\ slot[s].type = "handle" /\ Right(slot[s])
  /\ zeroed' = TRUE
  /\ slot' = [slot EXCEPT ![s].val = Null]
  /\ todo' = todo \ {s}
  /\ UNCHANGED <<hdr, heap, buf, fault>>

DestroyWrong(s) ==
  /\ ~Inert(slot[s]) /\ ~Right(slot[s])
  /\ fault' = "bad_free"
  /\ UNCHANGED <<hdr, slot, heap, buf, todo, zeroed>>

Destroy ==
  /\ fault = "none"
  /\ \E s \in todo : \/ DestroyInert(s) \/ DestroyObject(s) \/ DestroyArray(s)
                     \/ DestroyHandle(s) \/ DestroyWrong(s)
  /\ UNCHANGED <<then, lost, gave, torn, stale, spent>>

OnRoots ==
  \/ \E r \in Roots, n \in 0 .. MaxLen : NewRoot(r, n)
  \/ \E r \in Roots, b \in CacheBufs, n \in 1 .. MaxLen : CacheRoot(r, b, n)
  \/ \E r, q \in Roots : MoveConstruct(r, q) \/ MoveAssign(r, q)
  \/ \E r \in Roots : FreeRoot(r) \/ UseEmptied(r)

OnElement(s) ==
  \/ "scalar" \in Used /\ SetScalar(s)
  \/ "handle" \in Used /\ SetHandle(s)
  \/ SetFromTemporary(s)
  \/ "string" \in Used /\ \E f \in BOOLEAN : SetString(s, f)
  \/ "array" \in Used /\ \E n \in 0 .. MaxLen : SetArray(s, n)
  \/ \E q \in Elements : SetFromElement(s, q)

Construct(s) ==
  \/ "scalar" \in Used /\ ConstructScalar(s)
  \/ "string" \in Used /\ ConstructString(s)
  \/ "handle" \in Used /\ ConstructHandle(s)
  \/ "callable" \in Used /\ \E gives, f \in BOOLEAN : ConstructCallable(s, gives, f)
  \/ "array" \in Used /\ \E n \in 0 .. MaxLen : ConstructArray(s, n)
  \/ MayThrow /\ \E t \in Used \ {"null"} : ConstructThrows(s, t)

Next ==
  \/ OnRoots
  \/ \E s \in Elements : OnElement(s) \/ Construct(s)
  \/ FinishHandle
  \/ Destroy

Spec == Init /\ [][Next]_vars
------------------------------------------------------------------------------
\* Elements of existing buffers, and those still to be destroyed.
Places == {s \in Slots : buf[s[1]] = "live"} \cup todo
Owned == UNION {Owns(slot[s]) : s \in Places}
HeldBufs == {hdr[h].arr : h \in Headers}

TypeOK ==
  /\ hdr \in [Roots \cup Objs -> [arr : Bufs \cup {Null}, len : 0 .. MaxLen, cache : BOOLEAN]]
  /\ slot \in [Slots -> [type : Types, val : Objs \cup {Null, Bits, Host}, fr : BOOLEAN]]
  /\ heap \in [Objs -> Owning \cup {"unused", "freed"}]
  /\ buf \in [Bufs -> {"unused", "live", "freed"}]
  /\ todo \subseteq Slots /\ then \in Slots \cup {NoSlot}
  /\ lost \subseteq Objs \cup Bufs /\ spent \subseteq Roots
  /\ zeroed \in BOOLEAN /\ gave \in BOOLEAN /\ torn \in BOOLEAN /\ stale \in BOOLEAN
  /\ fault \in {"none", "bad_free", "null_array"}

(***************************************************************************)
(* Whatever a host does in whatever order, nothing is deleted twice, by the *)
(* wrong delete, or that the host or the cache owns - unless a callback     *)
(* threw while an element that held something was constructed anew, or left *)
(* the flag alone over one that was TRUE.                                   *)
(***************************************************************************)
NoBadFree == fault = "bad_free" => torn \/ stale

(***************************************************************************)
(* Each object and each buffer has at most one owner, and an owner's object *)
(* exists: no two destructors can meet, and none comes too late.            *)
(***************************************************************************)
OneOwner ==
  ~torn =>
    /\ \A s \in Places : Owns(slot[s]) \subseteq Live
    /\ \A s, q \in Places : s # q => Owns(slot[s]) \cap Owns(slot[q]) = {}
    /\ \A g, h \in Headers : g # h /\ hdr[g].arr = hdr[h].arr => hdr[g].arr = Null

(***************************************************************************)
(* What has no owner any more was overwritten: destruction itself leaks     *)
(* nothing, whatever the nesting, and what was overwritten is never freed   *)
(* later.                                                                   *)
(***************************************************************************)
LeaksAreOverwrites ==
  ~torn =>
    lost = (Live \ Owned) \cup ({b \in Bufs \ CacheBufs : buf[b] = "live"} \ HeldBufs)

\* A host's handle is cleared only if the host gave it away in get_handle, or
\* did not say and an earlier value of the element had left the flag TRUE.
HandlesKept == zeroed => gave \/ torn \/ stale

\* A cdts with a length and no buffer - the next access dereferences NULL -
\* was freed or moved from, or was assigned from one that was.
EmptiedByFreeOrMove ==
  \A r \in Roots : hdr[r].arr = Null /\ hdr[r].len > 0 => r \in spent
==============================================================================
