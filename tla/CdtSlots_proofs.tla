---------------------------- MODULE CdtSlots_proofs ----------------------------
(***************************************************************************)
(* Who owns what in a CDTS tree, for any number of header variables,        *)
(* buffers and objects and any length of arrays.  The invariant has a part  *)
(* for objects (elements own them), one for buffers (headers own them) and  *)
(* one for headers that were emptied; a throwing callback voids the first   *)
(* two, as it does in the code.  A callback that leaves a TRUE flag alone    *)
(* voids neither: the element then says that it owns what is the host's, no *)
(* object, and deleting it is where the process ends.                       *)
(***************************************************************************)
EXTENDS CdtSlots, TLAPS

AllHeaders == Roots \cup Objs
Cdts == [type : Types, val : Objs \cup {Null, Bits, Host}, fr : BOOLEAN]

------------------------------------------------------------------------------
(***************************************************************************)
(* The operators the model is built from.                                   *)
(***************************************************************************)

\* An element owns at most the object its value points to.
LEMMA OwnsOne ==
  ASSUME NEW c, NEW o
  PROVE  o \in Owns(c) <=> c.fr /\ c.type \in Owning /\ c.val = o /\ o \in Objs
  BY DEF Owns

\* What a new element is made of is of the right kinds.
LEMMA CdtTyped ==
  ASSUME NEW t \in Types, NEW v \in Objs \cup {Null, Bits, Host}, NEW f \in BOOLEAN
  PROVE  Cdt(t, v, f) \in Cdts
  BY DEF Cdt, Cdts

\* The elements of a buffer.
LEMMA OfBuffer ==
  ASSUME NEW b \in Bufs
  PROVE  /\ Of(b) \subseteq Slots
         /\ \A s \in Slots : s[1] \in Bufs /\ (s \in Of(b) <=> s[1] = b)
  BY DEF Of, Slots

\* The allocator returns an address, an unused one if there is one.
LEMMA FreshUnused ==
  /\ Fresh \in Objs /\ (CanAllocate => heap[Fresh] = "unused")
  /\ FreshBuf \in Bufs /\ (CanBuffer => buf[FreshBuf] = "unused")
<1>1. \E o \in Objs : CanAllocate => heap[o] = "unused"
  BY SlotsAssumption DEF CanAllocate
<1>2. \E b \in Bufs : CanBuffer => buf[b] = "unused"
  BY SlotsAssumption DEF CanBuffer
<1> QED
  BY <1>1, <1>2 DEF Fresh, FreshBuf

\* The addresses are apart from one another and from the values that are none.
LEMMA Apart ==
  /\ \A o \in Objs : o \notin {Null, Bits, Host} /\ o \notin Roots /\ o \notin Bufs
  /\ Null \notin Bufs
  /\ \A c \in Cdts : /\ c.type \in Types /\ c.fr \in BOOLEAN
                     /\ c.val \in Objs \cup {Null, Bits, Host} /\ Owns(c) \subseteq Objs
  BY SlotsAssumption DEF Null, Bits, Host, Cdts, Owns

------------------------------------------------------------------------------
(***************************************************************************)
(* The kinds of values, action by action.                                   *)
(***************************************************************************)
\* Blank elements, empty headers.
LEMMA TypeInit == Init => TypeOK
<1> SUFFICES ASSUME Init PROVE TypeOK
  OBVIOUS
<1>1. Blank \in Cdts /\ Empty \in [arr : Bufs \cup {Null}, len : 0 .. MaxLen, cache : BOOLEAN]
  BY SlotsAssumption DEF Blank, Cdt, Cdts, Types, Empty, Header
<1>2. QED
  BY <1>1 DEF Init, TypeOK, Cdts, NoSlot

\* A header that fits is written.
LEMMA HeaderTyped ==
  ASSUME NEW b \in Bufs \cup {Null}, NEW n \in 0 .. MaxLen, NEW c \in BOOLEAN
  PROVE  Header(b, n, c) \in [arr : Bufs \cup {Null}, len : 0 .. MaxLen, cache : BOOLEAN]
  BY DEF Header

\* An empty header fits.
LEMMA EmptyTyped == Empty \in [arr : Bufs \cup {Null}, len : 0 .. MaxLen, cache : BOOLEAN]
  BY HeaderTyped, SlotsAssumption, 0 \in 0 .. MaxLen, FALSE \in BOOLEAN DEF Empty

\* Overwriting an element.
LEMMA WriteTyped ==
  ASSUME TypeOK, NEW s \in Slots, NEW c \in Cdts, Write(s, c)
  PROVE  slot' \in [Slots -> Cdts] /\ lost' \subseteq Objs \cup Bufs
  BY Apart DEF Write, TypeOK, Cdts

\* Allocating an object.
LEMMA AllocateTyped ==
  ASSUME TypeOK, NEW t \in Owning, Allocate(t)
  PROVE  heap' \in [Objs -> Owning \cup {"unused", "freed"}]
  BY FreshUnused DEF Allocate, TypeOK

\* The elements a host can name are elements.
LEMMA ElementsTyped == ASSUME TypeOK, NEW s \in Elements PROVE s \in Slots /\ slot[s] \in Cdts
  BY DEF TypeOK, Elements, Cdts

\* A new array: an object, a header, a buffer and the element.
LEMMA TypeNewArray ==
  ASSUME TypeOK, NEW s \in Slots, NEW n \in 0 .. MaxLen, NewArray(s, n)
  PROVE  /\ slot' \in [Slots -> Cdts] /\ lost' \subseteq Objs \cup Bufs
         /\ heap' \in [Objs -> Owning \cup {"unused", "freed"}]
         /\ hdr' \in [AllHeaders -> [arr : Bufs \cup {Null}, len : 0 .. MaxLen, cache : BOOLEAN]]
         /\ buf' \in [Bufs -> {"unused", "live", "freed"}]
<1>1. Allocate("array") /\ Write(s, Cdt("array", Fresh, TRUE))
  BY DEF NewArray
<1>2. Cdt("array", Fresh, TRUE) \in Cdts
  BY FreshUnused, CdtTyped DEF Types, Owning
<1>3. slot' \in [Slots -> Cdts] /\ lost' \subseteq Objs \cup Bufs
  BY <1>1, <1>2, WriteTyped
<1>4. heap' \in [Objs -> Owning \cup {"unused", "freed"}]
  BY <1>1, AllocateTyped DEF Owning
<1>5. /\ hdr' \in [AllHeaders -> [arr : Bufs \cup {Null}, len : 0 .. MaxLen, cache : BOOLEAN]]
      /\ buf' \in [Bufs -> {"unused", "live", "freed"}]
  <2>1. Header(FreshBuf, n, FALSE) \in [arr : Bufs \cup {Null}, len : 0 .. MaxLen, cache : BOOLEAN]
    BY FreshUnused, HeaderTyped
  <2> QED
    <3>1. /\ Fresh \in Objs /\ FreshBuf \in Bufs
          /\ hdr' = [hdr EXCEPT ![Fresh] = Empty] \/ hdr' = [hdr EXCEPT ![Fresh] = Header(FreshBuf, n, FALSE)]
          /\ buf' = buf \/ buf' = [buf EXCEPT ![FreshBuf] = "live"]
      BY FreshUnused DEF NewArray
    <3>2. hdr' \in [AllHeaders -> [arr : Bufs \cup {Null}, len : 0 .. MaxLen, cache : BOOLEAN]]
      BY <2>1, <3>1, EmptyTyped DEF TypeOK, AllHeaders
    <3>3. buf' \in [Bufs -> {"unused", "live", "freed"}]
      BY <3>1 DEF TypeOK
    <3> QED
      BY <3>2, <3>3
<1> QED
  BY <1>3, <1>4, <1>5

\* What the host does to its variables.
LEMMA TypeOnRoots == TypeOK /\ OnRoots => TypeOK'
<1> SUFFICES ASSUME TypeOK, OnRoots PROVE TypeOK'
  OBVIOUS
<1> USE DEF NoDestruction, AllHeaders
<1>1. ASSUME NEW r \in Roots, NEW n \in 0 .. MaxLen, NewRoot(r, n) PROVE TypeOK'
  <2>1. Header(FreshBuf, n, FALSE) \in [arr : Bufs \cup {Null}, len : 0 .. MaxLen, cache : BOOLEAN]
    BY FreshUnused, HeaderTyped
  <2>2. /\ hdr' \in [Roots \cup Objs -> [arr : Bufs \cup {Null}, len : 0 .. MaxLen, cache : BOOLEAN]]
        /\ buf' \in [Bufs -> {"unused", "live", "freed"}]
    <3>1. /\ FreshBuf \in Bufs
          /\ hdr' = [hdr EXCEPT ![r] = Empty] \/ hdr' = [hdr EXCEPT ![r] = Header(FreshBuf, n, FALSE)]
          /\ buf' = buf \/ buf' = [buf EXCEPT ![FreshBuf] = "live"]
      BY <1>1, FreshUnused DEF NewRoot
    <3>2. hdr' \in [Roots \cup Objs -> [arr : Bufs \cup {Null}, len : 0 .. MaxLen, cache : BOOLEAN]]
      BY <2>1, <3>1, EmptyTyped DEF TypeOK
    <3>3. buf' \in [Bufs -> {"unused", "live", "freed"}]
      BY <3>1 DEF TypeOK
    <3> QED
      BY <3>2, <3>3
  <2> QED
    BY <1>1, <2>2 DEF NewRoot, TypeOK
<1>2. ASSUME NEW r \in Roots, NEW b \in CacheBufs, NEW n \in 1 .. MaxLen, CacheRoot(r, b, n)
      PROVE  TypeOK'
  <2>1. Header(b, n, TRUE) \in [arr : Bufs \cup {Null}, len : 0 .. MaxLen, cache : BOOLEAN]
    BY SlotsAssumption DEF Header
  <2> QED
    BY <1>2, <2>1 DEF CacheRoot, TypeOK
<1>3. ASSUME NEW r \in Roots, NEW q \in Roots, MoveConstruct(r, q) PROVE TypeOK'
  <2>1. [hdr[q] EXCEPT !.arr = Null] \in [arr : Bufs \cup {Null}, len : 0 .. MaxLen, cache : BOOLEAN]
    BY DEF TypeOK
  <2>2. hdr' = [hdr EXCEPT ![r] = hdr[q], ![q] = [hdr[q] EXCEPT !.arr = Null]]
    BY <1>3 DEF MoveConstruct, TypeOK
  <2> QED
    BY <1>3, <2>1, <2>2 DEF MoveConstruct, TypeOK
<1>4. ASSUME NEW r \in Roots, NEW q \in Roots, MoveAssign(r, q) PROVE TypeOK'
  BY <1>4, EmptyTyped DEF MoveAssign, TypeOK
<1>5. ASSUME NEW r \in Roots, FreeRoot(r) PROVE TypeOK'
  <2>1. hdr[r].arr \in Bufs /\ hdr[r].len \in 0 .. MaxLen
    BY <1>5 DEF FreeRoot, TypeOK
  <2>2. todo' \subseteq Slots
    BY <1>5, <2>1, SlotsAssumption, OfBuffer DEF FreeRoot, Slots
  <2> QED
    BY <1>5, <2>1, <2>2 DEF FreeRoot, TypeOK
<1>6. ASSUME NEW r \in Roots, UseEmptied(r) PROVE TypeOK'
  BY <1>6 DEF UseEmptied, TypeOK
<1> QED
  BY <1>1, <1>2, <1>3, <1>4, <1>5, <1>6 DEF OnRoots

\* What it does to an element through the setters.
LEMMA TypeOnElement == ASSUME TypeOK, NEW s \in Elements, OnElement(s) PROVE TypeOK'
<1> USE DEF NoDestruction
<1>s. s \in Slots /\ slot[s] \in Cdts
  BY ElementsTyped
<1>1. CASE SetScalar(s)
  <2>1. Cdt("scalar", Bits, slot[s].fr) \in Cdts
    BY <1>s, Apart, CdtTyped DEF Types
  <2> QED
    BY <1>1, <1>s, <2>1, WriteTyped DEF SetScalar, TypeOK, Cdts
<1>2. CASE SetHandle(s)
  BY <1>2, <1>s DEF SetHandle, TypeOK
<1>3. CASE SetFromTemporary(s)
  <2>1. Cdt("callable", Fresh, TRUE) \in Cdts /\ Cdt("scalar", Bits, FALSE) \in Cdts
    BY FreshUnused, CdtTyped DEF Types, Owning
  <2>2. slot' \in [Slots -> Cdts] /\ lost' \subseteq Objs \cup Bufs
    BY <1>3, <1>s, <2>1, WriteTyped DEF SetFromTemporary
  <2>3. heap' \in [Objs -> Owning \cup {"unused", "freed"}]
    BY <1>3, AllocateTyped DEF SetFromTemporary, Owning, TypeOK
  <2> QED
    BY <1>3, <2>2, <2>3 DEF SetFromTemporary, TypeOK, Cdts
<1>4. ASSUME NEW f \in BOOLEAN, SetString(s, f) PROVE TypeOK'
  <2>1. Cdt("string", Fresh, TRUE) \in Cdts /\ Cdt("string", Host, FALSE) \in Cdts
    BY FreshUnused, CdtTyped DEF Types, Owning
  <2>2. slot' \in [Slots -> Cdts] /\ lost' \subseteq Objs \cup Bufs
    BY <1>4, <1>s, <2>1, WriteTyped DEF SetString
  <2>3. heap' \in [Objs -> Owning \cup {"unused", "freed"}]
    BY <1>4, AllocateTyped DEF SetString, Owning, TypeOK
  <2> QED
    BY <1>4, <2>2, <2>3 DEF SetString, TypeOK, Cdts
<1>5. ASSUME NEW n \in 0 .. MaxLen, SetArray(s, n) PROVE TypeOK'
  BY <1>5, <1>s, TypeNewArray DEF SetArray, TypeOK, Cdts, AllHeaders
<1>6. ASSUME NEW q \in Elements, SetFromElement(s, q) PROVE TypeOK'
  <2>1. q \in Slots /\ slot[q] \in Cdts
    BY ElementsTyped
  <2>2. Blank \in Cdts
    BY CdtTyped DEF Blank, Types
  <2>3. slot' \in [Slots -> Cdts] /\ lost' \subseteq Objs \cup Bufs
    BY <1>6, <1>s, <2>1, <2>2, Apart DEF SetFromElement, TypeOK, Cdts
  <2> QED
    BY <1>6, <2>3 DEF SetFromElement, TypeOK, Cdts
<1> QED
  BY <1>1, <1>2, <1>3, <1>4, <1>5, <1>6 DEF OnElement

\* What is the host's, with the flag as it was.
LEMMA UnsaidTyped ==
  ASSUME TypeOK, NEW s \in Slots, slot[s] \in Cdts, NEW t \in Types, Unsaid(s, t, slot[s].fr)
  PROVE  slot' \in [Slots -> Cdts] /\ lost' \subseteq Objs \cup Bufs /\ stale' \in BOOLEAN
<1>1. slot[s].fr \in BOOLEAN
  BY Apart
<1>2. Cdt(t, Host, slot[s].fr) \in Cdts
  BY <1>1, CdtTyped
<1>3. Write(s, Cdt(t, Host, slot[s].fr)) /\ stale' = (stale \/ slot[s].fr)
  BY DEF Unsaid
<1> QED
  BY <1>1, <1>2, <1>3, WriteTyped DEF TypeOK

\* What a construction does to an element.
LEMMA TypeConstruct == ASSUME TypeOK, NEW s \in Elements, Construct(s) PROVE TypeOK'
<1> USE DEF NoDestruction
<1>s. s \in Slots /\ slot[s] \in Cdts
  BY ElementsTyped
<1>1. CASE ConstructScalar(s)
  <2>1. Cdt("scalar", Bits, FALSE) \in Cdts /\ Cdt("null", slot[s].val, FALSE) \in Cdts
    BY <1>s, Apart, CdtTyped DEF Types
  <2>2. slot' \in [Slots -> Cdts] /\ lost' \subseteq Objs \cup Bufs
    BY <1>1, <1>s, <2>1, WriteTyped DEF ConstructScalar
  <2> QED
    BY <1>1, <2>2 DEF ConstructScalar, TypeOK, Cdts
<1>2. CASE ConstructString(s)
  <2>1. Cdt("string", Fresh, TRUE) \in Cdts /\ Cdt("string", Host, FALSE) \in Cdts
    BY FreshUnused, CdtTyped DEF Types, Owning
  <2>2. slot' \in [Slots -> Cdts] /\ lost' \subseteq Objs \cup Bufs
    BY <1>2, <1>s, <2>1, UnsaidTyped, WriteTyped DEF ConstructString, Types, Owning
  <2>3. heap' \in [Objs -> Owning \cup {"unused", "freed"}]
    BY <1>2, AllocateTyped DEF ConstructString, Owning, TypeOK
  <2>4. stale' \in BOOLEAN
    BY <1>2, <1>s, UnsaidTyped DEF ConstructString, TypeOK, Types, Owning
  <2> QED
    BY <1>2, <2>2, <2>3, <2>4 DEF ConstructString, TypeOK, Cdts
<1>3. CASE ConstructHandle(s)
  <2>1. \A f \in BOOLEAN : Cdt("handle", Host, f) \in Cdts
    BY CdtTyped DEF Types
  <2>2. slot' \in [Slots -> Cdts] /\ lost' \subseteq Objs \cup Bufs
    BY <1>3, <1>s, <2>1, UnsaidTyped, WriteTyped DEF ConstructHandle, Types
  <2>3. gave' \in BOOLEAN /\ stale' \in BOOLEAN
    BY <1>3, <1>s, UnsaidTyped DEF ConstructHandle, TypeOK, Types
  <2> QED
    BY <1>3, <2>2, <2>3 DEF ConstructHandle, TypeOK, Cdts
<1>4. ASSUME NEW gives \in BOOLEAN, NEW f \in BOOLEAN, ConstructCallable(s, gives, f) PROVE TypeOK'
  <2> DEFINE dummies == IF slot[s].val = Null THEN {Fresh} ELSE {}
             others == {o \in Objs \ dummies : heap[o] = "unused"}
             new == CHOOSE o \in others : TRUE
             c == Cdt("callable", IF gives THEN new ELSE Host, f)
  <2>1. gives => new \in Objs
    BY <1>4 DEF ConstructCallable
  <2>2. c \in Cdts
    BY <2>1, CdtTyped DEF Types, Owning
  <2>3. /\ slot' = [slot EXCEPT ![s] = c] /\ lost' = lost \cup dummies \cup Owns(slot[s])
        /\ \E H : heap' = [o \in Objs |-> IF o \in H THEN "callable" ELSE heap[o]]
        /\ stale' = (stale \/ (f /\ ~gives))
        /\ UNCHANGED <<hdr, buf, gave, torn, spent, todo, then, zeroed, fault>>
    BY <1>4 DEF ConstructCallable
  <2>4. heap' \in [Objs -> Owning \cup {"unused", "freed"}]
    BY <2>3 DEF TypeOK, Owning
  <2>5. slot' \in [Slots -> Cdts] /\ lost' \subseteq Objs \cup Bufs
    BY <2>2, <2>3, <1>s, FreshUnused, Apart DEF TypeOK, Cdts
  <2> HIDE DEF dummies, others, new, c
  <2> QED
    BY <2>3, <2>4, <2>5 DEF TypeOK, Cdts
<1>5. ASSUME NEW n \in 0 .. MaxLen, ConstructArray(s, n) PROVE TypeOK'
  BY <1>5, <1>s, TypeNewArray DEF ConstructArray, TypeOK, Cdts, AllHeaders
<1>6. ASSUME NEW t \in Used \ {"null"}, ConstructThrows(s, t) PROVE TypeOK'
  <2>1. /\ [slot[s] EXCEPT !.type = t] \in Cdts
        /\ Cdt("callable", Fresh, TRUE) \in Cdts /\ Cdt("callable", slot[s].val, TRUE) \in Cdts
    BY <1>s, FreshUnused, CdtTyped, Apart, SlotsAssumption DEF Cdts, Types, Owning
  <2>2. slot' \in [Slots -> Cdts] /\ lost' \subseteq Objs \cup Bufs
    BY <1>6, <1>s, <2>1, WriteTyped DEF ConstructThrows
  <2>3. heap' \in [Objs -> Owning \cup {"unused", "freed"}]
    BY <1>6, AllocateTyped DEF ConstructThrows, Owning, TypeOK
  <2> QED
    BY <1>6, <2>2, <2>3 DEF ConstructThrows, TypeOK, Cdts
<1> QED
  BY <1>1, <1>2, <1>3, <1>4, <1>5, <1>6 DEF Construct

\* The destructor of an element.
LEMMA TypeDestroy == TypeOK /\ Destroy => TypeOK'
<1> SUFFICES ASSUME TypeOK, Destroy PROVE TypeOK'
  OBVIOUS
<1>1. UNCHANGED <<then, lost, gave, torn, stale, spent>>
  BY DEF Destroy
<1>2. PICK s \in todo : \/ DestroyInert(s) \/ DestroyObject(s) \/ DestroyArray(s)
                        \/ DestroyHandle(s) \/ DestroyWrong(s)
  BY DEF Destroy
<1>s. s \in Slots /\ slot[s] \in Cdts /\ todo \subseteq Slots
  BY DEF TypeOK, Cdts
<1>n. [slot[s] EXCEPT !.val = Null] \in Cdts
  BY <1>s DEF Cdts
<1>3. CASE DestroyInert(s)
  BY <1>1, <1>3 DEF DestroyInert, TypeOK
<1>4. CASE DestroyObject(s)
  BY <1>1, <1>4, <1>s, <1>n DEF DestroyObject, TypeOK, Cdts
<1>5. CASE DestroyArray(s)
  <2>1. slot[s].val \in Objs
    BY <1>5 DEF DestroyArray, Right
  <2>2. hdr[slot[s].val].arr \in Bufs \cup {Null}
    BY <2>1 DEF TypeOK
  <2>3. /\ todo' \subseteq Slots /\ buf' \in [Bufs -> {"unused", "live", "freed"}]
        /\ fault' \in {"none", "bad_free", "null_array"}
    BY <1>5, <1>s, <2>2, OfBuffer DEF DestroyArray, TypeOK
  <2>4. /\ slot' \in [Slots -> Cdts] /\ heap' \in [Objs -> Owning \cup {"unused", "freed"}]
        /\ hdr' \in [Roots \cup Objs -> [arr : Bufs \cup {Null}, len : 0 .. MaxLen, cache : BOOLEAN]]
    BY <1>5, <1>s, <1>n, <2>1, EmptyTyped DEF DestroyArray, TypeOK, Cdts
  <2> QED
    BY <1>1, <1>5, <2>3, <2>4 DEF DestroyArray, TypeOK, Cdts
<1>6. CASE DestroyHandle(s)
  BY <1>1, <1>6, <1>s, <1>n DEF DestroyHandle, TypeOK, Cdts
<1>7. CASE DestroyWrong(s)
  BY <1>1, <1>7 DEF DestroyWrong, TypeOK
<1> QED
  BY <1>2, <1>3, <1>4, <1>5, <1>6, <1>7

\* The types are inductive by themselves.
LEMMA TypeStep == TypeOK /\ [Next]_vars => TypeOK'
<1> SUFFICES ASSUME TypeOK, [Next]_vars PROVE TypeOK'
  OBVIOUS
<1>1. CASE FinishHandle
  <2>1. then \in Slots /\ Cdt("handle", Host, FALSE) \in Cdts
    BY <1>1, CdtTyped DEF FinishHandle, TypeOK, Types
  <2>2. slot' \in [Slots -> Cdts] /\ lost' \subseteq Objs \cup Bufs
    BY <1>1, <2>1, WriteTyped DEF FinishHandle
  <2> QED
    BY <1>1, <2>2 DEF FinishHandle, TypeOK, Cdts
<1>2. CASE UNCHANGED vars
  BY <1>2 DEF vars, TypeOK
<1> QED
  BY <1>1, <1>2, TypeOnRoots, TypeOnElement, TypeConstruct, TypeDestroy DEF Next

------------------------------------------------------------------------------
(***************************************************************************)
(* Elements and the objects they own.  What an element will delete is there *)
(* and of its type (or, after a flag left TRUE, something of the host's);   *)
(* no two will delete the same; what is neither in a live buffer nor about  *)
(* to be destroyed owns nothing; and an object is lost if and only if it is *)
(* there and nothing owns it.                                               *)
(***************************************************************************)
SlotsSane ==
  \A s \in Slots : Inert(slot[s]) \/ Right(slot[s]) \/ (stale /\ slot[s].val = Host)
SlotsApart == \A s, q \in Slots : s # q => Owns(slot[s]) \cap Owns(slot[q]) = {}
OutsideEmpty == \A s \in Slots \ Places : Owns(slot[s]) = {}
LostObjs ==
  \A o \in Objs : o \in lost <=> heap[o] \in Owning /\ \A s \in Slots : o \notin Owns(slot[s])
HandlesOurs ==
  ~gave /\ ~stale => \A s \in Slots : slot[s].type = "handle" /\ slot[s].fr => slot[s].val = Null

ObjInv == SlotsSane /\ SlotsApart /\ OutsideEmpty /\ LostObjs /\ HandlesOurs

\* Blank elements own nothing, and nothing is allocated.
LEMMA ObjInvInit == Init => ObjInv
<1> SUFFICES ASSUME Init PROVE ObjInv
  OBVIOUS
<1>1. \A s \in Slots : Inert(slot[s]) /\ Owns(slot[s]) = {} /\ slot[s].type = "null"
  BY DEF Init, Blank, Cdt, Inert, Owns, Owning
<1>2. \A o \in Objs : heap[o] = "unused" /\ o \notin lost
  BY DEF Init
<1> QED
  BY <1>1, <1>2 DEF ObjInv, SlotsSane, SlotsApart, OutsideEmpty, LostObjs, HandlesOurs, Owning

\* An element is overwritten by one that owns nothing, or what was just
\* allocated.
LEMMA PutKeeps ==
  ASSUME TypeOK, ObjInv,
         NEW s \in Slots, NEW c \in Cdts, NEW new \in SUBSET Objs, NEW t \in Owning,
         \A o \in new : heap[o] = "unused",
         slot' = [slot EXCEPT ![s] = c],
         \A o \in Objs : heap'[o] = IF o \in new THEN t ELSE heap[o],
         \A o \in Objs : o \in lost' <=> o \in lost \cup Owns(slot[s]) \cup (new \ Owns(c)),
         c.fr /\ c.type \in Owning =>
           c.val = Null \/ (c.type = t /\ c.val \in new /\ s \in Places') \/ (c.val = Host /\ stale'),
         c.fr /\ c.type = "handle" => c.val = Null \/ (c.val = Host /\ (gave' \/ stale')),
         Places \subseteq Places', (gave => gave'), (stale => stale')
  PROVE  ObjInv'
<1>1. Owns(c) \subseteq new /\ (Owns(c) # {} => s \in Places')
  BY Apart DEF Owns
<1>2. /\ \A q \in Slots : slot'[q] = IF q = s THEN c ELSE slot[q]
      /\ \A o \in Objs : heap'[o] = IF o \in new THEN t ELSE heap[o]
  BY DEF TypeOK
<1>3. \A q \in Slots : Owns(slot[q]) \cap new = {}
  <2> SUFFICES ASSUME NEW q \in Slots, NEW o \in new, o \in Owns(slot[q]) PROVE FALSE
    OBVIOUS
  <2>1. slot[q].fr /\ slot[q].type \in Owning /\ slot[q].val = o /\ o \in Objs
    BY OwnsOne
  <2>2. Right(slot[q])
    BY <2>1, Apart DEF ObjInv, SlotsSane, Inert, Owning
  <2> QED
    BY <2>1, <2>2 DEF Right, Owning
<1>4. SlotsSane'
  <2> SUFFICES ASSUME NEW q \in Slots PROVE (Inert(slot[q]) \/ Right(slot[q]) \/ (stale /\ slot[q].val = Host))'
    BY DEF SlotsSane
  <2>1. CASE q = s
    <3>1. slot'[q] = c
      BY <2>1, <1>2
    <3>2. CASE c.fr /\ c.type \in Owning /\ c.val # Null /\ ~(c.val = Host /\ stale')
      BY <3>1, <3>2, <1>2 DEF Right, Owning
    <3>3. CASE c.fr /\ c.type = "handle" /\ c.val # Null
      BY <3>1, <3>3 DEF Right
    <3>4. CASE ~c.fr \/ c.type \in {"null", "scalar"} \/ c.val = Null
      BY <3>1, <3>4 DEF Inert
    <3>5. CASE c.val = Host /\ stale'
      BY <3>1, <3>5
    <3> QED
      BY <3>2, <3>3, <3>4, <3>5, Apart DEF Types
  <2>2. CASE q # s
    <3>1. slot'[q] = slot[q] /\ (Inert(slot[q]) \/ Right(slot[q]) \/ (stale /\ slot[q].val = Host))
      BY <2>2, <1>2 DEF ObjInv, SlotsSane
    <3>2. CASE Inert(slot[q])
      BY <3>1, <3>2 DEF Inert
    <3>3. CASE ~Inert(slot[q]) /\ Right(slot[q])
      <4>1. CASE slot[q].type = "handle"
        BY <3>1, <3>3, <4>1 DEF Right
      <4>2. CASE slot[q].type # "handle"
        <5>1. slot[q].type \in Owning /\ slot[q].fr /\ slot[q].val \in Objs
          BY <3>3, <4>2 DEF Inert, Right, TypeOK, Types
        <5>2. slot[q].val \notin new
          BY <5>1, <1>3, OwnsOne
        <5> QED
          BY <3>1, <3>3, <4>2, <5>1, <5>2, <1>2 DEF Right
      <4> QED
        BY <4>1, <4>2
    <3> QED
      BY <3>1, <3>2, <3>3
  <2> QED
    BY <2>1, <2>2
<1>5. SlotsApart'
  BY <1>1, <1>2, <1>3 DEF ObjInv, SlotsApart
<1>6. OutsideEmpty'
  BY <1>1, <1>2 DEF ObjInv, OutsideEmpty
<1>7. LostObjs'
  <2> SUFFICES ASSUME NEW o \in Objs
               PROVE  o \in lost' <=> heap'[o] \in Owning /\ \A q \in Slots : o \notin Owns(slot'[q])
    BY DEF LostObjs
  <2>1. o \in lost <=> heap[o] \in Owning /\ \A q \in Slots : o \notin Owns(slot[q])
    BY DEF ObjInv, LostObjs
  <2>2. o \in lost' <=> o \in lost \cup Owns(slot[s]) \cup (new \ Owns(c))
    OBVIOUS
  <2>3. CASE o \in new
    BY <2>1, <2>2, <2>3, <1>1, <1>2, <1>3 DEF Owning
  <2>4. CASE o \notin new /\ o \in Owns(slot[s])
    <3>1. \A q \in Slots : o \notin Owns(slot'[q])
      BY <2>4, <1>1, <1>2 DEF ObjInv, SlotsApart
    <3>2. heap[o] \in Owning
      <4>1. slot[s].fr /\ slot[s].type \in Owning /\ slot[s].val = o
        BY <2>4, OwnsOne
      <4> QED
        BY <4>1, Apart DEF ObjInv, SlotsSane, Inert, Right, Owning
    <3> QED
      BY <3>1, <3>2, <2>2, <2>4, <1>2
  <2>5. CASE o \notin new /\ o \notin Owns(slot[s])
    BY <2>1, <2>2, <2>5, <1>1, <1>2
  <2> QED
    BY <2>3, <2>4, <2>5
<1>8. HandlesOurs'
  BY <1>2 DEF ObjInv, HandlesOurs
<1> QED
  BY <1>4, <1>5, <1>6, <1>7, <1>8 DEF ObjInv

\* An element moves to another one and leaves a blank.
LEMMA MoveKeeps ==
  ASSUME TypeOK, ObjInv, NEW s \in Slots, NEW q \in Slots, s \in Places,
         slot' = [slot EXCEPT ![s] = slot[q], ![q] = Blank],
         lost' = lost \cup Owns(slot[s]),
         UNCHANGED <<heap, buf, todo, gave, stale>>
  PROVE  ObjInv'
<1>1. /\ Inert(Blank) /\ Owns(Blank) = {} /\ Blank.type = "null"
      /\ Places' = Places
  BY DEF Blank, Cdt, Inert, Owns, Owning, Places
<1>2. \A p \in Slots : slot'[p] = IF p = q THEN Blank ELSE IF p = s THEN slot[q] ELSE slot[p]
  BY DEF TypeOK
<1>4. SlotsSane'
  <2> SUFFICES ASSUME NEW p \in Slots PROVE (Inert(slot[p]) \/ Right(slot[p]) \/ (stale /\ slot[p].val = Host))'
    BY DEF SlotsSane
  <2>1. \E r \in Slots : slot'[p] = Blank \/ slot'[p] = slot[r]
    BY <1>2
  <2>2. /\ heap' = heap /\ stale' = stale
        /\ \A r \in Slots : Inert(slot[r]) \/ Right(slot[r]) \/ (stale /\ slot[r].val = Host)
    BY DEF ObjInv, SlotsSane
  <2> QED
    BY <1>1, <2>1, <2>2 DEF Inert, Right
<1>5. SlotsApart'
  <2> SUFFICES ASSUME NEW p \in Slots, NEW r \in Slots, p # r
               PROVE  Owns(slot'[p]) \cap Owns(slot'[r]) = {}
    BY DEF SlotsApart
  <2>1. \A x, y \in Slots : x # y => Owns(slot[x]) \cap Owns(slot[y]) = {}
    BY DEF ObjInv, SlotsApart
  <2>2. CASE p = q \/ r = q
    BY <1>1, <1>2, <2>2
  <2>3. CASE p # q /\ r # q
    BY <1>2, <2>1, <2>3
  <2> QED
    BY <2>2, <2>3
<1>6. OutsideEmpty'
  BY <1>1, <1>2 DEF ObjInv, OutsideEmpty
<1>7. LostObjs'
  <2> SUFFICES ASSUME NEW o \in Objs
               PROVE  o \in lost' <=> heap[o] \in Owning /\ \A p \in Slots : o \notin Owns(slot'[p])
    BY DEF LostObjs
  <2>1. o \in lost <=> heap[o] \in Owning /\ \A p \in Slots : o \notin Owns(slot[p])
    BY DEF ObjInv, LostObjs
  <2>2. CASE o \in Owns(slot[s])
    <3>1. heap[o] \in Owning
      <4>1. slot[s].fr /\ slot[s].type \in Owning /\ slot[s].val = o
        BY <2>2, OwnsOne
      <4> QED
        BY <4>1, Apart DEF ObjInv, SlotsSane, Inert, Right, Owning
    <3>2. CASE s = q
      BY <2>2, <3>1, <3>2, <1>1, <1>2 DEF ObjInv, SlotsApart
    <3>3. CASE s # q
      BY <2>2, <3>1, <3>3, <1>1, <1>2 DEF ObjInv, SlotsApart
    <3> QED
      BY <3>2, <3>3
  <2>3. CASE o \notin Owns(slot[s])
    <3>1. (\A p \in Slots : o \notin Owns(slot'[p])) <=> (\A p \in Slots : o \notin Owns(slot[p]))
      BY <2>3, <1>1, <1>2
    <3> QED
      BY <2>1, <2>3, <3>1
  <2> QED
    BY <2>2, <2>3
<1>8. HandlesOurs'
  <2> SUFFICES ASSUME ~gave, ~stale, NEW p \in Slots, slot'[p].type = "handle", slot'[p].fr
               PROVE  slot'[p].val = Null
    BY DEF HandlesOurs
  <2>1. p # q
    BY <1>1, <1>2
  <2>2. PICK r \in Slots : slot'[p] = slot[r]
    BY <1>2, <2>1
  <2>3. slot[r].type = "handle" /\ slot[r].fr => slot[r].val = Null
    BY DEF ObjInv, HandlesOurs
  <2> QED
    BY <2>2, <2>3
<1> QED
  BY <1>4, <1>5, <1>6, <1>7, <1>8 DEF ObjInv

\* Elements and objects stay as they are, and only elements that own nothing
\* leave the places.
LEMMA StayKeeps ==
  ASSUME ObjInv, UNCHANGED <<slot, heap>>, \A o \in Objs : o \in lost' <=> o \in lost,
         \A s \in Places \ Places' : Owns(slot[s]) = {}, (gave => gave'), (stale => stale')
  PROVE  ObjInv'
<1>1. SlotsSane' /\ SlotsApart'
  BY DEF ObjInv, SlotsSane, SlotsApart, Inert, Right
<1>2. OutsideEmpty'
  BY DEF ObjInv, OutsideEmpty
<1>3. LostObjs'
  BY DEF ObjInv, LostObjs
<1>4. HandlesOurs'
  BY DEF ObjInv, HandlesOurs
<1> QED
  BY <1>1, <1>2, <1>3, <1>4 DEF ObjInv

\* The destructor of an element deletes what the element owns.
LEMMA DeleteKeeps ==
  ASSUME TypeOK, ObjInv, NEW s \in Slots,
         ~Inert(slot[s]), slot[s].type \in Owning, Right(slot[s]),
         heap' = [heap EXCEPT ![slot[s].val] = "freed"],
         slot' = [slot EXCEPT ![s].val = Null],
         Places \subseteq Places' \cup {s}, UNCHANGED <<lost, gave, stale>>
  PROVE  ObjInv'
<1> DEFINE o == slot[s].val
<1>1. /\ o \in Objs /\ slot[s].fr /\ Owns(slot[s]) = {o}
  BY DEF Inert, Right, Owning, Owns
<1>2. /\ heap[o] \in Owning
  BY DEF Right, Owning
<1>3. /\ \A q \in Slots : q # s => slot'[q] = slot[q] /\ o \notin Owns(slot[q])
      /\ slot'[s].type = slot[s].type /\ slot'[s].val = Null
  BY <1>1 DEF TypeOK, ObjInv, SlotsApart
<1>4. Owns(slot'[s]) = {} /\ Inert(slot'[s])
  BY <1>3, Apart DEF Owns, Inert
<1>5. \A p \in Objs : heap'[p] = IF p = o THEN "freed" ELSE heap[p]
  BY <1>1 DEF TypeOK
<1> HIDE DEF o
<1>6. SlotsSane'
  <2> SUFFICES ASSUME NEW q \in Slots PROVE (Inert(slot[q]) \/ Right(slot[q]) \/ (stale /\ slot[q].val = Host))'
    BY DEF SlotsSane
  <2>1. CASE q = s
    BY <2>1, <1>4 DEF Inert
  <2>2. CASE q # s
    <3>1. /\ slot'[q] = slot[q] /\ o \notin Owns(slot[q])
          /\ Inert(slot[q]) \/ Right(slot[q]) \/ (stale /\ slot[q].val = Host)
      BY <2>2, <1>3 DEF ObjInv, SlotsSane
    <3>2. CASE Inert(slot[q]) \/ slot[q].type = "handle" \/ (stale /\ slot[q].val = Host)
      BY <3>1, <3>2 DEF Inert, Right
    <3>3. CASE ~Inert(slot[q]) /\ slot[q].type # "handle" /\ ~(stale /\ slot[q].val = Host)
      <4>1. slot[q].type \in Owning /\ slot[q].fr /\ slot[q].val \in Objs
        BY <3>1, <3>3 DEF Inert, Right, TypeOK, Types
      <4>2. slot[q].val # o
        BY <3>1, <4>1, OwnsOne
      <4> QED
        BY <3>1, <3>3, <4>1, <4>2, <1>5 DEF Right
    <3> QED
      BY <3>2, <3>3
  <2> QED
    BY <2>1, <2>2
<1>7. SlotsApart'
  BY <1>3, <1>4 DEF ObjInv, SlotsApart
<1>8. OutsideEmpty'
  BY <1>3, <1>4 DEF ObjInv, OutsideEmpty
<1>9. LostObjs'
  <2> SUFFICES ASSUME NEW p \in Objs
               PROVE  p \in lost <=> heap'[p] \in Owning /\ \A q \in Slots : p \notin Owns(slot'[q])
    BY DEF LostObjs
  <2>1. p \in lost <=> heap[p] \in Owning /\ \A q \in Slots : p \notin Owns(slot[q])
    BY DEF ObjInv, LostObjs
  <2>2. CASE p = o
    BY <2>1, <2>2, <1>1, <1>5 DEF Owning
  <2>3. CASE p # o
    BY <2>1, <2>3, <1>1, <1>3, <1>4, <1>5
  <2> QED
    BY <2>2, <2>3
<1>10. HandlesOurs'
  BY <1>3 DEF ObjInv, HandlesOurs
<1> QED
  BY <1>6, <1>7, <1>8, <1>9, <1>10 DEF ObjInv

\* What a destructor clears without deleting it owned nothing.
LEMMA ClearKeeps ==
  ASSUME TypeOK, ObjInv, NEW s \in Slots, slot[s].type = "handle",
         slot' = [slot EXCEPT ![s].val = Null],
         Places \subseteq Places' \cup {s}, UNCHANGED <<heap, lost, gave, stale>>
  PROVE  ObjInv'
<1>1. /\ \A q \in Slots : q # s => slot'[q] = slot[q]
      /\ slot'[s].type = slot[s].type /\ slot'[s].val = Null
  BY DEF TypeOK
<1>2. Owns(slot'[s]) = {} /\ Owns(slot[s]) = {} /\ Inert(slot'[s])
  BY <1>1, Apart DEF Owns, Owning, Inert
<1>3. SlotsSane'
  BY <1>1, <1>2 DEF ObjInv, SlotsSane, Inert, Right
<1>4. SlotsApart'
  BY <1>1, <1>2 DEF ObjInv, SlotsApart
<1>5. OutsideEmpty'
  BY <1>1, <1>2 DEF ObjInv, OutsideEmpty
<1>6. LostObjs'
  BY <1>1, <1>2 DEF ObjInv, LostObjs
<1>7. HandlesOurs'
  BY <1>1 DEF ObjInv, HandlesOurs
<1> QED
  BY <1>3, <1>4, <1>5, <1>6, <1>7 DEF ObjInv

------------------------------------------------------------------------------
(***************************************************************************)
(* Headers and the buffers they own.  A header's buffer is live, and it is  *)
(* the cache's if and only if the header says so; only live arrays and the  *)
(* host's variables have one; no two have the same; and a buffer is lost if *)
(* and only if it is live, not the cache's and nobody's.                    *)
(***************************************************************************)
HeadersFit ==
  \A h \in AllHeaders : hdr[h].arr # Null =>
    buf[hdr[h].arr] = "live" /\ (hdr[h].cache <=> hdr[h].arr \in CacheBufs)
OnlyArrays == \A o \in Objs : ~hdr[o].cache /\ (heap[o] # "array" => hdr[o] = Empty)
HeadersApart ==
  \A g, h \in AllHeaders : g # h /\ hdr[g].arr = hdr[h].arr => hdr[g].arr = Null
CacheLive == \A b \in CacheBufs : buf[b] = "live"
LostBufs ==
  \A b \in Bufs : b \in lost <=>
    b \notin CacheBufs /\ buf[b] = "live" /\ \A h \in AllHeaders : hdr[h].arr # b

BufInv == HeadersFit /\ OnlyArrays /\ HeadersApart /\ CacheLive /\ LostBufs

\* The fields of an empty header.
LEMMA EmptyFields == Empty.arr = Null /\ Empty.len = 0 /\ Empty.cache = FALSE
  BY DEF Empty, Header

\* Headers without buffers, of which only the cache's are live.
LEMMA BufInvInit == Init => BufInv
<1> SUFFICES ASSUME Init PROVE BufInv
  OBVIOUS
<1>1. \A h \in AllHeaders : hdr[h] = Empty
  BY DEF Init, AllHeaders
<1>2. \A b \in Bufs : b \notin lost /\ (buf[b] = "live" <=> b \in CacheBufs)
  BY DEF Init
<1> QED
  BY <1>1, <1>2, EmptyFields, SlotsAssumption
     DEF BufInv, HeadersFit, OnlyArrays, HeadersApart, CacheLive, LostBufs, AllHeaders

\* Headers and buffers stay as they are, and arrays remain arrays.
LEMMA BuffersStay ==
  ASSUME BufInv, UNCHANGED <<hdr, buf>>, \A b \in Bufs : b \in lost' <=> b \in lost,
         \A o \in Objs : heap[o] = "array" => heap'[o] = "array"
  PROVE  BufInv'
<1>1. HeadersFit' /\ HeadersApart' /\ CacheLive'
  BY DEF BufInv, HeadersFit, HeadersApart, CacheLive
<1>2. OnlyArrays'
  BY DEF BufInv, OnlyArrays
<1>3. LostBufs'
  BY DEF BufInv, LostBufs
<1> QED
  BY <1>1, <1>2, <1>3 DEF BufInv

\* A header without a buffer gets a new one, or stays without.
LEMMA NewBufferKeeps ==
  ASSUME TypeOK, BufInv, NEW h \in AllHeaders, hdr[h].arr = Null, NEW n \in 0 .. MaxLen,
         \/ hdr' = [hdr EXCEPT ![h] = Empty] /\ UNCHANGED buf
         \/ /\ CanBuffer /\ hdr' = [hdr EXCEPT ![h] = Header(FreshBuf, n, FALSE)]
            /\ buf' = [buf EXCEPT ![FreshBuf] = "live"],
         \A b \in Bufs : b \in lost' <=> b \in lost,
         \A o \in Objs : heap[o] = "array" \/ o = h => heap'[o] = "array"
  PROVE  BufInv'
<1>1. CASE hdr' = [hdr EXCEPT ![h] = Empty] /\ UNCHANGED buf
  <2>1. \A g \in AllHeaders : hdr'[g].arr = hdr[g].arr /\ (g # h => hdr'[g] = hdr[g])
    BY <1>1, EmptyFields DEF TypeOK, AllHeaders
  <2>2. hdr'[h] = Empty
    BY <1>1 DEF TypeOK, AllHeaders
  <2>3. HeadersFit'
    BY <1>1, <2>1 DEF BufInv, HeadersFit
  <2>4. OnlyArrays'
    BY <2>1, <2>2, EmptyFields DEF BufInv, OnlyArrays, AllHeaders
  <2>5. HeadersApart' /\ CacheLive'
    BY <1>1, <2>1 DEF BufInv, HeadersApart, CacheLive
  <2>6. LostBufs'
    BY <1>1, <2>1 DEF BufInv, LostBufs
  <2> QED
    BY <2>3, <2>4, <2>5, <2>6 DEF BufInv
<1>2. CASE /\ CanBuffer /\ hdr' = [hdr EXCEPT ![h] = Header(FreshBuf, n, FALSE)]
           /\ buf' = [buf EXCEPT ![FreshBuf] = "live"]
  <2> DEFINE b == FreshBuf
  <2>1. b \in Bufs /\ buf[b] = "unused" /\ b # Null
    BY <1>2, FreshUnused, Apart
  <2>2. /\ \A g \in AllHeaders : g # h => hdr'[g] = hdr[g]
        /\ hdr'[h].arr = b /\ ~hdr'[h].cache
        /\ \A x \in Bufs : buf'[x] = IF x = b THEN "live" ELSE buf[x]
    <3>1. hdr'[h] = Header(b, n, FALSE) /\ \A g \in AllHeaders : g # h => hdr'[g] = hdr[g]
      BY <1>2 DEF TypeOK, AllHeaders
    <3>2. \A x \in Bufs : buf'[x] = IF x = b THEN "live" ELSE buf[x]
      BY <1>2 DEF TypeOK
    <3> QED
      BY <3>1, <3>2 DEF Header
  <2> HIDE DEF b
  <2>3. b \notin CacheBufs /\ b \notin lost /\ \A g \in AllHeaders : hdr[g].arr # b
    BY <2>1 DEF BufInv, HeadersFit, CacheLive, LostBufs
  <2>4. HeadersFit'
    <3> SUFFICES ASSUME NEW g \in AllHeaders, hdr'[g].arr # Null
                 PROVE  buf'[hdr'[g].arr] = "live" /\ (hdr'[g].cache <=> hdr'[g].arr \in CacheBufs)
      BY DEF HeadersFit
    <3>1. CASE g = h
      BY <3>1, <2>1, <2>2, <2>3
    <3>2. CASE g # h
      BY <3>2, <2>2, <2>3 DEF BufInv, HeadersFit, TypeOK, AllHeaders
    <3> QED
      BY <3>1, <3>2
  <2>5. OnlyArrays'
    BY <2>2 DEF BufInv, OnlyArrays, AllHeaders
  <2>6. HeadersApart'
    BY <2>2, <2>3 DEF BufInv, HeadersApart
  <2>7. CacheLive'
    BY <2>2, SlotsAssumption DEF BufInv, CacheLive
  <2>8. LostBufs'
    <3> SUFFICES ASSUME NEW x \in Bufs
                 PROVE  x \in lost' <=> x \notin CacheBufs /\ buf'[x] = "live"
                                        /\ \A g \in AllHeaders : hdr'[g].arr # x
      BY DEF LostBufs
    <3>1. x \in lost <=> x \notin CacheBufs /\ buf[x] = "live" /\ \A g \in AllHeaders : hdr[g].arr # x
      BY DEF BufInv, LostBufs
    <3>2. CASE x = b
      BY <3>2, <2>2, <2>3
    <3>3. CASE x # b
      <4>1. x # Null
        BY Apart
      <4>2. (\A g \in AllHeaders : hdr'[g].arr # x) <=> (\A g \in AllHeaders : hdr[g].arr # x)
        BY <3>3, <4>1, <2>2
      <4> QED
        BY <3>1, <3>3, <4>2, <2>2
    <3> QED
      BY <3>2, <3>3
  <2> QED
    BY <2>4, <2>5, <2>6, <2>7, <2>8 DEF BufInv
<1> QED
  BY <1>1, <1>2

\* A header loses its buffer, which goes unless it is the cache's.
LEMMA ReleaseKeeps ==
  ASSUME TypeOK, BufInv, NEW h \in AllHeaders, NEW e, e.arr = Null,
         hdr' = [hdr EXCEPT ![h] = e],
         IF hdr[h].arr = Null \/ hdr[h].cache THEN UNCHANGED buf
                                              ELSE buf' = [buf EXCEPT ![hdr[h].arr] = "freed"],
         UNCHANGED lost,
         \A o \in Objs : IF o = h THEN e = Empty ELSE heap[o] = "array" => heap'[o] = "array"
  PROVE  BufInv'
<1>1. /\ \A g \in AllHeaders : g # h => hdr'[g] = hdr[g]
      /\ hdr'[h] = e
  BY DEF TypeOK, AllHeaders
<1>2. /\ \A b \in Bufs : buf'[b] # buf[b] =>
           b = hdr[h].arr /\ ~hdr[h].cache /\ buf'[b] = "freed" /\ b # Null
      /\ \A b \in Bufs : b = hdr[h].arr /\ ~hdr[h].cache /\ b # Null => buf'[b] = "freed"
  BY DEF TypeOK, AllHeaders
<1>3. HeadersFit'
  <2> SUFFICES ASSUME NEW g \in AllHeaders, hdr'[g].arr # Null
               PROVE  buf'[hdr'[g].arr] = "live" /\ (hdr'[g].cache <=> hdr'[g].arr \in CacheBufs)
    BY DEF HeadersFit
  <2>1. g # h /\ hdr'[g] = hdr[g]
    BY <1>1
  <2>2. hdr[g].arr \in Bufs /\ hdr[g].arr # hdr[h].arr
    BY <2>1 DEF BufInv, HeadersApart, TypeOK, AllHeaders
  <2> QED
    BY <2>1, <2>2, <1>2 DEF BufInv, HeadersFit
<1>4. OnlyArrays'
  BY <1>1, EmptyFields DEF BufInv, OnlyArrays, AllHeaders
<1>5. HeadersApart'
  BY <1>1 DEF BufInv, HeadersApart
<1>6. CacheLive'
  <2> SUFFICES ASSUME NEW b \in CacheBufs PROVE buf'[b] = "live"
    BY DEF CacheLive
  <2>1. b \in Bufs /\ buf[b] = "live"
    BY SlotsAssumption DEF BufInv, CacheLive
  <2> QED
    BY <2>1, <1>2 DEF BufInv, HeadersFit
<1>7. LostBufs'
  <2> SUFFICES ASSUME NEW b \in Bufs
               PROVE  b \in lost <=> b \notin CacheBufs /\ buf'[b] = "live"
                                     /\ \A g \in AllHeaders : hdr'[g].arr # b
    BY DEF LostBufs
  <2>1. b \in lost <=> b \notin CacheBufs /\ buf[b] = "live" /\ \A g \in AllHeaders : hdr[g].arr # b
    BY DEF BufInv, LostBufs
  <2>2. b # Null
    BY Apart
  <2>3. CASE b = hdr[h].arr
    BY <2>1, <2>2, <2>3, <1>2 DEF BufInv, HeadersFit
  <2>4. CASE b # hdr[h].arr
    BY <2>1, <2>2, <2>4, <1>1, <1>2
  <2> QED
    BY <2>3, <2>4
<1> QED
  BY <1>3, <1>4, <1>5, <1>6, <1>7 DEF BufInv

\* A header moves to a variable, whose own buffer is lost.
LEMMA HandOverKeeps ==
  ASSUME TypeOK, BufInv, NEW r \in Roots, NEW q \in Roots, r # q, NEW e, e.arr = Null,
         hdr' = [hdr EXCEPT ![r] = hdr[q], ![q] = e],
         \A b \in Bufs : b \in lost' <=> b \in lost \cup ({hdr[r].arr} \cap (Bufs \ CacheBufs)),
         UNCHANGED <<heap, buf>>
  PROVE  BufInv'
<1>1. \A g \in AllHeaders : hdr'[g] = IF g = r THEN hdr[q] ELSE IF g = q THEN e ELSE hdr[g]
  BY DEF TypeOK, AllHeaders
<1>2. r \in AllHeaders /\ q \in AllHeaders /\ r \notin Objs /\ q \notin Objs
  BY Apart DEF AllHeaders
<1>3. HeadersFit'
  <2> SUFFICES ASSUME NEW g \in AllHeaders, hdr'[g].arr # Null
               PROVE  buf[hdr'[g].arr] = "live" /\ (hdr'[g].cache <=> hdr'[g].arr \in CacheBufs)
    BY DEF HeadersFit
  <2>1. PICK x \in AllHeaders : hdr'[g] = hdr[x]
    BY <1>1, <1>2
  <2> QED
    BY <2>1 DEF BufInv, HeadersFit
<1>4. OnlyArrays'
  BY <1>1, <1>2 DEF BufInv, OnlyArrays, AllHeaders
<1>5. HeadersApart'
  <2> SUFFICES ASSUME NEW g \in AllHeaders, NEW h \in AllHeaders, g # h,
                      hdr'[g].arr = hdr'[h].arr, hdr'[g].arr # Null
               PROVE  FALSE
    BY DEF HeadersApart
  <2>1. g # q /\ h # q
    BY <1>1
  <2>2. PICK x \in AllHeaders : hdr'[g] = hdr[x] /\ x = IF g = r THEN q ELSE g
    BY <2>1, <1>1, <1>2
  <2>3. PICK y \in AllHeaders : hdr'[h] = hdr[y] /\ y = IF h = r THEN q ELSE h
    BY <2>1, <1>1, <1>2
  <2> QED
    BY <2>1, <2>2, <2>3 DEF BufInv, HeadersApart
<1>6. CacheLive'
  BY DEF BufInv, CacheLive
<1>7. LostBufs'
  <2> SUFFICES ASSUME NEW b \in Bufs
               PROVE  b \in lost' <=> b \notin CacheBufs /\ buf[b] = "live"
                                     /\ \A g \in AllHeaders : hdr'[g].arr # b
    BY DEF LostBufs
  <2>1. b \in lost <=> b \notin CacheBufs /\ buf[b] = "live" /\ \A g \in AllHeaders : hdr[g].arr # b
    BY DEF BufInv, LostBufs
  <2>2. b # Null
    BY Apart
  <2>3. CASE b = hdr[r].arr
    <3>1. \A g \in AllHeaders : g # r => hdr[g].arr # b
      BY <2>2, <2>3, <1>2 DEF BufInv, HeadersApart
    <3>2. \A g \in AllHeaders : hdr'[g].arr # b
      BY <3>1, <2>2, <1>1, <1>2
    <3> QED
      BY <3>2, <2>1, <2>2, <2>3, <1>2 DEF BufInv, HeadersFit
  <2>4. CASE b # hdr[r].arr
    <3>1. (\A g \in AllHeaders : hdr'[g].arr # b) <=> (\A g \in AllHeaders : hdr[g].arr # b)
      BY <2>2, <2>4, <1>1, <1>2
    <3> QED
      BY <3>1, <2>1, <2>4
  <2> QED
    BY <2>3, <2>4
<1> QED
  BY <1>3, <1>4, <1>5, <1>6, <1>7 DEF BufInv

\* A variable without a buffer takes one of the cache that nobody has.
LEMMA BorrowKeeps ==
  ASSUME TypeOK, BufInv, NEW r \in Roots, hdr[r].arr = Null,
         NEW b \in CacheBufs, \A h \in Headers : hdr[h].arr # b, NEW n,
         hdr' = [hdr EXCEPT ![r] = Header(b, n, TRUE)], UNCHANGED <<heap, buf, lost>>
  PROVE  BufInv'
<1>1. /\ \A g \in AllHeaders : g # r => hdr'[g] = hdr[g]
      /\ hdr'[r].arr = b /\ hdr'[r].cache
  <2>1. hdr'[r] = Header(b, n, TRUE) /\ \A g \in AllHeaders : g # r => hdr'[g] = hdr[g]
    BY DEF TypeOK, AllHeaders
  <2> QED
    BY <2>1 DEF Header
<1>2. r \in AllHeaders /\ r \notin Objs /\ b # Null /\ b \in Bufs
  BY Apart, SlotsAssumption DEF AllHeaders
<1>3. \A h \in AllHeaders : hdr[h].arr # b
  BY <1>2, EmptyFields DEF Headers, AllHeaders, BufInv, OnlyArrays
<1>4. HeadersFit'
  BY <1>1, <1>2 DEF BufInv, HeadersFit, CacheLive
<1>5. OnlyArrays'
  BY <1>1, <1>2 DEF BufInv, OnlyArrays, AllHeaders
<1>6. HeadersApart'
  <2> SUFFICES ASSUME NEW g \in AllHeaders, NEW h \in AllHeaders, g # h,
                      hdr'[g].arr = hdr'[h].arr
               PROVE  hdr'[g].arr = Null
    BY DEF HeadersApart
  <2>1. g # r /\ h # r
    BY <1>1, <1>3
  <2> QED
    BY <2>1, <1>1 DEF BufInv, HeadersApart
<1>7. CacheLive'
  BY DEF BufInv, CacheLive
<1>8. LostBufs'
  <2> SUFFICES ASSUME NEW x \in Bufs
               PROVE  x \in lost <=> x \notin CacheBufs /\ buf[x] = "live"
                                     /\ \A g \in AllHeaders : hdr'[g].arr # x
    BY DEF LostBufs
  <2>1. x \in lost <=> x \notin CacheBufs /\ buf[x] = "live" /\ \A g \in AllHeaders : hdr[g].arr # x
    BY DEF BufInv, LostBufs
  <2>2. x \notin CacheBufs => x # b /\ x # Null
    BY Apart
  <2>3. x \notin CacheBufs =>
          ((\A g \in AllHeaders : hdr'[g].arr # x) <=> (\A g \in AllHeaders : hdr[g].arr # x))
    BY <2>2, <1>1, <1>2
  <2> QED
    BY <2>1, <2>3
<1> QED
  BY <1>4, <1>5, <1>6, <1>7, <1>8 DEF BufInv

------------------------------------------------------------------------------
(***************************************************************************)
(* The steps.  Each is one of the moves above for objects, and one for      *)
(* buffers.                                                                 *)
(***************************************************************************)
Sound == ObjInv /\ BufInv /\ (fault = "bad_free" => stale)

\* The elements a host can name are in live buffers.
LEMMA ElementsLive ==
  ASSUME TypeOK, BufInv, NEW s \in Elements
  PROVE  s \in Slots /\ buf[s[1]] = "live" /\ s \in Places /\ slot[s] \in Cdts
<1>1. PICK h \in Headers : s \in Slots /\ hdr[h].arr = s[1]
  BY DEF Elements
<1>2. h \in AllHeaders /\ s[1] \in Bufs /\ s[1] # Null
  BY <1>1, Apart DEF Headers, AllHeaders, Slots
<1> QED
  BY <1>1, <1>2, ElementsTyped DEF BufInv, HeadersFit, Places

\* What is in a live buffer or to be destroyed remains so while buffers stay
\* live and nothing is destroyed.
LEMMA PlacesGrow ==
  ASSUME todo \subseteq todo', \A b \in Bufs : buf[b] = "live" => buf'[b] = "live"
  PROVE  Places \subseteq Places'
  BY DEF Places, Slots

\* Writes leave lost buffers alone.
LEMMA WriteLoses ==
  ASSUME NEW s, NEW c, Write(s, c)
  PROVE  /\ \A b \in Bufs : b \in lost' <=> b \in lost
         /\ \A o \in Objs : o \in lost' <=> o \in lost \cup (Owns(slot[s]) \ Owns(c))
         /\ slot' = [slot EXCEPT ![s] = c]
  BY Apart DEF Write, Owns

\* An element gets a value that owns nothing.
LEMMA PlainWrite ==
  ASSUME TypeOK, ObjInv, NEW s \in Slots, NEW c \in Cdts, Write(s, c),
         c.fr /\ c.type \in Owning => c.val = Null \/ (c.val = Host /\ stale'),
         c.fr /\ c.type = "handle" => c.val = Null \/ (c.val = Host /\ (gave' \/ stale')),
         UNCHANGED <<heap, buf, todo>>, (gave => gave'), (stale => stale')
  PROVE  ObjInv'
<1>1. Owns(c) = {}
  BY Apart DEF Owns
<1> DEFINE new == {}
           t == "string"
<1>2. /\ slot' = [slot EXCEPT ![s] = c]
      /\ \A o \in Objs : o \in lost' <=> o \in lost \cup Owns(slot[s]) \cup (new \ Owns(c))
  BY <1>1, WriteLoses
<1>3. /\ \A o \in Objs : heap'[o] = IF o \in new THEN t ELSE heap[o]
      /\ t \in Owning /\ new \in SUBSET Objs /\ \A o \in new : heap[o] = "unused"
  BY DEF TypeOK, Owning
<1>4. Places \subseteq Places'
  BY PlacesGrow
<1> HIDE DEF new, t
<1>5. /\ c.fr /\ c.type \in Owning =>
           c.val = Null \/ (c.type = t /\ c.val \in new /\ s \in Places') \/ (c.val = Host /\ stale')
      /\ c.fr /\ c.type = "handle" => c.val = Null \/ (c.val = Host /\ (gave' \/ stale'))
  OBVIOUS
<1> QED
  BY <1>2, <1>3, <1>4, <1>5, PutKeeps

\* An element gets a newly allocated object.
LEMMA OwningWrite ==
  ASSUME TypeOK, ObjInv, NEW s \in Slots, s \in Places, NEW t \in Owning,
         Allocate(t), Write(s, Cdt(t, Fresh, TRUE)),
         Places \subseteq Places', (gave => gave'), (stale => stale')
  PROVE  ObjInv'
<1>1. PICK n \in Objs : n = Fresh
  BY FreshUnused
<1>2. PICK c \in Cdts : c = Cdt(t, n, TRUE)
  BY CdtTyped DEF Types
<1>3. c.type = t /\ c.val = n /\ c.fr /\ Owns(c) = {n} /\ c.type # "handle"
  BY <1>2 DEF Cdt, Owns, Owning
<1> DEFINE new == {n}
<1>4. /\ new \in SUBSET Objs /\ \A o \in new : heap[o] = "unused"
      /\ \A o \in Objs : heap'[o] = IF o \in new THEN t ELSE heap[o]
  BY <1>1, FreshUnused DEF Allocate, TypeOK
<1>5. slot' = [slot EXCEPT ![s] = c] /\ \A o \in Objs : o \in lost' <=> o \in lost \cup (Owns(slot[s]) \ Owns(c))
  BY <1>1, <1>2, WriteLoses
<1>6. n \notin Owns(slot[s])
  <2>1. ASSUME n \in Owns(slot[s]) PROVE FALSE
    <3>1. slot[s].fr /\ slot[s].type \in Owning /\ slot[s].val = n
      BY <2>1, OwnsOne
    <3>2. Right(slot[s])
      BY <3>1, Apart DEF ObjInv, SlotsSane, Inert, Owning
    <3> QED
      BY <3>1, <3>2, <1>4 DEF Right, Owning
  <2> QED
    BY <2>1
<1>7. \A o \in Objs : o \in lost' <=> o \in lost \cup Owns(slot[s]) \cup (new \ Owns(c))
  BY <1>3, <1>5, <1>6
<1>8. /\ c.fr /\ c.type \in Owning =>
           c.val = Null \/ (c.type = t /\ c.val \in new /\ s \in Places') \/ (c.val = Host /\ stale')
      /\ c.fr /\ c.type = "handle" => c.val = Null \/ (c.val = Host /\ (gave' \/ stale'))
  BY <1>3
<1> HIDE DEF new
<1> QED
  BY <1>4, <1>5, <1>7, <1>8, PutKeeps, Zenon

\* An element gets a new array and its buffer.
LEMMA NewArrayKeeps ==
  ASSUME TypeOK, Sound, NEW s \in Elements, NEW n \in 0 .. MaxLen, NewArray(s, n),
         UNCHANGED <<todo, gave, stale, fault>>
  PROVE  Sound'
<1>1. s \in Slots /\ s \in Places /\ "array" \in Owning
  BY ElementsLive DEF Sound, Owning
<1>2. /\ Allocate("array") /\ Write(s, Cdt("array", Fresh, TRUE))
      /\ heap[Fresh] = "unused" /\ Fresh \in Objs
      /\ \/ hdr' = [hdr EXCEPT ![Fresh] = Empty] /\ UNCHANGED buf
         \/ /\ CanBuffer /\ hdr' = [hdr EXCEPT ![Fresh] = Header(FreshBuf, n, FALSE)]
            /\ buf' = [buf EXCEPT ![FreshBuf] = "live"]
  BY FreshUnused DEF NewArray, Allocate
<1>3. Places \subseteq Places'
  BY <1>2, PlacesGrow DEF TypeOK
<1>4. ObjInv'
  BY <1>1, <1>2, <1>3, OwningWrite DEF Sound
<1>5. hdr[Fresh].arr = Null /\ Fresh \in AllHeaders
  BY <1>2, EmptyFields DEF Sound, BufInv, OnlyArrays, AllHeaders
<1>6. \A o \in Objs : heap[o] = "array" \/ o = Fresh => heap'[o] = "array"
  BY <1>2 DEF Allocate, TypeOK
<1>7. \A b \in Bufs : b \in lost' <=> b \in lost
  BY <1>2, WriteLoses
<1>8. BufInv'
  BY <1>2, <1>5, <1>6, <1>7, NewBufferKeeps DEF Sound
<1> QED
  BY <1>4, <1>8 DEF Sound

\* What the host does to its variables.
LEMMA SoundOnRoots == ASSUME TypeOK, Sound, OnRoots PROVE Sound'
<1> USE DEF NoDestruction
<1>h. \A r \in Roots : r \in AllHeaders /\ r \notin Objs
  BY Apart DEF AllHeaders
<1>1. ASSUME NEW r \in Roots, NEW n \in 0 .. MaxLen, NewRoot(r, n) PROVE Sound'
  <2>1. /\ hdr[r].arr = Null /\ UNCHANGED <<slot, heap, lost, gave, stale, todo, fault>>
        /\ \/ hdr' = [hdr EXCEPT ![r] = Empty] /\ UNCHANGED buf
           \/ /\ CanBuffer /\ hdr' = [hdr EXCEPT ![r] = Header(FreshBuf, n, FALSE)]
              /\ buf' = [buf EXCEPT ![FreshBuf] = "live"]
    BY <1>1 DEF NewRoot
  <2>2. Places \subseteq Places'
    BY <2>1, PlacesGrow DEF TypeOK
  <2>3. ObjInv'
    BY <2>1, <2>2, StayKeeps DEF Sound
  <2>4. \A o \in Objs : heap[o] = "array" \/ o = r => heap'[o] = "array"
    BY <2>1, <1>h
  <2>5. BufInv'
    BY <2>1, <2>4, <1>h, NewBufferKeeps DEF Sound
  <2> QED
    BY <2>1, <2>3, <2>5 DEF Sound
<1>2. ASSUME NEW r \in Roots, NEW b \in CacheBufs, NEW n \in 1 .. MaxLen, CacheRoot(r, b, n)
      PROVE  Sound'
  <2>1. /\ hdr[r].arr = Null /\ \A h \in Headers : hdr[h].arr # b
        /\ hdr' = [hdr EXCEPT ![r] = Header(b, n, TRUE)]
        /\ UNCHANGED <<slot, heap, buf, lost, gave, stale, todo, fault>>
    BY <1>2 DEF CacheRoot
  <2>2. ObjInv'
    BY <2>1, PlacesGrow, StayKeeps DEF Sound
  <2>3. BufInv'
    BY <2>1, BorrowKeeps DEF Sound
  <2> QED
    BY <2>1, <2>2, <2>3 DEF Sound
<1>3. ASSUME NEW r \in Roots, NEW q \in Roots, MoveConstruct(r, q) PROVE Sound'
  <2> DEFINE e == [hdr[q] EXCEPT !.arr = Null]
  <2>1. /\ r # q /\ hdr[r].arr = Null /\ e.arr = Null /\ hdr' = [hdr EXCEPT ![r] = hdr[q], ![q] = e]
        /\ UNCHANGED <<slot, heap, buf, lost, gave, stale, todo, fault>>
    BY <1>3 DEF MoveConstruct, TypeOK
  <2>2. ObjInv'
    BY <2>1, PlacesGrow, StayKeeps DEF Sound
  <2>3. \A b \in Bufs : b \in lost' <=> b \in lost \cup ({hdr[r].arr} \cap (Bufs \ CacheBufs))
    BY <2>1, Apart
  <2> HIDE DEF e
  <2>4. BufInv'
    BY <2>1, <2>3, HandOverKeeps DEF Sound
  <2> QED
    BY <2>1, <2>2, <2>4 DEF Sound
<1>4. ASSUME NEW r \in Roots, NEW q \in Roots, MoveAssign(r, q) PROVE Sound'
  <2>1. /\ r # q /\ hdr' = [hdr EXCEPT ![r] = hdr[q], ![q] = Empty]
        /\ lost' = lost \cup ({hdr[r].arr} \cap (Bufs \ CacheBufs))
        /\ UNCHANGED <<slot, heap, buf, gave, stale, todo, fault>>
    BY <1>4 DEF MoveAssign
  <2>2. \A o \in Objs : o \in lost' <=> o \in lost
    BY <2>1, Apart
  <2>3. ObjInv'
    BY <2>1, <2>2, PlacesGrow, StayKeeps DEF Sound
  <2>4. BufInv'
    BY <2>1, EmptyFields, HandOverKeeps DEF Sound
  <2> QED
    BY <2>1, <2>3, <2>4 DEF Sound
<1>5. ASSUME NEW r \in Roots, FreeRoot(r) PROVE Sound'
  <2> DEFINE b == hdr[r].arr
             e == [hdr[r] EXCEPT !.arr = Null]
  <2>1. /\ todo = {} /\ b # Null /\ e.arr = Null /\ hdr' = [hdr EXCEPT ![r] = e]
        /\ IF hdr[r].cache
           THEN UNCHANGED <<buf, fault>>
           ELSE /\ todo' = Of(b) /\ buf' = [buf EXCEPT ![b] = "freed"]
                /\ fault' = IF buf[b] = "live" /\ b \notin CacheBufs THEN fault ELSE "bad_free"
        /\ UNCHANGED <<slot, heap, lost, gave, stale>>
    BY <1>5, <1>h DEF FreeRoot, Quiet, TypeOK, AllHeaders
  <2>2. b \in Bufs /\ buf[b] = "live" /\ (hdr[r].cache <=> b \in CacheBufs)
    BY <2>1, <1>h DEF Sound, BufInv, HeadersFit, TypeOK, AllHeaders
  <2> HIDE DEF e, b
  <2>3. fault' = fault
    BY <2>1, <2>2
  <2>4. Places \subseteq Places'
    <3> SUFFICES ASSUME NEW s \in Slots, buf[s[1]] = "live" PROVE buf'[s[1]] = "live" \/ s \in todo'
      BY <2>1 DEF Places
    <3>1. CASE hdr[r].cache
      BY <2>1, <3>1
    <3>2. CASE ~hdr[r].cache
      BY <2>1, <2>2, <3>2, OfBuffer DEF TypeOK
    <3> QED
      BY <3>1, <3>2
  <2>5. ObjInv'
    BY <2>1, <2>4, StayKeeps DEF Sound
  <2>6. IF hdr[r].arr = Null \/ hdr[r].cache THEN UNCHANGED buf
                                             ELSE buf' = [buf EXCEPT ![hdr[r].arr] = "freed"]
    BY <2>1 DEF b
  <2>7. BufInv'
    BY <2>1, <2>6, <1>h, ReleaseKeeps DEF Sound
  <2> QED
    BY <2>1, <2>3, <2>5, <2>7 DEF Sound
<1>6. ASSUME NEW r \in Roots, UseEmptied(r) PROVE Sound'
  <2>1. fault' = "null_array" /\ UNCHANGED <<hdr, slot, heap, buf, lost, gave, stale, todo>>
    BY <1>6 DEF UseEmptied
  <2>2. ObjInv'
    BY <2>1, PlacesGrow, StayKeeps DEF Sound
  <2>3. BufInv'
    BY <2>1, BuffersStay DEF Sound
  <2> QED
    BY <2>1, <2>2, <2>3 DEF Sound
<1> QED
  BY <1>1, <1>2, <1>3, <1>4, <1>5, <1>6 DEF OnRoots

\* Writes of elements touch no header and no buffer.
LEMMA WriteKeepsBuffers ==
  ASSUME TypeOK, BufInv, UNCHANGED <<hdr, buf>>, NEW s, NEW c, Write(s, c),
         UNCHANGED heap \/ \E t \in Owning : Allocate(t)
  PROVE  BufInv'
<1>1. \A b \in Bufs : b \in lost' <=> b \in lost
  BY WriteLoses
<1>2. \A o \in Objs : heap[o] = "array" => heap'[o] = "array"
  <2> SUFFICES ASSUME NEW o \in Objs, heap[o] = "array" PROVE heap'[o] = "array"
    OBVIOUS
  <2>1. CASE UNCHANGED heap
    BY <2>1
  <2>2. ASSUME NEW t \in Owning, Allocate(t) PROVE heap'[o] = "array"
    BY <2>2, FreshUnused DEF Allocate, TypeOK
  <2> QED
    BY <2>1, <2>2
<1> QED
  BY <1>1, <1>2, BuffersStay

\* What the host does to an element through the setters.
LEMMA SoundOnElement == ASSUME TypeOK, Sound, NEW s \in Elements, OnElement(s) PROVE Sound'
<1> USE DEF NoDestruction
<1>s. s \in Slots /\ s \in Places /\ slot[s] \in Cdts /\ ObjInv /\ BufInv /\ (fault = "bad_free" => stale)
  BY ElementsLive DEF Sound
<1>1. CASE SetScalar(s)
  <2>1. PICK c \in Cdts : c = Cdt("scalar", Bits, slot[s].fr)
    BY <1>s, Apart, CdtTyped DEF Types
  <2>2. c.type = "scalar"
    BY <2>1 DEF Cdt
  <2>3. Write(s, c) /\ UNCHANGED <<hdr, heap, buf, gave, stale, todo, fault>>
    BY <1>1, <2>1 DEF SetScalar
  <2>4. ObjInv'
    BY <1>s, <2>2, <2>3, PlainWrite DEF Owning
  <2> QED
    BY <1>s, <2>3, <2>4, WriteKeepsBuffers DEF Sound
<1>2. CASE SetHandle(s)
  <2>1. UNCHANGED <<hdr, slot, heap, buf, lost, gave, stale, fault>> /\ todo = {}
    BY <1>2 DEF SetHandle, Quiet
  <2>2. Places \subseteq Places'
    BY <2>1 DEF Places
  <2>3. ObjInv'
    BY <1>s, <2>1, <2>2, StayKeeps
  <2>4. BufInv'
    BY <1>s, <2>1, BuffersStay
  <2> QED
    BY <1>s, <2>1, <2>3, <2>4 DEF Sound
<1>3. CASE SetFromTemporary(s)
  <2>1. UNCHANGED <<hdr, buf, gave, stale, todo, fault>>
    BY <1>3 DEF SetFromTemporary
  <2>2. CASE Allocate("callable") /\ Write(s, Cdt("callable", Fresh, TRUE))
    <3>1. Places \subseteq Places' /\ "callable" \in Owning
      BY <2>1, PlacesGrow DEF Owning
    <3>2. ObjInv'
      BY <1>s, <2>1, <2>2, <3>1, OwningWrite
    <3> QED
      BY <1>s, <2>1, <2>2, <3>1, <3>2, WriteKeepsBuffers DEF Sound
  <2>3. CASE UNCHANGED heap /\ Write(s, Cdt("scalar", Bits, FALSE))
    <3>1. PICK c \in Cdts : c = Cdt("scalar", Bits, FALSE)
      BY CdtTyped DEF Types
    <3>2. c.type = "scalar"
      BY <3>1 DEF Cdt
    <3>3. ObjInv'
      BY <1>s, <2>1, <2>3, <3>1, <3>2, PlainWrite DEF Owning
    <3> QED
      BY <1>s, <2>1, <2>3, <3>3, WriteKeepsBuffers DEF Sound
  <2> QED
    BY <1>3, <2>2, <2>3 DEF SetFromTemporary
<1>4. ASSUME NEW f \in BOOLEAN, SetString(s, f) PROVE Sound'
  <2>1. UNCHANGED <<hdr, buf, gave, stale, todo, fault>>
    BY <1>4 DEF SetString
  <2>2. CASE f
    <3>1. Allocate("string") /\ Write(s, Cdt("string", Fresh, TRUE))
      BY <1>4, <2>2 DEF SetString
    <3>2. Places \subseteq Places' /\ "string" \in Owning
      BY <2>1, PlacesGrow DEF Owning
    <3>3. ObjInv'
      BY <1>s, <2>1, <3>1, <3>2, OwningWrite
    <3> QED
      BY <1>s, <2>1, <3>1, <3>2, <3>3, WriteKeepsBuffers DEF Sound
  <2>3. CASE ~f
    <3>1. PICK c \in Cdts : c = Cdt("string", Host, FALSE)
      BY CdtTyped DEF Types, Owning
    <3>2. ~c.fr
      BY <3>1 DEF Cdt
    <3>3. UNCHANGED heap /\ Write(s, c)
      BY <1>4, <2>3, <3>1 DEF SetString
    <3>4. ObjInv'
      BY <1>s, <2>1, <3>2, <3>3, PlainWrite
    <3> QED
      BY <1>s, <2>1, <3>3, <3>4, WriteKeepsBuffers DEF Sound
  <2> QED
    BY <2>2, <2>3
<1>5. ASSUME NEW n \in 0 .. MaxLen, SetArray(s, n) PROVE Sound'
  BY <1>5, NewArrayKeeps DEF SetArray
<1>6. ASSUME NEW q \in Elements, SetFromElement(s, q) PROVE Sound'
  <2>1. /\ slot' = [slot EXCEPT ![s] = slot[q], ![q] = Blank] /\ lost' = lost \cup Owns(slot[s])
        /\ UNCHANGED <<hdr, heap, buf, todo, gave, stale, fault>>
    BY <1>6 DEF SetFromElement
  <2>2. ObjInv'
    BY <1>s, <2>1, ElementsTyped, MoveKeeps
  <2>3. \A b \in Bufs : b \in lost' <=> b \in lost
    BY <1>s, <2>1, Apart
  <2>4. BufInv'
    BY <1>s, <2>1, <2>3, BuffersStay
  <2> QED
    BY <1>s, <2>1, <2>2, <2>4 DEF Sound
<1> QED
  BY <1>1, <1>2, <1>3, <1>4, <1>5, <1>6 DEF OnElement

\* A callback that leaves the flag alone gives the element something of the
\* host's: if the flag was TRUE, that is remembered.
LEMMA UnsaidSound ==
  ASSUME TypeOK, Sound, NEW s \in Slots, slot[s] \in Cdts, NEW t \in Types,
         Unsaid(s, t, slot[s].fr), UNCHANGED <<hdr, heap, buf, gave, todo, fault>>
  PROVE  Sound'
<1>1. slot[s].fr \in BOOLEAN
  BY Apart
<1>2. PICK c \in Cdts : c = Cdt(t, Host, slot[s].fr)
  BY <1>1, CdtTyped
<1>3. c.val = Host /\ c.fr = slot[s].fr
  BY <1>2 DEF Cdt
<1>4. Write(s, c) /\ (stale => stale') /\ (c.fr => stale')
  BY <1>1, <1>2, <1>3 DEF Unsaid
<1>5. ObjInv'
  BY <1>3, <1>4, PlainWrite DEF Sound
<1>6. BufInv'
  BY <1>4, WriteKeepsBuffers DEF Sound
<1> QED
  BY <1>4, <1>5, <1>6 DEF Sound

\* What a construction does to an element, as long as no callback throws over
\* a value.
LEMMA SoundConstruct == ASSUME TypeOK, Sound, NEW s \in Elements, Construct(s), ~torn' PROVE Sound'
<1> USE DEF NoDestruction
<1>s. s \in Slots /\ s \in Places /\ slot[s] \in Cdts /\ ObjInv /\ BufInv /\ (fault = "bad_free" => stale)
  BY ElementsLive DEF Sound
<1>1. CASE ConstructScalar(s)
  <2>1. PICK c \in Cdts : c \in {Cdt("scalar", Bits, FALSE), Cdt("null", slot[s].val, FALSE)} /\ Write(s, c)
    <3>1. Cdt("scalar", Bits, FALSE) \in Cdts /\ Cdt("null", slot[s].val, FALSE) \in Cdts
      BY <1>s, Apart, CdtTyped DEF Types
    <3> QED
      BY <1>1, <3>1 DEF ConstructScalar
  <2>2. ~c.fr
    BY <2>1 DEF Cdt
  <2>3. UNCHANGED <<hdr, heap, buf, gave, stale, todo, fault>>
    BY <1>1 DEF ConstructScalar
  <2>4. ObjInv'
    BY <1>s, <2>1, <2>2, <2>3, PlainWrite
  <2> QED
    BY <1>s, <2>1, <2>3, <2>4, WriteKeepsBuffers DEF Sound
<1>2. CASE ConstructString(s)
  <2>1. UNCHANGED <<hdr, buf, gave, todo, fault>>
    BY <1>2 DEF ConstructString
  <2>2. CASE Allocate("string") /\ Write(s, Cdt("string", Fresh, TRUE)) /\ UNCHANGED stale
    <3>1. Places \subseteq Places' /\ "string" \in Owning
      BY <2>1, PlacesGrow DEF Owning
    <3>2. ObjInv'
      BY <1>s, <2>1, <2>2, <3>1, OwningWrite
    <3> QED
      BY <1>s, <2>1, <2>2, <3>1, <3>2, WriteKeepsBuffers DEF Sound
  <2>3. CASE UNCHANGED <<heap, stale>> /\ Write(s, Cdt("string", Host, FALSE))
    <3>1. PICK c \in Cdts : c = Cdt("string", Host, FALSE)
      BY CdtTyped DEF Types, Owning
    <3>2. ~c.fr
      BY <3>1 DEF Cdt
    <3>3. ObjInv'
      BY <1>s, <2>1, <2>3, <3>1, <3>2, PlainWrite
    <3> QED
      BY <1>s, <2>1, <2>3, <3>3, WriteKeepsBuffers DEF Sound
  <2>4. CASE UNCHANGED heap /\ Unsaid(s, "string", slot[s].fr)
    BY <1>s, <2>1, <2>4, UnsaidSound DEF Types, Owning
  <2> QED
    BY <1>2, <2>2, <2>3, <2>4 DEF ConstructString
<1>3. CASE ConstructHandle(s)
  <2>1. UNCHANGED <<hdr, heap, buf, todo, fault>>
    BY <1>3 DEF ConstructHandle
  <2>2. ASSUME NEW f \in BOOLEAN, Write(s, Cdt("handle", Host, f)), gave' = (gave \/ f), UNCHANGED stale
        PROVE  Sound'
    <3>1. PICK c \in Cdts : c = Cdt("handle", Host, f)
      BY CdtTyped DEF Types
    <3>2. c.type = "handle" /\ c.val = Host /\ c.fr = f
      BY <3>1 DEF Cdt
    <3>3. Write(s, c) /\ (gave => gave') /\ (stale => stale') /\ (f => gave')
      BY <2>2, <3>1
    <3>4. ObjInv'
      BY <1>s, <2>1, <3>2, <3>3, PlainWrite DEF Owning
    <3> QED
      BY <1>s, <2>1, <3>3, <3>4, WriteKeepsBuffers DEF Sound
  <2>3. CASE Unsaid(s, "handle", slot[s].fr) /\ UNCHANGED gave
    BY <1>s, <2>1, <2>3, UnsaidSound DEF Types
  <2> QED
    BY <1>3, <2>2, <2>3 DEF ConstructHandle
<1>4. ASSUME NEW gives \in BOOLEAN, NEW f \in BOOLEAN, ConstructCallable(s, gives, f) PROVE Sound'
  <2> DEFINE dummies == IF slot[s].val = Null THEN {Fresh} ELSE {}
             others == {o \in Objs \ dummies : heap[o] = "unused"}
             n == CHOOSE o \in others : TRUE
             gets == IF gives THEN {n} ELSE {}
  <2>1. /\ dummies # {} => CanAllocate
        /\ gives => others # {} /\ f
        /\ heap' = [o \in Objs |-> IF o \in dummies \cup gets THEN "callable" ELSE heap[o]]
        /\ slot' = [slot EXCEPT ![s] = Cdt("callable", IF gives THEN n ELSE Host, f)]
        /\ lost' = lost \cup dummies \cup Owns(slot[s])
        /\ stale' = (stale \/ (f /\ ~gives))
        /\ UNCHANGED <<hdr, buf, gave, todo, fault>>
    BY <1>4 DEF ConstructCallable
  <2>2. PICK new \in SUBSET Objs : new = dummies \cup gets /\ \A o \in new : heap[o] = "unused"
    <3>1. \A o \in dummies : o \in Objs /\ heap[o] = "unused"
      BY <2>1, FreshUnused
    <3>2. \A o \in gets : o \in others
      BY <2>1
    <3>3. \A o \in gets : o \in Objs /\ heap[o] = "unused"
      BY <3>2
    <3> HIDE DEF dummies, others, gets, n
    <3> QED
      BY <3>1, <3>3
  <2>3. gives => n \in others
    BY <2>1
  <2>4. PICK c \in Cdts : c = Cdt("callable", IF gives THEN n ELSE Host, f)
    BY <2>3, CdtTyped DEF Types, Owning
  <2>5. /\ c.type = "callable" /\ c.fr = f /\ c.val = IF gives THEN n ELSE Host
        /\ Owns(c) = gets
    <3>1. gives => n \in Objs /\ f
      BY <2>1, <2>3
    <3>2. c.type = "callable" /\ c.fr = f /\ c.val = IF gives THEN n ELSE Host
      BY <2>4 DEF Cdt
    <3> QED
      BY <3>1, <3>2, Apart DEF Owns, Owning
  <2>6. slot' = [slot EXCEPT ![s] = c]
    BY <2>1, <2>4
  <2>7. \A o \in Objs : heap'[o] = IF o \in new THEN "callable" ELSE heap[o]
    BY <2>1, <2>2
  <2>8. \A o \in Objs : o \in lost' <=> o \in lost \cup Owns(slot[s]) \cup (new \ Owns(c))
    <3>1. \A o \in dummies : o \notin gets
      BY <2>3
    <3> HIDE DEF dummies, others, gets, n
    <3> QED
      BY <3>1, <2>1, <2>2, <2>5
  <2>9. Places \subseteq Places' /\ "callable" \in Owning
    BY <2>1, PlacesGrow DEF Owning
  <2>10. /\ c.fr /\ c.type \in Owning =>
              c.val = Null \/ (c.type = "callable" /\ c.val \in new /\ s \in Places') \/ (c.val = Host /\ stale')
         /\ c.fr /\ c.type = "handle" => c.val = Null \/ (c.val = Host /\ (gave' \/ stale'))
    BY <2>1, <2>2, <2>5, <2>9, <1>s
  <2>11. gave' = gave /\ (stale => stale') /\ UNCHANGED <<hdr, buf, fault>> /\ \A b \in Bufs : b \in lost' <=> b \in lost
    BY <2>1, <1>s, Apart, FreshUnused
  <2>12. \A o \in Objs : heap[o] = "array" => heap'[o] = "array"
    BY <2>2, <2>7
  <2> HIDE DEF dummies, others, n, gets
  <2>13. ObjInv'
    <3>1. /\ TypeOK /\ ObjInv /\ s \in Slots /\ c \in Cdts /\ new \in SUBSET Objs
          /\ \A o \in new : heap[o] = "unused"
      BY <1>s, <2>2
    <3>2. Places \subseteq Places' /\ (gave => gave') /\ (stale => stale') /\ "callable" \in Owning
      BY <2>9, <2>11
    <3> QED
      BY <2>6, <2>7, <2>8, <2>10, <3>1, <3>2, PutKeeps, Zenon
  <2>14. BufInv'
    BY <1>s, <2>11, <2>12, BuffersStay
  <2> QED
    BY <1>s, <2>11, <2>13, <2>14 DEF Sound
<1>5. ASSUME NEW n \in 0 .. MaxLen, ConstructArray(s, n) PROVE Sound'
  BY <1>5, NewArrayKeeps DEF ConstructArray
<1>6. ASSUME NEW t \in Used \ {"null"}, ConstructThrows(s, t) PROVE Sound'
  <2>1. slot[s].val = Null /\ UNCHANGED <<hdr, buf, gave, stale, todo, fault>>
    <3>1. torn' = (torn \/ slot[s].val # Null) /\ UNCHANGED <<hdr, buf, gave, stale, todo, fault>>
      BY <1>6 DEF ConstructThrows
    <3>2. ASSUME slot[s].val # Null PROVE FALSE
      <4>1. torn' = TRUE
        BY <3>1, <3>2
      <4> QED
        BY <4>1
    <3> QED
      BY <3>1, <3>2
  <2>2. CASE t # "callable"
    <3>1. PICK c \in Cdts : c = [slot[s] EXCEPT !.type = t]
      BY <1>s, SlotsAssumption DEF Cdts
    <3>2. c.val = Null
      BY <3>1, <2>1, <1>s DEF Cdts
    <3>3. UNCHANGED heap /\ Write(s, c)
      BY <1>6, <2>2, <3>1 DEF ConstructThrows
    <3>4. ObjInv'
      BY <1>s, <2>1, <3>2, <3>3, PlainWrite
    <3> QED
      BY <1>s, <2>1, <3>3, <3>4, WriteKeepsBuffers DEF Sound
  <2>3. CASE t = "callable"
    <3>1. Allocate("callable") /\ Write(s, Cdt("callable", Fresh, TRUE))
      BY <1>6, <2>1, <2>3 DEF ConstructThrows
    <3>2. Places \subseteq Places' /\ "callable" \in Owning
      BY <2>1, PlacesGrow DEF Owning
    <3>3. ObjInv'
      BY <1>s, <2>1, <3>1, <3>2, OwningWrite
    <3> QED
      BY <1>s, <2>1, <3>1, <3>2, <3>3, WriteKeepsBuffers DEF Sound
  <2> QED
    BY <2>2, <2>3
<1> QED
  BY <1>1, <1>2, <1>3, <1>4, <1>5, <1>6 DEF Construct

\* set_handle writes the element it has freed.
LEMMA SoundFinishHandle == ASSUME TypeOK, Sound, FinishHandle PROVE Sound'
<1>1. then \in Slots /\ ObjInv /\ BufInv /\ (fault = "bad_free" => stale)
  BY DEF FinishHandle, TypeOK, Sound
<1>2. PICK c \in Cdts : c = Cdt("handle", Host, FALSE)
  BY CdtTyped DEF Types
<1>3. ~c.fr
  BY <1>2 DEF Cdt
<1>4. Write(then, c) /\ UNCHANGED <<hdr, heap, buf, todo, gave, stale, fault>>
  BY <1>2 DEF FinishHandle
<1>5. ObjInv'
  BY <1>1, <1>3, <1>4, PlainWrite
<1>6. BufInv'
  BY <1>1, <1>4, WriteKeepsBuffers
<1> QED
  BY <1>1, <1>4, <1>5, <1>6 DEF Sound

\* The destructor of an element finds what it expects.
LEMMA SoundDestroy == ASSUME TypeOK, Sound, Destroy PROVE Sound'
<1>1. UNCHANGED <<lost, gave, stale>>
  BY DEF Destroy
<1>2. PICK s \in todo : \/ DestroyInert(s) \/ DestroyObject(s) \/ DestroyArray(s)
                        \/ DestroyHandle(s) \/ DestroyWrong(s)
  BY DEF Destroy
<1>s. s \in Slots /\ slot[s] \in Cdts /\ ObjInv /\ BufInv /\ (fault = "bad_free" => stale)
  BY DEF TypeOK, Cdts, Sound
<1>3. CASE DestroyInert(s)
  <2>1. Inert(slot[s]) /\ todo' = todo \ {s} /\ UNCHANGED <<hdr, slot, heap, buf, fault>>
    BY <1>3 DEF DestroyInert
  <2>2. Owns(slot[s]) = {}
    BY <2>1, Apart DEF Inert, Owns, Owning
  <2>3. \A q \in Places \ Places' : Owns(slot[q]) = {}
    BY <2>1, <2>2 DEF Places
  <2>4. ObjInv'
    BY <1>1, <1>s, <2>1, <2>3, StayKeeps
  <2>5. BufInv'
    BY <1>1, <1>s, <2>1, BuffersStay
  <2> QED
    BY <1>1, <1>s, <2>1, <2>4, <2>5 DEF Sound
<1>4. CASE DestroyObject(s)
  <2>1. /\ ~Inert(slot[s]) /\ slot[s].type \in {"string", "callable"} /\ Right(slot[s])
        /\ heap' = [heap EXCEPT ![slot[s].val] = "freed"]
        /\ slot' = [slot EXCEPT ![s].val = Null]
        /\ todo' = todo \ {s} /\ UNCHANGED <<hdr, buf, fault>>
    BY <1>4 DEF DestroyObject
  <2>2. Places \subseteq Places' \cup {s} /\ slot[s].type \in Owning
    BY <2>1 DEF Places, Owning
  <2>3. ObjInv'
    BY <1>1, <1>s, <2>1, <2>2, DeleteKeeps
  <2>4. \A o \in Objs : heap[o] = "array" => heap'[o] = "array"
    BY <2>1 DEF Right, TypeOK
  <2>5. BufInv'
    BY <1>1, <1>s, <2>1, <2>4, BuffersStay
  <2> QED
    BY <1>1, <1>s, <2>1, <2>3, <2>5 DEF Sound
<1>5. CASE DestroyArray(s)
  <2>1. PICK o \in Objs : o = slot[s].val /\ heap[o] = "array"
    BY <1>5 DEF DestroyArray, Right
  <2>2. /\ ~Inert(slot[s]) /\ slot[s].type = "array" /\ Right(slot[s])
        /\ heap' = [heap EXCEPT ![o] = "freed"]
        /\ slot' = [slot EXCEPT ![s].val = Null]
        /\ hdr' = [hdr EXCEPT ![o] = Empty]
        /\ IF hdr[o].arr = Null
           THEN todo' = todo \ {s} /\ UNCHANGED <<buf, fault>>
           ELSE /\ todo' = (todo \ {s}) \cup Of(hdr[o].arr)
                /\ buf' = [buf EXCEPT ![hdr[o].arr] = "freed"]
                /\ fault' = IF buf[hdr[o].arr] = "live" THEN fault ELSE "bad_free"
    BY <1>5, <2>1 DEF DestroyArray
  <2>3. o \in AllHeaders /\ ~hdr[o].cache /\ (hdr[o].arr # Null => hdr[o].arr \in Bufs /\ buf[hdr[o].arr] = "live")
    <3>1. o \in AllHeaders /\ hdr[o].arr \in Bufs \cup {Null}
      BY DEF AllHeaders, TypeOK
    <3> QED
      BY <3>1, <1>s DEF BufInv, OnlyArrays, HeadersFit
  <2>4. fault' = fault
    BY <2>2, <2>3
  <2>5. Places \subseteq Places' \cup {s} /\ slot[s].type \in Owning
    <3> SUFFICES ASSUME NEW q \in Slots, q # s, buf[q[1]] = "live" \/ q \in todo
                 PROVE  buf'[q[1]] = "live" \/ q \in todo'
      BY <2>2 DEF Places, Owning, TypeOK
    <3>1. CASE hdr[o].arr = Null
      BY <2>2, <3>1
    <3>2. CASE hdr[o].arr # Null
      BY <2>2, <2>3, <3>2, OfBuffer DEF TypeOK
    <3> QED
      BY <3>1, <3>2
  <2>6. ObjInv'
    BY <1>1, <1>s, <2>1, <2>2, <2>5, DeleteKeeps
  <2>7. Empty.arr = Null /\ IF hdr[o].arr = Null \/ hdr[o].cache THEN UNCHANGED buf
                            ELSE buf' = [buf EXCEPT ![hdr[o].arr] = "freed"]
    BY <2>2, <2>3, EmptyFields
  <2>8. \A x \in Objs : IF x = o THEN Empty = Empty ELSE heap[x] = "array" => heap'[x] = "array"
    BY <2>2 DEF TypeOK
  <2>9. BufInv'
    BY <1>1, <1>s, <2>2, <2>3, <2>7, <2>8, ReleaseKeeps
  <2> QED
    BY <1>1, <1>s, <2>4, <2>6, <2>9 DEF Sound
<1>6. CASE DestroyHandle(s)
  <2>1. /\ slot[s].type = "handle" /\ slot' = [slot EXCEPT ![s].val = Null]
        /\ todo' = todo \ {s} /\ UNCHANGED <<hdr, heap, buf, fault>>
    BY <1>6 DEF DestroyHandle
  <2>2. Places \subseteq Places' \cup {s}
    BY <2>1 DEF Places
  <2>3. ObjInv'
    BY <1>1, <1>s, <2>1, <2>2, ClearKeeps
  <2>4. BufInv'
    BY <1>1, <1>s, <2>1, BuffersStay
  <2> QED
    BY <1>1, <1>s, <2>1, <2>3, <2>4 DEF Sound
<1>7. CASE DestroyWrong(s)
  <2>1. stale /\ UNCHANGED <<hdr, slot, heap, buf, todo>>
    BY <1>7, <1>s DEF DestroyWrong, ObjInv, SlotsSane
  <2>2. ObjInv'
    BY <1>1, <1>s, <2>1, PlacesGrow, StayKeeps
  <2>3. BufInv'
    BY <1>1, <1>s, <2>1, BuffersStay
  <2> QED
    BY <1>1, <2>1, <2>2, <2>3 DEF Sound
<1> QED
  BY <1>2, <1>3, <1>4, <1>5, <1>6, <1>7

------------------------------------------------------------------------------
(***************************************************************************)
(* The theorems.  The invariant is conditional on torn, which stays once it *)
(* is set.                                                                  *)
(***************************************************************************)
IInv == TypeOK /\ (~torn => Sound) /\ HandlesKept /\ EmptiedByFreeOrMove

\* What a callback has torn stays torn.
LEMMA TornStays == ASSUME TypeOK, [Next]_vars PROVE torn => torn'
<1>1. CASE UNCHANGED torn
  BY <1>1
<1>2. ASSUME NEW s, NEW t, ConstructThrows(s, t) PROVE torn => torn'
  <2>1. torn' = (torn \/ slot[s].val # Null)
    BY <1>2 DEF ConstructThrows
  <2> QED
    BY <2>1
<1>3. CASE OnRoots
  BY <1>1, <1>3 DEF OnRoots, NewRoot, CacheRoot, MoveConstruct, MoveAssign, FreeRoot, UseEmptied
<1>4. ASSUME NEW s, OnElement(s) PROVE UNCHANGED torn
  BY <1>4 DEF OnElement, SetScalar, SetString, SetHandle, SetArray, SetFromTemporary, SetFromElement
<1>5. ASSUME NEW s, Construct(s), \A t : ~ConstructThrows(s, t) PROVE UNCHANGED torn
  BY <1>5 DEF Construct, ConstructScalar, ConstructString, ConstructHandle, ConstructCallable, ConstructArray
<1>6. CASE FinishHandle \/ Destroy \/ UNCHANGED vars
  BY <1>1, <1>6 DEF FinishHandle, Destroy, vars
<1> QED
  BY <1>1, <1>2, <1>3, <1>4, <1>5, <1>6 DEF Next

\* Every step that does not tear anything keeps owners sound.
LEMMA SoundStep == ASSUME TypeOK, [Next]_vars, ~torn => Sound PROVE (~torn => Sound)'
<1> SUFFICES ASSUME ~torn' PROVE Sound'
  OBVIOUS
<1>1. Sound
  BY TornStays
<1>2. CASE UNCHANGED vars
  <2>1. UNCHANGED <<hdr, slot, heap, buf, todo, lost, gave, stale, fault>>
    BY <1>2 DEF vars
  <2>2. Places' = Places
    BY <2>1 DEF Places
  <2>3. ObjInv'
    BY <1>1, <2>1, <2>2, StayKeeps DEF Sound
  <2>4. BufInv'
    BY <1>1, <2>1, BuffersStay DEF Sound
  <2> QED
    BY <1>1, <2>1, <2>3, <2>4 DEF Sound
<1> QED
  BY <1>1, <1>2, SoundOnRoots, SoundOnElement, SoundConstruct, SoundFinishHandle, SoundDestroy DEF Next

\* That a host gave a handle away is remembered.
LEMMA GaveStays == ASSUME [Next]_vars PROVE gave => gave'
<1>1. CASE UNCHANGED gave
  BY <1>1
<1>2. ASSUME NEW s, ConstructHandle(s) PROVE gave => gave'
  <2>1. gave' = gave \/ \E f \in BOOLEAN : gave' = (gave \/ f)
    BY <1>2 DEF ConstructHandle
  <2> QED
    BY <2>1
<1>3. CASE OnRoots
  BY <1>1, <1>3 DEF OnRoots, NewRoot, CacheRoot, MoveConstruct, MoveAssign, FreeRoot, UseEmptied
<1>4. ASSUME NEW s, OnElement(s) PROVE UNCHANGED gave
  BY <1>4 DEF OnElement, SetScalar, SetString, SetHandle, SetArray, SetFromTemporary, SetFromElement
<1>5. ASSUME NEW s, Construct(s), ~ConstructHandle(s) PROVE UNCHANGED gave
  BY <1>5 DEF Construct, ConstructScalar, ConstructString, ConstructThrows, ConstructCallable, ConstructArray
<1>6. CASE FinishHandle \/ Destroy \/ UNCHANGED vars
  BY <1>1, <1>6 DEF FinishHandle, Destroy, vars
<1> QED
  BY <1>1, <1>2, <1>3, <1>4, <1>5, <1>6 DEF Next

\* That a callback left a TRUE flag alone is remembered, too.
LEMMA StaleStays == ASSUME [Next]_vars PROVE stale => stale'
<1>1. CASE UNCHANGED stale
  BY <1>1
<1>2. ASSUME NEW s, NEW t, NEW f, Unsaid(s, t, f) PROVE stale => stale'
  <2>1. stale' = (stale \/ f)
    BY <1>2 DEF Unsaid
  <2> QED
    BY <2>1
<1>3. ASSUME NEW s, NEW g, NEW f, ConstructCallable(s, g, f) PROVE stale => stale'
  <2>1. stale' = (stale \/ (f /\ ~g))
    BY <1>3 DEF ConstructCallable
  <2> QED
    BY <2>1
<1>4. ASSUME NEW s, ConstructString(s) \/ ConstructHandle(s) PROVE stale => stale'
  BY <1>1, <1>2, <1>4 DEF ConstructString, ConstructHandle
<1>5. CASE OnRoots
  BY <1>1, <1>5 DEF OnRoots, NewRoot, CacheRoot, MoveConstruct, MoveAssign, FreeRoot, UseEmptied
<1>6. ASSUME NEW s, OnElement(s) PROVE UNCHANGED stale
  BY <1>6 DEF OnElement, SetScalar, SetString, SetHandle, SetArray, SetFromTemporary, SetFromElement
<1>7. ASSUME NEW s, Construct(s) PROVE stale => stale'
  BY <1>1, <1>3, <1>4, <1>7 DEF Construct, ConstructScalar, ConstructThrows, ConstructArray
<1>8. CASE FinishHandle \/ Destroy \/ UNCHANGED vars
  BY <1>1, <1>8 DEF FinishHandle, Destroy, vars
<1> QED
  BY <1>1, <1>5, <1>6, <1>7, <1>8 DEF Next

\* Only the destructor of an element that holds a handle clears one.
LEMMA HandlesStep == ASSUME TypeOK, ~torn => Sound, HandlesKept, [Next]_vars PROVE HandlesKept'
<1> USE DEF NoDestruction
<1>1. CASE zeroed' = zeroed
  BY <1>1, GaveStays, TornStays, StaleStays DEF HandlesKept
<1>2. ASSUME NEW s \in todo, DestroyHandle(s), Destroy PROVE HandlesKept'
  <2>1. ~Inert(slot[s]) /\ slot[s].type = "handle" /\ s \in Slots
    BY <1>2 DEF DestroyHandle, TypeOK
  <2>2. slot[s].fr /\ slot[s].val # Null
    BY <2>1 DEF Inert
  <2>3. gave \/ torn \/ stale
    BY <2>1, <2>2 DEF Sound, ObjInv, HandlesOurs
  <2> QED
    BY <2>3, <1>2, GaveStays, TornStays, StaleStays DEF HandlesKept
<1>3. CASE OnRoots
  BY <1>1, <1>3 DEF OnRoots, NewRoot, CacheRoot, MoveConstruct, MoveAssign, FreeRoot, UseEmptied
<1>4. ASSUME NEW s, OnElement(s) PROVE UNCHANGED zeroed
  BY <1>4 DEF OnElement, SetScalar, SetString, SetHandle, SetArray, SetFromTemporary, SetFromElement
<1>5. ASSUME NEW s, Construct(s) PROVE UNCHANGED zeroed
  BY <1>5 DEF Construct, ConstructScalar, ConstructString, ConstructHandle, ConstructThrows,
              ConstructCallable, ConstructArray
<1>6. CASE FinishHandle \/ UNCHANGED vars
  BY <1>1, <1>6 DEF FinishHandle, vars
<1>7. CASE Destroy
  <2>1. PICK s \in todo : \/ DestroyInert(s) \/ DestroyObject(s) \/ DestroyArray(s)
                          \/ DestroyHandle(s) \/ DestroyWrong(s)
    BY <1>7 DEF Destroy
  <2> QED
    BY <2>1, <1>1, <1>2, <1>7 DEF DestroyInert, DestroyObject, DestroyArray, DestroyWrong
<1> QED
  BY <1>1, <1>3, <1>4, <1>5, <1>6, <1>7 DEF Next

\* Headers of the host change by its own operations only.
LEMMA EmptiedStep == ASSUME TypeOK, EmptiedByFreeOrMove, [Next]_vars PROVE EmptiedByFreeOrMove'
<1>1. CASE OnRoots
  <2> SUFFICES ASSUME NEW x \in Roots, hdr'[x].arr = Null, hdr'[x].len > 0 PROVE x \in spent'
    BY DEF EmptiedByFreeOrMove
  <2>0. /\ \A g \in Roots : hdr[g].arr = Null /\ hdr[g].len > 0 => g \in spent
        /\ Empty.len = 0 /\ Null \notin Bufs /\ FreshBuf \in Bufs /\ CacheBufs \subseteq Bufs
    BY EmptyFields, Apart, FreshUnused, SlotsAssumption DEF EmptiedByFreeOrMove
  <2>1. ASSUME NEW r \in Roots, NEW n \in 0 .. MaxLen, NewRoot(r, n) PROVE x \in spent'
    <3>1. /\ hdr' = [hdr EXCEPT ![r] = Empty] \/ hdr' = [hdr EXCEPT ![r] = Header(FreshBuf, n, FALSE)]
          /\ spent' = spent \ {r}
      BY <2>1 DEF NewRoot
    <3>2. hdr'[r] = Empty \/ hdr'[r] = Header(FreshBuf, n, FALSE)
      BY <3>1 DEF TypeOK
    <3>3. x # r
      BY <2>0, <3>2 DEF Header
    <3> QED
      BY <2>0, <3>1, <3>3 DEF TypeOK
  <2>2. ASSUME NEW r \in Roots, NEW b \in CacheBufs, NEW n \in 1 .. MaxLen, CacheRoot(r, b, n)
        PROVE  x \in spent'
    <3>1. hdr' = [hdr EXCEPT ![r] = Header(b, n, TRUE)] /\ spent' = spent \ {r}
      BY <2>2 DEF CacheRoot
    <3>2. hdr'[r] = Header(b, n, TRUE)
      BY <3>1 DEF TypeOK
    <3>3. x # r
      BY <2>0, <3>2 DEF Header
    <3> QED
      BY <2>0, <3>1, <3>3 DEF TypeOK
  <2>3. ASSUME NEW r \in Roots, NEW q \in Roots, MoveConstruct(r, q) PROVE x \in spent'
    <3>1. /\ hdr' = [hdr EXCEPT ![r] = hdr[q], ![q].arr = Null] /\ r # q
          /\ spent' = (IF q \in spent THEN spent \cup {r} ELSE spent \ {r}) \cup {q}
      BY <2>3 DEF MoveConstruct
    <3>2. CASE x = q
      BY <3>1, <3>2
    <3>3. CASE x = r
      <4>1. hdr'[x] = hdr[q]
        BY <3>1, <3>3 DEF TypeOK
      <4> QED
        BY <2>0, <3>1, <3>3, <4>1
    <3>4. CASE x # q /\ x # r
      BY <2>0, <3>1, <3>4 DEF TypeOK
    <3> QED
      BY <3>2, <3>3, <3>4
  <2>4. ASSUME NEW r \in Roots, NEW q \in Roots, MoveAssign(r, q) PROVE x \in spent'
    <3>1. /\ hdr' = [hdr EXCEPT ![r] = hdr[q], ![q] = Empty] /\ r # q
          /\ spent' = (IF q \in spent THEN spent \cup {r} ELSE spent \ {r}) \ {q}
      BY <2>4 DEF MoveAssign
    <3>2. hdr'[q] = Empty /\ hdr'[r] = hdr[q]
      BY <3>1 DEF TypeOK
    <3>3. x # q
      BY <2>0, <3>2
    <3>4. CASE x = r
      BY <2>0, <3>1, <3>2, <3>3, <3>4
    <3>5. CASE x # r
      BY <2>0, <3>1, <3>3, <3>5 DEF TypeOK
    <3> QED
      BY <3>4, <3>5
  <2>5. ASSUME NEW r \in Roots, FreeRoot(r) PROVE x \in spent'
    <3>1. hdr' = [hdr EXCEPT ![r].arr = Null] /\ spent' = spent \cup {r}
      BY <2>5 DEF FreeRoot
    <3> QED
      BY <2>0, <3>1 DEF TypeOK
  <2>6. ASSUME NEW r \in Roots, UseEmptied(r) PROVE x \in spent'
    BY <2>0, <2>6 DEF UseEmptied
  <2> QED
    BY <1>1, <2>1, <2>2, <2>3, <2>4, <2>5, <2>6 DEF OnRoots
<1>2. CASE spent' = spent /\ \A r \in Roots : hdr'[r] = hdr[r]
  BY <1>2 DEF EmptiedByFreeOrMove
<1>3. ASSUME NEW s, NEW n, NewArray(s, n) PROVE \A r \in Roots : hdr'[r] = hdr[r]
  BY <1>3, FreshUnused, Apart DEF NewArray, TypeOK
<1>4. ASSUME NEW s, OnElement(s) PROVE spent' = spent /\ \A r \in Roots : hdr'[r] = hdr[r]
  BY <1>3, <1>4 DEF OnElement, SetScalar, SetString, SetHandle, SetArray, SetFromTemporary, SetFromElement
<1>5. ASSUME NEW s, Construct(s) PROVE spent' = spent /\ \A r \in Roots : hdr'[r] = hdr[r]
  BY <1>3, <1>5 DEF Construct, ConstructScalar, ConstructString, ConstructHandle, ConstructThrows,
                    ConstructCallable, ConstructArray
<1>6. CASE FinishHandle \/ UNCHANGED vars
  BY <1>2, <1>6 DEF FinishHandle, vars
<1>7. CASE Destroy
  <2>1. PICK s \in todo : \/ DestroyInert(s) \/ DestroyObject(s) \/ DestroyArray(s)
                          \/ DestroyHandle(s) \/ DestroyWrong(s)
    BY <1>7 DEF Destroy
  <2>2. spent' = spent
    BY <1>7 DEF Destroy
  <2>3. CASE DestroyArray(s)
    <3>1. slot[s].val \in Objs /\ hdr' = [hdr EXCEPT ![slot[s].val] = Empty]
      BY <2>3 DEF DestroyArray, Right
    <3> QED
      BY <1>2, <2>2, <3>1, Apart DEF TypeOK
  <2> QED
    BY <2>1, <2>2, <2>3, <1>2 DEF DestroyInert, DestroyObject, DestroyHandle, DestroyWrong
<1> QED
  BY <1>1, <1>2, <1>4, <1>5, <1>6, <1>7 DEF Next

\* The invariant holds always: elements and headers own what they point to,
\* soundly until a callback throws over a value; handles and emptied headers
\* are accounted for even then.
THEOREM Invariant == Spec => []IInv
<1>1. Init => IInv
  <2> SUFFICES ASSUME Init PROVE IInv
    OBVIOUS
  <2>1. ~zeroed /\ fault = "none"
    BY DEF Init
  <2>2. \A r \in Roots : hdr[r].len = 0
    BY EmptyFields DEF Init
  <2> QED
    BY <2>1, <2>2, TypeInit, ObjInvInit, BufInvInit DEF IInv, Sound, HandlesKept, EmptiedByFreeOrMove
<1>2. IInv /\ [Next]_vars => IInv'
  BY TypeStep, SoundStep, HandlesStep, EmptiedStep DEF IInv
<1> QED
  BY <1>1, <1>2, PTL DEF Spec

\* The element that owns an object finds it alive.
LEMMA OwnedLives == ASSUME ObjInv, NEW s \in Slots PROVE Owns(slot[s]) \subseteq Live
<1> SUFFICES ASSUME NEW o \in Owns(slot[s]) PROVE o \in Live
  OBVIOUS
<1>1. slot[s].fr /\ slot[s].type \in Owning /\ slot[s].val = o /\ o \in Objs
  BY OwnsOne
<1>2. Right(slot[s])
  BY <1>1, Apart DEF ObjInv, SlotsSane, Inert, Owning
<1> QED
  BY <1>1, <1>2 DEF Right, Live, Owning

\* One owner each, from the parts of the invariant.
LEMMA SoundOneOwner == TypeOK /\ (~torn => Sound) => OneOwner
<1> SUFFICES ASSUME TypeOK, Sound
             PROVE  /\ \A s \in Places : Owns(slot[s]) \subseteq Live
                    /\ \A s, q \in Places : s # q => Owns(slot[s]) \cap Owns(slot[q]) = {}
                    /\ \A g, h \in Headers : g # h /\ hdr[g].arr = hdr[h].arr => hdr[g].arr = Null
  BY DEF OneOwner
<1>1. Places \subseteq Slots /\ Headers \subseteq AllHeaders
  BY DEF Places, Headers, AllHeaders, TypeOK
<1>2. \A s \in Places : Owns(slot[s]) \subseteq Live
  BY <1>1, OwnedLives DEF Sound
<1>3. \A s, q \in Places : s # q => Owns(slot[s]) \cap Owns(slot[q]) = {}
  BY <1>1 DEF Sound, ObjInv, SlotsApart
<1>4. \A g, h \in Headers : g # h /\ hdr[g].arr = hdr[h].arr => hdr[g].arr = Null
  BY <1>1 DEF Sound, BufInv, HeadersApart
<1> QED
  BY <1>2, <1>3, <1>4

\* What is lost, and nothing else, has no owner.
LEMMA SoundLeaks == TypeOK /\ (~torn => Sound) => LeaksAreOverwrites
<1> SUFFICES ASSUME TypeOK, Sound
             PROVE  lost = (Live \ Owned) \cup ({b \in Bufs \ CacheBufs : buf[b] = "live"} \ HeldBufs)
  BY DEF LeaksAreOverwrites
<1>1. Places \subseteq Slots /\ lost \subseteq Objs \cup Bufs
  BY DEF Places, TypeOK
<1>2. ASSUME NEW o \in Objs PROVE o \in lost <=> o \in Live \ Owned
  <2>1. o \in lost <=> heap[o] \in Owning /\ \A s \in Slots : o \notin Owns(slot[s])
    BY DEF Sound, ObjInv, LostObjs
  <2>2. o \in Owned <=> \E s \in Places : o \in Owns(slot[s])
    BY DEF Owned
  <2>3. (\A s \in Slots : o \notin Owns(slot[s])) <=> o \notin Owned
    BY <1>1, <2>2 DEF Sound, ObjInv, OutsideEmpty
  <2> QED
    BY <2>1, <2>3 DEF Live
<1>3. ASSUME NEW b \in Bufs
      PROVE  b \in lost <=> b \in {x \in Bufs \ CacheBufs : buf[x] = "live"} \ HeldBufs
  <2>1. b \in lost <=> b \notin CacheBufs /\ buf[b] = "live" /\ \A h \in AllHeaders : hdr[h].arr # b
    BY DEF Sound, BufInv, LostBufs
  <2>2. ASSUME NEW h \in AllHeaders, hdr[h].arr = b PROVE h \in Headers
    BY <2>2, Apart, EmptyFields DEF Headers, AllHeaders, Sound, BufInv, OnlyArrays
  <2>3. (\A h \in AllHeaders : hdr[h].arr # b) <=> b \notin HeldBufs
    BY <2>2 DEF HeldBufs, Headers, AllHeaders
  <2> QED
    BY <2>1, <2>3
<1>4. \A o \in Objs : o \notin Bufs
  BY Apart
<1>5. Live \subseteq Objs
  BY DEF Live
<1> QED
  BY <1>1, <1>2, <1>3, <1>4, <1>5

\* Headers, elements, objects and buffers are always of their kinds.
THEOREM TypeCorrect == Spec => []TypeOK
  BY Invariant, PTL DEF IInv

\* cdt::free and cdts::free never delete twice, by the wrong delete, or what
\* the host or the cache owns, unless a callback threw over a value or left a
\* TRUE free_required as it was.
THEOREM NothingFreedTwice == Spec => []NoBadFree
<1>1. IInv => NoBadFree
  BY DEF IInv, Sound, NoBadFree
<1> QED
  BY <1>1, Invariant, PTL

\* Each object and each buffer has at most one owner, which finds it alive,
\* unless a callback threw over a value.
THEOREM OneOwnerEach == Spec => []OneOwner
<1>1. IInv => OneOwner
  BY SoundOneOwner DEF IInv
<1> QED
  BY <1>1, Invariant, PTL

\* The destructors leak nothing: what lives without an owner is exactly what
\* a setter, a construction or a move assignment wrote over.
THEOREM OverwritesLeak == Spec => []LeaksAreOverwrites
<1>1. IInv => LeaksAreOverwrites
  BY SoundLeaks DEF IInv
<1> QED
  BY <1>1, Invariant, PTL

\* ~cdt clears a handle of the host only if get_handle gave it away, or left a
\* TRUE free_required as it was, or a callback threw over a value.
THEOREM HandlesStayTheHosts == Spec => []HandlesKept
<1>1. IInv => HandlesKept
  BY DEF IInv
<1> QED
  BY <1>1, Invariant, PTL

\* A cdts with a length and no buffer was freed or moved from by the move
\* constructor, or was assigned from such a one.
THEOREM EmptiedOnlySo == Spec => []EmptiedByFreeOrMove
<1>1. IInv => EmptiedByFreeOrMove
  BY DEF IInv
<1> QED
  BY <1>1, Invariant, PTL
================================================================================
