------------------------------ MODULE MCCdtSlots ------------------------------
(***************************************************************************)
(* CdtSlots for TLC.  All types, two variables, the cache and throwing      *)
(* callbacks together are too many states; an instance explores one of two  *)
(* scenes, each with everything its hazards need.                           *)
(***************************************************************************)
EXTENDS CdtSlots, FiniteSets

VARIABLE scene
\* "elements": one variable, every type of element, callbacks that return
\*             (an element half written by one that threw leaves the scene, and
\*             after a flag left alone there are fewer objects).
\* "moves":    two variables, one of them perhaps over the cache, throwing
\*             callbacks, but only strings and arrays.

UsedObjs == {o \in Objs : heap[o] # "unused"}
UsedBufs == {b \in Bufs \ CacheBufs : buf[b] # "unused"}
MovedTypes == {"null", "string", "array"}

First == CHOOSE r \in Roots : TRUE

Inside ==
  \/ /\ scene = "elements" /\ ~torn
     /\ \A r \in Roots \ {First} : hdr[r] = Empty /\ r \notin spent
     /\ ~hdr[First].cache
     /\ stale => Cardinality(UsedObjs) <= 2 /\ Cardinality(UsedBufs) <= 1
     /\ \A s \in Elements \ {then} : slot[s].val = Null => slot[s].type = "null"
  \/ /\ scene = "moves"
     /\ Cardinality(UsedObjs) <= 2 /\ Cardinality(UsedBufs) <= 1
     /\ \A s \in Slots : slot[s].type \in MovedTypes

MCInit == Init /\ scene \in {"elements", "moves"}
MCNext == Next /\ UNCHANGED scene /\ Inside'
MCSpec == MCInit /\ [][MCNext]_<<vars, scene>>
==============================================================================
