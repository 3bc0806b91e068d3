------------------------------- MODULE HostCalls -------------------------------
(***************************************************************************)
(* A host that prepares type information, has XLLR load foreign functions   *)
(* with it, calls them through xcalls and passes callables around: the      *)
(* interleavings of TypeInfos, Callables and Xcalls.  They meet where       *)
(* load_entity and make_callable are handed the type information: XLLR      *)
(* reads every alias in it.                                                 *)
(***************************************************************************)
EXTENDS TypeInfos, Callables, Xcalls

vars == <<infoVars, callableVars, xcallVars>>

Init == TypeInfosInit /\ CallablesInit /\ XcallsInit

Running == info_fault = "none" /\ call_fault = "none" /\ x_fault = "none"

InfoStep == TypeInfosNext /\ UNCHANGED <<callableVars, xcallVars>>
CallableStep == CallablesNext /\ UNCHANGED <<infoVars, xcallVars>>
XcallStep == XcallsStep /\ UNCHANGED <<infoVars, callableVars>>

\* load_entity(plugin, module, path, params_types, n, ..): the host hands over
\* the infos it has built.
Given == {i \in Infos : info[i].built}
LoadEntity(g) ==
  /\ UNCHANGED callableVars
  /\ IF \E i \in Given : Dangling(info[i].alias)
     THEN info_fault' = "dangling" /\ UNCHANGED <<info, heap, borrowed, xcallVars>>
     ELSE Load(g) /\ UNCHANGED infoVars

Next == Running /\ (InfoStep \/ CallableStep \/ XcallStep \/ \E g \in Guarded : LoadEntity(g))

Spec == Init /\ [][Next]_vars
------------------------------------------------------------------------------
TypeOK == TypeInfosTypeOK /\ CallablesTypeOK /\ XcallsTypeOK

(***************************************************************************)
(* What ends such a process: reading or freeing what a borrowed alias       *)
(* pointed to, a callable used after free(), a function that was copied and *)
(* freed, and the two places that never check (C calls, the exception made  *)
(* of a null message).  Nothing else does.                                  *)
(***************************************************************************)
FaultsExplained ==
  /\ info_fault \in {"none", "dangling"} /\ (info_fault = "dangling" => borrowed # {})
  /\ CallableFaults
  /\ x_fault \in {"none", "null_throw", "null_call"} \/ shared # {}
==============================================================================
