------------------------------ MODULE MCHostCalls ------------------------------
(***************************************************************************)
(* HostCalls for TLC.  Type information and callables do not touch one      *)
(* another, so an instance explores either of them beside the xcalls.       *)
(***************************************************************************)
EXTENDS HostCalls, TLC

VARIABLE with    \* what this host uses beside xcalls

MCInit == Init /\ with \in {"infos", "callables"}
MCNext ==
  /\ Running /\ UNCHANGED with
  /\ \/ with = "infos" /\ InfoStep
     \/ with = "callables" /\ CallableStep
     \/ XcallStep
     \/ \E g \in Guarded : LoadEntity(g)
MCSpec == MCInit /\ [][MCNext]_<<vars, with>>

Symmetry == UNION {Permutations(S) : S \in {Strings, Arrays, Texts, Infos, Callables}}
==============================================================================
