------------------------------- MODULE XllrApi -------------------------------
(***************************************************************************)
(* What the host process is promised by the lazily bound XLLR C-API        *)
(* (runtime/xllr_capi_loader.h): a caller of an xllr_* function is either   *)
(* served by the mapped XLLR library or turned away, and while it is being  *)
(* served the library stays mapped.                                         *)
(***************************************************************************)
CONSTANT Threads

VARIABLES mapped,   \* is xllr.so mapped into the process?
          status    \* what each thread is doing with the API

vars == <<mapped, status>>

Init == /\ mapped = FALSE
        /\ status \in [Threads -> {"idle", "waiting"}]

Move(t, from, to) == /\ status[t] = from
                     /\ status' = [status EXCEPT ![t] = to]

\* A thread enters an xllr_* function, or calls the loader itself.
Enter(t) == Move(t, "idle", "waiting") /\ UNCHANGED mapped

\* XLLR's own function runs: only possible while the library is mapped.
Serve(t) == mapped /\ Move(t, "waiting", "served") /\ UNCHANGED mapped

\* XLLR's function returned.
Leave(t) == mapped /\ Move(t, "served", "idle") /\ UNCHANGED mapped

\* The call came back without reaching XLLR, or the loader returned.
TurnAway(t) == Move(t, "waiting", "idle") /\ UNCHANGED mapped

\* The library is mapped, once and for all.
Map == mapped' = TRUE /\ UNCHANGED status

Next == Map \/ \E t \in Threads : Enter(t) \/ Serve(t) \/ Leave(t) \/ TurnAway(t)

Spec == Init /\ [][Next]_vars
==============================================================================
