----------------------------- MODULE XllrLoader ------------------------------
(***************************************************************************)
(* The lazy loader of the XLLR C-API (runtime/xllr_capi_loader.c).          *)
(*                                                                         *)
(* Each xllr_* function is a wrapper around a global function pointer; the *)
(* macro check_function_pointer loads XLLR when that pointer is NULL.  The *)
(* handle and the pointers are plain globals with no lock, so every access *)
(* to one of them is a step of its own here and threads interleave freely. *)
(* free_xllr unmaps the library and leaves handle and pointers as they are. *)
(*                                                                         *)
(* A library address is the number of the dlopen that mapped it (`epoch`);  *)
(* 0 is NULL.  Undefined behaviour (a call through NULL or through an       *)
(* unmapped address) kills the process: the thread is "faulted".           *)
(***************************************************************************)
EXTENDS Integers

CONSTANTS Threads,     \* threads of the host process
          NSym,        \* number of function pointers load_xllr_capi resolves
          StaticLoad,  \* is xllr_static_capi_loader.cpp linked in?
          Main,        \* the thread that runs the static constructors
          MayFree      \* may the host call free_xllr?

ASSUME LoaderAssumption ==
  /\ NSym \in Nat \ {0}
  /\ StaticLoad \in BOOLEAN /\ MayFree \in BOOLEAN
  /\ Main \in Threads

Symbols == 1 .. NSym

VARIABLES
  handle,    \* cdt_helper_xllr_handle: 0 or an epoch
  fp,        \* the global function pointers: 0 or the epoch they point into
  refs,      \* dlopen count of xllr.so: mapped iff positive
  epoch,     \* number of times xllr.so has been mapped
  exports,   \* the symbols the installed xllr.so has
  home,      \* is METAFFI_HOME set?
  installed, \* is there an xllr.so to open?
  up,        \* have the static constructors finished?
  pc,        \* where each thread is
  fn,        \* the symbol behind the wrapper a thread called
  caller,    \* who called the loader: a wrapper, the user, a constructor
  opened,    \* what a thread's dlopen returned, before it is stored
  idx,       \* next symbol load_xllr_capi resolves
  res,       \* what load_xllr / load_xllr_capi returned: NULL is "ok"
  freed,     \* history: has free_xllr been called?
  overlap    \* history: have two threads been in the loader at once?

world == <<refs, epoch, exports, home, installed>>
local == <<fn, caller, opened, idx, res>>
vars == <<handle, fp, world, up, pc, local, freed, overlap>>

LoaderPCs == {"handle", "load", "getenv", "dlopen", "store", "resolve", "ret"}
Stopped == {"faulted", "exited"}
PCs == {"idle", "check", "dispatch", "incall", "gaveup"} \cup LoaderPCs \cup Stopped

Mapped == refs > 0
Alive == \A t \in Threads : pc[t] \notin Stopped
Faulted == \E t \in Threads : pc[t] = "faulted"
Loading(t) == pc[t] \in LoaderPCs

Init ==
  /\ handle = 0 /\ fp = [s \in Symbols |-> 0]
  /\ refs = 0 /\ epoch = 0
  /\ exports \in SUBSET Symbols
  /\ home \in BOOLEAN /\ installed \in BOOLEAN
  /\ up = ~StaticLoad
  /\ pc = [t \in Threads |-> IF StaticLoad /\ t = Main THEN "load" ELSE "idle"]
  /\ fn = [t \in Threads |-> 1]
  /\ caller = [t \in Threads |-> IF StaticLoad THEN "static" ELSE "user"]
  /\ opened = [t \in Threads |-> 0]
  /\ idx = [t \in Threads |-> 1]
  /\ res = [t \in Threads |-> "ok"]
  /\ freed = FALSE /\ overlap = FALSE

(***************************************************************************)
(* Every step of a thread moves its pc and keeps the history of overlaps.   *)
(***************************************************************************)
Goto(t, from, to) ==
  /\ Alive
  /\ pc[t] = from
  /\ pc' = [pc EXCEPT ![t] = to]
  /\ overlap' = (overlap \/ \E u \in Threads \ {t} : Loading(u) /\ to \in LoaderPCs)

Keep == UNCHANGED <<world, up, freed>>

\* A host thread calls one of the wrappers.
Call(t, s) ==
  /\ up
  /\ Goto(t, "idle", "check")
  /\ fn' = [fn EXCEPT ![t] = s]
  /\ caller' = [caller EXCEPT ![t] = "wrapper"]
  /\ Keep /\ UNCHANGED <<handle, fp, opened, idx, res>>

\* check_function_pointer: is the pointer NULL?
CheckPointer(t) ==
  /\ Goto(t, "check", IF fp[fn[t]] = 0 THEN "handle" ELSE "dispatch")
  /\ Keep /\ UNCHANGED <<handle, fp, local>>

\* check_function_pointer: load the library, or only its symbols?
CheckHandle(t) ==
  /\ Goto(t, "handle", IF handle = 0 THEN "load" ELSE "resolve")
  /\ idx' = [idx EXCEPT ![t] = 1]
  /\ Keep /\ UNCHANGED <<handle, fp, fn, caller, opened, res>>

\* The wrapper reads its pointer again and calls through it.
Dispatch(t) ==
  /\ Goto(t, "dispatch", IF Mapped /\ fp[fn[t]] = epoch THEN "incall" ELSE "faulted")
  /\ Keep /\ UNCHANGED <<handle, fp, local>>

\* XLLR's function runs to its end.
Return(t) ==
  /\ Goto(t, "incall", IF Mapped THEN "idle" ELSE "faulted")
  /\ Keep /\ UNCHANGED <<handle, fp, fn, caller, opened, idx, res>>

\* check_function_pointer's `return retval` after a failed load.
GiveUp(t) ==
  /\ Goto(t, "gaveup", "idle")
  /\ Keep /\ UNCHANGED <<handle, fp, local>>
------------------------------------------------------------------------------
\* The host calls load_xllr or load_xllr_capi itself.
UserLoad(t, entry) ==
  /\ up
  /\ Goto(t, "idle", entry)
  /\ caller' = [caller EXCEPT ![t] = "user"]
  /\ idx' = [idx EXCEPT ![t] = 1]
  /\ Keep /\ UNCHANGED <<handle, fp, fn, opened, res>>

ReturnFromLoad(t, from, r) ==
  /\ Goto(t, from, "ret")
  /\ res' = [res EXCEPT ![t] = r]

\* Mutants: no early return; pointers cleared on entry.
LoadTest_Reopens(t) ==
  /\ Goto(t, "load", "getenv")
  /\ Keep /\ UNCHANGED <<handle, fp, local>>

LoadTest_Clears(t) ==
  /\ IF handle # 0 THEN ReturnFromLoad(t, "load", "ok")
                   ELSE Goto(t, "load", "getenv") /\ UNCHANGED res
  /\ fp' = [s \in Symbols |-> 0]
  /\ Keep /\ UNCHANGED <<handle, fn, caller, opened, idx>>

\* load_xllr: nothing to do when a handle is there.
LoadTest(t) ==
  /\ IF handle # 0 THEN ReturnFromLoad(t, "load", "ok")
                   ELSE Goto(t, "load", "getenv") /\ UNCHANGED res
  /\ Keep /\ UNCHANGED <<handle, fp, fn, caller, opened, idx>>

GetHome(t) ==
  /\ IF home THEN Goto(t, "getenv", "dlopen") /\ UNCHANGED res
             ELSE ReturnFromLoad(t, "getenv", "err")
  /\ Keep /\ UNCHANGED <<handle, fp, fn, caller, opened, idx>>

\* dlopen: maps the library, or counts one more opening of the mapped one.
OpenLibrary(t) ==
  /\ Goto(t, "dlopen", "store")
  /\ IF installed
     THEN /\ refs' = refs + 1
          /\ epoch' = IF Mapped THEN epoch ELSE epoch + 1
          /\ opened' = [opened EXCEPT ![t] = epoch']
     ELSE /\ opened' = [opened EXCEPT ![t] = 0]
          /\ UNCHANGED <<refs, epoch>>
  /\ UNCHANGED <<handle, fp, fn, caller, idx, res, exports, home, installed, up, freed>>

\* The result goes to the global handle, NULL included.
StoreHandle(t) ==
  /\ handle' = opened[t]
  /\ IF opened[t] = 0 THEN ReturnFromLoad(t, "store", "err") /\ UNCHANGED idx
                      ELSE /\ Goto(t, "store", "resolve") /\ UNCHANGED res
                           /\ idx' = [idx EXCEPT ![t] = 1]
  /\ Keep /\ UNCHANGED <<fp, fn, caller, opened>>

\* dlsym on a closed handle is undefined; on NULL it searches what is loaded.
StaleHandle == handle # 0 /\ ~(Mapped /\ handle = epoch)
Dlsym(s) == IF Mapped /\ s \in exports THEN epoch ELSE 0

\* Mutants: one iteration too many; missing symbols skipped; no progress.
Resolve_PastEnd(t) ==
  /\ fp' = [fp EXCEPT ![idx[t]] = Dlsym(idx[t])]
  /\ IF Dlsym(idx[t]) = 0 THEN ReturnFromLoad(t, "resolve", "err") /\ UNCHANGED idx
     ELSE /\ Goto(t, "resolve", "resolve") /\ UNCHANGED res
          /\ idx' = [idx EXCEPT ![t] = @ + 1]
  /\ Keep /\ UNCHANGED <<handle, fn, caller, opened>>

Resolve_SkipsMissing(t) ==
  /\ fp' = [fp EXCEPT ![idx[t]] = Dlsym(idx[t])]
  /\ IF idx[t] = NSym THEN ReturnFromLoad(t, "resolve", "ok") /\ UNCHANGED idx
     ELSE /\ Goto(t, "resolve", "resolve") /\ UNCHANGED res
          /\ idx' = [idx EXCEPT ![t] = @ + 1]
  /\ Keep /\ UNCHANGED <<handle, fn, caller, opened>>

Resolve_Retries(t) ==
  /\ fp' = [fp EXCEPT ![idx[t]] = Dlsym(idx[t])]
  /\ IF idx[t] = NSym /\ fp'[NSym] # 0
     THEN ReturnFromLoad(t, "resolve", "ok") /\ UNCHANGED idx
     ELSE /\ Goto(t, "resolve", "resolve") /\ UNCHANGED res
          /\ idx' = [idx EXCEPT ![t] = IF fp'[@] = 0 THEN @ ELSE @ + 1]
  /\ Keep /\ UNCHANGED <<handle, fn, caller, opened>>

\* load_xllr_capi: one pointer after the other, up to the first that is missing.
Resolve(t) ==
  /\ IF StaleHandle
     THEN Goto(t, "resolve", "faulted") /\ UNCHANGED <<fp, res, idx>>
     ELSE /\ fp' = [fp EXCEPT ![idx[t]] = Dlsym(idx[t])]
          /\ IF Dlsym(idx[t]) = 0 THEN ReturnFromLoad(t, "resolve", "err") /\ UNCHANGED idx
             ELSE IF idx[t] = NSym THEN ReturnFromLoad(t, "resolve", "ok") /\ UNCHANGED idx
             ELSE /\ Goto(t, "resolve", "resolve") /\ UNCHANGED res
                  /\ idx' = [idx EXCEPT ![t] = @ + 1]
  /\ Keep /\ UNCHANGED <<handle, fn, caller, opened>>

\* Mutants: the macro ignores the error; the constructor does.
EndLoad_IgnoresError(t) ==
  /\ Goto(t, "ret", IF caller[t] = "wrapper" THEN "dispatch" ELSE "idle")
  /\ UNCHANGED <<handle, fp, world, up, local, freed>>

EndLoad_NoExit(t) ==
  /\ Goto(t, "ret", IF caller[t] # "wrapper" THEN "idle"
                    ELSE IF res[t] = "ok" THEN "dispatch" ELSE "gaveup")
  /\ up' = TRUE
  /\ UNCHANGED <<handle, fp, world, local, freed>>

\* Back in the caller: the wrapper's macro, the user, the static constructor.
EndLoad(t) ==
  /\ Goto(t, "ret", CASE caller[t] = "wrapper" -> IF res[t] = "ok" THEN "dispatch" ELSE "gaveup"
                      [] caller[t] = "static"  -> IF res[t] = "ok" THEN "idle" ELSE "exited"
                      [] OTHER -> "idle")
  /\ up' = (up \/ (caller[t] = "static" /\ res[t] = "ok"))
  /\ UNCHANGED <<handle, fp, world, local, freed>>

\* free_xllr: dlclose; a NULL or closed handle is undefined behaviour.
FreeXllr(t) ==
  /\ MayFree /\ up
  /\ freed' = TRUE
  /\ IF handle = 0 \/ StaleHandle
     THEN Goto(t, "idle", "faulted") /\ UNCHANGED refs
     ELSE Goto(t, "idle", "idle") /\ refs' = refs - 1
  /\ UNCHANGED <<handle, fp, local, epoch, exports, home, installed, up>>
------------------------------------------------------------------------------
\* Somebody sets METAFFI_HOME or installs XLLR while the process runs.
Repair ==
  /\ Alive
  /\ \/ ~home /\ home' = TRUE /\ UNCHANGED installed
     \/ ~installed /\ installed' = TRUE /\ UNCHANGED home
  /\ UNCHANGED <<handle, fp, refs, epoch, exports, up, pc, local, freed, overlap>>

\* What a thread does by itself once it has entered the API.
Step(t) ==
  \/ CheckPointer(t) \/ CheckHandle(t) \/ Dispatch(t) \/ Return(t) \/ GiveUp(t)
  \/ LoadTest(t) \/ GetHome(t) \/ OpenLibrary(t) \/ StoreHandle(t)
  \/ Resolve(t) \/ EndLoad(t)

Enter(t) ==
  \/ \E s \in Symbols : Call(t, s)
  \/ \E entry \in {"load", "resolve"} : UserLoad(t, entry)
  \/ FreeXllr(t)

Next == Repair \/ \E t \in Threads : Step(t) \/ Enter(t)

Spec == Init /\ [][Next]_vars
FairSpec == Spec /\ \A t \in Threads : WF_vars(Step(t))
------------------------------------------------------------------------------
\* The variables hold values of their kinds (globals and per-thread registers).
TypeOK ==
  /\ epoch \in Nat /\ refs \in Nat
  /\ handle \in 0 .. epoch /\ fp \in [Symbols -> 0 .. epoch]
  /\ exports \in SUBSET Symbols /\ home \in BOOLEAN /\ installed \in BOOLEAN
  /\ up \in BOOLEAN /\ freed \in BOOLEAN /\ overlap \in BOOLEAN
  /\ pc \in [Threads -> PCs]
  /\ fn \in [Threads -> Symbols] /\ idx \in [Threads -> Symbols]
  /\ caller \in [Threads -> {"wrapper", "user", "static"}]
  /\ opened \in [Threads -> 0 .. epoch]
  /\ res \in [Threads -> {"ok", "err"}]

Complete == \A s \in Symbols : fp[s] # 0

(***************************************************************************)
(* No thread ever calls through a NULL or unmapped pointer, whatever is     *)
(* missing from the installation, unless free_xllr was called or two        *)
(* threads were inside the lock-free loader at once; with the static loader *)
(* (xllr_static_capi_loader.cpp) overlapping threads are harmless too.      *)
(***************************************************************************)
FaultNeedsRaceOrFree == Faulted => freed \/ (overlap /\ ~StaticLoad)

(***************************************************************************)
(* A library that lacks a symbol leaves a prefix of the pointers bound:     *)
(* load_xllr_capi stops at the first missing one, and no interleaving of    *)
(* loaders unbinds an earlier pointer below a bound one.                    *)
(***************************************************************************)
BoundIsPrefix ==
  ~freed => \A r, s \in Symbols : r < s /\ fp[s] # 0 => fp[r] # 0

(***************************************************************************)
(* dlopen's count is 1 as long as loads do not overlap, whatever failures   *)
(* and retries came before: free_xllr then really unmaps the library.       *)
(***************************************************************************)
OpenedOnce == ~overlap => refs <= 1

(***************************************************************************)
(* Once every pointer is bound no later load, raced or repeated or failed,  *)
(* unbinds one, so a thread between its check and its call keeps a target.  *)
(***************************************************************************)
CompleteStaysComplete == [][Complete /\ ~freed' => Complete']_vars

(***************************************************************************)
(* Every thread that entered the API comes back, unless the process died:   *)
(* the loader has no lock to wait for and its loop is bounded.              *)
(***************************************************************************)
CallEnds == \A t \in Threads : (pc[t] # "idle") ~> (pc[t] = "idle" \/ ~Alive)

(***************************************************************************)
(* xllr_capi_loader.h:101 says load_xllr "Load cdt functions dynamically":  *)
(* when it reports success (NULL) they are loaded.                          *)
(***************************************************************************)
LoadSuccessComplete == \A t \in Threads : pc[t] = "ret" /\ res[t] = "ok" => Complete

(***************************************************************************)
(* The strengthening that makes the safety properties inductive.            *)
(***************************************************************************)
\* Without an overlap at most one thread is in the loader.
OneLoader == ~overlap => \A t, u \in Threads : Loading(t) /\ Loading(u) => t = u

\* Until the static constructors are done only Main runs, inside load_xllr.
MainFirst ==
  StaticLoad /\ ~up => /\ ~overlap /\ ~freed /\ caller[Main] = "static"
                      /\ pc[Main] \in LoaderPCs \cup {"exited"}
                      /\ \A t \in Threads \ {Main} : pc[t] = "idle"

\* A thread opens the library only when nobody has it open.
MappingInv ==
  ~overlap =>
    /\ refs <= 1
    /\ \A t \in Threads : pc[t] \in {"getenv", "dlopen"} => handle = 0 /\ refs = 0
    /\ \A t \in Threads : pc[t] = "store" => handle = 0 /\ (opened[t] = 0 => refs = 0)
    /\ handle = 0 /\ refs > 0 => \E t \in Threads : pc[t] = "store" /\ opened[t] # 0

\* Before a free_xllr, addresses are NULL or in the mapped library.
BindingInv ==
  ~freed =>
    /\ Mapped => epoch > 0
    /\ handle # 0 => Mapped /\ handle = epoch
    /\ \A t \in Threads : opened[t] # 0 => Mapped /\ opened[t] = epoch
    /\ \A s \in Symbols : fp[s] # 0 => Mapped /\ fp[s] = epoch /\ s \in exports
    /\ \A t \in Threads, r \in Symbols : pc[t] = "resolve" /\ r < idx[t] => fp[r] # 0
    /\ \A r, s \in Symbols : r < s /\ fp[s] # 0 => fp[r] # 0

Calm == ~freed /\ (StaticLoad \/ ~overlap)

\* Where each thread is, its pointer is as the code there expects.
CalmInv ==
  Calm =>
    /\ ~Faulted
    /\ StaticLoad /\ up => Complete
    /\ \A t \in Threads :
         /\ pc[t] = "dispatch" => fp[fn[t]] # 0
         /\ pc[t] = "incall" => Mapped
         /\ pc[t] = "handle" => fp[fn[t]] = 0
         /\ pc[t] = "load" /\ caller[t] # "user" => handle = 0
         /\ pc[t] = "ret" /\ res[t] = "ok" /\ caller[t] # "user" => Complete
         /\ StaticLoad /\ up /\ Loading(t) => caller[t] = "user"

IInv == OneLoader /\ MainFirst /\ MappingInv /\ BindingInv /\ CalmInv

(***************************************************************************)
(* The promise of XllrApi: what a thread does, seen from outside.           *)
(***************************************************************************)
Seen(p) == CASE p = "idle"    -> "idle"
             [] p = "incall"  -> "served"
             [] p = "faulted" -> "faulted"
             [] OTHER         -> "waiting"

Api == INSTANCE XllrApi WITH mapped <- Mapped,
                             status <- [t \in Threads |-> Seen(pc[t])]

\* With the static loader and no free_xllr, threads see the promise kept.
ImplementsApi == Api!Spec
==============================================================================
