-------------------------- MODULE XllrLoader_proofs --------------------------
(***************************************************************************)
(* Proofs about the lazy loader: typing, the two loader-wide invariants     *)
(* that need no assumption on interleavings, and the absence of faults when *)
(* loads do not overlap or the static loader ran first.                     *)
(***************************************************************************)
EXTENDS XllrLoader, TLAPS


\* A register that names a symbol can start at the first.
LEMMA OneIsSymbol == 1 \in Symbols
BY LoaderAssumption DEF Symbols

\* Nothing comes before the first symbol; what precedes the successor of a
\* symbol is that symbol or precedes it.
LEMMA SymbolOrder ==
  /\ \A r \in Symbols : ~(r < 1)
  /\ \A r, s \in Symbols : r < s + 1 => r < s \/ r = s
BY LoaderAssumption DEF Symbols

\* The labels of the program counters, listed.
LEMMA PCValues ==
  PCs = {"idle", "check", "dispatch", "incall", "gaveup", "handle", "load", "getenv",
         "dlopen", "store", "resolve", "ret", "faulted", "exited"}
BY DEF PCs, LoaderPCs, Stopped

\* A move of one thread keeps the program counters and the overlap history typed.
LEMMA GotoTypes ==
  ASSUME TypeOK, NEW t \in Threads, NEW from, NEW to, Goto(t, from, to), to \in PCs
  PROVE  pc' \in [Threads -> PCs] /\ overlap' \in BOOLEAN
BY DEF TypeOK, Goto

\* Every variable keeps its kind: globals, registers of the threads, histories.
LEMMA TypeInductive == TypeOK /\ [Next]_vars => TypeOK'
<1> SUFFICES ASSUME TypeOK, [Next]_vars PROVE TypeOK'
  OBVIOUS
<1>1. CASE Repair
  BY <1>1 DEF Repair, TypeOK, local
<1>2. ASSUME NEW t \in Threads, NEW s \in Symbols, Call(t, s) PROVE TypeOK'
  <2>1. pc' \in [Threads -> PCs] /\ overlap' \in BOOLEAN
    BY <1>2, GotoTypes, PCValues DEF Call
  <2> QED
    BY <1>2, <2>1, OneIsSymbol DEF Call, Keep, world, TypeOK
<1>3. ASSUME NEW t \in Threads, CheckPointer(t) PROVE TypeOK'
  <2>1. pc' \in [Threads -> PCs] /\ overlap' \in BOOLEAN
    BY <1>3, GotoTypes, PCValues DEF CheckPointer
  <2> QED
    BY <1>3, <2>1, OneIsSymbol DEF CheckPointer, Keep, world, local, TypeOK
<1>4. ASSUME NEW t \in Threads, CheckHandle(t) PROVE TypeOK'
  <2>1. pc' \in [Threads -> PCs] /\ overlap' \in BOOLEAN
    BY <1>4, GotoTypes, PCValues DEF CheckHandle
  <2> QED
    BY <1>4, <2>1, OneIsSymbol DEF CheckHandle, Keep, world, TypeOK
<1>5. ASSUME NEW t \in Threads, Dispatch(t) PROVE TypeOK'
  <2>1. pc' \in [Threads -> PCs] /\ overlap' \in BOOLEAN
    BY <1>5, GotoTypes, PCValues DEF Dispatch
  <2> QED
    BY <1>5, <2>1, OneIsSymbol DEF Dispatch, Keep, world, local, TypeOK
<1>6. ASSUME NEW t \in Threads, Return(t) PROVE TypeOK'
  <2>1. pc' \in [Threads -> PCs] /\ overlap' \in BOOLEAN
    BY <1>6, GotoTypes, PCValues DEF Return
  <2> QED
    BY <1>6, <2>1, OneIsSymbol DEF Return, Keep, world, TypeOK
<1>7. ASSUME NEW t \in Threads, GiveUp(t) PROVE TypeOK'
  <2>1. pc' \in [Threads -> PCs] /\ overlap' \in BOOLEAN
    BY <1>7, GotoTypes, PCValues DEF GiveUp
  <2> QED
    BY <1>7, <2>1, OneIsSymbol DEF GiveUp, Keep, world, local, TypeOK
<1>8. ASSUME NEW t \in Threads, NEW entry \in {"load", "resolve"}, UserLoad(t, entry) PROVE TypeOK'
  <2>1. pc' \in [Threads -> PCs] /\ overlap' \in BOOLEAN
    BY <1>8, GotoTypes, PCValues DEF UserLoad
  <2> QED
    BY <1>8, <2>1, OneIsSymbol DEF UserLoad, Keep, world, TypeOK
<1>9. ASSUME NEW t \in Threads, LoadTest(t) PROVE TypeOK'
  <2>1. pc' \in [Threads -> PCs] /\ overlap' \in BOOLEAN
    BY <1>9, GotoTypes, PCValues DEF LoadTest, ReturnFromLoad
  <2> QED
    BY <1>9, <2>1, OneIsSymbol DEF LoadTest, Keep, world, ReturnFromLoad, TypeOK
<1>10. ASSUME NEW t \in Threads, GetHome(t) PROVE TypeOK'
  <2>1. pc' \in [Threads -> PCs] /\ overlap' \in BOOLEAN
    BY <1>10, GotoTypes, PCValues DEF GetHome, ReturnFromLoad
  <2> QED
    BY <1>10, <2>1, OneIsSymbol DEF GetHome, Keep, world, ReturnFromLoad, TypeOK
<1>11. ASSUME NEW t \in Threads, OpenLibrary(t) PROVE TypeOK'
  <2>1. epoch' \in Nat /\ epoch <= epoch' /\ refs' \in Nat
    BY <1>11 DEF OpenLibrary, TypeOK
  <2>2. opened' \in [Threads -> 0 .. epoch']
    BY <1>11, <2>1 DEF OpenLibrary, TypeOK
  <2>3. pc' \in [Threads -> PCs] /\ overlap' \in BOOLEAN
    BY <1>11, GotoTypes, PCValues DEF OpenLibrary
  <2> QED
    BY <1>11, <2>1, <2>2, <2>3 DEF OpenLibrary, TypeOK
<1>12. ASSUME NEW t \in Threads, StoreHandle(t) PROVE TypeOK'
  <2>1. pc' \in [Threads -> PCs] /\ overlap' \in BOOLEAN
    BY <1>12, GotoTypes, PCValues DEF StoreHandle, ReturnFromLoad
  <2> QED
    BY <1>12, <2>1, OneIsSymbol DEF StoreHandle, ReturnFromLoad, Keep, world, TypeOK
<1>13. ASSUME NEW t \in Threads, Resolve(t) PROVE TypeOK'
  <2>1. pc' \in [Threads -> PCs] /\ overlap' \in BOOLEAN
    BY <1>13, GotoTypes, PCValues DEF Resolve, ReturnFromLoad
  <2>2. fp' \in [Symbols -> 0 .. epoch]
    BY <1>13 DEF Resolve, Dlsym, TypeOK
  <2>3. idx' \in [Threads -> Symbols]
    <3>1. idx[t] # NSym => idx[t] + 1 \in Symbols
      BY LoaderAssumption DEF TypeOK, Symbols
    <3> QED
      BY <1>13, <3>1 DEF Resolve, TypeOK
  <2>4. res' \in [Threads -> {"ok", "err"}]
    BY <1>13 DEF Resolve, ReturnFromLoad, TypeOK
  <2> QED
    BY <1>13, <2>1, <2>2, <2>3, <2>4 DEF Resolve, Keep, world, TypeOK
<1>14. ASSUME NEW t \in Threads, EndLoad(t) PROVE TypeOK'
  <2>1. pc' \in [Threads -> PCs] /\ overlap' \in BOOLEAN
    BY <1>14, GotoTypes, PCValues DEF EndLoad
  <2>2. up' \in BOOLEAN
    BY <1>14 DEF EndLoad, TypeOK
  <2> QED
    BY <1>14, <2>1, <2>2 DEF EndLoad, world, local, TypeOK
<1>15. ASSUME NEW t \in Threads, FreeXllr(t) PROVE TypeOK'
  <2>1. pc' \in [Threads -> PCs] /\ overlap' \in BOOLEAN
    BY <1>15, GotoTypes, PCValues DEF FreeXllr
  <2>2. refs' \in Nat
    BY <1>15 DEF FreeXllr, StaleHandle, Mapped, TypeOK
  <2> QED
    BY <1>15, <2>1, <2>2 DEF FreeXllr, local, TypeOK
<1>16. CASE UNCHANGED vars
  BY <1>16 DEF vars, world, local, TypeOK
<1> QED
  BY <1>1, <1>2, <1>3, <1>4, <1>5, <1>6, <1>7, <1>8, <1>9, <1>10, <1>11, <1>12,
     <1>13, <1>14, <1>15, <1>16 DEF Next, Step, Enter

\* The globals and registers of the loader keep their kinds in every behaviour.
THEOREM TypeCorrect == Spec => []TypeOK
<1>1. ASSUME Init PROVE TypeOK
  <2>1. pc \in [Threads -> PCs]
    BY <1>1, PCValues DEF Init
  <2>2. up \in BOOLEAN
    BY <1>1, LoaderAssumption DEF Init
  <2>3. handle \in 0 .. epoch /\ fp \in [Symbols -> 0 .. epoch] /\ opened \in [Threads -> 0 .. epoch]
    BY <1>1 DEF Init
  <2>4. caller \in [Threads -> {"wrapper", "user", "static"}]
    BY <1>1 DEF Init
  <2> QED
    BY <1>1, <2>1, <2>2, <2>3, <2>4, OneIsSymbol DEF Init, TypeOK
<1> QED
  BY <1>1, TypeInductive, PTL DEF Spec
------------------------------------------------------------------------------
\* A move of one thread that is alone in the loader leaves at most one there.
LEMMA OneLoaderStep ==
  ASSUME TypeOK, OneLoader, NEW t \in Threads, NEW from, NEW to, Goto(t, from, to)
  PROVE  OneLoader'
BY DEF TypeOK, OneLoader, Loading, Goto

\* The strengthened invariant is preserved by every step.
LEMMA IInvInductive == TypeOK /\ TypeOK' /\ IInv /\ [Next]_vars => IInv'
<1> SUFFICES ASSUME TypeOK, TypeOK', IInv, [Next]_vars PROVE IInv'
  OBVIOUS
<1> USE LoaderAssumption DEF IInv
<1>1. ASSUME NEW t \in Threads, NEW s \in Symbols, Call(t, s) PROVE IInv'
  <2>1. OneLoader'
    BY <1>1, OneLoaderStep DEF Call
  <2>2. MainFirst'
    BY <1>1 DEF Call, Keep, world, Goto, MainFirst, Loading, LoaderPCs, TypeOK
  <2>3. MappingInv'
    BY <1>1 DEF Call, Keep, world, Goto, OneLoader, Loading, LoaderPCs, MappingInv, Mapped, TypeOK
  <2>4. BindingInv'
    BY <1>1 DEF Call, Keep, world, Goto, BindingInv, Mapped, TypeOK
  <2>5. CalmInv'
    BY <1>1 DEF Call, Keep, world, Goto, OneLoader, MainFirst, BindingInv, CalmInv, Calm, Complete, Faulted, Alive, Stopped, Loading, LoaderPCs, Mapped, TypeOK
  <2> QED
    BY <2>1, <2>2, <2>3, <2>4, <2>5
<1>2. ASSUME NEW t \in Threads, CheckPointer(t) PROVE IInv'
  <2>1. OneLoader'
    BY <1>2, OneLoaderStep DEF CheckPointer
  <2>2. MainFirst'
    BY <1>2 DEF CheckPointer, Keep, world, local, Goto, MainFirst, Loading, LoaderPCs, TypeOK
  <2>3. MappingInv'
    BY <1>2 DEF CheckPointer, Keep, world, local, Goto, OneLoader, Loading, LoaderPCs, MappingInv, Mapped, TypeOK
  <2>4. BindingInv'
    BY <1>2 DEF CheckPointer, Keep, world, local, Goto, BindingInv, Mapped, TypeOK
  <2>5. CalmInv'
    BY <1>2 DEF CheckPointer, Keep, world, local, Goto, OneLoader, MainFirst, BindingInv, CalmInv, Calm, Complete, Faulted, Alive, Stopped, Loading, LoaderPCs, Mapped, TypeOK
  <2> QED
    BY <2>1, <2>2, <2>3, <2>4, <2>5
<1>3. ASSUME NEW t \in Threads, CheckHandle(t) PROVE IInv'
  <2>1. OneLoader'
    BY <1>3, OneLoaderStep DEF CheckHandle
  <2>2. MainFirst'
    BY <1>3 DEF CheckHandle, Keep, world, Goto, MainFirst, Loading, LoaderPCs, TypeOK
  <2>3. MappingInv'
    BY <1>3 DEF CheckHandle, Keep, world, Goto, OneLoader, Loading, LoaderPCs, MappingInv, Mapped, TypeOK
  <2>4. BindingInv'
    BY <1>3, SymbolOrder DEF CheckHandle, Keep, world, Goto, BindingInv, Mapped, TypeOK
  <2>5. CalmInv'
    BY <1>3 DEF CheckHandle, Keep, world, Goto, OneLoader, MainFirst, BindingInv, CalmInv, Calm, Complete, Faulted, Alive, Stopped, Loading, LoaderPCs, Mapped, TypeOK
  <2> QED
    BY <2>1, <2>2, <2>3, <2>4, <2>5
<1>4. ASSUME NEW t \in Threads, Dispatch(t) PROVE IInv'
  <2>1. OneLoader'
    BY <1>4, OneLoaderStep DEF Dispatch
  <2>2. MainFirst'
    BY <1>4 DEF Dispatch, Keep, world, local, Goto, MainFirst, Loading, LoaderPCs, TypeOK
  <2>3. MappingInv'
    BY <1>4 DEF Dispatch, Keep, world, local, Goto, OneLoader, Loading, LoaderPCs, MappingInv, Mapped, TypeOK
  <2>4. BindingInv'
    BY <1>4 DEF Dispatch, Keep, world, local, Goto, BindingInv, Mapped, TypeOK
  <2>5. CalmInv'
    BY <1>4 DEF Dispatch, Keep, world, local, Goto, OneLoader, MainFirst, BindingInv, CalmInv, Calm, Complete, Faulted, Alive, Stopped, Loading, LoaderPCs, Mapped, TypeOK
  <2> QED
    BY <2>1, <2>2, <2>3, <2>4, <2>5
<1>5. ASSUME NEW t \in Threads, Return(t) PROVE IInv'
  <2>1. OneLoader'
    BY <1>5, OneLoaderStep DEF Return
  <2>2. MainFirst'
    BY <1>5 DEF Return, Keep, world, Goto, MainFirst, Loading, LoaderPCs, TypeOK
  <2>3. MappingInv'
    BY <1>5 DEF Return, Keep, world, Goto, OneLoader, Loading, LoaderPCs, MappingInv, Mapped, TypeOK
  <2>4. BindingInv'
    BY <1>5 DEF Return, Keep, world, Goto, BindingInv, Mapped, TypeOK
  <2>5. CalmInv'
    BY <1>5 DEF Return, Keep, world, Goto, OneLoader, MainFirst, BindingInv, CalmInv, Calm, Complete, Faulted, Alive, Stopped, Loading, LoaderPCs, Mapped, TypeOK
  <2> QED
    BY <2>1, <2>2, <2>3, <2>4, <2>5
<1>6. ASSUME NEW t \in Threads, GiveUp(t) PROVE IInv'
  <2>1. OneLoader'
    BY <1>6, OneLoaderStep DEF GiveUp
  <2>2. MainFirst'
    BY <1>6 DEF GiveUp, Keep, world, local, Goto, MainFirst, Loading, LoaderPCs, TypeOK
  <2>3. MappingInv'
    BY <1>6 DEF GiveUp, Keep, world, local, Goto, OneLoader, Loading, LoaderPCs, MappingInv, Mapped, TypeOK
  <2>4. BindingInv'
    BY <1>6 DEF GiveUp, Keep, world, local, Goto, BindingInv, Mapped, TypeOK
  <2>5. CalmInv'
    BY <1>6 DEF GiveUp, Keep, world, local, Goto, OneLoader, MainFirst, BindingInv, CalmInv, Calm, Complete, Faulted, Alive, Stopped, Loading, LoaderPCs, Mapped, TypeOK
  <2> QED
    BY <2>1, <2>2, <2>3, <2>4, <2>5
<1>7. ASSUME NEW t \in Threads, NEW entry \in {"load", "resolve"}, UserLoad(t, entry) PROVE IInv'
  <2>1. OneLoader'
    BY <1>7, OneLoaderStep DEF UserLoad
  <2>2. MainFirst'
    BY <1>7 DEF UserLoad, Keep, world, Goto, MainFirst, Loading, LoaderPCs, TypeOK
  <2>3. MappingInv'
    BY <1>7 DEF UserLoad, Keep, world, Goto, OneLoader, Loading, LoaderPCs, MappingInv, Mapped, TypeOK
  <2>4. BindingInv'
    BY <1>7, SymbolOrder DEF UserLoad, Keep, world, Goto, BindingInv, Mapped, TypeOK
  <2>5. CalmInv'
    BY <1>7 DEF UserLoad, Keep, world, Goto, OneLoader, MainFirst, BindingInv, CalmInv, Calm, Complete, Faulted, Alive, Stopped, Loading, LoaderPCs, Mapped, TypeOK
  <2> QED
    BY <2>1, <2>2, <2>3, <2>4, <2>5
<1>8. ASSUME NEW t \in Threads, LoadTest(t) PROVE IInv'
  <2>1. OneLoader'
    BY <1>8, OneLoaderStep DEF LoadTest, ReturnFromLoad
  <2>2. MainFirst'
    BY <1>8 DEF LoadTest, ReturnFromLoad, Keep, world, Goto, MainFirst, Loading, LoaderPCs, TypeOK
  <2>3. MappingInv'
    BY <1>8 DEF LoadTest, ReturnFromLoad, Keep, world, Goto, OneLoader, Loading, LoaderPCs, MappingInv, Mapped, TypeOK
  <2>4. BindingInv'
    BY <1>8 DEF LoadTest, ReturnFromLoad, Keep, world, Goto, BindingInv, Mapped, TypeOK
  <2>5. CalmInv'
    BY <1>8 DEF LoadTest, ReturnFromLoad, Keep, world, Goto, OneLoader, MainFirst, BindingInv, CalmInv, Calm, Complete, Faulted, Alive, Stopped, Loading, LoaderPCs, Mapped, TypeOK
  <2> QED
    BY <2>1, <2>2, <2>3, <2>4, <2>5
<1>9. ASSUME NEW t \in Threads, GetHome(t) PROVE IInv'
  <2>1. OneLoader'
    BY <1>9, OneLoaderStep DEF GetHome, ReturnFromLoad
  <2>2. MainFirst'
    <3>1. pc'[t] \in LoaderPCs /\ UNCHANGED <<up, freed, caller>>
      BY <1>9 DEF GetHome, ReturnFromLoad, Keep, Goto, LoaderPCs, TypeOK
    <3> QED
      BY <1>9, <3>1 DEF GetHome, ReturnFromLoad, Goto, MainFirst, Loading, LoaderPCs, TypeOK
  <2>3. MappingInv'
    BY <1>9 DEF GetHome, ReturnFromLoad, Keep, world, Goto, OneLoader, Loading, LoaderPCs, MappingInv, Mapped, TypeOK
  <2>4. BindingInv'
    BY <1>9 DEF GetHome, ReturnFromLoad, Keep, world, Goto, BindingInv, Mapped, TypeOK
  <2>5. CalmInv'
    BY <1>9 DEF GetHome, ReturnFromLoad, Keep, world, Goto, OneLoader, MainFirst, BindingInv, CalmInv, Calm, Complete, Faulted, Alive, Stopped, Loading, LoaderPCs, Mapped, TypeOK
  <2> QED
    BY <2>1, <2>2, <2>3, <2>4, <2>5
<1>10. ASSUME NEW t \in Threads, OpenLibrary(t) PROVE IInv'
  <2>1. OneLoader'
    BY <1>10, OneLoaderStep DEF OpenLibrary
  <2>2. MainFirst'
    BY <1>10 DEF OpenLibrary, Goto, MainFirst, Loading, LoaderPCs, TypeOK
  <2>3. MappingInv'
    BY <1>10 DEF OpenLibrary, Goto, OneLoader, Loading, LoaderPCs, MappingInv, Mapped, TypeOK
  <2>4. BindingInv'
    BY <1>10 DEF OpenLibrary, Goto, BindingInv, Mapped, TypeOK
  <2>5. CalmInv'
    BY <1>10 DEF OpenLibrary, Goto, OneLoader, MainFirst, BindingInv, CalmInv, Calm, Complete, Faulted, Alive, Stopped, Loading, LoaderPCs, Mapped, TypeOK
  <2> QED
    BY <2>1, <2>2, <2>3, <2>4, <2>5
<1>11. ASSUME NEW t \in Threads, StoreHandle(t) PROVE IInv'
  <2>1. OneLoader'
    BY <1>11, OneLoaderStep DEF StoreHandle, ReturnFromLoad
  <2>2. MainFirst'
    BY <1>11 DEF StoreHandle, ReturnFromLoad, Keep, world, Goto, MainFirst, Loading, LoaderPCs, TypeOK
  <2>3. MappingInv'
    BY <1>11 DEF StoreHandle, ReturnFromLoad, Keep, world, Goto, OneLoader, Loading, LoaderPCs, MappingInv, Mapped, TypeOK
  <2>4. BindingInv'
    BY <1>11, SymbolOrder DEF StoreHandle, ReturnFromLoad, Keep, world, Goto, BindingInv, Mapped, TypeOK
  <2>5. CalmInv'
    BY <1>11 DEF StoreHandle, ReturnFromLoad, Keep, world, Goto, OneLoader, MainFirst, BindingInv, CalmInv, Calm, Complete, Faulted, Alive, Stopped, Loading, LoaderPCs, Mapped, TypeOK
  <2> QED
    BY <2>1, <2>2, <2>3, <2>4, <2>5
<1>12. ASSUME NEW t \in Threads, Resolve(t) PROVE IInv'
  <2>1. OneLoader'
    BY <1>12, OneLoaderStep DEF Resolve, ReturnFromLoad
  <2>2. ~freed => ~StaleHandle
    BY DEF StaleHandle, BindingInv
  <2>3. MainFirst'
    <3>1. ~freed => pc'[t] \in {"resolve", "ret"}
      BY <1>12, <2>2 DEF Resolve, ReturnFromLoad, Goto, TypeOK
    <3> QED
      BY <1>12, <3>1 DEF Resolve, ReturnFromLoad, Keep, world, Goto, MainFirst, Loading,
        LoaderPCs, TypeOK
  <2>4. MappingInv'
    BY <1>12 DEF Resolve, ReturnFromLoad, StaleHandle, Dlsym, Keep, world, Goto, OneLoader,
      Loading, LoaderPCs, MappingInv, Mapped, TypeOK
  <2>5. \A s \in Symbols : ~freed /\ fp[s] # 0 => fp'[s] # 0
    BY <1>12, <2>2 DEF Resolve, Dlsym, BindingInv, TypeOK, Mapped
  <2>6. BindingInv'
    <3> SUFFICES ASSUME ~freed PROVE BindingInv'
      BY <1>12 DEF Resolve, Keep, BindingInv
    <3>1. ~StaleHandle
      BY <2>2
    <3>2. \A s \in Symbols : fp'[s] # 0 => Mapped /\ fp'[s] = epoch /\ s \in exports
      BY <1>12, <3>1 DEF Resolve, Dlsym, BindingInv, TypeOK
    <3>3. \A r \in Symbols : r < idx[t] => fp'[r] # 0
      BY <1>12, <2>5 DEF Resolve, BindingInv, Goto, ReturnFromLoad
    <3>4. pc'[t] = "resolve" => idx'[t] = idx[t] + 1 /\ fp'[idx[t]] # 0
      BY <1>12, <3>1 DEF Resolve, ReturnFromLoad, Goto, TypeOK
    <3>5. \A u \in Threads \ {t} : pc'[u] = pc[u] /\ idx'[u] = idx[u]
      BY <1>12 DEF Resolve, ReturnFromLoad, Goto, TypeOK
    <3>6. \A u \in Threads, r \in Symbols : pc'[u] = "resolve" /\ r < idx'[u] => fp'[r] # 0
      <4> TAKE u \in Threads, r \in Symbols
      <4>1. CASE u = t
        BY <4>1, <3>3, <3>4, SymbolOrder DEF TypeOK
      <4>2. CASE u # t
        BY <4>2, <3>5, <2>5 DEF BindingInv
      <4> QED
        BY <4>1, <4>2
    <3>7. \A r, s \in Symbols : r < s /\ fp'[s] # 0 => fp'[r] # 0
      BY <1>12, <3>1, <3>3, <2>5 DEF Resolve, BindingInv, TypeOK
    <3> QED
      BY <1>12, <3>2, <3>6, <3>7 DEF Resolve, ReturnFromLoad, Keep, world, BindingInv, Mapped
  <2>7. CalmInv'
    <3> SUFFICES ASSUME ~freed, StaticLoad \/ ~overlap' PROVE CalmInv'
      BY <1>12 DEF Resolve, Keep, CalmInv, Calm
    <3>1. ~StaleHandle
      BY <2>2
    <3>2. Calm
      BY <1>12 DEF Calm, Resolve, ReturnFromLoad, Goto, TypeOK
    <3>3. pc'[t] \in {"resolve", "ret"} /\ \A u \in Threads \ {t} : pc'[u] = pc[u] /\ res'[u] = res[u]
      BY <1>12, <3>1 DEF Resolve, ReturnFromLoad, Goto, TypeOK
    <3>4. UNCHANGED <<handle, fn, caller, refs, up>>
      BY <1>12 DEF Resolve, Keep, world
    <3>5. pc'[t] = "ret" /\ res'[t] = "ok" => Complete'
      <4> SUFFICES ASSUME pc'[t] = "ret", res'[t] = "ok" PROVE Complete'
        OBVIOUS
      <4>1. idx[t] = NSym /\ fp'[NSym] # 0
        BY <1>12, <3>1 DEF Resolve, ReturnFromLoad, Goto, TypeOK
      <4>2. \A r \in Symbols : r < NSym => fp'[r] # 0
        BY <1>12, <4>1, <2>5 DEF Resolve, BindingInv, Goto, ReturnFromLoad
      <4>3. \A r \in Symbols : r < NSym \/ r = NSym
        BY LoaderAssumption DEF Symbols
      <4> QED
        BY <4>1, <4>2, <4>3 DEF Complete
    <3>6. Complete => Complete'
      BY <2>5 DEF Complete
    <3>7. ~Faulted'
      BY <3>2, <3>3 DEF CalmInv, Faulted
    <3>8. pc[t] = "resolve" /\ (~(\E u \in Threads \ {t} : Loading(u)) \/ overlap')
      BY <1>12, <3>1 DEF Resolve, ReturnFromLoad, Goto, LoaderPCs
    <3>9. \A u \in Threads : pc[u] # "handle"
      <4>1. CASE StaticLoad /\ up
        BY <4>1, <3>2 DEF CalmInv, Complete, TypeOK
      <4>2. CASE StaticLoad /\ ~up
        BY <4>2, <1>12 DEF Resolve, ReturnFromLoad, Goto, MainFirst
      <4>3. CASE ~StaticLoad
        BY <4>3, <1>12, <3>8 DEF Resolve, ReturnFromLoad, Goto, Loading, LoaderPCs
      <4> QED
        BY <4>1, <4>2, <4>3
    <3>10. \A u \in Threads : pc'[u] = "dispatch" => fp'[fn'[u]] # 0
      BY <2>5, <3>2, <3>3, <3>4 DEF CalmInv, TypeOK
    <3>11. \A u \in Threads :
            /\ pc'[u] = "incall" => Mapped'
            /\ pc'[u] = "load" /\ caller'[u] # "user" => handle' = 0
            /\ pc'[u] # "handle"
      BY <3>2, <3>3, <3>4, <3>9 DEF CalmInv, Mapped
    <3>12. \A u \in Threads : pc'[u] = "ret" /\ res'[u] = "ok" /\ caller'[u] # "user" => Complete'
      BY <3>2, <3>3, <3>4, <3>5, <3>6 DEF CalmInv
    <3>13. \A u \in Threads : StaticLoad /\ up' /\ Loading(u)' => caller'[u] = "user"
      BY <1>12, <3>2, <3>3, <3>4 DEF CalmInv, Loading, LoaderPCs, Resolve, ReturnFromLoad, Goto
    <3> QED
      BY <3>2, <3>4, <3>6, <3>7, <3>10, <3>11, <3>12, <3>13 DEF CalmInv
  <2> QED
    BY <2>1, <2>3, <2>4, <2>6, <2>7
<1>13. ASSUME NEW t \in Threads, EndLoad(t) PROVE IInv'
  <2>1. OneLoader'
    BY <1>13, OneLoaderStep DEF EndLoad
  <2>2. MainFirst'
    BY <1>13 DEF EndLoad, world, local, Goto, MainFirst, Loading, LoaderPCs, TypeOK
  <2>3. MappingInv'
    BY <1>13 DEF EndLoad, world, local, Goto, OneLoader, Loading, LoaderPCs, MappingInv, Mapped, TypeOK
  <2>4. BindingInv'
    BY <1>13 DEF EndLoad, world, local, Goto, BindingInv, Mapped, TypeOK
  <2>5. CalmInv'
    BY <1>13 DEF EndLoad, world, local, Goto, OneLoader, MainFirst, BindingInv, CalmInv, Calm, Complete, Faulted, Alive, Stopped, Loading, LoaderPCs, Mapped, TypeOK
  <2> QED
    BY <2>1, <2>2, <2>3, <2>4, <2>5
<1>14. ASSUME NEW t \in Threads, FreeXllr(t) PROVE IInv'
  <2>1. OneLoader'
    BY <1>14, OneLoaderStep DEF FreeXllr
  <2>2. MainFirst'
    BY <1>14 DEF FreeXllr, StaleHandle, local, Goto, MainFirst, Loading, LoaderPCs, TypeOK
  <2>3. MappingInv'
    BY <1>14 DEF FreeXllr, StaleHandle, local, Goto, OneLoader, Loading, LoaderPCs, MappingInv, Mapped, TypeOK
  <2>4. BindingInv'
    BY <1>14 DEF FreeXllr, StaleHandle, local, Goto, BindingInv, Mapped, TypeOK
  <2>5. CalmInv'
    BY <1>14 DEF FreeXllr, StaleHandle, local, Goto, OneLoader, MainFirst, BindingInv, CalmInv, Calm, Complete, Faulted, Alive, Stopped, Loading, LoaderPCs, Mapped, TypeOK
  <2> QED
    BY <2>1, <2>2, <2>3, <2>4, <2>5
<1>15. CASE Repair
  BY <1>15 DEF Repair, local, OneLoader, MainFirst, MappingInv, BindingInv, CalmInv, Calm,
    Complete, Faulted, Loading, Mapped
<1>16. CASE UNCHANGED vars
  BY <1>16 DEF vars, world, local, OneLoader, MainFirst, MappingInv, BindingInv, CalmInv,
    Calm, Complete, Faulted, Loading, Mapped
<1> QED
  BY <1>1, <1>2, <1>3, <1>4, <1>5, <1>6, <1>7, <1>8, <1>9, <1>10, <1>11, <1>12, <1>13, <1>14, <1>15, <1>16 DEF Next, Step, Enter
------------------------------------------------------------------------------
\* The strengthened invariant holds initially, with either loader.
LEMMA IInvInitially == Init => IInv
<1> SUFFICES ASSUME Init PROVE IInv
  OBVIOUS
<1>1. OneLoader
  BY LoaderAssumption DEF Init, OneLoader, Loading, LoaderPCs
<1>2. MainFirst
  BY LoaderAssumption DEF Init, MainFirst, Loading, LoaderPCs
<1>3. MappingInv
  BY DEF Init, MappingInv
<1>4. BindingInv
  BY SymbolOrder DEF Init, BindingInv, Mapped
<1>5. CalmInv
  BY LoaderAssumption DEF Init, CalmInv, Faulted, Loading, LoaderPCs
<1> QED
  BY <1>1, <1>2, <1>3, <1>4, <1>5 DEF IInv

\* The facts every later theorem rests on, in every reachable state.
THEOREM LoaderInvariant == Spec => [](TypeOK /\ IInv)
<1>1. TypeOK /\ IInv /\ [Next]_vars => (TypeOK /\ IInv)'
  BY TypeInductive, IInvInductive
<1>2. Init => IInv
  BY IInvInitially
<1> QED
  BY <1>1, <1>2, TypeCorrect, PTL DEF Spec

\* No call goes through a NULL or unmapped pointer unless loads overlapped
\* without the static loader, or free_xllr was called.
THEOREM NoStrayCall == Spec => []FaultNeedsRaceOrFree
<1>1. IInv => FaultNeedsRaceOrFree
  BY LoaderAssumption DEF IInv, CalmInv, Calm, FaultNeedsRaceOrFree
<1> QED
  BY <1>1, LoaderInvariant, PTL

\* A library that lacks symbols leaves a prefix of the pointers bound.
THEOREM PartialLibraryIsPrefix == Spec => []BoundIsPrefix
<1>1. IInv => BoundIsPrefix
  BY DEF IInv, BindingInv, BoundIsPrefix
<1> QED
  BY <1>1, LoaderInvariant, PTL

\* Without overlapping loads the library is opened at most once.
THEOREM SingleOpen == Spec => []OpenedOnce
<1>1. IInv => OpenedOnce
  BY DEF IInv, MappingInv, OpenedOnce
<1> QED
  BY <1>1, LoaderInvariant, PTL

\* A bound API stays bound, whatever loads are still running or fail.
THEOREM NothingIsUnbound == Spec => CompleteStaysComplete
<1>1. ASSUME TypeOK, IInv, [Next]_vars, Complete, ~freed' PROVE Complete'
  <2>1. CASE UNCHANGED fp
    BY <1>1, <2>1 DEF Complete
  <2>2. ASSUME NEW t \in Threads, Resolve(t) PROVE Complete'
    <3>1. ~freed /\ ~StaleHandle
      BY <1>1, <2>2 DEF Resolve, Keep, StaleHandle, IInv, BindingInv
    <3> QED
      BY <1>1, <2>2, <3>1 DEF Resolve, Dlsym, IInv, BindingInv, Complete, TypeOK, Mapped
  <2>3. UNCHANGED fp \/ \E t \in Threads : Resolve(t)
    BY <1>1 DEF Next, Step, Enter, vars, Repair, Call, CheckPointer, CheckHandle, Dispatch,
      Return, GiveUp, UserLoad, LoadTest, GetHome, OpenLibrary, StoreHandle, EndLoad, FreeXllr
  <2> QED
    BY <2>1, <2>2, <2>3
<1>2. TypeOK /\ IInv /\ [Next]_vars => [Complete /\ ~freed' => Complete']_vars
  BY <1>1
<1> QED
  BY <1>2, LoaderInvariant, PTL DEF Spec, CompleteStaysComplete
------------------------------------------------------------------------------
\* A move of one thread, seen from outside.
LEMMA GotoSeen ==
  ASSUME TypeOK, NEW t \in Threads, NEW from, NEW to, Goto(t, from, to)
  PROVE  /\ [u \in Threads |-> Seen(pc[u])][t] = Seen(from)
         /\ [u \in Threads |-> Seen(pc[u])]'
              = [[u \in Threads |-> Seen(pc[u])] EXCEPT ![t] = Seen(to)]
BY DEF TypeOK, Goto

\* What the program counters look like from outside.
LEMMA SeenValues ==
  /\ Seen("idle") = "idle" /\ Seen("incall") = "served" /\ Seen("faulted") = "faulted"
  /\ \A p \in PCs \ {"idle", "incall", "faulted"} : Seen(p) = "waiting"
BY PCValues DEF Seen

\* Once static constructors load XLLR and nobody frees it, every step of the
\* loader is a step of XllrApi or changes nothing a caller sees.
THEOREM StaticLoaderImplementsApi ==
  ASSUME StaticLoad, ~MayFree
  PROVE  Spec => ImplementsApi
<1> DEFINE Status == [u \in Threads |-> Seen(pc[u])]
<1>1. ASSUME Init PROVE Api!Init
  BY <1>1, SeenValues, PCValues, LoaderAssumption DEF Init, Api!Init, Mapped
<1>2. Init => ~freed
  BY DEF Init
<1>3. ~freed /\ [Next]_vars => ~freed'
  BY LoaderAssumption DEF Next, Step, Enter, vars, Repair, Call, CheckPointer, CheckHandle,
    Dispatch, Return, GiveUp, UserLoad, LoadTest, GetHome, OpenLibrary, StoreHandle, Resolve,
    EndLoad, FreeXllr, Keep
<1>4. Spec => []~freed
  BY <1>2, <1>3, PTL DEF Spec
<1>5. IInv /\ ~freed => ~Faulted
  BY DEF IInv, CalmInv, Calm
<1>6. ASSUME TypeOK, TypeOK', IInv, IInv', ~freed, ~freed', [Next]_vars
      PROVE  [Api!Next]_(Api!vars)
  <2> DEFINE ApiStep == [Api!Next]_(Api!vars)
  <2>0. ~Faulted'
    BY <1>6 DEF IInv, CalmInv, Calm
  <2>1. ASSUME NEW t \in Threads, NEW from, NEW to, Goto(t, from, to)
        PROVE  /\ Status[t] = Seen(from)
               /\ Status' = [Status EXCEPT ![t] = Seen(to)]
               /\ Seen(from) = Seen(to) => Status' = Status
    <3>1. Status[t] = Seen(from) /\ Status' = [Status EXCEPT ![t] = Seen(to)]
      BY <1>6, <2>1, GotoSeen
    <3>2. [Status EXCEPT ![t] = Status[t]] = Status
      OBVIOUS
    <3> QED
      BY <3>1, <3>2
  <2> DEFINE Quiet == PCs \ {"idle", "incall", "faulted"}
  <2>q. ASSUME NEW t \in Threads, NEW from \in Quiet, NEW to \in Quiet, Goto(t, from, to)
        PROVE  Status' = Status
    <3>1. Seen(from) = Seen(to)
      BY SeenValues
    <3> QED
      BY <2>1, <2>q, <3>1
  <2>2. ASSUME NEW t \in Threads, NEW s \in Symbols, Call(t, s) PROVE ApiStep
    <3>1. Goto(t, "idle", "check") /\ UNCHANGED Mapped
      BY <2>2 DEF Call, Keep, world, Mapped
    <3>2. Seen("idle") = "idle" /\ Seen("check") = "waiting"
      BY SeenValues, PCValues
    <3> QED
      BY <2>1, <3>1, <3>2 DEF Api!Next, Api!Enter, Api!Move
  <2>3. ASSUME NEW t \in Threads, NEW entry \in {"load", "resolve"}, UserLoad(t, entry)
        PROVE  ApiStep
    <3>1. Goto(t, "idle", entry) /\ UNCHANGED Mapped
      BY <2>3 DEF UserLoad, Keep, world, Mapped
    <3>2. Seen("idle") = "idle" /\ Seen(entry) = "waiting"
      BY SeenValues, PCValues
    <3> QED
      BY <2>1, <3>1, <3>2 DEF Api!Next, Api!Enter, Api!Move
  <2>4. ASSUME NEW t \in Threads, CheckPointer(t) PROVE ApiStep
    <3>1. Status' = Status
      BY <2>q, <2>4, PCValues DEF CheckPointer
    <3> QED
      BY <2>4, <3>1 DEF CheckPointer, Keep, world, local, Mapped, Api!vars
  <2>5. ASSUME NEW t \in Threads, CheckHandle(t) PROVE ApiStep
    <3>1. Status' = Status
      BY <2>q, <2>5, PCValues DEF CheckHandle
    <3> QED
      BY <2>5, <3>1 DEF CheckHandle, Keep, world, Mapped, Api!vars
  <2>6. ASSUME NEW t \in Threads, LoadTest(t) PROVE ApiStep
    <3>1. Status' = Status
      BY <2>q, <2>6, PCValues DEF LoadTest, ReturnFromLoad
    <3> QED
      BY <2>6, <3>1 DEF LoadTest, Keep, world, Mapped, Api!vars
  <2>7. ASSUME NEW t \in Threads, GetHome(t) PROVE ApiStep
    <3>1. Status' = Status
      BY <2>q, <2>7, PCValues DEF GetHome, ReturnFromLoad
    <3> QED
      BY <2>7, <3>1 DEF GetHome, Keep, world, Mapped, Api!vars
  <2>8. ASSUME NEW t \in Threads, StoreHandle(t) PROVE ApiStep
    <3>1. Status' = Status
      BY <2>q, <2>8, PCValues DEF StoreHandle, ReturnFromLoad
    <3> QED
      BY <2>8, <3>1 DEF StoreHandle, Keep, world, Mapped, Api!vars
  <2>9. ASSUME NEW t \in Threads, Dispatch(t) PROVE ApiStep
    <3>1. Mapped /\ Goto(t, "dispatch", "incall")
      BY <1>6, <2>0, <2>9 DEF Dispatch, Goto, Faulted, TypeOK
    <3> QED
      BY <2>1, <2>9, <3>1, SeenValues, PCValues
      DEF Dispatch, Keep, world, Mapped, Api!Next, Api!Serve, Api!Move
  <2>10. ASSUME NEW t \in Threads, Return(t) PROVE ApiStep
    <3>1. Mapped /\ Goto(t, "incall", "idle")
      BY <1>6, <2>0, <2>10 DEF Return, Goto, Faulted, TypeOK
    <3> QED
      BY <2>1, <2>10, <3>1, SeenValues
      DEF Return, Keep, world, Mapped, Api!Next, Api!Leave, Api!Move
  <2>11. ASSUME NEW t \in Threads, GiveUp(t) PROVE ApiStep
    <3>1. Goto(t, "gaveup", "idle") /\ UNCHANGED Mapped
      BY <2>11 DEF GiveUp, Keep, world, Mapped
    <3>2. Seen("gaveup") = "waiting" /\ Seen("idle") = "idle"
      BY SeenValues, PCValues
    <3> QED
      BY <2>1, <3>1, <3>2 DEF Api!Next, Api!TurnAway, Api!Move
  <2>12. ASSUME NEW t \in Threads, OpenLibrary(t) PROVE ApiStep
    <3>1. Status' = Status
      BY <2>q, <2>12, PCValues DEF OpenLibrary
    <3>2. Mapped' = Mapped \/ Mapped' = TRUE
      BY <1>6, <2>12 DEF OpenLibrary, Mapped, TypeOK
    <3> QED
      BY <3>1, <3>2 DEF Api!Next, Api!Map, Api!vars
  <2>13. ASSUME NEW t \in Threads, Resolve(t) PROVE ApiStep
    <3>1. \E to \in {"resolve", "ret"} : Goto(t, "resolve", to)
      BY <1>6, <2>0, <2>13 DEF Resolve, ReturnFromLoad, Goto, Faulted, TypeOK
    <3> QED
      BY <2>q, <2>13, <3>1, PCValues DEF Resolve, Keep, world, Mapped, Api!vars
  <2>14. ASSUME NEW t \in Threads, EndLoad(t) PROVE ApiStep
    <3>1. \E to \in {"dispatch", "gaveup", "exited", "idle"} : Goto(t, "ret", to)
      BY <2>14 DEF EndLoad
    <3>2. UNCHANGED Mapped
      BY <2>14 DEF EndLoad, world, Mapped
    <3>3. CASE Goto(t, "ret", "idle")
      BY <2>1, <3>2, <3>3, SeenValues, PCValues DEF Api!Next, Api!TurnAway, Api!Move
    <3>4. ASSUME NEW to \in {"dispatch", "gaveup", "exited"}, Goto(t, "ret", to)
          PROVE  Status' = Status
      BY <2>q, <3>4, PCValues
    <3> QED
      BY <3>1, <3>2, <3>3, <3>4 DEF Api!vars
  <2>15. CASE Repair
    BY <2>15 DEF Repair, Mapped, Api!vars
  <2>16. CASE UNCHANGED vars
    BY <2>16 DEF vars, world, Mapped, Api!vars
  <2>17. ~\E t \in Threads : FreeXllr(t)
    BY DEF FreeXllr
  <2> QED
    BY <1>6, <2>2, <2>3, <2>4, <2>5, <2>6, <2>7, <2>8, <2>9, <2>10, <2>11, <2>12, <2>13, <2>14, <2>15, <2>16, <2>17 DEF Next, Step, Enter
<1> QED
  BY <1>1, <1>4, <1>6, LoaderInvariant, PTL DEF Spec, ImplementsApi, Api!Spec
==============================================================================
