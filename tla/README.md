# MetaFFI plugin SDK: TLA+ models and proofs

This directory models the parts of the MetaFFI plugin SDK
(`src/plugin-sdk-main`) whose correctness depends on order, ownership and
failure: how a host process finds and binds the XLLR runtime, how values are
put into and taken out of a CDTS tree, who owns what hangs off that tree, what
a host may do with type information, callables and xcalls, how IDL definitions
are renamed and told where their entities are, and how a compiler plugin answers
the compiler that drives it.

Paths below are relative to `src/plugin-sdk-main/` unless they start with `src/`.

## 1. The system

MetaFFI lets a program in one language call functions written in another.
A call goes host code -> *XLLR C-API* (a shared library bound at run time by a
loader compiled into the host) -> the *language plugin* of the other language.
Arguments and results travel as a **CDTS**: a `cdts` is an array of `cdt`, and
a `cdt` is a tagged union that may itself hold a `cdts`.

| Component | State | Operations | Interacts with |
|---|---|---|---|
| XLLR C-API loader (`runtime/xllr_capi_loader.{c,h}`, `xllr_static_capi_loader.cpp`) | one library handle, one function pointer per API function; process-global, no lock | `load_xllr_capi`, the wrappers (`check_function_pointer`), `free_xllr`, the static constructor | every thread of the host; `dlopen`/`dlsym`; the environment (`METAFFI_HOME`, the installed library) |
| CDTS construction and traversal (`runtime/cdts_traverse_construct.{cpp,h}`) | the tree being built, the recursion, the computed `fixed_dimensions` | `construct_cdts`/`construct_cdt`, `traverse_cdts`/`traverse_cdt` | callbacks of a language plugin, which may answer anything or throw |
| CDT ownership (`runtime/cdt.h`, `cdt.cpp`) | type, value and `free_required` of each slot; buffer, length and cache flag of each `cdts` | setters, `cdts::set`, moves, `free`, destructors | the host, which keeps handles and uncopied strings; the CDT cache |
| XCall (`runtime/xcall.h`) | a pair of pointers (function, context) | construction, copy, move, call, `is_valid`, scope guard | XLLR, which makes and frees functions; error strings allocated on the other side |
| Primitives (`runtime/metaffi_primitives.{h,cpp}`) | none (characters), alias (type info), type arrays (callables) | UTF-8/16/32 conversions; copies, moves and destruction | all plugins; XLLR reads the aliases it is handed |
| IDL definitions (`compiler/go/IDL`) | the tree module / class / function / argument, partly shared through pointers | `NewIDLDefinitionFromJSON`, `FinalizeConstruction`, `ReplaceKeywords`, overload grouping, entity paths | compilers of all languages |
| Compiler plugin handlers (`compiler/go/*.go`, `utils/plugin_loader.hpp`) | the loaded plugin, the registered handlers | plugin lookup, registration, exported `compile_to_guest`, `compile_from_host`, `parse_idl` | the MetaFFI compiler, across a C border; the file system |
| Utilities (`utils/*`) | path strings, singleton instance | entity-path parsing, expansion of variables, `load_entity`/`make_callable`, `instance`/`free` | the environment; XLLR |
| Vendored code (`src/include`, `src/node_modules`), samples (`src/tests`), Node.js stub (`src/runtime`) | - | - | not modelled |

### What is hard here

* **Threads without a lock.** Every wrapper may be the first to load XLLR. The
  handle is stored before the pointers are bound, and the handle being set is
  what `load_xllr` takes for "already loaded".
* **Partial failure.** A missing symbol leaves a handle and a prefix of the
  pointers; a missing `METAFFI_HOME` leaves nothing, and a later call tries again.
* **Sentinels in arithmetic.** `INT_MIN` and `-1` are dimensions, "none yet"
  and "mixed" at once, and are incremented.
* **Callbacks.** A host answers `construct_cdts` one element at a time, may
  describe its arrays wrongly, and may throw half way.
* **Manual ownership.** A slot's `free_required` flag, its type and its pointer
  are three assignments; overwriting one leaks or frees what another says, and a
  callback that need not write the flag decides what a destructor does. Type
  information, callables and xcalls each have their own copy, move and free, and
  the three do not follow one rule.
* **Sharing nobody asked for.** Copying a Go struct copies its maps and pointers:
  a method made from a function shares its arguments and its entity path with it.
* **Errors across a border.** A compiler plugin reports through an out-parameter
  that it never clears; panics are recovered in some calls and not in others.
* **Text as structure.** Paths and options travel as text with separators in it,
  and are taken apart by a function made for other texts.

`PROJECT.json` lists each hazard at its line with the properties that cover it.

## 2. Plan

| | Modules | Status |
|---|---|---|
| 1 | `XllrApi`, `XllrLoader`, `XllrLoader_proofs`: the loader, the promise it makes to the host, proofs | done, proved (liveness model-checked) |
| 2 | `CdtsConstruct`, `CdtsConstruct_proofs`: construction, dimension counting, traversal | done, proved |
| 3 | `CdtSlots`, `CdtSlots_proofs`: who owns what a CDT tree points to | done, proved |
| 4 | `UtfChars`, `UtfChars_proofs`: the six character conversions | done, proved |
| 5 | `IdlKeywords`, `IdlKeywords_proofs`: keyword renaming through shared argument definitions | done, proved |
| 6 | `TypeInfos`, `Callables`, `Xcalls`, composed by `HostCalls`; `HostCalls_proofs` | done, proved |
| 7 | `EntityPaths` over `TextPieces`: the life of an entity path from the IDL definition to the run-time parser | done, proved |
| 8 | `CompilerPlugin` over `TextPieces`: plugin lookup, registration, options and output path, recovery from panics | done, proved |
| 9 | `TextPieces_proofs`: what splitting and joining text yields; on it `GoCompiler_proofs`, about 7 and 8 | done, proved |
| 10 | overload grouping (`ModuleDefinition.go`) | left out: see 7 |

`XllrLoader` and `XllrApi` compose by refinement. `CdtsConstruct` and `CdtSlots`
look at the same function, `construct_cdt`, from two sides (shape and
dimensions; ownership) and are kept apart because their product adds nothing:
neither guards a step of the other. `HostCalls` composes by interleaving: its three
parts meet where XLLR is handed the type information.

## 3. The modules and the code

### `XllrApi`, `XllrLoader`

`XllrLoader` models `check_function_pointer` (`runtime/xllr_capi_loader.c:31-52`),
`load_xllr`, `load_xllr_capi`, `free_xllr`, the wrappers and the constructor of
`xllr_static_capi_loader.cpp`.

| State | Code |
|---|---|
| `handle` | `cdt_helper_xllr_handle`; 0 is NULL, else the number of the `dlopen` that mapped the library |
| `fp` | the global function pointers, each 0 or the mapping it points into |
| `refs`, `epoch`, `exports`, `home`, `installed` | the outside: `dlopen`'s count, mappings so far, the symbols xllr.so has, `METAFFI_HOME`, is there a file |
| `pc`, `fn`, `caller`, `opened`, `idx`, `res` | a thread: where it is, which wrapper it called, locals of the loader |
| `freed`, `overlap` | history, used by properties only |

Nothing in the code is locked or atomic, so each access to a global is a step.
The wrapper tests its pointer in one step (`CheckPointer`), tests the handle in
another (`CheckHandle`), and reads the pointer again when it calls through it
(`Dispatch`). `Resolve` is one `load_symbol` of `load_xllr_capi`. A call through
NULL or through an unmapped address kills the process (`faulted`, after which no
thread moves). `Repair` is the environment: somebody sets the variable or
installs the library while the process runs, which is what makes retries
interesting.

`XllrApi` is what the host is promised: a thread that enters the API is served
by a mapped library, which stays mapped while it is served, or turned away.

### `CdtsConstruct`

`construct_cdts`/`construct_cdt` and `traverse_cdts`/`traverse_cdt`
(`runtime/cdts_traverse_construct.cpp`). The C++ recursion is `stack`: a frame
per array under construction with the index of the next element and
`found_dims`. Callbacks are the environment: a leaf, an array with any metadata,
or an exception may come at any element. `Absorb` is the code
after the recursive call (lines 424-448), `CloseArray` that after the loop
(451-465). `walk`, `seen` and `pruned` are the traversal. The payload of a
scalar is left out, except that reading it as an address is the crash the code
can run into. A host is chosen at the start: one that may say anything of its
arrays, nested up to `MaxDepth`, or a `truthful` one, nested up to `MaxRank`,
whose metadata follows from the rank of each array.

Any array may be a `manual` one, which the host fills itself in
`construct_cdt_array` (lines 403-407). `construct_cdt` looks at nothing in it, so
its frame neither counts nor checks (`found` is mixed and both flags, which the
code does not read here, are false), and the elements are again whatever the host
likes, one step each. When it is done the array has the dimensions the host wrote
(`HostDims`): its rank if it is truthful, otherwise any of `Claims` or the
`INT_MIN` the array was made with. An element the host leaves without a type is
like a null callable to the traversal, which refuses both. A failure is told from
an exception of the host (`thrown`): `failed` are only the checks `construct_cdt`
makes itself.

### `CdtSlots`

`cdt` and `cdts` of `runtime/cdt.h` and `cdt.cpp`: an element is its type, value
and `free_required`; a header (`hdr`) is `arr`, `length` and
`allocated_on_cache`. `FreeRoot` is `cdts::free`, whose element destructors run
as `Destroy` steps on `todo`; deleting an array header adds the elements of its
buffer. The destructors of the code run in index order; the model leaves the
order open, which allows more behaviours. `SetHandle` frees the element first
and writes it in a second step (`FinishHandle`), as the code does. Ghosts
(`lost`, `gave`, `torn`, `spent`) say what was overwritten, whether the host gave
a handle away, whether a callback threw over an element in use (`torn`), whether
one left a TRUE flag over what is not its to free (`stale`), and which headers
were emptied. Of the callbacks of `construct_cdt` that get the address of
`free_required` (lines 351-378 and 477) each may write it or leave it: for a string
or a handle it then is what the element's earlier value left (`Unsaid`), for a
callable it is TRUE. `cdts(cdt*, n, dims, 1)` is how XLLR hands out buffers of
its per-thread cache; XLLR itself is another repository.

`MCCdtSlots` adds a `scene`, so that the instance has either every type of
element, or moves, the cache and throwing callbacks: their product is too large,
and no hazard needs both.

### `UtfChars`

The conversion operators between `metaffi_char8`, `char16` and `char32`
(`runtime/metaffi_primitives.{h,cpp}`). Masks and shifts are `%` and `\div`, the
or of disjoint bits is `+`, the cast to `char16_t` wraps at 2^16. A host sends
any code point below 0x200000 (surrogates and values above 0x10FFFF included)
as a char32, or a char8 whose first byte is garbled. What becomes of those that are
no characters is nowhere said; `Convertible` holds the conversions to one another.

### `IdlKeywords`

`ModifyKeywords` (`compiler/go/Utils.go`) and `IDLDefinition.ReplaceKeywords`
(`compiler/go/IDL/IDLDefinition.go`). A pass is a fold over the places the Go
code visits, in its order (`ModifySites`, `ReplaceSites`); `Object` says which
object a place points to: definitions built through the API share the
`ArgDefinition` between a global or field, its getter and its setter, and
between a function and the method made from it; those read from JSON share
nothing. The two passes take what they rename from different callers: a plugin's
keywords and `modifyKeyword`, a mapping's keys and values. `Modifying` and
`Replacing` are sets of such `Words`, and passes with any of them follow one another
in any order, so one plugin may rename what another, or a mapping, made. Of each
it is assumed that what it writes for a keyword is not a keyword of its own
(`WordsAssumption`); the code neither checks nor documents this.
`MCIdlKeywords` has two plugins, the second of which has the first's replacement
for a keyword.

### `TypeInfos`, `Callables`, `Xcalls`, `HostCalls`

Three value types of the C++ runtime, each with its own idea of copying.

| State | Code |
|---|---|
| `info`, `heap`, `borrowed` | `metaffi_type_info` (`runtime/metaffi_primitives.h:258-342`): type, alias and `is_free_alias`; the strings `new[]` gave out. A class name serves as type, as text and as literal, so that an alias of the wrong type can be told |
| `callable`, `room`, `leftover`, `spent` | `cdt_metaffi_callable` (`runtime/metaffi_primitives.h:369-476`): type array and its `int8` length; the real size of each array. Parameters and return values are handled alike and are one array here |
| `slot`, `loaded`, `live`, `shared`, `strayed`, `kept` | `xcall` (`runtime/xcall.h`): a pair of pointers that always travel together, so it is the number of the function; what XLLR has loaded and not freed |
| `info_fault`, `call_fault`, `x_fault` | how the process died: nothing moves after it |

Each action is one constructor, assignment, method, call or destructor. A
function is loaded into a pointer with an `xcall_scope_guard` on it (`Guard`) and
may be copied to, or moved into, plain values, which have no destructor (`Drop`).
`Call` and `CallThrowing` are the calls that end badly; a call that succeeds
changes no state of the SDK. `LoadEntity` hands XLLR every info the host has
built, and XLLR reads every alias in them.

`MCHostCalls` explores the infos, or the callables, beside the xcalls: `TypeInfos`
and `Callables` share no state, and the proofs do without this restriction.

### `EntityPaths`, `TextPieces`

The `entity_path` maps of callables, classes and modules (`compiler/go/IDL`), the
text `EntityPathAsString` writes of them, and what `utils/entity_path_parser.cpp`
and `expand_env.cpp` read out of it. Maps are references: `path[c]` is the
callable `c`'s map was made for, so that a method made from a function holds the
function's map. The definition has one module, one function and two classes
with a method, a constructor and a releaser; it is built through the API (where
a class is born with its releaser) or read from JSON, where any of the callables
may come without a path. Writing into a nil map panics: `SetEntityPath` goes through
a definition in a fixed order (`Before`), so what comes before the callable it
panicked at (`panicked`) was written and the rest was not.
`PassAsJSON` is `ToJSON` followed by `NewIDLDefinitionFromJSON` and
`FinalizeConstruction`. Text is a sequence of pieces in which a separator is a
piece of its own (`TextPieces`); a value stands for its `Spelling`: empty, with a
variable to expand, with an `=` or with a `,` in it. `Parse` and `OptionsMap` fill a
map from items in their order, so a key that comes twice keeps the last value
(`LastWith`); that this never happens to what was written is part of what is proved.

### `CompilerPlugin`

`load_plugin` (`utils/plugin_loader.hpp`), the two handlers and
`LanguagePluginMain` (`compiler/go/*.go`). The compiler on the other side is not in
this repository: it may clear `out_err` between calls or not, and it uses a
definition if `out_err` was not set after it was parsed. What `os.Stat` says of
the output path (`Kinds`; an empty path never exists) is chosen when the code looks, which for a host is after
its ten seconds of sleep (`asleep`): files may come and go, the plugin may be
registered again. A missing IDL handler, and a panic of a parser, end the
compiler (`died`); a panic while compiling is recovered into `out_err`. `output` is
what the compiler behind the plugin was given and wrote: `SplitList` yields no part
of an empty text, unlike `strings.Split`, and `Join` drops empty parts, as
`filepath.Join` does. The specification is called `PluginSpec`, so that it and
`EntityPaths`, which share the functions on text, are proved about in one module.

## 4. The runs

| Run | Bounds | What it shows |
|---|---|---|
| `loader_lazy` | 2 threads, 2 symbols, every library (complete, partial, absent, appearing later), free allowed | A fault needs two overlapping loads or a `free_xllr`; the bound pointers are a prefix; the library is opened once while loads do not overlap; a complete API stays complete; every call ends |
| `loader_static` | 2 threads, 2 symbols, static loader, no free | With the static loader overlapping loads are harmless: the loader implements `XllrApi` |
| `loader_half_loaded` | 1 thread | Violation, see 6 |
| `construct_hosts` | 1 root element, arrays up to 2 long, depth 2 with every claim, rank 2 for a truthful host, manual arrays with dimensions 1, 2 or none | The dimensions `construct_cdt` computes are exact and, but for leading elements that never got any, safe to index by; a truthful host's full arrays arrive with their rank, and its construction neither fails nor crashes; a crash needs a false claim; the traversal returns what was supplied, in order |
| `construct_empty` | depth 2 | Violation, see 6 |
| `slots` | 2 header variables, 3 buffers of one element (one of the cache), 3 objects (2 after a flag was left alone), all element types, throws; in two scenes | No wrong delete unless a callback threw over an element in use or left a TRUE flag alone, one owner, only overwriting leaks, the host's handles are kept, only freeing or moving empties a header |
| `utf_chain` | 43 characters on both sides of every boundary, 12 first bytes, chains of any length | Characters survive, encodings are shortest and fit their widths, no conversion refuses what another made |
| `idl_passes` | four names, two plugins with a keyword each, one mapping, six compositions of a definition, shared and not, passes in any order and number | A plugin leaves none of its keywords, its pass keeps equal what was equal, a repeated pass changes nothing |
| `idl_replaced` | a global with a setter | Violation, see 6 |
| `host_calls` | 2 infos, 2 strings, 2 class names; 2 callables, 2 arrays, vectors of 2, 128 or 256 types; 1 guarded xcall, 1 value, 2 functions; symmetric | Every alias and every type array has one owner; an xcall that was only moved is live; guards lose no function; each fault, each misnamed info and each lost string has its cause |
| `entity_paths` | 2 keys, 4 kinds of value, 2 calls of `SetEntityPath`, everything else unbounded | What the parser reads is what the definition says; a class's path reaches its members; also where setting it panicked half way; setting panics only at a callable for which JSON had no path; a class's path stays inside it unless a member was made from the function since the last JSON |
| `compiler_plugin` | 2 sources, 5 paths, options with and without separators, up to 2 files of the plugin's name | A call that says nothing has done its work; files land in a directory that was asked for, and for a path without a colon nowhere but there; options arrive unless a value has a comma |

**Why these bounds.** The loader's interactions are pairwise (two threads, and two
symbols so that a partial binding exists), and its safety properties are proved
for every number of threads and symbols. Dimension counting compares a child with the ones before
it: two children per array show "first", "agrees" and "differs", and an array in an
array a dimension being passed up; `Claims` has two values, so that two manual
arrays agree, differ, or come before or after one without dimensions. Rank 3 with
manual arrays at every level is millions of states and repeats this; the theorems
hold for every rank. The ownership hazards
need an element to be written, written again and destroyed while another holds
an array: two buffers beside the cache's and three objects allow a nested array, an
overwritten one and the dummy callable at once. Two infos, or callables, are
what a copy, a move or a double free needs; 128 is the first count that is
negative as an `int8` and 256 the first that is zero. One guarded xcall and one
value hold a function, its copy and the next function. Sharing of paths is
pairwise, and two calls of `SetEntityPath` set and overwrite. The paths of
`compiler_plugin` have every number of parts `SplitList` tells apart, empty ones
included. Conversions change form at 0x80, 0x800,
0xD800, 0xE000, 0x10000 and 0x110000, all of which have neighbours in the run;
besides, the theorems cover every value. The Go passes treat every place
alike up to order and sharing, so a keyword and one other name per place are
enough, and with `k`, `k_` and `k__` each plugin's replacement is or is not the
other's keyword.

**Fairness.** Only `loader_lazy` needs it: `FairSpec` asks weak fairness of each
thread's own steps (`WF_vars(Step(t))`), that is, of the operating system's
scheduler. Calling the API again, freeing and `Repair` are not fair: nothing
obliges a host to do them. The loader takes no lock, so `CallEnds` needs no
stronger assumption; it does assume that XLLR's own function returns. The other
systems are sequential and stop when their caller does, and are checked for
safety only.

**Deadlock.** Runs say `CHECK_DEADLOCK FALSE` where the code stops: a process that
faulted or exited, a construction or traversal that ended, a conversion that
threw, a host that has nothing more to do, a write to a nil map, a panic that left
the plugin. `idl_passes` and `idl_replaced` check
for deadlock.

## 5. Proofs

### `XllrLoader_proofs`

Under `LoaderAssumption` (at least one symbol, `Main` is a thread) and for any
set of threads and any number of symbols:

* `TypeCorrect`, inductive as it stands;
* `LoaderInvariant`: `IInv`, from which `NoStrayCall`, `PartialLibraryIsPrefix`,
  `SingleOpen` and `NothingIsUnbound` follow;
* `StaticLoaderImplementsApi`: with the static loader and without `free_xllr`
  every step is a step of `XllrApi` or a stutter, under the mapping `Seen`.

None of the safety properties is inductive: that a thread's call finds a pointer
depends on what the loader that ended before it left. `IInv` adds

* `OneLoader`: without an overlap at most one thread is in the loader, which turns
  "no two threads" from history into a fact about now;
* `MainFirst`: until the static constructors are done only `Main` runs;
* `MappingInv`: whoever is about to open the library found it closed, and a
  library mapped without a handle is in the hands of the thread storing it;
* `BindingInv`: handle and pointers are NULL or point into what is mapped, and a
  loader at index i has bound everything below i;
* `CalmInv`: what each program point knows of its pointer, e.g. that a thread at
  `dispatch` has one.

The proof of `IInvInductive` has a step per action, and below it one per conjunct
the action can disturb.

### `UtfChars_proofs`

For every set of characters below 0x200000 and every garbled first byte:
`TypeCorrect`, `CharactersPreserved`, `CharactersWellFormed` and
`WhatIsMadeConverts` (of `Convertible`). `Preserved` is not
inductive, for a code point says nothing about the units the next conversion
reads; `Exact` (the units *are* the encoding of what was sent) is. It rests on
`Decode8` and `Decode16`, by cases on the length of the encoding.

### `HostCalls_proofs`

Under `TypeInfosAssumption`, `CallablesAssumption` and `XcallsAssumption` (which say
no more than that addresses, texts and null differ), for any number of
variables, strings, arrays, counts and functions. The invariant is
`IInv == InfoInv /\ CallInv /\ XInv`: each part speaks of the variables of its own
module, is preserved by that module's steps, and stays under the others'
(`InfoInvStays`, ...); only `LoadEntity` touches two. Besides the properties it holds

* for infos: `Shaped` (an undeclared info is blank), `Borrowers` (who points to a
  string without owning it is known to have borrowed it) and `InfoFaults`;
* for callables: `Lengths` (a length is never negative, which is what makes
  "as long as the array" enough to never read past its end), `Unbuilt`, and
  `Hollow` (a callable without array but with a length was freed and not assigned
  since);
* for xcalls: `Known` (a variable holds a function that was loaded), without which
  the next function loaded could already be held.

`LossesAreOverwrites` needs more than a state invariant: `LostStep` shows, action by
action, that a string stops being owned only where its owner gets another alias.

`MisnamedByAssign` is a property of steps: from `InfoInv`, an assignment is the only
action after which an info has an alias of another type than its own.

### `CdtsConstruct_proofs`

Under `ConstructAssumption` (the bounds are natural numbers, `Claims` are integers,
`array` and `root` are no leaves), for hosts that supply any number of elements nested to any depth. The
recursion needs no induction over trees, because the invariant says of every frame
and every array what a step can change of it:

* `TreeInv`, `StackInv`: the tree is closed under "the array an element is in", and
  the frames are the chain of arrays from the root to the place being filled;
* `SoundFrame`, for an open array: what `found_dims` says of the elements settled so
  far: a run of elements without dimensions and then elements of `found_dims`
  (`Run`), or two that differ. When the array is closed this becomes `SoundArray`, and
  nothing below a closed array changes afterwards (`ArraysInv`, `Complete`);
* `CrashInv`, `WalkInv`: what a crash leaves to be seen, and where a traversal is.

`DimsExact`, `DimsSound` and `CrashNeedsFalseClaim` follow, of the arrays `construct_cdt`
fills (`Counted`), whatever the host put into the others. `DimsSound` is not that
every element of an array of n dimensions has n - 1: elements at its front that
the host filled and left at `INT_MIN` are taken for "nothing found yet", and
`[INT_MIN, 2]` gives 3 where `[2, INT_MIN]` gives mixed. The property says that this is
the only exception. Dimensions are integers without a width here: a host that
writes 2^63 - 1 into an array would make line 460 overflow. `TypedDims` has an invariant
of its own, `TInv`: for a truthful host every array's rank is one more than its
elements', a closed full array's dimensions are its rank, and nothing failed.

`RoundTrip` compares two sequences, what was supplied and what the traversal
reported. The proof orders the places of a tree as the recursion visits them
(`Before`: an array before its elements, elements by index). `OrderInv`: what was
supplied is sorted, complete, and ends just before the place being filled.
`SeenInv`: what was reported is sorted too and is what lies before the
traversal's cursor and is not below a pruned array. Two sorted sequences with
the same elements agree place by place.

### `CdtSlots_proofs`

Under `SlotsAssumption` (the kinds of addresses differ, there is at least one of
each, and the cache's buffers are buffers), for any number of headers, buffers,
objects and any length of array. The invariant holds until a callback throws over
an element in use (`torn`); until one leaves a TRUE flag alone (`stale`) an element
that owns what is the host's is excluded too. These are the two conditions
`NoBadFree` itself states:

* `ObjInv`: an element that owns, by its flag and type, holds null or a live
  object of that type (or, once `stale`, something of the host's); no two own the same; nothing owns from outside a live
  buffer; an object is lost if and only if it is there and nobody owns it;
* `BufInv`: a header's array is live and is the cache's exactly if the header says
  so; no two headers have the same; an address that is not an array has an empty
  header; and buffers are lost just as objects are.

An action is one of a few moves on elements (`PutKeeps`, `MoveKeeps`, `StayKeeps`,
`DeleteKeeps`, `ClearKeeps`) and one on headers (`NewBufferKeeps`, `ReleaseKeeps`,
`HandOverKeeps`, `BorrowKeeps`); each half of the invariant is proved of its moves,
then the actions are composed of them.

### `IdlKeywords_proofs`

Under `WordsAssumption`, for any names, plugins and mappings, any composition of a
definition, shared or read from JSON, and any sequence of passes. A pass is a
recursive function over its sites; `Induction` states induction
over the natural numbers for a set, in place of the predicate the library's
theorems ask for, and unrolls it into the steps of a pass. A site is `Done`
if visiting it changes nothing. Visiting a site does it and keeps the others
done, except that `ReplaceKeywords` writes the setter's replacement into the
global, which is why `Passable` asks that no site of that pass writes the
setter's name. `IInv` says that all sites of the last pass are done and that,
besides the global's name, a string changes only to its replacement.
`NoKeywordLeft`, `ReferencesKept` and `Idempotent` follow.

### `TextPieces_proofs`

For text of any pieces and any length, with no assumption on constants. `Split` and
`Join` are folds; `IterationExists` and `IterationSteps` unroll a fold into what one
more piece does to it, and `TextInduction` is induction over the length of a text,
both from `Induction`, which is stated for a set for want of a predicate. Then

* `SplitPlain`, `SplitParts`, `SplitItem`, `SplitTyped`: text without a separator is one
  part, text of two parts has one, `key=value` is two parts and more if the value
  has an `=`, and no part has a separator;
* `SplitJoin`: splitting what was joined from parts that are not empty and have no
  separator gives back those parts;
* `SplitPairs`, `PairsRead`: of the text `Pairs` writes of a map (`Writable`: at least
  one key and finitely many, no separator in a key, no comma in a value), the items are the map's
  entries, each once, and who fills a map from them reads the same map back.

### `GoCompiler_proofs`

*Entity paths*, under `EntityPathsAssumption` (finitely many keys, `,` and `=` are no
keys: the code escapes neither), for any keys and number of sets. `PathsInv`
says that only a function's map is ever shared, with what was made from it since the last JSON
(`derived`), that a nil map is that of a callable in `given`, and (`ConstructorsHave`)
that a constructor that was there has what its class was given, unless the panic
was at it. With it `PanicNeedsNullPath`, `ClassPathsReach` and
`SetsStayInside`. `PathsArrive` joins two halves. `SaidIsWritten`: the values that
`EntityPathAsString` spells are those the definition says, whatever was shared,
duplicated or passed as JSON. `ParsePairs`: what `entity_path_parser` reads of that text
is the same map, expanded, by `PairsRead`; if a value has an `=`, its item has three
parts and the parser throws.

*A plugin's handlers*, under `CompilerPluginAssumption` (`:` is no source, keys of options
are finitely many and no separators), for any sources, paths and options.
`PluginInv` is about silence: its two halves, about the call that returned and about
the definition the compiler believes it has, need a third, that a host call asleep
was made with a definition that is kept (`SleepsOnAsked`). `OutputInv` is about what
was written: the call it was written for was not refused and is one the compiler
could make, of a definition that was parsed (`JsonKnown`), even if it slept in
between (`SleepsProperly`). With it

* `OptionsArrive`: options without a comma in a value that were not refused have no `=`
  in a value either, so `PairsRead` applies; a map with no key at all is written
  as the empty text, which must not be split;
* `WritesWhereAsked`: what was not refused and is not taken for a directory has two
  parts at least, so a `:` in it (`SplitParts`); what is taken for one, because
  it is or because `os.Stat` could not tell, gets the file in it.

### Model-checked only

`CallEnds`, the liveness property: the proof system handles neither fairness nor
`ENABLED`. Every invariant and every action property that a passing run checks is
stated by a theorem.

## 6. Where code and documentation disagree

| Run | What TLC shows |
|---|---|
| `loader_half_loaded` | After a missing symbol the handle stays set: the next `load_xllr` reports success with pointers still NULL (`runtime/xllr_capi_loader.c:565`) |
| `construct_empty` | A fixed array of arrays that is empty gets INT_MIN + 1 dimensions (`cdts_traverse_construct.cpp:460`) |
| `idl_replaced` | `ReplaceKeywords` gives a global the replacement of its setter's name, and the setter keeps the keyword (`compiler/go/IDL/IDLDefinition.go:234`) |

Seen while modelling and not run, or shown by a run that passes:

* a scalar in an array the host calls fixed is dereferenced as an array
  (`cdts_traverse_construct.cpp:444`): the crash of `CrashNeedsFalseClaim`;
* a wrapper whose load failed leaves `out_err` as it was (`xllr_capi_loader.c:41`);
* `on_array` is told `metaffi_any_type` where the header says 0 for mixed arrays
  (`cdts_traverse_construct.h:43`, `cdts_traverse_construct.cpp:39`);
* `cdt::free` deletes a callable under a comment that says its lifetime is the
  user's (`cdt.h:475-480`): `NoBadFree` is about what the code does, which deletes it
  if the flag is TRUE. And `free_required` is handed to callbacks without being reset
  (`cdts_traverse_construct.cpp:351`, `362`, `373`, `378`; for a callable it is set to
  TRUE before), so a callback that does not write it has a string or callable of the
  host deleted, or its handle cleared: the case `stale` of `NoBadFree` and
  `HandlesKept`. Also `construct_cdt` leaks a dummy callable for each
  callable it constructs in a blank element (`cdts_traverse_construct.cpp:470`;
  `CdtSlots` counts it as overwritten);
* the exception of a failed xcall is made of the pointer that was just set to null
  (`xcall.h:133`, `xcall.h:161`): the fault `null_throw` of `FaultsExplained`;
* a vector of 256 types makes a callable of none, and one of 128 throws
  (`metaffi_primitives.h`): the counts of `host_calls`;
* the output path is taken apart by `filepath.SplitList`, which splits lists of
  paths, under a comment that says "split outPath and filename"
  (`compiler/go/LanguagePluginInterfaceHandler.go:48` and `110`). A path without a colon
  that is no directory is therefore refused, where the comment lets one expect
  a directory and a file name; one with a colon is split at it. `WritesWhereAsked`
  asserts neither: it says only that nothing is written elsewhere than asked;
* an array the host fills itself and leaves without dimensions counts as "none
  found yet" in the array around it, if it comes first (`cdts_traverse_construct.cpp:440`):
  the exception `DimsSound` makes;
* `ReplaceKeywords` renames neither type aliases nor constructors nor releasers, so it
  breaks references that `ModifyKeywords` keeps (`compiler/go/IDL/IDLDefinition.go:204`):
  `ReferencesKept` is about `ModifyKeywords` only;
* a constructor does not inherit its class's entity path as a method does
  (`ClassPathsReach` leaves out late constructors and one the panic was at);
* renaming may meet a name that is already there, `class` and `class_`
  (`compiler/go/Utils.go:26`);
* two overloads with return values never have equal signatures
  (`compiler/go/IDL/FunctionDefinition.go:98`).

## 7. Not modelled

* `load_metaffi_library`, `get_cache_size`, the Windows variants of
  `dlopen`/`dlsym`: no state beyond what the model has.
* Payloads, common types and lengths of strings: no property depends on them.
  `construct_cdt`'s `known_type` is never passed by a caller.
* XLLR itself and the language plugins are in other repositories; they appear as
  the mapped library, the callbacks and the cache.
* Overload grouping and `EqualsSignature` (`compiler/go/IDL/ModuleDefinition.go`,
  `FunctionDefinition.go`): a single pass at construction; nothing in the repository
  says which overloads belong together, so there is no property to hold it to.
  The two hazards are listed without a property.
* `GetEntityPathSet`, `metaffi_variant`, the type-name tables, `cdts_wrapper`
  (forwarding), `library_loader` and `function_loader` (one library call each): no
  state. `singleton.hpp`: nothing instantiates it.
* Headers without code, the Go build glue, templates, samples and tests hold no
  logic of the SDK. Vendored code is the bulk of the repository's C and C++
  lines: `src/include` (the headers of Node.js, libuv and V8) and `src/node_modules`
  are the interface of other projects, declare and hardly implement, and are
  called by a hello-world sample only. The SDK's own sources are some 6500 lines;
  the modules translate about 2700 of these, and most of the others are
  declarations, repeated wrappers, formatting and tests.
* Memory ordering below the level of single accesses (torn pointer writes): the
  supported platforms write pointers whole.
