------------------------------- MODULE TypeInfos -------------------------------
(***************************************************************************)
(* The alias of a metaffi_type_info (runtime/metaffi_primitives.h:258-342): *)
(* a C string that the type information owns when is_free_alias is set, and *)
(* only points to otherwise.                                                *)
(*                                                                         *)
(* An alias names the class its type stands for, so one set of names serves *)
(* as types, as texts of strings and as the string literals of the host.    *)
(***************************************************************************)
EXTENDS Integers

CONSTANTS Infos,    \* variables of type metaffi_type_info
          Strings,  \* addresses operator new[] may return for an alias
          Texts,    \* names of classes
          Null      \* the null pointer

ASSUME TypeInfosAssumption ==
  /\ Null \notin Strings \cup Texts /\ Strings \cap Texts = {}
  /\ "freed" \notin Texts

VARIABLES
  info,       \* of each variable: [built, type, alias, is_free_alias]
  heap,       \* what each string holds, "freed" when it is not allocated
  borrowed,   \* ghost: infos made over the string of another one
  info_fault  \* "none", "double_free" or "dangling": the process is gone

infoVars == <<info, heap, borrowed, info_fault>>

Blank == [built |-> FALSE, type |-> Null, alias |-> Null, is_free_alias |-> FALSE]

TypeInfosInit ==
  /\ info = [i \in Infos |-> Blank]
  /\ heap = [a \in Strings |-> "freed"]
  /\ borrowed = {} /\ info_fault = "none"

Text(a) == IF a \in Strings THEN heap[a] ELSE a
Dangling(a) == a \in Strings /\ heap[a] = "freed"
Put(i, t, a, owns) ==
  info' = [info EXCEPT ![i] = [built |-> TRUE, type |-> t, alias |-> a, is_free_alias |-> owns]]

\* Copying the string a means reading it, and a new string of the same text.
\* An alias the info owned before is not freed.
CopyAlias(i, t, a) ==
  IF Dangling(a) THEN info_fault' = "dangling" /\ UNCHANGED <<info, heap, borrowed>>
  ELSE /\ \E n \in Strings : /\ heap[n] = "freed"
                             /\ heap' = [heap EXCEPT ![n] = Text(a)]
                             /\ Put(i, t, n, TRUE)
       /\ borrowed' = borrowed \ {i}
       /\ UNCHANGED info_fault

\* The names a host has at hand: its literals, and the aliases of its infos.
Aliases == Texts \cup ({info[j].alias : j \in Infos} \ {Null})
Meant(a) == IF a \in Texts THEN {a}
            ELSE {info[j].type : j \in {k \in Infos : info[k].alias = a}}

\* metaffi_type_info(type) and metaffi_type_info(type, alias, is_copy_alias).
Declare(i) ==
  /\ ~info[i].built
  /\ \E t \in Texts : Put(i, t, Null, FALSE)
  /\ UNCHANGED <<heap, borrowed, info_fault>>
DeclareAlias(i) ==
  /\ ~info[i].built
  /\ \E a \in Aliases : \E t \in Meant(a) :
       \/ CopyAlias(i, t, a)
       \/ /\ Put(i, t, a, FALSE)
          /\ borrowed' = IF a \in Strings THEN borrowed \cup {i} ELSE borrowed \ {i}
          /\ UNCHANGED <<heap, info_fault>>

\* set_copy_alias: the host names its type afresh.
SetCopyAlias(i) ==
  /\ info[i].built
  /\ CopyAlias(i, info[i].type, info[i].type)

\* The copy constructor and operator=(const &): a source without alias leaves
\* the target's alias as it was.
Assign_KeepsType(i, j) ==    \* mutant: the alias without the type
  /\ i # j /\ info[j].built
  /\ IF info[j].alias # Null
     THEN CopyAlias(i, info[i].type, info[j].alias)
     ELSE UNCHANGED <<info, heap, borrowed, info_fault>>
Assign(i, j) ==
  /\ i # j /\ info[j].built
  /\ IF info[j].alias # Null
     THEN CopyAlias(i, info[j].type, info[j].alias)
     ELSE /\ Put(i, info[j].type, info[i].alias, info[i].is_free_alias)
          /\ UNCHANGED <<heap, borrowed, info_fault>>

\* The move constructor and operator=(&&).
Move_KeepsSource(i, j) ==    \* mutant: the source keeps its alias
  /\ i # j /\ info[j].built
  /\ info' = [info EXCEPT ![i] = info[j]]
  /\ UNCHANGED <<heap, borrowed, info_fault>>
Move(i, j) ==
  /\ i # j /\ info[j].built
  /\ info' = [info EXCEPT ![i] = [info[j] EXCEPT !.built = TRUE],
                          ![j] = [@ EXCEPT !.alias = Null, !.is_free_alias = FALSE]]
  /\ borrowed' = IF j \in borrowed THEN (borrowed \cup {i}) \ {j} ELSE borrowed \ {i}
  /\ UNCHANGED <<heap, info_fault>>

\* ~metaffi_type_info.
Destroy_KeepsString(i) ==    \* mutant
  /\ info[i].built
  /\ info' = [info EXCEPT ![i] = Blank]
  /\ borrowed' = borrowed \ {i}
  /\ UNCHANGED <<heap, info_fault>>
Destroy(i) ==
  /\ info[i].built
  /\ info' = [info EXCEPT ![i] = Blank]
  /\ borrowed' = borrowed \ {i}
  /\ IF ~info[i].is_free_alias THEN UNCHANGED <<heap, info_fault>>
     ELSE IF Dangling(info[i].alias) THEN info_fault' = "double_free" /\ UNCHANGED heap
     ELSE heap' = [heap EXCEPT ![info[i].alias] = "freed"] /\ UNCHANGED info_fault

TypeInfosNext ==
  /\ info_fault = "none"
  /\ \E i \in Infos :
    \/ Declare(i) \/ DeclareAlias(i) \/ SetCopyAlias(i) \/ Destroy(i)
    \/ \E j \in Infos : Assign(i, j) \/ Move(i, j)
------------------------------------------------------------------------------
TypeInfosTypeOK ==
  /\ info \in [Infos -> [built : BOOLEAN, type : Texts \cup {Null},
                         alias : Texts \cup Strings \cup {Null}, is_free_alias : BOOLEAN]]
  /\ heap \in [Strings -> Texts \cup {"freed"}]
  /\ borrowed \subseteq Infos
  /\ info_fault \in {"none", "double_free", "dangling"}

(***************************************************************************)
(* What an info frees when it dies is a live string of its own: whatever    *)
(* was copied, moved, assigned over or made over the string of another.     *)
(***************************************************************************)
AliasesOwned ==
  /\ \A i \in Infos : info[i].is_free_alias =>
       info[i].alias \in Strings /\ ~Dangling(info[i].alias)
  /\ \A i, j \in Infos :
       i # j /\ info[i].is_free_alias /\ info[j].is_free_alias => info[i].alias # info[j].alias

\* An alias dangles only where the host made an info over another's string.
DanglingIsBorrowed == \A i \in Infos : Dangling(info[i].alias) => i \in borrowed

(***************************************************************************)
(* An info comes to carry the alias of another type than its own only when  *)
(* an info without alias is assigned over one that has one (the assignment  *)
(* copies the type and skips the alias), or by way of such an info; where   *)
(* strings are borrowed, an address may also come to hold another text.     *)
(***************************************************************************)
Misnamed(i) == info[i].alias # Null /\ Text(info[i].alias) # info[i].type
MisnamedByAssign ==
  [][\A i \in Infos : borrowed = {} /\ ~Misnamed(i) /\ Misnamed(i)' =>
       \E j \in Infos \ {i} : info'[i].type = info[j].type
                             /\ ((info[j].alias = Null /\ info[i].built) \/ Misnamed(j))]_infoVars

(***************************************************************************)
(* A string is lost (allocated, and no info will free it) only by giving an *)
(* info that owns it another alias: never by moving or destroying it.       *)
(***************************************************************************)
Lost == {a \in Strings : heap[a] # "freed" /\ \A i \in Infos : ~(info[i].is_free_alias /\ info[i].alias = a)}
Taken(a) == \E j \in Infos : info'[j].alias = a /\ info[j].alias # a
LostByOverwrite ==
  [][\A a \in Lost' \ Lost : \E k \in Infos :
       /\ info[k].is_free_alias /\ info[k].alias = a
       /\ info'[k].built /\ ~Taken(a)]_infoVars
==============================================================================
