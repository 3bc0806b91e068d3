--------------------------- MODULE HostCalls_proofs ---------------------------
(***************************************************************************)
(* Type information, callables and xcalls, for any number of variables,     *)
(* strings, arrays and functions.  The three hardly touch one another, so   *)
(* each has an invariant of its own, and the invariant of HostCalls is      *)
(* their conjunction.                                                       *)
(***************************************************************************)
EXTENDS HostCalls, TLAPS

------------------------------------------------------------------------------
(***************************************************************************)
(* Type information.  AliasesOwned needs to know that only infos that exist *)
(* have an alias; that whatever points to a string without owning it was    *)
(* borrowed explains the faults.                                            *)
(***************************************************************************)
Shaped == \A i \in Infos : IF info[i].built THEN info[i].type \in Texts ELSE info[i] = Blank
Borrowers == \A i \in Infos : info[i].alias \in Strings => info[i].is_free_alias \/ i \in borrowed
InfoFaults == info_fault \in {"none", "dangling"} /\ (info_fault = "dangling" => borrowed # {})

InfoInv == TypeInfosTypeOK /\ Shaped /\ AliasesOwned /\ Borrowers /\ InfoFaults

\* Infos that have not been declared satisfy it.
LEMMA InfoInvInit == TypeInfosInit => InfoInv
  BY TypeInfosAssumption
     DEF TypeInfosInit, InfoInv, TypeInfosTypeOK, Shaped, AliasesOwned, Borrowers, InfoFaults, Blank

\* What every info looks like, to be cited field by field.
LEMMA InfoFields ==
  ASSUME TypeInfosTypeOK, NEW i \in Infos
  PROVE  /\ info[i] \in [built : BOOLEAN, type : Texts \cup {Null},
                         alias : Texts \cup Strings \cup {Null}, is_free_alias : BOOLEAN]
         /\ info[i].built \in BOOLEAN /\ info[i].is_free_alias \in BOOLEAN
         /\ info[i].type \in Texts \cup {Null}
         /\ info[i].alias \in Texts \cup Strings \cup {Null}
  BY DEF TypeInfosTypeOK

\* Copying an alias that means something into an info keeps the invariant, and
\* a dangling one shows that something was borrowed.
LEMMA CopyAliasKeeps ==
  ASSUME InfoInv, info_fault = "none", NEW i \in Infos, NEW t \in Texts,
         NEW a \in Texts \cup Strings,
         Dangling(a) => borrowed # {},
         CopyAlias(i, t, a)
  PROVE  InfoInv'
<1> USE TypeInfosAssumption
<1>1. CASE Dangling(a)
  BY <1>1 DEF CopyAlias, InfoInv, TypeInfosTypeOK, Shaped, AliasesOwned, Borrowers, InfoFaults, Dangling
<1>2. CASE ~Dangling(a)
  <2>1. PICK n \in Strings : /\ heap[n] = "freed" /\ heap' = [heap EXCEPT ![n] = Text(a)]
                             /\ info' = [info EXCEPT ![i] = [built |-> TRUE, type |-> t,
                                                             alias |-> n, is_free_alias |-> TRUE]]
                             /\ borrowed' = borrowed \ {i} /\ info_fault' = info_fault
    BY <1>2 DEF CopyAlias, Put
  <2>2. Text(a) \in Texts
    BY <1>2 DEF Text, Dangling, InfoInv, TypeInfosTypeOK
  <2>3. TypeInfosTypeOK'
    BY <2>1, <2>2 DEF InfoInv, TypeInfosTypeOK
  <2>4. info'[i] = [built |-> TRUE, type |-> t, alias |-> n, is_free_alias |-> TRUE]
        /\ \A j \in Infos \ {i} : info'[j] = info[j]
    BY <2>1 DEF InfoInv, TypeInfosTypeOK
  <2>5. heap'[n] \in Texts /\ \A b \in Strings \ {n} : heap'[b] = heap[b]
    BY <2>1, <2>2 DEF InfoInv, TypeInfosTypeOK
  <2>6. Shaped'
    <3>1. info'[i].built /\ info'[i].type = t
      BY <2>4
    <3>. QED BY <2>4, <3>1 DEF InfoInv, Shaped
  <2>7. \A j \in Infos \ {i} : info[j].is_free_alias => info[j].alias # n
    BY <2>1 DEF InfoInv, AliasesOwned, Dangling
  <2>8. AliasesOwned'
    BY <2>4, <2>5, <2>7 DEF InfoInv, AliasesOwned, Dangling
  <2>9. Borrowers' /\ InfoFaults'
    BY <2>1, <2>4 DEF InfoInv, Borrowers, InfoFaults
  <2>. QED BY <2>3, <2>6, <2>8, <2>9 DEF InfoInv
<1>. QED BY <1>1, <1>2

\* An info that holds no string of its own, put over an undeclared one or over
\* itself, keeps the invariant.
LEMMA PutKeeps ==
  ASSUME InfoInv, info_fault = "none", NEW i \in Infos, NEW r,
         r \in [built : BOOLEAN, type : Texts \cup {Null},
                alias : Texts \cup Strings \cup {Null}, is_free_alias : {FALSE}],
         IF r.built THEN r.type \in Texts ELSE r = Blank,
         info' = [info EXCEPT ![i] = r], UNCHANGED <<heap, info_fault>>,
         r.alias \in Strings => i \in borrowed',
         borrowed' \in SUBSET Infos, borrowed \ {i} \subseteq borrowed'
  PROVE  InfoInv'
<1> USE TypeInfosAssumption
<1>1. info'[i] = r /\ \A j \in Infos \ {i} : info'[j] = info[j]
  BY DEF InfoInv, TypeInfosTypeOK
<1>2. TypeInfosTypeOK'
  BY DEF InfoInv, TypeInfosTypeOK
<1>3. Shaped'
  BY <1>1 DEF InfoInv, Shaped, Blank
<1>4. AliasesOwned'
  <2>1. ~info'[i].is_free_alias
    BY <1>1
  <2>. QED BY <1>1, <2>1 DEF InfoInv, AliasesOwned, Dangling
<1>5. Borrowers' /\ InfoFaults'
  BY <1>1 DEF InfoInv, Borrowers, InfoFaults
<1>. QED BY <1>2, <1>3, <1>4, <1>5 DEF InfoInv

\* An alias dangles only where the host made an info over another's string.
LEMMA DanglingWasBorrowed ==
  ASSUME InfoInv, NEW i \in Infos, Dangling(info[i].alias)
  PROVE  borrowed # {}
  BY DEF InfoInv, AliasesOwned, Borrowers, Dangling

(***************************************************************************)
(* No operation on type information frees what is not its own, and those    *)
(* that read an alias find it dangling only after one was borrowed.         *)
(***************************************************************************)
LEMMA InfoInvStep == InfoInv /\ TypeInfosNext => InfoInv'
<1> SUFFICES ASSUME InfoInv, TypeInfosNext PROVE InfoInv'
  OBVIOUS
<1> USE TypeInfosAssumption
<1>0. info_fault = "none"
  BY DEF TypeInfosNext
<1>a. borrowed \in SUBSET Infos
  BY DEF InfoInv, TypeInfosTypeOK
<1>1. ASSUME NEW i \in Infos, Declare(i) PROVE InfoInv'
  <2>1. PICK t \in Texts :
          info' = [info EXCEPT ![i] = [built |-> TRUE, type |-> t,
                                       alias |-> Null, is_free_alias |-> FALSE]]
    BY <1>1 DEF Declare, Put
  <2>2. UNCHANGED <<heap, borrowed, info_fault>>
    BY <1>1 DEF Declare
  <2> DEFINE r == [built |-> TRUE, type |-> t, alias |-> Null, is_free_alias |-> FALSE]
  <2>3. /\ r \in [built : BOOLEAN, type : Texts \cup {Null},
                   alias : Texts \cup Strings \cup {Null}, is_free_alias : {FALSE}]
        /\ r.built /\ r.type \in Texts /\ r.alias \notin Strings
    OBVIOUS
  <2>4. info' = [info EXCEPT ![i] = r]
    BY <2>1
  <2> HIDE DEF r
  <2>. QED BY <1>0, <1>a, <2>2, <2>3, <2>4, PutKeeps
<1>2. ASSUME NEW i \in Infos, DeclareAlias(i) PROVE InfoInv'
  <2>0. PICK a \in Aliases : \E t \in Meant(a) :
          \/ CopyAlias(i, t, a)
          \/ /\ Put(i, t, a, FALSE)
             /\ borrowed' = IF a \in Strings THEN borrowed \cup {i} ELSE borrowed \ {i}
             /\ UNCHANGED <<heap, info_fault>>
    BY <1>2 DEF DeclareAlias
  <2>1. PICK t \in Meant(a) :
          \/ CopyAlias(i, t, a)
          \/ /\ Put(i, t, a, FALSE)
             /\ borrowed' = IF a \in Strings THEN borrowed \cup {i} ELSE borrowed \ {i}
             /\ UNCHANGED <<heap, info_fault>>
    BY <2>0
  <2>2. a \in Texts \/ \E j \in Infos : a = info[j].alias /\ a # Null
    BY DEF Aliases
  <2>3. a \in Texts \cup Strings
    BY <2>2, InfoFields DEF InfoInv
  <2>4. Dangling(a) => borrowed # {}
    BY <2>2, DanglingWasBorrowed DEF Dangling
  <2>5. t \in Texts
    <3>1. CASE a \in Texts
      BY <3>1 DEF Meant
    <3>2. CASE a \notin Texts
      <4>1. PICK j \in Infos : info[j].alias = a /\ t = info[j].type
        BY <3>2 DEF Meant
      <4>2. a # Null
        BY <2>2, <3>2
      <4>3. info[j] # Blank
        BY <4>1, <4>2 DEF Blank
      <4>. QED BY <4>1, <4>3 DEF InfoInv, Shaped
    <3>. QED BY <3>1, <3>2
  <2>6. CASE CopyAlias(i, t, a)
    BY <1>0, <2>3, <2>4, <2>5, <2>6, CopyAliasKeeps
  <2>7. CASE Put(i, t, a, FALSE)
             /\ borrowed' = (IF a \in Strings THEN borrowed \cup {i} ELSE borrowed \ {i})
             /\ UNCHANGED <<heap, info_fault>>
    <3> DEFINE r == [built |-> TRUE, type |-> t, alias |-> a, is_free_alias |-> FALSE]
    <3>1. /\ r \in [built : BOOLEAN, type : Texts \cup {Null},
                     alias : Texts \cup Strings \cup {Null}, is_free_alias : {FALSE}]
          /\ r.built /\ r.type \in Texts /\ r.alias = a
      BY <2>3, <2>5
    <3>2. info' = [info EXCEPT ![i] = r]
      BY <2>7 DEF Put
    <3>3. (a \in Strings => i \in borrowed') /\ borrowed' \in SUBSET Infos
          /\ borrowed \ {i} \subseteq borrowed'
      BY <2>7, <1>a
    <3> HIDE DEF r
    <3>. QED BY <1>0, <2>7, <3>1, <3>2, <3>3, PutKeeps
  <2>. QED BY <2>1, <2>6, <2>7
<1>3. ASSUME NEW i \in Infos, SetCopyAlias(i) PROVE InfoInv'
  <2>1. info[i].type \in Texts
    BY <1>3 DEF SetCopyAlias, InfoInv, Shaped
  <2>2. ~Dangling(info[i].type)
    BY <2>1 DEF Dangling
  <2>. QED BY <1>0, <1>3, <2>1, <2>2, CopyAliasKeeps DEF SetCopyAlias
<1>4. ASSUME NEW i \in Infos, NEW j \in Infos, Assign(i, j) PROVE InfoInv'
  <2>1. info[j].type \in Texts /\ i # j
    BY <1>4 DEF Assign, InfoInv, Shaped
  <2>2. CASE info[j].alias # Null
    <3>1. CopyAlias(i, info[j].type, info[j].alias)
      BY <1>4, <2>2 DEF Assign
    <3>2. info[j].alias \in Texts \cup Strings
      BY <2>2, InfoFields DEF InfoInv
    <3>. QED BY <1>0, <2>1, <3>1, <3>2, CopyAliasKeeps, DanglingWasBorrowed
  <2>3. CASE info[j].alias = Null
    <3>1. /\ info' = [info EXCEPT ![i] = [built |-> TRUE, type |-> info[j].type,
                        alias |-> info[i].alias, is_free_alias |-> info[i].is_free_alias]]
          /\ UNCHANGED <<heap, borrowed, info_fault>>
      BY <1>4, <2>3 DEF Assign, Put
    <3>2. /\ info'[i].built /\ info'[i].type = info[j].type
          /\ info'[i].alias = info[i].alias /\ info'[i].is_free_alias = info[i].is_free_alias
          /\ \A k \in Infos \ {i} : info'[k] = info[k]
      BY <3>1 DEF InfoInv, TypeInfosTypeOK
    <3>3. TypeInfosTypeOK'
      BY <3>1, <2>1, InfoFields DEF InfoInv, TypeInfosTypeOK
    <3>4. Shaped'
      BY <2>1, <3>2 DEF InfoInv, Shaped
    <3>5. \A k \in Infos : info'[k].alias = info[k].alias
                          /\ info'[k].is_free_alias = info[k].is_free_alias
      BY <3>2
    <3>6. AliasesOwned'
      BY <3>1, <3>5 DEF InfoInv, AliasesOwned, Dangling
    <3>7. Borrowers' /\ InfoFaults'
      BY <3>1, <3>5 DEF InfoInv, Borrowers, InfoFaults
    <3>. QED BY <3>3, <3>4, <3>6, <3>7 DEF InfoInv
  <2>. QED BY <2>2, <2>3
<1>5. ASSUME NEW i \in Infos, NEW j \in Infos, Move(i, j) PROVE InfoInv'
  <2>1. i # j /\ info[j].built /\ UNCHANGED <<heap, info_fault>>
    BY <1>5 DEF Move
  <2>2. /\ info'[i] = [info[j] EXCEPT !.built = TRUE]
        /\ info'[j] = [info[j] EXCEPT !.alias = Null, !.is_free_alias = FALSE]
        /\ \A k \in Infos \ {i, j} : info'[k] = info[k]
    BY <1>5 DEF Move, InfoInv, TypeInfosTypeOK
  <2>3. borrowed' = IF j \in borrowed THEN (borrowed \cup {i}) \ {j} ELSE borrowed \ {i}
    BY <1>5 DEF Move
  <2>4. /\ info'[i].built /\ info'[i].type = info[j].type
        /\ info'[i].alias = info[j].alias /\ info'[i].is_free_alias = info[j].is_free_alias
        /\ info'[j].built /\ info'[j].type = info[j].type
        /\ info'[j].alias = Null /\ info'[j].is_free_alias = FALSE
    BY <2>1, <2>2, InfoFields DEF InfoInv
  <2>5. TypeInfosTypeOK'
    <3>1. info' \in [Infos -> [built : BOOLEAN, type : Texts \cup {Null},
                               alias : Texts \cup Strings \cup {Null}, is_free_alias : BOOLEAN]]
      BY <1>5, InfoFields DEF Move, InfoInv, TypeInfosTypeOK
    <3>. QED BY <2>1, <2>3, <3>1 DEF InfoInv, TypeInfosTypeOK
  <2>6. Shaped'
    BY <2>1, <2>2, <2>4 DEF InfoInv, Shaped
  <2>7. AliasesOwned'
    <3> DEFINE from(k) == IF k = i THEN j ELSE k
    <3>1. \A k \in Infos : info'[k].is_free_alias =>
            k # j /\ info[from(k)].is_free_alias /\ info'[k].alias = info[from(k)].alias
      BY <2>1, <2>2, <2>4
    <3>2. \A k, m \in Infos : k # m /\ k # j /\ m # j => from(k) # from(m)
      BY <2>1
    <3>3. \A k \in Infos : from(k) \in Infos
      OBVIOUS
    <3>4. heap' = heap
      BY <2>1
    <3> HIDE DEF from
    <3>5. \A k \in Infos : info'[k].is_free_alias =>
            info'[k].alias \in Strings /\ heap'[info'[k].alias] # "freed"
      BY <3>1, <3>3, <3>4 DEF InfoInv, AliasesOwned, Dangling
    <3>6. \A k, m \in Infos :
            k # m /\ info'[k].is_free_alias /\ info'[m].is_free_alias =>
              info'[k].alias # info'[m].alias
      BY <3>1, <3>2, <3>3 DEF InfoInv, AliasesOwned
    <3>. QED BY <3>5, <3>6 DEF AliasesOwned, Dangling
  <2>8. Borrowers' /\ InfoFaults'
    BY <1>0, <2>1, <2>2, <2>3, <2>4 DEF InfoInv, Borrowers, InfoFaults
  <2>. QED BY <2>5, <2>6, <2>7, <2>8 DEF InfoInv
<1>6. ASSUME NEW i \in Infos, Destroy(i) PROVE InfoInv'
  <2>1. info' = [info EXCEPT ![i] = Blank] /\ borrowed' = borrowed \ {i}
    BY <1>6 DEF Destroy
  <2>2. info'[i] = Blank /\ \A k \in Infos \ {i} : info'[k] = info[k]
    BY <2>1 DEF InfoInv, TypeInfosTypeOK
  <2>3. ~Blank.built /\ Blank.alias = Null /\ ~Blank.is_free_alias
    BY DEF Blank
  <2>4. info' \in [Infos -> [built : BOOLEAN, type : Texts \cup {Null},
                             alias : Texts \cup Strings \cup {Null}, is_free_alias : BOOLEAN]]
    BY <2>1 DEF InfoInv, TypeInfosTypeOK, Blank
  <2>5. Shaped'
    BY <2>2, <2>3 DEF InfoInv, Shaped
  <2>6. CASE ~info[i].is_free_alias
    <3>1. UNCHANGED <<heap, info_fault>>
      BY <1>6, <2>6 DEF Destroy
    <3>2. TypeInfosTypeOK'
      BY <2>1, <2>4, <3>1 DEF InfoInv, TypeInfosTypeOK
    <3>3. AliasesOwned'
      BY <2>2, <2>3, <3>1 DEF InfoInv, AliasesOwned, Dangling
    <3>4. Borrowers' /\ InfoFaults'
      BY <1>0, <2>1, <2>2, <2>3, <3>1 DEF InfoInv, Borrowers, InfoFaults
    <3>. QED BY <2>5, <3>2, <3>3, <3>4 DEF InfoInv
  <2>7. CASE info[i].is_free_alias
    <3>1. info[i].alias \in Strings /\ ~Dangling(info[i].alias)
      BY <2>7 DEF InfoInv, AliasesOwned
    <3>2. heap' = [heap EXCEPT ![info[i].alias] = "freed"] /\ info_fault' = info_fault
      BY <1>6, <2>7, <3>1 DEF Destroy
    <3>3. TypeInfosTypeOK'
      BY <2>1, <2>4, <3>2 DEF InfoInv, TypeInfosTypeOK
    <3>4. \A a \in Strings \ {info[i].alias} : heap'[a] = heap[a]
      BY <3>2 DEF InfoInv, TypeInfosTypeOK
    <3>5. AliasesOwned'
      BY <2>2, <2>3, <2>7, <3>4 DEF InfoInv, AliasesOwned, Dangling
    <3>6. Borrowers' /\ InfoFaults'
      BY <1>0, <2>1, <2>2, <2>3, <3>2 DEF InfoInv, Borrowers, InfoFaults
    <3>. QED BY <2>5, <3>3, <3>5, <3>6 DEF InfoInv
  <2>. QED BY <2>6, <2>7
<1>. QED BY <1>1, <1>2, <1>3, <1>4, <1>5, <1>6 DEF TypeInfosNext

\* The rest of the system leaves infos alone, but for load_entity, which may
\* read a dangling alias.
LEMMA InfoInvLoad ==
  ASSUME InfoInv, NEW g \in Guarded, LoadEntity(g) PROVE InfoInv'
<1>1. CASE \E i \in Given : Dangling(info[i].alias)
  <2>1. borrowed # {}
    BY <1>1, DanglingWasBorrowed DEF Given
  <2>2. info_fault' = "dangling" /\ UNCHANGED <<info, heap, borrowed>>
    BY <1>1 DEF LoadEntity
  <2>. QED BY <2>1, <2>2 DEF InfoInv, TypeInfosTypeOK, Shaped, AliasesOwned,
                             Borrowers, InfoFaults, Dangling
<1>2. CASE ~\E i \in Given : Dangling(info[i].alias)
  <2>1. UNCHANGED infoVars
    BY <1>2 DEF LoadEntity
  <2>. QED BY <2>1 DEF infoVars, InfoInv, TypeInfosTypeOK, Shaped, AliasesOwned,
                       Borrowers, InfoFaults, Dangling
<1>. QED BY <1>1, <1>2
(***************************************************************************)
(* How aliases come to be lost or wrong.  A copied alias is a new string.   *)
(***************************************************************************)
CopiedTo(i, t, a, n) ==
  /\ heap[n] = "freed" /\ heap'[n] = Text(a) /\ \A b \in Strings \ {n} : heap'[b] = heap[b]
  /\ info'[i] = [built |-> TRUE, type |-> t, alias |-> n, is_free_alias |-> TRUE]
  /\ \A j \in Infos \ {i} : info'[j] = info[j]

\* copy_alias changes nothing, or puts a copy into a string that was free.
LEMMA CopyAliasEffect ==
  ASSUME InfoInv, NEW i \in Infos, NEW t, NEW a, CopyAlias(i, t, a)
  PROVE  UNCHANGED <<info, heap>> \/ \E n \in Strings : CopiedTo(i, t, a, n)
  BY DEF CopyAlias, Put, CopiedTo, InfoInv, TypeInfosTypeOK

\* The part of LostByOverwrite about one string.
LossIsOverwrite(a) ==
  \E k \in Infos : /\ info[k].is_free_alias /\ info[k].alias = a
                   /\ info'[k].built /\ ~Taken(a)

\* A string that nobody owns after copy_alias was owned by the info copied to.
LEMMA CopyAliasLoses ==
  ASSUME InfoInv, NEW i \in Infos, NEW t, NEW c, CopyAlias(i, t, c),
         NEW a \in Strings, NEW k \in Infos, info[k].is_free_alias, info[k].alias = a,
         heap[a] # "freed", \A j \in Infos : ~(info'[j].is_free_alias /\ info'[j].alias = a)
  PROVE  LossIsOverwrite(a)
<1>1. PICK n \in Strings : CopiedTo(i, t, c, n)
  BY CopyAliasEffect
<1>2. k = i /\ n # a
  BY <1>1 DEF CopiedTo
<1>3. info'[k].built /\ ~Taken(a)
  BY <1>1, <1>2 DEF CopiedTo, Taken
<1>. QED BY <1>3 DEF LossIsOverwrite

\* Action by action, a string is lost only by being overwritten.
LEMMA LostStep == InfoInv /\ TypeInfosNext => \A a \in Lost' \ Lost : LossIsOverwrite(a)
<1> SUFFICES ASSUME InfoInv, TypeInfosNext, NEW a \in Lost', a \notin Lost
             PROVE  LossIsOverwrite(a)
  OBVIOUS
<1>a. /\ a \in Strings /\ heap'[a] # "freed"
      /\ \A j \in Infos : ~(info'[j].is_free_alias /\ info'[j].alias = a)
  BY DEF Lost
<1>b. heap[a] = "freed" \/ \E k \in Infos : info[k].is_free_alias /\ info[k].alias = a
  BY <1>a DEF Lost
<1>c. \A i \in Infos : ~info[i].built => ~info[i].is_free_alias
  BY DEF InfoInv, Shaped, Blank
\* Nothing but a copy allocates, and a copy is owned.
<1>d. ASSUME NEW i \in Infos, NEW t, NEW c, CopyAlias(i, t, c) PROVE LossIsOverwrite(a)
  <2>1. CASE UNCHANGED <<info, heap>>
    BY <1>a, <1>b, <2>1
  <2>2. CASE \E n \in Strings : CopiedTo(i, t, c, n)
    <3>1. PICK n \in Strings : CopiedTo(i, t, c, n)
      BY <2>2
    <3>2. n # a
      BY <1>a, <3>1 DEF CopiedTo
    <3>3. heap[a] # "freed"
      BY <1>a, <3>1, <3>2 DEF CopiedTo
    <3>. QED BY <1>a, <1>b, <1>d, <3>3, CopyAliasLoses
  <2>. QED BY <1>d, <2>1, <2>2, CopyAliasEffect
\* Without an allocation, an info that owned the string loses it.
<1>e. ASSUME heap' = heap, \A i \in Infos : info[i].is_free_alias =>
                             info'[i].is_free_alias /\ info'[i].alias = info[i].alias
      PROVE  FALSE
  BY <1>a, <1>b, <1>e
<1>1. ASSUME NEW i \in Infos, Declare(i) PROVE LossIsOverwrite(a)
  <2>1. heap' = heap /\ ~info[i].built /\ \A j \in Infos \ {i} : info'[j] = info[j]
    BY <1>1 DEF Declare, Put, InfoInv, TypeInfosTypeOK
  <2>. QED BY <1>c, <1>e, <2>1
<1>2. ASSUME NEW i \in Infos, DeclareAlias(i) PROVE LossIsOverwrite(a)
  <2>1. CASE \E t, c : CopyAlias(i, t, c)
    BY <1>d, <2>1
  <2>2. CASE \E t, c : Put(i, t, c, FALSE) /\ UNCHANGED heap
    <3>1. heap' = heap /\ ~info[i].built /\ \A j \in Infos \ {i} : info'[j] = info[j]
      BY <1>2, <2>2 DEF DeclareAlias, Put, InfoInv, TypeInfosTypeOK
    <3>. QED BY <1>c, <1>e, <3>1
  <2>. QED BY <1>2, <2>1, <2>2 DEF DeclareAlias
<1>3. ASSUME NEW i \in Infos, SetCopyAlias(i) PROVE LossIsOverwrite(a)
  BY <1>d, <1>3 DEF SetCopyAlias
<1>4. ASSUME NEW i \in Infos, NEW j \in Infos, Assign(i, j) PROVE LossIsOverwrite(a)
  <2>1. CASE info[j].alias # Null
    BY <1>d, <1>4, <2>1 DEF Assign
  <2>2. CASE info[j].alias = Null
    <3>1. /\ heap' = heap /\ info'[i].alias = info[i].alias
          /\ info'[i].is_free_alias = info[i].is_free_alias
          /\ \A k \in Infos \ {i} : info'[k] = info[k]
      BY <1>4, <2>2 DEF Assign, Put, InfoInv, TypeInfosTypeOK
    <3>. QED BY <1>e, <3>1
  <2>. QED BY <2>1, <2>2
<1>5. ASSUME NEW i \in Infos, NEW j \in Infos, Move(i, j) PROVE LossIsOverwrite(a)
  <2>1. /\ i # j /\ heap' = heap
        /\ info'[i] = [info[j] EXCEPT !.built = TRUE]
        /\ info'[j] = [info[j] EXCEPT !.alias = Null, !.is_free_alias = FALSE]
        /\ \A k \in Infos \ {i, j} : info'[k] = info[k]
    BY <1>5 DEF Move, InfoInv, TypeInfosTypeOK
  <2>2. /\ info'[i].alias = info[j].alias /\ info'[i].is_free_alias = info[j].is_free_alias
        /\ info'[i].built /\ info'[j].alias = Null
    BY <2>1, InfoFields DEF InfoInv
  <2>3. PICK k \in Infos : info[k].is_free_alias /\ info[k].alias = a
    BY <1>a, <1>b, <2>1
  <2>4. k = i
    BY <1>a, <2>1, <2>2, <2>3
  <2>5. ~Taken(a)
    BY <1>a, <2>1, <2>2, <2>3, <2>4, TypeInfosAssumption DEF Taken
  <2>. QED BY <2>2, <2>3, <2>4, <2>5 DEF LossIsOverwrite
<1>6. ASSUME NEW i \in Infos, Destroy(i) PROVE LossIsOverwrite(a)
  <2>1. \A j \in Infos \ {i} : info'[j] = info[j]
    BY <1>6 DEF Destroy, InfoInv, TypeInfosTypeOK
  <2>2. CASE ~info[i].is_free_alias
    BY <1>6, <1>e, <2>1, <2>2 DEF Destroy
  <2>3. CASE info[i].is_free_alias
    <3>1. info[i].alias \in Strings /\ ~Dangling(info[i].alias)
      BY <2>3 DEF InfoInv, AliasesOwned
    <3>2. heap' = [heap EXCEPT ![info[i].alias] = "freed"]
      BY <1>6, <2>3, <3>1 DEF Destroy
    <3>3. a # info[i].alias /\ heap[a] # "freed"
      BY <1>a, <3>1, <3>2 DEF InfoInv, TypeInfosTypeOK
    <3>. QED BY <1>a, <1>b, <2>1, <3>3
  <2>. QED BY <2>2, <2>3
<1>. QED BY <1>1, <1>2, <1>3, <1>4, <1>5, <1>6 DEF TypeInfosNext

\* The part of MisnamedByAssign about one info.
MisnameExplained(i) ==
  \E j \in Infos \ {i} : info'[i].type = info[j].type
                       /\ ((info[j].alias = Null /\ info[i].built) \/ Misnamed(j))

\* An info that stays, over a string that stays, keeps its name.
LEMMA NameStays ==
  ASSUME NEW i \in Infos, info'[i] = info[i],
         info[i].alias \in Strings => heap'[info[i].alias] = heap[info[i].alias]
  PROVE  Misnamed(i)' <=> Misnamed(i)
  BY DEF Misnamed, Text

\* While nothing is borrowed, a copied alias misnames at most the info it is
\* copied to, and only when its text is not the name of the type.
LEMMA CopyMisnames ==
  ASSUME InfoInv, borrowed = {}, NEW i \in Infos, NEW t, NEW a, CopyAlias(i, t, a),
         NEW x \in Infos, ~Misnamed(x), Misnamed(x)'
  PROVE  x = i /\ info'[i].type = t /\ Text(a) # t
<1>1. CASE UNCHANGED <<info, heap>>
  BY <1>1 DEF Misnamed, Text
<1>2. ASSUME NEW n \in Strings, CopiedTo(i, t, a, n) PROVE x = i /\ info'[i].type = t /\ Text(a) # t
  <2>1. CASE x # i
    <3>1. ~Dangling(info[x].alias)
      BY DanglingWasBorrowed
    <3>2. info'[x] = info[x] /\ (info[x].alias \in Strings => heap'[info[x].alias] = heap[info[x].alias])
      BY <1>2, <2>1, <3>1 DEF CopiedTo, Dangling
    <3>. QED BY <3>2, NameStays
  <2>2. CASE x = i
    <3>1. info'[i].alias = n /\ info'[i].type = t /\ heap'[n] = Text(a)
      BY <1>2 DEF CopiedTo
    <3>. QED BY <2>2, <3>1 DEF Misnamed, Text
  <2>. QED BY <2>1, <2>2
<1>. QED BY <1>1, <1>2, CopyAliasEffect

\* So no operation misnames an info but by such an assignment, or from one.
LEMMA MisnamedStep ==
  ASSUME InfoInv, TypeInfosNext, borrowed = {}, NEW x \in Infos, ~Misnamed(x), Misnamed(x)'
  PROVE  MisnameExplained(x)
<1>a. \A i \in Infos : ~info[i].built => info[i].alias = Null
  BY DEF InfoInv, Shaped, Blank
<1>b. info'[x].alias # Null
  BY DEF Misnamed
<1>1. ASSUME NEW i \in Infos, Declare(i) PROVE FALSE
  <2>1. info'[i].alias = Null /\ heap' = heap /\ \A j \in Infos \ {i} : info'[j] = info[j]
    BY <1>1 DEF Declare, Put, InfoInv, TypeInfosTypeOK
  <2>. QED BY <1>b, <2>1, NameStays
<1>2. ASSUME NEW i \in Infos, DeclareAlias(i) PROVE MisnameExplained(x)
  <2>1. PICK a \in Aliases : \E t \in Meant(a) :
          CopyAlias(i, t, a) \/ (Put(i, t, a, FALSE) /\ UNCHANGED heap)
    BY <1>2 DEF DeclareAlias
  <2>2. PICK t \in Meant(a) : CopyAlias(i, t, a) \/ (Put(i, t, a, FALSE) /\ UNCHANGED heap)
    BY <2>1
  <2>3. x = i /\ info'[i].type = t /\ Text(a) # t
    <3>1. CASE CopyAlias(i, t, a)
      BY <3>1, CopyMisnames
    <3>2. CASE Put(i, t, a, FALSE) /\ UNCHANGED heap
      <4>1. /\ info'[i] = [built |-> TRUE, type |-> t, alias |-> a, is_free_alias |-> FALSE]
            /\ heap' = heap /\ \A j \in Infos \ {i} : info'[j] = info[j]
        BY <3>2 DEF Put, InfoInv, TypeInfosTypeOK
      <4>2. x = i
        BY <4>1, NameStays
      <4>. QED BY <4>1, <4>2 DEF Misnamed, Text
    <3>. QED BY <2>2, <3>1, <3>2
  <2>4. CASE a \in Texts
    <3>1. t = a /\ Text(a) = a
      BY <2>4, TypeInfosAssumption DEF Meant, Text
    <3>. QED BY <2>3, <3>1
  <2>5. CASE a \notin Texts
    <3>1. PICK k \in Infos : info[k].alias = a /\ t = info[k].type
      BY <2>5 DEF Meant
    <3>2. a # Null
      BY <2>5 DEF Aliases
    <3>3. Misnamed(k) /\ k # i
      BY <1>2, <1>a, <2>3, <3>1, <3>2 DEF Misnamed, DeclareAlias
    <3>. QED BY <2>3, <3>1, <3>3 DEF MisnameExplained
  <2>. QED BY <2>4, <2>5
<1>3. ASSUME NEW i \in Infos, SetCopyAlias(i) PROVE FALSE
  <2>1. info[i].type \in Texts /\ CopyAlias(i, info[i].type, info[i].type)
    BY <1>3 DEF SetCopyAlias, InfoInv, Shaped
  <2>2. Text(info[i].type) = info[i].type
    BY <2>1, TypeInfosAssumption DEF Text
  <2>. QED BY <2>1, <2>2, CopyMisnames
<1>4. ASSUME NEW i \in Infos, NEW j \in Infos, Assign(i, j) PROVE MisnameExplained(x)
  <2>1. CASE info[j].alias # Null
    <3>1. CopyAlias(i, info[j].type, info[j].alias) /\ i # j
      BY <1>4, <2>1 DEF Assign
    <3>2. x = i /\ info'[i].type = info[j].type /\ Text(info[j].alias) # info[j].type
      BY <3>1, CopyMisnames
    <3>. QED BY <2>1, <3>1, <3>2 DEF MisnameExplained, Misnamed
  <2>2. CASE info[j].alias = Null
    <3>1. /\ heap' = heap /\ info'[i].alias = info[i].alias /\ info'[i].type = info[j].type
          /\ \A k \in Infos \ {i} : info'[k] = info[k]
          /\ i # j
      BY <1>4, <2>2 DEF Assign, Put, InfoInv, TypeInfosTypeOK
    <3>2. x = i
      BY <3>1, NameStays
    <3>3. info[i].built
      BY <1>a, <1>b, <3>1, <3>2
    <3>. QED BY <2>2, <3>1, <3>2, <3>3 DEF MisnameExplained
  <2>. QED BY <2>1, <2>2
<1>5. ASSUME NEW i \in Infos, NEW j \in Infos, Move(i, j) PROVE MisnameExplained(x)
  <2>1. /\ i # j /\ heap' = heap
        /\ info'[i] = [info[j] EXCEPT !.built = TRUE]
        /\ info'[j] = [info[j] EXCEPT !.alias = Null, !.is_free_alias = FALSE]
        /\ \A k \in Infos \ {i, j} : info'[k] = info[k]
    BY <1>5 DEF Move, InfoInv, TypeInfosTypeOK
  <2>2. info'[i].alias = info[j].alias /\ info'[i].type = info[j].type /\ info'[j].alias = Null
    BY <2>1, InfoFields DEF InfoInv
  <2>3. x = i
    BY <1>b, <2>1, <2>2, NameStays
  <2>4. Misnamed(j)
    BY <2>1, <2>2, <2>3 DEF Misnamed, Text
  <2>. QED BY <2>1, <2>2, <2>3, <2>4 DEF MisnameExplained
<1>6. ASSUME NEW i \in Infos, Destroy(i) PROVE FALSE
  <2>1. info'[i] = Blank /\ \A j \in Infos \ {i} : info'[j] = info[j]
    BY <1>6 DEF Destroy, InfoInv, TypeInfosTypeOK
  <2>2. x # i
    BY <1>b, <2>1 DEF Blank
  <2>3. info[x].alias \in Strings => heap'[info[x].alias] = heap[info[x].alias]
    <3> SUFFICES ASSUME info[x].alias \in Strings PROVE heap'[info[x].alias] = heap[info[x].alias]
      OBVIOUS
    <3>1. CASE heap' = heap
      BY <3>1
    <3>2. CASE info[i].is_free_alias /\ heap' = [heap EXCEPT ![info[i].alias] = "freed"]
      <4>1. info[x].is_free_alias
        BY DEF InfoInv, Borrowers
      <4>2. info[x].alias # info[i].alias
        BY <2>2, <3>2, <4>1 DEF InfoInv, AliasesOwned
      <4>. QED BY <3>2, <4>2 DEF InfoInv, TypeInfosTypeOK
    <3>. QED BY <1>6, <3>1, <3>2 DEF Destroy
  <2>. QED BY <2>1, <2>2, <2>3, NameStays
<1>. QED BY <1>1, <1>2, <1>3, <1>4, <1>5, <1>6 DEF TypeInfosNext
------------------------------------------------------------------------------
(***************************************************************************)
(* Callables.  That no array is read past its end needs lengths that fit an *)
(* int8 and are not negative; that a null array is only read after free()   *)
(* needs Hollow.                                                            *)
(***************************************************************************)
Lengths == \A c \in Callables : callable[c].length \in 0 .. 127
Unbuilt == \A c \in Callables : ~callable[c].built => callable[c].types = NoArray
Hollow == \A c \in Callables : callable[c].types = NoArray /\ callable[c].length # 0 => c \in spent

CallInv == CallablesTypeOK /\ Lengths /\ Unbuilt /\ ArraysOwned /\ Hollow /\ CallableFaults

CallableRecords == [built : BOOLEAN, types : Arrays \cup {NoArray}, length : -128 .. 127]

LEMMA CallInvInit == CallablesInit => CallInv
<1> SUFFICES ASSUME CallablesInit PROVE CallInv
  OBVIOUS
<1> USE CallablesAssumption
<1>1. /\ Raw \in CallableRecords /\ ~Raw.built /\ Raw.types = NoArray /\ Raw.length = 0
  BY DEF Raw, CallableRecords
<1>2. \A c \in Callables : callable[c] = Raw
  BY DEF CallablesInit
<1>3. CallablesTypeOK
  BY <1>1 DEF CallablesInit, CallablesTypeOK, CallableRecords
<1>4. Lengths /\ Unbuilt /\ Hollow
  BY <1>1, <1>2 DEF Lengths, Unbuilt, Hollow
<1>5. ArraysOwned
  BY <1>1, <1>2 DEF CallablesInit, ArraysOwned, Fresh
<1>6. CallableFaults
  BY DEF CallablesInit, CallableFaults
<1>. QED BY <1>3, <1>4, <1>5, <1>6 DEF CallInv

\* The kinds of a callable's fields.
LEMMA CallableFields ==
  ASSUME CallablesTypeOK, NEW c \in Callables
  PROVE  /\ callable[c] \in CallableRecords
         /\ callable[c].types \in Arrays \cup {NoArray} /\ callable[c].built \in BOOLEAN
  BY DEF CallablesTypeOK, CallableRecords

\* delete[] of a callable's own array, or of null, is right, and leaves every
\* other array as it was.
LEMMA OwnArray ==
  ASSUME CallInv, NEW c \in Callables
  PROVE  /\ Deletable(callable[c].types)
         /\ Deleted(callable[c].types) \in [Arrays -> {-1} \cup Nat]
         /\ \A a \in Arrays : Deleted(callable[c].types)[a] =
                               IF a = callable[c].types THEN -1 ELSE room[a]
         /\ Reads(callable[c].types, callable[c].length) \in {"none", "null_read"}
         /\ Reads(callable[c].types, callable[c].length) # "none" => spent # {}
<1>1. callable[c].length \in 0 .. 127
  BY DEF CallInv, Lengths
<1>2. callable[c].types # NoArray => room[callable[c].types] = callable[c].length
  BY DEF CallInv, ArraysOwned
<1>3. Deletable(callable[c].types)
  BY <1>1, <1>2 DEF Deletable, Fresh
<1>4. Deleted(callable[c].types) \in [Arrays -> {-1} \cup Nat]
  BY DEF Deleted, CallInv, CallablesTypeOK
<1>5. \A a \in Arrays : Deleted(callable[c].types)[a] = IF a = callable[c].types THEN -1 ELSE room[a]
  BY DEF Deleted
<1>6. Reads(callable[c].types, callable[c].length) \in {"none", "null_read"}
  BY <1>1, <1>2 DEF Reads
<1>7. Reads(callable[c].types, callable[c].length) # "none" => c \in spent
  BY <1>1, <1>2 DEF Reads, CallInv, Hollow
<1>. QED BY <1>3, <1>4, <1>5, <1>6, <1>7

\* A callable gives up its array for a new one of the right length.
LEMMA GiveKeeps ==
  ASSUME CallInv, call_fault = "none", NEW c \in Callables, NEW r \in CallableRecords,
         NEW a \in Arrays, r.types = a, r.built, r.length \in 0 .. 127,
         Deleted(callable[c].types)[a] = -1,
         callable' = [callable EXCEPT ![c] = r],
         room' = [Deleted(callable[c].types) EXCEPT ![a] = r.length],
         spent \ {c} \subseteq spent', spent' \subseteq spent,
         UNCHANGED <<leftover, call_fault>>
  PROVE  CallInv'
<1> USE CallablesAssumption
<1>1. callable'[c] = r /\ \A d \in Callables \ {c} : callable'[d] = callable[d]
  BY DEF CallInv, CallablesTypeOK
<1>2. /\ room' \in [Arrays -> {-1} \cup Nat] /\ room'[a] = r.length
      /\ \A b \in Arrays \ {a} : room'[b] = IF b = callable[c].types THEN -1 ELSE room[b]
  BY OwnArray
<1>3. CallablesTypeOK'
  BY <1>2 DEF CallInv, CallablesTypeOK, CallableRecords
<1>4. Lengths' /\ Unbuilt'
  BY <1>1 DEF CallInv, Lengths, Unbuilt
<1>5. Hollow'
  BY <1>1 DEF CallInv, Hollow
<1>6. \A d \in Callables \ {c} : callable[d].types \in Arrays =>
        callable[d].types # callable[c].types /\ callable[d].types # a
  <2> SUFFICES ASSUME NEW d \in Callables \ {c}, callable[d].types \in Arrays
               PROVE  callable[d].types # callable[c].types /\ callable[d].types # a
    OBVIOUS
  <2>1. callable[d].types # callable[c].types
    BY DEF CallInv, ArraysOwned
  <2>2. room[callable[d].types] \in 0 .. 127
    BY DEF CallInv, ArraysOwned, Lengths
  <2>3. Deleted(callable[c].types)[callable[d].types] = room[callable[d].types]
    BY <2>1, OwnArray
  <2>. QED BY <2>1, <2>2, <2>3
<1>7. ArraysOwned'
  <2>1. \A d \in Callables : callable'[d].types # NoArray => room'[callable'[d].types] = callable'[d].length
    <3> SUFFICES ASSUME NEW d \in Callables \ {c}, callable[d].types # NoArray
                 PROVE  room'[callable[d].types] = callable[d].length
      BY <1>1, <1>2
    <3>1. callable[d].types \in Arrays
      BY CallableFields DEF CallInv
    <3>. QED BY <3>1, <1>2, <1>6 DEF CallInv, ArraysOwned
  <2>2. \A d, e \in Callables : d # e /\ callable'[d].types = callable'[e].types => callable'[d].types = NoArray
    <3>1. \A d \in Callables \ {c} : callable[d].types # a
      BY <1>6
    <3>. QED BY <1>1, <3>1 DEF CallInv, ArraysOwned
  <2>3. \A b \in Arrays \ leftover : room'[b] # -1 => \E d \in Callables : callable'[d].types = b
    <3> SUFFICES ASSUME NEW b \in (Arrays \ leftover) \ {a}, room'[b] # -1
                 PROVE  \E d \in Callables \ {c} : callable[d].types = b
      BY <1>1
    <3>1. b # callable[c].types /\ room[b] # -1
      BY <1>2
    <3>. QED BY <3>1 DEF CallInv, ArraysOwned, Fresh
  <2>. QED BY <2>1, <2>2, <2>3 DEF ArraysOwned, Fresh
<1>8. CallableFaults'
  BY DEF CallableFaults
<1>. QED BY <1>3, <1>4, <1>5, <1>7, <1>8 DEF CallInv

\* A callable's array is deleted, and the callable points to nothing.
LEMMA DropKeeps ==
  ASSUME CallInv, call_fault = "none", NEW c \in Callables, NEW r \in CallableRecords,
         r.types = NoArray, r.length \in 0 .. 127, r.length # 0 => c \in spent',
         callable' = [callable EXCEPT ![c] = r],
         room' = Deleted(callable[c].types),
         spent \ {c} \subseteq spent', spent' \subseteq Callables,
         UNCHANGED <<leftover, call_fault>>
  PROVE  CallInv'
<1> USE CallablesAssumption
<1>1. callable'[c] = r /\ \A d \in Callables \ {c} : callable'[d] = callable[d]
  BY DEF CallInv, CallablesTypeOK
<1>2. /\ room' \in [Arrays -> {-1} \cup Nat]
      /\ \A b \in Arrays : room'[b] = IF b = callable[c].types THEN -1 ELSE room[b]
  BY OwnArray
<1>3. CallablesTypeOK'
  BY <1>2 DEF CallInv, CallablesTypeOK, CallableRecords
<1>4. Lengths' /\ Unbuilt' /\ Hollow'
  BY <1>1 DEF CallInv, Lengths, Unbuilt, Hollow
<1>5. ArraysOwned'
  <2>1. \A d \in Callables : callable'[d].types # NoArray => room'[callable'[d].types] = callable'[d].length
    <3> SUFFICES ASSUME NEW d \in Callables \ {c}, callable[d].types # NoArray
                 PROVE  room'[callable[d].types] = callable[d].length
      BY <1>1
    <3>1. callable[d].types \in Arrays /\ callable[d].types # callable[c].types
      BY CallableFields DEF CallInv, ArraysOwned
    <3>. QED BY <3>1, <1>2 DEF CallInv, ArraysOwned
  <2>2. \A d, e \in Callables : d # e /\ callable'[d].types = callable'[e].types => callable'[d].types = NoArray
    BY <1>1 DEF CallInv, ArraysOwned
  <2>3. \A b \in Arrays \ leftover : room'[b] # -1 => \E d \in Callables : callable'[d].types = b
    <3> SUFFICES ASSUME NEW b \in Arrays \ leftover, room'[b] # -1
                 PROVE  \E d \in Callables \ {c} : callable[d].types = b
      BY <1>1
    <3>1. b # callable[c].types /\ room[b] # -1
      BY <1>2
    <3>. QED BY <3>1 DEF CallInv, ArraysOwned, Fresh
  <2>. QED BY <2>1, <2>2, <2>3 DEF ArraysOwned, Fresh
<1>6. CallableFaults'
  BY DEF CallableFaults
<1>. QED BY <1>3, <1>4, <1>5, <1>6 DEF CallInv

\* The int8 cast of a count.
LEMMA Int8Range == \A n \in Nat : Int8(n) \in -128 .. 127
  BY DEF Int8

\* A failing operation leaves everything but the fault as it was.
LEMMA FailsKeeps ==
  ASSUME CallInv, spent # {}, Fails("null_read") PROVE CallInv'
  BY DEF Fails, CallInv, CallablesTypeOK, Lengths, Unbuilt, ArraysOwned, Fresh, Hollow, CallableFaults

\* No sequence of operations frees an array twice, reads past one's end or
\* loses one, and null is read only after free().
LEMMA CallInvStep == CallInv /\ CallablesNext => CallInv'
<1> SUFFICES ASSUME CallInv, CallablesNext PROVE CallInv'
  OBVIOUS
<1> USE CallablesAssumption
<1>0. call_fault = "none"
  BY DEF CallablesNext
<1>a. /\ callable \in [Callables -> CallableRecords] /\ room \in [Arrays -> {-1} \cup Nat]
      /\ spent \subseteq Callables
  BY DEF CallInv, CallablesTypeOK, CallableRecords
<1>1. ASSUME NEW c \in Callables, ~callable[c].built, NEW a \in Arrays, Fresh(a), NEW n \in 0 .. 127,
             room' = [room EXCEPT ![a] = n],
             callable' = [callable EXCEPT ![c] = [built |-> TRUE, types |-> a, length |-> n]],
             UNCHANGED <<leftover, spent, call_fault>>
      PROVE  CallInv'
  <2> DEFINE r == [built |-> TRUE, types |-> a, length |-> n]
  <2>1. r \in CallableRecords /\ r.types = a /\ r.built /\ r.length = n
    BY DEF CallableRecords
  <2>2. callable[c].types = NoArray
    BY <1>1 DEF CallInv, Unbuilt
  <2>3. Deleted(callable[c].types) = room
    BY <1>a, <2>2 DEF Deleted
  <2>4. room[a] = -1
    BY <1>1 DEF Fresh
  <2>5. callable' = [callable EXCEPT ![c] = r]
    BY <1>1
  <2> HIDE DEF r
  <2>. QED BY <1>0, <1>1, <2>1, <2>3, <2>4, <2>5, GiveKeeps
<1>2. ASSUME NEW c \in Callables, Adopt(c) PROVE CallInv'
  BY <1>1, <1>2 DEF Adopt
<1>3. ASSUME NEW c \in Callables, FromVector(c) PROVE CallInv'
  <2>1. PICK a \in Arrays : \E n \in Counts :
          /\ Fresh(a) /\ Int8(n) >= 0
          /\ room' = [room EXCEPT ![a] = Int8(n)]
          /\ \/ /\ callable' = [callable EXCEPT ![c] = [built |-> TRUE, types |-> a, length |-> Int8(n)]]
                /\ UNCHANGED leftover
             \/ /\ leftover' = leftover \cup {a} /\ UNCHANGED callable
    BY <1>3 DEF FromVector
  <2>2. PICK n \in Counts :
          /\ Fresh(a) /\ Int8(n) >= 0
          /\ room' = [room EXCEPT ![a] = Int8(n)]
          /\ \/ /\ callable' = [callable EXCEPT ![c] = [built |-> TRUE, types |-> a, length |-> Int8(n)]]
                /\ UNCHANGED leftover
             \/ /\ leftover' = leftover \cup {a} /\ UNCHANGED callable
    BY <2>1
  <2>3. Int8(n) \in 0 .. 127
    BY <2>2, Int8Range
  <2>4. ~callable[c].built /\ UNCHANGED <<spent, call_fault>>
    BY <1>3 DEF FromVector
  <2>5. CASE leftover' = leftover
             /\ callable' = [callable EXCEPT ![c] = [built |-> TRUE, types |-> a, length |-> Int8(n)]]
    BY <1>1, <2>2, <2>3, <2>4, <2>5
  <2>6. CASE leftover' = leftover \cup {a} /\ callable' = callable
    <3>1. room[a] = -1 /\ \A b \in Arrays \ {a} : room'[b] = room[b]
      BY <1>a, <2>2 DEF Fresh
    <3>2. CallablesTypeOK'
      BY <1>a, <2>2, <2>3, <2>4, <2>6 DEF CallInv, CallablesTypeOK, CallableRecords
    <3>3. Lengths' /\ Unbuilt' /\ Hollow' /\ CallableFaults'
      BY <2>4, <2>6 DEF CallInv, Lengths, Unbuilt, Hollow, CallableFaults
    <3>4. \A d \in Callables : callable[d].types # NoArray =>
             callable[d].types \in Arrays \ {a} /\ room'[callable[d].types] = callable[d].length
      <4> SUFFICES ASSUME NEW d \in Callables, callable[d].types # NoArray
                   PROVE  callable[d].types \in Arrays \ {a} /\ room'[callable[d].types] = callable[d].length
        OBVIOUS
      <4>1. callable[d].types \in Arrays
        BY CallableFields DEF CallInv
      <4>2. room[callable[d].types] = callable[d].length /\ callable[d].length \in 0 .. 127
        BY DEF CallInv, ArraysOwned, Lengths
      <4>. QED BY <3>1, <4>1, <4>2
    <3>5. ArraysOwned'
      BY <2>6, <3>1, <3>4 DEF CallInv, ArraysOwned, Fresh
    <3>. QED BY <3>2, <3>3, <3>5 DEF CallInv
  <2>. QED BY <2>2, <2>5, <2>6
<1>4. ASSUME NEW c \in Callables, NEW d \in Callables, CopyTypes(c, d) PROVE CallInv'
  <2>1. CASE Reads(callable[d].types, callable[d].length) # "none"
    <3>1. Reads(callable[d].types, callable[d].length) = "null_read" /\ spent # {}
      BY <2>1, OwnArray
    <3>2. Fails("null_read")
      BY <1>4, <2>1, <3>1, OwnArray DEF CopyTypes
    <3>. QED BY <3>1, <3>2, FailsKeeps
  <2>2. CASE Reads(callable[d].types, callable[d].length) = "none"
    <3>1. PICK a \in Arrays :
            /\ Deleted(callable[c].types)[a] = -1
            /\ room' = [Deleted(callable[c].types) EXCEPT ![a] = callable[d].length]
            /\ callable' = [callable EXCEPT ![c] = [callable[d] EXCEPT !.types = a]]
            /\ spent' = spent \ {c} /\ UNCHANGED <<leftover, call_fault>>
      BY <1>4, <2>2, OwnArray DEF CopyTypes
    <3> DEFINE r == [callable[d] EXCEPT !.types = a]
    <3>2. /\ r \in CallableRecords /\ r.types = a /\ r.built = callable[d].built
          /\ r.length = callable[d].length
      BY <1>a DEF CallableRecords
    <3>3. callable[d].built /\ callable[d].length \in 0 .. 127
      BY <1>4 DEF CopyTypes, CallInv, Lengths
    <3>4. callable' = [callable EXCEPT ![c] = r]
      BY <3>1
    <3> HIDE DEF r
    <3>. QED BY <1>0, <3>1, <3>2, <3>3, <3>4, GiveKeeps
  <2>. QED BY <2>1, <2>2
<1>5. ASSUME NEW c \in Callables, NEW d \in Callables, MoveTypes(c, d) PROVE CallInv'
  <2> DEFINE e == [Raw EXCEPT !.built = TRUE]
  <2>1. /\ c # d /\ callable[d].built /\ room' = Deleted(callable[c].types)
        /\ callable' = [callable EXCEPT ![c] = callable[d], ![d] = e]
        /\ spent' = IF d \in spent THEN (spent \cup {c}) \ {d} ELSE spent \ {c}
        /\ UNCHANGED <<leftover, call_fault>>
    BY <1>5, OwnArray DEF MoveTypes
  <2>2. e \in CallableRecords /\ e.types = NoArray /\ e.length = 0 /\ e.built
    <3>1. Raw \in CallableRecords /\ Raw.types = NoArray /\ Raw.length = 0
      <4>1. Raw = [built |-> FALSE, types |-> NoArray, length |-> 0]
        BY DEF Raw
      <4>. QED BY <4>1 DEF CallableRecords
    <3>. QED BY <3>1 DEF CallableRecords
  <2> HIDE DEF e
  <2>3. /\ callable'[c] = callable[d] /\ callable'[d] = e
        /\ \A x \in Callables \ {c, d} : callable'[x] = callable[x]
    BY <1>a, <2>1
  <2>4. /\ room' \in [Arrays -> {-1} \cup Nat]
        /\ \A b \in Arrays : room'[b] = IF b = callable[c].types THEN -1 ELSE room[b]
    BY <2>1, OwnArray
  <2>5. CallablesTypeOK'
    <3>1. callable' \in [Callables -> CallableRecords]
      BY <1>a, <2>1, <2>2
    <3>. QED BY <1>a, <2>1, <2>4, <3>1 DEF CallInv, CallablesTypeOK, CallableRecords
  <2>6. Lengths' /\ Unbuilt'
    <3>1. \A x \in Callables : callable'[x] = e \/ \E y \in Callables : callable'[x] = callable[y]
      BY <2>3
    <3>2. Lengths'
      BY <2>2, <3>1 DEF CallInv, Lengths
    <3>3. Unbuilt'
      BY <2>2, <3>1 DEF CallInv, Unbuilt
    <3>. QED BY <3>2, <3>3
  <2>7. Hollow'
    BY <2>1, <2>2, <2>3 DEF CallInv, Hollow
  <2>8. ArraysOwned'
    <3>1. \A x \in Callables : callable'[x].types # NoArray => room'[callable'[x].types] = callable'[x].length
      <4> DEFINE from(x) == IF x = c THEN d ELSE x
      <4> SUFFICES ASSUME NEW x \in Callables \ {d}, callable[from(x)].types # NoArray
                   PROVE  room'[callable[from(x)].types] = callable[from(x)].length
        BY <2>2, <2>3
      <4>1. from(x) \in Callables \ {c}
        BY <2>1
      <4> HIDE DEF from
      <4>2. callable[from(x)].types \in Arrays /\ callable[from(x)].types # callable[c].types
        BY <4>1, CallableFields DEF CallInv, ArraysOwned
      <4>. QED BY <4>1, <4>2, <2>4 DEF CallInv, ArraysOwned
    <3>2. \A x, y \in Callables : x # y /\ callable'[x].types = callable'[y].types => callable'[x].types = NoArray
      <4> DEFINE from(x) == IF x = c THEN d ELSE x
      <4> SUFFICES ASSUME NEW x \in Callables \ {d}, NEW y \in Callables \ {d}, x # y,
                          callable[from(x)].types = callable[from(y)].types
                   PROVE  callable[from(x)].types = NoArray
        BY <2>2, <2>3
      <4>1. from(x) \in Callables /\ from(y) \in Callables /\ from(x) # from(y)
        BY <2>1
      <4> HIDE DEF from
      <4>. QED BY <4>1 DEF CallInv, ArraysOwned
    <3>3. \A b \in Arrays \ leftover : room'[b] # -1 => \E x \in Callables : callable'[x].types = b
      <4> SUFFICES ASSUME NEW b \in Arrays \ leftover, room'[b] # -1
                   PROVE  \E x \in Callables : callable'[x].types = b
        OBVIOUS
      <4>1. b # callable[c].types /\ room[b] # -1
        BY <2>4
      <4>2. PICK x \in Callables \ {c} : callable[x].types = b
        BY <4>1 DEF CallInv, ArraysOwned, Fresh
      <4>3. callable'[IF x = d THEN c ELSE x].types = b
        BY <2>3, <4>2
      <4>. QED BY <4>3
    <3>. QED BY <2>1, <3>1, <3>2, <3>3 DEF ArraysOwned, Fresh
  <2>9. CallableFaults'
    BY <1>0, <2>1 DEF CallableFaults
  <2>. QED BY <2>5, <2>6, <2>7, <2>8, <2>9 DEF CallInv
<1>6. ASSUME NEW c \in Callables, NEW d \in Callables, Equal(c, d) PROVE CallInv'
  <2>1. PICK x \in {c, d} : /\ Reads(callable[x].types, callable[x].length) # "none"
                            /\ Fails(Reads(callable[x].types, callable[x].length))
    BY <1>6 DEF Equal
  <2>2. Reads(callable[x].types, callable[x].length) = "null_read" /\ spent # {}
    BY <2>1, OwnArray
  <2>. QED BY <2>1, <2>2, FailsKeeps
<1>7. ASSUME NEW c \in Callables, Free(c) PROVE CallInv'
  <2> DEFINE r == [callable[c] EXCEPT !.types = NoArray]
  <2>1. /\ room' = Deleted(callable[c].types)
        /\ callable' = [callable EXCEPT ![c] = r]
        /\ spent' = spent \cup {c} /\ UNCHANGED <<leftover, call_fault>>
    BY <1>a, <1>7, OwnArray DEF Free
  <2>2. r \in CallableRecords /\ r.types = NoArray /\ r.length = callable[c].length
    BY <1>a DEF CallableRecords
  <2>3. callable[c].length \in 0 .. 127
    BY DEF CallInv, Lengths
  <2> HIDE DEF r
  <2>. QED BY <1>0, <1>a, <2>1, <2>2, <2>3, DropKeeps
<1>8. ASSUME NEW c \in Callables, End(c) PROVE CallInv'
  <2>1. /\ room' = Deleted(callable[c].types)
        /\ callable' = [callable EXCEPT ![c] = Raw]
        /\ spent' = spent \ {c} /\ UNCHANGED <<leftover, call_fault>>
    BY <1>8, OwnArray DEF End
  <2>2. Raw \in CallableRecords /\ Raw.types = NoArray /\ Raw.length = 0
    <3>1. Raw = [built |-> FALSE, types |-> NoArray, length |-> 0]
      BY DEF Raw
    <3>. QED BY <3>1 DEF CallableRecords
  <2>3. Raw.length \in 0 .. 127 /\ spent \ {c} \subseteq spent' /\ spent' \subseteq Callables
    BY <1>a, <2>1, <2>2
  <2>. QED BY <1>0, <2>1, <2>2, <2>3, DropKeeps
<1>. QED BY <1>2, <1>3, <1>4, <1>5, <1>6, <1>7, <1>8 DEF CallablesNext
------------------------------------------------------------------------------
(***************************************************************************)
(* Xcalls.  MovesAreSafe and GuardsFree need only that no variable holds a  *)
(* function XLLR has not loaded yet.                                        *)
(***************************************************************************)
Known == \A x \in Places : slot[x] \in {NoXcall, Empty} \cup (1 .. loaded)
XInv == XcallsTypeOK /\ Known /\ MovesAreSafe /\ GuardsFree

LEMMA XInvInit == XcallsInit => XInv
  BY XcallsAssumption DEF XcallsInit, XInv, XcallsTypeOK, Known, MovesAreSafe, GuardsFree,
                          Fns, NoXcall, Empty, Places

\* The numbers of functions, apart from the two that are not.
LEMMA Numbers ==
  ASSUME XcallsTypeOK
  PROVE  /\ loaded \in Nat /\ loaded <= MaxFns /\ 1 .. loaded \subseteq Fns
         /\ NoXcall \notin Fns /\ Empty \notin Fns /\ NoXcall # Empty
  BY XcallsAssumption DEF XcallsTypeOK, Fns, NoXcall, Empty

\* A step that faults, with a fault that a copied function explains.
LEMMA XFaultKeeps ==
  ASSUME XInv, UNCHANGED <<slot, loaded, live, shared, strayed, kept>>,
         x_fault' \in {"wild_call", "null_call", "double_free", "null_throw"},
         x_fault' \in {"wild_call", "double_free"} => \E f \in shared : f \notin live
  PROVE  XInv'
  BY DEF XInv, XcallsTypeOK, Known, MovesAreSafe, GuardsFree

\* A variable x comes to hold f, which others may hold too only if it is shared
\* from now on; what x held is gone unless somebody else still holds it.
LEMMA OverwriteKeeps ==
  ASSUME XInv, x_fault = "none", NEW x \in Places, NEW f \in {Empty} \cup (1 .. loaded),
         slot' = [slot EXCEPT ![x] = f],
         f # Empty => f \in shared',
         shared \subseteq shared', shared' \subseteq Fns,
         strayed' = strayed \cup Gone(x, f), Sane
  PROVE  XInv'
<1>1. slot'[x] = f /\ \A y \in Places \ {x} : slot'[y] = slot[y]
  BY DEF XInv, XcallsTypeOK
<1>2. UNCHANGED <<loaded, live, kept, x_fault>>
  BY DEF Sane
<1>3. XcallsTypeOK' /\ Known'
  <2>1. f \in {Empty} \cup Fns
    BY Numbers DEF XInv
  <2>2. Gone(x, f) \subseteq Fns
    BY DEF Gone
  <2>3. XcallsTypeOK'
    BY <1>2, <2>1, <2>2 DEF XInv, XcallsTypeOK
  <2>. QED BY <1>1, <1>2, <2>3 DEF XInv, Known
<1>4. MovesAreSafe'
  <2>1. f \notin Fns \ shared'
    BY Numbers DEF XInv
  <2>. QED BY <1>1, <1>2, <2>1 DEF XInv, MovesAreSafe
<1>5. GuardsFree'
  <2> SUFFICES ASSUME NEW g \in live PROVE (\E y \in Places : slot'[y] = g) \/ g \in strayed' \cup kept'
    BY <1>2 DEF GuardsFree
  <2>1. CASE slot[x] = g
    <3>1. g \in Fns
      BY Numbers DEF XInv, XcallsTypeOK
    <3>. QED BY <1>1, <2>1, <3>1 DEF Gone
  <2>2. CASE slot[x] # g
    BY <1>1, <1>2, <2>2 DEF XInv, GuardsFree
  <2>. QED BY <2>1, <2>2
<1>. QED BY <1>3, <1>4, <1>5 DEF XInv

\* Loading a function into a guarded variable that points to none.
LEMMA LoadKeeps == ASSUME XInv, x_fault = "none", NEW g \in Guarded, Load(g) PROVE XInv'
<1> USE XcallsAssumption
<1>1. /\ slot[g] = NoXcall /\ loaded < MaxFns /\ loaded' = loaded + 1
      /\ live' = live \cup {loaded + 1} /\ slot' = [slot EXCEPT ![g] = loaded + 1]
      /\ UNCHANGED <<shared, strayed, kept, x_fault>>
  BY DEF Load
<1>2. g \in Places /\ slot'[g] = loaded + 1 /\ \A y \in Places \ {g} : slot'[y] = slot[y]
  BY <1>1 DEF XInv, XcallsTypeOK, Places
<1>3. /\ loaded \in Nat /\ loaded + 1 \in Fns /\ loaded + 1 \notin 1 .. loaded
      /\ 1 .. loaded \subseteq 1 .. (loaded + 1)
      /\ loaded + 1 \in 1 .. (loaded + 1) /\ loaded + 1 \in 0 .. MaxFns
  BY <1>1, Numbers DEF XInv, Fns
<1>4. XcallsTypeOK'
  BY <1>1, <1>3 DEF XInv, XcallsTypeOK
<1>5. Known'
  BY <1>1, <1>2, <1>3 DEF XInv, Known
<1>6. \A y \in Places : slot[y] # loaded + 1
  BY <1>3 DEF XInv, Known, NoXcall, Empty
<1>7. MovesAreSafe'
  BY <1>1, <1>2, <1>6 DEF XInv, MovesAreSafe
<1>8. GuardsFree'
  <2>1. \A f \in live : f # slot[g]
    BY <1>1, Numbers DEF XInv, XcallsTypeOK
  <2>. QED BY <1>1, <1>2, <2>1 DEF XInv, GuardsFree
<1>. QED BY <1>4, <1>5, <1>7, <1>8 DEF XInv

\* Whatever the host does with its xcalls, a function that was only moved is
\* held once and live, and guards lose none.
LEMMA XInvStep == XInv /\ x_fault = "none" /\ XcallsStep => XInv'
<1> SUFFICES ASSUME XInv, x_fault = "none", XcallsStep PROVE XInv'
  OBVIOUS
<1> USE XcallsAssumption
<1>a. \A x \in Places : There(x) => slot[x] \in {Empty} \cup (1 .. loaded)
  BY DEF XInv, Known, There
<1>b. 1 .. loaded \subseteq Fns /\ Empty \notin Fns
  BY Numbers DEF XInv
<1>c. shared \subseteq Fns
  BY DEF XInv, XcallsTypeOK
<1>1. ASSUME NEW x \in Places, Call(x) PROVE XInv'
  <2>1. slot[x] \in Fns /\ slot[x] \notin live
    BY <1>1, <1>a, <1>b DEF Call
  <2>2. slot[x] \in shared
    BY <2>1 DEF XInv, MovesAreSafe
  <2>. QED BY <1>1, <2>1, <2>2, XFaultKeeps DEF Call, Faults
<1>2. ASSUME NEW x \in Places, CallThrowing(x) \/ CallFromC(x) PROVE XInv'
  BY <1>2, XFaultKeeps DEF CallThrowing, CallFromC, Faults
<1>3. ASSUME NEW x \in Places, NEW y \in Places, CopyXcall(x, y) PROVE XInv'
  <2>1. slot[y] \in {Empty} \cup (1 .. loaded)
    BY <1>3, <1>a DEF CopyXcall
  <2>2. shared' = shared \cup ({slot[y]} \ {Empty})
    BY <1>3 DEF CopyXcall
  <2>3. (slot[y] # Empty => slot[y] \in shared') /\ shared \subseteq shared' /\ shared' \subseteq Fns
    BY <1>b, <1>c, <2>1, <2>2
  <2>. QED BY <1>3, <2>1, <2>3, OverwriteKeeps DEF CopyXcall
<1>4. ASSUME NEW x \in Places, NEW y \in Places, MoveXcall(x, y) PROVE XInv'
  <2>1. /\ x # y /\ slot[x] \in {Empty} \cup (1 .. loaded) /\ slot[y] \in {Empty} \cup (1 .. loaded)
        /\ slot' = [slot EXCEPT ![x] = slot[y], ![y] = Empty]
        /\ strayed' = strayed \cup Gone(x, slot[y]) \cup ({slot[y]} \ {Empty})
        /\ UNCHANGED <<shared, loaded, live, kept, x_fault>>
    BY <1>4, <1>a DEF MoveXcall, Sane
  <2>2. /\ slot'[x] = slot[y] /\ slot'[y] = Empty
        /\ \A z \in Places \ {x, y} : slot'[z] = slot[z]
    BY <2>1 DEF XInv, XcallsTypeOK
  <2>3. Gone(x, slot[y]) \cup ({slot[y]} \ {Empty}) \subseteq Fns
    BY <1>b, <2>1 DEF Gone
  <2>4. XcallsTypeOK'
    BY <1>b, <2>1, <2>3 DEF XInv, XcallsTypeOK
  <2>5. Known'
    BY <2>1, <2>2 DEF XInv, Known
  <2>6. MovesAreSafe'
    <3> DEFINE from(z) == IF z = x THEN y ELSE z
    <3>1. \A z \in Places : slot'[z] \in Fns => z # y /\ slot'[z] = slot[from(z)]
      BY <1>b, <2>2
    <3>2. \A z, w \in Places : z # y /\ w # y /\ z # w => from(z) # from(w)
      BY <2>1
    <3>3. \A z \in Places : from(z) \in Places
      OBVIOUS
    <3> HIDE DEF from
    <3>4. \A z, w \in Places : slot'[z] \in Fns \ shared /\ z # w => slot'[z] # slot'[w]
      BY <3>1, <3>2, <3>3 DEF XInv, MovesAreSafe
    <3>5. \A z \in Places : slot'[z] \in Fns \ shared => slot'[z] \in live
      BY <3>1, <3>3 DEF XInv, MovesAreSafe
    <3>. QED BY <2>1, <3>4, <3>5 DEF XInv, MovesAreSafe
  <2>7. GuardsFree'
    <3> SUFFICES ASSUME NEW g \in live PROVE (\E z \in Places : slot'[z] = g) \/ g \in strayed' \cup kept
      BY <2>1 DEF GuardsFree
    <3>1. g \in Fns /\ g # Empty
      BY <1>b DEF XInv, XcallsTypeOK
    <3>2. CASE slot[x] = g \/ slot[y] = g
      BY <2>1, <3>1, <3>2 DEF Gone
    <3>3. CASE slot[x] # g /\ slot[y] # g
      BY <2>1, <2>2, <3>3 DEF XInv, GuardsFree
    <3>. QED BY <3>2, <3>3
  <2>. QED BY <2>4, <2>5, <2>6, <2>7 DEF XInv
<1>5. ASSUME NEW v \in Values, Construct(v) PROVE XInv'
  <2>1. PICK f \in 0 .. loaded : /\ slot' = [slot EXCEPT ![v] = f]
                                 /\ shared' = shared \cup ({f} \ {Empty})
                                 /\ strayed' = strayed \cup Gone(v, f)
    BY <1>5 DEF Construct
  <2>2. v \in Places /\ f \in {Empty} \cup (1 .. loaded)
    BY Numbers DEF Places, Empty, XInv
  <2>3. (f # Empty => f \in shared') /\ shared \subseteq shared' /\ shared' \subseteq Fns
    BY <1>b, <1>c, <2>1, <2>2
  <2>. QED BY <1>5, <2>1, <2>2, <2>3, OverwriteKeeps DEF Construct
<1>6. ASSUME NEW v \in Values, Drop(v) PROVE XInv'
  <2>1. v \in Places
    BY DEF Places
  <2>. QED BY <1>6, <1>c, <2>1, OverwriteKeeps DEF Drop
<1>7. ASSUME NEW g \in Guarded, Guard(g) PROVE XInv'
  <2>1. g \in Places /\ slot[g] \in 1 .. loaded /\ slot[g] \in Fns
        /\ UNCHANGED <<loaded, shared, strayed>>
    BY <1>7, <1>a, <1>b DEF Guard, Places
  <2>2. CASE /\ slot[g] \in live /\ live' = live \ {slot[g]}
             /\ slot' = [slot EXCEPT ![g] = NoXcall] /\ UNCHANGED <<kept, x_fault>>
    <3>1. slot'[g] = NoXcall /\ \A y \in Places \ {g} : slot'[y] = slot[y]
      BY <2>1, <2>2 DEF XInv, XcallsTypeOK
    <3>2. NoXcall \notin Fns
      BY Numbers DEF XInv
    <3>3. XcallsTypeOK' /\ Known'
      BY <2>1, <2>2, <3>1 DEF XInv, XcallsTypeOK, Known
    <3>4. MovesAreSafe'
      BY <2>1, <2>2, <3>1, <3>2 DEF XInv, MovesAreSafe
    <3>5. GuardsFree'
      BY <2>1, <2>2, <3>1 DEF XInv, GuardsFree
    <3>. QED BY <3>3, <3>4, <3>5 DEF XInv
  <2>3. CASE /\ slot[g] \notin live /\ x_fault' = "double_free" /\ UNCHANGED <<slot, live, kept>>
    <3>1. slot[g] \in shared
      BY <2>1, <2>3 DEF XInv, MovesAreSafe
    <3>. QED BY <2>1, <2>3, <3>1, XFaultKeeps
  <2>4. CASE /\ kept' = kept \cup {slot[g]}
             /\ slot' \in {slot, [slot EXCEPT ![g] = NoXcall]} /\ UNCHANGED <<live, x_fault>>
    <3>1. /\ slot'[g] \in {slot[g], NoXcall} /\ \A y \in Places \ {g} : slot'[y] = slot[y]
          /\ slot' \in [Places -> {NoXcall, Empty} \cup Fns]
      BY <2>1, <2>4 DEF XInv, XcallsTypeOK
    <3>2. NoXcall \notin Fns
      BY Numbers DEF XInv
    <3>3. XcallsTypeOK' /\ Known'
      BY <2>1, <2>4, <3>1 DEF XInv, XcallsTypeOK, Known
    <3>4. MovesAreSafe'
      BY <2>1, <2>4, <3>1, <3>2 DEF XInv, MovesAreSafe
    <3>5. GuardsFree'
      BY <2>1, <2>4, <3>1 DEF XInv, GuardsFree
    <3>. QED BY <3>3, <3>4, <3>5 DEF XInv
  <2>. QED BY <1>7, <2>2, <2>3, <2>4 DEF Guard
<1>. QED BY <1>1, <1>2, <1>3, <1>4, <1>5, <1>6, <1>7 DEF XcallsStep
------------------------------------------------------------------------------
(***************************************************************************)
(* The whole system.                                                        *)
(***************************************************************************)
IInv == InfoInv /\ CallInv /\ XInv

\* Each invariant speaks of the variables of its own module only.
LEMMA InfoInvStays == InfoInv /\ UNCHANGED infoVars => InfoInv'
  BY DEF infoVars, InfoInv, TypeInfosTypeOK, Shaped, AliasesOwned, Borrowers, InfoFaults, Dangling
LEMMA CallInvStays == CallInv /\ UNCHANGED callableVars => CallInv'
  BY DEF callableVars, CallInv, CallablesTypeOK, Lengths, Unbuilt, ArraysOwned, Fresh, Hollow, CallableFaults
LEMMA XInvStays == XInv /\ UNCHANGED xcallVars => XInv'
  BY DEF xcallVars, XInv, XcallsTypeOK, Known, MovesAreSafe, GuardsFree

\* The invariant is inductive.
LEMMA IInvStep == IInv /\ [Next]_vars => IInv'
<1> SUFFICES ASSUME IInv, [Next]_vars PROVE IInv'
  OBVIOUS
<1>1. CASE Running /\ InfoStep
  <2>1. InfoInv'
    BY <1>1, InfoInvStep DEF IInv, InfoStep
  <2>. QED BY <1>1, <2>1, CallInvStays, XInvStays DEF IInv, InfoStep
<1>2. CASE Running /\ CallableStep
  <2>1. CallInv'
    BY <1>2, CallInvStep DEF IInv, CallableStep
  <2>. QED BY <1>2, <2>1, InfoInvStays, XInvStays DEF IInv, CallableStep
<1>3. CASE Running /\ XcallStep
  <2>1. XInv'
    BY <1>3, XInvStep DEF IInv, XcallStep, Running
  <2>. QED BY <1>3, <2>1, InfoInvStays, CallInvStays DEF IInv, XcallStep
<1>4. ASSUME Running, NEW g \in Guarded, LoadEntity(g) PROVE IInv'
  <2>1. InfoInv'
    BY <1>4, InfoInvLoad DEF IInv
  <2>2. CallInv'
    BY <1>4, CallInvStays DEF IInv, LoadEntity
  <2>3. Load(g) \/ UNCHANGED xcallVars
    BY <1>4 DEF LoadEntity
  <2>4. XInv'
    BY <1>4, <2>3, LoadKeeps, XInvStays DEF IInv, Running
  <2>. QED BY <2>1, <2>2, <2>4 DEF IInv
<1>5. CASE UNCHANGED vars
  BY <1>5, InfoInvStays, CallInvStays, XInvStays DEF IInv, vars
<1>. QED BY <1>1, <1>2, <1>3, <1>4, <1>5 DEF Next

\* It holds in every state of every host.
THEOREM HostCallsInvariant == Spec => []IInv
<1>1. Init => IInv
  BY InfoInvInit, CallInvInit, XInvInit DEF Init, IInv
<1>. QED BY <1>1, IInvStep, PTL DEF Spec

\* Variables keep the types the headers give them.
THEOREM TypeCorrect == Spec => []TypeOK
<1>1. IInv => TypeOK
  BY DEF IInv, InfoInv, CallInv, XInv, TypeOK
<1>. QED BY <1>1, HostCallsInvariant, PTL

\* Every alias a type information will free is a live string of its own
\* (metaffi_primitives.h:268-340).
THEOREM InfosOwnTheirAliases == Spec => []AliasesOwned
<1>1. IInv => AliasesOwned
  BY DEF IInv, InfoInv
<1>. QED BY <1>1, HostCallsInvariant, PTL

\* Every type array belongs to one callable, which knows its length
\* (metaffi_primitives.h:369-474).
THEOREM CallablesOwnTheirArrays == Spec => []ArraysOwned
<1>1. IInv => ArraysOwned
  BY DEF IInv, CallInv
<1>. QED BY <1>1, HostCallsInvariant, PTL

\* A function that was only moved is held once, and live (xcall.h:90-101).
THEOREM MovedXcallsAreLive == Spec => []MovesAreSafe
<1>1. IInv => MovesAreSafe
  BY DEF IInv, XInv
<1>. QED BY <1>1, HostCallsInvariant, PTL

\* A scope guard frees what its variable held (xcall.h:18-32).
THEOREM GuardsSuffice == Spec => []GuardsFree
<1>1. IInv => GuardsFree
  BY DEF IInv, XInv
<1>. QED BY <1>1, HostCallsInvariant, PTL

\* Each way a host can fault has its cause.
THEOREM FaultsHaveCauses == Spec => []FaultsExplained
<1>1. IInv => FaultsExplained
  <2> SUFFICES ASSUME IInv PROVE FaultsExplained
    OBVIOUS
  <2>1. x_fault \in {"none", "null_throw", "null_call"} \/ shared # {}
    BY DEF IInv, XInv, XcallsTypeOK, MovesAreSafe
  <2>. QED BY <2>1 DEF IInv, InfoInv, InfoFaults, CallInv, FaultsExplained
<1>. QED BY <1>1, HostCallsInvariant, PTL

\* Strings are lost by giving their owner another alias, and no other way
\* (metaffi_primitives.h:290-317).
THEOREM LossesAreOverwrites == Spec => LostByOverwrite
<1> DEFINE Explained == \A a \in Lost' \ Lost : LossIsOverwrite(a)
<1>1. IInv /\ [Next]_vars => Explained \/ UNCHANGED infoVars
  <2> SUFFICES ASSUME IInv, [Next]_vars PROVE Explained \/ UNCHANGED infoVars
    OBVIOUS
  <2>1. CASE InfoStep
    BY <2>1, LostStep DEF IInv, InfoStep
  <2>2. CASE CallableStep \/ XcallStep \/ UNCHANGED vars
    BY <2>2 DEF CallableStep, XcallStep, vars
  <2>3. ASSUME NEW g \in Guarded, LoadEntity(g) PROVE UNCHANGED <<info, heap>>
    BY <2>3 DEF LoadEntity, infoVars
  <2>4. UNCHANGED <<info, heap>> => Explained
    BY DEF Lost
  <2> HIDE DEF Explained
  <2>. QED BY <2>1, <2>2, <2>3, <2>4 DEF Next
<1>2. Explained => \A a \in Lost' \ Lost : \E k \in Infos :
                     /\ info[k].is_free_alias /\ info[k].alias = a
                     /\ info'[k].built /\ ~Taken(a)
  BY DEF LossIsOverwrite
<1> HIDE DEF Explained
<1>. QED BY <1>1, <1>2, HostCallsInvariant, PTL DEF Spec, LostByOverwrite

\* An info gets the alias of another type only where one without alias is
\* assigned over it, or from an info that has one already
\* (metaffi_primitives.h:290-317).
THEOREM MisnamingIsByAssignment == Spec => MisnamedByAssign
<1> DEFINE Explained == \A i \in Infos : borrowed = {} /\ ~Misnamed(i) /\ Misnamed(i)' => MisnameExplained(i)
<1>1. IInv /\ [Next]_vars => Explained
  <2> SUFFICES ASSUME IInv, [Next]_vars, NEW i \in Infos, borrowed = {}, ~Misnamed(i), Misnamed(i)'
               PROVE  MisnameExplained(i)
    OBVIOUS
  <2>1. CASE InfoStep
    BY <2>1, MisnamedStep DEF IInv, InfoStep
  <2>2. UNCHANGED <<info, heap>> => FALSE
    BY DEF Misnamed, Text
  <2>3. CASE CallableStep \/ XcallStep \/ UNCHANGED vars
    BY <2>2, <2>3 DEF CallableStep, XcallStep, vars, infoVars
  <2>4. ASSUME NEW g \in Guarded, LoadEntity(g) PROVE UNCHANGED <<info, heap>>
    BY <2>4 DEF LoadEntity, infoVars
  <2>. QED BY <2>1, <2>2, <2>3, <2>4 DEF Next
<1>2. Explained => \A i \in Infos : borrowed = {} /\ ~Misnamed(i) /\ Misnamed(i)' =>
                     \E j \in Infos \ {i} : info'[i].type = info[j].type
                                           /\ ((info[j].alias = Null /\ info[i].built) \/ Misnamed(j))
  BY DEF MisnameExplained
<1> HIDE DEF Explained
<1>. QED BY <1>1, <1>2, HostCallsInvariant, PTL DEF Spec, MisnamedByAssign
==============================================================================
