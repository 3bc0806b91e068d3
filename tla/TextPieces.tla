------------------------------ MODULE TextPieces ------------------------------
(***************************************************************************)
(* Text as a sequence of pieces, a separator being a piece of its own; how  *)
(* boost::split, strings.Split and filepath.SplitList cut it, and how the   *)
(* writers of entity paths and options put it together.                     *)
(***************************************************************************)
EXTENDS Integers, Sequences, SequencesExt

\* Always at least one part; parts may be empty.
Split(s, sep) ==
  FoldLeft(LAMBDA parts, t : IF t = sep THEN Append(parts, << >>)
                             ELSE [parts EXCEPT ![Len(parts)] = Append(@, t)],
           << << >> >>, s)

\* Drops empty parts, as filepath.Join does; the items of Pairs never are.
Join(parts, sep) ==
  FoldLeft(LAMBDA s, p : IF p = << >> THEN s ELSE IF s = << >> THEN p ELSE s \o <<sep>> \o p,
           << >>, parts)

\* key=value,key=value for a function from keys to texts, in one order.
Pairs(m) ==
  LET keys == SetToSeq(DOMAIN m)
  IN Join([i \in 1 .. Len(keys) |-> <<keys[i], "=">> \o m[keys[i]]], ",")

\* Where a map that is filled from items, each a key and more, has its key from.
LastWith(items, k) ==
  CHOOSE i \in DOMAIN items : /\ items[i][1] = k
                              /\ \A j \in DOMAIN items : j > i => items[j][1] # k
==============================================================================
