----------------------------- MODULE MCIdlKeywords -----------------------------
(***************************************************************************)
(* IdlKeywords for TLC: two plugins that append underscores, one of whose   *)
(* keywords is what the other makes of its own, and a mapping.              *)
(***************************************************************************)
EXTENDS IdlKeywords

MCNames == {"k", "k_", "k__", "r"}
Underscored == [k |-> "k_", k_ |-> "k__", k__ |-> "k__", r |-> "r"]

MCModifying == {[keywords |-> {"k"}, modify |-> Underscored],
                [keywords |-> {"k_"}, modify |-> Underscored]}
MCReplacing == {[keywords |-> {"k"}, modify |-> [n \in MCNames |-> "r"]]}
NoWords == {}
================================================================================
