--------------------------- MODULE MCCompilerPlugin ---------------------------
(***************************************************************************)
(* CompilerPlugin for TLC: a path of each kind filepath.SplitList tells     *)
(* apart, and values of options with and without the separators.            *)
(***************************************************************************)
EXTENDS CompilerPlugin

MCPaths == {<< >>, <<"d">>, <<"d", "/", "f">>, <<"d", ":", "f">>, <<"d", ":", "e", ":", "f">>, <<"d", ":">>}

Texts == {<< >>, <<"x">>, <<"x", "=", "y">>, <<"x", ",", "y">>, <<"x", ",", "l", "=", "y">>}
MCOptions == {<< >>} \cup [{"k"} -> Texts] \cup {[k |-> t, l |-> <<"z">>] : t \in Texts}
==============================================================================
