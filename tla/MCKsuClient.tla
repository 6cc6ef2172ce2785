---------------------------- MODULE MCKsuClient ----------------------------
(***************************************************************************)
(* No, one, two and three arguments, the name from /data or elsewhere, no, *)
(* one and two environment strings; a compiler with one callee-saved and   *)
(* the three registers the x86_64 wrapper itself writes.                   *)
(***************************************************************************)
EXTENDS KsuClient

MCArgLists == {<<>>, <<"x">>, <<"/data">>, <<"x", "y">>, <<"/data", "y", "z">>, <<"x", "y", "z">>}
MCEnvLists == {<<>>, <<"E1">>, <<"E1", "E2">>}
MCFreeRegs == {"rbx", "r8", "r9", "r10"}

=============================================================================
