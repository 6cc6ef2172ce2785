--------------------------- MODULE MCListPrograms ---------------------------
(***************************************************************************)
(* Strings of one and of two letters, lists of up to three of them, two    *)
(* changes; a ring of three slots that is filled twice; four words of      *)
(* which one is inserted twice, with two hashes and 0 between them.        *)
(***************************************************************************)
EXTENDS ListPrograms

MCStrings == {<<"a">>, <<"b", "b">>}
MCInserts == <<"abcd", "efgh", "ijkl", "ijkl", "mnop">>
MCOtherWords == {"klmn"}
MCHashes == {0, 1, 2}

=============================================================================
