---------------------------- MODULE ListPrograms ----------------------------
(***************************************************************************)
(* The programs that keep a list in raw memory and print it: one is        *)
(* started, and for grab_umount_list and sulog_test the rest of the phone  *)
(* goes on changing the kernel's list meanwhile.                           *)
(***************************************************************************)
EXTENDS UmountList, Sulog, HashTable

VARIABLE prog

vars == <<prog, umountVars, sulogVars, hashVars>>

\* The state of a program that is not started does not matter.
Init ==
    /\ prog \in {"grab_umount_list", "sulog_test", "hashing"}
    /\ UmountInit /\ SulogInit /\ HashInit
    /\ prog # "grab_umount_list" => list = <<>> /\ mem[1] = Nul
    /\ prog # "hashing" => argument = "none" /\ \A w \in Words : hash_of[w] = 0

Program ==
    \/ /\ prog = "grab_umount_list"
       /\ UmountProgram
       /\ UNCHANGED <<prog, sulogVars, hashVars>>
    \/ /\ prog = "sulog_test"
       /\ SulogProgram
       /\ UNCHANGED <<prog, umountVars, hashVars>>
    \/ /\ prog = "hashing"
       /\ HashProgram
       /\ UNCHANGED <<prog, umountVars, sulogVars>>

Others ==
    \/ /\ prog = "grab_umount_list"
       /\ ListChanges
       /\ UNCHANGED <<prog, sulogVars, hashVars>>
    \/ /\ prog = "sulog_test"
       /\ SuIsCalled
       /\ UNCHANGED <<prog, umountVars, hashVars>>

Next == Program \/ Others

\* The program is scheduled; nothing is assumed of the others.
Spec == Init /\ [][Next]_vars /\ WF_vars(Program)

(***************************************************************************)
(* Properties.                                                             *)
(***************************************************************************)

\* Each program comes to its end: the walk through the strings finds the empty
\* one, however the list changed; the ring has been printed; the lookup is done
\* or has read a null table.
ListProgramEnds ==
    <>CASE prog = "grab_umount_list" -> exit # "none"
        [] prog = "sulog_test" -> sulog_pc = "done"
        [] prog = "hashing" -> hash_pc = "done"

=============================================================================
