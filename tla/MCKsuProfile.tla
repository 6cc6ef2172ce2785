---------------------------- MODULE MCKsuProfile ----------------------------
(***************************************************************************)
(* Two invocations of the tool, every pair of commands, one app and one    *)
(* system uid, against a manager app that writes three kinds of profile    *)
(* and a kernel that prunes the profile when the app is uninstalled.       *)
(***************************************************************************)
EXTENDS KsuProfile

Cmd(op, uid, key, one, num) == [op |-> op, uid |-> uid, key |-> key, one |-> one, num |-> num]

MCCommands ==
    {Cmd("help", 10000, "", FALSE, 0),
     Cmd("getuidinfo", 10000, "", FALSE, 0),
     Cmd("setumount", 10000, "", TRUE, 1),      \* --setumount 10000 1
     Cmd("setumount", 10000, "", FALSE, 0),     \* --setumount 10000 0
     Cmd("setumount", 10000, "", FALSE, 2),     \* --setumount 10000 2
     Cmd("create", 10000, "chrome", FALSE, 0),
     Cmd("create", 10000, "", FALSE, 0),        \* --create 10000 ""
     Cmd("create", 2000, "shell", FALSE, 0),
     Cmd("setroot", 10000, "", TRUE, 1),
     Cmd("setroot", 10000, "", FALSE, 0)}

MCProfile(allow_su, use_default, second) ==
    [key |-> "chrome", allow_su |-> allow_su, use_default |-> use_default,
     second |-> second, ksu_domain |-> FALSE]

\* No root and umount, root by default, root by a named template.
MCManagerProfiles ==
    {MCProfile(FALSE, FALSE, 1), MCProfile(TRUE, TRUE, 0), MCProfile(TRUE, FALSE, 2)}

=============================================================================
