----------------------------- MODULE KsuProfile -----------------------------
(***************************************************************************)
(* kernelsu/ksu_uapi/profile.c: a command line tool that reads and writes  *)
(* KernelSU's app profiles by ioctl.  --setumount and --setroot read the   *)
(* whole profile, change a field of their copy and write the copy back;    *)
(* nothing keeps another invocation, the manager app, or the kernel, which *)
(* prunes the profiles of uninstalled apps, from writing in between.       *)
(*                                                                         *)
(* One step of a process is the code from one access to shared kernel      *)
(* state up to the next.  The kernel's side (the profile store, the        *)
(* manager's uid, the permission check of the ioctls) and the manager app  *)
(* are not in the repository and are modelled from how the tool uses them. *)
(*                                                                         *)
(* The union in struct app_profile is kept as its bytes: rp_config and     *)
(* nrp_config share the first (use_default); the second is umount_modules  *)
(* of the one and template_name[0] of the other.                           *)
(***************************************************************************)
EXTENDS Integers

CONSTANTS
    Proc,        \* invocations of the tool
    Commands,    \* command lines: [op, uid, key, one, num], uid for atoi(argv[2]),
                 \* key, one and num for argv[3], argv[3][0] == '1' and atoi(argv[3])
    Keys,        \* package names
    Managers,    \* uids the manager app may have
    ManagerProfiles,    \* profiles the manager app writes
    None         \* no profile stored

Ops == {"help", "getuidinfo", "setumount", "create", "setroot"}
Uids == {c.uid : c \in Commands}

Byte == 0 .. 2    \* false, true, and any other character

NoKey == ""

Profile == [key : Keys \cup {NoKey}, allow_su : BOOLEAN, use_default : BOOLEAN, second : Byte, ksu_domain : BOOLEAN]

ASSUME CommandsAssumption ==
    Commands \subseteq [op : Ops, uid : Int, key : Keys \cup {NoKey}, one : BOOLEAN, num : Int]
ASSUME NoneAssumption == None \notin Profile
ASSUME ManagerProfilesAssumption == ManagerProfiles \subseteq Profile
ASSUME ManagersAssumption == Managers \subseteq Nat \ {0}

NoManager == 0

VARIABLES
    ksu,        \* which GET_INFO the kernel answers: "current", "legacy" or "absent"
    manager,    \* uid of the installed manager app, or NoManager
    store,      \* the kernel's profiles, by uid
    pruned,     \* history: the profile a process is about to write has been
                \* pruned since the process got its copy
    cmd,        \* the command line of a process
    pc,
    euid,       \* 0 before setuid(cmd.uid)
    profile,    \* the process's copy
    says        \* its last message: None, "usage", "info", an error or a success

vars == <<ksu, manager, store, pruned, cmd, pc, euid, profile, says>>
shared == <<ksu, manager, store, pruned>>

Errors == {"need_root", "no_fd", "not_installed", "too_old", "no_manager", "bad_uid",
           "setuid_fail", "no_profile", "umount_nono", "set_fail"}
Successes == {"usage", "info", "umount_set_0", "umount_set_1", "created", "root_set"}
PCs == {"start", "get_info", "get_manager", "get_profile", "set_profile", "exit"}

\* struct app_profile profile = { 0 }
ZeroProfile ==
    [key |-> NoKey, allow_su |-> FALSE, use_default |-> FALSE, second |-> 0, ksu_domain |-> FALSE]

Init ==
    /\ ksu \in {"current", "legacy", "absent"}
    /\ manager \in Managers \cup {NoManager}
    /\ store \in [Uids -> {None}]
    /\ pruned = [p \in Proc |-> FALSE]
    /\ cmd \in [Proc -> Commands]
    /\ pc = [p \in Proc |-> "start"]
    /\ euid = [p \in Proc |-> 0]
    /\ profile = [p \in Proc |-> ZeroProfile]
    /\ says = [p \in Proc |-> None]

Exit(p, message) ==
    /\ pc' = [pc EXCEPT ![p] = "exit"]
    /\ says' = [says EXCEPT ![p] = message]

Goto(p, label) ==
    /\ pc' = [pc EXCEPT ![p] = label]
    /\ UNCHANGED says

(***************************************************************************)
(* main up to the dispatch.                                                *)
(***************************************************************************)

\* Not started by root, or the reboot call left fd at 0.
OpenFails(p) ==
    /\ pc[p] = "start"
    /\ \/ Exit(p, "need_root")
       \/ ksu = "absent" /\ Exit(p, "no_fd")
    /\ UNCHANGED <<shared, cmd, euid, profile>>

Open(p) ==
    /\ pc[p] = "start"
    /\ ksu # "absent"
    /\ Goto(p, "get_info")
    /\ UNCHANGED <<shared, cmd, euid, profile>>

\* The legacy request is passed where the file descriptor belongs: the call
\* fails with EBADF on every kernel.
LegacyInfoAnswered == FALSE

GetInfoFails(p) ==
    /\ pc[p] = "get_info"
    /\ ksu # "current"
    /\ Exit(p, IF LegacyInfoAnswered THEN "too_old" ELSE "not_installed")
    /\ UNCHANGED <<shared, cmd, euid, profile>>

Dispatch(p) ==
    /\ pc[p] = "get_info"
    /\ ksu = "current"
    /\ IF cmd[p].op = "help" THEN Exit(p, "usage") ELSE Goto(p, "get_manager")
    /\ UNCHANGED <<shared, cmd, euid, profile>>

(***************************************************************************)
(* The four commands.  All begin with GET_MANAGER_UID, the check of the    *)
(* uid and setuid.                                                         *)
(***************************************************************************)

\* Mutant: the uid check of one branch forgotten.
GoodUidButCreate(c) == c.uid >= 10000 \/ c.op = "create"

GoodUid(c) == c.uid >= 10000

\* What --create writes: a fresh profile, whatever is stored.
NewProfile(c) ==
    [key |-> c.key, allow_su |-> FALSE, use_default |-> TRUE, second |-> 0, ksu_domain |-> FALSE]

\* The ioctl fails or gives no uid, the uid is bad, or setuid fails.
GetManagerFails(p) ==
    /\ pc[p] = "get_manager"
    /\ \/ Exit(p, "no_manager")
       \/ manager # NoManager /\ ~GoodUid(cmd[p]) /\ Exit(p, "bad_uid")
       \/ manager # NoManager /\ GoodUid(cmd[p]) /\ Exit(p, "setuid_fail")
    /\ UNCHANGED <<shared, cmd, euid, profile>>

BecomeManager(p) ==
    /\ pc[p] = "get_manager"
    /\ manager # NoManager
    /\ GoodUid(cmd[p])
    /\ euid' = [euid EXCEPT ![p] = manager]
    /\ IF cmd[p].op = "create"
       THEN /\ profile' = [profile EXCEPT ![p] = NewProfile(cmd[p])]
            /\ Goto(p, "set_profile")
       ELSE /\ UNCHANGED profile
            /\ Goto(p, "get_profile")
    /\ UNCHANGED <<shared, cmd>>

\* The kernel answers profile ioctls of the manager only.
Permitted(p) == euid[p] = manager

\* What GET_APP_PROFILE leaves in the process's copy when it returns 0.
Answer(p) == IF store[cmd[p].uid] = None THEN profile[p] ELSE store[cmd[p].uid]

\* Mutant: a return value of 0 is taken for a profile.
AnyAnswer(prof) == TRUE

HasKey(prof) == prof.key # NoKey

\* Mutant: a missing profile is asked for again.
GetProfileRetries(p) ==
    /\ pc[p] = "get_profile"
    /\ UNCHANGED vars

\* The ioctl fails, for want of permission, of a profile or of memory, or it
\* returns 0 and leaves the key empty; to the tool it is all one.
GetProfileFails(p) ==
    /\ pc[p] = "get_profile"
    /\ Exit(p, "no_profile")
    /\ UNCHANGED <<shared, cmd, euid, profile>>

Read(p) ==
    /\ pc[p] = "get_profile"
    /\ Permitted(p)
    /\ HasKey(Answer(p))

GetUidInfo(p) ==
    /\ Read(p)
    /\ cmd[p].op = "getuidinfo"
    /\ profile' = [profile EXCEPT ![p] = Answer(p)]
    /\ Exit(p, "info")
    /\ UNCHANGED <<shared, cmd, euid>>

\* Mutant: the test for an SU app left out.
NoTest(prof) == TRUE

MayUmount(prof) == ~prof.allow_su

SetUmountRefused(p) ==
    /\ Read(p)
    /\ cmd[p].op = "setumount"
    /\ ~MayUmount(Answer(p))
    /\ Exit(p, "umount_nono")
    /\ UNCHANGED <<shared, cmd, euid, profile>>

\* Mutant: the digit itself is stored.
WithUmountCharacter(prof, c) ==
    [prof EXCEPT !.use_default = FALSE, !.second = IF c.one THEN 49 ELSE 48]

WithUmount(prof, c) ==
    [prof EXCEPT !.use_default = FALSE, !.second = IF c.one THEN 1 ELSE 0]

SetUmount(p) ==
    /\ Read(p)
    /\ cmd[p].op = "setumount"
    /\ MayUmount(Answer(p))
    /\ profile' = [profile EXCEPT ![p] = WithUmount(Answer(p), cmd[p])]
    /\ Goto(p, "set_profile")
    /\ UNCHANGED <<shared, cmd, euid>>

\* Mutant: the union is not cleared.
WithRootUncleared(prof, c) == [prof EXCEPT !.allow_su = c.one]

\* Granting root clears the union; revoking it leaves the union as it is.
WithRoot(prof, c) ==
    IF c.one
    THEN [prof EXCEPT !.allow_su = TRUE, !.use_default = TRUE, !.second = 0, !.ksu_domain = TRUE]
    ELSE [prof EXCEPT !.allow_su = FALSE]

SetRoot(p) ==
    /\ Read(p)
    /\ cmd[p].op = "setroot"
    /\ profile' = [profile EXCEPT ![p] = WithRoot(Answer(p), cmd[p])]
    /\ Goto(p, "set_profile")
    /\ UNCHANGED <<shared, cmd, euid>>

\* The value printed for umount is atoi's, not the one that was stored.
SuccessOf(c) ==
    CASE c.op = "setumount" -> IF c.num # 0 THEN "umount_set_1" ELSE "umount_set_0"
      [] c.op = "create" -> "created"
      [] c.op = "setroot" -> "root_set"

SetProfile(p) ==
    /\ pc[p] = "set_profile"
    /\ Permitted(p)
    /\ store' = [store EXCEPT ![cmd[p].uid] = profile[p]]
    /\ Exit(p, SuccessOf(cmd[p]))
    /\ UNCHANGED <<ksu, manager, pruned, cmd, euid, profile>>

\* Refused, or out of memory.
SetProfileFails(p) ==
    /\ pc[p] = "set_profile"
    /\ Exit(p, "set_fail")
    /\ UNCHANGED <<shared, cmd, euid, profile>>

Step(p) ==
    \/ OpenFails(p) \/ Open(p) \/ GetInfoFails(p) \/ Dispatch(p)
    \/ GetManagerFails(p) \/ BecomeManager(p)
    \/ GetProfileFails(p) \/ GetUidInfo(p)
    \/ SetUmountRefused(p) \/ SetUmount(p) \/ SetRoot(p)
    \/ SetProfile(p) \/ SetProfileFails(p)

(***************************************************************************)
(* The rest of the phone: the manager app edits profiles, and may be       *)
(* removed or installed again under another uid; when an app is            *)
(* uninstalled, KernelSU drops its profile.                                *)
(***************************************************************************)

ManagerSets(u, prof) ==
    /\ manager # NoManager
    /\ store' = [store EXCEPT ![u] = prof]
    /\ UNCHANGED <<ksu, manager, pruned, cmd, pc, euid, profile, says>>

ManagerMoves ==
    /\ manager' \in (Managers \cup {NoManager}) \ {manager}
    /\ UNCHANGED <<ksu, store, pruned, cmd, pc, euid, profile, says>>

AppUninstalled(u) ==
    /\ store[u] # None
    /\ store' = [store EXCEPT ![u] = None]
    /\ pruned' = [p \in Proc |-> pruned[p] \/ (pc[p] = "set_profile" /\ cmd[p].uid = u)]
    /\ UNCHANGED <<ksu, manager, cmd, pc, euid, profile, says>>

\* Some process is still running.
Running == \E p \in Proc : pc[p] # "exit"

Environment ==
    /\ Running
    /\ \/ \E u \in Uids, prof \in ManagerProfiles : ManagerSets(u, prof)
       \/ ManagerMoves
       \/ \E u \in Uids : AppUninstalled(u)

Next == (\E p \in Proc : Step(p)) \/ Environment

\* Every invocation is scheduled; what the phone does is not assumed.
Spec == Init /\ [][Next]_vars /\ \A p \in Proc : WF_vars(Step(p))

(***************************************************************************)
(* Properties.                                                             *)
(***************************************************************************)

TypeOK ==
    /\ ksu \in {"current", "legacy", "absent"}
    /\ manager \in Managers \cup {NoManager}
    /\ store \in [Uids -> Profile \cup {None}]
    /\ pruned \in [Proc -> BOOLEAN]
    /\ cmd \in [Proc -> Commands]
    /\ pc \in [Proc -> PCs]
    /\ euid \in [Proc -> Managers \cup {0}]
    /\ profile \in [Proc -> Profile]
    /\ says \in [Proc -> Errors \cup Successes \cup {None}]

IsSu(prof) == prof # None /\ prof.allow_su

\* However the tool's reads and writes interleave with other invocations and
\* with the manager app, a stale copy never gives root back to an app it was
\* taken from: the only write of the tool that turns allow_su on is one that
\* was asked to.
RootOnlyByRequest ==
    [][\A p \in Proc, u \in Uids :
          Step(p) /\ ~IsSu(store[u]) /\ IsSu(store'[u])
              => cmd[p].op = "setroot" /\ cmd[p].one /\ cmd[p].uid = u]_vars

\* What the tool grants is the default root profile in KernelSU's domain: no
\* byte of the non-root configuration shows through the union.
GrantIsDefaultProfile ==
    [][\A p \in Proc, u \in Uids :
          Step(p) /\ ~IsSu(store[u]) /\ IsSu(store'[u])
              => store'[u].use_default /\ store'[u].second = 0 /\ store'[u].ksu_domain]_vars

\* Only --create makes a profile where there is none.  A command that changes
\* one writes where it has read one; if the app was uninstalled in between, and
\* only then, the write brings a pruned profile back.
UpdatesNeedAProfile ==
    [][\A p \in Proc, u \in Uids :
          Step(p) /\ store[u] = None /\ store'[u] # None
              => cmd[p].op = "create" \/ pruned[p]]_vars

\* The uids of the system keep whatever profile they have, for every command
\* and every string atoi reads as a smaller number.
SystemUidsUntouched ==
    [][\A p \in Proc, u \in Uids : Step(p) /\ u < 10000 => store'[u] = store[u]]_vars

\* The strengthening under which the action properties are inductive: what a
\* process that is about to write knows about its command, its copy and the
\* store.
Unread == {"start", "get_info", "get_manager", "get_profile"}

WriterInv(p) ==
    /\ pc[p] \in Unread => profile[p] = ZeroProfile
    /\ pc[p] \in {"get_profile", "set_profile"} => GoodUid(cmd[p])
    /\ pc[p] = "set_profile" =>
         /\ cmd[p].op \in {"setumount", "create", "setroot"}
         /\ cmd[p].op # "create" => store[cmd[p].uid] # None \/ pruned[p]
         /\ profile[p].allow_su =>
              /\ cmd[p].op = "setroot" /\ cmd[p].one
              /\ profile[p].use_default /\ profile[p].second = 0 /\ profile[p].ksu_domain

Inv == TypeOK /\ \A p \in Proc : WriterInv(p)

\* Every invocation comes to its exit.
Exits == \A p \in Proc : <>(pc[p] = "exit")

(***************************************************************************)
(* What the program's own words promise and its code does not keep.        *)
(***************************************************************************)

\* "umount for SU app is nono": --setumount never overwrites the profile of an
\* app that has root.
UmountSparesSuApps ==
    [][\A p \in Proc : SetProfile(p) /\ cmd[p].op = "setumount" => ~IsSu(store[cmd[p].uid])]_vars

=============================================================================
