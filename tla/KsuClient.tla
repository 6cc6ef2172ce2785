----------------------------- MODULE KsuClient -----------------------------
(***************************************************************************)
(* The small programs that talk to KernelSU over the descriptor a magic    *)
(* reboot call installs: ksu_fd, ksu_fd_disable, ksu_fd_test and uapi ask  *)
(* for information or switch a feature; su, su-ndk and small_su ask for    *)
(* root and turn into ksud or a shell.  They share their opening: fd = 0,  *)
(* reboot(magic, &fd), and fd still 0 means failure.  su and small_su are  *)
(* started and make their calls by way of SmallRt.                         *)
(*                                                                         *)
(* One step is one system call together with the test of its result.       *)
(***************************************************************************)
EXTENDS SmallRt

CONSTANT MaxFd    \* descriptors are 0 .. MaxFd

ASSUME MaxFdAssumption == MaxFd \in Nat /\ MaxFd >= 4

InfoPrograms == {"ksu_fd", "ksu_fd_disable", "ksu_fd_test", "uapi"}
SuPrograms == {"su", "su_ndk", "small_su"}
Programs == InfoPrograms \cup SuPrograms \cup Demos

\* Programs that are linked with a C library, whose start code and wrappers are
\* not this repository's: one build stands for all.
LibcPrograms == InfoPrograms \cup {"su_ndk"}

VARIABLES
    ksu,        \* KernelSU in this kernel: [present, info, grants]
    fds,        \* the open descriptors: number -> "stdio", "ksu" or "kmsg"
    fd,
    granted,    \* the process has been given root
    umount,     \* KernelSU's kernel_umount feature is on
    image,      \* what the process executes: "self", "ksud" or "sh"
    handed      \* [args, env] of the program executed last

ksuvars == <<ksu, fds, fd, granted, umount, image, handed>>
vars == <<rtvars, ksuvars>>
setting == <<startup, argv, envp, i, out, ksu>>

Ksu == [present : BOOLEAN, info : {"current", "legacy"}, grants : BOOLEAN]

\* A caller may have closed its standard input.
StdFds == {{0, 1, 2}, {1, 2}}

Init ==
    /\ RtInit(Programs)
    /\ prog \in LibcPrograms => build.arch = "aarch64"
    /\ ksu \in Ksu
    /\ prog \in Demos => ~ksu.present /\ ~ksu.grants /\ ksu.info = "current"
    /\ \E open \in StdFds : fds = [n \in open |-> "stdio"]
    /\ fd = 0
    /\ granted = FALSE /\ umount = TRUE
    /\ image = "self" /\ handed = started

\* The kernel hands out the lowest descriptor that is free.
FreeFd == Min((0 .. MaxFd) \ DOMAIN fds)
Opened(n, what) == [m \in DOMAIN fds \cup {n} |-> IF m = n THEN what ELSE fds[m]]
Closed(n) == [m \in DOMAIN fds \ {n} |-> fds[m]]

\* ksu_fd and its variants return 1, small_su says "Denied", the others trap.
FailureOf(program) == IF program \in {"uapi", "su", "su_ndk"} THEN "trap" ELSE "1"

Fail == ExitWith(FailureOf(prog))

FromData == prog = "small_su" /\ words[argv] = "/data"

\* small_su reads its name, and goes no further if it was called from /data/adb.
Denied ==
    /\ prog = "small_su" /\ pc = "main"
    /\ \/ words[argv] = NULL /\ Fault
       \/ words[argv] # NULL /\ FromData /\ Fail
    /\ UNCHANGED <<setting, words, fds, fd, granted, umount, image, handed>>

\* argv[0] = "su": first of all in su and su-ndk, after the grant in small_su.
Renamed(programs) ==
    words' = IF prog \in programs THEN [words EXCEPT ![argv] = "su"] ELSE words

\* sys_reboot itself fails either way; KernelSU writes the number to fd.
Reboot ==
    /\ prog \notin Demos /\ pc = "main"
    /\ prog = "small_su" => words[argv] # NULL /\ ~FromData
    /\ Renamed({"su", "su_ndk"})
    /\ IF ksu.present
       THEN fds' = Opened(FreeFd, "ksu") /\ fd' = FreeFd
       ELSE UNCHANGED <<fds, fd>>
    /\ IF fd' = 0
       THEN Fail
       ELSE /\ pc' = IF prog \in SuPrograms THEN "grant" ELSE "info"
            /\ UNCHANGED exit
    /\ UNCHANGED <<setting, granted, umount, image, handed>>

(***************************************************************************)
(* ksu_fd, ksu_fd_disable, ksu_fd_test, uapi.                              *)
(***************************************************************************)

\* Mutant: the request is repeated until it is answered.
InfoRetries ==
    /\ pc = "info"
    /\ prog # "uapi"
    /\ ksu.info = "current"
    /\ pc' = IF prog = "ksu_fd_disable" THEN "set_feature" ELSE "close"
    /\ UNCHANGED <<setting, words, fds, fd, granted, umount, image, handed, exit>>

\* The ksu_fd programs print what they got, or that they got nothing, and go
\* on in either case.
Info ==
    /\ pc = "info"
    /\ prog # "uapi"
    /\ pc' = IF prog = "ksu_fd_disable" THEN "set_feature" ELSE "close"
    /\ UNCHANGED <<setting, words, fds, fd, granted, umount, image, handed, exit>>

\* uapi's legacy request lacks the descriptor and never succeeds.
InfoOfUapi ==
    /\ pc = "info"
    /\ prog = "uapi"
    /\ IF ksu.info = "current" THEN pc' = "done" /\ exit' = "version" ELSE Fail
    /\ UNCHANGED <<setting, words, fds, fd, granted, umount, image, handed>>

\* Feature 1 set to 0; a failure is printed.
SetFeature ==
    /\ pc = "set_feature"
    /\ umount' \in {FALSE, umount}
    /\ pc' = "close"
    /\ UNCHANGED <<setting, words, fds, fd, granted, image, handed, exit>>

\* In ksu_fd_test the close is commented out.
Closes(program) == program # "ksu_fd_test"

Close ==
    /\ pc = "close"
    /\ fds' = IF Closes(prog) THEN Closed(fd) ELSE fds
    /\ pc' = "done" /\ exit' = "0"
    /\ UNCHANGED <<setting, words, fd, granted, umount, image, handed>>

(***************************************************************************)
(* su, su-ndk, small_su.                                                   *)
(***************************************************************************)

\* Mutant: the result of the ioctl is not tested.
RefusalIgnored == FALSE

RefusalStops == TRUE

GrantRefused ==
    /\ pc = "grant"
    /\ ~ksu.grants
    /\ IF RefusalStops THEN Fail ELSE pc' = "exec_ksud" /\ UNCHANGED exit
    /\ UNCHANGED <<setting, words, fds, fd, granted, umount, image, handed>>

Grant ==
    /\ pc = "grant"
    /\ ksu.grants
    /\ granted' = TRUE
    /\ pc' = IF prog = "small_su" THEN "open_kmsg" ELSE "exec_ksud"
    /\ Renamed({"small_su"})
    /\ UNCHANGED <<setting, fds, fd, umount, image, handed, exit>>

\* small_su reuses fd for /dev/kmsg; -1 stands for every error.
OpenKmsg ==
    /\ pc = "open_kmsg"
    /\ \/ fds' = Opened(FreeFd, "kmsg") /\ fd' = FreeFd
       \/ fd' = -1 /\ UNCHANGED fds
    /\ pc' = IF fd' >= 0 THEN "close_kmsg" ELSE "exec_ksud"
    /\ UNCHANGED <<setting, words, granted, umount, image, handed, exit>>

\* Mutant: a descriptor of the caller's is closed in place of kmsg's.
ClosesStderr == 2

KmsgFd == fd

CloseKmsg ==
    /\ pc = "close_kmsg"
    /\ fds' = Closed(KmsgFd)
    /\ pc' = "exec_ksud"
    /\ UNCHANGED <<setting, words, fd, granted, umount, image, handed, exit>>

\* execve(path, argv, envp): the kernel copies what the two pointers lead to.
Exec(path) ==
    /\ image' = path
    /\ LET call == KernelSees(<<"execve", path, argv, envp, "0", "0", "0">>)
       IN  handed' = [args |-> Strings(call[3]), env |-> Strings(call[4])]
    /\ pc' = "done"
    /\ UNCHANGED <<setting, words, fds, fd, granted, umount, exit>>

ExecKsud == pc = "exec_ksud" /\ Exec("ksud")

\* There is no ksud: su and su-ndk try a shell, small_su gives up.
ExecKsudFails ==
    /\ pc = "exec_ksud"
    /\ IF prog = "small_su" THEN Fail ELSE pc' = "exec_sh" /\ UNCHANGED exit
    /\ UNCHANGED <<setting, words, fds, fd, granted, umount, image, handed>>

ExecSh == pc = "exec_sh" /\ Exec("sh")

ExecShFails ==
    /\ pc = "exec_sh"
    /\ Fail
    /\ UNCHANGED <<setting, words, fds, fd, granted, umount, image, handed>>

Next ==
    \/ RtNext /\ UNCHANGED ksuvars
    \/ Denied \/ Reboot \/ Info \/ InfoOfUapi \/ SetFeature \/ Close
    \/ GrantRefused \/ Grant \/ OpenKmsg \/ CloseKmsg
    \/ ExecKsud \/ ExecKsudFails \/ ExecSh \/ ExecShFails

Spec == Init /\ [][Next]_vars /\ WF_vars(Next)

(***************************************************************************)
(* Properties.                                                             *)
(***************************************************************************)

\* Across all failure paths of the three launchers, ksud or a shell is started
\* only by a process KernelSU has given root, and never by a small_su that was
\* called from /data.
RootBeforeShell ==
    image # "self" =>
        /\ granted /\ ksu.present
        /\ prog = "small_su" => started.args[1] # "/data"

\* The program a launcher turns into is called "su" and gets the launcher's
\* other arguments and its environment, although argv and envp were counted off
\* the raw stack, argv[0] was overwritten there and the pointers went through
\* the wrapper's registers.
HandsOverArguments ==
    image # "self" /\ started.args # <<>> =>
        handed = [args |-> <<"su">> \o Tail(started.args), env |-> started.env]

\* Descriptors at the end of a run: execve passes on the caller's output and
\* error, still open, and not the log, wherever the kernel put it; ksu_fd and
\* ksu_fd_disable return 0 with KernelSU's descriptor closed.
DescriptorsAtEnd ==
    /\ image # "self" =>
         /\ "kmsg" \notin {fds[n] : n \in DOMAIN fds}
         /\ {1, 2} \subseteq DOMAIN fds
    /\ exit = "0" /\ prog # "ksu_fd_test" => "ksu" \notin {fds[n] : n \in DOMAIN fds}

\* Every run ends in an exit or in another program.
Ends == <>(exit # "none" \/ image # "self")

\* "since we init this as 0, if its still 0 then it failed": the programs
\* report a failed reboot call only if they were given no descriptor.
ZeroMeansFailure ==
    exit = "1" /\ prog \in {"ksu_fd", "ksu_fd_disable", "ksu_fd_test"} =>
        "ksu" \notin {fds[n] : n \in DOMAIN fds}

=============================================================================
