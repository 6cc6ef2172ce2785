-------------------------- MODULE KsuClient_proofs --------------------------
(***************************************************************************)
(* No shell without root, and what becomes of arguments, environment and   *)
(* descriptors, for every list of arguments, every environment, every      *)
(* build and every answer of the kernel.                                   *)
(***************************************************************************)
EXTENDS KsuClient, SequenceTheorems, TLAPS

AfterReboot == {"grant", "open_kmsg", "close_kmsg", "exec_ksud", "exec_sh"}
AfterGrant == AfterReboot \ {"grant"}

\* Until reboot is called fd is 0, and the stack is as execve left it.
BeforeReboot ==
    /\ started \in [args : ArgLists, env : EnvLists]
    /\ pc \in {"start", "main"} => fd = 0 /\ words = StackWords(started.args, started.env)
    /\ pc = "main" => argv = 1

\* What is known on the way to execve, and after it.
OnTheWay ==
    /\ image # "self" => pc = "done"
    /\ pc \in AfterReboot \/ image # "self" =>
         /\ ksu.present
         /\ prog = "small_su" => started.args[1] # "/data"
    /\ pc \in AfterGrant \/ image # "self" => granted

Inv == BeforeReboot /\ OnTheWay

\* The head of a concatenation.
LEMMA HeadOfConcat ==
  ASSUME NEW S, NEW s \in Seq(S), NEW t \in Seq(S), Len(s) + Len(t) > 0
  PROVE  /\ s \o t \in Seq(S) /\ Len(s \o t) = Len(s) + Len(t)
         /\ (s \o t)[1] = IF Len(s) = 0 THEN t[1] ELSE s[1]
  OBVIOUS

\* Sequences over a larger set.
LEMMA SeqInLarger == ASSUME NEW S, NEW T, S \subseteq T, NEW s \in Seq(S) PROVE s \in Seq(T)
  OBVIOUS

\* A sequence of one.
LEMMA Singleton ==
  ASSUME NEW S, NEW x \in S
  PROVE  <<x>> \in Seq(S) /\ Len(<<x>>) = 1 /\ <<x>>[1] = x
  OBVIOUS

\* The first word above argc is the first argument, or null if there is none.
LEMMA FirstWord ==
  ASSUME NEW args \in ArgLists, NEW env \in EnvLists
  PROVE  StackWords(args, env)[1] = IF Len(args) = 0 THEN NULL ELSE args[1]
  <1> DEFINE Word == STRING \cup {NULL}
  <1> HIDE DEF Word
  <1>0. STRING \subseteq Word /\ NULL \in Word
    BY Zenon DEF Word
  <1>1. args \in Seq(Word) /\ env \in Seq(Word)
    BY <1>0, SmallRtAssumption, SeqInLarger
  <1>2. <<NULL>> \in Seq(Word) /\ Len(<<NULL>>) = 1 /\ <<NULL>>[1] = NULL
    BY <1>0, Singleton
  <1>3. Len(args) \in Nat /\ Len(env) \in Nat
    BY <1>1
  <1> DEFINE front == args \o <<NULL>>
  <1> HIDE DEF front
  <1>4. /\ front \in Seq(Word) /\ Len(front) = Len(args) + 1
        /\ front[1] = IF Len(args) = 0 THEN NULL ELSE args[1]
    BY <1>1, <1>2, <1>3, HeadOfConcat DEF front
  <1>5. /\ front \o env \in Seq(Word) /\ Len(front \o env) = Len(front) + Len(env)
        /\ (front \o env)[1] = front[1]
    BY <1>1, <1>3, <1>4, HeadOfConcat
  <1>6. ((front \o env) \o <<NULL>>)[1] = (front \o env)[1]
    BY <1>2, <1>3, <1>4, <1>5, HeadOfConcat
  <1> QED
    BY <1>4, <1>5, <1>6 DEF StackWords, front

\* A program has asked for nothing when it is started.
LEMMA InitInv == Init => Inv
  BY DEF Init, RtInit, Inv, BeforeReboot, OnTheWay, AfterReboot, AfterGrant

\* The start code and the demos keep it.
LEMMA RtStepInv == Inv /\ RtNext /\ UNCHANGED ksuvars => Inv'
  <1> SUFFICES ASSUME Inv, RtNext, UNCHANGED ksuvars PROVE Inv'
    OBVIOUS
  <1>1. /\ prog' = prog /\ started' = started /\ words' = words
        /\ ksu' = ksu /\ fd' = fd /\ granted' = granted /\ image' = image
    BY DEF RtNext, PrepMain, SmallStart, SmallStartTests, Hello3Opens, Hello3Writes,
           startup, image_vars, ksuvars
  <1>2. CASE PrepMain
    BY <1>1, <1>2 DEF PrepMain, Inv, BeforeReboot, OnTheWay, AfterReboot, AfterGrant
  <1>3. CASE SmallStart \/ SmallStartTests \/ Hello3Opens \/ Hello3Writes
    <2>1. argv' = argv
      BY <1>3 DEF SmallStart, SmallStartTests, Hello3Opens, Hello3Writes, image_vars
    <2>2. pc # "start" /\ pc # "done" /\ pc \notin AfterReboot
      BY <1>3 DEF SmallStart, SmallStartTests, Hello3Opens, Hello3Writes, AfterReboot
    <2>3. pc' = pc \/ pc' \in {"envp", "argv", "done"}
      BY <1>3 DEF SmallStart, SmallStartTests, Hello3Opens, Hello3Writes, ExitWith, Fault
    <2> QED
      BY <1>1, <2>1, <2>2, <2>3 DEF Inv, BeforeReboot, OnTheWay, AfterReboot, AfterGrant
  <1> QED
    BY <1>2, <1>3 DEF RtNext

\* A small_su that gets as far as the reboot call was not started from /data,
\* and fd is set only by a kernel that has KernelSU.
LEMMA RebootInv == Inv /\ Reboot => Inv'
  <1> SUFFICES ASSUME Inv, Reboot PROVE Inv'
    OBVIOUS
  <1>1. /\ pc = "main" /\ prog' = prog /\ started' = started /\ ksu' = ksu
        /\ granted' = granted /\ image' = image
        /\ prog = "small_su" => words[argv] # NULL /\ ~FromData
        /\ pc' \in {"done", "grant", "info"}
        /\ pc' = "grant" => fd' # 0
        /\ ~ksu.present => fd' = fd
    BY DEF Reboot, setting, startup, Fail, ExitWith
  <1>2. fd = 0 /\ argv = 1 /\ words = StackWords(started.args, started.env)
        /\ started.args \in ArgLists /\ started.env \in EnvLists
    BY <1>1 DEF Inv, BeforeReboot
  <1>3. pc' = "grant" => ksu.present
    BY <1>1, <1>2
  <1>4. prog = "small_su" => started.args[1] # "/data"
    BY <1>1, <1>2, FirstWord DEF FromData
  <1>5. image = "self"
    BY <1>1 DEF Inv, OnTheWay
  <1> QED
    BY <1>1, <1>3, <1>4, <1>5 DEF Inv, BeforeReboot, OnTheWay, AfterReboot, AfterGrant

\* The other steps: those that go on towards execve, and those that end.
LEMMA OtherStepsInv ==
  ASSUME Inv,
         \/ Denied \/ Info \/ InfoOfUapi \/ SetFeature \/ Close
         \/ GrantRefused \/ Grant \/ OpenKmsg \/ CloseKmsg
         \/ ExecKsud \/ ExecKsudFails \/ ExecSh \/ ExecShFails
  PROVE  Inv'
  <1>0. prog' = prog /\ started' = started /\ ksu' = ksu
    BY DEF Denied, Info, InfoOfUapi, SetFeature, Close, GrantRefused, Grant, OpenKmsg, CloseKmsg,
           ExecKsud, ExecKsudFails, ExecSh, ExecShFails, Exec, setting, startup
  <1>1. CASE Denied \/ Info \/ InfoOfUapi \/ SetFeature \/ Close \/ GrantRefused \/ ExecShFails
    <2>1. /\ pc' \in {"done", "set_feature", "close"}
          /\ image' = image /\ granted' = granted /\ pc # "done"
      BY <1>1 DEF Denied, Info, InfoOfUapi, SetFeature, Close, GrantRefused, ExecShFails,
                  RefusalStops, Fail, Fault, ExitWith
    <2>2. image = "self"
      BY <2>1 DEF Inv, OnTheWay
    <2> QED
      BY <1>0, <2>1, <2>2 DEF Inv, BeforeReboot, OnTheWay, AfterReboot, AfterGrant
  <1>2. CASE Grant \/ OpenKmsg \/ CloseKmsg \/ ExecKsudFails
    <2>1. /\ pc \in AfterReboot /\ pc' \in AfterGrant \cup {"done"}
          /\ image' = image
          /\ granted' = TRUE \/ (granted' = granted /\ pc \in AfterGrant)
      BY <1>2 DEF Grant, OpenKmsg, CloseKmsg, ExecKsudFails, Fail, ExitWith, AfterReboot, AfterGrant
    <2>2. image = "self" /\ ksu.present /\ (prog = "small_su" => started.args[1] # "/data")
      BY <2>1 DEF Inv, OnTheWay, AfterReboot
    <2>3. granted' = TRUE \/ (granted' = granted /\ granted)
      BY <2>1 DEF Inv, OnTheWay
    <2> QED
      BY <1>0, <2>1, <2>2, <2>3 DEF Inv, BeforeReboot, OnTheWay, AfterReboot, AfterGrant
  <1>3. CASE ExecKsud \/ ExecSh
    <2>1. pc \in AfterGrant /\ pc' = "done" /\ granted' = granted
      BY <1>3 DEF ExecKsud, ExecSh, Exec, AfterGrant, AfterReboot
    <2>2. granted /\ ksu.present /\ (prog = "small_su" => started.args[1] # "/data")
      BY <2>1 DEF Inv, OnTheWay, AfterGrant
    <2> QED
      BY <1>0, <2>1, <2>2 DEF Inv, BeforeReboot, OnTheWay, AfterReboot, AfterGrant
  <1> QED
    BY <1>1, <1>2, <1>3

\* Every step keeps the invariant.
LEMMA NextInv == Inv /\ [Next]_vars => Inv'
  <1> SUFFICES ASSUME Inv, [Next]_vars PROVE Inv'
    OBVIOUS
  <1>1. CASE Next
    BY <1>1, RtStepInv, RebootInv, OtherStepsInv DEF Next
  <1>2. CASE UNCHANGED vars
    BY <1>2 DEF vars, rtvars, startup, image_vars, ksuvars,
                Inv, BeforeReboot, OnTheWay, AfterReboot, AfterGrant
  <1> QED
    BY <1>1, <1>2

\* Whatever fails on the way, su, su-ndk and small_su turn into ksud or a shell
\* only with root, and small_su never when it was called from /data.
THEOREM NoShellWithoutRoot == Spec => []RootBeforeShell
  <1>1. Inv => RootBeforeShell
    BY DEF Inv, OnTheWay, RootBeforeShell
  <1> QED
    BY <1>1, InitInv, NextInv, PTL DEF Spec

(***************************************************************************)
(* The invariants behind the other properties.                             *)
(***************************************************************************)

\* The stack execve left, and the stack after argv[0] = "su".
AsStarted == StackWords(started.args, started.env)
AsSu == [AsStarted EXCEPT ![1] = "su"]

HandedOver == [args |-> <<"su">> \o Tail(started.args), env |-> started.env]

\* What words, argv and envp hold, and when argv[0] is overwritten.
StackInv ==
    /\ build \in Builds
    /\ pc # "start" => argv = 1 /\ envp = Len(started.args) + 2
    /\ words \in {AsStarted, AsSu}
    /\ prog \in Demos => words = AsStarted
    /\ pc \in AfterReboot => prog \in SuPrograms
    /\ (prog # "small_su" /\ pc \in AfterReboot) \/ pc \in AfterGrant => words = AsSu
    /\ image # "self" /\ started.args # <<>> => handed = HandedOver

StdTables == {[n \in open |-> "stdio"] : open \in StdFds}
KsuTable == [n \in 0 .. 3 |-> IF n = 3 THEN "ksu" ELSE "stdio"]
KmsgTable == [n \in 0 .. 4 |-> IF n = 4 THEN "kmsg" ELSE KsuTable[n]]

\* The descriptor table at every label: KernelSU's descriptor can only be
\* the one behind the three standard ones, the log's only the next.
TableInv ==
    /\ prog \in Demos \/ pc \in {"start", "main"} => fds \in StdTables
    /\ pc \in {"start", "main"} => fd = 0
    /\ pc \in {"info", "set_feature", "close", "grant", "open_kmsg"} => fd = 3
    /\ \/ pc \in {"info", "set_feature", "close", "grant", "open_kmsg", "exec_ksud", "exec_sh"}
       \/ image # "self"
       => fds = KsuTable
    /\ pc = "close_kmsg" => fd = 4 /\ fds = KmsgTable
    /\ pc # "done" => exit = "none"
    /\ pc \in {"info", "set_feature", "close"} => prog \notin Demos
    /\ exit = "0" /\ prog # "ksu_fd_test" => "ksu" \notin {fds[n] : n \in DOMAIN fds}

\* How far a demo has got.
Shown(list) == SubSeq(list, 1, i)
ShownOfTen == SubSeq(started.args, 1, Min({i, Len(started.args)}))

PrintInv ==
    LET args == started.args
        env == started.env
    IN
    /\ pc = "start" => i = 0 /\ out = <<>>
    /\ prog \in Demos => pc \in {"start", "main", "argv", "envp", "done"}
    /\ prog = "small_start" =>
         /\ pc # "argv"
         /\ pc = "main" => (i = 0 \/ i \in 1 .. Len(args) - 1) /\ out = Shown(args)
         /\ pc = "envp" => (i = 0 \/ i \in 1 .. Len(env) - 1) /\ out = args \o Shown(env)
    /\ prog = "small_start_tests" =>
         /\ pc \notin {"argv", "envp"}
         /\ pc = "main" => i \in 0 .. MaxShown - 1 /\ out = ShownOfTen
    /\ prog = "hello3" =>
         /\ pc = "main" => i = 0 /\ out = <<>>
         /\ pc = "argv" => i \in 0 .. Len(args) /\ out = <<"hello">> \o Shown(args)
         /\ pc = "envp" => i \in 0 .. Len(env) /\ out = (<<"hello">> \o args) \o Shown(env)
    /\ PrintsWhatItWasGiven

\* All that is known of a run.
FullInv == Inv /\ StackInv /\ TableInv /\ PrintInv

(***************************************************************************)
(* The registers of a system call, and the stack.                          *)
(***************************************************************************)

\* Seven registers, all different.
SevenDistinct(regs) ==
    DOMAIN regs = 1 .. 7 /\ \A j, k \in 1 .. 7 : regs[j] = regs[k] => j = k

\* What a register holds of seven different ones.
LEMMA HoldingAt ==
  ASSUME NEW regs, SevenDistinct(regs), NEW call, NEW k \in 1 .. 7
  PROVE  /\ DOMAIN Holding(regs, call) = {regs[j] : j \in 1 .. 7}
         /\ Holding(regs, call)[regs[k]] = call[k]
  <1>1. (CHOOSE j \in DOMAIN regs : regs[j] = regs[k]) = k
    BY DEF SevenDistinct
  <1> QED
    BY <1>1 DEF Holding, SevenDistinct

\* The four architectures, and the three free registers of x86_64.
LEMMA BuildFacts ==
  ASSUME build \in Builds
  PROVE  /\ build.arch \in {"aarch64", "arm", "i386", "x86_64"}
         /\ build.arch = "x86_64" =>
              /\ build.d \in FreeRegs /\ build.e \in FreeRegs /\ build.f \in FreeRegs
              /\ build.d # build.e /\ build.d # build.f /\ build.e # build.f
  <1>1. CASE \E a \in {"aarch64", "arm", "i386"} : build = [arch |-> a, d |-> "", e |-> "", f |-> ""]
    <2>1. PICK a \in {"aarch64", "arm", "i386"} : build = [arch |-> a, d |-> "", e |-> "", f |-> ""]
      BY <1>1
    <2>2. build.arch = a
      BY <2>1
    <2> QED
      BY <2>2
  <1>2. CASE /\ build \in [arch : {"x86_64"}, d : FreeRegs, e : FreeRegs, f : FreeRegs]
             /\ build.d # build.e /\ build.d # build.f /\ build.e # build.f
    BY <1>2
  <1> QED
    BY <1>1, <1>2 DEF Builds

\* What arrives at the kernel: all seven values where the wrapper pins every
\* register, the number and four arguments on x86_64.
LEMMA Arrives ==
  ASSUME build \in Builds, NEW call, DOMAIN call = 1 .. 7, NEW k \in 1 .. 7, k <= 5 \/ build.arch # "x86_64"
  PROVE  KernelSees(call)[k] = call[k]
  <1>1. build.arch \in {"aarch64", "arm", "i386", "x86_64"}
    BY BuildFacts
  <1>2. KernelSees(call)[k] = Registers(call)[Abi(build.arch)[k]]
    BY DEF KernelSees
  <1>3. CASE build.arch = "aarch64"
    <2> DEFINE regs == <<"x8", "x0", "x1", "x2", "x3", "x4", "x5">>
    <2>1. SevenDistinct(regs)
      BY DEF SevenDistinct
    <2>2. Registers(call) = Holding(regs, call) /\ Abi(build.arch) = regs
      BY <1>3 DEF Registers, Aarch64, Abi
    <2> HIDE DEF regs
    <2>3. Holding(regs, call)[regs[k]] = call[k]
      BY <2>1, HoldingAt
    <2> QED
      BY <1>2, <2>2, <2>3
  <1>4. CASE build.arch = "arm"
    <2> DEFINE regs == <<"r7", "r0", "r1", "r2", "r3", "r4", "r5">>
    <2>1. SevenDistinct(regs)
      BY DEF SevenDistinct
    <2>2. Registers(call) = Holding(regs, call) /\ Abi(build.arch) = regs
      BY <1>4 DEF Registers, Arm, Abi
    <2> HIDE DEF regs
    <2>3. Holding(regs, call)[regs[k]] = call[k]
      BY <2>1, HoldingAt
    <2> QED
      BY <1>2, <2>2, <2>3
  <1>5. CASE build.arch = "i386"
    <2> DEFINE regs == <<"eax", "ebx", "ecx", "edx", "esi", "edi", "ebp">>
    <2>1. SevenDistinct(regs)
      BY DEF SevenDistinct
    <2> DEFINE loaded == [call EXCEPT ![7] = call[7]]
    <2>2. Registers(call) = Holding(regs, loaded) /\ Abi(build.arch) = regs
      BY <1>5 DEF Registers, I386, Abi
    <2>3. loaded[k] = call[k]
      OBVIOUS
    <2> HIDE DEF regs, loaded
    <2>4. Holding(regs, loaded)[regs[k]] = loaded[k]
      BY <2>1, HoldingAt
    <2> QED
      BY <1>2, <2>2, <2>3, <2>4
  <1>6. CASE build.arch = "x86_64"
    <2> DEFINE regs == <<"rax", "rdi", "rsi", "rdx", build.d, build.e, build.f>>
               abi == <<"rax", "rdi", "rsi", "rdx", "r10", "r8", "r9">>
               operands == Holding(regs, call)
               second == Mov(operands, "r10", build.d)
               third == Mov(second, "r8", build.e)
    <2>1. /\ build.d \in FreeRegs /\ build.e \in FreeRegs /\ build.f \in FreeRegs
          /\ build.d # build.e /\ build.d # build.f /\ build.e # build.f
      BY <1>6, BuildFacts
    <2>2. SevenDistinct(regs)
      BY <2>1, SmallRtAssumption DEF SevenDistinct
    <2>3. Registers(call) = Mov(third, "r9", build.f) /\ Abi(build.arch) = abi /\ k <= 5
      BY <1>6 DEF Registers, X86_64, Abi
    <2>4. DOMAIN operands = {regs[j] : j \in 1 .. 7} /\ \A j \in 1 .. 7 : operands[regs[j]] = call[j]
      BY <2>2, HoldingAt
    <2>5. operands[build.d] = call[5]
      BY <2>2, <2>4
    <2>6. "r10" \notin {"rax", "rdi", "rsi", "rdx"} /\ "r8" # "r10" /\ "r9" # "r10"
      OBVIOUS
    <2>7. build.d \in DOMAIN operands /\ build.e \in DOMAIN operands
      BY <2>2, <2>4
    <2> HIDE DEF operands
    <2>8. /\ second["r10"] = call[5]
          /\ \A r \in {"rax", "rdi", "rsi", "rdx"} : second[r] = operands[r]
          /\ {"rax", "rdi", "rsi", "rdx", "r10"} \subseteq DOMAIN second
      BY <2>4, <2>5, <2>6 DEF Mov
    <2> HIDE DEF second
    <2>9. /\ third["r10"] = call[5]
          /\ \A r \in {"rax", "rdi", "rsi", "rdx"} : third[r] = operands[r]
          /\ {"rax", "rdi", "rsi", "rdx", "r10"} \subseteq DOMAIN third
      BY <2>8 DEF Mov
    <2> HIDE DEF third
    <2>10. /\ Registers(call)["r10"] = call[5]
           /\ \A r \in {"rax", "rdi", "rsi", "rdx"} : Registers(call)[r] = operands[r]
      BY <2>3, <2>9 DEF Mov
    <2>11. /\ operands["rax"] = call[1] /\ operands["rdi"] = call[2]
           /\ operands["rsi"] = call[3] /\ operands["rdx"] = call[4]
      BY <2>2, <2>4
    <2> QED
      BY <1>2, <2>3, <2>10, <2>11
  <1> QED
    BY <1>1, <1>3, <1>4, <1>5, <1>6

\* A set for every word the programs handle.
AnyWord == STRING \cup {NULL, "su", "hello", "bye"}

\* Arguments and environment are lists of words without a null.
LEMMA ListFacts ==
  ASSUME NEW list \in ArgLists \cup EnvLists
  PROVE  /\ list \in Seq(AnyWord) /\ Len(list) \in Nat
         /\ \A k \in 1 .. Len(list) : list[k] \in AnyWord /\ list[k] # NULL
  <1>1. list \in Seq(STRING) /\ \A k \in DOMAIN list : list[k] # NULL
    BY SmallRtAssumption
  <1>2. STRING \subseteq AnyWord
    BY Zenon DEF AnyWord
  <1>3. list \in Seq(AnyWord)
    BY <1>1, <1>2, SeqMonotonic
  <1> QED
    BY <1>1, <1>3

\* The words above argc, one by one.
LEMMA StackAt ==
  ASSUME NEW args \in ArgLists, NEW env \in EnvLists
  PROVE  LET w == StackWords(args, env)
             n == Len(args)
             m == Len(env)
         IN  /\ w \in Seq(AnyWord) /\ Len(w) = n + m + 2
             /\ \A k \in 1 .. n : w[k] = args[k] /\ w[k] # NULL
             /\ w[n + 1] = NULL
             /\ \A k \in 1 .. m : w[n + 1 + k] = env[k] /\ w[n + 1 + k] # NULL
             /\ w[n + m + 2] = NULL
  <1> DEFINE n == Len(args)
             m == Len(env)
             front == args \o <<NULL>>
             middle == front \o env
  <1>1. /\ args \in Seq(AnyWord) /\ env \in Seq(AnyWord) /\ n \in Nat /\ m \in Nat
        /\ \A k \in 1 .. n : args[k] # NULL
        /\ \A k \in 1 .. m : env[k] # NULL
    BY ListFacts
  <1>2. <<NULL>> \in Seq(AnyWord) /\ Len(<<NULL>>) = 1 /\ <<NULL>>[1] = NULL
    <2>1. NULL \in AnyWord
      BY Zenon DEF AnyWord
    <2> QED
      BY <2>1
  <1>3. /\ front \in Seq(AnyWord) /\ Len(front) = Len(args) + 1
        /\ \A k \in 1 .. Len(args) + 1 :
             front[k] = IF k <= Len(args) THEN args[k] ELSE <<NULL>>[k - Len(args)]
    BY <1>1, <1>2, ConcatProperties
  <1> HIDE DEF front
  <1>4. /\ middle \in Seq(AnyWord) /\ Len(middle) = Len(front) + Len(env)
        /\ \A k \in 1 .. Len(front) + Len(env) :
             middle[k] = IF k <= Len(front) THEN front[k] ELSE env[k - Len(front)]
    BY <1>1, <1>3, ConcatProperties
  <1> HIDE DEF middle
  <1> DEFINE w == middle \o <<NULL>>
  <1>5. /\ w \in Seq(AnyWord) /\ Len(w) = Len(middle) + 1
        /\ \A k \in 1 .. Len(middle) + 1 :
             w[k] = IF k <= Len(middle) THEN middle[k] ELSE <<NULL>>[k - Len(middle)]
    BY <1>1, <1>2, <1>4, ConcatProperties
  <1>6. StackWords(args, env) = w
    BY DEF StackWords, w, middle, front
  <1> HIDE DEF w, n, m
  <1>7. /\ Len(front) = n + 1 /\ Len(middle) = n + m + 1 /\ Len(w) = n + m + 2
    BY <1>1, <1>3, <1>4, <1>5 DEF n, m
  <1>8. ASSUME NEW k \in 1 .. n PROVE w[k] = args[k] /\ w[k] # NULL
    BY <1>1, <1>3, <1>4, <1>5, <1>7 DEF n, m
  <1>9. ASSUME NEW k \in 1 .. m PROVE w[n + 1 + k] = env[k] /\ w[n + 1 + k] # NULL
    <2>1. n + 1 + k \in 1 .. n + m + 1 /\ n + 1 + k > n + 1 /\ (n + 1 + k) - (n + 1) = k
      BY <1>1
    <2>2. w[n + 1 + k] = middle[n + 1 + k]
      BY <1>1, <1>5, <1>7, <2>1
    <2>3. middle[n + 1 + k] = env[k]
      BY <1>1, <1>3, <1>4, <1>7, <2>1 DEF n, m
    <2> QED
      BY <1>1, <2>2, <2>3
  <1>10. w[n + 1] = NULL
    <2>1. n + 1 \in 1 .. n + m + 1
      BY <1>1
    <2>2. w[n + 1] = middle[n + 1]
      BY <1>1, <1>5, <1>7, <2>1
    <2>3. middle[n + 1] = front[n + 1]
      BY <1>1, <1>4, <1>7, <2>1 DEF m
    <2> QED
      BY <1>1, <1>2, <1>3, <2>2, <2>3 DEF n
  <1>11. w[n + m + 2] = NULL
    <2>1. (n + m + 2) - (n + m + 1) = 1 /\ n + m + 2 \in 1 .. n + m + 2 /\ ~(n + m + 2 <= n + m + 1)
      BY <1>1
    <2> QED
      BY <1>1, <1>2, <1>5, <1>7, <2>1
  <1> QED
    BY <1>5, <1>6, <1>7, <1>8, <1>9, <1>10, <1>11 DEF w, n, m

\* The first null word from p on is the n-th behind it.
NullBehind(p, n) ==
    p + n <= Len(words) /\ words[p + n] = NULL /\ \A k \in p .. p + n - 1 : words[k] # NULL

\* The kernel reads a vector up to its first null word.
LEMMA StringsUpToNull ==
  ASSUME NEW p \in Nat \ {0}, NEW n \in Nat, words \in Seq(AnyWord), NullBehind(p, n)
  PROVE  Strings(p) = SubSeq(words, p, p + n - 1)
  <1> DEFINE nulls == {k \in p .. Len(words) : words[k] = NULL}
  <1>1. p + n \in nulls /\ \A k \in nulls : p + n <= k
    BY DEF NullBehind
  <1>2. Min(nulls) = p + n
    <2>1. \A x \in nulls : (\A y \in nulls : x <= y) => x = p + n
      BY <1>1
    <2> HIDE DEF nulls
    <2> QED
      BY <1>1, <2>1 DEF Min
  <1>3. Strings(p) = SubSeq(words, p, Min(nulls) - 1)
    BY DEF Strings
  <1> HIDE DEF nulls
  <1> QED
    BY <1>2, <1>3

\* The stack of a program that calls itself "su".
LEMMA SuStackAt ==
  ASSUME NEW args \in ArgLists, NEW env \in EnvLists, args # <<>>
  PROVE  LET w == [StackWords(args, env) EXCEPT ![1] = "su"]
             n == Len(args)
             m == Len(env)
         IN  /\ w \in Seq(AnyWord) /\ Len(w) = n + m + 2 /\ n >= 1
             /\ w[1] = "su" /\ \A k \in 2 .. n : w[k] = args[k]
             /\ \A k \in 1 .. n : w[k] # NULL
             /\ w[n + 1] = NULL
             /\ \A k \in 1 .. m : w[n + 1 + k] = env[k] /\ w[n + 1 + k] # NULL
             /\ w[n + m + 2] = NULL
  <1> DEFINE old == StackWords(args, env)
             w == [old EXCEPT ![1] = "su"]
             n == Len(args)
             m == Len(env)
  <1>1. args \in Seq(AnyWord) /\ n \in Nat /\ m \in Nat
    BY ListFacts
  <1>2. n >= 1
    BY <1>1
  <1>3. /\ old \in Seq(AnyWord) /\ Len(old) = n + m + 2
        /\ \A k \in 1 .. n : old[k] = args[k] /\ old[k] # NULL
        /\ old[n + 1] = NULL
        /\ \A k \in 1 .. m : old[n + 1 + k] = env[k] /\ old[n + 1 + k] # NULL
        /\ old[n + m + 2] = NULL
    BY StackAt
  <1>4. "su" \in AnyWord /\ "su" # NULL
    BY Zenon DEF AnyWord, NULL
  <1> HIDE DEF old, n, m
  <1>5. /\ w \in Seq(AnyWord) /\ Len(w) = Len(old)
        /\ \A j \in 1 .. Len(old) : w[j] = IF j = 1 THEN "su" ELSE old[j]
    BY <1>1, <1>2, <1>3, <1>4, ExceptSeq
  <1> HIDE DEF w
  <1>6. w[1] = "su" /\ \A k \in 2 .. n : w[k] = args[k]
    BY <1>1, <1>2, <1>3, <1>5
  <1>7. \A k \in 1 .. n : w[k] # NULL
    BY <1>1, <1>2, <1>3, <1>4, <1>5
  <1>8. w[n + 1] = NULL /\ w[n + m + 2] = NULL
    BY <1>1, <1>2, <1>3, <1>5
  <1>9. ASSUME NEW k \in 1 .. m PROVE w[n + 1 + k] = env[k] /\ w[n + 1 + k] # NULL
    <2>1. n + 1 + k \in 1 .. Len(old) /\ n + 1 + k # 1
      BY <1>1, <1>2, <1>3
    <2> QED
      BY <1>3, <1>5, <2>1
  <1> QED
    BY <1>2, <1>3, <1>5, <1>6, <1>7, <1>8, <1>9 DEF w, old, n, m

\* What execve reads through the two pointers after argv[0] = "su".
LEMMA VectorsAfterSu ==
  ASSUME NEW args \in ArgLists, NEW env \in EnvLists, args # <<>>,
         words = [StackWords(args, env) EXCEPT ![1] = "su"]
  PROVE  /\ Strings(1) = <<"su">> \o Tail(args)
         /\ Strings(Len(args) + 2) = env
  <1> DEFINE n == Len(args)
             m == Len(env)
  <1>1. /\ args \in Seq(AnyWord) /\ n \in Nat /\ env \in Seq(AnyWord) /\ m \in Nat
    BY ListFacts
  <1>2. /\ words \in Seq(AnyWord) /\ Len(words) = n + m + 2 /\ n >= 1
        /\ words[1] = "su" /\ \A k \in 2 .. n : words[k] = args[k]
        /\ \A k \in 1 .. n : words[k] # NULL
        /\ words[n + 1] = NULL
        /\ \A k \in 1 .. m : words[n + 1 + k] = env[k] /\ words[n + 1 + k] # NULL
        /\ words[n + m + 2] = NULL
    BY SuStackAt
  <1>3. "su" \in AnyWord
    BY Zenon DEF AnyWord
  <1> HIDE DEF n, m
  <1>4. Strings(1) = SubSeq(words, 1, n)
    <2>1. 1 + n = n + 1 /\ 1 + n - 1 = n
      BY <1>1
    <2>2. NullBehind(1, n)
      BY <1>1, <1>2, <2>1 DEF NullBehind
    <2>3. Strings(1) = SubSeq(words, 1, 1 + n - 1)
      BY <1>1, <1>2, <2>2, StringsUpToNull
    <2> QED
      BY <2>1, <2>3
  <1>5. SubSeq(words, 1, n) = <<"su">> \o Tail(args)
    <2>1. /\ SubSeq(words, 1, n) \in Seq(AnyWord)
          /\ Len(SubSeq(words, 1, n)) = n
          /\ \A i_1 \in 1 .. n : SubSeq(words, 1, n)[i_1] = words[i_1]
      <3>1. \A k \in 1 .. n : words[k] \in AnyWord
        BY <1>1, <1>2, ElementOfSeq
      <3>2. /\ SubSeq(words, 1, n) \in Seq(AnyWord)
            /\ Len(SubSeq(words, 1, n)) = IF 1 <= n THEN n - 1 + 1 ELSE 0
            /\ \A k \in 1 .. n - 1 + 1 : SubSeq(words, 1, n)[k] = words[1 + k - 1]
        BY <1>1, <3>1, SubSeqProperties
      <3> QED
        BY <1>1, <1>2, <3>2
    <2>2. /\ Tail(args) \in Seq(AnyWord) /\ Len(Tail(args)) = n - 1
          /\ \A k \in 1 .. n - 1 : Tail(args)[k] = args[k + 1]
      BY <1>1, HeadTailProperties DEF n
    <2>3. <<"su">> \in Seq(AnyWord) /\ Len(<<"su">>) = 1 /\ <<"su">>[1] = "su"
      BY <1>3
    <2> DEFINE new == <<"su">> \o Tail(args)
    <2>4. /\ new \in Seq(AnyWord) /\ Len(new) = Len(<<"su">>) + Len(Tail(args))
          /\ \A k \in 1 .. Len(<<"su">>) + Len(Tail(args)) :
               new[k] = IF k <= Len(<<"su">>) THEN <<"su">>[k] ELSE Tail(args)[k - Len(<<"su">>)]
      BY <2>2, <2>3, ConcatProperties
    <2> HIDE DEF new
    <2>5. Len(new) = n
      BY <1>1, <2>2, <2>3, <2>4
    <2>6. new[1] = words[1]
      BY <1>1, <1>2, <2>2, <2>3, <2>4
    <2>7. \A k \in 2 .. n : new[k] = words[k]
      <3>1. \A k \in 2 .. n : new[k] = Tail(args)[k - 1]
        BY <1>1, <2>2, <2>3, <2>4
      <3>2. \A k \in 2 .. n : Tail(args)[k - 1] = args[k]
        BY <1>1, <2>2
      <3> QED
        BY <1>2, <3>1, <3>2
    <2>8. \A k \in 1 .. n : SubSeq(words, 1, n)[k] = new[k]
      BY <1>1, <2>1, <2>6, <2>7
    <2>9. SubSeq(words, 1, n) = new
      BY <1>1, <2>1, <2>4, <2>5, <2>8, SeqEqual
    <2> QED
      BY <2>9 DEF new
  <1>6. Strings(n + 2) = SubSeq(words, n + 2, n + m + 1)
    <2>1. n + 2 \in Nat \ {0} /\ (n + 2) + m = n + m + 2 /\ (n + 2) + m - 1 = n + m + 1
      BY <1>1
    <2>2. \A k \in n + 2 .. n + m + 1 : words[k] # NULL
      <3>1. \A k \in n + 2 .. n + m + 1 : k - (n + 1) \in 1 .. m /\ n + 1 + (k - (n + 1)) = k
        BY <1>1
      <3> QED
        BY <1>2, <3>1
    <2>3. NullBehind(n + 2, m)
      BY <1>1, <1>2, <2>1, <2>2 DEF NullBehind
    <2>4. Strings(n + 2) = SubSeq(words, n + 2, (n + 2) + m - 1)
      BY <1>1, <1>2, <2>1, <2>3, StringsUpToNull
    <2> QED
      BY <2>1, <2>4
  <1>7. SubSeq(words, n + 2, n + m + 1) = env
    <2>1. \A k \in n + 2 .. n + m + 1 : words[k] \in AnyWord
      BY <1>1, <1>2, ElementOfSeq
    <2>2. /\ SubSeq(words, n + 2, n + m + 1) \in Seq(AnyWord)
          /\ Len(SubSeq(words, n + 2, n + m + 1)) =
               IF n + 2 <= n + m + 1 THEN (n + m + 1) - (n + 2) + 1 ELSE 0
          /\ \A k \in 1 .. (n + m + 1) - (n + 2) + 1 :
               SubSeq(words, n + 2, n + m + 1)[k] = words[(n + 2) + k - 1]
      BY <1>1, <2>1, SubSeqProperties
    <2>3. Len(SubSeq(words, n + 2, n + m + 1)) = m
      BY <1>1, <2>2
    <2>4. ASSUME NEW k \in 1 .. m PROVE SubSeq(words, n + 2, n + m + 1)[k] = env[k]
      <3>1. (n + 2) + k - 1 = n + 1 + k /\ (n + m + 1) - (n + 2) + 1 = m
        BY <1>1
      <3> QED
        BY <1>2, <2>2, <3>1
    <2> QED
      BY <1>1, <2>2, <2>3, <2>4, SeqEqual DEF m
  <1> QED
    BY <1>4, <1>5, <1>6, <1>7 DEF n

(***************************************************************************)
(* What the stack holds, and what execve gets from it.                     *)
(***************************************************************************)

\* At the start no launcher has written to the stack.
LEMMA InitStack == Init => StackInv
  BY DEF Init, RtInit, StackInv, AsStarted, AfterReboot, AfterGrant

\* The start code sets the two pointers, the demos leave the stack alone.
LEMMA RtStepStack == Inv /\ StackInv /\ RtNext /\ UNCHANGED ksuvars => StackInv'
  <1> SUFFICES ASSUME Inv, StackInv, RtNext, UNCHANGED ksuvars PROVE StackInv'
    OBVIOUS
  <1>1. /\ prog' = prog /\ started' = started /\ build' = build /\ words' = words
        /\ image' = image /\ handed' = handed
        /\ AsStarted' = AsStarted /\ AsSu' = AsSu /\ HandedOver' = HandedOver
    BY DEF RtNext, PrepMain, SmallStart, SmallStartTests, Hello3Opens, Hello3Writes,
           startup, image_vars, ksuvars, AsStarted, AsSu, HandedOver
  <1>2. CASE PrepMain
    <2>1. argv' = 1 /\ envp' = Len(started.args) + 2 /\ pc' = "main"
      BY <1>2 DEF PrepMain, EnvpOf
    <2> QED
      BY <1>1, <2>1 DEF StackInv, AfterReboot, AfterGrant
  <1>3. CASE SmallStart \/ SmallStartTests \/ Hello3Opens \/ Hello3Writes
    <2>1. argv' = argv /\ envp' = envp /\ pc # "start"
      BY <1>3 DEF SmallStart, SmallStartTests, Hello3Opens, Hello3Writes, image_vars
    <2>2. pc' = pc \/ pc' \in {"envp", "argv", "done"}
      BY <1>3 DEF SmallStart, SmallStartTests, Hello3Opens, Hello3Writes, ExitWith, Fault
    <2> QED
      BY <1>1, <2>1, <2>2 DEF StackInv, AfterReboot, AfterGrant
  <1> QED
    BY <1>2, <1>3 DEF RtNext

\* argv[0] is overwritten once, before the reboot call or after the grant.
LEMMA RenameStack == Inv /\ StackInv /\ (Reboot \/ Grant) => StackInv'
  <1> SUFFICES ASSUME Inv, StackInv, Reboot \/ Grant PROVE StackInv'
    OBVIOUS
  <1>1. /\ prog' = prog /\ started' = started /\ build' = build /\ image' = image
        /\ handed' = handed /\ argv' = argv /\ envp' = envp
        /\ AsStarted' = AsStarted /\ AsSu' = AsSu /\ HandedOver' = HandedOver
    BY DEF Reboot, Grant, setting, startup, AsStarted, AsSu, HandedOver
  <1>2. argv = 1 /\ envp = Len(started.args) + 2 /\ pc # "start" /\ image = "self"
    BY DEF Reboot, Grant, Inv, OnTheWay, StackInv
  <1>3. CASE Reboot
    <2>1. words = AsStarted
      BY <1>3 DEF Reboot, Inv, BeforeReboot, AsStarted
    <2>2. words' = IF prog \in {"su", "su_ndk"} THEN AsSu ELSE AsStarted
      BY <1>2, <1>3, <2>1 DEF Reboot, Renamed, AsSu
    <2>3. /\ pc' \in {"done", "info", "grant"} /\ prog \notin Demos
          /\ pc' = "grant" => prog \in SuPrograms
      BY <1>3 DEF Reboot, Fail, ExitWith
    <2> QED
      BY <1>1, <1>2, <2>2, <2>3 DEF StackInv, AfterReboot, AfterGrant, SuPrograms
  <1>4. CASE Grant
    <2>1. pc = "grant" /\ pc' \in {"open_kmsg", "exec_ksud"} /\ prog \in SuPrograms
      BY <1>4 DEF Grant, StackInv, AfterReboot
    <2>2. words' = AsSu
      <3>1. CASE prog = "small_su"
        <4>1. words' = [words EXCEPT ![1] = "su"]
          BY <1>2, <1>4, <3>1 DEF Grant, Renamed
        <4>2. [AsSu EXCEPT ![1] = "su"] = AsSu
          BY DEF AsSu
        <4> QED
          BY <4>1, <4>2 DEF StackInv, AsSu
      <3>2. CASE prog # "small_su"
        BY <1>4, <2>1, <3>2 DEF Grant, Renamed, StackInv, AfterReboot
      <3> QED
        BY <3>1, <3>2
    <2>3. prog \notin Demos
      BY <2>1 DEF Demos, SuPrograms
    <2> QED
      BY <1>1, <1>2, <2>1, <2>2, <2>3 DEF StackInv, AfterReboot, AfterGrant
  <1> QED
    BY <1>3, <1>4

\* execve is given the arguments and the environment the launcher had.
LEMMA ExecStack == Inv /\ StackInv /\ (ExecKsud \/ ExecSh) => StackInv'
  <1> SUFFICES ASSUME Inv, StackInv, ExecKsud \/ ExecSh PROVE StackInv'
    OBVIOUS
  <1>1. PICK path : Exec(path) /\ pc \in {"exec_ksud", "exec_sh"}
    BY DEF ExecKsud, ExecSh
  <1>2. /\ prog' = prog /\ started' = started /\ build' = build /\ words' = words
        /\ argv' = argv /\ envp' = envp /\ pc' = "done"
        /\ AsStarted' = AsStarted /\ AsSu' = AsSu /\ HandedOver' = HandedOver
    BY <1>1 DEF Exec, setting, startup, AsStarted, AsSu, HandedOver
  <1>3. /\ words = AsSu /\ argv = 1 /\ envp = Len(started.args) + 2 /\ build \in Builds
        /\ started.args \in ArgLists /\ started.env \in EnvLists /\ prog \notin Demos
    BY <1>1 DEF StackInv, Inv, BeforeReboot, AfterReboot, AfterGrant, SuPrograms, Demos
  <1> DEFINE call == <<"execve", path, argv, envp, "0", "0", "0">>
  <1>4. KernelSees(call)[3] = argv /\ KernelSees(call)[4] = envp
    <2>1. DOMAIN call = 1 .. 7 /\ call[3] = argv /\ call[4] = envp
      OBVIOUS
    <2> HIDE DEF call
    <2> QED
      BY <1>3, <2>1, Arrives
  <1>5. handed' = [args |-> Strings(argv), env |-> Strings(envp)]
    BY <1>1, <1>4 DEF Exec
  <1>6. started.args # <<>> => handed' = HandedOver
    BY <1>3, <1>5, VectorsAfterSu DEF AsSu, AsStarted, HandedOver
  <1> QED
    BY <1>2, <1>3, <1>6 DEF StackInv, AfterReboot, AfterGrant

\* The other steps do not touch the stack.
LEMMA OtherStepsStack ==
  ASSUME Inv, StackInv,
         \/ Denied \/ Info \/ InfoOfUapi \/ SetFeature \/ Close \/ GrantRefused
         \/ OpenKmsg \/ CloseKmsg \/ ExecKsudFails \/ ExecShFails
  PROVE  StackInv'
  <1>1. /\ prog' = prog /\ started' = started /\ build' = build /\ words' = words
        /\ argv' = argv /\ envp' = envp /\ image' = image /\ handed' = handed
        /\ AsStarted' = AsStarted /\ AsSu' = AsSu /\ HandedOver' = HandedOver
    BY DEF Denied, Info, InfoOfUapi, SetFeature, Close, GrantRefused, OpenKmsg, CloseKmsg,
           ExecKsudFails, ExecShFails, setting, startup, AsStarted, AsSu, HandedOver
  <1>2. /\ pc # "start"
        /\ \/ pc' \in {"done", "set_feature", "close"}
           \/ pc \in AfterGrant /\ pc' \in AfterGrant
    BY DEF Denied, Info, InfoOfUapi, SetFeature, Close, GrantRefused, OpenKmsg, CloseKmsg,
           ExecKsudFails, ExecShFails, RefusalStops, Fail, Fault, ExitWith,
           AfterGrant, AfterReboot
  <1> QED
    BY <1>1, <1>2 DEF StackInv, AfterReboot, AfterGrant

\* Every step keeps what the launchers know of the stack.
LEMMA NextStack == Inv /\ StackInv /\ [Next]_vars => StackInv'
  <1> SUFFICES ASSUME Inv, StackInv, [Next]_vars PROVE StackInv'
    OBVIOUS
  <1>1. CASE Next
    BY <1>1, RtStepStack, RenameStack, ExecStack, OtherStepsStack DEF Next
  <1>2. CASE UNCHANGED vars
    BY <1>2 DEF vars, rtvars, startup, image_vars, ksuvars, StackInv, AsStarted, AsSu,
                HandedOver, AfterReboot, AfterGrant
  <1> QED
    BY <1>1, <1>2

\* Whatever registers the compiler picks, and however long the lists are, the
\* program a launcher turns into is called "su" and gets the launcher's other
\* arguments and its environment.
THEOREM ArgumentsAreHandedOver == Spec => []HandsOverArguments
  <1>1. StackInv => HandsOverArguments
    BY DEF StackInv, HandsOverArguments, HandedOver
  <1> QED
    BY <1>1, InitInv, InitStack, NextInv, NextStack, PTL DEF Spec

\* On every build the number and the first four arguments of a system call
\* reach the kernel, and all six where the wrapper pins the registers.
THEOREM CallsArrive == Spec => []CallArrives
  <1>1. StackInv => CallArrives
    <2> SUFFICES ASSUME StackInv, NEW k \in 1 .. 7, k <= 5 \/ build.arch # "x86_64"
                 PROVE  KernelSees(AnyCall)[k] = AnyCall[k]
      BY DEF CallArrives
    <2>1. DOMAIN AnyCall = 1 .. 7 /\ build \in Builds
      BY DEF AnyCall, StackInv
    <2> QED
      BY <2>1, Arrives
  <1> QED
    BY <1>1, InitInv, InitStack, NextInv, NextStack, PTL DEF Spec

(***************************************************************************)
(* The descriptor table.                                                   *)
(***************************************************************************)

\* The lowest free descriptor: nothing below it is free.
LEMMA LowestFree ==
  ASSUME NEW n \in 0 .. 4, n \notin DOMAIN fds, \A m \in 0 .. n - 1 : m \in DOMAIN fds
  PROVE  FreeFd = n
  <1> DEFINE free == (0 .. MaxFd) \ DOMAIN fds
  <1>1. n \in free /\ \A m \in free : n <= m
    BY MaxFdAssumption
  <1>2. \A x \in free : (\A y \in free : x <= y) => x = n
    BY <1>1
  <1>3. FreeFd = Min(free)
    BY DEF FreeFd
  <1> HIDE DEF free
  <1> QED
    BY <1>1, <1>2, <1>3 DEF Min

\* What the reboot call can do to the caller's table: KernelSU's descriptor is
\* 0, which the program takes for a failure, or 3.
LEMMA KsuDescriptor ==
  ASSUME fds \in StdTables
  PROVE  /\ FreeFd = 0 \/ (FreeFd = 3 /\ Opened(FreeFd, "ksu") = KsuTable)
         /\ "ksu" \notin {fds[n] : n \in DOMAIN fds}
  <1>1. PICK open \in StdFds : fds = [n \in open |-> "stdio"]
    BY DEF StdTables
  <1>2. DOMAIN fds = open /\ \A n \in open : fds[n] = "stdio"
    BY <1>1
  <1>3. CASE open = {1, 2}
    <2>1. FreeFd = 0
      BY <1>2, <1>3, LowestFree
    <2> QED
      BY <1>2, <2>1
  <1>4. CASE open = {0, 1, 2}
    <2>1. FreeFd = 3
      BY <1>2, <1>4, LowestFree
    <2>2. open \cup {3} = 0 .. 3
      BY <1>4
    <2>3. Opened(3, "ksu") = KsuTable
      BY <1>2, <1>4, <2>2 DEF Opened, KsuTable
    <2> QED
      BY <1>2, <2>1, <2>3
  <1> QED
    BY <1>3, <1>4 DEF StdFds

\* The log comes right behind it.
LEMMA KmsgDescriptor ==
  ASSUME fds = KsuTable
  PROVE  FreeFd = 4 /\ Opened(FreeFd, "kmsg") = KmsgTable
  <1>1. DOMAIN fds = 0 .. 3
    BY DEF KsuTable
  <1>2. FreeFd = 4
    BY <1>1, LowestFree
  <1>3. Opened(4, "kmsg") = KmsgTable
    BY <1>1 DEF Opened, KmsgTable
  <1> QED
    BY <1>2, <1>3

\* Closing the last descriptor undoes opening it.
LEMMA CloseUndoes ==
  /\ fds = KmsgTable => Closed(4) = KsuTable
  /\ fds = KsuTable => "ksu" \notin {Closed(3)[n] : n \in DOMAIN Closed(3)}
  <1>1. ASSUME fds = KmsgTable PROVE Closed(4) = KsuTable
    <2>1. DOMAIN fds = 0 .. 4 /\ (0 .. 4) \ {4} = 0 .. 3
      BY <1>1 DEF KmsgTable
    <2>2. \A n \in 0 .. 3 : fds[n] = KsuTable[n]
      BY <1>1 DEF KmsgTable
    <2> QED
      BY <2>1, <2>2 DEF Closed, KsuTable
  <1>2. ASSUME fds = KsuTable PROVE "ksu" \notin {Closed(3)[n] : n \in DOMAIN Closed(3)}
    <2>1. DOMAIN fds = 0 .. 3 /\ (0 .. 3) \ {3} = 0 .. 2
      BY <1>2 DEF KsuTable
    <2>2. \A n \in 0 .. 2 : fds[n] = "stdio"
      BY <1>2 DEF KsuTable
    <2> QED
      BY <2>1, <2>2 DEF Closed
  <1> QED
    BY <1>1, <1>2

\* At the start only the standard descriptors are open.
LEMMA InitTable == Init => TableInv
  BY DEF Init, RtInit, TableInv, StdTables

\* A demo leaves the table as its caller made it.
LEMMA RtStepTable == Inv /\ TableInv /\ RtNext /\ UNCHANGED ksuvars => TableInv'
  <1> SUFFICES ASSUME Inv, TableInv, RtNext, UNCHANGED ksuvars PROVE TableInv'
    OBVIOUS
  <1>1. prog' = prog /\ fds' = fds /\ fd' = fd /\ image' = image
    BY DEF RtNext, PrepMain, SmallStart, SmallStartTests, Hello3Opens, Hello3Writes,
           startup, image_vars, ksuvars
  <1>2. CASE PrepMain
    <2>1. pc = "start" /\ pc' = "main" /\ exit' = exit
      BY <1>2 DEF PrepMain
    <2> QED
      BY <1>1, <2>1 DEF TableInv
  <1>3. CASE SmallStart \/ SmallStartTests \/ Hello3Opens \/ Hello3Writes
    <2>1. /\ prog \in Demos /\ pc \in {"main", "envp", "argv"}
          /\ pc' \in {"main", "envp", "argv", "done"}
          /\ pc' # "done" => exit' = exit
          /\ pc' = "main" => pc = "main"
      BY <1>3 DEF SmallStart, SmallStartTests, Hello3Opens, Hello3Writes, ExitWith, Fault, Demos
    <2>2. fds \in StdTables
      BY <2>1 DEF TableInv
    <2>3. "ksu" \notin {fds[n] : n \in DOMAIN fds}
      BY <2>2, KsuDescriptor
    <2>4. image = "self"
      BY <2>1 DEF Inv, OnTheWay
    <2> QED
      BY <1>1, <2>1, <2>2, <2>3, <2>4 DEF TableInv
  <1> QED
    BY <1>2, <1>3 DEF RtNext

\* Only descriptor 3 gets a program past the reboot call.
LEMMA RebootTable == Inv /\ TableInv /\ Reboot => TableInv'
  <1> SUFFICES ASSUME Inv, TableInv, Reboot PROVE TableInv'
    OBVIOUS
  <1>1. /\ pc = "main" /\ prog' = prog /\ image' = image /\ prog \notin Demos
        /\ \/ fds' = Opened(FreeFd, "ksu") /\ fd' = FreeFd
           \/ fds' = fds /\ fd' = fd
        /\ \/ fd' = 0 /\ pc' = "done" /\ exit' \in {"1", "trap"}
           \/ fd' # 0 /\ pc' \in {"grant", "info"} /\ exit' = exit
    BY DEF Reboot, setting, startup, Fail, FailureOf, ExitWith
  <1>2. fds \in StdTables /\ fd = 0 /\ exit = "none"
    BY <1>1 DEF TableInv
  <1>3. image = "self"
    BY <1>1 DEF Inv, OnTheWay
  <1>4. fd' # 0 => fd' = 3 /\ fds' = KsuTable
    BY <1>1, <1>2, KsuDescriptor
  <1> QED
    BY <1>1, <1>2, <1>3, <1>4 DEF TableInv

\* Steps that neither open nor close a descriptor.
LEMMA QuietTable ==
  ASSUME Inv, StackInv, TableInv,
         \/ Denied \/ Info \/ InfoOfUapi \/ SetFeature \/ GrantRefused \/ Grant
         \/ ExecKsud \/ ExecKsudFails \/ ExecSh \/ ExecShFails
  PROVE  TableInv'
  <1>1. prog' = prog /\ fds' = fds /\ fd' = fd
    BY DEF Denied, Info, InfoOfUapi, SetFeature, GrantRefused, Grant, ExecKsud, ExecKsudFails,
           ExecSh, ExecShFails, Exec, setting, startup
  <1>2. CASE Denied \/ InfoOfUapi \/ GrantRefused \/ ExecShFails \/ (ExecKsudFails /\ pc' = "done")
    <2>1. pc # "done" /\ pc' = "done" /\ image' = image /\ exit' # "0"
      BY <1>2 DEF Denied, InfoOfUapi, GrantRefused, ExecShFails, ExecKsudFails, RefusalStops,
                  Fail, FailureOf, Fault, ExitWith
    <2>2. image = "self"
      BY <2>1 DEF Inv, OnTheWay
    <2> QED
      BY <1>1, <2>1, <2>2 DEF TableInv
  <1>3. CASE Info \/ SetFeature
    <2>1. /\ pc \in {"info", "set_feature"} /\ image' = image /\ exit' = exit
          /\ pc' \in {"set_feature", "close"}
          /\ prog = "ksu_fd_disable" \/ pc' = "close"
      BY <1>3 DEF Info, SetFeature
    <2>2. image = "self" /\ fd = 3 /\ fds = KsuTable
      BY <2>1 DEF Inv, OnTheWay, TableInv
    <2>3. prog \notin Demos
      BY <2>1 DEF TableInv
    <2> QED
      BY <1>1, <2>1, <2>2, <2>3 DEF TableInv
  <1>4. CASE Grant \/ (ExecKsudFails /\ pc' # "done")
    <2>1. /\ pc \in {"grant", "exec_ksud"} /\ image' = image /\ exit' = exit
          /\ pc' \in {"open_kmsg", "exec_ksud", "exec_sh"}
          /\ pc' = "open_kmsg" => pc = "grant"
      BY <1>4 DEF Grant, ExecKsudFails, Fail, ExitWith
    <2>2. image = "self" /\ fds = KsuTable /\ (pc = "grant" => fd = 3) /\ exit = "none"
      BY <2>1 DEF Inv, OnTheWay, TableInv
    <2> QED
      BY <1>1, <2>1, <2>2 DEF TableInv
  <1>5. CASE ExecKsud \/ ExecSh
    <2>1. pc \in {"exec_ksud", "exec_sh"} /\ pc' = "done" /\ exit' = exit
      BY <1>5 DEF ExecKsud, ExecSh, Exec
    <2>2. fds = KsuTable /\ exit = "none"
      BY <2>1 DEF TableInv
    <2> QED
      BY <1>1, <2>1, <2>2 DEF TableInv
  <1> QED
    BY <1>2, <1>3, <1>4, <1>5

\* The steps that open or close one.
LEMMA BusyTable ==
  ASSUME Inv, StackInv, TableInv, Close \/ OpenKmsg \/ CloseKmsg
  PROVE  TableInv'
  <1>1. prog' = prog /\ image' = image /\ image = "self"
    BY DEF Close, OpenKmsg, CloseKmsg, setting, startup, Inv, OnTheWay
  <1>2. CASE Close
    <2>1. /\ pc = "close" /\ pc' = "done" /\ prog \notin Demos
          /\ fds = KsuTable /\ fd = 3
      BY <1>2 DEF Close, TableInv
    <2>2. prog # "ksu_fd_test" => fds' = Closed(3)
      BY <1>2, <2>1 DEF Close, Closes
    <2> QED
      BY <1>1, <2>1, <2>2, CloseUndoes DEF TableInv
  <1>3. CASE OpenKmsg
    <2>1. /\ pc = "open_kmsg" /\ fds = KsuTable /\ exit = "none" /\ exit' = exit
          /\ prog \notin Demos
      BY <1>3 DEF OpenKmsg, TableInv, StackInv, AfterReboot, SuPrograms, Demos
    <2>2. \/ fds' = KmsgTable /\ fd' = 4
          \/ fds' = KsuTable /\ fd' = -1
      BY <1>3, <2>1, KmsgDescriptor DEF OpenKmsg
    <2>3. pc' = IF fd' >= 0 THEN "close_kmsg" ELSE "exec_ksud"
      BY <1>3 DEF OpenKmsg
    <2> QED
      BY <1>1, <2>1, <2>2, <2>3 DEF TableInv
  <1>4. CASE CloseKmsg
    <2>1. /\ pc = "close_kmsg" /\ pc' = "exec_ksud" /\ fds = KmsgTable /\ fd = 4
          /\ exit = "none" /\ exit' = exit /\ prog \notin Demos
      BY <1>4 DEF CloseKmsg, TableInv, StackInv, AfterReboot, SuPrograms, Demos
    <2>2. fds' = KsuTable
      BY <1>4, <2>1, CloseUndoes DEF CloseKmsg, KmsgFd
    <2> QED
      BY <1>1, <2>1, <2>2 DEF TableInv
  <1> QED
    BY <1>2, <1>3, <1>4

\* Every step keeps what is known of the descriptor table.
LEMMA NextTable == Inv /\ StackInv /\ TableInv /\ [Next]_vars => TableInv'
  <1> SUFFICES ASSUME Inv, StackInv, TableInv, [Next]_vars PROVE TableInv'
    OBVIOUS
  <1>1. CASE Next
    BY <1>1, RtStepTable, RebootTable, QuietTable, BusyTable DEF Next
  <1>2. CASE UNCHANGED vars
    BY <1>2 DEF vars, rtvars, startup, ksuvars, TableInv
  <1> QED
    BY <1>1, <1>2

\* Wherever the kernel puts its descriptors, execve passes on the caller's
\* output and error and not the log, and a program that returns 0 has closed
\* KernelSU's descriptor.
THEOREM DescriptorsAreCleared == Spec => []DescriptorsAtEnd
  <1>1. TableInv => DescriptorsAtEnd
    <2>1. ASSUME fds = KsuTable
          PROVE  "kmsg" \notin {fds[n] : n \in DOMAIN fds} /\ {1, 2} \subseteq DOMAIN fds
      BY <2>1 DEF KsuTable
    <2> QED
      BY <2>1 DEF TableInv, DescriptorsAtEnd
  <1> QED
    BY <1>1, InitInv, InitStack, InitTable, NextInv, NextStack, NextTable, PTL DEF Spec

(***************************************************************************)
(* What the demos print.                                                   *)
(***************************************************************************)

\* The smaller of two.
LEMMA MinOfTwo ==
  ASSUME NEW a \in Int, NEW b \in Int
  PROVE  Min({a, b}) = IF a <= b THEN a ELSE b
  BY DEF Min

\* The string that is given to write is the one written.
LEMMA WriteArrives == ASSUME build \in Builds, NEW s PROVE Write(s) = s
  <1> DEFINE call == <<"write", "1", s, "len", "0", "0", "0">>
  <1>1. DOMAIN call = 1 .. 7 /\ call[3] = s
    OBVIOUS
  <1>2. Write(s) = KernelSees(call)[3]
    BY DEF Write
  <1> HIDE DEF call
  <1> QED
    BY <1>1, <1>2, Arrives

\* The beginnings of a list.
LEMMA Beginnings ==
  ASSUME NEW list \in Seq(AnyWord)
  PROVE  /\ SubSeq(list, 1, 0) = <<>>
         /\ SubSeq(list, 1, Len(list)) = list
         /\ \A j \in 0 .. Len(list) : SubSeq(list, 1, j) \in Seq(AnyWord)
  <1>1. SubSeq(list, 1, 0) = <<>>
    BY SubSeqEmpty
  <1>2. SubSeq(list, 1, Len(list)) = list
    BY SubSeqFull
  <1>3. ASSUME NEW j \in 0 .. Len(list) PROVE SubSeq(list, 1, j) \in Seq(AnyWord)
    <2>1. \A k \in 1 .. j : list[k] \in AnyWord
      BY ElementOfSeq
    <2> QED
      BY <2>1, SubSeqProperties
  <1> QED
    BY <1>1, <1>2, <1>3

\* One string more of a list, behind what has been printed before.
LEMMA OneMore ==
  ASSUME NEW list \in Seq(AnyWord), NEW j \in 0 .. Len(list) - 1, NEW before \in Seq(AnyWord)
  PROVE  /\ Append(SubSeq(list, 1, j), list[j + 1]) = SubSeq(list, 1, j + 1)
         /\ Append(before \o SubSeq(list, 1, j), list[j + 1]) = before \o SubSeq(list, 1, j + 1)
  <1>0. Len(list) \in Nat /\ j + 1 \in 1 .. Len(list) /\ j \in 0 .. Len(list) /\ (j + 1) - 1 = j
    OBVIOUS
  <1>1. list[j + 1] \in AnyWord
    BY <1>0, ElementOfSeq
  <1> DEFINE shown == SubSeq(list, 1, j)
             word == list[j + 1]
  <1>2. shown \in Seq(AnyWord) /\ <<word>> \in Seq(AnyWord)
    BY <1>0, <1>1, Beginnings
  <1>3. SubSeq(list, 1, j + 1) = shown \o <<word>>
    <2>1. SubSeq(list, 1, j + 1) = SubSeq(list, 1, (j + 1) - 1) \o <<list[j + 1]>>
      BY <1>0, SubSeqRecursiveSecond
    <2> QED
      BY <1>0, <2>1
  <1> HIDE DEF shown, word
  <1>4. Append(shown, word) = shown \o <<word>>
    BY <1>1, <1>2, AppendIsConcat DEF word
  <1>5. before \o shown \in Seq(AnyWord)
    BY <1>2, ConcatProperties
  <1>6. Append(before \o shown, word) = (before \o shown) \o <<word>>
    BY <1>1, <1>5, AppendIsConcat DEF word
  <1>7. (before \o shown) \o <<word>> = before \o (shown \o <<word>>)
    BY <1>2, ConcatAssociative
  <1> QED
    BY <1>3, <1>4, <1>6, <1>7 DEF shown, word

\* Where a demo finds the strings and the two nulls.
LEMMA DemoStack ==
  ASSUME Inv, StackInv, prog \in Demos, pc # "start"
  PROVE  LET args == started.args
             env == started.env
             n == Len(args)
             m == Len(env)
         IN  /\ args \in Seq(AnyWord) /\ env \in Seq(AnyWord) /\ n \in Nat /\ m \in Nat
             /\ argv = 1 /\ envp = n + 2 /\ build \in Builds
             /\ \A k \in 0 .. n - 1 : words[argv + k] = args[k + 1] /\ words[argv + k] # NULL
             /\ words[argv + n] = NULL
             /\ \A k \in 0 .. m - 1 : words[envp + k] = env[k + 1] /\ words[envp + k] # NULL
             /\ words[envp + m] = NULL
  <1> DEFINE args == started.args
             env == started.env
             n == Len(args)
             m == Len(env)
  <1>1. args \in ArgLists /\ env \in EnvLists
    BY DEF Inv, BeforeReboot
  <1>2. words = StackWords(args, env) /\ argv = 1 /\ envp = n + 2 /\ build \in Builds
    BY DEF StackInv, AsStarted
  <1>3. args \in Seq(AnyWord) /\ env \in Seq(AnyWord) /\ n \in Nat /\ m \in Nat
    BY <1>1, ListFacts
  <1>4. /\ \A k \in 1 .. n : words[k] = args[k] /\ words[k] # NULL
        /\ words[n + 1] = NULL
        /\ \A k \in 1 .. m : words[n + 1 + k] = env[k] /\ words[n + 1 + k] # NULL
        /\ words[n + m + 2] = NULL
    BY <1>1, <1>2, StackAt
  <1> HIDE DEF args, env, n, m
  <1>5. \A k \in 0 .. n - 1 : words[argv + k] = args[k + 1] /\ words[argv + k] # NULL
    <2>1. \A k \in 0 .. n - 1 : k + 1 \in 1 .. n /\ argv + k = k + 1
      BY <1>2, <1>3
    <2> QED
      BY <1>4, <2>1
  <1>6. \A k \in 0 .. m - 1 : words[envp + k] = env[k + 1] /\ words[envp + k] # NULL
    <2>1. \A k \in 0 .. m - 1 : k + 1 \in 1 .. m /\ envp + k = n + 1 + (k + 1)
      BY <1>2, <1>3
    <2> QED
      BY <1>4, <2>1
  <1>7. words[argv + n] = NULL /\ words[envp + m] = NULL
    <2>1. argv + n = n + 1 /\ envp + m = n + m + 2
      BY <1>2, <1>3
    <2> QED
      BY <1>4, <2>1
  <1> QED
    BY <1>2, <1>3, <1>5, <1>6, <1>7 DEF args, env, n, m

\* At the start nothing has been printed.
LEMMA InitPrint == Init => PrintInv
  BY DEF Init, RtInit, PrintInv, PrintsWhatItWasGiven, Demos

\* main starts with nothing printed.
LEMMA PrepMainPrint == Inv /\ StackInv /\ TableInv /\ PrintInv /\ PrepMain => PrintInv'
  <1> SUFFICES ASSUME Inv, StackInv, TableInv, PrintInv, PrepMain PROVE PrintInv'
    OBVIOUS
  <1>1. /\ pc = "start" /\ pc' = "main" /\ i' = 0 /\ out' = <<>> /\ exit' = "none"
        /\ prog' = prog /\ started' = started
    BY DEF PrepMain, startup, PrintInv, TableInv
  <1>2. Len(started.args) \in Nat /\ started.args \in Seq(AnyWord)
    BY ListFacts DEF Inv, BeforeReboot
  <1>3. Shown(started.args)' = <<>> /\ ShownOfTen' = <<>>
    <2>1. Min({0, Len(started.args)}) = 0
      BY <1>2, MinOfTwo
    <2> QED
      BY <1>1, <1>2, <2>1, Beginnings DEF Shown, ShownOfTen
  <1>4. PrintsWhatItWasGiven'
    BY <1>1 DEF PrintsWhatItWasGiven
  <1>5. 0 \in 0 .. MaxShown - 1
    BY SmallRtAssumption
  <1> QED
    BY <1>1, <1>3, <1>4, <1>5 DEF PrintInv

\* small_start stands before a string it has not printed, except where a list
\* is empty.
LEMMA SmallStartPrint == Inv /\ StackInv /\ TableInv /\ PrintInv /\ SmallStart => PrintInv'
  <1> SUFFICES ASSUME Inv, StackInv, TableInv, PrintInv, SmallStart PROVE PrintInv'
    OBVIOUS
  <1> DEFINE args == started.args
             env == started.env
             n == Len(args)
             m == Len(env)
  <1>1. /\ prog = "small_start" /\ pc \in {"main", "envp"} /\ prog' = prog /\ started' = started
        /\ prog \in Demos /\ exit = "none"
    BY DEF SmallStart, startup, Demos, TableInv
  <1>2. /\ args \in Seq(AnyWord) /\ env \in Seq(AnyWord) /\ n \in Nat /\ m \in Nat
        /\ argv = 1 /\ envp = n + 2 /\ build \in Builds
        /\ \A k \in 0 .. n - 1 : words[argv + k] = args[k + 1] /\ words[argv + k] # NULL
        /\ words[argv + n] = NULL
        /\ \A k \in 0 .. m - 1 : words[envp + k] = env[k + 1] /\ words[envp + k] # NULL
        /\ words[envp + m] = NULL
    BY <1>1, DemoStack
  <1>3. /\ pc = "main" => (i = 0 \/ i \in 1 .. n - 1) /\ out = SubSeq(args, 1, i)
        /\ pc = "envp" => (i = 0 \/ i \in 1 .. m - 1) /\ out = args \o SubSeq(env, 1, i)
    BY <1>1 DEF PrintInv, Shown
  \* What is left to show, once for every label the step can lead to.
  <1>4. ASSUME /\ pc' \in {"main", "envp"} => exit' = "none"
               /\ pc' = "main" => i' \in 0 .. n - 1 /\ out' = SubSeq(args, 1, i')
               /\ pc' = "envp" =>
                    (i' = 0 \/ i' \in 1 .. m - 1) /\ out' = args \o SubSeq(env, 1, i')
               /\ pc' \in {"main", "envp", "done"}
               /\ pc' = "done" => \/ exit' = "fault" /\ (args = <<>> \/ env = <<>>)
                                  \/ exit' = "0" /\ out' = args \o env
        PROVE  PrintInv'
    <2>1. exit' = "fault" => args = <<>> \/ env = <<>>
      BY <1>4
    <2>2. exit' \in {"0", "1"} => out' = args \o env
      BY <1>4
    <2>3. PrintsWhatItWasGiven'
      BY <1>1, <2>1, <2>2 DEF PrintsWhatItWasGiven
    <2>4. pc' = "main" => i' = 0 \/ i' \in 1 .. n - 1
      BY <1>2, <1>4
    <2>5. Shown(args)' = SubSeq(args, 1, i') /\ Shown(env)' = SubSeq(env, 1, i')
      BY <1>1 DEF Shown
    <2> QED
      BY <1>1, <1>4, <2>3, <2>4, <2>5 DEF PrintInv
  <1> HIDE DEF args, env, n, m
  <1>5. CASE pc = "main" /\ words[argv + i] = NULL
    <2>1. n = 0
      <3>1. n # 0 => i \in 0 .. n - 1
        BY <1>2, <1>3, <1>5
      <3> QED
        BY <1>2, <1>5, <3>1
    <2>2. args = <<>>
      BY <1>2, <2>1 DEF n
    <2>3. pc' = "done" /\ exit' = "fault"
      BY <1>1, <1>5 DEF SmallStart, Fault, ExitWith
    <2> QED
      BY <1>4, <2>2, <2>3
  <1>6. CASE pc = "main" /\ words[argv + i] # NULL
    <2>1. i \in 0 .. n - 1
      BY <1>2, <1>3, <1>6
    <2>2. words[argv + i] = args[i + 1]
      BY <1>2, <2>1
    <2>3. out' = Append(out, args[i + 1])
      BY <1>1, <1>2, <1>6, <2>2, WriteArrives DEF SmallStart
    <2>4. out' = SubSeq(args, 1, i + 1)
      BY <1>2, <1>3, <1>6, <2>1, <2>3, OneMore DEF n
    <2>5. LastWord(argv) <=> i + 1 = n
      <3>1. argv + i + 1 = argv + (i + 1)
        BY <1>2, <2>1
      <3>2. i + 1 = n \/ i + 1 \in 0 .. n - 1
        BY <1>2, <2>1
      <3> QED
        BY <1>2, <3>1, <3>2 DEF LastWord
    <2>6. CASE LastWord(argv)
      <3>1. pc' = "envp" /\ i' = 0 /\ exit' = exit
        BY <1>1, <1>6, <2>6 DEF SmallStart
      <3>2. out' = args \o SubSeq(env, 1, 0)
        BY <1>2, <2>4, <2>5, <2>6, Beginnings, ConcatEmptySeq DEF n
      <3> QED
        BY <1>1, <1>4, <3>1, <3>2
    <2>7. CASE ~LastWord(argv)
      <3>1. pc' = "main" /\ i' = i + 1 /\ exit' = exit
        BY <1>1, <1>6, <2>7 DEF SmallStart
      <3>2. i' \in 0 .. n - 1
        BY <1>2, <2>1, <2>5, <2>7, <3>1
      <3> QED
        BY <1>1, <1>4, <2>4, <3>1, <3>2
    <2> QED
      BY <2>6, <2>7
  <1>7. CASE pc = "envp" /\ words[envp + i] = NULL
    <2>1. m = 0
      <3>1. m # 0 => i \in 0 .. m - 1
        BY <1>2, <1>3, <1>7
      <3> QED
        BY <1>2, <1>7, <3>1
    <2>2. env = <<>>
      BY <1>2, <2>1 DEF m
    <2>3. pc' = "done" /\ exit' = "fault"
      BY <1>1, <1>7 DEF SmallStart, Fault, ExitWith
    <2> QED
      BY <1>4, <2>2, <2>3
  <1>8. CASE pc = "envp" /\ words[envp + i] # NULL
    <2>1. i \in 0 .. m - 1
      BY <1>2, <1>3, <1>8
    <2>2. words[envp + i] = env[i + 1]
      BY <1>2, <2>1
    <2>3. out' = Append(out, env[i + 1])
      BY <1>1, <1>2, <1>8, <2>2, WriteArrives DEF SmallStart
    <2>4. out' = args \o SubSeq(env, 1, i + 1)
      BY <1>2, <1>3, <1>8, <2>1, <2>3, OneMore DEF m
    <2>5. LastWord(envp) <=> i + 1 = m
      <3>1. envp + i + 1 = envp + (i + 1)
        BY <1>2, <2>1
      <3>2. i + 1 = m \/ i + 1 \in 0 .. m - 1
        BY <1>2, <2>1
      <3> QED
        BY <1>2, <3>1, <3>2 DEF LastWord
    <2>6. CASE LastWord(envp)
      <3>1. pc' = "done" /\ exit' = "0"
        BY <1>1, <1>8, <2>6 DEF SmallStart, ExitWith
      <3>2. out' = args \o env
        BY <1>2, <2>4, <2>5, <2>6, Beginnings DEF m
      <3> QED
        BY <1>4, <3>1, <3>2
    <2>7. CASE ~LastWord(envp)
      <3>1. pc' = "envp" /\ i' = i + 1 /\ exit' = exit
        BY <1>1, <1>8, <2>7 DEF SmallStart
      <3>2. i' \in 1 .. m - 1
        BY <1>2, <2>1, <2>5, <2>7, <3>1
      <3> QED
        BY <1>1, <1>4, <2>4, <3>1, <3>2
    <2> QED
      BY <2>6, <2>7
  <1> QED
    BY <1>1, <1>5, <1>6, <1>7, <1>8

\* The first version has shown as many arguments as it has counted, or all.
LEMMA SmallStartTestsPrint ==
  Inv /\ StackInv /\ TableInv /\ PrintInv /\ SmallStartTests => PrintInv'
  <1> SUFFICES ASSUME Inv, StackInv, TableInv, PrintInv, SmallStartTests PROVE PrintInv'
    OBVIOUS
  <1> DEFINE args == started.args
             n == Len(args)
  <1>1. /\ prog = "small_start_tests" /\ pc = "main" /\ prog' = prog /\ started' = started
        /\ prog \in Demos /\ exit = "none" /\ i' = i + 1
        /\ IF i' < MaxShown THEN pc' = pc /\ exit' = exit ELSE pc' = "done" /\ exit' = "1"
    BY DEF SmallStartTests, startup, Demos, TableInv, ExitWith
  <1>2. /\ args \in Seq(AnyWord) /\ n \in Nat /\ build \in Builds
        /\ \A k \in 0 .. n - 1 : words[argv + k] = args[k + 1]
    BY <1>1, DemoStack
  <1>3. i \in 0 .. MaxShown - 1 /\ out = SubSeq(args, 1, Min({i, n})) /\ MaxShown \in Nat \ {0}
    BY <1>1, SmallRtAssumption DEF PrintInv, ShownOfTen
  <1>4. out' = SubSeq(args, 1, Min({i', n}))
    <2> HIDE DEF args, n
    <2>1. CASE n > i
      <3>1. i \in 0 .. n - 1 /\ Min({i, n}) = i /\ Min({i + 1, n}) = i + 1
        BY <1>2, <1>3, <2>1, MinOfTwo
      <3>2. out' = Append(out, args[i + 1])
        BY <1>2, <2>1, <3>1, WriteArrives DEF SmallStartTests, args, n
      <3>3. out' = SubSeq(args, 1, i + 1)
        BY <1>2, <1>3, <3>1, <3>2, OneMore DEF n
      <3> QED
        BY <1>1, <3>1, <3>3
    <2>2. CASE ~(n > i)
      <3>1. Min({i, n}) = n /\ Min({i + 1, n}) = n
        BY <1>2, <1>3, <2>2, MinOfTwo
      <3>2. out' = out
        BY <2>2 DEF SmallStartTests, args, n
      <3> QED
        BY <1>1, <1>3, <3>1, <3>2
    <2> QED
      BY <1>2, <1>3, <2>1, <2>2
  <1>5. exit' \in {"0", "1"} => i' = MaxShown
    BY <1>1, <1>3
  <1>6. PrintsWhatItWasGiven'
    <2>1. exit' # "fault"
      BY <1>1
    <2>2. exit' \in {"0", "1"} => out' = SubSeq(args, 1, Min({MaxShown, n}))
      BY <1>4, <1>5
    <2> QED
      BY <1>1, <2>1, <2>2 DEF PrintsWhatItWasGiven
  <1>7. pc' = "main" => i' \in 0 .. MaxShown - 1
    BY <1>1, <1>3
  <1>8. ShownOfTen' = SubSeq(args, 1, Min({i', n}))
    BY <1>1 DEF ShownOfTen
  <1> QED
    BY <1>1, <1>4, <1>6, <1>7, <1>8 DEF PrintInv

\* hello3 opens the log, or ends without a word.
LEMMA Hello3OpensPrint ==
  Inv /\ StackInv /\ TableInv /\ PrintInv /\ Hello3Opens => PrintInv'
  <1> SUFFICES ASSUME Inv, StackInv, TableInv, PrintInv, Hello3Opens PROVE PrintInv'
    OBVIOUS
  <1> DEFINE args == started.args
  <1>1. /\ prog = "hello3" /\ pc = "main" /\ prog' = prog /\ started' = started
        /\ prog \in Demos /\ exit = "none" /\ i' = 0 /\ out = <<>>
    BY DEF Hello3Opens, startup, Demos, TableInv, PrintInv
  <1>2. args \in Seq(AnyWord) /\ Len(args) \in Nat /\ build \in Builds
    BY <1>1, DemoStack
  <1>3. CASE pc' = "done" /\ exit' = "0" /\ out' = <<>>
    BY <1>1, <1>3 DEF PrintInv, PrintsWhatItWasGiven
  <1>4. CASE pc' = "argv" /\ out' = <<"hello">> /\ exit' = "none"
    <2>1. <<"hello">> \in Seq(AnyWord)
      <3>1. "hello" \in AnyWord
        BY Zenon DEF AnyWord
      <3> QED
        BY <3>1
    <2>2. out' = <<"hello">> \o Shown(args)'
      BY <1>1, <1>2, <1>4, <2>1, Beginnings, ConcatEmptySeq DEF Shown
    <2>3. PrintsWhatItWasGiven'
      BY <1>4 DEF PrintsWhatItWasGiven
    <2>4. i' \in 0 .. Len(args)
      BY <1>1, <1>2
    <2> QED
      BY <1>1, <1>4, <2>2, <2>3, <2>4 DEF PrintInv
  <1> QED
    BY <1>1, <1>2, <1>3, <1>4, WriteArrives DEF Hello3Opens, ExitWith

\* hello3 shows the arguments up to the null, then the environment.
LEMMA Hello3WritesPrint ==
  Inv /\ StackInv /\ TableInv /\ PrintInv /\ Hello3Writes => PrintInv'
  <1> SUFFICES ASSUME Inv, StackInv, TableInv, PrintInv, Hello3Writes PROVE PrintInv'
    OBVIOUS
  <1> DEFINE args == started.args
             env == started.env
             n == Len(args)
             m == Len(env)
             greeting == <<"hello">>
             first == greeting \o args
  <1>1. /\ prog = "hello3" /\ pc \in {"argv", "envp"} /\ prog' = prog /\ started' = started
        /\ prog \in Demos /\ exit = "none"
    BY DEF Hello3Writes, startup, Demos, TableInv
  <1>2. /\ args \in Seq(AnyWord) /\ env \in Seq(AnyWord) /\ n \in Nat /\ m \in Nat
        /\ argv = 1 /\ envp = n + 2 /\ build \in Builds
        /\ \A k \in 0 .. n - 1 : words[argv + k] = args[k + 1] /\ words[argv + k] # NULL
        /\ words[argv + n] = NULL
        /\ \A k \in 0 .. m - 1 : words[envp + k] = env[k + 1] /\ words[envp + k] # NULL
        /\ words[envp + m] = NULL
    BY <1>1, DemoStack
  <1>3. /\ pc = "argv" => i \in 0 .. n /\ out = greeting \o SubSeq(args, 1, i)
        /\ pc = "envp" => i \in 0 .. m /\ out = first \o SubSeq(env, 1, i)
    BY <1>1 DEF PrintInv, Shown
  <1>4. greeting \in Seq(AnyWord) /\ "bye" \in AnyWord
    <2>1. "hello" \in AnyWord /\ "bye" \in AnyWord
      BY Zenon DEF AnyWord
    <2> QED
      BY <2>1
  <1>5. ASSUME /\ pc' \in {"argv", "envp"} => exit' = "none"
               /\ pc' = "argv" => i' \in 0 .. n /\ out' = greeting \o SubSeq(args, 1, i')
               /\ pc' = "envp" => i' \in 0 .. m /\ out' = first \o SubSeq(env, 1, i')
               /\ pc' \in {"argv", "envp", "done"}
               /\ pc' = "done" => exit' = "0" /\ out' = (first \o env) \o <<"bye">>
        PROVE  PrintInv'
    <2>1. exit' # "fault"
      BY <1>5
    <2>2. exit' \in {"0", "1"} => out' = (first \o env) \o <<"bye">>
      BY <1>5
    <2>3. PrintsWhatItWasGiven'
      BY <1>1, <2>1, <2>2 DEF PrintsWhatItWasGiven
    <2>4. Shown(args)' = SubSeq(args, 1, i') /\ Shown(env)' = SubSeq(env, 1, i')
      BY <1>1 DEF Shown
    <2> QED
      BY <1>1, <1>5, <2>3, <2>4 DEF PrintInv
  <1>6. first \in Seq(AnyWord)
    BY <1>2, <1>4, ConcatProperties
  <1> DEFINE w == words[(IF pc = "argv" THEN argv ELSE envp) + i]
  <1>7. \/ w # NULL /\ out' = Append(out, w) /\ i' = i + 1 /\ pc' = pc /\ exit' = exit
        \/ w = NULL /\ pc = "argv" /\ pc' = "envp" /\ i' = 0 /\ out' = out /\ exit' = exit
        \/ w = NULL /\ pc = "envp" /\ pc' = "done" /\ exit' = "0" /\ out' = Append(out, "bye")
    BY <1>2, WriteArrives DEF Hello3Writes, ExitWith
  <1> HIDE DEF args, env, n, m, greeting, first
  <1>8. CASE pc = "argv" /\ w # NULL
    <2>1. i \in 0 .. n - 1
      BY <1>2, <1>3, <1>8
    <2>2. out' = Append(out, args[i + 1])
      BY <1>2, <1>7, <1>8, <2>1
    <2>3. out' = greeting \o SubSeq(args, 1, i + 1)
      BY <1>2, <1>3, <1>4, <1>8, <2>1, <2>2, OneMore DEF n
    <2>4. i + 1 \in 0 .. n
      BY <1>2, <2>1
    <2> QED
      BY <1>1, <1>5, <1>7, <1>8, <2>3, <2>4
  <1>9. CASE pc = "argv" /\ w = NULL
    <2>1. i = n
      <3>1. i # n => i \in 0 .. n - 1
        BY <1>2, <1>3, <1>9
      <3> QED
        BY <1>2, <1>9, <3>1
    <2>2. out = first
      BY <1>2, <1>3, <1>9, <2>1, Beginnings DEF n, first
    <2>3. first = first \o SubSeq(env, 1, 0)
      BY <1>2, <1>6, Beginnings, ConcatEmptySeq
    <2>4. 0 \in 0 .. m
      BY <1>2
    <2> QED
      BY <1>1, <1>5, <1>7, <1>9, <2>2, <2>3, <2>4
  <1>10. CASE pc = "envp" /\ w # NULL
    <2>1. i \in 0 .. m - 1
      BY <1>2, <1>3, <1>10
    <2>2. out' = Append(out, env[i + 1])
      BY <1>2, <1>7, <1>10, <2>1
    <2>3. out' = first \o SubSeq(env, 1, i + 1)
      BY <1>2, <1>3, <1>6, <1>10, <2>1, <2>2, OneMore DEF m
    <2>4. i + 1 \in 0 .. m
      BY <1>2, <2>1
    <2> QED
      BY <1>1, <1>5, <1>7, <1>10, <2>3, <2>4
  <1>11. CASE pc = "envp" /\ w = NULL
    <2>1. i = m
      <3>1. i # m => i \in 0 .. m - 1
        BY <1>2, <1>3, <1>11
      <3> QED
        BY <1>2, <1>11, <3>1
    <2>2. out = first \o env
      BY <1>2, <1>3, <1>11, <2>1, Beginnings DEF m
    <2>3. first \o env \in Seq(AnyWord)
      BY <1>2, <1>6, ConcatProperties
    <2>4. Append(first \o env, "bye") = (first \o env) \o <<"bye">>
      BY <1>4, <2>3, AppendIsConcat
    <2> QED
      BY <1>1, <1>5, <1>7, <1>11, <2>2, <2>4
  <1> QED
    BY <1>1, <1>8, <1>9, <1>10, <1>11

\* No other step is one of a demo.
LEMMA NextPrint == Inv /\ StackInv /\ TableInv /\ PrintInv /\ [Next]_vars => PrintInv'
  <1> SUFFICES ASSUME Inv, StackInv, TableInv, PrintInv, [Next]_vars PROVE PrintInv'
    OBVIOUS
  <1>1. CASE RtNext
    BY <1>1, PrepMainPrint, SmallStartPrint, SmallStartTestsPrint, Hello3OpensPrint,
       Hello3WritesPrint DEF RtNext
  <1>2. CASE \/ Denied \/ Reboot \/ Info \/ InfoOfUapi \/ SetFeature \/ Close
             \/ GrantRefused \/ Grant \/ OpenKmsg \/ CloseKmsg
             \/ ExecKsud \/ ExecKsudFails \/ ExecSh \/ ExecShFails
    <2>1. prog' = prog
      BY <1>2 DEF Denied, Reboot, Info, InfoOfUapi, SetFeature, Close, GrantRefused, Grant,
                  OpenKmsg, CloseKmsg, ExecKsud, ExecKsudFails, ExecSh, ExecShFails, Exec,
                  setting, startup
    <2>2. /\ prog = "small_su" \/ prog \notin Demos \/ pc \notin {"start", "main", "argv", "envp", "done"}
          /\ pc' # "start"
      BY <1>2 DEF Denied, Reboot, Info, InfoOfUapi, SetFeature, Close, GrantRefused, Grant,
                  OpenKmsg, CloseKmsg, ExecKsud, ExecKsudFails, ExecSh, ExecShFails, Exec,
                  Fail, Fault, ExitWith, RefusalStops
    <2>3. prog \notin Demos
      BY <2>2 DEF PrintInv, Demos
    <2> QED
      BY <2>1, <2>2, <2>3 DEF PrintInv, PrintsWhatItWasGiven, Demos
  <1>3. CASE UNCHANGED vars
    BY <1>3 DEF vars, rtvars, startup, PrintInv, PrintsWhatItWasGiven, Shown, ShownOfTen
  <1> QED
    BY <1>1, <1>2, <1>3 DEF Next

\* The whole invariant, as a model checker can evaluate it.
LEMMA FullInvariance == Spec => []FullInv
  <1>1. Init => FullInv
    BY InitInv, InitStack, InitTable, InitPrint DEF FullInv
  <1>2. FullInv /\ [Next]_vars => FullInv'
    BY NextInv, NextStack, NextTable, NextPrint DEF FullInv
  <1> QED
    BY <1>1, <1>2, PTL DEF Spec

\* A demo that returns has printed what it was started with, each string once
\* and in order, and reads a null pointer only where a list is empty.
THEOREM DemosPrintWhatTheyGot == Spec => []PrintsWhatItWasGiven
  <1>1. FullInv => PrintsWhatItWasGiven
    BY DEF FullInv, PrintInv
  <1> QED
    BY <1>1, FullInvariance, PTL

(***************************************************************************)
(* Where the code keeps what it breaks elsewhere.                          *)
(***************************************************************************)

\* Which table a launcher starts from, and the reading of "still 0".
ZeroInv ==
    /\ pc \in {"start", "main"} => 0 \in DOMAIN fds
    /\ ZeroMeansFailure

InfoOnly == {"ksu_fd", "ksu_fd_disable", "ksu_fd_test"}

\* With descriptor 0 taken, a reboot call that is answered gives another one.
LEMMA RebootZero == TableInv /\ ZeroInv /\ Reboot => ZeroInv'
  <1> SUFFICES ASSUME TableInv, ZeroInv, Reboot PROVE ZeroInv'
    OBVIOUS
  <1>1. /\ pc = "main" /\ pc' \notin {"start", "main"}
        /\ \/ fds' = Opened(FreeFd, "ksu") /\ fd' = FreeFd
           \/ fds' = fds
        /\ fd' # 0 => exit' = exit
    BY DEF Reboot, Fail, ExitWith
  <1>2. fds \in StdTables /\ exit = "none" /\ 0 \in DOMAIN fds
    BY <1>1 DEF TableInv, ZeroInv
  <1>3. "ksu" \notin {fds[n] : n \in DOMAIN fds}
    BY <1>2, KsuDescriptor
  <1>4. FreeFd # 0
    <2>1. PICK open \in StdFds : fds = [n \in open |-> "stdio"]
      BY <1>2 DEF StdTables
    <2>2. DOMAIN fds = {0, 1, 2}
      BY <1>2, <2>1 DEF StdFds
    <2>3. FreeFd = 3
      BY <2>2, LowestFree
    <2> QED
      BY <2>3
  <1>5. CASE fds' = fds
    BY <1>1, <1>3, <1>5 DEF ZeroInv, ZeroMeansFailure
  <1>6. CASE fd' = FreeFd
    <2>1. exit' = "none"
      BY <1>1, <1>2, <1>4, <1>6
    <2> QED
      BY <1>1, <2>1 DEF ZeroInv, ZeroMeansFailure
  <1> QED
    BY <1>1, <1>5, <1>6

\* The other steps do not come back to the reboot call, and none of them makes
\* one of the three programs return 1.
LEMMA OtherStepsZero ==
  ASSUME Inv, StackInv, ZeroInv,
         \/ RtNext /\ UNCHANGED ksuvars
         \/ Denied \/ Info \/ InfoOfUapi \/ SetFeature \/ Close
         \/ GrantRefused \/ Grant \/ OpenKmsg \/ CloseKmsg
         \/ ExecKsud \/ ExecKsudFails \/ ExecSh \/ ExecShFails
  PROVE  ZeroInv'
  <1>1. CASE RtNext /\ UNCHANGED ksuvars
    <2>1. prog' = prog /\ fds' = fds
      BY <1>1 DEF RtNext, PrepMain, SmallStart, SmallStartTests, Hello3Opens, Hello3Writes,
                  startup, ksuvars
    <2>2. \/ pc = "start" /\ pc' = "main" /\ exit' = exit
          \/ prog \notin InfoOnly /\ (pc' \in {"start", "main"} => pc = "main")
      BY <1>1 DEF RtNext, PrepMain, SmallStart, SmallStartTests, Hello3Opens, Hello3Writes,
                  InfoOnly, ExitWith, Fault
    <2> QED
      BY <2>1, <2>2 DEF ZeroInv, ZeroMeansFailure, InfoOnly
  <1>2. CASE Info \/ SetFeature
    <2>1. prog' = prog /\ fds' = fds /\ exit' = exit /\ pc' \notin {"start", "main"}
      BY <1>2 DEF Info, SetFeature, setting, startup
    <2> QED
      BY <2>1 DEF ZeroInv, ZeroMeansFailure
  <1>3. CASE Close
    <2>1. exit' = "0" /\ pc' = "done"
      BY <1>3 DEF Close
    <2> QED
      BY <2>1 DEF ZeroInv, ZeroMeansFailure
  <1>4. CASE Denied \/ InfoOfUapi
    <2>1. prog' = prog /\ prog \in {"small_su", "uapi"} /\ pc' \notin {"start", "main"}
      BY <1>4 DEF Denied, InfoOfUapi, setting, startup, Fail, Fault, ExitWith
    <2> QED
      BY <2>1 DEF ZeroInv, ZeroMeansFailure
  <1>5. CASE \/ GrantRefused \/ Grant \/ OpenKmsg \/ CloseKmsg
             \/ ExecKsud \/ ExecKsudFails \/ ExecSh \/ ExecShFails
    <2>1. pc \in AfterReboot /\ prog' = prog
      BY <1>5 DEF GrantRefused, Grant, OpenKmsg, CloseKmsg, ExecKsud, ExecKsudFails, ExecSh,
                  ExecShFails, Exec, AfterReboot, setting, startup
    <2>2. pc' \notin {"start", "main"}
      BY <1>5 DEF GrantRefused, Grant, OpenKmsg, CloseKmsg, ExecKsud, ExecKsudFails, ExecSh,
                  ExecShFails, Exec, Fail, ExitWith
    <2>3. prog \in SuPrograms
      BY <2>1 DEF StackInv
    <2> QED
      BY <2>1, <2>2, <2>3 DEF ZeroInv, ZeroMeansFailure, SuPrograms
  <1> QED
    BY <1>1, <1>2, <1>3, <1>4, <1>5

\* "since we init this as 0, if its still 0 then it failed" is right of every
\* run whose caller has left standard input open.
THEOREM ZeroMeansFailureWithStdin == Spec /\ 0 \in DOMAIN fds => []ZeroMeansFailure
  <1>1. Init /\ 0 \in DOMAIN fds => ZeroInv
    BY DEF Init, RtInit, ZeroInv, ZeroMeansFailure
  <1>2. Inv /\ StackInv /\ TableInv /\ ZeroInv /\ [Next]_vars => ZeroInv'
    <2>1. ASSUME Inv, StackInv, TableInv, ZeroInv, Next PROVE ZeroInv'
      BY <2>1, RebootZero, OtherStepsZero DEF Next
    <2>2. ASSUME ZeroInv, UNCHANGED vars PROVE ZeroInv'
      BY <2>2 DEF ZeroInv, ZeroMeansFailure, vars, rtvars, startup, ksuvars
    <2> QED
      BY <2>1, <2>2
  <1>3. ZeroInv => ZeroMeansFailure
    BY DEF ZeroInv
  <1> QED
    BY <1>1, <1>2, <1>3, InitInv, InitStack, InitTable, NextInv, NextStack, NextTable, PTL DEF Spec

\* The builds whose moves "mov %5, %r10; mov %6, %r8; mov %7, %r9" read e and f
\* before they write over them.
ReadsBeforeWriting ==
    build.arch = "x86_64" => build.e # "r10" /\ build.f \notin {"r10", "r8"}

\* On such a build the last two arguments arrive too.
LEMMA LastTwoArrive ==
  ASSUME build \in Builds, build.arch = "x86_64", ReadsBeforeWriting, NEW call, DOMAIN call = 1 .. 7
  PROVE  KernelSees(call)[6] = call[6] /\ KernelSees(call)[7] = call[7]
  <1> DEFINE regs == <<"rax", "rdi", "rsi", "rdx", build.d, build.e, build.f>>
             operands == Holding(regs, call)
             second == Mov(operands, "r10", build.d)
             third == Mov(second, "r8", build.e)
  <1>1. /\ build.d \in FreeRegs /\ build.e \in FreeRegs /\ build.f \in FreeRegs
        /\ build.d # build.e /\ build.d # build.f /\ build.e # build.f
    BY BuildFacts
  <1>2. SevenDistinct(regs)
    BY <1>1, SmallRtAssumption DEF SevenDistinct
  <1>3. /\ operands[build.e] = call[6] /\ operands[build.f] = call[7]
        /\ build.e \in DOMAIN operands /\ build.f \in DOMAIN operands
    <2>1. regs[6] = build.e /\ regs[7] = build.f /\ 6 \in 1 .. 7 /\ 7 \in 1 .. 7
      OBVIOUS
    <2>2. DOMAIN operands = {regs[j] : j \in 1 .. 7} /\ \A j \in 1 .. 7 : operands[regs[j]] = call[j]
      <3> HIDE DEF regs
      <3> QED
        BY <1>2, HoldingAt
    <2> HIDE DEF regs, operands
    <2> QED
      BY <2>1, <2>2
  <1>4. Registers(call) = Mov(third, "r9", build.f)
    BY DEF Registers, X86_64
  <1>5. KernelSees(call)[6] = Registers(call)["r8"] /\ KernelSees(call)[7] = Registers(call)["r9"]
    BY DEF KernelSees, Abi
  <1> HIDE DEF operands
  <1>6. /\ second[build.e] = call[6] /\ second[build.f] = call[7]
        /\ build.e \in DOMAIN second /\ build.f \in DOMAIN second
    BY <1>3 DEF Mov, ReadsBeforeWriting
  <1> HIDE DEF second
  <1>7. third["r8"] = call[6] /\ third[build.f] = call[7] /\ "r8" \in DOMAIN third
    BY <1>6 DEF Mov, ReadsBeforeWriting
  <1> HIDE DEF third
  <1>8. Registers(call)["r8"] = call[6] /\ Registers(call)["r9"] = call[7]
    BY <1>4, <1>7 DEF Mov
  <1> QED
    BY <1>5, <1>8

\* On every other x86_64 build one of them is lost.
LEMMA OverwrittenIsLost ==
  ASSUME build \in Builds, ~ReadsBeforeWriting
  PROVE  KernelSees(AnyCall) # AnyCall
  <1> DEFINE regs == <<"rax", "rdi", "rsi", "rdx", build.d, build.e, build.f>>
             operands == Holding(regs, AnyCall)
             second == Mov(operands, "r10", build.d)
             third == Mov(second, "r8", build.e)
  <1>1. /\ build.arch = "x86_64"
        /\ build.d \in FreeRegs /\ build.e \in FreeRegs /\ build.f \in FreeRegs
        /\ build.d # build.e /\ build.d # build.f /\ build.e # build.f
    BY BuildFacts DEF ReadsBeforeWriting
  <1>2. SevenDistinct(regs)
    BY <1>1, SmallRtAssumption DEF SevenDistinct
  <1>3. /\ operands[build.d] = "d" /\ operands[build.e] = "e" /\ operands[build.f] = "f"
        /\ build.e \in DOMAIN operands /\ build.f \in DOMAIN operands
    <2>1. /\ regs[5] = build.d /\ regs[6] = build.e /\ regs[7] = build.f
          /\ 5 \in 1 .. 7 /\ 6 \in 1 .. 7 /\ 7 \in 1 .. 7
          /\ AnyCall[5] = "d" /\ AnyCall[6] = "e" /\ AnyCall[7] = "f"
      BY DEF AnyCall
    <2>2. DOMAIN operands = {regs[j] : j \in 1 .. 7} /\ \A j \in 1 .. 7 : operands[regs[j]] = AnyCall[j]
      <3> HIDE DEF regs
      <3> QED
        BY <1>2, HoldingAt
    <2> HIDE DEF regs, operands
    <2> QED
      BY <2>1, <2>2
  <1>4. Registers(AnyCall) = Mov(third, "r9", build.f)
    BY <1>1 DEF Registers, X86_64
  <1>5. /\ KernelSees(AnyCall)[6] = Registers(AnyCall)["r8"]
        /\ KernelSees(AnyCall)[7] = Registers(AnyCall)["r9"]
    BY <1>1 DEF KernelSees, Abi
  <1>6. AnyCall[6] = "e" /\ AnyCall[7] = "f"
    BY DEF AnyCall
  <1> HIDE DEF operands
  <1>7. /\ second["r10"] = "d"
        /\ build.e # "r10" => second[build.e] = "e"
        /\ "r10" \in DOMAIN second /\ build.e \in DOMAIN second /\ build.f \in DOMAIN second
    BY <1>3 DEF Mov
  <1>8. CASE build.e = "r10"
    <2>1. third["r8"] = "d" /\ "r8" \in DOMAIN third
      BY <1>7, <1>8 DEF Mov
    <2> HIDE DEF third
    <2>2. Registers(AnyCall)["r8"] = "d"
      BY <1>4, <2>1 DEF Mov
    <2> QED
      BY <1>5, <1>6, <2>2
  <1>9. CASE build.e # "r10" /\ build.f \in {"r10", "r8"}
    <2>1. third[build.f] \in {"d", "e"}
      BY <1>7, <1>9 DEF Mov
    <2> HIDE DEF third
    <2>2. Registers(AnyCall)["r9"] = third[build.f]
      BY <1>4 DEF Mov
    <2> QED
      BY <1>5, <1>6, <2>1, <2>2
  <1> QED
    BY <1>8, <1>9 DEF ReadsBeforeWriting

\* __syscall(n, a, b, c, d, e, f) passes all six arguments on every build that
\* is not for x86_64, and of those for x86_64 on exactly the ones in which the
\* compiler keeps e and f out of the registers that are written before they are
\* read.
THEOREM SixArgumentsUnlessOverwritten ==
  Spec => [](pc # "start" => (SixArguments <=> ReadsBeforeWriting))
  <1>1. StackInv => (pc # "start" => (SixArguments <=> ReadsBeforeWriting))
    <2> SUFFICES ASSUME StackInv, pc # "start" PROVE SixArguments <=> ReadsBeforeWriting
      OBVIOUS
    <2>1. DOMAIN AnyCall = 1 .. 7 /\ build \in Builds
      BY DEF AnyCall, StackInv
    <2>2. ASSUME ReadsBeforeWriting, NEW k \in 1 .. 7 PROVE KernelSees(AnyCall)[k] = AnyCall[k]
      <3>1. CASE k <= 5 \/ build.arch # "x86_64"
        BY <2>1, <3>1, Arrives
      <3>2. CASE build.arch = "x86_64" /\ k = 6
        BY <2>1, <2>2, <3>2, LastTwoArrive
      <3>3. CASE build.arch = "x86_64" /\ k = 7
        BY <2>1, <2>2, <3>3, LastTwoArrive
      <3> QED
        BY <3>1, <3>2, <3>3
    <2>3. /\ KernelSees(AnyCall) = [k \in 1 .. 7 |-> KernelSees(AnyCall)[k]]
          /\ AnyCall = [k \in 1 .. 7 |-> AnyCall[k]]
      BY DEF KernelSees, AnyCall
    <2>4. ReadsBeforeWriting => SixArguments
      BY <2>2, <2>3 DEF SixArguments
    <2>5. ~ReadsBeforeWriting => ~SixArguments
      BY <2>1, OverwrittenIsLost DEF SixArguments
    <2> QED
      BY <2>4, <2>5
  <1> QED
    BY <1>1, InitInv, InitStack, NextInv, NextStack, PTL DEF Spec

=============================================================================
