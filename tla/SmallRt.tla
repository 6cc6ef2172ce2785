------------------------------ MODULE SmallRt ------------------------------
(***************************************************************************)
(* Programs without a C library: the entry points and the system call      *)
(* wrappers of small_rt.h, and the demos that print what they were started *)
(* with (small_start, its first version in small_start_tests, hello3).     *)
(*                                                                         *)
(* The kernel leaves argc, the arguments, NULL, the environment, NULL on   *)
(* the stack; prep_main finds argv and envp by counting.  A system call    *)
(* goes through the registers of the architecture.  On x86_64 the operands *)
(* d, e and f are "r" operands: which registers hold them is the           *)
(* compiler's choice, so a build fixes one.                                *)
(***************************************************************************)
EXTENDS Integers, Sequences, FiniteSetsExt

CONSTANTS
    ArgLists,    \* the argument lists a program may be started with
    EnvLists,    \* the environments
    FreeRegs,    \* x86_64 registers the compiler may give to d, e and f
    MaxShown     \* arguments the first small_start prints at most (10)

\* The word that ends a vector, which no string is.
NULL == "NULL"

ASSUME SmallRtAssumption ==
    /\ ArgLists \subseteq Seq(STRING) /\ EnvLists \subseteq Seq(STRING)
    /\ \A list \in ArgLists \cup EnvLists : \A k \in DOMAIN list : list[k] # NULL
    /\ MaxShown \in Nat \ {0}
    /\ FreeRegs \cap {"rax", "rdi", "rsi", "rdx", "rcx", "r11", "rsp"} = {}

Demos == {"small_start", "small_start_tests", "hello3"}

VARIABLES
    prog,        \* the program running
    build,       \* [arch, d, e, f]: what it was compiled for
    started,     \* [args, env]: what execve was given
    words,       \* the stack above argc
    argv, envp,  \* pointers into it
    pc, i,
    out,         \* what was written, one entry per write
    exit         \* "none" while running

startup == <<prog, build, started>>
image_vars == <<words, argv, envp>>
rtvars == <<startup, image_vars, pc, i, out, exit>>

Builds ==
    {[arch |-> a, d |-> "", e |-> "", f |-> ""] : a \in {"aarch64", "arm", "i386"}}
    \cup {b \in [arch : {"x86_64"}, d : FreeRegs, e : FreeRegs, f : FreeRegs] :
            b.d # b.e /\ b.d # b.f /\ b.e # b.f}

\* What execve puts above argc.
StackWords(args, env) == args \o <<NULL>> \o env \o <<NULL>>

\* The strings a null-terminated vector at p holds, as the kernel reads them.
Strings(p) ==
    LET end == Min({k \in p .. Len(words) : words[k] = NULL}) IN SubSeq(words, p, end - 1)

(***************************************************************************)
(* System call wrappers: from __syscall(n, a, b, c, d, e, f), a sequence   *)
(* of seven values, to the registers at the trap.                          *)
(***************************************************************************)

\* The kernel's side: where it looks for the number and the six arguments.
Abi(arch) ==
    CASE arch = "aarch64" -> <<"x8", "x0", "x1", "x2", "x3", "x4", "x5">>
      [] arch = "arm" -> <<"r7", "r0", "r1", "r2", "r3", "r4", "r5">>
      [] arch = "x86_64" -> <<"rax", "rdi", "rsi", "rdx", "r10", "r8", "r9">>
      [] arch = "i386" -> <<"eax", "ebx", "ecx", "edx", "esi", "edi", "ebp">>

\* Registers that hold the values of call in this order.
Holding(regs, call) ==
    [r \in {regs[k] : k \in DOMAIN regs} |-> call[CHOOSE k \in DOMAIN regs : regs[k] = r]]

Aarch64(call) == Holding(<<"x8", "x0", "x1", "x2", "x3", "x4", "x5">>, call)

Arm(call) == Holding(<<"r7", "r0", "r1", "r2", "r3", "r4", "r5">>, call)

Mov(regs, dst, src) == [r \in DOMAIN regs \cup {dst} |-> IF r = dst THEN regs[src] ELSE regs[r]]

\* mov %5, %r10; mov %6, %r8; mov %7, %r9.
X86_64(call, b) ==
    LET operands == Holding(<<"rax", "rdi", "rsi", "rdx", b.d, b.e, b.f>>, call)
    IN  Mov(Mov(Mov(operands, "r10", b.d), "r8", b.e), "r9", b.f)

\* Mutant: ebp is loaded from the word that was just pushed.
I386LoadsTop(call) ==
    Holding(<<"eax", "ebx", "ecx", "edx", "esi", "edi", "ebp">>, [call EXCEPT ![7] = "frame"])

\* pushl arg6; pushl %ebp; movl 4(%esp), %ebp: the stack from its top.
I386(call) ==
    LET pushed == <<"frame", call[7]>>
    IN  Holding(<<"eax", "ebx", "ecx", "edx", "esi", "edi", "ebp">>, [call EXCEPT ![7] = pushed[2]])

Registers(call) ==
    CASE build.arch = "aarch64" -> Aarch64(call)
      [] build.arch = "arm" -> Arm(call)
      [] build.arch = "x86_64" -> X86_64(call, build)
      [] build.arch = "i386" -> I386(call)

\* The call the kernel carries out when the program makes this one.
KernelSees(call) == [k \in 1 .. 7 |-> Registers(call)[Abi(build.arch)[k]]]

\* write and execve have three arguments; the wrapper is given zeros behind.
Write(s) == KernelSees(<<"write", "1", s, "len", "0", "0", "0">>)[3]

(***************************************************************************)
(* __start and prep_main.                                                  *)
(***************************************************************************)

RtInit(programs) ==
    /\ prog \in programs
    /\ build \in Builds
    /\ started \in [args : ArgLists, env : EnvLists]
    /\ words = StackWords(started.args, started.env)
    /\ argv = 0 /\ envp = 0
    /\ pc = "start" /\ i = 0
    /\ out = <<>> /\ exit = "none"

\* Mutant: the null word behind the arguments is not skipped.
EnvpAtNull(argc) == argc + 1

EnvpOf(argc) == argc + 2

PrepMain ==
    /\ pc = "start"
    /\ argv' = 1
    /\ envp' = EnvpOf(Len(started.args))
    /\ pc' = "main"
    /\ UNCHANGED <<startup, words, i, out, exit>>

\* prep_main leaves through SYS_exit with main's result.
ExitWith(code) == pc' = "done" /\ exit' = code

\* A read through a null pointer.
Fault == ExitWith("fault")

(***************************************************************************)
(* The demos.                                                              *)
(***************************************************************************)

LastWord(p) == words[p + i + 1] = NULL

\* small_start prints a string and then looks whether there is another one.
SmallStart ==
    /\ prog = "small_start" /\ pc \in {"main", "envp"}
    /\ LET p == IF pc = "main" THEN argv ELSE envp IN
       \/ /\ words[p + i] = NULL
          /\ Fault
          /\ UNCHANGED <<i, out>>
       \/ /\ words[p + i] # NULL
          /\ out' = Append(out, Write(words[p + i]))
          /\ \/ ~LastWord(p) /\ i' = i + 1 /\ UNCHANGED <<pc, exit>>
             \/ LastWord(p) /\ pc = "main" /\ pc' = "envp" /\ i' = 0 /\ UNCHANGED exit
             \/ LastWord(p) /\ pc = "envp" /\ i' = 0 /\ ExitWith("0")
    /\ UNCHANGED <<startup, image_vars>>

\* Its first version counts to ten and prints while there are arguments.
SmallStartTests ==
    /\ prog = "small_start_tests" /\ pc = "main"
    /\ out' = IF Len(started.args) > i THEN Append(out, Write(words[argv + i])) ELSE out
    /\ i' = i + 1
    /\ IF i' < MaxShown THEN UNCHANGED <<pc, exit>> ELSE ExitWith("1")
    /\ UNCHANGED <<startup, image_vars>>

\* hello3 writes to the kernel's log, if it can be opened.
Hello3Opens ==
    /\ prog = "hello3" /\ pc = "main"
    /\ \/ ExitWith("0") /\ UNCHANGED out
       \/ pc' = "argv" /\ out' = <<Write("hello")>> /\ UNCHANGED exit
    /\ UNCHANGED <<startup, image_vars, i>>

Hello3Writes ==
    /\ prog = "hello3" /\ pc \in {"argv", "envp"}
    /\ LET w == words[(IF pc = "argv" THEN argv ELSE envp) + i] IN
       \/ /\ w # NULL
          /\ out' = Append(out, Write(w))
          /\ i' = i + 1
          /\ UNCHANGED <<pc, exit>>
       \/ w = NULL /\ pc = "argv" /\ pc' = "envp" /\ i' = 0 /\ UNCHANGED <<out, exit>>
       \/ /\ w = NULL /\ pc = "envp"
          /\ out' = Append(out, Write("bye"))
          /\ i' = 0
          /\ ExitWith("0")
    /\ UNCHANGED <<startup, image_vars>>

RtNext == PrepMain \/ SmallStart \/ SmallStartTests \/ Hello3Opens \/ Hello3Writes

(***************************************************************************)
(* Properties.                                                             *)
(***************************************************************************)

\* Every demo that returns has printed what it was started with, each string
\* once and in order; a null pointer is read only where a list is empty.
PrintsWhatItWasGiven ==
    /\ prog \in Demos /\ exit = "fault" => started.args = <<>> \/ started.env = <<>>
    /\ prog \in Demos /\ exit \in {"0", "1"} =>
         CASE prog = "small_start" -> out = started.args \o started.env
           [] prog = "small_start_tests" ->
                out = SubSeq(started.args, 1, Min({MaxShown, Len(started.args)}))
           [] prog = "hello3" ->
                out \in {<<>>, <<"hello">> \o started.args \o started.env \o <<"bye">>}

\* A call with seven different values.
AnyCall == <<"n", "a", "b", "c", "d", "e", "f">>

\* Whatever registers the compiler picks, the number and the first four
\* arguments arrive; all six do where the wrapper pins them.
CallArrives ==
    pc # "start" =>
    \A k \in 1 .. 7 :
        k <= 5 \/ build.arch # "x86_64" => KernelSees(AnyCall)[k] = AnyCall[k]

\* The wrapper's prototype: a system call takes six arguments.
SixArguments == pc # "start" => KernelSees(AnyCall) = AnyCall

=============================================================================
