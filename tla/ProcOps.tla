------------------------------ MODULE ProcOps ------------------------------
(***************************************************************************)
(* proc_ops: a kernel thread that, thirty seconds after boot, points the   *)
(* write operation of /proc/kallsyms at ksym_write, and the userspace half *)
(* that turns a write to that file into a call of seven registers.         *)
(*                                                                         *)
(* The call's buffer begins with a magic word.  ksym_write overwrites it   *)
(* with a reply, which is all the caller looks at: the result of write()   *)
(* is ignored on both sides.  Other programs may write to the file too.    *)
(*                                                                         *)
(* The thread, every caller and every handler interleave; one step is one  *)
(* access to memory another of them can see, or one call that can fail.    *)
(***************************************************************************)
EXTENDS Integers

CONSTANTS
    Caller,    \* processes that run userspace.c
    Other      \* processes that write something else to the file

ASSUME ProcAssumption == Caller \cap Other = {}

Proc == Caller \cup Other

\* The first word of a buffer: the call, the reply, or anything else.
Words == {"magic", "reply", "other"}

VARIABLES
    kt,      \* where ksu_init_hook_kallsyms_ops is
    refs,    \* references it holds on the path
    slot,    \* kallsyms_operations->write
    pc,
    word,    \* reg.magic in a process's memory
    log,     \* the processes whose registers have been logged
    exit     \* exit status of a process, or "none"

vars == <<kt, refs, slot, pc, word, log, exit>>
ktVars == <<kt, refs>>

Init ==
    /\ kt = "sleep" /\ refs = 0 /\ slot = "original"
    /\ pc = [p \in Proc |-> "open"]
    /\ word = [p \in Proc |-> IF p \in Caller THEN "magic" ELSE "other"]
    /\ log = {}
    /\ exit = [p \in Proc |-> "none"]

(***************************************************************************)
(* The kernel thread.                                                      *)
(***************************************************************************)

\* msleep(30000), then kern_path.
KernPath ==
    /\ kt = "sleep"
    /\ kt' = "find_ops" /\ refs' = refs + 1
    /\ UNCHANGED <<slot, pc, word, log, exit>>

\* Mutant: an error takes the common way out.
ErrorBailsOut == "bail_out"

OnError == "done"

KernPathFails ==
    /\ kt = "sleep"
    /\ kt' = OnError
    /\ UNCHANGED <<refs, slot, pc, word, log, exit>>

\* No dentry, no inode, no proc entry or no operations; or all of them.
FindOps ==
    /\ kt = "find_ops"
    /\ kt' \in {"hook", "bail_out"}
    /\ UNCHANGED <<refs, slot, pc, word, log, exit>>

\* ksu_write_to_readonly_slot may fail; its result is only logged.
Hook ==
    /\ kt = "hook"
    /\ slot' \in {slot, "ksym_write"}
    /\ kt' = "bail_out"
    /\ UNCHANGED <<refs, pc, word, log, exit>>

PathPut ==
    /\ kt = "bail_out"
    /\ refs' = refs - 1
    /\ kt' = "done"
    /\ UNCHANGED <<slot, pc, word, log, exit>>

Thread == KernPath \/ KernPathFails \/ FindOps \/ Hook \/ PathPut

(***************************************************************************)
(* userspace.c.                                                            *)
(***************************************************************************)

Goto(p, label) == pc' = [pc EXCEPT ![p] = label] /\ UNCHANGED exit

Exit(p, status) ==
    /\ exit' = [exit EXCEPT ![p] = status]
    /\ pc' = [pc EXCEPT ![p] = "exit"]

OpenFails(p) ==
    /\ pc[p] = "open"
    /\ Exit(p, "1")
    /\ UNCHANGED <<ktVars, slot, word, log>>

Open(p) ==
    /\ pc[p] = "open"
    /\ Goto(p, "write")
    /\ UNCHANGED <<ktVars, slot, word, log>>

\* The kernel enters whatever operation is installed now; the original one
\* accepts no writes.
Write(p) ==
    /\ pc[p] = "write"
    /\ Goto(p, IF slot = "ksym_write" THEN "copy_magic" ELSE "check")
    /\ UNCHANGED <<ktVars, slot, word, log>>

Replied(p) == word[p] = "reply"

Check(p) ==
    /\ pc[p] = "check"
    /\ Exit(p, IF Replied(p) THEN "0" ELSE "1")
    /\ UNCHANGED <<ktVars, slot, word, log>>

(***************************************************************************)
(* ksym_write.  It returns size on every path.                             *)
(***************************************************************************)

\* Mutant: every write is taken for a call.
AnyWord(w) == TRUE

IsCall(w) == w = "magic"

\* The word cannot be read, or is not the magic one.
CopyMagic(p) ==
    /\ pc[p] = "copy_magic"
    /\ \/ Goto(p, "check")
       \/ IsCall(word[p]) /\ Goto(p, "copy_regs")
    /\ UNCHANGED <<ktVars, slot, word, log>>

\* Mutant: a call that could not be copied is answered.
FaultGoesOn == "reply"

OnFault == "check"

CopyRegsFails(p) ==
    /\ pc[p] = "copy_regs"
    /\ Goto(p, OnFault)
    /\ UNCHANGED <<ktVars, slot, word, log>>

CopyRegs(p) ==
    /\ pc[p] = "copy_regs"
    /\ log' = log \cup {p}
    /\ Goto(p, "reply")
    /\ UNCHANGED <<ktVars, slot, word>>

ReplyWord == "reply"

\* The result of copy_to_user is ignored.
Reply(p) ==
    /\ pc[p] = "reply"
    /\ \/ word' = [word EXCEPT ![p] = ReplyWord]
       \/ UNCHANGED word
    /\ Goto(p, "check")
    /\ UNCHANGED <<ktVars, slot, log>>

Step(p) ==
    \/ OpenFails(p) \/ Open(p) \/ Write(p) \/ Check(p)
    \/ CopyMagic(p) \/ CopyRegsFails(p) \/ CopyRegs(p) \/ Reply(p)

Next == Thread \/ \E p \in Proc : Step(p)

\* The thread and the processes run one after the other or side by side.
Spec == Init /\ [][Next]_vars

(***************************************************************************)
(* Properties.                                                             *)
(***************************************************************************)

TypeOK ==
    /\ kt \in {"sleep", "find_ops", "hook", "bail_out", "done"}
    /\ refs \in Int
    /\ slot \in {"original", "ksym_write"}
    /\ pc \in [Proc -> {"open", "write", "check", "copy_magic", "copy_regs", "reply", "exit"}]
    /\ word \in [Proc -> Words]
    /\ log \subseteq Proc
    /\ exit \in [Proc -> {"none", "0", "1"}]

\* A caller that exits with 0 has been heard: the hook was in place and the
\* kernel has read and logged its registers, whenever its write fell between
\* the steps of the thread and whichever of the copies failed.
SuccessWasHeard ==
    \A p \in Caller : exit[p] = "0" => slot = "ksym_write" /\ p \in log

\* A program that writes something else to /proc/kallsyms is not taken for a
\* caller, before the hook or after it: its memory keeps its contents and
\* nothing of it is logged.
OthersLeftAlone == \A p \in Other : word[p] = "other" /\ p \notin log

\* ksu_init_hook_kallsyms_ops holds the path exactly while it uses it, and
\* every one of its seven ways out drops the reference it took, once.
PathHeldWhileUsed == refs = IF kt \in {"find_ops", "hook", "bail_out"} THEN 1 ELSE 0

\* The strengthening under which SuccessWasHeard is inductive.
HeardInv ==
    \A p \in Proc :
        /\ pc[p] \in {"copy_magic", "copy_regs", "reply"} => slot = "ksym_write"
        /\ pc[p] \in {"copy_regs", "reply"} => p \in Caller
        /\ pc[p] = "reply" => p \in log
        /\ word[p] = "reply" => p \in log /\ slot = "ksym_write"
        /\ exit[p] = "0" => word[p] = "reply"

=============================================================================
