--------------------------- MODULE ProcOps_proofs ---------------------------
(***************************************************************************)
(* For every set of callers and of other writers: a caller that exits with *)
(* 0 has been heard, others are left alone, the path is held while used.   *)
(***************************************************************************)
EXTENDS ProcOps, TLAPS

Inv == TypeOK /\ HeardInv /\ OthersLeftAlone /\ PathHeldWhileUsed

\* The initial state satisfies the inductive invariant.
LEMMA InitInv == Init => Inv
  <1> SUFFICES ASSUME Init PROVE Inv
    OBVIOUS
  <1>1. TypeOK
    BY DEF Init, TypeOK, Words
  <1>2. HeardInv
    BY DEF Init, HeardInv
  <1>3. OthersLeftAlone
    BY ProcAssumption DEF Init, OthersLeftAlone, Proc
  <1>4. PathHeldWhileUsed
    BY DEF Init, PathHeldWhileUsed
  <1> QED BY <1>1, <1>2, <1>3, <1>4 DEF Inv

\* No step of ksu_init_hook_kallsyms_ops disturbs it: the slot only ever
\* changes to ksym_write, and references change with the place.
LEMMA ThreadInv == Inv /\ Thread => Inv'
  <1> SUFFICES ASSUME Inv, Thread PROVE Inv'
    OBVIOUS
  <1> USE DEF Inv
  <1>1. UNCHANGED <<pc, word, log, exit>> /\ slot' \in {slot, "ksym_write"}
    BY DEF Thread, KernPath, KernPathFails, FindOps, Hook, PathPut
  <1>2. kt' \in {"sleep", "find_ops", "hook", "bail_out", "done"} /\ refs' \in Int
    BY DEF Thread, KernPath, KernPathFails, FindOps, Hook, PathPut, TypeOK, OnError
  <1>3. TypeOK'
    BY <1>1, <1>2 DEF TypeOK
  <1>4. HeardInv'
    BY <1>1 DEF HeardInv
  <1>5. OthersLeftAlone'
    BY <1>1 DEF OthersLeftAlone
  <1>6. PathHeldWhileUsed'
    BY DEF Thread, KernPath, KernPathFails, FindOps, Hook, PathPut, TypeOK, OnError, PathHeldWhileUsed
  <1> QED BY <1>3, <1>4, <1>5, <1>6

\* What the steps of a process have in common: they leave the thread and the
\* slot alone and touch the process's own fields only.
LEMMA StepFrame ==
  ASSUME NEW p \in Proc, Step(p), Inv
  PROVE  /\ UNCHANGED <<kt, refs, slot>>
         /\ \A q \in Proc \ {p} : pc'[q] = pc[q] /\ word'[q] = word[q] /\ exit'[q] = exit[q]
         /\ log' \in {log, log \cup {p}}
         /\ log' # log => pc[p] = "copy_regs"
  BY DEF Inv, TypeOK, Step, OpenFails, Open, Write, Check, CopyMagic, CopyRegsFails, CopyRegs,
         Reply, Goto, Exit, ktVars

\* Every step of a process keeps the types.
LEMMA StepType ==
  ASSUME NEW p \in Proc, Step(p), Inv
  PROVE  TypeOK'
  <1> USE DEF Inv, TypeOK, Goto, Exit, ktVars
  <1>1. CASE OpenFails(p) BY <1>1 DEF OpenFails
  <1>2. CASE Open(p) BY <1>2 DEF Open
  <1>3. CASE Write(p) BY <1>3 DEF Write
  <1>4. CASE Check(p) BY <1>4 DEF Check
  <1>5. CASE CopyMagic(p) BY <1>5 DEF CopyMagic
  <1>6. CASE CopyRegsFails(p) BY <1>6 DEF CopyRegsFails, OnFault
  <1>7. CASE CopyRegs(p) BY <1>7 DEF CopyRegs
  <1>8. CASE Reply(p) BY <1>8 DEF Reply, ReplyWord, Words
  <1> QED BY <1>1, <1>2, <1>3, <1>4, <1>5, <1>6, <1>7, <1>8 DEF Step

\* What a step does to HeardInv's claims about the process that takes it.
LEMMA StepHeard ==
  ASSUME NEW p \in Proc, Step(p), Inv
  PROVE  /\ pc'[p] \in {"copy_magic", "copy_regs", "reply"} => slot' = "ksym_write"
         /\ pc'[p] \in {"copy_regs", "reply"} => p \in Caller
         /\ pc'[p] = "reply" => p \in log'
         /\ word'[p] = "reply" => p \in log' /\ slot' = "ksym_write"
         /\ exit'[p] = "0" => word'[p] = "reply"
  <1> USE DEF Inv, TypeOK, Goto, Exit, ktVars, HeardInv
  <1>1. CASE OpenFails(p) BY <1>1 DEF OpenFails
  <1>2. CASE Open(p) BY <1>2 DEF Open
  <1>3. CASE Write(p) BY <1>3 DEF Write
  <1>4. CASE Check(p) BY <1>4 DEF Check, Replied
  <1>5. CASE CopyMagic(p)
    <2>1. pc'[p] = "copy_regs" => p \in Caller
      BY <1>5 DEF CopyMagic, IsCall, OthersLeftAlone, Proc
    <2> QED BY <1>5, <2>1 DEF CopyMagic
  <1>6. CASE CopyRegsFails(p) BY <1>6 DEF CopyRegsFails, OnFault
  <1>7. CASE CopyRegs(p) BY <1>7 DEF CopyRegs
  <1>8. CASE Reply(p) BY <1>8 DEF Reply, ReplyWord
  <1> QED BY <1>1, <1>2, <1>3, <1>4, <1>5, <1>6, <1>7, <1>8 DEF Step

\* A step that changes a word is a reply, and a reply is to a caller.
LEMMA StepOthers ==
  ASSUME NEW p \in Other, Step(p), Inv
  PROVE  word'[p] = "other" /\ p \notin log'
  <1>1. pc[p] \notin {"copy_regs", "reply"}
    BY ProcAssumption DEF Inv, HeardInv, Proc
  <1>2. log' = log
    BY <1>1, StepFrame DEF Proc
  <1>3. word' = word
    BY <1>1 DEF Step, OpenFails, Open, Write, Check, CopyMagic, CopyRegsFails, CopyRegs, Reply
  <1> QED BY <1>2, <1>3 DEF Inv, OthersLeftAlone

\* The invariant is inductive.
LEMMA NextInv == Inv /\ [Next]_vars => Inv'
  <1> SUFFICES ASSUME Inv, [Next]_vars PROVE Inv'
    OBVIOUS
  <1>1. CASE Thread BY <1>1, ThreadInv
  <1>2. ASSUME NEW p \in Proc, Step(p) PROVE Inv'
    <2>1. TypeOK' BY <1>2, StepType
    <2>2. HeardInv'
      <3> SUFFICES ASSUME NEW q \in Proc
                   PROVE  /\ pc'[q] \in {"copy_magic", "copy_regs", "reply"} => slot' = "ksym_write"
                          /\ pc'[q] \in {"copy_regs", "reply"} => q \in Caller
                          /\ pc'[q] = "reply" => q \in log'
                          /\ word'[q] = "reply" => q \in log' /\ slot' = "ksym_write"
                          /\ exit'[q] = "0" => word'[q] = "reply"
        BY DEF HeardInv
      <3>1. CASE q = p BY <1>2, <3>1, StepHeard
      <3>2. CASE q # p BY <1>2, <3>2, StepFrame DEF Inv, HeardInv
      <3> QED BY <3>1, <3>2
    <2>3. OthersLeftAlone'
      <3> SUFFICES ASSUME NEW q \in Other PROVE word'[q] = "other" /\ q \notin log'
        BY DEF OthersLeftAlone
      <3>1. CASE q = p BY <1>2, <3>1, StepOthers
      <3>2. CASE q # p BY <1>2, <3>2, StepFrame DEF Inv, OthersLeftAlone, Proc
      <3> QED BY <3>1, <3>2
    <2>4. PathHeldWhileUsed' BY <1>2, StepFrame DEF Inv, PathHeldWhileUsed
    <2> QED BY <2>1, <2>2, <2>3, <2>4 DEF Inv
  <1>3. CASE UNCHANGED vars
    BY <1>3 DEF vars, Inv, TypeOK, HeardInv, OthersLeftAlone, PathHeldWhileUsed
  <1> QED BY <1>1, <1>2, <1>3 DEF Next

\* Inv holds in every reachable state.
THEOREM Invariance == Spec => []Inv
  BY InitInv, NextInv, PTL DEF Spec

\* A caller of shitcall that exits with 0 was heard by ksym_write, for any
\* number of callers and any interleaving with the thread that installs it.
THEOREM Heard == Spec => []SuccessWasHeard
  <1>1. Inv => SuccessWasHeard
    BY DEF Inv, HeardInv, SuccessWasHeard, Proc
  <1> QED BY <1>1, Invariance, PTL

\* ksym_write never touches a program that did not call it.
THEOREM OthersUnharmed == Spec => []OthersLeftAlone
  <1>1. Inv => OthersLeftAlone
    BY DEF Inv
  <1> QED BY <1>1, Invariance, PTL

\* The thread's reference to the path is taken and dropped once.
THEOREM PathBalanced == Spec => []PathHeldWhileUsed
  <1>1. Inv => PathHeldWhileUsed
    BY DEF Inv
  <1> QED BY <1>1, Invariance, PTL

=============================================================================
