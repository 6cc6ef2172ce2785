---------------------------- MODULE LkmTemplate ----------------------------
(***************************************************************************)
(* lkm_template_init: lkm_boostrap, then hunt_sys_call_table if it         *)
(* succeeded, then -EAGAIN in any case, which makes the kernel free the    *)
(* module again.  Composes LkmBootstrap and LkmHunt, which share the       *)
(* kernel they look at, and implements LkmLoad.                            *)
(***************************************************************************)
EXTENDS LkmBootstrap

CONSTANT PageSize    \* 4096

ASSUME PageSizeAssumption == PageSize \in Nat \ {0} /\ PageSize % 8 = 0

VARIABLES
    hpc, aarch64_insn_adrp_get_offset_fn, handlers, turn,
    insn_p, insn_end, tgt, slot_p, tries, located,
    init_ret                  \* "running", or what lkm_template_init returned

H == INSTANCE LkmHunt

huntOnly == <<hpc, aarch64_insn_adrp_get_offset_fn, handlers, turn,
              insn_p, insn_end, tgt, slot_p, tries, located>>
vars == <<bvars, huntOnly, init_ret>>

Init == BootInit /\ H!HuntInit /\ init_ret = "running"

Bootstrap == BootNext /\ UNCHANGED <<huntOnly, init_ret>>

\* Mutant: the return value of lkm_boostrap is ignored.
AnyReturn == pc \in Returned

BootSucceeded == pc = "ret_0"

HuntTable == BootSucceeded /\ H!HuntNext /\ UNCHANGED <<bvars, init_ret>>

NothingLeftToDo == pc = "ret_ERANGE" \/ (BootSucceeded /\ hpc = "return")

InitReturns ==
    /\ init_ret = "running"
    /\ NothingLeftToDo
    /\ init_ret' = "EAGAIN"
    /\ UNCHANGED <<bvars, huntOnly>>

Next == Bootstrap \/ HuntTable \/ InitReturns

Spec == Init /\ [][Next]_vars /\ WF_vars(Next)

(***************************************************************************)
(* Properties.                                                             *)
(***************************************************************************)

\* The hunt makes every lookup through kallsyms_lookup_name_fn without testing
\* it: it runs only after lkm_boostrap left the entry of the symbol there.
HuntLookupsAreSafe ==
    hpc # "hunt" => \E s \in kernel.syms : s.name = KLN /\ s.start = kallsyms_lookup_name_fn

\* The hunt reports the first find there is, and none only if there is none.
HuntFindsFirst == H!HuntFindsFirst

\* The walk of the page an adrp points to reads slots of that page only.
PageWalkInPage == H!PageWalkInPage

\* How the two halves and the return hang together.
OrderInv ==
    /\ hpc # "hunt" => BootSucceeded
    /\ init_ret \in {"running", "EAGAIN"}
    /\ init_ret = "EAGAIN" => NothingLeftToDo

\* The strengthening under which the safety of the whole is inductive.
TemplateInv == BootInv /\ RangeInv /\ H!HuntInv /\ OrderInv

Load == INSTANCE LkmLoad WITH report <- {f.slot : f \in located}, ret <- init_ret

\* Bootstrap and hunt together implement LkmLoad: one true report at most, and
\* an init function that always comes back with -EAGAIN.
ImplementsLoad == Load!LoadSpec

=============================================================================
