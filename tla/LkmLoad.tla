------------------------------ MODULE LkmLoad ------------------------------
(***************************************************************************)
(* What loading lkm_template promises, without how it searches: while its  *)
(* init function runs it reports at most one address, of a slot holding a  *)
(* pointer into sys_io_setup, and only in a kernel that has                *)
(* kallsyms_lookup_name; then init returns -EAGAIN, always, so the module  *)
(* never stays loaded.                                                     *)
(***************************************************************************)
EXTENDS KernelImage

VARIABLES
    kernel,
    report,    \* the table addresses logged
    ret        \* "running", or the value init returned

loadVars == <<kernel, report, ret>>

LoadInit == kernel \in Images /\ report = {} /\ ret = "running"

PointsIntoIoSetup(a) ==
    \E s \in kernel.syms :
        /\ s.name \in {"sys_io_setup", "__arm64_sys_io_setup", "__arm64_compat_sys_io_setup"}
        /\ Covers(s, kernel.slots[a])

Report ==
    /\ ret = "running"
    /\ report = {}
    /\ \E s \in kernel.syms : s.name = "kallsyms_lookup_name"
    /\ \E a \in DOMAIN kernel.slots : PointsIntoIoSetup(a) /\ report' = {a}
    /\ UNCHANGED <<kernel, ret>>

Return ==
    /\ ret = "running"
    /\ ret' = "EAGAIN"
    /\ UNCHANGED <<kernel, report>>

\* What may happen, and that init does come back.
LoadSafety == LoadInit /\ [][Report \/ Return]_loadVars

LoadSpec == LoadSafety /\ WF_loadVars(Return)

=============================================================================
