------------------------------ MODULE LkmHunt ------------------------------
(***************************************************************************)
(* hunt_sys_call_table of lkm_template/main.c: with kallsyms_lookup_name   *)
(* in hand, the module walks the code of the svc handlers, takes the page  *)
(* every adrp computes and looks in it for a pointer to sys_io_setup, the  *)
(* first entry of arm64's sys_call_table.  The only trace of a find is a   *)
(* log line; "located" records it.                                         *)
(*                                                                         *)
(* One step is one turn of either loop of hunt_sct_adrp.                   *)
(***************************************************************************)
EXTENDS KernelImage, Sequences

CONSTANT PageSize    \* 4096

VARIABLES
    kernel,
    hpc,
    aarch64_insn_adrp_get_offset_fn,
    handlers,                 \* the handlers this build tries, in order
    turn,                     \* index of the handler being tried
    insn_p, insn_end,         \* hunt_sct_adrp's instruction walk
    tgt, slot_p, tries,       \* its page walk (slot_p is the inner curr)
    located                   \* the finds logged: [turn, insn, slot]

walkVars == <<insn_p, insn_end, tgt, slot_p, tries>>
hvars == <<kernel, hpc, aarch64_insn_adrp_get_offset_fn, handlers, turn, walkVars, located>>

sizeof_insn == 4
sizeof_uintptr_t == 8

HandlersFrom_4_19 ==
    << [sym |-> "do_el0_svc", depth |-> 64 * 4],
       [sym |-> "el0_svc_handler", depth |-> 64 * 4],
       [sym |-> "el0_svc", depth |-> 256 * 4] >>
HandlersBefore_4_19 == << [sym |-> "el0_svc", depth |-> 16 * 4] >>

HuntInit ==
    /\ kernel \in Images
    /\ handlers \in {HandlersFrom_4_19, HandlersBefore_4_19}
    /\ hpc = "hunt"
    /\ aarch64_insn_adrp_get_offset_fn = Null
    /\ turn = 1
    /\ insn_p = Null /\ insn_end = Null
    /\ tgt = Null /\ slot_p = Null /\ tries = 0
    /\ located = {}

Hunt ==
    /\ hpc = "hunt"
    /\ aarch64_insn_adrp_get_offset_fn' =
           kallsyms_lookup_name(kernel, "aarch64_insn_adrp_get_offset")
    /\ hpc' = IF aarch64_insn_adrp_get_offset_fn' = Null THEN "return" ELSE "resolve"
    /\ UNCHANGED <<kernel, handlers, turn, walkVars, located>>

(***************************************************************************)
(* resolve_svc_handler.                                                    *)
(***************************************************************************)

ScanDepth(h, target) == get_ksym_size(kernel, target, h.depth)

\* Mutant: a missing handler ends the hunt.
NoHandlerGivesUp ==
    /\ hpc = "resolve"
    /\ turn <= Len(handlers)
    /\ kallsyms_lookup_name(kernel, handlers[turn].sym) = Null
    /\ hpc' = "return"
    /\ UNCHANGED <<kernel, aarch64_insn_adrp_get_offset_fn, handlers, turn, walkVars, located>>

NoHandler ==
    /\ hpc = "resolve"
    /\ turn <= Len(handlers)
    /\ kallsyms_lookup_name(kernel, handlers[turn].sym) = Null
    /\ turn' = turn + 1
    /\ UNCHANGED <<kernel, hpc, aarch64_insn_adrp_get_offset_fn, handlers, walkVars, located>>

EnterHandler ==
    /\ hpc = "resolve"
    /\ turn <= Len(handlers)
    /\ LET target == kallsyms_lookup_name(kernel, handlers[turn].sym)
       IN  /\ target # Null
           /\ insn_p' = target
           /\ insn_end' = Wrap(target + ScanDepth(handlers[turn], target))
    /\ hpc' = "scan"
    /\ UNCHANGED <<kernel, aarch64_insn_adrp_get_offset_fn, handlers, turn,
                   tgt, slot_p, tries, located>>

NoHandlerLeft ==
    /\ hpc = "resolve"
    /\ turn > Len(handlers)
    /\ hpc' = "return"
    /\ UNCHANGED <<kernel, aarch64_insn_adrp_get_offset_fn, handlers, turn, walkVars, located>>

(***************************************************************************)
(* hunt_sct_adrp, the instruction walk.                                    *)
(***************************************************************************)

IsAdrp(a) == copy_from_kernel_nofault(kernel, a) /\ a \in DOMAIN kernel.adrp

\* The page of the instruction plus the offset it encodes.
AdrpTarget(a) == Wrap((a - (a % PageSize)) + kernel.adrp[a])

ScanEnds ==
    /\ hpc = "scan"
    /\ insn_p >= insn_end
    /\ turn' = turn + 1
    /\ hpc' = "resolve"
    /\ UNCHANGED <<kernel, aarch64_insn_adrp_get_offset_fn, handlers, walkVars, located>>

ScanSkips ==
    /\ hpc = "scan"
    /\ insn_p < insn_end
    /\ ~IsAdrp(insn_p)
    /\ insn_p' = Wrap(insn_p + sizeof_insn)
    /\ UNCHANGED <<kernel, hpc, aarch64_insn_adrp_get_offset_fn, handlers, turn,
                   insn_end, tgt, slot_p, tries, located>>

ScanAdrp ==
    /\ hpc = "scan"
    /\ insn_p < insn_end
    /\ IsAdrp(insn_p)
    /\ tgt' = AdrpTarget(insn_p)
    /\ slot_p' = tgt'
    /\ tries' = 0
    /\ hpc' = "scan_pg"
    /\ UNCHANGED <<kernel, aarch64_insn_adrp_get_offset_fn, handlers, turn,
                   insn_p, insn_end, located>>

(***************************************************************************)
(* hunt_sct_adrp, the page walk: max_tries + 1 slots from tgt on.          *)
(***************************************************************************)

max_tries == PageSize \div sizeof_uintptr_t

\* The kernel's names that contain "sys_io_setup".
NamesIoSetup == {"sys_io_setup", "__arm64_sys_io_setup", "__arm64_compat_sys_io_setup"}

\* The slot holds a readable pointer to readable memory of such a symbol.
IsIoSetup(a) ==
    /\ a \in DOMAIN kernel.slots
    /\ copy_from_kernel_nofault(kernel, kernel.slots[a])
    /\ sprint_symbol(kernel, kernel.slots[a]).name \in NamesIoSetup

PageDone(n) == n > max_tries

PageEnds ==
    /\ hpc = "scan_pg"
    /\ PageDone(tries)
    /\ insn_p' = Wrap(insn_p + sizeof_insn)
    /\ hpc' = "scan"
    /\ UNCHANGED <<kernel, aarch64_insn_adrp_get_offset_fn, handlers, turn,
                   insn_end, tgt, slot_p, tries, located>>

PageSkips ==
    /\ hpc = "scan_pg"
    /\ ~PageDone(tries)
    /\ ~IsIoSetup(slot_p)
    /\ tries' = tries + 1
    /\ slot_p' = Wrap(slot_p + sizeof_uintptr_t)
    /\ UNCHANGED <<kernel, hpc, aarch64_insn_adrp_get_offset_fn, handlers, turn,
                   insn_p, insn_end, tgt, located>>

\* Mutant: the find does not end the hunt.
PageHitGoesOn ==
    /\ hpc = "scan_pg"
    /\ ~PageDone(tries)
    /\ IsIoSetup(slot_p)
    /\ located' = located \cup {[turn |-> turn, insn |-> insn_p, slot |-> slot_p]}
    /\ turn' = turn + 1
    /\ hpc' = "resolve"
    /\ UNCHANGED <<kernel, aarch64_insn_adrp_get_offset_fn, handlers, walkVars>>

\* The find is logged, and a return value of 0 ends the whole hunt.
PageHit ==
    /\ hpc = "scan_pg"
    /\ ~PageDone(tries)
    /\ IsIoSetup(slot_p)
    /\ located' = located \cup {[turn |-> turn, insn |-> insn_p, slot |-> slot_p]}
    /\ hpc' = "return"
    /\ UNCHANGED <<kernel, aarch64_insn_adrp_get_offset_fn, handlers, turn, walkVars>>

HuntNext ==
    \/ Hunt \/ NoHandler \/ EnterHandler \/ NoHandlerLeft
    \/ ScanEnds \/ ScanSkips \/ ScanAdrp
    \/ PageEnds \/ PageSkips \/ PageHit

(***************************************************************************)
(* Properties.                                                             *)
(***************************************************************************)

\* The reference: every find a full search of the handlers could make.  A
\* handler of the kernel proper is searched over its own size, a handler the
\* size is not known of over the default depth.
InstructionsOf(h) ==
    LET target == kallsyms_lookup_name(kernel, h.sym)
        size == IF \E s \in kernel.syms : s.start = target /\ s.mod = ""
                THEN (CHOOSE s \in kernel.syms : s.start = target).size
                ELSE h.depth
    IN  IF target = Null THEN {} ELSE {a \in target .. target + size - 1 : (a - target) % 4 = 0}

Finds ==
    {f \in [turn : DOMAIN handlers, insn : DOMAIN kernel.adrp, slot : DOMAIN kernel.slots] :
        /\ f.insn \in InstructionsOf(handlers[f.turn]) \ kernel.unreadable
        /\ \E n \in 0 .. PageSize \div 8 : f.slot = Wrap(AdrpTarget(f.insn) + 8 * n)
        /\ IsIoSetup(f.slot)}

\* f is met before g: handler by handler, instruction by instruction, slot by
\* slot.
Before(f, g) ==
    \/ f.turn < g.turn
    \/ f.turn = g.turn /\ f.insn < g.insn
    \/ f.turn = g.turn /\ f.insn = g.insn /\ f.slot <= g.slot

\* No pointer arithmetic of the hunt leaves the address space: neither a
\* handler's instructions nor a page an adrp computes lie at its very end.
HuntFits ==
    /\ \A i \in DOMAIN handlers :
          LET target == kallsyms_lookup_name(kernel, handlers[i].sym)
          IN  target # Null => target + ScanDepth(handlers[i], target) + sizeof_insn <= Word
    /\ \A a \in DOMAIN kernel.adrp : AdrpTarget(a) + PageSize < Word

\* The two goto loops, their three ways on and the fallback handlers lose
\* nothing: the hunt reports exactly one find, the first there is, and reports
\* none only if the kernel has none (or nothing to decode an adrp with).
HuntFindsFirst ==
    hpc = "return" /\ aarch64_insn_adrp_get_offset_fn # Null /\ HuntFits =>
        located = {f \in Finds : \A g \in Finds : Before(f, g)}

\* The strengthening under which HuntFindsFirst is inductive: where each of
\* the walks stands, and that no find is left behind them.
HuntShape ==
    /\ kernel \in Images
    /\ handlers \in {HandlersFrom_4_19, HandlersBefore_4_19}
    /\ hpc \in {"hunt", "resolve", "scan", "scan_pg", "return"}
    /\ turn \in 1 .. Len(handlers) + 1
    /\ hpc \in {"scan", "scan_pg"} => turn \in DOMAIN handlers
    /\ hpc = "hunt" => turn = 1
    /\ hpc # "return" => located = {}

\* insn_p has come from the handler's entry in whole instructions.
InsnWalk ==
    LET target == kallsyms_lookup_name(kernel, handlers[turn].sym)
    IN  /\ target # Null
        /\ insn_end = target + ScanDepth(handlers[turn], target)
        /\ insn_p \in target .. insn_end + sizeof_insn - 1
        /\ (insn_p - target) % sizeof_insn = 0

\* slot_p has come from the page of the instruction in whole slots.
PageWalk ==
    /\ insn_p < insn_end
    /\ IsAdrp(insn_p)
    /\ tgt = AdrpTarget(insn_p)
    /\ tries \in 0 .. max_tries + 1
    /\ slot_p = Wrap(tgt + sizeof_uintptr_t * tries)

Ahead(f) ==
    /\ f.turn >= turn
    /\ hpc \in {"scan", "scan_pg"} /\ f.turn = turn => f.insn >= insn_p
    /\ hpc = "scan_pg" /\ f.turn = turn /\ f.insn = insn_p
         => f.slot >= tgt + sizeof_uintptr_t * tries

HuntInv ==
    /\ HuntShape
    /\ HuntFits =>
         /\ hpc \in {"scan", "scan_pg"} => InsnWalk
         /\ hpc = "scan_pg" => PageWalk
         /\ hpc # "return" => \A f \in Finds : Ahead(f)
    /\ HuntFindsFirst

\* The walk of the page an adrp points to reads slots of that page only.
PageWalkInPage ==
    hpc = "scan_pg" /\ ~PageDone(tries) /\ tgt + PageSize < Word
        => slot_p \in tgt .. tgt + PageSize - 1

=============================================================================
