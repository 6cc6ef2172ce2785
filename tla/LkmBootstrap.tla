---------------------------- MODULE LkmBootstrap ----------------------------
(***************************************************************************)
(* lkm_boostrap of lkm_template/main.c: how the module gets hold of        *)
(* kallsyms_lookup_name, which no kernel since 5.7 exports.  It first puts *)
(* a kprobe on the symbol and reads where it landed; if the kprobe         *)
(* functions are not exported, or the registration fails, it scans kernel  *)
(* text around sprint_symbol, alternately upwards and downwards, until     *)
(* sprint_symbol names the symbol it is looking for.                       *)
(*                                                                         *)
(* One step is one call into the kernel or one turn of the scan's loop.    *)
(***************************************************************************)
EXTENDS KernelImage

CONSTANT MaxIter    \* max_iter of the scan (400000)

ASSUME MaxIterAssumption == MaxIter \in Nat \ {0}

VARIABLES
    kernel,                   \* the kernel the module is loaded into
    pc,
    kallsyms_lookup_name_fn,
    register_kprobe_fn,
    unregister_kprobe_fn,
    armed,                    \* the on-stack kprobe is registered
    iter, curr, up,           \* the scan's locals
    r_high, r_low,            \* the range it reports
    missed,                   \* history: the addresses probed in vain
    sym,                      \* content of lkm_boostrap's local array
    verify,                   \* the verification lookup: [asked, addr, info]
    oops                      \* a null function pointer was called

scanVars == <<iter, curr, up, r_high, r_low, missed>>
fnVars == <<kallsyms_lookup_name_fn, register_kprobe_fn, unregister_kprobe_fn>>
bvars == <<kernel, pc, fnVars, armed, scanVars, sym, verify, oops>>

KLN == "kallsyms_lookup_name"
Uninit == "uninitialised"
NotVerified == [asked |-> "", addr |-> Null, info |-> [ret |-> 0, size |-> 0, offset |-> 0]]

Returned == {"ret_0", "ret_ERANGE"}
Labels == {"symbol_get", "kp_register", "kp_unregister", "start_scan", "start_r", "found"} \cup Returned

BootInit ==
    /\ kernel \in Images
    /\ pc = "symbol_get"
    /\ kallsyms_lookup_name_fn = Null
    /\ register_kprobe_fn = Null
    /\ unregister_kprobe_fn = Null
    /\ armed = FALSE
    /\ iter = 0 /\ curr = Null /\ up = TRUE
    /\ r_high = Null /\ r_low = Null /\ missed = {}
    /\ sym = Uninit
    /\ verify = NotVerified
    /\ oops = FALSE

(***************************************************************************)
(* The kprobe way.                                                         *)
(***************************************************************************)

\* Mutant: only a kernel that exports neither function is sent to the scan.
MissingBoth(reg, unreg) == reg = Null /\ unreg = Null

\* One kprobe function without the other is of no use.
KprobeMissing(reg, unreg) == reg = Null \/ unreg = Null

SymbolGet ==
    /\ pc = "symbol_get"
    /\ register_kprobe_fn' = symbol_get(kernel, "register_kprobe")
    /\ unregister_kprobe_fn' = symbol_get(kernel, "unregister_kprobe")
    /\ pc' = IF KprobeMissing(register_kprobe_fn', unregister_kprobe_fn')
             THEN "start_scan" ELSE "kp_register"
    /\ UNCHANGED <<kernel, kallsyms_lookup_name_fn, armed, scanVars, sym, verify, oops>>

\* The wrappers look a null function pointer up with kallsyms_lookup_name,
\* which is itself a call through kallsyms_lookup_name_fn.
NeedsLookup(fn) == fn = Null
Resolve(fn, name) == IF NeedsLookup(fn) THEN kallsyms_lookup_name(kernel, name) ELSE fn

\* register_kprobe accepts the probe.
KpRegister ==
    /\ pc = "kp_register"
    /\ oops' = (oops \/ (NeedsLookup(register_kprobe_fn) /\ kallsyms_lookup_name_fn = Null))
    /\ register_kprobe_fn' = Resolve(register_kprobe_fn, "register_kprobe")
    /\ register_kprobe_fn' # Null
    /\ kallsyms_lookup_name(kernel, KLN) # Null
    /\ armed' = TRUE
    /\ pc' = "kp_unregister"
    /\ UNCHANGED <<kernel, kallsyms_lookup_name_fn, unregister_kprobe_fn, scanVars, sym, verify>>

\* It refuses it (no such symbol, blacklisted, kprobes disarmed), or is not
\* there at all: kp_kallsyms_lookup_name returns 0.
KpRegisterFails ==
    /\ pc = "kp_register"
    /\ oops' = (oops \/ (NeedsLookup(register_kprobe_fn) /\ kallsyms_lookup_name_fn = Null))
    /\ register_kprobe_fn' = Resolve(register_kprobe_fn, "register_kprobe")
    /\ kallsyms_lookup_name_fn' = Null
    /\ pc' = "start_scan"
    /\ UNCHANGED <<kernel, unregister_kprobe_fn, armed, scanVars, sym, verify>>

\* Mutant: the wrapper's null check inverted.
ArmedUnlessNull(fn) == fn # Null

\* __unregister_kprobe without a function to call returns silently.
StillArmed(fn) == fn = Null

\* kp.addr is read, the probe is taken away and its address returned; a
\* non-null address jumps to found, past the initialisation of sym.
KpUnregister ==
    /\ pc = "kp_unregister"
    /\ oops' = (oops \/ (NeedsLookup(unregister_kprobe_fn) /\ kallsyms_lookup_name_fn = Null))
    /\ unregister_kprobe_fn' = Resolve(unregister_kprobe_fn, "unregister_kprobe")
    /\ armed' = StillArmed(unregister_kprobe_fn')
    /\ kallsyms_lookup_name_fn' = kallsyms_lookup_name(kernel, KLN)
    /\ pc' = IF kallsyms_lookup_name_fn' # Null THEN "found" ELSE "start_scan"
    /\ UNCHANGED <<kernel, register_kprobe_fn, scanVars, sym, verify>>

(***************************************************************************)
(* The radiating scan, bootstrap_kallsyms_lookup_name(&sprint_symbol).     *)
(***************************************************************************)

Anchor == AddressOfSprintSymbol(kernel)

\* Mutant: the stride the comment at inc would allow, 32 instructions.
StrideOf32Insns == 128

\* sizeof(uint32_t) * 16
Stride == 64

Above(i) == Wrap(Anchor + Stride * i)
Below(i) == Wrap(Anchor - Stride * i)

StartScan ==
    /\ pc = "start_scan"
    /\ sym' = "sprint_symbol"
    /\ iter' = 0 /\ curr' = Anchor /\ up' = TRUE
    /\ r_high' = Null /\ r_low' = Null /\ missed' = {}
    /\ pc' = "start_r"
    /\ UNCHANGED <<kernel, fnVars, armed, verify, oops>>

\* Mutant: the '+' left out of the prefix that is compared.
CandidateByPrefix(a) ==
    /\ copy_from_kernel_nofault(kernel, a)
    /\ sprint_symbol(kernel, a).name \in {KLN, "kallsyms_lookup_names"}

\* curr can be read and sprint_symbol's text for it starts with
\* "kallsyms_lookup_name+".
Candidate(a) ==
    /\ copy_from_kernel_nofault(kernel, a)
    /\ sprint_symbol(kernel, a).name = KLN

Entry(a) == Wrap(a - sprint_symbol(kernel, a).offset)

\* The text for curr - offset says "+0x0".
Verified(a) ==
    LET t == sprint_symbol(kernel, Entry(a))
    IN  t # BareAddress /\ t.offset = 0

Hit(a) == Candidate(a) /\ Verified(a)

\* Mutant: one round too many.
ExhaustedLate == iter > MaxIter

Exhausted == iter >= MaxIter

ScanExhausted ==
    /\ pc = "start_r"
    /\ Exhausted
    /\ pc' = "ret_ERANGE"
    /\ UNCHANGED <<kernel, fnVars, armed, scanVars, sym, verify, oops>>

ScanHit ==
    /\ pc = "start_r"
    /\ ~Exhausted
    /\ Hit(curr)
    /\ curr' = Entry(curr)
    /\ kallsyms_lookup_name_fn' = curr'
    /\ pc' = "found"
    /\ UNCHANGED <<kernel, register_kprobe_fn, unregister_kprobe_fn, armed,
                   iter, up, r_high, r_low, missed, sym, verify, oops>>

\* Mutant: the lower end of the range is not recorded.
ScanUpUnrecorded ==
    /\ pc = "start_r"
    /\ ~Exhausted
    /\ ~Hit(curr)
    /\ up
    /\ missed' = missed \cup {curr}
    /\ iter' = iter + 1
    /\ curr' = Above(iter')
    /\ up' = FALSE
    /\ UNCHANGED <<kernel, pc, fnVars, armed, r_high, r_low, sym, verify, oops>>

\* inc: with up set, curr is the lower probe of a round (or the anchor).
ScanUp ==
    /\ pc = "start_r"
    /\ ~Exhausted
    /\ ~Hit(curr)
    /\ up
    /\ missed' = missed \cup {curr}
    /\ iter' = iter + 1
    /\ r_high' = curr
    /\ curr' = Above(iter')
    /\ up' = FALSE
    /\ UNCHANGED <<kernel, pc, fnVars, armed, r_low, sym, verify, oops>>

ScanDown ==
    /\ pc = "start_r"
    /\ ~Exhausted
    /\ ~Hit(curr)
    /\ ~up
    /\ missed' = missed \cup {curr}
    /\ r_low' = curr
    /\ curr' = Below(iter)
    /\ up' = TRUE
    /\ UNCHANGED <<kernel, pc, fnVars, armed, iter, r_high, sym, verify, oops>>

(***************************************************************************)
(* found: the verification lookup, whose result is only logged.  An array  *)
(* that was never initialised holds any name, or none.                     *)
(***************************************************************************)

SymbolNames == {s.name : s \in kernel.syms}

NamesIn(array) == IF array = Uninit THEN SymbolNames \cup {""} ELSE {array}

Found ==
    /\ pc = "found"
    /\ \E name \in NamesIn(sym) :
         LET a == kallsyms_lookup_name(kernel, name)
         IN  verify' = [asked |-> name, addr |-> a,
                        info |-> compat_kallsyms_lookup_size_offset(kernel, a)]
    /\ oops' = (oops \/ kallsyms_lookup_name_fn = Null)
    /\ pc' = "ret_0"
    /\ UNCHANGED <<kernel, fnVars, armed, scanVars, sym>>

BootNext ==
    \/ SymbolGet \/ KpRegister \/ KpRegisterFails \/ KpUnregister
    \/ StartScan \/ ScanExhausted \/ ScanHit \/ ScanUp \/ ScanDown
    \/ Found

\* lkm_boostrap runs to its return in one kernel thread.
BootSpec == BootInit /\ [][BootNext]_bvars /\ WF_bvars(BootNext)

(***************************************************************************)
(* Properties.                                                             *)
(***************************************************************************)

BootTypeOK ==
    /\ kernel \in Images
    /\ pc \in Labels
    /\ kallsyms_lookup_name_fn \in Addr
    /\ register_kprobe_fn \in Addr
    /\ unregister_kprobe_fn \in Addr
    /\ armed \in BOOLEAN
    /\ iter \in 0 .. MaxIter
    /\ curr \in Addr
    /\ up \in BOOLEAN
    /\ r_high \in Addr
    /\ r_low \in Addr
    /\ missed \subseteq Addr
    /\ sym \in {Uninit, "sprint_symbol"}
    /\ verify.asked \in SymbolNames \cup {""}
    /\ verify.addr \in Addr
    /\ oops \in BOOLEAN

\* Whatever way it was found, and whether the scan met the symbol at its
\* first byte or deep inside it, the pointer every later lookup calls through
\* is the entry of a symbol named kallsyms_lookup_name, and lkm_boostrap
\* returns 0 only with the pointer set.
FoundIsEntry ==
    /\ kallsyms_lookup_name_fn # Null =>
         \E s \in kernel.syms : s.name = KLN /\ s.start = kallsyms_lookup_name_fn
    /\ pc = "ret_0" => kallsyms_lookup_name_fn # Null

\* 16 instructions of 4 bytes.
MinSize == 64

\* No pointer arithmetic of the scan leaves the address space.
NoWrap == MinSize * (MaxIter - 1) <= Anchor /\ Anchor + MinSize * (MaxIter - 1) < Word

\* A kallsyms_lookup_name of at least 16 instructions, readable, whose first
\* 64 bytes lie in the scanned range.
InReach(s) ==
    /\ s.name = KLN
    /\ s.size >= MinSize
    /\ Anchor - MinSize * (MaxIter - 1) <= s.start
    /\ s.start + MinSize - 1 <= Anchor + MinSize * (MaxIter - 1)
    /\ \A a \in kernel.unreadable : ~Covers(s, a)

\* The scan gives up only if there is nothing in its range to find: its
\* stride, its alternation and its iteration bound leave no gap a function of
\* 16 instructions fits through (the source asks for 32).
ScanComplete ==
    pc = "ret_ERANGE" /\ NoWrap => \A s \in kernel.syms : ~InReach(s)

\* The "range" in the message of a failed scan and in that of a find is exactly
\* the range probed in vain: both its ends have been probed, and nothing outside
\* it has.  (r_high is the lower end.  An end that was not reached reads as 0.)
RangeReported ==
    NoWrap /\ (\E a, b \in missed : a # b) =>
        /\ {r_high, r_low} \subseteq missed
        /\ missed \subseteq r_high .. r_low

\* The fallback lookups of the kprobe wrappers, and the verification, never
\* call through kallsyms_lookup_name_fn before it is set.
NoNullCall == ~oops

\* The kprobe lives in kp_kallsyms_lookup_name's stack frame: it is never
\* left registered when that frame is gone.
KprobeBalanced == pc # "kp_unregister" => ~armed

\* The strengthening under which the safety properties are inductive.  Reading
\* it top down: what is known at every label about the pointers and the probe,
\* then what the scan has already excluded.
PointersInv ==
    /\ pc \in {"kp_register", "kp_unregister"} =>
         register_kprobe_fn # Null /\ unregister_kprobe_fn # Null
    /\ pc = "found" => kallsyms_lookup_name_fn # Null
    /\ pc = "kp_unregister" => kallsyms_lookup_name(kernel, KLN) # Null

NoHitBelowRound(n) == \A i \in 0 .. n - 1 : ~Hit(Above(i)) /\ ~Hit(Below(i))

ScanInv ==
    /\ pc = "start_r" =>
         /\ NoHitBelowRound(iter)
         /\ up => curr = Below(iter) /\ (iter > 0 => ~Hit(Above(iter)))
         /\ ~up => curr = Above(iter) /\ iter > 0
    /\ pc = "ret_ERANGE" => NoHitBelowRound(MaxIter)

\* The addresses of the first rounds above the anchor, and from it down.
Probes(above, below) == {Above(i) : i \in 1 .. above} \cup {Below(i) : i \in 0 .. below - 1}

\* Rounds whose upper probe has been made.
RoundsAbove == IF up THEN iter ELSE iter - 1

\* What the scan has probed, and what it has recorded of that.
RangeInv ==
    /\ IF up THEN iter < MaxIter ELSE iter > 0
    /\ missed = Probes(RoundsAbove, iter)
    /\ iter > 0 => r_high = Below(iter - 1)
    /\ RoundsAbove > 0 => r_low = Above(RoundsAbove)

BootInv ==
    /\ BootTypeOK
    /\ FoundIsEntry
    /\ PointersInv
    /\ ScanInv
    /\ NoNullCall
    /\ KprobeBalanced

=============================================================================
