--------------------------- MODULE MCLkmTemplate ---------------------------
(***************************************************************************)
(* Kernels for LkmTemplate: families that vary what one part looks at, and *)
(* one that varies a little of everything.                                 *)
(***************************************************************************)
EXTENDS LkmTemplate

MCWord == 4096

Sym(n, st, sz, m) == [name |-> n, start |-> st, size |-> sz, mod |-> m]

SprintSymbol == Sym("sprint_symbol", 512, 40, "")
KprobeFns == {Sym("register_kprobe", 960, 8, ""), Sym("unregister_kprobe", 972, 8, "")}
KprobeNames == {"register_kprobe", "unregister_kprobe"}

(***************************************************************************)
(* Kernels for lkm_boostrap: kallsyms_lookup_name below, around or above   *)
(* sprint_symbol, inside and outside the scanned range, shorter and longer *)
(* than the stride, with and without an unreadable hole, possibly next to  *)
(* a module's symbol of the same name, possibly absent.                    *)
(***************************************************************************)

BootKernel(syms, holes, exports) ==
    [syms |-> {SprintSymbol} \cup KprobeFns \cup syms, unreadable |-> holes,
     exports |-> exports, adrp |-> <<>>, slots |-> <<>>]

Starts == {316 + 4 * i : i \in 0 .. 35} \cup {552 + 4 * i : i \in 0 .. 35}
Sizes == {4, 60, 64, 100}
Disjoint(st, sz) == st + sz <= 512 \/ st >= 552

ScanKernels ==
    {BootKernel({Sym(KLN, st, sz, "")}, holes, {}) :
        <<st, sz, holes>> \in {x \in Starts \X Sizes \X {{}, 400 .. 449} : Disjoint(x[1], x[2])}}

KprobeKernels ==
    {BootKernel(syms, {}, exports) :
        syms \in {{}, {Sym(KLN, 560, 128, "")}, {Sym(KLN, 420, 64, "mod")},
                  {Sym("kallsyms_lookup_names", 440, 64, ""), Sym(KLN, 600, 64, "")},
                  {Sym(KLN, 420, 64, "mod"), Sym(KLN, 700, 128, "")}},
        exports \in SUBSET KprobeNames}

(***************************************************************************)
(* Kernels for the hunt, found by kprobe: up to three svc handlers of      *)
(* three instructions, each with up to two adrps in it or just behind it,  *)
(* data pages with a pointer to sys_io_setup in their first, last or no    *)
(* slot, or in the first slot of the page that follows, unreadable code,   *)
(* no adrp decoder, a handler whose size is not told.                      *)
(***************************************************************************)

Handler(name, mod) ==
    CASE name = "do_el0_svc" -> Sym(name, 256, 12, mod)
      [] name = "el0_svc_handler" -> Sym(name, 272, 12, mod)
      [] name = "el0_svc" -> Sym(name, 288, 12, mod)
Names == {"do_el0_svc", "el0_svc_handler", "el0_svc"}

Data == {Sym("invoke_syscall", 300, 8, ""), Sym("__arm64_sys_io_setup", 400, 16, "")}
AdrpDecoder == Sym("aarch64_insn_adrp_get_offset", 80, 8, "")

\* Pages from 1024 on; an adrp at a selects one of them.
Page(n) == 1024 + PageSize * n
OffsetTo(a, p) == (p - (a - (a % PageSize))) % Word
SlotMap(table) ==
    [a \in {Page(n) + 8 * i : n \in {0, 1}, i \in 0 .. PageSize \div 8 - 1} |->
        IF a \in table THEN 400 ELSE 300]
AdrpMap(insns) == [a \in DOMAIN insns |-> OffsetTo(a, insns[a])]

HuntKernel(kln, exports, present, insns, table, decoder, mod, holes) ==
    [syms |-> {SprintSymbol} \cup KprobeFns \cup Data \cup kln \cup decoder
              \cup {Handler(n, mod) : n \in present},
     unreadable |-> holes, exports |-> exports,
     adrp |-> AdrpMap(insns), slots |-> SlotMap(table)]

FoundByKprobe == {Sym(KLN, 800, 64, "")}

SizedKernels ==
    {HuntKernel(FoundByKprobe, KprobeNames, present, insns, table, {AdrpDecoder}, "", holes) :
        present \in {{"do_el0_svc"}, {"el0_svc_handler", "el0_svc"}, Names},
        insns \in UNION {[D -> {Page(0), Page(1)}] :
              D \in {{256}, {264}, {260, 276}, {272, 280}, {288, 300}, {268, 284}}},
        table \in {{}, {Page(0)}, {Page(0) + PageSize - 8}, {Page(1)},
                   {Page(0) + 8, Page(1) + 8}, {Page(1) + PageSize - 8}},
        holes \in {{}, 256 .. 263}}

OddKernels ==
    {HuntKernel(FoundByKprobe, KprobeNames, {"do_el0_svc", "el0_svc"}, insns, {Page(0) + 8}, decoder, mod, holes) :
        insns \in [{292} -> {Page(0)}] \cup [{300} -> {Page(0)}],
        decoder \in {{}, {AdrpDecoder}}, mod \in {"", "m"}, holes \in {{}, 400 .. 407}}

\* Found by kprobe, by the scan only or not at all, and then the hunt.
WholeKernels ==
    {HuntKernel(kln, exports, {"do_el0_svc", "el0_svc"}, insns, table, decoder, "", {}) :
        kln \in {{}, {Sym(KLN, 448, 64, "")}, {Sym(KLN, 560, 72, "")}, FoundByKprobe},
        decoder \in {{}, {AdrpDecoder}},
        exports \in {{}, {"register_kprobe"}, KprobeNames},
        insns \in UNION {[D -> {Page(0), Page(1)}] : D \in {{}, {260}, {260, 296}}},
        table \in {{}, {Page(0), Page(1) + 24}}}

AllKernels == ScanKernels \cup KprobeKernels \cup SizedKernels \cup OddKernels \cup WholeKernels
MCImages == AllKernels

=============================================================================
