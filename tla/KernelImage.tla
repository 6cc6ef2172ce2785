---------------------------- MODULE KernelImage ----------------------------
(***************************************************************************)
(* The running kernel as lkm_template/main.c sees it: a memory with        *)
(* readable and unreadable addresses, a symbol table behind sprint_symbol  *)
(* and kallsyms_lookup_name, the symbols exported to modules, and the      *)
(* words of code and data that the syscall-table hunt decodes.  The kernel *)
(* is not part of the repository; these operators say what the module      *)
(* relies on.  Only compat_kallsyms_lookup_size_offset and get_ksym_size,  *)
(* which parse sprint_symbol's text, are the module's own.                 *)
(*                                                                         *)
(* An image is a record:                                                   *)
(*   syms      the symbol table: [name, start, size, mod], mod = "" for    *)
(*             a symbol of the kernel proper                               *)
(*   unreadable  the addresses copy_from_kernel_nofault fails on           *)
(*   exports   the names symbol_get resolves                               *)
(*   adrp      the adrp instructions: address -> page they compute         *)
(*   slots     the readable pointers in data: address -> value             *)
(***************************************************************************)
EXTENDS Integers

CONSTANTS
    Word,     \* uintptr_t counts modulo Word
    Images    \* the kernels the module may be loaded into

ASSUME WordAssumption == Word \in Nat \ {0}

Addr == 0 .. Word - 1

Null == 0

\* Pointer arithmetic on uintptr_t wraps.
Wrap(x) == x % Word

Symbol == [name : STRING, start : Addr, size : Nat, mod : STRING]

Covers(s, a) == s.start <= a /\ a < s.start + s.size

\* A partial function from addresses to addresses.
IsMemory(f) == DOMAIN f \subseteq Addr /\ f \in [DOMAIN f -> Addr]

\* Symbols do not overlap, none starts at the null address, and sprint_symbol,
\* which the module links against, is in the table.
WellFormed(k) ==
    /\ \A s \in k.syms : s.start # Null /\ s.size > 0 /\ s.start + s.size <= Word
    /\ \A s, t \in k.syms : s = t \/ s.start + s.size <= t.start \/ t.start + t.size <= s.start
    /\ \E s \in k.syms : s.name = "sprint_symbol" /\ s.mod = ""

ASSUME ImagesAssumption ==
    \A k \in Images :
        /\ k.syms \subseteq Symbol
        /\ k.unreadable \subseteq Addr
        /\ IsMemory(k.adrp) /\ IsMemory(k.slots)
        /\ WellFormed(k)

(***************************************************************************)
(* Kernel services.                                                        *)
(***************************************************************************)

\* The text of sprint_symbol by its fields: "name+0xoffset/0xsize [mod]", or
\* the bare address, without '+' and '/', when no symbol covers it.
BareAddress == [name |-> "", offset |-> 0, size |-> 0, mod |-> ""]

sprint_symbol(k, a) ==
    IF \E s \in k.syms : Covers(s, a)
    THEN LET s == CHOOSE s \in k.syms : Covers(s, a)
         IN  [name |-> s.name, offset |-> a - s.start, size |-> s.size, mod |-> s.mod]
    ELSE BareAddress

\* A name is searched in the kernel's table, then in the modules'.
kallsyms_lookup_name(k, name) ==
    LET core == {s \in k.syms : s.name = name /\ s.mod = ""}
        mods == {s \in k.syms : s.name = name /\ s.mod # ""}
    IN  CASE core # {} -> (CHOOSE s \in core : TRUE).start
          [] core = {} /\ mods # {} -> (CHOOSE s \in mods : TRUE).start
          [] OTHER -> Null

\* &sprint_symbol, resolved by the module loader.
AddressOfSprintSymbol(k) ==
    (CHOOSE s \in k.syms : s.name = "sprint_symbol" /\ s.mod = "").start

symbol_get(k, name) ==
    IF name \in k.exports THEN kallsyms_lookup_name(k, name) ELSE Null

copy_from_kernel_nofault(k, a) == a \notin k.unreadable

(***************************************************************************)
(* The module's own parsers of sprint_symbol's text.                       *)
(***************************************************************************)

\* ret = 1 with the size and the offset, or ret = 0.  kstrtoul refuses the
\* size of a module's symbol: the text after '/' ends in " [mod]".
compat_kallsyms_lookup_size_offset(k, a) ==
    LET t == sprint_symbol(k, a)
    IN  IF a # Null /\ t # BareAddress /\ t.mod = ""
        THEN [ret |-> 1, size |-> t.size, offset |-> t.offset]
        ELSE [ret |-> 0, size |-> 0, offset |-> 0]

get_ksym_size(k, a, retfail) ==
    LET r == compat_kallsyms_lookup_size_offset(k, a)
    IN  IF r.ret = 0 \/ (r.size = 0 /\ r.offset = 0) THEN retfail ELSE r.size

=============================================================================
