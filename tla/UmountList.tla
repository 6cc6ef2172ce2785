----------------------------- MODULE UmountList -----------------------------
(***************************************************************************)
(* small_start_tests/grab_umount_list.c: ask KernelSU for the size of its  *)
(* umount list, allocate that much stack, ask for the list, and walk the   *)
(* strings it left in the buffer.  The list is the kernel's, and other     *)
(* programs add to it and delete from it between the two requests.         *)
(*                                                                         *)
(* Memory from the buffer up is a sequence of bytes: Nul, or a letter that *)
(* stands for the string it belongs to.  Bytes past the buffer are the     *)
(* frames of the callers and may hold anything.                            *)
(***************************************************************************)
EXTENDS Integers, SequencesExt, FiniteSetsExt

CONSTANTS
    Strings,      \* mount points, as non-empty sequences of letters
    MaxEntries,   \* bound on the kernel's list
    MaxChanges,   \* bound on what other programs do to it
    StackBytes    \* bytes of memory modelled from the buffer up

Nul == "nul"
Junk == "junk"

ASSUME StringsAssumption ==
    \A s \in Strings : s \in Seq(Range(s)) /\ Len(s) > 0 /\ Nul \notin Range(s)
ASSUME BoundsAssumption == MaxEntries \in Nat /\ MaxChanges \in Nat /\ StackBytes \in Nat

\* What the kernel writes for a list: every string and its terminator.
Bytes(entries) == FlattenSeq([i \in 1 .. Len(entries) |-> Append(entries[i], Nul)])

Lists == UNION {[1 .. n -> Strings] : n \in 0 .. MaxEntries}

\* The memory modelled has room for every list.
ASSUME MemoryAssumption == \A l \in Lists : Len(Bytes(l)) <= StackBytes

VARIABLES
    list,          \* the kernel's umount list
    changes,       \* how often it has changed
    pc,
    total_size,
    mem,           \* memory from the buffer up, byte i at mem[i + 1]
    got,           \* the list as GETLIST found it
    char_buf,      \* offset of the string to be printed
    out,           \* the lines written to standard output
    exit

umountVars == <<list, changes, pc, total_size, mem, got, char_buf, out, exit>>

\* The stack is zero or junk.  The word above the bytes modelled is zero, or
\* a walk would run on for ever.
UmountInit ==
    /\ list \in Lists
    /\ changes = 0
    /\ pc = "open"
    /\ total_size = 0
    /\ \E b \in {Nul, Junk} : mem = [i \in 1 .. StackBytes |-> IF i = StackBytes THEN Nul ELSE b]
    /\ got = <<>>
    /\ char_buf = 0
    /\ out = <<>>
    /\ exit = "none"

Exit(status) == pc' = "exit" /\ exit' = status

\* Other programs add entries, delete them, or wipe the list and refill it.
ListChanges ==
    /\ pc # "exit"
    /\ changes < MaxChanges
    /\ changes' = changes + 1
    /\ list' \in Lists \ {list}
    /\ UNCHANGED <<pc, total_size, mem, got, char_buf, out, exit>>

\* No descriptor, or the request is refused.
GetSizeFails ==
    /\ pc = "open"
    /\ Exit("1")
    /\ UNCHANGED <<list, changes, total_size, mem, got, char_buf, out>>

GetSize ==
    /\ pc = "open"
    /\ total_size' = Len(Bytes(list))
    /\ IF total_size' = 0 THEN Exit("1") ELSE pc' = "alloca" /\ UNCHANGED exit
    /\ UNCHANGED <<list, changes, mem, got, char_buf, out>>

\* Mutant: the buffer is not cleared.
Uncleared(memory, size) == memory

\* memset(buffer, 0, total_size)
Cleared(memory, size) == [i \in DOMAIN memory |-> IF i <= size THEN Nul ELSE memory[i]]

\* Mutant: the memory is asked for until the list is as long as it was.
AllocaRetries ==
    /\ pc = "alloca"
    /\ Len(Bytes(list)) = total_size
    /\ mem' = Cleared(mem, total_size)
    /\ pc' = "get_list"
    /\ UNCHANGED <<list, changes, total_size, got, char_buf, out, exit>>

Alloca ==
    /\ pc = "alloca"
    /\ mem' = Cleared(mem, total_size)
    /\ pc' = "get_list"
    /\ UNCHANGED <<list, changes, total_size, got, char_buf, out, exit>>

GetListFails ==
    /\ pc = "get_list"
    /\ Exit("1")
    /\ UNCHANGED <<list, changes, total_size, mem, got, char_buf, out>>

\* The command holds an address, flags and a mode, and no size: the kernel
\* writes the list it has now.
GetList ==
    /\ pc = "get_list"
    /\ LET bytes == Bytes(list) IN
         mem' = [i \in DOMAIN mem |-> IF i <= Len(bytes) THEN bytes[i] ELSE mem[i]]
    /\ got' = list
    /\ pc' = "walk"
    /\ UNCHANGED <<list, changes, total_size, char_buf, out, exit>>

\* A list longer than the buffer has overwritten the frames above it: the
\* program may die of that at any moment, or run on.
Smashed ==
    /\ pc = "walk"
    /\ Len(Bytes(got)) > total_size
    /\ Exit("killed")
    /\ UNCHANGED <<list, changes, total_size, mem, got, char_buf, out>>

StrLen(at) == Min({n \in 0 .. StackBytes - at - 1 : mem[at + n + 1] = Nul})
StrAt(at) == SubSeq(mem, at + 1, at + StrLen(at))

\* char_buf + strlen(char_buf) + 1
NextString(at) == at + StrLen(at) + 1

AtEnd(at) == at >= StackBytes \/ mem[at + 1] = Nul

\* One turn of do { write(string); write(newline); } while (*char_buf).
Walk ==
    /\ pc = "walk"
    /\ out' = Append(out, StrAt(char_buf))
    /\ char_buf' = NextString(char_buf)
    /\ IF AtEnd(char_buf') THEN Exit("0") ELSE UNCHANGED <<pc, exit>>
    /\ UNCHANGED <<list, changes, total_size, mem, got>>

UmountProgram == GetSizeFails \/ GetSize \/ Alloca \/ GetListFails \/ GetList \/ Smashed \/ Walk

(***************************************************************************)
(* Properties.                                                             *)
(***************************************************************************)

\* The lines for a list that leaves room in the buffer. The do-while prints
\* before it tests, so an empty list makes one empty line.
Lines(entries) == IF entries = <<>> THEN << <<>> >> ELSE entries

\* However the list changed between the two requests, as long as it still fits
\* the buffer the lines printed begin with the list as GETLIST found it, every
\* entry once and in its order; and if it has shrunk nothing else is printed,
\* because the cleared rest of the buffer ends the walk. If it was emptied the
\* walk over the cleared buffer prints one empty line and stops.
PrintsTheList ==
    exit = "0" =>
        /\ Len(Bytes(got)) <= total_size => IsPrefix(got, out)
        /\ Len(Bytes(got)) < total_size => out = Lines(got)

\* "now we can prepare the same size of memory": what GETLIST writes has the
\* size GETSIZE gave, or less.
ListFits == pc = "walk" => Len(Bytes(got)) <= total_size

=============================================================================
