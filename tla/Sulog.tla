------------------------------- MODULE Sulog -------------------------------
(***************************************************************************)
(* sulog_test/sulog_test.c: a magic reboot call copies KernelSU's log of   *)
(* su calls, a ring, and the index of the slot to be written next; the     *)
(* program prints the ring from that slot on, so that the newest entry     *)
(* comes last.                                                             *)
(*                                                                         *)
(* The ring is the kernel's.  An entry is the number of the su call it     *)
(* records, 0 a slot not written yet.  Calls are logged while the copies   *)
(* are made, which may happen in either order.                             *)
(***************************************************************************)
EXTENDS Integers, Sequences

CONSTANTS
    SULOG_ENTRY_MAX,   \* slots of the ring (100)
    MaxLogged          \* bound on the su calls logged

ASSUME SulogAssumption == SULOG_ENTRY_MAX \in Nat \ {0} /\ MaxLogged \in Nat

Slots == 0 .. SULOG_ENTRY_MAX - 1

VARIABLES
    logged,            \* su calls logged so far
    sulog_pc,
    latest_index, sulog_buf,   \* what the program has of the ring
    copied,            \* logged when latest_index and when sulog_buf were copied
    answered,          \* the kernel knows the request
    shown              \* the lines printed

sulogVars == <<logged, sulog_pc, latest_index, sulog_buf, copied, answered, shown>>

\* After n calls: the slot written next, and what the slots hold.
NextSlot(n) == n % SULOG_ENTRY_MAX
RingAfter(n) ==
    [s \in Slots |->
        IF n = 0 \/ s > n - 1 THEN 0 ELSE ((n - 1 - s) \div SULOG_ENTRY_MAX) * SULOG_ENTRY_MAX + s + 1]

SulogInit ==
    /\ logged = 0
    /\ sulog_pc = "reboot"
    /\ latest_index = 0 /\ sulog_buf = [s \in Slots |-> 0]
    /\ copied = [index |-> 0, buf |-> 0]
    /\ answered = FALSE
    /\ shown = <<>>

\* Some process calls su.
SuIsCalled ==
    /\ logged < MaxLogged
    /\ logged' = logged + 1
    /\ UNCHANGED <<sulog_pc, latest_index, sulog_buf, copied, answered, shown>>

\* Without KernelSU the call fails and writes nothing; its result is not tested.
RebootFails ==
    /\ sulog_pc = "reboot"
    /\ sulog_pc' = "print"
    /\ UNCHANGED <<logged, latest_index, sulog_buf, copied, answered, shown>>

CopyIndex ==
    /\ sulog_pc \in {"reboot", "copy_index"}
    /\ latest_index' = NextSlot(logged)
    /\ copied' = [copied EXCEPT !.index = logged]
    /\ answered' = TRUE
    /\ sulog_pc' = IF sulog_pc = "reboot" THEN "copy_buf" ELSE "print"
    /\ UNCHANGED <<logged, sulog_buf, shown>>

CopyBuf ==
    /\ sulog_pc \in {"reboot", "copy_buf"}
    /\ sulog_buf' = RingAfter(logged)
    /\ copied' = [copied EXCEPT !.buf = logged]
    /\ answered' = TRUE
    /\ sulog_pc' = IF sulog_pc = "reboot" THEN "copy_index" ELSE "print"
    /\ UNCHANGED <<logged, latest_index, shown>>

\* Mutant: the walk starts at the newest entry.
FromNewest(i) == (latest_index + SULOG_ENTRY_MAX - 1 + i) % SULOG_ENTRY_MAX

\* (start + i) % SULOG_ENTRY_MAX
Reordered(i) == (latest_index + i) % SULOG_ENTRY_MAX

\* One turn of the loop: i is the number of lines printed.
PrintEntry ==
    /\ sulog_pc = "print"
    /\ shown' = Append(shown, sulog_buf[Reordered(Len(shown))])
    /\ sulog_pc' = IF Len(shown') < SULOG_ENTRY_MAX THEN "print" ELSE "done"
    /\ UNCHANGED <<logged, latest_index, sulog_buf, copied, answered>>

SulogProgram == RebootFails \/ CopyIndex \/ CopyBuf \/ PrintEntry

(***************************************************************************)
(* Properties.                                                             *)
(***************************************************************************)

\* The last SULOG_ENTRY_MAX calls of the first n, oldest first, behind a line
\* for each slot not written yet.
OldestFirst(n) ==
    [k \in 1 .. SULOG_ENTRY_MAX |->
        IF n - SULOG_ENTRY_MAX + k > 0 THEN n - SULOG_ENTRY_MAX + k ELSE 0]

\* "this way we make it so that latest index is highest index": the lines are
\* the ring oldest first, turned by as many places as calls were logged between
\* the two copies, so no entry is missing or shown twice even then.  Without an
\* answer the lines are empty.
SulogIsOrdered ==
    sulog_pc = "done" =>
        IF ~answered THEN \A k \in DOMAIN shown : shown[k] = 0
        ELSE \A k \in 1 .. SULOG_ENTRY_MAX :
               shown[k] = OldestFirst(copied.buf)
                            [1 + ((k - 1 + copied.index - copied.buf) % SULOG_ENTRY_MAX)]

=============================================================================
