----------------------------- MODULE HashTable -----------------------------
(***************************************************************************)
(* hashing/test.c: a table of hashes that grows by one entry per           *)
(* table_insert, and the lookup of the hash of the program's argument.     *)
(*                                                                         *)
(* The hash function is any function of the words: two words may share a   *)
(* hash, and a hash may be 0.  realloc may fail; the table is then null    *)
(* while its count stays, and the next realloc starts a block whose older  *)
(* entries were never written.  One step is one table_insert or the        *)
(* lookup.                                                                 *)
(***************************************************************************)
EXTENDS Integers, SequencesExt, FiniteSetsExt

CONSTANTS
    Inserts,     \* the words main inserts, in order
    OtherWords,  \* words an argument may be besides
    Hashes       \* 0 and the other hashes

ASSUME HashAssumption == 0 \in Hashes /\ Inserts \in Seq(STRING)

Words == {Inserts[n] : n \in DOMAIN Inserts} \cup OtherWords

\* A block has at least one entry.
NULL_TABLE == <<>>

VARIABLES
    hash_of,     \* the hash function
    argument,    \* argv[1], or "none"
    hash_pc,
    made,        \* inserts made
    hash_array, hash_array_entry_count,
    lost,        \* a realloc has failed
    answer       \* what the program said: "none" before it ends

hashVars == <<hash_of, argument, hash_pc, made, hash_array, hash_array_entry_count, lost, answer>>

HashInit ==
    /\ hash_of \in [Words -> Hashes]
    /\ argument \in Words \cup {"none"}
    /\ hash_pc = "start"
    /\ made = 0
    /\ hash_array = NULL_TABLE /\ hash_array_entry_count = 0
    /\ lost = FALSE
    /\ answer = "none"

Start ==
    /\ hash_pc = "start"
    /\ IF argument = "none"
       THEN hash_pc' = "done" /\ answer' = "usage"
       ELSE hash_pc' = "insert" /\ UNCHANGED answer
    /\ UNCHANGED <<hash_of, argument, made, hash_array, hash_array_entry_count, lost>>

\* Mutant: only the entry inserted last is compared.
SameAsLast(hash) == hash_array # NULL_TABLE /\ Last(hash_array) = hash

\* The loop over the table, or the goto around it.
Duplicate(hash) ==
    hash_array # NULL_TABLE /\ \E k \in 1 .. hash_array_entry_count : hash_array[k] = hash

\* What realloc gives: the old entries, or, from a null pointer, a new block
\* with anything in it; the new entry is copied behind them.
Grown(hash) ==
    IF hash_array # NULL_TABLE THEN {Append(hash_array, hash)}
    ELSE {Append(old, hash) : old \in [1 .. hash_array_entry_count -> Hashes]}

table_insert ==
    /\ hash_pc = "insert" /\ made < Len(Inserts)
    /\ made' = made + 1
    /\ LET hash == hash_of[Inserts[made + 1]] IN
       \/ /\ hash = 0 \/ Duplicate(hash)
          /\ UNCHANGED <<hash_array, hash_array_entry_count, lost>>
       \/ /\ hash # 0 /\ ~Duplicate(hash)
          /\ hash_array' \in Grown(hash)
          /\ hash_array_entry_count' = hash_array_entry_count + 1
          /\ UNCHANGED lost
       \/ /\ hash # 0 /\ ~Duplicate(hash)
          /\ hash_array' = NULL_TABLE
          /\ lost' = TRUE
          /\ UNCHANGED hash_array_entry_count
    /\ UNCHANGED <<hash_of, argument, hash_pc, answer>>

\* A null table whose count is not zero is read.
Lookup ==
    /\ hash_pc = "insert" /\ made = Len(Inserts)
    /\ hash_pc' = "done"
    /\ LET hash == hash_of[argument] IN
       answer' = CASE hash = 0 -> "no hash"
                   [] hash # 0 /\ hash_array = NULL_TABLE ->
                        (IF hash_array_entry_count = 0 THEN "not found" ELSE "fault")
                   [] OTHER ->
                        (IF \E k \in 1 .. hash_array_entry_count : hash_array[k] = hash
                         THEN "found" ELSE "not found")
    /\ UNCHANGED <<hash_of, argument, made, hash_array, hash_array_entry_count, lost>>

HashProgram == Start \/ table_insert \/ Lookup

(***************************************************************************)
(* Properties.                                                             *)
(***************************************************************************)

\* The hashes of the words inserted so far.
Inserted == {hash_of[Inserts[k]] : k \in 1 .. made} \ {0}

\* As long as memory lasts the table holds the hash of every word inserted, each
\* once, whichever words share one, and the lookup finds exactly those; a null
\* table is read, or an inserted word missed, only after a failed realloc.
TableIsTheSet ==
    ~lost =>
        /\ hash_array_entry_count = Cardinality(Inserted)
        /\ hash_array # NULL_TABLE =>
             {hash_array[k] : k \in 1 .. hash_array_entry_count} = Inserted
        /\ answer = "found" => hash_of[argument] \in Inserted
        /\ answer = "not found" => hash_of[argument] \notin Inserted
        /\ answer # "fault"

=============================================================================
