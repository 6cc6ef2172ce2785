------------------------ MODULE ListPrograms_proofs ------------------------
(***************************************************************************)
(* The table of hashing/test.c, for every list of words, every hash        *)
(* function and every pattern of failing allocations; the ring of          *)
(* sulog_test, for every size and every number of calls logged before and  *)
(* between the two copies; the strings grab_umount_list prints, for every  *)
(* set of mount points and every change of the list.                       *)
(***************************************************************************)
EXTENDS ListPrograms, NumberLemmas, SequenceTheorems, TLAPS

Entries == {hash_array[k] : k \in 1 .. hash_array_entry_count}

HashType ==
    /\ hash_of \in [Words -> Hashes]
    /\ argument \in Words \cup {"none"}
    /\ hash_pc \in {"start", "insert", "done"}
    /\ hash_pc = "insert" => argument \in Words
    /\ hash_pc # "done" => answer = "none"
    /\ made \in 0 .. Len(Inserts)
    /\ hash_array_entry_count \in Nat
    /\ lost \in BOOLEAN

\* While no allocation has failed, the block has exactly the entries counted and
\* they are the hashes inserted; the count does not run ahead of the block.
TableInv ==
    ~lost =>
        /\ hash_array \in Seq(Hashes)
        /\ Len(hash_array) = hash_array_entry_count
        /\ IsFiniteSet(Inserted)
        /\ hash_array_entry_count = Cardinality(Inserted)
        /\ Entries = Inserted

AnswerInv ==
    ~lost =>
        /\ answer = "found" => hash_of[argument] \in Inserted
        /\ answer = "not found" => hash_of[argument] \notin Inserted
        /\ answer # "fault"

Inv == HashType /\ TableInv /\ AnswerInv

\* The table starts empty.
LEMMA InitInv == Init => Inv
  <1> SUFFICES ASSUME Init PROVE Inv
    OBVIOUS
  <1> USE DEF Init, HashInit
  <1>1. Len(Inserts) \in Nat
    BY HashAssumption
  <1>a. made = 0 /\ hash_array_entry_count = 0 /\ lost \in BOOLEAN
    BY Zenon
  <1>b. made \in 0 .. Len(Inserts) /\ hash_array_entry_count \in Nat
    BY <1>1, <1>a
  <1>2. HashType
    BY <1>a, <1>b, Zenon DEF HashType
  <1>3. Inserted = {} /\ Entries = {}
    BY DEF Inserted, Entries
  <1>4. TableInv
    BY <1>3, FS_EmptySet DEF TableInv, NULL_TABLE
  <1> QED
    BY <1>2, <1>4 DEF Inv, AnswerInv

\* One more word adds its hash to the hashes inserted, unless the hash is 0.
LEMMA InsertedGrows ==
  ASSUME Inv, made < Len(Inserts), made' = made + 1, hash_of' = hash_of,
         NEW hash, hash = hash_of[Inserts[made + 1]]
  PROVE  /\ hash \in Hashes
         /\ Inserted' = Inserted \cup ({hash} \ {0})
  <1>1. made \in Nat /\ made + 1 \in DOMAIN Inserts /\ hash_of \in [Words -> Hashes]
    BY HashAssumption DEF Inv, HashType
  <1>2. Inserts[made + 1] \in Words
    BY <1>1 DEF Words
  <1>3. 1 .. made + 1 = (1 .. made) \cup {made + 1}
    BY <1>1
  <1>4. {hash_of[Inserts[k]] : k \in 1 .. made + 1} = {hash_of[Inserts[k]] : k \in 1 .. made} \cup {hash}
    BY <1>3
  <1>5. Inserted' = {hash_of[Inserts[k]] : k \in 1 .. made + 1} \ {0}
    BY DEF Inserted
  <1> QED
    BY <1>1, <1>2, <1>4, <1>5 DEF Inserted

\* table_insert keeps the invariant, whether realloc fails or not.
LEMMA InsertInv == Inv /\ table_insert => Inv'
  <1> SUFFICES ASSUME Inv, table_insert PROVE Inv'
    OBVIOUS
  <1> DEFINE hash == hash_of[Inserts[made + 1]]
  <1>1. /\ made \in Nat /\ Len(Inserts) \in Nat /\ made < Len(Inserts) /\ made' = made + 1
        /\ hash_of' = hash_of /\ argument' = argument /\ hash_pc' = "insert" /\ hash_pc = "insert"
        /\ answer' = "none" /\ hash_array_entry_count \in Nat
    BY HashAssumption DEF table_insert, Inv, HashType
  <1>2. hash \in Hashes /\ Inserted' = Inserted \cup ({hash} \ {0})
    BY <1>1, InsertedGrows
  <1>a. lost' \in BOOLEAN
    BY DEF table_insert, Inv, HashType
  <1>b. made' \in 0 .. Len(Inserts) /\ hash_array_entry_count' \in Nat
    BY <1>1 DEF table_insert
  <1>3. HashType'
    BY <1>1, <1>a, <1>b DEF Inv, HashType
  <1>4. AnswerInv'
    BY <1>1 DEF AnswerInv
  <1>5. CASE (hash = 0 \/ Duplicate(hash)) /\ UNCHANGED <<hash_array, hash_array_entry_count, lost>>
    <2>1. SUFFICES ASSUME ~lost PROVE TableInv'
      BY <1>3, <1>4, <1>5 DEF Inv, TableInv
    <2>2. Entries = Inserted /\ Entries' = Entries
      BY <1>5, <2>1 DEF Inv, TableInv, Entries
    <2>3. Inserted' = Inserted
      BY <1>2, <1>5, <2>2 DEF Duplicate, Entries
    <2> QED
      BY <1>5, <2>1, <2>2, <2>3 DEF Inv, TableInv
  <1>6. CASE /\ hash # 0 /\ ~Duplicate(hash)
             /\ hash_array' \in Grown(hash)
             /\ hash_array_entry_count' = hash_array_entry_count + 1
             /\ UNCHANGED lost
    <2>1. SUFFICES ASSUME ~lost PROVE TableInv'
      BY <1>3, <1>4, <1>6 DEF Inv, TableInv
    <2>2. /\ hash_array \in Seq(Hashes) /\ Len(hash_array) = hash_array_entry_count
          /\ IsFiniteSet(Inserted) /\ hash_array_entry_count = Cardinality(Inserted)
          /\ Entries = Inserted
      BY <2>1 DEF Inv, TableInv
    <2>3. hash_array' = Append(hash_array, hash)
      <3>1. CASE hash_array # NULL_TABLE
        BY <1>6, <3>1 DEF Grown
      <3>2. CASE hash_array = NULL_TABLE
        <4>1. hash_array_entry_count = 0 /\ hash_array = << >>
          BY <2>2, <3>2 DEF NULL_TABLE
        <4>2. PICK old \in [1 .. hash_array_entry_count -> Hashes] : hash_array' = Append(old, hash)
          BY <1>6, <3>2 DEF Grown
        <4>3. old = << >>
          BY <4>1, <4>2
        <4> QED
          BY <4>1, <4>2, <4>3
      <3> QED
        BY <3>1, <3>2
    <2>4. /\ hash_array' \in Seq(Hashes) /\ Len(hash_array') = hash_array_entry_count'
          /\ \A k \in 1 .. hash_array_entry_count : hash_array'[k] = hash_array[k]
          /\ hash_array'[hash_array_entry_count + 1] = hash
      BY <1>2, <1>6, <2>2, <2>3
    <2>5. 1 .. hash_array_entry_count' = (1 .. hash_array_entry_count) \cup {hash_array_entry_count + 1}
      BY <1>1, <1>6
    <2>6. Entries' = Entries \cup {hash}
      BY <2>4, <2>5 DEF Entries
    <2>7. hash \notin Inserted
      <3>1. CASE hash_array # NULL_TABLE
        BY <1>6, <2>2, <3>1 DEF Duplicate, Entries
      <3>2. CASE hash_array = NULL_TABLE
        <4>1. hash_array_entry_count = 0
          BY <2>2, <3>2 DEF NULL_TABLE
        <4> QED
          BY <2>2, <4>1 DEF Entries
      <3> QED
        BY <3>1, <3>2
    <2>8. Inserted' = Inserted \cup {hash}
      BY <1>2, <1>6
    <2>9. IsFiniteSet(Inserted') /\ Cardinality(Inserted') = Cardinality(Inserted) + 1
      BY <2>2, <2>7, <2>8, FS_AddElement
    <2> QED
      BY <1>6, <2>2, <2>4, <2>6, <2>8, <2>9 DEF TableInv
  <1>7. CASE lost' = TRUE
    BY <1>3, <1>4, <1>7 DEF Inv, TableInv
  <1> QED
    BY <1>5, <1>6, <1>7 DEF table_insert

\* The start, the lookup and everything the other programs do keep it.
LEMMA RestInv ==
  ASSUME Inv, Start \/ Lookup \/ UNCHANGED hashVars
  PROVE  Inv'
  <1>1. /\ hash_of' = hash_of /\ argument' = argument /\ made' = made
        /\ hash_array' = hash_array /\ hash_array_entry_count' = hash_array_entry_count
        /\ lost' = lost
    BY DEF Start, Lookup, hashVars
  <1>2. Inserted' = Inserted /\ Entries' = Entries
    BY <1>1 DEF Inserted, Entries
  <1>3. TableInv'
    BY <1>1, <1>2 DEF Inv, TableInv
  <1>4. HashType'
    BY <1>1 DEF Inv, HashType, Start, Lookup, hashVars
  <1>5. AnswerInv'
    <2>1. CASE Start
      BY <1>1, <1>2, <2>1 DEF Start, Inv, AnswerInv, HashType
    <2>2. CASE UNCHANGED hashVars
      <3>1. answer' = answer
        BY <2>2 DEF hashVars
      <3> QED
        BY <1>1, <1>2, <3>1, Zenon DEF Inv, AnswerInv
    <2>3. CASE Lookup
      <3> SUFFICES ASSUME ~lost
                   PROVE  /\ answer' = "found" => hash_of[argument] \in Inserted
                          /\ answer' = "not found" => hash_of[argument] \notin Inserted
                          /\ answer' # "fault"
        BY <1>1, <1>2 DEF AnswerInv
      <3>1. /\ Entries = Inserted /\ Len(hash_array) = hash_array_entry_count
        BY DEF Inv, TableInv
      <3>2. CASE hash_of[argument] = 0
        BY <2>3, <3>2 DEF Lookup
      <3>3. CASE hash_of[argument] # 0 /\ hash_array = NULL_TABLE
        <4>1. hash_array_entry_count = 0
          BY <3>1, <3>3 DEF NULL_TABLE
        <4>2. answer' = "not found"
          BY <2>3, <3>3, <4>1 DEF Lookup
        <4>3. Entries = {}
          BY <4>1 DEF Entries
        <4> QED
          BY <3>1, <4>2, <4>3
      <3>4. CASE hash_of[argument] # 0 /\ hash_array # NULL_TABLE
        <4>1. answer' = IF \E k \in 1 .. hash_array_entry_count : hash_array[k] = hash_of[argument]
                        THEN "found" ELSE "not found"
          BY <2>3, <3>4 DEF Lookup
        <4> QED
          BY <3>1, <4>1 DEF Entries
      <3> QED
        BY <3>2, <3>3, <3>4
    <2> QED
      BY <2>1, <2>2, <2>3
  <1> QED
    BY <1>3, <1>4, <1>5 DEF Inv

\* Every step of every program keeps it.
LEMMA NextInv == Inv /\ [Next]_vars => Inv'
  <1> SUFFICES ASSUME Inv, [Next]_vars PROVE Inv'
    OBVIOUS
  <1>1. Start \/ table_insert \/ Lookup \/ UNCHANGED hashVars
    BY DEF Next, Program, Others, HashProgram, vars
  <1> QED
    BY <1>1, InsertInv, RestInv

\* As long as memory lasts, the table of hashing/test.c is the set of the hashes
\* inserted, and the lookup answers membership in it.
THEOREM TableIsSet == Spec => []TableIsTheSet
  <1>1. Inv => TableIsTheSet
    BY DEF Inv, TableInv, AnswerInv, TableIsTheSet, Entries
  <1> QED
    BY <1>1, InitInv, NextInv, PTL DEF Spec

(***************************************************************************)
(* The ring of sulog_test.c.                                               *)
(***************************************************************************)

\* What j is below: b + j and s differ by a multiple p of n.
LEMMA BehindTheRing ==
  ASSUME NEW n \in Nat \ {0}, NEW b \in Nat, NEW s \in 0 .. n - 1, NEW j \in 0 .. n - 1,
         NEW q \in Int, b + j = n * q + s, b = 0 \/ s > b - 1
  PROVE  b - n + (1 + j) <= 0
  <1> DEFINE p == n * q
  <1>1. p \in Int /\ b + j = p + s
    OBVIOUS
  <1>2. s - b \in 0 .. n - 1
    OBVIOUS
  <1> HIDE DEF p
  <1>3. j = p + (s - b)
    BY <1>1
  <1>4. j = s - b
    BY <1>2, <1>3, OneRemainder DEF p
  <1> QED
    BY <1>4

\* A slot s that has been written: what its entry q4 * n + s + 1 is computed
\* from, and the place j of the entry in the list of the oldest first.
InRing(n, b, s, j, q, q4, r) ==
    /\ n \in Nat \ {0} /\ b \in Nat /\ s \in 0 .. n - 1 /\ j \in 0 .. n - 1
    /\ q \in Int /\ q4 \in Int /\ r \in 0 .. n - 1
    /\ b + j = n * q + s
    /\ ~(b = 0 \/ s > b - 1)
    /\ b - 1 - s = n * q4 + r

\* The entry of a slot that has been written.
LEMMA InTheRing ==
  ASSUME NEW n, NEW b, NEW s, NEW j, NEW q, NEW q4, NEW r, InRing(n, b, s, j, q, q4, r)
  PROVE  b - n + (1 + j) = q4 * n + s + 1 /\ b - n + (1 + j) > 0
  <1> USE DEF InRing
  <1> DEFINE p == n * q
             p4 == n * q4
  <1>1. p \in Int /\ p4 \in Int /\ b + j = p + s /\ b - 1 - s = p4 + r
    OBVIOUS
  <1>2. (q - q4) - 1 \in Int /\ n * ((q - q4) - 1) = (p - p4) - n
    OBVIOUS
  <1>3. q4 * n = p4 /\ (q4 <= -1 => p4 <= -n) /\ (q4 >= 0 => p4 >= 0)
    BY Multiples
  <1>4. n - 1 - j \in 0 .. n - 1
    OBVIOUS
  <1> HIDE DEF p, p4
  <1>5. r = n * ((q - q4) - 1) + (n - 1 - j)
    BY <1>1, <1>2
  <1>6. r = n - 1 - j
    BY <1>2, <1>4, <1>5, OneRemainder
  <1>7. b - n + (1 + j) = p4 + s + 1
    BY <1>1, <1>6
  <1>8. p4 > -n
    BY <1>1
  <1>9. p4 >= 0
    BY <1>1, <1>3, <1>8
  <1> QED
    BY <1>1, <1>3, <1>7, <1>9

\* A sum and a difference of numbers leave remainders that differ by a
\* multiple of n.
LEMMA TurnedBy ==
  ASSUME NEW n \in Nat \ {0}, NEW i \in Nat, NEW b \in Nat, NEW k \in Int,
         NEW m \in Int, NEW s \in Int, NEW j \in Int,
         NEW q1 \in Int, NEW q2 \in Int, NEW q3 \in Int,
         i = n * q1 + m, m + (k - 1) = n * q2 + s, ((k - 1) + i) - b = n * q3 + j
  PROVE  b + j = n * ((q1 + q2) - q3) + s
  <1> DEFINE p1 == n * q1
             p2 == n * q2
             p3 == n * q3
  <1>1. n * ((q1 + q2) - q3) = (p1 + p2) - p3
    OBVIOUS
  <1>2. /\ p1 \in Int /\ p2 \in Int /\ p3 \in Int
        /\ i = p1 + m /\ m + (k - 1) = p2 + s /\ ((k - 1) + i) - b = p3 + j
    OBVIOUS
  <1> HIDE DEF p1, p2, p3
  <1>3. b + j = ((p1 + p2) - p3) + s
    BY <1>2
  <1> QED
    BY <1>1, <1>3

\* The line printed k-th is the entry OldestFirst names: Slot is the slot it is
\* read from when the index was copied after i calls and the ring after b, Place
\* the place of that entry.
Slot(i, k) == ((i % SULOG_ENTRY_MAX) + (k - 1)) % SULOG_ENTRY_MAX
Place(i, b, k) == (k - 1 + i - b) % SULOG_ENTRY_MAX

\* Turning the ring by the calls between the copies gives the line printed.
LEMMA RingTurned ==
  ASSUME NEW i \in Nat, NEW b \in Nat, NEW k \in 1 .. SULOG_ENTRY_MAX
  PROVE  RingAfter(b)[Slot(i, k)] = OldestFirst(b)[1 + Place(i, b, k)]
  <1> DEFINE n == SULOG_ENTRY_MAX
             m == i % n
             x == m + (k - 1)
             y == k - 1 + i - b
             s == Slot(i, k)
             j == Place(i, b, k)
             z == b - 1 - s
             r == z % n
             q1 == i \div n
             q2 == x \div n
             q3 == y \div n
             q4 == z \div n
             q == (q1 + q2) - q3
  <1>1. n \in Nat \ {0}
    BY SulogAssumption
  <1>2. s = x % n /\ j = y % n
    BY DEF Slot, Place
  <1> HIDE DEF n, s, j
  <1>3. m \in 0 .. n - 1 /\ q1 \in Int /\ i = n * q1 + m
    BY <1>1, Divided
  <1> HIDE DEF m, q1
  <1>4. x \in Int /\ y \in Int
    BY <1>3
  <1> HIDE DEF x, y
  <1>5. s \in 0 .. n - 1 /\ q2 \in Int /\ x = n * q2 + s
    BY <1>1, <1>2, <1>4, Divided
  <1>6. j \in 0 .. n - 1 /\ q3 \in Int /\ y = n * q3 + j
    BY <1>1, <1>2, <1>4, Divided
  <1>7. z \in Int
    BY <1>5
  <1> HIDE DEF z, q2, q3
  <1>8. r \in 0 .. n - 1 /\ q4 \in Int /\ z = n * q4 + r
    BY <1>1, <1>7, Divided
  <1> HIDE DEF r
  <1>9. q \in Int /\ b + j = n * q + s
    <2>1. m + (k - 1) = n * q2 + s /\ ((k - 1) + i) - b = n * q3 + j
      BY <1>5, <1>6 DEF x, y
    <2>2. b + j = n * ((q1 + q2) - q3) + s
      BY <1>1, <1>3, <1>5, <1>6, <2>1, TurnedBy
    <2> QED
      BY <1>3, <1>5, <1>6, <2>2
  <1> HIDE DEF q
  <1>10. /\ RingAfter(b)[s] = IF b = 0 \/ s > b - 1 THEN 0 ELSE q4 * n + s + 1
         /\ OldestFirst(b)[1 + j] = IF b - n + (1 + j) > 0 THEN b - n + (1 + j) ELSE 0
    <2>1. s \in Slots /\ 1 + j \in 1 .. SULOG_ENTRY_MAX
      BY <1>1, <1>5, <1>6 DEF Slots, n
    <2>2. RingAfter(b)[s] = IF b = 0 \/ s > b - 1 THEN 0 ELSE q4 * n + s + 1
      BY <2>1 DEF RingAfter, n, q4, z
    <2>3. OldestFirst(b)[1 + j] = IF b - n + (1 + j) > 0 THEN b - n + (1 + j) ELSE 0
      BY <2>1 DEF OldestFirst, n
    <2> QED
      BY <2>2, <2>3
  <1> HIDE DEF q4
  <1>11. CASE b = 0 \/ s > b - 1
    <2>1. b - n + (1 + j) <= 0
      BY <1>1, <1>5, <1>6, <1>9, <1>11, BehindTheRing
    <2>2. ~(b - n + (1 + j) > 0)
      BY <1>1, <1>6, <2>1
    <2> QED
      BY <1>10, <1>11, <2>2 DEF s, j
  <1>12. CASE ~(b = 0 \/ s > b - 1)
    <2>1. b - 1 - s = n * q4 + r
      BY <1>8 DEF z
    <2>2. b - n + (1 + j) = q4 * n + s + 1 /\ b - n + (1 + j) > 0
      <3>1. /\ n \in Nat \ {0} /\ b \in Nat /\ s \in 0 .. n - 1 /\ j \in 0 .. n - 1
            /\ q \in Int /\ q4 \in Int /\ r \in 0 .. n - 1
        BY <1>1, <1>5, <1>6, <1>8, <1>9
      <3>2. b + j = n * q + s
        BY <1>9, Zenon
      <3>3. InRing(n, b, s, j, q, q4, r)
        BY <1>12, <2>1, <3>1, <3>2, Zenon DEF InRing
      <3> QED
        BY <3>3, InTheRing, Zenon
    <2> QED
      BY <1>10, <1>12, <2>2 DEF s, j
  <1> QED
    BY <1>11, <1>12

\* What the program has copied, and the slots its lines come from.
SulogInv ==
    /\ sulog_pc \in {"reboot", "copy_index", "copy_buf", "print", "done"}
    /\ logged \in Nat /\ copied.index \in Nat /\ copied.buf \in Nat
    /\ copied \in [index : Nat, buf : Nat]
    /\ latest_index \in Nat
    /\ sulog_pc = "reboot" => ~answered
    /\ sulog_pc \in {"copy_index", "copy_buf"} => answered
    /\ ~answered => \A s \in Slots : sulog_buf[s] = 0
    /\ answered /\ sulog_pc # "copy_index" => latest_index = NextSlot(copied.index)
    /\ answered /\ sulog_pc # "copy_buf" => sulog_buf = RingAfter(copied.buf)
    /\ sulog_pc \notin {"print", "done"} => shown = <<>>
    /\ \E lines : shown \in Seq(lines)
    /\ Len(shown) <= SULOG_ENTRY_MAX
    /\ sulog_pc = "print" => Len(shown) < SULOG_ENTRY_MAX
    /\ sulog_pc = "done" => Len(shown) = SULOG_ENTRY_MAX
    /\ \A k \in 1 .. Len(shown) : shown[k] = sulog_buf[(latest_index + (k - 1)) % SULOG_ENTRY_MAX]

\* Nothing has been copied at the start.
LEMMA InitSulog == Init => SulogInv
  <1> SUFFICES ASSUME Init PROVE SulogInv
    OBVIOUS
  <1>1. shown = <<>> /\ <<>> \in Seq({0}) /\ Len(<<>>) = 0
    BY DEF Init, SulogInit
  <1> QED
    BY <1>1, SulogAssumption DEF Init, SulogInit, SulogInv

\* The two copies, in either order, or none.
LEMMA CopySulog ==
  ASSUME SulogInv, RebootFails \/ CopyIndex \/ CopyBuf \/ SuIsCalled
  PROVE  SulogInv'
  <1>1. CASE RebootFails
    BY <1>1, SulogAssumption DEF RebootFails, SulogInv
  <1>2. CASE SuIsCalled
    BY <1>2 DEF SuIsCalled, SulogInv
  <1>3. CASE CopyIndex
    <2>1. shown = <<>> /\ shown' = shown /\ Len(<<>>) = 0 /\ answered'
          /\ sulog_pc' \in {"copy_buf", "print"} /\ (sulog_pc' = "print" => sulog_pc = "copy_index")
          /\ logged' = logged /\ logged \in Nat /\ sulog_buf' = sulog_buf
          /\ sulog_pc \in {"reboot", "copy_index"}
      BY <1>3 DEF CopyIndex, SulogInv
    <2>2. copied' \in [index : Nat, buf : Nat] /\ copied'.index = logged /\ copied'.buf = copied.buf
          /\ copied.buf \in Nat
      BY <1>3, <2>1 DEF CopyIndex, SulogInv
    <2>3. latest_index' = NextSlot(logged) /\ NextSlot(logged) \in Nat
      BY <1>3, <2>1, SulogAssumption DEF CopyIndex, NextSlot
    <2>4. sulog_pc' = "print" => sulog_buf' = RingAfter(copied'.buf)
      BY <2>1, <2>2 DEF SulogInv
    <2> QED
      BY <2>1, <2>2, <2>3, <2>4, SulogAssumption DEF SulogInv
  <1>4. CASE CopyBuf
    <2>1. shown = <<>> /\ shown' = shown /\ Len(<<>>) = 0 /\ answered'
          /\ sulog_pc' \in {"copy_index", "print"} /\ (sulog_pc' = "print" => sulog_pc = "copy_buf")
          /\ logged' = logged /\ logged \in Nat /\ latest_index' = latest_index
          /\ latest_index \in Nat
          /\ sulog_pc \in {"reboot", "copy_buf"}
      BY <1>4 DEF CopyBuf, SulogInv
    <2>2. copied' \in [index : Nat, buf : Nat] /\ copied'.buf = logged /\ copied'.index = copied.index
          /\ copied.index \in Nat
      BY <1>4, <2>1 DEF CopyBuf, SulogInv
    <2>3. sulog_buf' = RingAfter(logged)
      BY <1>4 DEF CopyBuf
    <2>4. sulog_pc' = "print" => latest_index' = NextSlot(copied'.index)
      BY <2>1, <2>2 DEF SulogInv
    <2> QED
      BY <2>1, <2>2, <2>3, <2>4, SulogAssumption DEF SulogInv
  <1> QED
    BY <1>1, <1>2, <1>3, <1>4

\* One line more, from the next slot.
LEMMA PrintSulog == SulogInv /\ PrintEntry => SulogInv'
  <1> SUFFICES ASSUME SulogInv, PrintEntry PROVE SulogInv'
    OBVIOUS
  <1>1. /\ sulog_pc = "print" /\ logged' = logged /\ latest_index' = latest_index
        /\ sulog_buf' = sulog_buf /\ copied' = copied /\ answered' = answered
        /\ sulog_pc' = IF Len(shown') < SULOG_ENTRY_MAX THEN "print" ELSE "done"
    BY DEF PrintEntry
  <1> DEFINE n == Len(shown)
             line == sulog_buf[(latest_index + n) % SULOG_ENTRY_MAX]
  <1>2. PICK lines : shown \in Seq(lines)
    BY DEF SulogInv
  <1>3. n \in Nat /\ n < SULOG_ENTRY_MAX
    BY <1>1, <1>2 DEF SulogInv
  <1>4. shown' = Append(shown, line)
    BY DEF PrintEntry, Reordered
  <1> HIDE DEF line
  <1> DEFINE more == lines \cup {line}
  <1>5. shown \in Seq(more) /\ line \in more
    BY <1>2, SeqMonotonic
  <1> HIDE DEF more
  <1>6. /\ shown' \in Seq(more) /\ Len(shown') = n + 1
        /\ \A k \in 1 .. n : shown'[k] = shown[k]
        /\ shown'[n + 1] = line
    BY <1>4, <1>5, AppendProperties
  <1> HIDE DEF n
  <1>7. ASSUME NEW k \in 1 .. n + 1
        PROVE  shown'[k] = sulog_buf[(latest_index + (k - 1)) % SULOG_ENTRY_MAX]
    <2>1. CASE k \in 1 .. n
      BY <1>6, <2>1 DEF SulogInv, n
    <2>2. CASE k = n + 1
      <3>1. k - 1 = n
        BY <1>3, <2>2
      <3> QED
        BY <1>6, <2>2, <3>1 DEF line
    <2> QED
      BY <1>3, <2>1, <2>2
  <1>8. /\ Len(shown') <= SULOG_ENTRY_MAX
        /\ sulog_pc' = "print" => Len(shown') < SULOG_ENTRY_MAX
        /\ sulog_pc' = "done" => Len(shown') = SULOG_ENTRY_MAX
        /\ sulog_pc' \in {"print", "done"}
    BY <1>1, <1>3, <1>6, SulogAssumption
  <1>9. \E all : shown' \in Seq(all)
    BY <1>6
  <1>10. \A k \in 1 .. Len(shown') :
           shown'[k] = sulog_buf'[(latest_index' + (k - 1)) % SULOG_ENTRY_MAX]
    BY <1>1, <1>6, <1>7
  <1> QED
    BY <1>1, <1>8, <1>9, <1>10 DEF SulogInv

\* Every step of every program keeps it.
LEMMA NextSulog == SulogInv /\ [Next]_vars => SulogInv'
  <1> SUFFICES ASSUME SulogInv, [Next]_vars PROVE SulogInv'
    OBVIOUS
  <1>1. RebootFails \/ CopyIndex \/ CopyBuf \/ PrintEntry \/ SuIsCalled \/ UNCHANGED sulogVars
    BY DEF Next, Program, Others, SulogProgram, vars
  <1>2. CASE UNCHANGED sulogVars
    BY <1>2 DEF sulogVars, SulogInv
  <1> QED
    BY <1>1, <1>2, CopySulog, PrintSulog

\* For every size of the ring and every number of calls logged before and between
\* the two copies, the lines are the ring oldest first, turned by the calls
\* between the copies; without an answer they are empty.
THEOREM RingIsInOrder == Spec => []SulogIsOrdered
  <1>1. SulogInv => SulogIsOrdered
    <2> SUFFICES ASSUME SulogInv, sulog_pc = "done"
                 PROVE  /\ ~answered => \A k \in DOMAIN shown : shown[k] = 0
                        /\ answered => \A k \in 1 .. SULOG_ENTRY_MAX :
                             shown[k] = OldestFirst(copied.buf)
                               [1 + ((k - 1 + copied.index - copied.buf) % SULOG_ENTRY_MAX)]
      BY Zenon DEF SulogIsOrdered
    <2>1. PICK lines : shown \in Seq(lines)
      BY DEF SulogInv
    <2>2. /\ Len(shown) = SULOG_ENTRY_MAX /\ DOMAIN shown = 1 .. SULOG_ENTRY_MAX
          /\ \A k \in 1 .. SULOG_ENTRY_MAX :
               shown[k] = sulog_buf[(latest_index + (k - 1)) % SULOG_ENTRY_MAX]
      BY <2>1, LenProperties DEF SulogInv
    <2>3. CASE ~answered
      <3>1. \A k \in 1 .. SULOG_ENTRY_MAX : (latest_index + (k - 1)) % SULOG_ENTRY_MAX \in Slots
        BY SulogAssumption DEF SulogInv, Slots
      <3> QED
        BY <2>2, <2>3, <3>1 DEF SulogInv
    <2>4. CASE answered
      <3> SUFFICES ASSUME NEW k \in 1 .. SULOG_ENTRY_MAX
                   PROVE  shown[k] = OldestFirst(copied.buf)[1 + Place(copied.index, copied.buf, k)]
        BY <2>4, Zenon DEF Place
      <3>1. /\ latest_index = NextSlot(copied.index) /\ sulog_buf = RingAfter(copied.buf)
            /\ copied.index \in Nat /\ copied.buf \in Nat
        BY <2>4 DEF SulogInv
      <3>2. shown[k] = RingAfter(copied.buf)[Slot(copied.index, k)]
        BY <2>2, <3>1 DEF Slot, NextSlot
      <3> QED
        BY <3>1, <3>2, RingTurned
    <2> QED
      BY <2>3, <2>4
  <1> QED
    BY <1>1, InitSulog, NextSulog, PTL DEF Spec

(***************************************************************************)
(* The strings of the umount list.                                         *)
(***************************************************************************)

\* Sequences are put behind each other one by one.
LEMMA Flattened ==
  ASSUME NEW S, NEW seqs \in Seq(Seq(S)), Len(seqs) > 0
  PROVE  \E flat \in [0 .. Len(seqs) -> Seq(S)] :
           /\ flat[0] = <<>> /\ flat[Len(seqs)] = FlattenSeq(seqs)
           /\ \A k \in 0 .. Len(seqs) - 1 : flat[k + 1] = flat[k] \o seqs[k + 1]
  <1> DEFINE N == Len(seqs)
             Q == Seq(S)
             step == [k \in 1 .. N |-> [v \in Q |-> v \o seqs[k]]]
             flatten == CHOOSE f : f = [k \in 1 .. N |-> IF k = 1 THEN seqs[k] ELSE f[k - 1] \o seqs[k]]
  <1>1. N \in Nat \ {0} /\ \A k \in 1 .. N : seqs[k] \in Q
    BY LenProperties, ElementOfSeq
  <1>2. FlattenSeq(seqs) = flatten[N]
    BY <1>1 DEF FlattenSeq
  <1>3. /\ <<>> \in Q
        /\ \A v \in Q, w \in Q : v \o w \in Q /\ <<>> \o v = v
    BY ConcatProperties, ConcatEmptySeq, EmptySeq
  <1> HIDE DEF N, Q
  <1>4. PICK g : IsRecursion(g, N, Q, <<>>, step)
    <2>1. step \in Steps(N, Q)
      BY <1>1, <1>3 DEF Steps
    <2> HIDE DEF step, flatten
    <2> QED
      BY <1>1, <1>3, <2>1, RecursionExists
  <1>5. g \in [0 .. N -> Q] /\ g[0] = <<>> /\ \A k \in 1 .. N : g[k - 1] \in Q /\ g[k] = g[k - 1] \o seqs[k]
    <2>1. g \in [0 .. N -> Q] /\ g[0] = <<>> /\ \A k \in 1 .. N : g[k] = step[k][g[k - 1]]
      BY <1>4 DEF IsRecursion
    <2>2. \A k \in 1 .. N : g[k - 1] \in Q
      BY <1>1, <2>1
    <2> QED
      BY <2>1, <2>2
  <1> HIDE DEF step
  <1> DEFINE f == [k \in 1 .. N |-> g[k]]
  <1>6. f = [k \in 1 .. N |-> IF k = 1 THEN seqs[k] ELSE f[k - 1] \o seqs[k]]
    <2>1. ASSUME NEW k \in 1 .. N PROVE g[k] = IF k = 1 THEN seqs[k] ELSE f[k - 1] \o seqs[k]
      <3>1. CASE k = 1
        <4>0. 1 \in 1 .. N /\ 1 - 1 = 0
          BY <1>1
        <4>1. g[1] = g[0] \o seqs[1]
          BY <1>5, <4>0
        <4> QED
          BY <1>1, <1>3, <1>5, <3>1, <4>1
      <3>2. CASE k # 1
        <4>1. k - 1 \in 1 .. N
          BY <1>1, <3>2
        <4> QED
          BY <1>5, <3>2, <4>1
      <3> QED
        BY <3>1, <3>2
    <2> QED
      BY <2>1
  <1>7. flatten = [k \in 1 .. N |-> IF k = 1 THEN seqs[k] ELSE flatten[k - 1] \o seqs[k]]
    <2> HIDE DEF f
    <2> QED
      BY <1>6
  <1> HIDE DEF flatten, f
  <1> DEFINE flat == [k \in 0 .. N |-> IF k = 0 THEN <<>> ELSE flatten[k]]
  <1>8. ASSUME NEW k \in 0 .. N - 1, flat[k] \in Q
        PROVE  flat[k + 1] = flat[k] \o seqs[k + 1]
    <2>1. k + 1 \in 1 .. N /\ k + 1 # 0 /\ (k + 1) - 1 = k /\ k + 1 \in 0 .. N
      BY <1>1
    <2>2. flatten[k + 1] = IF k + 1 = 1 THEN seqs[k + 1] ELSE flatten[k] \o seqs[k + 1]
      BY <1>7, <2>1
    <2>3. CASE k = 0
      <3>1. flat[k] = <<>> /\ flat[k + 1] = seqs[k + 1]
        BY <1>1, <2>1, <2>2, <2>3
      <3> QED
        BY <1>1, <1>3, <2>1, <3>1
    <2>4. CASE k # 0
      <3>1. flat[k] = flatten[k] /\ flat[k + 1] = flatten[k + 1]
        BY <1>1, <2>1, <2>4
      <3>2. k + 1 # 1
        BY <1>1, <2>4
      <3> QED
        BY <2>2, <3>1, <3>2
    <2> QED
      BY <2>3, <2>4
  <1> DEFINE right == {k \in 0 .. N : flat[k] \in Q}
  <1>9. 0 .. N \subseteq right
    <2>1. 0 \in right
      BY <1>1, <1>3
    <2>2. ASSUME NEW k \in 0 .. N - 1, k \in right PROVE k + 1 \in right
      <3>1. k + 1 \in 1 .. N /\ k + 1 \in 0 .. N
        BY <1>1
      <3>2. flat[k] \in Q
        BY <2>2
      <3>3. flat[k + 1] = flat[k] \o seqs[k + 1] /\ seqs[k + 1] \in Q
        BY <1>1, <1>8, <3>1, <3>2
      <3> HIDE DEF flat
      <3> QED
        BY <1>3, <3>1, <3>2, <3>3
    <2> HIDE DEF right
    <2> QED
      BY <1>1, <2>1, <2>2, InductionUpTo
  <1>10. flat \in [0 .. N -> Q] /\ flat[0] = <<>> /\ flat[N] = FlattenSeq(seqs)
    BY <1>1, <1>2, <1>9
  <1>11. \A k \in 0 .. N - 1 : flat[k + 1] = flat[k] \o seqs[k + 1]
    <2>1. \A k \in 0 .. N - 1 : flat[k] \in Q
      BY <1>1, <1>10
    <2> HIDE DEF flat
    <2> QED
      BY <1>8, <2>1
  <1> HIDE DEF flat
  <1> QED
    BY <1>10, <1>11 DEF N, Q

\* Where each of several sequences begins once they are put behind each other.
Layout(S, seqs, off) ==
    /\ FlattenSeq(seqs) \in Seq(S)
    /\ off \in [0 .. Len(seqs) -> Nat] /\ off[0] = 0 /\ off[Len(seqs)] = Len(FlattenSeq(seqs))
    /\ \A k \in 0 .. Len(seqs) - 1 :
         /\ off[k + 1] = off[k] + Len(seqs[k + 1])
         /\ off[k + 1] <= Len(FlattenSeq(seqs))
         /\ \A j \in 1 .. Len(seqs[k + 1]) : FlattenSeq(seqs)[off[k] + j] = seqs[k + 1][j]

\* A place within a part is a place within what reaches to its end.
LEMMA WithinPart ==
  \A a, b, c, l \in Nat : b = a + l /\ b <= c => \A j \in 1 .. l : a + j \in 1 .. c
  OBVIOUS

\* Every sequence is found where it begins.
LEMMA LaidOut ==
  ASSUME NEW S, NEW seqs \in Seq(Seq(S)), Len(seqs) > 0
  PROVE  \E off : Layout(S, seqs, off)
  <1> DEFINE N == Len(seqs)
  <1>1. N \in Nat \ {0} /\ \A k \in 0 .. N - 1 : seqs[k + 1] \in Seq(S)
    <2>1. \A k \in 1 .. N : seqs[k] \in Seq(S)
      BY ElementOfSeq
    <2>2. N \in Nat \ {0}
      BY LenProperties
    <2>3. \A k \in 0 .. N - 1 : k + 1 \in 1 .. N
      BY <2>2
    <2> QED
      BY <2>1, <2>2, <2>3
  <1>2. PICK flat \in [0 .. N -> Seq(S)] :
           /\ flat[0] = <<>> /\ flat[N] = FlattenSeq(seqs)
           /\ \A k \in 0 .. N - 1 : flat[k + 1] = flat[k] \o seqs[k + 1]
    BY Flattened
  <1> HIDE DEF N
  <1> DEFINE off == [k \in 0 .. N |-> Len(flat[k])]
  <1>3. off \in [0 .. N -> Nat] /\ off[0] = 0 /\ off[N] = Len(flat[N])
    <2>1. \A k \in 0 .. N : Len(flat[k]) \in Nat
      BY <1>2, LenProperties
    <2>2. Len(flat[0]) = 0
      BY <1>2
    <2> QED
      BY <1>1, <2>1, <2>2
  <1>4. ASSUME NEW k \in 0 .. N - 1
        PROVE  /\ k \in 0 .. N /\ k + 1 \in 0 .. N /\ Len(seqs[k + 1]) \in Nat
               /\ off[k + 1] = off[k] + Len(seqs[k + 1])
               /\ \A i \in 1 .. off[k] : flat[k + 1][i] = flat[k][i]
               /\ \A j \in 1 .. Len(seqs[k + 1]) : flat[k + 1][off[k] + j] = seqs[k + 1][j]
    <2>1. k \in 0 .. N /\ k + 1 \in 0 .. N /\ flat[k] \in Seq(S) /\ seqs[k + 1] \in Seq(S)
      BY <1>1, <1>2
    <2>2. off[k] = Len(flat[k]) /\ off[k + 1] = Len(flat[k + 1]) /\ flat[k + 1] = flat[k] \o seqs[k + 1]
      BY <1>2, <2>1
    <2> DEFINE s == flat[k]
               t == seqs[k + 1]
    <2>3. s \in Seq(S) /\ t \in Seq(S)
      BY <2>1
    <2> HIDE DEF s, t
    <2>4. /\ Len(s \o t) = Len(s) + Len(t) /\ Len(s) \in Nat /\ Len(t) \in Nat
          /\ \A i \in 1 .. Len(s) + Len(t) : (s \o t)[i] = IF i <= Len(s) THEN s[i] ELSE t[i - Len(s)]
      BY <2>3, ConcatProperties, LenProperties
    <2>5. /\ \A i \in 1 .. Len(s) : (s \o t)[i] = s[i]
          /\ \A j \in 1 .. Len(t) : (s \o t)[Len(s) + j] = t[j]
      <3>1. ASSUME NEW j \in 1 .. Len(t) PROVE (s \o t)[Len(s) + j] = t[j]
        <4>1. Len(s) + j \in 1 .. Len(s) + Len(t) /\ ~(Len(s) + j <= Len(s)) /\ (Len(s) + j) - Len(s) = j
          BY <2>4
        <4> QED
          BY <2>4, <4>1
      <3> QED
        BY <2>4, <3>1
    <2> QED
      BY <2>1, <2>2, <2>4, <2>5 DEF s, t
  <1> HIDE DEF off
  <1> DEFINE Found(m, k) == /\ off[m + 1] <= off[k]
                            /\ \A j \in 1 .. Len(seqs[m + 1]) : flat[k][off[m] + j] = seqs[m + 1][j]
             found == {k \in 0 .. N : \A m \in 0 .. k - 1 : Found(m, k)}
  <1>5. 0 \in found
    BY <1>1
  <1>6. ASSUME NEW k \in 0 .. N - 1, k \in found PROVE k + 1 \in found
    <2>1. ASSUME NEW m \in 0 .. (k + 1) - 1 PROVE Found(m, k + 1)
      <3>1. CASE m = k
        <4>1. off[k + 1] \in Nat /\ off[k + 1] <= off[k + 1]
          BY <1>3, <1>4
        <4>2. \A j \in 1 .. Len(seqs[k + 1]) : flat[k + 1][off[k] + j] = seqs[k + 1][j]
          BY <1>4
        <4>3. Found(k, k + 1)
          BY <4>1, <4>2
        <4> QED
          BY <3>1, <4>3
      <3>2. CASE m \in 0 .. k - 1
        <4>1. Found(m, k)
          BY <1>6, <3>2
        <4>2. m \in 0 .. N - 1
          BY <1>1
        <4>3. /\ off[k] \in Nat /\ off[k + 1] \in Nat /\ off[m] \in Nat /\ off[m + 1] \in Nat
              /\ Len(seqs[m + 1]) \in Nat /\ Len(seqs[k + 1]) \in Nat
              /\ off[m + 1] = off[m] + Len(seqs[m + 1]) /\ off[k + 1] = off[k] + Len(seqs[k + 1])
          BY <1>3, <1>4, <4>2
        <4>4. ASSUME NEW j \in 1 .. Len(seqs[m + 1]) PROVE flat[k + 1][off[m] + j] = seqs[m + 1][j]
          <5>a. off[m + 1] <= off[k]
            BY <4>1
          <5>1. off[m] + j \in 1 .. off[k]
            BY <4>3, <5>a, Zenon, WithinPart
          <5>2. flat[k + 1][off[m] + j] = flat[k][off[m] + j]
            BY <1>4, <5>1
          <5> QED
            BY <4>1, <5>2
        <4> QED
          BY <4>1, <4>3, <4>4
      <3> QED
        BY <1>1, <3>1, <3>2
    <2> HIDE DEF Found
    <2> QED
      BY <1>1, <2>1
  <1>7. \A m \in 0 .. N - 1 : Found(m, N)
    <2> HIDE DEF found
    <2>1. 0 .. N \subseteq found
      BY <1>1, <1>5, <1>6, InductionUpTo
    <2>2. N \in found
      BY <1>1, <2>1
    <2> USE DEF found
    <2> HIDE DEF Found
    <2> QED
      BY <2>2
  <1>8. FlattenSeq(seqs) = flat[N] /\ FlattenSeq(seqs) \in Seq(S)
    BY <1>1, <1>2
  <1>9. Layout(S, seqs, off)
    BY <1>3, <1>4, <1>7, <1>8 DEF Layout, N
  <1> QED
    BY <1>9

\* The letters of the strings, and what else may lie on the stack.
Byte == {Nul, Junk} \cup UNION {Range(s) : s \in Strings}

\* Where the strings of a list begin: each is followed by its terminator, so the
\* next begins one behind it, and the last ends where the list does.
Begins(entries, off) ==
    /\ Bytes(entries) \in Seq(Byte)
    /\ off \in [0 .. Len(entries) -> Nat]
    /\ off[0] = 0
    /\ off[Len(entries)] = Len(Bytes(entries))
    /\ \A k \in 0 .. Len(entries) - 1 :
         /\ off[k + 1] = off[k] + Len(entries[k + 1]) + 1
         /\ off[k + 1] <= Len(Bytes(entries))
         /\ \A j \in 1 .. Len(entries[k + 1]) : Bytes(entries)[off[k] + j] = entries[k + 1][j]
         /\ Bytes(entries)[off[k] + Len(entries[k + 1]) + 1] = Nul

\* A list of the kernel is a sequence of strings.
LEMMA ListTyped ==
  ASSUME NEW entries \in Lists
  PROVE  /\ entries \in Seq(Strings) /\ Len(entries) \in Nat
         /\ \A k \in 1 .. Len(entries) :
              /\ entries[k] \in Strings /\ entries[k] \in Seq(Byte) /\ Len(entries[k]) \in Nat \ {0}
              /\ \A j \in 1 .. Len(entries[k]) : entries[k][j] \in Byte /\ entries[k][j] # Nul
  <1>1. PICK n \in 0 .. MaxEntries : entries \in [1 .. n -> Strings]
    BY DEF Lists
  <1>2. n \in Nat
    BY <1>1, BoundsAssumption
  <1>3. entries \in Seq(Strings) /\ Len(entries) \in Nat
    BY <1>1, <1>2, SeqDef, LenProperties
  <1>4. ASSUME NEW k \in 1 .. Len(entries)
        PROVE  /\ entries[k] \in Strings /\ entries[k] \in Seq(Byte) /\ Len(entries[k]) \in Nat \ {0}
               /\ \A j \in 1 .. Len(entries[k]) : entries[k][j] \in Byte /\ entries[k][j] # Nul
    <2>1. entries[k] \in Strings
      BY <1>3, ElementOfSeq
    <2> DEFINE s == entries[k]
    <2>2. s \in Seq(Range(s)) /\ Len(s) > 0 /\ Nul \notin Range(s) /\ Range(s) \subseteq Byte
      BY <2>1, StringsAssumption DEF Byte
    <2> HIDE DEF s
    <2>3. s \in Seq(Byte) /\ Len(s) \in Nat \ {0}
      BY <2>2, SeqMonotonic, LenProperties
    <2>4. \A j \in 1 .. Len(s) : s[j] \in Range(s)
      BY <2>2, ElementOfSeq
    <2> QED
      BY <2>1, <2>2, <2>3, <2>4 DEF s
  <1> QED
    BY <1>3, <1>4

\* The kernel's bytes hold the strings of its list one after the other.
LEMMA BytesLaidOut ==
  ASSUME NEW entries \in Lists, entries # <<>>
  PROVE  \E off : Begins(entries, off)
  <1> DEFINE N == Len(entries)
             seqs == [i \in 1 .. N |-> Append(entries[i], Nul)]
  <1>1. /\ N \in Nat /\ N > 0
        /\ \A k \in 1 .. N :
             /\ entries[k] \in Seq(Byte) /\ Len(entries[k]) \in Nat \ {0}
    BY ListTyped, EmptySeq
  <1>2. ASSUME NEW k \in 1 .. N
        PROVE  /\ seqs[k] \in Seq(Byte) /\ Len(seqs[k]) = Len(entries[k]) + 1
               /\ \A j \in 1 .. Len(entries[k]) : seqs[k][j] = entries[k][j]
               /\ seqs[k][Len(entries[k]) + 1] = Nul
    <2> DEFINE s == entries[k]
    <2>1. s \in Seq(Byte) /\ Nul \in Byte /\ seqs[k] = Append(s, Nul)
      BY <1>1 DEF Byte
    <2> HIDE DEF s, seqs
    <2> QED
      BY <2>1, AppendProperties DEF s
  <1>3. seqs \in Seq(Seq(Byte)) /\ Len(seqs) = N
    <2>1. seqs \in [1 .. N -> Seq(Byte)]
      BY <1>2
    <2> HIDE DEF seqs
    <2> QED
      BY <1>1, <2>1, SeqDef, LenProperties
  <1>4. Bytes(entries) = FlattenSeq(seqs)
    BY DEF Bytes
  <1> HIDE DEF seqs
  <1>5. PICK off : Layout(Byte, seqs, off)
    BY <1>1, <1>3, LaidOut
  <1>6. /\ Bytes(entries) \in Seq(Byte)
        /\ off \in [0 .. N -> Nat] /\ off[0] = 0 /\ off[N] = Len(Bytes(entries))
    BY <1>3, <1>4, <1>5 DEF Layout
  <1>7. ASSUME NEW k \in 0 .. N - 1
        PROVE  /\ off[k + 1] = off[k] + Len(entries[k + 1]) + 1
               /\ off[k + 1] <= Len(Bytes(entries))
               /\ \A j \in 1 .. Len(entries[k + 1]) : Bytes(entries)[off[k] + j] = entries[k + 1][j]
               /\ Bytes(entries)[off[k] + Len(entries[k + 1]) + 1] = Nul
    <2> DEFINE l == Len(entries[k + 1])
    <2>1. k + 1 \in 1 .. N /\ k \in 0 .. N /\ l \in Nat
      BY <1>1
    <2>2. /\ off[k + 1] = off[k] + Len(seqs[k + 1])
          /\ off[k + 1] <= Len(FlattenSeq(seqs))
          /\ \A j \in 1 .. Len(seqs[k + 1]) : FlattenSeq(seqs)[off[k] + j] = seqs[k + 1][j]
      BY <1>3, <1>5 DEF Layout
    <2>3. /\ Len(seqs[k + 1]) = l + 1
          /\ \A j \in 1 .. l : seqs[k + 1][j] = entries[k + 1][j]
          /\ seqs[k + 1][l + 1] = Nul
      BY <1>2, <2>1
    <2>4. off[k] \in Nat
      BY <1>6, <2>1
    <2> HIDE DEF l
    <2>5. l + 1 \in 1 .. l + 1 /\ off[k] + (l + 1) = off[k] + l + 1 /\ \A j \in 1 .. l : j \in 1 .. l + 1
      BY <2>1, <2>4
    <2> QED
      BY <1>4, <2>2, <2>3, <2>5 DEF l
  <1> QED
    BY <1>6, <1>7 DEF Begins

\* The buffer holds the list as GETLIST wrote it.
Holds(memory, entries) ==
    /\ Len(Bytes(entries)) <= StackBytes
    /\ \A i \in 1 .. Len(Bytes(entries)) : memory[i] = Bytes(entries)[i]

\* strlen at the beginning of a string of the list finds its terminator, and the
\* walk goes on to the next string, which is not empty.
LEMMA StringFound ==
  ASSUME NEW entries \in Lists, NEW off, Begins(entries, off),
         mem \in [1 .. StackBytes -> Byte], Holds(mem, entries),
         NEW k \in 0 .. Len(entries) - 1
  PROVE  /\ StrAt(off[k]) = entries[k + 1]
         /\ NextString(off[k]) = off[k + 1]
         /\ k + 1 < Len(entries) => ~AtEnd(off[k + 1])
  <1> DEFINE N == Len(entries)
             B == Len(Bytes(entries))
             at == off[k]
             s == entries[k + 1]
             l == Len(s)
  <1>1. /\ N \in Nat /\ StackBytes \in Nat /\ k + 1 \in 1 .. N /\ k \in 0 .. N /\ k + 1 \in 0 .. N
        /\ s \in Seq(Byte) /\ l \in Nat \ {0} /\ \A j \in 1 .. l : s[j] # Nul
    BY ListTyped, BoundsAssumption
  <1>2. /\ at \in Nat /\ off[k + 1] \in Nat /\ off[k + 1] = at + l + 1 /\ off[k + 1] <= B
        /\ \A j \in 1 .. l : Bytes(entries)[at + j] = s[j]
        /\ Bytes(entries)[at + l + 1] = Nul
    BY <1>1 DEF Begins
  <1>3. B \in Nat /\ B <= StackBytes /\ \A i \in 1 .. B : mem[i] = Bytes(entries)[i]
    BY LenProperties DEF Begins, Holds
  <1> HIDE DEF N, B, at, s, l
  <1>4. /\ \A j \in 1 .. l : mem[at + j] = s[j]
        /\ mem[at + l + 1] = Nul
    <2>1. at + l + 1 \in 1 .. B /\ \A j \in 1 .. l : at + j \in 1 .. B
      BY <1>1, <1>2, <1>3
    <2> QED
      BY <1>2, <1>3, <2>1
  <1>5. StrLen(at) = l
    <2> DEFINE ends == {n \in 0 .. StackBytes - at - 1 : mem[at + n + 1] = Nul}
    <2>1. l \in ends
      BY <1>1, <1>2, <1>3, <1>4
    <2>2. ASSUME NEW n \in ends PROVE l <= n
      <3> SUFFICES ASSUME n < l PROVE FALSE
        BY <1>1, <2>2
      <3>1. n + 1 \in 1 .. l /\ at + (n + 1) = at + n + 1
        BY <1>1, <1>2
      <3>2. mem[at + n + 1] = s[n + 1] /\ s[n + 1] # Nul
        BY <1>1, <1>4, <3>1
      <3> QED
        BY <3>2
    <2>3. ends \subseteq Nat
      BY <1>1, <1>2
    <2>4. StrLen(at) = Min(ends)
      BY DEF StrLen
    <2> HIDE DEF ends
    <2> DEFINE least == Min(ends)
    <2>5. least \in ends /\ \A n \in ends : least <= n
      BY <2>1, <2>2 DEF Min
    <2> HIDE DEF least
    <2>6. least \in Nat /\ least <= l /\ l <= least
      BY <2>1, <2>2, <2>3, <2>5
    <2>7. least = l
      BY <1>1, <2>6
    <2> QED
      BY <2>4, <2>7 DEF least
  <1>6. StrAt(at) = s
    <2>1. mem \in Seq(Byte) /\ Len(mem) = StackBytes
      BY <1>1, SeqDef, LenProperties
    <2>2. at + 1 \in 1 .. StackBytes + 1 /\ at + l \in (at + 1) - 1 .. StackBytes
      BY <1>1, <1>2, <1>3
    <2> DEFINE found == SubSeq(mem, at + 1, at + l)
    <2>3. /\ found \in Seq(Byte)
          /\ Len(found) = (at + l) - (at + 1) + 1
          /\ \A i \in 1 .. (at + l) - (at + 1) + 1 : found[i] = mem[(at + 1) + i - 1]
      BY <2>1, <2>2, SubSeqProperties
    <2> HIDE DEF found
    <2>4. (at + l) - (at + 1) + 1 = l /\ \A i \in 1 .. l : (at + 1) + i - 1 = at + i
      BY <1>1, <1>2
    <2>5. found = s
      <3>1. found \in Seq(Byte) /\ s \in Seq(Byte) /\ Len(found) = Len(s)
        BY <1>1, <2>3, <2>4 DEF l
      <3>2. \A i \in 1 .. l : found[i] = mem[at + i]
        BY <2>3, <2>4
      <3>3. \A i \in 1 .. Len(found) : found[i] = s[i]
        BY <1>4, <3>1, <3>2 DEF l
      <3> QED
        BY <3>1, <3>3, SeqEqual
    <2> QED
      BY <1>5, <2>5 DEF StrAt, found
  <1>7. NextString(at) = off[k + 1]
    BY <1>1, <1>2, <1>5 DEF NextString
  <1>8. ASSUME k + 1 < N PROVE ~AtEnd(off[k + 1])
    <2> DEFINE t == entries[(k + 1) + 1]
    <2>1. k + 1 \in 0 .. N - 1 /\ (k + 1) + 1 \in 1 .. N /\ (k + 1) + 1 \in 0 .. N
      BY <1>1, <1>8
    <2>2. Len(t) \in Nat \ {0} /\ t[1] # Nul
      <3>1. Len(t) \in Nat \ {0} /\ \A j \in 1 .. Len(t) : t[j] # Nul
        BY <2>1, ListTyped DEF N
      <3>2. 1 \in 1 .. Len(t)
        BY <3>1
      <3> QED
        BY <3>1, <3>2
    <2>3. /\ off[(k + 1) + 1] = off[k + 1] + Len(t) + 1 /\ off[(k + 1) + 1] <= B
          /\ \A j \in 1 .. Len(t) : Bytes(entries)[off[k + 1] + j] = t[j]
      BY <2>1 DEF Begins, N, B
    <2> HIDE DEF t
    <2>4. 1 \in 1 .. Len(t) /\ off[k + 1] + 1 \in 1 .. B /\ off[k + 1] < StackBytes
      BY <1>1, <1>2, <1>3, <2>2, <2>3
    <2>5. mem[off[k + 1] + 1] # Nul
      BY <1>3, <2>2, <2>3, <2>4
    <2> QED
      BY <1>1, <1>2, <2>4, <2>5 DEF AtEnd
  <1> QED
    BY <1>6, <1>7, <1>8 DEF at, s, N

\* The bytes of every list of the kernel fit in the memory modelled.
LEMMA BytesTyped ==
  ASSUME NEW entries \in Lists
  PROVE  /\ Bytes(entries) \in Seq(Byte) /\ Len(Bytes(entries)) \in Nat
         /\ Len(Bytes(entries)) <= StackBytes
         /\ \A i \in 1 .. Len(Bytes(entries)) : Bytes(entries)[i] \in Byte
  <1>1. Bytes(entries) \in Seq(Byte)
    <2>1. CASE entries = <<>>
      <3> DEFINE seqs == [i \in 1 .. Len(entries) |-> Append(entries[i], Nul)]
      <3>1. Len(entries) = 0 /\ seqs = <<>>
        BY <2>1
      <3>2. Bytes(entries) = FlattenSeq(<<>>)
        BY <3>1 DEF Bytes
      <3>3. FlattenSeq(<<>>) = <<>>
        BY DEF FlattenSeq
      <3> QED
        BY <3>2, <3>3, EmptySeq
    <2>2. CASE entries # <<>>
      BY <2>2, BytesLaidOut DEF Begins
    <2> QED
      BY <2>1, <2>2
  <1> QED
    BY <1>1, MemoryAssumption, LenProperties, ElementOfSeq

\* Of nothing there are no bytes; a list has at least a letter and a terminator.
LEMMA BytesAtLeast ==
  /\ Len(Bytes(<<>>)) = 0
  /\ \A entries \in Lists : Len(Bytes(entries)) # 0 => entries # <<>> /\ 2 <= Len(Bytes(entries))
  <1>1. Len(Bytes(<<>>)) = 0
    <2> DEFINE seqs == [i \in 1 .. Len(<<>>) |-> Append(<<>>[i], Nul)]
    <2>1. seqs = <<>>
      OBVIOUS
    <2>2. Bytes(<<>>) = FlattenSeq(<<>>)
      BY <2>1 DEF Bytes
    <2>3. FlattenSeq(<<>>) = <<>>
      BY DEF FlattenSeq
    <2> QED
      BY <2>2, <2>3
  <1>2. ASSUME NEW entries \in Lists, Len(Bytes(entries)) # 0
        PROVE  entries # <<>> /\ 2 <= Len(Bytes(entries))
    <2>1. entries # <<>>
      BY <1>1, <1>2
    <2>2. PICK off : Begins(entries, off)
      BY <2>1, BytesLaidOut
    <2> DEFINE l == Len(entries[1])
               B == Len(Bytes(entries))
    <2>3. l \in Nat \ {0} /\ 0 \in 0 .. Len(entries) - 1
      <3>1. Len(entries) \in Nat \ {0}
        BY <2>1, ListTyped, EmptySeq
      <3>2. 1 \in 1 .. Len(entries) /\ 0 \in 0 .. Len(entries) - 1
        BY <3>1
      <3> QED
        BY <3>2, ListTyped
    <2>4. off[0 + 1] = off[0] + Len(entries[0 + 1]) + 1 /\ off[0 + 1] <= B /\ off[0] = 0
      BY <2>2, <2>3 DEF Begins
    <2>5. B \in Nat
      BY BytesTyped
    <2> HIDE DEF B
    <2>6. 0 + l + 1 <= B
      BY <2>4
    <2> HIDE DEF l
    <2>7. 2 <= B
      BY <2>3, <2>5, <2>6
    <2> QED
      BY <2>1, <2>7 DEF B
  <1> QED
    BY <1>1, <1>2

\* The lines begin with the list.
BeginsWith(lines, entries) ==
    /\ \E S : lines \in Seq(S) /\ entries \in Seq(S)
    /\ Len(entries) <= Len(lines)
    /\ \A k \in 1 .. Len(entries) : lines[k] = entries[k]

\* One more line changes nothing about how the lines begin.
LEMMA BeginsWithMore ==
  ASSUME NEW lines, NEW entries, NEW line, BeginsWith(lines, entries)
  PROVE  BeginsWith(Append(lines, line), entries)
  <1>1. PICK S : lines \in Seq(S) /\ entries \in Seq(S)
    BY DEF BeginsWith
  <1> DEFINE more == S \cup {line}
  <1>2. lines \in Seq(more) /\ entries \in Seq(more) /\ line \in more
    BY <1>1, SeqMonotonic
  <1> HIDE DEF more
  <1>3. /\ Append(lines, line) \in Seq(more) /\ Len(Append(lines, line)) = Len(lines) + 1
        /\ \A k \in 1 .. Len(lines) : Append(lines, line)[k] = lines[k]
        /\ Len(lines) \in Nat /\ Len(entries) \in Nat
    BY <1>2, AppendProperties, LenProperties
  <1>4. Len(entries) <= Len(lines) /\ \A k \in 1 .. Len(entries) : lines[k] = entries[k]
    BY DEF BeginsWith
  <1>5. \A k \in 1 .. Len(entries) : k \in 1 .. Len(lines)
    BY <1>3, <1>4
  <1> QED
    BY <1>2, <1>3, <1>4, <1>5 DEF BeginsWith

\* In the words of the property.
LEMMA BeginsWithIsPrefix ==
  ASSUME NEW lines, NEW entries, BeginsWith(lines, entries)
  PROVE  IsPrefix(entries, lines)
  <1>1. PICK S : lines \in Seq(S) /\ entries \in Seq(S)
    BY DEF BeginsWith
  <1> DEFINE n == Len(entries)
  <1>2. n \in Nat /\ Len(lines) \in Nat /\ n <= Len(lines) /\ \A k \in 1 .. n : lines[k] = entries[k]
    BY <1>1, LenProperties DEF BeginsWith
  <1> HIDE DEF n
  <1>3. /\ \A k \in 1 .. n : k \in 1 .. Len(lines)
        /\ \A k \in 1 .. n : entries[k] \in S
        /\ n - 1 + 1 = n /\ \A k \in 1 .. n : 1 + k - 1 = k
    BY <1>1, <1>2, ElementOfSeq DEF n
  <1>4. \A k \in 1 .. n : lines[k] \in S
    BY <1>2, <1>3
  <1> DEFINE x == SubSeq(entries, 1, n)
             y == SubSeq(lines, 1, n)
  <1>5. /\ x \in Seq(S) /\ Len(x) = IF 1 <= n THEN n - 1 + 1 ELSE 0
        /\ \A i \in 1 .. n - 1 + 1 : x[i] = entries[1 + i - 1]
    BY <1>2, <1>3, SubSeqProperties
  <1>6. /\ y \in Seq(S) /\ Len(y) = IF 1 <= n THEN n - 1 + 1 ELSE 0
        /\ \A i \in 1 .. n - 1 + 1 : y[i] = lines[1 + i - 1]
    BY <1>2, <1>4, SubSeqProperties
  <1> HIDE DEF x, y
  <1>7. Len(x) = n /\ Len(y) = n /\ \A i \in 1 .. n : x[i] = y[i]
    BY <1>2, <1>3, <1>5, <1>6
  <1>8. x = y
    BY <1>5, <1>6, <1>7, SeqEqual
  <1> QED
    BY <1>2, <1>8 DEF IsPrefix, x, y, n

\* The first n strings of the list have been printed, and no more.
Printed(n) == out \in Seq(Strings) /\ Len(out) = n /\ \A k \in 1 .. n : out[k] = got[k]

\* The walk is at the beginning of a string of the list with those before it
\* printed; or it has left a list that fills the buffer.
InTheList ==
    \/ \E off, m : /\ Begins(got, off) /\ m \in 0 .. Len(got) - 1
                   /\ Printed(m) /\ char_buf = off[m]
    \/ Len(Bytes(got)) = total_size /\ BeginsWith(out, got)

\* Of an emptied list the walk finds two zeros, and has printed nothing before.
EmptyInv ==
    pc = "walk" /\ got = <<>> =>
        /\ char_buf = 0 /\ out = <<>>
        /\ mem[1] = Nul /\ mem[2] = Nul

\* What the walk finds as long as the list fits the buffer.
WalkInv ==
    pc = "walk" /\ got # <<>> /\ Len(Bytes(got)) <= total_size =>
        /\ Holds(mem, got)
        /\ Len(Bytes(got)) < total_size => mem[Len(Bytes(got)) + 1] = Nul
        /\ InTheList

UmountInv ==
    /\ list \in Lists /\ got \in Lists
    /\ total_size \in 0 .. StackBytes
    /\ mem \in [1 .. StackBytes -> Byte]
    /\ pc \in {"open", "alloca", "get_list"} => out = <<>> /\ char_buf = 0
    /\ pc # "exit" => exit = "none"
    /\ pc = "get_list" => \A i \in 1 .. total_size : mem[i] = Nul
    /\ pc \in {"alloca", "get_list", "walk"} => 2 <= total_size
    /\ EmptyInv
    /\ WalkInv
    /\ PrintsTheList

\* The stack holds zeros or junk, and nothing has been asked for.
LEMMA InitUmount == Init => UmountInv
  <1> SUFFICES ASSUME UmountInit PROVE UmountInv
    BY DEF Init
  <1>1. <<>> \in Lists
    <2>1. 0 \in 0 .. MaxEntries /\ <<>> \in [1 .. 0 -> Strings]
      BY BoundsAssumption
    <2> QED
      BY <2>1 DEF Lists
  <1>2. mem \in [1 .. StackBytes -> Byte]
    BY DEF UmountInit, Byte
  <1>3. total_size \in 0 .. StackBytes
    BY BoundsAssumption DEF UmountInit
  <1> QED
    BY <1>1, <1>2, <1>3 DEF UmountInit, UmountInv, EmptyInv, WalkInv, PrintsTheList

\* The steps that print nothing and write no memory.
LEMMA QuietSteps ==
  ASSUME UmountInv, ListChanges \/ GetSizeFails \/ GetSize \/ GetListFails \/ Smashed
  PROVE  UmountInv'
  <1>1. list' \in Lists /\ total_size' \in 0 .. StackBytes
    <2>1. total_size' = total_size \/ total_size' = Len(Bytes(list))
      BY DEF ListChanges, GetSizeFails, GetSize, GetListFails, Smashed
    <2>2. list' \in Lists /\ total_size \in 0 .. StackBytes /\ list \in Lists
      BY DEF UmountInv, ListChanges, GetSizeFails, GetSize, GetListFails, Smashed
    <2> QED
      BY <2>1, <2>2, BytesTyped
  <1>2. got' = got /\ mem' = mem /\ out' = out /\ char_buf' = char_buf
    BY DEF ListChanges, GetSizeFails, GetSize, GetListFails, Smashed
  <1>3. CASE ListChanges
    <2>1. pc' = pc /\ exit' = exit /\ total_size' = total_size
      BY <1>3 DEF ListChanges
    <2> QED
      BY <1>1, <1>2, <2>1 DEF UmountInv, EmptyInv, WalkInv, InTheList, Printed, PrintsTheList
  <1>4. CASE GetSizeFails \/ GetSize \/ GetListFails \/ Smashed
    <2>1. /\ pc' \in {"alloca", "exit"}
          /\ pc' = "alloca" => exit' = exit /\ pc = "open"
          /\ exit' # "0"
      BY <1>4 DEF GetSizeFails, GetSize, GetListFails, Smashed, Exit, UmountInv
    <2>2. pc' = "alloca" => 2 <= total_size'
      <3>1. pc' = "alloca" => total_size' = Len(Bytes(list)) /\ Len(Bytes(list)) # 0
        BY <1>4 DEF GetSizeFails, GetSize, GetListFails, Smashed, Exit
      <3> QED
        BY <3>1, BytesAtLeast DEF UmountInv
    <2> QED
      BY <1>1, <1>2, <2>1, <2>2 DEF UmountInv, EmptyInv, WalkInv, PrintsTheList
  <1> QED
    BY <1>3, <1>4

\* The buffer is cleared.
LEMMA AllocaStep == UmountInv /\ Alloca => UmountInv'
  <1> SUFFICES ASSUME UmountInv, Alloca PROVE UmountInv'
    OBVIOUS
  <1>1. mem' \in [1 .. StackBytes -> Byte] /\ \A i \in 1 .. total_size : mem'[i] = Nul
    <2>1. /\ mem \in [1 .. StackBytes -> Byte] /\ total_size \in 0 .. StackBytes
          /\ StackBytes \in Nat /\ Nul \in Byte
      BY BoundsAssumption DEF UmountInv, Byte
    <2>2. mem' = [i \in 1 .. StackBytes |-> IF i <= total_size THEN Nul ELSE mem[i]]
      BY <2>1 DEF Alloca, Cleared
    <2> QED
      BY <2>1, <2>2
  <1> QED
    BY <1>1 DEF Alloca, UmountInv, EmptyInv, WalkInv, PrintsTheList

\* The kernel writes its list over the cleared buffer.
LEMMA GetListStep == UmountInv /\ GetList => UmountInv'
  <1> SUFFICES ASSUME UmountInv, GetList PROVE UmountInv'
    OBVIOUS
  <1> DEFINE bytes == Bytes(list)
             B == Len(bytes)
  <1>1. /\ got' = list /\ list' = list /\ list \in Lists /\ total_size' = total_size
        /\ pc' = "walk" /\ exit' = exit /\ exit = "none" /\ out' = <<>> /\ char_buf' = 0
        /\ total_size \in 2 .. StackBytes /\ StackBytes \in Nat
    BY BoundsAssumption DEF GetList, UmountInv
  <1>2. mem' = [i \in 1 .. StackBytes |-> IF i <= B THEN bytes[i] ELSE mem[i]]
    BY DEF GetList, UmountInv
  <1>3. B \in Nat /\ B <= StackBytes /\ \A i \in 1 .. B : bytes[i] \in Byte
    BY <1>1, BytesTyped
  <1>4. Len(Bytes(got')) = B /\ \A i \in 1 .. B : Bytes(got')[i] = bytes[i]
    BY <1>1
  <1> HIDE DEF bytes, B
  <1>5. mem' \in [1 .. StackBytes -> Byte] /\ \A i \in 1 .. B : mem'[i] = bytes[i]
    <2>1. \A i \in 1 .. StackBytes : mem[i] \in Byte
      BY DEF UmountInv
    <2>2. \A i \in 1 .. StackBytes : i <= B => i \in 1 .. B
      BY <1>1, <1>3
    <2>3. \A i \in 1 .. B : i \in 1 .. StackBytes /\ i <= B
      BY <1>1, <1>3
    <2> QED
      BY <1>2, <1>3, <2>1, <2>2, <2>3
  <1>6. Holds(mem', got')
    BY <1>3, <1>4, <1>5 DEF Holds
  <1>7. ASSUME B < total_size PROVE mem'[B + 1] = Nul
    <2>1. B + 1 \in 1 .. total_size /\ B + 1 \in 1 .. StackBytes /\ ~(B + 1 <= B)
      BY <1>1, <1>3, <1>7
    <2> QED
      BY <1>2, <2>1 DEF UmountInv, GetList
  <1>8. ASSUME got' # <<>> PROVE InTheList'
    <2>1. PICK off : Begins(got', off)
      BY <1>1, <1>8, BytesLaidOut
    <2>2. 0 \in 0 .. Len(got') - 1
      <3>1. got' \in Seq(Strings) /\ Len(got') \in Nat
        BY <1>1, ListTyped
      <3> QED
        BY <1>8, <3>1, EmptySeq
    <2>3. Printed(0)' /\ char_buf' = off[0]
      <3>1. <<>> \in Seq(Strings) /\ Len(<<>>) = 0 /\ off[0] = 0
        BY <2>1, EmptySeq DEF Begins
      <3> QED
        BY <1>1, <3>1 DEF Printed
    <2> QED
      BY <2>1, <2>2, <2>3 DEF InTheList
  <1>9. WalkInv'
    BY <1>1, <1>4, <1>6, <1>7, <1>8 DEF WalkInv
  <1>10. EmptyInv'
    <2> SUFFICES ASSUME got' = <<>> PROVE mem'[1] = Nul /\ mem'[2] = Nul
      BY <1>1 DEF EmptyInv
    <2>1. B = 0
      BY <1>4, BytesAtLeast
    <2>2. \A i \in {1, 2} : i \in 1 .. total_size /\ i \in 1 .. StackBytes /\ ~(i <= B)
      BY <1>1, <2>1
    <2>3. \A i \in 1 .. total_size : mem[i] = Nul
      BY DEF UmountInv, GetList
    <2> QED
      BY <1>2, <2>2, <2>3
  <1> QED
    BY <1>1, <1>5, <1>9, <1>10 DEF UmountInv, PrintsTheList

\* What a turn of the walk leaves alone.
LEMMA WalkFrame ==
  ASSUME UmountInv, Walk
  PROVE  /\ got' = got /\ mem' = mem /\ list' = list /\ total_size' = total_size
         /\ pc = "walk" /\ exit = "none"
         /\ out' = Append(out, StrAt(char_buf)) /\ char_buf' = NextString(char_buf)
         /\ AtEnd(char_buf') => pc' = "exit" /\ exit' = "0"
         /\ ~AtEnd(char_buf') => pc' = "walk" /\ exit' = "none"
         /\ got \in Lists /\ total_size \in 0 .. StackBytes /\ StackBytes \in Nat
  BY BoundsAssumption DEF UmountInv, Walk, Exit

\* A turn in the list prints its next string.  Behind the last the walk stops if
\* the buffer goes on, for the next byte is cleared; else it may run on.
LEMMA WalkInTheList ==
  ASSUME UmountInv, Walk, got # <<>>, Len(Bytes(got)) <= total_size,
         NEW off, Begins(got, off), NEW m \in 0 .. Len(got) - 1, Printed(m), char_buf = off[m]
  PROVE  /\ pc' = "walk" => InTheList'
         /\ exit' = "0" => BeginsWith(out', got) /\ (Len(Bytes(got)) < total_size => out' = got)
  <1> DEFINE N == Len(got)
             B == Len(Bytes(got))
  <1>1. /\ got \in Seq(Strings) /\ N \in Nat /\ m \in Nat /\ m + 1 \in 1 .. N
        /\ m + 1 < N \/ m + 1 = N
        /\ B \in Nat /\ got[m + 1] \in Strings
    BY WalkFrame, ListTyped, BytesTyped
  <1>2. Holds(mem, got) /\ mem \in [1 .. StackBytes -> Byte]
        /\ (B < total_size => mem[B + 1] = Nul)
    BY WalkFrame DEF UmountInv, WalkInv
  <1>3. /\ out' = Append(out, got[m + 1]) /\ char_buf' = off[m + 1]
        /\ m + 1 < N => ~AtEnd(off[m + 1])
    BY <1>2, WalkFrame, StringFound
  <1> HIDE DEF N, B
  <1>4. Printed(m + 1)'
    <2>1. out \in Seq(Strings) /\ Len(out) = m /\ \A k \in 1 .. m : out[k] = got[k]
      BY DEF Printed
    <2>2. /\ out' \in Seq(Strings) /\ Len(out') = m + 1
          /\ \A k \in 1 .. m : out'[k] = out[k]
          /\ out'[m + 1] = got[m + 1]
      <3>1. got[m + 1] \in Strings /\ out \in Seq(Strings)
        BY <1>1, <2>1
      <3> DEFINE next == got[m + 1]
      <3>2. out' = Append(out, next) /\ next \in Strings
        BY <1>3, <3>1
      <3> HIDE DEF next
      <3>3. /\ out' \in Seq(Strings) /\ Len(out') = Len(out) + 1
            /\ \A k \in 1 .. Len(out) : out'[k] = out[k]
            /\ out'[Len(out) + 1] = next
        BY <3>1, <3>2, AppendProperties
      <3> QED
        BY <2>1, <3>3 DEF next
    <2>3. ASSUME NEW k \in 1 .. m + 1 PROVE out'[k] = got[k]
      <3>1. k \in 1 .. m \/ k = m + 1
        BY <1>1
      <3> QED
        BY <2>1, <2>2, <3>1
    <2> QED
      BY <2>2, <2>3, WalkFrame DEF Printed
  <1>5. CASE m + 1 < N
    <2>1. ~AtEnd(char_buf')
      BY <1>3, <1>5
    <2>2. pc' = "walk" /\ exit' = "none"
      BY <2>1, WalkFrame
    <2>3. m + 1 \in 0 .. Len(got') - 1 /\ Begins(got', off) /\ char_buf' = off[m + 1]
      BY <1>1, <1>3, <1>5, WalkFrame DEF N
    <2>4. InTheList'
      BY <1>4, <2>3 DEF InTheList
    <2> QED
      BY <2>2, <2>4
  <1>6. CASE m + 1 = N
    <2>1. out' \in Seq(Strings) /\ Len(out') = N /\ \A k \in 1 .. N : out'[k] = got[k]
      BY <1>4, <1>6, WalkFrame DEF Printed
    <2>2. out' = got
      BY <1>1, <2>1, SeqEqual DEF N
    <2>3. BeginsWith(out', got)
      BY <1>1, <2>1 DEF BeginsWith, N
    <2>4. char_buf' = B
      BY <1>3, <1>6 DEF Begins, N, B
    <2>5. CASE B < total_size
      <3>1. AtEnd(char_buf')
        BY <1>2, <2>4, <2>5, WalkFrame DEF AtEnd
      <3> QED
        BY <2>2, <2>3, <3>1, WalkFrame
    <2>6. CASE B = total_size
      <3>1. InTheList'
        BY <2>3, <2>6, WalkFrame DEF InTheList, B
      <3> QED
        BY <2>3, <2>6, <3>1, WalkFrame DEF B
    <2> QED
      BY <1>1, <2>5, <2>6, WalkFrame DEF B
  <1> QED
    BY <1>1, <1>5, <1>6

\* In a buffer left empty the walk prints one empty line and stops.
LEMMA WalkEmpty ==
  ASSUME UmountInv, Walk, got = <<>>
  PROVE  AtEnd(char_buf') /\ out' = << <<>> >>
  <1>1. /\ char_buf = 0 /\ out = <<>> /\ mem[1] = Nul /\ mem[2] = Nul
        /\ StackBytes \in Nat /\ 2 <= StackBytes /\ mem \in [1 .. StackBytes -> Byte]
    BY WalkFrame DEF UmountInv, EmptyInv
  <1>2. StrLen(0) = 0
    <2> DEFINE ends == {n \in 0 .. StackBytes - 0 - 1 : mem[0 + n + 1] = Nul}
    <2>1. 0 \in ends /\ \A n \in ends : n \in Nat /\ 0 <= n
      BY <1>1
    <2>2. StrLen(0) = Min(ends)
      BY DEF StrLen
    <2> HIDE DEF ends
    <2> DEFINE least == Min(ends)
    <2>3. least \in ends /\ \A n \in ends : least <= n
      BY <2>1 DEF Min
    <2> HIDE DEF least
    <2>4. least = 0
      BY <2>1, <2>3
    <2> QED
      BY <2>2, <2>4 DEF least
  <1>3. StrAt(0) = <<>>
    <2>1. mem \in Seq(Byte) /\ Len(mem) = StackBytes
      BY <1>1, SeqDef, LenProperties
    <2> DEFINE found == SubSeq(mem, 1, 0)
    <2>2. found \in Seq(Byte) /\ Len(found) = 0
      <3>1. 1 \in 1 .. Len(mem) + 1 /\ 0 \in 1 - 1 .. Len(mem) /\ 0 - 1 + 1 = 0
        BY <1>1, <2>1
      <3> QED
        BY <2>1, <3>1, SubSeqProperties
    <2> HIDE DEF found
    <2>3. found = <<>>
      BY <2>2, EmptySeq
    <2> QED
      BY <1>2, <2>3 DEF StrAt, found
  <1>4. NextString(0) = 1
    BY <1>2 DEF NextString
  <1>5. AtEnd(1)
    BY <1>1 DEF AtEnd
  <1>6. out' = Append(<<>>, <<>>) /\ char_buf' = 1
    BY <1>1, <1>3, <1>4, WalkFrame
  <1> QED
    BY <1>5, <1>6

\* One turn of the walk, wherever it is.
LEMMA WalkStep == UmountInv /\ Walk => UmountInv'
  <1> SUFFICES ASSUME UmountInv, Walk PROVE UmountInv'
    OBVIOUS
  <1>0. CASE got = <<>>
    <2>1. AtEnd(char_buf') /\ out' = << <<>> >>
      BY <1>0, WalkEmpty
    <2>2. pc' = "exit" /\ exit' = "0" /\ got' = <<>>
      BY <1>0, <2>1, WalkFrame
    <2>3. BeginsWith(out', <<>>)
      <3> DEFINE S == {<<>>}
      <3>1. <<>> \in Seq(S) /\ Len(<<>>) = 0
        BY EmptySeq
      <3>2. out' \in Seq(S) /\ Len(out') = 1
        <4>1. out' = Append(<<>>, <<>>) /\ <<>> \in S
          BY <2>1
        <4> HIDE DEF S
        <4> QED
          BY <3>1, <4>1, AppendProperties
      <3> QED
        BY <3>1, <3>2 DEF BeginsWith
    <2>4. IsPrefix(got', out') /\ out' = Lines(got')
      BY <2>1, <2>2, <2>3, BeginsWithIsPrefix DEF Lines
    <2>5. PrintsTheList' /\ WalkInv' /\ EmptyInv'
      BY <2>2, <2>4 DEF PrintsTheList, WalkInv, EmptyInv
    <2> QED
      BY <2>2, <2>5, WalkFrame DEF UmountInv
  <1>1. CASE got # <<>> /\ ~(Len(Bytes(got)) <= total_size)
    <2>1. WalkInv' /\ EmptyInv'
      BY <1>1, WalkFrame DEF WalkInv, EmptyInv
    <2>2. PrintsTheList'
      <3>1. Len(Bytes(got)) < total_size => Len(Bytes(got)) <= total_size
        BY BytesTyped, WalkFrame
      <3> QED
        BY <1>1, <3>1, WalkFrame DEF PrintsTheList
    <2> QED
      BY <2>1, <2>2, WalkFrame DEF UmountInv
  <1>2. CASE got # <<>> /\ Len(Bytes(got)) <= total_size
    <2>1. InTheList
      BY <1>2, WalkFrame DEF UmountInv, WalkInv
    <2>2. /\ pc' = "walk" => InTheList'
          /\ exit' = "0" => BeginsWith(out', got) /\ (Len(Bytes(got)) < total_size => out' = got)
      <3>1. CASE \E off, m : /\ Begins(got, off) /\ m \in 0 .. Len(got) - 1
                             /\ Printed(m) /\ char_buf = off[m]
        BY <1>2, <3>1, WalkInTheList
      <3>2. CASE Len(Bytes(got)) = total_size /\ BeginsWith(out, got)
        <4>1. BeginsWith(out', got)
          BY <3>2, WalkFrame, BeginsWithMore
        <4>2. ~(Len(Bytes(got)) < total_size)
          BY <3>2, WalkFrame
        <4> QED
          BY <3>2, <4>1, <4>2, WalkFrame DEF InTheList
      <3> QED
        BY <2>1, <3>1, <3>2 DEF InTheList
    <2>3. WalkInv' /\ EmptyInv'
      BY <1>2, <2>2, WalkFrame DEF WalkInv, EmptyInv, UmountInv
    <2>4. PrintsTheList'
      BY <1>2, <2>2, WalkFrame, BeginsWithIsPrefix DEF PrintsTheList, Lines
    <2> QED
      BY <2>3, <2>4, WalkFrame DEF UmountInv
  <1> QED
    BY <1>0, <1>1, <1>2

\* Every step of every program keeps it.
LEMMA NextUmount == UmountInv /\ [Next]_vars => UmountInv'
  <1> SUFFICES ASSUME UmountInv, [Next]_vars PROVE UmountInv'
    OBVIOUS
  <1>1. UmountProgram \/ ListChanges \/ UNCHANGED umountVars
    BY DEF Next, Program, Others, vars
  <1>2. CASE UNCHANGED umountVars
    BY <1>2 DEF umountVars, UmountInv, EmptyInv, WalkInv, InTheList, Printed, PrintsTheList
  <1> QED
    BY <1>1, <1>2, QuietSteps, AllocaStep, GetListStep, WalkStep DEF UmountProgram

\* For every set of strings, every length of the list and every change to it
\* between the two requests: as long as the list still fits the buffer its entries
\* are the first lines, each once and in order, and the only lines if it has shrunk;
\* of a list that was emptied one empty line is printed.
THEOREM ListIsPrinted == Spec => []PrintsTheList
  <1>1. UmountInv => PrintsTheList
    BY DEF UmountInv
  <1> QED
    BY <1>1, InitUmount, NextUmount, PTL DEF Spec

(***************************************************************************)
(* When the memory that was asked for is enough.                           *)
(***************************************************************************)

\* Between the two requests the kernel's list does not become longer.
NoGrowthInBetween ==
    pc \in {"alloca", "get_list"} => Len(Bytes(list')) <= Len(Bytes(list))

StillFits ==
    /\ pc \in {"alloca", "get_list"} => Len(Bytes(list)) <= total_size
    /\ ListFits
    /\ exit # "killed"

\* The program's own steps: GETLIST writes what fitted a moment ago, and a list
\* that fits smashes nothing.
LEMMA ProgramFits ==
  ASSUME UmountInv, StillFits, UmountProgram
  PROVE  StillFits'
  <1>1. list' = list
    BY DEF UmountProgram, GetSizeFails, GetSize, Alloca, GetListFails, GetList, Smashed, Walk
  <1>2. CASE GetSizeFails \/ GetListFails
    <2>1. pc' = "exit" /\ exit' = "1"
      BY <1>2 DEF GetSizeFails, GetListFails, Exit
    <2> QED
      BY <2>1 DEF StillFits, ListFits
  <1>3. CASE GetSize
    <2>1. total_size' = Len(Bytes(list)) /\ pc' \in {"alloca", "exit"} /\ exit' \in {exit, "1"}
      BY <1>3 DEF GetSize, Exit
    <2>2. Len(Bytes(list)) \in Nat
      BY BytesTyped DEF UmountInv
    <2> QED
      BY <1>1, <2>1, <2>2 DEF StillFits, ListFits
  <1>4. CASE Alloca
    <2>1. pc = "alloca" /\ pc' = "get_list" /\ total_size' = total_size /\ exit' = exit
      BY <1>4 DEF Alloca
    <2> QED
      BY <1>1, <2>1 DEF StillFits, ListFits
  <1>5. CASE GetList
    <2>1. /\ pc = "get_list" /\ pc' = "walk" /\ total_size' = total_size /\ exit' = exit
          /\ got' = list
      BY <1>5 DEF GetList
    <2> QED
      BY <2>1 DEF StillFits, ListFits
  <1>6. ~Smashed
    <2>1. Len(Bytes(got)) \in Nat /\ total_size \in Int
      BY BytesTyped DEF UmountInv
    <2>2. pc = "walk" => ~(Len(Bytes(got)) > total_size)
      BY <2>1 DEF StillFits, ListFits
    <2> QED
      BY <2>2 DEF Smashed
  <1>7. CASE Walk
    <2>1. /\ pc = "walk" /\ pc' \in {"walk", "exit"} /\ total_size' = total_size
          /\ got' = got /\ exit' \in {exit, "0"}
      BY <1>7 DEF Walk, Exit
    <2> QED
      BY <2>1 DEF StillFits, ListFits
  <1> QED
    BY <1>2, <1>3, <1>4, <1>5, <1>6, <1>7 DEF UmountProgram

\* "now we can prepare the same size of memory" is right of every run in which
\* the list does not grow between the two requests; the list may shrink, change
\* and, before or after, grow. In such a run the program is never killed.
THEOREM ListFitsUnlessItGrows ==
  Spec /\ [][NoGrowthInBetween]_vars => [](ListFits /\ exit # "killed")
  <1>1. Init => StillFits
    BY DEF Init, UmountInit, StillFits, ListFits
  <1>2. UmountInv /\ StillFits /\ [Next]_vars /\ [NoGrowthInBetween]_vars => StillFits'
    <2> SUFFICES ASSUME UmountInv, StillFits, [Next]_vars, [NoGrowthInBetween]_vars
                 PROVE  StillFits'
      OBVIOUS
    <2>1. UmountProgram \/ ListChanges \/ UNCHANGED umountVars
      BY DEF Next, Program, Others, vars
    <2>2. CASE UNCHANGED umountVars
      BY <2>2 DEF umountVars, StillFits, ListFits
    <2>3. CASE ListChanges
      <3>1. pc' = pc /\ got' = got /\ total_size' = total_size /\ exit' = exit
        BY <2>3 DEF ListChanges
      <3>2. pc \in {"alloca", "get_list"} => Len(Bytes(list')) <= Len(Bytes(list))
        <4>1. list' # list
          BY <2>3 DEF ListChanges
        <4> QED
          BY <4>1 DEF NoGrowthInBetween, vars, umountVars
      <3>3. Len(Bytes(list')) \in Nat /\ Len(Bytes(list)) \in Nat /\ total_size \in Int
        <4>1. list \in Lists /\ list' \in Lists
          BY <2>3 DEF ListChanges, UmountInv
        <4> QED
          BY <4>1, BytesTyped DEF UmountInv
      <3>4. pc \in {"alloca", "get_list"} => Len(Bytes(list')) <= total_size
        BY <3>2, <3>3 DEF StillFits
      <3> QED
        BY <3>1, <3>4 DEF StillFits, ListFits
    <2> QED
      BY <2>1, <2>2, <2>3, ProgramFits
  <1>3. StillFits => ListFits /\ exit # "killed"
    BY DEF StillFits
  <1> QED
    BY <1>1, <1>2, <1>3, InitUmount, NextUmount, PTL DEF Spec

(***************************************************************************)
(* What bounds the walk, which has no bound of its own.                    *)
(***************************************************************************)

\* The last word modelled is 0, and the walk stands before it or on it.
MemoryEnds ==
    /\ StackBytes > 0 => mem[StackBytes] = Nul
    /\ pc \in {"alloca", "get_list", "walk"} => StackBytes > 0
    /\ pc = "walk" => char_buf \in 0 .. StackBytes - 1

\* With a 0 at the end of memory every string of it ends, and the next one
\* begins further on.
LEMMA StringEnds ==
  ASSUME NEW at \in 0 .. StackBytes - 1, mem[StackBytes] = Nul
  PROVE  /\ StrLen(at) \in 0 .. StackBytes - at - 1 /\ mem[at + StrLen(at) + 1] = Nul
         /\ NextString(at) \in Nat /\ NextString(at) > at
         /\ ~AtEnd(NextString(at)) => NextString(at) \in 0 .. StackBytes - 1
  <1> DEFINE ends == {n \in 0 .. StackBytes - at - 1 : mem[at + n + 1] = Nul}
             least == Min(ends)
  <1>1. StackBytes \in Nat /\ at \in Nat
    BY BoundsAssumption
  <1>2. ends \in SUBSET Nat /\ ends # {}
    <2>1. StackBytes - at - 1 \in 0 .. StackBytes - at - 1 /\ at + (StackBytes - at - 1) + 1 = StackBytes
      BY <1>1
    <2> QED
      BY <2>1
  <1>3. least \in ends
    <2> HIDE DEF ends
    <2>1. PICK m \in ends : \A k \in ends : m <= k
      BY <1>2, LeastNatural
    <2> QED
      BY <2>1 DEF Min
  <1>4. StrLen(at) = least
    BY DEF StrLen
  <1>5. StrLen(at) \in 0 .. StackBytes - at - 1 /\ mem[at + StrLen(at) + 1] = Nul
    <2> HIDE DEF least
    <2> QED
      BY <1>3, <1>4
  <1>6. NextString(at) = at + StrLen(at) + 1
    BY DEF NextString
  <1>7. ~AtEnd(NextString(at)) => ~(NextString(at) >= StackBytes)
    BY DEF AtEnd
  <1> DEFINE l == StrLen(at)
  <1> HIDE DEF l
  <1>8. l \in 0 .. StackBytes - at - 1 /\ NextString(at) = at + l + 1
    BY <1>5, <1>6 DEF l
  <1> QED
    BY <1>1, <1>5, <1>7, <1>8

\* The bytes of a list end in a terminator.
LEMMA BytesEnd ==
  ASSUME NEW entries \in Lists, Len(Bytes(entries)) > 0
  PROVE  Bytes(entries)[Len(Bytes(entries))] = Nul
  <1>1. entries # <<>>
    BY BytesAtLeast
  <1> DEFINE N == Len(entries)
  <1>2. N \in Nat /\ N > 0
    BY <1>1, ListTyped, EmptySeq
  <1>3. PICK off : Begins(entries, off)
    BY <1>1, BytesLaidOut
  <1>4. N - 1 \in 0 .. N - 1 /\ (N - 1) + 1 = N
    BY <1>2
  <1>5. /\ off[N] = off[N - 1] + Len(entries[N]) + 1 /\ off[N] = Len(Bytes(entries))
        /\ Bytes(entries)[off[N - 1] + Len(entries[N]) + 1] = Nul
    BY <1>3, <1>4 DEF Begins
  <1> QED
    BY <1>5

\* The steps of grab_umount_list keep the 0 at the end, and the walk before it.
LEMMA ProgramInMemory ==
  ASSUME UmountInv, MemoryEnds, UmountProgram
  PROVE  MemoryEnds'
  <1>0. StackBytes \in Nat
    BY BoundsAssumption
  <1>1. CASE GetSizeFails \/ GetListFails \/ Smashed
    <2>1. pc' = "exit" /\ mem' = mem
      BY <1>1 DEF GetSizeFails, GetListFails, Smashed, Exit
    <2> QED
      BY <2>1 DEF MemoryEnds
  <1>2. CASE GetSize
    <2>1. /\ mem' = mem /\ pc' \in {"alloca", "exit"}
          /\ pc' = "alloca" => Len(Bytes(list)) # 0
      BY <1>2 DEF GetSize, Exit
    <2>2. Len(Bytes(list)) \in Nat /\ Len(Bytes(list)) <= StackBytes
      BY BytesTyped DEF UmountInv
    <2> QED
      BY <1>0, <2>1, <2>2 DEF MemoryEnds
  <1>3. CASE Alloca
    <2>1. /\ pc = "alloca" /\ pc' = "get_list"
          /\ mem' = [i \in DOMAIN mem |-> IF i <= total_size THEN Nul ELSE mem[i]]
      BY <1>3 DEF Alloca, Cleared
    <2>2. DOMAIN mem = 1 .. StackBytes /\ StackBytes > 0 /\ mem[StackBytes] = Nul
      BY <2>1 DEF MemoryEnds, UmountInv
    <2>3. StackBytes \in DOMAIN mem
      BY <1>0, <2>2
    <2> QED
      BY <2>1, <2>2, <2>3 DEF MemoryEnds
  <1>4. CASE GetList
    <2> DEFINE bytes == Bytes(list)
               B == Len(bytes)
    <2>1. /\ pc = "get_list" /\ pc' = "walk" /\ char_buf' = char_buf
          /\ mem' = [i \in DOMAIN mem |-> IF i <= B THEN bytes[i] ELSE mem[i]]
      BY <1>4 DEF GetList
    <2>2. /\ DOMAIN mem = 1 .. StackBytes /\ StackBytes > 0 /\ mem[StackBytes] = Nul
          /\ char_buf = 0
      BY <2>1 DEF MemoryEnds, UmountInv
    <2>3. B \in Nat /\ B <= StackBytes /\ (B > 0 => bytes[B] = Nul)
      BY BytesTyped, BytesEnd DEF UmountInv
    <2> HIDE DEF bytes, B
    <2>4. StackBytes \in DOMAIN mem /\ (StackBytes <= B => StackBytes = B)
      BY <1>0, <2>2, <2>3
    <2>5. mem'[StackBytes] = Nul
      BY <2>1, <2>2, <2>3, <2>4
    <2>6. char_buf' \in 0 .. StackBytes - 1
      BY <1>0, <2>1, <2>2
    <2> QED
      BY <2>1, <2>2, <2>5, <2>6 DEF MemoryEnds
  <1>5. CASE Walk
    <2>1. char_buf \in 0 .. StackBytes - 1 /\ mem[StackBytes] = Nul /\ StackBytes > 0
      BY <1>5, WalkFrame DEF MemoryEnds
    <2>2. pc' = "walk" => char_buf' \in 0 .. StackBytes - 1
      BY <1>5, <2>1, StringEnds, WalkFrame
    <2> QED
      BY <1>5, <2>1, <2>2, WalkFrame DEF MemoryEnds
  <1> QED
    BY <1>1, <1>2, <1>3, <1>4, <1>5 DEF UmountProgram

\* Whatever the list has become, in the buffer or beyond it, a turn of the walk
\* finds the end of a string in the memory modelled and moves on from it.
WalkMovesOn ==
    Walk => /\ char_buf \in 0 .. StackBytes - 1
            /\ mem[char_buf + StrLen(char_buf) + 1] = Nul
            /\ char_buf' > char_buf

\* So StackBytes - char_buf counts down, and the walk is at most that long.
THEOREM WalkIsBounded == Spec => [][WalkMovesOn]_vars
  <1>1. Init => MemoryEnds
    <2>1. StackBytes \in Nat
      BY BoundsAssumption
    <2> QED
      BY <2>1 DEF Init, UmountInit, MemoryEnds
  <1>2. UmountInv /\ MemoryEnds /\ [Next]_vars => MemoryEnds'
    <2> SUFFICES ASSUME UmountInv, MemoryEnds, [Next]_vars PROVE MemoryEnds'
      OBVIOUS
    <2>1. UmountProgram \/ ListChanges \/ UNCHANGED umountVars
      BY DEF Next, Program, Others, vars
    <2>2. CASE ListChanges \/ UNCHANGED umountVars
      <3>1. mem' = mem /\ pc' = pc /\ char_buf' = char_buf
        BY <2>2 DEF ListChanges, umountVars
      <3> QED
        BY <3>1 DEF MemoryEnds
    <2> QED
      BY <2>1, <2>2, ProgramInMemory
  <1>3. UmountInv /\ MemoryEnds => [WalkMovesOn]_vars
    <2> SUFFICES ASSUME UmountInv, MemoryEnds, Walk
                 PROVE  /\ char_buf \in 0 .. StackBytes - 1
                        /\ mem[char_buf + StrLen(char_buf) + 1] = Nul
                        /\ char_buf' > char_buf
      BY DEF WalkMovesOn
    <2>1. char_buf \in 0 .. StackBytes - 1 /\ mem[StackBytes] = Nul
      BY WalkFrame DEF MemoryEnds
    <2> QED
      BY <2>1, StringEnds, WalkFrame
  <1> QED
    BY <1>1, <1>2, <1>3, InitUmount, NextUmount, PTL DEF Spec

=============================================================================
