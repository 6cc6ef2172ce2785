------------------------- MODULE LkmTemplate_proofs -------------------------
(***************************************************************************)
(* Proofs about the loadable module, for every address width, every set of *)
(* well formed kernels and every iteration bound: lkm_boostrap by itself,  *)
(* its invariant carried through the whole of lkm_template_init, what the  *)
(* syscall-table hunt finds, and that the two together do no more than     *)
(* LkmLoad allows.                                                         *)
(***************************************************************************)
EXTENDS LkmTemplate, Sequences, TLAPS

(***************************************************************************)
(* Pointer arithmetic and the kernel's services.                           *)
(***************************************************************************)

\* uintptr_t arithmetic stays in the address space.
LEMMA WrapInAddr == ASSUME NEW x \in Int PROVE Wrap(x) \in Addr
  BY WordAssumption DEF Wrap, Addr

\* An address is not changed by the wrap-around.
LEMMA WrapOfAddr == ASSUME NEW x \in Addr PROVE Wrap(x) = x
  BY WordAssumption DEF Wrap, Addr

\* So does the null pointer.
LEMMA NullInAddr == Null \in Addr
  BY WordAssumption DEF Addr, Null

\* Symbols of an image are well formed and their bytes are addresses.
LEMMA SymbolFacts ==
  ASSUME NEW k \in Images, NEW s \in k.syms
  PROVE  /\ s.name \in STRING /\ s.mod \in STRING
         /\ s.start \in Addr \ {Null} /\ s.size \in Nat \ {0}
         /\ s.start + s.size <= Word
  <1>1. k.syms \subseteq Symbol /\ WellFormed(k)
    BY ImagesAssumption
  <1>2. s \in Symbol
    BY <1>1
  <1>3. s.name \in STRING /\ s.mod \in STRING /\ s.start \in Addr /\ s.size \in Nat
    BY <1>2 DEF Symbol
  <1>4. s.start # Null /\ s.size > 0 /\ s.start + s.size <= Word
    BY <1>1 DEF WellFormed
  <1> QED
    BY <1>3, <1>4

\* sprint_symbol names the one symbol that covers the address.
LEMMA SprintOfCovered ==
  ASSUME NEW k \in Images, NEW s \in k.syms, NEW a \in Addr, Covers(s, a)
  PROVE  sprint_symbol(k, a) =
           [name |-> s.name, offset |-> a - s.start, size |-> s.size, mod |-> s.mod]
  <1> DEFINE c == CHOOSE t \in k.syms : Covers(t, a)
  <1>1. c \in k.syms /\ Covers(c, a)
    OBVIOUS
  <1>2. c = s
    <2>1. c = s \/ c.start + c.size <= s.start \/ s.start + s.size <= c.start
      BY <1>1, ImagesAssumption DEF WellFormed
    <2> QED
      BY <1>1, <2>1, SymbolFacts, WordAssumption DEF Covers, Addr
  <1> QED
    BY <1>1, <1>2 DEF sprint_symbol

\* A lookup answers the start of a symbol of that name, or Null.
LEMMA LookupFacts ==
  ASSUME NEW k \in Images, NEW n
  PROVE  /\ kallsyms_lookup_name(k, n) \in Addr
         /\ kallsyms_lookup_name(k, n) # Null =>
              \E s \in k.syms : s.name = n /\ s.start = kallsyms_lookup_name(k, n)
  <1> DEFINE core == {s \in k.syms : s.name = n /\ s.mod = ""}
             mods == {s \in k.syms : s.name = n /\ s.mod # ""}
  <1>1. CASE core # {}
    <2>1. (CHOOSE s \in core : TRUE) \in core
      BY <1>1
    <2>2. kallsyms_lookup_name(k, n) = (CHOOSE s \in core : TRUE).start
      BY <1>1 DEF kallsyms_lookup_name
    <2> QED
      BY <2>1, <2>2, SymbolFacts
  <1>2. CASE core = {} /\ mods # {}
    <2>1. (CHOOSE s \in mods : TRUE) \in mods
      BY <1>2
    <2>2. kallsyms_lookup_name(k, n) = (CHOOSE s \in mods : TRUE).start
      BY <1>2 DEF kallsyms_lookup_name
    <2> QED
      BY <2>1, <2>2, SymbolFacts
  <1>3. CASE core = {} /\ mods = {}
    <2>1. kallsyms_lookup_name(k, n) = Null
      BY <1>3 DEF kallsyms_lookup_name
    <2> QED
      BY <2>1, WordAssumption DEF Null, Addr
  <1> QED
    BY <1>1, <1>2, <1>3

\* The scan's anchor is an address.
LEMMA AnchorInAddr == ASSUME kernel \in Images PROVE Anchor \in Addr
  <1>1. \E s \in kernel.syms : s.name = "sprint_symbol" /\ s.mod = ""
    BY ImagesAssumption DEF WellFormed
  <1> QED
    BY <1>1, SymbolFacts DEF Anchor, AddressOfSprintSymbol

\* What the scan accepts is a symbol named kallsyms_lookup_name, and what it
\* keeps is that symbol's first byte.
LEMMA HitIsEntry ==
  ASSUME kernel \in Images, NEW a \in Addr, Hit(a)
  PROVE  \E s \in kernel.syms : s.name = KLN /\ s.start = Entry(a)
  <1>1. sprint_symbol(kernel, a).name = KLN
    BY DEF Hit, Candidate
  <1>2. PICK s \in kernel.syms : Covers(s, a)
    BY <1>1 DEF sprint_symbol, BareAddress, KLN
  <1>3. sprint_symbol(kernel, a) =
          [name |-> s.name, offset |-> a - s.start, size |-> s.size, mod |-> s.mod]
    BY <1>2, SprintOfCovered
  <1>4. a - (a - s.start) = s.start /\ s.start \in Addr
    BY SymbolFacts, WordAssumption DEF Addr
  <1>5. Entry(a) = s.start
    BY <1>3, <1>4, WrapOfAddr DEF Entry
  <1> QED
    BY <1>1, <1>3, <1>5

\* A readable byte of kallsyms_lookup_name is accepted.
LEMMA CoveredIsHit ==
  ASSUME kernel \in Images, NEW s \in kernel.syms, s.name = KLN,
         NEW a \in Addr, Covers(s, a), a \notin kernel.unreadable
  PROVE  Hit(a)
  <1>1. sprint_symbol(kernel, a) =
          [name |-> s.name, offset |-> a - s.start, size |-> s.size, mod |-> s.mod]
    BY SprintOfCovered
  <1>2. s.start \in Addr /\ s.size \in Nat \ {0} /\ a - (a - s.start) = s.start
    BY SymbolFacts, WordAssumption DEF Addr
  <1>3. Entry(a) = s.start
    BY <1>1, <1>2, WrapOfAddr DEF Entry
  <1>4. Covers(s, s.start)
    BY <1>2, WordAssumption DEF Covers, Addr
  <1>5. sprint_symbol(kernel, s.start) =
          [name |-> s.name, offset |-> s.start - s.start, size |-> s.size, mod |-> s.mod]
    BY <1>2, <1>4, SprintOfCovered
  <1>6. s.start - s.start = 0
    BY <1>2, WordAssumption DEF Addr
  <1>7. Verified(a)
    <2> DEFINE t == sprint_symbol(kernel, Entry(a))
    <2>1. t.name = s.name /\ t.offset = 0
      BY <1>3, <1>5, <1>6
    <2>2. BareAddress.name # s.name
      BY DEF BareAddress, KLN
    <2> QED
      BY <2>1, <2>2 DEF Verified
  <1>8. Candidate(a)
    BY <1>1 DEF Candidate, copy_from_kernel_nofault
  <1> QED
    BY <1>7, <1>8 DEF Hit

\* Any 64 consecutive bytes contain a byte the scan's grid falls on.
LEMMA GridMeetsInterval ==
  ASSUME NEW anchor \in Nat, NEW lo \in Nat, NEW m \in Nat \ {0},
         anchor - 64 * (m - 1) <= lo,
         lo + 63 <= anchor + 64 * (m - 1)
  PROVE  \E i \in 0 .. m - 1 :
           \/ lo <= anchor + 64 * i /\ anchor + 64 * i <= lo + 63
           \/ lo <= anchor - 64 * i /\ anchor - 64 * i <= lo + 63
  <1>1. CASE anchor <= lo
    <2> DEFINE i == (lo - anchor + 63) \div 64
    <2>1. i \in Nat /\ 64 * i <= lo - anchor + 63 /\ lo - anchor + 63 < 64 * i + 64
      BY <1>1
    <2> HIDE DEF i
    <2>2. i <= m - 1
      BY <2>1
    <2> QED
      BY <2>1, <2>2
  <1>2. CASE lo < anchor
    <2> DEFINE i == (anchor - lo) \div 64
    <2>1. i \in Nat /\ 64 * i <= anchor - lo /\ anchor - lo < 64 * i + 64
      BY <1>2
    <2> HIDE DEF i
    <2>2. i <= m - 1
      BY <2>1
    <2> QED
      BY <2>1, <2>2
  <1> QED
    BY <1>1, <1>2

\* The two arms of the scan start at the anchor.
LEMMA ArmsMeetAtAnchor ==
  ASSUME kernel \in Images
  PROVE  Above(0) = Anchor /\ Below(0) = Anchor
  <1>1. Anchor \in Addr
    BY AnchorInAddr
  <1>2. Anchor + Stride * 0 = Anchor /\ Anchor - Stride * 0 = Anchor
    BY <1>1, WordAssumption DEF Stride, Addr
  <1> QED
    BY <1>1, <1>2, WrapOfAddr DEF Above, Below

\* Every probe of the scan is an address.
LEMMA ArmsInAddr ==
  ASSUME kernel \in Images, NEW i \in Nat
  PROVE  Above(i) \in Addr /\ Below(i) \in Addr
  <1>1. Anchor \in Int
    BY AnchorInAddr DEF Addr
  <1>2. Anchor + Stride * i \in Int /\ Anchor - Stride * i \in Int
    BY <1>1 DEF Stride
  <1> QED
    BY <1>2, WrapInAddr DEF Above, Below

(***************************************************************************)
(* The inductive invariant.                                                *)
(***************************************************************************)

\* It holds when lkm_boostrap is entered.
LEMMA BootInitInv == BootInit => BootInv
  <1> SUFFICES ASSUME BootInit PROVE BootInv
    OBVIOUS
  <1>1. Null \in Addr
    BY NullInAddr
  <1>2. verify.asked = "" /\ verify.addr = Null
    BY DEF BootInit, NotVerified
  <1>3. iter \in 0 .. MaxIter
    BY MaxIterAssumption DEF BootInit
  <1>4. BootTypeOK
    BY <1>1, <1>2, <1>3 DEF BootInit, BootTypeOK, SymbolNames, Labels
  <1> QED
    BY <1>4 DEF BootInit, BootInv, FoundIsEntry, PointersInv, ScanInv, NoNullCall, KprobeBalanced

\* The kprobe half keeps it.
LEMMA KprobeStepsInv ==
  ASSUME BootInv, SymbolGet \/ KpRegister \/ KpRegisterFails \/ KpUnregister
  PROVE  BootInv'
  <1> USE DEF BootInv, scanVars, fnVars
  <1>0. kernel \in Images /\ kernel' = kernel
    BY DEF BootTypeOK, SymbolNames, SymbolGet, KpRegister, KpRegisterFails, KpUnregister
  <1>1. CASE SymbolGet
    <2>1. register_kprobe_fn' \in Addr /\ unregister_kprobe_fn' \in Addr
      BY <1>0, <1>1, LookupFacts, WordAssumption DEF SymbolGet, symbol_get, Addr, Null
    <2>2. BootTypeOK'
      BY <1>1, <2>1 DEF SymbolGet, BootTypeOK, SymbolNames, Labels
    <2>3. FoundIsEntry' /\ NoNullCall' /\ KprobeBalanced'
      BY <1>1 DEF SymbolGet, FoundIsEntry, NoNullCall, KprobeBalanced
    <2>4. PointersInv' /\ ScanInv'
      BY <1>1 DEF SymbolGet, PointersInv, ScanInv, KprobeMissing
    <2> QED
      BY <2>2, <2>3, <2>4
  <1>2. CASE KpRegister
    <2>1. register_kprobe_fn' = register_kprobe_fn /\ oops' = oops
      BY <1>2 DEF KpRegister, PointersInv, Resolve, NeedsLookup, BootTypeOK, SymbolNames
    <2>2. BootTypeOK'
      BY <1>2, <2>1 DEF KpRegister, BootTypeOK, SymbolNames, Labels
    <2>3. FoundIsEntry' /\ NoNullCall' /\ KprobeBalanced'
      BY <1>2, <2>1 DEF KpRegister, FoundIsEntry, NoNullCall, KprobeBalanced
    <2>4. PointersInv' /\ ScanInv'
      BY <1>2, <2>1 DEF KpRegister, PointersInv, ScanInv
    <2> QED
      BY <2>2, <2>3, <2>4
  <1>3. CASE KpRegisterFails
    <2>1. register_kprobe_fn' = register_kprobe_fn /\ oops' = oops
      BY <1>3 DEF KpRegisterFails, PointersInv, Resolve, NeedsLookup, BootTypeOK, SymbolNames
    <2>2. BootTypeOK'
      BY <1>3, <2>1, NullInAddr DEF KpRegisterFails, BootTypeOK, SymbolNames, Labels
    <2>3. FoundIsEntry' /\ NoNullCall' /\ KprobeBalanced'
      BY <1>3, <2>1 DEF KpRegisterFails, FoundIsEntry, NoNullCall, KprobeBalanced
    <2>4. PointersInv' /\ ScanInv'
      BY <1>3, <2>1 DEF KpRegisterFails, PointersInv, ScanInv
    <2> QED
      BY <2>2, <2>3, <2>4
  <1>4. CASE KpUnregister
    <2>1. unregister_kprobe_fn' = unregister_kprobe_fn /\ oops' = oops /\ armed' = FALSE
      BY <1>4 DEF KpUnregister, PointersInv, Resolve, NeedsLookup, StillArmed, BootTypeOK, SymbolNames
    <2>2. kallsyms_lookup_name_fn' \in Addr \ {Null} /\ pc' = "found"
      BY <1>0, <1>4, LookupFacts DEF KpUnregister, PointersInv
    <2>3. BootTypeOK'
      BY <1>4, <2>1, <2>2 DEF KpUnregister, BootTypeOK, SymbolNames, Labels
    <2>4. FoundIsEntry'
      BY <1>0, <1>4, <2>2, LookupFacts DEF KpUnregister, FoundIsEntry
    <2>5. NoNullCall' /\ KprobeBalanced' /\ PointersInv' /\ ScanInv'
      BY <1>4, <2>1, <2>2 DEF KpUnregister, NoNullCall, KprobeBalanced, PointersInv, ScanInv
    <2> QED
      BY <2>3, <2>4, <2>5
  <1> QED
    BY <1>1, <1>2, <1>3, <1>4

\* A hit ends the scan with the symbol's entry in kallsyms_lookup_name_fn.
LEMMA ScanHitInv ==
  ASSUME BootInv, ScanHit
  PROVE  BootInv'
  <1> USE DEF BootInv, fnVars
  <1>1. kernel \in Images /\ curr \in Addr /\ Hit(curr)
    BY DEF BootTypeOK, SymbolNames, ScanHit
  <1>2. PICK s \in kernel.syms : s.name = KLN /\ s.start = Entry(curr)
    BY <1>1, HitIsEntry
  <1>3. Entry(curr) \in Addr \ {Null}
    BY <1>1, <1>2, SymbolFacts
  <1>4. BootTypeOK'
    BY <1>3 DEF ScanHit, BootTypeOK, SymbolNames, Labels
  <1>5. FoundIsEntry' /\ PointersInv'
    BY <1>2, <1>3 DEF ScanHit, FoundIsEntry, PointersInv
  <1>6. NoNullCall' /\ KprobeBalanced' /\ ScanInv'
    BY DEF ScanHit, NoNullCall, KprobeBalanced, ScanInv
  <1> QED
    BY <1>4, <1>5, <1>6

\* What a probe excludes does not depend on the scan's own variables.
LEMMA HitIsStable ==
  ASSUME kernel' = kernel
  PROVE  /\ Anchor' = Anchor
         /\ \A a : Hit(a)' <=> Hit(a)
         /\ \A i : Above(i)' = Above(i) /\ Below(i)' = Below(i)
  BY DEF Anchor, AddressOfSprintSymbol, Hit, Candidate, copy_from_kernel_nofault,
         sprint_symbol, Covers, Verified, Entry, Wrap, BareAddress, Above, Below, Stride

\* Both turns of the scan, its start and its failure keep the invariant.
LEMMA ScanStepsInv ==
  ASSUME BootInv, StartScan \/ ScanExhausted \/ ScanUp \/ ScanDown
  PROVE  BootInv'
  <1> USE DEF BootInv, fnVars, scanVars
  <1>0. /\ kernel \in Images /\ kernel' = kernel
        /\ iter \in 0 .. MaxIter /\ curr \in Addr /\ up \in BOOLEAN
    BY DEF BootTypeOK, SymbolNames, StartScan, ScanExhausted, ScanUp, ScanDown
  <1>a. /\ Anchor' = Anchor
        /\ \A a : Hit(a)' <=> Hit(a)
        /\ \A i : Above(i)' = Above(i) /\ Below(i)' = Below(i)
    BY <1>0, HitIsStable
  <1>b. FoundIsEntry' /\ NoNullCall' /\ KprobeBalanced' /\ PointersInv'
    BY <1>0 DEF StartScan, ScanExhausted, ScanUp, ScanDown,
                FoundIsEntry, NoNullCall, KprobeBalanced, PointersInv
  <1>1. CASE StartScan
    <2>0. iter' \in 0 .. MaxIter
      BY <1>1, MaxIterAssumption DEF StartScan
    <2>1. BootTypeOK'
      BY <1>0, <1>1, <2>0, AnchorInAddr, NullInAddr
      DEF StartScan, BootTypeOK, SymbolNames, Labels
    <2>2. curr' = Below(iter)'
      BY <1>0, <1>1, <1>a, ArmsMeetAtAnchor DEF StartScan
    <2>3. ScanInv'
      BY <1>1, <2>2 DEF StartScan, ScanInv, NoHitBelowRound
    <2> QED
      BY <1>b, <2>1, <2>3
  <1>2. CASE ScanExhausted
    <2>1. BootTypeOK'
      BY <1>2 DEF ScanExhausted, BootTypeOK, SymbolNames, Labels, Returned
    <2>2. iter = MaxIter
      BY <1>0, <1>2, MaxIterAssumption DEF ScanExhausted, Exhausted
    <2>3. NoHitBelowRound(MaxIter)'
      BY <1>2, <1>a, <2>2 DEF ScanExhausted, ScanInv, NoHitBelowRound
    <2>4. ScanInv'
      BY <1>2, <2>3 DEF ScanExhausted, ScanInv
    <2> QED
      BY <1>b, <2>1, <2>4
  <1>3. CASE ScanUp
    <2>1. iter' = iter + 1 /\ iter + 1 \in 0 .. MaxIter /\ iter \in Nat
      BY <1>0, <1>3, MaxIterAssumption DEF ScanUp, Exhausted
    <2>2. curr' = Above(iter + 1) /\ curr' \in Addr
      BY <1>0, <1>3, <1>a, <2>1, ArmsInAddr DEF ScanUp
    <2>3. BootTypeOK'
      BY <1>3, <2>1, <2>2 DEF ScanUp, BootTypeOK, SymbolNames
    <2>4. NoHitBelowRound(iter) /\ curr = Below(iter) /\ ~Hit(curr) /\ (iter > 0 => ~Hit(Above(iter)))
      BY <1>3 DEF ScanUp, ScanInv
    <2>5. ~Hit(Above(iter)) /\ ~Hit(Below(iter))
      BY <1>0, <2>1, <2>4, ArmsMeetAtAnchor
    <2>6. \A i \in 0 .. (iter + 1) - 1 : ~Hit(Above(i)) /\ ~Hit(Below(i))
      BY <2>1, <2>4, <2>5 DEF NoHitBelowRound
    <2>7. NoHitBelowRound(iter)'
      BY <1>a, <2>1, <2>6 DEF NoHitBelowRound
    <2>8. ScanInv'
      BY <1>3, <1>a, <2>1, <2>2, <2>7 DEF ScanUp, ScanInv
    <2> QED
      BY <1>b, <2>3, <2>8
  <1>4. CASE ScanDown
    <2>1. curr' = Below(iter) /\ curr' \in Addr /\ iter' = iter
      BY <1>0, <1>4, <1>a, ArmsInAddr DEF ScanDown
    <2>2. BootTypeOK'
      BY <1>4, <2>1 DEF ScanDown, BootTypeOK, SymbolNames
    <2>3. NoHitBelowRound(iter) /\ ~Hit(Above(iter))
      BY <1>4 DEF ScanDown, ScanInv
    <2>4. NoHitBelowRound(iter)'
      BY <1>a, <2>1, <2>3 DEF NoHitBelowRound
    <2>5. ScanInv'
      BY <1>4, <1>a, <2>1, <2>3, <2>4 DEF ScanDown, ScanInv
    <2> QED
      BY <1>b, <2>2, <2>5
  <1> QED
    BY <1>1, <1>2, <1>3, <1>4

\* The verification lookup keeps it.
LEMMA FoundInv ==
  ASSUME BootInv, Found
  PROVE  BootInv'
  <1> USE DEF BootInv, fnVars, scanVars
  <1>1. kernel \in Images /\ kernel' = kernel /\ sym \in {Uninit, "sprint_symbol"}
    BY DEF BootTypeOK, SymbolNames, Found
  <1>2. PICK name \in NamesIn(sym) :
          LET a == kallsyms_lookup_name(kernel, name)
          IN  verify' = [asked |-> name, addr |-> a,
                         info |-> compat_kallsyms_lookup_size_offset(kernel, a)]
    BY DEF Found
  <1>3. name \in SymbolNames \cup {""}
    <2>1. "sprint_symbol" \in SymbolNames
      BY <1>1, ImagesAssumption DEF WellFormed, SymbolNames
    <2> QED
      BY <1>1, <2>1 DEF NamesIn, Uninit
  <1>4. verify'.asked \in SymbolNames' \cup {""} /\ verify'.addr \in Addr
    BY <1>1, <1>2, <1>3, LookupFacts DEF SymbolNames
  <1>5. oops' = oops
    BY DEF Found, PointersInv, BootTypeOK, SymbolNames
  <1>6. BootTypeOK'
    BY <1>4, <1>5 DEF Found, BootTypeOK, SymbolNames, Labels, Returned
  <1>7. FoundIsEntry' /\ NoNullCall' /\ KprobeBalanced' /\ PointersInv' /\ ScanInv'
    BY <1>5 DEF Found, FoundIsEntry, NoNullCall, KprobeBalanced, PointersInv, ScanInv
  <1> QED
    BY <1>6, <1>7

\* Every step of lkm_boostrap keeps the invariant.
LEMMA BootNextInv == BootInv /\ [BootNext]_bvars => BootInv'
  <1> SUFFICES ASSUME BootInv, [BootNext]_bvars PROVE BootInv'
    OBVIOUS
  <1>1. CASE SymbolGet \/ KpRegister \/ KpRegisterFails \/ KpUnregister
    BY <1>1, KprobeStepsInv
  <1>2. CASE ScanHit
    BY <1>2, ScanHitInv
  <1>3. CASE StartScan \/ ScanExhausted \/ ScanUp \/ ScanDown
    BY <1>3, ScanStepsInv
  <1>4. CASE Found
    BY <1>4, FoundInv
  <1>5. CASE UNCHANGED bvars
    <2>1. /\ Anchor' = Anchor
          /\ \A a : Hit(a)' <=> Hit(a)
          /\ \A i : Above(i)' = Above(i) /\ Below(i)' = Below(i)
      BY <1>5, HitIsStable DEF bvars
    <2>2. ScanInv'
      BY <1>5, <2>1 DEF BootInv, bvars, scanVars, ScanInv, NoHitBelowRound
    <2> QED
      BY <1>5, <2>2 DEF BootInv, bvars, scanVars, fnVars, BootTypeOK, SymbolNames, FoundIsEntry,
                        PointersInv, NoNullCall, KprobeBalanced, kallsyms_lookup_name
  <1> QED
    BY <1>1, <1>2, <1>3, <1>4, <1>5 DEF BootNext

\* The invariant holds throughout.
THEOREM BootInvariance == BootSpec => []BootInv
  BY BootInitInv, BootNextInv, PTL DEF BootSpec

\* Type correctness of lkm_boostrap.
THEOREM BootTypeCorrect == BootSpec => []BootTypeOK
  <1>1. BootInv => BootTypeOK
    BY DEF BootInv
  <1> QED
    BY <1>1, BootInvariance, PTL

\* kallsyms_lookup_name_fn is only ever set to the entry of the symbol.
THEOREM BootFindsEntry == BootSpec => []FoundIsEntry
  <1>1. BootInv => FoundIsEntry
    BY DEF BootInv
  <1> QED
    BY <1>1, BootInvariance, PTL

\* No call through a null kallsyms_lookup_name_fn.
THEOREM BootCallsAreSafe == BootSpec => []NoNullCall
  <1>1. BootInv => NoNullCall
    BY DEF BootInv
  <1> QED
    BY <1>1, BootInvariance, PTL

\* No kprobe is left registered in a stack frame that is gone.
THEOREM BootKprobeBalanced == BootSpec => []KprobeBalanced
  <1>1. BootInv => KprobeBalanced
    BY DEF BootInv
  <1> QED
    BY <1>1, BootInvariance, PTL

\* What has been probed without a hit holds no function of 16 instructions.
LEMMA InvIsComplete == BootInv => ScanComplete
  <1> SUFFICES ASSUME BootInv, pc = "ret_ERANGE", NoWrap, NEW s \in kernel.syms, InReach(s)
               PROVE  FALSE
    BY DEF ScanComplete
  <1>1. kernel \in Images /\ NoHitBelowRound(MaxIter)
    BY DEF BootInv, BootTypeOK, SymbolNames, ScanInv
  <1>2. Anchor \in Addr /\ s.start \in Addr /\ s.size \in Nat
    BY <1>1, AnchorInAddr, SymbolFacts
  <1>3. Anchor \in Nat /\ s.start \in Nat /\ MaxIter \in Nat \ {0}
    BY <1>2, WordAssumption, MaxIterAssumption DEF Addr
  <1>4. /\ Anchor - 64 * (MaxIter - 1) <= s.start
        /\ s.start + 63 <= Anchor + 64 * (MaxIter - 1)
    BY <1>2, <1>3 DEF InReach, MinSize
  <1>5. PICK i \in 0 .. MaxIter - 1 :
          \/ s.start <= Anchor + 64 * i /\ Anchor + 64 * i <= s.start + 63
          \/ s.start <= Anchor - 64 * i /\ Anchor - 64 * i <= s.start + 63
    BY <1>3, <1>4, GridMeetsInterval
  <1>6. ~Hit(Above(i)) /\ ~Hit(Below(i))
    BY <1>1, <1>5 DEF NoHitBelowRound
  <1>7. ASSUME NEW a \in Int, s.start <= a, a <= s.start + 63
        PROVE  Hit(a) /\ Wrap(a) = a
    <2>1. a \in Addr /\ Covers(s, a)
      BY <1>1, <1>2, <1>7, SymbolFacts, WordAssumption DEF InReach, MinSize, Covers, Addr
    <2>2. a \notin kernel.unreadable /\ s.name = KLN
      BY <2>1 DEF InReach
    <2> QED
      BY <1>1, <2>1, <2>2, CoveredIsHit, WrapOfAddr
  <1>8. Anchor + 64 * i \in Int /\ Anchor - 64 * i \in Int
    BY <1>3, <1>5
  <1>9. CASE s.start <= Anchor + 64 * i /\ Anchor + 64 * i <= s.start + 63
    BY <1>6, <1>7, <1>8, <1>9 DEF Above, Stride
  <1>10. CASE s.start <= Anchor - 64 * i /\ Anchor - 64 * i <= s.start + 63
    BY <1>6, <1>7, <1>8, <1>10 DEF Below, Stride
  <1> QED
    BY <1>5, <1>9, <1>10

\* A scan that fails has missed no function of 16 instructions or more, for
\* every iteration bound and every layout of the kernel.
THEOREM BootScanComplete == BootSpec => []ScanComplete
  BY InvIsComplete, BootInvariance, PTL

(***************************************************************************)
(* The range of the scan's messages.                                       *)
(***************************************************************************)

\* One more round adds its probe at either end.
LEMMA ProbesGrow ==
  ASSUME NEW n \in Nat
  PROVE  /\ \A above : Probes(above, n + 1) = Probes(above, n) \cup {Below(n)}
         /\ n > 0 => \A below : Probes(n, below) = Probes(n - 1, below) \cup {Above(n)}
  <1>1. 0 .. (n + 1) - 1 = (0 .. n - 1) \cup {n}
    OBVIOUS
  <1>2. n > 0 => 1 .. n = (1 .. n - 1) \cup {n}
    OBVIOUS
  <1>3. ASSUME NEW above PROVE Probes(above, n + 1) = Probes(above, n) \cup {Below(n)}
    BY <1>1, Zenon DEF Probes
  <1>4. ASSUME n > 0, NEW below PROVE Probes(n, below) = Probes(n - 1, below) \cup {Above(n)}
    BY <1>2, <1>4, Zenon DEF Probes
  <1> QED
    BY <1>3, <1>4

\* Before the scan nothing has been probed.
LEMMA InitRange == BootInit => RangeInv
  <1>1. Probes(0, 0) = {}
    BY DEF Probes
  <1>2. MaxIter > 0
    BY MaxIterAssumption
  <1> QED
    BY <1>1, <1>2 DEF BootInit, RangeInv, RoundsAbove

\* Both turns of the scan record the end they have just probed.
LEMMA RangeNextInv == BootInv /\ RangeInv /\ [BootNext]_bvars => RangeInv'
  <1> SUFFICES ASSUME BootInv, RangeInv, [BootNext]_bvars PROVE RangeInv'
    OBVIOUS
  <1>0. /\ iter \in 0 .. MaxIter /\ up \in BOOLEAN /\ MaxIter \in Nat \ {0}
        /\ kernel' = kernel
    BY MaxIterAssumption
    DEF BootInv, BootTypeOK, SymbolNames, bvars, BootNext, SymbolGet, KpRegister, KpRegisterFails,
        KpUnregister, StartScan, ScanExhausted, ScanHit, ScanUp, ScanDown, Found
  <1>a. \A i : Above(i)' = Above(i) /\ Below(i)' = Below(i)
    BY <1>0, HitIsStable
  <1>b. \A above, below : Probes(above, below)' = Probes(above, below)
    BY <1>a, Zenon DEF Probes
  <1>1. CASE StartScan
    <2>1. iter' = 0 /\ up' = TRUE /\ missed' = {}
      BY <1>1 DEF StartScan
    <2>2. Probes(0, 0) = {}
      BY DEF Probes
    <2> QED
      BY <1>0, <1>b, <2>1, <2>2 DEF RangeInv, RoundsAbove
  <1>2. CASE \/ SymbolGet \/ KpRegister \/ KpRegisterFails \/ KpUnregister
             \/ ScanExhausted \/ ScanHit \/ Found \/ UNCHANGED bvars
    <2>1. UNCHANGED <<iter, up, r_high, r_low, missed>>
      BY <1>2 DEF SymbolGet, KpRegister, KpRegisterFails, KpUnregister, ScanExhausted, ScanHit,
                  Found, bvars, scanVars
    <2> QED
      BY <1>a, <1>b, <2>1 DEF RangeInv, RoundsAbove
  <1>3. CASE ScanUp
    <2>1. /\ curr = Below(iter) /\ iter < MaxIter /\ up
          /\ iter' = iter + 1 /\ ~up' /\ r_high' = curr /\ r_low' = r_low
          /\ missed' = missed \cup {curr}
      BY <1>3 DEF ScanUp, BootInv, ScanInv, RangeInv
    <2>2. iter' - 1 = iter /\ iter' > 0 /\ RoundsAbove' = RoundsAbove
      BY <1>0, <2>1 DEF RoundsAbove
    <2>3. missed = Probes(RoundsAbove, iter)
      BY DEF RangeInv
    <2>4. missed' = Probes(RoundsAbove, iter + 1)
      BY <1>0, <2>1, <2>3, ProbesGrow
    <2> QED
      BY <1>a, <1>b, <2>1, <2>2, <2>4 DEF RangeInv
  <1>4. CASE ScanDown
    <2>1. /\ curr = Above(iter) /\ iter < MaxIter /\ ~up /\ iter > 0
          /\ iter' = iter /\ up' = TRUE /\ r_low' = curr /\ r_high' = r_high
          /\ missed' = missed \cup {curr}
      BY <1>0, <1>4 DEF ScanDown, Exhausted, BootInv, ScanInv
    <2>2. RoundsAbove = iter - 1 /\ RoundsAbove' = iter
      BY <1>0, <2>1 DEF RoundsAbove
    <2>3. missed = Probes(iter - 1, iter)
      BY <2>2 DEF RangeInv
    <2>4. missed' = Probes(iter, iter)
      BY <1>0, <2>1, <2>3, ProbesGrow
    <2> QED
      BY <1>a, <1>b, <2>1, <2>2, <2>4 DEF RangeInv
  <1> QED
    BY <1>1, <1>2, <1>3, <1>4 DEF BootNext

\* The ends recorded are the ends of what has been probed.
LEMMA InvReportsRange == BootInv /\ RangeInv => RangeReported
  <1> SUFFICES ASSUME BootInv, RangeInv, NoWrap, NEW a \in missed, NEW b \in missed, a # b
               PROVE  {r_high, r_low} \subseteq missed /\ missed \subseteq r_high .. r_low
    BY DEF RangeReported
  <1> DEFINE R == RoundsAbove
  <1>1. kernel \in Images /\ iter \in 0 .. MaxIter /\ up \in BOOLEAN
    BY DEF BootInv, BootTypeOK, SymbolNames
  <1>2. Anchor \in Nat /\ MaxIter \in Nat /\ Word \in Nat
    BY <1>1, AnchorInAddr, MaxIterAssumption, WordAssumption DEF Addr
  <1>3. ASSUME NEW k \in 0 .. MaxIter - 1
        PROVE  Above(k) = Anchor + 64 * k /\ Below(k) = Anchor - 64 * k
    <2>1. Anchor + 64 * k \in Addr /\ Anchor - 64 * k \in Addr
      BY <1>2 DEF NoWrap, MinSize, Addr
    <2> QED
      BY <2>1, WrapOfAddr DEF Above, Below, Stride
  <1>4. R \in Int /\ R < MaxIter /\ iter \in Int /\ iter <= MaxIter /\ R <= iter /\ iter - 1 <= R
    BY <1>1, <1>2 DEF RangeInv, RoundsAbove
  <1>5. missed = Probes(R, iter)
    BY DEF RangeInv
  <1>6. iter > 0 /\ R > 0
    <2>1. iter > 0
      <3>1. ASSUME iter <= 0 PROVE FALSE
        <4>1. R <= 0 /\ 1 .. R = {} /\ 0 .. iter - 1 = {}
          BY <1>4, <3>1
        <4>2. missed = {}
          BY <1>5, <4>1, Zenon DEF Probes
        <4> QED
          BY <4>2
      <3> QED
        BY <1>4, <3>1
    <2>2. ASSUME R <= 0 PROVE FALSE
      <3>1. iter = 1 /\ 1 .. R = {} /\ 0 .. iter - 1 = {0}
        BY <1>4, <2>1, <2>2
      <3>2. missed = {Below(0)}
        BY <1>5, <3>1, Zenon DEF Probes
      <3> QED
        BY <3>2
    <2> QED
      BY <1>4, <2>1, <2>2
  <1>7. r_high = Below(iter - 1) /\ r_low = Above(R)
    BY <1>6 DEF RangeInv
  <1>8. {r_high, r_low} \subseteq missed
    <2>1. iter - 1 \in 0 .. iter - 1 /\ R \in 1 .. R
      BY <1>4, <1>6
    <2> QED
      BY <1>5, <1>7, <2>1, Zenon DEF Probes
  <1>9. ASSUME NEW m \in missed PROVE m \in r_high .. r_low
    <2> HIDE DEF R
    <2>0. iter - 1 \in 0 .. MaxIter - 1 /\ R \in 0 .. MaxIter - 1
      BY <1>2, <1>4, <1>6
    <2>1. r_high = Anchor - 64 * (iter - 1) /\ r_low = Anchor + 64 * R
      BY <1>3, <1>7, <2>0, Zenon
    <2>2. CASE \E i \in 1 .. R : m = Above(i)
      <3>1. PICK i \in 1 .. R : m = Above(i)
        BY <2>2
      <3>2. i \in 0 .. MaxIter - 1
        BY <1>2, <1>4, <3>1
      <3>3. m = Anchor + 64 * i
        BY <1>3, <3>1, <3>2, Zenon
      <3> QED
        BY <1>2, <1>4, <1>6, <2>1, <3>1, <3>3
    <2>3. CASE \E i \in 0 .. iter - 1 : m = Below(i)
      <3>1. PICK i \in 0 .. iter - 1 : m = Below(i)
        BY <2>3
      <3>2. i \in 0 .. MaxIter - 1
        BY <1>2, <1>4, <3>1
      <3>3. m = Anchor - 64 * i
        BY <1>3, <3>1, <3>2, Zenon
      <3> QED
        BY <1>2, <1>4, <1>6, <2>1, <3>1, <3>3
    <2> QED
      BY <1>5, <2>2, <2>3, Zenon DEF Probes, R
  <1> QED
    BY <1>8, <1>9

\* The range the messages of a scan name is exactly the one probed in vain,
\* whether it found the symbol or gave up.
THEOREM BootRange == BootSpec => []RangeReported
  <1>1. BootInit => RangeInv
    BY InitRange
  <1> QED
    BY <1>1, InvReportsRange, RangeNextInv, BootInvariance, PTL DEF BootSpec

(***************************************************************************)
(* The kernel as the hunt sees it is the kernel the bootstrap saw.         *)
(***************************************************************************)

\* The three services as the hunt's instance defines them.
LEMMA SameWrap == \A x : H!Wrap(x) = Wrap(x)
  BY DEF H!Wrap, Wrap

\* sprint_symbol of the instance.
LEMMA SameSprint == \A k, a : H!sprint_symbol(k, a) = sprint_symbol(k, a)
  BY DEF H!sprint_symbol, sprint_symbol, H!Covers, Covers, H!BareAddress, BareAddress

\* kallsyms_lookup_name of the instance.
LEMMA SameLookup == \A k, n : H!kallsyms_lookup_name(k, n) = kallsyms_lookup_name(k, n)
  BY DEF H!kallsyms_lookup_name, kallsyms_lookup_name, H!Null, Null

\* Every handler of either table has a scan depth.
LEMMA HandlerTable ==
  ASSUME handlers \in {H!HandlersFrom_4_19, H!HandlersBefore_4_19}
  PROVE  /\ Len(handlers) \in Nat /\ DOMAIN handlers = 1 .. Len(handlers)
         /\ \A i \in DOMAIN handlers : handlers[i].depth \in Nat
  BY DEF H!HandlersFrom_4_19, H!HandlersBefore_4_19

\* The name sprint_symbol prints is that of a symbol covering the address.
LEMMA NamedIsCovered ==
  ASSUME NEW k \in Images, NEW a, sprint_symbol(k, a).name # ""
  PROVE  \E s \in k.syms : Covers(s, a) /\ s.name = sprint_symbol(k, a).name
  BY DEF sprint_symbol, BareAddress

\* The depth hunt_sct_adrp is called with is the size of the handler when
\* the kernel tells it, the default depth otherwise.
LEMMA DepthOfHandler ==
  ASSUME kernel \in Images, NEW h, h.depth \in Nat,
         kallsyms_lookup_name(kernel, h.sym) # Null
  PROVE  LET target == kallsyms_lookup_name(kernel, h.sym)
             depth == H!ScanDepth(h, target)
         IN  /\ target \in Addr /\ depth \in Nat
             /\ H!InstructionsOf(h) =
                  {a \in target .. target + depth - 1 : (a - target) % 4 = 0}
  <1> DEFINE target == kallsyms_lookup_name(kernel, h.sym)
             r == H!compat_kallsyms_lookup_size_offset(kernel, target)
             Told == \E s \in kernel.syms : s.start = target /\ s.mod = ""
             size == IF Told THEN (CHOOSE s \in kernel.syms : s.start = target).size ELSE h.depth
  <1>1. PICK s \in kernel.syms : s.start = target
    BY LookupFacts
  <1>2. /\ target \in Addr /\ target # Null /\ Covers(s, target)
        /\ s.size \in Nat \ {0} /\ target - s.start = 0
    BY <1>1, SymbolFacts, WordAssumption DEF Covers, Addr
  <1>3. ASSUME NEW t \in kernel.syms, t.start = target
        PROVE  t = s
    <2>1. s = t \/ s.start + s.size <= t.start \/ t.start + t.size <= s.start
      BY ImagesAssumption DEF WellFormed
    <2>2. t.size \in Nat \ {0} /\ s.start \in Int
      BY <1>1, <1>2, SymbolFacts DEF Addr
    <2> QED
      BY <1>1, <1>2, <1>3, <2>1, <2>2
  <1>4. (Told <=> s.mod = "") /\ (CHOOSE t \in kernel.syms : t.start = target) = s
    BY <1>1, <1>3
  <1>5. size = IF s.mod = "" THEN s.size ELSE h.depth
    BY <1>4
  <1>6. PICK text : text = H!sprint_symbol(kernel, target)
    OBVIOUS
  <1>7. text = [name |-> s.name, offset |-> 0, size |-> s.size, mod |-> s.mod]
    BY <1>2, <1>6, SameSprint, SprintOfCovered
  <1>8. CASE s.mod = ""
    <2>1. text.mod = "" /\ text.size = s.size /\ text.offset = 0
      BY <1>7, <1>8
    <2>2. text # H!BareAddress
      <3>1. text.size # 0 /\ H!BareAddress.size = 0
        BY <1>2, <2>1 DEF H!BareAddress
      <3> QED
        BY <3>1
    <2>3. r = [ret |-> 1, size |-> s.size, offset |-> 0]
      BY <1>2, <1>6, <2>1, <2>2 DEF H!compat_kallsyms_lookup_size_offset, H!Null, Null
    <2>4. H!ScanDepth(h, target) = s.size
      BY <1>2, <2>3 DEF H!ScanDepth, H!get_ksym_size
    <2> QED
      BY <1>2, <1>5, <1>8, <2>4, SameLookup DEF H!InstructionsOf, H!Null, Null
  <1>9. CASE s.mod # ""
    <2>1. text.mod # ""
      BY <1>7, <1>9
    <2>2. r = [ret |-> 0, size |-> 0, offset |-> 0]
      BY <1>6, <2>1 DEF H!compat_kallsyms_lookup_size_offset
    <2>3. H!ScanDepth(h, target) = h.depth
      BY <2>2 DEF H!ScanDepth, H!get_ksym_size
    <2> QED
      BY <1>2, <1>5, <1>9, <2>3, SameLookup DEF H!InstructionsOf, H!Null, Null
  <1> QED
    BY <1>8, <1>9

(***************************************************************************)
(* What the hunt searches does not change while it searches.               *)
(***************************************************************************)

\* Its finds and its fit depend on the kernel and the handlers only.
LEMMA HuntIsStable ==
  ASSUME kernel' = kernel, handlers' = handlers
  PROVE  /\ H!HuntFits' <=> H!HuntFits
         /\ H!Finds' = H!Finds
         /\ \A a : H!IsAdrp(a)' <=> H!IsAdrp(a)
         /\ \A a : H!AdrpTarget(a)' = H!AdrpTarget(a)
         /\ \A h, a : H!ScanDepth(h, a)' = H!ScanDepth(h, a)
  BY DEF H!HuntFits, H!ScanDepth, H!AdrpTarget, H!Finds, H!InstructionsOf, H!IsIoSetup, H!IsAdrp

\* The page an instruction computes is an address.
LEMMA TargetInAddr ==
  ASSUME kernel \in Images, NEW a \in DOMAIN kernel.adrp
  PROVE  a \in Addr /\ H!AdrpTarget(a) \in Addr
  <1>1. a \in Addr /\ kernel.adrp[a] \in Addr
    BY ImagesAssumption DEF IsMemory
  <1>2. a \in Int /\ kernel.adrp[a] \in Int
    BY <1>1 DEF Addr
  <1>3. (a - (a % PageSize)) + kernel.adrp[a] \in Int
    BY <1>2, PageSizeAssumption
  <1> QED
    BY <1>1, <1>3, SameWrap, WrapInAddr DEF H!AdrpTarget

\* Where a find lies: on a whole instruction of its handler, and in one of
\* the slots the page walk reads.
LEMMA FindFacts ==
  ASSUME H!HuntShape, H!HuntFits, NEW f \in H!Finds
  PROVE  /\ f.turn \in DOMAIN handlers
         /\ LET target == kallsyms_lookup_name(kernel, handlers[f.turn].sym)
            IN  /\ target # Null
                /\ f.insn \in target .. target + H!ScanDepth(handlers[f.turn], target) - 1
                /\ (f.insn - target) % 4 = 0
         /\ H!IsAdrp(f.insn) /\ H!IsIoSetup(f.slot)
         /\ \E n \in 0 .. H!max_tries : f.slot = H!AdrpTarget(f.insn) + 8 * n
  <1> DEFINE target == kallsyms_lookup_name(kernel, handlers[f.turn].sym)
  <1>1. /\ f.turn \in DOMAIN handlers /\ f.insn \in DOMAIN kernel.adrp
        /\ f.insn \in H!InstructionsOf(handlers[f.turn]) /\ f.insn \notin kernel.unreadable
        /\ H!IsIoSetup(f.slot)
    BY DEF H!Finds
  <1>2. PICK n \in 0 .. PageSize \div 8 : f.slot = H!Wrap(H!AdrpTarget(f.insn) + 8 * n)
    BY DEF H!Finds
  <1>3. H!IsAdrp(f.insn)
    BY <1>1 DEF H!IsAdrp, H!copy_from_kernel_nofault
  <1>4. target # Null
    BY <1>1, SameLookup DEF H!InstructionsOf, H!Null, Null
  <1>5. kernel \in Images /\ handlers[f.turn].depth \in Nat
    BY <1>1, HandlerTable DEF H!HuntShape
  <1>6. /\ f.insn \in target .. target + H!ScanDepth(handlers[f.turn], target) - 1
        /\ (f.insn - target) % 4 = 0
    BY <1>1, <1>4, <1>5, DepthOfHandler
  <1>7. H!AdrpTarget(f.insn) \in Addr /\ H!AdrpTarget(f.insn) + PageSize < Word
    BY <1>1, <1>5, TargetInAddr DEF H!HuntFits
  <1>8. 8 * n \in 0 .. PageSize /\ n \in 0 .. H!max_tries
    BY <1>2, PageSizeAssumption DEF H!max_tries, H!sizeof_uintptr_t
  <1>9. H!AdrpTarget(f.insn) + 8 * n \in Addr
    BY <1>7, <1>8, WordAssumption, PageSizeAssumption DEF Addr
  <1>10. f.slot = H!AdrpTarget(f.insn) + 8 * n
    BY <1>2, <1>9, SameWrap, WrapOfAddr
  <1> QED
    BY <1>1, <1>3, <1>4, <1>6, <1>8, <1>10

\* What the instruction walk's variables hold.
LEMMA WalkFacts ==
  ASSUME H!HuntShape, H!HuntFits, H!InsnWalk, turn \in DOMAIN handlers
  PROVE  LET target == kallsyms_lookup_name(kernel, handlers[turn].sym)
         IN  /\ target \in Nat /\ insn_p \in Nat /\ insn_end \in Nat
             /\ H!ScanDepth(handlers[turn], target) \in Nat
             /\ insn_end = target + H!ScanDepth(handlers[turn], target)
             /\ target <= insn_p /\ insn_p < insn_end + 4 /\ insn_end + 4 <= Word
             /\ (insn_p - target) % 4 = 0
  <1> DEFINE target == kallsyms_lookup_name(kernel, handlers[turn].sym)
             depth == H!ScanDepth(handlers[turn], target)
  <1>1. target # Null /\ insn_end = target + depth
    BY SameLookup DEF H!InsnWalk, H!Null, Null
  <1>2. target \in Nat /\ depth \in Nat
    BY <1>1, DepthOfHandler, HandlerTable, WordAssumption DEF H!HuntShape, Addr
  <1>3. insn_p \in target .. insn_end + 3 /\ (insn_p - target) % 4 = 0
    BY SameLookup, <1>1, <1>2 DEF H!InsnWalk, H!sizeof_insn
  <1>4. target + depth + 4 <= Word
    BY <1>1, SameLookup DEF H!HuntFits, H!Null, Null, H!sizeof_insn
  <1> QED
    BY <1>1, <1>2, <1>3, <1>4

\* A find of the handler being walked lies on the walk's own grid.
LEMMA FindOfTurn ==
  ASSUME H!HuntShape, H!HuntFits, H!InsnWalk, turn \in DOMAIN handlers,
         NEW f \in H!Finds, f.turn = turn
  PROVE  /\ f.insn \in Nat /\ f.insn < insn_end
         /\ (f.insn - insn_p) % 4 = 0
  <1> DEFINE target == kallsyms_lookup_name(kernel, handlers[turn].sym)
             depth == H!ScanDepth(handlers[turn], target)
  <1>1. /\ target \in Nat /\ depth \in Nat /\ insn_p \in Nat /\ insn_end \in Nat
        /\ insn_end = target + depth
        /\ target <= insn_p /\ (insn_p - target) % 4 = 0
    BY WalkFacts
  <1>2. f.insn \in target .. target + depth - 1 /\ (f.insn - target) % 4 = 0
    BY FindFacts
  <1> HIDE DEF target, depth
  <1>3. f.insn \in target .. insn_end - 1
    BY <1>1, <1>2
  <1> QED
    BY <1>1, <1>2, <1>3

(***************************************************************************)
(* hunt_sys_call_table keeps its invariant.                                *)
(***************************************************************************)

\* It holds when hunt_sys_call_table is entered.
LEMMA HuntInitInv == H!HuntInit => H!HuntInv
  <1> SUFFICES ASSUME H!HuntInit PROVE H!HuntInv
    OBVIOUS
  <1>1. H!HuntShape
    BY HandlerTable DEF H!HuntInit, H!HuntShape
  <1>2. ASSUME H!HuntFits, NEW f \in H!Finds
        PROVE  H!Ahead(f)
    BY <1>1, <1>2, FindFacts, HandlerTable DEF H!HuntInit, H!HuntShape, H!Ahead
  <1> QED
    BY <1>1, <1>2 DEF H!HuntInit, H!HuntInv, H!HuntFindsFirst

\* Before the first handler, between two and behind the last.
LEMMA TurnStepsInv ==
  ASSUME H!HuntInv, H!Hunt \/ H!NoHandler \/ H!NoHandlerLeft \/ H!ScanEnds
  PROVE  H!HuntInv'
  <1>0. /\ kernel' = kernel /\ handlers' = handlers /\ located' = located
        /\ H!HuntShape
    BY DEF H!HuntInv, H!Hunt, H!NoHandler, H!NoHandlerLeft, H!ScanEnds
  <1>a. /\ H!HuntFits' <=> H!HuntFits
        /\ H!Finds' = H!Finds
    BY <1>0, HuntIsStable
  <1>b. Len(handlers) \in Nat /\ DOMAIN handlers = 1 .. Len(handlers) /\ turn \in 1 .. Len(handlers) + 1
    BY <1>0, HandlerTable DEF H!HuntShape
  <1>c. H!HuntShape'
    BY <1>0, <1>b DEF H!HuntShape, H!Hunt, H!NoHandler, H!NoHandlerLeft, H!ScanEnds
  <1>d. hpc' \notin {"scan", "scan_pg"} /\ located = {}
    BY <1>0 DEF H!Hunt, H!NoHandler, H!NoHandlerLeft, H!ScanEnds, H!HuntShape
  <1>1. CASE H!Hunt
    <2>1. ASSUME H!HuntFits', NEW f \in H!Finds', hpc' # "return"
          PROVE  H!Ahead(f)'
      BY <1>0, <1>1, <1>a, <1>d, <2>1 DEF H!Hunt, H!HuntInv, H!Ahead, H!walkVars
    <2>2. H!HuntFindsFirst'
      BY <1>1 DEF H!Hunt, H!HuntFindsFirst
    <2> QED
      BY <1>c, <1>d, <2>1, <2>2 DEF H!HuntInv
  <1>2. CASE H!NoHandler
    <2>1. ASSUME H!HuntFits', NEW f \in H!Finds'
          PROVE  H!Ahead(f)'
      <3>1. H!HuntFits /\ f \in H!Finds /\ f.turn \in DOMAIN handlers /\ f.turn >= turn
        BY <1>0, <1>2, <1>a, <2>1, FindFacts DEF H!NoHandler, H!HuntInv, H!Ahead
      <3>2. f.turn # turn
        BY <1>0, <1>2, <3>1, FindFacts, SameLookup DEF H!NoHandler, H!Null, Null
      <3> QED
        BY <1>2, <1>b, <1>d, <3>1, <3>2 DEF H!NoHandler, H!Ahead
    <2>2. H!HuntFindsFirst'
      BY <1>2, <1>0 DEF H!NoHandler, H!HuntFindsFirst
    <2> QED
      BY <1>c, <1>d, <2>1, <2>2 DEF H!HuntInv
  <1>3. CASE H!NoHandlerLeft
    <2>1. ASSUME H!HuntFits PROVE H!Finds = {}
      <3>1. ASSUME NEW f \in H!Finds PROVE FALSE
        <4>1. f.turn \in DOMAIN handlers /\ f.turn >= turn
          BY <1>0, <1>3, <2>1, <3>1, FindFacts DEF H!NoHandlerLeft, H!HuntInv, H!Ahead
        <4> QED
          BY <1>3, <1>b, <4>1 DEF H!NoHandlerLeft
      <3> QED
        BY <3>1
    <2>2. H!HuntFindsFirst'
      BY <1>0, <1>a, <1>d, <2>1 DEF H!HuntFindsFirst
    <2> QED
      BY <1>3, <1>c, <2>2 DEF H!NoHandlerLeft, H!HuntInv
  <1>4. CASE H!ScanEnds
    <2>1. ASSUME H!HuntFits', NEW f \in H!Finds'
          PROVE  H!Ahead(f)'
      <3>1. H!HuntFits /\ f \in H!Finds /\ H!Ahead(f) /\ H!InsnWalk
        BY <1>4, <1>a, <2>1 DEF H!ScanEnds, H!HuntInv
      <3>2. f.turn \in DOMAIN handlers /\ f.turn >= turn
        BY <1>0, <3>1, FindFacts DEF H!Ahead
      <3>3. ASSUME f.turn = turn PROVE FALSE
        <4>1. f.insn < insn_end
          BY <1>0, <3>1, <3>2, <3>3, FindOfTurn
        <4>2. f.insn >= insn_p /\ insn_p >= insn_end
          BY <1>4, <3>1, <3>3 DEF H!Ahead, H!ScanEnds
        <4>3. f.insn \in Nat /\ insn_p \in Nat /\ insn_end \in Nat
          BY <1>0, <3>1, <3>2, <3>3, FindOfTurn, WalkFacts
        <4> QED
          BY <4>1, <4>2, <4>3
      <3> QED
        BY <1>4, <1>b, <1>d, <3>2, <3>3 DEF H!ScanEnds, H!Ahead
    <2>2. H!HuntFindsFirst'
      BY <1>4 DEF H!ScanEnds, H!HuntFindsFirst
    <2> QED
      BY <1>c, <1>d, <2>1, <2>2 DEF H!HuntInv
  <1> QED
    BY <1>1, <1>2, <1>3, <1>4

\* Going on by one instruction stays on the walk's grid and in the address
\* space.
LEMMA NextInsn ==
  ASSUME H!HuntShape, H!HuntFits, H!InsnWalk, turn \in DOMAIN handlers, insn_p < insn_end,
         kernel' = kernel, handlers' = handlers, turn' = turn, insn_end' = insn_end,
         insn_p' = H!Wrap(insn_p + H!sizeof_insn)
  PROVE  H!InsnWalk' /\ insn_p' = insn_p + 4
  <1> DEFINE target == kallsyms_lookup_name(kernel, handlers[turn].sym)
  <1>1. /\ target \in Nat /\ insn_p \in Nat /\ insn_end \in Nat
        /\ target <= insn_p /\ insn_end + 4 <= Word /\ (insn_p - target) % 4 = 0
    BY WalkFacts
  <1>2. insn_p + 4 \in Addr
    BY <1>1, WordAssumption DEF Addr
  <1>3. insn_p' = insn_p + 4
    BY <1>2, SameWrap, WrapOfAddr DEF H!sizeof_insn
  <1>4. /\ H!kallsyms_lookup_name(kernel, handlers[turn].sym)' = target
        /\ target # H!Null /\ insn_end = target + H!ScanDepth(handlers[turn], target)
    BY SameLookup DEF H!InsnWalk
  <1>5. \A h, a : H!ScanDepth(h, a)' = H!ScanDepth(h, a)
    BY HuntIsStable
  <1> HIDE DEF target
  <1>6. insn_p' \in target .. insn_end' + 4 - 1 /\ (insn_p' - target) % 4 = 0
    BY <1>1, <1>3
  <1> QED
    BY <1>3, <1>4, <1>5, <1>6 DEF H!InsnWalk, H!sizeof_insn

\* Two instructions of the grid are four bytes apart.
LEMMA GridStep ==
  ASSUME NEW a \in Nat, NEW b \in Nat, (b - a) % 4 = 0, b >= a, b # a
  PROVE  b >= a + 4
  OBVIOUS

\* hunt_sct_adrp is called at the first instruction of a handler.
LEMMA EnterHandlerInv ==
  ASSUME H!HuntInv, H!EnterHandler
  PROVE  H!HuntInv'
  <1> DEFINE target == kallsyms_lookup_name(kernel, handlers[turn].sym)
             depth == H!ScanDepth(handlers[turn], target)
  <1>0. /\ kernel' = kernel /\ handlers' = handlers /\ located' = located /\ turn' = turn
        /\ H!HuntShape /\ hpc = "resolve" /\ hpc' = "scan"
    BY DEF H!HuntInv, H!EnterHandler
  <1>1. turn \in DOMAIN handlers
    BY <1>0, HandlerTable DEF H!HuntShape, H!EnterHandler
  <1>2. H!HuntShape'
    BY <1>0, <1>1 DEF H!HuntShape
  <1>3. target # Null /\ insn_p' = target /\ insn_end' = H!Wrap(target + depth)
    BY SameLookup DEF H!EnterHandler, H!Null, Null
  <1>4. target \in Nat /\ depth \in Nat
    BY <1>0, <1>1, <1>3, DepthOfHandler, HandlerTable, WordAssumption DEF H!HuntShape, Addr
  <1>5. ASSUME H!HuntFits
        PROVE  H!InsnWalk' /\ \A f \in H!Finds : H!Ahead(f)'
    <2>1. target + depth + 4 <= Word
      BY <1>1, <1>3, <1>5, SameLookup DEF H!HuntFits, H!Null, Null, H!sizeof_insn
    <2>2. target + depth \in Addr
      BY <1>4, <2>1, WordAssumption DEF Addr
    <2>3. insn_end' = target + depth
      BY <1>3, <2>2, SameWrap, WrapOfAddr
    <2>4. insn_p' \in target .. target + depth + 4 - 1 /\ (insn_p' - target) % 4 = 0
      <3> HIDE DEF target, depth
      <3> QED
        BY <1>3, <1>4
    <2>5. \A h, a : H!ScanDepth(h, a)' = H!ScanDepth(h, a)
      BY <1>0, HuntIsStable
    <2>6. H!InsnWalk'
      BY <1>0, <1>3, <2>3, <2>4, <2>5, SameLookup DEF H!InsnWalk, H!sizeof_insn, H!Null, Null
    <2>7. ASSUME NEW f \in H!Finds
          PROVE  H!Ahead(f)'
      <3>1. f.turn >= turn /\ f.turn \in DOMAIN handlers
        BY <1>0, <1>5, FindFacts DEF H!HuntInv, H!Ahead
      <3>2. f.turn = turn => f.insn \in target .. target + depth - 1
        BY <1>0, <1>5, FindFacts
      <3>3. f.turn = turn => f.insn >= insn_p'
        <4> HIDE DEF target, depth
        <4> QED
          BY <1>3, <1>4, <3>2
      <3> QED
        BY <1>0, <3>1, <3>3 DEF H!Ahead
    <2> QED
      BY <2>6, <2>7
  <1>6. H!HuntFindsFirst'
    BY <1>0 DEF H!HuntFindsFirst
  <1> QED
    BY <1>0, <1>2, <1>5, <1>6, HuntIsStable DEF H!HuntInv

\* An instruction that holds no find is passed: it is no adrp, or its page
\* has been walked to the end.
LEMMA PassInsnInv ==
  ASSUME H!HuntInv, H!ScanSkips \/ H!PageEnds
  PROVE  H!HuntInv'
  <1>0. /\ kernel' = kernel /\ handlers' = handlers /\ located' = located /\ turn' = turn
        /\ insn_end' = insn_end /\ insn_p' = H!Wrap(insn_p + H!sizeof_insn)
        /\ H!HuntShape /\ hpc \in {"scan", "scan_pg"} /\ hpc' = "scan"
    BY DEF H!HuntInv, H!ScanSkips, H!PageEnds
  <1>1. turn \in DOMAIN handlers /\ H!HuntShape'
    BY <1>0 DEF H!HuntShape
  <1>2. ASSUME H!HuntFits
        PROVE  H!InsnWalk' /\ \A f \in H!Finds : H!Ahead(f)'
    <2>1. H!InsnWalk /\ insn_p < insn_end /\ insn_p \in Nat
      <3>1. H!InsnWalk /\ (hpc = "scan_pg" => H!PageWalk)
        BY <1>0, <1>2 DEF H!HuntInv
      <3>2. insn_p < insn_end
        BY <3>1 DEF H!PageWalk, H!ScanSkips, H!PageEnds
      <3> QED
        BY <1>0, <1>1, <1>2, <3>1, <3>2, WalkFacts
    <2>2. H!InsnWalk' /\ insn_p' = insn_p + 4
      BY <1>0, <1>1, <1>2, <2>1, NextInsn
    <2>3. ASSUME NEW f \in H!Finds
          PROVE  H!Ahead(f)'
      <3>1. f.turn >= turn /\ (f.turn = turn => f.insn >= insn_p)
        BY <1>0, <1>2 DEF H!HuntInv, H!Ahead
      <3>2. ASSUME f.turn = turn, f.insn = insn_p PROVE FALSE
        <4>1. CASE H!ScanSkips
          BY <1>0, <1>2, <3>2, <4>1, FindFacts DEF H!ScanSkips
        <4>2. CASE H!PageEnds
          <5>1. PICK n \in 0 .. H!max_tries : f.slot = H!AdrpTarget(insn_p) + 8 * n
            BY <1>0, <1>2, <3>2, FindFacts
          <5>2. /\ tgt = H!AdrpTarget(insn_p) /\ tries \in Nat /\ tries > H!max_tries
                /\ f.slot >= tgt + 8 * tries
            BY <1>0, <1>2, <3>2, <4>2 DEF H!HuntInv, H!PageWalk, H!Ahead, H!PageEnds, H!PageDone, H!sizeof_uintptr_t
          <5>3. tgt \in Nat /\ H!max_tries \in Nat
            BY <1>0, <1>2, <3>2, <5>2, TargetInAddr, WordAssumption, PageSizeAssumption
            DEF H!Finds, H!HuntShape, Addr, H!max_tries, H!sizeof_uintptr_t
          <5> QED
            BY <5>1, <5>2, <5>3
        <4> QED
          BY <4>1, <4>2
      <3>3. ASSUME f.turn = turn PROVE f.insn >= insn_p'
        <4>1. f.insn \in Nat /\ (f.insn - insn_p) % 4 = 0
          BY <1>0, <1>1, <1>2, <2>1, <3>3, FindOfTurn
        <4>2. f.insn >= insn_p + 4
          BY <2>1, <3>1, <3>2, <3>3, <4>1, GridStep
        <4> QED
          BY <2>2, <4>2
      <3> QED
        BY <1>0, <3>1, <3>3 DEF H!Ahead
    <2> QED
      BY <2>2, <2>3
  <1>3. H!HuntFindsFirst'
    BY <1>0 DEF H!HuntFindsFirst
  <1> QED
    BY <1>0, <1>1, <1>2, <1>3, HuntIsStable DEF H!HuntInv

\* The page walk starts at the slot the adrp computes.
LEMMA ScanAdrpInv ==
  ASSUME H!HuntInv, H!ScanAdrp
  PROVE  H!HuntInv'
  <1>0. /\ kernel' = kernel /\ handlers' = handlers /\ located' = located /\ turn' = turn
        /\ insn_end' = insn_end /\ insn_p' = insn_p /\ tgt' = H!AdrpTarget(insn_p)
        /\ slot_p' = tgt' /\ tries' = 0
        /\ insn_p < insn_end /\ H!IsAdrp(insn_p)
        /\ H!HuntShape /\ hpc = "scan" /\ hpc' = "scan_pg"
    BY DEF H!HuntInv, H!ScanAdrp
  <1>1. turn \in DOMAIN handlers /\ H!HuntShape'
    BY <1>0 DEF H!HuntShape
  <1>2. tgt' \in Addr /\ tgt' \in Nat
    BY <1>0, TargetInAddr, WordAssumption DEF H!IsAdrp, H!HuntShape, Addr
  <1>3. ASSUME H!HuntFits
        PROVE  H!InsnWalk' /\ H!PageWalk' /\ \A f \in H!Finds : H!Ahead(f)'
    <2>1. H!InsnWalk'
      <3>1. H!InsnWalk
        BY <1>0, <1>3 DEF H!HuntInv
      <3> QED
        BY <1>0, <3>1, HuntIsStable DEF H!InsnWalk
    <2>2. slot_p' = H!Wrap(tgt' + H!sizeof_uintptr_t * tries')
      BY <1>0, <1>2, SameWrap, WrapOfAddr DEF H!sizeof_uintptr_t
    <2>3. tries' \in 0 .. H!max_tries + 1
      BY <1>0, PageSizeAssumption DEF H!max_tries, H!sizeof_uintptr_t
    <2>4. H!PageWalk'
      BY <1>0, <2>2, <2>3, HuntIsStable DEF H!PageWalk, H!max_tries, H!sizeof_uintptr_t
    <2>5. ASSUME NEW f \in H!Finds
          PROVE  H!Ahead(f)'
      <3>1. f.turn >= turn /\ (f.turn = turn => f.insn >= insn_p)
        BY <1>0, <1>3 DEF H!HuntInv, H!Ahead
      <3>2. ASSUME f.insn = insn_p PROVE f.slot >= tgt'
        <4>1. PICK n \in 0 .. H!max_tries : f.slot = H!AdrpTarget(insn_p) + 8 * n
          BY <1>0, <1>3, <3>2, FindFacts
        <4> QED
          BY <1>0, <1>2, <4>1
      <3>3. tgt' + H!sizeof_uintptr_t * tries' = tgt'
        BY <1>0, <1>2 DEF H!sizeof_uintptr_t
      <3> QED
        BY <1>0, <3>1, <3>2, <3>3 DEF H!Ahead, H!sizeof_uintptr_t
    <2> QED
      BY <2>1, <2>4, <2>5
  <1>4. H!HuntFindsFirst'
    BY <1>0 DEF H!HuntFindsFirst
  <1> QED
    BY <1>0, <1>1, <1>3, <1>4, HuntIsStable DEF H!HuntInv

\* Where the page walk's variables stand.
LEMMA PageFacts ==
  ASSUME H!HuntShape, H!HuntFits, H!PageWalk
  PROVE  /\ H!max_tries \in Nat /\ tries \in 0 .. H!max_tries + 1
         /\ tgt = H!AdrpTarget(insn_p) /\ tgt \in Nat
         /\ tries <= H!max_tries => slot_p = tgt + 8 * tries
  <1>1. insn_p \in DOMAIN kernel.adrp /\ kernel \in Images /\ tgt = H!AdrpTarget(insn_p)
    BY DEF H!PageWalk, H!IsAdrp, H!HuntShape
  <1>2. tgt \in Nat /\ tgt + PageSize < Word
    BY <1>1, TargetInAddr, WordAssumption DEF H!HuntFits, Addr
  <1>3. H!max_tries \in Nat /\ 8 * H!max_tries <= PageSize
    BY PageSizeAssumption DEF H!max_tries, H!sizeof_uintptr_t
  <1>4. tries \in 0 .. H!max_tries + 1 /\ slot_p = H!Wrap(tgt + 8 * tries)
    BY DEF H!PageWalk, H!sizeof_uintptr_t
  <1>5. ASSUME tries <= H!max_tries PROVE slot_p = tgt + 8 * tries
    <2>1. tgt + 8 * tries \in Addr
      BY <1>2, <1>3, <1>4, <1>5, WordAssumption, PageSizeAssumption DEF Addr
    <2> QED
      BY <1>4, <2>1, SameWrap, WrapOfAddr
  <1> QED
    BY <1>1, <1>2, <1>3, <1>4, <1>5

\* A slot that does not lead into sys_io_setup is passed.
LEMMA PageSkipsInv ==
  ASSUME H!HuntInv, H!PageSkips
  PROVE  H!HuntInv'
  <1>0. /\ kernel' = kernel /\ handlers' = handlers /\ located' = located /\ turn' = turn
        /\ insn_end' = insn_end /\ insn_p' = insn_p /\ tgt' = tgt
        /\ slot_p' = H!Wrap(slot_p + H!sizeof_uintptr_t) /\ tries' = tries + 1
        /\ ~H!PageDone(tries) /\ ~H!IsIoSetup(slot_p)
        /\ H!HuntShape /\ hpc = "scan_pg" /\ hpc' = "scan_pg"
    BY DEF H!HuntInv, H!PageSkips
  <1>1. turn \in DOMAIN handlers /\ H!HuntShape'
    BY <1>0 DEF H!HuntShape
  <1>2. ASSUME H!HuntFits
        PROVE  H!InsnWalk' /\ H!PageWalk' /\ \A f \in H!Finds : H!Ahead(f)'
    <2>1. H!InsnWalk /\ H!PageWalk /\ \A f \in H!Finds : H!Ahead(f)
      BY <1>0, <1>2 DEF H!HuntInv
    <2>2. H!InsnWalk'
      BY <1>0, <2>1, HuntIsStable DEF H!InsnWalk
    <2>3. /\ H!max_tries \in Nat /\ tries \in Nat /\ tries <= H!max_tries
          /\ tgt = H!AdrpTarget(insn_p) /\ tgt \in Nat /\ slot_p = tgt + 8 * tries
      BY <1>0, <1>2, <2>1, PageFacts DEF H!PageDone
    <2>4. slot_p' = H!Wrap(tgt' + H!sizeof_uintptr_t * tries')
      <3>1. slot_p + 8 = tgt + 8 * (tries + 1)
        BY <2>3
      <3> QED
        BY <1>0, <3>1 DEF H!sizeof_uintptr_t
    <2>5. H!PageWalk'
      <3>1. tries' \in 0 .. H!max_tries + 1 /\ H!max_tries' = H!max_tries
        BY <1>0, <2>3 DEF H!max_tries, H!sizeof_uintptr_t
      <3> QED
        BY <1>0, <2>1, <2>4, <3>1, HuntIsStable DEF H!PageWalk
    <2>6. ASSUME NEW f \in H!Finds
          PROVE  H!Ahead(f)'
      <3>1. f.turn >= turn /\ (f.turn = turn => f.insn >= insn_p)
        BY <1>0, <2>1 DEF H!Ahead
      <3>2. ASSUME f.turn = turn, f.insn = insn_p PROVE f.slot >= tgt' + 8 * tries'
        <4>1. PICK n \in 0 .. H!max_tries : f.slot = tgt + 8 * n
          BY <1>0, <1>2, <2>3, <3>2, FindFacts
        <4>2. f.slot >= tgt + 8 * tries
          BY <1>0, <2>1, <3>2 DEF H!Ahead, H!sizeof_uintptr_t
        <4>3. f.slot # slot_p
          BY <1>0, <1>2, FindFacts
        <4> QED
          BY <1>0, <2>3, <4>1, <4>2, <4>3
      <3> QED
        BY <1>0, <3>1, <3>2 DEF H!Ahead, H!sizeof_uintptr_t
    <2> QED
      BY <2>2, <2>5, <2>6
  <1>3. H!HuntFindsFirst'
    BY <1>0 DEF H!HuntFindsFirst
  <1> QED
    BY <1>0, <1>1, <1>2, <1>3, HuntIsStable DEF H!HuntInv

\* The slot that ends the hunt is a find, and every other find lies ahead.
LEMMA PageHitInv ==
  ASSUME H!HuntInv, H!PageHit
  PROVE  H!HuntInv'
  <1> DEFINE hit == [turn |-> turn, insn |-> insn_p, slot |-> slot_p]
  <1>0. /\ kernel' = kernel /\ handlers' = handlers /\ located' = located \cup {hit}
        /\ turn' = turn /\ ~H!PageDone(tries) /\ H!IsIoSetup(slot_p)
        /\ H!HuntShape /\ hpc = "scan_pg" /\ hpc' = "return" /\ located = {}
    BY DEF H!HuntInv, H!PageHit, H!HuntShape
  <1>1. turn \in DOMAIN handlers /\ H!HuntShape'
    BY <1>0 DEF H!HuntShape
  <1>2. ASSUME H!HuntFits
        PROVE  located' = {f \in H!Finds : \A g \in H!Finds : H!Before(f, g)}
    <2>1. H!InsnWalk /\ H!PageWalk /\ \A f \in H!Finds : H!Ahead(f)
      BY <1>0, <1>2 DEF H!HuntInv
    <2>2. /\ H!max_tries \in Nat /\ tries \in Nat /\ tries <= H!max_tries
          /\ tgt = H!AdrpTarget(insn_p) /\ tgt \in Nat /\ slot_p = tgt + 8 * tries
      BY <1>0, <1>2, <2>1, PageFacts DEF H!PageDone
    <2>3. turn \in Nat /\ insn_p \in Nat /\ slot_p \in Nat
      <3>1. turn \in Nat
        BY <1>1, HandlerTable DEF H!HuntShape
      <3>2. insn_p \in Nat
        BY <1>0, <1>1, <1>2, <2>1, WalkFacts
      <3>3. slot_p \in Nat
        BY <2>2
      <3> QED
        BY <3>1, <3>2, <3>3
    <2>4. hit \in H!Finds
      <3>1. insn_p \in DOMAIN kernel.adrp /\ insn_p \notin kernel.unreadable
        BY <2>1 DEF H!PageWalk, H!IsAdrp, H!copy_from_kernel_nofault
      <3>2. insn_p \in H!InstructionsOf(handlers[turn])
        <4> DEFINE target == kallsyms_lookup_name(kernel, handlers[turn].sym)
                   depth == H!ScanDepth(handlers[turn], target)
        <4>1. /\ target \in Nat /\ depth \in Nat /\ insn_end = target + depth
              /\ target <= insn_p /\ (insn_p - target) % 4 = 0
          BY <1>0, <1>1, <1>2, <2>1, WalkFacts
        <4>2. target # Null /\ insn_p < insn_end
          BY <2>1, SameLookup DEF H!InsnWalk, H!PageWalk, H!Null, Null
        <4>3. H!InstructionsOf(handlers[turn]) =
                {a \in target .. target + depth - 1 : (a - target) % 4 = 0}
          BY <1>0, <1>1, <4>2, DepthOfHandler, HandlerTable DEF H!HuntShape
        <4> HIDE DEF target, depth
        <4>4. insn_p \in target .. target + depth - 1
          BY <2>3, <4>1, <4>2
        <4> QED
          BY <4>1, <4>3, <4>4
      <3>3. slot_p = H!Wrap(H!AdrpTarget(insn_p) + 8 * tries) /\ tries \in 0 .. PageSize \div 8
        BY <2>1, <2>2 DEF H!PageWalk, H!sizeof_uintptr_t, H!max_tries
      <3>4. slot_p \in DOMAIN kernel.slots
        BY <1>0 DEF H!IsIoSetup
      <3> QED
        BY <1>0, <1>1, <3>1, <3>2, <3>3, <3>4 DEF H!Finds
    <2>5. ASSUME NEW f \in H!Finds
          PROVE  H!Before(hit, f) /\ f.turn \in Nat /\ f.insn \in Int /\ f.slot \in Int
      <3>1. f.turn \in Nat /\ f.insn \in Int /\ f.slot \in Int
        BY <1>0, ImagesAssumption, HandlerTable, WordAssumption
        DEF H!Finds, H!HuntShape, IsMemory, Addr
      <3>2. /\ f.turn >= turn
            /\ f.turn = turn => f.insn >= insn_p
            /\ f.turn = turn /\ f.insn = insn_p => f.slot >= slot_p
        BY <1>0, <2>1, <2>2 DEF H!Ahead, H!sizeof_uintptr_t
      <3> QED
        BY <2>3, <3>1, <3>2 DEF H!Before
    <2>6. ASSUME NEW f \in H!Finds, H!Before(f, hit)
          PROVE  f = hit
      <3>1. f.turn = turn /\ f.insn = insn_p /\ f.slot = slot_p
        BY <2>3, <2>5, <2>6 DEF H!Before
      <3>2. f = [turn |-> f.turn, insn |-> f.insn, slot |-> f.slot]
        BY DEF H!Finds
      <3> QED
        BY <3>1, <3>2
    <2> QED
      BY <1>0, <2>4, <2>5, <2>6
  <1>3. H!HuntFindsFirst'
    BY <1>0, <1>2, HuntIsStable DEF H!HuntFindsFirst, H!Before
  <1> QED
    BY <1>0, <1>1, <1>3 DEF H!HuntInv

\* Every step of hunt_sys_call_table keeps the invariant.
LEMMA HuntNextInv == H!HuntInv /\ [H!HuntNext]_(H!hvars) => H!HuntInv'
  <1> SUFFICES ASSUME H!HuntInv, [H!HuntNext]_(H!hvars) PROVE H!HuntInv'
    OBVIOUS
  <1>1. CASE H!Hunt \/ H!NoHandler \/ H!NoHandlerLeft \/ H!ScanEnds
    BY <1>1, TurnStepsInv
  <1>2. CASE H!EnterHandler
    BY <1>2, EnterHandlerInv
  <1>3. CASE H!ScanSkips \/ H!PageEnds
    BY <1>3, PassInsnInv
  <1>4. CASE H!ScanAdrp
    BY <1>4, ScanAdrpInv
  <1>5. CASE H!PageSkips
    BY <1>5, PageSkipsInv
  <1>6. CASE H!PageHit
    BY <1>6, PageHitInv
  <1>7. CASE UNCHANGED H!hvars
    <2>1. /\ kernel' = kernel /\ handlers' = handlers /\ hpc' = hpc /\ turn' = turn
          /\ insn_p' = insn_p /\ insn_end' = insn_end /\ tgt' = tgt /\ slot_p' = slot_p
          /\ tries' = tries /\ located' = located
          /\ aarch64_insn_adrp_get_offset_fn' = aarch64_insn_adrp_get_offset_fn
      BY <1>7 DEF H!hvars, H!walkVars
    <2>2. H!HuntShape' /\ (H!InsnWalk => H!InsnWalk') /\ (H!PageWalk => H!PageWalk')
      BY <2>1, HuntIsStable DEF H!HuntInv, H!HuntShape, H!InsnWalk, H!PageWalk, H!max_tries
    <2>3. (\A f : H!Ahead(f)' <=> H!Ahead(f)) /\ H!HuntFindsFirst'
      BY <2>1, HuntIsStable DEF H!HuntInv, H!Ahead, H!HuntFindsFirst, H!Before
    <2> QED
      BY <2>1, <2>2, <2>3, HuntIsStable DEF H!HuntInv
  <1> QED
    BY <1>1, <1>2, <1>3, <1>4, <1>5, <1>6, <1>7 DEF H!HuntNext

(***************************************************************************)
(* The whole of lkm_template_init.                                         *)
(***************************************************************************)

\* Both functions are at their beginnings.
LEMMA TemplateInitInv == Init => TemplateInv
  <1> SUFFICES ASSUME Init PROVE TemplateInv
    OBVIOUS
  <1>1. BootInv /\ H!HuntInv
    BY BootInitInv, HuntInitInv DEF Init
  <1>2. RangeInv /\ OrderInv
    BY InitRange DEF Init, BootInit, H!HuntInit, OrderInv
  <1> QED
    BY <1>1, <1>2 DEF TemplateInv

\* Every step of either function keeps it.
LEMMA TemplateNextInv == TemplateInv /\ [Next]_vars => TemplateInv'
  <1> SUFFICES ASSUME TemplateInv, [Next]_vars PROVE TemplateInv'
    OBVIOUS
  <1>1. CASE Bootstrap
    <2>1. BootInv' /\ RangeInv'
      BY <1>1, BootNextInv, RangeNextInv DEF TemplateInv, Bootstrap
    <2>2. kernel' = kernel /\ pc \notin Returned
      BY <1>1 DEF Bootstrap, BootNext, SymbolGet, KpRegister, KpRegisterFails, KpUnregister,
                  StartScan, ScanExhausted, ScanHit, ScanUp, ScanDown, Found, Returned
    <2>3. UNCHANGED H!hvars
      BY <1>1, <2>2 DEF Bootstrap, huntOnly, H!hvars, H!walkVars
    <2>4. H!HuntInv'
      BY <2>3, HuntNextInv DEF TemplateInv
    <2>5. OrderInv'
      BY <1>1, <2>2 DEF Bootstrap, huntOnly, TemplateInv, OrderInv, BootSucceeded, NothingLeftToDo, Returned
    <2> QED
      BY <2>1, <2>4, <2>5 DEF TemplateInv
  <1>2. CASE HuntTable
    <2>1. BootInv' /\ RangeInv'
      BY <1>2, BootNextInv, RangeNextInv DEF TemplateInv, HuntTable
    <2>2. H!HuntInv'
      BY <1>2, HuntNextInv DEF TemplateInv, HuntTable
    <2>3. hpc # "return"
      BY <1>2 DEF HuntTable, H!HuntNext, H!Hunt, H!NoHandler, H!EnterHandler, H!NoHandlerLeft,
                  H!ScanEnds, H!ScanSkips, H!ScanAdrp, H!PageEnds, H!PageSkips, H!PageHit
    <2>4. OrderInv'
      BY <1>2, <2>3 DEF HuntTable, bvars, TemplateInv, OrderInv, BootSucceeded, NothingLeftToDo
    <2> QED
      BY <2>1, <2>2, <2>4 DEF TemplateInv
  <1>3. CASE InitReturns
    <2>1. UNCHANGED bvars /\ UNCHANGED H!hvars
      BY <1>3 DEF InitReturns, huntOnly, bvars, H!hvars, H!walkVars
    <2>2. BootInv' /\ RangeInv' /\ H!HuntInv'
      BY <2>1, BootNextInv, RangeNextInv, HuntNextInv DEF TemplateInv
    <2>3. OrderInv'
      BY <1>3 DEF InitReturns, bvars, huntOnly, TemplateInv, OrderInv, BootSucceeded, NothingLeftToDo
    <2> QED
      BY <2>2, <2>3 DEF TemplateInv
  <1>4. CASE UNCHANGED vars
    <2>1. UNCHANGED bvars /\ UNCHANGED H!hvars
      BY <1>4 DEF vars, huntOnly, bvars, H!hvars, H!walkVars
    <2>2. BootInv' /\ RangeInv' /\ H!HuntInv'
      BY <2>1, BootNextInv, RangeNextInv, HuntNextInv DEF TemplateInv
    <2>3. OrderInv'
      BY <1>4 DEF vars, bvars, huntOnly, TemplateInv, OrderInv, BootSucceeded, NothingLeftToDo
    <2> QED
      BY <2>2, <2>3 DEF TemplateInv
  <1> QED
    BY <1>1, <1>2, <1>3, <1>4 DEF Next

\* The invariant of lkm_template_init holds throughout.
THEOREM TemplateInvariance == Spec => []TemplateInv
  BY TemplateInitInv, TemplateNextInv, PTL DEF Spec

\* What lkm_boostrap guarantees on its own it guarantees when the hunt runs
\* on after it.
THEOREM TemplateBootstrap ==
  Spec => [](/\ BootTypeOK /\ FoundIsEntry /\ ScanComplete
             /\ RangeReported /\ NoNullCall /\ KprobeBalanced)
  <1>1. BootInv /\ RangeInv => ScanComplete /\ RangeReported
    BY InvIsComplete, InvReportsRange
  <1>2. TemplateInv => /\ BootTypeOK /\ FoundIsEntry /\ ScanComplete
                       /\ RangeReported /\ NoNullCall /\ KprobeBalanced
    BY <1>1 DEF TemplateInv, BootInv
  <1> QED
    BY <1>2, TemplateInvariance, PTL

\* Whenever hunt_sys_call_table looks a symbol up, kallsyms_lookup_name_fn
\* holds the entry of kallsyms_lookup_name.
THEOREM HuntIsSafe == Spec => []HuntLookupsAreSafe
  <1>1. TemplateInv => HuntLookupsAreSafe
    BY DEF TemplateInv, BootInv, FoundIsEntry, OrderInv, BootSucceeded, HuntLookupsAreSafe
  <1> QED
    BY <1>1, TemplateInvariance, PTL

\* The hunt reports the first find there is, and none only if there is none,
\* in every kernel whose handlers and tables do not touch the end of memory.
THEOREM HuntIsComplete == Spec => []HuntFindsFirst
  <1>1. TemplateInv => HuntFindsFirst
    BY DEF TemplateInv, H!HuntInv, HuntFindsFirst
  <1> QED
    BY <1>1, TemplateInvariance, PTL

(***************************************************************************)
(* lkm_template_init does no more than LkmLoad allows.                     *)
(***************************************************************************)

\* A slot the hunt accepts holds a pointer into sys_io_setup.
LEMMA HitPointsIntoIoSetup ==
  ASSUME kernel \in Images, NEW a, H!IsIoSetup(a)
  PROVE  a \in DOMAIN kernel.slots /\ Load!PointsIntoIoSetup(a)
  <1>1. PICK text : text = sprint_symbol(kernel, kernel.slots[a])
    OBVIOUS
  <1>2. a \in DOMAIN kernel.slots /\ text.name \in H!NamesIoSetup
    BY <1>1, SameSprint DEF H!IsIoSetup
  <1>3. text.name # ""
    BY <1>2 DEF H!NamesIoSetup
  <1>4. PICK s \in kernel.syms : Covers(s, kernel.slots[a]) /\ s.name = text.name
    BY <1>1, <1>3, NamedIsCovered
  <1> QED
    BY <1>2, <1>4 DEF H!NamesIoSetup, Load!PointsIntoIoSetup, Load!Covers, Covers

\* The steps map to a report, to the return of init, or to nothing.
LEMMA StepImplementsLoad ==
  ASSUME TemplateInv, [Next]_vars
  PROVE  [Load!Report \/ Load!Return]_(Load!loadVars)
  <1> DEFINE report == {f.slot : f \in located}
  <1>1. CASE Bootstrap \/ (HuntTable /\ ~H!PageHit)
    <2>1. kernel' = kernel /\ located' = located /\ init_ret' = init_ret
      BY <1>1 DEF Bootstrap, huntOnly, BootNext, SymbolGet, KpRegister, KpRegisterFails, KpUnregister,
                  StartScan, ScanExhausted, ScanHit, ScanUp, ScanDown, Found,
                  HuntTable, H!HuntNext, H!Hunt, H!NoHandler, H!EnterHandler, H!NoHandlerLeft,
                  H!ScanEnds, H!ScanSkips, H!ScanAdrp, H!PageEnds, H!PageSkips
    <2> QED
      BY <2>1 DEF Load!loadVars
  <1>2. CASE HuntTable /\ H!PageHit
    <2>1. /\ hpc = "scan_pg" /\ kernel' = kernel /\ init_ret' = init_ret /\ H!IsIoSetup(slot_p)
          /\ located' = located \cup {[turn |-> turn, insn |-> insn_p, slot |-> slot_p]}
      BY <1>2 DEF HuntTable, H!PageHit
    <2>2. kernel \in Images /\ located = {}
      BY <2>1 DEF TemplateInv, H!HuntInv, H!HuntShape
    <2>3. init_ret = "running"
      BY <1>2, <2>1 DEF TemplateInv, OrderInv, NothingLeftToDo, HuntTable, BootSucceeded
    <2>4. \E s \in kernel.syms : s.name = "kallsyms_lookup_name"
      BY <1>2 DEF TemplateInv, BootInv, FoundIsEntry, HuntTable, BootSucceeded, KLN
    <2>5. report = {} /\ report' = {slot_p}
      BY <2>1, <2>2
    <2>6. slot_p \in DOMAIN kernel.slots /\ Load!PointsIntoIoSetup(slot_p)
      BY <2>1, <2>2, HitPointsIntoIoSetup
    <2>7. Load!Report
      BY <2>1, <2>3, <2>4, <2>5, <2>6 DEF Load!Report
    <2> QED
      BY <2>7
  <1>3. CASE InitReturns
    <2>1. kernel' = kernel /\ located' = located
      BY <1>3 DEF InitReturns, bvars, huntOnly
    <2> QED
      BY <1>3, <2>1 DEF InitReturns, Load!Return
  <1>4. CASE UNCHANGED vars
    BY <1>4 DEF vars, bvars, huntOnly, Load!loadVars
  <1> QED
    BY <1>1, <1>2, <1>3, <1>4 DEF Next

\* Loading the module reports at most one address, a slot that holds a
\* pointer into sys_io_setup, only in a kernel that has kallsyms_lookup_name,
\* and init returns nothing but -EAGAIN.
THEOREM TemplateImplementsLoad == Spec => Load!LoadSafety
  <1>1. Init => Load!LoadInit
    BY DEF Init, BootInit, H!HuntInit, Load!LoadInit
  <1>2. TemplateInv /\ [Next]_vars => [Load!Report \/ Load!Return]_(Load!loadVars)
    BY StepImplementsLoad
  <1> QED
    BY <1>1, <1>2, TemplateInvariance, PTL DEF Spec, Load!LoadSafety

(***************************************************************************)
(* How far the page walk goes astray.                                      *)
(***************************************************************************)

\* slot_p has come from tgt in whole slots, and has not wrapped.
SlotInv ==
    hpc = "scan_pg" =>
        /\ tgt \in Addr /\ tries \in Nat
        /\ tgt + PageSize < Word /\ tries <= H!max_tries => slot_p = tgt + 8 * tries

\* max_tries slots fill the page.
LEMMA SlotsOfPage == H!max_tries \in Nat /\ 8 * H!max_tries = PageSize
  BY PageSizeAssumption DEF H!max_tries, H!sizeof_uintptr_t

\* The hunt's steps keep it.
LEMMA SlotNext ==
  ASSUME H!HuntShape, SlotInv, H!HuntNext
  PROVE  SlotInv'
  <1> DEFINE m == H!max_tries
  <1>1. m \in Nat /\ 8 * m = PageSize /\ m' = m
    BY SlotsOfPage DEF H!max_tries, H!sizeof_uintptr_t
  <1>2. CASE \/ H!Hunt \/ H!NoHandler \/ H!EnterHandler \/ H!NoHandlerLeft
             \/ H!ScanEnds \/ H!ScanSkips \/ H!PageEnds \/ H!PageHit
    <2>1. hpc' # "scan_pg"
      BY <1>2 DEF H!Hunt, H!NoHandler, H!EnterHandler, H!NoHandlerLeft, H!ScanEnds, H!ScanSkips,
                  H!PageEnds, H!PageHit
    <2> QED
      BY <2>1 DEF SlotInv
  <1>3. CASE H!ScanAdrp
    <2>1. /\ insn_p \in DOMAIN kernel.adrp /\ kernel \in Images
          /\ tgt' = H!AdrpTarget(insn_p) /\ slot_p' = tgt' /\ tries' = 0
      BY <1>3 DEF H!ScanAdrp, H!IsAdrp, H!HuntShape
    <2>2. tgt' \in Addr
      BY <2>1, TargetInAddr
    <2>3. tgt' \in Nat
      BY <2>2, WordAssumption DEF Addr
    <2> QED
      BY <2>1, <2>2, <2>3 DEF SlotInv
  <1>4. CASE H!PageSkips
    <2>1. /\ hpc = "scan_pg" /\ tgt' = tgt /\ tries' = tries + 1
          /\ slot_p' = H!Wrap(slot_p + 8)
      BY <1>4 DEF H!PageSkips, H!sizeof_uintptr_t
    <2>2. tgt \in Nat /\ tries \in Nat /\ Word \in Nat /\ PageSize \in Nat
      BY <2>1, WordAssumption, PageSizeAssumption DEF SlotInv, Addr
    <2> HIDE DEF m
    <2>3. ASSUME tgt + PageSize < Word, tries + 1 <= m PROVE slot_p' = tgt + 8 * (tries + 1)
      <3>1. slot_p = tgt + 8 * tries
        BY <1>1, <2>1, <2>2, <2>3 DEF SlotInv, m
      <3>2. slot_p + 8 = tgt + 8 * (tries + 1)
        BY <2>2, <3>1
      <3>3. tgt + 8 * (tries + 1) \in Addr
        BY <1>1, <2>2, <2>3 DEF Addr
      <3> QED
        BY <2>1, <2>2, <3>2, <3>3, SameWrap, WrapOfAddr
    <2>4. tgt' \in Addr /\ tries' \in Nat
      BY <2>1, <2>2 DEF SlotInv
    <2> QED
      BY <1>1, <2>1, <2>2, <2>3, <2>4 DEF SlotInv, m
  <1> QED
    BY <1>2, <1>3, <1>4 DEF H!HuntNext

\* "tries > max_tries" ends the walk one turn late.  The turns before are in the
\* page and the one too many reads the first slot behind it, whatever has been
\* skipped on the way.
WalkOverruns ==
    hpc = "scan_pg" /\ ~H!PageDone(tries) /\ tgt + PageSize < Word =>
        /\ tries # H!max_tries => slot_p \in tgt .. tgt + PageSize - 8
        /\ tries = H!max_tries => slot_p = tgt + PageSize

\* Where no pointer wraps, the walk reads nothing but slots of its page and, as
\* its last turn, one word that is not in it.
THEOREM PageWalkOverrunsByOne == Spec => []WalkOverruns
  <1>1. Init => SlotInv
    BY DEF Init, H!HuntInit, SlotInv
  <1>2. TemplateInv /\ SlotInv /\ [Next]_vars => SlotInv'
    <2>1. ASSUME TemplateInv, SlotInv, HuntTable PROVE SlotInv'
      BY <2>1, SlotNext DEF TemplateInv, H!HuntInv, HuntTable
    <2>2. ASSUME SlotInv, Bootstrap \/ InitReturns \/ UNCHANGED vars PROVE SlotInv'
      <3>1. hpc' = hpc /\ tgt' = tgt /\ tries' = tries /\ slot_p' = slot_p
        BY <2>2 DEF Bootstrap, InitReturns, vars, huntOnly
      <3> QED
        BY <2>2, <3>1 DEF SlotInv, H!max_tries, H!sizeof_uintptr_t
    <2> QED
      BY <2>1, <2>2 DEF Next
  <1>3. SlotInv => WalkOverruns
    <2> DEFINE m == H!max_tries
    <2> SUFFICES ASSUME SlotInv, hpc = "scan_pg", ~H!PageDone(tries), tgt + PageSize < Word
                 PROVE  /\ tries # m => slot_p \in tgt .. tgt + PageSize - 8
                        /\ tries = m => slot_p = tgt + PageSize
      BY DEF WalkOverruns
    <2>1. m \in Nat /\ 8 * m = PageSize /\ tgt \in Nat /\ tries \in Nat
      BY SlotsOfPage, WordAssumption DEF SlotInv, Addr
    <2>2. tries <= m
      BY <2>1 DEF H!PageDone
    <2>3. slot_p = tgt + 8 * tries
      BY <2>2 DEF SlotInv
    <2> HIDE DEF m
    <2> QED
      BY <2>1, <2>2, <2>3
  <1> QED
    BY <1>1, <1>2, <1>3, TemplateInitInv, TemplateNextInv, PTL DEF Spec

=============================================================================
