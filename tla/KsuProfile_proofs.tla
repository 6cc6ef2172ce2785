------------------------- MODULE KsuProfile_proofs -------------------------
(***************************************************************************)
(* Proofs about KsuProfile, for any number of invocations, any set of      *)
(* commands and any behaviour of the manager app.                          *)
(***************************************************************************)
EXTENDS KsuProfile, TLAPS

\* A process changes its own program counter, copy, uid and message only.
LEMMA CommandFacts ==
  ASSUME TypeOK, NEW p \in Proc
  PROVE  /\ cmd[p] \in Commands /\ cmd[p].uid \in Uids /\ cmd[p].op \in Ops
         /\ cmd[p].key \in Keys \cup {NoKey} /\ cmd[p].one \in BOOLEAN
         /\ cmd[p].num \in Int /\ cmd[p].uid \in Int
  BY CommandsAssumption DEF TypeOK, Uids

\* The answer of GET_APP_PROFILE is a profile.
LEMMA AnswerIsProfile ==
  ASSUME TypeOK, NEW p \in Proc
  PROVE  Answer(p) \in Profile
  BY CommandFacts DEF TypeOK, Answer

\* Changing one field of a profile gives a profile.
LEMMA FieldUpdates ==
  ASSUME NEW prof \in Profile, NEW b \in BOOLEAN, NEW n \in Byte
  PROVE  /\ [prof EXCEPT !.allow_su = b] \in Profile
         /\ [prof EXCEPT !.use_default = b, !.second = n] \in Profile
         /\ [prof EXCEPT !.allow_su = b, !.use_default = b, !.second = n, !.ksu_domain = b] \in Profile
  BY DEF Profile

\* --create makes a profile.
LEMMA NewIsProfile ==
  ASSUME TypeOK, NEW p \in Proc
  PROVE  NewProfile(cmd[p]) \in Profile
  BY CommandFacts DEF NewProfile, Profile, Byte

\* --setumount and --setroot turn a profile into a profile.
LEMMA CopiesAreProfiles ==
  ASSUME TypeOK, NEW p \in Proc, NEW prof \in Profile
  PROVE  /\ WithUmount(prof, cmd[p]) \in Profile
         /\ WithRoot(prof, cmd[p]) \in Profile
  <1>0. 0 \in Byte /\ 1 \in Byte
    BY DEF Byte
  <1>1. WithUmount(prof, cmd[p]) \in Profile
    BY <1>0, FieldUpdates DEF WithUmount
  <1>2. WithRoot(prof, cmd[p]) \in Profile
    BY <1>0, FieldUpdates DEF WithRoot
  <1> QED
    BY <1>1, <1>2

\* The invariant holds before any process has run.
LEMMA InitInv == Init => Inv
  <1> SUFFICES ASSUME Init PROVE Inv
    OBVIOUS
  <1>1. ZeroProfile \in Profile
    BY DEF ZeroProfile, Profile, Byte
  <1>2. TypeOK
    BY <1>1 DEF Init, TypeOK, PCs, NoManager
  <1>3. \A p \in Proc : WriterInv(p)
    BY DEF Init, WriterInv, Unread
  <1> QED
    BY <1>2, <1>3 DEF Inv

\* Messages and labels used by the steps are typed.
LEMMA ExitTyped ==
  ASSUME TypeOK, NEW p \in Proc, NEW m \in Errors \cup Successes \cup {None}, Exit(p, m)
  PROVE  /\ pc' \in [Proc -> PCs] /\ says' \in [Proc -> Errors \cup Successes \cup {None}]
         /\ pc'[p] = "exit" /\ \A q \in Proc \ {p} : pc'[q] = pc[q]
  BY DEF TypeOK, Exit, PCs

\* The same for a step that goes on.
LEMMA GotoTyped ==
  ASSUME TypeOK, NEW p \in Proc, NEW l \in PCs, Goto(p, l)
  PROVE  /\ pc' \in [Proc -> PCs] /\ says' \in [Proc -> Errors \cup Successes \cup {None}]
         /\ pc'[p] = l /\ \A q \in Proc \ {p} : pc'[q] = pc[q]
  BY DEF TypeOK, Goto

\* What every step of a process leaves alone.
Frame(p) ==
    /\ ksu' = ksu /\ manager' = manager /\ cmd' = cmd /\ pruned' = pruned
    /\ \A q \in Proc \ {p} : pc'[q] = pc[q] /\ profile'[q] = profile[q]
    /\ \A u \in Uids : store[u] # None => store'[u] # None

\* A step that ends the process, or only moves it on, before it has a copy.
LEMMA EarlyStep ==
  ASSUME Inv, NEW p \in Proc,
         OpenFails(p) \/ Open(p) \/ GetInfoFails(p) \/ Dispatch(p) \/ GetManagerFails(p)
         \/ GetProfileFails(p) \/ SetUmountRefused(p) \/ SetProfileFails(p)
  PROVE  TypeOK' /\ WriterInv(p)' /\ Frame(p)
  <1>0. TypeOK /\ WriterInv(p)
    BY DEF Inv
  <1>1. UNCHANGED <<ksu, manager, store, pruned, cmd, euid, profile>>
    BY DEF OpenFails, Open, GetInfoFails, Dispatch, GetManagerFails, GetProfileFails,
           SetUmountRefused, SetProfileFails, shared
  <1>2. CASE \E m \in Errors \cup Successes : Exit(p, m)
    <2>1. PICK m \in Errors \cup Successes : Exit(p, m)
      BY <1>2
    <2>2. TypeOK' /\ pc'[p] = "exit" /\ \A q \in Proc \ {p} : pc'[q] = pc[q]
      BY <1>0, <1>1, <2>1, ExitTyped DEF TypeOK
    <2> QED
      BY <1>1, <2>2 DEF WriterInv, Frame, Unread
  <1>3. CASE Open(p)
    <2>1. pc[p] = "start" /\ Goto(p, "get_info")
      BY <1>3 DEF Open
    <2>2. TypeOK' /\ pc'[p] = "get_info" /\ \A q \in Proc \ {p} : pc'[q] = pc[q]
      BY <1>0, <1>1, <2>1, GotoTyped DEF TypeOK, PCs
    <2> QED
      BY <1>0, <1>1, <2>1, <2>2 DEF WriterInv, Frame, Unread
  <1>4. CASE Dispatch(p) /\ Goto(p, "get_manager")
    <2>1. pc[p] = "get_info" /\ Goto(p, "get_manager")
      BY <1>4 DEF Dispatch
    <2>2. TypeOK' /\ pc'[p] = "get_manager" /\ \A q \in Proc \ {p} : pc'[q] = pc[q]
      BY <1>0, <1>1, <2>1, GotoTyped DEF TypeOK, PCs
    <2> QED
      BY <1>0, <1>1, <2>1, <2>2 DEF WriterInv, Frame, Unread
  <1> QED
    BY <1>2, <1>3, <1>4 DEF OpenFails, GetInfoFails, Dispatch, GetManagerFails, GetProfileFails,
           SetUmountRefused, SetProfileFails, Errors, Successes

\* The step that takes the manager's uid; --create has its copy after it.
LEMMA BecomeManagerStep ==
  ASSUME Inv, NEW p \in Proc, BecomeManager(p)
  PROVE  TypeOK' /\ WriterInv(p)' /\ Frame(p)
  <1>0. TypeOK /\ WriterInv(p)
    BY DEF Inv
  <1>1. /\ UNCHANGED <<ksu, manager, store, pruned, cmd>>
        /\ pc[p] = "get_manager" /\ GoodUid(cmd[p]) /\ manager \in Managers
        /\ euid' = [euid EXCEPT ![p] = manager]
    BY <1>0 DEF BecomeManager, shared, TypeOK
  <1>2. CASE cmd[p].op = "create"
    <2>1. Goto(p, "set_profile") /\ profile' = [profile EXCEPT ![p] = NewProfile(cmd[p])]
      BY <1>2 DEF BecomeManager
    <2>2. NewProfile(cmd[p]) \in Profile
      BY <1>0, NewIsProfile
    <2>3. TypeOK' /\ pc'[p] = "set_profile" /\ \A q \in Proc \ {p} : pc'[q] = pc[q]
      BY <1>0, <1>1, <2>1, <2>2, GotoTyped DEF TypeOK, PCs
    <2>4. profile'[p] = NewProfile(cmd[p]) /\ \A q \in Proc \ {p} : profile'[q] = profile[q]
      BY <1>0, <2>1 DEF TypeOK
    <2>5. ~profile'[p].allow_su
      BY <2>4 DEF NewProfile
    <2>6. GoodUid(cmd'[p])
      BY <1>1
    <2> QED
      BY <1>1, <1>2, <2>3, <2>4, <2>5, <2>6 DEF WriterInv, Frame, Unread, GoodUid
  <1>3. CASE cmd[p].op # "create"
    <2>1. Goto(p, "get_profile") /\ profile' = profile
      BY <1>3 DEF BecomeManager
    <2>2. TypeOK' /\ pc'[p] = "get_profile" /\ \A q \in Proc \ {p} : pc'[q] = pc[q]
      BY <1>0, <1>1, <2>1, GotoTyped DEF TypeOK, PCs
    <2> QED
      BY <1>0, <1>1, <2>1, <2>2 DEF WriterInv, Frame, Unread, GoodUid
  <1> QED
    BY <1>2, <1>3

\* The steps that read a profile; the copy of --setumount never has root, the
\* copy of --setroot has it if and only if it was asked for.
LEMMA ReadStep ==
  ASSUME Inv, NEW p \in Proc, GetUidInfo(p) \/ SetUmount(p) \/ SetRoot(p)
  PROVE  TypeOK' /\ WriterInv(p)' /\ Frame(p)
  <1>0. TypeOK /\ WriterInv(p)
    BY DEF Inv
  <1>1. /\ UNCHANGED <<ksu, manager, store, pruned, cmd, euid>>
        /\ pc[p] = "get_profile" /\ HasKey(Answer(p))
    BY DEF GetUidInfo, SetUmount, SetRoot, Read, shared
  <1>2. Answer(p) \in Profile /\ GoodUid(cmd[p])
    BY <1>0, <1>1, AnswerIsProfile DEF WriterInv
  <1>3. store[cmd[p].uid] # None
    BY <1>0, <1>1 DEF WriterInv, Unread, HasKey, Answer, ZeroProfile
  <1>4. CASE GetUidInfo(p)
    <2>1. Exit(p, "info") /\ profile' = [profile EXCEPT ![p] = Answer(p)]
      BY <1>4 DEF GetUidInfo
    <2>2. TypeOK' /\ pc'[p] = "exit" /\ \A q \in Proc \ {p} : pc'[q] = pc[q]
      BY <1>0, <1>1, <1>2, <2>1, ExitTyped DEF TypeOK, Successes
    <2>3. \A q \in Proc \ {p} : profile'[q] = profile[q]
      BY <1>0, <2>1 DEF TypeOK
    <2> QED
      BY <1>1, <2>2, <2>3 DEF WriterInv, Frame, Unread
  <1>5. CASE SetUmount(p)
    <2> DEFINE copy == WithUmount(Answer(p), cmd[p])
    <2>1. Goto(p, "set_profile") /\ profile' = [profile EXCEPT ![p] = copy]
      BY <1>5 DEF SetUmount
    <2>2. copy \in Profile
      BY <1>0, <1>2, CopiesAreProfiles
    <2>3. copy.allow_su = Answer(p).allow_su
      BY <1>2 DEF WithUmount, Profile
    <2>4. ~copy.allow_su /\ cmd[p].op = "setumount"
      BY <1>5, <2>3 DEF SetUmount, MayUmount
    <2> HIDE DEF copy
    <2>5. TypeOK' /\ pc'[p] = "set_profile" /\ \A q \in Proc \ {p} : pc'[q] = pc[q]
      BY <1>0, <1>1, <2>1, <2>2, GotoTyped DEF TypeOK, PCs
    <2>6. profile'[p] = copy /\ \A q \in Proc \ {p} : profile'[q] = profile[q]
      BY <1>0, <2>1 DEF TypeOK
    <2> QED
      BY <1>1, <1>2, <1>3, <2>4, <2>5, <2>6 DEF WriterInv, Frame, Unread, GoodUid
  <1>6. CASE SetRoot(p)
    <2> DEFINE copy == WithRoot(Answer(p), cmd[p])
    <2>1. Goto(p, "set_profile") /\ profile' = [profile EXCEPT ![p] = copy] /\ cmd[p].op = "setroot"
      BY <1>6 DEF SetRoot
    <2>2. copy \in Profile
      BY <1>0, <1>2, CopiesAreProfiles
    <2>3. copy.allow_su =>
            cmd[p].one /\ copy.use_default /\ copy.second = 0 /\ copy.ksu_domain
      BY <1>2 DEF WithRoot, Profile
    <2> HIDE DEF copy
    <2>5. TypeOK' /\ pc'[p] = "set_profile" /\ \A q \in Proc \ {p} : pc'[q] = pc[q]
      BY <1>0, <1>1, <2>1, <2>2, GotoTyped DEF TypeOK, PCs
    <2>6. profile'[p] = copy /\ \A q \in Proc \ {p} : profile'[q] = profile[q]
      BY <1>0, <2>1 DEF TypeOK
    <2> QED
      BY <1>1, <1>2, <1>3, <2>1, <2>3, <2>5, <2>6 DEF WriterInv, Frame, Unread, GoodUid
  <1> QED
    BY <1>4, <1>5, <1>6

\* The write.
LEMMA WriteStep ==
  ASSUME Inv, NEW p \in Proc, SetProfile(p)
  PROVE  TypeOK' /\ WriterInv(p)' /\ Frame(p)
  <1>0. TypeOK /\ WriterInv(p)
    BY DEF Inv
  <1>1. /\ UNCHANGED <<ksu, manager, pruned, cmd, euid, profile>>
        /\ store' = [store EXCEPT ![cmd[p].uid] = profile[p]]
        /\ pc[p] = "set_profile" /\ Exit(p, SuccessOf(cmd[p]))
    BY DEF SetProfile
  <1>2. SuccessOf(cmd[p]) \in Successes
    BY <1>0, <1>1 DEF WriterInv, SuccessOf, Successes
  <1>3. pc'[p] = "exit" /\ \A q \in Proc \ {p} : pc'[q] = pc[q]
    BY <1>0, <1>1, <1>2, ExitTyped
  <1>4. profile[p] \in Profile /\ profile[p] # None /\ cmd[p].uid \in Uids
    BY <1>0, NoneAssumption, CommandFacts DEF TypeOK
  <1>5. TypeOK'
    BY <1>0, <1>1, <1>2, <1>4, ExitTyped DEF TypeOK
  <1>6. \A u \in Uids : store[u] # None => store'[u] # None
    BY <1>0, <1>1, <1>4 DEF TypeOK
  <1> QED
    BY <1>1, <1>3, <1>5, <1>6 DEF WriterInv, Frame, Unread

\* Every step of a process keeps the invariant.
LEMMA StepInv ==
  ASSUME Inv, NEW p \in Proc, Step(p)
  PROVE  Inv'
  <1>1. TypeOK' /\ WriterInv(p)' /\ Frame(p)
    BY EarlyStep, BecomeManagerStep, ReadStep, WriteStep DEF Step
  <1>2. ASSUME NEW q \in Proc \ {p} PROVE WriterInv(q)'
    <2>1. TypeOK /\ WriterInv(q) /\ cmd[q].uid \in Uids
      BY CommandFacts DEF Inv
    <2> QED
      BY <1>1, <2>1 DEF Frame, WriterInv, GoodUid
  <1> QED
    BY <1>1, <1>2 DEF Inv

\* So does everything the rest of the phone does: a profile that goes while a
\* process is about to write it is marked as pruned.
LEMMA EnvironmentInv ==
  ASSUME Inv, Environment
  PROVE  Inv'
  <1>0. TypeOK
    BY DEF Inv
  <1>1. UNCHANGED <<ksu, cmd, pc, euid, profile, says>>
    BY DEF Environment, ManagerSets, ManagerMoves, AppUninstalled
  <1>2. /\ manager' \in Managers \cup {NoManager} /\ store' \in [Uids -> Profile \cup {None}]
        /\ pruned' \in [Proc -> BOOLEAN]
    <2>1. CASE \E u \in Uids, prof \in ManagerProfiles : ManagerSets(u, prof)
      BY <1>0, <2>1, ManagerProfilesAssumption DEF ManagerSets, TypeOK
    <2>2. CASE ManagerMoves
      BY <1>0, <2>2 DEF ManagerMoves, TypeOK
    <2>3. CASE \E u \in Uids : AppUninstalled(u)
      BY <1>0, <2>3 DEF AppUninstalled, TypeOK
    <2> QED
      BY <2>1, <2>2, <2>3 DEF Environment
  <1>3. TypeOK'
    BY <1>0, <1>1, <1>2 DEF TypeOK
  <1>4. ASSUME NEW q \in Proc, pc[q] = "set_profile"
        PROVE  /\ pruned[q] => pruned'[q]
               /\ store[cmd[q].uid] # None => store'[cmd[q].uid] # None \/ pruned'[q]
    <2>0. cmd[q].uid \in Uids
      BY <1>0, CommandFacts
    <2>1. CASE \E u \in Uids, prof \in ManagerProfiles : ManagerSets(u, prof)
      BY <1>0, <2>0, <2>1, ManagerProfilesAssumption, NoneAssumption DEF ManagerSets, TypeOK
    <2>2. CASE ManagerMoves
      BY <2>2 DEF ManagerMoves
    <2>3. CASE \E u \in Uids : AppUninstalled(u)
      <3>1. PICK u \in Uids : AppUninstalled(u)
        BY <2>3
      <3>2. /\ store' = [store EXCEPT ![u] = None]
            /\ pruned'[q] = (pruned[q] \/ cmd[q].uid = u)
        BY <1>4, <3>1 DEF AppUninstalled
      <3>3. cmd[q].uid # u => store'[cmd[q].uid] = store[cmd[q].uid]
        BY <1>0, <2>0, <3>2 DEF TypeOK
      <3>4. CASE cmd[q].uid = u
        BY <3>2, <3>4
      <3>5. CASE cmd[q].uid # u
        BY <3>2, <3>3, <3>5
      <3> QED
        BY <3>4, <3>5
    <2> QED
      BY <2>1, <2>2, <2>3 DEF Environment
  <1>5. ASSUME NEW q \in Proc PROVE WriterInv(q)'
    <2>1. WriterInv(q)
      BY DEF Inv
    <2> QED
      BY <1>1, <1>4, <2>1 DEF WriterInv, GoodUid
  <1> QED
    BY <1>3, <1>5 DEF Inv

\* The invariant is inductive.
LEMMA NextInv == Inv /\ [Next]_vars => Inv'
  <1> SUFFICES ASSUME Inv, [Next]_vars PROVE Inv'
    OBVIOUS
  <1>1. CASE \E p \in Proc : Step(p)
    BY <1>1, StepInv
  <1>2. CASE Environment
    BY <1>2, EnvironmentInv
  <1>3. CASE UNCHANGED vars
    BY <1>3 DEF Inv, vars, TypeOK, WriterInv, GoodUid
  <1> QED
    BY <1>1, <1>2, <1>3 DEF Next

\* The invariant holds throughout.
THEOREM Invariance == Spec => []Inv
  BY InitInv, NextInv, PTL DEF Spec

\* Type correctness of the tool and of the kernel's store.
THEOREM TypeCorrect == Spec => []TypeOK
  <1>1. Inv => TypeOK
    BY DEF Inv
  <1> QED
    BY <1>1, Invariance, PTL

\* A step of a process that changes the store is its write, of its own copy.
LEMMA StoreChangesByWrite ==
  ASSUME Inv, NEW p \in Proc, Step(p), NEW u \in Uids, store'[u] # store[u]
  PROVE  /\ pc[p] = "set_profile" /\ u = cmd[p].uid /\ store'[u] = profile[p]
         /\ profile[p] \in Profile
  <1>1. SetProfile(p)
    BY DEF Step, OpenFails, Open, GetInfoFails, Dispatch, GetManagerFails, BecomeManager,
           GetProfileFails, GetUidInfo, SetUmountRefused, SetUmount, SetRoot, SetProfileFails, shared
  <1> QED
    BY <1>1 DEF SetProfile, Inv, TypeOK

\* No interleaving lets a stale copy turn root on: only a --setroot 1 does.
THEOREM RootByRequest == Spec => RootOnlyByRequest
  <1>1. Inv /\ [Next]_vars =>
          [\A p \in Proc, u \in Uids :
              Step(p) /\ ~IsSu(store[u]) /\ IsSu(store'[u])
                  => cmd[p].op = "setroot" /\ cmd[p].one /\ cmd[p].uid = u]_vars
    <2> SUFFICES ASSUME Inv, NEW p \in Proc, NEW u \in Uids,
                        Step(p), ~IsSu(store[u]), IsSu(store'[u])
                 PROVE  cmd[p].op = "setroot" /\ cmd[p].one /\ cmd[p].uid = u
      OBVIOUS
    <2>1. store'[u] # store[u]
      OBVIOUS
    <2>2. pc[p] = "set_profile" /\ u = cmd[p].uid /\ store'[u] = profile[p]
      BY <2>1, StoreChangesByWrite
    <2> QED
      BY <2>2 DEF IsSu, Inv, WriterInv
  <1> QED
    BY <1>1, Invariance, PTL DEF Spec, RootOnlyByRequest

\* Root is granted with the default profile, nothing of the old union in it.
THEOREM GrantIsDefault == Spec => GrantIsDefaultProfile
  <1>1. Inv /\ [Next]_vars =>
          [\A p \in Proc, u \in Uids :
              Step(p) /\ ~IsSu(store[u]) /\ IsSu(store'[u])
                  => store'[u].use_default /\ store'[u].second = 0 /\ store'[u].ksu_domain]_vars
    <2> SUFFICES ASSUME Inv, NEW p \in Proc, NEW u \in Uids,
                        Step(p), ~IsSu(store[u]), IsSu(store'[u])
                 PROVE  store'[u].use_default /\ store'[u].second = 0 /\ store'[u].ksu_domain
      OBVIOUS
    <2>1. store'[u] # store[u]
      OBVIOUS
    <2>2. pc[p] = "set_profile" /\ u = cmd[p].uid /\ store'[u] = profile[p]
      BY <2>1, StoreChangesByWrite
    <2> QED
      BY <2>2 DEF IsSu, Inv, WriterInv
  <1> QED
    BY <1>1, Invariance, PTL DEF Spec, GrantIsDefaultProfile

\* --setumount and --setroot make a profile where there is none only if they
\* have read one there that was pruned before they wrote it back.
THEOREM UpdatesKeep == Spec => UpdatesNeedAProfile
  <1>1. Inv /\ [Next]_vars =>
          [\A p \in Proc, u \in Uids :
              Step(p) /\ store[u] = None /\ store'[u] # None
                  => cmd[p].op = "create" \/ pruned[p]]_vars
    <2> SUFFICES ASSUME Inv, NEW p \in Proc, NEW u \in Uids,
                        Step(p), store[u] = None, store'[u] # None
                 PROVE  cmd[p].op = "create" \/ pruned[p]
      OBVIOUS
    <2>1. pc[p] = "set_profile" /\ u = cmd[p].uid
      BY StoreChangesByWrite
    <2> QED
      BY <2>1 DEF Inv, WriterInv
  <1> QED
    BY <1>1, Invariance, PTL DEF Spec, UpdatesNeedAProfile

\* No command reaches a uid below 10000.
THEOREM SystemUidsSafe == Spec => SystemUidsUntouched
  <1>1. Inv /\ [Next]_vars =>
          [\A p \in Proc, u \in Uids : Step(p) /\ u < 10000 => store'[u] = store[u]]_vars
    <2> SUFFICES ASSUME Inv, NEW p \in Proc, NEW u \in Uids,
                        Step(p), u < 10000, store'[u] # store[u]
                 PROVE  FALSE
      OBVIOUS
    <2>1. pc[p] = "set_profile" /\ u = cmd[p].uid
      BY StoreChangesByWrite
    <2>2. cmd[p].uid >= 10000 /\ cmd[p].uid \in Int
      BY <2>1, CommandFacts DEF Inv, WriterInv, GoodUid
    <2> QED
      BY <2>1, <2>2
  <1> QED
    BY <1>1, Invariance, PTL DEF Spec, SystemUidsUntouched

(***************************************************************************)
(* The read and the write of one command, when nobody comes in between.    *)
(***************************************************************************)

\* What a command makes of the profile it has read.
Updated(prof, c) ==
    CASE c.op = "setumount" -> WithUmount(prof, c)
      [] c.op = "create" -> NewProfile(c)
      [] c.op = "setroot" -> WithRoot(prof, c)

\* How a process comes to its write: with the update of what the store holds at
\* that moment, and past the test for an SU app.
LEMMA ReachesWrite ==
  ASSUME Inv, [Next]_vars, NEW p \in Proc, pc[p] # "set_profile", pc'[p] = "set_profile"
  PROVE  /\ cmd' = cmd /\ store' = store
         /\ profile'[p] = Updated(store[cmd[p].uid], cmd[p])
         /\ cmd[p].op = "setumount" => ~IsSu(store[cmd[p].uid])
  <1>1. PICK q \in Proc : Step(q)
    BY DEF Next, Environment, ManagerSets, ManagerMoves, AppUninstalled, vars
  <1>2. q = p
    BY <1>1, EarlyStep, BecomeManagerStep, ReadStep, WriteStep DEF Step, Frame
  <1>3. TypeOK /\ WriterInv(p)
    BY DEF Inv
  <1>4. BecomeManager(p) \/ SetUmount(p) \/ SetRoot(p)
    <2>1. ASSUME OpenFails(p) \/ GetInfoFails(p) \/ Dispatch(p) \/ GetManagerFails(p) \/ Open(p)
                 \/ GetProfileFails(p) \/ GetUidInfo(p) \/ SetUmountRefused(p)
                 \/ SetProfile(p) \/ SetProfileFails(p)
          PROVE  pc' = [pc EXCEPT ![p] = "exit"] \/ pc' = [pc EXCEPT ![p] = "get_info"]
                 \/ pc' = [pc EXCEPT ![p] = "get_manager"]
      BY <2>1 DEF OpenFails, Open, GetInfoFails, Dispatch, GetManagerFails, GetProfileFails,
                  GetUidInfo, SetUmountRefused, SetProfile, SetProfileFails, Exit, Goto
    <2>2. pc \in [Proc -> PCs]
      BY <1>3 DEF TypeOK
    <2> QED
      BY <1>1, <1>2, <2>1, <2>2 DEF Step
  <1>5. CASE BecomeManager(p)
    <2>1. /\ cmd[p].op = "create" /\ cmd' = cmd /\ store' = store
          /\ profile' = [profile EXCEPT ![p] = NewProfile(cmd[p])]
      <3>1. cmd' = cmd /\ store' = store
        BY <1>5 DEF BecomeManager, shared
      <3>2. cmd[p].op = "create"
        BY <1>3, <1>5 DEF BecomeManager, Goto, TypeOK
      <3> QED
        BY <1>5, <3>1, <3>2 DEF BecomeManager
    <2> QED
      BY <1>3, <2>1 DEF TypeOK, Updated
  <1>6. CASE SetUmount(p) \/ SetRoot(p)
    <2>1. cmd' = cmd /\ store' = store /\ pc[p] = "get_profile" /\ HasKey(Answer(p))
      BY <1>6 DEF SetUmount, SetRoot, Read, shared
    <2>2. store[cmd[p].uid] # None
      BY <1>3, <2>1 DEF WriterInv, Unread, HasKey, Answer, ZeroProfile
    <2>3. Answer(p) = store[cmd[p].uid]
      BY <2>2 DEF Answer
    <2>4. CASE SetUmount(p)
      <3>1. /\ cmd[p].op = "setumount" /\ MayUmount(Answer(p))
            /\ profile' = [profile EXCEPT ![p] = WithUmount(Answer(p), cmd[p])]
        BY <2>4 DEF SetUmount
      <3>2. profile'[p] = WithUmount(Answer(p), cmd[p])
        BY <1>3, <3>1 DEF TypeOK
      <3> QED
        BY <2>1, <2>3, <3>1, <3>2 DEF Updated, MayUmount, IsSu
    <2>5. CASE SetRoot(p)
      <3>1. /\ cmd[p].op = "setroot"
            /\ profile' = [profile EXCEPT ![p] = WithRoot(Answer(p), cmd[p])]
        BY <2>5 DEF SetRoot
      <3>2. profile'[p] = WithRoot(Answer(p), cmd[p])
        BY <1>3, <3>1 DEF TypeOK
      <3> QED
        BY <2>1, <2>3, <3>1, <3>2 DEF Updated
    <2> QED
      BY <1>6, <2>4, <2>5
  <1> QED
    BY <1>4, <1>5, <1>6

\* Until it writes, a process keeps its copy and its command line.
LEMMA WaitsToWrite ==
  ASSUME Inv, [Next]_vars, NEW p \in Proc, pc[p] = "set_profile", pc'[p] = "set_profile"
  PROVE  cmd' = cmd /\ profile'[p] = profile[p]
  <1>1. ASSUME NEW q \in Proc, Step(q) PROVE cmd' = cmd /\ profile'[p] = profile[p]
    <2>1. Frame(q)
      BY <1>1, EarlyStep, BecomeManagerStep, ReadStep, WriteStep DEF Step
    <2>2. q # p
      BY <1>1 DEF Step, OpenFails, Open, GetInfoFails, Dispatch, GetManagerFails, BecomeManager,
                  GetProfileFails, GetUidInfo, SetUmountRefused, SetUmount, SetRoot, SetProfile,
                  SetProfileFails, Read, Exit, Inv, TypeOK
    <2> QED
      BY <2>1, <2>2 DEF Frame
  <1>2. ASSUME Environment \/ UNCHANGED vars PROVE cmd' = cmd /\ profile'[p] = profile[p]
    BY <1>2 DEF Environment, ManagerSets, ManagerMoves, AppUninstalled, vars
  <1> QED
    BY <1>1, <1>2 DEF Next

\* Nobody, neither the manager app nor another invocation, makes an SU app of
\* the one a --setumount is about to write.
NoRootInBetween ==
    \A p \in Proc :
        /\ pc[p] = "set_profile" /\ pc'[p] = "set_profile" /\ cmd[p].op = "setumount"
        /\ ~IsSu(store[cmd[p].uid])
        => ~IsSu(store'[cmd[p].uid])

TestStillHolds ==
    \A p \in Proc :
        pc[p] = "set_profile" /\ cmd[p].op = "setumount" => ~IsSu(store[cmd[p].uid])

\* "umount for SU app is nono" is kept by every run in which the app is not made
\* one between the test and the write.
THEOREM UmountSparesUnlessRooted == Spec /\ [][NoRootInBetween]_vars => UmountSparesSuApps
  <1>1. Init => TestStillHolds
    BY DEF Init, TestStillHolds
  <1>2. Inv /\ TestStillHolds /\ [Next]_vars /\ [NoRootInBetween]_vars => TestStillHolds'
    <2> SUFFICES ASSUME Inv, TestStillHolds, [Next]_vars, [NoRootInBetween]_vars,
                        NEW p \in Proc, pc'[p] = "set_profile", cmd'[p].op = "setumount"
                 PROVE  ~IsSu(store'[cmd'[p].uid])
      BY DEF TestStillHolds
    <2>1. CASE pc[p] = "set_profile"
      <3>1. cmd' = cmd
        BY <2>1, WaitsToWrite
      <3>2. ~IsSu(store[cmd[p].uid])
        BY <2>1, <3>1 DEF TestStillHolds
      <3>3. CASE UNCHANGED vars
        BY <3>1, <3>2, <3>3 DEF vars
      <3>4. CASE NoRootInBetween
        BY <2>1, <3>1, <3>2, <3>4 DEF NoRootInBetween
      <3> QED
        BY <3>3, <3>4
    <2>2. CASE pc[p] # "set_profile"
      <3>1. /\ cmd' = cmd /\ store' = store
            /\ cmd[p].op = "setumount" => ~IsSu(store[cmd[p].uid])
        BY <2>2, ReachesWrite
      <3> QED
        BY <3>1
    <2> QED
      BY <2>1, <2>2
  <1>3. TestStillHolds =>
          [\A p \in Proc :
              SetProfile(p) /\ cmd[p].op = "setumount" => ~IsSu(store[cmd[p].uid])]_vars
    BY DEF TestStillHolds, SetProfile
  <1> QED
    BY <1>1, <1>2, <1>3, Invariance, PTL DEF Spec, UmountSparesSuApps

\* The profile a process has read stays as it is until that process writes;
\* --create has read none.
Undisturbed ==
    \A p \in Proc :
        pc[p] = "set_profile" /\ pc'[p] = "set_profile" /\ cmd[p].op # "create"
            => store'[cmd[p].uid] = store[cmd[p].uid]

CopyIsFresh ==
    \A p \in Proc :
        pc[p] = "set_profile" => profile[p] = Updated(store[cmd[p].uid], cmd[p])

\* In such a run every write of the tool is a single update of what is stored:
\* the fields the command does not name keep the value they have then, and no
\* other invocation's change is lost.
UpdatesInPlace ==
    \A p \in Proc :
        SetProfile(p) =>
            store' = [store EXCEPT ![cmd[p].uid] = Updated(store[cmd[p].uid], cmd[p])]

THEOREM UndisturbedUpdatesInPlace == Spec /\ [][Undisturbed]_vars => [][UpdatesInPlace]_vars
  <1>1. Init => CopyIsFresh
    BY DEF Init, CopyIsFresh
  <1>2. Inv /\ CopyIsFresh /\ [Next]_vars /\ [Undisturbed]_vars => CopyIsFresh'
    <2> SUFFICES ASSUME Inv, CopyIsFresh, [Next]_vars, [Undisturbed]_vars,
                        NEW p \in Proc, pc'[p] = "set_profile"
                 PROVE  profile'[p] = Updated(store'[cmd'[p].uid], cmd'[p])
      BY DEF CopyIsFresh, Updated, WithUmount, WithRoot, NewProfile
    <2>1. CASE pc[p] = "set_profile"
      <3>1. cmd' = cmd /\ profile'[p] = profile[p]
        BY <2>1, WaitsToWrite
      <3>2. profile[p] = Updated(store[cmd[p].uid], cmd[p])
        BY <2>1 DEF CopyIsFresh
      <3>3. cmd[p].op # "create" => store'[cmd[p].uid] = store[cmd[p].uid]
        BY <2>1 DEF Undisturbed, vars
      <3>4. CASE cmd[p].op = "create"
        BY <3>1, <3>2, <3>4 DEF Updated
      <3>5. CASE cmd[p].op # "create"
        BY <3>1, <3>2, <3>3, <3>5
      <3> QED
        BY <3>4, <3>5
    <2>2. CASE pc[p] # "set_profile"
      <3>1. cmd' = cmd /\ store' = store /\ profile'[p] = Updated(store[cmd[p].uid], cmd[p])
        BY <2>2, ReachesWrite
      <3> QED
        BY <3>1
    <2> QED
      BY <2>1, <2>2
  <1>3. CopyIsFresh => [UpdatesInPlace]_vars
    BY DEF CopyIsFresh, UpdatesInPlace, SetProfile
  <1> QED
    BY <1>1, <1>2, <1>3, Invariance, PTL DEF Spec

(***************************************************************************)
(* How long an invocation can take.                                        *)
(***************************************************************************)

\* Steps an invocation has left at most.
StepsLeft(label) ==
    CASE label = "start" -> 5
      [] label = "get_info" -> 4
      [] label = "get_manager" -> 3
      [] label = "get_profile" -> 2
      [] label = "set_profile" -> 1
      [] label = "exit" -> 0

\* The labels a step can go to.
After(label) ==
    CASE label = "start" -> {"get_info", "exit"}
      [] label = "get_info" -> {"get_manager", "exit"}
      [] label = "get_manager" -> {"get_profile", "set_profile", "exit"}
      [] label = "get_profile" -> {"set_profile", "exit"}
      [] label = "set_profile" -> {"exit"}

\* The tool has no loop: it never goes back.
LEMMA StepGoesOn ==
  ASSUME Inv, NEW p \in Proc, Step(p)
  PROVE  /\ pc[p] \in PCs \ {"exit"} /\ pc'[p] \in After(pc[p])
         /\ \A q \in Proc \ {p} : pc'[q] = pc[q]
  <1>1. pc \in [Proc -> PCs]
    BY DEF Inv, TypeOK
  <1>2. PICK label : pc' = [pc EXCEPT ![p] = label]
    BY DEF Step, OpenFails, Open, GetInfoFails, Dispatch, GetManagerFails, BecomeManager,
           GetProfileFails, GetUidInfo, SetUmountRefused, SetUmount, SetRoot, SetProfile,
           SetProfileFails, Exit, Goto
  <1>3. pc'[p] = label /\ \A q \in Proc \ {p} : pc'[q] = pc[q]
    BY <1>1, <1>2
  <1>4. /\ pc[p] # "exit"
        /\ pc[p] \in PCs
        /\ pc[p] = "start" => label \in {"get_info", "exit"}
        /\ pc[p] = "get_info" => label \in {"get_manager", "exit"}
        /\ pc[p] = "get_manager" => label \in {"get_profile", "set_profile", "exit"}
        /\ pc[p] = "get_profile" => label \in {"set_profile", "exit"}
        /\ pc[p] = "set_profile" => label \in {"exit"}
    <2>1. pc[p] \in PCs
      BY <1>1
    <2>2. CASE OpenFails(p) \/ Open(p)
      <3>1. pc[p] = "start" /\ pc'[p] \in {"get_info", "exit"}
        BY <1>1, <2>2 DEF OpenFails, Open, Exit, Goto
      <3> QED
        BY <1>3, <2>1, <3>1
    <2>3. CASE GetInfoFails(p) \/ Dispatch(p)
      <3>1. pc[p] = "get_info" /\ pc'[p] \in {"get_manager", "exit"}
        BY <1>1, <2>3 DEF GetInfoFails, Dispatch, Exit, Goto
      <3> QED
        BY <1>3, <2>1, <3>1
    <2>4. CASE GetManagerFails(p) \/ BecomeManager(p)
      <3>1. pc[p] = "get_manager" /\ pc'[p] \in {"get_profile", "set_profile", "exit"}
        BY <1>1, <2>4 DEF GetManagerFails, BecomeManager, Exit, Goto
      <3> QED
        BY <1>3, <2>1, <3>1
    <2>5. CASE GetProfileFails(p) \/ GetUidInfo(p) \/ SetUmountRefused(p) \/ SetUmount(p) \/ SetRoot(p)
      <3>1. pc[p] = "get_profile" /\ pc'[p] \in {"set_profile", "exit"}
        BY <1>1, <2>5 DEF GetProfileFails, GetUidInfo, SetUmountRefused, SetUmount, SetRoot,
                          Read, Exit, Goto
      <3> QED
        BY <1>3, <2>1, <3>1
    <2>6. CASE SetProfile(p) \/ SetProfileFails(p)
      <3>1. pc[p] = "set_profile" /\ pc'[p] \in {"exit"}
        BY <1>1, <2>6 DEF SetProfile, SetProfileFails, Exit
      <3> QED
        BY <1>3, <2>1, <3>1
    <2> QED
      BY <2>2, <2>3, <2>4, <2>5, <2>6 DEF Step
  <1> QED
    BY <1>3, <1>4 DEF After, PCs

\* Each step of an invocation leaves it fewer, and nothing anybody else does, the
\* manager app included, gives it more: five steps bring it to its exit.
CountsDown ==
    \A p \in Proc :
        /\ Step(p) => StepsLeft(pc'[p]) < StepsLeft(pc[p])
        /\ pc'[p] # pc[p] => Step(p)

THEOREM InvocationIsBounded == Spec => [][CountsDown]_vars
  <1>1. Inv /\ [Next]_vars => [CountsDown]_vars
    <2> SUFFICES ASSUME Inv, Next, NEW p \in Proc
                 PROVE  /\ Step(p) => StepsLeft(pc'[p]) < StepsLeft(pc[p])
                        /\ pc'[p] # pc[p] => Step(p)
      BY DEF CountsDown
    <2>1. ASSUME Step(p) PROVE StepsLeft(pc'[p]) < StepsLeft(pc[p])
      <3>1. pc[p] \in PCs \ {"exit"} /\ pc'[p] \in After(pc[p])
        BY <2>1, StepGoesOn
      <3> QED
        BY <3>1 DEF PCs, After, StepsLeft
    <2>2. ASSUME pc'[p] # pc[p] PROVE Step(p)
      <3>1. PICK q \in Proc : Step(q)
        BY <2>2 DEF Next, Environment, ManagerSets, ManagerMoves, AppUninstalled
      <3> QED
        BY <2>2, <3>1, StepGoesOn
    <2> QED
      BY <2>1, <2>2
  <1> QED
    BY <1>1, Invariance, PTL DEF Spec

=============================================================================
