------------------------ MODULE SyscallTiming_proofs ------------------------
(***************************************************************************)
(* The timing programs, for every number of iterations and samples, every  *)
(* width of the template, every timing, and every order of parent and      *)
(* child: the header and the lines of the benches, and what the samplers   *)
(* make of their series.                                                   *)
(***************************************************************************)
EXTENDS SyscallTiming, NumberLemmas, SequenceTheorems

Early == {"clone", "wait4", "probe"}
Filtered == "swapoff" \in world.kills

\* The child and what the parent knows of it.
CheckInv ==
    /\ child # "none" => pid = 100
    /\ child = "running" => pc = "wait4"
    /\ child = "killed" => Filtered
    /\ child = "exited" => ~Filtered
    /\ pc = "clone" => child = "none" /\ status = "exited" /\ is_seccomp_enabled = FALSE
    /\ pc = "wait4" => /\ status = "exited"
                       /\ pid = 100 => child \in {"running", "killed", "exited"}
    /\ pc = "probe" => (is_seccomp_enabled <=> Filtered /\ pid = 100 /\ world.reaps)

\* Rights are given up only once the header is out.
RightsInv == pc \in Early => uid # "app"

Inv == CheckInv /\ RightsInv /\ HeaderIsTrue

\* At the start there is no child, and the caller's rights are intact.
LEMMA InitInv == Init => Inv
  <1> SUFFICES ASSUME Init PROVE Inv
    OBVIOUS
  <1>1. prog \in Benches => pc = "clone"
    BY DEF Init
  <1>2. HeaderIsTrue
    BY <1>1 DEF HeaderIsTrue
  <1>3. CheckInv
    BY DEF Init, CheckInv, Filtered
  <1>4. RightsInv
    BY DEF Init, RightsInv
  <1> QED
    BY <1>2, <1>3, <1>4 DEF Inv

\* Parent and child, in either order.
LEMMA CheckSteps ==
  ASSUME Inv, Clone \/ ChildRuns \/ Wait4
  PROVE  Inv'
  <1>0. world' = world /\ prog' = prog /\ uid' = uid /\ header' = header
    BY DEF Clone, ChildRuns, Wait4, benchVars
  <1>1. Filtered' = Filtered
    BY <1>0 DEF Filtered
  <1>2. pc \in Early /\ pc' \in Early
    BY DEF Inv, CheckInv, Clone, ChildRuns, Wait4, Early
  <1>3. RightsInv' /\ HeaderIsTrue'
    BY <1>0, <1>2 DEF Inv, RightsInv, HeaderIsTrue, Early
  <1>4. CheckInv'
    <2>1. CASE Clone
      <3>1. /\ pc = "clone" /\ status = "exited" /\ is_seccomp_enabled = FALSE
            /\ \/ pid' = 100 /\ child' = "running" /\ pc' = "wait4"
               \/ pid' # 100 /\ child' = "none" /\ pc' \in {"probe", "wait4"}
            /\ is_seccomp_enabled' = FALSE /\ status' = status
        BY <2>1 DEF Inv, CheckInv, Clone
      <3> QED
        BY <1>0, <1>1, <3>1 DEF CheckInv
    <2>2. CASE ChildRuns
      BY <1>0, <1>1, <2>2 DEF ChildRuns, Inv, CheckInv, Filtered
    <2>3. CASE Wait4
      BY <1>0, <1>1, <2>3 DEF Wait4, Inv, CheckInv, Filtered, WIFSIGNALED
    <2> QED
      BY <2>1, <2>2, <2>3
  <1> QED
    BY <1>3, <1>4 DEF Inv

\* The header says what was found with the caller's rights.
LEMMA HeaderStep == Inv /\ Header => Inv'
  <1> SUFFICES ASSUME Inv, Header PROVE Inv'
    OBVIOUS
  <1>1. /\ pc = "probe" /\ pc' = "start_loop" /\ world' = world /\ prog' = prog /\ pid' = pid
        /\ child' = child /\ status' = status /\ is_seccomp_enabled' = is_seccomp_enabled
        /\ header' = [su |-> SuFound, seccomp |-> is_seccomp_enabled]
    BY DEF Header, checkVars
  <1>2. SuFound <=> world.su
    BY <1>1 DEF SuFound, Inv, RightsInv, Early
  <1>3. CheckInv' /\ RightsInv'
    BY <1>1 DEF Inv, CheckInv, Filtered, RightsInv, Early
  <1>4. HeaderIsTrue'
    BY <1>1, <1>2 DEF Inv, CheckInv, Filtered, HeaderIsTrue
  <1> QED
    BY <1>3, <1>4 DEF Inv

\* Nothing after the header changes what it was about.
LEMMA LaterSteps ==
  ASSUME Inv,
         \/ StartLoop \/ Call \/ CallEndsProgram \/ PrintResult
         \/ SampleFirst \/ SampleSecond \/ Summary
  PROVE  Inv'
  <1>1. /\ world' = world /\ prog' = prog /\ pid' = pid /\ header' = header
        /\ child' = child /\ status' = status /\ is_seccomp_enabled' = is_seccomp_enabled
    BY DEF StartLoop, Call, CallEndsProgram, PrintResult, SampleFirst, SampleSecond, Summary,
           checkVars, benchVars
  <1>2. pc \notin Early
    BY DEF StartLoop, Call, CallEndsProgram, PrintResult, SampleFirst, SampleSecond, Summary, Early
  <1>3. pc' \notin Early
    BY DEF StartLoop, Call, CallEndsProgram, PrintResult, Advance, SampleFirst, SampleSecond, Summary, Early
  <1> QED
    BY <1>1, <1>2, <1>3 DEF Inv, CheckInv, Filtered, RightsInv, HeaderIsTrue, Early

\* Every step keeps the invariant.
LEMMA NextInv == Inv /\ [Next]_vars => Inv'
  <1> SUFFICES ASSUME Inv, [Next]_vars PROVE Inv'
    OBVIOUS
  <1>1. CASE Next
    BY <1>1, CheckSteps, HeaderStep, LaterSteps DEF Next
  <1>2. CASE UNCHANGED vars
    BY <1>2 DEF vars, checkVars, benchVars, Inv, CheckInv, Filtered, RightsInv, HeaderIsTrue
  <1> QED
    BY <1>1, <1>2

\* Whichever of parent and child runs first and whichever call fails, the header
\* of the benches reports su as it is, and a filter if and only if it is there, a
\* child could be made, and the child's status was not thrown away.
THEOREM HeaderTrue == Spec => []HeaderIsTrue
  <1>1. Inv => HeaderIsTrue
    BY DEF Inv
  <1> QED
    BY <1>1, InitInv, NextInv, PTL DEF Spec

(***************************************************************************)
(* The verdict of the samplers.                                            *)
(***************************************************************************)

\* A larger quotient is one of a larger number.
LEMMA LargerQuotient ==
  ASSUME NEW a \in Nat, NEW b \in Nat, NEW n \in Nat \ {0}, a \div n > b \div n
  PROVE  a > b
  <1> DEFINE p == a \div n
             q == b \div n
             r == a % n
             s == b % n
  <1>1. /\ p \in Int /\ q \in Int /\ r \in 0 .. n - 1 /\ s \in 0 .. n - 1
        /\ a = n * p + r /\ b = n * q + s /\ p >= q + 1
    BY Divided
  <1> HIDE DEF p, q, r, s
  <1>2. n * p >= n * (q + 1) /\ n * (q + 1) = n * q + n
    BY <1>1
  <1> QED
    BY <1>1, <1>2

\* A sum of natural numbers is one.
LEMMA TotalInNat ==
  ASSUME NEW series \in Seq(Nat)
  PROVE  Total(series) \in Nat
  <1> DEFINE N == Len(series)
             total == CHOOSE f : f = [n \in 0 .. N |-> IF n = 0 THEN 0 ELSE f[n - 1] + series[n]]
             step == [n \in 1 .. N |-> [v \in Nat |-> v + series[n]]]
  <1>1. N \in Nat /\ (\A n \in 1 .. N : series[n] \in Nat) /\ 0 \in Nat
    OBVIOUS
  <1>2. Total(series) = total[N]
    BY DEF Total
  <1> HIDE DEF N
  <1>3. PICK f : IsRecursion(f, N, Nat, 0, step)
    <2>1. step \in Steps(N, Nat)
      BY <1>1 DEF Steps
    <2> HIDE DEF step, total
    <2> QED
      BY <1>1, <2>1, RecursionExists
  <1>4. \A n \in 1 .. N : f[n - 1] \in Nat /\ f[n] = f[n - 1] + series[n]
    <2>1. \A n \in 1 .. N : f[n - 1] \in Nat
      BY <1>1, <1>3 DEF IsRecursion
    <2> QED
      BY <1>3, <2>1 DEF IsRecursion
  <1>5. f = [n \in 0 .. N |-> IF n = 0 THEN 0 ELSE f[n - 1] + series[n]]
    BY <1>1, <1>3, <1>4 DEF IsRecursion
  <1>6. total = [n \in 0 .. N |-> IF n = 0 THEN 0 ELSE total[n - 1] + series[n]]
    BY <1>5
  <1> HIDE DEF total
  <1> DEFINE natural == {n \in 0 .. N : total[n] \in Nat}
  <1>7. 0 \in natural
    BY <1>1, <1>6
  <1>8. \A n \in 0 .. N - 1 : n \in natural => n + 1 \in natural
    <2> SUFFICES ASSUME NEW n \in 0 .. N - 1, total[n] \in Nat
                 PROVE  n + 1 \in 0 .. N /\ total[n + 1] \in Nat
      OBVIOUS
    <2>1. n + 1 \in 1 .. N /\ n + 1 \in 0 .. N /\ n + 1 # 0 /\ (n + 1) - 1 = n
      BY <1>1
    <2>2. total[n + 1] = total[n] + series[n + 1]
      BY <1>6, <2>1
    <2> QED
      BY <1>1, <2>1, <2>2
  <1>9. N \in natural
    <2> HIDE DEF natural
    <2>1. 0 .. N \subseteq natural
      BY <1>1, <1>7, <1>8, InductionUpTo
    <2> QED
      BY <1>1, <2>1
  <1> QED
    BY <1>2, <1>9

\* The samples, and no verdict before the end.
SampleInv ==
    /\ first \in Seq(Nat) /\ second \in Seq(Nat)
    /\ Len(first) <= Samples /\ Len(second) <= Samples
    /\ pc = "first" => Len(first) < Samples /\ second = <<>>
    /\ pc = "second" => Len(first) = Samples /\ Len(second) < Samples
    /\ pc = "summary" => Len(first) = Samples /\ Len(second) = Samples
    /\ pc # "done" => summary = [verdict |-> "none"]
    /\ VerdictHasBoth

\* One more sample.
LEMMA SampleAdded ==
  ASSUME NEW series \in Seq(Nat), NEW t \in BatchTimes
  PROVE  Append(series, t \div Batch) \in Seq(Nat) /\ Len(Append(series, t \div Batch)) = Len(series) + 1
  <1>1. t \in Nat /\ Batch \in Nat \ {0}
    BY TimingAssumption
  <1>2. t \div Batch \in Nat
    BY <1>1, QuotientInNat
  <1> QED
    BY <1>2, AppendProperties

\* Before the end there is no verdict to stand behind.
LEMMA NoVerdictYet == ASSUME summary = [verdict |-> "none"] PROVE VerdictHasBoth
  BY DEF VerdictHasBoth

\* A measure that is shown as 0.5% or more above the other is above it.
LEMMA ExceedingIsMore ==
  ASSUME NEW n \in Int, NEW d \in Int, d >= 0, NEW percent \in Nat, Exceeds(n, d, percent)
  PROVE  n > d
  <1>1. CASE d = 0
    BY <1>1 DEF Exceeds
  <1>2. CASE d # 0
    <2>1. 1000 * n > (1000 + percent) * d
      BY <1>2 DEF Exceeds
    <2>2. (1000 + percent) * d = 1000 * d + percent * d /\ percent * d >= 0 /\ percent * d \in Int
      OBVIOUS
    <2> QED
      BY <2>1, <2>2
  <1> QED
    BY <1>1, <1>2

\* Both averages are behind a verdict, and so are both sums.
LEMMA SummaryVerdict == SampleInv /\ Summary => VerdictHasBoth'
  <1> SUFFICES ASSUME SampleInv, Summary, summary'.verdict \in {"high", "maybe"}
               PROVE  Total(Subject)' > Total(Baseline)' /\ summary'.median
    BY DEF VerdictHasBoth
  <1> DEFINE n == Average(Subject)
             d == Average(Baseline)
             median == Exceeds(Median(Subject), Median(Baseline), 15)
             avg == [high |-> Exceeds(n, d, 15), maybe |-> Exceeds(n, d, 5)]
             verdict == IF prog = "prctl_abuse" THEN Verdict(avg, median) ELSE "none"
  <1>1. /\ summary' = [median |-> median, avg |-> avg, verdict |-> verdict]
        /\ Total(Subject)' = Total(Subject) /\ Total(Baseline)' = Total(Baseline)
    BY DEF Summary, Subject, Baseline, Total
  <1>2. Subject \in Seq(Nat) /\ Baseline \in Seq(Nat)
    BY DEF SampleInv, Subject, Baseline
  <1>3. /\ Total(Subject) \in Nat /\ Total(Baseline) \in Nat /\ Samples \in Nat \ {0}
        /\ n \in Nat /\ d \in Nat
    <2>1. Total(Subject) \in Nat /\ Total(Baseline) \in Nat /\ Samples \in Nat \ {0}
      BY <1>2, TotalInNat, TimingAssumption
    <2> QED
      BY <2>1, QuotientInNat DEF Average
  <1> HIDE DEF median, n, d
  <1>4. verdict \in {"high", "maybe"}
    BY <1>1
  <1>5. median /\ (Exceeds(n, d, 15) \/ Exceeds(n, d, 5))
    <2>1. Verdict(avg, median) \in {"high", "maybe"}
      BY <1>4
    <2> QED
      BY <2>1 DEF Verdict
  <1>6. n > d
    BY <1>3, <1>5, ExceedingIsMore
  <1>7. Total(Subject) > Total(Baseline)
    BY <1>3, <1>6, LargerQuotient DEF Average, n, d
  <1>8. summary'.median
    <2>1. summary'.median = median
      BY <1>1
    <2> QED
      BY <1>5, <2>1
  <1> QED
    BY <1>1, <1>7, <1>8

\* The samplers' steps.
LEMMA SampleSteps ==
  ASSUME SampleInv, SampleFirst \/ SampleSecond \/ Summary
  PROVE  SampleInv'
  <1>1. CASE SampleFirst
    <2>1. PICK t \in BatchTimes : first' = Append(first, t \div Batch)
      BY <1>1 DEF SampleFirst, Sample
    <2>2. first' \in Seq(Nat) /\ Len(first') = Len(first) + 1
      BY <2>1, SampleAdded DEF SampleInv
    <2>3. /\ pc = "first" /\ second' = second /\ summary' = summary /\ second = <<>>
          /\ pc' = IF Len(first') < Samples THEN "first" ELSE "second"
          /\ first \in Seq(Nat) /\ second \in Seq(Nat) /\ Len(first) < Samples
          /\ summary = [verdict |-> "none"]
      BY <1>1 DEF SampleFirst, SampleInv
    <2>4. Samples \in Nat \ {0} /\ Len(second) = 0
      BY <2>3, TimingAssumption
    <2>5. VerdictHasBoth'
      BY <2>3 DEF VerdictHasBoth
    <2> QED
      BY <2>2, <2>3, <2>4, <2>5 DEF SampleInv
  <1>2. CASE SampleSecond
    <2>1. PICK t \in BatchTimes : second' = Append(second, t \div Batch)
      BY <1>2 DEF SampleSecond, Sample
    <2>2. second' \in Seq(Nat) /\ Len(second') = Len(second) + 1
      BY <2>1, SampleAdded DEF SampleInv
    <2>3. /\ pc = "second" /\ first' = first /\ summary' = summary
          /\ pc' = IF Len(second') < Samples THEN "second" ELSE "summary"
          /\ first \in Seq(Nat) /\ second \in Seq(Nat) /\ Len(second) < Samples
          /\ Len(first) = Samples /\ summary = [verdict |-> "none"]
      BY <1>2 DEF SampleSecond, SampleInv
    <2>4. Samples \in Nat \ {0}
      BY TimingAssumption
    <2>5. VerdictHasBoth'
      BY <2>3 DEF VerdictHasBoth
    <2> QED
      BY <2>2, <2>3, <2>4, <2>5 DEF SampleInv
  <1>3. CASE Summary
    <2>1. /\ first' = first /\ second' = second /\ pc' = "done" /\ pc = "summary"
      BY <1>3 DEF Summary
    <2>2. VerdictHasBoth'
      BY <1>3, SummaryVerdict
    <2> QED
      BY <2>1, <2>2 DEF SampleInv
  <1> QED
    BY <1>1, <1>2, <1>3

\* At the start there are no samples.
LEMMA InitSample == Init => SampleInv
  <1> SUFFICES ASSUME Init PROVE SampleInv
    OBVIOUS
  <1>1. /\ first = <<>> /\ second = <<>> /\ summary = [verdict |-> "none"]
        /\ pc \in {"clone", "first"} /\ Samples \in Nat \ {0}
    BY TimingAssumption DEF Init
  <1>2. <<>> \in Seq(Nat) /\ Len(<<>>) = 0
    OBVIOUS
  <1>3. VerdictHasBoth
    BY <1>1, NoVerdictYet
  <1> QED
    BY <1>1, <1>2, <1>3 DEF SampleInv

\* Every step keeps the samples and what is said of them right.
LEMMA NextSample == SampleInv /\ [Next]_vars => SampleInv'
  <1> SUFFICES ASSUME SampleInv, [Next]_vars PROVE SampleInv'
    OBVIOUS
  <1>1. CASE Clone \/ ChildRuns \/ Wait4 \/ Header \/ StartLoop \/ Call \/ CallEndsProgram \/ PrintResult
    <2>1. /\ first' = first /\ second' = second /\ summary' = summary /\ prog' = prog
          /\ pc' # pc => pc # "done" /\ pc' \notin {"first", "second", "summary"}
      BY <1>1 DEF Clone, ChildRuns, Wait4, Header, StartLoop, Call, CallEndsProgram, PrintResult,
                  Advance, sampleVars
    <2>2. VerdictHasBoth'
      BY <2>1 DEF SampleInv, VerdictHasBoth, Subject, Baseline, Total
    <2> QED
      BY <2>1, <2>2 DEF SampleInv
  <1>2. CASE SampleFirst \/ SampleSecond \/ Summary
    BY <1>2, SampleSteps
  <1>3. CASE UNCHANGED vars
    <2>1. first' = first /\ second' = second /\ summary' = summary /\ prog' = prog /\ pc' = pc
      BY <1>3 DEF vars, sampleVars
    <2>2. VerdictHasBoth'
      BY <2>1 DEF SampleInv, VerdictHasBoth, Subject, Baseline, Total
    <2> QED
      BY <2>1, <2>2 DEF SampleInv
  <1> QED
    BY <1>1, <1>2, <1>3 DEF Next

\* A verdict of prctl_abuse other than "try again" has both measures behind it:
\* the subject's samples take longer in sum, and their median is shown above.
THEOREM VerdictsHaveBoth == Spec => []VerdictHasBoth
  <1>1. SampleInv => VerdictHasBoth
    BY DEF SampleInv
  <1> QED
    BY <1>1, InitSample, NextSample, PTL DEF Spec

(***************************************************************************)
(* The lines of the benches.                                               *)
(***************************************************************************)

Line == [label : 0 .. 4,
         call : {"setresuid16", "setresuid", "newfstatat", "faccessat", "faccessat2", "execve"},
         path : {"none", "NULL", "/dev/null", "/system/bin/su_", "unaligned"}]
HasItsLabel(l) == IF l.label = 0 THEN l.path = "none" ELSE l.path = Legend[l.label]

\* The lines with the k-th call and the n-th path; what comes before where the
\* program is.
Lines(n, k) == {m \in DOMAIN printed : printed[m].label = n /\ printed[m].call = LoopCalls[k]}
Behind(n, k) == n <= j \/ (n = j + 1 /\ k < c)

\* Where a bench is.
PlaceInv ==
    /\ j \in -1 .. num_tests /\ c \in Nat \ {0}
    /\ pc \in {"done", "killed", "replaced"} \/ j < num_tests
    /\ pc = "done" => j = num_tests
    /\ pc \in Early \cup {"start_loop"} => c = 1
    /\ pc \notin {"first", "second", "summary"}
    /\ j < num_tests => c <= Len(Calls)
    /\ pc \in {"call", "print"} => label = j + 1

\* What is behind it has one line each, and nothing else has one.
OnceInv ==
    \A n \in 1 .. num_tests, k \in DOMAIN LoopCalls :
        IF Behind(n, k) THEN \E m \in DOMAIN printed : Lines(n, k) = {m} ELSE Lines(n, k) = {}

LineInv ==
    /\ printed \in Seq(Line)
    /\ \A m \in DOMAIN printed : HasItsLabel(printed[m])
    /\ prog \in Benches => PlaceInv /\ OnceInv
    /\ prog \notin Benches => pc \in {"first", "second", "summary", "done"}

\* The calls are different from each other.
LEMMA CallsDiffer ==
  /\ Len(LoopCalls) \in {2, 3} /\ DOMAIN LoopCalls = 1 .. Len(LoopCalls)
  /\ \A k, h \in DOMAIN LoopCalls : LoopCalls[k] = LoopCalls[h] => k = h
  <1>1. CASE prog = "bench_faccessat2"
    BY <1>1 DEF LoopCalls
  <1>2. CASE prog # "bench_faccessat2"
    <2>1. LoopCalls = <<"newfstatat", "faccessat", "execve">>
      BY <1>2 DEF LoopCalls
    <2> QED
      BY <2>1
  <1> QED
    BY <1>1, <1>2

\* The calls of a test.
LEMMA CallsOf ==
  /\ j # -1 => Calls = LoopCalls
  /\ Len(Calls) \in 1 .. 3 /\ DOMAIN Calls = 1 .. Len(Calls)
  /\ \A k \in DOMAIN Calls :
       Calls[k] \in {"setresuid16", "setresuid", "newfstatat", "faccessat", "faccessat2", "execve"}
  <1>1. CASE j # -1
    <2>1. Calls = LoopCalls
      BY <1>1 DEF Calls
    <2>2. CASE prog = "bench_faccessat2"
      BY <1>1, <2>1, <2>2 DEF LoopCalls
    <2>3. CASE prog # "bench_faccessat2"
      <3>1. Calls = <<"newfstatat", "faccessat", "execve">>
        BY <2>1, <2>3 DEF LoopCalls
      <3> QED
        BY <1>1, <2>1, <3>1
    <2> QED
      BY <2>2, <2>3
  <1>2. CASE j = -1 /\ world.arm
    <2>0. Calls = <<"setresuid16">> \o <<"setresuid">>
      BY <1>2, Zenon DEF Calls
    <2>1. Len(Calls) = 2 /\ DOMAIN Calls = 1 .. 2 /\ Calls[1] = "setresuid16" /\ Calls[2] = "setresuid"
      BY <2>0
    <2> QED
      BY <1>2, <2>1
  <1>3. CASE j = -1 /\ ~world.arm
    <2>1. Calls = <<"setresuid">>
      BY <1>3 DEF Calls
    <2> QED
      BY <1>3, <2>1
  <1> QED
    BY <1>1, <1>2, <1>3

\* The array and the legend are the same list.
LEMMA PathsOf ==
  ASSUME NEW n \in -1 .. 3
  PROVE  /\ PathOf(n) \in {"none", "NULL", "/dev/null", "/system/bin/su_", "unaligned"}
         /\ IF n + 1 = 0 THEN PathOf(n) = "none" ELSE PathOf(n) = Legend[n + 1]
  <1>1. n \in {-1, 0, 1, 2, 3}
    OBVIOUS
  <1> QED
    BY <1>1 DEF PathOf, tests, Legend

\* At the start nothing is printed.
LEMMA InitLines == Init => LineInv
  <1> SUFFICES ASSUME Init PROVE LineInv
    OBVIOUS
  <1>1. /\ printed = <<>> /\ c = 1 /\ j = FirstTest(prog)
        /\ pc = IF prog \in Benches THEN "clone" ELSE "first"
    BY DEF Init
  <1>2. printed \in Seq(Line) /\ DOMAIN printed = {}
    BY <1>1
  <1>3. j \in {-1, 0} /\ num_tests \in {3, 4}
    BY <1>1 DEF FirstTest, num_tests
  <1>4. prog \in Benches => PlaceInv
    BY <1>1, <1>3, CallsOf DEF PlaceInv, Early
  <1>5. OnceInv
    BY <1>1, <1>2, <1>3, CallsDiffer DEF OnceInv, Behind, Lines
  <1> QED
    BY <1>1, <1>2, <1>4, <1>5 DEF LineInv

\* A line more.
LEMMA LineAppended ==
  ASSUME NEW l \in Line, printed \in Seq(Line), printed' = Append(printed, l), prog' = prog,
         NEW N, N = Len(printed) + 1
  PROVE  /\ printed' \in Seq(Line)
         /\ N \in DOMAIN printed' /\ DOMAIN printed \subseteq DOMAIN printed'
         /\ \A m \in DOMAIN printed' : m = N \/ m \in DOMAIN printed
         /\ printed'[N] = l /\ \A m \in DOMAIN printed : printed'[m] = printed[m] /\ m # N
         /\ \A n, k : Lines(n, k)' =
              IF l.label = n /\ l.call = LoopCalls[k] THEN Lines(n, k) \cup {N} ELSE Lines(n, k)
  <1>1. /\ printed' \in Seq(Line)
        /\ DOMAIN printed' = 1 .. N /\ DOMAIN printed = 1 .. N - 1 /\ N \in Nat \ {0}
        /\ printed'[N] = l /\ \A m \in 1 .. N - 1 : printed'[m] = printed[m]
    <2>1. Len(printed) \in Nat /\ DOMAIN printed = 1 .. Len(printed)
      OBVIOUS
    <2> QED
      BY <2>1, AppendProperties
  <1>2. LoopCalls' = LoopCalls
    BY DEF LoopCalls
  <1>3. ASSUME NEW n, NEW k
        PROVE  Lines(n, k)' =
              IF l.label = n /\ l.call = LoopCalls[k] THEN Lines(n, k) \cup {N} ELSE Lines(n, k)
    <2>1. \A m \in DOMAIN printed' : m = N \/ m \in DOMAIN printed
      BY <1>1
    <2>2. \A m \in DOMAIN printed : m \in DOMAIN printed' /\ printed'[m] = printed[m]
      BY <1>1
    <2>3. N \in DOMAIN printed' /\ printed'[N] = l /\ N \notin DOMAIN printed
      BY <1>1
    <2>4. ASSUME NEW x
          PROVE  x \in Lines(n, k)' <=> x \in Lines(n, k) \/ (x = N /\ l.label = n /\ l.call = LoopCalls[k])
      BY <1>2, <2>1, <2>2, <2>3 DEF Lines
    <2> QED
      BY <2>4
  <1> QED
    BY <1>1, <1>3

\* What a print puts behind the program.
LEMMA PrintedOnce ==
  ASSUME LineInv, prog \in Benches, PrintResult
  PROVE  OnceInv' /\ printed' \in Seq(Line) /\ \A m \in DOMAIN printed' : HasItsLabel(printed'[m])
  <1> DEFINE l == [label |-> label, call |-> Calls[c], path |-> PathOf(j)]
             N == Len(printed) + 1
  <1>1. /\ pc = "print" /\ printed' = Append(printed, l) /\ prog' = prog
        /\ c' = IF c < Len(Calls) THEN c + 1 ELSE 1
        /\ j' = IF c < Len(Calls) THEN j ELSE j + 1
    BY DEF PrintResult, Advance
  <1>2. /\ PlaceInv /\ OnceInv /\ printed \in Seq(Line)
        /\ \A m \in DOMAIN printed : HasItsLabel(printed[m])
    BY DEF LineInv
  <1>3. /\ j \in -1 .. num_tests - 1 /\ c \in DOMAIN Calls /\ label = j + 1 /\ num_tests \in {3, 4}
        /\ c \in Nat \ {0} /\ Len(Calls) \in Nat
    BY <1>1, <1>2, CallsOf DEF PlaceInv, num_tests
  <1>4. l \in Line /\ l.label = j + 1 /\ l.call = Calls[c] /\ HasItsLabel(l)
    <2>1. j \in -1 .. 3 /\ label \in 0 .. 4
      BY <1>3
    <2>2. /\ Calls[c] \in {"setresuid16", "setresuid", "newfstatat", "faccessat", "faccessat2", "execve"}
      BY <1>3, CallsOf
    <2> QED
      BY <1>3, <2>1, <2>2, PathsOf DEF Line, HasItsLabel
  <1> HIDE DEF l, N
  <1>5. /\ printed' \in Seq(Line)
        /\ N \in DOMAIN printed' /\ DOMAIN printed \subseteq DOMAIN printed'
        /\ \A m \in DOMAIN printed' : m = N \/ m \in DOMAIN printed
        /\ printed'[N] = l /\ \A m \in DOMAIN printed : printed'[m] = printed[m] /\ m # N
        /\ \A n, k : Lines(n, k)' =
              IF l.label = n /\ l.call = LoopCalls[k] THEN Lines(n, k) \cup {N} ELSE Lines(n, k)
    BY <1>1, <1>2, <1>4, LineAppended DEF N
  <1>6. OnceInv'
    <2> SUFFICES ASSUME NEW n \in 1 .. num_tests, NEW k \in DOMAIN LoopCalls
                 PROVE  IF Behind(n, k)' THEN \E m \in DOMAIN printed' : Lines(n, k)' = {m} ELSE Lines(n, k)' = {}
      BY <1>1 DEF OnceInv, Behind, Lines, num_tests, LoopCalls
    <2>1. IF Behind(n, k) THEN \E m \in DOMAIN printed : Lines(n, k) = {m} ELSE Lines(n, k) = {}
      BY <1>2 DEF OnceInv
    <2>2. n \in Nat /\ k \in Nat /\ n >= 1 /\ k >= 1
      BY <1>3, CallsDiffer
    <2>3. CASE n = j + 1 /\ k = c
      <3>1. j # -1 /\ Calls = LoopCalls
        BY <2>2, <2>3, CallsOf, <1>3
      <3>2. ~Behind(n, k) /\ Behind(n, k)'
        BY <1>1, <1>3, <2>2, <2>3 DEF Behind
      <3>3. Lines(n, k)' = {N}
        BY <1>4, <1>5, <2>1, <2>3, <3>1, <3>2
      <3> QED
        BY <1>5, <3>2, <3>3
    <2>4. CASE ~(n = j + 1 /\ k = c)
      <3>1. Lines(n, k)' = Lines(n, k)
        <4>1. CASE n # j + 1
          BY <1>4, <1>5, <4>1
        <4>2. CASE n = j + 1 /\ k # c
          <5>1. Calls = LoopCalls
            BY <1>3, <2>2, <4>2, CallsOf
          <5>2. l.call # LoopCalls[k]
            BY <1>3, <1>4, <4>2, <5>1, CallsDiffer
          <5> QED
            BY <1>5, <5>2
        <4> QED
          BY <2>4, <4>1, <4>2
      <3>2. Behind(n, k)' <=> Behind(n, k)
        <4>1. n = j + 1 => k <= Len(Calls)
          BY <1>3, <2>2, CallsOf, CallsDiffer
        <4> QED
          BY <1>1, <1>3, <2>2, <2>4, <4>1 DEF Behind
      <3> QED
        BY <1>5, <2>1, <3>1, <3>2
    <2> QED
      BY <2>3, <2>4
  <1> QED
    BY <1>2, <1>4, <1>5, <1>6

\* A print leaves the program at a call it has, or at the end.
LEMMA PrintedPlace ==
  ASSUME LineInv, prog \in Benches, PrintResult
  PROVE  PlaceInv'
  <1>1. /\ pc = "print" /\ prog' = prog /\ world' = world /\ label' = label
        /\ c' = IF c < Len(Calls) THEN c + 1 ELSE 1
        /\ j' = IF c < Len(Calls) THEN j ELSE j + 1
        /\ pc' = CASE j' = j -> "call"
                   [] j' # j /\ j' < num_tests -> "start_loop"
                   [] OTHER -> "done"
    BY DEF PrintResult, Advance
  <1>2. PlaceInv
    BY DEF LineInv
  <1>3. /\ j \in -1 .. num_tests - 1 /\ c \in 1 .. Len(Calls) /\ label = j + 1 /\ num_tests \in {3, 4}
        /\ Len(Calls) \in Nat
    BY <1>1, <1>2, CallsOf DEF PlaceInv, num_tests
  <1>4. num_tests' = num_tests
    BY <1>1 DEF num_tests
  <1>5. CASE c < Len(Calls)
    <2>1. c' = c + 1 /\ j' = j /\ pc' = "call"
      BY <1>1, <1>5
    <2>2. Calls' = Calls
      BY <1>1, <2>1 DEF Calls, LoopCalls
    <2> QED
      BY <1>1, <1>3, <1>4, <1>5, <2>1, <2>2 DEF PlaceInv, Early
  <1>6. CASE ~(c < Len(Calls))
    <2>1. c' = 1 /\ j' = j + 1 /\ pc' = IF j' < num_tests THEN "start_loop" ELSE "done"
      BY <1>1, <1>3, <1>6
    <2>2. 1 <= Len(Calls')
      <3>1. Calls' = LoopCalls
        BY <1>1, <1>3, <2>1 DEF Calls, LoopCalls
      <3> QED
        BY <3>1, CallsDiffer
    <2>3. j' \in 0 .. num_tests
      BY <1>3, <2>1
    <2> QED
      BY <1>3, <1>4, <2>1, <2>2, <2>3 DEF PlaceInv, Early
  <1> QED
    BY <1>5, <1>6

\* Every step keeps the lines right.
LEMMA NextLines == LineInv /\ [Next]_vars => LineInv'
  <1> SUFFICES ASSUME LineInv, [Next]_vars PROVE LineInv'
    OBVIOUS
  <1>0. CASE PrintResult
    <2>1. prog' = prog /\ pc = "print"
      BY <1>0 DEF PrintResult
    <2>2. prog \in Benches
      BY <2>1 DEF LineInv
    <2> QED
      BY <1>0, <2>1, <2>2, PrintedOnce, PrintedPlace DEF LineInv
  <1>1. CASE \/ Clone \/ ChildRuns \/ Wait4 \/ Header \/ StartLoop \/ Call \/ CallEndsProgram
             \/ SampleFirst \/ SampleSecond \/ Summary \/ UNCHANGED vars
    <2>1. printed' = printed /\ prog' = prog /\ world' = world /\ j' = j /\ c' = c
      BY <1>1 DEF Clone, ChildRuns, Wait4, Header, StartLoop, Call, CallEndsProgram,
                  SampleFirst, SampleSecond, Summary, vars, benchVars
    <2>2. OnceInv' <=> OnceInv
      BY <2>1 DEF OnceInv, Behind, Lines, num_tests, LoopCalls
    <2>3. num_tests' = num_tests /\ Calls' = Calls
      BY <2>1 DEF num_tests, Calls, LoopCalls
    <2>4. ASSUME PlaceInv, prog \in Benches PROVE PlaceInv'
      <3>1. CASE StartLoop
        BY <1>1, <2>1, <2>3, <2>4, <3>1 DEF PlaceInv, Early, StartLoop, LabelOf
      <3>2. CASE Call \/ CallEndsProgram
        BY <2>1, <2>3, <2>4, <3>2 DEF PlaceInv, Early, Call, CallEndsProgram
      <3>3. CASE Clone \/ ChildRuns \/ Wait4 \/ Header
        BY <2>1, <2>3, <2>4, <3>3 DEF PlaceInv, Early, Clone, ChildRuns, Wait4, Header, benchVars
      <3>4. CASE SampleFirst \/ SampleSecond \/ Summary
        BY <2>1, <2>3, <2>4, <3>4 DEF PlaceInv, SampleFirst, SampleSecond, Summary
      <3>5. CASE UNCHANGED vars
        BY <2>1, <2>3, <2>4, <3>5 DEF PlaceInv, Early, vars, benchVars
      <3> QED
        BY <1>1, <3>1, <3>2, <3>3, <3>4, <3>5
    <2>5. prog \notin Benches => pc' \in {"first", "second", "summary", "done"}
      BY <1>1 DEF LineInv, Clone, ChildRuns, Wait4, Header, StartLoop, Call, CallEndsProgram,
                  SampleFirst, SampleSecond, Summary, vars
    <2> QED
      BY <2>1, <2>2, <2>4, <2>5 DEF LineInv, HasItsLabel
  <1> QED
    BY <1>0, <1>1 DEF Next
\* Every line is labelled as the legend says, and a program that gets to its end
\* has timed every call with every path, once.
THEOREM EachLineOnce == Spec => []EveryLineOnce
  <1>1. LineInv => EveryLineOnce
    <2> SUFFICES ASSUME LineInv PROVE EveryLineOnce
      OBVIOUS
    <2>1. \A l \in {printed[n] : n \in DOMAIN printed} :
            IF l.label = 0 THEN l.path = "none" ELSE l.path = Legend[l.label]
      BY DEF LineInv, HasItsLabel
    <2>2. ASSUME prog \in Benches, pc = "done", NEW n \in 1 .. num_tests, NEW k \in DOMAIN LoopCalls
          PROVE  Cardinality({m \in DOMAIN printed : printed[m].label = n /\ printed[m].call = LoopCalls[k]}) = 1
      <3>1. Behind(n, k)
        BY <2>2 DEF LineInv, PlaceInv, Behind
      <3>2. PICK m \in DOMAIN printed : Lines(n, k) = {m}
        BY <2>2, <3>1 DEF LineInv, OnceInv
      <3> QED
        BY <3>2, FS_Singleton DEF Lines
    <2> QED
      BY <2>1, <2>2 DEF EveryLineOnce
  <1> QED
    BY <1>1, InitLines, NextLines, PTL DEF Spec

(***************************************************************************)
(* The digits of the results.                                              *)
(***************************************************************************)

\* The powers of ten.
LEMMA PowersOfTen ==
  /\ Pow10[0] = 1
  /\ \A n \in 0 .. Digits : Pow10[n] \in Nat \ {0}
  /\ \A n \in 0 .. Digits - 1 : Pow10[n + 1] = 10 * Pow10[n]
  <1> DEFINE step == [n \in 1 .. Digits |-> [v \in Nat |-> 10 * v]]
  <1>1. Digits \in Nat /\ 1 \in Nat
    BY TimingAssumption
  <1>2. PICK f : IsRecursion(f, Digits, Nat, 1, step)
    <2>1. step \in Steps(Digits, Nat)
      BY <1>1 DEF Steps
    <2> HIDE DEF step
    <2> QED
      BY <1>1, <2>1, RecursionExists
  <1>3. \A n \in 1 .. Digits : f[n - 1] \in Nat /\ f[n] = 10 * f[n - 1]
    <2>1. \A n \in 1 .. Digits : f[n - 1] \in Nat
      BY <1>1, <1>2 DEF IsRecursion
    <2> QED
      BY <1>2, <2>1 DEF IsRecursion
  <1>4. f = [n \in 0 .. Digits |-> IF n = 0 THEN 1 ELSE 10 * f[n - 1]]
    BY <1>1, <1>2, <1>3 DEF IsRecursion
  <1>5. Pow10 = [n \in 0 .. Digits |-> IF n = 0 THEN 1 ELSE 10 * Pow10[n - 1]]
    BY <1>4 DEF Pow10
  <1>6. Pow10[0] = 1
    BY <1>1, <1>5
  <1>7. \A n \in 0 .. Digits - 1 : Pow10[n + 1] = 10 * Pow10[n]
    <2> SUFFICES ASSUME NEW n \in 0 .. Digits - 1 PROVE Pow10[n + 1] = 10 * Pow10[n]
      OBVIOUS
    <2>1. n + 1 \in 0 .. Digits /\ n + 1 # 0 /\ (n + 1) - 1 = n
      BY <1>1
    <2> QED
      BY <1>5, <2>1
  <1> DEFINE positive == {n \in 0 .. Digits : Pow10[n] \in Nat \ {0}}
  <1>8. 0 .. Digits \subseteq positive
    <2>1. 0 \in positive
      BY <1>1, <1>6
    <2>2. \A n \in 0 .. Digits - 1 : n \in positive => n + 1 \in positive
      BY <1>1, <1>7
    <2> HIDE DEF positive
    <2> QED
      BY <1>1, <2>1, <2>2, InductionUpTo
  <1> QED
    BY <1>6, <1>7, <1>8

\* What a template shows, digit by digit from the left.
LEMMA ValueByDigits ==
  ASSUME NEW digits \in [1 .. Digits -> 0 .. 9]
  PROVE  \E value \in [0 .. Digits -> Nat] :
           /\ value[0] = 0 /\ value[Digits] = Value(digits)
           /\ \A n \in 0 .. Digits - 1 : value[n + 1] = 10 * value[n] + digits[n + 1]
  <1> DEFINE value == CHOOSE f : f = [n \in 0 .. Digits |-> IF n = 0 THEN 0 ELSE 10 * f[n - 1] + digits[n]]
             step == [n \in 1 .. Digits |-> [v \in Nat |-> 10 * v + digits[n]]]
  <1>1. Digits \in Nat /\ 0 \in Nat /\ \A n \in 1 .. Digits : digits[n] \in Nat
    BY TimingAssumption
  <1>2. Value(digits) = value[Digits]
    BY DEF Value
  <1>3. PICK f : IsRecursion(f, Digits, Nat, 0, step)
    <2>1. step \in Steps(Digits, Nat)
      BY <1>1 DEF Steps
    <2> HIDE DEF step, value
    <2> QED
      BY <1>1, <2>1, RecursionExists
  <1>4. \A n \in 1 .. Digits : f[n - 1] \in Nat /\ f[n] = 10 * f[n - 1] + digits[n]
    <2>1. \A n \in 1 .. Digits : f[n - 1] \in Nat
      BY <1>1, <1>3 DEF IsRecursion
    <2> QED
      BY <1>3, <2>1 DEF IsRecursion
  <1>5. f = [n \in 0 .. Digits |-> IF n = 0 THEN 0 ELSE 10 * f[n - 1] + digits[n]]
    BY <1>1, <1>3, <1>4 DEF IsRecursion
  <1>6. value = [n \in 0 .. Digits |-> IF n = 0 THEN 0 ELSE 10 * value[n - 1] + digits[n]]
    BY <1>5
  <1> HIDE DEF value, step
  <1>7. value[0] = 0
    BY <1>1, <1>6
  <1>8. \A n \in 0 .. Digits - 1 : value[n + 1] = 10 * value[n] + digits[n + 1]
    <2> SUFFICES ASSUME NEW n \in 0 .. Digits - 1 PROVE value[n + 1] = 10 * value[n] + digits[n + 1]
      OBVIOUS
    <2>1. n + 1 \in 0 .. Digits /\ n + 1 # 0 /\ (n + 1) - 1 = n
      BY <1>1
    <2> QED
      BY <1>6, <2>1
  <1> DEFINE natural == {n \in 0 .. Digits : value[n] \in Nat}
  <1>9. 0 .. Digits \subseteq natural
    <2>1. 0 \in natural
      BY <1>1, <1>7
    <2>2. \A n \in 0 .. Digits - 1 : n \in natural => n + 1 \in natural
      BY <1>1, <1>8
    <2> HIDE DEF natural
    <2> QED
      BY <1>1, <2>1, <2>2, InductionUpTo
  <1>10. value \in [0 .. Digits -> Nat]
    BY <1>6, <1>9
  <1> QED
    BY <1>2, <1>7, <1>8, <1>10

\* The template shows the last digits of the number written into it.
LEMMA TemplateShowsNumber ==
  ASSUME NEW a \in Nat, NEW buf
  PROVE  Value(long_to_str(a, buf)) = a % Pow10[Digits]
  <1> DEFINE digits == long_to_str(a, buf)
  <1>1. Digits \in Nat /\ Digits - 0 = Digits
    BY TimingAssumption
  <1>2. \A n \in 1 .. Digits : digits[n] = (a \div Pow10[Digits - n]) % 10
    BY DEF long_to_str
  <1>3. ASSUME NEW n \in 0 .. Digits
        PROVE  /\ Digits - n \in 0 .. Digits /\ Pow10[Digits - n] \in Nat \ {0}
               /\ a \div Pow10[Digits - n] \in Nat
    <2>1. Digits - n \in 0 .. Digits /\ Pow10[Digits - n] \in Nat \ {0}
      BY <1>1, PowersOfTen
    <2> QED
      BY <2>1, QuotientInNat
  <1>4. digits \in [1 .. Digits -> 0 .. 9]
    <2>1. ASSUME NEW n \in 1 .. Digits PROVE (a \div Pow10[Digits - n]) % 10 \in 0 .. 9
      <3>1. a \div Pow10[Digits - n] \in Int
        BY <1>3
      <3>2. \A b \in Int : b % 10 \in 0 .. 9
        OBVIOUS
      <3> QED
        BY <3>1, <3>2
    <2> QED
      BY <2>1 DEF long_to_str
  <1> HIDE DEF digits
  <1>5. PICK value \in [0 .. Digits -> Nat] :
           /\ value[0] = 0 /\ value[Digits] = Value(digits)
           /\ \A n \in 0 .. Digits - 1 : value[n + 1] = 10 * value[n] + digits[n + 1]
    BY <1>4, ValueByDigits
  <1> DEFINE right == {n \in 0 .. Digits : value[n] = (a \div Pow10[Digits - n]) % Pow10[n]}
  <1>6. 0 \in right
    <2>1. (a \div Pow10[Digits]) % 1 = 0
      <3>1. 0 \in 0 .. Digits
        BY <1>1
      <3>2. a \div Pow10[Digits] \in Int
        <4>1. a \div Pow10[Digits - 0] \in Nat
          BY <1>3, <3>1
        <4> QED
          BY <1>1, <4>1
      <3>3. \A b \in Int : b % 1 = 0
        OBVIOUS
      <3> QED
        BY <3>2, <3>3
    <2> QED
      BY <1>1, <1>5, <2>1, PowersOfTen
  <1>7. ASSUME NEW n \in 0 .. Digits - 1, n \in right PROVE n + 1 \in right
    <2> DEFINE b == a \div Pow10[Digits - (n + 1)]
    <2>1. /\ n \in 0 .. Digits /\ n + 1 \in 0 .. Digits /\ n + 1 \in 1 .. Digits
          /\ Digits - (n + 1) \in 0 .. Digits - 1 /\ (Digits - (n + 1)) + 1 = Digits - n
      BY <1>1
    <2>2. /\ Pow10[Digits - n] = 10 * Pow10[Digits - (n + 1)] /\ Pow10[n + 1] = 10 * Pow10[n]
          /\ Pow10[n] \in Nat \ {0} /\ Pow10[Digits - (n + 1)] \in Nat \ {0} /\ b \in Nat
      BY <1>3, <2>1, PowersOfTen
    <2>3. a \div Pow10[Digits - n] = b \div 10
      <3> DEFINE p == Pow10[Digits - (n + 1)]
      <3>1. Pow10[Digits - n] = p * 10 /\ p \in Nat \ {0}
        BY <2>2
      <3> HIDE DEF p
      <3>2. a \in Int /\ 10 \in Nat \ {0}
        OBVIOUS
      <3>3. a \div (p * 10) = (a \div p) \div 10
        <4>1. a \in Int /\ p \in Nat \ {0} /\ 10 \in Nat \ {0}
          BY <3>1, <3>2
        <4>2. DividesInTurn(a, p, 10)
          BY <4>1, DivisionInTurn
        <4> QED
          BY <4>2, Zenon DEF DividesInTurn
      <3> QED
        BY <3>1, <3>3 DEF b, p
    <2> HIDE DEF b
    <2>4. b % Pow10[n + 1] = 10 * ((b \div 10) % Pow10[n]) + (b % 10)
      <3> DEFINE p == Pow10[n]
      <3>1. Pow10[n + 1] = 10 * p /\ p \in Nat \ {0} /\ b \in Int /\ 10 \in Nat \ {0}
        BY <2>2
      <3> HIDE DEF p
      <3>2. b % (10 * p) = 10 * ((b \div 10) % p) + (b % 10)
        <4>1. RemainsInTurn(b, 10, p)
          BY <3>1, DivisionInTurn
        <4> QED
          BY <4>1, Zenon DEF RemainsInTurn
      <3> QED
        BY <3>1, <3>2 DEF p
    <2>5. value[n] = (b \div 10) % Pow10[n]
      BY <1>7, <2>3
    <2>6. digits[n + 1] = b % 10
      BY <1>2, <2>1 DEF b
    <2>7. value[n + 1] = b % Pow10[n + 1]
      BY <1>5, <2>4, <2>5, <2>6
    <2> QED
      BY <2>1, <2>7 DEF b
  <1>8. Digits \in right
    <2> HIDE DEF right
    <2>1. 0 .. Digits \subseteq right
      BY <1>1, <1>6, <1>7, InductionUpTo
    <2> QED
      BY <1>1, <2>1
  <1>9. a \div Pow10[Digits - Digits] = a
    <2>1. a \div 1 = a
      BY OneQuotient
    <2> QED
      BY <1>1, <2>1, PowersOfTen
  <1> QED
    BY <1>5, <1>8, <1>9 DEF digits

\* Times are counted up from zero, and the last line shows its own average.
ResultInv == elapsed \in Nat /\ ResultIsOwn

\* Before the first print the line shows 0, and 0 it is.
LEMMA InitResult == Init => ResultInv
  <1> SUFFICES ASSUME Init PROVE ResultInv
    OBVIOUS
  <1>1. line.shown = 0 /\ line.avg = 0 /\ elapsed = 0
    BY DEF Init, NoLine
  <1>2. 0 % Pow10[Digits] = 0
    <2>1. Pow10[Digits] \in Nat \ {0}
      <3>1. Digits \in 0 .. Digits
        BY TimingAssumption
      <3> QED
        BY <3>1, PowersOfTen
    <2>2. \A p \in Nat \ {0} : 0 % p = 0
      <3> SUFFICES ASSUME NEW p \in Nat \ {0} PROVE 0 % p = 0
        OBVIOUS
      <3>1. 0 \in 0 .. p - 1 /\ 0 = p * 0 + 0 /\ 0 \in Int
        OBVIOUS
      <3> QED
        BY <3>1, OneQuotient
    <2> QED
      BY <2>1, <2>2
  <1> QED
    BY <1>1, <1>2 DEF ResultInv, ResultIsOwn

\* Every step keeps it so.
LEMMA NextResult == ResultInv /\ [Next]_vars => ResultInv'
  <1> SUFFICES ASSUME ResultInv, [Next]_vars PROVE ResultInv'
    OBVIOUS
  <1>1. CASE Call
    <2>1. elapsed' \in Nat
      BY <1>1, TimingAssumption DEF Call, ResultInv
    <2>2. line' = line /\ prog' = prog
      BY <1>1 DEF Call
    <2> QED
      BY <2>1, <2>2 DEF ResultInv, ResultIsOwn
  <1>2. CASE PrintResult
    <2> DEFINE avg == elapsed \div Iterations
    <2>1. avg \in Nat
      <3>1. elapsed \in Nat /\ Iterations \in Nat \ {0}
        BY TimingAssumption DEF ResultInv
      <3> QED
        BY <3>1, QuotientInNat
    <2>2. /\ prog' = prog /\ elapsed' = 0
          /\ result' = IF prog = "bench" THEN result ELSE long_to_str(avg, result)
          /\ line' = [shown |-> IF prog = "bench" THEN avg ELSE Value(result'), avg |-> avg]
      BY <1>2 DEF PrintResult
    <2> HIDE DEF avg
    <2>3. /\ line'.shown = IF prog = "bench" THEN avg ELSE Value(result')
          /\ line'.avg = avg
      BY <2>2
    <2>4. prog # "bench" => Value(result') = avg % Pow10[Digits]
      BY <2>1, <2>2, TemplateShowsNumber
    <2> QED
      BY <2>2, <2>3, <2>4 DEF ResultInv, ResultIsOwn
  <1>3. CASE \/ Clone \/ ChildRuns \/ Wait4 \/ Header \/ StartLoop \/ CallEndsProgram
             \/ SampleFirst \/ SampleSecond \/ Summary \/ UNCHANGED vars
    <2>1. line' = line /\ elapsed' = elapsed /\ prog' = prog
      BY <1>3 DEF Clone, ChildRuns, Wait4, Header, StartLoop, CallEndsProgram,
                  SampleFirst, SampleSecond, Summary, vars, benchVars
    <2> QED
      BY <2>1 DEF ResultInv, ResultIsOwn
  <1> QED
    BY <1>1, <1>2, <1>3 DEF Next

\* All lines are written into one buffer, and each shows its own average: no
\* digit of an earlier, larger one is left, and what the width has no room for
\* is lost from the left.
THEOREM ResultsAreOwn == Spec => []ResultIsOwn
  <1>1. ResultInv => ResultIsOwn
    BY DEF ResultInv
  <1> QED
    BY <1>1, InitResult, NextResult, PTL DEF Spec

(***************************************************************************)
(* The medians of the samplers.                                            *)
(***************************************************************************)

\* How many samples a value is above: sets of places.
LEMMA PlacesAreFinite ==
  ASSUME NEW series \in Seq(Nat), NEW x
  PROVE  /\ IsFiniteSet(DOMAIN series) /\ Cardinality(DOMAIN series) = Len(series)
         /\ Below(series, x) \subseteq DOMAIN series /\ UpTo(series, x) \subseteq DOMAIN series
         /\ IsFiniteSet(Below(series, x)) /\ Cardinality(Below(series, x)) \in Nat
         /\ IsFiniteSet(UpTo(series, x)) /\ Cardinality(UpTo(series, x)) \in Nat
  <1>1. DOMAIN series = 1 .. Len(series) /\ Len(series) \in Nat
    OBVIOUS
  <1>2. IsFiniteSet(DOMAIN series) /\ Cardinality(DOMAIN series) = Len(series)
    <2> DEFINE l == Len(series)
    <2>1. l \in Nat /\ DOMAIN series = 1 .. l
      BY <1>1
    <2> HIDE DEF l
    <2>2. IsFiniteSet(1 .. l) /\ Cardinality(1 .. l) = IF 1 > l THEN 0 ELSE l - 1 + 1
      BY <2>1, FS_Interval
    <2>3. Cardinality(1 .. l) = l
      BY <2>1, <2>2
    <2> QED
      BY <2>1, <2>2, <2>3 DEF l
  <1>3. Below(series, x) \subseteq DOMAIN series /\ UpTo(series, x) \subseteq DOMAIN series
    BY DEF Below, UpTo
  <1> QED
    BY <1>2, <1>3, FS_Subset, FS_CardinalityType

\* There is a sample for every place.
LEMMA PlaceIsTaken ==
  ASSUME NEW series \in Seq(Nat), NEW k \in DOMAIN series
  PROVE  \E x \in {series[n] : n \in DOMAIN series} :
           Cardinality(Below(series, x)) < k /\ k <= Cardinality(UpTo(series, x))
  <1> DEFINE enough == {x \in Nat : k <= Cardinality(UpTo(series, x))}
  <1>1. /\ DOMAIN series = 1 .. Len(series) /\ Len(series) \in Nat /\ k \in Nat \ {0}
        /\ \A n \in DOMAIN series : series[n] \in Nat
    OBVIOUS
  <1>2. enough # {}
    <2>1. PICK top \in Nat : \A n \in 1 .. Len(series) : series[n] <= top
      BY <1>1, NumbersAreBounded
    <2>2. UpTo(series, top) = DOMAIN series
      BY <1>1, <2>1 DEF UpTo
    <2>3. k <= Cardinality(UpTo(series, top))
      BY <1>1, <2>2, PlacesAreFinite
    <2> QED
      BY <2>3
  <1>3. PICK x \in enough : \A y \in enough : x <= y
    <2>1. enough \in SUBSET Nat
      OBVIOUS
    <2> HIDE DEF enough
    <2> QED
      BY <1>2, <2>1, LeastNatural
  <1>4. x \in Nat /\ k <= Cardinality(UpTo(series, x))
    BY <1>3
  <1>5. Cardinality(Below(series, x)) < k
    <2>1. CASE x = 0
      <3>1. Below(series, x) = {}
        BY <1>1, <2>1 DEF Below
      <3> QED
        BY <1>1, <3>1, FS_EmptySet
    <2>2. CASE x # 0
      <3>1. x - 1 \in Nat /\ x - 1 \notin enough
        BY <1>3, <1>4, <2>2
      <3>2. Below(series, x) = UpTo(series, x - 1)
        BY <1>1, <1>4 DEF Below, UpTo
      <3> QED
        BY <1>1, <3>1, <3>2, PlacesAreFinite
    <2> QED
      BY <2>1, <2>2
  <1>6. x \in {series[n] : n \in DOMAIN series}
    <2>1. UpTo(series, x) # Below(series, x)
      BY <1>1, <1>4, <1>5, PlacesAreFinite
    <2>2. PICK n \in DOMAIN series : series[n] <= x /\ ~(series[n] < x)
      BY <2>1 DEF UpTo, Below
    <2> QED
      BY <1>1, <1>4, <2>2
  <1> QED
    BY <1>4, <1>5, <1>6

\* The median: at least half of the samples are not below it, and more than half
\* are not above.
LEMMA MedianIsMiddle ==
  ASSUME NEW series \in Seq(Nat), Len(series) = Samples
  PROVE  /\ Median(series) \in Nat
         /\ \E T \in kSubset(Samples - Samples \div 2, 1 .. Samples) : \A n \in T : series[n] >= Median(series)
         /\ \E T \in kSubset(Samples \div 2 + 1, 1 .. Samples) : \A n \in T : series[n] <= Median(series)
  <1> DEFINE h == Samples \div 2
             x == Median(series)
  <1>1. /\ Samples \in Nat \ {0} /\ h \in Nat /\ h + 1 \in 1 .. Samples
        /\ DOMAIN series = 1 .. Samples /\ \A n \in 1 .. Samples : series[n] \in Nat
    <2>1. Samples \in Nat \ {0}
      BY TimingAssumption
    <2>2. h \in Nat /\ h + 1 \in 1 .. Samples
      BY <2>1
    <2>3. DOMAIN series = 1 .. Samples
      OBVIOUS
    <2>4. \A n \in 1 .. Samples : series[n] \in Nat
      BY <2>3
    <2> QED
      BY <2>1, <2>2, <2>3, <2>4
  <1> HIDE DEF h
  <1>2. /\ x \in {series[n] : n \in DOMAIN series}
        /\ Cardinality(Below(series, x)) < h + 1 /\ h + 1 <= Cardinality(UpTo(series, x))
    <2>1. \E y \in {series[n] : n \in DOMAIN series} :
            Cardinality(Below(series, y)) < h + 1 /\ h + 1 <= Cardinality(UpTo(series, y))
      BY <1>1, PlaceIsTaken
    <2>2. x = CHOOSE y \in {series[n] : n \in DOMAIN series} :
                Cardinality(Below(series, y)) < h + 1 /\ h + 1 <= Cardinality(UpTo(series, y))
      BY <1>1 DEF Median, Sorted, h
    <2> QED
      BY <2>1, <2>2
  <1> HIDE DEF x
  <1>3. x \in Nat
    BY <1>1, <1>2
  <1>4. PICK S \in SUBSET ((1 .. Samples) \ Below(series, x)) : Cardinality(S) = Samples - h
    <2> DEFINE rest == (1 .. Samples) \ Below(series, x)
    <2>1. /\ IsFiniteSet(1 .. Samples) /\ Cardinality(1 .. Samples) = Samples
          /\ IsFiniteSet(Below(series, x)) /\ Cardinality(Below(series, x)) \in Nat
          /\ Below(series, x) \subseteq 1 .. Samples
      BY <1>1, PlacesAreFinite
    <2>2. (1 .. Samples) \cap Below(series, x) = Below(series, x)
      BY <2>1
    <2>3. IsFiniteSet(rest) /\ Cardinality(rest) = Samples - Cardinality(Below(series, x))
      <3> DEFINE all == 1 .. Samples
                 below == Below(series, x)
      <3>1. IsFiniteSet(all) /\ all \cap below = below
        BY <2>1, <2>2
      <3> HIDE DEF all, below
      <3>2. IsFiniteSet(all \ below) /\ Cardinality(all \ below) = Cardinality(all) - Cardinality(below)
        BY <3>1, FS_Difference
      <3> QED
        BY <2>1, <3>2 DEF all, below
    <2>4. Samples - h \in 0 .. Cardinality(rest)
      BY <1>1, <1>2, <2>1, <2>3
    <2> HIDE DEF rest
    <2>5. \E S \in SUBSET rest : Cardinality(S) = Samples - h
      BY <2>3, <2>4, SubsetOfSize
    <2> QED
      BY <2>5 DEF rest
  <1>5. PICK T \in SUBSET UpTo(series, x) : Cardinality(T) = h + 1
    <2>1. IsFiniteSet(UpTo(series, x)) /\ h + 1 \in 0 .. Cardinality(UpTo(series, x))
      BY <1>1, <1>2, PlacesAreFinite
    <2> QED
      BY <2>1, SubsetOfSize
  <1>6. S \in kSubset(Samples - h, 1 .. Samples) /\ \A n \in S : series[n] >= x
    BY <1>1, <1>3, <1>4 DEF kSubset, Below
  <1>7. T \in kSubset(h + 1, 1 .. Samples) /\ \A n \in T : series[n] <= x
    BY <1>1, <1>5 DEF kSubset, UpTo
  <1> QED
    BY <1>3, <1>6, <1>7 DEF h, x

\* What is shown of two numbers is shown of a larger and a smaller one.
LEMMA ExceedsMore ==
  ASSUME NEW n \in Nat, NEW d \in Nat, NEW percent \in Nat, Exceeds(n, d, percent),
         NEW m \in Nat, NEW e \in Nat, m >= n, e <= d
  PROVE  Exceeds(m, e, percent)
  <1>1. n > d
    BY ExceedingIsMore
  <1>2. CASE e = 0
    BY <1>1, <1>2 DEF Exceeds
  <1>3. CASE e # 0
    <2> DEFINE f == 1000 + percent
    <2>1. f \in Nat /\ 1000 * n > f * d
      BY <1>3 DEF Exceeds
    <2> HIDE DEF f
    <2>2. f * e <= f * d /\ f * e \in Int /\ f * d \in Int
      BY <2>1
    <2>3. 1000 * m > f * e
      BY <2>1, <2>2
    <2> QED
      BY <1>3, <2>3 DEF Exceeds, f
  <1> QED
    BY <1>2, <1>3

MedianInv == SampleInv /\ OutliersDoNotDecide

\* Nothing is said of the median before the end.
LEMMA NoMedianYet == ASSUME summary = [verdict |-> "none"] PROVE OutliersDoNotDecide
  <1>1. "median" \notin DOMAIN summary
    OBVIOUS
  <1> QED
    BY <1>1 DEF OutliersDoNotDecide

\* The medians compare halves of the series.
LEMMA SummaryMedian == SampleInv /\ Summary => OutliersDoNotDecide'
  <1> SUFFICES ASSUME SampleInv, Summary PROVE OutliersDoNotDecide'
    OBVIOUS
  <1> DEFINE median == Exceeds(Median(Subject), Median(Baseline), 15)
  <1>1. summary'.median = median /\ Subject' = Subject /\ Baseline' = Baseline /\ pc = "summary"
    BY DEF Summary, Subject, Baseline
  <1>2. /\ Subject \in Seq(Nat) /\ Len(Subject) = Samples
        /\ Baseline \in Seq(Nat) /\ Len(Baseline) = Samples
    BY <1>1 DEF SampleInv, Subject, Baseline
  <1>3. Median(Subject) \in Nat /\ Median(Baseline) \in Nat
    BY <1>2, MedianIsMiddle
  <1>4. PICK S \in kSubset(Samples - Samples \div 2, 1 .. Samples) :
          \A n \in S : Subject[n] >= Median(Subject)
    BY <1>2, MedianIsMiddle
  <1>5. PICK B \in kSubset(Samples \div 2 + 1, 1 .. Samples) :
          \A n \in B : Baseline[n] <= Median(Baseline)
    BY <1>2, MedianIsMiddle
  <1>6. ASSUME median, NEW x \in S, NEW y \in B PROVE Exceeds(Subject[x], Baseline[y], 15)
    <2>1. x \in 1 .. Samples /\ y \in 1 .. Samples
      BY <1>4, <1>5 DEF kSubset
    <2>2. Subject[x] \in Nat /\ Baseline[y] \in Nat
      BY <1>2, <2>1
    <2>3. 15 \in Nat
      OBVIOUS
    <2> QED
      BY <1>3, <1>4, <1>5, <1>6, <2>2, <2>3, ExceedsMore
  <1> HIDE DEF median
  <1> QED
    BY <1>1, <1>4, <1>5, <1>6 DEF OutliersDoNotDecide

\* Every step keeps it.
LEMMA NextMedian == MedianInv /\ [Next]_vars => MedianInv'
  <1> SUFFICES ASSUME MedianInv, [Next]_vars PROVE MedianInv'
    OBVIOUS
  <1>0. SampleInv'
    BY NextSample DEF MedianInv
  <1>1. CASE Summary
    BY <1>0, <1>1, SummaryMedian DEF MedianInv
  <1>2. CASE SampleFirst \/ SampleSecond
    <2>1. summary' = [verdict |-> "none"]
      BY <1>2 DEF MedianInv, SampleInv, SampleFirst, SampleSecond
    <2>2. OutliersDoNotDecide'
      BY <2>1 DEF OutliersDoNotDecide
    <2> QED
      BY <1>0, <2>2 DEF MedianInv
  <1>3. CASE \/ Clone \/ ChildRuns \/ Wait4 \/ Header \/ StartLoop \/ Call \/ CallEndsProgram \/ PrintResult
             \/ UNCHANGED vars
    <2>1. first' = first /\ second' = second /\ summary' = summary /\ prog' = prog
      BY <1>3 DEF Clone, ChildRuns, Wait4, Header, StartLoop, Call, CallEndsProgram, PrintResult,
                  vars, sampleVars
    <2>2. OutliersDoNotDecide'
      BY <2>1 DEF MedianInv, OutliersDoNotDecide, Subject, Baseline
    <2> QED
      BY <1>0, <2>2 DEF MedianInv
  <1> QED
    BY <1>1, <1>2, <1>3 DEF Next

\* A few slow samples decide nothing: the median's overhead is shown only if half
\* of the subject's series exceeds more than half of the baseline's by as much.
THEOREM OutliersCannotDecide == Spec => []OutliersDoNotDecide
  <1>1. Init => MedianInv
    <2> SUFFICES ASSUME Init PROVE MedianInv
      OBVIOUS
    <2>1. summary = [verdict |-> "none"]
      BY DEF Init
    <2> QED
      BY <2>1, InitSample, NoMedianYet DEF MedianInv
  <1>2. MedianInv => OutliersDoNotDecide
    BY DEF MedianInv
  <1> QED
    BY <1>1, <1>2, NextMedian, PTL DEF Spec

=============================================================================
