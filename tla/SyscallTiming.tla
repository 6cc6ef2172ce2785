--------------------------- MODULE SyscallTiming ---------------------------
(***************************************************************************)
(* The programs that time system calls.  The three benches (syscall_bench, *)
(* and bench and bench_faccessat2 without a C library) look for a seccomp  *)
(* filter with a child process, probe for su, and print one average per    *)
(* call and path.  The two samplers (prctl_abuse, stat_bench) take two     *)
(* series of samples and compare their averages and medians.               *)
(*                                                                         *)
(* One step is one timed call or batch, one print, or one system call of   *)
(* the seccomp check, where parent and child run side by side.             *)
(***************************************************************************)
EXTENDS Integers, Sequences, FiniteSetsExt

CONSTANTS
    Iterations,   \* n_iterations (1000000) of the benches
    CallTimes,    \* what one call may take, in ns
    Digits,       \* width of the result template (7)
    Samples,      \* N_ITERATIONS (1000) of the samplers
    Batch,        \* N_BATCH (8)
    BatchTimes    \* what one batch may take

ASSUME TimingAssumption ==
    /\ {Iterations, Digits, Samples, Batch} \subseteq Nat \ {0}
    /\ CallTimes \subseteq Nat /\ BatchTimes \subseteq Nat

SmallBenches == {"bench_nocrt0", "bench_faccessat2"}
Benches == {"bench"} \cup SmallBenches
Samplers == {"prctl_abuse", "stat_bench"}

VARIABLES
    prog,
    world,      \* what the program runs in, see World
    pc,
    pid, child, status, is_seccomp_enabled,
    uid,        \* "root", "user", or "app" once setresuid(10000) took effect
    header,     \* the two findings printed first: [su, seccomp]
    j, c,       \* the test and the call of it being timed
    label,      \* the digit in the templates
    i, elapsed, \* calls made, and t1 - t0
    result,     \* the digits of result_template, shared by all lines
    line,       \* the last average printed: [shown, avg]
    printed,    \* the lines printed: [label, call, path]
    first, second,   \* the samplers' two series
    summary     \* what the samplers print at the end

checkVars == <<pid, child, status, is_seccomp_enabled>>
benchVars == <<uid, header, j, c, label, i, elapsed, result, line, printed>>
sampleVars == <<first, second, summary>>
vars == <<prog, world, pc, checkVars, benchVars, sampleVars>>

\* kills: calls a seccomp filter kills for; planted: /system/bin/su_ exists;
\* su: KernelSU shows su to this caller; reaps: SIGCHLD is not ignored.
World ==
    [kills : SUBSET {"swapoff", "setresuid"}, planted : BOOLEAN, arm : BOOLEAN,
     root : BOOLEAN, su : BOOLEAN, reaps : BOOLEAN]

\* Settings a program does not look at are fixed.
Plain(w) == w.kills = {} /\ ~w.planted /\ ~w.arm /\ w.root /\ ~w.su /\ w.reaps

\* The benches without a C library time setresuid before their loop: test -1.
FirstTest(p) == IF p = "bench" THEN 0 ELSE -1

NoLine == [shown |-> 0, avg |-> 0]

Init ==
    /\ prog \in Benches \cup Samplers
    /\ world \in World
    /\ prog \in Samplers => Plain(world)
    /\ prog = "bench" => ~world.arm
    /\ pc = IF prog \in Benches THEN "clone" ELSE "first"
    /\ pid = 0 /\ child = "none" /\ status = "exited" /\ is_seccomp_enabled = FALSE
    /\ uid = IF world.root THEN "root" ELSE "user"
    /\ header = [su |-> FALSE, seccomp |-> FALSE]
    /\ j = FirstTest(prog) /\ c = 1 /\ label = 0
    /\ i = 0 /\ elapsed = 0
    /\ result = [n \in 1 .. Digits |-> 0] /\ line = NoLine /\ printed = <<>>
    /\ first = <<>> /\ second = <<>> /\ summary = [verdict |-> "none"]

(***************************************************************************)
(* check_seccomp.                                                          *)
(***************************************************************************)

\* The child's number, or an error: -1 from the C library's wrapper, any
\* negative number from the raw call.
Clone ==
    /\ pc = "clone"
    /\ \/ pid' = 100 /\ child' = "running"
       \/ pid' \in (IF prog = "bench" THEN {-1} ELSE {-1, -11}) /\ UNCHANGED child
    /\ pc' = IF pid' = -1 THEN "probe" ELSE "wait4"
    /\ UNCHANGED <<prog, world, status, is_seccomp_enabled, benchVars, sampleVars>>

\* Mutant: the child does not leave by itself.
ChildStays ==
    /\ child = "running"
    /\ "swapoff" \in world.kills
    /\ child' = "killed"
    /\ UNCHANGED <<prog, world, pc, pid, status, is_seccomp_enabled, benchVars, sampleVars>>

\* The child calls swapoff and, if it is still there, exits.
ChildRuns ==
    /\ child = "running"
    /\ child' = IF "swapoff" \in world.kills THEN "killed" ELSE "exited"
    /\ UNCHANGED <<prog, world, pc, pid, status, is_seccomp_enabled, benchVars, sampleVars>>

\* Mutant: the status is not tested for a signal.
AnyStatus(s) == TRUE

WIFSIGNALED(s) == s = "killed"

\* wait4 waits for the child.  It fails, and leaves status alone, when there is
\* none, or when the child's status was thrown away.
Wait4 ==
    /\ pc = "wait4"
    /\ child # "running"
    /\ status' = IF child # "none" /\ world.reaps THEN child ELSE status
    /\ child' = "none"
    /\ is_seccomp_enabled' = WIFSIGNALED(status')
    /\ pc' = "probe"
    /\ UNCHANGED <<prog, world, pid, benchVars, sampleVars>>

(***************************************************************************)
(* The header.                                                             *)
(***************************************************************************)

\* su is looked for with the rights the program has at this point.
SuFound == world.su /\ uid # "app"

Header ==
    /\ pc = "probe"
    /\ header' = [su |-> SuFound, seccomp |-> is_seccomp_enabled]
    /\ pc' = "start_loop"
    /\ UNCHANGED <<prog, world, checkVars, uid, j, c, label, i, elapsed, result, line, printed, sampleVars>>

(***************************************************************************)
(* The timed calls.                                                        *)
(***************************************************************************)

\* What the note printed before the results says of the labels.
Legend == <<"NULL", "/dev/null", "/system/bin/su_", "unaligned">>

tests == <<"NULL", "/dev/null", "/system/bin/su_", "unaligned">>
num_tests == IF prog = "bench" THEN 3 ELSE 4
PathOf(n) == IF n = -1 THEN "none" ELSE tests[n + 1]

\* The calls of the loop in syscall_bench and in the two others; on arm the
\* 16-bit setresuid is timed as well.
LoopCalls ==
    IF prog = "bench_faccessat2" THEN <<"faccessat", "faccessat2">>
    ELSE <<"newfstatat", "faccessat", "execve">>
Calls ==
    IF j = -1 THEN (IF world.arm THEN <<"setresuid16">> ELSE <<>>) \o <<"setresuid">> ELSE LoopCalls

\* Mutant: the digit counts from zero like the array.
LabelFromZero(n) == n

\* 49 + j: the array starts with 0, humans count with 1.
LabelOf(n) == n + 1

StartLoop ==
    /\ pc = "start_loop"
    /\ label' = IF j = -1 THEN 0 ELSE LabelOf(j)
    /\ pc' = "call"
    /\ UNCHANGED <<prog, world, checkVars, uid, header, j, c, i, elapsed, result, line, printed, sampleVars>>

\* execve comes back only if there is nothing to execute.
Replaces == Calls[c] = "execve" /\ PathOf(j) = "/system/bin/su_" /\ world.planted
Kills == j = -1 /\ "setresuid" \in world.kills

\* One turn of the loop of run_bench.  Root gives up its rights for good with
\* the first setresuid(10000, 10000, 10000).
Call ==
    /\ pc = "call"
    /\ ~Replaces /\ ~Kills
    /\ \E d \in CallTimes : elapsed' = elapsed + d
    /\ uid' = IF j = -1 /\ uid = "root" THEN "app" ELSE uid
    /\ i' = i + 1
    /\ pc' = IF i' < Iterations THEN "call" ELSE "print"
    /\ UNCHANGED <<prog, world, checkVars, header, j, c, label, result, line, printed, sampleVars>>

\* execve succeeds, or the filter does not allow the call.
CallEndsProgram ==
    /\ pc = "call"
    /\ Replaces \/ Kills
    /\ pc' = IF Kills THEN "killed" ELSE "replaced"
    /\ UNCHANGED <<prog, world, checkVars, benchVars, sampleVars>>

Pow10[n \in 0 .. Digits] == IF n = 0 THEN 1 ELSE 10 * Pow10[n - 1]

\* The number the digits of the template show.
Value(digits) ==
    LET value[n \in 0 .. Digits] == IF n = 0 THEN 0 ELSE 10 * value[n - 1] + digits[n]
    IN  value[Digits]

\* Mutant: the conversion stops when the rest of the number is zero.
UntilZero(number, buf) ==
    [n \in 1 .. Digits |->
        IF number \div Pow10[Digits - n] = 0 THEN buf[n] ELSE (number \div Pow10[Digits - n]) % 10]

\* From the last digit to the first, leading zeros included.
long_to_str(number, buf) == [n \in 1 .. Digits |-> (number \div Pow10[Digits - n]) % 10]

\* The next call of this test, the next test, or the end.
Advance ==
    /\ c' = IF c < Len(Calls) THEN c + 1 ELSE 1
    /\ j' = IF c < Len(Calls) THEN j ELSE j + 1
    /\ pc' = CASE j' = j -> "call"
               [] j' # j /\ j' < num_tests -> "start_loop"
               [] OTHER -> "done"

\* The average goes into the template all lines share; syscall_bench has
\* printf, which shows all of it.
PrintResult ==
    /\ pc = "print"
    /\ LET avg == elapsed \div Iterations IN
       /\ result' = IF prog = "bench" THEN result ELSE long_to_str(avg, result)
       /\ line' = [shown |-> IF prog = "bench" THEN avg ELSE Value(result'), avg |-> avg]
    /\ printed' = Append(printed, [label |-> label, call |-> Calls[c], path |-> PathOf(j)])
    /\ i' = 0 /\ elapsed' = 0
    /\ Advance
    /\ UNCHANGED <<prog, world, checkVars, uid, header, label, sampleVars>>

(***************************************************************************)
(* The samplers.                                                           *)
(***************************************************************************)

\* After 250 batches nobody looks at, one series of samples, then the other.
Sample(series) == \E t \in BatchTimes : series' = Append(series, t \div Batch)

SampleFirst ==
    /\ pc = "first"
    /\ Sample(first)
    /\ pc' = IF Len(first') < Samples THEN "first" ELSE "second"
    /\ UNCHANGED <<prog, world, checkVars, benchVars, second, summary>>

SampleSecond ==
    /\ pc = "second"
    /\ Sample(second)
    /\ pc' = IF Len(second') < Samples THEN "second" ELSE "summary"
    /\ UNCHANGED <<prog, world, checkVars, benchVars, first, summary>>

\* The call that is compared, and the one it is compared with: prctl_abuse
\* samples the latter first, stat_bench the former.
Subject == IF prog = "prctl_abuse" THEN second ELSE first
Baseline == IF prog = "prctl_abuse" THEN first ELSE second

Total(series) ==
    LET total[n \in 0 .. Len(series)] == IF n = 0 THEN 0 ELSE total[n - 1] + series[n]
    IN  total[Len(series)]

Average(series) == Total(series) \div Samples

\* Mutant: the series is not sorted.
MiddleOf(series) == series[Samples \div 2 + 1]

Below(series, x) == {n \in DOMAIN series : series[n] < x}
UpTo(series, x) == {n \in DOMAIN series : series[n] <= x}

\* qsort with compare_ull: the k-th place holds the sample that fewer than k are
\* below, and at least k are not above.
Sorted(series) ==
    [k \in DOMAIN series |->
        CHOOSE x \in {series[n] : n \in DOMAIN series} :
            Cardinality(Below(series, x)) < k /\ k <= Cardinality(UpTo(series, x))]

Median(series) == Sorted(series)[Samples \div 2 + 1]

\* (n / d - 1) * 100 against percent / 10, in doubles: n / 0 is infinite, 0 / 0
\* compares false, and a ratio of exactly 1.015 or 1.005 comes out below.
Exceeds(n, d, percent) ==
    IF d = 0 THEN n > 0 ELSE 1000 * n > (1000 + percent) * d

\* Mutant: either measure is enough.
EitherMeasure(avg, median) ==
    CASE median \/ avg.high -> "high"
      [] ~median /\ ~avg.high /\ avg.maybe -> "maybe"
      [] OTHER -> "try again"

Verdict(avg, median) ==
    CASE median /\ avg.high -> "high"
      [] median /\ ~avg.high /\ avg.maybe -> "maybe"
      [] OTHER -> "try again"

\* stat_bench prints the overheads and no verdict.
Summary ==
    /\ pc = "summary"
    /\ LET n == Average(Subject)
           d == Average(Baseline)
           median == Exceeds(Median(Subject), Median(Baseline), 15)
           avg == [high |-> Exceeds(n, d, 15), maybe |-> Exceeds(n, d, 5)]
       IN  summary' = [median |-> median, avg |-> avg,
                       verdict |-> IF prog = "prctl_abuse" THEN Verdict(avg, median) ELSE "none"]
    /\ pc' = "done"
    /\ UNCHANGED <<prog, world, checkVars, benchVars, first, second>>

Next ==
    \/ Clone \/ ChildRuns \/ Wait4
    \/ Header \/ StartLoop \/ Call \/ CallEndsProgram \/ PrintResult
    \/ SampleFirst \/ SampleSecond \/ Summary

Spec == Init /\ [][Next]_vars /\ WF_vars(Next)

(***************************************************************************)
(* Properties.                                                             *)
(***************************************************************************)

\* What the header says of the system the program was started in, whichever of
\* parent and child ran first and whichever call failed.  su is reported as the
\* caller sees it and not as the app the program turns into.  A filter is
\* reported if and only if it killed a child that could be made and whose status
\* was kept: a filter that is reported is there, but one that is there goes
\* unreported when clone failed or, since the result of wait4 is not tested, when
\* the status was thrown away.
HeaderIsTrue ==
    prog \in Benches /\ pc \notin {"clone", "wait4", "probe"} =>
        /\ header.su = world.su
        /\ header.seccomp <=> "swapoff" \in world.kills /\ pid = 100 /\ world.reaps

\* All lines are printed from one buffer: no digit of an earlier, larger result
\* shows in a later one.  Averages with more digits than the buffer lose their
\* leading ones.
ResultIsOwn ==
    line.shown = IF prog = "bench" THEN line.avg ELSE line.avg % Pow10[Digits]

\* The label of every line is the one the legend gives to the path that was
\* really passed, and a program that gets to its end has timed every call with
\* every path, once.
EveryLineOnce ==
    /\ \A l \in {printed[n] : n \in DOMAIN printed} :
         IF l.label = 0 THEN l.path = "none" ELSE l.path = Legend[l.label]
    /\ prog \in Benches /\ pc = "done" =>
         \A n \in 1 .. num_tests, k \in DOMAIN LoopCalls :
             Cardinality({m \in DOMAIN printed : printed[m].label = n /\ printed[m].call = LoopCalls[k]}) = 1

\* A few slow samples decide nothing: the median's overhead is shown as 1.5% or
\* more only if each sample in half of the subject's series exceeds each one in
\* more than half of the baseline's by as much.
OutliersDoNotDecide ==
    "median" \in DOMAIN summary /\ summary.median =>
        \E S \in kSubset(Samples - Samples \div 2, 1 .. Samples),
           B \in kSubset(Samples \div 2 + 1, 1 .. Samples) :
              \A x \in S, y \in B : Exceeds(Subject[x], Baseline[y], 15)

\* A verdict other than "try again" has both measures behind it: the typical
\* sample is slower, and so is the whole series.
VerdictHasBoth ==
    summary.verdict \in {"high", "maybe"} =>
        /\ Total(Subject) > Total(Baseline)
        /\ summary.median

\* Every program comes to an end: it prints its last line, is killed by a
\* filter, or becomes another program.
Ends == <>(pc \in {"done", "killed", "replaced"})

=============================================================================
