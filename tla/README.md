# A TLA+ verification of various_stuff

`various_stuff` is a collection of small Android, kernel and router programs:
a loadable kernel module that finds symbols the kernel does not export, the
command-line tools around KernelSU, programs that start without a C library,
LED and boot scripts. There is no server and no common main loop. What the
parts have in common is that each works against state it does not own, the
kernel's, and that most of its code is about a call that may fail, or about a
value that may have changed since it was read.

This directory models the parts that carry logic, checks them with TLC on small
instances, and proves the main safety properties with TLAPS for all instances.

## 1. Inventory

| Part (source) | State | Operations | Interacts with | Hard to test |
|---|---|---|---|---|
| `lkm_template/main.c` | function pointers, scan position and range, a kprobe on the stack | `lkm_boostrap`, `bootstrap_kallsyms_lookup_name`, `kp_kallsyms_lookup_name`, `hunt_sys_call_table`, `lkm_template_init` | kernel text and data, kallsyms, kprobes, the module loader | layouts of kernels one does not have; missing exports; unreadable memory; loop bounds |
| `kernelsu/ksu_uapi/profile.c` | a copy of an app profile, the manager's uid | `--getuidinfo`, `--setumount`, `--create`, `--setroot` | KernelSU's profile store, the manager app, other invocations | unlocked read-modify-write; a union read two ways; stale uid |
| `kernelsu/ksu_fd`, `ksu_uapi/uapi.c` | one descriptor | magic reboot, GET_INFO, SET_FEATURE, close | KernelSU, the inherited descriptor table | descriptor 0 |
| `kernelsu/tinyfs_su`, `small_start_tests/small_su.c` | one descriptor, reused | magic reboot, GRANT_ROOT, log, execve twice | KernelSU, what is executed | partial failure |
| `proc_ops` | the write slot of `/proc/kallsyms`, a path reference, a caller's registers | the installing thread, `ksym_write`, `shitcall` | VFS, all writers of the file | hook installed while in use; faults |
| `small_start_tests/grab_umount_list.c` | a buffer sized by an earlier answer | GETSIZE, GETLIST, walk | KernelSU's list, programs that edit it | list changes between two requests |
| `small_rt.h` and copies, `small_start`, `hello3.c` | initial stack, registers | find argc, argv, envp; call main; system call wrappers | kernel ABI, compiler | off-by-one in the stack walk; register allocation |
| `hashing/test.c` | growing array of hashes | insert, lookup | allocator | failed `realloc`, colliding hashes |
| `sulog_test` | copy of a ring and its index | copy, reorder, print | KernelSU, callers of su | ring moves between two copies |
| `mr7350-led-scripts` | brightness counters, a byte counter | endless loops | sysfs, the network | phase arithmetic; packets during the sleep |
| `syscall_shit` benches, `stat_abuse`, `prctl_abuse` | samples, a child process, one result buffer | time, print, sort, judge; `check_seccomp` | kernel, seccomp | lost wait status; shared buffer; outliers |
| `task_snapshots`, `cleanup_defer`, `syscall_backports_test` | none kept | a boot script; cleanup attributes; one call each | file system, compiler, kernel | see section 6 |

Firmware images, microcode, documents, patches to other projects, the vendored
`chibihash64.h` and programs that make one call and print the result have no
state to model; `PROJECT.json` lists each of them with its reason, and the
hazards of all parts by line.

For each modelled part, what makes it correct:

* **lkm_template**: what it finds is the entry of the right symbol; what it does
  not find is not in reach; it never calls a null pointer or leaves a probe
  behind; the table address it reports is real; `init` always returns.
* **profile.c**: no interleaving gives root to an app nobody asked it for; a
  granted profile holds no byte of the non-root one; only `--create` creates;
  system uids are out of reach; every invocation ends.
* **ksu_fd, su**: no shell without root; arguments and environment handed over
  whole; no descriptor lost or leaked.
* **small_rt**: argv and envp are what execve was given; a call reaches the kernel
  with the arguments it was made with.
* **proc_ops**: success reported to a caller means the kernel heard it; other
  writers are left alone; the path reference is balanced.
* **grab_umount_list, sulog, hashing**: the list is printed whole, in order, and
  nothing else; the ring is shown oldest first; the table is a set.
* **timing programs**: the header tells the truth about the system; each line is
  about the call and path it is labelled with; outliers do not decide.
* **LED scripts**: only brightnesses are written; colours follow each other as
  intended, for ever; every byte received is shown once.

## 2. Modules

```
KernelImage                    external kernel services, symbol text
 +- LkmBootstrap
 |     +- LkmTemplate          bootstrap + hunt  == implements ==> LkmLoad
 +- LkmHunt ---/  \-- LkmTemplate_proofs
 +- LkmLoad                    what loading the module promises
KsuProfile   -- KsuProfile_proofs
SmallRt                        start-up, system call wrappers, demos
 +- KsuClient -- KsuClient_proofs
ProcOps      -- ProcOps_proofs
UmountList, Sulog, HashTable
 +- ListPrograms -- ListPrograms_proofs
SyscallTiming -- SyscallTiming_proofs
LedScripts   -- LedScripts_proofs
NumberLemmas                   division, induction and recursion, for the proofs
MC*                            instances for TLC
```

A definition prefixed by a comment `Mutant:` is a plausible wrong version of the
definition below it. No specification uses it; it documents what the properties
are able to tell apart, and `PROJECT.json` pairs each with the property it
breaks.

### KernelImage, LkmBootstrap, LkmHunt, LkmTemplate, LkmLoad

A kernel is a record: symbols (name, start, size, module), unreadable addresses,
exported names, the page offset of every `adrp` instruction, and the pointer in
every data slot. The sets of these are `Images`; addresses wrap modulo `Word`.
`sprint_symbol`, `kallsyms_lookup_name`, `symbol_get` are external.
`compat_kallsyms_lookup_size_offset` and `get_ksym_size` parse the text
`sprint_symbol` prints. The text itself is abstracted to the fields that can be
parsed back from it: name, offset, size, and the module, whose suffix makes the
number before it unparsable.

`LkmBootstrap` follows `lkm_boostrap` label by label: both exports or the scan;
resolve, register, read the address, unregister; the radiating scan with its two
probes per round (`Above(i)` and `Below(i)`, 64 bytes apart), its bound
`MaxIter`, and the range it reports. The source names the bounds `r_high` and
`r_low` the wrong way round and prints them in the right order, so the message
is right; `RangeReported` checks it against `missed`, a history variable with
the addresses probed in vain. The comment in the source asks for symbols
of at least 32 instructions; the proof shows that 16 are enough.

`LkmHunt` follows `hunt_sys_call_table` through three candidate handlers
(one before 4.19), the walk over the handler's instructions and, for every
`adrp`, the walk over the page it points to.

`LkmTemplate` composes the two as `lkm_template_init` does. Its refinement
mapping to `LkmLoad` shows only the reported slot and the return value.

### KsuProfile

One process per invocation; one step from one access to shared kernel state to
the next. `struct app_profile` is kept with its union as bytes: `use_default` is
the first byte of both members; the second byte is `umount_modules` of the one
and the first letter of the root template's name of the other. The manager app
(`ManagerSets`, `ManagerMoves`) writes profiles and may be removed or reinstalled
at any time, and KernelSU prunes the profile of an app that is uninstalled
(`AppUninstalled`), also between a command's read and its write. The tool writes
its whole copy back without a second look, so that such a profile returns;
`UpdatesNeedAProfile` says that this is the only way in which a command other
than `--create` adds a profile, and `pruned`, a history variable, tells the case
apart. A command is abstracted to what the code reads from it: the uid
`atoi` yields, whether the argument begins with `1`, and the number `atoi` makes
of the same argument.

### SmallRt and KsuClient

`SmallRt` is the part under every program without a C library. The stack is the
sequence of words execve leaves; `argv` and `envp` are positions in it. A build
fixes the architecture and, for x86_64, the registers the compiler gives to the
operands `d`, `e` and `f`, which the source leaves to it. `KernelSees` carries a
call through the wrapper's register moves to what the kernel reads. Three demos
print what they were started with.

`KsuClient` extends it with seven programs that share an opening. The descriptor
table is explicit, and the kernel hands out the lowest free number, because the
programs take 0 for "no descriptor". The KernelSU of the kernel (present or not,
answering the current or the legacy request, granting or refusing) is chosen
initially. `su` and `small_su` start through `PrepMain`, rename themselves in
the stack words and execute through `KernelSees`. Programs linked with a C
library are given the same start and one fixed build; that code is the
library's.

### ProcOps

The thread `ksu_init_hook_kallsyms_ops`, any number of callers (`userspace.c`)
and any number of other programs that write to the file. Each of the copies
between user and kernel memory may fault. `copy_magic` and `copy_regs` are
separate steps, as the code reads the user's memory twice.

### UmountList, Sulog, HashTable, ListPrograms

In `UmountList` memory from the buffer upwards is a sequence of bytes, since the
properties are about sizes and terminators. Bytes above the buffer belong to
other frames and hold anything. The kernel's list changes at any time. A list
that has outgrown the buffer is written over those frames: from there on the
program may die at any step (`Smashed`).

In `Sulog` an entry is the number of the su call it records, so that order can be
stated. KernelSU copies the index and the ring one after the other, in either
order, and calls are logged in between. The index it hands out is taken to be
the slot written next, as the program's own messages say (`sulog_test.c:32`).

In `HashTable` the hash function is chosen initially among all functions from
words to hashes, so colliding words and words whose hash is 0 occur. `realloc`
may fail at every growth; a later one starts from a null pointer, and the entries
before the new one are then whatever the block held.

`ListPrograms` runs one of the three beside the rest of the phone.

### SyscallTiming

Five programs. `World` is what they run in: which calls a seccomp filter kills
for, whether the caller is root, sees su, and ignores SIGCHLD. In the benches
the child of `check_seccomp` and its parent interleave; a raw `clone` may return
an error other than -1, which the test `pid == -1` lets through to `wait4`. The
timed loop is one step per call; `setresuid` changes the caller for all later
steps. The result buffer keeps its digits from line to line. `syscall_bench`
writes its nine loops out; `LoopCalls` stands for them.

The samplers keep both series, so that the median's robustness can be stated
against the samples themselves.

### LedScripts

One step per write to a LED. The interface's counter grows between any two steps,
disappears, and restarts from zero; `arrived` is a history variable, the
bytes that came since the last read.

## 3. Runs

| Run | Instance | Shows |
|---|---|---|
| `lkm` | some 1600 kernels in five families, `MaxIter` 3, pages of 4 slots | entry found, nothing in reach missed, the range reported is the smallest that holds every address probed in vain, no null call, probe balanced; the hunt agrees with a search of the whole text; implements `LkmLoad`, its liveness included |
| `ksu_profile` | 2 invocations, 10 command lines, 1 manager | root only by request, no byte of the other union member in a root profile, no profile out of nothing, no system uid, termination; beside the manager and the removal of the app |
| `ksu_client` | 10 programs, 4 architectures, 24 register allocations on x86_64, 6 argument lists, 3 environments, every KernelSU, stdin open or closed | root before shell, arguments handed over, descriptors, demos print what they were given, calls arrive, termination |
| `proc_ops` | 2 callers, 1 other writer | success was heard, others left alone, path balanced |
| `list_programs` | strings of 1 and 2 bytes, 3 entries, 2 changes, 12 bytes of stack; a ring of 3 slots, 7 su calls; 5 inserts of 4 words, 3 hashes | list printed whole and nothing else when it shrank, one empty line when it was emptied; ring oldest first, turned by exactly the calls logged between the copies; table is the set; termination |
| `syscall_timing` | 2 calls per average, 2 digits, 4 samples, 5 batch times, every world | true header, own result, every line once and rightly labelled, outliers and verdict, termination |
| `led_scripts` | 4 scripts, bursts below and above the scale | brightnesses, one colour at a time, never darker than the level where two colours cross, traffic counted once, each colour again and again |

Runs that end in a violation, each a statement of the source that its code does
not keep:

| Run | Statement | What happens |
|---|---|---|
| `lkm_page_walk` | `max_tries = 4096 / 8` (`main.c:298`) | one slot of the next page is read |
| `ksu_profile_umount_race` | "umount for SU app is nono" (`profile.c:182`) | root granted between check and write; the app loses it |
| `ksu_client_zero` | "if its still 0 then it failed" (`ksu_fd.c:29`) | with stdin closed the descriptor is 0 |
| `umount_list_fits` | "the same size of memory" (`grab_umount_list.c:109`) | the list grew between the two requests |
| `small_rt_six` | `__syscall(n, a, b, c, d, e, f)` (`small_rt.h:51`) | on x86_64 the moves to r10, r8, r9 may overwrite `e` or `f` before they are read; `CallArrives` shows that the number and the first four arguments always arrive, and no caller in the repository passes more |

More such places are in the model as the code has them, without a run:

* `--setumount uid 2` writes 0 and prints "umount set to 1" (`profile.c:188`,
  `:195`, in `SuccessOf`).
* `--create`, "to create a new profile" (`profile.c:87`), replaces an existing
  one, root rights included (`NewProfile`).
* The second attempt "this time trying legacy" (`profile.c:59`, `uapi.c:34`)
  leaves out the descriptor, so that an old KernelSU is reported as missing
  (`LegacyInfoAnswered`, `InfoOfUapi`).
* After a kprobe success `goto found` (`main.c:191`) jumps over the array
  `sym` (`:193`), and the "verify result" of `:203` is a lookup of an
  uninitialised name (`NamesIn`). Nothing depends on it.
* `argv[0] = "su"` with an empty argument list overwrites the list's NULL, and
  the environment is handed over as arguments (`Renamed`); `HandsOverArguments`
  is stated for lists that are not empty. Linux 5.18 and later refuse to start
  a program without arguments in this way.
* `small_start` reads through a null pointer when there is no argument or no
  environment (`Fault`).
* A failed `realloc` loses the table and keeps its count (`hashing/test.c:43`);
  `TableIsTheSet` holds until then.
* With SIGCHLD ignored, `wait4` fails and a seccomp filter is not reported
  (`bench.c:47`); `HeaderIsTrue` is an equivalence that names this case and
  that of a failed clone.
* `grab_umount_list` prints before it tests, so a list that was emptied between
  the two requests makes one empty line (`grab_umount_list.c:126-133`);
  `PrintsTheList` says so (`Lines`).
* `profile.c` writes its copy back although the profile may have been pruned
  since it was read (`AppUninstalled`).

**Bounds.** `MaxIter` 3 gives the scan a first round, a middle one and a last
one; every alignment of a symbol to the 64-byte stride occurs (starts step by
4 bytes over more than two strides on both sides), with sizes below, at and
above the stride; the theorem removes the bound. `PageSize` 32 gives first,
inner and last slot and the slot beyond. Two invocations of the tool suffice for
a lost update; a third actor, the manager, is present besides. Two callers
and one other writer give each kind of process a rival; the theorems remove the
bound. No, one, two and three arguments give the argv and envp counts
every small case; the four registers offered to the x86_64 compiler are the three
the wrapper writes and one it does not, which is every case the moves tell apart.
Three entries and two changes let a list shrink, grow, be emptied, and
change and change back between the requests. `StackBytes` 12 holds the longest
list and a run of junk behind it, closed by a zero byte so that the walk, which
has no bound of its own, ends inside the memory modelled. A ring of three filled
more than twice is empty, partly filled, full and overwritten, with up to seven
calls between the copies. Four words with three hashes, 0 among them, contain
every pattern of collisions and misses. A two-digit buffer takes averages of one,
two and three digits; four samples have a median that one outlier, but not two,
leaves alone, and the batch times put ratios below, between and above the
thresholds, and 0. The LED levels are the real ones; only the byte counter is
scaled.

**Deadlock** is not checked where programs end: a state with all processes at
their exits has no successor by intent.

**Fairness.** Weak fairness of each program's own next step: where it is assumed
the code never waits for another of the modelled actors, so it is enough that
the scheduler runs it. (In `SyscallTiming` the parent waits for the child; both
are part of the same `Next` and the child is always able to step.) Nothing is
assumed of the manager app, of the removal of apps, of the programs that edit the
umount list or call su, of the network, or of an order between processes.
`ProcOps` assumes no fairness: neither its thread nor its callers loop or wait,
so that their end would say nothing about the code.

## 4. Proofs

Every safety property the runs check is also a theorem for all values of the
constants; `PROJECT.json` pairs them. What TLC checks alone is listed at the end
of this section. A constant of an instance is constrained by the ASSUME of the
module that declares it, and TLC evaluates each of these in its run.

**The loadable module** (`LkmTemplate_proofs`), for every `Word`, every
`MaxIter > 0`, every page size and every set of kernels. Assumptions:
`WordAssumption`, `MaxIterAssumption`, `ImagesAssumption` (shape of a kernel
record, symbols that do not overlap) and `PageSizeAssumption`.

For `lkm_boostrap` by itself: type correctness, `FoundIsEntry`, `NoNullCall`,
`KprobeBalanced`, `ScanComplete` and `RangeReported`. The inductive invariant
`BootInv` adds to the properties:

* `PointersInv`: at which labels which function pointer is known to be non-null.
  `NoNullCall` is not inductive without it, because the wrappers test for null
  only to decide whether to look the function up.
* `ScanInv`: at the start of a probe, all probes of earlier rounds missed
  (`NoHitBelowRound`), and `curr` is the address the closed forms `Above` and
  `Below` give. With the scan's end this yields that all probed addresses
  missed. The lemma behind `ScanComplete` is that every interval of 64 bytes in
  the range holds a probed address.
* `RangeInv`, kept apart from `BootInv`: `missed` is exactly what the rounds so
  far have probed (`Probes`), by label up to which of the two directions, and each
  recorded bound is the farthest probe of its direction once there is one.
  `RangeReported` follows at every label, after a find as after a failure: once
  two addresses have missed, both bounds are among those that missed and enclose
  all of them.

`TemplateInv` carries these through the whole of `lkm_template_init`
(`TemplateBootstrap`), and adds `OrderInv` (the hunt runs only after a bootstrap
that succeeded), from which `HuntLookupsAreSafe` follows, and `HuntInv`, which
makes `HuntFindsFirst` inductive: the instruction pointer and the slot pointer
stand a whole number of steps from where their walks began, and every find still
lies ahead of them. `HuntFindsFirst` and the walks' part of `HuntInv` have the
hypothesis `HuntFits`: no handler and no page an adrp points to touches the last
byte of the address space. Without it the comparison `insn_p < insn_end` in the
code is one of wrapped addresses, and the hunt may stop at once. A kernel's text
and data do not lie there.

`TemplateImplementsLoad` is the refinement: the initial states map to initial
states of `LkmLoad`, and a step to `Report`, to `Return` or to a stutter. This is
the safety half of `ImplementsLoad`; that `init` does return is checked by TLC.

**profile.c** (`KsuProfile_proofs`), for any number of invocations, any commands,
any managers and any profiles the manager may write: the type invariant and four
action properties. `Inv` adds `WriterInv`: what a process about to write knows.
Its uid passed the floor test; its copy has `allow_su` only when `--setroot 1`
made it, and is then the default root profile; if it does not create, the store
has a profile for the uid, or had one that was pruned since the process got its
copy. This is why the race loses updates, and may bring back a profile that was
just removed, but makes none from nothing and never root.
Assumptions: `CommandsAssumption`, `NoneAssumption`,
`ManagerProfilesAssumption`, `ManagersAssumption`. `InvocationIsBounded` is the
safety half of `Exits`: a step of an invocation leaves it fewer of at most five
(`StepsLeft`), and no step of anybody else gives it more. That the steps are taken
is fairness, and TLC's.

**proc_ops** (`ProcOps_proofs`): `SuccessWasHeard`, `OthersLeftAlone` and
`PathHeldWhileUsed` for any sets of callers and of other writers
(`ProcAssumption`: they are disjoint). `HeardInv` is the strengthening: a process
inside `ksym_write` entered it through the hook, past the magic test it is a
caller, and its reply word implies that it is logged.

**The programs started from the raw stack** (`KsuClient_proofs`), for argument
lists and environments of every length, and every build the model has.
Assumptions: `SmallRtAssumption` (a list has no NULL among its strings, as
execve cannot pass one; the registers offered to the compiler are not those the
wrapper's operands are bound to) and `MaxFdAssumption`. The invariant has four
parts:

* `Inv`, for `RootBeforeShell`: by label, what a launcher must have passed.
  Before the reboot call `fd` is 0 and the stack is as execve left it, so that
  a nonzero `fd` afterwards means KernelSU is present and the name tested is the
  one given; past the grant the process has root.
* `StackInv`, for `HandsOverArguments`: `envp` is two behind the arguments, and
  the stack is as started but for the word that was renamed. The lemmas read the
  two vectors back from the raw words, each up to its own NULL, which is where the
  assumption on the lists is needed: after the rename the list's words still hold
  no NULL.
* `TableInv`, for `DescriptorsAtEnd`: which descriptor table each label may have.
  With standard input open KernelSU's descriptor can only be 3 and the log's 4;
  with it closed the kernel hands out 0, which the programs take for a failure.
* `PrintInv`, for `PrintsWhatItWasGiven`: how far a demo has got is a prefix of
  what it prints.

`CallArrives` needs no invariant: it is proved from the wrapper's register moves,
architecture by architecture.

**The programs that keep a list** (`ListPrograms_proofs`).

* `TableIsTheSet`, for every list of words, every set of hashes and every hash
  function. `TableInv` adds that the array is exactly as long as the count and its
  entries are exactly the hashes inserted, which makes the count the set's
  cardinality and explains why skipping the duplicate test on a null table is
  harmless until `lost`.
* `SulogIsOrdered`, for every size of the ring and every number of calls.
  `SulogInv` records what the two copies were when they were made; the rest is
  modular arithmetic (`RingTurned`): the slot a line is read from holds the entry
  that `OldestFirst` names, displaced by the calls between the copies.
* `PrintsTheList`, for every set of mount points, every length of the list and
  every change to it. `UmountInv` says of a walk whose list fits the buffer:
  memory begins with the list's bytes, the next byte is 0 if the list is
  shorter than the buffer, and the walk stands at the beginning of a string with
  exactly those before it printed, or has left a list that fills the buffer. Of
  an emptied list (`EmptyInv`) it finds two zeros and prints one empty line
  (`WalkEmpty`); there are two, because the size asked for was not 0 and a list
  has at least a letter and a terminator (`BytesAtLeast`).
  `BytesLaidOut` gives the strings' offsets, `StringFound` that `strlen` at such
  an offset finds the string's own terminator. `StringsAssumption` (mount points
  are not empty and contain no terminator) is what makes the first true, and
  `MemoryAssumption` only says that enough memory is modelled.
* `WalkIsBounded`, the safety half of `ListProgramEnds` for the walk, whatever list
  has been written: a turn moves `char_buf` on and leaves it inside the memory
  modelled, also when it has run off the end of the buffer.

**The timing programs** (`SyscallTiming_proofs`), for every number of iterations,
samples and digits, and every set of times (`TimingAssumption`).

* `HeaderIsTrue`, an equivalence: a filter is reported if and only if it killed a
  child that could be made and whose status was kept. `CheckInv` relates the
  child's fate, the status and the result at each label of the check; `RightsInv`
  says that no setresuid has happened before the header.
* `EveryLineOnce`: `PlaceInv` says where a bench is, `OnceInv` that what is
  behind that place has exactly one line and what is ahead of it none.
* `ResultIsOwn`: the template's digits are those of the average alone, whatever
  they were before, and read as a number they are the average modulo the power
  of ten that fits.
* `OutliersDoNotDecide`: the middle of the sorted series has at least half of the
  samples not below it, and more than half not above it. The sort is
  specified by places (`Sorted`), as `qsort` is by its comparison function.
* `VerdictHasBoth`: a quotient that exceeds another by half a percent has a larger
  dividend.

**The LED scripts** (`LedScripts_proofs`), for every unit, burst and counter
(`LedAssumption`).

* `BrightnessInRange` and `OneColourAtATime`: the levels are powers of two up to
  256, or 0 (`Powers`), and a rising level of `cycle.sh` is at most 128 when it is
  doubled; that is what keeps it at 256. For the traffic script no bound on the
  counter is needed: `Level` is in range for every integer.
* `CycleNeverDark`: from the first time red is full, one colour falls while the
  next rises and the third is out or falling (`Falls`), and the product of the two
  levels is 256 or 512 (`Abreast`, `Ahead`), so the two cannot both be low.
  `CyclePhase` says how the loop gets there.
* `LevelShowsInterval`: what has arrived since the last reading is the difference
  between the counter and that reading (`ArrivedInv`), through removals of the
  interface, and the reading is the value the next turn subtracts.

**Where the code breaks a statement** (section 3) a theorem says how far it
keeps it. The conditions are on what other actors do, on the caller or on the
build, and each is met by runs of the model; the hypotheses are stated as an
action (`[][...]_vars`) or as a condition on the first state.

* `PageWalkOverrunsByOne`: every turn of a page's walk but the last reads a slot of
  the page; the last (`tries = max_tries`) reads the word right behind it.
  `SlotInv` says that the slot pointer is a whole number of slots from the page.
* `UmountSparesUnlessRooted`: `--setumount` spares SU apps if nobody gives that
  app root between its test and its write (`NoRootInBetween`).
  `UndisturbedUpdatesInPlace`: if nobody changes the profile between a command's
  read and its write (`Undisturbed`), each write is a single update of what the
  store holds, and no change is lost. Both rest on `ReachesWrite`: a process comes
  to its write with the update of what is stored at that moment.
* `ZeroMeansFailureWithStdin`: a descriptor that is still 0 means failure, if the
  program was started with descriptor 0 open.
* `ListFitsUnlessItGrows`: if the list does not become longer between the two
  requests (`NoGrowthInBetween`), what the second one writes fits, and the program
  is never killed. The list may change and shrink then, and grow at other times.
* `SixArgumentsUnlessOverwritten`: the wrapper passes all six arguments if and only
  if the build is not for x86_64 or the compiler has kept `e` out of r10 and `f`
  out of r10 and r8 (`ReadsBeforeWriting`).

**NumberLemmas.** The library's induction theorems take an operator as a
parameter, which the provers cannot instantiate. Induction is therefore stated
for a set of numbers instead of a predicate (`InductionUpTo`), and derived from
the well-foundedness of the strict subset relation on finite sets.
`RecursionExists` shows in the same way that a function defined by recursion up to
a bound exists, which is what a `CHOOSE f : f = [...]` needs before its equation
may be used: the powers of ten, the sum of a series, the concatenation of a
sequence of sequences. The rest is division with a positive divisor.

**Only model-checked**: termination and recurrence (`Ends`, `Exits`,
`ListProgramEnds`, `EachColourAgain`) and the liveness half of
`ImplementsLoad`, since liveness under fairness is out of the prover's reach.

## 5. Correspondence

`PROJECT.json` maps each definition to the lines it stands for. Where the code
repeats itself (the four openings in `profile.c`, the seven programs of
`KsuClient`) one definition stands for all copies and its map entry names one of
them. Names follow the source where it names the idea (`r_high`, `max_tries`,
`handlers`, `total_size`, `char_buf`, `latest_index`, `hash_array`,
`long_to_str`, `bytes_prev`).

External, modelled from how the code uses it: kallsyms and kprobes, the profile
ioctls' permission check and store, the manager app, the removal of apps, the
descriptor table, the VFS's dispatch of a write, KernelSU's umount list and its log of su calls, the
stack execve prepares, the system call convention, the compiler's register
allocation, the interface's byte counter.

## 6. Not modelled

Log text, formatting, and CPU-specific decoding (an instruction is an adrp or it
is not; its offset is data of the kernel image). Concurrent changes of kernel
text during the scan. The compatibility macros of `kernel.h`. Timing of the
30-second sleep in `proc_ops`: the thread may run at any time, which includes
it. In `KsuProfile`, the fields of the root profile other than the domain.

Parts left out, with the reason:

* `task_snapshots/boot-completed.sh`: run once per boot on a fresh mount table;
  it waits for storage, picks a directory and bind-mounts it. No command uses
  the result of another and nothing runs beside it.
* `cleanup_defer` and the scoped-cleanup macros of `kernel.h`: order and number of
  cleanups are the compiler's `cleanup` attribute, not this code's.
* `syscall_backports_test`, `ksu_prctl_test`, `move_mount`, `fs_magic`,
  `test_stat`, `c_shit`: one call or one language construct each, and a print; a
  model would be a model of the kernel or of C.
* `small_rt_use_errno` in the preinit copy of `small_rt.h`: no program defines it.
* In the timing programs CPU affinity, priority and the warm-up batches, which
  change how long a call takes and nothing else.
* Errors of writes to sysfs and to standard output, which no program tests.

## 7. What could follow

The state-changing parts of the programs are modelled and their safety
properties proved, so what is left is smaller: the sharp form of
`ListFitsUnlessItGrows` (which bytes above the buffer a longer list overwrites),
and a bound like those of `InvocationIsBounded` and `WalkIsBounded` for the scan
and the timing programs.
