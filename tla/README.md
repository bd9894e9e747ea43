# Futhark in TLA+

A formal model of those parts of the Futhark compiler, of the programs it
generates and of its test runner whose correctness depends on an order of events:
which thread goes first, which block is freed when, what a call leaves behind for
the next one; and of the run-time system of its Python backends, which does again, in
other code, what the C one does. The models are written from the Haskell, C and Python
sources, checked by TLC on small instances, and the invariants, the refinements and the
action properties are proved by TLAPS for all instances, with the exceptions that section 5
names. Line numbers below are those of the modelled sources.

Contents: the system and its parts; what is modelled where; the runs; fairness; the
proofs; what was found; what is not modelled; the plan.

## 1. The system and its parts

The compiler is a pipeline of pure passes (`src/Futhark/Pipeline.hs`). A program is
parsed, its imports are loaded depth-first, it is type checked, translated to the
core language and simplified; loops over arrays become kernels, arrays get memory,
and the result is C, OpenCL or Python with a run-time system (`rts/`). Passes hand
trees to each other and keep no other state. What runs concurrently, or over long
sequences of calls, is the *generated* code and the tools around the compiler.

| part | state | operations | interacts with | hard because | correct if |
|---|---|---|---|---|---|
| OpenCL free list (`rts/c/opencl.h`) | array of slots, capacity, count of valid slots | alloc, free, free all, pack, grow | memory blocks above, driver below | reuse by tag and size, shrinking, failing driver | no buffer lost, freed in use or given twice |
| memory blocks (`GenericC.hs`) | counters shared by struct copies | declare, alloc, set, unref, call, return | generated functions, entry points, host | uncounted parameters, order of unref and count | counts exact, nothing dangles, nothing leaks |
| group scan, group reduction (`ImpGen/Kernels.hs`) | local arrays, accumulators of threads | in-block scans, packing, carry-in, restoring; two trees | waves and barriers of the device | races, missing barriers, incomplete blocks and waves | free of races, result exact, no divergent barrier |
| scan kernels (`BlockedKernel.hs`) | accumulators, result and carry arrays | iterate, scan carries, complete | the group scan; one another through arrays | remainders, idle groups, stale carry | every element exact, written once |
| configuration and sizes (`opencl.h`, `Boilerplate.hs`) | defaults, values behind a shared pointer | set defaults and sizes, new context | several contexts of one configuration | what one device leaves for the next, 0 as "not set" | sizes fit the device and are those asked for |
| test manager (`futhark-test.hs`) | two MVars, remaining tests, counts | feed, take, call, put, count, exit | compiler, interpreter and test programs | threads, failing calls, old executables | no test lost, right exit code, it ends |
| Python values (`rts/python/values.py`) | one stream with a lookahead buffer, the arguments so far | read a value, print a value, unpack | `futhark-dataset`, other programs, people | no backtracking, text and binary mixed, open ends, Python 2 or 3 | what is read is what was spelled or written |
| Python scalars (`rts/python/scalar.py`) | the type and value of each numpy scalar | integer operators, conversions, comparisons | generated expressions, numpy | types that drift, unsigned numbers, the ends of the types | the values of `Primitive.hs` |
| Python OpenCL object (`rts/python/opencl.py`) | device, sizes | parse preferences, find a device, tune, limit | the table of heuristics, the user's settings | order of tuning and limiting, None | the device and sizes the C program has |
| import loader (`Compiler/Program.hs`) | loaded files, stack of includes | read, check for cycles, recurse | parser, file system | names of one file that differ | each file once and after its imports |
| type checker, uniqueness | environments, occurrences | infer, consume | parser, internaliser | consumption through aliases | no value used after it is consumed |
| memory block merging | interference, reuse tables | coalesce, reuse | index functions, liveness | safety conditions across scopes | sharing blocks changes no value |
| the other passes and tools | none between calls | trees to trees | one another | size | meaning preserved |

`PROJECT.json` lists these and all other components with the reason why each is or
is not modelled, and the hazards of the modelled parts with the line where each
bites and the properties that cover it.

How the modelled parts fit together: a generated program asks for its sizes when a
context is made (`ContextSizes`); its functions keep arrays in counted blocks
(`MemBlock`); a block on the device comes from, and returns to, the free list
(`FreeList`), under the tag of the allocation. Scans and reductions run kernels
with those sizes (`BlockedScan`, one group of it in `ScanKernel`) whose threads use
`GroupScan` and `GroupReduce`. `TestManager` runs such programs. A program compiled
to Python reads its arguments (`PyValues`, with the reader `PyReader`), makes an
object instead of a context (`PyContext`, beside `ContextSizes`), and computes with
numpy scalars on the host (`PyScalar`).

Five modules compose others. `FreeList` and `ScanMC` show one to implement another;
`PyContext` runs the C program and the Python program with the same settings;
`GroupOperationsMC` is a device that runs either group operation, and `PythonMC` a program
that either reads its arguments or computes.

## 2. Modules

Every module gives in its header the sources it is read from, each action names
the function it stands for, and `PROJECT.json` maps each definition to its lines.
Definitions marked `Mutant` are plausible bugs used to show that a property can
fail; they are not part of a specification.

**`FreeList`** (`FreeListMC`, `FreeList_proofs`). `entries`, `capacity` and `used`
are `struct opencl_free_list`. `AllocNew`, `AllocReuse` and `AllocReplace` are
the three ways through `opencl_alloc` (674-699): nothing cached under the tag, a
block that fits, one that does not and is released. `FreeFirst` and `FreeReplace`
are `opencl_free` (701-720) without and with an older block under the tag; both
include the insertion that may double the list. `FreeAll` is `opencl_free_all` with
`free_list_pack`. `DriverFails` is `opencl_succeed` ending the process. `owner` is
who uses a buffer, `driver` its size at the driver (0 if there is none), `asked`
the size that was asked for. Sizes are kept apart as far as rounding up to an int
and the rule "at least as large, at most twice as large" tell them apart.

**`DeviceAlloc`** is the abstract allocator: a buffer is spare for one tag, held,
or does not exist. It has no list, capacity or slots. `FreeList` maps
the list to it: `ImplementsDeviceAlloc` says that every step of the list is a
step of the allocator or a stutter, which TLC checks and TLAPS proves.

**`MemBlock`** (`MemBlockMC`, `MemBlock_proofs`). A *cell* is one
`struct memblock`: a variable, a parameter or a field of an array of the host;
cells of a block share its counter. `DeclareMem`, `Allocate`, `SetMem` are the
generated statements with `memblock_alloc`, `memblock_set` and `memblock_unref`
inlined, in their order of reading and writing counters; `OpenScope` and
`CloseScope` are branches and loop bodies; `Call` and `Return` are functions and
entry points, with uncounted parameters, results counted before the locals are
released, and the arrays that go to the host; `NewArray` and `FreeArray` are the
library functions; `Stop` is a failed assertion or a negative size. A count that is raised
after it has fallen to 0 makes the status "undefined", both in `SetMem` and in `Return`.
The size is kept with the block and not in each struct: structs are copied whole, and
only an allocation writes a size. A program is any sequence of statements that follows
the rules of the generator, which the header of the module states: so all programs are
checked at once, up to the number of variables and nesting.

**`GroupScan`** (`GroupScan_proofs`). `compileKernelExp` for `GroupScan` with
`inBlockScan` (551-610, 800-880). Threads have a program counter for each statement
that reads or writes the shared array; a *wave* (as many threads as the lockstep width)
executes a statement together, waves interleave freely, and barriers wait for all
threads. Elements are sequences of indices and the operator is concatenation,
which satisfies the law of associativity and no other: a result that is the
right sequence is right for every operator of a program. `RaceFree` compares the
entries that the next statements of any two waves read and write, in every state.

**`GroupReduce`**. `compileKernelExp` for `GroupReduce` (700-790), at the same grain:
the tree inside each wave, without barriers, and the tree over the waves, with one
barrier per level.

**`GroupOperationsMC`** (`GroupOperations_proofs`) puts the two on one device: it extends
`GroupScan` and has `GroupReduce` as an instance, with the same local array, lockstep
width and places of the threads in the code, and registers and sizes of its own. A
group runs one of the operations.

**`ScanKernel`** (`ScanKernelMC`) extends `GroupScan` with the loop of `scanKernel1`
(446-580) in one group: fold, barrier, scan, store, carry.

**`BlockedScan`**. The three kernels of `blockedScan` (440-747) and `numberOfGroups`:
one step is an iteration of a whole group, groups in any order. This is where
remainders, groups without elements and the recomputation of an element's group are
checked.

**`ScanMC`** (`Scan_proofs`) composes the two. A behaviour is either a whole scan, by
`BlockedScan`, or one group of its first kernel, by `ScanKernel`. The property
`ImplementsIterations` says that both are behaviours of `BlockedScan`: the many steps
of the waves are one `Iterate`, which happens when the first thread has taken the new
carry, and stutters. At that moment other waves may not have stored their results yet,
and then a stored element is taken from the register of its thread (`own[1]`), which
holds it since the in-block scan; before that moment no element of the iteration counts
as stored. So the step that `BlockedScan` takes at once is justified by the waves, not
assumed.

**`ContextSizes`** (`ContextSizesMC`, `Contexts_proofs`). `SetDefault` and
`SetSize` are the configuration functions; `NewContext` is `futhark_context_new`:
`setup_opencl` limits the defaults of its copy (532-548), resolves each size *through
the shared pointer* (556-583), then applies the heuristics (598).

**`PyContext`** (`ContextSizesMC`, `Contexts_proofs`) extends it with the constructor
of a program that `futhark-pyopencl` compiled. The user makes the same settings for
both programs (`Give`, `Ask`); then either contexts of the C program are made (`InC`)
or one object of the Python program. `NewObject` finds a device by the preferences
(`get_prefered_context`, 27-56), `NewObjectOn` is given one by a command queue or
interactively; both then do all of `initialise_opencl_object` (74-170): check for
double precision, tune the defaults, compare and limit them, reject unknown sizes, and
fix every size. `user_sizes` is what the dict of sizes has entries for: an entry 0 is
a size in Python, and "not set" in C. The device the C program would pick (`get_preferred_device`) is an
operator of the same module, so that the two can be compared for any machine. A machine
is a list of devices with names; a text is found in a name if it is one of its `Part`s.

**`TestManager`** (`TestManagerMC`, `TestManager_proofs`). The feeder, the workers
and the main thread, with the MVars as values that may be `Nothing`. The calls of a
test (`Metrics`, `TypeCheck`, `Compile`, `Interpret`, `Execute`) are in the order
of `runTestCase`; each may fail, so what the called programs do is left open.
`binary` tells whether the executable of a test is missing, old or new.

**`PyReader`** is `rts/python/values.py` as operators, one per function, over sequences
of characters. Loops over characters are the longest run of positions that go on, and
the recursion of nested lists is a recursive function of the number of characters left,
so that there is no `RECURSIVE` operator and the reader can be proved about. A function gives how it ended (a value, an exception, the end of the
process, or never), the reader it leaves and the value. What an attempt consumed is gone,
as in the code: `Optional` turns the exception into `None` and keeps the reader.
Python 2 and 3 differ where bytes are compared with strings, and both are modelled.

**`PyValues`** (`PyValuesMC`, `Python_proofs`) is the program around it. Standard input is a text that
somebody typed, or what other programs wrote into a pipe: `PrintValue` (`write_value`),
`GenerateBinary` and `ConvertBinary` (the two binary writers of `futhark-dataset`,
which are different code). `ReadArgument` is one `read_value`, in the order of the
parameters, from where the one before stopped; `UnpackArguments` is `entryPointInput`.
`ReadsBack` leaves open what becomes of the values in `Stops`, as findings 4 and 5 are
about them, and says that a program never runs with other values than those that were written.
`SpelledOut` compares what was read with `Spells`, which looks at the whole text between
two readings and says what it means, without reading from left to right.

**`PyScalar`** (`Python_proofs`) runs a sequence of operations twice: `x` is the numpy
scalar, computed by `scalar.py` as `GenericPython.hs` calls it and with the type numpy
gives the result, `v` is the value of `Primitive.hs`. One action per group of operators;
its second operand is any constant. `trust` remembers whether `x` should be `v`
("exact"), should have its bits only (after an `FPToUI`, which leaves an unsigned
scalar), or has gone through an operation that is known to go wrong. The conditions under
which `trust` is lost are the smallest number in `squot`, `srem` and `usignum`, and
operations that need the value of a scalar of which only the bits are right.

**`PythonMC`** runs either of the two, `PyValues` with the instance of `PyValuesMC`.
`PyScalar` starts from any number, so what was read does not matter to it.

## 3. Runs

All runs are breadth-first over the whole state space of the instance, without
state constraints; bounds are constants that appear in guards.

| run | shows | instance, and why it is enough | states |
|---|---|---|---|
| `free_list` | no buffer lost, aliased, dangling or too small; implements `DeviceAlloc` | 3 tags, 4 buffers, a list of 1 slot: it must double twice, be packed to 0, 1 and 2 slots, and evict; requests below an int, fitting, too large, and so small that the block is too large | 21 765 |
| `mem_block` | counts exact, nothing dangles or leaks, usage exact, no freed counter is raised again | 5 variables, 3 blocks, calls 2 deep with a scope: a parameter, an alias of it, a local, a result and a host array at once | 114 907 |
| `group_operations` | scan and reduction exact, no races, nothing outside the array, all threads get through | scan: 8 threads in 2 blocks of 4 (blocks need 2 levels of the tree), each thread alone, a block per wave, or all in one, arrays of 4, 6, 8; reduction: 6 threads, an incomplete wave (4) and an incomplete level, waves of 1, 2, 4 and 8, arrays of 1 to 6 | 80 055 |
| `scan` | the waves implement the iterations; stored elements and carries exact, no races; the result and the returned carry exact, elements written once | one group: 2 groups of 4 threads in 2 blocks, up to 2 iterations, every launch `numberOfGroups` gives, remainders in either group; whole: up to 4 groups of up to 3 threads, 0 to 16 elements: idle groups, 1 to 16 iterations, every remainder | 19 385 |
| `test_manager` | tests neither lost nor counted twice, exit code right, only fresh programs run, ends | all subsets of 3 tests, 2 workers, all 5 modes, old executables present or not: a test can be with each worker while a third waits | 306 592 |
| `context_sizes` | sizes fit the device, are reduced only by a device, lockstep by platform; the Python program picks the same device, and the same sizes but for an explicit 0 | one size of each class, 5 devices (among them one below all defaults and one with groups of 1), 3 settings and then 2 contexts or an object, in any order; a machine where the device on the blacklist is first and two devices share a name, preferences by name, number, both and neither | 343 350 |
| `python` | what is read is what was spelled or written; reading ends; values, bits and branches as in `Primitive.hs` | 13 signatures of one and two parameters with all kinds of types and ranks up to 2; texts of up to 5 words from those that begin, end or break a value, a comment or a number; binary values cut off at every byte, and values whose bytes are `-`, newline or `b`; types of 2, 3, 4 and 6 bits, so that conversions skip widths and numpy finds a wider type, or none; every constant, every shift; floats in halves up to 35 | 220 547 |
| `free_list_empty`, `scan_kernel_one_block`, `context_sizes_num_groups`, `py_values_conversion`, `py_values_generated` | the counterexamples of section 6 | the smallest instance that has it | |

In `CHECK_DEADLOCK FALSE` the system really may stop: a process has ended, a group
is done, a bound is reached. That threads do not deadlock *before* that is the
liveness property of two runs (`AllFinish`, `Termination`).

Three choices need an argument. In `group_operations` scans have arrays that fill at least the first
block; shorter ones are discussed in section 6. In `scan` the groups have two
blocks: no barrier separates the end of the scan from the stores and the carry-out
that follow, and what keeps the carry-out right is only that its entry belongs
to a block that restores nothing. A group of one block is the run
`scan_kernel_one_block`. `SpelledOut` leaves out arrays without elements and the
hexadecimal floats of Python 2, and `SameDevice` preferences that are given but empty:
section 6 says what happens there.

## 4. Fairness

- `GroupScan`, `GroupReduce` (in `group_operations`): weak fairness of each wave and of releasing a barrier
  all threads have reached. A device that runs a work group has all its waves
  resident and schedules them; OpenCL demands barriers to be reached by all threads
  and nothing else.
- `TestManager`: weak fairness of the feeder, of the main thread and of each
  worker. They are GHC threads, which are scheduled round-robin; `MVar`s wake
  waiting threads in order. Weak fairness of a worker includes that a program it
  calls ends. There is no time limit in the code, so without that assumption
  `Termination` is false: a test program that loops keeps the main thread waiting.

The other specifications state safety only: users need not do anything.

## 5. Proofs

TLC checks the instances above; TLAPS proves the following for every value of the
constants, under the `ASSUME`s of the modules and what is named below. Each proof is by
an inductive invariant: it holds initially, a lemma for every action shows that the
action keeps it, and it implies the property. Every safety property and every refinement
that a passing run checks is proved, but for `ReadsBack` and `SpelledOut`; further action
properties are proved that no run checks.

- **`FreeList_proofs`**: `TypeCorrect`, `UsedIsExact`, `OnePerTag`, `NeverAliased`,
  `NeverDangling`, `NeverLost`, `AlwaysFits`, `NeverReleasedInUse`, for any sets of
  buffers, tags and requests. The invariant is the conjunction of the properties,
  strengthened by `UsedCountsValid`: `free_list_pack` keeps the first `used` valid
  slots, so nothing is lost only if the counter is exact. That in turn needs
  `OneBlockPerTag`, for `free_list_find` to match one slot. Assumed: `NoTag` is no
  tag, ints have a positive size, the list starts with a slot. Insertion is proved under
  the condition that the list has a slot after doubling; the model goes to status
  "undefined" otherwise (section 6). `ListImplementsAlloc` is the refinement of
  `DeviceAlloc`: each action of the list maps to one of the allocator, growing and
  packing to none, because the buffer under a tag does not depend on its slot.
  `InBoundsUnlessEmptyCleared`: if the caches are never cleared while none is cached, no
  insertion is outside the list (finding 1 of section 6 has no other cause).
- **`MemBlock_proofs`**: `TypeCorrect`, `CountsExact`, `NeverDangles`, `NeverLeaks`,
  `SetIsSafe`, for any finite sets of cells and blocks and any nesting. Exact counts
  (`Counted`) alone do not show that a parameter is alive, since it is not counted.
  `Borrowed` does: for every parameter there is a counting cell of an *earlier* call,
  or of the host, with the same block, and a running function cannot change it.
  `UsageIsExact` needs in addition that a free block has no size; how a sum over a finite
  set changes when one term of it does is a lemma about the fold that defines it.
  `CalleesFreeOnlyTheirOwn` says it of the steps: none changes a variable of an earlier call
  or of the host, or frees or resizes the block of one or the memory of an argument.
- **`Contexts_proofs`**: `TypeCorrect`, `SizesFit`, `SizesHonoured`, `LockstepKnown`, for
  all programs, devices and numbers of settings. Needed in addition: `Kept`, what the
  *configuration* holds between contexts is what was asked for or the limit of a
  device it was used with; and `Tabulated`, a context has the lockstep width that the
  table of heuristics gave. Assumed of a device: positive limits, and a tile size
  that is the square root of the group size.
  `PicksSameDevice`, `SizesAgree`, `SetSizesFit`, for any machine,
  names, preferences and settings. The invariant is the three properties and
  `SameSettings`: until a context is made, what the constructor is given are the settings
  of the configuration. That limiting after tuning agrees with tuning after limiting is
  because a row of the table never applies to what the user has set; that an explicit 0
  is where they differ, because no default of C is 0. Assumed: every name
  contains the empty text, no preference is the word None, and a platform with "Apple" in
  its name has just that name (the C program searches, the Python program compares).
  `NumGroupsFitUnlessDefault`: numbers of groups fit the device if no default in force
  exceeds it (finding 3 has no other cause, whatever contexts were made before).
- **`Python_proofs`**. Scalars: `PythonAgrees`, `PythonKeepsBits`, `PythonBranches`, for any set
  of types each of which is a multiple of the smaller ones in its number of values, in
  particular for 8, 16, 32 and 64 bits. The invariant `Related` gives the types of `x`
  and `v` in each state of `trust`: the same scalar, or one of a type at least as wide
  that differs by a multiple of the number of values. Most of the proof is
  modular arithmetic: a number that wraps in a wider type still wraps to the
  same in a narrower one, quotients of magnitudes stay in the type but for that of the
  smallest number, and a type that numpy widens holds the bits it had.
  The reader: `ReadingEnds` and `NothingIsReadTwice`, for inputs of any length, all types
  and any rank. `ReadsOn` says of the result of a function that the reader it leaves has
  a suffix of the input, that it ended in one of the known ways, and hangs only in front of
  an open comment or, in Python 2, an open hexadecimal number; `Then` and `Optional` keep
  it, and there is a lemma for every function. A number after `0x` needs more
  (`ReadsHex`), since what is left may be inside it. That the mutual recursion of lists and
  their elements defines anything is a theorem of its own (`TableExists`): each call has
  fewer characters than its caller, as a comma or a bracket is consumed in between.
  Assumed: Python is 2 or 3, ranks are natural numbers, and inputs are sequences of
  characters.
- **`TestManager_proofs`**: `TypeCorrect`, `NoTestLost`, `ExitCodeCorrect`,
  `NothingStale`, for any finite sets of workers and tests. `Busy` relates the stage
  of a worker to its test, `Verdicts` says that a broken test can only be with a
  worker that is done or in a result that is no success, `Compiled` that whatever is
  executed has been compiled first. `EveryStepGetsOn`: each step takes one test on by one
  place of its way, or is a call that leaves the worker fewer (`CallsLeft`), or ends the
  process; so no test is taken or counted twice, nothing is undone, and there are no
  infinite behaviours. It needs `OwnRunsOnly`, that a worker makes the runs of its own test
  from the first one on. `TestsKeptByWorkers`: no worker takes another test before its
  result is handed over.
- **`GroupScan_proofs`**: `ScanRaceFree`, `ScanIsRight`, `ScanStaysInside`, for groups,
  blocks and arrays of any size that satisfy the assumptions the code states, and every
  lockstep width that is 1 or whole blocks. The invariant has two parts.
  `Control`: the places between two barriers are a *phase* (`PhaseOf`), all threads
  are in the same phase and pass, a wave is at one statement, and threads that run alone
  agree on the distance. What the places of one phase read and write does not collide,
  unless in one wave (`PhaseRaceFree`); this is all there is to freedom of races.
  `Data(tot)`: what each thread finds in its register and in the array, given the
  totals `tot[a][b]` of the elements a to b: in a loop, of the last `skip` threads of its
  block; after `pack`, entry b has the total of block b, after the second pass
  that of all blocks up to b; in the end, the scan. It is kept for
  any `tot` with `tot[a][b] \o tot[b + 1][c] = tot[a][c]` (`Adds`), so that the same
  lemmas serve the kernel, whose threads fold several elements into one entry.
- **`GroupOperations_proofs`**: `ScansRight`, `GroupsRaceFree`, `ScansInsideArray` of the
  composed device, and `ReducesRight`. The invariant of a reduction is a level
  (`AtLevel(m)`): at level 0 the threads reduce in their waves, at level m the first
  threads of every m-th wave take the result of m more. `Holds` says which threads lead,
  what they have, and that a thread that led at the level before still has in memory what
  others may be reading. Of the lockstep width (a power of two up to 1024; the table has 1, 32 and 64)
  only one consequence of its being a power of two is used, `Doubles`: twice a proper divisor that the loop arrives at divides it
  too. The levels of all waves agree because of the barrier before each of them.
  `ReducesRight` is about arrays with elements (`0 \notin ReduceWidths`) and
  `ScansInsideArray` about arrays of at least a block (`BlockSize <= n`): section 6 says
  what happens with shorter ones, and which arrays the compiler makes.
- **`Scan_proofs`**. The three kernels: `ScanIsExact`, `CarryIsExact`, `WrittenOnce`, for
  any sizes and numbers of groups and any length. The invariant has the carry and the
  written elements of each group as functions of its number of iterations (`Carried`,
  `Written`), in whatever order the groups get on. That the parts cover the input, that
  an element is in one of them and which (`PartsCover`, `PartOfUnique`) is arithmetic of
  quotients. The recursion of the second kernel is shown to have one solution.
  The waves of a group: `StoredIsExact`, `CarriedIsExact`, `KernelIsRaceFree`, with
  `KernelInv`, which is `Control` and `Data` of the group scan for the totals of the
  iteration the group is at (`SumsAt`), and the accumulators between scans. They hold
  if `Settled`: the group has more than one block, or no device has threads that run
  alone. Without it they are false, as the run `scan_kernel_one_block` shows.
  `GroupsIterate` is the refinement `ImplementsIterations`. Only the carry-out of the
  first thread counts (`KindsOfSteps`), and then every element of the iteration is stored
  or still in the register of its thread (`StoredValue`). It is proved for launches as
  `numberOfGroups` makes them (`FullyLaunched`: no more groups than the input has parts
  of a group's size), as `BlockedScan` counts its groups that way and `ScanKernel` is
  given their number.

`ScanWaitsTogether`, `NoneIsLeftWaiting` and `KernelWaitsTogether` are what of the
absence of deadlocks is a safety property: threads that wait are all at one barrier, and
none is past the last one, for groups of any size. TLC checks `AllFinish` in addition,
that they do arrive there. `NeverStuck` is the same for the test manager: while the main
thread waits, one of the threads that hold or wait for an MVar can go on. With
`EveryStepGetsOn`, what `Termination` adds to the two is fairness.

What recursive definitions and folds compute is proved by a least counterexample:
`HasMinimal` and `NatInductionOnSet` state for sets of numbers what the library's
induction states for predicates.

Two of the five counterexamples of section 6 have a theorem that says when they cannot
happen: their hypotheses are about the behaviour, not about constants, and the runs show
that they are needed. `Settled` does this for the second one, in the kernel's theorems.

Only model-checked: liveness (`AllFinish`, `Termination`), which TLAPS cannot prove; and
`ReadsBack` and `SpelledOut`, which say *what* the reader makes of a text. They
compare recursive definitions and folds over texts of any length with each other, which is
induction over data that the provers here do not do; `ReadingEnds` and `NothingIsReadTwice`
do without, as they only need how many characters are left.

## 6. What was found

Each of the first five has a run that ends with a counterexample.

1. **The entry of a freed buffer is written outside the list** (`free_list_empty`,
   `opencl.h:125`). `free_list_pack` sets the capacity to `used`. After
   `futhark_context_clear_caches` with an empty cache that is 0; the next insertion
   doubles 0 and writes slot 0.
2. **A carry may be taken before it is restored** (`scan_kernel_one_block`,
   `BlockedKernel.hs:548`). With groups of one block and without lockstep, the
   first thread may read the last entry while it still holds the total of the
   totals. Larger groups are safe, as the last thread is not in the first block.
3. **More groups than a group may have threads** (`context_sizes_num_groups`,
   `opencl.h:566`): the limit for an explicit number of groups is not applied to
   the default.
4. **Converted values have the wrong type** (`py_values_conversion`,
   `Test/Values.hs:76-82`): `futhark-dataset --binary` writes unsigned integers as signed
   ones and a bool as an `f64` of one byte, which no program with such a parameter accepts.
5. **Arrays of bool in binary are refused** (`py_values_generated`, `values.py:510`).
   `docs/binary-data-format.rst:15-17,53-57,76` makes them input of `futhark-py`, and
   `futhark-dataset --binary --generate` writes them as it says. The reader makes
   numbers of the format `b` (440), so an int8 array, and `entryPointInput`
   (`GenericPython.hs:448-455`) ends with a `TypeError`. The text of the array is read.

Observations made while modelling, without a run:

- With `-i`, "Only interpret - do not run any compilers." (`docs/man/futhark-test.rst:109`),
  the compiled program is still run after the interpreter (`futhark-test.hs:158`): the
  one that an earlier session left, or none.
- Arrays shorter than a block make every thread of the first block restore an entry
  behind the array (`Kernels.hs:874`, against `KernelExp.hs:98`). The present
  callers have arrays of a whole group or at least 32 elements
  (`ExtractKernels.hs:531`), so `group_operations` starts there.
- Only the first thread has the total of a `GroupReduce`; `Intragroup.hs:207` binds
  the result in all of them (experimental: incremental flattening). An empty array
  leaves whatever was in the accumulator.
- Accelerators have no row for `lockstep_width` and keep 0 (`opencl.h:505`); the
  comment of the table (`OpenCL/Kernels.hs`) wants 1 where nothing matches.
- The rows of the table for defaults never apply: a default is not 0, and
  sizes are resolved before (`OpenCL/Kernels.hs:26`, `CHANGELOG.md:225`).
- "We don't want any idle groups" (`BlockedKernel.hs:403`), yet 4 elements and 3
  groups of one thread leave the third without work; `scan` shows that the
  result does not suffer.
- `eDivRoundingUp` (`Construct.hs:264`) overflows just below 2^31 elements; the
  models use unbounded integers.
- `values.py`: a comment that the input ends in is read for ever (47), and in Python 2 a
  number after `0x`; in Python 3 hexadecimal numbers are a `TypeError` (106) and `_` is
  never skipped (128). `[+]` and `[5i]` are empty arrays, as `optional` does not put back
  what it consumed (73). `[]` for a parameter of rank 2 has one dimension, and unpacking
  it is an `IndexError`. The hexadecimal floats of Python 2 convert their digits twice (193-200). A
  printed value loses the shape of an empty array, all but six decimals, and NaN cannot
  be read back. `read_char` and `read_str_uint` are never called.
- `scalar.py`: `squot` and `srem` with the smallest number as either operand differ from
  `Primitive.hs:568-580` (44-48), and `usignum` of it is -1 (186). `Primitive.hs:465`
  says "usignum(-2) = -1", which its code does not give. An `FPToUI` leaves an unsigned
  scalar (225), which is not equal to the signed one with the same bits; a 64-bit one
  added to a signed constant is a float.
- `opencl.py`: group and tile sizes that come from the table are not limited to the device
  (125, 130). A threshold that is not set is None. On accelerators, which have no rows,
  Python 3 refuses to compare None with a number unless the user gives both defaults.
  Preferences without a name ("" or "#1") turn off the blacklist, which they do not
  in C. An explicit size 0 stays 0 (157, 164), also in the `-D` options for the kernels,
  while C takes it for "not set" and uses the default (`opencl.h:576`); `SizesLikeC` says
  that this is the only difference in what the user sets, and no document says what a size
  of 0 means. The note about the group size prints the limit of tiles (127).
  `docs/usage.rst:113` lets `#k` name a platform, which neither program implements.

## 7. What is not modelled

The passes that turn trees into trees (most of the compiler): their correctness is
about the meaning of unbounded programs, which a model checker does not reach.
The C and Haskell readers of values, other parsers, timing and tools: input and output
without interaction. Of the modelled parts, these are left out: the map part of the
fold function of a scan and operands that are arrays (an operator that works in
place), debugging output, loading and dumping OpenCL programs, interactive choice of a
device, and comparison of values by the test manager. Overflow of 32-bit sizes, floating
point beyond exact halves and decimal digits, bitwise operators and powers are not
modelled. Memory in Python programs (`memory.py`, the pool of PyOpenCL) has no logic of
its own: objects are collected by Python. Opaque values of entry points are not read.

## 8. Plan

Done in this order: `FreeList` with `DeviceAlloc`, `MemBlock`, `GroupScan`,
`ScanKernel`, `GroupReduce`, `TestManager`, `ContextSizes`, `BlockedScan`, `PyReader`
with `PyValues`, `PyScalar`, `ScanMC`, `PyContext`, with the theorems of section 5. Next:

1. `ImportLoader` (`Compiler/Program.hs`): the depth-first search with the stack of
   includes. Each file once and after its imports; a reported cycle is one; success
   means there is none. Names are not normalised, and `..` in names works although
   `TypeChecker/Monad.hs:393` says it does not. Specification above it: a
   topological order of the graph of files. Instance: graphs over 3 or 4 files.
2. `DeviceMemory`: `MemBlock` over `FreeList`, the blocks of the former being the
   buffers of the latter; no host array shares a buffer with another after any
   sequence of calls and cache clearings.
3. The kernels of a reduction (`BlockedReduce`): chunks of
   `computeThreadChunkSize`, comm and noncomm orders, `GroupStream`.
4. `TiledTranspose` (`OpenCL/Kernels.hs`): every element moved once, by tiles with
   remainders.
5. `Coalescing` and `InPlaceLowering`: the safety conditions over straight-line
   programs, against a reference that executes both versions.
6. `Uniqueness`: occurrences and consumption over small terms, against a reference
   that executes them and looks for a use after a consumption.
7. `IndexFun`: pure functions against references over small shapes. The C side of
   `PyScalar`, where division and shifts have undefined cases of their own.

Theorems planned, with the modules above: the order of imports for `ImportLoader` and the
composition of `MemBlock` with `FreeList` (`CalleesFreeOnlyTheirOwn` and
`ListImplementsAlloc` are the two halves of it).
