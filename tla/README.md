# A TLA+ development for the Kernal microkernel

TLA+ models of the parts of the kernel that carry its logic (locks, page
allocator, lists, fair scheduler, tasks and their switching, trap entry), TLC
configurations that check them on small instances, and TLAPS proofs, for every
instance, of the safety properties of all of them.
Paths below are relative to the repository.

## 1. The system

| part | state it keeps | operations | what makes it correct |
|---|---|---|---|
| spinlock (`kernel/include/spinlock.h` 58-203) | `lock`, `owner_cpu` | lock, trylock, unlock, irq/irqsave/bh variants, assert | exclusion; owner record is never stale; no panic and no self-deadlock when used as the kernel uses it; interrupt flag restored |
| reader-writer lock (206-430) | `lock`, `reader_count`, `writer_waiting` | read/write lock, trylock, unlock, variants | a writer excludes all; counters exact; a writer gets its turn |
| interrupt flag, panic (`src/kernel/main.c` 213-234, 555-590) | IF of each CPU, nesting | cli, sti, save, restore, halt | balanced flag, matched nesting |
| trap entry (`kernel/interrupt/interrupt.S`), `switch_to` (`arch/x86_64/cpu/switch.S`) | registers, kernel stacks, saved stack pointers, interrupts in service | exception, IRQ, timer, keyboard, page fault and system call entry and return | what was interrupted goes on undisturbed; a suspended task resumes behind its call, in its code or in a system call |
| buddy allocator (`kernel/mm/buddy.c`) | free lists, page structs, counters, per-CPU list | `alloc_pages`, `__free_pages` and wrappers | every frame in one place; structs agree with lists; free memory merged |
| lists (`kernel/include/list.h`) | `next`, `prev` | add, del, replace, move, rotate, cut, splice, queries | both chains are the caller's sequence |
| fair class (`kernel/core/sched/sched_fair.c`) and run queue code (`sched.c`) | timeline, leftmost, buddies, vruntimes, counters, current task | enqueue, dequeue, pick, wake, fork, yield, schedule | no task lost or doubled; order across the u64 wrap; no queued task is passed over for ever by `schedule` |
| tasks, pids, context switch (`sched.c` 106-433, 539-655) | task structs, stacks, usage counts, task list, mm references, `next_pid` | `alloc_task_struct`, `dup_task_struct`, `get`/`put_task_struct`, `context_switch`, `finish_task_switch` | references balanced; nothing in use is freed; pids unique |
| start-up, system calls (`main.c`, `arch/x86_64/boot`) | first task, call table | `kernel_init`, `create_init_process`, `do_syscall` | failed allocations give back what they took |
| user services (`user/services`) | stubs | - | - |

How they interact: the allocator and the scheduler run their critical sections
under a spinlock with interrupts disabled (`buddy.c` 259, `sched.c` 413, 527,
550); free lists, task list and per-CPU lists are lists; the timer interrupt
(`main.c` 515) calls `scheduler_tick` (external), while `schedule` is called by
`kernel_main` and by tasks that yield; the scheduler keeps tasks that the
allocator's memory holds. What is hard: interrupt handlers that use the same
locks as the code they interrupt, several words per lock, work done just outside
a lock (`prep_new_page`, `free_page_prepare`), wake-ups that overtake a task on
its way to sleep, wrapping virtual time, cached pointers (`rb_leftmost`,
buddies), counters kept by hand, references taken on one stack and dropped on
another, and traps that nest at any instruction. `PROJECT.json` lists the hazards by line.

## 2. Modules

| module | role |
|---|---|
| `Contexts` | CPUs, interrupt levels, interrupt flag, `panic`; shared by both locks |
| `Mutex`, `RwMutex` | what a lock promises (abstract specifications) |
| `SpinLock`, `RwLock` | the locks, one step per access to a shared word; each implements its abstract specification |
| `SpinLockProofs`, `RwLockProofs` | theorems |
| `PageAllocator` | what the page allocator promises (abstract specification) |
| `Buddy`, `MCBuddy` | the page allocator; implements `PageAllocator` |
| `LinkedList` | the list header as pointer assignments beside the callers' sequences |
| `Cfs`, `MCCfs` | the fair class and the run queue |
| `Tasks`, `MCTasks` | task structs, pids, stacks, mm references, the first task, `schedule` from choice to `finish_task_switch` |
| `TrapEntry` | the assembly: every entry, every return and `switch_to`, one step per instruction |
| `BuddyProofs`, `LinkedListProofs`, `CfsProofs`, `TasksProofs`, `TrapEntryProofs` | theorems about the module of that name |
| `DataLemmas` | lemmas they share: powers of two, remainders, alignment, `InsertAt` and `RemoveAt` |

Mutant operators (`X_Something`, commented "Mutant") stand before the definition
they alter; no specification uses them. Each shows that a property fails when
the code is changed in the way its comment says.

**Contexts.** A context is a CPU and a level; level 0 is the task, higher levels
are nested handlers. Only the topmost context of a CPU runs. `EnterLockCode` and
`LeaveLockCode` are the entry and exit of the plain, try, bh, irq and irqsave
variants. `bh` does not touch the interrupt flag: `local_bh_disable` is not
defined and `local_bh_enable` is empty. Handlers run with the flag clear
(interrupt gate and the `cli` of the IRQ macro) and return with it set. Two
idealisations. CPUs have different numbers (`Cpu`), while `smp_processor_id`
(`main.c` 555) returns 0 on every CPU: with more than one CPU the recursion check
would panic on plain contention. For the configured kernel (`NR_CPUS` 1) the model
is exact; what is said of more CPUs holds once they have numbers. And `Discipline`
is the pairing of `rmqueue` and most of `sched.c`; `sys_sched_yield` (`sched.c`
663-676) is not such a caller: it takes `rq->lock` with `this_rq_lock` (external,
read as disabling interrupts) and releases it with a plain `spin_unlock`, so that
`schedule` saves and restores a cleared flag. `IrqFlagBalanced` and the other
properties that assume `Discipline` do not speak of it.

**SpinLock, RwLock.** Every read or write of a shared word is a step. Steps are
sequentially consistent. On x86 that is what the code gets: the swaps and
fetch-and-adds are locked instructions and order what follows them; `owner_cpu` is
only compared with the reader's own CPU number, which only that CPU stores; and a
delayed plain store of `lock = 0` only makes a lock look held for longer. The test
`writer_waiting || (lock & BIAS)` is two steps. The callers in `buddy.c` and
`sched.c` pass `flags` where `spin_lock_irqsave` takes a pointer; the model
reads it as the pointer.

**Buddy.** A free list is the set of blocks on it; `list_first_entry` takes any.
What runs under the zone lock is one step; `prep_new_page`, the global counter,
`put_page_testzero` and `free_page_prepare` are steps of their own, so another
context comes in between. Nothing is ever stolen by `steal_suitable_fallback`:
`__del_page_from_free_list` zeroes `private` before the order is read back from
there, so the fallback only cuts the block, and
`steal_suitable_fallback` and `move_freepages` are not translated further. The
table `fallbacks` is a local of `__rmqueue_fallback` that `find_suitable_fallback`
uses; it is read as visible there. Order-0 pages freed go to the per-CPU
list, from which nothing allocates. Seen from outside, the set of blocks callers
hold behaves as `PageAllocator` (`ImplementsPageAllocator`, the mapping being
`held <- owned`): right size, aligned, inside the zone, disjoint. `free_pcppages_bulk`, `get_page` and the boot
code that hands frames over are external. `init_zone` does not initialise
`per_cpu_pageset`; the model takes `1 <= batch <= high`.

**LinkedList.** `mem` is changed by the header's assignments in their order,
`lists` by what the caller means. Read as intended: `struct list_head` declares
`next` twice (one is `prev`), `__list_splice` names a parameter `head` and uses
`prev`, `list_is_singular` is declared `void` and returns a value. `list_empty_careful` has no body, `list_reverse` does not compile, hlists
are used by nothing.

**Cfs.** Each entry point is one step, since it runs under `rq->lock` with
interrupts off on the one CPU (`NR_CPUS` 1, `CONFIG_SMP` 0); its body is a
composition of functions on run queues with the names of the C functions. The
tree is its in-order sequence. External: `wakeup_preempt_entity`,
`clear_buddies`, `max_vruntime`, `set_current_state`, the idle class,
`check_preempt_curr`. `main.c` 357 and `sched.c` 663 both define
`sys_sched_yield`; the model follows `sched.c`. `rq->idle` and `rq->curr` are set
by no code in the repository; the model starts with the idle task in both.
`deactivate_task` has no caller; the model lets the environment call it. Nothing
assigns `sched_class`; every task is taken to be of the fair class. `yield` acts on
the task that runs, where the code names `current`, which stays init for ever
(`main.c` 312; `Tasks` models that): for tasks of one class the two differ only in
whose state is set to running. The idle class is taken to put the previous task,
which is what keeps `cfs.curr` right after `pick_next_task_fair` returned NULL
(`CurrentAgrees`). `Tick` is the clock that `update_rq_clock` reads, bounded; its
interrupt and steal time, and a clock that goes backwards, are left out.

**Tasks.** One CPU. `kmalloc` returns NULL or an unused object, at every call
anew; the stub in `main.c`, which always returns NULL, is among these behaviours
(then `create_init_process` panics). `kfree` in `main.c` is an empty stub too; the
model's frees take effect, which is what could hurt a task. `alloc_task_struct` and `dup_task_struct`
are part of the step of their caller, with the failure of each allocation, and a
fork takes two pids. `*tsk = *orig` copies the stack pointer, so the new stack is
lost (`orphans`) and both tasks name the parent's. `Schedule` is `schedule` up to
`switch_to`, `FinishTaskSwitch` what the resumed task does next. `switch_to` is
called with three arguments but has two and returns nothing: the resumed task
finds its own `prev`, itself (`PrevAfterSwitch`). Hence dead tasks are never put,
and never freed; the mutant of `TasksAlive` shows that a `switch_to` that did
return the last task would free stacks that copies still use. `current_task` is
set once, to init, as in the code. A kernel thread's reference from `sched_fork`
is overwritten by `context_switch`; `lost` counts these. If the idle task is the
context that ran `kernel_main`, its resumption is `schedule`'s return and a panic;
`kernel_main` allows both. External: `do_fork` and `copy_mm`, `do_exit`,
`mm_alloc`, `mmdrop`, who is made idle task (`sched_init` sets `rq->curr` and
`rq->idle` to NULL and nothing sets them later), and the first instructions of a
new task, taken to end in `finish_task_switch` like those of a resumed one (the
repository's `ret_from_fork` has no user). Which queued task is picked is `Cfs`'s
matter. History variables: `wrapped`, `refs`, `orphans`, `lost`.

**TrapEntry.** `Code` holds each routine as a sequence of instructions; one action
per kind of instruction executes it. A register holds `<<task, register>>`, so a
value that lands in the wrong place shows. A C function keeps the callee-saved
registers and leaves anything in the others; `isr_handler`, `irq_handler` and
`do_page_fault` are not in the repository, `irq_handler` is taken to acknowledge
its interrupt, `isr_handler` to call `handle_exception` (`main.c` 487), which
panics for all but page faults. The IDT is set up outside the repository: a page
fault may come to `isr14` or `page_fault_handler`, a timer or keyboard interrupt
to its handler or its IRQ stub, through interrupt gates. The interrupt controller
holds back lines of lower priority than those in service. Segment selectors are
the same for all tasks. What the syscall instruction and
a privilege change do to `rsp` is set up by code the repository lacks. A task is
switched away from in its own code (`kernel_main`) or inside `do_syscall`, by
`sys_sched_yield`; `ReturnWord` is where `schedule` returns to and the flag it
restores there, off in a system call because `this_rq_lock` cleared it. `ctx[t]`
records, for the properties only, what each entry on `t`'s stack interrupted.
Every task has one stack of its own: the model's tasks are not copies made by
`dup_task_struct`, which leaves parent and child on one stack (`sched.c` 338, in
`Tasks`), where nothing of this could hold. The accepted path of `syscall_entry`
shifts the arguments one register too far (268), overwrites `r11` (266) and lets
`do_syscall` change `rcx`, so `sysretq` goes astray; the model says so
(`phase = "astray"`) and stops there. Of accepted calls it is hence shown that their
registers and stack are right up to `sysretq`, and nothing after it. Which number
`do_syscall` finds is open, so its checks are a choice of outcome.

## 3. Runs

| run | shows | instance |
|---|---|---|
| `spinlock_use` | no panic, holder not suspended, flag balanced, the lock never jams, `SpinLock` implements `Mutex` with liveness of release | 2 CPUs, up to 2 nested interrupts, `Discipline` |
| `spinlock_plain` | exclusion and owner record for all variants in all contexts; self-deadlock only in the two windows 85-87 and 141-146 | 2 CPUs, 1 level, 5 variants |
| `rwlock` | exclusion, exact counters, a draining writer gets the lock, `RwLock` implements `RwMutex` | 2 CPUs, 1 level, `Discipline` |
| `buddy` | frames partitioned (blocks the bad page check loses are a part), structs coherent, merged, unreferenced, counts, `Buddy` implements `PageAllocator` | 2 contexts, 6 frames in blocks of order 2 and 1, 3 orders, symmetric contexts |
| `linked_list` | rings and queries | 2 heads, 3 nodes |
| `cfs` | queue complete, ordered, counted; buddies; monotone minimum | 3 tasks, 2 weights, 20 values of vruntime |
| `cfs_live` | no starvation while `schedule` keeps being called | 2 tasks, one sleeper |
| `tasks` | mm references exact, loaded page tables allocated, pids unique until the wrap, a failed allocation leaves nothing behind but overwritten stacks, nothing reachable freed (dead tasks and overwritten mm references, never reclaimed, are counted) | 4 task structs, 4 stacks, 2 address spaces, `PID_MAX` 7, one extra reference per task; symmetric structs, stacks and address spaces |
| `trap_entry` | returns restore what they interrupted, switched tasks resume behind their call, suspended stacks intact, controller ready | 2 tasks, entries nested 2 deep |

Runs that show a disagreement (`findings` in `PROJECT.json`): `buddy_bounds`
(`current_order >= 0` for an unsigned), `buddy_leak` (tail pages keep a
reference, so a freed block of order > 0 is rejected and lost), `cfs_fork` (a
copied `on_rq` keeps the new task out of the timeline while it is counted). One
more met on the way: `nr_free` counts blocks, its comment (`mm.h` 388) says pages.

Shown by no run of their own, and listed among the hazards: an accepted system call
does not return to its caller (`interrupt.S` 266), though line 288 says that
`sysretq` returns to user space ("返回用户空间"); in the model it ends in
`phase = "astray"`, which `SysretPreserves` leaves open for that path.
`sched_fork` reads through `current` while it is NULL (`main.c` 286); no line says
otherwise. Nor can the two callers of `do_page_fault` (`interrupt.S` 324, `main.c`
540), which is not in the repository, both be right: they pass its arguments in
different registers.

Deadlock is checked except in `spinlock_plain` (a CPU may halt or spin for ever)
and the buddy runs (the model stops after an out-of-bounds access, and all
memory may be leaked).

**Bounds.** Two CPUs give every pair of remote contexts, one level of handlers
every local interference; under `Discipline` a second level is reached only if
the interrupt flag leaks, and is there to let that show. A race of three or more CPUs is the proofs' part. Six frames in blocks of order 2 and 1 give a block
that is cut twice and merged twice and one whose buddy is outside the zone.
`MaxCount` 2 is one extra reference. In `Cfs`, `MaxLead` keeps vruntimes within
half the range of the u64 (in the kernel: 292 years of lead), `U64` = 20 lets
them wrap many times. `Sleepers` limits who sleeps. In `cfs_live` two tasks are used because the bound
on lead stops the clock with three: a task that sleeps at a low vruntime would
hold back the others, which the kernel's clock does not do. In `Tasks`, init and
three more tasks give a user task, a copy that shares its address space, a kernel
thread that borrows it and one more to switch to; three forks pass `PID_MAX` = 7.
Task structs are never given back to `kmalloc` (dead tasks are not put), which is
what ends a behaviour's forks. In `TrapEntry`, depth 2 on each stack gives a trap
inside every kind of entry and a switch inside a system call; two tasks, a switch
away and back. A trap inside a switch inside a system call is depth 3, which is
left to the proofs. After a panic or an astray
return both models only stutter.

**Fairness.** Locks: a CPU executes instructions, critical sections end, handlers
return; nothing is assumed of who wins a swap, nor that an interrupted task runs
again while interrupts keep coming. Hence no claim that every contender on two
CPUs gets the spinlock: the code does not give that. Scheduler: only
that time passes (`Tick`). Nothing in the repository makes `schedule` be called:
`kernel_main` calls it once, `sys_sched_yield` when a task asks, and `interrupt.S`
returns without a look at `need_resched`. `NoStarvation` therefore has
`ScheduleIsCalled`, that `schedule` is called again and again, as its hypothesis,
and is about the choices `schedule` makes; a task that never yields does starve the
others. Wake-ups, sleeps and yields have no fairness.

## 4. Proofs

Constants are arbitrary within the modules' `ASSUME`s: any set of CPUs (finite,
for the counters of the reader-writer lock), any depth of interrupts, any
variants; any zone, orders, boot blocks and contexts; any heads and finitely many
nodes; any finite set of tasks, any weights and any even range of vruntime; any
tasks and any depth of nested kernel entries. Each
module's theorems follow from an inductive invariant `Inv`, preserved by one lemma
per action. Every property of a passing run is proved except those named at the
end of this section.

`SpinLockProofs`. `Inv` is `TypeOK`, `MutualExclusion`, `OwnerCoherent` and
`LockWord` (the lock word is 1 exactly when some context holds). `LockWord` is
what makes exclusion inductive: the swap succeeds only on 0, so nobody holds. From
`Inv` alone follow `SpinLockTypeOK`, `SpinLockMutualExclusion`,
`SpinLockOwnerCoherent`, and `SpinLockRefinesMutex` (every step maps to a step or
stutter of `Mutex`, the holder being the context in a holding location).
`SpinLockNoPanic`, `SpinLockHolderRuns` and `SpinLockIrqFlagBalanced` assume
`Discipline` and need `DInv`: in addition each context's variant fits its level,
and of one CPU's contexts at most one is in the lock code. A panic would need two
of them, or an owner that is not the holder's CPU.
`SpinLockSelfDeadlockOnlyInWindow` needs no discipline: contexts of a CPU nest
(`Nested`), and one gets past the recursion check above a holder only while the
holder has not recorded its CPU (`Window`).

`RwLockProofs`. `Inv` is `TypeOK`, `CountsExact`, `RWExclusion`, `BiasWord` (the
lock word is the write bias exactly when some context is in a biased location)
and `OneBiased`. `RWExclusion` holds because a writer looks at `reader_count`
while it has the word and a reader looks at the word while it is counted; with
exact counters one of the two sees the other. The counters' proof uses the
cardinality theorems for adding and removing one context.
`RwLockRefinesRwMutex` follows.

`TasksProofs`. Three layers, each proved from the ones below. `TaskInv`: types,
what is linked (`Linked`), what fields of task structs say (`Fields`: the usage
count of a linked task is 1 plus the references taken), and that a queued or just
resumed task is not dead (`LiveQueued`). The last is the heart of `TasksAlive`:
`finish_task_switch` sees the resumed task as `prev`, so it never puts one.
`MemInv`: the heap's contents, and pids below `next_pid` until the wrap. `MmInv`:
`mm_users` counts the tasks of an address space, `mm_count` all that refers to it,
and it is allocated exactly while the count is positive; a step that moves a
reference from one place to another changes two of the cardinalities the count is
the sum of. Assumed of the constants: objects of different kinds are different,
and task structs are finitely many.

`BuddyProofs`. The free blocks, the blocks callers hold, those under way in a
call, the pages of the per-CPU list and the lost blocks are `Holdings`, each with
its pages; `PlaceInv` says that they divide the memory boot handed over. Every
action takes some holdings away and puts others with the same pages in their place
(`PagesMove`), so the work is in the geometry: `expand` covers the block it cuts
(`ExpandCovers`), an aligned block and its buddy make an aligned block, the pages
`MergedOrder` finds free are blocks of the zone. `CountInv` carries the result of
`free_page_prepare`, obtained outside the lock, to the moment the block goes on a
list. `FullyMerged` is inductive because a merge stops only at a buddy that is not
free and `expand` leaves upper halves whose lower half is taken.
`BuddyImplementsPageAllocator` maps every step to a step of `PageAllocator` or a
stutter. Powers of two and division are not in the provers' arithmetic:
`DataLemmas` derives what is needed from their recursion, using minimal elements
of sets of naturals for induction. `PagesIn` counts pairs of a block and a page,
not a sum over blocks, which is the same number and has a cardinality theorem.

`LinkedListProofs`. `Coherent(m, L, R)` is a predicate on a memory `m`, sequences
`L` and ready heads `R`: along each ring next and prev agree with the sequence
(`Linked`), and no node is in two places (`Apart`). Since it is about values and
not about the variables, an operation made of two is reasoned about as two:
`list_move` deletes and adds, `list_replace` unlinks and links. For each pointer
operation a lemma says what every word is afterwards, another that this is the
ring of the new sequence. `list_cut_position` and `list_splice` change two rings
(`ApartTwo`). For the queries the recursive `Walk` is shown to satisfy its
equation by a witness that goes round and round the ring; that it visits the ring
then follows by induction on the set of steps.

`CfsProofs`. The functions on run queues have one lemma each: what it does to
the timeline (`Holds`), the counters (`Counted`), the buddies and the flags; the
entry points compose them. `Inv` is `QueueInv` (the timeline holds the queued
tasks but the current one), `CurrentAgrees` and `OffQueue` (a new or detached task
is off the queue). All theorems assume `~ CopiesOnRq`, that a new task starts with
`on_rq` clear: `dup_task_struct` does not see to that, and the run `cfs_fork` is
the counterexample without it. `CfsNrRunningIsRunnable` proves that this is the
only cause: with `on_rq` cleared, the property that run refutes holds.
`CfsTimelineOrdered` and `CfsMinVruntimeMonotone` also assume `[]InWindow`, queued
vruntimes within a quarter of the range of the u64 (146 years of weighted run
time) of `min_vruntime`: beyond that the comparisons by sign of the difference are
not an order. Whether it holds depends on how long tasks are kept waiting; as an
invariant added to `Cfs.cfg` it holds in that instance.

`TrapEntryProofs`. The invariant is about all entries under way on all stacks, not
only the one that runs. `Levels` are the contexts recorded for the stack in use,
outermost first, and the present one; `Nested` says that the first is a task in its
own code and that each of the others is an `Activation` above the one it
interrupted: a trap (`Trapped`), a system call (`Called`) or a switch (`Switched`),
the last from a task's code or from the call of `do_syscall`. An activation that
has reached instruction `i` of routine `R` has `Words(R, i)` words on the stack
(`CallWords`, `SwitchWords` for the other two), and `Kept` says of every register
that it is as it was interrupted or that its old value is in its word of the stack.
Only the topmost level changes: what lies above an activation's words does not
concern it (`ActivationLocal`), so an instruction has to re-establish one activation
(`Stays`), an entry to add one (`Enters`) and a return to remove one (`Returns`),
whose `Kept`, with no register left on the stack, is then `IretRestores`. The same
predicate holds of every stack that is not in use (`Sleeping`), with the frame that
`switch_to` built on top (`Framed`); loading `rsp` exchanges the two roles, and the
activations under a suspended system call are simply there again when it resumes.
That is `SuspendedIntact` and `SwitchResumes`. The routines' texts are first reduced
to what each instruction is (`TrapCode`, `CallCode`, `InvalidCode`, `SwitchCode`),
where the order of the pops and the words dropped are checked. `Service` says which
lines are in service, those that a routine under way has to acknowledge; at most one
is, since an interrupt routine and all that nests in it run with interrupts off
(`OneIrq`), so the non-specific EOI ends the right one. `Turn` gives the moments in
`switch_to` at which `cur` and the stack in use differ. `SuspendedIntact` is stated
for every task whose stack is not in use, the one being switched to included,
because that is what loading `rsp` relies on. From the invariant (`TrapInv`) follow
all five properties of the run, for any tasks and any depth.

Only model-checked: liveness (`LockProgress`, `DrainCompletes`, `NoStarvation`, the
fairness half of `ImplementsMutex`), which the prover does not reach. Refuted, not
proved, are the properties of the three runs that expect a violation.

## 5. Not modelled, and the plan

Not modelled: console output, string helpers, user service stubs, system call
bodies that return `ENOSYS`, declarations of functions the repository does not
contain (IPC, VFS, network, drivers, the real-time and deadline classes), lock
statistics, `boot.S` and the linker script (straight-line hardware set-up), the
routines of `switch.S` without a caller. Hash lists: `pprev` is declared as a
struct, so the functions that assign through it do not compile as written, and
nothing uses them. `list_reverse` and `list_empty_careful` likewise. Much of
`sched.h`, `mm.h` and `config.h` is declarations of state no code uses.

`schedule` reads `rq->curr` before it disables interrupts (`sched.c` 546-550). On
the one CPU no interrupt path of the repository calls `schedule`, so the value
cannot become stale, and `Cfs` and `Tasks` take the read with the rest.

Done: all modules and the proofs of all their safety properties. Left: a run that
refutes line 288 of `interrupt.S` for accepted system calls (section 3), and `InWindow`,
which the two theorems about virtual time assume, from a bound on how long a queued
task waits; that needs a model of the clock against which `schedule` is called,
which the repository does not fix.

## 6. Running

    tlc -config SpinLockUse.cfg SpinLock
    tlc -config Buddy.cfg MCBuddy
    tlc -config Tasks.cfg MCTasks
    tlc -config TrapEntry.cfg TrapEntry
    tlapm BuddyProofs.tla

and likewise the other configurations and `*Proofs` modules; each proof takes at
most a few minutes.

`PROJECT.json` maps every definition to its source lines and lists runs, mutants,
findings, hazards and theorems.
