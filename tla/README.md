# TLA+ models of the Linux 0.01 x86_64 kernel core

This directory holds TLA+ models of the kernel core under `src/`, the TLC
configurations that check them, and `PROJECT.json`, which maps every modelled
definition to the source lines it translates and lists the runs, mutants,
findings and hazards.

## The system

`spec.md` divides the core into five components:

| | Component | Source | Model |
|---|---|---|---|
| A | Physical frame allocator: `mem_map` reference counts, `get_free_page`, `free_page` | `mm/memory.c` | `Memory` |
| B | Address-space manager: `get_pte`, `copy_page_tables`, `free_page_tables`, `un_wp_page`, `do_wp_page`, `write_verify`, `do_no_page`, `put_page` | `mm/memory.c`, `verify_area` in `kernel/fork.c` | `Memory` |
| C | Task table: `task[]`, `find_empty_process`, `sched_init`, descriptors | `kernel/fork.c`, `kernel/sched.c`, `include/linux/sched.h` | slot choice in `Memory`; PIDs, `sched_init` and child naming in `TaskTable`, composed with the FPU in `TaskLifecycle`; the child's LDT bases in `Segments` |
| D | Scheduler and wait queues: `schedule`, `do_timer`, `sleep_on`, `interruptible_sleep_on`, `wake_up`, `sys_pause`, `sys_alarm`, `sys_nice` | `kernel/sched.c` | `Sched` |
| E | Fork and context switch: `copy_process`, `copy_mem`, `switch_to` | `kernel/fork.c`, `include/linux/sched.h` | memory half in `Memory`; choice of `current` in `Sched`; lazy FPU hand-over, fork's FPU copy and exit in `LazyFpu`, refining `EagerFpu`; composed with the task table in `TaskLifecycle` |
| F | String library: every routine of `include/string.h` and the out-of-line `mem*` of `lib/string.c` | `include/string.h`, `lib/string.c` | `StringLib` |
| – | Built-in shell (outside the core, spec §1): `builtin_shell`, `process_command` | `init/main.c` | `Shell`, refining `LineEditor` |

The components interact as follows:
- The timer interrupt calls `do_timer` (D). D's `schedule` picks the next task, and `switch_to` (E) makes it current.
- `fork` takes a frame from A for the new task, then clones the parent's address space through B (`copy_mem` → `copy_page_tables`) into the window of the child's slot.
- Page faults enter B, which asks A for frames.
- On exit, a task's window is released with `free_page_tables`.
- Fork names the child from `last_pid` (C). After a switch, the first FP instruction of a task that does not own the FPU traps into `math_state_restore` (E).
- The string library (F) is called by nothing today: no kernel file includes `string.h`.
- `main` ends in `init()`, which runs the shell in task 0, in kernel mode, for ever. The shell calls no kernel service; it polls the UART and reads `task[]` and `jiffies` only to print them.

The rest of the tree is not part of the core and is not modelled, apart from the shell's line editor. That covers:
- `printk`, the CMOS/BCD `time_init` and the port I/O and descriptor encoders in `include/asm`;
- the syscall table in `include/linux/sys.h`;
- `tools/build.c`.

Some code the core calls is not in the tree at all: `do_exit`, `sys_kill`, `do_signal` and the assembly entry stubs. The models treat these as environment, as described below.

## Modules

### `Sched.tla`: kernel/sched.c

**State.** The task fields `state`, `counter`, `priority`, `signal` and `alarm`, plus `current`, and `head[q]` for each wait queue `*p`. Three further variables model the suspended continuation of the sleep functions:
- `pc[t]`: where t is suspended, `"user"`, `"sleep_on"` or `"isleep"`;
- `waitq[t]`: the queue argument of that sleep call;
- `tmp[t]`: the sleep call's local `tmp`.

A task that called `schedule()` inside `sleep_on` or `interruptible_sleep_on` resumes there when it is switched back to. The rest of the function is then its own action (`SleepOnResume`, `ISleepResume`), enabled only while the task is `current`. This is the coroutine shape spec §9 describes.

**Actions.** One per operation:
- `Tick` is `do_timer`;
- `SleepOn` and `SleepOnResume` are `sleep_on`;
- `ISleepOn` and `ISleepResume` are `interruptible_sleep_on`;
- `WakeUp`, `Pause`, `SysAlarm` and `SysNice` are the calls of the same names.

Every action that calls `schedule()` ends with `Dispatch`: the two phases of `schedule` (`SignalPhase`, then `Loop`, the `while (1)` loop) followed by `SwitchTo`, which is the `switch_to` macro's change of `current`.

**Abstractions.**
- `jiffies` is not a variable. `alarm[t]` holds the deadline minus the clock, and `Tick` decrements it. `alarm < jiffies` becomes `alarm[t] < 0`, and values below −1 are all equivalent for that test.
- `utime`, `stime` and `start_time` are accounting only and are left out.
- Only `schedule()` posts a signal (SIGALRM). Nothing in the tree sends or clears one, so the model does neither.
- All slots hold tasks. Init is the state after task 0 has forked the others, each as `copy_process` publishes it (`fork.c:85-90`, `185`): RUNNING with counter = priority, no signal and no alarm, and task 0 current. The tree's `main` never forks and task 0 never pauses; `Pause(0)` is what hands the CPU to the other tasks, so the wait queues can be exercised at all.

**The selection loop.** `Scan` translates the inner `while (--i)` loop literally: from slot `NTasks-1` down to 1, a RUNNING task whose counter exceeds `c` becomes `next`. `Select` is one pass from `c = -1, next = 0`. `Loop` is the `while (1)`: it breaks when `c != 0` and otherwise applies `Refill` and scans again. The model follows at most `MaxRefills = 2` refills, and a loop that has not ended by then yields no `switch_to`. With every priority at least 1, one refill is always enough.

### `Memory.tla`: mm/memory.c and the memory half of kernel/fork.c

**The tree.** There is one page tree: the PML4 at 0x1000 is loaded at boot and `switch_to` never reloads CR3. Slot `s` owns the window of `W` virtual pages at `s*W`, the model's `nr * 0x4000000`. A page table covers `PTSpan` pages and a directory covers `PDSpan` pages; the PML4 and PDPT are the boot tables. Frame 0 stands for all memory below `LOW_MEM`, which is never counted. Frames `1..NF` are the ones `mem_map` counts.

**State.**
- `mem_map`;
- `pd` and `pt`: which directories and tables are installed, and in which frame;
- `pte`: the leaf entries, each `NoPte` or `[frame, w]`;
- `live`: the slots that hold a task (`task[nr] != NULL`);
- `kframe`: each task's `task_struct` frame;
- `panic`: the `panic()` message that stopped the machine, if any.

**Helpers.** Each C function becomes an operator on a record of the memory state, returning the new state and a success flag, in the order the code calls them:
- `GetFreePage` takes the highest free frame;
- `FreePage` panics on a free frame;
- `GetPte` allocates a directory and then a table, either of which can fail;
- `FreeRange`/`FreePageTables` panic when `from == 0`;
- `CopyRange`/`CopyPageTables` copy in ascending order and can fail part way;
- `PutPage`, `UnWp`, `WriteVerify`/`VerifyRange`, and `CopyMem` with its rollback.

**Actions.** `DoNoPage`, `DoWpPage`, `VerifyArea`, `Fork` (`copy_process`'s frame allocation, `copy_mem` and its failure path) and `Exit`. `do_exit` is not in the tree. `DoExit` models it by its contract in spec §3: `free_page_tables(base, limit)` over the task's window, then the task's frame is freed and its slot emptied. For task 0 the base is 0, so `free_page_tables` panics, exactly as the code would.

**Clone size.** The `DataLimit` of `copy_mem` is `NSlots*W`. `get_limit(0x17)` returns 4 GiB, the LDT limit every task inherits from `INIT_TASK`, and 4 GiB is exactly `NR_TASKS` windows of 64 MiB.

Page contents and the TLB are not modelled. The properties are about which frames are mapped, shared and counted.

### `TaskTable.tla`: PIDs and the task table (kernel/fork.c, kernel/sched.c)

**State.** `pid[i]` is `task[i]->pid`, or `NULL` when `task[i] == NULL`. `father[i]` is `task[i]->father`. `last_pid` is the global counter of `fork.c:19`.

**Actions.**
- `Init` is the state after `sched_init`: task 0 is `INIT_TASK` with PID 0, and slots 1.. are empty.
- `SysFork(par)` is `find_empty_process` followed by `copy_process`:
  - `NextPid` is the `repeat` loop: `++last_pid`, reset to 1 when negative, and repeat while a task holds that PID;
  - `FreeSlot` is the slot loop, which fails with `-EAGAIN` when no slot is free;
  - `copy_process` then either fails (`get_free_page` or `copy_mem`, whose outcome is `Memory`'s business and here a free choice) or names the child with `last_pid` and its father.
  `last_pid` advances even when no slot is free or the copy fails, as in the code.
- `Exit(t)` frees a slot. `do_exit` and the parent's wait are not in the tree, so this follows spec §3.

**Abstraction.** `last_pid` is a `long`. The model gives it `PidBits` bits, so that `++last_pid` overflows within reach. The build wraps a signed overflow to the most negative value, which the `< 0` test then resets to 1. `ASSUME NTasks - 1 < LONG_MAX` keeps the skip loop finite, as 63 tasks against 2^63 PIDs do in the real kernel.

No run checks `TaskTable` alone: it is checked as a component of `TaskLifecycle`.

### `LazyFpu.tla` and `EagerFpu.tla`: the FPU hand-over (include/linux/sched.h, kernel/sched.c, kernel/fork.c)

**State.**
- `current`, and `task[s]`: the frame slot s's `task_struct` lives in (`init_task` for task 0, a frame of `KFrames` for a child), or `NULL`;
- `ts` (CR0.TS), `last_task_used_math`, and per frame `used_math[f]` and the save area `i387[f]`;
- the FPU registers `regs`, the count `fp_ops` of FP instructions executed, and `operand`, the slot and registers the last FP instruction ran on.

The FPU code compares `task_struct` pointers, so `last_task_used_math` names a frame, not a slot: a frame freed at exit can hold the next child's `task_struct`. An FP state is a number: 0 is what `fninit` gives, and the k-th FP instruction leaves state k.

**Actions.**
- `SwitchTo(n)` is the `switch_to` macro: `current = n`, then `__switch_to`, then `clts` if the new task is `last_task_used_math`.
- `FpInsn` is an FP instruction of the current task. With TS set it first traps: the stub (not in the tree) clears TS and calls `math_state_restore` (`MathStateRestore`), which saves into `last_task_used_math`'s area, then restores the current task's area or runs `fninit`.
- `ForkFpu(nr, f)` is the FPU part of `copy_process`: `*p = *current` copies `used_math` and `i387` into the new frame f, then `if (last_task_used_math == current)` the live registers are `fxsave`d into the child's area (`CopyFpu`), and `task[nr]` is published.
- `ExitSwitch(n)` is exit (not in the tree, spec §3) followed by `schedule()`'s switch to a live task n: the slot is cleared and its frame freed.

**Abstractions.**
- Task 0 runs the shell in kernel mode for ever and executes no FP instructions.
- Any live task may be switched to; which one is `Sched`'s business.
- Two behaviours are not in the tree and are constants: whether `__switch_to` (in `switch.nasm`) sets TS (`SwitchSetsTS`), and whether exit gives up the FPU when the exiting task owns it (`ExitDropsFpu`).

**Refinement.** `EagerFpu` is the promise: each live task owns an FP state `fp[t]`; an FP instruction computes on `fp[current]`; a fork gives the child its parent's state; an exit removes the task; nothing else changes any `fp`. `LazyFpu` maps `live` to the slots with a `task_struct` and `fp[s]` to:
- the registers if `task[s]` is `last_task_used_math`;
- else its save area, once it has used math;
- else 0, the `fninit` state.

`EagerFpuRefined` checks `Eager!Spec` under this mapping.

### `TaskLifecycle.tla`: the task table and the FPU together

`TaskLifecycle` instantiates `TaskTable` (as `TT`) and `LazyFpu` (as `FPU`) over one `current` and composes them:
- `Fork` is `TT!SysFork(current)`. When it publishes a child in slot nr, the same step is `FPU!ForkFpu(nr, f)` for some free frame f; when it fails, the FPU state is unchanged.
- `Exit(n)` is `TT!Exit(current)` together with `FPU!ExitSwitch(n)`.
- `FpInsn` and `SwitchTo` leave the task table unchanged.

So the slot `FreeSlot` picks is the one whose frame the FPU code writes, and PIDs and frames are reused together.

### `Segments.tla`: where `copy_mem` puts a child (kernel/fork.c, include/linux/sched.h)

**State.** `live` (the slots with a task), `ldt[s]` (the eight bytes of `task[s]->ldt[1]` and `ldt[2]`), `window[s]` (the address `copy_page_tables` copied s's pages to), `panic`, and `int_wrap`.

**Representation.** A 64-bit value is kept as its eight bytes, so addresses at and above 2^31 are exact. TLC's integers stop at 2^31.

**Actions.** `Fork(par)` is the part of `copy_process` that places the child:
- `FreeSlot` is `find_empty_process`'s slot loop;
- `copy_mem` reads the parent's bases with `get_base` (`GetBase`) and panics if code and data differ;
- it computes `new_data_base = nr * 0x4000000` (`NewBase`), writes it into both LDT descriptors with `set_base` (`SetBase`), and copies the page tables to it;
- `get_free_page` or `copy_page_tables` may fail, which publishes nothing.

`nr * 0x4000000` is an `int` product, so it overflows for `nr >= 32`. That is undefined behaviour, and `int_wrap`, chosen once at boot, covers both things the build can do:
- multiply in 32 bits and sign-extend to `unsigned long`;
- multiply in 64 bits.

**Abstraction.** `do_exit` is not in the tree, and the base depends on `nr` alone, so the model has only forks. With `NR_TASKS = 64` they reach every slot as the lowest free one. Page contents and the limit are `Memory`'s business.

### `Shell.tla` and `LineEditor.tla`: the built-in shell (init/main.c)

**State.**
- `cmd_buf` and `cmd_pos`, the file's statics;
- `ran`, the command `process_command` last chose. It stands for that command's output, which is only text on the serial port.

**Actions.**
- `ReadKey(c)` is one pass of `builtin_shell`'s inner loop for a byte other than Enter, with four disjuncts:
  - backspace with `cmd_pos > 0`;
  - backspace at an empty line;
  - a printable byte stored while `cmd_pos < 255`;
  - any other byte, ignored.
- `Enter(c)` is `process_command` followed by the new prompt:
  - it stores the NUL at `cmd_buf[cmd_pos]`;
  - it dispatches through the if-chain (`Command`) with the file's own signed-char `strcmp` (`Strcmp`);
  - it resets `cmd_pos`.

**Abstractions.**
- Backspace only moves `cmd_pos` back, so bytes of erased and earlier lines stay behind the NUL, as in the code.
- `cmd_reboot` loads an empty IDT, and the next interrupt triple-faults the CPU. The machine then restarts in the model's initial state, so the restart is left out. The model lets the shell go on reading after `reboot`, as it does until that interrupt.

**Refinement.** `LineEditor` is what the help text promises: a line of at most `MaxLine` printable bytes that backspace edits, and Enter runs the command named by exactly that line. `Shell` maps `line` to `cmd_buf[0..cmd_pos)` and checks `LE!Spec` as `LineEditorRefined`.

### MC modules

`MCSched.tla`, `MCMemory.tla`, `MCStringLib.tla`, `MCTaskLifecycle.tla`, `MCSegments.tla` and `MCShell.tla` extend the modules. `MCSched` supplies the queue-kind assignments the configurations use; `MCTaskLifecycle` declares the frames `f1` and `f2` as model values.

## Runs

| Run | Expect | Properties | What it shows |
|---|---|---|---|
| `sched_safety` | pass | `TypeOK`, `SleepOnSleepersReachable`, `ScheduleAgrees` | sleep_on's daisy chain never loses a sleeper; from every counter and priority that ticks, refills and `sys_nice` reach, and for every choice of RUNNING tasks, `schedule()`'s loop ends after at most one refill with the task spec §4.4's selection rule (`SpecPick`) names |
| `sched_lost_wakeup` | violation | `SleepersReachable` | the lost wakeup in `interruptible_sleep_on` (finding 1) |
| `mem_cow` | pass | `TypeOK`, `RefcountSound`, `WritableExclusive` | no counted frame is handed out while referenced; a writable managed page is never shared |
| `mem_leak` | violation | `RefcountExact` | `do_no_page` leaks its frame when `put_page` fails (finding 2) |
| `mem_lowmem_cow` | violation | `WritableExclusiveAll` | the parent keeps write access to low-memory frames it shares with the child (finding 3) |
| `mem_fork_window` | violation | `OthersWindowsPreserved` | one task's exit frees the pages of a live sibling, because of the 4 GiB clone size (finding 4) |
| `tasks_fpu` | pass | `PidsUnique`, `EagerFpuRefined` | across forks, failed forks, exits, PID wrap and frame reuse: PIDs stay unique and positive, and the lazy hand-over refines `EagerFpu` |
| `fork_base_overflow` | violation | `SlotWindows` | from slot 32 on, `copy_mem`'s int product overflows and the child's pages go elsewhere than its slot's window and its LDT base (finding 6) |
| `string_lib` | pass | `TypeOK`, `ResultsAgree`, `WritesConfined` | every routine, called within its contract in any order, returns and writes what C99 promises, and writes no cell outside its destination |
| `string_strncpy_overflow` | violation | `StrncpyWritesConfined` | `strncpy` writes one byte past `dest+count` (finding 5) |
| `shell` | pass | `TypeOK`, `LineEditorRefined` | the shell's buffer editing and dispatch implement the line editor of its help text, and the NUL store stays inside `cmd_buf` |

Each property of a passing run has a mutant in `PROJECT.json`: a plausible bug in the mapped code that TLC shows the property catches. Examples are `sys_nice` without its positivity test, `schedule`'s scan taking `>=` for `>` (a tie goes to the lowest slot), `copy_page_tables` without `mem_map[..]++`, `un_wp_page` making any shared page writable in place, `find_empty_process` not skipping PIDs in use, `math_state_restore` not saving the previous owner, a signed `strcmp`, `strncat` storing its NUL one byte too far, the shell's full-buffer test letting `cmd_pos` reach the buffer size, and `process_command` dispatching without storing the NUL.

## Findings

1. **Lost wakeup in `interruptible_sleep_on`** (`sched.c:168`).
   1. T1 sleeps on q.
   2. T2 calls `wake_up(&q)`, which wakes T1 and clears the head.
   3. T2 sleeps on q and becomes the head.
   4. T1 resumes, sees a head that is not itself, wakes T2 and goes back to sleep.

   T1 is now linked from nothing: the head is T2, and T2's `tmp` is NULL. No later `wake_up(&q)` can wake it; only a signal can.
2. **Frame leak in `do_no_page`** (`memory.c:351-354`). When `put_page` fails, the frame from `get_free_page` is never freed.
3. **Copy-on-write skipped for low memory** (`memory.c:270-273`). The spec says both sides lose the Writable bit; the code clears it in the child only for frames below `LOW_MEM`. The comment at `main.c:5-11` acknowledges this for forks from kernel space.
4. **4 GiB clone size** (`fork.c:42`). `copy_mem`'s `data_limit` is 64 windows, so `copy_page_tables` and the `free_page_tables` of exit and of fork's rollback reach the windows of higher slots. Exiting slot 1 frees slot 2's pages. With only two slots no live sibling lies above a child, which is why `mem_cow` uses two slots and `mem_fork_window` three.

5. **`strncpy` writes past `dest+count`** (`string.h:34`). When the source is shorter than `count`, the copy loop stores the NUL and advances without decrementing `count`. The padding loop `while (count-- > 0) *d++ = '\0'` then writes `count` more bytes: `count + 1` in total, one past the buffer, where C99 7.21.2.4 allows exactly `count`. No file includes `string.h` today, so nothing is affected yet. TLC's trace: with cell 0 an empty string and cell 4 holding 1, `strncpy(3, 0, 1)` writes the NUL to cell 3 and a pad byte to cell 4, outside `dest[0..1)`.
6. **Window base overflows from slot 32** (`fork.c:49`). `copy_mem` computes `new_data_base = nr * 0x4000000` with `nr` an `int`, so the product is an `int`. It exceeds `INT_MAX` for `nr >= 32`, and `NR_TASKS` is 64. Under the build that wraps the product and sign-extends it, the 33rd fork (`fork_base_overflow`):
   - copies slot 32's pages to `0xFFFFFFFF80000000`, in the top 2 GiB;
   - has `set_base` record `0x80000000` in the child's LDT.

   Spec §3 puts slot s at `s × 64 MiB`. A later fork of that child copies from `get_base(ldt[2])`, where none of its pages are. A cast, `(unsigned long) nr * 0x4000000`, would remove the undefined behaviour.

**Assumptions about code that is not in the tree.** `LazyFpu` has two constants for behaviour the tree does not contain, and `tasks_fpu` sets both to TRUE.
- `SwitchSetsTS`: whether `__switch_to`, in `switch.nasm`, leaves CR0.TS set. Nothing in the tree sets TS. Spec §4.5 and §5 do not say who does.
- `ExitDropsFpu`: whether exit clears `last_task_used_math` when the exiting task owns the FPU. `do_exit` is not in the tree, and spec §3 says only that exit destroys the task.

With either constant FALSE, TLC finds `EagerFpuRefined` violated:
- without TS, in 4 states: a task computes on its predecessor's FP registers;
- without the drop at exit, in 6 states: a child whose `task_struct` reuses the dead owner's frame is taken for the owner and computes on the dead task's registers.

The code is right only if the missing pieces do both.

## Bounds

**`sched_safety`**: 3 slots (idle plus two tasks), one `sleep_on` queue and one interruptible queue, priority up to 2, alarms of 0 or 1 s at HZ = 1. It reaches about 370,000 states in about 80 s; `ScheduleAgrees` runs the loop for all 27 assignments of task states in each of them.
- Two sleepers are the fewest for which a daisy chain, a displaced head and a wake of one of several waiters exist.
- Priority 2 lets `sys_nice` move both ways and lets refills differ between tasks.
- A 4-slot model does not finish within 5 minutes.

**`sched_lost_wakeup`**: as `sched_safety`, with one queue used interruptibly.

**`mem_cow`**: 2 slots, windows of 4 pages, page tables of 2 pages and directories of 8 pages, 9 counted frames (about 26,000 states).
- With these bounds a window needs tables of its own beyond those fork creates.
- Memory runs out: every allocation site, including a directory allocated before its table, fails in some behaviour.
- Task 0 and a child fault, share, copy-on-write and exit repeatedly.

**`mem_fork_window`**: 3 slots, the fewest in which a live sibling sits above a child.

**`tasks_fpu`**: 3 slots, 2 child frames, a 3-bit `last_pid` (positive PIDs 1..3) and up to 3 FP instructions, about 111,000 states in about 11 s. Two children use all the positive PIDs but one, so forks after exits wrap `last_pid` and skip PIDs in use; two frames let a freed frame be reused while another child lives; three FP instructions let one task's state be saved, another's be used, and the first's be restored or inherited by a child. 

**`fork_base_overflow`**: `NR_TASKS = 64`, the real table. The model has only forks, so its states form a chain of 64 per build, and TLC reaches slot 32 after 33 forks.

**`shell`**: a 5-byte `cmd_buf` (lines of up to 4 bytes, the code's 255 scaled down), and the keys `p`, `s`, `f`, `r`, `e`, backspace, `'\r'` and 0. It reaches about 16,000 states in about 6 s.
- `ps` can be typed with bytes of a longer earlier line behind its NUL.
- `free` fills the buffer, and a fifth printable byte meets the full-buffer test.
- Every branch of the loop is taken, and `none`, `ps`, `free` and `unknown` are dispatched.
- The other command names differ only in their bytes.

**`string_lib`**: 5 cells plus the canary, bytes {0, 1, 255} and counts up to 3, about 1.2 million states in about 30 s. Five cells hold two short strings or overlapping `memmove` ranges; 255 makes signedness visible; a count of 3 exceeds the short strings, which exercises padding, early NULs and `strncpy`'s overrun.

## Fairness

`Sched` has no fairness and no liveness property. The code does not give the fairness a liveness property would need. Task 0 runs `builtin_shell` for ever in kernel mode (`main.c:130`, `346-349`; the `pause` loop is commented "Never reached"). `do_timer` schedules only on a user-mode tick (`sched.c:193`). So once the shell runs, nothing calls `schedule()`: no runnable task is ever switched to, and no alarm ever fires. The hazards at `sched.c:193` and `sched.c:103` are listed with that note.

`Memory` has no liveness properties and no fairness. Its runs set `CHECK_DEADLOCK FALSE` because a `panic()` stops the machine by design.

`TaskLifecycle` and `StringLib` have no liveness properties and no fairness. `TaskLifecycle` never deadlocks: task 0 can always fork, and a failed fork still advances `last_pid`. In `StringLib`, some call is always enabled. `Shell` has no liveness property; the UART can always deliver another byte, so it never deadlocks. `Segments` stops once the table is full, which only its violation run reaches.

## Hazards considered and set aside

- **`task[nr] = p` last** (`fork.c:186`). The publication order would matter if the scheduler could run between the field copy and the store. The kernel is not preemptive: `do_timer` calls `schedule` only when the interrupted code ran at CPL ≠ 0, and `copy_process` never sleeps, so nothing can observe a half-built task.
- **`init_tss.rsp0` before `__switch_to`** (`sched.h:201`). An interrupt in this window arrives from kernel mode. It does not load `rsp0` and does not schedule, so the early update is never observed.
- **`verify_area`'s 32-bit mask** (`fork.c:27`). `start &= 0xfffff000` clears bits 32-63 of the address. Nothing in the tree calls `verify_area`, so no address reaches it.
- **`schedule`'s view of slot 0** (`sched.c:135`). The selection loop runs `while (--i)` and never reads `task[0]`'s state, so the idle task cannot be lost by a state change; its comment says as much.

## Not modelled

- **The rest of the shell.** The text the commands print (`cmd_help`, `cmd_ps`, `cmd_uptime` and so on) is only serial output, and `shell_getc`'s UART polling is port I/O. The shell runs in task 0, in kernel mode, for ever (`main.c:306-338`). The kernel is not preemptive, so nothing else is scheduled while it runs, and `init`'s `pause` loop at `main.c:349` is never reached. The shell therefore shares no state with the core and is checked on its own.
- **GDT descriptors.** `set_tss_desc` and `set_ldt_desc` write the GDT (`sched.c:269-272`, `fork.c:183`). No code in the tree reads it back: `ltr(0)` and `lldt(0)` load only task 0's entries.
- **`sys_getpid`, `sys_getppid`, the `getuid`/`getgid` family and `sys_signal`** (`sched.c:203-255`). All but the last are reads. `sys_signal` writes a handler table that no code in the tree reads (`do_signal` is not in the tree). The reparenting that would keep `getppid` meaningful after a parent exits belongs to `do_exit`, which is not in the tree, and spec §3 does not describe it.
- **Abstract allocator.** `Memory`'s `mem_map` is checked directly against counts of references; no abstract frame-pool specification is refined.
- **Composition of `TaskLifecycle` with `Sched` and `Memory`.** Each is checked at the bounds it needs; `sched_safety` alone takes 370,000 states at 3 slots, and the product with `Memory`'s page trees would multiply them. The interfaces are narrow: `Sched` only chooses `current`, and `Memory` only decides whether a fork's allocation succeeds, which `TaskTable` takes as a free choice.
- **`printk`, `time_init`, `include/asm`, `include/linux/sys.h`, `tools/build.c`**: formatting, port I/O, a static table and a build tool, with no state a property could be about.
