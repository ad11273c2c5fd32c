------------------------------- MODULE LazyFpu -------------------------------
(***************************************************************************)
(* The lazy FPU hand-over: the tail of the switch_to macro (sched.h),      *)
(* which clears CR0.TS when the task switched to is last_task_used_math;   *)
(* math_state_restore (sched.c), run on the device-not-available trap an   *)
(* FP instruction raises while TS is set; the FPU part of copy_process     *)
(* (fork.c); and the FPU part of exit.                                     *)
(*                                                                         *)
(* A task is known to the FPU code by its task_struct pointer:             *)
(* last_task_used_math and current are compared as pointers.  task[s] is   *)
(* the frame slot s's task_struct lives in: init_task for task 0 (the      *)
(* static init_task), a frame of KFrames from get_free_page for the        *)
(* others.  A frame freed at exit may hold the next child's task_struct.   *)
(*                                                                         *)
(* An FP state is a number: 0 is what fninit gives, and the k-th FP        *)
(* instruction executed anywhere leaves state k.  Equal numbers are equal  *)
(* register contents, so a child that inherits its parent's state holds    *)
(* the same number.                                                        *)
(*                                                                         *)
(* Two behaviours are not in the tree and are constants: whether           *)
(* __switch_to (switch.nasm) sets TS, and whether exit gives up the FPU    *)
(* (last_task_used_math = NULL when the exiting task owns it).             *)
(***************************************************************************)
EXTENDS Naturals

CONSTANTS
  NTasks,        \* NR_TASKS
  KFrames,       \* frames get_free_page may give a task_struct
  init_task,     \* the frame of the static init_task
  MaxFp,         \* FP instructions executed in all, at most
  NULL,
  SwitchSetsTS,  \* whether __switch_to leaves CR0.TS set
  ExitDropsFpu   \* whether exit clears last_task_used_math if it is current

Tasks  == 0..NTasks-1
Frames == {init_task} \cup KFrames

VARIABLES
  current,               \* the slot of the running task
  task,                  \* task[s]: the frame of slot s's task_struct, or NULL
  ts,                    \* CR0.TS
  last_task_used_math,   \* the task_struct whose state the FPU registers hold
  used_math,             \* used_math[f]: the used_math field of the task_struct in f
  i387,                  \* i387[f]: its FP save area
  regs,                  \* the FPU registers
  fp_ops,                \* FP instructions executed so far
  operand                \* the slot and registers of the last FP instruction

fpu_vars == <<ts, last_task_used_math, used_math, i387, regs, fp_ops, operand>>
vars == <<current, task, fpu_vars>>

-----------------------------------------------------------------------------

\* get_free_page's choice of a frame for a task_struct: one no task holds.
FreeFrames == KFrames \ {task[s] : s \in Tasks}

\* CR0.TS once switch_to(n) is done: clts if (current == last_task_used_math),
\* else what __switch_to left.
TsAfterSwitch(n, ltm) ==
  IF task[n] = ltm THEN FALSE ELSE IF SwitchSetsTS THEN TRUE ELSE ts

\* switch_to(n): if (task[n] && current != task[n]) { current = task[n];
\* __switch_to(prev, next); clts if current is last_task_used_math }.
SwitchTo(n) ==
  /\ task[n] # NULL /\ n # current
  /\ current' = n
  /\ ts' = TsAfterSwitch(n, last_task_used_math)
  /\ UNCHANGED <<task, last_task_used_math, used_math, i387, regs, fp_ops, operand>>

\* Mutant: the previous owner's state is not saved before the restore.
MathStateRestoreNoSave(cf, ltm, um, r, a) ==
  [regs |-> IF um[cf] THEN a[cf] ELSE 0, i387 |-> a,
   used |-> [um EXCEPT ![cf] = TRUE]]

\* math_state_restore(): fxsave into last_task_used_math->i387; fxrstor
\* current->i387 if current->used_math, else fninit and used_math = 1.
\* (last_task_used_math = current is FpInsn's.)  Returns [regs, i387, used].
MathStateRestore(cf, ltm, um, r, a) ==
  LET a2 == IF ltm # NULL THEN [a EXCEPT ![ltm] = r] ELSE a
  IN  [regs |-> IF um[cf] THEN a2[cf] ELSE 0,
       i387 |-> a2,
       used |-> [um EXCEPT ![cf] = TRUE]]

\* The running task, in user mode, executes an FP instruction.  Task 0 runs
\* the shell in kernel mode (main.c) and executes none.  With TS set it
\* traps first: the stub (not in the tree; spec section 5) clears TS and
\* calls math_state_restore.  The instruction computes on the registers
\* and leaves a new state in them.
FpInsn ==
  LET cf == task[current]
      m  == MathStateRestore(cf, last_task_used_math, used_math, regs, i387)
  IN  /\ current # 0
      /\ fp_ops < MaxFp
      /\ ts' = FALSE
      /\ last_task_used_math' = IF ts THEN cf ELSE last_task_used_math
      /\ used_math' = IF ts THEN m.used ELSE used_math
      /\ i387' = IF ts THEN m.i387 ELSE i387
      /\ operand' = [task |-> current, regs |-> IF ts THEN m.regs ELSE regs]
      /\ regs' = fp_ops + 1
      /\ fp_ops' = fp_ops + 1
      /\ UNCHANGED <<current, task>>

\* copy_process's FPU part: *p = *current copies used_math and i387; then
\* if (last_task_used_math == current) fxsave into p->i387.
CopyFpu(par, f) ==
  /\ used_math' = [used_math EXCEPT ![f] = used_math[par]]
  /\ i387' = [i387 EXCEPT ![f] = IF last_task_used_math = par THEN regs
                                  ELSE i387[par]]

\* The running task forks a child into the free slot nr, its task_struct in
\* the free frame f; the child is published as task[nr].
ForkFpu(nr, f) ==
  /\ task[nr] = NULL /\ f \in FreeFrames
  /\ task' = [task EXCEPT ![nr] = f]
  /\ CopyFpu(task[current], f)
  /\ UNCHANGED <<current, ts, last_task_used_math, regs, fp_ops, operand>>

\* exit (not in the tree; spec section 3): the slot is cleared and the
\* frame freed, last_task_used_math given up if ExitDropsFpu; schedule()
\* then switches to the live task n.
ExitSwitch(n) ==
  LET ltm == IF ExitDropsFpu /\ last_task_used_math = task[current]
             THEN NULL ELSE last_task_used_math
  IN  /\ current # 0 /\ n # current /\ task[n] # NULL
      /\ task' = [task EXCEPT ![current] = NULL]
      /\ last_task_used_math' = ltm
      /\ current' = n
      /\ ts' = TsAfterSwitch(n, ltm)
      /\ UNCHANGED <<used_math, i387, regs, fp_ops, operand>>

\* After sched_init: only task 0 (init_task), TS clear, no FPU user.
Init ==
  /\ current = 0
  /\ task = [s \in Tasks |-> IF s = 0 THEN init_task ELSE NULL]
  /\ ts = FALSE
  /\ last_task_used_math = NULL
  /\ used_math = [f \in Frames |-> FALSE]
  /\ i387 = [f \in Frames |-> 0]
  /\ regs = 0
  /\ fp_ops = 0
  /\ operand = [task |-> NULL, regs |-> 0]

Next ==
  \/ FpInsn
  \/ \E n \in Tasks : SwitchTo(n) \/ ExitSwitch(n)
  \/ \E nr \in Tasks, f \in KFrames : ForkFpu(nr, f)

Spec == Init /\ [][Next]_vars

-----------------------------------------------------------------------------

\* The FP state slot s would compute on: the registers if its task_struct
\* is last_task_used_math, else its save area once it has used the FPU,
\* else the state fninit will give it.
FpOf(s) ==
  IF task[s] = NULL THEN 0
  ELSE IF task[s] = last_task_used_math THEN regs
  ELSE IF used_math[task[s]] THEN i387[task[s]] ELSE 0

Eager == INSTANCE EagerFpu
           WITH fp <- [s \in Tasks |-> FpOf(s)],
                live <- {s \in Tasks : task[s] # NULL}

\* The lazy hand-over implements eager save-and-restore: every step of
\* switch_to, the trap and math_state_restore, fork's copy and exit is a
\* step of EagerFpu.  No step loses or clobbers the FP state of a task that
\* is not running, a child starts from its parent's state, and every FP
\* instruction computes on its own task's state.
EagerFpuRefined == Eager!Spec

=============================================================================
