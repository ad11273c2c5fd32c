---------------------------- MODULE TaskLifecycle ----------------------------
(***************************************************************************)
(* The composition of the task table (TaskTable) and the FPU hand-over     *)
(* (LazyFpu) over one task table: sys_fork is find_empty_process and       *)
(* copy_process, which names the child (TaskTable) and copies the          *)
(* parent's FP state into it (LazyFpu); exit frees the slot in both.  The  *)
(* running task is the one that forks and exits; the FP instructions and   *)
(* the switches are LazyFpu's and leave the PIDs alone.                    *)
(***************************************************************************)
CONSTANTS NTasks, PidBits, KFrames, init_task, MaxFp, NULL, SwitchSetsTS, ExitDropsFpu

VARIABLES pid, father, last_pid,
          current, task, ts, last_task_used_math, used_math, i387, regs,
          fp_ops, operand

TT  == INSTANCE TaskTable
FPU == INSTANCE LazyFpu

tt_vars  == <<pid, father, last_pid>>
fpu_vars == <<current, task, ts, last_task_used_math, used_math, i387, regs,
              fp_ops, operand>>
vars == <<tt_vars, fpu_vars>>

\* sys_fork from the running task: find_empty_process and copy_process.
\* When the child is published (task[nr] set), it is given its task_struct
\* frame and its parent's FP state; on -EAGAIN the FPU side is unchanged.
Fork ==
  LET nr == TT!FreeSlot(pid)
  IN  /\ TT!SysFork(current)
      /\ IF nr # NULL /\ pid'[nr] # NULL
         THEN \E f \in KFrames : FPU!ForkFpu(nr, f)
         ELSE UNCHANGED fpu_vars

\* The running task exits; schedule() switches to the live task n.
Exit(n) == TT!Exit(current) /\ FPU!ExitSwitch(n)

Init == TT!Init /\ FPU!Init

Next ==
  \/ FPU!FpInsn /\ UNCHANGED tt_vars
  \/ \E n \in FPU!Tasks : FPU!SwitchTo(n) /\ UNCHANGED tt_vars
  \/ Fork
  \/ \E n \in FPU!Tasks : Exit(n)

Spec == Init /\ [][Next]_vars

-----------------------------------------------------------------------------

\* Spec section 3: at most one task per PID and a positive PID for every
\* task but task 0, across the wrap of last_pid and the PIDs that exits and
\* failed forks release (find_empty_process, fork.c).
PidsUnique == TT!PidsUnique

\* The lazy FPU hand-over, with fork's copy of the parent's FP state and
\* exit, implements EagerFpu: each task computes on its own FP state.
EagerFpuRefined == FPU!EagerFpuRefined

=============================================================================
