------------------------------ MODULE TaskTable ------------------------------
(***************************************************************************)
(* The task table and PID allocation: sched_init's emptying of task[1..],  *)
(* find_empty_process's last_pid counter with its wrap and its skip of     *)
(* PIDs in use, and the part of copy_process that names the child.         *)
(*                                                                         *)
(* last_pid is a long; here it has PidBits bits, so that ++last_pid        *)
(* overflows within reach.  The build wraps a signed overflow to the most  *)
(* negative value (two's complement), which the code's (< 0) test resets   *)
(* to 1.  Whether copy_process gets its task_struct frame and copy_mem     *)
(* succeeds is the allocator's answer (Memory.tla) and is a free choice.   *)
(* do_exit is not in the tree: Exit is spec section 3's "the slot is       *)
(* cleared", with the parent's reaping folded in.                          *)
(***************************************************************************)
EXTENDS Integers, FiniteSets

CONSTANTS
  NTasks,    \* NR_TASKS
  PidBits,   \* the width of last_pid
  NULL

LONG_MAX == 2^(PidBits - 1) - 1
LONG_MIN == -(2^(PidBits - 1))

\* With fewer children than positive PIDs, the skip loop always ends.
ASSUME NTasks - 1 < LONG_MAX

Tasks == 0..NTasks-1
Children == 1..NTasks-1

VARIABLES
  pid,       \* pid[i]: task[i]->pid, or NULL when task[i] == NULL
  father,    \* father[i]: task[i]->father
  last_pid

vars == <<pid, father, last_pid>>

-----------------------------------------------------------------------------

\* ++x on a long of PidBits bits.
Inc(x) == IF x = LONG_MAX THEN LONG_MIN ELSE x + 1

InUse(p) == {p[i] : i \in {j \in Tasks : p[j] # NULL}}

\* Mutant: the loop takes the next PID without looking at the task table.
NextPidNoSkip(lp, used) == IF Inc(lp) < 0 THEN 1 ELSE Inc(lp)

\* find_empty_process's repeat loop: if ((++last_pid) < 0) last_pid = 1;
\* and again while some task has that PID.
RECURSIVE NextPid(_, _)
NextPid(lp, used) ==
  LET n == IF Inc(lp) < 0 THEN 1 ELSE Inc(lp)
  IN  IF n \in used THEN NextPid(n, used) ELSE n

\* The slot loop: the first i >= 1 with task[i] == NULL, or NULL (-EAGAIN).
FreeSlot(p) ==
  LET free == {i \in Children : p[i] = NULL}
  IN  IF free = {} THEN NULL ELSE CHOOSE i \in free : \A j \in free : i <= j

\* sys_fork from the running task par: find_empty_process, then
\* copy_process(nr, ...), which sets p->pid = last_pid and p->father =
\* current->pid and publishes task[nr] unless get_free_page or copy_mem
\* fails.  last_pid has advanced in every case.
SysFork(par) ==
  LET lp == NextPid(last_pid, InUse(pid))
      nr == FreeSlot(pid)
  IN  /\ pid[par] # NULL
      /\ last_pid' = lp
      /\ \/ nr = NULL /\ UNCHANGED <<pid, father>>
         \/ nr # NULL /\ UNCHANGED <<pid, father>>
         \/ /\ nr # NULL
            /\ pid' = [pid EXCEPT ![nr] = lp]
            /\ father' = [father EXCEPT ![nr] = pid[par]]

\* do_exit and the parent's wait: the slot becomes free.  Task 0 never
\* exits.
Exit(t) ==
  /\ t # 0 /\ pid[t] # NULL
  /\ pid' = [pid EXCEPT ![t] = NULL]
  /\ UNCHANGED <<father, last_pid>>

\* After sched_init: task[0] is INIT_TASK with PID 0, the other slots are
\* NULL; last_pid starts at 0.
Init ==
  /\ pid = [i \in Tasks |-> IF i = 0 THEN 0 ELSE NULL]
  /\ father = [i \in Tasks |-> 0]
  /\ last_pid = 0

Next == \E t \in Tasks : SysFork(t) \/ Exit(t)

Spec == Init /\ [][Next]_vars

-----------------------------------------------------------------------------

TypeOK ==
  /\ pid \in [Tasks -> (LONG_MIN..LONG_MAX) \cup {NULL}]
  /\ father \in [Tasks -> LONG_MIN..LONG_MAX]
  /\ last_pid \in LONG_MIN..LONG_MAX

\* Spec section 3: at most one task per PID, and every task but task 0 has
\* a positive PID -- across the wrap of last_pid and the reuse of PIDs that
\* exited tasks released.
PidsUnique ==
  /\ \A i, j \in Tasks : i # j /\ pid[i] # NULL => pid[i] # pid[j]
  /\ \A i \in Children : pid[i] # NULL => pid[i] > 0

=============================================================================
