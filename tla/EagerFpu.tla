------------------------------ MODULE EagerFpu ------------------------------
(***************************************************************************)
(* What the FPU hand-over promises: every task has an FP state of its own, *)
(* as if it were saved and restored on every switch.  fp[s] is the state   *)
(* of the task in slot s; 0 is the state fninit gives.  A child starts     *)
(* with its parent's state.  LazyFpu implements this specification under   *)
(* the mapping in LazyFpu!Eager.                                           *)
(***************************************************************************)
EXTENDS Naturals

CONSTANTS NTasks, MaxFp, NULL

Tasks == 0..NTasks-1

VARIABLES current, live, fp, fp_ops, operand

vars == <<current, live, fp, fp_ops, operand>>

Init ==
  /\ current = 0
  /\ live = {0}
  /\ fp = [s \in Tasks |-> 0]
  /\ fp_ops = 0
  /\ operand = [task |-> NULL, regs |-> 0]

\* Another live task is scheduled.
Switch(n) ==
  /\ n \in live /\ n # current
  /\ current' = n
  /\ UNCHANGED <<live, fp, fp_ops, operand>>

\* An FP instruction of a user task computes on that task's own state and
\* leaves a new one; no other task's state changes.
Compute ==
  /\ current # 0 /\ fp_ops < MaxFp
  /\ operand' = [task |-> current, regs |-> fp[current]]
  /\ fp' = [fp EXCEPT ![current] = fp_ops + 1]
  /\ fp_ops' = fp_ops + 1
  /\ UNCHANGED <<current, live>>

\* The running task forks: the child in slot nr starts from its state.
Fork(nr) ==
  /\ nr \notin live
  /\ live' = live \cup {nr}
  /\ fp' = [fp EXCEPT ![nr] = fp[current]]
  /\ UNCHANGED <<current, fp_ops, operand>>

\* The running task exits and another live task is scheduled.
Exit(n) ==
  /\ current # 0 /\ n \in live /\ n # current
  /\ live' = live \ {current}
  /\ fp' = [fp EXCEPT ![current] = 0]
  /\ current' = n
  /\ UNCHANGED <<fp_ops, operand>>

Next ==
  \/ Compute
  \/ \E n \in Tasks : Switch(n) \/ Fork(n) \/ Exit(n)

Spec == Init /\ [][Next]_vars

=============================================================================
