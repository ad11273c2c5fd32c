-------------------------------- MODULE Sched --------------------------------
(***************************************************************************)
(* The scheduler and wait-queue primitives of kernel/sched.c.              *)
(*                                                                         *)
(* One CPU runs the task `current`.  A task that calls schedule() inside   *)
(* sleep_on or interruptible_sleep_on is suspended there; when schedule()  *)
(* later switches back to it, it runs the rest of that function: that      *)
(* continuation is the task's own action (SleepOnResume, ISleepResume),    *)
(* enabled only while it is current.  pc[t] records where t is suspended.  *)
(*                                                                         *)
(* Data abstractions:                                                      *)
(*  - jiffies is not a variable: alarm[t] holds the task's deadline minus  *)
(*    jiffies (the code's absolute deadline less the clock), so the timer  *)
(*    tick decrements it; schedule()'s test `alarm < jiffies` becomes      *)
(*    alarm[t] < 0, and values below -1 are all the same to that test;     *)
(*  - utime/stime/start_time are accounting only and are left out;         *)
(*  - the signal bitmap is the set of pending signal names.  Only         *)
(*    schedule() posts one (SIGALRM); no code of this tree sends or clears *)
(*    signals (sys_kill and do_signal are not part of it).                 *)
(***************************************************************************)
EXTENDS Integers, FiniteSets

CONSTANTS
  NTasks,        \* slots 0..NTasks-1 in use; slot 0 is the idle task
  Queues,        \* wait-queue heads (struct task_struct *) the tasks use
  QueueKind,     \* [Queues -> {"sleep_on", "interruptible"}]: the primitive
                 \* every sleeper on that queue calls
  InitPriority,  \* priority (and first counter) of each task, INIT_TASK's 15
  MaxPriority,   \* bound on priority raised by sys_nice (model bound)
  MaxAlarmSecs,  \* largest argument to sys_alarm (model bound)
  HZ,            \* timer ticks per second
  NULL, NoAlarm  \* model values: empty pointer, alarm == 0

ASSUME NTasks >= 2
ASSUME InitPriority \in 1..MaxPriority
ASSUME QueueKind \in [Queues -> {"sleep_on", "interruptible"}]
ASSUME HZ \in Nat \ {0} /\ MaxAlarmSecs \in Nat

Tasks == 0..(NTasks - 1)
User  == Tasks \ {0}
TASK_RUNNING == 0
TASK_INTERRUPTIBLE == 1
TASK_UNINTERRUPTIBLE == 2
Signals == {"SIGALRM"}

VARIABLES
  state, counter, priority, signal, alarm,  \* fields of task_struct
  current,   \* the running task
  head,      \* head[q]: the single-pointer wait queue *p
  pc,        \* where a task is suspended: "user", "sleep_on" or "isleep"
  waitq,     \* the queue argument p of the sleep call t is suspended in
  tmp        \* the local `tmp` of that sleep call

vars == <<state, counter, priority, signal, alarm, current, head, pc, waitq, tmp>>

-----------------------------------------------------------------------------
(* schedule(), phase one: post SIGALRM for elapsed alarms and wake        *)
(* interruptible sleepers that have a signal.  Slot 0 is skipped.          *)
Elapsed(al, t) == al[t] # NoAlarm /\ al[t] < 0

SignalPhase(st, sig, al) ==
  LET fire(t) == t # 0 /\ Elapsed(al, t)
      sig2 == [t \in Tasks |-> IF fire(t) THEN sig[t] \cup {"SIGALRM"} ELSE sig[t]]
  IN [signal |-> sig2,
      alarm  |-> [t \in Tasks |-> IF fire(t) THEN NoAlarm ELSE al[t]],
      state  |-> [t \in Tasks |->
                    IF t # 0 /\ sig2[t] # {} /\ st[t] = TASK_INTERRUPTIBLE
                    THEN TASK_RUNNING ELSE st[t]]]

(* Mutant of Scan: `>=` in place of `>`, so a tie goes to the lowest slot. *)
RECURSIVE ScanTieLow(_, _, _, _, _)
ScanTieLow(st, cnt, i, c, next) ==
  IF i = 0 THEN [c |-> c, next |-> next]
  ELSE IF st[i] = TASK_RUNNING /\ cnt[i] >= c THEN ScanTieLow(st, cnt, i - 1, cnt[i], i)
       ELSE ScanTieLow(st, cnt, i - 1, c, next)

(* The inner `while (--i)` loop of schedule() from slot i down to 1: a     *)
(* RUNNING task whose counter is larger than c becomes next.  Slots        *)
(* NTasks..NR_TASKS-1 are NULL and skipped, so the scan starts at NTasks-1. *)
RECURSIVE Scan(_, _, _, _, _)
Scan(st, cnt, i, c, next) ==
  IF i = 0 THEN [c |-> c, next |-> next]
  ELSE IF st[i] = TASK_RUNNING /\ cnt[i] > c THEN Scan(st, cnt, i - 1, cnt[i], i)
       ELSE Scan(st, cnt, i - 1, c, next)

(* One pass of the selection: c = -1, next = 0, then the scan.             *)
Select(st, cnt) == Scan(st, cnt, NTasks - 1, -1, 0)

(* The refill of every slot but 0: counter = (counter >> 1) + priority.    *)
Refill(cnt, prio) ==
  [t \in Tasks |-> IF t = 0 THEN cnt[t] ELSE cnt[t] \div 2 + prio[t]]

(* Passes of the while(1) loop the model follows before it calls the loop *)
(* endless (model bound; with every priority >= 1 two passes suffice).     *)
MaxRefills == 2

(* schedule()'s while(1): select; `if (c) break;` otherwise refill and     *)
(* select again.  next = NULL: the loop has not ended after MaxRefills.    *)
RECURSIVE Loop(_, _, _, _)
Loop(st, cnt, prio, fuel) ==
  LET r == Select(st, cnt)
  IN  IF r.c # 0 THEN [counter |-> cnt, next |-> r.next]
      ELSE IF fuel = 0 THEN [counter |-> cnt, next |-> NULL]
      ELSE Loop(st, Refill(cnt, prio), prio, fuel - 1)

(* schedule(): both phases.  The result carries the new task fields and    *)
(* `next`, the slot switch_to gets.                                        *)
Schedule(st, cnt, prio, sig, al) ==
  LET sp   == SignalPhase(st, sig, al)
      pick == Loop(sp.state, cnt, prio, MaxRefills)
  IN [state |-> sp.state, counter |-> pick.counter, signal |-> sp.signal,
      alarm |-> sp.alarm, next |-> pick.next]

(* switch_to(next): current becomes next (no-op when they are equal).      *)
SwitchTo(s) ==
  /\ state' = s.state
  /\ counter' = s.counter
  /\ signal' = s.signal
  /\ alarm' = s.alarm
  /\ current' = s.next

(* schedule() followed by its switch_to, the result computed once; a      *)
(* schedule() whose loop does not end never reaches switch_to.             *)
Dispatch(st, cnt, prio, sig, al) ==
  \E s \in {Schedule(st, cnt, prio, sig, al)} : s.next # NULL /\ SwitchTo(s)

-----------------------------------------------------------------------------
(* Every slot holds a task as copy_process leaves it at publication        *)
(* (kernel/fork.c): RUNNING, counter = priority, no signal, no alarm; task *)
(* 0 is current.  The tree's main never forks, so this is the state after  *)
(* hypothetical forks, the one in which the wait queues can be exercised.  *)
Init ==
  /\ state = [t \in Tasks |-> TASK_RUNNING]
  /\ counter = [t \in Tasks |-> InitPriority]
  /\ priority = [t \in Tasks |-> InitPriority]
  /\ signal = [t \in Tasks |-> {}]
  /\ alarm = [t \in Tasks |-> NoAlarm]
  /\ current = 0
  /\ head = [q \in Queues |-> NULL]
  /\ pc = [t \in Tasks |-> "user"]
  /\ waitq = [t \in Tasks |-> NULL]
  /\ tmp = [t \in Tasks |-> NULL]

(* A task runs its own code only while current and not suspended.         *)
Running(t) == current = t /\ pc[t] = "user"

(* The timer interrupt: jiffies++ (each alarm comes one tick nearer), then *)
(* do_timer(cpl).  The interrupted context is user mode only for a task    *)
(* other than 0 that is not inside the kernel.  The quantum is decremented *)
(* and, once exhausted, clamped to 0; only a user-mode tick schedules.     *)
Tick ==
  LET c   == current
      cpl == c # 0 /\ pc[c] = "user"
      al  == [t \in Tasks |-> IF alarm[t] # NoAlarm /\ alarm[t] >= 0
                                THEN alarm[t] - 1 ELSE alarm[t]]
      cnt == [counter EXCEPT ![c] = IF @ - 1 > 0 THEN @ - 1 ELSE 0]
  IN \/ /\ counter[c] - 1 > 0 \/ ~cpl
        /\ counter' = cnt /\ alarm' = al
        /\ UNCHANGED <<state, priority, signal, current, head, pc, waitq, tmp>>
     \/ /\ counter[c] - 1 <= 0 /\ cpl
        /\ Dispatch(state, cnt, priority, signal, al)
        /\ UNCHANGED <<priority, head, pc, waitq, tmp>>

(* sleep_on(&q): push current on q, sleep uninterruptibly, schedule().     *)
(* The panic for task 0 is the guard t # 0.                                *)
SleepOn(t, q) ==
  /\ Running(t) /\ t # 0 /\ QueueKind[q] = "sleep_on"
  /\ tmp' = [tmp EXCEPT ![t] = head[q]]
  /\ head' = [head EXCEPT ![q] = t]
  /\ waitq' = [waitq EXCEPT ![t] = q]
  /\ pc' = [pc EXCEPT ![t] = "sleep_on"]
  /\ Dispatch([state EXCEPT ![t] = TASK_UNINTERRUPTIBLE],
                counter, priority, signal, alarm)
  /\ UNCHANGED priority

(* Mutant of SleepOnResume: the daisy-chain wake of tmp is dropped.        *)
SleepOnResumeNoChain(t) ==
  /\ current = t /\ pc[t] = "sleep_on"
  /\ pc' = [pc EXCEPT ![t] = "user"]
  /\ waitq' = [waitq EXCEPT ![t] = NULL]
  /\ tmp' = [tmp EXCEPT ![t] = NULL]
  /\ UNCHANGED <<state, counter, priority, signal, alarm, current, head>>

(* The rest of sleep_on once switched back to: if (tmp) tmp->state = 0.    *)
SleepOnResume(t) ==
  /\ current = t /\ pc[t] = "sleep_on"
  /\ state' = IF tmp[t] # NULL THEN [state EXCEPT ![tmp[t]] = TASK_RUNNING]
                               ELSE state
  /\ pc' = [pc EXCEPT ![t] = "user"]
  /\ waitq' = [waitq EXCEPT ![t] = NULL]
  /\ tmp' = [tmp EXCEPT ![t] = NULL]
  /\ UNCHANGED <<counter, priority, signal, alarm, current, head>>

(* interruptible_sleep_on(&q): push current on q, then `repeat:` sleep     *)
(* interruptibly and schedule().                                           *)
ISleepOn(t, q) ==
  /\ Running(t) /\ t # 0 /\ QueueKind[q] = "interruptible"
  /\ tmp' = [tmp EXCEPT ![t] = head[q]]
  /\ head' = [head EXCEPT ![q] = t]
  /\ waitq' = [waitq EXCEPT ![t] = q]
  /\ pc' = [pc EXCEPT ![t] = "isleep"]
  /\ Dispatch([state EXCEPT ![t] = TASK_INTERRUPTIBLE],
                counter, priority, signal, alarm)
  /\ UNCHANGED priority

(* Back from schedule() in interruptible_sleep_on.  If a newer sleeper is  *)
(* the head, wake it and go back to `repeat`; otherwise clear the head,    *)
(* wake tmp and return.                                                    *)
ISleepResume(t) ==
  LET q == waitq[t] IN
  /\ current = t /\ pc[t] = "isleep"
  /\ IF head[q] # NULL /\ head[q] # t
     THEN /\ Dispatch([state EXCEPT ![head[q]] = TASK_RUNNING,
                                     ![t] = TASK_INTERRUPTIBLE],
                        counter, priority, signal, alarm)
          /\ UNCHANGED <<priority, head, pc, waitq, tmp>>
     ELSE /\ head' = [head EXCEPT ![q] = NULL]
          /\ state' = IF tmp[t] # NULL
                      THEN [state EXCEPT ![tmp[t]] = TASK_RUNNING] ELSE state
          /\ pc' = [pc EXCEPT ![t] = "user"]
          /\ waitq' = [waitq EXCEPT ![t] = NULL]
          /\ tmp' = [tmp EXCEPT ![t] = NULL]
          /\ UNCHANGED <<counter, priority, signal, alarm, current>>

(* wake_up(&q): wake the head and empty the queue.                         *)
WakeUp(t, q) ==
  /\ Running(t) /\ head[q] # NULL
  /\ state' = [state EXCEPT ![head[q]] = TASK_RUNNING]
  /\ head' = [head EXCEPT ![q] = NULL]
  /\ UNCHANGED <<counter, priority, signal, alarm, current, pc, waitq, tmp>>

(* sys_pause: sleep interruptibly and schedule().  Nothing follows the     *)
(* call, so the task resumes in user mode.  Task 0 calls it in its loop.   *)
Pause(t) ==
  /\ Running(t)
  /\ Dispatch([state EXCEPT ![t] = TASK_INTERRUPTIBLE],
                counter, priority, signal, alarm)
  /\ UNCHANGED <<priority, head, pc, waitq, tmp>>

(* sys_alarm(seconds): deadline jiffies + HZ*seconds, or none.             *)
SysAlarm(t, secs) ==
  /\ Running(t) /\ t # 0
  /\ alarm' = [alarm EXCEPT ![t] = IF secs > 0 THEN HZ * secs ELSE NoAlarm]
  /\ UNCHANGED <<state, counter, priority, signal, current, head, pc, waitq, tmp>>

(* Mutant of SysNice: the test that the priority stays positive is gone.  *)
SysNiceNoGuard(t, inc) ==
  /\ Running(t) /\ t # 0
  /\ priority[t] - inc <= MaxPriority
  /\ priority' = [priority EXCEPT ![t] = @ - inc]
  /\ UNCHANGED <<state, counter, signal, alarm, current, head, pc, waitq, tmp>>

(* sys_nice(increment): lower the priority by increment if it stays > 0.   *)
SysNice(t, inc) ==
  /\ Running(t) /\ t # 0
  /\ priority[t] - inc > 0
  /\ priority[t] - inc <= MaxPriority
  /\ priority' = [priority EXCEPT ![t] = @ - inc]
  /\ UNCHANGED <<state, counter, signal, alarm, current, head, pc, waitq, tmp>>

Next ==
  \/ Tick
  \/ \E t \in Tasks :
       \/ Pause(t) \/ SleepOnResume(t) \/ ISleepResume(t)
       \/ \E q \in Queues : SleepOn(t, q) \/ ISleepOn(t, q) \/ WakeUp(t, q)
       \/ \E s \in 0..MaxAlarmSecs : SysAlarm(t, s)
       \/ \E i \in {-1, 1} : SysNice(t, i)

(* No fairness: task 0 runs builtin_shell for ever in kernel mode          *)
(* (init/main.c:130, 346-349), so nothing in this tree guarantees that     *)
(* schedule() is ever called, and the model states no liveness.            *)
Spec == Init /\ [][Next]_vars

-----------------------------------------------------------------------------
TypeOK ==
  /\ state \in [Tasks -> {TASK_RUNNING, TASK_INTERRUPTIBLE, TASK_UNINTERRUPTIBLE}]
  /\ counter \in [Tasks -> 0..(2 * MaxPriority)]
  /\ priority \in [Tasks -> 1..MaxPriority]
  /\ signal \in [Tasks -> SUBSET Signals]
  /\ alarm \in [Tasks -> {NoAlarm} \cup (-1..(HZ * MaxAlarmSecs))]
  /\ current \in Tasks
  /\ head \in [Queues -> Tasks \cup {NULL}]
  /\ pc \in [Tasks -> {"user", "sleep_on", "isleep"}]
  /\ waitq \in [Tasks -> Queues \cup {NULL}]
  /\ tmp \in [Tasks -> Tasks \cup {NULL}]

(* The tasks a sleep call on q will still wake: the head, and the tmp of   *)
(* every task already woken but not yet back from its sleep call, followed *)
(* through the tmp links of tasks still suspended on q (the daisy chain).  *)
RECURSIVE Chain(_, _, _)
Chain(q, x, seen) ==
  IF x = NULL \/ x \in seen \/ waitq[x] # q THEN seen
  ELSE Chain(q, tmp[x], seen \cup {x})

Pending(q) == {x \in Tasks : waitq[x] = q /\ pc[x] # "user" /\ state[x] = TASK_RUNNING}

Reach(q) == UNION {Chain(q, r, {}) : r \in {head[q]} \cup {tmp[x] : x \in Pending(q)}}

(* Every task asleep inside a sleep call on a queue of kind K is still    *)
(* reachable from that queue.                                              *)
SleepersReachableOn(K) ==
  \A t \in Tasks :
    pc[t] # "user" /\ state[t] # TASK_RUNNING /\ QueueKind[waitq[t]] \in K
      => t \in Reach(waitq[t])

(* sleep_on / wake_up: every task asleep in sleep_on is still reachable    *)
(* from its queue, so wake_up(&q) and the daisy chain of tmp pointers will *)
(* wake it; an uninterruptible task outside that chain sleeps forever.     *)
SleepOnSleepersReachable == SleepersReachableOn({"sleep_on"})

(* interruptible_sleep_on / wake_up: the same for interruptible sleepers:  *)
(* a task woken by wake_up(&q) does not go back to sleep out of reach of   *)
(* every later wake_up(&q).                                                *)
SleepersReachable == SleepersReachableOn({"sleep_on", "interruptible"})

(* The selection rule of spec section 4.4, stated without the loop: among *)
(* RUNNING tasks of slots 1.., the largest counter, after one refill of    *)
(* every slot if all of them are exhausted; the highest slot on a tie      *)
(* (the first the downward scan meets); idle when none is RUNNING.         *)
SpecPick(st, cnt, prio) ==
  LET R    == {t \in User : st[t] = TASK_RUNNING}
      cnt2 == IF R # {} /\ \A t \in R : cnt[t] = 0 THEN Refill(cnt, prio) ELSE cnt
      best == {t \in R : \A u \in R : cnt2[u] <= cnt2[t]}
  IN  [counter |-> cnt2,
       next    |-> IF R = {} THEN 0 ELSE CHOOSE t \in best : \A u \in best : u <= t]

(* schedule()'s while(1) loop, with the counters and priorities that the   *)
(* ticks, refills and sys_nice calls so far have left, returns after at    *)
(* most one refill with the task the selection rule names, whichever tasks *)
(* are RUNNING when it is called: the scan's strict `>` and downward order *)
(* give the tie rule, c = -1 gives idle, and the loop ends only because    *)
(* sys_nice keeps every priority positive.                                 *)
ScheduleAgrees ==
  \A st \in [Tasks -> {TASK_RUNNING, TASK_INTERRUPTIBLE, TASK_UNINTERRUPTIBLE}] :
    Loop(st, counter, priority, MaxRefills) = SpecPick(st, counter, priority)

=============================================================================
