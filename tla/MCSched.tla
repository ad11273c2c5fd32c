------------------------------- MODULE MCSched -------------------------------
(* Model-checking instance of Sched: three task slots (idle + two).        *)
EXTENDS Sched

(* The queue that the mixed configuration makes a sleep_on queue. *)
CONSTANTS q1

MCQueuesSleepOn == [q \in Queues |-> "sleep_on"]
MCQueuesInterruptible == [q \in Queues |-> "interruptible"]
MCQueuesMixed == [q \in Queues |-> IF q = q1 THEN "sleep_on" ELSE "interruptible"]
=============================================================================
