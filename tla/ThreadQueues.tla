---------------------------- MODULE ThreadQueues ----------------------------
(***************************************************************************)
(* What the lists of scheduler.c promise: queues of threads.  The steps    *)
(* are the operators of Scheduler that Process uses; KList implements      *)
(* this specification.                                                     *)
(***************************************************************************)
EXTENDS Scheduler

CONSTANTS Threads,   \* threads
          WaitLists  \* waiting lists, other than the run queue

VARIABLE queues

Queued(t) == \E l \in DOMAIN queues : t \in ToSet(queues[l])

QInit == queues = [l \in WaitLists \cup {RunQ} |-> <<>>]

QInsert(t) == ~ Queued(t) /\ queues' = scheduler_insert(queues, t)
QCheat(t)  == ~ Queued(t) /\ queues' = scheduler_cheat(queues, t)
QRemove(t) == queues' = scheduler_remove(queues, t)
QSleep(t, l) == queues' = scheduler_sleep(queues, t, l)
QWake(l) == queues' = scheduler_wake(queues, l)

QNext == \/ \E t \in Threads : QInsert(t) \/ QCheat(t) \/ QRemove(t)
         \/ \E t \in Threads, l \in WaitLists : QSleep(t, l)
         \/ \E l \in WaitLists : QWake(l)

QSpec == QInit /\ [][QNext]_queues
=============================================================================
