------------------------------ MODULE Scheduler ------------------------------
(***************************************************************************)
(* The list operations of kernel/proc/scheduler.c over the queues a        *)
(* thread's `tasks` node can be linked into: the run queue, the `waiting`  *)
(* list of a process and the `waiting` list of a thread.  A queue is the   *)
(* sequence of the threads met when walking the list from its head; module *)
(* KList shows that the pointer macros of lists.h implement these          *)
(* sequences as long as no linked node is inserted a second time, which is *)
(* an invariant of Process.                                                *)
(***************************************************************************)
EXTENDS Integers, Sequences, SequencesExt

\* The list heads.
RunQ     == <<"run", 0>>
PWait(p) == <<"process", p>>
TWait(t) == <<"thread", t>>

\* remove_from_list on the node of t: no effect when the node is detached.
Unlink(s, t) ==
    IF t \in ToSet(s)
    THEN RemoveAt(s, CHOOSE i \in 1..Len(s) : s[i] = t)
    ELSE s

\* Mutant of scheduler_insert: last in, first out.
scheduler_insert_lifo(q, th) == [q EXCEPT ![RunQ] = Cons(th, @)]

scheduler_insert(q, th) == [q EXCEPT ![RunQ] = Append(@, th)]

scheduler_cheat(q, th) == [q EXCEPT ![RunQ] = Cons(th, @)]

scheduler_remove(q, th) == [l \in DOMAIN q |-> Unlink(q[l], th)]

\* First thread on the run queue, not removed; `none` for the null pointer.
scheduler_next(q, none) == IF q[RunQ] # <<>> THEN Head(q[RunQ]) ELSE none

\* Mutant of scheduler_sleep: the node is not taken off its queue first.
scheduler_sleep_linked(q, th, list) == [q EXCEPT ![list] = Append(@, th)]

\* The queues after th was put to sleep on list (its state becomes WAITING).
scheduler_sleep(q, th, list) ==
    [scheduler_remove(q, th) EXCEPT ![list] = Append(@, th)]

\* The queues after all of list went, in order, to the tail of the run queue
\* (their states become READY).
scheduler_wake(q, list) ==
    [q EXCEPT ![RunQ] = @ \o q[list], ![list] = <<>>]
=============================================================================
