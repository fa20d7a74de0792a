------------------------------- MODULE KList -------------------------------
(***************************************************************************)
(* The circular doubly linked lists of include/lists.h at the level of     *)
(* their pointers, under the operations scheduler.c performs on them.      *)
(* A node is the address of a list_t: a list head, or the `tasks` field of *)
(* a thread.  Each macro is its sequence of pointer assignments, so that a *)
(* node inserted twice damages the lists exactly as it does in memory.     *)
(* The loop of scheduler_wake is one step per iteration: the variables     *)
(* waking and cursor are its list and its loop variable.                   *)
(***************************************************************************)
EXTENDS FiniteSets, Scheduler

CONSTANTS Heads,      \* list heads
          Items,      \* list nodes of threads
          RunQueue   \* the head of the run queue

ASSUME NodesAssumption == /\ Heads \cap Items = {}
                          /\ RunQueue \in Heads
                          /\ IsFiniteSet(Items)

Node == Heads \cup Items

VARIABLES next, prev, waking, cursor

vars == <<next, prev, waking, cursor>>

NotWaking == RunQueue    \* no list is being woken: nobody wakes the run queue

\* A pair of pointer functions, as the macros transform it.
Mem(n, p) == [next |-> n, prev |-> p]
Store(m)  == next' = m.next /\ prev' = m.prev
Memory    == Mem(next, prev)

SetNext(m, a, b) == Mem([m.next EXCEPT ![a] = b], m.prev)
SetPrev(m, a, b) == Mem(m.next, [m.prev EXCEPT ![a] = b])

\* Mutant of append_to_list: the node before is not told of the new one.
append_to_list_one_way(m, head, item) ==
    LET m1 == SetPrev(m, item, m.prev[head])
        m2 == SetNext(m1, item, head)
    IN  SetPrev(m2, m2.next[item], item)

\* Mutant of append_to_list: the pointers of list_insert_to_right.
append_to_list_right(m, head, item) ==
    LET m1 == SetPrev(m, item, head)
        m2 == SetNext(m1, item, m1.next[head])
        m3 == SetPrev(m2, m2.next[head], item)
    IN  SetNext(m3, head, item)

append_to_list(m, head, item) ==
    LET m1 == SetPrev(m, item, m.prev[head])
        m2 == SetNext(m1, item, head)
        m3 == SetNext(m2, m2.prev[item], item)
    IN  SetPrev(m3, m3.next[item], item)

remove_from_list(m, item) ==
    LET m1 == SetNext(m, m.prev[item], m.next[item])
        m2 == SetPrev(m1, m1.next[item], m1.prev[item])
        m3 == SetNext(m2, item, item)
    IN  SetPrev(m3, item, item)

\* The assignments of scheduler_cheat.
insert_first(m, head, item) ==
    LET m1 == SetNext(m, item, m.next[head])
        m2 == SetPrev(m1, m1.next[head], item)
        m3 == SetPrev(m2, item, head)
    IN  SetNext(m3, head, item)

Init == /\ next = [n \in Node |-> n]       \* init_list
        /\ prev = [n \in Node |-> n]
        /\ waking = NotWaking
        /\ cursor = NotWaking

Detached(n) == next[n] = n
Idle == waking = NotWaking /\ UNCHANGED <<waking, cursor>>

\* scheduler_insert, of a thread that is on no list
Insert(t) == /\ Idle
             /\ Detached(t)
             /\ Store(append_to_list(Memory, RunQueue, t))

\* scheduler_cheat, of a thread that is on no list
Cheat(t) == /\ Idle
            /\ Detached(t)
            /\ Store(insert_first(Memory, RunQueue, t))

\* scheduler_remove, wherever the thread is
Drop(t) == /\ Idle
             /\ Store(remove_from_list(Memory, t))

\* scheduler_sleep, wherever the thread is
Sleep(t, h) == /\ Idle
               /\ Store(append_to_list(remove_from_list(Memory, t), h, t))

\* scheduler_wake: the start of the loop ...
WakeStart(h) == /\ waking = NotWaking
                /\ waking' = h
                /\ cursor' = next[h]
                /\ UNCHANGED <<next, prev>>

\* Mutant of WakeStep: i = i->next after the node was moved.
WakeStepLate ==
    /\ waking # NotWaking
    /\ cursor # waking
    /\ LET m == append_to_list(remove_from_list(Memory, cursor), RunQueue, cursor)
       IN  Store(m) /\ cursor' = m.next[cursor]
    /\ UNCHANGED waking

\* ... an iteration ...
WakeStep ==
    /\ waking # NotWaking
    /\ cursor # waking
    /\ cursor' = next[cursor]
    /\ Store(append_to_list(remove_from_list(Memory, cursor), RunQueue, cursor))
    /\ UNCHANGED waking

\* ... and its end.
WakeEnd ==
    /\ waking # NotWaking
    /\ cursor = waking
    /\ waking' = NotWaking
    /\ cursor' = NotWaking
    /\ UNCHANGED <<next, prev>>

Next == \/ \E t \in Items : Insert(t) \/ Cheat(t) \/ Drop(t)
        \/ \E t \in Items, h \in Heads \ {RunQueue} : Sleep(t, h)
        \/ \E h \in Heads \ {RunQueue} : WakeStart(h)
        \/ WakeStep \/ WakeEnd

Spec == Init /\ [][Next]_vars /\ WF_vars(WakeStep \/ WakeEnd)

-----------------------------------------------------------------------------
TypeOK == /\ next \in [Node -> Node]
          /\ prev \in [Node -> Node]
          /\ waking \in Heads
          /\ cursor \in Node

\* prev and next are inverse to each other: every list is a closed ring in
\* both directions, whatever sequence of macros was applied.
MutualLinks == \A n \in Node : prev[next[n]] = n /\ next[prev[n]] = n

\* scheduler_wake terminates, with the list empty.
WakeTerminates == \A h \in Heads \ {RunQueue} :
                     waking = h ~> waking = NotWaking /\ next[h] = h

-----------------------------------------------------------------------------
(* KList implements ThreadQueues.                                           *)

\* From head h over the threads of s and back, as for_each_in_list walks
Place(h, s, i) == IF i \in DOMAIN s THEN s[i] ELSE h
Follows(n, h, s) == \A i \in 0..Len(s) : n[Place(h, s, i)] = Place(h, s, i + 1)

ThreadLists == UNION {[1..k -> Items] : k \in 0..Cardinality(Items)}

\* The list of h
Walk(h) == CHOOSE s \in ThreadLists : Follows(next, h, s)

\* What Scheduler calls the lists, and the head of one
WaitLists == {TWait(h) : h \in Heads \ {RunQueue}}
HeadOf(l) == l[2]

\* The threads that scheduler_wake has still to move count as on the run
\* queue already.
queues == [l \in WaitLists \cup {RunQ} |->
    CASE l = RunQ /\ waking = NotWaking -> Walk(RunQueue)
      [] l = RunQ /\ waking # NotWaking -> Walk(RunQueue) \o Walk(waking)
      [] OTHER -> IF waking = HeadOf(l) THEN <<>> ELSE Walk(HeadOf(l))]

Queues == INSTANCE ThreadQueues WITH Threads <- Items

\* The pointer lists behave as the queues of threads that Process works with.
ImplementsQueues == Queues!QSpec
=============================================================================
