---------------------------- MODULE PrivateMemory ----------------------------
(***************************************************************************)
(* What the memory manager promises its processes: each one has a memory   *)
(* of its own, a partial map from pages to contents.  A write, a growing   *)
(* heap or stack, a new program or an exit change the memory of the one    *)
(* process that asked for them; a fork gives the child what the parent has *)
(* and from then on the two are apart.                                     *)
(*                                                                         *)
(* The contents of a page are the set of what was stored there.  The       *)
(* actions are relations, not assignments: what a new page holds is left   *)
(* open, and of a new program only that nothing in it is old.              *)
(***************************************************************************)
CONSTANTS Pid, Page, Absent, Fresh

VARIABLE memory   \* memory[p][g]: contents of page g in process p, or Absent

Empty == [g \in Page |-> Absent]

\* Only the memory of p may change.
OthersKept(p) == \A q \in Pid \ {p} : memory'[q] = memory[q]

Write(p) ==
    \E g \in Page :
        /\ memory[p][g] # Absent /\ memory'[p][g] # Absent
        /\ memory[p][g] \subseteq memory'[p][g]
        /\ \A h \in Page \ {g} : memory'[p][h] = memory[p][h]
        /\ OthersKept(p)

Grow(p) ==
    /\ \A g \in Page : memory[p][g] # Absent => memory'[p][g] = memory[p][g]
    /\ OthersKept(p)

Fork(p, c) ==
    /\ memory[c] = Empty
    /\ memory' = [memory EXCEPT ![c] = memory[p]]

\* A new program takes the place of all the process had.
Replace(p) ==
    /\ memory'[p] # Empty
    /\ \A g \in Page : memory'[p][g] \in Fresh \cup {Absent}
    /\ OthersKept(p)

Vanish(p) == memory' = [memory EXCEPT ![p] = Empty]

Init == \E p \in Pid : \A q \in Pid \ {p} : memory[q] = Empty

Next == \E p \in Pid :
            \/ Grow(p) \/ Write(p) \/ Replace(p) \/ Vanish(p)
            \/ \E c \in Pid \ {p} : Fork(p, c)

Spec == Init /\ [][Next]_memory

==============================================================================
