---------------------------- MODULE PageAllocator ----------------------------
(***************************************************************************)
(* What a page allocator promises: a page is handed out only while nobody  *)
(* uses it.  Pmm implements this specification.                            *)
(***************************************************************************)
CONSTANT Page

VARIABLES free,      \* pages the allocator has
          used       \* pages handed out

avars == <<free, used>>

AInit == free = {} /\ used = {}

\* Memory is found at boot.
Add(p) == /\ p \notin free \cup used
          /\ free' = free \cup {p}
          /\ UNCHANGED used

\* A page that nobody uses is handed out.
Take(p) == /\ p \notin used
           /\ used' = used \cup {p}
           /\ free' = free \ {p}

\* A page comes back, and may be taken out of service.
Return(p) == /\ p \in used
             /\ used' = used \ {p}
             /\ free' \in {free, free \cup {p}}

ANext == \E p \in Page : Add(p) \/ Take(p) \/ Return(p)

ASpec == AInit /\ [][ANext]_avars
=============================================================================
