------------------------------- MODULE MCAreas -------------------------------
(* Areas with values for TLC. *)
EXTENDS Areas, TLC

CONSTANTS p1, p2

Two       == {p1, p2}
Symmetric == Permutations(Pid)

\* Two segments that lie page to page
Image == << [start |-> 4, end |-> 6, flags |-> {"WRITE"}],
            [start |-> 6, end |-> 8, flags |-> {"WRITE"}] >>

\* One segment, which ends in the middle of a page
HalfPage == << [start |-> 6, end |-> 7, flags |-> {"WRITE"}] >>

==============================================================================
