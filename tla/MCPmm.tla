-------------------------------- MODULE MCPmm --------------------------------
(***************************************************************************)
(* Memory maps for Pmm: the usual one (low memory, a hole, high memory up  *)
(* to a reserved region), one split by a hole, one whose last region ends  *)
(* with the address space, so that none of it is used, and one that leaves *)
(* the least room above its memory.                                         *)
(***************************************************************************)
EXTENDS Pmm

R(base, length, free) == [base |-> base, length |-> length, free |-> free]

MCMaps == { <<R(0, 2, TRUE), R(3, 1, FALSE), R(4, 7, TRUE), R(11, 2, FALSE)>>,
            <<R(3, 3, TRUE), R(7, 4, TRUE)>>,
            <<R(0, 2, TRUE), R(2, 9, FALSE), R(14, 2, TRUE)>>,
            <<R(0, 2, TRUE), R(10, 4, TRUE)>> }
=============================================================================
