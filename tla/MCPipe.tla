------------------------------- MODULE MCPipe -------------------------------
(* Pipe for model checking; the constants are given by the configurations. *)
EXTENDS Pipe

\* The threads are interchangeable.
Symmetry == Permutations(Threads)
=============================================================================
