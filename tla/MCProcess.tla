----------------------------- MODULE MCProcess -----------------------------
(* Instances of Process for model checking. *)
EXTENDS Process
=============================================================================
