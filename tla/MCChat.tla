------------------------------- MODULE MCChat -------------------------------
(* The instance of Chat for TLC. *)
EXTENDS Chat
=============================================================================
