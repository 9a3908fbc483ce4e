---------------------------- MODULE MCForkServer ----------------------------
(* ForkServer for TLC. Its runs check liveness, so no symmetry is declared. *)
EXTENDS ForkServer
=============================================================================
