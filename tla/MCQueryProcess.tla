-------------------------- MODULE MCQueryProcess --------------------------
(* QueryProcess with the bounds of its configurations. *)
EXTENDS QueryProcess
===========================================================================
