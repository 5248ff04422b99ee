---------------------------- MODULE MCPageParser ----------------------------
(***************************************************************************)
(* An instance of PageParser for TLC.                                      *)
(***************************************************************************)
EXTENDS PageParser

CONSTANTS a1, a2, a3, u1, u2, u3

Addresses3 == {a1, a2, a3}
Urls3 == {u1, u2, u3}
=============================================================================
