---------------------------- MODULE MCMetaSearch ----------------------------
(***************************************************************************)
(* Instances of MetaSearch for TLC.                                        *)
(***************************************************************************)
EXTENDS MetaSearch

CONSTANTS e1, e2, e3, u1, u2

Engines3 == {e1, e2, e3}
Urls2 == {u1, u2}
=============================================================================
