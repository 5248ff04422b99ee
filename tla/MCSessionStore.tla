--------------------------- MODULE MCSessionStore ---------------------------
(***************************************************************************)
(* Instances of SessionStore for TLC.                                      *)
(***************************************************************************)
EXTENDS SessionStore, TLC

CONSTANTS i1, i2, c1, c2, c3, alice, bob, m1, m2, m3

Ids2 == {i1, i2}
Cookies3 == {c1, c2, c3}
Names2 == {alice, bob}
Objects3 == {m1, m2, m3}
Symmetric ==
  Permutations(Id) \cup Permutations(Cookie) \cup Permutations(Name) \cup Permutations(Object)
=============================================================================
