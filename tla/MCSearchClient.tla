--------------------------- MODULE MCSearchClient ---------------------------
(***************************************************************************)
(* An instance of SearchClient for TLC.                                    *)
(***************************************************************************)
EXTENDS SearchClient, TLC

CONSTANTS s1, s2, e1, e2, e3

Searches2 == {s1, s2}
ThreeAndOne == (s1 :> {e1, e2, e3}) @@ (s2 :> {e1})
=============================================================================
