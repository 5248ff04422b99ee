--------------------------- MODULE MCEngineEditor ---------------------------
(***************************************************************************)
(* An instance of EngineEditor for TLC.                                    *)
(***************************************************************************)
EXTENDS EngineEditor

AnEngine(select, categ, name, version) ==
  [select |-> select, categ |-> categ, name |-> name, version |-> version]

\* Two engines of the configuration, in two categories, and what the site of the
\* updates has of one of them.
A == AnEngine(TRUE, 1, 1, 2)
B == AnEngine(TRUE, 2, 2, 1)
OldA == AnEngine(FALSE, 2, 1, 1)

SomeLists == {<<>>, <<OldA, A>>, <<B, A, OldA, OldA>>}

\* Once two editors were asked for at once, or rows moved under the one asked for, the
\* properties say nothing: such a behaviour is not followed any further.
NotHurried == ~hurried
=============================================================================
