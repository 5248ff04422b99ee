------------------------------ MODULE RowMerge ------------------------------
(***************************************************************************)
(* How rowContainer::addRankedResults puts the rows of one engine into the *)
(* results of the search (tdcommon/rowContainer.cpp, row.cpp, row.h).      *)
(*                                                                         *)
(* A row is reduced to what the merge looks at: the value of its           *)
(* comparable field (the url in the engine files), its rank, the engine    *)
(* its fields come from and the engines that are said to have found it.    *)
(* row::operator== compares the comparable fields: two rows are equal when *)
(* they have the same url.  The rows of an engine whose file marks other   *)
(* fields (exalead, lookforbook, packetnews) are outside this module.      *)
(***************************************************************************)
EXTENDS Integers, Sequences, Functions

\* Lists of at most n urls of U, all different: what one engine may find.
RowLists(U, n) == {us \in UNION {[1 .. k -> U] : k \in 0 .. n} : IsInjective(us)}

\* generateRow and the push_back of doParse: the row of rank i of an engine
\* that found the urls us, in this order.  Ranks start at 0.
FoundRow(e, us, i) == [url |-> us[i], num |-> i - 1, from |-> e, engines |-> {e}]

\* row::operator==
SameRow(r1, r2) == r1.url = r2.url

\* Mutant: the rank is compared the wrong way round.
RankedWorse(orig, input) == orig.num < input.num

\* if (orig->getNum() > input->getNum())
RankedBetter(orig, input) == orig.num > input.num

\* Mutant: the engines that had found the row are forgotten.
ReplaceRow(orig, input) == input

\* *orig = *input; orig->addEngine(engs), where engs are the engines of orig.
TakeOver(orig, input) == [input EXCEPT !.engines = orig.engines \cup input.engines]

\* What becomes of a row when an equal one comes in: it gives way to a better
\* one, or is credited to one more engine.
Improved(orig, input) ==
  IF RankedBetter(orig, input)
  THEN TakeOver(orig, input)
  ELSE [orig EXCEPT !.engines = @ \cup input.engines]

\* The rows that find() would stop at.
Positions(results, input) == {i \in DOMAIN results : SameRow(results[i], input)}

\* find() stops at the first of them.
First(results, input) ==
  CHOOSE i \in Positions(results, input) :
    \A j \in Positions(results, input) : i <= j

\* One turn of the loop of addRankedResults.
AddRow(results, input) ==
  IF Positions(results, input) = {}
  THEN Append(results, input)
  ELSE [results EXCEPT ![First(results, input)] = Improved(@, input)]

InOrder(results) ==
  \A i, j \in DOMAIN results : i < j => results[i].num <= results[j].num

\* What sortResults(ROW_NUMBER) may leave: std::sort is not stable, so any
\* arrangement of the rows in which the ranks do not decrease.
Sorted(results) ==
  {s \in {[i \in DOMAIN results |-> results[p[i]]] :
            p \in Bijection(DOMAIN results, DOMAIN results)} : InOrder(s)}
=============================================================================
