---------------------------- MODULE EngineProofs ----------------------------
(***************************************************************************)
(* Proofs about the engines in the web client: of EngineTree, that the     *)
(* boxes agree with what the user chose, for any categories and engines;   *)
(* of EngineEditor, that edits land, are saved, and that there is one row  *)
(* for an engine, for any lists, names and bounds.                         *)
(***************************************************************************)
EXTENDS EngineTree, EngineEditor, FiniteSetTheorems, SequenceTheorems,
        WellFoundedInduction, TLAPS

-----------------------------------------------------------------------------
(* The tree. *)

\* A node without a box has never been checked.
BoxInv == \A e \in Engines : box[e] => childrenRendered[Parent[e]]

\* Only a category that has engines is opened.
OpenedInv == \A c \in Categories : childrenRendered[c] => Children(c) # {}

\* What the boxes of category c and of its engines have to do with the choices.
Agrees(c) ==
    /\ \A e \in Children(c) : box[e] \/ box[c] => e \in wanted
    /\ animating[c] # "expand" =>
           \A e \in Children(c) : e \in wanted => box[e] \/ box[c] \/ e \in lost
    /\ childrenRendered[c] /\ animating[c] # "expand" =>
           (box[c] <=> \A e \in Children(c) : box[e])

IInv == /\ TypeOK
        /\ BoxInv
        /\ OpenedInv
        /\ \A c \in Categories \ inverted : Agrees(c)

\* A category is not an engine; it always has its box, an engine when rendered.
LEMMA Boxes ==
    /\ \A c \in Categories : c \in Nodes /\ c \notin Engines /\ HasBox(c)
    /\ \A e \in Engines : /\ e \in Nodes /\ e \notin Categories
                          /\ Parent[e] \in Categories
                          /\ HasBox(e) <=> childrenRendered[Parent[e]]
BY NodesAssumption DEF Nodes, HasBox

\* The children of a category are the engines whose parent it is.
LEMMA ChildrenAre ==
    ASSUME NEW c
    PROVE  /\ Children(c) \subseteq Engines
           /\ \A e \in Engines : e \in Children(c) <=> Parent[e] = c
BY DEF Children

\* With the invariant, isChecked() is the box itself.
LEMMA CheckedIsBox ==
    ASSUME TypeOK, BoxInv
    PROVE  /\ \A n \in Nodes : box[n] \in BOOLEAN
           /\ \A n \in Nodes : IsChecked(n) <=> box[n]
<1>1. \A n \in Nodes : n \in Categories \/ n \in Engines
  BY DEF Nodes
<1>2. \A n \in Nodes : box[n] \in BOOLEAN
  BY DEF TypeOK
<1>3. QED
  BY <1>1, <1>2, Boxes DEF BoxInv, IsChecked

\* What toggleCheck does to each box.
LEMMA ToggleCheckBoxes ==
    ASSUME TypeOK, NEW ns, NEW v \in BOOLEAN
    PROVE  /\ toggleCheck(ns, v) \in [Nodes -> BOOLEAN]
           /\ \A n \in Nodes : toggleCheck(ns, v)[n]
                                 = IF n \in ns /\ HasBox(n) THEN v ELSE box[n]
<1>1. \A n \in Nodes : box[n] \in BOOLEAN
  BY DEF TypeOK
<1>2. QED
  BY <1>1 DEF toggleCheck

LEMMA InitIInv == Init => IInv
BY NodesAssumption DEF Init, IInv, TypeOK, BoxInv, OpenedInv, Agrees, Nodes, Children

---------------------------------------------------------------------------
(* One lemma per action.  A step disturbs one category at most: the others *)
(* agree as before.                                                        *)

LEMMA CheckCategoryIInv ==
    ASSUME IInv, NEW c \in Categories, CheckCategory(c)
    PROVE  IInv'
<1>0. TypeOK /\ BoxInv /\ box[c] \in BOOLEAN
  BY Boxes, CheckedIsBox DEF IInv
<1>1. /\ box' \in [Nodes -> BOOLEAN]
      /\ \A n \in Nodes : box'[n] = IF n \in {c} \cup Children(c) /\ HasBox(n)
                                    THEN ~box[c] ELSE box[n]
  BY <1>0, ToggleCheckBoxes DEF CheckCategory
<1>2. TypeOK'
  BY <1>0, <1>1, ChildrenAre DEF TypeOK, CheckCategory, Choose
<1>3. BoxInv'
  BY <1>0, <1>1, Boxes, ChildrenAre DEF BoxInv, CheckCategory
<1>4. ASSUME NEW d \in Categories \ inverted', d # c
      PROVE  Agrees(d)'
  BY <1>0, <1>1, <1>4, Boxes, ChildrenAre DEF IInv, Agrees, CheckCategory, Choose, Children
<1>5. /\ box'[c] = ~box[c]
      /\ \A e \in Children(c) : childrenRendered[c] => box'[e] = ~box[c]
      /\ \A e \in Children(c) : ~childrenRendered[c] => ~box'[e]
  BY <1>0, <1>1, Boxes, ChildrenAre DEF BoxInv
<1>6. \A e \in Children(c) : (e \in wanted' <=> ~box[c]) /\ e \notin lost'
  BY <1>0 DEF CheckCategory, Choose
<1>7. OpenedInv' /\ (childrenRendered'[c] => Children(c) # {})
  BY DEF IInv, OpenedInv, CheckCategory, Children
<1>8. Agrees(c)'
  BY <1>0, <1>5, <1>6, <1>7 DEF Agrees, CheckCategory, Children
<1>9. QED
  BY <1>2, <1>3, <1>4, <1>7, <1>8 DEF IInv

LEMMA CheckEngineIInv ==
    ASSUME IInv, NEW e \in Engines, CheckEngine(e)
    PROVE  IInv'
<1> DEFINE c == Parent[e]
           all == \A f \in Children(c) \ {e} : box[f]
<1>0. TypeOK /\ BoxInv /\ c \in Categories /\ e \in Children(c)
  BY Boxes, ChildrenAre DEF IInv
<1>1. box' = [box EXCEPT ![e] = ~@, ![c] = ~box[e] /\ (@ \/ all)]
  <2>1. \A f \in Children(c) \ {e} : IsChecked(f) <=> box[f]
    BY <1>0, CheckedIsBox, ChildrenAre, Boxes
  <2>2. QED
    BY <2>1 DEF CheckEngine
<1>2. /\ box' \in [Nodes -> BOOLEAN]
      /\ box'[e] = ~box[e]
      /\ box'[c] = (~box[e] /\ (box[c] \/ all))
      /\ \A n \in Nodes \ {c, e} : box'[n] = box[n]
  <2>1. e # c /\ e \in Nodes /\ c \in Nodes /\ box \in [Nodes -> BOOLEAN]
    BY <1>0, Boxes DEF TypeOK
  <2>2. QED
    BY <1>1, <2>1
<1>3. TypeOK'
  BY <1>0, <1>2 DEF TypeOK, CheckEngine, Choose
<1>4. BoxInv'
  BY <1>0, <1>2, Boxes DEF BoxInv, CheckEngine, Shown
<1>5. ASSUME NEW d \in Categories \ inverted', d # c
      PROVE  Agrees(d)'
  BY <1>0, <1>2, <1>5, Boxes, ChildrenAre DEF IInv, Agrees, CheckEngine, Choose, Children
<1>6. ASSUME c \notin inverted'
      PROVE  Agrees(c)'
  <2>1. Agrees(c)
    BY <1>0, <1>6 DEF IInv, CheckEngine
  <2>2. /\ wanted' = IF ~box[e] THEN wanted \cup {e} ELSE wanted \ {e}
        /\ lost' = lost \ {e}
        /\ UNCHANGED <<childrenRendered, animating>> /\ childrenRendered[c]
    BY DEF CheckEngine, Choose, Shown
  <2>3. \A f \in Children(c) : f \in Nodes /\ f # c /\ (f # e => box'[f] = box[f])
    BY <1>0, <1>2, Boxes, ChildrenAre
  <2>4. CASE box[e]
    BY <1>0, <1>2, <2>1, <2>2, <2>3, <2>4 DEF Agrees, Children
  <2>5. CASE ~box[e]
    BY <1>0, <1>2, <2>1, <2>2, <2>3, <2>5 DEF Agrees, Children
  <2>6. QED
    BY <2>4, <2>5
<1>7. OpenedInv'
  BY DEF IInv, OpenedInv, CheckEngine, Children
<1>8. QED
  BY <1>3, <1>4, <1>5, <1>6, <1>7 DEF IInv

\* Opening or closing c leaves the other categories as they are.
LEMMA Toggles ==
    ASSUME TypeOK, NEW c \in Categories, Toggle(c)
    PROVE  /\ childrenRendered' \in [Categories -> BOOLEAN]
           /\ expanded' \in [Categories -> BOOLEAN]
           /\ animating' \in [Categories -> {"none", "expand", "collapse"}]
           /\ childrenRendered'[c]
           /\ animating'[c] = IF expanded'[c] THEN "expand" ELSE "collapse"
           /\ animating'[c] = "expand" \/ childrenRendered[c]
           /\ \A d \in Categories \ {c} : /\ childrenRendered'[d] = childrenRendered[d]
                                          /\ expanded'[d] = expanded[d]
                                          /\ animating'[d] = animating[d]
<1>1. CASE expanded[c]
  BY <1>1 DEF TypeOK, Toggle, Collapse
<1>2. CASE ~expanded[c]
  BY <1>2 DEF TypeOK, Toggle, Expand
<1>3. QED
  BY <1>1, <1>2

\* The boxes of c are at rest: the engines checked, by their box or their category's,
\* are those wanted and not lost.
AtRest(c) ==
    /\ \A e \in Children(c) : /\ box'[e] \/ box'[c] => e \in wanted
                              /\ e \in wanted => box'[e] \/ box'[c] \/ e \in lost'
    /\ childrenRendered[c] => (box'[c] <=> \A e \in Children(c) : box'[e])

\* They are when the callback of an animation has run, and nothing else has changed.
LEMMA Callback ==
    ASSUME IInv, NEW c \in Categories, AnimationCallback(c)
    PROVE  /\ box' \in [Nodes -> BOOLEAN]
           /\ wanted' = wanted /\ lost' \subseteq wanted
           /\ inverted' \subseteq Categories
           /\ \A e \in Engines : box'[e] => childrenRendered[Parent[e]]
           /\ \A d \in Categories \ {c} : /\ d \notin inverted' => d \notin inverted
                                          /\ box'[d] = box[d]
           /\ \A e \in Engines \ Children(c) : /\ box'[e] = box[e]
                                               /\ e \in lost' <=> e \in lost
           /\ c \notin inverted' => AtRest(c)
<1>0. TypeOK /\ BoxInv /\ box[c] \in BOOLEAN
  BY Boxes, CheckedIsBox DEF IInv
<1>1. CASE animating[c] = "expand"
  <2>1. childrenRendered[c] /\ OnExpand(c)
    BY <1>0, <1>1 DEF TypeOK, AnimationCallback
  <2>2. /\ box' \in [Nodes -> BOOLEAN]
        /\ \A n \in Nodes : box'[n] = IF n \in Children(c) /\ HasBox(n)
                                      THEN box[c] ELSE box[n]
    BY <1>0, <2>1, ToggleCheckBoxes DEF OnExpand
  <2>3. /\ \A d \in Categories : box'[d] = box[d]
        /\ \A e \in Children(c) : box'[e] = box[c]
        /\ \A e \in Engines \ Children(c) : box'[e] = box[e]
    BY <2>1, <2>2, Boxes, ChildrenAre
  <2>4. /\ wanted' = wanted /\ lost' \subseteq wanted
        /\ inverted' \subseteq inverted /\ inverted \ {c} \subseteq inverted'
        /\ \A e \in Engines \ Children(c) : e \in lost' <=> e \in lost
    BY <1>0, <2>1, ChildrenAre DEF TypeOK, OnExpand, AnimationCallback
  <2>5. \A e \in Engines : box'[e] => childrenRendered[Parent[e]]
    BY <1>0, <2>1, <2>3, ChildrenAre DEF BoxInv
  <2>6. ASSUME c \notin inverted'
        PROVE  \A e \in Children(c) : /\ box[c] => e \in wanted
                                      /\ e \in wanted => box[c] \/ e \in lost'
    <3>1. CASE box[c] /\ c \notin inverted
      BY <3>1 DEF IInv, Agrees
    <3>2. CASE box[c] /\ c \in inverted
      BY <2>1, <2>6, <3>2 DEF OnExpand
    <3>3. CASE ~box[c]
      BY <2>1, <3>3 DEF OnExpand
    <3>4. QED
      BY <3>1, <3>2, <3>3
  <2>7. c \notin inverted' => AtRest(c)
    <3>1. Children(c) # {}
      BY <2>1 DEF IInv, OpenedInv
    <3>2. QED
      BY <2>1, <2>3, <2>6, <3>1 DEF AtRest
  <2>8. QED
    BY <1>0, <2>2, <2>3, <2>4, <2>5, <2>7 DEF TypeOK
<1>2. CASE animating[c] # "expand"
  <2>1. UNCHANGED <<box, wanted, lost, inverted>>
    BY <1>2 DEF AnimationCallback
  <2>2. c \notin inverted' => AtRest(c)
    BY <1>0, <1>2, <2>1 DEF IInv, Agrees, AtRest
  <2>3. QED
    BY <1>0, <2>1, <2>2 DEF TypeOK, BoxInv
<1>3. QED
  BY <1>1, <1>2

LEMMA AnimationEndsIInv ==
    ASSUME IInv, NEW c \in Categories, AnimationEnds(c)
    PROVE  IInv'
<1>0. TypeOK /\ AnimationCallback(c)
  BY DEF IInv, AnimationEnds
<1>1. /\ animating' \in [Categories -> {"none", "expand", "collapse"}]
      /\ animating'[c] = "none"
      /\ \A d \in Categories \ {c} : animating'[d] = animating[d]
  BY <1>0 DEF TypeOK, AnimationEnds
<1>2. TypeOK' /\ BoxInv' /\ OpenedInv'
  BY <1>0, <1>1, Callback DEF IInv, TypeOK, BoxInv, OpenedInv, AnimationEnds, Children
<1>3. ASSUME NEW d \in Categories \ inverted', d # c
      PROVE  Agrees(d)'
  BY <1>0, <1>1, <1>3, Callback, ChildrenAre DEF IInv, Agrees, AnimationEnds, Children
<1>4. ASSUME c \notin inverted'
      PROVE  Agrees(c)'
  <2>1. AtRest(c) /\ wanted' = wanted
    BY <1>0, <1>4, Callback
  <2>2. childrenRendered' = childrenRendered /\ Children(c)' = Children(c)
    BY DEF AnimationEnds, Children
  <2>3. QED
    BY <2>1, <2>2 DEF AtRest, Agrees
<1>5. QED
  BY <1>2, <1>3, <1>4 DEF IInv

\* Opening or closing a category whose boxes are at rest, with no animation left.
LEMMA ToggleIInv ==
    ASSUME IInv, NEW c \in Categories, Children(c) # {},
           AnimationCallback(c), Toggle(c), UNCHANGED loaded
    PROVE  IInv'
<1>0. TypeOK
  BY DEF IInv
<1>1. TypeOK'
  BY <1>0, Callback, Toggles DEF TypeOK
<1>2. BoxInv'
  BY <1>0, Callback, Toggles, Boxes DEF BoxInv, TypeOK
<1>3. OpenedInv'
  BY <1>0, Toggles DEF IInv, OpenedInv, Children
<1>4. ASSUME NEW d \in Categories \ inverted', d # c
      PROVE  Agrees(d)'
  BY <1>0, <1>4, Callback, Toggles, ChildrenAre DEF IInv, Agrees, Children
<1>5. ASSUME c \notin inverted'
      PROVE  Agrees(c)'
  <2>1. AtRest(c) /\ wanted' = wanted
    BY <1>5, Callback
  <2>2. animating'[c] = "expand" \/ childrenRendered[c]
    BY <1>0, Toggles
  <2>3. Children(c)' = Children(c)
    BY DEF Children
  <2>4. QED
    BY <2>1, <2>2, <2>3 DEF AtRest, Agrees
<1>6. QED
  BY <1>1, <1>2, <1>3, <1>4, <1>5 DEF IInv

LEMMA IconClickIInv ==
    ASSUME IInv, NEW c \in Categories, IconClick(c)
    PROVE  IInv'
<1>1. AnimationCallback(c) /\ UNCHANGED loaded
  BY DEF IconClick, AnimationCallback
<1>2. QED
  BY <1>1, ToggleIInv DEF IconClick

LEMMA DoubleClickCategoryIInv ==
    ASSUME IInv, NEW c \in Categories, DoubleClickCategory(c)
    PROVE  IInv'
<1>0. TypeOK /\ BoxInv /\ box[c] \in BOOLEAN
  BY Boxes, CheckedIsBox DEF IInv
<1>1. /\ box' \in [Nodes -> BOOLEAN]
      /\ \A n \in Nodes : n # c => box'[n] = box[n]
  BY <1>0, ToggleCheckBoxes DEF DoubleClickCategory
<1>2. /\ wanted' \subseteq Engines /\ lost' \subseteq wanted'
      /\ inverted' = inverted \cup {c} /\ loaded' = loaded
      /\ \A e \in Engines \ Children(c) : /\ e \in wanted' <=> e \in wanted
                                          /\ e \in lost' <=> e \in lost
  BY <1>0, ChildrenAre DEF TypeOK, DoubleClickCategory, Choose
<1>3. \/ Toggle(c) /\ Children(c) # {}
      \/ UNCHANGED <<childrenRendered, expanded, animating>>
  BY DEF DoubleClickCategory
<1>4. TypeOK'
  BY <1>0, <1>1, <1>2, <1>3, Toggles DEF TypeOK
<1>5. BoxInv' /\ OpenedInv'
  BY <1>0, <1>1, <1>3, Toggles, Boxes DEF IInv, BoxInv, OpenedInv, TypeOK, Children
<1>6. ASSUME NEW d \in Categories \ inverted'
      PROVE  Agrees(d)'
  <2>1. d # c /\ d \notin inverted /\ Agrees(d)
    BY <1>2, <1>6 DEF IInv
  <2>2. UNCHANGED <<childrenRendered[d], animating[d], box[d]>>
    BY <1>0, <1>1, <1>3, <2>1, Toggles, Boxes
  <2>3. \A e \in Children(d) : /\ box'[e] = box[e]
                               /\ e \in wanted' <=> e \in wanted
                               /\ e \in lost' <=> e \in lost
    BY <1>1, <1>2, <2>1, Boxes, ChildrenAre
  <2>4. QED
    BY <2>1, <2>2, <2>3 DEF Agrees, Children
<1>7. QED
  BY <1>4, <1>5, <1>6 DEF IInv

LEMMA DoubleClickEngineIInv ==
    ASSUME IInv, NEW e \in Engines, DoubleClickEngine(e)
    PROVE  IInv'
<1>0. TypeOK /\ BoxInv /\ box[e] \in BOOLEAN
  BY Boxes, CheckedIsBox DEF IInv
<1>1. /\ box' \in [Nodes -> BOOLEAN]
      /\ \A n \in Nodes : n # e => box'[n] = box[n]
  BY <1>0, ToggleCheckBoxes DEF DoubleClickEngine
<1>2. /\ wanted' \subseteq Engines /\ lost' \subseteq wanted'
      /\ inverted' = inverted \cup {Parent[e]}
      /\ \A f \in Engines \ {e} : /\ f \in wanted' <=> f \in wanted
                                  /\ f \in lost' <=> f \in lost
      /\ UNCHANGED <<childrenRendered, expanded, animating, loaded>>
  BY <1>0 DEF TypeOK, DoubleClickEngine, Choose
<1>3. TypeOK'
  BY <1>0, <1>1, <1>2, Boxes DEF TypeOK
<1>4. BoxInv' /\ OpenedInv'
  <2>1. childrenRendered[Parent[e]]
    BY DEF DoubleClickEngine, Shown
  <2>2. BoxInv'
    <3> SUFFICES ASSUME NEW f \in Engines, box'[f] PROVE childrenRendered[Parent[f]]
      BY <1>2 DEF BoxInv
    <3>1. CASE f = e
      BY <2>1, <3>1
    <3>2. CASE f # e
      BY <1>0, <1>1, <3>2, Boxes DEF BoxInv
    <3>3. QED
      BY <3>1, <3>2
  <2>3. OpenedInv'
    BY <1>2 DEF IInv, OpenedInv, Children
  <2>4. QED
    BY <2>2, <2>3
<1>5. ASSUME NEW d \in Categories \ inverted'
      PROVE  Agrees(d)'
  <2>1. d # Parent[e] /\ d # e /\ d \notin inverted /\ Agrees(d)
    BY <1>2, <1>5, Boxes DEF IInv
  <2>2. /\ box'[d] = box[d]
        /\ \A f \in Children(d) : /\ box'[f] = box[f]
                                  /\ f \in wanted' <=> f \in wanted
                                  /\ f \in lost' <=> f \in lost
    <3>1. d \in Nodes /\ \A f \in Children(d) : f \in Engines \ {e} /\ f \in Nodes
      BY <2>1, Boxes, ChildrenAre
    <3>2. QED
      BY <1>1, <1>2, <2>1, <3>1
  <2>3. QED
    BY <1>2, <2>1, <2>2 DEF Agrees, Children
<1>6. QED
  BY <1>3, <1>4, <1>5 DEF IInv

---------------------------------------------------------------------------
(* The theorems. *)

THEOREM Invariance == Spec => []IInv
<1>1. Init => IInv
  BY InitIInv
<1>2. IInv /\ [Next]_vars => IInv'
  <2> SUFFICES ASSUME IInv, [Next]_vars PROVE IInv'
    OBVIOUS
  <2>1. ASSUME NEW c \in Categories, CheckCategory(c) PROVE IInv'
    BY <2>1, CheckCategoryIInv
  <2>2. ASSUME NEW c \in Categories, AnimationEnds(c) PROVE IInv'
    BY <2>2, AnimationEndsIInv
  <2>3. ASSUME NEW c \in Categories, IconClick(c) PROVE IInv'
    BY <2>3, IconClickIInv
  <2>4. ASSUME NEW c \in Categories, ArrowKey(c) PROVE IInv'
    BY <2>4, ToggleIInv DEF ArrowKey
  <2>5. ASSUME NEW c \in Categories, DoubleClickCategory(c) PROVE IInv'
    BY <2>5, DoubleClickCategoryIInv
  <2>6. ASSUME NEW e \in Engines, CheckEngine(e) PROVE IInv'
    BY <2>6, CheckEngineIInv
  <2>7. ASSUME NEW e \in Engines, DoubleClickEngine(e) PROVE IInv'
    BY <2>7, DoubleClickEngineIInv
  <2>8. CASE generateEngineTree
    BY <2>8, Boxes DEF IInv, TypeOK, BoxInv, OpenedInv, Agrees, Children, generateEngineTree
  <2>9. CASE displayError
    BY <2>9 DEF IInv, TypeOK, BoxInv, OpenedInv, Agrees, Children, displayError
  <2>10. CASE UNCHANGED vars
    BY <2>10 DEF IInv, TypeOK, BoxInv, OpenedInv, Agrees, Children, vars
  <2>11. QED
    BY <2>1, <2>2, <2>3, <2>4, <2>5, <2>6, <2>7, <2>8, <2>9, <2>10 DEF Next
<1>3. QED
  BY <1>1, <1>2, PTL DEF Spec

\* The tree is type correct: open categories have boxes, and an animation goes
\* the way its category was told to.
THEOREM TreeTypeCorrect == Spec => []TypeOK
<1>1. IInv => TypeOK
  BY DEF IInv
<1>2. QED
  BY <1>1, Invariance, PTL

\* A search goes to no engine the user has not chosen, double clicks excepted.
THEOREM TreeNothingUnwanted == Spec => []NothingUnwanted
<1>1. IInv => NothingUnwanted
  BY CheckedIsBox, Boxes, ChildrenAre
     DEF IInv, Agrees, NothingUnwanted, getChecked
<1>2. QED
  BY <1>1, Invariance, PTL

\* A search goes to every engine chosen, in a tree at rest, except those that the
\* expansion of an unchecked category has unchecked.
THEOREM TreeChosenIsAsked == Spec => []ChosenIsAsked
<1>1. IInv => ChosenIsAsked
  <2>1. IInv => wanted \subseteq Engines
    BY DEF IInv, TypeOK
  <2>2. QED
    BY <2>1, CheckedIsBox, Boxes, ChildrenAre
       DEF IInv, Agrees, ChosenIsAsked, getChecked
<1>2. QED
  BY <1>1, Invariance, PTL

\* The box of a category tells whether all its engines are checked.
THEOREM TreeCategoryMeansAll == Spec => []CategoryMeansAll
<1>1. IInv => CategoryMeansAll
  BY CheckedIsBox, Boxes, ChildrenAre
     DEF IInv, Agrees, CategoryMeansAll
<1>2. QED
  BY <1>1, Invariance, PTL

-----------------------------------------------------------------------------
(* The editor. *)

\* A set of numbers that is not empty has a least one.
LEMMA Least ==
  ASSUME NEW T \in SUBSET Nat, T # {}
  PROVE  \E k \in T : \A l \in T : k <= l
<1>1. PICK k \in T : \A l \in T : <<l, k>> \notin OpToRel(<, Nat)
  BY NatLessThanWellFounded, WFMin, Zenon
<1>2. \A l \in T : ~(l < k)
  BY <1>1 DEF OpToRel
<1>. QED
  BY <1>2

-----------------------------------------------------------------------------
(* The order of the rows. *)

\* The rows of seq that applySort puts at the place of row i or before it.
UpTo(info, recs, seq, i) ==
  {j \in DOMAIN seq : \/ Before(info, recs, seq[j], seq[i])
                      \/ ~Before(info, recs, seq[i], seq[j]) /\ j <= i}

\* What the rows are sorted by.
LEMMA KeyIsInt ==
  ASSUME NEW info, info.field \in Cols, NEW recs \in Seq(Engine),
         NEW seq \in Seq(1 .. Len(recs)), NEW k \in 1 .. Len(seq)
  PROVE  recs[seq[k]][info.field] \in Int
<1>1. seq[k] \in 1 .. Len(recs)
  BY ElementOfSeq
<1>2. recs[seq[k]] \in Engine
  BY <1>1, ElementOfSeq
<1>3. \A e \in Engine : e["name"] \in Nat /\ e["categ"] \in Nat
  BY DEF Engine
<1>4. \A n \in Nat : n \in Int
  OBVIOUS
<1>. QED
  BY <1>2, <1>3, <1>4 DEF Cols

\* Of any two rows, one has all of the other's rows in front of it, and more.
LEMMA UpToIsALine ==
  ASSUME NEW info, info.field \in Cols, NEW recs \in Seq(Engine),
         NEW seq \in Seq(1 .. Len(recs)),
         NEW i \in 1 .. Len(seq), NEW j \in 1 .. Len(seq), i # j
  PROVE  UpTo(info, recs, seq, i) # UpTo(info, recs, seq, j)
         /\ \/ UpTo(info, recs, seq, i) \subseteq UpTo(info, recs, seq, j)
            \/ UpTo(info, recs, seq, j) \subseteq UpTo(info, recs, seq, i)
<1> DEFINE key(k) == recs[seq[k]][info.field]
           ahead(k, l) == \/ Before(info, recs, seq[k], seq[l])
                          \/ ~Before(info, recs, seq[l], seq[k]) /\ k <= l
<1>1. \A k \in 1 .. Len(seq) : key(k) \in Int
  BY KeyIsInt
<1>2. \A k, l \in 1 .. Len(seq) :
        ahead(k, l) <=> IF info.direction = "ASC"
                        THEN key(k) < key(l) \/ (key(k) = key(l) /\ k <= l)
                        ELSE key(k) > key(l) \/ (key(k) = key(l) /\ k <= l)
  <2> SUFFICES ASSUME NEW k \in 1 .. Len(seq), NEW l \in 1 .. Len(seq)
               PROVE  ahead(k, l) <=> IF info.direction = "ASC"
                        THEN key(k) < key(l) \/ (key(k) = key(l) /\ k <= l)
                        ELSE key(k) > key(l) \/ (key(k) = key(l) /\ k <= l)
    OBVIOUS
  <2>1. key(k) \in Int /\ key(l) \in Int
    BY <1>1
  <2>2. Before(info, recs, seq[k], seq[l])
          <=> IF info.direction = "ASC" THEN key(k) < key(l) ELSE key(k) > key(l)
    BY DEF Before
  <2>3. Before(info, recs, seq[l], seq[k])
          <=> IF info.direction = "ASC" THEN key(l) < key(k) ELSE key(l) > key(k)
    BY DEF Before
  <2> HIDE DEF key
  <2>. QED
    BY <2>1, <2>2, <2>3
<1> HIDE DEF key
<1> HIDE DEF ahead
<1>3. \A k, l \in 1 .. Len(seq) : ahead(k, l) /\ ahead(l, k) => k = l
  BY <1>1, <1>2
<1>4. \A k, l, m \in 1 .. Len(seq) : ahead(k, l) /\ ahead(l, m) => ahead(k, m)
  <2> SUFFICES ASSUME NEW k \in 1 .. Len(seq), NEW l \in 1 .. Len(seq),
                      NEW m \in 1 .. Len(seq), ahead(k, l), ahead(l, m)
               PROVE  ahead(k, m)
    OBVIOUS
  <2>1. key(k) \in Int /\ key(l) \in Int /\ key(m) \in Int
    BY <1>1
  <2>2. k \in Int /\ l \in Int /\ m \in Int
    OBVIOUS
  <2>3. CASE info.direction = "ASC"
    <3>1. /\ key(k) < key(l) \/ (key(k) = key(l) /\ k <= l)
          /\ key(l) < key(m) \/ (key(l) = key(m) /\ l <= m)
      BY <1>2, <2>3
    <3>2. key(k) < key(m) \/ (key(k) = key(m) /\ k <= m)
      BY <2>1, <2>2, <3>1
    <3>. QED
      BY <1>2, <2>3, <3>2
  <2>4. CASE info.direction # "ASC"
    <3>1. /\ key(k) > key(l) \/ (key(k) = key(l) /\ k <= l)
          /\ key(l) > key(m) \/ (key(l) = key(m) /\ l <= m)
      BY <1>2, <2>4
    <3>2. key(k) > key(m) \/ (key(k) = key(m) /\ k <= m)
      BY <2>1, <2>2, <3>1
    <3>. QED
      BY <1>2, <2>4, <3>2
  <2>. QED
    BY <2>3, <2>4
<1>5. /\ \A k, l \in 1 .. Len(seq) : ahead(k, l) \/ ahead(l, k)
      /\ \A k \in 1 .. Len(seq) : ahead(k, k)
  <2> SUFFICES ASSUME NEW k \in 1 .. Len(seq), NEW l \in 1 .. Len(seq)
               PROVE  (ahead(k, l) \/ ahead(l, k)) /\ ahead(k, k)
    OBVIOUS
  <2>1. key(k) \in Int /\ key(l) \in Int /\ k \in Int /\ l \in Int
    BY <1>1
  <2>. QED
    BY <1>2, <2>1
<1>6. \A k \in 1 .. Len(seq) : UpTo(info, recs, seq, k) = {l \in 1 .. Len(seq) : ahead(l, k)}
  BY DEF UpTo, ahead
<1>7. CASE ahead(i, j)
  <2>1. ~ahead(j, i)
    BY <1>3, <1>7
  <2>. QED
    BY <1>4, <1>5, <1>6, <1>7, <2>1
<1>8. CASE ahead(j, i)
  <2>1. ~ahead(i, j)
    BY <1>3, <1>8
  <2>. QED
    BY <1>4, <1>5, <1>6, <1>8, <2>1
<1>. QED
  BY <1>5, <1>7, <1>8

\* So that each row has a place of its own, and every place has a row: the sorted
\* rows are those there were.
LEMMA SortedPermutes ==
  ASSUME NEW info, info.field \in Cols, NEW recs \in Seq(Engine),
         NEW seq \in Seq(1 .. Len(recs))
  PROVE  \E b \in Bijection(1 .. Len(seq), 1 .. Len(seq)) :
           /\ Sorted(info, recs, seq) = [n \in 1 .. Len(seq) |-> seq[b[n]]]
           /\ \A m, n \in 1 .. Len(seq) : m < n => b[m] \in UpTo(info, recs, seq, b[n])
<1> DEFINE D == 1 .. Len(seq)
           place == [i \in D |-> Cardinality(UpTo(info, recs, seq, i))]
           b == [n \in D |-> CHOOSE i \in D : place[i] = n]
<1>1. IsFiniteSet(D) /\ Cardinality(D) = Len(seq) /\ DOMAIN seq = D
  <2>1. Len(seq) \in Nat /\ DOMAIN seq = D
    BY LenProperties
  <2>2. IsFiniteSet(D) /\ Cardinality(D) = IF 1 > Len(seq) THEN 0 ELSE Len(seq) - 1 + 1
    BY <2>1, FS_Interval, 1 \in Int, Len(seq) \in Int, Zenon
  <2>. QED
    BY <2>1, <2>2
<1>2. \A i \in D : /\ UpTo(info, recs, seq, i) \in SUBSET D
                   /\ i \in UpTo(info, recs, seq, i)
  BY <1>1 DEF UpTo, Before
<1>3. \A i \in D : /\ IsFiniteSet(UpTo(info, recs, seq, i))
                   /\ Cardinality(UpTo(info, recs, seq, i)) \in 1 .. Len(seq)
  <2> SUFFICES ASSUME NEW i \in D
               PROVE  /\ IsFiniteSet(UpTo(info, recs, seq, i))
                      /\ Cardinality(UpTo(info, recs, seq, i)) \in 1 .. Len(seq)
    OBVIOUS
  <2>1. /\ IsFiniteSet(UpTo(info, recs, seq, i))
        /\ Cardinality(UpTo(info, recs, seq, i)) <= Len(seq)
    BY <1>1, <1>2, FS_Subset
  <2>2. Cardinality(UpTo(info, recs, seq, i)) \in Nat
    BY <2>1, FS_CardinalityType
  <2>3. Cardinality(UpTo(info, recs, seq, i)) # 0
    BY <1>2, <2>1, FS_EmptySet
  <2>. QED
    BY <2>1, <2>2, <2>3
<1>4. \A i, j \in D : i # j => place[i] # place[j]
  <2> SUFFICES ASSUME NEW i \in D, NEW j \in D, i # j,
                      Cardinality(UpTo(info, recs, seq, i)) = Cardinality(UpTo(info, recs, seq, j))
               PROVE  FALSE
    OBVIOUS
  <2>1. UpTo(info, recs, seq, i) # UpTo(info, recs, seq, j)
        /\ \/ UpTo(info, recs, seq, i) \in SUBSET UpTo(info, recs, seq, j)
           \/ UpTo(info, recs, seq, j) \in SUBSET UpTo(info, recs, seq, i)
    BY UpToIsALine
  <2>2. IsFiniteSet(UpTo(info, recs, seq, i)) /\ IsFiniteSet(UpTo(info, recs, seq, j))
    BY <1>3
  <2>. QED
    BY <2>1, <2>2, FS_Subset
<1>5. place \in Injection(D, D)
  BY <1>3, <1>4 DEF Injection, IsInjective
<1>6. place \in Surjection(D, D)
  BY <1>1, <1>5, FS_Injection
<1>7. \A n \in D : b[n] \in D /\ place[b[n]] = n
  BY <1>6 DEF Surjection
<1>8. \A i \in D : b[place[i]] = i
  BY <1>4, <1>5, <1>7 DEF Injection
<1>9. b \in Bijection(D, D)
  <2>1. b \in [D -> D]
    BY <1>7
  <2>2. IsInjective(b)
    BY <1>7 DEF IsInjective
  <2>3. \A i \in D : place[i] \in D /\ b[place[i]] = i
    BY <1>5, <1>8 DEF Injection
  <2>. QED
    BY <2>1, <2>2, <2>3 DEF Bijection, Injection, Surjection
<1>10. Sorted(info, recs, seq) = [n \in D |-> seq[b[n]]]
  <2>1. Sorted(info, recs, seq)
          = [n \in D |-> seq[CHOOSE i \in D : Cardinality(UpTo(info, recs, seq, i)) = n]]
    BY <1>1 DEF Sorted, UpTo
  <2>2. \A n \in D : b[n] = CHOOSE i \in D : Cardinality(UpTo(info, recs, seq, i)) = n
    OBVIOUS
  <2>3. \A n \in D : seq[b[n]] = seq[CHOOSE i \in D : Cardinality(UpTo(info, recs, seq, i)) = n]
    BY <2>2
  <2> HIDE DEF b
  <2>. QED
    BY <2>1, <2>3, Zenon
<1>11. ASSUME NEW m \in D, NEW n \in D, m < n
       PROVE  b[m] \in UpTo(info, recs, seq, b[n])
  <2> DEFINE i == b[m]
             j == b[n]
  <2>1. /\ i \in D /\ j \in D
        /\ Cardinality(UpTo(info, recs, seq, i)) = m
        /\ Cardinality(UpTo(info, recs, seq, j)) = n
    BY <1>7
  <2> HIDE DEF i, j
  <2>2. i # j
    BY <1>11, <2>1
  <2>3. ~(UpTo(info, recs, seq, j) \in SUBSET UpTo(info, recs, seq, i))
    <3>1. IsFiniteSet(UpTo(info, recs, seq, i)) /\ m \in Int /\ n \in Int
      BY <1>3, <2>1
    <3>2. UpTo(info, recs, seq, j) \in SUBSET UpTo(info, recs, seq, i) => n <= m
      BY <2>1, <3>1, FS_Subset
    <3>. QED
      BY <1>11, <3>1, <3>2
  <2>4. UpTo(info, recs, seq, i) \subseteq UpTo(info, recs, seq, j)
    BY <2>1, <2>2, <2>3, UpToIsALine
  <2>5. i \in UpTo(info, recs, seq, j)
    BY <1>2, <2>1, <2>4
  <2>. QED
    BY <2>5 DEF i, j
<1>. QED
  BY <1>9, <1>10, <1>11

\* applySort puts the rows in order, whatever the column and the direction, and rows
\* that are equal stay in the order they were in.
THEOREM ApplySortIsStable ==
  ASSUME NEW info, info.field \in Cols, NEW recs \in Seq(Engine),
         NEW seq \in Seq(1 .. Len(recs))
  PROVE  \E b \in Bijection(1 .. Len(seq), 1 .. Len(seq)) :
           /\ Sorted(info, recs, seq) = [n \in 1 .. Len(seq) |-> seq[b[n]]]
           /\ \A m, n \in 1 .. Len(seq) : m < n =>
                /\ ~Before(info, recs, seq[b[n]], seq[b[m]])
                /\ Before(info, recs, seq[b[m]], seq[b[n]]) \/ b[m] < b[n]
<1> DEFINE D == 1 .. Len(seq)
<1>1. PICK b \in Bijection(D, D) :
        /\ Sorted(info, recs, seq) = [n \in D |-> seq[b[n]]]
        /\ \A m, n \in D : m < n => b[m] \in UpTo(info, recs, seq, b[n])
  BY SortedPermutes
<1>2. \A m, n \in D : b[m] \in D /\ (b[m] = b[n] => m = n)
  BY DEF Bijection, Injection, IsInjective
<1>3. \A i, j \in D : Before(info, recs, seq[i], seq[j]) => ~Before(info, recs, seq[j], seq[i])
  <2> SUFFICES ASSUME NEW i \in D, NEW j \in D, Before(info, recs, seq[i], seq[j])
               PROVE  ~Before(info, recs, seq[j], seq[i])
    OBVIOUS
  <2>1. recs[seq[i]][info.field] \in Int /\ recs[seq[j]][info.field] \in Int
    BY KeyIsInt
  <2>. QED
    BY <2>1 DEF Before
<1>4. ASSUME NEW m \in D, NEW n \in D, m < n
      PROVE  /\ ~Before(info, recs, seq[b[n]], seq[b[m]])
             /\ Before(info, recs, seq[b[m]], seq[b[n]]) \/ b[m] < b[n]
  <2>1. b[m] \in D /\ b[n] \in D /\ b[m] # b[n]
    BY <1>2, <1>4
  <2>2. \/ Before(info, recs, seq[b[m]], seq[b[n]])
        \/ ~Before(info, recs, seq[b[n]], seq[b[m]]) /\ b[m] <= b[n]
    BY <1>1, <1>4 DEF UpTo
  <2>. QED
    BY <1>3, <2>1, <2>2
<1>. QED
  BY <1>1, <1>4

\* No two of the rows are of one name.
Apart(recs, seq) ==
  \A i, j \in 1 .. Len(seq) : recs[seq[i]].name = recs[seq[j]].name => i = j

\* What a sort leaves as it was.
LEMMA SortedKeeps ==
  ASSUME NEW info, info.field \in Cols, NEW recs \in Seq(Engine),
         NEW seq \in Seq(1 .. Len(recs))
  PROVE  /\ Sorted(info, recs, seq) \in Seq(1 .. Len(recs))
         /\ Range(Sorted(info, recs, seq)) = Range(seq)
         /\ Apart(recs, seq) => Apart(recs, Sorted(info, recs, seq))
<1> DEFINE D == 1 .. Len(seq)
           new == Sorted(info, recs, seq)
<1>1. PICK b \in Bijection(D, D) : new = [n \in D |-> seq[b[n]]]
  BY SortedPermutes
<1>2. /\ b \in [D -> D]
      /\ \A m, n \in D : b[m] = b[n] => m = n
      /\ \A m \in D : \E n \in D : b[n] = m
  BY DEF Bijection, Injection, IsInjective, Surjection
<1>3. Len(seq) \in Nat /\ DOMAIN seq = D /\ \A n \in D : seq[n] \in 1 .. Len(recs)
  BY LenProperties
<1>4. \A n \in D : seq[b[n]] \in 1 .. Len(recs)
  BY <1>2, <1>3
<1>5. /\ new \in [D -> 1 .. Len(recs)] /\ DOMAIN new = D
      /\ \A n \in D : new[n] = seq[b[n]]
  BY <1>1, <1>4
<1> HIDE DEF new
<1>6. new \in Seq(1 .. Len(recs)) /\ Len(new) = Len(seq)
  <2>1. new \in UNION {[1 .. n -> 1 .. Len(recs)] : n \in Nat}
    BY <1>3, <1>5
  <2>2. new \in Seq(1 .. Len(recs))
    BY <2>1, SeqDef
  <2>3. 1 .. Len(new) = 1 .. Len(seq) /\ Len(new) \in Nat
    BY <1>5, <2>2, LenProperties
  <2>. QED
    BY <1>3, <2>2, <2>3
<1>7. Range(new) = Range(seq)
  <2>1. \A n \in D : b[n] \in D /\ new[n] = seq[b[n]]
    BY <1>2, <1>5
  <2>2. \A m \in D : \E n \in D : seq[m] = new[n]
    <3> SUFFICES ASSUME NEW m \in D
                 PROVE  \E n \in D : seq[m] = new[n]
      OBVIOUS
    <3>1. PICK n \in D : b[n] = m
      BY <1>2
    <3>. QED
      BY <1>5, <3>1
  <2>3. Range(new) = {new[n] : n \in D} /\ Range(seq) = {seq[n] : n \in D}
    BY <1>3, <1>5 DEF Range
  <2> HIDE DEF D
  <2>4. \A n \in D : new[n] \in {seq[m] : m \in D} /\ seq[n] \in {new[m] : m \in D}
    BY <2>1, <2>2
  <2>. QED
    BY <2>3, <2>4
<1>8. ASSUME Apart(recs, seq) PROVE Apart(recs, new)
  <2> SUFFICES ASSUME NEW m \in D, NEW n \in D, recs[new[m]].name = recs[new[n]].name
               PROVE  m = n
    BY <1>6 DEF Apart
  <2>1. b[m] \in D /\ b[n] \in D /\ new[m] = seq[b[m]] /\ new[n] = seq[b[n]]
    BY <1>2, <1>5
  <2>2. b[m] = b[n]
    BY <1>8, <2>1 DEF Apart
  <2>. QED
    BY <1>2, <2>2
<1>. QED
  BY <1>6, <1>7, <1>8 DEF new

\* RemoveAt takes one out and moves up those behind it.
LEMMA RemoveAtIs ==
  ASSUME NEW S, NEW seq \in Seq(S), NEW i \in 1 .. Len(seq)
  PROVE  /\ RemoveAt(seq, i) \in Seq(S)
         /\ Len(RemoveAt(seq, i)) = Len(seq) - 1
         /\ \A n \in 1 .. Len(seq) - 1 :
              RemoveAt(seq, i)[n] = IF n < i THEN seq[n] ELSE seq[n + 1]
<1> DEFINE a == SubSeq(seq, 1, i - 1)
           b == SubSeq(seq, i + 1, Len(seq))
<1>1. Len(seq) \in Nat /\ i \in Nat /\ \A n \in 1 .. Len(seq) : seq[n] \in S
  BY LenProperties
<1>2. /\ a \in Seq(S) /\ Len(a) = i - 1
      /\ \A n \in 1 .. i - 1 : a[n] = seq[n]
  <2>1. \A n \in 1 .. i - 1 : seq[n] \in S
    BY <1>1
  <2>2. /\ a \in Seq(S)
        /\ Len(a) = IF 1 <= i - 1 THEN i - 1 - 1 + 1 ELSE 0
        /\ \A n \in 1 .. i - 1 - 1 + 1 : a[n] = seq[1 + n - 1]
    BY <1>1, <2>1, SubSeqProperties
  <2>. QED
    BY <1>1, <2>2
<1>3. /\ b \in Seq(S) /\ Len(b) = Len(seq) - i
      /\ \A n \in 1 .. Len(seq) - i : b[n] = seq[n + i]
  <2>1. \A n \in i + 1 .. Len(seq) : seq[n] \in S
    BY <1>1
  <2>2. /\ b \in Seq(S)
        /\ Len(b) = IF i + 1 <= Len(seq) THEN Len(seq) - (i + 1) + 1 ELSE 0
        /\ \A n \in 1 .. Len(seq) - (i + 1) + 1 : b[n] = seq[i + 1 + n - 1]
    BY <1>1, <2>1, SubSeqProperties
  <2>3. Len(b) = Len(seq) - i
    BY <1>1, <2>2
  <2>4. \A n \in 1 .. Len(seq) - i : b[n] = seq[n + i]
    BY <1>1, <2>2
  <2>. QED
    BY <2>2, <2>3, <2>4
<1> HIDE DEF a, b
<1>4. /\ a \o b \in Seq(S) /\ Len(a \o b) = Len(a) + Len(b)
      /\ \A n \in 1 .. Len(a) + Len(b) :
           (a \o b)[n] = IF n <= Len(a) THEN a[n] ELSE b[n - Len(a)]
  BY <1>2, <1>3, ConcatProperties
<1>5. RemoveAt(seq, i) = a \o b
  BY DEF RemoveAt, a, b
<1>6. Len(a \o b) = Len(seq) - 1
  BY <1>1, <1>2, <1>3, <1>4
<1>7. \A n \in 1 .. Len(seq) - 1 : (a \o b)[n] = IF n < i THEN seq[n] ELSE seq[n + 1]
  <2> SUFFICES ASSUME NEW n \in 1 .. Len(seq) - 1
               PROVE  (a \o b)[n] = IF n < i THEN seq[n] ELSE seq[n + 1]
    OBVIOUS
  <2>1. n \in 1 .. Len(a) + Len(b) /\ (n <= Len(a) <=> n < i)
    BY <1>1, <1>2, <1>3
  <2>2. (a \o b)[n] = IF n < i THEN a[n] ELSE b[n - Len(a)]
    BY <1>4, <2>1
  <2>3. n < i => a[n] = seq[n]
    BY <1>1, <1>2
  <2>4. ~(n < i) => n - Len(a) \in 1 .. Len(seq) - i /\ n - Len(a) + i = n + 1
    BY <1>1, <1>2
  <2>5. ~(n < i) => b[n - Len(a)] = seq[n + 1]
    BY <1>3, <2>4
  <2>. QED
    BY <2>2, <2>3, <2>5
<1>. QED
  BY <1>4, <1>5, <1>6, <1>7

\* The stores while they are filled: the records, the rows, which are of different
\* names, and the categories of the records.
Filling(acc) ==
  /\ acc.data \in Seq(Engine)
  /\ acc.items \in Seq(1 .. Len(acc.data))
  /\ acc.categs \subseteq Nat
  /\ \A r \in 1 .. Len(acc.data) : acc.data[r].categ \in acc.categs
  /\ Apart(acc.data, acc.items)

\* There is a row for the engine, of no higher version.
Covered(acc, engine) ==
  \E k \in 1 .. Len(acc.items) : /\ acc.data[acc.items[k]].name = engine.name
                                 /\ acc.data[acc.items[k]].version <= engine.version

\* A row is put in its place among rows without its name.
LEMMA AddSorted ==
  ASSUME NEW acc, NEW engine \in Engine, NEW kept \in Seq(1 .. Len(acc.data)),
         Filling(acc), sortInfo.field \in Cols,
         \A k \in 1 .. Len(kept) : acc.data[kept[k]].name # engine.name,
         Apart(acc.data, kept)
  PROVE  LET recs == Append(acc.data, engine)
             new == [data |-> recs, categs |-> acc.categs \cup {engine.categ},
                     items |-> Sorted(sortInfo, recs, Append(kept, Len(recs)))]
         IN /\ Filling(new)
            /\ Covered(new, engine)
            /\ \A k \in 1 .. Len(kept), e \in Engine :
                 /\ acc.data[kept[k]].name = e.name
                 /\ acc.data[kept[k]].version <= e.version
                 => Covered(new, e)
<1> DEFINE n == Len(acc.data)
           recs == Append(acc.data, engine)
           more == Append(kept, n + 1)
           rows == Sorted(sortInfo, recs, more)
           new == [data |-> recs, categs |-> acc.categs \cup {engine.categ},
                   items |-> Sorted(sortInfo, recs, Append(kept, Len(recs)))]
<1>1. /\ acc.data \in Seq(Engine) /\ n \in Nat
      /\ acc.categs \subseteq Nat
      /\ \A r \in 1 .. n : acc.data[r] \in Engine /\ acc.data[r].categ \in acc.categs
  BY DEF Filling
<1>2. /\ recs \in Seq(Engine) /\ Len(recs) = n + 1
      /\ \A r \in 1 .. n : recs[r] = acc.data[r]
      /\ recs[n + 1] = engine
  BY <1>1, AppendProperties
<1>3. /\ Len(kept) \in Nat
      /\ \A k \in 1 .. Len(kept) : kept[k] \in 1 .. n
  BY LenProperties
<1>4. /\ more \in Seq(1 .. n + 1) /\ Len(more) = Len(kept) + 1
      /\ \A k \in 1 .. Len(kept) : more[k] = kept[k]
      /\ more[Len(kept) + 1] = n + 1
  <2>1. 1 .. n \subseteq 1 .. n + 1 /\ n + 1 \in 1 .. n + 1
    BY <1>1
  <2>2. kept \in Seq(1 .. n + 1)
    BY <2>1, SeqMonotonic
  <2>. QED
    BY <2>1, <2>2, AppendProperties
<1> HIDE DEF recs, more
<1>5. Apart(recs, more)
  <2> SUFFICES ASSUME NEW i \in 1 .. Len(kept) + 1, NEW j \in 1 .. Len(kept) + 1,
                      recs[more[i]].name = recs[more[j]].name
               PROVE  i = j
    BY <1>4 DEF Apart
  <2>1. \A k \in 1 .. Len(kept) : recs[more[k]] = acc.data[kept[k]]
    BY <1>2, <1>3, <1>4
  <2>2. recs[more[Len(kept) + 1]] = engine
    BY <1>2, <1>4
  <2>3. \A k \in 1 .. Len(kept) + 1 : k \in 1 .. Len(kept) \/ k = Len(kept) + 1
    BY <1>3
  <2>. QED
    BY <2>1, <2>2, <2>3 DEF Apart
<1>6. /\ rows \in Seq(1 .. n + 1) /\ Range(rows) = Range(more)
      /\ Apart(recs, rows)
  BY <1>2, <1>4, <1>5, SortedKeeps
<1>7. new = [data |-> recs, categs |-> acc.categs \cup {engine.categ}, items |-> rows]
  BY <1>2 DEF more, recs
<1> HIDE DEF rows
<1>8. Filling(new)
  <2>1. \A r \in 1 .. n + 1 : recs[r].categ \in acc.categs \cup {engine.categ}
    <3>1. \A r \in 1 .. n + 1 : r \in 1 .. n \/ r = n + 1
      BY <1>1
    <3>. QED
      BY <1>1, <1>2, <3>1
  <2>2. engine.categ \in Nat
    BY DEF Engine
  <2>. QED
    BY <1>1, <1>2, <1>6, <1>7, <2>1, <2>2 DEF Filling
<1>9. \A k \in 1 .. Len(kept) + 1 : \E m \in 1 .. Len(rows) : rows[m] = more[k]
  <2>1. DOMAIN rows = 1 .. Len(rows) /\ DOMAIN more = 1 .. Len(kept) + 1
    BY <1>4, <1>6, LenProperties
  <2>. QED
    BY <1>6, <2>1 DEF Range
<1>10. Covered(new, engine)
  <2>0. Len(kept) + 1 \in 1 .. Len(kept) + 1
    BY <1>3
  <2>1. PICK m \in 1 .. Len(rows) : rows[m] = n + 1
    BY <1>4, <1>9, <2>0
  <2>2. recs[rows[m]] = engine
    BY <1>2, <2>1
  <2>3. engine.version <= engine.version
    BY DEF Engine
  <2>4. recs[rows[m]].name = engine.name /\ recs[rows[m]].version <= engine.version
    BY <2>2, <2>3
  <2>. QED
    BY <1>7, <2>4 DEF Covered
<1>11. ASSUME NEW k \in 1 .. Len(kept), NEW e \in Engine,
              acc.data[kept[k]].name = e.name, acc.data[kept[k]].version <= e.version
       PROVE  Covered(new, e)
  <2>0. k \in 1 .. Len(kept) + 1
    BY <1>3
  <2>1. PICK m \in 1 .. Len(rows) : rows[m] = kept[k]
    BY <1>4, <1>9, <2>0
  <2>2. recs[rows[m]] = acc.data[kept[k]]
    BY <1>2, <1>3, <2>1
  <2>. QED
    BY <1>7, <1>11, <2>2 DEF Covered
<1>. QED
  BY <1>8, <1>10, <1>11 DEF recs

\* One turn of the loop: its engine is covered, and those before it still are.
LEMMA ListedKeeps ==
  ASSUME NEW acc, NEW engine \in Engine, Filling(acc), sortInfo.field \in Cols
  PROVE  /\ Filling(Listed(acc, engine))
         /\ Covered(Listed(acc, engine), engine)
         /\ \A e \in Engine : Covered(acc, e) => Covered(Listed(acc, engine), e)
<1> DEFINE same == Named(acc.data, acc.items, engine.name)
           givesWay == {i \in same : acc.data[acc.items[i]].version > engine.version}
           kept == IF givesWay = {} THEN acc.items
                   ELSE RemoveAt(acc.items, CHOOSE i \in givesWay : TRUE)
           N == Len(acc.items)
<1>1. /\ acc.items \in Seq(1 .. Len(acc.data)) /\ N \in Nat
      /\ \A k \in 1 .. N : acc.data[acc.items[k]] \in Engine
  BY DEF Filling
<1>2. same = {i \in 1 .. N : acc.data[acc.items[i]].name = engine.name}
  BY <1>1 DEF Named
<1>3. \A i, j \in same : i = j
  BY <1>2 DEF Filling, Apart
<1>4. givesWay # same => Listed(acc, engine) = [acc EXCEPT !.items = kept]
  BY DEF Listed
<1>5. givesWay = same =>
        Listed(acc, engine)
          = LET recs == Append(acc.data, engine)
            IN [data |-> recs, categs |-> acc.categs \cup {engine.categ},
                items |-> Sorted(sortInfo, recs, Append(kept, Len(recs)))]
  BY DEF Listed
<1> HIDE DEF same
<1>6. CASE same = {}
  <2>1. givesWay = same /\ kept = acc.items
    BY <1>6
  <2>2. \A k \in 1 .. N : acc.data[acc.items[k]].name # engine.name
    BY <1>2, <1>6
  <2>3. Apart(acc.data, acc.items)
    BY DEF Filling
  <2> HIDE DEF givesWay, kept
  <2>4. /\ Filling(Listed(acc, engine)) /\ Covered(Listed(acc, engine), engine)
        /\ \A k \in 1 .. N, e \in Engine :
             /\ acc.data[acc.items[k]].name = e.name
             /\ acc.data[acc.items[k]].version <= e.version
             => Covered(Listed(acc, engine), e)
    BY <1>1, <1>5, <2>1, <2>2, <2>3, AddSorted
  <2>. QED
    BY <2>4 DEF Covered
<1>7. ASSUME NEW i \in same, ~(acc.data[acc.items[i]].version > engine.version)
      PROVE  /\ Filling(Listed(acc, engine))
             /\ Covered(Listed(acc, engine), engine)
             /\ \A e \in Engine : Covered(acc, e) => Covered(Listed(acc, engine), e)
  <2>1. givesWay = {} /\ givesWay # same /\ kept = acc.items
    BY <1>3, <1>7
  <2>2. Listed(acc, engine) = [acc EXCEPT !.items = acc.items]
    BY <1>4, <2>1
  <2>3. /\ Listed(acc, engine).data = acc.data /\ Listed(acc, engine).items = acc.items
        /\ Listed(acc, engine).categs = acc.categs
    BY <2>2
  <2>4. /\ i \in 1 .. N /\ acc.data[acc.items[i]].name = engine.name
        /\ acc.data[acc.items[i]].version <= engine.version
    BY <1>1, <1>2, <1>7 DEF Engine
  <2>. QED
    BY <2>3, <2>4 DEF Filling, Covered
<1>8. ASSUME NEW i \in same, acc.data[acc.items[i]].version > engine.version
      PROVE  /\ Filling(Listed(acc, engine))
             /\ Covered(Listed(acc, engine), engine)
             /\ \A e \in Engine : Covered(acc, e) => Covered(Listed(acc, engine), e)
  <2>1. givesWay = {i} /\ same = {i}
    BY <1>3, <1>8
  <2>2. givesWay = same /\ kept = RemoveAt(acc.items, i)
    BY <2>1
  <2> HIDE DEF givesWay, kept
  <2>3. i \in 1 .. N
    BY <1>2
  <2>4. /\ kept \in Seq(1 .. Len(acc.data)) /\ Len(kept) = N - 1
        /\ \A n \in 1 .. N - 1 :
             kept[n] = IF n < i THEN acc.items[n] ELSE acc.items[n + 1]
    BY <1>1, <2>2, <2>3, RemoveAtIs
  <2>5. \A n \in 1 .. N - 1 : \E m \in 1 .. N : /\ kept[n] = acc.items[m] /\ m # i
                                                /\ m = IF n < i THEN n ELSE n + 1
    <3> SUFFICES ASSUME NEW n \in 1 .. N - 1
                 PROVE  \E m \in 1 .. N : /\ kept[n] = acc.items[m] /\ m # i
                                          /\ m = IF n < i THEN n ELSE n + 1
      OBVIOUS
    <3>1. CASE n < i
      BY <1>1, <2>3, <2>4, <3>1
    <3>2. CASE ~(n < i)
      BY <1>1, <2>3, <2>4, <3>2
    <3>. QED
      BY <3>1, <3>2
  <2>6. \A m \in 1 .. N : m # i => \E n \in 1 .. N - 1 : kept[n] = acc.items[m]
    <3> SUFFICES ASSUME NEW m \in 1 .. N, m # i
                 PROVE  \E n \in 1 .. N - 1 : kept[n] = acc.items[m]
      OBVIOUS
    <3>1. CASE m < i
      <4>1. m \in 1 .. N - 1
        BY <1>1, <2>3, <3>1
      <4>. QED
        BY <2>4, <3>1, <4>1
    <3>2. CASE m > i
      <4>1. m - 1 \in 1 .. N - 1 /\ ~(m - 1 < i) /\ m - 1 + 1 = m
        BY <1>1, <2>3, <3>2
      <4>. QED
        BY <2>4, <4>1
    <3>. QED
      BY <1>1, <2>3, <3>1, <3>2
  <2>7. \A n \in 1 .. Len(kept) : acc.data[kept[n]].name # engine.name
    <3> SUFFICES ASSUME NEW n \in 1 .. N - 1
                 PROVE  acc.data[kept[n]].name # engine.name
      BY <2>4
    <3>1. PICK m \in 1 .. N : kept[n] = acc.items[m] /\ m # i
      BY <2>5
    <3>2. m \notin same
      BY <2>1, <3>1
    <3>. QED
      BY <1>2, <3>1, <3>2
  <2>8. Apart(acc.data, kept)
    <3> SUFFICES ASSUME NEW k \in 1 .. N - 1, NEW l \in 1 .. N - 1,
                        acc.data[kept[k]].name = acc.data[kept[l]].name
                 PROVE  k = l
      BY <2>4 DEF Apart
    <3>1. PICK m \in 1 .. N : kept[k] = acc.items[m] /\ m = IF k < i THEN k ELSE k + 1
      BY <2>5
    <3>2. PICK n \in 1 .. N : kept[l] = acc.items[n] /\ n = IF l < i THEN l ELSE l + 1
      BY <2>5
    <3>3. m = n
      BY <3>1, <3>2 DEF Filling, Apart
    <3>. QED
      BY <1>1, <2>3, <3>1, <3>2, <3>3
  <2>9. /\ Filling(Listed(acc, engine)) /\ Covered(Listed(acc, engine), engine)
        /\ \A k \in 1 .. Len(kept), e \in Engine :
             /\ acc.data[kept[k]].name = e.name
             /\ acc.data[kept[k]].version <= e.version
             => Covered(Listed(acc, engine), e)
    <3>1. kept \in Seq(1 .. Len(acc.data))
      BY <2>4
    <3>2. Listed(acc, engine)
            = LET recs == Append(acc.data, engine)
              IN [data |-> recs, categs |-> acc.categs \cup {engine.categ},
                  items |-> Sorted(sortInfo, recs, Append(kept, Len(recs)))]
      BY <1>5, <2>2
    <3>. QED
      BY <2>7, <2>8, <3>1, <3>2, AddSorted
  <2>10. ASSUME NEW e \in Engine, Covered(acc, e)
         PROVE  Covered(Listed(acc, engine), e)
    <3>1. PICK m \in 1 .. N : /\ acc.data[acc.items[m]].name = e.name
                              /\ acc.data[acc.items[m]].version <= e.version
      BY <2>10 DEF Covered
    <3>2. CASE m = i
      <4>1. e.name = engine.name /\ engine.version <= e.version
        <5>1. /\ e.name = acc.data[acc.items[i]].name
              /\ acc.data[acc.items[i]].version <= e.version
          BY <3>1, <3>2
        <5>2. acc.data[acc.items[i]].name = engine.name
          BY <1>2
        <5>3. acc.data[acc.items[i]].version \in Nat
          <6>1. acc.data[acc.items[i]] \in Engine
            BY <1>1, <2>3
          <6>. QED
            BY <6>1 DEF Engine
        <5>4. e.version \in Nat /\ engine.version \in Nat
          BY DEF Engine
        <5>. QED
          BY <1>8, <5>1, <5>2, <5>3, <5>4
      <4>. QED
        <5>1. PICK k \in 1 .. Len(Listed(acc, engine).items) :
                 LET r == Listed(acc, engine).data[Listed(acc, engine).items[k]]
                 IN r.name = engine.name /\ r.version <= engine.version
          BY <2>9 DEF Covered
        <5>2. Listed(acc, engine).data[Listed(acc, engine).items[k]] \in Engine
          BY <2>9 DEF Filling
        <5>3. Listed(acc, engine).data[Listed(acc, engine).items[k]].version <= e.version
          BY <4>1, <5>1, <5>2 DEF Engine
        <5>. QED
          BY <4>1, <5>1, <5>3 DEF Covered
    <3>3. CASE m # i
      <4>1. PICK n \in 1 .. N - 1 : kept[n] = acc.items[m]
        BY <2>6, <3>3
      <4>. QED
        BY <2>4, <2>9, <3>1, <4>1
    <3>. QED
      BY <3>2, <3>3
  <2>. QED
    BY <2>9, <2>10
<1>. QED
  BY <1>6, <1>7, <1>8

Blank == [data |-> <<>>, items |-> <<>>, categs |-> {}]

\* after is the function that the turns of the loop define, up to the turn m.
After(list, after, m) ==
  after = [n \in 0 .. m |-> IF n = 0 THEN Blank ELSE Listed(after[n - 1], list[n])]

LEMMA AfterExists ==
  ASSUME NEW list, NEW m \in Nat
  PROVE  \E after : After(list, after, m)
<1> DEFINE none == {k \in Nat : ~\E after : After(list, after, k)}
<1>1. SUFFICES ASSUME none # {}
               PROVE  FALSE
  OBVIOUS
<1>2. PICK k \in none : \A l \in none : k <= l
  BY <1>1, Least
<1>3. k # 0
  <2>1. After(list, [n \in 0 .. 0 |-> Blank], 0)
    BY DEF After
  <2>. QED
    BY <2>1, <1>2
<1>4. k - 1 \in Nat /\ k \in Nat
  BY <1>2, <1>3
<1>5. PICK f : After(list, f, k - 1)
  BY <1>2, <1>4
<1> DEFINE g == [n \in 0 .. k |-> IF n = k THEN Listed(f[k - 1], list[k]) ELSE f[n]]
<1>6. \A n \in 0 .. k : g[n] = IF n = 0 THEN Blank ELSE Listed(g[n - 1], list[n])
  <2> SUFFICES ASSUME NEW n \in 0 .. k
               PROVE  g[n] = IF n = 0 THEN Blank ELSE Listed(g[n - 1], list[n])
    OBVIOUS
  <2>1. CASE n = k
    BY <1>3, <1>4, <2>1
  <2>2. CASE n # k
    <3>1. n \in 0 .. k - 1 /\ g[n] = f[n]
      BY <1>4, <2>2
    <3>2. n # 0 => n - 1 \in 0 .. k /\ n - 1 # k /\ g[n - 1] = f[n - 1]
      BY <1>4, <2>2
    <3>3. f[n] = IF n = 0 THEN Blank ELSE Listed(f[n - 1], list[n])
      BY <1>5, <3>1 DEF After
    <3>. QED
      BY <3>1, <3>2, <3>3
  <2>. QED
    BY <2>1, <2>2
<1>7. After(list, g, k)
  <2>1. g = [n \in 0 .. k |-> g[n]]
    OBVIOUS
  <2> HIDE DEF g
  <2>. QED
    BY <1>6, <2>1 DEF After
<1>. QED
  BY <1>2, <1>7

\* The stores are those of the last turn.
LEMMA StoresAre ==
  ASSUME NEW list \in Seq(Engine)
  PROVE  \E after : /\ After(list, after, Len(list))
                    /\ Stores(list) = after[Len(list)]
<1> DEFINE last == CHOOSE after : After(list, after, Len(list))
<1>1. Stores(list) = last[Len(list)]
  BY DEF Stores, After, Blank
<1>2. After(list, last, Len(list))
  <2>1. Len(list) \in Nat
    BY LenProperties
  <2>. QED
    BY <2>1, AfterExists
<1>. QED
  BY <1>1, <1>2

\* After all of the turns, every engine of the list is covered.
LEMMA StoresFilled ==
  ASSUME NEW list \in Seq(Engine), sortInfo.field \in Cols
  PROVE  /\ Filling(Stores(list))
         /\ \A i \in 1 .. Len(list) : Covered(Stores(list), list[i])
<1>1. Len(list) \in Nat /\ \A i \in 1 .. Len(list) : list[i] \in Engine
  BY LenProperties
<1>2. PICK after : After(list, after, Len(list)) /\ Stores(list) = after[Len(list)]
  BY StoresAre
<1> DEFINE done(n) == /\ Filling(after[n])
                      /\ \A i \in 1 .. n : Covered(after[n], list[i])
           bad == {n \in 0 .. Len(list) : ~done(n)}
<1>3. done(0)
  <2>1. after[0] = Blank
    BY <1>1, <1>2 DEF After
  <2>2. Filling(Blank)
    BY EmptySeq DEF Filling, Blank, Apart
  <2>. QED
    BY <2>1, <2>2
<1>4. ASSUME NEW n \in 1 .. Len(list), done(n - 1)
      PROVE  done(n)
  <2>1. n \in Nat /\ n # 0 /\ n \in 0 .. Len(list)
    BY <1>1
  <2>2. after[n] = Listed(after[n - 1], list[n])
    BY <1>2, <2>1 DEF After
  <2>3. list[n] \in Engine /\ Filling(after[n - 1])
    BY <1>1, <1>4
  <2>4. /\ Filling(after[n]) /\ Covered(after[n], list[n])
        /\ \A e \in Engine : Covered(after[n - 1], e) => Covered(after[n], e)
    BY <2>2, <2>3, ListedKeeps
  <2>5. ASSUME NEW i \in 1 .. n PROVE Covered(after[n], list[i])
    <3>1. CASE i = n
      BY <2>4, <3>1
    <3>2. CASE i # n
      <4>1. i \in 1 .. n - 1 /\ i \in 1 .. Len(list)
        BY <1>1, <2>1, <3>2
      <4>2. Covered(after[n - 1], list[i]) /\ list[i] \in Engine
        BY <1>1, <1>4, <4>1
      <4>. QED
        BY <2>4, <4>2
    <3>. QED
      BY <3>1, <3>2
  <2>. QED
    BY <2>4, <2>5
<1> HIDE DEF done
<1>5. bad = {}
  <2> SUFFICES ASSUME bad # {} PROVE FALSE
    OBVIOUS
  <2>1. bad \in SUBSET Nat
    BY <1>1
  <2>2. PICK n \in bad : \A l \in bad : n <= l
    BY <2>1, Least
  <2>3. n \in 0 .. Len(list) /\ ~done(n) /\ n # 0
    BY <1>3, <2>2
  <2>4. n \in 1 .. Len(list) /\ n - 1 \in 0 .. Len(list) /\ ~(n <= n - 1)
    BY <1>1, <2>3
  <2>5. done(n - 1)
    BY <2>2, <2>4
  <2>. QED
    BY <1>4, <2>3, <2>4, <2>5
<1>6. done(Len(list))
  <2>1. Len(list) \in 0 .. Len(list)
    BY <1>1
  <2>. QED
    BY <1>5, <2>1
<1>. QED
  BY <1>2, <1>6 DEF done

-----------------------------------------------------------------------------
(* The grid and its editors. *)

Editor == [editing : BOOLEAN, listening : BOOLEAN, row : Int, record : Nat,
           value : Nat, start : Nat, shown : Nat]

Grid == [data : Seq(Engine), ed : [Cols -> Editor], active : Cols \cup {None}]

\* A grid with at most one open editor, the active one: of a record, which it shows,
\* with the value that the record has still.
Sound(g) ==
  /\ g \in Grid
  /\ \A c \in Cols : g.ed[c].editing <=> g.active = c
  /\ g.active # None =>
       LET e == g.ed[g.active]
       IN /\ e.listening
          /\ e.record \in 1 .. Len(g.data) /\ e.shown = e.record
          /\ e.start = g.data[e.record][g.active]

\* The records, with what the open editor will put into one of them.
Landed(g) ==
  IF g.active = None THEN g.data
  ELSE [g.data EXCEPT ![g.ed[g.active].record][g.active] = g.ed[g.active].value]

\* A record is its fields.
LEMMA EngineFields ==
  ASSUME NEW e \in Engine
  PROVE  /\ e = [f \in DOMAIN e |-> e[f]]
         /\ DOMAIN e = {"select", "categ", "name", "version"}
         /\ \A c \in Cols : e[c] \in Nat
         /\ \A c \in Cols, v \in Nat : /\ [e EXCEPT ![c] = v] \in Engine
                                       /\ [e EXCEPT ![c] = v][c] = v
                                       /\ \A f \in DOMAIN e \ {c} : [e EXCEPT ![c] = v][f] = e[f]
<1>1. /\ e = [select |-> e.select, categ |-> e.categ, name |-> e.name, version |-> e.version]
      /\ e.select \in BOOLEAN /\ e.categ \in Nat /\ e.name \in Nat /\ e.version \in Nat
  BY DEF Engine
<1>2. DOMAIN e = {"select", "categ", "name", "version"}
  BY <1>1
<1>3. e = [f \in DOMAIN e |-> e[f]]
  BY <1>1
<1>4. \A c \in Cols : e[c] \in Nat
  BY <1>1 DEF Cols
<1>5. ASSUME NEW c \in Cols, NEW v \in Nat
      PROVE  /\ [e EXCEPT ![c] = v] \in Engine
             /\ [e EXCEPT ![c] = v][c] = v
             /\ \A f \in DOMAIN e \ {c} : [e EXCEPT ![c] = v][f] = e[f]
  <2>1. CASE c = "name"
    BY <1>1, <1>2, <2>1 DEF Engine
  <2>2. CASE c = "categ"
    BY <1>1, <1>2, <2>2 DEF Engine
  <2>. QED
    BY <2>1, <2>2 DEF Cols
<1>. QED
  BY <1>2, <1>3, <1>4, <1>5

\* The records that an edit leaves.
LEMMA LandedIs ==
  ASSUME NEW g, Sound(g)
  PROVE  /\ Landed(g) \in Seq(Engine) /\ Len(Landed(g)) = Len(g.data)
         /\ \A r \in 1 .. Len(g.data), f \in {"select", "categ", "name", "version"} :
              Landed(g)[r][f] = IF f = g.active /\ r = g.ed[f].record
                                THEN g.ed[f].value ELSE g.data[r][f]
<1>1. /\ g.data \in Seq(Engine) /\ Len(g.data) \in Nat /\ DOMAIN g.data = 1 .. Len(g.data)
      /\ \A r \in 1 .. Len(g.data) : g.data[r] \in Engine
  BY LenProperties DEF Sound, Grid
<1>2. CASE g.active = None
  BY <1>1, <1>2 DEF Landed, None
<1>3. CASE g.active # None
  <2> DEFINE c == g.active
             e == g.ed[c]
             new == [g.data[e.record] EXCEPT ![c] = e.value]
  <2>1. c \in Cols /\ e.record \in 1 .. Len(g.data) /\ e.value \in Nat
    BY <1>3 DEF Sound, Grid, Editor
  <2>2. new \in Engine /\ new[c] = e.value
        /\ \A f \in DOMAIN g.data[e.record] \ {c} : new[f] = g.data[e.record][f]
    <3> DEFINE rec == g.data[e.record]
    <3>1. rec \in Engine
      BY <1>1, <2>1
    <3> HIDE DEF rec, c, e
    <3>2. \A v \in Nat : /\ [rec EXCEPT ![c] = v] \in Engine
                         /\ [rec EXCEPT ![c] = v][c] = v
                         /\ \A f \in DOMAIN rec \ {c} : [rec EXCEPT ![c] = v][f] = rec[f]
      BY <2>1, <3>1, EngineFields
    <3>. QED
      BY <2>1, <3>2 DEF rec
  <2>3. Landed(g) = [g.data EXCEPT ![e.record] = new]
    BY <1>3 DEF Landed
  <2>4. /\ Landed(g) \in Seq(Engine) /\ Len(Landed(g)) = Len(g.data)
        /\ \A r \in 1 .. Len(g.data) : Landed(g)[r] = IF r = e.record THEN new ELSE g.data[r]
    <3> HIDE DEF new, e
    <3>1. /\ [g.data EXCEPT ![e.record] = new] \in Seq(Engine)
          /\ Len([g.data EXCEPT ![e.record] = new]) = Len(g.data)
          /\ \A r \in 1 .. Len(g.data) :
               [g.data EXCEPT ![e.record] = new][r] = IF r = e.record THEN new ELSE g.data[r]
      BY <1>1, <2>1, <2>2, ExceptSeq
    <3>. QED
      BY <2>3, <3>1
  <2>5. DOMAIN g.data[e.record] = {"select", "categ", "name", "version"}
    BY <1>1, <2>1, EngineFields
  <2> HIDE DEF new
  <2>. QED
    BY <2>2, <2>4, <2>5
<1>. QED
  BY <1>2, <1>3

\* What ending the open edit leaves.
Done(g) ==
  [data |-> Landed(g), active |-> None,
   ed |-> [c \in Cols |-> IF c = g.active THEN Closed ELSE g.ed[c]]]

\* The grid of another value in the open editor.
Put(g, v) == [g EXCEPT !.ed[g.active].value = v]

LEMMA GridIs ==
  ASSUME NEW g \in Grid
  PROVE  /\ g = [data |-> g.data, ed |-> g.ed, active |-> g.active]
         /\ g.data \in Seq(Engine) /\ Len(g.data) \in Nat
         /\ DOMAIN g.data = 1 .. Len(g.data)
         /\ g.ed \in [Cols -> Editor]
         /\ g.active \in Cols \cup {None} /\ None \notin Cols
<1>1. /\ g = [data |-> g.data, ed |-> g.ed, active |-> g.active]
      /\ g.data \in Seq(Engine) /\ g.ed \in [Cols -> Editor] /\ g.active \in Cols \cup {None}
  BY DEF Grid
<1>2. Len(g.data) \in Nat /\ DOMAIN g.data = 1 .. Len(g.data)
  BY <1>1, LenProperties
<1>3. None \notin Cols
  BY DEF None, Cols
<1>. QED
  BY <1>1, <1>2, <1>3

LEMMA SoundIs ==
  ASSUME NEW g, Sound(g)
  PROVE  /\ g \in Grid
         /\ Open(g) = {g.active} \cap Cols
         /\ g.active # None => LET e == g.ed[g.active]
                               IN /\ g.active \in Cols /\ e \in Editor
                                  /\ e.value \in Nat /\ e.start \in Nat
                                  /\ e.record \in 1 .. Len(g.data) /\ e.shown = e.record
                                  /\ e.start = g.data[e.record][g.active]
<1>1. g \in Grid
  BY DEF Sound
<1>2. Open(g) = {g.active} \cap Cols
  BY DEF Open, Sound
<1>. QED
  BY <1>1, <1>2, GridIs DEF Sound, Editor

\* Records rebuilt cell by cell are the records.
LEMMA Rebuilt ==
  ASSUME NEW recs \in Seq(Engine), NEW old \in Seq(Engine), Len(old) = Len(recs)
  PROVE  [r \in DOMAIN old |-> [f \in DOMAIN old[r] |-> recs[r][f]]] = recs
<1>1. /\ DOMAIN old = 1 .. Len(recs) /\ DOMAIN recs = 1 .. Len(recs)
      /\ \A r \in 1 .. Len(recs) : old[r] \in Engine /\ recs[r] \in Engine
  BY LenProperties
<1>2. \A r \in 1 .. Len(recs) : [f \in DOMAIN old[r] |-> recs[r][f]] = recs[r]
  <2> SUFFICES ASSUME NEW r \in 1 .. Len(recs)
               PROVE  [f \in DOMAIN old[r] |-> recs[r][f]] = recs[r]
    OBVIOUS
  <2>1. old[r] \in Engine /\ recs[r] \in Engine
    BY <1>1
  <2>2. DOMAIN old[r] = DOMAIN recs[r] /\ recs[r] = [f \in DOMAIN recs[r] |-> recs[r][f]]
    BY <2>1, EngineFields
  <2>. QED
    BY <2>2
<1>3. recs = [r \in 1 .. Len(recs) |-> recs[r]]
  BY <1>1, LenProperties
<1> DEFINE row(r) == [f \in DOMAIN old[r] |-> recs[r][f]]
<1>4. \A r \in 1 .. Len(recs) : row(r) = recs[r]
  BY <1>2
<1> HIDE DEF row
<1>5. [r \in DOMAIN old |-> row(r)] = recs
  BY <1>1, <1>3, <1>4
<1>. QED
  BY <1>5 DEF row

\* Editors that are not open have nothing to complete.
LEMMA CompletedNone ==
  ASSUME NEW g \in Grid, NEW S, S \cap Open(g) = {}
  PROVE  Completed(g, S) = g
<1>2. Completed(g, S)
        = [data |-> [r \in DOMAIN g.data |-> [f \in DOMAIN g.data[r] |-> g.data[r][f]]],
           ed |-> [c \in Cols |-> g.ed[c]],
           active |-> g.active]
  BY DEF Completed
<1>3. [r \in DOMAIN g.data |-> [f \in DOMAIN g.data[r] |-> g.data[r][f]]] = g.data
  BY GridIs, Rebuilt
<1>4. [c \in Cols |-> g.ed[c]] = g.ed
  BY GridIs
<1>. QED
  BY <1>2, <1>3, <1>4, GridIs

\* The open one puts its value into its record.
LEMMA CompletedActive ==
  ASSUME NEW g, Sound(g), g.active # None, NEW S, g.active \in S
  PROVE  Completed(g, S) = Done(g)
<1> DEFINE a == g.active
           changed == {c \in {a} : g.ed[c].value # g.ed[c].start}
           cell(r, f) == IF f \in changed /\ r = g.ed[f].record
                         THEN g.ed[f].value ELSE g.data[r][f]
<1>1. a \in Cols /\ S \cap Open(g) = {a} /\ g.ed[a].listening
  BY SoundIs, GridIs DEF Sound
<1>2. {c \in {a} : g.ed[c].listening} = {a}
  BY <1>1
<1>3. Completed(g, S)
        = [data |-> [r \in DOMAIN g.data |-> [f \in DOMAIN g.data[r] |-> cell(r, f)]],
           ed |-> [c \in Cols |-> IF c \in {a} THEN Closed ELSE g.ed[c]],
           active |-> None]
  BY <1>1, <1>2 DEF Completed
<1>4. \A r \in DOMAIN g.data : \A f \in DOMAIN g.data[r] : cell(r, f) = Landed(g)[r][f]
  <2> SUFFICES ASSUME NEW r \in DOMAIN g.data, NEW f \in DOMAIN g.data[r]
               PROVE  cell(r, f) = Landed(g)[r][f]
    OBVIOUS
  <2>1. r \in 1 .. Len(g.data) /\ g.data[r] \in Engine
    BY SoundIs, GridIs, LenProperties
  <2>2. f \in {"select", "categ", "name", "version"}
    BY <2>1, EngineFields
  <2>3. Landed(g)[r][f] = IF f = a /\ r = g.ed[f].record
                          THEN g.ed[f].value ELSE g.data[r][f]
    BY <2>1, <2>2, LandedIs
  <2>4. g.ed[a].start = g.data[g.ed[a].record][a]
    BY SoundIs
  <2>. QED
    BY <2>3, <2>4
<1> HIDE DEF cell
<1>5. [r \in DOMAIN g.data |-> [f \in DOMAIN g.data[r] |-> cell(r, f)]]
        = [r \in DOMAIN g.data |-> [f \in DOMAIN g.data[r] |-> Landed(g)[r][f]]]
  BY <1>4
<1>6. [r \in DOMAIN g.data |-> [f \in DOMAIN g.data[r] |-> Landed(g)[r][f]]] = Landed(g)
  BY SoundIs, GridIs, LandedIs, Rebuilt
<1>. QED
  BY <1>3, <1>5, <1>6 DEF Done

LEMMA DoneIs ==
  ASSUME NEW g, Sound(g)
  PROVE  /\ Sound(Done(g)) /\ Done(g).active = None
         /\ Done(g).data = Landed(g) /\ Landed(Done(g)) = Landed(g)
         /\ g.active = None => Done(g) = g
<1>1. /\ Landed(g) \in Seq(Engine)
      /\ g.ed \in [Cols -> Editor] /\ None \notin Cols
  BY LandedIs, SoundIs, GridIs
<1>2. Closed \in Editor /\ ~Closed.editing
  BY DEF Closed, Editor
<1>3. /\ Done(g).active = None /\ Done(g).data = Landed(g)
      /\ \A c \in Cols : Done(g).ed[c] = IF c = g.active THEN Closed ELSE g.ed[c]
  BY DEF Done
<1>4. Done(g) \in Grid
  BY <1>1, <1>2 DEF Done, Grid
<1>5. \A c \in Cols : ~Done(g).ed[c].editing
  BY <1>2, <1>3 DEF Sound
<1>6. Sound(Done(g))
  BY <1>1, <1>3, <1>4, <1>5 DEF Sound
<1>7. ASSUME g.active = None PROVE Done(g) = g
  <2>1. [c \in Cols |-> IF c = g.active THEN Closed ELSE g.ed[c]] = g.ed
    BY <1>1, <1>7
  <2>2. Landed(g) = g.data
    BY <1>7 DEF Landed
  <2>. QED
    BY <1>7, <2>1, <2>2, SoundIs, GridIs DEF Done
<1>. QED
  BY <1>3, <1>6, <1>7 DEF Landed

\* However an edit is ended, by a press of the mouse or by the code, it is done.
LEMMA EditEnds ==
  ASSUME NEW g, Sound(g)
  PROVE  Blurred(g) = Done(g) /\ Stopped(g) = Done(g)
<1>1. \A S : S \cap Open(g) = Open(g) => Completed(g, S) = Done(g)
  <2> SUFFICES ASSUME NEW S, S \cap Open(g) = Open(g) PROVE Completed(g, S) = Done(g)
    OBVIOUS
  <2>1. CASE g.active = None
    BY <2>1, SoundIs, GridIs, CompletedNone, DoneIs
  <2>2. CASE g.active # None
    BY <2>2, SoundIs, CompletedActive
  <2>. QED
    BY <2>1, <2>2
<1>2. /\ Blurred(g) = Done(g)
      /\ Completed(g, {g.active} \cap Cols) = Done(g)
  BY <1>1, SoundIs DEF Blurred
<1>3. [Done(g) EXCEPT !.active = None] = Done(g)
  BY DEF Done
<1>. QED
  BY <1>2, <1>3 DEF Stopped

\* Another value in the open editor, and in the record that it shows.
LEMMA PutIs ==
  ASSUME NEW g, Sound(g), g.active # None, NEW v \in Nat
  PROVE  /\ Sound(Put(g, v)) /\ Put(g, v).active = g.active /\ Put(g, v).data = g.data
         /\ Landed(Put(g, v)) = [Landed(g) EXCEPT ![g.ed[g.active].shown][g.active] = v]
         /\ Landed(Put(g, g.ed[g.active].start)) = g.data
<1> DEFINE a == g.active
           e == g.ed[a]
           p(w) == Put(g, w)
<1>1. /\ g \in Grid /\ a \in Cols /\ e \in Editor /\ e.shown = e.record
      /\ e.record \in 1 .. Len(g.data) /\ e.start \in Nat /\ e.start = g.data[e.record][a]
  BY SoundIs
<1>2. \A w \in Nat : /\ [e EXCEPT !.value = w] \in Editor
                     /\ [e EXCEPT !.value = w].value = w
                     /\ \A f \in DOMAIN e \ {"value"} : [e EXCEPT !.value = w][f] = e[f]
  BY <1>1 DEF Editor
<1>3. DOMAIN e = {"editing", "listening", "row", "record", "value", "start", "shown"}
  BY <1>1 DEF Editor
<1>4. \A w : /\ p(w).active = a /\ p(w).data = g.data
             /\ p(w).ed = [g.ed EXCEPT ![a] = [e EXCEPT !.value = w]]
             /\ p(w) = [data |-> p(w).data, ed |-> p(w).ed, active |-> p(w).active]
  <2> SUFFICES ASSUME NEW w
               PROVE  p(w) = [data |-> g.data, active |-> a,
                              ed |-> [g.ed EXCEPT ![a] = [e EXCEPT !.value = w]]]
    OBVIOUS
  <2>1. g = [data |-> g.data, ed |-> g.ed, active |-> g.active]
    BY <1>1, GridIs
  <2> DEFINE eds == [g.ed EXCEPT ![a].value = w]
  <2>2. eds = [g.ed EXCEPT ![a] = [e EXCEPT !.value = w]]
    OBVIOUS
  <2>3. Put(g, w) = [g EXCEPT !.ed = eds]
    BY DEF Put
  <2> HIDE DEF eds
  <2>4. [g EXCEPT !.ed = eds] = [data |-> g.data, ed |-> eds, active |-> g.active]
    BY <2>1
  <2>. QED
    BY <2>2, <2>3, <2>4
<1> HIDE DEF p
<1>5. /\ g.ed \in [Cols -> Editor]
      /\ \A w : \A c \in Cols : p(w).ed[c] = IF c = a THEN [e EXCEPT !.value = w] ELSE g.ed[c]
  <2>1. g.ed \in [Cols -> Editor]
    BY <1>1, GridIs
  <2>2. ASSUME NEW w, NEW c \in Cols
        PROVE  p(w).ed[c] = IF c = a THEN [e EXCEPT !.value = w] ELSE g.ed[c]
    <3>1. p(w).ed = [g.ed EXCEPT ![a] = [e EXCEPT !.value = w]]
      BY <1>4
    <3>. QED
      BY <2>1, <3>1
  <2>. QED
    BY <2>1, <2>2
<1>6. \A w \in Nat : Sound(p(w))
  <2> SUFFICES ASSUME NEW w \in Nat PROVE Sound(p(w))
    OBVIOUS
  <2> DEFINE new == [e EXCEPT !.value = w]
  <2>1. new \in Editor
    BY <1>2
  <2>2. /\ new.editing = e.editing /\ new.listening = e.listening
        /\ new.record = e.record /\ new.shown = e.shown /\ new.start = e.start
    OBVIOUS
  <2> HIDE DEF new
  <2>3. p(w).ed = [g.ed EXCEPT ![a] = new] /\ p(w).ed[a] = new
    BY <1>1, <1>4, <1>5 DEF new
  <2>4. p(w).ed \in [Cols -> Editor]
    BY <1>1, <1>5, <2>1, <2>3
  <2>5. p(w) \in Grid
    BY <1>1, <1>4, <2>4, GridIs DEF Grid
  <2>6. \A c \in Cols : p(w).ed[c].editing <=> a = c
    BY <1>1, <1>5, <2>2, <2>3 DEF Sound
  <2>. QED
    <3>1. a # None /\ e.listening
      BY DEF Sound
    <3>2. /\ p(w).ed[a].listening
          /\ p(w).ed[a].record \in 1 .. Len(p(w).data)
          /\ p(w).ed[a].shown = p(w).ed[a].record
          /\ p(w).ed[a].start = p(w).data[p(w).ed[a].record][a]
      BY <1>1, <1>4, <2>2, <2>3, <3>1
    <3>3. p(w).active = a
      BY <1>4
    <3> HIDE DEF a
    <3>. QED
      BY <2>5, <2>6, <3>2, <3>3 DEF Sound
<1>7. \A w \in Nat : Landed(p(w)) = [g.data EXCEPT ![e.record][a] = w]
  <2> SUFFICES ASSUME NEW w \in Nat PROVE Landed(p(w)) = [g.data EXCEPT ![e.record][a] = w]
    OBVIOUS
  <2>1. p(w).ed[a].record = e.record /\ p(w).ed[a].value = w
    <3>1. p(w).ed[a] = [e EXCEPT !.value = w]
      BY <1>1, <1>5
    <3>2. [e EXCEPT !.value = w].record = e.record /\ [e EXCEPT !.value = w].value = w
      BY <1>2
    <3> HIDE DEF a
    <3>. QED
      BY <3>1, <3>2
  <2>. QED
    BY <1>4, <2>1 DEF Landed
<1>8. Landed(p(v)) = [Landed(g) EXCEPT ![e.shown][a] = v]
  <2> DEFINE x == [g.data[e.record] EXCEPT ![a] = e.value]
             y == [g.data[e.record] EXCEPT ![a] = v]
  <2>1. Landed(g) = [g.data EXCEPT ![e.record] = x]
    BY DEF Landed
  <2>2. [x EXCEPT ![a] = v] = y
    OBVIOUS
  <2>3. Landed(g)[e.record] = x
    BY <1>1, <2>1, GridIs
  <2>4. [Landed(g) EXCEPT ![e.record][a] = v] = [Landed(g) EXCEPT ![e.record] = y]
    BY <2>2, <2>3
  <2> HIDE DEF x, y
  <2>5. [Landed(g) EXCEPT ![e.record] = y] = [g.data EXCEPT ![e.record] = y]
    BY <2>1
  <2>6. Landed(p(v)) = [g.data EXCEPT ![e.record] = y]
    BY <1>7 DEF y
  <2>. QED
    BY <1>1, <2>4, <2>5, <2>6
<1>9. Landed(p(e.start)) = g.data
  <2>1. Landed(p(e.start)) = [g.data EXCEPT ![e.record][a] = g.data[e.record][a]]
    BY <1>1, <1>7
  <2> DEFINE r == g.data[e.record]
  <2>2. [r EXCEPT ![a] = r[a]] = r
    <3>1. r \in Engine
      BY <1>1, GridIs, LenProperties
    <3>. QED
      BY <3>1, EngineFields
  <2>3. [g.data EXCEPT ![e.record] = g.data[e.record]] = g.data
    BY <1>1, GridIs, LenProperties
  <2>. QED
    BY <2>1, <2>2, <2>3
<1>. QED
  BY <1>1, <1>4, <1>6, <1>8, <1>9 DEF p

\* A cancelled edit leaves the record as it was.
LEMMA CancelIs ==
  ASSUME NEW g, Sound(g), g.active # None
  PROVE  LET new == Cancelled(g, {g.active})
         IN /\ Sound(new) /\ new.active = None /\ new.data = g.data
            /\ g.data = [Landed(g) EXCEPT ![g.ed[g.active].shown][g.active] =
                                             g.ed[g.active].start]
<1> DEFINE a == g.active
           v == g.ed[a].start
           new == Cancelled(g, {a})
<1>1. g \in Grid /\ a \in Cols /\ v \in Nat
  BY SoundIs
<1>2. [g EXCEPT !.ed = [c \in Cols |-> IF c \in {a} THEN [g.ed[c] EXCEPT !.value = g.ed[c].start]
                                       ELSE g.ed[c]]] = Put(g, v)
  <2>1. [c \in Cols |-> IF c \in {a} THEN [g.ed[c] EXCEPT !.value = g.ed[c].start]
                        ELSE g.ed[c]]
          = [g.ed EXCEPT ![a].value = v]
    BY <1>1, GridIs
  <2>. QED
    BY <1>1, <2>1, GridIs DEF Put
<1>3. new = Completed(Put(g, v), {a})
  BY <1>2 DEF Cancelled
<1>4. /\ Sound(Put(g, v)) /\ Put(g, v).active = a
      /\ Landed(Put(g, v)) = g.data
      /\ Landed(Put(g, v)) = [Landed(g) EXCEPT ![g.ed[a].shown][a] = v]
  BY <1>1, PutIs
<1>5. new = Done(Put(g, v))
  BY <1>3, <1>4, CompletedActive
<1>6. Sound(new) /\ new.active = None /\ new.data = g.data
  BY <1>4, <1>5, DoneIs
<1>. QED
  BY <1>4, <1>6

\* stopEditing(true) does nothing when no editor is open.
LEMMA CancelNone ==
  ASSUME NEW g, Sound(g), g.active = None
  PROVE  StoppedByCancel(g) = g
<1>1. g \in Grid /\ {g.active} \cap Cols = {}
  BY SoundIs, GridIs
<1>2. [g EXCEPT !.ed = [c \in Cols |-> IF c \in {} THEN [g.ed[c] EXCEPT !.value = g.ed[c].start]
                                       ELSE g.ed[c]]] = g
  <2>1. [c \in Cols |-> IF c \in {} THEN [g.ed[c] EXCEPT !.value = g.ed[c].start]
                        ELSE g.ed[c]] = g.ed
    BY <1>1, GridIs
  <2>. QED
    BY <1>1, <2>1, GridIs
<1>3. Cancelled(g, {}) = g
  BY <1>1, <1>2, CompletedNone DEF Cancelled
<1>4. [g EXCEPT !.active = None] = g
  BY <1>1, GridIs
<1>. QED
  BY <1>1, <1>3, <1>4 DEF StoppedByCancel

\* An editor opens on what its record has.
LEMMA StartedIs ==
  ASSUME NEW g, Sound(g), g.active = None, NEW p,
         p.col \in Cols, p.row \in Int, p.record \in 1 .. Len(g.data),
         items[p.row] = p.record
  PROVE  /\ Sound(Started(g, p)) /\ Started(g, p).active = p.col
         /\ Started(g, p).data = g.data
         /\ Landed(Started(g, p)) = g.data
<1> DEFINE c == p.col
           v == g.data[p.record][c]
           old == [g.ed[c] EXCEPT !.record = p.record, !.listening = TRUE]
           told == [g EXCEPT !.ed[c] = [@ EXCEPT !.record = p.record, !.listening = TRUE],
                             !.active = c]
           e == [editing |-> TRUE, listening |-> TRUE, row |-> p.row,
                 record |-> p.record, value |-> v, start |-> v, shown |-> p.record]
           new == [data |-> g.data, active |-> c, ed |-> [g.ed EXCEPT ![c] = e]]
<1>1. g \in Grid /\ \A d \in Cols : ~g.ed[d].editing
  BY SoundIs, GridIs DEF Sound
<1>2. v \in Nat /\ p.record \in Nat
  <2>1. g.data[p.record] \in Engine /\ p.record \in Nat
    BY <1>1, GridIs, LenProperties
  <2>. QED
    BY <2>1, EngineFields
<1>3. /\ told = [data |-> g.data, active |-> c, ed |-> [g.ed EXCEPT ![c] = old]]
      /\ old \in Editor /\ ~old.editing /\ old.listening
  <2>1. g.ed[c] \in Editor /\ ~g.ed[c].editing
    BY <1>1, GridIs
  <2>2. old \in Editor /\ ~old.editing /\ old.listening
    BY <1>2, <2>1 DEF Editor
  <2>3. told = [data |-> g.data, active |-> c, ed |-> [g.ed EXCEPT ![c] = old]]
    <3>1. g = [data |-> g.data, ed |-> g.ed, active |-> g.active]
      BY <1>1, GridIs
    <3>2. [g EXCEPT !.ed[c] = [@ EXCEPT !.record = p.record, !.listening = TRUE]]
            = [data |-> g.data, ed |-> [g.ed EXCEPT ![c] = old], active |-> g.active]
      BY <3>1
    <3>3. told = [[g EXCEPT !.ed[c] = [@ EXCEPT !.record = p.record, !.listening = TRUE]]
                    EXCEPT !.active = c]
      OBVIOUS
    <3> HIDE DEF told, old
    <3>. QED
      BY <3>2, <3>3
  <2>. QED
    BY <2>2, <2>3
<1>4. told \in Grid /\ Open(told) = {}
  <2>0. g.ed \in [Cols -> Editor]
    BY <1>1, GridIs
  <2> HIDE DEF told, old
  <2>1. \A d \in Cols : told.ed[d] = IF d = c THEN old ELSE g.ed[d]
    BY <1>3, <2>0
  <2>2. told \in Grid
    BY <1>1, <1>3, GridIs DEF Grid
  <2>. QED
    BY <1>1, <1>3, <2>1, <2>2 DEF Open
<1>5. Completed(told, {c}) = told
  BY <1>4, CompletedNone
<1>6. [told EXCEPT !.ed[c] = [editing |-> TRUE, listening |-> @.listening, row |-> p.row,
                              record |-> p.record, value |-> v, start |-> v,
                              shown |-> items[p.row]]] = new
  <2>1. told.ed[c].listening = TRUE
    BY <1>1, <1>3, GridIs DEF Editor
  <2> HIDE DEF told, old
  <2>2. [told.ed EXCEPT ![c] = e] = [g.ed EXCEPT ![c] = e]
    BY <1>3
  <2>3. [told.ed EXCEPT ![c] = [editing |-> TRUE, listening |-> @.listening, row |-> p.row,
                                record |-> p.record, value |-> v, start |-> v,
                                shown |-> items[p.row]]]
          = [told.ed EXCEPT ![c] = e]
    BY <2>1
  <2>. QED
    BY <1>3, <2>2, <2>3
<1>7. Started(g, p) = Completed(new, {"name"} \ {c})
  BY <1>5, <1>6 DEF Started
<1>8. e \in Editor
  BY <1>2 DEF Editor
<1>9. \A d \in Cols : new.ed[d] = IF d = c THEN e ELSE g.ed[d]
  BY <1>1, GridIs
<1>10. new \in Grid
  BY <1>1, <1>8, GridIs DEF Grid
<1>11. Sound(new)
  <2>1. \A d \in Cols : new.ed[d].editing <=> c = d
    BY <1>1, <1>9
  <2>2. new.ed[c] = e /\ c # None
    BY <1>1, <1>9, GridIs
  <2>. QED
    BY <1>10, <2>1, <2>2 DEF Sound
<1>12. Open(new) = {c}
  BY <1>11, SoundIs
<1> HIDE DEF new
<1>13. Started(g, p) = new
  BY <1>7, <1>10, <1>12, CompletedNone
<1>14. Landed(new) = g.data
  <2>1. new.ed[c] = e /\ c # None
    BY <1>1, <1>9, GridIs
  <2>2. Landed(new) = [g.data EXCEPT ![p.record][c] = v]
    BY <2>1 DEF Landed, new
  <2> DEFINE r == g.data[p.record]
  <2>3. [r EXCEPT ![c] = r[c]] = r
    <3>1. r \in Engine
      BY <1>1, GridIs, LenProperties
    <3>. QED
      BY <3>1, EngineFields
  <2>4. [g.data EXCEPT ![p.record] = g.data[p.record]] = g.data
    BY <1>1, GridIs, LenProperties
  <2>. QED
    BY <2>2, <2>3, <2>4
<1>. QED
  BY <1>11, <1>13, <1>14 DEF new
-----------------------------------------------------------------------------
(* The invariant of the editor.  Of a behaviour in which two editors were asked for
   at once, or rows moved under the one asked for, it says next to nothing, and so do
   the properties. *)

SortInv == sortInfo.field \in Cols

\* Nothing is edited before there is a list.
LoadingInv == phase = "loading" => ~hurried /\ grid.active = None /\ pending = <<>>

\* The user's records are the program's, but for the edit that is not over.
GridInv == /\ Sound(grid) /\ meant = Landed(grid)
           /\ items \in Seq(1 .. Len(grid.data))

\* An editor is asked for when none is open, and the record asked for is in its row.
AskedInv ==
  pending # <<>> =>
    LET p == Head(pending)
    IN /\ pending = <<p>> /\ grid.active = None
       /\ p.col \in Cols /\ p.row \in Int /\ p.record \in 1 .. Len(grid.data)
       /\ items[p.row] = p.record

\* No record is outside of the categories that are listed, when there are any.
CategInv ==
  /\ categs \subseteq Nat
  /\ categs # {} => \A r \in 1 .. Len(grid.data) :
                      grid.data[r].categ \in categs /\ meant[r].categ \in categs

EditorInv == /\ SortInv /\ LoadingInv
             /\ ~hurried => GridInv /\ AskedInv /\ CategInv

-----------------------------------------------------------------------------
(* Each action keeps the invariant. *)

\* What is asked for stays so while no editor is open, no record is lost and no row
\* asked for is taken.
LEMMA AskedKept ==
  ASSUME AskedInv, pending' = pending, grid'.active = None,
         Len(grid.data) \in Nat, Len(grid'.data) \in Nat, Len(grid.data) <= Len(grid'.data),
         items' = items \/ ~RowTaken(items')
  PROVE  AskedInv'
<1>1. 1 .. Len(grid.data) \subseteq 1 .. Len(grid'.data)
  OBVIOUS
<1>2. ASSUME pending # <<>>
      PROVE  items'[Head(pending).row] = Head(pending).record
  <2>1. Head(pending) = pending[1] /\ 1 \in DOMAIN pending
    BY <1>2 DEF AskedInv
  <2>2. CASE items' = items
    BY <1>2, <2>2 DEF AskedInv
  <2>3. CASE ~RowTaken(items')
    BY <2>1, <2>3 DEF RowTaken
  <2>. QED
    BY <2>2, <2>3
<1>. QED
  BY <1>1, <1>2 DEF AskedInv

\* The records of a grid where nothing is edited may be replaced by others.
LEMMA WithData ==
  ASSUME NEW g, Sound(g), g.active = None, NEW recs \in Seq(Engine)
  PROVE  LET new == [g EXCEPT !.data = recs]
         IN /\ Sound(new) /\ new.active = None /\ new.data = recs /\ Landed(new) = recs
            /\ Stopped(new) = new /\ StoppedByCancel(new) = new
<1> DEFINE new == [g EXCEPT !.data = recs]
<1>1. /\ g \in Grid /\ g = [data |-> g.data, ed |-> g.ed, active |-> g.active]
      /\ g.ed \in [Cols -> Editor]
  BY SoundIs, GridIs
<1>2. new = [data |-> recs, ed |-> g.ed, active |-> None]
  BY <1>1
<1>3. new \in Grid
  BY <1>1, <1>2 DEF Grid
<1>4. Sound(new)
  BY <1>2, <1>3 DEF Sound
<1>5. Stopped(new) = new /\ StoppedByCancel(new) = new
  BY <1>2, <1>4, EditEnds, DoneIs, CancelNone
<1>. QED
  BY <1>2, <1>4, <1>5 DEF Landed

\* When the edit is over and the user's records are the program's.
LEMMA Settled ==
  ASSUME SortInv', phase' # "loading",
         ~hurried' => /\ Sound(grid') /\ grid'.active = None /\ grid'.data = meant'
                      /\ items' \in Seq(1 .. Len(meant'))
                      /\ AskedInv'
                      /\ categs' \subseteq Nat
                      /\ categs' # {} => \A r \in 1 .. Len(meant') : meant'[r].categ \in categs'
  PROVE  EditorInv'
BY DEF EditorInv, LoadingInv, GridInv, CategInv, Landed

\* What the end of the edit makes of it.
LEMMA EndOfEdit ==
  ASSUME EditorInv, ~hurried
  PROVE  /\ Sound(Done(grid)) /\ Done(grid).active = None /\ Done(grid).data = meant
         /\ Done(Done(grid)) = Done(grid)
         /\ meant \in Seq(Engine) /\ Len(meant) = Len(grid.data) /\ Len(meant) \in Nat
         /\ \A r \in 1 .. Len(meant) : meant[r] \in Engine
         /\ items \in Seq(1 .. Len(meant))
         /\ Blurred(grid) = Done(grid) /\ Stopped(grid) = Done(grid)
         /\ Stopped(Done(grid)) = Done(grid) /\ StoppedByCancel(Done(grid)) = Done(grid)
         /\ categs \subseteq Nat
         /\ categs # {} => \A r \in 1 .. Len(meant) : meant[r].categ \in categs
<1>1. Sound(grid) /\ meant = Landed(grid) /\ items \in Seq(1 .. Len(grid.data))
  BY DEF EditorInv, GridInv
<1>2. /\ Sound(Done(grid)) /\ Done(grid).active = None /\ Done(grid).data = meant
      /\ Done(Done(grid)) = Done(grid)
  BY <1>1, DoneIs
<1>3. meant \in Seq(Engine) /\ Len(meant) = Len(grid.data)
  BY <1>1, LandedIs
<1>4. Len(meant) \in Nat /\ \A r \in 1 .. Len(meant) : meant[r] \in Engine
  BY <1>3, LenProperties
<1>5. Blurred(grid) = Done(grid) /\ Stopped(grid) = Done(grid)
  BY <1>1, EditEnds
<1>6. Stopped(Done(grid)) = Done(grid) /\ StoppedByCancel(Done(grid)) = Done(grid)
  BY <1>2, EditEnds, CancelNone
<1>7. /\ categs \subseteq Nat
      /\ categs # {} => \A r \in 1 .. Len(meant) : meant[r].categ \in categs
  BY <1>3 DEF EditorInv, CategInv
<1>. QED
  BY <1>1, <1>2, <1>3, <1>4, <1>5, <1>6, <1>7

LEMMA InitInv == EditorInit => EditorInv
<1> SUFFICES ASSUME EditorInit PROVE EditorInv
  OBVIOUS
<1> USE DEF EditorInit
<1>1. /\ <<>> \in Seq(Engine) /\ Len(<<>>) = 0
      /\ items \in Seq(1 .. Len(grid.data))
  BY EmptySeq
<1>2. Closed \in Editor /\ ~Closed.editing
  BY DEF Closed, Editor
<1>3. grid \in Grid
  BY <1>1, <1>2 DEF Grid
<1>4. Sound(grid) /\ Landed(grid) = <<>>
  BY <1>2, <1>3 DEF Sound, Landed, None, Cols
<1>5. GridInv
  BY <1>1, <1>4 DEF GridInv
<1>6. SortInv /\ LoadingInv /\ AskedInv /\ CategInv
  BY DEF SortInv, LoadingInv, AskedInv, CategInv, Cols
<1>. QED
  BY <1>5, <1>6 DEF EditorInv

\* The list: the stores are those of its loop.
LEMMA ListInv ==
  ASSUME EditorInv, NEW list \in Lists, generateAvailableEngineList(list)
  PROVE  EditorInv'
<1> DEFINE acc == Stores(list)
<1>1. /\ phase' = "shown" /\ grid' = [grid EXCEPT !.data = acc.data]
      /\ items' = acc.items /\ categs' = acc.categs /\ meant' = acc.data
      /\ sortInfo' = sortInfo /\ pending' = pending /\ hurried' = hurried
      /\ phase = "loading"
  BY DEF generateAvailableEngineList
<1>2. list \in Seq(Engine) /\ sortInfo.field \in Cols
  BY ListsAssumption DEF EditorInv, SortInv
<1>3. Filling(acc)
  BY <1>2, StoresFilled
<1>4. Sound(grid) /\ grid.active = None /\ pending = <<>>
  BY <1>1 DEF EditorInv, LoadingInv, GridInv
<1> HIDE DEF acc
<1>5. /\ acc.data \in Seq(Engine) /\ acc.items \in Seq(1 .. Len(acc.data))
      /\ acc.categs \subseteq Nat
      /\ \A r \in 1 .. Len(acc.data) : acc.data[r].categ \in acc.categs
  BY <1>3 DEF Filling
<1>6. Sound(grid') /\ grid'.active = None /\ grid'.data = meant'
  BY <1>1, <1>4, <1>5, WithData
<1>7. AskedInv' /\ SortInv' /\ phase' # "loading"
  BY <1>1, <1>2, <1>4 DEF AskedInv, SortInv
<1>. QED
  BY <1>1, <1>5, <1>6, <1>7, Settled

\* What changes the phase alone.
LEMMA PhaseInv ==
  ASSUME EditorInv, phase' # "loading",
         UNCHANGED <<grid, items, categs, sortInfo, pending, posted, meant, hurried>>
  PROVE  EditorInv'
BY DEF EditorInv, SortInv, LoadingInv, GridInv, AskedInv, CategInv

LEMMA StartEditInv ==
  ASSUME EditorInv, StartEdit
  PROVE  EditorInv'
<1> DEFINE p == Head(pending)
<1>1. /\ pending # <<>> /\ pending' = Tail(pending) /\ grid' = Started(grid, p)
      /\ UNCHANGED <<phase, items, categs, sortInfo, meant, hurried>>
  BY DEF StartEdit, history
<1>2. SortInv' /\ LoadingInv'
  BY <1>1 DEF EditorInv, SortInv, LoadingInv
<1>3. ASSUME ~hurried PROVE GridInv' /\ AskedInv' /\ CategInv'
  <2>1. /\ Sound(grid) /\ meant = Landed(grid) /\ items \in Seq(1 .. Len(grid.data))
        /\ AskedInv /\ CategInv
    BY <1>3 DEF EditorInv, GridInv
  <2>2. /\ pending = <<p>> /\ grid.active = None
        /\ p.col \in Cols /\ p.row \in Int /\ p.record \in 1 .. Len(grid.data)
        /\ items[p.row] = p.record
    BY <1>1, <2>1 DEF AskedInv
  <2> HIDE DEF p
  <2>3. pending' = <<>>
    BY <1>1, <2>2
  <2>4. meant = grid.data
    BY <2>1, <2>2 DEF Landed
  <2>5. Sound(grid') /\ grid'.data = grid.data /\ Landed(grid') = grid.data
    BY <1>1, <2>1, <2>2, StartedIs
  <2>. QED
    BY <1>1, <2>1, <2>3, <2>4, <2>5 DEF GridInv, AskedInv, CategInv
<1>. QED
  BY <1>1, <1>2, <1>3 DEF EditorInv
\* A cell is asked for when no editor is open.
LEMMA AskKept ==
  ASSUME AskedInv, ~hurried, ~hurried', NEW cells, Ask(cells),
         \A cell \in cells : cell[1] \in DOMAIN items /\ cell[2] \in Cols,
         items \in Seq(1 .. Len(grid'.data)), Len(grid'.data) = Len(grid.data),
         Len(grid.data) \in Nat, grid'.active = None, items' = items
  PROVE  AskedInv'
<1>1. CASE pending' = pending
  BY <1>1, AskedKept
<1>2. CASE pending' # pending
  <2>1. PICK cell \in cells :
          /\ pending' = Append(pending, [row |-> cell[1], col |-> cell[2],
                                         record |-> items[cell[1]]])
          /\ hurried' = (hurried \/ pending # <<>>)
    BY <1>2 DEF Ask
  <2> DEFINE p == [row |-> cell[1], col |-> cell[2], record |-> items[cell[1]]]
  <2>2. cell[1] \in 1 .. Len(items) /\ cell[2] \in Cols
    BY LenProperties
  <2>3. items[cell[1]] \in 1 .. Len(grid'.data) /\ cell[1] \in Int
    BY <2>2, ElementOfSeq
  <2>4. pending = <<>>
    BY <2>1
  <2>5. pending' = <<p>>
    BY <2>1, <2>4
  <2>6. Head(pending') = p
    BY <2>5
  <2>7. p.col = cell[2] /\ p.row = cell[1] /\ p.record = items[cell[1]]
    OBVIOUS
  <2> HIDE DEF p
  <2>. QED
    BY <2>2, <2>3, <2>5, <2>6, <2>7 DEF AskedInv
<1>. QED
  BY <1>1, <1>2

LEMMA ClickCellInv ==
  ASSUME EditorInv, NEW row, NEW c \in Cols, ClickCell(row, c)
  PROVE  EditorInv'
<1>1. /\ phase = "shown" /\ row \in DOMAIN items
      /\ grid' = Stopped(Blurred(grid)) /\ Ask({<<row, c>>})
      /\ UNCHANGED <<phase, items, categs, sortInfo, meant>>
  BY DEF ClickCell
<1>2. SortInv' /\ phase' # "loading"
  BY <1>1 DEF EditorInv, SortInv
<1>3. ASSUME ~hurried'
      PROVE  /\ Sound(grid') /\ grid'.active = None /\ grid'.data = meant'
             /\ items' \in Seq(1 .. Len(meant'))
             /\ AskedInv' /\ categs' \subseteq Nat
             /\ categs' # {} => \A r \in 1 .. Len(meant') : meant'[r].categ \in categs'
  <2>1. ~hurried
    BY <1>1, <1>3 DEF Ask
  <2>2. grid' = Done(grid)
    BY <1>1, <2>1, EndOfEdit
  <2>3. AskedInv
    BY <2>1 DEF EditorInv
  <2>4. \A cell \in {<<row, c>>} : cell[1] \in DOMAIN items /\ cell[2] \in Cols
    BY <1>1
  <2>5. /\ items \in Seq(1 .. Len(grid'.data)) /\ Len(grid'.data) = Len(grid.data)
        /\ Len(grid.data) \in Nat /\ grid'.active = None
    BY <2>1, <2>2, EndOfEdit
  <2>6. AskedInv'
    BY <1>1, <1>3, <2>1, <2>3, <2>4, <2>5, AskKept
  <2>. QED
    BY <1>1, <2>1, <2>2, <2>6, EndOfEdit
<1>. QED
  BY <1>2, <1>3, Settled

LEMMA EnterOrTabInv ==
  ASSUME EditorInv, EnterOrTab
  PROVE  EditorInv'
<1>1. PICK next \in Cells(grid.ed[grid.active].row, grid.active) :
        Ask({cell \in next : cell[1] \in DOMAIN items})
  BY DEF EnterOrTab
<1>2. /\ phase = "shown" /\ grid.active # None /\ grid' = Stopped(grid)
      /\ UNCHANGED <<phase, items, categs, sortInfo, meant>>
  BY DEF EnterOrTab
<1>3. SortInv' /\ phase' # "loading"
  BY <1>2 DEF EditorInv, SortInv
<1>4. ASSUME ~hurried'
      PROVE  /\ Sound(grid') /\ grid'.active = None /\ grid'.data = meant'
             /\ items' \in Seq(1 .. Len(meant'))
             /\ AskedInv' /\ categs' \subseteq Nat
             /\ categs' # {} => \A r \in 1 .. Len(meant') : meant'[r].categ \in categs'
  <2>1. ~hurried
    BY <1>1, <1>4 DEF Ask
  <2>2. grid' = Done(grid)
    BY <1>2, <2>1, EndOfEdit
  <2>3. AskedInv /\ grid.active \in Cols
    BY <1>2, <2>1, SoundIs DEF EditorInv, GridInv
  <2>4. \A cell \in {d \in next : d[1] \in DOMAIN items} :
          cell[1] \in DOMAIN items /\ cell[2] \in Cols
    <3>1. \A cell \in next : cell[2] \in Cols
      BY <1>1, <2>3 DEF Cells, Cols
    <3>. QED
      BY <3>1
  <2>5. /\ items \in Seq(1 .. Len(grid'.data)) /\ Len(grid'.data) = Len(grid.data)
        /\ Len(grid.data) \in Nat /\ grid'.active = None
    BY <2>1, <2>2, EndOfEdit
  <2>6. AskedInv'
    BY <1>1, <1>2, <1>4, <2>1, <2>3, <2>4, <2>5, AskKept
  <2>. QED
    BY <1>2, <2>1, <2>2, <2>6, EndOfEdit
<1>. QED
  BY <1>3, <1>4, Settled

\* The records with other boxes: their other fields are those they were.
LEMMA OtherBoxes ==
  ASSUME NEW e \in Engine, NEW s \in BOOLEAN
  PROVE  [e EXCEPT !.select = s] \in Engine /\ [e EXCEPT !.select = s].categ = e.categ
BY DEF Engine

LEMMA ClickBoxInv ==
  ASSUME EditorInv, NEW row, ClickBox(row)
  PROVE  EditorInv'
<1> DEFINE r == items[row]
           g == Blurred(grid)
           recs == [meant EXCEPT ![r].select = ~@]
<1>1. /\ phase = "shown" /\ row \in DOMAIN items
      /\ grid' = Stopped([g EXCEPT !.data[r].select = ~@])
      /\ meant' = recs
      /\ UNCHANGED <<phase, items, categs, sortInfo, pending, hurried>>
  BY DEF ClickBox
<1>2. SortInv' /\ phase' # "loading"
  BY <1>1 DEF EditorInv, SortInv
<1>3. ASSUME ~hurried'
      PROVE  /\ Sound(grid') /\ grid'.active = None /\ grid'.data = meant'
             /\ items' \in Seq(1 .. Len(meant'))
             /\ AskedInv' /\ categs' \subseteq Nat
             /\ categs' # {} => \A k \in 1 .. Len(meant') : meant'[k].categ \in categs'
  <2>1. ~hurried
    BY <1>1, <1>3
  <2>2. /\ g = Done(grid) /\ Sound(g) /\ g.active = None /\ g.data = meant
        /\ meant \in Seq(Engine) /\ Len(meant) \in Nat /\ Len(meant) = Len(grid.data)
        /\ \A k \in 1 .. Len(meant) : meant[k] \in Engine
        /\ items \in Seq(1 .. Len(meant))
        /\ categs \subseteq Nat
        /\ categs # {} => \A k \in 1 .. Len(meant) : meant[k].categ \in categs
    BY <2>1, EndOfEdit
  <2> HIDE DEF g
  <2>3. r \in 1 .. Len(meant)
    <3>1. DOMAIN items = 1 .. Len(items)
      BY <2>2, LenProperties
    <3>. QED
      BY <1>1, <2>2, <3>1, ElementOfSeq
  <2> HIDE DEF r
  <2> DEFINE e == [meant[r] EXCEPT !.select = ~@]
  <2>4. e \in Engine /\ e.categ = meant[r].categ
    <3>1. e = [meant[r] EXCEPT !.select = ~meant[r].select]
      OBVIOUS
    <3>2. (~meant[r].select) \in BOOLEAN
      OBVIOUS
    <3>. QED
      BY <2>2, <2>3, <3>1, <3>2, OtherBoxes
  <2> HIDE DEF e
  <2>5. recs = [meant EXCEPT ![r] = e]
    BY DEF e
  <2>6. /\ recs \in Seq(Engine) /\ Len(recs) = Len(meant)
        /\ \A k \in 1 .. Len(meant) : recs[k] = IF k = r THEN e ELSE meant[k]
    <3>1. /\ [meant EXCEPT ![r] = e] \in Seq(Engine)
          /\ Len([meant EXCEPT ![r] = e]) = Len(meant)
          /\ \A k \in 1 .. Len(meant) :
               [meant EXCEPT ![r] = e][k] = IF k = r THEN e ELSE meant[k]
      BY <2>2, <2>3, <2>4, ExceptSeq
    <3>. QED
      BY <2>5, <3>1
  <2>7. [g EXCEPT !.data[r].select = ~@] = [g EXCEPT !.data = recs]
    BY <2>2
  <2> HIDE DEF recs
  <2>8. Sound(grid') /\ grid'.active = None /\ grid'.data = recs
    <3>1. LET new == [g EXCEPT !.data = recs]
          IN Sound(new) /\ new.active = None /\ new.data = recs /\ Stopped(new) = new
      BY <2>2, <2>6, WithData
    <3>2. grid' = Stopped([g EXCEPT !.data = recs])
      BY <1>1, <2>7
    <3>. QED
      BY <3>1, <3>2
  <2>9. AskedInv'
    BY <1>1, <2>1, <2>2, <2>6, <2>8, AskedKept DEF EditorInv
  <2>10. categs # {} => \A k \in 1 .. Len(recs) : recs[k].categ \in categs
    BY <2>2, <2>3, <2>4, <2>6
  <2>. QED
    BY <1>1, <2>2, <2>6, <2>8, <2>9, <2>10
<1>. QED
  BY <1>2, <1>3, Settled
LEMMA SelectInv ==
  ASSUME EditorInv, NEW new \in Selections, Select(new)
  PROVE  EditorInv'
<1> DEFINE g == Blurred(grid)
           set(recs) == [r \in DOMAIN recs |-> IF r \in Range(items)
                           THEN [recs[r] EXCEPT !.select = new[@]] ELSE recs[r]]
           recs == set(meant)
<1>1. /\ phase = "shown"
      /\ grid' = StoppedByCancel([g EXCEPT !.data = set(g.data)])
      /\ meant' = recs
      /\ UNCHANGED <<phase, items, categs, sortInfo, pending, hurried>>
  BY DEF Select
<1>2. SortInv' /\ phase' # "loading"
  BY <1>1 DEF EditorInv, SortInv
<1>3. ASSUME ~hurried'
      PROVE  /\ Sound(grid') /\ grid'.active = None /\ grid'.data = meant'
             /\ items' \in Seq(1 .. Len(meant'))
             /\ AskedInv' /\ categs' \subseteq Nat
             /\ categs' # {} => \A k \in 1 .. Len(meant') : meant'[k].categ \in categs'
  <2>1. ~hurried
    BY <1>1, <1>3
  <2>2. /\ Sound(g) /\ g.active = None /\ g.data = meant
        /\ meant \in Seq(Engine) /\ Len(meant) \in Nat /\ Len(meant) = Len(grid.data)
        /\ \A k \in 1 .. Len(meant) : meant[k] \in Engine
        /\ items \in Seq(1 .. Len(meant))
        /\ categs \subseteq Nat
        /\ categs # {} => \A k \in 1 .. Len(meant) : meant[k].categ \in categs
    BY <2>1, EndOfEdit
  <2>3. \A s \in BOOLEAN : new[s] \in BOOLEAN
    BY DEF Selections
  <2>4. ASSUME NEW r \in 1 .. Len(meant)
        PROVE  /\ recs[r] \in Engine /\ recs[r].categ = meant[r].categ
    <3>1. recs[r] = IF r \in Range(items)
                    THEN [meant[r] EXCEPT !.select = new[meant[r].select]] ELSE meant[r]
      BY <2>2, LenProperties
    <3>2. meant[r] \in Engine /\ new[meant[r].select] \in BOOLEAN
      <4>1. meant[r].select \in BOOLEAN
        BY <2>2 DEF Engine
      <4>. QED
        BY <2>2, <2>3, <4>1
    <3>. QED
      BY <3>1, <3>2, OtherBoxes
  <2>5. DOMAIN recs = 1 .. Len(meant)
    BY <2>2, LenProperties
  <2>6. recs \in Seq(Engine) /\ Len(recs) = Len(meant)
    <3>1. recs = [r \in 1 .. Len(meant) |-> recs[r]]
      BY <2>2, LenProperties
    <3> HIDE DEF recs
    <3>2. recs \in [1 .. Len(meant) -> Engine]
      BY <2>4, <3>1
    <3>3. recs \in Seq(Engine)
      <4>1. recs \in UNION {[1 .. n -> Engine] : n \in Nat}
        BY <2>2, <3>2
      <4>. QED
        BY <4>1, SeqDef
    <3>4. DOMAIN recs = 1 .. Len(recs) /\ Len(recs) \in Nat
      BY <3>3, LenProperties
    <3>. QED
      BY <2>2, <2>5, <3>3, <3>4
  <2>7. set(g.data) = recs
    BY <2>2
  <2> HIDE DEF g, recs, set
  <2>8. Sound(grid') /\ grid'.active = None /\ grid'.data = recs
    <3>1. LET x == [g EXCEPT !.data = recs]
          IN Sound(x) /\ x.active = None /\ x.data = recs /\ StoppedByCancel(x) = x
      BY <2>2, <2>6, WithData
    <3>2. grid' = StoppedByCancel([g EXCEPT !.data = recs])
      BY <1>1, <2>7
    <3>. QED
      BY <3>1, <3>2
  <2>9. AskedInv'
    BY <1>1, <2>1, <2>2, <2>6, <2>8, AskedKept DEF EditorInv
  <2>10. categs # {} => \A k \in 1 .. Len(recs) : recs[k].categ \in categs
    BY <2>2, <2>4, <2>6
  <2>. QED
    BY <1>1, <2>2, <2>6, <2>8, <2>9, <2>10
<1>. QED
  BY <1>2, <1>3, Settled

\* The rows move, and stay the same.
LEMMA ClickHeaderInv ==
  ASSUME EditorInv, NEW field \in Cols, ClickHeader(field)
  PROVE  EditorInv'
<1>1. /\ phase = "shown" /\ grid' = StoppedByCancel(Blurred(grid))
      /\ sortInfo'.field = field /\ items' = Sorted(sortInfo', grid'.data, items)
      /\ hurried' = (hurried \/ RowTaken(items'))
      /\ UNCHANGED <<phase, categs, pending, meant>>
  BY DEF ClickHeader
<1>2. SortInv' /\ phase' # "loading"
  BY <1>1 DEF SortInv
<1>3. ASSUME ~hurried'
      PROVE  /\ Sound(grid') /\ grid'.active = None /\ grid'.data = meant'
             /\ items' \in Seq(1 .. Len(meant'))
             /\ AskedInv' /\ categs' \subseteq Nat
             /\ categs' # {} => \A k \in 1 .. Len(meant') : meant'[k].categ \in categs'
  <2>1. ~hurried /\ ~RowTaken(items')
    BY <1>1, <1>3
  <2>2. grid' = Done(grid)
    BY <1>1, <2>1, EndOfEdit
  <2>3. Sorted(sortInfo', meant, items) \in Seq(1 .. Len(meant))
    BY <1>1, <2>1, EndOfEdit, SortedKeeps
  <2>4. AskedInv'
    BY <1>1, <2>1, <2>2, EndOfEdit, AskedKept DEF EditorInv
  <2>. QED
    BY <1>1, <2>1, <2>2, <2>3, <2>4, EndOfEdit
<1>. QED
  BY <1>2, <1>3, Settled

\* A cancelled edit, whatever cancels it.
LEMMA CancelInv ==
  ASSUME EditorInv, phase = "shown", grid.active # None,
         grid' = Cancelled(grid, {grid.active}) \/ grid' = StoppedByCancel(grid),
         meant' = [meant EXCEPT ![grid.ed[grid.active].shown][grid.active] =
                                  grid.ed[grid.active].start],
         UNCHANGED <<phase, items, categs, sortInfo, pending, hurried>>
  PROVE  EditorInv'
<1>1. SortInv' /\ phase' # "loading"
  BY DEF EditorInv, SortInv
<1>2. ASSUME ~hurried'
      PROVE  /\ Sound(grid') /\ grid'.active = None /\ grid'.data = meant'
             /\ items' \in Seq(1 .. Len(meant'))
             /\ AskedInv' /\ categs' \subseteq Nat
             /\ categs' # {} => \A k \in 1 .. Len(meant') : meant'[k].categ \in categs'
  <2> DEFINE new == Cancelled(grid, {grid.active})
  <2>1. /\ ~hurried /\ Sound(grid) /\ meant = Landed(grid)
        /\ items \in Seq(1 .. Len(grid.data)) /\ AskedInv /\ CategInv
    BY <1>2 DEF EditorInv, GridInv
  <2>2. /\ Sound(new) /\ new.active = None /\ new.data = grid.data
        /\ meant' = grid.data
    BY <2>1, CancelIs
  <2>3. grid' = new
    <3>1. grid.active \in Cols
      BY <2>1, SoundIs
    <3>2. StoppedByCancel(grid) = [new EXCEPT !.active = None]
      <4>1. {grid.active} \cap Cols = {grid.active}
        BY <3>1
      <4>. QED
        BY <4>1 DEF StoppedByCancel
    <3> HIDE DEF new
    <3>3. [new EXCEPT !.active = None] = new
      BY <2>2, SoundIs, GridIs
    <3>. QED
      BY <3>2, <3>3 DEF new
  <2> HIDE DEF new
  <2>4. Len(grid.data) \in Nat
    BY <2>1, SoundIs, GridIs
  <2>5. AskedInv'
    BY <2>1, <2>2, <2>3, <2>4, AskedKept
  <2>. QED
    BY <2>1, <2>2, <2>3, <2>5 DEF CategInv
<1>. QED
  BY <1>1, <1>2, Settled

\* The first of the categories, when there is one.
LEMMA FirstCategoryIs ==
  ASSUME categs \subseteq Nat
  PROVE  FirstCategory \in Nat /\ (categs # {} => FirstCategory \in categs)
<1>1. CASE categs = {}
  BY <1>1 DEF FirstCategory
<1>2. CASE categs # {}
  <2>1. \E k \in categs : \A l \in categs : k <= l
    BY <1>2, Least
  <2>2. FirstCategory \in categs
    BY <1>2, <2>1 DEF FirstCategory
  <2>. QED
    BY <2>2
<1>. QED
  BY <1>1, <1>2

LEMMA AddEngineInv ==
  ASSUME EditorInv, AddEngine
  PROVE  EditorInv'
<1> DEFINE new == [select |-> TRUE, categ |-> FirstCategory, name |-> NewEngine,
                   version |-> 1]
           g == Stopped(Blurred(grid))
           n == Len(meant)
           recs == Append(meant, new)
<1>1. /\ phase = "shown" /\ grid' = [g EXCEPT !.data = Append(@, new)]
      /\ meant' = recs /\ items' = <<Len(grid'.data)>> \o items
      /\ hurried' = (hurried \/ RowTaken(items'))
      /\ UNCHANGED <<phase, categs, sortInfo, pending>>
  BY DEF AddEngine
<1>2. SortInv' /\ phase' # "loading"
  BY <1>1 DEF EditorInv, SortInv
<1>3. ASSUME ~hurried'
      PROVE  /\ Sound(grid') /\ grid'.active = None /\ grid'.data = meant'
             /\ items' \in Seq(1 .. Len(meant'))
             /\ AskedInv' /\ categs' \subseteq Nat
             /\ categs' # {} => \A k \in 1 .. Len(meant') : meant'[k].categ \in categs'
  <2>1. ~hurried /\ ~RowTaken(items')
    BY <1>1, <1>3
  <2>2. /\ Sound(g) /\ g.active = None /\ g.data = meant
        /\ meant \in Seq(Engine) /\ n \in Nat /\ n = Len(grid.data)
        /\ items \in Seq(1 .. n)
        /\ categs \subseteq Nat
        /\ categs # {} => \A k \in 1 .. n : meant[k].categ \in categs
    BY <2>1, EndOfEdit
  <2>3. new \in Engine /\ (categs # {} => new.categ \in categs)
    BY <2>2, FirstCategoryIs, NamesAssumption DEF Engine
  <2> HIDE DEF g, new
  <2>4. /\ recs \in Seq(Engine) /\ Len(recs) = n + 1
        /\ \A k \in 1 .. n : recs[k] = meant[k]
        /\ recs[n + 1] = new
    <3>1. meant \in Seq(Engine) /\ new \in Engine
      BY <2>2, <2>3
    <3>. QED
      BY <3>1, AppendProperties
  <2>5. grid' = [g EXCEPT !.data = recs]
    BY <1>1, <2>2
  <2> HIDE DEF recs
  <2>6. Sound(grid') /\ grid'.active = None /\ grid'.data = recs
    BY <2>2, <2>4, <2>5, WithData
  <2>7. items' \in Seq(1 .. n + 1)
    <3>1. 1 .. n \subseteq 1 .. n + 1 /\ n + 1 \in 1 .. n + 1
      BY <2>2
    <3>2. items \in Seq(1 .. n + 1) /\ <<n + 1>> \in Seq(1 .. n + 1)
      BY <2>2, <3>1, SeqMonotonic
    <3>3. items' = <<n + 1>> \o items
      BY <1>1, <2>4, <2>6
    <3>. QED
      BY <3>2, <3>3, ConcatProperties
  <2>8. AskedInv'
    BY <1>1, <2>1, <2>2, <2>4, <2>6, AskedKept DEF EditorInv
  <2>9. categs # {} => \A k \in 1 .. n + 1 : recs[k].categ \in categs
    <3>1. \A k \in 1 .. n + 1 : k \in 1 .. n \/ k = n + 1
      BY <2>2
    <3>. QED
      BY <2>2, <2>3, <2>4, <3>1
  <2>. QED
    BY <1>1, <2>2, <2>4, <2>6, <2>7, <2>8, <2>9
<1>. QED
  BY <1>2, <1>3, Settled
\* Typing changes the open editor, and what the user has made of its cell.
LEMMA TypeInv ==
  ASSUME EditorInv, NEW c \in Cols, NEW v \in Nat, Type(c, v),
         c = "categ" => v \in categs
  PROVE  EditorInv'
<1>1. /\ phase = "shown" /\ grid.ed[c].editing
      /\ grid' = [grid EXCEPT !.ed[c].value = v]
      /\ meant' = [meant EXCEPT ![grid.ed[c].shown][c] = v]
      /\ UNCHANGED <<phase, items, categs, sortInfo, pending, hurried>>
  BY DEF Type
<1>2. SortInv' /\ LoadingInv'
  BY <1>1 DEF EditorInv, SortInv, LoadingInv
<1>3. ASSUME ~hurried PROVE GridInv' /\ AskedInv' /\ CategInv'
  <2>1. /\ Sound(grid) /\ meant = Landed(grid) /\ items \in Seq(1 .. Len(grid.data))
        /\ AskedInv /\ CategInv
    BY <1>3 DEF EditorInv, GridInv
  <2>2. grid.active = c /\ grid.active # None
    BY <1>1, <2>1, SoundIs, GridIs DEF Sound
  <2>3. grid' = Put(grid, v)
    BY <1>1, <2>2 DEF Put
  <2>4. /\ Sound(grid') /\ grid'.active = c /\ grid'.data = grid.data
        /\ Landed(grid') = meant'
    <3>1. /\ Sound(Put(grid, v)) /\ Put(grid, v).active = grid.active
          /\ Put(grid, v).data = grid.data
          /\ Landed(Put(grid, v)) = [Landed(grid) EXCEPT
                                      ![grid.ed[grid.active].shown][grid.active] = v]
      BY <2>1, <2>2, PutIs
    <3>2. Landed(Put(grid, v)) = [meant EXCEPT ![grid.ed[c].shown][c] = v]
      BY <2>1, <2>2, <3>1
    <3>. QED
      BY <1>1, <2>2, <2>3, <3>1, <3>2
  <2>5. AskedInv'
    BY <1>1, <2>1, <2>2 DEF AskedInv
  <2>6. ASSUME categs # {}, NEW r \in 1 .. Len(grid.data)
        PROVE  meant'[r].categ \in categs
    <3>1. meant'[r]["categ"] = IF "categ" = c /\ r = grid'.ed["categ"].record
                               THEN grid'.ed["categ"].value ELSE grid.data[r]["categ"]
      BY <2>4, LandedIs
    <3>2. grid.data[r].categ \in categs
      BY <2>1, <2>6 DEF CategInv
    <3>3. c = "categ" => grid'.ed["categ"].value = v
      <4>1. grid.ed \in [Cols -> Editor] /\ grid \in Grid
        BY <2>1, SoundIs, GridIs
      <4>2. grid'.ed = [grid.ed EXCEPT ![c].value = v]
        BY <1>1, <4>1, GridIs
      <4>3. grid.ed[c] \in Editor
        BY <4>1
      <4>. QED
        BY <4>1, <4>2, <4>3 DEF Editor
    <3>. QED
      BY <3>1, <3>2, <3>3
  <2>. QED
    BY <1>1, <2>1, <2>4, <2>5, <2>6 DEF GridInv, CategInv
<1>. QED
  BY <1>1, <1>2, <1>3 DEF EditorInv

LEMMA SaveInv ==
  ASSUME EditorInv, generateOutput
  PROVE  EditorInv'
<1>1. /\ phase' = "saving" /\ grid' = Blurred(grid)
      /\ UNCHANGED <<items, categs, sortInfo, pending, meant, hurried>>
  BY DEF generateOutput, history
<1>2. SortInv' /\ phase' # "loading"
  BY <1>1 DEF EditorInv, SortInv
<1>3. ASSUME ~hurried'
      PROVE  /\ Sound(grid') /\ grid'.active = None /\ grid'.data = meant'
             /\ items' \in Seq(1 .. Len(meant'))
             /\ AskedInv' /\ categs' \subseteq Nat
             /\ categs' # {} => \A k \in 1 .. Len(meant') : meant'[k].categ \in categs'
  <2>1. ~hurried /\ grid' = Done(grid)
    BY <1>1, <1>3, EndOfEdit
  <2>2. AskedInv'
    BY <1>1, <2>1, EndOfEdit, AskedKept DEF EditorInv
  <2>. QED
    BY <1>1, <2>1, <2>2, EndOfEdit
<1>. QED
  BY <1>2, <1>3, Settled

\* Every step keeps it.
LEMMA NextInv == EditorInv /\ [EditorNext]_editorVars => EditorInv'
<1> SUFFICES ASSUME EditorInv, [EditorNext]_editorVars
             PROVE  EditorInv'
  OBVIOUS
<1>1. CASE \E list \in Lists : generateAvailableEngineList(list)
  BY <1>1, ListInv
<1>2. CASE LoadFails
  BY <1>2, PhaseInv DEF LoadFails, history
<1>3. CASE StartEdit
  BY <1>3, StartEditInv
<1>4. CASE \E row \in DOMAIN items : ClickBox(row) \/ \E c \in Cols : ClickCell(row, c)
  BY <1>4, ClickBoxInv, ClickCellInv
<1>5. CASE \E new \in Selections : Select(new)
  BY <1>5, SelectInv
<1>6. CASE \E field \in Cols : ClickHeader(field)
  BY <1>6, ClickHeaderInv
<1>7. CASE Scroll
  BY <1>7, CancelInv DEF Scroll
<1>8. CASE AddEngine
  BY <1>8, AddEngineInv
<1>9. CASE \E name \in Names : Type("name", name)
  <2>1. "name" \in Cols
    BY DEF Cols
  <2>. QED
    BY <1>9, <2>1, NamesAssumption, TypeInv
<1>10. CASE \E categ \in categs : Type("categ", categ)
  <2>1. PICK v \in categs : Type("categ", v)
    BY <1>10
  <2>2. CASE hurried
    <3>1. hurried' /\ sortInfo' = sortInfo /\ phase' = phase /\ phase = "shown"
      BY <2>1, <2>2 DEF Type
    <3>. QED
      BY <3>1 DEF EditorInv, SortInv, LoadingInv
  <2>3. CASE ~hurried
    <3>1. v \in Nat /\ "categ" \in Cols
      BY <2>3 DEF EditorInv, CategInv, Cols
    <3>. QED
      BY <2>1, <3>1, TypeInv
  <2>. QED
    BY <2>2, <2>3
<1>11. CASE EnterOrTab
  BY <1>11, EnterOrTabInv
<1>12. CASE Escape
  BY <1>12, CancelInv DEF Escape
<1>13. CASE generateOutput
  BY <1>13, SaveInv
<1>14. CASE Saved
  <2>1. phase' # "loading"
    BY <1>14 DEF Saved
  <2>. QED
    BY <1>14, <2>1, PhaseInv DEF Saved, history
<1>15. CASE Close
  BY <1>15, PhaseInv DEF Close, history
<1>16. CASE UNCHANGED editorVars
  BY <1>16 DEF editorVars, EditorInv, SortInv, LoadingInv, GridInv, AskedInv, CategInv
<1>. QED
  BY <1>1, <1>2, <1>3, <1>4, <1>5, <1>6, <1>7, <1>8, <1>9, <1>10, <1>11, <1>12,
     <1>13, <1>14, <1>15, <1>16 DEF EditorNext

\* The invariant holds for any lists, names and bounds.
THEOREM EditorInvariance == EditorSpec => []EditorInv
<1>1. EditorInit => EditorInv
  BY InitInv
<1>2. EditorInv /\ [EditorNext]_editorVars => EditorInv'
  BY NextInv
<1>. QED
  BY <1>1, <1>2, PTL DEF EditorSpec

-----------------------------------------------------------------------------
\* EditsLand: while editors are asked for one at a time and no row moves under the one
\* asked for, what the user has typed over every cell, and not given up by Escape or a
\* scroll, is in its record or will be put there by the open editor
\* (EditorGridPanel.startEditing, Editor.completeEdit in ext-all-debug.js).
THEOREM EveryEditLands == EditorSpec => []EditsLand
<1>1. EditorInv => EditsLand
  <2> SUFFICES ASSUME EditorInv, ~hurried, NEW r \in Range(items), NEW c \in Cols
               PROVE  \/ grid.data[r][c] = meant[r][c]
                      \/ /\ grid.ed[c].editing /\ grid.ed[c].listening /\ grid.active = c
                         /\ grid.ed[c].record = r /\ grid.ed[c].value = meant[r][c]
    BY DEF EditsLand
  <2>1. /\ Sound(grid) /\ meant = Landed(grid) /\ items \in Seq(1 .. Len(grid.data))
    BY DEF EditorInv, GridInv
  <2>2. r \in 1 .. Len(grid.data)
    BY <2>1, RangeOfSeq
  <2>3. c \in {"select", "categ", "name", "version"} /\ c # None
    BY DEF Cols, None
  <2>4. meant[r][c] = IF c = grid.active /\ r = grid.ed[c].record
                      THEN grid.ed[c].value ELSE grid.data[r][c]
    BY <2>1, <2>2, <2>3, LandedIs
  <2>5. grid.active = c => grid.ed[c].editing /\ grid.ed[c].listening
    BY <2>1, <2>3 DEF Sound
  <2>. QED
    BY <2>4, <2>5
<1>. QED
  BY <1>1, EditorInvariance, PTL

\* SavesWhatIsMeant: what "Save the modifications" sends are the engines selected, as
\* the user has made them, the open edit included (EditTree.generateOutput).
THEOREM SavesAsMeant == EditorSpec => SavesWhatIsMeant
<1> DEFINE Meant == {[record |-> r, name |-> meant[r].name, categ |-> meant[r].categ] :
                       r \in {k \in Range(items) : meant[k].select}}
           Saves == phase = "shown" /\ phase' = "saving" /\ categs # {} /\ ~hurried =>
                      posted' = Meant
<1>1. EditorInv /\ [EditorNext]_editorVars => [Saves]_editorVars
  <2> SUFFICES ASSUME EditorInv, EditorNext, phase = "shown", phase' = "saving",
                      categs # {}, ~hurried
               PROVE  posted' = Meant
    OBVIOUS
  <2>1. generateOutput
    BY DEF EditorNext, generateAvailableEngineList, LoadFails, StartEdit, ClickBox, ClickCell,
       Select, ClickHeader, Scroll, AddEngine, Type, EnterOrTab, Escape, Saved, Close
  <2>2. grid'.data = meant
    BY <2>1, EndOfEdit DEF generateOutput
  <2>3. posted' = {[record |-> r, name |-> meant[r].name, categ |-> meant[r].categ] :
                     r \in {k \in Range(items) : meant[k].select /\ meant[k].categ \in categs}}
    BY <2>1, <2>2 DEF generateOutput
  <2>4. \A k \in Range(items) : meant[k].categ \in categs
    <3>1. Range(items) \in SUBSET (1 .. Len(meant))
      BY EndOfEdit, RangeOfSeq
    <3>. QED
      BY <3>1, EndOfEdit
  <2>5. {k \in Range(items) : meant[k].select /\ meant[k].categ \in categs}
          = {k \in Range(items) : meant[k].select}
    BY <2>4
  <2>. QED
    BY <2>3, <2>5
<1>. QED
  BY <1>1, EditorInvariance, PTL DEF EditorSpec, SavesWhatIsMeant

\* OneRowPerEngine: the grid starts with one row for every engine that is listed, of
\* the lowest version (EditTree.generateAvailableEngineList).
THEOREM OneRowForEach == EditorSpec => OneRowPerEngine
<1> DEFINE OneRow == \A list \in Lists : generateAvailableEngineList(list) =>
                       /\ \A i, j \in DOMAIN items' :
                            grid'.data[items'[i]].name = grid'.data[items'[j]].name => i = j
                       /\ \A i \in DOMAIN list : \E r \in Range(items') :
                            /\ grid'.data[r].name = list[i].name
                            /\ grid'.data[r].version <= list[i].version
<1>1. EditorInv => OneRow
  <2> SUFFICES ASSUME EditorInv, NEW list \in Lists, generateAvailableEngineList(list)
               PROVE  /\ \A i, j \in DOMAIN items' :
                           grid'.data[items'[i]].name = grid'.data[items'[j]].name => i = j
                      /\ \A i \in DOMAIN list : \E r \in Range(items') :
                           /\ grid'.data[r].name = list[i].name
                           /\ grid'.data[r].version <= list[i].version
    OBVIOUS
  <2> DEFINE acc == Stores(list)
  <2>1. /\ phase = "loading" /\ grid' = [grid EXCEPT !.data = acc.data]
        /\ items' = acc.items
    BY DEF generateAvailableEngineList
  <2>2. list \in Seq(Engine) /\ sortInfo.field \in Cols
    BY ListsAssumption DEF EditorInv, SortInv
  <2>3. Filling(acc) /\ \A i \in 1 .. Len(list) : Covered(acc, list[i])
    BY <2>2, StoresFilled
  <2> HIDE DEF acc
  <2>4. grid'.data = acc.data
    <3>1. grid \in Grid
      BY <2>1, SoundIs DEF EditorInv, LoadingInv, GridInv
    <3>2. grid = [data |-> grid.data, ed |-> grid.ed, active |-> grid.active]
      BY <3>1, GridIs
    <3>. QED
      BY <2>1, <3>2
  <2>5. /\ DOMAIN acc.items = 1 .. Len(acc.items) /\ DOMAIN list = 1 .. Len(list)
        /\ Apart(acc.data, acc.items)
    BY <2>2, <2>3, LenProperties DEF Filling
  <2>6. \A i, j \in DOMAIN items' :
          grid'.data[items'[i]].name = grid'.data[items'[j]].name => i = j
    BY <2>1, <2>4, <2>5 DEF Apart
  <2>7. ASSUME NEW i \in DOMAIN list
        PROVE  \E r \in Range(items') : /\ grid'.data[r].name = list[i].name
                                        /\ grid'.data[r].version <= list[i].version
    <3>1. PICK k \in 1 .. Len(acc.items) : /\ acc.data[acc.items[k]].name = list[i].name
                                           /\ acc.data[acc.items[k]].version <= list[i].version
      BY <2>3, <2>5 DEF Covered
    <3>2. acc.items[k] \in Range(items')
      BY <2>1, <2>5 DEF Range
    <3>. QED
      BY <2>4, <3>1, <3>2
  <2>. QED
    BY <2>6, <2>7
<1>2. EditorInv => [OneRow]_editorVars
  BY <1>1
<1>. QED
  BY <1>2, EditorInvariance, PTL DEF OneRowPerEngine
=============================================================================
