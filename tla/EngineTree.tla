---------------------------- MODULE EngineTree ----------------------------
(***************************************************************************)
(* The tree of categories and engines in the web client: EngineTree.java,  *)
(* and the parts of Ext JS that carry it out (Ext.tree.TreeNode, its       *)
(* TreeNodeUI and the selection model's keys).                             *)
(*                                                                         *)
(* A category and its engines have check boxes that listeners keep in      *)
(* agreement.  But a node has no box before it has been rendered, the      *)
(* listener of an expansion runs when its animation is over, a box set by  *)
(* toggleCheck tells no listener, and a double click is such a change.     *)
(***************************************************************************)
CONSTANTS Categories, Engines, \* the nodes of the tree
          Parent               \* the category of each engine

ASSUME NodesAssumption == /\ Categories \cap Engines = {}
                          /\ Parent \in [Engines -> Categories]

VARIABLES box,              \* checkbox.checked of each node
          childrenRendered, \* of each category
          expanded,         \* of each category
          animating,        \* the animation in progress of each category
          loaded,           \* whether the nodes shown are those of getRootNode()
          wanted,           \* history: the engines the user has chosen, by a click
                            \* on a box, and not given up by another
          lost,             \* history: those of them that an expansion has unchecked
          inverted          \* history: the categories where a double click went
                            \* around the listeners, until they set every box again

vars == <<box, childrenRendered, expanded, animating, loaded, wanted, lost, inverted>>

Nodes == Categories \cup Engines
Children(c) == {e \in Engines : Parent[e] = c}
HasBox(n) == n \in Categories \/ childrenRendered[Parent[n]]
IsChecked(n) == HasBox(n) /\ box[n]

\* The engines a search started now is sent to.
getChecked == {e \in Engines : loaded /\ (IsChecked(e) \/ IsChecked(Parent[e]))}

\* A box can be clicked while its category is open, or still sliding shut.
Shown(e) == /\ childrenRendered[Parent[e]]
            /\ expanded[Parent[e]] \/ animating[Parent[e]] = "collapse"

Init == /\ box = [n \in Nodes |-> FALSE]
        /\ childrenRendered = [c \in Categories |-> FALSE]
        /\ expanded = [c \in Categories |-> FALSE]
        /\ animating = [c \in Categories |-> "none"]
        /\ loaded = TRUE
        /\ wanted = {}
        /\ lost = {}
        /\ inverted = {}

---------------------------------------------------------------------------
(* Boxes. *)

\* Every box among nodes ns that exists is set to v; no listener hears of it.
toggleCheck(ns, v) ==
    [n \in Nodes |-> IF n \in ns /\ HasBox(n) THEN v ELSE box[n]]

\* What the user says of engines es, seeing their boxes or their category's.
Choose(es, v) == /\ wanted' = IF v THEN wanted \cup es ELSE wanted \ es
                 /\ lost' = lost \ es

\* A click on the box of a category, and catListener.onCheckChanged.
CheckCategory(c) ==
    /\ box' = toggleCheck({c} \cup Children(c), ~box[c])
    /\ Choose(Children(c), ~box[c])
    /\ inverted' = inverted \ {c}
    /\ UNCHANGED <<childrenRendered, expanded, animating, loaded>>

\* Mutant: an engine that is unchecked leaves its category checked.
CheckEngineAlone(e) ==
    /\ Shown(e)
    /\ box' = [box EXCEPT ![e] = ~@]
    /\ Choose({e}, ~box[e])
    /\ UNCHANGED <<childrenRendered, expanded, animating, loaded, inverted>>

\* A click on the box of an engine, and engListener.onCheckChanged: the category
\* is unchecked with any engine of it, and checked with the last one.
CheckEngine(e) ==
    LET c == Parent[e]
        all == \A f \in Children(c) \ {e} : IsChecked(f)
    IN /\ Shown(e)
       /\ box' = [box EXCEPT ![e] = ~@, ![c] = ~box[e] /\ (@ \/ all)]
       /\ Choose({e}, ~box[e])
       /\ UNCHANGED <<childrenRendered, expanded, animating, loaded, inverted>>

---------------------------------------------------------------------------
(* Opening and closing a category. *)

\* Mutant: the children are not rendered by the first expansion.
ExpandUnrendered(c) ==
    /\ expanded' = [expanded EXCEPT ![c] = TRUE]
    /\ animating' = [animating EXCEPT ![c] = "expand"]
    /\ UNCHANGED childrenRendered

Expand(c) ==
    /\ childrenRendered' = [childrenRendered EXCEPT ![c] = TRUE]
    /\ expanded' = [expanded EXCEPT ![c] = TRUE]
    /\ animating' = [animating EXCEPT ![c] = "expand"]

Collapse(c) ==
    /\ expanded' = [expanded EXCEPT ![c] = FALSE]
    /\ animating' = [animating EXCEPT ![c] = "collapse"]
    /\ UNCHANGED childrenRendered

Toggle(c) == IF expanded[c] THEN Collapse(c) ELSE Expand(c)

\* Mutant: nobody listens to the end of an expansion.
OnExpandIgnored(c) == UNCHANGED <<box, lost, inverted>>

\* catListener.onExpand, at every expansion and not at the first only: an unchecked
\* category opened again unchecks those of its engines that the user had chosen.
OnExpand(c) ==
    /\ box' = toggleCheck(Children(c), box[c])
    /\ lost' = IF box[c] THEN lost \ Children(c)
                         ELSE lost \cup (Children(c) \cap wanted)
    /\ inverted' = IF box[c] /\ ~(Children(c) \subseteq wanted)
                   THEN inverted
                   ELSE inverted \ {c}

\* What follows an animation, at its end or when another one cuts it short.
AnimationCallback(c) ==
    /\ IF animating[c] = "expand" THEN OnExpand(c) ELSE UNCHANGED <<box, lost, inverted>>
    /\ UNCHANGED wanted

AnimationEnds(c) ==
    /\ animating[c] # "none"
    /\ animating' = [animating EXCEPT ![c] = "none"]
    /\ AnimationCallback(c)
    /\ UNCHANGED <<childrenRendered, expanded, loaded>>

\* A click on the plus or minus sign, which an animation makes dead.
IconClick(c) ==
    /\ animating[c] = "none" /\ Children(c) # {}
    /\ Toggle(c)
    /\ UNCHANGED <<box, loaded, wanted, lost, inverted>>

\* The right arrow key opens the selected category and the left one closes it;
\* the animation in progress is stopped, its callback first.
ArrowKey(c) ==
    /\ Children(c) # {}
    /\ AnimationCallback(c)
    /\ Toggle(c)
    /\ UNCHANGED loaded

---------------------------------------------------------------------------
(* A double click inverts a box, for no listener to hear, and opens or      *)
(* closes a category.                                                      *)

DoubleClickCategory(c) ==
    /\ box' = toggleCheck({c}, ~box[c])
    /\ Choose(Children(c), ~box[c])
    /\ inverted' = inverted \cup {c}
    /\ IF animating[c] = "none" /\ Children(c) # {}
       THEN Toggle(c)
       ELSE UNCHANGED <<childrenRendered, expanded, animating>>
    /\ UNCHANGED loaded

DoubleClickEngine(e) ==
    /\ Shown(e)
    /\ box' = toggleCheck({e}, ~box[e])
    /\ Choose({e}, ~box[e])
    /\ inverted' = inverted \cup {Parent[e]}
    /\ UNCHANGED <<childrenRendered, expanded, animating, loaded>>

---------------------------------------------------------------------------
(* Loading the tree, after a login or a change of the engines. *)

\* The answer to request_tree replaces every node.  Once an error has taken the
\* place of the root, new nodes are added to a root that is not on the screen.
generateEngineTree ==
    /\ loaded
    /\ box' = [n \in Nodes |-> FALSE]
    /\ childrenRendered' = [c \in Categories |-> FALSE]
    /\ expanded' = [c \in Categories |-> FALSE]
    /\ animating' = [c \in Categories |-> "none"]
    /\ wanted' = {}
    /\ lost' = {}
    /\ inverted' = {}
    /\ UNCHANGED loaded

\* setRootNode with an error message: what was shown stays, but is read no more.
displayError ==
    /\ loaded' = FALSE
    /\ UNCHANGED <<box, childrenRendered, expanded, animating, wanted, lost, inverted>>

Next == \/ \E c \in Categories : \/ CheckCategory(c)
                                 \/ AnimationEnds(c)
                                 \/ IconClick(c)
                                 \/ ArrowKey(c)
                                 \/ DoubleClickCategory(c)
        \/ \E e \in Engines : CheckEngine(e) \/ DoubleClickEngine(e)
        \/ generateEngineTree
        \/ displayError

Spec == Init /\ [][Next]_vars

---------------------------------------------------------------------------
(* Properties *)

\* The variables have their types; an open category has its boxes; an animation
\* goes the way the category has been told to.
TypeOK == /\ box \in [Nodes -> BOOLEAN]
          /\ childrenRendered \in [Categories -> BOOLEAN]
          /\ expanded \in [Categories -> BOOLEAN]
          /\ animating \in [Categories -> {"none", "expand", "collapse"}]
          /\ loaded \in BOOLEAN
          /\ wanted \subseteq Engines
          /\ lost \subseteq wanted
          /\ inverted \subseteq Categories
          /\ \A c \in Categories : /\ expanded[c] => childrenRendered[c]
                                   /\ animating[c] = "expand" => expanded[c]
                                   /\ animating[c] = "collapse" => ~expanded[c]

\* No search goes to an engine that the user has not chosen, by its box or by
\* its category's, or has given up since, however the clicks fall among the
\* expansions; unless a double click has gone around the listeners.
NothingUnwanted == \A e \in getChecked : Parent[e] \in inverted \/ e \in wanted

\* And a search goes to every engine chosen, closed categories included, in a tree
\* that has been loaded: what alone loses a choice is the expansion of a category
\* that is unchecked, because only some of its engines are chosen.  onExpand runs at
\* the end of each of them, so to close such a category and to open it again gives
\* up, visibly, what was chosen in it, as it does what is clicked while it slides.
ChosenIsAsked ==
    loaded => \A e \in wanted : \/ e \in getChecked
                                \/ e \in lost
                                \/ Parent[e] \in inverted
                                \/ animating[Parent[e]] = "expand"

\* The box of a category says whether all its engines are checked, once they have
\* boxes and are not sliding open.
CategoryMeansAll ==
    \A c \in Categories \ inverted :
        childrenRendered[c] /\ animating[c] # "expand" =>
            (IsChecked(c) <=> \A e \in Children(c) : IsChecked(e))
===========================================================================
