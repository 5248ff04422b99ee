---------------------------- MODULE PoolService ----------------------------
(***************************************************************************)
(* What a threadPool (src/tdcommon/threads/threadPool.h) promises to the   *)
(* thread that owns it, as its class comment says: the tasks given to it   *)
(* are all executed, never more than a given number of them at the same    *)
(* time, and joinAll returns when every one of them is over.               *)
(*                                                                         *)
(* ThreadPool is the detailed module; it implements this one.              *)
(***************************************************************************)
EXTENDS Integers, FiniteSets

CONSTANTS
  Task,        \* the tasks that may be given to the pool
  MaxThreads   \* how many may be executed at the same time

VARIABLES
  submitted,   \* the tasks given to the pool
  active,      \* the tasks that are being executed
  over,        \* the tasks whose execution has ended
  phase        \* of the owner: "submitting", then "joining", then "joined"

vars == <<submitted, active, over, phase>>

Init ==
  /\ submitted = {}
  /\ active = {}
  /\ over = {}
  /\ phase = "submitting"

Submit(t) ==
  /\ phase = "submitting"
  /\ t \notin submitted
  /\ submitted' = submitted \cup {t}
  /\ UNCHANGED <<active, over, phase>>

Join ==
  /\ phase = "submitting"
  /\ phase' = "joining"
  /\ UNCHANGED <<submitted, active, over>>

Start(t) ==
  /\ t \in submitted \ (active \cup over)
  /\ Cardinality(active) < MaxThreads
  /\ active' = active \cup {t}
  /\ UNCHANGED <<submitted, over, phase>>

Finish(t) ==
  /\ t \in active
  /\ active' = active \ {t}
  /\ over' = over \cup {t}
  /\ UNCHANGED <<submitted, phase>>

Return ==
  /\ phase = "joining"
  /\ submitted \subseteq over
  /\ phase' = "joined"
  /\ UNCHANGED <<submitted, active, over>>

Next ==
  \/ \E t \in Task : Submit(t) \/ Start(t) \/ Finish(t)
  \/ Join
  \/ Return

\* The pool serves every task it was given and lets its owner go; when the
\* owner submits and when it joins is the owner's choice.
Fairness ==
  /\ \A t \in Task : WF_vars(Start(t)) /\ WF_vars(Finish(t))
  /\ WF_vars(Return)

SafeSpec == Init /\ [][Next]_vars
Spec == SafeSpec /\ Fairness
=============================================================================
