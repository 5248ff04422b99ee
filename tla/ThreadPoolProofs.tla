-------------------------- MODULE ThreadPoolProofs --------------------------
(***************************************************************************)
(* Proofs about ThreadPool, for any finite set of tasks and any MaxThreads *)
(* (zero and negative values included, which atol may give).               *)
(***************************************************************************)
EXTENDS ThreadPool, FiniteSetTheorems, SequenceTheorems, TLAPS

-----------------------------------------------------------------------------
(***************************************************************************)
(* The inductive invariant.                                                *)
(***************************************************************************)

\* The mutex is held by the one thread that is in a critical section.
MutexInv == \A t \in Task : (mtex = t) <=>
                              st[t] \in {"merging", "inject", "pushed", "leaving"}

\* tpThreadList holds the tasks that have a thread, once each.
ListInv ==
  /\ \A i \in DOMAIN tpThreadList : st[tpThreadList[i]] \notin {"new", "waiting"}
  /\ \A t \in Task : st[t] \notin {"new", "waiting"} =>
       \E i \in DOMAIN tpThreadList : tpThreadList[i] = t
  /\ LaunchedOnce

Popping == \E t \in Task : st[t] = "pushed"

\* tpWaitingLine holds the waiting tasks, once each; while a thread is between
\* pthread_create and pop_front, the front of it already has a thread.
WaitInv ==
  /\ \A t \in Task : st[t] = "waiting" =>
       \E i \in DOMAIN tpWaitingLine : tpWaitingLine[i] = t
  /\ \A i \in DOMAIN tpWaitingLine :
       st[tpWaitingLine[i]] = "waiting" <=> ~(i = 1 /\ Popping)
  /\ \A i, j \in DOMAIN tpWaitingLine :
       tpWaitingLine[i] = tpWaitingLine[j] => i = j
  /\ Popping => tpWaitingLine # <<>>

\* The counter is exact and never above the maximum.
CountInv ==
  /\ SlotsCounted
  /\ tpNbThread = 0 \/ tpNbThread <= MaxThreads

\* What the owner knows inside joinAll: the line stays empty, and the threads
\* it has passed have exited.
JoinInv ==
  /\ owner \in {"join", "joined"} => tpWaitingLine = <<>>
  /\ owner = "join" => \A i \in DOMAIN tpThreadList :
                         i < joining => st[tpThreadList[i]] = "exited"
  /\ owner = "joined" => \A i \in DOMAIN tpThreadList :
                           st[tpThreadList[i]] = "exited"

IInv ==
  /\ TypeOK
  /\ MutexInv
  /\ ListInv
  /\ WaitInv
  /\ CountInv
  /\ NoIdleSlot
  /\ JoinInv

-----------------------------------------------------------------------------
(***************************************************************************)
(* Facts about the two lists.                                              *)
(***************************************************************************)

LEMMA Indexed ==
  ASSUME NEW s \in Seq(Task)
  PROVE  /\ Len(s) \in Nat
         /\ DOMAIN s = 1 .. Len(s)
         /\ \A i \in 1 .. Len(s) : s[i] \in Task
         /\ s # <<>> <=> Len(s) >= 1
BY LenProperties, ElementOfSeq

LEMMA PushedBack ==
  ASSUME NEW s \in Seq(Task), NEW t \in Task
  PROVE  /\ Append(s, t) \in Seq(Task)
         /\ DOMAIN Append(s, t) = 1 .. Len(s) + 1
         /\ \A i \in 1 .. Len(s) : Append(s, t)[i] = s[i]
         /\ Append(s, t)[Len(s) + 1] = t
BY AppendProperties, LenProperties

LEMMA PoppedFront ==
  ASSUME NEW s \in Seq(Task), s # <<>>
  PROVE  /\ Head(s) = s[1] /\ Head(s) \in Task
         /\ Tail(s) \in Seq(Task)
         /\ DOMAIN Tail(s) = 1 .. Len(s) - 1
         /\ \A i \in 1 .. Len(s) - 1 : Tail(s)[i] = s[i + 1]
BY HeadTailProperties, LenProperties

-----------------------------------------------------------------------------
(***************************************************************************)
(* Facts about the slots.                                                  *)
(***************************************************************************)

SlotState == {"ready", "running", "merging", "merged", "finished", "inject"}

LEMMA SlotsFinite ==
  /\ IsFiniteSet(Slots)
  /\ Cardinality(Slots) \in Nat
BY FS_Subset, FS_CardinalityType, TaskAssumption DEF Slots, In

\* A step that moves one thread between two states that both hold a slot, or
\* that both hold none, leaves the slots alone.
LEMMA SlotsKept ==
  ASSUME TypeOK, NEW t \in Task, NEW to,
         st' = [st EXCEPT ![t] = to],
         st[t] \in SlotState <=> to \in SlotState
  PROVE  Slots' = Slots
BY DEF Slots, In, TypeOK, SlotState

\* A step in which a thread takes a slot.
LEMMA SlotTaken ==
  ASSUME TypeOK, NEW t \in Task, NEW to \in SlotState,
         st' = [st EXCEPT ![t] = to],
         st[t] \notin SlotState
  PROVE  Cardinality(Slots') = Cardinality(Slots) + 1
<1>1. Slots' = Slots \cup {t} /\ t \notin Slots
  BY DEF Slots, In, TypeOK, SlotState
<1>. QED
  BY <1>1, SlotsFinite, FS_AddElement

\* A step in which a thread gives its slot back.
LEMMA SlotGiven ==
  ASSUME TypeOK, NEW t \in Task, NEW to,
         st' = [st EXCEPT ![t] = to],
         st[t] \in SlotState, to \notin SlotState
  PROVE  /\ Cardinality(Slots') = Cardinality(Slots) - 1
         /\ Cardinality(Slots) >= 1
<1>1. Slots' = Slots \ {t} /\ t \in Slots
  BY DEF Slots, In, TypeOK, SlotState
<1>2. Cardinality(Slots') = Cardinality(Slots) - 1
  BY <1>1, SlotsFinite, FS_RemoveElement
<1>3. Cardinality(Slots) # 0
  BY <1>1, SlotsFinite, FS_EmptySet
<1>. QED
  BY <1>2, <1>3, SlotsFinite

-----------------------------------------------------------------------------
(***************************************************************************)
(* Facts about the parts of the invariant that many steps share.           *)
(***************************************************************************)

\* push_back of a task that had no thread, which has one now.
LEMMA ListPushed ==
  ASSUME TypeOK, ListInv, NEW t \in Task,
         st[t] \in {"new", "waiting"}, st'[t] \notin {"new", "waiting"},
         \A u \in Task \ {t} :
           st'[u] \in {"new", "waiting"} <=> st[u] \in {"new", "waiting"},
         tpThreadList' = Append(tpThreadList, t)
  PROVE  ListInv'
<1>. DEFINE n == Len(tpThreadList)
<1>0. tpThreadList \in Seq(Task)
  BY DEF TypeOK
<1>1. /\ n \in Nat
      /\ DOMAIN tpThreadList = 1 .. n
      /\ DOMAIN tpThreadList' = 1 .. n + 1
      /\ \A i \in 1 .. n : tpThreadList'[i] = tpThreadList[i] /\ tpThreadList[i] \in Task
      /\ tpThreadList'[n + 1] = t
  BY <1>0, Indexed, PushedBack
<1>2. \A i \in 1 .. n : tpThreadList[i] # t
  BY <1>1 DEF ListInv
<1>3. \A i \in DOMAIN tpThreadList' : st'[tpThreadList'[i]] \notin {"new", "waiting"}
  BY <1>1, <1>2 DEF ListInv
<1>4. \A u \in Task : st'[u] \notin {"new", "waiting"} =>
        \E i \in DOMAIN tpThreadList' : tpThreadList'[i] = u
  <2>. SUFFICES ASSUME NEW u \in Task, st'[u] \notin {"new", "waiting"}
                PROVE  \E i \in DOMAIN tpThreadList' : tpThreadList'[i] = u
    OBVIOUS
  <2>1. CASE u = t
    BY <2>1, <1>1
  <2>2. CASE u # t
    BY <2>2, <1>1 DEF ListInv
  <2>. QED
    BY <2>1, <2>2
<1>5. LaunchedOnce'
  BY <1>1, <1>2 DEF ListInv, LaunchedOnce
<1>. QED
  BY <1>3, <1>4, <1>5 DEF ListInv

\* A step of a thread that touches neither list nor the counter, and goes
\* between two states that the rest of the invariant does not tell apart.
LEMMA QuietStep ==
  ASSUME IInv, NEW t \in Task, NEW to \in ThreadState,
         st' = [st EXCEPT ![t] = to],
         st[t] \in {"ready", "running", "merging", "merged", "finished", "leaving"},
         to \notin {"new", "waiting", "pushed"},
         st[t] \in SlotState <=> to \in SlotState,
         UNCHANGED <<tpThreadList, tpWaitingLine, tpNbThread, owner, joining>>
  PROVE  ListInv' /\ WaitInv' /\ CountInv' /\ NoIdleSlot' /\ JoinInv'
<1>. USE DEF IInv
<1>1. \A u \in Task : st'[u] = IF u = t THEN to ELSE st[u]
  BY DEF TypeOK
<1>2. /\ \A i \in DOMAIN tpThreadList : tpThreadList[i] \in Task
      /\ \A i \in DOMAIN tpWaitingLine : tpWaitingLine[i] \in Task
  <2>1. tpThreadList \in Seq(Task) /\ tpWaitingLine \in Seq(Task)
    BY DEF TypeOK
  <2>. QED
    BY <2>1, Indexed
<1>3. ListInv'
  BY <1>1, <1>2 DEF ListInv, LaunchedOnce
<1>4. Popping' <=> Popping
  BY <1>1 DEF Popping
<1>5. WaitInv'
  BY <1>1, <1>2, <1>4 DEF WaitInv
<1>6. CountInv'
  BY SlotsKept DEF CountInv, SlotsCounted
<1>7. NoIdleSlot'
  BY DEF NoIdleSlot
<1>8. JoinInv'
  BY <1>1, <1>2 DEF JoinInv
<1>. QED
  BY <1>3, <1>5, <1>6, <1>7, <1>8

-----------------------------------------------------------------------------
(***************************************************************************)
(* The steps of the owner.                                                 *)
(***************************************************************************)

LEMMA InitInv == Init => IInv
<1>. SUFFICES ASSUME Init PROVE IInv
  OBVIOUS
<1>. USE DEF Init
<1>1. TypeOK
  BY EmptySeq DEF TypeOK, ThreadState
<1>2. MutexInv
  BY TaskAssumption DEF MutexInv
<1>3. Slots = {}
  BY DEF Slots, In
<1>4. CountInv
  BY <1>3, FS_EmptySet DEF CountInv, SlotsCounted
<1>5. ListInv /\ WaitInv /\ JoinInv /\ NoIdleSlot
  BY DEF ListInv, LaunchedOnce, WaitInv, Popping, JoinInv, NoIdleSlot
<1>. QED
  BY <1>1, <1>2, <1>4, <1>5 DEF IInv

LEMMA createThreadInv ==
  ASSUME IInv, NEW t \in Task, createThread(t)
  PROVE  IInv'
<1>. USE DEF IInv, createThread
<1>0. ~Popping
  BY TaskAssumption DEF MutexInv, Popping
<1>1. CASE HasRoom
  <2>1. tpThreadList' \in Seq(Task)
    <3>1. tpThreadList' = Append(tpThreadList, t) /\ tpThreadList \in Seq(Task)
      BY <1>1 DEF TypeOK
    <3>. QED
      BY <3>1, PushedBack
  <2>2. /\ st' = [st EXCEPT ![t] = "ready"]
        /\ tpNbThread' = tpNbThread + 1
        /\ tpWaitingLine' = tpWaitingLine
        /\ UNCHANGED <<mtex, owner, joining>>
    BY <1>1
  <2>3. TypeOK'
    BY <2>1, <2>2 DEF TypeOK, ThreadState
  <2>4. MutexInv'
    BY <2>2 DEF MutexInv, TypeOK
  <2>5. ListInv'
    BY <1>1, <2>2, ListPushed DEF TypeOK
  <2>6. tpWaitingLine = <<>>
    BY <1>1, MaxThreadsAssumption DEF NoIdleSlot, HasRoom, TypeOK
  <2>7. WaitInv' /\ NoIdleSlot'
    BY <2>2, <2>6, <1>0 DEF WaitInv, NoIdleSlot, Popping, TypeOK
  <2>8. CountInv'
    <3>1. Cardinality(Slots') = Cardinality(Slots) + 1
      BY <2>2, SlotTaken DEF SlotState
    <3>. QED
      BY <3>1, <2>2, <1>1, MaxThreadsAssumption
      DEF CountInv, SlotsCounted, HasRoom, TypeOK
  <2>9. JoinInv'
    BY <2>2 DEF JoinInv
  <2>. QED
    BY <2>3, <2>4, <2>5, <2>7, <2>8, <2>9
<1>2. CASE ~HasRoom
  <2>. DEFINE n == Len(tpWaitingLine)
  <2>0. tpThreadList \in Seq(Task) /\ tpWaitingLine \in Seq(Task)
    BY DEF TypeOK
  <2>1. /\ n \in Nat
        /\ tpWaitingLine' \in Seq(Task)
        /\ DOMAIN tpWaitingLine = 1 .. n
        /\ DOMAIN tpWaitingLine' = 1 .. n + 1
        /\ \A i \in 1 .. n : tpWaitingLine'[i] = tpWaitingLine[i] /\ tpWaitingLine[i] \in Task
        /\ tpWaitingLine'[n + 1] = t
    <3>1. tpWaitingLine' = Append(tpWaitingLine, t)
      BY <1>2
    <3>. QED
      BY <2>0, <3>1, Indexed, PushedBack
  <2>2. /\ st' = [st EXCEPT ![t] = "waiting"]
        /\ UNCHANGED <<tpThreadList, tpNbThread, mtex, owner, joining>>
    BY <1>2
  <2>3. TypeOK'
    BY <2>1, <2>2 DEF TypeOK, ThreadState
  <2>4. MutexInv'
    BY <2>2 DEF MutexInv, TypeOK
  <2>5. ListInv'
    BY <2>2 DEF ListInv, LaunchedOnce, TypeOK
  <2>6. WaitInv'
    <3>1. \A u \in Task : st'[u] = IF u = t THEN "waiting" ELSE st[u]
      BY <2>2 DEF TypeOK
    <3>2. ~Popping'
      BY <3>1, <1>0 DEF Popping
    <3>3. \A i \in 1 .. n : tpWaitingLine[i] # t
      BY <2>1, <1>0 DEF WaitInv
    <3>4. \A u \in Task : st'[u] = "waiting" =>
            \E i \in DOMAIN tpWaitingLine' : tpWaitingLine'[i] = u
      <4>. SUFFICES ASSUME NEW u \in Task, st'[u] = "waiting"
                    PROVE  \E i \in DOMAIN tpWaitingLine' : tpWaitingLine'[i] = u
        OBVIOUS
      <4>1. CASE u = t
        BY <4>1, <2>1
      <4>2. CASE u # t
        BY <4>2, <2>1, <3>1 DEF WaitInv
      <4>. QED
        BY <4>1, <4>2
    <3>5. \A i \in DOMAIN tpWaitingLine' : st'[tpWaitingLine'[i]] = "waiting"
      BY <2>1, <3>1, <1>0 DEF WaitInv
    <3>6. \A i, j \in DOMAIN tpWaitingLine' :
            tpWaitingLine'[i] = tpWaitingLine'[j] => i = j
      BY <2>1, <3>3 DEF WaitInv
    <3>. QED
      BY <3>2, <3>4, <3>5, <3>6 DEF WaitInv
  <2>7. CountInv'
    BY <2>2, SlotsKept DEF CountInv, SlotsCounted, SlotState
  <2>8. NoIdleSlot'
    BY <2>2, <1>2, MaxThreadsAssumption DEF NoIdleSlot, HasRoom, TypeOK
  <2>9. JoinInv'
    BY <2>2 DEF JoinInv
  <2>. QED
    BY <2>3, <2>4, <2>5, <2>6, <2>7, <2>8, <2>9
<1>. QED
  BY <1>1, <1>2
\* The end of the spin: from here on the line is empty and nothing is passed.
LEMMA SpinEndsInv ==
  ASSUME IInv, SpinEnds
  PROVE  IInv'
<1>. USE DEF IInv, SpinEnds, NobodyWaits
<1>1. TypeOK'
  BY DEF TypeOK
<1>2. MutexInv' /\ ListInv' /\ WaitInv' /\ NoIdleSlot'
  BY DEF MutexInv, ListInv, LaunchedOnce, WaitInv, Popping, NoIdleSlot
<1>3. CountInv'
  BY DEF CountInv, SlotsCounted, Slots, In
<1>4. JoinInv'
  <2>1. tpThreadList \in Seq(Task) /\ DOMAIN tpThreadList \subseteq Nat \ {0}
    BY Indexed DEF TypeOK
  <2>. QED
    BY <2>1 DEF JoinInv
<1>. QED
  BY <1>1, <1>2, <1>3, <1>4

LEMMA CallJoinAllInv ==
  ASSUME IInv, CallJoinAll
  PROVE  IInv'
BY DEF IInv, CallJoinAll, TypeOK, MutexInv, ListInv, LaunchedOnce, WaitInv,
       Popping, CountInv, SlotsCounted, Slots, In, NoIdleSlot, JoinInv

LEMMA JoinOneInv ==
  ASSUME IInv, JoinOne
  PROVE  IInv'
<1>. USE DEF IInv, JoinOne, HasExited
<1>1. TypeOK'
  BY DEF TypeOK
<1>2. MutexInv' /\ ListInv' /\ WaitInv' /\ NoIdleSlot'
  BY DEF MutexInv, ListInv, LaunchedOnce, WaitInv, Popping, NoIdleSlot
<1>3. CountInv'
  BY DEF CountInv, SlotsCounted, Slots, In
<1>4. JoinInv'
  <2>1. DOMAIN tpThreadList = 1 .. Len(tpThreadList) /\ Len(tpThreadList) \in Nat
    BY Indexed DEF TypeOK
  <2>. QED
    BY <2>1 DEF JoinInv, TypeOK
<1>. QED
  BY <1>1, <1>2, <1>3, <1>4

\* When joinAll is through, no thread holds a slot, and the 0 it assigns is the
\* value the counter has already.
LEMMA AllThrough ==
  ASSUME IInv, owner = "join", joining > Len(tpThreadList)
  PROVE  /\ \A i \in DOMAIN tpThreadList : st[tpThreadList[i]] = "exited"
         /\ Slots = {}
         /\ tpNbThread = 0
<1>. USE DEF IInv
<1>1. /\ DOMAIN tpThreadList = 1 .. Len(tpThreadList)
      /\ Len(tpThreadList) \in Nat
      /\ joining \in Nat
  BY Indexed DEF TypeOK
<1>2. \A i \in DOMAIN tpThreadList : st[tpThreadList[i]] = "exited"
  BY <1>1 DEF JoinInv
<1>3. Slots = {}
  BY <1>2 DEF Slots, In, ListInv
<1>4. tpNbThread = 0
  BY <1>3, FS_EmptySet DEF CountInv, SlotsCounted
<1>. QED
  BY <1>2, <1>3, <1>4

LEMMA JoinAllReturnsInv ==
  ASSUME IInv, JoinAllReturns
  PROVE  IInv'
<1>. USE DEF IInv, JoinAllReturns
<1>1. /\ \A i \in DOMAIN tpThreadList : st[tpThreadList[i]] = "exited"
      /\ tpNbThread = 0
  BY AllThrough
<1>2. TypeOK'
  BY DEF TypeOK
<1>3. MutexInv' /\ ListInv' /\ WaitInv'
  BY DEF MutexInv, ListInv, LaunchedOnce, WaitInv, Popping
<1>4. CountInv' /\ NoIdleSlot'
  BY <1>1 DEF CountInv, SlotsCounted, Slots, In, NoIdleSlot
<1>5. JoinInv'
  BY <1>1 DEF JoinInv
<1>. QED
  BY <1>2, <1>3, <1>4, <1>5

-----------------------------------------------------------------------------
(***************************************************************************)
(* The steps of the threads.                                               *)
(***************************************************************************)

\* The steps that change neither list nor the counter.
LEMMA QuietInv ==
  ASSUME IInv, NEW t \in Task,
         Start(t) \/ lock(t) \/ unlock(t) \/ Finish(t) \/ InjectLock(t) \/ InjectUnlock(t)
  PROVE  IInv'
<1>. USE DEF IInv
<1>1. CASE Start(t)
  <2>. USE <1>1 DEF Start, Move
  <2>1. TypeOK' /\ MutexInv'
    BY DEF TypeOK, ThreadState, MutexInv
  <2>. QED
    BY <2>1, QuietStep DEF ThreadState, SlotState
<1>2. CASE lock(t)
  <2>. USE <1>2 DEF lock, Move
  <2>1. TypeOK' /\ MutexInv'
    BY TaskAssumption DEF TypeOK, ThreadState, MutexInv
  <2>. QED
    BY <2>1, QuietStep DEF ThreadState, SlotState
<1>3. CASE unlock(t)
  <2>. USE <1>3 DEF unlock, Move
  <2>1. TypeOK' /\ MutexInv'
    BY TaskAssumption DEF TypeOK, ThreadState, MutexInv
  <2>. QED
    BY <2>1, QuietStep DEF ThreadState, SlotState
<1>4. CASE Finish(t)
  <2>. USE <1>4 DEF Finish, Move
  <2>1. TypeOK' /\ MutexInv'
    BY DEF TypeOK, ThreadState, MutexInv
  <2>. QED
    BY <2>1, QuietStep DEF ThreadState, SlotState
<1>5. CASE InjectLock(t)
  <2>. USE <1>5 DEF InjectLock, Move
  <2>1. TypeOK' /\ MutexInv'
    BY TaskAssumption DEF TypeOK, ThreadState, MutexInv
  <2>. QED
    BY <2>1, QuietStep DEF ThreadState, SlotState
<1>6. CASE InjectUnlock(t)
  <2>. USE <1>6 DEF InjectUnlock, Move
  <2>1. TypeOK' /\ MutexInv'
    BY TaskAssumption DEF TypeOK, ThreadState, MutexInv
  <2>. QED
    BY <2>1, QuietStep DEF ThreadState, SlotState
<1>. QED
  BY <1>1, <1>2, <1>3, <1>4, <1>5, <1>6

LEMMA InjectNoneInv ==
  ASSUME IInv, NEW t \in Task, InjectNone(t)
  PROVE  IInv'
<1>. USE DEF IInv, InjectNone, NobodyWaits, Move
<1>0. /\ \A u \in Task : st'[u] = IF u = t THEN "leaving" ELSE st[u]
      /\ \A i \in DOMAIN tpThreadList : tpThreadList[i] \in Task
  BY Indexed DEF TypeOK
<1>1. /\ Cardinality(Slots') = Cardinality(Slots) - 1
      /\ Cardinality(Slots) >= 1
  BY SlotGiven DEF SlotState
<1>2. TypeOK'
  BY <1>1 DEF TypeOK, ThreadState, CountInv, SlotsCounted
<1>3. MutexInv'
  BY DEF MutexInv, TypeOK
<1>4. ListInv'
  BY <1>0 DEF ListInv, LaunchedOnce
<1>5. WaitInv' /\ NoIdleSlot'
  BY <1>0 DEF WaitInv, Popping, NoIdleSlot
<1>6. CountInv'
  BY <1>1, MaxThreadsAssumption DEF CountInv, SlotsCounted, TypeOK
<1>7. JoinInv'
  BY <1>0 DEF JoinInv
<1>. QED
  BY <1>2, <1>3, <1>4, <1>5, <1>6, <1>7

\* The successor takes over the slot of the thread that creates it.
LEMMA InjectPushInv ==
  ASSUME IInv, NEW t \in Task, InjectPush(t)
  PROVE  IInv'
<1>. USE DEF IInv
<1>. PICK h \in Task : h = Head(tpWaitingLine)
  BY PoppedFront DEF InjectPush, NobodyWaits, TypeOK
<1>0. /\ tpWaitingLine \in Seq(Task) /\ tpThreadList \in Seq(Task)
      /\ h = tpWaitingLine[1]
      /\ DOMAIN tpWaitingLine = 1 .. Len(tpWaitingLine)
      /\ Len(tpWaitingLine) \in Nat /\ Len(tpWaitingLine) >= 1
      /\ \A i \in 1 .. Len(tpWaitingLine) : tpWaitingLine[i] \in Task
  <2>1. tpWaitingLine \in Seq(Task) /\ tpThreadList \in Seq(Task)
    BY DEF TypeOK
  <2>. QED
    BY <2>1, Indexed, PoppedFront DEF InjectPush, NobodyWaits
<1>1. ~Popping /\ mtex = t
  BY DEF InjectPush, NobodyWaits, MutexInv, Popping
<1>2. st[h] = "waiting" /\ h # t
  <2>1. 1 \in DOMAIN tpWaitingLine
    BY <1>0
  <2>2. st[tpWaitingLine[1]] = "waiting"
    BY <1>1, <2>1 DEF WaitInv
  <2>. QED
    BY <1>0, <2>2 DEF InjectPush, NobodyWaits
<1>3. /\ st'[h] = "ready"
      /\ st'[t] = "pushed"
      /\ \A u \in Task : u # h /\ u # t => st'[u] = st[u]
      /\ st[t] = "inject"
      /\ mtex' = mtex
  BY <1>0, <1>2 DEF TypeOK, InjectPush
<1>4. TypeOK'
  <2>1. tpThreadList' \in Seq(Task)
    BY <1>0, PushedBack DEF InjectPush, NobodyWaits
  <2>2. st' \in [Task -> ThreadState]
    BY <1>0 DEF TypeOK, ThreadState, InjectPush
  <2>. QED
    BY <2>1, <2>2 DEF TypeOK, InjectPush
<1>5. MutexInv'
  BY <1>1, <1>2, <1>3 DEF MutexInv
<1>6. ListInv'
  <2>1. /\ st[h] \in {"new", "waiting"}
        /\ st'[h] \notin {"new", "waiting"}
        /\ \A u \in Task \ {h} :
             st'[u] \in {"new", "waiting"} <=> st[u] \in {"new", "waiting"}
    BY <1>0, <1>2, <1>3
  <2>. QED
    BY <1>0, <2>1, ListPushed DEF InjectPush, NobodyWaits
<1>7. WaitInv'
  <2>1. Popping'
    BY <1>2, <1>3 DEF Popping
  <2>2. \A i \in DOMAIN tpWaitingLine : i # 1 => tpWaitingLine[i] # h
    BY <1>0 DEF WaitInv
  <2>3. \A i \in DOMAIN tpWaitingLine : st'[tpWaitingLine[i]] = "waiting" <=> i # 1
    BY <1>0, <1>1, <1>3, <2>2 DEF WaitInv
  <2>4. \A u \in Task : st'[u] = "waiting" => st[u] = "waiting"
    BY <1>3
  <2>. QED
    BY <2>1, <2>3, <2>4 DEF WaitInv, InjectPush, NobodyWaits
<1>8. CountInv'
  <2>1. Slots' = (Slots \ {t}) \cup {h} /\ t \in Slots /\ h \notin Slots
    BY <1>0, <1>2, <1>3 DEF Slots, In
  <2>2. IsFiniteSet(Slots \ {t}) /\ Cardinality(Slots \ {t}) = Cardinality(Slots) - 1
    BY <2>1, SlotsFinite, FS_RemoveElement
  <2>3. Cardinality((Slots \ {t}) \cup {h}) = Cardinality(Slots \ {t}) + 1
    BY <2>1, <2>2, FS_AddElement
  <2>4. Cardinality(Slots') = Cardinality(Slots)
    BY <2>1, <2>2, <2>3, SlotsFinite
  <2>. QED
    BY <2>4 DEF CountInv, SlotsCounted, InjectPush
<1>9. NoIdleSlot'
  BY DEF NoIdleSlot, InjectPush
<1>10. JoinInv'
  BY DEF JoinInv, InjectPush, NobodyWaits
<1>. QED
  BY <1>4, <1>5, <1>6, <1>7, <1>8, <1>9, <1>10

LEMMA InjectPopInv ==
  ASSUME IInv, NEW t \in Task, InjectPop(t)
  PROVE  IInv'
<1>. USE DEF IInv, InjectPop, Move
<1>. DEFINE n == Len(tpWaitingLine)
<1>0. /\ Popping
      /\ tpWaitingLine # <<>>
      /\ \A i \in DOMAIN tpThreadList : tpThreadList[i] \in Task
  BY Indexed DEF WaitInv, Popping, TypeOK
<1>1. /\ tpWaitingLine' \in Seq(Task)
      /\ n \in Nat
      /\ DOMAIN tpWaitingLine = 1 .. n
      /\ DOMAIN tpWaitingLine' = 1 .. n - 1
      /\ \A i \in 1 .. n : tpWaitingLine[i] \in Task
      /\ \A i \in 1 .. n - 1 : tpWaitingLine'[i] = tpWaitingLine[i + 1]
  <2>1. tpWaitingLine \in Seq(Task)
    BY DEF TypeOK
  <2>. QED
    BY <1>0, <2>1, Indexed, PoppedFront
<1>2. \A u \in Task : st'[u] = IF u = t THEN "leaving" ELSE st[u]
  BY DEF TypeOK
<1>3. TypeOK'
  BY <1>1 DEF TypeOK, ThreadState
<1>4. MutexInv'
  BY <1>2 DEF MutexInv
<1>5. ListInv'
  BY <1>0, <1>2 DEF ListInv, LaunchedOnce
<1>6. WaitInv'
  <2>1. ~Popping'
    BY <1>2 DEF Popping, MutexInv
  <2>2. \A u \in Task : st'[u] = "waiting" =>
          \E i \in DOMAIN tpWaitingLine' : tpWaitingLine'[i] = u
    <3>. SUFFICES ASSUME NEW u \in Task, st'[u] = "waiting"
                  PROVE  \E i \in DOMAIN tpWaitingLine' : tpWaitingLine'[i] = u
      OBVIOUS
    <3>1. PICK i \in 1 .. n : tpWaitingLine[i] = u
      BY <1>1, <1>2 DEF WaitInv
    <3>2. i # 1
      BY <1>0, <1>1, <1>2, <3>1 DEF WaitInv
    <3>3. i - 1 \in 1 .. n - 1 /\ (i - 1) + 1 = i
      BY <1>1, <3>2
    <3>4. tpWaitingLine'[i - 1] = u
      BY <1>1, <3>1, <3>3
    <3>. QED
      BY <1>1, <3>3, <3>4
  <2>3. \A i \in DOMAIN tpWaitingLine' : st'[tpWaitingLine'[i]] = "waiting"
    <3>1. \A i \in 1 .. n - 1 : st[tpWaitingLine[i + 1]] = "waiting"
      BY <1>1 DEF WaitInv
    <3>. QED
      BY <1>1, <1>2, <3>1
  <2>4. \A i, j \in DOMAIN tpWaitingLine' :
          tpWaitingLine'[i] = tpWaitingLine'[j] => i = j
    BY <1>1 DEF WaitInv
  <2>. QED
    BY <2>1, <2>2, <2>3, <2>4 DEF WaitInv
<1>7. CountInv'
  BY SlotsKept DEF CountInv, SlotsCounted, SlotState
<1>8. NoIdleSlot'
  BY <1>0 DEF NoIdleSlot
<1>9. JoinInv'
  BY <1>0, <1>2 DEF JoinInv
<1>. QED
  BY <1>3, <1>4, <1>5, <1>6, <1>7, <1>8, <1>9

LEMMA NextInv == IInv /\ [Next]_vars => IInv'
<1>. SUFFICES ASSUME IInv, [Next]_vars PROVE IInv'
  OBVIOUS
<1>1. CASE UNCHANGED vars
  BY <1>1 DEF vars, IInv, TypeOK, MutexInv, ListInv, LaunchedOnce, WaitInv,
              Popping, CountInv, SlotsCounted, Slots, In, NoIdleSlot, JoinInv
<1>2. ASSUME NEW t \in Task, createThread(t) \/ Thread(t) PROVE IInv'
  BY <1>2, createThreadInv, QuietInv, InjectPushInv, InjectPopInv, InjectNoneInv
  DEF Thread
<1>3. CASE CallJoinAll \/ JoinAll
  BY <1>3, CallJoinAllInv, SpinEndsInv, JoinOneInv, JoinAllReturnsInv DEF JoinAll
<1>. QED
  BY <1>1, <1>2, <1>3 DEF Next

\* The inductive invariant holds in every reachable state.
THEOREM Invariance == SafeSpec => []IInv
BY InitInv, NextInv, PTL DEF SafeSpec
-----------------------------------------------------------------------------
(***************************************************************************)
(* What follows from it.                                                   *)
(***************************************************************************)

\* Type correctness; in particular tpNbThread never goes below zero.
THEOREM TypeCorrect == SafeSpec => []TypeOK
BY Invariance, PTL DEF IInv

\* Every task that runs holds a slot.
LEMMA RunningHoldSlots ==
  ASSUME IInv
  PROVE  /\ IsFiniteSet(Running)
         /\ Cardinality(Running) \in Nat
         /\ Cardinality(Running) <= tpNbThread
<1>1. Running \subseteq Slots
  BY DEF Running, Slots, In
<1>. QED
  BY <1>1, SlotsFinite, FS_Subset, FS_CardinalityType DEF IInv, CountInv, SlotsCounted

\* At most MaxThreads tasks are executed at the same time.
THEOREM PoolBounded == SafeSpec => []Bounded
<1>1. IInv => Bounded
  <2>. SUFFICES ASSUME IInv, Running # {} PROVE Cardinality(Running) <= MaxThreads
    BY DEF Bounded
  <2>1. Cardinality(Running) # 0
    BY RunningHoldSlots, FS_EmptySet
  <2>. QED
    BY <2>1, RunningHoldSlots, MaxThreadsAssumption DEF IInv, CountInv, TypeOK
<1>. QED
  BY <1>1, Invariance, PTL

\* No slot is left empty behind a waiting task.
THEOREM PoolNoIdleSlot == SafeSpec => []NoIdleSlot
BY Invariance, PTL DEF IInv

\* No task has two threads.
THEOREM PoolLaunchedOnce == SafeSpec => []LaunchedOnce
<1>1. IInv => LaunchedOnce
  BY DEF IInv, ListInv
<1>. QED
  BY <1>1, Invariance, PTL

\* tpNbThread is exact.
THEOREM PoolSlotsCounted == SafeSpec => []SlotsCounted
<1>1. IInv => SlotsCounted
  BY DEF IInv, CountInv
<1>. QED
  BY <1>1, Invariance, PTL

\* Nobody pushes into the list that joinAll goes through.
THEOREM PoolListStable == SafeSpec => ListStableWhileJoining
<1>1. ASSUME IInv, [Next]_vars
      PROVE  [owner = "join" => tpThreadList' = tpThreadList]_vars
  <2>1. CASE UNCHANGED vars
    BY <2>1
  <2>2. ASSUME NEW t \in Task, createThread(t)
        PROVE  owner = "join" => tpThreadList' = tpThreadList
    BY <2>2 DEF createThread
  <2>3. ASSUME NEW t \in Task, Thread(t), owner = "join"
        PROVE  tpThreadList' = tpThreadList
    <3>1. tpWaitingLine = <<>>
      BY <2>3, <1>1 DEF IInv, JoinInv
    <3>. QED
      BY <2>3, <3>1
      DEF Thread, Start, lock, unlock, Finish, InjectLock, InjectPush, InjectPop,
          InjectNone, InjectUnlock, NobodyWaits, Move
  <2>4. CASE CallJoinAll \/ JoinAll
    BY <2>4 DEF CallJoinAll, JoinAll, SpinEnds, JoinOne, JoinAllReturns
  <2>. QED
    BY <1>1, <2>1, <2>2, <2>3, <2>4 DEF Next
<1>. QED
  BY <1>1, Invariance, PTL DEF SafeSpec, ListStableWhileJoining

\* A submitted task is in one of the two lists.
LEMMA JoinedAllExited ==
  ASSUME IInv, owner = "joined" \/ (owner = "join" /\ joining > Len(tpThreadList))
  PROVE  \A t \in Task : st[t] \in {"new", "exited"}
<1>1. tpWaitingLine = <<>>
  BY DEF IInv, JoinInv
<1>2. \A i \in DOMAIN tpThreadList : st[tpThreadList[i]] = "exited"
  BY AllThrough DEF IInv, JoinInv
<1>3. ASSUME NEW t \in Task, st[t] # "new" PROVE st[t] = "exited"
  <2>1. st[t] # "waiting"
    BY <1>1 DEF IInv, WaitInv
  <2>2. PICK i \in DOMAIN tpThreadList : tpThreadList[i] = t
    BY <1>3, <2>1 DEF IInv, ListInv
  <2>. QED
    BY <1>2, <2>2
<1>. QED
  BY <1>3

\* When joinAll returns, every thread of the pool has exited.
THEOREM PoolJoined == SafeSpec => []JoinedMeansExited
<1>1. IInv => JoinedMeansExited
  BY JoinedAllExited DEF JoinedMeansExited, Submitted, In
<1>. QED
  BY <1>1, Invariance, PTL

-----------------------------------------------------------------------------
(***************************************************************************)
(* The pool implements the safety part of PoolService.                     *)
(***************************************************************************)

Over == In({"finished", "inject", "pushed", "leaving", "exited"})

LEMMA ServiceInit == Init => Service!Init
BY DEF Init, Service!Init, Submitted, Running, In

LEMMA ServiceStutter ==
  ASSUME Submitted' = Submitted, Running' = Running, Over' = Over, owner' = owner
  PROVE  UNCHANGED Service!vars
BY DEF Service!vars, Over

\* PoolService counts with the same operator.
LEMMA SameCardinality == Service!Cardinality(Running) = Cardinality(Running)
BY DEF Service!Cardinality, Cardinality, Service!IsFiniteSet, IsFiniteSet

LEMMA ServiceStart ==
  ASSUME IInv, NEW t \in Task, Start(t)
  PROVE  Service!Start(t)
<1>. USE DEF Start, Move
<1>1. /\ Submitted' = Submitted
      /\ Running' = Running \cup {t}
      /\ Over' = Over
      /\ t \in Submitted /\ t \notin Running /\ t \notin Over
  BY DEF IInv, TypeOK, Submitted, Running, Over, In
<1>2. Running \cup {t} \subseteq Slots
  BY DEF Running, Slots, In
<1>3. Cardinality(Running \cup {t}) = Cardinality(Running) + 1
  BY <1>1, RunningHoldSlots, FS_AddElement
<1>4. Cardinality(Running \cup {t}) <= Cardinality(Slots)
  BY <1>2, SlotsFinite, FS_Subset
<1>5. Cardinality(Slots) <= MaxThreads
  BY <1>3, <1>4, RunningHoldSlots, SlotsFinite DEF IInv, CountInv, SlotsCounted
<1>6. Cardinality(Running) < MaxThreads
  BY <1>3, <1>4, <1>5, RunningHoldSlots, SlotsFinite, MaxThreadsAssumption
<1>. QED
  BY <1>1, <1>6, SameCardinality DEF Service!Start, Over

LEMMA ServiceFinish ==
  ASSUME IInv, NEW t \in Task, Finish(t)
  PROVE  Service!Finish(t)
<1>1. /\ Submitted' = Submitted
      /\ Running' = Running \ {t}
      /\ Over' = Over \cup {t}
      /\ t \in Running
  BY DEF Finish, Move, IInv, TypeOK, Submitted, Running, Over, In
<1>. QED
  BY <1>1 DEF Service!Finish, Finish, Over

LEMMA ServiceSubmit ==
  ASSUME IInv, NEW t \in Task, createThread(t)
  PROVE  Service!Submit(t)
<1>1. /\ Submitted' = Submitted \cup {t}
      /\ Running' = Running
      /\ Over' = Over
      /\ t \notin Submitted
  BY DEF createThread, IInv, TypeOK, Submitted, Running, Over, In
<1>. QED
  BY <1>1 DEF Service!Submit, createThread, Over

\* The steps of a thread that the owner of the pool does not see.
LEMMA ServiceHidden ==
  ASSUME IInv, NEW t \in Task,
         \/ lock(t) \/ unlock(t) \/ InjectLock(t) \/ InjectPop(t)
         \/ InjectNone(t) \/ InjectUnlock(t)
  PROVE  UNCHANGED Service!vars
<1>1. /\ Submitted' = Submitted /\ Running' = Running
      /\ Over' = Over /\ owner' = owner
  BY DEF lock, unlock, InjectLock, InjectPop, InjectNone, InjectUnlock, Move,
         IInv, TypeOK, Submitted, Running, Over, In
<1>. QED
  BY <1>1, ServiceStutter

LEMMA ServicePush ==
  ASSUME IInv, NEW t \in Task, InjectPush(t)
  PROVE  UNCHANGED Service!vars
<1>. PICK h \in Task : h = Head(tpWaitingLine)
  BY PoppedFront DEF InjectPush, NobodyWaits, IInv, TypeOK
<1>1. 1 \in DOMAIN tpWaitingLine /\ h = tpWaitingLine[1]
  <2>1. tpWaitingLine \in Seq(Task) /\ tpWaitingLine # <<>>
    BY DEF InjectPush, NobodyWaits, IInv, TypeOK
  <2>. QED
    BY <2>1, Indexed, PoppedFront
<1>2. ~Popping
  BY DEF InjectPush, NobodyWaits, IInv, MutexInv, Popping
<1>3. st[tpWaitingLine[1]] = "waiting"
  BY <1>1, <1>2 DEF IInv, WaitInv
<1>4. /\ st[h] = "waiting" /\ st[t] = "inject"
      /\ st' = [st EXCEPT ![t] = "pushed", ![h] = "ready"]
      /\ owner' = owner
  BY <1>1, <1>3 DEF InjectPush, NobodyWaits
<1>5. Submitted' = Submitted /\ Running' = Running /\ Over' = Over
  BY <1>4 DEF IInv, TypeOK, Submitted, Running, Over, In
<1>. QED
  BY <1>4, <1>5, ServiceStutter

LEMMA ServiceOwner ==
  ASSUME IInv, CallJoinAll \/ JoinAll
  PROVE  [Service!Next]_(Service!vars)
<1>. DEFINE Same == Submitted' = Submitted /\ Running' = Running /\ Over' = Over
<1>1. Same
  BY DEF CallJoinAll, JoinAll, SpinEnds, JoinOne, JoinAllReturns,
         Submitted, Running, Over, In
<1>2. CASE CallJoinAll
  <2>1. Service!Join
    BY <1>1, <1>2 DEF CallJoinAll, Service!Join, Over
  <2>. QED
    BY <2>1 DEF Service!Next
<1>3. CASE SpinEnds \/ JoinOne
  BY <1>1, <1>3 DEF SpinEnds, NobodyWaits, JoinOne, Service!vars, Over
<1>4. CASE JoinAllReturns
  <2>1. \A t \in Task : st[t] \in {"new", "exited"}
    BY <1>4, JoinedAllExited DEF JoinAllReturns
  <2>2. Submitted \subseteq Over
    BY <2>1 DEF Submitted, Over, In
  <2>3. Service!Return
    BY <1>1, <1>4, <2>2 DEF JoinAllReturns, Service!Return, Over
  <2>. QED
    BY <2>3 DEF Service!Next
<1>. QED
  BY <1>2, <1>3, <1>4 DEF JoinAll

LEMMA ServiceNext == IInv /\ [Next]_vars => [Service!Next]_(Service!vars)
<1>. SUFFICES ASSUME IInv, [Next]_vars PROVE [Service!Next]_(Service!vars)
  OBVIOUS
<1>1. CASE UNCHANGED vars
  BY <1>1 DEF vars, Service!vars, Submitted, Running, In
<1>2. ASSUME NEW t \in Task, createThread(t) \/ Thread(t)
      PROVE  [Service!Next]_(Service!vars)
  BY <1>2, ServiceSubmit, ServiceStart, ServiceFinish, ServiceHidden, ServicePush
  DEF Thread, Service!Next
<1>. QED
  BY <1>1, <1>2, ServiceOwner DEF Next

\* Every behaviour of the pool is one that PoolService allows.
THEOREM PoolImplements == SafeSpec => ImplementsSafely
BY ServiceInit, ServiceNext, Invariance, PTL
DEF SafeSpec, ImplementsSafely, Service!SafeSpec
=============================================================================
