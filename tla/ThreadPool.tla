----------------------------- MODULE ThreadPool -----------------------------
(***************************************************************************)
(* template <class T> class threadPool, tdcommon/threads/threadPool.h.     *)
(*                                                                         *)
(* One thread, the owner, creates the pool, gives it tasks (createThread)  *)
(* and then waits for all of them (joinAll).  A task for which there is no *)
(* room is put in a waiting line, and the thread of a task that ends takes *)
(* the next one out of it (injectNextThread).                              *)
(*                                                                         *)
(* The mutex protects createThread and injectNextThread, but joinAll reads *)
(* tpWaitingLine and tpThreadList without it.  So createThread, which the  *)
(* reader itself calls, is one step, and injectNextThread is cut between   *)
(* push_back/pthread_create and pop_front, where joinAll may look.         *)
(*                                                                         *)
(* The only tasks of the program, pageParsers, borrow the same mutex once  *)
(* in their life (results_lock), to merge their results before they end.   *)
(***************************************************************************)
EXTENDS Integers, Sequences, FiniteSets

CONSTANTS
  Task,         \* the objects given to createThread, each one once
  MaxThreads,   \* the mt of the constructor, atol("maxthreads") in metaRank
  NoThread      \* the value of mtex when no pool thread holds it

ASSUME TaskAssumption == IsFiniteSet(Task) /\ NoThread \notin Task
ASSUME MaxThreadsAssumption == MaxThreads \in Int

VARIABLES
  tpThreadList,   \* the threads created so far, in the order of creation
  tpWaitingLine,  \* the tasks that have no thread yet
  tpNbThread,     \* the slots in use
  mtex,           \* the pool thread that holds the mutex, or NoThread
  st,             \* where the thread of each task is
  owner,          \* where the owner is: "creating", "spin", "join", "joined"
  joining         \* the i of joinAll's loop (1-based)

vars == <<tpThreadList, tpWaitingLine, tpNbThread, mtex, st, owner, joining>>

(***************************************************************************)
(* The states of a task's thread.                                          *)
(*   "new"       not given to the pool                                     *)
(*   "waiting"   in the waiting line                                       *)
(*   "ready"     pthread_create was called, the task has not begun         *)
(*   "running"   inside (*(T *) ta->methodToLaunch)()                      *)
(*   "merging"   still inside, and holds the mutex                         *)
(*   "merged"    still inside, has released the mutex                      *)
(*   "finished"  isFinished is set, wants the mutex of injectNextThread    *)
(*   "inject"    holds the mutex, has not looked at the waiting line       *)
(*   "pushed"    has created the successor, has not popped it              *)
(*   "leaving"   about to unlock                                           *)
(*   "exited"    launchThread has returned                                 *)
(***************************************************************************)
ThreadState == {"new", "waiting", "ready", "running", "merging", "merged",
                "finished", "inject", "pushed", "leaving", "exited"}

In(states) == {t \in Task : st[t] \in states}

Submitted == Task \ In({"new"})
Running   == In({"running", "merging", "merged"})
\* The threads tpNbThread counts: those that have not yet passed their place on.
Slots     == In({"ready", "running", "merging", "merged", "finished", "inject"})

Init ==
  /\ tpThreadList = <<>>
  /\ tpWaitingLine = <<>>
  /\ tpNbThread = 0
  /\ mtex = NoThread
  /\ st = [t \in Task |-> "new"]
  /\ owner = "creating"
  /\ joining = 1

-----------------------------------------------------------------------------
\* The owner.

\* Mutant: one thread too many.
HasRoomOffByOne == tpNbThread <= MaxThreads

\* Is there room for one more thread?  The test of createThread.
HasRoom == tpNbThread < MaxThreads

\* Mutant: the waiting line is not looked at.
AssumeNobodyWaits == TRUE

\* tpWaitingLine.size() > 0, negated: the test of joinAll and injectNextThread.
NobodyWaits == tpWaitingLine = <<>>

createThread(t) ==
  /\ owner = "creating"
  /\ mtex = NoThread
  /\ st[t] = "new"
  /\ \/ /\ HasRoom
        /\ tpThreadList' = Append(tpThreadList, t)
        /\ tpNbThread' = tpNbThread + 1
        /\ st' = [st EXCEPT ![t] = "ready"]
        /\ UNCHANGED tpWaitingLine
     \/ /\ ~HasRoom
        /\ tpWaitingLine' = Append(tpWaitingLine, t)
        /\ st' = [st EXCEPT ![t] = "waiting"]
        /\ UNCHANGED <<tpThreadList, tpNbThread>>
  /\ UNCHANGED <<mtex, owner, joining>>

\* The owner has no more tasks and calls joinAll.
CallJoinAll ==
  /\ owner = "creating"
  /\ owner' = "spin"
  /\ UNCHANGED <<tpThreadList, tpWaitingLine, tpNbThread, mtex, st, joining>>

\* Mutant: the threads are joined at once.
SpinForgotten ==
  /\ owner = "spin"
  /\ owner' = "join"
  /\ joining' = 1
  /\ UNCHANGED <<tpThreadList, tpWaitingLine, tpNbThread, mtex, st>>

\* while (tpWaitingLine.size() > 0) sched_yield();  -- read without the mutex
SpinEnds ==
  /\ owner = "spin"
  /\ NobodyWaits
  /\ owner' = "join"
  /\ joining' = 1
  /\ UNCHANGED <<tpThreadList, tpWaitingLine, tpNbThread, mtex, st>>

\* Mutant: isFinished is read instead of joining the thread.
IsFinished(t) == st[t] \in {"finished", "inject", "pushed", "leaving", "exited"}

\* pthread_join returns once the thread has exited.
HasExited(t) == st[t] = "exited"

JoinOne ==
  /\ owner = "join"
  /\ joining <= Len(tpThreadList)
  /\ HasExited(tpThreadList[joining])
  /\ joining' = joining + 1
  /\ UNCHANGED <<tpThreadList, tpWaitingLine, tpNbThread, mtex, st, owner>>

JoinAllReturns ==
  /\ owner = "join"
  /\ joining > Len(tpThreadList)
  /\ tpNbThread' = 0
  /\ owner' = "joined"
  /\ UNCHANGED <<tpThreadList, tpWaitingLine, mtex, st, joining>>

-----------------------------------------------------------------------------
\* launchThread and injectNextThread, in the thread of task t.

Move(t, from, to) ==
  /\ st[t] = from
  /\ st' = [st EXCEPT ![t] = to]

Start(t) ==
  /\ Move(t, "ready", "running")
  /\ UNCHANGED <<tpThreadList, tpWaitingLine, tpNbThread, mtex, owner, joining>>

\* threadPool<pageParser>::lock(results_lock), in closeParse.
lock(t) ==
  /\ mtex = NoThread
  /\ Move(t, "running", "merging")
  /\ mtex' = t
  /\ UNCHANGED <<tpThreadList, tpWaitingLine, tpNbThread, owner, joining>>

unlock(t) ==
  /\ Move(t, "merging", "merged")
  /\ mtex' = NoThread
  /\ UNCHANGED <<tpThreadList, tpWaitingLine, tpNbThread, owner, joining>>

\* The task returns and isFinished is set.
Finish(t) ==
  /\ Move(t, "merged", "finished")
  /\ UNCHANGED <<tpThreadList, tpWaitingLine, tpNbThread, mtex, owner, joining>>

InjectLock(t) ==
  /\ mtex = NoThread
  /\ Move(t, "finished", "inject")
  /\ mtex' = t
  /\ UNCHANGED <<tpThreadList, tpWaitingLine, tpNbThread, owner, joining>>

\* push_back and pthread_create of the front of the waiting line.
InjectPush(t) ==
  /\ st[t] = "inject"
  /\ ~NobodyWaits
  /\ tpThreadList' = Append(tpThreadList, Head(tpWaitingLine))
  /\ st' = [st EXCEPT ![t] = "pushed", ![Head(tpWaitingLine)] = "ready"]
  /\ UNCHANGED <<tpWaitingLine, tpNbThread, mtex, owner, joining>>

\* Mutant: the task stays in the line, and is launched again.
InjectPopForgotten(t) ==
  /\ Move(t, "pushed", "leaving")
  /\ UNCHANGED <<tpThreadList, tpWaitingLine, tpNbThread, mtex, owner, joining>>

\* Mutant: the slot is given back although the successor has taken it.
InjectPopDecrements(t) ==
  /\ Move(t, "pushed", "leaving")
  /\ tpWaitingLine' = Tail(tpWaitingLine)
  /\ tpNbThread' = tpNbThread - 1
  /\ UNCHANGED <<tpThreadList, mtex, owner, joining>>

InjectPop(t) ==
  /\ Move(t, "pushed", "leaving")
  /\ tpWaitingLine' = Tail(tpWaitingLine)
  /\ UNCHANGED <<tpThreadList, tpNbThread, mtex, owner, joining>>

\* Nobody waits: the slot is given back.
InjectNone(t) ==
  /\ Move(t, "inject", "leaving")
  /\ NobodyWaits
  /\ tpNbThread' = tpNbThread - 1
  /\ UNCHANGED <<tpThreadList, tpWaitingLine, mtex, owner, joining>>

\* Unlock and return from launchThread.
InjectUnlock(t) ==
  /\ Move(t, "leaving", "exited")
  /\ mtex' = NoThread
  /\ UNCHANGED <<tpThreadList, tpWaitingLine, tpNbThread, owner, joining>>

-----------------------------------------------------------------------------
Thread(t) ==
  \/ Start(t)
  \/ lock(t)
  \/ unlock(t)
  \/ Finish(t)
  \/ InjectLock(t)
  \/ InjectPush(t)
  \/ InjectPop(t)
  \/ InjectNone(t)
  \/ InjectUnlock(t)

JoinAll == SpinEnds \/ JoinOne \/ JoinAllReturns

Next ==
  \/ \E t \in Task : createThread(t) \/ Thread(t)
  \/ CallJoinAll
  \/ JoinAll

(***************************************************************************)
(* Weak fairness of each thread: the scheduler runs every thread and the   *)
(* tasks return (startParsing ends at its limit and its downloads time     *)
(* out).  No more is asked of the mutex: a thread takes it twice in its    *)
(* life and leaves it without waiting, so it is in the end free for good.  *)
(***************************************************************************)
Fairness == (\A t \in Task : WF_vars(Thread(t))) /\ WF_vars(JoinAll)

SafeSpec == Init /\ [][Next]_vars
Spec == SafeSpec /\ Fairness

-----------------------------------------------------------------------------
\* The types; tpNbThread never goes below zero.
TypeOK ==
  /\ tpThreadList \in Seq(Task)
  /\ tpWaitingLine \in Seq(Task)
  /\ tpNbThread \in Nat
  /\ mtex \in Task \cup {NoThread}
  /\ st \in [Task -> ThreadState]
  /\ owner \in {"creating", "spin", "join", "joined"}
  /\ joining \in Nat \ {0}

\* "making sure that at most a certain number of threads are executed at the
\* same time" (the class comment): no more than MaxThreads tasks run, although
\* a thread creates its successor before it has exited itself.
Bounded == Running = {} \/ Cardinality(Running) <= MaxThreads

\* A task waits only while every slot is taken: neither createThread nor
\* injectNextThread leaves a slot empty behind a waiting task, which no thread
\* would ever take out of the line again.
NoIdleSlot == tpWaitingLine # <<>> => tpNbThread >= MaxThreads

\* No task is given two threads, neither by the waiting line and createThread
\* nor by two threads that end at the same time.
LaunchedOnce ==
  \A i, j \in DOMAIN tpThreadList :
    tpThreadList[i] = tpThreadList[j] => i = j

\* "When returning, every threads should be finished" (joinAll's comment), so
\* that the owner may free the tasks and the pool: no thread of the pool,
\* not even one still inside injectNextThread, is left.
JoinedMeansExited == owner = "joined" => Submitted = In({"exited"})

\* tpNbThread counts the threads that have not passed their place on, so the
\* assignment of 0 at the end of joinAll forgets none.
SlotsCounted == tpNbThread = Cardinality(Slots)

\* joinAll goes through tpThreadList without the mutex: nobody may push into
\* it (a vector, which moves its elements as it grows) once it has begun.
ListStableWhileJoining ==
  [][owner = "join" => tpThreadList' = tpThreadList]_vars

\* What the pool promises its owner.
Service == INSTANCE PoolService WITH
  submitted <- Submitted,
  active <- Running,
  over <- In({"finished", "inject", "pushed", "leaving", "exited"}),
  phase <- CASE owner = "creating" -> "submitting"
             [] owner \in {"spin", "join"} -> "joining"
             [] OTHER -> "joined"

\* The pool does for its owner what PoolService says, and in the end lets it
\* go (under fairness, and with at least one thread allowed).
Implements == Service!Spec
\* The safety part of it, for any MaxThreads.
ImplementsSafely == Service!SafeSpec

=============================================================================
