-------------------------- MODULE MetaSearchProofs --------------------------
(***************************************************************************)
(* Proofs about MetaSearch, for any finite set of engines, any urls, any   *)
(* limit and any number of threads.                                        *)
(***************************************************************************)
EXTENDS MetaSearch, SequenceTheorems, WellFoundedInduction, TLAPS

\* A set of numbers that is not empty has a least one.
LEMMA Least ==
  ASSUME NEW T \in SUBSET Nat, T # {}
  PROVE  \E k \in T : \A l \in T : k <= l
<1>1. PICK k \in T : \A l \in T : <<l, k>> \notin OpToRel(<, Nat)
  BY NatLessThanWellFounded, WFMin, Zenon
<1>2. \A l \in T : ~(l < k)
  BY <1>1 DEF OpToRel
<1>. QED
  BY <1>2

-----------------------------------------------------------------------------
(***************************************************************************)
(* The operators of RowMerge.                                              *)
(***************************************************************************)

\* The rows of an engine that found no more than Limit urls.
LEMMA FoundRowType ==
  ASSUME NEW e \in Engine, NEW us \in Seq(Url), Len(us) <= Limit,
         NEW i \in 1 .. Len(us)
  PROVE  FoundRow(e, us, i) \in Row
BY LimitAssumption, ElementOfSeq, LenProperties DEF FoundRow, Row

\* The row that stays where an equal one comes in.
LEMMA ImprovedRow ==
  ASSUME NEW r \in Row, NEW q \in Row, SameRow(r, q)
  PROVE  /\ Improved(r, q) \in Row
         /\ Improved(r, q).url = r.url
         /\ Improved(r, q).num <= r.num
         /\ Improved(r, q).num <= q.num
         /\ Improved(r, q).engines = r.engines \cup q.engines
         /\ \/ Improved(r, q).from = r.from /\ Improved(r, q).num = r.num
            \/ Improved(r, q).from = q.from /\ Improved(r, q).num = q.num
BY LimitAssumption DEF Improved, RankedBetter, TakeOver, SameRow, Row

\* Where the row that is added goes: to a new place at the end or, improving
\* it, to the place of a row with the same url.
LEMMA AddRowCases ==
  ASSUME NEW s \in Seq(Row), NEW r \in Row
  PROVE  \/ /\ \A i \in 1 .. Len(s) : ~SameRow(s[i], r)
            /\ AddRow(s, r) = Append(s, r)
         \/ \E i \in 1 .. Len(s) :
              /\ SameRow(s[i], r)
              /\ AddRow(s, r) = [s EXCEPT ![i] = Improved(s[i], r)]
<1>0. DOMAIN s = 1 .. Len(s) /\ Len(s) \in Nat
  BY LenProperties
<1>1. CASE Positions(s, r) = {}
  BY <1>0, <1>1 DEF AddRow, Positions
<1>2. CASE Positions(s, r) # {}
  <2>1. First(s, r) \in Positions(s, r)
    <3>1. Positions(s, r) \subseteq Nat
      BY <1>0 DEF Positions
    <3>2. \E k \in Positions(s, r) : \A l \in Positions(s, r) : k <= l
      BY <1>2, <3>1, Least
    <3>. QED
      BY <3>2 DEF First
  <2>2. First(s, r) \in 1 .. Len(s) /\ SameRow(s[First(s, r)], r)
    BY <2>1, <1>0 DEF Positions
  <2>3. AddRow(s, r) = [s EXCEPT ![First(s, r)] = Improved(s[First(s, r)], r)]
    BY <1>2 DEF AddRow
  <2>. QED
    BY <2>2, <2>3
<1>. QED
  BY <1>1, <1>2

LEMMA AddRowType ==
  ASSUME NEW s \in Seq(Row), NEW r \in Row
  PROVE  AddRow(s, r) \in Seq(Row)
<1>1. CASE AddRow(s, r) = Append(s, r)
  BY <1>1, AppendProperties
<1>2. ASSUME NEW i \in 1 .. Len(s), SameRow(s[i], r),
             AddRow(s, r) = [s EXCEPT ![i] = Improved(s[i], r)]
      PROVE  AddRow(s, r) \in Seq(Row)
  <2>1. s[i] \in Row
    BY ElementOfSeq
  <2>2. Improved(s[i], r) \in Row
    BY <1>2, <2>1, ImprovedRow
  <2>. QED
    BY <1>2, <2>2, ExceptSeq
<1>. QED
  BY <1>1, <1>2, AddRowCases

\* What a sort leaves: the same rows, in order, perhaps in other places.
LEMMA SortedRows ==
  ASSUME NEW s \in Seq(Row), NEW t \in Sorted(s)
  PROVE  /\ t \in Seq(Row)
         /\ InOrder(t)
         /\ Len(t) = Len(s)
         /\ \A k \in 1 .. Len(s) : \E l \in 1 .. Len(s) : t[l] = s[k]
         /\ \A l \in 1 .. Len(s) : \E k \in 1 .. Len(s) : t[l] = s[k]
<1>0. DOMAIN s = 1 .. Len(s) /\ Len(s) \in Nat
  BY LenProperties
<1>1. PICK p \in Bijection(1 .. Len(s), 1 .. Len(s)) :
        t = [i \in 1 .. Len(s) |-> s[p[i]]] /\ InOrder(t)
  BY <1>0 DEF Sorted
<1>2. /\ p \in [1 .. Len(s) -> 1 .. Len(s)]
      /\ \A j \in 1 .. Len(s) : \E i \in 1 .. Len(s) : p[i] = j
  BY DEF Bijection, Injection, Surjection
<1>3. \A i \in 1 .. Len(s) : s[p[i]] \in Row
  BY <1>2, ElementOfSeq
<1>4. t \in Seq(Row) /\ Len(t) = Len(s)
  BY <1>0, <1>1, <1>3
<1>5. \A l \in 1 .. Len(s) : \E k \in 1 .. Len(s) : t[l] = s[k]
  BY <1>1, <1>2
<1>6. \A k \in 1 .. Len(s) : \E l \in 1 .. Len(s) : t[l] = s[k]
  BY <1>1, <1>2
<1>. QED
  BY <1>1, <1>4, <1>5, <1>6

-----------------------------------------------------------------------------
(***************************************************************************)
(* The inductive invariant.                                                *)
(***************************************************************************)

\* A count is there as soon as its engine holds the lock to merge, and the
\* lock is held by the engine that merges, sorts or signals.
LockInv ==
  \A e \in Engine :
    /\ count[e] = -1 <=> parser[e] \in {"new", "parsing", "closing"}
    /\ results_lock = e <=> parser[e] \in {"merging", "sorted", "signalled"}

\* The pool runs the engines between their start and their end.
PoolInv ==
  /\ \A e \in Engine :
       /\ e \in active <=> parser[e] \notin {"new", "done"}
       /\ e \in over <=> parser[e] = "done"
  /\ daemon # "startParsing" => submitted = Engine

\* The results are in order but while an engine merges.
OrderInv == (\A e \in Engine : parser[e] # "merging") => InOrder(results)

\* What finished stands for: every engine is done, nobody tears the results,
\* and the daemon waits no more.
FinishedInv ==
  finished => /\ \A e \in Engine : parser[e] = "done"
              /\ ~torn
              /\ daemon \in {"reading", "idle", "deleted"}

\* The final answer is given once.
ResponseInv ==
  /\ response.final => finished /\ daemon # "reading"
  /\ finished /\ daemon # "reading" => response.final
  /\ daemon = "deleted" => finished

IInv ==
  /\ TypeOK
  /\ LockInv
  /\ PoolInv
  /\ OrderInv
  /\ FinishedInv
  /\ ResponseInv
  /\ FinalIsComplete
  /\ NoLostWakeup

LEMMA InitIInv == Init => IInv
<1>. SUFFICES ASSUME Init PROVE IInv
  OBVIOUS
<1>. USE DEF Init, Pool!Init, NoResponse
<1>1. TypeOK
  <2>1. count \in [Engine -> -1 .. Limit] /\ next \in 1 .. Limit + 1
    BY LimitAssumption
  <2>2. found \in [Engine -> Seq(Url)] /\ results \in Seq(Row)
    BY EmptySeq
  <2>3. \A e \in Engine : Len(found[e]) <= Limit
    BY LimitAssumption, EmptySeq
  <2>4. response.final = FALSE /\ response.upto = {}
    OBVIOUS
  <2>. HIDE DEF NoResponse
  <2>. QED
    BY <2>1, <2>2, <2>3, <2>4 DEF TypeOK
<1>2. LockInv
  BY EngineAssumption DEF LockInv
<1>3. PoolInv
  BY DEF PoolInv
<1>4. InOrder(results)
  BY DEF InOrder
<1>. QED
  BY <1>1, <1>2, <1>3, <1>4
  DEF IInv, OrderInv, FinishedInv, ResponseInv, FinalIsComplete, NoLostWakeup

-----------------------------------------------------------------------------
(***************************************************************************)
(* The types.                                                              *)
(***************************************************************************)

LEMMA TypeParser ==
  ASSUME TypeOK, NEW e \in Engine,
         \/ Start(e) \/ Parse(e) \/ CloseParse(e) \/ Signal(e) \/ Finish(e)
  PROVE  TypeOK'
<1>1. CASE Start(e)
  BY <1>1 DEF TypeOK, Start, Pool!Start, daemonVars
<1>2. CASE Parse(e)
  <2>1. PICK us \in Findings : found' = [found EXCEPT ![e] = us]
    BY <1>2 DEF Parse
  <2>2. us \in Seq(Url) /\ Len(us) <= Limit
    <3>1. PICK n \in 0 .. Limit : us \in [1 .. n -> Url]
      BY DEF Findings, RowLists
    <3>2. n \in Nat /\ n <= Limit
      BY LimitAssumption
    <3>3. us \in Seq(Url) /\ Len(us) = n
      BY <3>1, <3>2
    <3>. QED
      BY <3>2, <3>3
  <2>. QED
    BY <1>2, <2>1, <2>2 DEF TypeOK, Parse, poolVars, daemonVars
<1>3. CASE CloseParse(e)
  <2>1. Len(found[e]) \in -1 .. Limit
    BY LimitAssumption, LenProperties DEF TypeOK
  <2>2. 1 \in 1 .. Limit + 1
    BY LimitAssumption
  <2>. QED
    BY <1>3, <2>1, <2>2 DEF TypeOK, CloseParse, poolVars, daemonVars
<1>4. CASE Signal(e)
  BY <1>4 DEF TypeOK, Signal, poolVars, daemonVars
<1>5. CASE Finish(e)
  BY <1>5 DEF TypeOK, Finish, Pool!Finish, daemonVars
<1>. QED
  BY <1>1, <1>2, <1>3, <1>4, <1>5

LEMMA TypeMerge ==
  ASSUME TypeOK, NEW e \in Engine, MergeRow(e) \/ SortResults(e)
  PROVE  TypeOK'
<1>1. CASE MergeRow(e)
  <2>1. found[e] \in Seq(Url) /\ Len(found[e]) \in Nat /\ Len(found[e]) <= Limit
    BY LenProperties DEF TypeOK
  <2>2. next \in 1 .. Len(found[e]) /\ next + 1 \in 1 .. Limit + 1
    BY <1>1, <2>1, LimitAssumption DEF TypeOK, MergeRow
  <2>3. FoundRow(e, found[e], next) \in Row
    BY <2>1, <2>2, FoundRowType
  <2>4. results' \in Seq(Row)
    BY <1>1, <2>3, AddRowType DEF TypeOK, MergeRow
  <2>. QED
    BY <1>1, <2>2, <2>4 DEF TypeOK, MergeRow, Tears, poolVars
<1>2. CASE SortResults(e)
  <2>1. results' \in Seq(Row)
    BY <1>2, SortedRows DEF TypeOK, SortResults
  <2>. QED
    BY <1>2, <2>1 DEF TypeOK, SortResults, Tears, poolVars
<1>. QED
  BY <1>1, <1>2

LEMMA TypeDaemon ==
  ASSUME TypeOK, Handler \/ Poll \/ DumpToDisk
  PROVE  TypeOK'
<1>. USE DEF poolVars, engineVars, daemonVars
<1>1. ASSUME NEW e \in Engine, createThread(e)
      PROVE  TypeOK'
  BY <1>1 DEF TypeOK, createThread, Pool!Submit
<1>2. CASE Submitted \/ WaitForMore \/ WakeUp \/ Poll \/ DumpToDisk
  BY <1>2 DEF TypeOK, Submitted, WaitForMore, WakeUp, Poll, DumpToDisk
<1>3. CASE WaitNoMore \/ JoinAll
  BY <1>3 DEF TypeOK, WaitNoMore, JoinAll, Pool!Join, Pool!Return
<1>4. CASE Respond
  <2>1. response'.final = finished /\ response'.upto = Merged
    BY <1>4 DEF Respond
  <2>. QED
    BY <1>4, <2>1 DEF TypeOK, Respond, Merged
<1>. QED
  BY <1>1, <1>2, <1>3, <1>4 DEF Handler

LEMMA TypeNext == TypeOK /\ [Next]_vars => TypeOK'
<1>. SUFFICES ASSUME TypeOK, [Next]_vars PROVE TypeOK'
  OBVIOUS
<1>1. CASE UNCHANGED vars
  BY <1>1 DEF TypeOK, vars, poolVars, engineVars, daemonVars
<1>2. ASSUME NEW e \in Engine, Parser(e)
      PROVE  TypeOK'
  BY <1>2, TypeParser, TypeMerge DEF Parser
<1>. QED
  BY <1>1, <1>2, TypeDaemon DEF Next

\* The types of the module's state, of the merged rows in particular.
THEOREM SearchTypeCorrect == SafeSpec => []TypeOK
<1>1. Init => TypeOK
  BY InitIInv DEF IInv
<1>. QED
  BY <1>1, TypeNext, PTL DEF SafeSpec

-----------------------------------------------------------------------------
(***************************************************************************)
(* The control of the engines and of the daemon.                           *)
(***************************************************************************)

LEMMA LockNext == IInv /\ [Next]_vars => LockInv'
<1>. SUFFICES ASSUME IInv, [Next]_vars PROVE LockInv'
  OBVIOUS
<1>. USE DEF IInv, LockInv
<1>1. CASE UNCHANGED vars \/ Handler \/ Poll \/ DumpToDisk
  BY <1>1 DEF vars, engineVars, Handler, createThread, Submitted, WaitNoMore,
     WaitForMore, WakeUp, JoinAll, Respond, Poll, DumpToDisk
<1>2. ASSUME NEW e \in Engine, Parser(e)
      PROVE  LockInv'
  <2>0. EngineAssumption!2
    BY EngineAssumption
  <2>1. CASE Start(e)
    BY <2>1 DEF TypeOK, Start
  <2>2. CASE Parse(e)
    BY <2>2 DEF TypeOK, Parse
  <2>3. CASE CloseParse(e)
    <3>1. Len(found[e]) \in Nat
      BY LenProperties DEF TypeOK
    <3>. QED
      BY <2>0, <2>3, <3>1 DEF TypeOK, CloseParse
  <2>4. CASE MergeRow(e)
    BY <2>4 DEF TypeOK, MergeRow
  <2>5. CASE SortResults(e)
    BY <2>5 DEF TypeOK, SortResults
  <2>6. CASE Signal(e)
    BY <2>6 DEF TypeOK, Signal
  <2>7. CASE Finish(e)
    BY <2>0, <2>7 DEF TypeOK, Finish
  <2>. QED
    BY <1>2, <2>1, <2>2, <2>3, <2>4, <2>5, <2>6, <2>7 DEF Parser
<1>. QED
  BY <1>1, <1>2 DEF Next

LEMMA PoolNext == IInv /\ [Next]_vars => PoolInv'
<1>. SUFFICES ASSUME IInv, [Next]_vars PROVE PoolInv'
  OBVIOUS
<1>. USE DEF IInv, PoolInv
<1>1. CASE UNCHANGED vars \/ WaitForMore \/ WakeUp \/ Respond \/ Poll \/ DumpToDisk
  <2>1. submitted' = submitted /\ active' = active /\ over' = over /\ parser' = parser
    BY <1>1 DEF vars, poolVars, engineVars, WaitForMore, WakeUp, Respond, Poll,
       DumpToDisk
  <2>2. daemon' # "startParsing" => daemon # "startParsing"
    BY <1>1 DEF vars, daemonVars, WaitForMore, WakeUp, Respond, Poll, DumpToDisk,
       MayDump
  <2>. QED
    BY <2>1, <2>2
<1>5. CASE Submitted
  BY <1>5 DEF poolVars, engineVars, Submitted
<1>2. CASE WaitNoMore \/ JoinAll
  BY <1>2 DEF engineVars, WaitNoMore, JoinAll, Pool!Join, Pool!Return
<1>3. ASSUME NEW e \in Engine, createThread(e)
      PROVE  PoolInv'
  BY <1>3 DEF createThread, Pool!Submit, engineVars, daemonVars
<1>4. ASSUME NEW e \in Engine, Parser(e)
      PROVE  PoolInv'
  <2>1. CASE Start(e)
    BY <2>1 DEF TypeOK, Start, Pool!Start, daemonVars
  <2>2. CASE Parse(e) \/ CloseParse(e) \/ MergeRow(e) \/ SortResults(e) \/ Signal(e)
    BY <2>2 DEF TypeOK, Parse, CloseParse, MergeRow, SortResults, Signal,
       poolVars, daemonVars
  <2>3. CASE Finish(e)
    BY <2>3 DEF TypeOK, Finish, Pool!Finish, daemonVars
  <2>. QED
    BY <1>4, <2>1, <2>2, <2>3 DEF Parser
<1>. QED
  BY <1>1, <1>2, <1>3, <1>4, <1>5 DEF Next, Handler

LEMMA OrderNext == IInv /\ [Next]_vars => OrderInv'
<1>. SUFFICES ASSUME IInv, [Next]_vars, \A e \in Engine : parser'[e] # "merging"
              PROVE  InOrder(results)'
  BY DEF OrderInv
<1>. USE DEF IInv, OrderInv
<1>1. CASE UNCHANGED vars \/ Handler \/ Poll \/ DumpToDisk
  BY <1>1 DEF vars, engineVars, Handler, createThread, Submitted, WaitNoMore,
     WaitForMore, WakeUp, JoinAll, Respond, Poll, DumpToDisk, InOrder
<1>2. ASSUME NEW e \in Engine, Parser(e)
      PROVE  InOrder(results)'
  <2>1. CASE SortResults(e)
    BY <2>1, SortedRows DEF TypeOK, SortResults, InOrder
  <2>2. CASE CloseParse(e) \/ MergeRow(e)
    <3>1. parser'[e] = "merging"
      BY <2>2 DEF TypeOK, CloseParse, MergeRow
    <3>. QED
      BY <3>1
  <2>3. CASE Start(e) \/ Parse(e) \/ Signal(e) \/ Finish(e)
    <3>1. results' = results /\ \A f \in Engine : parser[f] # "merging"
      BY <2>3 DEF TypeOK, Start, Parse, Signal, Finish
    <3>. QED
      BY <3>1 DEF InOrder
  <2>. QED
    BY <1>2, <2>1, <2>2, <2>3 DEF Parser
<1>. QED
  BY <1>1, <1>2 DEF Next

-----------------------------------------------------------------------------
(***************************************************************************)
(* The end of the search.                                                  *)
(***************************************************************************)

\* When the pool lets the daemon go, every engine is done.
LEMMA JoinedAllDone ==
  ASSUME IInv, JoinAll
  PROVE  \A e \in Engine : parser[e] = "done"
<1>1. submitted = Engine /\ submitted \subseteq over
  BY DEF IInv, PoolInv, JoinAll, Pool!Return
<1>. QED
  BY <1>1 DEF IInv, PoolInv

\* No engine moves once the search is finished.
LEMMA FinishedEngines ==
  ASSUME IInv, finished, NEW e \in Engine
  PROVE  ~Parser(e)
<1>1. parser[e] = "done"
  BY DEF IInv, FinishedInv
<1>. QED
  BY <1>1 DEF Parser, Start, Parse, CloseParse, MergeRow, SortResults, Signal, Finish

LEMMA FinishedNext == IInv /\ [Next]_vars => FinishedInv' /\ ResponseInv'
<1>. SUFFICES ASSUME IInv, [Next]_vars PROVE FinishedInv' /\ ResponseInv'
  OBVIOUS
<1>. USE DEF FinishedInv, ResponseInv
<1>1. CASE UNCHANGED vars
  BY <1>1 DEF IInv, vars, engineVars, daemonVars
<1>2. ASSUME NEW e \in Engine, Parser(e)
      PROVE  FinishedInv' /\ ResponseInv'
  <2>1. ~finished
    BY <1>2, FinishedEngines
  <2>2. finished' = finished /\ daemon' = daemon /\ response' = response
    BY <1>2 DEF Parser, Start, Parse, CloseParse, MergeRow, SortResults, Signal,
       Finish, daemonVars
  <2>. QED
    BY <2>1, <2>2 DEF IInv
<1>3. CASE JoinAll
  BY <1>3, JoinedAllDone DEF IInv, JoinAll, engineVars
<1>4. CASE Respond
  <2>1. response'.final = finished
    BY <1>4 DEF Respond
  <2>. QED
    BY <1>4, <2>1 DEF IInv, Respond, engineVars
<1>5. ASSUME NEW e \in Engine, createThread(e)
      PROVE  FinishedInv' /\ ResponseInv'
  BY <1>5 DEF IInv, createThread, engineVars, daemonVars
<1>6. CASE Submitted \/ WaitNoMore \/ WaitForMore \/ WakeUp
  BY <1>6 DEF IInv, Submitted, WaitNoMore, WaitForMore, WakeUp, engineVars
<1>7. CASE Poll
  <2>1. ~finished
    <3>. SUFFICES ASSUME finished PROVE FALSE
      OBVIOUS
    <3>1. response.final
      BY <1>7 DEF IInv, Poll
    <3>. QED
      BY <1>7, <3>1 DEF Poll
  <2>. QED
    BY <1>7, <2>1 DEF IInv, Poll, engineVars
<1>8. CASE DumpToDisk
  BY <1>8 DEF IInv, DumpToDisk, MayDump, engineVars
<1>. QED
  BY <1>1, <1>2, <1>3, <1>4, <1>5, <1>6, <1>7, <1>8 DEF Next, Handler

\* Merged once finished: all the engines, whose rows are complete.
LEMMA FinishedMerged ==
  ASSUME IInv, finished
  PROVE  Merged = Engine /\ InOrder(results)
<1>1. \A e \in Engine : parser[e] = "done"
  BY DEF IInv, FinishedInv
<1>. QED
  BY <1>1 DEF IInv, OrderInv, Merged

LEMMA FinalNext == IInv /\ [Next]_vars => FinalIsComplete'
<1>. SUFFICES ASSUME IInv, [Next]_vars, response'.final
              PROVE  /\ response'.rows = results'
                     /\ response'.upto = Engine
                     /\ InOrder(results)'
  BY DEF FinalIsComplete
<1>1. CASE Respond
  <2>1. finished /\ ~torn
    BY <1>1 DEF IInv, FinishedInv, Respond
  <2>2. response'.rows = results /\ response'.upto = Merged
    BY <1>1, <2>1 DEF Respond
  <2>3. results' = results
    BY <1>1 DEF Respond, engineVars
  <2>. QED
    BY <2>1, <2>2, <2>3, FinishedMerged DEF InOrder
<1>2. ASSUME NEW e \in Engine, Parser(e)
      PROVE  FALSE
  <2>1. response' = response
    BY <1>2 DEF Parser, Start, Parse, CloseParse, MergeRow, SortResults, Signal,
       Finish, daemonVars
  <2>2. finished
    BY <2>1 DEF IInv, ResponseInv
  <2>. QED
    BY <1>2, <2>2, FinishedEngines
<1>3. CASE \/ UNCHANGED vars
           \/ \E e \in Engine : createThread(e)
           \/ Submitted \/ WaitNoMore \/ WaitForMore \/ WakeUp \/ JoinAll
           \/ Poll \/ DumpToDisk
  <2>1. response' = response /\ results' = results
    BY <1>3 DEF vars, engineVars, daemonVars, createThread, Submitted, WaitNoMore,
       WaitForMore, WakeUp, JoinAll, Poll, DumpToDisk
  <2>2. response.rows = results /\ response.upto = Engine /\ InOrder(results)
    BY <2>1 DEF IInv, FinalIsComplete
  <2>. QED
    BY <2>1, <2>2 DEF InOrder
<1>. QED
  BY <1>1, <1>2, <1>3 DEF Next, Handler

LEMMA WakeupNext == IInv /\ [Next]_vars => NoLostWakeup'
<1>. SUFFICES ASSUME IInv, [Next]_vars, daemon' = "blocked", ~newResults'
              PROVE  \E e \in Engine : parser'[e] \notin {"signalled", "done"}
  BY DEF NoLostWakeup
<1>1. CASE WaitForMore
  <2>1. PICK e \in Engine : count[e] = -1
    BY <1>1 DEF WaitForMore, everyResultsReceived
  <2>2. parser[e] \in {"new", "parsing", "closing"}
    BY <2>1 DEF IInv, LockInv
  <2>. QED
    BY <1>1, <2>2 DEF WaitForMore, engineVars
<1>2. ASSUME NEW e \in Engine, Parser(e)
      PROVE  \E f \in Engine : parser'[f] \notin {"signalled", "done"}
  <2>1. CASE Start(e) \/ Parse(e) \/ CloseParse(e) \/ MergeRow(e) \/ SortResults(e)
    <3>1. parser'[e] \notin {"signalled", "done"}
      BY <2>1 DEF IInv, TypeOK, Start, Parse, CloseParse, MergeRow, SortResults
    <3>. QED
      BY <3>1
  <2>2. ~Signal(e)
    BY DEF Signal
  <2>3. CASE Finish(e)
    <3>1. daemon = "blocked" /\ ~newResults
      BY <2>3 DEF Finish, daemonVars
    <3>2. PICK f \in Engine : parser[f] \notin {"signalled", "done"}
      BY <3>1 DEF IInv, NoLostWakeup
    <3>3. f # e /\ parser'[f] = parser[f]
      BY <2>3, <3>2 DEF IInv, TypeOK, Finish
    <3>. QED
      BY <3>2, <3>3
  <2>. QED
    BY <1>2, <2>1, <2>2, <2>3 DEF Parser
<1>3. CASE UNCHANGED vars
  <2>1. daemon = "blocked" /\ ~newResults /\ parser' = parser
    BY <1>3 DEF vars, engineVars, daemonVars
  <2>. QED
    BY <2>1 DEF IInv, NoLostWakeup
<1>4. ASSUME NEW e \in Engine, createThread(e)
      PROVE  FALSE
  BY <1>4 DEF createThread, daemonVars
<1>5. ~(Submitted \/ WaitNoMore \/ WakeUp \/ JoinAll \/ Respond \/ Poll \/ DumpToDisk)
  BY DEF Submitted, WaitNoMore, WakeUp, JoinAll, Respond, Poll, DumpToDisk
<1>. QED
  BY <1>1, <1>2, <1>3, <1>4, <1>5 DEF Next, Handler

-----------------------------------------------------------------------------
(***************************************************************************)
(* The theorems.                                                           *)
(***************************************************************************)

\* The invariant is inductive.
THEOREM SearchInvariance == SafeSpec => []IInv
<1>1. IInv /\ [Next]_vars => IInv'
  BY TypeNext, LockNext, PoolNext, OrderNext, FinishedNext, FinalNext, WakeupNext
  DEF IInv
<1>. QED
  BY InitIInv, <1>1, PTL DEF SafeSpec

\* The final answer of metaRank::waitForNewResults has the rows of all engines,
\* in order and not read while they changed.
THEOREM FinalAnswerComplete == SafeSpec => []FinalIsComplete
BY SearchInvariance, PTL DEF IInv

\* The daemon never sleeps on newResultsLock without an engine that will
\* release it.
THEOREM WakeupNotLost == SafeSpec => []NoLostWakeup
BY SearchInvariance, PTL DEF IInv

\* dumpToDisk deletes no search whose threads still run.
THEOREM DeletedHasNoThread == SafeSpec => []NoThreadAfterDelete
<1>1. IInv => NoThreadAfterDelete
  <2>. SUFFICES ASSUME IInv, daemon = "deleted"
                PROVE  over = Engine /\ active = {}
    BY DEF NoThreadAfterDelete
  <2>1. \A e \in Engine : parser[e] = "done"
    BY DEF IInv, ResponseInv, FinishedInv
  <2>2. \A e \in Engine : e \in over /\ e \notin active
    BY <2>1 DEF IInv, PoolInv
  <2>. QED
    BY <2>2 DEF IInv, TypeOK
<1>. QED
  BY SearchInvariance, <1>1, PTL

\* What a row becomes: it keeps its url, its rank only gets better and its
\* engines only get more.
ImprovesTo(r, q) ==
  /\ q.url = r.url
  /\ q.num <= r.num
  /\ r.engines \subseteq q.engines

LEMMA AddRowImproves ==
  ASSUME NEW s \in Seq(Row), NEW r \in Row, NEW k \in 1 .. Len(s)
  PROVE  k \in 1 .. Len(AddRow(s, r)) /\ ImprovesTo(s[k], AddRow(s, r)[k])
<1>0. s[k] \in Row /\ Len(s) \in Nat /\ DOMAIN s = 1 .. Len(s)
  BY ElementOfSeq, LenProperties
<1>1. ImprovesTo(s[k], s[k])
  BY <1>0, LimitAssumption DEF ImprovesTo, Row
<1>2. CASE AddRow(s, r) = Append(s, r)
  <2>1. Len(Append(s, r)) = Len(s) + 1 /\ Append(s, r)[k] = s[k]
    BY <1>0, AppendProperties
  <2>. QED
    BY <1>0, <1>1, <1>2, <2>1
<1>3. ASSUME NEW i \in 1 .. Len(s), SameRow(s[i], r),
             AddRow(s, r) = [s EXCEPT ![i] = Improved(s[i], r)]
      PROVE  k \in 1 .. Len(AddRow(s, r)) /\ ImprovesTo(s[k], AddRow(s, r)[k])
  <2>1. s[i] \in Row
    BY ElementOfSeq
  <2>2. Improved(s[i], r) \in Row /\ ImprovesTo(s[i], Improved(s[i], r))
    BY <1>3, <2>1, ImprovedRow DEF ImprovesTo
  <2>3. Len(AddRow(s, r)) = Len(s)
    BY <1>0, <1>3, <2>2, ExceptSeq
  <2>4. AddRow(s, r)[k] = IF k = i THEN Improved(s[i], r) ELSE s[k]
    BY <1>0, <1>3
  <2>. QED
    BY <1>1, <2>2, <2>3, <2>4
<1>. QED
  BY <1>2, <1>3, AddRowCases

\* Neither merging the rows of one more engine nor sorting loses a url, its
\* better rank or the engines that found it.
THEOREM ResultsNeverWorsen == SafeSpec => ResultsOnlyImprove
<1>. DEFINE Step == \A k \in DOMAIN results : \E l \in DOMAIN results' :
                      /\ results'[l].url = results[k].url
                      /\ results'[l].num <= results[k].num
                      /\ results[k].engines \subseteq results'[l].engines
<1>1. TypeOK /\ [Next]_vars => [Step]_vars
  <2>. SUFFICES ASSUME TypeOK, Next, NEW k \in 1 .. Len(results)
                PROVE  \E l \in DOMAIN results' : ImprovesTo(results[k], results'[l])
    BY LenProperties DEF TypeOK, ImprovesTo
  <2>0. results \in Seq(Row) /\ results[k] \in Row
    BY ElementOfSeq DEF TypeOK
  <2>1. CASE results' = results
    BY <2>0, <2>1, LenProperties, LimitAssumption DEF ImprovesTo, Row
  <2>2. ASSUME NEW e \in Engine, MergeRow(e)
        PROVE  \E l \in DOMAIN results' : ImprovesTo(results[k], results'[l])
    <3>1. found[e] \in Seq(Url) /\ Len(found[e]) \in Nat /\ Len(found[e]) <= Limit
      BY LenProperties DEF TypeOK
    <3>2. next \in 1 .. Len(found[e])
      BY <2>2, <3>1, LimitAssumption DEF TypeOK, MergeRow
    <3>3. FoundRow(e, found[e], next) \in Row
      BY <3>1, <3>2, FoundRowType
    <3>4. results' = AddRow(results, FoundRow(e, found[e], next))
      BY <2>2 DEF MergeRow
    <3>5. DOMAIN results' = 1 .. Len(results')
      BY <2>0, <3>3, <3>4, AddRowType, LenProperties
    <3>6. k \in 1 .. Len(results') /\ ImprovesTo(results[k], results'[k])
      BY <2>0, <3>3, <3>4, AddRowImproves
    <3>. QED
      BY <3>5, <3>6
  <2>3. ASSUME NEW e \in Engine, SortResults(e)
        PROVE  \E l \in DOMAIN results' : ImprovesTo(results[k], results'[l])
    <3>1. results' \in Sorted(results)
      BY <2>3 DEF SortResults
    <3>2. results' \in Seq(Row) /\ Len(results') = Len(results)
      BY <2>0, <3>1, SortedRows
    <3>3. PICK l \in 1 .. Len(results) : results'[l] = results[k]
      BY <2>0, <3>1, SortedRows
    <3>4. DOMAIN results' = 1 .. Len(results)
      BY <3>2, LenProperties
    <3>. QED
      BY <2>0, <3>3, <3>4, LimitAssumption DEF ImprovesTo, Row
  <2>4. \/ results' = results
        \/ \E e \in Engine : MergeRow(e) \/ SortResults(e)
    BY DEF Next, Handler, Parser, Start, Parse, CloseParse, Signal, Finish,
       createThread, Submitted, WaitNoMore, WaitForMore, WakeUp, JoinAll, Respond,
       Poll, DumpToDisk, engineVars
  <2>. QED
    BY <2>1, <2>2, <2>3, <2>4
<1>. QED
  BY SearchTypeCorrect, <1>1, PTL DEF SafeSpec, ResultsOnlyImprove

-----------------------------------------------------------------------------
(***************************************************************************)
(* The results are the merge of what the engines found.                    *)
(***************************************************************************)

\* Row r is of its engine and its rank, and every engine it credits has its url.
Justified(r, W, f) ==
  /\ r.num + 1 \in W[r.from] /\ f[r.from][r.num + 1] = r.url
  /\ \A e \in r.engines : \E i \in W[e] : f[e][i] = r.url

\* The rows of s are the merge of the rows f[e][i], for i in W[e].
MergeOf(s, W, f) ==
  /\ \A k, l \in 1 .. Len(s) : s[k].url = s[l].url => k = l
  /\ \A e \in Engine : \A i \in W[e] : \E k \in 1 .. Len(s) :
       s[k].url = f[e][i] /\ e \in s[k].engines /\ s[k].num <= i - 1
  /\ \A k \in 1 .. Len(s) : Justified(s[k], W, f)

\* Which rows of e have gone into the results.
RowsIn == [e \in Engine |-> {i \in DOMAIN found[e] : InResults(e, i)}]

LEMMA MergeOfResults ==
  ASSUME TypeOK
  PROVE  ResultsAreMerge <=> MergeOf(results, RowsIn, found)
<1>1. DOMAIN results = 1 .. Len(results) /\ \A k \in 1 .. Len(results) : results[k] \in Row
  BY LenProperties, ElementOfSeq DEF TypeOK
<1>2. \A e \in Engine : \A i : InResults(e, i) <=> i \in RowsIn[e]
  BY DEF RowsIn, InResults
<1>3. \A k \in 1 .. Len(results) : /\ results[k].from \in Engine
                                  /\ results[k].engines \subseteq Engine
  BY <1>1 DEF Row
<1>4. \A e \in Engine : RowsIn[e] \subseteq DOMAIN found[e]
  BY DEF RowsIn
<1>. HIDE DEF RowsIn
<1>5. ASSUME ResultsAreMerge PROVE MergeOf(results, RowsIn, found)
  BY <1>1, <1>2, <1>3, <1>4, <1>5 DEF ResultsAreMerge, MergeOf, Justified
<1>6. ASSUME MergeOf(results, RowsIn, found) PROVE ResultsAreMerge
  BY <1>1, <1>2, <1>3, <1>4, <1>6 DEF ResultsAreMerge, MergeOf, Justified
<1>. QED
  BY <1>5, <1>6

\* One more row of engine e, its n-th.
LEMMA MergeOneMore ==
  ASSUME NEW s \in Seq(Row), NEW W \in [Engine -> SUBSET Nat],
         NEW f \in [Engine -> Seq(Url)], NEW e \in Engine, Len(f[e]) <= Limit,
         NEW n \in 1 .. Len(f[e]), MergeOf(s, W, f)
  PROVE  MergeOf(AddRow(s, FoundRow(e, f[e], n)), [W EXCEPT ![e] = @ \cup {n}], f)
<1>. DEFINE q == FoundRow(e, f[e], n)
            t == AddRow(s, q)
            V == [W EXCEPT ![e] = @ \cup {n}]
<1>1. /\ q \in Row /\ q.url = f[e][n] /\ q.num = n - 1 /\ q.from = e /\ q.engines = {e}
      /\ n \in Nat
  BY FoundRowType, LenProperties DEF FoundRow
<1>2. /\ V[e] = W[e] \cup {n} /\ \A g \in Engine : W[g] \subseteq V[g]
  OBVIOUS
<1>. HIDE DEF q, V
<1>3. \A k \in 1 .. Len(s) : /\ s[k] \in Row /\ s[k].from \in Engine
                            /\ s[k].num \in Nat /\ s[k].engines \subseteq Engine
  <2>1. \A k \in 1 .. Len(s) : s[k] \in Row
    BY ElementOfSeq
  <2>. QED
    BY <2>1, LimitAssumption DEF Row
<1>4. \A k \in 1 .. Len(s) : Justified(s[k], V, f)
  <2>. SUFFICES ASSUME NEW k \in 1 .. Len(s) PROVE Justified(s[k], V, f)
    OBVIOUS
  <2>1. Justified(s[k], W, f) /\ s[k].from \in Engine /\ s[k].engines \subseteq Engine
    BY <1>3 DEF MergeOf
  <2>. QED
    BY <1>2, <2>1 DEF Justified
<1>5. Justified(q, V, f)
  <2>. HIDE DEF t
  <2>1. q.num + 1 = n
    BY <1>1
  <2>2. n \in V[e]
    BY <1>2
  <2>3. q.num + 1 \in V[q.from] /\ f[q.from][q.num + 1] = q.url
    BY <1>1, <2>1, <2>2
  <2>4. \A g \in q.engines : \E i \in V[g] : f[g][i] = q.url
    BY <1>1, <2>2
  <2>. QED
    BY <2>3, <2>4 DEF Justified
<1>6. \A k \in 1 .. Len(s) : k \in 1 .. Len(t) /\ ImprovesTo(s[k], t[k])
  BY <1>1, AddRowImproves
<1>7. t \in Seq(Row) /\ \A k \in 1 .. Len(t) : t[k] \in Row /\ t[k].num \in Nat
  <2>1. t \in Seq(Row)
    BY <1>1, AddRowType
  <2>. HIDE DEF t
  <2>2. \A k \in 1 .. Len(t) : t[k] \in Row
    BY <2>1, ElementOfSeq
  <2>. QED
    BY <2>1, <2>2, LimitAssumption DEF Row
<1>8. ASSUME \A i \in 1 .. Len(s) : ~SameRow(s[i], q), t = Append(s, q)
      PROVE  MergeOf(t, V, f)
  <2>1. /\ Len(s) \in Nat /\ Len(t) = Len(s) + 1 /\ t[Len(s) + 1] = q
        /\ \A k \in 1 .. Len(s) : t[k] = s[k]
    BY <1>1, <1>8, AppendProperties, LenProperties
  <2>2. \A k \in 1 .. Len(t) : k \in 1 .. Len(s) \/ k = Len(s) + 1
    BY <2>1
  <2>. HIDE DEF t
  <2>3. \A k, l \in 1 .. Len(t) : t[k].url = t[l].url => k = l
    BY <1>8, <2>1, <2>2 DEF MergeOf, SameRow
  <2>4. \A g \in Engine : \A i \in V[g] : \E k \in 1 .. Len(t) :
          t[k].url = f[g][i] /\ g \in t[k].engines /\ t[k].num <= i - 1
    <3>. SUFFICES ASSUME NEW g \in Engine, NEW i \in V[g]
                  PROVE  \E k \in 1 .. Len(t) : /\ t[k].url = f[g][i] /\ g \in t[k].engines
                                                /\ t[k].num <= i - 1
      OBVIOUS
    <3>1. CASE i \in W[g]
      BY <3>1, <2>1, <1>6 DEF MergeOf
    <3>2. CASE g = e /\ i = n
      <4>1. Len(s) + 1 \in 1 .. Len(t)
        BY <2>1
      <4>2. q.url = f[g][i] /\ g \in q.engines /\ q.num <= i - 1
        BY <1>1, <3>2
      <4>. QED
        BY <2>1, <4>1, <4>2
    <3>. QED
      BY <3>1, <3>2 DEF V
  <2>5. \A k \in 1 .. Len(t) : Justified(t[k], V, f)
    BY <1>4, <1>5, <2>1, <2>2
  <2>. QED
    BY <2>3, <2>4, <2>5 DEF MergeOf
<1>9. ASSUME NEW j \in 1 .. Len(s), SameRow(s[j], q),
             t = [s EXCEPT ![j] = Improved(s[j], q)]
      PROVE  MergeOf(t, V, f)
  <2>1. /\ Improved(s[j], q) \in Row
        /\ Improved(s[j], q).url = s[j].url
        /\ Improved(s[j], q).num <= q.num
        /\ Improved(s[j], q).engines = s[j].engines \cup q.engines
        /\ \/ Improved(s[j], q).from = s[j].from /\ Improved(s[j], q).num = s[j].num
           \/ Improved(s[j], q).from = q.from /\ Improved(s[j], q).num = q.num
    <3>1. s[j] \in Row
      BY <1>3
    <3>. QED
      BY <1>1, <1>9, <3>1, ImprovedRow
  <2>2. /\ Len(t) = Len(s) /\ t[j] = Improved(s[j], q)
        /\ \A k \in 1 .. Len(s) : k # j => t[k] = s[k]
    BY <1>9, <2>1, ExceptSeq, LenProperties
  <2>3. s[j].url = q.url /\ q.url = f[e][n]
    BY <1>1, <1>9 DEF SameRow
  <2>. HIDE DEF t
  <2>4. \A k, l \in 1 .. Len(t) : t[k].url = t[l].url => k = l
    BY <2>1, <2>2 DEF MergeOf
  <2>5. \A g \in Engine : \A i \in V[g] : \E k \in 1 .. Len(t) :
          t[k].url = f[g][i] /\ g \in t[k].engines /\ t[k].num <= i - 1
    <3>. SUFFICES ASSUME NEW g \in Engine, NEW i \in V[g]
                  PROVE  \E k \in 1 .. Len(t) : /\ t[k].url = f[g][i] /\ g \in t[k].engines
                                                /\ t[k].num <= i - 1
      OBVIOUS
    <3>1. CASE i \in W[g]
      <4>1. PICK k \in 1 .. Len(s) : /\ s[k].url = f[g][i] /\ g \in s[k].engines
                                     /\ s[k].num <= i - 1
        BY <3>1 DEF MergeOf
      <4>2. i \in Nat
        BY <3>1
      <4>3. k \in 1 .. Len(t) /\ ImprovesTo(s[k], t[k])
        BY <1>6
      <4>4. s[k].num \in Nat /\ t[k].num \in Nat
        BY <1>3, <1>7, <4>3
      <4>. QED
        BY <4>1, <4>2, <4>3, <4>4 DEF ImprovesTo
    <3>2. CASE g = e /\ i = n
      BY <3>2, <2>1, <2>2, <2>3, <1>1
    <3>. QED
      BY <3>1, <3>2 DEF V
  <2>6. \A k \in 1 .. Len(t) : Justified(t[k], V, f)
    <3>1. Justified(t[j], V, f)
      <4>1. Justified(s[j], V, f) /\ s[j].url = q.url
        BY <1>4, <2>3
      <4>. QED
        <5>1. /\ t[j].url = q.url /\ t[j].engines = s[j].engines \cup q.engines
              /\ \/ t[j].from = s[j].from /\ t[j].num = s[j].num
                 \/ t[j].from = q.from /\ t[j].num = q.num
          BY <2>1, <2>2, <4>1
        <5>. QED
          BY <1>5, <4>1, <5>1 DEF Justified
    <3>. QED
      BY <1>4, <2>2, <3>1
  <2>. QED
    BY <2>4, <2>5, <2>6 DEF MergeOf
<1>. QED
  <2>1. MergeOf(t, V, f)
    BY <1>1, <1>8, <1>9, AddRowCases
  <2>. QED
    BY <2>1 DEF q, V

\* A sort puts the same rows in other places.
LEMMA MergeSorted ==
  ASSUME NEW s \in Seq(Row), NEW t \in Sorted(s), NEW W, NEW f, MergeOf(s, W, f)
  PROVE  MergeOf(t, W, f)
<1>0. DOMAIN s = 1 .. Len(s) /\ Len(s) \in Nat
  BY LenProperties
<1>1. PICK p \in Bijection(1 .. Len(s), 1 .. Len(s)) :
        t = [i \in 1 .. Len(s) |-> s[p[i]]]
  BY <1>0 DEF Sorted
<1>2. /\ p \in [1 .. Len(s) -> 1 .. Len(s)]
      /\ \A i, j \in 1 .. Len(s) : p[i] = p[j] => i = j
  BY DEF Bijection, Injection, Surjection, IsInjective
<1>3. /\ Len(t) = Len(s)
      /\ \A k \in 1 .. Len(s) : \E l \in 1 .. Len(s) : t[l] = s[k]
      /\ \A l \in 1 .. Len(s) : \E k \in 1 .. Len(s) : t[l] = s[k]
  BY SortedRows
<1>4. \A k, l \in 1 .. Len(t) : t[k].url = t[l].url => k = l
  <2>. SUFFICES ASSUME NEW k \in 1 .. Len(s), NEW l \in 1 .. Len(s), t[k].url = t[l].url
                PROVE  k = l
    BY <1>3
  <2>1. t[k] = s[p[k]] /\ t[l] = s[p[l]] /\ p[k] \in 1 .. Len(s) /\ p[l] \in 1 .. Len(s)
    BY <1>1, <1>2
  <2>2. p[k] = p[l]
    BY <2>1 DEF MergeOf
  <2>. QED
    BY <1>2, <2>2
<1>. HIDE DEF Sorted
<1>5. \A e \in Engine : \A i \in W[e] : \E k \in 1 .. Len(t) :
        t[k].url = f[e][i] /\ e \in t[k].engines /\ t[k].num <= i - 1
  <2>. SUFFICES ASSUME NEW e \in Engine, NEW i \in W[e]
                PROVE  \E k \in 1 .. Len(t) : /\ t[k].url = f[e][i] /\ e \in t[k].engines
                                              /\ t[k].num <= i - 1
    OBVIOUS
  <2>1. PICK k \in 1 .. Len(s) : /\ s[k].url = f[e][i] /\ e \in s[k].engines
                                 /\ s[k].num <= i - 1
    BY DEF MergeOf
  <2>2. PICK l \in 1 .. Len(t) : t[l] = s[k]
    BY <1>3
  <2>. QED
    BY <2>1, <2>2
<1>6. \A k \in 1 .. Len(t) : Justified(t[k], W, f)
  <2>. SUFFICES ASSUME NEW k \in 1 .. Len(t) PROVE Justified(t[k], W, f)
    OBVIOUS
  <2>1. PICK l \in 1 .. Len(s) : t[k] = s[l]
    BY <1>3
  <2>. QED
    BY <2>1 DEF MergeOf
<1>. QED
  BY <1>4, <1>5, <1>6 DEF MergeOf

\* No more is in the results after any other step, since only the holder of the lock
\* merges, and what is there has been found for good.
LEMMA RowsInNext ==
  ASSUME IInv, [Next]_vars
  PROVE  \/ /\ UNCHANGED results /\ RowsIn' = RowsIn
            /\ \A e \in Engine : RowsIn[e] # {} => found'[e] = found[e]
         \/ \E e \in Engine : /\ MergeRow(e) /\ found' = found
                              /\ RowsIn' = [RowsIn EXCEPT ![e] = @ \cup {next}]
         \/ \E e \in Engine : /\ SortResults(e) /\ found' = found /\ RowsIn' = RowsIn
<1>. USE DEF IInv, LockInv
<1>1. CASE UNCHANGED vars \/ Handler \/ Poll \/ DumpToDisk
  <2>1. UNCHANGED <<parser, found, next, results>>
    BY <1>1 DEF vars, engineVars, Handler, createThread, Submitted, WaitNoMore,
       WaitForMore, WakeUp, JoinAll, Respond, Poll, DumpToDisk
  <2>. QED
    BY <2>1 DEF RowsIn, InResults, Merged
<1>2. ASSUME NEW e \in Engine, Parser(e)
      PROVE  \/ /\ UNCHANGED results /\ RowsIn' = RowsIn
                /\ \A g \in Engine : RowsIn[g] # {} => found'[g] = found[g]
             \/ /\ MergeRow(e) /\ found' = found
                /\ RowsIn' = [RowsIn EXCEPT ![e] = @ \cup {next}]
             \/ /\ SortResults(e) /\ found' = found /\ RowsIn' = RowsIn
  <2>1. \A g \in Engine : /\ found[g] \in Seq(Url) /\ DOMAIN found[g] = 1 .. Len(found[g])
                          /\ Len(found[g]) \in Nat
    BY LenProperties DEF TypeOK
  <2>2. next \in Nat /\ next >= 1
    BY LimitAssumption DEF TypeOK
  <2>3. CASE Start(e) \/ Signal(e) \/ Finish(e)
    <3>1. /\ UNCHANGED <<found, next, results>>
          /\ \A g \in Engine : /\ g \in Merged' <=> g \in Merged
                               /\ parser'[g] = "merging" <=> parser[g] = "merging"
      BY <2>3 DEF TypeOK, Start, Signal, Finish, Merged
    <3>. QED
      BY <3>1 DEF RowsIn, InResults
  <2>4. CASE Parse(e)
    <3>1. /\ UNCHANGED <<next, results>>
          /\ \A g \in Engine : /\ g \in Merged' <=> g \in Merged
                               /\ parser'[g] = "merging" <=> parser[g] = "merging"
                               /\ g # e => found'[g] = found[g]
          /\ e \notin Merged /\ parser[e] # "merging"
      BY <2>4 DEF TypeOK, Parse, Merged
    <3>2. \A g \in Engine : RowsIn'[g] = RowsIn[g] /\ (RowsIn[g] # {} => found'[g] = found[g])
      BY <3>1 DEF RowsIn, InResults
    <3>. QED
      BY <3>1, <3>2 DEF RowsIn
  <2>5. CASE CloseParse(e)
    <3>1. /\ UNCHANGED <<found, results>> /\ next' = 1
          /\ \A g \in Engine : /\ g \in Merged' <=> g \in Merged
                               /\ parser'[g] = "merging" <=> g = e
                               /\ parser[g] # "merging"
          /\ e \notin Merged
      BY <2>5, EngineAssumption DEF TypeOK, CloseParse, Merged
    <3>2. \A g \in Engine : RowsIn'[g] = RowsIn[g]
      BY <2>1, <3>1 DEF RowsIn, InResults
    <3>. QED
      BY <3>1, <3>2 DEF RowsIn
  <2>6. CASE MergeRow(e)
    <3>1. /\ UNCHANGED <<found, parser>> /\ next' = next + 1 /\ next \in DOMAIN found[e]
          /\ \A g \in Engine : parser[g] = "merging" <=> g = e
          /\ e \notin Merged
      BY <2>1, <2>2, <2>6 DEF MergeRow, Merged
    <3>2. \A g \in Engine : RowsIn'[g] = IF g = e THEN RowsIn[g] \cup {next} ELSE RowsIn[g]
      BY <2>1, <2>2, <3>1 DEF RowsIn, InResults, Merged
    <3>. QED
      BY <2>6, <3>1, <3>2 DEF RowsIn
  <2>7. CASE SortResults(e)
    <3>1. /\ UNCHANGED <<found, next>> /\ next > Len(found[e])
          /\ parser[e] = "merging" /\ parser' = [parser EXCEPT ![e] = "sorted"]
          /\ \A g \in Engine : parser[g] = "merging" => g = e
      BY <2>7 DEF SortResults
    <3>2. /\ e \in Merged' /\ e \notin Merged
          /\ \A g \in Engine \ {e} : g \in Merged' <=> g \in Merged
          /\ \A g \in Engine : parser'[g] # "merging"
      BY <3>1 DEF TypeOK, Merged
    <3>3. \A g \in Engine : RowsIn'[g] = RowsIn[g]
      BY <2>1, <2>2, <3>1, <3>2 DEF RowsIn, InResults
    <3>. QED
      BY <2>7, <3>1, <3>3 DEF RowsIn
  <2>. QED
    BY <1>2, <2>3, <2>4, <2>5, <2>6, <2>7 DEF Parser
<1>. QED
  BY <1>1, <1>2 DEF Next

LEMMA MergeNext == IInv /\ ResultsAreMerge /\ [Next]_vars => ResultsAreMerge'
<1>. SUFFICES ASSUME IInv, ResultsAreMerge, [Next]_vars
              PROVE  ResultsAreMerge'
  OBVIOUS
<1>0. /\ TypeOK /\ results \in Seq(Row) /\ found \in [Engine -> Seq(Url)]
      /\ MergeOf(results, RowsIn, found)
  BY MergeOfResults DEF IInv, TypeOK
<1>1. ResultsAreMerge' <=> MergeOf(results', RowsIn', found')
  <2>1. TypeOK'
    BY TypeNext DEF IInv
  <2>2. (ResultsAreMerge <=> MergeOf(results, RowsIn, found))'
    BY <2>1, MergeOfResults, PTL
  <2>. QED
    BY <2>2
<1>2. RowsIn \in [Engine -> SUBSET Nat]
  <2>1. \A e \in Engine : DOMAIN found[e] \subseteq Nat
    BY <1>0, LenProperties
  <2>. QED
    BY <2>1 DEF RowsIn
<1>3. CASE /\ UNCHANGED results /\ RowsIn' = RowsIn
           /\ \A e \in Engine : RowsIn[e] # {} => found'[e] = found[e]
  <2>1. \A k \in 1 .. Len(results) : /\ results[k].from \in Engine
                                    /\ results[k].engines \subseteq Engine
    <3>1. \A k \in 1 .. Len(results) : results[k] \in Row
      BY <1>0, ElementOfSeq
    <3>. QED
      BY <3>1 DEF Row
  <2>. HIDE DEF RowsIn
  <2>2. \A e \in Engine : \A i \in RowsIn[e] : found'[e] = found[e]
    BY <1>3
  <2>3. MergeOf(results, RowsIn, found')
    <3>1. \A k \in 1 .. Len(results) : Justified(results[k], RowsIn, found')
      <4>. SUFFICES ASSUME NEW k \in 1 .. Len(results)
                    PROVE  Justified(results[k], RowsIn, found')
        OBVIOUS
      <4>1. Justified(results[k], RowsIn, found)
        BY <1>0 DEF MergeOf
      <4>. QED
        BY <2>1, <2>2, <4>1 DEF Justified
    <3>2. \A e \in Engine : \A i \in RowsIn[e] : found'[e][i] = found[e][i]
      BY <2>2
    <3>. QED
      BY <1>0, <3>1, <3>2 DEF MergeOf
  <2>. QED
    BY <1>1, <1>3, <2>3
<1>4. ASSUME NEW e \in Engine, MergeRow(e), found' = found,
             RowsIn' = [RowsIn EXCEPT ![e] = @ \cup {next}]
      PROVE  ResultsAreMerge'
  <2>1. /\ results' = AddRow(results, FoundRow(e, found[e], next))
        /\ next \in 1 .. Len(found[e]) /\ Len(found[e]) <= Limit
    BY <1>4, LimitAssumption DEF MergeRow, IInv, TypeOK
  <2>. QED
    BY <1>0, <1>1, <1>2, <1>4, <2>1, MergeOneMore
<1>5. ASSUME NEW e \in Engine, SortResults(e), found' = found, RowsIn' = RowsIn
      PROVE  ResultsAreMerge'
  BY <1>0, <1>1, <1>5, MergeSorted DEF SortResults
<1>. QED
  BY <1>3, <1>4, <1>5, RowsInNext

\* In whatever order the engines report, the results are the merge of what they
\* found: addRankedResults under results_lock.
THEOREM MergeOfAllFound == SafeSpec => []ResultsAreMerge
<1>1. Init => ResultsAreMerge
  <2>. SUFFICES ASSUME Init PROVE ResultsAreMerge
    OBVIOUS
  <2>1. DOMAIN results = {} /\ \A e \in Engine : DOMAIN found[e] = {}
    BY DEF Init
  <2>. QED
    BY <2>1 DEF ResultsAreMerge
<1>. QED
  BY SearchInvariance, <1>1, MergeNext, PTL DEF SafeSpec
=============================================================================
