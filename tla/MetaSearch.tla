----------------------------- MODULE MetaSearch -----------------------------
(***************************************************************************)
(* One search: a metaRank, its rowContainer and one pageParser per engine, *)
(* run by a pool of threads, while the only thread of the HTTP daemon      *)
(* answers the client's requests for results.                              *)
(*                                                                         *)
(*   tdwrapper/metaRank.cpp     startParsing, waitForNewResults            *)
(*   tdwrapper/pageParser.cpp   startParsing, closeParse                   *)
(*   tdcommon/rowContainer.cpp  addRankedResults, waitForNewResults        *)
(*   tddaemon/tddaemon.cpp      newQuery, get_next_results, createJSON     *)
(*                                                                         *)
(* The pool is used as PoolService describes it (ThreadPool implements     *)
(* that).  Two locks remain: results_lock, which is the pool's own mutex,  *)
(* so that createThread waits while an engine merges; and newResultsLock,  *)
(* a mutex used as a binary semaphore: created locked, unlocked by each    *)
(* engine that has merged its rows, locked again by the daemon.            *)
(***************************************************************************)
EXTENDS RowMerge, FiniteSets

CONSTANTS
  Engine,       \* the engines of the query
  Url,          \* the urls they may find
  Limit,        \* the most rows an engine returns
  MaxThreads,   \* of the pool
  NoEngine,     \* results_lock is free
  Garbage       \* what is read from a vector while another thread changes it

ASSUME EngineAssumption == IsFiniteSet(Engine) /\ NoEngine \notin Engine
ASSUME LimitAssumption == Limit \in Nat
ASSUME ThreadsAssumption == MaxThreads \in Int

VARIABLES
  submitted, active, over, phase,   \* the pool, see PoolService
  parser,        \* where each engine's pageParser is
  found,         \* pageParser::results: the urls it found, in rank order
  count,         \* rowContainer::engines: -1 until the engine reports
  results,       \* rowContainer::results
  results_lock,  \* the engine that is merging, or NoEngine
  next,          \* the index of the row it adds next
  newResults,    \* newResultsLock: TRUE when unlocked
  daemon,        \* where the daemon's thread is
  finished,      \* metaRank::finished
  torn,          \* the results were changed while the daemon was reading them
  response       \* the last answer sent to the client

poolVars == <<submitted, active, over, phase>>
engineVars == <<parser, found, count, results, results_lock, next>>
daemonVars == <<daemon, finished, torn, response>>
vars == <<poolVars, engineVars, newResults, daemonVars>>

Pool == INSTANCE PoolService WITH Task <- Engine

\* The lists of urls an engine may return: doParse drops the rows it has, and
\* stops at the limit.  A failed engine returns what it had found before.  That
\* it is so is PageParser!ReturnsFindings.
Findings == RowLists(Url, Limit)

NoResponse == [final |-> FALSE, rows |-> <<>>, upto |-> {}]

Init ==
  /\ Pool!Init
  /\ parser = [e \in Engine |-> "new"]
  /\ found = [e \in Engine |-> <<>>]
  /\ count = [e \in Engine |-> -1]
  /\ results = <<>>
  /\ results_lock = NoEngine
  /\ next = 1
  /\ newResults = FALSE
  /\ daemon = "startParsing"
  /\ finished = FALSE
  /\ torn = FALSE
  /\ response = NoResponse

-----------------------------------------------------------------------------
\* The threads of the engines: pageParser::startParsing.

\* A thread of the pool takes the engine and queries it.
Start(e) ==
  /\ Pool!Start(e)
  /\ parser[e] = "new"
  /\ parser' = [parser EXCEPT ![e] = "parsing"]
  /\ UNCHANGED <<found, count, results, results_lock, next, newResults, daemonVars>>

\* initParse and doParse are over, by their end, an error or an exception; each
\* way leads to closeParse.
Parse(e) ==
  /\ parser[e] = "parsing"
  /\ \E us \in Findings : found' = [found EXCEPT ![e] = us]
  /\ parser' = [parser EXCEPT ![e] = "closing"]
  /\ UNCHANGED <<poolVars, count, results, results_lock, next, newResults, daemonVars>>

\* closeParse takes the lock; addRankedResults: engines[sname] = r.size().
CloseParse(e) ==
  /\ parser[e] = "closing"
  /\ results_lock = NoEngine
  /\ results_lock' = e
  /\ count' = [count EXCEPT ![e] = Len(found[e])]
  /\ next' = 1
  /\ parser' = [parser EXCEPT ![e] = "merging"]
  /\ UNCHANGED <<poolVars, found, results, newResults, daemonVars>>

\* Whoever changes the vector while the daemon walks through it tears it.
Tears == torn' = (torn \/ daemon = "reading")

\* One row goes into the results.
MergeRow(e) ==
  /\ parser[e] = "merging"
  /\ next <= Len(found[e])
  /\ results' = AddRow(results, FoundRow(e, found[e], next))
  /\ next' = next + 1
  /\ Tears
  /\ UNCHANGED <<poolVars, parser, found, count, results_lock, newResults,
                 daemon, finished, response>>

\* sortResults(ROW_NUMBER)
SortResults(e) ==
  /\ parser[e] = "merging"
  /\ next > Len(found[e])
  /\ results' \in Sorted(results)
  /\ parser' = [parser EXCEPT ![e] = "sorted"]
  /\ Tears
  /\ UNCHANGED <<poolVars, found, count, results_lock, next, newResults,
                 daemon, finished, response>>

\* Mutant: the semaphore is not released.
SignalForgotten(e) ==
  /\ parser[e] = "sorted"
  /\ parser' = [parser EXCEPT ![e] = "signalled"]
  /\ UNCHANGED <<poolVars, found, count, results, results_lock, next, newResults,
                 daemonVars>>

\* threadPool<rowContainer>::unlock(newResultsLock)
Signal(e) ==
  /\ parser[e] = "sorted"
  /\ newResults' = TRUE
  /\ parser' = [parser EXCEPT ![e] = "signalled"]
  /\ UNCHANGED <<poolVars, found, count, results, results_lock, next, daemonVars>>

\* closeParse releases the lock and the thread goes back to its pool.
Finish(e) ==
  /\ parser[e] = "signalled"
  /\ Pool!Finish(e)
  /\ results_lock' = NoEngine
  /\ parser' = [parser EXCEPT ![e] = "done"]
  /\ UNCHANGED <<found, count, results, next, newResults, daemonVars>>

-----------------------------------------------------------------------------
\* The daemon.

\* metaRank::startParsing gives the engines to the pool, one by one.
createThread(e) ==
  /\ daemon = "startParsing"
  /\ results_lock = NoEngine
  /\ Pool!Submit(e)
  /\ UNCHANGED <<engineVars, newResults, daemonVars>>

\* newQuery goes on to createJSON(waitForNewResults(), ...).
Submitted ==
  /\ daemon = "startParsing"
  /\ submitted = Engine
  /\ daemon' = "asking"
  /\ UNCHANGED <<poolVars, engineVars, newResults, finished, torn, response>>

everyResultsReceived == \A e \in Engine : count[e] # -1

\* rowContainer::waitForNewResults: everything is there, so joinAll is called ...
WaitNoMore ==
  /\ daemon = "asking"
  /\ everyResultsReceived
  /\ Pool!Join
  /\ daemon' = "joining"
  /\ UNCHANGED <<engineVars, newResults, finished, torn, response>>

\* ... or the semaphore will be waited for.
WaitForMore ==
  /\ daemon = "asking"
  /\ ~everyResultsReceived
  /\ daemon' = "blocked"
  /\ UNCHANGED <<poolVars, engineVars, newResults, finished, torn, response>>

\* threadPool<rowContainer>::lock(newResultsLock) gets it; return false.
WakeUp ==
  /\ daemon = "blocked"
  /\ newResults
  /\ newResults' = FALSE
  /\ daemon' = "reading"
  /\ torn' = FALSE
  /\ UNCHANGED <<poolVars, engineVars, finished, response>>

\* Mutant: joinAll is left out.
JoinAllForgotten ==
  /\ daemon = "joining"
  /\ finished' = TRUE
  /\ daemon' = "reading"
  /\ torn' = FALSE
  /\ UNCHANGED <<poolVars, engineVars, newResults, response>>

\* joinAll returns; setFinished(); return true.
JoinAll ==
  /\ daemon = "joining"
  /\ Pool!Return
  /\ finished' = TRUE
  /\ daemon' = "reading"
  /\ torn' = FALSE
  /\ UNCHANGED <<engineVars, newResults, response>>

\* The engines whose rows are all in the results.
Merged == {e \in Engine : parser[e] \in {"sorted", "signalled", "done"}}

\* createJSON has gone through the results, which nothing protects, and the
\* answer is sent.
Respond ==
  /\ daemon = "reading"
  /\ \E rows \in IF torn THEN {results, Garbage} ELSE {results} :
       response' = [final |-> finished, rows |-> rows, upto |-> Merged]
  /\ daemon' = "idle"
  /\ UNCHANGED <<poolVars, engineVars, newResults, finished, torn>>

\* The client asks for the next results (getnextresults): it does so as long as
\* the last answer was not final.
Poll ==
  /\ daemon = "idle"
  /\ ~response.final
  /\ daemon' = "asking"
  /\ UNCHANGED <<poolVars, engineVars, newResults, finished, torn, response>>

\* Mutant: any search may be dropped.
Droppable == daemon = "idle"

\* dumpToDisk takes the searches for which isFinished() is true.
MayDump == daemon = "idle" /\ finished

\* Any request that looks for a search first dumps those that are finished, and
\* deletes the metaRank, its pageParsers and its pool.
DumpToDisk ==
  /\ MayDump
  /\ daemon' = "deleted"
  /\ UNCHANGED <<poolVars, engineVars, newResults, finished, torn, response>>

-----------------------------------------------------------------------------
Parser(e) ==
  \/ Start(e)
  \/ Parse(e)
  \/ CloseParse(e)
  \/ MergeRow(e)
  \/ SortResults(e)
  \/ Signal(e)
  \/ Finish(e)

Handler ==
  \/ \E e \in Engine : createThread(e)
  \/ Submitted
  \/ WaitNoMore
  \/ WaitForMore
  \/ WakeUp
  \/ JoinAll
  \/ Respond

Next ==
  \/ \E e \in Engine : Parser(e)
  \/ Handler
  \/ Poll
  \/ DumpToDisk

(***************************************************************************)
(* Fairness: the threads run, every page is received or given up (cURL's   *)
(* timeouts, the limit), and the client polls again, as PerformSearch does *)
(* after each answer that is not final.                                    *)
(***************************************************************************)
Fairness ==
  /\ \A e \in Engine : WF_vars(Parser(e))
  /\ WF_vars(Handler)
  /\ WF_vars(Poll)

SafeSpec == Init /\ [][Next]_vars
Spec == SafeSpec /\ Fairness
-----------------------------------------------------------------------------
Row == [url : Url, num : 0 .. Limit - 1, from : Engine, engines : SUBSET Engine]

\* The types; an engine finds no more than Limit rows.
TypeOK ==
  /\ submitted \subseteq Engine /\ active \subseteq Engine /\ over \subseteq Engine
  /\ phase \in {"submitting", "joining", "joined"}
  /\ parser \in [Engine -> {"new", "parsing", "closing", "merging", "sorted",
                            "signalled", "done"}]
  /\ found \in [Engine -> Seq(Url)]
  /\ \A e \in Engine : Len(found[e]) <= Limit
  /\ count \in [Engine -> -1 .. Limit]
  /\ results \in Seq(Row)
  /\ results_lock \in Engine \cup {NoEngine}
  /\ next \in 1 .. Limit + 1
  /\ newResults \in BOOLEAN
  /\ daemon \in {"startParsing", "asking", "blocked", "joining", "reading",
                 "idle", "deleted"}
  /\ finished \in BOOLEAN
  /\ torn \in BOOLEAN
  /\ response.final \in BOOLEAN /\ response.upto \subseteq Engine

\* Has row i of engine e gone into the results?
InResults(e, i) ==
  /\ i \in DOMAIN found[e]
  /\ e \in Merged \/ (parser[e] = "merging" /\ i < next)

\* In whatever order the engines report, the results are the merge of what
\* they found: one row per url, credited to every engine that found it, and
\* taken from an engine that ranked it best.
ResultsAreMerge ==
  /\ \A k, l \in DOMAIN results : results[k].url = results[l].url => k = l
  /\ \A e \in Engine : \A i \in DOMAIN found[e] :
       InResults(e, i) => \E k \in DOMAIN results :
                            /\ results[k].url = found[e][i]
                            /\ e \in results[k].engines
                            /\ results[k].num <= i - 1
  /\ \A k \in DOMAIN results :
       LET r == results[k]
       IN /\ InResults(r.from, r.num + 1) /\ found[r.from][r.num + 1] = r.url
          /\ \A e \in r.engines : \E i \in DOMAIN found[e] :
               InResults(e, i) /\ found[e][i] = r.url

\* "return true if every awaited results are available"
\* (metaRank::waitForNewResults): the final answer was not read while a thread
\* changed the results, it has them all, and they are in order, although it is
\* enough for an engine to have stored its count, and not yet its rows, for
\* everyResultsReceived to say yes.
FinalIsComplete ==
  response.final =>
    /\ response.rows = results
    /\ response.upto = Engine
    /\ InOrder(results)

\* The daemon, which serves all clients, never sleeps on the semaphore when no
\* engine is left to release it: it looks at the counts and then locks, and
\* several releases count for one.
NoLostWakeup ==
  daemon = "blocked" /\ ~newResults =>
    \E e \in Engine : parser[e] \notin {"signalled", "done"}

\* dumpToDisk deletes the search, its pageParsers and its pool: no thread may
\* be left that uses them.
NoThreadAfterDelete == daemon = "deleted" => over = Engine /\ active = {}

\* A url that has been found stays, its rank only gets better and its list of
\* engines only grows.  metaRank.h expects less: the number of results "can decrease
\* when ranking is started, due to multiple same results", for which
\* getResultsNumber remembers an older number.  The code ranks while it merges, and
\* a repeated url joins the row that is there: it takes no row away.
ResultsOnlyImprove ==
  [][\A k \in DOMAIN results : \E l \in DOMAIN results' :
       /\ results'[l].url = results[k].url
       /\ results'[l].num <= results[k].num
       /\ results[k].engines \subseteq results'[l].engines]_vars

\* The client gets the final answer.
FinalAnswer == <>response.final
=============================================================================
