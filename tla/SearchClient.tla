---------------------------- MODULE SearchClient ----------------------------
(***************************************************************************)
(* The searches of one browser, each in its tab, and the one thread of the *)
(* daemon that answers them all.                                           *)
(*                                                                         *)
(*   tddaemonclient/.../PerformSearch.java  doPostURL, updateGrid,         *)
(*                                          updateProgress, parseCookies   *)
(*   tddaemon/tddaemon.cpp                  newQuery, get_next_results,    *)
(*                                          createJSON                     *)
(*   tdwrapper/metaRank.cpp, tdcommon/rowContainer.cpp  waitForNewResults  *)
(*                                                                         *)
(* A search is what MetaSearch shows of it to the daemon: engines whose    *)
(* count is stored, engines whose rows are merged, and newResultsLock.     *)
(* Every request has a connection of its own; the daemon takes the         *)
(* requests in any order and waits inside each of them, and the answers    *)
(* reach the browser in any order.  Requests fail, and the daemon may be   *)
(* restarted, which forgets the searches and the cookies.                  *)
(***************************************************************************)
EXTENDS Naturals, FiniteSets

CONSTANTS
  Search,       \* the searches of the browser
  Engines,      \* the engines each of them asks
  NoSearch,
  Garbage,      \* rows that were read while an engine changed them
  MaxFailures,  \* bound: the requests that fail
  MaxRestarts   \* bound: the restarts of the daemon

ASSUME SearchAssumption ==
  /\ NoSearch \notin Search
  /\ DOMAIN Engines = Search /\ \A s \in Search : IsFiniteSet(Engines[s])
ASSUME GarbageAssumption ==
  \A rows \in SUBSET UNION {Engines[s] : s \in Search} : rows # Garbage
ASSUME BoundsAssumption == MaxFailures \in Nat /\ MaxRestarts \in Nat

VARIABLES
  tab,        \* "new", "polling", "over", or "stopped" by an error
  tdsession,  \* PerformSearch::tdsession: the search it names
  shown,      \* what the two stores of a tab hold
  nsent,      \* the requests a tab has sent
  requests,   \* those the daemon has not taken
  answers,    \* those on their way back
  daemon,     \* where the thread of the daemon is
  known,      \* the cookie of the browser is one the daemon knows
  searches,   \* the searches it knows
  counted,    \* of each: the engines whose count is stored
  merged,     \* ... whose rows are in the results
  released,   \* newResultsLock is unlocked
  failures, restarts,
  failed      \* history: the tabs that an error has reached

clientVars == <<tab, tdsession, shown, nsent>>
engineVars == <<counted, merged, released>>
faultVars == <<failures, restarts, failed>>
vars == <<clientVars, requests, answers, daemon, known, searches, engineVars, faultVars>>

NothingShown == [of |-> NoSearch, counted |-> {}, rows |-> {}]
Idle == [at |-> "idle", of |-> NoSearch, tab |-> NoSearch, n |-> 0,
         counted |-> {}, torn |-> FALSE]

Init ==
  /\ tab = [s \in Search |-> "new"]
  /\ tdsession = [s \in Search |-> NoSearch]
  /\ shown = [s \in Search |-> NothingShown]
  /\ nsent = [s \in Search |-> 0]
  /\ requests = {} /\ answers = {}
  /\ daemon = Idle /\ known = TRUE
  /\ searches = {}
  /\ counted = [s \in Search |-> {}]
  /\ merged = [s \in Search |-> {}]
  /\ released = [s \in Search |-> FALSE]
  /\ failures = 0 /\ restarts = 0 /\ failed = {}

-----------------------------------------------------------------------------
(* The browser. *)

\* The n-th request of tab s: query_post without a session, get_next_results with
\* the one the tab has by then.
Request(s, n, session) == [tab |-> s, n |-> n, session |-> session]

\* A new search: the constructor ends with doPostURL(DEFAULT_SEARCH_URL).
PerformSearch(s) ==
  /\ tab[s] = "new"
  /\ tab' = [tab EXCEPT ![s] = "polling"]
  /\ requests' = requests \cup {Request(s, 1, NoSearch)}
  /\ nsent' = [nsent EXCEPT ![s] = 1]
  /\ UNCHANGED <<tdsession, shown, answers, daemon, known, searches,
                 engineVars, faultVars>>

\* Mutant: the session is kept for all tabs, as a cookie would be.
SharedSession(s, session) == [t \in Search |-> session]

\* parseCookies, with the Set-TDSession of an answer.
parseCookies(s, session) == [tdsession EXCEPT ![s] = session]

\* Mutant: a second request is sent along with the one for the next results.
AskTwice(s, session) ==
  {Request(s, nsent[s] + 1, session), Request(s, nsent[s] + 2, session)}

\* updateGrid: doPostURL(DEFAULT_NEXT_URL).
NextRequests(s, session) == {Request(s, nsent[s] + 1, session)}

\* Mutant: the next request waits until the answer is in the stores.
AsksAfterLoading(a) == a.body = "results" /\ ~a.final /\ ~a.broken

\* updateGrid looks at the beginning of the text before anything is parsed.
AsksForMore(a) == a.body = "results" /\ ~a.final

\* loadJsonData takes a text that parses, and throws on another before a store
\* has changed.
Loads(a) == a.body = "results" /\ ~a.broken

\* onResponseReceived, status 200: parseCookies and updateGrid.  Whatever
\* loadJsonData throws is caught.
OnResponseReceived(a) ==
  /\ a \in answers /\ a.body # "status"
  /\ answers' = answers \ {a}
  /\ LET s == a.tab
         more == NextRequests(s, tdsession'[s])
     IN /\ tdsession' = IF a.n = 1 THEN parseCookies(s, a.of) ELSE tdsession
        /\ IF AsksForMore(a)
           THEN /\ requests' = requests \cup more
                /\ nsent' = [nsent EXCEPT ![s] = @ + Cardinality(more)]
                /\ UNCHANGED tab
           ELSE /\ tab' = [tab EXCEPT ![s] = IF Loads(a) THEN "over" ELSE "stopped"]
                /\ UNCHANGED <<requests, nsent>>
        /\ shown' = IF Loads(a)
                    THEN [shown EXCEPT ![s] = [of |-> a.of, counted |-> a.counted,
                                               rows |-> a.rows]]
                    ELSE shown
        /\ failed' = IF a.body = "empty" THEN failed \cup {s} ELSE failed
  /\ UNCHANGED <<daemon, known, searches, engineVars, failures, restarts>>

\* Another status: no more requests.
WrongStatus(a) ==
  /\ a \in answers /\ a.body = "status"
  /\ answers' = answers \ {a}
  /\ tab' = [tab EXCEPT ![a.tab] = "stopped"]
  /\ failed' = failed \cup {a.tab}
  /\ UNCHANGED <<tdsession, shown, nsent, requests, daemon, known, searches,
                 engineVars, failures, restarts>>

\* onError for the tabs in S.
OnError(S) ==
  /\ tab' = [s \in Search |-> IF s \in S THEN "stopped" ELSE tab[s]]
  /\ failed' = failed \cup S
  /\ UNCHANGED <<tdsession, shown, nsent>>

\* A request or its answer is lost.
Fail ==
  /\ failures < MaxFailures
  /\ failures' = failures + 1
  /\ \/ \E r \in requests : requests' = requests \ {r} /\ OnError({r.tab})
                            /\ UNCHANGED answers
     \/ \E a \in answers : answers' = answers \ {a} /\ OnError({a.tab})
                           /\ UNCHANGED requests
  /\ UNCHANGED <<daemon, known, searches, engineVars, restarts>>

-----------------------------------------------------------------------------
(* The daemon. *)

Answer(r, of, body) ==
  [tab |-> r.tab, n |-> r.n, of |-> of, body |-> body, final |-> FALSE,
   counted |-> {}, rows |-> {}, broken |-> FALSE]

\* The cookie is of before a restart: "403", or a redirection to the same uri, with
\* a new cookie; it is followed without the body of the POST, which a query needs
\* ("411"), to a search that is not there.
UnknownUser(r) ==
  /\ daemon.at = "idle" /\ r \in requests /\ ~known
  /\ requests' = requests \ {r}
  /\ \/ answers' = answers \cup {Answer(r, NoSearch, "status")} /\ UNCHANGED known
     \/ /\ answers' = answers \cup
             {Answer(r, NoSearch, IF r.n = 1 THEN "status" ELSE "empty")}
        /\ known' = TRUE
  /\ UNCHANGED <<clientVars, daemon, searches, engineVars, faultVars>>

\* waitForNewResults of search s, up to the lock or to joinAll.
WaitFor(s, r) ==
  daemon' = [Idle EXCEPT !.at = IF counted[s] = Engines[s] THEN "joining" ELSE "blocked",
                         !.of = s, !.tab = r.tab, !.n = r.n]

\* query_post: newQuery makes the search and starts its engines.
newQuery(r) ==
  /\ daemon.at = "idle" /\ r \in requests /\ known
  /\ r.n = 1
  /\ requests' = requests \ {r}
  /\ searches' = searches \cup {r.tab}
  /\ WaitFor(r.tab, r)
  /\ UNCHANGED <<clientVars, answers, known, engineVars, faultVars>>

\* get_next_results, for a search that is there or not.
get_next_results(r) ==
  /\ daemon.at = "idle" /\ r \in requests /\ known
  /\ r.n > 1
  /\ requests' = requests \ {r}
  /\ IF r.session \in searches
     THEN WaitFor(r.session, r) /\ UNCHANGED answers
     ELSE answers' = answers \cup {Answer(r, NoSearch, "empty")} /\ UNCHANGED daemon
  /\ UNCHANGED <<clientVars, known, searches, engineVars, faultVars>>

\* The lock is free, or all threads have exited, and createJSON begins: the counts.
CreateJSON ==
  LET s == daemon.of
  IN /\ \/ daemon.at = "blocked" /\ released[s]
           /\ released' = [released EXCEPT ![s] = FALSE]
        \/ daemon.at = "joining" /\ merged[s] = Engines[s] /\ UNCHANGED released
     /\ daemon' = [daemon EXCEPT !.at = IF @ = "joining" THEN "final" ELSE "reading",
                                 !.counted = counted[s],
                                 !.torn = counted[s] # merged[s]]
     /\ UNCHANGED <<clientVars, requests, answers, known, searches, counted, merged,
                    faultVars>>

\* The rows have been read, and the answer is sent.  Torn rows may be anything,
\* and the text need not parse.
Respond ==
  /\ daemon.at \in {"reading", "final"}
  /\ \E broken \in {FALSE, daemon.torn},
        rows \in {merged[daemon.of]} \cup IF daemon.torn THEN {Garbage} ELSE {} :
       answers' = answers \cup
         {[tab |-> daemon.tab, n |-> daemon.n, of |-> daemon.of, body |-> "results",
           final |-> daemon.at = "final", counted |-> daemon.counted,
           rows |-> rows, broken |-> broken]}
  /\ daemon' = Idle
  /\ UNCHANGED <<clientVars, requests, known, searches, engineVars, faultVars>>

\* An engine has its rows, and its count is stored ...
Count(s, e) ==
  /\ s \in searches /\ e \notin counted[s] /\ counted[s] = merged[s]
  /\ counted' = [counted EXCEPT ![s] = @ \cup {e}]
  /\ daemon' = [daemon EXCEPT !.torn = @ \/ (daemon.at = "reading" /\ daemon.of = s)]
  /\ UNCHANGED <<clientVars, requests, answers, known, searches, merged, released,
                 faultVars>>

\* ... and they are in the results, and newResultsLock is unlocked.
Merge(s, e) ==
  /\ e \in counted[s] \ merged[s]
  /\ merged' = [merged EXCEPT ![s] = @ \cup {e}]
  /\ released' = [released EXCEPT ![s] = TRUE]
  /\ UNCHANGED <<clientVars, requests, answers, daemon, known, searches, counted,
                 faultVars>>

\* The process ends and is started again: what it knew is gone, and every request
\* that was not answered fails.
Restart ==
  /\ restarts < MaxRestarts
  /\ restarts' = restarts + 1
  /\ OnError({r.tab : r \in requests} \cup
             IF daemon.at = "idle" THEN {} ELSE {daemon.tab})
  /\ requests' = {}
  /\ daemon' = Idle /\ known' = FALSE
  /\ searches' = {}
  /\ counted' = [s \in Search |-> {}]
  /\ merged' = [s \in Search |-> {}]
  /\ released' = [s \in Search |-> FALSE]
  /\ UNCHANGED <<answers, failures>>

-----------------------------------------------------------------------------
Browser ==
  \/ \E a \in answers : OnResponseReceived(a)
  \/ \E a \in answers : WrongStatus(a)

Handler ==
  \/ \E r \in requests : UnknownUser(r)
  \/ \E r \in requests : newQuery(r)
  \/ \E r \in requests : get_next_results(r)
  \/ CreateJSON
  \/ Respond

EngineStep(s, e) == Count(s, e) \/ Merge(s, e)

Next ==
  \/ \E s \in Search : PerformSearch(s)
  \/ Browser
  \/ Handler
  \/ \E s \in Search : \E e \in Engines[s] : EngineStep(s, e)
  \/ Fail
  \/ Restart

\* The browser handles what comes in, the daemon what is asked, and every engine
\* reports.  No tab must be opened, and nothing must fail.
Fairness ==
  /\ WF_vars(Browser)
  /\ WF_vars(Handler)
  /\ \A s \in Search : \A e \in Engines[s] : WF_vars(EngineStep(s, e))

SafeSpec == Init /\ [][Next]_vars
Spec == SafeSpec /\ Fairness

-----------------------------------------------------------------------------
\* A tab shows the rows of its own search, although all tabs of a browser come
\* with the same cookie: the session is in a header of each tab (tdsession).
ShowsItsOwn == \A s \in Search : shown[s].of \in {NoSearch, s}

\* What a tab shows never gets older: no engine that was counted is lost, nor a
\* row that was there, although each answer replaces what is in the stores, and
\* although the next results are asked for before those at hand are shown.  Torn
\* rows apart.
ShownOnlyImproves ==
  [][\A s \in Search :
       /\ shown[s].counted \subseteq shown'[s].counted
       /\ Garbage \notin {shown[s].rows, shown'[s].rows} =>
            shown[s].rows \subseteq shown'[s].rows]_vars

\* A search that was started is shown to its end, whole, however many searches
\* wait for the one thread of the daemon, and although an answer on the way may
\* be torn and not even parse; unless one of its own requests failed.
FinalShown ==
  \A s \in Search :
    tab[s] = "polling" ~>
      \/ s \in failed
      \/ tab[s] = "over" /\ shown[s] = [of |-> s, counted |-> Engines[s],
                                  rows |-> Engines[s]]

=============================================================================
