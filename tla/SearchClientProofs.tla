------------------------- MODULE SearchClientProofs -------------------------
(***************************************************************************)
(* What a tab shows is of its own search and never gets older, for any     *)
(* number of tabs and engines, of failures and of restarts.                *)
(***************************************************************************)
EXTENDS SearchClient, FiniteSetTheorems, TLAPS

AllEngines == UNION {Engines[s] : s \in Search}
Rows == (SUBSET AllEngines) \cup {Garbage}
Tabs == Search \cup {NoSearch}

\* The daemon works on a request of tab s.
Served(s) == daemon.at # "idle" /\ daemon.tab = s

RequestType == [tab : Search, n : Nat \ {0}, session : Tabs]
AnswerType == [tab : Search, n : Nat \ {0}, of : Tabs,
               body : {"results", "empty", "status"}, final : BOOLEAN,
               counted : SUBSET AllEngines, rows : Rows, broken : BOOLEAN]
DaemonType == [at : {"idle", "blocked", "joining", "reading", "final"}, of : Tabs,
               tab : Tabs, n : Nat, counted : SUBSET AllEngines, torn : BOOLEAN]

TypeInv ==
  /\ tab \in [Search -> {"new", "polling", "over", "stopped"}]
  /\ tdsession \in [Search -> Tabs]
  /\ shown \in [Search -> [of : Tabs, counted : SUBSET AllEngines, rows : Rows]]
  /\ nsent \in [Search -> Nat]
  /\ requests \subseteq RequestType
  /\ answers \subseteq AnswerType
  /\ daemon \in DaemonType
  /\ searches \subseteq Search
  /\ counted \in [Search -> SUBSET AllEngines]
  /\ merged \in [Search -> SUBSET AllEngines]

\* A tab has one request on its way at most, and none unless it polls.
One(s) ==
  /\ \A r1, r2 \in requests : r1.tab = s /\ r2.tab = s => r1 = r2
  /\ \A a1, a2 \in answers : a1.tab = s /\ a2.tab = s => a1 = a2
  /\ \A r \in requests : r.tab = s => ~Served(s) /\ tab[s] = "polling"
  /\ \A a \in answers : a.tab = s => ~Served(s) /\ tab[s] = "polling"
  /\ \A r \in requests, a \in answers : ~(r.tab = s /\ a.tab = s)
  /\ Served(s) => tab[s] = "polling"
  /\ tab[s] = "polling" => nsent[s] > 0

OneRequest == \A s \in Search : One(s)

\* The first request has no session and nothing is shown yet; the others carry the
\* session of their tab.
Sessions ==
  /\ \A r \in requests :
       IF r.n = 1 THEN shown[r.tab] = NothingShown
       ELSE r.session = r.tab /\ tdsession[r.tab] = r.tab
  /\ daemon.at # "idle" =>
       /\ daemon.tab \in Search /\ daemon.of = daemon.tab /\ daemon.of \in searches
       /\ daemon.n > 0
       /\ daemon.n # 1 => tdsession[daemon.tab] = daemon.tab
  /\ \A a \in answers :
       /\ a.body = "results" => a.of = a.tab
       /\ a.n # 1 => tdsession[a.tab] = a.tab
       /\ a.n = 1 => a.body # "empty"
  /\ \A s \in Search : tab[s] = "new" => shown[s] = NothingShown

\* What is on its way to a tab is not older than what it shows, nor is what the
\* daemon has of the search.
NotOlder(c, rows, s) ==
  /\ shown[s].counted \subseteq c
  /\ shown[s].rows = Garbage \/ rows = Garbage \/ shown[s].rows \subseteq rows

Newer ==
  /\ \A s \in searches : NotOlder(counted[s], merged[s], s)
  /\ daemon.at \in {"reading", "final"} =>
       /\ shown[daemon.of].counted \subseteq daemon.counted
       /\ daemon.counted \subseteq counted[daemon.of]
  /\ \A a \in answers : a.body = "results" =>
       /\ NotOlder(a.counted, a.rows, a.tab)
       /\ a.tab \in searches =>
            /\ a.counted \subseteq counted[a.tab]
            /\ a.rows = Garbage \/ a.rows \subseteq merged[a.tab]

IInv == TypeInv /\ OneRequest /\ Sessions /\ ShowsItsOwn /\ Newer

-----------------------------------------------------------------------------
LEMMA InitIInv == Init => IInv
<1> SUFFICES ASSUME Init PROVE IInv
  OBVIOUS
<1> USE DEF Init, NothingShown, Idle
<1>1. TypeInv
  BY DEF TypeInv, DaemonType, Tabs, Rows
<1>2. OneRequest /\ Sessions
  BY DEF OneRequest, One, Sessions, Served
<1>3. ShowsItsOwn /\ Newer
  BY DEF ShowsItsOwn, Newer, NotOlder
<1> QED
  BY <1>1, <1>2, <1>3 DEF IInv

LEMMA PerformSearchKeeps ==
  ASSUME IInv, NEW s \in Search, PerformSearch(s)
  PROVE  IInv'
<1> USE DEF IInv, PerformSearch, Request, engineVars
<1>1. TypeInv'
  BY DEF TypeInv, RequestType, Tabs
<1>2. OneRequest'
  BY DEF TypeInv, OneRequest, One, Served
<1>3. Sessions'
  BY DEF TypeInv, Sessions
<1>4. ShowsItsOwn' /\ Newer'
  BY DEF ShowsItsOwn, Newer, NotOlder
<1> QED
  BY <1>1, <1>2, <1>3, <1>4

\* The answer to tab s is the only thing on its way for s: the daemon does not
\* serve s, and what it has of the search is not older than the answer.
LEMMA OnResponseReceivedKeeps ==
  ASSUME IInv, NEW a \in answers, OnResponseReceived(a)
  PROVE  IInv'
<1> DEFINE s == a.tab
           r == Request(s, nsent[s] + 1, tdsession'[s])
<1>1. /\ s \in Search /\ a.of \in Tabs /\ a.body \in {"results", "empty"}
      /\ a.n \in Nat \ {0} /\ a.counted \in SUBSET AllEngines /\ a.rows \in Rows
      /\ a.final \in BOOLEAN /\ a.broken \in BOOLEAN
  BY DEF IInv, TypeInv, AnswerType, OnResponseReceived
<1>2. tdsession' = [tdsession EXCEPT ![s] = s]
  <2>1. CASE a.n = 1
    BY <2>1, <1>1 DEF IInv, Sessions, OnResponseReceived, parseCookies
  <2>2. CASE a.n # 1
    BY <2>2, <1>1 DEF IInv, Sessions, TypeInv, OnResponseReceived
  <2> QED
    BY <2>1, <2>2
<1>3. r.tab = s /\ r.n = nsent[s] + 1 /\ r.session = s /\ nsent[s] \in Nat \ {0}
  BY <1>1, <1>2 DEF Request, IInv, TypeInv, OneRequest, One
<1>4. \/ /\ requests' = requests \cup {r}
         /\ nsent' = [nsent EXCEPT ![s] = @ + 1]
         /\ tab' = tab
      \/ /\ requests' = requests /\ nsent' = nsent
         /\ \E t \in {"over", "stopped"} : tab' = [tab EXCEPT ![s] = t]
  <2>1. NextRequests(s, tdsession'[s]) = {r} /\ Cardinality({r}) = 1
    BY FS_Singleton DEF NextRequests
  <2> HIDE DEF r
  <2> QED
    BY <2>1 DEF OnResponseReceived
<1>5. \/ shown' = shown
      \/ /\ a.body = "results"
         /\ shown' = [shown EXCEPT ![s] = [of |-> a.of, counted |-> a.counted,
                                           rows |-> a.rows]]
  BY DEF OnResponseReceived, Loads
<1>6. /\ answers' = answers \ {a}
      /\ UNCHANGED <<daemon, searches, counted, merged>>
  BY DEF OnResponseReceived, engineVars
<1>7. /\ \A x \in answers' : x \in answers /\ x.tab # s
      /\ \A x \in requests : x.tab # s
      /\ ~Served(s) /\ tab[s] = "polling"
  BY <1>1, <1>6 DEF IInv, OneRequest, One
<1>8. TypeInv'
  <2>1. r \in RequestType
    BY <1>1, <1>3 DEF Request, RequestType, Tabs
  <2>2. tab' \in [Search -> {"new", "polling", "over", "stopped"}]
    BY <1>1, <1>4 DEF IInv, TypeInv
  <2>3. /\ requests' \subseteq RequestType
        /\ nsent' \in [Search -> Nat]
    BY <1>1, <1>4, <2>1 DEF IInv, TypeInv
  <2>4. shown' \in [Search -> [of : Tabs, counted : SUBSET AllEngines, rows : Rows]]
    BY <1>1, <1>5 DEF IInv, TypeInv
  <2>5. tdsession' \in [Search -> Tabs]
    BY <1>1, <1>2 DEF IInv, TypeInv, Tabs
  <2> QED
    BY <1>6, <2>2, <2>3, <2>4, <2>5 DEF IInv, TypeInv
<1>9. OneRequest'
  <2>. SUFFICES ASSUME NEW t \in Search PROVE One(t)'
    BY DEF OneRequest, One
  <2>1. One(t) /\ daemon' = daemon /\ (Served(t)' <=> Served(t))
    BY <1>6 DEF IInv, OneRequest, One, Served
  <2>2. CASE t = s
    <3>1. \A x \in answers' : x.tab # t
      BY <1>7, <2>2
    <3>2. \A x \in requests' : x.tab = t => x = r /\ tab' = tab
      BY <1>4, <1>7, <2>2
    <3>3. tab'[t] = "polling" => nsent'[t] > 0
      BY <1>3, <1>4, <1>1, <2>1, <2>2 DEF IInv, TypeInv, One
    <3>. HIDE DEF r
    <3>. QED
      BY <1>7, <2>1, <2>2, <3>1, <3>2, <3>3, Zenon DEF One
  <2>3. CASE t # s
    <3>1. tab'[t] = tab[t] /\ nsent'[t] = nsent[t]
      BY <1>1, <1>4, <2>3 DEF IInv, TypeInv
    <3>2. \A x \in requests' : x.tab = t => x \in requests
      BY <1>3, <1>4, <2>3
    <3>3. \A x \in answers' : x \in answers
      BY <1>6
    <3>. HIDE DEF r
    <3>. QED
      BY <2>1, <3>1, <3>2, <3>3, Zenon DEF One
  <2>. QED
    BY <2>2, <2>3
<1>10. Sessions'
  <2>1. \A x \in requests' :
          IF x.n = 1 THEN shown'[x.tab] = NothingShown
          ELSE x.session = x.tab /\ tdsession'[x.tab] = x.tab
    <3> TAKE x \in requests'
    <3>1. CASE x = r
      BY <3>1, <1>1, <1>2, <1>3 DEF IInv, TypeInv
    <3>2. CASE x \in requests
      BY <3>2, <1>2, <1>5, <1>7 DEF IInv, Sessions, TypeInv, RequestType
    <3> QED
      BY <3>1, <3>2, <1>4
  <2>2. (daemon.at # "idle" =>
         /\ daemon.tab \in Search /\ daemon.of = daemon.tab /\ daemon.of \in searches
         /\ daemon.n > 0
         /\ daemon.n # 1 => tdsession[daemon.tab] = daemon.tab)'
    BY <1>2, <1>6, <1>7 DEF IInv, Sessions, TypeInv, Served
  <2>3. (\A x \in answers :
         /\ x.body = "results" => x.of = x.tab
         /\ x.n # 1 => tdsession[x.tab] = x.tab
         /\ x.n = 1 => x.body # "empty")'
    BY <1>2, <1>7 DEF IInv, Sessions, TypeInv
  <2>4. (\A t \in Search : tab[t] = "new" => shown[t] = NothingShown)'
    BY <1>1, <1>4, <1>5, <1>7 DEF IInv, Sessions, TypeInv
  <2> QED
    BY <2>1, <2>2, <2>3, <2>4 DEF Sessions
<1>11. ShowsItsOwn'
  BY <1>1, <1>5 DEF IInv, ShowsItsOwn, Sessions, TypeInv
<1>12. Newer'
  <2>1. CASE shown' = shown
    BY <2>1, <1>6 DEF IInv, Newer, NotOlder
  <2>2. CASE /\ a.body = "results"
             /\ shown' = [shown EXCEPT ![s] = [of |-> a.of, counted |-> a.counted,
                                               rows |-> a.rows]]
    <3>1. \A t \in searches : NotOlder(counted[t], merged[t], t)'
      BY <2>2, <1>1, <1>6 DEF IInv, Newer, NotOlder, TypeInv
    <3>2. (daemon.at \in {"reading", "final"} =>
            /\ shown[daemon.of].counted \subseteq daemon.counted
            /\ daemon.counted \subseteq counted[daemon.of])'
      BY <2>2, <1>6, <1>7 DEF IInv, Newer, TypeInv, Served, Sessions
    <3>3. (\A x \in answers : x.body = "results" =>
            /\ NotOlder(x.counted, x.rows, x.tab)
            /\ x.tab \in searches =>
                 /\ x.counted \subseteq counted[x.tab]
                 /\ x.rows = Garbage \/ x.rows \subseteq merged[x.tab])'
      BY <2>2, <1>6, <1>7 DEF IInv, Newer, NotOlder, TypeInv
    <3> QED
      BY <3>1, <3>2, <3>3, <1>6 DEF Newer
  <2> QED
    BY <2>1, <2>2, <1>5
<1> QED
  BY <1>8, <1>9, <1>10, <1>11, <1>12 DEF IInv

\* Tabs that end with an error have nothing on its way for them afterwards.
Stopped(S) ==
  /\ tab' = [s \in Search |-> IF s \in S THEN "stopped" ELSE tab[s]]
  /\ UNCHANGED <<tdsession, shown, nsent>>

LEMMA StoppedKeeps ==
  ASSUME IInv, NEW S, Stopped(S),
         requests' \subseteq requests, answers' \subseteq answers,
         \/ daemon' = daemon /\ UNCHANGED <<searches, counted, merged>>
         \/ /\ daemon' = Idle /\ searches' = {}
            /\ counted' = [s \in Search |-> {}] /\ merged' = [s \in Search |-> {}],
         \A r \in requests' : r.tab \notin S,
         \A a \in answers' : a.tab \notin S,
         \A s \in S : ~Served(s)'
  PROVE  IInv'
<1> USE DEF IInv, Stopped
<1>1. TypeInv'
  <2>1. Idle \in DaemonType
    BY DEF Idle, DaemonType, Tabs
  <2>2. tab' \in [Search -> {"new", "polling", "over", "stopped"}]
    BY DEF TypeInv
  <2> QED
    BY <2>1, <2>2 DEF TypeInv
<1>2. OneRequest'
  BY DEF TypeInv, RequestType, AnswerType, OneRequest, One, Served, Idle
<1>3. Sessions'
  BY DEF TypeInv, RequestType, AnswerType, Sessions, Idle
<1>4. ShowsItsOwn'
  BY DEF ShowsItsOwn
<1>5. Newer'
  BY DEF Newer, NotOlder, Idle
<1> QED
  BY <1>1, <1>2, <1>3, <1>4, <1>5

LEMMA BrowserErrorKeeps ==
  ASSUME IInv, (\E a \in answers : WrongStatus(a)) \/ Fail
  PROVE  IInv'
<1>1. ASSUME NEW a \in answers, answers' = answers \ {a}, Stopped({a.tab}),
             UNCHANGED <<requests, daemon, searches, counted, merged>>
      PROVE  IInv'
  <2>1. /\ \A r \in requests' : r.tab # a.tab
        /\ \A b \in answers' : b.tab # a.tab
        /\ ~Served(a.tab)'
    BY <1>1 DEF IInv, TypeInv, AnswerType, OneRequest, One, Served
  <2> QED
    BY <1>1, <2>1, StoppedKeeps
<1>2. ASSUME NEW r \in requests, requests' = requests \ {r}, Stopped({r.tab}),
             UNCHANGED <<answers, daemon, searches, counted, merged>>
      PROVE  IInv'
  <2>1. /\ \A q \in requests' : q.tab # r.tab
        /\ \A a \in answers' : a.tab # r.tab
        /\ ~Served(r.tab)'
    BY <1>2 DEF IInv, TypeInv, RequestType, OneRequest, One, Served
  <2> QED
    BY <1>2, <2>1, StoppedKeeps
<1>3. CASE \E a \in answers : WrongStatus(a)
  <2> PICK a \in answers : WrongStatus(a)
    BY <1>3
  <2>1. Stopped({a.tab})
    BY DEF WrongStatus, Stopped, IInv, TypeInv
  <2> QED
    BY <1>1, <2>1 DEF WrongStatus, engineVars
<1>4. CASE Fail
  BY <1>1, <1>2, <1>4 DEF Fail, OnError, Stopped, engineVars
<1> QED
  BY <1>3, <1>4

LEMMA RestartKeeps ==
  ASSUME IInv, Restart
  PROVE  IInv'
<1> DEFINE S == {r.tab : r \in requests} \cup
                IF daemon.at = "idle" THEN {} ELSE {daemon.tab}
<1>1. \A a \in answers : a.tab \notin S
  BY DEF IInv, OneRequest, One, Served, TypeInv, AnswerType
<1> QED
  BY <1>1, StoppedKeeps DEF Restart, OnError, Stopped, Idle, Served

\* The daemon takes a request and answers at once.
LEMMA RefusedKeeps ==
  ASSUME IInv, NEW r \in requests, requests' = requests \ {r},
         NEW a \in AnswerType, answers' = answers \cup {a},
         a.tab = r.tab, a.n = r.n, a.body # "results", r.n = 1 => a.body = "status",
         UNCHANGED <<clientVars, daemon, searches, engineVars>>
  PROVE  IInv'
<1> USE DEF IInv, clientVars, engineVars
<1>1. TypeInv'
  BY DEF TypeInv
<1>2. OneRequest'
  BY DEF TypeInv, RequestType, AnswerType, OneRequest, One, Served
<1>3. Sessions'
  BY DEF TypeInv, RequestType, AnswerType, Sessions
<1>4. ShowsItsOwn'
  BY DEF ShowsItsOwn
<1>5. Newer'
  BY DEF Newer, NotOlder
<1> QED
  BY <1>1, <1>2, <1>3, <1>4, <1>5

\* ... or it waits for results of the search of the tab.
LEMMA TakenKeeps ==
  ASSUME IInv, NEW r \in requests, daemon.at = "idle", requests' = requests \ {r},
         WaitFor(r.tab, r), r.tab \in searches',
         \/ searches' = searches
         \/ r.n = 1 /\ searches' = searches \cup {r.tab},
         UNCHANGED <<clientVars, answers, engineVars>>
  PROVE  IInv'
<1> USE DEF IInv, WaitFor, Idle, clientVars, engineVars
<1>1. TypeInv'
  <2>1. daemon' \in DaemonType
    BY DEF TypeInv, RequestType, DaemonType, Tabs
  <2>2. searches' \subseteq Search
    BY DEF TypeInv, RequestType
  <2> QED
    BY <2>1, <2>2 DEF TypeInv
<1>2. OneRequest'
  BY DEF TypeInv, OneRequest, One, Served
<1>3. Sessions'
  BY DEF TypeInv, RequestType, AnswerType, Sessions
<1>4. ShowsItsOwn'
  BY DEF ShowsItsOwn
<1>5. Newer'
  <2>1. CASE searches' = searches
    BY <2>1 DEF Newer, NotOlder
  <2>2. CASE r.n = 1 /\ searches' = searches \cup {r.tab}
    <3>1. shown[r.tab] = NothingShown
      BY <2>2 DEF Sessions
    <3>2. \A a \in answers : a.tab # r.tab
      BY DEF OneRequest, One, TypeInv, RequestType
    <3> QED
      BY <2>2, <3>1, <3>2 DEF Newer, NotOlder, NothingShown
  <2> QED
    BY <2>1, <2>2
<1> QED
  BY <1>1, <1>2, <1>3, <1>4, <1>5

LEMMA HandlerTakesKeeps ==
  ASSUME IInv, NEW r \in requests, UnknownUser(r) \/ newQuery(r) \/ get_next_results(r)
  PROVE  IInv'
<1>0. ASSUME NEW body \in {"empty", "status"}
      PROVE  LET a == Answer(r, NoSearch, body)
             IN a \in AnswerType /\ a.tab = r.tab /\ a.n = r.n /\ a.body = body
  BY DEF Answer, IInv, TypeInv, RequestType, AnswerType, Tabs, Rows
<1>1. CASE UnknownUser(r)
  <2> PICK body \in {"empty", "status"} :
        /\ answers' = answers \cup {Answer(r, NoSearch, body)}
        /\ r.n = 1 => body = "status"
    BY <1>1 DEF UnknownUser
  <2> QED
    BY <1>0, <1>1, RefusedKeeps DEF UnknownUser
<1>2. CASE newQuery(r)
  BY <1>2, TakenKeeps DEF newQuery
<1>3. CASE get_next_results(r)
  <2>1. r.n # 1 /\ r.session = r.tab
    BY <1>3 DEF get_next_results, IInv, Sessions, TypeInv
  <2>2. CASE r.session \in searches
    BY <1>3, <2>1, <2>2, TakenKeeps DEF get_next_results
  <2>3. CASE r.session \notin searches
    BY <1>0, <1>3, <2>1, <2>3, RefusedKeeps DEF get_next_results
  <2> QED
    BY <2>2, <2>3
<1> QED
  BY <1>1, <1>2, <1>3

LEMMA CreateJSONKeeps ==
  ASSUME IInv, CreateJSON
  PROVE  IInv'
<1> USE DEF IInv, CreateJSON, clientVars
<1>1. TypeInv'
  <2>1. /\ daemon.of \in Search
        /\ (counted[daemon.of] # merged[daemon.of]) \in BOOLEAN
        /\ (IF daemon.at = "joining" THEN "final" ELSE "reading") \in {"reading", "final"}
    BY DEF TypeInv, Sessions
  <2>2. daemon' \in DaemonType
    BY <2>1 DEF TypeInv, DaemonType
  <2> QED
    BY <2>2 DEF TypeInv
<1>2. OneRequest'
  BY DEF TypeInv, OneRequest, One, Served
<1>3. Sessions'
  BY DEF TypeInv, Sessions
<1>4. ShowsItsOwn'
  BY DEF ShowsItsOwn
<1>5. Newer'
  BY DEF TypeInv, Sessions, Newer, NotOlder
<1> QED
  BY <1>1, <1>2, <1>3, <1>4, <1>5

LEMMA RespondKeeps ==
  ASSUME IInv, Respond
  PROVE  IInv'
<1> PICK rows \in {merged[daemon.of], Garbage}, broken \in BOOLEAN :
      answers' = answers \cup
        {[tab |-> daemon.tab, n |-> daemon.n, of |-> daemon.of, body |-> "results",
          final |-> daemon.at = "final", counted |-> daemon.counted,
          rows |-> rows, broken |-> broken]}
  <2>1. PICK torn \in {FALSE, daemon.torn}, r \in {merged[daemon.of]} \cup
                                     IF daemon.torn THEN {Garbage} ELSE {} :
          answers' = answers \cup
            {[tab |-> daemon.tab, n |-> daemon.n, of |-> daemon.of, body |-> "results",
              final |-> daemon.at = "final", counted |-> daemon.counted,
              rows |-> r, broken |-> torn]}
    BY DEF Respond
  <2>2. torn \in BOOLEAN /\ r \in {merged[daemon.of], Garbage}
    BY DEF IInv, TypeInv, DaemonType
  <2> QED
    BY <2>1, <2>2
<1>1. daemon.at \in {"reading", "final"} /\ daemon' = Idle
      /\ UNCHANGED <<clientVars, requests, searches, engineVars>>
  BY DEF Respond
<1>2. /\ daemon.tab \in Search /\ daemon.of = daemon.tab /\ daemon.of \in searches
      /\ daemon.n \in Nat \ {0}
  BY <1>1 DEF IInv, Sessions, TypeInv, DaemonType
<1> USE DEF IInv, Idle, clientVars, engineVars
<1>3. TypeInv'
  <2>1. [tab |-> daemon.tab, n |-> daemon.n, of |-> daemon.of, body |-> "results",
         final |-> daemon.at = "final", counted |-> daemon.counted,
         rows |-> rows, broken |-> broken] \in AnswerType
    <3>1. rows \in Rows
      BY <1>2 DEF TypeInv, Rows
    <3>2. (daemon.at = "final") \in BOOLEAN
      OBVIOUS
    <3> QED
      BY <1>2, <3>1, <3>2 DEF TypeInv, DaemonType, AnswerType, Tabs
  <2>2. Idle \in DaemonType
    BY DEF DaemonType, Tabs
  <2> QED
    BY <1>1, <2>1, <2>2 DEF TypeInv
<1>4. OneRequest'
  BY <1>1, <1>2 DEF TypeInv, OneRequest, One, Served
<1>5. Sessions'
  BY <1>1, <1>2 DEF TypeInv, Sessions
<1>6. ShowsItsOwn'
  BY <1>1 DEF ShowsItsOwn
<1>7. Newer'
  BY <1>1, <1>2 DEF Newer, NotOlder
<1> QED
  BY <1>3, <1>4, <1>5, <1>6, <1>7

LEMMA EngineStepKeeps ==
  ASSUME IInv, NEW s \in Search, NEW e \in Engines[s], EngineStep(s, e)
  PROVE  IInv'
<1>1. /\ \E torn \in BOOLEAN : daemon' = [daemon EXCEPT !.torn = torn]
      /\ UNCHANGED <<clientVars, requests, answers, searches>>
      /\ \E c, m \in SUBSET {e} : /\ counted' = [counted EXCEPT ![s] = @ \cup c]
                                  /\ merged' = [merged EXCEPT ![s] = @ \cup m]
  <2>1. CASE Count(s, e)
    <3>1. \E torn \in BOOLEAN : daemon' = [daemon EXCEPT !.torn = torn]
      BY <2>1 DEF Count, IInv, TypeInv, DaemonType
    <3>2. merged = [merged EXCEPT ![s] = @ \cup {}]
      BY DEF IInv, TypeInv
    <3> QED
      BY <2>1, <3>1, <3>2 DEF Count
  <2>2. CASE Merge(s, e)
    <3>1. daemon = [daemon EXCEPT !.torn = daemon.torn] /\ daemon.torn \in BOOLEAN
      BY DEF IInv, TypeInv, DaemonType
    <3>2. counted = [counted EXCEPT ![s] = @ \cup {}]
      BY DEF IInv, TypeInv
    <3> QED
      BY <2>2, <3>1, <3>2 DEF Merge
  <2> QED
    BY <2>1, <2>2 DEF EngineStep
<1>2. \A t \in Search : counted[t] \subseteq counted'[t] /\ merged[t] \subseteq merged'[t]
  BY <1>1 DEF IInv, TypeInv
<1>3. /\ daemon'.at = daemon.at /\ daemon'.of = daemon.of /\ daemon'.tab = daemon.tab
      /\ daemon'.n = daemon.n /\ daemon'.counted = daemon.counted
  BY <1>1 DEF IInv, TypeInv, DaemonType
<1> USE DEF IInv, clientVars
<1>4. TypeInv'
  <2>1. daemon' \in DaemonType
    BY <1>1 DEF TypeInv, DaemonType
  <2>2. counted' \in [Search -> SUBSET AllEngines] /\ merged' \in [Search -> SUBSET AllEngines]
    BY <1>1 DEF TypeInv, AllEngines
  <2> QED
    BY <1>1, <2>1, <2>2 DEF TypeInv
<1>5. OneRequest'
  BY <1>1, <1>3 DEF OneRequest, One, Served
<1>6. Sessions'
  BY <1>1, <1>3 DEF Sessions
<1>7. ShowsItsOwn'
  BY <1>1 DEF ShowsItsOwn
<1>8. Newer'
  <2>1. (\A t \in searches : NotOlder(counted[t], merged[t], t))'
    <3>1. \A t \in searches : /\ t \in Search /\ NotOlder(counted[t], merged[t], t)
                              /\ merged[t] # Garbage
      BY GarbageAssumption DEF TypeInv, Newer, AllEngines
    <3> QED
      BY <1>1, <1>2, <3>1 DEF NotOlder
  <2> QED
    BY <1>1, <1>2, <1>3, <2>1 DEF TypeInv, Sessions, Newer, NotOlder
<1> QED
  BY <1>4, <1>5, <1>6, <1>7, <1>8

LEMMA NextKeeps == IInv /\ [Next]_vars => IInv'
<1> SUFFICES ASSUME IInv, [Next]_vars PROVE IInv'
  OBVIOUS
<1>1. CASE \E s \in Search : PerformSearch(s)
  BY <1>1, PerformSearchKeeps
<1>2. CASE Browser
  BY <1>2, OnResponseReceivedKeeps, BrowserErrorKeeps DEF Browser
<1>3. CASE Handler
  BY <1>3, HandlerTakesKeeps, CreateJSONKeeps, RespondKeeps DEF Handler
<1>4. CASE \E s \in Search : \E e \in Engines[s] : EngineStep(s, e)
  BY <1>4, EngineStepKeeps
<1>5. CASE Fail
  BY <1>5, BrowserErrorKeeps
<1>6. CASE Restart
  BY <1>6, RestartKeeps
<1>7. CASE UNCHANGED vars
  BY <1>7 DEF vars, clientVars, engineVars, IInv, TypeInv, OneRequest, One, Served, Sessions,
              ShowsItsOwn, Newer, NotOlder
<1> QED
  BY <1>1, <1>2, <1>3, <1>4, <1>5, <1>6, <1>7 DEF Next

LEMMA Inductive == Spec => []IInv
BY InitIInv, NextKeeps, PTL DEF Spec, SafeSpec

-----------------------------------------------------------------------------
\* A tab shows the rows of its own search, whatever cookie the tabs of the browser
\* share, whatever requests fail and however often the daemon is restarted:
\* doPostURL and parseCookies of PerformSearch.java.
THEOREM ClientShowsItsOwn == Spec => []ShowsItsOwn
<1>1. IInv => ShowsItsOwn
  BY DEF IInv
<1> QED
  BY <1>1, Inductive, PTL

\* What a tab shows never gets older, although the answers replace what it shows and
\* the daemon forgets its searches: updateGrid of PerformSearch.java.
THEOREM ClientShownOnlyImproves == Spec => ShownOnlyImproves
<1> DEFINE Improves ==
      \A s \in Search :
        /\ shown[s].counted \subseteq shown'[s].counted
        /\ Garbage \notin {shown[s].rows, shown'[s].rows} =>
             shown[s].rows \subseteq shown'[s].rows
<1>1. IInv /\ [Next]_vars => [Improves]_vars
  <2> SUFFICES ASSUME IInv, Next PROVE Improves
    BY DEF vars
  <2>1. CASE \E a \in answers : OnResponseReceived(a)
    <3> PICK a \in answers : OnResponseReceived(a)
      BY <2>1
    <3>1. Loads(a) => NotOlder(a.counted, a.rows, a.tab)
      BY DEF Loads, IInv, Newer
    <3> QED
      BY <3>1 DEF OnResponseReceived, Loads, NotOlder, IInv, TypeInv
  <2>2. CASE ~\E a \in answers : OnResponseReceived(a)
    <3>1. UNCHANGED shown
      BY <2>2 DEF Next, PerformSearch, Browser, WrongStatus, Handler, UnknownUser, newQuery,
                  get_next_results, CreateJSON, Respond, EngineStep, Count, Merge,
                  Fail, OnError, Restart, clientVars
    <3> QED
      BY <3>1
  <2> QED
    BY <2>1, <2>2
<1> QED
  BY <1>1, Inductive, PTL DEF Spec, SafeSpec, ShownOnlyImproves
=============================================================================
