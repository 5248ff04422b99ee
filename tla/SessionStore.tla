---------------------------- MODULE SessionStore ----------------------------
(***************************************************************************)
(* The searches of the daemon: UIDSession keeps those that run in memory   *)
(* and writes those that are over to sessions/<userName>/<id>.xml.         *)
(*                                                                         *)
(*   tddaemon/UIDSession.cpp    addSearch, getSearch, dumpToDisk           *)
(*   tddaemon/tddaemon.cpp      newQuery, get_next_results, export_csv     *)
(*   tddaemon/users.cpp         authenticateUser, addUser, getUsername     *)
(*   tdresults/openSave.cpp     xmlSave, xmlOpen                           *)
(*                                                                         *)
(* One thread serves the requests, one after the other, but a request      *)
(* calls getSearch several times, and each call dumps and deletes the      *)
(* searches that are over, the one just obtained among them:               *)
(*                                                                         *)
(*   createJSON(getSearch(..)->waitForNewResults(), getSearch(..))         *)
(*                                                                         *)
(* The compiler chooses which argument it evaluates first (g++ on x86 the  *)
(* last one), so the order is a variable that Init chooses.                *)
(*                                                                         *)
(* A metaRank is an identity, never given twice while somebody holds it.   *)
(* What MetaSearch says of a running search is reduced here to the answer  *)
(* of waitForNewResults.                                                   *)
(***************************************************************************)
EXTENDS Naturals, FiniteSets

CONSTANTS
  Id,        \* the identifiers getID returns, taken to be all different
  Cookie,    \* those it returns for the cookies of the users
  Name,      \* the users
  Object,    \* the metaRanks
  NULL, Nobody, NoSearch

ASSUME NullAssumption == NULL \notin Object
ASSUME NobodyAssumption == Nobody \notin Name \cup Cookie
ASSUME NoSearchAssumption ==
  NoSearch \notin [mr : Object, userID : Cookie, userName : Name, finished : BOOLEAN]

VARIABLES
  clients,   \* users::clients: the user of each cookie, or Nobody
  searches,  \* UIDSession::searches
  file,      \* file[n][i]: what sessions/n/i.xml is
  live,      \* the metaRanks that have been created and not deleted
  req,       \* the request being served, see Idle
  order,     \* of evaluation of createJSON's arguments
  creator,   \* history: who started each search
  ended,     \* history: the searches whose final answer was obtained
  excused    \* history: the searches that a failed save or a kill has cost

store == <<searches, file, live, excused>>
vars == <<clients, store, req, order, creator, ended>>

\* What a request does after it knows that the search exists: "search" obtains
\* it to wait for new results ("waiting"), "pointer" obtains createJSON's mr.
Steps(o) ==
  IF o = "LR" THEN <<"search", "waiting", "pointer", "json">>
              ELSE <<"pointer", "search", "waiting", "json">>

After(step) ==
  LET s == Steps(order) IN s[1 + CHOOSE k \in 1 .. 3 : s[k] = step]

\* mr is createJSON's argument; running tells how the request found the search.
Idle == [pc |-> "idle", cookie |-> Nobody, id |-> NULL, mr |-> NULL, running |-> FALSE]

Init ==
  /\ clients = [c \in Cookie |-> Nobody]
  /\ searches = [i \in Id |-> NoSearch]
  /\ file = [n \in Name |-> [i \in Id |-> "none"]]
  /\ live = {}
  /\ req = Idle
  /\ order \in {"LR", "RL"}
  /\ creator = [i \in Id |-> Nobody]
  /\ ended = {}
  /\ excused = {}

-----------------------------------------------------------------------------
\* UIDSession.

InMemory == {i \in Id : searches[i] # NoSearch}

\* Mutant: every search is dumped.
AllSearches == InMemory

\* The searches that dumpToDisk takes: isFinished().
Ended == {i \in InMemory : searches[i].finished}

\* Mutant: the searches are erased but not deleted.
NothingDeleted == {}

\* delete (*ers)->second.mr
Deleted == {searches[i].mr : i \in Ended}

\* What memory is left with when dumpToDisk returns.
Kept == [i \in Id |-> IF i \in Ended THEN NoSearch ELSE searches[i]]

\* Mutant: createDirectory is left out, no file can be opened.
NoDirectory(how) == file

\* Mutant: the searches that still run are written too.
RunningSaved(how) ==
  [n \in Name |-> [i \in Id |->
    IF i \in InMemory /\ n = searches[i].userName THEN "good" ELSE file[n][i]]]

\* The files after xmlSave has opened them (which truncates them) and written
\* them well or, as nobody looks at the stream, only in part.  What xmlSave
\* returns is ignored.
Saved(how) ==
  [n \in Name |-> [i \in Id |->
    IF i \in Ended /\ n = searches[i].userName /\ how[i] # "unopened"
    THEN how[i] ELSE file[n][i]]]

\* The ways in which the saves of dumpToDisk may go.
Saves == [Ended -> {"good", "bad", "unopened"}]

\* Is there a file left that can be opened?
OnDisk(files, i) == \E n \in Name : files[n][i] = "good"

\* The searches that these saves lose.
Spoilt(how) == {i \in Ended : how[i] # "good" /\ ~OnDisk(Saved(how), i)}

\* Mutant: the cookie is not compared.
AnyCookie(i, c) == Kept[i] # NoSearch

\* (*searches)[searchID].userID == userID
Matches(i, c) == Kept[i] # NoSearch /\ Kept[i].userID = c

\* What addSearch and getSearch put in searches.
Entry(mr, c, finished) ==
  [mr |-> mr, userID |-> c, userName |-> clients[c], finished |-> finished]

\* A metaRank that nobody holds.
Fresh == {o \in Object \ {req.mr} : \A i \in InMemory \ Ended : searches[i].mr # o}

\* getSearch returns mr to the holder of cookie c: dumpToDisk, then the search
\* in memory, then the file, which xmlOpen makes a finished search of, or NULL.
getSearch(c, i, mr) ==
  \E how \in Saves :
    /\ file' = Saved(how)
    /\ excused' = excused \cup Spoilt(how)
    /\ \/ /\ Matches(i, c)
          /\ mr = Kept[i].mr
          /\ searches' = Kept
          /\ live' = live \ Deleted
       \/ /\ ~Matches(i, c)
          /\ file'[clients[c]][i] = "good"
          /\ mr \in Fresh
          /\ searches' = [Kept EXCEPT ![i] = Entry(mr, c, TRUE)]
          /\ live' = (live \ Deleted) \cup {mr}
       \/ /\ ~Matches(i, c)
          /\ file'[clients[c]][i] # "good"
          /\ mr = NULL
          /\ searches' = Kept
          /\ live' = live \ Deleted

-----------------------------------------------------------------------------
\* The requests.  query_process lets through those whose cookie is known.

\* authenticateUser or, when no password is asked, addUser(.., "default").
Authenticate(c, n) ==
  /\ req.pc = "idle"
  /\ clients[c] = Nobody
  /\ clients' = [clients EXCEPT ![c] = n]
  /\ UNCHANGED <<store, req, order, creator, ended>>

\* newQuery: addSearch, then getSearch(..)->startParsing().
newQuery(c, i) ==
  /\ req.pc = "idle"
  /\ clients[c] # Nobody
  /\ creator[i] = Nobody
  /\ \E mr \in Object \ live, how \in Saves :
       /\ searches' = [Kept EXCEPT ![i] = Entry(mr, c, FALSE)]
       /\ live' = (live \ Deleted) \cup {mr}
       /\ file' = Saved(how)
       /\ excused' = excused \cup Spoilt(how)
  /\ creator' = [creator EXCEPT ![i] = clients[c]]
  /\ req' = [Idle EXCEPT !.pc = Steps(order)[1], !.cookie = c, !.id = i, !.running = TRUE]
  /\ UNCHANGED <<clients, order, ended>>

\* get_next_results: if (getSearch(..) != NULL).  A client asks again for a
\* search that is over when it did not receive the final answer.
get_next_results(c, i) ==
  /\ req.pc = "idle"
  /\ clients[c] # Nobody
  /\ \E mr \in Object \cup {NULL} :
       /\ getSearch(c, i, mr)
       /\ req' = IF mr = NULL THEN Idle
                 ELSE [Idle EXCEPT !.pc = Steps(order)[1], !.cookie = c, !.id = i,
                                   !.running = ~searches'[i].finished]
  /\ UNCHANGED <<clients, order, creator, ended>>

\* export_csv: one getSearch, whose metaRank is written out at once.
export_csv(c, i) ==
  /\ req.pc = "idle"
  /\ clients[c] # Nobody
  /\ \E mr \in Object \cup {NULL} : getSearch(c, i, mr)
  /\ UNCHANGED <<clients, req, order, creator, ended>>

\* The process is gone, and with it what was in memory.
Gone(files) ==
  /\ clients' = [c \in Cookie |-> Nobody]
  /\ searches' = [i \in Id |-> NoSearch]
  /\ live' = {}
  /\ req' = Idle
  /\ file' = files
  /\ excused' = excused \cup {i \in Id : creator[i] # Nobody /\ ~OnDisk(files, i)}
  /\ UNCHANGED <<order, creator, ended>>

\* The first argument: getSearch(..)->..., with which a NULL ends the process.
SearchArgument ==
  /\ req.pc = "search"
  /\ \E mr \in Object \cup {NULL} :
       /\ getSearch(req.cookie, req.id, mr)
       /\ mr # NULL
  /\ req' = [req EXCEPT !.pc = After("search")]
  /\ UNCHANGED <<clients, order, creator, ended>>

\* ... ->waitForNewResults(): a search that is over says so again.
waitForNewResults ==
  /\ req.pc = "waiting"
  /\ \/ UNCHANGED <<searches, ended>> /\ ~searches[req.id].finished
     \/ /\ searches' = [searches EXCEPT ![req.id].finished = TRUE]
        /\ ended' = ended \cup {req.id}
  /\ req' = [req EXCEPT !.pc = After("waiting")]
  /\ UNCHANGED <<clients, file, live, excused, order, creator>>

\* The second argument.
PointerArgument ==
  /\ req.pc = "pointer"
  /\ \E mr \in Object \cup {NULL} :
       /\ getSearch(req.cookie, req.id, mr)
       /\ req' = [req EXCEPT !.pc = After("pointer"), !.mr = mr]
  /\ UNCHANGED <<clients, order, creator, ended>>

\* The body of createJSON, and the answer goes out.
createJSON ==
  /\ req.pc = "json"
  /\ req.mr # NULL
  /\ req' = Idle
  /\ UNCHANGED <<clients, store, order, creator, ended>>

\* getSearch returns NULL, although the search was there a moment ago, and the
\* NULL is dereferenced.
Dereference ==
  \/ /\ req.pc = "search"
     /\ ~Matches(req.id, req.cookie)
     /\ \E how \in Saves :
          /\ Saved(how)[clients[req.cookie]][req.id] # "good"
          /\ Gone(Saved(how))
  \/ /\ req.pc = "json"
     /\ req.mr = NULL
     /\ Gone(file)

\* "Serve connections infinitely until someone kills us": between two requests,
\* while it waits, or in the middle of dumpToDisk.
Kill == \E how \in Saves : Gone(Saved(how))

Next ==
  \/ \E c \in Cookie, n \in Name : Authenticate(c, n)
  \/ \E c \in Cookie, i \in Id :
       newQuery(c, i) \/ get_next_results(c, i) \/ export_csv(c, i)
  \/ SearchArgument
  \/ waitForNewResults
  \/ PointerArgument
  \/ createJSON
  \/ Dereference
  \/ Kill

Spec == Init /\ [][Next]_vars
-----------------------------------------------------------------------------
Search == [mr : Object, userID : Cookie, userName : Name, finished : BOOLEAN]

\* The types; what is in memory is never marked as belonging to nobody.
TypeOK ==
  /\ clients \in [Cookie -> Name \cup {Nobody}]
  /\ searches \in [Id -> Search \cup {NoSearch}]
  /\ file \in [Name -> [Id -> {"none", "good", "bad"}]]
  /\ live \subseteq Object
  /\ req.pc \in {"idle", "search", "waiting", "pointer", "json"}
  /\ req.mr \in Object \cup {NULL}
  /\ order \in {"LR", "RL"}
  /\ creator \in [Id -> Name \cup {Nobody}]
  /\ ended \subseteq Id /\ excused \subseteq Id

\* "ensures that the user is correct" (getSearch's comment): whatever the
\* cookies, the dumps and the restarts, a request only goes on with a search
\* that its own user started, and no file or entry changes hands.
OwnerOnly ==
  /\ req.pc # "idle" => creator[req.id] = clients[req.cookie]
  /\ \A i \in InMemory : searches[i].userName = creator[i]
  /\ \A n \in Name, i \in Id : file[n][i] # "none" => n = creator[i]

\* A search that runs has no file.  Otherwise another cookie of its user would
\* make getSearch overwrite its entry, and nothing would delete it again.
RunningHasNoFile ==
  \A i \in InMemory : ~searches[i].finished => \A n \in Name : file[n][i] = "none"

\* The metaRanks that exist are those of the entries, one each: none is lost
\* without delete, none is deleted and kept.
NoLeak ==
  /\ live = {searches[i].mr : i \in InMemory}
  /\ \A i, j \in InMemory : searches[i].mr = searches[j].mr => i = j

\* "stores currently in memory terminated searches to disk" (dumpToDisk's
\* comment): a search that is over stays available, in memory or in a file,
\* however often it is reopened, unless a save fails or the daemon is killed.
EndedIsAvailable ==
  \A i \in ended \ excused : i \in InMemory \/ OnDisk(file, i)

\* The answer to a request that found its search running is read from that
\* search, in either order of evaluation, even if it ends meanwhile.
RunningIsAnswered ==
  req.pc = "json" /\ req.running => req.mr \in live \cup {NULL}

\* "This method returns the metaRank corresponding the given search ID":
\* createJSON reads a metaRank that exists.
AnswerReadsSearch == req.pc = "json" => req.mr \in live \cup {NULL}

\* "stores currently in memory terminated searches to disk": a search that
\* dumpToDisk deletes from memory is on disk.
DeletedIsOnDisk ==
  [][\A i \in Ended : searches'[i] = NoSearch /\ clients' = clients =>
       OnDisk(file', i)]_vars
=============================================================================
