# Teardrop in TLA+

Teardrop is a meta search engine: a daemon with a web interface (or a console
program, or a tray program that runs the daemon) sends one query to many
engines at once, reads the rows of their pages with the regular expressions of
XML engine files, and merges the rows into one ranked list. This directory
holds TLA+ models of its core, the TLC runs that check them and proofs about
them for TLAPS.

    tlc -config pool_safety.cfg MCThreadPool.tla     # and the other runs below
    tlapm ThreadPoolProofs.tla

`PROJECT.json` lists the runs, the source lines behind every definition, the
hazards with the properties that watch them, and a mutant for every property.

## 1. The system

| component | state it keeps | operations | talks to |
|---|---|---|---|
| thread pool, `tdcommon/threads/threadPool.h` | list of threads, waiting line, number of slots, one mutex | `createThread`, `joinAll`, `launchThread`, `injectNextThread`, `lock`/`unlock` | runs page parsers; its mutex doubles as the lock of the results |
| page parser, `tdwrapper/pageParser.cpp` | pages to visit, pages visited, rows found | `initParse`, `doParse`, `closeParse` | getHttp, an engine file, the row container |
| row container and rows, `tdcommon/rowContainer.cpp`, `row.cpp` | merged rows, count per engine (-1: not yet), `newResultsLock` | `addRankedResults`, `waitForNewResults`, `sortResults` | written by the parsers' threads, read by the daemon's |
| search, `tdwrapper/metaRank.cpp` | a row container, a pool, `finished` | `startParsing`, `waitForNewResults`, `getString` | owned by the session store |
| session store, `tddaemon/UIDSession.cpp` | searches in memory, by identifier; `sessions/<user>/<id>.xml` | `addSearch`, `getSearch`, `dumpToDisk` | openSave, metaRank |
| users, `tddaemon/users.cpp` | the user of each cookie, in memory; password file | `authenticateUser`, `addUser`, `isValid`, history | query_process |
| daemon requests, `tddaemon/tddaemon.cpp` | the state of each connection (`query_process`) | `newQuery`, `get_next_results`, `export_csv`, `save_config`, trees, files | all of the above; called by SHTTPD from one thread |
| saved results, `tdresults/openSave.cpp` | files | `xmlSave`, `xmlOpen`, exports | session store, console |
| configuration, `tdcommon/tdParam.cpp`, `selectFile.cpp`, `tddaemon.cpp: save_config` | settings in memory, `config.xml` | `getInitValues`, `commit`, `save_config`, `find` | tray dialog and daemon, from two threads |
| engine files, `tdcommon/xml/xmlEngine.cpp`, `tdengines/` | a cursor in a document | the getters | page parser |
| web client, `tddaemonclient/` (GWT on Ext JS) | one search per tab, the engine tree, the editor of the engines | query, poll, edit the tree, log in | the daemon, over HTTP |
| console, `tdconsole/teardrop.cpp` | options | one search, or the daemon | metaRank |
| tray program, `tdsystray/` | the dialog | preferences | tdParam, the daemon in a second thread |
| vendored | | | `shttpd/`, Ext JS, `sha1.cpp`; boost, cURL, libxml2 outside the tree |

How a search goes: the client posts a query; the daemon's only thread creates a
metaRank, gives one page parser per engine to its pool and waits for the first
results. Each parser, at its end, takes the pool's mutex, merges its rows,
releases `newResultsLock` (a mutex used as a binary semaphore) and returns to
its pool, which gives the thread's place to the next waiting parser. The daemon
answers with what there is; the client polls as long as the answer is not
final. When every count is known the daemon joins the pool, marks the search
finished and gives the final answer. The next request of anybody writes the
finished searches to disk and deletes them from memory.

What is hard: the unlocked reads of `joinAll` and of the daemon against the
parsers' threads; a semaphore that counts to one and is tested before it is
waited for; a count that is set before the rows it counts are there; a delete
that trusts `finished`; calls of `getSearch` in one expression, each of which
deletes what the other returned; saves whose failure nobody looks at; kills and
restarts; a configuration file with two writers; a callback that must be called
until it has ended, and not once more; listeners that run after an animation, and
clicks that tell no listener; cell editors that open 50 ms after the click;
answers that overtake each other's requests. `PROJECT.json` gives each its
line and the properties that cover it, or says that none does yet.

What makes each part correct:

* pool: at most the given number of tasks run; every task runs exactly once;
  `joinAll` returns, and only when every thread has exited.
* results: the merge does not depend on the order of the engines, forgets no
  row and no engine, and only improves.
* search: the final answer is whole; the daemon never sleeps without a thread
  left to wake it; nobody uses a search that has been deleted.
* session store: a finished search stays available to its user, and to nobody
  else, in memory or on disk; a request reads the search it asked for.
* requests: the handler runs once on the whole body, the answer goes out once
  and in order, the state of the connection is freed exactly once.
* engine tree: a search goes to the engines that were chosen and to no other.
* engine editor: what was typed is in the record it was typed for, and what is
  saved is what the user sees selected.
* tabs: each shows its own search, never an older state of it, and in the end
  all of it unless one of its requests failed.
* configuration: what is set is what is read back after a restart,
  and saving the engine tree and the settings do not undo each other.
* page parser: the loop over the pages ends, no page is fetched twice and none
  forgotten; the rows, up to the limit and each once, are what the search expects.

## 2. Modules

| module | models | is composed of |
|---|---|---|
| `PoolService` | what a pool promises its owner | |
| `ThreadPool` | `threadPool.h` in detail | refines `PoolService` |
| `ThreadPoolProofs` | theorems about `ThreadPool` | extends it |
| `RowMerge` | the merge of rows, as operators | |
| `MetaSearch` | one search: engines, daemon, polls, deletion | extends `RowMerge`, uses `PoolService` for its pool |
| `MetaSearchProofs` | theorems about `MetaSearch` and `RowMerge` | extends them |
| `PageParser` | one engine: its pages, links, rows and ways to stop | its outcome is the step `Parse` of `MetaSearch` |
| `PageParserProofs` | theorems about `PageParser` | extends it |
| `SessionStore` | the daemon's searches in memory and on disk | a search reduced to what `MetaSearch` says of it |
| `SessionStoreProofs` | theorems about `SessionStore` | extends it |
| `QueryProcess` | one connection of the daemon, from the socket to the handler | the handlers are those of `SessionStore` and `TdParam`, reduced to their answers |
| `QueryProcessProofs` | theorems about `QueryProcess` | extends it |
| `TdParam` | the settings, `config.xml` and its two writers | |
| `TdParamProofs` | theorems about `TdParam` | extends it |
| `SearchClient` | the tabs of a browser before the daemon's one thread | each search reduced to what `MetaSearch` shows of it, each request to what `QueryProcess` delivers |
| `SearchClientProofs` | theorems about `SearchClient` | extends it |
| `EngineTree` | the tree of engines in the web client | |
| `EngineEditor` | the editor of the engines, on the editable grid of Ext JS | saves what `TdParam!SaveConfig` writes |
| `EngineProofs` | theorems about `EngineTree` and `EngineEditor` | extends both |
| `MCThreadPool`, `MCMetaSearch`, `MCPageParser`, `MCSessionStore`, `MCQueryProcess`, `MCTdParam`, `MCSearchClient`, `MCEngineTree`, `MCEngineEditor` | values of the constants for TLC | |

Some modules hold operators whose comment begins with "Mutant": plausible bugs
of the definition that follows them, with which the property named in
`PROJECT.json` must fail. No specification uses them.

### ThreadPool

The variables are the fields `tpThreadList`, `tpWaitingLine`, `tpNbThread`,
`mtex`, and for each task the place of its thread in `launchThread` and
`injectNextThread`. `createThread` is one step: it holds the mutex, and the only
code that reads without it, `joinAll`, is called by the same owner.
`injectNextThread` is cut where an unlocked reader may look: before and after
`push_back`/`pthread_create`, and after `pop_front`. The tasks are page parsers,
which take the pool's own mutex once (`lock`, `unlock`). The owner creates, then
joins; the program never gives a task to a pool that it has joined.

`tpMaxThread` is any integer, as `atol` of the setting may give. With zero or
less every task waits for ever and `joinAll` spins: the safety properties hold
of that too, the liveness ones are claimed for one thread or more.

### RowMerge and MetaSearch

A row is its url (the field the engine files mark as comparable), its rank, the
engine its fields come from and the engines credited. `AddRow` is one turn of
`addRankedResults`; `Sorted` allows whatever `std::sort`, which is not stable,
may return. Three engine files (exalead, lookforbook, packetnews) mark other or
several fields; the rows of those are not modelled.

In `MetaSearch` the daemon's thread goes through `startParsing`, `asking`
(reads the counts, without `results_lock`), `blocked` (locks `newResultsLock`)
or `joining`, `reading` (`createJSON` walks through the results, without a lock)
and `idle`. An engine's thread parses (its rows are any list of different urls
no longer than the limit: what `doParse` builds, or what an error has left),
takes `results_lock`, stores its count, merges row by row, sorts, releases
`newResultsLock` and lets go. Rows that change while the daemon reads make the
answer `Garbage` or not, the data race being a choice. `DumpToDisk` deletes the
search, when `finished` is set.

Aborting a search (`metaRank::stop`) is never called in the program and is left
out. A search by the console does the same without polls and is planned.

### PageParser

One thread, whose state nobody else sees before `closeParse`, so a step is as
large as an exception or a failing page allows: `initParse`, one turn of
`getNextAddress` (with its inner loop over visited addresses), a download, one
row, the links of a page. A page is the list of its rows, by url, and of its
links; a row whose url did not match counts as one more url. `eng` says what kind
of engine the file describes and does not change: with or without an expression
for the rows; the next page from links, from the number of rows (any function of
it), or none. An address may be empty, which ends the loop. `Throw` stands for
every exception that `startParsing` catches: the rows found stay. `fetched`,
`queued` and `gaveUp` are history variables.

A match is taken not to be empty, and the addresses of a site are finitely many
where `Termination` is claimed: the code has no bound of its own on the number of
pages, and a site that always offers a new link and no new row would keep an
engine busy for ever. `CountedPagesBringRows` shows that engines which compute
their next page are not exposed to that.

### SessionStore

`searches`, `file` and `clients` are the two maps and the directories. `getSearch`
is one action: dump what is over (each save writes the file well, in part, or not
at all), delete it, then look in memory and on disk. The expression
`createJSON(getSearch(..)->waitForNewResults(), getSearch(..))` is cut into its
calls, in the order that `order` says: C++ leaves it to the compiler, so `Init`
chooses, and a build keeps its choice. `waitForNewResults` ends a running search
or not. A NULL that is dereferenced, and a kill at any time, even in the middle
of a dump, end the process; what it had in memory is gone and the daemon starts
again. Identifiers are taken to be different (29 random characters).

`ended`, `excused`, `creator` and `running` in `req` are history variables.

### QueryProcess

`process_connection` is cut into its stages (`at`): a read from the socket, the
parsing of the headers, two calls of the callback (as the stream's `read` and
`write`), a write to the socket, the check that closes the connection. `rem` and
`loc` are its two buffers, with the space before the head lost until they are
empty, as in `io.h`. `query_process` is one action with three alternatives:
refuse, allocate, continue. Bytes are numbered by what they are part of, so that
a lost, doubled or foreign byte shows; the headers are one. What the program never
does is left out: the connection cannot expire after its request was parsed (each
call renews the time), and is never kept alive, since no callback has a content
length. The client sends what it announces, no more, and may break the
connection at any time. `received` and `handled` are history variables.

### TdParam

`param` are the fields of `tdParam`, `file` is `config.xml` as a parser would see
it: malformed, or a tree of engines with or without settings; `nearby` is a file of
that name in the current directory, which `selectFile::find` prefers. `pc` is the
place of each of the two threads of the tray program, the dialog (`Accept`, one
`SetField` per assignment of `validChanges`, `commit`) and the daemon
(`SaveConfig` to `CloseConfig`, `commit`). A write through a stream that another
thread has truncated leaves either text or a mixture (`Written`); a string that
is read while it is assigned may be anything (`Seen`). The tree is one value; what
matters of it is whether it has a name that XML must escape. Numbers are texts
through `ltoa` and `atol`, which reads zero from what is no number. The two texts,
browser and proxy address, go through libxml2, to which `setChildContent` gives them raw:
`References` says what each text with an ampersand becomes there (`Content`), and
`Document` is a file that does not parse if one names an entity that nobody declared.

`last` is what was saved last. `spoilt` is set by what may cost the file something: an
overlap of the two threads, a kill inside the file, a failed open, a name that is not
escaped, an undeclared reference. It is reset when the daemon opens the file anew with
nobody in the way, so the properties say too that such a save repairs the file.

### SearchClient

A tab goes from the constructor of `PerformSearch`, which posts the query,
through answers and further requests (`tab`, `tdsession`, `nsent`) to its end or
to an error; `shown` is what its two stores hold. Requests and answers are sets: each has a connection of its own and
any of them may come first. The daemon takes one request, waits inside it for the
search it names (`blocked` or `joining`), reads and answers (`CreateJSON`,
`Respond`). Of a search only what the daemon sees of it is kept: the engines whose
count is stored, those whose rows are merged, and `newResultsLock`. Rows read while
an engine merges make the answer torn: its rows may be `Garbage` and its text may
not parse. `Fail` loses a request or an answer; `Restart` forgets searches and
cookies, after which a request with the old cookie gets 403, or the redirection
that gives a new cookie and drops the body of the POST (`UnknownUser`). The order
inside `OnResponseReceived` is the code's: the session, then the next request, then
the parsing, whose exception is caught.
`failed` is a history variable.

Left out: the columns and colours of the rows, and the other requests of the
client, which do not touch a search. A finished search is not dumped here: the
client asks for none, and `SessionStore` says what such a request would meet.

### EngineTree

The state is that of the nodes in the browser: the box of each, whether the
children of a category have been rendered (before, they have no box), open or
closed, and the animation in progress, whose callback is `onExpand`, at every expansion. The actions
are what a user does: click a box, the sign or a key, double click; an animation
ends; the tree is loaded again, well or badly. A key stops an animation, callback
first (`ArrowKey`); a click on the sign is ignored during one. `wanted` is the
history that the properties compare the boxes with: what the user has chosen by a click
on a box of the engine or of its category, and has not given up by another. Only clicks
change it. `lost` are those of them that `onExpand` has unchecked, until the user clicks
there again, and `inverted` the categories in which a double click has gone around the
listeners.

### EngineEditor

`EditTree.java` puts the engines of the configuration and of the site of the
updates into a store and gives it to an `EditorGridPanel`; what happens between a
click and a record is code of Ext JS. `grid` holds the records by number, the one
editor of each column (`editing`, `listening`: the single-use listener of its
completion, the record it will write, its value) and `activeEditor`; `items` is the
order of the store. The operators on a grid (`Completed`, `Stopped`, `Cancelled`,
`Started`) follow `completeEdit`, `stopEditing`, `cancelEdit` and the function that
`startEditing` defers. The actions are clicks on cells, boxes and headers, typing,
Enter, Tab, Escape, the wheel, "Add Engine", the three selections, "Save", and the
answers of the daemon. A call of `startEditing` keeps the row and the record of the
click for 50 ms; the editor then opens over the cell that is in this row by then
(`shown`), and writes to the record of the click (`record`).

A click is one step and lasts longer than the 10 ms after which a combo box notices
the loss of the focus. The columns of the file and of the version, which are edited
as the name is, are left out. A list that the daemon sends is put in engine by
engine: `Listed` is one turn of the loop of `generateAvailableEngineList`, a
recursive function inside `Stores` takes them all. The specification is called
`EditorSpec`, since one proof module extends this module and `EngineTree`. `meant` is
what the user, who sees the cell an editor covers, has made of each record; Escape gives
up what was typed, and so does a scroll, which closes the editor with the old value
before the user's eyes. `hurried` is set when an editor is asked for before another one
has opened, or when a sort or a new engine puts another record into the row of a click
whose editor has not opened yet (`RowTaken`).

## 3. Runs

| run | instance | shows |
|---|---|---|
| `pool_safety` | 4 tasks, 2 threads, fair | the safety of the pool, and its refinement of `PoolService` with its liveness: `joinAll` returns |
| `search_safety` | 3 engines, 2 urls, limit 2, 2 threads, fair | merge, final answer whole and given in the end, wake-ups, deletion |
| `parser_safety` | 1 query, 3 addresses and the empty one, 3 urls, limit 2, 2 rows and 2 links per page, fair | what an engine returns; pages read once, none forgotten; counted engines stop; the parsing ends |
| `session_safety` | 2 searches, 2 users, 3 cookies, 3 metaRanks, symmetric | ownership, availability, no leak, running searches answered |
| `session_reopen` | the same | violated: a deleted metaRank is read |
| `session_dump` | the same | violated: a failed save loses the search |
| `request_safety` | buffers of 2, body of 3, answer of 4, fair | requests handled once, answered in order and to the end, state freed once |
| `settings_safety` | 3 trees, 4 forms, 4 texts with an ampersand, 3 changes, 2 kills, opens that fail | tree and settings kept together, and back after a restart |
| `settings_restart` | 1 change, 1 kill | violated: the proxy's port and type do not come back |
| `client_safety` | 2 searches, of 3 engines and of 1, 1 failure, 1 restart, fair | tabs show their own search, never an older state, and all of it in the end |
| `tree_safety` | 3 categories with 3, 1 and no engines, symmetric | searches go to no engine that was not chosen, and to the chosen ones but those a re-opening unchecks |
| `editor_safety` | 3 lists, 3 rows, 1 more name, 2 editors asked for at once | edits land in their record, what is saved is what is meant |

Why these bounds are enough to be of use. The pool: with four tasks for two
threads two tasks wait, both threads take a successor, and both may do so at
once; the proofs then cover any number. The search: three engines on two threads
make one engine wait, let two finish between two polls (which merges two releases
into one) and a third after; two urls and a limit of two let a row be found by
all, at better and worse ranks, and be moved by the sort; the proofs cover any
number of each. The parser: three addresses let a counted engine go two pages too
far; two links a page put a visited address before a new one; two pages of two rows
overrun a limit of two. The sessions: two
searches let a request for one dump the other; two cookies of one user and one
of another make the three cases of ownership; three metaRanks are one per search
and the one a request may still hold. The requests: a buffer of two is smaller than
the body and than the answer, so that either is cut in every way. The
settings: three changes let each thread overlap the other twice, two kills let one
come between restarts, and the forms have an ampersand that costs the text, one that
changes it twice, and one that costs the file; the proofs cover any number of trees, forms, changes and
kills. The client: the search of three engines gets partial answers
while engines merge, that of one engine holds the daemon's thread meanwhile; one
failure and one restart hit every place, and either order of both; the proofs take
no bound. The tree: a category of three engines has boxes that are first, last and
between, a category of one is both the first and the last, one of none is always
full; the proofs cover any number. The editor: two rows are what a sort, a Tab and
an edit that lands in the wrong row need, and a third is one that "Add Engine" puts in
front of them; the lists have an engine once, twice and three times, the lower version
first, last, and equal; the proofs cover any lists, rows and names. The properties say
nothing once `hurried` is set (below), and the constraint `NotHurried` ends the behaviours
there; the proofs take the other way round and have `hurried` as a case of the invariant.

Deadlock is checked where the system never ends: in the runs of the sessions and of
the tree. It is not in those of the pool, the search, the parser, a request and the
editor, which end, nor in those of the settings, where the bound on the changes ends
the run, nor in that of the client, where every tab ends with its answer or an error.

### Fairness

`ThreadPool!Fairness` asks for weak fairness of each thread and of the owner in
`joinAll`: the scheduler runs every thread, and a task returns, since a parser
stops at its limit, when it has no page left (`PageParser!Termination`), and its
downloads time out (`curl_timeout`). Nothing stronger is asked of the mutex: each thread takes it
twice in its life and holds it for a bounded time, so it is free for good in the
end. `MetaSearch!Fairness` is the same for the engines and the daemon, and adds
that the client polls after an answer that is not final, as `PerformSearch.java`
does (`updateGrid`), as long as no request fails. `QueryProcess!Fairness` asks that
the loop of the daemon goes on (`for (;;) shttpd_poll`), that the client sends its
request, and that its socket takes bytes again and again (strong fairness: `select`
does not wait for one connection, so a write may find the socket full many times).
`SearchClient!Fairness` asks that the browser handles what it receives, that the
daemon takes requests as long as there are some (whichever it likes; each search has at most one), and that each
engine of a search reports, which is what `MetaSearch` shows. No tab need be opened,
nothing need fail, and a failure is never undone.

### What was found

Three runs end in a counterexample that contradicts a text of the repository:

* `session_reopen`: for a search that is over, each `getSearch` dumps, deletes and
  loads it again. If the second argument of `createJSON` is evaluated first, as
  g++ does on x86, it points to the metaRank that the first one deletes. The
  client asks so when it did not receive the final answer; the shipped one does
  not poll after it. `RunningIsAnswered` shows that requests for running searches
  are not concerned.
* `session_dump`: the result of `xmlSave` is ignored, so a full disk loses the
  search. `EndedIsAvailable` shows that, of what is modelled, only a kill does so too. A file
  that was written but that `xmlOpen` refuses (`openSave.cpp:95`) counts there as badly saved.
* `settings_restart`: `getInitValues` has the readings of `proxy-port` and
  `proxy-type` swapped. After a restart the port is 0 or 5 and the type HTTP, or
  whatever number the text of the type begins with (none). The other four settings
  come back (`SettingsSurvive`), but for a text with an ampersand (below).

The models have, without a run of their own, what else was met on the way. Where a
property excuses one of these, it says so.

* `metaRank.h:116` says that `waitForNewResults` "only returns when new results are
  available". An engine that ends while the daemon does not wait leaves
  `newResultsLock` released; the answer in progress already has its rows; the
  next poll takes the release and returns at once with nothing new. It costs one
  useless request. `NoLostWakeup` shows that the opposite, a wake-up that is
  lost, cannot happen.
* `commit` parses the file, and does nothing when it does not parse, as while
  `save_config` downloads engine files with the file truncated (`tdParam.cpp:123`).
  Or the two write one over the other.
* `save_config` writes names as it reads them, unescaped (`tddaemon.cpp:28`). The file
  it leaves cannot be parsed, by its own commit or at the next start. The client posts
  names unescaped too: with a raw `&` the daemon answers 200 and saves nothing.
* `setChildContent` gives the browser's command line and the proxy's address to libxml2
  as they are (`nodeDoc.cpp:120`), and libxml2 reads references in them. A command that ends in `&`
  comes back empty (or cut there, with an old libxml2), `&amp;` comes back as `&` and is empty after the next commit, and `&x;`
  leaves a file that does not parse, the tree with it. `SavedTogether` and `SettingsSurvive`
  leave out the text concerned, and the file in the last case until the tree is saved again.
* A category opened again loses what was chosen in it. `onExpand` (`EngineTree.java:46`) runs
  at the end of every expansion and gives all engines the box of their category; it is
  written for the first one, when the boxes appear. Choose one engine of two, close the
  category and open it: the box is empty, and the search does not go there. The same
  happens to a box that is clicked while the category still slides open. `ChosenIsAsked`
  excuses both (`lost`, and the categories that slide), and says that nothing else is lost.
* `metaRank.h:60` says that the "result number can decrease when ranking is started, due
  to multiple same results", and gives `getResultsNumber` an argument to hide that. The code has
  no separate ranking: it merges and sorts as results come in, a repeated url
  joins the row that is there, and the number never decreases (`ResultsOnlyImprove`).
  Nobody calls `getResultsNumber`.
* A maximum of threads that is no number counts as zero, and the one thread of the
  daemon then spins in `joinAll` (`metaRank.cpp:19`).
* Ext JS inverts a box at a double click without the event that
  the listeners of `EngineTree.java` wait for. The boxes then disagree until the next
  click on the category's or its next expansion. `NothingUnwanted` and
  `CategoryMeansAll` show that nothing else makes them disagree.
* The editor: a cell asked for within 50 ms of another one of its column gets its
  text (`ext-all-debug.js:32748` sets the record before the open edit is completed); after a
  sort or a new engine within the 50 ms it opens over the cell that has moved into the
  row (`:32753`) but with the text of the record that was clicked, to which it also writes,
  so that what is typed over one engine lands in another. `EditsLand` and
  `SavesWhatIsMeant` excuse both and nothing else;
  a scroll discards an open edit; of two versions of an engine the list keeps the
  lower one (`EditTree.java:268`); an engine added when there is no category is not
  saved (`:143`); a save that fails leaves the mask over the grid (`:240`).
* The tabs: `updateProgress` writes over the message of an error
  (`PerformSearch.java:364`), and counts an engine of two categories twice (`:389`), so that the
  progress never reaches the end. One lost request stops a tab for good.
* A second exception, thrown inside `closeParse`, makes `startParsing` call it again
  (`pageParser.cpp:135`), and an expression that matches the empty text makes the loop
  of `regExp.cpp:61` run for ever. The models take neither to happen.

## 4. Proofs

`ThreadPoolProofs` proves the safety of `ThreadPool` for every finite set of
tasks and every integer `MaxThreads`, from the assumptions named in the module
(`TaskAssumption`, `MaxThreadsAssumption`). Bounded, NoIdleSlot and the others
are not inductive by themselves; the invariant `IInv` is the conjunction of

* `TypeOK`;
* `MutexInv`: the holder of the mutex is the one thread inside a locked part;
* `ListInv`: the thread list has each launched task once, and nothing else;
* `WaitInv`: the waiting line has each waiting task once, and, between the push
  and the pop of `injectNextThread`, the task just launched at its head;
* `CountInv`: `tpNbThread` is the number of slots in use, and at most
  `MaxThreads` when positive;
* `NoIdleSlot`;
* `JoinInv`: once `joinAll` has seen an empty line nobody waits, every thread it
  has passed has exited.

TLC checked it on small instances first. Each theorem follows: `TypeCorrect`,
`PoolBounded`, `PoolNoIdleSlot`, `PoolLaunchedOnce`, `PoolSlotsCounted`,
`PoolListStable` (an action property, from the same invariant), `PoolJoined`, and
`PoolImplements`: every step of the pool is a step of `PoolService` or stutters.

`MetaSearchProofs` proves the safety of `MetaSearch` for
every finite set of engines, every set of urls, every limit in `Nat` and every
integer `MaxThreads` (`EngineAssumption`, `LimitAssumption`, `ThreadsAssumption`).
Its first part are lemmas about the operators of `RowMerge`: `AddRowCases` says
that a row goes to a new place at the end or improves one that is there,
`ImprovedRow` what that does to it, `SortedRows` that a sort keeps the rows. The
inductive invariant, also called `IInv`, is the conjunction of

* `TypeOK`;
* `LockInv`: `results_lock` is held by the engine that merges, sorts or signals,
  and the count of an engine is there from the moment it takes the lock, so that
  an engine without a count has its signal still to come;
* `PoolInv`: `over` and `active` are what the parsers' own states say;
* `OrderInv`: the results are in order but while an engine merges;
* `FinishedInv`: once `finished`, every engine is done and nothing tears the rows;
* `ResponseInv`: the final answer is the one given after `finished`, and only then
  may the search be deleted;
* `FinalIsComplete` and `NoLostWakeup`, which need the parts above.

TLC checked it on the instance of `search_safety` first. The theorems are
`SearchTypeCorrect`, `FinalAnswerComplete`, `WakeupNotLost`, `DeletedHasNoThread`,
which follows from `ResponseInv`, `FinishedInv` and `PoolInv`, and
`ResultsNeverWorsen`, an action property that needs the types and the lemmas only.

`MergeOfAllFound` (`ResultsAreMerge`) restates the property as `MergeOf(results,
RowsIn, found)`, where `RowsIn` says which rows of each engine have gone in, and
shows that one turn of `addRankedResults` extends `RowsIn` by one row and keeps
`MergeOf`. It needs `LockInv`, since only the holder of `results_lock` may merge,
and the lemmas on `AddRow`; a sort keeps it because it keeps the rows.

`PageParserProofs` proves, for any urls, addresses, limit and bounds,
`ParserReturnsFindings`, which is what `MetaSearch!Findings` assumes,
`ParserNoPageTwice` and `ParserExhausts`. Their invariant has the types;
`FoundInv`, the rows are different and within the limit; `VisitInv`,
`visited_pages` is what was fetched; and `QueueInv`, every address is in `pages`
or in `visited_pages`, and in the latter when the parsing stops by itself.
`ParserCountedPages` adds `CountInv`: what a counted engine has queued is among the
addresses of its queries and those of the numbers of rows it has had. Pages are fetched once, so
the pages are no more than these addresses, and a number of rows is new only after a page that
brought one; `CountTo` and `RangeSize` do the counting.

`SessionStoreProofs` proves the five invariants of `SessionStore` for any sets of
identifiers, cookies, names and metaRanks. The invariant is `StoreInv`, the
properties of memory and disk with the types and `OwnerInv` (a search in memory or
on disk is its creator's), and `ReqInv`, what a request in progress knows: the
search is of its user, and, when it was found running, that it stays in memory
under the pointer taken first until `waitForNewResults` says that it ended. Each
step of `getSearch` is a sequence of dumps, for which `StoreInv` is proved as one
lemma.

`SearchClientProofs` proves `ClientShowsItsOwn` and `ClientShownOnlyImproves`
for any searches and finite sets of engines. The second is an action property whose
invariant relates four places: `OneRequest`, a tab has at most one request, which
is waiting, being answered or answered; `Sessions`, a request after the first names the
tab's own search; and `Newer`, what the tab shows is included in the answer on its
way, that in what the daemon read, and that in what the search has. A restart
empties the last, and `OneRequest` then says that no answer of it can come.

`EngineProofs` proves the four properties of `EngineTree` for any engines and
categories (`NodesAssumption`), finite or not. Their invariant has the types;
`BoxInv`, a box that is set exists; `OpenedInv`, what is chosen in a category never
opened is what its box says; and `Agrees`, for each category without a double click:
its box is set exactly when all of its engines' are, unless an expansion is to set
them, and the engines chosen are those a search would go to, but for those in `lost`.

`QueryProcessProofs` proves the three safety properties of `QueryProcess`, for any
body and answer and a buffer of any size but zero (`SizesAssumption`). The invariant
is the types and

* `ControlInv`: the state exists as long as the flags of the connection say so;
* `InputInv`: until the handler runs, the buffer, the bytes left in `rem`, those in the
  socket and those not sent yet make up the body; after it the whole body was read,
  and the first part of the answer has gone into the empty buffer, so that the handler
  cannot run again;
* `OutputInv`: what was received and what is still in the buffers make up the part of
  the answer read so far;
* `CloseInv`: only a broken connection closes a stream before its end.

`TdParamProofs` proves, for any trees, forms, references, answers of `open`, numbers of
changes and of kills, `SettingsTypeCorrect`, `SettingsSavedTogether` and
`CommittedSettingsSurvive`, an action property of the restarts. The code's constants
give its assumptions: the trees whose names need no escaping are among the trees, none
is one of the marks for a file without a tree (`TreesAssumption`), numbers reach
the defaults of `tdParam` (`NumberAssumption`), and a form fills every field
(`FormsAssumption`). The two properties speak of moments
when nobody is in the file; the invariant says what the file is at the other ones:

* `TypeInv`: the types, and what each thread has in hand at each of its places;
* `StartInv`: the file is missing until the first start, and never after it;
* `SoleInv`: unless something has endangered the file, both threads are in it only
  when the daemon is about to open it and has not yet truncated it;
* `FileInv`: a file that a thread writes does not parse yet and is not mixed; any
  other one parses, its tree is the one saved last, and as soon as no commit is to
  follow it is what a parser makes of that tree with the settings committed last (`Reads`).

The step that takes most is `CommitParse`: the settings of this commit go into the
tree that the other thread may have left, and `SoleInv` is what makes that tree the
last one. `OpenConfig` is where a file that was endangered is taken up again: whatever is
in it, it is truncated, and what the daemon then has in hand is a tree alone.

For the editor `EngineProofs` proves `EveryEditLands`, `SavesAsMeant` and
`OneRowForEach` (the last two are action properties), for any lists of engines and
any names (`ListsAssumption`, `NamesAssumption`: they are made of numbers, as the
names and versions of the model are). `EditorInv` has `SortInv` and
`LoadingInv` (while the list is awaited no editor is open or asked for),
and, unless `hurried`,

* `GridInv`: the grid is `Sound`, that is, an editor is open exactly when it is the
  active one, it is listened to and writes into the record whose cell it covers; and
  `meant = Landed(grid)`: the user's records are those of the grid once the open
  edit is put into its record. This makes `EditsLand` inductive;
* `AskedInv`: an editor is asked for one at a time, only when none is open, and the
  record of the click is still in its row;
* `CategInv`: a record has a category that is listed, when there are any, which
  is what "Save" goes through.

It was checked on a small instance first. The lemmas about the operators on a grid carry the proof: for a sound grid `Blurred`,
`Stopped` and Enter all come to `Done` (`EditEnds`), which keeps `Landed`
(`DoneIs`); typing changes one cell of it (`PutIs`); cancelling gives the grid's own
records back (`CancelIs`); a deferred `startEditing` changes no record (`StartedIs`).

`SavesAsMeant` needs `LoadingInv` and `CategInv` besides: a record of no listed
category would not be sent. `OneRowForEach` is about the loop that fills the store,
for every list that may come. `AfterExists` shows that the recursive function
inside `Stores` is one (by the least number at which it would fail to be), and
`StoresFilled` that after each of its turns the rows have different names
(`Apart`) and every engine so far has a row of its name and of no higher version
(`Covered`). The latter needs to know that `Sorted` loses and doubles no row:
`SortedPermutes` shows that two rows never get the same place, so that the places,
being as many as the rows, are all taken. `ApplySortIsStable` completes the picture
of the sort: what it gives is in order, and ties stay as they were.

Model-checked only: liveness (out of the prover's reach) and the three findings.
Every other property that a run checks is a theorem.

## 5. Not modelled, and the plan

Not modelled for good: SHA-1 and the parts of SHTTPD and Ext JS that the program
does not run or that only draw; the text helpers
(`getHttp`, `regExp`, `xmlFile`, `nodeDoc`), which keep no state of the program;
`isAlive`, `howManyFinished` and the copy of a pool, which nobody uses.

Most of the JavaScript in the repository is vendored: the thirteen files of Ext JS,
jQuery, Prototype and their minified forms have 48 433 lines, of which the program
loads Ext and runs its tree, its grid and its editors. The map names the lines of
those that `EngineTree` and `EngineEditor` translate. The rest is widgets, layout and
adapters that the client never calls, and no larger share of these files could be
mapped to the behaviour of this program. The C++ and the Java of the program itself
are covered by the other modules.

What is left, in this order:

1. `OpenSave`: what a search is after `xmlSave` and `xmlOpen`; files that cannot
   be opened again; merging into it. `SessionStore` has such a file as bad.
2. `Users`: the password file and the history, beside the cookies.
3. Rows with several comparable fields (exalead, lookforbook, packetnews), as an
   instance of `RowMerge` with sets of fields.
4. The console as another owner of a search, which does what the daemon does
   without polls.

Proofs planned: that a `Parse` step of `MetaSearch` is what `PageParser` promises, as a
refinement of its own, and the safety of the modules above.
