------------------------- MODULE SessionStoreProofs -------------------------
(***************************************************************************)
(* Searches belong to their users, stay available and are deleted once,    *)
(* for any identifiers, cookies, users and metaRanks.                      *)
(***************************************************************************)
EXTENDS SessionStore, TLAPS

FileType == [Name -> [Id -> {"none", "good", "bad"}]]

\* The type of the request.
ReqType == [pc : {"idle", "search", "waiting", "pointer", "json"},
            cookie : Cookie \cup {Nobody}, id : Id \cup {NULL},
            mr : Object \cup {NULL}, running : BOOLEAN]

TypeInv ==
  /\ clients \in [Cookie -> Name \cup {Nobody}]
  /\ searches \in [Id -> Search \cup {NoSearch}]
  /\ file \in FileType
  /\ live \subseteq Object
  /\ order \in {"LR", "RL"}
  /\ creator \in [Id -> Name \cup {Nobody}]
  /\ ended \subseteq Id /\ excused \subseteq Id

\* An entry and a file are of the user that started the search, who holds the
\* cookie of the entry.
OwnerInv ==
  /\ \A i \in InMemory : /\ searches[i].userName = creator[i]
                         /\ clients[searches[i].userID] = creator[i]
  /\ \A n \in Name, i \in Id : file[n][i] # "none" => n = creator[i]
  /\ \A i \in ended : creator[i] # Nobody

\* What holds of the store between any two calls of getSearch.
StoreInv == TypeInv /\ OwnerInv /\ RunningHasNoFile /\ NoLeak /\ EndedIsAvailable

\* What a request knows of its search: that it is of its user; after the first
\* argument, that it is in memory; and if it was found running, that it is until
\* waitForNewResults says otherwise, and that createJSON's argument is it.
ReqInv ==
  /\ req \in ReqType
  /\ req.pc # "idle" =>
       /\ req.cookie \in Cookie /\ req.id \in Id
       /\ clients[req.cookie] \in Name /\ creator[req.id] = clients[req.cookie]
  /\ req.pc = "waiting" => req.id \in InMemory
  /\ req.running /\ req.pc \in {"search", "waiting"} \cup
                              (IF order = "RL" THEN {"pointer"} ELSE {}) =>
       Matches(req.id, req.cookie) /\ ~searches[req.id].finished
  /\ req.running /\ order = "RL" /\ req.pc \in {"search", "waiting"} =>
       req.mr = searches[req.id].mr
  /\ RunningIsAnswered

IInv == StoreInv /\ ReqInv

-----------------------------------------------------------------------------
(* The order in which a request goes through its calls. *)

LEMMA Order ==
  ASSUME order \in {"LR", "RL"}
  PROVE  /\ After("search") = "waiting"
         /\ After("waiting") = IF order = "LR" THEN "pointer" ELSE "json"
         /\ After("pointer") = IF order = "LR" THEN "json" ELSE "search"
         /\ Steps(order)[1] = IF order = "LR" THEN "search" ELSE "pointer"
<1>1. CASE order = "LR"
  <2>1. Steps(order) = <<"search", "waiting", "pointer", "json">>
    BY <1>1 DEF Steps
  <2>2. /\ (CHOOSE k \in 1 .. 3 : Steps(order)[k] = "search") = 1
        /\ (CHOOSE k \in 1 .. 3 : Steps(order)[k] = "waiting") = 2
        /\ (CHOOSE k \in 1 .. 3 : Steps(order)[k] = "pointer") = 3
    BY <2>1
  <2> QED
    BY <1>1, <2>1, <2>2 DEF After
<1>2. CASE order = "RL"
  <2>1. Steps(order) = <<"pointer", "search", "waiting", "json">>
    BY <1>2 DEF Steps
  <2>2. /\ (CHOOSE k \in 1 .. 3 : Steps(order)[k] = "pointer") = 1
        /\ (CHOOSE k \in 1 .. 3 : Steps(order)[k] = "search") = 2
        /\ (CHOOSE k \in 1 .. 3 : Steps(order)[k] = "waiting") = 3
    BY <2>1
  <2> QED
    BY <1>2, <2>1, <2>2 DEF After
<1> QED
  BY <1>1, <1>2

-----------------------------------------------------------------------------
(* dumpToDisk. *)

\* What is in memory has its fields.
LEMMA InMemoryTypes ==
  ASSUME TypeInv, NEW i \in InMemory
  PROVE  /\ i \in Id /\ searches[i] \in Search
         /\ searches[i].mr \in Object /\ searches[i].userID \in Cookie
         /\ searches[i].userName \in Name /\ searches[i].finished \in BOOLEAN
BY DEF TypeInv, InMemory, Search

\* The files are still of the users who started the searches, those of searches
\* that are not dumped stay as they are, and a dumped search without a file that
\* can be opened is excused.
LEMMA SavedFiles ==
  ASSUME TypeInv, OwnerInv, NEW how \in Saves
  PROVE  /\ Saved(how) \in FileType
         /\ \A n \in Name, i \in Id : Saved(how)[n][i] # "none" => n = creator[i]
         /\ \A n \in Name, i \in Id : i \notin Ended => Saved(how)[n][i] = file[n][i]
         /\ \A i \in Id \ Ended : OnDisk(file, i) => OnDisk(Saved(how), i)
         /\ \A i \in Ended : OnDisk(Saved(how), i) \/ i \in Spoilt(how)
         /\ Spoilt(how) \subseteq Id
<1>1. Saved(how) \in FileType
  BY DEF Saved, Saves, FileType, TypeInv
<1>2. \A n \in Name, i \in Id : Saved(how)[n][i] # "none" => n = creator[i]
  BY DEF Saved, OwnerInv, Ended, InMemory
<1>3. \A n \in Name, i \in Id : i \notin Ended => Saved(how)[n][i] = file[n][i]
  BY DEF Saved
<1>4. \A i \in Id \ Ended : OnDisk(file, i) => OnDisk(Saved(how), i)
  BY <1>3 DEF OnDisk
<1>5. \A i \in Ended : OnDisk(Saved(how), i) \/ i \in Spoilt(how)
  <2> TAKE i \in Ended
  <2>1. i \in Id /\ searches[i].userName \in Name
    BY InMemoryTypes DEF Ended
  <2>2. CASE how[i] = "good"
    BY <2>1, <2>2 DEF Saved, OnDisk
  <2>3. CASE how[i] # "good"
    BY <2>3 DEF Spoilt
  <2> QED
    BY <2>2, <2>3
<1>6. Spoilt(how) \subseteq Id
  BY DEF Spoilt, Ended, InMemory
<1> QED
  BY <1>1, <1>2, <1>3, <1>4, <1>5, <1>6

\* What memory is left with has the metaRanks that are not deleted.
LEMMA KeptMetaRanks ==
  ASSUME TypeInv, NoLeak
  PROVE  /\ Kept \in [Id -> Search \cup {NoSearch}]
         /\ \A i \in Id : Kept[i] # NoSearch <=> i \in InMemory \ Ended
         /\ \A i \in InMemory \ Ended : Kept[i] = searches[i]
         /\ live \ Deleted = {searches[i].mr : i \in InMemory \ Ended}
<1>1. Kept \in [Id -> Search \cup {NoSearch}]
  BY DEF Kept, TypeInv
<1>2. \A i \in InMemory \ Ended : Kept[i] = searches[i] /\ i \in Id
  BY DEF Kept, InMemory
<1>3. \A i \in Id : Kept[i] # NoSearch <=> i \in InMemory \ Ended
  BY DEF Kept, InMemory
<1>4. live \ Deleted = {searches[i].mr : i \in InMemory \ Ended}
  BY DEF NoLeak, Deleted, Ended
<1> QED
  BY <1>1, <1>2, <1>3, <1>4

\* Memory and disk after a dump, with one entry more or none: e is put in place of
\* that of search i, which is not in memory.
LEMMA DumpKeeps ==
  ASSUME StoreInv, NEW how \in Saves, NEW i \in Id, NEW e,
         file' = Saved(how), excused' = excused \cup Spoilt(how),
         \/ searches' = Kept /\ live' = live \ Deleted
         \/ /\ i \notin InMemory \ Ended
            /\ e \in Search /\ e.userName = creator'[i] /\ clients[e.userID] = creator'[i]
            /\ e.mr \notin live \ Deleted
            /\ e.finished \/ \A n \in Name : file'[n][i] = "none"
            /\ searches' = [Kept EXCEPT ![i] = e]
            /\ live' = (live \ Deleted) \cup {e.mr},
         \/ creator' = creator
         \/ creator[i] = Nobody /\ \E n \in Name : creator' = [creator EXCEPT ![i] = n],
         UNCHANGED <<clients, order, ended>>
  PROVE  StoreInv'
<1> USE DEF StoreInv
<1>1. /\ Saved(how) \in FileType
      /\ \A n \in Name, j \in Id : Saved(how)[n][j] # "none" => n = creator[j]
      /\ \A n \in Name, j \in Id : j \notin Ended => Saved(how)[n][j] = file[n][j]
      /\ \A j \in Id \ Ended : OnDisk(file, j) => OnDisk(Saved(how), j)
      /\ \A j \in Ended : OnDisk(Saved(how), j) \/ j \in Spoilt(how)
      /\ Spoilt(how) \subseteq Id
  BY SavedFiles
<1>2. /\ Kept \in [Id -> Search \cup {NoSearch}]
      /\ \A j \in Id : Kept[j] # NoSearch <=> j \in InMemory \ Ended
      /\ \A j \in InMemory \ Ended : Kept[j] = searches[j]
      /\ live \ Deleted = {searches[j].mr : j \in InMemory \ Ended}
  BY KeptMetaRanks
<1>3. \/ /\ InMemory' = InMemory \ Ended
         /\ \A j \in InMemory \ Ended : searches'[j] = searches[j]
         /\ live' = live \ Deleted
      \/ /\ InMemory' = (InMemory \ Ended) \cup {i} /\ i \notin InMemory \ Ended
         /\ \A j \in InMemory \ Ended : searches'[j] = searches[j]
         /\ searches'[i] = e
         /\ live' = (live \ Deleted) \cup {e.mr}
         /\ e \in Search /\ e.userName = creator'[i] /\ clients[e.userID] = creator'[i]
         /\ e.mr \notin live \ Deleted
         /\ e.finished \/ \A n \in Name : file'[n][i] = "none"
  <2>1. CASE searches' = Kept /\ live' = live \ Deleted
    BY <2>1, <1>2 DEF InMemory
  <2>2. CASE ~(searches' = Kept /\ live' = live \ Deleted)
    <3>1. e # NoSearch
      BY <2>2, NoSearchAssumption DEF Search
    <3>2. searches'[i] = e /\ \A j \in Id \ {i} : searches'[j] = Kept[j]
      BY <2>2, <1>2
    <3>3. InMemory' = (InMemory \ Ended) \cup {i}
      BY <3>1, <3>2, <1>2 DEF InMemory
    <3>4. \A j \in InMemory \ Ended : searches'[j] = searches[j]
      BY <2>2, <3>2, <1>2 DEF InMemory
    <3> QED
      BY <2>2, <3>2, <3>3, <3>4
  <2> QED
    BY <2>1, <2>2
<1>4. /\ \A n \in Name, j \in Id : creator[j] = n => creator'[j] = n
      /\ \A j \in Id : creator[j] # Nobody => creator'[j] = creator[j]
      /\ creator' \in [Id -> Name \cup {Nobody}]
  BY NobodyAssumption DEF TypeInv
<1>5. \A j \in InMemory \ Ended :
        /\ j \in Id /\ searches[j] \in Search /\ searches[j].userName = creator[j]
        /\ clients[searches[j].userID] = creator[j] /\ creator[j] \in Name
        /\ ~searches[j].finished
  BY InMemoryTypes DEF OwnerInv, Ended
<1>6. TypeInv'
  <2>1. searches' \in [Id -> Search \cup {NoSearch}]
    BY <1>2
  <2>2. live' \subseteq Object
    BY <1>3 DEF TypeInv, Search
  <2> QED
    BY <1>1, <1>4, <2>1, <2>2 DEF TypeInv
<1>7. OwnerInv'
  <2>1. (\A j \in InMemory : /\ searches[j].userName = creator[j]
                            /\ clients[searches[j].userID] = creator[j])'
    BY <1>3, <1>4, <1>5
  <2>2. (\A n \in Name, j \in Id : file[n][j] # "none" => n = creator[j])'
    BY <1>1, <1>4
  <2>3. (\A j \in ended : creator[j] # Nobody)'
    BY <1>4 DEF OwnerInv, TypeInv
  <2> QED
    BY <2>1, <2>2, <2>3 DEF OwnerInv
<1>8. RunningHasNoFile'
  <2> SUFFICES ASSUME NEW j \in InMemory', ~searches'[j].finished, NEW n \in Name
               PROVE  file'[n][j] = "none"
    BY DEF RunningHasNoFile
  <2>1. CASE j \in InMemory \ Ended
    BY <2>1, <1>1, <1>5 DEF RunningHasNoFile
  <2>2. CASE j \notin InMemory \ Ended
    BY <2>2, <1>3
  <2> QED
    BY <2>1, <2>2
<1>9. NoLeak'
  <2>1. \A j \in InMemory \ Ended : searches[j].mr \in live \ Deleted
    BY <1>2
  <2>2. \A j, k \in InMemory \ Ended : searches[j].mr = searches[k].mr => j = k
    BY DEF NoLeak
  <2>3. CASE InMemory' = InMemory \ Ended
    BY <2>2, <2>3, <1>2, <1>3 DEF NoLeak
  <2>4. CASE InMemory' = (InMemory \ Ended) \cup {i} /\ i \notin InMemory \ Ended
    BY <2>1, <2>2, <2>4, <1>2, <1>3 DEF NoLeak
  <2> QED
    BY <2>3, <2>4, <1>3
<1>10. EndedIsAvailable'
  <2> SUFFICES ASSUME NEW j \in ended, j \notin excused'
               PROVE  j \in InMemory' \/ OnDisk(file', j)
    BY DEF EndedIsAvailable
  <2>1. j \in Id /\ j \notin excused /\ j \notin Spoilt(how)
    BY DEF TypeInv
  <2>2. CASE j \in Ended
    BY <2>1, <2>2, <1>1
  <2>3. CASE j \in InMemory \ Ended
    BY <2>3, <1>3
  <2>4. CASE j \notin InMemory
    <3>1. OnDisk(file, j) /\ j \notin Ended
      BY <2>1, <2>4 DEF EndedIsAvailable, Ended
    <3> QED
      BY <3>1, <2>1, <1>1
  <2> QED
    BY <2>2, <2>3, <2>4
<1> QED
  BY <1>6, <1>7, <1>8, <1>9, <1>10

\* getSearch leaves the store in order, and what it returns is the search of the
\* user who asks; a search that runs is not replaced.
LEMMA GetSearchKeeps ==
  ASSUME StoreInv, NEW c \in Cookie, clients[c] \in Name, NEW i \in Id,
         NEW mr \in Object \cup {NULL}, getSearch(c, i, mr),
         UNCHANGED <<clients, order, creator, ended>>
  PROVE  /\ StoreInv'
         /\ mr # NULL =>
              /\ i \in InMemory' /\ searches'[i].mr = mr /\ searches'[i].userID = c
              /\ mr \in live' /\ creator[i] = clients[c]
         /\ Matches(i, c) /\ ~searches[i].finished =>
              mr = searches[i].mr /\ searches'[i] = searches[i]
<1> USE DEF StoreInv
<1> PICK how \in Saves :
      /\ file' = Saved(how)
      /\ excused' = excused \cup Spoilt(how)
      /\ \/ /\ Matches(i, c)
            /\ mr = Kept[i].mr
            /\ searches' = Kept
            /\ live' = live \ Deleted
         \/ /\ ~Matches(i, c)
            /\ file'[clients[c]][i] = "good"
            /\ mr \in Fresh
            /\ searches' = [Kept EXCEPT ![i] = Entry(mr, c, TRUE)]
            /\ live' = (live \ Deleted) \cup {mr}
         \/ /\ ~Matches(i, c)
            /\ file'[clients[c]][i] # "good"
            /\ mr = NULL
            /\ searches' = Kept
            /\ live' = live \ Deleted
  BY DEF getSearch
<1>1. /\ \A n \in Name : file'[n][i] # "none" => n = creator[i]
      /\ i \notin Ended => \A n \in Name : file'[n][i] = file[n][i]
  BY SavedFiles
<1>2. /\ Kept \in [Id -> Search \cup {NoSearch}]
      /\ \A j \in Id : Kept[j] # NoSearch <=> j \in InMemory \ Ended
      /\ \A j \in InMemory \ Ended : Kept[j] = searches[j]
      /\ live \ Deleted = {searches[j].mr : j \in InMemory \ Ended}
  BY KeptMetaRanks
<1>3. CASE Matches(i, c)
  <2>1. StoreInv'
    BY <1>3, DumpKeeps
  <2>2. i \in InMemory \ Ended /\ searches'[i] = searches[i] /\ searches[i].userID = c
    BY <1>2, <1>3 DEF Matches
  <2>3. i \in InMemory' /\ mr \in live' /\ mr = searches[i].mr
    BY <1>2, <1>3, <2>2 DEF InMemory
  <2>4. creator[i] = clients[c]
    BY <2>2 DEF OwnerInv
  <2> QED
    BY <2>1, <2>2, <2>3, <2>4
<1>4. CASE ~Matches(i, c) /\ file'[clients[c]][i] = "good"
  <2> DEFINE e == Entry(mr, c, TRUE)
  <2>1. creator[i] = clients[c] /\ mr \in Object
    BY <1>1, <1>4 DEF Fresh
  <2>2. /\ e \in Search /\ e.userName = creator[i] /\ e.userID = c /\ e.mr = mr
        /\ e.finished
    BY <2>1 DEF Entry, Search
  <2>3. i \notin InMemory \ Ended
    BY <1>1, <1>4 DEF RunningHasNoFile, Ended
  <2>4. mr \notin live \ Deleted
    BY <1>2, <1>4 DEF Fresh
  <2>5. /\ searches' = [Kept EXCEPT ![i] = e]
        /\ live' = (live \ Deleted) \cup {mr}
    BY <1>4
  <2> HIDE DEF e
  <2>6. StoreInv'
    BY <2>1, <2>2, <2>3, <2>4, <2>5, DumpKeeps
  <2>7. searches'[i] = e /\ e # NoSearch
    BY <1>2, <2>2, <2>5, NoSearchAssumption DEF Search
  <2> QED
    BY <1>4, <2>1, <2>2, <2>5, <2>6, <2>7 DEF InMemory
<1>5. CASE ~Matches(i, c) /\ file'[clients[c]][i] # "good"
  BY <1>5, DumpKeeps
<1> QED
  BY <1>3, <1>4, <1>5

-----------------------------------------------------------------------------
(* The requests. *)

LEMMA InitIInv == Init => IInv
<1> SUFFICES ASSUME Init PROVE IInv
  OBVIOUS
<1>1. InMemory = {}
  BY DEF Init, InMemory
<1>2. TypeInv
  BY DEF Init, TypeInv, FileType
<1>3. OwnerInv /\ RunningHasNoFile /\ NoLeak /\ EndedIsAvailable
  BY <1>1 DEF Init, OwnerInv, RunningHasNoFile, NoLeak, EndedIsAvailable
<1>4. ReqInv
  BY DEF Init, Idle, ReqInv, ReqType, RunningIsAnswered
<1> QED
  BY <1>2, <1>3, <1>4 DEF IInv, StoreInv

\* Somebody who was not known logs in; no entry is of a cookie that is not known.
LEMMA AuthenticateKeeps ==
  ASSUME IInv, NEW c \in Cookie, NEW n \in Name, Authenticate(c, n)
  PROVE  IInv'
<1> USE DEF Authenticate, store, IInv, StoreInv
<1>1. InMemory' = InMemory /\ \A i \in InMemory : searches[i].userID # c
  <2>1. \A i \in InMemory : creator[i] # Nobody
    BY InMemoryTypes, NobodyAssumption DEF OwnerInv
  <2> QED
    BY <2>1 DEF OwnerInv, InMemory
<1>2. TypeInv'
  BY DEF TypeInv
<1>3. OwnerInv'
  BY <1>1, InMemoryTypes DEF OwnerInv, TypeInv
<1>4. RunningHasNoFile' /\ NoLeak' /\ EndedIsAvailable'
  BY <1>1 DEF RunningHasNoFile, NoLeak, EndedIsAvailable, OnDisk
<1>5. ReqInv'
  BY DEF ReqInv, RunningIsAnswered
<1> QED
  BY <1>2, <1>3, <1>4, <1>5

LEMMA NewQueryKeeps ==
  ASSUME IInv, NEW c \in Cookie, NEW i \in Id, newQuery(c, i)
  PROVE  IInv'
<1> USE DEF IInv
<1> PICK mr \in Object \ live, how \in Saves :
      /\ searches' = [Kept EXCEPT ![i] = Entry(mr, c, FALSE)]
      /\ live' = (live \ Deleted) \cup {mr}
      /\ file' = Saved(how)
      /\ excused' = excused \cup Spoilt(how)
  BY DEF newQuery
<1> DEFINE e == Entry(mr, c, FALSE)
<1>1. /\ clients[c] \in Name /\ creator[i] = Nobody
      /\ creator' = [creator EXCEPT ![i] = clients[c]] /\ creator'[i] = clients[c]
      /\ UNCHANGED <<clients, order, ended>>
  BY DEF newQuery, StoreInv, TypeInv
<1>2. /\ e \in Search /\ e.userName = clients[c] /\ e.userID = c /\ e.mr = mr
      /\ e.finished = FALSE /\ e # NoSearch
  <2>1. e = [mr |-> mr, userID |-> c, userName |-> clients[c], finished |-> FALSE]
    BY DEF Entry
  <2> HIDE DEF e
  <2>2. e \in Search
    BY <1>1, <2>1 DEF Search
  <2> QED
    BY <2>1, <2>2, NoSearchAssumption DEF Search
<1>3. i \notin InMemory
  BY <1>1, InMemoryTypes, NobodyAssumption DEF StoreInv, OwnerInv
<1>4. \A n \in Name : file'[n][i] = "none"
  BY <1>1, SavedFiles, NobodyAssumption DEF StoreInv
<1>5. searches' = [Kept EXCEPT ![i] = e]
  OBVIOUS
<1> HIDE DEF e
<1>6. StoreInv'
  BY <1>1, <1>2, <1>3, <1>4, <1>5, DumpKeeps
<1>7. searches'[i] = e
  BY <1>5, KeptMetaRanks DEF StoreInv
<1>8. Matches(i, c)' /\ ~searches'[i].finished
  BY <1>2, <1>3, <1>7 DEF Matches, Kept, Ended, InMemory
<1>9. ReqInv'
  <2>1. /\ req' = [Idle EXCEPT !.pc = Steps(order)[1], !.cookie = c, !.id = i,
                               !.running = TRUE]
        /\ Steps(order)[1] \in {"search", "pointer"}
        /\ order = "RL" => Steps(order)[1] = "pointer"
    BY Order DEF newQuery, StoreInv, TypeInv
  <2>2. /\ req' \in ReqType /\ req'.pc = Steps(order)[1] /\ req'.cookie = c
        /\ req'.id = i
    BY <2>1 DEF Idle, ReqType
  <2> QED
    BY <1>1, <1>8, <2>1, <2>2 DEF ReqInv, RunningIsAnswered
<1> QED
  BY <1>6, <1>9

\* The calls of getSearch with which a request begins, or which are all of it.
LEMMA RequestKeeps ==
  ASSUME IInv, NEW c \in Cookie, NEW i \in Id, get_next_results(c, i) \/ export_csv(c, i)
  PROVE  IInv'
<1> USE DEF IInv
<1>1. /\ clients[c] \in Name /\ req.pc = "idle"
      /\ UNCHANGED <<clients, order, creator, ended>>
  BY DEF get_next_results, export_csv, StoreInv, TypeInv
<1> PICK mr \in Object \cup {NULL} :
      /\ getSearch(c, i, mr)
      /\ \/ req' = req
         \/ mr = NULL /\ req' = Idle
         \/ mr # NULL /\ req' = [Idle EXCEPT !.pc = Steps(order)[1], !.cookie = c, !.id = i,
                                             !.running = ~searches'[i].finished]
  BY DEF get_next_results, export_csv
<1>2. /\ StoreInv'
      /\ mr # NULL =>
           /\ i \in InMemory' /\ searches'[i].userID = c /\ creator[i] = clients[c]
  BY <1>1, GetSearchKeeps
<1>3. ReqInv'
  <2>1. CASE req' = req \/ req' = Idle
    <3>1. Idle \in ReqType /\ Idle.pc = "idle"
      BY DEF Idle, ReqType
    <3>2. req' \in ReqType /\ req'.pc = "idle"
      BY <1>1, <2>1, <3>1 DEF ReqInv
    <3> QED
      BY <3>2 DEF ReqInv, RunningIsAnswered
  <2>2. CASE /\ mr # NULL
             /\ req' = [Idle EXCEPT !.pc = Steps(order)[1], !.cookie = c, !.id = i,
                                    !.running = ~searches'[i].finished]
    <3>1. /\ Steps(order)[1] \in {"search", "pointer"}
          /\ order = "RL" => Steps(order)[1] = "pointer"
      BY Order DEF StoreInv, TypeInv
    <3>2. /\ req' \in ReqType /\ req'.pc = Steps(order)[1] /\ req'.cookie = c
          /\ req'.id = i /\ req'.running = ~searches'[i].finished
      BY <2>2, <3>1 DEF Idle, ReqType
    <3>3. ~searches'[i].finished => Matches(i, c)'
      BY <1>2, <2>2 DEF Matches, Kept, Ended, InMemory
    <3> QED
      BY <1>1, <1>2, <2>2, <3>1, <3>2, <3>3 DEF ReqInv, RunningIsAnswered
  <2> QED
    BY <2>1, <2>2
<1> QED
  BY <1>2, <1>3

LEMMA ArgumentKeeps ==
  ASSUME IInv, SearchArgument \/ PointerArgument
  PROVE  IInv'
<1> USE DEF IInv
<1> PICK c \in Cookie, i \in Id : c = req.cookie /\ i = req.id
  BY DEF SearchArgument, PointerArgument, ReqInv
<1>1. /\ clients[c] \in Name /\ creator[i] = clients[c]
      /\ UNCHANGED <<clients, order, creator, ended>> /\ req \in ReqType
      /\ order \in {"LR", "RL"}
  BY DEF SearchArgument, PointerArgument, ReqInv, StoreInv, TypeInv
<1>2. ASSUME NEW mr \in Object \cup {NULL}, getSearch(c, i, mr)
      PROVE  /\ StoreInv'
             /\ mr # NULL => /\ i \in InMemory' /\ searches'[i].mr = mr
                             /\ searches'[i].userID = c /\ mr \in live'
             /\ Matches(i, c) /\ ~searches[i].finished =>
                  /\ mr = searches[i].mr /\ searches'[i] = searches[i]
                  /\ i \in InMemory' /\ mr # NULL /\ Matches(i, c)'
  <2>1. /\ StoreInv'
        /\ mr # NULL => /\ i \in InMemory' /\ searches'[i].mr = mr
                        /\ searches'[i].userID = c /\ mr \in live'
        /\ Matches(i, c) /\ ~searches[i].finished =>
             mr = searches[i].mr /\ searches'[i] = searches[i]
    BY <1>1, <1>2, GetSearchKeeps
  <2>2. ASSUME Matches(i, c), ~searches[i].finished
        PROVE  i \in InMemory' /\ mr # NULL /\ Matches(i, c)'
    <3>1. i \in InMemory /\ searches[i].userID = c
      BY <1>1, <2>2 DEF Matches, Kept, InMemory
    <3>2. searches[i].mr \in Object
      BY <3>1, InMemoryTypes DEF StoreInv
    <3>3. mr = searches[i].mr /\ mr # NULL /\ searches'[i] = searches[i]
      BY <2>1, <2>2, <3>2, NullAssumption
    <3>4. i \in InMemory' /\ i \notin Ended'
      BY <2>1, <2>2, <3>3 DEF Ended
    <3> QED
      BY <1>1, <3>1, <3>3, <3>4 DEF Matches, Kept, InMemory
  <2> QED
    BY <2>1, <2>2
<1>3. CASE SearchArgument
  <2> PICK mr \in Object \cup {NULL} : getSearch(c, i, mr) /\ mr # NULL
    BY <1>3 DEF SearchArgument
  <2>1. req' = [req EXCEPT !.pc = "waiting"] /\ req.pc = "search"
    BY <1>1, <1>3, Order DEF SearchArgument
  <2>2. /\ req' \in ReqType /\ req'.pc = "waiting" /\ req'.cookie = c /\ req'.id = i
        /\ req'.mr = req.mr /\ req'.running = req.running
    BY <1>1, <2>1 DEF ReqType
  <2>3. ReqInv'
    BY <1>1, <1>2, <2>1, <2>2 DEF ReqInv, RunningIsAnswered
  <2> QED
    BY <1>2, <2>3
<1>4. CASE PointerArgument
  <2> PICK mr \in Object \cup {NULL} :
        getSearch(c, i, mr) /\ req' = [req EXCEPT !.pc = After("pointer"), !.mr = mr]
    BY <1>4 DEF PointerArgument
  <2>1. /\ After("pointer") = (IF order = "LR" THEN "json" ELSE "search")
        /\ req.pc = "pointer"
    BY <1>1, <1>4, Order DEF PointerArgument
  <2>2. /\ req' \in ReqType /\ req'.pc = After("pointer") /\ req'.cookie = c
        /\ req'.id = i /\ req'.mr = mr /\ req'.running = req.running
    BY <1>1, <2>1 DEF ReqType
  <2>3. ReqInv'
    BY <1>1, <1>2, <2>1, <2>2 DEF ReqInv, RunningIsAnswered
  <2> QED
    BY <1>2, <2>3
<1> QED
  BY <1>3, <1>4

\* waitForNewResults may finish the search, which stays where it is.
LEMMA WaitForNewResultsKeeps ==
  ASSUME IInv, waitForNewResults
  PROVE  IInv'
<1> DEFINE i == req.id
<1> USE DEF IInv
<1>1. /\ req.pc = "waiting" /\ i \in InMemory /\ order \in {"LR", "RL"} /\ req \in ReqType
      /\ UNCHANGED <<clients, file, live, excused, order, creator>>
      /\ searches[i] \in Search /\ i \in Id /\ searches[i].mr \in live
  BY InMemoryTypes DEF waitForNewResults, ReqInv, StoreInv, TypeInv, NoLeak
<1>2. \/ UNCHANGED <<searches, ended>>
      \/ /\ searches' = [searches EXCEPT ![i].finished = TRUE]
         /\ ended' = ended \cup {i}
  BY DEF waitForNewResults
<1>3. /\ searches' \in [Id -> Search \cup {NoSearch}]
      /\ InMemory' = InMemory
      /\ \A j \in InMemory :
           /\ searches'[j].mr = searches[j].mr /\ searches'[j].userID = searches[j].userID
           /\ searches'[j].userName = searches[j].userName
           /\ ~searches'[j].finished => ~searches[j].finished
  <2>1. CASE UNCHANGED searches
    BY <2>1 DEF InMemory, StoreInv, TypeInv
  <2>2. CASE searches' = [searches EXCEPT ![i].finished = TRUE]
    <3>1. searches' = [searches EXCEPT ![i] = [searches[i] EXCEPT !.finished = TRUE]]
      BY <1>1, <2>2 DEF StoreInv, TypeInv
    <3>2. /\ [searches[i] EXCEPT !.finished = TRUE] \in Search
          /\ [searches[i] EXCEPT !.finished = TRUE] # NoSearch
      BY <1>1, NoSearchAssumption DEF Search
    <3>3. /\ searches' \in [Id -> Search \cup {NoSearch}]
          /\ \A j \in Id \ {i} : searches'[j] = searches[j]
          /\ searches'[i] = [searches[i] EXCEPT !.finished = TRUE]
      BY <1>1, <3>1, <3>2 DEF StoreInv, TypeInv
    <3>4. InMemory' = InMemory
      BY <1>1, <3>2, <3>3 DEF InMemory
    <3>5. \A j \in InMemory : searches[j] \in Search /\ searches[j].finished \in BOOLEAN /\ j \in Id
      BY InMemoryTypes DEF StoreInv
    <3> QED
      BY <1>1, <3>3, <3>4, <3>5 DEF Search, InMemory
  <2> QED
    BY <1>2, <2>1, <2>2
<1>4. TypeInv'
  BY <1>1, <1>2, <1>3 DEF StoreInv, TypeInv
<1>5. OwnerInv'
  <2>1. creator[i] # Nobody
    BY <1>1, InMemoryTypes, NobodyAssumption DEF StoreInv, OwnerInv
  <2> QED
    BY <1>1, <1>2, <1>3, <2>1 DEF StoreInv, OwnerInv
<1>6. RunningHasNoFile'
  BY <1>1, <1>3 DEF StoreInv, RunningHasNoFile
<1>7. NoLeak'
  BY <1>1, <1>3 DEF StoreInv, NoLeak
<1>8. EndedIsAvailable'
  BY <1>1, <1>2, <1>3 DEF StoreInv, EndedIsAvailable, OnDisk
<1>9. ReqInv'
  <2>1. /\ req' = [req EXCEPT !.pc = After("waiting")]
        /\ After("waiting") = IF order = "LR" THEN "pointer" ELSE "json"
    BY <1>1, Order DEF waitForNewResults
  <2>2. /\ req' \in ReqType /\ req'.pc = After("waiting") /\ req'.cookie = req.cookie
        /\ req'.id = i /\ req'.mr = req.mr /\ req'.running = req.running
    BY <1>1, <2>1 DEF ReqType
  <2> QED
    BY <1>1, <2>1, <2>2 DEF ReqInv, RunningIsAnswered
<1> QED
  BY <1>4, <1>5, <1>6, <1>7, <1>8, <1>9 DEF StoreInv

LEMMA CreateJSONKeeps ==
  ASSUME IInv, createJSON
  PROVE  IInv'
<1> USE DEF createJSON, store, IInv, StoreInv
<1>1. InMemory' = InMemory
  BY DEF InMemory
<1>2. TypeInv'
  BY DEF TypeInv
<1>3. OwnerInv' /\ RunningHasNoFile' /\ NoLeak' /\ EndedIsAvailable'
  BY <1>1 DEF OwnerInv, RunningHasNoFile, NoLeak, EndedIsAvailable, OnDisk
<1>4. ReqInv'
  BY DEF ReqInv, ReqType, RunningIsAnswered, Idle
<1> QED
  BY <1>2, <1>3, <1>4

\* Whatever is in the files, nothing is left in memory.
LEMMA GoneKeeps ==
  ASSUME IInv, NEW files \in FileType, Gone(files),
         \A n \in Name, i \in Id : files[n][i] # "none" => n = creator[i]
  PROVE  IInv'
<1> USE DEF Gone, IInv, StoreInv
<1>1. InMemory' = {}
  BY DEF InMemory
<1>2. TypeInv'
  BY DEF TypeInv
<1>3. OwnerInv' /\ RunningHasNoFile' /\ NoLeak'
  BY <1>1 DEF OwnerInv, RunningHasNoFile, NoLeak
<1>4. EndedIsAvailable'
  BY DEF EndedIsAvailable, OwnerInv, TypeInv
<1>5. ReqInv'
  BY DEF ReqInv, ReqType, RunningIsAnswered, Idle
<1> QED
  BY <1>2, <1>3, <1>4, <1>5

LEMMA EndOfProcessKeeps ==
  ASSUME IInv, Dereference \/ Kill
  PROVE  IInv'
<1>1. \A how \in Saves :
        /\ Saved(how) \in FileType
        /\ \A n \in Name, i \in Id : Saved(how)[n][i] # "none" => n = creator[i]
  BY SavedFiles DEF IInv, StoreInv
<1>2. file \in FileType /\ \A n \in Name, i \in Id : file[n][i] # "none" => n = creator[i]
  BY DEF IInv, StoreInv, TypeInv, OwnerInv
<1> QED
  BY <1>1, <1>2, GoneKeeps DEF Dereference, Kill

LEMMA NextKeeps == IInv /\ [Next]_vars => IInv'
<1> SUFFICES ASSUME IInv, [Next]_vars PROVE IInv'
  OBVIOUS
<1>1. CASE \E c \in Cookie, n \in Name : Authenticate(c, n)
  BY <1>1, AuthenticateKeeps
<1>2. CASE \E c \in Cookie, i \in Id :
             newQuery(c, i) \/ get_next_results(c, i) \/ export_csv(c, i)
  BY <1>2, NewQueryKeeps, RequestKeeps
<1>3. CASE SearchArgument \/ PointerArgument
  BY <1>3, ArgumentKeeps
<1>4. CASE waitForNewResults
  BY <1>4, WaitForNewResultsKeeps
<1>5. CASE createJSON
  BY <1>5, CreateJSONKeeps
<1>6. CASE Dereference \/ Kill
  BY <1>6, EndOfProcessKeeps
<1>7. CASE UNCHANGED vars
  <2> USE DEF vars, store, IInv, StoreInv
  <2>1. InMemory' = InMemory /\ Kept' = Kept
    BY <1>7 DEF InMemory, Kept, Ended
  <2>2. TypeInv' /\ OwnerInv' /\ RunningHasNoFile' /\ NoLeak' /\ EndedIsAvailable'
    BY <1>7, <2>1 DEF TypeInv, OwnerInv, RunningHasNoFile, NoLeak, EndedIsAvailable, OnDisk
  <2>3. ReqInv'
    BY <1>7, <2>1 DEF ReqInv, RunningIsAnswered, Matches
  <2> QED
    BY <2>2, <2>3
<1> QED
  BY <1>1, <1>2, <1>3, <1>4, <1>5, <1>6, <1>7 DEF Next

LEMMA Inductive == Spec => []IInv
BY InitIInv, NextKeeps, PTL DEF Spec

-----------------------------------------------------------------------------
\* A request goes on only with a search of its own user, whatever was dumped,
\* deleted and opened again: getSearch of UIDSession.cpp.
THEOREM StoreOwnerOnly == Spec => []OwnerOnly
<1>1. IInv => OwnerOnly
  BY DEF IInv, StoreInv, OwnerInv, ReqInv, OwnerOnly
<1> QED
  BY <1>1, Inductive, PTL

\* dumpToDisk and addSearch never leave a file of a search that runs, so that no
\* other cookie of its user can replace it.
THEOREM StoreRunningHasNoFile == Spec => []RunningHasNoFile
<1>1. IInv => RunningHasNoFile
  BY DEF IInv, StoreInv
<1> QED
  BY <1>1, Inductive, PTL

\* The delete of dumpToDisk meets every metaRank once, whoever reopens a search.
THEOREM StoreNoLeak == Spec => []NoLeak
<1>1. IInv => NoLeak
  BY DEF IInv, StoreInv
<1> QED
  BY <1>1, Inductive, PTL

\* A search that is over is in memory or in a file that opens, but for failed saves
\* and kills: dumpToDisk and getSearch.
THEOREM StoreEndedIsAvailable == Spec => []EndedIsAvailable
<1>1. IInv => EndedIsAvailable
  BY DEF IInv, StoreInv
<1> QED
  BY <1>1, Inductive, PTL

\* A request that found its search running is answered from it in either order of
\* evaluation of createJSON's arguments.
THEOREM StoreRunningIsAnswered == Spec => []RunningIsAnswered
<1>1. IInv => RunningIsAnswered
  BY DEF IInv, ReqInv
<1> QED
  BY <1>1, Inductive, PTL
=============================================================================
