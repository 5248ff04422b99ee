------------------------------- MODULE TdParam -------------------------------
(***************************************************************************)
(* The settings of Teardrop: the tdParam object, which the preferences     *)
(* dialog and the daemon share, and the file config.xml, which holds them  *)
(* and the tree of the engines (tdParam.cpp, prefDialog.cpp, save_config   *)
(* in tddaemon.cpp).                                                       *)
(*                                                                         *)
(* The dialog and the daemon are two threads of the tray program, without  *)
(* a lock.  Each rewrites the file in several steps: commit parses it,     *)
(* truncates it and writes what it parsed with the settings of tdParam;    *)
(* save_config truncates it, writes the tree piece by piece between two    *)
(* downloads, and calls commit.  The program may be killed at any time.    *)
(*                                                                         *)
(* libxml2, which parses the file and writes it, is external.              *)
(***************************************************************************)
EXTENDS Integers, TLC

CONSTANTS Trees,     \* the trees of engines the client may save
          Plain,     \* those without a name that has to be escaped in XML
          Forms,     \* what a user may type into the dialog
          References, \* what libxml2 makes of a text with an ampersand, or Undeclared
          Opens,     \* what opening the file may answer: {TRUE}, or BOOLEAN
          MaxNumber, \* bound on the numbers of the settings
          MaxKills, MaxEdits \* bounds on the kills and on the changes

Fields == {"browser", "proxy_address", "proxy_port", "proxy_type", "timeout", "max_threads"}
Texts == {"browser", "proxy_address"} \* the fields that are strings
Proxy == {"proxy_port", "proxy_type"}

ASSUME TreesAssumption == Plain \subseteq Trees /\ Trees \cap {"missing", "broken"} = {}
ASSUME NumberAssumption == MaxNumber \in Nat /\ MaxNumber >= 9 \* the time-out of Defaults
ASSUME FormsAssumption == \A form \in Forms : DOMAIN form = Fields

VARIABLES
  param,   \* the fields of tdParam
  file,    \* config.xml in the home directory, as a parser sees it
  nearby,  \* config.xml in the current directory, which is found first
  pc,      \* the place of each thread
  form,    \* what the dialog holds
  doc,     \* what each thread is going to write
  mixed,   \* whether the other thread has changed the file since this one opened it
  kills, edits,
  last,    \* history: the tree and the settings that were saved last
  spoilt   \* history: the file has been in danger, since the tree was last written
           \* with nobody in the way

vars == <<param, file, nearby, pc, form, doc, mixed, kills, edits, last, spoilt>>

Threads == {"gui", "daemon"}
NoTree == "no tree"
Nothing == [f \in {} |-> ""]

Whole(tree, settings) == [tree |-> tree, settings |-> settings]
Missing == Whole("missing", Nothing)
Broken == Whole("broken", Nothing) \* a file that is not well-formed
Parses(f) == f \notin {Missing, Broken}

---------------------------------------------------------------------------
(* Numbers and texts *)

CURLPROXY_HTTP == 0
CURLPROXY_SOCKS5 == 5

ltoa(n) == ToString(n)

\* The number a text is, or zero.
atol(text) ==
    IF \E n \in 0 .. MaxNumber : ltoa(n) = text
    THEN CHOOSE n \in 0 .. MaxNumber : ltoa(n) = text
    ELSE 0

ProxyType(text) == IF text = "SOCKS5" THEN CURLPROXY_SOCKS5 ELSE CURLPROXY_HTTP

Defaults == [browser |-> "", proxy_address |-> "", proxy_port |-> 0,
             proxy_type |-> CURLPROXY_HTTP, timeout |-> 9, max_threads |-> 6]

\* setBrowser, setProxy, setTimeout and setMaxThreads: the value a text sets.
SetValue(f, text) ==
    CASE f \in Texts -> text
      [] f = "proxy_type" -> ProxyType(text)
      [] OTHER -> atol(text)

\* commit: the text of a value.
Text(f, value) ==
    CASE f \in Texts -> value
      [] f = "proxy_type" -> IF value = CURLPROXY_HTTP THEN "HTTP" ELSE "SOCKS5"
      [] OTHER -> ltoa(value)

\* nodeDoc::setChildContent hands a text to libxml2 as it is, which takes what follows
\* an ampersand for a reference: "&amp;" becomes "&", an ampersand that no semicolon
\* follows costs the text, and a reference to what nobody declares makes a file that
\* does not parse.
Undeclared == "undeclared entity"

Content(f, text) ==
    IF f \in Texts /\ text \in DOMAIN References THEN References[text] ELSE text

\* The document with the settings put into it, as the parser will see it.
Document(tree, settings) ==
    LET contents == [f \in Fields |-> Content(f, settings[f])]
    IN IF \E f \in Fields : contents[f] = Undeclared THEN Broken ELSE Whole(tree, contents)

\* Mutant: the timeout is read as a type too.
TimeoutAsType(f, text) ==
    CASE f \in Texts -> text
      [] f \in {"proxy_port", "timeout"} -> ProxyType(text)
      [] OTHER -> atol(text)

\* getInitValues: the port is read as a type, and the type as a number.
ReadValue(f, text) ==
    CASE f \in Texts -> text
      [] f = "proxy_port" -> ProxyType(text)
      [] OTHER -> atol(text)

\* tdParam::tdParam, on the file that is found.
InitValues(found) ==
    [f \in Fields |-> IF Parses(found) /\ f \in DOMAIN found.settings
                      THEN ReadValue(f, found.settings[f]) ELSE Defaults[f]]

---------------------------------------------------------------------------

Init ==
    /\ param = Defaults
    /\ file = Missing
    /\ nearby \in {Missing, Whole(NoTree, Nothing)}
    /\ pc = [t \in Threads |-> "down"]
    /\ form \in Forms
    /\ doc = [t \in Threads |-> Whole(NoTree, Nothing)]
    /\ mixed = [t \in Threads |-> FALSE]
    /\ kills = 0 /\ edits = 0
    /\ last = Whole(NoTree, Nothing)
    /\ spoilt = FALSE

Other(t) == CHOOSE u \in Threads : u # t

InFile == {"parse", "truncate", "write", "open", "pieces"}
Setting == {"browser", "proxy_address", "proxy_port", "proxy_type", "timeout", "max_threads"}

Goto(t, place) == pc' = [pc EXCEPT ![t] = place]

\* A thread in the file is in danger while the other one is there or sets a field.
Danger(t) == pc[Other(t)] \in InFile \cup Setting

\* A write by t: where the other thread has written too, the outcome is either's text,
\* or a mixture.
Written(t, new) ==
    /\ file' \in IF mixed[t] THEN {Broken, file, new} ELSE {new}
    /\ mixed' = [mixed EXCEPT ![Other(t)] = TRUE]

Truncated(t) ==
    /\ file' = Broken
    /\ mixed' = [mixed EXCEPT ![t] = FALSE, ![Other(t)] = TRUE]

---------------------------------------------------------------------------
(* The program *)

\* createDirectoryStructure and getInitValues, then both threads.
Start ==
    /\ pc = [t \in Threads |-> "down"]
    /\ file' = IF file = Missing THEN Whole(NoTree, Nothing) ELSE file
    /\ param' = InitValues(IF nearby # Missing THEN nearby ELSE file')
    /\ pc' = [t \in Threads |-> "idle"]
    /\ UNCHANGED <<nearby, form, doc, mixed, kills, edits, last, spoilt>>

\* The program is killed, or the user quits.
Kill ==
    /\ kills < MaxKills
    /\ pc # [t \in Threads |-> "down"]
    /\ kills' = kills + 1
    /\ pc' = [t \in Threads |-> "down"]
    /\ spoilt' = (spoilt \/ \E t \in Threads : pc[t] \in InFile)
    /\ UNCHANGED <<param, file, nearby, form, doc, mixed, edits, last>>

---------------------------------------------------------------------------
(* commit, by either thread *)

\* What t reads of a field: anything, if the other thread is assigning a string.
Seen(t) ==
    LET torn == Texts \cap {pc[Other(t)]}
    IN {[f \in Fields |-> IF f \in torn THEN garbage ELSE param[f]] :
            garbage \in {"garbage"} \cup {param[f] : f \in torn}}

\* Mutant: commit writes the settings into a new document.
NewDocument(f) == NoTree

\* The tree of the document that has been parsed is kept.
KeptTree(f) == f.tree

\* commit opens the file, and puts the settings into the document; if it does not
\* parse, it returns without a word.
CommitParse(t) ==
    /\ pc[t] = "parse"
    /\ IF Parses(file)
       THEN \E seen \in Seen(t) :
               LET settings == [f \in Fields |-> Text(f, seen[f])]
                   new == Document(KeptTree(file), settings)
               IN /\ doc' = [doc EXCEPT ![t] = new]
                  /\ last' = [last EXCEPT !.settings = settings]
                  /\ spoilt' = (spoilt \/ Danger(t) \/ new = Broken)
                  /\ Goto(t, "truncate")
       ELSE /\ Goto(t, "idle")
            /\ last' = [last EXCEPT !.settings = [f \in Fields |-> Text(f, param[f])]]
            /\ spoilt' = (spoilt \/ Danger(t))
            /\ UNCHANGED doc
    /\ UNCHANGED <<param, file, nearby, form, mixed, kills, edits>>

\* saveDocTo: fopen, which may fail, and then the writing.
CommitTruncate(t) ==
    /\ pc[t] = "truncate"
    /\ \E opened \in Opens :
          IF opened
          THEN Truncated(t) /\ Goto(t, "write") /\ spoilt' = (spoilt \/ Danger(t))
          ELSE Goto(t, "idle") /\ spoilt' = TRUE /\ UNCHANGED <<file, mixed>>
    /\ UNCHANGED <<param, nearby, form, doc, kills, edits, last>>

CommitWrite(t) ==
    /\ pc[t] = "write"
    /\ Written(t, doc[t])
    /\ Goto(t, "idle")
    /\ spoilt' = (spoilt \/ Danger(t))
    /\ UNCHANGED <<param, nearby, form, doc, kills, edits, last>>

commit(t) == CommitParse(t) \/ CommitTruncate(t) \/ CommitWrite(t)

---------------------------------------------------------------------------
(* The dialog: validChanges *)

Following == [browser |-> "proxy_address", proxy_address |-> "proxy_port",
              proxy_port |-> "proxy_type", proxy_type |-> "timeout",
              timeout |-> "max_threads", max_threads |-> "parse"]

Accept ==
    /\ pc["gui"] = "idle"
    /\ edits < MaxEdits
    /\ edits' = edits + 1
    /\ form' \in Forms
    /\ Goto("gui", "browser")
    /\ UNCHANGED <<param, file, nearby, doc, mixed, kills, last, spoilt>>

SetField ==
    LET f == pc["gui"]
    IN /\ f \in Setting
       /\ param' = [param EXCEPT ![f] = SetValue(f, form[f])]
       /\ Goto("gui", Following[f])
       /\ spoilt' = (spoilt \/ pc["daemon"] \in InFile)
       /\ UNCHANGED <<file, nearby, form, doc, mixed, kills, edits, last>>

---------------------------------------------------------------------------
(* The daemon: save_config *)

SaveConfig(tree) ==
    /\ pc["daemon"] = "idle"
    /\ edits < MaxEdits
    /\ edits' = edits + 1
    /\ doc' = [doc EXCEPT !["daemon"] = Whole(tree, Nothing)]
    /\ Goto("daemon", "open")
    /\ UNCHANGED <<param, file, nearby, form, mixed, kills, last, spoilt>>

\* What follows the writing of the tree.
AfterTree == "parse"

\* A file that does not open is left as it is, and commit is called all the same.  One
\* that does is written anew, whatever was in it.
OpenConfig ==
    /\ pc["daemon"] = "open"
    /\ \E opened \in Opens :
          IF opened
          THEN Truncated("daemon") /\ Goto("daemon", "pieces") /\ spoilt' = Danger("daemon")
          ELSE /\ Goto("daemon", AfterTree)
               /\ spoilt' = (spoilt \/ Danger("daemon"))
               /\ UNCHANGED <<file, mixed>>
    /\ UNCHANGED <<param, nearby, form, doc, kills, edits, last>>

\* A line of the tree, with the downloads before it: each is flushed.
WritePiece ==
    /\ pc["daemon"] = "pieces"
    /\ Written("daemon", Broken)
    /\ spoilt' = (spoilt \/ Danger("daemon"))
    /\ UNCHANGED <<param, nearby, pc, form, doc, kills, edits, last>>

\* The attributes were unescaped by the parser and are written as they are.
CloseConfig ==
    LET tree == doc["daemon"].tree
    IN /\ pc["daemon"] = "pieces"
       /\ Written("daemon", IF tree \in Plain THEN doc["daemon"] ELSE Broken)
       /\ last' = [last EXCEPT !.tree = tree]
       /\ spoilt' = (spoilt \/ Danger("daemon") \/ tree \notin Plain)
       /\ Goto("daemon", AfterTree)
       /\ UNCHANGED <<param, nearby, form, doc, kills, edits>>

Next == \/ Start \/ Kill \/ Accept \/ SetField
        \/ \E t \in Threads : commit(t)
        \/ \E tree \in Trees : SaveConfig(tree)
        \/ OpenConfig \/ WritePiece \/ CloseConfig

Spec == Init /\ [][Next]_vars

---------------------------------------------------------------------------
(* Properties *)

TypeOK ==
    /\ DOMAIN param = Fields
    /\ \A f \in Fields \ Texts : param[f] \in 0 .. MaxNumber
    /\ Parses(file) => file.tree \in Plain \cup {NoTree}
                       /\ DOMAIN file.settings \in {{}, Fields}
    /\ Parses(nearby) => nearby = Whole(NoTree, Nothing)
    /\ pc \in [Threads -> {"down", "idle"} \cup InFile \cup Setting]
    /\ form \in Forms
    /\ spoilt \in BOOLEAN

Quiet == \A t \in Threads : pc[t] \notin InFile
Committed == last.settings # Nothing

\* The settings whose text has an ampersand.
Referring(settings) == {f \in Texts \cap DOMAIN settings : settings[f] \in DOMAIN References}

\* Neither writer loses what the other one saved before it: the file holds the tree
\* that was written last with the settings that were committed last, but for a text
\* with an ampersand.  An overlap of the two, a kill or a failed open in between, a name
\* that is not escaped or a reference that nobody declares may cost that, until the
\* tree is written again with nobody in the way: that repairs whatever they have left.
SavedTogether ==
    Quiet /\ ~spoilt /\ file # Missing =>
        /\ file.tree = last.tree
        /\ DOMAIN file.settings = DOMAIN last.settings
        /\ \A f \in DOMAIN last.settings \ Referring(last.settings) :
               file.settings[f] = last.settings[f]

\* A restart brings back the settings of the last commit, those of the proxy's port and
\* type and a text with an ampersand apart, unless another file is found first, and
\* under the conditions of SavedTogether.
SettingsSurvive ==
    [][Start /\ Committed /\ ~spoilt /\ nearby = Missing =>
         \A f \in Fields \ (Proxy \cup Referring(last.settings)) :
             param'[f] = SetValue(f, last.settings[f])]_vars

\* A restart brings back all of the settings, a text with an ampersand apart.
EverySettingSurvives ==
    [][Start /\ Committed /\ ~spoilt /\ nearby = Missing =>
         \A f \in Fields \ Referring(last.settings) :
             param'[f] = SetValue(f, last.settings[f])]_vars
==============================================================================
