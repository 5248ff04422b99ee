---------------------------- MODULE TdParamProofs ----------------------------
(***************************************************************************)
(* Proofs of the safety of TdParam, for any trees, forms and bounds.       *)
(***************************************************************************)
EXTENDS TdParam, TLAPS

Kept == Plain \cup {NoTree} \* the trees a file that parses may have
Places == {"down", "idle"} \cup InFile \cup Setting

\* The types, and what a thread has in hand at each place.
TypeInv ==
  /\ DOMAIN param = Fields
  /\ \A f \in Fields \ Texts : param[f] \in 0 .. MaxNumber
  /\ file = Whole(file.tree, file.settings)
  /\ Parses(file) => file.tree \in Kept /\ DOMAIN file.settings \in {{}, Fields}
  /\ nearby \in {Missing, Whole(NoTree, Nothing)}
  /\ pc \in [Threads -> Places]
  /\ pc["gui"] \notin {"open", "pieces"} /\ pc["daemon"] \notin Setting
  /\ pc["gui"] = "down" <=> pc["daemon"] = "down"
  /\ form \in Forms
  /\ DOMAIN doc = Threads
  /\ \A t \in Threads : doc[t] = Whole(doc[t].tree, doc[t].settings)
  /\ \A t \in Threads : pc[t] \in {"truncate", "write"} /\ doc[t] # Broken =>
       doc[t].tree \in Kept /\ DOMAIN doc[t].settings = Fields
  /\ pc["daemon"] \in {"open", "pieces"} =>
       doc["daemon"].tree \in Trees /\ doc["daemon"].settings = Nothing
  /\ mixed \in [Threads -> BOOLEAN]
  /\ last = Whole(last.tree, last.settings)
  /\ Committed => DOMAIN last.settings = Fields
  /\ spoilt \in BOOLEAN

\* The file is missing until the first start only.
StartInv == file = Missing => pc["gui"] = "down" /\ last = Whole(NoTree, Nothing)

\* Both threads are in the file at once only when the daemon is about to open it.
SoleInv ==
  ~spoilt /\ pc["gui"] \in InFile /\ pc["daemon"] \in InFile => pc["daemon"] = "open"

\* What a parser makes of the tree written last with the settings committed last.
Reads == IF Committed THEN Document(last.tree, last.settings) ELSE last

\* What the file is while a thread writes it, and between two writings of it: the
\* tree is that saved last at once, the settings when commit is over.
FileInv ==
  ~spoilt =>
    /\ \A t \in Threads : pc[t] \in {"write", "pieces"} => file = Broken /\ ~mixed[t]
    /\ \A t \in Threads : pc[t] \in {"truncate", "write"} => doc[t] = Reads /\ Parses(doc[t])
    /\ file # Missing /\ (\A t \in Threads : pc[t] \notin {"write", "pieces"}) =>
         Parses(file) /\ file.tree = last.tree
    /\ /\ file # Missing /\ pc["daemon"] # "parse"
       /\ \A t \in Threads : pc[t] \notin {"truncate", "write", "pieces"}
       => file = Reads

IInv == TypeInv /\ StartInv /\ SoleInv /\ FileInv

-----------------------------------------------------------------------------
(* The helpers of the model. *)

LEMMA Others ==
  /\ Other("gui") = "daemon" /\ Other("daemon") = "gui"
  /\ \A t \in Threads : Other(t) \in Threads /\ Other(t) # t /\ Other(Other(t)) = t
BY DEF Other, Threads

\* The marks of a file that is missing or does not parse are no files that do.
LEMMA Marks ==
  /\ Missing # Broken /\ ~Parses(Missing) /\ ~Parses(Broken)
  /\ \A settings : \A tree \in Kept : Parses(Whole(tree, settings))
BY TreesAssumption DEF Missing, Broken, Whole, Parses, Kept, NoTree

LEMMA Wholes ==
  ASSUME NEW a, NEW b
  PROVE  /\ Whole(a, b).tree = a /\ Whole(a, b).settings = b
         /\ \A c : [Whole(a, b) EXCEPT !.settings = c] = Whole(a, c)
         /\ \A c : [Whole(a, b) EXCEPT !.tree = c] = Whole(c, b)
BY DEF Whole

\* Settings with fields are not the absence of any.
LEMMA NothingHasNoField ==
  /\ DOMAIN Nothing = {}
  /\ \A g : DOMAIN g = Fields => g # Nothing
BY DEF Nothing, Fields

\* A document that parses has the tree and a text for each field, which is the one
\* given unless that has an ampersand.
Contents(settings) == [f \in Fields |-> Content(f, settings[f])]

LEMMA DocumentIs ==
  ASSUME NEW tree, NEW settings
  PROVE  /\ Document(tree, settings) \in {Broken, Whole(tree, Contents(settings))}
         /\ DOMAIN Contents(settings) = Fields
         /\ DOMAIN settings = Fields =>
              \A f \in Fields \ Referring(settings) : Contents(settings)[f] = settings[f]
<1>1. Document(tree, settings) \in {Broken, Whole(tree, Contents(settings))}
  BY DEF Document, Contents
<1>2. ASSUME DOMAIN settings = Fields, NEW f \in Fields \ Referring(settings)
      PROVE  Contents(settings)[f] = settings[f]
  BY <1>2 DEF Contents, Content, Referring
<1>. QED
  BY <1>1, <1>2 DEF Contents

LEMMA ReadsKept ==
  ASSUME last' = last
  PROVE  Reads' = Reads
BY DEF Reads, Committed

\* A number is read within its bounds, whatever the text.
LEMMA NumbersRead ==
  ASSUME NEW f \in Fields \ Texts, NEW text
  PROVE  SetValue(f, text) \in 0 .. MaxNumber /\ ReadValue(f, text) \in 0 .. MaxNumber
<1>1. atol(text) \in 0 .. MaxNumber
  <2>1. CASE \E n \in 0 .. MaxNumber : ltoa(n) = text
    <3>1. (CHOOSE n \in 0 .. MaxNumber : ltoa(n) = text) \in 0 .. MaxNumber
      BY <2>1
    <3>. QED
      BY <2>1, <3>1 DEF atol
  <2>2. CASE ~ \E n \in 0 .. MaxNumber : ltoa(n) = text
    BY <2>2, NumberAssumption DEF atol
  <2>. QED
    BY <2>1, <2>2
<1>2. ProxyType(text) \in 0 .. MaxNumber
  BY NumberAssumption DEF ProxyType, CURLPROXY_HTTP, CURLPROXY_SOCKS5
<1>. HIDE DEF atol, ProxyType
<1>. QED
  BY <1>1, <1>2 DEF SetValue, ReadValue, Texts

LEMMA DefaultsTyped ==
  /\ DOMAIN Defaults = Fields
  /\ \A f \in Fields \ Texts : Defaults[f] \in 0 .. MaxNumber
<1>1. DOMAIN Defaults = Fields
  BY DEF Defaults, Fields
<1>2. /\ Defaults.proxy_port = 0 /\ Defaults.proxy_type = 0
      /\ Defaults.timeout = 9 /\ Defaults.max_threads = 6
  BY DEF Defaults, CURLPROXY_HTTP
<1>3. \A f \in Fields \ Texts : f \in {"proxy_port", "proxy_type", "timeout", "max_threads"}
  BY DEF Fields, Texts
<1>4. 0 \in 0 .. MaxNumber /\ 6 \in 0 .. MaxNumber /\ 9 \in 0 .. MaxNumber
  BY NumberAssumption
<1>. QED
  BY <1>1, <1>2, <1>3, <1>4

LEMMA InitIInv == Init => IInv
<1>. SUFFICES ASSUME Init PROVE IInv
  OBVIOUS
<1>1. TypeInv
  <2>1. /\ file = Missing /\ last = Whole(NoTree, Nothing) /\ spoilt = FALSE /\ form \in Forms
        /\ nearby \in {Missing, Whole(NoTree, Nothing)} /\ param = Defaults
        /\ \A t \in Threads : pc[t] = "down" /\ doc[t] = Whole(NoTree, Nothing)
        /\ DOMAIN doc = Threads /\ mixed \in [Threads -> BOOLEAN]
        /\ pc \in [Threads -> Places]
    BY DEF Init, Places
  <2>2. "gui" \in Threads /\ "daemon" \in Threads
    BY DEF Threads
  <2>3. file = Whole(file.tree, file.settings) /\ last = Whole(last.tree, last.settings)
    BY <2>1, Wholes DEF Missing
  <2>4. ~Parses(file) /\ ~Committed
    BY <2>1, Wholes, Marks DEF Committed
  <2>5. \A t \in Threads : doc[t] = Whole(doc[t].tree, doc[t].settings)
    BY <2>1, Wholes
  <2>. QED
    BY <2>1, <2>2, <2>3, <2>4, <2>5, DefaultsTyped DEF TypeInv, Setting
<1>2. StartInv /\ SoleInv /\ FileInv
  BY DEF Init, StartInv, SoleInv, FileInv, Threads, InFile
<1>. QED
  BY <1>1, <1>2 DEF IInv

-----------------------------------------------------------------------------
(* The steps. *)

LEMMA StartKeeps ==
  ASSUME IInv, Start
  PROVE  IInv'
<1>1. /\ \A t \in Threads : pc[t] = "down" /\ pc'[t] = "idle"
      /\ "gui" \in Threads /\ "daemon" \in Threads
      /\ pc' \in [Threads -> Places]
  BY DEF Start, Threads, Places
<1>2. TypeInv /\ UNCHANGED <<nearby, form, doc, mixed, last, spoilt>>
  BY DEF IInv, Start
<1>3. file' = Whole(file'.tree, file'.settings) /\ file' # Missing
  <2>1. Parses(Whole(NoTree, Nothing))
    BY Marks DEF Kept
  <2>2. Whole(NoTree, Nothing) # Missing
    BY <2>1, Marks
  <2>3. CASE file = Missing
    BY <2>2, <2>3, Wholes DEF Start
  <2>4. CASE file # Missing
    BY <1>2, <2>4 DEF Start, TypeInv
  <2>. QED
    BY <2>3, <2>4
<1>4. Parses(file') => file'.tree \in Kept /\ DOMAIN file'.settings \in {{}, Fields}
  BY <1>2, Wholes, NothingHasNoField DEF TypeInv, Start, Kept
<1>5. DOMAIN param' = Fields /\ \A f \in Fields \ Texts : param'[f] \in 0 .. MaxNumber
  BY NumbersRead, DefaultsTyped DEF Start, InitValues
<1>6. TypeInv'
  BY <1>1, <1>2, <1>3, <1>4, <1>5 DEF TypeInv, Committed, Setting, Parses
<1>7. StartInv'
  BY <1>3 DEF StartInv
<1>8. SoleInv'
  BY <1>1 DEF SoleInv, InFile
<1>9. ASSUME ~spoilt PROVE Parses(file') /\ file'.tree = last.tree /\ file' = Reads
  <2>1. CASE file = Missing
    <3>1. last = Whole(NoTree, Nothing) /\ file' = last
      BY <2>1 DEF Start, IInv, StartInv
    <3>2. ~Committed
      BY <3>1, Wholes DEF Committed
    <3>. QED
      BY <3>1, <3>2, Marks DEF Reads, Kept
  <2>2. CASE file # Missing
    BY <1>1, <1>9, <2>2 DEF Start, IInv, FileInv
  <2>. QED
    BY <2>1, <2>2
<1>10. FileInv'
  BY <1>1, <1>2, <1>9, ReadsKept DEF FileInv, Parses
<1>. QED
  BY <1>6, <1>7, <1>8, <1>10 DEF IInv

LEMMA KillKeeps ==
  ASSUME IInv, Kill
  PROVE  IInv'
<1>1. /\ \A t \in Threads : pc'[t] = "down"
      /\ "gui" \in Threads /\ "daemon" \in Threads
      /\ pc' \in [Threads -> Places]
  BY DEF Kill, Threads, Places
<1>2. /\ TypeInv /\ UNCHANGED <<param, file, nearby, form, doc, mixed, last>>
      /\ spoilt' \in BOOLEAN
  BY DEF IInv, TypeInv, Kill
<1>3. TypeInv'
  BY <1>1, <1>2 DEF TypeInv, Committed, Setting, Parses
<1>4. StartInv' /\ SoleInv'
  BY <1>1, <1>2 DEF IInv, StartInv, SoleInv, InFile
<1>5. ~spoilt' => ~spoilt /\ \A t \in Threads : pc[t] \notin InFile
  BY DEF Kill
<1>6. FileInv'
  BY <1>1, <1>2, <1>5, ReadsKept DEF IInv, FileInv, InFile, Parses
<1>. QED
  BY <1>3, <1>4, <1>6 DEF IInv

LEMMA AcceptKeeps ==
  ASSUME IInv, Accept
  PROVE  IInv'
<1>1. /\ pc["gui"] = "idle" /\ pc' = [pc EXCEPT !["gui"] = "browser"]
      /\ "gui" \in Threads /\ "daemon" \in Threads
  BY DEF Accept, Goto, Threads
<1>2. TypeInv /\ UNCHANGED <<param, file, nearby, doc, mixed, last, spoilt>> /\ form' \in Forms
  BY DEF IInv, Accept
<1>3. /\ pc'["gui"] = "browser" /\ \A t \in Threads : t # "gui" => pc'[t] = pc[t]
      /\ pc' \in [Threads -> Places]
  BY <1>1, <1>2 DEF TypeInv, Places, Setting
<1>4. TypeInv'
  BY <1>1, <1>2, <1>3 DEF TypeInv, Committed, Parses
<1>5. StartInv' /\ SoleInv'
  BY <1>1, <1>2, <1>3 DEF IInv, StartInv, SoleInv, InFile
<1>6. FileInv'
  BY <1>1, <1>2, <1>3, ReadsKept DEF IInv, FileInv, Parses
<1>. QED
  BY <1>4, <1>5, <1>6 DEF IInv

LEMMA SetFieldKeeps ==
  ASSUME IInv, SetField
  PROVE  IInv'
<1>. DEFINE f == pc["gui"]
<1>1. /\ f \in Setting /\ f \in Fields
      /\ pc' = [pc EXCEPT !["gui"] = Following[f]]
      /\ Following[f] \in (Setting \cup {"parse"})
      /\ "gui" \in Threads /\ "daemon" \in Threads
  BY DEF SetField, Goto, Threads, Setting, Fields, Following
<1>2. /\ TypeInv /\ UNCHANGED <<file, nearby, form, doc, mixed, last>>
      /\ spoilt' = (spoilt \/ pc["daemon"] \in InFile)
      /\ param' = [param EXCEPT ![f] = SetValue(f, form[f])]
  BY DEF IInv, SetField
<1>3. /\ pc'["gui"] = Following[f] /\ \A t \in Threads : t # "gui" => pc'[t] = pc[t]
      /\ pc' \in [Threads -> Places]
  BY <1>1, <1>2 DEF TypeInv, Places, InFile
<1>4. DOMAIN param' = Fields /\ \A g \in Fields \ Texts : param'[g] \in 0 .. MaxNumber
  BY <1>1, <1>2, NumbersRead DEF TypeInv
<1>. HIDE DEF f
<1>5. TypeInv'
  <2>1. \A t \in Threads : pc'[t] \in {"truncate", "write"} => pc'[t] = pc[t]
    BY <1>1, <1>3 DEF Setting
  <2>2. /\ pc'["gui"] \notin {"open", "pieces"} /\ pc'["daemon"] = pc["daemon"]
        /\ pc["gui"] # "down" /\ pc'["gui"] # "down" /\ spoilt' \in BOOLEAN
    BY <1>1, <1>2, <1>3 DEF TypeInv, Setting, f
  <2>. QED
    BY <1>2, <1>3, <1>4, <2>1, <2>2 DEF TypeInv, Committed, Parses
<1>6. StartInv' /\ SoleInv'
  BY <1>1, <1>2, <1>3 DEF IInv, StartInv, SoleInv, Setting, f
<1>7. FileInv'
  BY <1>1, <1>2, <1>3, ReadsKept DEF IInv, FileInv, Parses, Setting, f, InFile
<1>. QED
  BY <1>5, <1>6, <1>7 DEF IInv

LEMMA SaveConfigKeeps ==
  ASSUME IInv, NEW tree \in Trees, SaveConfig(tree)
  PROVE  IInv'
<1>1. /\ pc["daemon"] = "idle" /\ pc' = [pc EXCEPT !["daemon"] = "open"]
      /\ doc' = [doc EXCEPT !["daemon"] = Whole(tree, Nothing)]
      /\ "gui" \in Threads /\ "daemon" \in Threads
  BY DEF SaveConfig, Goto, Threads
<1>2. TypeInv /\ UNCHANGED <<param, file, nearby, form, mixed, last, spoilt>>
  BY DEF IInv, SaveConfig
<1>3. /\ pc'["daemon"] = "open" /\ \A t \in Threads : t # "daemon" => pc'[t] = pc[t]
      /\ pc' \in [Threads -> Places]
  BY <1>1, <1>2 DEF TypeInv, Places, InFile
<1>4. /\ DOMAIN doc' = Threads /\ doc'["daemon"] = Whole(tree, Nothing)
      /\ \A t \in Threads : t # "daemon" => doc'[t] = doc[t]
      /\ \A t \in Threads : doc'[t] = Whole(doc'[t].tree, doc'[t].settings)
      /\ doc'["daemon"].tree = tree /\ doc'["daemon"].settings = Nothing
  BY <1>1, <1>2, Wholes DEF TypeInv
<1>5. TypeInv'
  <2>1. pc'["gui"] = pc["gui"] /\ doc'["gui"] = doc["gui"]
    BY <1>1, <1>3, <1>4
  <2>2. \A t \in Threads : pc'[t] \in {"truncate", "write"} /\ doc'[t] # Broken =>
          doc'[t].tree \in Kept /\ DOMAIN doc'[t].settings = Fields
    BY <1>2, <1>3, <1>4 DEF TypeInv
  <2>3. pc'["gui"] \notin {"open", "pieces"} /\ pc'["daemon"] \notin Setting
    BY <1>2, <1>3, <2>1 DEF TypeInv, Setting
  <2>4. pc'["gui"] = "down" <=> pc'["daemon"] = "down"
    BY <1>1, <1>2, <1>3, <2>1 DEF TypeInv
  <2>. QED
    BY <1>2, <1>3, <1>4, <2>2, <2>3, <2>4 DEF TypeInv, Committed, Parses
<1>6. StartInv' /\ SoleInv'
  BY <1>1, <1>2, <1>3 DEF IInv, StartInv, SoleInv
<1>7. FileInv'
  BY <1>1, <1>2, <1>3, <1>4, ReadsKept DEF IInv, FileInv, Parses
<1>. QED
  BY <1>5, <1>6, <1>7 DEF IInv

\* A step of a thread in the file, unless it spoils it: the other one is elsewhere.
Alone(t) == \A u \in Threads : u # t => pc[u] \notin InFile \cup Setting

LEMMA DangerIsCompany ==
  ASSUME NEW t \in Threads
  PROVE  ~Danger(t) => Alone(t)
BY Others DEF Danger, Alone, Threads

\* What FileInv says of the file where a thread is about to parse it.
LEMMA FileToParse ==
  ASSUME IInv, NEW t \in Threads, pc[t] = "parse", Alone(t), ~spoilt
  PROVE  Parses(file) /\ file.tree = last.tree
<1>1. pc["gui"] # "down" /\ file # Missing
  BY DEF IInv, TypeInv, StartInv, Threads
<1>2. \A u \in Threads : pc[u] \notin {"write", "pieces"}
  BY DEF Alone, InFile
<1>. QED
  BY <1>1, <1>2 DEF IInv, FileInv

LEMMA CommitParseKeeps ==
  ASSUME IInv, NEW t \in Threads, CommitParse(t)
  PROVE  IInv'
<1>1. /\ pc[t] = "parse" /\ TypeInv /\ UNCHANGED <<param, file, nearby, form, mixed>>
      /\ spoilt' \in BOOLEAN /\ (~spoilt' => ~spoilt /\ ~Danger(t))
  BY DEF CommitParse, IInv, TypeInv, Danger
<1>2. "gui" \in Threads /\ "daemon" \in Threads /\ \A u \in Threads : u \in {"gui", "daemon"}
  BY DEF Threads
<1>3. ~spoilt' => ~spoilt /\ Alone(t)
  BY <1>1, DangerIsCompany
<1>4. ~spoilt' => Parses(file) /\ file.tree = last.tree
  BY <1>1, <1>3, FileToParse
<1>5. pc[t] # "down" /\ file # Missing
  BY <1>1, <1>2 DEF IInv, TypeInv, StartInv
<1>6. CASE ~Parses(file)
  <2>1. /\ pc' = [pc EXCEPT ![t] = "idle"] /\ doc' = doc
        /\ last' = [last EXCEPT !.settings = [f \in Fields |-> Text(f, param[f])]]
    BY <1>6 DEF CommitParse, Goto
  <2>2. /\ pc'[t] = "idle" /\ \A u \in Threads : u # t => pc'[u] = pc[u]
        /\ pc' \in [Threads -> Places]
    BY <1>1, <2>1 DEF TypeInv, Places
  <2>. DEFINE settings == [f \in Fields |-> Text(f, param[f])]
  <2>3. last' = Whole(last.tree, settings) /\ DOMAIN settings = Fields
    BY <1>1, <2>1, Wholes DEF TypeInv
  <2>. HIDE DEF settings
  <2>4. last' = Whole(last'.tree, last'.settings) /\ DOMAIN last'.settings = Fields
    BY <2>3, Wholes
  <2>5. TypeInv'
    BY <1>1, <1>2, <1>5, <2>1, <2>2, <2>4 DEF TypeInv, Parses, Setting
  <2>6. StartInv' /\ SoleInv' /\ FileInv'
    BY <1>1, <1>4, <1>5, <1>6 DEF StartInv, SoleInv, FileInv, IInv, InFile
  <2>. QED
    BY <2>5, <2>6 DEF IInv
<1>7. CASE Parses(file)
  <2>1. PICK seen \in Seen(t) :
          LET settings == [f \in Fields |-> Text(f, seen[f])]
              new == Document(file.tree, settings)
          IN /\ doc' = [doc EXCEPT ![t] = new]
             /\ last' = [last EXCEPT !.settings = settings]
             /\ spoilt' = (spoilt \/ Danger(t) \/ new = Broken)
             /\ pc' = [pc EXCEPT ![t] = "truncate"]
    BY <1>7 DEF CommitParse, Goto, KeptTree
  <2>. DEFINE settings == [f \in Fields |-> Text(f, seen[f])]
              new == Document(file.tree, settings)
  <2>2. /\ pc'[t] = "truncate" /\ \A u \in Threads : u # t => pc'[u] = pc[u]
        /\ pc' \in [Threads -> Places]
    BY <1>1, <2>1 DEF TypeInv, Places, InFile
  <2>3. DOMAIN settings = Fields
    OBVIOUS
  <2>4. /\ doc' = [doc EXCEPT ![t] = new] /\ last' = [last EXCEPT !.settings = settings]
        /\ ~spoilt' => new # Broken
    BY <2>1
  <2>. HIDE DEF settings
  <2>5. /\ last' = Whole(last'.tree, last'.settings)
        /\ last'.tree = last.tree /\ last'.settings = settings
    <3>1. last' = Whole(last.tree, settings)
      BY <1>1, <2>4, Wholes DEF TypeInv
    <3>. QED
      BY <3>1, Wholes
  <2>6. /\ new = Whole(new.tree, new.settings)
        /\ new # Broken => new.tree = file.tree /\ DOMAIN new.settings = Fields
    <3>1. CASE new = Broken
      BY <3>1, Wholes DEF Broken
    <3>2. CASE new = Whole(file.tree, Contents(settings))
      <4>1. new.tree = file.tree /\ new.settings = Contents(settings)
        BY <3>2, Wholes
      <4>. QED
        BY <3>2, <4>1, DocumentIs
    <3>. QED
      BY <3>1, <3>2, DocumentIs
  <2>7. Reads' = Document(last.tree, settings)
    BY <2>3, <2>5, NothingHasNoField DEF Reads, Committed
  <2>8. ~spoilt' => new = Reads'
    BY <1>3, <1>4, <2>7
  <2>. HIDE DEF new
  <2>9. /\ doc'[t] = new /\ DOMAIN doc' = Threads
        /\ \A u \in Threads : u # t => doc'[u] = doc[u]
    BY <1>1, <2>4 DEF TypeInv
  <2>10. TypeInv'
    <3>1. \A u \in Threads : pc'[u] \in {"truncate", "write"} /\ doc'[u] # Broken =>
            doc'[u].tree \in Kept /\ DOMAIN doc'[u].settings = Fields
      BY <1>1, <1>7, <2>2, <2>6, <2>9 DEF TypeInv
    <3>2. pc'["daemon"] \in {"open", "pieces"} =>
            doc'["daemon"].tree \in Trees /\ doc'["daemon"].settings = Nothing
      BY <1>1, <1>2, <2>2, <2>9 DEF TypeInv
    <3>3. /\ pc'["gui"] \notin {"open", "pieces"} /\ pc'["daemon"] \notin Setting
          /\ pc'["gui"] = "down" <=> pc'["daemon"] = "down"
      BY <1>1, <1>2, <1>5, <2>2 DEF TypeInv, Setting
    <3>4. \A u \in Threads : doc'[u] = Whole(doc'[u].tree, doc'[u].settings)
      BY <1>1, <2>6, <2>9 DEF TypeInv
    <3>5. Committed' => DOMAIN last'.settings = Fields
      BY <2>3, <2>5
    <3>. QED
      BY <1>1, <2>2, <2>5, <2>9, <3>1, <3>2, <3>3, <3>4, <3>5 DEF TypeInv, Parses
  <2>11. StartInv' /\ SoleInv'
    BY <1>1, <1>2, <1>3, <1>5, <2>2 DEF StartInv, SoleInv, Alone
  <2>12. FileInv'
    <3>. SUFFICES ASSUME ~spoilt' PROVE FileInv'
      BY DEF FileInv
    <3>1. \A u \in Threads : u # t => pc'[u] \notin InFile
      BY <1>3, <2>2 DEF Alone
    <3>2. new # Broken /\ new.tree \in Kept
      BY <1>1, <1>7, <2>4, <2>6 DEF TypeInv
    <3>3. Parses(new)
      BY <2>6, <3>2, Marks
    <3>4. /\ doc'[t] = Reads' /\ Parses(doc'[t])
          /\ Parses(file') /\ file'.tree = last'.tree
      BY <1>1, <1>4, <2>5, <2>8, <2>9, <3>3 DEF Parses
    <3>. QED
      BY <2>2, <3>1, <3>4 DEF FileInv, InFile, Parses
  <2>. QED
    BY <2>10, <2>11, <2>12 DEF IInv
<1>. QED
  BY <1>6, <1>7

\* Truncated and Written leave types and marks as TypeInv wants them.
LEMMA TruncatedFile ==
  ASSUME TypeInv, NEW t \in Threads, Truncated(t)
  PROVE  /\ file' = Broken /\ file' = Whole(file'.tree, file'.settings)
         /\ file' # Missing /\ ~Parses(file')
         /\ mixed' \in [Threads -> BOOLEAN] /\ ~mixed'[t]
<1>1. file' = Broken /\ file' = Whole(file'.tree, file'.settings)
  BY Wholes DEF Truncated, Broken
<1>2. mixed' = [mixed EXCEPT ![t] = FALSE, ![Other(t)] = TRUE] /\ Other(t) # t
  BY Others DEF Truncated
<1>3. mixed' \in [Threads -> BOOLEAN] /\ mixed'[t] = FALSE
  BY <1>2 DEF TypeInv
<1>. QED
  BY <1>1, <1>3, Marks

LEMMA WrittenFile ==
  ASSUME TypeInv, file # Missing, NEW t \in Threads, NEW new, Written(t, new),
         new = Whole(new.tree, new.settings),
         new # Broken => new.tree \in Kept /\ DOMAIN new.settings \in {{}, Fields}
  PROVE  /\ file' = Whole(file'.tree, file'.settings) /\ file' # Missing
         /\ Parses(file') => file'.tree \in Kept /\ DOMAIN file'.settings \in {{}, Fields}
         /\ ~mixed[t] => file' = new
         /\ mixed' \in [Threads -> BOOLEAN] /\ mixed'[t] = mixed[t]
<1>1. file' \in {Broken, file, new} /\ (~mixed[t] => file' = new)
  BY DEF Written
<1>2. Broken = Whole(Broken.tree, Broken.settings)
  BY Wholes DEF Broken
<1>3. new # Broken => Parses(new)
  BY Marks
<1>4. mixed' = [mixed EXCEPT ![Other(t)] = TRUE] /\ Other(t) # t
  BY Others DEF Written
<1>5. mixed' \in [Threads -> BOOLEAN] /\ mixed'[t] = mixed[t]
  BY <1>4 DEF TypeInv
<1>6. CASE file' = Broken
  BY <1>1, <1>2, <1>5, <1>6, Marks
<1>7. CASE file' = file
  BY <1>1, <1>5, <1>7 DEF TypeInv, Parses
<1>8. CASE file' = new /\ new # Broken
  BY <1>1, <1>3, <1>5, <1>8, Marks DEF Parses
<1>. QED
  BY <1>1, <1>6, <1>7, <1>8

\* What a step keeps that moves thread t within the file and changes no doc.
LEMMA MovedTypes ==
  ASSUME TypeInv, NEW t \in Threads, NEW place \in {"idle", "parse", "write", "pieces"},
         pc[t] \in InFile, Goto(t, place) \/ (pc' = pc /\ place = pc[t]),
         place = "write" => pc[t] \in {"truncate", "write"},
         place = "pieces" => pc[t] \in {"open", "pieces"},
         UNCHANGED <<param, nearby, form, doc>>,
         mixed' \in [Threads -> BOOLEAN], spoilt' \in BOOLEAN,
         last' = Whole(last'.tree, last'.settings), last'.settings = last.settings,
         file' = Whole(file'.tree, file'.settings),
         Parses(file') => file'.tree \in Kept /\ DOMAIN file'.settings \in {{}, Fields}
  PROVE  /\ TypeInv' /\ pc'[t] = place /\ \A u \in Threads : u # t => pc'[u] = pc[u]
         /\ pc["gui"] # "down"
<1>1. pc' \in [Threads -> Places] /\ pc'[t] = place /\ \A u \in Threads : u # t => pc'[u] = pc[u]
  BY DEF Goto, TypeInv, Places, InFile
<1>2. "gui" \in Threads /\ "daemon" \in Threads /\ \A u \in Threads : u \in {"gui", "daemon"}
  BY DEF Threads
<1>3. pc["gui"] # "down" /\ pc["daemon"] # "down"
  BY <1>2 DEF TypeInv, InFile
<1>4. pc'["gui"] # "down" /\ pc'["daemon"] # "down"
  BY <1>1, <1>2, <1>3
<1>5. pc'["gui"] \notin {"open", "pieces"} /\ pc'["daemon"] \notin Setting
  BY <1>1, <1>2 DEF TypeInv, Setting
<1>6. \A u \in Threads : pc'[u] \in {"truncate", "write"} => pc[u] \in {"truncate", "write"}
  BY <1>1
<1>7. pc'["daemon"] \in {"open", "pieces"} => pc["daemon"] \in {"open", "pieces"}
  BY <1>1, <1>2
<1>. QED
  BY <1>1, <1>3, <1>4, <1>5, <1>6, <1>7 DEF TypeInv, Committed

LEMMA CommitTruncateKeeps ==
  ASSUME IInv, NEW t \in Threads, CommitTruncate(t)
  PROVE  IInv'
<1>1. /\ pc[t] = "truncate" /\ pc[t] \in InFile /\ TypeInv
      /\ UNCHANGED <<param, nearby, form, doc, last>>
      /\ last' = Whole(last'.tree, last'.settings)
  BY DEF CommitTruncate, IInv, TypeInv, InFile
<1>2. "gui" \in Threads /\ "daemon" \in Threads /\ \A u \in Threads : u \in {"gui", "daemon"}
  BY DEF Threads
<1>3. CASE Truncated(t) /\ Goto(t, "write") /\ spoilt' = (spoilt \/ Danger(t))
  <2>1. /\ file' = Broken /\ file' = Whole(file'.tree, file'.settings) /\ file' # Missing
        /\ ~Parses(file') /\ mixed' \in [Threads -> BOOLEAN] /\ ~mixed'[t]
    BY <1>1, <1>3, TruncatedFile
  <2>2. spoilt' \in BOOLEAN
    BY <1>1, <1>3 DEF TypeInv, Danger
  <2>3. /\ TypeInv' /\ pc'[t] = "write" /\ \A u \in Threads : u # t => pc'[u] = pc[u]
    BY <1>1, <1>3, <2>1, <2>2, MovedTypes
  <2>4. ~spoilt' => ~spoilt /\ Alone(t)
    BY <1>3, DangerIsCompany
  <2>5. StartInv' /\ SoleInv'
    BY <1>2, <2>1, <2>3, <2>4 DEF StartInv, SoleInv, Alone
  <2>6. FileInv'
    BY <1>1, <2>1, <2>3, <2>4, ReadsKept DEF IInv, FileInv, Alone, InFile, Parses
  <2>. QED
    BY <2>3, <2>5, <2>6 DEF IInv
<1>4. CASE Goto(t, "idle") /\ spoilt' = TRUE /\ UNCHANGED <<file, mixed>>
  <2>1. /\ mixed' \in [Threads -> BOOLEAN] /\ file' = Whole(file'.tree, file'.settings)
        /\ Parses(file') => file'.tree \in Kept /\ DOMAIN file'.settings \in {{}, Fields}
    BY <1>1, <1>4 DEF TypeInv, Parses
  <2>2. TypeInv' /\ pc["gui"] # "down"
    BY <1>1, <1>4, <2>1, MovedTypes
  <2>3. StartInv' /\ SoleInv' /\ FileInv'
    BY <1>4, <2>2 DEF IInv, StartInv, SoleInv, FileInv
  <2>. QED
    BY <2>2, <2>3 DEF IInv
<1>. QED
  BY <1>3, <1>4 DEF CommitTruncate

LEMMA CommitWriteKeeps ==
  ASSUME IInv, NEW t \in Threads, CommitWrite(t)
  PROVE  IInv'
<1>1. /\ pc[t] = "write" /\ pc[t] \in InFile /\ TypeInv /\ Written(t, doc[t])
      /\ UNCHANGED <<param, nearby, form, doc, last>> /\ Goto(t, "idle")
      /\ last' = Whole(last'.tree, last'.settings)
      /\ spoilt' = (spoilt \/ Danger(t)) /\ spoilt' \in BOOLEAN
  BY DEF CommitWrite, IInv, TypeInv, InFile, Danger
<1>2. "gui" \in Threads /\ "daemon" \in Threads /\ \A u \in Threads : u \in {"gui", "daemon"}
  BY DEF Threads
<1>3. /\ doc[t] = Whole(doc[t].tree, doc[t].settings)
      /\ doc[t] # Broken => doc[t].tree \in Kept /\ DOMAIN doc[t].settings = Fields
      /\ pc["gui"] # "down"
  BY <1>1, <1>2 DEF TypeInv
<1>4. file # Missing
  BY <1>3 DEF IInv, StartInv
<1>5. /\ file' = Whole(file'.tree, file'.settings) /\ file' # Missing
      /\ Parses(file') => file'.tree \in Kept /\ DOMAIN file'.settings \in {{}, Fields}
      /\ ~mixed[t] => file' = doc[t]
      /\ mixed' \in [Threads -> BOOLEAN] /\ mixed'[t] = mixed[t]
  BY <1>1, <1>3, <1>4, WrittenFile
<1>6. /\ TypeInv' /\ pc'[t] = "idle" /\ \A u \in Threads : u # t => pc'[u] = pc[u]
  BY <1>1, <1>5, MovedTypes
<1>7. ~spoilt' => ~spoilt /\ Alone(t)
  BY <1>1, DangerIsCompany
<1>8. ~spoilt' => file' = Reads' /\ Parses(file') /\ file'.tree = last'.tree
  <2>. SUFFICES ASSUME ~spoilt' PROVE file' = Reads' /\ Parses(file') /\ file'.tree = last'.tree
    OBVIOUS
  <2>1. doc[t] = Reads /\ Parses(doc[t]) /\ file' = doc[t]
    BY <1>1, <1>5, <1>7 DEF IInv, FileInv
  <2>2. doc[t].tree = last.tree
    <3>1. CASE Committed
      <4>1. doc[t] = Whole(last.tree, Contents(last.settings))
        BY <2>1, <3>1, DocumentIs, Marks DEF Reads
      <4>. QED
        BY <4>1, Wholes
    <3>2. CASE ~Committed
      BY <2>1, <3>2 DEF Reads
    <3>. QED
      BY <3>1, <3>2
  <2>. QED
    BY <1>1, <2>1, <2>2, ReadsKept DEF Parses
<1>9. StartInv' /\ SoleInv'
  BY <1>2, <1>5, <1>6, <1>7 DEF StartInv, SoleInv, Alone
<1>10. FileInv'
  BY <1>1, <1>6, <1>7, <1>8 DEF FileInv, Alone, InFile
<1>. QED
  BY <1>6, <1>9, <1>10 DEF IInv

LEMMA OpenConfigKeeps ==
  ASSUME IInv, OpenConfig
  PROVE  IInv'
<1>1. /\ pc["daemon"] = "open" /\ pc["daemon"] \in InFile /\ TypeInv
      /\ UNCHANGED <<param, nearby, form, doc, last>>
      /\ last' = Whole(last'.tree, last'.settings)
      /\ spoilt' \in {Danger("daemon"), spoilt \/ Danger("daemon")}
  BY DEF OpenConfig, IInv, TypeInv, InFile
<1>2. "gui" \in Threads /\ "daemon" \in Threads /\ \A u \in Threads : u \in {"gui", "daemon"}
  BY DEF Threads
<1>3. spoilt' \in BOOLEAN /\ (~spoilt' => Alone("daemon"))
  <2>1. spoilt \in BOOLEAN /\ Danger("daemon") \in BOOLEAN
    BY <1>1 DEF TypeInv, Danger
  <2>. QED
    BY <1>1, <1>2, <2>1, DangerIsCompany
<1>4. CASE Truncated("daemon") /\ Goto("daemon", "pieces")
  <2>1. /\ file' = Broken /\ file' = Whole(file'.tree, file'.settings) /\ file' # Missing
        /\ ~Parses(file') /\ mixed' \in [Threads -> BOOLEAN] /\ ~mixed'["daemon"]
    BY <1>1, <1>2, <1>4, TruncatedFile
  <2>2. /\ TypeInv' /\ pc'["daemon"] = "pieces"
        /\ \A u \in Threads : u # "daemon" => pc'[u] = pc[u]
    BY <1>1, <1>2, <1>3, <1>4, <2>1, MovedTypes
  <2>3. StartInv' /\ SoleInv'
    BY <1>2, <1>3, <2>1, <2>2 DEF StartInv, SoleInv, Alone
  <2>4. FileInv'
    <3>. SUFFICES ASSUME ~spoilt' PROVE FileInv'
      BY DEF FileInv
    <3>1. \A u \in Threads : u # "daemon" => pc'[u] \notin InFile
      BY <1>3, <2>2 DEF Alone
    <3>. QED
      BY <1>2, <2>1, <2>2, <3>1 DEF FileInv, InFile
  <2>. QED
    BY <2>2, <2>3, <2>4 DEF IInv
<1>5. CASE /\ Goto("daemon", AfterTree) /\ UNCHANGED <<file, mixed>>
            /\ spoilt' = (spoilt \/ Danger("daemon"))
  <2>1. /\ mixed' \in [Threads -> BOOLEAN] /\ file' = Whole(file'.tree, file'.settings)
        /\ Parses(file') => file'.tree \in Kept /\ DOMAIN file'.settings \in {{}, Fields}
    BY <1>1, <1>5 DEF TypeInv, Parses
  <2>2. Goto("daemon", "parse")
    BY <1>5 DEF AfterTree
  <2>3. /\ TypeInv' /\ pc["gui"] # "down" /\ pc'["daemon"] = "parse"
        /\ \A u \in Threads : u # "daemon" => pc'[u] = pc[u]
    BY <1>1, <1>2, <1>3, <2>1, <2>2, MovedTypes
  <2>4. StartInv' /\ SoleInv'
    BY <1>2, <1>3, <1>5, <2>3 DEF IInv, StartInv, SoleInv, Alone
  <2>5. FileInv'
    BY <1>1, <1>3, <1>5, <2>3, ReadsKept DEF IInv, FileInv, Alone, InFile, Parses
  <2>. QED
    BY <2>3, <2>4, <2>5 DEF IInv
<1>. QED
  BY <1>4, <1>5 DEF OpenConfig

LEMMA WritePieceKeeps ==
  ASSUME IInv, WritePiece
  PROVE  IInv'
<1>1. /\ pc["daemon"] = "pieces" /\ pc["daemon"] \in InFile /\ TypeInv
      /\ Written("daemon", Broken) /\ UNCHANGED <<param, nearby, pc, form, doc, last>>
      /\ last' = Whole(last'.tree, last'.settings)
      /\ spoilt' = (spoilt \/ Danger("daemon")) /\ spoilt' \in BOOLEAN
  BY DEF WritePiece, IInv, TypeInv, InFile, Danger
<1>2. "gui" \in Threads /\ "daemon" \in Threads /\ \A u \in Threads : u \in {"gui", "daemon"}
  BY DEF Threads
<1>3. file # Missing /\ Broken = Whole(Broken.tree, Broken.settings)
  <2>1. pc["gui"] # "down"
    BY <1>1 DEF TypeInv
  <2>. QED
    BY <2>1, Wholes DEF IInv, StartInv, Broken
<1>4. /\ file' = Whole(file'.tree, file'.settings) /\ file' # Missing
      /\ Parses(file') => file'.tree \in Kept /\ DOMAIN file'.settings \in {{}, Fields}
      /\ ~mixed["daemon"] => file' = Broken
      /\ mixed' \in [Threads -> BOOLEAN] /\ mixed'["daemon"] = mixed["daemon"]
  BY <1>1, <1>2, <1>3, WrittenFile
<1>5. TypeInv'
  BY <1>1, <1>2, <1>4, MovedTypes
<1>6. ~spoilt' => ~spoilt /\ Alone("daemon")
  BY <1>1, <1>2, DangerIsCompany
<1>7. StartInv' /\ SoleInv'
  BY <1>1, <1>2, <1>4, <1>6 DEF StartInv, SoleInv, Alone
<1>8. FileInv'
  BY <1>1, <1>2, <1>4, <1>6 DEF IInv, FileInv, Alone, InFile
<1>. QED
  BY <1>5, <1>7, <1>8 DEF IInv

LEMMA CloseConfigKeeps ==
  ASSUME IInv, CloseConfig
  PROVE  IInv'
<1>. DEFINE tree == doc["daemon"].tree
            new == IF tree \in Plain THEN doc["daemon"] ELSE Broken
<1>1. /\ pc["daemon"] = "pieces" /\ pc["daemon"] \in InFile /\ TypeInv
      /\ Written("daemon", new) /\ UNCHANGED <<param, nearby, form, doc>>
      /\ last' = [last EXCEPT !.tree = tree] /\ Goto("daemon", "parse")
      /\ spoilt' = (spoilt \/ Danger("daemon") \/ tree \notin Plain) /\ spoilt' \in BOOLEAN
  BY DEF CloseConfig, IInv, TypeInv, InFile, Danger, AfterTree
<1>2. "gui" \in Threads /\ "daemon" \in Threads /\ \A u \in Threads : u \in {"gui", "daemon"}
  BY DEF Threads
<1>3. /\ doc["daemon"] = Whole(tree, Nothing) /\ tree \in Trees
      /\ doc["daemon"].settings = Nothing
  BY <1>1, <1>2 DEF TypeInv
<1>4. new = Whole(new.tree, new.settings) /\ file # Missing
  <2>1. pc["gui"] # "down" /\ doc["daemon"] = Whole(doc["daemon"].tree, doc["daemon"].settings)
    BY <1>1, <1>2 DEF TypeInv
  <2>2. Broken = Whole(Broken.tree, Broken.settings)
    BY Wholes DEF Broken
  <2>. QED
    BY <2>1, <2>2 DEF IInv, StartInv
<1>5. new # Broken => new.tree \in Kept /\ DOMAIN new.settings \in {{}, Fields}
  BY <1>3, NothingHasNoField DEF Kept
<1>6. tree \in Plain => Parses(new) /\ new.tree = tree
  BY <1>3, Marks DEF Kept
<1>. HIDE DEF new, tree
<1>7. /\ file' = Whole(file'.tree, file'.settings) /\ file' # Missing
      /\ Parses(file') => file'.tree \in Kept /\ DOMAIN file'.settings \in {{}, Fields}
      /\ ~mixed["daemon"] => file' = new
      /\ mixed' \in [Threads -> BOOLEAN] /\ mixed'["daemon"] = mixed["daemon"]
  BY <1>1, <1>2, <1>4, <1>5, WrittenFile
<1>8. last' = Whole(tree, last.settings)
  BY <1>1, Wholes DEF TypeInv
<1>9. /\ last' = Whole(last'.tree, last'.settings) /\ last'.settings = last.settings
      /\ last'.tree = tree
  BY <1>8, Wholes
<1>10. /\ TypeInv' /\ pc'["daemon"] = "parse"
       /\ \A u \in Threads : u # "daemon" => pc'[u] = pc[u]
  BY <1>1, <1>2, <1>7, <1>9, MovedTypes
<1>11. ~spoilt' => ~spoilt /\ Alone("daemon") /\ tree \in Plain
  BY <1>1, <1>2, DangerIsCompany
<1>12. ~spoilt' => Parses(file') /\ file'.tree = last'.tree
  BY <1>1, <1>2, <1>6, <1>7, <1>9, <1>11 DEF IInv, FileInv, Parses
<1>13. StartInv' /\ SoleInv'
  BY <1>2, <1>7, <1>10, <1>11 DEF StartInv, SoleInv, Alone
<1>14. FileInv'
  BY <1>1, <1>10, <1>11, <1>12 DEF FileInv, Alone, InFile
<1>. QED
  BY <1>10, <1>13, <1>14 DEF IInv

-----------------------------------------------------------------------------
(* The theorems. *)

\* The invariant holds for any trees, forms and bounds.
THEOREM Invariance == Spec => []IInv
<1>1. Init => IInv
  BY InitIInv
<1>2. IInv /\ [Next]_vars => IInv'
  <2>. SUFFICES ASSUME IInv, [Next]_vars PROVE IInv'
    OBVIOUS
  <2>1. CASE Start
    BY <2>1, StartKeeps
  <2>2. CASE Kill
    BY <2>2, KillKeeps
  <2>3. CASE Accept
    BY <2>3, AcceptKeeps
  <2>4. CASE SetField
    BY <2>4, SetFieldKeeps
  <2>5. ASSUME NEW t \in Threads, commit(t) PROVE IInv'
    BY <2>5, CommitParseKeeps, CommitTruncateKeeps, CommitWriteKeeps DEF commit
  <2>6. ASSUME NEW tree \in Trees, SaveConfig(tree) PROVE IInv'
    BY <2>6, SaveConfigKeeps
  <2>7. CASE OpenConfig
    BY <2>7, OpenConfigKeeps
  <2>8. CASE WritePiece
    BY <2>8, WritePieceKeeps
  <2>9. CASE CloseConfig
    BY <2>9, CloseConfigKeeps
  <2>10. CASE UNCHANGED vars
    BY <2>10, ReadsKept
       DEF vars, IInv, TypeInv, StartInv, SoleInv, FileInv, Committed, Parses
  <2>. QED
    BY <2>1, <2>2, <2>3, <2>4, <2>5, <2>6, <2>7, <2>8, <2>9, <2>10 DEF Next
<1>. QED
  BY <1>1, <1>2, PTL DEF Spec

\* The settings, the file and what each thread is about to write keep their types.
THEOREM SettingsTypeCorrect == Spec => []TypeOK
<1>1. IInv => TypeOK
  <2>. SUFFICES ASSUME IInv PROVE TypeOK
    OBVIOUS
  <2>. QED
    BY Marks DEF IInv, TypeInv, TypeOK, Kept, Places, Parses
<1>. QED
  BY Invariance, <1>1, PTL

\* Neither the dialog nor the daemon loses what the other one saved before it, for
\* any trees, forms and numbers of kills and changes: when nobody is in the file and
\* nothing has endangered it since the tree was last written with nobody in the way,
\* it holds that tree and the settings committed last, but for a text with an
\* ampersand (tdParam::commit, save_config).
THEOREM SettingsSavedTogether == Spec => []SavedTogether
<1>1. IInv => SavedTogether
  <2>. SUFFICES ASSUME IInv, Quiet, ~spoilt, file # Missing
               PROVE  /\ file.tree = last.tree
                      /\ DOMAIN file.settings = DOMAIN last.settings
                      /\ \A f \in DOMAIN last.settings \ Referring(last.settings) :
                           file.settings[f] = last.settings[f]
    BY DEF SavedTogether
  <2>1. "daemon" \in Threads /\ \A t \in Threads : pc[t] \notin InFile
    BY DEF Quiet, Threads
  <2>2. file = Reads /\ Parses(file)
    BY <2>1 DEF IInv, FileInv, InFile
  <2>3. CASE Committed
    <3>1. file = Whole(last.tree, Contents(last.settings)) /\ DOMAIN last.settings = Fields
      BY <2>2, <2>3, DocumentIs, Marks DEF Reads, IInv, TypeInv
    <3>2. file.tree = last.tree /\ file.settings = Contents(last.settings)
      BY <3>1, Wholes
    <3>. QED
      BY <3>1, <3>2, DocumentIs
  <2>4. CASE ~Committed
    BY <2>2, <2>4 DEF Reads
  <2>. QED
    BY <2>3, <2>4
<1>. QED
  BY Invariance, <1>1, PTL

\* A restart reads back every setting committed last but the proxy's port and type,
\* which getInitValues swaps, and a text with an ampersand.
THEOREM CommittedSettingsSurvive == Spec => SettingsSurvive
<1>1. ASSUME IInv, Start, Committed, ~spoilt, nearby = Missing,
             NEW f \in Fields \ (Proxy \cup Referring(last.settings))
      PROVE  param'[f] = SetValue(f, last.settings[f])
  <2>1. \A t \in Threads : pc[t] \notin InFile
    BY <1>1 DEF Start, InFile
  <2>2. file # Missing
    BY <1>1, Wholes DEF IInv, StartInv, Committed
  <2>3. file = Reads /\ Parses(file) /\ file' = file
    BY <1>1, <2>1, <2>2 DEF IInv, FileInv, Start, InFile, Threads
  <2>4. file = Whole(last.tree, Contents(last.settings)) /\ DOMAIN last.settings = Fields
    BY <1>1, <2>3, DocumentIs, Marks DEF Reads, IInv, TypeInv
  <2>5. file.settings = Contents(last.settings)
    BY <2>4, Wholes
  <2>6. f \in DOMAIN file.settings /\ file.settings[f] = last.settings[f]
    BY <2>4, <2>5, DocumentIs
  <2>7. param' = InitValues(file)
    BY <1>1, <2>3 DEF Start
  <2>8. param'[f] = ReadValue(f, last.settings[f])
    BY <2>3, <2>6, <2>7 DEF InitValues, Parses
  <2>9. f # "proxy_port" /\ f # "proxy_type"
    BY DEF Proxy
  <2>. QED
    BY <2>8, <2>9 DEF ReadValue, SetValue
<1>2. IInv => [Start /\ Committed /\ ~spoilt /\ nearby = Missing =>
                 \A f \in Fields \ (Proxy \cup Referring(last.settings)) :
                     param'[f] = SetValue(f, last.settings[f])]_vars
  BY <1>1
<1>. QED
  BY Invariance, <1>2, PTL DEF SettingsSurvive
=============================================================================
