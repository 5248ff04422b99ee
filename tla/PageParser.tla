----------------------------- MODULE PageParser -----------------------------
(***************************************************************************)
(* One engine of a search, from its file to the rows it gives to the       *)
(* search.                                                                 *)
(*                                                                         *)
(*   tdwrapper/pageParser.cpp     initParse, doParse, getNextAddress       *)
(*   tdcommon/xml/xmlEngine.cpp   the addresses of the pages               *)
(*   tdcommon/address.h           empty and equal addresses                *)
(*   tdcommon/net/getHttp.cpp     a page, or nothing                       *)
(*   tdcommon/regexp/regExp.cpp   the matches of a page                    *)
(*                                                                         *)
(* MetaSearch takes all of this as one step, Parse, whose outcome is in    *)
(* RowLists(Url, Limit); ReturnsFindings says that it is.                  *)
(*                                                                         *)
(* A page is what the two regular expressions of the engine match in it:   *)
(* rows, by their url, and links.  A row whose url did not match has no    *)
(* comparable field and equals the others of its kind, so that "no url" is *)
(* one of the values in Url.  Every match is taken not to be empty: an     *)
(* empty one would leave regExp::offset where it is.  The abort flag is    *)
(* never raised in the program and is left out.                            *)
(***************************************************************************)
EXTENDS RowMerge, FiniteSets

CONSTANTS
  Url,          \* the urls of the rows
  Limit,        \* rowContainer::limit
  Address,      \* the addresses that are not empty; those whose url, GET and POST
                \* texts joined are the same count as one (address::operator<)
  NoAddress,    \* the empty one
  MaxQueries,   \* bound: the query nodes of the engine's file
  MaxRows,      \* bound: the rows matched in a page
  MaxLinks      \* bound: the links matched in a page

ASSUME LimitAssumption == Limit \in Nat
ASSUME AddressAssumption == NoAddress \notin Address
ASSUME BoundsAssumption == MaxQueries \in Nat /\ MaxRows \in Nat /\ MaxLinks \in Nat

VARIABLES
  eng,             \* the engine's file, see Engines
  at,              \* where the thread is
  pages,           \* pageParser::pages
  visited_pages,   \* pageParser::visited_pages
  page,            \* the matches of the page that are still to be read
  results,         \* pageParser::results, by their urls
  \* history
  fetched,         \* the addresses given to getPage by doParse
  queued,          \* every address that was put into pages
  gaveUp           \* the engine stopped on an error or an empty address

vars == <<eng, at, pages, visited_pages, page, results, fetched, queued, gaveUp>>

SeqUpTo(S, n) == UNION {[1 .. k -> S] : k \in 0 .. n}

\* An address may come out empty: from a file without url nor fields, or from a
\* link whose text is empty.
AnyAddress == Address \cup {NoAddress}

\* What matters of an engine's file: has it a regular expression for the rows;
\* has it a nextinput node, with a regular expression for the links or, without,
\* with an address made of the number of rows (%n, %m).  Where no address is
\* counted, counted is always the same.
Engines == {e \in [result : BOOLEAN,
                   nextinput : {"none", "matched", "counted"},
                   counted : [0 .. Limit -> AnyAddress]] :
              e.nextinput = "counted" \/ Range(e.counted) = {NoAddress}}

\* The matches of the regular expressions in a page.
Pages == [rows : SeqUpTo(Url, MaxRows), links : SeqUpTo(AnyAddress, MaxLinks)]
Blank == [rows |-> <<>>, links |-> <<>>]

Init ==
  /\ eng \in Engines
  /\ at = "init"
  /\ pages = <<>>
  /\ visited_pages = {}
  /\ page = Blank
  /\ results = <<>>
  /\ fetched = <<>>
  /\ queued = {}
  /\ gaveUp = FALSE

-----------------------------------------------------------------------------
\* Put the addresses ads, in this order, at the end of pages.
Push(ads) ==
  /\ pages' = pages \o ads
  /\ queued' = queued \cup Range(ads)

\* initParse: the init pages are read for cookies and for parts of the addresses
\* of the queries.  What was not matched leaves any text in an address.
InitParse ==
  /\ at = "init"
  /\ \E ads \in SeqUpTo(AnyAddress, MaxQueries) : Push(ads)
  /\ at' = "next"
  /\ UNCHANGED <<eng, visited_pages, page, results, fetched, gaveUp>>

\* openEngine returns false: there is no such file, or it is not XML.
NotOpened ==
  /\ at = "init"
  /\ at' = "closing"
  /\ gaveUp' = TRUE
  /\ UNCHANGED <<eng, pages, visited_pages, page, results, fetched, queued>>

\* while(results.size() < limit)
LimitReached ==
  /\ at = "next"
  /\ Len(results) >= Limit
  /\ at' = "closing"
  /\ UNCHANGED <<eng, pages, visited_pages, page, results, fetched, queued, gaveUp>>

\* Mutant: visited_pages is not looked up.
NotLookedUp == DOMAIN pages

\* Mutant: a visited page at the front hides those behind it.
FrontOnly == {i \in {1} \cap DOMAIN pages : pages[i] \notin visited_pages}

\* The pages that getNextAddress has not returned before.
Unvisited == {i \in DOMAIN pages : pages[i] \notin visited_pages}

\* Mutant: the loop goes on without an address.
NoBreak ==
  /\ at = "next"
  /\ Len(results) < Limit
  /\ Unvisited = {}
  /\ UNCHANGED vars

\* getNextAddress drops what was visited, finds nothing and returns an empty
\* address.
NoMorePages ==
  /\ at = "next"
  /\ Len(results) < Limit
  /\ Unvisited = {}
  /\ pages' = <<>>
  /\ at' = "closing"
  /\ UNCHANGED <<eng, visited_pages, page, results, fetched, queued, gaveUp>>

\* address::isEmpty
IsEmpty(ad) == ad = NoAddress

\* getNextAddress finds an address.
GetNextAddress ==
  /\ at = "next"
  /\ Len(results) < Limit
  /\ Unvisited # {}
  /\ LET i == CHOOSE k \in Unvisited : \A l \in Unvisited : k <= l
         ad == pages[i]
     IN /\ pages' = SubSeq(pages, i + 1, Len(pages))
        /\ visited_pages' = visited_pages \cup {ad}
        /\ IF IsEmpty(ad)
           THEN at' = "closing" /\ gaveUp' = TRUE /\ UNCHANGED fetched
           ELSE at' = "page" /\ fetched' = Append(fetched, ad) /\ UNCHANGED gaveUp
  /\ UNCHANGED <<eng, page, results, queued>>

\* getPage returns something.
GetPage ==
  /\ at = "page"
  /\ page' \in Pages
  /\ at' = "rows"
  /\ UNCHANGED <<eng, pages, visited_pages, results, fetched, queued, gaveUp>>

\* getPage returns "": cURL failed or timed out, or there is nothing in the page.
\* The pages that are still queued are given up, too.
PageFails ==
  /\ at = "page"
  /\ at' = "closing"
  /\ gaveUp' = TRUE
  /\ UNCHANGED <<eng, pages, visited_pages, page, results, fetched, queued>>

\* Mutant: the limit is looked at between the pages only.
MoreRows == eng.result /\ page.rows # <<>>

\* results.size() < limit && !r->endOfMatch(), when there is an r.
HasRow == eng.result /\ Len(results) < Limit /\ page.rows # <<>>

\* if (find(...) == results.end()) results.push_back(rw)
AddNew(u) == IF u \in Range(results) THEN results ELSE Append(results, u)

\* generateRow, and r->next().
ParseRow ==
  /\ at = "rows"
  /\ HasRow
  /\ results' = AddNew(Head(page.rows))
  /\ page' = [page EXCEPT !.rows = Tail(page.rows)]
  /\ UNCHANGED <<eng, at, pages, visited_pages, fetched, queued, gaveUp>>

\* Mutant: the number of pages read stands for the number of rows.
CountPages == <<eng.counted[IF Len(fetched) <= Limit THEN Len(fetched) ELSE Limit]>>

\* The addresses of the next pages: one for each link, or one made of the number
\* of rows, or none.
NextInputs ==
  CASE eng.nextinput = "matched" -> page.links
    [] eng.nextinput = "counted" -> <<eng.counted[Len(results)]>>
    [] eng.nextinput = "none"    -> <<>>

ParseLinks ==
  /\ at = "rows"
  /\ ~HasRow
  /\ Push(NextInputs)
  /\ page' = Blank
  /\ at' = "next"
  /\ UNCHANGED <<eng, visited_pages, results, fetched, gaveUp>>

\* A tdExcp, as for a malformed regular expression, or a std::exception, as
\* getMatch throws on what did not match: startParsing catches it.  The rows
\* that were found stay.
Throw ==
  /\ at \in {"init", "page", "rows"}
  /\ at' = "closing"
  /\ gaveUp' = TRUE
  /\ UNCHANGED <<eng, pages, visited_pages, page, results, fetched, queued>>

\* closeParse: see MetaSearch.
CloseParse ==
  /\ at = "closing"
  /\ at' = "done"
  /\ UNCHANGED <<eng, pages, visited_pages, page, results, fetched, queued, gaveUp>>

Next ==
  \/ InitParse
  \/ NotOpened
  \/ LimitReached
  \/ NoMorePages
  \/ GetNextAddress
  \/ GetPage
  \/ PageFails
  \/ ParseRow
  \/ ParseLinks
  \/ Throw
  \/ CloseParse

SafeSpec == Init /\ [][Next]_vars

\* The thread runs, and cURL's timeout ends each download.
Spec == SafeSpec /\ WF_vars(Next)

-----------------------------------------------------------------------------
\* The types.
TypeOK ==
  /\ eng \in Engines
  /\ at \in {"init", "next", "page", "rows", "closing", "done"}
  /\ pages \in Seq(AnyAddress)
  /\ visited_pages \subseteq AnyAddress
  /\ page \in [rows : Seq(Url), links : Seq(AnyAddress)]
  /\ results \in Seq(Url)
  /\ fetched \in Seq(Address)
  /\ queued \subseteq AnyAddress
  /\ gaveUp \in BOOLEAN

\* However the parsing ends, the rows it gives to the search are those that
\* MetaSearch counts on: no url twice, and no more of them than the limit,
\* although a page may have more rows than there is room for.
ReturnsFindings == results \in RowLists(Url, Limit)

\* No page is asked for twice, whatever links lead to it.
NoPageTwice == IsInjective(fetched)

\* An engine that stops short of the limit, without an error, has read every
\* page it was told of: a page that was visited does not hide those behind it.
StopsOnlyWhenExhausted ==
  at = "done" /\ ~gaveUp /\ Len(results) < Limit => queued \subseteq Range(fetched)

\* An engine whose next page is computed from the number of rows asks for one
\* more page at most than it has found rows, besides those of its queries, even
\* from a site that never ends: a page without a new row is the last.
CountedPagesBringRows ==
  eng.nextinput = "counted" => Len(fetched) <= MaxQueries + Len(results) + 1

\* The parsing ends, for it visits no page twice; MetaSearch relies on that.
Termination == <>(at = "done")
=============================================================================
