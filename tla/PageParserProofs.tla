-------------------------- MODULE PageParserProofs --------------------------
(***************************************************************************)
(* Proofs about PageParser, for any urls, any addresses, any limit and any *)
(* bounds.                                                                 *)
(***************************************************************************)
EXTENDS PageParser, SequenceTheorems, WellFoundedInduction, FiniteSetTheorems, TLAPS

\* A set of numbers that is not empty has a least one.
LEMMA Least ==
  ASSUME NEW T \in SUBSET Nat, T # {}
  PROVE  \E k \in T : \A l \in T : k <= l
<1>1. PICK k \in T : \A l \in T : <<l, k>> \notin OpToRel(<, Nat)
  BY NatLessThanWellFounded, WFMin, Zenon
<1>2. \A l \in T : ~(l < k)
  BY <1>1 DEF OpToRel
<1>. QED
  BY <1>2

\* Adding an element that is not there keeps a list without duplicates.
LEMMA AppendKeepsDistinct ==
  ASSUME NEW S, NEW s \in Seq(S), IsInjective(s), NEW x \in S, x \notin Range(s)
  PROVE  IsInjective(Append(s, x))
<1>1. DOMAIN s = 1 .. Len(s) /\ Len(s) \in Nat
  BY LenProperties
<1>2. /\ DOMAIN Append(s, x) = 1 .. Len(s) + 1
      /\ \A i \in 1 .. Len(s) : Append(s, x)[i] = s[i]
      /\ Append(s, x)[Len(s) + 1] = x
  BY AppendProperties, LenProperties
<1>3. \A i \in 1 .. Len(s) : s[i] # x
  BY <1>1 DEF Range
<1>4. \A i, j \in 1 .. Len(s) + 1 : Append(s, x)[i] = Append(s, x)[j] => i = j
  <2>. SUFFICES ASSUME NEW i \in 1 .. Len(s) + 1, NEW j \in 1 .. Len(s) + 1,
                       Append(s, x)[i] = Append(s, x)[j]
                PROVE  i = j
    OBVIOUS
  <2>1. CASE i \in 1 .. Len(s) /\ j \in 1 .. Len(s)
    BY <1>1, <1>2, <2>1 DEF IsInjective
  <2>2. CASE i = Len(s) + 1 \/ j = Len(s) + 1
    BY <1>1, <1>2, <1>3, <2>2
  <2>. QED
    BY <1>1, <2>1, <2>2
<1>. DEFINE t == Append(s, x)
<1>5. \A i, j \in DOMAIN t : t[i] = t[j] => i = j
  BY <1>2, <1>4
<1>. HIDE DEF t
<1>6. IsInjective(t)
  BY <1>5 DEF IsInjective
<1>. QED
  BY <1>6 DEF t

\* What a list has after an element was added to it.
LEMMA AppendRange ==
  ASSUME NEW S, NEW s \in Seq(S), NEW x \in S
  PROVE  Range(Append(s, x)) = Range(s) \cup {x}
<1>1. Append(s, x) = s \o <<x>> /\ <<x>> \in Seq(S)
  BY AppendIsConcat
<1>2. Range(<<x>>) = {x}
  BY DEF Range
<1>3. Range(s \o <<x>>) = Range(s) \cup Range(<<x>>)
  <2>. DEFINE t == <<x>>
  <2>1. t \in Seq(S)
    BY <1>1
  <2>. HIDE DEF t
  <2>2. Range(s \o t) = Range(s) \cup Range(t)
    BY <2>1, RangeConcatenation
  <2>. QED
    BY <2>2 DEF t
<1>. QED
  BY <1>1, <1>2, <1>3

-----------------------------------------------------------------------------
(***************************************************************************)
(* Sequences.                                                              *)
(***************************************************************************)

\* The lists of bounded length are sequences.
LEMMA SeqUpToSeq ==
  ASSUME NEW S, NEW n \in Nat, NEW s \in SeqUpTo(S, n)
  PROVE  s \in Seq(S)
<1>1. PICK k \in 0 .. n : s \in [1 .. k -> S]
  BY DEF SeqUpTo
<1>. QED
  BY <1>1

\* The place of the next address, when there is one.
NextPlace == CHOOSE k \in Unvisited : \A l \in Unvisited : k <= l

\* It is that of the first address that was not visited.
LEMMA FirstUnvisited ==
  ASSUME pages \in Seq(AnyAddress), Unvisited # {}
  PROVE  /\ NextPlace \in 1 .. Len(pages)
         /\ pages[NextPlace] \notin visited_pages
         /\ \A j \in 1 .. Len(pages) : j < NextPlace => pages[j] \in visited_pages
<1>0. DOMAIN pages = 1 .. Len(pages) /\ Len(pages) \in Nat
  BY LenProperties
<1>1. Unvisited \subseteq Nat
  BY <1>0 DEF Unvisited
<1>2. \E k \in Unvisited : \A l \in Unvisited : k <= l
  BY <1>1, Least
<1>3. NextPlace \in Unvisited /\ \A l \in Unvisited : NextPlace <= l
  BY <1>2 DEF NextPlace
<1>. QED
  BY <1>0, <1>1, <1>3 DEF Unvisited

-----------------------------------------------------------------------------
(***************************************************************************)
(* The inductive invariant.                                                *)
(***************************************************************************)

\* The rows: no url twice, no more than the limit.
FoundInv == IsInjective(results) /\ Len(results) <= Limit

\* visited_pages is what was fetched, and the empty address ends the parsing.
VisitInv ==
  /\ IsInjective(fetched)
  /\ Range(fetched) = visited_pages \ {NoAddress}
  /\ NoAddress \in visited_pages => gaveUp

\* No address is lost between pages and visited_pages, until nothing is left.
QueueInv ==
  /\ queued \subseteq visited_pages \cup Range(pages)
  /\ at \in {"closing", "done"} /\ ~gaveUp /\ Len(results) < Limit =>
       queued \subseteq visited_pages

IInv == TypeOK /\ FoundInv /\ VisitInv /\ QueueInv

LEMMA InitIInv == Init => IInv
<1>. SUFFICES ASSUME Init PROVE IInv
  OBVIOUS
<1>1. TypeOK
  BY EmptySeq DEF Init, TypeOK, Blank
<1>2. FoundInv
  BY LimitAssumption, EmptySeq DEF Init, FoundInv, IsInjective
<1>3. VisitInv
  BY DEF Init, VisitInv, IsInjective, Range
<1>4. QueueInv
  BY DEF Init, QueueInv
<1>. QED
  BY <1>1, <1>2, <1>3, <1>4 DEF IInv

\* What GetNextAddress does, in terms of NextPlace.
LEMMA GetNextAddressDoes ==
  ASSUME GetNextAddress
  PROVE  /\ Unvisited # {}
         /\ pages' = SubSeq(pages, NextPlace + 1, Len(pages))
         /\ visited_pages' = visited_pages \cup {pages[NextPlace]}
         /\ \/ /\ pages[NextPlace] = NoAddress
               /\ at' = "closing" /\ gaveUp' = TRUE /\ fetched' = fetched
            \/ /\ pages[NextPlace] # NoAddress
               /\ at' = "page" /\ fetched' = Append(fetched, pages[NextPlace])
               /\ gaveUp' = gaveUp
         /\ UNCHANGED <<eng, page, results, queued>>
BY DEF GetNextAddress, NextPlace, IsEmpty

LEMMA NextInputsType ==
  ASSUME IInv
  PROVE  NextInputs \in Seq(AnyAddress)
<1>1. CASE eng.nextinput = "matched"
  BY <1>1 DEF NextInputs, IInv, TypeOK
<1>2. CASE eng.nextinput = "counted"
  <2>1. results \in Seq(Url) /\ Len(results) <= Limit
    BY DEF IInv, TypeOK, FoundInv
  <2>2. Len(results) \in 0 .. Limit
    BY <2>1, LimitAssumption, LenProperties
  <2>3. eng.counted \in [0 .. Limit -> AnyAddress]
    BY DEF IInv, TypeOK, Engines
  <2>4. eng.counted[Len(results)] \in AnyAddress
    BY <2>2, <2>3
  <2>. QED
    BY <1>2, <2>4 DEF NextInputs
<1>3. CASE eng.nextinput = "none"
  BY <1>3, EmptySeq DEF NextInputs
<1>. QED
  BY <1>1, <1>2, <1>3 DEF IInv, TypeOK, Engines

LEMMA TypeNext == IInv /\ [Next]_vars => TypeOK'
<1>. SUFFICES ASSUME IInv, [Next]_vars PROVE TypeOK'
  OBVIOUS
<1>. USE DEF IInv
<1>1. CASE \/ UNCHANGED vars \/ NotOpened \/ LimitReached \/ PageFails \/ Throw
           \/ CloseParse
  BY <1>1 DEF TypeOK, vars, NotOpened, LimitReached, PageFails, Throw, CloseParse
<1>2. CASE InitParse
  <2>1. PICK ads \in SeqUpTo(AnyAddress, MaxQueries) : Push(ads)
    BY <1>2 DEF InitParse
  <2>2. ads \in Seq(AnyAddress)
    BY SeqUpToSeq, BoundsAssumption
  <2>3. Range(ads) \subseteq AnyAddress
    BY <2>2, RangeOfSeq
  <2>4. pages \o ads \in Seq(AnyAddress)
    BY <2>2, ConcatProperties DEF TypeOK
  <2>. QED
    BY <1>2, <2>1, <2>3, <2>4 DEF TypeOK, InitParse, Push
<1>3. CASE NoMorePages
  BY <1>3, EmptySeq DEF TypeOK, NoMorePages
<1>4. CASE GetNextAddress
  <2>1. NextPlace \in 1 .. Len(pages) /\ Len(pages) \in Nat
    BY <1>4, FirstUnvisited, GetNextAddressDoes, LenProperties DEF TypeOK
  <2>2. pages[NextPlace] \in AnyAddress
    BY <2>1, ElementOfSeq DEF TypeOK
  <2>3. pages' \in Seq(AnyAddress)
    <3>1. \A j \in NextPlace + 1 .. Len(pages) : pages[j] \in AnyAddress
      BY <2>1, ElementOfSeq DEF TypeOK
    <3>2. SubSeq(pages, NextPlace + 1, Len(pages)) \in Seq(AnyAddress)
      BY <2>1, <3>1, SubSeqProperties
    <3>. QED
      BY <1>4, <3>2, GetNextAddressDoes
  <2>4. fetched' \in Seq(Address)
    <3>1. CASE pages[NextPlace] = NoAddress
      BY <1>4, <3>1, GetNextAddressDoes DEF TypeOK
    <3>2. CASE pages[NextPlace] # NoAddress
      <4>1. pages[NextPlace] \in Address
        BY <2>2, <3>2 DEF AnyAddress
      <4>2. Append(fetched, pages[NextPlace]) \in Seq(Address)
        BY <4>1, AppendProperties DEF TypeOK
      <4>. QED
        BY <1>4, <3>2, <4>2, GetNextAddressDoes
    <3>. QED
      BY <3>1, <3>2
  <2>5. at' \in {"closing", "page"} /\ gaveUp' \in BOOLEAN
    BY <1>4, GetNextAddressDoes DEF TypeOK
  <2>. QED
    BY <1>4, <2>2, <2>3, <2>4, <2>5, GetNextAddressDoes DEF TypeOK
<1>5. CASE GetPage
  <2>1. page'.rows \in Seq(Url) /\ page'.links \in Seq(AnyAddress)
    BY <1>5, SeqUpToSeq, BoundsAssumption DEF GetPage, Pages
  <2>2. page' \in [rows : Seq(Url), links : Seq(AnyAddress)]
    BY <1>5, <2>1 DEF GetPage, Pages
  <2>. QED
    BY <1>5, <2>2 DEF TypeOK, GetPage
<1>6. CASE ParseRow
  <2>1. Head(page.rows) \in Url /\ Tail(page.rows) \in Seq(Url)
    BY <1>6, HeadTailProperties DEF TypeOK, ParseRow, HasRow
  <2>2. results' \in Seq(Url)
    BY <1>6, <2>1, AppendProperties DEF TypeOK, ParseRow, AddNew
  <2>. QED
    BY <1>6, <2>1, <2>2 DEF TypeOK, ParseRow
<1>7. CASE ParseLinks
  <2>1. Range(NextInputs) \subseteq AnyAddress
    BY NextInputsType, RangeOfSeq
  <2>2. pages \o NextInputs \in Seq(AnyAddress)
    BY NextInputsType, ConcatProperties DEF TypeOK
  <2>3. Blank \in [rows : Seq(Url), links : Seq(AnyAddress)]
    BY EmptySeq DEF Blank
  <2>. QED
    BY <1>7, <2>1, <2>2, <2>3 DEF TypeOK, ParseLinks, Push
<1>. QED
  BY <1>1, <1>2, <1>3, <1>4, <1>5, <1>6, <1>7 DEF Next

LEMMA FoundNext == IInv /\ [Next]_vars => FoundInv'
<1>. SUFFICES ASSUME IInv, [Next]_vars PROVE FoundInv'
  OBVIOUS
<1>1. CASE results' = results
  BY <1>1 DEF IInv, FoundInv, IsInjective
<1>2. CASE ParseRow
  <2>1. CASE Head(page.rows) \in Range(results)
    BY <1>1, <1>2, <2>1 DEF ParseRow, AddNew
  <2>2. CASE Head(page.rows) \notin Range(results)
    <3>1. Head(page.rows) \in Url
      BY <1>2, HeadTailProperties DEF IInv, TypeOK, ParseRow, HasRow
    <3>2. results' = Append(results, Head(page.rows))
      BY <1>2, <2>2 DEF ParseRow, AddNew
    <3>3. IsInjective(Append(results, Head(page.rows)))
      BY <2>2, <3>1, AppendKeepsDistinct DEF IInv, TypeOK, FoundInv
    <3>4. Len(results') = Len(results) + 1 /\ Len(results) \in Nat
      BY <3>1, <3>2, AppendProperties, LenProperties DEF IInv, TypeOK
    <3>5. Len(results) < Limit
      BY <1>2 DEF ParseRow, HasRow
    <3>6. Len(results') <= Limit
      BY <3>4, <3>5, LimitAssumption
    <3>7. IsInjective(results')
      BY <3>2, <3>3
    <3>. QED
      BY <3>6, <3>7 DEF FoundInv
  <2>. QED
    BY <2>1, <2>2
<1>3. results' = results \/ ParseRow
  BY DEF vars, Next, InitParse, NotOpened, LimitReached, NoMorePages,
     GetNextAddress, GetPage, PageFails, ParseLinks, Throw, CloseParse
<1>. QED
  BY <1>1, <1>2, <1>3

LEMMA VisitNext == IInv /\ [Next]_vars => VisitInv'
<1>. SUFFICES ASSUME IInv, [Next]_vars PROVE VisitInv'
  OBVIOUS
<1>1. CASE GetNextAddress
  <2>1. NextPlace \in 1 .. Len(pages) /\ pages[NextPlace] \notin visited_pages
    BY <1>1, FirstUnvisited, GetNextAddressDoes DEF IInv, TypeOK
  <2>2. CASE pages[NextPlace] = NoAddress
    BY <1>1, <2>2, GetNextAddressDoes DEF IInv, VisitInv
  <2>3. CASE pages[NextPlace] # NoAddress
    <3>. DEFINE ad == pages[NextPlace]
    <3>1. ad \in Address
      BY <2>1, <2>3, ElementOfSeq DEF IInv, TypeOK, AnyAddress
    <3>2. ad \notin Range(fetched)
      BY <2>1 DEF IInv, VisitInv
    <3>3. fetched' = Append(fetched, ad) /\ gaveUp' = gaveUp
          /\ visited_pages' = visited_pages \cup {ad}
      BY <1>1, <2>3, GetNextAddressDoes
    <3>4. ad # NoAddress
      BY <2>3
    <3>. HIDE DEF ad
    <3>5. IsInjective(Append(fetched, ad))
      BY <3>1, <3>2, AppendKeepsDistinct DEF IInv, TypeOK, VisitInv
    <3>6. Range(Append(fetched, ad)) = Range(fetched) \cup {ad}
      BY <3>1, AppendRange DEF IInv, TypeOK
    <3>. QED
      BY <3>3, <3>4, <3>5, <3>6 DEF IInv, VisitInv
  <2>. QED
    BY <2>2, <2>3
<1>2. CASE ~GetNextAddress
  <2>1. fetched' = fetched /\ visited_pages' = visited_pages
        /\ (gaveUp => gaveUp')
    BY <1>2 DEF vars, Next, InitParse, NotOpened, LimitReached, NoMorePages,
       GetPage, PageFails, ParseRow, ParseLinks, Throw, CloseParse
  <2>. QED
    BY <2>1 DEF IInv, VisitInv, IsInjective, Range
<1>. QED
  BY <1>1, <1>2

LEMMA QueueNext == IInv /\ [Next]_vars => QueueInv'
<1>. SUFFICES ASSUME IInv, [Next]_vars PROVE QueueInv'
  OBVIOUS
<1>1. ASSUME NEW ads \in Seq(AnyAddress), Push(ads),
             visited_pages' = visited_pages, at' = "next"
      PROVE  QueueInv'
  <2>1. Range(pages \o ads) = Range(pages) \cup Range(ads)
    BY RangeConcatenation DEF IInv, TypeOK
  <2>2. pages' = pages \o ads /\ queued' = queued \cup Range(ads)
    BY <1>1 DEF Push
  <2>. QED
    BY <1>1, <2>1, <2>2 DEF IInv, QueueInv
<1>2. CASE InitParse
  BY <1>1, <1>2, SeqUpToSeq, BoundsAssumption DEF InitParse
<1>3. CASE ParseLinks
  BY <1>1, <1>3, NextInputsType DEF ParseLinks
<1>4. CASE GetNextAddress
  <2>. DEFINE i == NextPlace
              rest == SubSeq(pages, i + 1, Len(pages))
  <2>0. /\ i \in 1 .. Len(pages) /\ Len(pages) \in Nat
        /\ DOMAIN pages = 1 .. Len(pages)
        /\ \A j \in 1 .. Len(pages) : j < i => pages[j] \in visited_pages
    BY <1>4, FirstUnvisited, GetNextAddressDoes, LenProperties DEF IInv, TypeOK
  <2>1. /\ pages' = rest /\ visited_pages' = visited_pages \cup {pages[i]}
        /\ queued' = queued /\ (gaveUp' \/ at' = "page")
    BY <1>4, GetNextAddressDoes
  <2>. HIDE DEF i
  <2>2. \A j \in i + 1 .. Len(pages) : pages[j] \in Range(rest)
    <3>. SUFFICES ASSUME NEW j \in i + 1 .. Len(pages)
                  PROVE  pages[j] \in Range(rest)
      OBVIOUS
    <3>1. /\ DOMAIN rest = 1 .. Len(pages) - i
          /\ rest[j - i] = pages[j]
      BY <2>0
    <3>2. j - i \in DOMAIN rest
      BY <2>0, <3>1
    <3>. QED
      BY <3>1, <3>2 DEF Range
  <2>. HIDE DEF rest
  <2>3. \A j \in 1 .. Len(pages) : pages[j] \in visited_pages \cup {pages[i]} \cup Range(rest)
    BY <2>0, <2>2
  <2>4. Range(pages) \subseteq visited_pages \cup {pages[i]} \cup Range(rest)
    BY <2>0, <2>3 DEF Range
  <2>. QED
    BY <2>1, <2>4 DEF IInv, QueueInv
<1>5. CASE NoMorePages
  <2>1. \A j \in DOMAIN pages : pages[j] \in visited_pages
    BY <1>5 DEF NoMorePages, Unvisited
  <2>2. Range(pages) \subseteq visited_pages
    BY <2>1 DEF Range
  <2>. QED
    BY <1>5, <2>2 DEF NoMorePages, IInv, QueueInv
<1>6. CASE \/ UNCHANGED vars \/ NotOpened \/ LimitReached \/ GetPage \/ PageFails
           \/ ParseRow \/ Throw \/ CloseParse
  <2>1. /\ queued' = queued /\ visited_pages' = visited_pages
        /\ Range(pages)' = Range(pages)
    BY <1>6 DEF vars, NotOpened, LimitReached, GetPage, PageFails, ParseRow,
       Throw, CloseParse, Range
  <2>2. \/ at' \notin {"closing", "done"}
        \/ gaveUp'
        \/ results' = results /\ Len(results) >= Limit
        \/ at \in {"closing", "done"} /\ gaveUp' = gaveUp /\ results' = results
    BY <1>6 DEF vars, NotOpened, LimitReached, GetPage, PageFails, ParseRow,
       Throw, CloseParse
  <2>3. Len(results) \in Nat
    BY LenProperties DEF IInv, TypeOK
  <2>. QED
    BY <2>1, <2>2, <2>3, LimitAssumption DEF IInv, QueueInv
<1>. QED
  BY <1>2, <1>3, <1>4, <1>5, <1>6 DEF Next

-----------------------------------------------------------------------------
(***************************************************************************)
(* Counting pages.                                                         *)
(***************************************************************************)

\* A function has no more values than arguments, and as many when it is injective.
LEMMA RangeSize ==
  ASSUME NEW D, IsFiniteSet(D), NEW T, NEW f \in [D -> T]
  PROVE  /\ IsFiniteSet(Range(f)) /\ Cardinality(Range(f)) <= Cardinality(D)
         /\ IsInjective(f) => Cardinality(Range(f)) = Cardinality(D)
<1>1. f \in Surjection(D, Range(f))
  BY DEF Surjection, Range
<1>2. IsInjective(f) => f \in Injection(D, Range(f))
  BY DEF IsInjective, Injection, Range
<1>. QED
  BY <1>1, <1>2, FS_Surjection

LEMMA CountTo ==
  ASSUME NEW n \in Nat
  PROVE  IsFiniteSet(1 .. n) /\ Cardinality(1 .. n) = n
<1>1. /\ IsFiniteSet(1 .. n)
      /\ Cardinality(1 .. n) = IF 1 > n THEN 0 ELSE n - 1 + 1
  BY FS_Interval
<1>. QED
  BY <1>1

\* The addresses counted so far.
CountedAddresses == {eng.counted[k] : k \in 0 .. Len(results)}

\* The addresses of a counted engine are those of its queries and the counted ones;
\* what is fetched has been queued.
CountInv ==
  /\ at = "init" => queued = {}
  /\ visited_pages \cup Range(pages) \subseteq queued
  /\ eng.nextinput = "counted" =>
       \E Q \in SUBSET AnyAddress : /\ IsFiniteSet(Q) /\ Cardinality(Q) <= MaxQueries
                                   /\ queued \subseteq Q \cup CountedAddresses

LEMMA InitCount == Init => CountInv
<1>. SUFFICES ASSUME Init PROVE CountInv
  OBVIOUS
<1>1. IsFiniteSet({}) /\ Cardinality({}) <= MaxQueries
  BY FS_EmptySet, BoundsAssumption
<1>. QED
  BY <1>1 DEF Init, CountInv, Range

LEMMA CountNext == IInv /\ CountInv /\ [Next]_vars => CountInv'
<1>. SUFFICES ASSUME IInv, CountInv, [Next]_vars PROVE CountInv'
  OBVIOUS
<1>1. eng' = eng /\ Len(results) \in Nat
  BY LenProperties DEF IInv, TypeOK, vars, Next, InitParse, NotOpened, LimitReached,
     NoMorePages, GetNextAddress, GetPage, PageFails, ParseRow, ParseLinks, Throw,
     CloseParse
<1>2. CASE InitParse
  <2>1. PICK ads \in SeqUpTo(AnyAddress, MaxQueries) : Push(ads)
    BY <1>2 DEF InitParse
  <2>2. PICK k \in 0 .. MaxQueries : ads \in [1 .. k -> AnyAddress]
    BY DEF SeqUpTo
  <2>3. /\ IsFiniteSet(Range(ads)) /\ Cardinality(Range(ads)) <= MaxQueries
        /\ Range(ads) \subseteq AnyAddress
    <3>1. IsFiniteSet(1 .. k) /\ Cardinality(1 .. k) <= MaxQueries
          /\ Cardinality(1 .. k) \in Nat
      <4>1. k \in Nat /\ k <= MaxQueries
        BY <2>2, BoundsAssumption
      <4>. QED
        BY <4>1, CountTo
    <3>2. /\ IsFiniteSet(Range(ads)) /\ Cardinality(Range(ads)) <= Cardinality(1 .. k)
          /\ Cardinality(Range(ads)) \in Nat
      BY <2>2, <3>1, RangeSize, FS_CardinalityType
    <3>3. Range(ads) \subseteq AnyAddress
      BY <2>2 DEF Range
    <3>. QED
      BY <3>1, <3>2, <3>3, BoundsAssumption
  <2>4. queued' = Range(ads) /\ visited_pages' = visited_pages /\ at' = "next"
        /\ Range(pages') = Range(pages) \cup Range(ads)
    <3>1. ads \in Seq(AnyAddress)
      BY SeqUpToSeq, BoundsAssumption
    <3>. QED
      BY <1>2, <2>1, <3>1, RangeConcatenation DEF InitParse, Push, CountInv, IInv, TypeOK
  <2>. QED
    BY <1>2, <2>3, <2>4 DEF CountInv, InitParse
<1>3. CASE ParseLinks
  <2>1. /\ queued' = queued \cup Range(NextInputs) /\ visited_pages' = visited_pages
        /\ Range(pages') = Range(pages) \cup Range(NextInputs)
        /\ results' = results /\ at' = "next"
    BY <1>3, NextInputsType, RangeConcatenation DEF ParseLinks, Push, IInv, TypeOK
  <2>2. eng.nextinput = "counted" => Range(NextInputs) \subseteq CountedAddresses
    <3>1. SUFFICES ASSUME eng.nextinput = "counted"
                   PROVE  Range(NextInputs) \subseteq CountedAddresses
      OBVIOUS
    <3>2. NextInputs = <<eng.counted[Len(results)]>>
      BY <3>1 DEF NextInputs
    <3>3. Range(NextInputs) = {eng.counted[Len(results)]}
      BY <3>2 DEF Range
    <3>. QED
      BY <1>1, <3>3 DEF CountedAddresses
  <2>3. CountedAddresses' = CountedAddresses
    BY <1>1, <2>1 DEF CountedAddresses
  <2>. QED
    BY <1>1, <2>1, <2>2, <2>3 DEF CountInv
<1>4. CASE GetNextAddress
  <2>1. /\ NextPlace \in 1 .. Len(pages) /\ Len(pages) \in Nat
        /\ DOMAIN pages = 1 .. Len(pages)
    BY <1>4, FirstUnvisited, GetNextAddressDoes, LenProperties DEF IInv, TypeOK
  <2>2. pages[NextPlace] \in Range(pages)
    BY <2>1 DEF Range
  <2>. DEFINE rest == SubSeq(pages, NextPlace + 1, Len(pages))
  <2>3. Range(rest) \subseteq Range(pages)
    <3>. HIDE DEF NextPlace
    <3>1. /\ DOMAIN rest = 1 .. Len(pages) - NextPlace
          /\ \A j \in DOMAIN rest : rest[j] = pages[NextPlace + j]
      BY <2>1
    <3>2. \A j \in DOMAIN rest : NextPlace + j \in DOMAIN pages
      BY <2>1, <3>1
    <3>. HIDE DEF rest
    <3>. QED
      BY <3>1, <3>2 DEF Range
  <2>4. /\ pages' = rest /\ visited_pages' = visited_pages \cup {pages[NextPlace]}
        /\ UNCHANGED <<results, queued>> /\ at # "init" /\ at' # "init"
    BY <1>4, GetNextAddressDoes DEF GetNextAddress
  <2>5. CountedAddresses' = CountedAddresses
    BY <1>1, <2>4 DEF CountedAddresses
  <2>. HIDE DEF rest
  <2>. QED
    BY <1>1, <2>2, <2>3, <2>4, <2>5 DEF CountInv
<1>5. CASE NoMorePages
  <2>1. CountedAddresses' = CountedAddresses
    BY <1>1, <1>5 DEF NoMorePages, CountedAddresses
  <2>. QED
    BY <1>1, <1>5, <2>1 DEF NoMorePages, CountInv, Range
<1>6. CASE ParseRow
  <2>1. results' = results \/ Len(results') = Len(results) + 1
    <3>1. Head(page.rows) \in Url
      BY <1>6, HeadTailProperties DEF IInv, TypeOK, ParseRow, HasRow
    <3>. QED
      BY <1>6, <3>1, AppendProperties DEF ParseRow, AddNew, IInv, TypeOK
  <2>2. CountedAddresses \subseteq CountedAddresses'
    <3>1. 0 .. Len(results) \subseteq 0 .. Len(results')
      BY <1>1, <2>1
    <3>. QED
      BY <1>1, <3>1 DEF CountedAddresses
  <2>. QED
    BY <1>1, <1>6, <2>2 DEF ParseRow, CountInv
<1>7. CASE \/ UNCHANGED vars \/ NotOpened \/ LimitReached \/ GetPage \/ PageFails
           \/ Throw \/ CloseParse
  <2>1. /\ UNCHANGED <<pages, visited_pages, queued, results>>
        /\ at' = "init" => at = "init"
    BY <1>7 DEF vars, NotOpened, LimitReached, GetPage, PageFails, Throw, CloseParse
  <2>2. CountedAddresses' = CountedAddresses
    BY <1>1, <2>1 DEF CountedAddresses
  <2>. QED
    BY <1>1, <2>1, <2>2 DEF CountInv
<1>. QED
  BY <1>2, <1>3, <1>4, <1>5, <1>6, <1>7 DEF Next

\* What was fetched is among the queued, once each.
LEMMA CountedBound == IInv /\ CountInv => CountedPagesBringRows
<1>. SUFFICES ASSUME IInv, CountInv, eng.nextinput = "counted"
              PROVE  Len(fetched) <= MaxQueries + Len(results) + 1
  BY DEF CountedPagesBringRows
<1>1. PICK Q : /\ IsFiniteSet(Q) /\ Cardinality(Q) <= MaxQueries
               /\ queued \subseteq Q \cup CountedAddresses
  BY DEF CountInv
<1>2. /\ Len(results) \in Nat /\ Len(fetched) \in Nat
      /\ fetched \in [1 .. Len(fetched) -> Address]
  BY LenProperties DEF IInv, TypeOK
<1>3. /\ IsFiniteSet(CountedAddresses)
      /\ Cardinality(CountedAddresses) <= Len(results) + 1
  <2>. DEFINE f == [k \in 0 .. Len(results) |-> eng.counted[k]]
  <2>1. Range(f) = CountedAddresses
    BY DEF Range, CountedAddresses
  <2>2. f \in [0 .. Len(results) -> CountedAddresses]
    BY DEF CountedAddresses
  <2>3. IsFiniteSet(0 .. Len(results)) /\ Cardinality(0 .. Len(results)) = Len(results) + 1
    BY <1>2, FS_Interval
  <2>. HIDE DEF f
  <2>. QED
    BY <2>1, <2>2, <2>3, RangeSize
<1>4. /\ IsFiniteSet(Q \cup CountedAddresses)
      /\ Cardinality(Q \cup CountedAddresses) <= MaxQueries + Len(results) + 1
  <2>1. /\ IsFiniteSet(Q \cup CountedAddresses) /\ IsFiniteSet(Q \cap CountedAddresses)
        /\ Cardinality(Q \cup CountedAddresses) =
              Cardinality(Q) + Cardinality(CountedAddresses)
                - Cardinality(Q \cap CountedAddresses)
    BY <1>1, <1>3, FS_Union, FS_Intersection
  <2>2. /\ Cardinality(Q) \in Nat /\ Cardinality(CountedAddresses) \in Nat
        /\ Cardinality(Q \cap CountedAddresses) \in Nat
    BY <1>1, <1>3, <2>1, FS_CardinalityType
  <2>. QED
    BY <1>1, <1>2, <1>3, <2>1, <2>2, BoundsAssumption
<1>5. Range(fetched) \subseteq Q \cup CountedAddresses
  BY <1>1 DEF IInv, VisitInv, CountInv
<1>6. Cardinality(Range(fetched)) = Len(fetched)
  <2>1. IsFiniteSet(1 .. Len(fetched)) /\ Cardinality(1 .. Len(fetched)) = Len(fetched)
    <3>1. Len(fetched) \in Nat
      BY <1>2
    <3>. QED
      BY <3>1, CountTo
  <2>. QED
    BY <1>2, <2>1, RangeSize DEF IInv, VisitInv
<1>7. Cardinality(Range(fetched)) <= Cardinality(Q \cup CountedAddresses)
  BY <1>4, <1>5, FS_Subset
<1>8. Cardinality(Q \cup CountedAddresses) \in Nat
  BY <1>4, FS_CardinalityType
<1>. QED
  BY <1>2, <1>4, <1>6, <1>7, <1>8, BoundsAssumption

-----------------------------------------------------------------------------
(***************************************************************************)
(* The theorems.                                                           *)
(***************************************************************************)

\* The invariant is inductive.
THEOREM ParserInvariance == SafeSpec => []IInv
<1>1. IInv /\ [Next]_vars => IInv'
  BY TypeNext, FoundNext, VisitNext, QueueNext DEF IInv
<1>. QED
  BY InitIInv, <1>1, PTL DEF SafeSpec

\* The rows an engine gives to its search are those MetaSearch counts on,
\* however its parsing ended.
THEOREM ParserReturnsFindings == SafeSpec => []ReturnsFindings
<1>1. IInv => ReturnsFindings
  <2>. SUFFICES ASSUME IInv PROVE ReturnsFindings
    OBVIOUS
  <2>1. Len(results) \in 0 .. Limit /\ results \in [1 .. Len(results) -> Url]
    BY LenProperties, LimitAssumption DEF IInv, TypeOK, FoundInv
  <2>. QED
    BY <2>1 DEF IInv, FoundInv, ReturnsFindings, RowLists
<1>. QED
  BY ParserInvariance, <1>1, PTL

\* doParse asks for no page twice.
THEOREM ParserNoPageTwice == SafeSpec => []NoPageTwice
<1>1. IInv => NoPageTwice
  BY DEF IInv, VisitInv, NoPageTwice
<1>. QED
  BY ParserInvariance, <1>1, PTL

\* Without an error, and short of the limit, doParse stops when it has read every
\* page it was told of.
THEOREM ParserExhausts == SafeSpec => []StopsOnlyWhenExhausted
<1>1. IInv => StopsOnlyWhenExhausted
  BY DEF IInv, VisitInv, QueueInv, StopsOnlyWhenExhausted
<1>. QED
  BY ParserInvariance, <1>1, PTL

\* An engine with computed pages asks for one more page at most than it has found
\* rows, besides those of its queries: getNextAddress drops what was visited.
THEOREM ParserCountedPages == SafeSpec => []CountedPagesBringRows
<1>1. IInv /\ [Next]_vars => IInv'
  BY TypeNext, FoundNext, VisitNext, QueueNext DEF IInv
<1>. QED
  BY InitIInv, InitCount, <1>1, CountNext, CountedBound, PTL DEF SafeSpec
=============================================================================
