------------------------- MODULE QueryProcessProofs -------------------------
(***************************************************************************)
(* Theorems about QueryProcess: its safety, for buffers, bodies and        *)
(* answers of any size.                                                    *)
(***************************************************************************)
EXTENDS QueryProcess, Functions, SequenceTheorems, TLAPS

Byte == {"headers", "body", "answer", "refusal"} \X Nat

TypeInv ==
  /\ TypeOK
  /\ unsent \in Seq(Byte) /\ socket \in Seq(Byte) /\ received \in Seq(Byte)
  /\ {broken, remote_ready, local_ready, parsed, embedded, dontClose,
      remClosed, locClosed} \subseteq BOOLEAN
  /\ state.buffer \in Seq(Byte) /\ DOMAIN state = {"nread", "buffer", "count"}

\* The state of the callback lives as long as the flags of the connection say: from
\* the first call that was not refused to the call that ends, or to disconnect.
ControlInv ==
  /\ memory # "misused"
  /\ memory # "null" => Accepted
  /\ at # "gone" => /\ memory = "live" <=> embedded /\ dontClose
                    /\ memory = "freed" => ~embedded
  /\ at = "gone" => memory # "live"
  /\ IF parsed THEN embedded <=> ~locClosed
     ELSE memory = "null" /\ ~embedded /\ ~dontClose /\ ~locClosed
  /\ at \in {"remote", "parse", "local"} /\ local_ready => embedded

\* Where the bytes of the request are, in order, until the handler has run; then
\* all have been read, and the handler does not run again.
InputInv ==
  /\ memory = "null" => state = EmptyState /\ handled = <<>>
  /\ ~parsed => /\ rem.data \o (socket \o unsent) = Headers \o Body
                /\ rem.total = Len(rem.data)
  /\ parsed => rem.total + (Len(socket) + Len(unsent)) = req.cl
  /\ parsed /\ handled = <<>> =>
       /\ state.buffer \o (rem.data \o (socket \o unsent)) = Body
       /\ state.nread = Len(state.buffer) /\ state.count = 0
  /\ handled # <<>> =>
       /\ handled = <<Body>> /\ state.buffer = Answer /\ state.nread = req.cl
       /\ rem.data = <<>> /\ socket = <<>> /\ unsent = <<>>
       /\ memory = "live" => state.count > 0

\* What has gone to the client or waits for it is what the answer has got to.
OutputInv ==
  /\ loc.data = <<>> => loc.head = 0
  /\ handled = <<>> =>
       received \o loc.data = IF locClosed THEN Bytes("refusal", 1) ELSE <<>>
  /\ handled # <<>> =>
       /\ received \o loc.data = SubSeq(Answer, 1, state.count)
       /\ locClosed => state.count = req.answer

\* Only a client that breaks the connection closes its stream.
CloseInv ==
  /\ remClosed => broken
  /\ at = "remote" /\ remote_ready => SpaceLen(rem) > 0 /\ (socket # <<>> \/ broken)
  /\ at = "gone" => broken \/ (locClosed /\ loc.data = <<>>)

IInv == TypeInv /\ ControlInv /\ InputInv /\ OutputInv /\ CloseInv

-----------------------------------------------------------------------------
(***************************************************************************)
(* Facts about bytes and buffers.                                          *)
(***************************************************************************)

\* A sequence is its first elements, then the others.
LEMMA FirstAndRest ==
  ASSUME NEW S, NEW s \in Seq(S), NEW n \in 0 .. Len(s)
  PROVE  /\ SubSeq(s, 1, n) \in Seq(S) /\ Len(SubSeq(s, 1, n)) = n
         /\ SubSeq(s, n + 1, Len(s)) \in Seq(S)
         /\ Len(SubSeq(s, n + 1, Len(s))) = Len(s) - n
         /\ SubSeq(s, 1, n) \o SubSeq(s, n + 1, Len(s)) = s
<1>1. Len(s) \in Nat /\ n \in Int
  BY LenProperties
<1>2. \A i \in 1 .. Len(s) : s[i] \in S
  BY ElementOfSeq
<1>3. SubSeq(s, 1, n) \in Seq(S) /\ Len(SubSeq(s, 1, n)) = n
  <2>1. \A i \in 1 .. n : s[i] \in S
    BY <1>1, <1>2
  <2>2. SubSeq(s, 1, n) \in Seq(S) /\ Len(SubSeq(s, 1, n)) = IF 1 <= n THEN n - 1 + 1 ELSE 0
    BY <1>1, <2>1, SubSeqProperties
  <2>. QED
    BY <1>1, <2>2
<1>4. /\ SubSeq(s, n + 1, Len(s)) \in Seq(S)
      /\ Len(SubSeq(s, n + 1, Len(s))) = Len(s) - n
  <2>1. \A i \in n + 1 .. Len(s) : s[i] \in S
    BY <1>1, <1>2
  <2>2. /\ SubSeq(s, n + 1, Len(s)) \in Seq(S)
        /\ Len(SubSeq(s, n + 1, Len(s))) =
             IF n + 1 <= Len(s) THEN Len(s) - (n + 1) + 1 ELSE 0
    BY <1>1, <2>1, SubSeqProperties
  <2>. QED
    BY <1>1, <2>2
<1>5. SubSeq(s, 1, n) \o SubSeq(s, n + 1, Len(s)) = SubSeq(s, 1, Len(s))
  <2>1. 1 \in 1 .. Len(s) + 1 /\ n \in 1 - 1 .. Len(s) /\ Len(s) \in n .. Len(s)
    BY <1>1
  <2>. QED
    BY <2>1, ConcatAdjacentSubSeq
<1>6. SubSeq(s, 1, Len(s)) = s
  BY SubSeqFull
<1>. QED
  BY <1>3, <1>4, <1>5, <1>6

\* FirstBytes takes as many elements as there are, up to n.
LEMMA FirstBytesTaken ==
  ASSUME NEW S, NEW s \in Seq(S), NEW n \in Nat
  PROVE  /\ FirstBytes(s, n) \in Seq(S)
         /\ Len(FirstBytes(s, n)) = IF n < Len(s) THEN n ELSE Len(s)
         /\ Len(FirstBytes(s, n)) \in 0 .. Len(s)
         /\ FirstBytes(s, n) = SubSeq(s, 1, Len(FirstBytes(s, n)))
         /\ Len(s) <= n => FirstBytes(s, n) = s
<1>. DEFINE k == IF n < Len(s) THEN n ELSE Len(s)
<1>1. Len(s) \in Nat /\ k \in 0 .. Len(s)
  BY LenProperties
<1>2. FirstBytes(s, n) = SubSeq(s, 1, k)
  BY DEF FirstBytes
<1>3. SubSeq(s, 1, k) \in Seq(S) /\ Len(SubSeq(s, 1, k)) = k
  BY <1>1, FirstAndRest
<1>4. SubSeq(s, 1, Len(s)) = s
  BY SubSeqFull
<1>5. Len(s) <= n => k = Len(s)
  BY <1>1
<1>. QED
  BY <1>1, <1>2, <1>3, <1>4, <1>5

\* Numbered bytes are bytes.
LEMMA BytesNumbered ==
  ASSUME NEW kind \in {"headers", "body", "answer", "refusal"}, NEW n \in Nat
  PROVE  Bytes(kind, n) \in Seq(Byte) /\ Len(Bytes(kind, n)) = n
BY DEF Bytes, Byte

\* What io_inc_head makes of a buffer.
LEMMA FilledBuffer ==
  ASSUME NEW io \in Io, Len(io.data) <= io.head,
         NEW bytes \in Seq(Byte), Len(bytes) <= SpaceLen(io)
  PROVE  /\ Filled(io, bytes) \in Io
         /\ Len(Filled(io, bytes).data) <= Filled(io, bytes).head
         /\ Filled(io, bytes).data = io.data \o bytes
         /\ Filled(io, bytes).head = io.head + Len(bytes)
         /\ Filled(io, bytes).total = io.total + Len(bytes)
<1>1. /\ io.data \in Seq(Byte) /\ io.head \in 0 .. BufferSize /\ io.total \in Nat
      /\ Len(io.data) \in Nat /\ Len(bytes) \in Nat /\ BufferSize \in Nat
  BY LenProperties, SizesAssumption DEF Io, Byte
<1>2. /\ io.data \o bytes \in Seq(Byte)
      /\ Len(io.data \o bytes) = Len(io.data) + Len(bytes)
  BY <1>1, ConcatProperties
<1>3. io.head + Len(bytes) \in 0 .. BufferSize /\ io.total + Len(bytes) \in Nat
  BY <1>1 DEF SpaceLen
<1>. QED
  BY <1>1, <1>2, <1>3 DEF Filled, Io, Byte

\* What io_inc_tail makes of it.
LEMMA DrainedBuffer ==
  ASSUME NEW io \in Io, Len(io.data) <= io.head, NEW n \in 0 .. Len(io.data)
  PROVE  /\ Drained(io, n) \in Io
         /\ Len(Drained(io, n).data) <= Drained(io, n).head
         /\ Drained(io, n).data = SubSeq(io.data, n + 1, Len(io.data))
         /\ Drained(io, n).head = IF n = Len(io.data) THEN 0 ELSE io.head
         /\ Drained(io, n).total = io.total
         /\ n = 0 => Drained(io, n).data = io.data
         /\ n = Len(io.data) => Drained(io, n).data = <<>>
         /\ Len(Drained(io, n).data) = Len(io.data) - n
<1>1. /\ io.data \in Seq(Byte) /\ io.head \in 0 .. BufferSize /\ io.total \in Nat
      /\ Len(io.data) \in Nat /\ BufferSize \in Nat
  BY LenProperties, SizesAssumption DEF Io, Byte
<1>2. /\ SubSeq(io.data, n + 1, Len(io.data)) \in Seq(Byte)
      /\ Len(SubSeq(io.data, n + 1, Len(io.data))) = Len(io.data) - n
  BY <1>1, FirstAndRest
<1>. DEFINE d == SubSeq(io.data, n + 1, Len(io.data))
            h == IF n = Len(io.data) THEN 0 ELSE io.head
<1>3. Drained(io, n) = [io EXCEPT !.data = d, !.head = h]
  BY DEF Drained
<1>4. d \in Seq(Byte) /\ h \in 0 .. BufferSize /\ Len(d) = Len(io.data) - n
  BY <1>1, <1>2
<1>5. Len(d) <= h
  BY <1>1, <1>4
<1>. HIDE DEF d, h
<1>6. /\ Drained(io, n) \in Io
      /\ Drained(io, n).data = d /\ Drained(io, n).head = h
      /\ Drained(io, n).total = io.total
  BY <1>1, <1>3, <1>4 DEF Io, Byte
<1>7. n = 0 => SubSeq(io.data, n + 1, Len(io.data)) = io.data
  BY <1>1, SubSeqFull
<1>8. n = Len(io.data) => SubSeq(io.data, n + 1, Len(io.data)) = <<>>
  BY <1>1, SubSeqEmpty
<1>. QED
  BY <1>7, <1>8, <1>4, <1>5, <1>6 DEF d, h

\* The texts of a request, and their lengths.
LEMMA Texts ==
  ASSUME req \in Requests
  PROVE  /\ req.cl \in Nat /\ req.answer \in Nat
         /\ BufferSize \in Nat /\ BufferSize > 0
         /\ Headers \in Seq(Byte) /\ Len(Headers) = 1
         /\ Body \in Seq(Byte) /\ Len(Body) = req.cl
         /\ Answer \in Seq(Byte) /\ Len(Answer) = req.answer
         /\ Bytes("refusal", 1) \in Seq(Byte) /\ Len(Bytes("refusal", 1)) = 1
<1>1. req.cl \in 0 .. MaxBody /\ req.answer \in 0 .. MaxAnswer
  BY DEF Requests
<1>2. /\ req.cl \in Nat /\ req.answer \in Nat
      /\ BufferSize \in Nat /\ BufferSize > 0
  BY <1>1, SizesAssumption
<1>. QED
  BY <1>2, BytesNumbered, Zenon DEF Headers, Body, Answer

\* What the type invariant says of the buffers.
LEMMA Buffers ==
  ASSUME TypeInv
  PROVE  /\ rem \in Io /\ Len(rem.data) <= rem.head /\ rem.data \in Seq(Byte)
         /\ Len(rem.data) \in Nat /\ rem.total \in Nat
         /\ loc \in Io /\ Len(loc.data) <= loc.head /\ loc.data \in Seq(Byte)
         /\ Len(loc.data) \in Nat
         /\ SpaceLen(rem) \in Nat /\ SpaceLen(loc) \in Nat
         /\ unsent \in Seq(Byte) /\ Len(unsent) \in Nat
         /\ socket \in Seq(Byte) /\ Len(socket) \in Nat
         /\ received \in Seq(Byte)
         /\ state.buffer \in Seq(Byte) /\ Len(state.buffer) \in Nat
         /\ state.nread \in Nat /\ state.count \in 0 .. Len(state.buffer)
<1>1. /\ rem \in Io /\ Len(rem.data) <= rem.head /\ rem.data \in Seq(Byte)
      /\ rem.head \in 0 .. BufferSize /\ rem.total \in Nat
      /\ loc \in Io /\ Len(loc.data) <= loc.head /\ loc.data \in Seq(Byte)
      /\ loc.head \in 0 .. BufferSize
  BY DEF TypeInv, TypeOK, Io, Byte
<1>2. SpaceLen(rem) \in Nat /\ SpaceLen(loc) \in Nat
  BY <1>1, SizesAssumption DEF SpaceLen
<1>3. /\ unsent \in Seq(Byte) /\ socket \in Seq(Byte) /\ received \in Seq(Byte)
      /\ state.buffer \in Seq(Byte)
      /\ state.nread \in Nat /\ state.count \in 0 .. Len(state.buffer)
  BY DEF TypeInv, TypeOK
<1>. QED
  BY <1>1, <1>2, <1>3, LenProperties

\* Sequences of bytes can be grouped either way.
LEMMA Regroup == \A s, t, u \in Seq(Byte) : (s \o t) \o u = s \o (t \o u)
BY ConcatAssociative

LEMMA Joined == \A s, t \in Seq(Byte) : s \o t \in Seq(Byte) /\ Len(s \o t) = Len(s) + Len(t)
BY ConcatProperties

\* A sequence that is not empty is its first byte and the others.
LEMMA FirstApart ==
  ASSUME NEW s \in Seq(Byte), s # <<>>, NEW t \in Seq(Byte)
  PROVE  LET a == SubSeq(s, 1, 1)
             b == SubSeq(s, 2, Len(s))
         IN  a \in Seq(Byte) /\ Len(a) = 1 /\ b \in Seq(Byte) /\ s \o t = a \o (b \o t)
<1>. DEFINE a == SubSeq(s, 1, 1)
            b == SubSeq(s, 2, Len(s))
<1>1. Len(s) \in Nat /\ Len(s) >= 1
  BY EmptySeq, LenProperties
<1>2. a \in Seq(Byte) /\ Len(a) = 1 /\ b \in Seq(Byte) /\ a \o b = s
  BY <1>1, FirstAndRest
<1>. HIDE DEF a, b
<1>3. (a \o b) \o t = a \o (b \o t)
  <2>1. a \in Seq(Byte) /\ b \in Seq(Byte)
    BY <1>2
  <2>. QED
    BY <2>1, Regroup, Zenon
<1>4. s \o t = a \o (b \o t)
  BY <1>2, <1>3, Zenon
<1>. QED
  BY <1>2, <1>4 DEF a, b

\* One byte before a sequence is the first of both.
LEMMA FirstOfBoth ==
  ASSUME NEW c \in Seq(Byte), NEW d \in Seq(Byte), Len(c) = 1
  PROVE  (c \o d)[1] = c[1]
<1>1. \A i \in 1 .. Len(c) + Len(d) : (c \o d)[i] = IF i <= Len(c) THEN c[i]
                                                  ELSE d[i - Len(c)]
  BY ConcatProperties
<1>2. 1 \in 1 .. Len(c) + Len(d)
  BY LenProperties
<1>. QED
  BY <1>1, <1>2

\* One byte may be taken from the left of both sides.
LEMMA OneTaken ==
  ASSUME NEW a \in Seq(Byte), NEW x \in Seq(Byte), NEW u \in Seq(Byte), NEW v \in Seq(Byte),
         Len(a) = 1, Len(u) = 1
  PROVE  a \o x = u \o v => x = v
<1>1. (a \o x)[1] = a[1] /\ (u \o v)[1] = u[1]
  BY FirstOfBoth
<1>2. \A y, z \in Seq(Byte) : u \o y = u \o z => y = z
  BY ConcatSimplifications
<1>3. a[1] = u[1] => a = u
  <2>. SUFFICES ASSUME a[1] = u[1] PROVE a = u
    OBVIOUS
  <2>1. \A i \in 1 .. Len(a) : a[i] = u[i]
    OBVIOUS
  <2>. QED
    BY <2>1, SeqEqual
<1>. QED
  BY <1>1, <1>2, <1>3, Zenon

\* A first byte may be taken from both sides.
LEMMA FirstTaken ==
  ASSUME NEW s \in Seq(Byte), s # <<>>, NEW t \in Seq(Byte), NEW u \in Seq(Byte),
         NEW v \in Seq(Byte), Len(u) = 1, s \o t = u \o v
  PROVE  SubSeq(s, 2, Len(s)) \o t = v
<1>. DEFINE a == SubSeq(s, 1, 1)
            b == SubSeq(s, 2, Len(s))
<1>1. a \in Seq(Byte) /\ Len(a) = 1 /\ b \in Seq(Byte) /\ s \o t = a \o (b \o t)
  BY FirstApart
<1>. HIDE DEF a, b
<1>2. b \o t \in Seq(Byte)
  BY <1>1, Joined, Zenon
<1>3. a \o (b \o t) = u \o v => b \o t = v
  BY <1>1, <1>2, OneTaken
<1>. QED
  BY <1>1, <1>3, Zenon DEF b

-----------------------------------------------------------------------------
LEMMA InitIInv == Init => IInv
<1>. SUFFICES ASSUME Init PROVE IInv
  OBVIOUS
<1>. USE DEF Init, EmptyState, EmptyIo
<1>1. req \in Requests /\ <<>> \in Seq(Byte) /\ Len(<<>>) = 0
  BY EmptySeq
<1>2. Headers \o Body \in Seq(Byte)
  BY <1>1, Texts, ConcatProperties
<1>3. TypeInv
  <2>1. EmptyIo \in Io
    BY <1>1, SizesAssumption DEF Io, Byte
  <2>2. TypeOK
    BY <1>1, <2>1 DEF TypeOK
  <2>. QED
    BY <1>1, <1>2, <2>2 DEF TypeInv
<1>4. ControlInv
  BY DEF ControlInv
<1>5. InputInv
  BY <1>1, <1>2, ConcatEmptySeq DEF InputInv
<1>6. OutputInv
  BY <1>1, ConcatEmptySeq DEF OutputInv
<1>7. CloseInv
  BY DEF CloseInv
<1>. QED
  BY <1>3, <1>4, <1>5, <1>6, <1>7 DEF IInv

-----------------------------------------------------------------------------
(***************************************************************************)
(* The client, and what the server does without the callback.              *)
(***************************************************************************)

\* The request is the same in every step, and so are its texts.
LEMMA SameRequest ==
  ASSUME req' = req
  PROVE  /\ Headers' = Headers /\ Body' = Body /\ Answer' = Answer
         /\ Accepted' = Accepted
BY DEF Headers, Body, Answer, Accepted

LEMMA SendKeeps ==
  ASSUME IInv, NEW n \in 1 .. MaxBody + 1, Send(n)
  PROVE  IInv'
<1>1. req \in Requests /\ req' = req /\ TypeInv
  BY DEF IInv, TypeInv, TypeOK, Send
<1>2. n \in 1 .. Len(unsent) /\ n \in Nat
  BY DEF Send
<1>. DEFINE first == FirstBytes(unsent, n)
            rest == SubSeq(unsent, n + 1, Len(unsent))
<1>3. first = SubSeq(unsent, 1, n)
  BY <1>1, <1>2, FirstBytesTaken, Buffers DEF FirstBytes
<1>4. /\ first \in Seq(Byte) /\ rest \in Seq(Byte) /\ first \o rest = unsent
      /\ Len(first) = n /\ Len(rest) = Len(unsent) - n
  <2>1. unsent \in Seq(Byte)
    BY <1>1, Buffers
  <2>2. n \in 0 .. Len(unsent)
    BY <1>2
  <2>3. /\ SubSeq(unsent, 1, n) \in Seq(Byte) /\ Len(SubSeq(unsent, 1, n)) = n
        /\ rest \in Seq(Byte) /\ Len(rest) = Len(unsent) - n
        /\ SubSeq(unsent, 1, n) \o rest = unsent
    BY <2>1, <2>2, FirstAndRest
  <2>. QED
    BY <1>3, <2>3
<1>5. socket' = socket \o first /\ unsent' = rest
  BY DEF Send
<1>. HIDE DEF first, rest
<1>6. /\ socket' \in Seq(Byte) /\ Len(socket') = Len(socket) + n
      /\ socket' \o unsent' = socket \o unsent
  <2>1. socket \in Seq(Byte)
    BY <1>1, Buffers
  <2>2. (socket \o first) \o rest = socket \o (first \o rest)
    BY <1>4, <2>1, Regroup, Zenon
  <2>3. socket' \in Seq(Byte) /\ Len(socket') = Len(socket) + Len(first)
    BY <1>4, <1>5, <2>1, Joined, Zenon
  <2>. QED
    BY <1>4, <1>5, <2>2, <2>3, Zenon
<1>7. Len(socket') + Len(unsent') = Len(socket) + Len(unsent)
  <2>1. Len(socket) \in Nat /\ Len(unsent) \in Nat
    BY <1>1, Buffers
  <2>2. Len(unsent') = Len(unsent) - n /\ Len(socket') = Len(socket) + n
    BY <1>4, <1>5, <1>6, Zenon
  <2>. QED
    BY <1>2, <2>1, <2>2
<1>8. unsent # <<>>
  BY <1>1, <1>2, Buffers, EmptySeq
<1>. USE DEF streams
<1>9. UNCHANGED <<req, broken, at, remote_ready, local_ready, received, rem, loc, parsed,
                  embedded, dontClose, remClosed, locClosed, state, memory, handled>>
  BY DEF Send
<1>10. TypeInv'
  BY <1>1, <1>4, <1>5, <1>6, <1>9 DEF TypeInv, TypeOK
<1>11. ControlInv'
  BY <1>1, <1>9, SameRequest DEF IInv, ControlInv
<1>12. InputInv'
  BY <1>1, <1>6, <1>7, <1>8, <1>9, SameRequest DEF IInv, InputInv
<1>13. OutputInv'
  BY <1>1, <1>9, SameRequest DEF IInv, OutputInv
<1>14. CloseInv'
  <2>1. socket # <<>> => socket' # <<>>
    BY <1>1, <1>2, <1>6, Buffers, EmptySeq
  <2>. QED
    BY <1>9, <2>1 DEF IInv, CloseInv, SpaceLen
<1>. QED
  BY <1>10, <1>11, <1>12, <1>13, <1>14 DEF IInv

LEMMA BreakKeeps ==
  ASSUME IInv, Break
  PROVE  IInv'
<1>. USE DEF streams, Break
<1>1. TypeInv'
  BY DEF IInv, TypeInv, TypeOK
<1>2. ControlInv'
  BY SameRequest DEF IInv, ControlInv
<1>3. InputInv'
  BY SameRequest DEF IInv, InputInv
<1>4. OutputInv'
  BY SameRequest DEF IInv, OutputInv
<1>5. CloseInv'
  BY DEF IInv, CloseInv, SpaceLen
<1>. QED
  BY <1>1, <1>2, <1>3, <1>4, <1>5 DEF IInv

LEMMA StutterKeeps ==
  ASSUME IInv, UNCHANGED vars
  PROVE  IInv'
<1>. USE DEF vars
<1>1. TypeInv'
  BY DEF IInv, TypeInv, TypeOK
<1>2. ControlInv'
  BY SameRequest DEF IInv, ControlInv
<1>3. InputInv'
  BY SameRequest DEF IInv, InputInv
<1>4. OutputInv'
  BY SameRequest DEF IInv, OutputInv
<1>5. CloseInv'
  BY DEF IInv, CloseInv, SpaceLen
<1>. QED
  BY <1>1, <1>2, <1>3, <1>4, <1>5 DEF IInv

LEMMA PollKeeps ==
  ASSUME IInv, Poll
  PROVE  IInv'
<1>. USE DEF streams, Poll
<1>1. TypeInv'
  BY DEF IInv, TypeInv, TypeOK
<1>2. ControlInv'
  BY SameRequest DEF IInv, ControlInv, TypeInv, TypeOK
<1>3. InputInv'
  BY SameRequest DEF IInv, InputInv
<1>4. OutputInv'
  BY SameRequest DEF IInv, OutputInv
<1>5. CloseInv'
  BY DEF IInv, CloseInv, SpaceLen
<1>. QED
  BY <1>1, <1>2, <1>3, <1>4, <1>5 DEF IInv

LEMMA CheckKeeps ==
  ASSUME IInv, Check
  PROVE  IInv'
<1>. USE DEF Check
<1>1. memory \in {"null", "live", "freed"} /\ at # "gone" /\ at' # "remote"
  BY DEF IInv, ControlInv, TypeInv, TypeOK
<1>2. TypeInv'
  BY <1>1 DEF IInv, TypeInv, TypeOK, CloseEmbedded, Deleted
<1>3. ControlInv'
  BY <1>1, SameRequest DEF IInv, ControlInv, CloseEmbedded, Deleted, TypeInv
<1>4. InputInv'
  BY <1>1, SameRequest DEF IInv, InputInv, ControlInv, CloseEmbedded, Deleted
<1>5. OutputInv'
  BY SameRequest DEF IInv, OutputInv
<1>6. CloseInv'
  BY <1>1 DEF IInv, CloseInv, SpaceLen, Closes
<1>. QED
  BY <1>2, <1>3, <1>4, <1>5, <1>6 DEF IInv

LEMMA ReadRemoteKeeps ==
  ASSUME IInv, ReadRemote
  PROVE  IInv'
<1>1. req \in Requests /\ req' = req /\ TypeInv /\ at = "remote" /\ at' = "parse"
  BY DEF IInv, TypeInv, TypeOK, ReadRemote
<1>2. UNCHANGED <<unsent, broken, remote_ready, local_ready, loc, parsed, embedded,
                  dontClose, locClosed, state, memory, received, handled>>
  BY DEF ReadRemote
<1>3. ControlInv'
  BY <1>1, <1>2, SameRequest DEF IInv, ControlInv
<1>4. OutputInv'
  BY <1>1, <1>2, SameRequest DEF IInv, OutputInv
<1>5. CASE ~remote_ready
  <2>1. UNCHANGED <<rem, socket, remClosed>>
    BY <1>5 DEF ReadRemote
  <2>2. TypeInv'
    BY <1>1, <1>2, <2>1 DEF TypeInv, TypeOK
  <2>3. InputInv'
    BY <1>1, <1>2, <2>1, SameRequest DEF IInv, InputInv
  <2>4. CloseInv'
    BY <1>1, <1>2, <2>1 DEF IInv, CloseInv
  <2>. QED
    BY <1>3, <1>4, <2>2, <2>3, <2>4 DEF IInv
<1>6. CASE remote_ready
  <2>. DEFINE limit == IF parsed /\ req.cl > 0 THEN req.cl - rem.total ELSE SpaceLen(rem)
              k == IF limit < SpaceLen(rem) THEN limit ELSE SpaceLen(rem)
              bytes == FirstBytes(socket, k)
              rest == SubSeq(socket, Len(bytes) + 1, Len(socket))
  <2>1. rem' = Filled(rem, bytes) /\ socket' = rest /\ remClosed' = (remClosed \/ bytes = <<>>)
    BY <1>6 DEF ReadRemote
  <2>2. /\ req.cl \in Nat /\ rem.total \in Nat /\ SpaceLen(rem) \in Nat
        /\ Len(socket) \in Nat /\ Len(unsent) \in Nat /\ Len(rem.data) \in Nat
        /\ socket \in Seq(Byte) /\ unsent \in Seq(Byte) /\ rem.data \in Seq(Byte)
        /\ rem \in Io /\ Len(rem.data) <= rem.head
    BY <1>1, Texts, Buffers
  <2>3. parsed => rem.total + (Len(socket) + Len(unsent)) = req.cl
    BY DEF IInv, InputInv
  <2>4. k \in Nat /\ k <= SpaceLen(rem)
    BY <2>2, <2>3
  <2>5. k = 0 => SpaceLen(rem) = 0 \/ Len(socket) = 0
    BY <2>2, <2>3
  <2>. HIDE DEF limit, k
  <2>6. /\ bytes \in Seq(Byte) /\ Len(bytes) \in 0 .. Len(socket)
        /\ Len(bytes) = IF k < Len(socket) THEN k ELSE Len(socket)
        /\ bytes = SubSeq(socket, 1, Len(bytes))
    BY <2>2, <2>4, FirstBytesTaken
  <2>. HIDE DEF bytes
  <2>7. /\ rest \in Seq(Byte) /\ Len(rest) = Len(socket) - Len(bytes)
        /\ bytes \o rest = socket
    BY <2>2, <2>6, FirstAndRest
  <2>. HIDE DEF rest
  <2>8. Len(bytes) <= SpaceLen(rem)
    BY <2>2, <2>4, <2>6
  <2>9. /\ rem' \in Io /\ Len(rem'.data) <= rem'.head
        /\ rem'.data = rem.data \o bytes /\ rem'.total = rem.total + Len(bytes)
    BY <2>1, <2>2, <2>6, <2>8, FilledBuffer
  <2>10. rem'.data \o (socket' \o unsent') = rem.data \o (socket \o unsent)
    <3>1. rest \o unsent \in Seq(Byte)
      BY <2>2, <2>7, Joined, Zenon
    <3>2. (rem.data \o bytes) \o (rest \o unsent) = rem.data \o (bytes \o (rest \o unsent))
      BY <2>2, <2>6, <3>1, Regroup, Zenon
    <3>3. (bytes \o rest) \o unsent = bytes \o (rest \o unsent)
      <4>1. bytes \in Seq(Byte) /\ rest \in Seq(Byte) /\ unsent \in Seq(Byte)
        BY <2>2, <2>6, <2>7
      <4>. QED
        BY <4>1, Regroup, Zenon
    <3>. QED
      BY <1>2, <2>1, <2>7, <2>9, <3>2, <3>3, Zenon
  <2>11. Len(rem'.data) = Len(rem.data) + Len(bytes)
    BY <2>2, <2>6, <2>9, Joined, Zenon
  <2>12. Len(bytes) \in Nat /\ Len(socket') = Len(socket) - Len(bytes)
    BY <2>1, <2>2, <2>6, <2>7
  <2>13. bytes = <<>> => broken
    <3>. SUFFICES ASSUME bytes = <<>> PROVE broken
      OBVIOUS
    <3>1. Len(bytes) = 0
      BY EmptySeq
    <3>2. SpaceLen(rem) > 0 /\ (socket # <<>> \/ broken)
      BY <1>1, <1>6 DEF IInv, CloseInv
    <3>3. Len(socket) = 0
      BY <2>2, <2>4, <2>5, <2>6, <3>1, <3>2
    <3>4. socket = <<>>
      BY <2>2, <3>3, EmptySeq
    <3>. QED
      BY <3>2, <3>4
  <2>14. TypeInv'
    BY <1>1, <1>2, <2>1, <2>7, <2>9 DEF TypeInv, TypeOK
  <2>15. InputInv'
    <3>1. memory' = "null" => state' = EmptyState /\ handled' = <<>>
      BY <1>2 DEF IInv, InputInv
    <3>2. ~parsed' => /\ rem'.data \o (socket' \o unsent') = Headers' \o Body'
                      /\ rem'.total = Len(rem'.data)
      BY <1>1, <1>2, <2>9, <2>10, <2>11, SameRequest DEF IInv, InputInv
    <3>3. parsed' => rem'.total + (Len(socket') + Len(unsent')) = req'.cl
      BY <1>1, <1>2, <2>2, <2>3, <2>9, <2>12
    <3>4. parsed' /\ handled' = <<>> =>
            /\ state'.buffer \o (rem'.data \o (socket' \o unsent')) = Body'
            /\ state'.nread = Len(state'.buffer) /\ state'.count = 0
      BY <1>1, <1>2, <2>10, SameRequest DEF IInv, InputInv
    <3>5. handled' # <<>> =>
            /\ handled' = <<Body'>> /\ state'.buffer = Answer' /\ state'.nread = req'.cl
            /\ rem'.data = <<>> /\ socket' = <<>> /\ unsent' = <<>>
            /\ memory' = "live" => state'.count > 0
      <4>. SUFFICES ASSUME handled # <<>>
                    PROVE  /\ handled' = <<Body'>> /\ state'.buffer = Answer'
                           /\ state'.nread = req'.cl
                           /\ rem'.data = <<>> /\ socket' = <<>> /\ unsent' = <<>>
                           /\ memory' = "live" => state'.count > 0
        BY <1>2
      <4>1. rem.data = <<>> /\ socket = <<>> /\ unsent = <<>>
        BY DEF IInv, InputInv
      <4>2. Len(rem.data) = 0 /\ Len(socket) = 0
        BY <4>1, EmptySeq
      <4>3. Len(rem'.data) = 0 /\ Len(socket') = 0
        BY <2>6, <2>11, <2>12, <4>2
      <4>4. rem'.data = <<>> /\ socket' = <<>>
        <5>1. rem'.data \in Seq(Byte) /\ socket' \in Seq(Byte)
          BY <2>1, <2>7, <2>9 DEF Io, Byte
        <5>. QED
          BY <4>3, <5>1, EmptySeq
      <4>. QED
        BY <1>1, <1>2, <4>1, <4>4, SameRequest DEF IInv, InputInv
    <3>. QED
      BY <3>1, <3>2, <3>3, <3>4, <3>5 DEF InputInv
  <2>16. CloseInv'
    BY <1>1, <1>2, <2>1, <2>13 DEF IInv, CloseInv
  <2>. QED
    BY <1>3, <1>4, <2>14, <2>15, <2>16 DEF IInv
<1>. QED
  BY <1>5, <1>6

LEMMA ParseKeeps ==
  ASSUME IInv, Parse
  PROVE  IInv'
<1>1. req \in Requests /\ req' = req /\ TypeInv /\ at = "parse" /\ at' = "local"
  BY DEF IInv, TypeInv, TypeOK, Parse
<1>2. UNCHANGED <<unsent, socket, broken, remote_ready, local_ready, loc, dontClose,
                  remClosed, locClosed, state, memory, received, handled>>
  BY DEF Parse
<1>3. OutputInv'
  BY <1>1, <1>2, SameRequest DEF IInv, OutputInv
<1>4. CloseInv'
  BY <1>1, <1>2 DEF IInv, CloseInv
<1>5. CASE ~(~parsed /\ rem.data # <<>>)
  <2>1. UNCHANGED <<rem, parsed, embedded>>
    BY <1>5 DEF Parse
  <2>2. TypeInv'
    BY <1>1, <1>2, <2>1 DEF TypeInv, TypeOK
  <2>3. ControlInv'
    BY <1>1, <1>2, <2>1, SameRequest DEF IInv, ControlInv
  <2>4. InputInv'
    BY <1>1, <1>2, <2>1, SameRequest DEF IInv, InputInv
  <2>. QED
    BY <1>3, <1>4, <2>2, <2>3, <2>4 DEF IInv
<1>6. CASE ~parsed /\ rem.data # <<>>
  <2>. DEFINE io == Drained(rem, 1)
  <2>1. rem' = [io EXCEPT !.total = @ - 1] /\ parsed' = TRUE /\ embedded' = TRUE
    BY <1>6 DEF Parse
  <2>2. /\ rem.data \in Seq(Byte) /\ socket \in Seq(Byte) /\ unsent \in Seq(Byte)
        /\ Len(rem.data) \in Nat /\ Len(socket) \in Nat /\ Len(unsent) \in Nat
        /\ rem \in Io /\ Len(rem.data) <= rem.head /\ rem.total \in Nat
    BY <1>1, Buffers
  <2>3. Len(rem.data) >= 1
    BY <1>6, <2>2, EmptySeq
  <2>4. /\ io \in Io /\ Len(io.data) <= io.head
        /\ io.data = SubSeq(rem.data, 2, Len(rem.data)) /\ io.total = rem.total
        /\ Len(io.data) = Len(rem.data) - 1
    <3>1. 1 \in 0 .. Len(rem.data) /\ 1 + 1 = 2
      BY <2>2, <2>3
    <3>. QED
      BY <2>2, <3>1, DrainedBuffer
  <2>. HIDE DEF io
  <2>5. /\ memory = "null" /\ state = EmptyState /\ handled = <<>>
        /\ ~locClosed /\ ~embedded /\ ~dontClose
        /\ rem.total = Len(rem.data)
        /\ rem.data \o (socket \o unsent) = Headers \o Body
    BY <1>1, <1>6 DEF IInv, InputInv, ControlInv, TypeInv
  <2>6. /\ rem' \in Io /\ Len(rem'.data) <= rem'.head
        /\ rem'.data = io.data /\ rem'.total = rem.total - 1
    <3>1. rem.total - 1 \in Nat
      BY <2>2, <2>3, <2>5
    <3>2. rem'.data = io.data /\ rem'.head = io.head /\ rem'.total = io.total - 1
      BY <2>1, <2>4 DEF Io
    <3>3. rem' \in Io
      BY <2>1, <2>4, <3>1 DEF Io
    <3>. QED
      BY <2>4, <3>2, <3>3
  <2>7. rem'.data \o (socket' \o unsent') = Body
    <3>1. socket \o unsent \in Seq(Byte)
      BY <2>2, Joined, Zenon
    <3>2. SubSeq(rem.data, 2, Len(rem.data)) \o (socket \o unsent) = Body
      <4>1. /\ Headers \in Seq(Byte) /\ Len(Headers) = 1 /\ Body \in Seq(Byte)
            /\ rem.data # <<>>
        BY <1>1, <1>6, Texts
      <4>. QED
        BY <2>2, <2>5, <3>1, <4>1, FirstTaken, Zenon
    <3>. QED
      BY <1>2, <2>4, <2>6, <3>2, Zenon
  <2>8. rem'.total + (Len(socket') + Len(unsent')) = req.cl
    <3>1. rem'.data \in Seq(Byte) /\ socket' = socket /\ unsent' = unsent
      BY <1>2, <2>6 DEF Io, Byte
    <3>2. /\ Len(socket' \o unsent') = Len(socket') + Len(unsent')
          /\ socket' \o unsent' \in Seq(Byte)
      BY <2>2, <3>1, Joined, Zenon
    <3>3. Len(Body) = Len(rem'.data) + Len(socket' \o unsent')
      BY <2>7, <3>1, <3>2, Joined, Zenon
    <3>4. Len(Body) = req.cl
      BY <1>1, Texts
    <3>. QED
      BY <1>2, <2>2, <2>4, <2>5, <2>6, <3>2, <3>3, <3>4
  <2>9. TypeInv'
    BY <1>1, <1>2, <2>1, <2>6 DEF TypeInv, TypeOK
  <2>10. ControlInv'
    BY <1>1, <1>2, <2>1, <2>5, SameRequest DEF IInv, ControlInv
  <2>11. InputInv'
    <3>1. /\ state.buffer = <<>> /\ state.nread = 0 /\ state.count = 0
          /\ Len(<<>>) = 0 /\ Body \in Seq(Byte)
      BY <1>1, <2>5, EmptySeq, Texts DEF EmptyState
    <3>2. <<>> \o Body = Body
      BY <3>1, ConcatEmptySeq
    <3>3. /\ state'.buffer \o (rem'.data \o (socket' \o unsent')) = Body
          /\ state'.nread = Len(state'.buffer) /\ state'.count = 0
      BY <1>2, <2>7, <3>1, <3>2
    <3>. QED
      BY <1>1, <1>2, <2>1, <2>5, <2>8, <3>3, SameRequest DEF InputInv
  <2>. QED
    BY <1>3, <1>4, <2>9, <2>10, <2>11 DEF IInv
<1>. QED
  BY <1>5, <1>6

LEMMA WriteRemoteKeeps ==
  ASSUME IInv, NEW n \in 0 .. BufferSize, WriteRemote(n)
  PROVE  IInv'
<1>1. /\ req \in Requests /\ req' = req /\ TypeInv /\ at = "send" /\ at' = "check"
      /\ n \in 0 .. Len(loc.data)
  BY DEF IInv, TypeInv, TypeOK, WriteRemote
<1>2. UNCHANGED <<unsent, socket, broken, remote_ready, local_ready, rem, parsed, embedded,
                  dontClose, locClosed, state, memory, handled>>
  BY DEF WriteRemote
<1>3. ControlInv'
  BY <1>1, <1>2, SameRequest DEF IInv, ControlInv
<1>4. InputInv'
  BY <1>1, <1>2, SameRequest DEF IInv, InputInv
<1>5. CASE UNCHANGED <<loc, received>>
  <2>1. remClosed' => broken
    BY <1>5 DEF IInv, CloseInv, WriteRemote
  <2>2. remClosed' \in BOOLEAN
    BY DEF IInv, TypeInv, WriteRemote
  <2>3. TypeInv'
    BY <1>1, <1>2, <1>5, <2>2 DEF TypeInv, TypeOK
  <2>4. OutputInv'
    BY <1>1, <1>2, <1>5, SameRequest DEF IInv, OutputInv
  <2>5. CloseInv'
    BY <1>1, <1>2, <1>5, <2>1 DEF IInv, CloseInv
  <2>. QED
    BY <1>3, <1>4, <2>3, <2>4, <2>5 DEF IInv
<1>6. CASE /\ loc' = Drained(loc, n) /\ received' = received \o FirstBytes(loc.data, n)
           /\ remClosed' = remClosed
  <2>. DEFINE first == FirstBytes(loc.data, n)
              rest == SubSeq(loc.data, n + 1, Len(loc.data))
  <2>1. /\ loc \in Io /\ Len(loc.data) <= loc.head /\ loc.data \in Seq(Byte)
        /\ Len(loc.data) \in Nat /\ received \in Seq(Byte)
    BY <1>1, Buffers
  <2>2. /\ loc' \in Io /\ Len(loc'.data) <= loc'.head /\ loc'.data = rest
        /\ loc'.head = IF n = Len(loc.data) THEN 0 ELSE loc.head
        /\ Len(loc'.data) = Len(loc.data) - n
    BY <1>1, <1>6, <2>1, DrainedBuffer
  <2>3. first = SubSeq(loc.data, 1, n)
    <3>1. n < Len(loc.data) \/ n = Len(loc.data)
      BY <1>1, <2>1
    <3>. QED
      BY <3>1 DEF FirstBytes
  <2>4. first \in Seq(Byte) /\ rest \in Seq(Byte) /\ first \o rest = loc.data
    <3>1. /\ SubSeq(loc.data, 1, n) \in Seq(Byte) /\ rest \in Seq(Byte)
          /\ SubSeq(loc.data, 1, n) \o rest = loc.data
      BY <1>1, <2>1, FirstAndRest
    <3>. QED
      BY <2>3, <3>1
  <2>. HIDE DEF first, rest
  <2>5. received' \in Seq(Byte) /\ received' \o loc'.data = received \o loc.data
    <3>1. received' = received \o first
      BY <1>6 DEF first
    <3>2. first \in Seq(Byte) /\ rest \in Seq(Byte)
      BY <2>4
    <3>3. (received \o first) \o rest = received \o (first \o rest)
      BY <2>1, <3>2, Regroup, Zenon
    <3>4. received \o first \in Seq(Byte)
      BY <2>1, <3>2, Joined, Zenon
    <3>. QED
      BY <2>2, <2>4, <3>1, <3>3, <3>4, Zenon
  <2>6. loc'.data = <<>> => loc'.head = 0
    <3>1. Len(<<>>) = 0
      BY EmptySeq
    <3>. QED
      BY <1>1, <2>1, <2>2, <3>1
  <2>7. TypeInv'
    BY <1>1, <1>2, <1>6, <2>2, <2>5 DEF TypeInv, TypeOK
  <2>8. OutputInv'
    BY <1>1, <1>2, <2>5, <2>6, SameRequest DEF IInv, OutputInv
  <2>9. CloseInv'
    BY <1>1, <1>2, <1>6 DEF IInv, CloseInv
  <2>. QED
    BY <1>3, <1>4, <2>7, <2>8, <2>9 DEF IInv
<1>. QED
  BY <1>5, <1>6 DEF WriteRemote

-----------------------------------------------------------------------------
(***************************************************************************)
(* The calls of query_process.                                             *)
(***************************************************************************)

\* A step of the server that calls it.
Calling ==
  /\ at \in {"local", "write"} /\ at' \in {"write", "send"}
  /\ embedded
  /\ UNCHANGED <<req, unsent, socket, broken, remote_ready, local_ready, parsed,
                 remClosed, received>>

\* Then the callback has not ended.
LEMMA Called ==
  ASSUME IInv, Calling
  PROVE  /\ req \in Requests /\ req' = req /\ TypeInv
         /\ parsed /\ ~locClosed /\ memory \in {"null", "live"}
         /\ memory = "live" <=> dontClose
BY DEF IInv, Calling, ControlInv, TypeInv, TypeOK

\* The buffers after a call that takes so many bytes and puts out some others.
LEMMA OutcomeBuffers ==
  ASSUME TypeInv, NEW taken \in 0 .. Len(rem.data), NEW out \in Seq(Byte),
         Len(out) <= SpaceLen(loc), NEW end, Outcome(taken, out, end)
  PROVE  /\ rem' \in Io /\ Len(rem'.data) <= rem'.head
         /\ rem'.total = rem.total
         /\ taken = 0 => rem'.data = rem.data
         /\ taken = Len(rem.data) => rem'.data = <<>>
         /\ loc' \in Io /\ Len(loc'.data) <= loc'.head
         /\ loc'.data = loc.data \o out /\ loc'.head = loc.head + Len(out)
         /\ dontClose' = ~end /\ embedded' = ~end /\ locClosed' = ~~end
<1>1. rem' = Drained(rem, taken) /\ loc' = Filled(loc, out)
  BY DEF Outcome
<1>2. dontClose' = ~end /\ embedded' = ~end /\ locClosed' = ~~end
  BY DEF Outcome, StaysOpen
<1>3. rem \in Io /\ Len(rem.data) <= rem.head /\ loc \in Io /\ Len(loc.data) <= loc.head
  BY Buffers
<1>. QED
  BY <1>1, <1>2, <1>3, DrainedBuffer, FilledBuffer

\* The same for a call that takes all of the data.
LEMMA AllTaken ==
  ASSUME TypeInv, NEW out \in Seq(Byte), Len(out) <= SpaceLen(loc),
         NEW end, Outcome(Len(rem.data), out, end)
  PROVE  /\ rem' \in Io /\ Len(rem'.data) <= rem'.head
         /\ rem'.total = rem.total /\ rem'.data = <<>>
         /\ loc' \in Io /\ Len(loc'.data) <= loc'.head
         /\ loc'.data = loc.data \o out /\ loc'.head = loc.head + Len(out)
         /\ dontClose' = ~end /\ embedded' = ~end /\ locClosed' = ~~end
<1>1. Len(rem.data) \in 0 .. Len(rem.data)
  BY Buffers
<1>. QED
  BY <1>1, OutcomeBuffers

\* Before the handler has run nothing has been put out.
LEMMA NothingOut ==
  ASSUME IInv, handled = <<>>, ~locClosed
  PROVE  /\ received = <<>> /\ loc.data = <<>> /\ loc.head = 0
         /\ SpaceLen(loc) = BufferSize
<1>1. received \o loc.data = <<>>
  BY DEF IInv, OutputInv
<1>2. received \in Seq(Byte) /\ loc.data \in Seq(Byte)
  BY Buffers DEF IInv
<1>3. received = <<>> /\ loc.data = <<>>
  BY <1>1, <1>2, ConcatEqualIffEmpty
<1>. QED
  BY <1>3, SizesAssumption DEF IInv, OutputInv, SpaceLen

LEMMA RefuseKeeps ==
  ASSUME IInv, Calling, Refuse
  PROVE  IInv'
<1>1. /\ req \in Requests /\ req' = req /\ TypeInv
      /\ parsed /\ ~locClosed /\ memory = "null"
  BY Called DEF Refuse, IInv, ControlInv, Accepted
<1>2. state = EmptyState /\ handled = <<>>
  BY <1>1 DEF IInv, InputInv
<1>. DEFINE refusal == Bytes("refusal", 1)
<1>3. refusal \in Seq(Byte) /\ Len(refusal) = 1 /\ BufferSize \in Nat /\ BufferSize >= 1
  BY <1>1, Texts, SizesAssumption
<1>. HIDE DEF refusal
<1>4. received = <<>> /\ loc.data = <<>> /\ loc.head = 0 /\ SpaceLen(loc) = BufferSize
  BY <1>1, <1>2, NothingOut
<1>5. FirstBytes(refusal, SpaceLen(loc)) = refusal
  BY <1>3, <1>4, FirstBytesTaken
<1>6. Outcome(0, refusal, TRUE)
  BY <1>5 DEF Refuse, refusal
<1>7. /\ rem' \in Io /\ Len(rem'.data) <= rem'.head
      /\ rem'.total = rem.total /\ rem'.data = rem.data
      /\ loc' \in Io /\ Len(loc'.data) <= loc'.head
      /\ loc'.data = loc.data \o refusal
      /\ ~dontClose' /\ ~embedded' /\ locClosed'
      /\ dontClose' \in BOOLEAN /\ embedded' \in BOOLEAN /\ locClosed' \in BOOLEAN
  <2>1. 0 \in 0 .. Len(rem.data) /\ Len(refusal) <= SpaceLen(loc)
    BY <1>1, <1>3, <1>4, Buffers
  <2>. QED
    BY <1>1, <1>3, <1>6, <2>1, OutcomeBuffers
<1>8. loc'.data = refusal /\ received' \o loc'.data = refusal
  BY <1>3, <1>4, <1>7, ConcatEmptySeq DEF Calling
<1>9. UNCHANGED <<state, memory, handled>>
  BY DEF Refuse
<1>10. TypeInv'
  BY <1>1, <1>7, <1>9 DEF TypeInv, TypeOK, Calling
<1>11. ControlInv'
  BY <1>1, <1>7, <1>9, SameRequest DEF IInv, ControlInv, Calling
<1>12. InputInv'
  BY <1>1, <1>2, <1>7, <1>9, SameRequest DEF IInv, InputInv, Calling
<1>13. OutputInv'
  <2>1. refusal # <<>>
    BY <1>3, EmptySeq
  <2>. QED
    BY <1>2, <1>7, <1>8, <1>9, <2>1 DEF OutputInv, refusal
<1>14. CloseInv'
  BY DEF IInv, CloseInv, Calling
<1>. QED
  BY <1>10, <1>11, <1>12, <1>13, <1>14 DEF IInv

LEMMA AllocateKeeps ==
  ASSUME IInv, Calling, Allocate
  PROVE  IInv'
<1>1. /\ req \in Requests /\ req' = req /\ TypeInv
      /\ parsed /\ ~locClosed /\ memory = "null" /\ Accepted
  BY Called DEF Allocate
<1>2. state = EmptyState /\ handled = <<>> /\ state' = EmptyState /\ memory' = "live"
      /\ handled' = handled
  BY <1>1 DEF IInv, InputInv, Allocate
<1>3. received = <<>> /\ loc.data = <<>> /\ loc.head = 0 /\ SpaceLen(loc) = BufferSize
  BY <1>1, <1>2, NothingOut
<1>4. /\ rem' \in Io /\ Len(rem'.data) <= rem'.head
      /\ rem'.total = rem.total /\ rem'.data = rem.data
      /\ loc' \in Io /\ Len(loc'.data) <= loc'.head
      /\ loc'.data = loc.data \o <<>> /\ loc'.head = loc.head + 0
      /\ dontClose' /\ embedded' /\ ~locClosed'
      /\ dontClose' \in BOOLEAN /\ embedded' \in BOOLEAN /\ locClosed' \in BOOLEAN
  <2>1. /\ 0 \in 0 .. Len(rem.data) /\ <<>> \in Seq(Byte) /\ Len(<<>>) = 0
        /\ Len(<<>>) <= SpaceLen(loc)
    BY <1>1, Buffers, EmptySeq
  <2>2. Outcome(0, <<>>, FALSE)
    BY DEF Allocate, FirstCallTakes
  <2>. QED
    BY <1>1, <2>1, <2>2, OutcomeBuffers
<1>5. loc'.data = <<>> /\ loc'.head = 0 /\ received' \o loc'.data = <<>>
  <2>1. <<>> \in Seq(Byte)
    BY EmptySeq
  <2>2. <<>> \o <<>> = <<>>
    BY <2>1, ConcatEmptySeq
  <2>. QED
    BY <1>3, <1>4, <2>2 DEF Calling
<1>6. TypeInv'
  BY <1>1, <1>2, <1>4 DEF TypeInv, TypeOK, Calling
<1>7. ControlInv'
  BY <1>1, <1>2, <1>4, SameRequest DEF IInv, ControlInv, Calling
<1>8. InputInv'
  BY <1>1, <1>2, <1>4, SameRequest DEF IInv, InputInv, Calling
<1>9. OutputInv'
  BY <1>2, <1>4, <1>5 DEF OutputInv
<1>10. CloseInv'
  BY DEF IInv, CloseInv, Calling
<1>. QED
  BY <1>6, <1>7, <1>8, <1>9, <1>10 DEF IInv

\* A call that only collects: the body is not complete.
LEMMA CollectKeeps ==
  ASSUME IInv, Calling, Continue, handled = <<>>,
         ~(state.nread + Len(rem.data) >= req.cl)
  PROVE  IInv'
<1>1. /\ req \in Requests /\ req' = req /\ TypeInv
      /\ parsed /\ ~locClosed /\ memory = "live" /\ Accepted
  BY Called DEF Continue
<1>2. /\ rem.data \in Seq(Byte) /\ socket \in Seq(Byte) /\ unsent \in Seq(Byte)
      /\ state.buffer \in Seq(Byte) /\ Len(rem.data) \in Nat /\ state.nread \in Nat
      /\ Len(state.buffer) \in Nat
  BY <1>1, Buffers
<1>3. /\ state.buffer \o (rem.data \o (socket \o unsent)) = Body
      /\ state.nread = Len(state.buffer) /\ state.count = 0
  BY <1>1 DEF IInv, InputInv
<1>. DEFINE buffer == state.buffer \o rem.data
            nread == state.nread + Len(rem.data)
            runs == BodyRead(nread) /\ state.count = 0
            text == IF runs THEN Answer ELSE buffer
            left == Len(text) - state.count
            n == IF ~BodyRead(nread) THEN 0
                 ELSE IF SpaceLen(loc) < left THEN SpaceLen(loc) ELSE left
            end == BodyRead(nread) /\ n = left
            out == Copied(text, state.count, n)
<1>4. ~BodyRead(nread)
  BY DEF BodyRead
<1>5. buffer \in Seq(Byte) /\ Len(buffer) = nread
  BY <1>2, <1>3, Joined
<1>6. ~runs /\ text = buffer /\ n = 0 /\ ~end
  BY <1>4
<1>7. /\ state' = [nread |-> nread, buffer |-> text, count |-> state.count + n]
      /\ handled' = IF runs THEN Append(handled, buffer) ELSE handled
      /\ Outcome(Len(rem.data), out, end)
      /\ ~end => memory' = memory
  BY <1>1, Zenon DEF Continue
<1>8. <<>> \in Seq(Byte) /\ Len(<<>>) = 0 /\ out = <<>>
  <2>1. Copied(text, state.count, n) = <<>>
    <3>1. Copied(text, 0, 0) = SubSeq(text, 1, 0)
      BY DEF Copied
    <3>2. SubSeq(text, 1, 0) = <<>>
      BY SubSeqEmpty
    <3>. QED
      BY <1>3, <1>6, <3>1, <3>2
  <2>2. <<>> \in Seq(Byte) /\ Len(<<>>) = 0
    BY EmptySeq
  <2>. QED
    BY <2>1, <2>2
<1>9. /\ state' = [nread |-> nread, buffer |-> buffer, count |-> 0]
       /\ handled' = handled /\ memory' = memory
  BY <1>3, <1>6, <1>7
<1>. HIDE DEF buffer, nread, runs, text, left, n, end, out
<1>10. /\ rem' \in Io /\ Len(rem'.data) <= rem'.head
      /\ rem'.total = rem.total /\ rem'.data = <<>>
      /\ loc' \in Io /\ Len(loc'.data) <= loc'.head
      /\ loc'.data = loc.data \o <<>> /\ loc'.head = loc.head + 0
      /\ dontClose' /\ embedded' /\ ~locClosed'
      /\ dontClose' \in BOOLEAN /\ embedded' \in BOOLEAN /\ locClosed' \in BOOLEAN
  <2>1. out \in Seq(Byte) /\ Len(out) <= SpaceLen(loc)
    BY <1>1, <1>8, Buffers
  <2>2. Outcome(Len(rem.data), out, end)
    BY <1>7
  <2>3. /\ rem' \in Io /\ Len(rem'.data) <= rem'.head
        /\ rem'.total = rem.total /\ rem'.data = <<>>
        /\ loc' \in Io /\ Len(loc'.data) <= loc'.head
        /\ loc'.data = loc.data \o out /\ loc'.head = loc.head + Len(out)
        /\ dontClose' = ~end /\ embedded' = ~end /\ locClosed' = ~~end
    BY <1>1, <2>1, <2>2, AllTaken
  <2>. QED
    BY <1>6, <1>8, <2>3
<1>11. loc'.data = <<>> /\ loc'.head = 0 /\ received' \o loc'.data = <<>>
  <2>1. <<>> \o <<>> = <<>>
    BY <1>8, ConcatEmptySeq
  <2>. QED
    BY <1>1, <1>10, <2>1, NothingOut DEF Calling
<1>12. TypeInv'
  <2>1. nread \in Nat /\ 0 \in 0 .. Len(buffer)
    BY <1>2, <1>5 DEF nread
  <2>2. /\ state'.buffer \in Seq(Byte) /\ state'.nread \in Nat
        /\ state'.count \in 0 .. Len(state'.buffer)
        /\ DOMAIN state' = {"nread", "buffer", "count"}
    BY <1>5, <1>9, <2>1
  <2>. QED
    BY <1>1, <1>9, <1>10, <2>2 DEF TypeInv, TypeOK, Calling
<1>13. ControlInv'
  BY <1>1, <1>9, <1>10, SameRequest DEF IInv, ControlInv, Calling
<1>14. InputInv'
  <2>1. buffer \o (<<>> \o (socket \o unsent)) = Body
    <3>1. socket \o unsent \in Seq(Byte)
      BY <1>2, Joined, Zenon
    <3>2. <<>> \o (socket \o unsent) = socket \o unsent
      BY <3>1, ConcatEmptySeq
    <3>3. (state.buffer \o rem.data) \o (socket \o unsent) =
          state.buffer \o (rem.data \o (socket \o unsent))
      BY <1>2, <3>1, Regroup, Zenon
    <3>. QED
      BY <1>3, <3>2, <3>3, Zenon DEF buffer
  <2>2. state'.buffer \o (rem'.data \o (socket' \o unsent')) = Body'
    BY <1>1, <1>9, <1>10, <2>1, SameRequest DEF Calling
  <2>3. state'.nread = Len(state'.buffer) /\ state'.count = 0
    BY <1>5, <1>9
  <2>4. parsed' /\ memory' = "live" /\ handled' = <<>>
    BY <1>1, <1>9 DEF Calling
  <2>5. rem'.total + (Len(socket') + Len(unsent')) = req'.cl
    BY <1>1, <1>10 DEF IInv, InputInv, Calling
  <2>. QED
    BY <2>2, <2>3, <2>4, <2>5 DEF InputInv
<1>15. OutputInv'
  BY <1>9, <1>10, <1>11 DEF OutputInv
<1>16. CloseInv'
  BY DEF IInv, CloseInv, Calling
<1>. QED
  BY <1>12, <1>13, <1>14, <1>15, <1>16 DEF IInv

\* A call that puts out the next part of the answer; the first of them runs the
\* handler, on the whole body.
LEMMA AnswerKeeps ==
  ASSUME IInv, Calling, Continue,
         handled # <<>> \/ state.nread + Len(rem.data) >= req.cl
  PROVE  IInv'
<1>1. /\ req \in Requests /\ req' = req /\ TypeInv
      /\ parsed /\ ~locClosed /\ memory = "live" /\ Accepted
  BY Called DEF Continue
<1>2. /\ rem.data \in Seq(Byte) /\ socket \in Seq(Byte) /\ unsent \in Seq(Byte)
      /\ state.buffer \in Seq(Byte) /\ Len(rem.data) \in Nat /\ state.nread \in Nat
      /\ Len(state.buffer) \in Nat /\ loc.data \in Seq(Byte) /\ received \in Seq(Byte)
      /\ SpaceLen(loc) \in Nat /\ Len(loc.data) \in Nat /\ loc \in Io
      /\ state.count \in 0 .. Len(state.buffer)
  BY <1>1, Buffers
<1>3. /\ Answer \in Seq(Byte) /\ Len(Answer) = req.answer /\ req.answer \in Nat
      /\ Body \in Seq(Byte) /\ Len(Body) = req.cl /\ req.cl \in Nat
      /\ BufferSize \in Nat /\ BufferSize > 0
      /\ <<>> \in Seq(Byte) /\ Len(<<>>) = 0
  BY <1>1, Texts, EmptySeq
<1>. DEFINE buffer == state.buffer \o rem.data
            nread == state.nread + Len(rem.data)
            runs == BodyRead(nread) /\ state.count = 0
            text == IF runs THEN Answer ELSE buffer
            left == Len(text) - state.count
            n == IF ~BodyRead(nread) THEN 0
                 ELSE IF SpaceLen(loc) < left THEN SpaceLen(loc) ELSE left
            end == BodyRead(nread) /\ n = left
            out == Copied(text, state.count, n)
<1>4. /\ state' = [nread |-> nread, buffer |-> text, count |-> state.count + n]
      /\ handled' = IF runs THEN Append(handled, buffer) ELSE handled
      /\ Outcome(Len(rem.data), out, end)
      /\ IF end THEN Deleted ELSE memory' = memory
  BY <1>1, Zenon DEF Continue
\* Before and after the handler has run:
<1>. DEFINE Facts ==
       /\ BodyRead(nread) /\ text = Answer /\ nread = req.cl
       /\ handled' = <<Body>> /\ socket = <<>> /\ unsent = <<>>
       /\ received \o loc.data = SubSeq(Answer, 1, state.count)
       /\ state.count \in 0 .. req.answer
       /\ state.count > 0 \/ SpaceLen(loc) > 0
<1>5. ASSUME handled = <<>> PROVE Facts
  <2>1. /\ state.buffer \o (rem.data \o (socket \o unsent)) = Body
        /\ state.nread = Len(state.buffer) /\ state.count = 0
    BY <1>1, <1>5 DEF IInv, InputInv
  <2>2. BodyRead(nread) /\ runs /\ text = Answer
    BY <1>5, <2>1 DEF BodyRead
  <2>3. buffer \in Seq(Byte) /\ Len(buffer) = nread
    BY <1>2, <2>1, Joined
  <2>4. socket \o unsent \in Seq(Byte) /\ Len(socket \o unsent) \in Nat
    BY <1>2, Joined, LenProperties
  <2>5. buffer \o (socket \o unsent) = Body
    <3>1. buffer \o (socket \o unsent) = state.buffer \o (rem.data \o (socket \o unsent))
      <4>1. state.buffer \in Seq(Byte) /\ rem.data \in Seq(Byte)
        BY <1>2
      <4>. QED
        BY <2>4, <4>1, Regroup, Zenon
    <3>. QED
      BY <2>1, <3>1, Zenon
  <2>6. Len(Body) = Len(buffer) + Len(socket \o unsent)
    BY <2>3, <2>4, <2>5, Joined, Zenon
  <2>7. Len(socket \o unsent) = 0 /\ nread = req.cl
    <3>1. nread \in Nat /\ nread >= req.cl
      BY <1>2, <1>5
    <3>2. Len(Body) = req.cl /\ req.cl \in Nat
      BY <1>3
    <3>. HIDE DEF nread, buffer
    <3>. QED
      BY <2>3, <2>4, <2>6, <3>1, <3>2
  <2>8. socket \o unsent = <<>>
    BY <2>4, <2>7, EmptySeq
  <2>9. socket = <<>> /\ unsent = <<>>
    BY <1>2, <2>8, ConcatEqualIffEmpty
  <2>10. buffer = Body
    <3>1. buffer \o <<>> = buffer
      BY <2>3, ConcatEmptySeq
    <3>. QED
      BY <2>5, <2>8, <3>1, Zenon
  <2>11. handled' = <<Body>>
    BY <1>4, <1>5, <2>2, <2>10
  <2>12. received = <<>> /\ loc.data = <<>> /\ SpaceLen(loc) = BufferSize
    BY <1>1, <1>5, NothingOut
  <2>13. received \o loc.data = SubSeq(Answer, 1, state.count)
    <3>1. SubSeq(Answer, 1, 0) = <<>>
      BY SubSeqEmpty
    <3>2. <<>> \o <<>> = <<>>
      BY <1>3, ConcatEmptySeq
    <3>. QED
      BY <2>1, <2>12, <3>1, <3>2
  <2>. HIDE DEF buffer, nread, runs, text
  <2>14. SpaceLen(loc) > 0
    BY <1>3, <2>12
  <2>15. state.count \in 0 .. req.answer
    BY <1>3, <2>1
  <2>. QED
    BY <2>2, <2>7, <2>9, <2>11, <2>13, <2>14, <2>15, Zenon
<1>6. ASSUME handled # <<>> PROVE Facts
  <2>1. /\ handled = <<Body>> /\ state.buffer = Answer /\ state.nread = req.cl
        /\ rem.data = <<>> /\ socket = <<>> /\ unsent = <<>> /\ state.count > 0
    BY <1>1, <1>6 DEF IInv, InputInv
  <2>2. nread = req.cl /\ BodyRead(nread)
    BY <1>3, <2>1 DEF BodyRead
  <2>3. ~runs
    BY <1>2, <2>1
  <2>4. text = Answer
    BY <1>3, <2>1, <2>3, ConcatEmptySeq
  <2>5. received \o loc.data = SubSeq(Answer, 1, state.count)
    BY <1>6 DEF IInv, OutputInv
  <2>6. handled' = <<Body>>
    BY <1>4, <2>1, <2>3
  <2>7. state.count \in 0 .. req.answer
    BY <1>2, <1>3, <2>1
  <2>. HIDE DEF buffer, nread, runs, text
  <2>. QED
    BY <2>1, <2>2, <2>4, <2>5, <2>6, <2>7, Zenon
<1>7. Facts
  BY <1>5, <1>6
<1>. HIDE DEF buffer, nread, runs, text
\* How far the call gets.
<1>8. /\ n \in Nat /\ n <= SpaceLen(loc)
      /\ state.count + n \in 0 .. req.answer
      /\ end => state.count + n = req.answer
      /\ ~end => state.count + n > 0
      /\ end \in BOOLEAN
  <2>1. left = req.answer - state.count
    BY <1>3, <1>7
  <2>2. n = IF SpaceLen(loc) < left THEN SpaceLen(loc) ELSE left
    BY <1>7
  <2>3. end <=> n = left
    BY <1>7
  <2>4. /\ SpaceLen(loc) \in Nat /\ req.answer \in Nat
        /\ state.count \in 0 .. req.answer
        /\ state.count > 0 \/ SpaceLen(loc) > 0
    BY <1>2, <1>3, <1>7
  <2>5. end \in BOOLEAN
    OBVIOUS
  <2>. HIDE DEF left, n, end, Facts
  <2>6. /\ left \in Nat /\ n \in Nat /\ n <= SpaceLen(loc) /\ n <= left
        /\ n = SpaceLen(loc) \/ n = left
    BY <2>1, <2>2, <2>4
  <2>7. state.count + n \in 0 .. req.answer
    BY <2>1, <2>4, <2>6
  <2>8. end => state.count + n = req.answer
    BY <2>1, <2>3, <2>4
  <2>9. ~end => state.count + n > 0
    BY <2>3, <2>4, <2>6
  <2>. QED
    BY <2>5, <2>6, <2>7, <2>8, <2>9, Zenon
<1>. HIDE DEF left, n, end
<1>. DEFINE part == SubSeq(Answer, state.count + 1, state.count + n)
            before == SubSeq(Answer, 1, state.count)
            after == SubSeq(Answer, 1, state.count + n)
<1>9. /\ part \in Seq(Byte) /\ Len(part) = n /\ before \in Seq(Byte)
      /\ before \o part = after
  <2>1. /\ state.count \in Nat /\ state.count \in 0 .. Len(Answer)
        /\ state.count + n \in Nat /\ state.count + n \in 0 .. Len(Answer)
    BY <1>3, <1>7, <1>8
  <2>2. before \in Seq(Byte)
    BY <1>3, <2>1, FirstAndRest
  <2>3. part \in Seq(Byte) /\ Len(part) = n
    <3>1. \A i \in state.count + 1 .. state.count + n : Answer[i] \in Byte
      <4>1. \A i \in 1 .. Len(Answer) : Answer[i] \in Byte
        BY <1>3, ElementOfSeq
      <4>. QED
        BY <1>3, <2>1, <4>1
    <3>. DEFINE i == state.count + 1
                j == state.count + n
    <3>2. i \in Int /\ j \in Int /\ n = j - i + 1
      BY <1>8, <2>1
    <3>. HIDE DEF i, j
    <3>3. /\ SubSeq(Answer, i, j) \in Seq(Byte)
          /\ Len(SubSeq(Answer, i, j)) = IF i <= j THEN j - i + 1 ELSE 0
      BY <3>1, <3>2, SubSeqProperties DEF i, j
    <3>4. Len(SubSeq(Answer, i, j)) = n
      BY <1>8, <3>2, <3>3
    <3>. QED
      BY <3>3, <3>4 DEF i, j
  <2>4. before \o part = after
    <3>1. /\ 1 \in 1 .. Len(Answer) + 1 /\ state.count \in 1 - 1 .. Len(Answer)
          /\ state.count + n \in state.count .. Len(Answer)
      BY <1>3, <1>8, <2>1
    <3>. QED
      BY <1>3, <3>1, ConcatAdjacentSubSeq
  <2>. QED
    BY <2>2, <2>3, <2>4
<1>10. out = part
  BY <1>7 DEF Copied
<1>. HIDE DEF out, part, before, after
<1>11. out \in Seq(Byte) /\ Len(out) = n
  BY <1>9, <1>10
<1>12. /\ rem' \in Io /\ Len(rem'.data) <= rem'.head
       /\ rem'.total = rem.total /\ rem'.data = <<>>
       /\ loc' \in Io /\ Len(loc'.data) <= loc'.head
       /\ loc'.data = loc.data \o out /\ loc'.head = loc.head + Len(out)
       /\ dontClose' = ~end /\ embedded' = ~end /\ locClosed' = ~~end
  <2>1. Len(out) <= SpaceLen(loc)
    BY <1>8, <1>11
  <2>2. TypeInv /\ Outcome(Len(rem.data), out, end) /\ out \in Seq(Byte)
    BY <1>1, <1>4, <1>11, Zenon
  <2>. HIDE DEF Facts
  <2>. QED
    BY <2>1, <2>2, AllTaken
<1>13. received' \o loc'.data = after
  <2>1. received' = received
    BY DEF Calling
  <2>2. received \o loc.data = before
    BY <1>7 DEF before, Facts
  <2>3. received \in Seq(Byte) /\ loc.data \in Seq(Byte) /\ part \in Seq(Byte)
    BY <1>2, <1>9, Zenon
  <2>. HIDE DEF Facts
  <2>4. (received \o loc.data) \o part = received \o (loc.data \o part)
    BY <2>3, Regroup, Zenon
  <2>5. before \o part = after /\ out = part /\ loc'.data = loc.data \o out
    BY <1>9, <1>10, <1>12, Zenon
  <2>. QED
    BY <2>1, <2>2, <2>4, <2>5, Zenon
<1>14. /\ state' = [nread |-> req.cl, buffer |-> Answer, count |-> state.count + n]
       /\ handled' = <<Body>>
  BY <1>4, <1>7, Zenon
<1>15. /\ state'.buffer = Answer /\ state'.nread = req.cl
       /\ state'.count = state.count + n /\ DOMAIN state' = {"nread", "buffer", "count"}
       /\ handled' # <<>>
  BY <1>14
<1>16. TypeInv'
  <2>1. memory' \in {"null", "live", "freed", "misused"}
    BY <1>1, <1>4 DEF Deleted
  <2>2. dontClose' \in BOOLEAN /\ embedded' \in BOOLEAN /\ locClosed' \in BOOLEAN
    BY <1>8, <1>12
  <2>. QED
    BY <1>1, <1>3, <1>8, <1>12, <1>15, <2>1, <2>2 DEF TypeInv, TypeOK, Calling
<1>17. ControlInv'
  <2>1. IF end THEN memory' = "freed" ELSE memory' = "live"
    BY <1>1, <1>4 DEF Deleted
  <2>. QED
    BY <1>1, <1>8, <1>12, <2>1, SameRequest DEF IInv, ControlInv, Calling
<1>18. InputInv'
  <2>1. memory' = "live" => state'.count > 0
    BY <1>1, <1>4, <1>8, <1>15 DEF Deleted
  <2>2. memory' # "null"
    BY <1>1, <1>4 DEF Deleted
  <2>3. rem'.total + (Len(socket') + Len(unsent')) = req'.cl
    BY <1>1, <1>12 DEF IInv, InputInv, Calling
  <2>4. parsed' /\ socket' = <<>> /\ unsent' = <<>>
    BY <1>1, <1>7 DEF Calling
  <2>. QED
    BY <1>1, <1>12, <1>14, <1>15, <2>1, <2>2, <2>3, <2>4, SameRequest DEF InputInv
<1>19. OutputInv'
  <2>1. received' \o loc'.data = SubSeq(Answer', 1, state'.count)
    BY <1>1, <1>13, <1>15, SameRequest DEF after
  <2>2. locClosed' => state'.count = req'.answer
    BY <1>1, <1>8, <1>12, <1>15
  <2>3. loc'.data = <<>> => loc'.head = 0
    <3>. SUFFICES ASSUME loc'.data = <<>> PROVE loc'.head = 0
      OBVIOUS
    <3>1. loc.data = <<>> /\ out = <<>>
      BY <1>2, <1>11, <1>12, ConcatEqualIffEmpty
    <3>2. loc.head = 0
      BY <3>1 DEF IInv, OutputInv
    <3>. QED
      BY <1>3, <1>12, <3>1, <3>2
  <2>. QED
    BY <1>15, <2>1, <2>2, <2>3 DEF OutputInv
<1>20. CloseInv'
  BY DEF IInv, CloseInv, Calling
<1>. QED
  BY <1>16, <1>17, <1>18, <1>19, <1>20 DEF IInv

LEMMA CallKeeps ==
  ASSUME IInv, Calling, query_process
  PROVE  IInv'
<1>1. CASE Refuse
  BY <1>1, RefuseKeeps
<1>2. CASE Allocate
  BY <1>2, AllocateKeeps
<1>3. CASE Continue
  BY <1>3, CollectKeeps, AnswerKeeps
<1>. QED
  BY <1>1, <1>2, <1>3 DEF query_process

\* A turn in which the stream does not call it.
LEMMA QuietKeeps ==
  ASSUME IInv, at \in {"local", "write"}, at' \in {"write", "send"},
         UNCHANGED <<req, unsent, socket, broken, remote_ready, local_ready, parsed,
                     remClosed, received, rem, loc, embedded, dontClose, locClosed, state,
                     memory, handled>>
  PROVE  IInv'
<1>1. TypeInv'
  BY DEF IInv, TypeInv, TypeOK
<1>2. ControlInv'
  BY SameRequest DEF IInv, ControlInv
<1>3. InputInv'
  BY SameRequest DEF IInv, InputInv
<1>4. OutputInv'
  BY SameRequest DEF IInv, OutputInv
<1>5. CloseInv'
  BY DEF IInv, CloseInv, SpaceLen
<1>. QED
  BY <1>1, <1>2, <1>3, <1>4, <1>5 DEF IInv

LEMMA ReadLocalKeeps ==
  ASSUME IInv, ReadLocal
  PROVE  IInv'
<1>1. CASE local_ready /\ SpaceLen(loc) > 0
  <2>1. query_process
    BY <1>1 DEF ReadLocal
  <2>2. Calling
    BY <1>1 DEF ReadLocal, Calling, IInv, ControlInv
  <2>. QED
    BY <2>1, <2>2, CallKeeps
<1>2. CASE ~(local_ready /\ SpaceLen(loc) > 0)
  <2>1. /\ at = "local" /\ at' = "write"
        /\ UNCHANGED <<req, unsent, socket, broken, remote_ready, local_ready, parsed,
                       remClosed, received, rem, loc, embedded, dontClose, locClosed, state,
                       memory, handled>>
    BY <1>2 DEF ReadLocal
  <2>. QED
    BY <2>1, QuietKeeps
<1>. QED
  BY <1>1, <1>2

LEMMA WriteLocalKeeps ==
  ASSUME IInv, WriteLocal
  PROVE  IInv'
<1>1. CASE rem.data # <<>> /\ embedded
  <2>1. query_process
    BY <1>1 DEF WriteLocal
  <2>2. Calling
    BY <1>1 DEF WriteLocal, Calling
  <2>. QED
    BY <2>1, <2>2, CallKeeps
<1>2. CASE ~(rem.data # <<>> /\ embedded)
  <2>1. /\ at = "write" /\ at' = "send"
        /\ UNCHANGED <<req, unsent, socket, broken, remote_ready, local_ready, parsed,
                       remClosed, received, rem, loc, embedded, dontClose, locClosed, state,
                       memory, handled>>
    BY <1>2 DEF WriteLocal
  <2>. QED
    BY <2>1, QuietKeeps
<1>. QED
  BY <1>1, <1>2

LEMMA NextKeeps ==
  ASSUME IInv, [Next]_vars
  PROVE  IInv'
<1>1. CASE Poll
  BY <1>1, PollKeeps
<1>2. CASE ReadRemote
  BY <1>2, ReadRemoteKeeps
<1>3. CASE Parse
  BY <1>3, ParseKeeps
<1>4. CASE ReadLocal
  BY <1>4, ReadLocalKeeps
<1>5. CASE WriteLocal
  BY <1>5, WriteLocalKeeps
<1>6. CASE Check
  BY <1>6, CheckKeeps
<1>7. CASE \E n \in 0 .. BufferSize : WriteRemote(n)
  BY <1>7, WriteRemoteKeeps
<1>8. CASE Break
  BY <1>8, BreakKeeps
<1>9. CASE \E n \in 1 .. MaxBody + 1 : Send(n)
  BY <1>9, SendKeeps
<1>10. CASE UNCHANGED vars
  BY <1>10, StutterKeeps
<1>. QED
  BY <1>1, <1>2, <1>3, <1>4, <1>5, <1>6, <1>7, <1>8, <1>9, <1>10 DEF Next, Loop

LEMMA Invariant == Spec => []IInv
<1>1. IInv /\ [Next]_vars => IInv'
  BY NextKeeps
<1>. QED
  BY InitIInv, <1>1, PTL DEF Spec

-----------------------------------------------------------------------------
\* What begins a sequence is a prefix of it.
LEMMA Beginning ==
  ASSUME NEW s \in Seq(Byte), NEW t \in Seq(Byte)
  PROVE  IsPrefix(s, s \o t)
<1>1. /\ Len(s) \in Nat /\ Len(t) \in Nat /\ s \o t \in Seq(Byte)
      /\ Len(s \o t) = Len(s) + Len(t)
  BY LenProperties, Joined
<1>2. SubSeq(s, 1, Len(s)) = s
  BY SubSeqFull
<1>3. SubSeq(s \o t, 1, Len(s)) = s
  <2>. DEFINE u == s \o t
              v == SubSeq(u, 1, Len(s))
  <2>1. u \in Seq(Byte) /\ Len(s) \in 0 .. Len(u)
    BY <1>1
  <2>2. \A i \in 1 .. Len(s) : u[i] = s[i]
    BY <1>1, ConcatProperties
  <2>. HIDE DEF u
  <2>3. v \in Seq(Byte) /\ Len(v) = Len(s)
    BY <2>1, FirstAndRest
  <2>4. \A i \in 1 .. Len(s) : v[i] = u[i]
    <3>1. \A i \in 1 .. Len(s) : u[i] \in Byte
      BY <1>1, <2>1, ElementOfSeq
    <3>2. \A i \in 1 .. Len(s) - 1 + 1 : v[i] = u[1 + i - 1]
      BY <1>1, <3>1, SubSeqProperties
    <3>. QED
      BY <1>1, <3>2
  <2>. HIDE DEF v
  <2>5. v = s
    BY <2>2, <2>3, <2>4, SeqEqual
  <2>. QED
    BY <2>5 DEF v, u
<1>. QED
  BY <1>1, <1>2, <1>3 DEF IsPrefix

\* The types, and the buffers are never overrun, whatever the sizes (SHTTPD's io.h).
THEOREM RequestTypeCorrect == Spec => []TypeOK
<1>1. IInv => TypeOK
  BY DEF IInv, TypeInv
<1>. QED
  BY Invariant, <1>1, PTL

\* The state that query_process keeps between its calls is never used after it was
\* deleted, never deleted twice, and never left behind by a connection, however
\* it ends.
THEOREM RequestStateFreedOnce == Spec => []StateFreedOnce
<1>1. IInv => StateFreedOnce
  BY DEF IInv, ControlInv, StateFreedOnce
<1>. QED
  BY Invariant, <1>1, PTL

\* The handler of a request runs once at most, on the whole body, for a body and
\* an answer of any length and cut anyhow.
THEOREM RequestHandledOnce == Spec => []HandledOnce
<1>1. IInv => HandledOnce
  BY DEF IInv, InputInv, HandledOnce
<1>. QED
  BY Invariant, <1>1, PTL

\* The client receives the bytes of its answer in order, none lost or doubled, and
\* all of them when the server closes the connection.
THEOREM RequestAnsweredInOrder == Spec => []AnsweredInOrder
<1>1. ASSUME IInv PROVE AnsweredInOrder
  <2>1. /\ req \in Requests /\ received \in Seq(Byte) /\ loc.data \in Seq(Byte)
    BY <1>1, Buffers DEF IInv, TypeInv, TypeOK
  <2>2. /\ Answer \in Seq(Byte) /\ Len(Answer) = req.answer /\ req.answer \in Nat
        /\ Bytes("refusal", 1) \in Seq(Byte)
        /\ <<>> \in Seq(Byte)
    BY <2>1, Texts, EmptySeq
  <2>3. at = "gone" /\ ~broken => locClosed /\ loc.data = <<>>
    BY <1>1 DEF IInv, CloseInv
  <2>4. received \o <<>> = received
    BY <2>1, ConcatEmptySeq
  <2>5. CASE handled = <<>>
    <3>. DEFINE output == Bytes("refusal", 1)
    <3>1. received \o loc.data = IF locClosed THEN output ELSE <<>>
      BY <1>1, <2>5 DEF IInv, OutputInv
    <3>2. IsPrefix(received, output)
      <4>1. CASE locClosed
        BY <2>1, <3>1, <4>1, Beginning
      <4>2. CASE ~locClosed
        <5>1. received = <<>>
          BY <2>1, <3>1, <4>2, ConcatEqualIffEmpty
        <5>2. <<>> \o output = output
          BY <2>2, ConcatEmptySeq
        <5>3. IsPrefix(<<>>, <<>> \o output)
          BY <2>2, Beginning
        <5>. QED
          BY <5>1, <5>2, <5>3
      <4>. QED
        BY <4>1, <4>2
    <3>3. at = "gone" /\ ~broken => received = output
      BY <2>3, <2>4, <3>1
    <3>. QED
      BY <2>5, <3>2, <3>3 DEF AnsweredInOrder
  <2>6. CASE handled # <<>>
    <3>. DEFINE before == SubSeq(Answer, 1, state.count)
                rest == SubSeq(Answer, state.count + 1, Len(Answer))
    <3>1. /\ received \o loc.data = before
          /\ locClosed => state.count = req.answer
      BY <1>1, <2>6 DEF IInv, OutputInv
    <3>2. state.count \in 0 .. Len(Answer)
      <4>1. state.buffer = Answer
        BY <1>1, <2>6 DEF IInv, InputInv
      <4>2. state.count \in 0 .. Len(state.buffer)
        BY <1>1, Buffers DEF IInv
      <4>. QED
        BY <4>1, <4>2
    <3>3. before \in Seq(Byte) /\ rest \in Seq(Byte) /\ before \o rest = Answer
      BY <2>2, <3>2, FirstAndRest
    <3>4. state.count = req.answer => before = Answer
      BY <2>2, SubSeqFull
    <3>. HIDE DEF before, rest
    <3>5. IsPrefix(received, Answer)
      <4>1. (received \o loc.data) \o rest = received \o (loc.data \o rest)
        BY <2>1, <3>3, Regroup, Zenon
      <4>2. loc.data \o rest \in Seq(Byte)
        BY <2>1, <3>3, Joined, Zenon
      <4>3. IsPrefix(received, received \o (loc.data \o rest))
        BY <2>1, <4>2, Beginning
      <4>. QED
        BY <3>1, <3>3, <4>1, <4>3, Zenon
    <3>6. at = "gone" /\ ~broken => received = Answer
      BY <2>3, <2>4, <3>1, <3>4, Zenon
    <3>. QED
      BY <2>6, <3>5, <3>6 DEF AnsweredInOrder
  <2>. QED
    BY <2>5, <2>6
<1>. QED
  BY Invariant, <1>1, PTL
=============================================================================
