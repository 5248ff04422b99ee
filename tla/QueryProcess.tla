--------------------------- MODULE QueryProcess ---------------------------
(***************************************************************************)
(* One connection of the daemon: TdDaemon::query_process in tddaemon.cpp,  *)
(* called over and over by the loop of SHTTPD (shttpd.c, io_emb.c), which  *)
(* moves the bytes between the socket and two fixed buffers.               *)
(*                                                                         *)
(* query_process keeps a state between its calls and deletes it with the   *)
(* last byte of the answer, or when SHTTPD tells it that the connection is *)
(* broken.  It does not clear the pointer: that nobody calls it again, that*)
(* the handler of the request runs once, on all of its body, and that no   *)
(* byte is lost or doubled, depend on the flags and buffers of SHTTPD.     *)
(*                                                                         *)
(* The client is taken to send the bytes it announces and no more, as a    *)
(* browser does; it may break the connection at any time.                  *)
(***************************************************************************)
EXTENDS Integers, Sequences, SequencesExt

CONSTANTS BufferSize, \* URI_MAX: the size of each of the two buffers
          MaxBody,    \* bound on the length of a body
          MaxAnswer   \* bound on the length of an answer

ASSUME SizesAssumption == BufferSize \in Nat \ {0} /\ MaxBody \in Nat /\ MaxAnswer \in Nat

VARIABLES req,          \* the request: it does not change
          unsent,       \* the bytes the client has still to send
          socket,       \* the bytes that have arrived and are not read
          broken,       \* whether the client has broken the connection
          at,           \* the place in process_connection
          remote_ready, local_ready, \* its parameters, from the last select
          rem,          \* c->rem.io: the bytes read, head (used space) and total
          loc,          \* c->loc.io
          parsed,       \* FLAG_HEADERS_PARSED
          embedded,     \* c->loc.io_class is io_embedded, not NULL
          dontClose,    \* FLAG_DONT_CLOSE of c->loc
          remClosed, locClosed, \* FLAG_CLOSED of each
          state,        \* what arg->state points to, or pointed to
          memory,       \* of the state: "null", "live", "freed", "misused"
          received,     \* history: the bytes that went to the client
          handled       \* history: the bodies the handler was called with

vars == <<req, unsent, socket, broken, at, remote_ready, local_ready, rem, loc, parsed,
          embedded, dontClose, remClosed, locClosed, state, memory, received, handled>>

streams == <<rem, loc, parsed, embedded, dontClose, remClosed, locClosed,
             state, memory, handled>>

---------------------------------------------------------------------------
(* Bytes are numbered by what they are part of. *)

Bytes(kind, n) == [i \in 1 .. n |-> <<kind, i>>]
Headers == Bytes("headers", 1)
Body == Bytes("body", req.cl)
Answer == Bytes("answer", req.answer)

\* needsLength: a URI whose body is read; known: isValid finds its cookie;
\* open: the URI is AUTHENTICATE_USER.
Requests == {r \in [needsLength : BOOLEAN, hasLength : BOOLEAN, cl : 0 .. MaxBody,
                    known : BOOLEAN, open : BOOLEAN,
                    answer : 0 .. MaxAnswer] :
                /\ r.open => r.needsLength
                /\ ~r.hasLength \/ ~r.needsLength => r.cl = 0}

EmptyState == [nread |-> 0, buffer |-> <<>>, count |-> 0]
EmptyIo == [data |-> <<>>, head |-> 0, total |-> 0]

SpaceLen(io) == BufferSize - io.head

\* io_inc_head and io_inc_tail.
Filled(io, bytes) == [data |-> io.data \o bytes,
                      head |-> io.head + Len(bytes), total |-> io.total + Len(bytes)]
Drained(io, n) == [io EXCEPT !.data = SubSeq(@, n + 1, Len(@)),
                             !.head = IF n = Len(io.data) THEN 0 ELSE @]

FirstBytes(s, n) == SubSeq(s, 1, IF n < Len(s) THEN n ELSE Len(s))

Init ==
    /\ req \in Requests
    /\ unsent = Headers \o Body
    /\ socket = <<>>
    /\ broken = FALSE
    /\ at = "poll"
    /\ remote_ready = FALSE /\ local_ready = FALSE
    /\ rem = EmptyIo /\ loc = EmptyIo
    /\ parsed = FALSE /\ embedded = FALSE /\ dontClose = FALSE
    /\ remClosed = FALSE /\ locClosed = FALSE
    /\ state = EmptyState /\ memory = "null"
    /\ received = <<>> /\ handled = <<>>

---------------------------------------------------------------------------
(* query_process, called through call_user with the data of rem and the    *)
(* space of loc, and what its caller does then.                            *)

\* Mutant: the first call tells that it has taken the data.
FirstCallTakesData == Len(rem.data)

\* The first call only allocates: in.num_bytes stays zero.
FirstCallTakes == 0

\* Mutant: the body is not waited for.
BodyStarted(nread) == TRUE

BodyRead(nread) == nread >= req.cl

Copied(buffer, count, n) == SubSeq(buffer, count + 1, count + n)

\* Mutant: a callback that has ended is not noted.
NeverEnds(end) == TRUE

\* call_user: FLAG_DONT_CLOSE is what is left of it; read_stream and write_stream
\* stop the stream of a callback that has ended.
StaysOpen(end) == ~end

\* The outcome of a call: bytes taken from rem, bytes put into loc, and the end.
Outcome(taken, out, end) ==
    /\ rem' = Drained(rem, taken)
    /\ loc' = Filled(loc, out)
    /\ dontClose' = StaysOpen(end)
    /\ embedded' = StaysOpen(end)
    /\ locClosed' = ~StaysOpen(end)

\* delete (struct state *) arg->state; the pointer stays.
Deleted == memory' = IF memory = "live" THEN "freed" ELSE "misused"

\* 411 for a body without a length; 301 or 403 for a cookie that is not known.
Refuse ==
    /\ \/ req.needsLength /\ ~req.hasLength
       \/ memory = "null" /\ ~req.known /\ ~req.open
    /\ Outcome(0, FirstBytes(Bytes("refusal", 1), SpaceLen(loc)), TRUE)
    /\ UNCHANGED <<state, memory, handled>>

Accepted == ~(req.needsLength /\ ~req.hasLength)

Allocate ==
    /\ Accepted /\ memory = "null" /\ (req.known \/ req.open)
    /\ state' = EmptyState
    /\ memory' = "live"
    /\ Outcome(FirstCallTakes, <<>>, FALSE)
    /\ UNCHANGED handled

\* The data read so far is appended; when the body is there the handler puts its
\* answer in its place, and each call copies what there is space for.
Continue ==
    LET buffer == state.buffer \o rem.data
        nread == state.nread + Len(rem.data)
        runs == BodyRead(nread) /\ state.count = 0
        text == IF runs THEN Answer ELSE buffer
        left == Len(text) - state.count
        n == IF ~BodyRead(nread) THEN 0
             ELSE IF SpaceLen(loc) < left THEN SpaceLen(loc) ELSE left
        end == BodyRead(nread) /\ n = left
    IN /\ Accepted /\ memory # "null"
       /\ state' = [nread |-> nread, buffer |-> text, count |-> state.count + n]
       /\ handled' = IF runs THEN Append(handled, buffer) ELSE handled
       /\ Outcome(Len(rem.data), Copied(text, state.count, n), end)
       /\ CASE memory # "live" -> memory' = "misused"
            [] end -> Deleted
            [] OTHER -> UNCHANGED memory

query_process == Refuse \/ Allocate \/ Continue

---------------------------------------------------------------------------
(* process_connection, once per turn of shttpd_poll. *)

\* select: whether there is something to read, the end of the stream included.
Poll ==
    /\ at = "poll"
    /\ remote_ready' = (SpaceLen(rem) > 0 /\ (socket # <<>> \/ broken))
    /\ local_ready' = embedded
    /\ at' = "remote"
    /\ UNCHANGED <<req, unsent, socket, broken, received, streams>>

\* read_stream(&c->rem): no more than the content length, once it is known; a
\* broken connection closes the stream.
ReadRemote ==
    /\ at = "remote"
    /\ at' = "parse"
    /\ IF remote_ready
       THEN LET limit == IF parsed /\ req.cl > 0 THEN req.cl - rem.total ELSE SpaceLen(rem)
                bytes == FirstBytes(socket, IF limit < SpaceLen(rem) THEN limit
                                            ELSE SpaceLen(rem))
            IN /\ rem' = Filled(rem, bytes)
               /\ socket' = SubSeq(socket, Len(bytes) + 1, Len(socket))
               /\ remClosed' = (remClosed \/ bytes = <<>>)
       ELSE UNCHANGED <<rem, socket, remClosed>>
    /\ UNCHANGED <<req, unsent, broken, remote_ready, local_ready, loc, parsed, embedded,
                   dontClose, locClosed, state, memory, received, handled>>

\* parse_http_request, when the headers are there, and setup_embedded_stream.
Parse ==
    /\ at = "parse"
    /\ at' = "local"
    /\ IF ~parsed /\ rem.data # <<>>
       THEN /\ rem' = [Drained(rem, 1) EXCEPT !.total = @ - 1]
            /\ parsed' = TRUE /\ embedded' = TRUE
       ELSE UNCHANGED <<rem, parsed, embedded>>
    /\ UNCHANGED <<req, unsent, socket, broken, remote_ready, local_ready, loc, dontClose,
                   remClosed, locClosed, state, memory, received, handled>>

\* read_stream(&c->loc).
ReadLocal ==
    /\ at = "local"
    /\ at' = "write"
    /\ IF local_ready /\ SpaceLen(loc) > 0
       THEN query_process
       ELSE UNCHANGED <<rem, loc, embedded, dontClose, locClosed, state, memory, handled>>
    /\ UNCHANGED <<req, unsent, socket, broken, remote_ready, local_ready, parsed,
                   remClosed, received>>

\* write_stream(&c->rem, &c->loc).
WriteLocal ==
    /\ at = "write"
    /\ at' = "send"
    /\ IF rem.data # <<>> /\ embedded
       THEN query_process
       ELSE UNCHANGED <<rem, loc, embedded, dontClose, locClosed, state, memory, handled>>
    /\ UNCHANGED <<req, unsent, socket, broken, remote_ready, local_ready, parsed,
                   remClosed, received>>

\* write_stream(&c->loc, &c->rem): the socket takes some bytes, or none, or has
\* been closed by the client.
WriteRemote(n) ==
    /\ at = "send"
    /\ at' = "check"
    /\ n \in 0 .. Len(loc.data)
    /\ IF loc.data # <<>> /\ ~remClosed
       THEN \/ /\ ~broken
               /\ loc' = Drained(loc, n)
               /\ received' = received \o FirstBytes(loc.data, n)
               /\ UNCHANGED remClosed
            \/ /\ broken /\ n = 0
               /\ remClosed' = TRUE
               /\ UNCHANGED <<loc, received>>
       ELSE n = 0 /\ UNCHANGED <<loc, received, remClosed>>
    /\ UNCHANGED <<req, unsent, socket, broken, remote_ready, local_ready, rem, parsed,
                   embedded, dontClose, locClosed, state, memory, handled>>

\* Mutant: a connection is closed as soon as its callback has ended.
ClosesAtOnce == remClosed \/ locClosed

\* A connection whose answer has been sent, or that is broken, is over.
Closes == remClosed \/ (locClosed /\ loc.data = <<>>)

\* close_embedded, if the callback has not ended: its state is deleted.
CloseEmbedded ==
    IF embedded /\ dontClose THEN Deleted ELSE UNCHANGED memory

\* disconnect, which frees the connection, or the next turn of the loop.
Check ==
    /\ at = "check"
    /\ IF Closes
       THEN at' = "gone" /\ CloseEmbedded
       ELSE at' = "poll" /\ UNCHANGED memory
    /\ UNCHANGED <<req, unsent, socket, broken, remote_ready, local_ready, rem, loc, parsed,
                   embedded, dontClose, remClosed, locClosed, state, received, handled>>

---------------------------------------------------------------------------
(* The client. *)

Send(n) ==
    /\ ~broken
    /\ n \in 1 .. Len(unsent)
    /\ socket' = socket \o FirstBytes(unsent, n)
    /\ unsent' = SubSeq(unsent, n + 1, Len(unsent))
    /\ UNCHANGED <<req, broken, at, remote_ready, local_ready, received, streams>>

Break ==
    /\ ~broken /\ at # "gone"
    /\ broken' = TRUE
    /\ UNCHANGED <<req, unsent, socket, at, remote_ready, local_ready, received, streams>>

Loop == \/ Poll \/ ReadRemote \/ Parse \/ ReadLocal \/ WriteLocal \/ Check
        \/ \E n \in 0 .. BufferSize : WriteRemote(n)

Next == Loop \/ Break \/ \E n \in 1 .. MaxBody + 1 : Send(n)

Spec == Init /\ [][Next]_vars

\* The loop of the daemon goes on; a client that waits for its answer sends its
\* request and makes place in its socket for the answer.
Fairness == /\ WF_vars(Loop)
            /\ WF_vars(\E n \in 1 .. MaxBody + 1 : Send(n))
            /\ SF_vars(\E n \in 1 .. BufferSize : WriteRemote(n))

FairSpec == Spec /\ Fairness

---------------------------------------------------------------------------
(* Properties *)

Io == [data : Seq({"headers", "body", "answer", "refusal"} \X Nat),
       head : 0 .. BufferSize, total : Nat]

\* The variables have their types, and the buffers are never overrun.
TypeOK == /\ req \in Requests
          /\ at \in {"poll", "remote", "parse", "local", "write", "send", "check", "gone"}
          /\ rem \in Io /\ loc \in Io
          /\ Len(rem.data) <= rem.head /\ Len(loc.data) <= loc.head
          /\ state.nread \in Nat /\ state.count \in 0 .. Len(state.buffer)
          /\ memory \in {"null", "live", "freed", "misused"}

\* The handler of a request runs once at most, and on the whole body, in order,
\* into however many calls the body and the answer are cut.
HandledOnce == handled \in {<<>>, <<Body>>}

\* query_process never looks at a state it has deleted and deletes none twice; and
\* none is left when its connection is gone, in whichever way.
StateFreedOnce == /\ memory # "misused"
                  /\ at = "gone" => memory # "live"

\* The client receives the bytes of its answer, or of a refusal, in order, none
\* twice and none of its own; and all of them, unless it breaks the connection.
AnsweredInOrder ==
    LET output == IF handled = <<>> THEN Bytes("refusal", 1) ELSE Answer
    IN /\ IsPrefix(received, output)
       /\ at = "gone" /\ ~broken => received = output

\* A client that does not break the connection gets to the end of it.
Ends == <>(broken \/ at = "gone")
===========================================================================
